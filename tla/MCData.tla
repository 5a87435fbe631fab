------------------------------- MODULE MCData -------------------------------
(* Instances of the modules about data: values, concepts, analysed queries   *)
(* and the C interface. They share no state, so one run checks them side by  *)
(* side: each behaviour is about one of them.                                *)
EXTENDS Values, Concepts, AnalyzedQueries, CInterface

VARIABLE about   \* the module this behaviour is about

SomeOperands ==
    {[neg |-> n, int |-> i, frac |-> f[1], digits |-> f[2]] :
        n \in BOOLEAN, i \in 0..1, f \in {<<0, 1>>, <<5, 1>>, <<7, 2>>, <<99, 2>>, <<1, 3>>}}

SomeDurations ==
    [months : 0..5, days : 0..1,
     nanos : (0..12) \cup {100, 101, 150, 199, 200, 205, 210, 300, 400, 420, 500, 599, 640, 700, 800, 810}]

Zone(by, known, secs) == [by |-> by, known |-> known, secs |-> secs]
Zones == {Zone("missing", FALSE, 0), Zone("name", TRUE, 0), Zone("name", FALSE, 0)}
         \cup {Zone("offset", FALSE, s) : s \in -2..2}
SomeValues ==
    {WireValue(t, "in", NoZone) : t \in (ValueTypes \ {"DatetimeTZ"}) \cup {"missing"}}
    \cup {WireValue(t, "out", NoZone) : t \in {"Decimal", "Date", "Datetime"}}
    \cup {WireValue("DatetimeTZ", r, z) : r \in {"in", "out", "missing"}, z \in Zones}
ClientValues == {v \in SomeValues : v.type \notin {"missing", "Struct"} /\ v.range # "missing"
                                    /\ v.zone.by # "missing"}

Bare(entry) == WireEntry(entry, 1, "none", "none", NoValue)
Common ==
    {Bare(e) : e \in {"missing", "Empty", "EntityType", "RelationType", "RoleType"}}
    \cup {WireEntry("AttributeType", 1, "none", vt, NoValue) : vt \in {"none", "missing", "Date"}}
    \cup {WireEntry("Attribute", 1, "typed", vt, v) : vt \in {"Date", "missing"}, v \in SomeValues}
    \cup {WireEntry("Value", 1, "none", "none", v) : v \in SomeValues}
Entries == Common \cup {Bare(e) : e \in {"noConcept", "ConceptList", "ValueList", "Entity", "Relation"}}
Others == {WireEntry("Entity", 2, "typed", "none", NoValue), Bare("Empty"),
           WireEntry("Value", 0, "none", "none", WireValue("Date", "out", NoZone))}
SomeRows == {<<>>} \cup {<<e>> : e \in Entries} \cup {<<e, f>> : e \in Entries, f \in Others}
SomeLeaves ==
    Common \cup {WireEntry("Kind", k, "none", "none", NoValue) : k \in 0..4}
    \cup {WireEntry("ValueType", 0, "none", vt, NoValue) : vt \in {"missing", "Date"}}

TwoColumns == <<"x", "y">>
SomeHeaders == {<<"x", "y">>, <<"y", "x">>, <<"y">>, <<"x", "y", "x">>}

-----------------------------------------------------------------------------
vars == <<about, valueVars, conceptVars, analyzeVars, cVars>>

Parts == {"decimal", "duration", "concepts", "analyze", "handles", "rows"}

(* Handles are followed with a builder of one row, rows while nothing is left *)
(* to the collector.                                                         *)
HandlesNext == CNext /\ client'.next <= 2
RowsNext == CNext /\ \A k \in unowned : k \in held' \/ ~Live(k)'

(* What the behaviour is not about starts in one fixed state.                *)
Init ==
    /\ about \in Parts
    /\ CInit
    /\ ValuesInit
    /\ about # "duration" => duration.value = CHOOSE d \in SomeDurations : TRUE
    /\ ConceptsInit
    /\ about # "concepts" => message.kind = "row" /\ message.row = <<>>
    /\ AnalyzeInit
    /\ about # "analyze" => path = <<CHOOSE n \in Nodes("Query") : TRUE>>

Next ==
    /\ UNCHANGED about
    /\ \/ about = "decimal" /\ DecimalNext /\ UNCHANGED <<conceptVars, analyzeVars, cVars>>
       \/ about = "duration" /\ DurationNext /\ UNCHANGED <<conceptVars, analyzeVars, cVars>>
       \/ about = "concepts" /\ ConceptsNext /\ UNCHANGED <<valueVars, analyzeVars, cVars>>
       \/ about = "analyze" /\ AnalyzeNext /\ UNCHANGED <<valueVars, conceptVars, cVars>>
       \/ about = "handles" /\ HandlesNext /\ UNCHANGED <<valueVars, conceptVars, analyzeVars>>
       \/ about = "rows" /\ RowsNext /\ UNCHANGED <<valueVars, conceptVars, analyzeVars>>

Spec == Init /\ [][Next]_vars

=============================================================================
