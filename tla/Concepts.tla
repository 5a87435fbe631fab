------------------------------ MODULE Concepts ------------------------------
(* Concepts on their way through the driver: a row or a document leaf comes  *)
(* from the server, is decoded, looked at through the typed accessors of the *)
(* Rust and the C interface, turned into JSON, or put into a given row and   *)
(* sent back. Labels, IIDs and plain values are opaque; kept are the fields  *)
(* that may be missing, out of range, unknown or of the wrong type.          *)
EXTENDS Integers, FiniteSets, SequencesExt

CONSTANTS Columns,     \* column names of the answer
          Headers,     \* variables of given rows, sequences of names
          WireRows,    \* rows the server may send, sequences of wire entries
          WireLeaves,  \* document leaves the server may send
          Inputs,      \* wire values a client may construct through C
          Day          \* first offset that is not a time zone (86400 s)

ValueTypes == {"Boolean", "Integer", "Double", "Decimal", "String", "Date", "Datetime",
               "DatetimeTZ", "Duration", "Struct"}
TypeCategories == {"EntityType", "RelationType", "RoleType", "AttributeType"}
Instances == {"Entity", "Relation", "Attribute"}

(* Wire messages: a value has a payload that is in range, out of range or    *)
(* missing, and a time zone; an entry has a concept or a value; the type of  *)
(* an instance may be left out, so may the value type of a type.             *)
NoZone == [by |-> "none", known |-> FALSE, secs |-> 0]
WireValue(type, range, zone) == [type |-> type, range |-> range, zone |-> zone]
NoValue == WireValue("missing", "in", NoZone)
WireEntry(entry, iid, type, vt, value) ==
    [entry |-> entry, iid |-> iid, type |-> type, vt |-> vt, value |-> value]

(* What the schema of the protocol lets a server say: which variants an      *)
(* entry of a row and a leaf of a document have, and which of them the parts *)
(* belong to. Whether a part is there, known and in range is up to it.       *)
WireValues ==
    {v \in [type : ValueTypes \cup {"missing"}, range : {"in", "out", "missing"},
            zone : [by : {"none", "missing", "name", "offset"}, known : BOOLEAN, secs : Int]] :
        /\ v.range # "in" => v.type \in {"Decimal", "Date", "Datetime", "DatetimeTZ"}
        /\ v.zone.by = "none" <=> v.type # "DatetimeTZ"}
WireEntries(entries) ==
    {w \in [entry : entries, iid : Nat, type : {"none", "typed"},
            vt : ValueTypes \cup {"none", "missing"}, value : WireValues] :
        /\ w.vt = "missing" => w.entry \in {"AttributeType", "Attribute", "ValueType"}
        /\ w.entry \in {"Entity", "Relation"} => w.iid # 0}
RowEntries == WireEntries({"missing", "Empty", "noConcept", "Value", "ConceptList", "ValueList"}
                          \cup TypeCategories \cup Instances)
LeafEntries == WireEntries({"missing", "Empty", "ValueType", "Kind", "Attribute", "Value"}
                           \cup TypeCategories)

ASSUME ConceptConstants ==
    /\ Day \in Nat
    /\ Columns \in Seq(STRING) /\ Headers \subseteq Seq(STRING)
    /\ WireRows \subseteq Seq(RowEntries) /\ WireLeaves \subseteq LeafEntries

VARIABLES
    message,   \* what the server sent: [kind, row, leaf]
    answer,    \* what it was decoded to: [state, row]
    rows,      \* the given rows being built: [header, row, pushed, sent], and
               \* as history the variables that the client set
    capi       \* the C caller: its concept, what it asked and heard, its process

conceptVars == <<message, answer, rows, capi>>

Empty == [category |-> "Empty", iid |-> 0, type |-> "none", vt |-> "none", value |-> NoValue]
NoRows == [header |-> <<>>, row |-> <<>>, pushed |-> <<>>, sent |-> <<>>, given |-> {}]
NoCaller == [concept |-> Empty, asked |-> "none", yes |-> FALSE, process |-> "running"]

ConceptsInit ==
    /\ message \in [kind : {"row"}, row : WireRows, leaf : {Empty}]
                   \cup [kind : {"leaf"}, row : {<<>>}, leaf : WireLeaves]
    /\ answer = [state |-> "none", row |-> <<>>]
    /\ rows = NoRows
    /\ capi = NoCaller

-----------------------------------------------------------------------------
(* Decoding (try_from_proto). The outcome is "ok", "err" or "panic", and the *)
(* first of several that is not "ok" counts.                                 *)
FirstBad(outcomes) ==
    IF \A i \in DOMAIN outcomes : outcomes[i] = "ok" THEN "ok"
    ELSE outcomes[CHOOSE i \in DOMAIN outcomes :
                    outcomes[i] # "ok" /\ \A j \in 1..(i - 1) : outcomes[j] = "ok"]

East(secs) == secs
West(secs) == -secs
FixedOffset(secs) == IF secs >= 0 THEN East(secs) ELSE West(-secs)

ZoneOutcome(zone) ==
    CASE zone.by = "missing" -> "err"
      [] zone.by = "name" -> IF zone.known THEN "ok" ELSE "err"
      [] zone.by = "offset" -> IF zone.secs \in (1 - Day)..(Day - 1) THEN "ok" ELSE "err"

FaultyValueOutcome(v) == IF v.type = "missing" THEN "err" ELSE "ok"

(* from_parts() asserts, the dates and timestamps are unwrapped.             *)
ValueOutcome(v) ==
    CASE v.type \in {"missing", "Struct"} -> "err"
      [] v.type \in {"Decimal", "Date", "Datetime"} -> IF v.range = "in" THEN "ok" ELSE "panic"
      [] v.type = "DatetimeTZ" ->
           FirstBad(<<CASE v.range = "missing" -> "err" [] v.range = "out" -> "panic" [] OTHER -> "ok",
                      ZoneOutcome(v.zone)>>)
      [] OTHER -> "ok"

DecodedValue(v) == IF v.zone.by = "offset" THEN [v EXCEPT !.zone.secs = FixedOffset(v.zone.secs)] ELSE v

(* The value type of an attribute type is unwrapped when its holder is there.*)
TypeOutcome(w) == IF w.vt = "missing" THEN "panic" ELSE "ok"

EntryOutcome(w) ==
    CASE w.entry \in {"missing", "noConcept", "ConceptList", "ValueList"} -> "err"
      [] w.entry = "AttributeType" -> TypeOutcome(w)
      [] w.entry = "Attribute" -> FirstBad(<<TypeOutcome(w), ValueOutcome(w.value)>>)
      [] w.entry = "Value" -> ValueOutcome(w.value)
      [] OTHER -> "ok"

Decoded(w) ==
    [category |-> w.entry, iid |-> w.iid, type |-> w.type, vt |-> w.vt, value |-> DecodedValue(w.value)]

DecodeRow ==
    /\ message.kind = "row"
    /\ answer.state = "none"
    /\ LET outcome == FirstBad([i \in DOMAIN message.row |-> EntryOutcome(message.row[i])])
       IN  answer' = [state |-> outcome,
                      row |-> IF outcome = "ok" THEN [i \in DOMAIN message.row |-> Decoded(message.row[i])]
                              ELSE <<>>]
    /\ UNCHANGED <<message, rows, capi>>

(* A leaf that is missing decodes like an empty one. Kinds are numbered.     *)
LeafOutcome(w) ==
    CASE w.entry \in {"Empty", "missing"} -> "ok"
      [] w.entry = "ValueType" -> IF w.vt = "missing" THEN "err" ELSE "ok"
      [] w.entry = "Kind" -> IF w.iid \in 0..3 THEN "ok" ELSE "err"
      [] OTHER -> EntryOutcome(w)

DecodeLeaf ==
    /\ message.kind = "leaf"
    /\ answer.state = "none"
    /\ answer' = [state |-> LeafOutcome(message.leaf),
                  row |-> IF LeafOutcome(message.leaf) # "ok" THEN <<>>
                          ELSE IF message.leaf.entry = "missing" THEN <<Empty>>
                          ELSE <<Decoded(message.leaf)>>]
    /\ UNCHANGED <<message, rows, capi>>

-----------------------------------------------------------------------------
(* The accessors of Concept and of Value.                                    *)
TryGetIid(c) == IF c.category \in {"Entity", "Relation"} THEN c.iid ELSE 0

TryGetValueType(c) ==
    CASE c.category = "AttributeType" -> c.vt
      [] c.category \in {"Attribute", "Value"} -> c.value.type
      [] OTHER -> "none"

FaultyTryGetValue(c) == IF c.category = "Value" THEN c.value ELSE NoValue
TryGetValue(c) == IF c.category \in {"Attribute", "Value"} THEN c.value ELSE NoValue

IsOf(c, type) == TryGetValueType(c) = type
TryGetAs(c, type) == IF TryGetValue(c).type = type THEN TryGetValue(c) ELSE NoValue

(* into_json(): a leaf has no JSON when it is an entity or a relation.       *)
Json(c) ==
    CASE c.category = "Empty" -> "null"
      [] c.category \in TypeCategories -> "object"
      [] c.category \in {"Attribute", "Value"} ->
           CASE c.value.type = "Boolean" -> "boolean"
             [] c.value.type \in {"Integer", "Double"} -> "number"
             [] c.value.type = "Struct" -> "object"
             [] OTHER -> "string"
      [] c.category \in {"ValueType", "Kind"} -> "string"
      [] OTHER -> "unreachable"

DocumentJson ==
    /\ message.kind = "leaf"
    /\ answer.state = "ok"
    /\ answer' = [answer EXCEPT !.state = Json(answer.row[1])]
    /\ UNCHANGED <<message, rows, capi>>

-----------------------------------------------------------------------------
(* Given rows: GivenRowsHeader maps a name to its last position.             *)
Width == Len(rows.header)
IndexOf(seq, name) == {i \in DOMAIN seq : seq[i] = name}
Smallest(S) == CHOOSE i \in S : \A j \in S : i <= j
Largest(S) == CHOOSE i \in S : \A j \in S : j <= i

NewRows(h) ==
    /\ message.kind = "row"
    /\ answer.state = "ok"
    /\ rows = NoRows
    /\ capi = NoCaller
    /\ rows' = [NoRows EXCEPT !.header = h, !.row = [i \in DOMAIN h |-> Empty]]
    /\ UNCHANGED <<message, answer, capi>>

(* ConceptRow::get(): an unknown column, or one behind the end of the row,   *)
(* is an error. An empty entry is given as GivenRowEntry::Empty.             *)
Available(name) == IndexOf(Columns, name) \cap DOMAIN answer.row # {}
Get(name) == answer.row[Smallest(IndexOf(Columns, name))]

(* Types are refused (InvalidTypeToGivenRow).                                *)
FaultyGiveable(c) == c.category # "EntityType"
Giveable(c) == c.category \notin TypeCategories

FaultyPosition(name) == Smallest(IndexOf(Columns, name))    \* that of the answer
Position(name) == Largest(IndexOf(rows.header, name))

SetVariable(name) ==
    /\ rows.header # <<>>
    /\ rows.pushed = <<>>
    /\ IndexOf(rows.header, name) # {}
    /\ Available(name)
    /\ Giveable(Get(name))
    /\ rows' = [rows EXCEPT !.row[Position(name)] = Get(name), !.given = @ \cup {name}]
    /\ UNCHANGED <<message, answer, capi>>

PushRow ==
    /\ rows.header # <<>>
    /\ rows.pushed = <<>>
    /\ Len(rows.row) = Width
    /\ rows' = [rows EXCEPT !.pushed = rows.row]
    /\ UNCHANGED <<message, answer, capi>>

(* into_proto(): instances are sent as their IID only; there is no encoding  *)
(* of a struct or of a type.                                                 *)
Encode(c) ==
    CASE c.category = "Value" /\ c.value.type = "Struct" -> [Empty EXCEPT !.category = "unreachable"]
      [] c.category \in TypeCategories -> [Empty EXCEPT !.category = "unreachable"]
      [] c.category \in Instances -> [Empty EXCEPT !.category = c.category, !.iid = c.iid]
      [] OTHER -> c

SendRows ==
    /\ rows.pushed # <<>>
    /\ rows.sent = <<>>
    /\ rows' = [rows EXCEPT !.sent = [i \in DOMAIN rows.pushed |-> Encode(rows.pushed[i])]]
    /\ UNCHANGED <<message, answer, capi>>

-----------------------------------------------------------------------------
(* The C interface: the caller takes a concept of the row, asks what it is,  *)
(* and gets its value. A panic in an extern function ends the process. None  *)
(* of this changes the row, so it is not interleaved with given rows.        *)
Running ==
    /\ message.kind = "row"
    /\ answer.state = "ok"
    /\ rows = NoRows
    /\ capi.process = "running"

TakeConcept ==
    /\ Running
    /\ capi.concept = Empty
    /\ \E i \in DOMAIN answer.row : capi' = [capi EXCEPT !.concept = answer.row[i]]
    /\ UNCHANGED <<message, answer, rows>>

(* concept_new_...: out of range, or of an unknown zone, it is not made.     *)
NewConcept ==
    /\ Running
    /\ capi.concept = Empty
    /\ \E v \in Inputs :
         capi' = IF ValueOutcome(v) = "ok"
                 THEN [capi EXCEPT !.concept = [Empty EXCEPT !.category = "Value", !.value = v]]
                 ELSE [capi EXCEPT !.process = "aborted by constructor"]
    /\ UNCHANGED <<message, answer, rows>>

AskType(type) ==
    /\ Running
    /\ capi.concept # Empty
    /\ capi' = [capi EXCEPT !.asked = type, !.yes = IsOf(capi.concept, type)]
    /\ UNCHANGED <<message, answer, rows>>

GetAs(type) ==
    /\ Running
    /\ capi.concept # Empty
    /\ capi' = IF TryGetAs(capi.concept, type) # NoValue THEN capi
               ELSE [capi EXCEPT !.process = "aborted by getter", !.asked = type,
                                 !.yes = capi.yes /\ capi.asked = type]
    /\ UNCHANGED <<message, answer, rows>>

(* concept_is_entity and the others, and entity_get_type and the others: the *)
(* type is null when the server left it out.                                 *)
AskCategory(category) ==
    /\ Running
    /\ capi.concept # Empty
    /\ capi' = [capi EXCEPT !.asked = category, !.yes = capi.concept.category = category]
    /\ UNCHANGED <<message, answer, rows>>

BorrowAs(concept, category) == concept.category = category

GetType(category) ==
    /\ Running
    /\ capi.concept # Empty
    /\ capi' = IF BorrowAs(capi.concept, category) THEN capi
               ELSE [capi EXCEPT !.process = "aborted by getter", !.asked = category,
                                 !.yes = capi.yes /\ capi.asked = category]
    /\ UNCHANGED <<message, answer, rows>>

ConceptsNext ==
    \/ DecodeRow \/ DecodeLeaf \/ DocumentJson
    \/ \E h \in Headers : NewRows(h)
    \/ \E i \in DOMAIN rows.header : SetVariable(rows.header[i])
    \/ PushRow \/ SendRows
    \/ TakeConcept \/ NewConcept
    \/ \E type \in ValueTypes : AskType(type) \/ GetAs(type)
    \/ \E category \in Instances : AskCategory(category) \/ GetType(category)

ConceptsSpec == ConceptsInit /\ [][ConceptsNext]_conceptVars

-----------------------------------------------------------------------------
(* What a client takes from an answer under a variable and gives to another  *)
(* query under the same variable names the same thing at the server: each    *)
(* variable that was set arrives, values as they were sent, zones and        *)
(* offsets included, instances by their IID, whatever the order of the two   *)
(* headers and repeated names in them; nothing else arrives but Empty.       *)
SameThing(sent, w) ==
    /\ sent.category = w.entry
    /\ sent.iid = w.iid
    /\ sent.category = "Value" => sent.value = w.value

TakenFrom(i) ==
    {k \in DOMAIN message.row :
        Columns[k] = rows.header[i] /\ SameThing(rows.sent[i], message.row[k])}

CarriedOver ==
    rows.sent # <<>> =>
        /\ \A name \in rows.given :
             \E i \in DOMAIN rows.sent : rows.header[i] = name /\ TakenFrom(i) # {}
        /\ \A i \in DOMAIN rows.sent :
             rows.sent[i] = Empty \/ (rows.header[i] \in rows.given /\ TakenFrom(i) # {})

(* The arms that the code marks unreachable are: what decoding refuses is    *)
(* what JSON and encoding have no case for (structs, types, entities and     *)
(* relations in a document), and what is not a type has an IID or a value to *)
(* be printed.                                                               *)
UnreachableArms ==
    /\ answer.state # "unreachable"
    /\ \A i \in DOMAIN answer.row : answer.row[i].category \in Instances \cup {"Value"} =>
         TryGetIid(answer.row[i]) # 0 \/ TryGetValue(answer.row[i]) # NoValue
    /\ \A i \in DOMAIN rows.sent : rows.sent[i].category # "unreachable"

(* A message with a required part missing, unknown or out of range never     *)
(* becomes a concept: each is an error, or a panic of the decoding task.     *)
MalformedRefused ==
    answer.state = "ok" => \A i \in DOMAIN answer.row :
        LET c == answer.row[i]
        IN  /\ c.category \notin {"missing", "noConcept"}
            /\ c.vt # "missing"
            /\ c.category \in {"Attribute", "Value"} =>
                 /\ c.value.type \in ValueTypes
                 /\ c.value.range = "in"
                 /\ c.value.zone.by # "missing"
                 /\ c.value.zone.by = "name" => c.value.zone.known
                 /\ c.value.zone.by = "offset" => c.value.zone.secs \in (1 - Day)..(Day - 1)

(* A caller that asks concept_is_X of a value or an attribute and hears true *)
(* gets the value from concept_get_X: the two agree on attributes. One that  *)
(* asks concept_is_entity may ask for the entity's type. An attribute type   *)
(* says yes by its value type and has no value: there the getter aborts.     *)
AskedGetterReturns ==
    capi.process = "aborted by getter" /\ capi.yes => capi.concept.category = "AttributeType"

=============================================================================
