-------------------------- MODULE AnalyzedQueries ---------------------------
(* Analysed queries: a tree of messages is decoded as a whole, then a C      *)
(* caller walks it, asking each object for its variant and calling the       *)
(* accessors named for it. A message is followed along one path; the rest of *)
(* the tree is well formed. Names, labels and numbers are opaque.            *)
EXTENDS Naturals, FiniteSets, SequencesExt

CONSTANT MaxDepth   \* bound on the length of a path

VARIABLES
    path,   \* the nodes from the query down: [variant, field, is]
    walk    \* the caller: [state, at]

analyzeVars == <<path, walk>>

-----------------------------------------------------------------------------
(* What try_from_proto() reads of a variant: its fields, <<name, kind of     *)
(* object, mode>>, and how each is read: "one" must be there, "opt" may be   *)
(* missing, "many" is a list, an "enum" must be a known number, "data" and   *)
(* "held" are always there, an "id" is a number that names a conjunction, or *)
(* none. Fields pairs each variant with each of its fields.                  *)
One(name, kind) == <<name, kind, "one">>
Opt(name, kind) == <<name, kind, "opt">>
Many(name, kind) == <<name, kind, "many">>
Held(name, kind) == <<name, kind, "held">>
Enum(name) == <<name, "number", "enum">>
Data(name) == <<name, "scalar", "data">>
Id(name) == <<name, "conjunctions", "id">>
Edge(a, b) == {One(a, "vertex"), One(b, "vertex"), Enum("exactness")}

Has(variants, fields) == variants \X fields

StageVariants == {"Match", "Insert", "Put", "Update", "Delete", "Select", "Sort", "Require", "Offset",
                  "Limit", "Distinct", "Reduce"}
ConstraintVariants == {"Or", "Not", "Try", "Isa", "Has", "Links", "Kind", "Sub", "Owns", "Relates",
                       "Plays", "Value", "Label", "Comparison", "Expression", "FunctionCall", "Is", "Iid"}
VertexVariants == {"VariableVertex", "LabelVertex", "ValueVertex", "NamedRoleVertex"}

(* The kinds of objects in the query, each with its variants.                *)
Variants ==
    [query |-> {"Query"}, function |-> {"Function"}, pipeline |-> {"Pipeline"}, given |-> {"Given"},
     returns |-> {"Stream", "Single", "Check", "ReduceReturn"}, stage |-> StageVariants,
     sortVariable |-> {"SortVariable"}, assign |-> {"ReduceAssign"}, reducer |-> {"Reducer"},
     conjunctions |-> {"Conjunction"}, constraint |-> {"Constraint"}, inner |-> ConstraintVariants,
     vertex |-> VertexVariants, role |-> {"NamedRole"},
     annotations |-> {"InstanceTypes", "TypeTypes", "ValueTypeOf"}, fetch |-> {"Object", "List", "Leaf"}]

QueryFields ==
    Has({"Query"}, {Data("source"), Many("preamble", "function"), Opt("given", "given"),
                    One("query", "pipeline"), Opt("fetch", "fetch")})

FunctionFields ==
    Has({"Function"}, {Many("arguments", "variable"), One("return_operation", "returns"),
                       One("body", "pipeline"), Many("argument_annotations", "annotations"),
                       Many("return_annotations", "annotations")})
    \cup Has({"Stream"}, {Many("variables", "variable")})
    \cup Has({"Single"}, {Data("selector"), Many("variables", "variable")})
    \cup Has({"ReduceReturn"}, {Many("reducers", "reducer")})

PipelineFields ==
    Has({"Pipeline"}, {Many("conjunctions", "conjunctions"), Many("stages", "stage"),
                       Data("variable_info"), Many("outputs", "variable")})

StageFields ==
    Has({"Match", "Insert", "Put", "Update", "Delete"}, {Id("block")})
    \cup Has({"Delete"}, {Many("deleted_variables", "variable")})
    \cup Has({"Select", "Require"}, {Many("variables", "variable")})
    \cup Has({"Sort"}, {Many("sort_variables", "sortVariable")})
    \cup Has({"Offset"}, {Data("offset")}) \cup Has({"Limit"}, {Data("limit")})
    \cup Has({"Reduce"}, {Many("reducers", "assign"), Many("groupby", "variable")})

ReduceFields ==
    Has({"ReduceAssign"}, {One("assigned", "variable"), One("reducer", "reducer")})
    \cup Has({"Reducer"}, {Many("variables", "variable"), Data("reducer")})

ConstraintFields ==
    Has({"Constraint"}, {One("constraint", "inner"), Opt("span", "scalar")})
    \cup Has({"Or"}, {Id("branches")}) \cup Has({"Not", "Try"}, {Id("conjunction")})
    \cup Has({"Kind"}, {Enum("kind"), One("type", "vertex")})
    \cup Has({"Value"}, {One("attribute_type", "vertex"), One("value_type", "type")})
    \cup Has({"Label"}, {One("type", "vertex"), Data("label")})

EdgeFields ==
    Has({"Isa"}, Edge("instance", "type")) \cup Has({"Has", "Owns"}, Edge("owner", "attribute"))
    \cup Has({"Links"}, Edge("relation", "player") \cup {One("role", "vertex")})
    \cup Has({"Sub"}, Edge("subtype", "supertype")) \cup Has({"Relates"}, Edge("relation", "role"))
    \cup Has({"Plays"}, Edge("player", "role"))

TermFields ==
    Has({"Comparison"}, {One("lhs", "vertex"), One("rhs", "vertex"), Enum("comparator")})
    \cup Has({"Expression"}, {One("assigned", "vertex"), Many("arguments", "vertex"), Data("text")})
    \cup Has({"FunctionCall"}, {Data("name"), Many("assigned", "vertex"), Many("arguments", "vertex")})
    \cup Has({"Is"}, {One("lhs", "vertex"), One("rhs", "vertex")})
    \cup Has({"Iid"}, {One("concept", "vertex"), Data("iid")})

ConjunctionFields ==
    Has({"Conjunction"}, {Many("constraints", "constraint"), Many("variable_annotations", "annotations")})

SortFields == Has({"SortVariable"}, {One("variable", "variable"), Enum("direction")})

VertexFields ==
    Has({"VariableVertex"}, {Data("variable")}) \cup Has({"LabelVertex"}, {One("label", "type")})
    \cup Has({"ValueVertex"}, {One("value", "value")}) \cup Has({"NamedRoleVertex"}, {Held("role", "role")})
    \cup Has({"NamedRole"}, {One("variable", "variable"), Data("name")})

AnnotationFields ==
    Has({"InstanceTypes", "TypeTypes"}, {Many("types", "type"), Data("is_optional")})
    \cup Has({"ValueTypeOf"}, {One("value_type", "type"), Data("is_optional")})
    \cup Has({"Given"}, {Many("variables", "variable"), Many("variable_annotations", "annotations")})

FetchFields ==
    Has({"Object"}, {Many("fetch", "fetch")}) \cup Has({"List"}, {Held("element", "fetch")})
    \cup Has({"Leaf"}, {Many("annotations", "type")})

Fields == QueryFields \cup FunctionFields \cup PipelineFields \cup StageFields \cup ReduceFields
          \cup ConstraintFields \cup EdgeFields \cup TermFields \cup ConjunctionFields \cup SortFields
          \cup VertexFields \cup AnnotationFields \cup FetchFields

Name(node) == node.field[1]
Child(node) == node.field[2]
Mode(node) == node.field[3]

(* A message without its variant, a missing "one" and an unknown "enum" are  *)
(* refused, and with them the whole query.                                   *)
Refused(node) ==
    \/ node.variant = "missing"
    \/ node.is = "missing" /\ Mode(node) \in {"one", "enum"}

-----------------------------------------------------------------------------
(* The C side: the enumerator that reports a variant, and the accessors: the *)
(* enumerator each is named for, the variant it matches on (any other is     *)
(* unreachable!) and the fields it gives.                                    *)
Renamed ==
    [Stream |-> "StreamReturn", Single |-> "SingleReturn", Check |-> "CheckReturn", Kind |-> "KindOf",
     InstanceTypes |-> "InstanceAnnotations", TypeTypes |-> "TypeAnnotations",
     ValueTypeOf |-> "ValueAnnotations", Object |-> "ObjectDocument", List |-> "ListDocument",
     Leaf |-> "LeafDocument"]

FaultyReported(variant) == IF variant = "Owns" THEN "Has" ELSE variant
Reported(variant) == IF variant \in DOMAIN Renamed THEN Renamed[variant] ELSE variant

As(tag, matches, fields) == {tag} \X {matches} \X fields
OfEach(variants, fields) == {<<v, v, f>> : v \in variants, f \in fields}
Of(variant, fields) == OfEach({variant}, fields)

QueryAccessors ==
    Of("Query", {"query", "preamble", "given", "fetch"})
    \cup As("LeafDocument", "Leaf", {"annotations"}) \cup As("ListDocument", "List", {"element"})
    \cup As("ObjectDocument", "Object", {"fetch"})
    \cup Of("Given", {"variables", "variable_annotations"})

FunctionAccessors ==
    Of("Function", {"body", "arguments", "return_operation", "argument_annotations", "return_annotations"})
    \cup As("StreamReturn", "Stream", {"variables"})
    \cup As("SingleReturn", "Single", {"variables", "selector"}) \cup Of("ReduceReturn", {"reducers"})

StageAccessors ==
    Of("Pipeline", {"stages"})
    \cup OfEach({"Match", "Insert", "Put", "Update", "Delete"}, {"block"})
    \cup Of("Delete", {"deleted_variables"}) \cup Of("Select", {"variables"}) \cup Of("Require", {"variables"})
    \cup Of("Offset", {"offset"}) \cup Of("Limit", {"limit"}) \cup Of("Sort", {"sort_variables"})
    \cup Of("Reduce", {"groupby", "reducers"})

ReduceAccessors ==
    Of("SortVariable", {"variable", "direction"}) \cup Of("ReduceAssign", {"assigned", "reducer"})
    \cup Of("Reducer", {"reducer", "variables"}) \cup Of("Pipeline", {"variable_info"})

ConjunctionAccessors ==
    Of("Pipeline", {"conjunctions"}) \cup Of("Conjunction", {"constraints", "variable_annotations"})

AnnotationAccessors ==
    As("InstanceAnnotations", "InstanceTypes", {"types"}) \cup As("TypeAnnotations", "TypeTypes", {"types"})
    \cup As("ValueAnnotations", "ValueTypeOf", {"value_type"}) \cup Of("Constraint", {"span", "constraint"})

EdgeAccessors ==
    Of("Isa", {"instance", "type"}) \cup Of("Has", {"owner", "attribute"})
    \cup Of("Links", {"relation", "player", "role"}) \cup Of("Sub", {"subtype", "supertype"})
    \cup Of("Owns", {"owner", "attribute"}) \cup Of("Relates", {"relation", "role"})

ExactnessAccessors ==
    Of("Plays", {"player", "role"})
    \cup OfEach({"Isa", "Has", "Links", "Sub", "Owns", "Relates", "Plays"}, {"exactness"})

TermAccessors ==
    Of("FunctionCall", {"name", "assigned", "arguments"})
    \cup Of("Expression", {"text", "assigned", "arguments"})
    \cup Of("Is", {"lhs", "rhs"}) \cup Of("Iid", {"concept", "iid"})
    \cup Of("Comparison", {"lhs", "rhs", "comparator"})

TypeAccessors ==
    As("KindOf", "Kind", {"kind", "type"}) \cup Of("Label", {"type", "label"})
    \cup Of("Value", {"attribute_type", "value_type"}) \cup Of("Or", {"branches"})
    \cup Of("Not", {"conjunction"}) \cup Of("Try", {"conjunction"})

VertexAccessors ==
    Of("VariableVertex", {"variable"}) \cup Of("LabelVertex", {"label"}) \cup Of("ValueVertex", {"value"})
    \cup Of("NamedRoleVertex", {"role"}) \cup Of("NamedRole", {"variable", "name"})

Accessors ==
    QueryAccessors \cup FunctionAccessors \cup StageAccessors \cup ReduceAccessors
    \cup ConjunctionAccessors \cup AnnotationAccessors \cup EdgeAccessors \cup ExactnessAccessors
    \cup TermAccessors \cup TypeAccessors \cup VertexAccessors

(* Accessors that return null for a field that is not there.                 *)
Nullable(mode) == mode \in {"opt", "id"}

-----------------------------------------------------------------------------
FieldsOf(variant) == {f[2] : f \in {g \in Fields : g[1] = variant}}
Nodes(variant) == {n \in [variant : {variant}, field : FieldsOf(variant), is : {"there", "missing"}] :
                     n.is = "missing" => Mode(n) \notin {"data", "held"}}
NoVariant == [variant |-> "missing", field |-> <<"none", "none", "none">>, is |-> "there"]

AnalyzeInit ==
    /\ \E n \in Nodes("Query") : path = <<n>>
    /\ walk = [state |-> "message", at |-> 1]

Deepest == Last(path)

(* The server puts one more object under the last field.                     *)
Extend ==
    /\ walk.state = "message"
    /\ Len(path) < MaxDepth
    /\ Deepest.variant # "missing"
    /\ Deepest.is = "there"
    /\ Child(Deepest) \in DOMAIN Variants
    /\ \E n \in {NoVariant} \cup UNION {Nodes(v) : v \in Variants[Child(Deepest)]} :
         path' = Append(path, n)
    /\ UNCHANGED walk

DecodeQuery ==
    /\ walk.state = "message"
    /\ walk' = [walk EXCEPT !.state = IF \E i \in DOMAIN path : Refused(path[i]) THEN "err" ELSE "at"]
    /\ UNCHANGED path

(* The caller asks for the variant and calls the accessor of the field.      *)
Heard(node, more) ==
    LET named == {a \in Accessors : a[1] = Reported(node.variant) /\ a[3] = Name(node)}
    IN  CASE named = {} -> "hidden"
          [] \E a \in named : a[2] # node.variant -> "aborted"
          [] node.is = "missing" /\ Mode(node) # "many" ->
               IF Nullable(Mode(node)) THEN "null" ELSE "unexpected null"
          [] more -> "at"
          [] OTHER -> "end"

CallAccessor ==
    /\ walk.state = "at"
    /\ LET heard == Heard(path[walk.at], walk.at < Len(path))
       IN  walk' = [state |-> heard, at |-> IF heard = "at" THEN walk.at + 1 ELSE walk.at]
    /\ UNCHANGED path

AnalyzeNext == Extend \/ DecodeQuery \/ CallAccessor

AnalyzeSpec == AnalyzeInit /\ [][AnalyzeNext]_analyzeVars

-----------------------------------------------------------------------------
(* A caller that asks every object for its variant first can walk a decoded  *)
(* query to each of its leaves: every part that was decoded has an accessor, *)
(* but for the three the interface leaves out, no accessor aborts, and none  *)
(* finds a part missing that it does not document as optional, whichever     *)
(* part of the server's message was malformed.                               *)
WalkTotal ==
    /\ walk.state \notin {"aborted", "unexpected null"}
    /\ walk.state = "hidden" => Name(path[walk.at]) \in {"source", "outputs", "is_optional"}

=============================================================================
