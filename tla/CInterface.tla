----------------------------- MODULE CInterface -----------------------------
(* The C interface: objects of the native heap, the handles the bindings     *)
(* hold, the error flag of the thread and the builder of given rows. The     *)
(* tables say what each extern function does with the handles it is passed,  *)
(* and the sets at their end what the bindings believe it does               *)
(* (c/typedb_driver.i). Getters of plain numbers change nothing and are left *)
(* out; what they return is in Concepts and AnalyzedQueries. At most one     *)
(* object of a kind lives at a time, so a function that gives an object of   *)
(* the kind it borrows (fetch_list_element) is left out too.                 *)
EXTENDS Integers, FiniteSets, SequencesExt

CONSTANTS MaxHandles,   \* bound on the handles held at a time, one of a kind
          MaxRows,      \* bound on the rows committed to a builder
          MaxLost       \* bound on the objects that nobody holds any more

VARIABLES
    heap,    \* the object of each kind: [owners, into, rows, active]
    held,    \* kinds the bindings have a handle of
    unowned, \* those of held whose handle does not own its object
    error,   \* LAST_ERROR is set
    client  \* the rows the client started, has open and committed: [next, open, rows]

cVars == <<heap, held, unowned, error, client>>

-----------------------------------------------------------------------------
(* How a result becomes a return value: the outcomes of the operation, and   *)
(* those for which a handle is returned. An error is recorded in every case. *)
Outcomes ==
    [release |-> {"value"}, release_optional |-> {"value", "absent"},
     try_release |-> {"value", "error"}, try_release_optional |-> {"value", "absent", "error"},
     unwrap_or_default |-> {"value", "error"}, unwrap_void |-> {"done", "error"}, free |-> {"done"}]

Returns(how, outcome) == outcome = "value" \/ how = "unwrap_or_default"
Records(outcome) == outcome = "error"

(* A signature: how the result is returned, its kind, and the kinds of the   *)
(* handles borrowed and taken. A table is a set of names with signatures;    *)
(* Each gives one signature to several functions.                            *)
Fn(how, gives, borrows, takes) == [how |-> how, gives |-> gives, borrows |-> borrows, takes |-> takes]
New(gives, borrows) == Fn("release", gives, borrows, {})
Each(names, fn) == names \X {fn}
Drops(kinds) == {<<k[1], Fn("free", "none", {}, {k[2]})>> : k \in kinds}

DriverFns ==
    Each({"driver_new", "driver_new_with_addresses", "driver_new_with_address_translation"},
         Fn("try_release", "Driver", {"Credentials", "DriverOptions"}, {}))
    \cup {<<"driver_force_close", Fn("unwrap_void", "none", {"Driver"}, {})>>,
          <<"driver_server_version", Fn("unwrap_or_default", "ServerVersion", {"Driver"}, {})>>,
          <<"driver_servers", Fn("unwrap_or_default", "ServerIterator", {"Driver"}, {})>>,
          <<"driver_primary_server", Fn("try_release_optional", "Server", {"Driver"}, {})>>}
    \cup Drops({<<"driver_close", "Driver">>})

TlsFns ==
    {<<"driver_tls_config_new_disabled", New("DriverTlsConfig", {})>>,
     <<"driver_tls_config_new_enabled_with_root_ca_path", Fn("try_release", "DriverTlsConfig", {}, {})>>}
    \cup Drops({<<"driver_tls_config_drop", "DriverTlsConfig">>})

OptionFns ==
    {<<"driver_options_new", New("DriverOptions", {"DriverTlsConfig"})>>,
     <<"driver_options_get_tls_config", New("DriverTlsConfig", {"DriverOptions"})>>,
     <<"credentials_new", New("Credentials", {})>>,
     <<"transaction_options_new", New("TransactionOptions", {})>>,
     <<"query_options_new", New("QueryOptions", {})>>}
    \cup Drops({<<"driver_options_drop", "DriverOptions">>, <<"credentials_drop", "Credentials">>,
                <<"transaction_options_drop", "TransactionOptions">>,
                <<"query_options_drop", "QueryOptions">>})

ServerFns ==
    {<<"server_iterator_next", Fn("release_optional", "Server", {"ServerIterator"}, {})>>,
     <<"server_get_address", Fn("release_optional", "String", {"Server"}, {})>>}
    \cup Drops({<<"server_drop", "Server">>, <<"server_iterator_drop", "ServerIterator">>,
                <<"server_version_drop", "ServerVersion">>, <<"string_free", "String">>})

DatabaseManagerFns ==
    {<<"databases_all", Fn("try_release", "DatabaseIterator", {"Driver"}, {})>>,
     <<"databases_get", Fn("try_release", "Database", {"Driver"}, {})>>,
     <<"database_iterator_next", Fn("release_optional", "Database", {"DatabaseIterator"}, {})>>}
    \cup Each({"databases_create", "databases_contains", "databases_import_from_file"},
            Fn("unwrap_void", "none", {"Driver"}, {}))
    \cup Drops({<<"database_iterator_drop", "DatabaseIterator">>})

DatabaseFns ==
    Each({"database_schema", "database_type_schema"}, Fn("try_release", "String", {"Database"}, {}))
    \cup {<<"database_export_to_file", Fn("unwrap_void", "none", {"Database"}, {})>>,
          <<"database_delete", Fn("unwrap_void", "none", {}, {"Database"})>>}
    \cup Drops({<<"database_close", "Database">>})

UserManagerFns ==
    Each({"users_get", "users_get_current"}, Fn("try_release_optional", "User", {"Driver"}, {}))
    \cup Each({"users_create", "users_contains"}, Fn("unwrap_void", "none", {"Driver"}, {}))
    \cup {<<"users_all", Fn("try_release", "UserIterator", {"Driver"}, {})>>,
          <<"user_iterator_next", Fn("release_optional", "User", {"UserIterator"}, {})>>}
    \cup Drops({<<"user_iterator_drop", "UserIterator">>})

UserFns ==
    {<<"user_update_password", Fn("unwrap_void", "none", {"User"}, {})>>,
     <<"user_delete", Fn("unwrap_void", "none", {}, {"User"})>>}
    \cup Drops({<<"user_drop", "User">>})

TransactionFns ==
    Each({"transaction_close", "transaction_on_close", "transaction_rollback"},
         New("VoidPromise", {"Transaction"}))
    \cup {<<"transaction_new", Fn("try_release", "Transaction", {"Driver", "TransactionOptions"}, {})>>,
          <<"transaction_query", New("QueryAnswerPromise", {"Transaction", "QueryOptions"})>>,
          <<"transaction_query_given_rows",
            Fn("release", "QueryAnswerPromise", {"Transaction", "QueryOptions"}, {"GivenRows"})>>,
          <<"transaction_analyze", New("AnalyzedQueryPromise", {"Transaction"})>>,
          <<"transaction_commit", Fn("release", "VoidPromise", {}, {"Transaction"})>>}
    \cup Drops({<<"transaction_drop_sync", "Transaction">>})

PromiseFns ==
    {<<"void_promise_resolve", Fn("unwrap_void", "none", {}, {"VoidPromise"})>>,
     <<"analyzed_query_promise_resolve", Fn("try_release", "AnalyzedQuery", {}, {"AnalyzedQueryPromise"})>>}
    \cup Drops({<<"void_promise_drop", "VoidPromise">>,
                <<"analyzed_query_promise_drop", "AnalyzedQueryPromise">>,
                <<"analyzed_query_drop", "AnalyzedQuery">>})

AnswerFns ==
    {<<"query_answer_promise_resolve", Fn("try_release", "QueryAnswer", {}, {"QueryAnswerPromise"})>>,
     <<"query_answer_into_rows", Fn("release", "ConceptRowIterator", {}, {"QueryAnswer"})>>,
     <<"query_answer_into_documents", Fn("release", "StringIterator", {}, {"QueryAnswer"})>>,
     <<"concept_row_get_column_names", New("StringIterator", {"ConceptRow"})>>,
     <<"concept_row_get_concepts", New("ConceptIterator", {"ConceptRow"})>>,
     <<"concept_row_involved_conjunctions",
         Fn("release_optional", "ConjunctionIDIterator", {"ConceptRow"}, {})>>}
    \cup Each({"concept_row_get", "concept_row_get_index"},
            Fn("try_release_optional", "Concept", {"ConceptRow"}, {}))
    \cup Drops({<<"query_answer_promise_drop", "QueryAnswerPromise">>,
                <<"query_answer_drop", "QueryAnswer">>,
                <<"concept_row_drop", "ConceptRow">>})

IteratorFns ==
    {<<"concept_row_iterator_next", Fn("try_release_optional", "ConceptRow", {"ConceptRowIterator"}, {})>>,
     <<"concept_iterator_next", Fn("try_release_optional", "Concept", {"ConceptIterator"}, {})>>,
     <<"string_iterator_next", Fn("try_release_optional", "String", {"StringIterator"}, {})>>}
    \cup Drops({<<"concept_row_iterator_drop", "ConceptRowIterator">>,
                <<"concept_iterator_drop", "ConceptIterator">>,
                <<"string_iterator_drop", "StringIterator">>, <<"concept_drop", "Concept">>,
                <<"conjunction_id_iterator_drop", "ConjunctionIDIterator">>})

HeaderFns ==
    {<<"given_rows_header_builder_new", New("GivenRowsHeaderBuilder", {})>>,
     <<"given_rows_header_builder_finish", Fn("release", "GivenRowsHeader", {}, {"GivenRowsHeaderBuilder"})>>}
    \cup Drops({<<"given_rows_header_builder_drop", "GivenRowsHeaderBuilder">>,
                <<"error_drop", "Error">>})

Gives(kind, from, names) == Each(names, New(kind, {from}))
Finds(kind, borrows, names) == Each(names, Fn("release_optional", kind, borrows, {}))

AnalyzedFns ==
    Gives("Pipeline", "AnalyzedQuery", {"analyzed_query_pipeline"})
    \cup Gives("FunctionIterator", "AnalyzedQuery", {"analyzed_preamble"})
    \cup Finds("Given", {"AnalyzedQuery"}, {"analyzed_given"})
    \cup Finds("Fetch", {"AnalyzedQuery"}, {"analyzed_fetch"})
    \cup Gives("StringIterator", "Fetch", {"fetch_leaf_annotations", "fetch_object_fields"})
    \cup Gives("VariableIterator", "Given", {"given_variables"})
    \cup Finds("VariableAnnotations", {"Given", "Variable"}, {"given_variable_annotations"})

FunctionFns ==
    Gives("Pipeline", "Function", {"function_body"})
    \cup Gives("VariableIterator", "Function", {"function_argument_variables"})
    \cup Gives("ReturnOperation", "Function", {"function_return_operation"})
    \cup Gives("VariableIterator", "ReturnOperation",
             {"return_operation_stream_variables", "return_operation_single_variables"})
    \cup Gives("String", "ReturnOperation", {"return_operation_single_selector"})
    \cup Gives("ReducerIterator", "ReturnOperation", {"return_operation_reducers"})
    \cup Gives("VariableAnnotationsIterator", "Function",
             {"function_argument_annotations", "function_return_annotations"})

StageFns ==
    Gives("PipelineStageIterator", "Pipeline", {"pipeline_stages"})
    \cup Gives("String", "PipelineStage", {"pipeline_stage_string_repr"})
    \cup Gives("ConjunctionID", "PipelineStage", {"pipeline_stage_get_block"})
    \cup Gives("VariableIterator", "PipelineStage",
             {"pipeline_stage_delete_get_deleted_variables", "pipeline_stage_select_get_variables",
              "pipeline_stage_require_get_variables", "pipeline_stage_reduce_get_groupby"})
    \cup Gives("SortVariableIterator", "PipelineStage", {"pipeline_stage_sort_get_sort_variables"})
    \cup Gives("ReduceAssignmentIterator", "PipelineStage", {"pipeline_stage_reduce_get_reducer_assignments"})

ReduceFns ==
    Gives("Variable", "SortVariable", {"sort_variable_get_variable"})
    \cup Gives("Variable", "ReduceAssignment", {"reduce_assignment_get_assigned"})
    \cup Gives("Reducer", "ReduceAssignment", {"reduce_assignment_get_reducer"})
    \cup Gives("String", "Reducer", {"reducer_get_name"})
    \cup Gives("VariableIterator", "Reducer", {"reducer_get_arguments"})
    \cup Finds("String", {"Pipeline", "Variable"}, {"variable_get_name"})

ConjunctionFns ==
    Finds("Conjunction", {"Pipeline", "ConjunctionID"}, {"pipeline_get_conjunction"})
    \cup Gives("ConstraintWithSpanIterator", "Conjunction", {"conjunction_get_constraints"})
    \cup Gives("VariableIterator", "Conjunction", {"conjunction_get_annotated_variables"})
    \cup Finds("VariableAnnotations", {"Conjunction", "Variable"}, {"conjunction_get_variable_annotations"})
    \cup Gives("ConceptIterator", "VariableAnnotations",
             {"variable_annotations_instance", "variable_annotations_type"})
    \cup Gives("StringIterator", "VariableAnnotations", {"variable_annotations_value"})

(* The getters of the two ends of a constraint, and of its role.             *)
EdgeFns ==
    Gives("ConstraintVertex", "ConstraintWithSpan",
          {"constraint_isa_get_instance", "constraint_isa_get_type", "constraint_has_get_owner",
           "constraint_has_get_attribute", "constraint_links_get_relation",
           "constraint_links_get_player", "constraint_links_get_role", "constraint_sub_get_subtype",
           "constraint_sub_get_supertype", "constraint_owns_get_owner", "constraint_owns_get_attribute",
           "constraint_relates_get_relation", "constraint_relates_get_role"})

TermFns ==
    Gives("ConstraintVertex", "ConstraintWithSpan",
          {"constraint_plays_get_player", "constraint_plays_get_role", "constraint_expression_get_assigned"})
    \cup Gives("ConstraintVertexIterator", "ConstraintWithSpan",
             {"constraint_function_call_get_assigned", "constraint_function_call_get_arguments"})
    \cup Gives("String", "ConstraintWithSpan",
             {"constraint_function_call_get_name", "constraint_expression_get_text"})

CompareFns ==
    Gives("ConstraintVertexIterator", "ConstraintWithSpan", {"constraint_expression_get_arguments"})
    \cup Gives("ConstraintVertex", "ConstraintWithSpan",
          {"constraint_is_get_lhs", "constraint_is_get_rhs", "constraint_iid_get_variable",
           "constraint_comparison_get_lhs", "constraint_comparison_get_rhs", "constraint_kind_get_type",
           "constraint_label_get_variable", "constraint_value_get_attribute_type"})
    \cup Gives("String", "ConstraintWithSpan", {"constraint_iid_get_iid", "constraint_label_get_label"})

NestedFns ==
    Gives("String", "ConstraintWithSpan", {"constraint_value_get_value_type", "constraint_string_repr"})
    \cup Gives("ConjunctionIDIterator", "ConstraintWithSpan", {"constraint_or_get_branches"})
    \cup Gives("ConjunctionID", "ConstraintWithSpan",
             {"constraint_not_get_conjunction", "constraint_try_get_conjunction"})
    \cup Gives("Variable", "ConstraintVertex", {"constraint_vertex_as_variable"})
    \cup Gives("Concept", "ConstraintVertex", {"constraint_vertex_as_label", "constraint_vertex_as_value"})
    \cup Gives("NamedRole", "ConstraintVertex", {"constraint_vertex_as_named_role"})
    \cup Gives("Variable", "NamedRole", {"named_role_get_variable"})
    \cup Gives("String", "NamedRole", {"named_role_get_name", "named_role_string_repr"})

(* Each list has its iterator: _next gives the next element or none.         *)
AnalyzedIteratorFns ==
    Finds("Function", {"FunctionIterator"}, {"function_iterator_next"})
    \cup Finds("ConjunctionID", {"ConjunctionIDIterator"}, {"conjunction_id_iterator_next"})
    \cup Finds("ConstraintWithSpan", {"ConstraintWithSpanIterator"}, {"constraint_with_span_iterator_next"})
    \cup Finds("ConstraintVertex", {"ConstraintVertexIterator"}, {"constraint_vertex_iterator_next"})
    \cup Finds("PipelineStage", {"PipelineStageIterator"}, {"pipeline_stage_iterator_next"})
    \cup Finds("ReduceAssignment", {"ReduceAssignmentIterator"}, {"reduce_assignment_iterator_next"})
    \cup Finds("Reducer", {"ReducerIterator"}, {"reducer_iterator_next"})
    \cup Finds("SortVariable", {"SortVariableIterator"}, {"sort_variable_iterator_next"})
    \cup Finds("VariableAnnotations", {"VariableAnnotationsIterator"}, {"variable_annotations_iterator_next"})
    \cup Finds("Variable", {"VariableIterator"}, {"variable_iterator_next"})

AnalyzedDrops ==
    Drops({<<"conjunction_drop", "Conjunction">>, <<"conjunction_id_drop", "ConjunctionID">>,
           <<"constraint_with_span_drop", "ConstraintWithSpan">>,
           <<"constraint_vertex_drop", "ConstraintVertex">>,
           <<"given_drop", "Given">>, <<"fetch_drop", "Fetch">>, <<"function_drop", "Function">>,
           <<"named_role_drop", "NamedRole">>, <<"return_operation_drop", "ReturnOperation">>,
           <<"pipeline_drop", "Pipeline">>, <<"pipeline_stage_drop", "PipelineStage">>,
           <<"reducer_drop", "Reducer">>,
           <<"reduce_assignment_drop", "ReduceAssignment">>, <<"sort_variable_drop", "SortVariable">>,
           <<"variable_annotations_drop", "VariableAnnotations">>, <<"variable_drop", "Variable">>})
    \cup Drops({<<"function_iterator_drop", "FunctionIterator">>,
                <<"constraint_with_span_iterator_drop", "ConstraintWithSpanIterator">>,
                <<"constraint_vertex_iterator_drop", "ConstraintVertexIterator">>,
                <<"sort_variable_iterator_drop", "SortVariableIterator">>,
                <<"reduce_assignment_iterator_drop", "ReduceAssignmentIterator">>,
                <<"reducer_iterator_drop", "ReducerIterator">>,
                <<"pipeline_stage_iterator_drop", "PipelineStageIterator">>,
                <<"variable_annotations_iterator_drop", "VariableAnnotationsIterator">>,
                <<"variable_iterator_drop", "VariableIterator">>})

AllAnalyzedFns ==
    AnalyzedFns \cup FunctionFns \cup StageFns \cup ReduceFns \cup ConjunctionFns \cup EdgeFns
    \cup TermFns \cup CompareFns \cup NestedFns \cup AnalyzedIteratorFns \cup AnalyzedDrops

Fns == DriverFns \cup TlsFns \cup OptionFns \cup ServerFns \cup DatabaseManagerFns \cup DatabaseFns
       \cup UserManagerFns \cup UserFns \cup TransactionFns \cup PromiseFns \cup AnswerFns
       \cup IteratorFns \cup HeaderFns \cup AllAnalyzedFns

(* Results that refer into the handle they were made from: a promise that    *)
(* has not begun, an iterator over a row it does not own.                    *)
Lazy == {"transaction_close", "transaction_on_close", "concept_row_get_column_names",
         "concept_row_get_concepts"}

(* What the bindings give up when they call: the argument of a %delobject,   *)
(* of a function that their wrappers pass a released() handle, and of the    *)
(* destructors, which call the _drop, _close and _free functions.            *)
FaultyDelObjects(name) ==
    CASE name = "transaction_commit" -> {"Transaction"}
      [] name \in {"query_answer_into_rows", "query_answer_into_documents"} -> {"QueryAnswer"}
      [] name = "database_delete" -> {"Database"}
      [] name = "given_rows_header_builder_finish" -> {"GivenRowsHeaderBuilder"}
      [] name = "void_promise_resolve" -> {"VoidPromise"}
      [] name = "query_answer_promise_resolve" -> {"QueryAnswerPromise"}
      [] name = "analyzed_query_promise_resolve" -> {"AnalyzedQueryPromise"}
      [] OTHER -> {}
DelObjects(name) ==
    CASE name = "transaction_commit" -> {"Transaction"}
      [] name \in {"query_answer_into_rows", "query_answer_into_documents"} -> {"QueryAnswer"}
      [] name = "database_delete" -> {"Database"}
      [] name = "user_delete" -> {"User"}
      [] name = "given_rows_header_builder_finish" -> {"GivenRowsHeaderBuilder"}
      [] name = "void_promise_resolve" -> {"VoidPromise"}
      [] name = "query_answer_promise_resolve" -> {"QueryAnswerPromise"}
      [] name = "analyzed_query_promise_resolve" -> {"AnalyzedQueryPromise"}
      [] OTHER -> {}
ReleasedByWrapper(name) == IF name = "transaction_query_given_rows" THEN {"GivenRows"} ELSE {}
Released(name, fn) ==
    IF fn.how = "free" THEN fn.takes ELSE DelObjects(name) \cup ReleasedByWrapper(name)

(* Functions of the tables that are no %newobject: the handle of what they   *)
(* return does not own it, and its destructor does nothing.                  *)
NotNewObjects ==
    {"transaction_close", "transaction_on_close", "transaction_rollback", "transaction_commit",
     "transaction_analyze", "return_operation_stream_variables", "return_operation_single_variables",
     "return_operation_single_selector", "return_operation_reducers",
     "pipeline_stage_select_get_variables", "pipeline_stage_require_get_variables",
     "conjunction_get_annotated_variables", "variable_annotations_instance",
     "variable_annotations_type", "variable_annotations_value"}

-----------------------------------------------------------------------------
Kinds == {"GivenRowsHeader", "GivenRowsBuilder", "GivenRows", "Error"}
         \cup UNION {f[2].takes \cup {f[2].gives} : f \in Fns}

Freed == [owners |-> 0, into |-> {}, rows |-> <<>>, active |-> 0]
Object(into) == [owners |-> 1, into |-> into, rows |-> <<>>, active |-> 0]
Live(kind) == heap[kind].owners > 0

CInit ==
    /\ heap = [kind \in Kinds |-> Freed]
    /\ held = {}
    /\ unowned = {}
    /\ error = FALSE
    /\ client = [next |-> 1, open |-> 0, rows |-> <<>>]

(* take_ownership() and free() of a box; decrement_arc() of n owners.        *)
Take(hp, kinds) == [k \in Kinds |-> IF k \in kinds THEN Freed ELSE hp[k]]
Fewer(object, n) == IF object.owners <= n THEN Freed ELSE [object EXCEPT !.owners = @ - n]
DecrementArc(hp, kind, n) == [hp EXCEPT ![kind] = Fewer(@, n)]

(* GivenRows holds the Arc of its header.                                    *)
Dropped(hp, kinds) ==
    Take(IF "GivenRows" \in kinds THEN DecrementArc(hp, "GivenRowsHeader", 1) ELSE hp, kinds)

(* The client takes the error of a call before the next (%exception), has    *)
(* room for another handle, and frees nothing that a handle it keeps refers  *)
(* into.                                                                     *)
MayCall(borrows, takes, gives) ==
    /\ ~error
    /\ borrows \cup takes \subseteq held
    /\ \A k \in held \ takes : heap[k].into \cap takes = {}
    /\ gives # "none" => ~Live(gives) /\ Cardinality(held \ takes) < MaxHandles

(* A destructor frees only what its handle owns.                             *)
Call(name, fn) ==
    /\ MayCall(fn.borrows, fn.takes, fn.gives)
    /\ fn.how = "free" => fn.takes \cap unowned = {}
    /\ \E outcome \in Outcomes[fn.how] :
         LET hp == Dropped(heap, fn.takes)
             made == fn.gives # "none" /\ Returns(fn.how, outcome)
         IN  /\ heap' = IF made THEN [hp EXCEPT ![fn.gives] =
                                        Object(IF name \in Lazy THEN fn.borrows ELSE {})]
                        ELSE hp
             /\ held' = (held \ Released(name, fn)) \cup (IF made THEN {fn.gives} ELSE {})
             /\ unowned' = (unowned \ Released(name, fn))
                            \cup (IF made /\ name \in NotNewObjects THEN {fn.gives} ELSE {})
             /\ error' = Records(outcome)
    /\ UNCHANGED client

(* The last handle of an object it does not own is collected: the object     *)
(* stays where it is. The bindings resolve a VoidPromise in the expression   *)
(* that makes it, so its handle is never left to the collector.              *)
Lost(k) == Live(k) /\ k \notin held

Forget ==
    /\ Cardinality({k \in Kinds \ {"GivenRowsHeader"} : Lost(k)}) < MaxLost
    /\ \E k \in unowned \ {"VoidPromise"} :
         /\ \A j \in held : k \notin heap[j].into
         /\ held' = held \ {k}
         /\ unowned' = unowned \ {k}
    /\ UNCHANGED <<heap, error, client>>

GetLastError ==
    /\ error
    /\ "Error" \notin held
    /\ error' = FALSE
    /\ heap' = [heap EXCEPT !["Error"] = Object({})]
    /\ held' = held \cup {"Error"}
    /\ UNCHANGED <<unowned, client>>

-----------------------------------------------------------------------------
(* Given rows. The header is shared: take_arc(), clone, release_arc(). Rows  *)
(* in the making share it as well.                                           *)
Shared(hp) == [hp EXCEPT !["GivenRowsHeader"].owners = @ + 1]

DropHeader ==
    /\ MayCall({}, {"GivenRowsHeader"}, "none")
    /\ heap' = DecrementArc(heap, "GivenRowsHeader", 1)
    /\ held' = held \ {"GivenRowsHeader"}
    /\ UNCHANGED <<unowned, error, client>>

BuilderNew ==
    /\ MayCall({"GivenRowsHeader"}, {}, "GivenRowsBuilder")
    /\ ~Live("GivenRows")
    /\ heap' = [Shared(heap) EXCEPT !["GivenRowsBuilder"] = Object({})]
    /\ held' = held \cup {"GivenRowsBuilder"}
    /\ client' = [next |-> 1, open |-> 0, rows |-> <<>>]
    /\ UNCHANGED <<unowned, error>>

Builder == heap["GivenRowsBuilder"]
Active == Builder.active # 0

(* A row that was not committed is dropped without an error.                 *)
StartNewRow ==
    /\ MayCall({"GivenRowsBuilder"}, {}, "none")
    /\ client.next <= MaxRows
    /\ heap' = [(IF Active THEN heap ELSE Shared(heap)) EXCEPT !["GivenRowsBuilder"].active = client.next]
    /\ client' = [client EXCEPT !.next = @ + 1, !.open = client.next]
    /\ UNCHANGED <<held, unowned, error>>

(* A wrong index, variable or concept is an error too.                       *)
SetInRow ==
    /\ MayCall({"GivenRowsBuilder"}, {}, "none")
    /\ error' \in {TRUE, ~Active}
    /\ UNCHANGED <<heap, held, unowned, client>>

FaultyCommitted(builder) == [builder EXCEPT !.rows = Append(@, builder.active)]
Committed(builder) == [builder EXCEPT !.rows = Append(@, builder.active), !.active = 0]

CommitRow ==
    /\ MayCall({"GivenRowsBuilder"}, {}, "none")
    /\ Len(Builder.rows) <= MaxRows
    /\ heap' = IF Active THEN DecrementArc([heap EXCEPT !["GivenRowsBuilder"] = Committed(Builder)],
                                           "GivenRowsHeader", 1)
               ELSE heap
    /\ error' = ~Active
    /\ client' = IF client.open = 0 THEN client
                ELSE [client EXCEPT !.open = 0, !.rows = Append(@, client.open)]
    /\ UNCHANGED <<held, unowned>>

FinishRows ==
    /\ MayCall({}, {"GivenRowsBuilder"}, "GivenRows")
    /\ LET hp == Take(heap, {"GivenRowsBuilder"})
       IN  heap' = IF Active THEN DecrementArc(hp, "GivenRowsHeader", 2)
                   ELSE [hp EXCEPT !["GivenRows"] = [Object({}) EXCEPT !.rows = Builder.rows]]
    /\ held' = (held \ {"GivenRowsBuilder"}) \cup (IF Active THEN {} ELSE {"GivenRows"})
    /\ error' = Active
    /\ UNCHANGED <<unowned, client>>

DropBuilder ==
    /\ MayCall({}, {"GivenRowsBuilder"}, "none")
    /\ heap' = DecrementArc(Take(heap, {"GivenRowsBuilder"}), "GivenRowsHeader", IF Active THEN 2 ELSE 1)
    /\ held' = held \ {"GivenRowsBuilder"}
    /\ UNCHANGED <<unowned, error, client>>

DropRows ==
    /\ MayCall({}, {"GivenRows"}, "none")
    /\ heap' = Dropped(heap, {"GivenRows"})
    /\ held' = held \ {"GivenRows"}
    /\ UNCHANGED <<unowned, error, client>>

CNext ==
    \/ \E f \in Fns : Call(f[1], f[2])
    \/ Forget
    \/ GetLastError
    \/ DropHeader \/ BuilderNew \/ StartNewRow \/ SetInRow \/ CommitRow \/ FinishRows \/ DropBuilder
    \/ DropRows

CSpec == CInit /\ [][CNext]_cVars

-----------------------------------------------------------------------------
(* The kinds of the results that are no %newobject, but for VoidPromise.     *)
Leaky == {"AnalyzedQueryPromise", "VariableIterator", "ReducerIterator", "ConceptIterator",
          "StringIterator", "String"}

(* No object is freed while the bindings keep a handle of it or of something *)
(* that refers into it, and but for the results of the functions that are no *)
(* %newobject none outlives its last handle: what the bindings give up is    *)
(* what the functions take, whether the call succeeds or fails, and the      *)
(* header shared by rows and builders is counted for each of them.           *)
HandlesSound ==
    /\ \A k \in held : Live(k) /\ heap[k].into \subseteq held
    /\ \A k \in Kinds \ {"GivenRowsHeader"} : Lost(k) => k \in Leaky
    /\ heap["GivenRowsHeader"].owners =
         Cardinality({"GivenRowsHeader", "GivenRowsBuilder", "GivenRows"} \cap held)
         + (IF Active THEN 1 ELSE 0)

(* The rows of a query are the rows the client committed, each once and in   *)
(* order; a row it left open, or a commit that was an error, adds none.      *)
RowsFaithful ==
    \A k \in {"GivenRowsBuilder", "GivenRows"} : Live(k) => heap[k].rows = client.rows

=============================================================================
