----------------------------- MODULE MCServices -----------------------------
(* Instances of the requests of a connection, database import and export,    *)
(* and the reader of import files. They share no state in the code either,   *)
(* so one run checks them side by side: each behaviour is about one of them. *)
EXTENDS DatabaseImport, DatabaseExport, ImportFileReader, RpcStub

VARIABLE about   \* the module this behaviour is about

SomeContents == {<<>>, <<"x">>, <<"x", "y">>}

(* Frames of a delimiter and a body, shorter and longer than the buffer.     *)
Frames == [delim : 1..2, body : {0, 1, 3}]
SomeFiles == {<<>>} \cup {<<f>> : f \in Frames} \cup {<<f, g>> : f, g \in Frames}

(* One request goes through every method; two more run beside it.            *)
CONSTANTS r0, r1, r2
SomeMethods ==
    [r \in {r0, r1, r2} |-> IF r = r1 THEN UserFacing
                            ELSE {"version", "update_password"}]

-----------------------------------------------------------------------------
vars == <<about, importVars, exportVars, readerVars, rpcVars>>

(* What the behaviour is not about starts in one fixed state.                *)
Init ==
    /\ about \in {"import", "export", "reader", "rpc"}
    /\ StubInit
    /\ ImportInit
    /\ about # "import" => file = [items |-> <<>>, whole |-> TRUE]
    /\ ExportInit
    /\ about # "export" => given = [p \in Paths |-> Absent]
    /\ ReaderInit
    /\ about # "reader" => frames = <<>>

Next ==
    /\ UNCHANGED about
    /\ \/ about = "import" /\ ImportNext /\ UNCHANGED <<exportVars, readerVars, rpcVars>>
       \/ about = "export" /\ ExportNext /\ UNCHANGED <<importVars, readerVars, rpcVars>>
       \/ about = "reader" /\ ReaderNext /\ UNCHANGED <<importVars, exportVars, rpcVars>>
       \/ about = "rpc" /\ StubNext /\ UNCHANGED <<importVars, exportVars, readerVars>>

Spec == Init /\ [][Next]_vars
FairSpec == Spec /\ ImportFairness /\ StubFairness

=============================================================================
