--------------------------- MODULE DatabaseExport ---------------------------
(* export_to_file: two new files are created, a listener forwards what the   *)
(* server streams, the client writes it, and execute() may run the writing   *)
(* again on the same files. The server and the file system are external.     *)
EXTENDS Naturals, FiniteSets, SequencesExt

CONSTANTS Databases,      \* contents (sequences of items) an attempt may meet
          ExportAttempts  \* 1..n, the attempts execute() makes

ASSUME ExportConstants == IsFiniteSet(ExportAttempts) /\ 1 \in ExportAttempts

VARIABLES
    disk,     \* disk[p]: content of the file at path p, or Absent
    given,    \* the disk before the call
    export,   \* locals of the client
    feed      \* feed[a]: server, listener and channel of attempt a

exportVars == <<disk, given, export, feed>>

Paths == {"schema", "data"}
Absent == <<"absent">>
Schema == "define"

(* Messages after which the stream is left: the end, or an error.            *)
Ending == {"Done", "malformed", "err"}

ASSUME ContentsAssumption ==
    \A db \in Databases : db \in Seq(Range(db)) /\ Range(db) \cap ({Schema} \cup Ending) = {}

(* What the server streams for a database.                                   *)
Messages(db) == <<Schema>> \o db \o <<"Done">>

NoFeed == [left |-> <<>>, channel |-> <<>>, listener |-> "none", open |-> FALSE]

ExportInit ==
    /\ given \in [Paths -> {Absent, <<"mine">>}]
    /\ disk = given
    /\ export = [pc |-> "idle", attempt |-> 1, offset |-> [p \in Paths |-> 0],
                 result |-> "none", met |-> <<>>]
    /\ feed = [a \in ExportAttempts |-> NoFeed]

Here == feed[export.attempt]
ExportAt(pc) == export.pc = pc
ExportLeave(result) == [export EXCEPT !.pc = "left", !.result = result]
ExportReturn(result) == [export EXCEPT !.pc = "returned", !.result = result]

-----------------------------------------------------------------------------
(* The user passes two paths, or twice the same one.                         *)
ComparePaths ==
    /\ ExportAt("idle")
    /\ \/ export' = ExportReturn("err")
       \/ export' = [export EXCEPT !.pc = "schema"]
    /\ UNCHANGED <<disk, given, feed>>

(* create_new: fails on a file that exists.                                  *)
Creatable(p) == disk[p] = Absent

CreateSchemaFile ==
    /\ ExportAt("schema")
    /\ \/ /\ Creatable("schema")
          /\ disk' = [disk EXCEPT !["schema"] = <<>>]
          /\ export' = [export EXCEPT !.pc = "data"]
       \/ export' = ExportReturn("err") /\ UNCHANGED disk
    /\ UNCHANGED <<given, feed>>

(* When the second file cannot be created the first one is removed.          *)
CreateDataFile ==
    /\ ExportAt("data")
    /\ \/ /\ Creatable("data")
          /\ disk' = [disk EXCEPT !["data"] = <<>>]
          /\ export' = [export EXCEPT !.pc = "open"]
       \/ /\ disk' = [disk EXCEPT !["schema"] = Absent]
          /\ export' = ExportReturn("err")
    /\ UNCHANGED <<given, feed>>

(* An attempt opens both files without truncating them and asks for a stream.*)
OpenExport ==
    /\ ExportAt("open")
    /\ \/ export' = ExportLeave("err") /\ UNCHANGED feed
       \/ \E db \in Databases :
            /\ export' = [export EXCEPT !.pc = "next", !.met = db, !.offset = [p \in Paths |-> 0]]
            /\ feed' = [feed EXCEPT ![export.attempt] =
                 [left |-> Messages(db), channel |-> <<>>,
                  listener |-> "running", open |-> TRUE]]
    /\ UNCHANGED <<disk, given>>

LeaveStream(result) ==
    /\ export' = ExportLeave(result)
    /\ feed' = [feed EXCEPT ![export.attempt].open = FALSE]
    /\ UNCHANGED disk

(* A write at the offset of the handle: what lies behind it stays.           *)
Written(old, at, x) == [i \in 1..(IF Len(old) > at THEN Len(old) ELSE at + 1) |->
                          IF i = at + 1 THEN x ELSE old[i]]

Write(p, x) ==
    \/ /\ disk' = [disk EXCEPT ![p] = Written(@, export.offset[p], x)]
       /\ export' = [export EXCEPT !.offset[p] = @ + 1]
       /\ feed' = [feed EXCEPT ![export.attempt].channel = Tail(@)]
    \/ LeaveStream("io")

FaultyNoResponse == "ok"

(* A stream that ends without Done is an error.                              *)
NoResponse == "err"

NextAnswer ==
    /\ ExportAt("next")
    /\ \/ /\ Here.channel # <<>>
          /\ LET x == Head(Here.channel)
             IN  \/ x = Schema /\ Write("schema", x)
                 \/ x \notin Ending \cup {Schema} /\ Write("data", x)
                 \/ x = "Done" /\ \E flushed \in {"ok", "io"} : LeaveStream(flushed)
                 \/ x \in Ending \ {"Done"} /\ LeaveStream("err")
       \/ /\ Here.channel = <<>>
          /\ Here.listener = "ended"
          /\ LeaveStream(NoResponse)
    /\ UNCHANGED given

(* listen_loop(): the next message, an error or the end of the stream, which *)
(* also stands for a shutdown signal. A message that cannot be decoded is    *)
(* passed on as an error. A send to a consumer that left panics.             *)
Listen(a) ==
    /\ feed[a].listener = "running"
    /\ \/ ~feed[a].open /\ feed' = [feed EXCEPT ![a].listener = "panicked"]
       \/ /\ feed[a].open
          /\ \E x \in {"err"} \cup
                  (IF feed[a].left = <<>> THEN {} ELSE {Head(feed[a].left), "malformed"}) :
               feed' = [feed EXCEPT ![a].channel = Append(@, x),
                                    ![a].left = IF x = "err" THEN <<>> ELSE Tail(@),
                                    ![a].listener = IF x = "err" THEN "ended" ELSE @]
    /\ UNCHANGED <<disk, given, export>>

ListenEnds(a) ==
    /\ feed[a].listener = "running"
    /\ feed' = [feed EXCEPT ![a].listener = "ended"]
    /\ UNCHANGED <<disk, given, export>>

FaultyCleaned == disk

(* The files of an export that failed are removed.                           *)
Cleaned == [p \in Paths |-> Absent]

ExportReturns ==
    /\ ExportAt("left")
    /\ \/ /\ export.result = "err"
          /\ export.attempt + 1 \in ExportAttempts
          /\ export' = [export EXCEPT !.pc = "open", !.attempt = @ + 1]
          /\ UNCHANGED disk
       \/ /\ export' = [export EXCEPT !.pc = "returned"]
          /\ disk' = IF export.result = "ok" THEN disk ELSE Cleaned
    /\ UNCHANGED <<given, feed>>

ExportNext ==
    \/ ComparePaths \/ CreateSchemaFile \/ CreateDataFile \/ OpenExport
    \/ NextAnswer \/ ExportReturns
    \/ \E a \in ExportAttempts : Listen(a) \/ ListenEnds(a)

ExportSpec == ExportInit /\ [][ExportNext]_exportVars

-----------------------------------------------------------------------------
(* A file that was there before the call is never written or removed, and a  *)
(* call that failed, at whatever step, leaves the disk as it found it.       *)
ExportFilesKept ==
    /\ \A p \in Paths : given[p] # Absent => disk[p] = given[p]
    /\ ExportAt("returned") /\ export.result # "ok" => disk = given

(* An export that returns Ok wrote the schema and all items that its last    *)
(* attempt was sent; when earlier attempts met a larger database, only the   *)
(* tail behind them is stale. A stream that was cut never looks complete.    *)
ExportComplete ==
    ExportAt("returned") /\ export.result = "ok" =>
        /\ disk["schema"] = <<Schema>>
        /\ IsPrefix(export.met, disk["data"])

(* An export that returns Ok leaves exactly the data of the attempt that     *)
(* succeeded: "File opening should be idempotent for multiple function       *)
(* invocations" (database/database.rs:145).                                  *)
ExportIdempotent ==
    ExportAt("returned") /\ export.result = "ok" => disk["data"] = export.met

=============================================================================
