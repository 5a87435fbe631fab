--------------------------- MODULE DatabaseImport ---------------------------
(* import_from_file: the client reads items from a file and sends them in    *)
(* batches over a stream of its own; a dispatcher thread forwards them, a    *)
(* listener waits for the one answer of the server. ServerManager::execute   *)
(* may run the whole function again after an error. The server and the gRPC  *)
(* stream are external.                                                      *)
EXTENDS Naturals, SequencesExt

CONSTANTS FileLens,    \* numbers of items a file may hold
          BatchSize,   \* ITEM_BATCH_SIZE
          Attempts     \* 1..n, the attempts execute() makes

ASSUME ImportConstants ==
    FileLens \subseteq Nat /\ BatchSize \in Nat \ {0} /\ 1 \in Attempts

VARIABLES
    file,     \* the items of the file, and whether its end can be decoded
    import,   \* locals of the client
    link,     \* link[a]: the transmitter of attempt a and the server behind it
    host      \* the background runtime: "running", "closing" or "stopped"

importVars == <<file, import, link, host>>

Done == <<0>>   \* no item
NoLink == [queue |-> <<>>, dispatcher |-> "none", signal |-> FALSE, listener |-> "none",
           result |-> "empty", received |-> <<>>, answer |-> "none"]

ImportInit ==
    /\ file \in [items : {[i \in 1..n |-> i] : n \in FileLens}, whole : BOOLEAN]
    /\ import = [pc |-> "idle", attempt |-> 1, pos |-> 0, buffer |-> <<>>, result |-> "none"]
    /\ link = [a \in Attempts |-> NoLink]
    /\ host = "running"

Current == link[import.attempt]
ImportAt(pc) == import.pc = pc
ImportGoto(pc) == import' = [import EXCEPT !.pc = pc]

-----------------------------------------------------------------------------
(* The client.                                                               *)

(* The file is opened and read from its start in every attempt.              *)
OpenImport ==
    /\ import.pc \in {"idle", "retry"}
    /\ import' = [import EXCEPT !.pc = "read", !.pos = 0, !.buffer = <<>>]
    /\ link' = [link EXCEPT ![import.attempt] =
         IF host = "stopped"
         THEN [NoLink EXCEPT !.dispatcher = "ended", !.listener = "ended", !.result = "closed"]
         ELSE [NoLink EXCEPT !.dispatcher = "spawned", !.listener = "spawned"]]
    /\ UNCHANGED <<file, host>>

(* The attempt returns; its stream is dropped, and ShutdownGuard signals.    *)
FaultyGuardSignals == import.result = "ok"
GuardSignals == TRUE

Leave(result) ==
    /\ import' = [import EXCEPT !.pc = "left", !.result = result]
    /\ link' = [link EXCEPT ![import.attempt].signal = @ \/ GuardSignals]
    /\ UNCHANGED <<file, host>>

Full == Len(import.buffer) + 1 >= BatchSize

ReadItem ==
    /\ ImportAt("read")
    /\ import.pos < Len(file.items)
    /\ import' = [import EXCEPT !.pos = @ + 1, !.buffer = Append(@, file.items[import.pos + 1]),
                                !.pc = IF Full THEN "check" ELSE "read"]
    /\ UNCHANGED <<file, link, host>>

FaultyAtEnd == "checkDone"

(* The rest of the buffer is sent, then done() is called.                    *)
AtEnd == IF import.buffer = <<>> THEN "checkDone" ELSE "check"

ReadEnd ==
    /\ ImportAt("read")
    /\ import.pos = Len(file.items)
    /\ IF file.whole
       THEN ImportGoto(AtEnd) /\ UNCHANGED <<file, link, host>>
       ELSE Leave("decode")

(* single(): check_early_result(), then the send, which fails when the       *)
(* dispatcher has dropped its end of the queue.                              *)
EarlyResult == {"ok", "err", "closed"}

CheckEarly ==
    /\ import.pc \in {"check", "checkDone"}
    /\ IF Current.result \in EarlyResult
       THEN Leave(IF Current.result = "ok" THEN "unexpected" ELSE Current.result)
       ELSE /\ ImportGoto(IF ImportAt("check") THEN "send" ELSE "sendDone")
            /\ UNCHANGED <<file, link, host>>

Request == IF ImportAt("send") THEN import.buffer ELSE Done

SendImport ==
    /\ import.pc \in {"send", "sendDone"}
    /\ IF Current.dispatcher = "ended"
       THEN Leave("closed")
       ELSE /\ link' = [link EXCEPT ![import.attempt].queue = Append(@, Request)]
            /\ import' = [import EXCEPT !.pc = IF @ = "send" THEN "read" ELSE "wait",
                                        !.buffer = <<>>]
            /\ UNCHANGED <<file, host>>

WaitDone ==
    /\ ImportAt("wait")
    /\ Current.result # "empty"
    /\ Leave(Current.result)

(* execute() tries again after a connection error, on another connection.    *)
ImportReturns ==
    /\ ImportAt("left")
    /\ \/ import.result \in {"err", "closed"} /\ import.attempt + 1 \in Attempts
          /\ import' = [import EXCEPT !.pc = "retry", !.attempt = @ + 1]
       \/ ImportGoto("returned")
    /\ UNCHANGED <<file, link, host>>

-----------------------------------------------------------------------------
(* The workers of an attempt.                                                *)

StartImportWorkers(a) ==
    /\ link[a].dispatcher = "spawned"
    /\ host # "stopped"
    /\ link' = [link EXCEPT ![a].dispatcher = "running", ![a].listener = "running"]
    /\ UNCHANGED <<file, import, host>>

(* One turn of dispatch_loop(): the signal is looked at first. A server that *)
(* has answered receives nothing more.                                       *)
DispatchLoop(a) ==
    /\ link[a].dispatcher = "running"
    /\ \/ link[a].signal /\ link' = [link EXCEPT ![a].dispatcher = "ended", ![a].queue = <<>>]
       \/ /\ ~link[a].signal
          /\ link[a].queue # <<>>
          /\ link' = [link EXCEPT ![a].queue = Tail(@), ![a].received =
               IF link[a].answer = "none" THEN Append(@, Head(link[a].queue)) ELSE @]
    /\ UNCHANGED <<file, import, host>>

(* next(): the first message, the error or the end of the response stream.   *)
ListenImport(a) ==
    /\ link[a].listener = "running"
    /\ link[a].answer # "none"
    /\ host # "stopped"
    /\ link' = [link EXCEPT ![a].listener = "ended", ![a].result = link[a].answer,
                            ![a].signal = TRUE]
    /\ UNCHANGED <<file, import, host>>

(* The server answers Done to a Done, and may fail or hang up at any time.   *)
ServerAnswers(a) ==
    /\ link[a].listener = "running"
    /\ link[a].answer = "none"
    /\ \E answer \in {"ok", "err", "closed"} :
         /\ answer = "ok" => Done \in Range(link[a].received)
         /\ link' = [link EXCEPT ![a].answer = answer]
    /\ UNCHANGED <<file, import, host>>

(* force_close of the driver signals the dispatchers it knows, then the      *)
(* worker stops and drops the listeners with their ends of the result.       *)
CloseImports ==
    /\ host = "running"
    /\ host' = "closing"
    /\ link' = [a \in Attempts |-> [link[a] EXCEPT !.signal = @ \/ link[a].dispatcher # "none"]]
    /\ UNCHANGED <<file, import>>

StopImports ==
    /\ host = "closing"
    /\ host' = "stopped"
    /\ link' = [a \in Attempts |->
         [link[a] EXCEPT !.dispatcher = IF @ = "spawned" THEN "ended" ELSE @,
                         !.listener = IF @ = "none" THEN @ ELSE "ended",
                         !.result = IF @ = "empty" /\ link[a].listener # "none" THEN "closed" ELSE @]]
    /\ UNCHANGED <<file, import>>

-----------------------------------------------------------------------------
ImportWorkers(a) == StartImportWorkers(a) \/ DispatchLoop(a) \/ ListenImport(a)

ImportClient ==
    \/ ReadItem \/ ReadEnd \/ CheckEarly \/ SendImport \/ WaitDone \/ ImportReturns

ImportNext ==
    \/ OpenImport \/ ImportClient
    \/ \E a \in Attempts : ImportWorkers(a) \/ ServerAnswers(a)
    \/ CloseImports \/ StopImports

(* Threads run and the worker polls its tasks; the server owes no answer.    *)
ImportFairness ==
    /\ \A a \in Attempts : WF_importVars(ImportWorkers(a))
    /\ WF_importVars(StopImports)

ImportSpec == ImportInit /\ [][ImportNext]_importVars /\ ImportFairness

-----------------------------------------------------------------------------
(* Batches that hold the items 1..n of a file, each once and in order: a     *)
(* batch goes on where the one before it ended.                              *)
InOrder(batches, n) ==
    /\ \A k \in DOMAIN batches :
         LET before == IF k = 1 THEN 0 ELSE Last(batches[k - 1])
         IN  /\ batches[k] # <<>>
             /\ \A j \in DOMAIN batches[k] : batches[k][j] = before + j
    /\ n = IF batches = <<>> THEN 0 ELSE Last(Last(batches))

(* An import that returns Ok is complete: the server it ended on received    *)
(* all items of a file that was read to its end, each once and in order, in  *)
(* batches of at most ITEM_BATCH_SIZE, then Done, whatever attempts failed   *)
(* before and however the dispatcher, the early result and force_close raced.*)
ImportComplete ==
    import.result = "ok" =>
        /\ file.whole
        /\ InOrder(Front(Current.received), Len(file.items))
        /\ Last(Current.received) = Done
        /\ \A r \in Range(Current.received) : Len(r) <= BatchSize

(* The dispatcher thread of every attempt ends once import_from_file has     *)
(* returned, also when it failed before the server said anything.            *)
ImportDispatchersEnd ==
    import.pc = "returned" ~> \A a \in Attempts : link[a].dispatcher \in {"none", "ended"}

=============================================================================
