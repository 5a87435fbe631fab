--------------------------- MODULE AnswerContract ---------------------------
(* What a transaction promises the caller of a request: the items the server *)
(* produced for it, each once and in order, and then either completion,      *)
(* when the server had finished and everything was read, or a failure the    *)
(* caller can see. Only a forced close of the driver may cut answers short   *)
(* without a failure.                                                        *)
EXTENDS Naturals

CONSTANT Requests

VARIABLES
    produced,   \* items the server has produced for each request
    finished,   \* the server has nothing more to say about the request
    read,       \* items the caller has read
    state,      \* "idle" | "waiting" | "complete" | "failed"
    forced      \* the driver has been forced closed

vars == <<produced, finished, read, state, forced>>

Init ==
    /\ produced = [r \in Requests |-> 0]
    /\ finished = [r \in Requests |-> FALSE]
    /\ read = [r \in Requests |-> 0]
    /\ state = [r \in Requests |-> "idle"]
    /\ forced = FALSE

Ask(r) ==
    /\ state[r] = "idle"
    /\ state' \in {[state EXCEPT ![r] = s] : s \in {"waiting", "failed"}}
    /\ UNCHANGED <<produced, finished, read, forced>>

(* The server produces an item, finishes, or both. *)
Produce(r) ==
    /\ ~finished[r]
    /\ state[r] # "idle"
    /\ \E i \in {0, 1}, f \in BOOLEAN :
         /\ produced' = [produced EXCEPT ![r] = @ + i]
         /\ finished' = [finished EXCEPT ![r] = f]
    /\ UNCHANGED <<read, state, forced>>

(* The caller reads the next item, which may be the last one or a failure. *)
Deliver(r) ==
    /\ state[r] = "waiting"
    /\ read[r] < produced[r]
    /\ read' = [read EXCEPT ![r] = @ + 1]
    /\ \E s \in {"waiting", "complete", "failed"} :
         /\ s = "complete" => finished[r] /\ read[r] + 1 = produced[r]
         /\ state' = [state EXCEPT ![r] = s]
    /\ UNCHANGED <<produced, finished, forced>>

Complete(r) ==
    /\ state[r] = "waiting"
    /\ forced \/ (finished[r] /\ read[r] = produced[r])
    /\ state' = [state EXCEPT ![r] = "complete"]
    /\ UNCHANGED <<produced, finished, read, forced>>

Fail(r) ==
    /\ state[r] = "waiting"
    /\ state' = [state EXCEPT ![r] = "failed"]
    /\ UNCHANGED <<produced, finished, read, forced>>

Force ==
    /\ forced' = TRUE
    /\ UNCHANGED <<produced, finished, read, state>>

Next ==
    \/ Force
    \/ \E r \in Requests : Ask(r) \/ Produce(r) \/ Deliver(r) \/ Complete(r) \/ Fail(r)

Spec == Init /\ [][Next]_vars

=============================================================================
