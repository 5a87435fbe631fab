----------------------------- MODULE ServerCall -----------------------------
(***************************************************************************)
(* What a user operation routed by the driver (open a transaction, create  *)
(* a database, list the servers) promises its caller.  It is an            *)
(* at-least-once call with a budget: servers may run the operation several *)
(* times, because the answer of a run can be lost, but never again once    *)
(* an answer arrived, never more than Retries + 1 times, and what the      *)
(* caller gets is that answer.  An answer is a result or an error that is  *)
(* not retried; "unreachable" is returned only when none arrived.          *)
(***************************************************************************)
EXTENDS Naturals

CONSTANTS Calls,       \* the user operations
          Retries      \* DriverOptions::primary_failover_retries

VARIABLES runs,        \* runs[c]: times a server ran operation c
          answer,      \* answer[c]: the answer that reached the driver
          outcome      \* outcome[c]: what the caller got

vars == <<runs, answer, outcome>>

Answers == {"ok", "failed"}

Init ==
    /\ runs = [c \in Calls |-> 0]
    /\ answer = [c \in Calls |-> "none"]
    /\ outcome = [c \in Calls |-> "none"]

\* A server runs the operation; its answer arrives or is lost ("none").
Run(c) ==
    /\ outcome[c] = "none"
    /\ answer[c] = "none"
    /\ runs[c] <= Retries
    /\ runs' = [runs EXCEPT ![c] = @ + 1]
    /\ \E a \in Answers \cup {"none"} : answer' = [answer EXCEPT ![c] = a]
    /\ UNCHANGED outcome

\* A server refuses the connection with an error that is not retried, so that
\* the operation fails without another run.
Refuse(c) ==
    /\ outcome[c] = "none"
    /\ answer[c] = "none"
    /\ answer' = [answer EXCEPT ![c] = "failed"]
    /\ UNCHANGED <<runs, outcome>>

\* The call returns the answer it has, or gives up without one.
Return(c) ==
    /\ outcome[c] = "none"
    /\ outcome' = [outcome EXCEPT ![c] = IF answer[c] = "none" THEN "unreachable" ELSE answer[c]]
    /\ UNCHANGED <<runs, answer>>

Next == \E c \in Calls : Run(c) \/ Refuse(c) \/ Return(c)

Spec == Init /\ [][Next]_vars
=============================================================================
