------------------------ MODULE ServerManagerProofs ------------------------
(***************************************************************************)
(* Proofs about ServerManager, for every number of servers, operations,    *)
(* retries and terms: its types, and that the operations keep the call     *)
(* contract ServerCall however they interleave.                            *)
(*                                                                         *)
(* A step changes the locals of one operation.  So the invariant is a      *)
(* predicate Good on the locals of one operation, and the refinement a     *)
(* relation Moves between them before and after a step; one lemma per      *)
(* action establishes both.                                                *)
(***************************************************************************)
EXTENDS ServerManager, FiniteSetTheorems, TLAPS

Early == {"idle", "lookup", "connect", "task"}

Ans(o) == IF o.reply \in {"ok", "failed"} THEN o.reply ELSE "none"

\* What makes the call contract inductive: where an answer can be pending, and
\* that an operation about to be tried has been run at most once per attempt.
Good(o) ==
    /\ o.outcome # "none" => o.pc = "done"
    /\ o.pc \in Early => o.reply = "none"
    /\ o.pc \in {"lookup", "connect", "task", "reply"} => o.primary \in Servers
    /\ o.pc \in {"poll_connect", "fetch"} => o.polled \in Servers
    /\ o.pc = "reply" => o.reply # "none"
    /\ o.pc = "record" => o.reply = "ok"
    /\ o.reply \in {"ok", "failed"} => o.pc \in {"reply", "record", "done"}
    /\ o.kind = "new" => o.pc \in {"snapshot", "refresh"} /\ o.reply = "none"
    /\ o.pc = "idle" \/ o.kind = "new" => o.primary = None
    /\ o.pc \notin {"reply", "record", "done"} /\ o.primary = None => o.runs = 0
    /\ o.pc \in {"lookup", "connect", "task"} => o.runs <= o.attempt
    /\ o.pc # "done" => o.runs <= o.attempt + 1
    /\ o.pc \in {"snapshot", "refresh"} /\ o.kind # "new" => o.found \in Servers

\* A step of the contract on the locals of one operation, or a stutter.
Moves(o, n) ==
    \/ n.runs = o.runs /\ Ans(n) = Ans(o) /\ n.outcome = o.outcome
    \/ /\ o.outcome = "none" /\ Ans(o) = "none" /\ o.runs <= Retries
       /\ n.runs = o.runs + 1 /\ n.outcome = o.outcome
    \/ /\ o.outcome = "none" /\ Ans(o) = "none"
       /\ n.runs = o.runs /\ Ans(n) = "failed" /\ n.outcome = o.outcome
    \/ /\ o.outcome = "none"
       /\ n.outcome = IF Ans(o) = "none" THEN "unreachable" ELSE Ans(o)
       /\ n.runs = o.runs /\ Ans(n) = Ans(o)

ClusterOK ==
    /\ alive \in [Servers -> BOOLEAN] /\ leader \in Servers /\ term \in 1..MaxTerm
    /\ view \in [Servers -> SUBSET Replica] /\ faults \in 0..MaxFaults
ManagerOK == built \in BOOLEAN /\ replicas \subseteq Replica /\ conns \subseteq Servers
CallsOK == op \in [Calls -> Locals] /\ \A c \in Calls : Good(op[c])

\* Operation c alone changed, and stayed good.
Changes(c) ==
    /\ op' \in [Calls -> Locals]
    /\ \A d \in Calls \ {c} : op'[d] = op[d]
    /\ Good(op'[c])
    /\ Moves(op[c], op'[c])

LEMMA Names ==
  /\ "idle" \in Steps /\ "lookup" \in Steps /\ "connect" \in Steps /\ "task" \in Steps
  /\ "reply" \in Steps /\ "record" \in Steps /\ "seek" \in Steps /\ "poll_connect" \in Steps
  /\ "fetch" \in Steps /\ "store" \in Steps /\ "read" \in Steps /\ "snapshot" \in Steps
  /\ "refresh" \in Steps /\ "done" \in Steps
  /\ "none" \in Kinds /\ "new" \in Kinds /\ "task" \in Kinds /\ "servers" \in Kinds /\ "direct" \in Kinds
  /\ "none" \in Replies /\ "ok" \in Replies /\ "failed" \in Replies /\ "conn" \in Replies
  /\ "notprimary" \in Replies
  /\ "none" \in Outcomes /\ "ok" \in Outcomes /\ "failed" \in Outcomes /\ "unreachable" \in Outcomes
  /\ None \in MaybeServer /\ \A s \in Servers : s \in MaybeServer
  /\ \A s \in MaybeServer : s # None => s \in Servers
  /\ {} \in Lists /\ {} \in Groups
  /\ 0 \in Tries /\ \A i \in Tries : i \in Nat /\ i <= Retries
  /\ \A i \in Tries : i < Retries => i + 1 \in Tries
  BY ManagerConstants
     DEF Steps, Kinds, Replies, Outcomes, MaybeServer, Lists, Groups, Tries

LEMMA IdleGood == Idle \in Locals /\ Good(Idle)
  <1>1. Idle \in Locals
    BY Names DEF Idle, Locals
  <1>2. Good(Idle)
    BY ManagerConstants DEF Idle, Good, Early
  <1> QED
    BY <1>1, <1>2

LEMMA ServersOfTyped ==
  ASSUME NEW rs \in SUBSET Replica
  PROVE  ServersOf(rs) \subseteq Servers /\ FindPrimary(rs) \subseteq Servers
  BY DEF ServersOf, FindPrimary, Replica

\* The locals of one operation replaced by good ones.
LEMMA Replaced ==
  ASSUME CallsOK, NEW c \in Calls, NEW n \in Locals, op' = [op EXCEPT ![c] = n],
         Good(n), Moves(op[c], n)
  PROVE  Changes(c)
  BY DEF CallsOK, Changes

\* The history of a disturbance does not matter.
LEMMA NotCalm ==
  ASSUME NEW o \in Locals, NEW b \in BOOLEAN
  PROVE  /\ [o EXCEPT !.calm = b] \in Locals
         /\ Good(o) => Good([o EXCEPT !.calm = b])
         /\ \A m : Moves(m, o) => Moves(m, [o EXCEPT !.calm = b])
  BY DEF Locals, Good, Moves, Ans

LEMMA UnreachedChanges ==
  ASSUME CallsOK, NEW c \in Calls, NEW s, NEW n \in Locals, Good(n), Moves(op[c], n),
         Unreached(c, s, n) \/ Misbehaves(c, s, n)
  PROVE  Changes(c)
  <1>1. CASE op' = [op EXCEPT ![c] = n]
    BY <1>1, Replaced
  <1>2. CASE op' = [op EXCEPT ![c] = [n EXCEPT !.calm = FALSE]]
    <2>1. FALSE \in BOOLEAN
      OBVIOUS
    <2>2. /\ [n EXCEPT !.calm = FALSE] \in Locals /\ Good([n EXCEPT !.calm = FALSE])
          /\ Moves(op[c], [n EXCEPT !.calm = FALSE])
      BY <2>1, NotCalm
    <2> QED
      BY <1>2, <2>2, Replaced
  <1> QED
    BY <1>1, <1>2 DEF Unreached, Misbehaves

-----------------------------------------------------------------------------
(* The shared ends of the actions.                                         *)

LEMMA FinishChanges ==
  ASSUME CallsOK, NEW c \in Calls, op[c].pc # "done", op[c].kind # "new",
         NEW result \in {"ok", "failed", "unreachable"},
         result = IF Ans(op[c]) = "none" THEN "unreachable" ELSE Ans(op[c]),
         Finish(c, result)
  PROVE  Changes(c)
  <1> DEFINE n == [Idle EXCEPT !.pc = "done", !.kind = op[c].kind, !.reply = op[c].reply,
                               !.runs = op[c].runs, !.calm = op[c].calm, !.outcome = result]
  <1>1. op[c] \in Locals /\ Good(op[c])
    BY DEF CallsOK
  <1>a. /\ op[c].kind \in Kinds /\ op[c].reply \in Replies /\ op[c].runs \in Nat
        /\ op[c].calm \in BOOLEAN /\ result \in Outcomes /\ "done" \in Steps
    BY <1>1, Names DEF Locals
  <1>2. n \in Locals
    BY <1>a, IdleGood DEF Locals
  <1>3. Good(n)
    BY <1>1, ManagerConstants, Names DEF Good, Idle, Early
  <1>4. Moves(op[c], n)
    BY <1>1 DEF Good, Moves, Ans, Idle
  <1>5. op' = [op EXCEPT ![c] = n]
    BY DEF Finish
  <1> HIDE DEF n
  <1> QED
    BY <1>2, <1>3, <1>4, <1>5, Replaced

LEMMA NextAttemptChanges ==
  ASSUME CallsOK, NEW c \in Calls, NEW p \in Servers, op[c].pc \in {"reply", "refresh"},
         op[c].kind # "new", Ans(op[c]) = "none", NextAttempt(c, p)
  PROVE  Changes(c)
  <1>1. op[c] \in Locals /\ Good(op[c])
    BY DEF CallsOK
  <1>2. CASE op[c].attempt < Retries
    <2> DEFINE n == [op[c] EXCEPT !.pc = "lookup", !.primary = p, !.attempt = op[c].attempt + 1,
                          !.reply = "none", !.hint = None, !.source = {}, !.todo = {},
                          !.round = 0, !.polled = None, !.found = None]
    <2>1. n \in Locals
      BY <1>1, <1>2, Names DEF Locals
    <2>2. Good(n)
      BY <1>1, <1>2, ManagerConstants, Names DEF Good, Early, Ans, Locals
    <2>3. Moves(op[c], n)
      BY <1>1 DEF Moves, Ans, Locals
    <2>4. op' = [op EXCEPT ![c] = n]
      BY <1>2 DEF NextAttempt
    <2> HIDE DEF n
    <2> QED
      BY <2>1, <2>2, <2>3, <2>4, Replaced
  <1>3. CASE ~(op[c].attempt < Retries)
    BY <1>1, <1>3, FinishChanges DEF NextAttempt, Good
  <1> QED
    BY <1>2, <1>3

LEMMA AnotherRoundChanges ==
  ASSUME CallsOK, NEW c \in Calls, op[c].pc \in {"seek", "refresh"}, op[c].kind # "new",
         op[c].round < Retries, AnotherRound(c)
  PROVE  Changes(c)
  <1> DEFINE n == [op[c] EXCEPT !.pc = "seek", !.todo = op[c].source, !.round = @ + 1,
                        !.polled = None, !.found = None, !.snapshot = {}, !.opened = {}]
  <1>1. op[c] \in Locals /\ Good(op[c])
    BY DEF CallsOK
  <1>2. n \in Locals
    BY <1>1, ManagerConstants, Names DEF Locals
  <1>3. Good(n) /\ Moves(op[c], n)
    BY <1>1 DEF Good, Moves, Ans, Early, Locals
  <1>4. op' = [op EXCEPT ![c] = n]
    BY DEF AnotherRound, CallsOK
  <1> HIDE DEF n
  <1> QED
    BY <1>2, <1>3, <1>4, Replaced

-----------------------------------------------------------------------------
(* One lemma per action.                                                   *)

LEMMA LookupChanges ==
  ASSUME CallsOK, NEW c \in Calls, Lookup(c)
  PROVE  Changes(c)
  <1>1. op[c] \in Locals /\ Good(op[c])
    BY DEF CallsOK
  <1>2. PICK step \in {"task", "connect"} : op' = [op EXCEPT ![c].pc = step]
    BY DEF Lookup, Goto
  <1> DEFINE n == [op[c] EXCEPT !.pc = step]
  <1>3. op' = [op EXCEPT ![c] = n]
    BY <1>2 DEF Lookup, Goto, CallsOK
  <1>4. n \in Locals
    BY <1>1, <1>2, ManagerConstants, Names DEF Locals
  <1>5. Good(n) /\ Moves(op[c], n)
    BY <1>1, <1>2, ManagerConstants, Names DEF Lookup, At, Good, Moves, Ans, Locals, Early
  <1> HIDE DEF n
  <1> QED
    BY <1>3, <1>4, <1>5, Replaced

LEMMA ConnectChanges ==
  ASSUME CallsOK, NEW c \in Calls, Connect(c)
  PROVE  Changes(c)
  <1>1. op[c] \in Locals /\ Good(op[c]) /\ op[c].pc = "connect"
    BY DEF CallsOK, Connect, At
  <1>2. CASE op' = [op EXCEPT ![c].pc = "task"]
    <2> DEFINE n == [op[c] EXCEPT !.pc = "task"]
    <2>1. op' = [op EXCEPT ![c] = n]
      BY <1>2 DEF CallsOK
    <2>2. n \in Locals
      BY <1>1, Names DEF Locals
    <2>3. Good(n) /\ Moves(op[c], n)
      BY <1>1 DEF Good, Moves, Ans, Locals, Early
    <2> HIDE DEF n
    <2> QED
      BY <2>1, <2>2, <2>3, Replaced
  <1>3. ASSUME NEW r \in {"conn", "failed"},
               \/ Unreached(c, op[c].primary, [[op[c] EXCEPT !.pc = "reply"] EXCEPT !.reply = r])
               \/ Misbehaves(c, op[c].primary, [[op[c] EXCEPT !.pc = "reply"] EXCEPT !.reply = r])
        PROVE  Changes(c)
    <2> DEFINE n == [[op[c] EXCEPT !.pc = "reply"] EXCEPT !.reply = r]
    <2>1. r \in Replies
      BY Names
    <2>2. n \in Locals
      BY <1>1, <2>1, Names DEF Locals
    <2>3. n.runs <= n.attempt + 1
      BY <1>1, Names DEF Good, Locals
    <2>4. n.pc = "reply" /\ n.reply = r /\ n.outcome = op[c].outcome /\ n.runs = op[c].runs
          /\ n.primary = op[c].primary /\ n.kind = op[c].kind
      BY <1>1 DEF Locals
    <2>5. op[c].outcome = "none" /\ op[c].reply = "none"
      BY <1>1 DEF Good, Early
    <2>6. Unreached(c, op[c].primary, n) \/ Misbehaves(c, op[c].primary, n)
      BY <1>3
    <2> HIDE DEF n
    <2>7. Good(n)
      BY <1>1, <2>3, <2>4, <2>5 DEF Good, Early
    <2>8. Moves(op[c], n)
      BY <2>4, <2>5 DEF Moves, Ans
    <2> QED
      BY <2>2, <2>6, <2>7, <2>8, UnreachedChanges
  <1> QED
    BY <1>2, <1>3 DEF Connect, Goto

\* The only action in which a server may run the operation.
LEMMA TaskChanges ==
  ASSUME CallsOK, ClusterOK, NEW c \in Calls, Task(c)
  PROVE  Changes(c)
  <1>1. op[c] \in Locals /\ Good(op[c])
    BY DEF CallsOK
  <1>a. op[c].pc = "task"
    BY DEF Task, At
  <1>b. op[c].primary \in Servers /\ op[c].reply = "none" /\ op[c].outcome = "none"
        /\ op[c].runs <= op[c].attempt
    BY <1>1, <1>a DEF Good, Early
  <1>c. op[c].runs \in Nat /\ op[c].attempt \in Nat /\ op[c].attempt <= Retries
    BY <1>1, Names DEF Locals
  <1>2. op[c].pc = "task" /\ op[c].primary \in Servers /\ op[c].reply = "none"
        /\ op[c].outcome = "none" /\ op[c].runs <= Retries
    BY <1>a, <1>b, <1>c, ManagerConstants
  <1>3. view[op[c].primary] \in Lists
    BY <1>2 DEF ClusterOK, Lists
  <1>4. FindPrimary(view[op[c].primary]) \subseteq Servers
    BY <1>3, ServersOfTyped DEF Lists
  <1> DEFINE o == [op[c] EXCEPT !.pc = "reply"]
             Ran(reply, listed, calm) ==
                 [o EXCEPT !.runs = op[c].runs + 1, !.reply = reply, !.listed = listed, !.calm = calm]
             NotRun(reply, hint) == [o EXCEPT !.reply = reply, !.hint = hint]
  <1>5. CASE \E reply \in {"ok", "failed", "conn"}, listed \in Lists, calm \in BOOLEAN :
                op' = [op EXCEPT ![c] = Ran(reply, listed, calm)]
    <2>1. PICK reply \in {"ok", "failed", "conn"}, listed \in Lists, calm \in BOOLEAN :
                op' = [op EXCEPT ![c] = Ran(reply, listed, calm)]
      BY <1>5
    <2> DEFINE n == Ran(reply, listed, calm)
    <2>a. reply \in Replies /\ op[c].runs + 1 \in Nat
      BY <1>c, Names
    <2>2. n \in Locals
      BY <1>1, <2>a, Names DEF Locals
    <2>3. /\ n.pc = "reply" /\ n.outcome = "none" /\ n.reply = reply /\ n.runs = op[c].runs + 1
          /\ n.primary = op[c].primary /\ n.kind = op[c].kind /\ n.attempt = op[c].attempt
      BY <1>1, <1>2 DEF Locals
    <2>4. reply # "none" /\ op[c].kind # "new" /\ op[c].primary # None
      BY <1>1, <1>2, <2>1, ManagerConstants DEF Good
    <2> HIDE DEF n
    <2>5. Good(n)
      BY <1>2, <1>b, <1>c, <2>3, <2>4 DEF Good, Early
    <2>6. Moves(op[c], n)
      BY <1>2, <2>3 DEF Moves, Ans
    <2> QED
      BY <2>1, <2>2, <2>5, <2>6, Replaced DEF n
  <1>6. CASE \E reply \in {"notprimary"}, hint \in MaybeServer :
                op' = [op EXCEPT ![c] = NotRun(reply, hint)]
    <2>1. PICK reply \in {"notprimary"}, hint \in MaybeServer :
                op' = [op EXCEPT ![c] = NotRun(reply, hint)]
      BY <1>6
    <2> DEFINE n == NotRun(reply, hint)
    <2>2. n \in Locals
      BY <1>1, <2>1, Names DEF Locals
    <2>3. /\ n.pc = "reply" /\ n.outcome = "none" /\ n.reply = reply /\ n.runs = op[c].runs
          /\ n.primary = op[c].primary /\ n.kind = op[c].kind /\ n.attempt = op[c].attempt
      BY <1>1, <1>2 DEF Locals
    <2>4. reply \notin {"none", "ok", "failed"} /\ op[c].kind # "new" /\ op[c].primary # None
      BY <1>1, <1>2, <2>1, ManagerConstants DEF Good
    <2> HIDE DEF n
    <2>5. Good(n)
      BY <1>2, <1>b, <1>c, <2>3, <2>4 DEF Good, Early
    <2>6. Moves(op[c], n)
      BY <1>2, <2>3, <2>4 DEF Moves, Ans
    <2> QED
      BY <2>1, <2>2, <2>5, <2>6, Replaced DEF n
  <1>7. ASSUME NEW x \in Lists, op' = [op EXCEPT ![c] = [o EXCEPT !.runs = op[c].runs + 1,
                    !.reply = "ok", !.listed = x]]
        PROVE  \E reply \in {"ok", "failed", "conn"}, listed \in Lists, calm \in BOOLEAN :
                  op' = [op EXCEPT ![c] = Ran(reply, listed, calm)]
    <2>1. [o EXCEPT !.runs = op[c].runs + 1, !.reply = "ok", !.listed = x]
             = Ran("ok", x, op[c].calm)
      BY <1>1 DEF Locals
    <2>2. op[c].calm \in BOOLEAN
      BY <1>1 DEF Locals
    <2> QED
      BY <1>7, <2>1, <2>2
  <1>8. ASSUME op' = [op EXCEPT ![c] = [o EXCEPT !.runs = op[c].runs + 1, !.reply = "failed"]]
        PROVE  \E reply \in {"ok", "failed", "conn"}, listed \in Lists, calm \in BOOLEAN :
                  op' = [op EXCEPT ![c] = Ran(reply, listed, calm)]
    <2>1. [o EXCEPT !.runs = op[c].runs + 1, !.reply = "failed"]
             = Ran("failed", op[c].listed, op[c].calm)
      BY <1>1 DEF Locals
    <2>2. op[c].listed \in Lists /\ op[c].calm \in BOOLEAN
      BY <1>1 DEF Locals
    <2> QED
      BY <1>8, <2>1, <2>2
  <1>9. ASSUME op' = [op EXCEPT ![c] = [o EXCEPT !.runs = op[c].runs + 1, !.reply = "conn",
                                              !.calm = FALSE]]
        PROVE  \E reply \in {"ok", "failed", "conn"}, listed \in Lists, calm \in BOOLEAN :
                  op' = [op EXCEPT ![c] = Ran(reply, listed, calm)]
    <2>1. [o EXCEPT !.runs = op[c].runs + 1, !.reply = "conn", !.calm = FALSE]
             = Ran("conn", op[c].listed, FALSE)
      BY <1>1 DEF Locals
    <2>2. op[c].listed \in Lists
      BY <1>1 DEF Locals
    <2> QED
      BY <1>9, <2>1, <2>2
  <1>10. ASSUME NEW hint \in MaybeServer,
                op' = [op EXCEPT ![c] = [o EXCEPT !.reply = "notprimary", !.hint = hint]]
         PROVE  Changes(c)
    BY <1>10, <1>6
  <1>11. ASSUME Unreached(c, op[c].primary, [o EXCEPT !.reply = "conn"])
         PROVE  Changes(c)
    <2> DEFINE n == [o EXCEPT !.reply = "conn"]
    <2>1. n \in Locals
      BY <1>1, Names DEF Locals
    <2>2. /\ n.pc = "reply" /\ n.outcome = "none" /\ n.reply = "conn" /\ n.runs = op[c].runs
          /\ n.primary = op[c].primary /\ n.kind = op[c].kind /\ n.attempt = op[c].attempt
      BY <1>1, <1>2 DEF Locals
    <2>3. op[c].kind # "new" /\ op[c].primary # None
      BY <1>1, <1>2, ManagerConstants DEF Good
    <2>4. Unreached(c, op[c].primary, n)
      BY <1>11
    <2> HIDE DEF n
    <2>5. Good(n)
      BY <1>2, <1>b, <1>c, <2>2, <2>3 DEF Good, Early
    <2>6. Moves(op[c], n)
      BY <1>2, <2>2 DEF Moves, Ans
    <2> QED
      BY <2>1, <2>4, <2>5, <2>6, UnreachedChanges
  <1>12. \/ \E x \in Lists : op' = [op EXCEPT ![c] = [o EXCEPT !.runs = op[c].runs + 1,
                    !.reply = "ok", !.listed = x]]
         \/ op' = [op EXCEPT ![c] = [o EXCEPT !.runs = op[c].runs + 1, !.reply = "failed"]]
         \/ op' = [op EXCEPT ![c] = [o EXCEPT !.runs = op[c].runs + 1, !.reply = "conn",
                                              !.calm = FALSE]]
         \/ \E hint \in MaybeServer :
               op' = [op EXCEPT ![c] = [o EXCEPT !.reply = "notprimary", !.hint = hint]]
         \/ Unreached(c, op[c].primary, [o EXCEPT !.reply = "conn"])
    <2>1. (IF o.kind = "servers" THEN view[op[c].primary] ELSE {}) \in Lists
      BY <1>3, Names
    <2>2. \A hint \in {None} \cup (FindPrimary(view[op[c].primary]) \ {op[c].primary}) :
             hint \in MaybeServer
      BY <1>4, Names
    <2> QED
      BY <2>1, <2>2 DEF Task
  <1> QED
    BY <1>5, <1>7, <1>8, <1>9, <1>10, <1>11, <1>12

LEMMA AnsweredChanges ==
  ASSUME CallsOK, NEW c \in Calls, Answered(c)
  PROVE  Changes(c)
  <1>1. op[c] \in Locals /\ Good(op[c]) /\ op[c].pc = "reply"
    BY DEF CallsOK, Answered, At
  <1>2. CASE op[c].kind = "servers" /\ op[c].reply = "ok"
    <2> DEFINE n == [op[c] EXCEPT !.pc = "record"]
    <2>1. op' = [op EXCEPT ![c] = n]
      BY <1>2 DEF Answered, Goto, CallsOK
    <2>2. n \in Locals
      BY <1>1, Names DEF Locals
    <2>3. Good(n) /\ Moves(op[c], n)
      BY <1>1, <1>2 DEF Good, Moves, Ans, Locals, Early
    <2> HIDE DEF n
    <2> QED
      BY <2>1, <2>2, <2>3, Replaced
  <1>3. CASE ~(op[c].kind = "servers" /\ op[c].reply = "ok")
    <2> DEFINE result == IF Retryable(op[c].reply) THEN "unreachable" ELSE op[c].reply
    <2>1. Finish(c, result)
      BY <1>3 DEF Answered
    <2>2. /\ result \in {"ok", "failed", "unreachable"}
          /\ result = IF Ans(op[c]) = "none" THEN "unreachable" ELSE Ans(op[c])
      <3>1. op[c].reply \in {"ok", "failed", "conn", "notprimary"}
        BY <1>1 DEF Good, Locals, Replies
      <3> QED
        BY <3>1 DEF Retryable, Ans
    <2>3. op[c].kind # "new"
      BY <1>1 DEF Good
    <2> HIDE DEF result
    <2> QED
      BY <1>1, <2>1, <2>2, <2>3, FinishChanges
  <1> QED
    BY <1>2, <1>3

LEMMA RecordChanges ==
  ASSUME CallsOK, NEW c \in Calls, Record(c)
  PROVE  Changes(c)
  <1>1. op[c] \in Locals /\ Good(op[c]) /\ op[c].pc = "record"
    BY DEF CallsOK, Record, At
  <1>2. op[c].kind # "new" /\ Ans(op[c]) = "ok"
    BY <1>1 DEF Good, Ans
  <1> QED
    BY <1>1, <1>2, FinishChanges DEF Record

LEMMA FollowHintChanges ==
  ASSUME CallsOK, ManagerOK, NEW c \in Calls, FollowHint(c)
  PROVE  Changes(c)
  <1>1. op[c] \in Locals /\ Good(op[c]) /\ op[c].pc = "reply"
    BY DEF CallsOK, FollowHint, At
  <1>2. op[c].kind # "new" /\ Ans(op[c]) = "none"
    BY <1>1 DEF Good, Ans, FollowHint, Hinted
  <1>3. op[c].hint \in Servers
    BY ServersOfTyped DEF FollowHint, Hinted, ManagerOK
  <1> QED
    BY <1>1, <1>2, <1>3, NextAttemptChanges DEF FollowHint

LEMMA SeekAfterFailureChanges ==
  ASSUME CallsOK, ManagerOK, NEW c \in Calls, SeekAfterFailure(c)
  PROVE  Changes(c)
  <1>1. op[c] \in Locals /\ Good(op[c])
    BY DEF CallsOK
  <1>2. FailoverCandidates(c) \in Groups
    BY ServersOfTyped DEF FailoverCandidates, ManagerOK, Groups
  <1> DEFINE n == [op[c] EXCEPT !.pc = "seek", !.source = FailoverCandidates(c),
                               !.todo = FailoverCandidates(c)]
  <1>3. op' = [op EXCEPT ![c] = n]
    BY <1>2 DEF SeekAfterFailure, Goto, CallsOK
  <1>4. n \in Locals
    BY <1>1, <1>2, ManagerConstants, Names DEF Locals, Retryable
  <1>5. Good(n) /\ Moves(op[c], n)
    BY <1>1, <1>2, ManagerConstants, Names DEF SeekAfterFailure, At, Good, Moves, Ans, Locals, Early, Retryable
  <1> HIDE DEF n
  <1> QED
    BY <1>3, <1>4, <1>5, Replaced

LEMMA PollChanges ==
  ASSUME CallsOK, NEW c \in Calls, Poll(c)
  PROVE  Changes(c)
  <1>1. op[c] \in Locals /\ Good(op[c]) /\ op[c].pc = "seek"
    BY DEF CallsOK, Poll, At
  <1>2. PICK r \in op[c].todo :
           op' = [op EXCEPT ![c].pc = IF r \in conns THEN "fetch" ELSE "poll_connect",
                            ![c].polled = r, ![c].todo = @ \ {r}]
    BY DEF Poll
  <1> DEFINE step == IF r \in conns THEN "fetch" ELSE "poll_connect"
             n == [op[c] EXCEPT !.pc = step, !.polled = r, !.todo = op[c].todo \ {r}]
  <1>3. op' = [op EXCEPT ![c] = n]
    BY <1>1, <1>2 DEF CallsOK, Locals
  <1>4. step \in {"fetch", "poll_connect"} /\ step \in Steps
    BY Names
  <1>5. op[c].todo \in Groups
    BY <1>1 DEF Locals
  <1>6. r \in Servers /\ op[c].todo \ {r} \in Groups
    BY <1>5 DEF Groups
  <1> HIDE DEF step
  <1>7. n \in Locals
    BY <1>1, <1>4, <1>6, Names DEF Locals
  <1>8. Good(n) /\ Moves(op[c], n)
    BY <1>1, <1>4, <1>6 DEF Good, Moves, Ans, Locals, Early
  <1> HIDE DEF n
  <1> QED
    BY <1>3, <1>7, <1>8, Replaced

LEMMA RoundFailedChanges ==
  ASSUME CallsOK, NEW c \in Calls, RoundFailed(c)
  PROVE  Changes(c)
  <1>1. op[c] \in Locals /\ Good(op[c]) /\ op[c].pc = "seek"
    BY DEF CallsOK, RoundFailed, At
  <1>2. op[c].kind # "new" /\ Ans(op[c]) = "none"
    BY <1>1 DEF Good, Ans
  <1>3. CASE op[c].round < Retries /\ AnotherRound(c)
    BY <1>1, <1>2, <1>3, AnotherRoundChanges
  <1>4. CASE Finish(c, "unreachable")
    BY <1>1, <1>2, <1>4, FinishChanges
  <1> QED
    BY <1>3, <1>4 DEF RoundFailed

LEMMA PollFailsChanges ==
  ASSUME CallsOK, NEW c \in Calls, op[c].pc \in {"poll_connect", "fetch"}, PollFails(c)
  PROVE  Changes(c)
  <1>1. op[c] \in Locals /\ Good(op[c])
    BY DEF CallsOK
  <1> DEFINE n == [op[c] EXCEPT !.pc = "seek"]
             m == [n EXCEPT !.todo = {}]
  <1>2. n \in Locals /\ m \in Locals
    BY <1>1, Names DEF Locals
  <1>3. Good(n) /\ Moves(op[c], n)
    BY <1>1 DEF Good, Moves, Ans, Locals, Early
  <1>4. Good(m) /\ Moves(op[c], m)
    BY <1>1 DEF Good, Moves, Ans, Locals, Early
  <1>5. Unreached(c, op[c].polled, n) \/ Misbehaves(c, op[c].polled, m)
    BY DEF PollFails
  <1> HIDE DEF n, m
  <1> QED
    BY <1>2, <1>3, <1>4, <1>5, UnreachedChanges

LEMMA PollConnectChanges ==
  ASSUME CallsOK, NEW c \in Calls, PollConnect(c)
  PROVE  Changes(c)
  <1>1. op[c] \in Locals /\ Good(op[c]) /\ op[c].pc = "poll_connect"
    BY DEF CallsOK, PollConnect, At
  <1>2. CASE op' = [op EXCEPT ![c].pc = "fetch"]
    <2> DEFINE n == [op[c] EXCEPT !.pc = "fetch"]
    <2>1. op' = [op EXCEPT ![c] = n]
      BY <1>2 DEF CallsOK
    <2>2. n \in Locals
      BY <1>1, Names DEF Locals
    <2>3. Good(n) /\ Moves(op[c], n)
      BY <1>1 DEF Good, Moves, Ans, Locals, Early
    <2> HIDE DEF n
    <2> QED
      BY <2>1, <2>2, <2>3, Replaced
  <1> QED
    BY <1>1, <1>2, PollFailsChanges DEF PollConnect, Goto

LEMMA FetchChanges ==
  ASSUME CallsOK, ClusterOK, NEW c \in Calls, Fetch(c)
  PROVE  Changes(c)
  <1>1. op[c] \in Locals /\ Good(op[c]) /\ op[c].pc = "fetch"
    BY DEF CallsOK, Fetch, At
  <1>2. view[op[c].polled] \in Lists
    BY <1>1 DEF Good, ClusterOK, Lists
  <1>3. CASE op' = [op EXCEPT ![c].pc = "store", ![c].listed = view[op[c].polled]]
    <2> DEFINE n == [op[c] EXCEPT !.pc = "store", !.listed = view[op[c].polled]]
    <2>1. op' = [op EXCEPT ![c] = n]
      BY <1>1, <1>3 DEF CallsOK, Locals
    <2>2. n \in Locals
      BY <1>1, <1>2, Names DEF Locals
    <2>3. Good(n) /\ Moves(op[c], n)
      BY <1>1, <1>2 DEF Good, Moves, Ans, Locals, Early
    <2> HIDE DEF n
    <2> QED
      BY <2>1, <2>2, <2>3, Replaced
  <1> QED
    BY <1>1, <1>3, PollFailsChanges DEF Fetch

LEMMA StoreChanges ==
  ASSUME CallsOK, NEW c \in Calls, Store(c)
  PROVE  Changes(c)
  <1>1. op[c] \in Locals /\ Good(op[c])
    BY DEF CallsOK
  <1> DEFINE n == [op[c] EXCEPT !.pc = "read", !.listed = {}]
  <1>3. op' = [op EXCEPT ![c] = n]
    BY <1>1 DEF Store, Goto, CallsOK
  <1>4. n \in Locals
    BY <1>1, ManagerConstants, Names DEF Locals
  <1>5. Good(n) /\ Moves(op[c], n)
    BY <1>1, ManagerConstants, Names DEF Store, At, Good, Moves, Ans, Locals, Early
  <1> HIDE DEF n
  <1> QED
    BY <1>3, <1>4, <1>5, Replaced

LEMMA ReadChanges ==
  ASSUME CallsOK, ManagerOK, NEW c \in Calls, Read(c)
  PROVE  Changes(c)
  <1>1. op[c] \in Locals /\ Good(op[c]) /\ op[c].pc = "read"
    BY DEF CallsOK, Read, At
  <1>2. FindPrimary(replicas) \subseteq Servers
    BY ServersOfTyped DEF ManagerOK
  <1>3. ASSUME NEW p \in Servers, op' = [op EXCEPT ![c].pc = "snapshot", ![c].found = p]
        PROVE  Changes(c)
    <2> DEFINE n == [op[c] EXCEPT !.pc = "snapshot", !.found = p]
    <2>1. op' = [op EXCEPT ![c] = n]
      BY <1>1, <1>3 DEF CallsOK, Locals
    <2>2. n \in Locals
      BY <1>1, Names DEF Locals
    <2>3. Good(n) /\ Moves(op[c], n)
      BY <1>1, <1>3 DEF Good, Moves, Ans, Locals, Early
    <2> HIDE DEF n
    <2> QED
      BY <2>1, <2>2, <2>3, Replaced
  <1>4. CASE op' = [op EXCEPT ![c].pc = "seek"]
    <2> DEFINE n == [op[c] EXCEPT !.pc = "seek"]
    <2>1. op' = [op EXCEPT ![c] = n]
      BY <1>1, <1>4 DEF CallsOK, Locals
    <2>2. n \in Locals
      BY <1>1, Names DEF Locals
    <2>3. Good(n) /\ Moves(op[c], n)
      BY <1>1, <1>4 DEF Good, Moves, Ans, Locals, Early
    <2> HIDE DEF n
    <2> QED
      BY <2>1, <2>2, <2>3, Replaced
  <1> QED
    BY <1>2, <1>3, <1>4 DEF Read, Goto

LEMMA RefreshBeginChanges ==
  ASSUME CallsOK, ManagerOK, NEW c \in Calls, RefreshBegin(c)
  PROVE  Changes(c)
  <1>1. op[c] \in Locals /\ Good(op[c])
    BY DEF CallsOK
  <1>2. ServersOf(replicas) \in Groups /\ ServersOf(replicas) \ conns \in Groups
    BY ServersOfTyped DEF ManagerOK, Groups
  <1> DEFINE n == [op[c] EXCEPT !.pc = "refresh", !.snapshot = ServersOf(replicas),
                               !.missing = ServersOf(replicas) \ conns]
  <1>3. op' = [op EXCEPT ![c] = n]
    BY <1>2 DEF RefreshBegin, Goto, CallsOK
  <1>4. n \in Locals
    BY <1>1, <1>2, ManagerConstants, Names DEF Locals
  <1>5. Good(n) /\ Moves(op[c], n)
    BY <1>1, <1>2, ManagerConstants, Names DEF RefreshBegin, At, Good, Moves, Ans, Locals, Early
  <1> HIDE DEF n
  <1> QED
    BY <1>3, <1>4, <1>5, Replaced

LEMMA RefreshConnectChanges ==
  ASSUME CallsOK, NEW c \in Calls, RefreshConnect(c)
  PROVE  Changes(c)
  <1>1. op[c] \in Locals /\ Good(op[c]) /\ op[c].pc = "refresh"
    BY DEF CallsOK, RefreshConnect, At
  <1> DEFINE o(r) == [op[c] EXCEPT !.missing = op[c].missing \ {r}]
             more(r) == [o(r) EXCEPT !.opened = op[c].opened \cup {r}]
  <1>2. PICK r \in op[c].missing : op' = [op EXCEPT ![c] = more(r)] \/ Unreached(c, r, o(r))
    BY DEF RefreshConnect
  <1>3. op[c].missing \in Groups /\ op[c].opened \in Groups
    BY <1>1 DEF Locals
  <1>4. op[c].missing \ {r} \in Groups /\ op[c].opened \cup {r} \in Groups
    BY <1>3 DEF Groups
  <1>5. o(r) \in Locals /\ more(r) \in Locals
    BY <1>1, <1>4 DEF Locals
  <1>6. Good(o(r)) /\ Moves(op[c], o(r))
    BY <1>1 DEF Good, Moves, Ans, Locals, Early
  <1>7. Good(more(r)) /\ Moves(op[c], more(r))
    BY <1>1 DEF Good, Moves, Ans, Locals, Early
  <1> HIDE DEF o, more
  <1> QED
    BY <1>2, <1>5, <1>6, <1>7, Replaced, UnreachedChanges

LEMMA NewReturnsChanges ==
  ASSUME CallsOK, NEW c \in Calls, NewReturns(c)
  PROVE  Changes(c)
  <1>1. op[c] \in Locals /\ Good(op[c]) /\ op[c].pc = "refresh" /\ op[c].kind = "new"
    BY DEF CallsOK, NewReturns, AtApply, At
  <1>2. Moves(op[c], Idle)
    BY <1>1 DEF Good, Moves, Ans, Idle
  <1> QED
    BY <1>2, IdleGood, Replaced DEF NewReturns

LEMMA RefreshFailsChanges ==
  ASSUME CallsOK, NEW c \in Calls, RefreshFails(c)
  PROVE  Changes(c)
  <1>1. op[c] \in Locals /\ Good(op[c])
    BY DEF CallsOK
  <1> DEFINE n == [op[c] EXCEPT !.pc = "seek", !.snapshot = {}, !.opened = {}]
  <1>3. op' = [op EXCEPT ![c] = n]
    BY <1>1 DEF RefreshFails, Goto, CallsOK
  <1>4. n \in Locals
    BY <1>1, ManagerConstants, Names DEF Locals, AtApply
  <1>5. Good(n) /\ Moves(op[c], n)
    BY <1>1, ManagerConstants, Names DEF RefreshFails, At, Good, Moves, Ans, Locals, Early, AtApply
  <1> HIDE DEF n
  <1> QED
    BY <1>3, <1>4, <1>5, Replaced

LEMMA SeekReturnsChanges ==
  ASSUME CallsOK, NEW c \in Calls, SeekReturns(c)
  PROVE  Changes(c)
  <1>1. op[c] \in Locals /\ Good(op[c]) /\ op[c].pc = "refresh" /\ op[c].kind # "new"
    BY DEF CallsOK, SeekReturns, AtApply, At
  <1>2. Ans(op[c]) = "none" /\ op[c].found \in Servers
    BY <1>1 DEF Good, Ans
  <1>3. CASE StillTheFailed(c)
    BY <1>1, <1>3, AnotherRoundChanges DEF SeekReturns, StillTheFailed
  <1>4. CASE ~StillTheFailed(c) /\ op[c].primary = None
    <2> DEFINE n == [Idle EXCEPT !.pc = "lookup", !.kind = op[c].kind,
                                 !.primary = op[c].found, !.calm = op[c].calm]
    <2>1. op' = [op EXCEPT ![c] = n]
      BY <1>4 DEF SeekReturns
    <2>2. n \in Locals
      BY <1>1, ManagerConstants, Names DEF Locals, Idle
    <2>3. Good(n) /\ Moves(op[c], n)
      BY <1>1, <1>2, <1>4, ManagerConstants, Names DEF Good, Moves, Ans, Idle, Early
    <2> HIDE DEF n
    <2> QED
      BY <2>1, <2>2, <2>3, Replaced
  <1>5. CASE ~StillTheFailed(c) /\ op[c].primary # None
    BY <1>1, <1>2, <1>5, NextAttemptChanges DEF SeekReturns
  <1> QED
    BY <1>3, <1>4, <1>5

LEMMA NewChanges ==
  ASSUME CallsOK, NEW c \in Calls, New(c)
  PROVE  Changes(c)
  <1>1. op[c] \in Locals /\ Good(op[c])
    BY DEF CallsOK
  <1> DEFINE n == [op[c] EXCEPT !.pc = "snapshot", !.kind = "new"]
  <1>3. op' = [op EXCEPT ![c] = n]
    BY <1>1 DEF New, Goto, CallsOK
  <1>4. n \in Locals
    BY <1>1, ManagerConstants, Names DEF Locals
  <1>5. Good(n) /\ Moves(op[c], n)
    BY <1>1, ManagerConstants, Names DEF New, At, Good, Moves, Ans, Locals, Early
  <1> HIDE DEF n
  <1> QED
    BY <1>3, <1>4, <1>5, Replaced

LEMMA BeginChanges ==
  ASSUME CallsOK, ManagerOK, ClusterOK, NEW c \in Calls, Begin(c)
  PROVE  Changes(c)
  <1>1. op[c] \in Locals /\ Good(op[c]) /\ op[c].pc = "idle"
    BY DEF CallsOK, Begin, MayBegin, At
  <1>2. ServersOf(replicas) \in Groups /\ KnownPrimary \subseteq Servers
    BY ServersOfTyped DEF ManagerOK, KnownPrimary, Groups
  <1>3. op[c].outcome = "none" /\ op[c].reply = "none" /\ op[c].runs = 0
    BY <1>1 DEF Good, Early
  <1> DEFINE calm == Settled /\ CacheReaches
  <1>4. calm \in BOOLEAN
    OBVIOUS
  <1> HIDE DEF calm
  <1>5. ASSUME NEW k \in {"task", "servers"}, NEW p \in Servers,
               op' = [op EXCEPT ![c] = [[Idle EXCEPT !.kind = k, !.calm = calm]
                                           EXCEPT !.pc = "lookup", !.primary = p]]
        PROVE  Changes(c)
    <2> DEFINE n == [[Idle EXCEPT !.kind = k, !.calm = calm] EXCEPT !.pc = "lookup", !.primary = p]
    <2>1. n \in Locals
      BY <1>4, Names DEF Locals, Idle
    <2>2. Good(n) /\ Moves(op[c], n)
      BY <1>3, ManagerConstants DEF Good, Moves, Ans, Idle, Early
    <2>3. op' = [op EXCEPT ![c] = n]
      BY <1>5
    <2> HIDE DEF n
    <2> QED
      BY <2>1, <2>2, <2>3, Replaced
  <1>6. ASSUME NEW k \in {"task", "servers"},
               op' = [op EXCEPT ![c] = [[Idle EXCEPT !.kind = k, !.calm = calm] EXCEPT
                         !.pc = "seek", !.source = ServersOf(replicas), !.todo = ServersOf(replicas)]]
        PROVE  Changes(c)
    <2> DEFINE n == [[Idle EXCEPT !.kind = k, !.calm = calm] EXCEPT
                         !.pc = "seek", !.source = ServersOf(replicas), !.todo = ServersOf(replicas)]
    <2>1. n \in Locals
      BY <1>2, <1>4, Names DEF Locals, Idle
    <2>2. Good(n) /\ Moves(op[c], n)
      BY <1>3, ManagerConstants DEF Good, Moves, Ans, Idle, Early
    <2>3. op' = [op EXCEPT ![c] = n]
      BY <1>6
    <2> HIDE DEF n
    <2> QED
      BY <2>1, <2>2, <2>3, Replaced
  <1> QED
    BY <1>2, <1>5, <1>6 DEF Begin, calm

LEMMA BeginDirectChanges ==
  ASSUME CallsOK, NEW c \in Calls, BeginDirect(c)
  PROVE  Changes(c)
  <1>1. op[c] \in Locals /\ Good(op[c]) /\ op[c].pc = "idle"
    BY DEF CallsOK, BeginDirect, MayBegin, At
  <1>2. op[c].outcome = "none" /\ op[c].reply = "none" /\ op[c].runs = 0
    BY <1>1 DEF Good, Early
  <1>3. ASSUME NEW s \in Servers,
               op' = [op EXCEPT ![c] = [Idle EXCEPT !.kind = "direct", !.pc = "lookup", !.primary = s]]
        PROVE  Changes(c)
    <2> DEFINE n == [Idle EXCEPT !.kind = "direct", !.pc = "lookup", !.primary = s]
    <2>1. n \in Locals
      BY Names DEF Locals, Idle
    <2>2. Good(n) /\ Moves(op[c], n)
      BY <1>2, ManagerConstants DEF Good, Moves, Ans, Idle, Early
    <2>3. op' = [op EXCEPT ![c] = n]
      BY <1>3
    <2> HIDE DEF n
    <2> QED
      BY <2>1, <2>2, <2>3, Replaced
  <1>4. ASSUME op' = [op EXCEPT ![c] = [Idle EXCEPT !.kind = "direct", !.pc = "done",
                                                    !.outcome = "unreachable"]]
        PROVE  Changes(c)
    <2> DEFINE n == [Idle EXCEPT !.kind = "direct", !.pc = "done", !.outcome = "unreachable"]
    <2>1. n \in Locals
      BY Names DEF Locals, Idle
    <2>2. Good(n) /\ Moves(op[c], n)
      BY <1>2, ManagerConstants DEF Good, Moves, Ans, Idle, Early
    <2>3. op' = [op EXCEPT ![c] = n]
      BY <1>4
    <2> HIDE DEF n
    <2> QED
      BY <2>1, <2>2, <2>3, Replaced
  <1> QED
    <2>1. PICK s \in Servers :
             op' = [op EXCEPT ![c] =
                       IF s \in ServersOf(replicas)
                       THEN [Idle EXCEPT !.kind = "direct", !.pc = "lookup", !.primary = s]
                       ELSE [Idle EXCEPT !.kind = "direct", !.pc = "done", !.outcome = "unreachable"]]
      BY DEF BeginDirect
    <2>2. CASE s \in ServersOf(replicas)
      BY <1>3, <2>1, <2>2
    <2>3. CASE s \notin ServersOf(replicas)
      BY <1>4, <2>1, <2>3
    <2> QED
      BY <2>2, <2>3

-----------------------------------------------------------------------------
(* The cluster's steps and the shared maps.                                *)

LEMMA DisturbGood ==
  ASSUME CallsOK, Disturb
  PROVE  /\ op' \in [Calls -> Locals]
         /\ \A c \in Calls : Good(op'[c]) /\ Moves(op[c], op'[c])
  <1> SUFFICES ASSUME NEW c \in Calls
               PROVE  op'[c] \in Locals /\ Good(op'[c]) /\ Moves(op[c], op'[c])
    BY DEF Disturb
  <1>1. op[c] \in Locals /\ Good(op[c])
    BY DEF CallsOK
  <1>2. op'[c] = [op[c] EXCEPT !.calm = FALSE]
    BY DEF Disturb
  <1>3. op'[c] \in Locals
    <2>1. FALSE \in BOOLEAN
      OBVIOUS
    <2>2. ASSUME NEW b \in BOOLEAN
          PROVE  [op[c] EXCEPT !.calm = b] \in Locals
      BY <1>1 DEF Locals
    <2> QED
      BY <1>2, <2>1, <2>2
  <1>4. Good(op'[c]) /\ Moves(op[c], op'[c])
    BY <1>1, <1>2 DEF Good, Moves, Ans, Locals
  <1> QED
    BY <1>3, <1>4

LEMMA CurrentViewTyped ==
  ASSUME ClusterOK, NEW listed \in SUBSET Servers
  PROVE  CurrentView(listed) \subseteq Replica
  BY ManagerConstants DEF ClusterOK, CurrentView, Replica

LEMMA EnvironmentTyped ==
  ASSUME ClusterOK, NEW s \in Servers, Elect(s) \/ Learn(s) \/ Crash(s) \/ Restart(s)
  PROVE  ClusterOK'
  <1>1. CASE Elect(s)
    <2>1. term + 1 \in 1..MaxTerm /\ term + 1 \in 0..MaxTerm
      BY <1>1, ManagerConstants DEF Elect, ClusterOK
    <2>2. [server |-> s, role |-> "primary", term |-> term + 1] \in Replica
      BY <2>1 DEF Replica
    <2>3. view' \in [Servers -> SUBSET Replica]
      BY <1>1, <2>2 DEF Elect, ClusterOK
    <2> QED
      BY <1>1, <2>1, <2>3 DEF Elect, ClusterOK
  <1>2. CASE Learn(s)
    <2>1. PICK listed \in Listings : view' = [view EXCEPT ![s] = CurrentView(listed)]
      BY <1>2 DEF Learn
    <2>2. CurrentView(listed) \subseteq Replica
      BY <2>1, CurrentViewTyped, ManagerConstants
    <2> QED
      BY <1>2, <2>1, <2>2 DEF Learn, ClusterOK
  <1>3. CASE Crash(s)
    BY <1>3, ManagerConstants DEF Crash, ClusterOK
  <1>4. CASE Restart(s)
    BY <1>4 DEF Restart, ClusterOK
  <1> QED
    BY <1>1, <1>2, <1>3, <1>4

\* The shared maps keep their types: what is stored in them was typed where it
\* was read.
LEMMA SharedTyped ==
  ASSUME ClusterOK, ManagerOK, CallsOK, NEW c \in Calls,
         New(c) \/ Begin(c) \/ BeginDirect(c) \/ Step(c)
  PROVE  ClusterOK' /\ ManagerOK'
  <1>1. op[c] \in Locals /\ Good(op[c])
    BY DEF CallsOK
  <1>2. op[c].listed \subseteq Replica /\ op[c].snapshot \subseteq Servers /\ op[c].opened \subseteq Servers
    BY <1>1 DEF Locals, Lists, Groups
  <1>3. UNCHANGED cluster
    BY DEF New, Begin, BeginDirect, Step, Lookup, Connect, Task, Answered, Record, FollowHint,
           SeekAfterFailure, Poll, RoundFailed, PollConnect, Fetch, Store, Read, RefreshBegin,
           RefreshConnect, NewReturns, RefreshFails, SeekReturns
  <1>4. ClusterOK'
    <2>1. faults' = faults \/ (faults < MaxFaults /\ faults' = faults + 1)
      BY DEF New, Begin, BeginDirect, Step, Lookup, Connect, Task, Answered, Record, FollowHint,
             SeekAfterFailure, Poll, RoundFailed, PollConnect, Fetch, Store, Read, RefreshBegin,
             RefreshConnect, NewReturns, RefreshFails, SeekReturns, PollFails, Unreached, Misbehaves
    <2>2. faults' \in 0..MaxFaults
      BY <2>1, ManagerConstants DEF ClusterOK
    <2> QED
      BY <1>3, <2>2 DEF cluster, ClusterOK
  <1>5. built' \in BOOLEAN
    <2>1. built' = built \/ built' = (Refreshed(c) # {})
      BY DEF New, Begin, BeginDirect, Step, Lookup, Connect, Task, Answered, Record, FollowHint,
             SeekAfterFailure, Poll, RoundFailed, PollConnect, Fetch, Store, Read, RefreshBegin,
             RefreshConnect, NewReturns, RefreshFails, SeekReturns, shared
    <2>2. (Refreshed(c) # {}) \in BOOLEAN
      OBVIOUS
    <2> QED
      BY <2>1, <2>2 DEF ManagerOK
  <1>6. CASE New(c)
    <2>1. PICK s \in Servers : replicas' = view[s] /\ conns' = IF Translated THEN {} ELSE {s}
      BY <1>6 DEF New
    <2>2. conns' = {} \/ conns' = {s}
      BY <2>1
    <2>3. conns' \subseteq Servers
      BY <2>2
    <2>4. replicas' \subseteq Replica
      BY <2>1 DEF ClusterOK
    <2> QED
      BY <1>4, <1>5, <2>3, <2>4 DEF ManagerOK
  <1>7. CASE \/ Begin(c) \/ BeginDirect(c) \/ Lookup(c) \/ Task(c) \/ Answered(c) \/ FollowHint(c)
             \/ SeekAfterFailure(c) \/ Poll(c) \/ RoundFailed(c) \/ Fetch(c) \/ Read(c)
             \/ RefreshBegin(c) \/ RefreshConnect(c)
    <2>1. UNCHANGED shared
      BY <1>7 DEF Begin, BeginDirect, Lookup, Task, Answered, FollowHint, SeekAfterFailure, Poll,
                  RoundFailed, Fetch, Read, RefreshBegin, RefreshConnect
    <2>2. conns' = conns /\ replicas' = replicas
      BY <2>1 DEF shared
    <2> QED
      BY <1>4, <1>5, <2>2 DEF ManagerOK
  <1>8. CASE Connect(c) \/ PollConnect(c)
    <2>1. replicas' = replicas /\ (conns' = conns \/ conns' = conns \cup {op[c].primary}
                                                  \/ conns' = conns \cup {op[c].polled})
      BY <1>8 DEF Connect, PollConnect
    <2>2. conns' \subseteq Servers
      BY <1>1, <1>8 DEF Connect, PollConnect, At, Good, ManagerOK
    <2> QED
      BY <1>4, <1>5, <2>1, <2>2 DEF ManagerOK
  <1>9. CASE Record(c) \/ Store(c)
    <2>1. replicas' = op[c].listed /\ conns' = conns
      BY <1>9 DEF Record, Store
    <2> QED
      BY <1>2, <1>4, <1>5, <2>1 DEF ManagerOK
  <1>10. CASE NewReturns(c) \/ RefreshFails(c) \/ SeekReturns(c)
    <2>1. Refreshed(c) \subseteq Servers
      BY <1>2 DEF Refreshed, ManagerOK
    <2>2. conns' = Refreshed(c) /\ replicas' = replicas
      BY <1>10 DEF NewReturns, RefreshFails, SeekReturns, AtApply
    <2> QED
      BY <1>4, <1>5, <2>1, <2>2 DEF ManagerOK
  <1> QED
    BY <1>6, <1>7, <1>8, <1>9, <1>10 DEF Step

-----------------------------------------------------------------------------
(* The theorems.                                                           *)

Inv == ClusterOK /\ ManagerOK /\ CallsOK

LEMMA CallStepChanges ==
  ASSUME Inv, NEW c \in Calls, New(c) \/ Begin(c) \/ BeginDirect(c) \/ Step(c)
  PROVE  Changes(c)
  BY NewChanges, BeginChanges, BeginDirectChanges, LookupChanges, ConnectChanges, TaskChanges,
     AnsweredChanges, RecordChanges, FollowHintChanges, SeekAfterFailureChanges, PollChanges,
     RoundFailedChanges, PollConnectChanges, FetchChanges, StoreChanges, ReadChanges,
     RefreshBeginChanges, RefreshConnectChanges, NewReturnsChanges, RefreshFailsChanges,
     SeekReturnsChanges
     DEF Inv, Step

\* Every step keeps the invariant and moves each operation as the contract allows.
LEMMA NextMoves ==
  ASSUME Inv, Next
  PROVE  /\ Inv'
         /\ \A d \in Calls : op'[d] = op[d] \/ Moves(op[d], op'[d])
         /\ \/ \E c \in Calls : \A d \in Calls \ {c} : op'[d] = op[d]
            \/ Disturb
  <1>1. CASE \E c \in Calls : New(c) \/ Begin(c) \/ BeginDirect(c) \/ Step(c)
    <2>1. PICK c \in Calls : New(c) \/ Begin(c) \/ BeginDirect(c) \/ Step(c)
      BY <1>1
    <2>2. Changes(c)
      BY <2>1, CallStepChanges
    <2>3. ClusterOK' /\ ManagerOK'
      BY <2>1, SharedTyped DEF Inv
    <2>4. CallsOK'
      BY <2>2 DEF Changes, CallsOK, Inv
    <2> QED
      BY <2>2, <2>3, <2>4 DEF Changes, Inv
  <1>2. CASE Environment
    <2>1. PICK s \in Servers : Elect(s) \/ Learn(s) \/ Crash(s) \/ Restart(s)
      BY <1>2 DEF Environment
    <2>2. Disturb /\ UNCHANGED shared
      BY <2>1 DEF Elect, Learn, Crash, Restart
    <2>3. ClusterOK'
      BY <2>1, EnvironmentTyped DEF Inv
    <2>4. ManagerOK'
      BY <2>2 DEF shared, ManagerOK, Inv
    <2>5. CallsOK' /\ \A d \in Calls : Moves(op[d], op'[d])
      BY <2>2, DisturbGood DEF CallsOK, Inv
    <2> QED
      BY <2>2, <2>3, <2>4, <2>5 DEF Inv
  <1> QED
    BY <1>1, <1>2 DEF Next

LEMMA InitInv == Init => Inv
  <1> SUFFICES ASSUME Init PROVE Inv
    OBVIOUS
  <1>1. leader \in Servers /\ term = 1 /\ term \in 1..MaxTerm /\ term \in 0..MaxTerm
    BY ManagerConstants DEF Init
  <1>2. CurrentView(Servers) \subseteq Replica
    BY <1>1, ManagerConstants DEF CurrentView, Replica
  <1>3. ClusterOK
    BY <1>1, <1>2, ManagerConstants DEF Init, ClusterOK
  <1>4. ManagerOK
    BY DEF Init, ManagerOK
  <1>5. CallsOK
    BY IdleGood DEF Init, CallsOK
  <1> QED
    BY <1>3, <1>4, <1>5 DEF Inv

LEMMA StutterInv == Inv /\ UNCHANGED vars => Inv'
  BY DEF Inv, ClusterOK, ManagerOK, CallsOK, vars, cluster, shared

LEMMA InvImpliesTypeOK == Inv => TypeOK
  BY DEF Inv, ClusterOK, ManagerOK, CallsOK, TypeOK

\* Every variable of the server manager keeps its type: in particular the loops
\* of execute_strongly_consistent and seek_primary_replica_in never exceed
\* primary_failover_retries, for any number of servers and operations.
THEOREM ManagerTypeCorrect == Spec => []TypeOK
  <1>1. Inv /\ [Next]_vars => Inv'
    BY NextMoves, StutterInv
  <1> QED
    BY <1>1, InitInv, InvImpliesTypeOK, PTL DEF Spec

-----------------------------------------------------------------------------
LEMMA InitContract == Init => Contract!Init
  BY DEF Init, Contract!Init, Idle

\* An operation whose locals moved takes a step of the contract.
LEMMA MovesContract ==
  ASSUME Inv, Inv', NEW c \in Calls, \A d \in Calls \ {c} : op'[d] = op[d], Moves(op[c], op'[c])
  PROVE  [Contract!Next]_(Contract!vars)
  <1> DEFINE Runs == [d \in Calls |-> op[d].runs]
             Answer == [d \in Calls |-> Ans(op[d])]
             Outcome == [d \in Calls |-> op[d].outcome]
  <1>1. \A d \in Calls : op[d] \in Locals /\ op'[d] \in Locals
    BY DEF Inv, CallsOK
  <1>2. CASE /\ op'[c].runs = op[c].runs /\ Ans(op'[c]) = Ans(op[c])
             /\ op'[c].outcome = op[c].outcome
    <2>1. Runs' = Runs /\ Answer' = Answer /\ Outcome' = Outcome
      BY <1>2 DEF Ans
    <2> QED
      BY <2>1 DEF Contract!vars, Ans
  <1>3. CASE /\ op[c].outcome = "none" /\ Ans(op[c]) = "none" /\ op[c].runs <= Retries
             /\ op'[c].runs = op[c].runs + 1 /\ op'[c].outcome = op[c].outcome
    <2>1. /\ Runs' = [Runs EXCEPT ![c] = @ + 1] /\ Outcome' = Outcome
          /\ Answer' = [Answer EXCEPT ![c] = Ans(op'[c])]
      BY <1>3 DEF Ans
    <2>2. Ans(op'[c]) \in Contract!Answers \cup {"none"}
      BY DEF Ans, Contract!Answers
    <2>3. Contract!Run(c)
      BY <1>3, <2>1, <2>2 DEF Contract!Run, Ans
    <2> QED
      BY <2>3 DEF Contract!Next
  <1>4. CASE /\ op[c].outcome = "none" /\ Ans(op[c]) = "none" /\ op'[c].runs = op[c].runs
             /\ Ans(op'[c]) = "failed" /\ op'[c].outcome = op[c].outcome
    <2>1. /\ Runs' = Runs /\ Outcome' = Outcome /\ Answer' = [Answer EXCEPT ![c] = "failed"]
      BY <1>4 DEF Ans
    <2>2. Contract!Refuse(c)
      BY <1>4, <2>1 DEF Contract!Refuse, Ans
    <2> QED
      BY <2>2 DEF Contract!Next
  <1>5. CASE /\ op[c].outcome = "none"
             /\ op'[c].outcome = IF Ans(op[c]) = "none" THEN "unreachable" ELSE Ans(op[c])
             /\ op'[c].runs = op[c].runs /\ Ans(op'[c]) = Ans(op[c])
    <2>1. /\ Runs' = Runs /\ Answer' = Answer
          /\ Outcome' = [Outcome EXCEPT ![c] = IF Answer[c] = "none" THEN "unreachable" ELSE Answer[c]]
      BY <1>5 DEF Ans
    <2>2. Contract!Return(c)
      BY <1>5, <2>1 DEF Contract!Return, Ans
    <2> QED
      BY <2>2 DEF Contract!Next
  <1> QED
    BY <1>2, <1>3, <1>4, <1>5 DEF Moves

\* What happens to the cluster is not seen in the contract.
LEMMA DisturbContract ==
  ASSUME Inv, Disturb
  PROVE  UNCHANGED Contract!vars
  <1>1. \A d \in Calls : op[d] \in Locals
    BY DEF Inv, CallsOK
  <1>2. \A d \in Calls : /\ op'[d].runs = op[d].runs /\ op'[d].reply = op[d].reply
                         /\ op'[d].outcome = op[d].outcome
    BY <1>1 DEF Disturb, Locals
  <1> QED
    BY <1>2 DEF Contract!vars

LEMMA NextContract ==
  ASSUME Inv, Next
  PROVE  [Contract!Next]_(Contract!vars)
  <1>1. /\ Inv' /\ \A d \in Calls : op'[d] = op[d] \/ Moves(op[d], op'[d])
        /\ (\E c \in Calls : \A d \in Calls \ {c} : op'[d] = op[d]) \/ Disturb
    BY NextMoves
  <1>2. ASSUME NEW c \in Calls, \A d \in Calls \ {c} : op'[d] = op[d]
        PROVE  [Contract!Next]_(Contract!vars)
    <2>1. Moves(op[c], op'[c])
      BY <1>1 DEF Moves
    <2> QED
      BY <1>1, <1>2, <2>1, MovesContract
  <1>3. CASE Disturb
    BY <1>3, DisturbContract
  <1> QED
    BY <1>1, <1>2, <1>3

\* The operations keep the call contract for every number of servers, threads
\* and retries: run again only after a lost answer, at most Retries + 1 times,
\* and answered with what arrived.
THEOREM ManagerKeepsContract == Spec => CallsKept
  <1>1. Inv /\ [Next]_vars => Inv'
    BY NextMoves, StutterInv
  <1>2. Inv /\ [Next]_vars => [Contract!Next]_(Contract!vars)
    <2>1. Inv /\ Next => [Contract!Next]_(Contract!vars)
      BY NextContract
    <2>2. UNCHANGED vars => UNCHANGED Contract!vars
      BY DEF vars, Contract!vars
    <2> QED
      BY <2>1, <2>2
  <1> QED
    BY <1>1, <1>2, InitInv, InitContract, PTL DEF Spec, CallsKept, Contract!Spec

-----------------------------------------------------------------------------
(* Failover.  One user thread: while an operation runs, no other does.  As   *)
(* long as it is calm the cluster stays settled, and the locals say how far  *)
(* the operation has come on its way to the primary: it is tried on the      *)
(* primary, or it is tried for the first time on a server of the cache and   *)
(* some server of the cache is up, or it searches with a server that is up   *)
(* among those still to be polled.                                           *)

Live(group) == \E s \in group : alive[s]
Searching == {"seek", "poll_connect", "fetch", "store", "read", "snapshot", "refresh"}
Trying == {"lookup", "connect", "task", "reply"}

\* What the reply of a settled cluster says about the server that was tried.
Telling(o) ==
    \/ o.reply \in {"ok", "failed"}
    \/ o.reply = "conn" /\ ~alive[o.primary]
    \/ o.reply = "notprimary" /\ alive[o.primary] /\ o.primary # leader

OnTrack(o) ==
    /\ Settled
    /\ o.pc \in Trying =>
         \/ o.primary = leader
         \/ o.attempt = 0 /\ o.primary \in ServersOf(replicas) /\ Live(ServersOf(replicas))
    /\ o.pc = "reply" => Telling(o) /\ o.hint \in {None, leader}
    /\ o.pc \in Trying \ {"reply"} => o.hint = None
    /\ o.pc \in Searching => ~Standalone /\ o.attempt = 0 /\ o.primary # leader /\ Live(o.source)
    /\ o.pc = "seek" => Live(o.todo)
    /\ o.pc \in {"poll_connect", "fetch"} => Live(o.todo \cup {o.polled})
    /\ o.pc = "store" => o.listed = CurrentView(Servers)
    /\ o.pc \in {"read", "snapshot"} => replicas = CurrentView(Servers)
    /\ o.pc \in {"snapshot", "refresh"} => o.found = leader
    /\ o.pc = "refresh" => o.snapshot = Servers /\ leader \in conns \cup o.missing \cup o.opened

\* What is known of the locals of an operation that is calm.
Calm(o) ==
    o.calm =>
      /\ o.pc # "idle" /\ o.kind \in {"none", "task", "servers"}
      /\ o.kind \in {"task", "servers"} => IF o.pc = "done" THEN o.outcome # "unreachable" ELSE OnTrack(o)

\* A server that reports no replication status lists itself alone.
Plain(rs) == \A r \in rs : r.role = "none" /\ r.term = 0

PlainInv ==
    Standalone =>
      /\ \A s \in Servers : Plain(view[s])
      /\ Plain(replicas)
      /\ \A c \in Calls : Plain(op[c].listed)

FailoverInv ==
    /\ \A c, d \in Calls : c \in Active /\ d \in Active => c = d
    /\ \A c \in Calls : Calm(op[c])
    /\ PlainInv

LEMMA CurrentPrimary ==
  ASSUME ~Standalone, leader \in Servers, term \in Nat
  PROVE  FindPrimary(CurrentView(Servers)) = {leader}
  <1> DEFINE row == [server |-> leader, role |-> "primary", term |-> term]
  <1>1. row \in CurrentView(Servers)
    BY DEF CurrentView
  <1>2. ASSUME NEW r \in CurrentView(Servers), r.role = "primary" PROVE r = row
    BY <1>2 DEF CurrentView
  <1>3. {r \in CurrentView(Servers) : r.role = "primary"} = {row}
    BY <1>1, <1>2
  <1> DEFINE primaries == {r \in CurrentView(Servers) : r.role = "primary"}
  <1>4. {p \in primaries : \A q \in primaries : q.term <= p.term} = {row}
    <2>1. row.term <= row.term
      OBVIOUS
    <2> HIDE DEF row
    <2> QED
      BY <1>3, <2>1
  <1>5. FindPrimary(CurrentView(Servers)) = {r.server : r \in {row}}
    BY <1>4 DEF FindPrimary
  <1>6. row.server = leader
    OBVIOUS
  <1> HIDE DEF row
  <1> QED
    BY <1>5, <1>6

LEMMA CurrentServers == ServersOf(CurrentView(Servers)) = Servers
  <1>1. ASSUME NEW s \in Servers PROVE \E r \in CurrentView(Servers) : r.server = s
    <2> DEFINE row == [server |-> s,
                       role   |-> IF Standalone THEN "none" ELSE IF s = leader THEN "primary" ELSE "secondary",
                       term   |-> IF Standalone THEN 0 ELSE term]
    <2>1. row \in CurrentView(Servers)
      BY DEF CurrentView
    <2>2. row.server = s
      OBVIOUS
    <2> QED
      BY <2>1, <2>2
  <1>2. \A r \in CurrentView(Servers) : r.server \in Servers
    BY DEF CurrentView
  <1> QED
    BY <1>1, <1>2 DEF ServersOf

LEMMA SettledStays == Settled /\ UNCHANGED cluster => Settled'
  BY DEF Settled, CurrentView, cluster

\* In a settled cluster only a server that is down is not reached.
LEMMA UnreachedIsDown ==
  ASSUME NEW c \in Calls, NEW s, NEW o \in Locals, op \in [Calls -> Locals],
         Unreached(c, s, o) \/ Misbehaves(c, s, o), op'[c].calm
  PROVE  ~alive[s] /\ op' = [op EXCEPT ![c] = o]
  <1>1. [o EXCEPT !.calm = FALSE].calm = FALSE
    BY DEF Locals
  <1>2. op' # [op EXCEPT ![c] = [o EXCEPT !.calm = FALSE]]
    BY <1>1
  <1> QED
    BY <1>2 DEF Unreached, Misbehaves

-----------------------------------------------------------------------------
(* The steps of an operation on its way.                                     *)

Ours == {"task", "servers"}

\* The step of c leaves it on its way, or at its end with an answer.
Arrives(c) ==
    /\ op'[c].kind \in Ours
    /\ IF op'[c].pc = "done" THEN op'[c].outcome # "unreachable" ELSE OnTrack(op[c])'

LEMMA Known ==
  ASSUME Inv, NEW c \in Calls
  PROVE  /\ op \in [Calls -> Locals] /\ op[c] \in Locals /\ Good(op[c])
         /\ leader \in Servers /\ term \in Nat /\ replicas \subseteq Replica
         /\ ServersOf(replicas) \subseteq Servers
  BY ManagerConstants, ServersOfTyped DEF Inv, CallsOK, ClusterOK, ManagerOK

\* The attempt that failed was the first, on a server that is not the primary.
LEMMA Missed ==
  ASSUME Inv, NEW c \in Calls, OnTrack(op[c]), op[c].pc = "reply", Retryable(op[c].reply)
  PROVE  /\ op[c].primary # leader /\ op[c].primary \in Servers /\ op[c].attempt = 0 /\ ~Standalone
         /\ op[c].primary \in ServersOf(replicas) /\ Live(ServersOf(replicas))
         /\ op[c].reply = "conn" => ~alive[op[c].primary]
  <1> DEFINE o == op[c]
  <1>1. Telling(o) /\ Settled /\ o.reply \in {"conn", "notprimary"}
    BY DEF OnTrack, Retryable
  <1>2. o.primary # leader /\ (o.reply = "conn" => ~alive[o.primary])
    BY <1>1 DEF Telling, Settled
  <1>3. o.attempt = 0 /\ o.primary \in ServersOf(replicas) /\ Live(ServersOf(replicas))
    BY <1>2 DEF OnTrack, Trying
  <1>4. leader \in Servers /\ o.primary \in Servers
    BY <1>3, Known
  <1>5. ~Standalone
    BY <1>2, <1>4, ManagerConstants
  <1> QED
    BY <1>2, <1>3, <1>4, <1>5

LEMMA LookupArrives ==
  ASSUME Inv, NEW c \in Calls, OnTrack(op[c]), op[c].kind \in Ours, Lookup(c)
  PROVE  Arrives(c)
  <1> DEFINE o == op[c]
             n == op'[c]
  <1>1. /\ UNCHANGED <<cluster, shared>> /\ o.pc = "lookup"
        /\ \E step \in {"task", "connect"} : op' = [op EXCEPT ![c].pc = step]
    BY DEF Lookup, At, Goto
  <1>2. /\ n.pc \in {"task", "connect"} /\ n.kind = o.kind /\ n.primary = o.primary
        /\ n.attempt = o.attempt /\ n.hint = o.hint
    BY <1>1, Known DEF Locals
  <1>3. Settled'
    BY <1>1, SettledStays DEF OnTrack
  <1> QED
    BY <1>1, <1>2, <1>3 DEF Arrives, OnTrack, Trying, Searching, Live, cluster, shared

LEMMA ConnectArrives ==
  ASSUME Inv, NEW c \in Calls, OnTrack(op[c]), op[c].kind \in Ours, Connect(c), op'[c].calm
  PROVE  Arrives(c)
  <1> DEFINE o == op[c]
             n == op'[c]
             p == o.primary
             e == [o EXCEPT !.pc = "reply"]
             failed == [e EXCEPT !.reply = "conn"]
             refused == [e EXCEPT !.reply = "failed"]
  <1>1. /\ UNCHANGED <<cluster, replicas>> /\ o.pc = "connect" /\ o \in Locals /\ op \in [Calls -> Locals]
    BY Known DEF Connect, At
  <1>2. Settled'
    BY <1>1, SettledStays DEF OnTrack
  <1>3. CASE Goto(c, "task")
    <2>1. /\ n.pc = "task" /\ n.kind = o.kind /\ n.primary = p /\ n.attempt = o.attempt
          /\ n.hint = o.hint
      BY <1>1, <1>3 DEF Goto, Locals
    <2> QED
      BY <1>1, <1>2, <2>1 DEF Arrives, OnTrack, Trying, Searching, Live, cluster
  <1>4. CASE Unreached(c, p, failed) \/ Misbehaves(c, p, refused)
    <2>1. failed \in Locals /\ refused \in Locals
      BY <1>1, Names DEF Locals
    <2>2. [refused EXCEPT !.calm = FALSE].calm = FALSE
      BY <2>1 DEF Locals
    <2>3. ~Misbehaves(c, p, refused)
      BY <1>1, <2>2 DEF Misbehaves
    <2>4. ~alive[p] /\ op' = [op EXCEPT ![c] = failed]
      BY <1>1, <1>4, <2>1, <2>3, UnreachedIsDown
    <2>5. /\ n.pc = "reply" /\ n.kind = o.kind /\ n.primary = p /\ n.attempt = o.attempt
          /\ n.hint = o.hint /\ n.reply = "conn"
      BY <1>1, <2>4 DEF Locals
    <2> QED
      BY <1>1, <1>2, <2>4, <2>5 DEF Arrives, OnTrack, Trying, Searching, Live, Telling, cluster
  <1> QED
    BY <1>3, <1>4 DEF Connect

LEMMA TaskArrives ==
  ASSUME Inv, NEW c \in Calls, OnTrack(op[c]), op[c].kind \in Ours, Task(c), op'[c].calm
  PROVE  Arrives(c)
  <1> DEFINE o == op[c]
             n == op'[c]
             s == o.primary
             e == [o EXCEPT !.pc = "reply"]
  <1>1. /\ UNCHANGED <<cluster, shared>> /\ o.pc = "task" /\ o \in Locals /\ op \in [Calls -> Locals]
        /\ leader \in Servers /\ s \in Servers /\ term \in Nat
    BY Known DEF Task, At, Good
  <1>2. Settled /\ Settled' /\ o.hint = None
    BY <1>1, SettledStays DEF OnTrack, Trying
  <1>3. ASSUME n.pc = "reply", n.kind = o.kind, n.primary = s, n.attempt = o.attempt,
               n.hint \in {None, leader}, Telling(n)
        PROVE  Arrives(c)
    BY <1>1, <1>2, <1>3 DEF Arrives, OnTrack, Trying, Searching, Live, Telling, cluster, shared
  <1>4. CASE \E ran, seen :
               \/ op' = [op EXCEPT ![c] = [e EXCEPT !.runs = ran, !.reply = "ok", !.listed = seen]]
               \/ op' = [op EXCEPT ![c] = [e EXCEPT !.runs = ran, !.reply = "failed"]]
               \/ op' = [op EXCEPT ![c] = [e EXCEPT !.runs = ran, !.reply = "conn", !.calm = FALSE]]
    <2>1. PICK ran, seen :
               \/ op' = [op EXCEPT ![c] = [e EXCEPT !.runs = ran, !.reply = "ok", !.listed = seen]]
               \/ op' = [op EXCEPT ![c] = [e EXCEPT !.runs = ran, !.reply = "failed"]]
               \/ op' = [op EXCEPT ![c] = [e EXCEPT !.runs = ran, !.reply = "conn", !.calm = FALSE]]
      BY <1>4
    <2>2. CASE op' = [op EXCEPT ![c] = [e EXCEPT !.runs = ran, !.reply = "ok", !.listed = seen]]
      <3>1. /\ n.pc = "reply" /\ n.kind = o.kind /\ n.primary = s /\ n.attempt = o.attempt
            /\ n.hint = o.hint /\ n.reply = "ok"
        BY <1>1, <2>2 DEF Locals
      <3> QED
        BY <1>2, <1>3, <3>1 DEF Telling
    <2>3. CASE op' = [op EXCEPT ![c] = [e EXCEPT !.runs = ran, !.reply = "failed"]]
      <3>1. /\ n.pc = "reply" /\ n.kind = o.kind /\ n.primary = s /\ n.attempt = o.attempt
            /\ n.hint = o.hint /\ n.reply = "failed"
        BY <1>1, <2>3 DEF Locals
      <3> QED
        BY <1>2, <1>3, <3>1 DEF Telling
    <2>4. ~(op' = [op EXCEPT ![c] = [e EXCEPT !.runs = ran, !.reply = "conn", !.calm = FALSE]])
      <3>1. SUFFICES ASSUME op' = [op EXCEPT ![c] = [e EXCEPT !.runs = ran, !.reply = "conn", !.calm = FALSE]]
                     PROVE  n.calm = FALSE
        OBVIOUS
      <3> QED
        BY <1>1, <3>1 DEF Locals
    <2> QED
      BY <2>1, <2>2, <2>3, <2>4
  <1>5. CASE /\ alive[s] /\ Refuses(c, s)
             /\ \E hint \in {None} \cup (FindPrimary(view[s]) \ {s}) :
                  op' = [op EXCEPT ![c] = [e EXCEPT !.reply = "notprimary", !.hint = hint]]
    <2>1. ~Standalone /\ s # leader
      BY <1>1, <1>5, ManagerConstants DEF Refuses
    <2>2. FindPrimary(view[s]) = {leader}
      BY <1>1, <1>2, <1>5, <2>1, CurrentPrimary DEF Settled
    <2>3. PICK hint \in {None, leader} :
            op' = [op EXCEPT ![c] = [e EXCEPT !.reply = "notprimary", !.hint = hint]]
      BY <1>5, <2>2
    <2>4. /\ n.pc = "reply" /\ n.kind = o.kind /\ n.primary = s /\ n.attempt = o.attempt
          /\ n.hint = hint /\ n.reply = "notprimary"
      BY <1>1, <2>3 DEF Locals
    <2> QED
      BY <1>3, <1>5, <2>1, <2>4 DEF Telling
  <1>6. CASE Unreached(c, s, [e EXCEPT !.reply = "conn"])
    <2>1. [e EXCEPT !.reply = "conn"] \in Locals
      BY <1>1, Names DEF Locals
    <2>2. ~alive[s] /\ op' = [op EXCEPT ![c] = [e EXCEPT !.reply = "conn"]]
      BY <1>1, <1>6, <2>1, UnreachedIsDown
    <2>3. /\ n.pc = "reply" /\ n.kind = o.kind /\ n.primary = s /\ n.attempt = o.attempt
          /\ n.hint = o.hint /\ n.reply = "conn"
      BY <1>1, <2>2 DEF Locals
    <2> QED
      BY <1>2, <1>3, <2>2, <2>3 DEF Telling
  <1> QED
    BY <1>4, <1>5, <1>6 DEF Task

\* An answer ends the operation, that of servers() is recorded first.
LEMMA AnsweredArrives ==
  ASSUME Inv, NEW c \in Calls, OnTrack(op[c]), op[c].kind \in Ours, Answered(c) \/ Record(c)
  PROVE  Arrives(c)
  <1> DEFINE o == op[c]
             n == op'[c]
  <1>1. UNCHANGED cluster /\ o \in Locals /\ op \in [Calls -> Locals]
    BY Known DEF Answered, Record
  <1>2. ASSUME NEW result, result # "unreachable", Finish(c, result) PROVE Arrives(c)
    <2>1. n.pc = "done" /\ n.kind = o.kind /\ n.outcome = result
      BY <1>1, <1>2 DEF Finish, Idle
    <2> QED
      BY <1>2, <2>1 DEF Arrives
  <1>3. CASE Record(c)
    BY <1>2, <1>3 DEF Record
  <1>4. CASE Answered(c)
    <2>1. o.pc = "reply" /\ ~Retryable(o.reply) /\ o.reply \in {"ok", "failed"}
      BY <1>4 DEF Answered, At, Ours, OnTrack, Telling, Retryable
    <2>2. CASE Goto(c, "record")
      <3>1. n.pc = "record" /\ n.kind = o.kind
        BY <1>1, <2>2 DEF Goto, Locals
      <3>2. Settled'
        BY <1>1, SettledStays DEF OnTrack
      <3> QED
        BY <3>1, <3>2 DEF Arrives, OnTrack, Trying, Searching
    <2>3. CASE Finish(c, o.reply)
      BY <1>2, <2>1, <2>3
    <2> QED
      BY <1>4, <2>1, <2>2, <2>3 DEF Answered
  <1> QED
    BY <1>3, <1>4

\* The next attempt, the second, is on the primary.
LEMMA AttemptArrives ==
  ASSUME Inv, Retries > 0, NEW c \in Calls, Settled, op[c].kind \in Ours, op[c].attempt = 0,
         NextAttempt(c, leader), UNCHANGED cluster
  PROVE  Arrives(c)
  <1> DEFINE n == op'[c]
  <1>1. op' = [op EXCEPT ![c] =
                   [op[c] EXCEPT !.pc = "lookup", !.primary = leader, !.attempt = op[c].attempt + 1,
                                 !.reply = "none", !.hint = None, !.source = {}, !.todo = {},
                                 !.round = 0, !.polled = None, !.found = None]]
    BY ManagerConstants DEF NextAttempt
  <1>2. n.pc = "lookup" /\ n.kind = op[c].kind /\ n.primary = leader /\ n.hint = None
    BY <1>1, Known DEF Locals
  <1>3. Settled' /\ leader' = leader
    BY SettledStays DEF cluster
  <1> QED
    BY <1>2, <1>3 DEF Arrives, OnTrack, Trying, Searching

LEMMA FollowHintArrives ==
  ASSUME Inv, Retries > 0, NEW c \in Calls, OnTrack(op[c]), op[c].kind \in Ours, FollowHint(c)
  PROVE  Arrives(c)
  <1>1. /\ op[c].pc = "reply" /\ Retryable(op[c].reply) /\ op[c].hint \in ServersOf(replicas)
        /\ NextAttempt(c, op[c].hint) /\ UNCHANGED cluster
    BY DEF FollowHint, At, Hinted, Retryable
  <1>2. op[c].hint # None /\ op[c].hint \in {None, leader}
    BY <1>1, Known, ManagerConstants DEF OnTrack
  <1>3. op[c].attempt = 0
    BY <1>1, Missed
  <1> QED
    BY <1>1, <1>2, <1>3, AttemptArrives DEF OnTrack


\* After a failed attempt the search starts among servers one of which is up.
LEMMA SeekAfterFailureArrives ==
  ASSUME Inv, NEW c \in Calls, OnTrack(op[c]), op[c].kind \in Ours, SeekAfterFailure(c)
  PROVE  Arrives(c)
  <1> DEFINE o == op[c]
             n == op'[c]
             among == FailoverCandidates(c)
  <1>1. /\ UNCHANGED <<cluster, shared>> /\ o.pc = "reply" /\ Retryable(o.reply)
        /\ op' = [op EXCEPT ![c].pc = "seek", ![c].source = among, ![c].todo = among]
    BY DEF SeekAfterFailure, At
  <1>2. /\ o.primary # leader /\ o.attempt = 0 /\ ~Standalone /\ Live(ServersOf(replicas))
        /\ (o.reply = "conn" => ~alive[o.primary])
    BY <1>1, Missed
  <1>3. o.reply \in {"conn", "notprimary"}
    BY <1>1 DEF Retryable
  <1>4. Live(among)
    BY <1>2, <1>3 DEF Live, FailoverCandidates
  <1> HIDE DEF among
  <1>a. PICK s \in among : alive[s]
    BY <1>4 DEF Live
  <1>5. /\ n.pc = "seek" /\ n.kind = o.kind /\ n.primary = o.primary /\ n.attempt = o.attempt
        /\ n.source = among /\ n.todo = among
    BY <1>1, Known DEF Locals
  <1>6. Settled'
    BY <1>1, SettledStays DEF OnTrack
  <1>7. s \in n.source /\ s \in n.todo /\ alive'[s] /\ leader' = leader
    BY <1>1, <1>5, <1>a DEF cluster
  <1> QED
    BY <1>2, <1>5, <1>6, <1>7 DEF Arrives, OnTrack, Trying, Searching, Live

LEMMA PollArrives ==
  ASSUME Inv, NEW c \in Calls, OnTrack(op[c]), op[c].kind \in Ours, Poll(c)
  PROVE  Arrives(c)
  <1> DEFINE o == op[c]
             n == op'[c]
  <1>1. UNCHANGED <<cluster, shared>> /\ o.pc = "seek"
    BY DEF Poll, At
  <1>2. PICK r \in o.todo :
           op' = [op EXCEPT ![c].pc = IF r \in conns THEN "fetch" ELSE "poll_connect",
                            ![c].polled = r, ![c].todo = @ \ {r}]
    BY DEF Poll
  <1>3. /\ n.pc \in {"fetch", "poll_connect"} /\ n.kind = o.kind /\ n.primary = o.primary
        /\ n.attempt = o.attempt /\ n.source = o.source /\ n.polled = r /\ n.todo = o.todo \ {r}
    BY <1>2, Known DEF Locals
  <1>4. /\ Settled' /\ ~Standalone /\ o.attempt = 0 /\ o.primary # leader
        /\ Live(o.source) /\ Live(o.todo)
    BY <1>1, SettledStays DEF OnTrack, Searching
  <1>5. Live(n.todo \cup {n.polled})
    BY <1>2, <1>3, <1>4 DEF Live
  <1> QED
    BY <1>1, <1>3, <1>4, <1>5 DEF Arrives, OnTrack, Trying, Searching, Live, cluster

\* While a server that is up is still to be polled, no round fails.
LEMMA NoRoundFails ==
  ASSUME NEW c \in Calls, OnTrack(op[c])
  PROVE  ~RoundFailed(c)
  BY DEF OnTrack, RoundFailed, At, Live

LEMMA PollFailsArrives ==
  ASSUME Inv, NEW c \in Calls, OnTrack(op[c]), op[c].kind \in Ours,
         op[c].pc \in {"poll_connect", "fetch"}, PollFails(c), op'[c].calm, UNCHANGED cluster
  PROVE  Arrives(c)
  <1> DEFINE o == op[c]
             n == op'[c]
             e == [o EXCEPT !.pc = "seek"]
             m == [e EXCEPT !.todo = {}]
  <1>1. o \in Locals /\ op \in [Calls -> Locals]
    BY Known
  <1>2. e \in Locals /\ m \in Locals
    BY <1>1, Names DEF Locals
  <1>3. ~Misbehaves(c, o.polled, m)
    <2>1. [m EXCEPT !.calm = FALSE].calm = FALSE
      BY <1>2 DEF Locals
    <2> HIDE DEF m
    <2> QED
      BY <1>1, <2>1 DEF Misbehaves
  <1>4. ~alive[o.polled] /\ op' = [op EXCEPT ![c] = e]
    BY <1>1, <1>2, <1>3, UnreachedIsDown DEF PollFails
  <1>5. /\ n.pc = "seek" /\ n.kind = o.kind /\ n.primary = o.primary
        /\ n.attempt = o.attempt /\ n.source = o.source /\ n.todo = o.todo
    BY <1>1, <1>4 DEF Locals
  <1>6. /\ Settled' /\ ~Standalone /\ o.attempt = 0 /\ o.primary # leader
        /\ Live(o.source) /\ Live(o.todo \cup {o.polled})
    BY SettledStays DEF OnTrack, Searching
  <1>7. Live(o.todo)
    BY <1>4, <1>6 DEF Live
  <1> QED
    BY <1>5, <1>6, <1>7 DEF Arrives, OnTrack, Trying, Searching, Live, cluster

LEMMA PollConnectArrives ==
  ASSUME Inv, NEW c \in Calls, OnTrack(op[c]), op[c].kind \in Ours, PollConnect(c), op'[c].calm
  PROVE  Arrives(c)
  <1> DEFINE o == op[c]
             n == op'[c]
  <1>1. UNCHANGED cluster /\ o.pc = "poll_connect" /\ Settled'
    BY SettledStays DEF PollConnect, At, OnTrack
  <1>2. CASE Goto(c, "fetch")
    <2>1. /\ n.pc = "fetch" /\ n.kind = o.kind /\ n.primary = o.primary /\ n.attempt = o.attempt
          /\ n.source = o.source /\ n.todo = o.todo /\ n.polled = o.polled
      BY <1>2, Known DEF Goto, Locals
    <2> QED
      BY <1>1, <2>1 DEF Arrives, OnTrack, Trying, Searching, Live, cluster
  <1> QED
    BY <1>1, <1>2, PollFailsArrives DEF PollConnect

\* What a server that is up lists is what there is.
LEMMA FetchArrives ==
  ASSUME Inv, NEW c \in Calls, OnTrack(op[c]), op[c].kind \in Ours, Fetch(c), op'[c].calm
  PROVE  Arrives(c)
  <1> DEFINE o == op[c]
             n == op'[c]
             seen == view[o.polled]
  <1>1. UNCHANGED cluster /\ o.pc = "fetch" /\ Settled /\ Settled' /\ o.polled \in Servers
    BY Known, SettledStays DEF Fetch, At, OnTrack, Good
  <1>2. CASE alive[o.polled] /\ op' = [op EXCEPT ![c].pc = "store", ![c].listed = seen]
    <2>1. seen = CurrentView(Servers)
      BY <1>1, <1>2 DEF Settled
    <2>2. /\ n.pc = "store" /\ n.kind = o.kind /\ n.primary = o.primary /\ n.attempt = o.attempt
          /\ n.source = o.source /\ n.listed = seen
      BY <1>2, Known DEF Locals
    <2>3. CurrentView(Servers)' = CurrentView(Servers)
      BY <1>1 DEF CurrentView, cluster
    <2> QED
      BY <1>1, <2>1, <2>2, <2>3 DEF Arrives, OnTrack, Trying, Searching, Live, cluster
  <1> QED
    BY <1>1, <1>2, PollFailsArrives DEF Fetch

LEMMA StoreArrives ==
  ASSUME Inv, NEW c \in Calls, OnTrack(op[c]), op[c].kind \in Ours, Store(c)
  PROVE  Arrives(c)
  <1> DEFINE o == op[c]
             n == op'[c]
  <1>1. UNCHANGED cluster /\ o.pc = "store" /\ Settled' /\ replicas' = o.listed
    BY SettledStays DEF Store, At, OnTrack
  <1>2. /\ n.pc = "read" /\ n.kind = o.kind /\ n.primary = o.primary /\ n.attempt = o.attempt
        /\ n.source = o.source
    BY Known DEF Store, Locals
  <1>3. CurrentView(Servers)' = CurrentView(Servers)
    BY <1>1 DEF CurrentView, cluster
  <1> QED
    BY <1>1, <1>2, <1>3 DEF Arrives, OnTrack, Trying, Searching, Live, cluster

LEMMA ReadArrives ==
  ASSUME Inv, NEW c \in Calls, OnTrack(op[c]), op[c].kind \in Ours, Read(c)
  PROVE  Arrives(c)
  <1> DEFINE o == op[c]
             n == op'[c]
  <1>1. UNCHANGED <<cluster, shared>> /\ o.pc = "read" /\ Settled'
    BY SettledStays DEF Read, At, OnTrack
  <1>2. FindPrimary(replicas) = {leader}
    BY <1>1, Known, CurrentPrimary DEF OnTrack, Searching
  <1>3. op' = [op EXCEPT ![c].pc = "snapshot", ![c].found = leader]
    BY <1>2 DEF Read
  <1>4. /\ n.pc = "snapshot" /\ n.kind = o.kind /\ n.primary = o.primary /\ n.attempt = o.attempt
        /\ n.source = o.source /\ n.found = leader
    BY <1>3, Known DEF Locals
  <1>5. CurrentView(Servers)' = CurrentView(Servers) /\ replicas' = replicas
    BY <1>1 DEF CurrentView, cluster, shared
  <1> QED
    BY <1>1, <1>4, <1>5 DEF Arrives, OnTrack, Trying, Searching, Live, cluster

LEMMA RefreshBeginArrives ==
  ASSUME Inv, NEW c \in Calls, OnTrack(op[c]), op[c].kind \in Ours, RefreshBegin(c)
  PROVE  Arrives(c)
  <1> DEFINE o == op[c]
             n == op'[c]
  <1>1. UNCHANGED <<cluster, shared>> /\ o.pc = "snapshot" /\ Settled'
    BY SettledStays DEF RefreshBegin, At, OnTrack
  <1>2. ServersOf(replicas) = Servers
    BY <1>1, CurrentServers DEF OnTrack
  <1>3. op' = [op EXCEPT ![c].pc = "refresh", ![c].snapshot = Servers, ![c].missing = Servers \ conns]
    BY <1>2 DEF RefreshBegin
  <1>4. /\ n.pc = "refresh" /\ n.kind = o.kind /\ n.primary = o.primary /\ n.attempt = o.attempt
        /\ n.source = o.source /\ n.found = o.found /\ n.snapshot = Servers
        /\ n.missing = Servers \ conns
    BY <1>3, Known DEF Locals
  <1>5. leader \in conns \cup n.missing
    BY <1>4, Known
  <1> QED
    BY <1>1, <1>4, <1>5 DEF Arrives, OnTrack, Trying, Searching, Live, cluster, shared

\* The primary is up, so that a connection to it is opened.
LEMMA RefreshConnectArrives ==
  ASSUME Inv, NEW c \in Calls, OnTrack(op[c]), op[c].kind \in Ours, RefreshConnect(c), op'[c].calm
  PROVE  Arrives(c)
  <1> DEFINE o == op[c]
             n == op'[c]
  <1>1. UNCHANGED <<cluster, shared>> /\ o.pc = "refresh" /\ Settled /\ Settled'
    BY SettledStays DEF RefreshConnect, At, OnTrack
  <1>a. leader \in conns \cup o.missing \cup o.opened /\ alive[leader]
    BY <1>1 DEF OnTrack, Settled
  <1> DEFINE less(r) == [o EXCEPT !.missing = o.missing \ {r}]
             more(r) == [less(r) EXCEPT !.opened = o.opened \cup {r}]
  <1>2. PICK r \in o.missing : op' = [op EXCEPT ![c] = more(r)] \/ Unreached(c, r, less(r))
    BY DEF RefreshConnect
  <1>3. o \in Locals /\ op \in [Calls -> Locals]
    BY Known
  <1>4. less(r) \in Locals
    <2>1. o.missing \ {r} \in Groups
      BY <1>3 DEF Locals, Groups
    <2> QED
      BY <1>3, <2>1 DEF Locals
  <1>5. CASE op' = [op EXCEPT ![c] = more(r)]
    <2>1. /\ n.pc = "refresh" /\ n.kind = o.kind /\ n.primary = o.primary /\ n.attempt = o.attempt
          /\ n.source = o.source /\ n.found = o.found /\ n.snapshot = o.snapshot
          /\ n.missing = o.missing \ {r} /\ n.opened = o.opened \cup {r}
      BY <1>1, <1>3, <1>5 DEF Locals
    <2>2. leader \in conns \cup n.missing \cup n.opened
      BY <1>a, <2>1
    <2> QED
      BY <1>1, <2>1, <2>2 DEF Arrives, OnTrack, Trying, Searching, Live, cluster, shared
  <1>6. CASE Unreached(c, r, less(r))
    <2>1. ~alive[r] /\ op' = [op EXCEPT ![c] = less(r)]
      <3> HIDE DEF less
      <3> QED
        BY <1>3, <1>4, <1>6, UnreachedIsDown
    <2>2. /\ n.pc = "refresh" /\ n.kind = o.kind /\ n.primary = o.primary /\ n.attempt = o.attempt
          /\ n.source = o.source /\ n.found = o.found /\ n.snapshot = o.snapshot
          /\ n.missing = o.missing \ {r} /\ n.opened = o.opened
      BY <1>1, <1>3, <2>1 DEF Locals
    <2>3. leader \in conns \cup n.missing \cup n.opened
      BY <1>a, <2>1, <2>2
    <2> QED
      BY <1>1, <2>2, <2>3 DEF Arrives, OnTrack, Trying, Searching, Live, cluster, shared
  <1> QED
    BY <1>2, <1>5, <1>6

\* The connection to the primary is among those that are kept.
LEMMA NoRefreshFails ==
  ASSUME Inv, NEW c \in Calls, OnTrack(op[c])
  PROVE  ~RefreshFails(c)
  <1>1. SUFFICES ASSUME RefreshFails(c) PROVE FALSE
    OBVIOUS
  <1>2. op[c].pc = "refresh" /\ op[c].missing = {} /\ Refreshed(c) = {}
    BY <1>1 DEF RefreshFails, AtApply, At
  <1>3. op[c].snapshot = Servers /\ leader \in conns \cup op[c].missing \cup op[c].opened
    BY <1>2 DEF OnTrack
  <1> QED
    BY <1>2, <1>3, Known DEF Refreshed

\* The search found the primary, which is not the replica that failed.
LEMMA SeekReturnsArrives ==
  ASSUME Inv, Retries > 0, NEW c \in Calls, OnTrack(op[c]), op[c].kind \in Ours, SeekReturns(c)
  PROVE  Arrives(c)
  <1> DEFINE o == op[c]
             n == op'[c]
  <1>1. UNCHANGED cluster /\ o.pc = "refresh" /\ Settled /\ Settled'
    BY SettledStays DEF SeekReturns, AtApply, At, OnTrack
  <1>2. o.found = leader /\ o.primary # leader /\ o.attempt = 0
    BY <1>1 DEF OnTrack, Searching
  <1>3. ~StillTheFailed(c)
    BY <1>2 DEF StillTheFailed
  <1>4. CASE o.primary = None
    <2>1. op' = [op EXCEPT ![c] = [Idle EXCEPT !.pc = "lookup", !.kind = o.kind,
                                               !.primary = leader, !.calm = o.calm]]
      BY <1>2, <1>3, <1>4 DEF SeekReturns
    <2>2. n.pc = "lookup" /\ n.kind = o.kind /\ n.primary = leader /\ n.hint = None
      BY <2>1, Known DEF Idle
    <2> QED
      BY <1>1, <2>2 DEF Arrives, OnTrack, Trying, Searching, cluster
  <1>5. CASE o.primary # None
    BY <1>1, <1>2, <1>3, <1>5, AttemptArrives DEF SeekReturns
  <1> QED
    BY <1>4, <1>5

\* Whatever a calm operation does, it stays on its way.
LEMMA StepArrives ==
  ASSUME Inv, Retries > 0, NEW c \in Calls, OnTrack(op[c]), op[c].kind \in Ours, Step(c), op'[c].calm
  PROVE  Arrives(c)
  <1>1. ~NewReturns(c)
    BY DEF NewReturns, Ours
  <1> QED
    BY <1>1, LookupArrives, ConnectArrives, TaskArrives, AnsweredArrives, FollowHintArrives,
       SeekAfterFailureArrives, PollArrives, NoRoundFails, PollConnectArrives, FetchArrives,
       StoreArrives, ReadArrives, RefreshBeginArrives, RefreshConnectArrives, NoRefreshFails,
       SeekReturnsArrives
       DEF Step

-----------------------------------------------------------------------------
(* What every step does to the history and to what was listed.               *)

Kept(o, n) ==
    /\ n.calm => o.calm /\ n.kind = o.kind /\ n.pc # "idle"
    /\ n.listed = o.listed \/ n.listed = {} \/ \E s \in Servers : n.listed = view[s]

LEMMA UnreachedKeeps ==
  ASSUME op \in [Calls -> Locals], NEW c \in Calls, NEW s, NEW m \in Locals, m.kind = op[c].kind,
         m.calm = op[c].calm, m.pc # "idle", m.listed = op[c].listed,
         Unreached(c, s, m) \/ Misbehaves(c, s, m)
  PROVE  Kept(op[c], op'[c])
  <1>1. CASE op' = [op EXCEPT ![c] = m]
    BY <1>1 DEF Kept
  <1>2. CASE op' = [op EXCEPT ![c] = [m EXCEPT !.calm = FALSE]]
    <2>1. op'[c].calm = FALSE /\ op'[c].listed = m.listed
      BY <1>2 DEF Locals
    <2> QED
      BY <2>1 DEF Kept
  <1> QED
    BY <1>1, <1>2 DEF Unreached, Misbehaves

LEMMA PollFailsKeeps ==
  ASSUME Inv, NEW c \in Calls, PollFails(c)
  PROVE  Kept(op[c], op'[c])
  <1> DEFINE e == [op[c] EXCEPT !.pc = "seek"]
             m == [e EXCEPT !.todo = {}]
  <1>a. e \in Locals
    BY Known, Names DEF Locals
  <1>1. e \in Locals /\ m \in Locals
    BY <1>a, Names DEF Locals
  <1>2. /\ e.kind = op[c].kind /\ e.calm = op[c].calm /\ e.pc # "idle" /\ e.listed = op[c].listed
        /\ m.kind = op[c].kind /\ m.calm = op[c].calm /\ m.pc # "idle" /\ m.listed = op[c].listed
    BY Known DEF Locals
  <1>3. Unreached(c, op[c].polled, e) \/ Misbehaves(c, op[c].polled, m)
    BY DEF PollFails
  <1> HIDE DEF e, m
  <1> QED
    BY <1>1, <1>2, <1>3, Known, UnreachedKeeps

LEMMA TaskKeeps ==
  ASSUME Inv, NEW c \in Calls, Task(c)
  PROVE  Kept(op[c], op'[c])
  <1> DEFINE o == [op[c] EXCEPT !.pc = "reply"]
             s == op[c].primary
             ran == op[c].runs + 1
  <1>1. op[c] \in Locals /\ op \in [Calls -> Locals] /\ s \in Servers
    BY Known DEF Task, At, Good
  <1>2. CASE op' = [op EXCEPT ![c] = [o EXCEPT !.runs = ran, !.reply = "ok",
                                        !.listed = IF o.kind = "servers" THEN view[s] ELSE {}]]
    <2>1. op'[c] = [o EXCEPT !.runs = ran, !.reply = "ok",
                             !.listed = IF o.kind = "servers" THEN view[s] ELSE {}]
      BY <1>1, <1>2
    <2>2. /\ op'[c].kind = op[c].kind /\ op'[c].calm = op[c].calm /\ op'[c].pc = "reply"
          /\ op'[c].listed = IF o.kind = "servers" THEN view[s] ELSE {}
      BY <1>1, <2>1 DEF Locals
    <2> QED
      BY <1>1, <2>2 DEF Kept
  <1>3. CASE op' = [op EXCEPT ![c] = [o EXCEPT !.runs = ran, !.reply = "failed"]]
    BY <1>1, <1>3 DEF Kept, Locals
  <1>4. CASE op' = [op EXCEPT ![c] = [o EXCEPT !.runs = ran, !.reply = "conn", !.calm = FALSE]]
    <2>1. op'[c].calm = FALSE /\ op'[c].listed = op[c].listed
      BY <1>1, <1>4 DEF Locals
    <2> QED
      BY <2>1 DEF Kept
  <1>5. CASE \E hint : op' = [op EXCEPT ![c] = [o EXCEPT !.reply = "notprimary", !.hint = hint]]
    BY <1>1, <1>5 DEF Kept, Locals
  <1>6. CASE Unreached(c, s, [o EXCEPT !.reply = "conn"])
    <2>1. [o EXCEPT !.reply = "conn"] \in Locals
      BY <1>1, Names DEF Locals
    <2>2. /\ [o EXCEPT !.reply = "conn"].kind = op[c].kind /\ [o EXCEPT !.reply = "conn"].pc # "idle"
          /\ [o EXCEPT !.reply = "conn"].calm = op[c].calm
          /\ [o EXCEPT !.reply = "conn"].listed = op[c].listed
      BY <1>1 DEF Locals
    <2> QED
      BY <1>1, <1>6, <2>1, <2>2, UnreachedKeeps
  <1> QED
    BY <1>2, <1>3, <1>4, <1>5, <1>6 DEF Task

LEMMA ConnectKeeps ==
  ASSUME Inv, NEW c \in Calls, Connect(c)
  PROVE  Kept(op[c], op'[c])
  <1> DEFINE o == [op[c] EXCEPT !.pc = "reply"]
             p == op[c].primary
  <1>1. op[c] \in Locals /\ op \in [Calls -> Locals]
    BY Known
  <1>2. CASE op' = [op EXCEPT ![c].pc = "task"]
    BY <1>1, <1>2 DEF Kept, Locals
  <1>3. ASSUME NEW r \in {"conn", "failed"},
               Unreached(c, p, [o EXCEPT !.reply = r]) \/ Misbehaves(c, p, [o EXCEPT !.reply = r])
        PROVE  Kept(op[c], op'[c])
    <2> DEFINE m == [o EXCEPT !.reply = r]
    <2>1. m \in Locals
      BY <1>1, Names DEF Locals
    <2>2. m.kind = op[c].kind /\ m.pc # "idle" /\ m.calm = op[c].calm /\ m.listed = op[c].listed
      BY <1>1 DEF Locals
    <2>3. Unreached(c, p, m) \/ Misbehaves(c, p, m)
      BY <1>3
    <2> HIDE DEF m
    <2> QED
      BY <1>1, <2>1, <2>2, <2>3, UnreachedKeeps
  <1> QED
    BY <1>2, <1>3 DEF Connect, Goto

LEMMA RefreshConnectKeeps ==
  ASSUME Inv, NEW c \in Calls, RefreshConnect(c)
  PROVE  Kept(op[c], op'[c])
  <1> DEFINE less(r) == [op[c] EXCEPT !.missing = op[c].missing \ {r}]
             more(r) == [less(r) EXCEPT !.opened = op[c].opened \cup {r}]
  <1>1. op[c] \in Locals /\ op \in [Calls -> Locals] /\ op[c].pc = "refresh"
    BY Known DEF RefreshConnect, At
  <1>2. PICK r \in op[c].missing : op' = [op EXCEPT ![c] = more(r)] \/ Unreached(c, r, less(r))
    BY DEF RefreshConnect
  <1>3. CASE op' = [op EXCEPT ![c] = more(r)]
    BY <1>1, <1>3 DEF Kept, Locals
  <1>4. CASE Unreached(c, r, less(r))
    <2>1. less(r) \in Locals
      <3>1. op[c].missing \ {r} \in Groups
        BY <1>1 DEF Locals, Groups
      <3> QED
        BY <1>1, <3>1 DEF Locals
    <2>2. /\ less(r).kind = op[c].kind /\ less(r).pc # "idle" /\ less(r).calm = op[c].calm
          /\ less(r).listed = op[c].listed
      BY <1>1 DEF Locals
    <2> HIDE DEF less
    <2> QED
      BY <1>1, <1>4, <2>1, <2>2, UnreachedKeeps
  <1> QED
    BY <1>2, <1>3, <1>4

LEMMA FinishKeeps ==
  ASSUME Inv, NEW c \in Calls, NEW result, Finish(c, result)
  PROVE  Kept(op[c], op'[c])
  BY Known DEF Finish, Kept, Idle

LEMMA NextAttemptKeeps ==
  ASSUME Inv, NEW c \in Calls, NEW p, NextAttempt(c, p)
  PROVE  Kept(op[c], op'[c])
  <1>1. CASE op[c].attempt < Retries
    <2>1. op' = [op EXCEPT ![c] =
                   [op[c] EXCEPT !.pc = "lookup", !.primary = p, !.attempt = op[c].attempt + 1,
                                 !.reply = "none", !.hint = None, !.source = {}, !.todo = {},
                                 !.round = 0, !.polled = None, !.found = None]]
      BY <1>1 DEF NextAttempt
    <2>2. op'[c].pc = "lookup" /\ op'[c].kind = op[c].kind /\ op'[c].calm = op[c].calm
          /\ op'[c].listed = op[c].listed
      BY <2>1, Known DEF Locals
    <2> QED
      BY <2>2 DEF Kept
  <1> QED
    BY <1>1, FinishKeeps DEF NextAttempt

LEMMA AnotherRoundKeeps ==
  ASSUME Inv, NEW c \in Calls, AnotherRound(c)
  PROVE  Kept(op[c], op'[c])
  <1> DEFINE m == [op[c] EXCEPT !.pc = "seek", !.todo = op[c].source, !.round = op[c].round + 1,
                                !.polled = None, !.found = None, !.snapshot = {}, !.opened = {}]
  <1>1. op'[c] = m
    BY Known DEF AnotherRound
  <1>2. m.pc = "seek" /\ m.kind = op[c].kind /\ m.calm = op[c].calm /\ m.listed = op[c].listed
    BY Known DEF Locals
  <1> HIDE DEF m
  <1> QED
    BY <1>1, <1>2 DEF Kept

LEMMA SeekReturnsKeeps ==
  ASSUME Inv, NEW c \in Calls, SeekReturns(c)
  PROVE  Kept(op[c], op'[c])
  <1>1. CASE AnotherRound(c)
    BY <1>1, AnotherRoundKeeps
  <1>2. CASE NextAttempt(c, op[c].found)
    BY <1>2, NextAttemptKeeps
  <1>3. CASE op' = [op EXCEPT ![c] = [Idle EXCEPT !.pc = "lookup", !.kind = op[c].kind,
                                                 !.primary = op[c].found, !.calm = op[c].calm]]
    BY <1>3, Known DEF Kept, Idle
  <1> QED
    BY <1>1, <1>2, <1>3 DEF SeekReturns

LEMMA StepKeeps ==
  ASSUME Inv, NEW c \in Calls, Step(c)
  PROVE  /\ Kept(op[c], op'[c]) /\ c \in Active
         /\ UNCHANGED cluster /\ replicas' \in {replicas, op[c].listed}
  <1>1. c \in Active
    BY DEF Step, Lookup, Connect, Task, Answered, Record, FollowHint, SeekAfterFailure, Poll, RoundFailed,
           PollConnect, Fetch, Store, Read, RefreshBegin, RefreshConnect, NewReturns, RefreshFails,
           SeekReturns, AtApply, At, Active
  <1>2. UNCHANGED cluster /\ replicas' \in {replicas, op[c].listed}
    BY DEF Step, Lookup, Connect, Task, Answered, Record, FollowHint, SeekAfterFailure, Poll, RoundFailed,
           PollConnect, Fetch, Store, Read, RefreshBegin, RefreshConnect, NewReturns, RefreshFails,
           SeekReturns, shared
  <1> SUFFICES Kept(op[c], op'[c])
    BY <1>1, <1>2
  <1>3. CASE Lookup(c)
    BY <1>3, Known DEF Lookup, Goto, Kept, Locals
  <1>4. CASE Answered(c)
    <2>1. CASE Goto(c, "record")
      BY <2>1, Known DEF Goto, Kept, Locals
    <2> QED
      BY <1>4, <2>1, FinishKeeps DEF Answered
  <1>5. CASE Record(c)
    BY <1>5, FinishKeeps DEF Record
  <1>6. CASE FollowHint(c)
    BY <1>6, NextAttemptKeeps DEF FollowHint
  <1>7. CASE SeekAfterFailure(c)
    BY <1>7, Known DEF SeekAfterFailure, Kept, Locals
  <1>8. CASE Poll(c)
    <2>1. PICK r \in op[c].todo :
             op' = [op EXCEPT ![c].pc = IF r \in conns THEN "fetch" ELSE "poll_connect",
                              ![c].polled = r, ![c].todo = @ \ {r}]
      BY <1>8 DEF Poll
    <2>2. op'[c].pc # "idle" /\ op'[c].kind = op[c].kind /\ op'[c].calm = op[c].calm
          /\ op'[c].listed = op[c].listed
      BY <2>1, Known DEF Locals
    <2> QED
      BY <2>2 DEF Kept
  <1>9. CASE RoundFailed(c)
    <2>1. CASE AnotherRound(c)
      BY <2>1, AnotherRoundKeeps
    <2> QED
      BY <1>9, <2>1, FinishKeeps DEF RoundFailed
  <1>10. CASE PollConnect(c)
    <2>1. CASE Goto(c, "fetch")
      BY <2>1, Known DEF Goto, Kept, Locals
    <2> QED
      BY <1>10, <2>1, PollFailsKeeps DEF PollConnect
  <1>11. CASE Fetch(c)
    <2>1. CASE op' = [op EXCEPT ![c].pc = "store", ![c].listed = view[op[c].polled]]
      <3>1. op[c].polled \in Servers
        BY <1>11, Known DEF Fetch, At, Good
      <3>2. /\ op'[c].pc = "store" /\ op'[c].listed = view[op[c].polled]
            /\ op'[c].kind = op[c].kind /\ op'[c].calm = op[c].calm
        BY <2>1, Known DEF Locals
      <3> QED
        BY <3>1, <3>2 DEF Kept
    <2> QED
      BY <1>11, <2>1, PollFailsKeeps DEF Fetch
  <1>12. CASE Store(c)
    BY <1>12, Known DEF Store, Kept, Locals
  <1>13. CASE Read(c)
    <2>1. CASE Goto(c, "seek")
      BY <2>1, Known DEF Goto, Kept, Locals
    <2>2. CASE \E p : op' = [op EXCEPT ![c].pc = "snapshot", ![c].found = p]
      BY <2>2, Known DEF Kept, Locals
    <2> QED
      BY <1>13, <2>1, <2>2 DEF Read
  <1>14. CASE RefreshBegin(c)
    BY <1>14, Known DEF RefreshBegin, Kept, Locals
  <1>15. CASE NewReturns(c)
    BY <1>15, Known DEF NewReturns, Kept, Idle
  <1>16. CASE RefreshFails(c)
    BY <1>16, Known DEF RefreshFails, Kept, Locals
  <1> QED
    BY <1>1, <1>2, <1>3, <1>4, <1>5, <1>6, <1>7, <1>8, <1>9, <1>10, <1>11, <1>12, <1>13, <1>14,
       <1>15, <1>16, TaskKeeps, ConnectKeeps, RefreshConnectKeeps, SeekReturnsKeeps DEF Step

-----------------------------------------------------------------------------
(* The beginning of an operation.                                            *)

\* A server alone is known from the start.
LEMMA AloneIsKnown ==
  ASSUME Inv, PlainInv, Standalone, CacheReaches
  PROVE  KnownPrimary # {}
  <1>1. PICK s : Servers = {s}
    BY ManagerConstants
  <1>2. PICK r \in replicas : TRUE
    BY DEF CacheReaches, ServersOf
  <1>3. \A q \in replicas : q \in Replica /\ q.server \in Servers /\ q.role = "none" /\ q.term = 0
    BY DEF PlainInv, Plain, Inv, ManagerOK, Replica
  <1>4. ASSUME NEW q \in replicas PROVE q = r
    <2>1. q.server = r.server /\ q.role = r.role /\ q.term = r.term
      BY <1>1, <1>2, <1>3
    <2> QED
      BY <1>2, <1>3, <2>1 DEF Replica
  <1>5. replicas = {r}
    BY <1>2, <1>4
  <1>6. Cardinality(replicas) = 1
    BY <1>5, FS_Singleton
  <1>7. NotCluster
    BY <1>3, <1>6 DEF NotCluster
  <1>8. ServersOf(replicas) # {}
    BY <1>2 DEF ServersOf
  <1> QED
    BY <1>7, <1>8 DEF KnownPrimary

LEMMA BeginArrives ==
  ASSUME Inv, PlainInv, NEW c \in Calls, Begin(c), op'[c].calm
  PROVE  op'[c].pc # "idle" /\ Arrives(c)
  <1> DEFINE n == op'[c]
             calm == Settled /\ CacheReaches
             among == ServersOf(replicas)
  <1>1. UNCHANGED <<cluster, shared>> /\ op \in [Calls -> Locals]
    BY Known DEF Begin
  <1>2. PICK k \in Ours :
          \/ \E p \in KnownPrimary :
               op' = [op EXCEPT ![c] = [[Idle EXCEPT !.kind = k, !.calm = calm]
                                           EXCEPT !.pc = "lookup", !.primary = p]]
          \/ /\ KnownPrimary = {}
             /\ op' = [op EXCEPT ![c] = [[Idle EXCEPT !.kind = k, !.calm = calm] EXCEPT
                         !.pc = "seek", !.source = ServersOf(replicas), !.todo = ServersOf(replicas)]]
    BY DEF Begin, Ours
  <1>3. calm
    <2> HIDE DEF calm
    <2>1. ASSUME NEW p, op' = [op EXCEPT ![c] = [[Idle EXCEPT !.kind = k, !.calm = calm]
                                                    EXCEPT !.pc = "lookup", !.primary = p]]
          PROVE  n.calm = calm
      BY <1>1, <2>1 DEF Idle
    <2>2. ASSUME op' = [op EXCEPT ![c] = [[Idle EXCEPT !.kind = k, !.calm = calm] EXCEPT
                          !.pc = "seek", !.source = ServersOf(replicas), !.todo = ServersOf(replicas)]]
          PROVE  n.calm = calm
      BY <1>1, <2>2 DEF Idle
    <2> QED
      BY <1>2, <2>1, <2>2
  <1>4. Settled' /\ alive' = alive /\ leader' = leader /\ replicas' = replicas
    BY <1>1, <1>3, SettledStays DEF cluster, shared
  <1>5. Live(among)
    BY <1>3 DEF Live, CacheReaches
  <1>6. KnownPrimary \subseteq among
    BY DEF KnownPrimary, FindPrimary, ServersOf
  <1> HIDE DEF calm
  <1>7. CASE \E p \in KnownPrimary :
               op' = [op EXCEPT ![c] = [[Idle EXCEPT !.kind = k, !.calm = calm]
                                           EXCEPT !.pc = "lookup", !.primary = p]]
    <2>1. PICK p \in KnownPrimary :
               op' = [op EXCEPT ![c] = [[Idle EXCEPT !.kind = k, !.calm = calm]
                                           EXCEPT !.pc = "lookup", !.primary = p]]
      BY <1>7
    <2>2. n.pc = "lookup" /\ n.kind = k /\ n.primary = p /\ n.attempt = 0 /\ n.hint = None
      BY <1>1, <2>1 DEF Idle
    <2> QED
      BY <1>2, <1>4, <1>5, <1>6, <2>1, <2>2 DEF Arrives, OnTrack, Trying, Searching, Live
  <1>8. CASE /\ KnownPrimary = {}
             /\ op' = [op EXCEPT ![c] = [[Idle EXCEPT !.kind = k, !.calm = calm] EXCEPT
                         !.pc = "seek", !.source = ServersOf(replicas), !.todo = ServersOf(replicas)]]
    <2>1. /\ n.pc = "seek" /\ n.kind = k /\ n.primary = None /\ n.attempt = 0
          /\ n.source = among /\ n.todo = among
      BY <1>1, <1>8 DEF Idle
    <2>2. ~Standalone /\ None # leader
      BY <1>3, <1>8, AloneIsKnown, Known, ManagerConstants DEF calm
    <2> HIDE DEF among
    <2> QED
      BY <1>2, <1>4, <1>5, <2>1, <2>2 DEF Arrives, OnTrack, Trying, Searching, Live
  <1> QED
    BY <1>2, <1>7, <1>8

\* Nothing is listed yet when an operation begins.
LEMMA BeginsEmpty ==
  ASSUME Inv, NEW c \in Calls, Begin(c) \/ BeginDirect(c)
  PROVE  op'[c].listed = {}
  <1>1. op \in [Calls -> Locals]
    BY Known
  <1>2. CASE BeginDirect(c)
    <2>1. PICK s \in Servers :
             op' = [op EXCEPT ![c] =
                       IF s \in ServersOf(replicas)
                       THEN [Idle EXCEPT !.kind = "direct", !.pc = "lookup", !.primary = s]
                       ELSE [Idle EXCEPT !.kind = "direct", !.pc = "done", !.outcome = "unreachable"]]
      BY <1>2 DEF BeginDirect
    <2>2. CASE s \in ServersOf(replicas)
      BY <1>1, <2>1, <2>2 DEF Idle
    <2>3. CASE s \notin ServersOf(replicas)
      BY <1>1, <2>1, <2>3 DEF Idle
    <2> QED
      BY <2>2, <2>3
  <1>3. CASE Begin(c)
    <2> DEFINE calm == Settled /\ CacheReaches
               begun(k) == [Idle EXCEPT !.kind = k, !.calm = calm]
    <2>1. \E k \in Ours :
             \/ \E p \in KnownPrimary :
                   op' = [op EXCEPT ![c] = [begun(k) EXCEPT !.pc = "lookup", !.primary = p]]
             \/ op' = [op EXCEPT ![c] = [begun(k) EXCEPT !.pc = "seek", !.source = ServersOf(replicas),
                                                          !.todo = ServersOf(replicas)]]
      BY <1>3 DEF Begin, Ours
    <2> HIDE DEF calm
    <2>2. ASSUME NEW k, NEW p,
                 op' = [op EXCEPT ![c] = [begun(k) EXCEPT !.pc = "lookup", !.primary = p]]
          PROVE  op'[c].listed = {}
      BY <1>1, <2>2 DEF Idle
    <2>3. ASSUME NEW k,
                 op' = [op EXCEPT ![c] = [begun(k) EXCEPT !.pc = "seek", !.source = ServersOf(replicas),
                                                          !.todo = ServersOf(replicas)]]
          PROVE  op'[c].listed = {}
      BY <1>1, <2>3 DEF Idle
    <2> HIDE DEF begun
    <2> QED
      BY <2>1, <2>2, <2>3
  <1> QED
    BY <1>2, <1>3

\* With one user thread, an operation begins when no other runs.
LEMMA BeginsAlone ==
  ASSUME MaxActive = 1, NEW c \in Calls, MayBegin(c)
  PROVE  Active = {}
  <1>1. Active \subseteq Calls /\ IsFiniteSet(Calls)
    BY ManagerConstants DEF Active
  <1>2. IsFiniteSet(Active)
    BY <1>1, FS_Subset
  <1>3. Cardinality(Active) \in Nat /\ Cardinality(Active) < 1
    BY <1>2, FS_CardinalityType DEF MayBegin
  <1>4. Cardinality(Active) = 0
    BY <1>3
  <1> QED
    BY <1>2, <1>4, FS_EmptySet

-----------------------------------------------------------------------------
(* The invariant.                                                            *)

LEMMA CurrentIsPlain ==
  ASSUME Standalone, NEW listed
  PROVE  Plain(CurrentView(listed))
  BY DEF Plain, CurrentView

LEMMA PlainStays ==
  ASSUME Inv, PlainInv, Next
  PROVE  PlainInv'
  <1> SUFFICES ASSUME Standalone
               PROVE  /\ \A s \in Servers : Plain(view'[s])
                      /\ Plain(replicas')
                      /\ \A d \in Calls : Plain(op'[d].listed)
    BY DEF PlainInv, Plain
  <1>1. /\ \A s \in Servers : Plain(view[s])
        /\ Plain(replicas)
        /\ \A d \in Calls : Plain(op[d].listed)
    BY DEF PlainInv
  <1>2. CASE \E c \in Calls : New(c) \/ Begin(c) \/ BeginDirect(c) \/ Step(c)
    <2>1. PICK c \in Calls : New(c) \/ Begin(c) \/ BeginDirect(c) \/ Step(c)
      BY <1>2
    <2>2. \A d \in Calls \ {c} : op'[d] = op[d]
      BY <2>1, CallStepChanges DEF Changes
    <2>3. Plain({})
      BY DEF Plain
    <2>4. CASE Step(c)
      <3>1. view' = view
        BY <2>4, StepKeeps DEF cluster
      <3>2. Plain(replicas') /\ Plain(op'[c].listed)
        BY <1>1, <2>3, <2>4, StepKeeps DEF Kept
      <3> QED
        BY <1>1, <2>2, <3>1, <3>2
    <2>5. CASE New(c)
      <3>1. op'[c].listed = op[c].listed
        BY <2>5, Known DEF New, Locals
      <3> QED
        BY <1>1, <2>2, <2>5, <3>1 DEF New, cluster
    <2>6. CASE Begin(c) \/ BeginDirect(c)
      <3>1. UNCHANGED <<view, replicas>>
        BY <2>6 DEF Begin, BeginDirect, cluster, shared
      <3>2. op'[c].listed = {}
        BY <2>6, BeginsEmpty
      <3> QED
        BY <1>1, <2>2, <2>3, <3>1, <3>2
    <2> QED
      BY <2>1, <2>4, <2>5, <2>6
  <1>3. CASE Environment
    <2>1. PICK s \in Servers : Elect(s) \/ Learn(s) \/ Crash(s) \/ Restart(s)
      BY <1>3 DEF Environment
    <2>2. Disturb /\ UNCHANGED shared
      BY <2>1 DEF Elect, Learn, Crash, Restart
    <2>3. \A d \in Calls : op'[d].listed = op[d].listed
      BY <2>2, Known DEF Disturb, Locals
    <2>4. \A t \in Servers : Plain(view'[t])
      <3>1. CASE Learn(s)
        <4>1. PICK listed : view' = [view EXCEPT ![s] = CurrentView(listed)]
          BY <3>1 DEF Learn
        <4> QED
          BY <1>1, <4>1, CurrentIsPlain DEF Inv, ClusterOK
      <3>2. CASE Crash(s) \/ Restart(s)
        BY <1>1, <3>2 DEF Crash, Restart
      <3> QED
        BY <2>1, <3>1, <3>2 DEF Elect
    <2> QED
      BY <1>1, <2>2, <2>3, <2>4 DEF shared
  <1> QED
    BY <1>2, <1>3 DEF Next

\* While another operation runs, an operation has not begun or is over.
LEMMA OthersRest ==
  ASSUME NEW c \in Calls, NEW d \in Calls, d # c, d \notin Active, Calm(op[d]), op'[d] = op[d]
  PROVE  Calm(op[d])'
  BY DEF Active, Calm

LEMMA FailoverStep ==
  ASSUME Inv, FailoverInv, MaxActive = 1, Retries > 0, Next
  PROVE  FailoverInv'
  <1>1. PlainInv'
    BY PlainStays DEF FailoverInv
  <1>2. CASE \E c \in Calls : Step(c)
    <2>1. PICK c \in Calls : Step(c)
      BY <1>2
    <2>2. \A d \in Calls \ {c} : op'[d] = op[d]
      BY <2>1, CallStepChanges DEF Changes
    <2>3. c \in Active /\ Kept(op[c], op'[c])
      BY <2>1, StepKeeps
    <2>4. \A d \in Calls \ {c} : d \notin Active /\ d \notin Active'
      BY <2>2, <2>3 DEF FailoverInv, Active
    <2>5. Calm(op[c])'
      <3>1. SUFFICES ASSUME op'[c].calm PROVE Calm(op[c])'
        BY DEF Calm
      <3>2. op[c].calm /\ op'[c].kind = op[c].kind /\ op'[c].pc # "idle"
        BY <2>3, <3>1 DEF Kept
      <3>3. Calm(op[c]) /\ op[c].pc # "done"
        BY <2>3 DEF FailoverInv, Active
      <3>4. CASE op[c].kind \in Ours
        <4>1. Arrives(c)
          BY <2>1, <3>1, <3>2, <3>3, <3>4, StepArrives DEF Calm, Ours
        <4> QED
          BY <3>2, <4>1 DEF Calm, Arrives, Ours
      <3>5. CASE op[c].kind \notin Ours
        BY <3>2, <3>3, <3>5 DEF Calm, Ours
      <3> QED
        BY <3>4, <3>5
    <2>6. \A d \in Calls \ {c} : Calm(op[d])'
      BY <2>2, <2>4, OthersRest DEF FailoverInv
    <2> QED
      BY <1>1, <2>4, <2>5, <2>6 DEF FailoverInv
  <1>3. CASE \E c \in Calls : New(c) \/ Begin(c) \/ BeginDirect(c)
    <2>1. PICK c \in Calls : New(c) \/ Begin(c) \/ BeginDirect(c)
      BY <1>3
    <2>2. \A d \in Calls \ {c} : op'[d] = op[d]
      BY <2>1, CallStepChanges DEF Changes
    <2>3. Active = {} /\ op[c].pc = "idle"
      <3>1. CASE New(c)
        BY <3>1 DEF New, At, Active
      <3>2. CASE Begin(c) \/ BeginDirect(c)
        BY <3>2, BeginsAlone DEF Begin, BeginDirect, MayBegin, At
      <3> QED
        BY <2>1, <3>1, <3>2
    <2>4. \A d \in Calls \ {c} : d \notin Active /\ d \notin Active'
      BY <2>2, <2>3 DEF Active
    <2>5. Calm(op[c])'
      <3>1. SUFFICES ASSUME op'[c].calm PROVE Calm(op[c])'
        BY DEF Calm
      <3>2. ~New(c)
        <4>1. SUFFICES ASSUME New(c) PROVE FALSE
          OBVIOUS
        <4>2. op'[c].calm = op[c].calm
          BY <4>1, Known DEF New, Locals
        <4> QED
          BY <2>3, <3>1, <4>2 DEF FailoverInv, Calm
      <3>3. ~BeginDirect(c)
        <4>1. SUFFICES ASSUME BeginDirect(c) PROVE FALSE
          OBVIOUS
        <4>2. PICK s \in Servers :
             op'[c] = IF s \in ServersOf(replicas)
                      THEN [Idle EXCEPT !.kind = "direct", !.pc = "lookup", !.primary = s]
                      ELSE [Idle EXCEPT !.kind = "direct", !.pc = "done", !.outcome = "unreachable"]
          BY <4>1, Known DEF BeginDirect
        <4>3. op'[c].calm = FALSE
          BY <4>2 DEF Idle
        <4> QED
          BY <3>1, <4>3
      <3>4. op'[c].pc # "idle" /\ Arrives(c)
        BY <2>1, <3>1, <3>2, <3>3, BeginArrives DEF FailoverInv
      <3> QED
        BY <3>4 DEF Calm, Arrives, Ours
    <2>6. \A d \in Calls \ {c} : Calm(op[d])'
      BY <2>2, <2>4, OthersRest DEF FailoverInv
    <2> QED
      BY <1>1, <2>4, <2>5, <2>6 DEF FailoverInv
  <1>4. CASE Environment
    <2>1. Disturb
      BY <1>4 DEF Environment, Elect, Learn, Crash, Restart
    <2>2. \A d \in Calls : op'[d].calm = FALSE /\ op'[d].pc = op[d].pc
      BY <2>1, Known DEF Disturb, Locals
    <2>3. \A d \in Calls : Calm(op[d])'
      BY <2>2 DEF Calm
    <2>4. Active' = Active
      BY <2>2 DEF Active
    <2> QED
      BY <1>1, <2>3, <2>4 DEF FailoverInv
  <1> QED
    BY <1>2, <1>3, <1>4 DEF Next

LEMMA FailoverInit == Init => FailoverInv
  <1> SUFFICES ASSUME Init PROVE FailoverInv
    OBVIOUS
  <1>1. \A c \in Calls : op[c] = Idle /\ op[c].pc = "idle" /\ op[c].calm = FALSE /\ op[c].listed = {}
    BY DEF Init, Idle
  <1>2. PlainInv
    <2> SUFFICES ASSUME Standalone PROVE PlainInv
      BY DEF PlainInv
    <2>1. Plain({}) /\ \A s \in Servers : Plain(view[s])
      BY CurrentIsPlain DEF Init, Plain
    <2> QED
      BY <1>1, <2>1 DEF Init, PlainInv
  <1> QED
    BY <1>1, <1>2 DEF FailoverInv, Active, Calm

\* Failover works for every number of servers, retries, faults and elections:
\* an operation that runs alone in a settled cluster reaches the primary, from
\* any cache and any set of connections that earlier operations left behind.
THEOREM FailoverSucceeds ==
  ASSUME MaxActive = 1
  PROVE  Spec => []SettledCallSucceeds
  <1> DEFINE Strong == Retries > 0 => FailoverInv
  <1>1. Init => Strong
    BY FailoverInit
  <1>2. Inv /\ Strong /\ [Next]_vars => Strong'
    <2> SUFFICES ASSUME Inv, FailoverInv, Retries > 0, [Next]_vars PROVE FailoverInv'
      OBVIOUS
    <2>1. CASE UNCHANGED vars
      BY <2>1 DEF vars, cluster, shared, FailoverInv, PlainInv, Plain, Calm, OnTrack, Active, Settled,
                  CurrentView, ServersOf, Live, Telling
    <2> QED
      BY <2>1, FailoverStep
  <1>3. Inv /\ [Next]_vars => Inv'
    BY NextMoves, StutterInv
  <1>4. Inv /\ Strong => SettledCallSucceeds
    BY DEF FailoverInv, Calm, SettledCallSucceeds, At
  <1> HIDE DEF Strong
  <1> QED
    BY <1>1, <1>2, <1>3, <1>4, InitInv, PTL DEF Spec

=============================================================================
