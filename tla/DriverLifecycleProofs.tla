----------------------- MODULE DriverLifecycleProofs ------------------------
(* The lifecycle keeps its types, and a closed driver opens nothing, for any *)
(* number of servers, connections, calls and forced closes.                  *)
EXTENDS DriverLifecycle, TLAPS

OpType == [pc : Owning \cup Returned \cup {"idle"}, server : Servers \cup {None},
           conn : Conns \cup {None}, what : {"open", "connect"}, late : BOOLEAN]
CloserType == [pc : {"idle", "conns", "rpc", "done"}, todo : SUBSET Conns,
               at : Conns \cup {None}, result : {"ok", "err"}, reach : SUBSET Opens]

(* The locals of a call when n is the state of the dispatcher of each        *)
(* connection: it owns a connection that was started, and when it began      *)
(* after force_close the flag is cleared and it only sends the request that  *)
(* opens a connection.                                                       *)
GoodOp(p, n, open) ==
    /\ p \in OpType
    /\ p.pc \in Owning => p.conn \in Conns
    /\ p.pc \in Owning \ {"start"} => n[p.conn] # "none"
    /\ p.late => /\ ~open
                 /\ p.pc \notin {"built", "push", "open", "dropped"}
                 /\ p.pc \in {"start", "send", "queued", "sent"} => p.what = "connect"

CallsGood == DOMAIN op = Opens /\ \A o \in Opens : GoodOp(op[o], rpc, isOpen)

ConnsGood ==
    /\ map \in [Servers -> Conns \cup {None}]
    /\ rpc \in [Conns -> {"none", "running", "signalled", "ended"}]
    /\ senders \in [Conns -> SUBSET Opens]
    /\ \A s \in Servers : map[s] # None => rpc[map[s]] # "none"

TxGood ==
    /\ stream \in [Opens -> {"none", "spawned", "running", "ended"}]
    /\ listener \in [Opens -> {"none", "listening", "waiting", "ended", "cut"}]
    /\ txOpen \in [Opens -> BOOLEAN]
    /\ signal \in [Opens -> BOOLEAN]

RestGood ==
    /\ isOpen \in BOOLEAN
    /\ worker \in {"running", "signalled", "stopped"}
    /\ closer \in [Closers -> CloserType]
    /\ driver \in {"held", "dropped", "joining", "gone"}
    /\ op = [o \in Opens |-> op[o]]

LifeInv == CallsGood /\ ConnsGood /\ TxGood /\ RestGood

-----------------------------------------------------------------------------
(* Connections are started once and never go back; the flag is only cleared. *)
Later(n, m, open, open2) ==
    /\ \A k \in Conns : n[k] # "none" => m[k] # "none"
    /\ open2 => open

(* Calls that do not move stay good.                                         *)
LEMMA CallsStay ==
  ASSUME LifeInv, Later(rpc, rpc', isOpen, isOpen'), NEW o \in Opens
  PROVE  GoodOp(op[o], rpc', isOpen')
  <1>1. GoodOp(op[o], rpc, isOpen)
    BY DEF LifeInv, CallsGood
  <1> QED
    BY <1>1 DEF GoodOp, Later

LEMMA CallsUnmoved ==
  ASSUME LifeInv, Later(rpc, rpc', isOpen, isOpen'), UNCHANGED op
  PROVE  CallsGood' /\ op' = [o \in Opens |-> op'[o]]
  BY CallsStay DEF CallsGood, LifeInv, RestGood

(* One call moves to another pc, perhaps with its request.                   *)
LEMMA CallMoves ==
  ASSUME LifeInv, Later(rpc, rpc', isOpen, isOpen'), NEW o \in Opens, NEW p,
         op' = [op EXCEPT ![o] = p], GoodOp(p, rpc', isOpen')
  PROVE  CallsGood' /\ op' = [x \in Opens |-> op'[x]]
  <1>1. DOMAIN op' = Opens /\ op' = [x \in Opens |-> op'[x]]
    BY DEF LifeInv, CallsGood
  <1>2. ASSUME NEW x \in Opens PROVE GoodOp(op'[x], rpc', isOpen')
    <2>1. CASE x = o
      BY <2>1 DEF LifeInv, CallsGood
    <2>2. CASE x # o
      <3>1. op'[x] = op[x]
        BY <2>2 DEF LifeInv, CallsGood
      <3> QED
        BY <3>1, CallsStay
    <2> QED
      BY <2>1, <2>2
  <1> QED
    BY <1>1, <1>2 DEF CallsGood

LEMMA GotoGood ==
  ASSUME LifeInv, Later(rpc, rpc', isOpen, isOpen'), NEW o \in Opens, NEW pc, Goto(o, pc),
         \/ pc \in {"err", "panicked"}
         \/ /\ pc \in Owning \ {"start", "built", "push"}
            /\ op[o].pc \in Owning
            /\ rpc'[op[o].conn] # "none"
            /\ pc \in {"send", "queued", "sent"} /\ op[o].late => op[o].what = "connect"
         \/ /\ pc \in {"built", "push", "open", "dropped"}
            /\ ~op[o].late
            /\ pc \in Owning => op[o].pc \in Owning \ {"start"}
  PROVE  CallsGood' /\ op' = [x \in Opens |-> op'[x]]
  <1> DEFINE p == [op[o] EXCEPT !.pc = pc]
  <1>1. GoodOp(op[o], rpc, isOpen) /\ GoodOp(op[o], rpc', isOpen')
    BY CallsStay DEF LifeInv, CallsGood
  <1>2. op' = [op EXCEPT ![o] = p]
    BY DEF Goto
  <1>3. /\ p \in OpType /\ p.pc = pc /\ p.conn = op[o].conn
        /\ p.what = op[o].what /\ p.late = op[o].late
    BY <1>1 DEF GoodOp, OpType, Owning, Returned
  <1> HIDE DEF p
  <1>4. GoodOp(p, rpc', isOpen')
    BY <1>1, <1>3 DEF GoodOp, Owning
  <1> QED
    BY <1>2, <1>4, CallMoves

LEMMA SameLater ==
  ASSUME UNCHANGED <<rpc, isOpen>>
  PROVE  Later(rpc, rpc', isOpen, isOpen')
  BY DEF Later

LEMMA SameConns ==
  ASSUME LifeInv, UNCHANGED connVars
  PROVE  ConnsGood' /\ UNCHANGED <<map, rpc, senders>>
  BY Zenon DEF connVars, ConnsGood, LifeInv

LEMMA SameTx ==
  ASSUME LifeInv, UNCHANGED txVars
  PROVE  TxGood'
  BY Zenon DEF txVars, TxGood, LifeInv

(* What is left of RestGood when the calls keep their shape.                 *)
LEMMA SameRest ==
  ASSUME LifeInv, UNCHANGED <<runtimeVars, closer, driver>>, op' = [x \in Opens |-> op'[x]]
  PROVE  RestGood' /\ UNCHANGED isOpen
  BY Zenon DEF runtimeVars, RestGood, LifeInv

-----------------------------------------------------------------------------
(* Opening a transaction.                                                    *)

LEMMA LookupKeeps ==
  ASSUME LifeInv, NEW o \in Opens, NEW s \in Servers, Lookup(o, s)
  PROVE  LifeInv'
  <1>1. UNCHANGED <<runtimeVars, connVars, txVars, closer, driver>>
    BY DEF Lookup
  <1>2. UNCHANGED <<rpc, isOpen>> /\ ConnsGood' /\ TxGood'
    BY <1>1, SameConns, SameTx DEF runtimeVars
  <1>3. NoOp \in OpType /\ AllClosed \in BOOLEAN /\ (AllClosed => ~isOpen)
    BY DEF NoOp, OpType, Owning, Returned, AllClosed
  <1>4. CASE map[s] # None
    <2> DEFINE p == [NoOp EXCEPT !.pc = "check", !.server = s, !.conn = map[s], !.late = AllClosed]
    <2>1. op' = [op EXCEPT ![o] = p]
      BY <1>4 DEF Lookup
    <2>2. map[s] \in Conns /\ rpc[map[s]] # "none"
      BY <1>4 DEF LifeInv, ConnsGood
    <2>3. p \in OpType /\ p.pc = "check" /\ p.conn = map[s] /\ p.late = AllClosed
      BY <1>3, <2>2 DEF OpType, Owning
    <2> HIDE DEF p
    <2>4. GoodOp(p, rpc', isOpen')
      BY <1>2, <1>3, <2>2, <2>3 DEF GoodOp, Owning
    <2> QED
      BY <1>1, <1>2, <2>1, <2>4, SameLater, CallMoves, SameRest DEF LifeInv
  <1>5. CASE map[s] = None
    <2>1. PICK k \in Conns : op' = [op EXCEPT ![o] =
              [NoOp EXCEPT !.pc = "start", !.server = s, !.conn = k, !.what = "connect",
                           !.late = AllClosed]]
      BY <1>5, Zenon DEF Lookup
    <2> DEFINE p == [NoOp EXCEPT !.pc = "start", !.server = s, !.conn = k, !.what = "connect",
                                 !.late = AllClosed]
    <2>2. p \in OpType /\ p.pc = "start" /\ p.conn = k /\ p.late = AllClosed /\ p.what = "connect"
      BY <1>3 DEF OpType, Owning
    <2>3. op' = [op EXCEPT ![o] = p]
      BY <2>1
    <2> HIDE DEF p
    <2>4. GoodOp(p, rpc', isOpen')
      BY <1>2, <1>3, <2>2 DEF GoodOp
    <2> QED
      BY <1>1, <1>2, <2>3, <2>4, SameLater, CallMoves, SameRest DEF LifeInv
  <1> QED
    BY <1>4, <1>5

(* Steps of a call that change only its pc.                                  *)
LEMMA StepKeeps ==
  ASSUME LifeInv, NEW o \in Opens,
         StartPanics(o) \/ Check(o) \/ Send(o) \/ Dispatch(o) \/ Reply(o)
  PROVE  LifeInv'
  <1>1. UNCHANGED <<runtimeVars, connVars, txVars, closer, driver>>
    BY Zenon DEF StartPanics, Check, Send, Dispatch, Reply
  <1>2. UNCHANGED <<rpc, isOpen>> /\ ConnsGood' /\ TxGood'
    BY <1>1, SameConns, SameTx DEF runtimeVars
  <1>3. GoodOp(op[o], rpc, isOpen)
    BY DEF LifeInv, CallsGood
  <1>4. CallsGood' /\ op' = [x \in Opens |-> op'[x]]
    <2>1. CASE StartPanics(o)
      BY <1>2, <2>1, SameLater, GotoGood DEF StartPanics
    <2>2. CASE Check(o)
      <3>1. CASE isOpen
        <4>1. Goto(o, "send") /\ op[o].pc = "check" /\ ~op[o].late /\ rpc'[op[o].conn] # "none"
          BY <1>2, <1>3, <2>2, <3>1 DEF Check, Allowed, GoodOp, Owning
        <4> QED
          BY <1>2, <4>1, SameLater, GotoGood DEF Owning
      <3>2. CASE ~isOpen
        <4>1. Goto(o, "err")
          BY <2>2, <3>2 DEF Check, Allowed
        <4> QED
          BY <1>2, <4>1, SameLater, GotoGood
      <3> QED
        BY <3>1, <3>2
    <2>3. ASSUME NEW pc \in {"queued", "sent"}, Goto(o, pc), op[o].pc \in {"send", "queued"}
          PROVE  CallsGood' /\ op' = [x \in Opens |-> op'[x]]
      <3>1. /\ op[o].pc \in Owning /\ rpc'[op[o].conn] # "none"
            /\ op[o].late => op[o].what = "connect"
        BY <1>2, <1>3, <2>3 DEF GoodOp, Owning
      <3> QED
        BY <1>2, <2>3, <3>1, SameLater, GotoGood DEF Owning
    <2>4. CASE Send(o)
      <3>1. op[o].pc = "send" /\ (Goto(o, "err") \/ Goto(o, "queued"))
        BY <2>4 DEF Send
      <3> QED
        BY <1>2, <2>3, <3>1, SameLater, GotoGood
    <2>5. CASE Dispatch(o)
      BY <2>3, <2>5 DEF Dispatch
    <2>6. CASE Reply(o)
      <3>1. /\ op[o].pc = "sent"
            /\ \/ Goto(o, "err")
               \/ Goto(o, "record") /\ op[o].what = "connect"
               \/ Goto(o, "built") /\ op[o].what # "connect"
        BY <2>6 DEF Reply
      <3>2. rpc'[op[o].conn] # "none" /\ (op[o].what # "connect" => ~op[o].late)
        BY <1>2, <1>3, <3>1 DEF GoodOp, Owning
      <3> QED
        BY <1>2, <3>1, <3>2, SameLater, GotoGood DEF Owning
    <2> QED
      BY <2>1, <2>2, <2>4, <2>5, <2>6
  <1> QED
    BY <1>1, <1>2, <1>4, SameRest DEF LifeInv

LEMMA StartedKeeps ==
  ASSUME LifeInv, NEW o \in Opens, Started(o)
  PROVE  LifeInv'
  <1>1. /\ UNCHANGED <<runtimeVars, map, senders, txVars, closer, driver>>
        /\ op[o].pc = "start"
    BY DEF Started
  <1>2. GoodOp(op[o], rpc, isOpen) /\ op[o].conn \in Conns
    BY <1>1 DEF LifeInv, CallsGood, GoodOp, Owning
  <1>3. \/ Goto(o, "send") /\ rpc' = [rpc EXCEPT ![op[o].conn] = "running"]
        \/ Goto(o, "err") /\ rpc' = [rpc EXCEPT ![op[o].conn] = "ended"]
    BY DEF Started
  <1>4. /\ ConnsGood' /\ TxGood' /\ isOpen' = isOpen
        /\ Later(rpc, rpc', isOpen, isOpen') /\ rpc'[op[o].conn] # "none"
    BY <1>1, <1>2, <1>3, SameTx DEF LifeInv, ConnsGood, Later, runtimeVars
  <1>5. op[o].late => op[o].what = "connect"
    BY <1>1, <1>2 DEF GoodOp
  <1>6. CallsGood' /\ op' = [x \in Opens |-> op'[x]]
    <2>1. CASE Goto(o, "send")
      BY <1>1, <1>4, <1>5, <2>1, GotoGood DEF Owning
    <2>2. CASE Goto(o, "err")
      BY <1>4, <2>2, GotoGood
    <2> QED
      BY <1>3, <2>1, <2>2
  <1> QED
    BY <1>1, <1>4, <1>6, SameRest DEF LifeInv

LEMMA RecordKeeps ==
  ASSUME LifeInv, NEW o \in Opens, Record(o)
  PROVE  LifeInv'
  <1> DEFINE p == [op[o] EXCEPT !.pc = "check", !.what = "open"]
  <1>1. /\ UNCHANGED <<runtimeVars, rpc, senders, txVars, closer, driver>>
        /\ op[o].pc = "record" /\ map' = [map EXCEPT ![op[o].server] = op[o].conn]
        /\ UNCHANGED <<rpc, isOpen>>
    BY DEF Record, runtimeVars
  <1>2. op' = [op EXCEPT ![o] = p]
    BY DEF Record, LifeInv, RestGood
  <1>3. GoodOp(op[o], rpc, isOpen) /\ op[o].conn \in Conns /\ rpc[op[o].conn] # "none"
    BY <1>1 DEF LifeInv, CallsGood, GoodOp, Owning
  <1>4. p \in OpType /\ p.pc = "check" /\ p.conn = op[o].conn /\ p.late = op[o].late
    BY <1>3 DEF GoodOp, OpType, Owning
  <1> HIDE DEF p
  <1>5. GoodOp(p, rpc', isOpen')
    BY <1>1, <1>3, <1>4 DEF GoodOp
  <1>6. ConnsGood' /\ TxGood'
    BY <1>1, <1>3, SameTx DEF LifeInv, ConnsGood
  <1> QED
    BY <1>1, <1>2, <1>5, <1>6, SameLater, CallMoves, SameRest DEF LifeInv

LEMMA ForgetKeeps ==
  ASSUME LifeInv, NEW s \in Servers, Forget(s)
  PROVE  LifeInv'
  <1>1. /\ UNCHANGED <<runtimeVars, rpc, senders, op, txVars, closer, driver>>
        /\ map' = [map EXCEPT ![s] = None] /\ UNCHANGED <<rpc, isOpen>>
    BY DEF Forget, runtimeVars
  <1>2. ConnsGood' /\ TxGood'
    BY <1>1, SameTx DEF LifeInv, ConnsGood
  <1> QED
    BY <1>1, <1>2, SameLater, CallsUnmoved, SameRest DEF LifeInv

LEMMA BuildKeeps ==
  ASSUME LifeInv, NEW o \in Opens, Build(o) \/ Push(o)
  PROVE  LifeInv'
  <1>1. /\ UNCHANGED <<runtimeVars, map, rpc, listener, txOpen, signal, closer, driver>>
        /\ UNCHANGED isOpen /\ op[o].pc \in {"built", "push"}
        /\ Goto(o, "push") \/ Goto(o, "open")
    BY DEF Build, Push, runtimeVars, connVars, txVars
  <1>2. GoodOp(op[o], rpc, isOpen) /\ ~op[o].late /\ op[o].conn \in Conns
    BY <1>1 DEF LifeInv, CallsGood, GoodOp, Owning
  <1>3. ConnsGood' /\ TxGood'
    <2>1. CASE Build(o)
      BY <2>1 DEF Build, LifeInv, ConnsGood, TxGood, connVars
    <2>2. CASE Push(o)
      BY <1>2, <2>2 DEF Push, LifeInv, ConnsGood, TxGood, txVars
    <2> QED
      BY <2>1, <2>2
  <1>4. CallsGood' /\ op' = [x \in Opens |-> op'[x]]
    BY <1>1, <1>2, SameLater, GotoGood DEF Owning
  <1> QED
    BY <1>1, <1>3, <1>4, SameRest DEF LifeInv

-----------------------------------------------------------------------------
(* Transactions, forced close and drop.                                      *)

LEMMA TransactionsKeep ==
  ASSUME LifeInv, NEW o \in Opens,
         StartWorkers(o) \/ StreamEnds(o) \/ CallbacksReturn(o) \/ DispatcherEnds(o)
  PROVE  LifeInv'
  <1>1. UNCHANGED <<runtimeVars, connVars, op, closer, driver>>
    BY Zenon DEF StartWorkers, StreamEnds, CallbacksReturn, DispatcherEnds
  <1>2. TxGood'
    BY DEF StartWorkers, StreamEnds, CallbacksReturn, DispatcherEnds, Signals, LifeInv, TxGood
  <1>3. ConnsGood' /\ UNCHANGED <<rpc, isOpen>>
    BY <1>1, SameConns DEF runtimeVars
  <1> QED
    BY <1>1, <1>2, <1>3, SameLater, CallsUnmoved, SameRest DEF LifeInv

LEMMA DropTransactionKeeps ==
  ASSUME LifeInv, NEW o \in Opens, DropTransaction(o)
  PROVE  LifeInv'
  <1>1. /\ UNCHANGED <<runtimeVars, connVars, closer, driver>>
        /\ op[o].pc = "open" /\ Goto(o, "dropped")
    BY DEF DropTransaction
  <1>2. ConnsGood' /\ UNCHANGED <<rpc, isOpen>>
    BY <1>1, SameConns DEF runtimeVars
  <1>3. TxGood'
    BY DEF DropTransaction, SubmitClose, LifeInv, TxGood
  <1>4. ~op[o].late
    BY <1>1 DEF LifeInv, CallsGood, GoodOp
  <1>5. CallsGood' /\ op' = [x \in Opens |-> op'[x]]
    BY <1>1, <1>2, <1>4, SameLater, GotoGood DEF Owning
  <1> QED
    BY <1>1, <1>2, <1>3, <1>5, SameRest DEF LifeInv

(* Steps that leave the calls, the flag and the dispatchers alone.           *)
LEMMA QuietKeeps ==
  ASSUME LifeInv, UNCHANGED <<op, rpc, isOpen, worker>>, ConnsGood', TxGood',
         closer' \in [Closers -> CloserType], driver' \in {"held", "dropped", "joining", "gone"}
  PROVE  LifeInv'
  <1>1. CallsGood' /\ op' = [o \in Opens |-> op'[o]]
    BY SameLater, CallsUnmoved
  <1>2. RestGood'
    BY <1>1 DEF LifeInv, RestGood
  <1> QED
    BY <1>1, <1>2 DEF LifeInv

LEMMA CloseBeginKeeps ==
  ASSUME LifeInv, NEW f \in Closers, CloseBegin(f)
  PROVE  LifeInv'
  <1>1. UNCHANGED <<runtimeVars, connVars, op, txVars, driver>> /\ UNCHANGED <<rpc, isOpen, worker, op>>
    BY DEF CloseBegin, runtimeVars, connVars
  <1>2. Mapped \in SUBSET Conns /\ UNION {senders[k] : k \in Mapped} \in SUBSET Opens
    BY DEF Mapped, LifeInv, ConnsGood
  <1>3. NoClose \in CloserType
    BY DEF NoClose, CloserType
  <1>4. closer' \in [Closers -> CloserType]
    <2> DEFINE c == IF ~isOpen THEN [NoClose EXCEPT !.pc = "done"]
                    ELSE [pc |-> "conns", todo |-> Mapped, at |-> None, result |-> "ok",
                          reach |-> UNION {senders[k] : k \in Mapped}]
    <2>1. closer' = [closer EXCEPT ![f] = c]
      BY DEF CloseBegin
    <2>2. c \in CloserType
      BY <1>2, <1>3 DEF CloserType
    <2> HIDE DEF c
    <2> QED
      BY <2>1, <2>2 DEF LifeInv, RestGood
  <1> QED
    BY <1>1, <1>4, SameConns, SameTx, QuietKeeps DEF LifeInv, RestGood

LEMMA CloseConnectionKeeps ==
  ASSUME LifeInv, NEW f \in Closers, CloseConnection(f)
  PROVE  LifeInv'
  <1>1. /\ UNCHANGED <<runtimeVars, map, rpc, op, stream, listener, txOpen, driver>>
        /\ UNCHANGED <<isOpen, worker>> /\ closer[f].todo # {}
    BY DEF CloseConnection, runtimeVars
  <1>2. closer[f] \in CloserType /\ closer[f].todo \subseteq Conns
    BY DEF LifeInv, RestGood, CloserType
  <1>3. PICK k \in Conns :
          /\ signal' = [o \in Opens |-> signal[o] \/ o \in Drained(k)]
          /\ senders' = [senders EXCEPT ![k] = {}]
          /\ closer' = [closer EXCEPT ![f].pc = "rpc", ![f].at = k, ![f].todo = @ \ {k}]
    <2>1. (CHOOSE c \in closer[f].todo : TRUE) \in Conns
      BY <1>1, <1>2
    <2> QED
      BY <2>1 DEF CloseConnection
  <1>4. ConnsGood' /\ TxGood'
    BY <1>1, <1>3 DEF LifeInv, ConnsGood, TxGood
  <1>5. closer' \in [Closers -> CloserType]
    BY <1>2, <1>3 DEF LifeInv, RestGood, CloserType
  <1> QED
    BY <1>1, <1>4, <1>5, QuietKeeps DEF LifeInv, RestGood

(* Steps after which dispatchers have moved on or the flag is cleared, and   *)
(* no call has moved.                                                        *)
LEMMA ClosingKeeps ==
  ASSUME LifeInv, Later(rpc, rpc', isOpen, isOpen'), UNCHANGED <<op, map, senders>>,
         rpc' \in [Conns -> {"none", "running", "signalled", "ended"}],
         TxGood', isOpen' \in BOOLEAN, worker' \in {"running", "signalled", "stopped"},
         closer' \in [Closers -> CloserType], driver' \in {"held", "dropped", "joining", "gone"}
  PROVE  LifeInv'
  <1>1. CallsGood' /\ op' = [o \in Opens |-> op'[o]]
    BY CallsUnmoved
  <1>2. ConnsGood'
    BY DEF LifeInv, ConnsGood, Later
  <1>3. RestGood'
    BY <1>1 DEF RestGood
  <1> QED
    BY <1>1, <1>2, <1>3 DEF LifeInv

LEMMA CloseRpcKeeps ==
  ASSUME LifeInv, NEW f \in Closers, CloseRpc(f)
  PROVE  LifeInv'
  <1> DEFINE k == closer[f].at
  <1>1. /\ UNCHANGED <<runtimeVars, map, senders, op, txVars, driver>>
        /\ UNCHANGED <<isOpen, worker>>
        /\ rpc' = [rpc EXCEPT ![k] = IF @ = "running" THEN "signalled" ELSE @]
    BY DEF CloseRpc, runtimeVars
  <1>2. closer' \in [Closers -> CloserType]
    <2>1. closer \in [Closers -> CloserType]
      BY DEF LifeInv, RestGood
    <2> DEFINE c == [closer[f] EXCEPT !.pc = "conns", !.todo = {}, !.result = "err"]
               d == [closer[f] EXCEPT !.pc = "conns"]
    <2>2. c \in CloserType /\ d \in CloserType
      BY <2>1 DEF CloserType
    <2>3. closer' = [closer EXCEPT ![f] = c] \/ closer' = [closer EXCEPT ![f] = d]
      <3>1. CASE StopsAt(k)
        BY <3>1 DEF CloseRpc
      <3>2. CASE ~StopsAt(k)
        BY <3>2 DEF CloseRpc
      <3> QED
        BY <3>1, <3>2
    <2> HIDE DEF c, d
    <2> QED
      BY <2>1, <2>2, <2>3
  <1>3. /\ rpc' \in [Conns -> {"none", "running", "signalled", "ended"}]
        /\ Later(rpc, rpc', isOpen, isOpen')
    BY <1>1 DEF LifeInv, ConnsGood, Later
  <1> QED
    BY <1>1, <1>2, <1>3, SameTx, ClosingKeeps DEF LifeInv, RestGood

LEMMA CloseRuntimeKeeps ==
  ASSUME LifeInv, NEW f \in Closers, CloseRuntime(f)
  PROVE  LifeInv'
  <1>1. /\ UNCHANGED <<connVars, op, txVars, driver>> /\ UNCHANGED <<map, rpc, senders>>
        /\ isOpen' = FALSE /\ worker' \in {worker, "signalled"}
    BY DEF CloseRuntime, connVars
  <1>2. closer' \in [Closers -> CloserType]
    <2>1. closer \in [Closers -> CloserType]
      BY DEF LifeInv, RestGood
    <2>2. PICK result \in {closer[f].result, "err"} :
            closer' = [closer EXCEPT ![f].pc = "done", ![f].result = result]
      BY DEF CloseRuntime
    <2> DEFINE c == [closer[f] EXCEPT !.pc = "done", !.result = result]
    <2>3. c \in CloserType
      BY <2>1, <2>2 DEF CloserType
    <2>4. closer' = [closer EXCEPT ![f] = c]
      BY <2>1, <2>2
    <2> HIDE DEF c
    <2> QED
      BY <2>1, <2>3, <2>4
  <1>3. Later(rpc, rpc', isOpen, isOpen')
    BY <1>1 DEF Later
  <1> QED
    BY <1>1, <1>2, <1>3, SameTx, ClosingKeeps DEF LifeInv, RestGood, ConnsGood

LEMMA RuntimeDropKeeps ==
  ASSUME LifeInv, RuntimeDrop \/ RuntimeJoined
  PROVE  LifeInv'
  <1>1. /\ UNCHANGED <<connVars, op, txVars, closer>> /\ UNCHANGED <<map, rpc, senders>>
        /\ worker' \in {worker, "signalled"} /\ driver' \in {"joining", "gone"}
    BY DEF RuntimeDrop, RuntimeJoined, connVars, runtimeVars
  <1>2. Later(rpc, rpc', isOpen, isOpen') /\ isOpen' \in BOOLEAN
    <2>1. CASE isOpen' = FALSE
      BY <1>1, <2>1 DEF Later
    <2>2. CASE isOpen' = isOpen
      BY <1>1, <2>2 DEF Later, LifeInv, RestGood
    <2> QED
      BY <2>1, <2>2, Zenon DEF RuntimeDrop, RuntimeJoined, runtimeVars
  <1> QED
    BY <1>1, <1>2, SameTx, ClosingKeeps DEF LifeInv, RestGood, ConnsGood

LEMMA DriverDropKeeps ==
  ASSUME LifeInv, DriverDrop
  PROVE  LifeInv'
  <1>1. /\ UNCHANGED <<runtimeVars, rpc, senders, op, txVars, closer>>
        /\ UNCHANGED <<isOpen, worker>> /\ driver' = "dropped"
        /\ map' = [s \in Servers |-> None]
    BY DEF DriverDrop, runtimeVars
  <1>2. ConnsGood'
    BY <1>1 DEF LifeInv, ConnsGood
  <1> QED
    BY <1>1, <1>2, SameTx, QuietKeeps DEF LifeInv, RestGood

(* Calls whose request is lost return an error; the others stay.             *)
LEMMA LostKeeps ==
  ASSUME LifeInv, Later(rpc, rpc', isOpen, isOpen'), NEW Lost \in SUBSET Opens,
         op' = [o \in Opens |-> IF o \in Lost THEN [op[o] EXCEPT !.pc = "err"] ELSE op[o]]
  PROVE  CallsGood' /\ op' = [o \in Opens |-> op'[o]]
  <1>1. ASSUME NEW o \in Opens PROVE GoodOp(op'[o], rpc', isOpen')
    <2>1. GoodOp(op[o], rpc', isOpen')
      BY CallsStay
    <2>2. CASE o \in Lost
      <3> DEFINE p == [op[o] EXCEPT !.pc = "err"]
      <3>1. /\ p \in OpType /\ p.pc = "err" /\ p.conn = op[o].conn
            /\ p.what = op[o].what /\ p.late = op[o].late
        BY <2>1 DEF GoodOp, OpType, Returned
      <3>2. op'[o] = p
        BY <2>2
      <3> HIDE DEF p
      <3> QED
        BY <2>1, <3>1, <3>2 DEF GoodOp, Owning
    <2>3. CASE o \notin Lost
      BY <2>1, <2>3
    <2> QED
      BY <2>2, <2>3
  <1> QED
    BY <1>1 DEF CallsGood

LEMMA DispatchLoopEndsKeeps ==
  ASSUME LifeInv, NEW k \in Conns, DispatchLoopEnds(k)
  PROVE  LifeInv'
  <1>1. /\ UNCHANGED <<runtimeVars, map, senders, txVars, closer, driver>> /\ UNCHANGED isOpen
        /\ rpc' = [rpc EXCEPT ![k] = "ended"]
        /\ op' = [o \in Opens |-> IF o \in Unsent(k) THEN [op[o] EXCEPT !.pc = "err"] ELSE op[o]]
    BY DEF DispatchLoopEnds, runtimeVars
  <1>2. Later(rpc, rpc', isOpen, isOpen') /\ ConnsGood' /\ TxGood'
    BY <1>1, SameTx DEF LifeInv, ConnsGood, Later
  <1>3. CallsGood' /\ op' = [o \in Opens |-> op'[o]]
    BY <1>1, <1>2, LostKeeps DEF Unsent
  <1> QED
    BY <1>1, <1>2, <1>3, SameRest DEF LifeInv

LEMMA WorkerStopsKeeps ==
  ASSUME LifeInv, WorkerStops
  PROVE  LifeInv'
  <1> DEFINE Lost == {o \in Opens : op[o].pc \in LostWithRuntime}
  <1>1. /\ UNCHANGED <<isOpen, map, senders, txOpen, signal, closer, driver>> /\ worker' = "stopped"
        /\ rpc' = [k \in Conns |-> IF rpc[k] = "none" THEN "none" ELSE "ended"]
        /\ op' = [o \in Opens |-> IF o \in Lost THEN [op[o] EXCEPT !.pc = "err"] ELSE op[o]]
    BY DEF WorkerStops
  <1>2. TxGood'
    BY DEF WorkerStops, LifeInv, TxGood
  <1>3. Later(rpc, rpc', isOpen, isOpen') /\ ConnsGood'
    BY <1>1 DEF LifeInv, ConnsGood, Later
  <1>4. CallsGood' /\ op' = [o \in Opens |-> op'[o]]
    BY <1>1, <1>3, LostKeeps
  <1>5. RestGood'
    BY <1>1, <1>4 DEF LifeInv, RestGood
  <1> QED
    BY <1>2, <1>3, <1>4, <1>5 DEF LifeInv

-----------------------------------------------------------------------------
LEMMA LifecycleInvariant == Spec => []LifeInv
  <1>1. Init => LifeInv
    <2> SUFFICES ASSUME Init PROVE LifeInv
      OBVIOUS
    <2>1. map \in [Servers -> Conns]
      BY LifecycleConstants DEF Init
    <2>2. ConnsGood
      BY <2>1, LifecycleConstants DEF Init, ConnsGood
    <2>3. TxGood
      BY DEF Init, TxGood
    <2>4. RestGood
      BY DEF Init, RestGood, NoClose, CloserType
    <2>5. NoOp \in OpType /\ NoOp.pc = "idle" /\ NoOp.late = FALSE
      BY DEF NoOp, OpType
    <2>6. ASSUME NEW o \in Opens PROVE GoodOp(op[o], rpc, isOpen)
      <3>1. op[o] = NoOp
        BY DEF Init
      <3> QED
        BY <2>5, <3>1 DEF GoodOp, Owning
    <2>7. CallsGood
      BY <2>6 DEF Init, CallsGood
    <2> QED
      BY <2>2, <2>3, <2>4, <2>7 DEF LifeInv
  <1>2. LifeInv /\ [Next]_vars => LifeInv'
    <2> SUFFICES ASSUME LifeInv, [Next]_vars PROVE LifeInv'
      OBVIOUS
    <2>1. CASE UNCHANGED vars
      BY <2>1, Zenon DEF vars, runtimeVars, connVars, txVars, LifeInv, CallsGood, ConnsGood, TxGood,
                         RestGood
    <2>2. CASE Background
      BY <2>2, WorkerStopsKeeps, RuntimeDropKeeps, DispatchLoopEndsKeeps, StartedKeeps, StepKeeps,
         TransactionsKeep, Zenon DEF Background
    <2>3. CASE Calls
      BY <2>3, StepKeeps, RecordKeeps, BuildKeeps, CloseConnectionKeeps, CloseRpcKeeps,
         CloseRuntimeKeeps, Zenon DEF Calls
    <2>4. CASE User
      BY <2>4, LookupKeeps, DropTransactionKeeps, TransactionsKeep, ForgetKeeps, CloseBeginKeeps,
         DriverDropKeeps, RuntimeDropKeeps, Zenon DEF User
    <2> QED
      BY <2>1, <2>2, <2>3, <2>4 DEF Next
  <1> QED
    BY <1>1, <1>2, PTL DEF Spec

(* The variables of the lifecycle keep their types, a call that works on a   *)
(* connection has one, and the map holds no connection that was not started. *)
THEOREM LifecycleTypeCorrect == Spec => []TypeOK
  <1>1. LifeInv => TypeOK
    <2> SUFFICES ASSUME LifeInv PROVE TypeOK
      OBVIOUS
    <2>1. op \in [Opens -> OpType] /\ \A o \in Opens : op[o].pc \in Owning => op[o].conn \in Conns
      BY DEF LifeInv, CallsGood, GoodOp, RestGood
    <2>2. \A k \in Mapped : rpc[k] # "none"
      BY DEF LifeInv, ConnsGood, Mapped
    <2> QED
      BY <2>1, <2>2 DEF LifeInv, ConnsGood, TxGood, RestGood, TypeOK, OpType, CloserType
  <1> QED
    BY <1>1, LifecycleInvariant, PTL

(* A closed driver opens nothing: a call of transaction() that begins after  *)
(* force_close returned fails, whatever connections it finds or makes.       *)
THEOREM ClosedStaysClosed == Spec => []ClosedOpensNothing
  <1>1. LifeInv => ClosedOpensNothing
    BY DEF LifeInv, CallsGood, GoodOp, ClosedOpensNothing
  <1> QED
    BY <1>1, LifecycleInvariant, PTL

-----------------------------------------------------------------------------
(* What force_close reaches. The first one finds every dispatcher of the map *)
(* at work, and as long as it is alone only it ends them. So it has no       *)
(* connection to stop at, and each of the transactions it has to reach is    *)
(* signalled or is registered with a connection that it has yet to come to.  *)

Working(f) == closer[f].pc \in {"conns", "rpc"}
Sole(f) == \A g \in Closers \ {f} : closer[g].pc = "idle"
Unused == \A f \in Closers : closer[f].pc = "idle"

(* A connection that is being started has one owner.                         *)
StartOK ==
    \A o \in Opens : op[o].pc = "start" =>
      /\ rpc[op[o].conn] = "none"
      /\ \A p \in Opens : op[p].pc \in Owning /\ op[p].conn = op[o].conn => p = o

Fresh ==
    isOpen /\ Unused =>
      /\ \A k \in Mapped : rpc[k] = "running"
      /\ \A o \in Opens : op[o].pc \in Owning \ {"start"} => rpc[op[o].conn] = "running"

Reaching(f) ==
    closer[f].result = "ok" =>
      /\ Working(f) => \A o \in closer[f].reach : signal[o] \/ \E k \in closer[f].todo : o \in senders[k]
      /\ closer[f].pc = "done" => \A o \in closer[f].reach : signal[o]

Unhindered(f) ==
    Working(f) /\ Sole(f) =>
      /\ isOpen /\ closer[f].result = "ok"
      /\ closer[f].todo \subseteq Mapped /\ \A k \in closer[f].todo : rpc[k] = "running"
      /\ closer[f].pc = "rpc" =>
           /\ closer[f].at \in Mapped \ closer[f].todo
           /\ rpc[closer[f].at] = "running"

CloserOK(f) ==
    /\ closer[f].pc = "idle" => closer[f].result = "ok"
    /\ closer[f].result = "err" => ~Sole(f)
    /\ Reaching(f)
    /\ Unhindered(f)

CloseInv ==
    /\ isOpen => worker = "running"
    /\ driver # "held" => NoCloser
    /\ StartOK
    /\ Fresh
    /\ \A f \in Closers : CloserOK(f)

(* Steps that end no dispatcher the connections of the map need, and start   *)
(* none.                                                                     *)
Steady ==
    /\ \A k \in Mapped' : k \in Mapped \/ \E o \in Opens : op[o].pc = "record" /\ op[o].conn = k
    /\ \A k \in Conns : rpc[k] = "none" => rpc'[k] = "none"
    /\ isOpen' /\ Unused' =>
         isOpen /\ Unused /\ \A k \in Conns : Owned(k) /\ rpc[k] = "running" => rpc'[k] = "running"

LEMMA OpsStay ==
  ASSUME LifeInv, CloseInv, Steady,
         \A o \in Opens : op'[o].pc \in Owning =>
           /\ op[o].pc \in Owning /\ op'[o].conn = op[o].conn
           /\ op'[o].pc = "start" <=> op[o].pc = "start"
  PROVE  StartOK' /\ Fresh'
  <1>1. \A o \in Opens : op[o].pc \in Owning => op[o].conn \in Conns /\ Owned(op[o].conn)
    BY DEF LifeInv, CallsGood, GoodOp, Owned
  <1>2. "start" \in Owning
    BY DEF Owning
  <1>3. StartOK'
    <2> SUFFICES ASSUME NEW o \in Opens, op'[o].pc = "start"
                 PROVE  /\ rpc'[op'[o].conn] = "none"
                        /\ \A p \in Opens : op'[p].pc \in Owning /\ op'[p].conn = op'[o].conn => p = o
      BY DEF StartOK
    <2>1. op[o].pc = "start" /\ op'[o].conn = op[o].conn /\ op[o].conn \in Conns
      BY <1>1, <1>2
    <2>2. rpc[op[o].conn] = "none"
      BY <2>1 DEF CloseInv, StartOK
    <2>3. ASSUME NEW p \in Opens, op'[p].pc \in Owning, op'[p].conn = op'[o].conn PROVE p = o
      BY <2>1, <2>3 DEF CloseInv, StartOK
    <2> QED
      BY <2>1, <2>2, <2>3 DEF Steady
  <1>4. Fresh'
    <2> SUFFICES ASSUME isOpen', Unused'
                 PROVE  /\ \A k \in Mapped' : rpc'[k] = "running"
                        /\ \A o \in Opens : op'[o].pc \in Owning \ {"start"} => rpc'[op'[o].conn] = "running"
      BY DEF Fresh
    <2>1. isOpen /\ Unused /\ \A k \in Conns : Owned(k) /\ rpc[k] = "running" => rpc'[k] = "running"
      BY DEF Steady
    <2>2. /\ \A k \in Mapped : rpc[k] = "running"
          /\ \A o \in Opens : op[o].pc \in Owning \ {"start"} => rpc[op[o].conn] = "running"
      BY <2>1 DEF CloseInv, Fresh
    <2>3. \A k \in Mapped : k \in Conns /\ Owned(k)
      BY DEF LifeInv, ConnsGood, Mapped, Owned
    <2>4. \A k \in Mapped' : rpc'[k] = "running"
      <3> SUFFICES ASSUME NEW k \in Mapped' PROVE rpc'[k] = "running"
        OBVIOUS
      <3>1. CASE k \in Mapped
        BY <2>1, <2>2, <2>3, <3>1
      <3>2. CASE \E o \in Opens : op[o].pc = "record" /\ op[o].conn = k
        <4>1. PICK o \in Opens : op[o].pc = "record" /\ op[o].conn = k
          BY <3>2
        <4>2. op[o].pc \in Owning \ {"start"}
          BY <4>1 DEF Owning
        <4> QED
          BY <1>1, <2>1, <2>2, <4>1, <4>2
      <3> QED
        BY <3>1, <3>2 DEF Steady
    <2>5. ASSUME NEW o \in Opens, op'[o].pc \in Owning \ {"start"} PROVE rpc'[op'[o].conn] = "running"
      <3>1. op[o].pc \in Owning \ {"start"} /\ op'[o].conn = op[o].conn
        BY <2>5
      <3> QED
        BY <1>1, <2>1, <2>2, <3>1
    <2> QED
      BY <2>4, <2>5
  <1> QED
    BY <1>3, <1>4

(* The force_close calls when another part of the driver moves.              *)
LEMMA ClosersStay ==
  ASSUME LifeInv, CloseInv, closer' = closer, isOpen' = isOpen \/ NoCloser,
         \A o \in Opens : signal[o] => signal'[o],
         \A k \in Conns : senders[k] \subseteq senders'[k],
         \/ NoCloser
         \/ ~isOpen
         \/ \A k \in Mapped : k \in Mapped' /\ (rpc[k] = "running" => rpc'[k] = "running")
  PROVE  (\A f \in Closers : CloserOK(f)') /\ (NoCloser => NoCloser')
  <1> SUFFICES ASSUME NEW f \in Closers PROVE CloserOK(f)'
    BY DEF NoCloser
  <1>1. CloserOK(f) /\ closer[f].todo \subseteq Conns /\ closer[f].reach \subseteq Opens
    BY DEF CloseInv, LifeInv, RestGood, CloserType
  <1>2. (Working(f)' = Working(f)) /\ (Sole(f)' = Sole(f))
    BY DEF Working, Sole
  <1>3. Reaching(f)'
    BY <1>1, <1>2 DEF CloserOK, Reaching, Working
  <1>4. Unhindered(f)'
    <2> SUFFICES ASSUME Working(f), Sole(f) PROVE Unhindered(f)'
      BY <1>2 DEF Unhindered
    <2>1. ~NoCloser
      BY DEF NoCloser, Working
    <2> QED
      BY <1>1, <2>1 DEF CloserOK, Unhindered
  <1> QED
    BY <1>1, <1>2, <1>3, <1>4 DEF CloserOK

LEMMA MappedStays == UNCHANGED map => Mapped' = Mapped
  BY DEF Mapped

LEMMA GotoMoves ==
  ASSUME LifeInv, NEW o \in Opens, NEW pc, Goto(o, pc)
  PROVE  /\ op'[o].pc = pc
         /\ \A x \in Opens : op'[x].conn = op[x].conn /\ (x # o => op'[x] = op[x])
  <1>1. op = [x \in Opens |-> op[x]] /\ op[o] \in OpType
    BY DEF LifeInv, CallsGood, GoodOp, RestGood
  <1> QED
    BY <1>1 DEF Goto, OpType

(* The steps of calls and of transactions, which only go on.                 *)
LEMMA StepsClose ==
  ASSUME LifeInv, CloseInv, NEW o \in Opens,
         \/ StartPanics(o) \/ Check(o) \/ Send(o) \/ Dispatch(o) \/ Reply(o) \/ Build(o) \/ Push(o)
         \/ StartWorkers(o) \/ StreamEnds(o) \/ CallbacksReturn(o) \/ DispatcherEnds(o)
         \/ DropTransaction(o)
  PROVE  CloseInv'
  <1>1. UNCHANGED <<isOpen, worker, map, rpc, closer, driver>>
    BY Zenon DEF StartPanics, Check, Send, Dispatch, Reply, Build, Push, StartWorkers, StreamEnds,
       CallbacksReturn, DispatcherEnds, DropTransaction, runtimeVars, connVars, txVars
  <1>2. \A k \in Conns : senders[k] \subseteq senders'[k]
    <2>1. CASE Push(o)
      BY <2>1 DEF Push, LifeInv, ConnsGood
    <2>2. CASE ~Push(o)
      <3>1. UNCHANGED senders
        BY <2>2, Zenon DEF StartPanics, Check, Send, Dispatch, Reply, Build, StartWorkers, StreamEnds,
           CallbacksReturn, DispatcherEnds, DropTransaction, connVars
      <3> QED
        BY <3>1
    <2> QED
      BY <2>1, <2>2
  <1>3. \A x \in Opens : signal[x] => signal'[x]
    <2>1. CASE UNCHANGED signal
      BY <2>1
    <2>2. CASE signal' = [signal EXCEPT ![o] = TRUE]
      BY <2>2 DEF LifeInv, TxGood
    <2>3. CASE signal' = [signal EXCEPT ![o] = @ \/ txOpen[o]]
      BY <2>3 DEF LifeInv, TxGood
    <2> QED
      BY <2>1, <2>2, <2>3, Zenon DEF StartPanics, Check, Send, Dispatch, Reply, Build, Push, StartWorkers,
         StreamEnds, CallbacksReturn, DispatcherEnds, DropTransaction, SubmitClose, Signals, txVars
  <1>4. \A x \in Opens : op'[x].pc \in Owning =>
           /\ op[x].pc \in Owning /\ op'[x].conn = op[x].conn
           /\ op'[x].pc = "start" <=> op[x].pc = "start"
    <2>1. CASE UNCHANGED op
      BY <2>1
    <2>2. CASE /\ op[o].pc \in Owning \ {"start"}
               /\ \E pc \in {"send", "err", "queued", "sent", "record", "built", "push", "open"} : Goto(o, pc)
      <3>1. PICK pc \in {"send", "err", "queued", "sent", "record", "built", "push", "open"} : Goto(o, pc)
        BY <2>2
      <3> QED
        BY <2>2, <3>1, GotoMoves
    <2>3. CASE Goto(o, "panicked") \/ Goto(o, "dropped")
      <3>1. "panicked" \notin Owning /\ "dropped" \notin Owning
        BY DEF Owning
      <3> QED
        BY <2>3, <3>1, GotoMoves
    <2>4. CASE Check(o) \/ Send(o) \/ Dispatch(o) \/ Reply(o) \/ Build(o) \/ Push(o)
      <3>1. op[o].pc \in {"check", "send", "queued", "sent", "built", "push"}
        BY <2>4 DEF Check, Send, Dispatch, Reply, Build, Push
      <3>2. \E pc \in {"send", "err", "queued", "sent", "record", "built", "push", "open"} : Goto(o, pc)
        BY <2>4 DEF Check, Send, Dispatch, Reply, Build, Push
      <3> QED
        BY <2>2, <3>1, <3>2 DEF Owning
    <2> QED
      BY <2>1, <2>3, <2>4, Zenon DEF StartPanics, StartWorkers, StreamEnds, CallbacksReturn,
         DispatcherEnds, DropTransaction
  <1>5. Mapped' = Mapped /\ Unused' = Unused
    BY <1>1, MappedStays DEF Unused
  <1>6. Steady
    BY <1>1, <1>5 DEF Steady
  <1>7. StartOK' /\ Fresh'
    BY <1>4, <1>6, OpsStay
  <1>8. (\A f \in Closers : CloserOK(f)') /\ (NoCloser => NoCloser')
    BY <1>1, <1>2, <1>3, <1>5, ClosersStay
  <1> QED
    BY <1>1, <1>7, <1>8 DEF CloseInv

-----------------------------------------------------------------------------
(* The other steps of calls and connections.                                 *)

LEMMA LookupClose ==
  ASSUME LifeInv, CloseInv, NEW o \in Opens, NEW s \in Servers, Lookup(o, s)
  PROVE  CloseInv'
  <1>1. UNCHANGED <<isOpen, worker, map, rpc, senders, signal, closer, driver>>
    BY Zenon DEF Lookup, runtimeVars, connVars, txVars
  <1>2. Mapped' = Mapped /\ Unused' = Unused
    BY <1>1, MappedStays DEF Unused
  <1>3. (\A f \in Closers : CloserOK(f)') /\ (NoCloser => NoCloser')
    BY <1>1, <1>2, ClosersStay
  <1>4. PICK k \in Conns :
          /\ \A x \in Opens \ {o} : op'[x] = op[x]
          /\ op'[o].conn = k
          /\ \/ op'[o].pc = "check" /\ k \in Mapped
             \/ op'[o].pc = "start" /\ rpc[k] = "none" /\ ~Owned(k)
    <2>1. CASE map[s] # None
      <3> DEFINE p == [NoOp EXCEPT !.pc = "check", !.server = s, !.conn = map[s], !.late = AllClosed]
      <3>1. op' = [op EXCEPT ![o] = p]
        BY <2>1 DEF Lookup
      <3>2. p.pc = "check" /\ p.conn = map[s]
        BY DEF NoOp
      <3>3. map[s] \in Mapped /\ map[s] \in Conns
        BY <2>1 DEF Mapped, LifeInv, ConnsGood
      <3> HIDE DEF p
      <3> QED
        BY <3>1, <3>2, <3>3 DEF LifeInv, CallsGood
    <2>2. CASE map[s] = None
      <3>1. PICK k \in Conns :
              /\ rpc[k] = "none" /\ ~Owned(k)
              /\ op' = [op EXCEPT ![o] = [NoOp EXCEPT !.pc = "start", !.server = s, !.conn = k,
                                                      !.what = "connect", !.late = AllClosed]]
        BY <2>2, Zenon DEF Lookup
      <3> DEFINE p == [NoOp EXCEPT !.pc = "start", !.server = s, !.conn = k, !.what = "connect",
                                   !.late = AllClosed]
      <3>2. p.pc = "start" /\ p.conn = k
        BY DEF NoOp
      <3>3. op' = [op EXCEPT ![o] = p]
        BY <3>1
      <3> HIDE DEF p
      <3> QED
        BY <3>1, <3>2, <3>3 DEF LifeInv, CallsGood
    <2> QED
      BY <2>1, <2>2
  <1>5. \A x \in Opens : op[x].pc \in Owning => Owned(op[x].conn) /\ op[x].conn \in Conns
    BY DEF Owned, LifeInv, CallsGood, GoodOp
  <1>6. \A m \in Mapped : rpc[m] # "none"
    BY DEF Mapped, LifeInv, ConnsGood
  <1>7. "start" \in Owning
    BY DEF Owning
  <1>8. StartOK'
    <2> SUFFICES ASSUME NEW x \in Opens, op'[x].pc = "start"
                 PROVE  /\ rpc[op'[x].conn] = "none"
                        /\ \A y \in Opens : op'[y].pc \in Owning /\ op'[y].conn = op'[x].conn => y = x
      BY <1>1 DEF StartOK
    <2>1. CASE x = o
      <3>1. rpc[k] = "none" /\ ~Owned(k)
        BY <1>4, <2>1
      <3>2. ASSUME NEW y \in Opens, op'[y].pc \in Owning, op'[y].conn = k PROVE y = o
        BY <1>4, <1>5, <3>1, <3>2
      <3> QED
        BY <1>4, <2>1, <3>1, <3>2
    <2>2. CASE x # o
      <3>1. op'[x] = op[x] /\ op[x].pc \in Owning /\ rpc[op[x].conn] = "none"
        BY <1>4, <1>7, <2>2 DEF CloseInv, StartOK
      <3>2. op'[o].conn # op[x].conn
        BY <1>4, <1>5, <1>6, <3>1
      <3>3. ASSUME NEW y \in Opens, op'[y].pc \in Owning, op'[y].conn = op'[x].conn PROVE y = x
        <4>1. y # o /\ op'[y] = op[y]
          BY <1>4, <3>1, <3>2, <3>3
        <4> QED
          BY <2>2, <3>1, <3>3, <4>1 DEF CloseInv, StartOK
      <3> QED
        BY <3>1, <3>3
    <2> QED
      BY <2>1, <2>2
  <1>9. Fresh'
    <2> SUFFICES ASSUME isOpen, Unused
                 PROVE  /\ \A m \in Mapped : rpc[m] = "running"
                        /\ \A x \in Opens : op'[x].pc \in Owning \ {"start"} => rpc[op'[x].conn] = "running"
      BY <1>1, <1>2 DEF Fresh
    <2>1. /\ \A m \in Mapped : rpc[m] = "running"
          /\ \A x \in Opens : op[x].pc \in Owning \ {"start"} => rpc[op[x].conn] = "running"
      BY DEF CloseInv, Fresh
    <2>2. ASSUME NEW x \in Opens, op'[x].pc \in Owning \ {"start"} PROVE rpc[op'[x].conn] = "running"
      BY <1>4, <2>1, <2>2
    <2> QED
      BY <2>1, <2>2
  <1> QED
    BY <1>1, <1>3, <1>8, <1>9 DEF CloseInv

LEMMA StartedClose ==
  ASSUME LifeInv, CloseInv, NEW o \in Opens, Started(o)
  PROVE  CloseInv'
  <1>1. /\ UNCHANGED <<isOpen, worker, map, senders, signal, closer, driver>>
        /\ op[o].pc = "start"
    BY Zenon DEF Started, runtimeVars, txVars
  <1>2. PICK pc \in {"send", "err"} :
          /\ Goto(o, pc)
          /\ rpc' = [rpc EXCEPT ![op[o].conn] = IF pc = "send" THEN "running" ELSE "ended"]
    BY DEF Started
  <1>3. /\ op[o].conn \in Conns /\ rpc[op[o].conn] = "none"
        /\ \A x \in Opens : op[x].pc \in Owning /\ op[x].conn = op[o].conn => x = o
    BY <1>1 DEF CloseInv, StartOK, LifeInv, CallsGood, GoodOp, Owning
  <1>4. /\ \A m \in Conns : m # op[o].conn => rpc'[m] = rpc[m]
        /\ pc = "send" => rpc'[op[o].conn] = "running"
    BY <1>2, <1>3 DEF LifeInv, ConnsGood
  <1>5. \A m \in Mapped : m \in Conns /\ m # op[o].conn
    BY <1>3 DEF Mapped, LifeInv, ConnsGood
  <1>6. Mapped' = Mapped /\ Unused' = Unused
    BY <1>1, MappedStays DEF Unused
  <1>7. (\A f \in Closers : CloserOK(f)') /\ (NoCloser => NoCloser')
    BY <1>1, <1>4, <1>5, <1>6, ClosersStay
  <1>8. /\ op'[o].pc = pc
        /\ \A x \in Opens : op'[x].conn = op[x].conn /\ (x # o => op'[x] = op[x])
    BY <1>2, GotoMoves
  <1>9. \A x \in Opens : op'[x].pc \in Owning => op[x].pc \in Owning /\ op[x].conn \in Conns
    BY <1>1, <1>3, <1>8 DEF LifeInv, CallsGood, GoodOp, Owning
  <1>10. StartOK'
    <2> SUFFICES ASSUME NEW x \in Opens, op'[x].pc = "start"
                 PROVE  /\ rpc'[op'[x].conn] = "none"
                        /\ \A y \in Opens : op'[y].pc \in Owning /\ op'[y].conn = op'[x].conn => y = x
      BY DEF StartOK
    <2>1. x # o /\ op[x].pc = "start"
      BY <1>8
    <2>2. op[x].conn # op[o].conn /\ op[x].conn \in Conns
      BY <1>3, <2>1 DEF LifeInv, CallsGood, GoodOp, Owning
    <2>3. ASSUME NEW y \in Opens, op'[y].pc \in Owning, op'[y].conn = op'[x].conn PROVE y = x
      BY <1>8, <1>9, <2>1, <2>3 DEF CloseInv, StartOK
    <2>4. rpc[op[x].conn] = "none"
      BY <2>1 DEF CloseInv, StartOK
    <2> QED
      BY <1>4, <1>8, <2>2, <2>3, <2>4
  <1>11. Fresh'
    <2> SUFFICES ASSUME isOpen, Unused
                 PROVE  /\ \A m \in Mapped : rpc'[m] = "running"
                        /\ \A x \in Opens : op'[x].pc \in Owning \ {"start"} => rpc'[op'[x].conn] = "running"
      BY <1>1, <1>6 DEF Fresh
    <2>1. /\ \A m \in Mapped : rpc[m] = "running"
          /\ \A x \in Opens : op[x].pc \in Owning \ {"start"} => rpc[op[x].conn] = "running"
      BY DEF CloseInv, Fresh
    <2>2. ASSUME NEW x \in Opens, op'[x].pc \in Owning \ {"start"} PROVE rpc'[op'[x].conn] = "running"
      <3>1. CASE x = o
        <4>1. pc = "send"
          BY <1>8, <2>2, <3>1 DEF Owning
        <4> QED
          BY <1>4, <1>8, <3>1, <4>1
      <3>2. CASE x # o
        <4>1. op[x].pc \in Owning \ {"start"} /\ op[x].conn \in Conns /\ op[x].conn # op[o].conn
          BY <1>3, <1>8, <1>9, <2>2, <3>2
        <4> QED
          BY <1>4, <1>8, <2>1, <4>1
      <3> QED
        BY <3>1, <3>2
    <2> QED
      BY <1>4, <1>5, <2>1, <2>2
  <1> QED
    BY <1>1, <1>7, <1>10, <1>11 DEF CloseInv

LEMMA MapFree == LifeInv /\ ~MapLocked => NoCloser
  BY DEF MapLocked, NoCloser, LifeInv, RestGood, CloserType

LEMMA RecordClose ==
  ASSUME LifeInv, CloseInv, NEW o \in Opens, Record(o)
  PROVE  CloseInv'
  <1>1. /\ UNCHANGED <<isOpen, worker, rpc, senders, signal, closer, driver>>
        /\ op[o].pc = "record" /\ NoCloser
        /\ map' = [map EXCEPT ![op[o].server] = op[o].conn]
    BY MapFree DEF Record, runtimeVars, txVars
  <1>2. \A m \in Mapped' : m \in Mapped \/ m = op[o].conn
    BY <1>1 DEF Mapped, LifeInv, ConnsGood
  <1>3. Unused' = Unused
    BY <1>1 DEF Unused
  <1>4. Steady
    BY <1>1, <1>2, <1>3 DEF Steady
  <1>5. \A x \in Opens : op'[x].pc \in Owning =>
           /\ op[x].pc \in Owning /\ op'[x].conn = op[x].conn
           /\ op'[x].pc = "start" <=> op[x].pc = "start"
    <2> DEFINE p == [op[o] EXCEPT !.pc = "check", !.what = "open"]
    <2>1. op' = [op EXCEPT ![o] = p]
      BY DEF Record, LifeInv, RestGood
    <2>2. p.pc = "check" /\ p.conn = op[o].conn
      BY DEF LifeInv, CallsGood, GoodOp, OpType
    <2> HIDE DEF p
    <2>3. op[o].pc \in Owning
      BY <1>1 DEF Owning
    <2>4. op'[o] = p /\ \A x \in Opens : x # o => op'[x] = op[x]
      BY <2>1 DEF LifeInv, CallsGood
    <2> QED
      BY <1>1, <2>2, <2>3, <2>4
  <1>6. StartOK' /\ Fresh'
    BY <1>4, <1>5, OpsStay
  <1>7. (\A f \in Closers : CloserOK(f)') /\ (NoCloser => NoCloser')
    BY <1>1, ClosersStay
  <1> QED
    BY <1>1, <1>6, <1>7 DEF CloseInv

(* Steps that move no call and leave the connections of the map at work.     *)
LEMMA QuietClose ==
  ASSUME LifeInv, CloseInv, UNCHANGED op, Steady,
         isOpen' => worker' = "running",
         (driver' # "held" => NoCloser') /\ (\A f \in Closers : CloserOK(f)')
  PROVE  CloseInv'
  <1>1. StartOK' /\ Fresh'
    BY OpsStay
  <1> QED
    BY <1>1 DEF CloseInv

LEMMA ForgetClose ==
  ASSUME LifeInv, CloseInv, (\E s \in Servers : Forget(s)) \/ DriverDrop
  PROVE  CloseInv'
  <1>1. /\ UNCHANGED <<isOpen, worker, rpc, senders, signal, op, closer>>
        /\ NoCloser
        /\ \A m \in Mapped' : m \in Mapped
    <2>1. CASE DriverDrop
      BY <2>1 DEF DriverDrop, runtimeVars, txVars, Mapped
    <2>2. CASE \E s \in Servers : Forget(s)
      BY <2>2, MapFree DEF Forget, runtimeVars, txVars, Mapped, LifeInv, ConnsGood
    <2> QED
      BY <2>1, <2>2
  <1>2. Steady
    BY <1>1 DEF Steady, Unused
  <1>3. (\A f \in Closers : CloserOK(f)') /\ NoCloser'
    BY <1>1, ClosersStay
  <1> QED
    BY <1>1, <1>2, <1>3, QuietClose DEF CloseInv

-----------------------------------------------------------------------------
(* Forced close. A step of one call leaves no other one alone.               *)

LEMMA OthersClose ==
  ASSUME LifeInv, CloseInv, NEW f \in Closers, closer'[f].pc # "idle",
         \A g \in Closers \ {f} : closer'[g] = closer[g],
         \A g \in Closers \ {f} : Reaching(g)',
         closer'[f].result = "err" => ~Sole(f)', Reaching(f)', Unhindered(f)'
  PROVE  \A g \in Closers : CloserOK(g)'
  <1> SUFFICES ASSUME NEW g \in Closers PROVE CloserOK(g)'
    OBVIOUS
  <1>1. CASE g = f
    BY <1>1 DEF CloserOK
  <1>2. CASE g # f
    <2>1. ~Sole(g)'
      BY <1>2 DEF Sole
    <2>2. closer'[g] = closer[g] /\ CloserOK(g)
      BY <1>2 DEF CloseInv
    <2> QED
      BY <1>2, <2>1, <2>2 DEF CloserOK, Unhindered
  <1> QED
    BY <1>1, <1>2

LEMMA CloseBeginClose ==
  ASSUME LifeInv, CloseInv, NEW f \in Closers, CloseBegin(f)
  PROVE  CloseInv'
  <1>1. /\ UNCHANGED <<isOpen, worker, map, rpc, senders, op, signal, driver>>
        /\ driver = "held" /\ closer[f].pc = "idle"
    BY DEF CloseBegin, runtimeVars, connVars, txVars
  <1> DEFINE c == IF ~isOpen THEN [NoClose EXCEPT !.pc = "done"]
                  ELSE [pc |-> "conns", todo |-> Mapped, at |-> None, result |-> "ok",
                        reach |-> UNION {senders[k] : k \in Mapped}]
  <1>2. closer' = [closer EXCEPT ![f] = c]
    BY DEF CloseBegin
  <1>3. /\ c.result = "ok"
        /\ ~isOpen => c.pc = "done" /\ c.reach = {}
        /\ isOpen => c.pc = "conns" /\ c.todo = Mapped /\ c.reach = UNION {senders[k] : k \in Mapped}
    BY DEF NoClose
  <1> HIDE DEF c
  <1>4. closer'[f] = c /\ \A g \in Closers \ {f} : closer'[g] = closer[g]
    BY <1>2 DEF LifeInv, RestGood
  <1>5. Mapped' = Mapped
    BY <1>1, MappedStays
  <1>6. c.pc # "idle"
    BY <1>3
  <1>7. Steady
    <2>1. ~Unused'
      BY <1>4, <1>6 DEF Unused
    <2> QED
      BY <1>1, <1>5, <2>1 DEF Steady
  <1>8. \A g \in Closers \ {f} : Reaching(g)'
    BY <1>1, <1>4 DEF CloseInv, CloserOK, Reaching, Working
  <1>9. Reaching(f)'
    BY <1>1, <1>3, <1>4 DEF Reaching, Working
  <1>10. Unhindered(f)'
    <2> SUFFICES ASSUME Working(f)', Sole(f)' PROVE Unhindered(f)'
      BY DEF Unhindered
    <2>1. isOpen /\ Unused
      BY <1>1, <1>3, <1>4 DEF Working, Sole, Unused
    <2>2. \A k \in Mapped : rpc[k] = "running"
      BY <2>1 DEF CloseInv, Fresh
    <2> QED
      BY <1>1, <1>3, <1>4, <1>5, <2>1, <2>2 DEF Unhindered
  <1>11. \A g \in Closers : CloserOK(g)'
    BY <1>3, <1>4, <1>6, <1>8, <1>9, <1>10, OthersClose
  <1> QED
    BY <1>1, <1>7, <1>11, QuietClose DEF CloseInv

LEMMA CloseConnectionClose ==
  ASSUME LifeInv, CloseInv, NEW f \in Closers, CloseConnection(f)
  PROVE  CloseInv'
  <1>1. /\ UNCHANGED <<isOpen, worker, map, rpc, op, driver>>
        /\ closer[f].pc = "conns" /\ closer[f].todo # {}
    BY DEF CloseConnection, runtimeVars
  <1>2. PICK k \in closer[f].todo :
          /\ signal' = [o \in Opens |-> signal[o] \/ o \in senders[k]]
          /\ senders' = [senders EXCEPT ![k] = {}]
          /\ closer' = [closer EXCEPT ![f].pc = "rpc", ![f].at = k, ![f].todo = @ \ {k}]
    <2>1. (CHOOSE c \in closer[f].todo : TRUE) \in closer[f].todo
      BY <1>1
    <2> QED
      BY <2>1 DEF CloseConnection, Drained
  <1>3. /\ closer'[f].pc = "rpc" /\ closer'[f].at = k /\ closer'[f].todo = closer[f].todo \ {k}
        /\ closer'[f].result = closer[f].result /\ closer'[f].reach = closer[f].reach
        /\ \A g \in Closers \ {f} : closer'[g] = closer[g]
    BY <1>2 DEF LifeInv, RestGood, CloserType
  <1>4. \A g \in Closers : closer[g].todo \subseteq Conns /\ closer[g].reach \subseteq Opens
    BY DEF LifeInv, RestGood, CloserType
  <1>5. /\ \A o \in Opens : signal[o] \/ o \in senders[k] => signal'[o]
        /\ \A m \in Conns : m # k => senders'[m] = senders[m]
    BY <1>2, <1>4 DEF LifeInv, ConnsGood
  <1>6. Mapped' = Mapped
    BY <1>1, MappedStays
  <1>7. Steady
    <2>1. ~Unused'
      BY <1>3 DEF Unused
    <2> QED
      BY <1>1, <1>6, <2>1 DEF Steady
  <1>8. \A g \in Closers \ {f} : Reaching(g)'
    <2> SUFFICES ASSUME NEW g \in Closers \ {f} PROVE Reaching(g)'
      OBVIOUS
    <2>1. Reaching(g) /\ closer'[g] = closer[g]
      BY <1>3 DEF CloseInv, CloserOK
    <2> QED
      BY <1>4, <1>5, <2>1 DEF Reaching, Working
  <1>9. Reaching(f)'
    <2>1. Reaching(f) /\ Working(f)
      BY <1>1 DEF CloseInv, CloserOK, Working
    <2> QED
      BY <1>3, <1>4, <1>5, <2>1 DEF Reaching, Working
  <1>10. (Sole(f)' => Sole(f)) /\ Working(f) /\ (~Sole(f) => ~Sole(f)')
    BY <1>1, <1>3 DEF Sole, Working
  <1>11. Unhindered(f)'
    <2>1. Unhindered(f)
      BY DEF CloseInv, CloserOK
    <2> QED
      BY <1>1, <1>3, <1>6, <1>10, <2>1 DEF Unhindered
  <1>12. closer'[f].result = "err" => ~Sole(f)'
    BY <1>3, <1>10 DEF CloseInv, CloserOK
  <1>13. \A g \in Closers : CloserOK(g)'
    BY <1>3, <1>8, <1>9, <1>11, <1>12, OthersClose
  <1>14. driver = "held"
    BY <1>1 DEF CloseInv, NoCloser
  <1> QED
    BY <1>1, <1>7, <1>13, <1>14, QuietClose DEF CloseInv

LEMMA CloseRpcClose ==
  ASSUME LifeInv, CloseInv, NEW f \in Closers, CloseRpc(f)
  PROVE  CloseInv'
  <1> DEFINE k == closer[f].at
  <1>1. /\ UNCHANGED <<isOpen, worker, map, senders, op, signal, driver>>
        /\ closer[f].pc = "rpc"
        /\ rpc' = [rpc EXCEPT ![k] = IF @ = "running" THEN "signalled" ELSE @]
    BY DEF CloseRpc, runtimeVars, txVars
  <1>2. \A m \in Conns : (rpc[m] = "none" => rpc'[m] = "none") /\ (m # k => rpc'[m] = rpc[m])
    BY <1>1 DEF LifeInv, ConnsGood
  <1>3. /\ \A g \in Closers \ {f} : closer'[g] = closer[g]
        /\ closer'[f].pc = "conns" /\ closer'[f].reach = closer[f].reach
        /\ \/ rpc[k] = "ended" /\ closer'[f].result = "err"
           \/ /\ rpc[k] # "ended"
              /\ closer'[f].result = closer[f].result /\ closer'[f].todo = closer[f].todo
    <2>1. CASE StopsAt(k)
      <3>1. closer' = [closer EXCEPT ![f] = [@ EXCEPT !.pc = "conns", !.todo = {}, !.result = "err"]]
        BY <2>1 DEF CloseRpc
      <3> DEFINE c == [closer[f] EXCEPT !.pc = "conns", !.todo = {}, !.result = "err"]
      <3>2. c.pc = "conns" /\ c.reach = closer[f].reach /\ c.result = "err"
        BY DEF LifeInv, RestGood, CloserType
      <3>3. closer' = [closer EXCEPT ![f] = c]
        BY <2>1 DEF CloseRpc
      <3> HIDE DEF c
      <3> QED
        BY <2>1, <3>2, <3>3 DEF LifeInv, RestGood, StopsAt
    <2>2. CASE ~StopsAt(k)
      <3> DEFINE c == [closer[f] EXCEPT !.pc = "conns"]
      <3>1. c.pc = "conns" /\ c.reach = closer[f].reach /\ c.result = closer[f].result /\ c.todo = closer[f].todo
        BY DEF LifeInv, RestGood, CloserType
      <3>2. closer' = [closer EXCEPT ![f] = c]
        BY <2>2 DEF CloseRpc
      <3> HIDE DEF c
      <3> QED
        BY <2>2, <3>1, <3>2 DEF LifeInv, RestGood, StopsAt
    <2> QED
      BY <2>1, <2>2
  <1>4. Mapped' = Mapped
    BY <1>1, MappedStays
  <1>5. Steady
    <2>1. ~Unused'
      BY <1>3 DEF Unused
    <2> QED
      BY <1>1, <1>2, <1>4, <2>1 DEF Steady
  <1>6. \A g \in Closers : Reaching(g) /\ Unhindered(g)
    BY DEF CloseInv, CloserOK
  <1>7. \A g \in Closers \ {f} : Reaching(g)'
    BY <1>1, <1>3, <1>6 DEF Reaching, Working
  <1>8. Reaching(f)'
    BY <1>1, <1>3, <1>6 DEF Reaching, Working
  <1>9. Working(f) /\ (Sole(f)' => Sole(f)) /\ (~Sole(f) => ~Sole(f)')
    BY <1>1, <1>3 DEF Sole, Working
  <1>10. Sole(f) => rpc[k] = "running" /\ k \notin closer[f].todo
    BY <1>1, <1>6, <1>9 DEF Unhindered
  <1>11. Unhindered(f)'
    <2> SUFFICES ASSUME Sole(f)' PROVE Unhindered(f)'
      BY DEF Unhindered
    <2>1. /\ isOpen /\ closer[f].result = "ok"
          /\ closer[f].todo \subseteq Mapped /\ \A m \in closer[f].todo : rpc[m] = "running"
      BY <1>6, <1>9 DEF Unhindered
    <2>2. closer[f].todo \subseteq Conns
      BY DEF LifeInv, RestGood, CloserType
    <2>3. closer'[f].result = "ok" /\ closer'[f].todo = closer[f].todo
      BY <1>3, <1>9, <1>10, <2>1
    <2>4. \A m \in closer[f].todo : rpc'[m] = "running"
      BY <1>2, <1>9, <1>10, <2>1, <2>2
    <2> QED
      BY <1>1, <1>3, <1>4, <2>1, <2>3, <2>4 DEF Unhindered
  <1>12. closer'[f].result = "err" => ~Sole(f)'
    BY <1>3, <1>9, <1>10 DEF CloseInv, CloserOK
  <1>13. \A g \in Closers : CloserOK(g)'
    BY <1>3, <1>7, <1>8, <1>11, <1>12, OthersClose
  <1>14. driver = "held"
    BY <1>1 DEF CloseInv, NoCloser
  <1> QED
    BY <1>1, <1>5, <1>13, <1>14, QuietClose DEF CloseInv

LEMMA CloseRuntimeClose ==
  ASSUME LifeInv, CloseInv, NEW f \in Closers, CloseRuntime(f)
  PROVE  CloseInv'
  <1>1. /\ UNCHANGED <<map, rpc, senders, op, signal, driver>>
        /\ closer[f].pc = "conns" /\ closer[f].todo = {} /\ isOpen' = FALSE
    BY DEF CloseRuntime, connVars, txVars
  <1> DEFINE r == IF Polled THEN closer[f].result ELSE "err"
  <1>2. closer' = [closer EXCEPT ![f].pc = "done", ![f].result = r]
    BY DEF CloseRuntime, LifeInv, RestGood
  <1>3. r = closer[f].result \/ (r = "err" /\ worker = "stopped")
    BY DEF Polled
  <1> HIDE DEF r
  <1>4. /\ \A g \in Closers \ {f} : closer'[g] = closer[g]
        /\ closer'[f].pc = "done" /\ closer'[f].reach = closer[f].reach
        /\ closer'[f].result = r
    BY <1>2 DEF LifeInv, RestGood, CloserType
  <1>5. Steady
    BY <1>1, MappedStays DEF Steady
  <1>6. \A g \in Closers : Reaching(g) /\ Unhindered(g)
    BY DEF CloseInv, CloserOK
  <1>7. \A g \in Closers \ {f} : Reaching(g)'
    BY <1>1, <1>4, <1>6 DEF Reaching, Working
  <1>8. Reaching(f)'
    BY <1>1, <1>3, <1>4, <1>6 DEF Reaching, Working
  <1>9. Unhindered(f)'
    BY <1>4 DEF Unhindered, Working
  <1>10. Working(f) /\ (Sole(f)' => Sole(f))
    BY <1>1, <1>4 DEF Sole, Working
  <1>11. r = "err" => ~Sole(f)
    <2>1. Sole(f) => isOpen /\ closer[f].result = "ok"
      BY <1>6, <1>10 DEF Unhindered
    <2>2. isOpen => worker = "running"
      BY DEF CloseInv
    <2> QED
      BY <1>3, <2>1, <2>2
  <1>12. \A g \in Closers : CloserOK(g)'
    BY <1>4, <1>7, <1>8, <1>9, <1>10, <1>11, OthersClose
  <1>13. driver = "held"
    BY <1>1 DEF CloseInv, NoCloser
  <1> QED
    BY <1>1, <1>5, <1>12, <1>13, QuietClose

-----------------------------------------------------------------------------
(* The runtime.                                                              *)

(* Calls whose request is lost own nothing any more.                         *)
LEMMA LostClose ==
  ASSUME NEW Lost \in SUBSET Opens, LifeInv,
         op' = [o \in Opens |-> IF o \in Lost THEN [op[o] EXCEPT !.pc = "err"] ELSE op[o]],
         NEW o \in Opens, op'[o].pc \in Owning
  PROVE  op'[o] = op[o]
  <1>1. ASSUME o \in Lost PROVE FALSE
    <2> DEFINE p == [op[o] EXCEPT !.pc = "err"]
    <2>1. op'[o] = p
      BY <1>1
    <2>2. p.pc = "err"
      BY DEF LifeInv, CallsGood, GoodOp, OpType
    <2> HIDE DEF p
    <2> QED
      BY <2>1, <2>2 DEF Owning
  <1> QED
    BY <1>1

LEMMA DispatchLoopEndsClose ==
  ASSUME LifeInv, CloseInv, NEW k \in Conns, DispatchLoopEnds(k)
  PROVE  CloseInv'
  <1>1. /\ UNCHANGED <<isOpen, worker, map, senders, signal, closer, driver>>
        /\ rpc[k] = "signalled" \/ (rpc[k] = "running" /\ ~Owned(k))
        /\ rpc' = [rpc EXCEPT ![k] = "ended"]
        /\ op' = [o \in Opens |-> IF o \in Unsent(k) THEN [op[o] EXCEPT !.pc = "err"] ELSE op[o]]
    BY DEF DispatchLoopEnds, runtimeVars, txVars
  <1>2. \A m \in Conns : /\ rpc[m] = "none" => rpc'[m] = "none"
                         /\ Owned(m) /\ rpc[m] = "running" => rpc'[m] = "running"
    BY <1>1 DEF LifeInv, ConnsGood
  <1>3. Mapped' = Mapped /\ Unused' = Unused
    BY <1>1, MappedStays DEF Unused
  <1>4. Steady
    BY <1>1, <1>2, <1>3 DEF Steady
  <1>5. \A o \in Opens : op'[o].pc \in Owning => op'[o] = op[o]
    BY <1>1, LostClose DEF Unsent
  <1>6. StartOK' /\ Fresh'
    BY <1>4, <1>5, OpsStay
  <1>7. \A m \in Mapped : m \in Conns /\ Owned(m)
    BY DEF Mapped, Owned, LifeInv, ConnsGood
  <1>8. (\A f \in Closers : CloserOK(f)') /\ (NoCloser => NoCloser')
    BY <1>1, <1>2, <1>3, <1>7, ClosersStay
  <1> QED
    BY <1>1, <1>6, <1>8 DEF CloseInv

LEMMA WorkerStopsClose ==
  ASSUME LifeInv, CloseInv, WorkerStops
  PROVE  CloseInv'
  <1> DEFINE Lost == {o \in Opens : op[o].pc \in LostWithRuntime}
  <1>1. /\ UNCHANGED <<isOpen, map, senders, signal, closer, driver>> /\ worker = "signalled"
        /\ rpc' = [k \in Conns |-> IF rpc[k] = "none" THEN "none" ELSE "ended"]
        /\ op' = [o \in Opens |-> IF o \in Lost THEN [op[o] EXCEPT !.pc = "err"] ELSE op[o]]
    BY DEF WorkerStops
  <1>2. ~isOpen
    BY <1>1 DEF CloseInv
  <1>3. Steady
    BY <1>1, <1>2, MappedStays DEF Steady
  <1>4. \A o \in Opens : op'[o].pc \in Owning => op'[o] = op[o]
    BY <1>1, LostClose
  <1>5. StartOK' /\ Fresh'
    BY <1>3, <1>4, OpsStay
  <1>6. (\A f \in Closers : CloserOK(f)') /\ (NoCloser => NoCloser')
    BY <1>1, <1>2, ClosersStay
  <1> QED
    BY <1>1, <1>2, <1>5, <1>6 DEF CloseInv

LEMMA RuntimeDropClose ==
  ASSUME LifeInv, CloseInv, RuntimeDrop \/ RuntimeJoined
  PROVE  CloseInv'
  <1>1. /\ UNCHANGED <<map, rpc, senders, signal, op, closer>>
        /\ driver # "held"
        /\ isOpen' = FALSE \/ UNCHANGED <<isOpen, worker>>
    BY DEF RuntimeDrop, RuntimeJoined, runtimeVars, connVars, txVars
  <1>2. NoCloser
    BY <1>1 DEF CloseInv
  <1>3. Steady
    BY <1>1, MappedStays DEF Steady, Unused
  <1>4. (\A f \in Closers : CloserOK(f)') /\ NoCloser'
    BY <1>1, <1>2, ClosersStay
  <1>5. isOpen' => worker' = "running"
    BY <1>1 DEF CloseInv
  <1> QED
    BY <1>1, <1>3, <1>4, <1>5, QuietClose

LEMMA CloseInvariant == Spec => []CloseInv
  <1>1. Init => CloseInv
    <2> SUFFICES ASSUME Init PROVE CloseInv
      OBVIOUS
    <2>1. \A o \in Opens : op[o].pc = "idle"
      BY DEF Init, NoOp
    <2>2. \A f \in Closers : closer[f] = NoClose /\ NoClose.pc = "idle" /\ NoClose.result = "ok"
      BY DEF Init, NoClose
    <2>3. StartOK
      BY <2>1 DEF StartOK
    <2>4. map \in [Servers -> Conns] /\ None \notin Conns
      BY LifecycleConstants DEF Init
    <2>5. Fresh
      <3>1. \A k \in Mapped : rpc[k] = "running"
        BY <2>4 DEF Mapped, Init
      <3>2. \A o \in Opens : op[o].pc \notin Owning
        BY <2>1 DEF Owning
      <3> QED
        BY <3>1, <3>2 DEF Fresh
    <2>6. \A f \in Closers : CloserOK(f)
      BY <2>2 DEF CloserOK, Reaching, Unhindered, Working
    <2> QED
      BY <2>2, <2>3, <2>5, <2>6 DEF CloseInv, Init, NoCloser
  <1>2. LifeInv /\ CloseInv /\ [Next]_vars => CloseInv'
    <2> SUFFICES ASSUME LifeInv, CloseInv, [Next]_vars PROVE CloseInv'
      OBVIOUS
    <2>1. CASE UNCHANGED vars
      <3>1. UNCHANGED <<isOpen, worker, map, rpc, senders, signal, op, closer, driver>>
        BY <2>1 DEF vars, runtimeVars, connVars, txVars
      <3>2. Steady
        BY <3>1, MappedStays DEF Steady, Unused
      <3>3. (\A f \in Closers : CloserOK(f)') /\ (NoCloser => NoCloser')
        BY <3>1, MappedStays, ClosersStay
      <3> QED
        BY <3>1, <3>2, <3>3, QuietClose DEF CloseInv
    <2>2. CASE Background
      BY <2>2, WorkerStopsClose, RuntimeDropClose, DispatchLoopEndsClose, StartedClose, StepsClose,
         Zenon DEF Background
    <2>3. CASE Calls
      BY <2>3, StepsClose, RecordClose, CloseConnectionClose, CloseRpcClose, CloseRuntimeClose,
         Zenon DEF Calls
    <2>4. CASE User
      BY <2>4, LookupClose, StepsClose, ForgetClose, CloseBeginClose, RuntimeDropClose,
         Zenon DEF User
    <2> QED
      BY <2>1, <2>2, <2>3, <2>4 DEF Next
  <1> QED
    BY <1>1, <1>2, LifecycleInvariant, PTL DEF Spec

(* force_close() that returns Ok has signalled every transaction that was    *)
(* registered when it began, and it fails only beside another call of it.    *)
THEOREM CloseDelivers == Spec => []CloseReaches
  <1>1. LifeInv /\ CloseInv => CloseReaches
    <2> SUFFICES ASSUME LifeInv, CloseInv, NEW f \in Closers
                 PROVE  /\ closer[f].pc = "done" /\ closer[f].result = "ok" =>
                             \A o \in closer[f].reach : signal[o]
                        /\ closer[f].result = "err" => \E g \in Closers \ {f} : closer[g].pc # "idle"
      BY DEF CloseReaches
    <2>1. CloserOK(f)
      BY DEF CloseInv
    <2> QED
      BY <2>1 DEF CloserOK, Reaching, Sole
  <1> QED
    BY <1>1, LifecycleInvariant, CloseInvariant, PTL

=============================================================================
