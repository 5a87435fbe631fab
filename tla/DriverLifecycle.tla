-------------------------- MODULE DriverLifecycle --------------------------
(* The life of a driver: connections that are made, recorded, replaced and   *)
(* dropped, transactions that are being opened through them, and the forced  *)
(* close of the driver, of its connections and of the background runtime.    *)
(* A transaction is here its dispatcher thread and its shutdown channel; what *)
(* happens inside is TransactionTransmitter.                                 *)
EXTENDS FiniteSets, Functions

CONSTANTS Servers,   \* addresses of replica_connections
          Conns,     \* ServerConnection objects that may be created
          Opens,     \* calls of driver.transaction()
          Closers,   \* calls of driver.force_close()
          None

ASSUME LifecycleConstants ==
    None \notin Conns /\ \E m \in [Servers -> Conns] : IsInjective(m)

VARIABLES
    isOpen,    \* BackgroundRuntime.is_open
    worker,    \* the gRPC worker thread with the async runtime
    map,       \* replica_connections: map[s] is a connection or None
    rpc,       \* rpc[k]: dispatcher_loop of connection k
    senders,   \* senders[k]: the transactions in shutdown_senders of k
    op,        \* op[o]: locals of a call that opens a transaction
    stream,    \* stream[o]: the dispatcher of the transaction it opened
    listener,  \* listener[o]: its listener task
    txOpen,    \* txOpen[o]: is_open of that transaction
    signal,    \* signal[o]: a shutdown signal was sent to that dispatcher
    closer,    \* closer[f]: locals of a force_close call
    driver     \* the TypeDBDriver: "held", "dropped", its runtime "joining" or "gone"

runtimeVars == <<isOpen, worker>>
connVars == <<map, rpc, senders>>
txVars == <<stream, listener, txOpen, signal>>
vars == <<runtimeVars, connVars, op, txVars, closer, driver>>

NoOp == [pc |-> "idle", server |-> None, conn |-> None, what |-> "open", late |-> FALSE]
NoClose == [pc |-> "idle", todo |-> {}, at |-> None, result |-> "ok", reach |-> {}]

(* TypeDBDriver::new() returned: every server has its connection.            *)
Init ==
    /\ isOpen = TRUE
    /\ worker = "running"
    /\ map = CHOOSE m \in [Servers -> Conns] : IsInjective(m)
    /\ rpc = [k \in Conns |-> IF k \in {map[s] : s \in Servers} THEN "running" ELSE "none"]
    /\ senders = [k \in Conns |-> {}]
    /\ op = [o \in Opens |-> NoOp]
    /\ stream = [o \in Opens |-> "none"]
    /\ listener = [o \in Opens |-> "none"]
    /\ txOpen = [o \in Opens |-> TRUE]
    /\ signal = [o \in Opens |-> FALSE]
    /\ closer = [f \in Closers |-> NoClose]
    /\ driver = "held"

-----------------------------------------------------------------------------
Goto(o, pc) == op' = [op EXCEPT ![o].pc = pc]
Mapped == {map[s] : s \in Servers} \ {None}
Polled == worker # "stopped"      \* tasks of the runtime are still polled

(* Pcs in which a call owns a clone of its connection.                       *)
Owning == {"start", "send", "queued", "sent", "record", "check", "built", "push"}
Owned(k) == k \in Mapped \/ \E o \in Opens : op[o].conn = k /\ op[o].pc \in Owning
Returned == {"open", "dropped", "err", "panicked"}
Active(o) == op[o].pc \notin {"idle"} \cup Returned

(* force_close of the server manager holds the read lock of the map.         *)
MapLocked == \E f \in Closers : closer[f].pc \in {"conns", "rpc"}
NoCloser == \A f \in Closers : closer[f].pc \in {"idle", "done"}
AllClosed == ~isOpen /\ NoCloser

-----------------------------------------------------------------------------
(* Opening a transaction: execute_on() and open_transaction().               *)

(* The connection of the map, or a new one on an unused object.              *)
Lookup(o, s) ==
    /\ driver = "held"
    /\ op[o].pc = "idle"
    /\ IF map[s] # None
       THEN op' = [op EXCEPT ![o] = [NoOp EXCEPT !.pc = "check", !.server = s, !.conn = map[s],
                                                 !.late = AllClosed]]
       ELSE \E k \in Conns :
              /\ rpc[k] = "none"
              /\ ~Owned(k)
              /\ op' = [op EXCEPT ![o] = [NoOp EXCEPT !.pc = "start", !.server = s, !.conn = k,
                                                      !.what = "connect", !.late = AllClosed]]
    /\ UNCHANGED <<runtimeVars, connVars, txVars, closer, driver>>

(* RPCTransmitter::start() runs on the runtime, and the caller waits for it. *)
(* It fails on a scheme that contradicts the TLS settings.                   *)
Started(o) ==
    /\ op[o].pc = "start"
    /\ Polled
    /\ \/ Goto(o, "send") /\ rpc' = [rpc EXCEPT ![op[o].conn] = "running"]
       \/ Goto(o, "err") /\ rpc' = [rpc EXCEPT ![op[o].conn] = "ended"]
    /\ UNCHANGED <<runtimeVars, map, senders, txVars, closer, driver>>

(* run_blocking(): the runtime stops, the task is dropped with its end of    *)
(* the channel, and the unwrap of recv() panics.                             *)
StartPanics(o) ==
    /\ op[o].pc = "start"
    /\ ~Polled
    /\ Goto(o, "panicked")
    /\ UNCHANGED <<runtimeVars, connVars, txVars, closer, driver>>

FaultyAllowed(o) == TRUE

(* ServerConnection::request() asks the flag; open_connection() does not.    *)
Allowed(o) == isOpen

Check(o) ==
    /\ op[o].pc = "check"
    /\ Goto(o, IF Allowed(o) THEN "send" ELSE "err")
    /\ UNCHANGED <<runtimeVars, connVars, txVars, closer, driver>>

(* request_async(): the send fails when the dispatcher loop has ended.       *)
Send(o) ==
    /\ op[o].pc = "send"
    /\ Goto(o, IF rpc[op[o].conn] = "ended" THEN "err" ELSE "queued")
    /\ UNCHANGED <<runtimeVars, connVars, txVars, closer, driver>>

(* dispatcher_loop(): a request gets a task of its own.                      *)
Dispatch(o) ==
    /\ op[o].pc = "queued"
    /\ Polled
    /\ rpc[op[o].conn] \in {"running", "signalled"}
    /\ Goto(o, "sent")
    /\ UNCHANGED <<runtimeVars, connVars, txVars, closer, driver>>

(* Calls whose request is lost with the queue of k.                          *)
Unsent(k) == {o \in Opens : op[o].pc = "queued" /\ op[o].conn = k}

(* dispatcher_loop() ends at a shutdown signal, or when nobody owns the      *)
(* connection any more; queued requests are dropped and their callers fail.  *)
DispatchLoopEnds(k) ==
    /\ Polled
    /\ rpc[k] = "signalled" \/ (rpc[k] = "running" /\ ~Owned(k))
    /\ rpc' = [rpc EXCEPT ![k] = "ended"]
    /\ op' = [o \in Opens |-> IF o \in Unsent(k) THEN [op[o] EXCEPT !.pc = "err"] ELSE op[o]]
    /\ UNCHANGED <<runtimeVars, map, senders, txVars, closer, driver>>

(* The answer of the server, an error or the request timeout.                *)
Reply(o) ==
    /\ op[o].pc = "sent"
    /\ Polled
    /\ \E pc \in {IF op[o].what = "connect" THEN "record" ELSE "built", "err"} : Goto(o, pc)
    /\ UNCHANGED <<runtimeVars, connVars, txVars, closer, driver>>

(* record_new_replica_connection(): the entry of the map is overwritten.     *)
Record(o) ==
    /\ op[o].pc = "record"
    /\ ~MapLocked
    /\ map' = [map EXCEPT ![op[o].server] = op[o].conn]
    /\ op' = [op EXCEPT ![o].pc = "check", ![o].what = "open"]
    /\ UNCHANGED <<runtimeVars, rpc, senders, txVars, closer, driver>>

(* refresh_replica_connections(): a server that is not listed any more.      *)
Forget(s) ==
    /\ driver = "held"
    /\ ~MapLocked
    /\ map[s] # None
    /\ map' = [map EXCEPT ![s] = None]
    /\ UNCHANGED <<runtimeVars, rpc, senders, op, txVars, closer, driver>>

(* TransactionTransmitter::new() spawns start_workers(); a runtime that has  *)
(* stopped drops it at once.                                                 *)
Build(o) ==
    /\ op[o].pc = "built"
    /\ stream' = [stream EXCEPT ![o] = IF Polled THEN "spawned" ELSE "ended"]
    /\ Goto(o, "push")
    /\ UNCHANGED <<runtimeVars, connVars, listener, txOpen, signal, closer, driver>>

(* open_transaction() records the shutdown sender and returns.               *)
Push(o) ==
    /\ op[o].pc = "push"
    /\ senders' = [senders EXCEPT ![op[o].conn] = @ \cup {o}]
    /\ Goto(o, "open")
    /\ UNCHANGED <<runtimeVars, map, rpc, txVars, closer, driver>>

-----------------------------------------------------------------------------
(* Transactions.                                                             *)

StartWorkers(o) ==
    /\ stream[o] = "spawned"
    /\ Polled
    /\ stream' = [stream EXCEPT ![o] = "running"]
    /\ listener' = [listener EXCEPT ![o] = "listening"]
    /\ UNCHANGED <<runtimeVars, connVars, op, txOpen, signal, closer, driver>>

Signals(o) ==
    /\ listener' = [listener EXCEPT ![o] = "ended"]
    /\ signal' = [signal EXCEPT ![o] = TRUE]

(* The response stream ends: the listener clears the flag, runs the on_close *)
(* callbacks, if there are any, and only then signals the dispatcher.        *)
StreamEnds(o) ==
    /\ listener[o] = "listening"
    /\ Polled
    /\ txOpen' = [txOpen EXCEPT ![o] = FALSE]
    /\ \/ Signals(o)
       \/ listener' = [listener EXCEPT ![o] = "waiting"] /\ UNCHANGED signal
    /\ UNCHANGED <<runtimeVars, connVars, op, stream, closer, driver>>

CallbacksReturn(o) ==
    /\ listener[o] = "waiting"
    /\ Polled
    /\ Signals(o)
    /\ UNCHANGED <<runtimeVars, connVars, op, stream, txOpen, closer, driver>>

DispatcherEnds(o) ==
    /\ stream[o] = "running"
    /\ signal[o]
    /\ stream' = [stream EXCEPT ![o] = "ended"]
    /\ UNCHANGED <<runtimeVars, connVars, op, listener, txOpen, signal, closer, driver>>

FaultySubmitClose(o) ==
    /\ signal' = [signal EXCEPT ![o] = @ \/ (txOpen[o] /\ isOpen)]
    /\ txOpen' = [txOpen EXCEPT ![o] = FALSE]

(* submit_close() leaves the signal to whoever cleared the flag before it.   *)
SubmitClose(o) ==
    /\ signal' = [signal EXCEPT ![o] = @ \/ txOpen[o]]
    /\ txOpen' = [txOpen EXCEPT ![o] = FALSE]

(* The user drops the transaction.                                           *)
DropTransaction(o) ==
    /\ op[o].pc = "open"
    /\ Goto(o, "dropped")
    /\ SubmitClose(o)
    /\ UNCHANGED <<runtimeVars, connVars, stream, listener, closer, driver>>

-----------------------------------------------------------------------------
(* Forced close and drop of the driver.                                      *)

(* force_close() returns at once on a closed driver. reach is history: the   *)
(* transactions whose sender the connections of the map hold now.            *)
CloseBegin(f) ==
    /\ driver = "held"
    /\ closer[f].pc = "idle"
    /\ closer' = [closer EXCEPT ![f] =
         IF ~isOpen THEN [NoClose EXCEPT !.pc = "done"]
         ELSE [pc |-> "conns", todo |-> Mapped, at |-> None, result |-> "ok",
               reach |-> UNION {senders[k] : k \in Mapped}]]
    /\ UNCHANGED <<runtimeVars, connVars, op, txVars, driver>>

(* ServerConnection::force_close() signals every sender it drains.           *)
Drained(k) == senders[k]

(* values() of the map: every force_close iterates in the same order as long *)
(* as the map stays as it is, and the read lock keeps it so.                 *)
CloseConnection(f) ==
    /\ closer[f].pc = "conns"
    /\ closer[f].todo # {}
    /\ LET k == CHOOSE c \in closer[f].todo : TRUE
       IN  /\ signal' = [o \in Opens |-> signal[o] \/ o \in Drained(k)]
           /\ senders' = [senders EXCEPT ![k] = {}]
           /\ closer' = [closer EXCEPT ![f].pc = "rpc", ![f].at = k, ![f].todo = @ \ {k}]
    /\ UNCHANGED <<runtimeVars, map, rpc, op, stream, listener, txOpen, driver>>

FaultyStopsAt(k) == TRUE

(* try_collect() stops at the first connection whose dispatcher is gone.     *)
StopsAt(k) == rpc[k] = "ended"

(* RPCTransmitter::force_close().                                            *)
CloseRpc(f) ==
    /\ closer[f].pc = "rpc"
    /\ LET k == closer[f].at
       IN  /\ rpc' = [rpc EXCEPT ![k] = IF @ = "running" THEN "signalled" ELSE @]
           /\ closer' = [closer EXCEPT ![f] =
                IF StopsAt(k)
                THEN [@ EXCEPT !.pc = "conns", !.todo = {}, !.result = "err"]
                ELSE [@ EXCEPT !.pc = "conns"]]
    /\ UNCHANGED <<runtimeVars, map, senders, op, txVars, driver>>

(* force_close().and(runtime.force_close()): the argument of and() is        *)
(* evaluated before the first result is looked at, so the runtime is closed  *)
(* after an error as well.                                                   *)
CloseRuntime(f) ==
    /\ closer[f].pc = "conns"
    /\ closer[f].todo = {}
    /\ isOpen' = FALSE
    /\ worker' = IF worker = "running" THEN "signalled" ELSE worker
    /\ closer' = [closer EXCEPT ![f].pc = "done",
                                ![f].result = IF Polled THEN @ ELSE "err"]
    /\ UNCHANGED <<connVars, op, txVars, driver>>

FaultyLostWithRuntime == {"queued"}

(* Pcs in which a call waits for a task of the runtime.                      *)
LostWithRuntime == {"queued", "sent"}

(* The worker thread leaves block_on() and drops its runtime: requests,      *)
(* listeners and transactions whose tasks had not run are dropped, callers   *)
(* fail. Dispatchers are threads of their own and live on.                   *)
WorkerStops ==
    /\ worker = "signalled"
    /\ worker' = "stopped"
    /\ rpc' = [k \in Conns |-> IF rpc[k] = "none" THEN "none" ELSE "ended"]
    /\ op' = [o \in Opens |-> IF op[o].pc \in LostWithRuntime
                              THEN [op[o] EXCEPT !.pc = "err"] ELSE op[o]]
    /\ stream' = [o \in Opens |-> IF stream[o] = "spawned" THEN "ended" ELSE stream[o]]
    /\ listener' = [o \in Opens |-> IF listener[o] = "waiting" THEN "cut" ELSE "ended"]
    /\ UNCHANGED <<isOpen, map, senders, txOpen, signal, closer, driver>>

(* The TypeDBDriver goes, with the server manager and its connections. The   *)
(* calls in progress borrow it.                                              *)
DriverDrop ==
    /\ driver = "held"
    /\ \A o \in Opens : ~Active(o)
    /\ NoCloser
    /\ driver' = "dropped"
    /\ map' = [s \in Servers |-> None]
    /\ UNCHANGED <<runtimeVars, rpc, senders, op, txVars, closer>>

(* Drop of BackgroundRuntime, with its last owner; open transactions own it. *)
RuntimeDrop ==
    /\ driver = "dropped"
    /\ \A o \in Opens : op[o].pc # "open"
    /\ driver' = "joining"
    /\ isOpen' = FALSE
    /\ worker' = IF worker = "running" THEN "signalled" ELSE worker
    /\ UNCHANGED <<connVars, op, txVars, closer>>

(* The join of the callback handler thread returns when no dispatcher and no *)
(* listener holds a sender of its channel any more.                          *)
RuntimeJoined ==
    /\ driver = "joining"
    /\ ~Polled
    /\ \A o \in Opens : stream[o] \in {"none", "ended"}
    /\ driver' = "gone"
    /\ UNCHANGED <<runtimeVars, connVars, op, txVars, closer>>

-----------------------------------------------------------------------------
Background ==
    \/ WorkerStops
    \/ RuntimeJoined
    \/ \E k \in Conns : DispatchLoopEnds(k)
    \/ \E o \in Opens : Started(o) \/ StartPanics(o) \/ Dispatch(o) \/ Reply(o)
                        \/ StartWorkers(o) \/ CallbacksReturn(o) \/ DispatcherEnds(o)

Calls ==
    \/ \E o \in Opens : Check(o) \/ Send(o) \/ Record(o) \/ Build(o) \/ Push(o)
    \/ \E f \in Closers : CloseConnection(f) \/ CloseRpc(f) \/ CloseRuntime(f)

User ==
    \/ \E o \in Opens, s \in Servers : Lookup(o, s)
    \/ \E o \in Opens : DropTransaction(o) \/ StreamEnds(o)
    \/ \E s \in Servers : Forget(s)
    \/ \E f \in Closers : CloseBegin(f)
    \/ DriverDrop
    \/ RuntimeDrop

Next == Background \/ Calls \/ User

Spec == Init /\ [][Next]_vars

(* Tasks are polled, threads run and calls in progress continue; request     *)
(* timeouts make Reply fair. Nothing obliges the user to act.                *)
FairSpec ==
    /\ Spec
    /\ WF_vars(WorkerStops)
    /\ WF_vars(RuntimeJoined)
    /\ \A k \in Conns : WF_vars(DispatchLoopEnds(k))
    /\ \A o \in Opens :
         /\ WF_vars(Started(o) \/ StartPanics(o) \/ Dispatch(o) \/ Reply(o))
         /\ WF_vars(StartWorkers(o) \/ DispatcherEnds(o))
         /\ WF_vars(CallbacksReturn(o))
         /\ WF_vars(Check(o) \/ Send(o) \/ Record(o) \/ Build(o) \/ Push(o))
    /\ \A f \in Closers : WF_vars(CloseConnection(f) \/ CloseRpc(f) \/ CloseRuntime(f))

-----------------------------------------------------------------------------
(* Every variable has its type, a call that works on a connection has one,   *)
(* and the connections of the map were started.                              *)
TypeOK ==
    /\ isOpen \in BOOLEAN
    /\ worker \in {"running", "signalled", "stopped"}
    /\ map \in [Servers -> Conns \cup {None}]
    /\ rpc \in [Conns -> {"none", "running", "signalled", "ended"}]
    /\ senders \in [Conns -> SUBSET Opens]
    /\ op \in [Opens -> [pc : Owning \cup Returned \cup {"idle"},
                         server : Servers \cup {None}, conn : Conns \cup {None},
                         what : {"open", "connect"}, late : BOOLEAN]]
    /\ \A o \in Opens : op[o].pc \in Owning => op[o].conn \in Conns
    /\ \A k \in Mapped : rpc[k] # "none"
    /\ stream \in [Opens -> {"none", "spawned", "running", "ended"}]
    /\ listener \in [Opens -> {"none", "listening", "waiting", "ended", "cut"}]
    /\ txOpen \in [Opens -> BOOLEAN]
    /\ signal \in [Opens -> BOOLEAN]
    /\ closer \in [Closers -> [pc : {"idle", "conns", "rpc", "done"}, todo : SUBSET Conns,
                               at : Conns \cup {None}, result : {"ok", "err"},
                               reach : SUBSET Opens]]
    /\ driver \in {"held", "dropped", "joining", "gone"}

(* A force_close that returns Ok has signalled, itself or through another    *)
(* that worked on the same connections, every transaction that was           *)
(* registered with a connection of the map when it began; and it returns an  *)
(* error, which it does when it stopped at a connection that another had     *)
(* ended, only if another call of force_close was made.                      *)
CloseReaches ==
    \A f \in Closers :
      /\ closer[f].pc = "done" /\ closer[f].result = "ok" => \A o \in closer[f].reach : signal[o]
      /\ closer[f].result = "err" => \E g \in Closers \ {f} : closer[g].pc # "idle"

(* A call that begins after force_close returned never opens a transaction,  *)
(* whatever connections the map still holds (ServerConnection::request).     *)
ClosedOpensNothing == \A o \in Opens : op[o].late => op[o].pc \notin {"open", "dropped"}

(* A call of transaction() returns, whatever closes while it waits.          *)
OpensReturn == \A o \in Opens : Active(o) ~> ~Active(o)

(* Dropping the last owner of a driver returns: every dispatcher thread that *)
(* holds the callback channel ends, although force_close may have missed its *)
(* transaction (it was opened too late or its connection was replaced). The  *)
(* exception is a listener that was cut while it waited for a callback.      *)
DropReturns ==
    driver = "joining" ~> driver = "gone" \/ \E o \in Opens : listener[o] = "cut"

=============================================================================
