----------------------- MODULE TransactionTransmitter -----------------------
(* The client side of one TypeDB transaction: TransactionTransmitter,       *)
(* ResponseCollector and ResponseSink of the Rust driver                     *)
(* (rust/src/connection/network/transmitter).                                *)
(*                                                                           *)
(* Actors: client threads that submit requests, read answers, register       *)
(* on_close callbacks and call close(); the dispatcher, a blocking thread    *)
(* that moves requests from the queue to the gRPC request stream; the        *)
(* listener, an async task that hands the server's messages to the sinks of  *)
(* the requests; the callback handler thread; the driver, which can force    *)
(* the runtime closed; and the server, external.                             *)
EXTENDS Naturals, Sequences

CONSTANTS
    Singles,        \* requests answered once: commit, rollback, analyze
    Streams,        \* queries, answered by a stream of parts
    Callbacks,      \* callbacks that users register with on_close
    Panicking,      \* the callbacks that panic when they are run
    Closers,        \* calls of close(); each registers a notifier callback
    Cancellable,    \* calls of close() whose future may be dropped midway
    Size,           \* encoded length of each request
    ContinueSize,   \* encoded length of a request for the next parts
    MaxLen,         \* MAX_GRPC_MESSAGE_LEN
    MaxItems,       \* bound on the items the server sends for a query
    Malformed       \* the ill-formed messages the server may send

Requests == Singles \cup Streams
Hooks == Callbacks \cup Closers

ASSUME ConstantsAssumption ==
    /\ Singles \cap Streams = {}
    /\ Callbacks \cap Closers = {}
    /\ Panicking \subseteq Callbacks
    /\ Cancellable \subseteq Closers
    /\ Size \in [Requests -> Nat]
    /\ ContinueSize \in Nat /\ MaxLen \in Nat /\ MaxItems \in Nat
    /\ Malformed \subseteq {"BadRes", "BadRow", "NoState"}

VARIABLES
    is_open,          \* the flag all parts share
    error,            \* what a request on a closed transaction is told
    shutdown,         \* a signal waits in the shutdown channel
    queue,            \* request channel from the clients to the dispatcher
    dispatcher,       \* "check" | "drain" | "done"
    buffer,           \* TransactionRequestBuffer
    requestStream,    \* batches on their way to the server
    callbacks,        \* the requests with a sink in the collector's map
    inbox,            \* what each sink's channel holds
    outcome,          \* what each request's caller has seen so far
    got,              \* number of the last item each caller has read
    srv,              \* server: progress of each request
    sent,             \* server: items sent for each request
    serverOpen,       \* server: the response stream has not been ended
    responseStream,   \* messages on their way to the listener
    listener,         \* "loop" | "store" | "drain" | "callbacks" | "awaiting" | "done" | "dead" | "stuck"
    cause,            \* why the listener left its loop
    registrations,    \* the on_close registration channel
    on_close,         \* the collector's callbacks, in order of registration
    hook,             \* state of each callback
    handlerAlive,     \* the callback handler thread has not panicked
    closer,           \* state of each close() call
    before,           \* callbacks recorded when that close() was called
    runtime,          \* "open" | "signalled" | "closed" | "stopped"
    dropped           \* the TransactionTransmitter has been dropped

flagVars     == <<is_open, error, shutdown>>
dispatchVars == <<queue, dispatcher, buffer, requestStream>>
answerVars   == <<callbacks, inbox, outcome, got>>
serverVars   == <<srv, sent, serverOpen, responseStream>>
listenVars   == <<listener, cause>>
hookVars     == <<registrations, on_close, hook, handlerAlive>>
closeVars    == <<closer, before>>
lifeVars     == <<runtime, dropped>>
vars == <<flagVars, dispatchVars, answerVars, serverVars, listenVars, hookVars,
          closeVars, lifeVars>>

EmptyBuffer == [reqs |-> <<>>, len |-> 0]

Init ==
    /\ is_open = TRUE /\ error = "none" /\ shutdown = FALSE
    /\ queue = <<>> /\ dispatcher = "check" /\ buffer = EmptyBuffer /\ requestStream = <<>>
    /\ callbacks = {}
    /\ inbox = [r \in Requests |-> <<>>]
    /\ outcome = [r \in Requests |-> "idle"]
    /\ got = [r \in Requests |-> 0]
    /\ srv = [r \in Requests |-> "idle"]
    /\ sent = [r \in Requests |-> 0]
    /\ serverOpen = TRUE /\ responseStream = <<>>
    /\ listener = "loop" /\ cause = "none"
    /\ registrations = <<>> /\ on_close = <<>>
    /\ hook = [h \in Hooks |-> "none"] /\ handlerAlive = TRUE
    /\ closer = [c \in Closers |-> "idle"] /\ before = [c \in Closers |-> {}]
    /\ runtime = "open" /\ dropped = FALSE

ListenerGone == listener \in {"done", "dead"}

(* A request of the queue: the first one carries the sink, a later one asks  *)
(* the server for more parts of a query.                                     *)
NewRequest(r) == [req |-> r, new |-> TRUE]
ContinueRequest(r) == [req |-> r, new |-> FALSE]
EncodedLen(q) == IF q.new THEN Size[q.req] ELSE ContinueSize

(* The sink of r still exists somewhere: its receiver is not yet told None.  *)
SinkAlive(r) ==
    \/ r \in callbacks
    \/ \E i \in DOMAIN queue : queue[i] = NewRequest(r)

(* Definitions named Faulty... are variants with a bug that a property must  *)
(* detect; no action uses them.                                              *)
-----------------------------------------------------------------------------
(* Clients: single(), stream() and the reading side of the answers.          *)

(* error(): what a request is told that finds the transaction closed.        *)
ErrorSeen == IF error = "none" THEN "closed" ELSE error

(* single() and stream(): a closed transaction answers with its error; else  *)
(* the request and its sink enter the queue, unless the dispatcher, which    *)
(* owns the receiving end, is gone.                                          *)
Submit(r) ==
    /\ ~dropped
    /\ outcome[r] = "idle"
    /\ IF ~is_open
       THEN /\ outcome' = [outcome EXCEPT ![r] = ErrorSeen]
            /\ UNCHANGED queue
       ELSE IF dispatcher = "done"
       THEN /\ outcome' = [outcome EXCEPT ![r] = "closed"]
            /\ UNCHANGED queue
       ELSE /\ outcome' = [outcome EXCEPT ![r] = "waiting"]
            /\ queue' = Append(queue, NewRequest(r))
    /\ UNCHANGED <<flagVars, dispatcher, buffer, requestStream, callbacks, inbox, got,
                   serverVars, listenVars, hookVars, closeVars, lifeVars>>

(* What an item read by the caller means for the request's outcome.          *)
OutcomeOf(e) ==
    CASE e.kind \in {"Res", "Immediate"} -> "answered"
      [] e.kind \in {"Header", "Row", "Continue"} -> "waiting"
      [] e.kind \in {"Error", "Undecodable"} -> "error"
      [] e.kind = "Close" -> "closed"
      [] e.kind = "Status" -> "status"

FaultyAsksForMore(e) == e.kind \in {"Continue", "Row"}

AsksForMore(e) == e.kind = "Continue"

(* The caller takes the next item; process_response() answers Continue by    *)
(* asking for more, which fails when the dispatcher is gone.                 *)
Read(r) ==
    /\ outcome[r] = "waiting"
    /\ inbox[r] # <<>>
    /\ LET e == Head(inbox[r])
           refused == AsksForMore(e) /\ dispatcher = "done"
       IN  /\ outcome' = [outcome EXCEPT ![r] = IF refused THEN "closed" ELSE OutcomeOf(e)]
           /\ got' = [got EXCEPT ![r] = IF e.n = 0 THEN @ ELSE e.n]
           /\ queue' = IF AsksForMore(e) /\ ~refused
                       THEN Append(queue, ContinueRequest(r)) ELSE queue
    /\ inbox' = [inbox EXCEPT ![r] = Tail(@)]
    /\ UNCHANGED <<flagVars, dispatcher, buffer, requestStream, callbacks, serverVars,
                   listenVars, hookVars, closeVars, lifeVars>>

(* The channel is empty and its sink dropped. A single sees a receive error, *)
(* a query without header QueryStreamNoResponse, a query with header simply  *)
(* the end of its answers.                                                   *)
ReadEnd(r) ==
    /\ outcome[r] = "waiting"
    /\ inbox[r] = <<>>
    /\ ~SinkAlive(r)
    /\ outcome' = [outcome EXCEPT ![r] = IF r \in Streams /\ got[r] > 0 THEN "end" ELSE "lost"]
    /\ UNCHANGED <<flagVars, dispatchVars, callbacks, inbox, got, serverVars, listenVars,
                   hookVars, closeVars, lifeVars>>

(* The caller drops its promise or stream without reading on.                *)
Abandon(r) ==
    /\ outcome[r] = "waiting"
    /\ outcome' = [outcome EXCEPT ![r] = "abandoned"]
    /\ inbox' = [inbox EXCEPT ![r] = <<>>]
    /\ UNCHANGED <<flagVars, dispatchVars, callbacks, got, serverVars, listenVars,
                   hookVars, closeVars, lifeVars>>

-----------------------------------------------------------------------------
(* The dispatcher: sync_dispatch_loop().                                     *)

Transmit(batch) == IF serverOpen THEN Append(requestStream, batch) ELSE requestStream

(* A handle on the map of sinks goes; the other worker may hold one still.   *)
FaultySharedMap(otherGone) == callbacks     \* a third handle is never dropped

SharedMap(otherGone) == IF otherGone THEN {} ELSE callbacks

Full(q) == buffer.len + EncodedLen(q) > MaxLen

FaultyFlushed(q) == requestStream           \* take() empties the buffer, nothing is sent

(* The stream once there is room for q in the buffer.                        *)
Flushed(q) == IF Full(q) THEN Transmit(buffer.reqs) ELSE requestStream

FaultySignal == FALSE                       \* the receiver is gone already

(* A send on the shutdown channel arrives while the dispatcher lives.        *)
Signal == dispatcher # "done"

DispatchCheck ==
    /\ dispatcher = "check"
    /\ ~shutdown
    /\ dispatcher' = "drain"
    /\ UNCHANGED <<flagVars, queue, buffer, requestStream, answerVars, serverVars,
                   listenVars, hookVars, closeVars, lifeVars>>

(* try_recv() got a request: register its sink, flush the buffer if the      *)
(* request does not fit beside what is there, and buffer it.                 *)
DispatchTake ==
    /\ dispatcher = "drain"
    /\ queue # <<>>
    /\ Head(queue).new => listener # "stuck"      \* register() needs the write lock
    /\ LET q == Head(queue)
           room == IF Full(q) THEN EmptyBuffer ELSE buffer
       IN  /\ callbacks' = IF q.new THEN callbacks \cup {q.req} ELSE callbacks
           /\ requestStream' = Flushed(q)
           /\ buffer' = [reqs |-> Append(room.reqs, q), len |-> room.len + EncodedLen(q)]
    /\ queue' = Tail(queue)
    /\ UNCHANGED <<flagVars, dispatcher, inbox, outcome, got, serverVars, listenVars,
                   hookVars, closeVars, lifeVars>>

DispatchFlush ==
    /\ dispatcher = "drain"
    /\ queue = <<>>
    /\ requestStream' = IF buffer.reqs # <<>> THEN Transmit(buffer.reqs) ELSE requestStream
    /\ buffer' = EmptyBuffer
    /\ dispatcher' = "check"
    /\ UNCHANGED <<flagVars, queue, answerVars, serverVars, listenVars, hookVars,
                   closeVars, lifeVars>>

(* The shutdown signal: leave the loop. The receiving end of the queue goes  *)
(* with the sinks in it, the request stream is half-closed, and the map of   *)
(* sinks goes too if the listener has already dropped its share of it.       *)
DispatchShutdown ==
    /\ dispatcher = "check"
    /\ shutdown
    /\ dispatcher' = "done"
    /\ shutdown' = FALSE
    /\ requestStream' = IF buffer.reqs # <<>> THEN Transmit(buffer.reqs) ELSE requestStream
    /\ buffer' = EmptyBuffer
    /\ queue' = <<>>
    /\ callbacks' = SharedMap(ListenerGone)
    /\ UNCHANGED <<is_open, error, inbox, outcome, got, serverVars, listenVars, hookVars,
                   closeVars, lifeVars>>

-----------------------------------------------------------------------------
(* The server, as the driver uses it: it works on the requests it receives,  *)
(* sends the items of each in order, and pauses a query after Continue.      *)

Message(r, kind, n) == [req |-> r, kind |-> kind, n |-> n]

ServerReceive ==
    /\ serverOpen
    /\ requestStream # <<>>
    /\ LET batch == Head(requestStream)
           reqs == {batch[i].req : i \in DOMAIN batch}
       IN  srv' = [r \in Requests |->
                     IF r \in reqs /\ srv[r] \in {"idle", "paused"} THEN "running" ELSE srv[r]]
    /\ requestStream' = Tail(requestStream)
    /\ UNCHANGED <<flagVars, queue, dispatcher, buffer, answerVars, sent, serverOpen,
                   responseStream, listenVars, hookVars, closeVars, lifeVars>>

(* The items the server may send next for r, and its state afterwards.       *)
Replies(r) ==
    IF r \in Singles
    THEN {<<"Res", "done">>} \cup (IF "BadRes" \in Malformed THEN {<<"BadRes", "broken">>} ELSE {})
    ELSE IF sent[r] = 0
    THEN {<<"Immediate", "done">>, <<"Header", "running">>}
    ELSE {<<"Done", "done">>, <<"Error", "done">>}
           \cup (IF sent[r] < MaxItems THEN {<<"Row", "running">>, <<"Continue", "paused">>} ELSE {})
           \cup ({<<k, "broken">> : k \in {"BadRow", "NoState"} \cap Malformed})

ServerReply(r) ==
    /\ serverOpen
    /\ srv[r] = "running"
    /\ \E p \in Replies(r) :
         LET numbered == p[1] \notin {"Done", "NoState", "BadRes", "BadRow"}
         IN /\ responseStream' = Append(responseStream,
                                   Message(r, p[1], IF numbered THEN sent[r] + 1 ELSE 0))
            /\ sent' = [sent EXCEPT ![r] = IF numbered THEN @ + 1 ELSE @]
            /\ srv' = [srv EXCEPT ![r] = p[2]]
    /\ UNCHANGED <<flagVars, dispatchVars, answerVars, serverOpen, listenVars, hookVars,
                   closeVars, lifeVars>>

EndOfStream == [kind |-> "End"]
StatusError == [kind |-> "Status"]

(* The server ends the stream: after a commit, or once the client has        *)
(* half-closed it.                                                           *)
ServerEnd ==
    /\ serverOpen
    /\ serverOpen' = FALSE
    /\ responseStream' = Append(responseStream, EndOfStream)
    /\ UNCHANGED <<flagVars, dispatchVars, answerVars, srv, sent, listenVars, hookVars,
                   closeVars, lifeVars>>

(* The stream breaks: a status replaces what had not arrived yet.            *)
StreamBreaks ==
    /\ serverOpen
    /\ serverOpen' = FALSE
    /\ \E k \in 0..Len(responseStream) :
         responseStream' = Append(SubSeq(responseStream, 1, k), StatusError)
    /\ UNCHANGED <<flagVars, dispatchVars, answerVars, srv, sent, listenVars, hookVars,
                   closeVars, lifeVars>>

-----------------------------------------------------------------------------
(* The listener: async_listen_loop() and the ResponseCollector.              *)

(* A send into the channel of r, which is void once the caller has stopped.  *)
Deliver(r, e) ==
    inbox' = IF outcome[r] = "waiting" THEN [inbox EXCEPT ![r] = Append(@, e)] ELSE inbox

Event(r, kind) == Message(r, kind, 0)

(* collect_res(): an answer to a request, or the header of a query.          *)
CollectRes(m) ==
    IF m.req \notin callbacks
    THEN UNCHANGED <<callbacks, inbox>>
    ELSE /\ Deliver(m.req, IF m.kind = "BadRes" THEN Event(m.req, "Undecodable") ELSE m)
         /\ callbacks' = IF m.kind \in {"Header", "Immediate"} THEN callbacks
                         ELSE callbacks \ {m.req}

FaultyStreamOver == {"Error", "NoState"}    \* Done is overlooked

(* The parts after which the sink of a query is removed from the map.        *)
StreamOver == {"Done", "Error", "NoState"}

(* collect_res_part(): a part of a query's answers, or its stream's state.   *)
CollectPart(m) ==
    /\ IF m.kind \in {"Row", "Continue", "Error"} /\ m.req \in callbacks
       THEN Deliver(m.req, m) ELSE UNCHANGED inbox
    /\ callbacks' = IF m.kind \in StreamOver THEN callbacks \ {m.req} ELSE callbacks

ResKinds == {"Res", "BadRes", "Header", "Immediate"}
PartKinds == {"Row", "BadRow", "Continue", "Done", "Error", "NoState"}

(* A part that does not decode: its sink is looked up under a read lock of   *)
(* the map, which is still held when remove() asks for the write lock.       *)
SelfDeadlock(m) == m.kind = "BadRow" /\ m.req \in callbacks

ListenMessage ==
    /\ listener = "loop"
    /\ responseStream # <<>>
    /\ LET m == Head(responseStream) IN
         /\ m.kind \in ResKinds \cup PartKinds
         /\ IF m.kind \in ResKinds THEN CollectRes(m) ELSE CollectPart(m)
         /\ listener' = IF SelfDeadlock(m) THEN "stuck" ELSE "loop"
    /\ responseStream' = Tail(responseStream)
    /\ UNCHANGED <<flagVars, dispatchVars, outcome, got, srv, sent, serverOpen, cause,
                   hookVars, closeVars, lifeVars>>

(* The end of the stream or a status: close() or close_with_error(), step by *)
(* step. First the flag.                                                     *)
ListenEnd ==
    /\ listener = "loop"
    /\ responseStream # <<>>
    /\ Head(responseStream).kind \in {"End", "Status"}
    /\ cause' = IF Head(responseStream).kind = "End" THEN "end" ELSE "status"
    /\ is_open' = FALSE
    /\ listener' = IF Head(responseStream).kind = "End" THEN "drain" ELSE "store"
    /\ responseStream' = Tail(responseStream)
    /\ UNCHANGED <<error, shutdown, dispatchVars, answerVars, srv, sent, serverOpen,
                   hookVars, closeVars, lifeVars>>

ListenStoreError ==
    /\ listener = "store"
    /\ error' = "status"
    /\ listener' = "drain"
    /\ UNCHANGED <<is_open, shutdown, dispatchVars, answerVars, serverVars, cause,
                   hookVars, closeVars, lifeVars>>

FaultyFinishSinks == inbox                  \* sinks dropped without a last answer

(* ResponseSink::finish() and error() on every sink of the map.              *)
FinishSinks ==
    [r \in Requests |->
        IF r \in callbacks /\ outcome[r] = "waiting"
        THEN Append(inbox[r], Event(r, IF cause = "end" THEN "Close" ELSE "Status"))
        ELSE inbox[r]]

(* Then every sink of the map gets its last answer, and the callbacks of     *)
(* on_close are taken.                                                       *)
ListenDrain ==
    /\ listener = "drain"
    /\ inbox' = FinishSinks
    /\ callbacks' = {}
    /\ listener' = "callbacks"
    /\ UNCHANGED <<flagVars, dispatchVars, outcome, got, serverVars, cause, hookVars,
                   closeVars, lifeVars>>

DropHooks(hs) == [h \in Hooks |-> IF h \in hs THEN "dropped" ELSE hook[h]]
Elements(s) == {s[i] : i \in DOMAIN s}

(* The listener task is gone and takes its share of the map, the callbacks   *)
(* it still holds and the receiving end of the registrations with it. A      *)
(* callback the handler has been given is the handler's.                     *)
DropListener(state) ==
    /\ listener' = state
    /\ hook' = DropHooks(Elements(registrations)
                           \cup {h \in Elements(on_close) : hook[h] = "recorded"})
    /\ registrations' = <<>>
    /\ on_close' = <<>>
    /\ callbacks' = SharedMap(dispatcher = "done")

(* Next callback: hand it to the handler thread and await its reply. The     *)
(* unwrap() of the send panics when that thread is dead.                     *)
ListenInvoke ==
    /\ listener = "callbacks"
    /\ on_close # <<>>
    /\ IF handlerAlive
       THEN /\ hook' = [hook EXCEPT ![Head(on_close)] = "running"]
            /\ listener' = "awaiting"
            /\ UNCHANGED <<registrations, on_close, callbacks>>
       ELSE DropListener("dead")
    /\ UNCHANGED <<flagVars, dispatchVars, inbox, outcome, got, serverVars, cause,
                   handlerAlive, closeVars, lifeVars>>

ListenReply ==
    /\ listener = "awaiting"
    /\ on_close # <<>>
    /\ hook[Head(on_close)] \in {"ran", "panicked"}
    /\ on_close' = Tail(on_close)
    /\ listener' = "callbacks"
    /\ UNCHANGED <<flagVars, dispatchVars, answerVars, serverVars, cause, registrations,
                   hook, handlerAlive, closeVars, lifeVars>>

FaultyAllInvoked == TRUE                    \* does not wait for the callbacks

AllInvoked == on_close = <<>>

(* All callbacks done: signal the dispatcher and return.                     *)
ListenFinish ==
    /\ listener = "callbacks"
    /\ AllInvoked
    /\ DropListener("done")
    /\ shutdown' = Signal
    /\ UNCHANGED <<is_open, error, dispatchVars, inbox, outcome, got, serverVars, cause,
                   handlerAlive, closeVars, lifeVars>>

FaultyRecord(h) == <<h>> \o on_close        \* newest first

Record(h) == Append(on_close, h)

(* No message is ready (the select is biased): record a callback and tell    *)
(* its registrant.                                                           *)
ListenRegister ==
    /\ listener = "loop"
    /\ responseStream = <<>>
    /\ registrations # <<>>
    /\ on_close' = Record(Head(registrations))
    /\ hook' = [hook EXCEPT ![Head(registrations)] = "recorded"]
    /\ registrations' = Tail(registrations)
    /\ UNCHANGED <<flagVars, dispatchVars, answerVars, serverVars, listenVars,
                   handlerAlive, closeVars, lifeVars>>

(* The callback handler thread runs a callback, or dies of its panic.        *)
HandlerRun(h) ==
    /\ handlerAlive
    /\ hook[h] = "running"
    /\ hook' = [hook EXCEPT ![h] = IF h \in Panicking THEN "panicked" ELSE "ran"]
    /\ handlerAlive' = (h \notin Panicking)
    /\ UNCHANGED <<flagVars, dispatchVars, answerVars, serverVars, listenVars,
                   registrations, on_close, closeVars, lifeVars>>

-----------------------------------------------------------------------------
(* on_close(), close() and drop.                                             *)

(* The registration enters the channel, or is dropped with its sender when   *)
(* the listener is gone.                                                     *)
SendRegistration(h) ==
    /\ registrations' = IF ListenerGone THEN registrations ELSE Append(registrations, h)
    /\ hook' = [hook EXCEPT ![h] = IF ListenerGone THEN "dropped" ELSE "sent"]

OnClose(h) ==
    /\ ~dropped
    /\ hook[h] = "none"
    /\ SendRegistration(h)
    /\ UNCHANGED <<flagVars, dispatchVars, answerVars, serverVars, listenVars, on_close,
                   handlerAlive, closeVars, lifeVars>>

FaultyRegistered(h) == hook[h] \in {"recorded", "running", "ran"}

(* on_close() has returned Ok: the listener replied, or the channel died.    *)
Registered(h) == hook[h] \notin {"none", "sent"}

(* close(): only the caller that wins the flag, on an open runtime, goes on; *)
(* it registers its notifier. Any other returns at once.                     *)
CloseBegin(c) ==
    /\ ~dropped
    /\ closer[c] = "idle"
    /\ before' = [before EXCEPT ![c] = {h \in Callbacks : hook[h] \in {"recorded", "running"}}]
    /\ IF runtime \in {"open", "signalled"} /\ is_open
       THEN /\ is_open' = FALSE
            /\ SendRegistration(c)
            /\ closer' = [closer EXCEPT ![c] = "registering"]
       ELSE /\ closer' = [closer EXCEPT ![c] = "skipped"]
            /\ UNCHANGED <<is_open, registrations, hook>>
    /\ UNCHANGED <<error, shutdown, dispatchVars, answerVars, serverVars, listenVars,
                   on_close, handlerAlive, lifeVars>>

(* The registration was answered: store the error, signal the dispatcher.    *)
CloseSignal(c) ==
    /\ closer[c] = "registering"
    /\ Registered(c)
    /\ error' = "closed"
    /\ shutdown' = Signal
    /\ closer' = [closer EXCEPT ![c] = "notifying"]
    /\ UNCHANGED <<is_open, dispatchVars, answerVars, serverVars, listenVars, hookVars,
                   before, lifeVars>>

(* The notifier ran, or was dropped with its sender.                         *)
CloseReturn(c) ==
    /\ closer[c] = "notifying"
    /\ hook[c] \in {"ran", "dropped"}
    /\ closer' = [closer EXCEPT ![c] = "returned"]
    /\ UNCHANGED <<flagVars, dispatchVars, answerVars, serverVars, listenVars, hookVars,
                   before, lifeVars>>

(* The future of close() is dropped at one of its awaits.                    *)
CloseCancel(c) ==
    /\ c \in Cancellable
    /\ closer[c] \in {"registering", "notifying"}
    /\ closer' = [closer EXCEPT ![c] = "cancelled"]
    /\ UNCHANGED <<flagVars, dispatchVars, answerVars, serverVars, listenVars, hookVars,
                   before, lifeVars>>

(* Drop, submit_close(): the promises of close() and on_close() borrow the   *)
(* transaction, so none is pending.                                          *)
Drop ==
    /\ ~dropped
    /\ \A c \in Closers : closer[c] \notin {"registering", "notifying"}
    /\ \A h \in Callbacks : hook[h] # "sent"
    /\ dropped' = TRUE
    /\ is_open' = FALSE
    /\ shutdown' = IF is_open THEN Signal ELSE shutdown
    /\ UNCHANGED <<error, dispatchVars, answerVars, serverVars, listenVars, hookVars,
                   closeVars, runtime>>

-----------------------------------------------------------------------------
(* TypeDBDriver::force_close(): signal the dispatcher through the            *)
(* connection's shutdown senders, mark the runtime closed and stop the gRPC  *)
(* worker, which drops its tasks at their awaits.                            *)

ForceCloseSignal ==
    /\ runtime = "open"
    /\ runtime' = "signalled"
    /\ shutdown' = Signal
    /\ UNCHANGED <<is_open, error, dispatchVars, answerVars, serverVars, listenVars,
                   hookVars, closeVars, dropped>>

RuntimeForceClose ==
    /\ runtime = "signalled"
    /\ runtime' = "closed"
    /\ UNCHANGED <<flagVars, dispatchVars, answerVars, serverVars, listenVars, hookVars,
                   closeVars, dropped>>

WorkerStop ==
    /\ runtime = "closed"
    /\ runtime' = "stopped"
    /\ \/ /\ listener \in {"loop", "awaiting"}
          /\ DropListener("dead")
       \/ /\ ListenerGone
          /\ UNCHANGED <<listener, hook, registrations, on_close, callbacks>>
    /\ UNCHANGED <<flagVars, dispatchVars, inbox, outcome, got, serverVars, cause,
                   handlerAlive, closeVars, dropped>>

-----------------------------------------------------------------------------
Client == \E r \in Requests : Submit(r) \/ Read(r) \/ ReadEnd(r) \/ Abandon(r)
Dispatcher == DispatchCheck \/ DispatchTake \/ DispatchFlush \/ DispatchShutdown
Server == ServerReceive \/ ServerEnd \/ StreamBreaks \/ \E r \in Requests : ServerReply(r)
Listener ==
    \/ ListenMessage \/ ListenEnd \/ ListenStoreError \/ ListenDrain
    \/ ListenInvoke \/ ListenReply \/ ListenFinish \/ ListenRegister
Closing ==
    \/ \E h \in Callbacks : OnClose(h)
    \/ \E c \in Closers : CloseBegin(c) \/ CloseSignal(c) \/ CloseReturn(c) \/ CloseCancel(c)
    \/ Drop
Runtime == ForceCloseSignal \/ RuntimeForceClose \/ WorkerStop \/ \E h \in Hooks : HandlerRun(h)

Next == Client \/ Dispatcher \/ Server \/ Listener \/ Closing \/ Runtime

Spec == Init /\ [][Next]_vars

(* The dispatcher thread, the listener task and the handler thread are       *)
(* scheduled; callers of close() and readers of answers keep polling; the    *)
(* server receives, works on each request and ends a half-closed stream.     *)
Fairness ==
    /\ WF_vars(Dispatcher)
    /\ WF_vars(Listener)
    /\ WF_vars(RuntimeForceClose \/ WorkerStop)
    /\ \A h \in Hooks : WF_vars(HandlerRun(h))
    /\ \A c \in Closers : WF_vars(CloseSignal(c) \/ CloseReturn(c))
    /\ \A r \in Requests : WF_vars(Read(r) \/ ReadEnd(r)) /\ WF_vars(ServerReply(r))
    /\ WF_vars(ServerReceive)
    /\ WF_vars(dispatcher = "done" /\ requestStream = <<>> /\ ServerEnd)

FairSpec == Spec /\ Fairness

-----------------------------------------------------------------------------
(* Properties.                                                               *)

Items == {"Res", "BadRes", "Header", "Immediate", "Row", "BadRow", "Continue", "Done",
          "Error", "NoState"}
Outcomes == {"idle", "waiting", "answered", "end", "error", "closed", "status", "lost",
             "abandoned"}
Messages == [req : Requests, kind : Items, n : Nat] \cup {EndOfStream, StatusError}
EventKinds == {"Res", "Header", "Immediate", "Row", "Continue", "Error", "Undecodable",
               "Close", "Status"}
Events == [req : Requests, kind : EventKinds, n : Nat]
Queued == [req : Requests, new : BOOLEAN]

FlagsOK ==
    is_open \in BOOLEAN /\ shutdown \in BOOLEAN /\ error \in {"none", "closed", "status"}
DispatchOK ==
    /\ queue \in Seq(Queued) /\ dispatcher \in {"check", "drain", "done"}
    /\ buffer \in [reqs : Seq(Queued), len : Nat] /\ requestStream \in Seq(Seq(Queued))
AnswersOK ==
    /\ callbacks \subseteq Requests /\ inbox \in [Requests -> Seq(Events)]
    /\ outcome \in [Requests -> Outcomes] /\ got \in [Requests -> Nat]
ServerOK ==
    /\ srv \in [Requests -> {"idle", "running", "paused", "done", "broken"}]
    /\ sent \in [Requests -> Nat]
    /\ serverOpen \in BOOLEAN /\ responseStream \in Seq(Messages)
ListenerOK ==
    /\ listener \in {"loop", "store", "drain", "callbacks", "awaiting", "done", "dead", "stuck"}
    /\ cause \in {"none", "end", "status"}
HooksOK ==
    /\ registrations \in Seq(Hooks) /\ on_close \in Seq(Hooks)
    /\ hook \in [Hooks -> {"none", "sent", "recorded", "running", "ran", "panicked", "dropped"}]
    /\ handlerAlive \in BOOLEAN
ClosersOK ==
    /\ closer \in [Closers ->
                     {"idle", "registering", "notifying", "returned", "skipped", "cancelled"}]
    /\ before \in [Closers -> SUBSET Callbacks]
LifeOK ==
    runtime \in {"open", "signalled", "closed", "stopped"} /\ dropped \in BOOLEAN

(* Every variable keeps its type: the flags and channels of the transmitter, *)
(* the states of its workers, callers and callbacks.                         *)
TypeOK ==
    /\ FlagsOK /\ DispatchOK /\ AnswersOK /\ ServerOK
    /\ ListenerOK /\ HooksOK /\ ClosersOK /\ LifeOK

(* The entry of a request is on its way to the server.                       *)
Asking(r) ==
    LET holds(s) == \E i \in DOMAIN s : s[i].req = r
    IN  \/ holds(queue) \/ holds(buffer.reqs)
        \/ \E i \in DOMAIN requestStream : holds(requestStream[i])

(* No caller waits for nothing while transaction and stream are up: its      *)
(* request, or its demand for more answers, is on its way to the server, the *)
(* server works on it, or an answer is on its way back. So no batch loses an *)
(* entry, neither when the dispatcher empties its queue nor when a request   *)
(* finds the buffer full and the batch before it leaves early.               *)
RequestsUnderWay ==
    \A r \in Requests :
        outcome[r] = "waiting" /\ SinkAlive(r) /\ inbox[r] = <<>>
        /\ dispatcher # "done" /\ listener = "loop" /\ serverOpen
            => \/ Asking(r)
               \/ srv[r] = "running"
               \/ \E i \in DOMAIN responseStream : responseStream[i].req = r

(* Answers read by the callers of single() and stream(), against what the    *)
(* server sent: no item lost, repeated or out of order, and no stream that   *)
(* ends like a complete one before the server's Done, unless the driver was  *)
(* forced closed.                                                            *)
Contract ==
    INSTANCE AnswerContract WITH
        produced <- sent,
        finished <- [r \in Requests |-> srv[r] \in {"done", "broken"}],
        read <- got,
        state <- [r \in Requests |->
                    CASE outcome[r] \in {"idle", "waiting"} -> outcome[r]
                      [] outcome[r] \in {"answered", "end"} -> "complete"
                      [] OTHER -> "failed"],
        forced <- runtime = "stopped"

AnswersKept == Contract!Spec

(* Once both workers have ended, no sink is left in the queue or the map     *)
(* (the dispatcher may register one after the listener drained the map), so  *)
(* no caller waits on a channel nobody will ever write to or close.          *)
NoOrphanedSink ==
    dispatcher = "done" /\ ListenerGone => callbacks = {} /\ queue = <<>>

(* Flow control: a request for more parts is on its way only while the       *)
(* server has paused that query on a Continue, and only one of them.         *)
Outstanding(r) ==
    LET asks(s) == {i \in DOMAIN s : s[i] = ContinueRequest(r)}
    IN  <<asks(queue), asks(buffer.reqs),
          {i \in DOMAIN requestStream : asks(requestStream[i]) # {}}>>

ContinueMeetsPause ==
    \A r \in Streams :
        LET o == Outstanding(r) IN
        \A k \in 1..3, i \in 1..(Len(queue) + Len(buffer.reqs) + Len(requestStream)) :
            i \in o[k] => /\ srv[r] = "paused"
                          /\ \A l \in 1..3 : o[l] \subseteq (IF l = k THEN {i} ELSE {})

(* A close() that closed the transaction returns only after every callback   *)
(* recorded before it was called has run, unless the runtime was stopped or  *)
(* a callback killed the handler thread.                                     *)
CloseWaitsForCallbacks ==
    \A c \in Closers :
        closer[c] = "returned" /\ runtime # "stopped" /\ handlerAlive
            => \A h \in before[c] : hook[h] = "ran"

(* Where each callback is: a registration in the channel is "sent", a        *)
(* recorded one is in on_close, only the head of on_close is ever run, and   *)
(* a listener that is gone holds none.                                       *)
CallbacksLost == runtime = "stopped" \/ ~handlerAlive

HooksPlaced ==
    /\ \A i \in DOMAIN registrations : hook[registrations[i]] = "sent"
    /\ \A i, j \in DOMAIN registrations : registrations[i] = registrations[j] => i = j
    /\ \A i \in DOMAIN on_close :
         \/ hook[on_close[i]] = "recorded"
         \/ i = 1 /\ listener = "awaiting" /\ hook[on_close[i]] \in {"running", "ran", "panicked"}
    /\ \A i, j \in DOMAIN on_close : on_close[i] = on_close[j] => i = j
    /\ \A h \in Hooks : hook[h] = "recorded" => \E i \in DOMAIN on_close : on_close[i] = h
    /\ \A h \in Hooks : hook[h] = "running" =>
         runtime = "stopped" \/ (listener = "awaiting" /\ Head(on_close) = h)
    /\ \A h \in Hooks : hook[h] = "panicked" => ~handlerAlive
    /\ listener = "awaiting" => on_close # <<>>
    /\ ListenerGone => on_close = <<>> /\ registrations = <<>>
    /\ listener = "dead" => CallbacksLost
    /\ runtime = "stopped" => ListenerGone

(* The callbacks recorded before a close() stay ahead of its notifier.       *)
CloseOrdered ==
    \A c \in Closers :
        /\ closer[c] \in {"idle", "skipped"} => hook[c] = "none"
        /\ closer[c] = "returned" => hook[c] \in {"ran", "dropped"}
        /\ closer[c] \notin {"idle", "skipped"} => \A h \in before[c] :
             /\ hook[h] \notin {"none", "sent"}
             /\ hook[h] = "dropped" => CallbacksLost
             /\ hook[c] = "recorded" /\ hook[h] \in {"recorded", "running"}
                  => \A j \in DOMAIN on_close : on_close[j] = c =>
                        \E i \in 1..(j - 1) : on_close[i] = h
             /\ hook[c] \in {"running", "ran", "dropped"} => hook[h] = "ran" \/ CallbacksLost

(* Callbacks run in the order in which they were registered, the notifier of *)
(* a close() after those it must wait for: the inductive invariant behind    *)
(* CloseWaitsForCallbacks.                                                   *)
CallbackOrder == HooksPlaced /\ CloseOrdered

(* The comment of transaction_drop_sync (c/src/transaction.rs:107) expects   *)
(* of any close() that when it returns the callbacks have been invoked.      *)
CloseAlwaysWaits ==
    \A c \in Closers :
        closer[c] \in {"returned", "skipped"} /\ runtime = "open" /\ handlerAlive
            => \A h \in before[c] : hook[h] = "ran"

(* A callback the listener has recorded is lost only to a stopped runtime or *)
(* to the panic of an earlier one.                                           *)
RecordedNotLost ==
    [][\A h \in Hooks : hook[h] = "recorded" /\ hook'[h] = "dropped"
           => runtime' = "stopped" \/ ~handlerAlive]_vars

(* Every request is answered, fails or ends: none hangs.                     *)
RequestsResolve == \A r \in Requests : outcome[r] = "waiting" ~> outcome[r] # "waiting"

(* Every close() returns, whoever else closes the transaction meanwhile.     *)
CloseReturns ==
    \A c \in Closers : closer[c] \in {"registering", "notifying"}
        ~> closer[c] \in {"returned", "cancelled"}

(* Dropping the transaction closes it (submit_close() is a fire and forget   *)
(* close that drop() replaces, transmitter/transaction.rs:155): the          *)
(* dispatcher ends, and with it the request stream, which tells the server.  *)
DropCloses == dropped ~> dispatcher = "done"

=============================================================================
