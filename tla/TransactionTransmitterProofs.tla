-------------------- MODULE TransactionTransmitterProofs --------------------
(* Proofs about TransactionTransmitter, for any sets of requests, callbacks  *)
(* and close() calls.                                                        *)
EXTENDS TransactionTransmitter, SequenceTheorems, TLAPS

-----------------------------------------------------------------------------
(* Types. *)

LEMMA TypeInit == Init => TypeOK
<1> SUFFICES ASSUME Init PROVE TypeOK
  OBVIOUS
<1>1. FlagsOK /\ LifeOK
  BY DEF Init, FlagsOK, LifeOK
<1>2. DispatchOK
  BY DEF Init, DispatchOK, EmptyBuffer
<1>3. AnswersOK
  BY DEF Init, AnswersOK, Outcomes
<1>4. ServerOK /\ ListenerOK
  BY DEF Init, ServerOK, ListenerOK
<1>5. HooksOK /\ ClosersOK
  BY DEF Init, HooksOK, ClosersOK
<1> QED BY <1>1, <1>2, <1>3, <1>4, <1>5 DEF TypeOK

(* A group of variables that a step leaves alone keeps its type. *)
LEMMA Unchanged ==
    ASSUME TypeOK
    PROVE  /\ UNCHANGED flagVars => FlagsOK'
           /\ UNCHANGED dispatchVars => DispatchOK'
           /\ UNCHANGED answerVars => AnswersOK'
           /\ UNCHANGED serverVars => ServerOK'
           /\ UNCHANGED listenVars => ListenerOK'
           /\ UNCHANGED hookVars => HooksOK'
           /\ UNCHANGED closeVars => ClosersOK'
           /\ UNCHANGED lifeVars => LifeOK'
<1>1. UNCHANGED flagVars => FlagsOK'
  BY DEF TypeOK, FlagsOK, flagVars
<1>2. UNCHANGED dispatchVars => DispatchOK'
  BY DEF TypeOK, DispatchOK, dispatchVars
<1>3. UNCHANGED answerVars => AnswersOK'
  BY DEF TypeOK, AnswersOK, answerVars
<1>4. UNCHANGED serverVars => ServerOK'
  BY DEF TypeOK, ServerOK, serverVars
<1>5. UNCHANGED listenVars => ListenerOK'
  BY DEF TypeOK, ListenerOK, listenVars
<1>6. UNCHANGED hookVars => HooksOK'
  BY DEF TypeOK, HooksOK, hookVars
<1>7. UNCHANGED closeVars => ClosersOK'
  BY DEF TypeOK, ClosersOK, closeVars
<1>8. UNCHANGED lifeVars => LifeOK'
  BY DEF TypeOK, LifeOK, lifeVars
<1> QED BY <1>1, <1>2, <1>3, <1>4, <1>5, <1>6, <1>7, <1>8

LEMMA ClientType == ASSUME TypeOK, Client PROVE TypeOK'
<1> SUFFICES ASSUME NEW r \in Requests, Submit(r) \/ Read(r) \/ ReadEnd(r) \/ Abandon(r)
             PROVE  TypeOK'
  BY DEF Client
<1> USE DEF TypeOK
<1>1. CASE Submit(r)
  <2>1. ErrorSeen \in Outcomes
    BY DEF FlagsOK, ErrorSeen, Outcomes
  <2>2. \E o \in {ErrorSeen, "closed", "waiting"} : outcome' = [outcome EXCEPT ![r] = o]
    BY <1>1, Zenon DEF Submit
  <2>3. AnswersOK'
    BY <1>1, <2>1, <2>2 DEF AnswersOK, Submit, Outcomes
  <2>4. queue' \in {queue, Append(queue, NewRequest(r))} /\ NewRequest(r) \in Queued
    BY <1>1, Zenon DEF Submit, NewRequest, Queued
  <2>5. queue \in Seq(Queued)
    BY DEF DispatchOK
  <2>6. queue' \in Seq(Queued)
    BY <2>4, <2>5
  <2>7. DispatchOK'
    BY <1>1, <2>6 DEF DispatchOK, Submit
  <2> QED BY <1>1, <2>3, <2>7, Unchanged DEF Submit
<1>2. CASE Read(r)
  <2> DEFINE e == Head(inbox[r])
  <2>1. e \in Events /\ Tail(inbox[r]) \in Seq(Events)
    BY <1>2 DEF Read, AnswersOK
  <2>2. OutcomeOf(e) \in Outcomes
    BY <2>1 DEF OutcomeOf, Events, EventKinds, Outcomes
  <2>3. outcome' \in [Requests -> Outcomes]
    BY <1>2, <2>2 DEF Read, AnswersOK, Outcomes
  <2>4. got' \in [Requests -> Nat] /\ inbox' \in [Requests -> Seq(Events)]
    BY <1>2, <2>1 DEF Read, AnswersOK, Events
  <2>5. AnswersOK'
    BY <1>2, <2>3, <2>4 DEF AnswersOK, Read
  <2>6. queue' \in {queue, Append(queue, ContinueRequest(r))} /\ ContinueRequest(r) \in Queued
    BY <1>2, Zenon DEF Read, ContinueRequest, Queued
  <2>7. DispatchOK'
    BY <1>2, <2>6 DEF DispatchOK, Read
  <2> QED BY <1>2, <2>5, <2>7, Unchanged DEF Read
<1>3. CASE ReadEnd(r)
  <2>1. AnswersOK'
    BY <1>3 DEF ReadEnd, AnswersOK, Outcomes
  <2> QED BY <1>3, <2>1, Unchanged DEF ReadEnd
<1>4. CASE Abandon(r)
  <2>1. AnswersOK'
    BY <1>4 DEF Abandon, AnswersOK, Outcomes
  <2> QED BY <1>4, <2>1, Unchanged DEF Abandon
<1> QED BY <1>1, <1>2, <1>3, <1>4

LEMMA TransmitType ==
    ASSUME DispatchOK, NEW batch \in Seq(Queued) PROVE Transmit(batch) \in Seq(Seq(Queued))
<1>1. Transmit(batch) \in {requestStream, Append(requestStream, batch)}
  BY Zenon DEF Transmit
<1>2. requestStream \in Seq(Seq(Queued))
  BY DEF DispatchOK
<1>3. Append(requestStream, batch) \in Seq(Seq(Queued))
  <2> DEFINE S == Seq(Queued)
  <2>1. requestStream \in Seq(S) /\ batch \in S
    BY <1>2
  <2> HIDE DEF S
  <2>2. Append(requestStream, batch) \in Seq(S)
    BY <2>1
  <2> QED BY <2>2 DEF S
<1> QED BY <1>1, <1>2, <1>3

LEMMA DispatcherType == ASSUME TypeOK, Dispatcher PROVE TypeOK'
<1> USE DEF TypeOK
<1>1. CASE DispatchCheck
  <2>1. DispatchOK'
    BY <1>1 DEF DispatchCheck, DispatchOK
  <2> QED BY <1>1, <2>1, Unchanged DEF DispatchCheck
<1>2. CASE DispatchTake
  <2> DEFINE q == Head(queue)
  <2>1. q \in Queued /\ queue' \in Seq(Queued)
    BY <1>2 DEF DispatchTake, DispatchOK
  <2>2. EncodedLen(q) \in Nat /\ q.req \in Requests
    BY <2>1, ConstantsAssumption DEF EncodedLen, Queued
  <2>3. AnswersOK'
    BY <1>2, <2>2 DEF DispatchTake, AnswersOK
  <2>4. requestStream' \in Seq(Seq(Queued))
    BY <1>2, TransmitType DEF DispatchTake, Flushed, DispatchOK
  <2>5. buffer' \in [reqs : Seq(Queued), len : Nat]
    BY <1>2, <2>1, <2>2 DEF DispatchTake, DispatchOK, EmptyBuffer
  <2>6. DispatchOK'
    BY <1>2, <2>1, <2>4, <2>5 DEF DispatchOK, DispatchTake
  <2> QED BY <1>2, <2>3, <2>6, Unchanged DEF DispatchTake
<1>3. CASE DispatchFlush
  <2>1. requestStream' \in Seq(Seq(Queued))
    BY <1>3, TransmitType DEF DispatchFlush, DispatchOK
  <2>2. DispatchOK'
    BY <1>3, <2>1 DEF DispatchFlush, DispatchOK, EmptyBuffer
  <2> QED BY <1>3, <2>2, Unchanged DEF DispatchFlush
<1>4. CASE DispatchShutdown
  <2>1. requestStream' \in Seq(Seq(Queued))
    BY <1>4, TransmitType DEF DispatchShutdown, DispatchOK
  <2>2. DispatchOK'
    BY <1>4, <2>1 DEF DispatchShutdown, DispatchOK, EmptyBuffer
  <2>3. AnswersOK'
    BY <1>4 DEF DispatchShutdown, AnswersOK, SharedMap
  <2>4. FlagsOK'
    BY <1>4 DEF DispatchShutdown, FlagsOK
  <2> QED BY <1>4, <2>2, <2>3, <2>4, Unchanged DEF DispatchShutdown
<1> QED BY <1>1, <1>2, <1>3, <1>4 DEF Dispatcher

LEMMA ServerType == ASSUME TypeOK, Server PROVE TypeOK'
<1> USE DEF TypeOK
<1>1. CASE ServerReceive
  <2>1. ServerOK' /\ DispatchOK'
    BY <1>1 DEF ServerReceive, ServerOK, DispatchOK
  <2> QED BY <1>1, <2>1, Unchanged DEF ServerReceive
<1>2. CASE ServerEnd
  <2>1. EndOfStream \in Messages
    BY DEF Messages
  <2>2. responseStream \in Seq(Messages)
    BY DEF ServerOK
  <2>3. responseStream' \in Seq(Messages)
    BY <1>2, <2>1, <2>2 DEF ServerEnd
  <2>4. ServerOK'
    BY <1>2, <2>3 DEF ServerEnd, ServerOK
  <2> QED BY <1>2, <2>4, Unchanged DEF ServerEnd
<1>3. CASE StreamBreaks
  <2>1. PICK k \in 0..Len(responseStream) :
          responseStream' = Append(SubSeq(responseStream, 1, k), StatusError)
    BY <1>3 DEF StreamBreaks
  <2>2. SubSeq(responseStream, 1, k) \in Seq(Messages)
    BY SubSeqProperties DEF ServerOK
  <2>3. StatusError \in Messages
    BY DEF Messages
  <2>4. responseStream' \in Seq(Messages)
    BY <2>1, <2>2, <2>3
  <2>5. ServerOK'
    BY <1>3, <2>4 DEF StreamBreaks, ServerOK
  <2> QED BY <1>3, <2>5, Unchanged DEF StreamBreaks
<1>4. ASSUME NEW r \in Requests, ServerReply(r) PROVE TypeOK'
  <2>1. PICK p \in Replies(r) :
          LET numbered == p[1] \notin {"Done", "NoState", "BadRes", "BadRow"}
          IN /\ responseStream' = Append(responseStream,
                                    Message(r, p[1], IF numbered THEN sent[r] + 1 ELSE 0))
             /\ sent' = [sent EXCEPT ![r] = IF numbered THEN @ + 1 ELSE @]
             /\ srv' = [srv EXCEPT ![r] = p[2]]
    BY <1>4 DEF ServerReply
  <2>2. p[1] \in Items /\ p[2] \in {"running", "paused", "done", "broken"}
    BY DEF Replies, Items
  <2>3. \A n \in Nat : Message(r, p[1], n) \in Messages
    BY <2>2 DEF Messages, Message
  <2>4. responseStream' \in Seq(Messages)
    BY <2>1, <2>3 DEF ServerOK
  <2>5. sent' \in [Requests -> Nat]
    BY <2>1 DEF ServerOK
  <2>6. ServerOK'
    BY <1>4, <2>1, <2>2, <2>4, <2>5 DEF ServerReply, ServerOK
  <2> QED BY <1>4, <2>6, Unchanged DEF ServerReply
<1> QED BY <1>1, <1>2, <1>3, <1>4 DEF Server

LEMMA SignalType == Signal \in BOOLEAN
BY Zenon DEF Signal

LEMMA DeliverType ==
    ASSUME AnswersOK, NEW r \in Requests, NEW e \in Events, Deliver(r, e)
    PROVE  inbox' \in [Requests -> Seq(Events)]
BY DEF Deliver, AnswersOK

LEMMA EventType ==
    ASSUME NEW r \in Requests, NEW k \in EventKinds PROVE Event(r, k) \in Events
BY DEF Event, Message, Events

(* What the listener leaves behind when it goes. *)
LEMMA DropListenerType ==
    ASSUME TypeOK, NEW state \in {"done", "dead"}, DropListener(state),
           UNCHANGED <<inbox, outcome, got, cause, handlerAlive>>
    PROVE  AnswersOK' /\ ListenerOK' /\ HooksOK'
<1>1. AnswersOK' /\ ListenerOK'
  BY DEF DropListener, SharedMap, TypeOK, AnswersOK, ListenerOK
<1>2. hook' \in [Hooks -> {"none", "sent", "recorded", "running", "ran", "panicked", "dropped"}]
  BY DEF DropListener, DropHooks, TypeOK, HooksOK
<1>3. HooksOK'
  BY <1>2 DEF DropListener, TypeOK, HooksOK
<1> QED BY <1>1, <1>3

LEMMA ListenerType == ASSUME TypeOK, Listener PROVE TypeOK'
<1> USE DEF TypeOK
<1>1. CASE ListenMessage
  <2> DEFINE m == Head(responseStream)
  <2>1. m \in Messages /\ responseStream' \in Seq(Messages)
    BY <1>1 DEF ListenMessage, ServerOK
  <2>2. m.kind \in ResKinds \cup PartKinds /\ m \notin {EndOfStream, StatusError}
    BY <1>1 DEF ListenMessage, ResKinds, PartKinds, EndOfStream, StatusError
  <2>3. m.req \in Requests /\ m.kind \in Items /\ m.n \in Nat
        /\ m = [req |-> m.req, kind |-> m.kind, n |-> m.n]
    BY <2>1, <2>2 DEF Messages
  <2>4. m.kind \in EventKinds => m \in Events
    BY <2>3 DEF Events
  <2>5. inbox' \in [Requests -> Seq(Events)] /\ callbacks' \subseteq Requests
    <3>1. CASE CollectRes(m) /\ m.kind \in ResKinds
      <4>1. CASE m.req \notin callbacks
        BY <3>1, <4>1 DEF CollectRes, AnswersOK
      <4>2. CASE m.req \in callbacks
        <5> DEFINE e == IF m.kind = "BadRes" THEN Event(m.req, "Undecodable") ELSE m
        <5>1. e \in Events
          BY <2>3, <2>4, <3>1, EventType DEF ResKinds, EventKinds
        <5>2. Deliver(m.req, e)
          BY <3>1, <4>2 DEF CollectRes
        <5>3. inbox' \in [Requests -> Seq(Events)]
          BY <2>3, <5>1, <5>2, DeliverType
        <5> QED BY <3>1, <4>2, <5>3 DEF CollectRes, AnswersOK
      <4> QED BY <4>1, <4>2
    <3>2. CASE CollectPart(m)
      <4>1. CASE m.kind \in {"Row", "Continue", "Error"} /\ m.req \in callbacks
        <5>1. m \in Events
          BY <2>4, <4>1 DEF EventKinds
        <5>2. inbox' \in [Requests -> Seq(Events)]
          BY <2>3, <3>2, <4>1, <5>1, DeliverType DEF CollectPart
        <5> QED BY <3>2, <5>2 DEF CollectPart, AnswersOK
      <4>2. CASE ~(m.kind \in {"Row", "Continue", "Error"} /\ m.req \in callbacks)
        BY <3>2, <4>2 DEF CollectPart, AnswersOK
      <4> QED BY <4>1, <4>2
    <3> QED BY <1>1, <3>1, <3>2 DEF ListenMessage
  <2>6. AnswersOK'
    BY <1>1, <2>5 DEF ListenMessage, AnswersOK
  <2>7. ListenerOK' /\ ServerOK'
    BY <1>1, <2>1 DEF ListenMessage, ListenerOK, ServerOK
  <2> QED BY <1>1, <2>6, <2>7, Unchanged DEF ListenMessage
<1>2. CASE ListenEnd
  <2>1. FlagsOK'
    BY <1>2 DEF ListenEnd, FlagsOK
  <2>2. ListenerOK'
    BY <1>2 DEF ListenEnd, ListenerOK
  <2>3. ServerOK'
    BY <1>2 DEF ListenEnd, ServerOK
  <2> QED BY <1>2, <2>1, <2>2, <2>3, Unchanged DEF ListenEnd
<1>3. CASE ListenStoreError
  <2>1. FlagsOK' /\ ListenerOK'
    BY <1>3 DEF ListenStoreError, FlagsOK, ListenerOK
  <2> QED BY <1>3, <2>1, Unchanged DEF ListenStoreError
<1>4. CASE ListenDrain
  <2>1. \A r \in Requests : FinishSinks[r] \in Seq(Events)
    <3> SUFFICES ASSUME NEW r \in Requests PROVE FinishSinks[r] \in Seq(Events)
      OBVIOUS
    <3>1. Event(r, "Close") \in Events /\ Event(r, "Status") \in Events
      BY EventType DEF EventKinds
    <3>2. inbox[r] \in Seq(Events)
      BY DEF AnswersOK
    <3> QED BY <3>1, <3>2 DEF FinishSinks
  <2>2. inbox' \in [Requests -> Seq(Events)]
    BY <1>4, <2>1 DEF ListenDrain, FinishSinks
  <2>3. AnswersOK' /\ ListenerOK'
    BY <1>4, <2>2 DEF ListenDrain, AnswersOK, ListenerOK
  <2> QED BY <1>4, <2>3, Unchanged DEF ListenDrain
<1>5. CASE ListenInvoke
  <2>1. CASE handlerAlive
    <3>1. HooksOK'
      BY <1>5, <2>1 DEF ListenInvoke, HooksOK
    <3>2. ListenerOK' /\ AnswersOK'
      BY <1>5, <2>1 DEF ListenInvoke, ListenerOK, AnswersOK
    <3> QED BY <1>5, <3>1, <3>2, Unchanged DEF ListenInvoke
  <2>2. CASE ~handlerAlive
    <3>1. AnswersOK' /\ ListenerOK' /\ HooksOK'
      BY <1>5, <2>2, DropListenerType DEF ListenInvoke
    <3> QED BY <1>5, <3>1, Unchanged DEF ListenInvoke
  <2> QED BY <2>1, <2>2
<1>6. CASE ListenReply
  <2>1. ListenerOK'
    BY <1>6 DEF ListenReply, ListenerOK
  <2>2. HooksOK'
    BY <1>6 DEF ListenReply, HooksOK
  <2> QED BY <1>6, <2>1, <2>2, Unchanged DEF ListenReply
<1>7. CASE ListenFinish
  <2>1. AnswersOK' /\ ListenerOK' /\ HooksOK'
    BY <1>7, DropListenerType DEF ListenFinish
  <2>2. FlagsOK'
    <3>1. shutdown' = Signal /\ is_open' = is_open /\ error' = error
      BY <1>7 DEF ListenFinish
    <3> QED BY <3>1, SignalType DEF FlagsOK
  <2> QED BY <1>7, <2>1, <2>2, Unchanged DEF ListenFinish
<1>8. CASE ListenRegister
  <2>1. HooksOK'
    BY <1>8 DEF ListenRegister, HooksOK, Record
  <2> QED BY <1>8, <2>1, Unchanged DEF ListenRegister
<1> QED BY <1>1, <1>2, <1>3, <1>4, <1>5, <1>6, <1>7, <1>8 DEF Listener

LEMMA SendRegistrationType ==
    ASSUME HooksOK, NEW h \in Hooks, SendRegistration(h), UNCHANGED <<on_close, handlerAlive>>
    PROVE  HooksOK'
BY DEF SendRegistration, HooksOK

LEMMA ClosingType == ASSUME TypeOK, Closing PROVE TypeOK'
<1> USE DEF TypeOK
<1>1. ASSUME NEW h \in Callbacks, OnClose(h) PROVE TypeOK'
  <2>1. HooksOK'
    BY <1>1, SendRegistrationType DEF OnClose, Hooks
  <2> QED BY <1>1, <2>1, Unchanged DEF OnClose
<1>2. ASSUME NEW c \in Closers, CloseBegin(c) PROVE TypeOK'
  <2>1. c \in Hooks
    BY DEF Hooks
  <2>2. ClosersOK'
    BY <1>2 DEF CloseBegin, ClosersOK
  <2>3. CASE runtime \in {"open", "signalled"} /\ is_open
    <3>1. HooksOK'
      BY <1>2, <2>1, <2>3, SendRegistrationType DEF CloseBegin
    <3>2. FlagsOK'
      BY <1>2, <2>3 DEF CloseBegin, FlagsOK
    <3> QED BY <1>2, <2>2, <3>1, <3>2, Unchanged DEF CloseBegin
  <2>4. CASE ~(runtime \in {"open", "signalled"} /\ is_open)
    <3>1. UNCHANGED hookVars /\ UNCHANGED flagVars
      BY <1>2, <2>4 DEF CloseBegin, hookVars, flagVars
    <3> QED BY <1>2, <2>2, <3>1, Unchanged DEF CloseBegin
  <2> QED BY <2>3, <2>4
<1>3. ASSUME NEW c \in Closers, CloseSignal(c) PROVE TypeOK'
  <2>1. ClosersOK'
    BY <1>3 DEF CloseSignal, ClosersOK
  <2>2. FlagsOK'
    BY <1>3, SignalType DEF CloseSignal, FlagsOK
  <2> QED BY <1>3, <2>1, <2>2, Unchanged DEF CloseSignal
<1>4. ASSUME NEW c \in Closers, CloseReturn(c) PROVE TypeOK'
  <2>1. ClosersOK'
    BY <1>4 DEF CloseReturn, ClosersOK
  <2> QED BY <1>4, <2>1, Unchanged DEF CloseReturn
<1>5. ASSUME NEW c \in Closers, CloseCancel(c) PROVE TypeOK'
  <2>1. ClosersOK'
    BY <1>5 DEF CloseCancel, ClosersOK
  <2> QED BY <1>5, <2>1, Unchanged DEF CloseCancel
<1>6. CASE Drop
  <2>1. shutdown' \in {Signal, shutdown}
    BY <1>6, Zenon DEF Drop
  <2>2. FlagsOK' /\ LifeOK'
    BY <1>6, <2>1, SignalType DEF Drop, FlagsOK, LifeOK
  <2> QED BY <1>6, <2>2, Unchanged DEF Drop
<1> QED BY <1>1, <1>2, <1>3, <1>4, <1>5, <1>6 DEF Closing

LEMMA RuntimeType == ASSUME TypeOK, Runtime PROVE TypeOK'
<1> USE DEF TypeOK
<1>1. CASE ForceCloseSignal
  <2>1. FlagsOK' /\ LifeOK'
    BY <1>1, SignalType DEF ForceCloseSignal, FlagsOK, LifeOK
  <2> QED BY <1>1, <2>1, Unchanged DEF ForceCloseSignal
<1>2. CASE RuntimeForceClose
  <2>1. LifeOK'
    BY <1>2 DEF RuntimeForceClose, LifeOK
  <2> QED BY <1>2, <2>1, Unchanged DEF RuntimeForceClose
<1>3. CASE WorkerStop
  <2>1. LifeOK'
    BY <1>3 DEF WorkerStop, LifeOK
  <2>2. CASE DropListener("dead")
    <3>1. AnswersOK' /\ ListenerOK' /\ HooksOK'
      BY <1>3, <2>2, DropListenerType DEF WorkerStop
    <3> QED BY <1>3, <2>1, <3>1, Unchanged DEF WorkerStop
  <2>3. CASE UNCHANGED <<listener, hook, registrations, on_close, callbacks>>
    <3>1. AnswersOK' /\ ListenerOK' /\ HooksOK'
      BY <1>3, <2>3 DEF WorkerStop, AnswersOK, ListenerOK, HooksOK
    <3> QED BY <1>3, <2>1, <3>1, Unchanged DEF WorkerStop
  <2> QED BY <1>3, <2>2, <2>3 DEF WorkerStop
<1>4. ASSUME NEW h \in Hooks, HandlerRun(h) PROVE TypeOK'
  <2>1. handlerAlive' \in BOOLEAN
    BY <1>4, Zenon DEF HandlerRun
  <2>2. HooksOK'
    BY <1>4, <2>1 DEF HandlerRun, HooksOK
  <2> QED BY <1>4, <2>2, Unchanged DEF HandlerRun
<1> QED BY <1>1, <1>2, <1>3, <1>4 DEF Runtime

LEMMA TypeNext == TypeOK /\ [Next]_vars => TypeOK'
<1> SUFFICES ASSUME TypeOK, [Next]_vars PROVE TypeOK'
  OBVIOUS
<1>1. CASE UNCHANGED vars
  BY <1>1, Unchanged DEF vars, TypeOK
<1>2. CASE Next
  BY <1>2, ClientType, DispatcherType, ServerType, ListenerType, ClosingType, RuntimeType
    DEF Next
<1> QED BY <1>1, <1>2

(* The transmitter's state keeps its types, whatever the clients, the server *)
(* and the runtime do.                                                       *)
THEOREM TypeCorrect == Spec => []TypeOK
BY TypeInit, TypeNext, PTL DEF Spec

-----------------------------------------------------------------------------
(* No orphaned sink. The invariant is inductive once the receiving end of    *)
(* the queue is known to be gone with the dispatcher.                        *)

SinkInv == (dispatcher = "done" => queue = <<>>) /\ NoOrphanedSink

LEMMA SinkInit == Init => SinkInv
BY DEF Init, SinkInv, NoOrphanedSink, ListenerGone

(* Steps that touch neither the queue, the workers nor the map. *)
LEMMA SinkUnchanged ==
    SinkInv /\ UNCHANGED <<queue, dispatcher, listener, callbacks>> => SinkInv'
BY DEF SinkInv, NoOrphanedSink, ListenerGone

LEMMA SinkNext == SinkInv /\ [Next]_vars => SinkInv'
<1> SUFFICES ASSUME SinkInv, [Next]_vars PROVE SinkInv'
  OBVIOUS
<1> USE DEF SinkInv, NoOrphanedSink, ListenerGone
<1>1. ASSUME NEW r \in Requests, Submit(r) PROVE SinkInv'
  BY <1>1 DEF Submit, listenVars
<1>2. ASSUME NEW r \in Requests, Read(r) PROVE SinkInv'
  BY <1>2 DEF Read, listenVars
<1>3. ASSUME NEW r \in Requests, ReadEnd(r) \/ Abandon(r) PROVE SinkInv'
  BY <1>3, SinkUnchanged DEF ReadEnd, Abandon, dispatchVars, listenVars
<1>4. CASE DispatchCheck \/ DispatchTake \/ DispatchFlush
  BY <1>4 DEF DispatchCheck, DispatchTake, DispatchFlush
<1>5. CASE DispatchShutdown
  BY <1>5 DEF DispatchShutdown, SharedMap, listenVars
<1>6. CASE Server
  BY <1>6, SinkUnchanged DEF Server, ServerReceive, ServerEnd, StreamBreaks, ServerReply,
    dispatchVars, answerVars, listenVars
<1>7. CASE ListenMessage \/ ListenEnd \/ ListenStoreError \/ ListenDrain \/ ListenReply
  BY <1>7 DEF ListenMessage, ListenEnd, ListenStoreError, ListenDrain, ListenReply,
    dispatchVars
<1>8. CASE ListenInvoke \/ ListenFinish
  BY <1>8 DEF ListenInvoke, ListenFinish, DropListener, SharedMap, dispatchVars
<1>9. CASE ListenRegister
  BY <1>9, SinkUnchanged DEF ListenRegister, dispatchVars, answerVars, listenVars
<1>10. CASE Closing
  BY <1>10, SinkUnchanged DEF Closing, OnClose, CloseBegin, CloseSignal, CloseReturn,
    CloseCancel, Drop, dispatchVars, answerVars, listenVars
<1>11. CASE ForceCloseSignal \/ RuntimeForceClose \/ \E h \in Hooks : HandlerRun(h)
  BY <1>11, SinkUnchanged DEF ForceCloseSignal, RuntimeForceClose, HandlerRun,
    dispatchVars, answerVars, listenVars
<1>12. CASE WorkerStop
  BY <1>12 DEF WorkerStop, DropListener, SharedMap, dispatchVars
<1>13. CASE UNCHANGED vars
  BY <1>13, SinkUnchanged DEF vars, dispatchVars, answerVars, listenVars
<1> QED BY <1>1, <1>2, <1>3, <1>4, <1>5, <1>6, <1>7, <1>8, <1>9, <1>10, <1>11, <1>12, <1>13
  DEF Next, Client, Dispatcher, Listener, Runtime

(* When both workers have ended, no sink is left that nobody will answer.    *)
THEOREM SinksNotOrphaned == Spec => []NoOrphanedSink
<1>1. SinkInv => NoOrphanedSink
  BY DEF SinkInv
<1> QED BY <1>1, SinkInit, SinkNext, PTL DEF Spec

-----------------------------------------------------------------------------
(* close() waits for the callbacks. CallbackOrder is inductive: callbacks    *)
(* are recorded, run and removed in the order of one sequence, in which the  *)
(* notifier of a close() is behind those recorded before the call.           *)

LEMMA OrderInit == Init => CallbackOrder
BY DEF Init, CallbackOrder, HooksPlaced, CloseOrdered, ListenerGone, Hooks

(* Steps of the listener before it takes the callbacks, of the runtime       *)
(* before it stops, and of everyone else.                                    *)
LEMMA OrderKept ==
    ASSUME CallbackOrder, UNCHANGED <<hookVars, closeVars>>,
           listener' = listener \/ {listener, listener'} \cap {"awaiting", "done", "dead"} = {},
           runtime' = runtime \/ (runtime # "stopped" /\ runtime' # "stopped")
    PROVE  CallbackOrder'
<1>1. HooksPlaced'
  BY DEF CallbackOrder, HooksPlaced, ListenerGone, CallbacksLost, hookVars
<1>2. CloseOrdered'
  BY DEF CallbackOrder, CloseOrdered, CallbacksLost, hookVars, closeVars
<1> QED BY <1>1, <1>2 DEF CallbackOrder

(* What becomes of the callbacks when the listener goes: those it has not    *)
(* handed over are dropped, the others stay as they are.                     *)
LEMMA DropEffect ==
    ASSUME TypeOK, CallbackOrder, NEW state, DropListener(state)
    PROVE  /\ listener' = state /\ on_close' = <<>> /\ registrations' = <<>>
           /\ \A h \in Hooks : \/ hook'[h] = hook[h] /\ hook[h] # "recorded"
                               \/ hook[h] \in {"sent", "recorded"} /\ hook'[h] = "dropped"
<1>1. listener' = state /\ on_close' = <<>> /\ registrations' = <<>>
  BY DEF DropListener
<1>2. ASSUME NEW h \in Hooks
      PROVE  \/ hook'[h] = hook[h] /\ hook[h] # "recorded"
             \/ hook[h] \in {"sent", "recorded"} /\ hook'[h] = "dropped"
  <2> DEFINE hs == Elements(registrations) \cup {k \in Elements(on_close) : hook[k] = "recorded"}
  <2>1. hook'[h] = IF h \in hs THEN "dropped" ELSE hook[h]
    BY DEF DropListener, DropHooks
  <2>2. h \in hs => hook[h] \in {"sent", "recorded"}
    BY DEF CallbackOrder, HooksPlaced, Elements
  <2>3. hook[h] = "recorded" => h \in hs
    BY DEF CallbackOrder, HooksPlaced, Elements
  <2> QED BY <2>1, <2>2, <2>3
<1> QED BY <1>1, <1>2

(* The listener may go when it has run the callbacks, or when they are lost. *)
LEMMA OrderDrop ==
    ASSUME TypeOK, CallbackOrder, NEW state \in {"done", "dead"}, DropListener(state),
           UNCHANGED <<handlerAlive, closer, before>>,
           runtime' = "stopped" \/ (runtime' = runtime /\ listener = "callbacks"),
           CallbacksLost' \/ (state = "done" /\ on_close = <<>>)
    PROVE  CallbackOrder'
<1> DEFINE Effect(h) == \/ hook'[h] = hook[h] /\ hook[h] # "recorded"
                        \/ hook[h] \in {"sent", "recorded"} /\ hook'[h] = "dropped"
<1>1. /\ listener' = state /\ on_close' = <<>> /\ registrations' = <<>>
      /\ \A h \in Hooks : Effect(h)
  BY DropEffect
<1>2. CallbacksLost => CallbacksLost'
  BY DEF CallbacksLost
<1>3. HooksPlaced'
  <2>1. \A h \in Hooks : hook'[h] = "running" => runtime' = "stopped"
    <3> SUFFICES ASSUME NEW h \in Hooks, hook'[h] = "running" PROVE runtime' = "stopped"
      OBVIOUS
    <3>1. hook[h] = "running"
      BY <1>1
    <3>2. runtime = "stopped" \/ (listener = "awaiting" /\ Head(on_close) = h)
      BY <3>1 DEF CallbackOrder, HooksPlaced
    <3> QED BY <3>2
  <2>2. \A h \in Hooks : hook'[h] = "panicked" => ~handlerAlive'
    BY <1>1 DEF CallbackOrder, HooksPlaced
  <2>3. \A h \in Hooks : hook'[h] # "recorded"
    BY <1>1
  <2>4. listener' = "dead" => CallbacksLost'
    BY <1>1
  <2> QED BY <1>1, <2>1, <2>2, <2>3, <2>4 DEF HooksPlaced, ListenerGone
<1>4. CloseOrdered'
  <2> SUFFICES ASSUME NEW c \in Closers
               PROVE  /\ closer[c] \in {"idle", "skipped"} => hook'[c] = "none"
                      /\ closer[c] = "returned" => hook'[c] \in {"ran", "dropped"}
                      /\ closer[c] \notin {"idle", "skipped"} => \A h \in before[c] :
                           /\ hook'[h] \notin {"none", "sent"}
                           /\ hook'[h] = "dropped" => CallbacksLost'
                           /\ hook'[h] = "ran" \/ CallbacksLost'
    BY <1>1 DEF CloseOrdered
  <2>1. c \in Hooks /\ Effect(c)
    BY <1>1 DEF Hooks
  <2>2. /\ closer[c] \in {"idle", "skipped"} => hook'[c] = "none"
        /\ closer[c] = "returned" => hook'[c] \in {"ran", "dropped"}
    BY <2>1 DEF CallbackOrder, CloseOrdered
  <2>3. ASSUME closer[c] \notin {"idle", "skipped"}, NEW h \in before[c]
        PROVE  /\ hook'[h] \notin {"none", "sent"}
               /\ hook'[h] = "dropped" => CallbacksLost'
               /\ hook'[h] = "ran" \/ CallbacksLost'
    <3>1. h \in Hooks /\ Effect(h)
      BY <1>1 DEF TypeOK, ClosersOK, Hooks
    <3>2. hook[h] \notin {"none", "sent"} /\ (hook[h] = "dropped" => CallbacksLost)
      BY <2>3 DEF CallbackOrder, CloseOrdered
    <3>3. hook[h] \in {"recorded", "running", "ran", "panicked", "dropped"}
      BY <3>1, <3>2 DEF TypeOK, HooksOK
    <3>4. ~CallbacksLost' => hook[h] = "ran"
      <4>1. hook[h] = "panicked" => ~handlerAlive
        BY <3>1 DEF CallbackOrder, HooksPlaced
      <4>2. on_close = <<>> => hook[h] # "recorded"
        BY <3>1 DEF CallbackOrder, HooksPlaced
      <4>3. hook[h] = "running" => runtime = "stopped" \/ listener = "awaiting"
        BY <3>1 DEF CallbackOrder, HooksPlaced
      <4> QED BY <1>2, <3>2, <3>3, <4>1, <4>2, <4>3 DEF CallbacksLost
    <3> QED BY <1>2, <3>1, <3>2, <3>3, <3>4
  <2> QED BY <2>2, <2>3
<1> QED BY <1>3, <1>4 DEF CallbackOrder

LEMMA OrderInvoke == ASSUME TypeOK, CallbackOrder, ListenInvoke PROVE CallbackOrder'
<1>1. CASE handlerAlive
  <2> DEFINE h0 == Head(on_close)
  <2>1. /\ listener = "callbacks" /\ listener' = "awaiting" /\ on_close # <<>>
        /\ hook' = [hook EXCEPT ![h0] = "running"]
        /\ UNCHANGED <<registrations, on_close, handlerAlive, runtime, closer, before>>
    BY <1>1 DEF ListenInvoke, closeVars, lifeVars
  <2>2. on_close \in Seq(Hooks) /\ 1 \in DOMAIN on_close /\ h0 = on_close[1] /\ h0 \in Hooks
    BY <2>1 DEF TypeOK, HooksOK
  <2>3. hook[h0] = "recorded"
    BY <2>1, <2>2 DEF CallbackOrder, HooksPlaced
  <2>4. \A h \in Hooks : h # h0 => hook'[h] = hook[h]
    BY <2>1 DEF TypeOK, HooksOK
  <2>5. hook'[h0] = "running"
    BY <2>1, <2>2 DEF TypeOK, HooksOK
  <2>6. HooksPlaced'
    BY <2>1, <2>2, <2>3, <2>4, <2>5
      DEF CallbackOrder, HooksPlaced, ListenerGone, CallbacksLost, TypeOK, HooksOK
  <2>7. CloseOrdered'
    BY <2>1, <2>2, <2>3, <2>4, <2>5
      DEF CallbackOrder, HooksPlaced, CloseOrdered, CallbacksLost, TypeOK, HooksOK, ClosersOK, Hooks
  <2> QED BY <2>6, <2>7 DEF CallbackOrder
<1>2. CASE ~handlerAlive
  <2>1. /\ DropListener("dead") /\ listener = "callbacks"
        /\ UNCHANGED <<handlerAlive, runtime, closer, before>>
    BY <1>2 DEF ListenInvoke, closeVars, lifeVars
  <2> QED BY <1>2, <2>1, OrderDrop DEF CallbacksLost
<1> QED BY <1>1, <1>2

LEMMA OrderReply == ASSUME TypeOK, CallbackOrder, ListenReply PROVE CallbackOrder'
<1> DEFINE h0 == Head(on_close)
<1>1. /\ listener = "awaiting" /\ listener' = "callbacks" /\ on_close # <<>>
      /\ hook[h0] \in {"ran", "panicked"} /\ on_close' = Tail(on_close)
      /\ UNCHANGED <<registrations, hook, handlerAlive, runtime, closer, before>>
  BY DEF ListenReply, closeVars, lifeVars
<1>2. /\ on_close \in Seq(Hooks) /\ 1 \in DOMAIN on_close /\ h0 = on_close[1] /\ h0 \in Hooks
      /\ DOMAIN on_close = 1..Len(on_close) /\ DOMAIN on_close' = 1..(Len(on_close) - 1)
      /\ \A i \in DOMAIN on_close' : i + 1 \in DOMAIN on_close /\ on_close'[i] = on_close[i + 1]
  BY <1>1 DEF TypeOK, HooksOK
<1>3. HooksPlaced'
  <2>1. \A h \in Hooks : hook[h] = "recorded" => \E i \in DOMAIN on_close' : on_close'[i] = h
    <3> SUFFICES ASSUME NEW h \in Hooks, hook[h] = "recorded"
                 PROVE  \E i \in DOMAIN on_close' : on_close'[i] = h
      OBVIOUS
    <3>1. PICK j \in DOMAIN on_close : on_close[j] = h
      BY DEF CallbackOrder, HooksPlaced
    <3>2. j # 1
      BY <1>1, <1>2, <3>1
    <3>3. j - 1 \in DOMAIN on_close' /\ on_close'[j - 1] = h
      BY <1>2, <3>1, <3>2
    <3> QED BY <3>3
  <2>2. \A i \in DOMAIN on_close' : hook[on_close'[i]] = "recorded"
    BY <1>2 DEF CallbackOrder, HooksPlaced
  <2>3. \A i, j \in DOMAIN on_close' : on_close'[i] = on_close'[j] => i = j
    <3> SUFFICES ASSUME NEW i \in DOMAIN on_close', NEW j \in DOMAIN on_close',
                        on_close'[i] = on_close'[j]
                 PROVE  i = j
      OBVIOUS
    <3>1. i + 1 = j + 1
      BY <1>2 DEF CallbackOrder, HooksPlaced
    <3> QED BY <1>2, <3>1
  <2>4. \A h \in Hooks : hook[h] = "running" => runtime = "stopped"
    BY <1>1 DEF CallbackOrder, HooksPlaced
  <2> QED BY <1>1, <2>1, <2>2, <2>3, <2>4 DEF CallbackOrder, HooksPlaced, ListenerGone
<1>4. CloseOrdered'
  <2>1. ASSUME NEW c \in Closers, closer[c] \notin {"idle", "skipped"}, NEW h \in before[c],
               hook[c] = "recorded", hook[h] \in {"recorded", "running"},
               NEW j \in DOMAIN on_close', on_close'[j] = c
        PROVE  \E i \in 1..(j - 1) : on_close'[i] = h
    <3>1. j + 1 \in DOMAIN on_close /\ on_close[j + 1] = c
      BY <1>2, <2>1
    <3>2. PICK i \in 1..((j + 1) - 1) : on_close[i] = h
      BY <2>1, <3>1 DEF CallbackOrder, CloseOrdered
    <3>3. i # 1
      BY <1>1, <1>2, <2>1, <3>2
    <3>4. i - 1 \in 1..(j - 1) /\ on_close'[i - 1] = on_close[(i - 1) + 1]
      BY <1>2, <3>2, <3>3
    <3> QED BY <1>2, <3>2, <3>4
  <2> QED BY <1>1, <2>1 DEF CallbackOrder, CloseOrdered, CallbacksLost
<1> QED BY <1>3, <1>4 DEF CallbackOrder

LEMMA OrderRegister == ASSUME TypeOK, CallbackOrder, ListenRegister PROVE CallbackOrder'
<1> DEFINE h0 == Head(registrations)
<1>1. /\ listener = "loop" /\ registrations # <<>>
      /\ on_close' = Append(on_close, h0) /\ registrations' = Tail(registrations)
      /\ hook' = [hook EXCEPT ![h0] = "recorded"]
      /\ UNCHANGED <<listener, handlerAlive, runtime, closer, before>>
  BY DEF ListenRegister, Record, closeVars, lifeVars, listenVars
<1>2. /\ h0 \in Hooks /\ 1 \in DOMAIN registrations /\ h0 = registrations[1]
      /\ DOMAIN registrations' = 1..(Len(registrations) - 1)
      /\ \A i \in DOMAIN registrations' :
           i + 1 \in DOMAIN registrations /\ registrations'[i] = registrations[i + 1]
  BY <1>1 DEF TypeOK, HooksOK
<1>3. /\ Len(on_close) \in Nat /\ DOMAIN on_close = 1..Len(on_close)
      /\ DOMAIN on_close' = 1..(Len(on_close) + 1)
      /\ \A i \in DOMAIN on_close : on_close'[i] = on_close[i]
      /\ on_close'[Len(on_close) + 1] = h0
  BY <1>1, <1>2 DEF TypeOK, HooksOK
<1>4. \A h \in Hooks : hook'[h] = IF h = h0 THEN "recorded" ELSE hook[h]
  BY <1>1, <1>2 DEF TypeOK, HooksOK
<1>5. hook[h0] = "sent" /\ \A i \in DOMAIN on_close : on_close[i] # h0 /\ on_close[i] \in Hooks
  BY <1>1, <1>2 DEF CallbackOrder, HooksPlaced, TypeOK, HooksOK
<1>6. HooksPlaced'
  <2>1. \A i \in DOMAIN registrations' : registrations'[i] # h0 /\ registrations'[i] \in Hooks
                                        /\ hook'[registrations'[i]] = "sent"
    <3> SUFFICES ASSUME NEW i \in DOMAIN registrations'
                 PROVE  registrations'[i] # h0 /\ registrations'[i] \in Hooks
                        /\ hook'[registrations'[i]] = "sent"
      OBVIOUS
    <3>1. i + 1 \in DOMAIN registrations /\ i + 1 # 1 /\ registrations[i + 1] \in Hooks
      BY <1>2 DEF TypeOK, HooksOK
    <3>2. registrations[i + 1] # h0 /\ hook[registrations[i + 1]] = "sent"
      BY <1>2, <3>1 DEF CallbackOrder, HooksPlaced
    <3> QED BY <1>2, <1>4, <3>1, <3>2
  <2>2. \A i, j \in DOMAIN registrations' : registrations'[i] = registrations'[j] => i = j
    <3> SUFFICES ASSUME NEW i \in DOMAIN registrations', NEW j \in DOMAIN registrations',
                        registrations'[i] = registrations'[j]
                 PROVE  i = j
      OBVIOUS
    <3>1. i + 1 = j + 1
      BY <1>2 DEF CallbackOrder, HooksPlaced
    <3> QED BY <1>2, <3>1
  <2>3. \A i \in DOMAIN on_close' : hook'[on_close'[i]] = "recorded"
    BY <1>1, <1>2, <1>3, <1>4, <1>5 DEF CallbackOrder, HooksPlaced
  <2>4. \A i, j \in DOMAIN on_close' : on_close'[i] = on_close'[j] => i = j
    BY <1>3, <1>5 DEF CallbackOrder, HooksPlaced
  <2>5. \A h \in Hooks : hook'[h] = "recorded" => \E i \in DOMAIN on_close' : on_close'[i] = h
    BY <1>3, <1>4 DEF CallbackOrder, HooksPlaced
  <2>6. \A h \in Hooks : /\ hook'[h] = "running" => runtime = "stopped"
                         /\ hook'[h] = "panicked" => ~handlerAlive
    BY <1>1, <1>4 DEF CallbackOrder, HooksPlaced
  <2>7. runtime # "stopped"
    BY <1>1 DEF CallbackOrder, HooksPlaced, ListenerGone
  <2> QED BY <1>1, <2>1, <2>2, <2>3, <2>4, <2>5, <2>6, <2>7 DEF HooksPlaced, ListenerGone
<1>7. CloseOrdered'
  <2> SUFFICES ASSUME NEW c \in Closers PROVE CloseOrdered!(c)'
    BY DEF CloseOrdered
  <2>1. c \in Hooks /\ before[c] \subseteq Hooks
    BY DEF Hooks, TypeOK, ClosersOK
  <2>2. /\ closer[c] \in {"idle", "skipped"} => hook'[c] = "none"
        /\ closer[c] = "returned" => hook'[c] \in {"ran", "dropped"}
    BY <1>4, <1>5, <2>1 DEF CallbackOrder, CloseOrdered
  <2>3. ASSUME closer[c] \notin {"idle", "skipped"}, NEW h \in before[c]
        PROVE  /\ hook'[h] = hook[h] /\ hook[h] \notin {"none", "sent"}
               /\ hook[h] = "dropped" => CallbacksLost
    BY <1>4, <1>5, <2>1, <2>3 DEF CallbackOrder, CloseOrdered
  <2>4. ASSUME closer[c] \notin {"idle", "skipped"}, NEW h \in before[c],
               hook[h] \in {"recorded", "running"}, hook'[c] = "recorded",
               NEW j \in DOMAIN on_close', on_close'[j] = c
        PROVE  \E i \in 1..(j - 1) : on_close'[i] = h
    <3>1. CASE c = h0
      <4>1. j = Len(on_close) + 1
        BY <1>3, <1>5, <2>4, <3>1
      <4>2. hook[h] = "recorded"
        BY <1>1, <2>1, <2>4 DEF CallbackOrder, HooksPlaced, ListenerGone
      <4> QED BY <1>3, <2>1, <2>4, <4>1, <4>2 DEF CallbackOrder, HooksPlaced
    <3>2. CASE c # h0
      <4>1. j \in DOMAIN on_close /\ on_close[j] = c /\ hook[c] = "recorded"
        BY <1>3, <1>4, <2>1, <2>4, <3>2
      <4>2. PICK i \in 1..(j - 1) : on_close[i] = h
        BY <2>4, <4>1 DEF CallbackOrder, CloseOrdered
      <4> QED BY <1>3, <4>1, <4>2
    <3> QED BY <3>1, <3>2
  <2>5. ASSUME closer[c] \notin {"idle", "skipped"}, NEW h \in before[c],
               hook'[c] \in {"running", "ran", "dropped"}
        PROVE  hook[h] = "ran" \/ CallbacksLost
    BY <1>4, <2>1, <2>5 DEF CallbackOrder, CloseOrdered
  <2> QED BY <1>1, <2>2, <2>3, <2>4, <2>5 DEF CallbacksLost
<1> QED BY <1>6, <1>7 DEF CallbackOrder

LEMMA OrderHandler ==
    ASSUME TypeOK, CallbackOrder, NEW h0 \in Hooks, HandlerRun(h0) PROVE CallbackOrder'
<1>1. /\ handlerAlive /\ hook[h0] = "running"
      /\ \A h \in Hooks : h # h0 => hook'[h] = hook[h]
      /\ hook'[h0] = "ran" \/ (hook'[h0] = "panicked" /\ ~handlerAlive')
      /\ UNCHANGED <<listener, registrations, on_close, runtime, closer, before>>
  BY DEF HandlerRun, TypeOK, HooksOK, listenVars, closeVars, lifeVars
<1>2. CallbacksLost => CallbacksLost'
  BY <1>1 DEF CallbacksLost
<1>3. /\ \A i \in DOMAIN registrations : registrations[i] \in Hooks
      /\ \A i \in DOMAIN on_close : on_close[i] \in Hooks
  BY DEF TypeOK, HooksOK
<1>4. HooksPlaced'
  <2>1. \A i \in DOMAIN registrations : hook'[registrations[i]] = "sent"
    BY <1>1, <1>3 DEF CallbackOrder, HooksPlaced
  <2>2. \A i \in DOMAIN on_close :
          \/ hook'[on_close[i]] = "recorded"
          \/ i = 1 /\ listener = "awaiting" /\ hook'[on_close[i]] \in {"running", "ran", "panicked"}
    BY <1>1, <1>3 DEF CallbackOrder, HooksPlaced
  <2>3. \A h \in Hooks : hook'[h] \in {"recorded", "running"} => hook[h] = hook'[h]
    BY <1>1
  <2>4. \A h \in Hooks : hook'[h] = "panicked" => ~handlerAlive'
    BY <1>1 DEF CallbackOrder, HooksPlaced
  <2> QED BY <1>1, <1>2, <2>1, <2>2, <2>3, <2>4 DEF CallbackOrder, HooksPlaced, ListenerGone
<1>5. CloseOrdered'
  <2> SUFFICES ASSUME NEW c \in Closers PROVE CloseOrdered!(c)'
    BY DEF CloseOrdered
  <2>1. c \in Hooks /\ before[c] \subseteq Hooks
    BY DEF Hooks, TypeOK, ClosersOK
  <2>2. /\ closer[c] \in {"idle", "skipped"} => hook'[c] = "none"
        /\ closer[c] = "returned" => hook'[c] \in {"ran", "dropped"}
    BY <1>1, <2>1 DEF CallbackOrder, CloseOrdered
  <2>3. ASSUME closer[c] \notin {"idle", "skipped"}, NEW h \in before[c]
        PROVE  /\ hook'[h] \notin {"none", "sent"}
               /\ hook'[h] = "dropped" => CallbacksLost'
               /\ hook'[h] \in {"recorded", "running"} => hook[h] = hook'[h]
               /\ hook[h] = "ran" => hook'[h] = "ran"
    BY <1>1, <1>2, <2>1, <2>3 DEF CallbackOrder, CloseOrdered
  <2>4. hook'[c] = "recorded" => hook[c] = "recorded"
    BY <1>1, <2>1
  <2>5. hook'[c] \in {"running", "ran", "dropped"} => hook[c] \in {"running", "ran", "dropped"}
    BY <1>1, <2>1
  <2> QED BY <1>1, <1>2, <2>2, <2>3, <2>4, <2>5 DEF CallbackOrder, CloseOrdered
<1> QED BY <1>4, <1>5 DEF CallbackOrder

(* A registration is sent: by on_close() or by the close() that won.         *)
LEMMA SendEffect ==
    ASSUME TypeOK, CallbackOrder, NEW h0 \in Hooks, hook[h0] = "none", SendRegistration(h0),
           UNCHANGED <<listener, on_close, handlerAlive, runtime>>
    PROVE  /\ HooksPlaced'
           /\ \A h \in Hooks : h # h0 => hook'[h] = hook[h]
           /\ hook'[h0] = IF ListenerGone THEN "dropped" ELSE "sent"
<1>1. /\ \A h \in Hooks : h # h0 => hook'[h] = hook[h]
      /\ hook'[h0] = IF ListenerGone THEN "dropped" ELSE "sent"
  BY DEF SendRegistration, TypeOK, HooksOK
<1>2. /\ \A i \in DOMAIN registrations : registrations[i] \in Hooks /\ registrations[i] # h0
      /\ \A i \in DOMAIN on_close : on_close[i] \in Hooks /\ on_close[i] # h0
  BY DEF TypeOK, HooksOK, CallbackOrder, HooksPlaced
<1>3. CASE ListenerGone
  <2>1. registrations' = registrations /\ hook'[h0] = "dropped"
    BY <1>1, <1>3 DEF SendRegistration
  <2>2. HooksPlaced'
    BY <1>1, <1>2, <2>1 DEF CallbackOrder, HooksPlaced, ListenerGone, CallbacksLost
  <2> QED BY <1>1, <2>2
<1>4. CASE ~ListenerGone
  <2>1. registrations' = Append(registrations, h0) /\ hook'[h0] = "sent"
    BY <1>1, <1>4 DEF SendRegistration
  <2>2. /\ Len(registrations) \in Nat /\ DOMAIN registrations = 1..Len(registrations)
        /\ DOMAIN registrations' = 1..(Len(registrations) + 1)
        /\ \A i \in DOMAIN registrations : registrations'[i] = registrations[i]
        /\ registrations'[Len(registrations) + 1] = h0
    BY <2>1 DEF TypeOK, HooksOK
  <2>3. \A i \in DOMAIN registrations' : hook'[registrations'[i]] = "sent"
    BY <1>1, <1>2, <2>1, <2>2 DEF CallbackOrder, HooksPlaced
  <2>4. \A i, j \in DOMAIN registrations' : registrations'[i] = registrations'[j] => i = j
    BY <1>2, <2>2 DEF CallbackOrder, HooksPlaced
  <2>5. HooksPlaced'
    BY <1>1, <1>2, <1>4, <2>1, <2>3, <2>4
      DEF CallbackOrder, HooksPlaced, ListenerGone, CallbacksLost
  <2> QED BY <1>1, <2>5
<1> QED BY <1>3, <1>4

LEMMA OrderOnClose ==
    ASSUME TypeOK, CallbackOrder, NEW h0 \in Callbacks, OnClose(h0) PROVE CallbackOrder'
<1>1. /\ h0 \in Hooks /\ hook[h0] = "none" /\ SendRegistration(h0)
      /\ UNCHANGED <<listener, on_close, handlerAlive, runtime, closer, before>>
  BY DEF OnClose, Hooks, listenVars, closeVars, lifeVars
<1>2. HooksPlaced' /\ \A h \in Hooks : h # h0 => hook'[h] = hook[h]
  BY <1>1, SendEffect
<1>3. CloseOrdered'
  <2> SUFFICES ASSUME NEW c \in Closers PROVE CloseOrdered!(c)'
    BY DEF CloseOrdered
  <2>1. c \in Hooks /\ before[c] \subseteq Hooks /\ c # h0
    BY ConstantsAssumption DEF Hooks, TypeOK, ClosersOK
  <2>2. hook'[c] = hook[c]
    BY <1>2, <2>1
  <2>3. closer[c] \notin {"idle", "skipped"} => \A h \in before[c] : hook'[h] = hook[h]
    BY <1>1, <1>2, <2>1 DEF CallbackOrder, CloseOrdered
  <2> QED BY <1>1, <2>2, <2>3 DEF CallbackOrder, CloseOrdered, CallbacksLost
<1> QED BY <1>2, <1>3 DEF CallbackOrder

LEMMA OrderCloseBegin ==
    ASSUME TypeOK, CallbackOrder, NEW c0 \in Closers, CloseBegin(c0) PROVE CallbackOrder'
<1> DEFINE now == {h \in Callbacks : hook[h] \in {"recorded", "running"}}
<1>1. /\ closer[c0] = "idle" /\ hook[c0] = "none" /\ c0 \in Hooks
      /\ UNCHANGED <<listener, on_close, handlerAlive, runtime>>
      /\ before' = [before EXCEPT ![c0] = now]
  BY DEF CloseBegin, CallbackOrder, CloseOrdered, Hooks, listenVars, lifeVars
<1>2. /\ before'[c0] = now
      /\ \A c \in Closers : c # c0 => before'[c] = before[c]
  BY <1>1 DEF TypeOK, ClosersOK
<1>3. CASE runtime \in {"open", "signalled"} /\ is_open
  <2>1. SendRegistration(c0) /\ closer' = [closer EXCEPT ![c0] = "registering"]
    BY <1>3 DEF CloseBegin
  <2>2. closer'[c0] = "registering" /\ \A c \in Closers : c # c0 => closer'[c] = closer[c]
    BY <2>1 DEF TypeOK, ClosersOK
  <2>3. /\ HooksPlaced' /\ \A h \in Hooks : h # c0 => hook'[h] = hook[h]
        /\ hook'[c0] = IF ListenerGone THEN "dropped" ELSE "sent"
    BY <1>1, <2>1, SendEffect
  <2>4. CloseOrdered'
    <3> SUFFICES ASSUME NEW c \in Closers PROVE CloseOrdered!(c)'
      BY DEF CloseOrdered
    <3>1. CASE c # c0
      <4>1. c \in Hooks /\ before[c] \subseteq Hooks /\ c0 \notin before[c]
        BY ConstantsAssumption DEF Hooks, TypeOK, ClosersOK
      <4>2. hook'[c] = hook[c] /\ \A h \in before[c] : hook'[h] = hook[h]
        BY <2>3, <3>1, <4>1
      <4> QED BY <1>1, <1>2, <2>2, <3>1, <4>2 DEF CallbackOrder, CloseOrdered, CallbacksLost
    <3>2. CASE c = c0
      <4>1. \A h \in now : h \in Hooks /\ hook'[h] = hook[h] /\ hook[h] \in {"recorded", "running"}
        BY <2>3, ConstantsAssumption DEF Hooks
      <4>2. ListenerGone => now = {} \/ CallbacksLost
        BY DEF CallbackOrder, HooksPlaced, CallbacksLost, ListenerGone, Hooks
      <4> QED BY <1>1, <1>2, <2>2, <2>3, <3>2, <4>1, <4>2 DEF CallbacksLost
    <3> QED BY <3>1, <3>2
  <2> QED BY <2>3, <2>4 DEF CallbackOrder
<1>4. CASE ~(runtime \in {"open", "signalled"} /\ is_open)
  <2>1. closer' = [closer EXCEPT ![c0] = "skipped"] /\ UNCHANGED <<registrations, hook>>
    BY <1>4 DEF CloseBegin
  <2>2. closer'[c0] = "skipped" /\ \A c \in Closers : c # c0 => closer'[c] = closer[c]
    BY <2>1 DEF TypeOK, ClosersOK
  <2>3. HooksPlaced'
    BY <1>1, <2>1 DEF CallbackOrder, HooksPlaced, ListenerGone, CallbacksLost
  <2>4. CloseOrdered'
    BY <1>1, <1>2, <2>1, <2>2 DEF CallbackOrder, CloseOrdered, CallbacksLost
  <2> QED BY <2>3, <2>4 DEF CallbackOrder
<1> QED BY <1>3, <1>4

(* The later steps of close() change the state of that call alone.           *)
LEMMA OrderCloser ==
    ASSUME TypeOK, CallbackOrder, NEW c0 \in Closers,
           CloseSignal(c0) \/ CloseReturn(c0) \/ CloseCancel(c0)
    PROVE  CallbackOrder'
<1>1. /\ closer[c0] \notin {"idle", "skipped"}
      /\ \A c \in Closers : c # c0 => closer'[c] = closer[c]
      /\ closer'[c0] \notin {"idle", "skipped"}
      /\ closer'[c0] = "returned" => hook[c0] \in {"ran", "dropped"}
      /\ UNCHANGED <<listener, registrations, on_close, hook, handlerAlive, before, runtime>>
  BY DEF CloseSignal, CloseReturn, CloseCancel, TypeOK, ClosersOK, listenVars, hookVars, lifeVars
<1>2. HooksPlaced'
  BY <1>1 DEF CallbackOrder, HooksPlaced, ListenerGone, CallbacksLost
<1>3. CloseOrdered'
  BY <1>1 DEF CallbackOrder, CloseOrdered, CallbacksLost
<1> QED BY <1>2, <1>3 DEF CallbackOrder

LEMMA OrderNext == TypeOK /\ CallbackOrder /\ [Next]_vars => CallbackOrder'
<1> SUFFICES ASSUME TypeOK, CallbackOrder, [Next]_vars PROVE CallbackOrder'
  OBVIOUS
<1>1. CASE Client
  BY <1>1, OrderKept DEF Client, Submit, Read, ReadEnd, Abandon, listenVars, lifeVars
<1>2. CASE Dispatcher
  BY <1>2, OrderKept DEF Dispatcher, DispatchCheck, DispatchTake, DispatchFlush,
    DispatchShutdown, listenVars, lifeVars
<1>3. CASE Server
  BY <1>3, OrderKept DEF Server, ServerReceive, ServerEnd, StreamBreaks, ServerReply,
    listenVars, lifeVars
<1>4. CASE ListenMessage \/ ListenEnd \/ ListenStoreError \/ ListenDrain
  BY <1>4, OrderKept DEF ListenMessage, ListenEnd, ListenStoreError, ListenDrain, lifeVars
<1>5. CASE ListenFinish
  <2>1. /\ DropListener("done") /\ listener = "callbacks" /\ on_close = <<>>
        /\ UNCHANGED <<handlerAlive, runtime, closer, before>>
    BY <1>5 DEF ListenFinish, AllInvoked, closeVars, lifeVars
  <2> QED BY <2>1, OrderDrop
<1>6. CASE ListenInvoke \/ ListenReply \/ ListenRegister
  BY <1>6, OrderInvoke, OrderReply, OrderRegister
<1>7. CASE Drop \/ ForceCloseSignal \/ RuntimeForceClose
  BY <1>7, OrderKept DEF Drop, ForceCloseSignal, RuntimeForceClose, listenVars
<1>8. CASE WorkerStop
  <2>1. runtime' = "stopped" /\ UNCHANGED <<handlerAlive, closer, before>>
    BY <1>8 DEF WorkerStop, closeVars
  <2>2. CASE DropListener("dead")
    BY <2>1, <2>2, OrderDrop DEF CallbacksLost
  <2>3. CASE ListenerGone /\ UNCHANGED <<listener, hook, registrations, on_close, callbacks>>
    <3>1. HooksPlaced'
      BY <2>1, <2>3 DEF CallbackOrder, HooksPlaced, ListenerGone, CallbacksLost
    <3>2. CloseOrdered'
      BY <2>1, <2>3 DEF CallbackOrder, CloseOrdered, CallbacksLost
    <3> QED BY <3>1, <3>2 DEF CallbackOrder
  <2> QED BY <1>8, <2>2, <2>3 DEF WorkerStop
<1>9. CASE Closing \/ Runtime
  BY <1>7, <1>8, <1>9, OrderOnClose, OrderCloseBegin, OrderCloser, OrderHandler
    DEF Closing, Runtime
<1>10. CASE UNCHANGED vars
  BY <1>10, OrderKept DEF vars, listenVars, lifeVars
<1> QED BY <1>1, <1>2, <1>3, <1>4, <1>5, <1>6, <1>9, <1>10 DEF Next, Listener

(* Callbacks are run one at a time in the order in which the listener        *)
(* recorded them, and each is in the channel, in on_close, running or over.  *)
THEOREM CallbacksOrdered == Spec => []CallbackOrder
BY TypeInit, TypeNext, OrderInit, OrderNext, PTL DEF Spec

(* A close() that closed the transaction returns only after every callback   *)
(* recorded before the call has run, unless they were lost with a stopped    *)
(* runtime or a dead handler thread.                                         *)
THEOREM CloseWaits == Spec => []CloseWaitsForCallbacks
<1>1. CallbackOrder => CloseWaitsForCallbacks
  BY DEF CallbackOrder, CloseOrdered, CloseWaitsForCallbacks, CallbacksLost
<1> QED BY <1>1, CallbacksOrdered, PTL

-----------------------------------------------------------------------------
(* Only three steps drop callbacks: a listener that finds the handler dead,  *)
(* one that has run all of them, and the runtime that stops.                 *)
LEMMA RecordedStep ==
    ASSUME TypeOK, CallbackOrder, [Next]_vars, NEW h \in Hooks,
           hook[h] = "recorded", hook'[h] = "dropped"
    PROVE  runtime' = "stopped" \/ ~handlerAlive
<1>1. hook' # hook
  OBVIOUS
<1>2. CASE Client \/ Dispatcher \/ Server
  BY <1>1, <1>2 DEF Client, Submit, Read, ReadEnd, Abandon, Dispatcher, DispatchCheck,
    DispatchTake, DispatchFlush, DispatchShutdown, Server, ServerReceive, ServerEnd,
    StreamBreaks, ServerReply, hookVars
<1>3. CASE ListenMessage \/ ListenEnd \/ ListenStoreError \/ ListenDrain \/ ListenReply
  BY <1>1, <1>3 DEF ListenMessage, ListenEnd, ListenStoreError, ListenDrain, ListenReply, hookVars
<1>4. CASE ListenInvoke
  BY <1>4 DEF ListenInvoke, TypeOK, HooksOK
<1>5. CASE ListenFinish
  BY <1>5 DEF ListenFinish, AllInvoked, CallbackOrder, HooksPlaced
<1>6. CASE ListenRegister
  BY <1>6 DEF ListenRegister, TypeOK, HooksOK
<1>7. ASSUME NEW h0 \in Callbacks, OnClose(h0) PROVE FALSE
  BY <1>7 DEF OnClose, SendRegistration, TypeOK, HooksOK
<1>8. ASSUME NEW c \in Closers, CloseBegin(c) PROVE FALSE
  <2>1. hook[c] = "none"
    BY <1>8 DEF CloseBegin, CallbackOrder, CloseOrdered
  <2> QED BY <1>1, <1>8, <2>1 DEF CloseBegin, SendRegistration, TypeOK, HooksOK
<1>9. ASSUME NEW c \in Closers, CloseSignal(c) \/ CloseReturn(c) \/ CloseCancel(c) PROVE FALSE
  BY <1>1, <1>9 DEF CloseSignal, CloseReturn, CloseCancel, hookVars
<1>10. CASE Drop \/ ForceCloseSignal \/ RuntimeForceClose
  BY <1>1, <1>10 DEF Drop, ForceCloseSignal, RuntimeForceClose, hookVars
<1>11. CASE WorkerStop
  BY <1>11 DEF WorkerStop
<1>12. ASSUME NEW h0 \in Hooks, HandlerRun(h0) PROVE FALSE
  BY <1>12 DEF HandlerRun, TypeOK, HooksOK
<1>13. CASE UNCHANGED vars
  BY <1>1, <1>13 DEF vars, hookVars
<1> QED BY <1>2, <1>3, <1>4, <1>5, <1>6, <1>7, <1>8, <1>9, <1>10, <1>11, <1>12, <1>13
  DEF Next, Listener, Closing, Runtime

(* Once the listener has recorded a callback, only a stopped runtime or a    *)
(* dead handler thread loses it.                                             *)
THEOREM RecordedKept == Spec => RecordedNotLost
<1>1. TypeOK /\ CallbackOrder /\ [Next]_vars =>
        [\A h \in Hooks : hook[h] = "recorded" /\ hook'[h] = "dropped"
             => runtime' = "stopped" \/ ~handlerAlive]_vars
  BY RecordedStep
<1> QED BY <1>1, TypeCorrect, CallbacksOrdered, PTL DEF Spec, RecordedNotLost

=============================================================================
