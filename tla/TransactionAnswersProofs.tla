---------------------- MODULE TransactionAnswersProofs ----------------------
(* Proofs about the answers of a transaction, for any sets of requests.      *)
EXTENDS TransactionTransmitterProofs

-----------------------------------------------------------------------------
(* Sequences.                                                                *)

LEMMA AppendAt ==
    ASSUME NEW S, NEW s \in Seq(S), NEW x \in S
    PROVE  /\ Append(s, x) \in Seq(S) /\ Len(s) \in Nat /\ Len(Append(s, x)) = Len(s) + 1
           /\ DOMAIN s = 1..Len(s) /\ DOMAIN Append(s, x) = 1..(Len(s) + 1)
           /\ \A i \in DOMAIN s : Append(s, x)[i] = s[i]
           /\ Append(s, x)[Len(s) + 1] = x
<1>1. Append(s, x) \in Seq(S)
  BY AppendProperties
<1> QED BY <1>1, AppendProperties, LenProperties

LEMMA TailAt ==
    ASSUME NEW S, NEW s \in Seq(S), s # <<>>
    PROVE  /\ Tail(s) \in Seq(S) /\ Head(s) \in S /\ Head(s) = s[1]
           /\ Len(s) \in Nat /\ Len(s) > 0 /\ Len(Tail(s)) = Len(s) - 1
           /\ DOMAIN s = 1..Len(s) /\ DOMAIN Tail(s) = 1..(Len(s) - 1)
           /\ \A i \in DOMAIN Tail(s) : i + 1 \in DOMAIN s /\ Tail(s)[i] = s[i + 1]
<1>1. Tail(s) \in Seq(S) /\ Len(Tail(s)) = Len(s) - 1 /\ Len(s) \in Nat /\ Len(s) > 0
  BY HeadTailProperties, EmptySeq, LenProperties
<1>2. DOMAIN s = 1..Len(s) /\ DOMAIN Tail(s) = 1..(Len(s) - 1)
  BY <1>1, LenProperties
<1> QED BY <1>1, <1>2, HeadTailProperties

-----------------------------------------------------------------------------
(* Flow control. Per request, at most one entry is on its way from the       *)
(* caller to the server, and it meets the server in the state it was made    *)
(* for: the first entry a server that does not know the request, a later one *)
(* a server that has paused it. While the Continue of a pause is on its way  *)
(* to the caller, there is no entry: nobody has answered it yet.             *)

Holds(s, r) == \E i \in DOMAIN s : s[i].req = r
HoldsOne(s, r) == \A i, j \in DOMAIN s : s[i].req = r /\ s[j].req = r => i = j
Fits(s, r, state) ==
    \A i \in DOMAIN s : s[i].req = r => state = IF s[i].new THEN "idle" ELSE "paused"

Streamed(t, r) == \E i \in DOMAIN t : Holds(t[i], r)
StreamedOne(t, r) == \A i, j \in DOMAIN t : Holds(t[i], r) /\ Holds(t[j], r) => i = j
StreamFits(t, r, state) == \A i \in DOMAIN t : Fits(t[i], r, state)

Pause(m, r) == m.kind = "Continue" /\ m.req = r
Pauses(s, r) == \E i \in DOMAIN s : Pause(s[i], r)
PausesOnce(s, r) == \A i, j \in DOMAIN s : Pause(s[i], r) /\ Pause(s[j], r) => i = j

NoEntry(r) == ~Holds(queue, r) /\ ~Holds(buffer.reqs, r) /\ ~Streamed(requestStream, r)

OneEntry(r) ==
    /\ HoldsOne(queue, r) /\ HoldsOne(buffer.reqs, r) /\ StreamedOne(requestStream, r)
    /\ Holds(queue, r) => ~Holds(buffer.reqs, r) /\ ~Streamed(requestStream, r)
    /\ Holds(buffer.reqs, r) => ~Streamed(requestStream, r)

EntriesFit(r) ==
    /\ Fits(queue, r, srv[r]) /\ Fits(buffer.reqs, r, srv[r])
    /\ StreamFits(requestStream, r, srv[r])

PausesOpen(r) ==
    /\ PausesOnce(responseStream, r) /\ PausesOnce(inbox[r], r)
    /\ ~(Pauses(responseStream, r) /\ Pauses(inbox[r], r))
    /\ Pauses(responseStream, r) \/ Pauses(inbox[r], r) => srv[r] = "paused" /\ NoEntry(r)

Addressed(r) == \A i \in DOMAIN inbox[r] : inbox[r][i].req = r

Unasked(r) == outcome[r] = "idle" => srv[r] = "idle" /\ NoEntry(r)

FlowOf(r) == OneEntry(r) /\ EntriesFit(r) /\ PausesOpen(r) /\ Addressed(r) /\ Unasked(r)
FlowInv == \A r \in Requests : FlowOf(r)

(* What appending to a queue, or taking its head, does to these predicates.  *)
LEMMA EmptyHolds ==
    ASSUME NEW r, NEW state
    PROVE  /\ ~Holds(<<>>, r) /\ HoldsOne(<<>>, r) /\ Fits(<<>>, r, state)
           /\ ~Pauses(<<>>, r) /\ PausesOnce(<<>>, r)
           /\ ~Streamed(<<>>, r) /\ StreamedOne(<<>>, r) /\ StreamFits(<<>>, r, state)
BY DEF Holds, HoldsOne, Fits, Pauses, PausesOnce, Streamed, StreamedOne, StreamFits

LEMMA HoldsAppend ==
    ASSUME NEW s \in Seq(Queued), NEW q \in Queued, NEW r, NEW state
    PROVE  /\ Holds(Append(s, q), r) <=> Holds(s, r) \/ q.req = r
           /\ HoldsOne(s, r) /\ (Holds(s, r) => q.req # r) => HoldsOne(Append(s, q), r)
           /\ Fits(Append(s, q), r, state) <=>
                /\ Fits(s, r, state)
                /\ q.req = r => state = IF q.new THEN "idle" ELSE "paused"
<1>1. Holds(Append(s, q), r) <=> Holds(s, r) \/ q.req = r
  BY AppendAt DEF Holds
<1>2. HoldsOne(s, r) /\ (Holds(s, r) => q.req # r) => HoldsOne(Append(s, q), r)
  BY AppendAt DEF Holds, HoldsOne
<1>3. Fits(Append(s, q), r, state) <=>
        Fits(s, r, state) /\ (q.req = r => state = IF q.new THEN "idle" ELSE "paused")
  BY AppendAt DEF Fits
<1> QED BY <1>1, <1>2, <1>3

LEMMA HoldsTail ==
    ASSUME NEW s \in Seq(Queued), s # <<>>, NEW r, NEW state
    PROVE  /\ Holds(s, r) <=> Head(s).req = r \/ Holds(Tail(s), r)
           /\ HoldsOne(s, r) => /\ HoldsOne(Tail(s), r)
                                /\ Head(s).req = r => ~Holds(Tail(s), r)
           /\ Fits(s, r, state) =>
                /\ Fits(Tail(s), r, state)
                /\ Head(s).req = r => state = IF Head(s).new THEN "idle" ELSE "paused"
<1>1. ASSUME Holds(s, r), Head(s).req # r PROVE Holds(Tail(s), r)
  <2>1. PICK i \in DOMAIN s : s[i].req = r
    BY <1>1 DEF Holds
  <2>2. i - 1 \in DOMAIN Tail(s) /\ Tail(s)[i - 1] = s[i]
    BY <1>1, <2>1, TailAt
  <2> QED BY <2>1, <2>2 DEF Holds
<1>2. Holds(Tail(s), r) \/ Head(s).req = r => Holds(s, r)
  BY TailAt DEF Holds
<1>3. ASSUME HoldsOne(s, r), NEW i \in DOMAIN Tail(s), Tail(s)[i].req = r
      PROVE  Head(s).req # r
  <2>1. i + 1 \in DOMAIN s /\ s[i + 1].req = r /\ i + 1 # 1 /\ 1 \in DOMAIN s /\ Head(s) = s[1]
    BY <1>3, TailAt
  <2> QED BY <1>3, <2>1 DEF HoldsOne
<1>4. ASSUME HoldsOne(s, r), NEW i \in DOMAIN Tail(s), NEW j \in DOMAIN Tail(s),
             Tail(s)[i].req = r, Tail(s)[j].req = r
      PROVE  i = j
  <2>1. i + 1 = j + 1
    BY <1>4, TailAt DEF HoldsOne
  <2> QED BY <2>1, TailAt
<1>5. HoldsOne(s, r) => HoldsOne(Tail(s), r)
  BY <1>4 DEF HoldsOne
<1>6. HoldsOne(s, r) => (Head(s).req = r => ~Holds(Tail(s), r))
  BY <1>3 DEF Holds
<1>7. Fits(s, r, state) =>
        /\ Fits(Tail(s), r, state)
        /\ Head(s).req = r => state = IF Head(s).new THEN "idle" ELSE "paused"
  BY TailAt DEF Fits
<1> QED BY <1>1, <1>2, <1>5, <1>6, <1>7

LEMMA StreamedAppend ==
    ASSUME NEW t \in Seq(Seq(Queued)), NEW b \in Seq(Queued), NEW r, NEW state
    PROVE  /\ Streamed(Append(t, b), r) <=> Streamed(t, r) \/ Holds(b, r)
           /\ StreamedOne(t, r) /\ ~(Streamed(t, r) /\ Holds(b, r)) => StreamedOne(Append(t, b), r)
           /\ StreamFits(Append(t, b), r, state) <=> StreamFits(t, r, state) /\ Fits(b, r, state)
<1> DEFINE n == Len(t) + 1
<1>1. /\ DOMAIN Append(t, b) = DOMAIN t \cup {n} /\ n \notin DOMAIN t
      /\ \A i \in DOMAIN t : Append(t, b)[i] = t[i]
      /\ Append(t, b)[n] = b
  BY AppendAt
<1> HIDE DEF n
<1>2. Streamed(Append(t, b), r) <=> Streamed(t, r) \/ Holds(b, r)
  BY <1>1 DEF Streamed
<1>3. StreamedOne(t, r) /\ ~(Streamed(t, r) /\ Holds(b, r)) => StreamedOne(Append(t, b), r)
  BY <1>1 DEF Streamed, StreamedOne
<1>4. StreamFits(Append(t, b), r, state) <=> StreamFits(t, r, state) /\ Fits(b, r, state)
  BY <1>1 DEF StreamFits
<1> QED BY <1>2, <1>3, <1>4

LEMMA StreamedTail ==
    ASSUME NEW t \in Seq(Seq(Queued)), t # <<>>, NEW r, NEW state
    PROVE  /\ Streamed(t, r) <=> Holds(Head(t), r) \/ Streamed(Tail(t), r)
           /\ StreamedOne(t, r) => /\ StreamedOne(Tail(t), r)
                                   /\ Holds(Head(t), r) => ~Streamed(Tail(t), r)
           /\ StreamFits(t, r, state) => StreamFits(Tail(t), r, state) /\ Fits(Head(t), r, state)
<1>1. ASSUME Streamed(t, r), ~Holds(Head(t), r) PROVE Streamed(Tail(t), r)
  <2>1. PICK i \in DOMAIN t : Holds(t[i], r)
    BY <1>1 DEF Streamed
  <2>2. /\ DOMAIN t = 1..Len(t) /\ DOMAIN Tail(t) = 1..(Len(t) - 1) /\ Len(t) \in Nat
        /\ Head(t) = t[1]
        /\ \A j \in DOMAIN Tail(t) : Tail(t)[j] = t[j + 1]
    BY TailAt
  <2>3. i # 1
    BY <1>1, <2>1, <2>2
  <2>4. i - 1 \in DOMAIN Tail(t) /\ (i - 1) + 1 = i
    BY <2>1, <2>2, <2>3
  <2>5. Tail(t)[i - 1] = t[i]
    BY <2>2, <2>4
  <2> QED BY <2>1, <2>4, <2>5 DEF Streamed
<1>2. Streamed(Tail(t), r) \/ Holds(Head(t), r) => Streamed(t, r)
  BY TailAt DEF Streamed
<1>3. ASSUME StreamedOne(t, r), NEW i \in DOMAIN Tail(t), Holds(Tail(t)[i], r)
      PROVE  ~Holds(Head(t), r)
  <2>1. i + 1 \in DOMAIN t /\ Holds(t[i + 1], r) /\ i + 1 # 1 /\ 1 \in DOMAIN t /\ Head(t) = t[1]
    BY <1>3, TailAt
  <2> QED BY <1>3, <2>1 DEF StreamedOne
<1>4. ASSUME StreamedOne(t, r), NEW i \in DOMAIN Tail(t), NEW j \in DOMAIN Tail(t),
             Holds(Tail(t)[i], r), Holds(Tail(t)[j], r)
      PROVE  i = j
  <2>1. i + 1 = j + 1
    BY <1>4, TailAt DEF StreamedOne
  <2> QED BY <2>1, TailAt
<1>5. StreamedOne(t, r) => StreamedOne(Tail(t), r)
  BY <1>4 DEF StreamedOne
<1>6. StreamedOne(t, r) => (Holds(Head(t), r) => ~Streamed(Tail(t), r))
  BY <1>3 DEF Streamed
<1>7. StreamFits(t, r, state) => StreamFits(Tail(t), r, state) /\ Fits(Head(t), r, state)
  BY TailAt DEF StreamFits
<1> QED BY <1>1, <1>2, <1>5, <1>6, <1>7

LEMMA PausesAppend ==
    ASSUME NEW S, NEW s \in Seq(S), NEW m \in S, NEW r
    PROVE  /\ Pauses(Append(s, m), r) <=> Pauses(s, r) \/ Pause(m, r)
           /\ PausesOnce(s, r) /\ ~(Pauses(s, r) /\ Pause(m, r)) => PausesOnce(Append(s, m), r)
<1>1. Pauses(Append(s, m), r) <=> Pauses(s, r) \/ Pause(m, r)
  BY AppendAt DEF Pauses
<1>2. PausesOnce(s, r) /\ ~(Pauses(s, r) /\ Pause(m, r)) => PausesOnce(Append(s, m), r)
  BY AppendAt DEF Pauses, PausesOnce
<1> QED BY <1>1, <1>2

LEMMA PausesTail ==
    ASSUME NEW S, NEW s \in Seq(S), s # <<>>, NEW r
    PROVE  /\ Pauses(Tail(s), r) \/ Pause(Head(s), r) => Pauses(s, r)
           /\ PausesOnce(s, r) => /\ PausesOnce(Tail(s), r)
                                  /\ Pause(Head(s), r) => ~Pauses(Tail(s), r)
<1>1. Pauses(Tail(s), r) \/ Pause(Head(s), r) => Pauses(s, r)
  BY TailAt DEF Pauses
<1>2. ASSUME PausesOnce(s, r), NEW i \in DOMAIN Tail(s), Pause(Tail(s)[i], r)
      PROVE  ~Pause(Head(s), r)
  <2>1. i + 1 \in DOMAIN s /\ Pause(s[i + 1], r) /\ i + 1 # 1 /\ 1 \in DOMAIN s /\ Head(s) = s[1]
    BY <1>2, TailAt
  <2> QED BY <1>2, <2>1 DEF PausesOnce
<1>3. ASSUME PausesOnce(s, r), NEW i \in DOMAIN Tail(s), NEW j \in DOMAIN Tail(s),
             Pause(Tail(s)[i], r), Pause(Tail(s)[j], r)
      PROVE  i = j
  <2>1. i + 1 = j + 1
    BY <1>3, TailAt DEF PausesOnce
  <2> QED BY <2>1, TailAt
<1>4. PausesOnce(s, r) => PausesOnce(Tail(s), r)
  BY <1>3 DEF PausesOnce
<1>5. PausesOnce(s, r) => (Pause(Head(s), r) => ~Pauses(Tail(s), r))
  BY <1>2 DEF Pauses
<1> QED BY <1>1, <1>4, <1>5

(* The response stream is cut after k messages when the stream breaks.       *)
LEMMA PrefixAt ==
    ASSUME NEW S, NEW s \in Seq(S), NEW k \in 0..Len(s)
    PROVE  /\ SubSeq(s, 1, k) \in Seq(S) /\ Len(SubSeq(s, 1, k)) = k
           /\ DOMAIN s = 1..Len(s) /\ DOMAIN SubSeq(s, 1, k) = 1..k /\ 1..k \subseteq DOMAIN s
           /\ \A i \in 1..k : SubSeq(s, 1, k)[i] = s[i]
<1>1. Len(s) \in Nat /\ DOMAIN s = 1..Len(s) /\ k \in Nat /\ k <= Len(s)
  BY LenProperties
<1>2. SubSeq(s, 1, k) \in Seq(S)
  BY <1>1, SubSeqProperties
<1>3. Len(SubSeq(s, 1, k)) = k
  BY <1>1, SubSeqProperties
<1> QED BY <1>1, <1>2, <1>3, SubSeqProperties, LenProperties

LEMMA PausesPrefix ==
    ASSUME NEW S, NEW s \in Seq(S), NEW k \in 0..Len(s), NEW r
    PROVE  /\ Pauses(SubSeq(s, 1, k), r) => Pauses(s, r)
           /\ PausesOnce(s, r) => PausesOnce(SubSeq(s, 1, k), r)
BY PrefixAt DEF Pauses, PausesOnce

LEMMA FlowInit == Init => FlowInv
BY EmptyHolds DEF Init, FlowInv, FlowOf, OneEntry, EntriesFit, PausesOpen, Addressed, Unasked, NoEntry,
  EmptyBuffer

LEMMA FlowKept ==
    ASSUME FlowInv, UNCHANGED <<queue, buffer, requestStream, srv, responseStream, inbox>>,
           \A r \in Requests : outcome'[r] = "idle" => outcome[r] = "idle"
    PROVE  FlowInv'
BY DEF FlowInv, FlowOf, OneEntry, EntriesFit, PausesOpen, Addressed, Unasked, NoEntry

LEMMA FlowSubmit ==
    ASSUME TypeOK, FlowInv, NEW r0 \in Requests, Submit(r0) PROVE FlowInv'
<1>1. /\ outcome[r0] = "idle"
      /\ UNCHANGED <<buffer, requestStream, srv, responseStream, inbox>>
      /\ queue' \in {queue, Append(queue, NewRequest(r0))}
      /\ \E o \in {ErrorSeen, "closed", "waiting"} : outcome' = [outcome EXCEPT ![r0] = o]
  BY Zenon DEF Submit, serverVars
<1>2. /\ outcome'[r0] # "idle"
      /\ \A r \in Requests : r # r0 => outcome'[r] = outcome[r]
  BY <1>1 DEF TypeOK, AnswersOK, FlagsOK, ErrorSeen
<1>3. CASE queue' = queue
  BY <1>1, <1>2, <1>3, FlowKept
<1>4. CASE queue' = Append(queue, NewRequest(r0))
  <2>1. NewRequest(r0) \in Queued /\ NewRequest(r0).req = r0 /\ NewRequest(r0).new = TRUE
    BY DEF NewRequest, Queued
  <2>2. queue \in Seq(Queued)
    BY DEF TypeOK, DispatchOK
  <2> SUFFICES ASSUME NEW r \in Requests PROVE FlowOf(r)'
    BY DEF FlowInv
  <2>3. FlowOf(r)
    BY DEF FlowInv
  <2>4. /\ Holds(queue', r) <=> Holds(queue, r) \/ r = r0
        /\ HoldsOne(queue, r) /\ (Holds(queue, r) => r # r0) => HoldsOne(queue', r)
    BY <1>4, <2>1, <2>2, HoldsAppend
  <2>5. Fits(queue, r, srv[r]) /\ (r = r0 => srv[r] = "idle") => Fits(queue', r, srv[r])
    BY <1>4, <2>1, <2>2, HoldsAppend
  <2> QED BY <1>1, <1>2, <2>3, <2>4, <2>5
        DEF FlowOf, OneEntry, EntriesFit, PausesOpen, Addressed, Unasked, NoEntry
<1> QED BY <1>1, <1>3, <1>4

(* A Continue is taken from the channel before the request it asks for is    *)
(* sent, and there is no other.                                              *)
LEMMA FlowRead ==
    ASSUME TypeOK, FlowInv, NEW r0 \in Requests, Read(r0) PROVE FlowInv'
<1> DEFINE e == Head(inbox[r0])
<1>1. /\ outcome[r0] = "waiting" /\ inbox[r0] # <<>>
      /\ inbox' = [inbox EXCEPT ![r0] = Tail(@)]
      /\ UNCHANGED <<buffer, requestStream, srv, responseStream>>
      /\ queue' = queue \/ (e.kind = "Continue" /\ queue' = Append(queue, ContinueRequest(r0)))
      /\ \E o \in {"closed", OutcomeOf(e)} : outcome' = [outcome EXCEPT ![r0] = o]
  BY Zenon DEF Read, AsksForMore, serverVars
<1>2. inbox[r0] \in Seq(Events) /\ e \in Events /\ queue \in Seq(Queued)
  BY <1>1 DEF TypeOK, AnswersOK, DispatchOK
<1>3. OutcomeOf(e) # "idle"
  BY <1>2 DEF OutcomeOf, Events, EventKinds
<1>4. \A r \in Requests : outcome'[r] = "idle" => outcome[r] = "idle"
  BY <1>1, <1>3 DEF TypeOK, AnswersOK
<1>5. ContinueRequest(r0) \in Queued /\ ContinueRequest(r0).req = r0
      /\ ContinueRequest(r0).new = FALSE
  BY DEF ContinueRequest, Queued
<1>6. e.kind = "Continue" => Pause(e, r0)
  BY <1>1, <1>2, TailAt DEF FlowInv, FlowOf, Addressed, Pause
<1> SUFFICES ASSUME NEW r \in Requests PROVE FlowOf(r)'
  BY DEF FlowInv
<1>7. FlowOf(r)
  BY DEF FlowInv
<1>8. CASE r # r0
  <2>1. inbox'[r] = inbox[r]
    BY <1>1, <1>8 DEF TypeOK, AnswersOK
  <2> DEFINE asked == Append(queue, ContinueRequest(r0))
  <2>2. /\ Holds(asked, r) <=> Holds(queue, r)
        /\ HoldsOne(queue, r) => HoldsOne(asked, r)
    BY <1>2, <1>5, <1>8, HoldsAppend
  <2>3. Fits(queue, r, srv[r]) => Fits(asked, r, srv[r])
    BY <1>2, <1>5, <1>8, HoldsAppend
  <2>4. /\ Holds(queue', r) <=> Holds(queue, r)
        /\ HoldsOne(queue, r) => HoldsOne(queue', r)
        /\ Fits(queue, r, srv[r]) => Fits(queue', r, srv[r])
    BY <1>1, <2>2, <2>3
  <2> QED BY <1>1, <1>4, <1>7, <2>1, <2>4
        DEF FlowOf, OneEntry, EntriesFit, PausesOpen, Addressed, Unasked, NoEntry
<1>9. CASE r = r0
  <2>1. inbox'[r] = Tail(inbox[r])
    BY <1>1, <1>9 DEF TypeOK, AnswersOK
  <2>2. /\ Pauses(inbox'[r], r) \/ Pause(e, r) => Pauses(inbox[r], r)
        /\ PausesOnce(inbox[r], r) => /\ PausesOnce(inbox'[r], r)
                                      /\ Pause(e, r) => ~Pauses(inbox'[r], r)
    BY <1>1, <1>2, <1>9, <2>1, PausesTail
  <2>3. Addressed(r)'
    BY <1>1, <1>2, <1>7, <1>9, <2>1, TailAt DEF FlowOf, Addressed
  <2>4. CASE queue' = queue
    BY <1>1, <1>4, <1>7, <2>2, <2>3, <2>4
      DEF FlowOf, OneEntry, EntriesFit, PausesOpen, Unasked, NoEntry
  <2>5. CASE e.kind = "Continue" /\ queue' = Append(queue, ContinueRequest(r0))
    <3>1. /\ srv[r] = "paused" /\ NoEntry(r)
          /\ ~Pauses(inbox'[r], r) /\ ~Pauses(responseStream, r)
      BY <1>6, <1>7, <1>9, <2>2, <2>5 DEF FlowOf, PausesOpen
    <3>2. HoldsOne(queue', r)
      BY <1>2, <1>5, <1>7, <2>5, <3>1, HoldsAppend DEF FlowOf, OneEntry, NoEntry
    <3>3. Fits(queue', r, srv[r])
      BY <1>2, <1>5, <1>7, <2>5, <3>1, HoldsAppend DEF FlowOf, EntriesFit
    <3>4. outcome'[r] # "idle"
      BY <1>1, <1>4, <1>9
    <3> QED BY <1>1, <1>7, <2>2, <2>3, <3>1, <3>2, <3>3, <3>4
          DEF FlowOf, OneEntry, EntriesFit, PausesOpen, Unasked, NoEntry
  <2> QED BY <1>1, <2>4, <2>5
<1> QED BY <1>8, <1>9

LEMMA FlowAbandon ==
    ASSUME TypeOK, FlowInv, NEW r0 \in Requests, Abandon(r0) PROVE FlowInv'
<1>1. /\ UNCHANGED <<queue, buffer, requestStream, srv, responseStream>>
      /\ \A r \in Requests : outcome'[r] = "idle" => outcome[r] = "idle"
      /\ \A r \in Requests : inbox'[r] \in {inbox[r], <<>>}
  BY DEF Abandon, TypeOK, AnswersOK, dispatchVars, serverVars
<1> SUFFICES ASSUME NEW r \in Requests PROVE FlowOf(r)'
  BY DEF FlowInv
<1>2. FlowOf(r)
  BY DEF FlowInv
<1>3. /\ Pauses(inbox'[r], r) => Pauses(inbox[r], r)
      /\ PausesOnce(inbox[r], r) => PausesOnce(inbox'[r], r)
  BY <1>1, EmptyHolds
<1>4. Addressed(r)'
  BY <1>1, <1>2 DEF FlowOf, Addressed
<1> QED BY <1>1, <1>2, <1>3, <1>4
  DEF FlowOf, OneEntry, EntriesFit, PausesOpen, Unasked, NoEntry

(* The dispatcher moves an entry from the queue to the buffer, and the       *)
(* entries of the buffer to the request stream.                              *)
LEMMA TransmitFlow ==
    ASSUME TypeOK, NEW b \in Seq(Queued), NEW r, NEW state
    PROVE  /\ Streamed(Transmit(b), r) => Streamed(requestStream, r) \/ Holds(b, r)
           /\ StreamedOne(requestStream, r) /\ ~(Streamed(requestStream, r) /\ Holds(b, r))
                => StreamedOne(Transmit(b), r)
           /\ StreamFits(requestStream, r, state) /\ Fits(b, r, state)
                => StreamFits(Transmit(b), r, state)
<1>1. requestStream \in Seq(Seq(Queued))
  BY DEF TypeOK, DispatchOK
<1>2. Transmit(b) = requestStream \/ Transmit(b) = Append(requestStream, b)
  BY DEF Transmit
<1>3. /\ Streamed(Append(requestStream, b), r) => Streamed(requestStream, r) \/ Holds(b, r)
      /\ StreamedOne(requestStream, r) /\ ~(Streamed(requestStream, r) /\ Holds(b, r))
           => StreamedOne(Append(requestStream, b), r)
      /\ StreamFits(requestStream, r, state) /\ Fits(b, r, state)
           => StreamFits(Append(requestStream, b), r, state)
  BY <1>1, StreamedAppend
<1> QED BY <1>2, <1>3

LEMMA FlowTake == ASSUME TypeOK, FlowInv, DispatchTake PROVE FlowInv'
<1> DEFINE q == Head(queue)
           room == IF Full(q) THEN <<>> ELSE buffer.reqs
<1>1. /\ queue # <<>> /\ queue' = Tail(queue)
      /\ requestStream' = IF Full(q) THEN Transmit(buffer.reqs) ELSE requestStream
      /\ buffer'.reqs = Append(room, q)
      /\ UNCHANGED <<srv, responseStream, inbox, outcome>>
  BY DEF DispatchTake, Flushed, EmptyBuffer, serverVars
<1>2. /\ queue \in Seq(Queued) /\ q \in Queued /\ buffer.reqs \in Seq(Queued)
      /\ room \in Seq(Queued)
  BY <1>1 DEF TypeOK, DispatchOK
<1> SUFFICES ASSUME NEW r \in Requests PROVE FlowOf(r)'
  BY DEF FlowInv
<1>3. FlowOf(r)
  BY DEF FlowInv
<1>4. /\ Holds(queue, r) <=> q.req = r \/ Holds(queue', r)
      /\ HoldsOne(queue', r) /\ (q.req = r => ~Holds(queue', r))
      /\ Fits(queue', r, srv[r])
      /\ q.req = r => srv[r] = IF q.new THEN "idle" ELSE "paused"
  BY <1>1, <1>2, <1>3, HoldsTail DEF FlowOf, OneEntry, EntriesFit
<1>5. /\ Holds(room, r) => Holds(buffer.reqs, r) /\ ~Full(q)
      /\ HoldsOne(room, r) /\ Fits(room, r, srv[r])
  BY <1>3, EmptyHolds DEF FlowOf, OneEntry, EntriesFit
<1>6. /\ Streamed(Transmit(buffer.reqs), r) => Streamed(requestStream, r) \/ Holds(buffer.reqs, r)
      /\ StreamedOne(Transmit(buffer.reqs), r) /\ StreamFits(Transmit(buffer.reqs), r, srv[r])
  BY <1>2, <1>3, TransmitFlow DEF FlowOf, OneEntry, EntriesFit
<1>7. /\ Streamed(requestStream', r) =>
           Streamed(requestStream, r) \/ (Full(q) /\ Holds(buffer.reqs, r))
      /\ StreamedOne(requestStream', r) /\ StreamFits(requestStream', r, srv[r])
  BY <1>1, <1>3, <1>6 DEF FlowOf, OneEntry, EntriesFit
<1> HIDE DEF q, room
<1>8. q.req = r => ~Holds(room, r)
  BY <1>3, <1>4, <1>5 DEF FlowOf, OneEntry
<1>9. /\ Holds(buffer'.reqs, r) <=> Holds(room, r) \/ q.req = r
      /\ HoldsOne(buffer'.reqs, r)
  BY <1>1, <1>2, <1>5, <1>8, HoldsAppend
<1>10. Fits(buffer'.reqs, r, srv[r])
  BY <1>1, <1>2, <1>4, <1>5, HoldsAppend
<1> QED BY <1>1, <1>3, <1>4, <1>5, <1>7, <1>9, <1>10
  DEF FlowOf, OneEntry, EntriesFit, PausesOpen, Addressed, Unasked, NoEntry

LEMMA FlowFlush ==
    ASSUME TypeOK, FlowInv, DispatchFlush \/ DispatchShutdown PROVE FlowInv'
<1>1. /\ requestStream' = IF buffer.reqs # <<>> THEN Transmit(buffer.reqs) ELSE requestStream
      /\ buffer'.reqs = <<>>
      /\ queue' = queue \/ queue' = <<>>
      /\ UNCHANGED <<srv, responseStream, inbox, outcome>>
  BY DEF DispatchFlush, DispatchShutdown, EmptyBuffer, serverVars, answerVars
<1>2. buffer.reqs \in Seq(Queued)
  BY DEF TypeOK, DispatchOK
<1> SUFFICES ASSUME NEW r \in Requests PROVE FlowOf(r)'
  BY DEF FlowInv
<1>3. FlowOf(r)
  BY DEF FlowInv
<1>4. /\ Holds(queue', r) => Holds(queue, r)
      /\ HoldsOne(queue, r) => HoldsOne(queue', r)
      /\ Fits(queue, r, srv[r]) => Fits(queue', r, srv[r])
  BY <1>1, EmptyHolds
<1>5. ~Holds(buffer'.reqs, r) /\ HoldsOne(buffer'.reqs, r) /\ Fits(buffer'.reqs, r, srv[r])
  BY <1>1, EmptyHolds
<1>6. /\ Streamed(Transmit(buffer.reqs), r) => Streamed(requestStream, r) \/ Holds(buffer.reqs, r)
      /\ StreamedOne(Transmit(buffer.reqs), r) /\ StreamFits(Transmit(buffer.reqs), r, srv[r])
  BY <1>2, <1>3, TransmitFlow DEF FlowOf, OneEntry, EntriesFit
<1>7. /\ Streamed(requestStream', r) => Streamed(requestStream, r) \/ Holds(buffer.reqs, r)
      /\ StreamedOne(requestStream', r) /\ StreamFits(requestStream', r, srv[r])
  BY <1>1, <1>3, <1>6 DEF FlowOf, OneEntry, EntriesFit
<1> QED BY <1>1, <1>3, <1>4, <1>5, <1>7
  DEF FlowOf, OneEntry, EntriesFit, PausesOpen, Addressed, Unasked, NoEntry

(* A request that the server is working on has no entry.                     *)
LEMMA NotHeld ==
    ASSUME NEW s, NEW t, NEW r
    PROVE  /\ ~Holds(s, r) => \A state : Fits(s, r, state)
           /\ ~Streamed(t, r) => \A state : StreamFits(t, r, state)
           /\ Fits(s, r, "running") => ~Holds(s, r)
           /\ StreamFits(t, r, "running") => ~Streamed(t, r)
BY DEF Holds, Fits, Streamed, StreamFits

LEMMA FlowReceive == ASSUME TypeOK, FlowInv, ServerReceive PROVE FlowInv'
<1> DEFINE batch == Head(requestStream)
<1>1. /\ requestStream # <<>> /\ requestStream' = Tail(requestStream)
      /\ UNCHANGED <<queue, buffer, responseStream, inbox, outcome>>
  BY DEF ServerReceive, answerVars
<1>2. \A r \in Requests : ~Holds(batch, r) => srv'[r] = srv[r]
  BY DEF ServerReceive, Holds
<1>3. requestStream \in Seq(Seq(Queued))
  BY DEF TypeOK, DispatchOK
<1> SUFFICES ASSUME NEW r \in Requests PROVE FlowOf(r)'
  BY DEF FlowInv
<1>4. FlowOf(r)
  BY DEF FlowInv
<1>5. /\ Streamed(requestStream, r) <=> Holds(batch, r) \/ Streamed(requestStream', r)
      /\ StreamedOne(requestStream', r) /\ (Holds(batch, r) => ~Streamed(requestStream', r))
      /\ StreamFits(requestStream', r, srv[r])
  BY <1>1, <1>3, <1>4, StreamedTail DEF FlowOf, OneEntry, EntriesFit
<1>6. CASE Holds(batch, r)
  <2>1. ~Holds(queue, r) /\ ~Holds(buffer.reqs, r) /\ ~Streamed(requestStream', r)
        /\ outcome[r] # "idle" /\ ~Pauses(responseStream, r) /\ ~Pauses(inbox[r], r)
    BY <1>4, <1>5, <1>6 DEF FlowOf, OneEntry, PausesOpen, Unasked, NoEntry
  <2>2. /\ Fits(queue, r, srv'[r]) /\ Fits(buffer.reqs, r, srv'[r])
        /\ StreamFits(requestStream', r, srv'[r])
    BY <2>1, NotHeld
  <2> QED BY <1>1, <1>4, <1>5, <2>1, <2>2
        DEF FlowOf, OneEntry, EntriesFit, PausesOpen, Addressed, Unasked, NoEntry
<1>7. CASE ~Holds(batch, r)
  BY <1>1, <1>2, <1>4, <1>5, <1>7
    DEF FlowOf, OneEntry, EntriesFit, PausesOpen, Addressed, Unasked, NoEntry
<1> QED BY <1>6, <1>7

LEMMA FlowReply ==
    ASSUME TypeOK, FlowInv, NEW r0 \in Requests, ServerReply(r0) PROVE FlowInv'
<1>1. PICK p \in Replies(r0), n \in Nat :
        /\ responseStream' = Append(responseStream, Message(r0, p[1], n))
        /\ srv' = [srv EXCEPT ![r0] = p[2]]
  <2>1. PICK p \in Replies(r0) :
          LET numbered == p[1] \notin {"Done", "NoState", "BadRes", "BadRow"}
          IN /\ responseStream' = Append(responseStream,
                                    Message(r0, p[1], IF numbered THEN sent[r0] + 1 ELSE 0))
             /\ srv' = [srv EXCEPT ![r0] = p[2]]
    BY DEF ServerReply
  <2>2. \A b \in BOOLEAN : (IF b THEN sent[r0] + 1 ELSE 0) \in Nat
    BY DEF TypeOK, ServerOK
  <2> QED BY <2>1, <2>2
<1>2. /\ srv[r0] = "running"
      /\ UNCHANGED <<queue, buffer, requestStream, inbox, outcome>>
  BY DEF ServerReply, dispatchVars, answerVars
<1>3. p[1] \in Items /\ (p[1] = "Continue" => p[2] = "paused")
  BY DEF Replies, Items
<1>4. /\ responseStream \in Seq(Messages) /\ Message(r0, p[1], n) \in Messages
      /\ Message(r0, p[1], n).kind = p[1] /\ Message(r0, p[1], n).req = r0
  BY <1>3 DEF TypeOK, ServerOK, Message, Messages
<1> SUFFICES ASSUME NEW r \in Requests PROVE FlowOf(r)'
  BY DEF FlowInv
<1>5. FlowOf(r)
  BY DEF FlowInv
<1>6. /\ Pauses(responseStream', r) <=>
           Pauses(responseStream, r) \/ (r = r0 /\ p[1] = "Continue")
      /\ PausesOnce(responseStream, r) /\ ~(Pauses(responseStream, r) /\ r = r0)
           => PausesOnce(responseStream', r)
  BY <1>1, <1>4, PausesAppend DEF Pause
<1>7. CASE r # r0
  <2>1. srv'[r] = srv[r]
    BY <1>1, <1>7 DEF TypeOK, ServerOK
  <2> QED BY <1>2, <1>5, <1>6, <1>7, <2>1
        DEF FlowOf, OneEntry, EntriesFit, PausesOpen, Addressed, Unasked, NoEntry
<1>8. CASE r = r0
  <2>1. srv'[r] = p[2]
    BY <1>1, <1>8 DEF TypeOK, ServerOK
  <2>2. NoEntry(r) /\ outcome[r] # "idle" /\ ~Pauses(responseStream, r) /\ ~Pauses(inbox[r], r)
    BY <1>2, <1>5, <1>8, NotHeld DEF FlowOf, EntriesFit, PausesOpen, Unasked, NoEntry
  <2>3. /\ Fits(queue, r, srv'[r]) /\ Fits(buffer.reqs, r, srv'[r])
        /\ StreamFits(requestStream, r, srv'[r])
    BY <2>2, NotHeld DEF NoEntry
  <2> QED BY <1>2, <1>3, <1>5, <1>6, <2>1, <2>2, <2>3
        DEF FlowOf, OneEntry, EntriesFit, PausesOpen, Addressed, Unasked, NoEntry
<1> QED BY <1>7, <1>8

(* The stream ends or breaks: it is cut, perhaps after its last message.     *)
LEMMA StreamCut ==
    ASSUME TypeOK, ServerEnd \/ StreamBreaks
    PROVE  \E k \in 0..Len(responseStream), m \in {EndOfStream, StatusError} :
             responseStream' = Append(SubSeq(responseStream, 1, k), m)
<1>1. CASE ServerEnd
  <2>1. responseStream' = Append(responseStream, EndOfStream)
    BY <1>1 DEF ServerEnd
  <2>2. Len(responseStream) \in 0..Len(responseStream)
        /\ SubSeq(responseStream, 1, Len(responseStream)) = responseStream
    BY DEF TypeOK, ServerOK
  <2> QED BY <2>1, <2>2
<1>2. CASE StreamBreaks
  BY <1>2 DEF StreamBreaks
<1> QED BY <1>1, <1>2

LEMMA FlowEnd == ASSUME TypeOK, FlowInv, ServerEnd \/ StreamBreaks PROVE FlowInv'
<1>1. PICK k \in 0..Len(responseStream), m \in {EndOfStream, StatusError} :
        responseStream' = Append(SubSeq(responseStream, 1, k), m)
  BY StreamCut
<1>2. UNCHANGED <<queue, buffer, requestStream, srv, inbox, outcome>>
  BY DEF ServerEnd, StreamBreaks, dispatchVars, answerVars
<1> DEFINE cut == SubSeq(responseStream, 1, k)
<1>3. /\ responseStream \in Seq(Messages) /\ cut \in Seq(Messages) /\ m \in Messages
      /\ m.kind # "Continue"
  BY PrefixAt DEF TypeOK, ServerOK, Messages, EndOfStream, StatusError
<1>4. ASSUME NEW r \in Requests
      PROVE  /\ Pauses(responseStream', r) => Pauses(responseStream, r)
             /\ PausesOnce(responseStream, r) => PausesOnce(responseStream', r)
  <2>1. /\ Pauses(cut, r) => Pauses(responseStream, r)
        /\ PausesOnce(responseStream, r) => PausesOnce(cut, r)
    BY <1>3, PausesPrefix
  <2>2. ~Pause(m, r)
    BY <1>3 DEF Pause
  <2>3. /\ Pauses(Append(cut, m), r) <=> Pauses(cut, r)
        /\ PausesOnce(cut, r) => PausesOnce(Append(cut, m), r)
    BY <1>3, <2>2, PausesAppend
  <2> QED BY <1>1, <2>1, <2>3
<1> QED BY <1>2, <1>4
  DEF FlowInv, FlowOf, OneEntry, EntriesFit, PausesOpen, Addressed, Unasked, NoEntry

(* What the listener does with a message m: it gives m to the sink of the    *)
(* request, if there is one and the message carries something for it.        *)
Given(m) == IF m.kind = "BadRes" THEN Event(m.req, "Undecodable") ELSE m
Handed(m) == m.req \in callbacks /\ outcome[m.req] = "waiting"
             /\ m.kind \notin {"BadRow", "Done", "NoState"}

LEMMA ListenEffect ==
    ASSUME TypeOK, ListenMessage, NEW m, m = Head(responseStream)
    PROVE  /\ listener = "loop" /\ responseStream # <<>>
           /\ responseStream \in Seq(Messages) /\ responseStream' = Tail(responseStream)
           /\ m.req \in Requests /\ m.kind \in Items /\ m.n \in Nat
           /\ m = Message(m.req, m.kind, m.n)
           /\ Handed(m) => Given(m) \in Events /\ Given(m).req = m.req
           /\ inbox' = IF Handed(m) THEN [inbox EXCEPT ![m.req] = Append(@, Given(m))] ELSE inbox
           /\ callbacks' = IF m.kind \in {"Header", "Immediate", "Row", "Continue", "BadRow"}
                           THEN callbacks ELSE callbacks \ {m.req}
           /\ listener' \in {"loop", "stuck"} /\ (listener' = "stuck" => m.req \in callbacks)
           /\ UNCHANGED <<queue, dispatcher, buffer, requestStream, outcome, got, srv, sent,
                          serverOpen, runtime>>
<1>1. /\ listener = "loop" /\ responseStream # <<>> /\ responseStream' = Tail(responseStream)
      /\ UNCHANGED <<queue, dispatcher, buffer, requestStream, outcome, got, srv, sent,
                     serverOpen, runtime>>
      /\ m.kind \in ResKinds \cup PartKinds
      /\ IF m.kind \in ResKinds THEN CollectRes(m) ELSE CollectPart(m)
      /\ listener' = IF SelfDeadlock(m) THEN "stuck" ELSE "loop"
  BY DEF ListenMessage, dispatchVars, lifeVars
<1>2. responseStream \in Seq(Messages) /\ m \in Messages
  BY <1>1 DEF TypeOK, ServerOK
<1>3. m \notin {EndOfStream, StatusError}
  BY <1>1 DEF ResKinds, PartKinds, EndOfStream, StatusError
<1>4. /\ m.req \in Requests /\ m.kind \in Items /\ m.n \in Nat
      /\ m = Message(m.req, m.kind, m.n)
  BY <1>2, <1>3 DEF Messages, Message
<1>5. Handed(m) => Given(m) \in Events /\ Given(m).req = m.req
  BY <1>4 DEF Handed, Given, Events, EventKinds, Event, Message, Items
<1>6. CASE m.kind \in ResKinds
  <2>1. CollectRes(m) /\ m.kind \in {"Res", "BadRes", "Header", "Immediate"}
    BY <1>1, <1>6 DEF ResKinds
  <2>2. CASE m.req \notin callbacks
    <3>1. UNCHANGED <<callbacks, inbox>> /\ ~Handed(m) /\ callbacks \ {m.req} = callbacks
      BY <2>1, <2>2 DEF CollectRes, Handed
    <3> QED BY <1>1, <1>2, <1>4, <1>5, <3>1 DEF SelfDeadlock
  <2>3. CASE m.req \in callbacks
    <3>1. /\ Deliver(m.req, Given(m))
          /\ callbacks' = IF m.kind \in {"Header", "Immediate"} THEN callbacks
                          ELSE callbacks \ {m.req}
      BY <2>1, <2>3 DEF CollectRes, Given
    <3>2. Handed(m) <=> outcome[m.req] = "waiting"
      BY <2>1, <2>3 DEF Handed
    <3>3. inbox' = IF Handed(m) THEN [inbox EXCEPT ![m.req] = Append(@, Given(m))] ELSE inbox
      BY <3>1, <3>2 DEF Deliver
    <3> QED BY <1>1, <1>2, <1>4, <1>5, <2>1, <3>1, <3>3 DEF SelfDeadlock
  <2> QED BY <2>2, <2>3
<1>7. CASE m.kind \notin ResKinds
  <2>1. CollectPart(m) /\ m.kind \in PartKinds /\ Given(m) = m
    BY <1>1, <1>7 DEF ResKinds, Given
  <2>2. Handed(m) <=> /\ m.kind \in {"Row", "Continue", "Error"} /\ m.req \in callbacks
                      /\ outcome[m.req] = "waiting"
    BY <2>1 DEF Handed, PartKinds
  <2>3. inbox' = IF Handed(m) THEN [inbox EXCEPT ![m.req] = Append(@, Given(m))] ELSE inbox
    BY <2>1, <2>2 DEF CollectPart, Deliver
  <2>4. callbacks' = IF m.kind \in {"Header", "Immediate", "Row", "Continue", "BadRow"}
                     THEN callbacks ELSE callbacks \ {m.req}
    BY <2>1 DEF CollectPart, StreamOver, PartKinds
  <2> QED BY <1>1, <1>2, <1>4, <1>5, <2>3, <2>4 DEF SelfDeadlock
<1> QED BY <1>6, <1>7

LEMMA FlowListen == ASSUME TypeOK, FlowInv, ListenMessage PROVE FlowInv'
<1> DEFINE m == Head(responseStream)
<1>1. /\ responseStream # <<>> /\ responseStream \in Seq(Messages)
      /\ responseStream' = Tail(responseStream)
      /\ m.req \in Requests
      /\ Handed(m) => Given(m) \in Events /\ Given(m).req = m.req
      /\ inbox' = IF Handed(m) THEN [inbox EXCEPT ![m.req] = Append(@, Given(m))] ELSE inbox
      /\ UNCHANGED <<queue, buffer, requestStream, outcome, srv>>
  BY ListenEffect
<1> SUFFICES ASSUME NEW r \in Requests PROVE FlowOf(r)'
  BY DEF FlowInv
<1>2. FlowOf(r) /\ inbox[r] \in Seq(Events)
  BY DEF FlowInv, TypeOK, AnswersOK
<1>3. /\ Pauses(responseStream', r) \/ Pause(m, r) => Pauses(responseStream, r)
      /\ PausesOnce(responseStream', r) /\ (Pause(m, r) => ~Pauses(responseStream', r))
  BY <1>1, <1>2, PausesTail DEF FlowOf, PausesOpen
<1>4. CASE inbox'[r] = inbox[r]
  BY <1>1, <1>2, <1>3, <1>4
    DEF FlowOf, OneEntry, EntriesFit, PausesOpen, Addressed, Unasked, NoEntry
<1>5. CASE inbox'[r] # inbox[r]
  <2>1. Handed(m) /\ r = m.req /\ inbox'[r] = Append(inbox[r], Given(m))
    BY <1>1, <1>5 DEF TypeOK, AnswersOK
  <2>2. Given(m) \in Events /\ Given(m).req = r
    BY <1>1, <2>1
  <2>3. Pause(Given(m), r) => Pause(m, r)
    BY DEF Pause, Given, Event, Message
  <2>4. /\ Pauses(inbox'[r], r) => Pauses(inbox[r], r) \/ Pause(m, r)
        /\ PausesOnce(inbox[r], r) /\ ~(Pauses(inbox[r], r) /\ Pause(m, r))
             => PausesOnce(inbox'[r], r)
    BY <1>2, <2>1, <2>2, <2>3, PausesAppend
  <2>5. Addressed(r)'
    BY <1>2, <2>1, <2>2, AppendAt DEF FlowOf, Addressed
  <2> QED BY <1>1, <1>2, <1>3, <2>4, <2>5
        DEF FlowOf, OneEntry, EntriesFit, PausesOpen, Unasked, NoEntry
<1> QED BY <1>4, <1>5

LEMMA FlowListenEnd == ASSUME TypeOK, FlowInv, ListenEnd PROVE FlowInv'
<1>1. /\ responseStream # <<>> /\ responseStream' = Tail(responseStream)
      /\ responseStream \in Seq(Messages)
      /\ UNCHANGED <<queue, buffer, requestStream, outcome, srv, inbox>>
  BY DEF ListenEnd, TypeOK, ServerOK, dispatchVars, answerVars
<1>2. \A r \in Requests : /\ Pauses(responseStream', r) => Pauses(responseStream, r)
                          /\ PausesOnce(responseStream, r) => PausesOnce(responseStream', r)
  BY <1>1, PausesTail
<1> QED BY <1>1, <1>2
  DEF FlowInv, FlowOf, OneEntry, EntriesFit, PausesOpen, Addressed, Unasked, NoEntry

LEMMA FlowDrain == ASSUME TypeOK, FlowInv, ListenDrain PROVE FlowInv'
<1>1. UNCHANGED <<queue, buffer, requestStream, outcome, srv, responseStream>>
  BY DEF ListenDrain, dispatchVars, serverVars
<1> SUFFICES ASSUME NEW r \in Requests PROVE FlowOf(r)'
  BY DEF FlowInv
<1>2. FlowOf(r) /\ inbox[r] \in Seq(Events)
  BY DEF FlowInv, TypeOK, AnswersOK
<1> DEFINE last == Event(r, IF cause = "end" THEN "Close" ELSE "Status")
<1>3. inbox'[r] \in {inbox[r], Append(inbox[r], last)}
  BY DEF ListenDrain, FinishSinks
<1>4. last \in Events /\ last.req = r /\ last.kind # "Continue"
  BY DEF Event, Message, Events, EventKinds
<1> HIDE DEF last
<1>5. ~Pause(last, r)
  BY <1>4 DEF Pause
<1>6. /\ Pauses(Append(inbox[r], last), r) => Pauses(inbox[r], r)
      /\ PausesOnce(inbox[r], r) => PausesOnce(Append(inbox[r], last), r)
  BY <1>2, <1>4, <1>5, PausesAppend
<1>7. /\ Pauses(inbox'[r], r) => Pauses(inbox[r], r)
      /\ PausesOnce(inbox[r], r) => PausesOnce(inbox'[r], r)
  BY <1>3, <1>6
<1>8. Addressed(r)'
  <2>1. \A i \in DOMAIN inbox[r] : inbox[r][i].req = r
    BY <1>2 DEF FlowOf, Addressed
  <2>2. /\ DOMAIN inbox[r] = 1..Len(inbox[r]) /\ Len(inbox[r]) \in Nat
        /\ DOMAIN Append(inbox[r], last) = 1..(Len(inbox[r]) + 1)
        /\ \A i \in DOMAIN inbox[r] : Append(inbox[r], last)[i] = inbox[r][i]
        /\ Append(inbox[r], last)[Len(inbox[r]) + 1] = last
    BY <1>2, <1>4, AppendAt
  <2>3. \A i \in DOMAIN Append(inbox[r], last) : i \in DOMAIN inbox[r] \/ i = Len(inbox[r]) + 1
    BY <2>2
  <2>4. \A i \in DOMAIN Append(inbox[r], last) : Append(inbox[r], last)[i].req = r
    BY <1>4, <2>1, <2>2, <2>3
  <2> QED BY <1>3, <2>1, <2>4 DEF Addressed
<1> QED BY <1>1, <1>2, <1>7, <1>8
  DEF FlowOf, OneEntry, EntriesFit, PausesOpen, Unasked, NoEntry

LEMMA FlowNext == TypeOK /\ FlowInv /\ [Next]_vars => FlowInv'
<1> SUFFICES ASSUME TypeOK, FlowInv, [Next]_vars PROVE FlowInv'
  OBVIOUS
<1>1. ASSUME NEW r \in Requests, Submit(r) \/ Read(r) \/ Abandon(r) PROVE FlowInv'
  BY <1>1, FlowSubmit, FlowRead, FlowAbandon
<1>2. ASSUME NEW r \in Requests, ReadEnd(r) PROVE FlowInv'
  BY <1>2, FlowKept DEF ReadEnd, TypeOK, AnswersOK, dispatchVars, serverVars
<1>3. CASE DispatchTake \/ DispatchFlush \/ DispatchShutdown
  BY <1>3, FlowTake, FlowFlush
<1>4. CASE Server
  BY <1>4, FlowReceive, FlowReply, FlowEnd DEF Server
<1>5. CASE ListenMessage \/ ListenEnd \/ ListenDrain
  BY <1>5, FlowListen, FlowListenEnd, FlowDrain
<1>6. CASE DispatchCheck \/ ListenStoreError \/ ListenInvoke \/ ListenReply \/ ListenFinish
           \/ ListenRegister
  BY <1>6, FlowKept DEF DispatchCheck, ListenStoreError, ListenInvoke, ListenReply,
    ListenFinish, ListenRegister, dispatchVars, answerVars, serverVars
<1>7. CASE Closing
  BY <1>7, FlowKept DEF Closing, OnClose, CloseBegin, CloseSignal, CloseReturn,
    CloseCancel, Drop, dispatchVars, answerVars, serverVars
<1>8. CASE Runtime
  BY <1>8, FlowKept DEF Runtime, ForceCloseSignal, RuntimeForceClose, WorkerStop, HandlerRun,
    dispatchVars, answerVars, serverVars
<1>9. CASE UNCHANGED vars
  BY <1>9, FlowKept DEF vars, dispatchVars, answerVars, serverVars
<1> QED BY <1>1, <1>2, <1>3, <1>4, <1>5, <1>6, <1>7, <1>8, <1>9
  DEF Next, Client, Dispatcher, Listener

LEMMA FlowHolds == Spec => []FlowInv
BY TypeInit, TypeNext, FlowInit, FlowNext, PTL DEF Spec

LEMMA FlowMeetsPause == TypeOK /\ FlowInv => ContinueMeetsPause
<1> SUFFICES ASSUME TypeOK, FlowInv, NEW r \in Streams,
                    NEW k \in 1..3, NEW i \in Outstanding(r)[k]
             PROVE  /\ srv[r] = "paused"
                    /\ \A l \in 1..3 : Outstanding(r)[l] \subseteq (IF l = k THEN {i} ELSE {})
  BY DEF ContinueMeetsPause
<1>1. r \in Requests /\ FlowOf(r)
  BY DEF FlowInv, Requests
<1> DEFINE Q == Outstanding(r)[1]
           B == Outstanding(r)[2]
           T == Outstanding(r)[3]
<1>2. /\ \A j \in Q : j \in DOMAIN queue /\ queue[j].req = r /\ queue[j].new = FALSE
      /\ \A j \in B : j \in DOMAIN buffer.reqs /\ buffer.reqs[j].req = r
                      /\ buffer.reqs[j].new = FALSE
      /\ \A j \in T : j \in DOMAIN requestStream /\ \E n \in DOMAIN requestStream[j] :
                        requestStream[j][n].req = r /\ requestStream[j][n].new = FALSE
  BY DEF Outstanding, ContinueRequest
<1> HIDE DEF Q, B, T
<1>3. /\ \A j \in Q : Holds(queue, r) /\ srv[r] = "paused"
      /\ \A j \in B : Holds(buffer.reqs, r) /\ srv[r] = "paused"
      /\ \A j \in T : Holds(requestStream[j], r) /\ Streamed(requestStream, r)
                      /\ srv[r] = "paused"
  BY <1>1, <1>2 DEF FlowOf, EntriesFit, Holds, Streamed, Fits, StreamFits
<1>4. /\ \A j, l \in Q : j = l
      /\ \A j, l \in B : j = l
      /\ \A j, l \in T : j = l
  BY <1>1, <1>2, <1>3 DEF FlowOf, OneEntry, HoldsOne, StreamedOne
<1>5. /\ Q # {} => B = {} /\ T = {}
      /\ B # {} => T = {}
  BY <1>1, <1>3 DEF FlowOf, OneEntry
<1>6. CASE k = 1
  BY <1>3, <1>4, <1>5, <1>6 DEF Q, B, T
<1>7. CASE k = 2
  BY <1>3, <1>4, <1>5, <1>7 DEF Q, B, T
<1>8. CASE k = 3
  BY <1>3, <1>4, <1>5, <1>8 DEF Q, B, T
<1> QED BY <1>6, <1>7, <1>8

(* Flow control: whenever a request for more parts is queued, buffered or in *)
(* the request stream, the server has paused that query and there is no      *)
(* other such request, for any number of queries, batches and clients.       *)
THEOREM PausesMet == Spec => []ContinueMeetsPause
BY FlowMeetsPause, TypeCorrect, FlowHolds, PTL

-----------------------------------------------------------------------------
(* Answers. What is on its way to a caller whose sink is in the map          *)
(* continues, without a gap, what the sink was given before; the channel of  *)
(* the caller continues what it has read; and a sink goes with a last answer *)
(* or when everything has been given to it, unless nothing ever was.         *)

Unnumbered == {"Done", "NoState", "BadRes", "BadRow"}
Failures == {"Undecodable", "Close", "Status"}
Whole == {"Res", "Immediate"}
Terminal == Failures \cup {"Res", "Error"}
Drained == {"callbacks", "awaiting", "done", "dead"}

Of(m, r) == m.kind \in Items /\ m.req = r
Numbered(m, r) == Of(m, r) /\ m.n > 0

(* The messages s of a request r of which top items were sent, over when the *)
(* server has finished it.                                                   *)
Unmentioned(s, r) == \A i \in DOMAIN s : ~Of(s[i], r)
MessageFits(m, r, top, over) ==
    Of(m, r) =>
        /\ m.n \in Nat /\ m.n <= top
        /\ m.n = 0 <=> m.kind \in Unnumbered
        /\ m.kind \in Whole \cup Unnumbered => over
        /\ m.kind \in Whole => m.n = top
MessagesFit(s, r, top, over) == \A i \in DOMAIN s : MessageFits(s[i], r, top, over)
Ordered(s, r) ==
    \A i, j \in DOMAIN s :
        i < j /\ Numbered(s[i], r) /\ Numbered(s[j], r) => s[i].n < s[j].n

(* Items d + 1 to top of r come in s before position i.                      *)
Before(s, r, n, i) == \E j \in DOMAIN s : j < i /\ Of(s[j], r) /\ s[j].n = n
AllBefore(s, r, d, top, i) == \A n \in Nat : d < n /\ n <= top => Before(s, r, n, i)

(* The messages s go on where d items have been given, and a message that    *)
(* ends the answers comes after all of them.                                 *)
Consecutive(s, r, d) ==
    \A i \in DOMAIN s :
        Numbered(s[i], r) => d < s[i].n /\ AllBefore(s, r, d, s[i].n - 1, i)
EndsAfter(s, r, d, top) ==
    \A i \in DOMAIN s :
        Of(s[i], r) /\ s[i].kind \in {"Done", "NoState"} => AllBefore(s, r, d, top, i)

(* The channel c of a caller that has read g items.                          *)
NoFailure(c) == \A i \in DOMAIN c : c[i].kind \notin Failures
ChannelFits(c, g, top, over) ==
    \A i \in DOMAIN c :
        /\ \/ c[i].kind \in Failures /\ c[i].n = 0 /\ i = Len(c)
           \/ c[i].kind \notin Failures /\ c[i].n = g + i /\ c[i].n <= top
        /\ c[i].kind \in Whole => c[i].n = top /\ over

Finished(r) == srv[r] \in {"done", "broken"}
Delivered(r) == got[r] + Len(inbox[r])
Waits(s, r) == \E i \in DOMAIN s : s[i] = NewRequest(r)

(* Nothing has reached the caller before the request has left the queue.     *)
Fresh(r) ==
    /\ outcome[r] = "idle" \/ Waits(queue, r) =>
         r \notin callbacks /\ got[r] = 0 /\ inbox[r] = <<>>
    /\ srv[r] = "idle" => sent[r] = 0 /\ Unmentioned(responseStream, r)
    /\ got[r] <= sent[r]

InTransit(r) ==
    /\ MessagesFit(responseStream, r, sent[r], Finished(r))
    /\ Ordered(responseStream, r)
    /\ ChannelFits(inbox[r], got[r], sent[r], Finished(r))

Continued(r) ==
    /\ Consecutive(responseStream, r, Delivered(r))
    /\ EndsAfter(responseStream, r, Delivered(r), sent[r])
    /\ serverOpen => AllBefore(responseStream, r, Delivered(r), sent[r], Len(responseStream) + 1)

SinkHeld(r) ==
    outcome[r] = "waiting" /\ r \in callbacks =>
        /\ NoFailure(inbox[r])
        /\ listener = "loop" => Continued(r)
        /\ listener \in Drained /\ runtime # "stopped" => got[r] = 0 /\ inbox[r] = <<>>

SinkGone(r) ==
    outcome[r] = "waiting" /\ r \notin callbacks /\ ~Waits(queue, r) /\ runtime # "stopped" =>
        \/ got[r] = 0 /\ inbox[r] = <<>>
        \/ inbox[r] # <<>> /\ inbox[r][Len(inbox[r])].kind \in Terminal
        \/ Finished(r) /\ Delivered(r) = sent[r] /\ NoFailure(inbox[r])

AnswerOf(r) == Fresh(r) /\ InTransit(r) /\ SinkHeld(r) /\ SinkGone(r)
AnswerInv == \A r \in Requests : AnswerOf(r)

(* What appending a message, taking the head or cutting the stream does to   *)
(* these predicates.                                                         *)
LEMMA EmptyTransit ==
    ASSUME NEW r, NEW d \in Nat, NEW top, NEW over, NEW i
    PROVE  /\ Unmentioned(<<>>, r) /\ MessagesFit(<<>>, r, top, over) /\ Ordered(<<>>, r)
           /\ Consecutive(<<>>, r, d) /\ EndsAfter(<<>>, r, d, top)
           /\ AllBefore(<<>>, r, d, d, i)
           /\ NoFailure(<<>>) /\ ChannelFits(<<>>, d, top, over)
           /\ ~Waits(<<>>, r)
BY DEF Unmentioned, MessagesFit, Ordered, Consecutive, EndsAfter, AllBefore, NoFailure,
  ChannelFits, Waits

(* The position of a message that was there before is what it was.           *)
LEMMA BeforeAppend ==
    ASSUME NEW s \in Seq(Messages), NEW m \in Messages, NEW r, NEW n \in Nat,
           NEW i \in 1..(Len(s) + 1)
    PROVE  Before(Append(s, m), r, n, i) <=> Before(s, r, n, i)
<1>1. /\ DOMAIN s = 1..Len(s) /\ DOMAIN Append(s, m) = 1..(Len(s) + 1) /\ Len(s) \in Nat
      /\ \A j \in DOMAIN s : Append(s, m)[j] = s[j]
  BY AppendAt
<1>2. ASSUME Before(s, r, n, i) PROVE Before(Append(s, m), r, n, i)
  BY <1>1, <1>2 DEF Before
<1>3. ASSUME Before(Append(s, m), r, n, i) PROVE Before(s, r, n, i)
  <2>1. PICK j \in DOMAIN Append(s, m) : j < i /\ Of(Append(s, m)[j], r) /\ Append(s, m)[j].n = n
    BY <1>3 DEF Before
  <2>2. j \in DOMAIN s
    BY <1>1, <2>1
  <2> QED BY <1>1, <2>1, <2>2 DEF Before
<1> QED BY <1>2, <1>3

LEMMA MessagesAppend ==
    ASSUME NEW s \in Seq(Messages), NEW m \in Messages, NEW r, NEW top \in Nat, NEW over,
           NEW d \in Nat
    PROVE  /\ Unmentioned(s, r) /\ ~Of(m, r) => Unmentioned(Append(s, m), r)
           /\ MessagesFit(s, r, top, over) /\ MessageFits(m, r, top, over)
                => MessagesFit(Append(s, m), r, top, over)
           /\ Ordered(s, r) /\ (Numbered(m, r) =>
                \A i \in DOMAIN s : Numbered(s[i], r) => s[i].n < m.n)
                => Ordered(Append(s, m), r)
           /\ Consecutive(s, r, d) /\ (Numbered(m, r) =>
                d < m.n /\ AllBefore(s, r, d, m.n - 1, Len(s) + 1))
                => Consecutive(Append(s, m), r, d)
           /\ EndsAfter(s, r, d, top) /\ (Of(m, r) /\ m.kind \in {"Done", "NoState"} =>
                AllBefore(s, r, d, top, Len(s) + 1))
                => EndsAfter(Append(s, m), r, d, top)
<1> DEFINE a == Append(s, m)
<1>1. /\ DOMAIN s = 1..Len(s) /\ DOMAIN a = 1..(Len(s) + 1) /\ Len(s) \in Nat
      /\ \A j \in DOMAIN s : a[j] = s[j]
      /\ a[Len(s) + 1] = m
  BY AppendAt
<1>2. \A n \in Nat, i \in 1..(Len(s) + 1) : Before(a, r, n, i) <=> Before(s, r, n, i)
  BY BeforeAppend
<1>3. \A t : \A i \in 1..(Len(s) + 1) : AllBefore(a, r, d, t, i) <=> AllBefore(s, r, d, t, i)
  BY <1>2 DEF AllBefore
<1> HIDE DEF a
<1>4. Unmentioned(s, r) /\ ~Of(m, r) => Unmentioned(a, r)
  BY <1>1 DEF Unmentioned
<1>5. MessagesFit(s, r, top, over) /\ MessageFits(m, r, top, over) => MessagesFit(a, r, top, over)
  BY <1>1 DEF MessagesFit
<1>6. Ordered(s, r) /\ (Numbered(m, r) => \A i \in DOMAIN s : Numbered(s[i], r) => s[i].n < m.n)
        => Ordered(a, r)
  BY <1>1 DEF Ordered
<1>7. Consecutive(s, r, d)
        /\ (Numbered(m, r) => d < m.n /\ AllBefore(s, r, d, m.n - 1, Len(s) + 1))
        => Consecutive(a, r, d)
  BY <1>1, <1>3 DEF Consecutive
<1>8. EndsAfter(s, r, d, top)
        /\ (Of(m, r) /\ m.kind \in {"Done", "NoState"} => AllBefore(s, r, d, top, Len(s) + 1))
        => EndsAfter(a, r, d, top)
  BY <1>1, <1>3 DEF EndsAfter
<1> QED BY <1>4, <1>5, <1>6, <1>7, <1>8 DEF a

(* After the message nothing is missing that was not missing before it.      *)
LEMMA AllBeforeAppend ==
    ASSUME NEW s \in Seq(Messages), NEW m \in Messages, NEW r, NEW top \in Nat, NEW d \in Nat,
           AllBefore(s, r, d, top, Len(s) + 1)
    PROVE  /\ AllBefore(Append(s, m), r, d, top, Len(s) + 2)
           /\ Of(m, r) /\ m.n = top + 1 => AllBefore(Append(s, m), r, d, top + 1, Len(s) + 2)
<1>1. /\ DOMAIN s = 1..Len(s) /\ DOMAIN Append(s, m) = 1..(Len(s) + 1) /\ Len(s) \in Nat
      /\ \A j \in DOMAIN s : Append(s, m)[j] = s[j]
      /\ Append(s, m)[Len(s) + 1] = m
  BY AppendAt
<1>2. ASSUME NEW n \in Nat, d < n, n <= top PROVE Before(Append(s, m), r, n, Len(s) + 2)
  <2>1. PICK j \in DOMAIN s : j < Len(s) + 1 /\ Of(s[j], r) /\ s[j].n = n
    BY <1>2 DEF AllBefore, Before
  <2> QED BY <1>1, <2>1 DEF Before
<1>3. ASSUME Of(m, r), m.n = top + 1 PROVE Before(Append(s, m), r, top + 1, Len(s) + 2)
  BY <1>1, <1>3 DEF Before
<1> QED BY <1>2, <1>3 DEF AllBefore

LEMMA BeforeTail ==
    ASSUME NEW s \in Seq(Messages), s # <<>>, NEW r, NEW n, NEW i \in Nat,
           Before(s, r, n, i + 1), ~(Of(Head(s), r) /\ Head(s).n = n)
    PROVE  Before(Tail(s), r, n, i)
<1>1. PICK j \in DOMAIN s : j < i + 1 /\ Of(s[j], r) /\ s[j].n = n
  BY DEF Before
<1>2. j # 1
  BY <1>1, TailAt
<1>3. j - 1 \in DOMAIN Tail(s) /\ Tail(s)[j - 1] = s[j] /\ j - 1 < i
  BY <1>1, <1>2, TailAt
<1> QED BY <1>1, <1>3 DEF Before

(* The listener takes the head of the stream: it is the next item, or none.  *)
LEMMA MessagesTail ==
    ASSUME NEW s \in Seq(Messages), s # <<>>, NEW r, NEW top \in Nat, NEW over
    PROVE  /\ Unmentioned(s, r) => Unmentioned(Tail(s), r)
           /\ MessagesFit(s, r, top, over) =>
                MessagesFit(Tail(s), r, top, over) /\ MessageFits(Head(s), r, top, over)
           /\ Ordered(s, r) => Ordered(Tail(s), r)
<1>1. /\ Head(s) = s[1] /\ 1 \in DOMAIN s
      /\ \A i \in DOMAIN Tail(s) : i \in Nat /\ i + 1 \in DOMAIN s /\ Tail(s)[i] = s[i + 1]
  BY TailAt
<1>2. Ordered(s, r) => Ordered(Tail(s), r)
  BY <1>1 DEF Ordered
<1> QED BY <1>1, <1>2 DEF Unmentioned, MessagesFit

LEMMA ContinuedTail ==
    ASSUME NEW s \in Seq(Messages), s # <<>>, NEW r, NEW top \in Nat, NEW d \in Nat,
           Consecutive(s, r, d), Ordered(s, r), Of(Head(s), r) => Head(s).n \in Nat,
           NEW e \in Nat, e = IF Numbered(Head(s), r) THEN Head(s).n ELSE d
    PROVE  /\ Numbered(Head(s), r) => e = d + 1
           /\ Consecutive(Tail(s), r, e)
           /\ EndsAfter(s, r, d, top) => EndsAfter(Tail(s), r, e, top)
           /\ AllBefore(s, r, d, top, Len(s) + 1) => AllBefore(Tail(s), r, e, top, Len(Tail(s)) + 1)
<1>1. /\ Head(s) = s[1] /\ 1 \in DOMAIN s /\ DOMAIN s = 1..Len(s) /\ Len(s) \in Nat
      /\ Len(Tail(s)) + 1 \in Nat /\ Len(s) + 1 = (Len(Tail(s)) + 1) + 1
      /\ \A i \in DOMAIN Tail(s) : i \in Nat /\ i + 1 \in DOMAIN s /\ Tail(s)[i] = s[i + 1]
                                   /\ i + 1 > 1
  BY TailAt
<1>2. \A n : ~Before(s, r, n, 1)
  BY <1>1 DEF Before
<1>3. Numbered(Head(s), r) => e = d + 1
  <2> SUFFICES ASSUME Numbered(Head(s), r) PROVE e = d + 1
    OBVIOUS
  <2>1. d < e /\ AllBefore(s, r, d, e - 1, 1)
    BY <1>1 DEF Consecutive
  <2>2. CASE d + 1 < e
    <3>1. Before(s, r, d + 1, 1)
      BY <2>1, <2>2 DEF AllBefore
    <3> QED BY <1>2, <3>1
  <2> QED BY <2>1, <2>2
<1>4. d <= e
  BY <1>3
<1>5. \A n \in Nat : n > e => ~(Of(Head(s), r) /\ Head(s).n = n)
  BY <1>4 DEF Numbered
<1>6. ASSUME NEW t, NEW i \in Nat, AllBefore(s, r, d, t, i + 1) PROVE AllBefore(Tail(s), r, e, t, i)
  <2> SUFFICES ASSUME NEW n \in Nat, e < n, n <= t PROVE Before(Tail(s), r, n, i)
    BY DEF AllBefore
  <2>1. Before(s, r, n, i + 1)
    BY <1>4, <1>6 DEF AllBefore
  <2> QED BY <1>5, <2>1, BeforeTail
<1>7. Consecutive(Tail(s), r, e)
  <2> SUFFICES ASSUME NEW i \in DOMAIN Tail(s), Numbered(Tail(s)[i], r)
               PROVE  e < Tail(s)[i].n /\ AllBefore(Tail(s), r, e, Tail(s)[i].n - 1, i)
    BY DEF Consecutive
  <2>1. i \in Nat /\ i + 1 \in DOMAIN s /\ Tail(s)[i] = s[i + 1] /\ Numbered(s[i + 1], r)
    BY <1>1
  <2>2. d < s[i + 1].n /\ AllBefore(s, r, d, s[i + 1].n - 1, i + 1)
    BY <2>1 DEF Consecutive
  <2>3. e < s[i + 1].n
    BY <1>1, <2>1, <2>2 DEF Ordered
  <2> QED BY <1>6, <2>1, <2>2, <2>3
<1>8. EndsAfter(s, r, d, top) => EndsAfter(Tail(s), r, e, top)
  BY <1>1, <1>6 DEF EndsAfter
<1>9. AllBefore(s, r, d, top, Len(s) + 1) => AllBefore(Tail(s), r, e, top, Len(Tail(s)) + 1)
  BY <1>1, <1>6
<1> QED BY <1>3, <1>7, <1>8, <1>9

LEMMA MessagesPrefix ==
    ASSUME NEW s \in Seq(Messages), NEW k \in 0..Len(s), NEW r, NEW top \in Nat, NEW over,
           NEW d \in Nat, NEW c, c = SubSeq(s, 1, k)
    PROVE  /\ Unmentioned(s, r) => Unmentioned(c, r)
           /\ MessagesFit(s, r, top, over) => MessagesFit(c, r, top, over)
           /\ Ordered(s, r) => Ordered(c, r)
           /\ Consecutive(s, r, d) => Consecutive(c, r, d)
           /\ EndsAfter(s, r, d, top) => EndsAfter(c, r, d, top)
<1>1. DOMAIN s = 1..Len(s) /\ Len(s) \in Nat /\ DOMAIN c = 1..k /\ k \in Nat /\ k <= Len(s)
      /\ \A i \in DOMAIN c : i \in DOMAIN s /\ c[i] = s[i]
  BY PrefixAt, LenProperties
<1>2. \A n : \A i \in DOMAIN c : Before(s, r, n, i) => Before(c, r, n, i)
  BY <1>1 DEF Before
<1>3. \A t : \A i \in DOMAIN c : AllBefore(s, r, d, t, i) => AllBefore(c, r, d, t, i)
  BY <1>2 DEF AllBefore
<1>4. Unmentioned(s, r) => Unmentioned(c, r)
  BY <1>1 DEF Unmentioned
<1>5. MessagesFit(s, r, top, over) => MessagesFit(c, r, top, over)
  BY <1>1 DEF MessagesFit
<1>6. Ordered(s, r) => Ordered(c, r)
  BY <1>1 DEF Ordered
<1>7. Consecutive(s, r, d) => Consecutive(c, r, d)
  BY <1>1, <1>3 DEF Consecutive
<1>8. EndsAfter(s, r, d, top) => EndsAfter(c, r, d, top)
  BY <1>1, <1>3 DEF EndsAfter
<1> QED BY <1>4, <1>5, <1>6, <1>7, <1>8

(* The channel of a caller: the listener appends an item or a last failure,  *)
(* the caller takes the head.                                                *)
LEMMA ChannelAppend ==
    ASSUME NEW c \in Seq(Events), NEW e \in Events, NEW g \in Nat, NEW top \in Nat, NEW over,
           NoFailure(c), ChannelFits(c, g, top, over),
           \/ e.kind \in Failures /\ e.n = 0
           \/ e.kind \notin Failures /\ e.n = g + Len(c) + 1 /\ e.n <= top,
           e.kind \in Whole => e.n = top /\ over
    PROVE  /\ ChannelFits(Append(c, e), g, top, over)
           /\ e.kind \notin Failures => NoFailure(Append(c, e))
           /\ Append(c, e) # <<>> /\ Append(c, e)[Len(Append(c, e))] = e
           /\ Len(Append(c, e)) = Len(c) + 1
<1>1. /\ DOMAIN c = 1..Len(c) /\ DOMAIN Append(c, e) = 1..(Len(c) + 1) /\ Len(c) \in Nat
      /\ \A i \in DOMAIN c : Append(c, e)[i] = c[i]
      /\ Append(c, e)[Len(c) + 1] = e /\ Len(Append(c, e)) = Len(c) + 1
  BY AppendAt
<1>2. \A i \in DOMAIN c : c[i].kind \notin Failures /\ c[i].n = g + i /\ c[i].n <= top
  BY DEF NoFailure, ChannelFits
<1>3. ChannelFits(Append(c, e), g, top, over)
  <2> DEFINE a == Append(c, e)
             Fit(i) == /\ \/ a[i].kind \in Failures /\ a[i].n = 0 /\ i = Len(a)
                          \/ a[i].kind \notin Failures /\ a[i].n = g + i /\ a[i].n <= top
                       /\ a[i].kind \in Whole => a[i].n = top /\ over
  <2>1. ASSUME NEW i \in DOMAIN c PROVE Fit(i)
    BY <1>1, <1>2, <2>1 DEF ChannelFits
  <2>2. Fit(Len(c) + 1)
    BY <1>1
  <2>3. \A i \in DOMAIN a : i \in DOMAIN c \/ i = Len(c) + 1
    BY <1>1
  <2> QED BY <2>1, <2>2, <2>3 DEF ChannelFits
<1>4. e.kind \notin Failures => NoFailure(Append(c, e))
  BY <1>1 DEF NoFailure
<1>5. Append(c, e) # <<>>
  BY <1>1
<1> QED BY <1>1, <1>3, <1>4, <1>5

LEMMA ChannelTail ==
    ASSUME NEW c \in Seq(Events), c # <<>>, NEW g \in Nat, NEW top \in Nat, NEW over,
           ChannelFits(c, g, top, over), NEW e, e = Head(c)
    PROVE  /\ e \in Events /\ Tail(c) \in Seq(Events) /\ Len(Tail(c)) = Len(c) - 1 /\ Len(c) \in Nat
           /\ e.n = 0 => e.kind \in Failures /\ Tail(c) = <<>>
           /\ e.n # 0 => /\ e.kind \notin Failures /\ e.n = g + 1 /\ e.n <= top
                         /\ ChannelFits(Tail(c), e.n, top, over)
           /\ e.kind \in Whole => e.n = top /\ over
           /\ NoFailure(c) => NoFailure(Tail(c))
           /\ IF Tail(c) = <<>> THEN c[Len(c)] = e ELSE Tail(c)[Len(Tail(c))] = c[Len(c)]
<1>1. /\ Tail(c) \in Seq(Events) /\ e \in Events /\ e = c[1] /\ 1 \in DOMAIN c
      /\ Len(c) \in Nat /\ Len(c) > 0 /\ Len(Tail(c)) = Len(c) - 1
      /\ DOMAIN c = 1..Len(c) /\ DOMAIN Tail(c) = 1..(Len(c) - 1)
      /\ \A i \in DOMAIN Tail(c) : i + 1 \in DOMAIN c /\ Tail(c)[i] = c[i + 1]
  BY TailAt
<1>2. Tail(c) = <<>> <=> Len(c) = 1
  <2>1. Tail(c) = <<>> <=> Len(Tail(c)) = 0
    BY <1>1, EmptySeq
  <2> QED BY <1>1, <2>1
<1>3. e.n = 0 => e.kind \in Failures /\ Len(c) = 1
  BY <1>1 DEF ChannelFits
<1>4. ASSUME e.n # 0
      PROVE  /\ e.kind \notin Failures /\ e.n = g + 1 /\ e.n <= top
             /\ ChannelFits(Tail(c), e.n, top, over)
  <2>1. e.kind \notin Failures /\ e.n = g + 1 /\ e.n <= top
    BY <1>1, <1>4 DEF ChannelFits
  <2>2. ASSUME NEW i \in DOMAIN Tail(c)
        PROVE  /\ \/ Tail(c)[i].kind \in Failures /\ Tail(c)[i].n = 0 /\ i = Len(Tail(c))
                  \/ /\ Tail(c)[i].kind \notin Failures /\ Tail(c)[i].n = e.n + i
                     /\ Tail(c)[i].n <= top
               /\ Tail(c)[i].kind \in Whole => Tail(c)[i].n = top /\ over
    <3>1. i + 1 \in DOMAIN c /\ Tail(c)[i] = c[i + 1] /\ i \in Nat
      BY <1>1
    <3>2. /\ \/ c[i + 1].kind \in Failures /\ c[i + 1].n = 0 /\ i + 1 = Len(c)
             \/ c[i + 1].kind \notin Failures /\ c[i + 1].n = g + (i + 1) /\ c[i + 1].n <= top
          /\ c[i + 1].kind \in Whole => c[i + 1].n = top /\ over
      BY <3>1 DEF ChannelFits
    <3>3. g + (i + 1) = e.n + i
      BY <2>1, <3>1
    <3>4. i + 1 = Len(c) => i = Len(Tail(c))
      <4>1. \A j, l \in Nat : j + 1 = l => j = l - 1
        OBVIOUS
      <4>2. i \in Nat /\ Len(c) \in Nat
        BY <1>1
      <4>3. i + 1 = Len(c) => i = Len(c) - 1
        BY <4>1, <4>2
      <4> QED BY <1>1, <4>3
    <3> QED BY <3>1, <3>2, <3>3, <3>4
  <2> QED BY <2>1, <2>2 DEF ChannelFits
<1>5. e.kind \in Whole => e.n = top /\ over
  BY <1>1 DEF ChannelFits
<1>6. NoFailure(c) => NoFailure(Tail(c))
  BY <1>1 DEF NoFailure
<1>7. IF Tail(c) = <<>> THEN c[Len(c)] = e ELSE Tail(c)[Len(Tail(c))] = c[Len(c)]
  BY <1>1, <1>2
<1> QED BY <1>1, <1>2, <1>3, <1>4, <1>5, <1>6, <1>7

LEMMA ChannelTop ==
    ASSUME NEW c \in Seq(Events), NEW g \in Nat, NEW top \in Nat, NEW over,
           NoFailure(c), ChannelFits(c, g, top, over), g <= top
    PROVE  g + Len(c) \in Nat /\ g + Len(c) <= top
<1>1. Len(c) \in Nat /\ DOMAIN c = 1..Len(c)
  BY LenProperties
<1>2. CASE Len(c) = 0
  BY <1>2
<1>3. CASE Len(c) # 0
  <2>1. Len(c) \in DOMAIN c
    BY <1>1, <1>3
  <2> QED BY <1>1, <2>1 DEF NoFailure, ChannelFits
<1> QED BY <1>2, <1>3

(* While the server works on a request, nothing in transit ends its answers. *)
LEMMA TransitGrows ==
    ASSUME NEW s, NEW c, NEW r, NEW g, NEW top \in Nat, NEW top2 \in Nat, top <= top2, NEW over2
    PROVE  /\ MessagesFit(s, r, top, FALSE) =>
                MessagesFit(s, r, top2, over2) /\ \A d, t : EndsAfter(s, r, d, t)
           /\ (\A i \in DOMAIN c : c[i].n \in Nat) /\ ChannelFits(c, g, top, FALSE)
                => ChannelFits(c, g, top2, over2)
<1>1. MessagesFit(s, r, top, FALSE) => MessagesFit(s, r, top2, over2)
  BY DEF MessagesFit, MessageFits
<1>2. MessagesFit(s, r, top, FALSE) => \A d, t : EndsAfter(s, r, d, t)
  BY DEF MessagesFit, MessageFits, EndsAfter, Unnumbered
<1>3. (\A i \in DOMAIN c : c[i].n \in Nat) /\ ChannelFits(c, g, top, FALSE)
        => ChannelFits(c, g, top2, over2)
  BY DEF ChannelFits
<1> QED BY <1>1, <1>2, <1>3

LEMMA WaitsQueue ==
    ASSUME NEW s \in Seq(Queued), NEW q \in Queued, NEW r \in Requests
    PROVE  /\ Waits(Append(s, q), r) <=> Waits(s, r) \/ q = NewRequest(r)
           /\ s # <<>> => /\ Waits(s, r) => Waits(Tail(s), r) \/ Head(s) = NewRequest(r)
                          /\ Waits(Tail(s), r) => Waits(s, r)
           /\ Waits(s, r) => Holds(s, r) /\ \A state : Fits(s, r, state) => state = "idle"
<1>1. Waits(Append(s, q), r) <=> Waits(s, r) \/ q = NewRequest(r)
  BY AppendAt DEF Waits
<1>2. ASSUME s # <<>>, Waits(s, r), Head(s) # NewRequest(r) PROVE Waits(Tail(s), r)
  <2>1. PICK i \in DOMAIN s : s[i] = NewRequest(r)
    BY <1>2 DEF Waits
  <2>2. i - 1 \in DOMAIN Tail(s) /\ Tail(s)[i - 1] = s[i]
    BY <1>2, <2>1, TailAt
  <2> QED BY <2>1, <2>2 DEF Waits
<1>3. s # <<>> /\ Waits(Tail(s), r) => Waits(s, r)
  BY TailAt DEF Waits
<1>4. Waits(s, r) => Holds(s, r) /\ \A state : Fits(s, r, state) => state = "idle"
  BY DEF Waits, Holds, Fits, NewRequest
<1> QED BY <1>1, <1>2, <1>3, <1>4

LEMMA AnswerTypes ==
    ASSUME TypeOK, NEW r \in Requests
    PROVE  /\ got[r] \in Nat /\ sent[r] \in Nat /\ inbox[r] \in Seq(Events)
           /\ Len(inbox[r]) \in Nat /\ Delivered(r) \in Nat /\ queue \in Seq(Queued)
           /\ responseStream \in Seq(Messages) /\ Len(responseStream) \in Nat
<1>1. /\ got[r] \in Nat /\ sent[r] \in Nat /\ inbox[r] \in Seq(Events)
      /\ queue \in Seq(Queued) /\ responseStream \in Seq(Messages)
  BY DEF TypeOK, AnswersOK, ServerOK, DispatchOK
<1>2. Len(inbox[r]) \in Nat /\ Len(responseStream) \in Nat
  BY <1>1, LenProperties
<1> QED BY <1>1, <1>2 DEF Delivered

LEMMA AnswerInit == Init => AnswerInv
<1> SUFFICES ASSUME Init, NEW r \in Requests PROVE AnswerOf(r)
  BY DEF AnswerInv
<1>1. /\ outcome[r] = "idle" /\ callbacks = {} /\ got[r] = 0 /\ inbox[r] = <<>>
      /\ queue = <<>> /\ sent[r] = 0 /\ responseStream = <<>>
  BY DEF Init
<1>2. /\ Unmentioned(<<>>, r) /\ MessagesFit(<<>>, r, 0, Finished(r)) /\ Ordered(<<>>, r)
      /\ ChannelFits(<<>>, 0, 0, Finished(r)) /\ ~Waits(<<>>, r)
  BY EmptyTransit
<1> QED BY <1>1, <1>2 DEF AnswerOf, Fresh, InTransit, SinkHeld, SinkGone

(* Steps that touch neither the queue, the sinks nor what is in transit; a   *)
(* caller may give up, and the server may start on a request.                *)
LEMMA AnswerKept ==
    ASSUME AnswerInv,
           UNCHANGED <<queue, callbacks, got, inbox, sent, serverOpen, responseStream>>,
           \A r \in Requests :
               /\ outcome'[r] = outcome[r] \/ outcome'[r] \notin {"idle", "waiting"}
               /\ srv'[r] = "idle" => srv[r] = "idle"
               /\ Finished(r)' = Finished(r),
           listener' = "loop" => listener = "loop",
           listener' \in Drained => listener \in Drained \/ runtime' = "stopped",
           runtime = "stopped" => runtime' = "stopped"
    PROVE  AnswerInv'
<1> SUFFICES ASSUME NEW r \in Requests PROVE AnswerOf(r)'
  BY DEF AnswerInv
<1>1. AnswerOf(r)
  BY DEF AnswerInv
<1>2. Fresh(r)'
  BY <1>1 DEF AnswerOf, Fresh
<1>3. InTransit(r)'
  BY <1>1 DEF AnswerOf, InTransit
<1>4. SinkHeld(r)'
  BY <1>1 DEF AnswerOf, SinkHeld, Continued, Delivered
<1>5. SinkGone(r)'
  BY <1>1 DEF AnswerOf, SinkGone, Delivered
<1> QED BY <1>2, <1>3, <1>4, <1>5 DEF AnswerOf

(* A new request enters the queue: nothing has reached its caller.           *)
LEMMA AnswerSubmit ==
    ASSUME TypeOK, AnswerInv, NEW r0 \in Requests, Submit(r0) PROVE AnswerInv'
<1>1. /\ outcome[r0] = "idle"
      /\ UNCHANGED <<callbacks, got, inbox, sent, srv, serverOpen, responseStream, listener, runtime>>
      /\ \/ queue' = queue /\ outcome' \in {[outcome EXCEPT ![r0] = o] : o \in {ErrorSeen, "closed"}}
         \/ /\ queue' = Append(queue, NewRequest(r0))
            /\ outcome' = [outcome EXCEPT ![r0] = "waiting"]
  BY Zenon DEF Submit, serverVars, listenVars, lifeVars
<1>2. \A r \in Requests : Finished(r)' = Finished(r)
  BY <1>1 DEF Finished
<1>3. CASE queue' = queue /\ outcome' \in {[outcome EXCEPT ![r0] = o] : o \in {ErrorSeen, "closed"}}
  <2>1. ErrorSeen \in {"closed", "status"}
    BY DEF ErrorSeen, TypeOK, FlagsOK
  <2>2. \A r \in Requests : outcome'[r] = outcome[r] \/ outcome'[r] \notin {"idle", "waiting"}
    BY <1>3, <2>1 DEF TypeOK, AnswersOK
  <2> QED BY <1>1, <1>2, <1>3, <2>2, AnswerKept
<1>4. CASE queue' = Append(queue, NewRequest(r0)) /\ outcome' = [outcome EXCEPT ![r0] = "waiting"]
  <2> SUFFICES ASSUME NEW r \in Requests PROVE AnswerOf(r)'
    BY DEF AnswerInv
  <2>1. AnswerOf(r)
    BY DEF AnswerInv
  <2>2. Waits(queue', r) <=> Waits(queue, r) \/ r = r0
    <3>1. NewRequest(r0) \in Queued /\ (NewRequest(r0) = NewRequest(r) <=> r = r0)
      BY DEF NewRequest, Queued
    <3> QED BY <1>4, <3>1, AnswerTypes, WaitsQueue
  <2>3. outcome'[r] = IF r = r0 THEN "waiting" ELSE outcome[r]
    BY <1>4 DEF TypeOK, AnswersOK
  <2>4. Fresh(r)'
    BY <1>1, <2>1, <2>2, <2>3 DEF AnswerOf, Fresh
  <2>5. InTransit(r)'
    BY <1>1, <1>2, <2>1 DEF AnswerOf, InTransit
  <2>6. SinkHeld(r)'
    BY <1>1, <2>1, <2>3 DEF AnswerOf, Fresh, SinkHeld, Continued, Delivered
  <2>7. SinkGone(r)'
    BY <1>1, <1>2, <2>1, <2>2, <2>3 DEF AnswerOf, SinkGone, Delivered
  <2> QED BY <2>4, <2>5, <2>6, <2>7 DEF AnswerOf
<1> QED BY <1>1, <1>3, <1>4

(* The caller reads the next item: it is the one after the last it has read, *)
(* or the failure that ends the channel.                                     *)
LEMMA AnswerRead ==
    ASSUME TypeOK, AnswerInv, NEW r0 \in Requests, Read(r0) PROVE AnswerInv'
<1> DEFINE e == Head(inbox[r0])
<1>1. /\ outcome[r0] = "waiting" /\ inbox[r0] # <<>>
      /\ inbox' = [inbox EXCEPT ![r0] = Tail(@)]
      /\ got' = [got EXCEPT ![r0] = IF e.n = 0 THEN @ ELSE e.n]
      /\ UNCHANGED <<callbacks, sent, srv, serverOpen, responseStream, listener, runtime>>
      /\ queue' = queue \/ queue' = Append(queue, ContinueRequest(r0))
      /\ \E o \in {"closed", OutcomeOf(e)} : outcome' = [outcome EXCEPT ![r0] = o]
  BY Zenon DEF Read, serverVars, listenVars, lifeVars
<1> SUFFICES ASSUME NEW r \in Requests PROVE AnswerOf(r)'
  BY DEF AnswerInv
<1>2. AnswerOf(r) /\ Finished(r)' = Finished(r)
  BY <1>1 DEF AnswerInv, Finished
<1>3. Waits(queue', r) <=> Waits(queue, r)
  <2>1. ContinueRequest(r0) \in Queued /\ ContinueRequest(r0) # NewRequest(r)
    BY DEF NewRequest, ContinueRequest, Queued
  <2>2. Waits(Append(queue, ContinueRequest(r0)), r) <=> Waits(queue, r)
    BY <2>1, AnswerTypes, WaitsQueue
  <2> QED BY <1>1, <2>2
<1>4. CASE r # r0
  <2>1. outcome'[r] = outcome[r] /\ got'[r] = got[r] /\ inbox'[r] = inbox[r]
    BY <1>1, <1>4 DEF TypeOK, AnswersOK
  <2> QED BY <1>1, <1>2, <1>3, <2>1
        DEF AnswerOf, Fresh, InTransit, SinkHeld, Continued, SinkGone, Delivered
<1>5. CASE r = r0
  <2> DEFINE c == inbox[r]
  <2>1. inbox'[r] = Tail(c) /\ got'[r] = (IF e.n = 0 THEN got[r] ELSE e.n)
    BY <1>1, <1>5 DEF TypeOK, AnswersOK
  <2>2. outcome'[r] \in {"closed", OutcomeOf(e)}
    BY <1>1, <1>5 DEF TypeOK, AnswersOK
  <2>3. /\ e \in Events /\ Tail(c) \in Seq(Events) /\ Len(Tail(c)) = Len(c) - 1 /\ Len(c) \in Nat
        /\ e.n = 0 => e.kind \in Failures /\ Tail(c) = <<>>
        /\ e.n # 0 => /\ e.kind \notin Failures /\ e.n = got[r] + 1 /\ e.n <= sent[r]
                      /\ ChannelFits(Tail(c), e.n, sent[r], Finished(r))
        /\ NoFailure(c) => NoFailure(Tail(c))
        /\ IF Tail(c) = <<>> THEN c[Len(c)] = e ELSE Tail(c)[Len(Tail(c))] = c[Len(c)]
    <3>1. /\ c \in Seq(Events) /\ c # <<>> /\ got[r] \in Nat /\ sent[r] \in Nat /\ e = Head(c)
          /\ ChannelFits(c, got[r], sent[r], Finished(r))
      BY <1>1, <1>2, <1>5, AnswerTypes DEF AnswerOf, InTransit
    <3> HIDE DEF c, e
    <3> QED BY <3>1, ChannelTail
  <2>4. e.kind \in Terminal => OutcomeOf(e) \notin {"idle", "waiting"}
    BY DEF Terminal, Failures, OutcomeOf
  <2>5. OutcomeOf(e) # "idle"
    BY <2>3 DEF OutcomeOf, Events, EventKinds
  <2>6. Fresh(r)'
    BY <1>1, <1>2, <1>3, <1>5, <2>1, <2>2, <2>3, <2>5 DEF AnswerOf, Fresh
  <2>7. ChannelFits(inbox'[r], got'[r], sent[r], Finished(r))
    <3>1. CASE e.n = 0
      BY <2>1, <2>3, <3>1, AnswerTypes, EmptyTransit
    <3>2. CASE e.n # 0
      BY <2>1, <2>3, <3>2
    <3> QED BY <3>1, <3>2
  <2>8. InTransit(r)'
    BY <1>1, <1>2, <2>7 DEF AnswerOf, InTransit
  <2>9. CASE e.n = 0
    <3>1. outcome'[r] \notin {"idle", "waiting"}
      BY <2>2, <2>3, <2>4, <2>9 DEF Terminal
    <3> QED BY <2>6, <2>8, <3>1 DEF AnswerOf, SinkHeld, SinkGone
  <2>10. CASE e.n # 0
    <3>1. Delivered(r)' = Delivered(r)
      <4>1. got'[r] = got[r] + 1 /\ Len(inbox'[r]) = Len(inbox[r]) - 1
        BY <2>1, <2>3, <2>10
      <4>2. got[r] \in Nat /\ Len(inbox[r]) \in Nat
        BY AnswerTypes
      <4>3. \A x, y \in Nat : (x + 1) + (y - 1) = x + y
        OBVIOUS
      <4> QED BY <4>1, <4>2, <4>3 DEF Delivered
    <3>2. SinkHeld(r)'
      BY <1>1, <1>2, <1>5, <2>1, <2>3, <3>1 DEF AnswerOf, SinkHeld, Continued
    <3>3. ASSUME outcome'[r] = "waiting", inbox[r][Len(inbox[r])].kind \in Terminal
          PROVE  inbox'[r] # <<>> /\ inbox'[r][Len(inbox'[r])].kind \in Terminal
      BY <2>1, <2>2, <2>3, <2>4, <3>3
    <3>4. SinkGone(r)'
      BY <1>1, <1>2, <1>3, <1>5, <2>1, <2>3, <3>1, <3>3 DEF AnswerOf, SinkGone
    <3> QED BY <2>6, <2>8, <3>2, <3>4 DEF AnswerOf
  <2> QED BY <2>9, <2>10
<1> QED BY <1>4, <1>5

LEMMA AnswerAbandon ==
    ASSUME TypeOK, AnswerInv, NEW r0 \in Requests, Abandon(r0) PROVE AnswerInv'
<1>1. /\ UNCHANGED <<queue, callbacks, got, sent, srv, serverOpen, responseStream, listener, runtime>>
      /\ outcome[r0] = "waiting" /\ outcome'[r0] = "abandoned" /\ inbox'[r0] = <<>>
      /\ \A r \in Requests : r # r0 => outcome'[r] = outcome[r] /\ inbox'[r] = inbox[r]
  BY DEF Abandon, TypeOK, AnswersOK, dispatchVars, serverVars, listenVars, lifeVars
<1> SUFFICES ASSUME NEW r \in Requests PROVE AnswerOf(r)'
  BY DEF AnswerInv
<1>2. AnswerOf(r) /\ Finished(r)' = Finished(r)
  BY <1>1 DEF AnswerInv, Finished
<1>3. CASE r # r0
  BY <1>1, <1>2, <1>3
    DEF AnswerOf, Fresh, InTransit, SinkHeld, Continued, SinkGone, Delivered
<1>4. CASE r = r0
  <2>1. Fresh(r)'
    BY <1>1, <1>2, <1>4 DEF AnswerOf, Fresh
  <2>2. InTransit(r)'
    BY <1>1, <1>2, <1>4, EmptyTransit, AnswerTypes DEF AnswerOf, InTransit
  <2> QED BY <1>1, <1>4, <2>1, <2>2 DEF AnswerOf, SinkHeld, SinkGone
<1> QED BY <1>3, <1>4

(* The dispatcher registers the sink of a request before the server has seen *)
(* the request.                                                              *)
LEMMA AnswerTake ==
    ASSUME TypeOK, FlowInv, AnswerInv, DispatchTake PROVE AnswerInv'
<1> DEFINE q == Head(queue)
<1>1. /\ queue # <<>> /\ queue' = Tail(queue)
      /\ callbacks' = IF q.new THEN callbacks \cup {q.req} ELSE callbacks
      /\ UNCHANGED <<got, inbox, outcome, sent, srv, serverOpen, responseStream, listener, runtime>>
  BY DEF DispatchTake, serverVars, listenVars, lifeVars
<1>2. queue \in Seq(Queued) /\ q \in Queued
  BY <1>1 DEF TypeOK, DispatchOK
<1> HIDE DEF q
<1> SUFFICES ASSUME NEW r \in Requests PROVE AnswerOf(r)'
  BY DEF AnswerInv
<1>3. AnswerOf(r) /\ FlowOf(r) /\ Finished(r)' = Finished(r)
  BY <1>1 DEF AnswerInv, FlowInv, Finished
<1>4. /\ Waits(queue, r) => Waits(queue', r) \/ q = NewRequest(r)
      /\ Waits(queue', r) => Waits(queue, r)
  BY <1>1, <1>2, WaitsQueue DEF q
<1>5. InTransit(r)'
  BY <1>1, <1>3 DEF AnswerOf, InTransit
<1>6. CASE q # NewRequest(r)
  <2>1. r \in callbacks' <=> r \in callbacks
    BY <1>1, <1>2, <1>6 DEF NewRequest, Queued
  <2>2. Fresh(r)'
    BY <1>1, <1>3, <1>4, <2>1 DEF AnswerOf, Fresh
  <2>3. SinkHeld(r)'
    BY <1>1, <1>3, <2>1 DEF AnswerOf, SinkHeld, Continued, Delivered
  <2>4. SinkGone(r)'
    BY <1>1, <1>3, <1>4, <1>6, <2>1 DEF AnswerOf, SinkGone, Delivered
  <2> QED BY <1>5, <2>2, <2>3, <2>4 DEF AnswerOf
<1>7. CASE q = NewRequest(r)
  <2>1. q.new = TRUE /\ q.req = r
    BY <1>7 DEF NewRequest
  <2>2. r \in callbacks'
    BY <1>1, <2>1
  <2>3. Waits(queue, r) /\ ~Waits(queue', r)
    <3>1. Waits(queue, r)
      BY <1>1, <1>2, <1>7, TailAt DEF Waits, q
    <3>2. ~Holds(queue', r)
      BY <1>1, <1>2, <1>3, <2>1, HoldsTail DEF FlowOf, OneEntry, q
    <3> QED BY <3>1, <3>2 DEF Waits, Holds, NewRequest
  <2>4. got[r] = 0 /\ inbox[r] = <<>> /\ outcome[r] # "idle"
    <3>1. Holds(queue, r)
      BY <1>2, <2>3, WaitsQueue
    <3> QED BY <1>3, <2>3, <3>1 DEF AnswerOf, Fresh, FlowOf, Unasked, NoEntry
  <2>5. sent[r] = 0 /\ Unmentioned(responseStream, r)
    <3>1. srv[r] = "idle"
      BY <1>2, <1>3, <2>3, WaitsQueue DEF FlowOf, EntriesFit
    <3> QED BY <1>3, <3>1 DEF AnswerOf, Fresh
  <2>6. Fresh(r)'
    BY <1>1, <1>3, <2>3, <2>4, <2>5 DEF AnswerOf, Fresh
  <2>7. Delivered(r) = 0 /\ NoFailure(inbox[r])
    BY <2>4 DEF Delivered, NoFailure
  <2>8. /\ Consecutive(responseStream, r, 0) /\ EndsAfter(responseStream, r, 0, 0)
        /\ AllBefore(responseStream, r, 0, 0, Len(responseStream) + 1)
    BY <2>5 DEF Unmentioned, Consecutive, EndsAfter, AllBefore, Numbered
  <2>9. Continued(r)
    BY <2>5, <2>7, <2>8 DEF Continued
  <2>10. SinkHeld(r)'
    BY <1>1, <2>4, <2>7, <2>9 DEF SinkHeld, Continued, Delivered
  <2>11. SinkGone(r)'
    BY <2>2 DEF SinkGone
  <2> QED BY <1>5, <2>6, <2>10, <2>11 DEF AnswerOf
<1> QED BY <1>6, <1>7

(* The map or the queue goes with the sinks in it: what is left in them has  *)
(* reached no caller, unless the runtime was stopped.                        *)
LEMMA AnswerDropped ==
    ASSUME AnswerInv,
           UNCHANGED <<got, inbox, outcome, sent, srv, serverOpen, responseStream>>,
           queue' \in {queue, <<>>}, callbacks' \in {callbacks, {}},
           callbacks' # callbacks => listener \in Drained \/ runtime' = "stopped",
           listener' = "loop" => listener = "loop",
           listener' \in Drained => listener \in Drained \/ runtime' = "stopped",
           runtime = "stopped" => runtime' = "stopped"
    PROVE  AnswerInv'
<1> SUFFICES ASSUME NEW r \in Requests PROVE AnswerOf(r)'
  BY DEF AnswerInv
<1>1. AnswerOf(r) /\ Finished(r)' = Finished(r)
  BY DEF AnswerInv, Finished
<1>2. Waits(queue', r) => Waits(queue, r)
  BY DEF Waits
<1>3. Fresh(r)'
  BY <1>1, <1>2 DEF AnswerOf, Fresh
<1>4. InTransit(r)'
  BY <1>1 DEF AnswerOf, InTransit
<1>5. SinkHeld(r)'
  BY <1>1 DEF AnswerOf, SinkHeld, Continued, Delivered
<1>6. SinkGone(r)'
  <2> SUFFICES ASSUME outcome[r] = "waiting", r \notin callbacks', ~Waits(queue', r),
                      runtime' # "stopped"
               PROVE  \/ got[r] = 0 /\ inbox[r] = <<>>
                      \/ inbox[r] # <<>> /\ inbox[r][Len(inbox[r])].kind \in Terminal
                      \/ Finished(r) /\ Delivered(r) = sent[r] /\ NoFailure(inbox[r])
    BY <1>1 DEF SinkGone, Delivered
  <2>1. CASE r \in callbacks
    BY <1>1, <2>1 DEF AnswerOf, SinkHeld
  <2>2. CASE Waits(queue, r)
    BY <1>1, <2>2 DEF AnswerOf, Fresh
  <2>3. CASE r \notin callbacks /\ ~Waits(queue, r)
    BY <1>1, <2>3 DEF AnswerOf, SinkGone
  <2> QED BY <2>1, <2>2, <2>3
<1> QED BY <1>3, <1>4, <1>5, <1>6 DEF AnswerOf

LEMMA AnswerShutdown ==
    ASSUME AnswerInv, DispatchShutdown PROVE AnswerInv'
<1>1. /\ UNCHANGED <<got, inbox, outcome, sent, srv, serverOpen, responseStream, listener, runtime>>
      /\ queue' = <<>> /\ callbacks' = SharedMap(ListenerGone)
  BY DEF DispatchShutdown, serverVars, listenVars, lifeVars
<1>2. callbacks' \in {callbacks, {}} /\ (callbacks' # callbacks => listener \in Drained)
  BY <1>1 DEF SharedMap, ListenerGone, Drained
<1> QED BY <1>1, <1>2, AnswerDropped

LEMMA AnswerListenerGoes ==
    ASSUME AnswerInv, ListenFinish \/ ListenInvoke \/ WorkerStop PROVE AnswerInv'
<1>1. /\ UNCHANGED <<queue, got, inbox, outcome, sent, srv, serverOpen, responseStream>>
      /\ listener \in Drained \/ runtime' = "stopped"
      /\ runtime' = runtime \/ runtime' = "stopped"
  BY DEF ListenFinish, ListenInvoke, WorkerStop, Drained, dispatchVars, serverVars, lifeVars
<1>2. callbacks' \in {callbacks, {}} /\ listener' \in {listener, "awaiting", "done", "dead"}
  BY DEF ListenFinish, ListenInvoke, WorkerStop, DropListener, SharedMap
<1>3. listener' = "loop" => listener = "loop"
  BY <1>2
<1> QED BY <1>1, <1>2, <1>3, AnswerDropped

(* The server starts on a batch of requests.                                 *)
LEMMA AnswerReceive ==
    ASSUME TypeOK, AnswerInv, ServerReceive PROVE AnswerInv'
<1>1. /\ UNCHANGED <<queue, callbacks, got, inbox, outcome, sent, serverOpen, responseStream,
                     listener, runtime>>
  BY DEF ServerReceive, answerVars, listenVars, lifeVars
<1>2. \A r \in Requests : srv'[r] = srv[r] \/ (srv[r] \in {"idle", "paused"} /\ srv'[r] = "running")
  BY DEF ServerReceive
<1>3. \A r \in Requests : (srv'[r] = "idle" => srv[r] = "idle") /\ Finished(r)' = Finished(r)
  BY <1>2 DEF Finished
<1> QED BY <1>1, <1>3, AnswerKept

LEMMA AnswerEnd == ASSUME TypeOK, AnswerInv, ServerEnd \/ StreamBreaks PROVE AnswerInv'
<1>1. PICK k \in 0..Len(responseStream), m \in {EndOfStream, StatusError} :
        responseStream' = Append(SubSeq(responseStream, 1, k), m)
  BY StreamCut
<1>2. /\ UNCHANGED <<queue, callbacks, got, inbox, outcome, sent, srv, listener, runtime>>
      /\ serverOpen' = FALSE
  BY DEF ServerEnd, StreamBreaks, dispatchVars, answerVars, listenVars, lifeVars
<1> DEFINE cut == SubSeq(responseStream, 1, k)
<1>3. /\ responseStream \in Seq(Messages) /\ cut \in Seq(Messages) /\ m \in Messages
      /\ m.kind \notin Items
  BY PrefixAt DEF TypeOK, ServerOK, Messages, Items, EndOfStream, StatusError
<1> SUFFICES ASSUME NEW r \in Requests PROVE AnswerOf(r)'
  BY DEF AnswerInv
<1>4. AnswerOf(r) /\ Finished(r)' = Finished(r) /\ Delivered(r)' = Delivered(r)
      /\ ~Of(m, r) /\ ~Numbered(m, r) /\ MessageFits(m, r, sent[r], Finished(r))
  BY <1>2, <1>3 DEF AnswerInv, Finished, Delivered, Of, Numbered, MessageFits
<1> DEFINE d == Delivered(r)
<1>5. d \in Nat /\ sent[r] \in Nat /\ cut = SubSeq(responseStream, 1, k)
  BY AnswerTypes
<1> HIDE DEF d, cut
<1>6. /\ Unmentioned(responseStream, r) => Unmentioned(cut, r)
      /\ MessagesFit(responseStream, r, sent[r], Finished(r)) =>
           MessagesFit(cut, r, sent[r], Finished(r))
      /\ Ordered(responseStream, r) => Ordered(cut, r)
      /\ Consecutive(responseStream, r, d) => Consecutive(cut, r, d)
      /\ EndsAfter(responseStream, r, d, sent[r]) => EndsAfter(cut, r, d, sent[r])
  <2>1. \A c, over : c = SubSeq(responseStream, 1, k) =>
          /\ Unmentioned(responseStream, r) => Unmentioned(c, r)
          /\ MessagesFit(responseStream, r, sent[r], over) => MessagesFit(c, r, sent[r], over)
          /\ Ordered(responseStream, r) => Ordered(c, r)
          /\ Consecutive(responseStream, r, d) => Consecutive(c, r, d)
          /\ EndsAfter(responseStream, r, d, sent[r]) => EndsAfter(c, r, d, sent[r])
    BY <1>3, <1>5, MessagesPrefix
  <2> QED BY <1>5, <2>1
<1>7. /\ Unmentioned(cut, r) => Unmentioned(Append(cut, m), r)
      /\ MessagesFit(cut, r, sent[r], Finished(r)) =>
           MessagesFit(Append(cut, m), r, sent[r], Finished(r))
      /\ Ordered(cut, r) => Ordered(Append(cut, m), r)
      /\ Consecutive(cut, r, d) => Consecutive(Append(cut, m), r, d)
      /\ EndsAfter(cut, r, d, sent[r]) => EndsAfter(Append(cut, m), r, d, sent[r])
  BY <1>3, <1>4, <1>5, MessagesAppend
<1>8. responseStream' = Append(cut, m)
  BY <1>1, <1>5
<1>9. Fresh(r)' /\ InTransit(r)'
  BY <1>2, <1>4, <1>6, <1>7, <1>8 DEF AnswerOf, Fresh, InTransit
<1>10. Continued(r) => Continued(r)'
  BY <1>2, <1>4, <1>6, <1>7, <1>8 DEF Continued, d
<1>11. SinkHeld(r)' /\ SinkGone(r)'
  BY <1>2, <1>4, <1>10 DEF AnswerOf, SinkHeld, SinkGone
<1> QED BY <1>9, <1>11 DEF AnswerOf

(* The server sends an item, which is the next one, or ends the answers.     *)
LEMMA ReplyEffect ==
    ASSUME TypeOK, NEW r0 \in Requests, ServerReply(r0)
    PROVE  \E kind \in Items, n \in Nat :
             /\ n = IF kind \in Unnumbered THEN 0 ELSE sent[r0] + 1
             /\ responseStream' = Append(responseStream, Message(r0, kind, n))
             /\ sent'[r0] = IF kind \in Unnumbered THEN sent[r0] ELSE sent[r0] + 1
             /\ srv'[r0] # "idle" /\ (kind \in Whole \cup Unnumbered => Finished(r0)')
             /\ \A r \in Requests : r # r0 => sent'[r] = sent[r] /\ srv'[r] = srv[r]
<1>1. PICK p \in Replies(r0) :
        LET numbered == p[1] \notin {"Done", "NoState", "BadRes", "BadRow"}
        IN /\ responseStream' = Append(responseStream,
                                  Message(r0, p[1], IF numbered THEN sent[r0] + 1 ELSE 0))
           /\ sent' = [sent EXCEPT ![r0] = IF numbered THEN @ + 1 ELSE @]
           /\ srv' = [srv EXCEPT ![r0] = p[2]]
  BY DEF ServerReply
<1>2. /\ p[1] \in Items /\ p[2] # "idle"
      /\ p[1] \in Whole \cup Unnumbered => p[2] \in {"done", "broken"}
  BY DEF Replies, Items, Whole, Unnumbered
<1> DEFINE n == IF p[1] \in Unnumbered THEN 0 ELSE sent[r0] + 1
<1>3. n \in Nat /\ responseStream' = Append(responseStream, Message(r0, p[1], n))
  BY <1>1 DEF Unnumbered, TypeOK, ServerOK
<1>4. /\ sent'[r0] = IF p[1] \in Unnumbered THEN sent[r0] ELSE sent[r0] + 1
      /\ srv'[r0] = p[2]
      /\ \A r \in Requests : r # r0 => sent'[r] = sent[r] /\ srv'[r] = srv[r]
  BY <1>1 DEF Unnumbered, TypeOK, ServerOK
<1>5. p[1] \in Whole \cup Unnumbered => Finished(r0)'
  BY <1>2, <1>4 DEF Finished
<1> QED BY <1>2, <1>3, <1>4, <1>5

LEMMA AnswerReply ==
    ASSUME TypeOK, AnswerInv, NEW r0 \in Requests, ServerReply(r0) PROVE AnswerInv'
<1>1. /\ UNCHANGED <<queue, callbacks, got, inbox, outcome, serverOpen, listener, runtime>>
      /\ srv[r0] = "running" /\ serverOpen
  BY DEF ServerReply, dispatchVars, answerVars, listenVars, lifeVars
<1>2. PICK kind \in Items, n \in Nat :
        /\ n = IF kind \in Unnumbered THEN 0 ELSE sent[r0] + 1
        /\ responseStream' = Append(responseStream, Message(r0, kind, n))
        /\ sent'[r0] = IF kind \in Unnumbered THEN sent[r0] ELSE sent[r0] + 1
        /\ srv'[r0] # "idle" /\ (kind \in Whole \cup Unnumbered => Finished(r0)')
        /\ \A r \in Requests : r # r0 => sent'[r] = sent[r] /\ srv'[r] = srv[r]
  BY ReplyEffect
<1> DEFINE m == Message(r0, kind, n)
           s == responseStream
<1>3. m \in Messages /\ m.req = r0 /\ m.kind = kind /\ m.n = n
  BY DEF Message, Messages
<1> HIDE DEF m
<1>4. responseStream' = Append(s, m) /\ s \in Seq(Messages) /\ Len(s) \in Nat
      /\ Len(Append(s, m)) = Len(s) + 1
  BY <1>2, <1>3, AnswerTypes, AppendAt DEF m
<1> SUFFICES ASSUME NEW r \in Requests PROVE AnswerOf(r)'
  BY DEF AnswerInv
<1>5. AnswerOf(r) /\ Delivered(r)' = Delivered(r)
  BY <1>1 DEF AnswerInv, Delivered
<1> DEFINE d == Delivered(r)
           top == sent'[r]
<1>6. d \in Nat /\ sent[r] \in Nat /\ top \in Nat /\ sent[r] <= top
  BY <1>2, AnswerTypes
<1>7. CASE r # r0
  <2>1. ~Of(m, r) /\ ~Numbered(m, r) /\ sent'[r] = sent[r] /\ srv'[r] = srv[r]
        /\ Finished(r)' = Finished(r) /\ MessageFits(m, r, sent[r], Finished(r))
    BY <1>2, <1>3, <1>7 DEF Of, Numbered, Finished, MessageFits
  <2> HIDE DEF d, s
  <2>2. /\ Unmentioned(s, r) => Unmentioned(Append(s, m), r)
        /\ MessagesFit(s, r, sent[r], Finished(r)) =>
             MessagesFit(Append(s, m), r, sent[r], Finished(r))
        /\ Ordered(s, r) => Ordered(Append(s, m), r)
        /\ Consecutive(s, r, d) => Consecutive(Append(s, m), r, d)
        /\ EndsAfter(s, r, d, sent[r]) => EndsAfter(Append(s, m), r, d, sent[r])
    BY <1>3, <1>4, <1>6, <2>1, MessagesAppend
  <2>3. AllBefore(s, r, d, sent[r], Len(s) + 1) =>
          AllBefore(Append(s, m), r, d, sent[r], Len(Append(s, m)) + 1)
    <3>1. Len(s) + 2 = Len(Append(s, m)) + 1
      BY <1>4
    <3> QED BY <1>3, <1>4, <1>6, <3>1, AllBeforeAppend
  <2>4. Fresh(r)' /\ InTransit(r)'
    BY <1>1, <1>4, <1>5, <2>1, <2>2 DEF AnswerOf, Fresh, InTransit, s
  <2>5. Continued(r) => Continued(r)'
    BY <1>1, <1>4, <1>5, <2>1, <2>2, <2>3 DEF Continued, d, s
  <2>6. SinkHeld(r)' /\ SinkGone(r)'
    BY <1>1, <1>5, <2>1, <2>5 DEF AnswerOf, SinkHeld, SinkGone
  <2> QED BY <2>4, <2>6 DEF AnswerOf
<1>8. CASE r = r0
  <2>1. Finished(r) = FALSE
    BY <1>1, <1>8 DEF Finished
  <2>2. MessagesFit(s, r, sent[r], FALSE) /\ ChannelFits(inbox[r], got[r], sent[r], FALSE)
        /\ Ordered(s, r)
    BY <1>5, <2>1 DEF AnswerOf, InTransit
  <2>3. \A i \in DOMAIN inbox[r] : inbox[r][i].n \in Nat
    <3>1. \A c \in Seq(Events) : \A i \in DOMAIN c : c[i] \in Events
      OBVIOUS
    <3>2. \A i \in DOMAIN inbox[r] : inbox[r][i] \in Events
      BY <3>1, AnswerTypes
    <3> QED BY <3>2 DEF Events
  <2> DEFINE over == Finished(r)'
  <2>4. kind \in Whole \cup Unnumbered => over
    BY <1>2, <1>8
  <2> HIDE DEF d, s, top, over
  <2>5. /\ MessagesFit(s, r, top, over) /\ ChannelFits(inbox[r], got[r], top, over)
        /\ EndsAfter(s, r, d, top)
    BY <1>6, <2>2, <2>3, TransitGrows
  <2>6. top = (IF kind \in Unnumbered THEN sent[r] ELSE sent[r] + 1)
        /\ n = (IF kind \in Unnumbered THEN 0 ELSE sent[r] + 1)
    BY <1>2, <1>8 DEF top
  <2>7. MessageFits(m, r, top, over)
    BY <1>3, <1>6, <2>4, <2>6 DEF MessageFits, Whole, Unnumbered
  <2>8. Numbered(m, r) => \A i \in DOMAIN s : Numbered(s[i], r) => s[i].n < m.n
    BY <1>3, <1>6, <2>2, <2>6 DEF MessagesFit, MessageFits, Numbered
  <2>9. MessagesFit(Append(s, m), r, top, over) /\ Ordered(Append(s, m), r)
    BY <1>3, <1>4, <1>6, <2>2, <2>5, <2>7, <2>8, MessagesAppend
  <2>10. Fresh(r)'
    BY <1>1, <1>2, <1>5, <1>6, <1>8, AnswerTypes DEF AnswerOf, Fresh, top
  <2>11. InTransit(r)'
    BY <1>1, <1>4, <2>5, <2>9 DEF InTransit, top, over
  <2>12. ASSUME NoFailure(inbox[r]), Continued(r) PROVE Continued(r)'
    <3>1. d <= sent[r]
      BY <1>5, <2>12, AnswerTypes, ChannelTop DEF AnswerOf, Fresh, InTransit, d, Delivered
    <3>2. Consecutive(s, r, d) /\ AllBefore(s, r, d, sent[r], Len(s) + 1)
      BY <1>1, <2>12 DEF Continued, d, s
    <3>3. Numbered(m, r) => d < m.n /\ m.n - 1 = sent[r]
      BY <1>3, <1>6, <2>6, <3>1 DEF Numbered
    <3>4. m.kind \in {"Done", "NoState"} => top = sent[r]
      BY <1>3, <2>6 DEF Unnumbered
    <3>5. Consecutive(Append(s, m), r, d) /\ EndsAfter(Append(s, m), r, d, top)
      BY <1>3, <1>4, <1>6, <2>5, <3>2, <3>3, <3>4, MessagesAppend
    <3>6. AllBefore(Append(s, m), r, d, top, Len(s) + 2)
      <4>1. Of(m, r)
        BY <1>3, <1>8 DEF Of
      <4> QED BY <1>3, <1>4, <1>6, <2>6, <3>2, <4>1, AllBeforeAppend
    <3>7. Len(s) + 2 = Len(Append(s, m)) + 1
      BY <1>4
    <3> QED BY <1>4, <1>5, <3>5, <3>6, <3>7 DEF Continued, d, top
  <2>13. SinkHeld(r)'
    BY <1>1, <1>5, <2>12 DEF AnswerOf, SinkHeld
  <2>14. SinkGone(r)'
    BY <1>1, <1>5, <2>1 DEF AnswerOf, SinkGone
  <2> QED BY <2>10, <2>11, <2>13, <2>14 DEF AnswerOf
<1> QED BY <1>7, <1>8

(* The listener hands over the head of the response stream.                  *)
LEMMA AnswerListen == ASSUME TypeOK, AnswerInv, ListenMessage PROVE AnswerInv'
<1> DEFINE m == Head(responseStream)
           s == responseStream
<1>1. /\ listener = "loop" /\ s # <<>> /\ s \in Seq(Messages) /\ responseStream' = Tail(s)
      /\ m.req \in Requests /\ m.kind \in Items /\ m.n \in Nat
      /\ m = Message(m.req, m.kind, m.n)
      /\ Handed(m) => Given(m) \in Events /\ Given(m).req = m.req
      /\ inbox' = IF Handed(m) THEN [inbox EXCEPT ![m.req] = Append(@, Given(m))] ELSE inbox
      /\ callbacks' = IF m.kind \in {"Header", "Immediate", "Row", "Continue", "BadRow"}
                      THEN callbacks ELSE callbacks \ {m.req}
      /\ listener' \in {"loop", "stuck"}
      /\ UNCHANGED <<queue, outcome, got, srv, sent, serverOpen, runtime>>
  BY ListenEffect
<1>2. m = Head(s)
  OBVIOUS
<1> HIDE DEF m, s
<1> SUFFICES ASSUME NEW r \in Requests PROVE AnswerOf(r)'
  BY DEF AnswerInv
<1>3. AnswerOf(r) /\ Finished(r)' = Finished(r)
  BY <1>1 DEF AnswerInv, Finished
<1> DEFINE d == Delivered(r)
<1>4. /\ d \in Nat /\ sent[r] \in Nat /\ got[r] \in Nat /\ inbox[r] \in Seq(Events)
      /\ Len(inbox[r]) \in Nat /\ d = got[r] + Len(inbox[r])
  BY AnswerTypes DEF Delivered
<1> HIDE DEF d
<1>5. /\ Unmentioned(s, r) => Unmentioned(Tail(s), r)
      /\ MessagesFit(Tail(s), r, sent[r], Finished(r))
      /\ MessageFits(m, r, sent[r], Finished(r))
      /\ Ordered(s, r) /\ Ordered(Tail(s), r)
  <2>1. MessagesFit(s, r, sent[r], Finished(r)) /\ Ordered(s, r)
    BY <1>3 DEF AnswerOf, InTransit, s
  <2> QED BY <1>1, <1>2, <1>4, <2>1, MessagesTail
<1>6. ASSUME Continued(r), NEW e \in Nat, e = IF Numbered(m, r) THEN m.n ELSE d
      PROVE  /\ Numbered(m, r) => e = d + 1
             /\ Consecutive(Tail(s), r, e) /\ EndsAfter(Tail(s), r, e, sent[r])
             /\ serverOpen => AllBefore(Tail(s), r, e, sent[r], Len(Tail(s)) + 1)
  <2>1. /\ Consecutive(s, r, d) /\ EndsAfter(s, r, d, sent[r])
        /\ serverOpen => AllBefore(s, r, d, sent[r], Len(s) + 1)
    BY <1>6 DEF Continued, d, s
  <2>2. Of(Head(s), r) => Head(s).n \in Nat
    BY <1>1, <1>2
  <2>3. e = IF Numbered(Head(s), r) THEN Head(s).n ELSE d
    BY <1>2, <1>6
  <2>4. /\ Numbered(Head(s), r) => e = d + 1
        /\ Consecutive(Tail(s), r, e)
        /\ EndsAfter(s, r, d, sent[r]) => EndsAfter(Tail(s), r, e, sent[r])
        /\ AllBefore(s, r, d, sent[r], Len(s) + 1) =>
             AllBefore(Tail(s), r, e, sent[r], Len(Tail(s)) + 1)
    BY <1>1, <1>4, <1>5, <2>1, <2>2, <2>3, ContinuedTail
  <2> QED BY <1>2, <2>1, <2>4
<1>7. CASE ~(Of(m, r) /\ r \in callbacks /\ outcome[r] = "waiting")
  <2>1. inbox'[r] = inbox[r]
    BY <1>1, <1>7 DEF Of, Handed, TypeOK, AnswersOK
  <2>2. Delivered(r)' = d /\ (outcome[r] = "waiting" => (r \in callbacks' <=> r \in callbacks))
        /\ (r \in callbacks' => r \in callbacks)
    BY <1>1, <1>7, <2>1 DEF Delivered, Of, d
  <2>3. Fresh(r)' /\ InTransit(r)'
    BY <1>1, <1>3, <1>5, <2>1, <2>2 DEF AnswerOf, Fresh, InTransit, s
  <2>4. SinkHeld(r)'
    <3> SUFFICES ASSUME outcome[r] = "waiting", r \in callbacks
                 PROVE  NoFailure(inbox[r]) /\ Continued(r)'
      BY <1>1, <2>1, <2>2 DEF SinkHeld, Drained
    <3>1. NoFailure(inbox[r]) /\ Continued(r) /\ ~Numbered(m, r)
      BY <1>1, <1>3, <1>7 DEF AnswerOf, SinkHeld, Numbered
    <3>2. /\ Consecutive(Tail(s), r, d) /\ EndsAfter(Tail(s), r, d, sent[r])
          /\ serverOpen => AllBefore(Tail(s), r, d, sent[r], Len(Tail(s)) + 1)
      BY <1>4, <1>6, <3>1
    <3> QED BY <1>1, <2>2, <3>1, <3>2 DEF Continued
  <2>5. SinkGone(r)'
    BY <1>1, <1>3, <2>1, <2>2 DEF AnswerOf, SinkGone, d
  <2> QED BY <2>3, <2>4, <2>5 DEF AnswerOf
<1>8. CASE Of(m, r) /\ r \in callbacks /\ outcome[r] = "waiting"
  <2>1. /\ m.req = r /\ NoFailure(inbox[r]) /\ Continued(r)
        /\ ChannelFits(inbox[r], got[r], sent[r], Finished(r))
        /\ got[r] <= sent[r] /\ ~Waits(queue, r)
    BY <1>1, <1>3, <1>8 DEF Of, AnswerOf, SinkHeld, InTransit, Fresh
  <2>2. d <= sent[r]
    BY <1>4, <2>1, ChannelTop
  <2>3. /\ m.n <= sent[r]
        /\ m.n = 0 <=> m.kind \in Unnumbered
        /\ m.kind \in Whole \cup Unnumbered => Finished(r)
        /\ m.kind \in Whole => m.n = sent[r]
    BY <1>5, <1>8 DEF MessageFits
  <2>4. Handed(m) <=> m.kind \notin {"BadRow", "Done", "NoState"}
    BY <1>8, <2>1 DEF Handed
  <2>5. Fresh(r)'
    BY <1>1, <1>3, <1>5, <1>8, <2>1 DEF AnswerOf, Fresh, s
  <2>6. CASE m.kind \in {"Res", "Header", "Immediate", "Row", "Continue", "Error"}
    <3>1. Handed(m) /\ Given(m) = m /\ m \in Events /\ m.kind \notin Failures
      BY <1>1, <2>4, <2>6 DEF Given, Failures
    <3>2. Numbered(m, r)
      BY <1>1, <1>8, <2>3, <2>6 DEF Numbered, Unnumbered
    <3>3. /\ m.n = d + 1
          /\ Consecutive(Tail(s), r, m.n) /\ EndsAfter(Tail(s), r, m.n, sent[r])
          /\ serverOpen => AllBefore(Tail(s), r, m.n, sent[r], Len(Tail(s)) + 1)
      BY <1>1, <1>6, <2>1, <3>2
    <3>4. inbox'[r] = Append(inbox[r], m)
      BY <1>1, <2>1, <3>1 DEF TypeOK, AnswersOK
    <3>5. m.n = got[r] + Len(inbox[r]) + 1
      BY <1>4, <3>3
    <3>6. /\ ChannelFits(inbox'[r], got[r], sent[r], Finished(r)) /\ NoFailure(inbox'[r])
          /\ inbox'[r] # <<>> /\ inbox'[r][Len(inbox'[r])] = m
          /\ Len(inbox'[r]) = Len(inbox[r]) + 1
      <4>1. m.kind \in Whole => m.n = sent[r] /\ Finished(r)
        BY <2>3
      <4>2. /\ ChannelFits(Append(inbox[r], m), got[r], sent[r], Finished(r))
            /\ NoFailure(Append(inbox[r], m))
            /\ Append(inbox[r], m) # <<>>
            /\ Append(inbox[r], m)[Len(Append(inbox[r], m))] = m
            /\ Len(Append(inbox[r], m)) = Len(inbox[r]) + 1
        BY <1>4, <2>1, <2>3, <3>1, <3>5, <4>1, ChannelAppend
      <4> QED BY <3>4, <4>2
    <3>7. Delivered(r)' = m.n
      <4>1. got'[r] = got[r] /\ Len(inbox'[r]) = Len(inbox[r]) + 1
        BY <1>1, <3>6
      <4>2. got[r] + (Len(inbox[r]) + 1) = m.n
        BY <1>4, <3>5
      <4> QED BY <4>1, <4>2 DEF Delivered
    <3>8. InTransit(r)'
      BY <1>1, <1>3, <1>5, <3>6 DEF InTransit
    <3>9. SinkHeld(r)'
      BY <1>1, <3>3, <3>6, <3>7 DEF SinkHeld, Continued, Drained
    <3>10. SinkGone(r)'
      BY <1>1, <1>8, <2>1, <2>6, <3>6 DEF SinkGone, Terminal
    <3> QED BY <2>5, <3>8, <3>9, <3>10 DEF AnswerOf
  <2>7. CASE m.kind = "BadRes"
    <3> DEFINE e == Event(r, "Undecodable")
    <3>1. e \in Events /\ e.kind = "Undecodable" /\ e.n = 0
      BY EventType DEF EventKinds, Event, Message
    <3>2. Handed(m) /\ Given(m) = e
      BY <2>1, <2>4, <2>7 DEF Given
    <3>3. inbox'[r] = Append(inbox[r], e)
      BY <1>1, <2>1, <3>2 DEF TypeOK, AnswersOK
    <3> HIDE DEF e
    <3>4. /\ ChannelFits(inbox'[r], got[r], sent[r], Finished(r))
          /\ inbox'[r] # <<>> /\ inbox'[r][Len(inbox'[r])] = e
      <4>1. e.kind \in Failures /\ ~(e.kind \in Whole)
        BY <3>1 DEF Failures, Whole
      <4>2. /\ ChannelFits(Append(inbox[r], e), got[r], sent[r], Finished(r))
            /\ Append(inbox[r], e) # <<>>
            /\ Append(inbox[r], e)[Len(Append(inbox[r], e))] = e
        BY <1>4, <2>1, <3>1, <4>1, ChannelAppend
      <4> QED BY <3>3, <4>2
    <3>5. InTransit(r)'
      BY <1>1, <1>3, <1>5, <3>4 DEF InTransit
    <3>6. r \notin callbacks'
      BY <1>1, <2>1, <2>7
    <3> QED BY <2>5, <3>1, <3>4, <3>5, <3>6 DEF AnswerOf, SinkHeld, SinkGone, Terminal, Failures
  <2>8. CASE m.kind \in {"BadRow", "Done", "NoState"}
    <3>1. inbox'[r] = inbox[r] /\ ~Numbered(m, r) /\ Finished(r)
      BY <1>1, <2>3, <2>4, <2>8 DEF Numbered, Unnumbered
    <3>2. Delivered(r)' = d
      BY <1>1, <3>1 DEF Delivered, d
    <3>3. InTransit(r)'
      BY <1>1, <1>3, <1>5, <2>1, <3>1 DEF InTransit
    <3>4. SinkHeld(r)'
      <4>1. /\ Consecutive(Tail(s), r, d) /\ EndsAfter(Tail(s), r, d, sent[r])
            /\ serverOpen => AllBefore(Tail(s), r, d, sent[r], Len(Tail(s)) + 1)
        BY <1>4, <1>6, <2>1, <3>1
      <4> QED BY <1>1, <2>1, <3>1, <3>2, <4>1 DEF SinkHeld, Continued, Drained
    <3>5. ASSUME m.kind \in {"Done", "NoState"} PROVE d = sent[r]
      <4>1. AllBefore(s, r, d, sent[r], 1)
        <5>1. 1 \in DOMAIN s /\ s[1] = m
          BY <1>1, <1>2, TailAt
        <5> QED BY <1>8, <2>1, <3>5, <5>1 DEF Continued, EndsAfter, d, s
      <4>2. \A n : ~Before(s, r, n, 1)
        BY <1>1, TailAt DEF Before
      <4> QED BY <1>4, <2>2, <4>1, <4>2 DEF AllBefore
    <3>6. SinkGone(r)'
      <4>1. CASE m.kind = "BadRow"
        BY <1>1, <1>8, <4>1 DEF SinkGone
      <4>2. CASE m.kind \in {"Done", "NoState"}
        <5>1. Finished(r)' /\ Delivered(r)' = sent'[r] /\ NoFailure(inbox'[r])
          BY <1>1, <1>3, <2>1, <3>1, <3>2, <3>5, <4>2
        <5> QED BY <5>1 DEF SinkGone
      <4> QED BY <2>8, <4>1, <4>2
    <3> QED BY <2>5, <3>3, <3>4, <3>6 DEF AnswerOf
  <2> QED BY <1>1, <2>6, <2>7, <2>8 DEF Items
<1> QED BY <1>7, <1>8

LEMMA AnswerListenEnd == ASSUME TypeOK, AnswerInv, ListenEnd PROVE AnswerInv'
<1> DEFINE s == responseStream
<1>1. /\ s # <<>> /\ responseStream' = Tail(s) /\ s \in Seq(Messages)
      /\ listener' \in {"drain", "store"}
      /\ UNCHANGED <<queue, callbacks, got, inbox, outcome, sent, srv, serverOpen, runtime>>
  BY DEF ListenEnd, TypeOK, ServerOK, dispatchVars, answerVars, lifeVars
<1> SUFFICES ASSUME NEW r \in Requests PROVE AnswerOf(r)'
  BY DEF AnswerInv
<1>2. AnswerOf(r) /\ Finished(r)' = Finished(r)
  BY <1>1 DEF AnswerInv, Finished
<1>3. /\ Unmentioned(s, r) => Unmentioned(Tail(s), r)
      /\ MessagesFit(s, r, sent[r], Finished(r)) => MessagesFit(Tail(s), r, sent[r], Finished(r))
      /\ Ordered(s, r) => Ordered(Tail(s), r)
  BY <1>1, AnswerTypes, MessagesTail
<1>4. Fresh(r)' /\ InTransit(r)'
  BY <1>1, <1>2, <1>3 DEF AnswerOf, Fresh, InTransit
<1>5. SinkHeld(r)' /\ SinkGone(r)'
  BY <1>1, <1>2 DEF AnswerOf, SinkHeld, SinkGone, Drained, Delivered
<1> QED BY <1>4, <1>5 DEF AnswerOf

(* Every sink of the map gets a failure as its last answer.                  *)
LEMMA AnswerDrain == ASSUME TypeOK, AnswerInv, ListenDrain PROVE AnswerInv'
<1>1. /\ inbox' = FinishSinks /\ callbacks' = {} /\ listener' = "callbacks"
      /\ UNCHANGED <<queue, got, outcome, sent, srv, serverOpen, responseStream, runtime>>
  BY DEF ListenDrain, dispatchVars, serverVars, lifeVars
<1> SUFFICES ASSUME NEW r \in Requests PROVE AnswerOf(r)'
  BY DEF AnswerInv
<1>2. AnswerOf(r) /\ Finished(r)' = Finished(r)
  BY <1>1 DEF AnswerInv, Finished
<1> DEFINE last == Event(r, IF cause = "end" THEN "Close" ELSE "Status")
<1>3. inbox'[r] = IF r \in callbacks /\ outcome[r] = "waiting" THEN Append(inbox[r], last)
                  ELSE inbox[r]
  BY <1>1 DEF FinishSinks
<1>4. last \in Events /\ last.kind \in Failures /\ last.n = 0
  BY DEF Event, Message, Events, EventKinds, Failures
<1> HIDE DEF last
<1>5. CASE r \in callbacks /\ outcome[r] = "waiting"
  <2>1. NoFailure(inbox[r]) /\ ChannelFits(inbox[r], got[r], sent[r], Finished(r))
        /\ ~Waits(queue, r)
    BY <1>2, <1>5 DEF AnswerOf, SinkHeld, InTransit, Fresh
  <2>2. /\ ChannelFits(inbox'[r], got[r], sent[r], Finished(r))
        /\ inbox'[r] # <<>> /\ inbox'[r][Len(inbox'[r])] = last
    <3>1. inbox[r] \in Seq(Events) /\ got[r] \in Nat /\ sent[r] \in Nat
          /\ ~(last.kind \in Whole)
      BY <1>4, AnswerTypes DEF Failures, Whole
    <3>2. /\ ChannelFits(Append(inbox[r], last), got[r], sent[r], Finished(r))
          /\ Append(inbox[r], last) # <<>>
          /\ Append(inbox[r], last)[Len(Append(inbox[r], last))] = last
      BY <1>4, <2>1, <3>1, ChannelAppend
    <3> QED BY <1>3, <1>5, <3>2
  <2>3. Fresh(r)' /\ InTransit(r)'
    BY <1>1, <1>2, <1>5, <2>1, <2>2 DEF AnswerOf, Fresh, InTransit
  <2> QED BY <1>1, <1>4, <2>2, <2>3 DEF AnswerOf, SinkHeld, SinkGone, Terminal
<1>6. CASE ~(r \in callbacks /\ outcome[r] = "waiting")
  <2>1. inbox'[r] = inbox[r]
    BY <1>3, <1>6
  <2>2. Fresh(r)' /\ InTransit(r)'
    BY <1>1, <1>2, <2>1 DEF AnswerOf, Fresh, InTransit
  <2>3. SinkHeld(r)' /\ SinkGone(r)'
    BY <1>1, <1>2, <1>6, <2>1 DEF AnswerOf, SinkHeld, SinkGone, Delivered
  <2> QED BY <2>2, <2>3 DEF AnswerOf
<1> QED BY <1>5, <1>6

LEMMA AnswerNext == TypeOK /\ FlowInv /\ AnswerInv /\ [Next]_vars => AnswerInv'
<1> SUFFICES ASSUME TypeOK, FlowInv, AnswerInv, [Next]_vars PROVE AnswerInv'
  OBVIOUS
<1>1. ASSUME NEW r \in Requests, Submit(r) \/ Read(r) \/ Abandon(r) PROVE AnswerInv'
  BY <1>1, AnswerSubmit, AnswerRead, AnswerAbandon
<1>2. ASSUME NEW r \in Requests, ReadEnd(r) PROVE AnswerInv'
  <2>1. /\ UNCHANGED <<queue, callbacks, got, inbox, sent, srv, serverOpen, responseStream,
                       listener, runtime>>
        /\ \A q \in Requests : outcome'[q] = outcome[q] \/ outcome'[q] \in {"end", "lost"}
    BY <1>2 DEF ReadEnd, TypeOK, AnswersOK, dispatchVars, serverVars, listenVars, lifeVars
  <2> QED BY <2>1, AnswerKept DEF Finished
<1>3. CASE DispatchTake \/ DispatchShutdown
  BY <1>3, AnswerTake, AnswerShutdown
<1>4. CASE Server
  BY <1>4, AnswerReceive, AnswerEnd, AnswerReply DEF Server
<1>5. CASE ListenMessage \/ ListenEnd \/ ListenDrain
  BY <1>5, AnswerListen, AnswerListenEnd, AnswerDrain
<1>6. CASE ListenInvoke \/ ListenFinish \/ WorkerStop
  BY <1>6, AnswerListenerGoes
<1>7. ASSUME UNCHANGED <<queue, answerVars, serverVars, runtime>>,
             listener' = listener \/ (listener' \notin {"loop"} \cup Drained)
                \/ (listener \in Drained /\ listener' \in Drained)
      PROVE  AnswerInv'
  <2>1. /\ \A q \in Requests : Finished(q)' = Finished(q) /\ srv'[q] = srv[q]
        /\ listener' = "loop" => listener = "loop"
        /\ listener' \in Drained => listener \in Drained
    BY <1>7 DEF Finished, serverVars, Drained
  <2> QED BY <1>7, <2>1, AnswerKept DEF answerVars, serverVars
<1>8. CASE DispatchCheck \/ DispatchFlush
  BY <1>7, <1>8 DEF DispatchCheck, DispatchFlush, listenVars, lifeVars
<1>9. CASE ListenStoreError \/ ListenReply \/ ListenRegister
  BY <1>7, <1>9 DEF ListenStoreError, ListenReply, ListenRegister, dispatchVars, listenVars,
    lifeVars, Drained
<1>10. CASE Closing
  BY <1>7, <1>10 DEF Closing, OnClose, CloseBegin, CloseSignal, CloseReturn, CloseCancel, Drop,
    dispatchVars, listenVars, lifeVars
<1>11. ASSUME NEW h \in Hooks, HandlerRun(h) PROVE AnswerInv'
  BY <1>7, <1>11 DEF HandlerRun, dispatchVars, listenVars, lifeVars
<1>12. CASE ForceCloseSignal \/ RuntimeForceClose
  <2>1. /\ UNCHANGED <<queue, callbacks, got, inbox, outcome, sent, srv, serverOpen,
                       responseStream, listener>>
        /\ runtime # "stopped"
    BY <1>12 DEF ForceCloseSignal, RuntimeForceClose, dispatchVars, answerVars, serverVars,
      listenVars
  <2> QED BY <2>1, AnswerKept DEF Finished
<1>13. CASE UNCHANGED vars
  BY <1>7, <1>13 DEF vars, dispatchVars, listenVars, lifeVars
<1> QED BY <1>1, <1>2, <1>3, <1>4, <1>5, <1>6, <1>8, <1>9, <1>10, <1>11, <1>12, <1>13
  DEF Next, Client, Dispatcher, Listener, Runtime

LEMMA AnswerHolds == Spec => []AnswerInv
BY TypeInit, TypeNext, FlowInit, FlowNext, AnswerInit, AnswerNext, PTL DEF Spec

-----------------------------------------------------------------------------
(* The contract. Each step of the transmitter is a step of AnswerContract or *)
(* leaves its variables alone.                                               *)

(* How the contract sees the outcome of a request.                           *)
StateOf(o) == CASE o \in {"idle", "waiting"} -> o
                [] o \in {"answered", "end"} -> "complete"
                [] OTHER -> "failed"
finishedBar == [r \in Requests |-> Finished(r)]
stateBar == [r \in Requests |-> StateOf(outcome[r])]
forcedBar == runtime = "stopped"

LEMMA ContractInit == Init => Contract!Init
<1> SUFFICES ASSUME Init PROVE Contract!Init
  OBVIOUS
<1>1. \A r \in Requests : outcome[r] = "idle" /\ srv[r] = "idle"
  BY DEF Init
<1>2. finishedBar = [r \in Requests |-> FALSE]
  <2>1. \A r \in Requests : Finished(r) = FALSE
    BY <1>1 DEF Finished
  <2> QED BY <2>1, Zenon DEF finishedBar
<1>3. stateBar = [r \in Requests |-> "idle"]
  BY <1>1 DEF stateBar, StateOf
<1>4. sent = [r \in Requests |-> 0] /\ got = [r \in Requests |-> 0] /\ ~forcedBar
  BY DEF Init, forcedBar
<1> QED BY <1>2, <1>3, <1>4 DEF Contract!Init, finishedBar, Finished, stateBar, StateOf, forcedBar

LEMMA ContractStutter ==
    ASSUME UNCHANGED <<sent, got, outcome, finishedBar>>,
           runtime' = "stopped" <=> runtime = "stopped"
    PROVE  UNCHANGED Contract!vars
BY DEF Contract!vars, finishedBar, Finished

LEMMA StateSet ==
    ASSUME TypeOK, NEW r \in Requests, NEW o, outcome' = [outcome EXCEPT ![r] = o]
    PROVE  stateBar[r] = StateOf(outcome[r]) /\ stateBar' = [stateBar EXCEPT ![r] = StateOf(o)]
<1>1. \A q \in Requests : outcome'[q] = IF q = r THEN o ELSE outcome[q]
  BY DEF TypeOK, AnswersOK
<1>2. \A q \in Requests : StateOf(outcome'[q]) = IF q = r THEN StateOf(o) ELSE StateOf(outcome[q])
  BY <1>1
<1>3. stateBar' = [q \in Requests |-> StateOf(outcome'[q])]
  BY DEF stateBar
<1>4. stateBar' = [stateBar EXCEPT ![r] = StateOf(o)]
  <2> HIDE DEF StateOf
  <2> QED BY <1>2, <1>3 DEF stateBar
<1> QED BY <1>4 DEF stateBar

LEMMA ContractSubmit ==
    ASSUME TypeOK, NEW r \in Requests, Submit(r)
    PROVE  Contract!Ask(r)
<1>1. /\ outcome[r] = "idle"
      /\ UNCHANGED <<sent, srv, got, runtime>>
      /\ \E o \in {ErrorSeen, "closed", "waiting"} : outcome' = [outcome EXCEPT ![r] = o]
  BY Zenon DEF Submit, serverVars, lifeVars
<1>2. ErrorSeen \in {"closed", "status"}
  BY DEF ErrorSeen, TypeOK, FlagsOK
<1>3. PICK o \in {"closed", "status", "waiting"} : outcome' = [outcome EXCEPT ![r] = o]
  BY <1>1, <1>2
<1>4. stateBar[r] = "idle" /\ stateBar' = [stateBar EXCEPT ![r] = StateOf(o)]
  BY <1>1, <1>3, StateSet DEF StateOf
<1>5. StateOf(o) \in {"waiting", "failed"}
  BY DEF StateOf
<1> QED BY <1>1, <1>4, <1>5 DEF Contract!Ask, stateBar, StateOf

LEMMA ContractFail ==
    ASSUME TypeOK, NEW r \in Requests, outcome[r] = "waiting",
           NEW o \in {"error", "closed", "status", "lost", "abandoned"},
           outcome' = [outcome EXCEPT ![r] = o],
           UNCHANGED <<sent, srv, got, runtime>>
    PROVE  Contract!Fail(r)
<1>1. stateBar[r] = "waiting" /\ stateBar' = [stateBar EXCEPT ![r] = "failed"]
  BY StateSet DEF StateOf
<1> QED BY <1>1 DEF Contract!Fail, stateBar, StateOf

LEMMA ContractRead ==
    ASSUME TypeOK, AnswerInv, NEW r \in Requests, Read(r)
    PROVE  Contract!Deliver(r) \/ Contract!Fail(r)
<1> DEFINE e == Head(inbox[r])
<1>1. /\ outcome[r] = "waiting" /\ inbox[r] # <<>>
      /\ got' = [got EXCEPT ![r] = IF e.n = 0 THEN @ ELSE e.n]
      /\ UNCHANGED <<sent, srv, runtime>>
      /\ \E o \in {"closed", OutcomeOf(e)} : outcome' = [outcome EXCEPT ![r] = o]
  BY Zenon DEF Read, serverVars, lifeVars
<1>2. PICK o \in {"closed", OutcomeOf(e)} : outcome' = [outcome EXCEPT ![r] = o]
  BY <1>1
<1>3. /\ e \in Events
      /\ e.n = 0 => e.kind \in Failures
      /\ e.n # 0 => e.kind \notin Failures /\ e.n = got[r] + 1 /\ e.n <= sent[r]
      /\ e.kind \in Whole => e.n = sent[r] /\ Finished(r)
  <2>1. /\ inbox[r] \in Seq(Events) /\ got[r] \in Nat /\ sent[r] \in Nat
        /\ ChannelFits(inbox[r], got[r], sent[r], Finished(r))
    BY AnswerTypes DEF AnswerInv, AnswerOf, InTransit
  <2> DEFINE c == inbox[r]
  <2>2. c \in Seq(Events) /\ c # <<>> /\ e = Head(c) /\ ChannelFits(c, got[r], sent[r], Finished(r))
    BY <1>1, <2>1
  <2> HIDE DEF c, e
  <2> QED BY <2>1, <2>2, ChannelTail
<1>4. got[r] \in Nat /\ sent[r] \in Nat /\ got \in [Requests -> Nat]
  BY DEF TypeOK, AnswersOK, ServerOK
<1>5. CASE e.n = 0
  <2>1. o \in {"error", "closed", "status"}
    BY <1>3, <1>5 DEF Failures, OutcomeOf
  <2>2. got' = got
    BY <1>1, <1>4, <1>5
  <2> HIDE DEF e
  <2> QED BY <1>1, <1>2, <2>1, <2>2, ContractFail
<1>6. CASE e.n # 0
  <2>1. got' = [got EXCEPT ![r] = @ + 1] /\ got[r] < sent[r]
    <3>1. e.n = got[r] + 1 /\ e.n <= sent[r]
      BY <1>3, <1>6
    <3>2. got' = [got EXCEPT ![r] = e.n]
      BY <1>1, <1>6
    <3> HIDE DEF e
    <3> QED BY <1>4, <3>1, <3>2
  <2>2. /\ StateOf(o) \in {"waiting", "complete", "failed"}
        /\ StateOf(o) = "complete" => e.kind \in Whole
    BY <1>3, <1>6 DEF OutcomeOf, StateOf, Failures, Whole, Events, EventKinds
  <2>3. StateOf(o) = "complete" => finishedBar[r] /\ got[r] + 1 = sent[r]
    BY <1>3, <1>6, <2>2 DEF finishedBar
  <2>4. stateBar[r] = "waiting" /\ stateBar' = [stateBar EXCEPT ![r] = StateOf(o)]
    BY <1>1, <1>2, StateSet DEF StateOf
  <2> DEFINE s == StateOf(o)
  <2>5. /\ s \in {"waiting", "complete", "failed"}
        /\ s = "complete" => finishedBar[r] /\ got[r] + 1 = sent[r]
        /\ stateBar' = [stateBar EXCEPT ![r] = s]
    BY <2>2, <2>3, <2>4
  <2> HIDE DEF s
  <2>6. Contract!Deliver(r)
    BY <1>1, <2>1, <2>4, <2>5 DEF Contract!Deliver, stateBar, StateOf, finishedBar, Finished
  <2> QED BY <2>6
<1> QED BY <1>5, <1>6

LEMMA ContractReadEnd ==
    ASSUME TypeOK, AnswerInv, NEW r \in Requests, ReadEnd(r)
    PROVE  Contract!Complete(r) \/ Contract!Fail(r)
<1>1. /\ outcome[r] = "waiting" /\ inbox[r] = <<>> /\ r \notin callbacks /\ ~Waits(queue, r)
      /\ UNCHANGED <<sent, srv, got, runtime>>
      /\ \/ got[r] > 0 /\ outcome' = [outcome EXCEPT ![r] = "end"]
         \/ outcome' = [outcome EXCEPT ![r] = "lost"]
  BY DEF ReadEnd, SinkAlive, Waits, serverVars, lifeVars
<1>2. CASE outcome' = [outcome EXCEPT ![r] = "lost"]
  BY <1>1, <1>2, ContractFail
<1>3. CASE got[r] > 0 /\ outcome' = [outcome EXCEPT ![r] = "end"]
  <2>1. runtime = "stopped" \/ (Finished(r) /\ got[r] = sent[r])
    <3>1. Len(inbox[r]) = 0 /\ got[r] \in Nat
      BY <1>1, AnswerTypes
    <3>2. runtime = "stopped" \/ (Finished(r) /\ Delivered(r) = sent[r])
      BY <1>1, <1>3, <3>1 DEF AnswerInv, AnswerOf, SinkGone
    <3> QED BY <3>1, <3>2 DEF Delivered
  <2>2. stateBar[r] = "waiting" /\ stateBar' = [stateBar EXCEPT ![r] = "complete"]
    BY <1>1, <1>3, StateSet DEF StateOf
  <2> QED BY <1>1, <2>1, <2>2 DEF Contract!Complete, stateBar, StateOf, Finished
<1> QED BY <1>1, <1>2, <1>3

LEMMA ContractReply ==
    ASSUME TypeOK, FlowInv, NEW r \in Requests, ServerReply(r)
    PROVE  Contract!Produce(r)
<1>1. /\ UNCHANGED <<got, outcome, runtime>> /\ srv[r] = "running"
      /\ \E i \in {0, 1} : sent' = [sent EXCEPT ![r] = @ + i]
      /\ \E x : srv' = [srv EXCEPT ![r] = x]
  <2>1. sent[r] + 0 = sent[r]
    BY DEF TypeOK, ServerOK
  <2> QED BY <2>1 DEF ServerReply, answerVars, lifeVars
<1>2. ~Finished(r) /\ outcome[r] # "idle"
  BY <1>1 DEF FlowInv, FlowOf, Unasked, Finished
<1>3. ~finishedBar[r] /\ stateBar[r] # "idle"
  BY <1>2 DEF finishedBar, stateBar, StateOf
<1>4. PICK f \in BOOLEAN : finishedBar' = [finishedBar EXCEPT ![r] = f]
  <2>1. PICK x : srv' = [srv EXCEPT ![r] = x]
    BY <1>1
  <2>2. \A q \in Requests : srv'[q] = IF q = r THEN x ELSE srv[q]
    BY <2>1 DEF TypeOK, ServerOK
  <2> DEFINE f == x \in {"done", "broken"}
  <2>3. \A q \in Requests : (srv'[q] \in {"done", "broken"}) = IF q = r THEN f ELSE Finished(q)
    BY <2>2 DEF Finished
  <2>4. finishedBar' = [q \in Requests |-> IF q = r THEN f ELSE Finished(q)]
    BY <2>3 DEF finishedBar, Finished
  <2>5. f \in BOOLEAN
    OBVIOUS
  <2> HIDE DEF f
  <2>6. finishedBar' = [finishedBar EXCEPT ![r] = f]
    BY <2>4 DEF finishedBar
  <2> QED BY <2>5, <2>6
<1> QED BY <1>1, <1>3, <1>4 DEF Contract!Produce, finishedBar, Finished, stateBar, StateOf

LEMMA ContractForce ==
    ASSUME WorkerStop PROVE Contract!Force
<1>1. UNCHANGED <<sent, srv, got, outcome>> /\ runtime' = "stopped"
  BY DEF WorkerStop, serverVars
<1> QED BY <1>1 DEF Contract!Force

LEMMA ContractKept ==
    ASSUME UNCHANGED <<sent, srv, got, outcome>>, runtime' = "stopped" <=> runtime = "stopped"
    PROVE  UNCHANGED Contract!vars
BY ContractStutter DEF finishedBar, Finished

LEMMA ContractReceive ==
    ASSUME TypeOK, ServerReceive PROVE UNCHANGED Contract!vars
<1>1. UNCHANGED <<sent, got, outcome, runtime>>
  BY DEF ServerReceive, answerVars, lifeVars
<1>2. \A r \in Requests : srv'[r] = srv[r] \/ (srv[r] \in {"idle", "paused"} /\ srv'[r] = "running")
  BY DEF ServerReceive
<1>3. UNCHANGED finishedBar
  BY <1>2 DEF finishedBar, Finished
<1> QED BY <1>1, <1>3, ContractStutter

LEMMA ContractNext ==
    TypeOK /\ FlowInv /\ AnswerInv /\ [Next]_vars => [Contract!Next]_(Contract!vars)
<1> SUFFICES ASSUME TypeOK, FlowInv, AnswerInv, [Next]_vars
             PROVE  Contract!Next \/ UNCHANGED Contract!vars
  OBVIOUS
<1>1. ASSUME NEW r \in Requests, Submit(r) PROVE Contract!Next
  BY <1>1, ContractSubmit DEF Contract!Next
<1>2. ASSUME NEW r \in Requests, Read(r) PROVE Contract!Next
  BY <1>2, ContractRead DEF Contract!Next
<1>3. ASSUME NEW r \in Requests, ReadEnd(r) PROVE Contract!Next
  BY <1>3, ContractReadEnd DEF Contract!Next
<1>4. ASSUME NEW r \in Requests, Abandon(r) PROVE Contract!Next
  <2>1. Contract!Fail(r)
    BY <1>4, ContractFail DEF Abandon, serverVars, lifeVars
  <2> QED BY <2>1 DEF Contract!Next
<1>5. ASSUME NEW r \in Requests, ServerReply(r) PROVE Contract!Next
  BY <1>5, ContractReply DEF Contract!Next
<1>6. CASE WorkerStop
  BY <1>6, ContractForce DEF Contract!Next
<1>7. CASE ServerReceive
  BY <1>7, ContractReceive
<1>8. CASE Dispatcher
  BY <1>8, ContractKept DEF Dispatcher, DispatchCheck, DispatchTake, DispatchFlush,
    DispatchShutdown, answerVars, serverVars, lifeVars
<1>9. CASE ServerEnd \/ StreamBreaks
  BY <1>9, ContractKept DEF ServerEnd, StreamBreaks, answerVars, lifeVars
<1>10. CASE Listener
  <2>1. UNCHANGED <<outcome, got, srv, sent, runtime>>
    BY <1>10, ListenEffect DEF Listener, ListenEnd, ListenStoreError, ListenDrain, ListenInvoke,
      ListenReply, ListenFinish, ListenRegister, answerVars, serverVars, lifeVars
  <2> QED BY <2>1, ContractKept
<1>11. CASE Closing
  BY <1>11, ContractKept DEF Closing, OnClose, CloseBegin, CloseSignal, CloseReturn, CloseCancel,
    Drop, answerVars, serverVars, lifeVars
<1>12. CASE ForceCloseSignal \/ RuntimeForceClose \/ \E h \in Hooks : HandlerRun(h)
  BY <1>12, ContractKept DEF ForceCloseSignal, RuntimeForceClose, HandlerRun, answerVars,
    serverVars, lifeVars
<1>13. CASE UNCHANGED vars
  BY <1>13, ContractKept DEF vars, answerVars, serverVars, lifeVars
<1> QED BY <1>1, <1>2, <1>3, <1>4, <1>5, <1>6, <1>7, <1>8, <1>9, <1>10, <1>11, <1>12, <1>13
  DEF Next, Client, Server, Runtime

(* The transmitter implements the contract of its answers: every item the    *)
(* server sent is read once and in order, and answers end as if complete     *)
(* only when the server had finished and all was read, or after a forced     *)
(* close; every step of clients, dispatcher, listener, server and driver is  *)
(* a step of the contract or leaves its variables alone.                     *)
THEOREM TransmitterKeepsContract == Spec => AnswersKept
<1>1. Init => Contract!Init
  BY ContractInit
<1>2. TypeOK /\ FlowInv /\ AnswerInv /\ [Next]_vars => [Contract!Next]_(Contract!vars)
  BY ContractNext
<1>3. Spec => []TypeOK /\ []FlowInv /\ []AnswerInv
  BY TypeCorrect, FlowHolds, AnswerHolds
<1> QED BY <1>1, <1>2, <1>3, PTL DEF Spec, AnswersKept, Contract!Spec

-----------------------------------------------------------------------------
(* Nothing is forgotten. While a caller waits, transaction and stream are up *)
(* and its sink exists, the next thing to happen for it is somewhere: an     *)
(* entry on its way to the server, work of the server, or a message that     *)
(* ends the wait or asks for more. A header or a row alone is not enough:    *)
(* the server goes on after it, so the wait could still be for nothing.      *)

Resolving(m, r) == m.req = r /\ m.kind \notin {"Header", "Row"}
Signals(s, r) == \E i \in DOMAIN s : Resolving(s[i], r)

Open(r) ==
    /\ outcome[r] = "waiting" /\ (r \in callbacks \/ Waits(queue, r))
    /\ dispatcher # "done" /\ listener = "loop" /\ serverOpen

Awaited(r) ==
    ~NoEntry(r) \/ srv[r] = "running" \/ Signals(responseStream, r) \/ Signals(inbox[r], r)

AwaitedInv == \A r \in Requests : Open(r) => Awaited(r)

LEMMA SignalsAppend ==
    ASSUME NEW S, NEW s \in Seq(S), NEW m \in S, NEW r
    PROVE  Signals(Append(s, m), r) <=> Signals(s, r) \/ Resolving(m, r)
BY AppendAt DEF Signals

LEMMA SignalsTail ==
    ASSUME NEW S, NEW s \in Seq(S), s # <<>>, NEW r
    PROVE  Signals(s, r) => Resolving(Head(s), r) \/ Signals(Tail(s), r)
<1> SUFFICES ASSUME Signals(s, r), ~Resolving(Head(s), r) PROVE Signals(Tail(s), r)
  OBVIOUS
<1>1. PICK i \in DOMAIN s : Resolving(s[i], r)
  BY DEF Signals
<1>2. i - 1 \in DOMAIN Tail(s) /\ Tail(s)[i - 1] = s[i]
  BY <1>1, TailAt
<1> QED BY <1>1, <1>2 DEF Signals

LEMMA AwaitedInit == Init => AwaitedInv
BY DEF Init, AwaitedInv, Open

(* Steps that leave entries and messages alone, and open no wait.            *)
LEMMA AwaitedKept ==
    ASSUME AwaitedInv,
           \A r \in Requests : Open(r)' => Open(r) /\ (Awaited(r) => Awaited(r)')
    PROVE  AwaitedInv'
BY DEF AwaitedInv

LEMMA AwaitedOver ==
    ASSUME dispatcher' = "done" \/ listener' # "loop" \/ serverOpen' = FALSE
    PROVE  AwaitedInv'
BY DEF AwaitedInv, Open

LEMMA AwaitedSame ==
    ASSUME AwaitedInv,
           UNCHANGED <<callbacks, queue, buffer, requestStream, srv, responseStream,
                       dispatcher, serverOpen>>,
           \A r \in Requests : outcome'[r] = "waiting" => outcome[r] = "waiting" /\ inbox'[r] = inbox[r],
           listener' = "loop" => listener = "loop"
    PROVE  AwaitedInv'
BY DEF AwaitedInv, Open, Awaited, NoEntry

LEMMA AwaitedSubmit ==
    ASSUME TypeOK, AwaitedInv, NEW r0 \in Requests, Submit(r0) PROVE AwaitedInv'
<1>1. /\ UNCHANGED <<callbacks, inbox, srv, responseStream, serverOpen, listener, buffer,
                     requestStream, dispatcher>>
      /\ \/ queue' = queue /\ outcome' \in {[outcome EXCEPT ![r0] = o] : o \in {ErrorSeen, "closed"}}
         \/ /\ queue' = Append(queue, NewRequest(r0))
            /\ outcome' = [outcome EXCEPT ![r0] = "waiting"]
  BY DEF Submit, serverVars, listenVars
<1>2. CASE queue' = queue /\ outcome' \in {[outcome EXCEPT ![r0] = o] : o \in {ErrorSeen, "closed"}}
  <2>1. \A r \in Requests : outcome'[r] = "waiting" => outcome[r] = "waiting"
    BY <1>2 DEF ErrorSeen, TypeOK, FlagsOK, AnswersOK
  <2> QED BY <1>1, <1>2, <2>1, AwaitedSame
<1>3. CASE queue' = Append(queue, NewRequest(r0)) /\ outcome' = [outcome EXCEPT ![r0] = "waiting"]
  <2> SUFFICES ASSUME NEW r \in Requests, Open(r)' PROVE Awaited(r)'
    BY DEF AwaitedInv
  <2>1. queue \in Seq(Queued) /\ NewRequest(r0) \in Queued /\ NewRequest(r0).req = r0
    BY DEF TypeOK, DispatchOK, Queued, NewRequest
  <2>2. /\ Holds(queue', r) <=> Holds(queue, r) \/ r = r0
        /\ Waits(queue', r) <=> Waits(queue, r) \/ NewRequest(r0) = NewRequest(r)
    BY <1>3, <2>1, HoldsAppend, WaitsQueue
  <2>3. CASE r = r0
    BY <2>2, <2>3 DEF Awaited, NoEntry
  <2>4. CASE r # r0
    <3>1. NewRequest(r0) # NewRequest(r)
      BY <2>4 DEF NewRequest
    <3>2. outcome'[r] = outcome[r]
      BY <1>3, <2>4 DEF TypeOK, AnswersOK
    <3>3. Open(r)
      BY <1>1, <2>2, <3>1, <3>2 DEF Open
    <3> QED BY <1>1, <2>2, <3>3 DEF AwaitedInv, Awaited, NoEntry
  <2> QED BY <2>3, <2>4
<1> QED BY <1>1, <1>2, <1>3

(* What ends the wait is read, or asks for more: the demand is queued.       *)
LEMMA AwaitedRead ==
    ASSUME TypeOK, AwaitedInv, NEW r0 \in Requests, Read(r0) PROVE AwaitedInv'
<1> DEFINE e == Head(inbox[r0])
<1>1. /\ outcome[r0] = "waiting" /\ inbox[r0] # <<>>
      /\ inbox' = [inbox EXCEPT ![r0] = Tail(@)]
      /\ UNCHANGED <<callbacks, buffer, requestStream, srv, responseStream, dispatcher,
                     serverOpen, listener>>
      /\ \/ outcome' = [outcome EXCEPT ![r0] = "closed"] /\ queue' = queue
         \/ /\ outcome' = [outcome EXCEPT ![r0] = OutcomeOf(e)]
            /\ queue' = IF e.kind = "Continue" THEN Append(queue, ContinueRequest(r0)) ELSE queue
  BY Zenon DEF Read, AsksForMore, serverVars, listenVars
<1>2. /\ inbox[r0] \in Seq(Events) /\ e \in Events /\ queue \in Seq(Queued)
      /\ ContinueRequest(r0) \in Queued /\ ContinueRequest(r0).req = r0
  BY <1>1 DEF TypeOK, AnswersOK, DispatchOK, Queued, ContinueRequest
<1> SUFFICES ASSUME NEW r \in Requests, Open(r)' PROVE Awaited(r)'
  BY DEF AwaitedInv
<1>3. ContinueRequest(r0) # NewRequest(r)
  BY DEF ContinueRequest, NewRequest
<1> DEFINE asked == Append(queue, ContinueRequest(r0))
<1>4. /\ Holds(asked, r) <=> Holds(queue, r) \/ r = r0
      /\ Waits(asked, r) <=> Waits(queue, r)
  BY <1>2, <1>3, HoldsAppend, WaitsQueue
<1>5. (Holds(queue, r) => Holds(queue', r)) /\ (Waits(queue', r) => Waits(queue, r))
  BY <1>1, <1>4
<1>6. CASE r # r0
  <2>1. outcome'[r] = outcome[r] /\ inbox'[r] = inbox[r]
    BY <1>1, <1>6 DEF TypeOK, AnswersOK
  <2> QED BY <1>1, <1>5, <2>1 DEF AwaitedInv, Open, Awaited, NoEntry
<1>7. CASE r = r0
  <2>1. outcome'[r] = "waiting" /\ inbox'[r] = Tail(inbox[r]) /\ outcome' \in [Requests -> Outcomes]
    <3>1. outcome'[r] = "waiting"
      BY DEF Open
    <3>2. OutcomeOf(e) \in Outcomes
      BY <1>2 DEF OutcomeOf, Outcomes, Events, EventKinds
    <3> QED BY <1>1, <1>7, <3>1, <3>2 DEF TypeOK, AnswersOK, Outcomes
  <2>2. /\ OutcomeOf(e) = "waiting"
        /\ queue' = IF e.kind = "Continue" THEN asked ELSE queue
    BY <1>1, <1>7, <2>1 DEF TypeOK, AnswersOK
  <2>3. e.kind \in {"Header", "Row", "Continue"}
    BY <1>2, <2>2 DEF OutcomeOf, Events, EventKinds
  <2>4. CASE e.kind = "Continue"
    BY <1>4, <1>7, <2>2, <2>4 DEF Awaited, NoEntry
  <2>5. CASE e.kind # "Continue"
    <3>1. Signals(inbox[r], r) => Signals(inbox'[r], r)
      BY <1>1, <1>2, <1>7, <2>1, <2>3, <2>5, SignalsTail DEF Resolving
    <3>2. Open(r)
      BY <1>1, <1>5, <1>7 DEF Open
    <3> QED BY <1>1, <1>5, <3>1, <3>2 DEF AwaitedInv, Awaited, NoEntry
  <2> QED BY <2>4, <2>5
<1> QED BY <1>6, <1>7

(* The dispatcher moves entries on, through the buffer, to the stream.       *)
LEMMA TransmitKeeps ==
    ASSUME TypeOK, serverOpen, NEW b \in Seq(Queued), NEW r
    PROVE  Streamed(Transmit(b), r) <=> Streamed(requestStream, r) \/ Holds(b, r)
<1>1. requestStream \in Seq(Seq(Queued)) /\ Transmit(b) = Append(requestStream, b)
  BY DEF TypeOK, DispatchOK, Transmit
<1>2. Streamed(Append(requestStream, b), r) <=> Streamed(requestStream, r) \/ Holds(b, r)
  BY <1>1, StreamedAppend
<1> QED BY <1>1, <1>2

LEMMA AwaitedTake == ASSUME TypeOK, AwaitedInv, DispatchTake PROVE AwaitedInv'
<1> DEFINE q == Head(queue)
           room == IF Full(q) THEN <<>> ELSE buffer.reqs
<1>1. /\ queue # <<>> /\ queue' = Tail(queue)
      /\ requestStream' = IF Full(q) THEN Transmit(buffer.reqs) ELSE requestStream
      /\ buffer'.reqs = Append(room, q)
      /\ callbacks' = IF q.new THEN callbacks \cup {q.req} ELSE callbacks
      /\ UNCHANGED <<srv, responseStream, inbox, outcome, dispatcher, listener, serverOpen>>
  BY DEF DispatchTake, Flushed, EmptyBuffer, serverVars, listenVars
<1>2. /\ queue \in Seq(Queued) /\ q \in Queued /\ buffer.reqs \in Seq(Queued)
      /\ room \in Seq(Queued)
  BY <1>1 DEF TypeOK, DispatchOK
<1> SUFFICES ASSUME NEW r \in Requests, Open(r)' PROVE Awaited(r)'
  BY DEF AwaitedInv
<1>3. serverOpen
  BY <1>1 DEF Open
<1>4. /\ Holds(queue, r) => q.req = r \/ Holds(queue', r)
      /\ Waits(queue', r) => Waits(queue, r)
  BY <1>1, <1>2, HoldsTail, WaitsQueue
<1>5. q.new /\ q.req = r => Waits(queue, r)
  <2>1. q.new /\ q.req = r => q = NewRequest(r)
    BY <1>2 DEF Queued, NewRequest
  <2>2. q = queue[1] /\ 1 \in DOMAIN queue
    BY <1>1, <1>2, TailAt
  <2> QED BY <2>1, <2>2 DEF Waits
<1>6. Open(r)
  BY <1>1, <1>4, <1>5 DEF Open
<1>7. Streamed(Transmit(buffer.reqs), r) <=> Streamed(requestStream, r) \/ Holds(buffer.reqs, r)
  BY <1>2, <1>3, TransmitKeeps
<1>8. Streamed(requestStream, r) \/ (Full(q) /\ Holds(buffer.reqs, r)) => Streamed(requestStream', r)
  BY <1>1, <1>7
<1>9. ~Full(q) /\ Holds(buffer.reqs, r) => Holds(room, r)
  OBVIOUS
<1> HIDE DEF q, room
<1>10. Holds(buffer'.reqs, r) <=> Holds(room, r) \/ q.req = r
  BY <1>1, <1>2, HoldsAppend
<1> QED BY <1>1, <1>4, <1>6, <1>8, <1>9, <1>10 DEF AwaitedInv, Awaited, NoEntry

LEMMA AwaitedFlush == ASSUME TypeOK, AwaitedInv, DispatchFlush PROVE AwaitedInv'
<1>1. /\ requestStream' = IF buffer.reqs # <<>> THEN Transmit(buffer.reqs) ELSE requestStream
      /\ UNCHANGED <<callbacks, queue, srv, responseStream, inbox, outcome, listener, serverOpen>>
      /\ dispatcher = "drain"
  BY DEF DispatchFlush, serverVars, answerVars, listenVars
<1> SUFFICES ASSUME NEW r \in Requests, Open(r)' PROVE Awaited(r)'
  BY DEF AwaitedInv
<1>2. serverOpen /\ Open(r)
  BY <1>1 DEF Open
<1>3. buffer.reqs \in Seq(Queued)
  BY DEF TypeOK, DispatchOK
<1>4. Streamed(Transmit(buffer.reqs), r) <=> Streamed(requestStream, r) \/ Holds(buffer.reqs, r)
  BY <1>2, <1>3, TransmitKeeps
<1>5. Holds(buffer.reqs, r) => buffer.reqs # <<>>
  BY EmptyHolds
<1>6. Streamed(requestStream, r) \/ Holds(buffer.reqs, r) => Streamed(requestStream', r)
  BY <1>1, <1>4, <1>5
<1> QED BY <1>1, <1>2, <1>6 DEF AwaitedInv, Awaited, NoEntry

(* An entry that reaches the server finds it in the state it was made for.   *)
LEMMA AwaitedReceive == ASSUME TypeOK, FlowInv, AwaitedInv, ServerReceive PROVE AwaitedInv'
<1> DEFINE batch == Head(requestStream)
<1>1. /\ requestStream # <<>> /\ requestStream' = Tail(requestStream)
      /\ UNCHANGED <<callbacks, queue, buffer, responseStream, inbox, outcome, dispatcher,
                     listener, serverOpen>>
      /\ \A r \in Requests : srv'[r] = IF Holds(batch, r) /\ srv[r] \in {"idle", "paused"}
                                       THEN "running" ELSE srv[r]
  BY DEF ServerReceive, answerVars, listenVars, Holds
<1> SUFFICES ASSUME NEW r \in Requests, Open(r)' PROVE Awaited(r)'
  BY DEF AwaitedInv
<1>2. Open(r)
  BY <1>1 DEF Open
<1>3. requestStream \in Seq(Seq(Queued))
  BY DEF TypeOK, DispatchOK
<1>4. /\ Streamed(requestStream, r) => Holds(batch, r) \/ Streamed(requestStream', r)
      /\ Fits(batch, r, srv[r])
  BY <1>1, <1>3, StreamedTail DEF FlowInv, FlowOf, EntriesFit
<1>5. Holds(batch, r) => srv[r] \in {"idle", "paused"}
  BY <1>4 DEF Holds, Fits
<1> HIDE DEF batch
<1> QED BY <1>1, <1>2, <1>4, <1>5 DEF AwaitedInv, Awaited, NoEntry

LEMMA AwaitedReply ==
    ASSUME TypeOK, AwaitedInv, NEW r0 \in Requests, ServerReply(r0) PROVE AwaitedInv'
<1>1. PICK p \in Replies(r0), n \in Nat :
        /\ responseStream' = Append(responseStream, Message(r0, p[1], n))
        /\ srv' = [srv EXCEPT ![r0] = p[2]]
  <2>1. PICK p \in Replies(r0) :
          LET numbered == p[1] \notin {"Done", "NoState", "BadRes", "BadRow"}
          IN /\ responseStream' = Append(responseStream,
                                    Message(r0, p[1], IF numbered THEN sent[r0] + 1 ELSE 0))
             /\ srv' = [srv EXCEPT ![r0] = p[2]]
    BY DEF ServerReply
  <2>2. \A b \in BOOLEAN : (IF b THEN sent[r0] + 1 ELSE 0) \in Nat
    BY DEF TypeOK, ServerOK
  <2> QED BY <2>1, <2>2
<1>2. UNCHANGED <<callbacks, queue, buffer, requestStream, inbox, outcome, dispatcher,
                  listener, serverOpen>>
  BY DEF ServerReply, dispatchVars, answerVars, listenVars
<1>3. p[1] \in Items /\ (p[1] \in {"Header", "Row"} => p[2] = "running")
  BY DEF Replies, Items
<1>4. /\ responseStream \in Seq(Messages) /\ Message(r0, p[1], n) \in Messages
      /\ Message(r0, p[1], n).kind = p[1] /\ Message(r0, p[1], n).req = r0
  BY <1>3 DEF TypeOK, ServerOK, Message, Messages
<1> SUFFICES ASSUME NEW r \in Requests, Open(r)' PROVE Awaited(r)'
  BY DEF AwaitedInv
<1>5. Open(r)
  BY <1>2 DEF Open
<1>6. Signals(responseStream', r) <=>
        Signals(responseStream, r) \/ (r = r0 /\ p[1] \notin {"Header", "Row"})
  BY <1>1, <1>4, SignalsAppend DEF Resolving
<1>7. srv'[r] = IF r = r0 THEN p[2] ELSE srv[r]
  BY <1>1 DEF TypeOK, ServerOK
<1> QED BY <1>2, <1>3, <1>5, <1>6, <1>7 DEF AwaitedInv, Awaited, NoEntry

(* A message is handed to its sink, drops it, or kills the listener.         *)
LEMMA AwaitedListen == ASSUME TypeOK, AwaitedInv, ListenMessage PROVE AwaitedInv'
<1> DEFINE m == Head(responseStream)
<1>1. /\ listener = "loop" /\ responseStream # <<>> /\ responseStream \in Seq(Messages)
      /\ responseStream' = Tail(responseStream) /\ m.kind \in Items
      /\ Handed(m) => Given(m) \in Events /\ Given(m).req = m.req
      /\ inbox' = IF Handed(m) THEN [inbox EXCEPT ![m.req] = Append(@, Given(m))] ELSE inbox
      /\ callbacks' = IF m.kind \in {"Header", "Immediate", "Row", "Continue", "BadRow"}
                      THEN callbacks ELSE callbacks \ {m.req}
      /\ UNCHANGED <<queue, dispatcher, buffer, requestStream, outcome, srv, serverOpen>>
  BY ListenEffect
<1>2. listener' = IF SelfDeadlock(m) THEN "stuck" ELSE "loop"
  BY DEF ListenMessage
<1> SUFFICES ASSUME NEW r \in Requests, Open(r)' PROVE Awaited(r)'
  BY DEF AwaitedInv
<1>3. Open(r) /\ outcome[r] = "waiting" /\ ~SelfDeadlock(m)
  BY <1>1, <1>2 DEF Open
<1>4. CASE r \notin callbacks'
  <2>1. Waits(queue, r)
    BY <1>1, <1>4 DEF Open
  <2>2. Holds(queue, r)
    BY <2>1 DEF Waits, Holds, NewRequest
  <2> QED BY <1>1, <2>2 DEF Awaited, NoEntry
<1>5. CASE r \in callbacks'
  <2>1. Signals(responseStream, r) => Resolving(m, r) \/ Signals(responseStream', r)
    BY <1>1, SignalsTail
  <2>2. inbox[r] \in Seq(Events)
    BY DEF TypeOK, AnswersOK
  <2>3. CASE Resolving(m, r)
    <3>1. m.req = r /\ m.kind \in {"Immediate", "Continue"} /\ r \in callbacks
      BY <1>1, <1>3, <1>5, <2>3 DEF Resolving, Items, SelfDeadlock
    <3>2. Handed(m) /\ Given(m) = m
      BY <1>3, <3>1 DEF Handed, Given
    <3>3. inbox'[r] = Append(inbox[r], m) /\ m \in Events
      BY <1>1, <3>1, <3>2 DEF TypeOK, AnswersOK
    <3>4. Signals(inbox'[r], r)
      BY <2>2, <2>3, <3>3, SignalsAppend
    <3> QED BY <3>4 DEF Awaited
  <2>4. CASE ~Resolving(m, r)
    <3>1. inbox'[r] \in {inbox[r], Append(inbox[r], Given(m))} /\ (Handed(m) \/ inbox'[r] = inbox[r])
      BY <1>1 DEF TypeOK, AnswersOK
    <3>2. Signals(inbox[r], r) => Signals(inbox'[r], r)
      BY <1>1, <2>2, <3>1, SignalsAppend
    <3> QED BY <1>1, <1>3, <2>1, <2>4, <3>2 DEF AwaitedInv, Awaited, NoEntry
  <2> QED BY <2>3, <2>4
<1> QED BY <1>4, <1>5

LEMMA AwaitedNext == TypeOK /\ FlowInv /\ AwaitedInv /\ [Next]_vars => AwaitedInv'
<1> SUFFICES ASSUME TypeOK, FlowInv, AwaitedInv, [Next]_vars PROVE AwaitedInv'
  OBVIOUS
<1>1. ASSUME NEW r \in Requests, Submit(r) \/ Read(r) PROVE AwaitedInv'
  BY <1>1, AwaitedSubmit, AwaitedRead
<1>2. ASSUME NEW r0 \in Requests, ReadEnd(r0) \/ Abandon(r0) PROVE AwaitedInv'
  <2>1. UNCHANGED <<callbacks, queue, buffer, requestStream, srv, responseStream, dispatcher,
                    serverOpen, listener>>
    BY <1>2 DEF ReadEnd, Abandon, dispatchVars, serverVars, listenVars
  <2>2. \A r \in Requests :
          outcome'[r] = "waiting" => outcome[r] = "waiting" /\ inbox'[r] = inbox[r]
    BY <1>2 DEF ReadEnd, Abandon, TypeOK, AnswersOK
  <2> QED BY <2>1, <2>2, AwaitedSame
<1>3. CASE Dispatcher
  <2>1. CASE DispatchCheck
    <3>1. /\ UNCHANGED <<callbacks, queue, buffer, requestStream, srv, responseStream, serverOpen,
                         listener, outcome, inbox>>
          /\ dispatcher # "done"
      BY <2>1 DEF DispatchCheck, answerVars, serverVars, listenVars
    <3> QED BY <3>1, AwaitedKept DEF Open, Awaited, NoEntry
  <2>2. CASE DispatchShutdown
    BY <2>2, AwaitedOver DEF DispatchShutdown
  <2> QED BY <1>3, <2>1, <2>2, AwaitedTake, AwaitedFlush DEF Dispatcher
<1>4. CASE Server
  BY <1>4, AwaitedReceive, AwaitedReply, AwaitedOver DEF Server, ServerEnd, StreamBreaks
<1>5. CASE ListenMessage
  BY <1>5, AwaitedListen
<1>6. CASE ListenEnd \/ ListenStoreError \/ ListenDrain \/ ListenInvoke \/ ListenReply \/ ListenFinish
           \/ WorkerStop
  <2>1. listener' # "loop"
    BY <1>6 DEF ListenEnd, ListenStoreError, ListenDrain, ListenInvoke, ListenReply, ListenFinish,
      WorkerStop, DropListener, ListenerGone
  <2> QED BY <2>1, AwaitedOver
<1>7. CASE ListenRegister
  BY <1>7, AwaitedSame DEF ListenRegister, dispatchVars, answerVars, serverVars, listenVars
<1>8. CASE Closing
  BY <1>8, AwaitedSame DEF Closing, OnClose, CloseBegin, CloseSignal, CloseReturn, CloseCancel,
    Drop, dispatchVars, answerVars, serverVars, listenVars
<1>9. CASE ForceCloseSignal \/ RuntimeForceClose \/ \E h \in Hooks : HandlerRun(h)
  BY <1>9, AwaitedSame DEF ForceCloseSignal, RuntimeForceClose, HandlerRun, dispatchVars,
    answerVars, serverVars, listenVars
<1>10. CASE UNCHANGED vars
  BY <1>10, AwaitedSame DEF vars, dispatchVars, answerVars, serverVars, listenVars
<1> QED BY <1>1, <1>2, <1>3, <1>4, <1>5, <1>6, <1>7, <1>8, <1>9, <1>10
  DEF Next, Client, Listener, Runtime

(* No request is forgotten: a caller that waits on an open transaction has   *)
(* an entry on its way to the server, work of the server or an answer to     *)
(* wait for, whatever the sizes of the requests and wherever the buffer      *)
(* fills. From AwaitedInv, which also knows that what the caller is left     *)
(* with after a header or a row is not the last thing to come.               *)
THEOREM RequestsNotForgotten == Spec => []RequestsUnderWay
<1>1. Spec => []AwaitedInv
  BY TypeInit, TypeNext, FlowInit, FlowNext, AwaitedInit, AwaitedNext, PTL DEF Spec
<1>2. AwaitedInv => RequestsUnderWay
  <2> SUFFICES ASSUME AwaitedInv, NEW r \in Requests,
                      outcome[r] = "waiting", SinkAlive(r), inbox[r] = <<>>,
                      dispatcher # "done", listener = "loop", serverOpen
               PROVE  \/ Asking(r) \/ srv[r] = "running"
                      \/ \E i \in DOMAIN responseStream : responseStream[i].req = r
    BY DEF RequestsUnderWay
  <2>1. Awaited(r)
    BY DEF AwaitedInv, Open, SinkAlive, Waits
  <2>2. ~Signals(inbox[r], r)
    BY DEF Signals
  <2>3. ~NoEntry(r) => Asking(r)
    BY DEF NoEntry, Asking, Holds, Streamed
  <2> QED BY <2>1, <2>2, <2>3 DEF Awaited, Signals, Resolving
<1> QED BY <1>1, <1>2, PTL

=============================================================================
