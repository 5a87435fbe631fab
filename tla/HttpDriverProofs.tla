-------------------------- MODULE HttpDriverProofs --------------------------
(* An answer that arrived over HTTP is final, and a request that nothing     *)
(* disturbed finds the primary, for any number of concurrent requests,       *)
(* servers, origins, retries and faults.                                     *)
EXTENDS HttpDriver, NumberLemmas, TLAPS

Phases == Follows \cup {"redirected", "fallback redirected"}
Underway == {"idle", "wait", "signin", "send", "signed", "redirect", "switched"}

(* The locals keep their shape; the contents are free.                       *)
Local(l) ==
    l \in [pc : {l.pc}, phase : {l.phase}, retry : {l.retry}, tried : {l.tried},
           url : {l.url}, at : {l.at}, with : {l.with}, again : {l.again},
           answer : {l.answer}, result : {l.result}, start : {l.start}, next : {l.next},
           fallback : {l.fallback}]

(* A request may still be sent: none of its results so far is an ok.         *)
Open(l) ==
    /\ Local(l)
    /\ l.phase \in Phases
    /\ l.result.kind # "ok"
    /\ l.fallback.kind # "ok"

(* One request to which n answers arrived: the one that arrived is being     *)
(* processed, is the result of the fallback, or was returned.                *)
Good(l, n) ==
    \/ l.pc \in Underway /\ Open(l) /\ n = 0
       /\ (l.pc = "signed" => l.answer.kind # "ok")
       /\ (l.pc = "redirect" => l.phase \in Follows)
    \/ l.pc = "answered" /\ Open(l) /\ n \in {0, 1} /\ (l.answer.kind = "ok" <=> n = 1)
    \/ l.pc = "fellback" /\ Local(l) /\ n \in {0, 1}
       /\ l.result.kind # "ok" /\ (l.fallback.kind = "ok" <=> n = 1)
    \/ l.pc = "returned" /\ n \in {0, 1} /\ (l.result.kind = "ok" <=> n = 1)

AnswerInv ==
    /\ req = [r \in Requests |-> req[r]]
    /\ arrived = [r \in Requests |-> arrived[r]]
    /\ \A r \in Requests : Good(req[r], arrived[r])

(* Request r moves to locals that are good for n answers.                    *)
Becomes(r, n) == \E l : req' = [req EXCEPT ![r] = l] /\ Good(l, n)

-----------------------------------------------------------------------------
LEMMA NullIsNotOk == Null.kind = "null"
  BY DEF Null, TryResult

LEMMA IdleOpen == Open(Idle) /\ Idle.pc = "idle"
  BY NullIsNotOk DEF Idle, Open, Local, Phases, Follows

(* A request asks an origin: it goes on to sign in or to send.               *)
LEMMA TryGood ==
  ASSUME NEW l, Open(l), NEW o, NEW t
  PROVE  Good(TryApiReq(l, o, t), 0)
  <1> DEFINE k == TryApiReq(l, o, t)
  <1>1. k.pc \in {"signin", "send"}
    BY DEF TryApiReq, Open, Local
  <1>2. Open(k)
    BY DEF TryApiReq, Open, Local
  <1> QED
    BY <1>1, <1>2 DEF Good, Underway

LEMMA LeaveGood ==
  ASSUME NEW l, Local(l), NEW n \in {0, 1}, l.result.kind = "ok" <=> n = 1
  PROVE  Good(Leave(l), n)
  <1>1. CASE l.result.kind = "421" /\ l.retry < PRIMARY_FAILOVER_RETRIES
    <2>1. Leave(l) = [Idle EXCEPT !.pc = "wait", !.retry = l.retry + 1]
      BY <1>1 DEF Leave, NextRetry
    <2>2. Open(Leave(l)) /\ Leave(l).pc = "wait"
      BY <2>1, NullIsNotOk DEF Idle, Open, Local, Phases, Follows
    <2> QED
      BY <1>1, <2>2 DEF Good, Underway
  <1>2. CASE ~(l.result.kind = "421" /\ l.retry < PRIMARY_FAILOVER_RETRIES)
    <2>1. Leave(l) = Returned(l.result)
      BY <1>2 DEF Leave
    <2> QED
      BY <2>1 DEF Good, Returned, Idle
  <1> QED
    BY <1>1, <1>2

-----------------------------------------------------------------------------
LEMMA NextFallbackGood ==
  ASSUME NEW r \in Requests, NEW l, Open(l), NextFallback(r, l)
  PROVE  Becomes(r, 0)
  <1> DEFINE left == {i \in l.next..Len(Addresses) : Addresses[i] \notin l.tried}
  <1>1. CASE left = {}
    <2>1. req' = [req EXCEPT ![r] = [l EXCEPT !.pc = "fellback"]]
      BY <1>1 DEF NextFallback
    <2>2. Good([l EXCEPT !.pc = "fellback"], 0)
      BY DEF Good, Open, Local
    <2> QED
      BY <2>1, <2>2, Zenon DEF Becomes
  <1>2. CASE left # {}
    <2> DEFINE k == [l EXCEPT !.next = Min(left) + 1, !.phase = "fallback"]
    <2>1. req' = [req EXCEPT ![r] = TryApiReq(k, Addresses[Min(left)], NoToken)]
      BY <1>2, Zenon DEF NextFallback
    <2>2. Open(k)
      BY DEF Open, Local, Phases, Follows
    <2>3. Good(TryApiReq(k, Addresses[Min(left)], NoToken), 0)
      BY <2>2, TryGood
    <2> QED
      BY <2>1, <2>3, Zenon DEF Becomes
  <1> QED
    BY <1>1, <1>2

LEMMA InitialResultGood ==
  ASSUME NEW r \in Requests, NEW l, Open(l), NEW x, NEW n \in {0, 1}, x.kind = "ok" <=> n = 1,
         InitialResult(r, l, x)
  PROVE  Becomes(r, n)
  <1>1. CASE x.kind = "ok"
    <2> DEFINE k == [l EXCEPT !.result = x]
    <2>1. req' = [req EXCEPT ![r] = Leave(k)]
      BY <1>1 DEF InitialResult, NeedsFallback
    <2>2. Local(k) /\ k.result = x
      BY DEF Open, Local
    <2>3. Good(Leave(k), n)
      BY <2>2, LeaveGood
    <2> QED
      BY <2>1, <2>3, Zenon DEF Becomes
  <1>2. CASE x.kind # "ok"
    <2> DEFINE k == [l EXCEPT !.result = x, !.start = currentOrigin,
                              !.tried = @ \cup {currentOrigin}]
    <2>1. NextFallback(r, k)
      BY <1>2 DEF InitialResult, NeedsFallback
    <2>2. Open(k)
      BY <1>2 DEF Open, Local
    <2>3. Becomes(r, 0)
      BY <2>1, <2>2, NextFallbackGood
    <2> QED
      BY <1>2, <2>3
  <1> QED
    BY <1>1, <1>2

LEMMA FallbackResultGood ==
  ASSUME NEW r \in Requests, NEW l, Open(l), NEW x, NEW n \in {0, 1}, x.kind = "ok" <=> n = 1,
         FallbackResult(r, l, x)
  PROVE  Becomes(r, n)
  <1>1. CASE x.kind = "null" /\ NextFallback(r, l)
    BY <1>1, NextFallbackGood
  <1>2. CASE x.kind \notin {"null", "ok"} /\ NextFallback(r, [l EXCEPT !.fallback = x])
    <2>1. Open([l EXCEPT !.fallback = x])
      BY <1>2 DEF Open, Local
    <2> QED
      BY <1>2, <2>1, NextFallbackGood
  <1>3. CASE x.kind = "ok" /\ req' = [req EXCEPT ![r] = [l EXCEPT !.pc = "fellback", !.fallback = x]]
    <2>1. Good([l EXCEPT !.pc = "fellback", !.fallback = x], n)
      BY <1>3 DEF Good, Open, Local
    <2> QED
      BY <1>3, <2>1, Zenon DEF Becomes
  <1> QED
    BY <1>1, <1>2, <1>3 DEF FallbackResult

LEMMA OutcomeGood ==
  ASSUME NEW r \in Requests, NEW l, Open(l), NEW x, NEW n \in {0, 1}, x.kind = "ok" <=> n = 1,
         Outcome(r, l, x)
  PROVE  Becomes(r, n)
  <1>1. CASE x.kind = "denied" /\ req' = [req EXCEPT ![r] = Returned(x)]
    <2>1. Good(Returned(x), n)
      BY <1>1 DEF Good, Returned, Idle
    <2> QED
      BY <1>1, <2>1, Zenon DEF Becomes
  <1>4. CASE /\ x.kind = "denied" /\ l.retry < PRIMARY_FAILOVER_RETRIES
             /\ req' = [req EXCEPT ![r] = NextRetry(l)]
    <2>1. Open(NextRetry(l)) /\ NextRetry(l).pc = "wait"
      BY <1>4, NullIsNotOk DEF Open, Local, NextRetry, Idle, Phases, Follows
    <2>2. Good(NextRetry(l), n)
      BY <1>4, <2>1 DEF Good, Underway
    <2> QED
      BY <1>4, <2>2, Zenon DEF Becomes
  <1>2. CASE /\ x.kind = "421" /\ l.phase \in Follows
             /\ req' = [req EXCEPT ![r] = [l EXCEPT !.pc = "redirect", !.answer = x]]
    <2>1. Good([l EXCEPT !.pc = "redirect", !.answer = x], n)
      BY <1>2 DEF Good, Open, Local, Underway
    <2> QED
      BY <1>2, <2>1, Zenon DEF Becomes
  <1>3. CASE InitialResult(r, l, x) \/ FallbackResult(r, l, x)
    BY <1>3, InitialResultGood, FallbackResultGood
  <1> QED
    BY <1>1, <1>2, <1>3, <1>4 DEF Outcome

-----------------------------------------------------------------------------
(* A step of one request keeps the invariant when it leaves that one good.   *)
LEMMA OneMoves ==
  ASSUME AnswerInv, NEW r \in Requests, NEW n, Becomes(r, n),
         arrived' = [arrived EXCEPT ![r] = n]
  PROVE  AnswerInv'
  <1>1. PICK l : req' = [req EXCEPT ![r] = l] /\ Good(l, n)
    BY Zenon DEF Becomes
  <1>2. /\ req' = [q \in Requests |-> IF q = r THEN l ELSE req[q]]
        /\ arrived' = [q \in Requests |-> IF q = r THEN n ELSE arrived[q]]
    BY <1>1 DEF AnswerInv
  <1>3. ASSUME NEW q \in Requests PROVE Good(req'[q], arrived'[q])
    BY <1>1, <1>2 DEF AnswerInv
  <1>4. req' = [q \in Requests |-> req'[q]] /\ arrived' = [q \in Requests |-> arrived'[q]]
    BY <1>2
  <1> QED
    BY <1>3, <1>4 DEF AnswerInv

LEMMA NoneArrives ==
  ASSUME AnswerInv, NEW r \in Requests, UNCHANGED arrived
  PROVE  arrived' = [arrived EXCEPT ![r] = arrived[r]]
  BY DEF AnswerInv

-----------------------------------------------------------------------------
LEMMA ApiReqOnceKeeps ==
  ASSUME AnswerInv, NEW r \in Requests, ApiReqOnce(r)
  PROVE  AnswerInv'
  <1> DEFINE k == [Idle EXCEPT !.retry = req[r].retry, !.tried = {currentOrigin}]
  <1>1. /\ UNCHANGED arrived
        /\ req' = [req EXCEPT ![r] = TryApiReq(k, currentOrigin, token)]
    BY DEF ApiReqOnce
  <1>2. arrived[r] = 0
    BY DEF ApiReqOnce, Issued, At, AnswerInv, Good
  <1>3. Open(k)
    BY NullIsNotOk DEF Idle, Open, Local, Phases, Follows
  <1>4. Good(TryApiReq(k, currentOrigin, token), 0)
    BY <1>3, TryGood
  <1>5. Becomes(r, 0)
    BY <1>1, <1>4, Zenon DEF Becomes
  <1> QED
    BY <1>1, <1>2, <1>5, NoneArrives, OneMoves

LEMMA ServeSigninKeeps ==
  ASSUME AnswerInv, NEW r \in Requests, ServeSignin(r)
  PROVE  AnswerInv'
  <1>1. UNCHANGED arrived /\ req[r].pc = "signin"
    BY DEF ServeSignin, At
  <1>2. PICK x : Answer(r, "signed", x) /\ x.kind # "ok"
    <2>1. /\ Null.kind # "ok"
          /\ \A o, h : TryResult("denied", o, h).kind # "ok" /\ TryResult("token", o, h).kind # "ok"
      BY DEF Null, TryResult
    <2> QED
      BY <2>1 DEF ServeSignin
  <1> DEFINE k == [req[r] EXCEPT !.pc = "signed", !.answer = x, !.at = Nobody, !.with = NoToken]
  <1>3. req' = [req EXCEPT ![r] = k]
    BY <1>2 DEF Answer
  <1>4. arrived[r] = 0 /\ Open(req[r])
    BY <1>1 DEF AnswerInv, Good
  <1>5. Good(k, 0)
    BY <1>2, <1>4 DEF Good, Open, Local, Underway
  <1>6. Becomes(r, 0)
    BY <1>3, <1>5, Zenon DEF Becomes
  <1> QED
    BY <1>1, <1>4, <1>6, NoneArrives, OneMoves

LEMMA AnsweredGood ==
  ASSUME NEW r \in Requests, Open(req[r]), NEW x, NEW n \in {0, 1}, x.kind = "ok" <=> n = 1,
         Answer(r, "answered", x)
  PROVE  Becomes(r, n)
  <1> DEFINE k == [req[r] EXCEPT !.pc = "answered", !.answer = x, !.at = Nobody, !.with = NoToken]
  <1>1. req' = [req EXCEPT ![r] = k]
    BY DEF Answer
  <1>2. Good(k, n)
    BY DEF Good, Open, Local
  <1> QED
    BY <1>1, <1>2, Zenon DEF Becomes

LEMMA ServeKeeps ==
  ASSUME AnswerInv, NEW r \in Requests, Serve(r)
  PROVE  AnswerInv'
  <1>1. req[r].pc = "send"
    BY DEF Serve, At
  <1>2. arrived[r] = 0 /\ Open(req[r])
    BY <1>1 DEF AnswerInv, Good
  <1>3. /\ Null.kind # "ok"
        /\ \A o, h : /\ TryResult("ok", o, h).kind = "ok"
                     /\ \A kind \in {"401", "421", "fail"} : TryResult(kind, o, h).kind # "ok"
    BY DEF Null, TryResult
  <1>4. CASE UNCHANGED arrived
    <2>1. arrived' # [arrived EXCEPT ![r] = 1]
      BY <1>2, <1>4 DEF AnswerInv
    <2>2. PICK x : Answer(r, "answered", x) /\ x.kind # "ok"
      BY <1>2, <1>3, <1>4, <2>1 DEF Serve
    <2>3. Becomes(r, 0)
      BY <1>2, <2>2, AnsweredGood
    <2> QED
      BY <1>2, <1>4, <2>3, NoneArrives, OneMoves
  <1>5. CASE arrived' # arrived
    <2>1. PICK x : Answer(r, "answered", x) /\ x.kind = "ok"
      BY <1>3, <1>5 DEF Serve
    <2>2. arrived' = [arrived EXCEPT ![r] = 1]
      BY <1>2, <1>5 DEF Serve
    <2>3. Becomes(r, 1)
      BY <1>2, <2>1, AnsweredGood
    <2> QED
      BY <2>2, <2>3, OneMoves
  <1> QED
    BY <1>4, <1>5

LEMMA SignedInKeeps ==
  ASSUME AnswerInv, NEW r \in Requests, SignedIn(r)
  PROVE  AnswerInv'
  <1> DEFINE l == req[r]
  <1>1. UNCHANGED arrived /\ l.pc = "signed"
    BY DEF SignedIn, At
  <1>2. arrived[r] = 0 /\ Open(l) /\ l.answer.kind # "ok"
    BY <1>1 DEF AnswerInv, Good
  <1>3. CASE req' = [req EXCEPT ![r].pc = "send", ![r].with = token', ![r].answer = Null]
    <2> DEFINE k == [l EXCEPT !.pc = "send", !.with = token', !.answer = Null]
    <2>1. req' = [req EXCEPT ![r] = k]
      BY <1>3 DEF AnswerInv
    <2>2. Good(k, 0)
      BY <1>2 DEF Good, Open, Local, Underway
    <2> QED
      BY <2>1, <2>2, <1>1, <1>2, NoneArrives, OneMoves, Zenon DEF Becomes
  <1>4. CASE Outcome(r, [l EXCEPT !.answer = Null], l.answer)
    <2>1. Open([l EXCEPT !.answer = Null])
      BY <1>2 DEF Open, Local
    <2>2. Becomes(r, 0)
      BY <1>2, <1>4, <2>1, OutcomeGood
    <2> QED
      BY <1>1, <1>2, <2>2, NoneArrives, OneMoves
  <1> QED
    BY <1>3, <1>4 DEF SignedIn

LEMMA RespondedKeeps ==
  ASSUME AnswerInv, NEW r \in Requests, Responded(r)
  PROVE  AnswerInv'
  <1> DEFINE l == req[r]
             n == arrived[r]
  <1>1. UNCHANGED arrived /\ l.pc = "answered"
    BY DEF Responded, At
  <1>2. n \in {0, 1} /\ Open(l) /\ (l.answer.kind = "ok" <=> n = 1)
    BY <1>1 DEF AnswerInv, Good, Underway
  <1>3. CASE /\ Refreshes(l)
             /\ req' = [req EXCEPT ![r].pc = "signin", ![r].at = currentOrigin,
                                   ![r].again = TRUE, ![r].answer = Null]
    <2> DEFINE k == [l EXCEPT !.pc = "signin", !.at = currentOrigin, !.again = TRUE,
                              !.answer = Null]
    <2>1. req' = [req EXCEPT ![r] = k]
      BY <1>3 DEF AnswerInv
    <2>2. n = 0
      BY <1>2, <1>3 DEF Refreshes
    <2>3. Good(k, 0)
      BY <1>2 DEF Good, Open, Local, Underway
    <2> QED
      BY <2>1, <2>2, <2>3, <1>1, NoneArrives, OneMoves, Zenon DEF Becomes
  <1>4. CASE Outcome(r, [l EXCEPT !.answer = Null], l.answer)
    <2>1. Open([l EXCEPT !.answer = Null])
      BY <1>2 DEF Open, Local
    <2>2. Becomes(r, n)
      BY <1>2, <1>4, <2>1, OutcomeGood
    <2> QED
      BY <1>1, <2>2, NoneArrives, OneMoves
  <1> QED
    BY <1>3, <1>4 DEF Responded

LEMMA SwitchToRedirectTargetKeeps ==
  ASSUME AnswerInv, NEW r \in Requests, SwitchToRedirectTarget(r)
  PROVE  AnswerInv'
  <1> DEFINE l == [req[r] EXCEPT !.answer = Null]
  <1>1. UNCHANGED arrived /\ req[r].pc = "redirect"
    BY DEF SwitchToRedirectTarget, At
  <1>2. arrived[r] = 0 /\ Open(req[r])
    BY <1>1 DEF AnswerInv, Good
  <1>3. Open(l)
    BY <1>2 DEF Open, Local
  <1>4. CASE req' = [req EXCEPT ![r] = [l EXCEPT !.pc = "switched"]]
    <2>1. Good([l EXCEPT !.pc = "switched"], 0)
      BY <1>3 DEF Good, Open, Local, Underway
    <2> QED
      BY <1>1, <1>2, <1>4, <2>1, NoneArrives, OneMoves, Zenon DEF Becomes
  <1>5. CASE InitialResult(r, l, Null) \/ FallbackResult(r, l, Null)
    <2>1. Becomes(r, 0)
      BY <1>3, <1>5, NullIsNotOk, InitialResultGood, FallbackResultGood
    <2> QED
      BY <1>1, <1>2, <2>1, NoneArrives, OneMoves
  <1> QED
    BY <1>4, <1>5, Zenon DEF SwitchToRedirectTarget

LEMMA FollowMisdirectedKeeps ==
  ASSUME AnswerInv, NEW r \in Requests, FollowMisdirected(r)
  PROVE  AnswerInv'
  <1> DEFINE k == [req[r] EXCEPT !.phase = Redirected(@)]
  <1>1. UNCHANGED arrived /\ req[r].pc = "switched"
    BY DEF FollowMisdirected, At
  <1>2. arrived[r] = 0 /\ Open(req[r])
    BY <1>1 DEF AnswerInv, Good
  <1>3. req' = [req EXCEPT ![r] = TryApiReq(k, currentOrigin, token)]
    BY Zenon DEF FollowMisdirected
  <1>4. Open(k)
    BY <1>2 DEF Open, Local, Phases, Redirected
  <1>5. Good(TryApiReq(k, currentOrigin, token), 0)
    BY <1>4, TryGood
  <1> QED
    BY <1>1, <1>2, <1>3, <1>5, NoneArrives, OneMoves, Zenon DEF Becomes

LEMMA FellBackKeeps ==
  ASSUME AnswerInv, NEW r \in Requests, FellBack(r)
  PROVE  AnswerInv'
  <1> DEFINE l == req[r]
             n == arrived[r]
  <1>1. UNCHANGED arrived /\ l.pc = "fellback"
    BY DEF FellBack, At
  <1>2. Local(l) /\ n \in {0, 1} /\ l.result.kind # "ok" /\ (l.fallback.kind = "ok" <=> n = 1)
    BY <1>1 DEF AnswerInv, Good, Underway
  <1>3. CASE FallbackWins(l) /\ req' = [req EXCEPT ![r] = Leave([l EXCEPT !.result = l.fallback])]
    <2>1. Local([l EXCEPT !.result = l.fallback]) /\ [l EXCEPT !.result = l.fallback].result = l.fallback
      BY <1>2 DEF Local
    <2>2. Good(Leave([l EXCEPT !.result = l.fallback]), n)
      BY <1>2, <2>1, LeaveGood
    <2> QED
      BY <1>1, <1>3, <2>2, NoneArrives, OneMoves, Zenon DEF Becomes
  <1>4. CASE ~FallbackWins(l) /\ req' = [req EXCEPT ![r] = Leave(l)]
    <2>1. n = 0
      BY <1>2, <1>4, NullIsNotOk DEF FallbackWins
    <2>2. Good(Leave(l), n)
      BY <1>2, <2>1, LeaveGood
    <2> QED
      BY <1>1, <1>4, <2>2, NoneArrives, OneMoves, Zenon DEF Becomes
  <1> QED
    BY <1>3, <1>4, Zenon DEF FellBack

LEMMA SettleKeeps ==
  ASSUME AnswerInv, NEW r \in Requests, Settle(r)
  PROVE  AnswerInv'
  BY ServeSigninKeeps, ServeKeeps, SignedInKeeps, RespondedKeeps, SwitchToRedirectTargetKeeps,
     FollowMisdirectedKeeps, FellBackKeeps, ApiReqOnceKeeps, Zenon DEF Settle

LEMMA AnswerInvariant == HttpSpec => []AnswerInv
  <1>1. HttpInit => AnswerInv
    <2> SUFFICES ASSUME HttpInit PROVE AnswerInv
      OBVIOUS
    <2>1. ASSUME NEW r \in Requests PROVE Good(req[r], arrived[r])
      BY IdleOpen DEF HttpInit, Good, Underway
    <2> QED
      BY <2>1 DEF HttpInit, AnswerInv
  <1>2. AnswerInv /\ [HttpNext]_httpVars => AnswerInv'
    <2> SUFFICES ASSUME AnswerInv, [HttpNext]_httpVars PROVE AnswerInv'
      OBVIOUS
    <2>1. CASE UNCHANGED <<req, arrived>>
      BY <2>1, Zenon DEF AnswerInv
    <2>2. CASE \E r \in Requests : ApiReqOnce(r) \/ Settle(r)
      BY <2>2, ApiReqOnceKeeps, SettleKeeps
    <2>3. CASE UNCHANGED httpVars \/ Elect \/ Crash \/ Restart \/ Expire
      BY <2>1, <2>3, Zenon DEF httpVars, Elect, Crash, Restart, Expire
    <2> QED
      BY <2>2, <2>3, Zenon DEF HttpNext
  <1> QED
    BY <1>1, <1>2, PTL DEF HttpSpec

(* An answer that arrived is what the caller gets, and nothing is sent after *)
(* it: an ok ends the search for an origin at every stage, and the result of *)
(* an earlier origin never hides that of a fallback.                         *)
THEOREM HttpAnswerIsFinal == HttpSpec => []AnswerIsFinal
  <1>1. AnswerInv => AnswerIsFinal
    BY DEF AnswerInv, Good, AnswerIsFinal, At, Underway
  <1> QED
    BY <1>1, AnswerInvariant, PTL

-----------------------------------------------------------------------------
(* A request that nothing disturbed is alone, and every origin it has asked  *)
(* without success is one at which the primary is not reached. So it cannot  *)
(* come to the end of the configured origins when one of them reaches it.    *)

Alone(r) == \A q \in Requests \ {r} : ~InProgress(q)
Reachable == primary \in up /\ \E o \in Configured : ServerAt[o] = primary
Reaches(o) == ServerAt[o] = primary

Asking == {"signin", "signed", "send", "answered"}
Searching == Asking \cup {"redirect", "switched"}
PrimaryToken == [server |-> primary, n |-> epoch[primary]]

(* The origins that were asked, the one being asked included.                *)
Asked(l) == l.tried \cup {Addresses[i] : i \in {j \in DOMAIN Addresses : j < l.next}}

(* An undisturbed request while the current origin is o.                     *)
Lone(l, o) ==
    /\ l.pc \in Asking \cup {"redirect"} => l.url = o
    /\ l.pc \in Searching =>
         /\ l.next \in Nat
         /\ \A a \in Asked(l) : Reaches(a) => l.pc \in Asking /\ a = l.url
    /\ l.pc = "signin" => l.at = l.url
    /\ l.pc \in {"signed", "answered"} => l.answer.kind # "denied"
    /\ l.pc \in Asking \cup {"redirect"} /\ Reaches(l.url) =>
         /\ l.pc = "signed" => l.answer = TryResult("token", primary, epoch[primary])
         /\ l.pc = "send" /\ l.again => l.with = PrimaryToken
         /\ l.pc = "answered" => l.answer.kind = "ok" \/ Refreshes(l)
         /\ l.pc # "redirect"
    /\ l.pc = "fellback" => l.fallback.kind = "ok"
    /\ l.pc = "returned" => l.result.kind = "ok"

LoneInv ==
    /\ calm \subseteq Requests
    /\ up \subseteq Servers
    /\ \A r \in calm : Alone(r) /\ (Reachable => Lone(req[r], currentOrigin))

(* Request r moves to locals under which it is still undisturbed.            *)
Moves(r) == \E l : req' = [req EXCEPT ![r] = l] /\ Lone(l, currentOrigin')

-----------------------------------------------------------------------------
(* The stretches of code between two awaits, for an undisturbed request that *)
(* has asked no origin that reaches the primary but, perhaps, the last one.  *)

Missed(l) == Local(l) /\ l.next \in Nat /\ \A a \in Asked(l) : ~Reaches(a)

LEMMA TryLone ==
  ASSUME NEW l, Local(l), NEW o, NEW t, l.next \in Nat, \A a \in Asked(l) : Reaches(a) => a = o
  PROVE  Lone(TryApiReq(l, o, t), o)
  <1> DEFINE k == TryApiReq(l, o, t)
  <1>1. /\ k.pc \in {"signin", "send"} /\ k.url = o /\ k.again = FALSE
        /\ k.pc = "signin" => k.at = o
        /\ k.next = l.next /\ k.tried = l.tried
    BY DEF TryApiReq, Local
  <1>2. Asked(k) = Asked(l)
    BY <1>1 DEF Asked
  <1> QED
    BY <1>1, <1>2 DEF Lone, Asking, Searching

LEMMA LeaveLone ==
  ASSUME NEW l, l.result.kind = "ok", NEW o
  PROVE  Lone(Leave(l), o)
  <1>1. Leave(l) = Returned(l.result)
    BY DEF Leave
  <1>2. Leave(l).pc = "returned" /\ Leave(l).result = l.result
    BY <1>1 DEF Returned, Idle
  <1> QED
    BY <1>2 DEF Lone, Asking, Searching

(* There is an origin left, and all before it were asked.                    *)
LEMMA NextFallbackLone ==
  ASSUME NEW r \in Requests, NEW l, Missed(l), Reachable, NextFallback(r, l)
  PROVE  Moves(r)
  <1> DEFINE left == {i \in l.next..Len(Addresses) : Addresses[i] \notin l.tried}
             m == Min(left)
             k == [l EXCEPT !.next = m + 1, !.phase = "fallback"]
  <1>1. Addresses \in Seq(Origins) /\ l.next \in Nat
    BY HttpConstants DEF Missed
  <1>2. PICK i \in DOMAIN Addresses : Reaches(Addresses[i])
    BY DEF Reachable, Reaches, Configured, Range
  <1>3. i \in left
    <2>1. Addresses[i] \notin Asked(l)
      BY <1>2 DEF Missed
    <2>2. i \in Nat /\ i <= Len(Addresses)
      BY <1>1, <1>2
    <2> QED
      BY <1>1, <2>1, <2>2 DEF Asked
  <1>4. left \in SUBSET Nat
    BY <1>1
  <1>5. m \in left /\ \A n \in left : m <= n
    <2> HIDE DEF left
    <2> QED
      BY <1>3, <1>4, MinIsFirst
  <1>6. SwitchOrigin(Addresses[m]) /\ req' = [req EXCEPT ![r] = TryApiReq(k, Addresses[m], NoToken)]
    BY <1>3, Zenon DEF NextFallback
  <1>7. Local(k) /\ k.next = m + 1 /\ k.tried = l.tried
    BY DEF Missed, Local
  <1>8. ASSUME NEW a \in Asked(k), Reaches(a) PROVE a = Addresses[m]
    <2>1. a \notin Asked(l)
      BY <1>8 DEF Missed
    <2>2. PICK j \in DOMAIN Addresses : j < m + 1 /\ a = Addresses[j]
      BY <1>7, <2>1 DEF Asked
    <2>3. j \in Nat /\ j >= l.next /\ j <= Len(Addresses) /\ Addresses[j] \notin l.tried
      BY <1>1, <2>1, <2>2 DEF Asked
    <2>4. j \in left
      BY <1>1, <2>3
    <2>5. j = m
      <3>1. m \in Nat /\ m <= j
        BY <1>4, <1>5, <2>4
      <3> HIDE DEF m, left
      <3> QED
        BY <2>2, <2>3, <3>1
    <2> QED
      BY <2>2, <2>5
  <1>9. k.next \in Nat
    BY <1>4, <1>5, <1>7
  <1> HIDE DEF k, m, left
  <1>10. Lone(TryApiReq(k, Addresses[m], NoToken), Addresses[m])
    BY <1>7, <1>8, <1>9, TryLone
  <1>11. currentOrigin' = Addresses[m]
    BY <1>6 DEF SwitchOrigin
  <1> QED
    BY <1>6, <1>10, <1>11, Zenon DEF Moves

LEMMA InitialResultLone ==
  ASSUME NEW r \in Requests, NEW l, Local(l), l.next \in Nat, NEW x, Reachable,
         \A a \in Asked(l) \cup {currentOrigin} : Reaches(a) => x.kind = "ok",
         InitialResult(r, l, x)
  PROVE  Moves(r)
  <1>1. CASE x.kind = "ok"
    <2> DEFINE k == [l EXCEPT !.result = x]
    <2>1. req' = [req EXCEPT ![r] = Leave(k)]
      BY <1>1 DEF InitialResult, NeedsFallback
    <2>2. k.result = x
      BY DEF Local
    <2>3. Lone(Leave(k), currentOrigin')
      BY <1>1, <2>2, LeaveLone
    <2> QED
      BY <2>1, <2>3, Zenon DEF Moves
  <1>2. CASE x.kind # "ok"
    <2> DEFINE k == [l EXCEPT !.result = x, !.start = currentOrigin,
                              !.tried = @ \cup {currentOrigin}]
    <2>1. NextFallback(r, k)
      BY <1>2 DEF InitialResult, NeedsFallback
    <2>2. Local(k) /\ k.next = l.next /\ k.tried = l.tried \cup {currentOrigin}
      BY DEF Local
    <2>3. Asked(k) = Asked(l) \cup {currentOrigin}
      BY <2>2 DEF Asked
    <2>4. Missed(k)
      BY <1>2, <2>2, <2>3 DEF Missed
    <2> QED
      BY <2>1, <2>4, NextFallbackLone
  <1> QED
    BY <1>1, <1>2

LEMMA FallbackResultLone ==
  ASSUME NEW r \in Requests, NEW l, Local(l), l.next \in Nat, NEW x, Reachable,
         \A a \in Asked(l) : Reaches(a) => x.kind = "ok",
         FallbackResult(r, l, x)
  PROVE  Moves(r)
  <1>1. CASE x.kind = "ok"
    <2> DEFINE k == [l EXCEPT !.pc = "fellback", !.fallback = x]
    <2>1. req' = [req EXCEPT ![r] = k]
      BY <1>1 DEF FallbackResult
    <2>2. k.pc = "fellback" /\ k.fallback = x
      BY DEF Local
    <2> HIDE DEF k
    <2>3. Lone(k, currentOrigin')
      BY <1>1, <2>2 DEF Lone, Asking, Searching
    <2> QED
      BY <2>1, <2>3, Zenon DEF Moves
  <1>2. CASE x.kind = "null"
    <2>1. NextFallback(r, l) /\ Missed(l)
      BY <1>2 DEF FallbackResult, Missed
    <2> QED
      BY <2>1, NextFallbackLone
  <1>3. CASE x.kind \notin {"ok", "null"}
    <2> DEFINE k == [l EXCEPT !.fallback = x]
    <2>1. NextFallback(r, k)
      BY <1>3 DEF FallbackResult
    <2>2. Local(k) /\ k.next = l.next /\ k.tried = l.tried
      BY DEF Local
    <2>3. Asked(k) = Asked(l)
      BY <2>2 DEF Asked
    <2>4. Missed(k)
      BY <1>3, <2>2, <2>3 DEF Missed
    <2> QED
      BY <2>1, <2>4, NextFallbackLone
  <1> QED
    BY <1>1, <1>2, <1>3

LEMMA OutcomeLone ==
  ASSUME NEW r \in Requests, NEW l, Local(l), l.next \in Nat, l.url = currentOrigin,
         NEW x, x.kind # "denied", Reachable,
         \A a \in Asked(l) \cup {currentOrigin} : Reaches(a) => x.kind = "ok",
         Outcome(r, l, x)
  PROVE  Moves(r)
  <1>1. CASE x.kind = "421" /\ l.phase \in Follows
    <2> DEFINE k == [l EXCEPT !.pc = "redirect", !.answer = x]
    <2>1. req' = [req EXCEPT ![r] = k] /\ UNCHANGED currentOrigin
      BY <1>1 DEF Outcome, clientVars
    <2>2. k.pc = "redirect" /\ k.url = l.url /\ k.next = l.next /\ k.tried = l.tried
      BY DEF Local
    <2>3. Asked(k) = Asked(l)
      BY <2>2 DEF Asked
    <2> HIDE DEF k
    <2>4. Lone(k, currentOrigin')
      BY <1>1, <2>1, <2>2, <2>3 DEF Lone, Asking, Searching
    <2> QED
      BY <2>1, <2>4, Zenon DEF Moves
  <1>2. CASE ~(x.kind = "421" /\ l.phase \in Follows)
    <2>1. InitialResult(r, l, x) \/ FallbackResult(r, l, x)
      BY <1>2 DEF Outcome
    <2> QED
      BY <2>1, InitialResultLone, FallbackResultLone
  <1> QED
    BY <1>1, <1>2

(* Whatever comes out of them, one request moves.                            *)
LEMMA OneChanges ==
  ASSUME NEW r \in Requests, NEW l, NEW x,
         Outcome(r, l, x) \/ InitialResult(r, l, x) \/ FallbackResult(r, l, x)
  PROVE  \E m : req' = [req EXCEPT ![r] = m]
  <1>1. ASSUME NEW m, NextFallback(r, m) PROVE \E k : req' = [req EXCEPT ![r] = k]
    BY <1>1, Zenon DEF NextFallback
  <1>2. InitialResult(r, l, x) => \E k : req' = [req EXCEPT ![r] = k]
    BY <1>1, Zenon DEF InitialResult
  <1>3. FallbackResult(r, l, x) => \E k : req' = [req EXCEPT ![r] = k]
    BY <1>1, Zenon DEF FallbackResult
  <1> QED
    BY <1>2, <1>3, Zenon DEF Outcome

-----------------------------------------------------------------------------
(* The steps of the undisturbed request itself.                              *)

(* Nobody but the undisturbed request is in progress.                        *)
LEMMA OnlyLone ==
  ASSUME LoneInv, NEW r \in Requests, InProgress(r), NEW q \in calm
  PROVE  q = r
  BY DEF LoneInv, Alone

(* The request moves, and the cluster is as it was.                          *)
LEMMA LoneMoves ==
  ASSUME AnswerInv, LoneInv, NEW r \in Requests, UNCHANGED <<primary, up, epoch>>,
         calm' \subseteq {r}, r \in calm' => Alone(r),
         \E l : req' = [req EXCEPT ![r] = l],
         r \in calm' /\ Reachable => Moves(r)
  PROVE  LoneInv'
  <1>1. PICK l : req' = [req EXCEPT ![r] = l]
    OBVIOUS
  <1>2. \A q \in Requests \ {r} : req'[q] = req[q]
    BY <1>1 DEF AnswerInv
  <1>3. Reachable' = Reachable
    BY DEF Reachable
  <1>4. calm' \subseteq Requests /\ up' \subseteq Servers
    BY DEF LoneInv
  <1>5. ASSUME NEW q \in calm' PROVE Alone(q)' /\ (Reachable' => Lone(req[q], currentOrigin)')
    <2>1. q = r /\ Alone(r)
      BY <1>5
    <2>2. Alone(r)'
      BY <1>2, <2>1 DEF Alone, InProgress
    <2>3. ASSUME Reachable PROVE Lone(req[r], currentOrigin)'
      <3>1. Moves(r)
        BY <1>5, <2>1, <2>3
      <3>2. PICK k : req' = [req EXCEPT ![r] = k] /\ Lone(k, currentOrigin')
        BY <3>1, Zenon DEF Moves
      <3>3. req'[r] = k
        BY <3>2 DEF AnswerInv
      <3>4. Lone(req'[r], currentOrigin')
        BY <3>2, <3>3
      <3>5. \A o : Reaches(o)' = Reaches(o)
        BY DEF Reaches
      <3>6. PrimaryToken' = PrimaryToken
        BY DEF PrimaryToken
      <3> QED
        BY <3>4, <3>5, <3>6 DEF Lone, Asked, Refreshes
    <2> QED
      BY <1>3, <2>1, <2>2, <2>3
  <1> QED
    BY <1>4, <1>5 DEF LoneInv

LEMMA LoneGoesOn ==
  ASSUME AnswerInv, LoneInv, NEW r \in Requests, InProgress(r),
         UNCHANGED <<primary, up, epoch>>, calm' \subseteq calm,
         \E l : req' = [req EXCEPT ![r] = l],
         r \in calm' /\ Reachable => Moves(r)
  PROVE  LoneInv'
  <1>1. calm' \subseteq {r} /\ (r \in calm' => Alone(r))
    BY OnlyLone DEF LoneInv
  <1> QED
    BY <1>1, LoneMoves

LEMMA LoneNow ==
  ASSUME AnswerInv, LoneInv, NEW r \in calm, Reachable, InProgress(r), req[r].pc # "wait", req[r].pc # "fellback"
  PROVE  /\ Local(req[r]) /\ Lone(req[r], currentOrigin) /\ req[r].next \in Nat
         /\ \A a \in Asked(req[r]) : Reaches(a) => req[r].pc \in Asking /\ a = req[r].url
  <1>1. Good(req[r], arrived[r]) /\ Lone(req[r], currentOrigin)
    BY DEF AnswerInv, LoneInv
  <1>2. Open(req[r]) /\ req[r].pc \in Searching
    BY <1>1 DEF Good, Underway, InProgress, Searching, Asking
  <1> QED
    BY <1>1, <1>2 DEF Lone, Open

LEMMA PrimaryIsServer == LoneInv /\ Reachable => primary \in Servers /\ primary # Nobody
  BY HttpConstants DEF LoneInv, Reachable

LEMMA ServeSigninLone ==
  ASSUME AnswerInv, LoneInv, NEW r \in Requests, ServeSignin(r)
  PROVE  LoneInv'
  <1> DEFINE l == req[r]
             k(x) == [l EXCEPT !.pc = "signed", !.answer = x, !.at = Nobody, !.with = NoToken]
  <1>1. l.pc = "signin" /\ InProgress(r) /\ UNCHANGED <<currentOrigin, primary, up, epoch>>
    BY DEF ServeSignin, At, InProgress, clientVars, clusterVars
  <1>2. PICK x : /\ Answer(r, "signed", x)
                 /\ \/ calm' = {}
                    \/ /\ UNCHANGED calm
                       /\ \/ x = Null /\ ServerAt[l.at] \notin (up \cap {primary})
                          \/ x = TryResult("token", ServerAt[l.at], epoch[ServerAt[l.at]])
    BY DEF ServeSignin, Fault
  <1>3. req' = [req EXCEPT ![r] = k(x)]
    BY <1>2 DEF Answer
  <1>4. ASSUME r \in calm', Reachable PROVE Moves(r)
    <2>1. r \in calm /\ UNCHANGED calm
      BY <1>2, <1>4
    <2>2. /\ Local(l) /\ Lone(l, currentOrigin) /\ l.next \in Nat
          /\ \A a \in Asked(l) : Reaches(a) => a = l.url
      BY <1>1, <1>4, <2>1, LoneNow
    <2>3. /\ k(x).pc = "signed" /\ k(x).answer = x /\ k(x).url = l.url
          /\ k(x).next = l.next /\ k(x).tried = l.tried
      BY <2>2 DEF Local
    <2>4. l.at = l.url /\ l.url = currentOrigin
      BY <1>1, <2>2 DEF Lone, Asking
    <2>5. x = Null \/ x = TryResult("token", ServerAt[l.at], epoch[ServerAt[l.at]])
      BY <1>2, <1>4
    <2>6. x.kind # "denied"
      BY <2>5 DEF Null, TryResult
    <2>7. Reaches(l.url) => x = TryResult("token", primary, epoch[primary])
      BY <1>2, <1>4, <2>4 DEF Reaches, Reachable
    <2>8. Asked(k(x)) = Asked(l)
      BY <2>3 DEF Asked
    <2> HIDE DEF k
    <2>9. Lone(k(x), currentOrigin')
      BY <1>1, <2>2, <2>3, <2>4, <2>6, <2>7, <2>8 DEF Lone, Asking, Searching
    <2> QED
      BY <1>3, <2>9, Zenon DEF Moves
  <1>5. calm' \subseteq calm
    BY <1>2
  <1> QED
    BY <1>1, <1>3, <1>4, <1>5, LoneGoesOn

LEMMA ServeLone ==
  ASSUME AnswerInv, LoneInv, NEW r \in Requests, Serve(r)
  PROVE  LoneInv'
  <1> DEFINE l == req[r]
             s == ServerAt[l.url]
             accepted == s \in up /\ l.with.server = s /\ Valid(l.with)
             k(x) == [l EXCEPT !.pc = "answered", !.answer = x, !.at = Nobody, !.with = NoToken]
  <1>1. l.pc = "send" /\ InProgress(r) /\ UNCHANGED <<currentOrigin, primary, up, epoch>>
    BY DEF Serve, At, InProgress, clientVars, clusterVars
  <1>2. PICK x : /\ Answer(r, "answered", x) /\ x.kind # "denied"
                 /\ \/ calm' = {}
                    \/ /\ UNCHANGED calm
                       /\ \/ s \notin up \/ (accepted /\ s # primary)
                          \/ s \in up /\ ~accepted /\ x.kind = "401"
                          \/ x.kind = "ok"
    <2>1. /\ Null.kind # "denied"
          /\ \A kind, o, h : TryResult(kind, o, h).kind = kind
      BY DEF Null, TryResult
    <2>2. CASE s \notin up /\ Answer(r, "answered", Null) /\ UNCHANGED calm
      BY <2>1, <2>2
    <2>3. CASE s \in up /\ ~accepted /\ Answer(r, "answered", TryResult("401", l.url, Nobody)) /\ UNCHANGED calm
      BY <2>1, <2>3
    <2>4. CASE Answer(r, "answered", TryResult("ok", l.url, Nobody)) /\ UNCHANGED calm
      BY <2>1, <2>4
    <2>5. CASE \E kind \in {"fail", "null"}, hint \in {Nobody} \cup Servers, o \in {l.url, Nobody} :
                  Answer(r, "answered", TryResult(kind, o, hint)) /\ calm' = {}
      BY <2>1, <2>5
    <2>6. CASE /\ accepted /\ s # primary /\ UNCHANGED calm
               /\ \E kind \in {"fail", "421"}, hint \in Servers \cup {Nobody} :
                    Answer(r, "answered", TryResult(kind, l.url, hint))
      BY <2>1, <2>6
    <2> HIDE DEF accepted, k
    <2> QED
      BY <2>2, <2>3, <2>4, <2>5, <2>6 DEF Serve, Fault, Null, accepted, clusterVars
  <1>3. req' = [req EXCEPT ![r] = k(x)]
    BY <1>2 DEF Answer
  <1>4. ASSUME r \in calm', Reachable PROVE Moves(r)
    <2>1. r \in calm /\ UNCHANGED calm
      BY <1>2, <1>4
    <2>2. /\ Local(l) /\ Lone(l, currentOrigin) /\ l.next \in Nat
          /\ \A a \in Asked(l) : Reaches(a) => a = l.url
      BY <1>1, <1>4, <2>1, LoneNow
    <2>3. /\ k(x).pc = "answered" /\ k(x).answer = x /\ k(x).url = l.url /\ k(x).again = l.again
          /\ k(x).next = l.next /\ k(x).tried = l.tried
      BY <2>2 DEF Local
    <2>4. l.url = currentOrigin
      BY <1>1, <2>2 DEF Lone, Asking
    <2>5. ASSUME Reaches(l.url) PROVE x.kind = "ok" \/ (x.kind = "401" /\ ~l.again)
      <3>1. s = primary /\ s \in up /\ primary # Nobody
        BY <1>4, <2>5, PrimaryIsServer DEF Reaches, Reachable
      <3>2. l.again => accepted
        <4>1. l.again => l.with = PrimaryToken
          BY <1>1, <2>2, <2>5 DEF Lone, Asking
        <4> QED
          BY <3>1, <4>1 DEF PrimaryToken, Valid
      <3> HIDE DEF accepted, s
      <3> QED
        BY <1>2, <1>4, <3>1, <3>2
    <2>6. Reaches(l.url) => x.kind = "ok" \/ Refreshes(k(x))
      BY <2>3, <2>5 DEF Refreshes
    <2>7. Asked(k(x)) = Asked(l)
      BY <2>3 DEF Asked
    <2> HIDE DEF k
    <2>8. Lone(k(x), currentOrigin')
      BY <1>1, <1>2, <2>2, <2>3, <2>4, <2>6, <2>7 DEF Lone, Asking, Searching
    <2> QED
      BY <1>3, <2>8, Zenon DEF Moves
  <1>5. calm' \subseteq calm
    BY <1>2
  <1> QED
    BY <1>1, <1>3, <1>4, <1>5, LoneGoesOn

(* A stretch of code that begins with the answer, which it takes from the    *)
(* locals, and leaves the cluster alone.                                     *)
LEMMA Taken ==
  ASSUME NEW l, Local(l)
  PROVE  /\ Local([l EXCEPT !.answer = Null])
         /\ \A f \in {"pc", "phase", "next", "url", "tried"} : [l EXCEPT !.answer = Null][f] = l[f]
         /\ Asked([l EXCEPT !.answer = Null]) = Asked(l)
  BY DEF Local, Asked

LEMMA SignedInLone ==
  ASSUME AnswerInv, LoneInv, NEW r \in Requests, SignedIn(r)
  PROVE  LoneInv'
  <1> DEFINE l == req[r]
             t == [server |-> l.answer.from, n |-> l.answer.hint]
             k == [l EXCEPT !.pc = "send", !.with = t, !.answer = Null]
             j == [l EXCEPT !.answer = Null]
  <1>1. l.pc = "signed" /\ InProgress(r) /\ UNCHANGED <<primary, up, epoch, calm>>
    BY DEF SignedIn, At, InProgress, clusterVars
  <1>2. \/ l.answer.kind = "token" /\ req' = [req EXCEPT ![r] = k] /\ UNCHANGED currentOrigin
        \/ l.answer.kind # "token" /\ Outcome(r, j, l.answer)
    BY DEF SignedIn, AnswerInv
  <1>3. ASSUME r \in calm', Reachable PROVE Moves(r)
    <2>1. /\ Local(l) /\ Lone(l, currentOrigin) /\ l.next \in Nat
          /\ \A a \in Asked(l) : Reaches(a) => a = l.url
      BY <1>1, <1>3, LoneNow
    <2>2. /\ l.url = currentOrigin /\ l.answer.kind # "denied"
          /\ Reaches(l.url) => l.answer = TryResult("token", primary, epoch[primary])
      BY <1>1, <2>1 DEF Lone, Asking
    <2>3. CASE l.answer.kind = "token" /\ req' = [req EXCEPT ![r] = k] /\ UNCHANGED currentOrigin
      <3>1. /\ k.pc = "send" /\ k.with = t /\ k.url = l.url /\ k.next = l.next /\ k.tried = l.tried
        BY <2>1 DEF Local
      <3>2. Reaches(l.url) => t = PrimaryToken
        BY <2>2 DEF TryResult, PrimaryToken
      <3>3. Asked(k) = Asked(l)
        BY <3>1 DEF Asked
      <3> HIDE DEF k, t
      <3>4. Lone(k, currentOrigin')
        BY <1>1, <2>1, <2>2, <2>3, <3>1, <3>2, <3>3 DEF Lone, Asking, Searching
      <3> QED
        BY <2>3, <3>4, Zenon DEF Moves
    <2>4. CASE l.answer.kind # "token" /\ Outcome(r, j, l.answer)
      <3>1. Local(j) /\ j.next \in Nat /\ j.url = currentOrigin /\ Asked(j) = Asked(l)
        BY <2>1, <2>2, Taken
      <3>2. ~Reaches(l.url)
        BY <2>2, <2>4 DEF TryResult
      <3> HIDE DEF j
      <3> QED
        BY <1>3, <2>1, <2>2, <2>4, <3>1, <3>2, OutcomeLone
    <2> QED
      BY <1>2, <2>3, <2>4
  <1>4. \E m : req' = [req EXCEPT ![r] = m]
    <2>1. CASE Outcome(r, j, l.answer)
      <3>1. Local(l)
        BY <1>1 DEF AnswerInv, Good, Open
      <3> QED
        BY <2>1, OneChanges
    <2> QED
      BY <1>2, <2>1
  <1> QED
    BY <1>1, <1>3, <1>4, LoneGoesOn

LEMMA RespondedLone ==
  ASSUME AnswerInv, LoneInv, NEW r \in Requests, Responded(r)
  PROVE  LoneInv'
  <1> DEFINE l == req[r]
             k == [l EXCEPT !.pc = "signin", !.at = currentOrigin, !.again = TRUE, !.answer = Null]
             j == [l EXCEPT !.answer = Null]
  <1>1. l.pc = "answered" /\ InProgress(r) /\ UNCHANGED <<primary, up, epoch, calm>>
    BY DEF Responded, At, InProgress, clusterVars
  <1>2. \/ Refreshes(l) /\ req' = [req EXCEPT ![r] = k] /\ UNCHANGED currentOrigin
        \/ ~Refreshes(l) /\ Outcome(r, j, l.answer)
    BY DEF Responded, AnswerInv, clientVars
  <1>3. ASSUME r \in calm', Reachable PROVE Moves(r)
    <2>1. /\ Local(l) /\ Lone(l, currentOrigin) /\ l.next \in Nat
          /\ \A a \in Asked(l) : Reaches(a) => a = l.url
      BY <1>1, <1>3, LoneNow
    <2>2. /\ l.url = currentOrigin /\ l.answer.kind # "denied"
          /\ Reaches(l.url) => l.answer.kind = "ok" \/ Refreshes(l)
      BY <1>1, <2>1 DEF Lone, Asking
    <2>3. CASE Refreshes(l) /\ req' = [req EXCEPT ![r] = k] /\ UNCHANGED currentOrigin
      <3>1. /\ k.pc = "signin" /\ k.at = currentOrigin /\ k.url = l.url /\ k.next = l.next
            /\ k.tried = l.tried
        BY <2>1 DEF Local
      <3>2. Asked(k) = Asked(l)
        BY <3>1 DEF Asked
      <3> HIDE DEF k
      <3>3. Lone(k, currentOrigin')
        BY <1>1, <2>1, <2>2, <2>3, <3>1, <3>2 DEF Lone, Asking, Searching
      <3> QED
        BY <2>3, <3>3, Zenon DEF Moves
    <2>4. CASE ~Refreshes(l) /\ Outcome(r, j, l.answer)
      <3>1. Local(j) /\ j.next \in Nat /\ j.url = currentOrigin /\ Asked(j) = Asked(l)
        BY <2>1, <2>2, Taken
      <3> HIDE DEF j
      <3> QED
        BY <1>3, <2>1, <2>2, <2>4, <3>1, OutcomeLone
    <2> QED
      BY <1>2, <2>3, <2>4
  <1>4. \E m : req' = [req EXCEPT ![r] = m]
    BY <1>2, OneChanges
  <1> QED
    BY <1>1, <1>3, <1>4, LoneGoesOn

LEMMA SwitchToRedirectTargetLone ==
  ASSUME AnswerInv, LoneInv, NEW r \in Requests, SwitchToRedirectTarget(r)
  PROVE  LoneInv'
  <1> DEFINE l == req[r]
             j == [l EXCEPT !.answer = Null]
             k == [j EXCEPT !.pc = "switched"]
  <1>1. l.pc = "redirect" /\ InProgress(r) /\ UNCHANGED <<primary, up, epoch, calm>>
    BY DEF SwitchToRedirectTarget, At, InProgress, clusterVars
  <1>2. req' = [req EXCEPT ![r] = k] \/ InitialResult(r, j, Null) \/ FallbackResult(r, j, Null)
    BY Zenon DEF SwitchToRedirectTarget
  <1>3. ASSUME r \in calm', Reachable PROVE Moves(r)
    <2>1. /\ Local(l) /\ Lone(l, currentOrigin) /\ l.next \in Nat
          /\ \A a \in Asked(l) : ~Reaches(a)
      BY <1>1, <1>3, LoneNow DEF Asking
    <2>2. ~Reaches(currentOrigin)
      BY <1>1, <2>1 DEF Lone
    <2>3. /\ Local(j) /\ j.next \in Nat /\ Asked(j) = Asked(l)
          /\ j.next = l.next /\ j.tried = l.tried
      BY <2>1, Taken
    <2> HIDE DEF j
    <2>4. CASE req' = [req EXCEPT ![r] = k]
      <3>1. k.pc = "switched" /\ k.next = l.next /\ k.tried = l.tried
        BY <2>3 DEF Local
      <3>2. Asked(k) = Asked(l)
        BY <3>1 DEF Asked
      <3> HIDE DEF k
      <3>3. Lone(k, currentOrigin')
        BY <2>1, <3>1, <3>2 DEF Lone, Asking, Searching
      <3> QED
        BY <2>4, <3>3, Zenon DEF Moves
    <2>5. CASE InitialResult(r, j, Null) \/ FallbackResult(r, j, Null)
      BY <1>3, <2>1, <2>2, <2>3, <2>5, InitialResultLone, FallbackResultLone
    <2> QED
      BY <1>2, <2>4, <2>5
  <1>4. \E m : req' = [req EXCEPT ![r] = m]
    <2> HIDE DEF j, k
    <2> QED
      BY <1>2, OneChanges
  <1> QED
    BY <1>1, <1>3, <1>4, LoneGoesOn

LEMMA FollowMisdirectedLone ==
  ASSUME AnswerInv, LoneInv, NEW r \in Requests, FollowMisdirected(r)
  PROVE  LoneInv'
  <1> DEFINE l == req[r]
             k == [l EXCEPT !.phase = Redirected(@)]
  <1>1. /\ l.pc = "switched" /\ InProgress(r) /\ UNCHANGED <<currentOrigin, primary, up, epoch, calm>>
        /\ req' = [req EXCEPT ![r] = TryApiReq(k, currentOrigin, token)]
    BY DEF FollowMisdirected, At, InProgress, clientVars, clusterVars
  <1>2. ASSUME r \in calm', Reachable PROVE Moves(r)
    <2>1. Local(l) /\ l.next \in Nat /\ \A a \in Asked(l) : ~Reaches(a)
      BY <1>1, <1>2, LoneNow DEF Asking
    <2>2. Local(k) /\ k.next = l.next /\ k.tried = l.tried
      BY <2>1 DEF Local
    <2>3. Asked(k) = Asked(l)
      BY <2>2 DEF Asked
    <2> HIDE DEF k
    <2>4. Lone(TryApiReq(k, currentOrigin, token), currentOrigin)
      BY <2>1, <2>2, <2>3, TryLone
    <2> QED
      BY <1>1, <2>4, Zenon DEF Moves
  <1> QED
    BY <1>1, <1>2, LoneGoesOn

LEMMA FellBackLone ==
  ASSUME AnswerInv, LoneInv, NEW r \in Requests, FellBack(r)
  PROVE  LoneInv'
  <1> DEFINE l == req[r]
             k == [l EXCEPT !.result = l.fallback]
  <1>1. l.pc = "fellback" /\ InProgress(r) /\ UNCHANGED <<primary, up, epoch, calm>>
    BY DEF FellBack, At, InProgress, clusterVars
  <1>2. \/ FallbackWins(l) /\ req' = [req EXCEPT ![r] = Leave(k)]
        \/ ~FallbackWins(l) /\ req' = [req EXCEPT ![r] = Leave(l)]
    BY Zenon DEF FellBack
  <1>3. ASSUME r \in calm', Reachable PROVE Moves(r)
    <2>1. Lone(l, currentOrigin) /\ Good(l, arrived[r])
      BY <1>1, <1>3 DEF LoneInv, AnswerInv
    <2>2. l.fallback.kind = "ok" /\ Local(l)
      BY <1>1, <2>1 DEF Lone, Good, Underway
    <2>3. FallbackWins(l)
      BY <2>2, NullIsNotOk DEF FallbackWins
    <2>4. k.result = l.fallback
      BY <2>2 DEF Local
    <2> HIDE DEF k
    <2>5. Lone(Leave(k), currentOrigin')
      BY <2>2, <2>4, LeaveLone
    <2> QED
      BY <1>2, <2>3, <2>5, Zenon DEF Moves
  <1>4. \E m : req' = [req EXCEPT ![r] = m]
    <2> HIDE DEF k, l
    <2> QED
      BY <1>2
  <1> QED
    BY <1>1, <1>3, <1>4, LoneGoesOn

(* A request that begins while none is in progress is undisturbed, whatever  *)
(* the origin and the token are.                                             *)
LEMMA ApiReqOnceLone ==
  ASSUME AnswerInv, LoneInv, NEW r \in Requests, ApiReqOnce(r)
  PROVE  LoneInv'
  <1> DEFINE k == [Idle EXCEPT !.retry = req[r].retry, !.tried = {currentOrigin}]
  <1>1. /\ UNCHANGED <<currentOrigin, primary, up, epoch>>
        /\ req' = [req EXCEPT ![r] = TryApiReq(k, currentOrigin, token)]
        /\ At(r, "idle") \/ At(r, "wait")
        /\ calm' = {q \in IF At(r, "idle") THEN {r} ELSE calm :
                      \A p \in Requests \ {r} : ~InProgress(p)}
    BY DEF ApiReqOnce, Issued, clientVars, clusterVars
  <1>2. calm' \subseteq {r} /\ (r \in calm' => Alone(r))
    <2>1. CASE At(r, "idle")
      BY <1>1, <2>1 DEF Alone
    <2>2. CASE At(r, "wait")
      <3>1. InProgress(r) /\ ~At(r, "idle")
        BY <2>2 DEF InProgress, At
      <3> QED
        BY <1>1, <3>1, OnlyLone DEF Alone
    <2> QED
      BY <1>1, <2>1, <2>2
  <1>3. Local(k) /\ k.next = 1 /\ k.tried = {currentOrigin}
    BY DEF Idle, Local
  <1>4. \A a \in Asked(k) : a = currentOrigin
    <2>1. \A i \in DOMAIN Addresses : ~(i < 1)
      BY HttpConstants
    <2> QED
      BY <1>3, <2>1 DEF Asked
  <1> HIDE DEF k
  <1>5. Lone(TryApiReq(k, currentOrigin, token), currentOrigin')
    BY <1>1, <1>3, <1>4, TryLone
  <1>6. Moves(r)
    BY <1>1, <1>5, Zenon DEF Moves
  <1> QED
    BY <1>1, <1>2, <1>6, LoneMoves

LEMMA SettleLone ==
  ASSUME AnswerInv, LoneInv, NEW r \in Requests, Settle(r)
  PROVE  LoneInv'
  BY ServeSigninLone, ServeLone, SignedInLone, RespondedLone, SwitchToRedirectTargetLone,
     FollowMisdirectedLone, FellBackLone, ApiReqOnceLone, Zenon DEF Settle

LEMMA LoneInvariant == HttpSpec => []LoneInv
  <1>1. HttpInit => LoneInv
    BY DEF HttpInit, LoneInv
  <1>2. AnswerInv /\ LoneInv /\ [HttpNext]_httpVars => LoneInv'
    <2> SUFFICES ASSUME AnswerInv, LoneInv, [HttpNext]_httpVars PROVE LoneInv'
      OBVIOUS
    <2>1. CASE UNCHANGED httpVars
      <3>1. UNCHANGED <<calm, up, primary, epoch, req, currentOrigin>>
        BY <2>1 DEF httpVars, clientVars, clusterVars
      <3>2. ASSUME NEW r \in calm PROVE Alone(r)' /\ (Reachable' => Lone(req[r], currentOrigin)')
        <4>1. Alone(r)' = Alone(r) /\ Reachable' = Reachable
          BY <3>1 DEF Alone, InProgress, Reachable
        <4>2. Lone(req[r], currentOrigin)' = Lone(req[r], currentOrigin)
          BY <3>1 DEF Lone, Reaches, PrimaryToken, Asked, Refreshes
        <4> QED
          BY <4>1, <4>2 DEF LoneInv
      <3> QED
        BY <3>1, <3>2 DEF LoneInv
    <2>2. CASE \E r \in Requests : ApiReqOnce(r) \/ Settle(r)
      BY <2>2, ApiReqOnceLone, SettleLone
    <2>3. CASE Elect \/ Crash \/ Restart \/ Expire
      <3>1. calm' = {} /\ up' \subseteq Servers
        BY <2>3 DEF Elect, Crash, Restart, Expire, Fault, LoneInv
      <3> QED
        BY <3>1 DEF LoneInv
    <2> QED
      BY <2>1, <2>2, <2>3, Zenon DEF HttpNext
  <1> QED
    BY <1>1, <1>2, AnswerInvariant, PTL DEF HttpSpec

(* A request that nothing disturbed succeeds when the primary is up and one  *)
(* of the configured origins reaches it, from whatever origin and token it   *)
(* begins, for any number of origins and servers.                            *)
THEOREM SettledRequests == HttpSpec => []SettledRequestSucceeds
  <1>1. LoneInv => SettledRequestSucceeds
    BY DEF LoneInv, Lone, SettledRequestSucceeds, At, Reachable
  <1> QED
    BY <1>1, LoneInvariant, PTL

=============================================================================
