----------------------------- MODULE HttpDriver -----------------------------
(* The HTTP driver: concurrent requests that share the current origin and    *)
(* the sign-in token, and move both when they are redirected or fall back to *)
(* another origin. JavaScript runs one stretch between two awaits at a time. *)
(* The servers, the network and the meaning of an origin are external.       *)
EXTENDS Naturals, FiniteSets, SequencesExt, FiniteSetsExt

CONSTANTS Requests,
          Servers,        \* a server is also the origin its own address gives
          Addresses,      \* params: the sequence of configured origins
          ServerAt,       \* ServerAt[o]: server reached at origin o, or Nobody
          Advertised,     \* Advertised[o]: server whose address is that of o, or Nobody
          Nobody,
          PRIMARY_FAILOVER_RETRIES,
          MaxFaults       \* bound on crashes, restarts, elections, expiries, cuts

Configured == Range(Addresses)
Origins == DOMAIN ServerAt

ASSUME HttpConstants ==
    /\ Addresses \in Seq(Origins) \ {<<>>} /\ Servers \subseteq Origins
    /\ Nobody \notin Origins
    /\ \A o \in Origins : ServerAt[o] \in Servers \cup {Nobody}
    /\ Advertised \in [Origins -> Servers \cup {Nobody}]
    /\ PRIMARY_FAILOVER_RETRIES \in Nat /\ MaxFaults \in Nat

VARIABLES
    currentOrigin, token,  \* fields of TypeDBHttpDriver
    req,                   \* req[r]: locals of request r
    primary, up, epoch,    \* the cluster; tokens of s before epoch[s] expired
    faults,
    calm,                  \* the request, if any, that nothing disturbed so far
    arrived                \* arrived[r]: answers of r that came back with ok

clientVars == <<currentOrigin, token>>
clusterVars == <<primary, up, epoch, faults>>
httpVars == <<clientVars, req, clusterVars, calm, arrived>>

NoToken == [server |-> Nobody, n |-> 0]

(* The result of asking one origin: a kind, the origin, and a redirect hint. *)
(* "null" is a failure to reach it, "denied" an error of the sign-in.        *)
TryResult(kind, from, hint) == [kind |-> kind, from |-> from, hint |-> hint]
Null == TryResult("null", Nobody, Nobody)

Idle == [pc |-> "idle", phase |-> "initial", retry |-> 0, tried |-> {},
         url |-> Nobody, at |-> Nobody, with |-> NoToken, again |-> FALSE,
         answer |-> Null, result |-> Null, start |-> Nobody, next |-> 1, fallback |-> Null]

HttpInit ==
    /\ currentOrigin = Addresses[1]
    /\ token = NoToken
    /\ req = [r \in Requests |-> Idle]
    /\ primary \in Servers
    /\ up \in SUBSET Servers
    /\ epoch = [s \in Servers |-> 0]
    /\ faults = 0
    /\ calm = {}
    /\ arrived = [r \in Requests |-> 0]

At(r, pc) == req[r].pc = pc
InProgress(r) == req[r].pc \notin {"idle", "returned"}

SwitchOrigin(o) == currentOrigin' = o /\ token' = NoToken

(* tryApiReq() up to its first await: the origin is read now, a missing      *)
(* token is fetched from it first.                                           *)
TryApiReq(l, origin, known) ==
    [l EXCEPT !.url = origin, !.again = FALSE,
              !.at = IF known = NoToken THEN origin ELSE Nobody, !.with = known, !.answer = Null,
              !.pc = IF known = NoToken THEN "signin" ELSE "send"]

-----------------------------------------------------------------------------
(* A public method is called, whatever other requests are in progress.       *)
Issued(r) == At(r, "idle")

(* apiReqOnce() begins, for a new request or after the wait of apiReq().     *)
ApiReqOnce(r) ==
    /\ Issued(r) \/ At(r, "wait")
    /\ req' = [req EXCEPT ![r] =
         TryApiReq([Idle EXCEPT !.retry = req[r].retry, !.tried = {currentOrigin}],
                   currentOrigin, token)]
    /\ calm' = {q \in IF At(r, "idle") THEN {r} ELSE calm :
                   \A p \in Requests \ {r} : ~InProgress(p)}
    /\ UNCHANGED <<clientVars, clusterVars, arrived>>

FaultyNextRetry(l) == [Idle EXCEPT !.pc = "wait", !.retry = l.retry]

(* The next round of apiReq().                                               *)
NextRetry(l) == [Idle EXCEPT !.pc = "wait", !.retry = l.retry + 1]

Returned(x) == [Idle EXCEPT !.pc = "returned", !.result = x]

(* The end of apiReqOnce(): apiReq() waits and tries again or returns.       *)
Leave(l) ==
    IF l.result.kind = "421" /\ l.retry < PRIMARY_FAILOVER_RETRIES THEN NextRetry(l)
    ELSE Returned(l.result)

(* tryFallbackOrigins(): on to the next configured origin not yet tried.     *)
NextFallback(r, l) ==
    LET left == {i \in l.next..Len(Addresses) : Addresses[i] \notin l.tried}
    IN  \/ /\ left = {}
           /\ req' = [req EXCEPT ![r] = [l EXCEPT !.pc = "fellback"]]
           /\ UNCHANGED clientVars
        \/ /\ left # {}
           /\ LET o == Addresses[Min(left)]
              IN  /\ SwitchOrigin(o)
                  /\ req' = [req EXCEPT ![r] =
                       TryApiReq([l EXCEPT !.next = Min(left) + 1, !.phase = "fallback"],
                                 o, NoToken)]

FaultyNeedsFallback(x) == TRUE

NeedsFallback(x) == x.kind # "ok"

(* The first origin, or the one it redirected to, has answered x.            *)
InitialResult(r, l, x) ==
    \/ /\ ~NeedsFallback(x)
       /\ req' = [req EXCEPT ![r] = Leave([l EXCEPT !.result = x])]
       /\ UNCHANGED clientVars
    \/ /\ NeedsFallback(x)
       /\ NextFallback(r, [l EXCEPT !.result = x, !.start = currentOrigin,
                                    !.tried = @ \cup {currentOrigin}])

(* One of the fallback origins, or its redirect, has answered x.             *)
FallbackResult(r, l, x) ==
    \/ x.kind = "null" /\ NextFallback(r, l)
    \/ x.kind \notin {"null", "ok"} /\ NextFallback(r, [l EXCEPT !.fallback = x])
    \/ /\ x.kind = "ok"
       /\ req' = [req EXCEPT ![r] = [l EXCEPT !.pc = "fellback", !.fallback = x]]
       /\ UNCHANGED clientVars

(* A redirect is followed once per origin.                                   *)
Follows == {"initial", "fallback"}
Redirected(phase) == IF phase = "initial" THEN "redirected" ELSE "fallback redirected"

(* tryApiReq() returned x. A sign-in error is passed on at once, to apiReq() *)
(* that takes one with status 421 for a redirect and tries again.            *)
Outcome(r, l, x) ==
    \/ /\ x.kind = "denied"
       /\ \/ req' = [req EXCEPT ![r] = Returned(x)]
          \/ /\ l.retry < PRIMARY_FAILOVER_RETRIES
             /\ req' = [req EXCEPT ![r] = NextRetry(l)]
       /\ UNCHANGED clientVars
    \/ /\ x.kind = "421" /\ l.phase \in Follows
       /\ req' = [req EXCEPT ![r] = [l EXCEPT !.pc = "redirect", !.answer = x]]
       /\ UNCHANGED clientVars
    \/ /\ x.kind # "denied" /\ ~(x.kind = "421" /\ l.phase \in Follows)
       /\ \/ l.phase \in {"initial", "redirected"} /\ InitialResult(r, l, x)
          \/ l.phase \in {"fallback", "fallback redirected"} /\ FallbackResult(r, l, x)

-----------------------------------------------------------------------------
(* The cluster. A fault disturbs the request in progress.                    *)
Fault == faults < MaxFaults /\ faults' = faults + 1 /\ calm' = {}

Elect ==
    /\ Fault
    /\ primary' \in (up \cup {Nobody}) \ {primary}
    /\ UNCHANGED <<clientVars, req, up, epoch, arrived>>

Crash ==
    /\ Fault
    /\ \E s \in up : up' = up \ {s}
    /\ UNCHANGED <<clientVars, req, primary, epoch, arrived>>

Restart ==
    /\ Fault
    /\ \E s \in Servers \ up : up' = up \cup {s}
    /\ UNCHANGED <<clientVars, req, primary, epoch, arrived>>

Expire ==
    /\ Fault
    /\ \E s \in Servers : epoch' = [epoch EXCEPT ![s] = @ + 1]
    /\ UNCHANGED <<clientVars, req, primary, up, arrived>>

Answer(r, pc, x) == req' = [req EXCEPT ![r] =
    [@ EXCEPT !.pc = pc, !.answer = x, !.at = Nobody, !.with = NoToken]]

(* The sign-in is answered: with a token, by a server that is not ready or   *)
(* not primary (SRV14, CSV8, CSV9), or by a failure. The token, if any, is   *)
(* that of the server and its epoch.                                         *)
ServeSignin(r) ==
    LET o == req[r].at
        s == ServerAt[o]
    IN  /\ At(r, "signin")
        /\ \/ s \notin up /\ Answer(r, "signed", Null) /\ UNCHANGED <<clusterVars, calm>>
           \/ /\ s \in up /\ Answer(r, "signed", TryResult("token", s, epoch[s]))
              /\ UNCHANGED <<clusterVars, calm>>
           \/ /\ s \in up \ {primary} /\ Answer(r, "signed", Null)
              /\ UNCHANGED <<clusterVars, calm>>
           \/ /\ s \in up /\ Fault
              /\ \E x \in {Null, TryResult("denied", o, Nobody)} : Answer(r, "signed", x)
              /\ UNCHANGED <<primary, up, epoch>>
        /\ UNCHANGED <<clientVars, arrived>>

Valid(t) == t.server # Nobody /\ t.n = epoch[t.server]

(* A request is answered: the primary carries it out or refuses it, other    *)
(* servers redirect it, to whom they take for the primary, or refuse it.     *)
(* The connection may be cut after the primary has carried it out.           *)
Serve(r) ==
    LET o == req[r].url
        s == ServerAt[o]
        accepted == s \in up /\ req[r].with.server = s /\ Valid(req[r].with)
    IN  /\ At(r, "send")
        /\ \/ s \notin up /\ Answer(r, "answered", Null)
              /\ UNCHANGED <<clusterVars, calm, arrived>>
           \/ s \in up /\ ~accepted /\ Answer(r, "answered", TryResult("401", o, Nobody))
              /\ UNCHANGED <<clusterVars, calm, arrived>>
           \/ /\ accepted /\ s = primary /\ Answer(r, "answered", TryResult("ok", o, Nobody))
              /\ arrived' = [arrived EXCEPT ![r] = @ + 1]
              /\ UNCHANGED <<clusterVars, calm>>
           \/ /\ accepted /\ s = primary /\ Answer(r, "answered", TryResult("fail", o, Nobody))
              /\ calm' = {}
              /\ UNCHANGED <<clusterVars, arrived>>
           \/ /\ accepted /\ s # primary
              /\ \E x \in {TryResult("fail", o, Nobody)} \cup
                          {TryResult("421", o, hint) : hint \in Servers \cup {Nobody}} :
                   Answer(r, "answered", x)
              /\ UNCHANGED <<clusterVars, calm, arrived>>
           \/ /\ s \in up /\ Fault /\ Answer(r, "answered", Null)
              /\ UNCHANGED <<primary, up, epoch, arrived>>
        /\ UNCHANGED clientVars

-----------------------------------------------------------------------------
(* signinOnce() and tryApiReq() go on: the token is stored whatever the      *)
(* current origin is by now.                                                 *)
SignedIn(r) ==
    LET l == req[r]
    IN  /\ At(r, "signed")
        /\ \/ /\ l.answer.kind = "token"
              /\ token' = [server |-> l.answer.from, n |-> l.answer.hint]
              /\ req' = [req EXCEPT ![r].pc = "send", ![r].with = token', ![r].answer = Null]
              /\ UNCHANGED currentOrigin
           \/ l.answer.kind # "token" /\ Outcome(r, [l EXCEPT !.answer = Null], l.answer)
        /\ UNCHANGED <<clusterVars, calm, arrived>>

(* One sign-in follows a 401.                                                *)
Refreshes(l) == l.answer.kind = "401" /\ ~l.again

(* The answer of a request. refreshToken() signs in at the current origin,   *)
(* and the request is repeated where it was sent before.                     *)
Responded(r) ==
    LET l == req[r]
    IN  /\ At(r, "answered")
        /\ \/ /\ Refreshes(l)
              /\ req' = [req EXCEPT ![r].pc = "signin", ![r].at = currentOrigin,
                                    ![r].again = TRUE, ![r].answer = Null]
              /\ UNCHANGED clientVars
           \/ ~Refreshes(l) /\ Outcome(r, [l EXCEPT !.answer = Null], l.answer)
        /\ UNCHANGED <<clusterVars, calm, arrived>>

(* resolveOrigin(): the configured origin with the host and port of the      *)
(* address (or translated to it), or the address itself. That an origin      *)
(* reaches a server does not mean that it is known by the server's address.  *)
ResolveOrigin(s) ==
    LET known == {i \in DOMAIN Addresses : Advertised[Addresses[i]] = s}
    IN  IF known = {} THEN s ELSE Addresses[Min(known)]

(* switchToRedirectTarget(), after the body was read.                        *)
SwitchToRedirectTarget(r) ==
    LET l == [req[r] EXCEPT !.answer = Null]
        hint == req[r].answer.hint
        follow == hint # Nobody /\ ResolveOrigin(hint) # currentOrigin
    IN  /\ At(r, "redirect")
        /\ \/ /\ follow
              /\ SwitchOrigin(ResolveOrigin(hint))
              /\ req' = [req EXCEPT ![r] = [l EXCEPT !.pc = "switched"]]
           \/ ~follow /\ l.phase = "initial" /\ InitialResult(r, l, Null)
           \/ ~follow /\ l.phase = "fallback" /\ FallbackResult(r, l, Null)
        /\ UNCHANGED <<clusterVars, calm, arrived>>

(* followMisdirected() goes on after its await, at the origin of now.        *)
FollowMisdirected(r) ==
    /\ At(r, "switched")
    /\ LET l == [req[r] EXCEPT !.phase = Redirected(@)]
       IN  req' = [req EXCEPT ![r] = TryApiReq(l, currentOrigin, token)]
    /\ UNCHANGED <<clientVars, clusterVars, calm, arrived>>

FaultyFallbackWins(l) == l.fallback # Null /\ l.result = Null

(* Whether the result of the fallback is the result of the request.          *)
FallbackWins(l) == l.fallback # Null /\ (l.result = Null \/ l.fallback.kind = "ok")

(* The end of apiReqOnce() after the fallback.                               *)
FellBack(r) ==
    LET l == req[r]
    IN  /\ At(r, "fellback")
        /\ \/ FallbackWins(l) /\ UNCHANGED clientVars
              /\ req' = [req EXCEPT ![r] = Leave([l EXCEPT !.result = l.fallback])]
           \/ /\ ~FallbackWins(l)
              /\ \/ l.result = Null /\ UNCHANGED clientVars
                 \/ l.result # Null /\ SwitchOrigin(l.start)
              /\ req' = [req EXCEPT ![r] = Leave(l)]
        /\ UNCHANGED <<clusterVars, calm, arrived>>

Settle(r) ==
    \/ ServeSignin(r) \/ Serve(r) \/ SignedIn(r) \/ Responded(r)
    \/ SwitchToRedirectTarget(r) \/ FollowMisdirected(r) \/ FellBack(r)
    \/ At(r, "wait") /\ ApiReqOnce(r)

HttpNext ==
    \/ \E r \in Requests : ApiReqOnce(r) \/ Settle(r)
    \/ Elect \/ Crash \/ Restart \/ Expire

HttpSpec == HttpInit /\ [][HttpNext]_httpVars

(* Every fetch settles, with an answer or a failure, and timers fire.        *)
HttpFairness == \A r \in Requests : WF_httpVars(Settle(r))

-----------------------------------------------------------------------------
(* A request that was alone, in a cluster that did not change and has a      *)
(* reachable primary, succeeds: from whatever origin and token, the token of *)
(* another server included, earlier requests that overlapped left behind.    *)
SettledRequestSucceeds ==
    \A r \in calm :
        At(r, "returned") /\ primary \in up /\ (\E o \in Configured : ServerAt[o] = primary)
            => req[r].result.kind = "ok"

(* An answer that arrived is final: the request is not sent to another       *)
(* origin after it, and it is what the caller gets.                          *)
AnswerIsFinal ==
    \A r \in Requests :
        /\ arrived[r] <= 1
        /\ At(r, "returned") => (req[r].result.kind = "ok" <=> arrived[r] = 1)

(* Every request returns: redirects, fallbacks and retries come to an end    *)
(* although other requests move the origin meanwhile.                        *)
RequestsReturn == \A r \in Requests : InProgress(r) ~> At(r, "returned")

=============================================================================
