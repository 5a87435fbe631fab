--------------------------- MODULE ServerManager ---------------------------
(***************************************************************************)
(* The routing of user operations to the servers of a cluster              *)
(* (rust/src/connection/server/server_manager.rs): the cache of replicas,  *)
(* the connections to them, the search for the primary and the retries     *)
(* after a failed attempt.  The operations of several user threads run     *)
(* concurrently over the two shared maps, each behind its own lock, and    *)
(* every await between two lock acquisitions is a step of its own.         *)
(*                                                                         *)
(* The cluster is external: servers crash and restart, a new primary is    *)
(* elected, and each server answers from its own, possibly old, view of    *)
(* who the primary is.                                                     *)
(***************************************************************************)
EXTENDS Integers, FiniteSets

CONSTANTS Servers,      \* the servers; also their private addresses
          Calls,        \* user operations, each issued at most once
          None,         \* no server
          Retries,      \* DriverOptions::primary_failover_retries
          MaxTerm,      \* bound: highest term of an election
          MaxFaults,    \* bound: crashes, and errors of servers that are up
          MaxActive,    \* bound: user threads, operations in progress at once
          Listings,     \* the sets of servers whose address a view may know
          Translated,   \* TRUE: the driver is configured with public addresses
          Standalone    \* TRUE: one server that reports no replication status

ASSUME ManagerConstants ==
    /\ None \notin Servers
    /\ Retries \in Nat
    /\ MaxTerm \in Nat \ {0}
    /\ MaxFaults \in Nat
    /\ MaxActive \in Nat \ {0}
    /\ Listings \subseteq SUBSET Servers
    /\ Translated \in BOOLEAN
    /\ Standalone \in BOOLEAN
    /\ Standalone => \E s \in Servers : Servers = {s}
    /\ IsFiniteSet(Calls)

VARIABLES
    \* The cluster
    alive,         \* alive[s]
    leader,        \* the server that accepts operations now
    term,          \* its term
    view,          \* view[s]: the replicas server s reports
    faults,        \* crashes, and errors of servers that are up, so far
    \* The ServerManager
    built,         \* ServerManager::new has returned Ok
    replicas,      \* the cache of replicas
    conns,         \* the private addresses with an entry in replica_connections
    \* The operations
    op             \* op[c]: the locals of operation c

cluster == <<alive, leader, term, view>>
shared  == <<built, replicas, conns>>
vars == <<cluster, faults, shared, op>>

Replica == [server : Servers, role : {"primary", "secondary", "none"}, term : 0..MaxTerm]

\* The locals of an operation that has not begun.
Idle == [pc         |-> "idle",    \* the next step
         kind       |-> "none",    \* "new", "task", "servers" or "direct"
         primary    |-> None,      \* the replica it is tried on
         attempt    |-> 0,         \* iterations of execute_strongly_consistent completed
         reply      |-> "none",    \* the result of the last attempt
         hint       |-> None,      \* the redirect that came with it
         listed     |-> {},        \* the replicas a servers_all request returned
         source     |-> {},        \* source_replicas of the search for the primary
         todo       |-> {},        \* those still to be polled in this round
         round      |-> 0,         \* rounds of seek_primary_replica_in completed
         polled     |-> None,      \* the replica being polled
         found      |-> None,      \* the primary read back from the cache
         snapshot   |-> {},        \* refresh_replica_connections: the replicas cloned
         missing    |-> {},        \* ... those it still has to connect to
         opened     |-> {},        \* ... those it connected to
         outcome    |-> "none",    \* what the caller got
         runs       |-> 0,         \* history: times a server ran the operation
         calm       |-> FALSE]     \* history: it began in a settled cluster, untouched since

-----------------------------------------------------------------------------
(* Reading a set of replicas.                                              *)

ServersOf(rs) == {r.server : r \in rs}

\* find_primary_replica!: the primary with the highest term.
FindPrimary(rs) ==
    LET primaries == {r \in rs : r.role = "primary"}
    IN  {r.server : r \in {p \in primaries : \A q \in primaries : q.term <= p.term}}

-----------------------------------------------------------------------------
(* The cluster (external).                                                 *)

\* What a server that knows everything reports; listed are the servers whose
\* address it knows, the others are Unavailable and filtered out on arrival.
CurrentView(listed) ==
    {[server |-> s,
      role   |-> IF Standalone THEN "none" ELSE IF s = leader THEN "primary" ELSE "secondary",
      term   |-> IF Standalone THEN 0 ELSE term] : s \in listed}

\* Every server that is up knows the primary and all the servers.
Settled ==
    /\ alive[leader]
    /\ \A s \in Servers : alive[s] => view[s] = CurrentView(Servers)

Disturb == op' = [c \in Calls |-> [op[c] EXCEPT !.calm = FALSE]]

\* The new primary knows its own role; its rows about the others are as before,
\* so that the old primary may still be listed, with its old term.
Elect(n) ==
    /\ ~Standalone
    /\ alive[n] /\ n # leader
    /\ term < MaxTerm
    /\ leader' = n
    /\ term' = term + 1
    /\ view' = [view EXCEPT ![n] = {r \in @ : r.server # n}
                    \cup {[server |-> n, role |-> "primary", term |-> term + 1]}]
    /\ Disturb
    /\ UNCHANGED <<alive, faults, shared>>

\* A server hears from the primary.
Learn(s) ==
    /\ alive[s]
    /\ \E listed \in Listings :
          /\ view[s] # CurrentView(listed)
          /\ view' = [view EXCEPT ![s] = CurrentView(listed)]
    /\ Disturb
    /\ UNCHANGED <<alive, leader, term, faults, shared>>

Crash(s) ==
    /\ alive[s]
    /\ faults < MaxFaults
    /\ alive' = [alive EXCEPT ![s] = FALSE]
    /\ faults' = faults + 1
    /\ Disturb
    /\ UNCHANGED <<leader, term, view, shared>>

Restart(s) ==
    /\ ~alive[s]
    /\ alive' = [alive EXCEPT ![s] = TRUE]
    /\ Disturb
    /\ UNCHANGED <<leader, term, view, faults, shared>>

-----------------------------------------------------------------------------
Init ==
    /\ alive = [s \in Servers |-> TRUE]
    /\ leader \in Servers
    /\ term = 1
    /\ view = [s \in Servers |-> CurrentView(Servers)]
    /\ faults = 0
    /\ built = FALSE
    /\ replicas = {}
    /\ conns = {}
    /\ op = [c \in Calls |-> Idle]

At(c, step) == op[c].pc = step

Goto(c, step) == op' = [op EXCEPT ![c].pc = step]

\* The operation returns; of its locals only the answer it got is kept.
Finish(c, result) ==
    op' = [op EXCEPT ![c] = [Idle EXCEPT !.pc = "done", !.kind = op[c].kind, !.reply = op[c].reply,
                                         !.runs = op[c].runs, !.calm = op[c].calm,
                                         !.outcome = result]]

\* Server s, although it is up, returns an error to operation c, whose locals
\* become o (history: it is not calm any more).
Misbehaves(c, s, o) ==
    /\ alive[s]
    /\ faults < MaxFaults
    /\ faults' = faults + 1
    /\ op' = [op EXCEPT ![c] = [o EXCEPT !.calm = FALSE]]

\* A connection error: the server is down, or it or the network misbehaves.
Unreached(c, s, o) ==
    \/ ~alive[s] /\ op' = [op EXCEPT ![c] = o] /\ UNCHANGED faults
    \/ Misbehaves(c, s, o)

-----------------------------------------------------------------------------
(* ServerManager::new.                                                     *)

\* The first configured address that answers provides the replicas.  Its
\* connection is stored under the configured address: the private address of
\* the server only when addresses are not translated.
New(c) ==
    /\ ~built
    /\ \A d \in Calls : At(d, "idle")
    /\ \E s \in Servers :
          /\ alive[s]
          /\ replicas' = view[s]
          /\ conns' = IF Translated THEN {} ELSE {s}
    /\ op' = [op EXCEPT ![c].pc = "snapshot", ![c].kind = "new"]
    /\ UNCHANGED <<cluster, faults, built>>

-----------------------------------------------------------------------------
(* execute, get_or_seek_primary_replica.                                   *)

Active == {c \in Calls : op[c].pc \notin {"idle", "done"}}

MayBegin(c) == built /\ At(c, "idle") /\ Cardinality(Active) < MaxActive

\* The only replica, without a replication status: not a cluster.
NotCluster == Cardinality(replicas) = 1 /\ \A r \in replicas : r.role = "none"

\* The replica an operation is first tried on without a search.
KnownPrimary ==
    IF FindPrimary(replicas) # {} THEN FindPrimary(replicas)
    ELSE IF NotCluster THEN ServersOf(replicas) ELSE {}

\* Some server of the cache is up (history: premise of SettledCallSucceeds).
CacheReaches == \E s \in ServersOf(replicas) : alive[s]

\* ServerRouting::Auto: the known primary, or else a search among the replicas.
Begin(c) ==
    /\ MayBegin(c)
    /\ \E k \in {"task", "servers"} :
          LET begun == [Idle EXCEPT !.kind = k, !.calm = Settled /\ CacheReaches]
          IN  \/ \E p \in KnownPrimary :
                    op' = [op EXCEPT ![c] = [begun EXCEPT !.pc = "lookup", !.primary = p]]
              \/ /\ KnownPrimary = {}
                 /\ op' = [op EXCEPT ![c] = [begun EXCEPT !.pc = "seek", !.source = ServersOf(replicas),
                                                          !.todo = ServersOf(replicas)]]
    /\ UNCHANGED <<cluster, faults, shared>>

\* ServerRouting::Direct: a server of the cache, tried once.
BeginDirect(c) ==
    /\ MayBegin(c)
    /\ \E s \in Servers :
          op' = [op EXCEPT ![c] =
                    IF s \in ServersOf(replicas)
                    THEN [Idle EXCEPT !.kind = "direct", !.pc = "lookup", !.primary = s]
                    ELSE [Idle EXCEPT !.kind = "direct", !.pc = "done", !.outcome = "unreachable"]]
    /\ UNCHANGED <<cluster, faults, shared>>

-----------------------------------------------------------------------------
(* execute_on.                                                             *)

Lookup(c) ==
    /\ At(c, "lookup")
    /\ Goto(c, IF op[c].primary \in conns THEN "task" ELSE "connect")
    /\ UNCHANGED <<cluster, faults, shared>>

\* record_new_replica_connection, or the error of ServerConnection::new: a
\* connection error, or another one from a server that refuses the connection.
Connect(c) ==
    LET p == op[c].primary
        o == [op[c] EXCEPT !.pc = "reply"]
    IN  /\ At(c, "connect")
        /\ \/ alive[p] /\ conns' = conns \cup {p} /\ Goto(c, "task") /\ UNCHANGED faults
           \/ Unreached(c, p, [o EXCEPT !.reply = "conn"]) /\ UNCHANGED conns
           \/ Misbehaves(c, p, [o EXCEPT !.reply = "failed"]) /\ UNCHANGED conns
        /\ UNCHANGED <<cluster, built, replicas>>

\* Any server answers servers_all; the other operations are for the primary.  A
\* direct operation is one or the other.
Accepts(c, s) == op[c].kind \in {"servers", "direct"} \/ s = leader

Refuses(c, s) == op[c].kind # "servers" /\ s # leader

\* The server (external) runs the operation and answers, with a result or with
\* an error that is not a connection error; or its answer is lost or too late
\* for request_timeout, which the driver sees as a connection error; or it is
\* not the primary, and may know who is; or the request does not reach it.
Task(c) ==
    LET s == op[c].primary
        o == [op[c] EXCEPT !.pc = "reply"]
        Reply(r) == op' = [op EXCEPT ![c] = r] /\ UNCHANGED faults
        ran == op[c].runs + 1
    IN  /\ At(c, "task")
        /\ \/ /\ alive[s] /\ Accepts(c, s)
              /\ \/ Reply([o EXCEPT !.runs = ran, !.reply = "ok",
                                    !.listed = IF o.kind = "servers" THEN view[s] ELSE {}])
                 \/ Reply([o EXCEPT !.runs = ran, !.reply = "failed"])
                 \/ Reply([o EXCEPT !.runs = ran, !.reply = "conn", !.calm = FALSE])
           \/ /\ alive[s] /\ Refuses(c, s)
              /\ \E hint \in {None} \cup (FindPrimary(view[s]) \ {s}) :
                    Reply([o EXCEPT !.reply = "notprimary", !.hint = hint])
           \/ Unreached(c, s, [o EXCEPT !.reply = "conn"])
        /\ UNCHANGED <<cluster, shared>>

-----------------------------------------------------------------------------
(* execute_strongly_consistent: what follows an attempt.                   *)

FaultyRetryable(reply) == reply # "ok"

\* The errors after which the loop goes on (Error::Connection).
Retryable(reply) == reply \in {"conn", "notprimary"}

\* The result of the task is the result of the call; that of servers() and
\* primary_server() is first written to the cache.
Answered(c) ==
    /\ At(c, "reply")
    /\ op[c].kind = "direct" \/ ~Retryable(op[c].reply)
    /\ IF op[c].kind = "servers" /\ op[c].reply = "ok"
       THEN Goto(c, "record")
       ELSE Finish(c, IF Retryable(op[c].reply) THEN "unreachable" ELSE op[c].reply)
    /\ UNCHANGED <<cluster, faults, shared>>

\* fetch_servers: the write to the cache after execute returned.
Record(c) ==
    /\ At(c, "record")
    /\ replicas' = op[c].listed
    /\ Finish(c, "ok")
    /\ UNCHANGED <<cluster, faults, built, conns>>

FaultyNextAttempt(c, p) ==
    op' = [op EXCEPT ![c].pc = "lookup", ![c].primary = p, ![c].reply = "none", ![c].hint = None]

\* The next iteration of the loop on replica p, or its end.
NextAttempt(c, p) ==
    IF op[c].attempt < Retries
    THEN op' = [op EXCEPT ![c] =
                   [op[c] EXCEPT !.pc = "lookup", !.primary = p, !.attempt = op[c].attempt + 1,
                                 !.reply = "none", !.hint = None, !.source = {}, !.todo = {},
                                 !.round = 0, !.polled = None, !.found = None]]
    ELSE Finish(c, "unreachable")

\* The redirect of a server that is not the primary to a replica of the cache.
Hinted(c) == op[c].reply = "notprimary" /\ op[c].hint \in ServersOf(replicas)

FollowHint(c) ==
    /\ At(c, "reply")
    /\ op[c].kind # "direct"
    /\ Hinted(c)
    /\ NextAttempt(c, op[c].hint)
    /\ UNCHANGED <<cluster, faults, shared>>

FaultyFailoverCandidates(c) ==
    {s \in ServersOf(replicas) : op[c].reply # "notprimary" => s = op[c].primary}

\* A server that answers may be asked who the primary is; a dead one may not.
FailoverCandidates(c) ==
    {s \in ServersOf(replicas) : op[c].reply # "notprimary" => s # op[c].primary}

SeekAfterFailure(c) ==
    /\ At(c, "reply")
    /\ op[c].kind # "direct"
    /\ Retryable(op[c].reply) /\ ~Hinted(c)
    /\ op' = [op EXCEPT ![c].pc = "seek", ![c].source = FailoverCandidates(c),
                        ![c].todo = FailoverCandidates(c)]
    /\ UNCHANGED <<cluster, faults, shared>>

-----------------------------------------------------------------------------
(* seek_primary_replica_in, execute_on_any, seek_primary_replica.          *)

\* The next replica, in the order of the hash set; its connection is looked up.
Poll(c) ==
    /\ At(c, "seek")
    /\ \E r \in op[c].todo :
          op' = [op EXCEPT ![c].pc = IF r \in conns THEN "fetch" ELSE "poll_connect",
                           ![c].polled = r, ![c].todo = @ \ {r}]
    /\ UNCHANGED <<cluster, faults, shared>>

\* After the wait for the selection of a primary, the candidates again.
AnotherRound(c) ==
    op' = [op EXCEPT ![c].pc = "seek", ![c].todo = op[c].source, ![c].round = @ + 1,
                     ![c].polled = None, ![c].found = None, ![c].snapshot = {}, ![c].opened = {}]

\* No replica of this round led to a primary.
RoundFailed(c) ==
    /\ At(c, "seek")
    /\ op[c].todo = {}
    /\ \/ op[c].round < Retries /\ AnotherRound(c)
       \/ op[c].round >= Retries /\ Finish(c, "unreachable")
    /\ UNCHANGED <<cluster, faults, shared>>

\* A connection error: the next replica is polled.  Any other error, which
\* only a server that is up returns, ends the round.
PollFails(c) ==
    LET o == [op[c] EXCEPT !.pc = "seek"]
    IN  \/ Unreached(c, op[c].polled, o)
        \/ Misbehaves(c, op[c].polled, [o EXCEPT !.todo = {}])

PollConnect(c) ==
    /\ At(c, "poll_connect")
    /\ \/ /\ alive[op[c].polled]
          /\ conns' = conns \cup {op[c].polled}
          /\ Goto(c, "fetch")
          /\ UNCHANGED faults
       \/ PollFails(c) /\ UNCHANGED conns
    /\ UNCHANGED <<cluster, built, replicas>>

\* servers_all on the polled replica: its view, or an error.
Fetch(c) ==
    /\ At(c, "fetch")
    /\ \/ /\ alive[op[c].polled]
          /\ op' = [op EXCEPT ![c].pc = "store", ![c].listed = view[op[c].polled]]
          /\ UNCHANGED faults
       \/ PollFails(c)
    /\ UNCHANGED <<cluster, shared>>

Store(c) ==
    /\ At(c, "store")
    /\ replicas' = op[c].listed
    /\ op' = [op EXCEPT ![c].pc = "read", ![c].listed = {}]
    /\ UNCHANGED <<cluster, faults, built, conns>>

\* The primary is read from the cache, which another operation may have
\* overwritten since; without one (NoPrimaryServer) the next replica is polled.
Read(c) ==
    /\ At(c, "read")
    /\ \/ \E p \in FindPrimary(replicas) : op' = [op EXCEPT ![c].pc = "snapshot", ![c].found = p]
       \/ FindPrimary(replicas) = {} /\ Goto(c, "seek")
    /\ UNCHANGED <<cluster, faults, shared>>

-----------------------------------------------------------------------------
(* refresh_replica_connections.                                            *)

\* The replicas are cloned, and those without a connection singled out.
RefreshBegin(c) ==
    /\ At(c, "snapshot")
    /\ op' = [op EXCEPT ![c].pc = "refresh", ![c].snapshot = ServersOf(replicas),
                        ![c].missing = ServersOf(replicas) \ conns]
    /\ UNCHANGED <<cluster, faults, shared>>

\* The errors of single connections are collected and the others tried.
RefreshConnect(c) ==
    /\ At(c, "refresh")
    /\ \E r \in op[c].missing :
          LET o == [op[c] EXCEPT !.missing = op[c].missing \ {r}]
          IN  \/ /\ alive[r]
                 /\ op' = [op EXCEPT ![c] = [o EXCEPT !.opened = op[c].opened \cup {r}]]
                 /\ UNCHANGED faults
              \/ Unreached(c, r, o)
    /\ UNCHANGED <<cluster, shared>>

\* Connections to servers outside the clone are dropped, the new ones added.
Refreshed(c) == (conns \cap op[c].snapshot) \cup op[c].opened

AtApply(c) == At(c, "refresh") /\ op[c].missing = {} /\ conns' = Refreshed(c)

\* The end of new(), which fails without any connection.
NewReturns(c) ==
    /\ AtApply(c)
    /\ op[c].kind = "new"
    /\ op' = [op EXCEPT ![c] = Idle]
    /\ built' = (Refreshed(c) # {})
    /\ UNCHANGED <<cluster, faults, replicas>>

\* Without any connection the search goes on with the next replica.
RefreshFails(c) ==
    /\ AtApply(c)
    /\ op[c].kind # "new"
    /\ Refreshed(c) = {}
    /\ op' = [op EXCEPT ![c].pc = "seek", ![c].snapshot = {}, ![c].opened = {}]
    /\ UNCHANGED <<cluster, faults, built, replicas>>

FaultyStillTheFailed(c) == op[c].found = op[c].primary

\* What the search found is the replica that just failed, and a round is left
\* in which another may have been elected.
StillTheFailed(c) == op[c].found = op[c].primary /\ op[c].round < Retries

\* The search is over: what it found is tried next.
SeekReturns(c) ==
    /\ AtApply(c)
    /\ op[c].kind # "new"
    /\ Refreshed(c) # {}
    /\ IF StillTheFailed(c) THEN AnotherRound(c)
       ELSE IF op[c].primary = None
       THEN op' = [op EXCEPT ![c] = [Idle EXCEPT !.pc = "lookup", !.kind = op[c].kind,
                                                 !.primary = op[c].found, !.calm = op[c].calm]]
       ELSE NextAttempt(c, op[c].found)
    /\ UNCHANGED <<cluster, faults, built, replicas>>

-----------------------------------------------------------------------------
\* The steps of an operation that has begun.
Step(c) ==
    \/ Lookup(c) \/ Connect(c) \/ Task(c)
    \/ Answered(c) \/ Record(c) \/ FollowHint(c) \/ SeekAfterFailure(c)
    \/ Poll(c) \/ RoundFailed(c) \/ PollConnect(c) \/ Fetch(c) \/ Store(c) \/ Read(c)
    \/ RefreshBegin(c) \/ RefreshConnect(c) \/ NewReturns(c) \/ RefreshFails(c) \/ SeekReturns(c)

Environment == \E s \in Servers : Elect(s) \/ Learn(s) \/ Crash(s) \/ Restart(s)

Next ==
    \/ \E c \in Calls : New(c) \/ Begin(c) \/ BeginDirect(c) \/ Step(c)
    \/ Environment

Spec == Init /\ [][Next]_vars

\* Operations that have begun go on: the threads are scheduled, and a request
\* to a server ends in an answer, an error or the request timeout.
FairSpec == Spec /\ \A c \in Calls : WF_vars(Step(c))

-----------------------------------------------------------------------------
(* Properties.                                                             *)

Steps == {"idle", "lookup", "connect", "task", "reply", "record", "seek", "poll_connect", "fetch",
          "store", "read", "snapshot", "refresh", "done"}
Kinds == {"none", "new", "task", "servers", "direct"}
Replies == {"none", "ok", "failed", "conn", "notprimary"}
Outcomes == {"none", "ok", "failed", "unreachable"}
MaybeServer == Servers \cup {None}
Tries == 0..Retries
Lists == SUBSET Replica
Groups == SUBSET Servers

\* The locals of an operation.
Locals ==
    [pc : Steps, kind : Kinds, primary : MaybeServer, attempt : Tries, reply : Replies,
     hint : MaybeServer, listed : Lists, source : Groups, todo : Groups, round : Tries,
     polled : MaybeServer, found : MaybeServer, snapshot : Groups, missing : Groups,
     opened : Groups, outcome : Outcomes, runs : Nat, calm : BOOLEAN]

\* Every variable has its type; the loops of the retries and of the search stay
\* within primary_failover_retries.
TypeOK ==
    /\ alive \in [Servers -> BOOLEAN] /\ leader \in Servers /\ term \in 1..MaxTerm
    /\ view \in [Servers -> SUBSET Replica] /\ faults \in 0..MaxFaults
    /\ built \in BOOLEAN /\ replicas \subseteq Replica /\ conns \subseteq Servers
    /\ op \in [Calls -> Locals]

\* The call contract of execute (driver_options.rs: "Total attempts per user
\* request = N + 1"): an operation is run again only when the answer of its
\* last run was lost, at most Retries + 1 times in all, and the caller gets the
\* answer that arrived, whatever other operations do to the shared maps.
Contract == INSTANCE ServerCall WITH
    runs    <- [c \in Calls |-> op[c].runs],
    answer  <- [c \in Calls |-> IF op[c].reply \in {"ok", "failed"} THEN op[c].reply ELSE "none"],
    outcome <- [c \in Calls |-> op[c].outcome]
CallsKept == Contract!Spec

\* Failover works: an operation that begins when every live server agrees on a
\* live primary, and during which nothing happens to the cluster, does not end
\* "unreachable" if one retry is allowed, however outdated the cache is, as
\* long as one server in it is up.  It needs the candidates, the hint, the terms
\* and the retry budget of execute_strongly_consistent to work together.
SettledCallSucceeds ==
    \A c \in Calls :
        At(c, "done") /\ op[c].calm /\ op[c].kind \in {"task", "servers"} /\ Retries > 0
            => op[c].outcome # "unreachable"

\* Every operation returns: the nested loops of search and retries in
\* execute_strongly_consistent and seek_primary_replica_in end whatever the
\* servers answer and whenever they crash, come back or elect another primary.
CallsReturn == \A c \in Calls : (c \in Active) ~> (c \notin Active)

=============================================================================
