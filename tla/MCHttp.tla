------------------------------- MODULE MCHttp -------------------------------
(* An instance of HttpDriver with two servers. Requests overlap in a cluster *)
(* that does not change, or come one by one in a cluster that does.          *)
EXTENDS HttpDriver, TLC

CONSTANTS s1, s2, r1, r2, r3
VARIABLE faulty   \* whether this behaviour is one with faults

TwoServers == {s1, s2}
TwoAddresses == <<"o1", "o2">>
AtTwo == "o1" :> s1 @@ "o2" :> s2 @@ s1 :> s1 @@ s2 :> s2

AdvertisedTwo == AtTwo   \* each server is known by the origin that reaches it

Alone(r) == \A q \in Requests \ {r} : ~InProgress(q)

(* Requests are interchangeable: r1 comes first, and r3 last.                *)
InOrder ==
    \A before \in {<<r1, r2>>, <<r2, r3>>} : At(before[1], "idle") => At(before[2], "idle")

(* Two requests overlap and a third comes when both are over.                *)
Overlapping == UNCHANGED faults /\ (InProgress(r3) => Alone(r3))'

(* Two requests come one after the other.                                    *)
OneByOne == (\A r \in Requests : InProgress(r) => r # r3 /\ Alone(r))'

Init == HttpInit /\ faulty \in BOOLEAN
Next ==
    /\ HttpNext /\ InOrder'
    /\ UNCHANGED faulty
    /\ \/ faulty /\ OneByOne
       \/ ~faulty /\ Overlapping

vars == <<httpVars, faulty>>
FairSpec == Init /\ [][Next]_vars /\ HttpFairness

=============================================================================
