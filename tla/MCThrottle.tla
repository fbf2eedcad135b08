----------------------------- MODULE MCThrottle -----------------------------
(* The rate limits by themselves, for the votes of a client.               *)
EXTENDS Throttle

CONSTANT MaxRequests   \* bound: requests to the views of a scope at one time

MCRates == [auth |-> 1, sync |-> 1, vote |-> 2]

Request(p, v, i) ==
    /\ accepted[<<Declared[v], i>>][now] < MaxRequests
    /\ Admit(p, v, i) \/ Refuse(p, v, i)

Next ==
    \/ \E p \in Process, i \in Ident, v \in {"vote", "trigger"} : Request(p, v, i)
    \/ \E p \in Process : Replace(p)
    \/ Tick

Spec == GateInit /\ [][Next]_gate

\* "vote": "60/min" in DEFAULT_THROTTLE_RATES: votes are limited, at least by
\* each process.
VotesAreLimited == LimitHolds("vote")
=============================================================================
