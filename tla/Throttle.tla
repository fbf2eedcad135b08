------------------------------ MODULE Throttle ------------------------------
(***************************************************************************)
(* The rate limits: ScopedRateThrottle (external) under the settings and    *)
(* the views of this project.  There is no CACHES setting, so that each     *)
(* gunicorn process keeps its counters in its own memory.  A process        *)
(* handles one request at a time, so that a check is atomic.                *)
(*                                                                         *)
(* Time is counted in ticks; a window ("min") is Window of them.  An Ident  *)
(* is what the throttle tells clients apart by: the account, or else the    *)
(* address.  The cull of a cache with more than 300 entries, which can only *)
(* allow more, is left out.                                                 *)
(*                                                                         *)
(* This module has the operations; Accounts and MCThrottle put them to use. *)
(***************************************************************************)
EXTENDS Integers, FiniteSetsExt, Functions

CONSTANTS
    Process,   \* gunicorn workers
    Ident,     \* clients, as the throttle sees them
    Rates,     \* DEFAULT_THROTTLE_RATES: requests in a window, for each scope
    Window,    \* ticks in a window
    MaxNow,    \* bound: the last tick
    MaxKills   \* bound: workers that gunicorn replaces

ASSUME ThrottleAssumption ==
    /\ IsFiniteSet(Process)
    /\ Window \in Nat \ {0}
    /\ MaxNow \in Nat
    /\ MaxKills \in Nat
    /\ \A scope \in DOMAIN Rates : Rates[scope] \in Nat

VARIABLES
    now,       \* the time
    hits,      \* the caches: how many recent requests there were at each time
    kills,     \* workers replaced so far
    accepted   \* history: requests let through, by scope, client and time

gate == <<now, hits, kills, accepted>>

NoScope == "none"

\* throttle_scope, as the views and the vote action write it.
Declared == [register |-> "auth", login |-> "auth", refresh |-> NoScope,
             me |-> NoScope, trigger |-> "sync", vote |-> "vote"]

\* getattr(view, "throttle_scope", None).  For the vote action it was set on
\* the function, which the view object does not have it from.
ScopeOf == [Declared EXCEPT !.vote = NoScope]

Scope  == DOMAIN Rates
Bucket == Process \X Scope \X Ident
Time   == 0 .. MaxNow

GateTypeOK ==
    /\ now \in Time
    /\ hits \in [Bucket -> [Time -> Nat]]
    /\ kills \in 0 .. MaxKills
    /\ accepted \in [Scope \X Ident -> [Time -> Nat]]

GateInit ==
    /\ now = 0
    /\ hits = [b \in Bucket |-> [t \in Time |-> 0]]
    /\ kills = 0
    /\ accepted = [k \in Scope \X Ident |-> [t \in Time |-> 0]]

-----------------------------------------------------------------------------
\* Bug: times are dropped one tick early.
RecentBug(times) == [t \in Time |-> IF t > now - Window + 1 THEN times[t] ELSE 0]

\* What is left of a history after times of an earlier window are popped.
Recent(times) == [t \in Time |-> IF t > now - Window THEN times[t] ELSE 0]

\* A history with one more request, made now.
Counted(times) == [times EXCEPT ![now] = @ + 1]

Scoped(view)      == ScopeOf[view] # NoScope
BucketOf(p, v, i) == <<p, ScopeOf[v], i>>

Allows(p, v, i) ==
    Scoped(v) => SumFunction(Recent(hits[BucketOf(p, v, i)])) < Rates[ScopeOf[v]]

\* allow_request returns True: the request counts, whatever becomes of it.
Admit(p, v, i) ==
    /\ Allows(p, v, i)
    /\ hits' = IF Scoped(v)
               THEN [hits EXCEPT ![BucketOf(p, v, i)] = Counted(Recent(@))]
               ELSE hits
    /\ accepted' = IF Declared[v] # NoScope
                   THEN [accepted EXCEPT ![<<Declared[v], i>>] = Counted(@)]
                   ELSE accepted
    /\ UNCHANGED <<now, kills>>

\* It returns False: the refused request does not count.
Refuse(p, v, i) ==
    /\ ~ Allows(p, v, i)
    /\ UNCHANGED gate

\* gunicorn replaces a process, whose cache is gone.
Replace(p) ==
    /\ kills < MaxKills
    /\ kills' = kills + 1
    /\ hits' = [b \in Bucket |-> IF b[1] = p THEN [t \in Time |-> 0] ELSE hits[b]]
    /\ UNCHANGED <<now, accepted>>

Tick ==
    /\ now < MaxNow
    /\ now' = now + 1
    /\ UNCHANGED <<hits, kills, accepted>>

-----------------------------------------------------------------------------
\* What a history has in the window that ends at `end`.
Within(times, end) == [t \in Time |-> IF end - Window < t /\ t <= end THEN times[t] ELSE 0]

AcceptedInWindow(scope, i, end) == SumFunction(Within(accepted[<<scope, i>>], end))

\* In no window are more requests let through than the rate allows, times
\* the number of caches: the processes and those that replaced them.  All
\* views of a scope share the limit.
LimitHolds(scope) ==
    \A i \in Ident, end \in Time :
        AcceptedInWindow(scope, i, end) <= Rates[scope] * (Cardinality(Process) + kills)

-----------------------------------------------------------------------------
(***************************************************************************)
(* What LimitHolds is inductive with.  A window that is not over yet has    *)
(* what the caches remember of it, and what those of replaced processes     *)
(* did; none of them remembers more than the rate allows.                   *)
(***************************************************************************)
Remembered(p, scope, i, end) == SumFunction(Within(hits[<<p, scope, i>>], end))

OpenWindows(scope) ==
    \A i \in Ident, end \in now .. MaxNow :
        /\ \A p \in Process : Remembered(p, scope, i, end) <= Rates[scope]
        /\ AcceptedInWindow(scope, i, end) <=
               SumFunction([p \in Process |-> Remembered(p, scope, i, end)])
                   + Rates[scope] * kills

GateKept(scope) == GateTypeOK /\ OpenWindows(scope) /\ LimitHolds(scope)
=============================================================================
