----------------------------- MODULE VoteLedger -----------------------------
(***************************************************************************)
(* What the vote endpoint promises, without tables, identifiers and         *)
(* statements: a ledger of (user, item) pairs that each accepted request    *)
(* toggles in one step.                                                     *)
(*                                                                         *)
(* The one concession to concurrency is Miss: a request that set out to     *)
(* un-vote may find its entry already withdrawn, and then reports an        *)
(* un-vote without a withdrawal.  It needs a reason: the entry was removed  *)
(* under the request, or the account is gone.                               *)
(***************************************************************************)
EXTENDS Integers

CONSTANTS User, ContentType, Request, MaxPk

VARIABLES
    members,   \* accounts
    ledger,    \* the (user, item) pairs that stand
    key,       \* the pair a request is about
    phase,     \* how far a request is, and what came of it
    undercut   \* its pair was removed by another while the request was open

lvars == <<members, ledger, key, phase, undercut>>

Pair == User \X (ContentType \X (1 .. MaxPk))

LedgerInit ==
    /\ members = User
    /\ ledger = {}
    /\ key \in [Request -> Pair]
    /\ phase = [r \in Request |-> "idle"]
    /\ undercut = [r \in Request |-> FALSE]

Move(r, from, to) ==
    /\ phase[r] = from
    /\ phase' = [phase EXCEPT ![r] = to]

\* The pairs K are struck out, and only requests open about one of them may
\* learn of it.
Strike(K, by) ==
    /\ ledger' = ledger \ K
    /\ \A r \in Request :
          undercut'[r] # undercut[r] =>
              /\ undercut'[r]
              /\ r \notin by
              /\ phase[r] = "open"
              /\ key[r] \in K \cap ledger
    /\ undercut' \in [Request -> BOOLEAN]

Open(r) ==
    /\ Move(r, "idle", "open")
    /\ key[r][1] \in members
    /\ UNCHANGED <<members, ledger, key, undercut>>

\* Refused without a trace: 401, 404, or a worker killed before it wrote.
Refuse(r) ==
    /\ Move(r, "idle", "refused") \/ Move(r, "open", "refused")
    /\ UNCHANGED <<members, ledger, key, undercut>>

Cast(r) ==
    /\ Move(r, "open", "cast")
    /\ key[r] \notin ledger
    /\ key[r][1] \in members
    /\ ledger' = ledger \cup {key[r]}
    /\ UNCHANGED <<members, key, undercut>>

Withdraw(r) ==
    /\ Move(r, "open", "withdrawn")
    /\ key[r] \in ledger
    /\ Strike({key[r]}, {r})
    /\ UNCHANGED <<members, key>>

Miss(r) ==
    /\ Move(r, "open", "missed")
    /\ undercut[r] \/ key[r][1] \notin members
    /\ UNCHANGED <<members, ledger, key, undercut>>

\* An administrator strikes out an entry, or closes an account.
Purge(k) ==
    /\ k \in ledger
    /\ Strike({k}, {})
    /\ UNCHANGED <<members, key, phase>>

Leave(u) ==
    /\ u \in members
    /\ members' = members \ {u}
    /\ Strike({k \in ledger : k[1] = u}, {})
    /\ UNCHANGED <<key, phase>>

LedgerNext ==
    \/ \E r \in Request :
          Open(r) \/ Refuse(r) \/ Cast(r) \/ Withdraw(r) \/ Miss(r)
    \/ \E k \in ledger : Purge(k)
    \/ \E u \in members : Leave(u)

Spec == LedgerInit /\ [][LedgerNext]_lvars
=============================================================================
