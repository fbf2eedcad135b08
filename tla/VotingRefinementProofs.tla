----------------------- MODULE VotingRefinementProofs -----------------------
(***************************************************************************)
(* The vote endpoint implements VoteLedger: every statement of the handler *)
(* and every act of the administrator is one step of the ledger, or none.  *)
(***************************************************************************)
EXTENDS VotingProofs

LEMMA InitRefines == Init => Ledger!LedgerInit
<1> SUFFICES ASSUME Init PROVE Ledger!LedgerInit
  OBVIOUS
<1>1. Pairs = {}
  BY DEF Init, Pairs
<1>2. [r \in Request |-> Phase(r)] = [r \in Request |-> "idle"]
  <2>1. \A r \in Request : result[r] = "none" /\ pc[r] = "start"
    BY DEF Init
  <2>2. \A r \in Request : Phase(r) = "idle"
    BY <2>1 DEF Phase, Writing
  <2>3. QED
    BY <2>2
<1>3. [r \in Request |-> Key(r)] \in [Request -> Ledger!Pair]
  BY DEF Init, Key, Ledger!Pair, Item
<1>4. QED
  BY <1>1, <1>2, <1>3 DEF Init, Ledger!LedgerInit

\* A step of one request moves its phase and no other.
LEMMA PhaseMoves ==
    ASSUME NEW r \in Request, NEW from, NEW to,
           \A s \in Request \ {r} :
              pc'[s] = pc[s] /\ result'[s] = result[s] /\ net'[s] = net[s],
           Phase(r) = from, Phase(r)' = to
    PROVE  Ledger!Move(r, from, to)
<1>1. \A s \in Request \ {r} : Phase(s)' = Phase(s)
  BY DEF Phase
<1>2. QED
  BY <1>1 DEF Ledger!Move

LEMMA AuthenticateRefines ==
    ASSUME IInv, NEW r \in Request, Authenticate(r)
    PROVE  Ledger!Open(r) \/ Ledger!Refuse(r)
<1>1. UNCHANGED <<users, votes, caller, target, result, net, undercut>>
  BY DEF Authenticate, database, fixed, history
<1>2. /\ \A s \in Request \ {r} : pc'[s] = pc[s]
      /\ pc[r] = "start"
      /\ \/ pc'[r] = "get" /\ caller[r] \in users
         \/ pc'[r] = "done"
  BY DEF IInv, TypeOK, Authenticate, GoTo, Respond
<1>3. result[r] = "none"
  BY <1>2 DEF IInv, ResultsAreEarned
<1>4. /\ Phase(r) = "idle"
      /\ \/ Phase(r)' = "open" /\ caller[r] \in users
         \/ Phase(r)' = "refused"
  BY <1>1, <1>2, <1>3 DEF Phase, Writing
<1>5. \/ Ledger!Move(r, "idle", "open") /\ caller[r] \in users
      \/ Ledger!Move(r, "idle", "refused")
  BY <1>1, <1>2, <1>4, PhaseMoves
<1>6. UNCHANGED <<users, Pairs, [s \in Request |-> Key(s)], undercut>>
  BY <1>1 DEF Pairs, Key
<1>7. QED
  BY <1>5, <1>6 DEF Ledger!Open, Ledger!Refuse, Key

LEMMA GetObjectRefines ==
    ASSUME IInv, NEW r \in Request, GetObject(r)
    PROVE  Ledger!Refuse(r) \/ UNCHANGED Ledger!lvars
<1>1. UNCHANGED <<users, votes, caller, target, result, net, undercut>>
  BY DEF GetObject, database, fixed, history
<1>2. /\ \A s \in Request \ {r} : pc'[s] = pc[s]
      /\ pc[r] = "get"
      /\ pc'[r] \in {"find", "done"}
  BY DEF IInv, TypeOK, GetObject, GoTo, Respond
<1>3. result[r] = "none"
  BY <1>2 DEF IInv, ResultsAreEarned
<1>4. Phase(r) = "open" /\ Phase(r)' \in {"open", "refused"}
  BY <1>1, <1>2, <1>3 DEF Phase, Writing
<1>5. Ledger!Move(r, "open", Phase(r)')
  BY <1>1, <1>2, <1>4, PhaseMoves
<1>6. UNCHANGED <<users, Pairs, [s \in Request |-> Key(s)], undercut>>
  BY <1>1 DEF Pairs, Key
<1>7. QED
  BY <1>4, <1>5, <1>6 DEF Ledger!Refuse, Ledger!lvars, Ledger!Move

\* A step that changes no row and leaves the phases of all requests as they
\* were is invisible.
LEMMA Invisible ==
    ASSUME UNCHANGED <<users, votes, caller, target, undercut>>,
           \A s \in Request : Phase(s)' = Phase(s)
    PROVE  UNCHANGED Ledger!lvars
<1>1. UNCHANGED <<Pairs, [s \in Request |-> Key(s)],
                  [s \in Request |-> Phase(s)]>>
  BY DEF Pairs, Key
<1>2. QED
  BY <1>1 DEF Ledger!lvars

LEMMA FindExistingRefines ==
    ASSUME IInv, NEW r \in Request, FindExisting(r)
    PROVE  UNCHANGED Ledger!lvars
<1>1. UNCHANGED <<users, votes, caller, target, result, net, undercut>>
  BY DEF FindExisting, database, fixed, history
<1>2. /\ \A s \in Request \ {r} : pc'[s] = pc[s]
      /\ pc[r] = "find"
      /\ pc'[r] \in {"delete", "create"}
  BY DEF IInv, TypeOK, FindExisting, GoTo
<1>3. \A s \in Request : Phase(s)' = Phase(s)
  BY <1>1, <1>2 DEF Phase, Writing
<1>4. QED
  BY <1>1, <1>3, Invisible

LEMMA CreateVoteRefines ==
    ASSUME IInv, NEW r \in Request, CreateVote(r)
    PROVE  Ledger!Cast(r) \/ UNCHANGED Ledger!lvars
<1>1. /\ UNCHANGED <<users, caller, target, undercut>>
      /\ pc[r] = "create"
      /\ \A s \in Request \ {r} :
            pc'[s] = pc[s] /\ result'[s] = result[s] /\ net'[s] = net[s]
  BY DEF IInv, TypeOK, CreateVote, CatchIntegrityError, Return, GoTo, fixed
<1>2. result[r] = "none" /\ Phase(r) = "open"
  BY <1>1 DEF IInv, ResultsAreEarned, Phase, Writing
<1>3. CASE MayInsert(caller[r], target[r])
  <2>1. /\ votes' = votes \cup
               {[id |-> nextVote, user |-> caller[r], item |-> target[r]]}
        /\ result'[r] = "created"
    BY <1>3 DEF IInv, TypeOK, CreateVote, Return
  <2>2. Pairs' = Pairs \cup {Key(r)}
    <3> DEFINE new == [id |-> nextVote, user |-> caller[r], item |-> target[r]]
    <3>1. <<new.user, new.item>> = Key(r)
      BY DEF Key
    <3>2. votes' = votes \cup {new}
      BY <2>1
    <3> HIDE DEF new
    <3>3. QED
      BY <3>1, <3>2 DEF Pairs
  <2>3. Key(r) \notin Pairs /\ caller[r] \in users
    BY <1>3 DEF MayInsert, VotesOf, Pairs, Key
  <2>4. Phase(r)' = "cast"
    BY <2>1 DEF Phase
  <2>5. Ledger!Move(r, "open", "cast")
    BY <1>1, <1>2, <2>4, PhaseMoves
  <2>6. UNCHANGED <<users, [s \in Request |-> Key(s)], undercut>>
    BY <1>1 DEF Key
  <2>7. QED
    BY <2>2, <2>3, <2>5, <2>6 DEF Ledger!Cast, Key
<1>4. CASE ~ MayInsert(caller[r], target[r])
  <2>1. UNCHANGED <<votes, result, net>> /\ pc'[r] = "recover"
    BY <1>4 DEF IInv, TypeOK, CreateVote, CatchIntegrityError, GoTo
  <2>2. \A s \in Request : Phase(s)' = Phase(s)
    BY <1>1, <2>1 DEF Phase, Writing
  <2>3. QED
    BY <1>1, <2>1, <2>2, Invisible
<1>5. QED
  BY <1>3, <1>4

LEMMA RefetchRefines ==
    ASSUME IInv, NEW r \in Request, Refetch(r)
    PROVE  UNCHANGED Ledger!lvars
<1>1. UNCHANGED <<users, votes, caller, target, result, net, undercut>>
  BY DEF Refetch, database, fixed, history
<1>2. /\ \A s \in Request \ {r} : pc'[s] = pc[s]
      /\ pc[r] = "refetch"
      /\ result[r] \in {"created", "removed"}
  BY DEF IInv, TypeOK, ResultsAreEarned, Refetch, GoTo, Respond
<1>3. \A s \in Request : Phase(s)' = Phase(s)
  BY <1>1, <1>2 DEF Phase
<1>4. QED
  BY <1>1, <1>3, Invisible

LEMMA KillWorkerRefines ==
    ASSUME IInv, NEW r \in Request, KillWorker(r)
    PROVE  Ledger!Refuse(r) \/ UNCHANGED Ledger!lvars
<1>1. UNCHANGED <<users, votes, caller, target, result, net, undercut>>
  BY DEF KillWorker, database, fixed, history
<1>2. /\ \A s \in Request \ {r} : pc'[s] = pc[s]
      /\ pc[r] \in Running
      /\ pc'[r] = "lost"
  BY DEF IInv, TypeOK, KillWorker, GoTo
<1>3. CASE result[r] = "none"
  <2>1. pc[r] # "refetch"
    BY <1>3 DEF IInv, ResultsAreEarned
  <2>2. Phase(r) = "open" /\ Phase(r)' = "refused"
    BY <1>1, <1>2, <1>3, <2>1 DEF Phase, Running, Writing
  <2>3. Ledger!Move(r, "open", "refused")
    BY <1>1, <1>2, <2>2, PhaseMoves
  <2>4. UNCHANGED <<users, Pairs, [s \in Request |-> Key(s)], undercut>>
    BY <1>1 DEF Pairs, Key
  <2>5. QED
    BY <2>3, <2>4 DEF Ledger!Refuse
<1>4. CASE result[r] # "none"
  <2>1. result[r] \in {"created", "removed"}
    BY <1>4 DEF IInv, TypeOK
  <2>2. \A s \in Request : Phase(s)' = Phase(s)
    BY <1>1, <1>2, <2>1 DEF Phase
  <2>3. QED
    BY <1>1, <2>2, Invisible
<1>5. QED
  BY <1>3, <1>4

-----------------------------------------------------------------------------
\* A table has one row per pair, so removing rows strikes out exactly their
\* pairs, and only requests open about one of them are undercut.
LEMMA RemoveStrikes ==
    ASSUME IInv, NEW D \in SUBSET votes, NEW by, Remove(D, by),
           UNCHANGED <<caller, target>>
    PROVE  Ledger!Strike({<<v.user, v.item>> : v \in D}, by)
<1> DEFINE K == {<<v.user, v.item>> : v \in D}
<1>1. Pairs' = Pairs \ K
  <2>1. votes' = votes \ D
    BY DEF Remove
  <2>2. \A v \in votes, w \in D : v.user = w.user /\ v.item = w.item => v \in D
    BY DEF IInv, OneVotePerUserPerItem
  <2>3. QED
    BY <2>1, <2>2 DEF Pairs
<1>2. ASSUME NEW s \in Request, undercut'[s] # undercut[s]
      PROVE  /\ undercut'[s]
             /\ s \notin by
             /\ Phase(s) = "open"
             /\ Key(s) \in K \cap Pairs
  <2>1. /\ undercut'[s] /\ s \notin by /\ pc[s] \in Writing
        /\ \E v \in D : v.user = caller[s] /\ v.item = target[s]
    <3>1. undercut'[s] = \/ undercut[s]
                         \/ /\ s \notin by
                            /\ pc[s] \in Writing
                            /\ VotesOf(caller[s], target[s]) \cap D # {}
      BY DEF Remove
    <3>2. undercut[s] \in BOOLEAN
      BY DEF IInv, TypeOK
    <3>3. /\ undercut'[s]
          /\ s \notin by
          /\ pc[s] \in Writing
          /\ VotesOf(caller[s], target[s]) \cap D # {}
      BY <1>2, <3>1, <3>2, Zenon
    <3>4. QED
      BY <3>3 DEF VotesOf
  <2>2. Phase(s) = "open"
    BY <2>1 DEF IInv, ResultsAreEarned, Phase, Writing
  <2>3. QED
    BY <2>1, <2>2 DEF Key, Pairs
<1>3. undercut' \in [Request -> BOOLEAN]
  BY RemoveEffect
<1>4. QED
  BY <1>1, <1>2, <1>3 DEF Ledger!Strike

LEMMA UnvotesByRefines ==
    ASSUME IInv, NEW r \in Request, NEW D, UnvotesBy(r, D),
           D \subseteq VotesOf(caller[r], target[r])
    PROVE  Ledger!Withdraw(r) \/ Ledger!Miss(r)
<1>1. /\ UNCHANGED <<users, caller, target>>
      /\ pc[r] \in {"delete", "recover"}
      /\ result'[r] = "removed"
      /\ net'[r] = IF D = {} THEN 0 ELSE -1
      /\ \A s \in Request \ {r} :
            pc'[s] = pc[s] /\ result'[s] = result[s] /\ net'[s] = net[s]
  BY DEF IInv, TypeOK, UnvotesBy, Return, GoTo
<1>2. Phase(r) = "open"
  BY <1>1 DEF IInv, ResultsAreEarned, Phase, Writing
<1>3. UNCHANGED [s \in Request |-> Key(s)]
  BY <1>1 DEF Key
<1>4. D \in SUBSET votes /\ Remove(D, {r})
  BY DEF UnvotesBy, VotesOf
<1>5. CASE D # {}
  <2>1. Phase(r)' = "withdrawn"
    BY <1>1, <1>5 DEF Phase
  <2>2. Ledger!Move(r, "open", "withdrawn")
    BY <1>1, <1>2, <2>1, PhaseMoves
  <2>3. {<<v.user, v.item>> : v \in D} = {Key(r)}
    BY <1>5 DEF VotesOf, Key
  <2>4. Key(r) \in Pairs
    BY <1>5 DEF VotesOf, Key, Pairs
  <2>5. Ledger!Strike({Key(r)}, {r})
    BY <1>1, <1>4, <2>3, RemoveStrikes
  <2>6. QED
    BY <1>1, <1>3, <2>2, <2>4, <2>5 DEF Ledger!Withdraw
<1>6. CASE D = {}
  <2>1. Phase(r)' = "missed"
    BY <1>1, <1>6 DEF Phase
  <2>2. Ledger!Move(r, "open", "missed")
    BY <1>1, <1>2, <2>1, PhaseMoves
  <2>3. undercut[r] \/ caller[r] \notin users
    BY <1>6 DEF UnvotesBy
  <2>4. votes' = votes /\ UNCHANGED undercut
    BY <1>6 DEF IInv, TypeOK, UnvotesBy, Remove
  <2>5. UNCHANGED Pairs
    BY <2>4 DEF Pairs
  <2>6. QED
    BY <1>1, <1>3, <2>2, <2>3, <2>4, <2>5 DEF Ledger!Miss, Key
<1>7. QED
  BY <1>5, <1>6

LEMMA DeleteExistingRefines ==
    ASSUME IInv, NEW r \in Request, DeleteExisting(r)
    PROVE  Ledger!Withdraw(r) \/ Ledger!Miss(r)
<1>1. UnvotesBy(r, {v \in votes : v.id = seen[r]})
  BY DEF IInv, SeenIsOwn, DeleteExisting, UnvotesBy, fixed
<1>2. {v \in votes : v.id = seen[r]} \subseteq VotesOf(caller[r], target[r])
  BY DEF IInv, SeenIsOwn, DeleteExisting
<1>3. QED
  BY <1>1, <1>2, UnvotesByRefines

LEMMA DeleteConcurrentRefines ==
    ASSUME IInv, NEW r \in Request, DeleteConcurrent(r)
    PROVE  Ledger!Withdraw(r) \/ Ledger!Miss(r)
<1>1. UnvotesBy(r, VotesOf(caller[r], target[r]))
  BY DEF IInv, RivalStands, DeleteConcurrent, UnvotesBy, fixed
<1>2. QED
  BY <1>1, UnvotesByRefines

LEMMA HandleRefines ==
    ASSUME IInv, NEW r \in Request, Handle(r)
    PROVE  Ledger!LedgerNext \/ UNCHANGED Ledger!lvars
BY AuthenticateRefines, GetObjectRefines, FindExistingRefines,
   DeleteExistingRefines, CreateVoteRefines, DeleteConcurrentRefines,
   RefetchRefines DEF Handle, Ledger!LedgerNext

LEMMA EnvironmentRefines ==
    ASSUME IInv, Environment
    PROVE  Ledger!LedgerNext \/ UNCHANGED Ledger!lvars
<1>1. ASSUME NEW r \in Request, KillWorker(r)
      PROVE  Ledger!LedgerNext \/ UNCHANGED Ledger!lvars
  BY <1>1, KillWorkerRefines DEF Ledger!LedgerNext
<1>2. ASSUME NEW ct \in ContentType, InsertItem(ct)
      PROVE  UNCHANGED Ledger!lvars
  BY <1>2, Invisible DEF InsertItem, fixed, history, Phase
<1>3. ASSUME NEW i \in items, DeleteItem(i)
      PROVE  UNCHANGED Ledger!lvars
  BY <1>3, Invisible DEF DeleteItem, fixed, history, Phase
<1>4. ASSUME NEW u \in users, DeleteUser(u)
      PROVE  Ledger!Leave(u)
  <2>1. /\ users' = users \ {u}
        /\ Remove({v \in votes : v.user = u}, {})
        /\ UNCHANGED <<caller, target, pc, result, net>>
    BY <1>4 DEF DeleteUser, fixed
  <2>2. {<<v.user, v.item>> : v \in {w \in votes : w.user = u}}
           = {k \in Pairs : k[1] = u}
    BY DEF Pairs
  <2>3. Ledger!Strike({k \in Pairs : k[1] = u}, {})
    BY <2>1, <2>2, RemoveStrikes
  <2>4. UNCHANGED <<[r \in Request |-> Key(r)], [r \in Request |-> Phase(r)]>>
    BY <2>1 DEF Key, Phase
  <2>5. QED
    BY <2>1, <2>3, <2>4 DEF Ledger!Leave
<1>5. ASSUME NEW v \in votes, DeleteVote(v)
      PROVE  \E k \in Pairs : Ledger!Purge(k)
  <2>1. /\ Remove({v}, {})
        /\ UNCHANGED <<users, caller, target, pc, result, net>>
    BY <1>5 DEF DeleteVote, fixed
  <2>2. {<<w.user, w.item>> : w \in {v}} = {<<v.user, v.item>>}
    OBVIOUS
  <2>3. Ledger!Strike({<<v.user, v.item>>}, {})
    BY <2>1, <2>2, RemoveStrikes
  <2>4. UNCHANGED <<[r \in Request |-> Key(r)], [r \in Request |-> Phase(r)]>>
    BY <2>1 DEF Key, Phase
  <2>5. <<v.user, v.item>> \in Pairs
    BY DEF Pairs
  <2>6. QED
    BY <2>1, <2>3, <2>4, <2>5 DEF Ledger!Purge
<1>6. QED
  BY <1>1, <1>2, <1>3, <1>4, <1>5 DEF Environment, Ledger!LedgerNext

\* Whatever the interleaving, the endpoint behaves like the ledger: each
\* request takes effect at one moment, on its caller's own pair, and reports
\* what it did, except that an un-vote that was undercut did nothing.
THEOREM ImplementsLedger == Spec => RefinesLedger
<1>1. IInv /\ [Next]_vars => [Ledger!LedgerNext]_(Ledger!lvars)
  <2> SUFFICES ASSUME IInv, [Next]_vars
               PROVE  Ledger!LedgerNext \/ UNCHANGED Ledger!lvars
    OBVIOUS
  <2>1. ASSUME UNCHANGED vars PROVE UNCHANGED Ledger!lvars
    BY <2>1, Invisible DEF vars, Phase
  <2>2. QED
    BY <2>1, HandleRefines, EnvironmentRefines DEF Next
<1>2. QED
  BY <1>1, InitRefines, Inductive, PTL DEF Spec, RefinesLedger, Ledger!Spec
=============================================================================
