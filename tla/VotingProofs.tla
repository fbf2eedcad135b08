---------------------------- MODULE VotingProofs ----------------------------
(***************************************************************************)
(* Theorems about the vote endpoint, for any number of users, content      *)
(* types, requests and primary keys.  IInv is preserved by every action;   *)
(* each invariant is one of its conjuncts.                                 *)
(***************************************************************************)
EXTENDS Voting, FiniteSetTheorems, TLAPS

\* The initial states: nothing has been read, written or answered.
LEMMA InitIInv == Init => IInv
<1> SUFFICES ASSUME Init PROVE IInv
  OBVIOUS
<1>1. TypeOK
  BY MaxPkIsNat DEF Init, TypeOK, Item, Vote, VoteId, NoVote, Running, Writing
<1>2. FiniteTable
  BY FS_EmptySet DEF Init, FiniteTable
<1>3. QED
  BY <1>1, <1>2 DEF Init, IInv, OneVotePerUserPerItem, VotesHaveUsers, FreshIds,
      OldTargets, Issued, SeenIsOwn, RivalStands, ResultsAreEarned,
      MissHasCause, ServerErrorOnlyIfDeleted, Writing

-----------------------------------------------------------------------------
(***************************************************************************)
(* Steps of a request that leave the database alone.                       *)
(***************************************************************************)

\* It enters no statement that relies on a row, and answers 500 only for an
\* item that is gone.
ReadOnly(r) ==
    /\ UNCHANGED <<users, items, nextPk, votes, nextVote, caller, target,
                   seen, result, net, undercut>>
    /\ \A s \in Request \ {r} : pc'[s] = pc[s] /\ status'[s] = status[s]
    /\ \/ pc[r] = "start" /\ pc'[r] = "get"
       \/ pc[r] = "get" /\ pc'[r] = "find" /\ target[r] \in items
       \/ pc'[r] \in {"done", "lost"}
    /\ status'[r] = 500 =>
          \/ status[r] = 500
          \/ pc[r] = "refetch" /\ target[r] \notin items

LEMMA ReadOnlyIInv ==
    ASSUME IInv, TypeOK', NEW r \in Request, ReadOnly(r)
    PROVE  IInv'
<1> USE DEF ReadOnly
<1>1. /\ OneVotePerUserPerItem' /\ VotesHaveUsers' /\ FreshIds'
      /\ FiniteTable'
  BY DEF IInv, OneVotePerUserPerItem, VotesHaveUsers, FreshIds,
      FiniteTable
<1>2. OldTargets'
  BY DEF IInv, OldTargets, Issued, Writing
<1>3. SeenIsOwn' /\ RivalStands'
  BY DEF IInv, SeenIsOwn, RivalStands, VotesOf
<1>4. ResultsAreEarned'
  BY DEF IInv, ResultsAreEarned, Writing
<1>5. MissHasCause' /\ ServerErrorOnlyIfDeleted'
  BY DEF IInv, MissHasCause, ServerErrorOnlyIfDeleted
<1>6. QED
  BY <1>1, <1>2, <1>3, <1>4, <1>5 DEF IInv

\* The count in a response is a number: the table is finite.
LEMMA AnnotationsType ==
    ASSUME IInv, NEW u, NEW i
    PROVE  Annotations(u, i) \in [count : Nat, mine : BOOLEAN]
<1>1. IsFiniteSet({v \in votes : v.item = i})
  BY FS_Subset DEF IInv, FiniteTable
<1>2. QED
  BY <1>1, FS_CardinalityType DEF Annotations

LEMMA AuthenticateIInv ==
    ASSUME IInv, NEW r \in Request, Authenticate(r)
    PROVE  IInv'
<1>1. UNCHANGED <<users, items, nextPk, votes, nextVote, caller, target,
                  seen, result, net, undercut>>
  BY DEF Authenticate, database, fixed, history
<1>2. TypeOK'
  BY <1>1 DEF IInv, TypeOK, Authenticate, GoTo, Respond, Running
<1>3. ReadOnly(r)
  BY <1>1 DEF IInv, TypeOK, Authenticate, GoTo, Respond, ReadOnly,
      database, fixed, history
<1>4. QED
  BY <1>2, <1>3, ReadOnlyIInv

LEMMA GetObjectIInv ==
    ASSUME IInv, NEW r \in Request, GetObject(r)
    PROVE  IInv'
<1>1. UNCHANGED <<users, items, nextPk, votes, nextVote, caller, target,
                  seen, result, net, undercut>>
  BY DEF GetObject, database, fixed, history
<1>2. TypeOK'
  BY <1>1 DEF IInv, TypeOK, GetObject, GoTo, Respond, Running
<1>3. ReadOnly(r)
  BY <1>1 DEF IInv, TypeOK, GetObject, GoTo, Respond, ReadOnly,
      database, fixed, history
<1>4. QED
  BY <1>2, <1>3, ReadOnlyIInv

LEMMA RefetchIInv ==
    ASSUME IInv, NEW r \in Request, Refetch(r)
    PROVE  IInv'
<1>1. UNCHANGED <<users, items, nextPk, votes, nextVote, caller, target,
                  seen, result, net, undercut>>
  BY DEF Refetch, database, fixed, history
<1>2. TypeOK'
  <2>1. pc' \in [Request -> {"start", "done", "lost"} \cup Running]
    BY DEF IInv, TypeOK, Refetch, GoTo, Respond
  <2>2. status' \in [Request -> {0, 200, 201, 401, 404, 500}]
    BY DEF IInv, TypeOK, Refetch, Respond
  <2>3. shown' \in [Request -> [count : Nat, mine : BOOLEAN]]
    BY AnnotationsType DEF IInv, TypeOK, Refetch
  <2>4. QED
    BY <1>1, <2>1, <2>2, <2>3 DEF IInv, TypeOK
<1>3. ReadOnly(r)
  BY <1>1 DEF IInv, TypeOK, Refetch, GoTo, Respond, ReadOnly,
      database, fixed, history
<1>4. QED
  BY <1>2, <1>3, ReadOnlyIInv

LEMMA KillWorkerIInv ==
    ASSUME IInv, NEW r \in Request, KillWorker(r)
    PROVE  IInv'
<1>1. UNCHANGED <<users, items, nextPk, votes, nextVote, caller, target,
                  seen, result, net, undercut>>
  BY DEF KillWorker, database, fixed, history
<1>2. TypeOK'
  BY <1>1 DEF IInv, TypeOK, KillWorker, GoTo
<1>3. ReadOnly(r)
  BY <1>1 DEF IInv, TypeOK, KillWorker, GoTo, Respond, ReadOnly,
      database, fixed, history
<1>4. QED
  BY <1>2, <1>3, ReadOnlyIInv

-----------------------------------------------------------------------------
(***************************************************************************)
(* The two look-ups and writes that do not remove rows.                    *)
(***************************************************************************)
LEMMA FindExistingIInv ==
    ASSUME IInv, NEW r \in Request, FindExisting(r)
    PROVE  IInv'
<1> USE DEF VotesOf
<1>1. /\ UNCHANGED <<users, items, nextPk, votes, nextVote, caller, target,
                     result, status, shown, net, undercut>>
      /\ pc[r] = "find"
  BY DEF FindExisting, database, fixed, history
<1>2. /\ \A s \in Request \ {r} : pc'[s] = pc[s] /\ seen'[s] = seen[s]
      /\ \/ /\ pc'[r] = "delete"
            /\ \E v \in VotesOf(caller[r], target[r]) : seen'[r] = v.id
         \/ pc'[r] = "create"
  BY DEF IInv, TypeOK, FindExisting, GoTo
<1>3. TypeOK'
  <2>1. pc' \in [Request -> {"start", "done", "lost"} \cup Running]
    BY DEF IInv, TypeOK, FindExisting, GoTo, Running, Writing
  <2>2. seen' \in [Request -> Nat]
    BY DEF IInv, TypeOK, FindExisting, Vote, VoteId
  <2>3. QED
    BY <1>1, <2>1, <2>2 DEF IInv, TypeOK
<1>4. /\ OneVotePerUserPerItem' /\ VotesHaveUsers' /\ FreshIds'
      /\ FiniteTable' /\ MissHasCause' /\ ServerErrorOnlyIfDeleted'
  BY <1>1 DEF IInv, OneVotePerUserPerItem, VotesHaveUsers, FreshIds,
      FiniteTable, MissHasCause, ServerErrorOnlyIfDeleted
<1>5. OldTargets' /\ RivalStands' /\ ResultsAreEarned'
  BY <1>1, <1>2 DEF IInv, OldTargets, Issued, RivalStands, ResultsAreEarned,
      Writing
<1>6. SeenIsOwn'
  BY <1>1, <1>2 DEF IInv, SeenIsOwn, FreshIds
<1>7. QED
  BY <1>3, <1>4, <1>5, <1>6 DEF IInv

\* The INSERT: accepted, it adds the only row of its pair under a fresh id;
\* refused, the reason stands in the database.
LEMMA CreateVoteIInv ==
    ASSUME IInv, NEW r \in Request, CreateVote(r)
    PROVE  IInv'
<1> DEFINE new == [id |-> nextVote, user |-> caller[r], item |-> target[r]]
<1> USE DEF VotesOf
<1>1. /\ UNCHANGED <<users, items, nextPk, caller, target, seen, status,
                     shown, undercut>>
      /\ pc[r] = "create"
      /\ nextVote' = nextVote + 1
      /\ nextVote \in Nat \ {0}
      /\ caller[r] \in User /\ target[r] \in Item
  BY DEF IInv, TypeOK, CreateVote, CatchIntegrityError, Return, fixed, VoteId
<1>2. /\ \A s \in Request \ {r} :
            pc'[s] = pc[s] /\ result'[s] = result[s] /\ net'[s] = net[s]
      /\ \/ /\ MayInsert(caller[r], target[r])
            /\ votes' = votes \cup {new}
            /\ pc'[r] = "refetch" /\ result'[r] = "created" /\ net'[r] = 1
         \/ /\ ~ MayInsert(caller[r], target[r])
            /\ votes' = votes
            /\ pc'[r] = "recover" /\ result' = result /\ net' = net
  BY DEF IInv, TypeOK, CreateVote, CatchIntegrityError, Return, GoTo
<1>3. TypeOK'
  <2>1. pc' \in [Request -> {"start", "done", "lost"} \cup Running]
    BY DEF IInv, TypeOK, CreateVote, CatchIntegrityError, Return, GoTo, Running,
        Writing
  <2>2. /\ result' \in [Request -> {"none", "created", "removed"}]
        /\ net' \in [Request -> {-1, 0, 1}]
    <3>1. /\ result \in [Request -> {"none", "created", "removed"}]
          /\ net \in [Request -> {-1, 0, 1}]
      BY DEF IInv, TypeOK
    <3>2. \/ /\ result' = [result EXCEPT ![r] = "created"]
             /\ net' = [net EXCEPT ![r] = 1]
          \/ result' = result /\ net' = net
      BY DEF CreateVote, Return
    <3>3. QED
      BY <3>1, <3>2
  <2>3. new \in Vote
    BY <1>1 DEF Vote, VoteId
  <2>4. nextVote' \in VoteId
    BY <1>1 DEF VoteId
  <2>5. QED
    BY <1>1, <1>2, <2>1, <2>2, <2>3, <2>4 DEF IInv, TypeOK
<1>4. OneVotePerUserPerItem' /\ VotesHaveUsers'
  BY <1>1, <1>2 DEF IInv, OneVotePerUserPerItem, VotesHaveUsers, MayInsert
<1>5. FreshIds'
  <2>1. \A v \in votes : v.id \in Nat /\ v.id < nextVote
    BY DEF IInv, TypeOK, Vote, VoteId, FreshIds
  <2>2. \A v \in votes' : v \in votes \/ (v = new /\ v.id = nextVote)
    BY <1>2
  <2>3. \A v \in votes' : v.id < nextVote'
    BY <1>1, <2>1, <2>2
  <2>4. ASSUME NEW v \in votes', NEW w \in votes', v.id = w.id
        PROVE  v = w
    BY <1>1, <2>1, <2>2, <2>4 DEF IInv, FreshIds
  <2>5. QED
    BY <2>3, <2>4 DEF FreshIds
<1>6. FiniteTable'
  BY <1>2, FS_AddElement DEF IInv, FiniteTable
<1>7. OldTargets'
  BY <1>1, <1>2 DEF IInv, OldTargets, Issued, Writing
<1>8. SeenIsOwn'
  BY <1>1, <1>2 DEF IInv, TypeOK, SeenIsOwn
<1>9. RivalStands'
  BY <1>1, <1>2 DEF IInv, RivalStands, MayInsert
<1>10. ResultsAreEarned'
  BY <1>1, <1>2 DEF IInv, ResultsAreEarned, Writing
<1>11. MissHasCause' /\ ServerErrorOnlyIfDeleted'
  BY <1>1, <1>2 DEF IInv, MissHasCause, ServerErrorOnlyIfDeleted
<1>12. QED
  BY <1>3, <1>4, <1>5, <1>6, <1>7, <1>8, <1>9, <1>10, <1>11 DEF IInv

-----------------------------------------------------------------------------
(***************************************************************************)
(* The steps that remove rows.                                             *)
(***************************************************************************)

\* What Remove leaves behind: fewer rows, and every other request that was
\* counting on one of the removed rows is undercut.
LEMMA RemoveEffect ==
    ASSUME IInv, NEW D, NEW by, Remove(D, by)
    PROVE  /\ votes' = votes \ D
           /\ undercut' \in [Request -> BOOLEAN]
           /\ \A s \in Request : undercut[s] => undercut'[s]
           /\ \A s \in Request \ by, v \in votes :
                 /\ pc[s] \in Writing
                 /\ v \in VotesOf(caller[s], target[s])
                 /\ v \in D
                 => undercut'[s]
  BY DEF IInv, TypeOK, Remove

LEMMA RemoveTables ==
    ASSUME IInv, NEW D, votes' = votes \ D,
           UNCHANGED <<items, nextPk, nextVote>>
    PROVE  /\ votes' \subseteq Vote
           /\ OneVotePerUserPerItem' /\ FreshIds' /\ FiniteTable'
           /\ \A v \in votes' : Issued(v.item)'
<1>1. /\ votes' \subseteq votes /\ votes \subseteq Vote
      /\ UNCHANGED <<nextVote, nextPk>>
  BY DEF IInv, TypeOK
<1>2. OneVotePerUserPerItem' /\ FreshIds'
  BY <1>1 DEF IInv, OneVotePerUserPerItem, FreshIds
<1>3. FiniteTable'
  BY <1>1, FS_Subset DEF IInv, FiniteTable
<1>4. QED
  BY <1>1, <1>2, <1>3 DEF IInv, OldTargets, Issued

\* A request un-votes: it removes D, rows of its own pair, and if there was
\* none left it has an excuse.
UnvotesBy(r, D) ==
    /\ pc[r] \in {"delete", "recover"}
    /\ Remove(D, {r})
    /\ Return(r, "removed", IF D = {} THEN 0 ELSE -1)
    /\ UNCHANGED <<users, items, nextPk, nextVote, caller, target, seen,
                   status, shown>>
    /\ D = {} => undercut[r] \/ caller[r] \notin users

LEMMA UnvotesByIInv ==
    ASSUME IInv, NEW r \in Request, NEW D, UnvotesBy(r, D)
    PROVE  IInv'
<1>1. /\ votes' = votes \ D
      /\ undercut' \in [Request -> BOOLEAN]
      /\ \A s \in Request : undercut[s] => undercut'[s]
      /\ \A s \in Request \ {r}, v \in votes :
            /\ pc[s] \in Writing
            /\ v \in VotesOf(caller[s], target[s])
            /\ v \in D
            => undercut'[s]
  BY RemoveEffect DEF UnvotesBy
<1>2. UNCHANGED <<users, items, nextPk, nextVote, caller, target, seen, status,
                  shown>>
  BY DEF UnvotesBy
<1>3. /\ pc[r] \in {"delete", "recover"}
      /\ \A s \in Request \ {r} :
            pc'[s] = pc[s] /\ result'[s] = result[s] /\ net'[s] = net[s]
      /\ pc'[r] = "refetch" /\ result'[r] = "removed"
      /\ net'[r] = IF D = {} THEN 0 ELSE -1
  BY DEF IInv, TypeOK, UnvotesBy, Return, GoTo
<1>4. /\ votes' \subseteq Vote
      /\ OneVotePerUserPerItem' /\ FreshIds' /\ FiniteTable'
      /\ \A v \in votes' : Issued(v.item)'
  BY <1>1, <1>2, RemoveTables
<1>5. TypeOK'
  <2>1. pc' \in [Request -> {"start", "done", "lost"} \cup Running]
    BY DEF IInv, TypeOK, UnvotesBy, Return, GoTo, Running
  <2>2. result' \in [Request -> {"none", "created", "removed"}]
    BY DEF IInv, TypeOK, UnvotesBy, Return
  <2>3. net' \in [Request -> {-1, 0, 1}]
    BY DEF IInv, TypeOK, UnvotesBy, Return
  <2>4. QED
    BY <1>1, <1>2, <1>4, <2>1, <2>2, <2>3 DEF IInv, TypeOK
<1>6. VotesHaveUsers'
  BY <1>1, <1>2 DEF IInv, VotesHaveUsers
<1>7. OldTargets'
  BY <1>2, <1>3, <1>4 DEF IInv, OldTargets, Issued, Writing
<1>8. SeenIsOwn'
  <2> SUFFICES ASSUME NEW s \in Request, pc'[s] = "delete"
               PROVE  /\ seen[s] < nextVote
                      /\ \A v \in votes' : v.id = seen[s] =>
                            v.user = caller[s] /\ v.item = target[s]
                      /\ \/ \E v \in votes' : v.id = seen[s]
                         \/ undercut'[s]
                         \/ caller[s] \notin users
    BY <1>2 DEF SeenIsOwn, VotesOf
  <2>1. s # r /\ pc[s] = "delete" /\ pc[s] \in Writing
    BY <1>3 DEF Writing
  <2>2. /\ seen[s] < nextVote
        /\ \A v \in votes : v.id = seen[s] =>
              /\ v \in VotesOf(caller[s], target[s])
              /\ v.user = caller[s] /\ v.item = target[s]
        /\ \/ \E v \in votes : v.id = seen[s]
           \/ undercut[s]
           \/ caller[s] \notin users
    BY <2>1 DEF IInv, SeenIsOwn, VotesOf
  <2>3. QED
    BY <1>1, <2>1, <2>2
<1>9. RivalStands'
  <2> SUFFICES ASSUME NEW s \in Request, pc'[s] = "recover"
               PROVE  \/ \E v \in votes' : v.user = caller[s] /\ v.item = target[s]
                      \/ undercut'[s]
                      \/ caller[s] \notin users
    BY <1>2 DEF RivalStands, VotesOf
  <2>1. s # r /\ pc[s] = "recover" /\ pc[s] \in Writing
    BY <1>3 DEF Writing
  <2>2. \/ \E v \in votes : /\ v \in VotesOf(caller[s], target[s])
                            /\ v.user = caller[s] /\ v.item = target[s]
        \/ undercut[s]
        \/ caller[s] \notin users
    BY <2>1 DEF IInv, RivalStands, VotesOf
  <2>3. QED
    BY <1>1, <2>1, <2>2
<1>10. ResultsAreEarned'
  BY <1>3 DEF IInv, ResultsAreEarned, Writing
<1>11. MissHasCause'
  BY <1>1, <1>2, <1>3 DEF IInv, TypeOK, MissHasCause, UnvotesBy
<1>12. ServerErrorOnlyIfDeleted'
  BY <1>2 DEF IInv, ServerErrorOnlyIfDeleted
<1>13. QED
  BY <1>4, <1>5, <1>6, <1>7, <1>8, <1>9, <1>10, <1>11, <1>12 DEF IInv

LEMMA DeleteExistingIInv ==
    ASSUME IInv, NEW r \in Request, DeleteExisting(r)
    PROVE  IInv'
<1>1. UnvotesBy(r, {v \in votes : v.id = seen[r]})
  BY DEF IInv, SeenIsOwn, DeleteExisting, UnvotesBy, fixed
<1>2. QED
  BY <1>1, UnvotesByIInv

LEMMA DeleteConcurrentIInv ==
    ASSUME IInv, NEW r \in Request, DeleteConcurrent(r)
    PROVE  IInv'
<1>1. UnvotesBy(r, VotesOf(caller[r], target[r]))
  BY DEF IInv, RivalStands, DeleteConcurrent, UnvotesBy, fixed
<1>2. QED
  BY <1>1, UnvotesByIInv

\* An administrator removes the rows D, and perhaps accounts with all theirs.
LEMMA AdminRemoveIInv ==
    ASSUME IInv, NEW D, Remove(D, {}),
           users' \subseteq users,
           \A v \in votes \ D : v.user \in users',
           UNCHANGED <<items, nextPk, nextVote, caller, target, pc, seen,
                       result, status, shown, net>>
    PROVE  IInv'
<1>1. /\ votes' = votes \ D
      /\ undercut' \in [Request -> BOOLEAN]
      /\ \A s \in Request : undercut[s] => undercut'[s]
      /\ \A s \in Request, v \in votes :
            /\ pc[s] \in Writing
            /\ v \in VotesOf(caller[s], target[s])
            /\ v \in D
            => undercut'[s]
  BY RemoveEffect
<1>2. /\ votes' \subseteq Vote
      /\ OneVotePerUserPerItem' /\ FreshIds' /\ FiniteTable'
      /\ \A v \in votes' : Issued(v.item)'
  BY <1>1, RemoveTables
<1>3. TypeOK'
  BY <1>1, <1>2 DEF IInv, TypeOK
<1>4. VotesHaveUsers'
  BY <1>1 DEF VotesHaveUsers
<1>5. OldTargets'
  BY <1>2 DEF IInv, OldTargets, Issued
<1>6. SeenIsOwn'
  <2> SUFFICES ASSUME NEW s \in Request, pc[s] = "delete"
               PROVE  /\ seen[s] < nextVote
                      /\ \A v \in votes' : v.id = seen[s] =>
                            v.user = caller[s] /\ v.item = target[s]
                      /\ \/ \E v \in votes' : v.id = seen[s]
                         \/ undercut'[s]
                         \/ caller[s] \notin users'
    BY DEF SeenIsOwn, VotesOf
  <2>1. /\ pc[s] \in Writing
        /\ seen[s] < nextVote
        /\ \A v \in votes : v.id = seen[s] =>
              /\ v \in VotesOf(caller[s], target[s])
              /\ v.user = caller[s] /\ v.item = target[s]
        /\ \/ \E v \in votes : v.id = seen[s]
           \/ undercut[s]
           \/ caller[s] \notin users
    BY DEF IInv, SeenIsOwn, VotesOf, Writing
  <2>2. QED
    BY <1>1, <2>1
<1>7. RivalStands'
  <2> SUFFICES ASSUME NEW s \in Request, pc[s] = "recover"
               PROVE  \/ \E v \in votes' : v.user = caller[s] /\ v.item = target[s]
                      \/ undercut'[s]
                      \/ caller[s] \notin users'
    BY DEF RivalStands, VotesOf
  <2>1. /\ pc[s] \in Writing
        /\ \/ \E v \in votes : /\ v \in VotesOf(caller[s], target[s])
                               /\ v.user = caller[s] /\ v.item = target[s]
           \/ undercut[s]
           \/ caller[s] \notin users
    BY DEF IInv, RivalStands, VotesOf, Writing
  <2>2. QED
    BY <1>1, <2>1
<1>8. ResultsAreEarned' /\ ServerErrorOnlyIfDeleted'
  BY DEF IInv, ResultsAreEarned, ServerErrorOnlyIfDeleted
<1>9. MissHasCause'
  BY <1>1 DEF IInv, MissHasCause
<1>10. QED
  BY <1>2, <1>3, <1>4, <1>5, <1>6, <1>7, <1>8, <1>9 DEF IInv

LEMMA DeleteUserIInv ==
    ASSUME IInv, NEW u, DeleteUser(u)
    PROVE  IInv'
<1>1. /\ Remove({v \in votes : v.user = u}, {})
      /\ users' \subseteq users
      /\ \A v \in votes \ {w \in votes : w.user = u} : v.user \in users'
      /\ UNCHANGED <<items, nextPk, nextVote, caller, target, pc, seen,
                     result, status, shown, net>>
  BY DEF IInv, VotesHaveUsers, DeleteUser, fixed
<1>2. QED
  BY <1>1, AdminRemoveIInv

LEMMA DeleteVoteIInv ==
    ASSUME IInv, NEW v, DeleteVote(v)
    PROVE  IInv'
<1>1. /\ Remove({v}, {})
      /\ users' \subseteq users
      /\ \A w \in votes \ {v} : w.user \in users'
      /\ UNCHANGED <<items, nextPk, nextVote, caller, target, pc, seen,
                     result, status, shown, net>>
  BY DEF IInv, VotesHaveUsers, DeleteVote, fixed
<1>2. QED
  BY <1>1, AdminRemoveIInv

\* Catalog changes do not touch the votes.  The new item has a primary key of
\* which nothing speaks yet.
LEMMA InsertItemIInv ==
    ASSUME IInv, NEW ct \in ContentType, InsertItem(ct)
    PROVE  IInv'
<1>1. /\ UNCHANGED <<users, votes, nextVote, caller, target, pc, seen, result,
                     status, shown, net, undercut>>
      /\ items' = items \cup {<<ct, nextPk[ct]>>}
      /\ nextPk' = [nextPk EXCEPT ![ct] = nextPk[ct] + 1]
      /\ nextPk[ct] \in 1 .. MaxPk
      /\ nextPk \in [ContentType -> 1 .. MaxPk + 1]
  BY MaxPkIsNat DEF IInv, TypeOK, InsertItem, fixed, history
<1>2. \A i \in Item : Issued(i) => Issued(i)'
  BY <1>1, MaxPkIsNat DEF Issued, Item
<1>3. TypeOK'
  <2>1. items' \subseteq Item
    BY <1>1 DEF IInv, TypeOK, Item
  <2>2. nextPk' \in [ContentType -> 1 .. MaxPk + 1]
    BY <1>1, MaxPkIsNat
  <2>3. QED
    BY <1>1, <2>1, <2>2 DEF IInv, TypeOK
<1>4. /\ OneVotePerUserPerItem' /\ VotesHaveUsers' /\ FreshIds'
      /\ FiniteTable' /\ SeenIsOwn' /\ RivalStands'
      /\ ResultsAreEarned' /\ MissHasCause'
  BY <1>1 DEF IInv, OneVotePerUserPerItem, VotesHaveUsers, FreshIds,
      FiniteTable, SeenIsOwn, RivalStands, VotesOf, ResultsAreEarned,
      MissHasCause
<1>5. OldTargets'
  <2>1. \A i \in items' : Issued(i)'
    BY <1>1, <1>2 DEF IInv, TypeOK, OldTargets, Issued
  <2>2. \A v \in votes' : Issued(v.item)'
    BY <1>1, <1>2 DEF IInv, TypeOK, Vote, OldTargets
  <2>3. \A r \in Request :
           pc'[r] \in {"find", "refetch"} \cup Writing \/ status'[r] = 500
              => Issued(target[r])'
    BY <1>1, <1>2 DEF IInv, TypeOK, OldTargets
  <2>4. QED
    BY <1>1, <2>1, <2>2, <2>3 DEF OldTargets, Issued
<1>6. ServerErrorOnlyIfDeleted'
  BY <1>1 DEF IInv, TypeOK, OldTargets, Issued, ServerErrorOnlyIfDeleted
<1>7. QED
  BY <1>3, <1>4, <1>5, <1>6 DEF IInv

LEMMA DeleteItemIInv ==
    ASSUME IInv, NEW i, DeleteItem(i)
    PROVE  IInv'
<1>1. /\ UNCHANGED <<users, nextPk, votes, nextVote, caller, target, pc, seen,
                     result, status, shown, net, undercut>>
      /\ items' = items \ {i}
  BY DEF DeleteItem, fixed, history
<1>2. QED
  BY <1>1 DEF IInv, TypeOK, OneVotePerUserPerItem, VotesHaveUsers, FreshIds,
      FiniteTable, OldTargets, Issued, SeenIsOwn, RivalStands, VotesOf,
      ResultsAreEarned, MissHasCause, ServerErrorOnlyIfDeleted

-----------------------------------------------------------------------------
\* Every step of the system preserves the inductive invariant.
LEMMA NextIInv == IInv /\ [Next]_vars => IInv'
<1> SUFFICES ASSUME IInv, [Next]_vars PROVE IInv'
  OBVIOUS
<1>1. ASSUME NEW r \in Request, Handle(r) PROVE IInv'
  BY <1>1, AuthenticateIInv, GetObjectIInv, FindExistingIInv,
     DeleteExistingIInv, CreateVoteIInv, DeleteConcurrentIInv, RefetchIInv
     DEF Handle
<1>2. ASSUME Environment PROVE IInv'
  BY <1>2, KillWorkerIInv, InsertItemIInv, DeleteItemIInv, DeleteUserIInv,
     DeleteVoteIInv DEF Environment
<1>3. CASE UNCHANGED vars
  BY <1>3 DEF vars, IInv, TypeOK, OneVotePerUserPerItem, VotesHaveUsers,
      FreshIds, FiniteTable, OldTargets, Issued, SeenIsOwn, RivalStands,
      VotesOf, ResultsAreEarned, MissHasCause, ServerErrorOnlyIfDeleted
<1>4. QED
  BY <1>1, <1>2, <1>3 DEF Next

THEOREM Inductive == Spec => []IInv
BY InitIInv, NextIInv, PTL DEF Spec

\* Every variable keeps its type.
THEOREM TypeCorrect == Spec => []TypeOK
<1>1. IInv => TypeOK
  BY DEF IInv
<1>2. QED
  BY <1>1, Inductive, PTL

\* Of any number of concurrent toggles of one user on one item, none leaves a
\* second vote behind.
THEOREM OneVote == Spec => []OneVotePerUserPerItem
<1>1. IInv => OneVotePerUserPerItem
  BY DEF IInv
<1>2. QED
  BY <1>1, Inductive, PTL

\* A vote never outlives its account.
THEOREM NoOrphanedVotes == Spec => []VotesHaveUsers
<1>1. IInv => VotesHaveUsers
  BY DEF IInv
<1>2. QED
  BY <1>1, Inductive, PTL

\* An un-vote that deletes nothing was undercut.
THEOREM MissesAreExcused == Spec => []MissHasCause
<1>1. IInv => MissHasCause
  BY DEF IInv
<1>2. QED
  BY <1>1, Inductive, PTL

\* A 500 of the vote endpoint means that the item is gone.
THEOREM ServerErrors == Spec => []ServerErrorOnlyIfDeleted
<1>1. IInv => ServerErrorOnlyIfDeleted
  BY DEF IInv
<1>2. QED
  BY <1>1, Inductive, PTL

\* A new item has no votes, whatever deleted items left in the table.
THEOREM FreshItemsHaveNoVotes == Spec => NoInheritedVotes
<1>1. ASSUME IInv, [Next]_vars
      PROVE  \A i \in items' \ items : \A v \in votes' : v.item # i
  <2>1. ASSUME NEW ct \in ContentType, InsertItem(ct)
        PROVE  \A i \in items' \ items : \A v \in votes' : v.item # i
    <3>1. /\ items' \ items \subseteq {<<ct, nextPk[ct]>>}
          /\ votes' = votes
          /\ nextPk[ct] \in 1 .. MaxPk + 1
      BY <1>1, <2>1 DEF IInv, TypeOK, InsertItem
    <3>2. \A v \in votes : v.item[2] < nextPk[v.item[1]] /\ v.item \in Item
      BY <1>1 DEF IInv, TypeOK, OldTargets, Issued, Vote
    <3>3. QED
      BY <3>1, <3>2 DEF Item
  <2>2. ASSUME NEW r \in Request, Handle(r) PROVE items' = items
    BY <2>2 DEF Handle, Authenticate, GetObject, FindExisting, DeleteExisting,
        CreateVote, DeleteConcurrent, Refetch, database
  <2>3. ASSUME Environment, ~ \E ct \in ContentType : InsertItem(ct)
        PROVE  items' \subseteq items
    BY <2>3 DEF Environment, KillWorker, DeleteItem, DeleteUser, DeleteVote,
        database
  <2>4. QED
    BY <1>1, <2>1, <2>2, <2>3 DEF Next, vars
<1>2. QED
  BY <1>1, Inductive, PTL DEF Spec, NoInheritedVotes

-----------------------------------------------------------------------------
(***************************************************************************)
(* What the responses say: the count of an item, for any requests, and, when*)
(* the requests of a user about an item take turns (SerialSpec), that        *)
(* repeating a vote undoes it.  SerialIInv is preserved by every action of   *)
(* SerialNext.                                                               *)
(***************************************************************************)
\* Rows of one item belong to as many accounts.
LEMMA CountsAccounts ==
    ASSUME IInv, NEW u, NEW i
    PROVE  /\ Annotations(u, i).count \in Nat
           /\ Annotations(u, i).count <= Cardinality(User)
           /\ Annotations(u, i).mine => Annotations(u, i).count >= 1
<1> DEFINE S == {v \in votes : v.item = i}
<1>1. IsFiniteSet(S) /\ Cardinality(S) \in Nat
  BY FS_Subset, FS_CardinalityType DEF IInv, FiniteTable
<1>2. Cardinality(S) <= Cardinality(User)
  <2> DEFINE f == [v \in S |-> v.user]
  <2>1. \A v \in S : v.user \in User /\ v.item = i
    BY DEF IInv, TypeOK, Vote
  <2>2. f \in [S -> User]
    BY <2>1
  <2>3. \A v, w \in S : f[v] = f[w] => v = w
    BY <2>1 DEF IInv, OneVotePerUserPerItem
  <2>4. f \in Injection(S, User)
    BY <2>2, <2>3 DEF Injection, IsInjective
  <2> HIDE DEF f, S
  <2>5. QED
    BY <2>4, UsersAreFinite, FS_Injection
<1>3. VotesOf(u, i) # {} => Cardinality(S) >= 1
  <2> SUFFICES ASSUME VotesOf(u, i) # {} PROVE Cardinality(S) >= 1
    OBVIOUS
  <2>1. S # {}
    BY DEF VotesOf
  <2>2. Cardinality(S) # 0
    BY <1>1, <2>1, FS_EmptySet
  <2> HIDE DEF S
  <2>3. QED
    BY <1>1, <2>2
<1>4. Annotations(u, i).count = Cardinality(S) /\ Annotations(u, i).mine = (VotesOf(u, i) # {})
  BY DEF Annotations
<1>5. QED
  BY <1>1, <1>2, <1>3, <1>4

\* A response counts the votes of its own item: never more than there are accounts,
\* and at least the vote it shows as the caller's.
THEOREM CountsStayPerItem == Spec => []CountIsPerItem
<1>1. Init => CountIsPerItem
  <2>1. Cardinality(User) \in Nat
    BY UsersAreFinite, FS_CardinalityType
  <2>2. QED
    BY <2>1 DEF Init, CountIsPerItem
<1>2. IInv /\ CountIsPerItem /\ [Next]_vars => CountIsPerItem'
  <2> SUFFICES ASSUME IInv, CountIsPerItem, [Next]_vars PROVE CountIsPerItem'
    OBVIOUS
  <2>1. CASE UNCHANGED shown
    BY <2>1 DEF CountIsPerItem
  <2>2. CASE \E r \in Request : Refetch(r)
    <3>1. PICK r \in Request : Refetch(r)
      BY <2>2
    <3>2. CASE UNCHANGED shown
      BY <3>2 DEF CountIsPerItem
    <3>3. CASE shown' = [shown EXCEPT ![r] = Annotations(caller[r], target[r])]
      <4>1. \A s \in Request : shown'[s] = IF s = r THEN Annotations(caller[r], target[r])
                                                    ELSE shown[s]
        BY <3>3 DEF IInv, TypeOK
      <4>2. QED
        BY <4>1, CountsAccounts DEF CountIsPerItem
    <3>4. QED
      BY <3>1, <3>2, <3>3 DEF Refetch
  <2>3. CASE \E r \in Request : Handle(r) /\ ~ Refetch(r)
    <3>1. UNCHANGED shown
      BY <2>3 DEF Handle, Authenticate, GetObject, FindExisting, DeleteExisting, CreateVote,
          DeleteConcurrent
    <3>2. QED
      BY <3>1 DEF CountIsPerItem
  <2>4. CASE Environment
    <3>1. UNCHANGED shown
      BY <2>4 DEF Environment, KillWorker, InsertItem, DeleteItem, DeleteUser, DeleteVote
    <3>2. QED
      BY <3>1 DEF CountIsPerItem
  <2>5. CASE UNCHANGED vars
    BY <2>5 DEF vars, CountIsPerItem
  <2>6. QED
    BY <2>2, <2>3, <2>4, <2>5 DEF Next
<1>3. QED
  BY <1>1, <1>2, Inductive, PTL DEF Spec

-----------------------------------------------------------------------------
\* Taking turns is one way to behave.
LEMMA SerialIsNext == [SerialNext]_vars => [Next]_vars
BY DEF SerialNext, Next, Environment

\* Requests of one user about one item take turns as long as one begins only while
\* no other is at work.
LEMMA TurnsAreKept ==
    ASSUME TakeTurns, NEW r \in Request, UNCHANGED <<caller, target>>,
           \A s \in Request \ {r} : pc'[s] = pc[s],
           pc'[r] \notin Running
              \/ \A s \in Request \ {r} : Key(s) = Key(r) => pc[s] \notin Running
    PROVE  TakeTurns'
<1> SUFFICES ASSUME NEW s \in Request, NEW t \in Request,
                    s # t, Key(s)' = Key(t)', pc'[s] \in Running, pc'[t] \in Running
             PROVE  FALSE
  BY DEF TakeTurns
<1>1. Key(s) = Key(t)
  BY DEF Key
<1>2. CASE s = r
  BY <1>1, <1>2
<1>3. CASE t = r
  BY <1>1, <1>3
<1>4. CASE s # r /\ t # r
  BY <1>1, <1>4 DEF TakeTurns
<1>5. QED
  BY <1>2, <1>3, <1>4

\* What the other requests have read stands as long as their votes do.
LEMMA OthersStand ==
    ASSUME ReadsStand, NEW s \in Request, UNCHANGED <<caller, target>>,
           pc'[s] = pc[s], seen'[s] = seen[s], result'[s] = result[s],
           pc[s] \in Running => VotesOf(caller[s], target[s])' = VotesOf(caller[s], target[s])
    PROVE  LET own == VotesOf(caller[s], target[s]) IN
           (/\ pc[s] = "delete" => \E v \in own : v.id = seen[s]
            /\ pc[s] = "create" => own = {}
            /\ pc[s] # "recover"
            /\ pc[s] = "refetch" => (own # {} <=> result[s] = "created"))'
<1>1. CASE pc[s] \in Running
  BY <1>1 DEF ReadsStand
<1>2. CASE pc[s] \notin Running
  BY <1>2 DEF Running, Writing
<1>3. QED
  BY <1>1, <1>2

\* A step that touches no vote and no result.
LEMMA ParityKept ==
    ASSUME SerialIInv, UNCHANGED <<votes, caller, target, result>>
    PROVE  FiniteToggles' /\ RepeatToggles'
BY DEF SerialIInv, FiniteToggles, RepeatToggles, Toggles, VotesOf, Key

\* A result that comes with a change of the caller's vote on the target.
LEMMA ParityTurns ==
    ASSUME SerialIInv, NEW r \in Request, NEW res, res # "none",
           result[r] = "none", result' = [result EXCEPT ![r] = res],
           UNCHANGED <<caller, target>>,
           \A u \in User, i \in Item :
              <<u, i>> # Key(r) => VotesOf(u, i)' = VotesOf(u, i),
           VotesOf(caller[r], target[r])' # {} <=> VotesOf(caller[r], target[r]) = {}
    PROVE  FiniteToggles' /\ RepeatToggles'
<1>1. result \in [Request -> {"none", "created", "removed"}]
  BY DEF SerialIInv, IInv, TypeOK
<1>2. ASSUME NEW k
      PROVE  Toggles(k)' = IF k = Key(r) THEN Toggles(k) \cup {r} ELSE Toggles(k)
  BY <1>1 DEF Toggles, Key
<1>3. ASSUME NEW k
      PROVE  r \notin Toggles(k)
  BY DEF Toggles
<1>4. FiniteToggles'
  BY <1>2, FS_AddElement DEF SerialIInv, FiniteToggles
<1>5. ASSUME NEW u \in User, NEW i \in Item
      PROVE  VotesOf(u, i)' # {} <=> Cardinality(Toggles(<<u, i>>)') % 2 = 1
  <2>1. VotesOf(u, i) # {} <=> Cardinality(Toggles(<<u, i>>)) % 2 = 1
    BY DEF SerialIInv, RepeatToggles
  <2>2. IsFiniteSet(Toggles(<<u, i>>)) /\ Cardinality(Toggles(<<u, i>>)) \in Nat
    BY FS_CardinalityType DEF SerialIInv, FiniteToggles
  <2>3. CASE <<u, i>> # Key(r)
    BY <1>2, <2>1, <2>3
  <2>4. CASE <<u, i>> = Key(r)
    <3>1. u = caller[r] /\ i = target[r]
      BY <2>4 DEF Key
    <3>2. Toggles(<<u, i>>)' = Toggles(<<u, i>>) \cup {r}
      BY <1>2, <2>4
    <3>3. Cardinality(Toggles(<<u, i>>)') = Cardinality(Toggles(<<u, i>>)) + 1
      <4>1. PICK T : T = Toggles(<<u, i>>)
        OBVIOUS
      <4>2. Cardinality(T \cup {r}) = Cardinality(T) + 1
        BY <1>3, <2>2, <4>1, FS_AddElement
      <4>3. QED
        BY <3>2, <4>1, <4>2
    <3>4. VotesOf(u, i)' # {} <=> VotesOf(u, i) = {}
      BY <3>1
    <3>5. ASSUME NEW n \in Nat
          PROVE  (n + 1) % 2 = 1 <=> ~ n % 2 = 1
      OBVIOUS
    <3>6. QED
      BY <2>1, <2>2, <3>3, <3>4, <3>5
  <2>5. QED
    BY <2>3, <2>4
<1>6. QED
  BY <1>4, <1>5 DEF RepeatToggles

-----------------------------------------------------------------------------
\* It is this request's turn.
Turn(r) == \A s \in Request \ {r} : Key(s) = Key(r) => pc[s] \notin Running

\* A statement that writes no row and gives no result.
LEMMA QuietSerial ==
    ASSUME SerialIInv, IInv', NEW r \in Request,
           pc'[r] \notin Running \/ Turn(r),
           \A s \in Request \ {r} : pc'[s] = pc[s] /\ seen'[s] = seen[s],
           UNCHANGED <<users, votes, caller, target, result>>,
           pc'[r] = "delete" => \E v \in VotesOf(caller[r], target[r]) : v.id = seen'[r],
           pc'[r] = "create" => VotesOf(caller[r], target[r]) = {},
           pc'[r] \notin {"recover", "refetch"},
           ResponseAgrees'
    PROVE  SerialIInv'
<1>1. TakeTurns'
  BY TurnsAreKept DEF SerialIInv, Turn
<1>2. VotesOf(caller[r], target[r])' = VotesOf(caller[r], target[r])
  BY DEF VotesOf
<1>3. ReadsStand'
  <2>1. ASSUME NEW s \in Request
        PROVE  LET own == VotesOf(caller[s], target[s]) IN
               (/\ pc[s] = "delete" => \E v \in own : v.id = seen[s]
                /\ pc[s] = "create" => own = {}
                /\ pc[s] # "recover"
                /\ pc[s] = "refetch" => (own # {} <=> result[s] = "created"))'
    <3>1. CASE s = r
      BY <1>2, <3>1
    <3>2. CASE s # r
      <4>1. VotesOf(caller[s], target[s])' = VotesOf(caller[s], target[s])
        BY DEF VotesOf
      <4>2. QED
        BY <3>2, <4>1, OthersStand DEF SerialIInv
    <3>3. QED
      BY <3>1, <3>2
  <2>2. QED
    BY <2>1 DEF ReadsStand
<1>4. QED
  BY <1>1, <1>3, ParityKept DEF SerialIInv

LEMMA AuthenticateSerial ==
    ASSUME SerialIInv, IInv', NEW r \in Request, Turn(r), Authenticate(r)
    PROVE  SerialIInv'
<1>1. /\ pc'[r] \in {"get", "done"}
      /\ \A s \in Request \ {r} : pc'[s] = pc[s]
      /\ \A s \in Request : status'[s] = status[s] \/ status'[s] = 401
      /\ UNCHANGED <<users, votes, caller, target, result, seen, shown>>
  BY DEF Authenticate, GoTo, Respond, SerialIInv, IInv, TypeOK, database, fixed
<1>2. ResponseAgrees'
  BY <1>1 DEF SerialIInv, ResponseAgrees
<1>3. QED
  BY <1>1, <1>2, QuietSerial

LEMMA GetObjectSerial ==
    ASSUME SerialIInv, IInv', NEW r \in Request, Turn(r), GetObject(r)
    PROVE  SerialIInv'
<1>1. /\ pc'[r] \in {"find", "done"}
      /\ \A s \in Request \ {r} : pc'[s] = pc[s]
      /\ \A s \in Request : status'[s] = status[s] \/ status'[s] = 404
      /\ UNCHANGED <<users, votes, caller, target, result, seen, shown>>
  BY DEF GetObject, GoTo, Respond, SerialIInv, IInv, TypeOK, database, fixed
<1>2. ResponseAgrees'
  BY <1>1 DEF SerialIInv, ResponseAgrees
<1>3. QED
  BY <1>1, <1>2, QuietSerial

LEMMA FindExistingSerial ==
    ASSUME SerialIInv, IInv', NEW r \in Request, Turn(r), FindExisting(r)
    PROVE  SerialIInv'
<1>1. /\ \/ /\ pc'[r] = "delete"
            /\ \E v \in VotesOf(caller[r], target[r]) : v.id = seen'[r]
         \/ pc'[r] = "create" /\ VotesOf(caller[r], target[r]) = {}
      /\ \A s \in Request \ {r} : pc'[s] = pc[s] /\ seen'[s] = seen[s]
      /\ UNCHANGED <<users, votes, caller, target, result, status, shown>>
  BY DEF FindExisting, GoTo, SerialIInv, IInv, TypeOK, database, fixed
<1>2. ResponseAgrees'
  BY <1>1 DEF SerialIInv, ResponseAgrees
<1>3. QED
  BY <1>1, <1>2, QuietSerial

\* The response is built of what cast_vote returned and of what is there now.
LEMMA RefetchSerial ==
    ASSUME SerialIInv, IInv', NEW r \in Request, Turn(r), Refetch(r)
    PROVE  SerialIInv'
<1>1. /\ pc'[r] = "done" /\ pc[r] = "refetch"
      /\ \A s \in Request \ {r} : pc'[s] = pc[s]
      /\ \A s \in Request \ {r} : status'[s] = status[s] /\ shown'[s] = shown[s]
      /\ UNCHANGED <<users, votes, caller, target, result, seen>>
  BY DEF Refetch, GoTo, Respond, SerialIInv, IInv, TypeOK, database, fixed
<1>2. \/ status'[r] = 500
      \/ /\ shown'[r] = Annotations(caller[r], target[r])
         /\ status'[r] = IF result[r] = "created" THEN 201 ELSE 200
  BY DEF Refetch, Respond, SerialIInv, IInv, TypeOK
<1>3. VotesOf(caller[r], target[r]) # {} <=> result[r] = "created"
  BY <1>1 DEF SerialIInv, ReadsStand
<1>4. Annotations(caller[r], target[r]).mine <=> result[r] = "created"
  BY <1>3 DEF Annotations
<1>5. /\ status'[r] = 201 => shown'[r].mine
      /\ status'[r] = 200 => ~ shown'[r].mine
  BY <1>2, <1>4
<1>6. ResponseAgrees'
  BY <1>1, <1>5 DEF SerialIInv, ResponseAgrees
<1>7. QED
  BY <1>1, <1>6, QuietSerial DEF Running, Writing

LEMMA KillWorkerSerial ==
    ASSUME SerialIInv, IInv', NEW r \in Request, KillWorker(r)
    PROVE  SerialIInv'
<1>1. /\ pc'[r] = "lost"
      /\ \A s \in Request \ {r} : pc'[s] = pc[s]
      /\ UNCHANGED <<users, votes, caller, target, result, seen, status, shown>>
  BY DEF KillWorker, GoTo, SerialIInv, IInv, TypeOK, database, fixed
<1>2. ResponseAgrees'
  BY <1>1 DEF SerialIInv, ResponseAgrees
<1>3. QED
  BY <1>1, <1>2, QuietSerial DEF Running, Writing

-----------------------------------------------------------------------------
\* A statement that toggles the caller's vote on the target.
LEMMA ToggleSerial ==
    ASSUME SerialIInv, IInv', NEW r \in Request, Turn(r),
           NEW res \in {"created", "removed"},
           result[r] = "none", result' = [result EXCEPT ![r] = res],
           pc'[r] = "refetch",
           \A s \in Request \ {r} : pc'[s] = pc[s],
           UNCHANGED <<users, caller, target, seen, status, shown>>,
           \A u \in User, i \in Item :
              <<u, i>> # Key(r) => VotesOf(u, i)' = VotesOf(u, i),
           VotesOf(caller[r], target[r])' # {} <=> VotesOf(caller[r], target[r]) = {},
           VotesOf(caller[r], target[r])' # {} <=> res = "created"
    PROVE  SerialIInv'
<1>1. TakeTurns'
  BY TurnsAreKept DEF SerialIInv, Turn
<1>2. result'[r] = res /\ \A s \in Request \ {r} : result'[s] = result[s]
  BY DEF SerialIInv, IInv, TypeOK
<1>3. ReadsStand'
  <2>1. ASSUME NEW s \in Request
        PROVE  LET own == VotesOf(caller[s], target[s]) IN
               (/\ pc[s] = "delete" => \E v \in own : v.id = seen[s]
                /\ pc[s] = "create" => own = {}
                /\ pc[s] # "recover"
                /\ pc[s] = "refetch" => (own # {} <=> result[s] = "created"))'
    <3>1. CASE s = r
      BY <1>2, <3>1
    <3>2. CASE s # r
      <4>1. ASSUME pc[s] \in Running
            PROVE  VotesOf(caller[s], target[s])' = VotesOf(caller[s], target[s])
        <5>1. Key(s) # Key(r)
          BY <3>2, <4>1 DEF Turn
        <5>2. caller[s] \in User /\ target[s] \in Item
          BY DEF SerialIInv, IInv, TypeOK
        <5>3. VotesOf(caller[s], target[s])' = {v \in votes' : v.user = caller[s] /\ v.item = target[s]}
          BY DEF VotesOf
        <5>4. \A u \in User, i \in Item : u = caller[s] /\ i = target[s] =>
                 {v \in votes' : v.user = u /\ v.item = i} = VotesOf(u, i)
          BY <5>1 DEF Key, VotesOf
        <5>5. QED
          BY <5>2, <5>3, <5>4
      <4>2. QED
        BY <1>2, <3>2, <4>1, OthersStand DEF SerialIInv
    <3>3. QED
      BY <3>1, <3>2
  <2>2. QED
    BY <2>1 DEF ReadsStand
<1>4. ResponseAgrees'
  BY DEF SerialIInv, ResponseAgrees
<1>5. FiniteToggles' /\ RepeatToggles'
  BY ParityTurns
<1>6. QED
  BY <1>1, <1>3, <1>4, <1>5 DEF SerialIInv

\* existing.delete() removes the vote that was found, and with it the only one.
LEMMA DeleteExistingSerial ==
    ASSUME SerialIInv, IInv', NEW r \in Request, Turn(r), DeleteExisting(r)
    PROVE  SerialIInv'
<1>1. /\ pc[r] = "delete" /\ pc'[r] = "refetch"
      /\ votes' = votes \ {v \in votes : v.id = seen[r]}
      /\ result' = [result EXCEPT ![r] = "removed"]
      /\ \A s \in Request \ {r} : pc'[s] = pc[s]
      /\ UNCHANGED <<users, caller, target, seen, status, shown>>
  BY DEF DeleteExisting, Remove, Return, GoTo, SerialIInv, IInv, TypeOK, fixed
<1>2. result[r] = "none"
  BY <1>1 DEF SerialIInv, IInv, ResultsAreEarned, Writing
<1>3. \E v \in VotesOf(caller[r], target[r]) : v.id = seen[r]
  BY <1>1 DEF SerialIInv, ReadsStand
<1>4. \A v, w \in VotesOf(caller[r], target[r]) : v = w
  BY DEF SerialIInv, IInv, OneVotePerUserPerItem, VotesOf
<1>5. \A v \in votes : v.id = seen[r] => v \in VotesOf(caller[r], target[r])
  BY <1>1 DEF SerialIInv, IInv, SeenIsOwn
<1>6. VotesOf(caller[r], target[r])' = {}
  BY <1>1, <1>3, <1>4 DEF VotesOf
<1>7. ASSUME NEW u \in User, NEW i \in Item, <<u, i>> # Key(r)
      PROVE  VotesOf(u, i)' = VotesOf(u, i)
  BY <1>1, <1>5, <1>7 DEF VotesOf, Key
<1>8. QED
  BY <1>1, <1>2, <1>3, <1>6, <1>7, ToggleSerial

\* While the requests take turns the INSERT is never refused.
LEMMA CreateVoteSerial ==
    ASSUME SerialIInv, IInv', NEW r \in Request, Turn(r), CreateVote(r)
    PROVE  SerialIInv'
<1> DEFINE new == [id |-> nextVote, user |-> caller[r], item |-> target[r]]
<1>1. pc[r] = "create" /\ caller[r] \in User
  BY DEF CreateVote, SerialIInv, IInv, TypeOK
<1>2. VotesOf(caller[r], target[r]) = {}
  BY <1>1 DEF SerialIInv, ReadsStand
<1>3. MayInsert(caller[r], target[r])
  BY <1>1, <1>2 DEF SerialIInv, MayInsert
<1>4. /\ pc'[r] = "refetch"
      /\ votes' = votes \cup {new}
      /\ result' = [result EXCEPT ![r] = "created"]
      /\ \A s \in Request \ {r} : pc'[s] = pc[s]
      /\ UNCHANGED <<users, caller, target, seen, status, shown>>
  BY <1>3 DEF CreateVote, Return, GoTo, SerialIInv, IInv, TypeOK, fixed
<1>5. result[r] = "none"
  BY <1>1 DEF SerialIInv, IInv, ResultsAreEarned, Writing
<1>6. new \in VotesOf(caller[r], target[r])'
  BY <1>4 DEF VotesOf
<1>7. ASSUME NEW u \in User, NEW i \in Item, <<u, i>> # Key(r)
      PROVE  VotesOf(u, i)' = VotesOf(u, i)
  <2>1. ~ (new.user = u /\ new.item = i)
    BY <1>7 DEF Key
  <2>2. QED
    BY <1>4, <2>1 DEF VotesOf
<1> HIDE DEF new
<1>8. VotesOf(caller[r], target[r])' # {}
  BY <1>6
<1>9. QED
  BY <1>2, <1>4, <1>5, <1>7, <1>8, ToggleSerial

-----------------------------------------------------------------------------
LEMMA InitSerial == Init => SerialIInv
<1> SUFFICES ASSUME Init PROVE SerialIInv
  OBVIOUS
<1>1. IInv /\ users = User
  BY InitIInv DEF Init
<1>2. TakeTurns /\ ReadsStand /\ ResponseAgrees
  BY DEF Init, TakeTurns, ReadsStand, ResponseAgrees, Running, Writing
<1>3. ASSUME NEW k PROVE Toggles(k) = {}
  BY DEF Init, Toggles
<1>4. FiniteToggles
  BY <1>3, FS_EmptySet DEF FiniteToggles
<1>5. RepeatToggles
  <2>1. \A u, i : VotesOf(u, i) = {}
    BY DEF Init, VotesOf
  <2>2. \A k : Cardinality(Toggles(k)) = 0
    BY <1>3, FS_EmptySet
  <2>3. ~ 0 % 2 = 1
    OBVIOUS
  <2>4. QED
    BY <2>1, <2>2, <2>3 DEF RepeatToggles
<1>6. QED
  BY <1>1, <1>2, <1>4, <1>5 DEF SerialIInv

\* A step of nobody's request.
LEMMA ElsewhereSerial ==
    ASSUME SerialIInv, IInv',
           UNCHANGED <<users, votes, caller, target, pc, seen, result, status, shown>>
    PROVE  SerialIInv'
<1>1. TakeTurns' /\ ReadsStand' /\ ResponseAgrees'
  BY DEF SerialIInv, TakeTurns, ReadsStand, ResponseAgrees, Key, VotesOf
<1>2. QED
  BY <1>1, ParityKept DEF SerialIInv

LEMMA NextSerial == SerialIInv /\ [SerialNext]_vars => SerialIInv'
<1> SUFFICES ASSUME SerialIInv, [SerialNext]_vars PROVE SerialIInv'
  OBVIOUS
<1>1. IInv'
  BY SerialIsNext, NextIInv DEF SerialIInv
<1>2. ASSUME NEW r \in Request, Turn(r), Handle(r) PROVE SerialIInv'
  <2>1. ~ DeleteConcurrent(r)
    BY DEF DeleteConcurrent, SerialIInv, ReadsStand
  <2>2. QED
    BY <1>1, <1>2, <2>1, AuthenticateSerial, GetObjectSerial, FindExistingSerial,
       DeleteExistingSerial, CreateVoteSerial, RefetchSerial DEF Handle
<1>3. ASSUME NEW r \in Request, KillWorker(r) PROVE SerialIInv'
  BY <1>1, <1>3, KillWorkerSerial
<1>4. ASSUME NEW ct \in ContentType, InsertItem(ct) PROVE SerialIInv'
  BY <1>1, <1>4, ElsewhereSerial DEF InsertItem, fixed
<1>5. ASSUME NEW i \in items, DeleteItem(i) PROVE SerialIInv'
  BY <1>1, <1>5, ElsewhereSerial DEF DeleteItem, fixed
<1>6. CASE UNCHANGED vars
  BY <1>1, <1>6, ElsewhereSerial DEF vars
<1>7. QED
  BY <1>2, <1>3, <1>4, <1>5, <1>6 DEF SerialNext, Turn

\* When the requests of a user about an item take turns, nothing is lost between
\* them, whatever happens about other items.
THEOREM SerialInductive == SerialSpec => []SerialIInv
BY InitSerial, NextSerial, PTL DEF SerialSpec

\* A vote is there exactly after an odd number of toggles.
THEOREM RepeatsToggle == SerialSpec => []RepeatToggles
<1>1. SerialIInv => RepeatToggles
  BY DEF SerialIInv
<1>2. QED
  BY <1>1, SerialInductive, PTL

\* The response says of the vote what the item it carries says.
THEOREM ResponsesAgree == SerialSpec => []ResponseAgrees
<1>1. SerialIInv => ResponseAgrees
  BY DEF SerialIInv
<1>2. QED
  BY <1>1, SerialInductive, PTL
=============================================================================
