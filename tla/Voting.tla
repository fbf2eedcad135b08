------------------------------- MODULE Voting -------------------------------
(***************************************************************************)
(* The vote endpoint of the catalog API: POST /{resource}/{id}/vote/.      *)
(*                                                                         *)
(* A request is served by _VotableViewSetMixin.vote (apps/catalog/views),  *)
(* which calls cast_vote (apps/voting/services).  ATOMIC_REQUESTS is off   *)
(* and no transaction is opened, so every ORM statement commits by itself  *)
(* and the statements of several requests interleave.  One action here is  *)
(* one statement of the handler together with the Python up to the next.   *)
(* The environment is the sync process (which inserts items), the admin    *)
(* site (which deletes items, users and votes) and gunicorn (which kills a *)
(* worker whose request takes too long).                                   *)
(*                                                                         *)
(* A definition whose name ends in Bug is a plausible mistake in the code  *)
(* the next definition models.  No specification here uses it: replacing   *)
(* the definition by it shows that a property can tell the difference.     *)
(***************************************************************************)
EXTENDS Integers, FiniteSets

CONSTANTS
    User,         \* accounts that exist when the system starts
    ContentType,  \* the votable models: Character, Film, Starship
    Request,      \* vote requests clients send, each at most once
    MaxPk         \* bound: primary keys the sequence of a model hands out

ASSUME MaxPkIsNat == MaxPk \in Nat

\* The accounts are rows of a table.
ASSUME UsersAreFinite == IsFiniteSet(User)

VARIABLES
    \* The database.
    users,      \* rows of accounts_user
    items,      \* rows of the catalog tables
    nextPk,     \* the primary-key sequence of each catalog table
    votes,      \* rows of voting_vote
    nextVote,   \* the primary-key sequence of voting_vote
    \* The request being served.
    caller,     \* request.user
    target,     \* the item its URL names
    pc,         \* the next statement of the handler
    seen,       \* id of `existing` in cast_vote
    result,     \* what cast_vote returned
    status,     \* HTTP status of the response, 0 while there is none
    shown,      \* vote_count and is_voted_by_me of the response
    \* History, which the code does not keep.
    net,        \* rows the request's own statements inserted or deleted
    undercut    \* its row was removed by another after the request read it

database == <<users, items, nextPk, votes, nextVote>>
fixed    == <<caller, target>>
history  == <<net, undercut>>
vars     == <<users, items, nextPk, votes, nextVote, caller, target, pc, seen,
              result, status, shown, net, undercut>>

(***************************************************************************)
(* An item is a content type and a primary key, as in the GenericForeignKey *)
(* of Vote.  The database gives primary keys from a sequence: they are      *)
(* never used twice.                                                        *)
(***************************************************************************)
Item   == ContentType \X (1 .. MaxPk)
VoteId == Nat \ {0}
NoVote == 0
Vote   == [id : VoteId, user : User, item : Item]

\* Vote.objects.filter(user=u, content_type=..., object_id=...)
VotesOf(u, i) == {v \in votes : v.user = u /\ v.item = i}

\* Bug: the subquery filters by object_id alone.
AnnotationsBug(u, i) ==
    [count |-> Cardinality({v \in votes : v.item[2] = i[2]}),
     mine  |-> VotesOf(u, i) # {}]

\* The annotations of _with_vote_annotations, read in one SELECT.
Annotations(u, i) ==
    [count |-> Cardinality({v \in votes : v.item = i}),
     mine  |-> VotesOf(u, i) # {}]

Writing == {"delete", "create", "recover"}  \* existing has been read
Running == {"get", "find", "refetch"} \cup Writing

TypeOK ==
    /\ users \subseteq User
    /\ items \subseteq Item
    /\ nextPk \in [ContentType -> 1 .. MaxPk + 1]
    /\ votes \subseteq Vote
    /\ nextVote \in VoteId
    /\ caller \in [Request -> User]
    /\ target \in [Request -> Item]
    /\ pc \in [Request -> {"start", "done", "lost"} \cup Running]
    /\ seen \in [Request -> Nat]
    /\ result \in [Request -> {"none", "created", "removed"}]
    /\ status \in [Request -> {0, 200, 201, 401, 404, 500}]
    /\ shown \in [Request -> [count : Nat, mine : BOOLEAN]]
    /\ net \in [Request -> {-1, 0, 1}]
    /\ undercut \in [Request -> BOOLEAN]

Init ==
    /\ users = User
    /\ items = {}
    /\ nextPk = [ct \in ContentType |-> 1]
    /\ votes = {}
    /\ nextVote = 1
    /\ caller \in [Request -> User]
    /\ target \in [Request -> Item]
    /\ pc = [r \in Request |-> "start"]
    /\ seen = [r \in Request |-> NoVote]
    /\ result = [r \in Request |-> "none"]
    /\ status = [r \in Request |-> 0]
    /\ shown = [r \in Request |-> [count |-> 0, mine |-> FALSE]]
    /\ net = [r \in Request |-> 0]
    /\ undercut = [r \in Request |-> FALSE]

-----------------------------------------------------------------------------
(***************************************************************************)
(* The handler.                                                            *)
(***************************************************************************)
GoTo(r, label) == pc' = [pc EXCEPT ![r] = label]

Respond(r, code) ==
    /\ GoTo(r, "done")
    /\ status' = [status EXCEPT ![r] = code]

\* cast_vote returns, and the view goes on to re-fetch the item.
Return(r, res, rows) ==
    /\ GoTo(r, "refetch")
    /\ result' = [result EXCEPT ![r] = res]
    /\ net' = [net EXCEPT ![r] = rows]

\* The rows D leave the table by the hand of `by` (a set of requests).
Remove(D, by) ==
    /\ votes' = votes \ D
    /\ undercut' = [r \in Request |->
          \/ undercut[r]
          \/ /\ r \notin by
             /\ pc[r] \in Writing
             /\ VotesOf(caller[r], target[r]) \cap D # {}]

\* JWTAuthentication loads the user the token names.
Authenticate(r) ==
    /\ pc[r] = "start"
    /\ \/ /\ caller[r] \in users
          /\ GoTo(r, "get")
          /\ UNCHANGED status
       \/ /\ caller[r] \notin users
          /\ Respond(r, 401)
    /\ UNCHANGED <<database, fixed, history, seen, result, shown>>

\* instance = self.get_object()
GetObject(r) ==
    /\ pc[r] = "get"
    /\ \/ /\ target[r] \in items
          /\ GoTo(r, "find")
          /\ UNCHANGED status
       \/ /\ target[r] \notin items
          /\ Respond(r, 404)
    /\ UNCHANGED <<database, fixed, history, seen, result, shown>>

\* Bug: any vote of the item will do, the user is left out of the filter.
FindExistingBug(r) ==
    /\ pc[r] = "find"
    /\ \/ \E v \in {w \in votes : w.item = target[r]} :
             /\ seen' = [seen EXCEPT ![r] = v.id]
             /\ GoTo(r, "delete")
       \/ /\ \A w \in votes : w.item # target[r]
          /\ GoTo(r, "create")
          /\ UNCHANGED seen
    /\ UNCHANGED <<database, fixed, history, result, status, shown>>

\* existing = Vote.objects.filter(...).first()
FindExisting(r) ==
    /\ pc[r] = "find"
    /\ \/ \E v \in VotesOf(caller[r], target[r]) :
             /\ seen' = [seen EXCEPT ![r] = v.id]
             /\ GoTo(r, "delete")
       \/ /\ VotesOf(caller[r], target[r]) = {}
          /\ GoTo(r, "create")
          /\ UNCHANGED seen
    /\ UNCHANGED <<database, fixed, history, result, status, shown>>

\* existing.delete(): by primary key, and the number of rows is not looked at.
DeleteExisting(r) ==
    LET rows == {v \in votes : v.id = seen[r]} IN
    /\ pc[r] = "delete"
    /\ Remove(rows, {r})
    /\ Return(r, "removed", IF rows = {} THEN 0 ELSE -1)
    /\ UNCHANGED <<users, items, nextPk, nextVote, fixed, seen, status, shown>>

\* Bugs: no unique constraint; no constraint on the user's foreign key.
NotUniqueBug(u, i) == u \in users
NoForeignKeyBug(u, i) == VotesOf(u, i) = {}

\* What the INSERT checks: the unique constraint, and the user's foreign key.
\* The target has no foreign key.  A refused INSERT is an IntegrityError.
MayInsert(u, i) == VotesOf(u, i) = {} /\ u \in users

\* Bug: cast_vote lets the IntegrityError through.
UncaughtBug(r) == Respond(r, 500)

\* except IntegrityError
CatchIntegrityError(r) ==
    /\ GoTo(r, "recover")
    /\ UNCHANGED status

CreateVote(r) ==
    /\ pc[r] = "create"
    /\ nextVote' = nextVote + 1    \* a refused INSERT uses up its id as well
    /\ \/ /\ MayInsert(caller[r], target[r])
          /\ votes' = votes \cup
                {[id |-> nextVote, user |-> caller[r], item |-> target[r]]}
          /\ Return(r, "created", 1)
          /\ UNCHANGED status
       \/ /\ ~ MayInsert(caller[r], target[r])
          /\ CatchIntegrityError(r)
          /\ UNCHANGED <<votes, result, net>>
    /\ UNCHANGED <<users, items, nextPk, fixed, seen, shown, undercut>>

\* Bug: the concurrent vote is left in place and the request only says "un-voted".
NoCleanUpBug(r) ==
    /\ pc[r] = "recover"
    /\ Return(r, "removed", 0)
    /\ UNCHANGED <<database, fixed, seen, status, shown, undercut>>

\* Bug: the clean-up is not scoped to the user.
UnscopedCleanUpBug(r) ==
    LET rows == {v \in votes : v.item = target[r]} IN
    /\ pc[r] = "recover"
    /\ Remove(rows, {r})
    /\ Return(r, "removed", IF rows = {} THEN 0 ELSE -1)
    /\ UNCHANGED <<users, items, nextPk, nextVote, fixed, seen, status, shown>>

\* except IntegrityError: Vote.objects.filter(...).delete()
DeleteConcurrent(r) ==
    LET rows == VotesOf(caller[r], target[r]) IN
    /\ pc[r] = "recover"
    /\ Remove(rows, {r})
    /\ Return(r, "removed", IF rows = {} THEN 0 ELSE -1)
    /\ UNCHANGED <<users, items, nextPk, nextVote, fixed, seen, status, shown>>

\* Bug: the response is built from the instance fetched before the toggle.
RefetchBug(r) ==
    /\ pc[r] = "refetch"
    /\ shown' = [shown EXCEPT ![r] =
          [Annotations(caller[r], target[r]) EXCEPT !.mine = seen[r] # NoVote]]
    /\ Respond(r, IF result[r] = "created" THEN 201 ELSE 200)
    /\ UNCHANGED <<database, fixed, history, seen, result>>

\* self.get_queryset().get(pk=instance.pk), the serializer and the Response.
\* DoesNotExist is not an APIException: the handler answers 500.
Refetch(r) ==
    /\ pc[r] = "refetch"
    /\ \/ /\ target[r] \in items
          /\ shown' = [shown EXCEPT ![r] = Annotations(caller[r], target[r])]
          /\ Respond(r, IF result[r] = "created" THEN 201 ELSE 200)
       \/ /\ target[r] \notin items
          /\ Respond(r, 500)
          /\ UNCHANGED shown
    /\ UNCHANGED <<database, fixed, history, seen, result>>

Key(r) == <<caller[r], target[r]>>

Handle(r) ==
    \/ Authenticate(r)
    \/ GetObject(r)
    \/ FindExisting(r)
    \/ DeleteExisting(r)
    \/ CreateVote(r)
    \/ DeleteConcurrent(r)
    \/ Refetch(r)

-----------------------------------------------------------------------------
(***************************************************************************)
(* The environment.                                                        *)
(***************************************************************************)

\* gunicorn aborts a worker after --timeout seconds: the client gets no
\* response, and what has been committed stays.
KillWorker(r) ==
    /\ pc[r] \in Running
    /\ GoTo(r, "lost")
    /\ UNCHANGED <<database, fixed, history, seen, result, status, shown>>

\* Bug: a primary key that is free is used again.
InsertItemBug(ct) ==
    \E pk \in 1 .. MaxPk :
        /\ <<ct, pk>> \notin items
        /\ items' = items \cup {<<ct, pk>>}
        /\ nextPk' = nextPk
        /\ UNCHANGED <<users, votes, nextVote, fixed, history, pc, seen, result,
                       status, shown>>

\* The sync process or the admin site adds an item.
InsertItem(ct) ==
    /\ nextPk[ct] <= MaxPk
    /\ items' = items \cup {<<ct, nextPk[ct]>>}
    /\ nextPk' = [nextPk EXCEPT ![ct] = @ + 1]
    /\ UNCHANGED <<users, votes, nextVote, fixed, history, pc, seen, result,
                   status, shown>>

\* The admin site deletes an item.  The models declare no GenericRelation, so
\* the item's votes are not part of the cascade.
DeleteItem(i) ==
    /\ i \in items
    /\ items' = items \ {i}
    /\ UNCHANGED <<users, nextPk, votes, nextVote, fixed, history, pc, seen,
                   result, status, shown>>

\* Bug: Vote.user is on_delete=SET_NULL.
DeleteUserBug(u) ==
    /\ u \in users
    /\ users' = users \ {u}
    /\ votes' = {IF v.user = u THEN [v EXCEPT !.user = NoVote] ELSE v : v \in votes}
    /\ UNCHANGED <<items, nextPk, nextVote, fixed, history, pc, seen, result,
                   status, shown>>

\* The admin site deletes a user: Vote.user is on_delete=CASCADE.
DeleteUser(u) ==
    /\ u \in users
    /\ users' = users \ {u}
    /\ Remove({v \in votes : v.user = u}, {})
    /\ UNCHANGED <<items, nextPk, nextVote, fixed, pc, seen, result, status,
                   shown, net>>

\* The admin site deletes a vote.
DeleteVote(v) ==
    /\ v \in votes
    /\ Remove({v}, {})
    /\ UNCHANGED <<users, items, nextPk, nextVote, fixed, pc, seen, result,
                   status, shown, net>>

Environment ==
    \/ \E r \in Request : KillWorker(r)
    \/ \E ct \in ContentType : InsertItem(ct)
    \/ \E i \in items : DeleteItem(i)
    \/ \E u \in users : DeleteUser(u)
    \/ \E v \in votes : DeleteVote(v)

Next == (\E r \in Request : Handle(r)) \/ Environment

Spec == Init /\ [][Next]_vars

(***************************************************************************)
(* A client that waits for its answer before it asks again about the same  *)
(* item, on a site where no administrator removes votes or users.          *)
(***************************************************************************)
SerialNext ==
    \/ \E r \in Request :
          /\ \A s \in Request \ {r} : Key(s) = Key(r) => pc[s] \notin Running
          /\ Handle(r)
    \/ \E r \in Request : KillWorker(r)
    \/ \E ct \in ContentType : InsertItem(ct)
    \/ \E i \in items : DeleteItem(i)

SerialSpec == Init /\ [][SerialNext]_vars

(***************************************************************************)
(* Requests alone, on a catalog that is being filled: nobody deletes        *)
(* anything on the admin site, and no worker is killed.                     *)
(***************************************************************************)
RequestNext ==
    \/ \E r \in Request : Handle(r)
    \/ \E ct \in ContentType : InsertItem(ct)

RequestSpec == Init /\ [][RequestNext]_vars

-----------------------------------------------------------------------------
(***************************************************************************)
(* Properties.                                                             *)
(***************************************************************************)

\* However many requests pass the "is there a vote?" check together, a user
\* has at most one vote on an item: the look-up is no protection, the unique
\* constraint and the recovery of cast_vote are.
OneVotePerUserPerItem ==
    \A v, w \in votes : v.user = w.user /\ v.item = w.item => v = w

\* A vote belongs to an account that exists, also when the account is deleted
\* between the authentication of a request and its INSERT.
VotesHaveUsers == \A v \in votes : v.user \in users

\* An un-vote that removed no row has an excuse: after the request read the
\* table another request or an administrator removed the row it was about, or
\* the account was deleted.
MissHasCause ==
    \A r \in Request :
        result[r] = "removed" /\ net[r] = 0
            => undercut[r] \/ caller[r] \notin users

\* The vote endpoint fails with 500 only when the item is gone for good.
ServerErrorOnlyIfDeleted ==
    \A r \in Request : status[r] = 500 => target[r] \notin items

\* The count in a response is the count of this item: it never exceeds the
\* number of accounts (a count that mixes content types with equal primary
\* keys would), and it is at least 1 when the caller's own vote is shown.
CountIsPerItem ==
    \A r \in Request :
        /\ shown[r].count <= Cardinality(User)
        /\ shown[r].mine => shown[r].count >= 1

\* A new catalog item starts without votes, although votes of deleted items
\* stay in the table: a vote never refers to a primary key to come.
NoInheritedVotes ==
    [][\A i \in items' \ items : \A v \in votes' : v.item # i]_vars

\* Under SerialSpec: "Toggle vote (vote -> un-vote on repeat)" (README).  A
\* user's vote on an item is there after an odd number of toggles.
Toggles(k) == {r \in Request : Key(r) = k /\ result[r] # "none"}

RepeatToggles ==
    \A u \in User, i \in Item :
        VotesOf(u, i) # {} <=> Cardinality(Toggles(<<u, i>>)) % 2 = 1

\* Under SerialSpec: the two statements a response makes, `voted` and
\* is_voted_by_me of the item, agree.
ResponseAgrees ==
    \A r \in Request :
        /\ status[r] = 201 => shown[r].mine
        /\ status[r] = 200 => ~ shown[r].mine

\* Under RequestSpec: what the docstring of cast_vote says, "Returns (vote,
\* True) on create or (None, False) on delete."  The code returns (None, False)
\* without a delete as well, when another request of the user came first.
FalseMeansDeleted ==
    \A r \in Request : result[r] = "removed" => net[r] = -1

\* What the docstring of Vote says, "User vote for a catalog item": the item
\* exists.  Neither the code nor the schema keeps it so.
VotesHaveItems == \A v \in votes : v.item \in items

-----------------------------------------------------------------------------
(***************************************************************************)
(* Why the invariants hold: IInv is inductive.                              *)
(***************************************************************************)

\* No two rows share an id, and ids to come are free.
FreshIds ==
    /\ \A v, w \in votes : v.id = w.id => v = w
    /\ \A v \in votes : v.id < nextVote

\* Only finitely many rows have been written, so they can be counted.
FiniteTable == IsFiniteSet(votes)

\* Primary keys already given out: of the items, of the items that have votes,
\* and of the items whose requests got past get_object.
Issued(i) == i[2] < nextPk[i[1]]

OldTargets ==
    /\ \A i \in items : Issued(i)
    /\ \A v \in votes : Issued(v.item)
    /\ \A r \in Request :
          pc[r] \in {"find", "refetch"} \cup Writing \/ status[r] = 500
              => Issued(target[r])

\* The row read by FindExisting, as long as it is there, is the caller's own
\* vote on the target; and it is there unless the request was undercut.
SeenIsOwn ==
    \A r \in Request : pc[r] = "delete" =>
        /\ seen[r] < nextVote
        /\ \A v \in votes : v.id = seen[r] => v \in VotesOf(caller[r], target[r])
        /\ \/ \E v \in votes : v.id = seen[r]
           \/ undercut[r]
           \/ caller[r] \notin users

\* The row that refused an INSERT is there unless the request was undercut.
RivalStands ==
    \A r \in Request : pc[r] = "recover" =>
        \/ VotesOf(caller[r], target[r]) # {}
        \/ undercut[r]
        \/ caller[r] \notin users

\* A result is about rows, and only a request past cast_vote has one.
ResultsAreEarned ==
    \A r \in Request :
        /\ result[r] = "created" <=> net[r] = 1
        /\ result[r] = "none" => net[r] = 0
        /\ pc[r] \in {"start", "get", "find"} \cup Writing => result[r] = "none"
        /\ pc[r] = "refetch" => result[r] # "none"

IInv ==
    /\ TypeOK
    /\ OneVotePerUserPerItem
    /\ VotesHaveUsers
    /\ FreshIds
    /\ FiniteTable
    /\ OldTargets
    /\ SeenIsOwn
    /\ RivalStands
    /\ ResultsAreEarned
    /\ MissHasCause
    /\ ServerErrorOnlyIfDeleted

\* Under SerialSpec requests of one user about one item take turns,
TakeTurns ==
    \A r, s \in Request :
        r # s /\ Key(r) = Key(s) => ~ (pc[r] \in Running /\ pc[s] \in Running)

\* so that what a request has read, or done, is still so when it goes on.
ReadsStand ==
    \A r \in Request :
        LET own == VotesOf(caller[r], target[r]) IN
        /\ pc[r] = "delete" => \E v \in own : v.id = seen[r]
        /\ pc[r] = "create" => own = {}
        /\ pc[r] # "recover"
        /\ pc[r] = "refetch" => (own # {} <=> result[r] = "created")

FiniteToggles == \A k \in User \X Item : IsFiniteSet(Toggles(k))

SerialIInv ==
    /\ IInv
    /\ users = User
    /\ TakeTurns
    /\ ReadsStand
    /\ FiniteToggles
    /\ RepeatToggles
    /\ ResponseAgrees

-----------------------------------------------------------------------------
(***************************************************************************)
(* What the endpoint promises, VoteLedger, and how its state is read off    *)
(* this one: the ledger is the set of (user, item) pairs that have a row,   *)
(* and a request is open from its authentication to the return of cast_vote. *)
(***************************************************************************)
Phase(r) ==
    CASE result[r] = "created" -> "cast"
      [] result[r] = "removed" /\ net[r] = -1 -> "withdrawn"
      [] result[r] = "removed" /\ net[r] # -1 -> "missed"
      [] result[r] = "none" /\ pc[r] = "start" -> "idle"
      [] result[r] = "none" /\ pc[r] \in {"get", "find"} \cup Writing -> "open"
      [] OTHER -> "refused"

Pairs == {<<v.user, v.item>> : v \in votes}

Ledger == INSTANCE VoteLedger WITH
    members  <- users,
    ledger   <- Pairs,
    key      <- [r \in Request |-> Key(r)],
    phase    <- [r \in Request |-> Phase(r)],
    undercut <- undercut

\* Every interleaving of the handler's statements, with kills and deletions in
\* between, looks like a sequence of atomic toggles of single ledger entries.
RefinesLedger == Ledger!Spec
=============================================================================
