# A verification project for the Swapi platform

The platform (Django, DRF, Celery, PostgreSQL) copies the films, starships and
people of SWAPI into a database, serves them, and lets accounts vote for them.
This directory holds TLA+ models of its concurrent parts, the TLC runs that
check them, and TLAPS proofs. Paths below are relative to the repository.

## 1. The system

| Part | State | Operations | Uses |
|---|---|---|---|
| Vote endpoint, voting service (`apps/catalog/views.py`, `apps/voting`) | `voting_vote`, with a unique constraint on user, content type and object id, a foreign key to the user and none to the item | `POST /{resource}/{id}/vote/`: look up, delete or insert, recover from `IntegrityError`, re-fetch | accounts, catalog |
| Catalog (`apps/catalog`) | `Film`, `Starship`, `Character` rows keyed by `swapi_url`; many-to-many links | list and retrieve with vote annotations; written by the sync and by the admin site | voting |
| SWAPI client (`apps/swapi_sync/services/client.py`) | none between calls; one lazy generator per resource | `_get` with retry and linear backoff, `_paginate` | SWAPI |
| Sync service (`apps/swapi_sync/services/sync.py`) | the catalog tables; a `SyncResult` per run | `run_full_sync`: films, starships, characters, one transaction for each record | client, catalog |
| Task, trigger, beat, command (`apps/swapi_sync`) | the Celery queue in Redis | start a run; autoretry on `ServiceUnavailableError`; late acknowledgement | sync service |
| Accounts and JWT (`apps/accounts`) | users, refresh-token blacklist | register, login, refresh with rotation, me | DRF, simplejwt |
| Throttling (settings) | counters in a cache of each process | allow or refuse a request | all endpoints |
| Error envelope (`apps/common/exceptions.py`) | none | exception to status and JSON body | all endpoints |

How they interact: three gunicorn workers and two Celery workers
(`docker-compose.yml`) share one PostgreSQL at READ COMMITTED.
`ATOMIC_REQUESTS` is off, so each statement of a request commits by itself; a
sync opens one transaction per record. Nothing keeps two syncs apart, and the
admin site may delete any row at any time.

What is hard, and what correctness means:

* **Voting.** The handler looks first and writes later; only the unique
  constraint and the `except IntegrityError` stand between it and double votes.
  Whatever interleaves, a user has at most one vote on an item, every vote has an
  account, and every answer is that of an atomic toggle, or has an excuse.
* **Client.** Retries inside a lazy generator inside a loop: the consumer must
  get each record once and in order, and must not take a failure for the end. Only an
  answer that lacks what it should have may pass for a shorter resource.
* **Sync.** Runs overlap with each other, with deletions, with changes at SWAPI
  and with kills. Rows must be whole, links must lead somewhere, identities
  must be stable, each record accounted for, and a clean run must leave SWAPI's
  data behind.
* **Task.** Two processes of one worker, retries that are new messages, and
  acknowledgement after the work: an accepted task must not be lost, must use up
  its attempts before an outage fails it, and must end.
* **Accounts.** Registration looks first and inserts later, a refresh reads the
  blacklist first and writes it later, and an administrator deletes accounts in
  between. Names and addresses stay unique, and what was rotated or deleted is of no
  use. Registration is not one transaction: an error may leave an account behind, and
  a login must then be the way to it.
* **Rate limits.** The counters live in the memory of each process.

`PROJECT.json` lists the hazards with their lines.

## 2. The modules

| Module | Models |
|---|---|
| `VoteLedger` | abstract: a ledger of (user, item) pairs and atomic toggles |
| `Voting` | the vote endpoint, one action per SQL statement; admin site, sync inserts and gunicorn as environment |
| `MCVoting` | its instances |
| `VotingProofs`, `VotingRefinementProofs` | its theorems |
| `RecordStream` | abstract: the records of a resource, in order, until the end or an exception |
| `SwapiClient` | one iteration of the client |
| `SwapiClientProofs` | its theorems |
| `CatalogSync` | several `run_full_sync` on one database |
| `MCCatalogSync` | its instances |
| `CatalogSyncProofs` | its theorems |
| `SyncTask` | the Celery task: queue, processes of the worker, retries, late acknowledgement, result backend |
| `SyncTaskProofs` | its theorems |
| `Throttle` | `ScopedRateThrottle` in the memory of each process: the operations |
| `ThrottleProofs` | what its operations keep of a scope's limit, for the modules that use it |
| `MCThrottle` | the rate limits by themselves, for the votes |
| `ErrorEnvelope` | `custom_exception_handler` as a function of the exception |
| `Accounts` | register, login, refresh and me, one action per SQL statement; extends `Throttle` and `ErrorEnvelope` |
| `MCAccounts` | its instances |
| `AccountsProofs` | its theorems |
| `FoldTheorems` | no part of the system: lemmas about sums over finite sets and about joined pages, which the other proofs cite |

The two abstract modules say what a component promises; they are not translations
of code, and the property `RefinesLedger` or `DeliversStream` ties the code's
model to them.

Definitions whose name ends in `Bug` are mistakes somebody could make in the
code of the definition that follows them. No specification uses them. Putting
one in place of its neighbour must break a property, which shows that the
property depends on the code; `PROJECT.json` lists these pairs.

### Voting

`pc[r]` is the next statement of request `r`: `get` (`self.get_object()`),
`find` (the look-up), then `delete` or `create`, `recover` (the delete after an
`IntegrityError`), `refetch`, `done`. `lost` is a request whose worker was
killed. `Authenticate`, `GetObject`, `FindExisting`, `DeleteExisting`,
`CreateVote`, `DeleteConcurrent` and `Refetch` are these statements with the
Python up to the next. `MayInsert` is what the schema checks. `seen` is the
primary key of `existing`; Django deletes by it, so a vote that was withdrawn
and cast again in between is not touched. `net` and `undercut` are history
variables: how many rows a request really added or removed, and whether another
actor removed the row it was about.

The allow-list test of `cast_vote` always succeeds for the three view sets and is
left out, as is the cache of content types. An item's primary key comes from a
sequence, which PostgreSQL never turns back; `InsertItem` stands for the sync and
the admin site. Adding or editing a vote by hand in the admin site is left out.
So are failures of the database itself, which would also answer 500.

### SwapiClient

`Call(o)` is one turn of the loop of `_get`, for every outcome `o` that
`session.get` and `response.json` may have. "other" covers exceptions that the
code does not translate: the remaining kinds of `RequestException`, or a JSON
value that cannot be paged through. `NextUrl` and `YieldResult` are `_paginate`,
and `Read(o)` is what its `.get("results", [])` and `.get("next")` find: in an object
without `results` (`Keyless`) no results, and in one without `next` no next page.
No exception tells the consumer, so that such an answer of SWAPI skips the records of a page or
ends the iteration early. `RecordStream` allows just that: only a `Lapse`, an answer
that lacks something, may take records from what is `owed`, and the end comes when everything
owed has been delivered. A page is
a number and a result a pair of page and position. The pages do not change
during an iteration and their `next` links form a list; the code would follow
a cycle for ever.

### CatalogSync

A run alternates between the generator (`Fetch`, `FetchFails`, `NextResource`)
and one transaction for each record: `Upsert` (`update_or_create`, which locks the
row, or the unique key of the row it inserts), a `SetLinks` for each `.set()`,
and `Commit`. Nothing of a transaction is visible before `Commit`. There the
foreign keys of the links are checked, which Django declares deferred:
`TargetsUnlocked` waits for a transaction that holds a target and `TargetsExist`
decides. `RecordFails` is `except Exception` for every error at every point;
`CommitRefused` is the one that must happen. `RecordAborts` is a record that is
no object. `.set()` is skipped for an empty list, hence `toSet`; it is one step here, although
Django selects, deletes and inserts in turn. Records keep
the edition that was current when their page was fetched.

SWAPI sends its pages whole here: what becomes of an iteration when it does not is in
`SwapiClient`, and the run then ends without an error and without those records, which
`CleanRunMirrors` excludes. An administrator deletes rows in this module. Rows and links that
are added or edited by hand on the admin site are left out: the code makes no promise
about them, and the next sync overwrites what it reads.

`calm` is a history variable: since the run, and those that were active when it
began, started, SWAPI has published nothing and no row was deleted. It is the
condition under which a run without errors can be expected to leave SWAPI's data
behind, and it says nothing about overlapping or killed runs, which must not
matter.

The text of a record is abstracted to the number of its edition, which leaves
out the parsing of dates and numbers (`_parse_date`, `_parse_int`). A failed
insert uses up a primary key in PostgreSQL and does not here; only the
distinctness of keys matters to the properties.

### SyncTask

A message is a task id and a number of retries; `waiting` counts the copies of
each that nobody is running, because countdowns, prefetching and the restoring
of unacknowledged messages make their order arbitrary. `Trigger` is `.delay()`,
from `TriggerSyncView` or the beat. The management command runs the sync without
a task and is a run of `CatalogSync`. A process goes from `idle` to `run` (`Take`), and
its run is `Complete`, or ends by an exception: `Raise` for those that are not retried,
`Retry` and `EndRetry` for a `ServiceUnavailableError` with attempts left,
`Exhaust` for the last one, `RejectRetry` when the retry cannot be published (Celery
then rejects the message and stores nothing), `Abort` for the time limit and for a child process that dies, which
the worker reports as a failure. `Acknowledge` comes last
(`CELERY_TASK_ACKS_LATE`). `Crash` is the death of the worker: what it had not
acknowledged can be taken again after the visibility timeout.

The order of `Retry` and `EndRetry` is Celery's: the successor is published
before the state RETRY is stored. The other process may therefore end the task first,
and RETRY overwrites its FAILURE. This is why the properties
speak of messages and of how runs ended (`outcome`), and of the stored state
only for SUCCESS.

A state is stored in two Redis commands without a lock. `Store` is the first: the backend
reads the state and gives up if it is SUCCESS; otherwise `storing` has what the process is
going to write, and `Write` is the second. A process goes on when it has written (`Free`),
and may die in between. So a copy that has read STARTED may write over a SUCCESS that another
process stored meanwhile. `SuccessIsTold` says that there is no other way: a SUCCESS, once
written, is undone only by a process that had looked before, and it is missing only if the
process that was to write it was killed first. `undercut` is the history variable that
notes these two cases.

### Accounts, Throttle, ErrorEnvelope

`pc[r]` is again the next statement. For register: `name` and `mail` (the two
uniqueness validators), `save`, `issue` (the insert of the outstanding token); for
login: `authenticate`, `issue`; for refresh: `verify` (the blacklist), `owner`,
`blacklist`, `subject`, then `outstand` or `orphan`; for me: `user`. `Start`
puts a request on a free process and asks the throttle. Accounts are named by the
request that registered them and tokens by the request that issued them. Clients
ask for what a client can: they log in to accounts that somebody tried to register,
and refresh tokens that were handed out. A token may be
expired, a password wrong and a form invalid at any use. A request that the throttle refuses (`TurnAway`)
is answered before anybody reads what it asks for. `raced` and `late` are history
variables.

`Fail` is any statement that fails for a reason of its own: the answer is a 500, and what was
committed before stays. At `issue` of a registration this is an account without tokens, which
refuses the next attempt as taken, as a kill at that point is (`Kill`). The code has no transaction around the
two, so no property says that this cannot happen. `NobodyIsStranded` says that a login is the way out: with
the right password, to an account that is there from its start to its end, it gets tokens unless the
login itself fails. `LeftoversHaveCause`, a part of `IInv`, says that nothing but such a failure leaves an account
behind an error: not a refusal, and not a race.

Two answers stand for others that change nothing either: a login without a field (400) is one with
a wrong password (401), and an access token that cannot be read is one that has expired.

Login and refresh are simplejwt 5.5.1 under `SIMPLE_JWT`; the counting is Django REST
framework's. `Throttle!Declared` is the scope that the source writes at each view
and `ScopeOf` the one that `getattr(view, "throttle_scope", None)` finds. There is no
`CACHES` setting, hence a cache per process, which is lost with its process
(`Replace`). A cache keeps the times of the requests it let through, newest first and none
of them older than the window; the model counts, for each time, how many there are (`hits`), and `accepted` is the
same of all caches since the beginning, a history variable. An `Ident` is the address of a client, or its account when the
request is authenticated. `ErrorEnvelope` has the mapping of `_error_code_for` in its
order, with `isinstance`. An exception that Django REST framework knows and the mapping does
not (`NotAcceptable`, 406) keeps its status and gets the code `internal_error`.

Left out: changes of names, addresses and passwords and the deactivation of accounts in the
admin site; the cull of a cache with more than 300 entries.

## 3. The runs

| Run | Instance | States | Shows |
|---|---|---|---|
| `voting` | 2 users, 2 content types, 3 requests, 1 primary key for each type | 592,306 | invariants, `NoInheritedVotes`, refinement of `VoteLedger` |
| `voting_serial` | 2 users, 1 content type, 4 requests, 2 primary keys | 344,148 | repeats toggle, answers agree with the table |
| `swapi_client` | retry limits 0, 1, 3; up to 3 pages of up to 2 results; objects without a key | 52,302 | retry, backoff, delivery; refinement of `RecordStream` |
| `catalog_sync` | 2 runs; 2 films, 1 starship that moves between them, one film that turns into a null | 643,339 | safety of overlapping runs |
| `catalog_sync_live` | 2 runs; a film, a starship, a character with links to both | 244,492 | every run ends; clean runs are complete |
| `sync_task` | 1 task, 2 processes, 2 retries, 2 crashes of the worker | 672,699 | nothing accepted is lost, bounded repetition, every task ends |
| `accounts` | 3 requests, 2 processes, 2 names, 2 addresses, rate 1 in a window of 2 ticks, 1 kill or failing statement | 997,315 | unique accounts, dead tokens, no stranded owner, causes of a 500, the limit of `auth` |
| `voting_false_means_deleted`, `voting_dangling`, `sync_dropped_links`, `sync_bad_record`, `vote_throttle` | | | statements of the repository that the code does not keep |

**Why the bounds are enough.** The races in voting are between two
requests; the third makes a withdrawn vote come back while another request
still holds its key. Two content types with one primary key each are the
smallest case in which equal keys collide, and one key already lets
`NoInheritedVotes` fail when it is handed out twice. Four sequential requests are two
full toggles. A retry limit of 3 has a first, a middle and a last attempt, 0 is
the limit that never calls, and three pages have a middle one. In the sync, conflicts
are between two transactions; two editions are needed for runs that disagree,
two films for a link that moves, two records on a page for one that fails before
another. In the task, two retries give a first, a middle and a last attempt, two processes let copies
of one task overlap, and a crash may undo two deliveries and a second crash the delivery that the
first gave back. Tasks share nothing but the processes, so one is enough: no message names two of
them, and the proofs are for any number. In the accounts, two registrations race and a third request uses what they made, or
register, refresh and a late refresh follow each other; three requests over two
processes exceed the limit of either, and three ticks hold two windows. One mishap, a kill or a failing statement, leaves an
account behind, and the third request meets it. Requests, users, content types and runs are interchangeable; `voting`,
`voting_serial`, `catalog_sync` and `accounts` use that symmetry, and the runs with
liveness do not.

**Fairness.** Voting, the accounts and the client have none: they are safety only, and a client
that never gets an answer is a possible world. `CatalogSync!FairSpec` assumes weak
fairness of `Progress(r)` for each run: a process that can execute its next
statement eventually does, and PostgreSQL wakes up a transaction whose lock has
become free. Weak fairness suffices, and more would not be justified. No failure,
kill, start or administrator is fair. `EveryRunEnds` also relies on finite
pages and on SWAPI answering: a call either returns or fails by its timeout.
`SyncTask!FairSpec` assumes weak fairness of `Process(s)`: a process of the worker
takes a message when it is idle, ends its run (by the time limit if nothing else)
and acknowledges. Docker restarts a worker that dies (`restart: unless-stopped`).
No kind of ending is fair. All copies are used up in the end, because crashes are bounded.

**Deadlock checking** is off in every run, because every instance comes to an end:
requests are sent once and runs finish.

### Where the code and its documentation disagree

1. `voting_false_means_deleted`: `cast_vote` is documented to return
   `(None, False)` "on delete". Two un-votes that read the same row both return
   it, and one deletes nothing. The run has requests alone (`RequestSpec`: no deletions on the
   admin site, no kills), so that this is the trace. `MissHasCause` is what does hold.
2. `voting_dangling`: a vote is "for a catalog item", and the README says the
   allow-list mitigates the missing foreign key. The allow-list looks at the class of the
   item; votes of deleted items stay. `NoInheritedVotes` is what does hold.
3. `sync_dropped_links`: the sync "translates SWAPI payloads into catalog model
   rows"; an empty list leaves the old links. `CleanRunMirrors` is what does hold.
4. `sync_bad_record`: "one bad record shouldn't abort the run". A `null` in the
   results does, because the except clause calls `data.get`.
5. `vote_throttle`: the settings limit votes to `60/min`. The vote action sets
   `throttle_scope` on its function, where the throttle does not look: votes are not
   limited. `AuthIsLimited` is what holds of the limit that works: per window, the
   rate times the number of caches.

## 4. The proofs

The proofs hold for every value of the constants that satisfies the named assumptions of
the module; the bounds that TLC needs on counters are constants as well. Every invariant and every
property of steps of the passing runs is proved, and so are both refinements. What is left
to TLC is liveness.

### Sums and pages (`FoldTheorems`)

Four invariants speak of `MapThenSumSet`, `SumFunction` or `FlattenSeq`, which the community
modules define by recursion. The prover cannot use the library's induction theorems, but it can
take a minimal counterexample: among the finite sets (or the lengths) at which a fact fails
there is a least one (`LeastNat`, `LeastSet`), and one step of the recursion refutes it. In
this way `SumExists` shows that the recursive definition of a sum has a solution, and `SumStep`
that it does not matter which element is taken first. `SumUpdate`, `SumOverDeal`,
`SumFunctionBound`, `FlattenStep` and the rest follow, and are what the proofs of the components
cite.

### The vote endpoint

For any sets of content types and requests, any finite set of users
(`UsersAreFinite`: a table has finitely many accounts, and otherwise no count is a
number) and any `MaxPk \in Nat` (`MaxPkIsNat`), TLAPS checks:

* `Inductive`: `Spec => []IInv`. From it `TypeCorrect`, `OneVote`,
  `NoOrphanedVotes`, `MissesAreExcused`, `ServerErrors`, `CountsStayPerItem` and, as a
  property of steps, `FreshItemsHaveNoVotes`.
* `SerialInductive`: `SerialSpec => []SerialIInv`, and from it `RepeatsToggle` and
  `ResponsesAgree`, where the requests of one user about one item do not overlap.
* `ImplementsLedger`: `Spec => RefinesLedger`, the endpoint implements
  `VoteLedger`.

`IInv` strengthens what it is to show with six facts. `FreshIds`: rows have
distinct ids and ids to come are free, so that a delete by primary key removes
at most one row. `FiniteTable`: rows can be counted. `OldTargets`: whatever was
read or has votes has a primary key already handed out, so a 500 means an item
that cannot come back, and a new item has no votes. `SeenIsOwn`: the row that a
request is about to delete is its caller's vote on its target, and it stands
unless the request was undercut. `RivalStands`: the same of the row that refused an
INSERT; this is why the recovery deletes something or has an excuse.
`ResultsAreEarned`: results go with rows added or removed. `IInv` is an invariant of the run `voting`
as well. The proof has a lemma for each action; the two deletes share
`UnvotesByIInv`, and the admin's two share `AdminRemoveIInv`.

`CountsStayPerItem` needs one fact more: the rows of an item belong to as many accounts
(`CountsAccounts`), so that the count is at most the number of users and at least one for a
user who has voted.

`SerialIInv` has `IInv`, and says why sequential requests are exact. `TakeTurns`: of the
requests of one user about one item at most one is at work. `ReadsStand`: what it has read of that vote still
holds, since nobody else writes it; so an INSERT is never refused. `FiniteToggles`: the toggles of a user
on an item can be counted, and the vote is there exactly if their number is odd.
`ElsewhereSerial` covers the actions of `SerialNext` that are not a request's.

The refinement maps the rows to pairs and the control state to `Phase`. Look-ups,
reads and a refused INSERT are stutters; the INSERT, the deletes and the kill of
a request that has not written are the ledger's steps.

### The client

For any pages, retry limits and backoff (`ClientAssumption`: they are natural numbers, and
there may be a page), `Inductive` is `Spec => []IInv`; `Typed`, `RetriesAreDisciplined`,
`UnavailableIsEarned` and `PausesAreLinear` follow. `StreamIsDelivered` is
`Spec => DeliversStream`: the client implements `RecordStream`.

`CallsAccounted` ties the log of all calls to the loop of `_get`: no page ahead was asked for, and
the calls of this page are all failures, one for each attempt made, for as long as the loop runs. With it
`UnavailableMeansExhausted` is a consequence and `RetryDiscipline` is inductive. `InStep` says that the payload
is about the page at hand, whole or lacking a key, and that what was yielded and what is owed make up
the resource as long as no answer lacked one. A step of the generator then yields the head of `Owed`, and an answer
with both keys leaves `Owed` as it is; one without maps to `Lapse`. `BackoffIsLinear` sums over all pages; a step adds to one
summand (`BackoffStep`).

### The sync

`CatalogAssumption` says that the catalog is a sequence of resources, each of them pages of
URLs, that no URL is in two resources (it contains the resource's name), that every
record has a first edition and that `Free` is no run. `LinksGoBack` says what the upserts
read: of a film no links, of a starship those to films, of a person those to both. For any number of runs
`SyncInductive` is `Spec => []IInv`. `IInv` has two halves.

`Safe` gives `SyncTypeCorrect`, `LinksLeadToRows`,
`RowsStayWhole` and, for steps, `IdentitiesAreStable`. Both
`LinksPointToRows` and `IdentityIsStable` need `LocksAreHeld`: a transaction holds its
record's lock, so that the row it found is still the one it updates, and its commit moves
no id that others have linked to; the rest of `LinksPointToRows` is the constraint. `RowsAreWhole` needs two more facts. `SetLinksAreTargets`: after a `.set()` what will be linked are rows that
the record names, although links are ids and rows come and go meanwhile. This holds only
because an id never comes to mean another row, which is `KeysAreOwned`: a key belongs to one
row, or to the transaction that will insert it, and no other transaction has linked to it yet.
Steps that write no row (`Fetch`, a record that fails, a kill, SWAPI) share `QuietSafe`;
`UpsertSafe`, `SetLinksSafe`, `CommitSafe` and `DeleteRowSafe` are the others.

`CleanKept` gives `CleanRunsMirror`, for steps. Every record is ahead of a run (`Ahead`: of a
later resource, on a page to come, in the buffer) or behind it. `SettledIsMirrored`: a record that is behind an active,
calm run without errors is `Mirrored`, that is, its row has the current edition, its targets have
rows, and its links are these. At the end of a run nothing is ahead of it, which is the theorem.
The order of the resources comes in once, in `TargetsHaveRows`: by `LinksGoBack` the targets of the record at hand
are behind the run, so they are mirrored, so they have rows, so none is missing from the `.set()`.
`WritesMirror` is what a transaction will commit, for runs without errors, and also for a run with errors
if another run is past the record: a run that failed to insert a film may hold a starship whose links
leave that film out, and it must not commit them over the work of a run without errors. It
does not: the targets of a settled record have rows, and a record does not become settled while
another run holds its lock. `RunsAreCurrent` has the
rest: active runs are calm together or not at all, and a calm run's buffer has current editions.

`EveryRecordIsCounted` needs only `Safe` and a sum over the pages fetched: `Fetch` adds one page to
them, `NextResource` none (`CountStep`).

### The Celery task

`TaskAssumption` asks for natural numbers of retries and crashes and for finitely many
processes, so that the copies a crash gives back can be counted. For any number of
tasks `TaskInductive` is `Spec => []IInv`, and `TaskTypeCorrect`, `NoTaskIsLost`,
`OutagesUseUpAttempts`, `SuccessOutlastsCopies` and `RunsStayBounded` follow. `IInv` adds three facts to these
properties. `StoresAreInStep`, for `SuccessIsTold`: SUCCESS is only about to be written for a run that was complete, and
whoever is about to write another state over a SUCCESS had looked before it was written. `AttemptsAreMade`: a message that carries `n` retries, in the queue or in
a process, comes after at least `n` starts of its task, and one more once it runs. Without it the last attempt
of a task would only be known to carry the highest number, not to be preceded by
the others. `BudgetKept`, for `RunsAreBounded`: the starts a task has had, and those that its copies in the queue
and its running processes may still lead to (`Budget`), are at most one series of attempts, and one more for each
delivery that a crash undid. A copy with `n` retries stands for `MaxRetries + 1 - n` starts; taking it turns one
of them into a start, and `Retry` hands the others on. The hard step is `Crash`: every message that is given back was in
exactly one process, so that the queue then holds what the processes held (`SumOverDeal`).

### The accounts and the throttle

`AccountsInductive` is `Spec => []IInv` for any requests, names, addresses, rates and any finite
set of processes (`ThrottleAssumption`; a gunicorn has finitely many workers) with a rate for `auth` (`AuthIsRated`, as in the settings).
`IInv` is `ViewsKept /\ GateKept("auth")`.

`ViewsKept` gives `NamesAreUnique`, `LeftoversAreUsable`, `OldTokensAreInvalid`,
`DeletedAccountsAreOut` and `InternalErrorsHaveCauses`. Its parts:
`StagesMatch` (a request is at a statement of its view; an account's registration
is past its INSERT), `RotatedIsBlacklisted` (a refresh past its write has written),
`LateStops` (how far a request gets that came after a rotation or a deletion, and
that both are for good), `PresentIsSaved` (an account that a login finds has been saved once and for all,
so that nothing but a deletion takes it away), `LeftoversHaveCause`, and `AloneIsCurrent` (what a request has read still holds unless
somebody else came in between, and only then can a constraint refuse its
write). The last is what makes an `IntegrityError`, and so a 500, need a cause. None of it
depends on the throttle, which may refuse whatever it likes.
Most statements move one request and change no account. They share the lemma `WalkViewsKept`:
such a step (`Walk`) keeps `ViewsKept` if the place where it arrives is deserved (`Earned`), and
each action's lemma only shows this. `SaveViewsKept`, `StartViewsKept`, `TurnAwayViewsKept`, `DeleteUserViewsKept` and
`KillViewsKept` are the steps of another shape. `EachHasItsCode` evaluates `_error_code_for` for the
exceptions that end a request.

`GateKept` gives `AuthStaysLimited`; with `StateOK` it gives `AccountsTypeCorrect`. `AuthIsLimited` speaks of every window, and
the caches forget. `OpenWindows` bounds a window that is not over: what was let through in it is at most what the
living caches remember of it, plus the rate for each cache that was lost; and no
cache remembers more than the rate. A request that is let through adds one to both sides and finds room in its cache
(`GateAdmits`); dropping old times changes nothing of an open window; `Replace` moves the memory of one cache into the
term for lost ones (`GateReplaces`); time closes windows (`GateTicks`). `ThrottleProofs` has this for any scope, and
`NextGateKept` is its use.

### Only model-checked

Liveness under fairness (`EveryTaskEnds`, `EveryRunEnds`) stays with TLC: the prover does no
reasoning about fairness. The strengthened invariants `SerialIInv` of the votes and `IInv` of the client are proved and are in no
run; TLC has checked them on the instances of `voting_serial` and `swapi_client`. The other inductive invariants are
invariants of runs.

## 5. Not modelled, and the plan

No safety property of a passing run is left without a theorem. What could be added: the order in
which a slow and a fast run write editions of one record (a slow run may commit an older one after the newer;
the next sync corrects it, and no text promises more), and the state RETRY that a retry may
store after the task has ended.

Left out for good:

* Listing, filtering, search and serialisation, which change no state. Starships and
  characters are paged by `name`, which is not unique; the order of equal names is
  PostgreSQL's choice, and nothing in the code bears on it.
* The loss of Redis, which has no volume: no code restores a queue.
* Rows and links that an administrator adds or edits by hand.
* A `next` cycle at SWAPI, which only the time limit ends.
* Settings, images, start-up scripts and migrations; the internals of
  PostgreSQL, Redis, Celery, Django and gunicorn beyond what the modules say of them.
