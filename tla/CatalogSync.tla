----------------------------- MODULE CatalogSync -----------------------------
(***************************************************************************)
(* run_full_sync (apps/swapi_sync/services/sync) as several processes run   *)
(* it at once on one database: Celery workers and the sync_swapi command.   *)
(* Nothing in the code keeps two runs apart.                               *)
(*                                                                         *)
(* A record is upserted in one transaction of PostgreSQL at READ COMMITTED. *)
(* What interleaves are its statements: update_or_create locks the row (or  *)
(* the unique key of the row it inserts) until the end of the transaction;  *)
(* each .set() reads the committed ids of its targets; the foreign keys of  *)
(* the links are checked by the commit.  Between any two of them an         *)
(* administrator may delete rows and SWAPI may publish new editions.        *)
(*                                                                         *)
(* The text of a record is abstracted to the number of its edition.  SWAPI  *)
(* sends its pages whole: what an answer without "results" or "next" makes  *)
(* of an iteration is in SwapiClient.  A .set() is one step, although it is  *)
(* a SELECT, a DELETE and an INSERT.  Rows and links that an administrator  *)
(* adds or edits are left out; rows that one deletes are not.               *)
(*                                                                         *)
(* Definitions whose name ends in Bug are mistakes to test properties with. *)
(***************************************************************************)
EXTENDS Integers, Sequences, FiniteSetsExt

CONSTANTS
    Run,        \* executions of run_full_sync
    Catalog,    \* SWAPI's films, starships and people: for each resource the
                \* sequence of its pages, and a page is a sequence of URLs
    Links,      \* Links[u][e]: the URLs that edition e of record u refers to, in
                \* the fields that the upsert reads
    NotObject,  \* pairs of a URL and an edition of it that is no JSON object
    Free        \* not a run

VARIABLES
    edition,    \* SWAPI: the current edition of each record
    row,        \* primary key of the row with this swapi_url, 0 without one
    value,      \* edition its columns were filled from
    links,      \* its rows in the many-to-many tables, as ids of the targets
    nextPk,     \* primary-key sequence of each table
    lock,       \* the run whose transaction holds the row or its unique key
    at,         \* where a run is, or how it ended
    stage,      \* the resource it iterates over
    pageNo,     \* the page the client asks for next
    buffer,     \* records of the current page not processed yet
    pk,         \* the row of its transaction
    toSet,      \* resources whose links are still to be set
    added,      \* links its transaction inserts
    removed,    \* links its transaction deletes
    synced,     \* SyncResult: the *_synced counters together
    errors,     \* SyncResult: len(errors)
    calm        \* history: since this run and those it overlaps with began,
                \* SWAPI has published nothing and no row was deleted

tables == <<row, value, links>>
trans  == <<pk, toSet, added, removed>>
counts == <<synced, errors>>
place  == <<stage, pageNo>>
vars   == <<edition, row, value, links, nextPk, lock, at, stage, pageNo, buffer,
            pk, toSet, added, removed, synced, errors, calm>>

Resources == DOMAIN Catalog
UrlsOf(s) == UNION {{Catalog[s][p][i] : i \in DOMAIN Catalog[s][p]} :
                    p \in DOMAIN Catalog[s]}
Url       == UNION {UrlsOf(s) : s \in Resources}
Table(u)  == CHOOSE s \in Resources : u \in UrlsOf(s)
Id(u)     == <<Table(u), row[u]>>
Present   == {u \in Url : row[u] # 0}
Editions  == UNION {DOMAIN Links[u] : u \in Url}

ASSUME CatalogAssumption ==
    /\ Catalog \in Seq(Seq(Seq(Url))) \ {<<>>}
    /\ \A s, t \in Resources : s # t => UrlsOf(s) \cap UrlsOf(t) = {}
    /\ \A u \in Url : 0 \in DOMAIN Links[u]
    /\ Free \notin Run

\* Of a film no links are read, of a starship those to films, of a person those
\* to films and starships.
ASSUME LinksGoBack ==
    \A u \in Url : \A e \in DOMAIN Links[u] : \A v \in Links[u][e] \cap Url : Table(v) < Table(u)

Working == {"iterate", "transaction"}
Ended   == {"finished", "clientError", "recordError", "killed"}

TypeOK ==
    /\ edition \in [Url -> Editions]
    /\ row \in [Url -> Nat]
    /\ value \in [Url -> Editions]
    /\ links \in [Url -> SUBSET (Resources \X Nat)]
    /\ nextPk \in [Resources -> Nat \ {0}]
    /\ lock \in [Url -> Run \cup {Free}]
    /\ at \in [Run -> {"queued"} \cup Working \cup Ended]
    /\ stage \in [Run -> Resources]
    /\ pageNo \in [Run -> Nat \ {0}]
    /\ buffer \in [Run -> Seq(Url \X Editions)]
    /\ pk \in [Run -> Nat]
    /\ toSet \in [Run -> SUBSET Resources]
    /\ added \in [Run -> SUBSET (Resources \X Nat)]
    /\ removed \in [Run -> SUBSET (Resources \X Nat)]
    /\ synced \in [Run -> Nat]
    /\ errors \in [Run -> Nat]
    /\ calm \in [Run -> BOOLEAN]

Init ==
    /\ edition = [u \in Url |-> 0]
    /\ row = [u \in Url |-> 0]
    /\ value = [u \in Url |-> 0]
    /\ links = [u \in Url |-> {}]
    /\ nextPk = [s \in Resources |-> 1]
    /\ lock = [u \in Url |-> Free]
    /\ at = [r \in Run |-> "queued"]
    /\ stage = [r \in Run |-> 1]
    /\ pageNo = [r \in Run |-> 1]
    /\ buffer = [r \in Run |-> <<>>]
    /\ pk = [r \in Run |-> 0]
    /\ toSet = [r \in Run |-> {}]
    /\ added = [r \in Run |-> {}]
    /\ removed = [r \in Run |-> {}]
    /\ synced = [r \in Run |-> 0]
    /\ errors = [r \in Run |-> 0]
    /\ calm = [r \in Run |-> TRUE]

-----------------------------------------------------------------------------
(***************************************************************************)
(* The run.                                                                *)
(***************************************************************************)
Active == {r \in Run : at[r] \in Working}

Start(r) ==
    /\ at[r] = "queued"
    /\ at' = [at EXCEPT ![r] = "iterate"]
    /\ calm' = [calm EXCEPT ![r] = \A q \in Active : calm[q]]
    /\ UNCHANGED <<edition, tables, nextPk, lock, place, buffer, trans, counts>>

\* The generator of the client asks for the next page (see SwapiClient), whose
\* records the run then works on as they were in the response.
Fetch(r) ==
    /\ at[r] = "iterate"
    /\ buffer[r] = <<>>
    /\ pageNo[r] \in DOMAIN Catalog[stage[r]]
    /\ buffer' = [buffer EXCEPT ![r] =
          LET page == Catalog[stage[r]][pageNo[r]]
          IN  [i \in DOMAIN page |-> <<page[i], edition[page[i]]>>]]
    /\ pageNo' = [pageNo EXCEPT ![r] = @ + 1]
    /\ UNCHANGED <<edition, tables, nextPk, lock, at, stage, trans, counts, calm>>

\* The client raises: the for statement is outside of the try, and the run
\* ends with the exception, without a SyncResult.
FetchFails(r) ==
    /\ at[r] = "iterate"
    /\ buffer[r] = <<>>
    /\ pageNo[r] \in DOMAIN Catalog[stage[r]]
    /\ at' = [at EXCEPT ![r] = "clientError"]
    /\ UNCHANGED <<edition, tables, nextPk, lock, place, buffer, trans, counts, calm>>

\* Bug: characters are synced before the starships they refer to.
AfterBug(s) == CASE s = 1 -> 3 [] s = 3 -> 2 [] OTHER -> 0

\* Bug: the iteration runs past the last resource.
AfterLastBug(s) == s + 1

\* sync_films, sync_starships, sync_characters; 0 after the last.
After(s) == IF s + 1 \in Resources THEN s + 1 ELSE 0

NextResource(r) ==
    /\ at[r] = "iterate"
    /\ buffer[r] = <<>>
    /\ pageNo[r] \notin DOMAIN Catalog[stage[r]]
    /\ \/ /\ After(stage[r]) # 0
          /\ stage' = [stage EXCEPT ![r] = After(@)]
          /\ pageNo' = [pageNo EXCEPT ![r] = 1]
          /\ UNCHANGED at
       \/ /\ After(stage[r]) = 0
          /\ at' = [at EXCEPT ![r] = "finished"]
          /\ UNCHANGED place
    /\ UNCHANGED <<edition, tables, nextPk, lock, buffer, trans, counts, calm>>

\* The record at hand: its URL, its edition, and what it says of resource s.
TheUrl(r)       == Head(buffer[r])[1]
TheEdition(r)   == Head(buffer[r])[2]
Targets(u, e, s) == Links[u][e] \cap UrlsOf(s)

\* Bug: an insert that neither waits for nor fails on the unique key.
MayLockBug(r, u) == lock[u] = Free \/ row[u] = 0
MayLock(r, u)    == lock[u] = Free

\* Bug: the columns are written outside of the transaction of the links.
WriteNothingYetBug(r, u) ==
    /\ row' = [row EXCEPT ![u] = pk'[r]]
    /\ value' = [value EXCEPT ![u] = TheEdition(r)]
    /\ UNCHANGED links

\* Nobody sees the row before the commit.
WriteNothingYet(r, u) == UNCHANGED tables

\* update_or_create(swapi_url=..., defaults=...).  An empty list of URLs is
\* skipped: `if film_urls:`.
Upsert(r) ==
    LET u == TheUrl(r) IN
    /\ at[r] = "iterate"
    /\ buffer[r] # <<>>
    /\ Head(buffer[r]) \notin NotObject
    /\ MayLock(r, u)
    /\ lock' = [lock EXCEPT ![u] = r]
    /\ IF row[u] # 0
         THEN /\ pk' = [pk EXCEPT ![r] = row[u]]
              /\ UNCHANGED nextPk
         ELSE /\ pk' = [pk EXCEPT ![r] = nextPk[Table(u)]]
              /\ nextPk' = [nextPk EXCEPT ![Table(u)] = @ + 1]
    /\ WriteNothingYet(r, u)
    /\ toSet' = [toSet EXCEPT ![r] =
                    {s \in Resources : Targets(u, TheEdition(r), s) # {}}]
    /\ at' = [at EXCEPT ![r] = "transaction"]
    /\ UNCHANGED <<edition, place, buffer, added, removed, counts, calm>>

\* .films.set(...), then .starships.set(...): the ids of the targets that have
\* a row are compared with the ids that are linked.
IsNext(r, s) == s \in toSet[r] /\ \A t \in toSet[r] : s <= t

SetLinks(r, s) ==
    LET u   == TheUrl(r)
        new == {Id(v) : v \in Targets(u, TheEdition(r), s) \cap Present}
        old == {id \in links[u] : id[1] = s}
    IN
    /\ at[r] = "transaction"
    /\ IsNext(r, s)
    /\ toSet' = [toSet EXCEPT ![r] = @ \ {s}]
    /\ added' = [added EXCEPT ![r] = @ \cup (new \ old)]
    /\ removed' = [removed EXCEPT ![r] = @ \cup (old \ new)]
    /\ UNCHANGED <<edition, tables, nextPk, lock, at, place, buffer, pk, counts, calm>>

\* The local variables of the upsert are gone.
Forget(r) ==
    /\ pk' = [pk EXCEPT ![r] = 0]
    /\ toSet' = [toSet EXCEPT ![r] = {}]
    /\ added' = [added EXCEPT ![r] = {}]
    /\ removed' = [removed EXCEPT ![r] = {}]

\* Bug: the locks of the transaction are not given up.
EndRecordBug(r) ==
    /\ buffer' = [buffer EXCEPT ![r] = Tail(@)]
    /\ at' = [at EXCEPT ![r] = "iterate"]
    /\ Forget(r)
    /\ UNCHANGED <<edition, nextPk, lock, place, calm>>

\* The transaction is over and the loop goes on with the next record.
EndRecord(r) ==
    /\ lock' = [u \in Url |-> IF lock[u] = r THEN Free ELSE lock[u]]
    /\ buffer' = [buffer EXCEPT ![r] = Tail(@)]
    /\ at' = [at EXCEPT ![r] = "iterate"]
    /\ Forget(r)
    /\ UNCHANGED <<edition, nextPk, place, calm>>

\* Bug: no foreign-key constraints on the many-to-many tables.
TargetsExistBug(r) == TRUE

\* What the commit checks.  It waits for transactions that hold a target.
TargetsExist(r)   == added[r] \subseteq {Id(v) : v \in Present}
TargetsUnlocked(r) == \A v \in Present : Id(v) \in added[r] => lock[v] = Free

\* Bug: .add() in the place of .set().
LinksAfterBug(r, u) == links[u] \cup added[r]

LinksAfter(r, u) == (links[u] \ removed[r]) \cup added[r]

Commit(r) ==
    LET u == TheUrl(r) IN
    /\ at[r] = "transaction"
    /\ toSet[r] = {}
    /\ TargetsUnlocked(r)
    /\ TargetsExist(r)
    /\ row' = [row EXCEPT ![u] = pk[r]]
    /\ value' = [value EXCEPT ![u] = TheEdition(r)]
    /\ links' = [links EXCEPT ![u] = LinksAfter(r, u)]
    /\ synced' = [synced EXCEPT ![r] = @ + 1]
    /\ EndRecord(r)
    /\ UNCHANGED errors

\* Bug: the record that failed is taken for synced as well.
CountErrorBug(r) ==
    /\ errors' = [errors EXCEPT ![r] = @ + 1]
    /\ synced' = [synced EXCEPT ![r] = @ + 1]

CountError(r) == errors' = [errors EXCEPT ![r] = @ + 1] /\ UNCHANGED synced

\* except Exception: the upsert raises (a record without a url, a value the
\* table refuses, a foreign key that the commit refuses, a database error), the
\* transaction is rolled back and the record is counted as an error.
RecordFails(r) ==
    /\ at[r] \in Working
    /\ buffer[r] # <<>>
    /\ Head(buffer[r]) \notin NotObject
    /\ CountError(r)
    /\ EndRecord(r)
    /\ UNCHANGED tables

\* The commit finds that a target is gone.
CommitRefused(r) ==
    /\ at[r] = "transaction"
    /\ toSet[r] = {}
    /\ TargetsUnlocked(r)
    /\ ~ TargetsExist(r)
    /\ RecordFails(r)

\* A record that is no JSON object has no .get: the upsert raises, and so does
\* the except clause that is to report it.
RecordAborts(r) ==
    /\ at[r] = "iterate"
    /\ buffer[r] # <<>>
    /\ Head(buffer[r]) \in NotObject
    /\ at' = [at EXCEPT ![r] = "recordError"]
    /\ UNCHANGED <<edition, tables, nextPk, lock, place, buffer, trans, counts, calm>>

\* What a run does when SWAPI answers and the database has no trouble.
Progress(r) ==
    \/ Fetch(r)
    \/ NextResource(r)
    \/ Upsert(r)
    \/ \E s \in Resources : SetLinks(r, s)
    \/ Commit(r)
    \/ CommitRefused(r)
    \/ RecordAborts(r)

Step(r) == Progress(r) \/ FetchFails(r) \/ RecordFails(r)

-----------------------------------------------------------------------------
(***************************************************************************)
(* The environment.                                                        *)
(***************************************************************************)
Disturb == calm' = [r \in Run |-> calm[r] /\ at[r] \notin Working]

\* The process dies (CELERY_TASK_TIME_LIMIT, a restart): its open transaction
\* is rolled back, what it committed stays.
Kill(r) ==
    /\ at[r] \in Working
    /\ at' = [at EXCEPT ![r] = "killed"]
    /\ lock' = [u \in Url |-> IF lock[u] = r THEN Free ELSE lock[u]]
    /\ Forget(r)
    /\ UNCHANGED <<edition, tables, nextPk, place, buffer, counts, calm>>

\* SWAPI changes a record.
Publish(u) ==
    /\ edition[u] + 1 \in DOMAIN Links[u]
    /\ edition' = [edition EXCEPT ![u] = @ + 1]
    /\ Disturb
    /\ UNCHANGED <<tables, nextPk, lock, at, place, buffer, trans, counts>>

\* The admin site deletes an item, with the links from and to it.
DeleteRow(u) ==
    /\ u \in Present
    /\ lock[u] = Free
    /\ row' = [row EXCEPT ![u] = 0]
    /\ links' = [v \in Url |-> IF v = u THEN {} ELSE links[v] \ {Id(u)}]
    /\ Disturb
    /\ UNCHANGED <<edition, value, nextPk, lock, at, place, buffer, trans, counts>>

Environment ==
    \/ \E r \in Run : Start(r) \/ Kill(r)
    \/ \E u \in Url : Publish(u) \/ DeleteRow(u)

Next == (\E r \in Run : Step(r)) \/ Environment

Spec == Init /\ [][Next]_vars

\* The processes keep running, and PostgreSQL wakes up who waits for a lock.
\* Nothing has to fail, and nobody has to be killed.
FairSpec == Spec /\ \A r \in Run : WF_vars(Progress(r))

-----------------------------------------------------------------------------
(***************************************************************************)
(* Properties.                                                             *)
(***************************************************************************)

\* No link points to a row that is not there, although the targets are read
\* before the commit and an administrator may delete them in between.
LinksPointToRows ==
    /\ \A u \in Url : links[u] \subseteq {Id(v) : v \in Present}
    /\ \A u \in Url \ Present : links[u] = {}

\* The columns and the links of a row come from the same edition of its
\* record: no upsert is committed without its .set(), and two runs with
\* different editions do not mix.  (A resource without any URL in that edition
\* is left as it was.  This is the committed state; a reader of the API that
\* takes several queries may still see two of them.)
RowsAreWhole ==
    \A u \in Present, s \in Resources :
        LET said == Targets(u, value[u], s) IN
        said # {} => {id \in links[u] : id[1] = s} \subseteq {Id(v) : v \in said}

\* Every record of the pages a run has fetched is either still ahead of it or
\* counted once, as synced or as an error: none is lost when a transaction
\* fails, none is counted twice.
AllPages == UNION {{s} \X DOMAIN Catalog[s] : s \in Resources}

PagesFetched(r) ==
    {sp \in AllPages : sp[1] < stage[r] \/ (sp[1] = stage[r] /\ sp[2] < pageNo[r])}

RecordsFetched(r) ==
    MapThenSumSet(LAMBDA sp : Len(Catalog[sp[1]][sp[2]]), PagesFetched(r))

EveryRecordCounted ==
    \A r \in Run : synced[r] + errors[r] + Len(buffer[r]) = RecordsFetched(r)

\* Syncing again updates rows in place: an item keeps its primary key, which
\* votes refer to, for as long as it exists, also when two runs insert it at
\* the same time.
IdentityIsStable ==
    [][\A u \in Present : row'[u] \in {row[u], 0}]_vars

\* A run that ends without errors leaves the catalog as SWAPI describes it,
\* all links included, if SWAPI was stable and sent its pages whole, and if no
\* row was deleted meanwhile.
\* Runs that overlap with it do not matter, nor do the killed ones.  It is the
\* order films, starships, characters that makes the links complete.
Mirrors(u, s) ==
    {id \in links[u] : id[1] = s} = {Id(v) : v \in Targets(u, edition[u], s)}

CatalogMirrors ==
    \A u \in Url :
        /\ u \in Present
        /\ value[u] = edition[u]
        /\ \A s \in Resources :
              Targets(u, edition[u], s) # {} => Mirrors(u, s)

FinishesClean(r) ==
    /\ at[r] = "iterate"
    /\ at'[r] = "finished"
    /\ errors[r] = 0
    /\ calm[r]

CleanRunMirrors == [][\A r \in Run : FinishesClean(r) => CatalogMirrors]_vars

\* Runs that wait for each other's row locks do not wait for ever, and every
\* run ends.
EveryRunEnds == \A r \in Run : at[r] \in Working ~> at[r] \in Ended

\* What the module's docstring says, "translates SWAPI payloads into catalog
\* model rows via idempotent upserts": a clean run leaves the links of the
\* payload.  The code skips an empty list, so that links SWAPI has dropped stay.
CleanRunTranslates ==
    [][\A r \in Run : FinishesClean(r) =>
          \A u \in Url, s \in Resources : Mirrors(u, s)]_vars

\* What the comment at the except clause says: "one bad record shouldn't abort
\* the run".  A record that is no object aborts it.
NoRecordAborts == \A r \in Run : at[r] # "recordError"

-----------------------------------------------------------------------------
(***************************************************************************)
(* What TypeOK, LinksPointToRows, RowsAreWhole and IdentityIsStable are     *)
(* inductive with.                                                         *)
(***************************************************************************)
InTransaction == {r \in Run : at[r] = "transaction"}

\* A transaction holds the lock of its record, and knows the row, if there is
\* one; outside of it nothing is left to write.
LocksAreHeld ==
    /\ \A r \in InTransaction :
          /\ buffer[r] # <<>>
          /\ lock[TheUrl(r)] = r
          /\ pk[r] # 0
          /\ row[TheUrl(r)] # 0 => pk[r] = row[TheUrl(r)]
    /\ \A r \in Run \ InTransaction : added[r] = {}

\* Primary keys of a table are handed out once: to rows that are there, to rows
\* that a transaction will insert, and to those that it has linked to.
KeysAreOwned ==
    /\ \A u \in Url : row[u] < nextPk[Table(u)]
    /\ \A u, v \in Present : Id(u) = Id(v) => u = v
    /\ \A r \in InTransaction :
          /\ pk[r] < nextPk[Table(TheUrl(r))]
          /\ \A id \in added[r] : id[2] < nextPk[id[1]]
          /\ row[TheUrl(r)] = 0 =>
                /\ \A v \in Present : Id(v) # <<Table(TheUrl(r)), pk[r]>>
                /\ \A q \in InTransaction : <<Table(TheUrl(r)), pk[r]>> \notin added[q]
                /\ \A q \in InTransaction \ {r} :
                      <<Table(TheUrl(q)), pk[q]>> # <<Table(TheUrl(r)), pk[r]>>

\* What is linked after a .set() are rows that the record names.
SetLinksAreTargets ==
    \A r \in InTransaction, s \in Resources :
        IF s \in toSet[r]
        THEN \A id \in added[r] : id[1] # s
        ELSE Targets(TheUrl(r), TheEdition(r), s) # {} =>
                 \A v \in Present \cap UrlsOf(s) :
                     Id(v) \in LinksAfter(r, TheUrl(r)) => v \in Links[TheUrl(r)][TheEdition(r)]

Safe ==
    /\ TypeOK /\ LocksAreHeld /\ KeysAreOwned /\ LinksPointToRows
    /\ SetLinksAreTargets /\ RowsAreWhole

(***************************************************************************)
(* What CleanRunMirrors is inductive with.                                 *)
(***************************************************************************)

\* The records that a run has yet to process.
Ahead(r) ==
    {u \in Url :
        \/ Table(u) > stage[r]
        \/ \E p \in DOMAIN Catalog[stage[r]] :
              p >= pageNo[r] /\ \E i \in DOMAIN Catalog[stage[r]][p] : Catalog[stage[r]][p][i] = u
        \/ \E i \in DOMAIN buffer[r] : buffer[r][i][1] = u}

\* A run that may yet end clean has this record behind it.
Passed(r, u) == r \in Active /\ calm[r] /\ errors[r] = 0 /\ u \notin Ahead(r)
Settled(u)   == \E r \in Run : Passed(r, u)

\* A row is what SWAPI says of it now.
Mirrored(u) ==
    /\ u \in Present
    /\ value[u] = edition[u]
    /\ \A s \in Resources :
          Targets(u, edition[u], s) # {} =>
              Targets(u, edition[u], s) \subseteq Present /\ Mirrors(u, s)

SettledIsMirrored == \A u \in Url : Settled(u) => Mirrored(u)

\* What a calm transaction will commit of the links it has set, if its run had
\* no errors, or if another has the record behind it.  (A run with errors may
\* have found a target missing; then nobody is past this record.)
WritesMirror ==
    \A r \in InTransaction :
        LET u == TheUrl(r) IN
        calm[r] /\ (errors[r] = 0 \/ Settled(u)) =>
            \A s \in Resources \ toSet[r] :
                Targets(u, edition[u], s) # {} =>
                    /\ Targets(u, edition[u], s) \subseteq Present
                    /\ {id \in LinksAfter(r, u) : id[1] = s} = {Id(v) : v \in Targets(u, edition[u], s)}

\* A calm run works on current editions, and all active runs are calm or none.
RunsAreCurrent ==
    /\ \A q, r \in Active : calm[q] = calm[r]
    /\ \A r \in Run : at[r] = "queued" => stage[r] = 1 /\ pageNo[r] = 1 /\ buffer[r] = <<>>
    /\ \A r \in Run : \A i \in DOMAIN buffer[r] :
          /\ buffer[r][i][1] \in UrlsOf(stage[r])
          /\ r \in Active /\ calm[r] => buffer[r][i][2] = edition[buffer[r][i][1]]
    /\ \A r \in Run \ InTransaction : removed[r] = {}
    /\ \A r \in InTransaction : \A id \in removed[r] : id[1] \notin toSet[r]
    /\ \A u \in Url : edition[u] \in DOMAIN Links[u]

CleanKept == RunsAreCurrent /\ WritesMirror /\ SettledIsMirrored

IInv == Safe /\ CleanKept
=============================================================================
