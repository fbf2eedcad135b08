----------------------------- MODULE SwapiClient -----------------------------
(***************************************************************************)
(* SwapiClient (apps/swapi_sync/services/client): one iteration over the   *)
(* pages of a resource.  _paginate is a generator: it asks for a page only *)
(* when the consumer has taken every record of the one before, and _get    *)
(* retries a page on its own, with a linear backoff.                       *)
(*                                                                         *)
(* SWAPI and the network are the environment: each call of session.get may *)
(* have any outcome, also a JSON object that lacks one of the two keys that *)
(* _paginate looks for.  The pages do not change during one iteration, and  *)
(* their `next` links form a list.                                         *)
(*                                                                         *)
(* Definitions whose name ends in Bug are mistakes to test properties with. *)
(***************************************************************************)
EXTENDS Integers, SequencesExt

CONSTANTS
    RetryLimits,  \* values of SWAPI_MAX_RETRIES; __init__ accepts 0 as well
    Backoff,      \* SWAPI_RETRY_BACKOFF_SECONDS
    MaxPages,     \* bound: pages of the resource
    MaxResults    \* bound: results of a page

ASSUME ClientAssumption ==
    /\ RetryLimits \subseteq Nat
    /\ Backoff \in Nat
    /\ MaxPages \in Nat \ {0}
    /\ MaxResults \in Nat

VARIABLES
    max_retries, \* of this client
    upstream,   \* number of results on each page of the resource
    url,        \* the page asked for, or being yielded
    payload,    \* the last object that _get returned
    attempt,    \* loop variable of _get
    at,         \* "get", "yield", or how the iteration ended
    taken,      \* results of the payload already yielded
    yielded,    \* every result the consumer has been given
    slept,      \* seconds of time.sleep
    log         \* history: the calls of session.get, as <<url, outcome>>

vars == <<max_retries, upstream, url, payload, attempt, at, taken, yielded, slept, log>>

\* JSON objects without "results", without "next", or without both.
Keyless == {"noResults", "noNext", "neither"}

\* What session.get may come to.  "page": an object with both keys;
\* "transient": Timeout, ConnectionError, 5xx; "refused": 404, another 4xx, or
\* a body that is not JSON; "other": any other RequestException (a broken body,
\* too many redirects), or a JSON value that cannot be paged through (it is not
\* an object, or its "results" are not a list).
Outcome == {"page", "transient", "refused", "other"} \cup Keyless
Ended   == {"exhausted", "ServiceUnavailableError", "ExternalAPIError", "Exception"}

\* What _paginate makes of an object: its number of results, and the page that
\* it names next, or 0 for none.
Payload == [results : 0 .. MaxResults, next : {0} \cup DOMAIN upstream]

TypeOK ==
    /\ max_retries \in RetryLimits
    /\ upstream \in UNION {[1 .. n -> 0 .. MaxResults] : n \in 1 .. MaxPages}
    /\ url \in DOMAIN upstream
    /\ payload \in Payload
    /\ attempt \in 1 .. max_retries + 1
    /\ at \in {"get", "yield"} \cup Ended
    /\ taken \in 0 .. MaxResults
    /\ yielded \in Seq((1 .. MaxPages) \X (1 .. MaxResults))
    /\ slept \in Nat
    /\ log \in Seq((1 .. MaxPages) \X Outcome)

Init ==
    /\ max_retries \in RetryLimits
    /\ upstream \in UNION {[1 .. n -> 0 .. MaxResults] : n \in 1 .. MaxPages}
    /\ url = 1
    /\ payload = [results |-> 0, next |-> 0]
    /\ attempt = 1
    /\ at = "get"
    /\ taken = 0
    /\ yielded = <<>>
    /\ slept = 0
    /\ log = <<>>

-----------------------------------------------------------------------------
\* Bug: sleeps after the last attempt as well.
SleepBug == slept' = slept + Backoff * attempt

\* if attempt < self.max_retries: time.sleep(self.backoff_seconds * attempt)
Sleep == slept' = IF attempt < max_retries THEN slept + Backoff * attempt ELSE slept

\* Bug: one call too many.
MayCallBug == attempt <= max_retries + 1

\* for attempt in range(1, self.max_retries + 1)
MayCall == attempt <= max_retries

\* Bug: a refusal is taken for an outage and the page asked for again.
VerdictBug(o) ==
    CASE o \in {"page"} \cup Keyless -> "yield"
      [] o \in {"transient", "refused"} -> "get"
      [] OTHER -> "Exception"

\* Where an answer leads.  A missing key is no error.
Verdict(o) ==
    CASE o \in {"page"} \cup Keyless -> "yield"
      [] o = "transient" -> "get"
      [] o = "refused"   -> "ExternalAPIError"
      [] OTHER           -> "Exception"

\* The page after p, 0 if p is the last one.
Following(p) == IF p + 1 \in DOMAIN upstream THEN p + 1 ELSE 0

\* payload.get("results", []) and payload.get("next")
Read(o) ==
    [results |-> IF o \in {"page", "noNext"} THEN upstream[url] ELSE 0,
     next    |-> IF o \in {"page", "noResults"} THEN Following(url) ELSE 0]

\* One turn of the loop of _get.
Call(o) ==
    /\ at = "get"
    /\ MayCall
    /\ log' = Append(log, <<url, o>>)
    /\ at' = Verdict(o)
    /\ IF at' = "get" THEN Sleep /\ attempt' = attempt + 1
                      ELSE UNCHANGED <<slept, attempt>>
    /\ payload' = IF at' = "yield" THEN Read(o) ELSE payload
    /\ UNCHANGED <<max_retries, upstream, url, taken, yielded>>

\* The loop of _get is over.
GiveUp ==
    /\ at = "get"
    /\ ~ MayCall
    /\ at' = "ServiceUnavailableError"
    /\ UNCHANGED <<max_retries, upstream, url, payload, attempt, taken, yielded, slept, log>>

\* for result in ...: yield result
YieldResult ==
    /\ at = "yield"
    /\ taken < payload.results
    /\ taken' = taken + 1
    /\ yielded' = Append(yielded, <<url, taken'>>)
    /\ UNCHANGED <<max_retries, upstream, url, payload, attempt, at, slept, log>>

\* Bug: an empty page is taken for the end of the resource.
NextUrlBug ==
    /\ at = "yield"
    /\ taken = payload.results
    /\ taken' = 0
    /\ IF payload.next # 0 /\ taken > 0
         THEN url' = payload.next /\ attempt' = 1 /\ at' = "get"
         ELSE at' = "exhausted" /\ UNCHANGED <<url, attempt>>
    /\ UNCHANGED <<max_retries, upstream, payload, yielded, slept, log>>

\* Bug: the attempts of all pages are counted together.
NextUrlCountBug ==
    /\ at = "yield"
    /\ taken = payload.results
    /\ taken' = 0
    /\ IF payload.next # 0
         THEN url' = payload.next /\ at' = "get"
         ELSE at' = "exhausted" /\ UNCHANGED url
    /\ UNCHANGED <<max_retries, upstream, payload, attempt, yielded, slept, log>>

\* url = payload.get("next"), and the while loop goes on or ends.
NextUrl ==
    /\ at = "yield"
    /\ taken = payload.results
    /\ taken' = 0
    /\ \/ /\ payload.next # 0
          /\ url' = payload.next
          /\ attempt' = 1
          /\ at' = "get"
       \/ /\ payload.next = 0
          /\ at' = "exhausted"
          /\ UNCHANGED <<url, attempt>>
    /\ UNCHANGED <<max_retries, upstream, payload, yielded, slept, log>>

Next == (\E o \in Outcome : Call(o)) \/ GiveUp \/ YieldResult \/ NextUrl

Spec == Init /\ [][Next]_vars

-----------------------------------------------------------------------------
(***************************************************************************)
(* Properties.                                                             *)
(***************************************************************************)
Calls(p) == {i \in DOMAIN log : log[i][1] = p}
Failures(p) == {i \in Calls(p) : log[i][2] = "transient"}

\* A page is asked for at most max_retries times, and again only after a
\* timeout, a connection error or a 5xx: a refusal or a malformed answer is
\* never retried, and a page that arrived is not fetched twice.
RetryDiscipline ==
    \A p \in DOMAIN upstream :
        /\ Cardinality(Calls(p)) <= max_retries
        /\ \A i, j \in Calls(p) : i < j => i \in Failures(p)

\* ServiceUnavailableError, the exception that makes Celery retry the whole
\* sync, means that every attempt at one page failed transiently, and is
\* raised in no other case.  Failures of earlier pages do not count.
UnavailableMeansExhausted ==
    at = "ServiceUnavailableError" <=>
        /\ at # "get"
        /\ Failures(url) = Calls(url)
        /\ Cardinality(Failures(url)) = max_retries

\* The pauses grow linearly within a page, start over on the next one, and
\* there is none after the last attempt at a page.
Triangle(n) == (n * (n + 1)) \div 2

BackoffIsLinear ==
    slept = Backoff * MapThenSumSet(
        LAMBDA p : LET n == Cardinality(Failures(p))
                   IN  Triangle(IF n < max_retries THEN n ELSE n - 1),
        DOMAIN upstream)

\* Retries and page boundaries are invisible to the consumer: it gets the
\* records of the resource once each, in order, and all of them unless there
\* is an exception.  An answer without one of the keys is what may cut the
\* stream short without one, and nothing else does.
Pages   == [p \in DOMAIN upstream |-> [i \in 1 .. upstream[p] |-> <<p, i>>]]
Records == FlattenSeq(Pages)
Rest(p) == IF p = 0 THEN <<>> ELSE FlattenSeq(SubSeq(Pages, p, Len(Pages)))
Lapses  == {i \in DOMAIN log : log[i][2] \in Keyless}

\* What the iteration is still going to yield if nothing more goes wrong.
Owed ==
    CASE at = "yield"     -> SubSeq(Pages[url], taken + 1, payload.results) \o Rest(payload.next)
      [] at = "exhausted" -> <<>>
      [] OTHER            -> Rest(url)

Consumer == INSTANCE RecordStream WITH
    Error     <- Ended \ {"exhausted"},
    records   <- Records,
    owed      <- Owed,
    delivered <- yielded,
    lapses    <- Cardinality(Lapses),
    end       <- IF at \in Ended THEN at ELSE "open"

DeliversStream == Consumer!Stream

-----------------------------------------------------------------------------
(***************************************************************************)
(* Why all of this holds: IInv is inductive.                                *)
(***************************************************************************)

\* The history and the loop of _get agree: no page ahead was asked for, every
\* call of the loop failed so far, and one that did not ends it.
CallsAccounted ==
    /\ \A i \in DOMAIN log : log[i][1] <= url
    /\ at \in {"get", "ServiceUnavailableError"} <=> Failures(url) = Calls(url)
    /\ at = "get" => Cardinality(Calls(url)) = attempt - 1
    /\ at = "ServiceUnavailableError" => Cardinality(Calls(url)) = max_retries

\* The payload is about the page being yielded, and what was yielded and what
\* is owed make up the resource as long as no answer lacked a key.
InStep ==
    /\ taken <= payload.results
    /\ at = "get" => taken = 0
    /\ at = "yield" => payload.results \in {0, upstream[url]} /\ payload.next \in {0, Following(url)}
    /\ Lapses = {} => yielded \o Owed = Records

IInv == TypeOK /\ RetryDiscipline /\ CallsAccounted /\ BackoffIsLinear /\ InStep
=============================================================================
