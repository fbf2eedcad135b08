------------------------------ MODULE SyncTask ------------------------------
(***************************************************************************)
(* The Celery task sync_swapi_catalog (apps/swapi_sync/tasks): messages in  *)
(* Redis, two pool processes of one worker, retries, late acknowledgement.  *)
(* What a run does to the catalog is CatalogSync; here it ends in one of    *)
(* four ways: it is complete, SWAPI is unavailable, another exception, or   *)
(* its process dies.                                                        *)
(*                                                                         *)
(* A message is a task id and its number of retries.  Countdowns, prefetch  *)
(* and the restoring of unacknowledged messages make their order arbitrary, *)
(* so the queue counts them.                                                *)
(*                                                                         *)
(* Covered: the death of a pool process, of the worker, the time limit, a   *)
(* publication the worker does not live to acknowledge, one that fails, and *)
(* the two Redis commands in which a state is stored.  Not covered: the     *)
(* loss of Redis, and a visibility timeout that expires while the worker    *)
(* is alive (runs are shorter, see CELERY_TASK_TIME_LIMIT).                 *)
(*                                                                         *)
(* Definitions whose name ends in Bug are mistakes to test properties with. *)
(***************************************************************************)
EXTENDS Integers, FiniteSetsExt

CONSTANTS
    Task,        \* task ids: one for each .delay() and each tick of the beat
    Slot,        \* pool processes of the worker
    MaxRetries,  \* max_retries of the task
    MaxCrashes   \* bound: deaths of the worker

ASSUME TaskAssumption ==
    MaxRetries \in Nat /\ MaxCrashes \in Nat /\ IsFiniteSet(Slot)

VARIABLES
    waiting,   \* number of copies of each message that are not being run
    at,        \* what a pool process is doing
    msg,       \* the message it is at work on
    status,    \* the result backend
    storing,   \* the state that a process has found it may store, and will write
    crashes,   \* deaths of the worker so far
    \* History, which the code does not keep.
    sent,      \* tasks that were queued
    starts,    \* how often a task was started
    lost,      \* how many of its deliveries a death of the worker undid
    outcome,   \* how its executions ended
    undercut   \* tasks whose SUCCESS was written while another process was about to
               \* write, or not written because its process was killed

history == <<sent, starts, lost, outcome, undercut>>
vars    == <<waiting, at, msg, status, storing, crashes, history>>

Message   == Task \X (0 .. MaxRetries)
NoMessage == <<>>

\* What the backend may be asked to store.
State == {"STARTED", "RETRY", "SUCCESS", "FAILURE"}

TypeOK ==
    /\ waiting \in [Message -> Nat]
    /\ at \in [Slot -> {"idle", "run", "retrying", "acknowledge"}]
    /\ msg \in [Slot -> Message \cup {NoMessage}]
    /\ \A s \in Slot : msg[s] = NoMessage <=> at[s] = "idle"
    /\ status \in [Task -> State \cup {"PENDING"}]
    /\ storing \in [Slot -> State \cup {"none"}]
    /\ \A s \in Slot : at[s] = "idle" => storing[s] = "none"
    /\ crashes \in 0 .. MaxCrashes
    /\ sent \subseteq Task
    /\ starts \in [Task -> Nat]
    /\ lost \in [Task -> Nat]
    /\ outcome \in [Task -> SUBSET {"complete", "error", "exhausted", "rejected"}]
    /\ undercut \subseteq Task

Init ==
    /\ waiting = [m \in Message |-> 0]
    /\ at = [s \in Slot |-> "idle"]
    /\ msg = [s \in Slot |-> NoMessage]
    /\ status = [t \in Task |-> "PENDING"]
    /\ storing = [s \in Slot |-> "none"]
    /\ crashes = 0
    /\ sent = {}
    /\ starts = [t \in Task |-> 0]
    /\ lost = [t \in Task |-> 0]
    /\ outcome = [t \in Task |-> {}]
    /\ undercut = {}

-----------------------------------------------------------------------------
TaskOf(s)    == msg[s][1]
RetriesOf(s) == msg[s][2]
Publish(m)   == waiting' = [waiting EXCEPT ![m] = @ + 1]
GoTo(s, label) == at' = [at EXCEPT ![s] = label]

\* Bug: the backend stores whatever comes last.
StoreBug(s, t, state) == storing' = [storing EXCEPT ![s] = state]

\* The backend keeps a SUCCESS and overwrites every other state.  It looks first
\* and writes with a second command (Write), without a lock in between.
Store(s, t, state) ==
    storing' = [storing EXCEPT ![s] = IF status[t] = "SUCCESS" THEN "none" ELSE state]

\* Others that are about to write a state which is not SUCCESS for this task.
Rivals(s) == {q \in Slot \ {s} : /\ storing[q] \notin {"none", "SUCCESS"}
                                 /\ TaskOf(q) = TaskOf(s)}

Write(s) ==
    /\ storing[s] # "none"
    /\ storing' = [storing EXCEPT ![s] = "none"]
    /\ status' = [status EXCEPT ![TaskOf(s)] = storing[s]]
    /\ undercut' = IF storing[s] = "SUCCESS" /\ Rivals(s) # {}
                   THEN undercut \cup {TaskOf(s)} ELSE undercut
    /\ UNCHANGED <<waiting, at, msg, crashes, sent, starts, lost, outcome>>

\* A pool process goes on when the state it stores is written.
Free(s) == storing[s] = "none"

EndsWith(t, end) == outcome' = [outcome EXCEPT ![t] = @ \cup {end}]

\* sync_swapi_catalog.delay(), in TriggerSyncView or by the beat.
Trigger(t) ==
    /\ t \notin sent
    /\ sent' = sent \cup {t}
    /\ Publish(<<t, 0>>)
    /\ UNCHANGED <<at, msg, status, storing, crashes, starts, lost, outcome, undercut>>

\* A pool process begins with a message that is due.
Take(s, m) ==
    /\ at[s] = "idle"
    /\ waiting[m] > 0
    /\ waiting' = [waiting EXCEPT ![m] = @ - 1]
    /\ msg' = [msg EXCEPT ![s] = m]
    /\ GoTo(s, "run")
    /\ Store(s, m[1], "STARTED")
    /\ starts' = [starts EXCEPT ![m[1]] = @ + 1]
    /\ UNCHANGED <<status, crashes, sent, lost, outcome, undercut>>

\* return result.as_dict(), with or without errors of single records.
Complete(s) ==
    /\ at[s] = "run" /\ Free(s)
    /\ GoTo(s, "acknowledge")
    /\ Store(s, TaskOf(s), "SUCCESS")
    /\ EndsWith(TaskOf(s), "complete")
    /\ UNCHANGED <<waiting, msg, status, crashes, sent, starts, lost, undercut>>

\* run_full_sync raises anything but ServiceUnavailableError.
Raise(s) ==
    /\ at[s] = "run" /\ Free(s)
    /\ GoTo(s, "acknowledge")
    /\ Store(s, TaskOf(s), "FAILURE")
    /\ EndsWith(TaskOf(s), "error")
    /\ UNCHANGED <<waiting, msg, status, crashes, sent, starts, lost, undercut>>

\* Bugs: one retry less; a retry that does not count.
MayRetryBug(s) == RetriesOf(s) + 1 < MaxRetries
SuccessorBug(s) == msg[s]

MayRetry(s)  == RetriesOf(s) < MaxRetries
Successor(s) == <<TaskOf(s), RetriesOf(s) + 1>>

\* Bug: the retry is noted and not published.
RetryBug(s) ==
    /\ at[s] = "run" /\ Free(s)
    /\ MayRetry(s)
    /\ GoTo(s, "retrying")
    /\ UNCHANGED <<waiting, msg, status, storing, crashes, history>>

\* autoretry_for: ServiceUnavailableError makes the task publish its successor,
\* and only then end with the Retry exception.
Retry(s) ==
    /\ at[s] = "run" /\ Free(s)
    /\ MayRetry(s)
    /\ Publish(Successor(s))
    /\ GoTo(s, "retrying")
    /\ UNCHANGED <<msg, status, storing, crashes, history>>

\* The publication fails: Celery rejects the message, and stores nothing.
RejectRetry(s) ==
    /\ at[s] = "run" /\ Free(s)
    /\ MayRetry(s)
    /\ GoTo(s, "acknowledge")
    /\ EndsWith(TaskOf(s), "rejected")
    /\ UNCHANGED <<waiting, msg, status, storing, crashes, sent, starts, lost, undercut>>

EndRetry(s) ==
    /\ at[s] = "retrying" /\ Free(s)
    /\ GoTo(s, "acknowledge")
    /\ Store(s, TaskOf(s), "RETRY")
    /\ UNCHANGED <<waiting, msg, status, crashes, history>>

\* ServiceUnavailableError, and no retry is left.
Exhaust(s) ==
    /\ at[s] = "run" /\ Free(s)
    /\ ~ MayRetry(s)
    /\ GoTo(s, "acknowledge")
    /\ Store(s, TaskOf(s), "FAILURE")
    /\ EndsWith(TaskOf(s), "exhausted")
    /\ UNCHANGED <<waiting, msg, status, crashes, sent, starts, lost, undercut>>

\* The time limit, or another death of the pool process, perhaps before it has
\* written a state: the worker notices, and stores the failure itself.
Abort(s) ==
    /\ at[s] \in {"run", "retrying"} \/ ~ Free(s)
    /\ GoTo(s, "acknowledge")
    /\ Store(s, TaskOf(s), "FAILURE")
    /\ EndsWith(TaskOf(s), "error")
    /\ undercut' = IF storing[s] = "SUCCESS" THEN undercut \cup {TaskOf(s)} ELSE undercut
    /\ UNCHANGED <<waiting, msg, status, crashes, sent, starts, lost>>

Acknowledge(s) ==
    /\ at[s] = "acknowledge" /\ Free(s)
    /\ GoTo(s, "idle")
    /\ msg' = [msg EXCEPT ![s] = NoMessage]
    /\ UNCHANGED <<waiting, status, storing, crashes, history>>

\* Bug: acks_late is off, and a message is gone when it is taken.
UnacknowledgedBug == {}

\* acks_late: the messages Redis still has for the processes of the worker.
Unacknowledged == {s \in Slot : at[s] # "idle"}

\* Bug: the new worker believes that its processes have work.
CrashBug ==
    /\ crashes < MaxCrashes
    /\ crashes' = crashes + 1
    /\ at' = [s \in Slot |-> "idle"]
    /\ UNCHANGED <<waiting, msg, status, storing, history>>

\* The worker dies, and another one starts.  After the visibility timeout the
\* unacknowledged messages can be taken again.
Crash ==
    /\ crashes < MaxCrashes
    /\ crashes' = crashes + 1
    /\ waiting' = [m \in Message |-> waiting[m] +
                      Cardinality({s \in Unacknowledged : msg[s] = m})]
    /\ lost' = [t \in Task |-> lost[t] +
                   Cardinality({s \in Unacknowledged : TaskOf(s) = t})]
    /\ at' = [s \in Slot |-> "idle"]
    /\ msg' = [s \in Slot |-> NoMessage]
    /\ storing' = [s \in Slot |-> "none"]
    /\ undercut' = undercut \cup {TaskOf(s) : s \in {q \in Slot : storing[q] = "SUCCESS"}}
    /\ UNCHANGED <<status, sent, starts, outcome>>

End(s) ==
    Complete(s) \/ Raise(s) \/ Retry(s) \/ RejectRetry(s) \/ Exhaust(s) \/ Abort(s)

Process(s) ==
    \/ \E m \in Message : Take(s, m)
    \/ End(s)
    \/ EndRetry(s)
    \/ Write(s)
    \/ Acknowledge(s)

Next == (\E t \in Task : Trigger(t)) \/ (\E s \in Slot : Process(s)) \/ Crash

Spec == Init /\ [][Next]_vars

\* The worker keeps taking messages, and the time limit ends every run.
FairSpec == Spec /\ \A s \in Slot : WF_vars(Process(s))

-----------------------------------------------------------------------------
(***************************************************************************)
(* Properties.                                                             *)
(***************************************************************************)
Running(t) == {s \in Slot : at[s] = "run" /\ TaskOf(s) = t}
Queued(t)  == MapThenSumSet(LAMBDA k : waiting[<<t, k>>], 0 .. MaxRetries)
Executable(t) == Queued(t) + Cardinality(Running(t))

\* An accepted task that has not ended yet is still going to be run: there is
\* a message of it, or a process is at work on one.  Late acknowledgement and
\* publishing the successor before acknowledging keep it so through crashes.
NothingLost ==
    \A t \in sent :
        \/ outcome[t] # {}
        \/ \E k \in 0 .. MaxRetries : waiting[<<t, k>>] > 0
        \/ Running(t) # {}

\* An outage of SWAPI alone fails a task only after max_retries + 1 attempts.
OutagesAreRetried ==
    \A t \in Task : "exhausted" \in outcome[t] => starts[t] >= MaxRetries + 1

\* Deliveries that are undone are the only reason to run a task twice at a
\* time, or more than max_retries + 1 times.
RunsAreBounded ==
    \A t \in Task :
        /\ Executable(t) <= 1 + lost[t]
        /\ starts[t] <= (MaxRetries + 1) * (1 + lost[t])

\* A client that polls is told of a complete run, and of none that was not: once
\* SUCCESS is written, no copy that a crash left behind and no retry undoes it,
\* unless its process had looked before and writes after it; and SUCCESS is
\* written, unless the process is killed first.
SuccessIsTold ==
    \A t \in Task :
        /\ status[t] = "SUCCESS" => "complete" \in outcome[t]
        /\ "complete" \in outcome[t] =>
               \/ status[t] = "SUCCESS"
               \/ \E s \in Slot : storing[s] = "SUCCESS" /\ TaskOf(s) = t
               \/ t \in undercut

\* SUCCESS is only written for a complete run, and whoever still writes another
\* state over it had looked before.
StoresAreInStep ==
    \A s \in Slot :
        /\ storing[s] = "SUCCESS" => "complete" \in outcome[TaskOf(s)]
        /\ storing[s] \notin {"none", "SUCCESS"} /\ status[TaskOf(s)] = "SUCCESS" =>
               TaskOf(s) \in undercut

\* The number of retries of a message never runs ahead of the times its task
\* was started: attempts are not skipped, whatever is delivered again.
AttemptsAreMade ==
    /\ \A m \in Message : waiting[m] > 0 => starts[m[1]] >= m[2]
    /\ \A s \in Slot : at[s] # "idle" => starts[TaskOf(s)] > RetriesOf(s)

\* What a task has had of its starts, and may still have: those that its copies
\* in the queue stand for, and those left to the runs that may yet be retried.
Promised(t) ==
    MapThenSumSet(LAMBDA k : (MaxRetries + 1 - k) * waiting[<<t, k>>], 0 .. MaxRetries)
Claim(s, t) == IF at[s] = "run" /\ TaskOf(s) = t THEN MaxRetries - RetriesOf(s) ELSE 0
Claimed(t)  == MapThenSumSet(LAMBDA s : Claim(s, t), Slot)
Budget(t)   == starts[t] + Promised(t) + Claimed(t)

\* Only a delivery that a crash undoes adds to it.
BudgetKept ==
    \A t \in Task :
        /\ Executable(t) <= 1 + lost[t]
        /\ Budget(t) <= (MaxRetries + 1) * (1 + lost[t])
        /\ t \notin sent => /\ starts[t] = 0
                            /\ \A k \in 0 .. MaxRetries : waiting[<<t, k>>] = 0
                            /\ \A s \in Slot : at[s] # "idle" => TaskOf(s) # t

\* What the safety properties are inductive with.
Safe == TypeOK /\ AttemptsAreMade /\ NothingLost /\ OutagesAreRetried

Stored == SuccessIsTold /\ StoresAreInStep

IInv == Safe /\ Stored /\ BudgetKept

\* Every accepted task comes to an end, and to rest.
Rests(t) ==
    /\ outcome[t] # {}
    /\ \A k \in 0 .. MaxRetries : waiting[<<t, k>>] = 0
    /\ \A s \in Slot : at[s] # "idle" => TaskOf(s) # t

EveryTaskEnds == \A t \in Task : t \in sent ~> []Rests(t)
=============================================================================
