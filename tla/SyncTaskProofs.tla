--------------------------- MODULE SyncTaskProofs ---------------------------
(***************************************************************************)
(* Theorems about the Celery task, for any tasks, any number of processes,  *)
(* retries and crashes.  Safe is preserved by every action, and with it the  *)
(* budget of starts that each task has (BudgetKept).                         *)
(***************************************************************************)
EXTENDS SyncTask, FoldTheorems

LEMMA InitSafe == Init => Safe
BY TaskAssumption DEF Init, Safe, TypeOK, Message, NoMessage, AttemptsAreMade,
    NothingLost, OutagesAreRetried, State

\* A process that is at work has a message.
LEMMA AtWork ==
    ASSUME TypeOK, NEW s \in Slot, at[s] # "idle"
    PROVE  /\ msg[s] \in Message
           /\ TaskOf(s) \in Task
           /\ RetriesOf(s) \in 0 .. MaxRetries
           /\ msg[s] = <<TaskOf(s), RetriesOf(s)>>
BY DEF TypeOK, Message, TaskOf, RetriesOf

-----------------------------------------------------------------------------
LEMMA TriggerSafe ==
    ASSUME Safe, NEW t \in Task, Trigger(t)
    PROVE  Safe'
<1> USE DEF Safe
<1>1. /\ waiting' = [waiting EXCEPT ![<<t, 0>>] = waiting[<<t, 0>>] + 1]
      /\ sent' = sent \cup {t}
      /\ UNCHANGED <<at, msg, status, storing, crashes, starts, lost, outcome, undercut>>
      /\ <<t, 0>> \in Message
      /\ waiting \in [Message -> Nat]
  BY TaskAssumption DEF Trigger, Publish, TypeOK, Message
<1>2. /\ waiting' \in [Message -> Nat]
      /\ \A m \in Message : waiting[m] > 0 => waiting'[m] > 0
      /\ waiting'[<<t, 0>>] > 0
      /\ \A m \in Message : m # <<t, 0>> => waiting'[m] = waiting[m]
  BY <1>1
<1>3. TypeOK'
  BY <1>1, <1>2 DEF TypeOK
<1>4. AttemptsAreMade'
  BY <1>1, <1>2 DEF AttemptsAreMade, TypeOK, TaskOf, RetriesOf
<1>5. NothingLost'
  <2> SUFFICES ASSUME NEW u \in sent', outcome'[u] = {}, Running(u)' = {}
               PROVE  \E k \in 0 .. MaxRetries : waiting'[<<u, k>>] > 0
    BY DEF NothingLost
  <2>1. CASE u = t
    BY <2>1, <1>2, TaskAssumption
  <2>2. CASE u # t
    <3>1. u \in sent /\ Running(u) = {}
      BY <2>2, <1>1 DEF Running, TaskOf
    <3>2. PICK k \in 0 .. MaxRetries : waiting[<<u, k>>] > 0
      BY <3>1, <1>1 DEF NothingLost
    <3>3. <<u, k>> \in Message
      BY <3>1 DEF TypeOK, Message
    <3>4. QED
      BY <3>2, <3>3, <1>2
  <2>3. QED
    BY <2>1, <2>2
<1>6. QED
  BY <1>1, <1>3, <1>4, <1>5 DEF OutagesAreRetried

LEMMA TakeSafe ==
    ASSUME Safe, NEW s \in Slot, NEW m \in Message, Take(s, m)
    PROVE  Safe'
<1> USE DEF Safe
<1>1. /\ at[s] = "idle"
      /\ waiting[m] > 0
      /\ waiting' = [waiting EXCEPT ![m] = waiting[m] - 1]
      /\ msg' = [msg EXCEPT ![s] = m]
      /\ at' = [at EXCEPT ![s] = "run"]
      /\ storing' \in [Slot -> State \cup {"none"}]
      /\ \A q \in Slot \ {s} : storing'[q] = storing[q]
      /\ starts' = [starts EXCEPT ![m[1]] = starts[m[1]] + 1]
      /\ UNCHANGED <<status, crashes, sent, lost, outcome, undercut>>
      /\ m[1] \in Task /\ m[2] \in 0 .. MaxRetries /\ m = <<m[1], m[2]>>
  BY DEF Take, GoTo, Store, Message, TypeOK, State
<1>2. /\ waiting' \in [Message -> Nat]
      /\ starts' \in [Task -> Nat]
      /\ \A t \in Task : starts'[t] >= starts[t]
      /\ starts'[m[1]] = starts[m[1]] + 1
      /\ \A n \in Message : n # m => waiting'[n] = waiting[n]
      /\ \A n \in Message : waiting'[n] > 0 => waiting[n] > 0
  BY <1>1 DEF TypeOK
<1>3. TypeOK'
  <2>1. \A q \in Slot : at'[q] = "idle" => storing'[q] = "none"
    BY <1>1 DEF TypeOK
  <2>2. msg' \in [Slot -> Message \cup {NoMessage}]
    BY <1>1 DEF TypeOK
  <2>3. \A q \in Slot : msg'[q] = NoMessage <=> at'[q] = "idle"
    <3>1. m # NoMessage
      <4>1. Len(<<m[1], m[2]>>) = 2 /\ Len(NoMessage) = 0
        BY DEF NoMessage
      <4>2. Len(m) = 2
        BY <1>1, <4>1, Zenon
      <4>3. QED
        BY <4>1, <4>2
    <3>2. QED
      BY <1>1, <3>1 DEF TypeOK
  <2>4. QED
    BY <1>1, <1>2, <2>1, <2>2, <2>3 DEF TypeOK
<1>4. AttemptsAreMade'
  <2>1. \A n \in Message : waiting'[n] > 0 => starts'[n[1]] >= n[2]
    BY <1>1, <1>2 DEF AttemptsAreMade, TypeOK, Message
  <2>2. ASSUME NEW q \in Slot, at'[q] # "idle" PROVE starts'[TaskOf(q)'] > RetriesOf(q)'
    <3>1. CASE q = s
      BY <3>1, <1>1, <1>2 DEF AttemptsAreMade, TypeOK, TaskOf, RetriesOf
    <3>2. CASE q # s
      <4>1. at[q] # "idle" /\ msg'[q] = msg[q]
        BY <3>2, <2>2, <1>1 DEF TypeOK
      <4>2. TaskOf(q) \in Task /\ RetriesOf(q) \in Nat /\ starts[TaskOf(q)] > RetriesOf(q)
        BY <4>1, AtWork, TaskAssumption DEF AttemptsAreMade
      <4>3. QED
        BY <4>1, <4>2, <1>2 DEF TaskOf, RetriesOf, TypeOK
    <3>3. QED
      BY <3>1, <3>2
  <2>3. QED
    BY <2>1, <2>2 DEF AttemptsAreMade
<1>5. NothingLost'
  <2> SUFFICES ASSUME NEW t \in sent, outcome[t] = {},
                      ~ \E k \in 0 .. MaxRetries : waiting'[<<t, k>>] > 0
               PROVE  Running(t)' # {}
    BY <1>1 DEF NothingLost
  <2>1. CASE t = m[1]
    <3>1. s \in Running(t)'
      BY <2>1, <1>1 DEF Running, TaskOf, TypeOK
    <3>2. QED
      BY <3>1
  <2>2. CASE t # m[1]
    <3>1. \A k \in 0 .. MaxRetries : waiting'[<<t, k>>] = waiting[<<t, k>>]
      BY <2>2, <1>1, <1>2 DEF Message, TypeOK
    <3>2. PICK q \in Slot : at[q] = "run" /\ TaskOf(q) = t
      BY <3>1 DEF NothingLost, Running
    <3>3. q \in Running(t)'
      BY <3>2, <1>1 DEF Running, TaskOf, TypeOK
    <3>4. QED
      BY <3>3
  <2>3. QED
    BY <2>1, <2>2
<1>6. OutagesAreRetried'
  BY <1>1, <1>2, TaskAssumption DEF OutagesAreRetried, TypeOK
<1>7. QED
  BY <1>3, <1>4, <1>5, <1>6

-----------------------------------------------------------------------------
\* A run ends for good: its end is noted, and nothing is published.
LEMMA EndingSafe ==
    ASSUME Safe, NEW s \in Slot, at[s] # "idle",
           NEW end \in {"complete", "error", "exhausted", "rejected"},
           end = "exhausted" => RetriesOf(s) >= MaxRetries,
           GoTo(s, "acknowledge"), EndsWith(TaskOf(s), end),
           storing' \in [Slot -> State \cup {"none"}],
           \A q \in Slot \ {s} : storing'[q] = storing[q],
           undercut' \subseteq Task,
           UNCHANGED <<waiting, msg, status, crashes, sent, starts, lost>>
    PROVE  Safe'
<1> USE DEF Safe
<1> DEFINE t == TaskOf(s)
<1>1. /\ t \in Task
      /\ RetriesOf(s) \in Nat
      /\ starts[t] > RetriesOf(s)
      /\ at' = [at EXCEPT ![s] = "acknowledge"]
      /\ outcome' = [outcome EXCEPT ![t] = outcome[t] \cup {end}]
  BY AtWork, TaskAssumption DEF AttemptsAreMade, GoTo, EndsWith
<1> HIDE DEF t
<1>2. TypeOK'
  BY <1>1 DEF TypeOK
<1>3. AttemptsAreMade'
  BY <1>1 DEF AttemptsAreMade, TaskOf, RetriesOf, TypeOK
<1>4. NothingLost'
  <2> SUFFICES ASSUME NEW u \in sent, outcome'[u] = {},
                      ~ \E k \in 0 .. MaxRetries : waiting[<<u, k>>] > 0
               PROVE  Running(u)' # {}
    BY DEF NothingLost
  <2>1. u # t /\ outcome[u] = {}
    BY <1>1 DEF TypeOK
  <2>2. PICK q \in Slot : at[q] = "run" /\ TaskOf(q) = u
    BY <2>1 DEF NothingLost, Running
  <2>3. q \in Running(u)'
    BY <2>1, <2>2, <1>1 DEF Running, TaskOf, TypeOK, t
  <2>4. QED
    BY <2>3
<1>5. OutagesAreRetried'
  BY <1>1, TaskAssumption DEF OutagesAreRetried, TypeOK
<1>6. QED
  BY <1>2, <1>3, <1>4, <1>5

\* Looking and deciding what to write concerns the process alone.
LEMMA StoreTypes ==
    ASSUME TypeOK, NEW s \in Slot, NEW t \in Task, NEW state \in State, Store(s, t, state)
    PROVE  /\ storing' \in [Slot -> State \cup {"none"}]
           /\ \A q \in Slot \ {s} : storing'[q] = storing[q]
BY DEF Store, TypeOK

LEMMA EndsSafe ==
    ASSUME Safe, NEW s \in Slot,
           Complete(s) \/ Raise(s) \/ RejectRetry(s) \/ Exhaust(s) \/ Abort(s)
    PROVE  Safe'
<1>1. TypeOK /\ undercut \subseteq Task /\ storing \in [Slot -> State \cup {"none"}]
  BY DEF Safe, TypeOK
<1>2. at[s] # "idle"
  BY <1>1 DEF Complete, Raise, RejectRetry, Exhaust, Abort, Free, TypeOK
<1>3. TaskOf(s) \in Task /\ RetriesOf(s) \in Nat /\ MaxRetries \in Nat
  BY <1>1, <1>2, AtWork, TaskAssumption
<1>4. CASE RejectRetry(s)
  BY <1>1, <1>2, <1>4, EndingSafe DEF RejectRetry
<1>5. CASE Complete(s)
  <2>1. Store(s, TaskOf(s), "SUCCESS") /\ "SUCCESS" \in State
    BY <1>5 DEF Complete, State
  <2>2. QED
    BY <1>1, <1>2, <1>3, <1>5, <2>1, StoreTypes, EndingSafe DEF Complete
<1>6. CASE Raise(s) \/ Exhaust(s) \/ Abort(s)
  <2>1. Store(s, TaskOf(s), "FAILURE") /\ "FAILURE" \in State
    BY <1>6 DEF Raise, Exhaust, Abort, State
  <2>2. /\ storing' \in [Slot -> State \cup {"none"}]
        /\ \A q \in Slot \ {s} : storing'[q] = storing[q]
    BY <1>1, <1>3, <2>1, StoreTypes
  <2>3. CASE Raise(s)
    BY <1>1, <1>2, <2>2, <2>3, EndingSafe DEF Raise
  <2>4. CASE Exhaust(s)
    BY <1>1, <1>2, <1>3, <2>2, <2>4, EndingSafe DEF Exhaust, MayRetry
  <2>5. CASE Abort(s)
    <3>1. undercut' \subseteq Task
      BY <1>1, <1>3, <2>5 DEF Abort
    <3>2. QED
      BY <1>2, <2>2, <2>5, <3>1, EndingSafe DEF Abort
  <2>6. QED
    BY <1>6, <2>3, <2>4, <2>5
<1>7. QED
  BY <1>4, <1>5, <1>6

-----------------------------------------------------------------------------
\* The successor is in the queue before its predecessor stops to run.
LEMMA RetrySafe ==
    ASSUME Safe, NEW s \in Slot, Retry(s)
    PROVE  Safe'
<1> USE DEF Safe
<1> DEFINE n == Successor(s)
<1>1. /\ at[s] = "run"
      /\ TaskOf(s) \in Task
      /\ RetriesOf(s) \in 0 .. MaxRetries
      /\ RetriesOf(s) < MaxRetries
      /\ starts[TaskOf(s)] > RetriesOf(s)
      /\ waiting' = [waiting EXCEPT ![n] = waiting[n] + 1]
      /\ at' = [at EXCEPT ![s] = "retrying"]
      /\ UNCHANGED <<msg, status, storing, crashes, sent, starts, lost, outcome, undercut>>
  BY AtWork DEF Retry, MayRetry, Publish, GoTo, AttemptsAreMade, history
<1>2. n = <<TaskOf(s), RetriesOf(s) + 1>> /\ n \in Message
  BY <1>1, TaskAssumption DEF Successor, Message
<1> HIDE DEF n
<1>3. /\ waiting' \in [Message -> Nat]
      /\ waiting'[n] > 0
      /\ \A m \in Message : m # n => waiting'[m] = waiting[m]
  BY <1>1, <1>2 DEF TypeOK
<1>4. TypeOK'
  BY <1>1, <1>3 DEF TypeOK
<1>5. AttemptsAreMade'
  <2>1. \A m \in Message : waiting'[m] > 0 => starts'[m[1]] >= m[2]
    BY <1>1, <1>2, <1>3, TaskAssumption DEF AttemptsAreMade, TypeOK
  <2>2. QED
    BY <1>1, <2>1 DEF AttemptsAreMade, TaskOf, RetriesOf, TypeOK
<1>6. NothingLost'
  <2> SUFFICES ASSUME NEW u \in sent, outcome[u] = {}, Running(u)' = {}
               PROVE  \E k \in 0 .. MaxRetries : waiting'[<<u, k>>] > 0
    BY <1>1 DEF NothingLost
  <2>1. CASE u = TaskOf(s)
    BY <2>1, <1>1, <1>2, <1>3, TaskAssumption
  <2>2. CASE u # TaskOf(s)
    <3>1. Running(u) = {}
      BY <2>2, <1>1 DEF Running, TaskOf, TypeOK
    <3>2. PICK k \in 0 .. MaxRetries : waiting[<<u, k>>] > 0
      BY <3>1 DEF NothingLost
    <3>3. <<u, k>> \in Message /\ <<u, k>> # n
      BY <2>2, <1>2 DEF TypeOK, Message
    <3>4. QED
      BY <3>2, <3>3, <1>3
  <2>3. QED
    BY <2>1, <2>2
<1>7. QED
  BY <1>1, <1>4, <1>5, <1>6 DEF OutagesAreRetried

\* What is left to do after a run concerns no message that will be executed.
LEMMA AfterwardsSafe ==
    ASSUME Safe, NEW s \in Slot, EndRetry(s) \/ Acknowledge(s)
    PROVE  Safe'
<1> USE DEF Safe
<1>1. /\ at[s] \in {"retrying", "acknowledge"}
      /\ TaskOf(s) \in Task
      /\ UNCHANGED <<waiting, status, crashes, sent, starts, lost, outcome, undercut>>
      /\ \/ /\ at' = [at EXCEPT ![s] = "acknowledge"] /\ msg' = msg
            /\ storing' \in [Slot -> State \cup {"none"}]
            /\ \A q \in Slot \ {s} : storing'[q] = storing[q]
         \/ /\ at' = [at EXCEPT ![s] = "idle"] /\ msg' = [msg EXCEPT ![s] = NoMessage]
            /\ storing' = storing /\ storing[s] = "none"
  <2>1. at[s] # "idle" /\ at[s] \in {"retrying", "acknowledge"} /\ TaskOf(s) \in Task
    BY AtWork DEF EndRetry, Acknowledge
  <2>2. CASE Acknowledge(s)
    BY <2>1, <2>2 DEF Acknowledge, GoTo, Free, history
  <2>3. CASE EndRetry(s)
    <3>1. Store(s, TaskOf(s), "RETRY") /\ "RETRY" \in State
      BY <2>3 DEF EndRetry, State
    <3>2. QED
      BY <2>1, <2>3, <3>1, StoreTypes DEF EndRetry, GoTo, history
  <2>4. QED
    BY <2>2, <2>3
<1>2. TypeOK'
  BY <1>1 DEF TypeOK, Message, NoMessage
<1>3. AttemptsAreMade'
  BY <1>1 DEF AttemptsAreMade, TaskOf, RetriesOf, TypeOK
<1>4. \A u \in sent : Running(u)' = Running(u)
  BY <1>1 DEF Running, TaskOf, TypeOK
<1>5. NothingLost'
  BY <1>1, <1>4 DEF NothingLost
<1>6. QED
  BY <1>1, <1>2, <1>3, <1>5 DEF OutagesAreRetried

\* A state reaches the result backend.
LEMMA WriteSafe ==
    ASSUME Safe, NEW s \in Slot, Write(s)
    PROVE  Safe'
<1> USE DEF Safe
<1>1. /\ at[s] # "idle" /\ TaskOf(s) \in Task
      /\ storing[s] \in State
      /\ storing' = [storing EXCEPT ![s] = "none"]
      /\ status' = [status EXCEPT ![TaskOf(s)] = storing[s]]
      /\ UNCHANGED <<waiting, at, msg, crashes, sent, starts, lost, outcome>>
  BY AtWork DEF Write, TypeOK
<1>2. undercut' \subseteq Task
  BY <1>1 DEF Write, TypeOK
<1>3. TypeOK'
  BY <1>1, <1>2 DEF TypeOK
<1>4. QED
  BY <1>1, <1>3 DEF AttemptsAreMade, NothingLost, OutagesAreRetried, Running, TaskOf, RetriesOf

\* The worker dies: every message it was running is in the queue again.
LEMMA CrashSafe ==
    ASSUME Safe, Crash
    PROVE  Safe'
<1> USE DEF Safe
<1> DEFINE held(m) == {s \in Unacknowledged : msg[s] = m}
           owned(t) == {s \in Unacknowledged : TaskOf(s) = t}
<1>1. /\ crashes' = crashes + 1 /\ crashes < MaxCrashes
      /\ waiting' = [m \in Message |-> waiting[m] + Cardinality(held(m))]
      /\ lost' = [t \in Task |-> lost[t] + Cardinality(owned(t))]
      /\ at' = [s \in Slot |-> "idle"]
      /\ msg' = [s \in Slot |-> NoMessage]
      /\ storing' = [s \in Slot |-> "none"]
      /\ UNCHANGED <<status, sent, starts, outcome>>
  BY DEF Crash
<1>2. /\ \A m : IsFiniteSet(held(m)) /\ Cardinality(held(m)) \in Nat
      /\ \A t : IsFiniteSet(owned(t)) /\ Cardinality(owned(t)) \in Nat
  <2>1. \A m : held(m) \subseteq Slot /\ owned(m) \subseteq Slot
    BY DEF Unacknowledged
  <2>2. \A T : T \subseteq Slot => IsFiniteSet(T) /\ Cardinality(T) \in Nat
    BY TaskAssumption, FS_Subset, FS_CardinalityType
  <2>3. QED
    BY <2>1, <2>2
<1>3. \A m : Cardinality(held(m)) > 0 <=> held(m) # {}
  BY <1>2, FS_EmptySet
<1> HIDE DEF held, owned
<1>4. /\ waiting' \in [Message -> Nat]
      /\ \A m \in Message : waiting'[m] > 0 <=> waiting[m] > 0 \/ held(m) # {}
  BY <1>1, <1>2, <1>3 DEF TypeOK
<1>5. TypeOK'
  <2>1. lost' \in [Task -> Nat] /\ crashes' \in 0 .. MaxCrashes
    BY <1>1, <1>2, TaskAssumption DEF TypeOK
  <2>2. undercut' \subseteq Task
    <3>1. \A s \in Slot : storing[s] = "SUCCESS" => TaskOf(s) \in Task
      BY AtWork DEF TypeOK
    <3>2. QED
      BY <3>1 DEF Crash, TypeOK
  <2>3. QED
    BY <1>1, <1>4, <2>1, <2>2 DEF TypeOK
<1>6. AttemptsAreMade'
  <2>1. ASSUME NEW m \in Message, held(m) # {} PROVE starts[m[1]] >= m[2]
    <3>1. PICK s \in Slot : at[s] # "idle" /\ msg[s] = m
      BY <2>1 DEF held, Unacknowledged
    <3>2. m[1] \in Task /\ m[2] \in Nat
      BY TaskAssumption DEF Message
    <3>3. QED
      BY <3>1, <3>2 DEF AttemptsAreMade, TaskOf, RetriesOf, TypeOK
  <2>2. QED
    BY <1>1, <1>4, <2>1 DEF AttemptsAreMade
<1>7. NothingLost'
  <2> SUFFICES ASSUME NEW t \in sent, outcome[t] = {}
               PROVE  \E k \in 0 .. MaxRetries : waiting'[<<t, k>>] > 0
    BY <1>1 DEF NothingLost
  <2>1. t \in Task
    BY DEF TypeOK
  <2>2. CASE \E k \in 0 .. MaxRetries : waiting[<<t, k>>] > 0
    BY <2>1, <2>2, <1>4 DEF Message
  <2>3. CASE Running(t) # {}
    <3>1. PICK s \in Slot : at[s] = "run" /\ TaskOf(s) = t
      BY <2>3 DEF Running
    <3>2. s \in held(<<t, RetriesOf(s)>>) /\ RetriesOf(s) \in 0 .. MaxRetries
      BY <3>1, AtWork DEF held, Unacknowledged
    <3>3. QED
      BY <2>1, <3>2, <1>4 DEF Message
  <2>4. QED
    BY <2>2, <2>3 DEF NothingLost
<1>8. QED
  BY <1>1, <1>5, <1>6, <1>7 DEF OutagesAreRetried

-----------------------------------------------------------------------------
\* Every step of the system preserves the inductive invariant.
LEMMA NextSafe == Safe /\ [Next]_vars => Safe'
<1> SUFFICES ASSUME Safe, [Next]_vars PROVE Safe'
  OBVIOUS
<1>1. ASSUME NEW t \in Task, Trigger(t) PROVE Safe'
  BY <1>1, TriggerSafe
<1>2. ASSUME NEW s \in Slot, Process(s) PROVE Safe'
  BY <1>2, TakeSafe, EndsSafe, RetrySafe, AfterwardsSafe, WriteSafe DEF Process, End
<1>3. CASE Crash
  BY <1>3, CrashSafe
<1>4. CASE UNCHANGED vars
  <2>1. /\ UNCHANGED <<waiting, at, msg, status, storing, crashes>>
        /\ UNCHANGED <<sent, starts, lost, outcome, undercut>>
    BY <1>4 DEF vars, history
  <2>2. TypeOK' /\ AttemptsAreMade'
    BY <2>1 DEF Safe, TypeOK, AttemptsAreMade, TaskOf, RetriesOf
  <2>3. NothingLost' /\ OutagesAreRetried'
    BY <2>1 DEF Safe, NothingLost, OutagesAreRetried, Running, TaskOf
  <2>4. QED
    BY <2>2, <2>3 DEF Safe
<1>5. QED
  BY <1>1, <1>2, <1>3, <1>4 DEF Next

-----------------------------------------------------------------------------
(***************************************************************************)
(* The result backend.                                                     *)
(***************************************************************************)
LEMMA InitStored == Init => Stored
BY DEF Init, Stored, SuccessIsTold, StoresAreInStep

\* A process looks whether it may store a state, and goes on.  It stores SUCCESS
\* only for a complete run; if it drops a SUCCESS, the task is undercut.
LEMMA LookStored ==
    ASSUME TypeOK, Stored, NEW s \in Slot, NEW t \in Task, NEW state \in State,
           Store(s, t, state),
           at'[s] # "idle" /\ TaskOf(s)' = t,
           \A q \in Slot \ {s} : msg'[q] = msg[q],
           status' = status,
           \A u \in Task : /\ outcome[u] \subseteq outcome'[u]
                           /\ u # t => outcome'[u] = outcome[u],
           state = "SUCCESS" => "complete" \in outcome'[t],
           state # "SUCCESS" => ("complete" \in outcome'[t] <=> "complete" \in outcome[t]),
           undercut \subseteq undercut',
           storing[s] = "SUCCESS" => TaskOf(s) \in undercut'
    PROVE  Stored'
<1>1. /\ storing' = [storing EXCEPT ![s] = IF status[t] = "SUCCESS" THEN "none" ELSE state]
      /\ storing \in [Slot -> State \cup {"none"}]
  BY DEF Store, TypeOK
<1>2. \A q \in Slot \ {s} : storing'[q] = storing[q] /\ TaskOf(q)' = TaskOf(q)
  BY <1>1 DEF TaskOf
<1>3. \A q \in Slot : storing[q] # "none" => TaskOf(q) \in Task
  BY AtWork DEF TypeOK
<1>4. SuccessIsTold'
  <2> SUFFICES ASSUME NEW u \in Task
               PROVE  /\ status'[u] = "SUCCESS" => "complete" \in outcome'[u]
                      /\ "complete" \in outcome'[u] =>
                             \/ status'[u] = "SUCCESS"
                             \/ \E q \in Slot : storing'[q] = "SUCCESS" /\ TaskOf(q)' = u
                             \/ u \in undercut'
    BY DEF SuccessIsTold
  <2>1. status'[u] = "SUCCESS" => "complete" \in outcome'[u]
    BY DEF Stored, SuccessIsTold
  <2>2. CASE "complete" \in outcome[u]
    <3>1. \/ status[u] = "SUCCESS"
          \/ \E q \in Slot : storing[q] = "SUCCESS" /\ TaskOf(q) = u
          \/ u \in undercut
      BY <2>2 DEF Stored, SuccessIsTold
    <3>2. QED
      BY <1>2, <2>1, <3>1
  <2>3. CASE "complete" \in outcome'[u] /\ "complete" \notin outcome[u]
    <3>1. u = t /\ state = "SUCCESS"
      BY <2>3
    <3>2. storing'[s] = "SUCCESS" \/ status[u] = "SUCCESS"
      BY <1>1, <3>1
    <3>3. QED
      BY <2>1, <3>1, <3>2
  <2>4. QED
    BY <2>1, <2>2, <2>3
<1>5. StoresAreInStep'
  <2> SUFFICES ASSUME NEW q \in Slot
               PROVE  /\ storing'[q] = "SUCCESS" => "complete" \in outcome'[TaskOf(q)']
                      /\ storing'[q] \notin {"none", "SUCCESS"}
                            /\ status'[TaskOf(q)'] = "SUCCESS" => TaskOf(q)' \in undercut'
    BY DEF StoresAreInStep
  <2>1. CASE q = s
    BY <1>1, <2>1
  <2>2. CASE q # s
    BY <1>2, <1>3, <2>2 DEF Stored, StoresAreInStep
  <2>3. QED
    BY <2>1, <2>2
<1>6. QED
  BY <1>4, <1>5 DEF Stored

\* Steps that store nothing, and end no run with success.
LEMMA SameStored ==
    ASSUME TypeOK, Stored, UNCHANGED <<status, storing, undercut>>,
           \A u \in Task : "complete" \in outcome'[u] <=> "complete" \in outcome[u],
           \A q \in Slot : storing[q] # "none" => msg'[q] = msg[q]
    PROVE  Stored'
<1>1. \A q \in Slot : storing[q] # "none" => TaskOf(q) \in Task /\ TaskOf(q)' = TaskOf(q)
  BY AtWork DEF TypeOK, TaskOf
<1>2. QED
  BY <1>1 DEF Stored, SuccessIsTold, StoresAreInStep

LEMMA WriteStored ==
    ASSUME TypeOK, Stored, NEW s \in Slot, Write(s)
    PROVE  Stored'
<1>1. /\ storing[s] \in State
      /\ TaskOf(s) \in Task
      /\ storing' = [storing EXCEPT ![s] = "none"]
      /\ status' = [status EXCEPT ![TaskOf(s)] = storing[s]]
      /\ UNCHANGED <<msg, outcome>>
      /\ undercut \subseteq undercut'
  BY AtWork DEF Write, TypeOK
<1>2. \A q \in Slot : /\ TaskOf(q)' = TaskOf(q)
                      /\ storing[q] # "none" => TaskOf(q) \in Task
  BY <1>1, AtWork DEF TaskOf, TypeOK
<1>3. /\ \A q \in Slot \ {s} : storing'[q] = storing[q]
      /\ storing'[s] = "none"
      /\ status'[TaskOf(s)] = storing[s]
      /\ \A u \in Task : u # TaskOf(s) => status'[u] = status[u]
  BY <1>1 DEF TypeOK
<1>4. SuccessIsTold'
  <2> SUFFICES ASSUME NEW u \in Task
               PROVE  /\ status'[u] = "SUCCESS" => "complete" \in outcome[u]
                      /\ "complete" \in outcome[u] =>
                             \/ status'[u] = "SUCCESS"
                             \/ \E q \in Slot : storing'[q] = "SUCCESS" /\ TaskOf(q) = u
                             \/ u \in undercut'
    BY <1>1, <1>2 DEF SuccessIsTold
  <2>1. /\ status[u] = "SUCCESS" => "complete" \in outcome[u]
        /\ "complete" \in outcome[u] =>
               \/ status[u] = "SUCCESS"
               \/ \E q \in Slot : storing[q] = "SUCCESS" /\ TaskOf(q) = u
               \/ u \in undercut
    BY DEF Stored, SuccessIsTold
  <2>2. CASE u # TaskOf(s)
    BY <1>1, <1>3, <2>1, <2>2
  <2>3. CASE u = TaskOf(s) /\ storing[s] = "SUCCESS"
    BY <1>3, <2>3 DEF Stored, StoresAreInStep
  <2>4. CASE u = TaskOf(s) /\ storing[s] # "SUCCESS"
    <3>1. status[u] = "SUCCESS" => u \in undercut
      BY <1>1, <2>4 DEF Stored, StoresAreInStep, State
    <3>2. QED
      BY <1>1, <1>3, <2>1, <2>4, <3>1
  <2>5. QED
    BY <2>2, <2>3, <2>4
<1>5. StoresAreInStep'
  <2> SUFFICES ASSUME NEW q \in Slot \ {s}, storing[q] # "none"
               PROVE  /\ storing[q] = "SUCCESS" => "complete" \in outcome[TaskOf(q)]
                      /\ storing[q] \notin {"none", "SUCCESS"}
                            /\ status'[TaskOf(q)] = "SUCCESS" => TaskOf(q) \in undercut'
    BY <1>1, <1>2, <1>3 DEF StoresAreInStep
  <2>1. /\ storing[q] = "SUCCESS" => "complete" \in outcome[TaskOf(q)]
        /\ storing[q] \notin {"none", "SUCCESS"} /\ status[TaskOf(q)] = "SUCCESS" =>
               TaskOf(q) \in undercut
    BY DEF Stored, StoresAreInStep
  <2>2. CASE TaskOf(q) # TaskOf(s)
    BY <1>1, <1>2, <1>3, <2>1, <2>2
  <2>3. CASE TaskOf(q) = TaskOf(s)
    <3>1. storing[q] \notin {"none", "SUCCESS"} => q \in Rivals(s)
      BY <2>3 DEF Rivals
    <3>2. storing[s] = "SUCCESS" /\ Rivals(s) # {} => TaskOf(s) \in undercut'
      BY DEF Write
    <3>3. QED
      BY <1>3, <2>1, <2>3, <3>1, <3>2
  <2>4. QED
    BY <2>2, <2>3
<1>6. QED
  BY <1>4, <1>5 DEF Stored

LEMMA CrashStored ==
    ASSUME TypeOK, Stored, Crash
    PROVE  Stored'
<1>1. /\ storing' = [s \in Slot |-> "none"]
      /\ undercut \subseteq undercut'
      /\ \A s \in Slot : storing[s] = "SUCCESS" => TaskOf(s) \in undercut'
      /\ UNCHANGED <<status, outcome>>
  BY DEF Crash
<1>2. StoresAreInStep'
  BY <1>1 DEF StoresAreInStep
<1>3. SuccessIsTold'
  BY <1>1 DEF Stored, SuccessIsTold
<1>4. QED
  BY <1>2, <1>3 DEF Stored

LEMMA StoredStep ==
    ASSUME Safe, Stored, [Next]_vars
    PROVE  Stored'
<1>1. TypeOK
  BY DEF Safe
<1>2. "SUCCESS" \in State /\ "FAILURE" \in State /\ "RETRY" \in State /\ "STARTED" \in State
  BY DEF State
<1>3. ASSUME NEW t \in Task, Trigger(t) PROVE Stored'
  BY <1>1, <1>3, SameStored DEF Trigger
<1>4. ASSUME NEW s \in Slot, NEW m \in Message, Take(s, m) PROVE Stored'
  <2>1. /\ m[1] \in Task /\ at'[s] # "idle" /\ TaskOf(s)' = m[1]
        /\ storing[s] = "none"
        /\ \A q \in Slot \ {s} : msg'[q] = msg[q]
        /\ UNCHANGED <<status, outcome, undercut>>
        /\ Store(s, m[1], "STARTED")
    BY <1>1, <1>4 DEF Take, GoTo, TypeOK, TaskOf, Message
  <2>2. QED
    BY <1>1, <1>2, <2>1, LookStored
<1>5. ASSUME NEW s \in Slot, Complete(s) PROVE Stored'
  <2>1. at[s] # "idle" /\ TaskOf(s) \in Task
    BY <1>1, <1>5, AtWork DEF Complete
  <2>2. /\ at'[s] # "idle" /\ TaskOf(s)' = TaskOf(s)
        /\ storing[s] = "none"
        /\ UNCHANGED <<msg, status, undercut>>
        /\ outcome' = [outcome EXCEPT ![TaskOf(s)] = outcome[TaskOf(s)] \cup {"complete"}]
        /\ Store(s, TaskOf(s), "SUCCESS")
    BY <1>1, <1>5 DEF Complete, Free, GoTo, EndsWith, TypeOK, TaskOf
  <2>3. /\ "complete" \in outcome'[TaskOf(s)]
        /\ \A u \in Task : /\ outcome[u] \subseteq outcome'[u]
                            /\ u # TaskOf(s) => outcome'[u] = outcome[u]
    BY <1>1, <2>1, <2>2 DEF TypeOK
  <2>4. QED
    BY <1>1, <1>2, <2>1, <2>2, <2>3, LookStored
<1>6. ASSUME NEW s \in Slot, Raise(s) \/ Exhaust(s) \/ Abort(s) PROVE Stored'
  <2>1. at[s] # "idle" /\ TaskOf(s) \in Task
    BY <1>1, <1>6, AtWork DEF Raise, Exhaust, Abort, Free, TypeOK
  <2>2. PICK end \in {"error", "exhausted"} : EndsWith(TaskOf(s), end)
    BY <1>6 DEF Raise, Exhaust, Abort
  <2>3. /\ at'[s] # "idle" /\ TaskOf(s)' = TaskOf(s)
        /\ UNCHANGED <<msg, status>>
        /\ Store(s, TaskOf(s), "FAILURE")
    BY <1>1, <1>6 DEF Raise, Exhaust, Abort, GoTo, TypeOK, TaskOf
  <2>4. /\ undercut \subseteq undercut'
        /\ storing[s] = "SUCCESS" => TaskOf(s) \in undercut'
    BY <1>6 DEF Raise, Exhaust, Abort, Free
  <2>5. \A u \in Task : /\ outcome[u] \subseteq outcome'[u]
                        /\ u # TaskOf(s) => outcome'[u] = outcome[u]
                        /\ "complete" \in outcome'[u] <=> "complete" \in outcome[u]
    BY <1>1, <2>1, <2>2 DEF TypeOK, EndsWith
  <2>6. QED
    BY <1>1, <1>2, <2>1, <2>3, <2>4, <2>5, LookStored
<1>7. ASSUME NEW s \in Slot, EndRetry(s) PROVE Stored'
  <2>1. at[s] # "idle" /\ TaskOf(s) \in Task
    BY <1>1, <1>7, AtWork DEF EndRetry
  <2>2. /\ at'[s] # "idle" /\ TaskOf(s)' = TaskOf(s)
        /\ UNCHANGED <<msg, status, outcome, undercut>>
        /\ Store(s, TaskOf(s), "RETRY")
        /\ storing[s] # "SUCCESS"
    BY <1>1, <1>7 DEF EndRetry, Free, GoTo, TypeOK, TaskOf, history
  <2>3. QED
    BY <1>1, <1>2, <2>1, <2>2, LookStored
<1>8. ASSUME NEW s \in Slot, RejectRetry(s) PROVE Stored'
  <2>1. TaskOf(s) \in Task
    BY <1>1, <1>8, AtWork DEF RejectRetry
  <2>2. \A u \in Task : "complete" \in outcome'[u] <=> "complete" \in outcome[u]
    BY <1>1, <1>8, <2>1 DEF RejectRetry, EndsWith, TypeOK
  <2>3. QED
    BY <1>1, <1>8, <2>2, SameStored DEF RejectRetry
<1>9. ASSUME NEW s \in Slot, Retry(s) PROVE Stored'
  BY <1>1, <1>9, SameStored DEF Retry, history
<1>10. ASSUME NEW s \in Slot, Acknowledge(s) PROVE Stored'
  <2>1. \A q \in Slot : storing[q] # "none" => msg'[q] = msg[q]
    BY <1>1, <1>10 DEF Acknowledge, Free, TypeOK
  <2>2. QED
    BY <1>1, <1>10, <2>1, SameStored DEF Acknowledge, history
<1>11. ASSUME NEW s \in Slot, Write(s) PROVE Stored'
  BY <1>1, <1>11, WriteStored
<1>12. CASE Crash
  BY <1>1, <1>12, CrashStored
<1>13. CASE UNCHANGED vars
  BY <1>1, <1>13, SameStored DEF vars, history
<1>14. QED
  BY <1>3, <1>4, <1>5, <1>6, <1>7, <1>8, <1>9, <1>10, <1>11, <1>12, <1>13 DEF Next, Process, End

-----------------------------------------------------------------------------
\* The terms that Queued, Promised and Claimed add up.
Copies(t)  == [k \in 0 .. MaxRetries |-> waiting[<<t, k>>]]
Chances(t) == [k \in 0 .. MaxRetries |-> (MaxRetries + 1 - k) * waiting[<<t, k>>]]
Claims(t)  == [s \in Slot |-> Claim(s, t)]

QueuedAddsUp   == \A t : Queued(t) = SumOver(Copies(t), 0 .. MaxRetries)
PromisedAddsUp == \A t : Promised(t) = SumOver(Chances(t), 0 .. MaxRetries)
ClaimedAddsUp  == \A t : Claimed(t) = SumOver(Claims(t), Slot)

LEMMA QueuedSum == QueuedAddsUp
<1> SUFFICES ASSUME NEW t PROVE Queued(t) = SumOver(Copies(t), 0 .. MaxRetries)
  BY DEF QueuedAddsUp
<1> DEFINE Body(g) == [s \in SUBSET (0 .. MaxRetries) |->
                          IF s = {} THEN 0 ELSE waiting[<<t, Pick(s)>>] + g[s \ {Pick(s)}]]
           it == CHOOSE g : g = Body(g)
<1>1. IsFiniteSet(0 .. MaxRetries)
  BY TaskAssumption, FS_Interval
<1>2. PICK h : IsSum(h, Copies(t), 0 .. MaxRetries)
  BY <1>1, SumExists
<1>3. h = Body(h)
  BY <1>2, PickIn DEF IsSum, Copies
<1> HIDE DEF Body
<1>4. it = Body(it)
  BY <1>3
<1> USE DEF Body
<1>5. IsSum(it, Copies(t), 0 .. MaxRetries)
  BY <1>4, PickIn DEF IsSum, Copies
<1>6. Queued(t) = it[0 .. MaxRetries]
  BY DEF MapThenSumSet, MapThenFoldSet, Pick, Queued
<1> HIDE DEF it
<1>7. QED
  BY <1>1, <1>5, <1>6, SumOverIs

LEMMA PromisedSum == PromisedAddsUp
<1> SUFFICES ASSUME NEW t PROVE Promised(t) = SumOver(Chances(t), 0 .. MaxRetries)
  BY DEF PromisedAddsUp
<1> DEFINE Body(g) == [s \in SUBSET (0 .. MaxRetries) |->
                          IF s = {} THEN 0
                          ELSE (MaxRetries + 1 - Pick(s)) * waiting[<<t, Pick(s)>>]
                               + g[s \ {Pick(s)}]]
           it == CHOOSE g : g = Body(g)
<1>1. IsFiniteSet(0 .. MaxRetries)
  BY TaskAssumption, FS_Interval
<1>2. PICK h : IsSum(h, Chances(t), 0 .. MaxRetries)
  BY <1>1, SumExists
<1>3. h = Body(h)
  BY <1>2, PickIn DEF IsSum, Chances
<1> HIDE DEF Body
<1>4. it = Body(it)
  BY <1>3
<1> USE DEF Body
<1>5. IsSum(it, Chances(t), 0 .. MaxRetries)
  BY <1>4, PickIn DEF IsSum, Chances
<1>6. Promised(t) = it[0 .. MaxRetries]
  BY DEF MapThenSumSet, MapThenFoldSet, Pick, Promised
<1> HIDE DEF it
<1>7. QED
  BY <1>1, <1>5, <1>6, SumOverIs

LEMMA ClaimedSum == ClaimedAddsUp
<1> SUFFICES ASSUME NEW t PROVE Claimed(t) = SumOver(Claims(t), Slot)
  BY DEF ClaimedAddsUp
<1> DEFINE Body(g) == [s \in SUBSET Slot |->
                          IF s = {} THEN 0 ELSE Claim(Pick(s), t) + g[s \ {Pick(s)}]]
           it == CHOOSE g : g = Body(g)
<1>1. IsFiniteSet(Slot)
  BY TaskAssumption
<1>2. PICK h : IsSum(h, Claims(t), Slot)
  BY <1>1, SumExists
<1>3. h = Body(h)
  BY <1>2, PickIn DEF IsSum, Claims
<1> HIDE DEF Body
<1>4. it = Body(it)
  BY <1>3
<1> USE DEF Body
<1>5. IsSum(it, Claims(t), Slot)
  BY <1>4, PickIn DEF IsSum, Claims
<1>6. Claimed(t) = it[Slot]
  BY DEF MapThenSumSet, MapThenFoldSet, Pick, Claimed
<1> HIDE DEF it
<1>7. QED
  BY <1>1, <1>5, <1>6, SumOverIs

-----------------------------------------------------------------------------
\* The terms of these sums are whole numbers.
LEMMA TermTypes ==
    ASSUME TypeOK, NEW t \in Task
    PROVE  /\ IsFiniteSet(0 .. MaxRetries) /\ IsFiniteSet(Slot)
           /\ Copies(t) \in [0 .. MaxRetries -> Int]
           /\ Chances(t) \in [0 .. MaxRetries -> Int]
           /\ Claims(t) \in [Slot -> Int]
           /\ \A s \in Slot : Claim(s, t) \in Int /\ Claim(s, t) >= 0
           /\ IsFiniteSet(Running(t)) /\ Cardinality(Running(t)) \in Nat
<1>1. IsFiniteSet(0 .. MaxRetries) /\ IsFiniteSet(Slot) /\ MaxRetries \in Nat
  BY TaskAssumption, FS_Interval
<1>2. ASSUME NEW k \in 0 .. MaxRetries
      PROVE  waiting[<<t, k>>] \in Int /\ (MaxRetries + 1 - k) * waiting[<<t, k>>] \in Int
  <2>1. waiting[<<t, k>>] \in Nat
    BY DEF TypeOK, Message
  <2>2. MaxRetries + 1 - k \in Int
    BY <1>1
  <2>3. QED
    BY <2>1, <2>2
<1>3. ASSUME NEW s \in Slot
      PROVE  Claim(s, t) \in Int /\ Claim(s, t) >= 0
  BY <1>1, AtWork DEF Claim
<1>4. IsFiniteSet(Running(t)) /\ Cardinality(Running(t)) \in Nat
  BY <1>1, FS_Subset, FS_CardinalityType DEF Running
<1>5. QED
  BY <1>1, <1>2, <1>3, <1>4 DEF Copies, Chances, Claims

\* One message more or less.
LEMMA MessageSums ==
    ASSUME TypeOK, TypeOK', NEW m \in Message, NEW d \in Int,
           \A n \in Message \ {m} : waiting'[n] = waiting[n],
           waiting'[m] = waiting[m] + d,
           NEW t \in Task
    PROVE  /\ Queued(t)' = Queued(t) + (IF t = m[1] THEN d ELSE 0)
           /\ Promised(t)' = Promised(t) + (IF t = m[1] THEN (MaxRetries + 1 - m[2]) * d ELSE 0)
           /\ Queued(t) \in Int /\ Promised(t) \in Int
<1>1. /\ IsFiniteSet(0 .. MaxRetries) /\ MaxRetries \in Nat
      /\ Copies(t) \in [0 .. MaxRetries -> Int] /\ Copies(t)' \in [0 .. MaxRetries -> Int]
      /\ Chances(t) \in [0 .. MaxRetries -> Int] /\ Chances(t)' \in [0 .. MaxRetries -> Int]
  <2>1. ASSUME NEW k \in 0 .. MaxRetries
        PROVE  waiting'[<<t, k>>] \in Int /\ (MaxRetries + 1 - k) * waiting'[<<t, k>>] \in Int
    <3>1. waiting'[<<t, k>>] \in Nat
      BY DEF TypeOK, Message
    <3>2. MaxRetries + 1 - k \in Int
      BY TaskAssumption
    <3>3. QED
      BY <3>1, <3>2
  <2>2. QED
    BY <2>1, TermTypes, TaskAssumption DEF Copies, Chances
<1>2. /\ Queued(t) = SumOver(Copies(t), 0 .. MaxRetries)
      /\ Queued(t)' = SumOver(Copies(t)', 0 .. MaxRetries)
      /\ Promised(t) = SumOver(Chances(t), 0 .. MaxRetries)
      /\ Promised(t)' = SumOver(Chances(t)', 0 .. MaxRetries)
  <2>1. QueuedAddsUp /\ QueuedAddsUp' /\ PromisedAddsUp /\ PromisedAddsUp'
    BY QueuedSum, PromisedSum, PTL
  <2>2. QED
    BY <2>1 DEF QueuedAddsUp, PromisedAddsUp
<1>3. Queued(t) \in Int /\ Promised(t) \in Int
  BY <1>1, <1>2, SumOverType
<1>4. CASE t # m[1]
  <2>1. \A k \in 0 .. MaxRetries : waiting'[<<t, k>>] = waiting[<<t, k>>]
    BY <1>4 DEF Message
  <2>2. Copies(t)' = Copies(t) /\ Chances(t)' = Chances(t)
    BY <2>1 DEF Copies, Chances
  <2>3. QED
    BY <1>2, <1>3, <1>4, <2>2
<1>5. CASE t = m[1]
  <2>1. PICK k \in 0 .. MaxRetries : k = m[2] /\ m = <<t, k>>
    BY <1>5 DEF Message
  <2>2. \A j \in (0 .. MaxRetries) \ {k} : waiting'[<<t, j>>] = waiting[<<t, j>>]
    BY <2>1 DEF Message
  <2>3. PICK w \in Int : w = waiting[m] /\ waiting'[m] = w + d
    BY DEF TypeOK
  <2>4. /\ Copies(t)[k] = w /\ Copies(t)'[k] = w + d
        /\ \A j \in (0 .. MaxRetries) \ {k} : Copies(t)[j] = Copies(t)'[j]
    BY <2>1, <2>2, <2>3 DEF Copies
  <2>5. /\ Chances(t)[k] = (MaxRetries + 1 - k) * w
        /\ Chances(t)'[k] = (MaxRetries + 1 - k) * (w + d)
        /\ \A j \in (0 .. MaxRetries) \ {k} : Chances(t)[j] = Chances(t)'[j]
    BY <2>1, <2>2, <2>3 DEF Chances
  <2>6. Queued(t)' = Queued(t) + d
    <3>1. SumOver(Copies(t)', 0 .. MaxRetries)
             = SumOver(Copies(t), 0 .. MaxRetries) + (Copies(t)'[k] - Copies(t)[k])
      <4>1. PICK S : S = 0 .. MaxRetries
        OBVIOUS
      <4>2. PICK f \in [S -> Int] : f = Copies(t)
        BY <1>1, <4>1
      <4>3. PICK g \in [S -> Int] : g = Copies(t)'
        BY <1>1, <4>1
      <4>4. PICK a \in S : a = k
        BY <4>1
      <4>5. IsFiniteSet(S) /\ \A j \in S \ {a} : f[j] = g[j]
        BY <1>1, <2>4, <4>1, <4>2, <4>3, <4>4
      <4>6. SumOver(g, S) = SumOver(f, S) + (g[a] - f[a])
        BY <4>5, SumOverUpdate
      <4>7. QED
        BY <4>1, <4>2, <4>3, <4>4, <4>6
    <3>2. Copies(t)'[k] - Copies(t)[k] = d
      BY <2>4
    <3>3. QED
      BY <1>2, <3>1, <3>2
  <2>7. Promised(t)' = Promised(t) + (MaxRetries + 1 - k) * d
    <3>1. SumOver(Chances(t)', 0 .. MaxRetries)
             = SumOver(Chances(t), 0 .. MaxRetries) + (Chances(t)'[k] - Chances(t)[k])
      <4>1. PICK S : S = 0 .. MaxRetries
        OBVIOUS
      <4>2. PICK f \in [S -> Int] : f = Chances(t)
        BY <1>1, <4>1
      <4>3. PICK g \in [S -> Int] : g = Chances(t)'
        BY <1>1, <4>1
      <4>4. PICK a \in S : a = k
        BY <4>1
      <4>5. IsFiniteSet(S) /\ \A j \in S \ {a} : f[j] = g[j]
        BY <1>1, <2>5, <4>1, <4>2, <4>3, <4>4
      <4>6. SumOver(g, S) = SumOver(f, S) + (g[a] - f[a])
        BY <4>5, SumOverUpdate
      <4>7. QED
        BY <4>1, <4>2, <4>3, <4>4, <4>6
    <3>2. Chances(t)'[k] - Chances(t)[k] = (MaxRetries + 1 - k) * d
      <4>1. PICK c \in Int : c = MaxRetries + 1 - k
        BY TaskAssumption
      <4>2. c * (w + d) - c * w = c * d
        OBVIOUS
      <4>3. QED
        BY <2>5, <4>1, <4>2
    <3>3. QED
      BY <1>2, <3>1, <3>2
  <2>8. QED
    BY <1>3, <1>5, <2>1, <2>6, <2>7
<1>6. QED
  BY <1>3, <1>4, <1>5

\* One process at work on something else.
LEMMA SlotSums ==
    ASSUME TypeOK, NEW s \in Slot, NEW t \in Task,
           \A q \in Slot \ {s} : at'[q] = at[q] /\ msg'[q] = msg[q],
           Claim(s, t)' \in Int
    PROVE  /\ Claimed(t)' = Claimed(t) + (Claim(s, t)' - Claim(s, t))
           /\ Cardinality(Running(t)') = Cardinality(Running(t))
                                            + (IF s \in Running(t)' THEN 1 ELSE 0)
                                            - (IF s \in Running(t) THEN 1 ELSE 0)
           /\ Claimed(t) \in Int /\ Cardinality(Running(t)) \in Nat
<1>1. /\ IsFiniteSet(Slot) /\ Claims(t) \in [Slot -> Int]
      /\ IsFiniteSet(Running(t)) /\ Cardinality(Running(t)) \in Nat
      /\ Claim(s, t) \in Int
  BY TermTypes
<1>2. \A q \in Slot \ {s} : /\ Claim(q, t)' = Claim(q, t)
                            /\ q \in Running(t)' <=> q \in Running(t)
  BY DEF Claim, TaskOf, RetriesOf, Running
<1>3. /\ Claims(t)' \in [Slot -> Int]
      /\ Claims(t)[s] = Claim(s, t) /\ Claims(t)'[s] = Claim(s, t)'
      /\ \A q \in Slot \ {s} : Claims(t)[q] = Claims(t)'[q]
  <2>1. \A q \in Slot : Claims(t)[q] = Claim(q, t) /\ Claims(t)'[q] = Claim(q, t)'
    BY DEF Claims
  <2>2. \A q \in Slot : Claim(q, t)' \in Int
    BY <1>2, TermTypes
  <2>3. Claims(t)' = [q \in Slot |-> Claim(q, t)']
    BY DEF Claims
  <2>4. QED
    BY <1>2, <2>1, <2>2, <2>3
<1>4. Claimed(t)' = Claimed(t) + (Claim(s, t)' - Claim(s, t)) /\ Claimed(t) \in Int
  <2>1. Claimed(t) = SumOver(Claims(t), Slot) /\ Claimed(t)' = SumOver(Claims(t)', Slot)
    <3>1. ClaimedAddsUp /\ ClaimedAddsUp'
      BY ClaimedSum, PTL
    <3>2. QED
      BY <3>1 DEF ClaimedAddsUp
  <2>2. SumOver(Claims(t)', Slot) = SumOver(Claims(t), Slot) + (Claims(t)'[s] - Claims(t)[s])
    BY <1>1, <1>3, SumOverUpdate
  <2>3. SumOver(Claims(t), Slot) \in Int
    BY <1>1, SumOverType
  <2>4. QED
    BY <1>3, <2>1, <2>2, <2>3
<1>5. Cardinality(Running(t)') = Cardinality(Running(t))
                                   + (IF s \in Running(t)' THEN 1 ELSE 0)
                                   - (IF s \in Running(t) THEN 1 ELSE 0)
  <2>1. Running(t)' \subseteq Slot /\ Running(t) \subseteq Slot
    BY DEF Running
  <2>2. CASE s \in Running(t)' <=> s \in Running(t)
    <3>1. Running(t)' = Running(t)
      BY <1>2, <2>1, <2>2
    <3>2. QED
      BY <1>1, <2>2, <3>1
  <2>3. CASE s \in Running(t)' /\ s \notin Running(t)
    <3>1. Running(t)' = Running(t) \cup {s}
      BY <1>2, <2>1, <2>3
    <3>2. Cardinality(Running(t) \cup {s}) = Cardinality(Running(t)) + 1
      BY <1>1, <2>3, FS_AddElement
    <3>3. QED
      BY <1>1, <2>3, <3>1, <3>2
  <2>4. CASE s \notin Running(t)' /\ s \in Running(t)
    <3>1. Running(t)' = Running(t) \ {s}
      BY <1>2, <2>1, <2>4
    <3>2. Cardinality(Running(t) \ {s}) = Cardinality(Running(t)) - 1
      BY <1>1, <2>4, FS_RemoveElement
    <3>3. QED
      BY <1>1, <2>4, <3>1, <3>2
  <2>5. QED
    BY <2>2, <2>3, <2>4
<1>6. QED
  BY <1>1, <1>4, <1>5

-----------------------------------------------------------------------------
\* The invariant for one task, with its numbers.
LEMMA BudgetOf ==
    ASSUME TypeOK, BudgetKept, NEW t \in Task
    PROVE  /\ Queued(t) \in Int /\ Promised(t) \in Int /\ Claimed(t) \in Int
           /\ Cardinality(Running(t)) \in Nat
           /\ starts[t] \in Nat /\ lost[t] \in Nat
           /\ (MaxRetries + 1) * (1 + lost[t]) \in Int
           /\ (MaxRetries + 1) * (1 + lost[t]) >= MaxRetries + 1
           /\ Queued(t) + Cardinality(Running(t)) <= 1 + lost[t]
           /\ starts[t] + Promised(t) + Claimed(t) <= (MaxRetries + 1) * (1 + lost[t])
<1>1. /\ IsFiniteSet(0 .. MaxRetries) /\ IsFiniteSet(Slot)
      /\ Copies(t) \in [0 .. MaxRetries -> Int]
      /\ Chances(t) \in [0 .. MaxRetries -> Int]
      /\ Claims(t) \in [Slot -> Int]
      /\ Cardinality(Running(t)) \in Nat
  BY TermTypes
<1>2. Queued(t) \in Int /\ Promised(t) \in Int /\ Claimed(t) \in Int
  <2>1. /\ Queued(t) = SumOver(Copies(t), 0 .. MaxRetries)
        /\ Promised(t) = SumOver(Chances(t), 0 .. MaxRetries)
        /\ Claimed(t) = SumOver(Claims(t), Slot)
    BY QueuedSum, PromisedSum, ClaimedSum DEF QueuedAddsUp, PromisedAddsUp, ClaimedAddsUp
  <2>2. QED
    BY <1>1, <2>1, SumOverType
<1>3. starts[t] \in Nat /\ lost[t] \in Nat /\ MaxRetries \in Nat
  BY TaskAssumption DEF TypeOK
<1>4. /\ (MaxRetries + 1) * (1 + lost[t]) \in Int
      /\ (MaxRetries + 1) * (1 + lost[t]) >= MaxRetries + 1
  <2>1. (MaxRetries + 1) * lost[t] \in Nat
    BY <1>3
  <2>2. (MaxRetries + 1) * (1 + lost[t]) = (MaxRetries + 1) + (MaxRetries + 1) * lost[t]
    BY <1>3
  <2>3. QED
    BY <1>3, <2>1, <2>2
<1>5. QED
  BY <1>1, <1>2, <1>3, <1>4 DEF BudgetKept, Executable, Budget

\* A task that was not queued yet has no start, no message and no process.
LEMMA NotQueued ==
    ASSUME BudgetKept, NEW t \in Task, t \notin sent
    PROVE  /\ starts[t] = 0
           /\ \A k \in 0 .. MaxRetries : waiting[<<t, k>>] = 0
           /\ \A s \in Slot : at[s] # "idle" => TaskOf(s) # t
<1>1. t \notin sent => /\ starts[t] = 0
                       /\ \A k \in 0 .. MaxRetries : waiting[<<t, k>>] = 0
                       /\ \A s \in Slot : at[s] # "idle" => TaskOf(s) # t
  BY DEF BudgetKept
<1>2. QED
  BY <1>1

\* A promise and a claim are never below zero.
LEMMA SumsNonneg ==
    ASSUME TypeOK, NEW t \in Task
    PROVE  Promised(t) >= 0 /\ Claimed(t) >= 0
<1>1. ASSUME NEW k \in 0 .. MaxRetries
      PROVE  Chances(t)[k] >= 0
  <2>1. waiting[<<t, k>>] \in Nat /\ MaxRetries + 1 - k \in Nat
    BY TaskAssumption DEF TypeOK, Message
  <2>2. (MaxRetries + 1 - k) * waiting[<<t, k>>] \in Nat
    BY <2>1
  <2>3. QED
    BY <2>2 DEF Chances
<1>2. \A s \in Slot : Claims(t)[s] >= 0
  BY TermTypes DEF Claims
<1>3. SumOver(Chances(t), 0 .. MaxRetries) >= 0
  <2>1. PICK S : S = 0 .. MaxRetries
    OBVIOUS
  <2>2. PICK f \in [S -> Int] : f = Chances(t)
    BY <2>1, TermTypes
  <2>3. IsFiniteSet(S) /\ \A k \in S : f[k] >= 0
    BY <1>1, <2>1, <2>2, TermTypes
  <2>4. SumOver(f, S) >= 0
    BY <2>3, SumOverNonneg
  <2>5. QED
    BY <2>1, <2>2, <2>4
<1>4. SumOver(Claims(t), Slot) >= 0
  BY <1>2, TermTypes, SumOverNonneg
<1>5. QED
  BY <1>3, <1>4, PromisedSum, ClaimedSum DEF PromisedAddsUp, ClaimedAddsUp

\* No message and no process: nothing to add up.
LEMMA IdleSums ==
    ASSUME TypeOK, NEW t \in Task,
           \A k \in 0 .. MaxRetries : waiting[<<t, k>>] = 0,
           \A s \in Slot : at[s] # "idle" => TaskOf(s) # t
    PROVE  /\ Queued(t) = 0 /\ Promised(t) = 0 /\ Claimed(t) = 0
           /\ Cardinality(Running(t)) = 0
<1>1. Cardinality(Running(t)) = 0
  <2>1. Running(t) = {}
    BY DEF Running
  <2>2. QED
    BY <2>1, FS_EmptySet
<1>2. /\ Copies(t) = [k \in 0 .. MaxRetries |-> 0]
      /\ Chances(t) = [k \in 0 .. MaxRetries |-> 0]
      /\ Claims(t) = [s \in Slot |-> 0]
  <2>1. \A k \in 0 .. MaxRetries : (MaxRetries + 1 - k) * waiting[<<t, k>>] = 0
    BY TaskAssumption
  <2>2. \A s \in Slot : Claim(s, t) = 0
    BY DEF Claim
  <2>3. QED
    BY <2>1, <2>2 DEF Copies, Chances, Claims
<1>3. IsFiniteSet(0 .. MaxRetries) /\ IsFiniteSet(Slot)
  BY TermTypes
<1>4. /\ Queued(t) = SumOver(Copies(t), 0 .. MaxRetries)
      /\ Promised(t) = SumOver(Chances(t), 0 .. MaxRetries)
      /\ Claimed(t) = SumOver(Claims(t), Slot)
  BY QueuedSum, PromisedSum, ClaimedSum DEF QueuedAddsUp, PromisedAddsUp, ClaimedAddsUp
<1>5. QED
  BY <1>1, <1>2, <1>3, <1>4, SumOverZeros

\* A task that was not queued yet has nothing.
LEMMA NothingYet ==
    ASSUME TypeOK, BudgetKept, NEW t \in Task, t \notin sent
    PROVE  /\ Queued(t) = 0 /\ Promised(t) = 0 /\ Claimed(t) = 0
           /\ Cardinality(Running(t)) = 0 /\ starts[t] = 0
BY NotQueued, IdleSums

\* To be shown of each task after a step that loses no delivery.
LEMMA BudgetGoal ==
    ASSUME UNCHANGED lost,
           \A t \in Task :
              /\ Queued(t)' + Cardinality(Running(t)') <= 1 + lost[t]
              /\ starts'[t] + Promised(t)' + Claimed(t)' <= (MaxRetries + 1) * (1 + lost[t])
              /\ t \notin sent' => /\ starts'[t] = 0
                                   /\ \A k \in 0 .. MaxRetries : waiting'[<<t, k>>] = 0
                                   /\ \A s \in Slot : at'[s] # "idle" => TaskOf(s)' # t
    PROVE  BudgetKept'
BY DEF BudgetKept, Executable, Budget

LEMMA TriggerBudget ==
    ASSUME TypeOK, TypeOK', BudgetKept, NEW u \in Task, Trigger(u)
    PROVE  BudgetKept'
<1>1. /\ u \notin sent /\ sent' = sent \cup {u}
      /\ waiting' = [waiting EXCEPT ![<<u, 0>>] = @ + 1]
      /\ UNCHANGED <<at, msg, starts, lost>>
      /\ MaxRetries \in Nat
  BY TaskAssumption DEF Trigger, Publish
<1>2. PICK m \in Message : m = <<u, 0>> /\ m[1] = u /\ m[2] = 0
  BY <1>1 DEF Message
<1>3. waiting'[m] = waiting[m] + 1 /\ \A n \in Message \ {m} : waiting'[n] = waiting[n]
  BY <1>1, <1>2 DEF TypeOK
<1>4. ASSUME NEW t \in Task
      PROVE  /\ Queued(t)' = Queued(t) + (IF t = u THEN 1 ELSE 0)
             /\ Promised(t)' = Promised(t) + (IF t = u THEN MaxRetries + 1 ELSE 0)
             /\ Claimed(t)' = Claimed(t) /\ Running(t)' = Running(t)
  <2>1. /\ Queued(t)' = Queued(t) + (IF t = m[1] THEN 1 ELSE 0)
        /\ Promised(t)' = Promised(t) + (IF t = m[1] THEN (MaxRetries + 1 - m[2]) * 1 ELSE 0)
    BY <1>3, MessageSums
  <2>2. (MaxRetries + 1 - 0) * 1 = MaxRetries + 1
    BY <1>1
  <2>3. Claims(t)' = Claims(t) /\ Running(t)' = Running(t)
    BY <1>1 DEF Claims, Claim, TaskOf, RetriesOf, Running
  <2>4. Claimed(t)' = Claimed(t)
    <3>1. ClaimedAddsUp /\ ClaimedAddsUp'
      BY ClaimedSum, PTL
    <3>2. QED
      BY <2>3, <3>1 DEF ClaimedAddsUp
  <2>5. QED
    BY <1>2, <2>1, <2>2, <2>3, <2>4
<1>5. ASSUME NEW t \in Task
      PROVE  /\ Queued(t)' + Cardinality(Running(t)') <= 1 + lost[t]
             /\ starts'[t] + Promised(t)' + Claimed(t)' <= (MaxRetries + 1) * (1 + lost[t])
             /\ t \notin sent' => /\ starts'[t] = 0
                                  /\ \A k \in 0 .. MaxRetries : waiting'[<<t, k>>] = 0
                                  /\ \A s \in Slot : at'[s] # "idle" => TaskOf(s)' # t
  <2>1. CASE t = u
    BY <1>1, <1>4, <2>1, BudgetOf, NothingYet
  <2>2. CASE t # u
    <3>1. \A k \in 0 .. MaxRetries : waiting'[<<t, k>>] = waiting[<<t, k>>]
      BY <1>2, <1>3, <2>2 DEF Message
    <3>2. t \notin sent => /\ starts[t] = 0
                           /\ \A k \in 0 .. MaxRetries : waiting[<<t, k>>] = 0
                           /\ \A s \in Slot : at[s] # "idle" => TaskOf(s) # t
      BY DEF BudgetKept
    <3>3. QED
      BY <1>1, <1>4, <2>2, <3>1, <3>2, BudgetOf DEF TaskOf
  <2>3. QED
    BY <2>1, <2>2
<1>6. QED
  BY <1>1, <1>5, BudgetGoal

LEMMA TakeBudget ==
    ASSUME TypeOK, TypeOK', BudgetKept, NEW s \in Slot, NEW m \in Message, Take(s, m)
    PROVE  BudgetKept'
<1>1. /\ at[s] = "idle" /\ waiting[m] > 0
      /\ waiting' = [waiting EXCEPT ![m] = @ - 1]
      /\ msg' = [msg EXCEPT ![s] = m]
      /\ at' = [at EXCEPT ![s] = "run"]
      /\ starts' = [starts EXCEPT ![m[1]] = @ + 1]
      /\ UNCHANGED <<sent, lost>>
      /\ m[1] \in Task /\ m[2] \in 0 .. MaxRetries /\ m = <<m[1], m[2]>>
      /\ MaxRetries \in Nat
  BY TaskAssumption DEF Take, GoTo, Message
<1>2. waiting'[m] = waiting[m] + (0 - 1) /\ \A n \in Message \ {m} : waiting'[n] = waiting[n]
  BY <1>1 DEF TypeOK
<1>3. \A q \in Slot \ {s} : at'[q] = at[q] /\ msg'[q] = msg[q]
  BY <1>1 DEF TypeOK
<1>4. at'[s] = "run" /\ msg'[s] = m
  BY <1>1 DEF TypeOK
<1>5. ASSUME NEW t \in Task
      PROVE  /\ Queued(t)' = Queued(t) + (IF t = m[1] THEN -1 ELSE 0)
             /\ Promised(t)' = Promised(t) + (IF t = m[1] THEN m[2] - (MaxRetries + 1) ELSE 0)
             /\ Claimed(t)' = Claimed(t) + (IF t = m[1] THEN MaxRetries - m[2] ELSE 0)
             /\ Cardinality(Running(t)') = Cardinality(Running(t)) + (IF t = m[1] THEN 1 ELSE 0)
  <2>1. /\ Queued(t)' = Queued(t) + (IF t = m[1] THEN 0 - 1 ELSE 0)
        /\ Promised(t)' = Promised(t) + (IF t = m[1] THEN (MaxRetries + 1 - m[2]) * (0 - 1) ELSE 0)
    BY <1>2, MessageSums
  <2>2. (MaxRetries + 1 - m[2]) * (0 - 1) = m[2] - (MaxRetries + 1)
    BY <1>1
  <2>3. /\ Claim(s, t) = 0 /\ s \notin Running(t)
        /\ Claim(s, t)' = IF t = m[1] THEN MaxRetries - m[2] ELSE 0
        /\ s \in Running(t)' <=> t = m[1]
    BY <1>1, <1>4 DEF Claim, Running, TaskOf, RetriesOf
  <2>4. Claim(s, t)' \in Int
    BY <1>1, <2>3
  <2>5. /\ Claimed(t)' = Claimed(t) + (Claim(s, t)' - Claim(s, t))
        /\ Cardinality(Running(t)') = Cardinality(Running(t))
                                         + (IF s \in Running(t)' THEN 1 ELSE 0)
                                         - (IF s \in Running(t) THEN 1 ELSE 0)
        /\ Cardinality(Running(t)) \in Nat /\ Claimed(t) \in Int
    BY <1>3, <2>4, SlotSums
  <2>6. QED
    BY <1>1, <2>1, <2>2, <2>3, <2>5
<1>6. ASSUME NEW t \in Task
      PROVE  /\ Queued(t)' + Cardinality(Running(t)') <= 1 + lost[t]
             /\ starts'[t] + Promised(t)' + Claimed(t)' <= (MaxRetries + 1) * (1 + lost[t])
  <2>1. starts'[t] = starts[t] + (IF t = m[1] THEN 1 ELSE 0)
    BY <1>1 DEF TypeOK
  <2>2. QED
    BY <1>1, <1>5, <2>1, BudgetOf
<1>7. ASSUME NEW t \in Task, t \notin sent'
      PROVE  /\ starts'[t] = 0
             /\ \A k \in 0 .. MaxRetries : waiting'[<<t, k>>] = 0
             /\ \A q \in Slot : at'[q] # "idle" => TaskOf(q)' # t
  <2>1. t \notin sent
    BY <1>1, <1>7
  <2>2. starts[t] = 0 /\ \A k \in 0 .. MaxRetries : waiting[<<t, k>>] = 0
    BY <2>1, NotQueued
  <2>3. \A q \in Slot : at[q] # "idle" => TaskOf(q) # t
    BY <2>1, NotQueued
  <2>4. t # m[1]
    BY <1>1, <2>2
  <2>5. starts'[t] = 0
    BY <1>1, <2>2, <2>4 DEF TypeOK
  <2>6. \A k \in 0 .. MaxRetries : waiting'[<<t, k>>] = 0
    BY <1>1, <1>2, <2>2, <2>4 DEF Message
  <2>7. ASSUME NEW q \in Slot, at'[q] # "idle"
        PROVE  TaskOf(q)' # t
    BY <1>3, <1>4, <2>3, <2>4, <2>7 DEF TaskOf
  <2>8. QED
    BY <2>5, <2>6, <2>7
<1>8. QED
  BY <1>1, <1>6, <1>7, BudgetGoal

LEMMA RetryBudget ==
    ASSUME TypeOK, TypeOK', BudgetKept, NEW s \in Slot, Retry(s)
    PROVE  BudgetKept'
<1> DEFINE u == TaskOf(s)
           k == RetriesOf(s)
<1>1. /\ at[s] = "run" /\ k < MaxRetries /\ u \in Task /\ k \in 0 .. MaxRetries
      /\ waiting' = [waiting EXCEPT ![Successor(s)] = @ + 1]
      /\ at' = [at EXCEPT ![s] = "retrying"]
      /\ UNCHANGED <<msg, starts, sent, lost>>
      /\ MaxRetries \in Nat
  BY AtWork, TaskAssumption DEF Retry, MayRetry, Publish, GoTo, history
<1>2. PICK m \in Message : m = Successor(s) /\ m[1] = u /\ m[2] = k + 1
  BY <1>1 DEF Message, Successor
<1>3. waiting'[m] = waiting[m] + 1 /\ \A n \in Message \ {m} : waiting'[n] = waiting[n]
  BY <1>1, <1>2 DEF TypeOK
<1>4. \A q \in Slot \ {s} : at'[q] = at[q] /\ msg'[q] = msg[q]
  BY <1>1 DEF TypeOK
<1>5. at'[s] = "retrying" /\ TaskOf(s)' = u
  BY <1>1 DEF TypeOK, TaskOf
<1>6. u \in sent
  BY <1>1 DEF BudgetKept
<1>7. ASSUME NEW t \in Task
      PROVE  /\ Queued(t)' = Queued(t) + (IF t = u THEN 1 ELSE 0)
             /\ Promised(t)' = Promised(t) + (IF t = u THEN MaxRetries - k ELSE 0)
             /\ Claimed(t)' = Claimed(t) - (IF t = u THEN MaxRetries - k ELSE 0)
             /\ Cardinality(Running(t)') = Cardinality(Running(t)) - (IF t = u THEN 1 ELSE 0)
  <2>1. /\ Queued(t)' = Queued(t) + (IF t = m[1] THEN 1 ELSE 0)
        /\ Promised(t)' = Promised(t) + (IF t = m[1] THEN (MaxRetries + 1 - m[2]) * 1 ELSE 0)
    BY <1>3, MessageSums
  <2>2. (MaxRetries + 1 - m[2]) * 1 = MaxRetries - k
    BY <1>1, <1>2
  <2>3. /\ Claim(s, t) = IF t = u THEN MaxRetries - k ELSE 0
        /\ s \in Running(t) <=> t = u
        /\ Claim(s, t)' = 0 /\ s \notin Running(t)'
    BY <1>1, <1>5 DEF Claim, Running
  <2>4. /\ Claimed(t)' = Claimed(t) + (Claim(s, t)' - Claim(s, t))
        /\ Cardinality(Running(t)') = Cardinality(Running(t))
                                         + (IF s \in Running(t)' THEN 1 ELSE 0)
                                         - (IF s \in Running(t) THEN 1 ELSE 0)
        /\ Cardinality(Running(t)) \in Nat /\ Claimed(t) \in Int
    <3>1. Claim(s, t)' \in Int
      BY <2>3
    <3>2. QED
      BY <1>4, <3>1, SlotSums
  <2> HIDE DEF u, k
  <2>5. k \in Int
    BY <1>1
  <2>6. QED
    BY <1>1, <1>2, <2>1, <2>2, <2>3, <2>4, <2>5
<1> HIDE DEF u, k
<1>8. ASSUME NEW t \in Task
      PROVE  /\ Queued(t)' + Cardinality(Running(t)') <= 1 + lost[t]
             /\ starts'[t] + Promised(t)' + Claimed(t)' <= (MaxRetries + 1) * (1 + lost[t])
  BY <1>1, <1>7, BudgetOf
<1>9. ASSUME NEW t \in Task, t \notin sent'
      PROVE  /\ starts'[t] = 0
             /\ \A j \in 0 .. MaxRetries : waiting'[<<t, j>>] = 0
             /\ \A q \in Slot : at'[q] # "idle" => TaskOf(q)' # t
  <2>1. t \notin sent /\ t # u
    BY <1>1, <1>6, <1>9
  <2>2. starts[t] = 0 /\ \A j \in 0 .. MaxRetries : waiting[<<t, j>>] = 0
    BY <2>1, NotQueued
  <2>3. \A q \in Slot : at[q] # "idle" => TaskOf(q) # t
    BY <2>1, NotQueued
  <2>4. \A j \in 0 .. MaxRetries : waiting'[<<t, j>>] = 0
    BY <1>2, <1>3, <2>1, <2>2 DEF Message
  <2>5. ASSUME NEW q \in Slot, at'[q] # "idle"
        PROVE  TaskOf(q)' # t
    BY <1>4, <1>5, <2>1, <2>3, <2>5 DEF TaskOf
  <2>6. QED
    BY <1>1, <2>2, <2>4, <2>5
<1>10. QED
  BY <1>1, <1>8, <1>9, BudgetGoal

\* A process that stops to run, or goes on without running.
LEMMA DoneBudget ==
    ASSUME TypeOK, TypeOK', BudgetKept, NEW s \in Slot, at[s] # "idle",
           NEW label \in {"retrying", "acknowledge", "idle"},
           at' = [at EXCEPT ![s] = label],
           \A q \in Slot \ {s} : msg'[q] = msg[q],
           label = "idle" \/ msg'[s] = msg[s],
           UNCHANGED <<waiting, sent, starts, lost>>
    PROVE  BudgetKept'
<1>1. \A q \in Slot \ {s} : at'[q] = at[q] /\ msg'[q] = msg[q]
  BY DEF TypeOK
<1>2. at'[s] = label
  BY DEF TypeOK
<1>3. ASSUME NEW t \in Task
      PROVE  /\ Queued(t)' = Queued(t) /\ Promised(t)' = Promised(t)
             /\ Claimed(t)' <= Claimed(t)
             /\ Claimed(t)' \in Int
             /\ Cardinality(Running(t)') <= Cardinality(Running(t))
             /\ Cardinality(Running(t)') \in Int
  <2>1. Copies(t)' = Copies(t) /\ Chances(t)' = Chances(t)
    BY DEF Copies, Chances
  <2>2. Queued(t)' = Queued(t) /\ Promised(t)' = Promised(t)
    <3>1. QueuedAddsUp /\ QueuedAddsUp' /\ PromisedAddsUp /\ PromisedAddsUp'
      BY QueuedSum, PromisedSum, PTL
    <3>2. QED
      BY <2>1, <3>1 DEF QueuedAddsUp, PromisedAddsUp
  <2>3. Claim(s, t)' = 0 /\ s \notin Running(t)'
    BY <1>2 DEF Claim, Running
  <2>4. Claim(s, t) \in Int /\ Claim(s, t) >= 0
    BY TermTypes
  <2>5. /\ Claimed(t)' = Claimed(t) + (Claim(s, t)' - Claim(s, t))
        /\ Cardinality(Running(t)') = Cardinality(Running(t))
                                         + (IF s \in Running(t)' THEN 1 ELSE 0)
                                         - (IF s \in Running(t) THEN 1 ELSE 0)
        /\ Cardinality(Running(t)) \in Nat /\ Claimed(t) \in Int
    <3>1. Claim(s, t)' \in Int
      BY <2>3
    <3>2. QED
      BY <1>1, <3>1, SlotSums
  <2>6. QED
    BY <2>2, <2>3, <2>4, <2>5
<1>4. ASSUME NEW t \in Task
      PROVE  /\ Queued(t)' + Cardinality(Running(t)') <= 1 + lost[t]
             /\ starts'[t] + Promised(t)' + Claimed(t)' <= (MaxRetries + 1) * (1 + lost[t])
  BY <1>3, BudgetOf
<1>5. ASSUME NEW t \in Task, t \notin sent'
      PROVE  /\ starts'[t] = 0
             /\ \A k \in 0 .. MaxRetries : waiting'[<<t, k>>] = 0
             /\ \A q \in Slot : at'[q] # "idle" => TaskOf(q)' # t
  <2>1. starts[t] = 0 /\ \A k \in 0 .. MaxRetries : waiting[<<t, k>>] = 0
    BY <1>5, NotQueued
  <2>2. \A q \in Slot : at[q] # "idle" => TaskOf(q) # t
    BY <1>5, NotQueued
  <2>3. ASSUME NEW q \in Slot, at'[q] # "idle"
        PROVE  TaskOf(q)' # t
    BY <1>1, <1>2, <2>2, <2>3 DEF TaskOf
  <2>4. QED
    BY <2>1, <2>3
<1>6. QED
  BY <1>4, <1>5, BudgetGoal

\* The worker dies: each delivery that is undone pays for one more execution, and
\* for at most max_retries + 1 more starts.
LEMMA CrashBudget ==
    ASSUME TypeOK, TypeOK', BudgetKept, Crash
    PROVE  BudgetKept'
<1> DEFINE Owned(t) == {s \in Unacknowledged : TaskOf(s) = t}
<1>1. /\ waiting' = [m \in Message |-> waiting[m] +
                        Cardinality({s \in Unacknowledged : msg[s] = m})]
      /\ \A t \in Task : lost'[t] = lost[t] + Cardinality(Owned(t))
      /\ \A s \in Slot : at'[s] = "idle"
      /\ UNCHANGED <<starts, sent>>
      /\ MaxRetries \in Nat
  BY TaskAssumption DEF Crash
<1>2. ASSUME NEW t \in Task
      PROVE  IsFiniteSet(Owned(t)) /\ Cardinality(Owned(t)) \in Nat
  BY TaskAssumption, FS_Subset, FS_CardinalityType DEF Unacknowledged
<1>3. ASSUME NEW t \in Task, NEW k \in 0 .. MaxRetries
      PROVE  waiting'[<<t, k>>] = waiting[<<t, k>>] +
                 Cardinality({s \in Owned(t) : RetriesOf(s) = k})
  <2>1. <<t, k>> \in Message
    BY DEF Message
  <2>2. ASSUME NEW s \in Unacknowledged
        PROVE  msg[s] = <<t, k>> <=> TaskOf(s) = t /\ RetriesOf(s) = k
    BY AtWork DEF Unacknowledged, TaskOf, RetriesOf
  <2>3. {s \in Unacknowledged : msg[s] = <<t, k>>} = {s \in Owned(t) : RetriesOf(s) = k}
    BY <2>2
  <2>4. QED
    BY <1>1, <2>1, <2>3
<1>4. ASSUME NEW t \in Task
      PROVE  /\ Queued(t)' \in Int /\ Promised(t)' \in Int
             /\ Queued(t)' <= Queued(t) + Cardinality(Owned(t))
             /\ Promised(t)' <= Promised(t) + (MaxRetries + 1) * Cardinality(Owned(t))
  <2>1. PICK S : S = 0 .. MaxRetries
    OBVIOUS
  <2>2. PICK D : D = Owned(t)
    OBVIOUS
  <2> DEFINE key  == [s \in D |-> RetriesOf(s)]
             ones == [k \in S |-> 1]
             left == [k \in S |-> MaxRetries + 1 - k]
  <2>3. IsFiniteSet(D) /\ IsFiniteSet(S)
    BY <1>2, <2>1, <2>2, TermTypes
  <2>4. key \in [D -> S] /\ ones \in [S -> Int] /\ left \in [S -> Int]
    <3>1. \A s \in D : RetriesOf(s) \in S
      BY <2>1, <2>2, AtWork DEF Unacknowledged
    <3>2. QED
      BY <1>1, <2>1, <3>1
  <2>5. \A old \in [S -> Int] :
           \A z : z = [k \in S |-> old[k] + left[k] * Cardinality({s \in D : key[s] = k})]
                    => SumOver(z, S) <= SumOver(old, S) + (MaxRetries + 1) * Cardinality(D)
    <3>1. PICK b \in Int : b = MaxRetries + 1
      BY <1>1
    <3>2. PICK c \in [S -> Int] : c = left
      BY <2>4
    <3>3. PICK where \in [D -> S] : where = key
      BY <2>4
    <3>4. \A k \in S : c[k] <= b
      BY <1>1, <2>1, <3>1, <3>2
    <3> SUFFICES ASSUME NEW old \in [S -> Int]
                 PROVE  \A z : z = [k \in S |-> old[k] + c[k] * Cardinality({s \in D : where[s] = k})]
                                 => SumOver(z, S) <= SumOver(old, S) + b * Cardinality(D)
      BY <3>1, <3>2, <3>3
    <3> HIDE DEF key, ones, left
    <3>5. QED
      BY <2>3, <3>4, SumOverDeal
  <2>6. PICK f \in [S -> Int] : f = Copies(t)
    BY <2>1, TermTypes
  <2>7. PICK h \in [S -> Int] : h = Chances(t)
    BY <2>1, TermTypes
  <2>8. ASSUME NEW k \in S
        PROVE  /\ waiting'[<<t, k>>] = waiting[<<t, k>>] + Cardinality({s \in D : key[s] = k})
               /\ waiting[<<t, k>>] \in Int /\ waiting'[<<t, k>>] \in Int
               /\ Cardinality({s \in D : key[s] = k}) \in Int
    <3>1. {s \in Owned(t) : RetriesOf(s) = k} = {s \in D : key[s] = k}
      BY <2>2
    <3>2. waiting[<<t, k>>] \in Nat /\ waiting'[<<t, k>>] \in Nat
      BY <2>1 DEF TypeOK, Message
    <3>3. Cardinality({s \in D : key[s] = k}) \in Nat
      BY <2>3, FS_Subset, FS_CardinalityType
    <3>4. waiting'[<<t, k>>] = waiting[<<t, k>>] +
              Cardinality({s \in Owned(t) : RetriesOf(s) = k})
      BY <1>3, <2>1
    <3>5. waiting'[<<t, k>>] = waiting[<<t, k>>] + Cardinality({s \in D : key[s] = k})
      BY <3>1, <3>4
    <3>6. QED
      BY <3>2, <3>3, <3>5
  <2>9. \E g \in [S -> Int] :
           /\ g = Copies(t)'
           /\ g = [k \in S |-> f[k] + ones[k] * Cardinality({s \in D : key[s] = k})]
    <3>1. Copies(t)' = [k \in S |-> waiting'[<<t, k>>]]
      BY <2>1 DEF Copies
    <3>2. ASSUME NEW k \in S
          PROVE  waiting'[<<t, k>>] = f[k] + ones[k] * Cardinality({s \in D : key[s] = k})
      <4>1. f[k] = waiting[<<t, k>>] /\ ones[k] = 1
        BY <2>1, <2>6 DEF Copies
      <4>2. PICK n \in Int : n = Cardinality({s \in D : key[s] = k})
        BY <2>8
      <4>3. waiting'[<<t, k>>] = f[k] + n /\ f[k] \in Int
        BY <2>8, <4>1, <4>2
      <4> HIDE DEF ones, key
      <4>4. ones[k] * n = n
        BY <4>1
      <4>5. QED
        BY <4>2, <4>3, <4>4
    <3>3. \A k \in S : waiting'[<<t, k>>] \in Int
      BY <2>8
    <3>4. QED
      BY <3>1, <3>2, <3>3
  <2>10. \E g \in [S -> Int] :
           /\ g = Chances(t)'
           /\ g = [k \in S |-> h[k] + left[k] * Cardinality({s \in D : key[s] = k})]
    <3>1. Chances(t)' = [k \in S |-> (MaxRetries + 1 - k) * waiting'[<<t, k>>]]
      BY <2>1 DEF Chances
    <3>2. ASSUME NEW k \in S
          PROVE  /\ (MaxRetries + 1 - k) * waiting'[<<t, k>>]
                       = h[k] + left[k] * Cardinality({s \in D : key[s] = k})
                 /\ (MaxRetries + 1 - k) * waiting'[<<t, k>>] \in Int
      <4>1. h[k] = (MaxRetries + 1 - k) * waiting[<<t, k>>] /\ left[k] = MaxRetries + 1 - k
        BY <2>1, <2>7 DEF Chances
      <4>2. PICK c \in Int : c = MaxRetries + 1 - k
        BY <1>1, <2>1
      <4>3. PICK n \in Int : n = Cardinality({s \in D : key[s] = k})
        BY <2>8
      <4>4. PICK w \in Int : w = waiting[<<t, k>>]
        BY <2>8
      <4>5. waiting'[<<t, k>>] = w + n
        BY <2>8, <4>3, <4>4
      <4>6. c * (w + n) = c * w + c * n /\ c * (w + n) \in Int
        OBVIOUS
      <4> HIDE DEF left, key
      <4>7. QED
        BY <4>1, <4>2, <4>3, <4>4, <4>5, <4>6
    <3>3. QED
      BY <3>1, <3>2
  <2> HIDE DEF key, ones, left
  <2>11. PICK g \in [S -> Int] :
            /\ g = Copies(t)'
            /\ g = [k \in S |-> f[k] + ones[k] * Cardinality({s \in D : key[s] = k})]
    BY <2>9
  <2>12. PICK e \in [S -> Int] :
            /\ e = Chances(t)'
            /\ e = [k \in S |-> h[k] + left[k] * Cardinality({s \in D : key[s] = k})]
    BY <2>10
  <2>13. SumOver(g, S) <= SumOver(f, S) + 1 * Cardinality(D)
    <3>1. \A k \in S : ones[k] <= 1
      BY DEF ones
    <3>2. QED
      BY <2>3, <2>4, <2>11, <3>1, SumOverDeal
  <2>14. SumOver(e, S) <= SumOver(h, S) + (MaxRetries + 1) * Cardinality(D)
    BY <2>5, <2>7, <2>12
  <2>15. /\ Queued(t) = SumOver(f, S) /\ Queued(t)' = SumOver(g, S)
         /\ Promised(t) = SumOver(h, S) /\ Promised(t)' = SumOver(e, S)
    <3>1. QueuedAddsUp /\ QueuedAddsUp' /\ PromisedAddsUp /\ PromisedAddsUp'
      BY QueuedSum, PromisedSum, PTL
    <3>2. QED
      BY <2>1, <2>6, <2>7, <2>11, <2>12, <3>1 DEF QueuedAddsUp, PromisedAddsUp
  <2>16. /\ SumOver(f, S) \in Int /\ SumOver(g, S) \in Int
         /\ SumOver(h, S) \in Int /\ SumOver(e, S) \in Int
    BY <2>3, SumOverType
  <2>17. Cardinality(D) \in Int /\ Cardinality(D) = Cardinality(Owned(t))
    BY <1>2, <2>2
  <2>18. QED
    BY <2>13, <2>14, <2>15, <2>16, <2>17
<1>5. ASSUME NEW t \in Task
      PROVE  Cardinality(Running(t)') = 0 /\ Claimed(t)' = 0
  <2>1. Running(t)' = {} /\ Claims(t)' = [s \in Slot |-> 0]
    BY <1>1 DEF Running, Claims, Claim
  <2>2. Claimed(t)' = SumOver(Claims(t)', Slot)
    <3>1. ClaimedAddsUp'
      BY ClaimedSum, PTL
    <3>2. QED
      BY <3>1 DEF ClaimedAddsUp
  <2>3. SumOver(Claims(t)', Slot) = 0
    <3>1. PICK f : f = Claims(t)'
      OBVIOUS
    <3>2. QED
      BY <2>1, <3>1, TaskAssumption, SumOverZeros
  <2>4. QED
    BY <2>1, <2>2, <2>3, FS_EmptySet
<1>6. ASSUME NEW t \in Task
      PROVE  /\ Queued(t)' + Cardinality(Running(t)') <= 1 + lost'[t]
             /\ starts'[t] + Promised(t)' + Claimed(t)' <= (MaxRetries + 1) * (1 + lost'[t])
  <2>1. PICK n \in Nat : n = Cardinality(Owned(t))
    BY <1>2
  <2>2. /\ lost'[t] = lost[t] + n /\ starts'[t] = starts[t]
        /\ Cardinality(Running(t)') = 0 /\ Claimed(t)' = 0
        /\ Queued(t)' \in Int /\ Promised(t)' \in Int
        /\ Queued(t)' <= Queued(t) + n
        /\ Promised(t)' <= Promised(t) + (MaxRetries + 1) * n
    BY <1>1, <1>4, <1>5, <2>1
  <2> HIDE DEF Owned
  <2>3. Claimed(t) >= 0 /\ lost[t] \in Nat
    BY BudgetOf, SumsNonneg
  <2>4. PICK r \in Nat : r = MaxRetries + 1
    BY <1>1
  <2>5. r * (1 + (lost[t] + n)) = r * (1 + lost[t]) + r * n /\ r * n \in Int
    BY <2>3
  <2>6. Queued(t)' + Cardinality(Running(t)') <= 1 + lost'[t]
    BY <2>2, BudgetOf
  <2>7. starts[t] + Promised(t)' <= (MaxRetries + 1) * (1 + lost[t]) + r * n
    BY <2>2, <2>3, <2>4, <2>5, BudgetOf
  <2>8. starts'[t] + Promised(t)' + Claimed(t)' = starts[t] + Promised(t)'
    BY <2>2, BudgetOf
  <2>9. QED
    BY <2>2, <2>4, <2>5, <2>6, <2>7, <2>8
<1>7. ASSUME NEW t \in Task, t \notin sent'
      PROVE  /\ starts'[t] = 0
             /\ \A k \in 0 .. MaxRetries : waiting'[<<t, k>>] = 0
             /\ \A s \in Slot : at'[s] # "idle" => TaskOf(s)' # t
  <2>1. /\ starts[t] = 0
        /\ \A k \in 0 .. MaxRetries : waiting[<<t, k>>] = 0
        /\ \A s \in Slot : at[s] # "idle" => TaskOf(s) # t
    BY <1>1, <1>7, NotQueued
  <2>2. Owned(t) = {}
    BY <2>1 DEF Unacknowledged
  <2>3. ASSUME NEW k \in 0 .. MaxRetries
        PROVE  waiting'[<<t, k>>] = 0
    <3>1. Cardinality({s \in Owned(t) : RetriesOf(s) = k}) = 0
      BY <2>2, FS_EmptySet
    <3>2. QED
      BY <1>3, <2>1, <3>1
  <2>4. QED
    BY <1>1, <2>1, <2>3
<1>8. QED
  BY <1>6, <1>7 DEF BudgetKept, Executable, Budget

\* Nothing is queued and nothing runs at first.
LEMMA InitBudget == ASSUME Init PROVE BudgetKept
<1>1. TypeOK
  BY InitSafe DEF Safe
<1>2. ASSUME NEW t \in Task
      PROVE  /\ starts[t] = 0 /\ lost[t] = 0
             /\ \A k \in 0 .. MaxRetries : waiting[<<t, k>>] = 0
             /\ \A s \in Slot : at[s] = "idle"
  BY DEF Init, Message
<1>3. ASSUME NEW t \in Task
      PROVE  /\ Queued(t) = 0 /\ Promised(t) = 0 /\ Claimed(t) = 0
             /\ Cardinality(Running(t)) = 0
  BY <1>1, <1>2, IdleSums
<1>4. QED
  BY <1>2, <1>3, TaskAssumption DEF BudgetKept, Executable, Budget

\* A step that changes nothing but, perhaps, the result backend.
LEMMA SameBudget ==
    ASSUME BudgetKept, UNCHANGED <<waiting, at, msg, sent, starts, lost>>
    PROVE  BudgetKept'
<1>1. ASSUME NEW t
      PROVE  /\ Queued(t)' = Queued(t) /\ Promised(t)' = Promised(t)
             /\ Claimed(t)' = Claimed(t) /\ Running(t)' = Running(t)
  <2>1. /\ Copies(t)' = Copies(t) /\ Chances(t)' = Chances(t) /\ Claims(t)' = Claims(t)
        /\ Running(t)' = Running(t)
    BY DEF Copies, Chances, Claims, Claim, Running, TaskOf, RetriesOf
  <2>2. /\ QueuedAddsUp /\ QueuedAddsUp' /\ PromisedAddsUp /\ PromisedAddsUp'
        /\ ClaimedAddsUp /\ ClaimedAddsUp'
    BY QueuedSum, PromisedSum, ClaimedSum, PTL
  <2>3. QED
    BY <2>1, <2>2 DEF QueuedAddsUp, PromisedAddsUp, ClaimedAddsUp
<1>2. QED
  BY <1>1 DEF BudgetKept, Executable, Budget, TaskOf

LEMMA BudgetStep ==
    ASSUME TypeOK, TypeOK', BudgetKept, [Next]_vars
    PROVE  BudgetKept'
<1>1. ASSUME NEW t \in Task, Trigger(t) PROVE BudgetKept'
  BY <1>1, TriggerBudget
<1>2. ASSUME NEW s \in Slot, NEW m \in Message, Take(s, m) PROVE BudgetKept'
  BY <1>2, TakeBudget
<1>3. ASSUME NEW s \in Slot,
             Complete(s) \/ Raise(s) \/ RejectRetry(s) \/ Exhaust(s) \/ Abort(s)
      PROVE  BudgetKept'
  <2>1. /\ at[s] # "idle" /\ at' = [at EXCEPT ![s] = "acknowledge"]
        /\ UNCHANGED <<msg, waiting, sent, starts, lost>>
    BY <1>3 DEF Complete, Raise, RejectRetry, Exhaust, Abort, Free, GoTo, TypeOK
  <2>2. QED
    BY <2>1, DoneBudget
<1>4. ASSUME NEW s \in Slot, Retry(s) PROVE BudgetKept'
  BY <1>4, RetryBudget
<1>5. ASSUME NEW s \in Slot, EndRetry(s) PROVE BudgetKept'
  <2>1. /\ at[s] # "idle" /\ at' = [at EXCEPT ![s] = "acknowledge"]
        /\ UNCHANGED <<msg, waiting, sent, starts, lost>>
    BY <1>5 DEF EndRetry, GoTo, history
  <2>2. QED
    BY <2>1, DoneBudget
<1>6. ASSUME NEW s \in Slot, Acknowledge(s) PROVE BudgetKept'
  <2>1. /\ at[s] # "idle" /\ at' = [at EXCEPT ![s] = "idle"]
        /\ UNCHANGED <<waiting, sent, starts, lost>>
        /\ \A q \in Slot \ {s} : msg'[q] = msg[q]
    BY <1>6 DEF Acknowledge, GoTo, history, TypeOK
  <2>2. QED
    BY <2>1, DoneBudget
<1>7. ASSUME NEW s \in Slot, Write(s) PROVE BudgetKept'
  BY <1>7, SameBudget DEF Write
<1>8. CASE Crash
  BY <1>8, CrashBudget
<1>9. CASE UNCHANGED vars
  BY <1>9, SameBudget DEF vars, history
<1>10. QED
  BY <1>1, <1>2, <1>3, <1>4, <1>5, <1>6, <1>7, <1>8, <1>9 DEF Next, Process, End

-----------------------------------------------------------------------------
\* The invariant holds whatever the worker, SWAPI and the clients do; no
\* fairness is needed.
THEOREM TaskInductive == Spec => []IInv
<1>1. Init => IInv
  BY InitSafe, InitStored, InitBudget DEF IInv
<1>2. IInv /\ [Next]_vars => IInv'
  <2> SUFFICES ASSUME IInv, [Next]_vars PROVE IInv'
    OBVIOUS
  <2>1. Safe /\ Stored /\ BudgetKept /\ TypeOK
    BY DEF IInv, Safe
  <2>2. Safe'
    BY <2>1, NextSafe
  <2>3. TypeOK'
    BY <2>2 DEF Safe
  <2>4. BudgetKept'
    BY <2>1, <2>3, BudgetStep
  <2>5. Stored'
    BY <2>1, StoredStep
  <2>6. QED
    BY <2>2, <2>4, <2>5 DEF IInv
<1>3. QED
  BY <1>1, <1>2, PTL DEF Spec

\* Every variable keeps its type, and idle processes hold no message.
THEOREM TaskTypeCorrect == Spec => []TypeOK
<1>1. IInv => TypeOK
  BY DEF IInv, Safe
<1>2. QED
  BY <1>1, TaskInductive, PTL

\* However often the worker dies, an accepted task that has not ended has a
\* message in the queue or a process at work.
THEOREM NoTaskIsLost == Spec => []NothingLost
<1>1. IInv => NothingLost
  BY DEF IInv, Safe
<1>2. QED
  BY <1>1, TaskInductive, PTL

\* A task fails for an outage only after all of its attempts.
THEOREM OutagesUseUpAttempts == Spec => []OutagesAreRetried
<1>1. IInv => OutagesAreRetried
  BY DEF IInv, Safe
<1>2. QED
  BY <1>1, TaskInductive, PTL

\* The result backend says SUCCESS of no task but one with a complete run, and of
\* each of them once it is written, whatever copies run before or after; only a
\* process that had looked before writes over it, or its death keeps it unwritten.
THEOREM SuccessOutlastsCopies == Spec => []SuccessIsTold
<1>1. IInv => SuccessIsTold
  BY DEF IInv, Stored
<1>2. QED
  BY <1>1, TaskInductive, PTL

\* A task runs twice at a time, or is started more than max_retries + 1 times, only
\* if a death of the worker undid a delivery of it, once for each.
THEOREM RunsStayBounded == Spec => []RunsAreBounded
<1>1. IInv => RunsAreBounded
  <2> SUFFICES ASSUME IInv, NEW t \in Task
               PROVE  /\ Executable(t) <= 1 + lost[t]
                      /\ starts[t] <= (MaxRetries + 1) * (1 + lost[t])
    BY DEF RunsAreBounded
  <2>1. TypeOK /\ BudgetKept
    BY DEF IInv, Safe
  <2>2. Promised(t) >= 0 /\ Claimed(t) >= 0
    BY <2>1, SumsNonneg
  <2>3. QED
    BY <2>1, <2>2, BudgetOf DEF Executable
<1>2. QED
  BY <1>1, TaskInductive, PTL
=============================================================================
