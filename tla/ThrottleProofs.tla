--------------------------- MODULE ThrottleProofs ---------------------------
(***************************************************************************)
(* The rate limits hold for any rates, clients, processes and times: each   *)
(* operation of the throttle keeps GateKept of a scope whose views are       *)
(* known to it by the scope that they declare.                               *)
(***************************************************************************)
EXTENDS Throttle, FoldTheorems

\* The throttle finds the scope that the view declares.
Known(view, scope) ==
    /\ ScopeOf[view] = Declared[view]
    /\ Declared[view] \in Scope \cup {NoScope}
    /\ scope \in Scope /\ scope # NoScope

\* Windows of a history.
LEMMA WithinType ==
    ASSUME NEW times \in [Time -> Nat], NEW end \in Time
    PROVE  /\ Within(times, end) \in [Time -> Int]
           /\ \A t \in Time : /\ Within(times, end)[t] >= 0
                              /\ Within(times, end)[t] =
                                    IF end - Window < t /\ t <= end THEN times[t] ELSE 0
           /\ IsFiniteSet(Time) /\ SumFunction(Within(times, end)) \in Int
<1>1. /\ Within(times, end) \in [Time -> Int]
      /\ \A t \in Time : /\ Within(times, end)[t] >= 0
                         /\ Within(times, end)[t] =
                               IF end - Window < t /\ t <= end THEN times[t] ELSE 0
  BY DEF Within
<1>2. IsFiniteSet(Time)
  BY ThrottleAssumption, FS_Interval DEF Time
<1>3. QED
  BY <1>1, <1>2, SumFunctionType

\* One more request at one time is one more in the windows that have it.
LEMMA WithinGrows ==
    ASSUME NEW old \in [Time -> Nat], NEW new \in [Time -> Nat], NEW end \in Time,
           NEW at \in Time, new[at] = old[at] + 1,
           \A t \in Time \ {at} : end - Window < t /\ t <= end => new[t] = old[t]
    PROVE  SumFunction(Within(new, end)) = SumFunction(Within(old, end))
              + (IF end - Window < at /\ at <= end THEN 1 ELSE 0)
<1>1. \A t \in Time \ {at} : Within(old, end)[t] = Within(new, end)[t]
  BY WithinType
<1>2. Within(new, end)[at] - Within(old, end)[at] = IF end - Window < at /\ at <= end THEN 1 ELSE 0
  BY WithinType
<1>3. SumFunction(Within(new, end)) = SumFunction(Within(old, end))
         + (Within(new, end)[at] - Within(old, end)[at])
  <2>1. PICK f \in [Time -> Int] : f = Within(old, end)
    BY WithinType
  <2>2. PICK g \in [Time -> Int] : g = Within(new, end)
    BY WithinType
  <2>3. \A t \in Time \ {at} : f[t] = g[t]
    BY <1>1, <2>1, <2>2
  <2>4. IsFiniteSet(Time)
    BY WithinType
  <2>5. SumFunction(g) = SumFunction(f) + (g[at] - f[at])
    BY <2>3, <2>4, SumFunctionUpdate
  <2>6. QED
    BY <2>1, <2>2, <2>5
<1>4. QED
  BY <1>2, <1>3

-----------------------------------------------------------------------------
\* What is known of the numbers of a scope and a client.
LEMMA Numbers ==
    ASSUME GateTypeOK, NEW scope \in Scope, NEW i \in Ident, NEW end \in Time
    PROVE  /\ Rates[scope] \in Nat /\ kills \in Nat
           /\ IsFiniteSet(Process) /\ Cardinality(Process) \in Nat
           /\ \A p \in Process : Remembered(p, scope, i, end) \in Int
           /\ [p \in Process |-> Remembered(p, scope, i, end)] \in [Process -> Int]
           /\ SumFunction([p \in Process |-> Remembered(p, scope, i, end)]) \in Int
           /\ AcceptedInWindow(scope, i, end) \in Int
<1>1. /\ Rates[scope] \in Nat /\ kills \in Nat
      /\ IsFiniteSet(Process) /\ Cardinality(Process) \in Nat
  BY ThrottleAssumption, FS_CardinalityType DEF GateTypeOK, Scope
<1>2. ASSUME NEW p \in Process
      PROVE  Remembered(p, scope, i, end) \in Int
  <2>1. hits[<<p, scope, i>>] \in [Time -> Nat]
    BY DEF GateTypeOK, Bucket
  <2>2. QED
    BY <2>1, WithinType DEF Remembered
<1>3. [p \in Process |-> Remembered(p, scope, i, end)] \in [Process -> Int]
  BY <1>2
<1>4. SumFunction([p \in Process |-> Remembered(p, scope, i, end)]) \in Int
  BY <1>1, <1>3, SumFunctionType
<1>5. accepted[<<scope, i>>] \in [Time -> Nat]
  BY DEF GateTypeOK
<1>6. AcceptedInWindow(scope, i, end) \in Int
  BY <1>5, WithinType DEF AcceptedInWindow
<1>7. QED
  BY <1>1, <1>2, <1>3, <1>4, <1>6

\* The windows that are still open are within the limit.
OpenFits ==
    \A scope \in Scope : GateTypeOK /\ OpenWindows(scope) =>
        \A i \in Ident, end \in now .. MaxNow :
            AcceptedInWindow(scope, i, end) <= Rates[scope] * (Cardinality(Process) + kills)

LEMMA OpenWindowsFit == OpenFits
<1> SUFFICES ASSUME NEW scope \in Scope, GateTypeOK, OpenWindows(scope),
                    NEW i \in Ident, NEW end \in now .. MaxNow
             PROVE  AcceptedInWindow(scope, i, end) <= Rates[scope] * (Cardinality(Process) + kills)
  BY DEF OpenFits
<1>1. end \in Time
  BY ThrottleAssumption DEF GateTypeOK, Time
<1>2. PICK f \in [Process -> Int] : f = [p \in Process |-> Remembered(p, scope, i, end)]
  BY <1>1, Numbers
<1>3. PICK rate \in Nat : rate = Rates[scope]
  BY <1>1, Numbers
<1>4. \A p \in Process : f[p] <= rate
  BY <1>2, <1>3 DEF OpenWindows
<1>5. SumFunction(f) <= rate * Cardinality(Process)
  BY <1>4, ThrottleAssumption, SumFunctionBound
<1>6. AcceptedInWindow(scope, i, end) <= SumFunction(f) + rate * kills
  BY <1>2, <1>3 DEF OpenWindows
<1>7. /\ Cardinality(Process) \in Nat /\ kills \in Nat /\ SumFunction(f) \in Int
      /\ AcceptedInWindow(scope, i, end) \in Int
  BY <1>1, <1>2, Numbers
<1>8. rate * (Cardinality(Process) + kills) = rate * Cardinality(Process) + rate * kills
  BY <1>7
<1>9. rate * Cardinality(Process) \in Int /\ rate * kills \in Int
  BY <1>7
<1>10. QED
  BY <1>3, <1>5, <1>6, <1>7, <1>8, <1>9

-----------------------------------------------------------------------------
LEMMA GateStarts ==
    ASSUME NEW scope \in Scope, GateInit
    PROVE  GateKept(scope)
<1>1. GateTypeOK
  BY ThrottleAssumption DEF GateInit, GateTypeOK, Time
<1>2. ASSUME NEW i \in Ident, NEW end \in Time
      PROVE  /\ AcceptedInWindow(scope, i, end) = 0
             /\ \A p \in Process : Remembered(p, scope, i, end) = 0
             /\ SumFunction([p \in Process |-> Remembered(p, scope, i, end)]) = 0
  <2> DEFINE zeros == [t \in Time |-> 0]
  <2>1. Within(zeros, end) = zeros
    BY DEF Within
  <2>2. IsFiniteSet(Time)
    BY ThrottleAssumption, FS_Interval DEF Time
  <2>3. SumFunction(zeros) = 0
    BY <2>2, SumFunctionZeros
  <2>4. accepted[<<scope, i>>] = zeros /\ \A p \in Process : hits[<<p, scope, i>>] = zeros
    BY DEF GateInit, Bucket
  <2> HIDE DEF zeros
  <2>5. /\ AcceptedInWindow(scope, i, end) = 0
        /\ \A p \in Process : Remembered(p, scope, i, end) = 0
    BY <2>1, <2>3, <2>4 DEF AcceptedInWindow, Remembered
  <2>6. [p \in Process |-> Remembered(p, scope, i, end)] = [p \in Process |-> 0]
    BY <2>5
  <2>7. SumFunction([p \in Process |-> Remembered(p, scope, i, end)]) = 0
    BY <2>6, ThrottleAssumption, SumFunctionZeros
  <2>8. QED
    BY <2>5, <2>7
<1>3. OpenWindows(scope)
  <2> SUFFICES ASSUME NEW i \in Ident, NEW end \in now .. MaxNow
               PROVE  /\ \A p \in Process : Remembered(p, scope, i, end) <= Rates[scope]
                      /\ AcceptedInWindow(scope, i, end) <=
                            SumFunction([p \in Process |-> Remembered(p, scope, i, end)])
                               + Rates[scope] * kills
    BY DEF OpenWindows
  <2>1. end \in Time
    BY ThrottleAssumption DEF GateInit, Time
  <2>2. Rates[scope] \in Nat /\ kills = 0
    BY ThrottleAssumption DEF GateInit, Scope
  <2>3. Rates[scope] * kills = 0
    BY <2>2
  <2>4. QED
    BY <1>2, <2>1, <2>2, <2>3
<1>4. LimitHolds(scope)
  <2>1. now = 0
    BY DEF GateInit
  <2>2. QED
    BY <1>1, <1>3, <2>1, OpenWindowsFit DEF OpenFits, LimitHolds, Time
<1>5. QED
  BY <1>1, <1>3, <1>4 DEF GateKept

\* Nothing happens.
LEMMA GateRests ==
    ASSUME NEW scope, GateKept(scope), UNCHANGED gate
    PROVE  GateKept(scope)'
<1>1. now' = now /\ hits' = hits /\ kills' = kills /\ accepted' = accepted
  BY DEF gate
<1>2. GateTypeOK'
  BY <1>1 DEF GateKept, GateTypeOK
<1>3. OpenWindows(scope)' /\ LimitHolds(scope)'
  BY <1>1 DEF GateKept, OpenWindows, LimitHolds, Remembered, AcceptedInWindow
<1>4. QED
  BY <1>2, <1>3 DEF GateKept

\* The limit of the windows that were over before the step, and of those that were not.
LEMMA LimitStep ==
    ASSUME NEW scope \in Scope, GateTypeOK', OpenWindows(scope)',
           \A i \in Ident, end \in Time : end < now' =>
              AcceptedInWindow(scope, i, end)' <= Rates[scope] * (Cardinality(Process) + kills')
    PROVE  GateKept(scope)'
<1>1. OpenFits'
  BY OpenWindowsFit, PTL
<1>2. ASSUME NEW i \in Ident, NEW end \in Time
      PROVE  AcceptedInWindow(scope, i, end)' <= Rates[scope] * (Cardinality(Process) + kills')
  <2>1. CASE end < now'
    BY <2>1
  <2>2. CASE end \in now' .. MaxNow
    BY <1>1, <2>2 DEF OpenFits
  <2>3. QED
    BY <2>1, <2>2, ThrottleAssumption DEF GateTypeOK, Time
<1>3. LimitHolds(scope)'
  BY <1>2 DEF LimitHolds
<1>4. QED
  BY <1>3 DEF GateKept

LEMMA GateTicks ==
    ASSUME NEW scope \in Scope, GateKept(scope), Tick
    PROVE  GateKept(scope)'
<1>1. now' = now + 1 /\ now < MaxNow /\ hits' = hits /\ kills' = kills /\ accepted' = accepted
  BY DEF Tick
<1>2. GateTypeOK'
  BY <1>1, ThrottleAssumption DEF GateKept, GateTypeOK, Time
<1>3. \A end \in now' .. MaxNow : end \in now .. MaxNow
  BY <1>1, ThrottleAssumption DEF GateKept, GateTypeOK, Time
<1>4. OpenWindows(scope)'
  BY <1>1, <1>3 DEF GateKept, OpenWindows, Remembered, AcceptedInWindow
<1>5. LimitHolds(scope)'
  BY <1>1 DEF GateKept, LimitHolds, AcceptedInWindow
<1>6. QED
  BY <1>2, <1>4, <1>5 DEF GateKept

\* A process that is replaced forgets what it let through: at most as much as the
\* limit grows by.
LEMMA GateReplaces ==
    ASSUME NEW scope \in Scope, GateKept(scope), NEW p \in Process, Replace(p)
    PROVE  GateKept(scope)'
<1> DEFINE zeros == [t \in Time |-> 0]
<1>1. /\ kills < MaxKills /\ kills' = kills + 1
      /\ hits' = [b \in Bucket |-> IF b[1] = p THEN zeros ELSE hits[b]]
      /\ now' = now /\ accepted' = accepted
      /\ GateTypeOK
  BY DEF Replace, GateKept
<1>2. GateTypeOK'
  BY <1>1, ThrottleAssumption DEF GateTypeOK, Bucket
<1>3. ASSUME NEW i \in Ident, NEW end \in Time
      PROVE  /\ AcceptedInWindow(scope, i, end)' = AcceptedInWindow(scope, i, end)
             /\ Remembered(p, scope, i, end)' = 0
             /\ \A q \in Process \ {p} :
                   Remembered(q, scope, i, end)' = Remembered(q, scope, i, end)
  <2>1. \A q \in Process : hits'[<<q, scope, i>>] = IF q = p THEN zeros ELSE hits[<<q, scope, i>>]
    BY <1>1 DEF Bucket
  <2>2. Within(zeros, end) = zeros
    BY DEF Within
  <2>3. SumFunction(zeros) = 0
    BY ThrottleAssumption, FS_Interval, SumFunctionZeros DEF Time
  <2> HIDE DEF zeros
  <2>4. QED
    BY <1>1, <2>1, <2>2, <2>3 DEF AcceptedInWindow, Remembered
<1> HIDE DEF zeros
<1>4. OpenWindows(scope)'
  <2> SUFFICES ASSUME NEW i \in Ident, NEW end \in now' .. MaxNow
               PROVE  /\ \A q \in Process : Remembered(q, scope, i, end)' <= Rates[scope]
                      /\ AcceptedInWindow(scope, i, end)' <=
                            SumFunction([q \in Process |-> Remembered(q, scope, i, end)'])
                               + Rates[scope] * kills'
    BY DEF OpenWindows
  <2>1. end \in now .. MaxNow /\ end \in Time
    BY <1>1, ThrottleAssumption DEF GateTypeOK, Time
  <2>2. PICK f \in [Process -> Int] : f = [q \in Process |-> Remembered(q, scope, i, end)]
    BY <1>1, <2>1, Numbers
  <2>3. PICK g \in [Process -> Int] : g = [q \in Process |-> Remembered(q, scope, i, end)']
    <3>1. \A q \in Process : Remembered(q, scope, i, end) \in Int
      BY <1>1, <2>1, Numbers
    <3>2. Remembered(p, scope, i, end)' \in Int
      BY <1>3, <2>1
    <3>3. \A q \in Process \ {p} : Remembered(q, scope, i, end)' \in Int
      BY <1>3, <2>1, <3>1
    <3>4. QED
      BY <3>2, <3>3
  <2>4. /\ g[p] = 0 /\ f[p] <= Rates[scope] /\ \A q \in Process \ {p} : f[q] = g[q]
        /\ \A q \in Process : g[q] <= Rates[scope]
        /\ Rates[scope] \in Nat /\ kills \in Nat
    <3>1. \A q \in Process : f[q] <= Rates[scope]
      BY <2>1, <2>2 DEF GateKept, OpenWindows
    <3>2. g[p] = 0 /\ \A q \in Process \ {p} : f[q] = g[q]
      BY <1>3, <2>1, <2>2, <2>3
    <3>3. Rates[scope] \in Nat /\ kills \in Nat
      BY <1>1, <2>1, Numbers
    <3>4. QED
      BY <3>1, <3>2, <3>3
  <2>5. SumFunction(g) = SumFunction(f) + (g[p] - f[p])
    BY <2>4, ThrottleAssumption, SumFunctionUpdate
  <2>6. SumFunction(f) \in Int
    BY ThrottleAssumption, SumFunctionType
  <2>7. /\ AcceptedInWindow(scope, i, end) <= SumFunction(f) + Rates[scope] * kills
        /\ AcceptedInWindow(scope, i, end) \in Int
    BY <1>1, <2>1, <2>2, Numbers DEF GateKept, OpenWindows
  <2>8. PICK rate \in Nat : rate = Rates[scope]
    BY <2>4
  <2>9. rate * (kills + 1) = rate * kills + rate /\ rate * kills \in Int
    BY <2>4
  <2>10. AcceptedInWindow(scope, i, end) <= SumFunction(g) + rate * (kills + 1)
    BY <2>4, <2>5, <2>6, <2>7, <2>8, <2>9
  <2>11. QED
    BY <1>1, <1>3, <2>1, <2>3, <2>4, <2>8, <2>10
<1>5. ASSUME NEW i \in Ident, NEW end \in Time, end < now'
      PROVE  AcceptedInWindow(scope, i, end)' <= Rates[scope] * (Cardinality(Process) + kills')
  <2>1. AcceptedInWindow(scope, i, end) <= Rates[scope] * (Cardinality(Process) + kills)
    BY DEF GateKept, LimitHolds
  <2>2. PICK rate \in Nat : rate = Rates[scope]
    BY <1>1, Numbers
  <2>3. PICK n \in Nat : n = Cardinality(Process) + kills
    <3>1. Cardinality(Process) \in Nat /\ kills \in Nat
      BY <1>1, ThrottleAssumption, FS_CardinalityType DEF GateTypeOK
    <3>2. QED
      BY <3>1
  <2>4. Cardinality(Process) + kills' = n + 1
    <3>1. PICK c \in Nat : c = Cardinality(Process)
      BY ThrottleAssumption, FS_CardinalityType
    <3>2. kills \in Nat
      BY <1>1 DEF GateTypeOK
    <3>3. QED
      BY <1>1, <2>3, <3>1, <3>2
  <2>5. rate * (n + 1) = rate * n + rate /\ rate * n \in Int
    OBVIOUS
  <2>6. AcceptedInWindow(scope, i, end) \in Int
    BY <1>1, Numbers
  <2>7. QED
    BY <1>3, <2>1, <2>2, <2>3, <2>4, <2>5, <2>6
<1>6. QED
  BY <1>2, <1>4, <1>5, LimitStep
-----------------------------------------------------------------------------
\* A refused request leaves no trace.
LEMMA GateRefuses ==
    ASSUME NEW scope \in Scope, GateKept(scope), NEW p, NEW view, NEW i, Refuse(p, view, i)
    PROVE  GateKept(scope)'
BY GateRests DEF Refuse

\* What admitting a request does to the histories of a scope.
LEMMA AdmitHistories ==
    ASSUME NEW scope \in Scope, GateTypeOK, NEW p \in Process, NEW i \in Ident, NEW view,
           Known(view, scope), Admit(p, view, i)
    PROVE  /\ GateTypeOK' /\ now' = now /\ kills' = kills
           /\ \A j \in Ident : (Declared[view] # scope \/ j # i) =>
                 accepted'[<<scope, j>>] = accepted[<<scope, j>>]
           /\ Declared[view] = scope =>
                 /\ \A old : old = hits[<<p, scope, i>>] =>
                       /\ SumFunction(Recent(old)) < Rates[scope]
                       /\ hits'[<<p, scope, i>>] = Counted(Recent(old))
                 /\ \A old : old = accepted[<<scope, i>>] =>
                       accepted'[<<scope, i>>] = Counted(old)
<1> DEFINE s == Declared[view]
           b == BucketOf(p, view, i)
<1>1. now' = now /\ kills' = kills /\ now \in Time
  BY DEF Admit, GateTypeOK
<1>2. CASE s = NoScope
  <2>1. hits' = hits /\ accepted' = accepted /\ s # scope
    BY <1>2 DEF Admit, Known, Scoped
  <2>2. GateTypeOK'
    BY <1>1, <2>1 DEF GateTypeOK
  <2>3. QED
    BY <1>1, <2>1, <2>2
<1>3. CASE s # NoScope
  <2>1. /\ s \in Scope /\ b \in Bucket /\ <<s, i>> \in Scope \X Ident
        /\ b = <<p, s, i>> /\ ScopeOf[view] = s
    BY <1>3 DEF Known, BucketOf, Bucket
  <2>2. hits[b] \in [Time -> Nat] /\ Recent(hits[b]) \in [Time -> Nat]
    BY <2>1 DEF GateTypeOK, Recent
  <2>3. /\ hits' = [hits EXCEPT ![b] = Counted(Recent(hits[b]))]
        /\ accepted' = [accepted EXCEPT ![<<s, i>>] = Counted(@)]
        /\ SumFunction(Recent(hits[b])) < Rates[s]
    <3>1. Scoped(view)
      BY <1>3, <2>1 DEF Scoped
    <3>2. hits' = [hits EXCEPT ![b] = Counted(Recent(hits[b]))]
      BY <3>1 DEF Admit
    <3>3. accepted' = [accepted EXCEPT ![<<s, i>>] = Counted(@)]
      BY <1>3 DEF Admit
    <3>4. SumFunction(Recent(hits[b])) < Rates[ScopeOf[view]]
      BY <3>1 DEF Admit, Allows
    <3>5. QED
      BY <2>1, <3>2, <3>3, <3>4
  <2> HIDE DEF b, s
  <2>4. Counted(Recent(hits[b])) \in [Time -> Nat]
    BY <1>1, <2>2 DEF Counted
  <2>5. accepted[<<s, i>>] \in [Time -> Nat]
    BY <2>1 DEF GateTypeOK
  <2>6. Counted(accepted[<<s, i>>]) \in [Time -> Nat]
    BY <1>1, <2>5 DEF Counted
  <2>7. hits' \in [Bucket -> [Time -> Nat]]
    BY <2>1, <2>3, <2>4 DEF GateTypeOK
  <2>8. accepted' \in [Scope \X Ident -> [Time -> Nat]]
    BY <2>1, <2>3, <2>6 DEF GateTypeOK
  <2>9. GateTypeOK'
    BY <1>1, <2>7, <2>8 DEF GateTypeOK
  <2>10. /\ \A c \in Bucket : c # b => hits'[c] = hits[c]
         /\ hits'[b] = Counted(Recent(hits[b]))
    BY <2>1, <2>3 DEF GateTypeOK
  <2>11. /\ \A k \in Scope \X Ident : k # <<s, i>> => accepted'[k] = accepted[k]
         /\ accepted'[<<s, i>>] = Counted(accepted[<<s, i>>])
    BY <2>1, <2>3 DEF GateTypeOK
  <2>12. \A j \in Ident : (s # scope \/ j # i) =>
            accepted'[<<scope, j>>] = accepted[<<scope, j>>]
    BY <2>11
  <2>13. ASSUME s = scope, NEW old, old = hits[<<p, scope, i>>]
         PROVE  /\ SumFunction(Recent(old)) < Rates[scope]
                /\ hits'[<<p, scope, i>>] = Counted(Recent(old))
    <3>1. b = <<p, scope, i>> /\ hits[b] = old
      BY <2>1, <2>13
    <3>2. QED
      BY <2>3, <2>10, <2>13, <3>1
  <2>14. ASSUME s = scope, NEW old, old = accepted[<<scope, i>>]
         PROVE  accepted'[<<scope, i>>] = Counted(old)
    BY <2>11, <2>14
  <2>15. s = scope =>
            /\ \A old : old = hits[<<p, scope, i>>] =>
                  /\ SumFunction(Recent(old)) < Rates[scope]
                  /\ hits'[<<p, scope, i>>] = Counted(Recent(old))
            /\ \A old : old = accepted[<<scope, i>>] =>
                  accepted'[<<scope, i>>] = Counted(old)
    BY <2>13, <2>14
  <2>16. QED
    BY <1>1, <2>9, <2>12, <2>15 DEF s
<1>4. QED
  BY <1>2, <1>3

\* Only the client's own history with the process changes.
LEMMA AdmitElsewhere ==
    ASSUME NEW scope \in Scope, GateTypeOK, NEW p \in Process, NEW i \in Ident, NEW view,
           Known(view, scope), Admit(p, view, i), NEW q \in Process, NEW j \in Ident,
           Declared[view] # scope \/ q # p \/ j # i
    PROVE  hits'[<<q, scope, j>>] = hits[<<q, scope, j>>]
<1>1. CASE Declared[view] = NoScope
  BY <1>1 DEF Admit, Known, Scoped
<1>2. CASE Declared[view] # NoScope
  <2>1. PICK b : b = BucketOf(p, view, i)
    OBVIOUS
  <2>2. Scoped(view) /\ b = <<p, Declared[view], i>> /\ <<q, scope, j>> \in Bucket
    BY <1>2, <2>1 DEF Scoped, Known, BucketOf, Bucket
  <2>3. PICK more : hits' = [hits EXCEPT ![b] = more]
    BY <2>1, <2>2 DEF Admit
  <2>4. <<q, scope, j>> # b
    BY <2>2
  <2>5. QED
    BY <2>2, <2>3, <2>4 DEF GateTypeOK
<1>3. QED
  BY <1>1, <1>2

\* By how much a request at `at` counts in the window that ends at `end`.
Counts(at, end) == IF end - Window < at /\ at <= end THEN 1 ELSE 0

\* A window that is not over yet: the process remembers the request, and no more
\* than the rate allows, for it has just looked.
LEMMA AdmitRemembers ==
    ASSUME GateTypeOK, NEW old \in [Time -> Nat], NEW end \in Time, end >= now,
           NEW new, new = Counted(Recent(old)),
           NEW rate \in Nat, SumFunction(Recent(old)) < rate,
           SumFunction(Within(old, end)) <= rate
    PROVE  /\ SumFunction(Within(new, end)) = SumFunction(Within(old, end)) + Counts(now, end)
           /\ SumFunction(Within(new, end)) <= rate
<1>1. now \in Time /\ now \in Int /\ end \in Int /\ Window \in Int /\ Window > 0
      /\ \A t \in Time : t \in Int
  BY ThrottleAssumption DEF GateTypeOK, Time
<1>2. /\ Recent(old) \in [Time -> Nat]
      /\ \A t \in Time : Recent(old)[t] = IF t > now - Window THEN old[t] ELSE 0
  BY DEF Recent
<1>3. /\ new \in [Time -> Nat] /\ new[now] = old[now] + 1
      /\ \A t \in Time \ {now} : end - Window < t /\ t <= end => new[t] = old[t]
  BY <1>1, <1>2 DEF Counted
<1>4. SumFunction(Within(new, end)) = SumFunction(Within(old, end)) + Counts(now, end)
  BY <1>1, <1>3, WithinGrows DEF Counts
<1>5. SumFunction(Within(old, end)) <= SumFunction(Recent(old))
  <2>1. PICK f \in [Time -> Int] : f = Within(old, end)
    BY WithinType
  <2>2. PICK g \in [Time -> Int] : g = Recent(old)
    BY <1>2
  <2>3. \A t \in Time : f[t] <= g[t]
    BY <1>1, <1>2, <2>1, <2>2, WithinType
  <2>4. IsFiniteSet(Time)
    BY WithinType
  <2>5. SumFunction(f) <= SumFunction(g)
    BY <2>3, <2>4, SumFunctionGrows
  <2>6. QED
    BY <2>1, <2>2, <2>5
<1>6. SumFunction(Recent(old)) \in Int /\ SumFunction(Within(old, end)) \in Int
  <2>1. PICK g \in [Time -> Int] : g = Recent(old)
    BY <1>2
  <2>2. QED
    BY <2>1, WithinType, SumFunctionType
<1>7. Counts(now, end) \in {0, 1}
  BY DEF Counts
<1>8. QED
  BY <1>4, <1>5, <1>6, <1>7

\* In the histories of the client, a request is let in once and remembered once.
LEMMA AdmitCounts ==
    ASSUME NEW scope \in Scope, GateKept(scope), NEW p \in Process, NEW i \in Ident, NEW view,
           Known(view, scope), Admit(p, view, i), Declared[view] = scope, NEW end \in Time
    PROVE  /\ AcceptedInWindow(scope, i, end)' =
                 AcceptedInWindow(scope, i, end) + Counts(now, end)
           /\ end >= now =>
                 /\ Remembered(p, scope, i, end)' = Remembered(p, scope, i, end) + Counts(now, end)
                 /\ Remembered(p, scope, i, end)' <= Rates[scope]
<1>1. GateTypeOK /\ now \in Time
  BY DEF GateKept, GateTypeOK
<1>2. /\ \A old : old = hits[<<p, scope, i>>] =>
            /\ SumFunction(Recent(old)) < Rates[scope]
            /\ hits'[<<p, scope, i>>] = Counted(Recent(old))
      /\ \A old : old = accepted[<<scope, i>>] =>
            accepted'[<<scope, i>>] = Counted(old)
  BY <1>1, AdmitHistories
<1>3. AcceptedInWindow(scope, i, end)' = AcceptedInWindow(scope, i, end) + Counts(now, end)
  <2>1. PICK old \in [Time -> Nat] : old = accepted[<<scope, i>>]
    BY <1>1 DEF GateTypeOK
  <2>2. PICK new \in [Time -> Nat] : new = Counted(old)
    <3>1. Counted(old) \in [Time -> Nat]
      BY <1>1 DEF Counted
    <3>2. QED
      BY <3>1
  <2>3. new[now] = old[now] + 1 /\ \A t \in Time \ {now} : new[t] = old[t]
    BY <1>1, <2>2 DEF Counted
  <2>4. SumFunction(Within(new, end)) = SumFunction(Within(old, end)) + Counts(now, end)
    BY <1>1, <2>3, WithinGrows DEF Counts
  <2>5. QED
    BY <1>2, <2>1, <2>2, <2>4 DEF AcceptedInWindow
<1>4. ASSUME end >= now
      PROVE  /\ Remembered(p, scope, i, end)' = Remembered(p, scope, i, end) + Counts(now, end)
             /\ Remembered(p, scope, i, end)' <= Rates[scope]
  <2>1. PICK old \in [Time -> Nat] : old = hits[<<p, scope, i>>]
    BY <1>1 DEF GateTypeOK, Bucket
  <2>2. PICK new : new = Counted(Recent(old))
    OBVIOUS
  <2>3. PICK rate \in Nat : rate = Rates[scope]
    BY ThrottleAssumption DEF Scope
  <2>4. end \in now .. MaxNow
    BY <1>1, <1>4, ThrottleAssumption DEF Time
  <2>5. SumFunction(Within(old, end)) <= rate
    BY <2>1, <2>3, <2>4 DEF GateKept, OpenWindows, Remembered
  <2>6. /\ SumFunction(Within(new, end)) = SumFunction(Within(old, end)) + Counts(now, end)
        /\ SumFunction(Within(new, end)) <= rate
    BY <1>1, <1>2, <1>4, <2>1, <2>2, <2>3, <2>5, AdmitRemembers
  <2>7. hits'[<<p, scope, i>>] = new
    BY <1>2, <2>1, <2>2
  <2>8. QED
    BY <2>1, <2>3, <2>6, <2>7 DEF Remembered
<1>5. QED
  BY <1>3, <1>4

\* The same for the client's windows that are open, with those of all processes.
LEMMA AdmitKeepsOpen ==
    ASSUME NEW scope \in Scope, GateKept(scope), NEW p \in Process, NEW i \in Ident, NEW view,
           Known(view, scope), Admit(p, view, i), NEW j \in Ident, NEW end \in now .. MaxNow
    PROVE  /\ \A q \in Process : Remembered(q, scope, j, end)' <= Rates[scope]
           /\ AcceptedInWindow(scope, j, end)' <=
                 SumFunction([q \in Process |-> Remembered(q, scope, j, end)'])
                    + Rates[scope] * kills
<1>1. GateTypeOK /\ end \in Time /\ end >= now
  BY ThrottleAssumption DEF GateKept, GateTypeOK, Time
<1>2. /\ \A q \in Process : Remembered(q, scope, j, end) <= Rates[scope]
      /\ AcceptedInWindow(scope, j, end) <=
            SumFunction([q \in Process |-> Remembered(q, scope, j, end)]) + Rates[scope] * kills
  BY DEF GateKept, OpenWindows
<1>3. ASSUME NEW q \in Process, Declared[view] # scope \/ q # p \/ j # i
      PROVE  Remembered(q, scope, j, end)' = Remembered(q, scope, j, end)
  <2>1. hits'[<<q, scope, j>>] = hits[<<q, scope, j>>]
    BY <1>1, <1>3, AdmitElsewhere
  <2>2. QED
    BY <2>1 DEF Remembered
<1>4. CASE Declared[view] # scope \/ j # i
  <2>1. \A q \in Process : Remembered(q, scope, j, end)' = Remembered(q, scope, j, end)
    BY <1>3, <1>4
  <2>2. AcceptedInWindow(scope, j, end)' = AcceptedInWindow(scope, j, end)
    <3>1. accepted'[<<scope, j>>] = accepted[<<scope, j>>]
      BY <1>1, <1>4, AdmitHistories
    <3>2. QED
      BY <3>1 DEF AcceptedInWindow
  <2>3. [q \in Process |-> Remembered(q, scope, j, end)'] =
           [q \in Process |-> Remembered(q, scope, j, end)]
    BY <2>1
  <2>4. QED
    BY <1>2, <2>1, <2>2, <2>3
<1>5. CASE Declared[view] = scope /\ j = i
  <2>1. PICK d \in {0, 1} : d = Counts(now, end)
    BY DEF Counts
  <2>2. /\ Remembered(p, scope, i, end)' = Remembered(p, scope, i, end) + d
        /\ Remembered(p, scope, i, end)' <= Rates[scope]
        /\ AcceptedInWindow(scope, i, end)' = AcceptedInWindow(scope, i, end) + d
    BY <1>1, <1>5, <2>1, AdmitCounts
  <2>3. \A q \in Process \ {p} : Remembered(q, scope, i, end)' = Remembered(q, scope, i, end)
    BY <1>3, <1>5
  <2>4. \A q \in Process : Remembered(q, scope, i, end)' <= Rates[scope]
    BY <1>2, <1>5, <2>2, <2>3
  <2>5. /\ \A q \in Process : Remembered(q, scope, i, end) \in Int
        /\ AcceptedInWindow(scope, i, end) \in Int
    BY <1>1, Numbers
  <2>6. PICK f \in [Process -> Int] : f = [q \in Process |-> Remembered(q, scope, i, end)]
    BY <2>5
  <2>7. PICK g \in [Process -> Int] : g = [q \in Process |-> Remembered(q, scope, i, end)']
    <3>1. Remembered(p, scope, i, end)' \in Int
      BY <2>1, <2>2, <2>5
    <3>2. \A q \in Process \ {p} : Remembered(q, scope, i, end)' \in Int
      BY <2>3, <2>5
    <3>3. QED
      BY <3>1, <3>2
  <2>8. g[p] = f[p] + d /\ \A q \in Process \ {p} : f[q] = g[q]
    BY <2>2, <2>3, <2>6, <2>7
  <2>9. SumFunction(g) = SumFunction(f) + (g[p] - f[p]) /\ SumFunction(f) \in Int
    BY <2>8, ThrottleAssumption, SumFunctionUpdate, SumFunctionType
  <2>10. PICK lost \in Int : lost = Rates[scope] * kills
    <3>1. Rates[scope] \in Nat /\ kills \in Nat
      BY <1>1, Numbers
    <3>2. Rates[scope] * kills \in Int
      BY <3>1
    <3>3. QED
      BY <3>2
  <2>11. AcceptedInWindow(scope, i, end) <= SumFunction(f) + lost
    BY <1>2, <1>5, <2>6, <2>10
  <2>12. f[p] \in Int
    OBVIOUS
  <2>13. AcceptedInWindow(scope, i, end)' <= SumFunction(g) + lost
    BY <2>1, <2>2, <2>5, <2>8, <2>9, <2>11, <2>12
  <2>14. QED
    BY <1>5, <2>4, <2>7, <2>10, <2>13
<1>6. QED
  BY <1>4, <1>5

LEMMA GateAdmits ==
    ASSUME NEW scope \in Scope, GateKept(scope), NEW p \in Process, NEW i \in Ident, NEW view,
           Known(view, scope), Admit(p, view, i)
    PROVE  GateKept(scope)'
<1>1. GateTypeOK
  BY DEF GateKept
<1>2. GateTypeOK' /\ now' = now /\ kills' = kills
  BY <1>1, AdmitHistories
<1>3. OpenWindows(scope)'
  <2> SUFFICES ASSUME NEW j \in Ident, NEW end \in now' .. MaxNow
               PROVE  /\ \A q \in Process : Remembered(q, scope, j, end)' <= Rates[scope]
                      /\ AcceptedInWindow(scope, j, end)' <=
                            SumFunction([q \in Process |-> Remembered(q, scope, j, end)'])
                               + Rates[scope] * kills'
    BY DEF OpenWindows
  <2>1. end \in now .. MaxNow
    BY <1>2
  <2>2. QED
    BY <1>2, <2>1, AdmitKeepsOpen
<1>4. ASSUME NEW j \in Ident, NEW end \in Time, end < now'
      PROVE  AcceptedInWindow(scope, j, end)' <= Rates[scope] * (Cardinality(Process) + kills')
  <2>1. AcceptedInWindow(scope, j, end) <= Rates[scope] * (Cardinality(Process) + kills)
    BY DEF GateKept, LimitHolds
  <2>2. AcceptedInWindow(scope, j, end)' = AcceptedInWindow(scope, j, end)
    <3>1. CASE Declared[view] # scope \/ j # i
      <4>1. accepted'[<<scope, j>>] = accepted[<<scope, j>>]
        BY <1>1, <3>1, AdmitHistories
      <4>2. QED
        BY <4>1 DEF AcceptedInWindow
    <3>2. CASE Declared[view] = scope /\ j = i
      <4>1. Counts(now, end) = 0
        BY <1>1, <1>2, <1>4 DEF Counts, GateTypeOK, Time
      <4>2. AcceptedInWindow(scope, i, end)' = AcceptedInWindow(scope, i, end) + 0
        BY <3>2, <4>1, AdmitCounts
      <4>3. AcceptedInWindow(scope, i, end) \in Int
        BY <1>1, Numbers
      <4>4. QED
        BY <3>2, <4>2, <4>3
    <3>3. QED
      BY <3>1, <3>2
  <2>3. QED
    BY <1>2, <2>1, <2>2
<1>5. QED
  BY <1>2, <1>3, <1>4, LimitStep
=============================================================================
