-------------------------- MODULE SupervisorProofs ---------------------------
(***************************************************************************)
(* Supervisor's invariant and its failure budget for every set of miners,  *)
(* every backoff policy and every bound.                                   *)
(***************************************************************************)
EXTENDS Supervisor, FiniteSetTheorems, SequenceTheorems, WellFoundedInduction, TLAPS

\* A supervisor that is not waiting for its child has none, and run_runtime
\* returns only after every supervisor has.
ChildOwned ==
  /\ \A m \in Miners : sup[m] \in {"spawning", "sleeping", "over"} => child[m] = "none"
  /\ main = "over" => \A m \in Miners : sup[m] = "over"

\* All crashes of a miner happened in order and none in the future.
LogOrdered ==
  /\ crash_log \in [Miners -> Seq(0 .. MaxTime)]
  /\ \A m \in Miners : \A i, j \in DOMAIN crash_log[m] :
       /\ crash_log[m][i] <= now
       /\ i <= j => crash_log[m][i] <= crash_log[m][j]

\* The deque is what is left of the log once its k oldest crashes, all out of
\* the window, are forgotten.
Forgot(m, k) ==
  /\ k + Len(crashes[m]) = Len(crash_log[m])
  /\ \A i \in 1 .. Len(crashes[m]) : crashes[m][i] = crash_log[m][i + k]
  /\ \A i \in 1 .. k : Stale(crash_log[m][i])

DequeIsSuffix == \A m \in Miners : \E k \in Nat : Forgot(m, k)

IInv ==
  /\ TypeOK
  /\ ChildOwned
  /\ LogOrdered
  /\ DequeIsSuffix
-----------------------------------------------------------------------------
(***************************************************************************)
(* The restart tracker                                                     *)
(***************************************************************************)

\* The backoff is a number of milliseconds, however many crashes came before
\* it (1u64 << shift with shift at most 16).
LEMMA DelayType ==
  ASSUME NEW n \in Nat
  PROVE  Delay(n) \in Nat
<1> DEFINE s == IF n < 16 THEN n ELSE 16
<1>1. s \in 0 .. 16
  OBVIOUS
<1>2. 2 ^ s \in Nat
  <2>1. s \in {0, 1, 2, 3, 4, 5, 6, 7, 8, 9, 10, 11, 12, 13, 14, 15, 16}
    BY <1>1
  <2> HIDE DEF s
  <2>2. /\ {2^0, 2^1, 2^2, 2^3, 2^4, 2^5, 2^6, 2^7, 2^8} \subseteq Nat
        /\ {2^9, 2^10, 2^11, 2^12, 2^13, 2^14, 2^15, 2^16} \subseteq Nat
    OBVIOUS
  <2>3. QED
    BY <2>1, <2>2
<1> HIDE DEF s
<1>3. BaseDelay * 2 ^ s \in Nat
  BY <1>2, SupervisorConstants
<1>4. QED
  BY <1>3, SupervisorConstants DEF Delay, s

\* The loop over the front of the deque stops somewhere: at the first crash
\* inside the window, or at the end (on_exit's pop_front loop).
LEMMA PruneStops ==
  ASSUME NEW q \in Seq(Nat), NEW n \in Nat
  PROVE  \E k \in 1 .. Len(q) + 1 :
           /\ \A i \in 1 .. k - 1 : q[i] + Window < n
           /\ k <= Len(q) => ~(q[k] + Window < n)
<1> DEFINE S == {k \in 1 .. Len(q) + 1 : k <= Len(q) => ~(q[k] + Window < n)}
           R == {p \in Nat \X Nat : p[1] < p[2]}
<1>1. IsWellFoundedOn(R, Nat)
  BY NatLessThanWellFounded DEF OpToRel
<1>2. S \subseteq Nat /\ Len(q) + 1 \in S
  BY LenProperties
<1>3. PICK k \in S : \A b \in S : ~(<<b, k>> \in R)
  BY <1>1, <1>2, WFMin
<1>4. ASSUME NEW i \in 1 .. k - 1 PROVE q[i] + Window < n
  <2>1. i \in Nat /\ k \in Nat /\ i < k /\ i \in 1 .. Len(q) + 1
    BY <1>2, LenProperties
  <2>2. i \notin S
    BY <1>3, <2>1
  <2>3. QED
    BY <2>1, <2>2
<1>5. QED
  BY <1>3, <1>4

\* What is popped is out of the window, what is kept is the rest, and it
\* starts inside the window.
LEMMA PrunedKeeps ==
  ASSUME now \in Nat, NEW m, NEW T \in SUBSET Nat, crashes[m] \in Seq(T)
  PROVE  \E d \in 0 .. Len(crashes[m]) :
           /\ Pruned(m) \in Seq(T)
           /\ Len(Pruned(m)) = Len(crashes[m]) - d
           /\ \A i \in 1 .. Len(Pruned(m)) : Pruned(m)[i] = crashes[m][i + d]
           /\ \A i \in 1 .. d : Stale(crashes[m][i])
           /\ d < Len(crashes[m]) => ~Stale(crashes[m][d + 1])
<1> DEFINE q == crashes[m]
           P(x) == /\ \A j \in 1 .. x - 1 : Stale(q[j])
                   /\ x <= Len(q) => ~Stale(q[x])
           f == CHOOSE k \in 1 .. Len(q) + 1 : P(k)
<1>1. f \in 1 .. Len(q) + 1 /\ P(f)
  <2>1. \E k \in 1 .. Len(q) + 1 : P(k)
    BY PruneStops, SeqMonotonic DEF Stale
  <2> HIDE DEF P
  <2>2. QED
    BY <2>1
<1>2. Pruned(m) = SubSeq(q, f, Len(q))
  BY DEF Pruned
<1>3. Len(q) \in Nat /\ \A i \in 1 .. Len(q) : q[i] \in T
  BY LenProperties
<1> HIDE DEF f
<1>4. \A i \in f .. Len(q) : q[i] \in T
  BY <1>1, <1>3
<1>5. /\ SubSeq(q, f, Len(q)) \in Seq(T)
      /\ Len(SubSeq(q, f, Len(q))) = IF f <= Len(q) THEN Len(q) - f + 1 ELSE 0
      /\ \A i \in 1 .. Len(q) - f + 1 : SubSeq(q, f, Len(q))[i] = q[f + i - 1]
  BY <1>1, <1>3, <1>4, SubSeqProperties
<1>6. f - 1 \in 0 .. Len(q)
  BY <1>1, <1>3
<1>7. WITNESS f - 1 \in 0 .. Len(crashes[m])
<1>8. QED
  BY <1>1, <1>2, <1>3, <1>5

\* A crash at this moment, kept in the deque and in the log: the deque is the
\* part of the log that lies in the window, no more and no less (on_exit).
LEMMA CrashKept ==
  ASSUME IInv, NEW m \in Miners
  PROVE  LET recent == Append(Pruned(m), now)
             log == Append(crash_log[m], now)
         IN  \E k \in Nat :
               /\ recent \in Seq(0 .. MaxTime) /\ log \in Seq(0 .. MaxTime)
               /\ k + Len(recent) = Len(log)
               /\ \A i \in 1 .. Len(recent) : recent[i] = log[i + k]
               /\ \A i \in 1 .. k : Stale(log[i])
               /\ \A i \in k + 1 .. Len(log) : ~Stale(log[i])
<1> DEFINE T == 0 .. MaxTime
           recent == Append(Pruned(m), now)
           log == Append(crash_log[m], now)
<1>1. /\ T \in SUBSET Nat /\ now \in T /\ now \in Nat
      /\ crashes[m] \in Seq(T) /\ crash_log[m] \in Seq(T)
  BY SupervisorConstants DEF IInv, TypeOK, LogOrdered
<1> HIDE DEF T
<1>2. PICK d \in 0 .. Len(crashes[m]) :
           /\ Pruned(m) \in Seq(T)
           /\ Len(Pruned(m)) = Len(crashes[m]) - d
           /\ \A i \in 1 .. Len(Pruned(m)) : Pruned(m)[i] = crashes[m][i + d]
           /\ \A i \in 1 .. d : Stale(crashes[m][i])
           /\ d < Len(crashes[m]) => ~Stale(crashes[m][d + 1])
  BY <1>1, PrunedKeeps
<1>3. PICK k \in Nat : Forgot(m, k)
  BY DEF IInv, DequeIsSuffix
<1> DEFINE c == crashes[m]  l == crash_log[m]  p == Pruned(m)
<1>4. /\ Len(c) \in Nat /\ Len(l) \in Nat /\ d \in Nat /\ d <= Len(c)
      /\ DOMAIN l = 1 .. Len(l)
      /\ \A i \in 1 .. Len(l) : l[i] \in Nat
      /\ \A i \in 1 .. Len(c) : c[i] \in Nat
  <2>1. c \in Seq(T) /\ l \in Seq(T) /\ d \in 0 .. Len(c)
    BY <1>1
  <2> HIDE DEF c, l
  <2>2. Len(c) \in Nat /\ Len(l) \in Nat /\ DOMAIN l = 1 .. Len(l)
    BY <2>1, LenProperties
  <2>3. \A i \in 1 .. Len(l) : l[i] \in T
    BY <2>1, ElementOfSeq
  <2>4. \A i \in 1 .. Len(c) : c[i] \in T
    BY <2>1, ElementOfSeq
  <2>5. d \in Nat /\ d <= Len(c)
    BY <2>1, <2>2
  <2>6. QED
    BY <2>2, <2>3, <2>4, <2>5, <1>1
<1>5. /\ k + Len(c) = Len(l)
      /\ \A i \in 1 .. Len(c) : c[i] = l[i + k]
      /\ \A i \in 1 .. k : Stale(l[i])
  BY <1>3 DEF Forgot
<1>6. /\ recent \in Seq(T) /\ log \in Seq(T)
      /\ Len(recent) = Len(p) + 1 /\ Len(log) = Len(l) + 1
      /\ \A i \in 1 .. Len(p) : recent[i] = p[i]
      /\ \A i \in 1 .. Len(l) : log[i] = l[i]
      /\ recent[Len(p) + 1] = now /\ log[Len(l) + 1] = now
  <2>1. p \in Seq(T) /\ l \in Seq(T) /\ now \in T
    BY <1>1, <1>2
  <2> HIDE DEF p, l
  <2>2. /\ recent \in Seq(T) /\ Len(recent) = Len(p) + 1
        /\ \A i \in 1 .. Len(p) : recent[i] = p[i]
        /\ recent[Len(p) + 1] = now
    <3>1. recent = Append(p, now)
      BY DEF p
    <3>2. QED
      BY <2>1, <3>1, AppendProperties
  <2>3. /\ log \in Seq(T) /\ Len(log) = Len(l) + 1
        /\ \A i \in 1 .. Len(l) : log[i] = l[i]
        /\ log[Len(l) + 1] = now
    <3>1. log = Append(l, now)
      BY DEF l
    <3>2. QED
      BY <2>1, <3>1, AppendProperties
  <2>4. QED
    BY <2>2, <2>3
<1>7. \A i, j \in 1 .. Len(l) : i <= j => l[i] <= l[j]
  BY <1>4 DEF IInv, LogOrdered
<1>8. /\ Len(p) = Len(c) - d
      /\ \A i \in 1 .. Len(p) : p[i] = c[i + d]
      /\ \A i \in 1 .. d : Stale(c[i])
      /\ d < Len(c) => ~Stale(c[d + 1])
  BY <1>2
<1> HIDE DEF c, l, p, recent, log
<1>9. /\ k + d + Len(recent) = Len(log)
      /\ Len(recent) = Len(p) + 1 /\ Len(p) \in Nat
      /\ Len(p) + 1 + k + d = Len(l) + 1
  <2>1. k + Len(c) = Len(l) /\ Len(p) = Len(c) - d
    BY <1>5, <1>8
  <2>2. Len(recent) = Len(p) + 1 /\ Len(log) = Len(l) + 1
    BY <1>6
  <2>3. Len(c) \in Nat /\ Len(l) \in Nat /\ d \in Nat /\ k \in Nat /\ d <= Len(c)
    BY <1>4
  <2>4. QED
    BY <2>1, <2>2, <2>3
<1>10. \A i \in 1 .. Len(recent) : recent[i] = log[i + k + d]
  <2> SUFFICES ASSUME NEW i \in 1 .. Len(recent) PROVE recent[i] = log[i + k + d]
    OBVIOUS
  <2>1. CASE i = Len(p) + 1
    BY <2>1, <1>6, <1>9
  <2>2. CASE i \in 1 .. Len(p)
    <3>1. recent[i] = p[i] /\ p[i] = c[i + d]
      BY <2>2, <1>6, <1>8
    <3>2. i + d \in 1 .. Len(c)
      BY <2>2, <1>4, <1>8
    <3>3. c[i + d] = l[i + d + k]
      BY <3>2, <1>5
    <3>4. i + d + k \in 1 .. Len(l) /\ i + d + k = i + k + d
      BY <3>2, <1>4, <1>5
    <3>5. QED
      BY <3>1, <3>3, <3>4, <1>6
  <2>3. QED
    BY <2>1, <2>2, <1>9
<1>11. \A i \in 1 .. k + d : Stale(log[i])
  <2> SUFFICES ASSUME NEW i \in 1 .. k + d PROVE Stale(log[i])
    OBVIOUS
  <2>1. i \in 1 .. Len(l) /\ log[i] = l[i]
    BY <1>4, <1>5, <1>6
  <2>2. CASE i <= k
    BY <2>1, <2>2, <1>5 DEF Stale
  <2>3. CASE i > k
    <3>1. i - k \in 1 .. d /\ i - k \in 1 .. Len(c) /\ (i - k) + k = i
      BY <2>3, <1>4
    <3>2. c[i - k] = l[i] /\ Stale(c[i - k])
      BY <3>1, <1>5, <1>8
    <3>3. QED
      BY <3>2, <2>1 DEF Stale
  <2>4. QED
    BY <2>2, <2>3
<1>12. \A i \in k + d + 1 .. Len(log) : ~Stale(log[i])
  <2> SUFFICES ASSUME NEW i \in k + d + 1 .. Len(log) PROVE ~Stale(log[i])
    OBVIOUS
  <2>1. CASE i = Len(l) + 1
    BY <2>1, <1>1, <1>6, SupervisorConstants DEF Stale
  <2>2. CASE i <= Len(l)
    <3>1. d < Len(c) /\ d + 1 \in 1 .. Len(c) /\ k + d + 1 \in 1 .. Len(l) /\ i \in 1 .. Len(l)
      BY <2>2, <1>4, <1>5
    <3>2. c[d + 1] = l[k + d + 1] /\ ~Stale(c[d + 1])
      <4>1. (d + 1) + k = k + d + 1
        BY <1>4
      <4>2. c[d + 1] = l[(d + 1) + k]
        BY <3>1, <1>5
      <4>3. QED
        BY <4>1, <4>2, <3>1, <1>8
    <3>3. l[k + d + 1] <= l[i] /\ log[i] = l[i]
      BY <3>1, <1>6, <1>7
    <3>4. l[k + d + 1] \in Nat /\ l[i] \in Nat
      BY <3>1, <1>1, <1>4
    <3> DEFINE a == l[k + d + 1]
    <3>5. a \in Nat /\ log[i] \in Nat /\ a <= log[i] /\ ~Stale(a)
      BY <3>2, <3>3, <3>4
    <3>6. now \in Nat /\ Window \in Nat
      BY <1>1, SupervisorConstants
    <3> HIDE DEF a
    <3>7. QED
      BY ONLY <3>5, <3>6 DEF Stale
  <2>3. QED
    BY <2>1, <2>2, <1>4, <1>6
<1>13. k + d \in Nat
  BY <1>4
<1>14. \A i \in 1 .. Len(recent) : recent[i] = log[i + (k + d)]
  BY <1>4, <1>10
<1>15. QED
  BY <1>6, <1>9, <1>11, <1>12, <1>13, <1>14 DEF T, recent, log
-----------------------------------------------------------------------------
(***************************************************************************)
(* The inductive invariant                                                 *)
(***************************************************************************)

\* Before the first spawn there is neither a child nor a crash.
LEMMA InitHolds ==
  ASSUME Init
  PROVE  IInv
<1>1. TypeOK /\ ChildOwned
  <2>1. crashes \in [Miners -> Seq(0 .. MaxTime)]
    BY EmptySeq DEF Init
  <2>2. 0 \in 0 .. MaxTime /\ 0 \in 0 .. Capacity
    BY SupervisorConstants
  <2>3. TypeOK
    BY <2>1, <2>2 DEF Init, TypeOK
  <2>4. QED
    BY <2>3 DEF Init, ChildOwned
<1>2. LogOrdered
  BY SupervisorConstants DEF Init, LogOrdered
<1>3. DequeIsSuffix
  <2>1. \A m \in Miners : Forgot(m, 0)
    BY SupervisorConstants DEF Init, Forgot
  <2>2. QED
    BY <2>1 DEF DequeIsSuffix
<1>4. QED
  BY <1>1, <1>2, <1>3 DEF IInv

\* A step that records no crash and leaves the clock alone keeps what the
\* tracker knows.
LEMMA TrackerFrame ==
  ASSUME IInv, UNCHANGED <<now, crashes, crash_log>>
  PROVE  LogOrdered' /\ DequeIsSuffix'
  BY DEF IInv, LogOrdered, DequeIsSuffix, Forgot, Stale

\* What left the window stays out of it (Tick).
LEMMA TickHolds ==
  ASSUME IInv, Tick
  PROVE  IInv'
<1>1. TypeOK' /\ ChildOwned'
  BY SupervisorConstants DEF IInv, TypeOK, ChildOwned, Tick, supVars, taskVars
<1>2. now \in Nat /\ now' = now + 1 /\ UNCHANGED <<crashes, crash_log>>
  BY SupervisorConstants DEF IInv, TypeOK, Tick, supVars
<1>3. \A m \in Miners : \A i \in DOMAIN crash_log[m] : crash_log[m][i] \in Nat
  BY SupervisorConstants, LenProperties, ElementOfSeq DEF IInv, LogOrdered
<1>4. LogOrdered'
  BY <1>2, <1>3 DEF IInv, LogOrdered
<1>5. DequeIsSuffix'
  <2> SUFFICES ASSUME NEW m \in Miners PROVE \E k \in Nat : Forgot(m, k)'
    BY DEF DequeIsSuffix
  <2>1. PICK k \in Nat : Forgot(m, k)
    BY DEF IInv, DequeIsSuffix
  <2>2. k <= Len(crash_log[m]) /\ \A i \in 1 .. k : Stale(crash_log[m][i])
    BY <2>1 DEF Forgot
  <2>3. ASSUME NEW i \in 1 .. k PROVE Stale(crash_log[m][i])'
    <3>1. crash_log[m][i] \in Nat /\ crash_log'[m][i] = crash_log[m][i]
      BY <2>2, <1>2, <1>3, SupervisorConstants DEF IInv, LogOrdered
    <3>2. QED
      BY <2>2, <3>1, <1>2, SupervisorConstants DEF Stale
  <2>4. Forgot(m, k)'
    BY <2>1, <2>3, <1>2 DEF Forgot
  <2>5. QED
    BY <2>4
<1>6. QED
  BY <1>1, <1>4, <1>5 DEF IInv

\* The process's own steps: it connects, reads, hangs, ends.
LEMMA MinerStepHolds ==
  ASSUME IInv, NEW m \in Miners, MinerStep(m)
  PROVE  IInv'
<1>1. TypeOK' /\ ChildOwned'
  <2>1. CASE Handshake(m)
    BY <2>1 DEF Handshake, IInv, TypeOK, ChildOwned, supVars, taskVars
  <2>2. CASE ChildReads(m)
    BY <2>2, SupervisorConstants DEF ChildReads, IInv, TypeOK, ChildOwned, supVars, taskVars
  <2>3. CASE ChildHangs(m)
    BY <2>3 DEF ChildHangs, IInv, TypeOK, ChildOwned, supVars, taskVars
  <2>4. ASSUME NEW exit \in Exits, ChildExits(m, exit) PROVE TypeOK' /\ ChildOwned'
    BY <2>4, SupervisorConstants DEF ChildExits, Gone, IInv, TypeOK, ChildOwned, supVars, taskVars
  <2>5. QED
    BY <2>1, <2>2, <2>3, <2>4 DEF MinerStep
<1>2. UNCHANGED <<now, crashes, crash_log>>
  BY DEF MinerStep, Handshake, ChildReads, ChildHangs, ChildExits, supVars
<1>3. QED
  BY <1>1, <1>2, TrackerFrame DEF IInv

\* The tracker's decision when a child has exited.
LEMMA ReapHolds ==
  ASSUME IInv, NEW m \in Miners, Reap(m)
  PROVE  IInv'
<1>1. CASE child[m] # "crash"
  <2>1. /\ UNCHANGED <<now, crashes, crash_log>>
        /\ sup'[m] \in {"sleeping", "over"} /\ child'[m] = "none"
    BY <1>1 DEF Reap, on_exit, Exits, IInv, TypeOK
  <2>2. TypeOK' /\ ChildOwned'
    <3>1. now \in Nat /\ now + BaseDelay \in Nat
      BY SupervisorConstants DEF IInv, TypeOK
    <3>2. until' \in [Miners -> Nat] /\ consecutive' \in [Miners -> Nat]
      <4>1. \/ /\ consecutive' = [consecutive EXCEPT ![m] = 0]
               /\ until' = [until EXCEPT ![m] = now + BaseDelay]
            \/ UNCHANGED <<consecutive, until>>
        BY <1>1 DEF Reap, on_exit
      <4>2. until \in [Miners -> Nat] /\ consecutive \in [Miners -> Nat]
        BY DEF IInv, TypeOK
      <4>3. QED
        BY <3>1, <4>1, <4>2
    <3>3. QED
      BY <1>1, <3>2 DEF Reap, on_exit, Exits, IInv, TypeOK, ChildOwned, taskVars
  <2>3. QED
    BY <2>1, <2>2, TrackerFrame DEF IInv
<1>2. CASE child[m] = "crash"
  <2> DEFINE recent == Append(Pruned(m), now)
             log == Append(crash_log[m], now)
  <2>1. PICK k \in Nat :
          /\ recent \in Seq(0 .. MaxTime) /\ log \in Seq(0 .. MaxTime)
          /\ k + Len(recent) = Len(log)
          /\ \A i \in 1 .. Len(recent) : recent[i] = log[i + k]
          /\ \A i \in 1 .. k : Stale(log[i])
          /\ \A i \in k + 1 .. Len(log) : ~Stale(log[i])
    BY CrashKept
  <2>2. /\ crashes' = [crashes EXCEPT ![m] = recent]
        /\ crash_log' = [crash_log EXCEPT ![m] = log]
        /\ now' = now
    BY <1>2 DEF Reap, on_exit, IInv, LogOrdered
  <2>3. now \in Nat /\ Delay(consecutive[m]) \in Nat
    BY DelayType, SupervisorConstants DEF IInv, TypeOK
  <2>4. TypeOK' /\ ChildOwned'
    <3> HIDE DEF recent
    <3>1. crashes' \in [Miners -> Seq(0 .. MaxTime)]
      BY <2>1, <2>2 DEF IInv, TypeOK
    <3>2. until' \in [Miners -> Nat] /\ consecutive' \in [Miners -> Nat]
      <4>1. \/ /\ consecutive' = [consecutive EXCEPT ![m] = @ + 1]
               /\ until' = [until EXCEPT ![m] = now + Delay(consecutive[m])]
            \/ UNCHANGED <<consecutive, until>>
        BY <1>2 DEF Reap, on_exit
      <4>2. until \in [Miners -> Nat] /\ consecutive \in [Miners -> Nat]
        BY DEF IInv, TypeOK
      <4>3. QED
        BY <2>3, <4>1, <4>2
    <3>3. QED
      BY <1>2, <3>1, <3>2 DEF Reap, on_exit, Exits, IInv, TypeOK, ChildOwned, taskVars
  <2>5. LogOrdered'
    <3>1. crash_log[m] \in Seq(0 .. MaxTime) /\ now \in 0 .. MaxTime
      BY DEF IInv, LogOrdered, TypeOK
    <3>2. /\ Len(crash_log[m]) \in Nat /\ Len(log) = Len(crash_log[m]) + 1
          /\ DOMAIN log = 1 .. Len(log) /\ DOMAIN crash_log[m] = 1 .. Len(crash_log[m])
          /\ \A i \in 1 .. Len(crash_log[m]) : log[i] = crash_log[m][i] /\ log[i] <= now
          /\ log[Len(crash_log[m]) + 1] = now
      BY <2>1, <3>1, LenProperties, AppendProperties DEF IInv, LogOrdered
    <3> HIDE DEF log
    <3>3. \A i, j \in DOMAIN log : log[i] <= now /\ (i <= j => log[i] <= log[j])
      BY <3>1, <3>2 DEF IInv, LogOrdered
    <3>4. QED
      BY <3>3, <2>1, <2>2 DEF IInv, LogOrdered
  <2>6. DequeIsSuffix'
    <3> SUFFICES ASSUME NEW n \in Miners PROVE \E x \in Nat : Forgot(n, x)'
      BY DEF DequeIsSuffix
    <3>1. CASE n = m
      <4>1. crashes'[n] = recent /\ crash_log'[n] = log
        BY <2>2, <3>1 DEF IInv, TypeOK, LogOrdered
      <4> HIDE DEF recent, log
      <4>2. Forgot(n, k)'
        BY <4>1, <2>1, <2>2 DEF Forgot, Stale
      <4>3. QED
        BY <4>2
    <3>2. CASE n # m
      <4>1. crashes'[n] = crashes[n] /\ crash_log'[n] = crash_log[n]
        BY <2>2, <3>2 DEF IInv, TypeOK, LogOrdered
      <4>2. PICK x \in Nat : Forgot(n, x)
        BY DEF IInv, DequeIsSuffix
      <4>3. Forgot(n, x)'
        BY <4>1, <4>2, <2>2 DEF Forgot, Stale
      <4>4. QED
        BY <4>3
    <3>3. QED
      BY <3>1, <3>2
  <2>7. QED
    BY <2>4, <2>5, <2>6 DEF IInv
<1>3. QED
  BY <1>1, <1>2

\* The other steps of supervise_miner. A spawn under way when the stop is
\* flipped leaves a waiting supervisor, which goes on to kill the child.
LEMMA SupervisorStepHolds ==
  ASSUME IInv, NEW m \in Miners, SupervisorStep(m)
  PROVE  IInv'
<1>1. CASE Reap(m)
  BY <1>1, ReapHolds
<1>2. ASSUME NEW ok \in BOOLEAN, Spawn(m, ok) PROVE IInv'
  <2>1. TypeOK' /\ ChildOwned'
    BY <1>2 DEF Spawn, IInv, TypeOK, ChildOwned, taskVars
  <2>2. QED
    BY <1>2, <2>1, TrackerFrame DEF Spawn, IInv
<1>3. CASE Wake(m)
  <2>1. TypeOK' /\ ChildOwned'
    BY <1>3 DEF Wake, IInv, TypeOK, ChildOwned, taskVars
  <2>2. QED
    BY <1>3, <2>1, TrackerFrame DEF Wake, IInv
<1>4. CASE BeginShutdown(m)
  <2>1. TypeOK' /\ ChildOwned'
    BY <1>4 DEF BeginShutdown, IInv, TypeOK, ChildOwned, taskVars
  <2>2. QED
    BY <1>4, <2>1, TrackerFrame DEF BeginShutdown, IInv
<1>5. CASE SendShutdown(m)
  <2>1. channel' \in [Miners -> 0 .. Capacity]
    BY <1>5, SupervisorConstants DEF SendShutdown, Room, IInv, TypeOK
  <2>2. TypeOK' /\ ChildOwned'
    BY <1>5, <2>1 DEF SendShutdown, IInv, TypeOK, ChildOwned, taskVars
  <2>3. QED
    BY <1>5, <2>2, TrackerFrame DEF SendShutdown, IInv
<1>6. CASE AfterGrace(m)
  <2>1. TypeOK' /\ ChildOwned'
    BY <1>6, SupervisorConstants DEF AfterGrace, Kill, Gone, IInv, TypeOK, ChildOwned
  <2>2. QED
    BY <1>6, <2>1, TrackerFrame DEF AfterGrace, IInv
<1>7. QED
  BY <1>1, <1>2, <1>3, <1>4, <1>5, <1>6 DEF SupervisorStep

\* Broadcasts: a message goes to a channel that has room.
LEMMA TaskStepHolds ==
  ASSUME IInv, TaskStep
  PROVE  IInv'
<1>1. UNCHANGED <<now, crashes, crash_log, sup, child, main>>
  BY DEF TaskStep, FeederBroadcasts, FeederSends, PingsBegin, PingSends, TaskEnds, supVars
<1>2. ChildOwned'
  BY <1>1 DEF IInv, ChildOwned
<1>3. ASSUME NEW q, Delivers(q) PROVE channel' \in [Miners -> 0 .. Capacity]
  <2>1. channel \in [Miners -> 0 .. Capacity]
    BY DEF IInv, TypeOK
  <2> DEFINE h == Head(q)
  <2>2. channel[h] < Capacity /\ channel' = [channel EXCEPT ![h] = @ + 1]
    BY <1>3 DEF Delivers, Room
  <2> HIDE DEF h
  <2>3. CASE h \in Miners
    BY <2>1, <2>2, <2>3, SupervisorConstants
  <2>4. CASE h \notin Miners
    BY <2>1, <2>2, <2>4
  <2>5. QED
    BY <2>3, <2>4
<1>4. TypeOK'
  <2>1. CASE FeederBroadcasts
    BY <2>1 DEF FeederBroadcasts, IInv, TypeOK, supVars
  <2>2. CASE FeederSends
    BY <2>2, <1>3 DEF FeederSends, IInv, TypeOK, supVars
  <2>3. CASE PingsBegin
    BY <2>3 DEF PingsBegin, IInv, TypeOK, supVars
  <2>4. CASE PingSends
    BY <2>4, <1>3 DEF PingSends, IInv, TypeOK, supVars
  <2>5. ASSUME NEW task \in {"feeder", "liveness"}, TaskEnds(task) PROVE TypeOK'
    BY <2>5 DEF TaskEnds, IInv, TypeOK, supVars
  <2>6. QED
    BY <2>1, <2>2, <2>3, <2>4, <2>5 DEF TaskStep
<1>5. QED
  BY <1>1, <1>2, <1>4, TrackerFrame DEF IInv

\* run_runtime: the stop and the joins.
LEMMA MainHolds ==
  ASSUME IInv, RequestStop \/ Join
  PROVE  IInv'
<1>1. UNCHANGED <<now, crashes, crash_log>>
  BY DEF RequestStop, Join, supVars
<1>2. TypeOK'
  BY DEF RequestStop, Join, IInv, TypeOK, supVars, taskVars
<1>3. ChildOwned'
  BY DEF RequestStop, Join, IInv, ChildOwned, supVars, taskVars
<1>4. QED
  BY <1>1, <1>2, <1>3, TrackerFrame DEF IInv

\* Every step keeps the invariant.
LEMMA NextHolds ==
  ASSUME IInv, [Next]_vars
  PROVE  IInv'
<1>1. CASE UNCHANGED vars
  <2>1. TypeOK' /\ ChildOwned'
    BY <1>1 DEF vars, supVars, taskVars, IInv, TypeOK, ChildOwned
  <2>2. QED
    BY <1>1, <2>1, TrackerFrame DEF vars, supVars, IInv
<1>2. QED
  BY <1>1, TickHolds, MinerStepHolds, SupervisorStepHolds, TaskStepHolds, MainHolds DEF Next

\* The inductive invariant holds in every state, for any miners, backoff
\* policy, channel capacity and bounds.
THEOREM Invariance == Spec => []IInv
  BY InitHolds, NextHolds, PTL DEF Spec

\* When run_runtime returns no miner process is left behind, and no channel
\* ever holds more than its capacity.
THEOREM NoMinerLeftBehind == Spec => []NoOrphans
<1>1. IInv => NoOrphans
  BY DEF IInv, ChildOwned, NoOrphans
<1>2. QED
  BY <1>1, Invariance, PTL

\* A crash is recorded only by Reap; the miner is restarted if and only if the
\* part of its log inside the window is within the budget.
LEMMA BudgetStep ==
  ASSUME IInv, [Next]_vars, NEW m \in Miners, Len(crash_log'[m]) > Len(crash_log[m])
  PROVE  sup'[m] = "sleeping" <=> Cardinality(RecentCrashes(m, crash_log')) <= Budget
<1> DEFINE recent == Append(Pruned(m), now)
           log == Append(crash_log[m], now)
<1>1. Reap(m) /\ child[m] = "crash"
  <2>1. crash_log' # crash_log /\ crash_log'[m] # crash_log[m]
    <3>1. Len(crash_log[m]) \in Nat
      BY LenProperties DEF IInv, LogOrdered
    <3>2. QED
      BY <3>1
  <2>2. PICK n \in Miners : Reap(n) /\ child[n] = "crash"
    BY <2>1 DEF Next, vars, supVars, Tick, MinerStep, Handshake, ChildReads, ChildHangs,
       ChildExits, SupervisorStep, Spawn, Reap, Wake, BeginShutdown, SendShutdown,
       AfterGrace, TaskStep, FeederBroadcasts, FeederSends, PingsBegin, PingSends, TaskEnds,
       RequestStop, Join, on_exit
  <2>3. crash_log' = [crash_log EXCEPT ![n] = Append(@, now)]
    BY <2>2 DEF Reap, on_exit
  <2>4. n = m
    BY <2>1, <2>3 DEF IInv, LogOrdered
  <2>5. QED
    BY <2>2, <2>4
<1>2. PICK k \in Nat :
        /\ recent \in Seq(0 .. MaxTime) /\ log \in Seq(0 .. MaxTime)
        /\ k + Len(recent) = Len(log)
        /\ \A i \in 1 .. Len(recent) : recent[i] = log[i + k]
        /\ \A i \in 1 .. k : Stale(log[i])
        /\ \A i \in k + 1 .. Len(log) : ~Stale(log[i])
  BY CrashKept
<1>3. crash_log'[m] = log
  BY <1>1 DEF Reap, on_exit, IInv, LogOrdered
<1>4. sup'[m] = "sleeping" <=> Len(recent) <= Budget
  <2>1. Len(recent) \in Nat
    BY <1>2, LenProperties
  <2>2. QED
    BY <1>1, <2>1, SupervisorConstants DEF Reap, on_exit, IInv, TypeOK
<1>5. Len(recent) \in Nat /\ Len(log) \in Nat /\ DOMAIN log = 1 .. Len(log)
      /\ \A i \in 1 .. Len(log) : log[i] \in Nat
  <2>1. recent \in Seq(0 .. MaxTime) /\ log \in Seq(0 .. MaxTime)
    BY <1>2
  <2> HIDE DEF recent, log
  <2>2. QED
    BY <2>1, LenProperties, ElementOfSeq, SupervisorConstants
<1> HIDE DEF recent, log
<1>6. RecentCrashes(m, crash_log') = k + 1 .. Len(log)
  <2>1. RecentCrashes(m, crash_log') = {i \in 1 .. Len(log) : log[i] + Window >= now}
    BY <1>3, <1>5 DEF RecentCrashes
  <2>2. now \in Nat /\ Window \in Nat
    BY SupervisorConstants DEF IInv, TypeOK
  <2>3. \A i \in 1 .. Len(log) : log[i] + Window >= now <=> i \in k + 1 .. Len(log)
    BY <1>2, <1>5, <2>2 DEF Stale
  <2>4. k + 1 .. Len(log) \subseteq 1 .. Len(log)
    BY <1>5
  <2>5. QED
    BY <2>1, <2>3, <2>4
<1>7. Cardinality(k + 1 .. Len(log)) = Len(recent)
  <2>1. k + 1 \in Int /\ Len(log) \in Int
    BY <1>5
  <2>2. Cardinality(k + 1 .. Len(log)) = IF k + 1 > Len(log) THEN 0 ELSE Len(log) - (k + 1) + 1
    BY <2>1, FS_Interval
  <2>3. QED
    BY <2>2, <1>2, <1>5
<1>8. QED
  BY <1>4, <1>6, <1>7

\* The failure budget is exact, however clean exits, pruning and the clock
\* interleave (RestartTracker::on_exit).
THEOREM FailureBudget == Spec => BudgetIsExact
<1>1. IInv /\ [Next]_vars =>
        [\A m \in Miners : Len(crash_log'[m]) > Len(crash_log[m]) =>
           (sup'[m] = "sleeping" <=> Cardinality(RecentCrashes(m, crash_log')) <= Budget)]_vars
  BY BudgetStep
<1>2. QED
  BY <1>1, Invariance, PTL DEF Spec, BudgetIsExact
=============================================================================
