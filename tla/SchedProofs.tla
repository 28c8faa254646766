---------------------------- MODULE SchedProofs ----------------------------
(***************************************************************************)
(* Proofs about the two things a tick drives.                              *)
(*                                                                         *)
(* Sched, for any number of processors and threads: a thread is on one     *)
(* processor at a time, is resumed only from a context that has been       *)
(* written, and is freed only when no processor stands on it; and a thread *)
(* that sleeps is where its waker looks, so that no give is lost.          *)
(*                                                                         *)
(* TimerWheel, for any width and number of levels, any width of a tick     *)
(* count and any number of timers and of contexts that turn the wheel: a   *)
(* timer is never passed by the hand, never lost and never run early.      *)
(***************************************************************************)
EXTENDS Sched, TimerWheel, FiniteSetTheorems, FunctionTheorems, WellFoundedInduction, TLAPS

\* Boot is never taken out of the ring, so the ring is never empty.
RingOK == \E i \in 1..Len(ring) : ring[i] = Boot

\* What a processor's phase says of the stack it stands on.
PhaseOK ==
    \A c \in Cpus :
        /\ phase[c] = "run" => leaving[c] = None /\ stack[c] = current[c]
        /\ phase[c] = "switching" => /\ leaving[c] \in Threads
                                     /\ stack[c] = leaving[c]
                                     /\ saved[current[c]]
        /\ phase[c] = "arrived" => /\ leaving[c] \in Threads
                                   /\ stack[c] = current[c]
                                   /\ saved[leaving[c]]

\* off_cpu is false exactly for the threads a processor runs or is leaving.
Holds(c, t) == current[c] = t \/ leaving[c] = t
OffCpuOK ==
    \A t \in Threads : ~off_cpu[t] <=> \E c \in Cpus : Holds(c, t)

\* No thread is held by two processors, or twice by one.
DisjointOK ==
    /\ \A c, d \in Cpus : \A t \in Threads : Holds(c, t) /\ Holds(d, t) => c = d
    /\ \A c \in Cpus : current[c] # leaving[c]

\* A thread that exists and is off its processor has a context to resume.
SavedOK ==
    \A t \in Threads : off_cpu[t] /\ state[t] # "unused" => saved[t]

\* What is held exists, and the kernel's own threads never end.
AliveOK ==
    /\ \A t \in Threads : ~off_cpu[t] => state[t] # "unused"
    /\ \A t \in Threads \ Users : state[t] \notin {"unused", "finished"}

\* An idle thread belongs to its processor for ever, and only that one takes it.
IdleOK ==
    /\ \A c \in Cpus : idle_for[IdleOf[c]] = c
    /\ \A c, d \in Cpus : Holds(c, IdleOf[d]) => c = d

IInv ==
    /\ TypeOK
    /\ RingOK
    /\ PhaseOK
    /\ OffCpuOK
    /\ DisjointOK
    /\ SavedOK
    /\ AliveOK
    /\ IdleOK

-----------------------------------------------------------------------------

\* The sets of threads are made of what they should be.
LEMMA ThreadFacts ==
    /\ Boot \in Threads \ Users /\ Worker \in Threads \ Users
    /\ \A c \in Cpus : IdleOf[c] \in Threads \ Users
    /\ Boot # Worker
    /\ \A c \in Cpus : IdleOf[c] # Boot /\ IdleOf[c] # Worker
    /\ None \notin Threads
    /\ None \notin Cpus
BY CpusAssumption, IdleAssumption, UsersAssumption
DEF Threads, Kernel, Idles

\* The thread a processor starts with, after bring-up.
LEMMA AdoptedFacts ==
    /\ \A c \in Cpus : Adopted(c) \in Threads \ Users
    /\ \A c, d \in Cpus : Adopted(c) = Adopted(d) => c = d
    /\ \A c, d \in Cpus : Adopted(c) = IdleOf[d] => c = d
BY ThreadFacts, IdleAssumption DEF Adopted

\* The initial state satisfies the inductive invariant.
LEMMA InitIInv == Init => IInv
<1> SUFFICES ASSUME Init PROVE IInv
  OBVIOUS
<1> USE ThreadFacts, AdoptedFacts DEF Init
<1>1. idle_for \in [Threads -> Cpus \cup {None}] /\ \A c \in Cpus : idle_for[IdleOf[c]] = c
  BY IdleAssumption DEF Idles
<1>2. TypeOK
  <2>1. ring \in Seq(Threads)
    BY RingAssumption
  <2>2. count \in 0..MaxCount
    BY CountAssumption
  <2>3. pinned_to \in [Threads -> Cpus \cup {None}]
    BY CpusAssumption
  <2>4. off_cpu \in [Threads -> BOOLEAN] /\ saved \in [Threads -> BOOLEAN]
    BY Zenon
  <2>5. state \in [Threads -> States] /\ pc \in [Threads -> Places]
    BY DEF States, Places
  <2>6. /\ current \in [Cpus -> Threads] /\ stack \in [Cpus -> Threads]
        /\ leaving \in [Cpus -> Threads \cup {None}]
        /\ phase \in [Cpus -> {"run", "switching", "arrived"}]
    OBVIOUS
  <2>7. waiters \in Seq(Threads)
    OBVIOUS
  <2>8. work_waiting \in BOOLEAN /\ reap_queued \in BOOLEAN /\ panicked \in BOOLEAN
    BY Zenon
  <2> QED
    BY <1>1, <2>1, <2>2, <2>3, <2>4, <2>5, <2>6, <2>7, <2>8 DEF TypeOK
<1>3. RingOK
  BY RingAssumption DEF RingOK, Kernel
<1>4. PhaseOK
  BY DEF PhaseOK
<1>5. OffCpuOK
  BY DEF OffCpuOK, Holds
<1>6. DisjointOK
  BY DEF DisjointOK, Holds
<1>7. SavedOK
  BY DEF SavedOK
<1>8. AliveOK
  BY DEF AliveOK
<1>9. IdleOK
  BY <1>1 DEF IdleOK, Holds
<1> QED
  BY <1>2, <1>3, <1>4, <1>5, <1>6, <1>7, <1>8, <1>9 DEF IInv

\* What pick_next may hand to a processor that gives its thread up: a thread
\* no processor holds, that exists, and whose context has been written.
LEMMA PickNext ==
    ASSUME IInv, NEW c \in Cpus, phase[c] = "run",
           NEW next \in pick_next(current[c], c), next # current[c]
    PROVE  /\ next \in Threads
           /\ off_cpu[next]
           /\ saved[next]
           /\ state[next] # "unused"
           /\ \A d \in Cpus : next = IdleOf[d] => c = d
<1> DEFINE cand == {t \in Threads \ {current[c]} : InRing(t) /\ Takeable(c, t)}
           work == {t \in cand : idle_for[t] = None}
<1>1. next \in cand \/ next = IdleOf[c]
  BY DEF pick_next, Nearest
<1>2. CASE next \in cand
  <2>1. next \in Threads /\ off_cpu[next] /\ state[next] = "ready" /\ idle_for[next] \in {None, c}
    BY <1>2 DEF Takeable
  <2>2. saved[next]
    BY <2>1 DEF IInv, SavedOK
  <2> QED
    BY <2>1, <2>2, ThreadFacts DEF IInv, IdleOK
<1>3. CASE next = IdleOf[c]
  <2>1. next \in Threads \ Users
    BY <1>3, ThreadFacts
  <2>2. off_cpu[next]
    <3> SUFFICES ASSUME ~off_cpu[next] PROVE FALSE
      BY <2>1 DEF IInv, TypeOK
    <3>1. PICK d \in Cpus : Holds(d, next)
      BY <2>1 DEF IInv, OffCpuOK
    <3>2. d = c
      BY <1>3, <3>1 DEF IInv, IdleOK
    <3> QED
      BY <2>1, <3>1, <3>2, ThreadFacts DEF IInv, PhaseOK, Holds
  <2>3. state[next] # "unused"
    BY <2>1 DEF IInv, AliveOK
  <2>4. saved[next]
    BY <2>1, <2>2, <2>3 DEF IInv, SavedOK
  <2> QED
    BY <1>3, <2>1, <2>2, <2>3, <2>4, IdleAssumption
<1> QED
  BY <1>1, <1>2, <1>3
\* Putting a thread behind the head of the ring, and taking one out that is
\* not the boot thread, keep the ring a list of threads with Boot in it.
LEMMA RingInsert ==
    ASSUME ring \in Seq(Threads), RingOK, NEW t \in Threads
    PROVE  /\ ring_insert(t) \in Seq(Threads)
           /\ \E i \in 1..Len(ring_insert(t)) : ring_insert(t)[i] = Boot
<1> DEFINE n == Len(ring)
           r == ring_insert(t)
<1>1. PICK k \in 1..n : ring[k] = Boot
  BY DEF RingOK
<1>2. n \in Nat /\ n >= 1 /\ ring # <<>>
  BY <1>1
<1>3. Head(ring) \in Threads /\ Tail(ring) \in Seq(Threads)
      /\ Head(ring) = ring[1] /\ Len(Tail(ring)) = n - 1
      /\ \A i \in 1..(n - 1) : Tail(ring)[i] = ring[i + 1]
  BY <1>2
<1>4. r \in Seq(Threads) /\ Len(r) = n + 1 /\ r[1] = ring[1]
      /\ \A i \in 3..(n + 1) : r[i] = ring[i - 1]
  BY <1>2, <1>3 DEF ring_insert
<1>5. CASE k = 1
  BY <1>1, <1>2, <1>4, <1>5
<1>6. CASE k > 1
  <2>1. k + 1 \in 3..(n + 1) /\ k + 1 \in 1..Len(r)
    BY <1>1, <1>2, <1>4, <1>6
  <2>2. r[k + 1] = Boot
    BY <1>1, <1>4, <2>1
  <2> QED
    BY <1>4, <2>1, <2>2
<1> QED
  BY <1>1, <1>2, <1>4, <1>5, <1>6

\* ring_remove of any other thread leaves a ring with the boot thread on it.
LEMMA RingRemove ==
    ASSUME ring \in Seq(Threads), RingOK, NEW t \in Threads, InRing(t), t # Boot
    PROVE  /\ ring_remove(t) \in Seq(Threads)
           /\ \E j \in 1..Len(ring_remove(t)) : ring_remove(t)[j] = Boot
<1> DEFINE n == Len(ring)
           i == CHOOSE j \in 1..n : ring[j] = t
           r == ring_remove(t)
<1>1. PICK k \in 1..n : ring[k] = Boot
  BY DEF RingOK
<1>2. i \in 1..n /\ ring[i] = t
  BY DEF InRing
<1> HIDE DEF i
<1>3. n \in Nat /\ n >= 2 /\ k # i
  BY <1>1, <1>2
<1>4. r = IF i = 1 THEN <<ring[n]>> \o SubSeq(ring, 2, n - 1)
                   ELSE SubSeq(ring, 1, i - 1) \o SubSeq(ring, i + 1, n)
  BY DEF ring_remove, i
<1>5. CASE i = 1
  <2>1. SubSeq(ring, 2, n - 1) \in Seq(Threads) /\ Len(SubSeq(ring, 2, n - 1)) = n - 2
        /\ \A j \in 1..(n - 2) : SubSeq(ring, 2, n - 1)[j] = ring[j + 1]
    <3>1. 2 \in 1..(n + 1) /\ n - 1 \in 0..n
      BY <1>3
    <3>2. SubSeq(ring, 2, n - 1) \in Seq(Threads)
      <4>1. CASE n = 2
        BY <1>3, <4>1
      <4>2. CASE n > 2
        BY <1>3, <4>2
      <4> QED
        BY <1>3, <4>1, <4>2
    <3>3. Len(SubSeq(ring, 2, n - 1)) = n - 2
      <4>1. CASE n = 2
        BY <1>3, <4>1
      <4>2. CASE n > 2
        BY <1>3, <4>2
      <4>3. n = 2 \/ n > 2
        <5> HIDE DEF n
        <5> QED
          BY <1>3
      <4> QED
        BY <4>1, <4>2, <4>3, Zenon
    <3>4. ASSUME NEW j \in 1..(n - 2) PROVE SubSeq(ring, 2, n - 1)[j] = ring[j + 1]
      <4>1. 2 + j - 1 = j + 1
        BY <1>3, <3>4
      <4> QED
        BY <1>3, <3>1, <3>4, <4>1
    <3> QED
      BY <3>2, <3>3, <3>4
  <2>2. r \in Seq(Threads) /\ Len(r) = n - 1 /\ r[1] = ring[n]
        /\ \A j \in 2..(n - 1) : r[j] = ring[j]
    <3> DEFINE q == SubSeq(ring, 2, n - 1)
    <3> HIDE DEF q
    <3>1. r = <<ring[n]>> \o q /\ q \in Seq(Threads) /\ Len(q) = n - 2
          /\ ring[n] \in Threads
      BY <1>3, <1>4, <1>5, <2>1 DEF q
    <3>2. r \in Seq(Threads) /\ Len(r) = n - 1 /\ r[1] = ring[n]
      BY <1>3, <3>1
    <3>3. ASSUME NEW j \in 2..(n - 1) PROVE r[j] = ring[j]
      <4>1. r[j] = q[j - 1] /\ j - 1 \in 1..(n - 2) /\ (j - 1) + 1 = j
        BY <1>3, <3>1, <3>3
      <4> QED
        BY <2>1, <4>1 DEF q
    <3> QED
      BY <3>2, <3>3
  <2>3. k = n \/ k \in 2..(n - 1)
    BY <1>1, <1>3, <1>5
  <2> QED
    BY <1>1, <1>3, <2>2, <2>3
<1>6. CASE i # 1
  <2>1. SubSeq(ring, 1, i - 1) \in Seq(Threads) /\ Len(SubSeq(ring, 1, i - 1)) = i - 1
        /\ \A j \in 1..(i - 1) : SubSeq(ring, 1, i - 1)[j] = ring[j]
    BY <1>2, <1>3, <1>6
  <2>2. SubSeq(ring, i + 1, n) \in Seq(Threads) /\ Len(SubSeq(ring, i + 1, n)) = n - i
        /\ \A j \in 1..(n - i) : SubSeq(ring, i + 1, n)[j] = ring[j + i]
    BY <1>2, <1>3
  <2>3. /\ r \in Seq(Threads) /\ Len(r) = n - 1
        /\ \A j \in 1..(i - 1) : r[j] = ring[j]
        /\ \A j \in i..(n - 1) : r[j] = ring[j + 1]
    <3> DEFINE p == SubSeq(ring, 1, i - 1)
               q == SubSeq(ring, i + 1, n)
    <3> HIDE DEF p, q
    <3>1. r = p \o q /\ p \in Seq(Threads) /\ q \in Seq(Threads)
          /\ Len(p) = i - 1 /\ Len(q) = n - i
      BY <1>4, <1>6, <2>1, <2>2 DEF p, q
    <3>2. r \in Seq(Threads) /\ Len(r) = n - 1
      BY <1>2, <1>3, <3>1
    <3>3. ASSUME NEW j \in 1..(i - 1) PROVE r[j] = ring[j]
      <4>1. r[j] = p[j]
        BY <1>2, <1>3, <3>1, <3>3
      <4> QED
        BY <2>1, <4>1 DEF p
    <3>4. ASSUME NEW j \in i..(n - 1) PROVE r[j] = ring[j + 1]
      <4>1. j - (i - 1) \in 1..(n - i) /\ j \in (Len(p) + 1)..(Len(p) + Len(q))
        BY <1>2, <1>3, <3>1, <3>4
      <4>2. r[j] = q[j - (i - 1)]
        BY <1>2, <1>3, <3>1, <4>1, SMTT(30)
      <4>3. j - (i - 1) + i = j + 1
        BY <1>2, <3>4
      <4> QED
        BY <2>2, <4>1, <4>2, <4>3 DEF q
    <3> QED
      BY <3>2, <3>3, <3>4
  <2>4. CASE k < i
    BY <1>1, <1>2, <1>3, <2>3, <2>4
  <2>5. CASE k > i
    <3>1. k - 1 \in i..(n - 1) /\ k - 1 \in 1..Len(r) /\ (k - 1) + 1 = k
      BY <1>1, <1>2, <1>3, <2>3, <2>5
    <3>2. r[k - 1] = ring[(k - 1) + 1]
      BY <2>3, <3>1
    <3>3. r[k - 1] = Boot
      BY <1>1, <3>1, <3>2
    <3> QED
      BY <2>3, <3>1, <3>3
  <2> QED
    BY <1>1, <1>2, <1>3, <2>4, <2>5
<1> QED
  BY <1>5, <1>6

\* A step that moves no thread between processors, frees none and ends none
\* of the kernel's own keeps the invariant, whatever else it does.
LEMMA Quiet ==
    ASSUME IInv, TypeOK', RingOK',
           UNCHANGED <<current, leaving, phase, stack, off_cpu, saved>>,
           \A c \in Cpus : idle_for'[IdleOf[c]] = idle_for[IdleOf[c]],
           \A t \in Threads : state'[t] = "unused" => state[t] = "unused",
           \A t \in Threads : state[t] = "unused" => state'[t] = "unused",
           \A t \in Threads \ Users : state'[t] # state[t] => state'[t] # "finished"
    PROVE  IInv'
<1>1. PhaseOK' /\ OffCpuOK' /\ DisjointOK'
  BY DEF IInv, PhaseOK, OffCpuOK, DisjointOK, Holds
<1>2. SavedOK'
  BY DEF IInv, SavedOK
<1>3. AliveOK'
  BY DEF IInv, AliveOK
<1>4. IdleOK'
  BY DEF IInv, IdleOK, Holds
<1> QED
  BY <1>1, <1>2, <1>3, <1>4 DEF IInv

\* Going to sleep, taking and waking never make a thread appear or end.
LEMMA TakeQuiet ==
    ASSUME TypeOK, NEW t \in Threads, state[t] # "unused", TakeOrSleep(t)
    PROVE  /\ state' \in [Threads -> States]
           /\ pc' \in [Threads -> Places]
           /\ waiters' \in Seq(Threads)
           /\ count' \in 0..MaxCount
           /\ \A u \in Threads : state'[u] # state[u] => state'[u] = "blocked" /\ u = t
<1>1. Served(pc[t]) \in Places /\ Sleeping(pc[t]) \in Places
  BY DEF Served, Sleeping, Places
<1>2. count \in Nat /\ count <= MaxCount /\ MaxCount \in Nat
  BY CountAssumption DEF TypeOK
<1>3. CASE count > 0
  <2>1. /\ count' = count - 1 /\ state' = state /\ waiters' = waiters
        /\ pc' = [pc EXCEPT ![t] = Served(@)]
    BY <1>3 DEF TakeOrSleep
  <2>2. count' \in 0..MaxCount
    BY <1>2, <1>3, <2>1
  <2> QED
    BY <1>1, <2>1, <2>2 DEF TypeOK
<1>4. CASE count = 0
  <2>1. /\ waiters' = Append(waiters, t) /\ count' = count
        /\ state' = [state EXCEPT ![t] = "blocked"]
        /\ pc' = [pc EXCEPT ![t] = Sleeping(@)]
    BY <1>4 DEF TakeOrSleep
  <2>2. waiters' \in Seq(Threads)
    BY <2>1 DEF TypeOK
  <2> QED
    BY <1>1, <1>2, <2>1, <2>2 DEF TypeOK, States
<1> QED
  BY <1>2, <1>3, <1>4

\* wake changes at most one state, from blocked to ready.
LEMMA WakeQuiet ==
    ASSUME TypeOK, NEW t \in Threads
    PROVE  /\ wake(t) \in [Threads -> States]
           /\ \A u \in Threads : wake(t)[u] # state[u]
                                    => wake(t)[u] = "ready" /\ state[u] = "blocked"
BY DEF TypeOK, wake, States

\* Every step keeps the inductive invariant.
LEMMA NextIInv == IInv /\ [Next]_vars => IInv'
<1> SUFFICES ASSUME IInv, [Next]_vars PROVE IInv'
  OBVIOUS
<1>t. TypeOK /\ RingOK
  BY DEF IInv
<1> USE DEF cpuVars, threadVars, semVars, workVars
<1>0. CASE UNCHANGED vars
  <2>1. TypeOK' /\ RingOK'
    BY <1>0, <1>t DEF vars, TypeOK, RingOK
  <2> QED
    BY <1>0, <2>1, Quiet DEF vars
<1>c. \A c \in Cpus : current[c] \in Threads /\ state[current[c]] # "unused"
  <2>1. \A c \in Cpus : current[c] \in Threads /\ ~off_cpu[current[c]]
    BY <1>t DEF IInv, TypeOK, OffCpuOK, Holds
  <2> QED
    BY <2>1 DEF IInv, AliveOK
<1>1. ASSUME NEW c \in Cpus, NEW t \in Users, thread_create_stopped(c, t) PROVE IInv'
  <2> USE <1>1 DEF thread_create_stopped
  <2>0. t \in Threads /\ \A d \in Cpus : t # IdleOf[d]
    BY ThreadFacts DEF Threads
  <2>1. TypeOK'
    BY <1>t, <2>0 DEF TypeOK, States, Places
  <2>2. off_cpu[t] /\ off_cpu' = off_cpu
    BY <1>t, <2>0 DEF IInv, AliveOK, TypeOK
  <2>3. RingOK' /\ OffCpuOK' /\ DisjointOK'
    BY <2>2 DEF IInv, RingOK, OffCpuOK, DisjointOK, Holds
  <2>4. PhaseOK'
    <3>1. \A d \in Cpus : current[d] # t /\ leaving[d] # t
      BY <2>0, <2>2 DEF IInv, OffCpuOK, Holds
    <3> QED
      BY <3>1, <1>t DEF IInv, PhaseOK, TypeOK
  <2>5. SavedOK' /\ AliveOK'
    BY <1>t, <2>0, <2>2 DEF IInv, SavedOK, AliveOK, TypeOK
  <2>6. IdleOK'
    BY <1>t, <2>0, ThreadFacts DEF IInv, IdleOK, Holds, TypeOK
  <2> QED
    BY <2>1, <2>3, <2>4, <2>5, <2>6 DEF IInv
<1>2. ASSUME NEW c \in Cpus, NEW t \in Users, thread_start(c, t) PROVE IInv'
  <2>1. t \in Threads
    BY DEF Threads
  <2>2. TypeOK' /\ RingOK'
    BY <1>2, <1>t, <2>1, RingInsert DEF thread_start, TypeOK, RingOK
  <2> QED
    BY <1>2, <2>2, Quiet DEF thread_start
<1>3. ASSUME NEW c \in Cpus, sched_this_thread_is_now_idle(c) PROVE IInv'
  <2>1. TypeOK' /\ RingOK'
    BY <1>3, <1>t, ThreadFacts DEF sched_this_thread_is_now_idle, TypeOK, RingOK
  <2>2. \A d \in Cpus : idle_for'[IdleOf[d]] = idle_for[IdleOf[d]]
    BY <1>3, <1>t, ThreadFacts DEF sched_this_thread_is_now_idle, TypeOK
  <2> QED
    BY <1>3, <2>1, <2>2, Quiet DEF sched_this_thread_is_now_idle
<1>4. ASSUME NEW c \in Cpus, sched_switch(c) PROVE IInv'
  <2>1. PICK next \in pick_next(current[c], c) :
          \/ next = current[c] /\ KeepsCpu(c, next)
          \/ next # current[c] /\ SwitchTo(c, current[c], next)
    BY <1>4 DEF sched_switch
  <2>2. CASE next = current[c] /\ KeepsCpu(c, next)
    <3>1. TypeOK' /\ RingOK'
      BY <2>2, <1>t, <1>c DEF KeepsCpu, TypeOK, RingOK, Places
    <3> QED
      BY <2>2, <3>1, Quiet DEF KeepsCpu
  <2>3. CASE next # current[c] /\ SwitchTo(c, current[c], next)
    <3> DEFINE prev == current[c]
    <3>0. phase[c] = "run" /\ prev \in Threads /\ state[prev] # "unused"
      BY <1>4, <1>c DEF sched_switch, EntersSwitch
    <3>1. /\ next \in Threads /\ off_cpu[next] /\ saved[next] /\ state[next] # "unused"
          /\ \A d \in Cpus : next = IdleOf[d] => c = d
      BY <2>3, <3>0, PickNext
    <3>2. /\ leaving' = [leaving EXCEPT ![c] = prev]
          /\ state' = [state EXCEPT ![next] = "running"]
          /\ off_cpu' = [off_cpu EXCEPT ![next] = FALSE]
          /\ current' = [current EXCEPT ![c] = next]
          /\ phase' = [phase EXCEPT ![c] = "switching"]
          /\ UNCHANGED <<stack, saved, idle_for, pinned_to, semVars, workVars,
                         ring, panicked>>
      BY <2>3 DEF SwitchTo
    <3>3. pc' \in [Threads -> Places]
      <4>1. PICK p \in PlaceAfterSwitch(pc[prev]) : pc' = [pc EXCEPT ![prev] = p]
        BY <2>3 DEF SwitchTo
      <4>2. p \in Places
        BY <1>t, <3>0, <4>1 DEF PlaceAfterSwitch, Places, TypeOK
      <4> QED
        BY <1>t, <4>1, <4>2 DEF TypeOK
    <3>4. TypeOK'
      BY <1>t, <3>0, <3>1, <3>2, <3>3 DEF TypeOK, States
    <3>5. RingOK'
      BY <1>t, <3>2 DEF RingOK
    <3>6. /\ leaving[c] = None /\ stack[c] = prev
          /\ \A d \in Cpus : ~Holds(d, next)
      BY <3>0, <3>1 DEF IInv, PhaseOK, OffCpuOK
    <3>7. \A d \in Cpus : IF d = c THEN current'[d] = next /\ leaving'[d] = prev
                                   ELSE current'[d] = current[d] /\ leaving'[d] = leaving[d]
      BY <1>t, <3>2 DEF TypeOK
    <3>8. \A d \in Cpus : \A t \in Threads :
             Holds(d, t)' <=> Holds(d, t) \/ (d = c /\ t = next)
      BY <3>6, <3>7, ThreadFacts DEF Holds
    <3>9. PhaseOK'
      BY <1>t, <3>0, <3>1, <3>2, <3>6, <3>7 DEF IInv, PhaseOK, TypeOK
    <3>10. OffCpuOK'
      <4>1. \A t \in Threads : ~off_cpu'[t] <=> ~off_cpu[t] \/ t = next
        BY <1>t, <3>1, <3>2 DEF TypeOK
      <4> QED
        BY <3>8, <4>1 DEF IInv, OffCpuOK
    <3>11. DisjointOK'
      <4>1. \A d, e \in Cpus : \A t \in Threads : Holds(d, t)' /\ Holds(e, t)' => d = e
        BY <3>6, <3>8 DEF IInv, DisjointOK
      <4>2. \A d \in Cpus : current'[d] # leaving'[d]
        BY <2>3, <3>7 DEF IInv, DisjointOK
      <4> QED
        BY <4>1, <4>2 DEF DisjointOK
    <3>12. SavedOK'
      BY <1>t, <3>1, <3>2 DEF IInv, SavedOK, TypeOK
    <3>13. AliveOK'
      BY <1>t, <3>1, <3>2 DEF IInv, AliveOK, TypeOK
    <3>14. IdleOK'
      BY <3>1, <3>2, <3>8, ThreadFacts DEF IInv, IdleOK
    <3> QED
      BY <3>4, <3>5, <3>9, <3>10, <3>11, <3>12, <3>13, <3>14 DEF IInv
  <2> QED
    BY <2>1, <2>2, <2>3
<1>5. ASSUME NEW c \in Cpus, arch_context_switch(c) PROVE IInv'
  <2>1. /\ phase[c] = "switching" /\ leaving[c] \in Threads /\ stack[c] = leaving[c]
        /\ current[c] \in Threads /\ current[c] # leaving[c]
        /\ ~off_cpu[current[c]]
    BY <1>5, <1>c DEF arch_context_switch, IInv, PhaseOK, DisjointOK, OffCpuOK, Holds
  <2>2. TypeOK' /\ RingOK'
    BY <1>5, <1>t, <2>1 DEF arch_context_switch, TypeOK, RingOK
  <2>3. \A d \in Cpus : d # c => /\ current[d] # current[c] /\ leaving[d] # current[c]
                                 /\ current[d] # leaving[c] /\ leaving[d] # leaving[c]
    BY <2>1 DEF IInv, DisjointOK, Holds
  <2>4. PhaseOK'
    <3>1. ASSUME NEW d \in Cpus, d # c
          PROVE  /\ phase'[d] = phase[d] /\ stack'[d] = stack[d]
                 /\ saved'[current[d]] = saved[current[d]]
                 /\ leaving[d] \in Threads => saved'[leaving[d]] = saved[leaving[d]]
      BY <1>5, <1>t, <2>3, <3>1 DEF arch_context_switch, TypeOK
    <3>2. phase'[c] = "arrived" /\ stack'[c] = current[c] /\ saved'[leaving[c]]
      BY <1>5, <1>t, <2>1 DEF arch_context_switch, TypeOK
    <3>3. current' = current /\ leaving' = leaving
      BY <1>5 DEF arch_context_switch
    <3> QED
      BY <2>1, <3>1, <3>2, <3>3 DEF IInv, PhaseOK
  <2>5. OffCpuOK' /\ DisjointOK' /\ AliveOK' /\ IdleOK'
    BY <1>5 DEF arch_context_switch, IInv, OffCpuOK, DisjointOK, AliveOK, IdleOK, Holds
  <2>6. SavedOK'
    BY <1>5, <1>t, <2>1 DEF arch_context_switch, IInv, SavedOK, TypeOK
  <2> QED
    BY <2>2, <2>4, <2>5, <2>6 DEF IInv
<1>6. ASSUME NEW c \in Cpus, release_leaving(c) PROVE IInv'
  <2> DEFINE gone == leaving[c]
  <2>1. /\ phase[c] = "arrived" /\ gone \in Threads /\ stack[c] = current[c]
        /\ saved[gone] /\ current[c] # gone /\ ~off_cpu[gone]
    BY <1>6 DEF release_leaving, IInv, PhaseOK, DisjointOK, OffCpuOK, Holds
  <2>2. /\ leaving' = [leaving EXCEPT ![c] = None]
        /\ state' = [state EXCEPT ![gone] = IF @ = "running" THEN "ready" ELSE @]
        /\ off_cpu' = [off_cpu EXCEPT ![gone] = TRUE]
        /\ phase' = [phase EXCEPT ![c] = "run"]
        /\ UNCHANGED <<current, stack, saved, idle_for, pinned_to, pc, semVars,
                       workVars, ring, panicked>>
    BY <1>6 DEF release_leaving
  <2>3. TypeOK' /\ RingOK'
    BY <1>t, <2>1, <2>2 DEF TypeOK, RingOK, States
  <2>4. \A d \in Cpus : current'[d] = current[d]
                       /\ leaving'[d] = IF d = c THEN None ELSE leaving[d]
    BY <1>t, <2>2 DEF TypeOK
  <2>5. \A d \in Cpus : \A t \in Threads :
           Holds(d, t)' <=> Holds(d, t) /\ ~(d = c /\ t = gone)
    BY <2>1, <2>4, ThreadFacts DEF Holds
  <2>6. PhaseOK'
    BY <1>t, <2>1, <2>2, <2>4 DEF IInv, PhaseOK, TypeOK
  <2>7. OffCpuOK'
    <3>1. \A t \in Threads : off_cpu'[t] <=> off_cpu[t] \/ t = gone
      BY <1>t, <2>1, <2>2 DEF TypeOK
    <3>2. Holds(c, gone) /\ \A d \in Cpus : Holds(d, gone) => d = c
      BY <2>1 DEF IInv, DisjointOK, Holds
    <3> QED
      BY <2>5, <3>1, <3>2 DEF IInv, OffCpuOK
  <2>8. DisjointOK'
    <3>1. \A d \in Cpus : current'[d] # leaving'[d]
      BY <1>t, <2>4, ThreadFacts DEF IInv, DisjointOK, TypeOK
    <3> QED
      BY <2>5, <3>1 DEF IInv, DisjointOK
  <2>9. \A t \in Threads : /\ state'[t] = "unused" <=> state[t] = "unused"
                           /\ state'[t] = "finished" <=> state[t] = "finished"
    BY <1>t, <2>1, <2>2 DEF TypeOK
  <2>10. SavedOK' /\ AliveOK'
    BY <1>t, <2>1, <2>2, <2>9 DEF IInv, SavedOK, AliveOK, TypeOK
  <2>11. IdleOK'
    BY <2>2, <2>5, ThreadFacts DEF IInv, IdleOK
  <2> QED
    BY <2>3, <2>6, <2>7, <2>8, <2>10, <2>11 DEF IInv
<1>7. ASSUME NEW c \in Cpus, FinishedRunsAgain(c) PROVE IInv'
  <2>1. TypeOK' /\ RingOK'
    BY <1>7, <1>t DEF FinishedRunsAgain, TypeOK, RingOK
  <2> QED
    BY <1>7, <2>1, Quiet DEF FinishedRunsAgain
<1>8. ASSUME NEW c \in Cpus, semaphore_take(c) PROVE IInv'
  <2>1. TakeOrSleep(current[c]) /\ current[c] \in Threads /\ state[current[c]] # "unused"
    BY <1>8, <1>c DEF semaphore_take
  <2>2. TypeOK' /\ RingOK'
    BY <1>8, <1>t, <2>1, TakeQuiet DEF semaphore_take, TypeOK, RingOK
  <2> QED
    BY <1>8, <1>t, <2>1, <2>2, TakeQuiet, Quiet DEF semaphore_take
<1>9. ASSUME NEW c \in Cpus, semaphore_give(c) PROVE IInv'
  <2>1. /\ state' \in [Threads -> States] /\ waiters' \in Seq(Threads)
        /\ \A u \in Threads : state'[u] # state[u]
                                => state'[u] = "ready" /\ state[u] = "blocked"
    <3>1. CASE waiters = <<>>
      BY <1>9, <1>t, <3>1 DEF semaphore_give, TypeOK
    <3>2. CASE waiters # <<>>
      <4>1. Head(waiters) \in Threads /\ Tail(waiters) \in Seq(Threads)
        BY <1>t, <3>2 DEF TypeOK
      <4> QED
        BY <1>9, <1>t, <3>2, <4>1, WakeQuiet DEF semaphore_give
    <3> QED
      BY <3>1, <3>2
  <2>2. TypeOK' /\ RingOK'
    BY <1>9, <1>t, <2>1, CountAssumption DEF semaphore_give, TypeOK, RingOK
  <2> QED
    BY <1>9, <2>1, <2>2, Quiet DEF semaphore_give
<1>10. ASSUME NEW c \in Cpus, ExitMark(c) PROVE IInv'
  <2>1. TypeOK' /\ RingOK'
    BY <1>10, <1>t, <1>c DEF ExitMark, TypeOK, RingOK, States, Places
  <2>2. \A u \in Threads : state'[u] # state[u] => /\ u \in Users
                                                    /\ state'[u] = "finished"
                                                    /\ state[u] # "unused"
    BY <1>10, <1>t, <1>c DEF ExitMark, TypeOK
  <2> QED
    BY <1>10, <2>1, <2>2, Quiet DEF ExitMark
<1>11. ASSUME NEW c \in Cpus, ExitSchedule(c) PROVE IInv'
  <2>1. /\ state' \in [Threads -> States]
        /\ \A u \in Threads : state'[u] # state[u]
                                => state'[u] = "ready" /\ state[u] = "blocked"
    BY <1>11, <1>t, WakeQuiet, ThreadFacts DEF ExitSchedule, TypeOK
  <2>2. work_waiting' \in BOOLEAN /\ reap_queued' \in BOOLEAN
    BY <1>11, <1>t DEF ExitSchedule, TypeOK
  <2>3. TypeOK' /\ RingOK'
    BY <1>11, <1>t, <1>c, <2>1, <2>2 DEF ExitSchedule, TypeOK, RingOK, Places
  <2> QED
    BY <1>11, <2>1, <2>3, Quiet DEF ExitSchedule
<1>12. ASSUME NEW c \in Cpus, worker_loop(c) PROVE IInv'
  <2>1. /\ state' \in [Threads -> States] /\ pc' \in [Threads -> Places]
        /\ \A u \in Threads : state'[u] # state[u]
                                => state'[u] = "blocked" /\ u = Worker
    <3>1. CASE reap_queued
      <4>1. state' = state /\ pc' = [pc EXCEPT ![Worker] = "reaping"]
        BY <1>12, <3>1 DEF worker_loop
      <4> QED
        BY <1>t, <4>1, ThreadFacts DEF TypeOK, Places
    <3>2. CASE ~reap_queued
      <4>1. /\ state' = [state EXCEPT ![Worker] = "blocked"]
            /\ pc' = [pc EXCEPT ![Worker] = "queued"]
        BY <1>12, <3>2 DEF worker_loop
      <4> QED
        BY <1>t, <4>1, ThreadFacts DEF TypeOK, States, Places
    <3> QED
      BY <3>1, <3>2
  <2>2. work_waiting' \in BOOLEAN /\ reap_queued' \in BOOLEAN
    BY <1>12, <1>t, Zenon DEF worker_loop, TypeOK
  <2>3. TypeOK' /\ RingOK'
    BY <1>12, <1>t, <2>1, <2>2 DEF worker_loop, TypeOK, RingOK
  <2>4. state[Worker] # "unused"
    BY ThreadFacts DEF IInv, AliveOK
  <2> QED
    BY <1>12, <2>1, <2>3, <2>4, Quiet DEF worker_loop
<1>13. ASSUME NEW c \in Cpus, NEW t \in Threads, ReapOne(c, t) PROVE IInv'
  <2>1. /\ InRing(t) /\ state[t] = "finished" /\ off_cpu[t] /\ t # Boot
        /\ ring' = ring_remove(t)
        /\ state' = [state EXCEPT ![t] = "unused"]
        /\ saved' = [saved EXCEPT ![t] = FALSE]
        /\ UNCHANGED <<cpuVars, off_cpu, idle_for, pinned_to, pc, semVars,
                       workVars, panicked>>
    BY <1>13 DEF ReapOne, Reapable
  <2>2. ring' \in Seq(Threads) /\ RingOK'
    BY <1>t, <2>1, RingRemove DEF TypeOK, RingOK
  <2>3. TypeOK'
    BY <1>t, <2>1, <2>2 DEF TypeOK, States
  <2>4. \A d \in Cpus : current[d] # t /\ leaving[d] # t
    BY <2>1 DEF IInv, OffCpuOK, Holds
  <2>5. PhaseOK'
    BY <1>t, <2>1, <2>4 DEF IInv, PhaseOK, TypeOK
  <2>6. OffCpuOK' /\ DisjointOK' /\ IdleOK'
    BY <2>1 DEF IInv, OffCpuOK, DisjointOK, IdleOK, Holds
  <2>7. t \in Users
    BY <2>1 DEF IInv, AliveOK
  <2>8. SavedOK' /\ AliveOK'
    BY <1>t, <2>1, <2>7 DEF IInv, SavedOK, AliveOK, TypeOK
  <2> QED
    BY <2>2, <2>3, <2>5, <2>6, <2>8 DEF IInv
<1>14. ASSUME NEW c \in Cpus, ReapDone(c) PROVE IInv'
  <2>1. TypeOK' /\ RingOK'
    BY <1>14, <1>t, <1>c DEF ReapDone, TypeOK, RingOK, Places
  <2> QED
    BY <1>14, <2>1, Quiet DEF ReapDone
<1> QED
  BY <1>0, <1>1, <1>2, <1>3, <1>4, <1>5, <1>6, <1>7, <1>8, <1>9, <1>10, <1>11,
     <1>12, <1>13, <1>14 DEF Next, Step

\* Every behaviour of the scheduler keeps the inductive invariant.
THEOREM Invariance == Spec => []IInv
<1>1. Init => IInv
  BY InitIInv
<1>2. IInv /\ [Next]_vars => IInv'
  BY NextIInv
<1> QED
  BY <1>1, <1>2, PTL DEF Spec

\* Every variable keeps its type, for any number of processors and threads;
\* in particular the semaphore's count never wraps and the ring never empties.
THEOREM TypeCorrect == Spec => []TypeOK
<1>1. IInv => TypeOK
  BY DEF IInv
<1> QED
  BY <1>1, Invariance, PTL

\* No two processors ever stand on one stack or run one thread (KF-159).
THEOREM NoSharedStack == Spec => []OneStackPerCpu
<1>1. IInv => OneStackPerCpu
  <2> SUFFICES ASSUME IInv, NEW c \in Cpus, NEW d \in Cpus, c # d
               PROVE  stack[c] # stack[d] /\ current[c] # current[d]
    BY DEF OneStackPerCpu
  <2>1. Holds(c, stack[c]) /\ Holds(d, stack[d]) /\ stack[c] \in Threads
    BY DEF IInv, TypeOK, PhaseOK, Holds
  <2>2. Holds(c, current[c]) /\ Holds(d, current[d]) /\ current[c] \in Threads
    BY DEF IInv, TypeOK, Holds
  <2> QED
    BY <2>1, <2>2 DEF IInv, DisjointOK
<1> QED
  BY <1>1, Invariance, PTL

\* A thread is only ever resumed from a stack pointer that has been written.
THEOREM ResumeSavedAlways == Spec => []ResumeSaved
<1>1. IInv => ResumeSaved
  BY DEF IInv, PhaseOK, ResumeSaved
<1> QED
  BY <1>1, Invariance, PTL

\* The reaper never frees the stack a processor stands on or is changing to.
THEOREM NothingFreedUnderfoot == Spec => []NoFreeUnderfoot
<1>1. IInv => NoFreeUnderfoot
  <2> SUFFICES ASSUME IInv, NEW c \in Cpus
               PROVE  state[stack[c]] # "unused" /\ state[current[c]] # "unused"
    BY DEF NoFreeUnderfoot
  <2>1. Holds(c, stack[c]) /\ stack[c] \in Threads /\ current[c] \in Threads
        /\ Holds(c, current[c])
    BY DEF IInv, TypeOK, PhaseOK, Holds
  <2>2. ~off_cpu[stack[c]] /\ ~off_cpu[current[c]]
    BY <2>1 DEF IInv, OffCpuOK
  <2> QED
    BY <2>1, <2>2 DEF IInv, AliveOK
<1> QED
  BY <1>1, Invariance, PTL
-----------------------------------------------------------------------------
(* Sleeping and waking.                                                    *)

Sleepy == {"queued", "waited", "c_queued", "c_waited"}

\* The threads on the semaphore's queue.
OnQueue == {waiters[i] : i \in 1..Len(waiters)}

\* A thread is on the queue once, blocked, and in wait_sleep.
QueueOK ==
    /\ \A i, j \in 1..Len(waiters) : waiters[i] = waiters[j] => i = j
    /\ \A t \in OnQueue : /\ t # Worker /\ state[t] = "blocked"
                          /\ pc[t] \in Sleepy /\ idle_for[t] = None

\* A processor's own thread is blocked only on its way to the switch.
RunningOK ==
    \A c \in Cpus : state[current[c]] = "blocked" => pc[current[c]] \in {"queued", "c_queued"}

\* Nobody who has finished sleeps, and only the worker reaps.
PlacesOK ==
    \A t \in Threads :
        /\ state[t] \in {"unused", "finished"} => pc[t] \notin Sleepy
        /\ pc[t] = "reaping" => t = Worker

SleepInv ==
    /\ QueueOK
    /\ RunningOK
    /\ PlacesOK
    /\ BlockedIsQueued
    /\ NoLostWakeup

\* The properties, in terms of the set of threads that are queued.
LEMMA QueueSet ==
    /\ TypeOK => OnQueue \subseteq Threads
    /\ BlockedIsQueued <=> \A t \in Threads : state[t] = "blocked" =>
                             IF t = Worker THEN work_waiting ELSE t \in OnQueue
    /\ Woken = {t \in Threads \ {Worker} : pc[t] \in Sleepy /\ t \notin OnQueue}
    /\ TypeOK => (waiters = <<>> <=> OnQueue = {})
    /\ IsFiniteSet(Woken) /\ Cardinality(Woken) \in Nat
<1>1. TypeOK => OnQueue \subseteq Threads
  BY DEF TypeOK, OnQueue
<1>2. \A t : (\E i \in 1..Len(waiters) : waiters[i] = t) <=> t \in OnQueue
  BY DEF OnQueue
<1>3. Woken = {t \in Threads \ {Worker} : pc[t] \in Sleepy /\ t \notin OnQueue}
  BY <1>2 DEF Woken, Sleepy
<1>4. ASSUME TypeOK PROVE waiters = <<>> <=> OnQueue = {}
  <2>1. CASE waiters = <<>>
    BY <2>1 DEF OnQueue
  <2>2. CASE waiters # <<>>
    <3>1. 1 \in 1..Len(waiters)
      BY <1>4, <2>2 DEF TypeOK
    <3> QED
      BY <2>2, <3>1 DEF OnQueue
  <2> QED
    BY <2>1, <2>2
<1>5. IsFiniteSet(Woken) /\ Cardinality(Woken) \in Nat
  BY <1>3, FiniteAssumption, FS_Subset, FS_CardinalityType
<1> QED
  BY <1>1, <1>2, <1>3, <1>4, <1>5 DEF BlockedIsQueued

\* A larger set of woken threads covers what the smaller one did.
LEMMA MoreWoken ==
    ASSUME NEW A, NEW B, A \subseteq B, B \subseteq Threads
    PROVE  Cardinality(A) <= Cardinality(B) /\ Cardinality(A) \in Nat /\ Cardinality(B) \in Nat
<1>1. IsFiniteSet(B)
  BY FiniteAssumption, FS_Subset
<1> QED
  BY <1>1, FS_Subset, FS_CardinalityType

LEMMA SleepInit == Init => SleepInv
<1> SUFFICES ASSUME Init PROVE SleepInv
  OBVIOUS
<1>1. waiters = <<>> /\ \A t \in Threads : pc[t] = "run" /\ state[t] # "blocked"
  BY DEF Init
<1>2. OnQueue = {}
  BY <1>1 DEF OnQueue
<1>3. \A c \in Cpus : current[c] \in Threads
  BY AdoptedFacts DEF Init
<1>4. QueueOK
  BY <1>1, <1>2 DEF QueueOK
<1> QED
  BY <1>1, <1>3, <1>4 DEF SleepInv, RunningOK, PlacesOK, BlockedIsQueued, NoLostWakeup, Sleepy

\* A step that leaves the queue and the count alone.
LEMMA QueueStays ==
    ASSUME IInv, IInv', SleepInv, waiters' = waiters, count' = count,
           \A t \in OnQueue : state'[t] = state[t] /\ pc'[t] \in Sleepy /\ idle_for'[t] = None,
           \A t \in Threads \ {Worker} : pc[t] \in Sleepy => pc'[t] \in Sleepy,
           \A t \in Threads \ {Worker} : state'[t] = "blocked" => state[t] = "blocked",
           state'[Worker] = "blocked" => work_waiting',
           RunningOK', PlacesOK'
    PROVE  SleepInv'
<1>1. OnQueue' = OnQueue
  BY DEF OnQueue
<1>2. QueueOK'
  BY <1>1 DEF SleepInv, QueueOK
<1>3. BlockedIsQueued'
  <2>1. \A t \in Threads : state[t] = "blocked" => IF t = Worker THEN work_waiting ELSE t \in OnQueue
    BY QueueSet DEF SleepInv
  <2>2. \A t \in Threads : state'[t] = "blocked" => IF t = Worker THEN work_waiting' ELSE t \in OnQueue
    BY <2>1
  <2> QED
    BY <2>2 DEF BlockedIsQueued, OnQueue
<1>4. NoLostWakeup'
  <2>1. Woken = {t \in Threads \ {Worker} : pc[t] \in Sleepy /\ t \notin OnQueue}
    BY QueueSet
  <2>2. Woken' = {t \in Threads \ {Worker} : pc'[t] \in Sleepy /\ t \notin OnQueue}
    BY DEF Woken, Sleepy, OnQueue
  <2>3. Woken \subseteq Woken' /\ Woken' \subseteq Threads
    BY <2>1, <2>2
  <2>4. Cardinality(Woken) <= Cardinality(Woken') /\ Cardinality(Woken) \in Nat
        /\ Cardinality(Woken') \in Nat
    BY <2>3, MoreWoken
  <2>5. count \in Nat
    BY DEF IInv, TypeOK
  <2> QED
    BY <2>4, <2>5 DEF SleepInv, NoLostWakeup
<1> QED
  BY <1>2, <1>3, <1>4 DEF SleepInv

\* Where the thread of a processor stands it is not on the queue, except on
\* its way to the switch.
LEMMA NotQueued ==
    ASSUME IInv, SleepInv, NEW c \in Cpus, pc[current[c]] \notin {"queued", "c_queued"}
    PROVE  /\ current[c] \in Threads /\ current[c] \notin OnQueue
           /\ state[current[c]] \notin {"blocked", "unused"}
           /\ \A d \in Cpus : current[d] = current[c] => d = c
<1>1. current[c] \in Threads /\ state[current[c]] # "blocked"
  BY DEF IInv, TypeOK, SleepInv, RunningOK
<1>2. state[current[c]] # "unused"
  BY <1>1 DEF IInv, OffCpuOK, AliveOK, Holds
<1>3. \A d \in Cpus : current[d] = current[c] => d = c
  BY <1>1 DEF IInv, DisjointOK, Holds
<1> QED
  BY <1>1, <1>2, <1>3 DEF SleepInv, QueueOK

\* semaphore_take, once on entry and once more after each wake.
LEMMA TakeSleeps ==
    ASSUME IInv, IInv', SleepInv, NEW c \in Cpus, semaphore_take(c)
    PROVE  SleepInv'
<1> DEFINE t == current[c]
<1>1. /\ t # Worker /\ pc[t] \in {"run", "ended", "waited", "c_waited"} /\ TakeOrSleep(t)
      /\ UNCHANGED <<current, idle_for, work_waiting>>
  BY DEF semaphore_take, MayTake, At, cpuVars, workVars
<1>2. /\ t \in Threads /\ t \notin OnQueue /\ state[t] \notin {"blocked", "unused"}
      /\ \A d \in Cpus : current[d] = t => d = c
  BY <1>1, NotQueued
<1>3. /\ state \in [Threads -> States] /\ pc \in [Threads -> Places] /\ waiters \in Seq(Threads)
      /\ count \in Nat /\ OnQueue \subseteq Threads /\ current \in [Cpus -> Threads]
  BY QueueSet DEF IInv, TypeOK
<1>4. CASE count > 0
  <2>1. /\ count' = count - 1 /\ pc' = [pc EXCEPT ![t] = Served(pc[t])]
        /\ waiters' = waiters /\ state' = state
    BY <1>1, <1>4 DEF TakeOrSleep
  <2>2. Served(pc[t]) \in {"run", "ended"}
    BY DEF Served
  <2> DEFINE p == Served(pc[t])
  <2> HIDE DEF t, p
  <2>3. pc'[t] \in {"run", "ended"} /\ \A u \in Threads : u # t => pc'[u] = pc[u]
    BY <1>2, <1>3, <2>1, <2>2 DEF p
  <2>4. OnQueue' = OnQueue
    BY <2>1 DEF OnQueue
  <2>5. QueueOK'
    BY <1>1, <1>2, <1>3, <2>1, <2>3, <2>4 DEF SleepInv, QueueOK
  <2>6. RunningOK'
    BY <1>1, <1>2, <1>3, <2>1, <2>3 DEF SleepInv, RunningOK
  <2>7. PlacesOK'
    BY <1>2, <2>1, <2>3 DEF SleepInv, PlacesOK, Sleepy
  <2>8. BlockedIsQueued'
    BY <1>1, <2>1 DEF SleepInv, BlockedIsQueued
  <2>9. NoLostWakeup'
    <3>1. Woken = {u \in Threads \ {Worker} : pc[u] \in Sleepy /\ u \notin OnQueue}
      BY QueueSet
    <3>2. Woken' = {u \in Threads \ {Worker} : pc'[u] \in Sleepy /\ u \notin OnQueue'}
      BY DEF Woken, Sleepy, OnQueue
    <3>3. Woken \ {t} \subseteq Woken' /\ Woken' \subseteq Threads
      BY <2>3, <2>4, <3>1, <3>2
    <3>4. Cardinality(Woken \ {t}) <= Cardinality(Woken') /\ Cardinality(Woken \ {t}) \in Nat
          /\ Cardinality(Woken') \in Nat
      BY <3>3, MoreWoken
    <3>5. Cardinality(Woken) - 1 <= Cardinality(Woken \ {t}) /\ Cardinality(Woken) \in Nat
      <4>0. IsFiniteSet(Woken) /\ Cardinality(Woken) \in Nat
        BY QueueSet
      <4>1. CASE t \in Woken
        <5>1. Cardinality(Woken \ {t}) = Cardinality(Woken) - 1
          BY <4>0, <4>1, FS_RemoveElement
        <5> QED
          BY <4>0, <5>1
      <4>2. CASE t \notin Woken
        <5>1. Woken \ {t} = Woken
          BY <4>2
        <5> QED
          BY <4>0, <5>1
      <4> QED
        BY <4>1, <4>2
    <3>6. waiters # <<>> => count <= Cardinality(Woken)
      BY DEF SleepInv, NoLostWakeup
    <3>7. waiters' # <<>> => count' <= Cardinality(Woken')
      BY <1>3, <2>1, <3>4, <3>5, <3>6
    <3> QED
      BY <3>7 DEF NoLostWakeup
  <2> QED
    BY <2>5, <2>6, <2>7, <2>8, <2>9 DEF SleepInv
<1>5. CASE count = 0
  <2>1. /\ waiters' = Append(waiters, t) /\ count' = count /\ idle_for[t] = None
        /\ state' = [state EXCEPT ![t] = "blocked"]
        /\ pc' = [pc EXCEPT ![t] = Sleeping(pc[t])]
    BY <1>1, <1>5 DEF TakeOrSleep
  <2>2. Sleeping(pc[t]) \in {"queued", "c_queued"}
    BY DEF Sleeping
  <2> DEFINE p == Sleeping(pc[t])
  <2> HIDE DEF t, p
  <2>3. /\ pc'[t] \in {"queued", "c_queued"} /\ \A u \in Threads : u # t => pc'[u] = pc[u]
        /\ state'[t] = "blocked" /\ \A u \in Threads : u # t => state'[u] = state[u]
    BY <1>2, <1>3, <2>1, <2>2 DEF p
  <2>4. /\ Len(waiters') = Len(waiters) + 1 /\ Len(waiters) \in Nat
        /\ \A i \in 1..Len(waiters) : waiters'[i] = waiters[i]
        /\ waiters'[Len(waiters) + 1] = t
    BY <1>2, <1>3, <2>1
  <2>5. OnQueue' = OnQueue \cup {t}
    <3>1. OnQueue' \subseteq OnQueue \cup {t}
      BY <2>4 DEF OnQueue
    <3>2. OnQueue \subseteq OnQueue'
      BY <2>4 DEF OnQueue
    <3>3. t \in OnQueue'
      BY <2>4 DEF OnQueue
    <3> QED
      BY <3>1, <3>2, <3>3
  <2>6. QueueOK'
    <3>1. \A i, j \in 1..Len(waiters') : waiters'[i] = waiters'[j] => i = j
      <4>1. \A i \in 1..Len(waiters) : waiters[i] # t
        BY <1>2 DEF OnQueue
      <4>2. \A i, j \in 1..Len(waiters) : waiters[i] = waiters[j] => i = j
        BY DEF SleepInv, QueueOK
      <4> QED
        BY <2>4, <4>1, <4>2
    <3>2. ASSUME NEW u \in OnQueue'
          PROVE  /\ u # Worker /\ state'[u] = "blocked" /\ pc'[u] \in Sleepy /\ idle_for'[u] = None
      <4>1. CASE u = t
        BY <1>1, <2>1, <2>3, <4>1 DEF Sleepy
      <4>2. CASE u # t
        BY <1>1, <1>3, <2>3, <2>5, <4>2 DEF SleepInv, QueueOK
      <4> QED
        BY <4>1, <4>2
    <3> QED
      BY <3>1, <3>2 DEF QueueOK
  <2>7. RunningOK'
    BY <1>1, <1>2, <1>3, <2>3 DEF SleepInv, RunningOK
  <2>8. PlacesOK'
    BY <1>2, <2>3 DEF SleepInv, PlacesOK, Sleepy
  <2>9. BlockedIsQueued'
    <3>1. \A u \in Threads : state[u] = "blocked" =>
            IF u = Worker THEN work_waiting ELSE u \in OnQueue
      BY QueueSet DEF SleepInv
    <3>2. \A u \in Threads : state'[u] = "blocked" =>
            IF u = Worker THEN work_waiting' ELSE u \in OnQueue'
      BY <1>1, <2>3, <2>5, <3>1
    <3> QED
      BY <3>2 DEF BlockedIsQueued, OnQueue
  <2>10. NoLostWakeup'
    <3>1. Woken' \subseteq Threads
      BY DEF Woken
    <3>2. Cardinality(Woken') \in Nat
      BY <3>1, MoreWoken
    <3> QED
      BY <1>5, <2>1, <3>2 DEF NoLostWakeup
  <2> QED
    BY <2>6, <2>7, <2>8, <2>9, <2>10 DEF SleepInv
<1> QED
  BY <1>3, <1>4, <1>5

\* semaphore_give: whoever is taken off the queue is on its way.
LEMMA GiveSleeps ==
    ASSUME IInv, IInv', SleepInv, NEW c \in Cpus, semaphore_give(c)
    PROVE  SleepInv'
<1>1. /\ count' = count + 1 /\ UNCHANGED <<current, pc, idle_for, work_waiting>>
      /\ IF waiters = <<>> THEN waiters' = waiters /\ state' = state
         ELSE waiters' = Tail(waiters) /\ state' = wake(Head(waiters))
  BY DEF semaphore_give, cpuVars, workVars
<1>2. /\ state \in [Threads -> States] /\ waiters \in Seq(Threads) /\ count \in Nat
      /\ OnQueue \subseteq Threads /\ current \in [Cpus -> Threads] /\ TypeOK
  BY QueueSet DEF IInv, TypeOK
<1>3. CASE waiters = <<>>
  <2>1. OnQueue' = OnQueue
    BY <1>1, <1>3 DEF OnQueue
  <2>2. QueueOK' /\ RunningOK' /\ PlacesOK' /\ BlockedIsQueued'
    BY <1>1, <1>3, <2>1 DEF SleepInv, QueueOK, RunningOK, PlacesOK, BlockedIsQueued
  <2>3. NoLostWakeup'
    BY <1>1, <1>3 DEF NoLostWakeup
  <2> QED
    BY <2>2, <2>3 DEF SleepInv
<1>4. CASE waiters # <<>>
  <2> DEFINE h == Head(waiters)
  <2>1. /\ waiters' = Tail(waiters) /\ state' = wake(h)
    BY <1>1, <1>4
  <2>2. /\ h = waiters[1] /\ h \in OnQueue /\ Len(waiters) \in Nat /\ Len(waiters) >= 1
        /\ Len(waiters') = Len(waiters) - 1
        /\ \A i \in 1..Len(waiters') : waiters'[i] = waiters[i + 1]
    <3>1. h = waiters[1] /\ Len(waiters) \in Nat /\ Len(waiters) >= 1
      BY <1>2, <1>4
    <3>2. Len(waiters') = Len(waiters) - 1 /\ \A i \in 1..Len(waiters') : waiters'[i] = waiters[i + 1]
      BY <1>2, <1>4, <2>1
    <3>3. h \in OnQueue
      BY <3>1 DEF OnQueue
    <3> QED
      BY <3>1, <3>2, <3>3
  <2> HIDE DEF h
  <2>3. \A i, j \in 1..Len(waiters) : waiters[i] = waiters[j] => i = j
    BY DEF SleepInv, QueueOK
  <2>4. OnQueue' = OnQueue \ {h}
    <3>1. OnQueue' = {waiters[i + 1] : i \in 1..(Len(waiters) - 1)}
      BY <2>2 DEF OnQueue
    <3>2. ASSUME NEW u \in OnQueue' PROVE u \in OnQueue /\ u # h
      <4>1. PICK i \in 1..(Len(waiters) - 1) : u = waiters[i + 1]
        BY <3>1
      <4>2. i + 1 \in 1..Len(waiters) /\ 1 \in 1..Len(waiters) /\ i + 1 # 1
        BY <2>2, <4>1
      <4> QED
        BY <2>2, <2>3, <4>1, <4>2 DEF OnQueue
    <3>3. ASSUME NEW u \in OnQueue, u # h PROVE u \in OnQueue'
      <4>1. PICK i \in 1..Len(waiters) : u = waiters[i]
        BY DEF OnQueue
      <4>2. i # 1 /\ i - 1 \in 1..(Len(waiters) - 1) /\ (i - 1) + 1 = i
        BY <2>2, <3>3, <4>1
      <4>3. waiters[(i - 1) + 1] \in OnQueue'
        BY <3>1, <4>2
      <4> QED
        BY <4>1, <4>2, <4>3
    <3> QED
      BY <3>2, <3>3
  <2>5. h \in Threads /\ h # Worker /\ state[h] = "blocked" /\ pc[h] \in Sleepy
    BY <1>2, <2>2 DEF SleepInv, QueueOK
  <2>6. state'[h] = "ready" /\ \A u \in Threads : u # h => state'[u] = state[u]
    BY <1>2, <2>1, <2>5 DEF wake
  <2>7. QueueOK'
    <3>1. \A i, j \in 1..Len(waiters') : waiters'[i] = waiters'[j] => i = j
      <4>1. ASSUME NEW i \in 1..Len(waiters'), NEW j \in 1..Len(waiters'), waiters'[i] = waiters'[j]
            PROVE  i = j
        <5>1. i + 1 \in 1..Len(waiters) /\ j + 1 \in 1..Len(waiters) /\ i \in Nat /\ j \in Nat
          BY <2>2, <4>1
        <5>2. i + 1 = j + 1
          BY <2>2, <2>3, <4>1, <5>1
        <5> QED
          BY <5>1, <5>2
      <4> QED
        BY <4>1
    <3>2. \A u \in OnQueue' : u # Worker /\ state'[u] = "blocked" /\ pc'[u] \in Sleepy /\ idle_for'[u] = None
      BY <1>1, <1>2, <2>4, <2>6 DEF SleepInv, QueueOK
    <3> QED
      BY <3>1, <3>2 DEF QueueOK
  <2>8. RunningOK' /\ PlacesOK'
    BY <1>1, <1>2, <2>5, <2>6 DEF SleepInv, RunningOK, PlacesOK
  <2>9. BlockedIsQueued'
    <3>1. \A u \in Threads : state[u] = "blocked" =>
            IF u = Worker THEN work_waiting ELSE u \in OnQueue
      BY QueueSet DEF SleepInv
    <3>2. \A u \in Threads : state'[u] = "blocked" =>
            IF u = Worker THEN work_waiting' ELSE u \in OnQueue'
      BY <1>1, <2>4, <2>5, <2>6, <3>1
    <3> QED
      BY <3>2 DEF BlockedIsQueued, OnQueue
  <2>10. NoLostWakeup'
    <3>1. Woken = {u \in Threads \ {Worker} : pc[u] \in Sleepy /\ u \notin OnQueue}
      BY QueueSet
    <3>2. Woken' = {u \in Threads \ {Worker} : pc'[u] \in Sleepy /\ u \notin OnQueue'}
      BY DEF Woken, Sleepy, OnQueue
    <3>3. Woken' = Woken \cup {h} /\ h \notin Woken
      BY <1>1, <2>2, <2>4, <2>5, <3>1, <3>2
    <3>4. Cardinality(Woken') = Cardinality(Woken) + 1 /\ Cardinality(Woken) \in Nat
      BY <3>3, QueueSet, FS_AddElement
    <3>5. count <= Cardinality(Woken)
      BY <1>4 DEF SleepInv, NoLostWakeup
    <3>6. count' <= Cardinality(Woken')
      BY <1>1, <1>2, <3>4, <3>5
    <3> QED
      BY <3>6 DEF NoLostWakeup
  <2> QED
    BY <2>7, <2>8, <2>9, <2>10 DEF SleepInv
<1> QED
  BY <1>3, <1>4

\* A switch moves a queued thread on to where it will wake, and takes no
\* thread that is queued.
LEMMA SwitchSleeps ==
    ASSUME IInv, IInv', SleepInv, NEW c \in Cpus, sched_switch(c)
    PROVE  SleepInv'
<1> DEFINE prev == current[c]
<1>1. PICK next \in pick_next(current[c], c) :
        \/ next = current[c] /\ KeepsCpu(c, next)
        \/ next # current[c] /\ SwitchTo(c, current[c], next)
  BY DEF sched_switch
<1>2. /\ phase[c] = "run" /\ prev \in Threads /\ \A d \in Cpus : current[d] = prev => d = c
      /\ \A d \in Cpus : current[d] \in Threads
  BY DEF sched_switch, EntersSwitch, IInv, TypeOK, DisjointOK, Holds
<1>3. /\ state \in [Threads -> States] /\ pc \in [Threads -> Places]
      /\ current \in [Cpus -> Threads] /\ OnQueue \subseteq Threads
  BY QueueSet DEF IInv, TypeOK
<1>4. \A t \in OnQueue : t # Worker /\ state[t] = "blocked" /\ pc[t] \in Sleepy /\ idle_for[t] = None
  BY DEF SleepInv, QueueOK
<1>5. \A t \in Threads : /\ state[t] \in {"unused", "finished"} => pc[t] \notin Sleepy
                         /\ pc[t] = "reaping" => t = Worker
  BY DEF SleepInv, PlacesOK
<1>6. state[Worker] = "blocked" => work_waiting
  BY ThreadFacts DEF SleepInv, BlockedIsQueued
<1>7. CASE next = prev /\ KeepsCpu(c, next)
  <2>1. /\ pc[prev] = "scheduled" /\ pc' = [pc EXCEPT ![prev] = "gone"]
        /\ UNCHANGED <<current, state, idle_for, waiters, count, work_waiting>>
    BY <1>7 DEF KeepsCpu, cpuVars, semVars, workVars
  <2> HIDE DEF prev
  <2>2. pc'[prev] = "gone" /\ \A t \in Threads : t # prev => pc'[t] = pc[t]
    BY <1>2, <1>3, <2>1
  <2>3. \A t \in Threads : pc[t] \in Sleepy => pc'[t] \in Sleepy
    BY <2>1, <2>2 DEF Sleepy
  <2>4. RunningOK'
    BY <1>2, <2>1, <2>2 DEF SleepInv, RunningOK
  <2>5. PlacesOK'
    BY <1>5, <2>1, <2>2 DEF PlacesOK, Sleepy
  <2> QED
    BY <1>3, <1>4, <1>6, <2>1, <2>3, <2>4, <2>5, QueueStays
<1>8. CASE next # prev /\ SwitchTo(c, prev, next)
  <2>1. /\ state' = [state EXCEPT ![next] = "running"]
        /\ current' = [current EXCEPT ![c] = next]
        /\ UNCHANGED <<idle_for, waiters, count, work_waiting>>
    BY <1>8 DEF SwitchTo, semVars, workVars
  <2>2. PICK p \in PlaceAfterSwitch(pc[prev]) : pc' = [pc EXCEPT ![prev] = p]
    BY <1>8 DEF SwitchTo
  <2>3. /\ pc[prev] \in Sleepy => p \in Sleepy
        /\ pc[prev] \notin Sleepy => p \notin Sleepy
        /\ p = "reaping" => pc[prev] = "reaping"
    <3>1. pc[prev] \in {"queued", "c_queued"} \cup Interruptible
      BY DEF sched_switch, EntersSwitch
    <3> QED
      BY <3>1 DEF PlaceAfterSwitch, Sleepy, Interruptible
  <2>4. /\ next \in Threads /\ off_cpu[next] /\ state[next] # "unused"
    BY <1>2, <1>8, PickNext
  <2>5. next \notin OnQueue
    <3> DEFINE cand == {t \in Threads \ {current[c]} : InRing(t) /\ Takeable(c, t)}
               work == {t \in cand : idle_for[t] = None}
    <3>1. next \in cand \/ next = IdleOf[c]
      BY <1>8 DEF pick_next, Nearest
    <3>2. CASE next \in cand
      BY <1>4, <3>2 DEF Takeable
    <3>3. CASE next = IdleOf[c]
      BY <1>4, <3>3, ThreadFacts DEF IInv, IdleOK
    <3> QED
      BY <3>1, <3>2, <3>3
  <2>6. pc[next] \notin Sleepy \/ next # prev
    BY <1>8
  <2> HIDE DEF prev
  <2>7. /\ pc'[prev] = p /\ \A t \in Threads : t # prev => pc'[t] = pc[t]
        /\ state'[next] = "running" /\ \A t \in Threads : t # next => state'[t] = state[t]
        /\ current'[c] = next /\ \A d \in Cpus : d # c => current'[d] = current[d]
    BY <1>2, <1>3, <2>1, <2>2, <2>4
  <2>8. RunningOK'
    <3>1. \A d \in Cpus : d # c => current[d] # next /\ current[d] # prev
      BY <1>2, <2>4 DEF IInv, OffCpuOK, Holds
    <3>2. ASSUME NEW d \in Cpus, state'[current'[d]] = "blocked"
          PROVE  pc'[current'[d]] \in {"queued", "c_queued"}
      <4>1. CASE d = c
        BY <2>7, <3>2, <4>1
      <4>2. CASE d # c
        BY <1>2, <2>7, <3>1, <3>2, <4>2 DEF SleepInv, RunningOK
      <4> QED
        BY <4>1, <4>2
    <3> QED
      BY <3>2 DEF RunningOK
  <2>9. PlacesOK'
    <3>1. ASSUME NEW t \in Threads
          PROVE  /\ state'[t] \in {"unused", "finished"} => pc'[t] \notin Sleepy
                 /\ pc'[t] = "reaping" => t = Worker
      BY <1>5, <2>3, <2>7
    <3> QED
      BY <3>1 DEF PlacesOK
  <2>10. \A t \in OnQueue : state'[t] = state[t] /\ pc'[t] \in Sleepy /\ idle_for'[t] = None
    BY <1>3, <1>4, <2>1, <2>3, <2>5, <2>7
  <2>11. \A t \in Threads : pc[t] \in Sleepy => pc'[t] \in Sleepy
    BY <2>3, <2>7
  <2>12. \A t \in Threads : state'[t] = "blocked" => state[t] = "blocked"
    BY <2>7
  <2>13. state'[Worker] = "blocked" => work_waiting'
    BY <1>6, <2>1, <2>12, ThreadFacts
  <2> QED
    BY <2>1, <2>8, <2>9, <2>10, <2>11, <2>12, <2>13, QueueStays
<1> QED
  BY <1>1, <1>7, <1>8

\* A step that changes the place and the state of one thread, which is not
\* asleep, and touches no queue.
LEMMA OneThread ==
    ASSUME IInv, IInv', SleepInv, NEW u \in Threads, u \notin OnQueue,
           pc[u] \in Sleepy => u = Worker \/ pc'[u] = pc[u],
           \A t \in Threads : t # u => pc'[t] = pc[t] /\ state'[t] = state[t] /\ idle_for'[t] = idle_for[t],
           waiters' = waiters, count' = count, current' = current,
           state'[u] = "blocked" => (state[u] = "blocked" \/ u = Worker),
           state'[Worker] = "blocked" => work_waiting',
           \A c \in Cpus : current[c] = u /\ state'[u] = "blocked" => pc'[u] \in {"queued", "c_queued"},
           state'[u] \in {"unused", "finished"} => pc'[u] \notin Sleepy,
           pc'[u] = "reaping" => u = Worker
    PROVE  SleepInv'
<1>1. /\ OnQueue \subseteq Threads /\ \A c \in Cpus : current[c] \in Threads
  BY QueueSet DEF IInv, TypeOK
<1>2. \A t \in OnQueue : t # Worker /\ state[t] = "blocked" /\ pc[t] \in Sleepy /\ idle_for[t] = None
  BY DEF SleepInv, QueueOK
<1>3. RunningOK'
  BY <1>1 DEF SleepInv, RunningOK
<1>4. PlacesOK'
  BY DEF SleepInv, PlacesOK
<1>5. \A t \in OnQueue : state'[t] = state[t] /\ pc'[t] \in Sleepy /\ idle_for'[t] = None
  BY <1>1, <1>2
<1>6. \A t \in Threads \ {Worker} : pc[t] \in Sleepy => pc'[t] \in Sleepy
  OBVIOUS
<1>7. \A t \in Threads \ {Worker} : state'[t] = "blocked" => state[t] = "blocked"
  OBVIOUS
<1> QED
  BY <1>3, <1>4, <1>5, <1>6, <1>7, QueueStays


\* Every step keeps what is known of sleepers.
LEMMA NextSleep == IInv /\ IInv' /\ SleepInv /\ [Next]_vars => SleepInv'
<1> SUFFICES ASSUME IInv, IInv', SleepInv, [Next]_vars PROVE SleepInv'
  OBVIOUS
<1> USE DEF cpuVars, threadVars, semVars, workVars
<1>t. /\ state \in [Threads -> States] /\ pc \in [Threads -> Places]
      /\ idle_for \in [Threads -> Cpus \cup {None}]
      /\ \A c \in Cpus : current[c] \in Threads
      /\ OnQueue \subseteq Threads
  BY QueueSet DEF IInv, TypeOK
<1>q. \A t \in OnQueue : t # Worker /\ state[t] = "blocked" /\ pc[t] \in Sleepy /\ idle_for[t] = None
  BY DEF SleepInv, QueueOK
<1>p. \A t \in Threads : /\ state[t] \in {"unused", "finished"} => pc[t] \notin Sleepy
                         /\ pc[t] = "reaping" => t = Worker
  BY DEF SleepInv, PlacesOK
<1>w. Worker \in Threads /\ Worker \notin OnQueue /\ (state[Worker] = "blocked" => work_waiting)
  BY <1>q, ThreadFacts DEF SleepInv, BlockedIsQueued
<1>u. Users \subseteq Threads
  BY DEF Threads
<1>0. ASSUME UNCHANGED <<state, pc, idle_for, current, waiters, count, work_waiting>>
      PROVE  SleepInv'
  <2>1. RunningOK' /\ PlacesOK'
    BY <1>0 DEF SleepInv, RunningOK, PlacesOK
  <2> QED
    BY <1>0, <1>q, <1>w, <2>1, QueueStays
<1>1. ASSUME NEW c \in Cpus, NEW t \in Users, thread_create_stopped(c, t) PROVE SleepInv'
  <2>1. t \in Threads /\ state[t] = "unused" /\ t \notin OnQueue /\ pc[t] \notin Sleepy
        /\ t # Worker
    BY <1>1, <1>q, <1>p, <1>u, ThreadFacts DEF thread_create_stopped
  <2>2. /\ pc'[t] = "run" /\ state'[t] = "ready"
        /\ \A v \in Threads : v # t => pc'[v] = pc[v] /\ state'[v] = state[v]
                                       /\ idle_for'[v] = idle_for[v]
        /\ UNCHANGED <<current, waiters, count, work_waiting>>
    BY <1>1, <1>t, <2>1 DEF thread_create_stopped
  <2> QED
    BY <1>w, <2>1, <2>2, OneThread DEF Sleepy
<1>2. ASSUME NEW c \in Cpus, NEW t \in Users, thread_start(c, t) PROVE SleepInv'
  BY <1>0, <1>2 DEF thread_start
<1>3. ASSUME NEW c \in Cpus, sched_this_thread_is_now_idle(c) PROVE SleepInv'
  <2>1. Boot \in Threads /\ Boot # Worker /\ Boot \notin OnQueue /\ pc[Boot] = "run"
    BY <1>3, <1>q, ThreadFacts DEF sched_this_thread_is_now_idle, At, Sleepy
  <2>2. /\ \A v \in Threads : v # Boot => idle_for'[v] = idle_for[v]
        /\ UNCHANGED <<state, pc, current, waiters, count, work_waiting>>
    BY <1>3, <1>t, <2>1 DEF sched_this_thread_is_now_idle
  <2>3. \A d \in Cpus : current[d] = Boot /\ state[Boot] = "blocked" => pc[Boot] \in {"queued", "c_queued"}
    BY DEF SleepInv, RunningOK
  <2> QED
    BY <1>w, <1>p, <2>1, <2>2, <2>3, OneThread DEF Sleepy
<1>4. ASSUME NEW c \in Cpus, sched_switch(c) PROVE SleepInv'
  BY <1>4, SwitchSleeps
<1>5. ASSUME NEW c \in Cpus, arch_context_switch(c) PROVE SleepInv'
  BY <1>0, <1>5 DEF arch_context_switch
<1>6. ASSUME NEW c \in Cpus, release_leaving(c) PROVE SleepInv'
  <2> DEFINE gone == leaving[c]
  <2>1. gone \in Threads
    BY <1>6 DEF release_leaving, IInv, PhaseOK
  <2>2. /\ \A v \in Threads : v # gone => state'[v] = state[v]
        /\ state'[gone] = IF state[gone] = "running" THEN "ready" ELSE state[gone]
        /\ UNCHANGED <<pc, idle_for, current, waiters, count, work_waiting>>
    BY <1>6, <1>t, <2>1 DEF release_leaving
  <2> HIDE DEF gone
  <2>3. \A v \in Threads : /\ state'[v] = "blocked" <=> state[v] = "blocked"
                           /\ state'[v] \in {"unused", "finished"} =>
                                state[v] \in {"unused", "finished"}
    BY <2>2
  <2>4. RunningOK' /\ PlacesOK'
    BY <1>t, <2>2, <2>3 DEF SleepInv, RunningOK, PlacesOK
  <2>5. \A v \in OnQueue : state'[v] = state[v]
    BY <1>t, <1>q, <2>2
  <2> QED
    BY <1>q, <1>w, <2>2, <2>3, <2>4, <2>5, QueueStays
<1>7. ASSUME NEW c \in Cpus, FinishedRunsAgain(c) PROVE SleepInv'
  BY <1>0, <1>7 DEF FinishedRunsAgain
<1>8. ASSUME NEW c \in Cpus, semaphore_take(c) PROVE SleepInv'
  BY <1>8, TakeSleeps
<1>9. ASSUME NEW c \in Cpus, semaphore_give(c) PROVE SleepInv'
  BY <1>9, GiveSleeps
<1>10. ASSUME NEW c \in Cpus, ExitMark(c) PROVE SleepInv'
  <2> DEFINE u == current[c]
  <2>1. pc[u] = "run" /\ u \in Users /\ u \in Threads /\ u \notin OnQueue /\ u # Worker
    BY <1>10, <1>u, NotQueued, ThreadFacts DEF ExitMark, At
  <2>2. /\ state'[u] = "finished" /\ pc'[u] = "ended"
        /\ \A v \in Threads : v # u => pc'[v] = pc[v] /\ state'[v] = state[v]
        /\ UNCHANGED <<idle_for, current, waiters, count, work_waiting>>
    BY <1>10, <1>t, <2>1 DEF ExitMark
  <2> HIDE DEF u
  <2> QED
    BY <1>w, <2>1, <2>2, OneThread DEF Sleepy
<1>11. ASSUME NEW c \in Cpus, ExitSchedule(c) PROVE SleepInv'
  <2> DEFINE u == current[c]
  <2>1. pc[u] = "ended" /\ u \in Threads /\ u \notin OnQueue /\ state[u] # "blocked"
    BY <1>11, NotQueued DEF ExitSchedule, At
  <2>2. /\ pc'[u] = "scheduled" /\ \A v \in Threads : v # u => pc'[v] = pc[v]
        /\ UNCHANGED <<idle_for, current, waiters, count>>
    BY <1>11, <1>t, <2>1 DEF ExitSchedule
  <2>3. /\ \A v \in Threads : v # Worker => state'[v] = state[v]
        /\ state'[Worker] = state[Worker] \/ (state[Worker] = "blocked" /\ state'[Worker] = "ready")
        /\ state'[Worker] = "blocked" => work_waiting'
    <3>1. CASE reap_queued
      BY <1>11, <1>w, <3>1 DEF ExitSchedule
    <3>2. CASE ~reap_queued /\ work_waiting
      BY <1>11, <1>t, <1>w, <3>2 DEF ExitSchedule, wake
    <3>3. CASE ~reap_queued /\ ~work_waiting
      BY <1>11, <1>w, <3>3 DEF ExitSchedule
    <3> QED
      BY <3>1, <3>2, <3>3
  <2> HIDE DEF u
  <2>4. \A v \in Threads : /\ state'[v] = "blocked" => state[v] = "blocked" /\ v # u
                           /\ state'[v] \in {"unused", "finished"} => state'[v] = state[v]
    BY <2>1, <2>3
  <2>5. RunningOK'
    <3>1. ASSUME NEW d \in Cpus, state'[current[d]] = "blocked"
          PROVE  pc'[current[d]] \in {"queued", "c_queued"}
      BY <1>t, <2>2, <2>4, <3>1 DEF SleepInv, RunningOK
    <3> QED
      BY <2>2, <3>1 DEF RunningOK
  <2>6. PlacesOK'
    BY <1>p, <2>2, <2>4 DEF PlacesOK, Sleepy
  <2>7. \A v \in OnQueue : state'[v] = state[v] /\ pc'[v] \in Sleepy /\ idle_for'[v] = None
    BY <1>t, <1>q, <2>1, <2>2, <2>3
  <2>8. \A v \in Threads : pc[v] \in Sleepy => pc'[v] \in Sleepy
    BY <2>1, <2>2 DEF Sleepy
  <2> QED
    BY <2>2, <2>3, <2>4, <2>5, <2>6, <2>7, <2>8, QueueStays
<1>12. ASSUME NEW c \in Cpus, worker_loop(c) PROVE SleepInv'
  <2>1. /\ \A v \in Threads : v # Worker => pc'[v] = pc[v] /\ state'[v] = state[v]
        /\ UNCHANGED <<idle_for, current, waiters, count>>
        /\ \/ pc'[Worker] = "reaping" /\ state'[Worker] = state[Worker] /\ work_waiting' = work_waiting
           \/ pc'[Worker] = "queued" /\ state'[Worker] = "blocked" /\ work_waiting'
    <3>1. CASE reap_queued
      BY <1>12, <1>t, <1>w, <3>1 DEF worker_loop
    <3>2. CASE ~reap_queued
      BY <1>12, <1>t, <1>w, <3>2 DEF worker_loop
    <3> QED
      BY <3>1, <3>2
  <2>2. state[Worker] # "blocked"
    BY <1>12, NotQueued DEF worker_loop, At
  <2> QED
    BY <1>w, <2>1, <2>2, OneThread DEF Sleepy
<1>13. ASSUME NEW c \in Cpus, NEW t \in Threads, ReapOne(c, t) PROVE SleepInv'
  <2>1. /\ state[t] = "finished" /\ t \notin OnQueue /\ pc[t] \notin Sleepy
    BY <1>13, <1>q, <1>p DEF ReapOne, Reapable
  <2>2. /\ state'[t] = "unused" /\ \A v \in Threads : v # t => state'[v] = state[v]
        /\ UNCHANGED <<pc, idle_for, current, waiters, count, work_waiting>>
    BY <1>13, <1>t DEF ReapOne
  <2> QED
    BY <1>w, <1>p, <2>1, <2>2, OneThread DEF Sleepy
<1>14. ASSUME NEW c \in Cpus, ReapDone(c) PROVE SleepInv'
  <2>1. current[c] = Worker /\ state[Worker] # "blocked" /\ state[Worker] \notin {"unused", "finished"}
    <3>1. current[c] = Worker /\ state[Worker] # "blocked"
      BY <1>14, <1>t, <1>p, NotQueued DEF ReapDone, At
    <3> QED
      BY <3>1, ThreadFacts DEF IInv, AliveOK
  <2>2. /\ pc'[Worker] = "waited" /\ \A v \in Threads : v # Worker => pc'[v] = pc[v]
        /\ UNCHANGED <<state, idle_for, current, waiters, count, work_waiting>>
    BY <1>14, <1>t, <1>w, <2>1 DEF ReapDone
  <2> QED
    BY <1>w, <2>1, <2>2, OneThread DEF Sleepy
<1>15. CASE UNCHANGED vars
  BY <1>0, <1>15 DEF vars
<1> QED
  BY <1>1, <1>2, <1>3, <1>4, <1>5, <1>6, <1>7, <1>8, <1>9, <1>10, <1>11,
     <1>12, <1>13, <1>14, <1>15 DEF Next, Step

\* What is known of sleepers holds in every behaviour, for any number of
\* processors and threads.
THEOREM SleepInvariance == Spec => []SleepInv
<1>1. Init => IInv /\ SleepInv
  BY InitIInv, SleepInit
<1>2. IInv /\ SleepInv /\ [Next]_vars => (IInv /\ SleepInv)'
  BY NextIInv, NextSleep
<1> QED
  BY <1>1, <1>2, PTL DEF Spec

\* A blocked thread is always on the queue its waker looks at (wait_sleep).
THEOREM NobodySleepsUnseen == Spec => []BlockedIsQueued
<1>1. SleepInv => BlockedIsQueued
  BY DEF SleepInv
<1> QED
  BY <1>1, SleepInvariance, PTL

\* While a thread sleeps on the semaphore, every count is covered by a woken
\* thread that has yet to look at it: no give is lost (wait_sleep, wake).
THEOREM NoWakeupLost == Spec => []NoLostWakeup
<1>1. SleepInv => NoLostWakeup
  BY DEF SleepInv
<1> QED
  BY <1>1, SleepInvariance, PTL
-----------------------------------------------------------------------------
(* TimerWheel: powers of two, counted as sets of subsets.                  *)

LEMMA PowerIsCount ==
    ASSUME NEW n \in Nat
    PROVE  /\ 2^n \in Nat
           /\ \A a \in Int : /\ IsFiniteSet(SUBSET ((a + 1)..(a + n)))
                             /\ Cardinality(SUBSET ((a + 1)..(a + n))) = 2^n
<1>1. ASSUME NEW a \in Int
      PROVE  /\ IsFiniteSet(SUBSET ((a + 1)..(a + n)))
             /\ Cardinality(SUBSET ((a + 1)..(a + n))) = 2^n
  <2>1. a + 1 \in Int /\ a + n \in Int
    OBVIOUS
  <2>2. IsFiniteSet((a + 1)..(a + n)) /\ Cardinality((a + 1)..(a + n)) = n
    BY <2>1, FS_Interval
  <2> QED
    BY <2>2, FS_SUBSET, Zenon
<1>2. 2^n \in Nat
  BY <1>1, FS_CardinalityType, 0 \in Int, Zenon
<1> QED
  BY <1>1, <1>2

LEMMA PowerSum ==
    ASSUME NEW m \in Nat, NEW n \in Nat
    PROVE  2^(m + n) = 2^m * 2^n
<1> DEFINE A == 1..m
           B == (m + 1)..(m + n)
           C == 1..(m + n)
           f == [X \in SUBSET C |-> <<X \cap A, X \cap B>>]
<1>1. A \cup B = C /\ A \cap B = {}
  OBVIOUS
<1>2. /\ IsFiniteSet(SUBSET A) /\ Cardinality(SUBSET A) = 2^m
      /\ IsFiniteSet(SUBSET B) /\ Cardinality(SUBSET B) = 2^n
      /\ IsFiniteSet(SUBSET C) /\ Cardinality(SUBSET C) = 2^(m + n)
  <2>1. m + n \in Nat /\ 0 \in Int /\ m \in Int
    OBVIOUS
  <2>2. 0 + 1 = 1 /\ 0 + m = m /\ 0 + (m + n) = m + n
    OBVIOUS
  <2>3. /\ IsFiniteSet(SUBSET ((0 + 1)..(0 + m)))
        /\ Cardinality(SUBSET ((0 + 1)..(0 + m))) = 2^m
    BY <2>1, PowerIsCount, Zenon
  <2>4. /\ IsFiniteSet(SUBSET ((0 + 1)..(0 + (m + n))))
        /\ Cardinality(SUBSET ((0 + 1)..(0 + (m + n)))) = 2^(m + n)
    BY <2>1, PowerIsCount, Zenon
  <2>5. /\ IsFiniteSet(SUBSET ((m + 1)..(m + n)))
        /\ Cardinality(SUBSET ((m + 1)..(m + n))) = 2^n
    BY <2>1, PowerIsCount, Zenon
  <2> QED
    BY <2>2, <2>3, <2>4, <2>5, Zenon
<1> HIDE DEF A, B, C
<1>3. f \in Bijection(SUBSET C, (SUBSET A) \X (SUBSET B))
  <2>1. f \in [SUBSET C -> (SUBSET A) \X (SUBSET B)]
    OBVIOUS
  <2>2. ASSUME NEW X \in SUBSET C, NEW Y \in SUBSET C, f[X] = f[Y]
        PROVE  X = Y
    <3>1. X \cap A = Y \cap A /\ X \cap B = Y \cap B
      BY <2>2
    <3>2. X = (X \cap A) \cup (X \cap B) /\ Y = (Y \cap A) \cup (Y \cap B)
      BY <1>1, Zenon
    <3> QED
      BY <3>1, <3>2, Zenon
  <2>3. ASSUME NEW z \in (SUBSET A) \X (SUBSET B)
        PROVE  \E X \in SUBSET C : f[X] = z
    <3>1. PICK P \in SUBSET A, Q \in SUBSET B : z = <<P, Q>>
      OBVIOUS
    <3>2. P \cup Q \in SUBSET C
      BY <1>1
    <3>3. (P \cup Q) \cap A = P /\ (P \cup Q) \cap B = Q
      BY <1>1
    <3>4. f[P \cup Q] = <<(P \cup Q) \cap A, (P \cup Q) \cap B>>
      BY <3>2
    <3> QED
      BY <3>1, <3>2, <3>3, <3>4
  <2> HIDE DEF f
  <2> QED
    BY <2>1, <2>2, <2>3, Fun_IsBij
<1>4. Cardinality((SUBSET A) \X (SUBSET B)) = Cardinality(SUBSET C)
  <2> HIDE DEF f
  <2>1. ExistsBijection(SUBSET C, (SUBSET A) \X (SUBSET B))
    BY <1>3, Zenon DEF ExistsBijection
  <2> QED
    BY <1>2, <2>1, FS_Bijection, Zenon
<1>5. Cardinality((SUBSET A) \X (SUBSET B)) = 2^m * 2^n
  <2>1. Cardinality((SUBSET A) \X (SUBSET B)) = Cardinality(SUBSET A) * Cardinality(SUBSET B)
    BY <1>2, FS_Product, Zenon
  <2> QED
    BY <1>2, <2>1, Zenon
<1> QED
  BY <1>2, <1>4, <1>5, Zenon

LEMMA PowerPositive ==
    ASSUME NEW n \in Nat
    PROVE  2^n \in Nat \ {0}
<1>1. IsFiniteSet(SUBSET ((0 + 1)..(0 + n))) /\ Cardinality(SUBSET ((0 + 1)..(0 + n))) = 2^n
  BY PowerIsCount, 0 \in Int, Zenon
<1>2. SUBSET ((0 + 1)..(0 + n)) # {}
  OBVIOUS
<1>3. 2^n # 0
  BY <1>1, <1>2, FS_EmptySet, Zenon
<1> QED
  BY <1>3, PowerIsCount, Zenon

LEMMA PowerOfOne == 2^0 = 1 /\ 2^1 = 2
<1>1. 2^0 = 1
  OBVIOUS
<1>2. 2^1 = 2
  OBVIOUS
<1> QED
  BY <1>1, <1>2

LEMMA PowerTwice ==
    ASSUME NEW n \in Nat, n > 0
    PROVE  2^n = 2 * 2^(n - 1)
<1>1. n - 1 \in Nat /\ 1 \in Nat /\ 1 + (n - 1) = n
  OBVIOUS
<1>2. 2^(1 + (n - 1)) = 2^1 * 2^(n - 1)
  BY <1>1, PowerSum, Zenon
<1>3. 2^n = 2^1 * 2^(n - 1)
  BY <1>1, <1>2, Zenon
<1> QED
  BY <1>3, PowerOfOne, Zenon

-----------------------------------------------------------------------------
(* Tick counts and slots.                                                  *)

\* The ticks one slot of level l stands for.
Width(l) == 2^(WHEEL_BITS * l)

Half == 2^(TickBits - 1)

\* A product of numbers.
LEMMA Times ==
    ASSUME NEW a \in Nat, NEW b \in Nat
    PROVE  a * b \in Nat
OBVIOUS

LEMMA TimesSum ==
    ASSUME NEW a \in Int, NEW b \in Int, NEW c \in Int
    PROVE  a * (b + c) = a * b + a * c
OBVIOUS

LEMMA TimesThree ==
    ASSUME NEW a \in Int, NEW b \in Int, NEW c \in Int
    PROVE  (a * b) * c = a * (b * c)
OBVIOUS

\* The bits of level k and those from k to n.
LEMMA WidthSum ==
    ASSUME NEW k \in Nat, NEW n \in Nat
    PROVE  Width(k + n) = Width(k) * Width(n)
<1>1. WHEEL_BITS * (k + n) = WHEEL_BITS * k + WHEEL_BITS * n
  BY WheelAssumption
<1>2. WHEEL_BITS * k \in Nat /\ WHEEL_BITS * n \in Nat
  BY WheelAssumption
<1> QED
  BY <1>1, <1>2, PowerSum, Zenon DEF Width

LEMMA WidthType ==
    /\ \A n \in Nat : Width(n) \in Nat \ {0}
    /\ Width(0) = 1
    /\ Width(1) = WHEEL_SIZE
    /\ Width(WHEEL_LEVELS) = WHEEL_REACH
    /\ WHEEL_SIZE \in Nat \ {0}
<1>1. ASSUME NEW n \in Nat PROVE Width(n) \in Nat \ {0}
  <2>1. WHEEL_BITS * n \in Nat
    BY WheelAssumption
  <2> QED
    BY <2>1, PowerPositive, Zenon DEF Width
<1>2. WHEEL_BITS * 0 = 0 /\ WHEEL_BITS * 1 = WHEEL_BITS
  BY WheelAssumption
<1>3. Width(0) = 1 /\ Width(1) = WHEEL_SIZE
  BY <1>2, PowerOfOne, Zenon DEF Width, WHEEL_SIZE
<1>4. Width(WHEEL_LEVELS) = WHEEL_REACH
  BY Zenon DEF Width, WHEEL_REACH
<1>5. WHEEL_SIZE \in Nat \ {0}
  BY <1>1, <1>3, 1 \in Nat, Zenon
<1> QED
  BY <1>1, <1>3, <1>4, <1>5, Zenon

\* A level's width divides those of the coarser levels, and the tick space.
LEMMA WidthDivides ==
    ASSUME NEW k \in Nat, NEW l \in Nat, k < l
    PROVE  \E q \in Nat : Width(l) = Width(k) * (WHEEL_SIZE * q)
<1>1. l - k - 1 \in Nat /\ 1 \in Nat /\ 1 + (l - k - 1) \in Nat /\ k + (1 + (l - k - 1)) = l
  OBVIOUS
<1>2. Width(l) = Width(k) * Width(1 + (l - k - 1))
  BY <1>1, WidthSum, Zenon
<1>3. Width(1 + (l - k - 1)) = WHEEL_SIZE * Width(l - k - 1)
  BY <1>1, WidthSum, WidthType, Zenon
<1>4. Width(l - k - 1) \in Nat
  BY <1>1, WidthType, Zenon
<1> QED
  BY <1>2, <1>3, <1>4, Zenon

LEMMA WidthOfTicks ==
    ASSUME NEW l \in Levels
    PROVE  \E q \in Nat : TickSpace = Width(l) * (WHEEL_SIZE * q)
<1>1. l \in Nat /\ l < WHEEL_LEVELS /\ WHEEL_LEVELS \in Nat
  BY WheelAssumption DEF Levels
<1>2. PICK q \in Nat : Width(WHEEL_LEVELS) = Width(l) * (WHEEL_SIZE * q)
  BY <1>1, WidthDivides, Zenon
<1> DEFINE m == WHEEL_BITS * WHEEL_LEVELS
<1>3. m \in Nat /\ TickBits - m \in Nat /\ m + (TickBits - m) = TickBits
  BY WheelAssumption
<1> DEFINE r == 2^(TickBits - m)
<1>4. TickSpace = Width(WHEEL_LEVELS) * r /\ r \in Nat
  <2>1. 2^(m + (TickBits - m)) = 2^m * 2^(TickBits - m)
    BY <1>3, PowerSum, Zenon
  <2>2. r \in Nat \ {0}
    BY <1>3, PowerPositive, Zenon
  <2> QED
    BY <1>3, <2>1, <2>2, Zenon DEF TickSpace, Width
<1> HIDE DEF m, r
<1> DEFINE a == Width(l)
<1>5. a \in Nat /\ WHEEL_SIZE \in Nat
  BY <1>1, WidthType, Zenon
<1>6. (a * (WHEEL_SIZE * q)) * r = a * (WHEEL_SIZE * (q * r)) /\ q * r \in Nat
  <2> HIDE DEF a
  <2>1. WHEEL_SIZE * q \in Int /\ q * r \in Nat
    BY <1>4, <1>5
  <2>2. a \in Int /\ WHEEL_SIZE \in Int /\ q \in Int /\ r \in Int
    BY <1>4, <1>5
  <2>3. (a * (WHEEL_SIZE * q)) * r = a * ((WHEEL_SIZE * q) * r)
    BY <2>1, <2>2, TimesThree, ZenonT(60)
  <2>4. (WHEEL_SIZE * q) * r = WHEEL_SIZE * (q * r)
    BY <2>2, TimesThree, ZenonT(60)
  <2> QED
    BY <2>1, <2>3, <2>4, Zenon
<1> QED
  BY <1>2, <1>4, <1>6, Zenon

\* The space of ticks is twice the reach of a signed difference, which is
\* more than the lag and the wheel's reach together.
LEMMA TickFacts ==
    /\ Half \in Nat
    /\ TickSpace = 2 * Half
    /\ TickSpace \in Nat \ {0}
    /\ TickSpace \div 2 = Half
    /\ MaxLag \in Nat
    /\ WHEEL_REACH \in Nat
    /\ WHEEL_REACH >= 2
    /\ MaxLag + WHEEL_REACH < Half
    /\ Ticks = 0..(TickSpace - 1)
<1> DEFINE m == WHEEL_BITS * WHEEL_LEVELS
<1>1. m \in Nat /\ m > 0 /\ m - 1 \in Nat /\ TickBits \in Nat /\ TickBits > 0 /\ TickBits - 1 \in Nat
  BY WheelAssumption
<1>2. TickSpace = 2 * Half
  BY <1>1, PowerTwice, Zenon DEF TickSpace, Half
<1>3. WHEEL_REACH = 2 * 2^(m - 1)
  BY <1>1, PowerTwice, Zenon DEF WHEEL_REACH
<1>4. Half \in Nat \ {0} /\ 2^(m - 1) \in Nat \ {0}
  BY <1>1, PowerPositive, Zenon DEF Half
<1>5. MaxLag \in Nat /\ MaxLag + WHEEL_REACH < Half
  BY WheelAssumption, Zenon DEF WHEEL_REACH, Half
<1> HIDE DEF m
<1> DEFINE z == 2^(m - 1)
<1>6. z \in Nat \ {0} /\ WHEEL_REACH = 2 * z
  BY <1>3, <1>4
<1> HIDE DEF z
<1>7. WHEEL_REACH \in Nat /\ WHEEL_REACH >= 2
  BY <1>6
<1>8. TickSpace \in Nat \ {0} /\ TickSpace \div 2 = Half
  BY <1>2, <1>4
<1> QED
  BY <1>2, <1>4, <1>5, <1>7, <1>8 DEF Ticks

\* Division leaves a remainder, and only one.
LEMMA TickDivided ==
    ASSUME NEW n \in Nat \ {0}, NEW x \in Int
    PROVE  /\ x \div n \in Int
           /\ x % n \in Int /\ 0 <= x % n /\ x % n < n
           /\ x = n * (x \div n) + (x % n)
<1>1. x \div n \in Int /\ x % n \in 0 .. n - 1 /\ x % n \in Int
  OBVIOUS
<1>2. x % n = x - n * (x \div n)
  OBVIOUS
<1>3. \A m \in Int : x % n = x - m => x = m + (x % n)
  BY <1>1
<1>4. n * (x \div n) \in Int
  BY <1>1
<1> QED
  BY <1>1, <1>2, <1>3, <1>4

LEMMA TickRemainder ==
    ASSUME NEW n \in Nat \ {0}, NEW x \in Int, NEW q \in Int, NEW r \in 0 .. n - 1, x = n * q + r
    PROVE  x % n = r
  OBVIOUS

LEMMA TickQuotient ==
    ASSUME NEW n \in Nat \ {0}, NEW x \in Int, NEW q \in Int, NEW r \in 0 .. n - 1, x = n * q + r
    PROVE  x \div n = q
  OBVIOUS

\* Adding to a tick count, at most once round.
LEMMA Wrapped ==
    ASSUME NEW x \in Int, -TickSpace <= x, x < 2 * TickSpace
    PROVE  x % TickSpace = IF x < 0 THEN x + TickSpace
                           ELSE IF x < TickSpace THEN x ELSE x - TickSpace
<1>0. TickSpace \in Nat \ {0}
  BY TickFacts, Zenon
<1>1. CASE x < 0
  <2>1. x = TickSpace * (-1) + (x + TickSpace) /\ x + TickSpace \in 0 .. TickSpace - 1
    BY <1>0, <1>1
  <2> QED
    BY <2>1, <1>0, <1>1, TickRemainder
<1>2. CASE 0 <= x /\ x < TickSpace
  <2>1. x = TickSpace * 0 + x /\ x \in 0 .. TickSpace - 1
    BY <1>0, <1>2
  <2> QED
    BY <2>1, <1>0, <1>2, TickRemainder
<1>3. CASE x >= TickSpace
  <2>1. x = TickSpace * 1 + (x - TickSpace) /\ x - TickSpace \in 0 .. TickSpace - 1
    BY <1>0, <1>3
  <2> QED
    BY <2>1, <1>0, <1>3, TickRemainder
<1> QED
  BY <1>0, <1>1, <1>2, <1>3

\* A signed difference is the distance, give or take a turn.
LEMMA DiffType ==
    ASSUME NEW a \in Ticks, NEW b \in Ticks
    PROVE  /\ Diff(a, b) \in Int
           /\ -Half <= Diff(a, b) /\ Diff(a, b) < Half
           /\ \/ a - b = Diff(a, b)
              \/ a - b = Diff(a, b) + TickSpace
              \/ a - b = Diff(a, b) - TickSpace
<1>1. a \in 0..(TickSpace - 1) /\ b \in 0..(TickSpace - 1) /\ TickSpace \in Nat \ {0}
  BY TickFacts, Zenon
<1>2. a - b \in Int /\ -TickSpace <= a - b /\ a - b < 2 * TickSpace
  BY <1>1
<1>3. (a - b) % TickSpace = IF a - b < 0 THEN a - b + TickSpace
                            ELSE IF a - b < TickSpace THEN a - b ELSE a - b - TickSpace
  BY <1>2, Wrapped, Zenon
<1> DEFINE d == (a - b) % TickSpace
<1>4. Diff(a, b) = IF d < Half THEN d ELSE d - TickSpace
  BY TickFacts, Zenon DEF Diff
<1>5. /\ d \in Int /\ 0 <= d /\ d < TickSpace
      /\ d = IF a - b < 0 THEN a - b + TickSpace ELSE a - b
  BY <1>1, <1>3
<1>6. Half \in Nat /\ TickSpace = 2 * Half
  BY TickFacts
<1> HIDE DEF d
<1> QED
  BY <1>1, <1>4, <1>5, <1>6

\* And there is one such distance.
LEMMA DiffIs ==
    ASSUME NEW a \in Ticks, NEW b \in Ticks, NEW d \in Int, -Half <= d, d < Half,
           \/ a - b = d
           \/ a - b = d + TickSpace
           \/ a - b = d - TickSpace
    PROVE  Diff(a, b) = d
<1>1. /\ Diff(a, b) \in Int
      /\ -Half <= Diff(a, b) /\ Diff(a, b) < Half
      /\ \/ a - b = Diff(a, b)
         \/ a - b = Diff(a, b) + TickSpace
         \/ a - b = Diff(a, b) - TickSpace
  BY DiffType, Zenon
<1>2. a \in Int /\ b \in Int /\ Half \in Nat /\ TickSpace = 2 * Half
  BY TickFacts
<1> QED
  BY <1>1, <1>2

\* Time goes on by one.
LEMMA StepOn ==
    ASSUME NEW a \in Ticks
    PROVE  /\ (a + 1) % TickSpace \in Ticks
           /\ (a + 1) % TickSpace = IF a + 1 = TickSpace THEN 0 ELSE a + 1
<1>1. a \in 0..(TickSpace - 1) /\ TickSpace \in Nat \ {0} /\ Ticks = 0..(TickSpace - 1)
  BY TickFacts, Zenon
<1> DEFINE x == a + 1
<1>2. x \in Int /\ -TickSpace <= x /\ x < 2 * TickSpace
  BY <1>1
<1> HIDE DEF x
<1>3. x % TickSpace = IF x < 0 THEN x + TickSpace
                      ELSE IF x < TickSpace THEN x ELSE x - TickSpace
  BY <1>2, Wrapped
<1> QED
  BY <1>1, <1>3 DEF x

\* The distance to a tick shrinks as the hand moves, and what is behind the
\* clock falls further behind.
LEMMA StepDiff ==
    ASSUME NEW a \in Ticks, NEW b \in Ticks
    PROVE  /\ Diff(a, b) > -Half => Diff(a, (b + 1) % TickSpace) = Diff(a, b) - 1
           /\ Diff(a, b) + 1 < Half => Diff((a + 1) % TickSpace, b) = Diff(a, b) + 1
<1> DEFINE d == Diff(a, b)
<1>1. /\ d \in Int /\ -Half <= d /\ d < Half
      /\ a - b = d \/ a - b = d + TickSpace \/ a - b = d - TickSpace
  BY DiffType, Zenon
<1>2. /\ a \in 0..(TickSpace - 1) /\ b \in 0..(TickSpace - 1)
      /\ TickSpace \in Nat \ {0} /\ Half \in Nat /\ TickSpace = 2 * Half
  BY TickFacts, Zenon
<1> HIDE DEF d
<1>3. ASSUME d > -Half PROVE Diff(a, (b + 1) % TickSpace) = d - 1
  <2> DEFINE u == (b + 1) % TickSpace
  <2>1. u \in Ticks /\ u = IF b + 1 = TickSpace THEN 0 ELSE b + 1
    BY StepOn, Zenon
  <2> HIDE DEF u
  <2>2. /\ d - 1 \in Int /\ -Half <= d - 1 /\ d - 1 < Half
        /\ a - u = d - 1 \/ a - u = d - 1 + TickSpace \/ a - u = d - 1 - TickSpace
    BY <1>1, <1>2, <1>3, <2>1
  <2>3. Diff(a, u) = d - 1
    BY <2>1, <2>2, DiffIs
  <2> QED
    BY <2>3 DEF u
<1>4. ASSUME d + 1 < Half PROVE Diff((a + 1) % TickSpace, b) = d + 1
  <2> DEFINE u == (a + 1) % TickSpace
  <2>1. u \in Ticks /\ u = IF a + 1 = TickSpace THEN 0 ELSE a + 1
    BY StepOn, Zenon
  <2> HIDE DEF u
  <2> DEFINE e == d + 1
  <2>2. /\ e \in Int /\ -Half <= e /\ e < Half
        /\ u - b = e \/ u - b = e + TickSpace \/ u - b = e - TickSpace
    BY <1>1, <1>2, <1>4, <2>1
  <2> HIDE DEF e
  <2>3. Diff(u, b) = e
    BY <2>1, <2>2, DiffIs
  <2> QED
    BY <2>3 DEF u, e
<1> QED
  BY <1>3, <1>4 DEF d

LEMMA ModTurn ==
    ASSUME NEW n \in Nat \ {0}, NEW x \in Int, NEW q \in Int
    PROVE  (x + n * q) % n = x % n
<1> DEFINE a == x \div n
           r == x % n
<1>1. a \in Int /\ r \in 0 .. n - 1 /\ x = n * a + r
  BY TickDivided
<1> HIDE DEF a, r
<1>2. n * (a + q) = n * a + n * q /\ a + q \in Int /\ n * a \in Int /\ n * q \in Int
  BY <1>1
<1>3. x + n * q \in Int /\ x + n * q = n * (a + q) + r
  BY <1>1, <1>2
<1>4. (x + n * q) % n = r
  BY <1>1, <1>2, <1>3, TickRemainder, Zenon
<1> QED
  BY <1>4 DEF r

LEMMA SlotIs ==
    ASSUME NEW l, NEW n
    PROVE  /\ SlotAt(l, n) = <<l, (n \div Width(l)) % WHEEL_SIZE>>
           /\ SlotAt(l, n)[1] = l
           /\ SlotAt(l, n)[2] = (n \div Width(l)) % WHEEL_SIZE
BY DEF SlotAt, Width

LEMMA TickInt == ASSUME NEW n \in Ticks PROVE n \in Int /\ 0 <= n /\ n < TickSpace
BY TickFacts

LEMMA LevelType ==
    ASSUME NEW l \in Levels
    PROVE  /\ l \in Nat /\ l \in Int /\ l + 1 \in Nat /\ l < WHEEL_LEVELS /\ WHEEL_LEVELS \in Nat
           /\ Width(l) \in Nat \ {0} /\ Width(l + 1) \in Nat \ {0}
<1>1. l \in Nat /\ l \in Int /\ l + 1 \in Nat /\ l < WHEEL_LEVELS /\ WHEEL_LEVELS \in Nat
  BY WheelAssumption DEF Levels
<1> QED
  BY <1>1, WidthType, Zenon

\* When the hand is as far from a tick as the tick is into its slot of level
\* l, it is at the beginning of that slot.
LEMMA Aligned ==
    ASSUME NEW e \in Ticks, NEW n \in Ticks, NEW l \in Levels, Diff(e, n) = e % Width(l)
    PROVE  n % Width(l) = 0 /\ SlotAt(l, n) = SlotAt(l, e)
<1> DEFINE b == Width(l)
           x == e \div b
           r == e % b
<1>1. b \in Nat \ {0} /\ e \in Int /\ n \in Int /\ WHEEL_SIZE \in Nat \ {0}
  BY LevelType, TickInt, WidthType, Zenon
<1>2. x \in Int /\ r \in Int /\ 0 <= r /\ r < b /\ e = b * x + r
  BY <1>1, TickDivided
<1>3. PICK q \in Nat : TickSpace = b * (WHEEL_SIZE * q)
  BY WidthOfTicks, Zenon
<1>4. e - n = r \/ e - n = r + TickSpace \/ e - n = r - TickSpace
  BY DiffType
<1> HIDE DEF b, x, r
<1> DEFINE y == WHEEL_SIZE * q
<1>5. y \in Int /\ TickSpace = b * y /\ TickSpace \in Int /\ b * x \in Int
  BY <1>1, <1>2, <1>3
<1> HIDE DEF y
<1>6. \E j \in {0, 1, -1} : n = b * (x + j * y)
  <2>1. CASE e - n = r
    <3>1. x + 0 * y = x
      BY <1>2, <1>5
    <3>2. n = b * x
      BY <2>1, <1>1, <1>2, <1>5
    <3> QED
      BY <3>1, <3>2
  <2>2. CASE e - n = r + TickSpace
    <3>1. n = b * x - b * y
      BY <2>2, <1>1, <1>2, <1>5
    <3>2. b * x - b * y = b * (x + (-1) * y)
      BY <1>1, <1>2, <1>5
    <3> QED
      BY <3>1, <3>2
  <2>3. CASE e - n = r - TickSpace
    <3>1. n = b * x + b * y
      BY <2>3, <1>1, <1>2, <1>5
    <3>2. b * x + b * y = b * (x + 1 * y)
      BY <1>1, <1>2, <1>5
    <3> QED
      BY <3>1, <3>2
  <2> QED
    BY <1>4, <2>1, <2>2, <2>3
<1>7. PICK j \in {0, 1, -1} : n = b * (x + j * y)
  BY <1>6
<1> DEFINE z == x + j * y
<1>8. z \in Int /\ n = b * z /\ n = b * z + 0 /\ 0 \in 0 .. b - 1
  BY <1>1, <1>2, <1>5, <1>7
<1>9. n % b = 0 /\ n \div b = z
  <2> HIDE DEF z
  <2> QED
    BY <1>1, <1>8, TickRemainder, TickQuotient, Zenon
<1>10. z = x + WHEEL_SIZE * (q * j) /\ q * j \in Int
  <2>1. CASE j = 0
    <3>1. q * j = 0 /\ j * y = 0
      BY <2>1, <1>5
    <3> QED
      BY <3>1, <1>1, <1>2
  <2>2. CASE j = 1
    <3>1. q * j = q /\ j * y = y
      BY <2>2, <1>5
    <3> QED
      BY <3>1, <1>2 DEF y
  <2>3. CASE j = -1
    <3>1. q * j = -q /\ j * y = -y
      BY <2>3, <1>5
    <3>2. WHEEL_SIZE * (-q) = -y
      BY <1>1 DEF y
    <3> QED
      BY <3>1, <3>2, <1>2
  <2> QED
    BY <2>1, <2>2, <2>3
<1>11. z % WHEEL_SIZE = x % WHEEL_SIZE
  <2> HIDE DEF z
  <2>1. (x + WHEEL_SIZE * (q * j)) % WHEEL_SIZE = x % WHEEL_SIZE
    BY <1>1, <1>2, <1>10, ModTurn, Zenon
  <2> QED
    BY <1>10, <2>1, Zenon
<1> HIDE DEF z
<1>12. SlotAt(l, n) = <<l, (n \div b) % WHEEL_SIZE>> /\ SlotAt(l, e) = <<l, (e \div b) % WHEEL_SIZE>>
  BY SlotIs, Zenon DEF b
<1>13. SlotAt(l, n) = SlotAt(l, e)
  BY <1>9, <1>11, <1>12, Zenon DEF x
<1> QED
  BY <1>9, <1>13, Zenon DEF b

\* At the beginning of a slot of one level every finer one has come round.
LEMMA AlignedBelow ==
    ASSUME NEW n \in Ticks, NEW l \in Levels, n % Width(l) = 0, NEW k \in Nat, k < l
    PROVE  SlotAt(k, n)[2] = 0
<1> DEFINE b == Width(l)
           c == Width(k)
           x == n \div b
<1>1. /\ b \in Nat \ {0} /\ c \in Nat \ {0} /\ n \in Int /\ WHEEL_SIZE \in Nat \ {0}
      /\ l \in Nat
  BY LevelType, TickInt, WidthType, Zenon
<1>2. x \in Int /\ n = b * x + 0
  BY <1>1, TickDivided
<1>3. PICK q \in Nat : b = c * (WHEEL_SIZE * q)
  BY <1>1, WidthDivides, Zenon
<1>4. n % b = 0
  OBVIOUS
<1> HIDE DEF b, c, x
<1> DEFINE y == q * x
           z == WHEEL_SIZE * y
<1>5. y \in Int /\ z \in Int /\ WHEEL_SIZE * q \in Int /\ WHEEL_SIZE \in Int /\ q \in Int /\ c \in Int /\ b * x \in Int
  BY <1>1, <1>2
<1>6. b * x = c * z
  <2>0. x \in Int /\ c \in Int /\ WHEEL_SIZE \in Int /\ q \in Int /\ WHEEL_SIZE * q \in Int
    BY <1>2, <1>5
  <2>1. (c * (WHEEL_SIZE * q)) * x = c * ((WHEEL_SIZE * q) * x)
    BY <2>0, TimesThree, ZenonT(60)
  <2>2. (WHEEL_SIZE * q) * x = WHEEL_SIZE * (q * x)
    BY <2>0, TimesThree, ZenonT(60)
  <2> QED
    BY <1>3, <2>1, <2>2, Zenon
<1> HIDE DEF y
<1>7. n = c * z + 0 /\ 0 \in 0 .. c - 1
  BY <1>1, <1>2, <1>5, <1>6
<1>8. n \div c = z
  <2> HIDE DEF z
  <2> QED
    BY <1>1, <1>5, <1>7, TickQuotient, Zenon
<1>9. z % WHEEL_SIZE = 0
  <2>1. z = WHEEL_SIZE * y + 0 /\ 0 \in 0 .. WHEEL_SIZE - 1
    BY <1>1, <1>5
  <2> HIDE DEF z
  <2> QED
    BY <1>1, <1>5, <2>1, TickRemainder, Zenon
<1> HIDE DEF z
<1>10. (n \div Width(k)) % WHEEL_SIZE = 0
  BY <1>8, <1>9, Zenon DEF c
<1> QED
  BY <1>10, SlotIs, Zenon

\* Ticks less than a turn of the finest level apart have slots of their own.
LEMMA SlotZero ==
    ASSUME NEW n \in Ticks
    PROVE  SlotAt(0, n) = <<0, n % WHEEL_SIZE>> /\ n % Width(0) = 0
<1>1. n \in Int /\ Width(0) = 1
  BY TickInt, WidthType, Zenon
<1>2. n \div 1 = n /\ n % 1 = 0
  BY <1>1
<1>3. n \div Width(0) = n /\ n % Width(0) = 0
  BY <1>1, <1>2, Zenon
<1>4. SlotAt(0, n) = <<0, (n \div Width(0)) % WHEEL_SIZE>>
  BY SlotIs, Zenon
<1> QED
  BY <1>3, <1>4, Zenon

LEMMA SameTick ==
    ASSUME NEW e \in Ticks, NEW n \in Ticks, Diff(e, n) = 0
    PROVE  e = n
<1>1. e - n = 0 \/ e - n = 0 + TickSpace \/ e - n = 0 - TickSpace
  BY DiffType
<1> QED
  BY <1>1, TickInt, TickFacts

LEMMA DueNow ==
    ASSUME NEW e \in Ticks, NEW n \in Ticks,
           0 <= Diff(e, n), Diff(e, n) < Width(0 + 1), SlotAt(0, e) = SlotAt(0, n)
    PROVE  Diff(e, n) = 0
<1> DEFINE d == Diff(e, n)
           a == e \div WHEEL_SIZE
           b == n \div WHEEL_SIZE
           r == e % WHEEL_SIZE
<1>1. e \in Int /\ n \in Int /\ WHEEL_SIZE \in Nat \ {0} /\ Width(1) = WHEEL_SIZE
  BY TickInt, WidthType, Zenon
<1>2. n % WHEEL_SIZE = r
  <2>1. <<0, n % WHEEL_SIZE>> = <<0, e % WHEEL_SIZE>>
    BY SlotZero, Zenon
  <2> QED
    BY <2>1
<1>3. a \in Int /\ b \in Int /\ r \in Int /\ e = WHEEL_SIZE * a + r /\ n = WHEEL_SIZE * b + r
  BY <1>1, <1>2, TickDivided
<1>4. PICK q \in Nat : TickSpace = WHEEL_SIZE * q
  <2>1. 0 \in Levels
    BY WheelAssumption DEF Levels
  <2>2. PICK q \in Nat : TickSpace = Width(0) * (WHEEL_SIZE * q)
    BY <2>1, WidthOfTicks, Zenon
  <2>3. WHEEL_SIZE * q \in Int /\ Width(0) = 1
    BY <1>1, WidthType
  <2> QED
    BY <2>2, <2>3
<1>5. d \in Int /\ (e - n = d \/ e - n = d + TickSpace \/ e - n = d - TickSpace)
  BY DiffType
<1>6. 0 <= d /\ d < WHEEL_SIZE
  <2>1. 0 + 1 = 1
    OBVIOUS
  <2> QED
    BY <2>1, <1>1, Zenon
<1> HIDE DEF d, a, b, r
<1>7. \E x \in Int : d = WHEEL_SIZE * x
  <2>1. CASE e - n = d
    <3>1. WHEEL_SIZE * (a - b) = WHEEL_SIZE * a - WHEEL_SIZE * b /\ a - b \in Int
      BY <1>1, <1>3
    <3>2. d = WHEEL_SIZE * (a - b)
      BY <3>1, <2>1, <1>1, <1>3, <1>5
    <3> QED
      BY <3>1, <3>2
  <2>2. CASE e - n = d + TickSpace
    <3>1. /\ WHEEL_SIZE * (a - b - q) = WHEEL_SIZE * a - WHEEL_SIZE * b - WHEEL_SIZE * q
          /\ a - b - q \in Int
      BY <1>1, <1>3
    <3>2. d = WHEEL_SIZE * (a - b - q)
      BY <3>1, <2>2, <1>1, <1>3, <1>4, <1>5
    <3> QED
      BY <3>1, <3>2
  <2>3. CASE e - n = d - TickSpace
    <3>1. /\ WHEEL_SIZE * (a - b + q) = WHEEL_SIZE * a - WHEEL_SIZE * b + WHEEL_SIZE * q
          /\ a - b + q \in Int
      BY <1>1, <1>3
    <3>2. d = WHEEL_SIZE * (a - b + q)
      BY <3>1, <2>3, <1>1, <1>3, <1>4, <1>5
    <3> QED
      BY <3>1, <3>2
  <2> QED
    BY <1>5, <2>1, <2>2, <2>3
<1>8. PICK x \in Int : d = WHEEL_SIZE * x
  BY <1>7
<1>9. d % WHEEL_SIZE = 0
  <2>1. d = WHEEL_SIZE * x + 0 /\ 0 \in 0 .. WHEEL_SIZE - 1
    BY <1>1, <1>5, <1>8
  <2> QED
    BY <2>1, <1>1, <1>5, TickRemainder, Zenon
<1>10. d % WHEEL_SIZE = d
  <2>1. d = WHEEL_SIZE * 0 + d /\ d \in 0 .. WHEEL_SIZE - 1 /\ 0 \in Int
    BY <1>1, <1>5, <1>6
  <2> QED
    BY <2>1, <1>1, <1>5, TickRemainder, ZenonT(60)
<1> QED
  BY <1>9, <1>10 DEF d

-----------------------------------------------------------------------------
(* Filing.                                                                 *)

\* The least member of a set of numbers.
LEMMA LeastNumber ==
    ASSUME NEW S \in SUBSET Nat, S # {}
    PROVE  \E x \in S : \A y \in S : x <= y
<1> DEFINE R == {ss \in Nat \X Nat : ss[1] < ss[2]}
<1>1. OpToRel(<, Nat) = R
  BY Zenon DEF OpToRel
<1>2. IsWellFoundedOn(R, Nat)
  BY <1>1, NatLessThanWellFounded, Zenon
<1>3. PICK x \in S : \A y \in S : ~(<<y, x>> \in R)
  <2> HIDE DEF R
  <2> QED BY <1>2, WFMin, Zenon
<1>4. ASSUME NEW y \in S PROVE x <= y
  <2>1. y < x => <<y, x>> \in R
    OBVIOUS
  <2>2. ~(y < x)
    BY <1>3, <2>1
  <2> QED
    BY <2>2
<1> QED
  BY <1>4

LEMMA LevelForIs ==
    ASSUME NEW delta \in Int, 0 < delta, delta < WHEEL_REACH
    PROVE  /\ LevelFor(delta) \in Levels
           /\ delta < Width(LevelFor(delta) + 1)
           /\ LevelFor(delta) # 0 => delta >= Width(LevelFor(delta))
<1> DEFINE S == {l \in Levels : delta < Width(l + 1)}
           Fits(l) == /\ delta < Width(l + 1) \/ l = WHEEL_LEVELS - 1
                      /\ \A k \in 0..(l - 1) : delta >= Width(k + 1)
<1>1. WHEEL_LEVELS \in Nat /\ WHEEL_LEVELS - 1 \in Levels /\ WHEEL_LEVELS - 1 + 1 = WHEEL_LEVELS
  BY WheelAssumption DEF Levels
<1>2. delta < Width(WHEEL_LEVELS)
  BY WidthType
<1>3. S # {} /\ S \in SUBSET Nat
  <2>1. WHEEL_LEVELS - 1 \in S
    BY <1>1, <1>2
  <2>2. Levels \subseteq Nat
    BY LevelType
  <2> QED
    BY <2>1, <2>2
<1>4. PICK l \in S : \A y \in S : l <= y
  <2> HIDE DEF S
  <2> QED
    BY <1>3, LeastNumber, Zenon
<1>5. l \in Levels /\ Fits(l)
  <2>1. l \in Levels /\ delta < Width(l + 1)
    BY <1>4
  <2>2. ASSUME NEW k \in 0..(l - 1) PROVE delta >= Width(k + 1)
    <3>1. l \in Nat /\ l < WHEEL_LEVELS
      BY <2>1, LevelType
    <3>2. k \in Levels /\ k < l /\ k + 1 \in Nat
      BY <3>1, <1>1 DEF Levels
    <3>3. ~(delta < Width(k + 1))
      BY <3>2, <3>1, <1>4
    <3>4. Width(k + 1) \in Nat
      BY <3>2, WidthType
    <3> QED
      BY <3>3, <3>4
  <2> QED
    BY <2>1, <2>2, Zenon
<1>6. LevelFor(delta) = CHOOSE m \in Levels : Fits(m)
  BY Zenon DEF LevelFor, Width
<1> DEFINE v == LevelFor(delta)
<1>7. v \in Levels /\ Fits(v)
  <2> HIDE DEF Fits
  <2> QED
    BY <1>5, <1>6, Zenon
<1> HIDE DEF v
<1>8. delta < Width(v + 1)
  <2>1. CASE v = WHEEL_LEVELS - 1
    BY <2>1, <1>1, <1>2
  <2> QED
    BY <2>1, <1>7
<1>9. ASSUME v # 0 PROVE delta >= Width(v)
  <2>1. v \in Nat
    BY <1>7, LevelType
  <2>2. v - 1 \in 0..(v - 1) /\ v - 1 + 1 = v
    BY <2>1, <1>9
  <2>3. delta >= Width(v - 1 + 1)
    BY <2>2, <1>7
  <2> QED
    BY <2>2, <2>3
<1> QED
  BY <1>7, <1>8, <1>9, Zenon DEF v

\* Where a timer that expires at e goes, when it is d ticks ahead of the hand.
FiledAt(p, e, d) ==
    \E l \in Levels :
        /\ p = SlotAt(l, e)
        /\ e % Width(l) <= d
        /\ l # 0 => e % Width(l) < d
        /\ d < Width(l + 1)

LEMMA Placed ==
    ASSUME NEW e \in Ticks, NEW n \in Ticks, 0 <= Diff(e, n), Diff(e, n) < WHEEL_REACH
    PROVE  FiledAt(place(e, n), e, Diff(e, n))
<1> DEFINE d == Diff(e, n)
<1>1. d \in Int
  BY DiffType
<1>2. CASE d <= 0
  <2>1. d = 0 /\ e = n
    BY <1>1, <1>2, SameTick
  <2>2. place(e, n) = SlotAt(0, e)
    BY <1>2, <2>1, Zenon DEF place
  <2>3. 0 \in Levels
    BY WheelAssumption DEF Levels
  <2>4. e % Width(0) = 0
    BY SlotZero, Zenon
  <2>5. Width(0 + 1) \in Nat \ {0}
    BY <2>3, LevelType, Zenon
  <2>6. e % Width(0) <= d /\ d < Width(0 + 1)
    BY <2>1, <2>4, <2>5
  <2> QED
    BY <2>2, <2>3, <2>6, Zenon DEF FiledAt
<1>3. CASE ~(d <= 0)
  <2> DEFINE l == LevelFor(d)
  <2>1. 0 < d /\ d < WHEEL_REACH
    BY <1>1, <1>3
  <2>2. l \in Levels /\ d < Width(l + 1) /\ (l # 0 => d >= Width(l))
    BY <1>1, <2>1, LevelForIs
  <2>3. place(e, n) = SlotAt(l, e)
    BY <1>3, Zenon DEF place
  <2> HIDE DEF l
  <2> DEFINE b == Width(l)
             r == e % b
  <2>4. b \in Nat \ {0} /\ e \in Int
    BY <2>2, LevelType, TickInt, Zenon
  <2>5. r \in Int /\ 0 <= r /\ r < b
    BY <2>4, TickDivided
  <2>6. l = 0 => r = 0
    BY SlotZero, Zenon
  <2> HIDE DEF r, b
  <2>7. r <= d /\ (l # 0 => r < d)
    BY <1>1, <2>1, <2>2, <2>4, <2>5, <2>6 DEF b
  <2> QED
    BY <2>2, <2>3, <2>7, Zenon DEF FiledAt, b, r
<1> QED
  BY <1>2, <1>3

-----------------------------------------------------------------------------
(* The inductive invariant.                                                *)

\* A timer in slot p is due within a turn of p's level and not before the
\* hand of that level comes to p: it is at least as far ahead of the hand at
\* n as its tick is into the slot.
Sits(p, e, n) ==
    \E l \in Levels :
        /\ p = SlotAt(l, e)
        /\ e % Width(l) <= Diff(e, n)
        /\ Diff(e, n) < Width(l + 1)

WheelOK ==
    \A t \in Timers :
        place_of[t] # Nowhere =>
            /\ Sits(place_of[t], expires[t], wheel_now)
            /\ Diff(expires[t], wheel_now) < WHEEL_REACH

\* The hand is ahead of the clock by a tick at most.
HandOK == -1 <= Diff(clock, wheel_now) /\ Diff(clock, wheel_now) <= MaxLag

\* What is asked for is over when the timer expires, or up to two ticks before.
AskedOK ==
    \A t \in Timers :
        pending[t] => 0 <= Diff(expires[t], asked[t]) /\ Diff(expires[t], asked[t]) <= 2

\* The timers that wait: one that is filed is pending, one in a chain is
\* pending and its tick has come, and is in that chain only and only once;
\* and every pending one is filed or in a chain.  At clock k, places pl,
\* expiries ex, marks pe, chains ch.
Filed(pl, pe) == \A t \in Timers : pl[t] # Nowhere => pe[t]
Chained(pl, ex, pe, ch, k) ==
    \A c \in Turners : \A i \in 1..Len(ch[c]) :
        /\ pe[ch[c][i]]
        /\ pl[ch[c][i]] = Nowhere
        /\ 0 <= Diff(k, ex[ch[c][i]]) /\ Diff(k, ex[ch[c][i]]) <= MaxLag
Apart(ch) ==
    \A c \in Turners : \A d \in Turners : \A i \in 1..Len(ch[c]) : \A j \in 1..Len(ch[d]) :
        ch[c][i] = ch[d][j] => c = d /\ i = j
Kept(pl, pe, ch) ==
    \A t \in Timers : pe[t] => \/ pl[t] # Nowhere
                               \/ \E c \in Turners : \E i \in 1..Len(ch[c]) : ch[c][i] = t

TimerInv ==
    /\ TimerTypeOK
    /\ WheelOK
    /\ HandOK
    /\ AskedOK
    /\ Filed(place_of, pending)
    /\ Chained(place_of, expires, pending, due, clock)
    /\ Apart(due)
    /\ Kept(place_of, pending, due)

LEMMA SlotsType ==
    ASSUME NEW l \in Levels, NEW n \in Int
    PROVE  /\ SlotAt(l, n) \in Levels \X (0..(WHEEL_SIZE - 1))
           /\ SlotAt(l, n) # Nowhere
<1>1. Width(l) \in Nat \ {0} /\ WHEEL_SIZE \in Nat \ {0}
  BY LevelType, WidthType, Zenon
<1> DEFINE x == n \div Width(l)
<1>2. x \in Int
  BY <1>1, TickDivided
<1> HIDE DEF x
<1>3. x % WHEEL_SIZE \in 0..(WHEEL_SIZE - 1)
  BY <1>1, <1>2
<1>4. SlotAt(l, n) = <<l, x % WHEEL_SIZE>>
  BY SlotIs, Zenon DEF x
<1>5. SlotAt(l, n) \in Levels \X (0..(WHEEL_SIZE - 1))
  BY <1>3, <1>4
<1> QED
  BY <1>5, NowhereAssumption, Zenon

LEMMA SitsSomewhere ==
    ASSUME NEW p, NEW e \in Ticks, NEW n \in Ticks, Sits(p, e, n)
    PROVE  /\ p \in Levels \X (0..(WHEEL_SIZE - 1))
           /\ p # Nowhere
           /\ 0 <= Diff(e, n)
<1>1. PICK l \in Levels : p = SlotAt(l, e) /\ e % Width(l) <= Diff(e, n)
  BY Zenon DEF Sits
<1>2. e \in Int /\ Width(l) \in Nat \ {0}
  BY TickInt, LevelType, Zenon
<1>3. 0 <= e % Width(l) /\ e % Width(l) \in Int
  BY <1>2, TickDivided, Zenon
<1>4. Diff(e, n) \in Int
  BY DiffType
<1>5. 0 <= Diff(e, n)
  BY <1>1, <1>3, <1>4
<1> QED
  BY <1>1, <1>2, <1>5, SlotsType, Zenon

\* One turn of the hand, for one timer: its slot is the one that is run when
\* its tick has come and not before, and otherwise it sits where the hand,
\* moved on, will still find it.
LEMMA Turned ==
    ASSUME NEW p, NEW e \in Ticks, NEW n \in Ticks, Sits(p, e, n), Diff(e, n) < WHEEL_REACH,
           NEW f, f = IF \E l \in Advancing(n) : p = SlotAt(l, n) THEN place(e, n) ELSE p
    PROVE  /\ f # Nowhere
           /\ f = SlotAt(0, n) => e = n
           /\ f # SlotAt(0, n) => /\ Sits(f, e, (n + 1) % TickSpace)
                                  /\ Diff(e, (n + 1) % TickSpace) < WHEEL_REACH
<1> DEFINE d == Diff(e, n)
           m == (n + 1) % TickSpace
<1>1. 0 <= d /\ d \in Int /\ d < WHEEL_REACH /\ d < Half /\ -Half < d
  <2>1. 0 <= d
    BY SitsSomewhere, Zenon
  <2>2. d \in Int
    BY DiffType
  <2> HIDE DEF d
  <2> QED
    BY <2>1, <2>2, TickFacts DEF d
<1>2. m \in Ticks /\ Diff(e, m) = d - 1
  BY <1>1, StepOn, StepDiff
<1>3. WHEEL_REACH \in Nat
  BY TickFacts
<1>4. PICK l \in Levels : /\ f = SlotAt(l, e)
                          /\ e % Width(l) <= d
                          /\ l # 0 => e % Width(l) < d
                          /\ d < Width(l + 1)
  <2>1. CASE \E l \in Advancing(n) : p = SlotAt(l, n)
    <3>1. f = place(e, n)
      BY <2>1, Zenon
    <3>2. FiledAt(f, e, d)
      BY <3>1, <1>1, Placed, Zenon
    <3> QED
      BY <3>2, Zenon DEF FiledAt
  <2>2. CASE ~\E l \in Advancing(n) : p = SlotAt(l, n)
    <3>1. f = p
      BY <2>2, Zenon
    <3>2. PICK l \in Levels : /\ p = SlotAt(l, e)
                              /\ e % Width(l) <= d
                              /\ d < Width(l + 1)
      BY Zenon DEF Sits
    <3>3. ASSUME l # 0, d = e % Width(l) PROVE FALSE
      <4>1. n % Width(l) = 0 /\ SlotAt(l, n) = SlotAt(l, e)
        BY <3>3, Aligned, Zenon
      <4>2. ASSUME NEW k \in 0..(l - 1) PROVE SlotAt(k, n)[2] = 0
        <5>1. k \in Nat /\ k < l
          BY <4>2, LevelType
        <5> QED
          BY <4>1, <5>1, AlignedBelow, Zenon
      <4>3. l \in Advancing(n)
        BY <3>3, <4>2, Zenon DEF Advancing
      <4> QED
        BY <2>2, <3>2, <4>1, <4>3, Zenon
    <3>4. e % Width(l) \in Int
      BY TickInt, LevelType, TickDivided, Zenon
    <3>5. l # 0 => e % Width(l) < d
      BY <1>1, <3>2, <3>3, <3>4
    <3> QED
      BY <3>1, <3>2, <3>5, Zenon
  <2> QED
    BY <2>1, <2>2, Zenon
<1>5. e % Width(l) \in Int /\ Width(l + 1) \in Nat
  BY TickInt, LevelType, TickDivided
<1>6. f # Nowhere
  BY <1>4, TickInt, SlotsType, Zenon
<1>7. ASSUME f = SlotAt(0, n) PROVE e = n
  <2>1. l = 0
    <3>1. SlotAt(l, e)[1] = l /\ SlotAt(0, n)[1] = 0
      BY SlotIs, Zenon
    <3> QED
      BY <3>1, <1>4, <1>7, Zenon
  <2>2. d = 0
    BY <1>1, <1>4, <1>7, <2>1, DueNow, Zenon
  <2> QED
    BY <2>2, SameTick, Zenon
<1>8. ASSUME f # SlotAt(0, n) PROVE Sits(f, e, m) /\ Diff(e, m) < WHEEL_REACH
  <2>1. d # 0
    <3>1. ASSUME d = 0 PROVE FALSE
      <4>1. e = n
        BY <3>1, SameTick, Zenon
      <4>2. l = 0
        <5>1. 0 <= e % Width(l)
          BY TickInt, LevelType, TickDivided, Zenon
        <5> QED
          BY <5>1, <3>1, <1>4, <1>5
      <4> QED
        BY <4>1, <4>2, <1>4, <1>8, Zenon
    <3> QED
      BY <3>1
  <2>2. e % Width(l) <= d - 1
    <3>1. CASE l = 0
      <4>1. e % Width(l) = 0
        BY <3>1, SlotZero, Zenon
      <4> QED
        BY <4>1, <2>1, <1>1
    <3>2. CASE l # 0
      BY <3>2, <1>1, <1>4, <1>5
    <3> QED
      BY <3>1, <3>2
  <2>3. d - 1 < Width(l + 1) /\ d - 1 < WHEEL_REACH
    BY <1>1, <1>3, <1>4, <1>5
  <2> QED
    BY <1>2, <1>4, <2>2, <2>3 DEF Sits
<1> QED
  BY <1>6, <1>7, <1>8, Zenon

LEMMA TimerInitInv == TimerInit => TimerInv
<1> SUFFICES ASSUME TimerInit PROVE TimerInv
  OBVIOUS
<1> USE DEF TimerInit
<1>1. 0 \in Ticks /\ MaxLag \in Nat
  BY TickFacts
<1>2. Diff(0, 0) = 0
  BY <1>1, TickFacts, DiffIs
<1>3. TimerTypeOK
  BY <1>1 DEF TimerTypeOK
<1>4. HandOK
  BY <1>1, <1>2 DEF HandOK
<1>5. \A c \in Turners : Len(due[c]) = 0
  OBVIOUS
<1>6. Chained(place_of, expires, pending, due, clock) /\ Apart(due)
  BY <1>5 DEF Chained, Apart
<1> QED
  BY <1>3, <1>4, <1>6 DEF TimerInv, WheelOK, AskedOK, Filed, Kept

\* The clock's step keeps what is behind it within the lag.
LEMMA ClockKeeps == TimerInv /\ ClockTicks => TimerInv'
<1> SUFFICES ASSUME TimerInv, ClockTicks PROVE TimerInv'
  OBVIOUS
<1>0. UNCHANGED <<wheel_now, place_of, expires, asked, pending, due, stopped>>
  BY DEF ClockTicks
<1>1. clock \in Ticks /\ wheel_now \in Ticks /\ expires \in [Timers -> Ticks] /\ due \in [Turners -> Seq(Timers)]
  BY DEF TimerInv, TimerTypeOK
<1>2. clock' \in Ticks /\ clock' = (clock + 1) % TickSpace
  BY <1>1, StepOn DEF ClockTicks
<1>3. ASSUME NEW b \in Ticks, Diff(clock, b) < MaxLag
      PROVE  Diff(clock', b) = Diff(clock, b) + 1
  <2>1. Diff(clock, b) \in Int
    BY <1>1, DiffType
  <2>2. Diff(clock, b) + 1 < Half
    BY <2>1, <1>3, TickFacts
  <2> QED
    BY <2>2, <1>1, <1>2, StepDiff, Zenon
<1>4. TimerTypeOK'
  BY <1>0, <1>2, Zenon DEF TimerInv, TimerTypeOK
<1>5. WheelOK' /\ AskedOK' /\ Filed(place_of, pending)' /\ Apart(due)' /\ Kept(place_of, pending, due)'
  <2>1. WheelOK' /\ AskedOK'
    BY <1>0 DEF TimerInv, WheelOK, AskedOK
  <2>2. Filed(place_of', pending') /\ Apart(due') /\ Kept(place_of', pending', due')
    BY <1>0, Zenon DEF TimerInv
  <2> QED
    BY <2>1, <2>2
<1>6. HandOK'
  <2>1. Diff(clock, wheel_now) < MaxLag /\ Diff(clock, wheel_now) \in Int
    BY <1>1, DiffType DEF ClockTicks
  <2>2. Diff(clock', wheel_now') = Diff(clock, wheel_now) + 1
    BY <2>1, <1>0, <1>1, <1>3, Zenon
  <2>3. -1 <= Diff(clock, wheel_now)
    BY DEF TimerInv, HandOK
  <2> QED
    BY <2>1, <2>2, <2>3, TickFacts DEF HandOK
<1>7. Chained(place_of, expires, pending, due, clock)'
  <2> SUFFICES ASSUME NEW c \in Turners, NEW i \in 1..Len(due[c])
               PROVE  /\ pending[due[c][i]]
                      /\ place_of[due[c][i]] = Nowhere
                      /\ 0 <= Diff(clock', expires[due[c][i]])
                      /\ Diff(clock', expires[due[c][i]]) <= MaxLag
    BY <1>0, Zenon DEF Chained
  <2> DEFINE b == expires[due[c][i]]
  <2>1. /\ pending[due[c][i]]
        /\ place_of[due[c][i]] = Nowhere
        /\ 0 <= Diff(clock, b) /\ Diff(clock, b) <= MaxLag
    BY DEF TimerInv, Chained
  <2>2. b \in Ticks
    BY <1>1
  <2>3. Diff(clock, b) < MaxLag
    BY DEF ClockTicks
  <2> HIDE DEF b
  <2>4. Diff(clock', b) = Diff(clock, b) + 1 /\ Diff(clock, b) \in Int
    BY <1>1, <1>3, <2>2, <2>3, DiffType
  <2>5. 0 <= Diff(clock', b) /\ Diff(clock', b) <= MaxLag
    BY <2>1, <2>3, <2>4, TickFacts
  <2> QED
    BY <2>1, <2>5 DEF b
<1> QED
  BY <1>4, <1>5, <1>6, <1>7 DEF TimerInv

\* What a timer is filed for is over by the time it expires.
LEMMA StartAsks ==
    ASSUME NEW k \in Ticks, NEW h \in Ticks, -1 <= Diff(k, h), NEW delay \in Nat,
           NEW ticks, ticks = (IF delay = 0 THEN 1 ELSE delay), ticks < WHEEL_REACH,
           NEW f, f = (IF Diff(k, h) < 0 THEN h ELSE k)
    PROVE  /\ (f + ticks) % TickSpace \in Ticks
           /\ (k + delay) % TickSpace \in Ticks
           /\ 0 <= Diff((f + ticks) % TickSpace, (k + delay) % TickSpace)
           /\ Diff((f + ticks) % TickSpace, (k + delay) % TickSpace) <= 2
<1> DEFINE e == (f + ticks) % TickSpace
           a == (k + delay) % TickSpace
           x == f + ticks
           y == k + delay
<1>1. /\ TickSpace \in Nat \ {0} /\ Half \in Nat /\ TickSpace = 2 * Half
      /\ WHEEL_REACH \in Nat /\ WHEEL_REACH >= 2 /\ WHEEL_REACH < Half
      /\ Ticks = 0..(TickSpace - 1) /\ Half > 2
  BY TickFacts
<1>2. Diff(k, h) \in Int
  BY DiffType
<1>3. f \in Ticks /\ (f = k \/ f - k = 1 \/ f - k = 1 - TickSpace)
  <2>1. CASE Diff(k, h) < 0
    <3>1. Diff(k, h) = -1 /\ f = h
      BY <2>1, <1>2
    <3>2. k - h = -1 \/ k - h = -1 + TickSpace \/ k - h = -1 - TickSpace
      BY <3>1, DiffType
    <3> QED
      BY <3>1, <3>2, <1>1
  <2>2. CASE ~(Diff(k, h) < 0)
    BY <2>2
  <2> QED
    BY <2>1, <2>2
<1>4. /\ ticks \in Nat /\ ticks < TickSpace /\ delay < TickSpace
      /\ ticks = delay \/ ticks = delay + 1
  BY <1>1
<1>5. /\ x \in Int /\ -TickSpace <= x /\ x < 2 * TickSpace
      /\ y \in Int /\ -TickSpace <= y /\ y < 2 * TickSpace
      /\ 0 <= x /\ 0 <= y
  BY <1>1, <1>3, <1>4
<1> HIDE DEF x, y
<1>6. /\ x % TickSpace = IF x < 0 THEN x + TickSpace ELSE IF x < TickSpace THEN x ELSE x - TickSpace
      /\ y % TickSpace = IF y < 0 THEN y + TickSpace ELSE IF y < TickSpace THEN y ELSE y - TickSpace
  BY <1>5, Wrapped
<1>7. /\ e = IF x < TickSpace THEN x ELSE x - TickSpace
      /\ a = IF y < TickSpace THEN y ELSE y - TickSpace
  BY <1>5, <1>6 DEF x, y
<1> HIDE DEF e, a
<1>8. e \in Ticks /\ a \in Ticks
  BY <1>1, <1>5, <1>7
<1>9. \E d \in {0, 1, 2} : e - a = d \/ e - a = d + TickSpace \/ e - a = d - TickSpace
  <2>1. \E d \in {0, 1, 2} : x - y = d \/ x - y = d + TickSpace \/ x - y = d - TickSpace
    <3>1. k \in Int /\ f \in Int
      BY <1>1, <1>3
    <3> DEFINE u == ticks - delay
               v == f - k
    <3>2. u \in {0, 1} /\ x - y = v + u
      BY <1>4, <3>1 DEF x, y
    <3>3. v = 0 \/ v = 1 \/ v = 1 - TickSpace
      BY <1>3, <3>1
    <3> HIDE DEF u, v
    <3>4. v \in Int
      BY <3>3, <1>1
    <3> QED
      BY <1>1, <3>2, <3>3, <3>4
  <2>2. PICK d \in {0, 1, 2} : x - y = d \/ x - y = d + TickSpace \/ x - y = d - TickSpace
    BY <2>1
  <2>3. e - a = d \/ e - a = d + TickSpace \/ e - a = d - TickSpace
    BY <2>2, <1>1, <1>5, <1>7, <1>8
  <2> QED
    BY <2>3
<1>10. PICK d \in {0, 1, 2} : e - a = d \/ e - a = d + TickSpace \/ e - a = d - TickSpace
  BY <1>9
<1>11. Diff(e, a) = d
  <2>1. d \in Int /\ -Half <= d /\ d < Half
    BY <1>1, <1>10
  <2> QED
    BY <2>1, <1>8, <1>10, DiffIs
<1>12. 0 <= Diff(e, a) /\ Diff(e, a) <= 2
  BY <1>10, <1>11
<1> QED
  BY <1>8, <1>12 DEF e, a

LEMMA StartKeeps ==
    ASSUME NEW t \in Timers, NEW delay \in Delays, TimerInv, timer_start(t, delay)
    PROVE  TimerInv'
<1> DEFINE ticks == IF delay = 0 THEN 1 ELSE delay
           e == (FiledFrom + ticks) % TickSpace
           a == (clock + delay) % TickSpace
           p == place(e, wheel_now)
<1>1. /\ ticks < WHEEL_REACH
      /\ ~pending[t]
      /\ (e - wheel_now) % TickSpace < WHEEL_REACH
      /\ expires' = [expires EXCEPT ![t] = e]
      /\ asked' = [asked EXCEPT ![t] = a]
      /\ pending' = [pending EXCEPT ![t] = TRUE]
      /\ place_of' = [place_of EXCEPT ![t] = p]
      /\ stopped' = stopped \ {t}
      /\ UNCHANGED <<clock, wheel_now, due>>
  BY Zenon DEF timer_start
<1>2. TimerTypeOK /\ TimerInv
  BY DEF TimerInv
<1>3. /\ clock \in Ticks /\ wheel_now \in Ticks
      /\ expires \in [Timers -> Ticks] /\ asked \in [Timers -> Ticks]
      /\ pending \in [Timers -> BOOLEAN] /\ due \in [Turners -> Seq(Timers)]
      /\ place_of \in [Timers -> (Levels \X (0..(WHEEL_SIZE - 1))) \cup {Nowhere}]
      /\ stopped \subseteq Timers
  BY <1>2 DEF TimerTypeOK
<1>4. /\ e \in Ticks /\ a \in Ticks
      /\ 0 <= Diff(e, a) /\ Diff(e, a) <= 2
  <2>1. delay \in Nat /\ -1 <= Diff(clock, wheel_now)
    BY <1>2, TimersAssumption DEF TimerInv, HandOK
  <2>2. FiledFrom = IF Diff(clock, wheel_now) < 0 THEN wheel_now ELSE clock
    BY DEF FiledFrom
  <2> DEFINE tk == ticks
             ff == FiledFrom
  <2>3. tk = (IF delay = 0 THEN 1 ELSE delay) /\ tk < WHEEL_REACH
    BY <1>1
  <2> HIDE DEF ticks, tk, ff
  <2>4. /\ (ff + tk) % TickSpace \in Ticks
        /\ (clock + delay) % TickSpace \in Ticks
        /\ 0 <= Diff((ff + tk) % TickSpace, (clock + delay) % TickSpace)
        /\ Diff((ff + tk) % TickSpace, (clock + delay) % TickSpace) <= 2
    <3>1. ff = IF Diff(clock, wheel_now) < 0 THEN wheel_now ELSE clock
      BY <2>2 DEF ff
    <3> QED
      BY <1>3, <2>1, <2>3, <3>1, StartAsks, Zenon
  <2> QED
    BY <2>4 DEF tk, ff
<1> HIDE DEF e, a, ticks
<1>5. 0 <= Diff(e, wheel_now) /\ Diff(e, wheel_now) < WHEEL_REACH
  <2> DEFINE g == (e - wheel_now) % TickSpace
  <2>1. e - wheel_now \in Int /\ TickSpace \in Nat \ {0}
    BY <1>3, <1>4, TickFacts
  <2>2. 0 <= g /\ g \in Int /\ g < WHEEL_REACH
    BY <1>1, <2>1, TickDivided
  <2>3. Diff(e, wheel_now) = IF g < Half THEN g ELSE g - TickSpace
    BY TickFacts, Zenon DEF Diff
  <2> HIDE DEF g
  <2> QED
    BY <2>2, <2>3, TickFacts
<1>6. Sits(p, e, wheel_now)
  <2>1. FiledAt(p, e, Diff(e, wheel_now))
    BY <1>3, <1>4, <1>5, Placed, Zenon
  <2> QED
    BY <2>1, Zenon DEF FiledAt, Sits
<1>7. p \in Levels \X (0..(WHEEL_SIZE - 1)) /\ p # Nowhere
  BY <1>3, <1>4, <1>6, SitsSomewhere, Zenon
<1> HIDE DEF p
<1>8. TimerTypeOK'
  BY <1>1, <1>3, <1>4, <1>7 DEF TimerTypeOK
<1>9. \A u \in Timers : u # t => /\ expires'[u] = expires[u]
                                 /\ asked'[u] = asked[u]
                                 /\ pending'[u] = pending[u]
                                 /\ place_of'[u] = place_of[u]
  BY <1>1, <1>3
<1>10. expires'[t] = e /\ asked'[t] = a /\ pending'[t] = TRUE /\ place_of'[t] = p
  BY <1>1, <1>3
<1>11. clock' = clock /\ wheel_now' = wheel_now /\ due' = due
  BY <1>1
<1>12. WheelOK'
  BY <1>2, <1>5, <1>6, <1>9, <1>10, <1>11 DEF TimerInv, WheelOK
<1>13. AskedOK'
  BY <1>2, <1>4, <1>9, <1>10 DEF TimerInv, AskedOK
<1>14. HandOK'
  BY <1>2, <1>11 DEF TimerInv, HandOK
<1>15. Filed(place_of', pending')
  BY <1>2, <1>9, <1>10 DEF TimerInv, Filed
<1>16. ASSUME NEW c \in Turners, NEW i \in 1..Len(due[c])
       PROVE  due[c][i] \in Timers /\ due[c][i] # t
  <2>1. pending[due[c][i]]
    BY <1>2, Zenon DEF TimerInv, Chained
  <2> QED
    BY <2>1, <1>1, <1>3
<1>17. Chained(place_of', expires', pending', due', clock')
  <2> SUFFICES ASSUME NEW c \in Turners, NEW i \in 1..Len(due[c])
               PROVE  /\ pending'[due[c][i]]
                      /\ place_of'[due[c][i]] = Nowhere
                      /\ 0 <= Diff(clock, expires'[due[c][i]])
                      /\ Diff(clock, expires'[due[c][i]]) <= MaxLag
    BY <1>11, Zenon DEF Chained
  <2> QED
    BY <1>2, <1>9, <1>16, Zenon DEF TimerInv, Chained
<1>18. Apart(due')
  BY <1>2, <1>11, Zenon DEF TimerInv
<1>19. Kept(place_of', pending', due')
  <2> SUFFICES ASSUME NEW u \in Timers, pending'[u]
               PROVE  \/ place_of'[u] # Nowhere
                      \/ \E c \in Turners : \E i \in 1..Len(due[c]) : due[c][i] = u
    BY <1>11, Zenon DEF Kept
  <2>1. CASE u = t
    BY <2>1, <1>7, <1>10, Zenon
  <2>2. CASE u # t
    BY <2>2, <1>2, <1>9, Zenon DEF TimerInv, Kept
  <2> QED
    BY <2>1, <2>2, Zenon
<1> QED
  BY <1>8, <1>12, <1>13, <1>14, <1>15, <1>17, <1>18, <1>19 DEF TimerInv

\* A cancel that comes while no chain holds the timer takes it off its slot.
LEMMA CancelKeeps ==
    ASSUME NEW t \in Timers, TimerInv, timer_cancel(t), ~CancelRaces
    PROVE  TimerInv'
<1>1. /\ pending[t]
      /\ ~InChain(t)
      /\ pending' = [pending EXCEPT ![t] = FALSE]
      /\ place_of' = [place_of EXCEPT ![t] = Nowhere]
      /\ due' = [c \in Turners |-> Unchain(c, t)]
      /\ stopped' = stopped \cup {t}
      /\ expires' = [expires EXCEPT ![t] = 0]
      /\ asked' = [asked EXCEPT ![t] = 0]
      /\ UNCHANGED <<clock, wheel_now>>
  BY Zenon DEF timer_cancel
<1>2. TimerTypeOK /\ TimerInv
  BY DEF TimerInv
<1>3. /\ clock \in Ticks /\ wheel_now \in Ticks
      /\ expires \in [Timers -> Ticks] /\ asked \in [Timers -> Ticks]
      /\ pending \in [Timers -> BOOLEAN] /\ due \in [Turners -> Seq(Timers)]
      /\ place_of \in [Timers -> (Levels \X (0..(WHEEL_SIZE - 1))) \cup {Nowhere}]
      /\ stopped \subseteq Timers
  BY <1>2 DEF TimerTypeOK
<1>4. \A c \in Turners : \A i \in 1..Len(due[c]) : due[c][i] # t
  BY <1>1, Zenon DEF InChain
<1>5. due' = due
  <2>1. \A c \in Turners : Unchain(c, t) = due[c]
    BY <1>4, Zenon DEF Unchain
  <2> QED
    BY <2>1, <1>1, <1>3
<1>6. \A u \in Timers : u # t => /\ expires'[u] = expires[u]
                                 /\ asked'[u] = asked[u]
                                 /\ pending'[u] = pending[u]
                                 /\ place_of'[u] = place_of[u]
  BY <1>1, <1>3
<1>7. pending'[t] = FALSE /\ place_of'[t] = Nowhere
  BY <1>1, <1>3
<1>8. clock' = clock /\ wheel_now' = wheel_now
  BY <1>1
<1>9. TimerTypeOK'
  BY <1>1, <1>3, <1>5, TickFacts DEF TimerTypeOK
<1>10. WheelOK'
  BY <1>2, <1>6, <1>7, <1>8 DEF TimerInv, WheelOK
<1>11. AskedOK'
  BY <1>2, <1>6, <1>7 DEF TimerInv, AskedOK
<1>12. HandOK'
  BY <1>2, <1>8 DEF TimerInv, HandOK
<1>13. Filed(place_of', pending')
  BY <1>2, <1>6, <1>7 DEF TimerInv, Filed
<1>14. Chained(place_of', expires', pending', due', clock')
  <2> SUFFICES ASSUME NEW c \in Turners, NEW i \in 1..Len(due[c])
               PROVE  /\ pending'[due[c][i]]
                      /\ place_of'[due[c][i]] = Nowhere
                      /\ 0 <= Diff(clock, expires'[due[c][i]])
                      /\ Diff(clock, expires'[due[c][i]]) <= MaxLag
    BY <1>5, <1>8, Zenon DEF Chained
  <2>1. due[c][i] \in Timers /\ due[c][i] # t
    BY <1>3, <1>4
  <2> QED
    BY <2>1, <1>2, <1>6, Zenon DEF TimerInv, Chained
<1>15. Apart(due')
  BY <1>2, <1>5, Zenon DEF TimerInv
<1>16. Kept(place_of', pending', due')
  <2> SUFFICES ASSUME NEW u \in Timers, pending'[u]
               PROVE  \/ place_of'[u] # Nowhere
                      \/ \E c \in Turners : \E i \in 1..Len(due[c]) : due[c][i] = u
    BY <1>5, Zenon DEF Kept
  <2>1. u # t
    BY <1>7, Zenon
  <2> QED
    BY <2>1, <1>2, <1>6, Zenon DEF TimerInv, Kept
<1> QED
  BY <1>9, <1>10, <1>11, <1>12, <1>13, <1>14, <1>15, <1>16 DEF TimerInv

\* An order of a set is a list of it without repeats.
LEMMA OrdersAre ==
    ASSUME NEW R, IsFiniteSet(R), NEW s \in Orders(R)
    PROVE  /\ s \in Seq(R)
           /\ \A i, j \in 1..Len(s) : s[i] = s[j] => i = j
           /\ \A x \in R : \E i \in 1..Len(s) : s[i] = x
<1> DEFINE n == Cardinality(R)
<1>1. n \in Nat
  BY FS_CardinalityType
<1>2. s \in [1..n -> R] /\ \A i, j \in 1..n : s[i] = s[j] => i = j
  BY Zenon DEF Orders
<1>3. IsFiniteSet(1..n) /\ Cardinality(1..n) = n
  BY <1>1, FS_Interval
<1>4. s \in Injection(1..n, R)
  BY <1>2, Zenon DEF Injection, IsInjective
<1>5. s \in Surjection(1..n, R)
  BY <1>3, <1>4, FS_Injection, Zenon
<1>6. \A x \in R : \E i \in 1..n : s[i] = x
  BY <1>5, Zenon DEF Surjection
<1> HIDE DEF n
<1>7. s \in Seq(R) /\ Len(s) = n
  BY <1>1, <1>2
<1> QED
  BY <1>2, <1>6, <1>7

\* What running the first timer of chain s leaves: nothing, if there is none;
\* otherwise that timer is no longer pending and the rest still waits.
LEMMA RunKeeps ==
    ASSUME NEW c \in Turners, NEW s \in Seq(Timers), RunFirst(c, s),
           s = <<>> => due[c] = <<>>,
           NEW pl, NEW k,
           due \in [Turners -> Seq(Timers)], pending \in [Timers -> BOOLEAN],
           expires \in [Timers -> Ticks], asked \in [Timers -> Ticks],
           NEW ch \in [Turners -> Seq(Timers)], ch[c] = s,
           \A d \in Turners : d # c => ch[d] = due[d],
           Filed(pl, pending), Chained(pl, expires, pending, ch, k), Apart(ch),
           Kept(pl, pending, ch)
    PROVE  /\ due' \in [Turners -> Seq(Timers)] /\ pending' \in [Timers -> BOOLEAN]
           /\ expires' \in [Timers -> Ticks] /\ asked' \in [Timers -> Ticks]
           /\ \A t \in Timers : pl[t] # Nowhere \/ pending'[t] =>
                /\ expires'[t] = expires[t]
                /\ asked'[t] = asked[t]
           /\ \A t \in Timers : pending'[t] => pending[t]
           /\ \A t \in Timers : pending[t] /\ ~pending'[t] =>
                0 <= Diff(k, expires[t]) /\ Diff(k, expires[t]) <= MaxLag
           /\ Filed(pl, pending')
           /\ Chained(pl, expires', pending', due', k)
           /\ Apart(due')
           /\ Kept(pl, pending', due')
<1>1. CASE s = <<>>
  <2>1. UNCHANGED <<pending, due, expires, asked>>
    BY <1>1, Zenon DEF RunFirst
  <2>2. ch = due
    <3>1. \A d \in Turners : ch[d] = due[d]
      BY <1>1
    <3> QED
      BY <3>1
  <2> QED
    BY <2>1, <2>2
<1>2. CASE s # <<>>
  <2> DEFINE h == Head(s)
  <2>1. /\ pending' = [pending EXCEPT ![h] = FALSE]
        /\ due' = [due EXCEPT ![c] = Tail(s)]
        /\ expires' = [expires EXCEPT ![h] = 0]
        /\ asked' = [asked EXCEPT ![h] = 0]
    BY <1>2, Zenon DEF RunFirst
  <2>2. /\ Len(s) \in Nat /\ 1 \in 1..Len(s) /\ h = s[1] /\ h \in Timers
        /\ Tail(s) \in Seq(Timers) /\ Len(Tail(s)) = Len(s) - 1
        /\ \A i \in 1..Len(Tail(s)) : i + 1 \in 1..Len(s) /\ Tail(s)[i] = s[i + 1]
    BY <1>2
  <2>3. ch[c] = s /\ ch \in [Turners -> Seq(Timers)] /\ \A d \in Turners : d # c => ch[d] = due[d]
    OBVIOUS
  <2>4. /\ pending[h] /\ pl[h] = Nowhere
        /\ 0 <= Diff(k, expires[h]) /\ Diff(k, expires[h]) <= MaxLag
    <3>1. ch[c][1] = h /\ 1 \in 1..Len(ch[c])
      BY <2>2, <2>3, Zenon
    <3>2. /\ pending[ch[c][1]] /\ pl[ch[c][1]] = Nowhere
          /\ 0 <= Diff(k, expires[ch[c][1]]) /\ Diff(k, expires[ch[c][1]]) <= MaxLag
      BY <3>1, Zenon DEF Chained
    <3> QED
      BY <3>1, <3>2, Zenon
  <2> HIDE DEF h
  <2>5. /\ due' \in [Turners -> Seq(Timers)] /\ pending' \in [Timers -> BOOLEAN]
        /\ expires' \in [Timers -> Ticks] /\ asked' \in [Timers -> Ticks]
    BY <2>1, <2>2, TickFacts
  <2>6. /\ pending'[h] = FALSE
        /\ \A t \in Timers : t # h => /\ pending'[t] = pending[t]
                                      /\ expires'[t] = expires[t]
                                      /\ asked'[t] = asked[t]
    BY <2>1, <2>2
  <2>7. due'[c] = Tail(s) /\ \A d \in Turners : d # c => due'[d] = due[d]
    BY <2>1
  \* Each place in a chain is a place in the chain it was in, not the first.
  <2>8. ASSUME NEW d \in Turners, NEW i \in 1..Len(due'[d])
        PROVE  \E m \in 1..Len(ch[d]) : /\ due'[d][i] = ch[d][m]
                                        /\ m = (IF d = c THEN i + 1 ELSE i)
                                        /\ ch[d][m] # h /\ ch[d][m] \in Timers
    <3> DEFINE m == IF d = c THEN i + 1 ELSE i
    <3>1. m \in 1..Len(ch[d]) /\ due'[d][i] = ch[d][m]
      <4>1. CASE d = c
        BY <4>1, <2>2, <2>3, <2>7
      <4>2. CASE d # c
        BY <4>2, <2>3, <2>7
      <4> QED
        BY <4>1, <4>2
    <3>2. d = c => m # 1
      <4>1. i \in Nat /\ i >= 1
        OBVIOUS
      <4> QED
        BY <4>1
    <3>3. ch[d][m] \in Timers
      BY <2>3, <3>1
    <3> HIDE DEF m
    <3>4. ASSUME ch[d][m] = h PROVE FALSE
      <4>1. ch[d][m] = ch[c][1]
        BY <3>4, <2>2, <2>3, Zenon
      <4>2. 1 \in 1..Len(ch[c])
        BY <2>2, <2>3, Zenon
      <4>3. d = c /\ m = 1
        BY <4>1, <4>2, <3>1 DEF Apart
      <4> QED
        BY <4>3, <3>2, Zenon
    <3> QED
      BY <3>1, <3>3, <3>4 DEF m
  <2>9. Filed(pl, pending')
    <3> SUFFICES ASSUME NEW t \in Timers, pl[t] # Nowhere PROVE pending'[t]
      BY Zenon DEF Filed
    <3>1. t # h /\ pending[t]
      BY <2>4, Zenon DEF Filed
    <3> QED
      BY <3>1, <2>6, Zenon
  <2>10. Chained(pl, expires', pending', due', k)
    <3> SUFFICES ASSUME NEW d \in Turners, NEW i \in 1..Len(due'[d])
                 PROVE  /\ pending'[due'[d][i]]
                        /\ pl[due'[d][i]] = Nowhere
                        /\ 0 <= Diff(k, expires'[due'[d][i]])
                        /\ Diff(k, expires'[due'[d][i]]) <= MaxLag
      BY Zenon DEF Chained
    <3>1. PICK m \in 1..Len(ch[d]) : /\ due'[d][i] = ch[d][m]
                                     /\ ch[d][m] # h /\ ch[d][m] \in Timers
      BY <2>8
    <3>2. /\ pending[ch[d][m]]
          /\ pl[ch[d][m]] = Nowhere
          /\ 0 <= Diff(k, expires[ch[d][m]])
          /\ Diff(k, expires[ch[d][m]]) <= MaxLag
      BY <3>1, Zenon DEF Chained
    <3> QED
      BY <3>1, <3>2, <2>6, Zenon
  <2>11. Apart(due')
    <3> SUFFICES ASSUME NEW d \in Turners, NEW e \in Turners,
                        NEW i \in 1..Len(due'[d]), NEW j \in 1..Len(due'[e]),
                        due'[d][i] = due'[e][j]
                 PROVE  d = e /\ i = j
      BY Zenon DEF Apart
    <3>1. PICK m \in 1..Len(ch[d]) : due'[d][i] = ch[d][m] /\ m = (IF d = c THEN i + 1 ELSE i)
      BY <2>8
    <3>2. PICK n \in 1..Len(ch[e]) : due'[e][j] = ch[e][n] /\ n = (IF e = c THEN j + 1 ELSE j)
      BY <2>8
    <3>3. d = e /\ m = n
      <4>1. ch[d][m] = ch[e][n]
        BY <3>1, <3>2
      <4>2. \A i1 \in 1..Len(ch[d]) : \A j1 \in 1..Len(ch[e]) :
              ch[d][i1] = ch[e][j1] => d = e /\ i1 = j1
        BY Zenon DEF Apart
      <4> QED
        BY <4>1, <4>2, Zenon
    <3>4. i \in Int /\ j \in Int
      OBVIOUS
    <3>5. i = j
      BY <3>1, <3>2, <3>3, <3>4
    <3> QED
      BY <3>3, <3>5
  <2>12. Kept(pl, pending', due')
    <3> SUFFICES ASSUME NEW t \in Timers, pending'[t], pl[t] = Nowhere
                 PROVE  \E d \in Turners : \E i \in 1..Len(due'[d]) : due'[d][i] = t
      BY Zenon DEF Kept
    <3>1. t # h /\ pending[t]
      BY <2>6, Zenon
    <3>2. PICK d \in Turners : \E i \in 1..Len(ch[d]) : ch[d][i] = t
      BY <3>1, Zenon DEF Kept
    <3>3. PICK i \in 1..Len(ch[d]) : ch[d][i] = t
      BY <3>2
    <3>4. CASE d = c
      <4>1. s[i] = t /\ i \in 1..Len(s)
        BY <3>3, <3>4, <2>3, Zenon
      <4>2. i # 1
        BY <4>1, <3>1, <2>2
      <4>3. i - 1 \in 1..Len(Tail(s)) /\ i - 1 + 1 = i
        BY <4>1, <4>2, <2>2
      <4>4. Tail(s)[i - 1] = s[i]
        BY <4>3, <2>2
      <4>5. i - 1 \in 1..Len(due'[c]) /\ due'[c][i - 1] = t
        BY <4>1, <4>3, <4>4, <2>7, Zenon
      <4> QED
        BY <4>5, Zenon
    <3>5. CASE d # c
      <4>1. due'[d] = ch[d]
        BY <3>5, <2>3, <2>7, Zenon
      <4> QED
        BY <4>1, <3>3, Zenon
    <3> QED
      BY <3>4, <3>5, Zenon
  <2>13. \A t \in Timers : pl[t] # Nowhere \/ pending'[t] =>
             expires'[t] = expires[t] /\ asked'[t] = asked[t]
    BY <2>4, <2>6, Zenon
  <2>14. \A t \in Timers : pending'[t] => pending[t]
    BY <2>6, Zenon
  <2>15. \A t \in Timers : pending[t] /\ ~pending'[t] =>
             0 <= Diff(k, expires[t]) /\ Diff(k, expires[t]) <= MaxLag
    BY <2>4, <2>6, Zenon
  <2> QED
    BY <2>5, <2>9, <2>10, <2>11, <2>12, <2>13, <2>14, <2>15, Zenon
<1> QED
  BY <1>1, <1>2, Zenon

\* One turn of timer_tick: the timers of the slot become the chain, and the
\* hand moves on.
LEMMA TickKeeps ==
    ASSUME NEW c \in Turners, TimerInv, timer_tick(c)
    PROVE  /\ TimerInv'
           /\ \A t \in Timers : pending[t] /\ ~pending'[t] =>
                0 <= Diff(clock, expires[t]) /\ Diff(clock, expires[t]) <= MaxLag
<1> DEFINE filed == cascade
           ripe == {t \in Timers : filed[t] = SlotAt(0, wheel_now)}
<1>1. /\ due[c] = <<>>
      /\ Diff(clock, wheel_now) >= 0
      /\ place_of' = [t \in Timers |-> IF t \in ripe THEN Nowhere ELSE filed[t]]
      /\ \E s \in Orders(ripe) : RunFirst(c, s)
      /\ wheel_now' = (wheel_now + 1) % TickSpace
      /\ UNCHANGED <<clock, stopped>>
  BY Zenon DEF timer_tick
<1>2. TimerTypeOK /\ TimerInv
  BY DEF TimerInv
<1>3. /\ clock \in Ticks /\ wheel_now \in Ticks
      /\ expires \in [Timers -> Ticks] /\ asked \in [Timers -> Ticks]
      /\ pending \in [Timers -> BOOLEAN] /\ due \in [Turners -> Seq(Timers)]
      /\ place_of \in [Timers -> (Levels \X (0..(WHEEL_SIZE - 1))) \cup {Nowhere}]
      /\ stopped \subseteq Timers
  BY <1>2 DEF TimerTypeOK
<1>4. \A t \in Timers :
        filed[t] = IF \E l \in Advancing(wheel_now) : place_of[t] = SlotAt(l, wheel_now)
                   THEN place(expires[t], wheel_now)
                   ELSE place_of[t]
  BY DEF cascade
<1>5. PICK s \in Orders(ripe) : RunFirst(c, s)
  BY <1>1
<1>6. /\ ripe \subseteq Timers
      /\ \A t \in Timers : t \in ripe <=> filed[t] = SlotAt(0, wheel_now)
  OBVIOUS
<1>7. \A t \in Timers : place_of'[t] = IF t \in ripe THEN Nowhere ELSE filed[t]
  BY <1>1
<1> HIDE DEF filed, ripe
<1>8. 0 \in Levels /\ wheel_now \in Int /\ SlotAt(0, wheel_now) # Nowhere
  <2>1. 0 \in Levels
    BY WheelAssumption DEF Levels
  <2> QED
    BY <2>1, <1>3, TickInt, SlotsType, Zenon
<1>9. ASSUME NEW t \in Timers, place_of[t] = Nowhere
      PROVE  filed[t] = Nowhere /\ t \notin ripe
  <2>1. ASSUME NEW l \in Advancing(wheel_now) PROVE place_of[t] # SlotAt(l, wheel_now)
    <3>1. l \in Levels
      BY DEF Advancing
    <3> QED
      BY <3>1, <1>8, <1>9, SlotsType, Zenon
  <2>2. filed[t] = Nowhere
    BY <2>1, <1>4, <1>9, Zenon
  <2> QED
    BY <2>2, <1>6, <1>8, Zenon
<1>10. ASSUME NEW t \in Timers, place_of[t] # Nowhere
       PROVE  /\ filed[t] # Nowhere
              /\ t \in ripe => expires[t] = wheel_now
              /\ t \notin ripe => /\ Sits(filed[t], expires[t], wheel_now')
                                  /\ Diff(expires[t], wheel_now') < WHEEL_REACH
  <2> DEFINE p == place_of[t]
             e == expires[t]
             f == filed[t]
  <2>1. Sits(p, e, wheel_now) /\ Diff(e, wheel_now) < WHEEL_REACH /\ e \in Ticks
    BY <1>2, <1>3, <1>10 DEF TimerInv, WheelOK
  <2>2. f = IF \E l \in Advancing(wheel_now) : p = SlotAt(l, wheel_now)
            THEN place(e, wheel_now) ELSE p
    BY <1>4, Zenon
  <2> HIDE DEF p, e, f
  <2>3. /\ f # Nowhere
        /\ f = SlotAt(0, wheel_now) => e = wheel_now
        /\ f # SlotAt(0, wheel_now) =>
             /\ Sits(f, e, (wheel_now + 1) % TickSpace)
             /\ Diff(e, (wheel_now + 1) % TickSpace) < WHEEL_REACH
    BY <1>3, <2>1, <2>2, Turned, ZenonT(60)
  <2>4. t \in ripe <=> f = SlotAt(0, wheel_now)
    BY <1>6, Zenon DEF f
  <2> QED
    BY <1>1, <2>3, <2>4, Zenon DEF e, f
<1>11. /\ s \in Seq(ripe) /\ s \in Seq(Timers)
       /\ \A i, j \in 1..Len(s) : s[i] = s[j] => i = j
       /\ \A x \in ripe : \E i \in 1..Len(s) : s[i] = x
       /\ \A i \in 1..Len(s) : s[i] \in ripe
  <2>1. IsFiniteSet(ripe)
    BY <1>6, TimersAssumption, FS_Subset
  <2>2. /\ s \in Seq(ripe)
        /\ \A i, j \in 1..Len(s) : s[i] = s[j] => i = j
        /\ \A x \in ripe : \E i \in 1..Len(s) : s[i] = x
    BY <2>1, OrdersAre, ZenonT(60)
  <2>3. \A i \in 1..Len(s) : s[i] \in ripe
    BY <2>2
  <2>4. s \in Seq(Timers)
    BY <2>2, <1>6
  <2> QED
    BY <2>2, <2>3, <2>4, Zenon
<1> DEFINE pl == place_of'
           ch == [due EXCEPT ![c] = s]
<1>12. /\ ch \in [Turners -> Seq(Timers)]
       /\ ch[c] = s
       /\ \A d \in Turners : d # c => ch[d] = due[d]
  BY <1>3, <1>11
<1>13. s = <<>> => due[c] = <<>>
  BY <1>1
<1> HIDE DEF ch
<1>14. Filed(pl, pending)
  <2> SUFFICES ASSUME NEW t \in Timers, place_of'[t] # Nowhere PROVE pending[t]
    BY Zenon DEF Filed
  <2>1. place_of[t] # Nowhere
    BY <1>7, <1>9, Zenon
  <2> QED
    BY <2>1, <1>2, Zenon DEF TimerInv, Filed
<1>15. Chained(pl, expires, pending, ch, clock)
  <2> SUFFICES ASSUME NEW d \in Turners, NEW i \in 1..Len(ch[d])
               PROVE  /\ pending[ch[d][i]]
                      /\ place_of'[ch[d][i]] = Nowhere
                      /\ 0 <= Diff(clock, expires[ch[d][i]])
                      /\ Diff(clock, expires[ch[d][i]]) <= MaxLag
    BY Zenon DEF Chained
  <2> DEFINE t == ch[d][i]
  <2>1. CASE d = c
    <3>1. t \in ripe
      BY <2>1, <1>11, <1>12
    <3>2. t \in Timers /\ place_of'[t] = Nowhere
      BY <3>1, <1>6, <1>7
    <3>3. place_of[t] # Nowhere
      BY <3>1, <3>2, <1>9, Zenon
    <3> HIDE DEF t
    <3>4. expires[t] = wheel_now
      BY <3>1, <3>2, <3>3, <1>10, Zenon
    <3>5. pending[t]
      BY <3>2, <3>3, <1>2, Zenon DEF TimerInv, Filed
    <3>6. 0 <= Diff(clock, wheel_now) /\ Diff(clock, wheel_now) <= MaxLag
      <4>1. Diff(clock, wheel_now) \in Int
        BY <1>3, DiffType
      <4> QED
        BY <4>1, <1>1, <1>2 DEF TimerInv, HandOK
    <3> QED
      BY <3>2, <3>4, <3>5, <3>6, Zenon DEF t
  <2>2. CASE d # c
    <3>1. ch[d] = due[d] /\ i \in 1..Len(due[d])
      BY <2>2, <1>12, Zenon
    <3>2. t = due[d][i] /\ t \in Timers
      BY <3>1, <1>3
    <3> HIDE DEF t
    <3>3. /\ pending[t] /\ place_of[t] = Nowhere
          /\ 0 <= Diff(clock, expires[t]) /\ Diff(clock, expires[t]) <= MaxLag
      BY <3>1, <3>2, <1>2, Zenon DEF TimerInv, Chained
    <3>4. place_of'[t] = Nowhere
      BY <3>2, <3>3, <1>7, <1>9, Zenon
    <3> QED
      BY <3>3, <3>4, Zenon DEF t
  <2> QED
    BY <2>1, <2>2, Zenon
<1>16. Apart(ch)
  <2>1. ASSUME NEW d \in Turners, d # c, NEW i \in 1..Len(ch[d])
        PROVE  ch[d][i] \notin ripe
    <3>1. ch[d] = due[d] /\ i \in 1..Len(due[d])
      BY <2>1, <1>12, Zenon
    <3>2. due[d][i] \in Timers
      BY <3>1, <1>3
    <3>3. place_of[due[d][i]] = Nowhere
      BY <3>1, <1>2, Zenon DEF TimerInv, Chained
    <3> QED
      BY <3>1, <3>2, <3>3, <1>9, Zenon
  <2>2. ASSUME NEW i \in 1..Len(ch[c]) PROVE ch[c][i] \in ripe
    BY <1>11, <1>12, Zenon
  <2> SUFFICES ASSUME NEW d \in Turners, NEW e \in Turners,
                      NEW i \in 1..Len(ch[d]), NEW j \in 1..Len(ch[e]), ch[d][i] = ch[e][j]
               PROVE  d = e /\ i = j
    BY Zenon DEF Apart
  <2>3. CASE d = c /\ e = c
    <3>1. s[i] = s[j] /\ i \in 1..Len(s) /\ j \in 1..Len(s)
      BY <2>3, <1>12, Zenon
    <3>2. i = j
      BY <3>1, <1>11, Zenon
    <3> QED
      BY <2>3, <3>2
  <2>4. CASE d = c /\ e # c
    <3>1. ch[d][i] \in ripe
      BY <2>2, <2>4, Zenon
    <3>2. ch[e][j] \notin ripe
      BY <2>1, <2>4, Zenon
    <3> QED
      BY <3>1, <3>2
  <2>5. CASE d # c /\ e = c
    <3>1. ch[e][j] \in ripe
      BY <2>2, <2>5, Zenon
    <3>2. ch[d][i] \notin ripe
      BY <2>1, <2>5, Zenon
    <3> QED
      BY <3>1, <3>2
  <2>6. CASE d # c /\ e # c
    <3>1. ch[d] = due[d] /\ ch[e] = due[e]
      BY <2>6, <1>12, Zenon
    <3>2. Apart(due)
      BY <1>2, Zenon DEF TimerInv
    <3>3. i \in 1..Len(due[d]) /\ j \in 1..Len(due[e]) /\ due[d][i] = due[e][j]
      BY <3>1, Zenon
    <3>4. \A i1 \in 1..Len(due[d]) : \A j1 \in 1..Len(due[e]) :
            due[d][i1] = due[e][j1] => d = e /\ i1 = j1
      BY <3>2, Zenon DEF Apart
    <3> QED
      BY <3>3, <3>4, Zenon
  <2> QED
    BY <2>3, <2>4, <2>5, <2>6, Zenon
<1>17. Kept(pl, pending, ch)
  <2> SUFFICES ASSUME NEW t \in Timers, pending[t], place_of'[t] = Nowhere
               PROVE  \E d \in Turners : \E i \in 1..Len(ch[d]) : ch[d][i] = t
    BY Zenon DEF Kept
  <2>1. CASE place_of[t] # Nowhere
    <3>1. t \in ripe
      BY <2>1, <1>7, <1>10, Zenon
    <3>2. \E i \in 1..Len(ch[c]) : ch[c][i] = t
      BY <3>1, <1>11, <1>12, Zenon
    <3> QED
      BY <3>2
  <2>2. CASE place_of[t] = Nowhere
    <3>1. PICK d \in Turners : \E i \in 1..Len(due[d]) : due[d][i] = t
      BY <2>2, <1>2, Zenon DEF TimerInv, Kept
    <3>2. d # c
      <4>1. Len(<<>>) = 0
        OBVIOUS
      <4> QED
        BY <3>1, <4>1, <1>1
    <3>3. ch[d] = due[d]
      BY <3>2, <1>12, Zenon
    <3> QED
      BY <3>1, <3>3, Zenon
  <2> QED
    BY <2>1, <2>2, Zenon
<1>18. /\ due' \in [Turners -> Seq(Timers)] /\ pending' \in [Timers -> BOOLEAN]
       /\ expires' \in [Timers -> Ticks] /\ asked' \in [Timers -> Ticks]
       /\ \A t \in Timers : pl[t] # Nowhere \/ pending'[t] =>
            /\ expires'[t] = expires[t]
            /\ asked'[t] = asked[t]
       /\ \A t \in Timers : pending'[t] => pending[t]
       /\ \A t \in Timers : pending[t] /\ ~pending'[t] =>
            0 <= Diff(clock, expires[t]) /\ Diff(clock, expires[t]) <= MaxLag
       /\ Filed(pl, pending')
       /\ Chained(pl, expires', pending', due', clock)
       /\ Apart(due')
       /\ Kept(pl, pending', due')
  <2> HIDE DEF pl
  <2> QED
    BY <1>3, <1>5, <1>11, <1>12, <1>13, <1>14, <1>15, <1>16, <1>17, RunKeeps, Zenon
<1>19. wheel_now' \in Ticks /\ clock' = clock /\ stopped' = stopped
  BY <1>1, <1>3, StepOn
<1>20. ASSUME NEW t \in Timers, place_of'[t] # Nowhere
       PROVE  /\ place_of'[t] \in Levels \X (0..(WHEEL_SIZE - 1))
              /\ Sits(place_of'[t], expires'[t], wheel_now')
              /\ Diff(expires'[t], wheel_now') < WHEEL_REACH
  <2>1. t \notin ripe /\ place_of'[t] = filed[t]
    BY <1>7, <1>20, Zenon
  <2>2. place_of[t] # Nowhere
    BY <2>1, <1>9, <1>20, Zenon
  <2>3. Sits(filed[t], expires[t], wheel_now') /\ Diff(expires[t], wheel_now') < WHEEL_REACH
    BY <2>1, <2>2, <1>10, Zenon
  <2>4. expires'[t] = expires[t]
    BY <1>18, <1>20, Zenon
  <2>5. expires[t] \in Ticks
    BY <1>3
  <2>6. filed[t] \in Levels \X (0..(WHEEL_SIZE - 1))
    BY <2>3, <2>5, <1>19, SitsSomewhere, Zenon
  <2> QED
    BY <2>1, <2>3, <2>4, <2>6, Zenon
<1>21. place_of' \in [Timers -> (Levels \X (0..(WHEEL_SIZE - 1))) \cup {Nowhere}]
  <2>1. \A t \in Timers : place_of'[t] \in (Levels \X (0..(WHEEL_SIZE - 1))) \cup {Nowhere}
    BY <1>20, Zenon
  <2>2. place_of' = [t \in Timers |-> place_of'[t]]
    BY <1>1
  <2> QED
    BY <2>1, <2>2
<1>22. TimerTypeOK'
  BY <1>3, <1>18, <1>19, <1>21 DEF TimerTypeOK
<1>23. WheelOK'
  BY <1>20, Zenon DEF WheelOK
<1>24. HandOK'
  <2>1. Diff(clock, wheel_now) \in Int /\ Diff(clock, wheel_now) <= MaxLag
    BY <1>2, <1>3, DiffType DEF TimerInv, HandOK
  <2>2. Diff(clock, wheel_now) > -Half
    BY <2>1, <1>1, TickFacts
  <2>3. Diff(clock, wheel_now') = Diff(clock, wheel_now) - 1
    BY <2>2, <1>1, <1>3, StepDiff, Zenon
  <2> QED
    BY <2>1, <2>3, <1>1, <1>19, TickFacts DEF HandOK
<1>25. AskedOK'
  BY <1>2, <1>18, Zenon DEF TimerInv, AskedOK
<1> QED
  BY <1>18, <1>19, <1>22, <1>23, <1>24, <1>25 DEF TimerInv

\* Back from a callback, the next timer of the chain is run.
LEMMA RunNextKeeps ==
    ASSUME NEW c \in Turners, TimerInv, RunNext(c)
    PROVE  /\ TimerInv'
           /\ \A t \in Timers : pending[t] /\ ~pending'[t] =>
                0 <= Diff(clock, expires[t]) /\ Diff(clock, expires[t]) <= MaxLag
<1>1. RunFirst(c, due[c]) /\ UNCHANGED <<clock, wheel_now, place_of, stopped>>
  BY Zenon DEF RunNext
<1>2. TimerTypeOK /\ TimerInv
  BY DEF TimerInv
<1>3. /\ clock \in Ticks /\ wheel_now \in Ticks
      /\ expires \in [Timers -> Ticks] /\ asked \in [Timers -> Ticks]
      /\ pending \in [Timers -> BOOLEAN] /\ due \in [Turners -> Seq(Timers)]
      /\ place_of \in [Timers -> (Levels \X (0..(WHEEL_SIZE - 1))) \cup {Nowhere}]
      /\ stopped \subseteq Timers
  BY <1>2 DEF TimerTypeOK
<1>4. /\ Filed(place_of, pending) /\ Chained(place_of, expires, pending, due, clock)
      /\ Apart(due) /\ Kept(place_of, pending, due)
  BY <1>2, Zenon DEF TimerInv
<1> DEFINE s == due[c]
<1>5. s \in Seq(Timers) /\ RunFirst(c, s) /\ due[c] = s /\ (s = <<>> => due[c] = <<>>)
  BY <1>1, <1>3
<1> HIDE DEF s
<1>6. /\ due' \in [Turners -> Seq(Timers)] /\ pending' \in [Timers -> BOOLEAN]
      /\ expires' \in [Timers -> Ticks] /\ asked' \in [Timers -> Ticks]
      /\ \A t \in Timers : place_of[t] # Nowhere \/ pending'[t] =>
           /\ expires'[t] = expires[t]
           /\ asked'[t] = asked[t]
      /\ \A t \in Timers : pending'[t] => pending[t]
      /\ \A t \in Timers : pending[t] /\ ~pending'[t] =>
           0 <= Diff(clock, expires[t]) /\ Diff(clock, expires[t]) <= MaxLag
      /\ Filed(place_of, pending')
      /\ Chained(place_of, expires', pending', due', clock)
      /\ Apart(due')
      /\ Kept(place_of, pending', due')
  BY <1>3, <1>4, <1>5, RunKeeps, Zenon
<1>7. clock' = clock /\ wheel_now' = wheel_now /\ place_of' = place_of /\ stopped' = stopped
  BY <1>1
<1>8. TimerTypeOK'
  BY <1>3, <1>6, <1>7, Zenon DEF TimerTypeOK
<1>9. WheelOK' /\ HandOK' /\ AskedOK'
  <2>1. WheelOK'
    BY <1>2, <1>6, <1>7, Zenon DEF TimerInv, WheelOK
  <2>2. HandOK'
    BY <1>2, <1>7 DEF TimerInv, HandOK
  <2>3. AskedOK'
    BY <1>2, <1>6, Zenon DEF TimerInv, AskedOK
  <2> QED
    BY <2>1, <2>2, <2>3
<1>10. /\ Filed(place_of, pending)' /\ Chained(place_of, expires, pending, due, clock)'
       /\ Apart(due)' /\ Kept(place_of, pending, due)'
  BY <1>6, <1>7, Zenon
<1> QED
  BY <1>6, <1>8, <1>9, <1>10 DEF TimerInv

LEMMA TimerNextInv == ~CancelRaces /\ TimerInv /\ [TimerNext]_timer_vars => TimerInv'
<1> SUFFICES ASSUME ~CancelRaces, TimerInv, [TimerNext]_timer_vars PROVE TimerInv'
  OBVIOUS
<1>1. CASE ClockTicks
  BY <1>1, ClockKeeps, Zenon
<1>2. ASSUME NEW t \in Timers, timer_cancel(t) PROVE TimerInv'
  BY <1>2, CancelKeeps, Zenon
<1>3. ASSUME NEW t \in Timers, NEW d \in Delays, timer_start(t, d) PROVE TimerInv'
  BY <1>3, StartKeeps, Zenon
<1>4. ASSUME NEW c \in Turners, timer_tick(c) PROVE TimerInv'
  BY <1>4, TickKeeps, Zenon
<1>5. ASSUME NEW c \in Turners, RunNext(c) PROVE TimerInv'
  BY <1>5, RunNextKeeps, Zenon
<1>6. CASE UNCHANGED timer_vars
  BY <1>6 DEF timer_vars, TimerInv, TimerTypeOK, WheelOK, HandOK, AskedOK,
              Filed, Chained, Apart, Kept
<1> QED
  BY <1>1, <1>2, <1>3, <1>4, <1>5, <1>6, Zenon DEF TimerNext

\* TimerInv is an invariant of the wheel as long as no cancel comes between
\* two callbacks of one slot.
THEOREM TimerInvariance == ~CancelRaces => (TimerSpec => []TimerInv)
<1> SUFFICES ASSUME ~CancelRaces PROVE TimerSpec => []TimerInv
  OBVIOUS
<1>1. TimerInit => TimerInv
  BY TimerInitInv
<1>2. TimerInv /\ [TimerNext]_timer_vars => TimerInv'
  BY TimerNextInv
<1> QED
  BY <1>1, <1>2, PTL DEF TimerSpec

\* The variables of the wheel hold what they are meant to hold.
THEOREM TimerTypeCorrect == ~CancelRaces => (TimerSpec => []TimerTypeOK)
<1> SUFFICES ASSUME ~CancelRaces PROVE TimerSpec => []TimerTypeOK
  OBVIOUS
<1>1. TimerInv => TimerTypeOK
  BY DEF TimerInv
<1>2. TimerSpec => []TimerInv
  BY TimerInvariance
<1> QED
  BY <1>1, <1>2, PTL

\* The hand never passes a filed timer (place, cascade, timer_tick).
THEOREM HandNeverPasses == ~CancelRaces => (TimerSpec => []NeverPassed)
<1> SUFFICES ASSUME ~CancelRaces PROVE TimerSpec => []NeverPassed
  OBVIOUS
<1>1. TimerInv => NeverPassed
  <2> SUFFICES ASSUME TimerInv, NEW t \in Timers, place_of[t] # Nowhere
               PROVE  Diff(expires[t], wheel_now) >= 0
    BY DEF NeverPassed
  <2>1. expires[t] \in Ticks /\ wheel_now \in Ticks
    BY DEF TimerInv, TimerTypeOK
  <2>2. Sits(place_of[t], expires[t], wheel_now)
    BY DEF TimerInv, WheelOK
  <2>3. 0 <= Diff(expires[t], wheel_now) /\ Diff(expires[t], wheel_now) \in Int
    BY <2>1, <2>2, SitsSomewhere, DiffType
  <2> QED
    BY <2>3
<1>2. TimerSpec => []TimerInv
  BY TimerInvariance
<1> QED
  BY <1>1, <1>2, PTL

\* A pending timer is in a slot or on a chain being worked through.
THEOREM NoTimerLost == ~CancelRaces => (TimerSpec => []NoneLost)
<1> SUFFICES ASSUME ~CancelRaces PROVE TimerSpec => []NoneLost
  OBVIOUS
<1>1. TimerInv => NoneLost
  BY Zenon DEF TimerInv, Kept, NoneLost, InChain
<1>2. TimerSpec => []TimerInv
  BY TimerInvariance
<1> QED
  BY <1>1, <1>2, PTL

\* No timer runs before its delay is over by the clock.
LEMMA LateEnough ==
    ASSUME NEW a \in Ticks, NEW b \in Ticks, NEW c \in Ticks,
           0 <= Diff(a, b), Diff(a, b) <= MaxLag, 0 <= Diff(b, c), Diff(b, c) <= 2
    PROVE  Diff(a, c) >= 0
<1> DEFINE d == Diff(a, b)
           e == Diff(b, c)
           f == d + e
<1>1. /\ d \in Int /\ (a - b = d \/ a - b = d + TickSpace \/ a - b = d - TickSpace)
      /\ e \in Int /\ (b - c = e \/ b - c = e + TickSpace \/ b - c = e - TickSpace)
  BY DiffType
<1>2. /\ a \in 0..(TickSpace - 1) /\ b \in 0..(TickSpace - 1) /\ c \in 0..(TickSpace - 1)
      /\ TickSpace \in Nat /\ Half \in Nat /\ TickSpace = 2 * Half
      /\ MaxLag \in Nat /\ WHEEL_REACH \in Nat /\ WHEEL_REACH >= 2 /\ MaxLag + WHEEL_REACH < Half
  BY TickFacts, Zenon
<1>3. 0 <= d /\ d <= MaxLag /\ 0 <= e /\ e <= 2
  OBVIOUS
<1> HIDE DEF d, e
<1>4. /\ f \in Int /\ 0 <= f /\ -Half <= f /\ f < Half
      /\ a - c = f \/ a - c = f + TickSpace \/ a - c = f - TickSpace
  BY <1>1, <1>2, <1>3
<1> HIDE DEF f
<1>5. Diff(a, c) = f
  BY <1>4, DiffIs
<1> QED
  BY <1>4, <1>5

\* A timer is never run before the delay asked for has passed by the clock
\* (timer_start, place, timer_tick).
THEOREM NothingEarly == ~CancelRaces => (TimerSpec => NeverEarly)
<1> SUFFICES ASSUME ~CancelRaces PROVE TimerSpec => NeverEarly
  OBVIOUS
<1> DEFINE Timely == \A t \in Timers : Fired(t) => Diff(clock, asked[t]) >= 0
<1>1. TimerInv /\ [TimerNext]_timer_vars => [Timely]_timer_vars
  <2> SUFFICES ASSUME TimerInv, TimerNext, NEW t \in Timers, Fired(t)
               PROVE  Diff(clock, asked[t]) >= 0
    BY Zenon
  <2>1. pending[t] /\ ~pending'[t] /\ t \notin stopped'
    BY DEF Fired
  <2>2. TimerTypeOK
    BY DEF TimerInv
  <2>3. /\ clock \in Ticks /\ expires[t] \in Ticks /\ asked[t] \in Ticks
        /\ pending \in [Timers -> BOOLEAN]
    BY <2>2 DEF TimerTypeOK
  <2>4. 0 <= Diff(clock, expires[t]) /\ Diff(clock, expires[t]) <= MaxLag
    <3>1. CASE ClockTicks
      BY <3>1, <2>1 DEF ClockTicks
    <3>2. ASSUME NEW u \in Timers, timer_cancel(u) PROVE FALSE
      <4>1. pending' = [pending EXCEPT ![u] = FALSE] /\ stopped' = stopped \cup {u}
        BY <3>2, Zenon DEF timer_cancel
      <4> QED
        BY <4>1, <2>1, <2>3
    <3>3. ASSUME NEW u \in Timers, NEW d \in Delays, timer_start(u, d) PROVE FALSE
      <4>1. pending' = [pending EXCEPT ![u] = TRUE]
        BY <3>3, Zenon DEF timer_start
      <4> QED
        BY <4>1, <2>1, <2>3
    <3>4. ASSUME NEW c \in Turners, timer_tick(c)
          PROVE  0 <= Diff(clock, expires[t]) /\ Diff(clock, expires[t]) <= MaxLag
      BY <3>4, <2>1, TickKeeps, Zenon
    <3>5. ASSUME NEW c \in Turners, RunNext(c)
          PROVE  0 <= Diff(clock, expires[t]) /\ Diff(clock, expires[t]) <= MaxLag
      BY <3>5, <2>1, RunNextKeeps, Zenon
    <3> QED
      BY <3>1, <3>2, <3>3, <3>4, <3>5, Zenon DEF TimerNext
  <2>5. 0 <= Diff(expires[t], asked[t]) /\ Diff(expires[t], asked[t]) <= 2
    BY <2>1, Zenon DEF TimerInv, AskedOK
  <2> QED
    BY <2>3, <2>4, <2>5, LateEnough, Zenon
<1>2. TimerSpec => []TimerInv
  BY TimerInvariance
<1> HIDE DEF Timely
<1>3. TimerSpec => [][Timely]_timer_vars
  BY <1>1, <1>2, PTL DEF TimerSpec
<1> QED
  BY <1>3 DEF NeverEarly, Timely
=============================================================================
