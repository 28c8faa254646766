------------------------------- MODULE Sched -------------------------------
(***************************************************************************)
(* The kernel's thread scheduler (kernel/core/sched.c), sleeping on a wait *)
(* queue (kernel/core/wait.c) and the deferred reaper that frees finished  *)
(* threads (kernel/core/work.c runs it).                                   *)
(*                                                                         *)
(* A section of code under ring_lock, a semaphore's guard or work_lock is  *)
(* one action.  A context switch is three: the decision under ring_lock    *)
(* (Switch), the change of stacks after the lock is gone (ContextSwitch),  *)
(* and the release of the predecessor by whoever runs next                 *)
(* (ReleaseLeaving).  Every other processor may act in between.            *)
(***************************************************************************)
EXTENDS Naturals, Sequences, FiniteSets

CONSTANTS
    Cpus,           \* the processors that are up
    BootCpu,        \* the processor the boot thread is pinned to
    Boot,           \* the boot thread, boot_threads[0]
    Worker,         \* the kworker thread
    Users,          \* slots for threads made by thread_create
    IdleOf,         \* cpus[c].idle, for every processor c
    None,           \* no thread and no processor: NULL and -1
    InitRing,       \* the order of the ring once every processor is up
    MaxCount,       \* bound on the semaphore's count
    CloseMaySleep   \* may the release of a dying program's files wait?

Idles == {IdleOf[c] : c \in Cpus}
Kernel == {Boot, Worker} \cup Idles     \* never exit, never reaped
Threads == Kernel \cup Users

ASSUME CpusAssumption ==
    /\ BootCpu \in Cpus
    /\ None \notin Cpus
    /\ None \notin Threads
ASSUME IdleAssumption ==
    /\ \A c, d \in Cpus : IdleOf[c] = IdleOf[d] => c = d
    /\ Boot \notin Idles
    /\ Worker \notin Idles \cup {Boot}
ASSUME UsersAssumption == Users \cap Kernel = {}
ASSUME FiniteAssumption == IsFiniteSet(Threads)
ASSUME CountAssumption == MaxCount \in Nat
ASSUME CloseAssumption == CloseMaySleep \in BOOLEAN
ASSUME RingAssumption ==
    /\ InitRing \in Seq(Threads)
    /\ \A t \in Kernel : \E i \in 1..Len(InitRing) : InitRing[i] = t
    /\ \A i \in 1..Len(InitRing) : InitRing[i] \in Kernel
    /\ \A i, j \in 1..Len(InitRing) : InitRing[i] = InitRing[j] => i = j

VARIABLES
    state,        \* thread->state; "unused": no such thread
    off_cpu,      \* thread->off_cpu
    idle_for,     \* thread->idle_for
    pinned_to,    \* thread->pinned_to
    ring,         \* the circular list, from the thread `ring` points at
    current,      \* cpu->current
    leaving,      \* cpu->leaving
    phase,        \* where the processor is in sched_switch
    stack,        \* whose stack the processor stands on
    saved,        \* thread->stack_pointer is that of a thread at rest
    pc,           \* where the thread's own code stands
    waiters,      \* the semaphore's wait queue
    count,        \* the semaphore's count
    work_waiting, \* the worker is on work_waiters
    reap_queued,  \* reaper_work.queued
    panicked      \* the machine has stopped in panic()

cpuVars    == <<current, leaving, phase, stack>>
threadVars == <<state, off_cpu, idle_for, pinned_to, saved, pc>>
semVars    == <<waiters, count>>
workVars   == <<work_waiting, reap_queued>>
vars == <<cpuVars, threadVars, semVars, workVars, ring, panicked>>

(***************************************************************************)
(* The places a thread's code can stand.                                   *)
(*   run       ordinary code, interrupts on                                *)
(*   queued    in wait_sleep, on the queue, interrupts off, about to switch *)
(*   waited    back from that switch, about to test its condition again    *)
(*   reaping   the worker, inside reap()                                   *)
(*   ended     in thread_exit, marked FINISHED, telling its process and    *)
(*             closing its files; interrupts on                            *)
(*   c_queued, c_waited   the same two, reached from "ended"               *)
(*   scheduled in thread_exit after work_schedule; interrupts on           *)
(*   gone      in thread_exit's own sched_switch                           *)
(***************************************************************************)
Places == {"run", "queued", "waited", "reaping", "ended", "c_queued",
           "c_waited", "scheduled", "gone"}
Interruptible == {"run", "reaping", "ended", "scheduled"}
States == {"unused", "ready", "running", "blocked", "finished"}

(***************************************************************************)
(* The ring.                                                               *)
(***************************************************************************)
InRing(t) == \E i \in 1..Len(ring) : ring[i] = t

ring_insert(t) == <<Head(ring), t>> \o Tail(ring)

\* The entry `ring` points at moves to its predecessor when it is removed.
ring_remove(t) ==
    LET i == CHOOSE j \in 1..Len(ring) : ring[j] = t
        n == Len(ring)
    IN  IF i = 1 THEN <<ring[n]>> \o SubSeq(ring, 2, n - 1)
                 ELSE SubSeq(ring, 1, i - 1) \o SubSeq(ring, i + 1, n)

\* How many steps of ->next lead from cur to t.
Distance(cur, t) ==
    LET pos(u) == CHOOSE j \in 1..Len(ring) : ring[j] = u
    IN  (pos(t) + Len(ring) - pos(cur)) % Len(ring)

Nearest(cur, S) ==
    {t \in S : \A u \in S : Distance(cur, t) <= Distance(cur, u)}

(***************************************************************************)
(* pick_next: the next thread willing to run on processor c, as the set    *)
(* whose only member it is.  An idle thread is the last resort.            *)
(***************************************************************************)
\* Mutant: READY is enough, whether or not its processor has left it.
TakeableOnCpu(c, t) ==
    /\ state[t] = "ready"
    /\ idle_for[t] \in {None, c}
    /\ pinned_to[t] \in {None, c}

Takeable(c, t) ==
    /\ state[t] = "ready"
    /\ off_cpu[t]
    /\ idle_for[t] \in {None, c}
    /\ pinned_to[t] \in {None, c}

\* Mutant: the thread that is still runnable keeps the processor.
pick_next_keep(cur, c) ==
    LET cand == {t \in Threads \ {cur} : InRing(t) /\ Takeable(c, t)}
        work == {t \in cand : idle_for[t] = None}
    IN  IF state[cur] = "running" /\ idle_for[cur] = None THEN {cur}
        ELSE IF work # {} THEN Nearest(cur, work)
        ELSE IF cand # {} THEN Nearest(cur, cand)
        ELSE {IdleOf[c]}

pick_next(cur, c) ==
    LET cand == {t \in Threads \ {cur} : InRing(t) /\ Takeable(c, t)}
        work == {t \in cand : idle_for[t] = None}
    IN  IF work # {} THEN Nearest(cur, work)
        ELSE IF state[cur] = "running" THEN {cur}
        ELSE IF cand # {} THEN Nearest(cur, cand)
        ELSE {IdleOf[c]}

(***************************************************************************)
(* After bring-up: every processor runs a thread it adopted, and the boot  *)
(* processor's idle thread and the worker are waiting for a turn.          *)
(***************************************************************************)
Adopted(c) == IF c = BootCpu THEN Boot ELSE IdleOf[c]

Init ==
    /\ state = [t \in Threads |->
                  IF t \in Users THEN "unused"
                  ELSE IF \E c \in Cpus : t = Adopted(c) THEN "running"
                  ELSE "ready"]
    /\ off_cpu = [t \in Threads |-> \A c \in Cpus : t # Adopted(c)]
    /\ idle_for = [t \in Threads |->
                     IF t \in Idles THEN CHOOSE c \in Cpus : IdleOf[c] = t
                                    ELSE None]
    /\ pinned_to = [t \in Threads |-> IF t = Boot THEN BootCpu ELSE None]
    /\ ring = InitRing
    /\ current = [c \in Cpus |-> Adopted(c)]
    /\ leaving = [c \in Cpus |-> None]
    /\ phase = [c \in Cpus |-> "run"]
    /\ stack = [c \in Cpus |-> Adopted(c)]
    /\ saved = [t \in Threads |-> t \notin Users /\ \A c \in Cpus : t # Adopted(c)]
    /\ pc = [t \in Threads |-> "run"]
    /\ waiters = <<>>
    /\ count = 0
    /\ work_waiting = FALSE
    /\ reap_queued = FALSE
    /\ panicked = FALSE

\* Processor c executes the code of its current thread, which stands at p.
At(c, p) == ~panicked /\ phase[c] = "run" /\ pc[current[c]] = p

\* Processor c can take an interrupt: nothing it runs has masked them.
IrqsOn(c) == ~panicked /\ phase[c] = "run" /\ pc[current[c]] \in Interruptible

(***************************************************************************)
(* thread_create_stopped and thread_start.                                 *)
(***************************************************************************)
thread_create_stopped(c, t) ==
    /\ At(c, "run")
    /\ idle_for[current[c]] = None
    /\ state[t] = "unused"
    /\ state' = [state EXCEPT ![t] = "ready"]
    /\ off_cpu' = [off_cpu EXCEPT ![t] = TRUE]
    /\ idle_for' = [idle_for EXCEPT ![t] = None]
    /\ pinned_to' = [pinned_to EXCEPT ![t] = None]
    /\ saved' = [saved EXCEPT ![t] = TRUE]
    /\ pc' = [pc EXCEPT ![t] = "run"]
    /\ UNCHANGED <<cpuVars, semVars, workVars, ring, panicked>>

thread_start(c, t) ==
    /\ At(c, "run")
    /\ state[t] = "ready"
    /\ ~InRing(t)
    /\ ring' = ring_insert(t)
    /\ UNCHANGED <<cpuVars, threadVars, semVars, workVars, panicked>>

\* The boot thread, once the boot sequence is over.
sched_this_thread_is_now_idle(c) ==
    /\ At(c, "run")
    /\ current[c] = Boot
    /\ idle_for[Boot] = None
    /\ idle_for' = [idle_for EXCEPT ![Boot] = c]
    /\ pinned_to' = [pinned_to EXCEPT ![Boot] = c]
    /\ UNCHANGED <<cpuVars, state, off_cpu, saved, pc, semVars, workVars,
                   ring, panicked>>

(***************************************************************************)
(* sched_switch, in its three parts.                                       *)
(***************************************************************************)

\* What brings a processor into sched_switch: a yield or the end of a slice
\* wherever interrupts are on, a sleeper that has queued itself, and the end
\* of thread_exit.  The slice counter is not kept: any tick may be the last.
EntersSwitch(c) ==
    /\ ~panicked
    /\ phase[c] = "run"
    /\ pc[current[c]] \in Interruptible \cup {"queued", "c_queued"}

PlaceAfterSwitch(p) ==
    CASE p = "queued"    -> {"waited"}
      [] p = "c_queued"  -> {"c_waited"}
      [] p = "scheduled" -> {"scheduled", "gone"}   \* preempted, or its own
      [] OTHER           -> {p}

\* Mutant: prev is made available before the switch (KF-159).
SwitchToEarly(c, prev, next) ==
    /\ next # prev
    /\ leaving' = [leaving EXCEPT ![c] = prev]
    /\ state' = [state EXCEPT ![next] = "running",
                             ![prev] = IF @ = "running" THEN "ready" ELSE @]
    /\ off_cpu' = [off_cpu EXCEPT ![next] = FALSE, ![prev] = TRUE]
    /\ current' = [current EXCEPT ![c] = next]
    /\ phase' = [phase EXCEPT ![c] = "switching"]
    /\ \E p \in PlaceAfterSwitch(pc[prev]) : pc' = [pc EXCEPT ![prev] = p]
    /\ UNCHANGED <<stack, saved, idle_for, pinned_to, semVars, workVars,
                   ring, panicked>>

\* The decision, under ring_lock: prev is left as it is, next is marked
\* RUNNING and not off its processor before the lock goes.
SwitchTo(c, prev, next) ==
    /\ next # prev
    /\ leaving' = [leaving EXCEPT ![c] = prev]
    /\ state' = [state EXCEPT ![next] = "running"]
    /\ off_cpu' = [off_cpu EXCEPT ![next] = FALSE]
    /\ current' = [current EXCEPT ![c] = next]
    /\ phase' = [phase EXCEPT ![c] = "switching"]
    /\ \E p \in PlaceAfterSwitch(pc[prev]) : pc' = [pc EXCEPT ![prev] = p]
    /\ UNCHANGED <<stack, saved, idle_for, pinned_to, semVars, workVars,
                   ring, panicked>>

\* Nothing to change to: prev keeps the processor.  A thread that finished
\* and was let back in falls through to the panic after its switch.
KeepsCpu(c, prev) ==
    /\ pc[prev] = "scheduled"
    /\ pc' = [pc EXCEPT ![prev] = "gone"]
    /\ UNCHANGED <<cpuVars, state, off_cpu, idle_for, pinned_to, saved,
                   semVars, workVars, ring, panicked>>

\* The idle thread pick_next falls back to runs idle_loop, which neither
\* exits nor sleeps, so the "nothing left to run" panic has no step here.
sched_switch(c) ==
    /\ EntersSwitch(c)
    /\ \E next \in pick_next(current[c], c) :
         IF next = current[c] THEN KeepsCpu(c, next)
                              ELSE SwitchTo(c, current[c], next)

\* arch_context_switch: prev's stack pointer is written, next's is loaded.
arch_context_switch(c) ==
    /\ ~panicked
    /\ phase[c] = "switching"
    /\ saved' = [saved EXCEPT ![leaving[c]] = TRUE, ![current[c]] = FALSE]
    /\ stack' = [stack EXCEPT ![c] = current[c]]
    /\ phase' = [phase EXCEPT ![c] = "arrived"]
    /\ UNCHANGED <<current, leaving, state, off_cpu, idle_for, pinned_to, pc,
                   semVars, workVars, ring, panicked>>

\* release_leaving, by the tail of sched_switch in a thread that has run
\* before and by sched_thread_first_run in one that has not.
release_leaving(c) ==
    LET gone == leaving[c]
    IN  /\ ~panicked
        /\ phase[c] = "arrived"
        /\ leaving' = [leaving EXCEPT ![c] = None]
        /\ state' = [state EXCEPT ![gone] = IF @ = "running" THEN "ready" ELSE @]
        /\ off_cpu' = [off_cpu EXCEPT ![gone] = TRUE]
        /\ phase' = [phase EXCEPT ![c] = "run"]
        /\ UNCHANGED <<current, stack, saved, idle_for, pinned_to, pc, semVars,
                       workVars, ring, panicked>>

\* The line after sched_switch in thread_exit.
FinishedRunsAgain(c) ==
    /\ At(c, "gone")
    /\ panicked' = TRUE
    /\ UNCHANGED <<cpuVars, threadVars, semVars, workVars, ring>>

(***************************************************************************)
(* wait.c: a counting semaphore, and the wait queue under it.              *)
(***************************************************************************)

\* The place of a thread that goes to sleep, and of one that has what it
\* wanted, by where it called from.
Sleeping(p) == IF p \in {"ended", "c_waited"} THEN "c_queued" ELSE "queued"
Served(p)   == IF p \in {"ended", "c_waited"} THEN "ended" ELSE "run"

\* semaphore_take's loop under the guard: once on entry, and once more each
\* time wait_sleep returns.  An idle thread is refused by wait_sleep and spins.
TakeOrSleep(t) ==
    \/ /\ count > 0
       /\ count' = count - 1
       /\ pc' = [pc EXCEPT ![t] = Served(@)]
       /\ UNCHANGED <<waiters, state>>
    \/ /\ count = 0
       /\ idle_for[t] = None
       /\ waiters' = Append(waiters, t)
       /\ state' = [state EXCEPT ![t] = "blocked"]
       /\ pc' = [pc EXCEPT ![t] = Sleeping(@)]
       /\ UNCHANGED count

\* The worker waits only for work; a dying thread takes what its files need.
MayTake(c) ==
    LET t == current[c]
    IN  /\ t # Worker
        /\ \/ At(c, "run") /\ idle_for[t] = None
           \/ At(c, "ended") /\ CloseMaySleep
           \/ At(c, "waited")
           \/ At(c, "c_waited")

semaphore_take(c) ==
    /\ MayTake(c)
    /\ TakeOrSleep(current[c])
    /\ UNCHANGED <<cpuVars, off_cpu, idle_for, pinned_to, saved, workVars,
                   ring, panicked>>

\* Mutant: a thread still on its way to the switch is not woken.
wakeOffCpu(t) ==
    [state EXCEPT ![t] = IF @ = "blocked" /\ off_cpu[t] THEN "ready" ELSE @]

wake(t) == [state EXCEPT ![t] = IF @ = "blocked" THEN "ready" ELSE @]

\* Mutant: only the give that finds the count at zero wakes anybody.
semaphore_give_first(c) ==
    /\ IrqsOn(c)
    /\ count < MaxCount
    /\ count' = count + 1
    /\ IF waiters = <<>> \/ count > 0 THEN UNCHANGED <<waiters, state>>
       ELSE /\ waiters' = Tail(waiters)
            /\ state' = wake(Head(waiters))
    /\ UNCHANGED <<cpuVars, off_cpu, idle_for, pinned_to, saved, pc, workVars,
                   ring, panicked>>

\* semaphore_give: by any running thread, or by an interrupt it takes.
semaphore_give(c) ==
    /\ IrqsOn(c)
    /\ count < MaxCount
    /\ count' = count + 1
    /\ IF waiters = <<>> THEN UNCHANGED <<waiters, state>>
       ELSE /\ waiters' = Tail(waiters)
            /\ state' = wake(Head(waiters))
    /\ UNCHANGED <<cpuVars, off_cpu, idle_for, pinned_to, saved, pc, workVars,
                   ring, panicked>>

(***************************************************************************)
(* thread_exit.                                                            *)
(***************************************************************************)
ExitMark(c) ==
    /\ At(c, "run")
    /\ current[c] \in Users
    /\ state' = [state EXCEPT ![current[c]] = "finished"]
    /\ pc' = [pc EXCEPT ![current[c]] = "ended"]
    /\ UNCHANGED <<cpuVars, off_cpu, idle_for, pinned_to, saved, semVars,
                   workVars, ring, panicked>>

\* Mutant: the item is queued and the worker is not woken.
ExitScheduleNoWake(c) ==
    /\ At(c, "ended")
    /\ pc' = [pc EXCEPT ![current[c]] = "scheduled"]
    /\ reap_queued' = TRUE
    /\ UNCHANGED <<cpuVars, state, off_cpu, idle_for, pinned_to, saved, semVars,
                   work_waiting, ring, panicked>>

\* process_thread_ended has returned: work_schedule(&reaper_work), which
\* wakes the worker unless the item is already waiting its turn.
ExitSchedule(c) ==
    /\ At(c, "ended")
    /\ pc' = [pc EXCEPT ![current[c]] = "scheduled"]
    /\ IF reap_queued THEN UNCHANGED <<workVars, state>>
       ELSE /\ reap_queued' = TRUE
            /\ work_waiting' = FALSE
            /\ state' = IF work_waiting THEN wake(Worker) ELSE state
    /\ UNCHANGED <<cpuVars, off_cpu, idle_for, pinned_to, saved, semVars, ring,
                   panicked>>

(***************************************************************************)
(* The worker: takes the reaper's work item, or sleeps until there is one. *)
(***************************************************************************)
worker_loop(c) ==
    /\ current[c] = Worker
    /\ At(c, "run") \/ At(c, "waited")
    /\ \/ /\ reap_queued
          /\ reap_queued' = FALSE
          /\ pc' = [pc EXCEPT ![Worker] = "reaping"]
          /\ UNCHANGED <<work_waiting, state>>
       \/ /\ ~reap_queued
          /\ work_waiting' = TRUE
          /\ state' = [state EXCEPT ![Worker] = "blocked"]
          /\ pc' = [pc EXCEPT ![Worker] = "queued"]
          /\ UNCHANGED reap_queued
    /\ UNCHANGED <<cpuVars, off_cpu, idle_for, pinned_to, saved, semVars, ring,
                   panicked>>

\* Mutant: finished is enough, whether or not it still stands on its stack.
ReapableOnCpu(c, t) ==
    /\ InRing(t)
    /\ state[t] = "finished"
    /\ t # current[c]
    /\ t # Boot

Reapable(c, t) ==
    /\ InRing(t)
    /\ state[t] = "finished"
    /\ off_cpu[t]
    /\ t # current[c]
    /\ t # Boot

\* reap: one pass under ring_lock that finds a victim, and its release.
ReapOne(c, t) ==
    /\ At(c, "reaping")
    /\ Reapable(c, t)
    /\ ring' = ring_remove(t)
    /\ state' = [state EXCEPT ![t] = "unused"]
    /\ saved' = [saved EXCEPT ![t] = FALSE]
    /\ UNCHANGED <<cpuVars, off_cpu, idle_for, pinned_to, pc, semVars,
                   workVars, panicked>>

\* The pass that finds none ends the item; the worker tests its queue again.
ReapDone(c) ==
    /\ At(c, "reaping")
    /\ \A t \in Threads : ~Reapable(c, t)
    /\ pc' = [pc EXCEPT ![current[c]] = "waited"]
    /\ UNCHANGED <<cpuVars, state, off_cpu, idle_for, pinned_to, saved,
                   semVars, workVars, ring, panicked>>

Step(c) ==
    \/ sched_switch(c)
    \/ arch_context_switch(c)
    \/ release_leaving(c)
    \/ semaphore_take(c)
    \/ worker_loop(c)
    \/ \E t \in Threads : ReapOne(c, t)
    \/ ReapDone(c)
    \/ FinishedRunsAgain(c)

Next ==
    \E c \in Cpus :
        \/ Step(c)
        \/ \E t \in Users : thread_create_stopped(c, t) \/ thread_start(c, t)
        \/ sched_this_thread_is_now_idle(c)
        \/ semaphore_give(c)
        \/ ExitMark(c)
        \/ ExitSchedule(c)

Spec == Init /\ [][Next]_vars

\* The tick interrupts every processor, and nothing else stops one between
\* two steps of its own.  A thread that is given slices for ever gets on with
\* its code, so the worker's steps are strongly fair: a slice is five ticks,
\* and a pass of the reaper is one walk of the ring.  Which thread creates,
\* gives or exits is its own affair.
Fairness ==
    /\ \A c \in Cpus :
        /\ WF_vars(sched_switch(c))
        /\ WF_vars(arch_context_switch(c))
        /\ WF_vars(release_leaving(c))
        /\ WF_vars(At(c, "waited") /\ semaphore_take(c))
    /\ SF_vars(\E c \in Cpus : worker_loop(c))
    /\ SF_vars(\E c \in Cpus : (\E t \in Threads : ReapOne(c, t)) \/ ReapDone(c))

FairSpec == Spec /\ Fairness

-----------------------------------------------------------------------------
(***************************************************************************)
(* Properties.                                                             *)
(***************************************************************************)

\* Every variable has its type, and the semaphore's count never wraps below
\* zero or grows past the gives.
TypeOK ==
    /\ state \in [Threads -> States]
    /\ off_cpu \in [Threads -> BOOLEAN]
    /\ idle_for \in [Threads -> Cpus \cup {None}]
    /\ pinned_to \in [Threads -> Cpus \cup {None}]
    /\ ring \in Seq(Threads)
    /\ current \in [Cpus -> Threads]
    /\ leaving \in [Cpus -> Threads \cup {None}]
    /\ phase \in [Cpus -> {"run", "switching", "arrived"}]
    /\ stack \in [Cpus -> Threads]
    /\ saved \in [Threads -> BOOLEAN]
    /\ pc \in [Threads -> Places]
    /\ waiters \in Seq(Threads)
    /\ count \in 0..MaxCount
    /\ work_waiting \in BOOLEAN
    /\ reap_queued \in BOOLEAN
    /\ panicked \in BOOLEAN

\* Two processors never stand on one thread's stack, and never both take one
\* thread for current (sched.c, off_cpu and release_leaving, KF-159).
OneStackPerCpu ==
    \A c, d \in Cpus : c # d => stack[c] # stack[d] /\ current[c] # current[d]

\* A processor about to load a thread's stack pointer loads one that was
\* written when the thread last stopped, never one still to be written
\* (sched_switch, between its unlock and arch_context_switch).
ResumeSaved ==
    \A c \in Cpus : phase[c] = "switching" => saved[current[c]]

\* The reaper never frees a stack a processor stands on, or the thread a
\* processor has chosen to run next (reap's test of off_cpu).
NoFreeUnderfoot ==
    \A c \in Cpus : state[stack[c]] # "unused" /\ state[current[c]] # "unused"

\* Threads that have been woken and have not yet looked at the count again.
Woken == {t \in Threads \ {Worker} :
            /\ pc[t] \in {"queued", "waited", "c_queued", "c_waited"}
            /\ \A i \in 1..Len(waiters) : waiters[i] # t}

\* No wakeup is lost: while somebody sleeps on the semaphore, every count
\* that is there to be taken has a woken thread on its way to take it
\* (wait_sleep queues under the lock the giver must take).
NoLostWakeup == waiters # <<>> => count <= Cardinality(Woken)

\* A blocked thread is on the queue its waker will look at: nobody sleeps
\* where nobody can find it, the moment between queueing and switching away
\* included (wait_sleep, wake).
BlockedIsQueued ==
    \A t \in Threads :
        state[t] = "blocked" =>
            IF t = Worker THEN work_waiting
                          ELSE \E i \in 1..Len(waiters) : waiters[i] = t

Waiting(t) == InRing(t) /\ state[t] = "ready" /\ idle_for[t] = None

\* Every ready thread in the ring gets a processor: the round-robin starves
\* nobody, whatever is created, exits or is woken meanwhile (pick_next).
ReadyRuns ==
    \A t \in {Boot, Worker} \cup Users :
        Waiting(t) ~> (state[t] = "running" \/ idle_for[t] # None)

\* A reap that is pending collects every thread that has finished and left
\* its processor by the time it runs (thread_exit: "one pending reap collects
\* however many threads have died by the time it runs").
ReapCollects ==
    \A t \in Users :
        (reap_queued /\ state[t] = "finished" /\ off_cpu[t])
            ~> (state[t] = "unused")

\* Claimed by thread_exit's comment: a process is told of a thread's end
\* before the switch, "because after the switch this code is not running and
\* there is no later".  A finished thread off its processor has told it.
ToldBeforeSwitch ==
    \A t \in Users :
        state[t] = "finished" /\ off_cpu[t] => pc[t] \in {"scheduled", "gone"}

\* Claimed by the panic at the end of thread_exit: a finished thread is never
\* scheduled again.
FinishedStaysOff == ~panicked

=============================================================================
