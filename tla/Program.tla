------------------------------ MODULE Program -------------------------------
(***************************************************************************)
(* The life of a program: the process table of kernel/core/process.c, the  *)
(* descriptors and the address space a process holds, the way user.c makes *)
(* one, how its threads end and are reaped, and the signals of signal.c.   *)
(*                                                                         *)
(* A process is freed in one part by the thread that ends last, and in     *)
(* another by the reaper once every thread has left its processor (Sched   *)
(* has the reaper itself).  Files are closed and page tables freed after   *)
(* the table's lock has been dropped.                                      *)
(***************************************************************************)
EXTENDS Integers, FiniteSets, FiniteSetsExt

CONSTANTS
    PROCESS_MAX,
    Threads, Spaces,        \* struct threads and address spaces there are
    PROCESS_FDS_MAX,
    MaxPrograms,            \* bound on the programs ever made
    MaxSends,               \* bound on the signals sent
    SIGKILL, SIGTERM,       \* fatal unless something else was asked for
    Whats,                  \* what a program asks for
    None

Slots == 0 .. PROCESS_MAX - 1
FDs   == 0 .. PROCESS_FDS_MAX - 1
Ids   == 1 .. MaxPrograms
Sigs  == {SIGKILL, SIGTERM}

ASSUME ProgramAssumption ==
    /\ {PROCESS_MAX, PROCESS_FDS_MAX} \subseteq Nat \ {0}
    /\ {MaxPrograms, MaxSends} \subseteq Nat
    /\ IsFiniteSet(Threads) /\ Spaces \subseteq Nat
    /\ None \notin Threads \cup Spaces
    /\ {SIGKILL, SIGTERM} \subseteq Nat \ {0} /\ SIGKILL < SIGTERM

VARIABLES
    table,      \* struct process, by slot
    next_id,
    fds,        \* by slot: the id of the process each open file was opened for
    thread,     \* struct thread: where it is, its process, who counts it
    closing,    \* the slot a thread that ended last is closing the files of
    making,     \* the program being made: how far, and its slot
    refs,       \* as->refs of each address space
    active,     \* the space loaded on the processor that runs a thread
    releasing,  \* the space the reaper took out of the table, not released yet
    reap_queued,    \* reaper_work is pending
    reaping,    \* the reaper: how far, its victim, the slot it looked up
    pending,    \* signal.c's arrays, indexed as slot_of does
    actions,
    sends,      \* signals sent
    meant,      \* history: which process each pending signal was sent to
    misdelivered    \* history: a process acted on a signal sent to another

signals == <<pending, actions, sends, meant, misdelivered>>
reaper  == <<releasing, reap_queued, reaping>>
vars == <<table, next_id, fds, thread, closing, making, refs, active, reaper,
          signals>>

FreeSlot == [state |-> "FREE", id |-> 0, threads |-> 0, unreaped |-> 0,
             space |-> None]
NotReaping == [step |-> "idle", thread |-> None, slot |-> None]
FreshThread == [at |-> "unused", process |-> 0, counted_by |-> 0]
NotMaking == [step |-> "idle", slot |-> 0]

Init ==
    /\ table = [s \in Slots |-> FreeSlot]
    /\ next_id = 1
    /\ fds = [s \in Slots |-> [fd \in FDs |-> 0]]
    /\ thread = [t \in Threads |-> FreshThread]
    /\ closing = [t \in Threads |-> None]
    /\ making = NotMaking
    /\ refs = [a \in Spaces |-> 0]
    /\ active = [t \in Threads |-> None]
    /\ releasing = None
    /\ reap_queued = FALSE
    /\ reaping = NotReaping
    /\ pending = [i \in Slots |-> {}]
    /\ actions = [i \in Slots |-> [g \in Sigs |-> "default"]]
    /\ sends = 0
    /\ meant = [i \in Slots |-> [g \in Sigs |-> {}]]
    /\ misdelivered = FALSE

Used(s) == table[s].state # "FREE"

\* process_by_id: the slot of a process that has not been freed.
Found(id) == {s \in Slots : id # 0 /\ Used(s) /\ table[s].id = id}

-----------------------------------------------------------------------------
(* Making a program: user_elf_create.                                      *)

process_create ==
    LET free == {s \in Slots : ~Used(s)}
        s == Min(free)
    IN  /\ making.step = "idle"
        /\ free # {} /\ next_id \in Ids
        /\ table' = [table EXCEPT ![s] =
                       [FreeSlot EXCEPT !.state = "RUNNING", !.id = next_id]]
        /\ fds' = [fds EXCEPT ![s] = [fd \in FDs |-> 0]]
        /\ next_id' = next_id + 1
        /\ making' = [step |-> "files", slot |-> s]
        /\ UNCHANGED <<thread, closing, refs, active, reaper, signals>>

\* Outside the table's lock.
fd_open_standard ==
    /\ making.step = "files"
    /\ fds' = [fds EXCEPT ![making.slot] =
                 [fd \in FDs |-> IF @[fd] = 0 THEN table[making.slot].id
                                              ELSE @[fd]]]
    /\ making' = [making EXCEPT !.step = "space"]
    /\ UNCHANGED <<table, next_id, thread, closing, refs, active, reaper, signals>>

\* addrspace_create, process_set_space and the release of the maker's own
\* reference, which no one else can have seen.
process_set_space ==
    /\ making.step = "space"
    /\ LET free == {a \in Spaces : refs[a] = 0}
       IN  /\ free # {}
           /\ refs' = [refs EXCEPT ![Min(free)] = 1]
           /\ table' = [table EXCEPT ![making.slot].space = Min(free)]
    /\ making' = [making EXCEPT !.step = "thread"]
    /\ UNCHANGED <<next_id, fds, thread, closing, active, reaper, signals>>

\* thread_create_stopped and process_attach; the thread runs nowhere yet.
\* One unused struct is like another.
process_attach ==
    LET id == table[making.slot].id
    IN  /\ making.step = "thread"
        /\ \E t \in Threads : thread[t].at = "unused"
        /\ thread' = [thread EXCEPT
             ![CHOOSE t \in Threads : thread[t].at = "unused"] =
                [at |-> "stopped", process |-> id, counted_by |-> id]]
        /\ making' = [making EXCEPT !.step = "start"]
        /\ table' = [table EXCEPT ![making.slot].threads = @ + 1,
                                  ![making.slot].unreaped = @ + 1]
        /\ UNCHANGED <<next_id, fds, closing, refs, active, reaper, signals>>

\* Every thread is attached before the first of them is started.
AttachAnother ==
    /\ making.step = "start"
    /\ making' = [making EXCEPT !.step = "thread"]
    /\ UNCHANGED <<table, next_id, fds, thread, closing, refs, active, reaper,
                   signals>>

thread_start ==
    /\ making.step = "start"
    /\ thread' = [t \in Threads |->
         IF thread[t].at = "stopped" THEN [thread[t] EXCEPT !.at = "ready"]
                                     ELSE thread[t]]
    /\ making' = NotMaking
    /\ UNCHANGED <<table, next_id, fds, closing, refs, active, reaper, signals>>

\* No address space, an image that is refused or no thread: the process that
\* was made is left as it is.
MakingFails ==
    /\ making.step \in {"space", "thread"}
    /\ table[making.slot].threads = 0
    /\ making' = NotMaking
    /\ UNCHANGED <<table, next_id, fds, thread, closing, refs, active, reaper,
                   signals>>

-----------------------------------------------------------------------------
(* Running.  sched_switch loads the map of the process the thread names.   *)

Moves(t, to) == thread' = [thread EXCEPT ![t].at = to]

SwitchTo(t) ==
    /\ thread[t].at = "ready"
    /\ Moves(t, "running")
    /\ \E s \in Found(thread[t].process) :
         active' = [active EXCEPT ![t] = table[s].space]
    /\ UNCHANGED <<table, next_id, fds, closing, making, refs, reaper, signals>>

SwitchFrom(t) ==
    /\ thread[t].at = "running"
    /\ Moves(t, "ready")
    /\ active' = [active EXCEPT ![t] = None]
    /\ UNCHANGED <<table, next_id, fds, closing, making, refs, reaper, signals>>

-----------------------------------------------------------------------------
(* Ending: thread_exit.  The thread is FINISHED from its first line, and   *)
(* goes on running until it changes to another.                            *)

sys_exit(t) ==
    /\ thread[t].at = "running"
    /\ Moves(t, "finished")
    /\ UNCHANGED <<table, next_id, fds, closing, making, refs, active, reaper,
                   signals>>

\* Mutant: the last thread releases the address space itself.
process_thread_ended_releases(t) ==
    /\ thread[t].at = "finished"
    /\ LET s == CHOOSE x \in Found(thread[t].process) : table[x].state = "RUNNING"
           a == table[s].space
           last == table[s].threads = 1
       IN  /\ table' = [table EXCEPT ![s].threads = @ - 1,
                                     ![s].state = IF last THEN "ENDED" ELSE @,
                                     ![s].space = IF last THEN None ELSE @]
           /\ closing' = [closing EXCEPT ![t] = IF last THEN s ELSE None]
           /\ refs' = IF last THEN [refs EXCEPT ![a] = @ - 1] ELSE refs
    /\ thread' = [thread EXCEPT ![t].at = "told", ![t].process = 0]
    /\ UNCHANGED <<next_id, fds, making, active, reaper, signals>>

\* The part under the lock; the slot whose files the thread closes is chosen
\* there.
process_thread_ended(t) ==
    /\ thread[t].at = "finished"
    /\ LET s    == CHOOSE x \in Found(thread[t].process) :
                       table[x].state = "RUNNING"
           last == table[s].threads = 1
       IN  /\ table' = [table EXCEPT
                          ![s].threads = @ - 1,
                          ![s].state = IF last THEN "ENDED" ELSE @]
           /\ closing' = [closing EXCEPT ![t] = IF last THEN s ELSE None]
    /\ thread' = [thread EXCEPT ![t].at = "told", ![t].process = 0]
    /\ UNCHANGED <<next_id, fds, making, refs, active, reaper, signals>>

\* One turn of fd_close_all.
fd_close(t) ==
    /\ closing[t] # None
    /\ LET open == {fd \in FDs : fds[closing[t]][fd] # 0}
       IN  IF open = {}
           THEN /\ closing' = [closing EXCEPT ![t] = None]
                /\ UNCHANGED fds
           ELSE /\ fds' = [fds EXCEPT ![closing[t]][Min(open)] = 0]
                /\ UNCHANGED closing
    /\ UNCHANGED <<table, next_id, thread, making, refs, active, reaper,
                   signals>>

\* work_schedule(&reaper_work)
AskForReaper(t) ==
    /\ thread[t].at = "told" /\ closing[t] = None
    /\ Moves(t, "leaving")
    /\ reap_queued' = TRUE
    /\ UNCHANGED <<table, next_id, fds, closing, making, refs, active,
                   releasing, reaping, signals>>

\* sched_switch away from a thread that is FINISHED, its own at the end or a
\* tick's before that.  It does not run again.
LeaveForGood(t) ==
    /\ thread[t].at \in {"finished", "told", "leaving"}
    /\ Moves(t, "off")
    /\ closing' = [closing EXCEPT ![t] = None]
    /\ active' = [active EXCEPT ![t] = None]
    /\ UNCHANGED <<table, next_id, fds, making, refs, reaper, signals>>

-----------------------------------------------------------------------------
(* The reaper, on the worker's thread.                                     *)

run_the_reaper ==
    /\ reap_queued /\ reaping.step = "idle"
    /\ reap_queued' = FALSE
    /\ reaping' = [NotReaping EXCEPT !.step = "look"]
    /\ UNCHANGED <<table, next_id, fds, thread, closing, making, refs, active,
                   releasing, signals>>

\* The ring is searched under its lock, process_by_id runs under none.
Victims == {t \in Threads : thread[t].at = "off"}

\* Mutant: by the link that ending has cleared.
CounterOf_process(t) == Found(thread[t].process)

\* process_thread_reaped looks the process up by the link that survives the
\* thread's end.
CounterOf(t) == Found(thread[t].counted_by)

FindVictim ==
    /\ reaping.step = "look"
    /\ IF Victims = {}
       THEN reaping' = NotReaping
       ELSE \E t \in Victims :
              reaping' = [step   |-> IF CounterOf(t) = {} THEN "free" ELSE "count",
                          thread |-> t,
                          slot   |-> IF CounterOf(t) = {} THEN None
                                     ELSE CHOOSE s \in CounterOf(t) : TRUE]
    /\ UNCHANGED <<table, next_id, fds, thread, closing, making, refs, active,
                   releasing, reap_queued, signals>>

\* Mutant: ended is enough.
Collectable_ended(p) == p.state = "ENDED"

\* Nobody in this kernel asks for a status, so none is kept.
Collectable(p) == p.unreaped = 0 /\ p.state = "ENDED"

process_thread_reaped ==
    LET s == reaping.slot
        p == [table[s] EXCEPT !.unreaped = IF @ = 0 THEN 0 ELSE @ - 1]
    IN  /\ reaping.step = "count"
        /\ table' = [table EXCEPT ![s] =
               IF Collectable(p) THEN [p EXCEPT !.state = "FREE", !.space = None]
                                 ELSE p]
        /\ releasing' = IF Collectable(p) THEN p.space ELSE None
        /\ reaping' = [reaping EXCEPT !.step = "free"]
        /\ UNCHANGED <<next_id, fds, thread, closing, making, refs, active,
                       reap_queued, signals>>

\* addrspace_release and the thread's own stack and struct, outside the lock;
\* then the ring is searched again.
addrspace_release ==
    /\ reaping.step = "free"
    /\ refs' = IF releasing = None THEN refs
               ELSE [refs EXCEPT ![releasing] = IF @ = 0 THEN 0 ELSE @ - 1]
    /\ releasing' = None
    /\ thread' = [thread EXCEPT ![reaping.thread] = FreshThread]
    /\ reaping' = [NotReaping EXCEPT !.step = "look"]
    /\ UNCHANGED <<table, next_id, fds, closing, making, active, reap_queued,
                   signals>>

-----------------------------------------------------------------------------
(* Signals.  Their arrays are indexed by a process's place among the slots *)
(* in use, looked up again at every call.                                  *)

slot_of(id) == {Cardinality({r \in 0 .. s - 1 : Used(r)}) : s \in Found(id)}

signal_send(id, sig) ==
    /\ sends < MaxSends /\ sends' = sends + 1
    /\ \E t \in Threads : thread[t].at = "running"
    /\ \E i \in slot_of(id) :
         /\ pending' = [pending EXCEPT ![i] = @ \cup {sig}]
         /\ meant' = [meant EXCEPT ![i][sig] = @ \cup {id}]
    /\ UNCHANGED <<table, next_id, fds, thread, closing, making, refs, active,
                   reaper, actions, misdelivered>>

signal_set_action(t, sig, what) ==
    /\ thread[t].at = "running" /\ sig # SIGKILL
    /\ \E i \in slot_of(thread[t].process) :
         actions' = [actions EXCEPT ![i][sig] = what]
    /\ UNCHANGED <<table, next_id, fds, thread, closing, making, refs, active,
                   reaper, pending, sends, meant, misdelivered>>

\* On the way back to user mode: the lowest signal pending is taken, and the
\* thread ends, ignores it or runs its handler.
signal_on_return(t) ==
    /\ thread[t].at = "running"
    /\ \E i \in slot_of(thread[t].process) :
         LET sig == Min(pending[i])
         IN  /\ pending[i] # {}
             /\ pending' = [pending EXCEPT ![i] = @ \ {sig}]
             /\ meant' = [meant EXCEPT ![i][sig] = {}]
             /\ misdelivered' =
                  (misdelivered \/ thread[t].process \notin meant[i][sig])
             /\ IF sig = SIGKILL \/ actions[i][sig] = "default"
                THEN Moves(t, "finished")
                ELSE UNCHANGED thread
    /\ UNCHANGED <<table, next_id, fds, closing, making, refs, active, reaper,
                   actions, sends>>

-----------------------------------------------------------------------------
Making == \/ process_create \/ fd_open_standard \/ process_set_space
          \/ process_attach \/ AttachAnother \/ thread_start \/ MakingFails

Ending(t) == \/ process_thread_ended(t) \/ fd_close(t) \/ AskForReaper(t)
             \/ LeaveForGood(t)

Reaper == \/ run_the_reaper \/ FindVictim \/ process_thread_reaped
          \/ addrspace_release

Signal(t) ==
    \/ \E sig \in Sigs, what \in Whats : signal_set_action(t, sig, what)
    \/ signal_on_return(t)

Next ==
    \/ Making
    \/ \E t \in Threads :
         SwitchTo(t) \/ SwitchFrom(t) \/ sys_exit(t) \/ Ending(t) \/ Signal(t)
    \/ Reaper
    \/ \E id \in Ids, sig \in Sigs : signal_send(id, sig)

\* The worker is a thread like any other, and a FINISHED thread goes on to
\* its last switch: the scheduler gives both a processor.
Fairness == WF_vars(Reaper) /\ \A t \in Threads : WF_vars(Ending(t))

Spec == Init /\ [][Next]_vars /\ Fairness

-----------------------------------------------------------------------------
OnProcessor(t) == thread[t].at \in {"running", "finished", "told", "leaving"}

Process == [state    : {"FREE", "RUNNING", "ENDED"},
            id       : 0 .. MaxPrograms,
            threads  : 0 .. Cardinality(Threads),
            unreaped : 0 .. Cardinality(Threads),
            space    : Spaces \cup {None}]

Thread == [at : {"unused", "stopped", "ready", "running", "finished", "told",
                 "leaving", "off"},
           process : 0 .. MaxPrograms, counted_by : 0 .. MaxPrograms]

TypeOK ==
    /\ table \in [Slots -> Process]
    /\ next_id \in 1 .. MaxPrograms + 1
    /\ fds \in [Slots -> [FDs -> 0 .. MaxPrograms]]
    /\ thread \in [Threads -> Thread]
    /\ closing \in [Threads -> Slots \cup {None}]
    /\ making \in [step : {"idle", "files", "space", "thread", "start"},
                   slot : Slots]
    /\ refs \in [Spaces -> {0, 1}]
    /\ active \in [Threads -> Spaces \cup {None}]
    /\ releasing \in Spaces \cup {None}
    /\ reaping \in [step : {"idle", "look", "count", "free"},
                    thread : Threads \cup {None}, slot : Slots \cup {None}]
    /\ pending \in [Slots -> SUBSET Sigs]

\* A thread that ended last closes its process's files with no lock held and
\* only the slot's address to go by: the slot still holds the process that
\* ended (by the link the reaper counts by), and every file in it was opened
\* for that process.
OwnDescriptors ==
    \A t \in Threads :
      closing[t] # None =>
        LET p == table[closing[t]]
        IN  /\ p.state = "ENDED" /\ p.id = thread[t].counted_by
            /\ \A fd \in FDs : fds[closing[t]][fd] \in {0, p.id}

\* "Nobody can be translating through it" (addrspace_release): the map that
\* is loaded where a thread runs is referenced, by the process that thread
\* belongs or belonged to and by no other.
SpaceOutlivesThreads ==
    \A t \in Threads :
      OnProcessor(t) /\ active[t] # None =>
        /\ refs[active[t]] > 0
        /\ \A s \in Slots : Used(s) /\ table[s].space = active[t]
                              => table[s].id = thread[t].counted_by

\* A process all of whose threads are off their processors is freed by a reap
\* that is pending: its slot and its address space are not kept for ever.
EndedIsCollected ==
    \A s \in Slots, id \in Ids :
      (/\ reap_queued
       /\ table[s].state = "ENDED" /\ table[s].id = id
       /\ \A t \in Threads : thread[t].counted_by = id => thread[t].at = "off")
        ~> (table[s].state = "FREE" \/ table[s].id # id)

\* Claimed by the comment on next_id: a number is never used twice, since a
\* message sent to a process that has ended "would reach whatever took its
\* place".  No process acts on a signal that was sent to another.
SignalsReachTarget == ~misdelivered
=============================================================================
