--------------------------- MODULE ProgramProofs ----------------------------
(***************************************************************************)
(* Proofs about Program: for any number of slots, threads, descriptors,    *)
(* address spaces and programs, a thread that ended last closes only its   *)
(* own process's files, and an address space is not released while a       *)
(* processor may translate through it.                                     *)
(*                                                                         *)
(* Both rest on the count of the threads not yet reaped.  Ending clears    *)
(* the link `process' and leaves `counted_by' alone, so a slot's count     *)
(* says exactly which threads the reaper has still to see, and a slot that *)
(* is freed has none: nobody closes its files any more, and nobody stands  *)
(* on its page tables.                                                     *)
(***************************************************************************)
EXTENDS Program, FiniteSetTheorems, WellFoundedInduction, TLAPS

-----------------------------------------------------------------------------
(* The inductive invariant.                                                *)

\* The threads of process i that the reaper has not counted.
Uncounted == [i \in Ids |->
    {t \in Threads : /\ thread[t].counted_by = i
                     /\ ~(reaping.step = "free" /\ reaping.thread = t)}]

\* The threads that still name process i.
Members == [i \in Ids |-> {t \in Threads : thread[t].process = i}]

\* A number is given out once, and a slot that is free holds no map.
SlotsOK ==
    /\ \A s \in Slots : Used(s) => table[s].id \in 1 .. next_id - 1
    /\ \A s \in Slots : ~Used(s) => table[s].space = None
    /\ \A r, s \in Slots :
         Used(r) /\ Used(s) /\ table[r].id = table[s].id => r = s

\* A thread names its process until it has ended, and is counted by it until
\* the reaper has freed its struct.
ThreadsOK ==
    \A t \in Threads :
      /\ thread[t].at = "unused" <=> thread[t].counted_by = 0
      /\ thread[t].process \in {0, thread[t].counted_by}
      /\ thread[t].at \in {"stopped", "ready", "running", "finished"}
           => thread[t].process # 0
      /\ thread[t].at \in {"told", "leaving"} => thread[t].process = 0
      /\ thread[t].counted_by < next_id

\* The process a thread names has not ended.
NamedIsRunning ==
    \A t \in Threads :
      thread[t].process # 0 =>
        \E s \in Slots : /\ table[s].state = "RUNNING"
                         /\ table[s].id = thread[t].process

\* What a slot counts.  A thread that left its processor before it told its
\* process is reaped without being taken off `threads'.
CountsOK ==
    \A s \in Slots : Used(s) =>
      /\ table[s].unreaped = Cardinality(Uncounted[table[s].id])
      /\ table[s].threads >= Cardinality(Members[table[s].id])

\* A thread that has not been counted keeps its process's slot.
CountedIsUsed ==
    \A i \in Ids : Uncounted[i] # {} =>
      \E s \in Slots : Used(s) /\ table[s].id = i

\* The program being made has no thread that runs.
MakingOK ==
    making.step # "idle" =>
      LET p == table[making.slot]
      IN  /\ p.state = "RUNNING"
          /\ p.threads = Cardinality(Members[p.id])
          /\ making.step \in {"files", "space"} => p.space = None
          /\ \A t \in Threads : thread[t].counted_by = p.id =>
               /\ thread[t].at = "stopped"
               /\ making.step \in {"thread", "start"}

\* The reaper's victim is off its processor, and the slot it looked up without
\* the lock is still the one that counts the victim.
ReapingOK ==
    /\ reaping.step \in {"count", "free"} =>
         /\ reaping.thread \in Threads
         /\ thread[reaping.thread].at = "off"
    /\ reaping.step = "count" =>
         /\ reaping.slot \in Slots
         /\ Used(reaping.slot)
         /\ table[reaping.slot].id = thread[reaping.thread].counted_by
    /\ releasing # None => reaping.step = "free"

\* A space has one reference and one holder, or none of either.
SpacesOK ==
    /\ \A a \in Spaces :
         refs[a] = 1 <=> \/ releasing = a
                         \/ \E s \in Slots : table[s].space = a
    /\ \A s \in Slots : table[s].space \in Spaces => table[s].space # releasing
    /\ \A r, s \in Slots :
         table[r].space \in Spaces /\ table[r].space = table[s].space => r = s

\* The map under a running thread is that of the process that counts it.
ActiveOK ==
    \A t \in Threads : active[t] # None =>
      /\ OnProcessor(t)
      /\ \E s \in Slots : /\ Used(s)
                          /\ table[s].id = thread[t].counted_by
                          /\ table[s].space = active[t]

\* A thread that closes files ended last in the process of that slot.
ClosingOK ==
    \A t \in Threads : closing[t] # None =>
      /\ thread[t].at = "told"
      /\ table[closing[t]].state = "ENDED"
      /\ table[closing[t]].id = thread[t].counted_by

\* A slot's files were opened for the process that has the slot.
FilesOK ==
    \A s \in Slots, fd \in FDs : Used(s) => fds[s][fd] \in {0, table[s].id}

IInv == /\ TypeOK
        /\ SlotsOK
        /\ ThreadsOK
        /\ NamedIsRunning
        /\ CountsOK
        /\ CountedIsUsed
        /\ MakingOK
        /\ ReapingOK
        /\ SpacesOK
        /\ ActiveOK
        /\ ClosingOK
        /\ FilesOK

-----------------------------------------------------------------------------
(* Facts about the operators.                                              *)

\* The least member of a set of numbers, which is how free slots and spaces
\* are chosen, is a member of it.
LEMMA MinIsIn ==
    ASSUME NEW S \in SUBSET Nat, S # {}
    PROVE  Min(S) \in S
<1> DEFINE R == {ss \in Nat \X Nat : ss[1] < ss[2]}
<1>1. OpToRel(<, Nat) = R
  BY Zenon DEF OpToRel
<1>2. IsWellFoundedOn(R, Nat)
  BY <1>1, NatLessThanWellFounded, Zenon
<1>3. PICK x \in S : \A y \in S : ~(<<y, x>> \in R)
  <2> HIDE DEF R
  <2> QED BY <1>2, WFMin, Zenon
<1>4. ASSUME NEW y \in S PROVE x <= y
  <2>1. y < x => <<y, x>> \in R
    OBVIOUS
  <2>2. ~(y < x)
    BY <1>3, <2>1
  <2> QED
    BY <2>2
<1> QED
  BY <1>4 DEF Min

\* A set of threads is finite, and its size says whether it is empty.
LEMMA ThreadSets ==
    ASSUME NEW S \in SUBSET Threads
    PROVE  /\ Cardinality(S) \in 0 .. Cardinality(Threads)
           /\ Cardinality(S) = 0 <=> S = {}
           /\ \A t \in S : Cardinality(S \ {t}) = Cardinality(S) - 1
           /\ \A t \in Threads \ S : Cardinality(S \cup {t}) = Cardinality(S) + 1
<1>1. IsFiniteSet(Threads) /\ IsFiniteSet(S) /\ Cardinality(Threads) \in Nat
      /\ Cardinality(S) \in Nat /\ Cardinality(S) <= Cardinality(Threads)
  BY ProgramAssumption, FS_Subset, FS_CardinalityType
<1>2. Cardinality(S) = 0 <=> S = {}
  BY <1>1, FS_EmptySet
<1>3. \A t \in S : Cardinality(S \ {t}) = Cardinality(S) - 1
  BY <1>1, FS_RemoveElement
<1>4. \A t \in Threads \ S : Cardinality(S \cup {t}) = Cardinality(S) + 1
  BY <1>1, FS_AddElement
<1> QED
  BY <1>1, <1>2, <1>3, <1>4

\* Who counts and who names a process changes only with the links and with
\* what the reaper has counted.
LEMMA SameCounts ==
    ASSUME \A t \in Threads : /\ thread'[t].counted_by = thread[t].counted_by
                              /\ thread'[t].process = thread[t].process,
           reaping'.step = "free" <=> reaping.step = "free",
           reaping.step = "free" => reaping'.thread = reaping.thread
    PROVE  Uncounted' = Uncounted /\ Members' = Members
<1>1. \A i \in Ids : Uncounted'[i] = Uncounted[i]
  BY DEF Uncounted
<1>2. \A i \in Ids : Members'[i] = Members[i]
  BY DEF Members
<1> QED
  BY <1>1, <1>2 DEF Uncounted, Members

\* What the links mean when the invariant holds.
LEMMA Links ==
    ASSUME IInv
    PROVE  /\ \A i \in Ids : Uncounted[i] \in SUBSET Threads
           /\ \A i \in Ids : Members[i] \in SUBSET Threads
           /\ \A s \in Slots : Used(s) => table[s].id \in Ids
           /\ Slots \subseteq Nat /\ 0 \in Slots
           /\ \A t \in Threads : thread[t].counted_by # 0 => thread[t].counted_by \in Ids
           /\ \A t \in Threads : thread[t].process # 0 =>
                /\ thread[t].process \in Ids
                /\ thread[t].process = thread[t].counted_by
                /\ t \in Members[thread[t].process]
<1>1. /\ \A i \in Ids : Uncounted[i] \in SUBSET Threads
      /\ \A i \in Ids : Members[i] \in SUBSET Threads
  BY DEF Uncounted, Members
<1>2. \A s \in Slots : Used(s) => table[s].id \in Ids
  BY DEF IInv, TypeOK, SlotsOK, Ids, Process
<1>3. Slots \subseteq Nat /\ 0 \in Slots
  BY ProgramAssumption DEF Slots
<1>4. \A t \in Threads : thread[t].counted_by # 0 => thread[t].counted_by \in Ids
  BY ProgramAssumption DEF IInv, TypeOK, Thread, Ids
<1>5. \A t \in Threads : thread[t].process # 0 =>
        /\ thread[t].process \in Ids
        /\ thread[t].process = thread[t].counted_by
  BY ProgramAssumption DEF IInv, TypeOK, ThreadsOK, Thread, Ids
<1> QED
  BY <1>1, <1>2, <1>3, <1>4, <1>5 DEF Members

-----------------------------------------------------------------------------
(* Steps that change no link.                                              *)

\* A step of the signals' arrays, or a stuttering step.
LEMMA QuietKeeps ==
    ASSUME IInv, pending' \in [Slots -> SUBSET Sigs],
           UNCHANGED <<table, next_id, fds, thread, closing, making, refs,
                       active, releasing, reaping>>
    PROVE  IInv'
<1>1. Uncounted' = Uncounted /\ Members' = Members
  BY SameCounts
<1>2. TypeOK'
  BY DEF IInv, TypeOK
<1>3. SlotsOK' /\ ThreadsOK' /\ NamedIsRunning' /\ FilesOK'
  BY DEF IInv, SlotsOK, ThreadsOK, NamedIsRunning, FilesOK, Used
<1>4. CountsOK' /\ CountedIsUsed' /\ MakingOK'
  BY <1>1 DEF IInv, CountsOK, CountedIsUsed, MakingOK, Used
<1>5. ReapingOK' /\ SpacesOK' /\ ActiveOK' /\ ClosingOK'
  BY DEF IInv, ReapingOK, SpacesOK, ActiveOK, ClosingOK, Used, OnProcessor
<1> QED
  BY <1>2, <1>3, <1>4, <1>5 DEF IInv

LEMMA SendKeeps ==
    ASSUME IInv, NEW id \in Ids, NEW sig \in Sigs, signal_send(id, sig)
    PROVE  IInv'
<1>1. PICK i : pending' = [pending EXCEPT ![i] = @ \cup {sig}]
  BY DEF signal_send
<1>2. pending' \in [Slots -> SUBSET Sigs]
  BY <1>1 DEF IInv, TypeOK
<1> QED
  BY <1>2, QuietKeeps DEF signal_send, reaper

LEMMA SetActionKeeps ==
    ASSUME IInv, NEW t \in Threads, NEW sig \in Sigs, NEW what \in Whats,
           signal_set_action(t, sig, what)
    PROVE  IInv'
BY QuietKeeps DEF signal_set_action, reaper, IInv, TypeOK

\* AttachAnother, MakingFails and run_the_reaper.
LEMMA ProgressKeeps ==
    ASSUME IInv, AttachAnother \/ MakingFails \/ run_the_reaper
    PROVE  IInv'
<1>1. UNCHANGED <<table, next_id, fds, thread, closing, refs, active, releasing, pending>>
  BY DEF AttachAnother, MakingFails, run_the_reaper, reaper, signals
<1>2. /\ \/ reaping' = reaping
         \/ reaping.step = "idle" /\ reaping' = [NotReaping EXCEPT !.step = "look"]
      /\ \/ making' = making \/ making' = NotMaking
         \/ making.step = "start" /\ making' = [making EXCEPT !.step = "thread"]
  BY DEF AttachAnother, MakingFails, run_the_reaper, reaper, signals
<1>3. Uncounted' = Uncounted /\ Members' = Members
  <2>1. /\ reaping'.step = "free" <=> reaping.step = "free"
        /\ reaping.step = "free" => reaping'.thread = reaping.thread
    BY <1>2 DEF NotReaping
  <2> QED
    BY <1>1, <2>1, SameCounts
<1>4. TypeOK'
  <2>1. making' \in [step : {"idle", "files", "space", "thread", "start"}, slot : Slots]
    BY <1>2, Links, SMTT(30) DEF IInv, TypeOK, NotMaking
  <2>2. reaping' \in [step : {"idle", "look", "count", "free"},
                      thread : Threads \cup {None}, slot : Slots \cup {None}]
    BY <1>2 DEF IInv, TypeOK, NotReaping
  <2> QED
    BY <1>1, <2>1, <2>2 DEF IInv, TypeOK
<1>5. SlotsOK' /\ ThreadsOK' /\ NamedIsRunning' /\ FilesOK'
  BY <1>1 DEF IInv, SlotsOK, ThreadsOK, NamedIsRunning, FilesOK, Used
<1>6. CountsOK' /\ CountedIsUsed'
  BY <1>1, <1>3 DEF IInv, CountsOK, CountedIsUsed, Used
<1>7. MakingOK'
  BY <1>1, <1>2, <1>3 DEF IInv, TypeOK, MakingOK, NotMaking
<1>8. ReapingOK'
  BY <1>1, <1>2 DEF IInv, ReapingOK, NotReaping, Used
<1>9. SpacesOK' /\ ActiveOK' /\ ClosingOK'
  BY <1>1 DEF IInv, SpacesOK, ActiveOK, ClosingOK, Used, OnProcessor
<1> QED
  BY <1>4, <1>5, <1>6, <1>7, <1>8, <1>9 DEF IInv

\* fd_close touches the files of one slot only, to zero them.
LEMMA CloseKeeps ==
    ASSUME IInv, NEW t \in Threads, fd_close(t)
    PROVE  IInv'
<1>1. /\ UNCHANGED <<table, next_id, thread, making, refs, active, releasing, reaping, pending>>
      /\ closing' = closing \/ closing' = [closing EXCEPT ![t] = None]
  BY DEF fd_close, reaper, signals
<1>2. \/ fds' = fds
      \/ \E s \in Slots : \E x : fds' = [fds EXCEPT ![s][x] = 0]
  BY DEF fd_close, IInv, TypeOK
<1>3. /\ fds' \in [Slots -> [FDs -> 0 .. MaxPrograms]]
      /\ \A s \in Slots, fd \in FDs : fds'[s][fd] \in {0, fds[s][fd]}
  <2>1. fds \in [Slots -> [FDs -> 0 .. MaxPrograms]] /\ 0 \in 0 .. MaxPrograms
    BY ProgramAssumption DEF IInv, TypeOK
  <2>2. ASSUME NEW s \in Slots, NEW x, fds' = [fds EXCEPT ![s] = [@ EXCEPT ![x] = 0]]
        PROVE  /\ fds' \in [Slots -> [FDs -> 0 .. MaxPrograms]]
               /\ \A r \in Slots, fd \in FDs : fds'[r][fd] \in {0, fds[r][fd]}
    <3>1. [fds[s] EXCEPT ![x] = 0] \in [FDs -> 0 .. MaxPrograms]
      BY <2>1
    <3> QED
      BY <2>1, <2>2, <3>1
  <2> QED
    BY <1>2, <2>1, <2>2
<1>4. Uncounted' = Uncounted /\ Members' = Members
  BY <1>1, SameCounts
<1>5. TypeOK'
  BY <1>1, <1>3 DEF IInv, TypeOK
<1>6. SlotsOK' /\ ThreadsOK' /\ NamedIsRunning'
  BY <1>1 DEF IInv, SlotsOK, ThreadsOK, NamedIsRunning, Used
<1>7. CountsOK' /\ CountedIsUsed' /\ MakingOK'
  BY <1>1, <1>4 DEF IInv, CountsOK, CountedIsUsed, MakingOK, Used
<1>8. ReapingOK' /\ SpacesOK' /\ ActiveOK'
  BY <1>1 DEF IInv, ReapingOK, SpacesOK, ActiveOK, Used, OnProcessor
<1>9. ClosingOK'
  BY <1>1 DEF IInv, TypeOK, ClosingOK
<1>10. FilesOK'
  BY <1>1, <1>3 DEF IInv, FilesOK, Used
<1> QED
  BY <1>5, <1>6, <1>7, <1>8, <1>9, <1>10 DEF IInv

\* What every move of a thread between its states keeps, whatever it does to
\* the map it runs on and to the files it closes.
LEMMA MoveKeeps ==
    ASSUME IInv, NEW t \in Threads, NEW to, Moves(t, to),
           \/ /\ thread[t].at \in {"ready", "running"}
              /\ to \in {"ready", "running", "finished"}
           \/ thread[t].at = "told" /\ to = "leaving"
           \/ thread[t].at \in {"finished", "told", "leaving"} /\ to = "off",
           UNCHANGED <<table, next_id, fds, making, refs, releasing, reaping>>
    PROVE  /\ thread' \in [Threads -> Thread]
           /\ thread'[t].at = to
           /\ \A u \in Threads :
                /\ thread'[u].counted_by = thread[u].counted_by
                /\ thread'[u].process = thread[u].process
                /\ u # t => thread'[u] = thread[u]
           /\ SlotsOK' /\ ThreadsOK' /\ NamedIsRunning' /\ CountsOK' /\ CountedIsUsed'
           /\ MakingOK' /\ ReapingOK' /\ SpacesOK' /\ FilesOK'
<1>1. /\ thread' \in [Threads -> Thread]
      /\ thread'[t].at = to
      /\ \A u \in Threads :
           /\ thread'[u].counted_by = thread[u].counted_by
           /\ thread'[u].process = thread[u].process
           /\ u # t => thread'[u] = thread[u]
  BY DEF IInv, TypeOK, Thread, Moves
<1>2. Uncounted' = Uncounted /\ Members' = Members
  BY <1>1, SameCounts
<1>3. SlotsOK' /\ SpacesOK' /\ FilesOK'
  BY DEF IInv, SlotsOK, SpacesOK, FilesOK, Used
<1>4. ThreadsOK'
  BY <1>1 DEF IInv, ThreadsOK, TypeOK
<1>5. NamedIsRunning'
  BY <1>1 DEF IInv, NamedIsRunning
<1>6. CountsOK' /\ CountedIsUsed'
  BY <1>2 DEF IInv, CountsOK, CountedIsUsed, Used
<1>7. MakingOK'
  BY <1>1, <1>2 DEF IInv, MakingOK
<1>8. ReapingOK'
  BY <1>1 DEF IInv, ReapingOK, Used
<1> QED
  BY <1>1, <1>3, <1>4, <1>5, <1>6, <1>7, <1>8

\* sched_switch to a thread loads the map of the process it names, which is
\* the process that counts it.
LEMMA SwitchToKeeps ==
    ASSUME IInv, NEW t \in Threads, SwitchTo(t)
    PROVE  IInv'
<1>1. /\ thread[t].at = "ready" /\ Moves(t, "running")
      /\ UNCHANGED <<table, next_id, fds, closing, making, refs, releasing, reaping, pending>>
  BY DEF SwitchTo, reaper, signals
<1>2. PICK s \in Slots : /\ Used(s) /\ table[s].id = thread[t].process
                         /\ active' = [active EXCEPT ![t] = table[s].space]
  BY DEF SwitchTo, Found
<1>3. thread[t].process = thread[t].counted_by
  BY <1>1 DEF IInv, ThreadsOK
<1> HIDE DEF IInv
<1>4. ClosingOK' /\ ActiveOK' /\ TypeOK'
  <2>1. ClosingOK'
    BY <1>1, MoveKeeps DEF IInv, ClosingOK
  <2>2. ActiveOK'
    BY <1>1, <1>2, <1>3, MoveKeeps DEF IInv, ActiveOK, TypeOK, OnProcessor, Used
  <2>3. TypeOK'
    <3>1. thread' \in [Threads -> Thread]
      BY <1>1, MoveKeeps
    <3>2. table[s].space \in Spaces \cup {None}
      BY DEF IInv, TypeOK, Process
    <3> QED
      BY <1>1, <1>2, <3>1, <3>2 DEF IInv, TypeOK
  <2> QED
    BY <2>1, <2>2, <2>3
<1> QED
  BY <1>1, <1>4, MoveKeeps DEF IInv

\* Steps of one thread that load no other map.
LEMMA StopsKeeps ==
    ASSUME IInv, NEW t \in Threads,
           SwitchFrom(t) \/ sys_exit(t) \/ signal_on_return(t) \/ AskForReaper(t)
             \/ LeaveForGood(t)
    PROVE  IInv'
<1>1. CASE signal_on_return(t) /\ thread' = thread
  <2>1. PICK i, sig : pending' = [pending EXCEPT ![i] = @ \ {sig}]
    BY <1>1 DEF signal_on_return
  <2>2. pending' \in [Slots -> SUBSET Sigs]
    BY <2>1 DEF IInv, TypeOK
  <2> QED
    BY <1>1, <2>2, QuietKeeps DEF signal_on_return, reaper
<1>2. CASE ~(signal_on_return(t) /\ thread' = thread)
  <2>1. PICK to : /\ Moves(t, to)
                  /\ \/ thread[t].at = "running" /\ to \in {"ready", "finished"}
                     \/ thread[t].at = "told" /\ to = "leaving"
                     \/ thread[t].at \in {"finished", "told", "leaving"} /\ to = "off"
                  /\ to \in {"ready", "off"} => active' = [active EXCEPT ![t] = None]
                  /\ to \notin {"ready", "off"} => active' = active
                  /\ to = "off" => closing' = [closing EXCEPT ![t] = None]
                  /\ to # "off" => closing' = closing
                  /\ to = "leaving" => closing[t] = None
    BY <1>2 DEF SwitchFrom, sys_exit, signal_on_return, AskForReaper, LeaveForGood
  <2>2. UNCHANGED <<table, next_id, fds, making, refs, releasing, reaping>>
    BY DEF SwitchFrom, sys_exit, signal_on_return, AskForReaper, LeaveForGood, reaper
  <2>3. pending' \in [Slots -> SUBSET Sigs]
    <3>1. pending' = pending \/ \E i, sig : pending' = [pending EXCEPT ![i] = @ \ {sig}]
      BY DEF SwitchFrom, sys_exit, signal_on_return, AskForReaper, LeaveForGood, signals
    <3> QED
      BY <3>1, SMTT(30) DEF IInv, TypeOK
  <2>4. TypeOK'
    <3>1. thread' \in [Threads -> Thread]
      BY <2>1, <2>2, MoveKeeps
    <3> QED
      BY <2>1, <2>2, <2>3, <3>1 DEF IInv, TypeOK
  <2>5. ActiveOK'
    BY <2>1, <2>2, MoveKeeps DEF IInv, ActiveOK, TypeOK, OnProcessor, Used
  <2>6. ClosingOK'
    BY <2>1, <2>2, MoveKeeps, SMTT(30) DEF IInv, ClosingOK, TypeOK
  <2> QED
    BY <2>1, <2>2, <2>4, <2>5, <2>6, MoveKeeps DEF IInv
<1> QED
  BY <1>1, <1>2

\* thread_start: nothing looks at whether a thread is stopped but its maker.
LEMMA StartKeeps ==
    ASSUME IInv, thread_start
    PROVE  IInv'
<1>1. /\ UNCHANGED <<table, next_id, fds, closing, refs, active, releasing, reaping, pending>>
      /\ making' = NotMaking
      /\ \A t \in Threads : thread'[t] = IF thread[t].at = "stopped"
                                         THEN [thread[t] EXCEPT !.at = "ready"]
                                         ELSE thread[t]
  BY DEF thread_start, reaper, signals
<1>2. \A t \in Threads : /\ thread'[t].counted_by = thread[t].counted_by
                         /\ thread'[t].process = thread[t].process
                         /\ thread[t].at # "stopped" => thread'[t].at = thread[t].at
                         /\ thread[t].at = "stopped" => thread'[t].at = "ready"
  BY <1>1 DEF IInv, TypeOK, Thread
<1>3. Uncounted' = Uncounted /\ Members' = Members
  BY <1>1, <1>2, SameCounts
<1>4. TypeOK'
  <2>1. thread' \in [Threads -> Thread]
    <3>1. \A x \in Thread : [x EXCEPT !.at = "ready"] \in Thread
      BY DEF Thread
    <3> QED
      BY <3>1 DEF thread_start, IInv, TypeOK
  <2> QED
    BY <1>1, <2>1, Links DEF IInv, TypeOK, NotMaking
<1>5. SlotsOK' /\ SpacesOK' /\ FilesOK'
  BY <1>1 DEF IInv, SlotsOK, SpacesOK, FilesOK, Used
<1>6. ThreadsOK'
  BY <1>1, <1>2 DEF IInv, ThreadsOK
<1>7. NamedIsRunning'
  BY <1>1, <1>2 DEF IInv, NamedIsRunning
<1>8. CountsOK' /\ CountedIsUsed'
  BY <1>1, <1>3 DEF IInv, CountsOK, CountedIsUsed, Used
<1>9. MakingOK'
  BY <1>1 DEF MakingOK, NotMaking
<1>10. ReapingOK'
  BY <1>1, <1>2 DEF IInv, ReapingOK, Used
<1>11. ActiveOK' /\ ClosingOK'
  BY <1>1, <1>2 DEF IInv, ActiveOK, ClosingOK, OnProcessor, Used
<1> QED
  BY <1>4, <1>5, <1>6, <1>7, <1>8, <1>9, <1>10, <1>11 DEF IInv

-----------------------------------------------------------------------------
(* Making a program.                                                       *)

\* process_create: no thread and no map carries the number that is given out.
LEMMA CreateKeeps ==
    ASSUME IInv, process_create
    PROVE  IInv'
<1> DEFINE s == Min({r \in Slots : ~Used(r)})
<1>1. s \in Slots /\ ~Used(s)
  <2>1. {r \in Slots : ~Used(r)} # {} /\ {r \in Slots : ~Used(r)} \in SUBSET Nat
    BY Links DEF process_create
  <2> HIDE DEF s
  <2>2. s \in {r \in Slots : ~Used(r)}
    BY <2>1, MinIsIn DEF s
  <2> QED
    BY <2>2
<1>2. /\ making.step = "idle" /\ next_id \in Ids /\ next_id' = next_id + 1
      /\ table' = [table EXCEPT ![s] =
                     [FreeSlot EXCEPT !.state = "RUNNING", !.id = next_id]]
      /\ fds' = [fds EXCEPT ![s] = [fd \in FDs |-> 0]]
      /\ making' = [step |-> "files", slot |-> s]
      /\ UNCHANGED <<thread, closing, refs, active, releasing, reaping, pending>>
  BY DEF process_create, reaper, signals
<1> HIDE DEF s
<1>3. /\ table' \in [Slots -> Process]
      /\ table'[s].state = "RUNNING" /\ table'[s].id = next_id
      /\ table'[s].threads = 0 /\ table'[s].unreaped = 0 /\ table'[s].space = None
      /\ \A r \in Slots : r # s => table'[r] = table[r]
  <2>1. FreeSlot.space \in Spaces \cup {None} /\ 0 \in 0 .. Cardinality(Threads)
        /\ next_id \in 0 .. MaxPrograms
    BY <1>2, ProgramAssumption, FS_CardinalityType DEF FreeSlot, Ids
  <2>2. [FreeSlot EXCEPT !.state = "RUNNING", !.id = next_id] \in Process
    BY <2>1 DEF FreeSlot, Process
  <2> QED
    BY <1>1, <1>2, <2>2 DEF IInv, TypeOK, FreeSlot
<1>4. Uncounted' = Uncounted /\ Members' = Members
  BY <1>2, SameCounts
<1>5. /\ Uncounted[next_id] = {} /\ Members[next_id] = {}
      /\ \A t \in Threads : thread[t].counted_by # next_id
  <2>1. \A t \in Threads : /\ thread[t].counted_by # next_id
                           /\ thread[t].process # next_id
    BY <1>2 DEF IInv, TypeOK, Thread, ThreadsOK, Ids
  <2> QED
    BY <1>2, <2>1 DEF Uncounted, Members
<1>6. TypeOK'
  <2>1. fds' \in [Slots -> [FDs -> 0 .. MaxPrograms]]
    BY <1>1, <1>2, ProgramAssumption DEF IInv, TypeOK
  <2>2. next_id' \in 1 .. MaxPrograms + 1
    BY <1>2, ProgramAssumption DEF IInv, TypeOK, Ids
  <2> QED
    BY <1>1, <1>2, <1>3, <2>1, <2>2 DEF IInv, TypeOK
<1>7. SlotsOK'
  BY <1>1, <1>2, <1>3, ProgramAssumption DEF IInv, TypeOK, Process, SlotsOK, Used, Ids
<1>8. ThreadsOK'
  BY <1>2 DEF IInv, ThreadsOK, TypeOK, Thread, Ids
<1>9. NamedIsRunning'
  BY <1>1, <1>2, <1>3 DEF IInv, NamedIsRunning, Used
<1>10. CountsOK'
  <2>1. Cardinality({}) = 0
    BY FS_EmptySet
  <2>2. ASSUME NEW r \in Slots, Used(r)', r # s
        PROVE  Used(r) /\ table'[r] = table[r]
    BY <1>3, <2>2 DEF Used
  <2>3. ASSUME NEW r \in Slots, Used(r)'
        PROVE  /\ table'[r].unreaped = Cardinality(Uncounted'[table'[r].id])
               /\ table'[r].threads >= Cardinality(Members'[table'[r].id])
    <3>1. CASE r = s
      BY <1>3, <1>4, <1>5, <2>1, <3>1
    <3>2. CASE r # s
      BY <1>4, <2>2, <2>3, <3>2 DEF IInv, CountsOK
    <3> QED
      BY <3>1, <3>2
  <2> QED
    BY <2>3 DEF CountsOK
<1>11. CountedIsUsed'
  BY <1>1, <1>3, <1>4 DEF IInv, CountedIsUsed, Used
<1>12. MakingOK'
  <2>1. Cardinality({}) = 0
    BY FS_EmptySet
  <2> QED
    BY <1>2, <1>3, <1>4, <1>5, <2>1 DEF MakingOK
<1>13. ReapingOK'
  BY <1>1, <1>2, <1>3 DEF IInv, ReapingOK, Used
<1>14. SpacesOK'
  BY <1>1, <1>2, <1>3, ProgramAssumption DEF IInv, SpacesOK, SlotsOK, Used
<1>15. ActiveOK'
  BY <1>1, <1>2, <1>3 DEF IInv, ActiveOK, OnProcessor, Used
<1>16. ClosingOK'
  BY <1>1, <1>2, <1>3 DEF IInv, TypeOK, ClosingOK, Used
<1>17. FilesOK'
  BY <1>1, <1>2, <1>3 DEF IInv, TypeOK, FilesOK, Used
<1> QED
  BY <1>6, <1>7, <1>8, <1>9, <1>10, <1>11, <1>12, <1>13, <1>14, <1>15, <1>16, <1>17 DEF IInv

\* fd_open_standard opens for the process that has the slot.
LEMMA OpenKeeps ==
    ASSUME IInv, fd_open_standard
    PROVE  IInv'
<1>1. /\ making.step = "files" /\ making.slot \in Slots
      /\ making' = [making EXCEPT !.step = "space"]
      /\ fds' = [fds EXCEPT ![making.slot] =
                   [fd \in FDs |-> IF @[fd] = 0 THEN table[making.slot].id ELSE @[fd]]]
      /\ UNCHANGED <<table, next_id, thread, closing, refs, active, releasing, reaping,
                     pending>>
  BY DEF fd_open_standard, IInv, TypeOK, reaper, signals
<1>2. /\ making'.step = "space" /\ making'.slot = making.slot
      /\ making' \in [step : {"idle", "files", "space", "thread", "start"}, slot : Slots]
  BY <1>1 DEF IInv, TypeOK
<1>3. \A s \in Slots, fd \in FDs : fds'[s][fd] \in {fds[s][fd], table[s].id}
  BY <1>1 DEF IInv, TypeOK
<1>4. Uncounted' = Uncounted /\ Members' = Members
  BY <1>1, SameCounts
<1>5. TypeOK'
  <2>1. table[making.slot].id \in 0 .. MaxPrograms
    BY <1>1 DEF IInv, TypeOK, Process
  <2>2. [fd \in FDs |-> IF fds[making.slot][fd] = 0 THEN table[making.slot].id
                        ELSE fds[making.slot][fd]] \in [FDs -> 0 .. MaxPrograms]
    BY <1>1, <2>1 DEF IInv, TypeOK
  <2>3. fds' \in [Slots -> [FDs -> 0 .. MaxPrograms]]
    BY <1>1, <2>2 DEF IInv, TypeOK
  <2> QED
    BY <1>1, <1>2, <2>3 DEF IInv, TypeOK
<1>6. SlotsOK' /\ ThreadsOK' /\ NamedIsRunning'
  BY <1>1 DEF IInv, SlotsOK, ThreadsOK, NamedIsRunning, Used
<1>7. CountsOK' /\ CountedIsUsed'
  BY <1>1, <1>4 DEF IInv, CountsOK, CountedIsUsed, Used
<1>8. MakingOK'
  BY <1>1, <1>2, <1>4 DEF IInv, MakingOK
<1>9. ReapingOK' /\ SpacesOK' /\ ActiveOK' /\ ClosingOK'
  BY <1>1 DEF IInv, ReapingOK, SpacesOK, ActiveOK, ClosingOK, Used, OnProcessor
<1>10. FilesOK'
  BY <1>1, <1>3 DEF IInv, FilesOK, Used
<1> QED
  BY <1>5, <1>6, <1>7, <1>8, <1>9, <1>10 DEF IInv

\* process_set_space: the space had no holder, and no thread of the process
\* runs that could have loaded another map.
LEMMA SetSpaceKeeps ==
    ASSUME IInv, process_set_space
    PROVE  IInv'
<1> DEFINE a == Min({b \in Spaces : refs[b] = 0})
<1> DEFINE s == making.slot
<1>1. a \in Spaces /\ refs[a] = 0
  <2>1. {b \in Spaces : refs[b] = 0} # {} /\ {b \in Spaces : refs[b] = 0} \in SUBSET Nat
    BY ProgramAssumption DEF process_set_space
  <2> HIDE DEF a
  <2>2. a \in {b \in Spaces : refs[b] = 0}
    BY <2>1, MinIsIn DEF a
  <2> QED
    BY <2>2
<1>2. /\ making.step = "space" /\ s \in Slots
      /\ making' = [making EXCEPT !.step = "thread"]
      /\ refs' = [refs EXCEPT ![a] = 1]
      /\ table' = [table EXCEPT ![s].space = a]
      /\ UNCHANGED <<next_id, fds, thread, closing, active, releasing, reaping, pending>>
  BY DEF process_set_space, IInv, TypeOK, reaper, signals
<1> HIDE DEF a
<1>3. /\ making'.step = "thread" /\ making'.slot = s
      /\ making' \in [step : {"idle", "files", "space", "thread", "start"}, slot : Slots]
  BY <1>2 DEF IInv, TypeOK
<1>4. /\ table' \in [Slots -> Process]
      /\ table'[s].space = a
      /\ \A r \in Slots : /\ table'[r].state = table[r].state
                          /\ table'[r].id = table[r].id
                          /\ table'[r].threads = table[r].threads
                          /\ table'[r].unreaped = table[r].unreaped
                          /\ r # s => table'[r] = table[r]
  BY <1>1, <1>2, SMTT(30) DEF IInv, TypeOK, Process
<1>5. /\ table[s].state = "RUNNING"
      /\ \A t \in Threads : thread[t].counted_by # table[s].id
  BY <1>2 DEF IInv, MakingOK
<1>6. Uncounted' = Uncounted /\ Members' = Members
  BY <1>2, SameCounts
<1>7. TypeOK'
  BY <1>2, <1>3, <1>4 DEF IInv, TypeOK
<1>8. SlotsOK'
  BY <1>2, <1>4, <1>5 DEF IInv, SlotsOK, Used
<1>9. ThreadsOK' /\ NamedIsRunning' /\ FilesOK'
  BY <1>2, <1>4 DEF IInv, ThreadsOK, NamedIsRunning, FilesOK, Used
<1>10. CountsOK' /\ CountedIsUsed'
  BY <1>2, <1>4, <1>6 DEF IInv, CountsOK, CountedIsUsed, Used
<1>11. MakingOK'
  BY <1>2, <1>3, <1>4, <1>6 DEF IInv, MakingOK
<1>12. ReapingOK'
  BY <1>2, <1>4 DEF IInv, ReapingOK, Used
<1>13. SpacesOK'
  <2>1. table[s].space \notin Spaces /\ a # releasing /\ \A r \in Slots : table[r].space # a
    BY <1>1, <1>2, ProgramAssumption DEF IInv, MakingOK, SpacesOK
  <2>2. \A b \in Spaces : refs'[b] = 1 <=> \/ releasing' = b
                                          \/ \E r \in Slots : table'[r].space = b
    <3>1. ASSUME NEW b \in Spaces, b # a
          PROVE  (\E r \in Slots : table'[r].space = b) <=> \E r \in Slots : table[r].space = b
      BY <1>2, <1>4, <2>1, <3>1
    <3> QED
      BY <1>1, <1>2, <1>4, <2>1, <3>1 DEF IInv, TypeOK, SpacesOK
  <2> QED
    BY <1>1, <1>2, <1>4, <2>1, <2>2 DEF IInv, SpacesOK
<1>14. ActiveOK'
  BY <1>2, <1>4, <1>5 DEF IInv, ActiveOK, OnProcessor, Used
<1>15. ClosingOK'
  BY <1>2, <1>4 DEF IInv, TypeOK, ClosingOK
<1> QED
  BY <1>7, <1>8, <1>9, <1>10, <1>11, <1>12, <1>13, <1>14, <1>15 DEF IInv

\* process_attach: the struct was nobody's, so both counts go up by one.
LEMMA AttachKeeps ==
    ASSUME IInv, process_attach
    PROVE  IInv'
<1> DEFINE u == CHOOSE t \in Threads : thread[t].at = "unused"
<1> DEFINE s == making.slot
<1> DEFINE id == table[s].id
<1>1. u \in Threads /\ thread[u].at = "unused"
  BY DEF process_attach
<1>2. /\ making.step = "thread" /\ s \in Slots
      /\ making' = [making EXCEPT !.step = "start"]
      /\ thread' = [thread EXCEPT
           ![u] = [at |-> "stopped", process |-> id, counted_by |-> id]]
      /\ table' = [table EXCEPT ![s].threads = @ + 1, ![s].unreaped = @ + 1]
      /\ UNCHANGED <<next_id, fds, closing, refs, active, releasing, reaping, pending>>
  BY DEF process_attach, IInv, TypeOK, reaper, signals
<1> HIDE DEF u
<1>3. /\ making'.step = "start" /\ making'.slot = s
      /\ making' \in [step : {"idle", "files", "space", "thread", "start"}, slot : Slots]
  BY <1>2 DEF IInv, TypeOK
<1>4. table[s].state = "RUNNING" /\ id \in Ids /\ id \in 1 .. next_id - 1
  BY <1>2, Links DEF IInv, MakingOK, SlotsOK, Used
<1>5. /\ thread' \in [Threads -> Thread]
      /\ thread'[u] = [at |-> "stopped", process |-> id, counted_by |-> id]
      /\ \A t \in Threads : t # u => thread'[t] = thread[t]
  <2>1. [at |-> "stopped", process |-> id, counted_by |-> id] \in Thread
    BY <1>4 DEF Thread, Ids
  <2> QED
    BY <1>1, <1>2, <2>1 DEF IInv, TypeOK
<1>6. /\ thread[u].counted_by = 0 /\ thread[u].process = 0
      /\ ~(reaping.step = "free" /\ reaping.thread = u)
  BY <1>1 DEF IInv, ThreadsOK, ReapingOK
<1>7. /\ Uncounted'[id] = Uncounted[id] \cup {u} /\ Members'[id] = Members[id] \cup {u}
      /\ u \notin Uncounted[id] /\ u \notin Members[id]
      /\ \A i \in Ids : i # id => Uncounted'[i] = Uncounted[i] /\ Members'[i] = Members[i]
  <2>1. \A i \in Ids : i # 0
    BY DEF Ids
  <2>2. \A t \in Threads : /\ t # u => thread'[t] = thread[t]
                           /\ thread'[u].counted_by = id /\ thread'[u].process = id
    BY <1>5
  <2>3. UNCHANGED reaping
    BY <1>2
  <2> HIDE DEF id, s
  <2>4. /\ Uncounted'[id] = Uncounted[id] \cup {u} /\ u \notin Uncounted[id]
        /\ \A i \in Ids : i # id => Uncounted'[i] = Uncounted[i]
    BY <1>1, <1>4, <1>6, <2>1, <2>2, <2>3 DEF Uncounted
  <2>5. /\ Members'[id] = Members[id] \cup {u} /\ u \notin Members[id]
        /\ \A i \in Ids : i # id => Members'[i] = Members[i]
    BY <1>1, <1>4, <1>6, <2>1, <2>2 DEF Members
  <2> QED
    BY <2>4, <2>5
<1>8. /\ Cardinality(Uncounted'[id]) = table[s].unreaped + 1
      /\ Cardinality(Members'[id]) = table[s].threads + 1
      /\ Cardinality(Uncounted'[id]) \in 0 .. Cardinality(Threads)
      /\ Cardinality(Members'[id]) \in 0 .. Cardinality(Threads)
  <2>1. /\ table[s].unreaped = Cardinality(Uncounted[id])
        /\ table[s].threads = Cardinality(Members[id])
    BY <1>2, <1>4 DEF IInv, CountsOK, MakingOK, Used
  <2>2. Uncounted[id] \in SUBSET Threads /\ Members[id] \in SUBSET Threads
    BY <1>4, Links
  <2> HIDE DEF id, s
  <2>3. /\ Cardinality(Uncounted[id] \cup {u}) = Cardinality(Uncounted[id]) + 1
        /\ Cardinality(Members[id] \cup {u}) = Cardinality(Members[id]) + 1
    BY <1>1, <1>7, <2>2, ThreadSets
  <2>4. Uncounted[id] \cup {u} \in SUBSET Threads /\ Members[id] \cup {u} \in SUBSET Threads
    BY <1>1, <2>2
  <2> QED
    BY <1>7, <2>1, <2>3, <2>4, ThreadSets
<1>9. /\ table' \in [Slots -> Process]
      /\ table'[s].threads = table[s].threads + 1
      /\ table'[s].unreaped = table[s].unreaped + 1
      /\ \A r \in Slots : /\ table'[r].state = table[r].state
                          /\ table'[r].id = table[r].id
                          /\ table'[r].space = table[r].space
                          /\ r # s => table'[r] = table[r]
  <2> DEFINE p == [table[s] EXCEPT !.threads = @ + 1, !.unreaped = @ + 1]
  <2>1. table[s] \in Process
    BY <1>2 DEF IInv, TypeOK
  <2>2. /\ p \in Process /\ p.state = table[s].state /\ p.id = table[s].id
        /\ p.space = table[s].space /\ p.threads = table[s].threads + 1
        /\ p.unreaped = table[s].unreaped + 1
    BY <1>8, <2>1 DEF Process
  <2>3. table' = [table EXCEPT ![s] = p]
    BY <1>2, <2>1 DEF IInv, TypeOK, Process
  <2> HIDE DEF p
  <2> QED
    BY <1>2, <2>2, <2>3 DEF IInv, TypeOK
<1>10. TypeOK'
  BY <1>2, <1>3, <1>5, <1>9 DEF IInv, TypeOK
<1>11. SlotsOK' /\ FilesOK'
  <2> HIDE DEF s, id
  <2>1. SlotsOK'
    <3>1. \A r \in Slots : Used(r)' <=> Used(r)
      BY <1>9 DEF Used
    <3> QED
      BY <1>2, <1>9, <3>1 DEF IInv, SlotsOK
  <2>2. FilesOK'
    BY <1>2, <1>9 DEF IInv, FilesOK, Used
  <2> QED
    BY <2>1, <2>2
<1>12. ThreadsOK'
  BY <1>1, <1>2, <1>4, <1>5, ProgramAssumption DEF IInv, ThreadsOK, TypeOK
<1>13. NamedIsRunning'
  BY <1>1, <1>2, <1>4, <1>5, <1>9, SMTT(30) DEF IInv, NamedIsRunning
<1>14. CountsOK'
  <2>1. ASSUME NEW r \in Slots, Used(r)', r # s
        PROVE  /\ table'[r].unreaped = Cardinality(Uncounted'[table'[r].id])
               /\ table'[r].threads >= Cardinality(Members'[table'[r].id])
    <3>1. Used(r) /\ table'[r] = table[r]
      BY <1>9, <2>1 DEF Used
    <3>2. table[r].id # id /\ table[r].id \in Ids
      BY <1>2, <1>4, <2>1, <3>1, Links DEF IInv, SlotsOK, Used
    <3> QED
      BY <1>7, <3>1, <3>2 DEF IInv, CountsOK
  <2>2. /\ table'[s].unreaped = Cardinality(Uncounted'[table'[s].id])
        /\ table'[s].threads >= Cardinality(Members'[table'[s].id])
    BY <1>2, <1>8, <1>9, SMTT(30)
  <2> QED
    BY <2>1, <2>2 DEF CountsOK
<1>15. CountedIsUsed'
  BY <1>2, <1>4, <1>7, <1>9, SMTT(30) DEF IInv, CountedIsUsed, Used
<1>16. MakingOK'
  BY <1>1, <1>2, <1>3, <1>4, <1>5, <1>8, <1>9, SMTT(30) DEF IInv, MakingOK
<1>17. ReapingOK'
  BY <1>1, <1>2, <1>5, <1>9 DEF IInv, ReapingOK, Used
<1>18. SpacesOK'
  BY <1>2, <1>9, SMTT(30) DEF IInv, SpacesOK
<1>19. ActiveOK'
  BY <1>1, <1>2, <1>5, <1>9, SMTT(30) DEF IInv, ActiveOK, OnProcessor, Used
<1>20. ClosingOK'
  BY <1>1, <1>2, <1>5, <1>9 DEF IInv, TypeOK, ClosingOK
<1> QED
  BY <1>10, <1>11, <1>12, <1>13, <1>14, <1>15, <1>16, <1>17, <1>18, <1>19, <1>20 DEF IInv

-----------------------------------------------------------------------------
(* Ending and reaping.                                                     *)

\* process_thread_ended: the process the thread names has not ended, and ends
\* only when nobody else names it.
LEMMA EndedKeeps ==
    ASSUME IInv, NEW t \in Threads, process_thread_ended(t)
    PROVE  IInv'
<1> DEFINE i == thread[t].process
<1> DEFINE s == CHOOSE x \in Found(i) : table[x].state = "RUNNING"
<1> DEFINE last == table[s].threads = 1
<1>1. thread[t].at = "finished" /\ i # 0
  BY DEF process_thread_ended, IInv, ThreadsOK
<1>2. i \in Ids /\ i = thread[t].counted_by /\ t \in Members[i]
  BY <1>1, Links
<1>3. s \in Slots /\ table[s].state = "RUNNING" /\ table[s].id = i /\ Used(s)
  <2>1. PICK r \in Slots : table[r].state = "RUNNING" /\ table[r].id = i
    BY <1>1 DEF IInv, NamedIsRunning
  <2>2. r \in Found(i)
    BY <1>1, <2>1 DEF Found, Used
  <2>3. s \in Found(i) /\ table[s].state = "RUNNING"
    BY <2>1, <2>2
  <2> QED
    BY <2>3 DEF Found, Used
<1>4. /\ table' = [table EXCEPT ![s].threads = @ - 1,
                                ![s].state = IF last THEN "ENDED" ELSE @]
      /\ closing' = [closing EXCEPT ![t] = IF last THEN s ELSE None]
      /\ thread' = [thread EXCEPT ![t].at = "told", ![t].process = 0]
      /\ UNCHANGED <<next_id, fds, making, refs, active, releasing, reaping, pending>>
  BY DEF process_thread_ended, reaper, signals
<1> HIDE DEF s
<1>5. /\ thread' \in [Threads -> Thread]
      /\ thread'[t].at = "told" /\ thread'[t].process = 0
      /\ \A u \in Threads : /\ thread'[u].counted_by = thread[u].counted_by
                            /\ u # t => thread'[u] = thread[u]
  <2>1. [thread[t] EXCEPT !.at = "told", !.process = 0] \in Thread
    <3>1. thread[t] \in Thread /\ 0 \in 0 .. MaxPrograms
      BY ProgramAssumption DEF IInv, TypeOK
    <3> QED
      BY <3>1 DEF Thread
  <2>2. thread' = [thread EXCEPT ![t] = [thread[t] EXCEPT !.at = "told", !.process = 0]]
    BY <1>4 DEF IInv, TypeOK, Thread
  <2> QED
    BY <2>1, <2>2 DEF IInv, TypeOK, Thread
<1>6. /\ Uncounted' = Uncounted
      /\ Members'[i] = Members[i] \ {t}
      /\ \A j \in Ids : j # i => Members'[j] = Members[j]
  <2>1. \A j \in Ids : Uncounted'[j] = Uncounted[j]
    BY <1>4, <1>5 DEF Uncounted
  <2>2. \A j \in Ids : j # 0
    BY DEF Ids
  <2>3. \A u \in Threads : u # t => thread'[u].process = thread[u].process
    BY <1>5
  <2>4. thread[t].process = i
    OBVIOUS
  <2> HIDE DEF i
  <2>5. Members'[i] = Members[i] \ {t}
    BY <1>2, <1>5, <2>2, <2>3 DEF Members
  <2>6. \A j \in Ids : j # i => Members'[j] = Members[j]
    BY <1>2, <1>5, <2>2, <2>3, <2>4 DEF Members
  <2> QED
    BY <2>1, <2>5, <2>6 DEF Uncounted
<1>7. /\ table[s].threads >= 1 /\ table[s].threads - 1 >= Cardinality(Members'[i])
      /\ last => Members'[i] = {}
      /\ table[s].threads \in 0 .. Cardinality(Threads) /\ Cardinality(Threads) \in Nat
  <2>1. table[s].threads >= Cardinality(Members[i])
    BY <1>3 DEF IInv, CountsOK
  <2>2. Members[i] \in SUBSET Threads
    BY <1>2, Links
  <2>3. /\ Cardinality(Members[i]) \in Nat
        /\ Cardinality(Members[i] \ {t}) = Cardinality(Members[i]) - 1
        /\ Cardinality(Members[i] \ {t}) \in Nat
        /\ Cardinality(Members[i] \ {t}) = 0 <=> Members[i] \ {t} = {}
    <3> HIDE DEF i
    <3>1. Members[i] \ {t} \in SUBSET Threads
      BY <2>2
    <3>2. Cardinality(Members[i] \ {t}) \in 0 .. Cardinality(Threads)
      BY <3>1, ThreadSets
    <3>3. Cardinality(Members[i] \ {t}) = 0 <=> Members[i] \ {t} = {}
      BY <3>1, ThreadSets
    <3>4. /\ Cardinality(Members[i]) \in 0 .. Cardinality(Threads)
          /\ Cardinality(Members[i] \ {t}) = Cardinality(Members[i]) - 1
      BY <1>2, <2>2, ThreadSets
    <3> QED
      BY <3>2, <3>3, <3>4
  <2>4. table[s].threads \in 0 .. Cardinality(Threads) /\ Cardinality(Threads) \in Nat
    BY <1>3, ProgramAssumption, FS_CardinalityType DEF IInv, TypeOK, Process
  <2> QED
    BY <1>6, <2>1, <2>3, <2>4
<1>8. /\ table' \in [Slots -> Process]
      /\ table'[s].threads = table[s].threads - 1
      /\ table'[s].state = IF last THEN "ENDED" ELSE "RUNNING"
      /\ \A r \in Slots : /\ table'[r].id = table[r].id
                          /\ table'[r].unreaped = table[r].unreaped
                          /\ table'[r].space = table[r].space
                          /\ r # s => table'[r] = table[r]
  <2> DEFINE p == [table[s] EXCEPT !.threads = @ - 1,
                                   !.state = IF last THEN "ENDED" ELSE @]
  <2>1. table[s] \in Process
    BY <1>3 DEF IInv, TypeOK
  <2>2. /\ p \in Process /\ p.state = (IF last THEN "ENDED" ELSE "RUNNING")
        /\ p.id = table[s].id /\ p.space = table[s].space
        /\ p.threads = table[s].threads - 1 /\ p.unreaped = table[s].unreaped
    <3>1. table[s].threads - 1 \in 0 .. Cardinality(Threads)
      BY <1>7
    <3> HIDE DEF last
    <3> QED
      BY <1>3, <2>1, <3>1 DEF Process
  <2>3. table' = [table EXCEPT ![s] = p]
    BY <1>3, <1>4, <2>1 DEF IInv, TypeOK, Process
  <2> HIDE DEF p
  <2> QED
    BY <1>3, <2>2, <2>3 DEF IInv, TypeOK
<1>9. \A r \in Slots : Used(r)' <=> Used(r)
  BY <1>3, <1>8 DEF Used
<1>10. making.step # "idle" => making.slot # s
  BY <1>1, <1>2, <1>3 DEF IInv, MakingOK
<1>11. TypeOK'
  <2>1. closing' \in [Threads -> Slots \cup {None}]
    BY <1>3, <1>4 DEF IInv, TypeOK
  <2> QED
    BY <1>4, <1>5, <1>8, <2>1 DEF IInv, TypeOK
<1>12. SlotsOK'
  BY <1>4, <1>8, <1>9 DEF IInv, SlotsOK
<1>13. ThreadsOK'
  BY <1>1, <1>2, <1>4, <1>5 DEF IInv, ThreadsOK, Ids
<1>14. NamedIsRunning'
  <2>1. ASSUME NEW u \in Threads, thread'[u].process # 0
        PROVE  \E r \in Slots : table'[r].state = "RUNNING" /\ table'[r].id = thread'[u].process
    <3>1. u # t /\ thread'[u].process = thread[u].process
      BY <1>5, <2>1
    <3>2. PICK r \in Slots : table[r].state = "RUNNING" /\ table[r].id = thread[u].process
      BY <2>1, <3>1 DEF IInv, NamedIsRunning
    <3>3. r = s => ~last
      <4>1. SUFFICES ASSUME r = s PROVE u \in Members'[i]
        BY <1>7
      <4>2. u \in Members[i]
        BY <1>3, <2>1, <3>1, <3>2, <4>1, Links
      <4> QED
        BY <1>6, <3>1, <4>2
    <3> QED
      BY <1>8, <3>1, <3>2, <3>3
  <2> QED
    BY <2>1 DEF NamedIsRunning
<1>15. CountsOK'
  <2>1. ASSUME NEW r \in Slots, Used(r)
        PROVE  /\ table'[r].unreaped = Cardinality(Uncounted'[table'[r].id])
               /\ table'[r].threads >= Cardinality(Members'[table'[r].id])
    <3>1. CASE r = s
      BY <1>3, <1>6, <1>7, <1>8, <2>1, <3>1, ZenonT(60) DEF IInv, CountsOK
    <3>2. CASE r # s
      <4>1. table[r].id # i /\ table[r].id \in Ids
        BY <1>3, <2>1, <3>2, Links DEF IInv, SlotsOK
      <4> QED
        BY <1>6, <1>8, <2>1, <3>2, <4>1 DEF IInv, CountsOK
    <3> QED
      BY <3>1, <3>2
  <2> QED
    BY <1>9, <2>1 DEF CountsOK
<1>16. CountedIsUsed'
  BY <1>6, <1>8, <1>9 DEF IInv, CountedIsUsed
<1>17. MakingOK'
  <2>1. SUFFICES ASSUME making.step # "idle" PROVE MakingOK'
    BY <1>4 DEF MakingOK
  <2>2. making.slot \in Slots /\ table'[making.slot] = table[making.slot]
    BY <1>8, <1>10, <2>1 DEF IInv, TypeOK
  <2>3. Used(making.slot) /\ table[making.slot].id # i /\ table[making.slot].id \in Ids
    BY <1>3, <1>10, <2>1, <2>2, Links DEF IInv, MakingOK, SlotsOK, Used
  <2>4. thread[t].counted_by # table[making.slot].id
    BY <1>2, <2>3
  <2> HIDE DEF i
  <2>5. \A u \in Threads : thread'[u].counted_by = table[making.slot].id => thread'[u] = thread[u]
    BY <1>5, <2>4
  <2>6. Members'[table[making.slot].id] = Members[table[making.slot].id]
    BY <1>6, <2>3
  <2> QED
    BY <1>4, <2>1, <2>2, <2>5, <2>6 DEF IInv, MakingOK
<1>18. ReapingOK'
  BY <1>1, <1>4, <1>5, <1>8, <1>9 DEF IInv, ReapingOK
<1>19. SpacesOK' /\ FilesOK'
  <2>1. SpacesOK'
    BY <1>4, <1>8 DEF IInv, SpacesOK
  <2>2. FilesOK'
    BY <1>4, <1>8, <1>9 DEF IInv, FilesOK
  <2> QED
    BY <2>1, <2>2
<1>20. ActiveOK'
  BY <1>1, <1>4, <1>5, <1>8, <1>9 DEF IInv, ActiveOK, OnProcessor
<1>21. ClosingOK'
  <2>1. \A u \in Threads : closing[u] # None => closing[u] \in Slots /\ closing[u] # s
    BY <1>3 DEF IInv, TypeOK, ClosingOK
  <2> QED
    BY <1>2, <1>3, <1>4, <1>5, <1>8, <2>1 DEF IInv, TypeOK, ClosingOK
<1> QED
  BY <1>11, <1>12, <1>13, <1>14, <1>15, <1>16, <1>17, <1>18, <1>19, <1>20, <1>21 DEF IInv

\* FindVictim looks the slot up without the lock; the victim has not been
\* counted, so it is there and stays.
LEMMA FindKeeps ==
    ASSUME IInv, FindVictim
    PROVE  IInv'
<1>1. /\ reaping.step = "look"
      /\ UNCHANGED <<table, next_id, fds, thread, closing, making, refs, active, releasing,
                     pending>>
  BY DEF FindVictim, signals
<1>2. releasing = None
  BY <1>1 DEF IInv, ReapingOK
<1>3. \/ reaping' = NotReaping
      \/ \E t \in Threads, s \in Slots :
           /\ thread[t].at = "off" /\ Used(s) /\ table[s].id = thread[t].counted_by
           /\ reaping' = [step |-> "count", thread |-> t, slot |-> s]
  <2>1. SUFFICES ASSUME Victims # {}
                 PROVE  \E t \in Threads, s \in Slots :
                          /\ thread[t].at = "off" /\ Used(s)
                          /\ table[s].id = thread[t].counted_by
                          /\ reaping' = [step |-> "count", thread |-> t, slot |-> s]
    BY DEF FindVictim
  <2>2. PICK t \in Victims :
          reaping' = [step   |-> IF CounterOf(t) = {} THEN "free" ELSE "count",
                      thread |-> t,
                      slot   |-> IF CounterOf(t) = {} THEN None
                                 ELSE CHOOSE s \in CounterOf(t) : TRUE]
    BY <2>1 DEF FindVictim
  <2>3. t \in Threads /\ thread[t].at = "off" /\ thread[t].counted_by # 0
    BY DEF Victims, IInv, ThreadsOK
  <2>4. thread[t].counted_by \in Ids /\ t \in Uncounted[thread[t].counted_by]
    BY <1>1, <2>3, Links DEF Uncounted
  <2>5. CounterOf(t) # {}
    BY <2>3, <2>4 DEF IInv, CountedIsUsed, CounterOf, Found
  <2>6. (CHOOSE s \in CounterOf(t) : TRUE) \in CounterOf(t)
    BY <2>5
  <2> QED
    BY <2>2, <2>3, <2>5, <2>6 DEF CounterOf, Found
<1>4. Uncounted' = Uncounted /\ Members' = Members
  <2>1. reaping'.step # "free"
    BY <1>3 DEF NotReaping
  <2> QED
    BY <1>1, <2>1, SameCounts
<1>5. TypeOK'
  <2>1. reaping' \in [step : {"idle", "look", "count", "free"},
                      thread : Threads \cup {None}, slot : Slots \cup {None}]
    BY <1>3 DEF NotReaping
  <2> QED
    BY <1>1, <2>1 DEF IInv, TypeOK
<1>6. SlotsOK' /\ ThreadsOK' /\ NamedIsRunning' /\ FilesOK'
  BY <1>1 DEF IInv, SlotsOK, ThreadsOK, NamedIsRunning, FilesOK, Used
<1>7. CountsOK' /\ CountedIsUsed' /\ MakingOK'
  BY <1>1, <1>4 DEF IInv, CountsOK, CountedIsUsed, MakingOK, Used
<1>8. ReapingOK'
  BY <1>1, <1>2, <1>3 DEF ReapingOK, NotReaping, Used
<1>9. SpacesOK' /\ ActiveOK' /\ ClosingOK'
  BY <1>1 DEF IInv, SpacesOK, ActiveOK, ClosingOK, Used, OnProcessor
<1> QED
  BY <1>5, <1>6, <1>7, <1>8, <1>9 DEF IInv

\* process_thread_reaped: a slot is freed only when every thread it counted
\* has been seen, off its processor: nobody closes files there and nobody
\* translates through its map, which the reaper now holds alone.
LEMMA ReapedKeeps ==
    ASSUME IInv, process_thread_reaped
    PROVE  IInv'
<1> DEFINE v == reaping.thread
<1> DEFINE s == reaping.slot
<1> DEFINE i == table[s].id
<1> DEFINE p == [table[s] EXCEPT !.unreaped = IF @ = 0 THEN 0 ELSE @ - 1]
<1> DEFINE q == IF Collectable(p) THEN [p EXCEPT !.state = "FREE", !.space = None] ELSE p
<1>1. /\ reaping.step = "count"
      /\ table' = [table EXCEPT ![s] = q]
      /\ releasing' = IF Collectable(p) THEN p.space ELSE None
      /\ reaping' = [reaping EXCEPT !.step = "free"]
      /\ UNCHANGED <<next_id, fds, thread, closing, making, refs, active, pending>>
  BY DEF process_thread_reaped, signals
<1>2. /\ v \in Threads /\ thread[v].at = "off" /\ thread[v].counted_by = i
      /\ s \in Slots /\ Used(s) /\ i \in Ids /\ releasing = None
  BY <1>1, Links DEF IInv, ReapingOK
<1>3. /\ reaping'.step = "free" /\ reaping'.thread = v
      /\ reaping' \in [step : {"idle", "look", "count", "free"},
                       thread : Threads \cup {None}, slot : Slots \cup {None}]
  BY <1>1 DEF IInv, TypeOK
<1>4. /\ Members' = Members
      /\ Uncounted'[i] = Uncounted[i] \ {v} /\ v \in Uncounted[i]
      /\ \A j \in Ids : j # i => Uncounted'[j] = Uncounted[j]
  <2>1. UNCHANGED thread /\ reaping.step = "count" /\ thread[v].counted_by = i
    BY <1>1, <1>2
  <2> HIDE DEF v, i, s
  <2>2. \A j \in Ids : Uncounted'[j] =
                         {t \in Threads : thread[t].counted_by = j /\ t # v}
    BY <1>3, <2>1 DEF Uncounted
  <2>3. \A j \in Ids : Uncounted[j] = {t \in Threads : thread[t].counted_by = j}
    BY <2>1 DEF Uncounted
  <2>4. \A j \in Ids : Members'[j] = Members[j]
    BY <2>1 DEF Members
  <2>5. Members' = Members
    BY <2>4 DEF Members
  <2>6. Uncounted'[i] = Uncounted[i] \ {v} /\ v \in Uncounted[i]
    BY <1>2, <2>1, <2>2, <2>3
  <2>7. \A j \in Ids : j # i => Uncounted'[j] = Uncounted[j]
    <3>1. ASSUME NEW j \in Ids, j # i PROVE Uncounted'[j] = Uncounted[j]
      <4>1. \A t \in Threads : thread[t].counted_by = j => t # v
        BY <2>1, <3>1
      <4>2. {t \in Threads : thread[t].counted_by = j /\ t # v}
              = {t \in Threads : thread[t].counted_by = j}
        BY <4>1
      <4> QED
        BY <2>2, <2>3, <4>2, Zenon
    <3> QED
      BY <3>1
  <2> QED
    BY <2>5, <2>6, <2>7
<1>5. /\ table[s].unreaped >= 1
      /\ table[s].unreaped - 1 = Cardinality(Uncounted'[i])
      /\ table[s].unreaped - 1 \in 0 .. Cardinality(Threads)
      /\ table[s].unreaped - 1 = 0 => Uncounted'[i] = {}
  <2>1. table[s].unreaped = Cardinality(Uncounted[i])
    BY <1>2 DEF IInv, CountsOK
  <2>2. Uncounted[i] \in SUBSET Threads
    BY <1>2, Links
  <2> HIDE DEF i, s, v
  <2>3. Uncounted[i] \ {v} \in SUBSET Threads
    BY <2>2
  <2>4. Cardinality(Uncounted[i] \ {v}) \in 0 .. Cardinality(Threads)
    BY <2>3, ThreadSets
  <2>5. Cardinality(Uncounted[i] \ {v}) = 0 <=> Uncounted[i] \ {v} = {}
    BY <2>3, ThreadSets
  <2>6. /\ Cardinality(Uncounted[i]) \in 0 .. Cardinality(Threads)
        /\ Cardinality(Uncounted[i] \ {v}) = Cardinality(Uncounted[i]) - 1
    BY <1>4, <2>2, ThreadSets
  <2> QED
    BY <1>4, <2>1, <2>4, <2>5, <2>6
<1>6. /\ p \in Process /\ p.unreaped = table[s].unreaped - 1
      /\ p.state = table[s].state /\ p.id = i /\ p.space = table[s].space
      /\ p.threads = table[s].threads
  <2>1. table[s] \in Process
    BY <1>2 DEF IInv, TypeOK
  <2> HIDE DEF s
  <2> QED
    BY <1>5, <2>1 DEF Process
<1> HIDE DEF p
<1>7. /\ q \in Process /\ q.id = i /\ q.threads = table[s].threads
      /\ q.unreaped = table[s].unreaped - 1
      /\ Collectable(p) => q.state = "FREE" /\ q.space = None
      /\ ~Collectable(p) => q.state = table[s].state /\ q.space = table[s].space
  BY <1>6 DEF Process
<1> HIDE DEF q
<1>8. /\ table' \in [Slots -> Process]
      /\ table'[s] = q
      /\ \A r \in Slots : r # s => table'[r] = table[r]
  BY <1>1, <1>2, <1>7 DEF IInv, TypeOK
<1>9. Collectable(p) =>
        /\ table[s].state = "ENDED"
        /\ \A t \in Threads : thread[t].counted_by = i => t = v
        /\ \A t \in Threads : thread[t].process # i
  <2> SUFFICES ASSUME Collectable(p) PROVE
        /\ table[s].state = "ENDED"
        /\ \A t \in Threads : thread[t].counted_by = i => t = v
        /\ \A t \in Threads : thread[t].process # i
    OBVIOUS
  <2>1. table[s].state = "ENDED" /\ Uncounted'[i] = {}
    BY <1>5, <1>6 DEF Collectable
  <2>2. Uncounted[i] = {t \in Threads : thread[t].counted_by = i}
    BY <1>1, <1>2 DEF Uncounted
  <2>3. ASSUME NEW t \in Threads PROVE thread[t].process # i
    <3>1. SUFFICES ASSUME thread[t].process = i PROVE FALSE
      OBVIOUS
    <3>2. i # 0
      BY <1>2 DEF Ids
    <3>3. PICK r \in Slots : table[r].state = "RUNNING" /\ table[r].id = i
      BY <3>1, <3>2 DEF IInv, NamedIsRunning
    <3>4. r = s
      BY <1>2, <3>3 DEF IInv, SlotsOK, Used
    <3> QED
      BY <2>1, <3>3, <3>4
  <2> QED
    BY <1>4, <2>1, <2>2, <2>3
<1>10. \A r \in Slots : /\ r # s => (Used(r)' <=> Used(r))
                        /\ Used(r)' => Used(r)
                        /\ table'[r].id = table[r].id
  BY <1>2, <1>6, <1>7, <1>8 DEF Used
<1>11. TypeOK'
  <2>1. releasing' \in Spaces \cup {None}
    BY <1>1, <1>6 DEF Process
  <2> QED
    BY <1>1, <1>3, <1>8, <2>1 DEF IInv, TypeOK
<1> HIDE DEF s, i, v
<1>12. SlotsOK'
  <2>1. \A r \in Slots : ~Used(r)' => table'[r].space = None
    BY <1>2, <1>7, <1>8, <1>10 DEF IInv, SlotsOK, Used
  <2> QED
    BY <1>1, <1>10, <2>1 DEF IInv, SlotsOK
<1>13. ThreadsOK'
  BY <1>1 DEF IInv, ThreadsOK
<1>14. NamedIsRunning'
  <2>1. ASSUME NEW t \in Threads, thread[t].process # 0
        PROVE  \E r \in Slots : table'[r].state = "RUNNING" /\ table'[r].id = thread[t].process
    <3>1. PICK r \in Slots : table[r].state = "RUNNING" /\ table[r].id = thread[t].process
      BY <2>1 DEF IInv, NamedIsRunning
    <3>2. r = s => ~Collectable(p)
      BY <1>9, <3>1
    <3> QED
      BY <1>7, <1>8, <1>10, <3>1, <3>2
  <2> QED
    BY <1>1, <2>1 DEF NamedIsRunning
<1>15. CountsOK'
  <2>1. ASSUME NEW r \in Slots, Used(r)'
        PROVE  /\ table'[r].unreaped = Cardinality(Uncounted'[table'[r].id])
               /\ table'[r].threads >= Cardinality(Members'[table'[r].id])
    <3>1. CASE r = s
      <4>1. table[s].threads >= Cardinality(Members[i])
        BY <1>2 DEF IInv, CountsOK, i
      <4> QED
        BY <1>4, <1>5, <1>7, <1>8, <3>1, <4>1
    <3>2. CASE r # s
      <4>1. Used(r) /\ table[r].id # i /\ table[r].id \in Ids
        BY <1>2, <1>10, <2>1, <3>2, Links DEF IInv, SlotsOK, i
      <4> QED
        BY <1>4, <1>8, <3>2, <4>1 DEF IInv, CountsOK
    <3> QED
      BY <3>1, <3>2
  <2> QED
    BY <2>1 DEF CountsOK
<1>16. CountedIsUsed'
  <2>1. ASSUME NEW j \in Ids, Uncounted'[j] # {}
        PROVE  \E r \in Slots : Used(r)' /\ table'[r].id = j
    <3>1. CASE j = i
      <4>1. ~Collectable(p)
        BY <1>5, <1>6, <2>1, <3>1 DEF Collectable
      <4>2. \A r \in Slots : r = s => Used(r)'
        BY <1>2, <1>7, <1>8, <4>1 DEF Used
      <4> QED
        BY <1>2, <1>10, <3>1, <4>2 DEF i
    <3>2. CASE j # i
      <4>1. PICK r \in Slots : Used(r) /\ table[r].id = j
        BY <1>4, <2>1, <3>2 DEF IInv, CountedIsUsed
      <4>2. r # s
        BY <3>2, <4>1 DEF i
      <4> QED
        BY <1>10, <4>1, <4>2
    <3> QED
      BY <3>1, <3>2
  <2> QED
    BY <2>1 DEF CountedIsUsed
<1>17. MakingOK'
  <2>1. SUFFICES ASSUME making.step # "idle" PROVE MakingOK'
    BY <1>1 DEF MakingOK
  <2>2. /\ making.slot \in Slots /\ table[making.slot].state = "RUNNING"
        /\ making.slot # s
    <3>1. making.slot \in Slots /\ table[making.slot].state = "RUNNING"
      BY <2>1 DEF IInv, TypeOK, MakingOK
    <3>2. thread[v].counted_by # table[making.slot].id
      BY <1>2, <2>1 DEF IInv, MakingOK
    <3> QED
      BY <1>2, <3>1, <3>2 DEF i
  <2>3. table'[making.slot] = table[making.slot]
    BY <1>8, <2>2
  <2> QED
    BY <1>1, <1>4, <2>1, <2>3 DEF IInv, MakingOK
<1>18. ReapingOK'
  BY <1>1, <1>2, <1>3 DEF ReapingOK
<1>19. SpacesOK'
  <2>1. CASE ~Collectable(p)
    <3>1. releasing' = None /\ \A r \in Slots : table'[r].space = table[r].space
      BY <1>1, <1>7, <1>8, <2>1
    <3> QED
      BY <1>1, <1>2, <3>1, ProgramAssumption DEF IInv, SpacesOK
  <2>2. CASE Collectable(p)
    <3>1. /\ releasing' = table[s].space /\ table'[s].space = None
          /\ \A r \in Slots : r # s => table'[r].space = table[r].space
      BY <1>1, <1>6, <1>7, <1>8, <2>2
    <3>2. \A b \in Spaces :
            (\/ releasing' = b \/ \E r \in Slots : table'[r].space = b)
              <=> \E r \in Slots : table[r].space = b
      BY <1>2, <3>1, ProgramAssumption
    <3> QED
      BY <1>1, <1>2, <3>1, <3>2, ProgramAssumption DEF IInv, SpacesOK
  <2> QED
    BY <2>1, <2>2
<1>20. ActiveOK'
  <2>1. ASSUME NEW t \in Threads, active[t] # None
        PROVE  \E r \in Slots : /\ Used(r)' /\ table'[r].id = thread[t].counted_by
                                /\ table'[r].space = active[t]
    <3>1. PICK r \in Slots : /\ Used(r) /\ table[r].id = thread[t].counted_by
                             /\ table[r].space = active[t]
      BY <2>1 DEF IInv, ActiveOK
    <3>2. t # v
      BY <1>2, <2>1 DEF IInv, ActiveOK, OnProcessor
    <3>3. r = s => ~Collectable(p)
      BY <1>9, <3>1, <3>2 DEF i
    <3>4. Used(r)' /\ table'[r].space = table[r].space
      BY <1>7, <1>8, <1>10, <3>1, <3>3 DEF Used
    <3> QED
      BY <1>10, <3>1, <3>4
  <2> QED
    BY <1>1, <2>1 DEF IInv, ActiveOK, OnProcessor
<1>21. ClosingOK'
  <2>1. ASSUME NEW t \in Threads, closing[t] # None
        PROVE  /\ table'[closing[t]].state = "ENDED"
               /\ table'[closing[t]].id = thread[t].counted_by
    <3>1. /\ closing[t] \in Slots /\ table[closing[t]].state = "ENDED"
          /\ table[closing[t]].id = thread[t].counted_by /\ t # v
      BY <1>2, <2>1 DEF IInv, TypeOK, ClosingOK
    <3>2. closing[t] = s => ~Collectable(p)
      BY <1>9, <3>1 DEF i
    <3> QED
      BY <1>7, <1>8, <1>10, <3>1, <3>2
  <2> QED
    BY <1>1, <2>1 DEF IInv, ClosingOK
<1>22. FilesOK'
  BY <1>1, <1>10 DEF IInv, FilesOK
<1> QED
  BY <1>11, <1>12, <1>13, <1>14, <1>15, <1>16, <1>17, <1>18, <1>19, <1>20, <1>21, <1>22
     DEF IInv

\* addrspace_release: the space it frees has no holder, and the struct it
\* clears had been counted.
LEMMA ReleaseKeeps ==
    ASSUME IInv, addrspace_release
    PROVE  IInv'
<1> DEFINE v == reaping.thread
<1>1. /\ reaping.step = "free"
      /\ refs' = IF releasing = None THEN refs
                 ELSE [refs EXCEPT ![releasing] = IF @ = 0 THEN 0 ELSE @ - 1]
      /\ releasing' = None
      /\ thread' = [thread EXCEPT ![v] = FreshThread]
      /\ reaping' = [NotReaping EXCEPT !.step = "look"]
      /\ UNCHANGED <<table, next_id, fds, closing, making, active, pending>>
  BY DEF addrspace_release, signals
<1>2. v \in Threads /\ thread[v].at = "off"
  BY <1>1 DEF IInv, ReapingOK
<1>3. /\ thread' \in [Threads -> Thread]
      /\ thread'[v].at = "unused" /\ thread'[v].counted_by = 0 /\ thread'[v].process = 0
      /\ \A t \in Threads : t # v => thread'[t] = thread[t]
  <2>1. FreshThread \in Thread
    BY ProgramAssumption DEF FreshThread, Thread
  <2> QED
    BY <1>1, <1>2, <2>1 DEF IInv, TypeOK, FreshThread
<1>4. /\ reaping'.step = "look"
      /\ reaping' \in [step : {"idle", "look", "count", "free"},
                       thread : Threads \cup {None}, slot : Slots \cup {None}]
  BY <1>1 DEF NotReaping
<1>5. \A i \in Ids : Uncounted'[i] = Uncounted[i] /\ Members'[i] = Members[i] \ {v}
  <2>1. \A i \in Ids : i # 0
    BY DEF Ids
  <2>2. \A i \in Ids : Uncounted[i] = {t \in Threads : thread[t].counted_by = i /\ t # v}
    BY <1>1 DEF Uncounted
  <2> HIDE DEF v
  <2>3. \A i \in Ids : Uncounted'[i] = {t \in Threads : thread[t].counted_by = i /\ t # v}
    BY <1>3, <1>4, <2>1 DEF Uncounted
  <2>4. \A i \in Ids : Members'[i] = Members[i] \ {v}
    BY <1>3, <2>1 DEF Members
  <2> QED
    BY <2>2, <2>3, <2>4
<1>6. refs' \in [Spaces -> {0, 1}]
  BY <1>1 DEF IInv, TypeOK
<1>7. \A b \in Spaces : refs'[b] = IF b = releasing THEN 0 ELSE refs[b]
  BY <1>1, ProgramAssumption DEF IInv, TypeOK
<1>8. TypeOK'
  BY <1>1, <1>3, <1>4, <1>6 DEF IInv, TypeOK
<1>9. SlotsOK' /\ FilesOK'
  BY <1>1 DEF IInv, SlotsOK, FilesOK, Used
<1> HIDE DEF v
<1>10. ThreadsOK'
  BY <1>1, <1>2, <1>3 DEF IInv, ThreadsOK, TypeOK
<1>11. NamedIsRunning'
  BY <1>1, <1>3 DEF IInv, NamedIsRunning
<1>12. CountsOK'
  <2>1. ASSUME NEW r \in Slots, Used(r)
        PROVE  /\ table[r].unreaped = Cardinality(Uncounted'[table[r].id])
               /\ table[r].threads >= Cardinality(Members'[table[r].id])
    <3> DEFINE i == table[r].id
    <3>1. i \in Ids
      BY <2>1, Links
    <3>2. /\ table[r].unreaped = Cardinality(Uncounted[i])
          /\ table[r].threads >= Cardinality(Members[i])
      BY <2>1 DEF IInv, CountsOK
    <3>3. table[r].threads \in Nat
      BY ProgramAssumption, FS_CardinalityType DEF IInv, TypeOK, Process
    <3>4. Members[i] \in SUBSET Threads
      BY <3>1, Links
    <3>5. CASE v \in Members[i]
      <4> HIDE DEF i
      <4>1. /\ Cardinality(Members[i]) \in 0 .. Cardinality(Threads)
            /\ Cardinality(Members[i] \ {v}) = Cardinality(Members[i]) - 1
        BY <3>4, <3>5, ThreadSets
      <4>2. table[r].threads >= Cardinality(Members'[i])
        <5>1. Members'[i] = Members[i] \ {v}
          BY <1>5, <3>1
        <5>2. Cardinality(Members'[i]) = Cardinality(Members[i]) - 1
          BY <4>1, <5>1
        <5> QED
          BY <3>2, <3>3, <4>1, <5>2
      <4> QED
        BY <1>5, <3>1, <3>2, <4>2 DEF i
    <3>6. CASE v \notin Members[i]
      <4>1. Members[i] \ {v} = Members[i]
        BY <3>6
      <4> QED
        BY <1>5, <3>1, <3>2, <4>1
    <3> QED
      BY <3>5, <3>6
  <2> QED
    BY <1>1, <2>1 DEF CountsOK, Used
<1>13. CountedIsUsed'
  BY <1>1, <1>5 DEF IInv, CountedIsUsed, Used
<1>14. MakingOK'
  <2>1. SUFFICES ASSUME making.step # "idle" PROVE MakingOK'
    BY <1>1 DEF MakingOK
  <2> DEFINE i == table[making.slot].id
  <2>2. i \in Ids /\ thread[v].counted_by # i
    BY <1>2, <2>1, Links DEF IInv, TypeOK, MakingOK, Used
  <2>3. v \notin Members[i]
    BY <1>2, <2>2 DEF IInv, ThreadsOK, Members, Ids
  <2>4. Members'[i] = Members[i]
    <3>1. Members'[i] = Members[i] \ {v}
      BY <1>5, <2>2
    <3> HIDE DEF i
    <3> QED
      BY <2>3, <3>1
  <2>5. \A t \in Threads : thread'[t].counted_by = i => thread'[t] = thread[t]
    BY <1>3, <2>2 DEF Ids
  <2> QED
    BY <1>1, <2>1, <2>4, <2>5 DEF IInv, MakingOK
<1>15. ReapingOK'
  BY <1>1, <1>4 DEF ReapingOK
<1>16. SpacesOK'
  <2>1. \A b \in Spaces : refs'[b] = 1 <=> \E r \in Slots : table[r].space = b
    BY <1>7 DEF IInv, SpacesOK
  <2> QED
    BY <1>1, <2>1, ProgramAssumption DEF IInv, SpacesOK
<1>17. ActiveOK'
  BY <1>1, <1>2, <1>3 DEF IInv, ActiveOK, OnProcessor, Used
<1>18. ClosingOK'
  BY <1>1, <1>2, <1>3 DEF IInv, ClosingOK
<1> QED
  BY <1>8, <1>9, <1>10, <1>11, <1>12, <1>13, <1>14, <1>15, <1>16, <1>17, <1>18 DEF IInv

-----------------------------------------------------------------------------
(* The theorems.                                                           *)

LEMMA InitEstablishes ==
    ASSUME Init
    PROVE  IInv
<1>1. \A i \in Ids : Uncounted[i] = {} /\ Members[i] = {}
  BY DEF Init, Uncounted, Members, FreshThread, Ids
<1>2. TypeOK
  <2>1. 0 \in Slots /\ 0 \in 0 .. Cardinality(Threads) /\ 0 \in 0 .. MaxPrograms
        /\ 1 \in 1 .. MaxPrograms + 1
    BY ProgramAssumption, FS_CardinalityType DEF Slots
  <2>2. FreeSlot \in Process /\ FreshThread \in Thread
    BY <2>1 DEF FreeSlot, Process, FreshThread, Thread
  <2> QED
    BY <2>1, <2>2 DEF Init, TypeOK, NotMaking, NotReaping
<1>3. SlotsOK /\ ThreadsOK /\ NamedIsRunning /\ FilesOK
  BY DEF Init, SlotsOK, ThreadsOK, NamedIsRunning, FilesOK, Used, FreeSlot, FreshThread
<1>4. CountsOK /\ CountedIsUsed
  BY <1>1 DEF Init, CountsOK, CountedIsUsed, Used, FreeSlot
<1>5. MakingOK /\ ReapingOK
  BY DEF Init, MakingOK, ReapingOK, NotMaking, NotReaping
<1>6. SpacesOK /\ ActiveOK /\ ClosingOK
  BY ProgramAssumption DEF Init, SpacesOK, ActiveOK, ClosingOK, FreeSlot
<1> QED
  BY <1>2, <1>3, <1>4, <1>5, <1>6 DEF IInv

LEMMA NextKeeps ==
    ASSUME IInv, [Next]_vars
    PROVE  IInv'
<1>1. ASSUME Making PROVE IInv'
  BY <1>1, CreateKeeps, OpenKeeps, SetSpaceKeeps, AttachKeeps, ProgressKeeps, StartKeeps
     DEF Making
<1>2. ASSUME NEW t \in Threads, SwitchTo(t) \/ SwitchFrom(t) \/ sys_exit(t)
      PROVE  IInv'
  BY <1>2, SwitchToKeeps, StopsKeeps
<1>3. ASSUME NEW t \in Threads, Ending(t) PROVE IInv'
  BY <1>3, EndedKeeps, CloseKeeps, StopsKeeps DEF Ending
<1>4. ASSUME NEW t \in Threads, Signal(t) PROVE IInv'
  BY <1>4, SetActionKeeps, StopsKeeps DEF Signal
<1>5. ASSUME Reaper PROVE IInv'
  BY <1>5, ProgressKeeps, FindKeeps, ReapedKeeps, ReleaseKeeps DEF Reaper
<1>6. ASSUME NEW id \in Ids, NEW sig \in Sigs, signal_send(id, sig) PROVE IInv'
  BY <1>6, SendKeeps
<1>7. ASSUME UNCHANGED vars PROVE IInv'
  BY <1>7, QuietKeeps DEF vars, reaper, signals, IInv, TypeOK
<1> QED
  BY <1>1, <1>2, <1>3, <1>4, <1>5, <1>6, <1>7 DEF Next

\* The inductive invariant holds in every state of every behaviour.
THEOREM Invariance == Spec => []IInv
<1>1. Init => IInv
  BY InitEstablishes
<1>2. IInv /\ [Next]_vars => IInv'
  BY NextKeeps
<1> QED
  BY <1>1, <1>2, PTL DEF Spec

\* The table, the threads, the reference counts and the reaper keep their
\* types: no count goes below zero or above the number of threads
\* (process_attach, process_thread_ended, process_thread_reaped).
THEOREM TypeCorrect == Spec => []TypeOK
<1>1. IInv => TypeOK
  BY DEF IInv
<1> QED
  BY <1>1, Invariance, PTL

\* The thread that ended last closes its own process's files and no other's,
\* although it holds no lock and the slot is found by address
\* (process_thread_ended, fd_close_all).
THEOREM ClosesOwn == Spec => []OwnDescriptors
<1>1. IInv => OwnDescriptors
  BY DEF IInv, TypeOK, ClosingOK, FilesOK, OwnDescriptors, Used
<1> QED
  BY <1>1, Invariance, PTL

\* The address space a processor translates through has not been released
\* (process_thread_reaped, addrspace_release).
THEOREM MapOutlives == Spec => []SpaceOutlivesThreads
<1>1. ASSUME IInv, NEW t \in Threads, OnProcessor(t), active[t] # None
      PROVE  /\ refs[active[t]] > 0
             /\ \A s \in Slots : Used(s) /\ table[s].space = active[t]
                                   => table[s].id = thread[t].counted_by
  <2>1. PICK r \in Slots : /\ Used(r) /\ table[r].id = thread[t].counted_by
                           /\ table[r].space = active[t]
    BY <1>1 DEF IInv, ActiveOK
  <2>2. active[t] \in Spaces
    BY <1>1 DEF IInv, TypeOK
  <2>3. refs[active[t]] = 1
    BY <1>1, <2>1, <2>2 DEF IInv, SpacesOK
  <2> QED
    BY <1>1, <2>1, <2>2, <2>3 DEF IInv, SpacesOK
<1>2. IInv => SpaceOutlivesThreads
  BY <1>1 DEF SpaceOutlivesThreads
<1> QED
  BY <1>2, Invariance, PTL
=============================================================================
