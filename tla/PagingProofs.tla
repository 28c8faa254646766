---------------------------- MODULE PagingProofs ----------------------------
(***************************************************************************)
(* Proofs about Paging, for any number of processors, spaces, pages and    *)
(* frames: whatever the timing of shootdowns and of programs that end, a   *)
(* processor translates through its own program's live tables, a page      *)
(* reads as what its program wrote, and every frame has exactly one use.   *)
(***************************************************************************)
EXTENDS Paging, FiniteSetTheorems, TLAPS

\* A space is in use exactly while its program's one thread is somewhere.
SpacesOK ==
    /\ \A s \in Spaces :
         root[s] # None <=> s \in ready \/ s \in ended \/ \E c \in Cpus : running[c] = s
    /\ \A s \in Spaces : ~(s \in ready /\ s \in ended)
    /\ \A c \in Cpus : running[c] \notin ready /\ running[c] \notin ended
    /\ \A c, d \in Cpus : running[c] = running[d] /\ running[c] # None => c = d

\* What a processor believes it has loaded is what it has, and what it needs.
MapOK ==
    \A c \in Cpus :
        /\ active[c] = running[c]
        /\ cr3[c] = IF running[c] = None THEN None ELSE root[running[c]]

\* A translation that is held is the table's, or is to the zeroes from before
\* the page was copied.
TlbOK ==
    \A c \in Cpus : \A v \in Pages : tlb[c][v] \in {None, Zero, Entries(c)[v]}

\* A fault that is replacing the zeroes is its program's, and the page it has
\* prepared is as clear as they are.
FaultOK ==
    \A c \in Cpus :
        /\ pc[c] = "run" => fault[c] = NoFault
        /\ pc[c] # "run" =>
             /\ running[c] # None /\ c \notin service
             /\ fault[c].page \in Pages /\ fault[c].fresh \in Frames
             /\ pt[cr3[c]][fault[c].page] = Zero
             /\ mem[fault[c].fresh] = 0

Live == dying \cup {root[s] : s \in Spaces}
Mapped == {pt[r][v] : r \in Frames, v \in Pages}
Prepared == {fault[c].fresh : c \in Cpus}

\* The uses of a frame exclude one another ...
ApartOK ==
    /\ \A s \in Spaces : root[s] \notin free /\ root[s] \notin dying
    /\ \A s, t \in Spaces : root[s] = root[t] /\ root[s] # None => s = t
    /\ \A r \in dying : r \notin free
    /\ \A r \in Frames : r \notin Live => pt[r] = NoEntries
    /\ \A r \in Frames : \A v \in Pages :
         pt[r][v] \in Frames => pt[r][v] \notin free /\ pt[r][v] \notin Live
    /\ \A r, q \in Frames : \A v, w \in Pages :
         pt[r][v] = pt[q][w] /\ pt[r][v] \in Frames => r = q /\ v = w
    /\ \A c \in Cpus :
         fault[c].fresh \in Frames =>
           /\ fault[c].fresh \notin free
           /\ fault[c].fresh \notin Live /\ fault[c].fresh \notin Mapped
    /\ \A c, d \in Cpus :
         fault[c].fresh = fault[d].fresh /\ fault[c].fresh \in Frames => c = d

\* ... and leave out none.
NoneLost == \A f \in Frames : f \in free \/ f \in Live \/ f \in Mapped \/ f \in Prepared

\* What is in the tables is what the program wrote; the zeroes stay zeroes.
ContentsOK ==
    /\ mem[Zero] = 0
    /\ \A s \in Spaces : root[s] = None => wrote[s] = NothingWritten
    /\ ReadsOwnWrites

IInv ==
    /\ TypeOK
    /\ SpacesOK
    /\ MapOK
    /\ TlbOK
    /\ FaultOK
    /\ ApartOK
    /\ NoneLost
    /\ ContentsOK

\* While nothing is loaded behind the kernel's back, nothing old is held.
FreshOK ==
    \A c \in Cpus :
        /\ \A v \in Pages : tlb[c][v] \in {None, Entries(c)[v]}
        /\ pc[c] # "run" => tlb[c][fault[c].page] = None

-----------------------------------------------------------------------------
(* The uses of the frames.                                                *)

\* A step that neither takes, gives back nor maps a frame.
LEMMA UsesUnchanged ==
    ASSUME IInv, UNCHANGED <<free, root, dying, pt, fault>>
    PROVE  ApartOK' /\ NoneLost'
<1>1. Live' = Live /\ Mapped' = Mapped /\ Prepared' = Prepared
  BY DEF Live, Mapped, Prepared
<1>2. ApartOK'
  BY <1>1 DEF IInv, ApartOK
<1>3. NoneLost'
  BY <1>1 DEF IInv, NoneLost
<1> QED
  BY <1>2, <1>3

-----------------------------------------------------------------------------
(* Programs.                                                                *)

\* addrspace_create: the new root is a free frame with nothing below it.
LEMMA CreateKeeps ==
    ASSUME IInv, NEW s \in Spaces, addrspace_create(s)
    PROVE  IInv'
<1>1. PICK r \in free : free' = free \ {r} /\ root' = [root EXCEPT ![s] = r]
  BY DEF addrspace_create
<1>2. /\ root[s] = None /\ r \in Frames /\ r # None /\ UNCHANGED <<mem, dying, pt, fault, wrote>>
      /\ root \in [Spaces -> Frames \cup {None}]
  BY PagingAssumption DEF IInv, TypeOK, addrspace_create
<1>3. r \notin Live /\ r \notin Mapped /\ r \notin Prepared /\ pt[r] = NoEntries
  BY <1>1, <1>2 DEF IInv, ApartOK, Live, Mapped, Prepared
<1>4. \A f \in Frames :
        /\ f \in Live' <=> f \in Live \/ f = r
        /\ f \in Mapped' <=> f \in Mapped
        /\ f \in Prepared' <=> f \in Prepared
  BY <1>1, <1>2, PagingAssumption DEF Live, Mapped, Prepared
<1>5. ApartOK'
  <2>1. \A f \in Frames, c \in Cpus : fault[c].fresh = f => f # r
    BY <1>3 DEF Prepared
  <2>2. \A f \in Frames, q \in Frames, v \in Pages : pt[q][v] = f => f # r
    BY <1>3 DEF Mapped
  <2> QED
    BY <1>1, <1>2, <1>3, <1>4, <2>1, <2>2 DEF IInv, ApartOK
<1>6. NoneLost'
  BY <1>1, <1>2, <1>4 DEF IInv, NoneLost
<1>7. ContentsOK'
  BY <1>1, <1>2, <1>3 DEF IInv, ContentsOK, ReadsOwnWrites, NoEntries, NothingWritten
<1>8. TypeOK'
  BY PagingAssumption DEF IInv, TypeOK, addrspace_create, map, shoot
<1>9. SpacesOK'
  BY PagingAssumption DEF IInv, SpacesOK, TypeOK, addrspace_create
<1>10. MapOK'
  BY PagingAssumption DEF IInv, MapOK, SpacesOK, TypeOK, addrspace_create, map
<1>11. TlbOK' /\ FaultOK'
  BY DEF IInv, TlbOK, FaultOK, Entries, addrspace_create, map, shoot
<1> QED
  BY <1>5, <1>6, <1>7, <1>8, <1>9, <1>10, <1>11 DEF IInv

\* addrspace_activate: asked for what is not loaded already, it loads it and
\* drops the translations of what was.
LEMMA Activated ==
    ASSUME IInv, NEW c \in Cpus, NEW as \in Spaces \cup {None}, as # running[c],
           addrspace_activate(c, as)
    PROVE  /\ active' = [active EXCEPT ![c] = as]
           /\ cr3' = [cr3 EXCEPT ![c] = IF as = None THEN None ELSE root[as]]
           /\ tlb' = [tlb EXCEPT ![c] = NoEntries]
<1> QED
  BY DEF IInv, MapOK, addrspace_activate

\* sched_switch: the map that is loaded is the incoming program's.
LEMMA SwitchKeeps ==
    ASSUME IInv, NEW c \in Cpus, NEW next \in Spaces \cup {None}, sched_switch(c, next)
    PROVE  IInv'
<1>1. /\ active' = [active EXCEPT ![c] = next]
      /\ cr3' = [cr3 EXCEPT ![c] = IF next = None THEN None ELSE root[next]]
      /\ tlb' = [tlb EXCEPT ![c] = NoEntries]
  BY Activated DEF sched_switch, MapFor
<1>2. pc[c] = "run" /\ next # running[c]
  BY DEF sched_switch, InterruptsOn
<1>3. TypeOK'
  BY <1>1, <1>2, PagingAssumption DEF IInv, TypeOK, sched_switch, memory, shoot, NoEntries
<1>4. SpacesOK'
  BY <1>2, PagingAssumption DEF IInv, SpacesOK, TypeOK, sched_switch, memory
<1>5. MapOK'
  BY <1>1, <1>2, PagingAssumption DEF IInv, MapOK, SpacesOK, TypeOK, sched_switch, memory
<1>6. TlbOK'
  BY <1>1, <1>2, PagingAssumption DEF IInv, TlbOK, TypeOK, Entries, NoEntries, sched_switch,
     memory
<1>7. FaultOK'
  BY <1>1, <1>2, PagingAssumption DEF IInv, FaultOK, TypeOK, sched_switch, memory, shoot
<1>8. ApartOK' /\ NoneLost'
  BY UsesUnchanged DEF IInv, sched_switch, memory
<1>9. ContentsOK'
  BY DEF IInv, ContentsOK, ReadsOwnWrites, sched_switch, memory
<1> QED
  BY <1>3, <1>4, <1>5, <1>6, <1>7, <1>8, <1>9 DEF IInv

\* thread_exit: the processor goes back to the kernel's own map.
LEMMA ExitKeeps ==
    ASSUME IInv, NEW c \in Cpus, running[c] # None, pc[c] = "run", thread_exit(c)
    PROVE  IInv'
<1>1. /\ active' = [active EXCEPT ![c] = None]
      /\ cr3' = [cr3 EXCEPT ![c] = None]
      /\ tlb' = [tlb EXCEPT ![c] = NoEntries]
  BY Activated, PagingAssumption DEF thread_exit, MapFor
<1>2. running[c] \in Spaces
  BY DEF IInv, TypeOK
<1>3. TypeOK'
  BY <1>1, <1>2, PagingAssumption DEF IInv, TypeOK, thread_exit, memory, shoot, NoEntries
<1>4. SpacesOK'
  BY <1>2, PagingAssumption DEF IInv, SpacesOK, TypeOK, thread_exit, memory
<1>5. MapOK'
  BY <1>1, <1>2, PagingAssumption DEF IInv, MapOK, SpacesOK, TypeOK, thread_exit, memory
<1>6. TlbOK'
  BY <1>1, <1>2, PagingAssumption DEF IInv, TlbOK, TypeOK, Entries, NoEntries, thread_exit,
     memory
<1>7. FaultOK'
  BY <1>1, <1>2, PagingAssumption DEF IInv, FaultOK, TypeOK, thread_exit, memory, shoot
<1>8. ApartOK' /\ NoneLost'
  BY UsesUnchanged DEF IInv, thread_exit, memory
<1>9. ContentsOK'
  BY DEF IInv, ContentsOK, ReadsOwnWrites, thread_exit, memory
<1> QED
  BY <1>3, <1>4, <1>5, <1>6, <1>7, <1>8, <1>9 DEF IInv

\* addrspace_release: nobody runs the program, and its root is still in use.
LEMMA ReleaseKeeps ==
    ASSUME IInv, NEW s \in Spaces, addrspace_release(s)
    PROVE  IInv'
<1>1. /\ root' = [root EXCEPT ![s] = None] /\ dying' = dying \cup {root[s]}
      /\ UNCHANGED <<free, pt, fault>>
      /\ root \in [Spaces -> Frames \cup {None}] /\ root[s] # None
  BY DEF IInv, TypeOK, SpacesOK, addrspace_release
<1>2. \A f \in Frames :
        /\ f \in Live' <=> f \in Live
        /\ f \in Mapped' <=> f \in Mapped
        /\ f \in Prepared' <=> f \in Prepared
  BY <1>1, PagingAssumption DEF Live, Mapped, Prepared
<1>3. ApartOK'
  BY <1>1, <1>2, PagingAssumption DEF IInv, ApartOK, TypeOK
<1>4. NoneLost'
  BY <1>1, <1>2 DEF IInv, NoneLost
<1>5. TypeOK'
  BY PagingAssumption DEF IInv, TypeOK, SpacesOK, addrspace_release, map, shoot, NothingWritten
<1>6. SpacesOK'
  BY PagingAssumption DEF IInv, SpacesOK, TypeOK, addrspace_release
<1>7. MapOK'
  BY PagingAssumption DEF IInv, MapOK, SpacesOK, TypeOK, addrspace_release, map
<1>8. TlbOK' /\ FaultOK'
  BY DEF IInv, TlbOK, FaultOK, Entries, addrspace_release, map, shoot
<1>9. ContentsOK'
  BY PagingAssumption DEF IInv, ContentsOK, ReadsOwnWrites, TypeOK, addrspace_release
<1> QED
  BY <1>3, <1>4, <1>5, <1>6, <1>7, <1>8, <1>9 DEF IInv

\* arch_as_free_root: the leaves are nobody else's, and nobody translates here.
LEMMA FreeRootKeeps ==
    ASSUME IInv, NEW r \in Frames, arch_as_free_root(r)
    PROVE  IInv'
<1>1. /\ r \in dying /\ dying' = dying \ {r} /\ free' = free \cup LeavesOf(r) \cup {r}
      /\ pt' = [pt EXCEPT ![r] = NoEntries]
      /\ UNCHANGED <<root, fault, pc, running, service, cr3>>
      /\ mem' = [f \in DOMAIN mem |-> IF f \in LeavesOf(r) THEN 1 ELSE mem[f]]
  BY DEF arch_as_free_root, program, map, shoot
<1>2. /\ LeavesOf(r) \subseteq Frames
      /\ \A f \in Frames : f \in LeavesOf(r) <=> \E v \in Pages : pt[r][v] = f
      /\ pt \in [Frames -> [Pages -> Frames \cup {Zero, None}]]
  BY PagingAssumption DEF IInv, TypeOK, LeavesOf
<1>3. \A q \in Frames, v \in Pages : pt'[q][v] \in Frames => q # r /\ pt'[q][v] = pt[q][v]
  BY <1>1, <1>2, PagingAssumption DEF NoEntries
<1>4. \A q \in Frames, v \in Pages : q # r /\ pt[q][v] \in Frames => pt[q][v] \notin LeavesOf(r)
  BY <1>2 DEF IInv, ApartOK
<1>5. \A f \in Frames : f \in LeavesOf(r) => f \notin Live /\ f \notin Prepared
  BY <1>2 DEF IInv, ApartOK, Prepared, Mapped
<1>6. \A f \in Frames :
        /\ f \in Live <=> f \in Live' \/ f = r
        /\ r \notin Live'
        /\ f \in Mapped => f \in Mapped' \/ f \in LeavesOf(r)
        /\ f \in Mapped' => f \in Mapped
        /\ f \in Prepared' <=> f \in Prepared
  BY <1>1, <1>2, <1>3 DEF Live, Mapped, Prepared, IInv, ApartOK
<1>7. ApartOK'
  <2>1. \A s \in Spaces : root'[s] \notin free' /\ root'[s] \notin dying'
    BY <1>1, <1>2, <1>5, PagingAssumption DEF IInv, ApartOK, TypeOK, Live
  <2>2. \A q \in dying' : q \notin free'
    BY <1>1, <1>2, <1>5 DEF IInv, ApartOK, TypeOK, Live
  <2>3. \A q \in Frames : q \notin Live' => pt'[q] = NoEntries
    BY <1>1, <1>2, <1>6 DEF IInv, ApartOK
  <2>4. \A q \in Frames : \A v \in Pages :
          pt'[q][v] \in Frames => pt'[q][v] \notin free' /\ pt'[q][v] \notin Live'
    BY <1>1, <1>3, <1>4, <1>6 DEF IInv, ApartOK
  <2>5. \A c \in Cpus : fault'[c].fresh \in Frames =>
          fault'[c].fresh \notin free' /\ fault'[c].fresh \notin Live' /\ fault'[c].fresh \notin Mapped'
    BY <1>1, <1>5, <1>6 DEF IInv, ApartOK, Prepared
  <2>6. \A p, q \in Frames : \A v, w \in Pages :
         pt'[p][v] = pt'[q][w] /\ pt'[p][v] \in Frames => p = q /\ v = w
    BY <1>3 DEF IInv, ApartOK
  <2> QED
    BY <1>1, <2>1, <2>2, <2>3, <2>4, <2>5, <2>6 DEF IInv, ApartOK
<1>8. NoneLost'
  BY <1>1, <1>6 DEF IInv, NoneLost
<1>9. FaultOK'
  <2>1. \A c \in Cpus : running[c] # None => cr3[c] # r /\ cr3[c] \in Frames
    BY <1>1, PagingAssumption DEF IInv, MapOK, ApartOK, TypeOK, SpacesOK
  <2> QED
    BY <1>1, <1>2, <1>5, <2>1, PagingAssumption DEF IInv, FaultOK, TypeOK, Prepared
<1>10. TypeOK'
  BY PagingAssumption DEF IInv, TypeOK, arch_as_free_root, LeavesOf, NoEntries, program, map,
     shoot
<1>11. SpacesOK' /\ MapOK'
  BY DEF IInv, SpacesOK, MapOK, arch_as_free_root, program, map
<1>12. TlbOK'
  BY PagingAssumption DEF IInv, TlbOK, MapOK, SpacesOK, ApartOK, TypeOK, Entries, NoEntries,
     arch_as_free_root, program, map
<1>13. ContentsOK'
  BY PagingAssumption DEF IInv, ContentsOK, ReadsOwnWrites, ApartOK, TypeOK,
     arch_as_free_root, LeavesOf, NoEntries
<1> QED
  BY <1>7, <1>8, <1>9, <1>10, <1>11, <1>12, <1>13 DEF IInv

\* map_anonymous promises and maps nothing.
LEMMA MapKeeps ==
    ASSUME IInv, NEW c \in Cpus, sys_map(c)
    PROVE  IInv'
<1>1. TypeOK'
  BY DEF IInv, TypeOK, sys_map, program, map, shoot
<1>2. SpacesOK' /\ MapOK' /\ TlbOK' /\ FaultOK'
  BY DEF IInv, SpacesOK, MapOK, TlbOK, FaultOK, Entries, sys_map, program, map, shoot
<1>3. ApartOK' /\ NoneLost'
  BY UsesUnchanged DEF IInv, sys_map
<1>4. ContentsOK'
  BY DEF IInv, ContentsOK, ReadsOwnWrites, sys_map
<1> QED
  BY <1>1, <1>2, <1>3, <1>4 DEF IInv

-----------------------------------------------------------------------------
(* Accesses and faults.                                                     *)

\* What is loaded is what the table says.
LEMMA LoadKeeps ==
    ASSUME IInv, NEW c \in Cpus, NEW v \in Pages, Load(c, v)
    PROVE  IInv'
<1>1. TypeOK'
  BY DEF IInv, TypeOK, Load, Entries, NoEntries, memory, program, shoot
<1>2. SpacesOK' /\ MapOK' /\ FaultOK'
  BY DEF IInv, SpacesOK, MapOK, FaultOK, Load, memory, program, shoot
<1>3. TlbOK'
  BY DEF IInv, TlbOK, TypeOK, Entries, Load, memory
<1>4. ApartOK' /\ NoneLost'
  BY UsesUnchanged DEF IInv, Load, memory
<1>5. ContentsOK'
  BY DEF IInv, ContentsOK, ReadsOwnWrites, Load, memory
<1> QED
  BY <1>1, <1>2, <1>3, <1>4, <1>5 DEF IInv

\* A store reaches the program's own page: the zeroes are not writable.
LEMMA WriteKeeps ==
    ASSUME IInv, NEW c \in Cpus, NEW v \in Pages, Write(c, v)
    PROVE  IInv'
<1> DEFINE f == Translated(c, v)
<1>1. /\ f # None /\ f # Zero /\ running[c] # None /\ running[c] \in Spaces
      /\ mem' = [mem EXCEPT ![f] = 1] /\ tlb' = [tlb EXCEPT ![c][v] = f]
      /\ wrote' = [wrote EXCEPT ![running[c]][v] = 1]
      /\ UNCHANGED <<free, root, region, dying, pt, program, active, cr3, pc, fault, shoot>>
  BY DEF IInv, TypeOK, Write, InProgram, Writable
<1>2. /\ cr3[c] = root[running[c]] /\ cr3[c] \in Frames
      /\ f = pt[cr3[c]][v] /\ f \in Frames /\ Entries(c)[v] = f
  BY <1>1, PagingAssumption DEF IInv, TypeOK, MapOK, SpacesOK, TlbOK, Translated, Entries,
     NoEntries
<1> HIDE DEF f
<1>3. TypeOK'
  BY <1>1, <1>2 DEF IInv, TypeOK, program, shoot
<1>4. SpacesOK' /\ MapOK'
  BY <1>1 DEF IInv, SpacesOK, MapOK, program
<1>5. TlbOK'
  BY <1>1, <1>2 DEF IInv, TlbOK, TypeOK, Entries
<1>6. FaultOK'
  BY <1>1, <1>2 DEF IInv, FaultOK, ApartOK, TypeOK, Mapped, program, shoot
<1>7. ApartOK' /\ NoneLost'
  BY UsesUnchanged, <1>1 DEF IInv, program
<1>8. ContentsOK'
  BY <1>1, <1>2, PagingAssumption DEF IInv, ContentsOK, ReadsOwnWrites, ApartOK, TypeOK
<1> QED
  BY <1>3, <1>4, <1>5, <1>6, <1>7, <1>8 DEF IInv

\* The zeroes are shared where nothing was mapped.
LEMMA ShareKeeps ==
    ASSUME IInv, NEW c \in Cpus, NEW v \in Pages, ShareZeroes(c, v)
    PROVE  IInv'
<1>1. /\ running[c] # None /\ running[c] \in Spaces
      /\ cr3[c] = root[running[c]] /\ cr3[c] \in Frames
      /\ pt[cr3[c]][v] = None /\ cr3[c] \in Live
  BY PagingAssumption DEF IInv, TypeOK, MapOK, SpacesOK, ShareZeroes, Faults, InProgram,
     Entries, Live
<1>2. /\ pt' = [pt EXCEPT ![cr3[c]][v] = Zero]
      /\ pt \in [Frames -> [Pages -> Frames \cup {Zero, None}]]
      /\ UNCHANGED <<free, mem, root, region, dying, program, map, pc, fault, shoot, wrote>>
  BY DEF IInv, TypeOK, ShareZeroes
<1>3. \A f \in Frames : f \in Mapped' <=> f \in Mapped
  BY <1>1, <1>2, PagingAssumption DEF Mapped
<1>4. Live' = Live /\ Prepared' = Prepared
  BY <1>2 DEF Live, Prepared
<1>5. \A r \in Frames, w \in Pages : pt'[r][w] \in Frames => pt'[r][w] = pt[r][w]
  BY <1>1, <1>2, PagingAssumption
<1>6. TypeOK'
  BY <1>2 DEF IInv, TypeOK, program, map, shoot
<1>7. SpacesOK' /\ MapOK'
  BY <1>2 DEF IInv, SpacesOK, MapOK, program, map
<1>8. TlbOK'
  BY <1>1, <1>2, PagingAssumption DEF IInv, TlbOK, MapOK, SpacesOK, ApartOK, TypeOK, Entries,
     program, map
<1>9. FaultOK'
  BY <1>1, <1>2, PagingAssumption DEF IInv, FaultOK, MapOK, SpacesOK, ApartOK, TypeOK,
     program, map, shoot
<1>10. ApartOK'
  BY <1>1, <1>2, <1>3, <1>4, <1>5 DEF IInv, ApartOK
<1>11. NoneLost'
  BY <1>2, <1>3, <1>4 DEF IInv, NoneLost
<1>12. ContentsOK'
  BY <1>1, <1>2, PagingAssumption DEF IInv, ContentsOK, ReadsOwnWrites, ApartOK, TypeOK
<1> QED
  BY <1>6, <1>7, <1>8, <1>9, <1>10, <1>11, <1>12 DEF IInv

\* A page of its own is a free frame, cleared.
LEMMA GiveKeeps ==
    ASSUME IInv, NEW c \in Cpus, NEW v \in Pages, GiveOwnPage(c, v)
    PROVE  IInv'
<1>1. /\ running[c] # None /\ running[c] \in Spaces /\ pc[c] = "run" /\ c \notin service
      /\ cr3[c] = root[running[c]] /\ cr3[c] \in Frames
      /\ pt[cr3[c]][v] = None /\ cr3[c] \in Live
  BY PagingAssumption DEF IInv, TypeOK, MapOK, SpacesOK, GiveOwnPage, Faults, InProgram,
     InterruptsOn,
         Entries, Live
<1>2. PICK f \in free : /\ free' = free \ {f}
                         /\ mem' = [mem EXCEPT ![f] = 0]
                         /\ pt' = [pt EXCEPT ![cr3[c]][v] = f]
  BY DEF GiveOwnPage
<1>3. /\ UNCHANGED <<root, region, dying, program, map, pc, fault, shoot, wrote>>
      /\ f \in Frames /\ f # Zero /\ f # None
      /\ pt \in [Frames -> [Pages -> Frames \cup {Zero, None}]]
  BY PagingAssumption DEF IInv, TypeOK, GiveOwnPage
<1>4. f \notin Live /\ f \notin Mapped /\ f \notin Prepared
  BY <1>2, <1>3 DEF IInv, ApartOK, TypeOK, Live, Mapped, Prepared
<1>5. Live' = Live /\ Prepared' = Prepared
  BY <1>3 DEF Live, Prepared
<1>6. /\ \A g \in Frames : g \in Mapped' <=> g \in Mapped \/ g = f
      /\ \A r \in Frames, w \in Pages :
           \/ pt'[r][w] = pt[r][w] /\ pt'[r][w] # f
           \/ r = cr3[c] /\ w = v /\ pt'[r][w] = f
  <2>1. \A r \in Frames, w \in Pages : pt[r][w] # f
    BY <1>4 DEF Mapped
  <2>2. /\ pt'[cr3[c]][v] = f
        /\ \A r \in Frames, w \in Pages : r # cr3[c] \/ w # v => pt'[r][w] = pt[r][w]
    BY <1>1, <1>2, <1>3
  <2> QED
    BY <1>1, <1>3, <2>1, <2>2, PagingAssumption DEF Mapped
<1>7. TypeOK'
  BY <1>1, <1>2, <1>3 DEF IInv, TypeOK, program, map, shoot
<1>8. SpacesOK' /\ MapOK'
  BY <1>3 DEF IInv, SpacesOK, MapOK, program, map
<1>9. TlbOK'
  BY <1>1, <1>2, <1>3, PagingAssumption DEF IInv, TlbOK, MapOK, SpacesOK, ApartOK, TypeOK,
     Entries, program, map
<1>10. FaultOK'
  BY <1>1, <1>2, <1>3, <1>4, PagingAssumption DEF IInv, FaultOK, MapOK, SpacesOK, ApartOK,
     TypeOK, Prepared, program, map, shoot
<1>11. ApartOK'
  BY <1>1, <1>2, <1>3, <1>4, <1>5, <1>6 DEF IInv, ApartOK, Prepared
<1>12. NoneLost'
  BY <1>2, <1>5, <1>6 DEF IInv, NoneLost
<1>13. ContentsOK'
  BY <1>1, <1>2, <1>3, <1>4, PagingAssumption DEF IInv, ContentsOK, ReadsOwnWrites, ApartOK,
     TypeOK, Mapped
<1> QED
  BY <1>7, <1>8, <1>9, <1>10, <1>11, <1>12, <1>13 DEF IInv

\* The copy is prepared in a free frame and not mapped yet.
LEMMA CopyKeeps ==
    ASSUME IInv, NEW c \in Cpus, NEW v \in Pages, CopyPage(c, v)
    PROVE  IInv'
<1>1. /\ running[c] # None /\ running[c] \in Spaces /\ pc[c] = "run" /\ c \notin service
      /\ cr3[c] = root[running[c]] /\ cr3[c] \in Frames
      /\ pt[cr3[c]][v] = Zero /\ cr3[c] \in Live
  BY PagingAssumption DEF IInv, TypeOK, MapOK, SpacesOK, CopyPage, Faults, InProgram,
     InterruptsOn,
         Entries, Live
<1>2. PICK f \in free : /\ free' = free \ {f}
                         /\ mem' = [mem EXCEPT ![f] = mem[Zero]]
                         /\ fault' = [fault EXCEPT ![c] = [page |-> v, fresh |-> f]]
  BY DEF CopyPage
<1>3. /\ tlb' = [tlb EXCEPT ![c][v] = None]
      /\ pc' \in [Cpus -> {"run", "spin", "wait", "store"}]
      /\ pc'[c] # "run" /\ \A d \in Cpus : d # c => pc'[d] = pc[d]
      /\ UNCHANGED <<root, region, dying, pt, program, active, cr3, shoot, wrote>>
  BY DEF IInv, TypeOK, CopyPage
<1>4. f \in Frames /\ f # Zero /\ f # None /\ f \notin Live /\ f \notin Mapped /\ f \notin Prepared
  BY <1>2, PagingAssumption DEF IInv, ApartOK, TypeOK, Live, Mapped, Prepared
<1>5. Live' = Live /\ Mapped' = Mapped
  BY <1>3 DEF Live, Mapped
<1>6. /\ \A d \in Cpus : fault'[d].fresh = IF d = c THEN f ELSE fault[d].fresh
      /\ \A g \in Frames : g \in Prepared' <=> g \in Prepared \/ g = f
  BY <1>1, <1>2, <1>4, PagingAssumption DEF IInv, TypeOK, FaultOK, NoFault, Prepared
<1>7. TypeOK'
  BY <1>2, <1>3, <1>4 DEF IInv, TypeOK, program, shoot
<1>8. SpacesOK' /\ MapOK'
  BY <1>3 DEF IInv, SpacesOK, MapOK, program
<1>9. TlbOK'
  BY <1>3 DEF IInv, TlbOK, TypeOK, Entries
<1>10. FaultOK'
  BY <1>1, <1>2, <1>3, <1>4 DEF IInv, FaultOK, ContentsOK, TypeOK, Prepared, NoFault,
     program, shoot
<1>11. ApartOK'
  BY <1>2, <1>3, <1>4, <1>5, <1>6 DEF IInv, ApartOK, Prepared, Mapped, TypeOK
<1>12. NoneLost'
  BY <1>2, <1>5, <1>6 DEF IInv, NoneLost
<1>13. ContentsOK'
  BY <1>2, <1>3, <1>4 DEF IInv, ContentsOK, ReadsOwnWrites, TypeOK, Mapped
<1> QED
  BY <1>7, <1>8, <1>9, <1>10, <1>11, <1>12, <1>13 DEF IInv

-----------------------------------------------------------------------------
(* Shootdowns.                                                              *)

\* A request asks, and changes nothing else.
LEMMA AskKeeps ==
    ASSUME IInv, NEW c \in Cpus, Ask(c)
    PROVE  IInv'
<1>1. TypeOK'
  BY DEF IInv, TypeOK, FaultOK, Ask, Others, memory, program, map
<1>2. SpacesOK' /\ MapOK' /\ TlbOK'
  BY DEF IInv, SpacesOK, MapOK, TlbOK, Entries, Ask, memory, program, map
<1>3. FaultOK'
  BY DEF IInv, FaultOK, TypeOK, Ask, memory, program, map
<1>4. ApartOK' /\ NoneLost'
  BY UsesUnchanged DEF IInv, Ask, memory
<1>5. ContentsOK'
  BY DEF IInv, ContentsOK, ReadsOwnWrites, Ask, memory
<1> QED
  BY <1>1, <1>2, <1>3, <1>4, <1>5 DEF IInv

\* Answered or given up, the request ends.
LEMMA ReleasedKeeps ==
    ASSUME IInv, NEW c \in Cpus, pc[c] = "wait", Released(c)
    PROVE  IInv'
<1>1. TypeOK'
  BY DEF IInv, TypeOK, Released, memory, program, map
<1>2. SpacesOK' /\ MapOK' /\ TlbOK'
  BY DEF IInv, SpacesOK, MapOK, TlbOK, Entries, Released, memory, program, map
<1>3. FaultOK'
  BY DEF IInv, FaultOK, TypeOK, Released, memory, program, map
<1>4. ApartOK' /\ NoneLost'
  BY UsesUnchanged DEF IInv, Released, memory
<1>5. ContentsOK'
  BY DEF IInv, ContentsOK, ReadsOwnWrites, Released, memory
<1> QED
  BY <1>1, <1>2, <1>3, <1>4, <1>5 DEF IInv

\* The prepared page takes the place of the zeroes.
LEMMA StoreKeeps ==
    ASSUME IInv, NEW c \in Cpus, Store(c)
    PROVE  IInv'
<1> DEFINE f == fault[c].fresh
           v == fault[c].page
<1>1. /\ running[c] # None /\ running[c] \in Spaces
      /\ cr3[c] = root[running[c]] /\ cr3[c] \in Frames
      /\ v \in Pages /\ f \in Frames /\ f # None /\ f # Zero
      /\ pt[cr3[c]][v] = Zero /\ mem[f] = 0
  BY PagingAssumption DEF IInv, TypeOK, MapOK, SpacesOK, FaultOK, Store
<1>2. /\ pt' = [pt EXCEPT ![cr3[c]][v] = f]
      /\ pt \in [Frames -> [Pages -> Frames \cup {Zero, None}]]
      /\ fault' = [fault EXCEPT ![c] = NoFault]
      /\ pc' = [pc EXCEPT ![c] = "run"]
      /\ UNCHANGED <<free, mem, root, region, dying, program, map, shoot, wrote>>
  BY DEF IInv, TypeOK, Store
<1>3. f \notin free /\ f \notin Live /\ f \notin Mapped /\ f \in Prepared /\ cr3[c] \in Live
  BY <1>1 DEF IInv, ApartOK, Prepared, Live
<1> HIDE DEF f, v
<1>4. Live' = Live
  BY <1>2 DEF Live
<1>5. /\ \A d \in Cpus : fault'[d].fresh = IF d = c THEN None ELSE fault[d].fresh
      /\ \A d \in Cpus : d # c => fault[d].fresh # f
      /\ \A g \in Frames : g \in Prepared <=> g \in Prepared' \/ g = f
  BY <1>1, <1>2, <1>3, PagingAssumption DEF IInv, TypeOK, ApartOK, NoFault, Prepared, f
<1>6. /\ \A g \in Frames : g \in Mapped' <=> g \in Mapped \/ g = f
      /\ \A r \in Frames, w \in Pages :
           \/ pt'[r][w] = pt[r][w] /\ pt'[r][w] # f
           \/ r = cr3[c] /\ w = v /\ pt'[r][w] = f
  <2>1. \A r \in Frames, w \in Pages : pt[r][w] # f
    BY <1>3 DEF Mapped
  <2>2. /\ pt'[cr3[c]][v] = f
        /\ \A r \in Frames, w \in Pages : r # cr3[c] \/ w # v => pt'[r][w] = pt[r][w]
    BY <1>1, <1>2
  <2> QED
    BY <1>1, <2>1, <2>2, PagingAssumption DEF Mapped
<1>7. TypeOK'
  BY <1>1, <1>2, PagingAssumption DEF IInv, TypeOK, NoFault, program, map, shoot
<1>8. SpacesOK' /\ MapOK'
  BY <1>2 DEF IInv, SpacesOK, MapOK, program, map
<1>9. TlbOK'
  BY <1>1, <1>2, PagingAssumption DEF IInv, TlbOK, MapOK, SpacesOK, ApartOK, TypeOK, Entries,
     program, map
<1>10. FaultOK'
  BY <1>1, <1>2, PagingAssumption DEF IInv, FaultOK, MapOK, SpacesOK, ApartOK, TypeOK,
     program, map, shoot
<1>11. ApartOK'
  BY <1>1, <1>2, <1>3, <1>4, <1>5, <1>6, PagingAssumption DEF IInv, ApartOK
<1>12. NoneLost'
  BY <1>2, <1>4, <1>5, <1>6 DEF IInv, NoneLost
<1>13. ContentsOK'
  BY <1>1, <1>2, <1>3, PagingAssumption DEF IInv, ContentsOK, ReadsOwnWrites, ApartOK,
     TypeOK, Mapped
<1> QED
  BY <1>7, <1>8, <1>9, <1>10, <1>11, <1>12, <1>13 DEF IInv

\* A processor that is told drops a translation, whichever it was.
LEMMA InvalidateKeeps ==
    ASSUME IInv, NEW c \in Cpus, Invalidate(c)
    PROVE  IInv'
<1>1. TypeOK'
  BY DEF IInv, TypeOK, Invalidate, memory, program
<1>2. SpacesOK' /\ MapOK'
  BY DEF IInv, SpacesOK, MapOK, Invalidate, memory, program
<1>3. TlbOK'
  BY DEF IInv, TlbOK, TypeOK, Entries, Invalidate, memory
<1>4. FaultOK'
  BY DEF IInv, FaultOK, TypeOK, Invalidate, InterruptsOn, memory, program
<1>5. ApartOK' /\ NoneLost'
  BY UsesUnchanged DEF IInv, Invalidate, memory
<1>6. ContentsOK'
  BY DEF IInv, ContentsOK, ReadsOwnWrites, Invalidate, memory
<1> QED
  BY <1>1, <1>2, <1>3, <1>4, <1>5, <1>6 DEF IInv

\* An acknowledgement is counted, for whichever request is under way.
LEMMA AcknowledgeKeeps ==
    ASSUME IInv, NEW c \in Cpus, Acknowledge(c)
    PROVE  IInv'
<1>1. TypeOK'
  BY DEF IInv, TypeOK, Acknowledge, memory, program, map
<1>2. SpacesOK' /\ MapOK' /\ TlbOK'
  BY DEF IInv, SpacesOK, MapOK, TlbOK, Entries, Acknowledge, memory, program, map
<1>3. FaultOK'
  BY DEF IInv, FaultOK, TypeOK, Acknowledge, memory, program, map
<1>4. ApartOK' /\ NoneLost'
  BY UsesUnchanged DEF IInv, Acknowledge, memory
<1>5. ContentsOK'
  BY DEF IInv, ContentsOK, ReadsOwnWrites, Acknowledge, memory
<1> QED
  BY <1>1, <1>2, <1>3, <1>4, <1>5 DEF IInv

-----------------------------------------------------------------------------
(* The theorems.                                                           *)

\* Nothing is used yet.
LEMMA InitHolds == Init => IInv
<1> SUFFICES ASSUME Init PROVE IInv
  OBVIOUS
<1>1. TypeOK
  BY PagingAssumption DEF Init, TypeOK, NoEntries, NoFault, NothingWritten
<1>2. SpacesOK /\ MapOK /\ TlbOK
  BY PagingAssumption DEF Init, SpacesOK, MapOK, TlbOK, Entries, NoEntries
<1>3. FaultOK
  BY DEF Init, FaultOK
<1>4. ApartOK
  BY PagingAssumption DEF Init, ApartOK, NoEntries, NoFault
<1>5. NoneLost
  BY DEF Init, NoneLost
<1>6. ContentsOK
  BY PagingAssumption DEF Init, ContentsOK, ReadsOwnWrites
<1> QED
  BY <1>1, <1>2, <1>3, <1>4, <1>5, <1>6 DEF IInv

\* Every step of the system is one of the above.
LEMMA StepKeeps == IInv /\ [Next]_vars => IInv'
<1> SUFFICES ASSUME IInv, [Next]_vars PROVE IInv'
  OBVIOUS
<1>1. ASSUME NEW s \in Spaces, addrspace_create(s) \/ addrspace_release(s) PROVE IInv'
  BY <1>1, CreateKeeps, ReleaseKeeps
<1>2. ASSUME NEW r \in Frames, arch_as_free_root(r) PROVE IInv'
  BY <1>2, FreeRootKeeps
<1>3. ASSUME NEW c \in Cpus, NEW next \in Spaces \cup {None}, sched_switch(c, next) PROVE IInv'
  BY <1>3, SwitchKeeps
<1>4. ASSUME NEW c \in Cpus, sys_exit(c) \/ sys_map(c) PROVE IInv'
  BY <1>4, ExitKeeps, MapKeeps DEF sys_exit, InterruptsOn
<1>5. ASSUME NEW c \in Cpus, Access(c) PROVE IInv'
  <2>1. ASSUME NEW v \in Pages, NEW write \in BOOLEAN, Refused(c, v, write) PROVE IInv'
    BY <2>1, ExitKeeps DEF Refused, Faults, InProgram, InterruptsOn
  <2> QED
    BY <1>5, <2>1, LoadKeeps, WriteKeeps, ShareKeeps, GiveKeeps, CopyKeeps DEF Access
<1>6. ASSUME NEW c \in Cpus, Shootdown(c) PROVE IInv'
  BY <1>6, AskKeeps, ReleasedKeeps, StoreKeeps, InvalidateKeeps, AcknowledgeKeeps
     DEF Shootdown, Answered, GiveUp
<1>7. CASE UNCHANGED vars
  <2>1. ApartOK' /\ NoneLost'
    BY <1>7, UsesUnchanged DEF vars, memory
  <2> QED
    BY <1>7, <2>1 DEF IInv, TypeOK, SpacesOK, MapOK, TlbOK, Entries, FaultOK, ContentsOK,
       ReadsOwnWrites, vars, memory, program, map, shoot
<1> QED
  BY <1>1, <1>2, <1>3, <1>4, <1>5, <1>6, <1>7 DEF Next

\* The inductive invariant holds in every reachable state, whether or not
\* processors load translations behind the kernel's back.
THEOREM Invariance == Spec => []IInv
<1> QED
  BY InitHolds, StepKeeps, PTL DEF Spec

\* Every field keeps its type.
THEOREM TypeCorrect == Spec => []TypeOK
<1>1. IInv => TypeOK
  BY DEF IInv
<1> QED
  BY <1>1, Invariance, PTL

\* A page reads as what its program last wrote there, and as zeroes before
\* that, however faults, shootdowns and programs that end are interleaved
\* (vm_fault_user, give_own_page).
THEOREM OwnContents == Spec => []ReadsOwnWrites
<1>1. IInv => ReadsOwnWrites
  BY DEF IInv, ContentsOK
<1> QED
  BY <1>1, Invariance, PTL

\* What a count of something unique is.
LEMMA AtMostOne ==
    ASSUME NEW S, \A x, y \in S : x = y
    PROVE  Cardinality(S) = IF S = {} THEN 0 ELSE 1
<1>1. CASE S = {}
  BY <1>1, FS_EmptySet
<1>2. CASE S # {}
  <2>1. PICK x : S = {x}
    BY <1>2
  <2>2. Cardinality({x}) = 1
    BY FS_Singleton
  <2> QED
    BY <1>2, <2>1, <2>2
<1> QED
  BY <1>1, <1>2

\* Every frame is free or has exactly one use: as the root of a space or of
\* one being taken down, as a page of one program, or as the page a fault has
\* prepared.  None is lost and none is shared (addrspace_release,
\* arch_as_free_root, give_own_page).
THEOREM FramesOnce == Spec => []FramesAccounted
<1>1. ASSUME IInv PROVE FramesAccounted
  <2> SUFFICES ASSUME NEW f \in Frames PROVE Users(f) = IF f \in free THEN 0 ELSE 1
    BY DEF FramesAccounted
  <2> DEFINE Roots == dying \cup {root[s] : s \in Spaces}
             A == {s \in Spaces : root[s] = f}
             B == {e \in (Roots \ {None}) \X Pages : pt[e[1]][e[2]] = f}
             C == {c \in Cpus : fault[c].fresh = f}
             D == {f} \cap dying
  <2>1. Users(f) = Cardinality(A) + Cardinality(B) + Cardinality(C) + Cardinality(D)
    BY DEF Users
  <2>2. f # None /\ None \notin Frames
    BY PagingAssumption
  <2>3. /\ \A x, y \in A : x = y
        /\ \A x, y \in C : x = y
        /\ \A x, y \in D : x = y
    BY <1>1, <2>2 DEF IInv, ApartOK
  <2>4. Roots \ {None} \subseteq Frames
    BY <1>1 DEF IInv, TypeOK
  <2>5. \A x, y \in B : x = y
    BY <1>1, <2>4 DEF IInv, ApartOK
  <2>6. Cardinality(A) = IF A = {} THEN 0 ELSE 1
    BY <2>3, AtMostOne
  <2>7. Cardinality(B) = IF B = {} THEN 0 ELSE 1
    BY <2>5, AtMostOne
  <2>8. Cardinality(C) = IF C = {} THEN 0 ELSE 1
    BY <2>3, AtMostOne
  <2>9. Cardinality(D) = IF D = {} THEN 0 ELSE 1
    BY <2>3, AtMostOne
  <2>10. A # {} \/ D # {} <=> f \in Live
    BY DEF Live
  <2>11. A = {} \/ D = {}
    BY <1>1 DEF IInv, ApartOK
  <2>12. B # {} <=> f \in Mapped
    <3>1. ASSUME NEW r \in Frames, NEW v \in Pages, pt[r][v] = f PROVE <<r, v>> \in B
      <4>1. r \in Live
        BY <1>1, <2>2, <3>1 DEF IInv, ApartOK, NoEntries
      <4> QED
        BY <2>2, <3>1, <4>1 DEF Live
    <3>2. B # {} => f \in Mapped
      BY <2>4 DEF Mapped
    <3>3. ASSUME f \in Mapped PROVE B # {}
      <4>1. PICK r \in Frames, v \in Pages : pt[r][v] = f
        BY <3>3 DEF Mapped
      <4> QED
        BY <3>1, <4>1
    <3> QED
      BY <3>2, <3>3
  <2>13. C # {} <=> f \in Prepared
    BY DEF Prepared
  <2>14. /\ f \in Live => f \notin free /\ f \notin Mapped /\ f \notin Prepared
         /\ f \in Mapped => f \notin free /\ f \notin Prepared
         /\ f \in Prepared => f \notin free
    BY <1>1, <2>2 DEF IInv, ApartOK, TypeOK, Live, Mapped, Prepared
  <2>15. f \in free \/ f \in Live \/ f \in Mapped \/ f \in Prepared
    BY <1>1 DEF IInv, NoneLost
  <2> HIDE DEF A, B, C, D
  <2> QED
    BY <2>1, <2>6, <2>7, <2>8, <2>9, <2>10, <2>11, <2>12, <2>13, <2>14, <2>15
<1> QED
  BY <1>1, Invariance, PTL

-----------------------------------------------------------------------------
(* Translations, when a processor in the kernel loads none.                *)

\* A step that leaves tables, maps and faults alone.
LEMMA FreshUnchanged ==
    ASSUME FreshOK, UNCHANGED <<pt, cr3, tlb, fault, pc>>
    PROVE  FreshOK'
<1> QED
  BY DEF FreshOK, Entries

\* No two processors have one program's tables loaded.
LEMMA MapsApart ==
    ASSUME IInv, NEW c \in Cpus, NEW d \in Cpus, cr3[c] = cr3[d], cr3[c] # None
    PROVE  c = d
<1>1. /\ running[c] \in Spaces /\ running[d] \in Spaces
      /\ cr3[c] = root[running[c]] /\ cr3[d] = root[running[d]]
  BY DEF IInv, TypeOK, MapOK
<1>2. running[c] = running[d] /\ running[c] # None
  BY <1>1, PagingAssumption DEF IInv, ApartOK
<1> QED
  BY <1>2 DEF IInv, SpacesOK

\* The stale moment of a copy, between the invalidation and the new entry, is
\* one in which nothing is loaded.
LEMMA FreshKept ==
    ASSUME ~Speculates, IInv, FreshOK, [Next]_vars
    PROVE  FreshOK'
<1> USE PagingAssumption DEF IInv
<1>1. ASSUME NEW s \in Spaces, addrspace_create(s) \/ addrspace_release(s) PROVE FreshOK'
  BY <1>1, FreshUnchanged DEF addrspace_create, addrspace_release, map
<1>2. ASSUME NEW r \in Frames, arch_as_free_root(r) PROVE FreshOK'
  <2>1. \A c \in Cpus : cr3[c] # r /\ cr3[c] \in Frames \cup {None}
    BY <1>2 DEF TypeOK, MapOK, ApartOK, arch_as_free_root
  <2> QED
    BY <1>2, <2>1 DEF FreshOK, Entries, NoEntries, TypeOK, arch_as_free_root, map
<1>3. ASSUME NEW c \in Cpus, NEW next \in Spaces \cup {None}, sched_switch(c, next) PROVE FreshOK'
  <2>1. /\ cr3' = [cr3 EXCEPT ![c] = IF next = None THEN None ELSE root[next]]
        /\ tlb' = [tlb EXCEPT ![c] = NoEntries]
    BY <1>3, Activated DEF sched_switch, MapFor
  <2> QED
    BY <1>3, <2>1 DEF FreshOK, Entries, NoEntries, TypeOK, sched_switch, memory, InterruptsOn
<1>4. ASSUME NEW c \in Cpus, running[c] # None, pc[c] = "run", thread_exit(c) PROVE FreshOK'
  <2>1. cr3' = [cr3 EXCEPT ![c] = None] /\ tlb' = [tlb EXCEPT ![c] = NoEntries]
    BY <1>4, Activated DEF thread_exit, MapFor
  <2> QED
    BY <1>4, <2>1 DEF FreshOK, Entries, NoEntries, TypeOK, thread_exit, memory
<1>5. ASSUME NEW c \in Cpus, sys_map(c) PROVE FreshOK'
  BY <1>5, FreshUnchanged DEF sys_map, map
<1>6. ASSUME NEW c \in Cpus, NEW v \in Pages, Load(c, v) PROVE FreshOK'
  BY <1>6 DEF FreshOK, Entries, TypeOK, Load, InProgram, InterruptsOn, memory
<1>7. ASSUME NEW c \in Cpus, NEW v \in Pages, Write(c, v) PROVE FreshOK'
  BY <1>7 DEF FreshOK, Entries, TypeOK, Write, Translated, InProgram, InterruptsOn
<1>8. ASSUME NEW c \in Cpus, NEW v \in Pages, ShareZeroes(c, v) \/ GiveOwnPage(c, v) PROVE FreshOK'
  <2>1. /\ running[c] # None /\ cr3[c] = root[running[c]] /\ cr3[c] \in Frames
        /\ Entries(c)[v] = None
        /\ \E f : pt' = [pt EXCEPT ![cr3[c]][v] = f]
        /\ UNCHANGED <<cr3, tlb, fault, pc>>
    <3>1. Faults(c, v, FALSE) \/ Faults(c, v, TRUE)
      BY <1>8 DEF ShareZeroes, GiveOwnPage
    <3>2. running[c] # None /\ cr3[c] = root[running[c]] /\ cr3[c] \in Frames
      BY <3>1 DEF TypeOK, MapOK, SpacesOK, Faults, InProgram
    <3>3. \E f : pt' = [pt EXCEPT ![cr3[c]][v] = f]
      BY <1>8 DEF ShareZeroes, GiveOwnPage
    <3> QED
      BY <1>8, <3>2, <3>3 DEF ShareZeroes, GiveOwnPage, map
  <2>2. \A d \in Cpus : cr3[d] = cr3[c] => d = c
    BY <2>1, MapsApart
  <2> QED
    BY <2>1, <2>2 DEF FreshOK, Entries, TypeOK
<1>9. ASSUME NEW c \in Cpus, NEW v \in Pages, CopyPage(c, v) PROVE FreshOK'
  BY <1>9 DEF FreshOK, Entries, TypeOK, CopyPage
<1>10. ASSUME NEW c \in Cpus, Ask(c) \/ Answered(c) \/ GiveUp(c) PROVE FreshOK'
  BY <1>10, ZenonT(60) DEF FreshOK, Entries, TypeOK, Ask, Answered, GiveUp, Released, memory, map
<1>11. ASSUME NEW c \in Cpus, Store(c) PROVE FreshOK'
  <2>1. /\ running[c] # None /\ cr3[c] = root[running[c]] /\ cr3[c] \in Frames
        /\ fault[c].page \in Pages /\ tlb[c][fault[c].page] = None
        /\ pt' = [pt EXCEPT ![cr3[c]][fault[c].page] = fault[c].fresh]
        /\ pc' = [pc EXCEPT ![c] = "run"] /\ fault' = [fault EXCEPT ![c] = NoFault]
        /\ UNCHANGED <<cr3, tlb>>
    BY <1>11 DEF TypeOK, MapOK, SpacesOK, FaultOK, FreshOK, Store, map
  <2>2. \A d \in Cpus : cr3[d] = cr3[c] => d = c
    BY <2>1, MapsApart
  <2> QED
    BY <2>1, <2>2 DEF FreshOK, Entries, TypeOK
<1>12. ASSUME NEW c \in Cpus, Invalidate(c) PROVE FreshOK'
  BY <1>12 DEF FreshOK, Entries, TypeOK, FaultOK, Invalidate, InterruptsOn, memory
<1>13. ASSUME NEW c \in Cpus, Acknowledge(c) PROVE FreshOK'
  BY <1>13, FreshUnchanged DEF Acknowledge, memory, map
<1>14. CASE UNCHANGED vars
  BY <1>14, FreshUnchanged DEF vars, memory, map
<1>15. ASSUME NEW c \in Cpus, Access(c) PROVE FreshOK'
  <2>1. ASSUME NEW v \in Pages, NEW write \in BOOLEAN, Refused(c, v, write) PROVE FreshOK'
    BY <1>4, <2>1 DEF Refused, Faults, InProgram, InterruptsOn
  <2> QED
    BY <1>6, <1>7, <1>8, <1>9, <1>15, <2>1 DEF Access
<1>16. ASSUME NEW c \in Cpus, sys_exit(c) PROVE FreshOK'
  BY <1>4, <1>16 DEF sys_exit, InterruptsOn
<1> QED
  BY <1>1, <1>2, <1>3, <1>5, <1>10, <1>11, <1>12, <1>13, <1>14, <1>15, <1>16 DEF Next, Shootdown

\* A processor translates through the tables of the program it runs, which
\* are not being freed, and holds no translation that is not in them, however
\* late shootdowns are answered or given up: on processors that load nothing
\* for a program while they run the kernel (sched_switch, addrspace_activate,
\* vm_map).
THEOREM OwnTranslations ==
    ASSUME ~Speculates
    PROVE  Spec => []TranslatesOwn
<1>1. Init => FreshOK
  BY DEF Init, FreshOK, Entries, NoEntries
<1>2. IInv /\ FreshOK /\ [Next]_vars => FreshOK'
  BY FreshKept
<1>3. IInv /\ FreshOK => TranslatesOwn
  BY PagingAssumption DEF IInv, TypeOK, MapOK, SpacesOK, ApartOK, FreshOK, TranslatesOwn
<1> QED
  BY <1>1, <1>2, <1>3, Invariance, PTL DEF Spec
=============================================================================
