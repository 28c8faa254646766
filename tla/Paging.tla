------------------------------- MODULE Paging -------------------------------
(***************************************************************************)
(* A program's memory: address spaces (kernel/core/addrspace.c), demand    *)
(* paging from one shared page of zeroes, the page tables of x86_64 and    *)
(* the shootdown that tells other processors of a change                   *)
(* (kernel/arch/x86_64/vm.c), and the frames it is all made of (pmm.c).    *)
(*                                                                         *)
(* A page table is its root and one entry per page; the tables between     *)
(* and the pages of code mapped before a program starts are left out.  An  *)
(* entry that names a frame is writable, one that names Zero is not.       *)
(* Interrupts are off on a processor in a fault (the gates mask them) and  *)
(* in the handler of a shootdown, so it does nothing else meanwhile.       *)
(* Nothing evicts a page or maps a file yet but the self-tests.            *)
(***************************************************************************)
EXTENDS Integers, FiniteSets

CONSTANTS
    Cpus,           \* smp_cpus_online
    Spaces,         \* the slots of addrspace.c's table; a program has one
    Pages, Stack,   \* a program's pages; what is reserved before it starts
    Frames, Zero,   \* what pmm gives out; zero_page
    None,
    Slow,           \* a processor may answer later than the deadline
    Speculates      \* translations may be loaded while the kernel runs

ASSUME PagingAssumption ==
    /\ IsFiniteSet(Cpus) /\ Cpus # {} /\ Stack \subseteq Pages
    /\ Zero \notin Frames /\ None \notin Frames \cup Spaces \cup Pages \cup {Zero}
    /\ Slow \in BOOLEAN /\ Speculates \in BOOLEAN

VARIABLES
    free,       \* the frames whose bits are clear
    mem,        \* what a page holds: 0 for zeroes, 1 for anything else
    root,       \* as->root; None in a slot that is not in use
    region,     \* as->regions: the pages the program was promised
    dying,      \* roots taken from their slots and not yet freed
    pt,         \* the entries below each root
    running, ready, ended,  \* whose thread each processor runs; the others
    active,     \* active[cpu]: the space a processor translates through
    cr3,        \* the root it really does
    tlb,        \* the translations it holds
    pc, fault,  \* where a fault has got to; the page and the new frame
    lock, address, acks,    \* shootdown_lock, _address and _acks
    ipi, service,   \* processors interrupted, and those in the handler
    wrote       \* history: what the program last wrote to the page

program == <<running, ready, ended>>
map     == <<active, cr3, tlb>>
shoot   == <<lock, address, acks, ipi, service>>
memory  == <<free, mem, root, region, dying, pt>>
vars    == <<memory, program, map, pc, fault, shoot, wrote>>

NoEntries == [v \in Pages |-> None]
NothingWritten == [v \in Pages |-> 0]
NoFault   == [page |-> None, fresh |-> None]

Init ==
    /\ free = Frames
    /\ mem = [f \in Frames \cup {Zero} |-> IF f = Zero THEN 0 ELSE 1]
    /\ root = [s \in Spaces |-> None]
    /\ region = [s \in Spaces |-> {}]
    /\ dying = {}
    /\ pt = [f \in Frames |-> NoEntries]
    /\ running = [c \in Cpus |-> None] /\ ready = {} /\ ended = {}
    /\ active = [c \in Cpus |-> None]
    /\ cr3 = [c \in Cpus |-> None]
    /\ tlb = [c \in Cpus |-> NoEntries]
    /\ pc = [c \in Cpus |-> "run"]
    /\ fault = [c \in Cpus |-> NoFault]
    /\ lock = None /\ address = None /\ acks = 0 /\ ipi = {} /\ service = {}
    /\ wrote = [s \in Spaces |-> NothingWritten]

-----------------------------------------------------------------------------
(* Making a space, loading it and giving it back.                          *)

\* The slot is cleared as a whole, so nothing the last program was promised
\* is promised to this one; then its stack is reserved and its thread started.
addrspace_create(s) ==
    /\ root[s] = None
    /\ \E r \in free :
         /\ free' = free \ {r}
         /\ root' = [root EXCEPT ![s] = r]
    /\ region' = [region EXCEPT ![s] = Stack]
    /\ ready' = ready \cup {s}
    /\ UNCHANGED <<mem, dying, pt, running, ended, map, pc, fault, shoot, wrote>>

\* A write to cr3 drops every translation of the program that was there.
addrspace_activate(c, as) ==
    IF active[c] = as
      THEN UNCHANGED map
      ELSE /\ active' = [active EXCEPT ![c] = as]
           /\ cr3' = [cr3 EXCEPT ![c] = IF as = None THEN None ELSE root[as]]
           /\ tlb' = [tlb EXCEPT ![c] = NoEntries]

MapFor_lazy(c, next) == IF next = None THEN active[c] ELSE next

\* A thread that belongs to no program runs in the kernel's own map.
MapFor(c, next) == next

InterruptsOn(c) == pc[c] = "run" /\ c \notin service

sched_switch(c, next) ==
    /\ InterruptsOn(c) /\ next # running[c]
    /\ next \in ready \cup {None}
    /\ running' = [running EXCEPT ![c] = next]
    /\ ready' = (ready \cup {running[c]}) \ {next, None}
    /\ addrspace_activate(c, MapFor(c, next))
    /\ UNCHANGED <<memory, ended, pc, fault, shoot, wrote>>

\* The program ends, of itself or for a fault that is refused.
thread_exit(c) ==
    /\ ended' = ended \cup {running[c]}
    /\ running' = [running EXCEPT ![c] = None]
    /\ addrspace_activate(c, MapFor(c, None))
    /\ UNCHANGED <<memory, ready, pc, fault, shoot, wrote>>

sys_exit(c) == InterruptsOn(c) /\ running[c] # None /\ thread_exit(c)

\* The slot can be taken again before the tables that were its are freed.
addrspace_release(s) ==
    /\ s \in ended
    /\ ended' = ended \ {s}
    /\ root' = [root EXCEPT ![s] = None]
    /\ dying' = dying \cup {root[s]}
    /\ wrote' = [wrote EXCEPT ![s] = NothingWritten]
    /\ UNCHANGED <<free, mem, region, pt, running, ready, map, pc, fault, shoot>>

LeavesOf_kept(r) == {}

\* addrspace_release_page: the page of zeroes belongs to everybody.
LeavesOf(r) == {pt[r][v] : v \in Pages} \ {None, Zero}

\* What a program left in a page is still in it when the page is given out.
arch_as_free_root(r) ==
    /\ r \in dying
    /\ dying' = dying \ {r}
    /\ free' = free \cup LeavesOf(r) \cup {r}
    /\ mem' = [f \in DOMAIN mem |-> IF f \in LeavesOf(r) THEN 1 ELSE mem[f]]
    /\ pt' = [pt EXCEPT ![r] = NoEntries]
    /\ UNCHANGED <<root, region, program, map, pc, fault, shoot, wrote>>

\* map_anonymous reserves and maps nothing.
sys_map(c) ==
    /\ InterruptsOn(c) /\ running[c] # None
    /\ \E v \in Pages \ region[running[c]] :
         region' = [region EXCEPT ![running[c]] = @ \cup {v}]
    /\ UNCHANGED <<free, mem, root, dying, pt, program, map, pc, fault, shoot,
                   wrote>>

-----------------------------------------------------------------------------
(* What a processor does with a program's address.                         *)

Writable_all(f) == TRUE

\* The page of zeroes is mapped without VM_WRITE.
Writable(f) == f # Zero

\* The entries below the root in use; the kernel's map has none down here.
Entries(c) == IF cr3[c] = None THEN NoEntries ELSE pt[cr3[c]]

\* A translation that is held is used without a look at the table.
Translated(c, v) == IF tlb[c][v] # None THEN tlb[c][v] ELSE Entries(c)[v]

InProgram(c) == InterruptsOn(c) /\ running[c] # None

\* A read, or a processor that loads what may be wanted.
Load(c, v) ==
    /\ InProgram(c) \/ Speculates
    /\ tlb[c][v] = None /\ Entries(c)[v] # None
    /\ tlb' = [tlb EXCEPT ![c][v] = Entries(c)[v]]
    /\ UNCHANGED <<memory, program, active, cr3, pc, fault, shoot, wrote>>

Write(c, v) ==
    /\ InProgram(c)
    /\ LET f == Translated(c, v) IN
         /\ f # None /\ Writable(f)
         /\ mem' = [mem EXCEPT ![f] = 1]
         /\ tlb' = [tlb EXCEPT ![c][v] = f]
    /\ wrote' = [wrote EXCEPT ![running[c]][v] = 1]
    /\ UNCHANGED <<free, root, region, dying, pt, program, active, cr3, pc,
                   fault, shoot>>

Faults(c, v, write) ==
    /\ InProgram(c)
    /\ LET f == Translated(c, v) IN f = None \/ (write /\ ~Writable(f))

Promised(c, v) == v \in region[running[c]]

-----------------------------------------------------------------------------
(* vm_fault_user.  `have' is what the table says, not what was translated. *)

\* Read before it was written: the shared page is the whole answer.
ShareZeroes(c, v) ==
    /\ Faults(c, v, FALSE) /\ Promised(c, v) /\ Entries(c)[v] = None
    /\ pt' = [pt EXCEPT ![cr3[c]][v] = Zero]
    /\ UNCHANGED <<free, mem, root, region, dying, program, map, pc, fault,
                   shoot, wrote>>

\* give_own_page with nothing to replace: cleared, and mapped at once.
GiveOwnPage(c, v) ==
    /\ Faults(c, v, TRUE) /\ Promised(c, v) /\ Entries(c)[v] = None
    /\ \E f \in free :
         /\ free' = free \ {f}
         /\ mem' = [mem EXCEPT ![f] = 0]
         /\ pt' = [pt EXCEPT ![cr3[c]][v] = f]
    /\ UNCHANGED <<root, region, dying, program, map, pc, fault, shoot, wrote>>

Others(c) == Cpus \ {c}

\* give_own_page in place of the zeroes: they are copied, and vm_map, finding
\* a live entry, invalidates it here and then has the others told.
CopyPage(c, v) ==
    /\ Faults(c, v, TRUE) /\ Promised(c, v) /\ Entries(c)[v] = Zero
    /\ \E f \in free :
         /\ free' = free \ {f}
         /\ mem' = [mem EXCEPT ![f] = mem[Zero]]
         /\ fault' = [fault EXCEPT ![c] = [page |-> v, fresh |-> f]]
    /\ tlb' = [tlb EXCEPT ![c][v] = None]
    /\ pc' = [pc EXCEPT ![c] = IF Others(c) = {} THEN "store" ELSE "spin"]
    /\ UNCHANGED <<root, region, dying, pt, program, active, cr3, shoot, wrote>>

\* Never promised, no frame to give, or a write to what the program may not
\* write: the fault is not answered and the program ends.
Refused(c, v, write) ==
    /\ Faults(c, v, write)
    /\ \/ ~Promised(c, v)
       \/ write /\ Entries(c)[v] \in {None, Zero} /\ free = {}
       \/ Entries(c)[v] \notin {None, Zero}
    /\ thread_exit(c)

-----------------------------------------------------------------------------
(* shoot_down_others, and the handler on the processors it interrupts.     *)

\* An interrupt that is already pending is not made pending twice.
Ask(c) ==
    /\ pc[c] = "spin" /\ lock = None
    /\ lock' = c
    /\ address' = fault[c].page
    /\ acks' = 0
    /\ ipi' = ipi \cup Others(c)
    /\ pc' = [pc EXCEPT ![c] = "wait"]
    /\ UNCHANGED <<memory, program, map, fault, service, wrote>>

Released(c) ==
    /\ lock' = None
    /\ pc' = [pc EXCEPT ![c] = "store"]
    /\ UNCHANGED <<memory, program, map, fault, address, acks, ipi, service,
                   wrote>>

Answered(c) ==
    pc[c] = "wait" /\ acks >= Cardinality(Others(c)) /\ Released(c)

\* The deadline passes.  A processor that spins for the same lock cannot
\* answer before it does: it spins with its interrupts off.
GiveUp(c) ==
    /\ pc[c] = "wait" /\ acks < Cardinality(Others(c))
    /\ Slow \/ \E d \in Others(c) : pc[d] = "spin"
    /\ Released(c)

\* vm_map writes the entry after the shootdown, and the fault is over.
Store(c) ==
    /\ pc[c] = "store"
    /\ pt' = [pt EXCEPT ![cr3[c]][fault[c].page] = fault[c].fresh]
    /\ fault' = [fault EXCEPT ![c] = NoFault]
    /\ pc' = [pc EXCEPT ![c] = "run"]
    /\ UNCHANGED <<free, mem, root, region, dying, program, map, shoot, wrote>>

\* x86_tlb_shootdown_service: the address is read when the interrupt is
\* taken, not when it was sent.
Invalidate(c) ==
    /\ c \in ipi /\ InterruptsOn(c)
    /\ ipi' = ipi \ {c}
    /\ service' = service \cup {c}
    /\ tlb' = IF address = None THEN tlb ELSE [tlb EXCEPT ![c][address] = None]
    /\ UNCHANGED <<memory, program, active, cr3, pc, fault, lock, address, acks,
                   wrote>>

Acknowledge(c) ==
    /\ c \in service
    /\ service' = service \ {c}
    /\ acks' = acks + 1
    /\ UNCHANGED <<memory, program, map, pc, fault, lock, address, ipi, wrote>>

-----------------------------------------------------------------------------
Access(c) ==
    \E v \in Pages :
        \/ Load(c, v) \/ Write(c, v)
        \/ ShareZeroes(c, v) \/ GiveOwnPage(c, v) \/ CopyPage(c, v)
        \/ \E write \in BOOLEAN : Refused(c, v, write)

Shootdown(c) ==
    \/ Ask(c) \/ Answered(c) \/ GiveUp(c) \/ Store(c)
    \/ Invalidate(c) \/ Acknowledge(c)

Next ==
    \/ \E s \in Spaces : addrspace_create(s) \/ addrspace_release(s)
    \/ \E r \in Frames : arch_as_free_root(r)
    \/ \E c \in Cpus :
         \/ \E next \in Spaces \cup {None} : sched_switch(c, next)
         \/ sys_exit(c) \/ sys_map(c)
         \/ Access(c) \/ Shootdown(c)

Spec == Init /\ [][Next]_vars

-----------------------------------------------------------------------------
TypeOK ==
    /\ free \subseteq Frames /\ dying \subseteq Frames
    /\ mem \in [Frames \cup {Zero} -> {0, 1}]
    /\ root \in [Spaces -> Frames \cup {None}]
    /\ region \in [Spaces -> SUBSET Pages]
    /\ pt \in [Frames -> [Pages -> Frames \cup {Zero, None}]]
    /\ running \in [Cpus -> Spaces \cup {None}]
    /\ ready \subseteq Spaces /\ ended \subseteq Spaces
    /\ active \in [Cpus -> Spaces \cup {None}]
    /\ cr3 \in [Cpus -> Frames \cup {None}]
    /\ tlb \in [Cpus -> [Pages -> Frames \cup {Zero, None}]]
    /\ pc \in [Cpus -> {"run", "spin", "wait", "store"}]
    /\ fault \in [Cpus -> [page : Pages \cup {None}, fresh : Frames \cup {None}]]
    /\ lock \in Cpus \cup {None} /\ address \in Pages \cup {None}
    /\ acks \in Nat /\ ipi \subseteq Cpus /\ service \subseteq Cpus
    /\ wrote \in [Spaces -> [Pages -> {0, 1}]]

\* A processor translates through the tables of the program it runs, which
\* have not been freed, and holds no translation that is not in them: however
\* late a shootdown was answered, whichever processors the program has run on,
\* and whoever had the slot before (addrspace_activate, sched_switch).
TranslatesOwn ==
    \A c \in Cpus :
        /\ running[c] # None => cr3[c] = root[running[c]]
        /\ cr3[c] \notin free \cup dying
        /\ \A v \in Pages : tlb[c][v] \in {None, Entries(c)[v]}

\* A page a program was promised reads as zeroes until it writes to it and as
\* what it wrote from then on, on every processor: no frame comes with what
\* another program left in it, and nobody writes to the zeroes that all share
\* (vm_fault_user, give_own_page).
ReadsOwnWrites ==
    \A s \in Spaces : root[s] # None =>
        \A v \in Pages :
            LET f == pt[root[s]][v] IN
            wrote[s][v] = IF f = None THEN 0 ELSE mem[f]

Users(f) ==
    LET roots == dying \cup {root[s] : s \in Spaces} IN
    Cardinality({s \in Spaces : root[s] = f})
    + Cardinality({e \in (roots \ {None}) \X Pages : pt[e[1]][e[2]] = f})
    + Cardinality({c \in Cpus : fault[c].fresh = f})
    + Cardinality({f} \cap dying)

\* Every frame is free or has one use, as a root, a page of one program or the
\* page a fault is about to map; none is lost when a program ends, at whatever
\* point of its life (arch_as_free_root, addrspace_release, give_own_page).
FramesAccounted ==
    \A f \in Frames : Users(f) = IF f \in free THEN 0 ELSE 1

\* Claimed by shoot_down_others: "the point of a shootdown is that it has
\* happened by the time the caller continues".  No other processor still has
\* the request before it (with two processors, whose requests these are).
HasHappened ==
    \A c \in Cpus : pc[c] = "store" => ipi \subseteq {c}
=============================================================================
