-------------------------------- MODULE Pipe --------------------------------
(***************************************************************************)
(* A pipe and the descriptors that lead to it: kernel/core/pipe.c, the     *)
(* descriptor table and file references of vfs.c, and the system calls of  *)
(* user.c over them, made by the threads of one process.                   *)
(*                                                                         *)
(* What a lock covers is one action.  Between two actions of a call every  *)
(* other thread may run: a descriptor can be closed under a thread that is *)
(* asleep in the pipe behind it, and only the reference that fd_get took   *)
(* keeps the pipe there.                                                   *)
(***************************************************************************)
EXTENDS Integers, Sequences, FiniteSets, FiniteSetsExt

CONSTANTS
    Threads,        \* of one process, which share its descriptors
    CannotSleep,    \* those that wait_sleep turns away
    PROCESS_FDS_MAX,
    PIPE_CAPACITY,
    ReadLens, WriteLens,    \* what a call may ask for
    MaxOpens,       \* bound on the other files opened
    None

ASSUME PipeAssumption ==
    /\ CannotSleep \subseteq Threads
    /\ PROCESS_FDS_MAX \in Nat \ {0}
    /\ PIPE_CAPACITY \in Nat \ {0}
    /\ ReadLens \cup WriteLens \subseteq Nat \ {0}
    /\ MaxOpens \in Nat
    /\ IsFiniteSet(Threads)
    /\ None \notin Threads \cup {"r", "w", "other"}

VARIABLES
    work,       \* what each thread still has to do in its call, first to last
    done,       \* bytes its write has placed so far
    got,        \* the numbers sys_pipe has been given, -1 for refused
    fds,        \* process->fds
    refs,       \* file->refs of the two ends
    life,       \* of struct pipe
    buf, head, tail, count,
    read_ends, write_ends,
    readers, writers,   \* the wait queues; only ever woken whole
    opens,      \* other files opened
    pending, out, told  \* history: accepted and not read yet, read last,
                        \* and whether a reader has been told the end

ring == <<buf, head, tail, count>>
ends == <<read_ends, write_ends>>
history == <<pending, out, told>>
vars == <<work, done, got, fds, refs, life, ring, ends, readers, writers,
          opens, history>>

FDs   == 0 .. PROCESS_FDS_MAX - 1
Ends  == {"r", "w"}
Files == Ends \cup {"other"}

\* A byte is known by its place in the write it came from.
Bytes == Nat

Init ==
    /\ work = [t \in Threads |-> <<>>]
    /\ done = [t \in Threads |-> 0]
    /\ got = [t \in Threads |-> <<>>]
    /\ fds = [fd \in FDs |-> None]
    /\ refs = [f \in Ends |-> 0]
    /\ life = "unmade"
    /\ buf = [i \in 0 .. PIPE_CAPACITY - 1 |-> None]
    /\ head = 0 /\ tail = 0 /\ count = 0
    /\ read_ends = 0 /\ write_ends = 0
    /\ readers = {} /\ writers = {}
    /\ opens = 0
    /\ pending = <<>> /\ out = <<>> /\ told = FALSE

Idle(t) == work[t] = <<>>
Asleep(t) == t \in readers \cup writers

\* The thread is awake and its next step is op.
Does(t, op) ==
    /\ ~Idle(t) /\ ~Asleep(t)
    /\ work[t][1].op = op

Arg(t) == work[t][1].arg
Step(o, a) == [op |-> o, arg |-> a]
Goes(t, steps) == work' = [work EXCEPT ![t] = steps]
Goes_on(t) == Goes(t, Tail(work[t]))

\* The lowest free number, or -1.
LowestFree ==
    LET free == {fd \in FDs : fds[fd] = None}
    IN  IF free = {} THEN -1 ELSE Min(free)

-----------------------------------------------------------------------------
(* System calls begin.                                                     *)

\* sys_pipe: both ends with a reference each, which are then installed and
\* the references of the call dropped.
pipe_create(t) ==
    /\ Idle(t) /\ life = "unmade"
    /\ life' = "live"
    /\ read_ends' = 1 /\ write_ends' = 1
    /\ refs' = [f \in Ends |-> 1]
    /\ Goes(t, <<Step("install", "r"), Step("install", "w"),
                 Step("release", "r"), Step("release", "w"),
                 Step("check", 0)>>)
    /\ UNCHANGED <<done, got, fds, ring, readers, writers, opens, history>>

\* The bug fd_get's comment is about: the array is read and nothing is held.
fd_get_unheld(f) == UNCHANGED refs

\* sys_read and sys_write: fd_get takes the reference under the table's lock.
fd_get(f) == refs' = [refs EXCEPT ![f] = @ + 1]

\* A file without the operation is released at once (SYS_EPERM).
Call(t, fd, op, n) ==
    LET f == fds[fd]
    IN  /\ Idle(t)
        /\ f \in Ends
        /\ fd_get(f)
        /\ Goes(t, IF (f = "r") = (op = "read")
                   THEN <<Step(op, n), Step("release", f)>>
                   ELSE <<Step("release", f)>>)
        /\ UNCHANGED <<done, got, fds, life, ring, ends, readers, writers,
                       opens, history>>

sys_read(t, fd, n) == Call(t, fd, "read", n)
sys_write(t, fd, n) == Call(t, fd, "write", n)

sys_close(t, fd) ==
    /\ Idle(t)
    /\ fds[fd] # None
    /\ Goes(t, <<Step("fd_close", fd)>>)
    /\ UNCHANGED <<done, got, fds, refs, life, ring, ends, readers, writers,
                   opens, history>>

\* sys_open of something that is not a pipe, which takes up a number.
sys_open(t) ==
    /\ Idle(t) /\ opens < MaxOpens
    /\ LowestFree # -1
    /\ fds' = [fds EXCEPT ![LowestFree] = "other"]
    /\ opens' = opens + 1
    /\ UNCHANGED <<work, done, got, refs, life, ring, ends, readers, writers,
                   history>>

-----------------------------------------------------------------------------
(* The steps of the calls.                                                 *)

\* The lowest free number, which holds a reference of its own, or SYS_EMFILE.
fd_install(t) ==
    /\ Does(t, "install")
    /\ got' = [got EXCEPT ![t] = Append(@, LowestFree)]
    /\ IF LowestFree = -1
       THEN UNCHANGED <<fds, refs>>
       ELSE /\ fds' = [fds EXCEPT ![LowestFree] = Arg(t)]
            /\ refs' = [refs EXCEPT ![Arg(t)] = @ + 1]
    /\ Goes_on(t)
    /\ UNCHANGED <<done, life, ring, ends, readers, writers, opens, history>>

\* sys_pipe's end: half a pipe is closed again.
sys_pipe_check(t) ==
    LET Half(fd) == IF fd = -1 THEN <<>> ELSE <<Step("fd_close", fd)>>
    IN  /\ Does(t, "check")
        /\ Goes(t, IF -1 \notin {got[t][1], got[t][2]} THEN <<>>
                   ELSE Half(got[t][1]) \o Half(got[t][2]))
        /\ got' = [got EXCEPT ![t] = <<>>]
        /\ UNCHANGED <<done, fds, refs, life, ring, ends, readers, writers,
                       opens, history>>

\* The number is given up under the lock, the reference outside it.
fd_close(t) ==
    /\ Does(t, "fd_close")
    /\ LET f == fds[Arg(t)]
       IN  Goes(t, IF f \in Ends
                   THEN <<Step("release", f)>> \o Tail(work[t])
                   ELSE Tail(work[t]))
    /\ fds' = [fds EXCEPT ![Arg(t)] = None]
    /\ UNCHANGED <<done, got, refs, life, ring, ends, readers, writers, opens,
                   history>>

\* The last reference closes the file.
file_release(t) ==
    /\ Does(t, "release")
    /\ refs' = [refs EXCEPT ![Arg(t)] = @ - 1]
    /\ Goes(t, IF refs[Arg(t)] = 1
               THEN <<Step("close", Arg(t))>> \o Tail(work[t])
               ELSE Tail(work[t]))
    /\ UNCHANGED <<done, got, fds, life, ring, ends, readers, writers, opens,
                   history>>

\* Frees the pipe once neither end is open.
pipe_maybe_free(open_ends) ==
    life' = IF open_ends = 0 THEN "freed" ELSE life

pipe_close_read(t) ==
    /\ Does(t, "close") /\ Arg(t) = "r"
    /\ read_ends' = IF read_ends > 0 THEN read_ends - 1 ELSE 0
    /\ writers' = {}
    /\ pipe_maybe_free(read_ends' + write_ends)
    /\ Goes_on(t)
    /\ UNCHANGED <<done, got, fds, refs, ring, write_ends, readers, opens,
                   history>>

\* A close that wakes nobody.
pipe_close_write_quiet(t) ==
    /\ Does(t, "close") /\ Arg(t) = "w"
    /\ write_ends' = IF write_ends > 0 THEN write_ends - 1 ELSE 0
    /\ pipe_maybe_free(read_ends + write_ends')
    /\ Goes_on(t)
    /\ UNCHANGED <<done, got, fds, refs, ring, read_ends, readers, writers,
                   opens, history>>

pipe_close_write(t) ==
    /\ Does(t, "close") /\ Arg(t) = "w"
    /\ write_ends' = IF write_ends > 0 THEN write_ends - 1 ELSE 0
    /\ readers' = {}
    /\ pipe_maybe_free(read_ends + write_ends')
    /\ Goes_on(t)
    /\ UNCHANGED <<done, got, fds, refs, ring, read_ends, writers, opens,
                   history>>

-----------------------------------------------------------------------------
(* Reading and writing, each from one taking of the pipe's lock to the     *)
(* next release of it.                                                     *)

\* ring_take, n times: the bytes, oldest first.
ring_take(n) == [i \in 1 .. n |-> buf[(head + i - 1) % PIPE_CAPACITY]]

\* ring_put, once for each byte of s.
ring_put(s) ==
    [i \in DOMAIN buf |->
        LET k == ((i - tail) % PIPE_CAPACITY) + 1
        IN  IF k <= Len(s) THEN s[k] ELSE buf[i]]

Cleared(n) ==
    [i \in DOMAIN buf |->
        IF (i - head) % PIPE_CAPACITY < n THEN None ELSE buf[i]]

\* The end of input seen before the bytes that are left.
ReadEndsEarly(t) ==
    /\ write_ends = 0
    /\ told' = TRUE
    /\ Goes_on(t)
    /\ UNCHANGED <<ring, readers, writers, pending, out>>

ReadEnds(t) ==
    /\ count = 0 /\ write_ends = 0
    /\ told' = TRUE
    /\ Goes_on(t)
    /\ UNCHANGED <<ring, readers, writers, pending, out>>

ReadSleeps(t) ==
    /\ count = 0 /\ write_ends # 0
    /\ IF t \in CannotSleep
       THEN Goes_on(t) /\ UNCHANGED readers
       ELSE readers' = readers \cup {t} /\ UNCHANGED work
    /\ UNCHANGED <<ring, writers, history>>

\* Room is announced only once the pipe is empty.
ReadTakesQuiet(t) ==
    LET n == Min({Arg(t), count})
    IN  /\ count # 0
        /\ out' = ring_take(n)
        /\ pending' = SubSeq(pending, n + 1, Len(pending))
        /\ buf' = Cleared(n)
        /\ head' = (head + n) % PIPE_CAPACITY
        /\ count' = count - n
        /\ writers' = IF count' = 0 THEN {} ELSE writers
        /\ Goes_on(t)
        /\ UNCHANGED <<tail, readers, told>>

ReadTakes(t) ==
    LET n == Min({Arg(t), count})
    IN  /\ count # 0
        /\ out' = ring_take(n)
        /\ pending' = SubSeq(pending, n + 1, Len(pending))
        /\ buf' = Cleared(n)
        /\ head' = (head + n) % PIPE_CAPACITY
        /\ count' = count - n
        /\ writers' = {}
        /\ Goes_on(t)
        /\ UNCHANGED <<tail, readers, told>>

\* A read waits for the first byte and no more.
pipe_read(t) ==
    /\ Does(t, "read")
    /\ ReadEnds(t) \/ ReadSleeps(t) \/ ReadTakes(t)
    /\ UNCHANGED <<done, got, fds, refs, life, ends, opens>>

WriteFails(t) ==
    /\ read_ends = 0
    /\ Goes_on(t)
    /\ done' = [done EXCEPT ![t] = 0]
    /\ UNCHANGED <<ring, readers, writers, pending>>

WriteSleeps(t) ==
    /\ count = PIPE_CAPACITY /\ read_ends # 0
    /\ IF t \in CannotSleep
       THEN /\ Goes_on(t)
            /\ done' = [done EXCEPT ![t] = 0]
            /\ UNCHANGED writers
       ELSE writers' = writers \cup {t} /\ UNCHANGED <<work, done>>
    /\ UNCHANGED <<ring, readers, pending>>

\* As much as there is room for; what is left finds the pipe full and, the
\* lock still held, goes to sleep on it.
WritePuts(t) ==
    LET n == Min({Arg(t) - done[t], PIPE_CAPACITY - count})
        bytes == [i \in 1 .. n |-> done[t] + i]
    IN  /\ count < PIPE_CAPACITY /\ read_ends # 0
        /\ pending' = pending \o bytes
        /\ buf' = ring_put(bytes)
        /\ tail' = (tail + n) % PIPE_CAPACITY
        /\ count' = count + n
        /\ readers' = {}
        /\ IF done[t] + n = Arg(t) \/ t \in CannotSleep
           THEN /\ Goes_on(t)
                /\ done' = [done EXCEPT ![t] = 0]
                /\ UNCHANGED writers
           ELSE /\ done' = [done EXCEPT ![t] = @ + n]
                /\ writers' = writers \cup {t}
                /\ UNCHANGED work
        /\ UNCHANGED head

pipe_write(t) ==
    /\ Does(t, "write")
    /\ WriteFails(t) \/ WriteSleeps(t) \/ WritePuts(t)
    /\ UNCHANGED <<got, fds, refs, life, ends, opens, out, told>>

-----------------------------------------------------------------------------
\* What a thread does of its own accord inside a call, once it has begun.
Continues(t) ==
    \/ fd_install(t) \/ sys_pipe_check(t)
    \/ fd_close(t) \/ file_release(t)
    \/ pipe_close_read(t) \/ pipe_close_write(t)
    \/ pipe_read(t) \/ pipe_write(t)

Begins(t) ==
    \/ pipe_create(t)
    \/ sys_open(t)
    \/ \E fd \in FDs : \/ sys_close(t, fd)
                       \/ \E n \in ReadLens : sys_read(t, fd, n)
                       \/ \E n \in WriteLens : sys_write(t, fd, n)

Next == \E t \in Threads : Begins(t) \/ Continues(t)

Spec == Init /\ [][Next]_vars

\* A thread that has not gone to sleep is given a processor (Sched) and goes
\* on; nobody is obliged to make another call.
FairSpec == Spec /\ \A t \in Threads : WF_vars(Continues(t))

-----------------------------------------------------------------------------
(* Properties.                                                             *)

Steps == [op : {"install", "release", "close"}, arg : Ends]
         \cup [op : {"fd_close"}, arg : FDs]
         \cup [op : {"read", "write"}, arg : ReadLens \cup WriteLens]
         \cup [op : {"check"}, arg : {0}]

\* Every variable holds what its field of the structures holds.
TypeOK ==
    /\ work \in [Threads -> Seq(Steps)]
    /\ done \in [Threads -> Nat]
    /\ got \in [Threads -> Seq(FDs \cup {-1})]
    /\ fds \in [FDs -> Files \cup {None}]
    /\ refs \in [Ends -> Nat]
    /\ life \in {"unmade", "live", "freed"}
    /\ buf \in [0 .. PIPE_CAPACITY - 1 -> Bytes \cup {None}]
    /\ {head, tail} \subseteq 0 .. PIPE_CAPACITY - 1
    /\ count \in 0 .. PIPE_CAPACITY
    /\ {read_ends, write_ends} \subseteq {0, 1}
    /\ readers \subseteq Threads /\ writers \subseteq Threads
    /\ opens \in 0 .. MaxOpens
    /\ pending \in Seq(Bytes) /\ out \in Seq(Bytes) /\ told \in BOOLEAN

Uses(t) == {work[t][i].op : i \in DOMAIN work[t]}

Reachable ==
    \/ \E fd \in FDs : fds[fd] \in Ends
    \/ \E t \in Threads :
         Uses(t) \cap {"install", "read", "write", "release", "close"} # {}

\* The pipe is there exactly as long as a descriptor or a call leads to it.
\* Closing a descriptor does not free what another thread is using, awake or
\* asleep ("A reference is taken under the lock", fd_get), and no order of
\* closes, of refusals for want of a number and of releases leaks it
\* (sys_pipe: "dropping them is what closes the end nobody got").
LifeFollowsUse ==
    life # "unmade" => (life = "live" <=> Reachable)

\* No sleeper has been forgotten: a reader asleep finds the pipe empty with
\* a writer left, a writer asleep finds it full with a reader left, and so
\* the two never wait for each other (the wakes of pipe_read, pipe_write and
\* the two closes).
SleepersHaveReason ==
    /\ readers # {} => count = 0 /\ write_ends # 0
    /\ writers # {} => count = PIPE_CAPACITY /\ read_ends # 0

\* Bytes come out as they went in, each once, across the wrap of the ring,
\* writes cut in pieces and readers that compete, and the end of input is
\* told only when it is one.
OneStream == INSTANCE Stream WITH open <- life = "unmade" \/ write_ends > 0
IsStream == OneStream!Spec

\* In a call on one end when the other end has been closed.
CutOff(t) ==
    \/ "read" \in Uses(t) /\ write_ends = 0
    \/ "write" \in Uses(t) /\ read_ends = 0

\* A thread in a call on one end comes out of it once the other end has been
\* closed: "a program waiting for a reader that has gone waits forever, and
\* nothing reports why", "or it waits for a writer that no longer exists".
CloseReleases(t) == CutOff(t) ~> Idle(t)
=============================================================================
