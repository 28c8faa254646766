# ReconOS: models, checks and proofs

TLA+ models of the parts of ReconOS whose correctness depends on order: which
processor stands on which stack, which tick a timer runs on, who serves a
queued disk request, what a disk that answers late does to the next request,
what is on the medium when the power goes, what a block cache may answer while
a write is under way, when a pipe, a process or an address space may be taken
apart, and what a connection makes of a network that loses and repeats. Each
module is a translation of
the kernel's C, action by action; `PROJECT.json` maps every definition to the
lines it stands for.

Contents: [the system](#the-system) · [modules](#modules) ·
[runs](#runs-and-what-they-show) · [disagreements](#where-the-code-and-its-comments-disagree) ·
[observations](#observations-that-are-not-runs) · [proofs](#proofs) ·
[limits](#what-is-only-model-checked-and-what-is-not-modelled) · [plan](#plan)

## The system

ReconOS is a kernel (`src/kernel`, 80,000 lines of C for x86_64 and aarch64),
two boot loaders (`src/boot`), a C library, init and test programs
(`src/userland`), and a desktop shell that runs on a host compositor
(`src/src`, 90,000 lines). The core logic, and almost everything that runs
concurrently, is in `src/kernel/core`.

| Component | State it keeps | Operations | What is hard |
|---|---|---|---|
| Scheduler (`sched.c`) | a circular ring of threads; per processor `current`, `leaving`, `idle`; per thread `state`, `off_cpu`, `pinned_to`, `idle_for` | create, start, yield/tick, exit, reap | a thread is on its stack after the ring lock has been dropped |
| Waiting (`wait.c`) | wait queues, semaphores, deadlines with a generation | sleep, wake one/all, take/give, arm/disarm | wake between queueing and switching; a callback that lost its race |
| Deferred work (`work.c`) | a list of items, each `queued` or not; one worker | schedule, run | an item queued again while it runs |
| Timer wheel (`timer.c`) | five levels of 64 slots, the hand, one lock | start, cancel, tick | the lock is dropped around each callback; wrap; two contexts turn it |
| Block layer (`block.c`) | per disk a sorted queue, `serving`, `busy` | read, write, flush, discard, register, slice | requests live on their callers' stacks; three paths into one driver |
| Drivers (`virtio*.c`, `nvme.c`, `ahci.c`, ...) | rings, one command slot, one scratch buffer | run one request | time-outs, late and lost interrupts |
| Block cache (`bcache.c`) | cached blocks | read, write, flush | order of the cache against order of the device |
| ReconFS (`reconfs*.c`, `rootfs.c`) | two superblocks, a copy-on-write tree, an owner table made of blocks it describes | begin, alloc, free, commit, abort, mount | power cuts; the table changes itself; no lock around a transaction |
| Processes, signals, pipes, descriptors (`process.c`, `signal.c`, `pipe.c`, `vfs.c`, `user.c`) | process table, descriptor tables, pipe buffers | spawn, end, reap, read, write, close, deliver | slots reused while something is still being closed; closing one end while the other sleeps |
| Memory (`pmm.c`, `heap.c`, `addrspace.c`, `pagecache.c`, `evict.c`, `swap.c`, `shm.c`) | frames, mappings, ages, swap slots | map, fault, evict, swap, share | eviction racing a fault; an operation failing half way |
| Network (`tcp.c`, `socket.c`, `arp.c`, ...) | connections, buffers, pending resolutions | open, send, receive, close, time out | loss, duplication, reordering |
| Bring-up, interrupts, power (`smp.c`, `irq.c`, `power.c`, `suspend.c`) | processors, vectors, clocks | start a processor, idle, suspend | a processor visible before it is complete |

How they meet: a tick calls `timer_tick` on processor 0 and `sched_switch` on
every processor; an idle processor that wakes from a tickless wait calls
`timer_tick` too. A read goes block cache, block queue, driver; the driver's
thread sleeps on a wait queue that the device's interrupt or a timer callback
wakes. A thread that ends tells its process, which closes its files, which may
commit to ReconFS, which flushes the block layer; it then asks the worker to
run the reaper. The reaper frees the process and with it the address space,
whose pages go back to the allocator that the next fault takes one from.
`PROJECT.json` lists every component with its status, and the
hazards with the line each one bites at.

## Modules

| Module | Models | Extended or instanced by |
|---|---|---|
| `Sched` | `sched.c`, `wait.c`'s sleep and semaphore, `work.c` as far as it runs the reaper, `switch.S` | `MCSched`, `SchedProofs` |
| `TimerWheel` | `timer.c` | `MCTimerWheel`, `SchedProofs` |
| `BlockQueue` | the request path of `block.c` | `MCBlockQueue`, `BlockQueueProofs` |
| `VirtioBlk` | `virtio_blk.c`'s `run`, `virtio.c`, `wait.c`'s deadline | `MCVirtioBlk`, `VirtioBlkProofs` |
| `Bcache` | `bcache.c` and the calls `block.c` makes to it | `MCBcache`, `BcacheProofs` |
| `ReconfsTxn` | `reconfs_txn.c`, mounting and formatting in `reconfs.c` | `MCReconfsTxn`, `ReconfsTxnProofs` |
| `Volume` | the abstract specification: a volume on which a commit is one step | instanced by `ReconfsTxn` |
| `Pipe` | `pipe.c`, the descriptors and file references of `vfs.c`, the calls of `user.c` over them | `MCPipe`, `PipeProofs` |
| `Tcp` | `tcp.c`, two machines that run it and the network between them | `MCTcp`, `VirtioBlkProofs` |
| `Stream` | the abstract specification: a stream of bytes with an end | instanced by `Pipe` once and by `Tcp` for each direction |
| `Program` | `process.c`, `signal.c`, the making of a program in `user.c`, the exit and reaping of its threads | `MCProgram`, `ProgramProofs` |
| `Paging` | `addrspace.c`, the user half of `arch/x86_64/vm.c` with its shootdown, the frames of `pmm.c` | `MCPaging`, `PagingProofs` |

In every module a section of code under one lock is one action, and a lock that
is dropped in the middle of a function splits the function into actions. The
spinlocks themselves are taken as given. `TimerWheel` and `Tcp` share a module of
proofs with another component, so the names of their specifications carry a
prefix: `TimerInit`, `TimerNext`, `TimerSpec`; `TcpInit`, `TcpNext`, `TcpSpec`,
and `TcpFairSpec` with its fairness.

### Sched

State: the fields of `struct thread` and `struct cpu` that decide anything, the
ring as a sequence from the entry `ring` points at, one semaphore with its
queue, and the reaper's work item. Two variables have no field behind them:
`stack` (whose stack a processor stands on) and `saved` (the thread's stored
stack pointer is current); they are what the code's rules protect. `pc` says
where a thread's own code is, by the places where it can be interrupted.

A context switch is three actions, as in the code: `sched_switch` decides under
`ring_lock`, `arch_context_switch` changes stacks after the lock is gone, and
`release_leaving` runs on the new stack and only there makes the old thread
available. `thread_exit` is four: the mark (`ExitMark`), the telling of the
process, which may sleep when it closes files (`CloseMaySleep`), the queueing of
the reaper (`ExitSchedule`), and the last switch. The slice counter is left out:
any tick may be the last of a slice. The `sti` between `release_leaving` and a
new thread's first instruction is left out, since a new slice is five ticks. An
idle thread never sleeps or exits, so the panic for a processor with nothing to
run has no step.

### TimerWheel

State: the clock, the hand, the slot of each filed timer, its expiry, and, for
each context inside `timer_tick`, the chain of timers it has detached and not
yet run. Tick counts are modulo `2^TickBits` and compared by signed difference
as the code compares `u64`s. The order of timers in a slot is left open.
`asked` is the tick, by the clock, at which the caller's delay is over: it is
not a field, and `NeverEarly` compares it with the moment the callback runs.

### BlockQueue

State: one place per thread, the queue as the owners of the requests on it (a
request is a local variable of its owner, so the owner names it), `serving`,
`busy`, and what each servicer has in hand. A finished frame is reset to what a
new one is, which says that nothing may depend on it any more.

### VirtioBlk

State: where `run` is, the free list, the chains, the used ring with indexes
that wrap, the shared status byte, the interrupt, and `struct wait_deadline`.
Beside the one driver thread run the device (external: it completes any posted
request, in any order, or none), its interrupt, which may be lost, and the
timer's callback. Arming, naming the arming, cancelling and retiring are four
steps, because none of them is under the driver's lock.

`Fresh` chooses whether the deadline has ever been armed; see the observations.

### ReconfsTxn and Volume

State: what each block on the medium holds, what the disk has been given and
has not put there yet (`cache`, `supercache`), the mounted volume, and per
writer the transaction with its images of table leaves. The owner table has
depth one: leaves and an index block, all of them blocks that the table itself
must own, which is where the difficulty is. The tree below the root inode is
the set of blocks it reaches, each with the number of the transaction that
wrote it. `used` counts from the first data block.

A power cut leaves any subset of the cached writes on the medium, with one
block, or the superblock, half written. A half-written superblock does not
validate; a half-written block reads as junk. A discard turns released blocks
into junk. `Volume` has three variables (what a mount would find now, what the
mounted volume shows, and what a commit under way would make of it) and says
that a commit is wholly done or wholly not after a cut and never lost once its
caller has been told. `AtomicCommit` is the refinement.

### Bcache

State: the disk, the entries with their `state`, `referenced` and `poisoned`
marks, the clock's hand, the pages the allocator has left, and what each caller
is doing. A read is up to five actions, because the lock is dropped to get a
page and again for the transfer: the first look, the page, the second look and
the choice of a victim, the transfer, and the mark. A write through the cache
is the transfer, which invalidates the unit on its way down (`block_write` does
that for everybody), and the update from the caller's buffer. Writers that go
past the cache, discards, a claim of the whole device and `bcache_reclaim` run
beside them. A call over several units repeats this for each unit, so one unit
per call is enough. `fresh` is history: what a plain read of the device,
started at the same time, could have returned for each block.

### Pipe, Tcp and Stream

`Pipe` is one pipe and the threads of one process that share its descriptors.
`work` is what a thread still has to do in the call it is in, step by step: a
step is what one lock covers, so a descriptor can be closed while another
thread is asleep in the pipe behind it, or between `fd_get` and the use of
what it returned. The ring is the code's (`head`, `tail`, `count`), and so are
the counts of ends and of references. A byte is known by its place in its
write.

`Tcp` is two machines, one connection each, a listener, and the set of segments
under way. What `tcp_lock` covers is one action: `tcp_receive` for a segment
that the network hands over, `tcp_tick`, and the calls of the two programs.
Sequence numbers are modulo `SeqSpace` and compared by half of it, as `i32`
differences are. The network loses, repeats (`MaxRepeats`) and reorders; time
is left out, an armed timer may run out at any tick.

`Stream` says what both promise: bytes come out in the order in which they were
accepted, each once, and the end is told only when nobody can write and nothing
is left. `IsStream` in each is that refinement, for a pipe and for each
direction of a connection.

### Program

State: the process table by slot, the descriptors by slot (each marked with the
process it was opened for), the threads, the address spaces with their counts
and where they are loaded, the reaper, and the arrays of `signal.c`. Making a
program, ending a thread, closing its files one by one, leaving the processor
and each part of reaping are separate actions because none of them is under one
lock. `Sched` has the same exit seen from the processors; here it is seen from
the process.

### Paging

State: the free frames and whether each frame holds zeroes, per slot of the
table its root and regions, the entries below each root, per processor the
space it believes active, the root it really uses and the translations it
holds, the fault it is in, and the shootdown under way. What the program last
wrote to a page is history. The pages of tables and of code are left out; a
root is one frame and one entry per page.

A fault runs with interrupts off. All of its outcomes but one are a single
action; replacing the shared zeroes by a copy invalidates, spins for
`shootdown_lock`, asks, waits for every other processor or for the deadline,
and only then writes the entry. The processor that is asked takes the interrupt
when it can, invalidates the address it reads then, and acknowledges in a step
of its own.

## Runs and what they show

| Run | Configuration | Checks |
|---|---|---|
| `sched_safety` | 2 processors, boot thread, worker, 2 program threads, count to 2, files may sleep | `OneStackPerCpu`, `ResumeSaved`, `NoFreeUnderfoot`, `NoLostWakeup`, `BlockedIsQueued` |
| `sched_live` | 2 processors, 1 program thread | `ReadyRuns`, `ReapCollects` |
| `timer_safety` | 2 timers, 2 contexts, 3 levels of 2 slots, 5-bit ticks | `NeverPassed`, `NoneLost`, `NeverEarly`, `AllRun` |
| `block_safety` | 3 callers, one of which cannot sleep, 2 blocks, 4 operations, discard offered | `FlushApart`, `SomebodyComes`, `FrameStands`, `NoLostCompletion`, `OkMeansAllMoved`, `Answered` |
| `virtio_safety` | 4 descriptors, indexes modulo 8, generations modulo 3 | `EveryDescriptorOnce`, `NoMissedCompletion`, `AlwaysReturns` |
| `reconfs` | 9 blocks in 2 leaves, 2 transactions, 1 power cut, 4 releases per transaction | `NoLiveOverwrite`, `TableIsTrue`, `TreeIsWhole`, `AtomicCommit` |
| `bcache` | 2 readers, 1 writer, 2 entries, 2 whole units and one off the disk's end, 1 write, 2 pages | `Coherent`, `ReadsAreFresh`, `OneOwner` |
| `pipe` | 3 threads, one of which cannot sleep, 2 descriptors, 2 bytes, another file | `LifeFollowsUse`, `SleepersHaveReason`, `IsStream`, `CloseReleasesT1` |
| `tcp` | sequence numbers modulo 16, buffers of 1 byte, 3 bytes written, 2 segments under way, 1 repeated, 1 retry | `KeptUntilDelivered`, `IsStream`, `ClientBytesSettle` |
| `program` | 2 slots, 2 programs, 2 threads, 2 address spaces, 1 signal | `OwnDescriptors`, `SpaceOutlivesThreads`, `EndedIsCollected` |
| `paging` | 3 processors, 2 slots, 1 page each, 4 frames, answers may be late | `TranslatesOwn`, `ReadsOwnWrites`, `FramesAccounted` |

`sched_again` is a violation; see the findings. Type
invariants are not in the list of runs: they are proved, and so is every
safety property in the table. What the runs add are the liveness properties, and
small instances of all the rest.

Why the bounds are enough:

* Sched: two processors are what it takes for one to act inside the other's
  switch; two program threads let one be reaped while the other exits, and put
  two sleepers on the queue. Program threads are symmetric in `sched_safety`;
  `sched_live` uses no symmetry.
* TimerWheel: three levels of two slots make a cascade pass through a level;
  five bits let the count wrap several reaches apart; `MaxLag` 2 lets the hand
  be behind by more than one tick. A delay of at least the wheel's reach is
  refused by `timer_start` and so changes nothing.
* BlockQueue: three callers give a servicer, a request in its hands and a third
  arriving; `max_blocks_per_request` 1 with requests of two blocks makes every
  long request take two transfers, either of which may fail.
* VirtioBlk: four descriptors hold one request that timed out beside the next,
  and then are full. Requests there have two descriptors; three-descriptor
  chains are in the violation run and change only the counts.
* ReconfsTxn: a volume of nine blocks fills up; two leaves let the index's own
  block dirty a leaf nothing else had (`RECONFS_ERR_RETRY`), and the list of
  releases overflow. All of these, a second commit over the first one's
  releases, a torn superblock and a mount after the cut are reached.
* Bcache: three units over two entries make the hand evict what another reader
  is about to look for; a second reader can fill a unit while the first gets its
  page, two pages run out, and the write, which may fail half way, comes at any
  point of a read; that further writes change nothing is proved. The readers are
  symmetric, and so are the whole units.
* Pipe: two descriptors are the least a pipe takes, so another file's number is
  one the pipe's just gave back; one write fills the ring and the next wraps it;
  of three threads two can compete for a byte, or for room, with the third.
* Tcp: the client's numbers wrap at its second byte; every byte fills the
  buffer and closes the window, and one sent before the program has read is
  dropped; one repetition and reordering of two segments put an old segment
  after a new one; a retry and then giving up are both reached. Segments
  of several bytes, which may fit in part, are covered by the proofs of the two
  safety properties. Bytes go one way
  in this run: the two sides run the same code, and the acknowledgements of one
  direction already cross the data.
* Program: two programs take turns in a slot, or hold one each; a program of two
  threads is told of the first end while the second still runs.
* Paging: the third processor is what lets an answer be late for one request
  and arrive in the next; four frames are two roots and two pages, so a program
  runs out of memory while another ends. The heap page is promised by
  `sys_map`; a stack page would only be promised earlier.

Deadlock is checked in `timer_safety`, `virtio_safety` and `paging`. It is not in the
others because the system may rightly stop: callers may have made their last
request (`MaxAsks`, `MaxTxns`), and a machine may have panicked or have nothing
to do.

### Fairness

* Sched: weak fairness per processor of the parts of a switch. The tick comes
  back on every processor and nothing else stops one between two steps. The
  worker's steps are strongly fair: a thread that is given slices for ever gets
  on with its code. Nobody is obliged to create, give or exit.
* TimerWheel: the clock, the tick and the return of a callback.
* BlockQueue: a thread is scheduled and a driver returns (every driver has a
  limit). Getting `busy` is strongly fair: the holder releases it infinitely
  often and each waiter tries again after every yield. Callers owe nothing, and
  stop after `MaxAsks` operations.
* VirtioBlk: the thread, an interrupt that has been sent, the tick, the callback
  and time. The device owes nothing, and an interrupt may be lost.
* Pipe: a thread that is awake inside a call goes on with it. Nobody owes a
  call.
* Tcp: on each machine a program goes on accepting and reading, which also runs
  the stack and its timers. Nothing is assumed of the network.
* Program: the worker runs the reaper when it is queued, and a thread that has
  ended goes on to its last switch.
* Bcache and Paging state no liveness and no fairness.

### What is left out of a passing run, and why

Some constants keep known disagreements out of the passing runs so that the
rest can be checked; each is a finding or an observation below, and most have a
configuration of their own:

* `CancelRaces = FALSE`: no cancel of a timer on a detached chain;
* `Fresh = FALSE`: not the first arming of a deadline;
* `LateFailures = FALSE`: no superblock's write that fails after it was made;
* `Writers` of `reconfs` has one member: one transaction at a time;
* `Overlaps = {}` in `bcache`: one writer of a unit at a time, no writer that
  goes past the cache to a unit which is being read through it, and no transfer
  that changes the disk and reports failure. ReconFS, the only caller that reads
  through the cache, has one writer;
* writes of `tcp` fit a segment;
* `Speculates = FALSE` in `paging`: a processor loads no translation of a
  program's page while it runs the kernel.

## Where the code and its comments disagree

One run is about a contradiction, with a finding that quotes the line:

| Run | What happens |
|---|---|
| `sched_again` | Closing files sleeps; `wait_sleep` overwrites FINISHED; the thread is scheduled again and `thread_exit` reaches the panic it calls impossible. |

The others are kept as configurations that are not part of the listed runs.
`tlc -config X.cfg MCModule` reproduces each; the property named is the claim,
and its comment in the module quotes it.

| Configuration | Property | What happens |
|---|---|---|
| `SchedTold.cfg` | `ToldBeforeSwitch` | A tick between `thread_exit`'s FINISHED mark and `process_thread_ended` takes the processor for good; the process is never told. |
| `TimerCancel.cfg` | `CancelStops` | `timer_cancel` returns true for a timer that `timer_tick` holds in its local `next`, and the timer runs. |
| `BlockDiscard.cfg` | `OneInDriver` | `block_discard` enters the driver without `busy`. |
| `VirtioLate.cfg` | `OkMeansCarriedOut` | A late completion of a request that timed out ends the next request, with the old one's status. |
| `ReconfsWriters.cfg` | `NoLiveOverwrite` | Two transactions open at once; the second writes blocks that the first one's superblock reaches. |
| `BcacheRaw.cfg` | `Coherent` | A write past the cache invalidates before its transfer only; a read through the cache between the two keeps the old contents as valid. |
| `BcacheWriters.cfg` | `Coherent` | Two writers of one block reach the device in one order and the cache in the other. |
| `BcacheFailure.cfg` | `Coherent` | A write through the cache that changes the disk and reports failure does not update the cache; a read between its invalidation and its transfer keeps the old contents. |
| `TcpLongWrite.cfg` | `IsStream` | A write that does not go out in one segment leaves bytes queued that `snd_nxt` does not count, and the next write, or the FIN, goes out under their number (`tcp.c:838`, where `tcp.c:35` counts on a correct stream). |
| `TcpSyn.cfg` | `OpenSettles` | A lost SYN is never sent again and the attempt never ends. |
| `TcpListener.cfg` | `ListenerStays` | A reset that matches only the listener closes it. |
| `SignalTarget.cfg` | `SignalsReachTarget` | A pending signal is found by the process's place among the slots in use (`signal.c:72`); a lower slot is freed and another process acts on it. |
| `PagingShootdown.cfg` | `HasHappened` | Two processors copy a page at once; each spins for `shootdown_lock` with its interrupts off and cannot answer the other, so the wait ends by its deadline and the address is overwritten. |
| `PagingSpeculation.cfg` | `TranslatesOwn` | `vm_map` invalidates before it writes the entry; a load between the two keeps the old translation, and the write that is retried faults on a page that is the program's own and ends it. |

## Observations that are not runs

* **The last thread to exit may not be reaped.** `thread_exit` queues the reaper
  before it has left its processor. The worker can run on another processor at
  once, pass the thread over because it is not `off_cpu`, and finish; nothing
  asks again until another thread exits. `ReapCollects` is the part that holds.
* **`idle_over_work` counts a case that is not a fault.** A thread woken between
  queueing itself and switching away is READY and not `off_cpu`; a processor
  that goes idle then counts it as waiting work that it may not take.
* **The elevator sorts one way.** A request for a high block waits as long as
  requests for lower blocks keep arriving. `Answered` holds because each run has
  finitely many requests.
* **A stale deadline callback names the next arming.** `wait_deadline_disarm`
  sets `armed_for` to `generation + 1`, and a callback that lost its race copies
  that into `expired_at`. The next arming then looks expired from the start: one
  early wake, and the loop arms again.
* **The first arming has no number.** Before the first arming `armed_for` is 0.
  A callback between `timer_start` and `armed_for = generation` sets
  `expired_at` to 0, so the deadline does not look passed, and a thread that
  then sleeps on a silent device without a working interrupt has no timer. Every
  later arming is safe, because the disarm before it set `armed_for` to its
  number.
* **A superblock that was written and reported failed.** With
  `LateFailures = TRUE`, a commit whose superblock reached the medium can fail;
  the volume continues from the older superblock in memory, the next transaction
  reuses blocks the newer one names, and a mount after a cut believes the newer.
* **RETRY is deterministic.** A refused transaction leaves the volume as it was,
  so the same change is refused again; only the crash workload retries.
* **Only queued data is sent again.** A lost SYN, SYN and ACK, or FIN is not, and
  the other end waits. Connections that were reset or reached CLOSED are never
  given back (`tcp.c:926`); closing a listener orphans what nobody accepted; an
  acknowledgement of data and FIN together exceeds the bytes queued and drains
  nothing (`tcp.c:519`); CLOSE_WAIT ignores acknowledgements; the end of
  TIME_WAIT drops bytes the program has not read.
* **A socket holds an index.** Nothing ties it to the connection it was made
  for once the slot has been freed and used again.
* **Failures while a program is made.** `user_elf_create` returns without ending
  the process it made, which keeps its slot; `sys_pipe`, refused its second
  number, closes the first, which another thread may have closed and got again.
* **Files of a thread preempted in `fd_close_all`.** It is FINISHED, so a tick
  is its last switch; it is reaped with the rest of its files open.
* **Signal actions and pending signals outlive their process**: nothing clears
  an entry when a process is made.
* **Shootdowns of a program's pages are harmless today** whatever their timing:
  a program has one thread, and a switch to another program reloads `cr3`. What
  `TranslatesOwn` shows is that this suffices. The wait itself is up to 100 ms
  with interrupts off, within which a processor spinning for the lock can reach
  the spinlock's limit.
* **The page cache is not ready for two users at once** (only self-tests use it):
  `pagecache_put` writes back after it has unlocked, while the page may be
  evicted; a forget between the read and the install leaves a stale page; ramfs
  writes do not call `pagecache_forget`; `evict.c` can free a frame the cache
  owns.

## Proofs

Eight modules of theorems, for every value of the constants that the `ASSUME`s
of their components admit. Where a theorem has a hypothesis of its own, it is
named here. It is one that [keeps a known disagreement
out](#what-is-left-out-of-a-passing-run-and-why) of the passing run, or, of
`Tcp` alone, one that bounds the instance: `Small` and `OnceEach`, [explained
below](#virtioblkproofs-tcp). In each module `IInv` is the inductive invariant,
`Invariance` says that it always holds, and the other theorems follow from it.
`SchedProofs` and `BcacheProofs` add a second invariant for some of theirs; that
of `TimerWheel`, in `SchedProofs`, is `TimerInv`, and that of `Tcp`, in
`VirtioBlkProofs`, is `TcpInv`. `PromptOkMeansCarriedOut`, `NothingEarly` and the
refinements also have an argument of their own, step by step.

| Module | Theorem | States | Hypothesis |
|---|---|---|---|
| `SchedProofs` | `TypeCorrect` | `TypeOK` | |
| | `NoSharedStack` | `OneStackPerCpu` | |
| | `ResumeSavedAlways` | `ResumeSaved` | |
| | `NothingFreedUnderfoot` | `NoFreeUnderfoot` | |
| | `NobodySleepsUnseen` | `BlockedIsQueued` | |
| | `NoWakeupLost` | `NoLostWakeup` | |
| | `TimerTypeCorrect` | `TimerTypeOK` | `~CancelRaces` |
| | `HandNeverPasses` | `NeverPassed` | `~CancelRaces` |
| | `NoTimerLost` | `NoneLost` | `~CancelRaces` |
| | `NothingEarly` | `NeverEarly` | `~CancelRaces` |
| `BlockQueueProofs` | `TypeCorrect` | `TypeOK` | |
| | `FlushesApart` | `FlushApart` | |
| | `AlwaysServed` | `SomebodyComes` | |
| | `FramesStand` | `FrameStands` | |
| | `CompletionsReachOwners` | `NoLostCompletion` | |
| | `OkIsComplete` | `OkMeansAllMoved` | |
| | `DriverExclusive` | `OneInDriver` | no discard |
| `VirtioBlkProofs` | `TypeCorrect` | `TypeOK` | |
| | `DescriptorsOnce` | `EveryDescriptorOnce` | |
| | `CompletionsSeen` | `NoMissedCompletion` | |
| | `PromptOkMeansCarriedOut` | `OkMeansCarriedOut` | `~LateAnswers` |
| | `TcpTypeCorrect` | `TcpTypeOK` | |
| | `NoByteLost` | `KeptUntilDelivered` | `Small`, whole writes |
| | `TcpKeepsStream` | `IsStream`, the refinement of `Stream` in each direction | `Small`, `OnceEach`, whole writes |
| | `BytesGoOutWhole` | writes of one byte are whole writes | one-byte writes |
| | `BytesKeptAndInOrder` | `KeptUntilDelivered` and `IsStream` | `Small`, `OnceEach`, one-byte writes |
| `BcacheProofs` | `TypeCorrect` | `TypeOK` | |
| | `OwnedOnce` | `OneOwner` | |
| | `CacheCoherent` | `Coherent` | `Overlaps = {}` |
| | `FreshReads` | `ReadsAreFresh` | `Overlaps = {}` |
| `ReconfsTxnProofs` | `TypeCorrect` | `TypeOK` | one writer, `~LateFailures` |
| | `LiveIsSafe` | `NoLiveOverwrite` | the same |
| | `TableTrue` | `TableIsTrue` | the same |
| | `TreeWhole` | `TreeIsWhole` | the same |
| | `CommitsAreAtomic` | `AtomicCommit`, the refinement of `Volume` | the same |
| `PipeProofs` | `TypeCorrect` | `TypeOK` | |
| | `FreedAfterLastUse` | `LifeFollowsUse` | |
| | `NobodySleepsForNothing` | `SleepersHaveReason` | |
| | `KeepsStream` | `IsStream`, the refinement of `Stream` | |
| `ProgramProofs` | `TypeCorrect` | `TypeOK` | |
| | `ClosesOwn` | `OwnDescriptors` | |
| | `MapOutlives` | `SpaceOutlivesThreads` | |
| `PagingProofs` | `TypeCorrect` | `TypeOK` | |
| | `OwnContents` | `ReadsOwnWrites` | |
| | `FramesOnce` | `FramesAccounted` | |
| | `OwnTranslations` | `TranslatesOwn` | `~Speculates` |

### SchedProofs: Sched

Any number of processors and of (finitely many) threads, any bound on the count,
files that may sleep or not. Assumptions: the idle threads are distinct, they,
the boot thread, the worker and the program threads are different threads, and
the initial ring holds the kernel's threads once each.

`OneStackPerCpu` is not inductive: whether a switch keeps it depends on what
`off_cpu` means in each phase of every other processor's switch. The invariant
ties them together: a thread is off its processor exactly when no processor has
it as `current` or `leaving`; `leaving` is set exactly between the decision and
the release; `stack` is `leaving` before the change and `current` after it; and
a thread off its processor, and not unused, has its stack pointer saved. Each
action is one step of the proof; facts about the ring, about `pick_next` and about
the steps that leave the processors alone are lemmas of their own.

Sleeping has an invariant of its own above that one, `SleepInv`
(`SleepInvariance`). `NoLostWakeup` compares the semaphore's count with a number
of threads, so it moves with the queue: the invariant says that the queue holds,
once each, exactly threads on their way into or out of `wait_sleep`; that a
processor's own thread is blocked only between queueing itself and the switch;
and that who has finished does not sleep. A wake then takes one thread off the
queue and puts it among the woken, and a `give` adds to the count what the wake
takes from it.

### SchedProofs: TimerWheel

Any number of timers and of contexts that turn the wheel, slots and levels of any
number, a tick count of any width in which the furthest delay and the lag
together stay below half of it (`WheelAssumption`; the code has five levels of 64
slots and 64 bits). Hypothesis: no cancel of a timer that is already in somebody's
chain, which `TimerCancel.cfg` shows to go wrong.

Each property is about a hand that comes to a timer's slot of level 0 at the
right tick, and the slot alone does not say that: on a coarse level it stands for
many ticks, and every level wraps. The invariant (`Sits`, `WheelOK`) says that a
filed timer is in the slot its expiry falls in on some level, less than one
turn of that level ahead of the hand, and at least as far ahead as its expiry is
into that slot, so that the hand reaches the slot's first tick, where the cascade
is, before it reaches the timer. That holds again after a cascade because what is
left is then less than one turn of a finer level. With it go that the hand leads
the clock by one tick at most and lags by no more than `MaxLag` (`HandOK`), that
a timer's tick is the one asked for or up to two later (`AskedOK`), and that a pending timer is
filed or is in one chain, once, and never both (`Filed`, `Chained`, `Apart`, `Kept`).

Turns and slots are powers of two. What the proof needs of `2^n` is proved from
the number of subsets of a set of `n` members: that it multiplies, grows, and
divides the larger ones. The wrap of the tick count is then a remainder that one
more turn divides.

### BlockQueueProofs

Any number of threads, blocks and operations. `DriverExclusive` is the claim that
`BlockDiscard.cfg` refutes for a device with discard: without it no two threads
are in the driver.

The invariant adds to the properties that `serving` is true exactly when some
thread is a servicer, that `busy` is held by exactly one thread in a transfer or
a flush, that a request is queued at most once or is in one servicer's hands,
and that the blocks moved and left of a request in hand add up to its count.

### VirtioBlkProofs: VirtioBlk

A queue of any length, indexes of any range that the length divides and is smaller
than, and a device that answers in any order, late, or never. That
the indexes have more values than the queue has slots is what makes their
difference count: with as many, a full ring would look empty. Virtio's lengths
are powers of two of at most 2^15, so it holds of every queue.

`EveryDescriptorOnce` is about what completions wait, which is read through the
used ring. The invariant says that there are never more than slots, that each
slot between the indexes holds another head and none the device still has, and
that what the free list and the chains of those heads hold is disjoint and
everything. That a completion finds an empty slot is a pigeonhole argument: the
heads are all different descriptors, and the one that completes is not among
those that wait. The lemmas before it are about division: an index that wraps
goes on to the next slot because the queue's length divides the wrap.

`PromptOkMeansCarriedOut` gives the other side of the disagreement that
`VirtioLate.cfg` shows: only a late answer makes `run` report another request's
success.

### VirtioBlkProofs: Tcp

Buffers, segments, reads, retries and numbers of segments under way of any size,
any sequence space and first numbers, bytes in both directions, and a network
that loses, repeats, delays and reorders.

The arithmetic is in distances: how far a number is from the first one of its
side. The SYN has 0, the bytes 1 up to the number written, the FIN one more. Of a
side's own numbers, the invariant (`SendOK`) says that the next one is what has been
sent, and that the send buffer is exactly the stretch of bytes from the first
not acknowledged to the last written. Of its view of the other (`RecvOK`): it
expects what follows the bytes it has taken, its receive buffer is the stretch
between what its program has read and that, and neither the other side nor a
segment on its way to it counts more as acknowledged. And of the segments
(`SegmentOK`): each carries bytes of its sender at their own numbers and
acknowledges nothing that was not sent. `KeptUntilDelivered` then compares two
stretches with the same end. Segments that come from an old state are covered,
since what is true of one stays true as its sender goes on. There is one
exception, found while proving: bytes sent again after the other side has
acknowledged them together with the FIN carry a number past the FIN
([observation](#observations-that-are-not-runs) on `tcp.c:519`); they are never
next, so they are refused.

For the refinement each step is of a kind: it changes nothing of either stream
(`Quiet`, and then what it may put on the wire), makes a connection, closes,
writes, reads, or reads the end. Each kind is an action of `Stream`, or a stutter,
in one direction and a stutter in the other.

The hypotheses:

* `Small`: a side sends less than half of the sequence numbers. Past that, a
  segment that the network has kept long enough looks like a new one, and the
  code has nothing (such as timestamps) to tell them apart; the run's instance,
  which wraps, is within it.
* whole writes (`[][AllWhole]_tcp_vars`): what a write takes into the buffer goes
  out with it. `TcpLongWrite.cfg` shows a stream broken by one that does not.
  It says something of steps and not of constants, because whether a write fits
  depends on the segment, the window and the buffer at that moment.
  `BytesGoOutWhole` proves it of programs that write one byte at a time, as the
  run's do, and `BytesKeptAndInOrder` puts the two together.
* `OnceEach`: each side connects once. A stream in `Tcp` is the history of a
  side, and not of one connection of several. `KeptUntilDelivered` says as much
  itself (`Joined`) and needs no such hypothesis.

`TcpTypeCorrect` needs none of them: no buffer ever holds more than its size,
and no connection retries more than `TCP_MAX_RETRIES` times, whatever is written.

### BcacheProofs

Any number of threads (finitely many), entries, units, blocks, pages and writes.
`OneOwner` needs the bookkeeping of every call: an entry is LOADING exactly
while one thread fills it, a spare page belongs to a reader between getting and
installing it, and the pages free, in entries and in hand add up.

`Coherent` is not inductive even for one writer of a unit: between a write's
transfer and its update a VALID entry may rightly hold the old contents. `CInv`
says what it may hold, for each block: what the disk holds, or what a write that
has reached the device and not the cache has replaced; and it says the same of
what a reader has loaded and nobody has poisoned, since that is VALID next.
Hypothesis: `Overlaps = {}`. The three configurations `Bcache*.cfg` show that
each overlap it excludes breaks the property.

### ReconfsTxnProofs

Any volume, any span of a leaf, any length of the list of releases, any number
of transactions and power cuts. Hypotheses: one writer at a time, and no
superblock's write that reports failure after it was made; `ReconfsWriters.cfg`
and the [observation](#observations-that-are-not-runs) on such a superblock are
what happens without them. Two
assumptions of the module, that formatting leaves a block free
(`FormatAssumption`) and that the abstract volume's "nothing" is not a content
(`NothingAssumption`), say what their names say.

What a write may touch depends on what the allocator believes to be owned, which
it reads leaf by leaf from a table that the transaction itself replaces. The
invariant follows the accounts of a transaction (`Accounts`: a clean leaf agrees
with the disk, what was given up is in the list of releases, the count is the
number owned), the volume under construction (`Shape`: the tree, the leaves'
new places and the index are exactly what is owned, each block once, and what is
new was not reached before), and, from the table's write on, that this volume
is `Whole` on the disk as it will be once the cache is flushed. The believed
superblock's volume is whole on the medium at all times, and nothing in the
cache is a write to it, so a power cut leaves either that volume or, once the
superblock's write has been made, the next one. `CommitsAreAtomic` maps every
step, a torn superblock and a lost cache included, to a step of `Volume` or a
stutter.

### PipeProofs

Any number of (finitely many) threads and descriptors, a ring of any size,
writes and reads of any length; `None` is no file's name.

`work` is a list of steps, so the invariant first says which lists there can be
(`Works`: the tails of what each call starts with). From them the reference
counts are exact: an end's count is the number of descriptors that name it and
of calls that have yet to release it; an end is open as long as it is referenced
or the thread that dropped the last reference has still to close it, and at most
one thread does; and the pipe lives while an end is open. For the refinement the
ring is what is pending, from `head` on, wrapped at the capacity, and the end is
told only when nothing can follow. `KeepsStream` is the whole of `Stream`'s
specification, which states no liveness.

### ProgramProofs

Any number of slots, threads, descriptors, address spaces and programs; threads
are finite, and spaces are numbered because the first free one is taken.

Both properties rest on one count. Ending clears a thread's link to its process
at once, while `counted_by` stays until the reaper has freed the thread. The
invariant says that a slot's `unreaped` is the number of threads that name it in
`counted_by` and are not freed. So a slot that can be reused has no thread left
that might close files in it or stand on its page tables; the reaper's look at
the slot without the lock is still true when it takes the lock, because its
victim is one of those counted; and a space has one reference and one holder.

### PagingProofs

Any number of processors (finitely many), spaces, pages and frames, and any
timing of shootdowns. The invariant says that a program is in one place (ready,
ended, or on one processor), that what a processor believes active is what it
has loaded, that a translation it holds is the table's or the shared zeroes from
before a copy, and that a fault in progress holds a frame which is in no table
and is still clear. Each use of a frame (free, a root, a page, in a fault's hands)
excludes the others, and together they leave none out.

`TranslatesOwn` needs, in addition, that a stale translation is gone before its
entry is rewritten (`FreshOK`). A processor that loads translations while the
kernel runs breaks that (`PagingSpeculation.cfg`), hence `~Speculates`. Nothing
is assumed of shootdowns: answers may be late or never come.

## What is only model-checked, and what is not modelled

Only checked by TLC:

* liveness, which needs fairness and `ENABLED` and is outside what the
  prover handles: `ReadyRuns`, `ReapCollects`, `AllRun`, `Answered`,
  `AlwaysReturns`, `CloseReleasesT1`, `ClientBytesSettle`, `EndedIsCollected`.

Most of the repository's lines are not kernel: `src/src` and `src/modules` are a
graphical shell and its applications, 95,000 lines of single-threaded handlers
and drawing with no protocol of their own. The models cover the parts of the
kernel where order matters, which is a small share of all lines.

Not modelled: the contents of blocks and files, directory encoding, device
discovery and registers, formats (FAT32, ext2, ELF, AML), output, boot loaders
and the desktop. `PROJECT.json` gives a reason for each. Within modelled
components: registration and slices of block devices (and so `block.c:800`,
where `block_discard` uses the result of `to_root` without the test its siblings
make), mutexes and `wait_on` (they have the semaphore's shape),
`timer_next_deadline`, index levels deeper than one, masks and frames of
signals, datagram sockets, and the self-tests. Bring-up is an initial state:
`smp.c:136` puts a processor's idle thread into the ring before `idle_for` names
the processor. The page cache, shared memory, eviction and swap are reached by
the self-tests only, one caller at a time: there is no system call that maps a
file, and nothing evicts.

## Plan

Modules, in the order in which they are worth having:

1. `SmpBringup`: `smp_init` and `sched_adopt_idle`, whose end is `Sched`'s
   initial state.
2. Registration and removal of disks and slices, beside `BlockQueue`.
3. `WorkQueue`, the buffer pool and ARP's pending queue, the userland allocator
   and init.
4. The page cache with eviction and swap, when system calls reach them.

Theorems: every type invariant and every safety property of a passing run is
proved. What could be added is `Tcp` for several connections of a side, one after
another, which needs a history for each connection first; and, once
`tcp_write` counts the bytes it leaves queued, whole writes will no longer be
a hypothesis.
