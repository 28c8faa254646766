----------------------------- MODULE BlockQueue -----------------------------
(***************************************************************************)
(* How requests reach a disk: the per-device queue of kernel/core/block.c. *)
(*                                                                         *)
(* A thread that finds nobody driving the device becomes the servicer: it  *)
(* takes requests in order, its own and everybody else's, and wakes the    *)
(* owners.  A request lives on its owner's stack, so the request is named  *)
(* by the thread that made it.  What queue_lock makes atomic is one        *)
(* action; `busy` is a flag that whoever is inside the driver holds.       *)
(***************************************************************************)
EXTENDS Integers, Sequences, FiniteSets

CONSTANTS
    Threads,                \* callers of the block layer
    CannotSleep,            \* those that wait_sleep turns away
    Blocks,                 \* the blocks of the device, 0 .. block_count - 1
    MaxCount,               \* bound on the blocks one request asks for
    max_blocks_per_request, \* 0: the device has no opinion
    seek_is_free,
    Discards,               \* does the driver offer ops->discard?
    MaxAsks,                \* bound on the operations started
    Nobody

ASSUME BlockAssumption ==
    /\ CannotSleep \subseteq Threads
    /\ Blocks \subseteq Nat
    /\ MaxCount \in Nat \ {0}
    /\ max_blocks_per_request \in Nat
    /\ seek_is_free \in BOOLEAN
    /\ Discards \in BOOLEAN
    /\ MaxAsks \in Nat
    /\ Nobody \notin Threads

VARIABLES
    pc,       \* where each thread is
    lba, count,  \* what its request asks for
    done, status,\* what the servicer tells it; reset where it is initialised,
              \* so that a frame that is gone is the same as a fresh one
    queue,    \* dev->queue, as the owners of the requests on it
    serving,  \* dev->serving
    busy,     \* dev->busy
    taken,    \* the request a servicer has off the queue, by its owner
    left,     \* blocks of it still to be moved
    moved,    \* blocks the driver has moved for each request
    asked     \* operations started

vars == <<pc, lba, count, done, status, queue, serving, busy, taken, left,
          moved, asked>>
request == <<lba, count>>

Servicing == {"serve", "acquire", "issue", "finish"}
Waiting   == {"wait", "asleep", "spin"}
InDriver  == {"issue", "flush", "discard"}
Places    == Servicing \cup Waiting \cup InDriver \cup {"idle", "flush_acquire"}

Init ==
    /\ pc = [t \in Threads |-> "idle"]
    /\ lba = [t \in Threads |-> 0]
    /\ count = [t \in Threads |-> 0]
    /\ done = [t \in Threads |-> FALSE]
    /\ status = [t \in Threads |-> "ok"]
    /\ queue = <<>>
    /\ serving = FALSE
    /\ busy = FALSE
    /\ taken = [t \in Threads |-> Nobody]
    /\ left = [t \in Threads |-> 0]
    /\ moved = [t \in Threads |-> 0]
    /\ asked = 0

Go(t, place) == pc' = [pc EXCEPT ![t] = place]

\* A thread with nothing in hand starts an operation.
Starts(t) ==
    /\ pc[t] = "idle"
    /\ asked < MaxAsks
    /\ asked' = asked + 1

\* queue_insert, for a request that starts at block l: behind the leading
\* run of requests that start no later, or at the end where seeking is free.
Passed(l) ==
    {i \in 1..Len(queue) :
        seek_is_free \/ \A j \in 1..i : lba[queue[j]] <= l}

queue_insert(t, l) ==
    LET k == Cardinality(Passed(l))
    IN  [i \in 1..(Len(queue) + 1) |->
            IF i <= k THEN queue[i] ELSE IF i = k + 1 THEN t ELSE queue[i - 1]]

\* The frame the request is in is gone, and what it held with it.
FrameGone(t) ==
    /\ lba' = [lba EXCEPT ![t] = 0]
    /\ count' = [count EXCEPT ![t] = 0]
    /\ done' = [done EXCEPT ![t] = FALSE]
    /\ status' = [status EXCEPT ![t] = "ok"]
    /\ moved' = [moved EXCEPT ![t] = 0]

\* Mutant: the caller looks at `serving` before it takes the lock, and so may
\* take what it saw for what is true when it queues.
submit_unlocked(t, l, n) ==
    /\ Starts(t)
    /\ lba' = [lba EXCEPT ![t] = l]
    /\ count' = [count EXCEPT ![t] = n]
    /\ UNCHANGED <<done, status, moved>>
    /\ queue' = queue_insert(t, l)
    /\ \/ Go(t, "wait") /\ UNCHANGED serving
       \/ ~serving /\ serving' = TRUE /\ Go(t, "serve")
    /\ UNCHANGED <<busy, taken, left>>

\* submit, up to the first unlock: the request is queued, and the caller
\* drives the device when nobody else does.  check_range has passed.
submit(t, l, n) ==
    /\ Starts(t)
    /\ lba' = [lba EXCEPT ![t] = l]
    /\ count' = [count EXCEPT ![t] = n]
    /\ UNCHANGED <<done, status, moved>>
    /\ queue' = queue_insert(t, l)
    /\ serving' = TRUE
    /\ Go(t, IF serving THEN "wait" ELSE "serve")
    /\ UNCHANGED <<busy, taken, left>>

\* Mutant: the test and the sleep are under two acquisitions of the lock, so
\* what was tested may no longer hold.
AwaitUnlocked(t) ==
    /\ pc[t] = "wait"
    /\ Go(t, IF t \in CannotSleep THEN "spin" ELSE "asleep")
    /\ UNCHANGED <<request, done, status, queue, serving, busy, taken, left,
                   moved, asked>>

\* Somebody else will get to it: test and sleep under one lock.
Await(t) ==
    /\ pc[t] = "wait"
    /\ ~done[t]
    /\ Go(t, IF t \in CannotSleep THEN "spin" ELSE "asleep")
    /\ UNCHANGED <<request, done, status, queue, serving, busy, taken, left,
                   moved, asked>>

\* The owner finds its request done and returns the status in it.
Return(t) ==
    /\ pc[t] \in {"wait", "spin"}
    /\ done[t]
    /\ Go(t, "idle")
    /\ FrameGone(t)
    /\ UNCHANGED <<queue, serving, busy, taken, left, asked>>

\* Mutant: the servicer stops once its own request is done.
StopServingOwn(t) ==
    /\ pc[t] = "serve"
    /\ done[t]
    /\ serving' = FALSE
    /\ Go(t, "idle")
    /\ FrameGone(t)
    /\ UNCHANGED <<queue, busy, taken, left, asked>>

\* The servicer finds nothing left, and stops serving under the lock.
StopServing(t) ==
    /\ pc[t] = "serve"
    /\ queue = <<>>
    /\ serving' = FALSE
    /\ Go(t, "idle")
    /\ FrameGone(t)
    /\ UNCHANGED <<queue, busy, taken, left, asked>>

\* Mutant: the request stays on the queue until it is finished.
TakeNextKept(t) ==
    /\ pc[t] = "serve"
    /\ queue # <<>>
    /\ taken' = [taken EXCEPT ![t] = Head(queue)]
    /\ left' = [left EXCEPT ![t] = count[Head(queue)]]
    /\ Go(t, "acquire")
    /\ UNCHANGED <<request, done, status, queue, serving, busy, moved, asked>>

\* The servicer takes the request at the head of the queue.
TakeNext(t) ==
    /\ pc[t] = "serve"
    /\ queue # <<>>
    /\ queue' = Tail(queue)
    /\ taken' = [taken EXCEPT ![t] = Head(queue)]
    /\ left' = [left EXCEPT ![t] = count[Head(queue)]]
    /\ Go(t, "acquire")
    /\ UNCHANGED <<request, done, status, serving, busy, moved, asked>>

\* Mutant: the flag is tested and set in two steps.
device_acquire_racy(t, from, to) ==
    /\ pc[t] = from
    /\ busy' = TRUE
    /\ Go(t, to)

\* device_acquire: one atomic test-and-set, tried again after each yield.
device_acquire(t, from, to) ==
    /\ pc[t] = from
    /\ ~busy
    /\ busy' = TRUE
    /\ Go(t, to)

issue(t) ==
    /\ device_acquire(t, "acquire", "issue")
    /\ UNCHANGED <<request, done, status, queue, serving, taken, left, moved, asked>>

\* Mutant: one transfer is taken for the whole request.
ChunkDoneOnce(t, ok) ==
    /\ pc[t] = "issue"
    /\ LET most == max_blocks_per_request
           n    == IF most > 0 /\ left[t] > most THEN most ELSE left[t]
       IN  /\ moved' = IF ok THEN [moved EXCEPT ![taken[t]] = @ + n] ELSE moved
           /\ left' = IF ok THEN [left EXCEPT ![t] = @ - n] ELSE left
    /\ Go(t, "finish")
    /\ busy' = FALSE
    /\ status' = [status EXCEPT ![taken[t]] = IF ok THEN "ok" ELSE "error"]
    /\ UNCHANGED <<request, done, queue, serving, taken, asked>>

\* The driver is back from one transfer of as many blocks as it takes at
\* once; a failure, or the last transfer, ends the request and the hold.  The
\* result is issue's return value; Finish stores it, and no one looks before.
ChunkDone(t, ok) ==
    /\ pc[t] = "issue"
    /\ LET most == max_blocks_per_request
           n    == IF most > 0 /\ left[t] > most THEN most ELSE left[t]
           last == ~ok \/ n = left[t]
       IN  /\ moved' = IF ok THEN [moved EXCEPT ![taken[t]] = @ + n] ELSE moved
           /\ left' = IF ok THEN [left EXCEPT ![t] = @ - n] ELSE left
           /\ Go(t, IF last THEN "finish" ELSE "issue")
           /\ busy' = ~last
           /\ status' = IF last THEN [status EXCEPT ![taken[t]] = IF ok THEN "ok" ELSE "error"]
                                ELSE status
    /\ UNCHANGED <<request, done, queue, serving, taken, asked>>

\* Back under the lock: the owner is told, and everybody asleep on the device
\* is woken to look.
Finish(t) ==
    /\ pc[t] = "finish"
    /\ done' = [done EXCEPT ![taken[t]] = TRUE]
    /\ taken' = [taken EXCEPT ![t] = Nobody]
    /\ left' = [left EXCEPT ![t] = 0]
    /\ pc' = [u \in Threads |-> IF u = t THEN "serve"
                                ELSE IF pc[u] = "asleep" THEN "wait" ELSE pc[u]]
    /\ UNCHANGED <<request, status, queue, serving, busy, moved, asked>>

\* block_flush: straight to the driver, under `busy`.
block_flush(t) ==
    /\ Starts(t)
    /\ Go(t, "flush_acquire")
    /\ UNCHANGED <<request, done, status, queue, serving, busy, taken, left, moved>>

FlushEnters(t) ==
    /\ device_acquire(t, "flush_acquire", "flush")
    /\ UNCHANGED <<request, done, status, queue, serving, taken, left, moved, asked>>

FlushDone(t) ==
    /\ pc[t] = "flush"
    /\ busy' = FALSE
    /\ Go(t, "idle")
    /\ UNCHANGED <<request, done, status, queue, serving, taken, left, moved, asked>>

\* block_discard: straight to the driver, and not under `busy`.
block_discard(t) ==
    /\ Discards
    /\ Starts(t)
    /\ Go(t, "discard")
    /\ UNCHANGED <<request, done, status, queue, serving, busy, taken, left, moved>>

DiscardDone(t) ==
    /\ pc[t] = "discard"
    /\ Go(t, "idle")
    /\ UNCHANGED <<request, done, status, queue, serving, busy, taken, left,
                   moved, asked>>

\* A read or a write that check_range lets through.
Request(t) ==
    \E l \in Blocks, n \in 1..MaxCount :
        /\ l + n - 1 \in Blocks
        /\ submit(t, l, n)

Steps(t) ==
    \/ Await(t) \/ Return(t) \/ StopServing(t) \/ TakeNext(t)
    \/ (\E ok \in BOOLEAN : ChunkDone(t, ok))
    \/ Finish(t) \/ FlushDone(t) \/ DiscardDone(t)

Next ==
    \E t \in Threads :
        \/ Request(t) \/ block_flush(t) \/ block_discard(t)
        \/ Steps(t) \/ issue(t) \/ FlushEnters(t)

\* Threads are scheduled and the driver returns (every driver has a limit on
\* how long it waits); a thread that keeps trying for `busy` gets it.
Fairness ==
    \A t \in Threads :
        /\ WF_vars(Steps(t))
        /\ SF_vars(issue(t) \/ FlushEnters(t))

Spec == Init /\ [][Next]_vars /\ Fairness

-----------------------------------------------------------------------------

\* The variables hold what the fields of block_device and block_request hold.
TypeOK ==
    /\ pc \in [Threads -> Places]
    /\ lba \in [Threads -> Nat]
    /\ count \in [Threads -> Nat]
    /\ done \in [Threads -> BOOLEAN]
    /\ status \in [Threads -> {"ok", "error"}]
    /\ queue \in Seq(Threads)
    /\ serving \in BOOLEAN
    /\ busy \in BOOLEAN
    /\ taken \in [Threads -> Threads \cup {Nobody}]
    /\ left \in [Threads -> Nat]
    /\ moved \in [Threads -> Nat]
    /\ asked \in Nat

\* A flush never overlaps a transfer, which would be "asking the driver to
\* commit something it is in the middle of writing" (issue), and transfers
\* never overlap: those two paths into the driver both hold `busy`.
FlushApart ==
    \A t, u \in Threads :
        pc[t] \in {"issue", "flush"} /\ pc[u] \in {"issue", "flush"} => t = u

\* Claimed of the whole block layer: "One request at a time, per device"
\* (block.c).  A driver has one command slot and one scratch buffer, so two
\* threads are never inside one driver, a discard included.
OneInDriver == \A t, u \in Threads : pc[t] \in InDriver /\ pc[u] \in InDriver => t = u

\* "There is no gap where a request is queued and nobody is coming" (submit):
\* while anything is queued there is a servicer, and never two.
SomebodyComes ==
    /\ queue # <<>> => \E t \in Threads : pc[t] \in Servicing
    /\ \A t, u \in Threads : pc[t] \in Servicing /\ pc[u] \in Servicing => t = u

Queued(t) == \E i \in 1..Len(queue) : queue[i] = t
Taken(t)  == \E s \in Threads : taken[s] = t

\* A request is on its owner's stack: whatever the queue or a servicer still
\* points at belongs to a caller that is inside submit and has not been told
\* its request is done, and it is reached in one way only.
FrameStands ==
    \A t \in Threads :
        /\ Queued(t) \/ Taken(t) => pc[t] \in Servicing \cup Waiting /\ ~done[t]
        /\ ~(Queued(t) /\ Taken(t))

\* No completion is lost between the test of `done` and the sleep: nobody
\* sleeps on a request that is done, or that nobody will finish.
NoLostCompletion ==
    \A t \in Threads : pc[t] = "asleep" => ~done[t] /\ (Queued(t) \/ Taken(t))

\* A request that is done and says ok has moved exactly the blocks it asked
\* for, in however many transfers the device took (issue).
OkMeansAllMoved ==
    \A t \in Threads : done[t] /\ status[t] = "ok" => moved[t] = count[t]

\* Every request is answered, once callers stop making new ones.
Answered ==
    \A t \in Threads : pc[t] \in Servicing \cup Waiting ~> pc[t] = "idle"

=============================================================================
