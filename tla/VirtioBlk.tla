----------------------------- MODULE VirtioBlk ------------------------------
(***************************************************************************)
(* One request on a virtio disk, from submission to its answer: run and    *)
(* collect_or_wait of kernel/core/virtio_blk.c, the split virtqueue of     *)
(* virtio.c, and the deadline of wait.c that bounds a sleep.               *)
(*                                                                         *)
(* The block layer admits one caller at a time, so there is one driver     *)
(* thread; what runs beside it is the device, its interrupt, and the       *)
(* timer's callback.  Whatever b->lock covers is one action.  The free     *)
(* list is the sequence the `next` fields thread; the payload of a request *)
(* is left out, and what is kept is whether the device has carried it out. *)
(***************************************************************************)
EXTENDS Integers, Sequences, SequencesExt, FiniteSets

CONSTANTS
    QueueSize,    \* descriptors, and slots of the used ring
    Lengths,      \* descriptors in a chain: 3, or 2 for a request without data
    IdxSpace,     \* 2^16: where the ring indexes wrap
    GenSpace,     \* 2^32: where the deadline's generation wraps
    LateAnswers,  \* may the device answer a request run() has given up?
    Fresh,        \* is the deadline as it is before its first arming?
    None

ASSUME VirtioAssumption ==
    /\ QueueSize \in Nat \ {0}
    /\ Lengths \subseteq {2, 3}
    /\ IdxSpace \in Nat /\ IdxSpace % QueueSize = 0 /\ IdxSpace > QueueSize
    /\ GenSpace \in Nat /\ GenSpace > 2
    /\ {LateAnswers, Fresh} \subseteq BOOLEAN
    /\ None \notin Nat

VARIABLES
    interrupting, \* was the device given a vector?  settled when it is found
    pc,         \* where run() is
    mine,       \* the head of the chain run() submitted
    collected,  \* did it collect a completion?
    over,       \* has the two-second limit of this request passed?
    outcome,    \* what the last run() returned
    free,       \* the free list, head first
    chain,      \* the descriptors chained behind each head in use
    posted,     \* heads the device has been given and not completed
    ring, used_idx, last_used,   \* the used ring and its two indexes
    status,     \* the status byte all requests share
    irq,        \* the interrupt for what is not collected: none, sent or lost
    generation, armed_for, expired_at,  \* struct wait_deadline
    filed,      \* its timer is on the wheel
    callback    \* the arming whose callback has been started, or None

queueVars == <<free, chain, posted, ring, used_idx, last_used>>
clockVars == <<generation, armed_for, expired_at, filed, callback>>
vars == <<interrupting, pc, mine, collected, over, outcome, queueVars, status, irq, clockVars>>

Descriptors == 0..(QueueSize - 1)
Gens == 0..(GenSpace - 1)

Init ==
    /\ interrupting \in BOOLEAN
    /\ pc = "idle" /\ mine = None /\ collected = FALSE
    /\ over = FALSE /\ outcome = "none"
    /\ free = [i \in 1..QueueSize |-> i - 1]
    /\ chain = [d \in Descriptors |-> <<>>]
    /\ posted = {}
    /\ ring = [i \in Descriptors |-> 0] /\ used_idx = 0 /\ last_used = 0
    /\ status = "untouched" /\ irq = "none"
    /\ generation = (IF Fresh THEN 0 ELSE 1)
    /\ armed_for = (IF Fresh THEN 0 ELSE 2)
    /\ expired_at = 0 /\ filed = FALSE /\ callback = None

\* virtqueue_submit, for a chain of n descriptors off the free list.
virtqueue_submit(n) ==
    LET head == Head(free)
    IN  /\ free' = SubSeq(free, n + 1, Len(free))
        /\ chain' = [chain EXCEPT ![head] = SubSeq(free, 1, n)]
        /\ posted' = posted \cup {head}
        /\ mine' = head

\* run, as far as the notify: three descriptors, or two without data.
Submit(n) ==
    /\ pc = "idle"
    /\ status' = "untouched"
    /\ IF n > Len(free)
       THEN /\ outcome' = "busy"
            /\ UNCHANGED <<pc, mine, free, chain, posted>>
       ELSE /\ virtqueue_submit(n)
            /\ pc' = "arm"
            /\ outcome' = "none"
    /\ UNCHANGED <<interrupting, collected, over, ring, used_idx, last_used, irq, clockVars>>

\* wait_deadline_arm, as far as timer_start: not under the lock.
wait_deadline_arm ==
    /\ pc = "arm"
    /\ interrupting
    /\ generation' = (generation + 1) % GenSpace
    /\ filed' = TRUE
    /\ pc' = "armed"
    /\ UNCHANGED <<interrupting, mine, collected, over, outcome, queueVars, status, irq, armed_for, expired_at, callback>>

\* And its last line, after the timer is filed.  The deadline's timer is never
\* pending here and 50 ms is in the wheel's reach, so timer_start has not
\* refused, and `armed` is `interrupting`.
ArmNamed ==
    /\ pc = "armed"
    /\ armed_for' = generation
    /\ pc' = "look"
    /\ UNCHANGED <<interrupting, mine, collected, over, outcome, queueVars, status, irq, generation, expired_at, filed, callback>>

\* A device without a vector is not waited on with a deadline.
NotArmed ==
    /\ pc = "arm"
    /\ ~interrupting
    /\ pc' = "look"
    /\ UNCHANGED <<interrupting, mine, collected, over, outcome, queueVars, status, irq, clockVars>>

wait_deadline_passed == armed_for = generation /\ expired_at = generation

\* Mutant: a released chain goes back without its last descriptor.
virtqueue_release_short(head) ==
    free' = Reverse(Front(chain[head])) \o free

\* virtqueue_release: each descriptor of the chain to the front in turn.
virtqueue_release(head) ==
    free' = Reverse(chain[head]) \o free

\* virtqueue_collect, which found used_idx # last_used, and the release of
\* the chain that completion was for, whichever it is.  The slot is not read
\* again before the device writes it again.
virtqueue_collect ==
    LET head == ring[last_used % QueueSize]
    IN  /\ last_used' = (last_used + 1) % IdxSpace
        /\ virtqueue_release(head)
        /\ chain' = [chain EXCEPT ![head] = <<>>]
        /\ ring' = [ring EXCEPT ![last_used % QueueSize] = 0]
        /\ collected' = TRUE
        /\ irq' = IF irq = "lost" /\ last_used' = used_idx THEN "none" ELSE irq
        /\ pc' = "disarm"
        /\ UNCHANGED <<posted, used_idx>>

\* Mutant: the collect and the sleep are under two acquisitions of the lock.
LookUnlocked ==
    /\ pc = "look"
    /\ \/ used_idx # last_used /\ virtqueue_collect
       \/ /\ collected' = FALSE
          /\ pc' \in {"disarm"} \cup (IF interrupting /\ ~wait_deadline_passed THEN {"asleep"} ELSE {})
          /\ UNCHANGED <<queueVars, irq>>
    /\ UNCHANGED <<interrupting, mine, over, outcome, status, clockVars>>

\* collect_or_wait under the lock: collect, or go to sleep if the caller is a
\* thread that can.
Look ==
    /\ pc = "look"
    /\ IF used_idx # last_used THEN virtqueue_collect
       ELSE /\ collected' = FALSE
            /\ pc' \in {"disarm"} \cup (IF interrupting /\ ~wait_deadline_passed THEN {"asleep"} ELSE {})
            /\ UNCHANGED <<queueVars, irq>>
    /\ UNCHANGED <<interrupting, mine, over, outcome, status, clockVars>>

\* wait_deadline_disarm, first half: timer_cancel, which may have lost.
wait_deadline_disarm ==
    /\ pc = "disarm"
    /\ interrupting
    /\ filed' = FALSE
    /\ pc' = "retire"
    /\ UNCHANGED <<interrupting, mine, collected, over, outcome, queueVars, status, irq, generation, armed_for, expired_at, callback>>

\* Second half: the arming is retired.
Retire ==
    /\ pc = "retire"
    /\ armed_for' = (generation + 1) % GenSpace
    /\ pc' = "back"
    /\ UNCHANGED <<interrupting, mine, collected, over, outcome, queueVars, status, irq, generation, expired_at, filed, callback>>

NothingToDisarm ==
    /\ pc = "disarm"
    /\ ~interrupting
    /\ pc' = "back"
    /\ UNCHANGED <<interrupting, mine, collected, over, outcome, queueVars, status, irq, clockVars>>

\* run returns: its locals are gone.
Returns(answer) ==
    /\ outcome' = answer
    /\ mine' = None
    /\ pc' = "idle"
    /\ collected' = FALSE
    /\ over' = FALSE

\* run's loop: the limit has passed, and the descriptors stay with the device.
GiveUp ==
    /\ pc = "back"
    /\ ~collected
    /\ over
    /\ Returns("timeout")
    /\ UNCHANGED <<interrupting, queueVars, status, irq, clockVars>>

Again ==
    /\ pc = "back"
    /\ ~collected
    /\ ~over
    /\ pc' = "arm"
    /\ UNCHANGED <<interrupting, mine, collected, over, outcome, queueVars, status, irq, clockVars>>

\* Something was collected, and the status byte says how it went.
Answer ==
    /\ pc = "back"
    /\ collected
    /\ Returns(IF status = "ok" THEN "ok" ELSE "error")
    /\ UNCHANGED <<interrupting, queueVars, status, irq, clockVars>>

\* The device carries out what a head it was given names, writes the status
\* byte, and only then moves the index; requests finish in any order.
DeviceCompletes(h, s) ==
    /\ h \in posted
    /\ h # mine => LateAnswers
    /\ posted' = posted \ {h}
    /\ status' = s
    /\ ring' = [ring EXCEPT ![used_idx % QueueSize] = h]
    /\ used_idx' = (used_idx + 1) % IdxSpace
    /\ irq' \in IF ~interrupting \/ irq = "sent" THEN {irq} ELSE {"sent", "lost"}
    /\ UNCHANGED <<interrupting, pc, mine, collected, over, outcome, free, chain,
                   last_used, clockVars>>

\* The sleeper is told to look again.
WakeAll == pc' = IF pc = "asleep" THEN "disarm" ELSE pc

blk_interrupt ==
    /\ irq = "sent"
    /\ irq' = "none"
    /\ WakeAll
    /\ UNCHANGED <<interrupting, mine, collected, over, outcome, queueVars, status, clockVars>>

\* The tick takes the timer off the wheel and starts its callback.
TimerFires ==
    /\ filed
    /\ callback = None
    /\ filed' = FALSE
    /\ callback' = generation
    /\ UNCHANGED <<interrupting, pc, mine, collected, over, outcome, queueVars, status,
                   irq, generation, armed_for, expired_at>>

\* Mutant: the callback records the deadline and wakes nobody.
deadline_reached_quiet ==
    /\ callback # None
    /\ callback' = None
    /\ expired_at' = armed_for
    /\ UNCHANGED <<interrupting, pc, mine, collected, over, outcome, queueVars, status,
                   irq, generation, armed_for, filed>>

\* The callback has the lock.
deadline_reached ==
    /\ callback # None
    /\ callback' = None
    /\ expired_at' = armed_for
    /\ WakeAll
    /\ UNCHANGED <<interrupting, mine, collected, over, outcome, queueVars, status,
                   irq, generation, armed_for, filed>>

\* Two seconds go by.
TimePasses ==
    /\ pc # "idle"
    /\ ~over
    /\ over' = TRUE
    /\ UNCHANGED <<interrupting, pc, mine, collected, outcome, queueVars, status, irq, clockVars>>

DriverStep ==
    \/ wait_deadline_arm \/ ArmNamed \/ NotArmed \/ Look
    \/ wait_deadline_disarm \/ Retire \/ NothingToDisarm
    \/ GiveUp \/ Again \/ Answer

Next ==
    \/ (\E n \in Lengths : Submit(n))
    \/ DriverStep
    \/ (\E h \in posted, s \in {"ok", "ioerr"} : DeviceCompletes(h, s))
    \/ blk_interrupt \/ TimerFires \/ deadline_reached \/ TimePasses

\* The thread is scheduled, an interrupt that is on its way arrives, the tick
\* goes on and time passes.  The device owes nothing.
Fairness ==
    /\ WF_vars(DriverStep)
    /\ WF_vars(blk_interrupt)
    /\ WF_vars(TimerFires)
    /\ WF_vars(deadline_reached)
    /\ WF_vars(TimePasses)

Spec == Init /\ [][Next]_vars /\ Fairness

-----------------------------------------------------------------------------

Places == {"idle", "arm", "armed", "look", "asleep", "disarm", "retire", "back"}

\* The variables hold what the fields of the structures hold.
TypeOK ==
    /\ interrupting \in BOOLEAN
    /\ pc \in Places
    /\ mine \in Descriptors \cup {None}
    /\ collected \in BOOLEAN /\ over \in BOOLEAN
    /\ outcome \in {"none", "busy", "timeout", "ok", "error"}
    /\ free \in Seq(Descriptors) /\ Len(free) <= QueueSize
    /\ chain \in [Descriptors -> Seq(Descriptors)]
    /\ posted \subseteq Descriptors
    /\ ring \in [Descriptors -> Descriptors]
    /\ used_idx \in 0..(IdxSpace - 1) /\ last_used \in 0..(IdxSpace - 1)
    /\ status \in {"untouched", "ok", "ioerr"}
    /\ irq \in {"none", "sent", "lost"} /\ filed \in BOOLEAN
    /\ {generation, armed_for, expired_at} \subseteq Gens
    /\ callback \in Gens \cup {None}

\* The heads whose completion the device has written and nobody has collected.
Completed ==
    {ring[(last_used + i) % QueueSize] : i \in 0..(((used_idx - last_used) % IdxSpace) - 1)}

\* Every descriptor is in exactly one place: free, or on one chain that the
\* device still owns or whose completion waits.  Memory the disk may still
\* write is not handed out again, and none is lost, whatever times out.
EveryDescriptorOnce ==
    \A d \in Descriptors :
        Cardinality({i \in 1..Len(free) : free[i] = d})
          + Cardinality({l \in (posted \cup Completed) \X (1..3) :
                            /\ l[2] <= Len(chain[l[1]])
                            /\ chain[l[1]][l[2]] = d}) = 1

\* No completion is lost between collecting and sleeping (collect_or_wait):
\* a thread asleep over a completion has an interrupt on its way, unless the
\* interrupt was lost and the deadline is what wakes it.
NoMissedCompletion == pc = "asleep" /\ used_idx # last_used => irq # "none"

\* Claimed of run: "Runs one request to completion."  It returns ok only for a
\* request the device has carried out.
OkMeansCarriedOut == [][pc # "idle" /\ pc' = "idle" /\ outcome' = "ok" => mine \notin posted]_vars

\* "A device that goes silent fails after two seconds whether or not it had an
\* interrupt to offer" (run): whatever the device and its interrupt do, the
\* caller gets an answer.
AlwaysReturns == pc # "idle" ~> pc = "idle"

=============================================================================
