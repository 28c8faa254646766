----------------------------- MODULE TimerWheel -----------------------------
(***************************************************************************)
(* The hierarchical timer wheel of kernel/core/timer.c.                    *)
(*                                                                         *)
(* A timer's place on the wheel is its level and slot; the order of timers *)
(* within one slot is left open.  Ticks are counted modulo 2^TickBits as   *)
(* the code counts them modulo 2^64, and compared by signed difference.    *)
(* What timer_lock makes atomic is one action.  timer_tick drops the lock  *)
(* around each callback, so the rest of the slot it is working through, a  *)
(* chain it reaches through its local `next`, is state others can touch.   *)
(***************************************************************************)
EXTENDS Integers, Sequences, FiniteSets

CONSTANTS
    Timers,       \* the timers there are
    Turners,      \* contexts that can be inside timer_tick at one moment
    WHEEL_BITS, WHEEL_LEVELS,
    TickBits,     \* width of a tick count
    Delays,       \* the delays asked for, in ticks
    MaxLag,       \* bound on how far turning the wheel falls behind the clock
    CancelRaces,  \* may timer_cancel come between two callbacks of a slot?
    Nowhere       \* on no list

ASSUME WheelAssumption ==
    /\ WHEEL_BITS \in Nat \ {0}
    /\ WHEEL_LEVELS \in Nat \ {0}
    /\ TickBits \in Nat
    /\ WHEEL_BITS * WHEEL_LEVELS < TickBits
    /\ MaxLag \in Nat
    /\ MaxLag + 2^(WHEEL_BITS * WHEEL_LEVELS) < 2^(TickBits - 1)
    /\ CancelRaces \in BOOLEAN
ASSUME TimersAssumption == IsFiniteSet(Timers) /\ Delays \subseteq Nat

VARIABLES
    clock,        \* time_ticks()
    wheel_now,    \* the tick whose slot is turned next
    place_of,     \* <<level, index>> of each filed timer, or Nowhere
    expires,      \* timer->expires; 0 once nothing reads it again
    asked,        \* the tick at which the delay asked for is over, by the clock
    pending,      \* timer->pending
    due,          \* for each turner, the chain it has still to run
    stopped       \* timers whose last timer_cancel returned true

timer_vars == <<clock, wheel_now, place_of, expires, asked, pending, due, stopped>>

WHEEL_SIZE  == 2^WHEEL_BITS
WHEEL_REACH == 2^(WHEEL_BITS * WHEEL_LEVELS)
TickSpace   == 2^TickBits
Ticks       == 0..(TickSpace - 1)
Levels      == 0..(WHEEL_LEVELS - 1)

\* (i64)(a - b) of two tick counts.
Diff(a, b) ==
    LET d == (a - b) % TickSpace
    IN  IF d < TickSpace \div 2 THEN d ELSE d - TickSpace

ASSUME NowhereAssumption == Nowhere \notin Levels \X (0..(WHEEL_SIZE - 1))

\* The slot of level l that tick count n falls in.
SlotAt(l, n) == <<l, (n \div 2^(WHEEL_BITS * l)) % WHEEL_SIZE>>

\* The finest level whose one turn reaches delta ticks ahead.
LevelFor(delta) ==
    CHOOSE l \in Levels :
        /\ delta < 2^(WHEEL_BITS * (l + 1)) \/ l = WHEEL_LEVELS - 1
        /\ \A k \in 0..(l - 1) : delta >= 2^(WHEEL_BITS * (k + 1))

\* place: where a timer that expires at e is filed when the hand is at now.
place(e, now) ==
    LET delta == Diff(e, now)
    IN  IF delta <= 0 THEN SlotAt(0, now) ELSE SlotAt(LevelFor(delta), e)

TimerInit ==
    /\ clock = 0
    /\ wheel_now = 0
    /\ place_of = [t \in Timers |-> Nowhere]
    /\ expires = [t \in Timers |-> 0]
    /\ asked = [t \in Timers |-> 0]
    /\ pending = [t \in Timers |-> FALSE]
    /\ due = [c \in Turners |-> <<>>]
    /\ stopped = {}

\* The clock runs on its own.  The hand, and a chain being worked through,
\* are behind it by at most MaxLag.
ClockTicks ==
    /\ Diff(clock, wheel_now) < MaxLag
    /\ \A c \in Turners : \A i \in 1..Len(due[c]) :
         Diff(clock, expires[due[c][i]]) < MaxLag
    /\ clock' = (clock + 1) % TickSpace
    /\ UNCHANGED <<wheel_now, place_of, expires, asked, pending, due, stopped>>

\* Mutant: filed from the hand, not from the clock (KF-206).
FiledFromHand == wheel_now

\* Filed from the clock; from the hand only when the hand is ahead of it.
FiledFrom == IF Diff(clock, wheel_now) < 0 THEN wheel_now ELSE clock

\* timer_start, for a delay already rounded up to whole ticks.
timer_start(t, delay) ==
    LET ticks == IF delay = 0 THEN 1 ELSE delay
        e     == (FiledFrom + ticks) % TickSpace
    IN  /\ ticks < WHEEL_REACH
        /\ ~pending[t]
        /\ (e - wheel_now) % TickSpace < WHEEL_REACH
        /\ expires' = [expires EXCEPT ![t] = e]
        /\ asked' = [asked EXCEPT ![t] = (clock + delay) % TickSpace]
        /\ pending' = [pending EXCEPT ![t] = TRUE]
        /\ place_of' = [place_of EXCEPT ![t] = place(e, wheel_now)]
        /\ stopped' = stopped \ {t}
        /\ UNCHANGED <<clock, wheel_now, due>>

\* unlink_from a chain that turner c is working through.  The entry its
\* local `next` points at is still run, and now ends the chain: what hung
\* behind it is on no list.  An entry further back is taken out cleanly.
Unchain(c, t) ==
    LET s == due[c]
    IN  IF \A i \in 1..Len(s) : s[i] # t THEN s
        ELSE IF Head(s) = t THEN <<t>>
        ELSE SelectSeq(s, LAMBDA u : u # t)

InChain(t) == \E c \in Turners : \E i \in 1..Len(due[c]) : due[c][i] = t

timer_cancel(t) ==
    /\ pending[t]
    /\ InChain(t) => CancelRaces
    /\ pending' = [pending EXCEPT ![t] = FALSE]
    /\ place_of' = [place_of EXCEPT ![t] = Nowhere]
    /\ due' = [c \in Turners |-> Unchain(c, t)]
    /\ stopped' = stopped \cup {t}
    /\ expires' = [expires EXCEPT ![t] = 0]
    /\ asked' = [asked EXCEPT ![t] = 0]
    /\ UNCHANGED <<clock, wheel_now>>

\* The levels whose hand moves when the hand of level 0 is about to turn the
\* slot of tick n: each one whose finer levels have all come round.
Advancing(n) == {l \in Levels \ {0} : \A k \in 0..(l - 1) : SlotAt(k, n)[2] = 0}

\* Mutant: only the level next to the finest is ever emptied.
cascade_one ==
    [t \in Timers |->
        IF \E l \in Advancing(wheel_now) \cap {1} : place_of[t] = SlotAt(l, wheel_now)
        THEN place(expires[t], wheel_now)
        ELSE place_of[t]]

\* cascade, for every level whose hand moves: the slots under the hands are
\* emptied back into the finer levels.
cascade ==
    [t \in Timers |->
        IF \E l \in Advancing(wheel_now) : place_of[t] = SlotAt(l, wheel_now)
        THEN place(expires[t], wheel_now)
        ELSE place_of[t]]

Orders(S) == {s \in [1..Cardinality(S) -> S] :
                 \A i, j \in 1..Cardinality(S) : s[i] = s[j] => i = j}

\* Mutant: `next` is read after the callback, from an entry already unlinked.
RunFirstReadLate(c, s) ==
    IF s = <<>> THEN UNCHANGED <<pending, due, expires, asked>>
    ELSE /\ pending' = [pending EXCEPT ![Head(s)] = FALSE]
         /\ due' = [due EXCEPT ![c] = <<>>]
         /\ expires' = [expires EXCEPT ![Head(s)] = 0]
         /\ asked' = [asked EXCEPT ![Head(s)] = 0]

\* The next entry of the chain s is marked fired, and its callback runs with
\* the lock dropped while the rest waits.
RunFirst(c, s) ==
    IF s = <<>> THEN UNCHANGED <<pending, due, expires, asked>>
    ELSE /\ pending' = [pending EXCEPT ![Head(s)] = FALSE]
         /\ due' = [due EXCEPT ![c] = Tail(s)]
         /\ expires' = [expires EXCEPT ![Head(s)] = 0]
         /\ asked' = [asked EXCEPT ![Head(s)] = 0]

\* Mutant: an empty slot is a reason to return before the hand has moved.
timer_tick_early(c) ==
    /\ due[c] = <<>>
    /\ Diff(clock, wheel_now) >= 0
    /\ LET filed == cascade
           ripe  == {t \in Timers : filed[t] = SlotAt(0, wheel_now)}
       IN  /\ ripe # {}
           /\ place_of' = [t \in Timers |-> IF t \in ripe THEN Nowhere ELSE filed[t]]
           /\ \E s \in Orders(ripe) : RunFirst(c, s)
    /\ wheel_now' = (wheel_now + 1) % TickSpace
    /\ UNCHANGED <<clock, stopped>>

\* One turn of timer_tick's loop: cascade, detach the slot, move the hand,
\* and run the first timer in it.
timer_tick(c) ==
    /\ due[c] = <<>>
    /\ Diff(clock, wheel_now) >= 0
    /\ LET filed == cascade
           ripe  == {t \in Timers : filed[t] = SlotAt(0, wheel_now)}
       IN  /\ place_of' = [t \in Timers |-> IF t \in ripe THEN Nowhere ELSE filed[t]]
           /\ \E s \in Orders(ripe) : RunFirst(c, s)
    /\ wheel_now' = (wheel_now + 1) % TickSpace
    /\ UNCHANGED <<clock, stopped>>

\* Back from a callback: the timer `next` was read from is run.
RunNext(c) ==
    /\ due[c] # <<>>
    /\ RunFirst(c, due[c])
    /\ UNCHANGED <<clock, wheel_now, place_of, stopped>>

TimerNext ==
    \/ ClockTicks
    \/ \E t \in Timers : timer_cancel(t) \/ \E d \in Delays : timer_start(t, d)
    \/ \E c \in Turners : timer_tick(c) \/ RunNext(c)

\* The clock never stops; the tick interrupt comes back for ever, and a
\* callback returns.
TimerFairness ==
    /\ WF_timer_vars(ClockTicks)
    /\ \A c \in Turners : WF_timer_vars(timer_tick(c)) /\ WF_timer_vars(RunNext(c))

TimerSpec == TimerInit /\ [][TimerNext]_timer_vars /\ TimerFairness

-----------------------------------------------------------------------------

\* The variables hold what the wheel and the timers on it hold.
TimerTypeOK ==
    /\ clock \in Ticks
    /\ wheel_now \in Ticks
    /\ place_of \in [Timers -> (Levels \X (0..(WHEEL_SIZE - 1))) \cup {Nowhere}]
    /\ expires \in [Timers -> Ticks]
    /\ asked \in [Timers -> Ticks]
    /\ pending \in [Timers -> BOOLEAN]
    /\ due \in [Turners -> Seq(Timers)]
    /\ stopped \subseteq Timers

\* The hand never passes a filed timer: whatever level it was filed on, and
\* however often it was cascaded, it is still ahead of the hand (place,
\* cascade; a timer behind the hand waits for a whole turn of the wheel).
NeverPassed == \A t \in Timers : place_of[t] # Nowhere => Diff(expires[t], wheel_now) >= 0

\* A pending timer is somewhere it will be run from: in a slot, or on a chain
\* that is being worked through (timer_tick, unlink_from).
NoneLost == \A t \in Timers : pending[t] => place_of[t] # Nowhere \/ InChain(t)

\* The timers a step runs: it takes them off the wheel or a chain to do so.
Fired(t) == pending[t] /\ ~pending'[t] /\ t \notin stopped'

\* A timer is never run before the delay its caller asked for has passed by
\* the clock, however far the hand is behind when it is filed, across the
\* levels and the wrap of the tick count (timer_start, place, KF-204, KF-206).
NeverEarly == [][\A t \in Timers : Fired(t) => Diff(clock, asked[t]) >= 0]_timer_vars

\* Every pending timer is run or cancelled.
AllRun == \A t \in Timers : pending[t] ~> ~pending[t]

\* Claimed by timer.h of timer_cancel: "Returns true if it was still pending
\* -- that is, if this call is what stopped it from running."  A timer it
\* stopped is not run by a later step of timer_tick.
CancelStops ==
    [][\A c \in Turners : RunNext(c) => Head(due[c]) \notin stopped]_timer_vars

=============================================================================
