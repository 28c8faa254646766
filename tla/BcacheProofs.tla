---------------------------- MODULE BcacheProofs ----------------------------
(***************************************************************************)
(* Proofs about Bcache.  For any number of threads, entries, units, blocks *)
(* and pages, and whatever callers do at once: a unit has one entry, a     *)
(* page that is being filled is nobody else's and no page is lost.  When   *)
(* callers keep to one writer of a unit and do not write past the cache    *)
(* while others use the unit (Overlaps = {}), the cache is coherent and    *)
(* every read is fresh.                                                    *)
(*                                                                         *)
(* Coherence needs more than itself: what a VALID entry holds in a block   *)
(* is what the disk holds there, or what a write that has reached the      *)
(* device and not the cache has just replaced.  The same must hold of what *)
(* a reader has loaded and nobody has poisoned, since it is VALID next.    *)
(***************************************************************************)
EXTENDS Bcache, FiniteSetTheorems, WellFoundedInduction, TLAPS

-----------------------------------------------------------------------------
(* The inductive invariant, whatever callers do at once.                   *)

Filling == {"fill", "filled", "unfilled"}
Reading == {"lookup", "page", "install", "uncached", "return"} \cup Filling

Fillers == {t \in Threads : call[t].pc \in Filling}
Spares  == {t \in Threads : call[t].spare}
Paged   == {e \in Entries : entries[e].page}

\* What a thread is doing agrees with what it was asked.
CallsOK ==
    \A t \in Threads :
      /\ call[t].pc = "idle" <=> call[t].unit = None
      /\ call[t].pc = "idle" <=> call[t].kind = None
      /\ call[t].pc \in Reading <=> call[t].kind = "read"
      /\ call[t].spare => call[t].kind = "read" /\ call[t].pc # "page"
      /\ call[t].pc = "update" =>
           call[t].kind = "cached" /\ call[t].got \in [Blocks -> Values]

\* A VALID entry has a page with something on it, a LOADING one has a page.
EntriesOK ==
    \A e \in Entries :
      /\ entries[e].state # "EMPTY" => entries[e].unit \in Units /\ entries[e].page
      /\ entries[e].state = "VALID" => entries[e].data \in [Blocks -> Values]

\* A unit has one entry.
UnitOnce ==
    \A e, f \in Entries :
      /\ entries[e].state # "EMPTY" /\ entries[f].state # "EMPTY"
      /\ entries[e].unit = entries[f].unit
      => e = f

\* An entry is LOADING exactly while one thread fills it.
FillingOK ==
    /\ \A t \in Fillers :
         /\ call[t].entry \in Entries
         /\ entries[call[t].entry].state = "LOADING"
         /\ entries[call[t].entry].unit = call[t].unit
         /\ call[t].pc = "filled" =>
              entries[call[t].entry].data \in [Blocks -> Values]
    /\ \A t, x \in Fillers : call[t].entry = call[x].entry => t = x
    /\ \A e \in Entries : entries[e].state = "LOADING" =>
         \E t \in Fillers : call[t].entry = e

\* No page is lost or held twice.
PagesOK == free_pages + Cardinality(Paged) + Cardinality(Spares) = MaxPages

IInv == /\ TypeOK
        /\ CallsOK
        /\ EntriesOK
        /\ UnitOnce
        /\ FillingOK
        /\ PagesOK

-----------------------------------------------------------------------------
(* What is added when callers keep to one writer of a unit.                *)

\* A unit has one writer at most, and one that goes past the cache is alone.
Solo ==
    \A t, x \in Threads :
      call[t].unit # None /\ call[t].unit = call[x].unit /\ t # x =>
        /\ call[t].kind # "raw"
        /\ ~(call[t].kind \in Writers /\ call[x].kind \in Writers)

\* The unit is not cached when a raw transfer reaches the device.
RawOK ==
    \A t \in Threads, e \in Entries :
      call[t].kind = "raw" /\ call[t].pc = "transfer"
        /\ entries[e].state # "EMPTY" => entries[e].unit # call[t].unit

\* What a write is about to put in the cache is on the disk.
WrittenOK ==
    \A t \in Threads : call[t].pc = "update" =>
      \A b \in call[t].part : disk[call[t].unit][b] = call[t].value

\* What is on the disk, or has just been replaced there by a write that has
\* not reached the cache.
Recent == [u \in Units |-> [b \in Blocks |-> Held(u, b)]]

\* What answers reads, or is about to, is recent.
ValidOK ==
    \A e \in Entries, b \in Blocks :
      entries[e].state = "VALID" => entries[e].data[b] \in Recent[entries[e].unit][b]

FilledOK ==
    \A t \in Threads, b \in Blocks :
      call[t].pc = "filled" /\ ~entries[call[t].entry].poisoned =>
        entries[call[t].entry].data[b] \in Recent[call[t].unit][b]

\* A reader may return all that is recent, what it has loaded itself although
\* poisoned, and what it is returning.
FreshOK ==
    \A t \in Threads : call[t].kind = "read" =>
      \A b \in call[t].part :
        /\ Recent[call[t].unit][b] \subseteq fresh[t][b]
        /\ call[t].pc = "filled" => entries[call[t].entry].data[b] \in fresh[t][b]
        /\ call[t].pc = "return" => call[t].got[b] \in fresh[t][b]

CInv == /\ Solo
        /\ RawOK
        /\ WrittenOK
        /\ ValidOK
        /\ FilledOK
        /\ FreshOK

-----------------------------------------------------------------------------
(* Facts about the operators.                                              *)

\* The least member of a set of numbers is a member of it.
LEMMA MinIsIn ==
    ASSUME NEW S \in SUBSET Nat, S # {}
    PROVE  Min(S) \in S
<1> DEFINE R == {ss \in Nat \X Nat : ss[1] < ss[2]}
<1>1. OpToRel(<, Nat) = R
  BY Zenon DEF OpToRel
<1>2. IsWellFoundedOn(R, Nat)
  BY <1>1, NatLessThanWellFounded, Zenon
<1>3. PICK x \in S : \A y \in S : ~(<<y, x>> \in R)
  <2> HIDE DEF R
  <2> QED BY <1>2, WFMin, Zenon
<1>4. ASSUME NEW y \in S PROVE x <= y
  <2>1. y < x => <<y, x>> \in R
    OBVIOUS
  <2>2. ~(y < x)
    BY <1>3, <2>1
  <2> QED
    BY <2>2
<1> QED
  BY <1>4 DEF Min

\* The entries with a page and the threads with a spare one can be counted.
LEMMA Counted ==
    /\ IsFiniteSet(Paged) /\ Cardinality(Paged) \in Nat
    /\ IsFiniteSet(Spares) /\ Cardinality(Spares) \in Nat
<1>1. IsFiniteSet(Entries) /\ Paged \subseteq Entries
  <2>1. 0 \in Int /\ BCACHE_UNITS - 1 \in Int
    BY BcacheAssumption
  <2> QED
    BY <2>1, FS_Interval DEF Entries, Paged
<1>2. IsFiniteSet(Threads) /\ Spares \subseteq Threads
  BY BcacheAssumption DEF Spares
<1> QED
  BY <1>1, <1>2, FS_Subset, FS_CardinalityType

LEMMA EntryTypes ==
    /\ EmptyEntry \in Entry
    /\ \A r \in Entry :
         /\ forgotten(r) \in Entry /\ forgotten(r).state = "EMPTY"
         /\ forgotten(r).page = r.page
    /\ \A r \in Entry :
         /\ Dropped(r) \in Entry /\ Dropped(r).page = r.page
         /\ r.state = "LOADING" =>
              /\ Dropped(r).state = "LOADING" /\ Dropped(r).unit = r.unit
              /\ Dropped(r).data = r.data /\ Dropped(r).poisoned
         /\ r.state # "LOADING" => Dropped(r).state = "EMPTY"
BY DEF Entry, EmptyEntry, forgotten, Dropped

\* The clock stops at an entry that nobody is filling, and all it does to the
\* ones it passed is to clear their reference.
LEMMA ClockStops ==
    ASSUME IInv, HasVictim
    PROVE  /\ victim \in Entries /\ HandAfter \in Entries
           /\ entries[victim].state # "LOADING"
           /\ Swept \in [Entries -> Entry]
           /\ Swept[victim] = forgotten(entries[victim])
           /\ \A e \in Entries : e # victim =>
                /\ Swept[e].state = entries[e].state /\ Swept[e].unit = entries[e].unit
                /\ Swept[e].page = entries[e].page /\ Swept[e].data = entries[e].data
                /\ Swept[e].poisoned = entries[e].poisoned
<1>1. BCACHE_UNITS \in Nat \ {0} /\ hand \in 0 .. BCACHE_UNITS - 1
  BY BcacheAssumption DEF IInv, TypeOK, Entries
<1>2. \A i \in Nat : At(i) \in Entries
  BY <1>1 DEF At, Entries
<1>3. Min(Stops) \in Stops /\ Min(Stops) \in Nat
  <2>1. Stops \in SUBSET Nat
    BY <1>1 DEF Stops
  <2> QED
    BY <2>1, MinIsIn DEF HasVictim
<1>4. victim \in Entries /\ HandAfter \in Entries
  BY <1>2, <1>3 DEF victim, HandAfter
<1>5. entries[victim].state # "LOADING"
  BY <1>3 DEF victim, Stops, StopsHand
<1>6. entries \in [Entries -> Entry]
  BY DEF IInv, TypeOK
<1>7. \A e \in Entries :
        Swept[e] \in {entries[e], [entries[e] EXCEPT !.referenced = FALSE],
                      forgotten(entries[e])}
  BY DEF Swept
<1>8. \A r \in Entry : /\ [r EXCEPT !.referenced = FALSE] \in Entry
                       /\ [r EXCEPT !.referenced = FALSE].state = r.state
                       /\ [r EXCEPT !.referenced = FALSE].unit = r.unit
                       /\ [r EXCEPT !.referenced = FALSE].page = r.page
                       /\ [r EXCEPT !.referenced = FALSE].data = r.data
                       /\ [r EXCEPT !.referenced = FALSE].poisoned = r.poisoned
  BY DEF Entry
<1>9. Swept \in [Entries -> Entry]
  <2>1. \A e \in Entries : Swept[e] \in Entry
    BY <1>6, <1>7, <1>8, EntryTypes
  <2> QED
    BY <2>1 DEF Swept
<1>10. \A e \in Entries : e # victim =>
         Swept[e] \in {entries[e], [entries[e] EXCEPT !.referenced = FALSE]}
  BY DEF Swept
<1>11. Swept[victim] = forgotten(entries[victim])
  BY <1>4 DEF Swept
<1> QED
  BY <1>4, <1>5, <1>6, <1>8, <1>9, <1>10, <1>11

\* What the steps of a call make of it.
LEMMA CallTypes ==
    ASSUME IInv, NEW t \in Threads
    PROVE  /\ Idle \in Call
           /\ \A p \in Steps : Goes(t, p) =>
                /\ call' \in [Threads -> Call] /\ call'[t].pc = p
                /\ call'[t].kind = call[t].kind /\ call'[t].unit = call[t].unit
                /\ call'[t].part = call[t].part /\ call'[t].entry = call[t].entry
                /\ call'[t].spare = call[t].spare /\ call'[t].value = call[t].value
                /\ call'[t].got = call[t].got
                /\ \A x \in Threads : x # t => call'[x] = call[x]
           /\ \A data \in [Blocks -> Values] : call' = Returns(t, data) =>
                /\ call' \in [Threads -> Call] /\ call'[t].pc = "return"
                /\ call'[t].kind = call[t].kind /\ call'[t].unit = call[t].unit
                /\ call'[t].part = call[t].part /\ call'[t].spare = call[t].spare
                /\ \A b \in call[t].part : call'[t].got[b] = data[b]
                /\ \A x \in Threads : x # t => call'[x] = call[x]
           /\ Ends(t) =>
                /\ call' \in [Threads -> Call] /\ call'[t] = Idle
                /\ \A x \in Threads : x # t => call'[x] = call[x]
                /\ fresh' \in [Threads -> [Blocks -> SUBSET Values]]
                /\ \A x \in Threads : x # t => fresh'[x] = fresh[x]
<1>1. call \in [Threads -> Call] /\ call[t] \in Call
  BY DEF IInv, TypeOK
<1>2. Idle \in Call
  BY BcacheAssumption DEF Idle, Call, Steps, Buffer, Values
<1>3. ASSUME NEW p \in Steps, Goes(t, p)
      PROVE  /\ call' \in [Threads -> Call] /\ call'[t].pc = p
             /\ call'[t].kind = call[t].kind /\ call'[t].unit = call[t].unit
             /\ call'[t].part = call[t].part /\ call'[t].entry = call[t].entry
             /\ call'[t].spare = call[t].spare /\ call'[t].value = call[t].value
             /\ call'[t].got = call[t].got
             /\ \A x \in Threads : x # t => call'[x] = call[x]
  <2>1. [call[t] EXCEPT !.pc = p] \in Call
    BY <1>1 DEF Call
  <2>2. call' = [call EXCEPT ![t] = [call[t] EXCEPT !.pc = p]]
    BY <1>3 DEF Goes
  <2> QED
    BY <1>1, <2>1, <2>2 DEF Call
<1>4. ASSUME NEW data \in [Blocks -> Values], call' = Returns(t, data)
      PROVE  /\ call' \in [Threads -> Call] /\ call'[t].pc = "return"
             /\ call'[t].kind = call[t].kind /\ call'[t].unit = call[t].unit
             /\ call'[t].part = call[t].part /\ call'[t].spare = call[t].spare
             /\ \A b \in call[t].part : call'[t].got[b] = data[b]
             /\ \A x \in Threads : x # t => call'[x] = call[x]
  <2> DEFINE g == [b \in call[t].part |-> data[b]]
  <2>1. g \in Buffer
    <3>1. call[t].part \in SUBSET Blocks
      BY <1>1 DEF Call
    <3>2. g \in [call[t].part -> Values]
      BY <3>1
    <3> HIDE DEF g
    <3> QED
      BY <3>1, <3>2 DEF Buffer
  <2>2. call' = [call EXCEPT ![t] = [call[t] EXCEPT !.pc = "return", !.got = g]]
    BY <1>1, <1>4 DEF Returns, Call
  <2>3. \A b \in call[t].part : g[b] = data[b]
    OBVIOUS
  <2> HIDE DEF g
  <2>4. [call[t] EXCEPT !.pc = "return", !.got = g] \in Call
    BY <1>1, <2>1 DEF Call, Steps
  <2> QED
    BY <1>1, <2>2, <2>3, <2>4 DEF Call
<1>5. Ends(t) => /\ call' \in [Threads -> Call] /\ call'[t] = Idle
                 /\ \A x \in Threads : x # t => call'[x] = call[x]
                 /\ fresh' \in [Threads -> [Blocks -> SUBSET Values]]
                 /\ \A x \in Threads : x # t => fresh'[x] = fresh[x]
  BY <1>1, <1>2 DEF Ends, IInv, TypeOK
<1> QED
  BY <1>2, <1>3, <1>4, <1>5

\* What a thread is asked for while it is not idle.
LEMMA Asked ==
    ASSUME IInv, NEW t \in Threads
    PROVE  /\ call[t] \in Call /\ call[t].part \subseteq Blocks
           /\ call[t].pc # "idle" => call[t].unit \in Units
           /\ call[t].unit \in Units => disk[call[t].unit] \in [Blocks -> Values]
           /\ call[t].pc \in Steps /\ call[t].spare \in BOOLEAN
           /\ fresh[t] \in [Blocks -> SUBSET Values]
BY DEF IInv, TypeOK, CallsOK, Call

\* What is recent changes only with the disk and with the writes on their way.
LEMMA SameRecent ==
    ASSUME UNCHANGED disk,
           \A x \in Threads : call[x].pc = "update" \/ call'[x].pc = "update"
                                => call'[x] = call[x]
    PROVE  Recent' = Recent
<1>1. ASSUME NEW u \in Units, NEW b \in Blocks
      PROVE  Held(u, b)' = Held(u, b)
  <2>1. {y \in Threads : call'[y].unit = u /\ call'[y].pc = "update" /\ b \in call'[y].part}
         = {y \in Threads : call[y].unit = u /\ call[y].pc = "update" /\ b \in call[y].part}
    OBVIOUS
  <2>2. \A x \in {y \in Threads : call[y].unit = u /\ call[y].pc = "update"
                                   /\ b \in call[y].part} :
          call'[x].got[b] = call[x].got[b]
    OBVIOUS
  <2> QED
    BY <2>1, <2>2 DEF Held
<1> QED
  BY <1>1 DEF Recent

LEMMA RecentMeans ==
    ASSUME NEW u \in Units, NEW b \in Blocks, NEW v
    PROVE  /\ v \in Recent[u][b] <=>
                \/ v = disk[u][b]
                \/ \E x \in Threads : /\ call[x].pc = "update" /\ call[x].unit = u
                                      /\ b \in call[x].part /\ v = call[x].got[b]
           /\ v \in Recent'[u][b] <=>
                \/ v = disk'[u][b]
                \/ \E x \in Threads : /\ call'[x].pc = "update" /\ call'[x].unit = u
                                      /\ b \in call'[x].part /\ v = call'[x].got[b]
BY DEF Recent, Held

-----------------------------------------------------------------------------
(* Steps that take no entry: what is kept whatever callers do at once.     *)

\* Entries are left as they are or forgotten, unless they are being filled,
\* and no fill begins or ends.
LEMMA EntriesStay ==
    ASSUME IInv, entries' \in [Entries -> Entry],
           \A e \in Entries :
             /\ entries'[e].page = entries[e].page
             /\ \/ /\ entries'[e].state = entries[e].state
                   /\ entries'[e].unit = entries[e].unit
                   /\ \/ entries'[e].data = entries[e].data
                      \/ /\ entries[e].state = "VALID"
                         /\ entries'[e].data \in [Blocks -> Values]
                \/ entries'[e].state = "EMPTY" /\ entries[e].state # "LOADING",
           \A x \in Threads :
             /\ call'[x].pc \in Filling <=> call[x].pc \in Filling
             /\ call[x].pc \in Filling => call'[x] = call[x]
    PROVE  EntriesOK' /\ UnitOnce' /\ FillingOK' /\ Paged' = Paged
<1>1. EntriesOK'
  BY DEF IInv, EntriesOK
<1>2. UnitOnce'
  BY DEF IInv, UnitOnce
<1>3. FillingOK'
  <2>1. Fillers' = Fillers
    BY DEF Fillers
  <2>2. \A t \in Fillers : t \in Threads /\ call'[t] = call[t]
    BY DEF Fillers
  <2>3. \A t \in Fillers : /\ call[t].entry \in Entries
                           /\ entries[call[t].entry].state = "LOADING"
    BY DEF IInv, FillingOK
  <2>4. \A e \in Entries : /\ entries'[e].state = "LOADING" <=> entries[e].state = "LOADING"
                           /\ entries[e].state = "LOADING" =>
                                /\ entries'[e].unit = entries[e].unit
                                /\ entries'[e].data = entries[e].data
    OBVIOUS
  <2> QED
    BY <2>1, <2>2, <2>3, <2>4 DEF IInv, FillingOK
<1>4. Paged' = Paged
  BY DEF Paged
<1> QED
  BY <1>1, <1>2, <1>3, <1>4

\* A call's own record changes, and nobody begins or ends a fill.
LEMMA CallMoves ==
    ASSUME IInv, NEW t \in Threads, UNCHANGED entries,
           call[t].pc \notin Filling, call'[t].pc \notin Filling,
           \A x \in Threads : x # t => call'[x] = call[x]
    PROVE  EntriesOK' /\ UnitOnce' /\ FillingOK' /\ Paged' = Paged
<1>1. entries' \in [Entries -> Entry]
  BY DEF IInv, TypeOK
<1> QED
  BY <1>1, EntriesStay

\* A spare page that a call gives back is counted once.
LEMMA EndsCounts ==
    ASSUME IInv, NEW t \in Threads, Ends(t), Paged' = Paged
    PROVE  PagesOK' /\ free_pages' \in 0 .. MaxPages
<1>1. /\ call'[t] = Idle /\ \A x \in Threads : x # t => call'[x] = call[x]
      /\ free_pages' = free_pages + (IF call[t].spare THEN 1 ELSE 0)
      /\ free_pages \in Nat /\ call[t].spare \in BOOLEAN /\ MaxPages \in Nat
  BY CallTypes, Asked, BcacheAssumption DEF Ends, IInv, TypeOK
<1>2. Spares' = Spares \ {t}
  BY <1>1 DEF Spares, Idle
<1>3. t \in Spares <=> call[t].spare
  BY DEF Spares
<1>4. free_pages + Cardinality(Paged) + Cardinality(Spares) = MaxPages
  BY DEF IInv, PagesOK
<1>5. CASE call[t].spare
  <2>1. Cardinality(Spares') = Cardinality(Spares) - 1 /\ Cardinality(Spares') \in Nat
    BY <1>2, <1>3, <1>5, Counted, FS_RemoveElement, FS_CardinalityType
  <2>2. Cardinality(Paged') = Cardinality(Paged)
    OBVIOUS
  <2> QED
    BY <1>1, <1>4, <1>5, <2>1, <2>2, Counted DEF PagesOK
<1>6. CASE ~call[t].spare
  <2>1. Spares' = Spares
    BY <1>2, <1>3, <1>6
  <2> QED
    BY <1>1, <1>4, <1>6, <2>1, Counted DEF PagesOK
<1> QED
  BY <1>1, <1>5, <1>6

LEMMA StartKeeps ==
    ASSUME IInv, NEW t \in Threads, NEW k \in {"read"} \cup Writers, NEW u \in Units,
           NEW part \in SUBSET Blocks, Start(t, k, u, part)
    PROVE  IInv'
<1> DEFINE c == [Idle EXCEPT !.kind = k, !.unit = u, !.part = part,
                             !.pc = IF k = "read" THEN "lookup" ELSE "invalidate"]
<1>1. /\ call[t].pc = "idle" /\ call' = [call EXCEPT ![t] = c]
      /\ UNCHANGED <<disk, entries, hand, free_pages, writes>>
  BY DEF Start
<1>2. /\ c.kind = k /\ c.unit = u /\ c.part = part /\ ~c.spare
      /\ c.pc = (IF k = "read" THEN "lookup" ELSE "invalidate") /\ c \in Call
  BY CallTypes DEF Idle, Call, Steps, Writers
<1> HIDE DEF c
<1>3. /\ call' \in [Threads -> Call] /\ call'[t] = c
      /\ \A x \in Threads : x # t => call'[x] = call[x]
  BY <1>1, <1>2 DEF IInv, TypeOK
<1>4. EntriesOK' /\ UnitOnce' /\ FillingOK' /\ Paged' = Paged
  BY <1>1, <1>2, <1>3, CallMoves DEF Filling
<1>5. CallsOK'
  BY <1>2, <1>3, BcacheAssumption DEF IInv, CallsOK, Reading, Filling, Writers
<1>6. PagesOK'
  <2>1. ~call[t].spare
    BY <1>1, BcacheAssumption DEF IInv, CallsOK
  <2>2. Spares' = Spares
    BY <1>2, <1>3, <2>1 DEF Spares
  <2> QED
    BY <1>1, <1>4, <2>2 DEF IInv, PagesOK
<1>7. TypeOK'
  <2>1. \A b \in Blocks : Held(u, b) \subseteq Values
    <3>1. \A b \in Blocks : disk[u][b] \in Values
      BY DEF IInv, TypeOK
    <3>2. ASSUME NEW b \in Blocks, NEW y \in Threads, call[y].pc = "update"
          PROVE  call[y].got[b] \in Values
      BY <3>2 DEF IInv, CallsOK
    <3> QED
      BY <3>1, <3>2 DEF Held
  <2>2. [b \in Blocks |-> IF k = "read" /\ b \in part THEN Held(u, b) ELSE {}]
          \in [Blocks -> SUBSET Values]
    BY <2>1
  <2>3. fresh' \in [Threads -> [Blocks -> SUBSET Values]]
    BY <2>2 DEF Start, IInv, TypeOK
  <2> QED
    BY <1>1, <1>3, <2>3 DEF IInv, TypeOK
<1> QED
  BY <1>4, <1>5, <1>6, <1>7 DEF IInv

\* A read that goes on to its next step, or to read past the cache.
LEMMA GoesKeeps ==
    ASSUME IInv, NEW t \in Threads, NEW p, Goes(t, p),
           \/ /\ call[t].pc \in {"lookup", "page", "install"}
              /\ p \in {"lookup", "page", "install", "uncached"}
              /\ p = "page" => ~call[t].spare
           \/ call[t].pc = "invalidate" /\ p = "transfer",
           UNCHANGED <<disk, entries, hand, free_pages, writes, fresh>>
    PROVE  IInv'
<1>1. /\ call' \in [Threads -> Call] /\ call'[t].pc = p
      /\ call'[t].kind = call[t].kind /\ call'[t].unit = call[t].unit
      /\ call'[t].spare = call[t].spare
      /\ \A x \in Threads : x # t => call'[x] = call[x]
  <2>1. p \in Steps
    BY DEF Steps
  <2> QED
    BY <2>1, CallTypes
<1>2. EntriesOK' /\ UnitOnce' /\ FillingOK' /\ Paged' = Paged
  BY <1>1, CallMoves DEF Filling
<1>3. CallsOK'
  BY <1>1 DEF IInv, CallsOK, Reading, Filling
<1>4. Spares' = Spares
  BY <1>1 DEF Spares
<1>5. PagesOK'
  BY <1>2, <1>4 DEF IInv, PagesOK
<1>6. TypeOK'
  BY <1>1 DEF IInv, TypeOK
<1> QED
  BY <1>2, <1>3, <1>5, <1>6 DEF IInv

\* Lookup: what VALID entries hold can be returned.
LEMMA LookupKeeps ==
    ASSUME IInv, NEW t \in Threads, Lookup(t)
    PROVE  IInv'
<1>1. CASE \E e \in find(call[t].unit) : /\ entries[e].state = "VALID"
                                         /\ entries' = [entries EXCEPT ![e].referenced = TRUE]
                                         /\ call' = Returns(t, entries[e].data)
  <2>1. PICK e \in find(call[t].unit) :
          /\ entries[e].state = "VALID"
          /\ entries' = [entries EXCEPT ![e].referenced = TRUE]
          /\ call' = Returns(t, entries[e].data)
    BY <1>1
  <2>2. /\ call[t].pc = "lookup"
        /\ UNCHANGED <<disk, hand, free_pages, writes, fresh>>
    BY DEF Lookup
  <2>3. e \in Entries /\ entries[e] \in Entry /\ entries[e].data \in [Blocks -> Values]
    BY <2>1 DEF IInv, TypeOK, EntriesOK, find
  <2>4. /\ entries' \in [Entries -> Entry]
        /\ \A f \in Entries : /\ entries'[f].page = entries[f].page
                              /\ entries'[f].state = entries[f].state
                              /\ entries'[f].unit = entries[f].unit
                              /\ entries'[f].data = entries[f].data
    <3>1. [entries[e] EXCEPT !.referenced = TRUE] \in Entry
      BY <2>3 DEF Entry
    <3>2. entries' = [entries EXCEPT ![e] = [entries[e] EXCEPT !.referenced = TRUE]]
      BY <2>1
    <3> QED
      BY <2>3, <3>1, <3>2 DEF IInv, TypeOK, Entry
  <2>5. /\ call' \in [Threads -> Call] /\ call'[t].pc = "return"
        /\ call'[t].kind = call[t].kind /\ call'[t].unit = call[t].unit
        /\ call'[t].spare = call[t].spare
        /\ \A x \in Threads : x # t => call'[x] = call[x]
    BY <2>1, <2>3, CallTypes
  <2>6. EntriesOK' /\ UnitOnce' /\ FillingOK' /\ Paged' = Paged
    BY <2>2, <2>4, <2>5, EntriesStay DEF Filling
  <2>7. CallsOK'
    BY <2>2, <2>5 DEF IInv, CallsOK, Reading, Filling
  <2>8. Spares' = Spares
    BY <2>5 DEF Spares
  <2>9. PagesOK' /\ TypeOK'
    BY <2>2, <2>4, <2>5, <2>6, <2>8 DEF IInv, PagesOK, TypeOK
  <2> QED
    BY <2>6, <2>7, <2>9 DEF IInv
<1>2. CASE \E p \in {"uncached", "page", "install"} :
             Goes(t, p) /\ UNCHANGED entries /\ (p = "page" => ~call[t].spare)
  <2>1. PICK p \in {"uncached", "page", "install"} :
             Goes(t, p) /\ UNCHANGED entries /\ (p = "page" => ~call[t].spare)
    BY <1>2
  <2>2. call[t].pc = "lookup" /\ UNCHANGED <<disk, hand, free_pages, writes, fresh>>
    BY DEF Lookup
  <2> QED
    BY <2>1, <2>2, GoesKeeps
<1> QED
  BY <1>1, <1>2 DEF Lookup

LEMMA GetPageKeeps ==
    ASSUME IInv, NEW t \in Threads, GetPage(t)
    PROVE  IInv'
<1>1. CASE free_pages = 0
  BY <1>1, GoesKeeps DEF GetPage
<1>2. CASE free_pages # 0
  <2>1. /\ call[t].pc = "page" /\ free_pages' = free_pages - 1
        /\ call' = [call EXCEPT ![t].pc = "install", ![t].spare = TRUE]
        /\ UNCHANGED <<disk, entries, hand, writes, fresh>>
    BY <1>2 DEF GetPage
  <2>2. /\ call' \in [Threads -> Call] /\ call'[t].pc = "install" /\ call'[t].spare
        /\ call'[t].kind = call[t].kind /\ call'[t].unit = call[t].unit
        /\ \A x \in Threads : x # t => call'[x] = call[x]
    <3>1. call[t] \in Call
      BY Asked
    <3>2. [call[t] EXCEPT !.pc = "install", !.spare = TRUE] \in Call
      BY <3>1 DEF Call, Steps
    <3>3. call' = [call EXCEPT ![t] = [call[t] EXCEPT !.pc = "install", !.spare = TRUE]]
      BY <2>1, <3>1 DEF IInv, TypeOK, Call
    <3> QED
      BY <3>1, <3>2, <3>3 DEF IInv, TypeOK, Call
  <2>3. EntriesOK' /\ UnitOnce' /\ FillingOK' /\ Paged' = Paged
    BY <2>1, <2>2, CallMoves DEF Filling
  <2>4. CallsOK'
    BY <2>1, <2>2 DEF IInv, CallsOK, Reading, Filling
  <2>5. Spares' = Spares \cup {t} /\ t \notin Spares
    BY <2>1, <2>2 DEF IInv, CallsOK, Spares
  <2>6. Cardinality(Spares') = Cardinality(Spares) + 1
    BY <2>5, Counted, FS_AddElement
  <2>7. free_pages \in 0 .. MaxPages /\ MaxPages \in Nat
    BY BcacheAssumption DEF IInv, TypeOK
  <2>8. PagesOK'
    <3>1. free_pages + Cardinality(Paged) + Cardinality(Spares) = MaxPages
      BY DEF IInv, PagesOK
    <3>2. Cardinality(Paged') = Cardinality(Paged)
      BY <2>3
    <3> QED
      BY <2>1, <2>6, <2>7, <3>1, <3>2, Counted DEF PagesOK
  <2>9. TypeOK'
    <3>1. free_pages' \in 0 .. MaxPages
      BY <1>2, <2>1, <2>7
    <3> QED
      BY <2>1, <2>2, <3>1 DEF IInv, TypeOK
  <2> QED
    BY <2>3, <2>4, <2>8, <2>9 DEF IInv
<1> QED
  BY <1>1, <1>2

-----------------------------------------------------------------------------
(* Steps that take, fill and let go of entries.                            *)

\* Taking an entry: the unit had none, and nobody fills the victim.
LEMMA TakeKeeps ==
    ASSUME IInv, NEW t \in Threads, Install(t), ~Again(t), HasVictim,
           entries[victim].page \/ call[t].spare
    PROVE  IInv'
<1> DEFINE v == victim
<1> DEFINE r == [Swept[v] EXCEPT !.state = "LOADING", !.unit = call[t].unit,
                                 !.referenced = TRUE, !.page = TRUE]
<1> DEFINE s == call[t].spare /\ entries[v].page
<1>1. /\ call[t].pc = "install" /\ hand' = HandAfter
      /\ entries' = [Swept EXCEPT ![v] = r]
      /\ call' = [call EXCEPT ![t].pc = "fill", ![t].entry = v, ![t].spare = s]
      /\ UNCHANGED <<disk, free_pages, writes, fresh>>
  BY DEF Install
<1>2. /\ v \in Entries /\ HandAfter \in Entries /\ entries[v].state # "LOADING"
      /\ Swept \in [Entries -> Entry] /\ entries[v] \in Entry
      /\ \A e \in Entries : e # v =>
           /\ Swept[e].state = entries[e].state /\ Swept[e].unit = entries[e].unit
           /\ Swept[e].page = entries[e].page /\ Swept[e].data = entries[e].data
           /\ Swept[e].poisoned = entries[e].poisoned
  BY ClockStops DEF IInv, TypeOK
<1>3. call[t].unit \in Units /\ call[t] \in Call
  BY <1>1, Asked
<1>4. /\ r \in Entry /\ r.state = "LOADING" /\ r.unit = call[t].unit /\ r.page
  <2>1. Swept[v] \in Entry
    BY <1>2
  <2> QED
    BY <1>3, <2>1 DEF Entry
<1>5. s \in BOOLEAN
  BY <1>2, <1>3 DEF Call, Entry
<1> HIDE DEF v, r, s
<1>6. /\ entries' \in [Entries -> Entry] /\ entries'[v] = r
      /\ \A e \in Entries : e # v => entries'[e] = Swept[e]
  BY <1>1, <1>2, <1>4
<1>7. /\ call' \in [Threads -> Call] /\ call'[t].pc = "fill" /\ call'[t].entry = v
      /\ call'[t].kind = call[t].kind /\ call'[t].unit = call[t].unit
      /\ call'[t].part = call[t].part /\ call'[t].spare = s
      /\ \A x \in Threads : x # t => call'[x] = call[x]
  <2>1. [call[t] EXCEPT !.pc = "fill", !.entry = v, !.spare = s] \in Call
    BY <1>2, <1>3, <1>5 DEF Call, Steps
  <2>2. call' = [call EXCEPT ![t] = [call[t] EXCEPT !.pc = "fill", !.entry = v, !.spare = s]]
    BY <1>1, <1>3 DEF IInv, TypeOK, Call
  <2> QED
    BY <1>3, <2>1, <2>2 DEF IInv, TypeOK, Call
<1>8. TypeOK'
  BY <1>1, <1>2, <1>6, <1>7 DEF IInv, TypeOK
<1>9. CallsOK'
  BY <1>1, <1>7 DEF IInv, CallsOK, Reading, Filling, s
<1>10. EntriesOK'
  BY <1>2, <1>3, <1>4, <1>6 DEF IInv, EntriesOK
<1>11. UnitOnce'
  <2>1. \A e \in Entries : entries[e].state # "EMPTY" => entries[e].unit # call[t].unit
    BY DEF Again, find
  <2> QED
    BY <1>2, <1>4, <1>6, <2>1 DEF IInv, UnitOnce
<1>12. FillingOK'
  <2>1. \A x \in Threads : x \in Fillers' <=> x \in Fillers \/ x = t
    BY <1>1, <1>7 DEF Fillers, Filling
  <2>2. t \notin Fillers
    BY <1>1 DEF Fillers, Filling
  <2>3. \A x \in Fillers : /\ x \in Threads /\ x # t /\ call'[x] = call[x]
                           /\ call[x].entry \in Entries /\ call[x].entry # v
                           /\ entries'[call[x].entry] = Swept[call[x].entry]
    BY <1>2, <1>6, <1>7, <2>2 DEF IInv, FillingOK, Fillers
  <2>4. \A x \in Fillers' :
          /\ call'[x].entry \in Entries
          /\ entries'[call'[x].entry].state = "LOADING"
          /\ entries'[call'[x].entry].unit = call'[x].unit
          /\ call'[x].pc = "filled" => entries'[call'[x].entry].data \in [Blocks -> Values]
    <3>1. ASSUME NEW x \in Fillers
          PROVE  /\ call'[x].entry \in Entries
                 /\ entries'[call'[x].entry].state = "LOADING"
                 /\ entries'[call'[x].entry].unit = call'[x].unit
                 /\ call'[x].pc = "filled" =>
                      entries'[call'[x].entry].data \in [Blocks -> Values]
      BY <1>2, <2>3 DEF IInv, FillingOK
    <3>2. Fillers' \subseteq Threads
      BY DEF Fillers
    <3> QED
      BY <1>2, <1>4, <1>6, <1>7, <2>1, <3>1, <3>2
  <2>5. \A x, y \in Fillers' : call'[x].entry = call'[y].entry => x = y
    <3>1. Fillers' \subseteq Threads
      BY DEF Fillers
    <3> QED
      BY <1>7, <2>1, <2>3, <3>1 DEF IInv, FillingOK
  <2>6. ASSUME NEW e \in Entries, entries'[e].state = "LOADING"
        PROVE  \E x \in Fillers' : call'[x].entry = e
    <3>1. CASE e = v
      BY <1>7, <2>1, <3>1
    <3>2. CASE e # v
      <4>1. entries[e].state = "LOADING"
        BY <1>2, <1>6, <2>6, <3>2
      <4>2. PICK x \in Fillers : call[x].entry = e
        BY <4>1 DEF IInv, FillingOK
      <4> QED
        BY <2>1, <2>3, <4>2
    <3> QED
      BY <3>1, <3>2
  <2> QED
    BY <2>4, <2>5, <2>6 DEF FillingOK
<1>13. PagesOK'
  <2>1. Paged' = Paged \cup {v} /\ (v \in Paged <=> entries[v].page)
    BY <1>2, <1>4, <1>6 DEF Paged
  <2>2. free_pages + Cardinality(Paged) + Cardinality(Spares) = MaxPages
    BY DEF IInv, PagesOK
  <2>3. free_pages \in Nat
    BY DEF IInv, TypeOK
  <2>4. CASE entries[v].page
    <3>1. Paged' = Paged
      BY <2>1, <2>4
    <3>2. Spares' = Spares
      BY <1>3, <1>7, <2>4 DEF Spares, s, Call
    <3> QED
      BY <1>1, <2>2, <3>1, <3>2 DEF PagesOK
  <2>5. CASE ~entries[v].page
    <3>1. call[t].spare
      BY <2>5 DEF v
    <3>2. Cardinality(Paged') = Cardinality(Paged) + 1
      BY <2>1, <2>5, Counted, FS_AddElement
    <3>3. Spares' = Spares \ {t} /\ t \in Spares
      BY <1>7, <2>5, <3>1 DEF Spares, s
    <3>4. Cardinality(Spares') = Cardinality(Spares) - 1
      BY <3>3, Counted, FS_RemoveElement
    <3> QED
      BY <1>1, <2>2, <2>3, <3>2, <3>4, Counted DEF PagesOK
  <2> QED
    BY <2>4, <2>5
<1> QED
  BY <1>8, <1>9, <1>10, <1>11, <1>12, <1>13 DEF IInv

LEMMA InstallKeeps ==
    ASSUME IInv, NEW t \in Threads, Install(t)
    PROVE  IInv'
<1>1. call[t].pc = "install" /\ UNCHANGED <<disk, free_pages, writes, fresh>>
  BY DEF Install
<1>2. CASE Again(t)
  BY <1>1, <1>2, GoesKeeps DEF Install
<1>3. CASE ~Again(t) /\ ~HasVictim
  BY <1>1, <1>3, GoesKeeps DEF Install
<1>4. CASE ~Again(t) /\ HasVictim /\ (entries[victim].page \/ call[t].spare)
  BY <1>4, TakeKeeps
<1>5. CASE ~Again(t) /\ HasVictim /\ ~(entries[victim].page \/ call[t].spare)
  <2>1. entries' = Swept /\ Goes(t, "uncached") /\ hand' = HandAfter
    BY <1>5 DEF Install
  <2>2. /\ victim \in Entries /\ hand' \in Entries /\ entries' \in [Entries -> Entry]
        /\ entries[victim].state # "LOADING" /\ entries[victim] \in Entry
        /\ entries'[victim] = forgotten(entries[victim])
        /\ \A e \in Entries : e # victim =>
             /\ entries'[e].state = entries[e].state /\ entries'[e].unit = entries[e].unit
             /\ entries'[e].page = entries[e].page /\ entries'[e].data = entries[e].data
    BY <1>5, <2>1, ClockStops DEF IInv, TypeOK
  <2>3. /\ call' \in [Threads -> Call] /\ call'[t].pc = "uncached"
        /\ call'[t].kind = call[t].kind /\ call'[t].unit = call[t].unit
        /\ call'[t].spare = call[t].spare
        /\ \A x \in Threads : x # t => call'[x] = call[x]
    <3>1. "uncached" \in Steps
      BY DEF Steps
    <3> QED
      BY <2>1, <3>1, CallTypes
  <2>4. EntriesOK' /\ UnitOnce' /\ FillingOK' /\ Paged' = Paged
    <3> HIDE DEF victim
    <3>1. \A e \in Entries :
             /\ entries'[e].page = entries[e].page
             /\ \/ /\ entries'[e].state = entries[e].state
                   /\ entries'[e].unit = entries[e].unit
                   /\ entries'[e].data = entries[e].data
                \/ entries'[e].state = "EMPTY" /\ entries[e].state # "LOADING"
      BY <2>2, EntryTypes
    <3> QED
      BY <1>1, <2>2, <2>3, <3>1, EntriesStay DEF Filling
  <2>5. CallsOK'
    BY <1>1, <2>3 DEF IInv, CallsOK, Reading, Filling
  <2>6. Spares' = Spares
    BY <2>3 DEF Spares
  <2>7. PagesOK' /\ TypeOK'
    BY <1>1, <2>2, <2>3, <2>4, <2>6 DEF IInv, PagesOK, TypeOK
  <2> QED
    BY <2>4, <2>5, <2>7 DEF IInv
<1> QED
  BY <1>2, <1>3, <1>4, <1>5

\* The entry a thread fills is its own: what the fill does there disturbs no
\* other entry and no other thread.
LEMMA FillKeeps ==
    ASSUME IInv, NEW t \in Threads, Fill(t)
    PROVE  IInv'
<1> DEFINE e == call[t].entry
<1>1. /\ call[t].pc = "fill" /\ UNCHANGED <<disk, hand, free_pages, writes, fresh>>
  BY DEF Fill
<1>2. /\ t \in Fillers /\ e \in Entries /\ entries[e].state = "LOADING"
      /\ entries[e] \in Entry /\ call[t].unit \in Units
      /\ disk[call[t].unit] \in [Blocks -> Values]
      /\ \A x \in Fillers : call[x].entry = e => x = t
  BY <1>1, Asked DEF IInv, TypeOK, FillingOK, Fillers, Filling
<1>3. PICK p \in {"filled", "unfilled"} :
        /\ Goes(t, p)
        /\ p = "filled" => entries' = [entries EXCEPT ![e].data = disk[call[t].unit]]
        /\ p = "unfilled" => entries' = entries
  BY DEF Fill
<1>4. /\ call' \in [Threads -> Call] /\ call'[t].pc = p /\ call'[t].entry = e
      /\ call'[t].kind = call[t].kind /\ call'[t].unit = call[t].unit
      /\ call'[t].spare = call[t].spare
      /\ \A x \in Threads : x # t => call'[x] = call[x]
  <2>1. p \in Steps
    BY DEF Steps
  <2> QED
    BY <1>3, <2>1, CallTypes
<1>5. /\ entries' \in [Entries -> Entry]
      /\ \A f \in Entries : /\ entries'[f].state = entries[f].state
                            /\ entries'[f].unit = entries[f].unit
                            /\ entries'[f].page = entries[f].page
                            /\ f # e => entries'[f] = entries[f]
      /\ p = "filled" => entries'[e].data \in [Blocks -> Values]
  <2>1. [entries[e] EXCEPT !.data = disk[call[t].unit]] \in Entry
    BY <1>2 DEF Entry
  <2>2. p = "filled" =>
          entries' = [entries EXCEPT ![e] = [entries[e] EXCEPT !.data = disk[call[t].unit]]]
    BY <1>3
  <2>3. CASE p = "filled"
    <3>1. /\ entries' \in [Entries -> Entry]
          /\ \A f \in Entries : f # e => entries'[f] = entries[f]
          /\ entries'[e] = [entries[e] EXCEPT !.data = disk[call[t].unit]]
      BY <1>2, <2>1, <2>2, <2>3 DEF IInv, TypeOK
    <3> QED
      BY <1>2, <3>1 DEF Entry
  <2>4. CASE p = "unfilled"
    BY <1>3, <2>4 DEF IInv, TypeOK
  <2> QED
    BY <2>3, <2>4
<1> HIDE DEF e
<1>6. TypeOK'
  BY <1>1, <1>4, <1>5 DEF IInv, TypeOK
<1>7. CallsOK'
  BY <1>1, <1>4 DEF IInv, CallsOK, Reading, Filling
<1>8. EntriesOK' /\ UnitOnce'
  BY <1>2, <1>5 DEF IInv, EntriesOK, UnitOnce
<1>9. FillingOK'
  <2>1. Fillers' = Fillers
    BY <1>1, <1>4 DEF Fillers, Filling
  <2>2. \A x \in Fillers : /\ x \in Threads /\ call'[x].entry = call[x].entry
                           /\ call'[x].unit = call[x].unit
                           /\ x # t => call'[x] = call[x] /\ call[x].entry # e
    BY <1>2, <1>4 DEF Fillers, e
  <2> QED
    BY <1>2, <1>4, <1>5, <2>1, <2>2 DEF IInv, FillingOK
<1>10. Paged' = Paged /\ Spares' = Spares
  BY <1>4, <1>5 DEF Paged, Spares
<1>11. PagesOK'
  BY <1>1, <1>10 DEF IInv, PagesOK
<1> QED
  BY <1>6, <1>7, <1>8, <1>9, <1>11 DEF IInv

\* A fill that ends lets go of its entry, which is VALID or EMPTY then.
LEMMA LetGo ==
    ASSUME IInv, NEW t \in Threads, call[t].pc \in Filling, call'[t].pc \notin Filling,
           \A x \in Threads : x # t => call'[x] = call[x],
           entries' \in [Entries -> Entry],
           \A f \in Entries : f # call[t].entry => entries'[f] = entries[f],
           LET r == entries'[call[t].entry]
           IN  /\ r.page = entries[call[t].entry].page
               /\ \/ r.state = "EMPTY"
                  \/ /\ r.state = "VALID" /\ r.unit = entries[call[t].entry].unit
                     /\ r.data \in [Blocks -> Values]
    PROVE  EntriesOK' /\ UnitOnce' /\ FillingOK' /\ Paged' = Paged
<1> DEFINE e == call[t].entry
<1>1. /\ t \in Fillers /\ e \in Entries /\ entries[e].state = "LOADING"
      /\ \A x \in Fillers : call[x].entry = e => x = t
  BY DEF IInv, FillingOK, Fillers
<1>2. \A f \in Entries : f # e => entries'[f] = entries[f]
  OBVIOUS
<1>3. /\ entries'[e].page = entries[e].page
      /\ \/ entries'[e].state = "EMPTY"
         \/ /\ entries'[e].state = "VALID" /\ entries'[e].unit = entries[e].unit
            /\ entries'[e].data \in [Blocks -> Values]
  OBVIOUS
<1>4. \A x \in Fillers : x # t => call[x].entry # e
  BY <1>1
<1> HIDE DEF e
<1>5. EntriesOK' /\ UnitOnce'
  BY <1>1, <1>2, <1>3 DEF IInv, EntriesOK, UnitOnce
<1>6. Paged' = Paged
  BY <1>1, <1>2, <1>3 DEF Paged
<1>7. FillingOK'
  <2>1. \A x \in Fillers' : x \in Fillers /\ x # t /\ x \in Threads /\ call'[x] = call[x]
    BY DEF Fillers
  <2>2. \A x \in Fillers : x # t => x \in Fillers'
    BY DEF Fillers
  <2>3. \A f \in Entries : entries'[f].state = "LOADING" => f # e
    BY <1>3
  <2>4. \A f \in Entries : entries'[f].state = "LOADING" =>
          \E x \in Fillers' : call'[x].entry = f
    <3>1. ASSUME NEW f \in Entries, entries'[f].state = "LOADING"
          PROVE  \E x \in Fillers' : call'[x].entry = f
      <4>1. f # e /\ entries[f].state = "LOADING"
        BY <1>2, <2>3, <3>1
      <4>2. PICK x \in Fillers : call[x].entry = f
        BY <4>1 DEF IInv, FillingOK
      <4> QED
        BY <2>1, <2>2, <4>1, <4>2 DEF e
    <3> QED
      BY <3>1
  <2> QED
    BY <1>2, <1>4, <2>1, <2>4, SMTT(30) DEF IInv, FillingOK
<1> QED
  BY <1>5, <1>6, <1>7

LEMMA FillDoneKeeps ==
    ASSUME IInv, NEW t \in Threads, FillDone(t)
    PROVE  IInv'
<1> DEFINE e == call[t].entry
<1> DEFINE r == IF Keeps(entries[e]) THEN [entries[e] EXCEPT !.state = "VALID"]
                                     ELSE forgotten(entries[e])
<1>1. /\ call[t].pc = "filled" /\ UNCHANGED <<disk, hand, free_pages, writes, fresh>>
      /\ call' = Returns(t, entries[e].data) /\ entries' = [entries EXCEPT ![e] = r]
  BY DEF FillDone
<1>2. /\ e \in Entries /\ entries[e] \in Entry /\ entries[e].data \in [Blocks -> Values]
  BY <1>1 DEF IInv, TypeOK, FillingOK, Fillers, Filling
<1>3. /\ r \in Entry /\ r.page = entries[e].page
      /\ \/ r.state = "EMPTY"
         \/ r.state = "VALID" /\ r.unit = entries[e].unit /\ r.data \in [Blocks -> Values]
  <2>1. /\ [entries[e] EXCEPT !.state = "VALID"] \in Entry
        /\ [entries[e] EXCEPT !.state = "VALID"].state = "VALID"
        /\ [entries[e] EXCEPT !.state = "VALID"].unit = entries[e].unit
        /\ [entries[e] EXCEPT !.state = "VALID"].page = entries[e].page
        /\ [entries[e] EXCEPT !.state = "VALID"].data = entries[e].data
    BY <1>2 DEF Entry
  <2> QED
    BY <1>2, <2>1, EntryTypes
<1> HIDE DEF r
<1>4. /\ entries' \in [Entries -> Entry] /\ entries'[e] = r
      /\ \A f \in Entries : f # e => entries'[f] = entries[f]
  BY <1>1, <1>2, <1>3 DEF IInv, TypeOK
<1>5. /\ call' \in [Threads -> Call] /\ call'[t].pc = "return"
      /\ call'[t].kind = call[t].kind /\ call'[t].unit = call[t].unit
      /\ call'[t].spare = call[t].spare
      /\ \A x \in Threads : x # t => call'[x] = call[x]
  BY <1>1, <1>2, CallTypes
<1>6. EntriesOK' /\ UnitOnce' /\ FillingOK' /\ Paged' = Paged
  BY <1>1, <1>3, <1>4, <1>5, LetGo DEF Filling
<1>7. CallsOK'
  <2>1. call[t].pc = "filled"
    BY <1>1
  <2> HIDE DEF e
  <2> QED
    BY <2>1, <1>5 DEF IInv, CallsOK, Reading, Filling
<1>8. Spares' = Spares
  BY <1>5 DEF Spares
<1>9. PagesOK' /\ TypeOK'
  BY <1>1, <1>4, <1>5, <1>6, <1>8 DEF IInv, PagesOK, TypeOK
<1> QED
  BY <1>6, <1>7, <1>9 DEF IInv

\* A call that ends leaves nothing behind.
LEMMA EndsKeeps ==
    ASSUME IInv, NEW t \in Threads, Ends(t), entries' \in [Entries -> Entry],
           EntriesOK' /\ UnitOnce' /\ FillingOK' /\ Paged' = Paged,
           hand' \in Entries, UNCHANGED <<disk, writes>>
    PROVE  IInv'
<1>1. /\ call' \in [Threads -> Call] /\ call'[t] = Idle
      /\ fresh' \in [Threads -> [Blocks -> SUBSET Values]]
      /\ \A x \in Threads : x # t => call'[x] = call[x]
  BY CallTypes
<1>2. PagesOK' /\ free_pages' \in 0 .. MaxPages
  BY EndsCounts
<1>3. CallsOK'
  BY <1>1, BcacheAssumption DEF IInv, CallsOK, Reading, Filling, Idle
<1>4. TypeOK'
  BY <1>1, <1>2 DEF IInv, TypeOK
<1> QED
  BY <1>2, <1>3, <1>4 DEF IInv

LEMMA FillFailedKeeps ==
    ASSUME IInv, NEW t \in Threads, FillFailed(t)
    PROVE  IInv'
<1> DEFINE e == call[t].entry
<1>1. /\ call[t].pc = "unfilled" /\ UNCHANGED <<disk, hand, writes>> /\ Ends(t)
      /\ entries' = [entries EXCEPT ![e] = forgotten(entries[e])]
  BY DEF FillFailed
<1>2. e \in Entries /\ entries[e] \in Entry
  BY <1>1 DEF IInv, TypeOK, FillingOK, Fillers, Filling
<1>3. /\ entries' \in [Entries -> Entry] /\ entries'[e] = forgotten(entries[e])
      /\ \A f \in Entries : f # e => entries'[f] = entries[f]
  BY <1>1, <1>2, EntryTypes DEF IInv, TypeOK
<1>4. /\ call'[t].pc = "idle" /\ \A x \in Threads : x # t => call'[x] = call[x]
  BY <1>1, CallTypes DEF Idle
<1>5. EntriesOK' /\ UnitOnce' /\ FillingOK' /\ Paged' = Paged
  BY <1>1, <1>2, <1>3, <1>4, EntryTypes, LetGo DEF Filling
<1>6. hand' \in Entries
  BY <1>1 DEF IInv, TypeOK
<1> QED
  BY <1>1, <1>3, <1>5, <1>6, EndsKeeps

LEMMA UncachedKeeps ==
    ASSUME IInv, NEW t \in Threads, Uncached(t) \/ Return(t)
    PROVE  IInv'
<1>1. /\ call[t].pc \in {"uncached", "return"} /\ UNCHANGED <<disk, entries, hand, writes>>
      /\ call'[t].pc \notin Filling => entries' \in [Entries -> Entry]
  BY DEF Uncached, Return, IInv, TypeOK
<1>2. CASE Ends(t)
  <2>1. /\ call'[t].pc = "idle" /\ \A x \in Threads : x # t => call'[x] = call[x]
    BY <1>2, CallTypes DEF Idle
  <2>2. EntriesOK' /\ UnitOnce' /\ FillingOK' /\ Paged' = Paged
    BY <1>1, <2>1, CallMoves DEF Filling
  <2>3. entries' \in [Entries -> Entry] /\ hand' \in Entries
    BY <1>1 DEF IInv, TypeOK
  <2> QED
    BY <1>1, <1>2, <2>2, <2>3, EndsKeeps
<1>3. CASE call[t].pc = "uncached" /\ call' = Returns(t, disk[call[t].unit])
             /\ UNCHANGED <<free_pages, fresh>>
  <2>1. disk[call[t].unit] \in [Blocks -> Values]
    BY <1>3, Asked
  <2>2. /\ call' \in [Threads -> Call] /\ call'[t].pc = "return"
        /\ call'[t].kind = call[t].kind /\ call'[t].unit = call[t].unit
        /\ call'[t].spare = call[t].spare
        /\ \A x \in Threads : x # t => call'[x] = call[x]
    BY <1>3, <2>1, CallTypes
  <2>3. call[t].pc = "uncached"
    BY <1>3
  <2>4. EntriesOK' /\ UnitOnce' /\ FillingOK' /\ Paged' = Paged
    BY <1>1, <2>2, <2>3, CallMoves DEF Filling
  <2>5. CallsOK'
    BY <2>2, <2>3 DEF IInv, CallsOK, Reading, Filling
  <2>6. Spares' = Spares
    BY <2>2 DEF Spares
  <2>7. PagesOK' /\ TypeOK'
    BY <1>1, <1>3, <2>2, <2>4, <2>6 DEF IInv, PagesOK, TypeOK
  <2> QED
    BY <2>4, <2>5, <2>7 DEF IInv
<1> QED
  BY <1>2, <1>3 DEF Uncached, Return

\* Invalidation forgets what nobody is filling.
LEMMA InvalidateKeeps ==
    ASSUME IInv, NEW t \in Threads, bcache_invalidate(t)
    PROVE  IInv'
<1>1. /\ call[t].pc = "invalidate" /\ Goes(t, "transfer")
      /\ UNCHANGED <<disk, hand, free_pages, writes, fresh>>
      /\ \A e \in Entries : entries'[e] \in {Dropped(entries[e]), entries[e]}
      /\ entries' \in [Entries -> Entry]
  <2>1. entries' = [e \in Entries |-> IF e \in find(call[t].unit) THEN Dropped(entries[e])
                                                                  ELSE entries[e]]
    BY DEF bcache_invalidate
  <2>2. \A e \in Entries : entries[e] \in Entry /\ Dropped(entries[e]) \in Entry
    BY EntryTypes DEF IInv, TypeOK
  <2> QED
    BY <2>1, <2>2 DEF bcache_invalidate
<1>2. /\ call' \in [Threads -> Call] /\ call'[t].pc = "transfer"
      /\ call'[t].kind = call[t].kind /\ call'[t].unit = call[t].unit
      /\ call'[t].spare = call[t].spare
      /\ \A x \in Threads : x # t => call'[x] = call[x]
  <2>1. "transfer" \in Steps
    BY DEF Steps
  <2> QED
    BY <1>1, <2>1, CallTypes
<1>3. \A e \in Entries : entries[e] \in Entry
  BY DEF IInv, TypeOK
<1>4. EntriesOK' /\ UnitOnce' /\ FillingOK' /\ Paged' = Paged
  <2>1. \A e \in Entries :
          /\ entries'[e].page = entries[e].page
          /\ \/ /\ entries'[e].state = entries[e].state
                /\ entries'[e].unit = entries[e].unit
                /\ entries'[e].data = entries[e].data
             \/ entries'[e].state = "EMPTY" /\ entries[e].state # "LOADING"
    BY <1>1, <1>3, EntryTypes
  <2> QED
    BY <1>1, <1>2, <2>1, EntriesStay DEF Filling
<1>5. CallsOK'
  <2>1. call[t].pc = "invalidate"
    BY <1>1
  <2> QED
    BY <1>2, <2>1 DEF IInv, CallsOK, Reading, Filling
<1>6. Spares' = Spares
  BY <1>2 DEF Spares
<1>7. PagesOK' /\ TypeOK'
  BY <1>1, <1>2, <1>4, <1>6 DEF IInv, PagesOK, TypeOK
<1> QED
  BY <1>4, <1>5, <1>7 DEF IInv

LEMMA DeviceKeeps ==
    ASSUME IInv, bcache_invalidate_device
    PROVE  IInv'
<1>1. /\ UNCHANGED <<disk, hand, free_pages, call, writes, fresh>>
      /\ \A e \in Entries : entries'[e] \in {Dropped(entries[e]), entries[e]}
      /\ entries' \in [Entries -> Entry]
  <2>1. \A e \in Entries : entries[e] \in Entry /\ Dropped(entries[e]) \in Entry
    BY EntryTypes DEF IInv, TypeOK
  <2> QED
    BY <2>1 DEF bcache_invalidate_device
<1>2. \A e \in Entries : entries[e] \in Entry
  BY DEF IInv, TypeOK
<1>3. EntriesOK' /\ UnitOnce' /\ FillingOK' /\ Paged' = Paged
  <2>1. \A e \in Entries :
          /\ entries'[e].page = entries[e].page
          /\ \/ /\ entries'[e].state = entries[e].state
                /\ entries'[e].unit = entries[e].unit
                /\ entries'[e].data = entries[e].data
             \/ entries'[e].state = "EMPTY" /\ entries[e].state # "LOADING"
    BY <1>1, <1>2, EntryTypes
  <2> QED
    BY <1>1, <2>1, EntriesStay
<1>4. CallsOK' /\ Spares' = Spares
  BY <1>1 DEF IInv, CallsOK, Spares
<1>5. PagesOK' /\ TypeOK'
  BY <1>1, <1>3, <1>4 DEF IInv, PagesOK, TypeOK
<1> QED
  BY <1>3, <1>4, <1>5 DEF IInv

\* bcache_reclaim takes the page of an entry that nobody is filling.
LEMMA ReclaimKeeps ==
    ASSUME IInv, bcache_reclaim
    PROVE  IInv'
<1> DEFINE e == Min(Reclaimable)
<1>1. e \in Reclaimable /\ e \in Entries
  <2>1. Reclaimable \in SUBSET Nat /\ Reclaimable # {} /\ Reclaimable \subseteq Entries
    BY DEF Reclaimable, Entries, bcache_reclaim
  <2> QED
    BY <2>1, MinIsIn
<1>2. /\ entries' = [entries EXCEPT ![e] = EmptyEntry] /\ free_pages' = free_pages + 1
      /\ UNCHANGED <<disk, hand, call, writes, fresh>>
  BY DEF bcache_reclaim
<1> HIDE DEF e
<1>3. entries[e].state # "LOADING" /\ entries[e].page
  BY <1>1 DEF Reclaimable
<1>4. /\ entries' \in [Entries -> Entry] /\ entries'[e] = EmptyEntry
      /\ \A f \in Entries : f # e => entries'[f] = entries[f]
  BY <1>1, <1>2, EntryTypes DEF IInv, TypeOK
<1>5. EntriesOK' /\ UnitOnce'
  BY <1>1, <1>4 DEF IInv, EntriesOK, UnitOnce, EmptyEntry
<1>6. FillingOK'
  <2>1. Fillers' = Fillers /\ UNCHANGED call
    BY <1>2 DEF Fillers
  <2>2. \A t \in Fillers : call[t].entry \in Entries /\ call[t].entry # e
    BY <1>3 DEF IInv, FillingOK
  <2>3. \A f \in Entries : entries'[f].state = "LOADING" => f # e
    BY <1>4 DEF EmptyEntry
  <2> QED
    BY <1>4, <2>1, <2>2, <2>3 DEF IInv, FillingOK
<1>7. CallsOK' /\ Spares' = Spares
  BY <1>2 DEF IInv, CallsOK, Spares
<1>8. PagesOK' /\ free_pages' \in 0 .. MaxPages
  <2>1. Paged' = Paged \ {e} /\ e \in Paged
    BY <1>1, <1>3, <1>4 DEF Paged, EmptyEntry
  <2>2. Cardinality(Paged') = Cardinality(Paged) - 1 /\ Cardinality(Paged') \in Nat
    BY <2>1, Counted, FS_RemoveElement, FS_CardinalityType
  <2>3. free_pages + Cardinality(Paged) + Cardinality(Spares) = MaxPages
    BY DEF IInv, PagesOK
  <2>4. free_pages \in Nat /\ MaxPages \in Nat
    BY BcacheAssumption DEF IInv, TypeOK
  <2>5. Cardinality(Spares') = Cardinality(Spares)
    BY <1>7
  <2> QED
    BY <1>2, <2>2, <2>3, <2>4, <2>5, Counted DEF PagesOK
<1>9. TypeOK'
  BY <1>2, <1>4, <1>8 DEF IInv, TypeOK
<1> QED
  BY <1>5, <1>6, <1>7, <1>8, <1>9 DEF IInv

\* What a transfer does to the disk, the history and the call.
LEMMA TransferDoes ==
    ASSUME IInv, NEW t \in Threads, Transfer(t)
    PROVE  \E done \in SUBSET call[t].part :
             /\ done = call[t].part \/ Fails(t)
             /\ disk' \in [Units -> [Blocks -> Values]]
             /\ \A u \in Units : u # call[t].unit => disk'[u] = disk[u]
             /\ \A b \in Blocks :
                  disk'[call[t].unit][b] = IF b \in done THEN writes + 1
                                                         ELSE disk[call[t].unit][b]
             /\ fresh' \in [Threads -> [Blocks -> SUBSET Values]]
             /\ \A x \in Threads, b \in Blocks :
                  fresh'[x][b] = IF call[x].unit = call[t].unit /\ b \in done
                                      /\ fresh[x][b] # {}
                                 THEN fresh[x][b] \cup {writes + 1} ELSE fresh[x][b]
             /\ call' \in [Threads -> Call]
             /\ \A x \in Threads : x # t => call'[x] = call[x]
             /\ \/ call'[t] = Idle
                \/ /\ done = call[t].part /\ call[t].kind = "cached"
                   /\ call'[t].pc = "update" /\ call'[t].value = writes + 1
                   /\ call'[t].got = disk[call[t].unit]
                   /\ call'[t].kind = "cached" /\ call'[t].unit = call[t].unit
                   /\ call'[t].part = call[t].part /\ call'[t].spare = call[t].spare
<1> DEFINE u == call[t].unit
<1> DEFINE w == writes + 1
<1>1. call[t].pc = "transfer" /\ writes < MaxWrites
  BY DEF Transfer
<1>2. PICK done \in SUBSET call[t].part :
        /\ done = call[t].part \/ Fails(t)
        /\ disk' = [disk EXCEPT ![u] = [b \in Blocks |-> IF b \in done THEN w ELSE disk[u][b]]]
        /\ fresh' = [x \in Threads |-> [b \in Blocks |->
             IF call[x].unit = u /\ b \in done /\ fresh[x][b] # {}
             THEN fresh[x][b] \cup {w} ELSE fresh[x][b]]]
        /\ call' = [call EXCEPT ![t] =
             IF done = call[t].part /\ call[t].kind = "cached"
             THEN [call[t] EXCEPT !.pc = "update", !.value = w, !.got = disk[u]]
             ELSE Idle]
  BY DEF Transfer
<1>3. /\ u \in Units /\ call[t] \in Call /\ w \in Values /\ disk[u] \in [Blocks -> Values]
      /\ call[t].part \subseteq Blocks
  BY <1>1, Asked, BcacheAssumption DEF IInv, TypeOK, Values
<1> DEFINE c == [call[t] EXCEPT !.pc = "update", !.value = w, !.got = disk[u]]
<1>4. /\ c \in Call /\ c.pc = "update" /\ c.value = w /\ c.got = disk[u]
      /\ c.kind = call[t].kind /\ c.unit = call[t].unit /\ c.part = call[t].part
      /\ c.spare = call[t].spare
  <2>1. disk[u] \in Buffer
    BY <1>3 DEF Buffer
  <2> HIDE DEF u, w
  <2> QED
    BY <1>3, <2>1 DEF Call, Steps
<1> HIDE DEF c
<1>5. call' = [call EXCEPT ![t] = IF done = call[t].part /\ call[t].kind = "cached" THEN c
                                                                                    ELSE Idle]
  BY <1>2 DEF c
<1>6. /\ call' \in [Threads -> Call]
      /\ \A x \in Threads : x # t => call'[x] = call[x]
      /\ call'[t] = IF done = call[t].part /\ call[t].kind = "cached" THEN c ELSE Idle
  BY <1>4, <1>5, CallTypes DEF IInv, TypeOK
<1> HIDE DEF w, u
<1>7. /\ disk' \in [Units -> [Blocks -> Values]]
      /\ \A x \in Units : x # u => disk'[x] = disk[x]
      /\ \A b \in Blocks : disk'[u][b] = IF b \in done THEN w ELSE disk[u][b]
  BY <1>2, <1>3 DEF IInv, TypeOK
<1>8. /\ fresh' \in [Threads -> [Blocks -> SUBSET Values]]
      /\ \A x \in Threads, b \in Blocks :
           fresh'[x][b] = IF call[x].unit = u /\ b \in done /\ fresh[x][b] # {}
                          THEN fresh[x][b] \cup {w} ELSE fresh[x][b]
  <2>1. \A x \in Threads, b \in Blocks : fresh[x][b] \subseteq Values
    BY DEF IInv, TypeOK
  <2> QED
    BY <1>2, <1>3, <2>1
<1> QED
  BY <1>2, <1>4, <1>6, <1>7, <1>8 DEF u, w

LEMMA TransferKeeps ==
    ASSUME IInv, NEW t \in Threads, Transfer(t)
    PROVE  IInv'
<1>1. /\ call[t].pc = "transfer" /\ writes < MaxWrites /\ writes' = writes + 1
      /\ UNCHANGED <<entries, hand, free_pages>>
  BY DEF Transfer
<1>2. /\ disk' \in [Units -> [Blocks -> Values]]
      /\ fresh' \in [Threads -> [Blocks -> SUBSET Values]]
      /\ call' \in [Threads -> Call]
      /\ \A x \in Threads : x # t => call'[x] = call[x]
      /\ \/ call'[t] = Idle
         \/ /\ call[t].kind = "cached" /\ call'[t].pc = "update"
            /\ call'[t].got = disk[call[t].unit]
            /\ call'[t].kind = "cached" /\ call'[t].unit = call[t].unit
            /\ call'[t].spare = call[t].spare
  BY TransferDoes
<1>3. /\ ~call[t].spare /\ call[t].unit \in Units
      /\ disk[call[t].unit] \in [Blocks -> Values]
  BY <1>1, Asked, BcacheAssumption DEF IInv, CallsOK, Reading, Filling
<1>4. EntriesOK' /\ UnitOnce' /\ FillingOK' /\ Paged' = Paged
  <2>1. call[t].pc \notin Filling /\ call'[t].pc \notin Filling
    BY <1>1, <1>2 DEF Filling, Idle
  <2> QED
    BY <1>1, <1>2, <2>1, CallMoves
<1>5. CallsOK'
  BY <1>2, <1>3, BcacheAssumption DEF IInv, CallsOK, Reading, Filling, Idle
<1>6. Spares' = Spares
  <2>1. ~call'[t].spare
    BY <1>2, <1>3 DEF Idle
  <2> QED
    BY <1>2, <1>3, <2>1 DEF Spares
<1>7. PagesOK'
  BY <1>1, <1>4, <1>6 DEF IInv, PagesOK
<1>8. TypeOK'
  <2>1. writes' \in Values
    BY <1>1, BcacheAssumption DEF IInv, TypeOK, Values
  <2> QED
    BY <1>1, <1>2, <2>1 DEF IInv, TypeOK
<1> QED
  BY <1>4, <1>5, <1>7, <1>8 DEF IInv

\* What bcache_write's last step does to the entries: it brings the unit's own
\* up to date, poisons it, or takes one that nobody fills for a unit with none.
Refreshes(t) ==
    \E e \in Entries :
      /\ entries[e].state = "VALID" /\ entries[e].unit = call[t].unit
      /\ entries'[e].state = "VALID" /\ entries'[e].unit = entries[e].unit
      /\ entries'[e].data \in [Blocks -> Values]
      /\ \A b \in Blocks : entries'[e].data[b] = IF b \in call[t].part THEN call[t].value
                                                 ELSE entries[e].data[b]
      /\ \A f \in Entries : f # e => entries'[f] = entries[f]

Poisons(t) ==
    \E e \in Entries :
      /\ entries[e].state = "LOADING" /\ entries[e].unit = call[t].unit
      /\ entries'[e].state = "LOADING" /\ entries'[e].unit = entries[e].unit
      /\ entries'[e].data = entries[e].data /\ entries'[e].poisoned
      /\ \A f \in Entries : f # e => entries'[f] = entries[f]

Adds(t) ==
    /\ \A f \in Entries : entries[f].state # "EMPTY" => entries[f].unit # call[t].unit
    /\ \E v \in Entries :
         /\ entries[v].state # "LOADING"
         /\ \/ entries'[v].state = "EMPTY"
            \/ /\ entries'[v].state = "VALID" /\ entries'[v].unit = call[t].unit
               /\ entries'[v].page /\ entries'[v].data \in [Blocks -> Values]
               /\ \A b \in Blocks :
                    entries'[v].data[b] = IF b \in call[t].part THEN call[t].value
                                          ELSE disk[call[t].unit][b]
         /\ \A f \in Entries : f # v =>
              /\ entries'[f].state = entries[f].state /\ entries'[f].unit = entries[f].unit
              /\ entries'[f].data = entries[f].data
              /\ entries'[f].poisoned = entries[f].poisoned

LEMMA UpdateDoes ==
    ASSUME IInv, NEW t \in Threads, Update(t)
    PROVE  /\ hand' \in Entries /\ entries' \in [Entries -> Entry]
           /\ \A f \in Entries : entries'[f].page = entries[f].page
           /\ Refreshes(t) \/ Poisons(t) \/ Adds(t)
              \/ (entries' = entries /\ find(call[t].unit) = {})
<1> DEFINE u == call[t].unit
<1>1. /\ u \in Units /\ call[t] \in Call /\ disk[u] \in [Blocks -> Values]
      /\ call[t].part \subseteq Blocks /\ call[t].value \in Values
  BY Asked DEF Update, Call
<1>2. \A d \in [Blocks -> Values] :
        /\ Written(t, d) \in [Blocks -> Values]
        /\ \A b \in Blocks : Written(t, d)[b] = IF b \in call[t].part THEN call[t].value
                                                ELSE d[b]
  BY <1>1 DEF Written
<1>3. entries \in [Entries -> Entry] /\ hand \in Entries
  BY DEF IInv, TypeOK
<1>4. CASE \E e \in find(u) :
             /\ entries[e].state = "VALID" /\ UNCHANGED hand
             /\ entries' = [entries EXCEPT ![e].data = Written(t, @), ![e].referenced = TRUE]
  <2>1. PICK e \in find(u) :
             /\ entries[e].state = "VALID" /\ UNCHANGED hand
             /\ entries' = [entries EXCEPT ![e].data = Written(t, @), ![e].referenced = TRUE]
    BY <1>4
  <2>2. e \in Entries /\ entries[e].unit = u /\ entries[e].data \in [Blocks -> Values]
        /\ entries[e] \in Entry
    BY <1>3, <2>1 DEF find, IInv, EntriesOK
  <2> DEFINE d == Written(t, entries[e].data)
  <2>3. /\ d \in [Blocks -> Values]
        /\ \A b \in Blocks : d[b] = IF b \in call[t].part THEN call[t].value
                                    ELSE entries[e].data[b]
    BY <1>2, <2>2
  <2>4. entries' = [entries EXCEPT ![e] = [entries[e] EXCEPT !.data = d, !.referenced = TRUE]]
    BY <1>3, <2>1, <2>2 DEF Entry
  <2> HIDE DEF d
  <2>5. /\ [entries[e] EXCEPT !.data = d, !.referenced = TRUE] \in Entry
        /\ [entries[e] EXCEPT !.data = d, !.referenced = TRUE].state = entries[e].state
        /\ [entries[e] EXCEPT !.data = d, !.referenced = TRUE].unit = entries[e].unit
        /\ [entries[e] EXCEPT !.data = d, !.referenced = TRUE].page = entries[e].page
        /\ [entries[e] EXCEPT !.data = d, !.referenced = TRUE].data = d
    BY <2>2, <2>3 DEF Entry
  <2>6. /\ entries' \in [Entries -> Entry]
        /\ entries'[e] = [entries[e] EXCEPT !.data = d, !.referenced = TRUE]
        /\ \A f \in Entries : f # e => entries'[f] = entries[f]
    BY <1>3, <2>2, <2>4, <2>5
  <2>7. Refreshes(t)
    <3>1. /\ entries'[e].state = "VALID" /\ entries'[e].unit = entries[e].unit
          /\ entries'[e].data = d
      BY <2>1, <2>5, <2>6
    <3> QED
      BY <2>1, <2>2, <2>3, <2>6, <3>1 DEF Refreshes
  <2> QED
    BY <1>3, <2>1, <2>2, <2>5, <2>6, <2>7
<1>5. CASE \E e \in find(u) :
             /\ entries[e].state = "LOADING" /\ UNCHANGED hand
             /\ entries' = [entries EXCEPT ![e].poisoned = TRUE]
  <2>1. PICK e \in find(u) :
             /\ entries[e].state = "LOADING" /\ UNCHANGED hand
             /\ entries' = [entries EXCEPT ![e].poisoned = TRUE]
    BY <1>5
  <2>2. e \in Entries /\ entries[e].unit = u /\ entries[e] \in Entry
    BY <1>3, <2>1 DEF find
  <2>3. /\ entries' \in [Entries -> Entry]
        /\ entries'[e] = [entries[e] EXCEPT !.poisoned = TRUE]
        /\ \A f \in Entries : f # e => entries'[f] = entries[f]
    <3>1. [entries[e] EXCEPT !.poisoned = TRUE] \in Entry
      BY <2>2 DEF Entry
    <3> QED
      BY <1>3, <2>1, <2>2, <3>1
  <2>4. /\ entries'[e].state = entries[e].state /\ entries'[e].unit = entries[e].unit
        /\ entries'[e].data = entries[e].data /\ entries'[e].page = entries[e].page
        /\ entries'[e].poisoned
    BY <2>2, <2>3 DEF Entry
  <2>5. Poisons(t)
    BY <2>1, <2>2, <2>3, <2>4 DEF Poisons
  <2> QED
    BY <1>3, <2>1, <2>3, <2>4, <2>5
<1>6. CASE /\ find(u) = {} /\ HasVictim /\ hand' = HandAfter
           /\ entries' = IF ~entries[victim].page THEN Swept
                ELSE [Swept EXCEPT ![victim] =
                       [@ EXCEPT !.state = "VALID", !.unit = u, !.referenced = TRUE,
                                 !.data = Written(t, disk[u])]]
  <2> DEFINE v == victim
  <2> DEFINE d == Written(t, disk[u])
  <2> DEFINE r == [Swept[v] EXCEPT !.state = "VALID", !.unit = u, !.referenced = TRUE,
                                   !.data = d]
  <2>1. /\ v \in Entries /\ HandAfter \in Entries /\ entries[v].state # "LOADING"
        /\ Swept \in [Entries -> Entry] /\ Swept[v] = forgotten(entries[v])
        /\ \A e \in Entries : e # v =>
             /\ Swept[e].state = entries[e].state /\ Swept[e].unit = entries[e].unit
             /\ Swept[e].page = entries[e].page /\ Swept[e].data = entries[e].data
             /\ Swept[e].poisoned = entries[e].poisoned
    BY <1>6, ClockStops
  <2>2. Swept[v].state = "EMPTY" /\ Swept[v].page = entries[v].page /\ Swept[v] \in Entry
    BY <1>3, <2>1, EntryTypes
  <2>3. /\ d \in [Blocks -> Values]
        /\ \A b \in Blocks : d[b] = IF b \in call[t].part THEN call[t].value ELSE disk[u][b]
    BY <1>1, <1>2
  <2>4. entries' = IF ~entries[v].page THEN Swept ELSE [Swept EXCEPT ![v] = r]
    BY <1>6
  <2> HIDE DEF d, v
  <2>5. /\ r \in Entry /\ r.state = "VALID" /\ r.unit = u /\ r.data = d
        /\ r.page = Swept[v].page
    BY <1>1, <2>2, <2>3 DEF Entry
  <2> HIDE DEF r
  <2>6. /\ entries' \in [Entries -> Entry]
        /\ \A e \in Entries : e # v => entries'[e] = Swept[e]
        /\ \/ entries'[v] = Swept[v]
           \/ entries[v].page /\ entries'[v] = r
    BY <2>1, <2>4, <2>5
  <2>7. \A e \in Entries : entries'[e].page = entries[e].page
    BY <2>1, <2>2, <2>5, <2>6
  <2>8. \A f \in Entries : entries[f].state # "EMPTY" => entries[f].unit # u
    BY <1>6 DEF find
  <2>9. Adds(t)
    <3>1. \/ entries'[v].state = "EMPTY"
          \/ /\ entries'[v].state = "VALID" /\ entries'[v].unit = u
             /\ entries'[v].page /\ entries'[v].data \in [Blocks -> Values]
             /\ \A b \in Blocks :
                  entries'[v].data[b] = IF b \in call[t].part THEN call[t].value
                                        ELSE disk[u][b]
      BY <2>1, <2>2, <2>3, <2>5, <2>6, <2>7
    <3>2. \A f \in Entries : f # v =>
            /\ entries'[f].state = entries[f].state /\ entries'[f].unit = entries[f].unit
            /\ entries'[f].data = entries[f].data
            /\ entries'[f].poisoned = entries[f].poisoned
      BY <2>1, <2>6
    <3> QED
      BY <2>1, <2>8, <3>1, <3>2 DEF Adds
  <2> QED
    BY <1>6, <2>1, <2>6, <2>7, <2>9
<1>7. CASE find(u) = {} /\ UNCHANGED <<entries, hand>>
  BY <1>3, <1>7
<1> QED
  BY <1>4, <1>5, <1>6, <1>7 DEF Update

LEMMA UpdateKeeps ==
    ASSUME IInv, NEW t \in Threads, Update(t)
    PROVE  IInv'
<1>1. call[t].pc = "update" /\ Ends(t) /\ UNCHANGED <<disk, writes>>
  BY DEF Update
<1>2. /\ call'[t].pc = "idle" /\ \A x \in Threads : x # t => call'[x] = call[x]
  BY <1>1, CallTypes DEF Idle
<1>3. /\ hand' \in Entries /\ entries' \in [Entries -> Entry]
      /\ \A f \in Entries : entries'[f].page = entries[f].page
  BY UpdateDoes
<1>4. EntriesOK' /\ UnitOnce' /\ FillingOK' /\ Paged' = Paged
  <2>1. \A x \in Threads : /\ call'[x].pc \in Filling <=> call[x].pc \in Filling
                           /\ call[x].pc \in Filling => call'[x] = call[x]
    BY <1>1, <1>2 DEF Filling
  <2>2. CASE Refreshes(t) \/ Poisons(t) \/ entries' = entries
    <3>1. \A e \in Entries :
            /\ entries'[e].state = entries[e].state
            /\ entries'[e].unit = entries[e].unit
            /\ \/ entries'[e].data = entries[e].data
               \/ /\ entries[e].state = "VALID"
                  /\ entries'[e].data \in [Blocks -> Values]
      BY <2>2 DEF Refreshes, Poisons
    <3> QED
      BY <1>3, <2>1, <3>1, EntriesStay
  <2>3. CASE Adds(t)
    <3>1. PICK v \in Entries :
         /\ entries[v].state # "LOADING"
         /\ \/ entries'[v].state = "EMPTY"
            \/ /\ entries'[v].state = "VALID" /\ entries'[v].unit = call[t].unit
               /\ entries'[v].page /\ entries'[v].data \in [Blocks -> Values]
         /\ \A f \in Entries : f # v =>
              /\ entries'[f].state = entries[f].state /\ entries'[f].unit = entries[f].unit
              /\ entries'[f].data = entries[f].data
      BY <2>3 DEF Adds
    <3>2. \A f \in Entries : entries[f].state # "EMPTY" => entries[f].unit # call[t].unit
      BY <2>3 DEF Adds
    <3>3. call[t].unit \in Units
      BY <1>1, Asked
    <3>4. EntriesOK' /\ UnitOnce'
      BY <1>3, <3>1, <3>2, <3>3 DEF IInv, EntriesOK, UnitOnce
    <3>5. FillingOK'
      <4>1. Fillers' = Fillers
        BY <2>1 DEF Fillers
      <4>2. \A x \in Fillers : /\ x \in Threads /\ call'[x] = call[x]
                               /\ call[x].entry \in Entries /\ call[x].entry # v
        BY <2>1, <3>1 DEF IInv, FillingOK, Fillers
      <4>3. \A f \in Entries : entries'[f].state = "LOADING" => f # v
        BY <3>1
      <4> QED
        BY <3>1, <4>1, <4>2, <4>3 DEF IInv, FillingOK
    <3>6. Paged' = Paged
      BY <1>3 DEF Paged
    <3> QED
      BY <3>4, <3>5, <3>6
  <2> QED
    BY <2>2, <2>3, UpdateDoes
<1> QED
  BY <1>1, <1>3, <1>4, EndsKeeps

-----------------------------------------------------------------------------
(* What is kept when callers keep to one writer of a unit.                 *)

\* Steps that leave the disk alone and in which no write reaches the cache.
LEMMA WritesStay ==
    ASSUME IInv, CInv, UNCHANGED disk,
           \A x \in Threads :
             \/ call[x].pc # "update" /\ call'[x] = Idle
             \/ /\ call'[x].kind = call[x].kind /\ call'[x].unit = call[x].unit
                /\ call'[x].part = call[x].part
                /\ call[x].pc = "update" \/ call'[x].pc = "update" => call'[x] = call[x]
    PROVE  Solo' /\ WrittenOK' /\ Recent' = Recent
<1>1. Idle.unit = None /\ Idle.pc = "idle"
  BY DEF Idle
<1>2. Solo'
  BY <1>1 DEF CInv, Solo
<1>3. WrittenOK'
  BY <1>1 DEF CInv, WrittenOK
<1>4. Recent' = Recent
  BY <1>1, SameRecent
<1> QED
  BY <1>2, <1>3, <1>4

\* A raw writer has the unit to itself, so no entry of it appears.
LEMMA RawStays ==
    ASSUME IInv, CInv,
           \A x \in Threads : call'[x].kind = "raw" /\ call'[x].pc = "transfer"
                                => call'[x] = call[x],
           \A e \in Entries : entries'[e].state # "EMPTY" =>
             \/ entries[e].state # "EMPTY" /\ entries'[e].unit = entries[e].unit
             \/ \E y \in Threads : /\ call[y].kind \in {"read", "cached"}
                                   /\ call[y].unit = entries'[e].unit
                                   /\ entries'[e].unit \in Units
    PROVE  RawOK'
<1>1. SUFFICES ASSUME NEW t \in Threads, NEW e \in Entries,
                      call'[t].kind = "raw", call'[t].pc = "transfer",
                      entries'[e].state # "EMPTY", entries'[e].unit = call'[t].unit
               PROVE  FALSE
  BY DEF RawOK
<1>2. call[t].kind = "raw" /\ call[t].pc = "transfer" /\ entries'[e].unit = call[t].unit
  BY <1>1
<1>3. CASE entries[e].state # "EMPTY" /\ entries'[e].unit = entries[e].unit
  BY <1>2, <1>3 DEF CInv, RawOK
<1>4. CASE \E y \in Threads : /\ call[y].kind \in {"read", "cached"}
                              /\ call[y].unit = entries'[e].unit
                              /\ entries'[e].unit \in Units
  <2>1. PICK y \in Threads : /\ call[y].kind \in {"read", "cached"}
                             /\ call[y].unit = entries'[e].unit
                             /\ entries'[e].unit \in Units
    BY <1>4
  <2> QED
    BY <1>2, <2>1, BcacheAssumption DEF CInv, Solo
<1> QED
  BY <1>1, <1>3, <1>4

\* A reader goes on, with what it may return.
LEMMA FreshStays ==
    ASSUME IInv, CInv, Recent' = Recent,
           \A x \in Threads :
             \/ call'[x] = Idle
             \/ /\ call'[x].kind = call[x].kind /\ call'[x].unit = call[x].unit
                /\ call'[x].part = call[x].part /\ fresh'[x] = fresh[x]
                /\ \/ call'[x].pc \notin {"filled", "return"}
                   \/ /\ call'[x].pc = "filled"
                      /\ \A b \in call[x].part :
                           entries'[call'[x].entry].data[b] \in fresh[x][b]
                   \/ /\ call'[x].pc = "return"
                      /\ \A b \in call[x].part : call'[x].got[b] \in fresh[x][b]
    PROVE  FreshOK'
<1>1. Idle.kind = None /\ None # "read"
  BY BcacheAssumption DEF Idle
<1>2. SUFFICES ASSUME NEW t \in Threads, call'[t].kind = "read", NEW b \in call'[t].part
               PROVE  /\ Recent'[call'[t].unit][b] \subseteq fresh'[t][b]
                      /\ call'[t].pc = "filled" =>
                           entries'[call'[t].entry].data[b] \in fresh'[t][b]
                      /\ call'[t].pc = "return" => call'[t].got[b] \in fresh'[t][b]
  BY DEF FreshOK
<1>3. /\ call'[t].kind = call[t].kind /\ call'[t].unit = call[t].unit
      /\ call'[t].part = call[t].part /\ fresh'[t] = fresh[t]
      /\ \/ call'[t].pc \notin {"filled", "return"}
         \/ /\ call'[t].pc = "filled"
            /\ entries'[call'[t].entry].data[b] \in fresh[t][b]
         \/ call'[t].pc = "return" /\ call'[t].got[b] \in fresh[t][b]
  BY <1>1, <1>2
<1>4. Recent[call[t].unit][b] \subseteq fresh[t][b]
  BY <1>2, <1>3 DEF CInv, FreshOK
<1> QED
  BY <1>3, <1>4

\* What the invariant says of a thread that reads.
LEMMA ReaderHas ==
    ASSUME IInv, CInv, NEW t \in Threads, call[t].pc \in Reading
    PROVE  /\ call[t].kind = "read" /\ call[t].unit \in Units /\ call[t].part \subseteq Blocks
           /\ \A b \in call[t].part :
                /\ Recent[call[t].unit][b] \subseteq fresh[t][b]
                /\ disk[call[t].unit][b] \in fresh[t][b]
           /\ \A b \in Blocks : disk[call[t].unit][b] \in Recent[call[t].unit][b]
<1>1. call[t].kind = "read" /\ call[t].unit \in Units /\ call[t].part \subseteq Blocks
  BY Asked DEF IInv, CallsOK, Reading, Filling
<1>2. \A b \in call[t].part : Recent[call[t].unit][b] \subseteq fresh[t][b]
  BY <1>1 DEF CInv, FreshOK
<1>3. \A b \in Blocks : disk[call[t].unit][b] \in Recent[call[t].unit][b]
  BY <1>1, RecentMeans
<1> QED
  BY <1>1, <1>2, <1>3

\* The entries and the threads that have filled one are as they were, or have
\* less to say.
LEMMA EntriesRecent ==
    ASSUME IInv, CInv, Recent' = Recent,
           \A e \in Entries : entries'[e].state = "VALID" =>
             /\ entries[e].state = "VALID" /\ entries'[e].unit = entries[e].unit
             /\ entries'[e].data = entries[e].data,
           \A x \in Threads : call'[x].pc = "filled" =>
             /\ call'[x] = call[x]
             /\ entries'[call[x].entry].data = entries[call[x].entry].data
             /\ entries[call[x].entry].poisoned => entries'[call[x].entry].poisoned
    PROVE  ValidOK' /\ FilledOK'
<1>1. ValidOK'
  BY DEF CInv, ValidOK
<1>2. FilledOK'
  BY DEF CInv, FilledOK
<1> QED
  BY <1>1, <1>2

\* A thread that has filled an entry still has what it filled.
LEMMA FilledHas ==
    ASSUME IInv, NEW x \in Threads, call[x].pc = "filled"
    PROVE  call[x].entry \in Entries /\ entries[call[x].entry].state = "LOADING"
BY DEF IInv, FillingOK, Fillers, Filling

LEMMA StartCoherent ==
    ASSUME IInv, CInv, Overlaps = {}, NEW t \in Threads, NEW k \in {"read"} \cup Writers,
           NEW u \in Units, NEW part \in SUBSET Blocks, Start(t, k, u, part)
    PROVE  CInv'
<1> DEFINE c == [Idle EXCEPT !.kind = k, !.unit = u, !.part = part,
                             !.pc = IF k = "read" THEN "lookup" ELSE "invalidate"]
<1>1. /\ call[t].pc = "idle" /\ MayStart(t, k, u) /\ call' = [call EXCEPT ![t] = c]
      /\ fresh' = [fresh EXCEPT ![t] =
           [b \in Blocks |-> IF k = "read" /\ b \in part THEN Held(u, b) ELSE {}]]
      /\ UNCHANGED <<disk, entries, hand, free_pages, writes>>
  BY DEF Start
<1>2. /\ c.kind = k /\ c.unit = u /\ c.part = part
      /\ c.pc = (IF k = "read" THEN "lookup" ELSE "invalidate")
  BY DEF Idle
<1> HIDE DEF c
<1>3. call'[t] = c /\ \A x \in Threads : x # t => call'[x] = call[x]
  BY <1>1 DEF IInv, TypeOK
<1>4. /\ \A b \in part : k = "read" => fresh'[t][b] = Held(u, b)
      /\ \A x \in Threads : x # t => fresh'[x] = fresh[x]
  BY <1>1 DEF IInv, TypeOK
<1>5. Recent' = Recent
  BY <1>1, <1>2, <1>3, SameRecent
<1>6. Solo'
  <2>1. ASSUME NEW x \in Threads, x # t, call[x].unit = u
        PROVE  /\ call[x].kind # "raw" /\ k # "raw"
               /\ ~(k \in Writers /\ call[x].kind \in Writers)
    <3>1. call[x].kind \in Others(t, u)
      BY <2>1 DEF Others
    <3> QED
      BY <1>1, <3>1 DEF MayStart, Writers
  <2>2. \A x, y \in Threads :
          call'[x].unit # None /\ call'[x].unit = call'[y].unit /\ x # y =>
            /\ call'[x].kind # "raw"
            /\ ~(call'[x].kind \in Writers /\ call'[y].kind \in Writers)
    BY <1>2, <1>3, <2>1 DEF CInv, Solo
  <2> QED
    BY <2>2 DEF Solo
<1>7. RawOK'
  BY <1>1, <1>2, <1>3 DEF CInv, RawOK
<1>8. WrittenOK'
  BY <1>1, <1>2, <1>3 DEF CInv, WrittenOK
<1>9. ValidOK' /\ FilledOK'
  BY <1>1, <1>2, <1>3, <1>5, EntriesRecent
<1>10. FreshOK'
  <2>1. ASSUME NEW x \in Threads, x # t, call'[x].kind = "read", NEW b \in call'[x].part
        PROVE  /\ Recent'[call'[x].unit][b] \subseteq fresh'[x][b]
               /\ call'[x].pc = "filled" =>
                    entries'[call'[x].entry].data[b] \in fresh'[x][b]
               /\ call'[x].pc = "return" => call'[x].got[b] \in fresh'[x][b]
    BY <1>1, <1>3, <1>4, <1>5, <2>1 DEF CInv, FreshOK
  <2>2. ASSUME k = "read", NEW b \in part
        PROVE  Recent'[u][b] \subseteq fresh'[t][b]
    BY <1>4, <1>5, <2>2 DEF Recent
  <2> QED
    BY <1>2, <1>3, <2>1, <2>2 DEF FreshOK
<1> QED
  BY <1>6, <1>7, <1>8, <1>9, <1>10 DEF CInv

LEMMA LookupCoherent ==
    ASSUME IInv, CInv, NEW t \in Threads, Lookup(t)
    PROVE  CInv'
<1>1. call[t].pc = "lookup" /\ UNCHANGED <<disk, hand, free_pages, writes, fresh>>
  BY DEF Lookup
<1>2. /\ call[t].kind = "read" /\ call[t].unit \in Units /\ call[t].part \subseteq Blocks
      /\ \A b \in call[t].part : Recent[call[t].unit][b] \subseteq fresh[t][b]
  BY <1>1, ReaderHas DEF Reading
<1>3. /\ call'[t].pc \in {"return", "uncached", "page", "install"}
      /\ call'[t].kind = call[t].kind /\ call'[t].unit = call[t].unit
      /\ call'[t].part = call[t].part
      /\ \A x \in Threads : x # t => call'[x] = call[x]
      /\ call'[t].pc = "return" => \A b \in call[t].part : call'[t].got[b] \in fresh[t][b]
      /\ \A f \in Entries : /\ entries'[f].state = entries[f].state
                            /\ entries'[f].unit = entries[f].unit
                            /\ entries'[f].data = entries[f].data
                            /\ entries'[f].poisoned = entries[f].poisoned
  <2>1. CASE \E e \in find(call[t].unit) :
               /\ entries[e].state = "VALID"
               /\ entries' = [entries EXCEPT ![e].referenced = TRUE]
               /\ call' = Returns(t, entries[e].data)
    <3>1. PICK e \in find(call[t].unit) :
               /\ entries[e].state = "VALID"
               /\ entries' = [entries EXCEPT ![e].referenced = TRUE]
               /\ call' = Returns(t, entries[e].data)
      BY <2>1
    <3>2. /\ e \in Entries /\ entries[e] \in Entry /\ entries[e].data \in [Blocks -> Values]
          /\ entries[e].unit = call[t].unit
      BY <3>1 DEF IInv, TypeOK, EntriesOK, find
    <3>3. \A f \in Entries : /\ entries'[f].state = entries[f].state
                             /\ entries'[f].unit = entries[f].unit
                             /\ entries'[f].data = entries[f].data
                             /\ entries'[f].poisoned = entries[f].poisoned
      BY <3>1, <3>2 DEF IInv, TypeOK, Entry
    <3>4. /\ call'[t].pc = "return"
          /\ call'[t].kind = call[t].kind /\ call'[t].unit = call[t].unit
          /\ call'[t].part = call[t].part
          /\ \A b \in call[t].part : call'[t].got[b] = entries[e].data[b]
          /\ \A x \in Threads : x # t => call'[x] = call[x]
      BY <3>1, <3>2, CallTypes
    <3>5. \A b \in call[t].part : entries[e].data[b] \in fresh[t][b]
      BY <1>2, <3>1, <3>2 DEF CInv, ValidOK
    <3> QED
      BY <3>3, <3>4, <3>5
  <2>2. CASE \E p \in {"uncached", "page", "install"} : Goes(t, p) /\ UNCHANGED entries
    <3>1. {"uncached", "page", "install"} \subseteq Steps
      BY DEF Steps
    <3> QED
      BY <2>2, <3>1, CallTypes
  <2> QED
    BY <2>1, <2>2 DEF Lookup
<1>4. Solo' /\ WrittenOK' /\ Recent' = Recent
  BY <1>1, <1>3, WritesStay
<1>5. RawOK'
  BY <1>2, <1>3, RawStays
<1>6. ValidOK' /\ FilledOK'
  BY <1>3, <1>4, FilledHas, EntriesRecent
<1>7. FreshOK'
  <2>1. \A x \in Threads : x # t /\ call[x].pc = "filled" =>
          \A b \in call[x].part : entries'[call[x].entry].data[b] \in fresh[x][b]
    BY <1>3, FilledHas, ReaderHas DEF CInv, FreshOK, Reading, Filling
  <2>2. \A x \in Threads : x # t /\ call[x].pc = "return" =>
          \A b \in call[x].part : call[x].got[b] \in fresh[x][b]
    BY ReaderHas DEF CInv, FreshOK, Reading
  <2> QED
    BY <1>1, <1>3, <1>4, <2>1, <2>2, FreshStays
<1> QED
  BY <1>4, <1>5, <1>6, <1>7 DEF CInv

\* A step in which nothing reaches the disk and no write the cache.  Of what a
\* reader has loaded or returns, and of what becomes VALID, it must be known
\* that it is recent.
LEMMA QuietCoherent ==
    ASSUME IInv, CInv, RawOK', UNCHANGED disk,
           \A x \in Threads :
             \/ call[x].pc # "update" /\ call'[x] = Idle
             \/ /\ call'[x].kind = call[x].kind /\ call'[x].unit = call[x].unit
                /\ call'[x].part = call[x].part /\ fresh'[x] = fresh[x]
                /\ call[x].pc = "update" \/ call'[x].pc = "update" => call'[x] = call[x]
                /\ \/ /\ call'[x] = call[x]
                      /\ call[x].pc = "filled" =>
                           LET e == call[x].entry
                           IN  /\ entries'[e].data = entries[e].data
                               /\ entries[e].poisoned => entries'[e].poisoned
                   \/ call'[x].pc \notin {"filled", "return"}
                   \/ /\ call'[x].pc = "filled" /\ call[x].pc \in Reading
                      /\ \A b \in Blocks :
                           entries'[call'[x].entry].data[b] \in Recent[call[x].unit][b]
                   \/ /\ call'[x].pc = "return"
                      /\ \A b \in call[x].part : call'[x].got[b] \in fresh[x][b],
           \A e \in Entries : entries'[e].state = "VALID" =>
             \/ /\ entries[e].state = "VALID" /\ entries'[e].unit = entries[e].unit
                /\ entries'[e].data = entries[e].data
             \/ \A b \in Blocks : entries'[e].data[b] \in Recent[entries'[e].unit][b]
    PROVE  CInv'
<1>1. Idle.pc = "idle"
  BY DEF Idle
<1>2. Solo' /\ WrittenOK' /\ Recent' = Recent
  BY WritesStay
<1>3. ValidOK'
  BY <1>2 DEF CInv, ValidOK
<1>4. FilledOK'
  <2>1. ASSUME NEW x \in Threads, NEW b \in Blocks, call'[x].pc = "filled",
               ~entries'[call'[x].entry].poisoned
        PROVE  entries'[call'[x].entry].data[b] \in Recent[call'[x].unit][b]
    <3>1. CASE call'[x] = call[x] /\ entries'[call[x].entry].data = entries[call[x].entry].data
               /\ ~entries[call[x].entry].poisoned
      BY <2>1, <3>1 DEF CInv, FilledOK
    <3>2. CASE /\ call'[x].unit = call[x].unit
               /\ entries'[call'[x].entry].data[b] \in Recent[call[x].unit][b]
      BY <3>2
    <3> QED
      BY <1>1, <2>1, <3>1, <3>2
  <2> QED
    BY <1>2, <2>1 DEF FilledOK
<1>5. FreshOK'
  <2>1. ASSUME NEW x \in Threads, call'[x] # Idle
        PROVE  /\ call'[x].kind = call[x].kind /\ call'[x].unit = call[x].unit
               /\ call'[x].part = call[x].part /\ fresh'[x] = fresh[x]
               /\ \/ call'[x].pc \notin {"filled", "return"}
                  \/ /\ call'[x].pc = "filled"
                     /\ \A b \in call[x].part :
                          entries'[call'[x].entry].data[b] \in fresh[x][b]
                  \/ /\ call'[x].pc = "return"
                     /\ \A b \in call[x].part : call'[x].got[b] \in fresh[x][b]
    <3>1. /\ call'[x].kind = call[x].kind /\ call'[x].unit = call[x].unit
          /\ call'[x].part = call[x].part /\ fresh'[x] = fresh[x]
      BY <2>1
    <3>2. CASE call'[x].pc \notin {"filled", "return"}
      BY <3>1, <3>2
    <3>3. CASE call'[x].pc = "filled"
      <4>1. CASE call'[x] = call[x] /\ entries'[call[x].entry].data = entries[call[x].entry].data
        <5>1. call[x].kind = "read"
          BY <3>3, <4>1, ReaderHas DEF Reading, Filling
        <5> QED
          BY <3>1, <3>3, <4>1, <5>1 DEF CInv, FreshOK
      <4>2. CASE /\ call[x].pc \in Reading
                 /\ \A b \in Blocks :
                      entries'[call'[x].entry].data[b] \in Recent[call[x].unit][b]
        BY <3>1, <3>3, <4>2, ReaderHas
      <4> QED
        BY <2>1, <3>3, <4>1, <4>2
    <3>4. CASE call'[x].pc = "return"
      <4>1. CASE call'[x] = call[x]
        <5>1. call[x].kind = "read"
          BY <3>4, <4>1, ReaderHas DEF Reading
        <5> QED
          BY <3>1, <3>4, <4>1, <5>1 DEF CInv, FreshOK
      <4>2. CASE \A b \in call[x].part : call'[x].got[b] \in fresh[x][b]
        BY <3>1, <3>4, <4>2
      <4> QED
        BY <2>1, <3>4, <4>1, <4>2
    <3> QED
      BY <3>2, <3>3, <3>4
  <2> QED
    BY <1>2, <2>1, FreshStays
<1> QED
  BY <1>2, <1>3, <1>4, <1>5 DEF CInv

LEMMA GetPageCoherent ==
    ASSUME IInv, CInv, NEW t \in Threads, GetPage(t)
    PROVE  CInv'
<1>1. call[t].pc = "page" /\ UNCHANGED <<disk, entries, fresh>>
  BY DEF GetPage
<1>2. /\ call'[t].pc \in {"uncached", "install"}
      /\ call'[t].kind = call[t].kind /\ call'[t].unit = call[t].unit
      /\ call'[t].part = call[t].part
      /\ \A x \in Threads : x # t => call'[x] = call[x]
  <2>1. call[t] \in Call /\ call \in [Threads -> Call]
    BY DEF IInv, TypeOK
  <2>2. CASE Goes(t, "uncached")
    <3>1. "uncached" \in Steps
      BY DEF Steps
    <3> QED
      BY <2>2, <3>1, CallTypes
  <2>3. CASE call' = [call EXCEPT ![t].pc = "install", ![t].spare = TRUE]
    BY <2>1, <2>3 DEF Call
  <2> QED
    BY <2>2, <2>3 DEF GetPage
<1>3. RawOK'
  <2>1. \A x \in Threads : call'[x].pc = "transfer" => call'[x] = call[x]
    BY <1>2
  <2> QED
    BY <1>1, <2>1, RawStays
<1> QED
  BY <1>1, <1>2, <1>3, QuietCoherent

\* What is put in the entry that is taken is not seen before it is filled.
LEMMA InstallCoherent ==
    ASSUME IInv, CInv, NEW t \in Threads, Install(t)
    PROVE  CInv'
<1>1. call[t].pc = "install" /\ UNCHANGED <<disk, fresh>>
  BY DEF Install
<1>2. call[t].kind = "read" /\ call[t].unit \in Units /\ call[t] \in Call
  BY <1>1, ReaderHas, Asked DEF Reading
<1>3. /\ call'[t].pc \in {"lookup", "uncached", "fill"}
      /\ call'[t].kind = call[t].kind /\ call'[t].unit = call[t].unit
      /\ call'[t].part = call[t].part
      /\ \A x \in Threads : x # t => call'[x] = call[x]
  <2>1. CASE \E p \in {"lookup", "uncached"} : Goes(t, p)
    <3>1. {"lookup", "uncached"} \subseteq Steps
      BY DEF Steps
    <3> QED
      BY <2>1, <3>1, CallTypes
  <2>2. CASE call' = [call EXCEPT ![t].pc = "fill", ![t].entry = victim,
                                  ![t].spare = call[t].spare /\ entries[victim].page]
    <3> DEFINE s == call[t].spare /\ entries[victim].page
    <3> DEFINE v == victim
    <3>1. call' = [call EXCEPT ![t].pc = "fill", ![t].entry = v, ![t].spare = s]
      BY <2>2
    <3> HIDE DEF s, v
    <3> QED
      BY <1>2, <3>1 DEF IInv, TypeOK, Call
  <2> QED
    BY <2>1, <2>2 DEF Install
<1>4. \A e \in Entries :
        \/ /\ entries'[e].state = entries[e].state /\ entries'[e].unit = entries[e].unit
           /\ entries'[e].data = entries[e].data
           /\ entries'[e].poisoned = entries[e].poisoned
        \/ entries[e].state # "LOADING" /\ entries'[e].state = "EMPTY"
        \/ /\ entries[e].state # "LOADING" /\ entries'[e].state = "LOADING"
           /\ entries'[e].unit = call[t].unit
  <2>1. CASE UNCHANGED entries
    BY <2>1
  <2>2. CASE HasVictim /\ (entries' = Swept \/
                entries' = [Swept EXCEPT ![victim] =
                  [@ EXCEPT !.state = "LOADING", !.unit = call[t].unit,
                            !.referenced = TRUE, !.page = TRUE]])
    <3> DEFINE v == victim
    <3>1. /\ v \in Entries /\ entries[v].state # "LOADING" /\ entries[v] \in Entry
          /\ Swept \in [Entries -> Entry] /\ Swept[v] = forgotten(entries[v])
          /\ \A e \in Entries : e # v =>
               /\ Swept[e].state = entries[e].state /\ Swept[e].unit = entries[e].unit
               /\ Swept[e].data = entries[e].data
               /\ Swept[e].poisoned = entries[e].poisoned
      BY <2>2, ClockStops DEF IInv, TypeOK
    <3>2. Swept[v].state = "EMPTY" /\ Swept[v] \in Entry
      BY <3>1, EntryTypes
    <3> DEFINE r == [Swept[v] EXCEPT !.state = "LOADING", !.unit = call[t].unit,
                                     !.referenced = TRUE, !.page = TRUE]
    <3>3. entries' = Swept \/ entries' = [Swept EXCEPT ![v] = r]
      BY <2>2
    <3> HIDE DEF v
    <3>4. r.state = "LOADING" /\ r.unit = call[t].unit
      BY <3>2 DEF Entry
    <3> HIDE DEF r
    <3>5. /\ \A e \in Entries : e # v => entries'[e] = Swept[e]
          /\ entries'[v] = Swept[v] \/ entries'[v] = r
      BY <3>1, <3>3
    <3> QED
      BY <3>1, <3>2, <3>4, <3>5
  <2> QED
    BY <2>1, <2>2 DEF Install
<1>5. RawOK'
  <2>1. \A x \in Threads : call'[x].pc = "transfer" => call'[x] = call[x]
    BY <1>3
  <2> QED
    BY <1>2, <1>4, <2>1, RawStays
<1>6. \A x \in Threads : call[x].pc = "filled" =>
        /\ entries'[call[x].entry].data = entries[call[x].entry].data
        /\ entries'[call[x].entry].poisoned = entries[call[x].entry].poisoned
  BY <1>4, FilledHas
<1> QED
  BY <1>1, <1>3, <1>4, <1>5, <1>6, QuietCoherent

LEMMA FillCoherent ==
    ASSUME IInv, CInv, NEW t \in Threads, Fill(t)
    PROVE  CInv'
<1> DEFINE e == call[t].entry
<1>1. call[t].pc = "fill" /\ UNCHANGED <<disk, fresh>>
  BY DEF Fill
<1>2. /\ e \in Entries /\ entries[e] \in Entry /\ entries[e].state = "LOADING"
      /\ \A x \in Threads : call[x].pc = "filled" =>
           x # t /\ call[x].entry # e /\ call[x].entry \in Entries
  BY <1>1 DEF IInv, TypeOK, FillingOK, Fillers, Filling
<1>3. call[t].unit \in Units
      /\ \A b \in Blocks : disk[call[t].unit][b] \in Recent[call[t].unit][b]
  BY <1>1, ReaderHas DEF Reading, Filling
<1>4. PICK p \in {"filled", "unfilled"} :
        /\ Goes(t, p)
        /\ p = "filled" => entries' = [entries EXCEPT ![e].data = disk[call[t].unit]]
        /\ p = "unfilled" => entries' = entries
  BY DEF Fill
<1>5. /\ call'[t].pc = p /\ call'[t].entry = e
      /\ call'[t].kind = call[t].kind /\ call'[t].unit = call[t].unit
      /\ call'[t].part = call[t].part
      /\ \A x \in Threads : x # t => call'[x] = call[x]
  <2>1. p \in Steps
    BY DEF Steps
  <2> QED
    BY <1>4, <2>1, CallTypes
<1>6. /\ \A f \in Entries : /\ entries'[f].state = entries[f].state
                            /\ entries'[f].unit = entries[f].unit
                            /\ f # e => entries'[f] = entries[f]
      /\ p = "filled" => entries'[e].data = disk[call[t].unit]
  BY <1>2, <1>4, SMTT(30) DEF IInv, TypeOK, Entry
<1> HIDE DEF e
<1>7. RawOK'
  <2>1. \A x \in Threads : call'[x].pc = "transfer" => call'[x] = call[x]
    BY <1>4, <1>5
  <2> QED
    BY <1>6, <2>1, RawStays
<1>8. \A f \in Entries : entries'[f].state = "VALID" =>
        entries[f].state = "VALID" /\ entries'[f] = entries[f]
  BY <1>2, <1>6
<1>9. call[t].pc \in Reading
  BY <1>1 DEF Reading, Filling
<1>10. p = "filled" => \A b \in Blocks :
         entries'[call'[t].entry].data[b] \in Recent[call[t].unit][b]
  BY <1>3, <1>5, <1>6
<1>11. \A x \in Threads : x # t /\ call[x].pc = "filled" =>
         entries'[call[x].entry] = entries[call[x].entry]
  BY <1>2, <1>6
<1> QED
  BY <1>1, <1>4, <1>5, <1>7, <1>8, <1>9, <1>10, <1>11, QuietCoherent

\* What nobody poisoned while it was read is recent, and may answer reads.
LEMMA FillDoneCoherent ==
    ASSUME IInv, CInv, NEW t \in Threads, FillDone(t)
    PROVE  CInv'
<1> DEFINE e == call[t].entry
<1> DEFINE r == IF Keeps(entries[e]) THEN [entries[e] EXCEPT !.state = "VALID"]
                                     ELSE forgotten(entries[e])
<1>1. /\ call[t].pc = "filled" /\ UNCHANGED <<disk, fresh>>
      /\ call' = Returns(t, entries[e].data) /\ entries' = [entries EXCEPT ![e] = r]
  BY DEF FillDone
<1>2. /\ e \in Entries /\ entries[e] \in Entry /\ entries[e].data \in [Blocks -> Values]
      /\ entries[e].unit = call[t].unit /\ entries[e].state = "LOADING"
      /\ \A x \in Threads : x # t /\ call[x].pc = "filled" =>
           call[x].entry # e /\ call[x].entry \in Entries
  BY <1>1 DEF IInv, TypeOK, FillingOK, Fillers, Filling
<1>3. \/ r.state = "EMPTY"
      \/ /\ r.state = "VALID" /\ r.unit = entries[e].unit /\ r.data = entries[e].data
         /\ ~entries[e].poisoned
  <2>1. /\ [entries[e] EXCEPT !.state = "VALID"].state = "VALID"
        /\ [entries[e] EXCEPT !.state = "VALID"].unit = entries[e].unit
        /\ [entries[e] EXCEPT !.state = "VALID"].data = entries[e].data
    BY <1>2 DEF Entry
  <2> QED
    BY <1>2, <2>1, EntryTypes DEF Keeps
<1> HIDE DEF r
<1>4. entries'[e] = r /\ \A f \in Entries : f # e => entries'[f] = entries[f]
  BY <1>1, <1>2 DEF IInv, TypeOK
<1>5. /\ call'[t].pc = "return"
      /\ call'[t].kind = call[t].kind /\ call'[t].unit = call[t].unit
      /\ call'[t].part = call[t].part
      /\ \A b \in call[t].part : call'[t].got[b] = entries[e].data[b]
      /\ \A x \in Threads : x # t => call'[x] = call[x]
  BY <1>1, <1>2, CallTypes
<1>6. \A b \in call[t].part : entries[e].data[b] \in fresh[t][b]
  <2>1. call[t].kind = "read"
    BY <1>1, ReaderHas DEF Reading, Filling
  <2> QED
    BY <1>1, <2>1 DEF CInv, FreshOK
<1>7. ~entries[e].poisoned =>
        \A b \in Blocks : entries[e].data[b] \in Recent[call[t].unit][b]
  BY <1>1 DEF CInv, FilledOK
<1> HIDE DEF e
<1>8. RawOK'
  <2>1. \A x \in Threads : call'[x].pc = "transfer" => call'[x] = call[x]
    BY <1>5
  <2>2. \A f \in Entries : entries'[f].state # "EMPTY" =>
          entries[f].state # "EMPTY" /\ entries'[f].unit = entries[f].unit
    BY <1>2, <1>3, <1>4
  <2> QED
    BY <2>1, <2>2, RawStays
<1>9. \A f \in Entries : entries'[f].state = "VALID" =>
        \/ entries[f].state = "VALID" /\ entries'[f] = entries[f]
        \/ \A b \in Blocks : entries'[f].data[b] \in Recent[entries'[f].unit][b]
  BY <1>2, <1>3, <1>4, <1>7
<1>10. \A x \in Threads : x # t /\ call[x].pc = "filled" =>
         entries'[call[x].entry] = entries[call[x].entry]
  BY <1>2, <1>4
<1> QED
  BY <1>1, <1>5, <1>6, <1>8, <1>9, <1>10, QuietCoherent, SMTT(30)

\* Entries are poisoned, forgotten or left alone, and a call ends or goes on.
LEMMA DropCoherent ==
    ASSUME IInv, CInv, RawOK', UNCHANGED disk,
           \A e \in Entries :
             \/ /\ entries'[e].state = entries[e].state /\ entries'[e].unit = entries[e].unit
                /\ entries'[e].data = entries[e].data
                /\ entries[e].poisoned => entries'[e].poisoned
             \/ /\ entries'[e].state = "EMPTY"
                /\ \A x \in Threads : call[x].pc = "filled" /\ call[x].entry = e
                                        => call'[x] # call[x],
           \A x \in Threads :
             \/ call[x].pc # "update" /\ call'[x] = Idle
             \/ call'[x] = call[x] /\ fresh'[x] = fresh[x]
             \/ /\ call[x].pc = "invalidate" /\ call'[x].pc = "transfer"
                /\ call'[x].kind = call[x].kind /\ call'[x].unit = call[x].unit
                /\ call'[x].part = call[x].part /\ fresh'[x] = fresh[x]
    PROVE  CInv'
<1>1. \A x \in Threads : call[x].pc = "filled" /\ call'[x] = call[x] =>
        /\ entries'[call[x].entry].data = entries[call[x].entry].data
        /\ entries[call[x].entry].poisoned => entries'[call[x].entry].poisoned
  BY FilledHas
<1> QED
  BY <1>1, QuietCoherent

LEMMA FillFailedCoherent ==
    ASSUME IInv, CInv, NEW t \in Threads, FillFailed(t)
    PROVE  CInv'
<1> DEFINE e == call[t].entry
<1>1. /\ call[t].pc = "unfilled" /\ UNCHANGED disk /\ Ends(t)
      /\ entries' = [entries EXCEPT ![e] = forgotten(entries[e])]
  BY DEF FillFailed
<1>2. /\ e \in Entries /\ entries[e] \in Entry
      /\ \A x \in Threads : call[x].pc = "filled" => call[x].entry # e
  BY <1>1 DEF IInv, TypeOK, FillingOK, Fillers, Filling
<1>3. /\ entries'[e].state = "EMPTY"
      /\ \A f \in Entries : f # e => entries'[f] = entries[f]
  BY <1>1, <1>2, EntryTypes DEF IInv, TypeOK
<1>4. /\ call'[t] = Idle
      /\ \A x \in Threads : x # t => call'[x] = call[x] /\ fresh'[x] = fresh[x]
  BY <1>1, CallTypes
<1> HIDE DEF e
<1>5. RawOK'
  <2>1. \A x \in Threads : call'[x].pc = "transfer" => call'[x] = call[x]
    BY <1>4 DEF Idle
  <2> QED
    BY <1>2, <1>3, <2>1, RawStays
<1> QED
  BY <1>1, <1>2, <1>3, <1>4, <1>5, DropCoherent

LEMMA UncachedCoherent ==
    ASSUME IInv, CInv, NEW t \in Threads, Uncached(t) \/ Return(t)
    PROVE  CInv'
<1>1. call[t].pc \in {"uncached", "return"} /\ UNCHANGED <<disk, entries>>
  BY DEF Uncached, Return
<1>2. CASE Ends(t)
  <2>1. /\ call'[t] = Idle
        /\ \A x \in Threads : x # t => call'[x] = call[x] /\ fresh'[x] = fresh[x]
    BY <1>2, CallTypes
  <2>2. RawOK'
    <3>1. \A x \in Threads : call'[x].pc = "transfer" => call'[x] = call[x]
      BY <2>1 DEF Idle
    <3> QED
      BY <1>1, <3>1, RawStays
  <2> QED
    BY <1>1, <2>1, <2>2, DropCoherent
<1>3. CASE call[t].pc = "uncached" /\ call' = Returns(t, disk[call[t].unit]) /\ UNCHANGED fresh
  <2>1. disk[call[t].unit] \in [Blocks -> Values]
    BY <1>3, Asked
  <2>2. /\ call'[t].pc = "return"
        /\ call'[t].kind = call[t].kind /\ call'[t].unit = call[t].unit
        /\ call'[t].part = call[t].part
        /\ \A b \in call[t].part : call'[t].got[b] = disk[call[t].unit][b]
        /\ \A x \in Threads : x # t => call'[x] = call[x]
    BY <1>3, <2>1, CallTypes
  <2>3. \A b \in call[t].part : call'[t].got[b] \in fresh[t][b]
    BY <1>3, <2>2, ReaderHas DEF Reading
  <2>4. RawOK'
    <3>1. \A x \in Threads : call'[x].pc = "transfer" => call'[x] = call[x]
      BY <2>2
    <3> QED
      BY <1>1, <3>1, RawStays
  <2> QED
    BY <1>1, <1>3, <2>2, <2>3, <2>4, QuietCoherent
<1> QED
  BY <1>2, <1>3 DEF Uncached, Return

\* A raw writer leaves the unit without an entry: nobody is filling one.
LEMMA InvalidateCoherent ==
    ASSUME IInv, CInv, NEW t \in Threads, bcache_invalidate(t)
    PROVE  CInv'
<1>1. /\ call[t].pc = "invalidate" /\ Goes(t, "transfer") /\ UNCHANGED <<disk, fresh>>
      /\ \A e \in Entries : entries'[e] = IF e \in find(call[t].unit)
                                          THEN Dropped(entries[e]) ELSE entries[e]
  BY DEF bcache_invalidate
<1>2. /\ call'[t].pc = "transfer"
      /\ call'[t].kind = call[t].kind /\ call'[t].unit = call[t].unit
      /\ call'[t].part = call[t].part
      /\ \A x \in Threads : x # t => call'[x] = call[x]
  <2>1. "transfer" \in Steps
    BY DEF Steps
  <2> QED
    BY <1>1, <2>1, CallTypes
<1>3. \A e \in Entries : entries[e] \in Entry
  BY DEF IInv, TypeOK
<1>4. \A e \in Entries :
        \/ /\ entries'[e].state = entries[e].state /\ entries'[e].unit = entries[e].unit
           /\ entries'[e].data = entries[e].data
           /\ entries[e].poisoned => entries'[e].poisoned
        \/ entries'[e].state = "EMPTY" /\ entries[e].state # "LOADING"
  BY <1>1, <1>3, EntryTypes
<1>5. RawOK'
  <2>1. SUFFICES ASSUME NEW x \in Threads, NEW e \in Entries,
                        call'[x].kind = "raw", call'[x].pc = "transfer",
                        entries'[e].state # "EMPTY", entries'[e].unit = call'[x].unit
                 PROVE  FALSE
    BY DEF RawOK
  <2>2. entries[e].state # "EMPTY" /\ entries'[e].unit = entries[e].unit
    BY <1>4, <2>1
  <2>3. CASE x # t
    BY <1>2, <2>1, <2>2, <2>3 DEF CInv, RawOK
  <2>4. CASE x = t
    <3>1. e \in find(call[t].unit) /\ call[t].kind = "raw" /\ entries[e].unit = call[t].unit
      BY <1>2, <2>1, <2>2, <2>4 DEF find
    <3>2. entries[e].state = "LOADING"
      BY <1>1, <1>3, <2>1, <3>1, EntryTypes
    <3>3. PICK y \in Fillers : call[y].entry = e
      BY <3>2 DEF IInv, FillingOK
    <3>4. y \in Threads /\ call[y].unit = call[t].unit /\ y # t
      BY <1>1, <3>1, <3>3 DEF IInv, FillingOK, Fillers, Filling
    <3>5. call[t].unit # None
      BY <1>1 DEF IInv, CallsOK
    <3> QED
      BY <3>1, <3>4, <3>5 DEF CInv, Solo
  <2> QED
    BY <2>3, <2>4
<1>6. \A x \in Threads : call[x].pc = "filled" => entries[call[x].entry].state = "LOADING"
  BY FilledHas
<1> QED
  BY <1>1, <1>2, <1>4, <1>5, <1>6, DropCoherent

LEMMA DeviceCoherent ==
    ASSUME IInv, CInv, bcache_invalidate_device \/ bcache_reclaim
    PROVE  CInv'
<1>1. UNCHANGED <<disk, call, fresh>>
  BY DEF bcache_invalidate_device, bcache_reclaim
<1>2. \A e \in Entries : entries[e] \in Entry
  BY DEF IInv, TypeOK
<1>3. \A e \in Entries :
        \/ /\ entries'[e].state = entries[e].state /\ entries'[e].unit = entries[e].unit
           /\ entries'[e].data = entries[e].data
           /\ entries[e].poisoned => entries'[e].poisoned
        \/ entries'[e].state = "EMPTY" /\ entries[e].state # "LOADING"
  <2>1. CASE bcache_invalidate_device
    <3>1. \A e \in Entries : entries'[e] \in {Dropped(entries[e]), entries[e]}
      BY <2>1 DEF bcache_invalidate_device
    <3> QED
      BY <1>2, <3>1, EntryTypes
  <2>2. CASE bcache_reclaim
    <3> DEFINE m == Min(Reclaimable)
    <3>1. m \in Reclaimable /\ m \in Entries
      <4>1. Reclaimable \in SUBSET Nat /\ Reclaimable # {} /\ Reclaimable \subseteq Entries
        BY <2>2 DEF Reclaimable, Entries, bcache_reclaim
      <4> QED
        BY <4>1, MinIsIn
    <3>2. entries' = [entries EXCEPT ![m] = EmptyEntry]
      BY <2>2 DEF bcache_reclaim
    <3> HIDE DEF m
    <3>3. entries[m].state # "LOADING"
      BY <3>1 DEF Reclaimable
    <3>4. \A e \in Entries : entries'[e] = IF e = m THEN EmptyEntry ELSE entries[e]
      BY <3>1, <3>2 DEF IInv, TypeOK
    <3> QED
      BY <3>3, <3>4 DEF EmptyEntry
  <2> QED
    BY <2>1, <2>2
<1>4. RawOK'
  BY <1>1, <1>3, RawStays
<1>5. \A x \in Threads : call[x].pc = "filled" => entries[call[x].entry].state = "LOADING"
  BY FilledHas
<1> QED
  BY <1>1, <1>3, <1>4, <1>5, DropCoherent

\* The data reaches the device.  Until it reaches the cache too, what was
\* there before is still recent: bcache_write's caller has not been told.
LEMMA TransferCoherent ==
    ASSUME IInv, CInv, Overlaps = {}, NEW t \in Threads, Transfer(t)
    PROVE  CInv'
<1> DEFINE u == call[t].unit
<1> DEFINE w == writes + 1
<1>1. /\ call[t].pc = "transfer" /\ UNCHANGED entries
  BY DEF Transfer
<1>2. /\ u \in Units /\ call[t].part \subseteq Blocks
      /\ call[t].kind \in Writers /\ call[t].kind # "read"
  <2>1. call[t].kind \in {None, "read", "cached", "raw"}
    BY Asked DEF Call
  <2> QED
    BY <1>1, <2>1, Asked DEF IInv, CallsOK, Reading, Filling, Writers
<1>3. PICK done \in SUBSET call[t].part :
        /\ done = call[t].part \/ Fails(t)
        /\ disk' \in [Units -> [Blocks -> Values]]
        /\ \A v \in Units : v # u => disk'[v] = disk[v]
        /\ \A b \in Blocks : disk'[u][b] = IF b \in done THEN w ELSE disk[u][b]
        /\ \A x \in Threads, b \in Blocks :
             fresh'[x][b] = IF call[x].unit = u /\ b \in done /\ fresh[x][b] # {}
                            THEN fresh[x][b] \cup {w} ELSE fresh[x][b]
        /\ \A x \in Threads : x # t => call'[x] = call[x]
        /\ \/ call'[t] = Idle
           \/ /\ done = call[t].part /\ call[t].kind = "cached"
              /\ call'[t].pc = "update" /\ call'[t].value = w
              /\ call'[t].got = disk[u]
              /\ call'[t].kind = "cached" /\ call'[t].unit = u
              /\ call'[t].part = call[t].part
  <2>1. PICK done \in SUBSET call[t].part :
             /\ done = call[t].part \/ Fails(t)
             /\ disk' \in [Units -> [Blocks -> Values]]
             /\ \A v \in Units : v # call[t].unit => disk'[v] = disk[v]
             /\ \A b \in Blocks :
                  disk'[call[t].unit][b] = IF b \in done THEN writes + 1
                                                         ELSE disk[call[t].unit][b]
             /\ fresh' \in [Threads -> [Blocks -> SUBSET Values]]
             /\ \A x \in Threads, b \in Blocks :
                  fresh'[x][b] = IF call[x].unit = call[t].unit /\ b \in done
                                      /\ fresh[x][b] # {}
                                 THEN fresh[x][b] \cup {writes + 1} ELSE fresh[x][b]
             /\ call' \in [Threads -> Call]
             /\ \A x \in Threads : x # t => call'[x] = call[x]
             /\ \/ call'[t] = Idle
                \/ /\ done = call[t].part /\ call[t].kind = "cached"
                   /\ call'[t].pc = "update" /\ call'[t].value = writes + 1
                   /\ call'[t].got = disk[call[t].unit]
                   /\ call'[t].kind = "cached" /\ call'[t].unit = call[t].unit
                   /\ call'[t].part = call[t].part /\ call'[t].spare = call[t].spare
    BY TransferDoes
  <2> QED
    BY <2>1, Zenon
<1> HIDE DEF w
\* A write that fails half-way is one past the cache, which is alone.
<1>4. /\ call[t].kind = "cached" =>
           /\ done = call[t].part /\ call'[t].pc = "update" /\ call'[t].unit = u
           /\ call'[t].part = call[t].part /\ call'[t].got = disk[u]
           /\ call'[t].value = w /\ call'[t].kind = "cached"
      /\ call[t].kind = "raw" => call'[t] = Idle
  <2>1. call[t].kind = "cached" =>
           call' = [call EXCEPT ![t] = [call[t] EXCEPT
                      !.pc = "update", !.value = w, !.got = disk[u]]]
    BY DEF Transfer, Fails, w
  <2>2. call[t] \in Call /\ call \in [Threads -> Call]
    BY DEF IInv, TypeOK
  <2>3. call[t].kind = "cached" => call'[t].pc = "update"
    BY <2>1, <2>2 DEF Call
  <2>4. Idle.pc = "idle"
    BY DEF Idle
  <2> QED
    BY <1>3, <2>3, <2>4
<1>5. \A x \in Threads : x # t /\ call[x].unit = u =>
        call[x].kind \notin Writers /\ call[x].pc # "update" /\ call[t].kind = "cached"
  <2>1. u # None
    BY <1>2, BcacheAssumption
  <2> QED
    BY <1>2, <2>1 DEF CInv, Solo, IInv, CallsOK, Writers
<1> HIDE DEF u
\* What was recent still is, when the write goes on to the cache.
<1>6. ASSUME NEW v \in Units, NEW b \in Blocks, NEW d \in Recent[v][b],
             v # u \/ call[t].kind = "cached"
      PROVE  d \in Recent'[v][b]
  <2>1. CASE v # u
    <3>1. disk'[v][b] = disk[v][b]
      BY <1>3, <2>1
    <3>2. \A x \in Threads : call[x].pc = "update" => call'[x] = call[x]
      BY <1>1, <1>3
    <3> QED
      BY <1>6, <3>1, <3>2, RecentMeans
  <2>2. CASE v = u
    <3>1. d = disk[u][b]
      <4>1. \A x \in Threads : call[x].pc = "update" => call[x].unit # u
        BY <1>1, <1>5
      <4> QED
        BY <1>6, <2>2, <4>1, RecentMeans
    <3>2. CASE b \in done
      BY <1>4, <1>6, <2>2, <3>1, <3>2, RecentMeans
    <3>3. CASE b \notin done
      BY <1>3, <2>2, <3>1, <3>3, RecentMeans
    <3> QED
      BY <3>2, <3>3
  <2> QED
    BY <2>1, <2>2
\* Nothing else becomes recent than what is written.
<1>7. ASSUME NEW v \in Units, NEW b \in Blocks, NEW d \in Recent'[v][b]
      PROVE  d \in Recent[v][b] \/ (v = u /\ b \in done /\ d = w)
  <2>1. CASE d = disk'[v][b]
    <3>1. d = disk[v][b] \/ (v = u /\ b \in done /\ d = w)
      BY <1>3, <2>1
    <3> QED
      BY <3>1, RecentMeans
  <2>2. CASE \E x \in Threads : /\ call'[x].pc = "update" /\ call'[x].unit = v
                                /\ b \in call'[x].part /\ d = call'[x].got[b]
    <3>1. PICK x \in Threads : /\ call'[x].pc = "update" /\ call'[x].unit = v
                               /\ b \in call'[x].part /\ d = call'[x].got[b]
      BY <2>2
    <3>2. CASE x = t
      <4>1. v = u /\ d = disk[u][b]
        BY <1>3, <3>1, <3>2 DEF Idle
      <4> QED
        BY <4>1, RecentMeans
    <3>3. CASE x # t
      BY <1>3, <3>1, <3>3, RecentMeans
    <3> QED
      BY <3>2, <3>3
  <2> QED
    BY <1>7, <2>1, <2>2, RecentMeans
<1>8. Solo'
  <2>1. \A x \in Threads : \/ call'[x] = Idle
                           \/ call'[x].kind = call[x].kind /\ call'[x].unit = call[x].unit
    BY <1>3 DEF u
  <2>2. Idle.unit = None
    BY DEF Idle
  <2> QED
    BY <2>1, <2>2 DEF CInv, Solo
<1>9. RawOK'
  <2>1. \A x \in Threads : call'[x].pc = "transfer" => call'[x] = call[x]
    BY <1>3 DEF Idle
  <2> QED
    BY <1>1, <2>1, RawStays
<1>10. WrittenOK'
  <2>1. ASSUME NEW x \in Threads, call'[x].pc = "update", NEW b \in call'[x].part
        PROVE  disk'[call'[x].unit][b] = call'[x].value
    <3>1. CASE x = t
      BY <1>2, <1>3, <2>1, <3>1 DEF Idle
    <3>2. CASE x # t
      <4>1. /\ call[x].pc = "update" /\ b \in call[x].part /\ call'[x] = call[x]
            /\ call[x].unit # u /\ call[x].unit \in Units
        BY <1>3, <1>5, <2>1, <3>2, Asked
      <4> QED
        BY <1>3, <4>1 DEF CInv, WrittenOK
    <3> QED
      BY <3>1, <3>2
  <2> QED
    BY <2>1 DEF WrittenOK
<1>11. ValidOK'
  <2>1. ASSUME NEW e \in Entries, NEW b \in Blocks, entries[e].state = "VALID"
        PROVE  entries[e].data[b] \in Recent'[entries[e].unit][b]
    <3>1. /\ entries[e].data[b] \in Recent[entries[e].unit][b]
          /\ entries[e].unit \in Units
      BY <2>1 DEF CInv, ValidOK, IInv, EntriesOK
    <3>2. call[t].kind = "raw" => entries[e].unit # u
      BY <1>1, <2>1 DEF CInv, RawOK, u
    <3>3. call[t].kind = "raw" \/ call[t].kind = "cached"
      BY <1>2 DEF Writers
    <3> QED
      BY <1>6, <3>1, <3>2, <3>3
  <2> QED
    BY <1>1, <2>1 DEF ValidOK
<1>12. FilledOK'
  <2>1. ASSUME NEW x \in Threads, NEW b \in Blocks, call'[x].pc = "filled",
               ~entries[call'[x].entry].poisoned
        PROVE  entries[call'[x].entry].data[b] \in Recent'[call'[x].unit][b]
    <3>1. x # t /\ call'[x] = call[x]
      BY <1>3, <2>1 DEF Idle
    <3>2. entries[call[x].entry].data[b] \in Recent[call[x].unit][b] /\ call[x].unit \in Units
      BY <2>1, <3>1, Asked DEF CInv, FilledOK
    <3>3. call[x].unit # u \/ call[t].kind = "cached"
      BY <1>5, <3>1
    <3> QED
      BY <1>6, <3>1, <3>2, <3>3
  <2> QED
    BY <1>1, <2>1 DEF FilledOK
<1>13. FreshOK'
  <2>1. SUFFICES ASSUME NEW x \in Threads, call'[x].kind = "read", NEW b \in call'[x].part
                 PROVE  /\ Recent'[call'[x].unit][b] \subseteq fresh'[x][b]
                        /\ call'[x].pc = "filled" =>
                             entries[call'[x].entry].data[b] \in fresh'[x][b]
                        /\ call'[x].pc = "return" => call'[x].got[b] \in fresh'[x][b]
    BY <1>1 DEF FreshOK
  <2>2. x # t /\ call'[x] = call[x]
    BY <1>3, <2>1, BcacheAssumption DEF Idle
  <2>3. b \in Blocks /\ call[x].unit \in Units /\ call[x].pc \in Reading
    BY <2>1, <2>2, Asked DEF IInv, CallsOK, Reading, Filling
  <2>4. fresh[x][b] \subseteq fresh'[x][b]
    BY <1>3, <2>3
  <2>5. /\ Recent[call[x].unit][b] \subseteq fresh[x][b]
        /\ call[x].pc = "filled" => entries[call[x].entry].data[b] \in fresh[x][b]
        /\ call[x].pc = "return" => call[x].got[b] \in fresh[x][b]
    BY <2>1, <2>2 DEF CInv, FreshOK
  <2>6. ASSUME call[x].unit = u, b \in done PROVE w \in fresh'[x][b]
    <3>1. disk[u][b] \in Recent[u][b]
      BY <1>2, <2>3, RecentMeans DEF u
    <3>2. fresh[x][b] # {}
      BY <2>5, <2>6, <3>1
    <3>3. fresh'[x][b] = IF call[x].unit = u /\ b \in done /\ fresh[x][b] # {}
                         THEN fresh[x][b] \cup {w} ELSE fresh[x][b]
      BY <1>3, <2>3
    <3> QED
      BY <2>6, <3>2, <3>3
  <2>7. Recent'[call[x].unit][b] \subseteq fresh'[x][b]
    BY <1>7, <2>3, <2>4, <2>5, <2>6
  <2> QED
    BY <2>2, <2>4, <2>5, <2>7
<1> QED
  BY <1>8, <1>9, <1>10, <1>11, <1>12, <1>13 DEF CInv

\* The write reaches the cache: its unit's entry holds what the disk holds, is
\* poisoned, or was not there.
LEMMA UpdateCoherent ==
    ASSUME IInv, CInv, NEW t \in Threads, Update(t)
    PROVE  CInv'
<1> DEFINE u == call[t].unit
<1>1. call[t].pc = "update" /\ Ends(t) /\ UNCHANGED disk
  BY DEF Update
<1>2. /\ call'[t] = Idle
      /\ \A x \in Threads : x # t => call'[x] = call[x] /\ fresh'[x] = fresh[x]
  BY <1>1, CallTypes
<1>3. /\ u \in Units /\ call[t].part \subseteq Blocks /\ call[t].kind = "cached"
      /\ \A b \in call[t].part : disk[u][b] = call[t].value
  BY <1>1, Asked DEF IInv, CallsOK, CInv, WrittenOK
<1>4. Idle.pc = "idle" /\ Idle.unit = None /\ Idle.kind = None /\ None # "read"
      /\ u # None
  BY <1>3, BcacheAssumption DEF Idle
<1>5. \A x \in Threads : x # t /\ call[x].unit = u => call[x].pc # "update"
  BY <1>3, <1>4 DEF CInv, Solo, IInv, CallsOK, Writers
<1> HIDE DEF u
\* Recent values of the unit are now what the disk holds.
<1>6. \A v \in Units, b \in Blocks : v # u => Recent'[v][b] = Recent[v][b]
  <2>1. ASSUME NEW v \in Units, NEW b \in Blocks, v # u, NEW d
        PROVE  d \in Recent'[v][b] <=> d \in Recent[v][b]
    <3>1. \A x \in Threads : (call[x].pc = "update" /\ call[x].unit = v)
                               \/ (call'[x].pc = "update" /\ call'[x].unit = v)
                             => call'[x] = call[x]
      BY <1>2, <1>4, <2>1 DEF u
    <3> QED
      BY <1>1, <3>1, RecentMeans
  <2> QED
    BY <2>1
<1>7. \A b \in Blocks : \A d : d \in Recent'[u][b] <=> d = disk[u][b]
  <2>1. \A x \in Threads : call'[x].pc = "update" => call'[x].unit # u
    BY <1>2, <1>4, <1>5
  <2> QED
    BY <1>1, <1>3, <2>1, RecentMeans
<1>8. \A b \in Blocks : \A d : d \in Recent[u][b] /\ b \notin call[t].part => d = disk[u][b]
  BY <1>3, <1>5, RecentMeans DEF u
<1>9. \A v \in Units, b \in Blocks : Recent'[v][b] \subseteq Recent[v][b]
  BY <1>1, <1>3, <1>6, <1>7, RecentMeans
<1>10. Solo' /\ WrittenOK'
  BY <1>1, <1>2, <1>4 DEF CInv, Solo, WrittenOK
<1>11. /\ entries' \in [Entries -> Entry]
       /\ Refreshes(t) \/ Poisons(t) \/ Adds(t) \/ (entries' = entries /\ find(u) = {})
  BY UpdateDoes DEF u
\* Every entry that answers reads or will.
<1>12. \A e \in Entries :
         /\ entries'[e].state = "VALID" =>
              \/ /\ entries'[e].unit = u
                 /\ \A b \in Blocks : entries'[e].data[b] = disk[u][b]
              \/ /\ entries[e].state = "VALID" /\ entries'[e].unit # u
                 /\ entries'[e].unit = entries[e].unit
                 /\ entries'[e].data = entries[e].data
         /\ entries[e].state = "LOADING" =>
              /\ entries'[e].state = "LOADING" /\ entries'[e].unit = entries[e].unit
              /\ entries'[e].data = entries[e].data
              /\ entries[e].poisoned => entries'[e].poisoned
              /\ entries[e].unit = u => entries'[e].poisoned
         /\ entries'[e].state # "EMPTY" =>
              \/ entries[e].state # "EMPTY" /\ entries'[e].unit = entries[e].unit
              \/ entries'[e].unit = u
  <2>1. CASE Refreshes(t)
    <3>1. PICK e \in Entries :
            /\ entries[e].state = "VALID" /\ entries[e].unit = u
            /\ entries'[e].state = "VALID" /\ entries'[e].unit = entries[e].unit
            /\ \A b \in Blocks : entries'[e].data[b] = IF b \in call[t].part THEN call[t].value
                                                       ELSE entries[e].data[b]
            /\ \A f \in Entries : f # e => entries'[f] = entries[f]
      BY <2>1 DEF Refreshes, u
    <3>2. \A b \in Blocks : entries'[e].data[b] = disk[u][b]
      BY <1>3, <1>8, <3>1 DEF CInv, ValidOK
    <3>3. \A f \in Entries : f # e /\ entries[f].state # "EMPTY" => entries[f].unit # u
      BY <3>1 DEF IInv, UnitOnce
    <3> QED
      BY <3>1, <3>2, <3>3
  <2>2. CASE Poisons(t)
    <3>1. PICK e \in Entries :
            /\ entries[e].state = "LOADING" /\ entries[e].unit = u
            /\ entries'[e].state = "LOADING" /\ entries'[e].unit = entries[e].unit
            /\ entries'[e].data = entries[e].data /\ entries'[e].poisoned
            /\ \A f \in Entries : f # e => entries'[f] = entries[f]
      BY <2>2 DEF Poisons, u
    <3>2. \A f \in Entries : f # e /\ entries[f].state # "EMPTY" => entries[f].unit # u
      BY <3>1 DEF IInv, UnitOnce
    <3> QED
      BY <3>1, <3>2
  <2>3. CASE Adds(t)
    <3>1. \A f \in Entries : entries[f].state # "EMPTY" => entries[f].unit # u
      BY <2>3 DEF Adds, u
    <3>2. PICK v \in Entries :
            /\ entries[v].state # "LOADING"
            /\ \/ entries'[v].state = "EMPTY"
               \/ /\ entries'[v].state = "VALID" /\ entries'[v].unit = u
                  /\ \A b \in Blocks :
                       entries'[v].data[b] = IF b \in call[t].part THEN call[t].value
                                             ELSE disk[u][b]
            /\ \A f \in Entries : f # v =>
                 /\ entries'[f].state = entries[f].state /\ entries'[f].unit = entries[f].unit
                 /\ entries'[f].data = entries[f].data
                 /\ entries'[f].poisoned = entries[f].poisoned
      BY <2>3 DEF Adds, u
    <3>3. entries'[v].state = "EMPTY" \/ \A b \in Blocks : entries'[v].data[b] = disk[u][b]
      BY <1>3, <3>2
    <3>4. ASSUME NEW f \in Entries, f # v, entries[f].state # "EMPTY"
          PROVE  entries'[f].unit # u
      BY <3>1, <3>2, <3>4
    <3> QED
      BY <3>1, <3>2, <3>3, <3>4
  <2>4. CASE entries' = entries /\ find(u) = {}
    <3>1. \A f \in Entries : entries[f].state # "EMPTY" => entries[f].unit # u
      BY <2>4 DEF find
    <3> QED
      BY <2>4, <3>1
  <2> QED
    BY <1>11, <2>1, <2>2, <2>3, <2>4
<1>13. RawOK'
  <2>1. \A x \in Threads : call'[x].pc = "transfer" => call'[x] = call[x]
    BY <1>2, <1>4
  <2> QED
    BY <1>3, <1>12, <2>1, RawStays DEF u
<1>14. ValidOK'
  <2>1. ASSUME NEW e \in Entries, NEW b \in Blocks, entries'[e].state = "VALID"
        PROVE  entries'[e].data[b] \in Recent'[entries'[e].unit][b]
    <3>1. CASE entries'[e].unit = u /\ \A c \in Blocks : entries'[e].data[c] = disk[u][c]
      BY <1>7, <3>1
    <3>2. CASE /\ entries[e].state = "VALID" /\ entries'[e].unit # u
               /\ entries'[e].unit = entries[e].unit /\ entries'[e].data = entries[e].data
      <4>1. entries[e].data[b] \in Recent[entries[e].unit][b] /\ entries[e].unit \in Units
        BY <3>2 DEF CInv, ValidOK, IInv, EntriesOK
      <4> QED
        BY <1>6, <3>2, <4>1
    <3> QED
      BY <1>12, <2>1, <3>1, <3>2
  <2> QED
    BY <2>1 DEF ValidOK
<1>15. FilledOK'
  <2>1. ASSUME NEW x \in Threads, NEW b \in Blocks, call'[x].pc = "filled",
               ~entries'[call'[x].entry].poisoned
        PROVE  entries'[call'[x].entry].data[b] \in Recent'[call'[x].unit][b]
    <3>1. x # t /\ call'[x] = call[x]
      BY <1>2, <1>4, <2>1
    <3>2. /\ call[x].entry \in Entries /\ entries[call[x].entry].state = "LOADING"
          /\ entries[call[x].entry].unit = call[x].unit /\ call[x].unit \in Units
      BY <2>1, <3>1, Asked DEF IInv, FillingOK, Fillers, Filling
    <3>3. /\ entries'[call[x].entry].data = entries[call[x].entry].data
          /\ ~entries[call[x].entry].poisoned /\ call[x].unit # u
      BY <1>12, <2>1, <3>1, <3>2
    <3>4. entries[call[x].entry].data[b] \in Recent[call[x].unit][b]
      BY <2>1, <3>1, <3>3 DEF CInv, FilledOK
    <3> QED
      BY <1>6, <3>1, <3>2, <3>3, <3>4
  <2> QED
    BY <2>1 DEF FilledOK
<1>16. FreshOK'
  <2>1. SUFFICES ASSUME NEW x \in Threads, call'[x].kind = "read", NEW b \in call'[x].part
                 PROVE  /\ Recent'[call'[x].unit][b] \subseteq fresh'[x][b]
                        /\ call'[x].pc = "filled" =>
                             entries'[call'[x].entry].data[b] \in fresh'[x][b]
                        /\ call'[x].pc = "return" => call'[x].got[b] \in fresh'[x][b]
    BY DEF FreshOK
  <2>2. x # t /\ call'[x] = call[x] /\ fresh'[x] = fresh[x]
    BY <1>2, <1>4, <2>1
  <2>3. b \in Blocks /\ call[x].unit \in Units
    BY <2>1, <2>2, Asked DEF IInv, CallsOK, Reading, Filling
  <2>4. /\ Recent[call[x].unit][b] \subseteq fresh[x][b]
        /\ call[x].pc = "filled" => entries[call[x].entry].data[b] \in fresh[x][b]
        /\ call[x].pc = "return" => call[x].got[b] \in fresh[x][b]
    BY <2>1, <2>2 DEF CInv, FreshOK
  <2>5. call[x].pc = "filled" => entries'[call[x].entry].data = entries[call[x].entry].data
    BY <1>12, FilledHas
  <2> QED
    BY <1>9, <2>2, <2>3, <2>4, <2>5
<1> QED
  BY <1>10, <1>13, <1>14, <1>15, <1>16 DEF CInv

-----------------------------------------------------------------------------
(* The theorems.                                                           *)

LEMMA InitEstablishes ==
    ASSUME Init PROVE IInv /\ CInv
<1>1. Idle \in Call /\ EmptyEntry \in Entry
  BY BcacheAssumption, EntryTypes DEF Idle, Call, Steps, Buffer, Values
<1>2. /\ \A t \in Threads : call[t] = Idle
      /\ \A e \in Entries : entries[e] = EmptyEntry
  BY DEF Init
<1>3. /\ Idle.pc = "idle" /\ Idle.unit = None /\ Idle.kind = None /\ ~Idle.spare
      /\ EmptyEntry.state = "EMPTY" /\ ~EmptyEntry.page
  BY DEF Idle, EmptyEntry
<1>4. TypeOK
  <2>1. 0 \in Entries /\ 0 \in Values /\ MaxPages \in 0 .. MaxPages
    BY BcacheAssumption DEF Entries, Values
  <2> QED
    BY <1>1, <2>1 DEF Init, TypeOK
<1>5. CallsOK
  BY <1>2, <1>3, BcacheAssumption DEF CallsOK, Reading, Filling
<1>6. EntriesOK /\ UnitOnce
  BY <1>2, <1>3 DEF EntriesOK, UnitOnce
<1>7. FillingOK
  BY <1>2, <1>3 DEF FillingOK, Fillers, Filling
<1>8. PagesOK
  <2>1. Paged = {} /\ Spares = {}
    BY <1>2, <1>3 DEF Paged, Spares
  <2>2. Cardinality({}) = 0 /\ MaxPages \in Nat /\ free_pages = MaxPages
    BY FS_EmptySet, BcacheAssumption DEF Init
  <2> QED
    BY <2>1, <2>2 DEF PagesOK
<1>9. CInv
  BY <1>2, <1>3, BcacheAssumption
     DEF CInv, Solo, RawOK, WrittenOK, ValidOK, FilledOK, FreshOK
<1> QED
  BY <1>4, <1>5, <1>6, <1>7, <1>8, <1>9 DEF IInv

LEMMA NextKeeps ==
    ASSUME IInv, [Next]_vars PROVE IInv'
<1>1. CASE UNCHANGED vars
  BY <1>1 DEF vars, IInv, TypeOK, CallsOK, EntriesOK, UnitOnce, FillingOK, PagesOK,
              Fillers, Spares, Paged
<1>2. ASSUME NEW t \in Threads, NEW k \in {"read"} \cup Writers, NEW u \in Units,
             NEW part \in ReadParts \cup WriteParts, Start(t, k, u, part)
      PROVE  IInv'
  <2>1. part \in SUBSET Blocks
    BY BcacheAssumption
  <2> QED
    BY <1>2, <2>1, StartKeeps
<1>3. ASSUME NEW t \in Threads, Read(t) PROVE IInv'
  BY <1>3, LookupKeeps, GetPageKeeps, InstallKeeps, FillKeeps, FillDoneKeeps,
     FillFailedKeeps, UncachedKeeps DEF Read
<1>4. ASSUME NEW t \in Threads, Write(t) PROVE IInv'
  BY <1>4, InvalidateKeeps, TransferKeeps, UpdateKeeps DEF Write
<1> QED
  BY <1>1, <1>2, <1>3, <1>4, DeviceKeeps, ReclaimKeeps, BcacheAssumption DEF Next

LEMMA NextCoherent ==
    ASSUME IInv, CInv, Overlaps = {}, [Next]_vars PROVE CInv'
<1>1. CASE UNCHANGED vars
  <2>1. Recent' = Recent
    BY <1>1, SameRecent DEF vars
  <2> QED
    BY <1>1, <2>1 DEF vars, CInv, Solo, RawOK, WrittenOK, ValidOK, FilledOK, FreshOK
<1>2. ASSUME NEW t \in Threads, NEW k \in {"read"} \cup Writers, NEW u \in Units,
             NEW part \in ReadParts \cup WriteParts, Start(t, k, u, part)
      PROVE  CInv'
  <2>1. part \in SUBSET Blocks
    BY BcacheAssumption
  <2> QED
    BY <1>2, <2>1, StartCoherent
<1>3. ASSUME NEW t \in Threads, Read(t) PROVE CInv'
  BY <1>3, LookupCoherent, GetPageCoherent, InstallCoherent, FillCoherent,
     FillDoneCoherent, FillFailedCoherent, UncachedCoherent DEF Read
<1>4. ASSUME NEW t \in Threads, Write(t) PROVE CInv'
  BY <1>4, InvalidateCoherent, TransferCoherent, UpdateCoherent DEF Write
<1> QED
  BY <1>1, <1>2, <1>3, <1>4, DeviceCoherent, BcacheAssumption DEF Next

\* The invariant that does not depend on what callers do at once.
THEOREM Invariance == Spec => []IInv
<1>1. Init => IInv
  BY InitEstablishes
<1>2. IInv /\ [Next]_vars => IInv'
  BY NextKeeps
<1> QED
  BY <1>1, <1>2, PTL DEF Spec

\* The entries, the calls and the page count keep to their types: in
\* particular the pages given back never exceed what there was.
THEOREM TypeCorrect == Spec => []TypeOK
<1>1. IInv => TypeOK
  BY DEF IInv
<1> QED
  BY <1>1, Invariance, PTL

\* Whoever reads, writes, evicts, invalidates and reclaims at once, a unit has
\* one entry, a page that is being filled belongs to its filler, and no page
\* is lost (the second look under the lock in bcache_read, evict and
\* bcache_reclaim passing over LOADING entries, and the spare page's fate).
THEOREM OwnedOnce == Spec => []OneOwner
<1>1. IInv => OneOwner
  <2> SUFFICES ASSUME IInv PROVE OneOwner
    OBVIOUS
  <2>1. \A t \in Threads : call[t].pc \in {"fill", "filled", "unfilled"} =>
          LET r == entries[call[t].entry]
          IN  r.state = "LOADING" /\ r.unit = call[t].unit /\ r.page
    BY DEF IInv, FillingOK, Fillers, Filling, EntriesOK
  <2>2. free_pages + PagesHeld + Cardinality({t \in Threads : call[t].spare}) = MaxPages
    BY DEF IInv, PagesOK, Paged, Spares, PagesHeld
  <2> QED
    BY <2>1, <2>2 DEF IInv, UnitOnce, OneOwner
<1> QED
  BY <1>1, Invariance, PTL

\* With one writer of a unit and nobody writing past the cache beside others,
\* both invariants hold.
THEOREM CoherentInvariance ==
    ASSUME Overlaps = {} PROVE Spec => [](IInv /\ CInv)
<1>1. Init => IInv /\ CInv
  BY InitEstablishes
<1>2. (IInv /\ CInv) /\ [Next]_vars => (IInv /\ CInv)'
  BY NextKeeps, NextCoherent
<1> QED
  BY <1>1, <1>2, PTL DEF Spec

\* With callers like that a VALID entry holds what the disk holds, except
\* while a write is between the device and the cache (bcache_write's poisoning
\* of a unit being loaded, block_write's invalidation).
THEOREM CacheCoherent ==
    ASSUME Overlaps = {} PROVE Spec => []Coherent
<1>1. IInv /\ CInv => Coherent
  <2> SUFFICES ASSUME IInv, CInv, NEW e \in Entries, entries[e].state = "VALID",
                      ~\E t \in Threads :
                         call[t].unit = entries[e].unit /\ call[t].pc = "update"
               PROVE  entries[e].data = disk[entries[e].unit]
    BY DEF Coherent
  <2>1. /\ entries[e].unit \in Units /\ entries[e].data \in [Blocks -> Values]
        /\ disk[entries[e].unit] \in [Blocks -> Values]
    BY DEF IInv, EntriesOK, TypeOK
  <2>2. \A b \in Blocks : entries[e].data[b] = disk[entries[e].unit][b]
    BY <2>1, RecentMeans DEF CInv, ValidOK
  <2> QED
    BY <2>1, <2>2
<1> QED
  BY <1>1, CoherentInvariance, PTL

\* And a read returns, for each block, what the disk held at some time during
\* the read or what a write not yet returned was replacing there: whether it
\* came from the cache, from its own fill, poisoned or not, or past the cache.
THEOREM FreshReads ==
    ASSUME Overlaps = {} PROVE Spec => []ReadsAreFresh
<1>1. IInv /\ CInv => ReadsAreFresh
  BY DEF CInv, FreshOK, ReadsAreFresh
<1> QED
  BY <1>1, CoherentInvariance, PTL
=============================================================================
