------------------------------- MODULE Bcache -------------------------------
(***************************************************************************)
(* The block cache, kernel/core/bcache.c, between its callers and the      *)
(* block layer: bcache_read and bcache_write, the block_write and          *)
(* block_discard of callers that do not know of it, invalidation, the      *)
(* clock that chooses a victim and the pages that entries keep.            *)
(*                                                                         *)
(* A call that covers several units repeats what is here for each of them. *)
(* Entries are keyed by the root device's own block numbers, so a slice    *)
(* and its disk are one device here.  The device does one request at a     *)
(* time (BlockQueue), and no lock is held across it.                       *)
(***************************************************************************)
EXTENDS Integers, FiniteSets, FiniteSetsExt

CONSTANTS
    Threads, CanRead, CanWrite,     \* who does what
    BCACHE_UNITS,
    Units, Tail,        \* what is read and written; units off the disk's end
    Blocks,             \* the blocks of a unit
    ReadParts, WriteParts,  \* the parts of a unit a call asks for
    MaxWrites,          \* bound on the transfers that change the disk
    MaxPages,           \* pages the allocator has for the cache
    Overlaps,           \* what callers do at once: see MayStart and Fails
    None

Entries == 0 .. BCACHE_UNITS - 1
Values  == 0 .. MaxWrites

ASSUME BcacheAssumption ==
    /\ IsFiniteSet(Threads) /\ CanRead \cup CanWrite \subseteq Threads
    /\ BCACHE_UNITS \in Nat \ {0} /\ {MaxWrites, MaxPages} \subseteq Nat
    /\ Tail \subseteq Units
    /\ ReadParts \cup WriteParts \subseteq SUBSET Blocks \ {{}}
    /\ Overlaps \subseteq {"raw", "writers", "failure"}
    /\ None \notin Units \cup Entries /\ None \notin {"read", "cached", "raw"}

VARIABLES
    disk,       \* what the device holds, by unit and block
    entries,    \* struct entry
    hand,       \* the clock
    free_pages, \* what pmm_alloc_page can still give
    call,       \* what each thread is doing
    writes,     \* history: transfers so far; each writes a value of its own
    fresh       \* history: what a read may return, by thread and block

vars == <<disk, entries, hand, free_pages, call, writes, fresh>>

Idle == [pc |-> "idle", kind |-> None, unit |-> None, part |-> {},
         entry |-> None, spare |-> FALSE, value |-> 0, got |-> <<>>]

\* data is what its page holds; nobody looks at the page of an empty entry.
EmptyEntry == [state |-> "EMPTY", unit |-> None, referenced |-> FALSE,
               poisoned |-> FALSE, page |-> FALSE, data |-> <<>>]

Init ==
    /\ disk = [u \in Units |-> [b \in Blocks |-> 0]]
    /\ entries = [e \in Entries |-> EmptyEntry]
    /\ hand = 0
    /\ free_pages = MaxPages
    /\ call = [t \in Threads |-> Idle]
    /\ writes = 0
    /\ fresh = [t \in Threads |-> [b \in Blocks |-> {}]]

find(u) == {e \in Entries : entries[e].state # "EMPTY" /\ entries[e].unit = u}

forgotten(r) == [r EXCEPT !.state = "EMPTY", !.unit = None,
                          !.referenced = FALSE, !.poisoned = FALSE,
                          !.data = <<>>]

PagesHeld == Cardinality({e \in Entries : entries[e].page})

-----------------------------------------------------------------------------
(* The clock.  An entry stops the hand when it is empty, or valid and not  *)
(* referenced, which on the second turn every valid one is.                *)

At(i) == (hand + i) % BCACHE_UNITS

StopsHand(i) ==
    LET r == entries[At(i)]
    IN  \/ r.state = "EMPTY"
        \/ r.state = "VALID" /\ (~r.referenced \/ i >= BCACHE_UNITS)

Stops == {i \in 0 .. 2 * BCACHE_UNITS - 1 : StopsHand(i)}

HasVictim == Stops # {}
victim    == At(Min(Stops))

\* Every entry the hand passed has lost its reference, the victim its unit.
Swept ==
    [e \in Entries |->
       IF e = victim THEN forgotten(entries[e])
       ELSE IF /\ entries[e].state = "VALID"
               /\ \E i \in 0 .. Min(Stops) - 1 : At(i) = e
            THEN [entries[e] EXCEPT !.referenced = FALSE]
            ELSE entries[e]]

HandAfter == At(Min(Stops) + 1)

-----------------------------------------------------------------------------
(* Calls.                                                                  *)

Goes(t, pc) == call' = [call EXCEPT ![t].pc = pc]

\* A spare page that was not used goes back.
Ends(t) ==
    /\ call' = [call EXCEPT ![t] = Idle]
    /\ fresh' = [fresh EXCEPT ![t] = [b \in Blocks |-> {}]]
    /\ free_pages' = free_pages + (IF call[t].spare THEN 1 ELSE 0)

\* "raw" is block_write, or block_discard, by a caller that goes past the
\* cache.
Writers == {"cached", "raw"}

\* What callers may do at once to one unit.  ReconFS, the only caller that
\* reads through the cache, has one writer of a block; a raw writer has the
\* disk, or its part of it, to itself.
Others(t, u) == {call[x].kind : x \in {y \in Threads \ {t} : call[y].unit = u}}
MayStart(t, k, u) ==
    /\ "writers" \in Overlaps \/ k = "read" \/ Others(t, u) \cap Writers = {}
    /\ \/ "raw" \in Overlaps
       \/ IF k = "raw" THEN Others(t, u) = {} ELSE "raw" \notin Others(t, u)

\* What a read of b may return when it begins: what is on the disk, or what
\* a write that has not returned has just replaced there.
Held(u, b) ==
    {disk[u][b]} \cup {call[x].got[b] : x \in {y \in Threads :
        call[y].unit = u /\ call[y].pc = "update" /\ b \in call[y].part}}

Start(t, k, u, part) ==
    /\ call[t].pc = "idle" /\ MayStart(t, k, u)
    /\ k = "read" \/ writes < MaxWrites
    /\ call' = [call EXCEPT ![t] =
         [Idle EXCEPT !.kind = k, !.unit = u, !.part = part,
                      !.pc = IF k = "read" THEN "lookup" ELSE "invalidate"]]
    /\ fresh' = [fresh EXCEPT ![t] =
         [b \in Blocks |-> IF k = "read" /\ b \in part THEN Held(u, b) ELSE {}]]
    /\ UNCHANGED <<disk, entries, hand, free_pages, writes>>

-----------------------------------------------------------------------------
(* bcache_read                                                             *)

Returns(t, data) ==
    [call EXCEPT ![t].pc = "return",
                 ![t].got = [b \in call[t].part |-> data[b]]]

\* The first look, with the lock held.
Lookup(t) ==
    LET u == call[t].unit
    IN  /\ call[t].pc = "lookup"
        /\ \/ \E e \in find(u) :
                /\ entries[e].state = "VALID"
                /\ entries' = [entries EXCEPT ![e].referenced = TRUE]
                /\ call' = Returns(t, entries[e].data)
           \/ /\ \E e \in find(u) : entries[e].state = "LOADING"
              /\ Goes(t, "uncached")
              /\ UNCHANGED entries
           \/ /\ find(u) = {}
              /\ Goes(t, IF u \in Tail THEN "uncached"
                         ELSE IF PagesHeld < BCACHE_UNITS /\ ~call[t].spare
                              THEN "page" ELSE "install")
              /\ UNCHANGED entries
        /\ UNCHANGED <<disk, hand, free_pages, writes, fresh>>

\* pmm_alloc_page, with no lock held.
GetPage(t) ==
    /\ call[t].pc = "page"
    /\ IF free_pages = 0
       THEN Goes(t, "uncached") /\ UNCHANGED free_pages
       ELSE /\ call' = [call EXCEPT ![t].pc = "install", ![t].spare = TRUE]
            /\ free_pages' = free_pages - 1
    /\ UNCHANGED <<disk, entries, hand, writes, fresh>>

\* Mutant: the unit is not looked up again after the lock was dropped.
Again_assumed(t) == FALSE

\* The world may have moved: another thread may have filled this very unit.
Again(t) == find(call[t].unit) # {}

\* The second look: an entry is taken for the unit, or the read does without.
Install(t) ==
    LET spare == call[t].spare
        e     == victim
    IN  /\ call[t].pc = "install"
        /\ \/ Again(t) /\ Goes(t, "lookup") /\ UNCHANGED <<entries, hand>>
           \/ /\ ~Again(t) /\ ~HasVictim
              /\ Goes(t, "uncached")
              /\ UNCHANGED <<entries, hand>>
           \/ /\ ~Again(t) /\ HasVictim
              /\ hand' = HandAfter
              /\ IF entries[e].page \/ spare
                 THEN /\ entries' = [Swept EXCEPT ![e] =
                           [@ EXCEPT !.state = "LOADING", !.unit = call[t].unit,
                                     !.referenced = TRUE, !.page = TRUE]]
                      /\ call' = [call EXCEPT
                           ![t].pc = "fill", ![t].entry = e,
                           ![t].spare = spare /\ entries[e].page]
                 ELSE entries' = Swept /\ Goes(t, "uncached")
        /\ UNCHANGED <<disk, free_pages, writes, fresh>>

\* The device reads the whole unit into the entry's page, or fails.
Fill(t) ==
    /\ call[t].pc = "fill"
    /\ \/ /\ entries' = [entries EXCEPT
               ![call[t].entry].data = disk[call[t].unit]]
          /\ Goes(t, "filled")
       \/ Goes(t, "unfilled") /\ UNCHANGED entries
    /\ UNCHANGED <<disk, hand, free_pages, writes, fresh>>

\* Mutant: what came while the unit was read does not matter.
Keeps_all(r) == TRUE

Keeps(r) == ~r.poisoned

FillDone(t) ==
    LET e == call[t].entry
    IN  /\ call[t].pc = "filled"
        /\ call' = Returns(t, entries[e].data)
        /\ entries' = [entries EXCEPT ![e] =
             IF Keeps(@) THEN [@ EXCEPT !.state = "VALID"] ELSE forgotten(@)]
        /\ UNCHANGED <<disk, hand, free_pages, writes, fresh>>

FillFailed(t) ==
    /\ call[t].pc = "unfilled"
    /\ entries' = [entries EXCEPT ![call[t].entry] = forgotten(@)]
    /\ Ends(t)
    /\ UNCHANGED <<disk, hand, writes>>

Uncached(t) ==
    /\ call[t].pc = "uncached"
    /\ \/ /\ call' = Returns(t, disk[call[t].unit])
          /\ UNCHANGED <<free_pages, fresh>>
       \/ Ends(t)
    /\ UNCHANGED <<disk, entries, hand, writes>>

Return(t) ==
    /\ call[t].pc = "return"
    /\ Ends(t)
    /\ UNCHANGED <<disk, entries, hand, writes>>

-----------------------------------------------------------------------------
(* Writing.  block_write and block_discard invalidate and then go to the   *)
(* device; bcache_write goes on to bring the cache up to date.             *)

Dropped(r) == IF r.state = "LOADING" THEN [r EXCEPT !.poisoned = TRUE]
                                     ELSE forgotten(r)

bcache_invalidate(t) ==
    /\ call[t].pc = "invalidate"
    /\ entries' = [e \in Entries |->
         IF e \in find(call[t].unit) THEN Dropped(entries[e]) ELSE entries[e]]
    /\ Goes(t, "transfer")
    /\ UNCHANGED <<disk, hand, free_pages, writes, fresh>>

\* A transfer reaches every block it names; one that fails, or a discard, any
\* of them.  The thread keeps what it replaced, for the history only.
Fails(t) == call[t].kind # "cached" \/ "failure" \in Overlaps

Transfer(t) ==
    LET u == call[t].unit
        w == writes + 1
    IN  /\ call[t].pc = "transfer" /\ writes < MaxWrites
        /\ \E done \in SUBSET call[t].part :
             LET all == done = call[t].part
             IN  /\ all \/ Fails(t)
                 /\ disk' = [disk EXCEPT ![u] =
                      [b \in Blocks |-> IF b \in done THEN w ELSE @[b]]]
                 /\ fresh' = [x \in Threads |-> [b \in Blocks |->
                      IF call[x].unit = u /\ b \in done /\ fresh[x][b] # {}
                      THEN fresh[x][b] \cup {w} ELSE fresh[x][b]]]
                 /\ call' = [call EXCEPT ![t] =
                      IF all /\ call[t].kind = "cached"
                      THEN [@ EXCEPT !.pc = "update", !.value = w,
                                     !.got = disk[u]]
                      ELSE Idle]
        /\ writes' = w
        /\ UNCHANGED <<entries, hand, free_pages>>

\* From the caller's buffer.
Written(t, data) ==
    [b \in Blocks |-> IF b \in call[t].part THEN call[t].value ELSE data[b]]

\* Only a unit that is valid takes a part; nothing is allocated here.
Update(t) ==
    LET u == call[t].unit
    IN  /\ call[t].pc = "update"
        /\ \/ /\ \E e \in find(u) :
                   /\ entries[e].state = "VALID"
                   /\ entries' = [entries EXCEPT
                        ![e].data = Written(t, @), ![e].referenced = TRUE]
              /\ UNCHANGED hand
           \/ /\ \E e \in find(u) :
                   /\ entries[e].state = "LOADING"
                   /\ entries' = [entries EXCEPT ![e].poisoned = TRUE]
              /\ UNCHANGED hand
           \/ /\ find(u) = {} /\ call[t].part = Blocks /\ u \notin Tail
              /\ HasVictim
              /\ entries' = IF ~entries[victim].page THEN Swept
                   ELSE [Swept EXCEPT ![victim] =
                          [@ EXCEPT !.state = "VALID", !.unit = u,
                                    !.referenced = TRUE,
                                    !.data = Written(t, disk[u])]]
              /\ hand' = HandAfter
           \/ /\ find(u) = {}
              /\ call[t].part # Blocks \/ u \in Tail \/ ~HasVictim
              /\ UNCHANGED <<entries, hand>>
        /\ Ends(t)
        /\ UNCHANGED <<disk, writes>>

-----------------------------------------------------------------------------
\* A device is claimed whole or goes away.
bcache_invalidate_device ==
    /\ entries' = [e \in Entries |->
         IF entries[e].state = "EMPTY" THEN entries[e] ELSE Dropped(entries[e])]
    /\ UNCHANGED <<disk, hand, free_pages, call, writes, fresh>>

\* Mutant: whatever has a page.
Reclaimable_any == {e \in Entries : entries[e].page}

Reclaimable == {e \in Entries : entries[e].state # "LOADING" /\ entries[e].page}

\* One page; a call for more repeats it.
bcache_reclaim ==
    /\ Reclaimable # {}
    /\ entries' = [entries EXCEPT ![Min(Reclaimable)] = EmptyEntry]
    /\ free_pages' = free_pages + 1
    /\ UNCHANGED <<disk, hand, call, writes, fresh>>

Read(t) == \/ Lookup(t) \/ GetPage(t) \/ Install(t) \/ Fill(t) \/ FillDone(t)
           \/ FillFailed(t) \/ Uncached(t) \/ Return(t)
Write(t) == bcache_invalidate(t) \/ Transfer(t) \/ Update(t)

Next ==
    \/ \E t \in CanRead, u \in Units, part \in ReadParts :
         Start(t, "read", u, part)
    \/ \E t \in CanWrite, k \in Writers, u \in Units, part \in WriteParts :
         Start(t, k, u, part)
    \/ \E t \in Threads : Read(t) \/ Write(t)
    \/ bcache_invalidate_device
    \/ bcache_reclaim

Spec == Init /\ [][Next]_vars

-----------------------------------------------------------------------------
Buffer == {<<>>} \cup UNION {[p -> Values] : p \in SUBSET Blocks}

Entry == [state : {"EMPTY", "LOADING", "VALID"}, unit : Units \cup {None},
          referenced : BOOLEAN, poisoned : BOOLEAN, page : BOOLEAN,
          data : {<<>>} \cup [Blocks -> Values]]

Steps == {"idle", "lookup", "page", "install", "fill", "filled", "unfilled",
          "uncached", "return", "invalidate", "transfer", "update"}

Call == [pc : Steps,
         kind : {None, "read", "cached", "raw"}, unit : Units \cup {None},
         part : SUBSET Blocks, entry : Entries \cup {None}, spare : BOOLEAN,
         value : Values, got : Buffer]

TypeOK ==
    /\ disk \in [Units -> [Blocks -> Values]]
    /\ entries \in [Entries -> Entry]
    /\ hand \in Entries
    /\ free_pages \in 0 .. MaxPages
    /\ call \in [Threads -> Call]
    /\ writes \in Values
    /\ fresh \in [Threads -> [Blocks -> SUBSET Values]]

\* An entry that answers reads holds what the disk holds, except while a
\* write that has reached the device is on its way to the cache.
Coherent ==
    \A e \in Entries : entries[e].state = "VALID" =>
      \/ \E t \in Threads :
           call[t].unit = entries[e].unit /\ call[t].pc = "update"
      \/ entries[e].data = disk[entries[e].unit]

\* Cached or not, raced by a write, an eviction or a reclaim or not, a read
\* returns for each block what the disk held at some time during the read, or
\* what a write not yet returned was replacing there.
ReadsAreFresh ==
    \A t \in Threads : call[t].kind = "read" /\ call[t].pc = "return" =>
      \A b \in call[t].part : call[t].got[b] \in fresh[t][b]

\* A unit has one entry, a page that is being filled is nobody else's, and
\* every page is an entry's, a reader's spare or the allocator's.
OneOwner ==
    /\ \A e, f \in Entries :
         /\ entries[e].state # "EMPTY" /\ entries[f].state # "EMPTY"
         /\ entries[e].unit = entries[f].unit
         => e = f
    /\ \A t \in Threads : call[t].pc \in {"fill", "filled", "unfilled"} =>
         LET r == entries[call[t].entry]
         IN  r.state = "LOADING" /\ r.unit = call[t].unit /\ r.page
    /\ free_pages + PagesHeld + Cardinality({t \in Threads : call[t].spare})
         = MaxPages
=============================================================================
