----------------------------- MODULE ReconfsTxn -----------------------------
(***************************************************************************)
(* The copy-on-write transaction of kernel/core/reconfs_txn.c, with the    *)
(* mount of reconfs.c, on a disk that loses what it has not flushed.       *)
(*                                                                         *)
(* The owner table is what the code has: leaves that say which blocks are  *)
(* owned, and an index block (a table of depth one) that names the leaves, *)
(* all of them blocks of the volume.  The tree below the root inode is     *)
(* abstracted to the set of blocks it reaches; a block of it holds a tag,  *)
(* the transaction that wrote it.  A superblock is written by itself: it   *)
(* names an epoch, the table, and the tree.                                *)
(***************************************************************************)
EXTENDS Integers, FiniteSets

CONSTANTS
    Writers,       \* threads that may have a transaction open
    FirstBlock,    \* reconfs_super_b + 1
    TotalBlocks,
    per_leaf,      \* blocks one table leaf covers
    TXN_FREED,     \* room on a transaction's list of released blocks
    LateFailures,  \* may the superblock's write, or the flush after it, fail?
    MaxTxns,       \* bound on the transactions begun
    MaxCrashes,    \* bound on the power cuts
    Nothing

ASSUME ReconfsAssumption ==
    /\ {FirstBlock, TotalBlocks, TXN_FREED, MaxTxns, MaxCrashes} \subseteq Nat
    /\ per_leaf \in Nat \ {0}
    /\ LateFailures \in BOOLEAN

Data   == FirstBlock..(TotalBlocks - 1)
Leaves == 0..((TotalBlocks - 1) \div per_leaf)
Slots  == {"A", "B"}
Tags   == 0..MaxTxns

LeafOf(b) == b \div per_leaf
Covers(l) == {b \in Data : LeafOf(b) = l}

VARIABLES
    medium,    \* what each block of the disk holds
    cache,     \* what the disk has been given and not yet put there
    supers,    \* the two superblocks on the disk
    supercache,\* and what it has been given for them
    fs,        \* struct reconfs: mounted, live_super, super
    txn,       \* struct reconfs_txn, and how far its commit is
    begun, crashes

vars == <<medium, cache, supers, supercache, fs, txn, begun, crashes>>
disk == <<medium, cache, supers, supercache>>

\* What a block can hold.  Junk is what a torn or discarded block reads as.
Holds(tag)    == [kind |-> "data", tag |-> tag]
Owners(owned) == [kind |-> "leaf", owned |-> owned]
Index(at)     == [kind |-> "index", at |-> at]
Junk          == [kind |-> "junk"]

\* A superblock that does not validate.
Torn == [epoch |-> 0, table |-> 0, tree |-> <<>>, used |-> 0]

\* A read: the newest thing written.
Reads(b) == IF b \in DOMAIN cache THEN cache[b] ELSE medium[b]

NoTxn == [phase |-> "none"]

-----------------------------------------------------------------------------
(***************************************************************************)
(* reconfs_format: the root inode, the leaves, the index above them.       *)
(***************************************************************************)
FormatLeaf(l) == FirstBlock + 1 + l
FormatIndex   == FirstBlock + 1 + Cardinality(Leaves)
Formatted     == FirstBlock..FormatIndex

\* There is a superblock before the data, and a volume that format would fill
\* is refused (RECONFS_ERR_TOO_SMALL).
ASSUME FormatAssumption == FirstBlock > 0 /\ FormatIndex + 1 < TotalBlocks

FormatSuper ==
    [epoch |-> 1, table |-> FormatIndex, tree |-> [b \in {FirstBlock} |-> 0],
     used |-> Cardinality(Formatted)]

Init ==
    /\ medium = [b \in Data |->
                   IF b = FirstBlock THEN Holds(0)
                   ELSE IF b = FormatIndex THEN Index([l \in Leaves |-> FormatLeaf(l)])
                   ELSE IF b \in Formatted
                        THEN Owners(Covers(b - FirstBlock - 1) \cap Formatted)
                   ELSE Junk]
    /\ cache = <<>>
    /\ supers = [s \in Slots |-> FormatSuper]
    /\ supercache = <<>>
    /\ fs = [mounted |-> FALSE, live |-> "A", super |-> Torn]
    /\ txn = [w \in Writers |-> NoTxn]
    /\ begun = 0
    /\ crashes = 0

-----------------------------------------------------------------------------
(***************************************************************************)
(* Mounting.  The slot reconfs_mount believes: the valid superblock with   *)
(* the higher epoch, the first of two equal ones.                          *)
(***************************************************************************)
Believed(s) == IF s["B"].epoch > s["A"].epoch THEN "B" ELSE "A"

reconfs_mount ==
    /\ ~fs.mounted
    /\ supers[Believed(supers)].epoch > 0
    /\ fs' = [mounted |-> TRUE, live |-> Believed(supers), super |-> supers[Believed(supers)]]
    /\ UNCHANGED <<disk, txn, begun, crashes>>

-----------------------------------------------------------------------------
(***************************************************************************)
(* The allocator, on the transaction x.  A leaf of the table is read from  *)
(* the live one when it is first touched; x.owned is what the leaves read  *)
(* so far say, as this transaction has changed them.                       *)
(***************************************************************************)
LiveLeaf(l) == Reads(fs.super.table).at[l]

Owned(x, b) == b \in (IF LeafOf(b) \in x.loaded THEN x.owned ELSE Reads(LiveLeaf(LeafOf(b))).owned)

\* leaf_for, for every leaf of L.
leaf_for(x, L) ==
    LET new == L \ x.loaded
    IN  [x EXCEPT !.loaded = @ \cup L,
                  !.owned = @ \cup UNION {Reads(LiveLeaf(l)).owned : l \in new},
                  !.old = [l \in Leaves |-> IF l \in new THEN LiveLeaf(l) ELSE @[l]]]

\* How far a scan from the hint goes before it looks at b, wrapping at the end.
Distance(x, b) == IF b >= x.hint THEN b - x.hint ELSE TotalBlocks - x.hint + b - FirstBlock

\* Mutant: what this transaction released can be handed out again by it.
FreeFor_released(x) == {b \in Data : ~Owned(x, b)}

\* The blocks txn_alloc may hand out: unclaimed, and not released here.
FreeFor(x) == {b \in Data : ~Owned(x, b)} \ x.freed

\* reconfs_txn_alloc.  x.got is the block, or 0.
reconfs_txn_alloc(x) ==
    LET free == FreeFor(x)
        b    == CHOOSE c \in free : \A d \in free : Distance(x, c) <= Distance(x, d)
    IN  IF x.failed THEN [x EXCEPT !.got = 0]
        ELSE IF free = {} THEN [leaf_for(x, Leaves) EXCEPT !.got = 0]
        ELSE [leaf_for(x, {LeafOf(d) : d \in {e \in Data : Distance(x, e) <= Distance(x, b)}})
                EXCEPT !.owned = @ \cup {b},
                       !.dirty = @ \cup {LeafOf(b)},
                       !.hint = b + 1,
                       !.used = @ + 1,
                       !.got = b]

\* reconfs_txn_free: with no room to remember it, the transaction fails.
reconfs_txn_free(x, b) ==
    IF x.failed THEN x
    ELSE LET full == Cardinality(x.freed) = TXN_FREED
         IN  [leaf_for(x, {LeafOf(b)})
                EXCEPT !.owned = @ \ {b},
                       !.dirty = @ \cup {LeafOf(b)},
                       !.used = IF @ > 0 THEN @ - 1 ELSE @,
                       !.failed = full,
                       !.freed = IF full THEN @ ELSE @ \cup {b}]

-----------------------------------------------------------------------------
(***************************************************************************)
(* Transactions.  `got` is a return value, and is not kept.                *)
(***************************************************************************)
Keeps(w, x) == txn' = [txn EXCEPT ![w] = [x EXCEPT !.got = 0]]
Ends(w)     == txn' = [txn EXCEPT ![w] = NoTxn]

reconfs_txn_begin(w) ==
    /\ fs.mounted
    /\ txn[w].phase = "none"
    /\ begun < MaxTxns
    /\ begun' = begun + 1
    /\ Keeps(w, [phase |-> "open", hint |-> FirstBlock, loaded |-> {}, owned |-> {},
                 old |-> [l \in Leaves |-> 0], new |-> [l \in Leaves |-> 0],
                 dirty |-> {}, index |-> 0, freed |-> {}, used |-> fs.super.used,
                 failed |-> FALSE, got |-> 0, tag |-> begun + 1, tree |-> fs.super.tree])
    /\ UNCHANGED <<disk, fs, crashes>>

\* reconfs_txn_abort: by a caller whose change did not work out, a write that
\* failed included, or by a commit that cannot plan (no memory, or more leaves
\* than a transaction may touch).
reconfs_txn_abort(w) ==
    /\ txn[w].phase \in {"open", "plan"}
    /\ Ends(w)
    /\ UNCHANGED <<disk, fs, begun, crashes>>

\* A caller takes a block for the new tree and writes it, or finds no room and
\* gives up.
TakeBlock(w) ==
    /\ txn[w].phase = "open"
    /\ LET x == reconfs_txn_alloc(txn[w])
           b == x.got
       IN  IF b = 0 THEN Ends(w) /\ UNCHANGED cache
           ELSE /\ cache' = [c \in DOMAIN cache \cup {b} |-> IF c = b THEN Holds(x.tag) ELSE cache[c]]
                /\ Keeps(w, [x EXCEPT !.tree = [c \in DOMAIN @ \cup {b} |-> IF c = b THEN x.tag ELSE @[c]]])
    /\ UNCHANGED <<medium, supers, supercache, fs, begun, crashes>>

\* A caller releases a block its new tree does not need.
DropBlock(w, b) ==
    /\ txn[w].phase = "open"
    /\ ~txn[w].failed
    /\ b \in DOMAIN txn[w].tree
    /\ Keeps(w, [reconfs_txn_free(txn[w], b)
                   EXCEPT !.tree = [c \in DOMAIN @ \ {b} |-> @[c]]])
    /\ UNCHANGED <<disk, fs, begun, crashes>>

-----------------------------------------------------------------------------
(***************************************************************************)
(* reconfs_txn_commit, as far as each point another thread or a power cut  *)
(* can tell apart.                                                         *)
(***************************************************************************)
Homeless(x) == {l \in x.dirty : x.new[l] = 0}

reconfs_txn_commit(w) ==
    /\ txn[w].phase = "open"
    /\ IF txn[w].failed THEN Ends(w) ELSE Keeps(w, [txn[w] EXCEPT !.phase = "plan"])
    /\ UNCHANGED <<disk, fs, begun, crashes>>

\* plan_leaves: a dirty leaf gets a new home, which may dirty another; the
\* order they are taken in is left open.
plan_leaves(w) ==
    /\ txn[w].phase = "plan"
    /\ \E l \in Homeless(txn[w]) :
         LET x == reconfs_txn_alloc(txn[w])
         IN  IF x.got = 0 THEN Ends(w)
             ELSE Keeps(w, reconfs_txn_free([x EXCEPT !.new[l] = x.got], x.old[l]))
    /\ UNCHANGED <<disk, fs, begun, crashes>>

\* planned_leaf: the new home of the leaf that was at b, or 0.
planned_leaf(x, b) ==
    IF \E l \in x.loaded : x.old[l] = b /\ x.new[l] # 0
    THEN x.new[CHOOSE l \in x.loaded : x.old[l] = b /\ x.new[l] # 0]
    ELSE 0

\* plan_index: a new home for the index block if a leaf below it moves.
plan_index(w) ==
    /\ txn[w].phase = "plan"
    /\ Homeless(txn[w]) = {}
    /\ IF \E l \in Leaves : planned_leaf(txn[w], LiveLeaf(l)) # 0
       THEN LET x == reconfs_txn_alloc(txn[w])
            IN  IF x.got = 0 THEN Ends(w)
                ELSE Keeps(w, reconfs_txn_free([x EXCEPT !.index = x.got, !.phase = "planned"],
                                               fs.super.table))
       ELSE Keeps(w, [txn[w] EXCEPT !.index = fs.super.table, !.phase = "planned"])
    /\ UNCHANGED <<disk, fs, begun, crashes>>

\* Mutant: a leaf the index's own block dirtied is planned late, and the
\* transaction goes on.
Refused_never(x) == FALSE

\* RECONFS_ERR_RETRY: the index's own block dirtied a leaf without a home.
Refused(x) == Homeless(x) # {}

\* The leaves, then the index that names them.
TableWrites(x) ==
    LET moved == {l \in Leaves : x.new[l] # 0}
        leafs == {x.new[l] : l \in moved}
        at    == [l \in Leaves |-> LET m == planned_leaf(x, LiveLeaf(l))
                                   IN  IF m # 0 THEN m ELSE LiveLeaf(l)]
    IN  [b \in leafs \cup ({x.index} \ {fs.super.table}) |->
            IF b \in leafs
            THEN Owners(x.owned \cap Covers(CHOOSE l \in moved : x.new[l] = b))
            ELSE Index(at)]

\* A write that fails ends the commit with those before it made.
WriteTable(w) ==
    /\ txn[w].phase = "planned"
    /\ \/ Refused(txn[w]) /\ Ends(w) /\ UNCHANGED cache
       \/ /\ ~Refused(txn[w])
          /\ \E made \in SUBSET DOMAIN TableWrites(txn[w]) :
               /\ cache' = [b \in DOMAIN cache \cup made |->
                              IF b \in made THEN TableWrites(txn[w])[b] ELSE cache[b]]
               /\ \/ Ends(w)
                  \/ /\ made = DOMAIN TableWrites(txn[w])
                     /\ Keeps(w, [txn[w] EXCEPT !.phase = "table"])
    /\ UNCHANGED <<medium, supers, supercache, fs, begun, crashes>>

\* block_flush that succeeds: all the disk was given is on the medium.
Flushed ==
    /\ medium' = [b \in Data |-> Reads(b)]
    /\ cache' = <<>>
    /\ supers' = [s \in Slots |-> IF s \in DOMAIN supercache THEN supercache[s] ELSE supers[s]]
    /\ supercache' = <<>>

\* Mutant: the superblock is written without waiting for what it names.
FirstFlush_skipped(w) ==
    /\ txn[w].phase = "table"
    /\ Keeps(w, [txn[w] EXCEPT !.phase = "flushed"])
    /\ UNCHANGED <<disk, fs, begun, crashes>>

\* The ordering point.
FirstFlush(w) ==
    /\ txn[w].phase = "table"
    /\ \/ Flushed /\ Keeps(w, [txn[w] EXCEPT !.phase = "flushed"])
       \/ Ends(w) /\ UNCHANGED disk
    /\ UNCHANGED <<fs, begun, crashes>>

Other(s) == CHOOSE o \in Slots : o # s

\* Mutant: the superblock is written over the live one.
Target_live == fs.live

\* Whichever of the two superblocks is not live.
Target == Other(fs.live)

NewSuper(x) == [epoch |-> fs.super.epoch + 1, table |-> x.index, tree |-> x.tree, used |-> x.used]

\* The superblock, to the slot that is not live.  No memory for it fails the
\* commit before anything is written; a write that fails may have been made.
WriteSuper(w) ==
    /\ txn[w].phase = "flushed"
    /\ \/ /\ supercache' = [s \in {Target} |-> NewSuper(txn[w])]
          /\ \/ Keeps(w, [txn[w] EXCEPT !.phase = "super"])
             \/ LateFailures /\ Ends(w)
       \/ Ends(w) /\ UNCHANGED supercache
    /\ UNCHANGED <<medium, cache, supers, fs, begun, crashes>>

\* What the mounted volume goes on with.
Published(w) == [mounted |-> TRUE, live |-> Target, super |-> NewSuper(txn[w])]

\* The second flush, after which the change is real: it is published, and the
\* released blocks are discarded and read as anything.
SecondFlush(w) ==
    /\ txn[w].phase = "super"
    /\ \/ /\ medium' = [b \in Data |-> IF b \in txn[w].freed THEN Junk ELSE Reads(b)]
          /\ cache' = <<>>
          /\ supers' = [s \in Slots |-> IF s \in DOMAIN supercache THEN supercache[s] ELSE supers[s]]
          /\ supercache' = <<>>
          /\ fs' = Published(w)
       \/ LateFailures /\ UNCHANGED <<disk, fs>>
    /\ Ends(w)
    /\ UNCHANGED <<begun, crashes>>

-----------------------------------------------------------------------------
(***************************************************************************)
(* The power goes: of what the disk had been given, any part is on the     *)
(* medium, and one block, or the superblock, may be half written.          *)
(***************************************************************************)
PowerFails ==
    /\ crashes < MaxCrashes
    /\ crashes' = crashes + 1
    /\ \E put \in SUBSET (DOMAIN cache), sput \in SUBSET (DOMAIN supercache) :
       \E torn \in {{}} \cup {{b} : b \in put}, storn \in SUBSET sput :
         /\ medium' = [b \in Data |-> IF b \in torn THEN Junk
                                      ELSE IF b \in put THEN cache[b] ELSE medium[b]]
         /\ supers' = [s \in Slots |-> IF s \in storn THEN Torn
                                       ELSE IF s \in sput THEN supercache[s] ELSE supers[s]]
    /\ cache' = <<>>
    /\ supercache' = <<>>
    /\ fs' = [mounted |-> FALSE, live |-> "A", super |-> Torn]
    /\ txn' = [w \in Writers |-> NoTxn]
    /\ UNCHANGED begun

Next ==
    \/ reconfs_mount
    \/ PowerFails
    \/ \E w \in Writers :
         \/ reconfs_txn_begin(w) \/ reconfs_txn_abort(w)
         \/ TakeBlock(w) \/ (\E b \in Data : DropBlock(w, b))
         \/ reconfs_txn_commit(w) \/ plan_leaves(w) \/ plan_index(w)
         \/ WriteTable(w) \/ FirstFlush(w) \/ WriteSuper(w) \/ SecondFlush(w)

Spec == Init /\ [][Next]_vars

-----------------------------------------------------------------------------

\* The superblock a mount would believe now, and the blocks it reaches.
Truth == supers[Believed(supers)]
TableOf(s) == {s.table} \cup {medium[s.table].at[l] : l \in Leaves}
Reach(s) == DOMAIN s.tree \cup TableOf(s)

\* What a tree can hold, which Nothing is not.
Contained == UNION {[D -> {Holds(t) : t \in Tags}] : D \in SUBSET Data}

ASSUME NothingAssumption == Nothing \notin Contained

Trees  == UNION {[D -> Tags] : D \in SUBSET Data}
Super  == [epoch : Nat, table : Data \cup {0}, tree : Trees, used : Nat]
Phases == {"open", "plan", "planned", "table", "flushed", "super"}
Block  == {Holds(t) : t \in Tags} \cup {Owners(o) : o \in SUBSET Data}
          \cup {Index(at) : at \in [Leaves -> Data]} \cup {Junk}

Txn == [phase : Phases, hint : FirstBlock..TotalBlocks, loaded : SUBSET Leaves,
        owned : SUBSET Data, old : [Leaves -> Data \cup {0}],
        new : [Leaves -> Data \cup {0}], dirty : SUBSET Leaves,
        index : Data \cup {0}, freed : SUBSET Data, used : 0..(TotalBlocks - 1),
        failed : BOOLEAN, got : Data \cup {0}, tag : Tags, tree : Trees]

\* The variables hold what the structures hold.
TypeOK ==
    /\ medium \in [Data -> Block]
    /\ DOMAIN cache \subseteq Data /\ cache \in [DOMAIN cache -> Block]
    /\ supers \in [Slots -> Super]
    /\ DOMAIN supercache \subseteq Slots /\ supercache \in [DOMAIN supercache -> Super]
    /\ fs \in [mounted : BOOLEAN, live : Slots, super : Super]
    /\ txn \in [Writers -> Txn \cup {NoTxn}]
    /\ \A w \in Writers : txn[w] # NoTxn => Cardinality(txn[w].freed) <= TXN_FREED
    /\ begun \in 0..MaxTxns /\ crashes \in 0..MaxCrashes

\* "Nothing reachable from a live superblock is ever overwritten": no write
\* the disk has been given is to a block the superblock a mount would believe
\* reaches, whatever was released, reused or abandoned before.
NoLiveOverwrite == DOMAIN cache \cap Reach(Truth) = {}

\* The owner table on the medium says exactly what the superblock naming it
\* reaches, and the count agrees: planning the table inside the transaction
\* that changes it leaks no block and gives none to two owners.
TableIsTrue ==
    LET owned == UNION {medium[medium[Truth.table].at[l]].owned : l \in Leaves}
    IN  owned = Reach(Truth) /\ Truth.used = Cardinality(owned)

Contents(t) == [b \in DOMAIN t |-> medium[b]]

\* Every block of the tree the believed superblock names holds what the
\* transaction that named it wrote, after any power cut: the first flush of
\* reconfs_txn_commit and was_freed_here are what this rests on.
TreeIsWhole == Contents(Truth.tree) = [b \in DOMAIN Truth.tree |-> Holds(Truth.tree[b])]

Committing == {w \in Writers : txn[w].phase = "super"}

\* What a mount would find, what the mounted volume shows, and what a commit
\* past its ordering point would make it.
Committed == Contents(Truth.tree)
Current   == IF fs.mounted THEN Contents(fs.super.tree) ELSE Nothing
Proposed  == IF Committing = {} THEN Nothing
             ELSE Contents(txn[CHOOSE w \in Committing : TRUE].tree)

Vol == INSTANCE Volume WITH committed <- Committed, current <- Current, proposed <- Proposed

\* A commit is atomic and durable: the transactions implement Volume.
AtomicCommit == Vol!Spec
=============================================================================
