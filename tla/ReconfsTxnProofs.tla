-------------------------- MODULE ReconfsTxnProofs --------------------------
(***************************************************************************)
(* Proofs about the transactions of ReconfsTxn, for every size of volume,  *)
(* every span of a table leaf and every length of the list of released     *)
(* blocks: the types, NoLiveOverwrite, TableIsTrue, TreeIsWhole, and that  *)
(* the transactions implement Volume.                                      *)
(*                                                                         *)
(* Two hypotheses are those under which reconfs_txn.c can keep its         *)
(* promises: one writer at a time (nothing in a transaction excludes a     *)
(* second, and two open at once give a block away twice), and no failure   *)
(* reported once the superblock may have reached the disk (the caller is   *)
(* told that nothing changed although a mount may find the change).        *)
(*                                                                         *)
(* None of the properties is inductive.  That a write spares the live      *)
(* volume rests on what the allocator believes to be owned, which is read  *)
(* leaf by leaf from a table the transaction is about to replace; so the   *)
(* invariant follows the transaction's accounts (Accounts), the shape of   *)
(* the volume it is building (Shape), from the table's write on that this  *)
(* volume is whole (Whole), and which of medium and cache holds it.        *)
(***************************************************************************)
EXTENDS ReconfsTxn, FiniteSetTheorems, WellFoundedInduction, TLAPS

-----------------------------------------------------------------------------
(* What a superblock s names on a disk that holds m.                       *)

LeafAt(m, s)  == m[s.table].at
Reached(m, s) == DOMAIN s.tree \cup {s.table} \cup {LeafAt(m, s)[l] : l \in Leaves}

\* A whole volume: the table says what is reached, the tree is what was
\* written, and no block has two uses.
Whole(m, s) ==
    /\ s \in Super /\ s.epoch > 0 /\ s.table \in Data
    /\ m[s.table] = Index(LeafAt(m, s)) /\ LeafAt(m, s) \in [Leaves -> Data]
    /\ \A k, l \in Leaves : LeafAt(m, s)[k] = LeafAt(m, s)[l] => k = l
    /\ \A l \in Leaves : LeafAt(m, s)[l] # s.table
    /\ \A l \in Leaves : LeafAt(m, s)[l] \notin DOMAIN s.tree
    /\ s.table \notin DOMAIN s.tree
    /\ \A l \in Leaves : m[LeafAt(m, s)[l]] = Owners(Covers(l) \cap Reached(m, s))
    /\ \A b \in DOMAIN s.tree : m[b] = Holds(s.tree[b])
    /\ s.used = Cardinality(Reached(m, s))

-----------------------------------------------------------------------------
(* A transaction x on the volume that s names.                             *)

\* The blocks that are owned as the transaction sees it.
View(m, s, x) ==
    {b \in Data : b \in (IF LeafOf(b) \in x.loaded THEN x.owned ELSE Reached(m, s))}

\* What the allocator keeps.
Accounts(m, s, x) ==
    /\ x \in Txn
    /\ x.dirty \subseteq x.loaded
    /\ \A b \in x.owned : LeafOf(b) \in x.loaded
    /\ \A l \in x.loaded : x.old[l] = LeafAt(m, s)[l]
    /\ \A b \in Data : LeafOf(b) \in x.loaded \ x.dirty =>
         (b \in x.owned <=> b \in Reached(m, s))
    /\ x.freed \cap View(m, s, x) = {}
    /\ ~x.failed => Reached(m, s) \ View(m, s, x) \subseteq x.freed
    /\ x.used = Cardinality(View(m, s, x))
    /\ Cardinality(x.freed) <= TXN_FREED

\* Where the leaves and the index are going to be.
Home(m, s, x) == [l \in Leaves |-> IF x.new[l] # 0 THEN x.new[l] ELSE LeafAt(m, s)[l]]
Top(s, x)     == IF x.index # 0 THEN x.index ELSE s.table

\* What is owned is what the new superblock will reach, each block once, and
\* what is new there was not reached before.
Shape(m, s, x) ==
    /\ View(m, s, x) = DOMAIN x.tree \cup {Top(s, x)} \cup {Home(m, s, x)[l] : l \in Leaves}
    /\ \A k, l \in Leaves : Home(m, s, x)[k] = Home(m, s, x)[l] => k = l
    /\ \A l \in Leaves : Home(m, s, x)[l] # Top(s, x) /\ Home(m, s, x)[l] \notin DOMAIN x.tree
    /\ Top(s, x) \notin DOMAIN x.tree
    /\ \A l \in Leaves : x.new[l] # 0 => x.new[l] \notin Reached(m, s) /\ l \in x.dirty
    /\ x.index \notin {0, s.table} => x.index \notin Reached(m, s)
    /\ x.index # 0 <=> x.phase = "planned"
    /\ x.index = s.table => \A l \in Leaves : x.new[l] = 0
    /\ \A b \in DOMAIN x.tree : m[b] = Holds(x.tree[b])

-----------------------------------------------------------------------------
(* The inductive invariant, for one writer and no late failure.            *)

\* What is read: the newest thing written.
Overlay == [b \in Data |-> Reads(b)]

\* The superblock that x would write over s.
Succ(s, x) == [epoch |-> s.epoch + 1, table |-> x.index, tree |-> x.tree, used |-> x.used]

\* The disk: the believed superblock's volume is whole, and nothing that has
\* been given to the disk and is not on it is to a block of that volume.
DiskOK ==
    /\ Whole(medium, Truth)
    /\ DOMAIN cache \cap Reached(medium, Truth) = {}

\* The mounted volume is the one a mount would find.
MountOK ==
    /\ fs.mounted => fs.live = Believed(supers) /\ fs.super = Truth
    /\ ~fs.mounted => \A w \in Writers : txn[w] = NoTxn

\* Before its table is written a transaction keeps its accounts; after, the
\* disk holds a second whole volume, in the cache first and then on the medium.
TxnOK ==
    \A w \in Writers :
      /\ txn[w].phase \in {"open", "plan", "planned"} =>
           Accounts(Overlay, fs.super, txn[w]) /\ Shape(Overlay, fs.super, txn[w])
      /\ txn[w].phase \in {"table", "flushed", "super"} =>
           /\ Whole(Overlay, Succ(fs.super, txn[w]))
           /\ Reached(Overlay, Succ(fs.super, txn[w])) \cap txn[w].freed = {}
      /\ txn[w].phase \in {"flushed", "super"} => cache = <<>>
      /\ txn[w].phase = "super" => supercache = [s \in {Other(fs.live)} |-> Succ(fs.super, txn[w])]

\* The disk has been given a superblock only by a commit at its last step.
SuperOK == (\A w \in Writers : txn[w].phase # "super") => supercache = <<>>

IInv == /\ TypeOK
        /\ DiskOK
        /\ MountOK
        /\ TxnOK
        /\ SuperOK
-----------------------------------------------------------------------------
(* Numbers.                                                                *)

\* The least member of a set of numbers is a member of it.
LEMMA LeastIsIn ==
    ASSUME NEW S \in SUBSET Nat, S # {}
    PROVE  \E n \in S : \A k \in S : n <= k
<1> DEFINE R == {ss \in Nat \X Nat : ss[1] < ss[2]}
<1>1. OpToRel(<, Nat) = R
  BY Zenon DEF OpToRel
<1>2. IsWellFoundedOn(R, Nat)
  BY <1>1, NatLessThanWellFounded, Zenon
<1>3. PICK x \in S : \A y \in S : ~(<<y, x>> \in R)
  <2> HIDE DEF R
  <2> QED BY <1>2, WFMin, Zenon
<1>4. ASSUME NEW y \in S PROVE x <= y
  <2>1. y < x => <<y, x>> \in R
    OBVIOUS
  <2>2. ~(y < x)
    BY <1>3, <2>1
  <2> QED
    BY <2>2
<1> QED
  BY <1>4

LEMMA DivGrows ==
    ASSUME NEW a \in Nat, NEW b \in Nat, a <= b, NEW p \in Nat, p > 0
    PROVE  a \div p \in Nat /\ a \div p <= b \div p
<1>1. a \div p \in Nat
  OBVIOUS
<1>2. a \div p <= b \div p
  OBVIOUS
<1> QED
  BY <1>1, <1>2

\* Block numbers, the leaves that cover them, and what format occupies.
LEMMA Numbers ==
    /\ Data \subseteq Nat /\ 0 \notin Data /\ IsFiniteSet(Data)
    /\ TotalBlocks \in Nat /\ FirstBlock \in Nat /\ TXN_FREED \in Nat
    /\ MaxTxns \in Nat /\ MaxCrashes \in Nat
    /\ IsFiniteSet(Leaves) /\ Leaves \subseteq Nat
    /\ \A b \in Data : LeafOf(b) \in Leaves
    /\ FormatIndex \in Nat /\ Formatted \subseteq Data
    /\ FirstBlock \in Data /\ FormatIndex \in Data /\ FirstBlock # FormatIndex
    /\ \A l \in Leaves : /\ FormatLeaf(l) \in Formatted
                         /\ FormatLeaf(l) \notin {FirstBlock, FormatIndex}
                         /\ FormatLeaf(l) - FirstBlock - 1 = l
    /\ \A b \in Formatted : b \in {FirstBlock, FormatIndex} \/ b - FirstBlock - 1 \in Leaves
<1> USE ReconfsAssumption
<1> DEFINE n == (TotalBlocks - 1) \div per_leaf
<1>0. TotalBlocks > 0
  <2>1. 0 \in Int /\ (TotalBlocks - 1) \div per_leaf \in Int
    OBVIOUS
  <2>2. IsFiniteSet(Leaves)
    BY <2>1, FS_Interval DEF Leaves
  <2>3. Cardinality(Leaves) \in Nat
    BY <2>2, FS_CardinalityType
  <2> QED
    BY <2>3, FormatAssumption DEF FormatIndex
<1>1. n \in Nat
  BY <1>0, DivGrows
<1>2. Leaves = 0 .. n
  BY DEF Leaves
<1> HIDE DEF n
<1>3. IsFiniteSet(Leaves) /\ Cardinality(Leaves) = n + 1 /\ Leaves \subseteq Nat
  <2>1. 0 \in Int /\ n \in Int /\ n - 0 + 1 = n + 1
    BY <1>1
  <2> QED
    BY <1>1, <1>2, <2>1, FS_Interval
<1>4. FormatIndex = FirstBlock + n + 2 /\ FormatIndex + 1 < TotalBlocks /\ FirstBlock > 0
  BY <1>1, <1>3, FormatAssumption DEF FormatIndex
<1>5. Data \subseteq Nat /\ 0 \notin Data /\ IsFiniteSet(Data)
  <2>1. IsFiniteSet(Data)
    <3>1. FirstBlock \in Int /\ TotalBlocks - 1 \in Int
      OBVIOUS
    <3> QED
      BY <3>1, FS_Interval DEF Data
  <2> QED
    BY <1>4, <2>1 DEF Data
<1>6. ASSUME NEW b \in Data PROVE LeafOf(b) \in Leaves
  <2>1. b \in Nat /\ TotalBlocks - 1 \in Nat /\ b <= TotalBlocks - 1
    BY <1>0 DEF Data
  <2>2. b \div per_leaf \in Nat /\ b \div per_leaf <= n
    BY <2>1, DivGrows DEF n
  <2> QED
    BY <1>1, <1>2, <2>2 DEF LeafOf
<1>7. FirstBlock \in Data /\ FormatIndex \in Data /\ FirstBlock # FormatIndex /\ FormatIndex \in Nat
      /\ Formatted \subseteq Data
  BY <1>1, <1>4 DEF Data, Formatted
<1>8. \A l \in Leaves : /\ FormatLeaf(l) \in Formatted
                        /\ FormatLeaf(l) \notin {FirstBlock, FormatIndex}
                        /\ FormatLeaf(l) - FirstBlock - 1 = l
  <2>1. ASSUME NEW l \in Leaves
        PROVE  /\ FormatLeaf(l) \in Nat /\ FormatLeaf(l) > FirstBlock
               /\ FormatLeaf(l) < FormatIndex /\ FormatLeaf(l) - FirstBlock - 1 = l
    <3>1. l \in Nat /\ l <= n
      BY <1>1, <1>2
    <3> QED
      BY <1>1, <1>4, <3>1 DEF FormatLeaf
  <2>2. FormatIndex \in Nat
    BY <1>1, <1>4
  <2> QED
    BY <2>1, <2>2 DEF Formatted
<1>9. \A b \in Formatted : b \in {FirstBlock, FormatIndex} \/ b - FirstBlock - 1 \in Leaves
  BY <1>1, <1>2, <1>4 DEF Formatted
<1> QED
  BY <1>3, <1>5, <1>6, <1>7, <1>8, <1>9

\* What a record of the disk says of itself.
LEMMA Blocks ==
    /\ \A t : Holds(t).kind = "data" /\ Holds(t).tag = t
    /\ \A o : Owners(o).kind = "leaf" /\ Owners(o).owned = o
    /\ \A at : Index(at).kind = "index" /\ Index(at).at = at
    /\ \A t \in Tags : Holds(t) \in Block
    /\ \A o \in SUBSET Data : Owners(o) \in Block
    /\ \A at \in [Leaves -> Data] : Index(at) \in Block
    /\ Junk \in Block
<1>1. /\ \A t : Holds(t).kind = "data" /\ Holds(t).tag = t
      /\ \A o : Owners(o).kind = "leaf" /\ Owners(o).owned = o
      /\ \A at : Index(at).kind = "index" /\ Index(at).at = at
  BY DEF Holds, Owners, Index
<1>2. /\ \A t \in Tags : Holds(t) \in Block
      /\ \A o \in SUBSET Data : Owners(o) \in Block
      /\ \A at \in [Leaves -> Data] : Index(at) \in Block
      /\ Junk \in Block
  BY Zenon DEF Block
<1> QED
  BY <1>1, <1>2

-----------------------------------------------------------------------------
(* A whole volume depends on the blocks it reaches, and on no others.      *)

LEMMA WholeFacts ==
    ASSUME NEW m, NEW s, Whole(m, s)
    PROVE  /\ Reached(m, s) \subseteq Data /\ IsFiniteSet(Reached(m, s))
           /\ s.table \in Reached(m, s) /\ DOMAIN s.tree \subseteq Reached(m, s)
           /\ \A l \in Leaves : /\ LeafAt(m, s)[l] \in Reached(m, s)
                                /\ m[LeafAt(m, s)[l]].owned = Covers(l) \cap Reached(m, s)
<1>1. s.tree \in Trees /\ DOMAIN s.tree \subseteq Data
  BY DEF Whole, Super, Trees
<1>2. Reached(m, s) \subseteq Data
  BY <1>1 DEF Reached, Whole
<1>3. IsFiniteSet(Reached(m, s))
  BY <1>2, Numbers, FS_Subset
<1>4. \A l \in Leaves : m[LeafAt(m, s)[l]].owned = Covers(l) \cap Reached(m, s)
  BY Blocks DEF Whole
<1> QED
  BY <1>2, <1>3, <1>4 DEF Reached

LEMMA WholeStays ==
    ASSUME NEW m, NEW n, NEW s, Whole(m, s), \A b \in Reached(m, s) : n[b] = m[b]
    PROVE  Whole(n, s) /\ Reached(n, s) = Reached(m, s) /\ LeafAt(n, s) = LeafAt(m, s)
<1>1. LeafAt(n, s) = LeafAt(m, s) /\ n[s.table] = m[s.table]
  BY WholeFacts DEF LeafAt
<1>2. Reached(n, s) = Reached(m, s)
  BY <1>1 DEF Reached
<1>3. \A l \in Leaves : n[LeafAt(m, s)[l]] = m[LeafAt(m, s)[l]]
  BY WholeFacts
<1>4. \A b \in DOMAIN s.tree : n[b] = m[b]
  BY WholeFacts
<1> QED
  BY <1>1, <1>2, <1>3, <1>4 DEF Whole

-----------------------------------------------------------------------------
(* The allocator.                                                          *)

\* What the table is read as.
LEMMA LiveTable ==
    ASSUME Whole(Overlay, fs.super)
    PROVE  /\ \A l \in Leaves : LiveLeaf(l) = LeafAt(Overlay, fs.super)[l]
           /\ \A l \in Leaves : LiveLeaf(l) \in Data
           /\ \A l \in Leaves : Reads(LiveLeaf(l)).owned
                                  = Covers(l) \cap Reached(Overlay, fs.super)
<1>1. \A b \in Data : Overlay[b] = Reads(b)
  BY DEF Overlay
<1>2. fs.super.table \in Data /\ LeafAt(Overlay, fs.super) \in [Leaves -> Data]
  BY DEF Whole
<1>3. \A l \in Leaves : LiveLeaf(l) = LeafAt(Overlay, fs.super)[l]
  BY <1>1, <1>2 DEF LiveLeaf, LeafAt
<1> QED
  BY <1>1, <1>2, <1>3, WholeFacts

\* The fields of a transaction that the allocator leaves alone.
SameOthers(x, y) ==
    /\ y.phase = x.phase /\ y.new = x.new /\ y.index = x.index
    /\ y.tag = x.tag /\ y.tree = x.tree

LEMMA LeafForDoes ==
    ASSUME Whole(Overlay, fs.super), NEW x \in Txn, NEW L \in SUBSET Leaves,
           NEW y, y = leaf_for(x, L)
    PROVE  /\ y \in Txn /\ SameOthers(x, y) /\ y.loaded = x.loaded \cup L
           /\ y.dirty = x.dirty /\ y.freed = x.freed /\ y.used = x.used
           /\ y.failed = x.failed /\ y.got = x.got /\ y.hint = x.hint
           /\ \A b \in Data : b \in y.owned <=>
                b \in x.owned \/ (LeafOf(b) \in L \ x.loaded /\ b \in Reached(Overlay, fs.super))
           /\ \A l \in Leaves : y.old[l] = IF l \in L \ x.loaded
                                           THEN LeafAt(Overlay, fs.super)[l] ELSE x.old[l]
<1> DEFINE new == L \ x.loaded
<1> DEFINE ow == x.owned \cup UNION {Reads(LiveLeaf(l)).owned : l \in new}
<1> DEFINE ol == [l \in Leaves |-> IF l \in new THEN LiveLeaf(l) ELSE x.old[l]]
<1>1. y = [x EXCEPT !.loaded = x.loaded \cup L, !.owned = ow, !.old = ol]
  BY DEF leaf_for, Txn
<1>2. x.owned \subseteq Data /\ x.loaded \subseteq Leaves /\ x.old \in [Leaves -> Data \cup {0}]
  BY DEF Txn
<1>3. \A b : b \in ow <=> b \in x.owned \/ \E l \in new : b \in Reads(LiveLeaf(l)).owned
  OBVIOUS
<1>4. \A l \in new : Reads(LiveLeaf(l)).owned = Covers(l) \cap Reached(Overlay, fs.super)
  BY LiveTable
<1>5. ow \subseteq Data
  BY <1>2, <1>3, <1>4 DEF Covers
<1>6. ol \in [Leaves -> Data \cup {0}]
  BY <1>2, LiveTable
<1>7. \A b \in Data : b \in ow <=>
        b \in x.owned \/ (LeafOf(b) \in new /\ b \in Reached(Overlay, fs.super))
  BY <1>3, <1>4 DEF Covers
<1>8. \A l \in Leaves : ol[l] = IF l \in new THEN LeafAt(Overlay, fs.super)[l] ELSE x.old[l]
  BY LiveTable
<1> HIDE DEF new, ow, ol
<1>9. /\ y \in Txn /\ SameOthers(x, y) /\ y.loaded = x.loaded \cup L
      /\ y.dirty = x.dirty /\ y.freed = x.freed /\ y.used = x.used
      /\ y.failed = x.failed /\ y.got = x.got /\ y.hint = x.hint
      /\ y.owned = ow /\ y.old = ol
  BY <1>1, <1>2, <1>5, <1>6, ZenonT(60) DEF Txn, SameOthers
<1> QED
  BY <1>7, <1>8, <1>9 DEF new

\* Reading leaves changes nothing that is owned.
LEMMA LeafForKeeps ==
    ASSUME Whole(Overlay, fs.super), NEW x, Accounts(Overlay, fs.super, x),
           NEW L \in SUBSET Leaves, NEW y, y = leaf_for(x, L)
    PROVE  /\ Accounts(Overlay, fs.super, y) /\ SameOthers(x, y)
           /\ View(Overlay, fs.super, y) = View(Overlay, fs.super, x)
           /\ y.loaded = x.loaded \cup L /\ y.dirty = x.dirty /\ y.freed = x.freed
           /\ y.failed = x.failed /\ y.used = x.used
<1> DEFINE R == Reached(Overlay, fs.super)
<1> DEFINE at == LeafAt(Overlay, fs.super)
<1>1. /\ x \in Txn /\ x.dirty \subseteq x.loaded
      /\ \A b \in x.owned : LeafOf(b) \in x.loaded
      /\ \A l \in x.loaded : x.old[l] = at[l]
      /\ \A b \in Data : LeafOf(b) \in x.loaded \ x.dirty => (b \in x.owned <=> b \in R)
      /\ x.loaded \subseteq Leaves /\ x.owned \subseteq Data
  BY DEF Accounts, Txn
<1>2. /\ y \in Txn /\ SameOthers(x, y) /\ y.loaded = x.loaded \cup L
      /\ y.dirty = x.dirty /\ y.freed = x.freed /\ y.used = x.used /\ y.failed = x.failed
      /\ \A b \in Data : b \in y.owned <=> b \in x.owned \/ (LeafOf(b) \in L \ x.loaded /\ b \in R)
      /\ \A l \in Leaves : y.old[l] = IF l \in L \ x.loaded THEN at[l] ELSE x.old[l]
      /\ y.owned \subseteq Data
  <2>1. y \in Txn
    BY <1>1, LeafForDoes
  <2>2. y.owned \subseteq Data
    BY <2>1 DEF Txn
  <2> QED
    BY <1>1, <2>1, <2>2, LeafForDoes
<1>3. \A b \in Data : LeafOf(b) \in Leaves
  BY Numbers
<1>4. View(Overlay, fs.super, y) = View(Overlay, fs.super, x)
  <2>1. \A b \in Data : b \in View(Overlay, fs.super, y) <=> b \in View(Overlay, fs.super, x)
    BY <1>1, <1>2, <1>3 DEF View
  <2>2. View(Overlay, fs.super, y) \subseteq Data /\ View(Overlay, fs.super, x) \subseteq Data
    BY DEF View
  <2> QED
    BY <2>1, <2>2
<1> HIDE DEF R, at
<1>5. \A b \in y.owned : LeafOf(b) \in y.loaded
  BY <1>1, <1>2
<1>6. \A l \in y.loaded : y.old[l] = at[l]
  BY <1>1, <1>2
<1>7. \A b \in Data : LeafOf(b) \in y.loaded \ y.dirty => (b \in y.owned <=> b \in R)
  BY <1>1, <1>2
<1>8. y.dirty \subseteq y.loaded
  BY <1>1, <1>2
<1>9. Accounts(Overlay, fs.super, y)
  BY <1>2, <1>4, <1>5, <1>6, <1>7, <1>8 DEF Accounts, R, at
<1> QED
  BY <1>2, <1>4, <1>9

\* What is owned is a finite set of blocks, and never all of the volume's
\* numbers: block 0 is a superblock.
LEMMA ViewCounts ==
    ASSUME NEW m, NEW s, NEW x
    PROVE  /\ View(m, s, x) \subseteq Data /\ IsFiniteSet(View(m, s, x))
           /\ Cardinality(View(m, s, x)) \in 0 .. TotalBlocks - 1
<1>1. View(m, s, x) \subseteq Data /\ IsFiniteSet(View(m, s, x))
  <2>1. View(m, s, x) \subseteq Data
    BY DEF View
  <2> QED
    BY <2>1, Numbers, FS_Subset
<1>2. Cardinality(View(m, s, x)) <= Cardinality(Data) /\ Cardinality(View(m, s, x)) \in Nat
  BY <1>1, Numbers, FS_Subset, FS_CardinalityType
<1>3. Cardinality(Data) = TotalBlocks - FirstBlock
  <2>1. FirstBlock \in Int /\ TotalBlocks - 1 \in Int /\ FirstBlock <= TotalBlocks - 1
    BY Numbers DEF Data
  <2> QED
    BY <2>1, Numbers, FS_Interval DEF Data
<1>4. FirstBlock > 0
  BY FormatAssumption
<1> QED
  BY <1>1, <1>2, <1>3, <1>4, Numbers

LEMMA OwnedMeans ==
    ASSUME Whole(Overlay, fs.super), NEW x, NEW b \in Data
    PROVE  Owned(x, b) <=> b \in View(Overlay, fs.super, x)
<1>1. LeafOf(b) \in Leaves
  BY Numbers
<1>2. Reads(LiveLeaf(LeafOf(b))).owned = Covers(LeafOf(b)) \cap Reached(Overlay, fs.super)
  BY <1>1, LiveTable
<1>3. b \in Reads(LiveLeaf(LeafOf(b))).owned <=> b \in Reached(Overlay, fs.super)
  BY <1>2 DEF Covers
<1> QED
  BY <1>3 DEF Owned, View

\* The scan ends at a free block when there is one.
LEMMA ScanFinds ==
    ASSUME NEW x \in Txn, FreeFor(x) # {}
    PROVE  \E c \in FreeFor(x) : \A d \in FreeFor(x) : Distance(x, c) <= Distance(x, d)
<1>1. FreeFor(x) \subseteq Data
  BY DEF FreeFor
<1>2. \A c \in Data : Distance(x, c) \in Nat
  <2>1. x.hint \in FirstBlock .. TotalBlocks
    BY DEF Txn
  <2> HIDE DEF Txn
  <2>2. ASSUME NEW c \in Data PROVE Distance(x, c) \in Nat
    <3>1. c \in Nat /\ FirstBlock <= c /\ c <= TotalBlocks - 1 /\ x.hint \in Nat
          /\ x.hint <= TotalBlocks /\ TotalBlocks \in Nat /\ FirstBlock \in Nat
      BY <2>1, Numbers DEF Data
    <3> QED
      BY <3>1 DEF Distance
  <2> QED
    BY <2>2
<1> DEFINE S == {Distance(x, c) : c \in FreeFor(x)}
<1>3. S \in SUBSET Nat /\ S # {}
  BY <1>1, <1>2
<1>4. PICK n \in S : \A k \in S : n <= k
  <2> HIDE DEF S
  <2> QED
    BY <1>3, LeastIsIn
<1>5. PICK c \in FreeFor(x) : n = Distance(x, c)
  OBVIOUS
<1> QED
  BY <1>4, <1>5

\* reconfs_txn_alloc hands out a block that nobody owns, that the live volume
\* does not reach and that was not released here.
LEMMA AllocGives ==
    ASSUME Whole(Overlay, fs.super), NEW x, Accounts(Overlay, fs.super, x),
           NEW y, y = reconfs_txn_alloc(x), y.got # 0
    PROVE  /\ Accounts(Overlay, fs.super, y) /\ SameOthers(x, y)
           /\ y.got \in Data /\ y.got \notin View(Overlay, fs.super, x)
           /\ y.got \notin Reached(Overlay, fs.super)
           /\ View(Overlay, fs.super, y) = View(Overlay, fs.super, x) \cup {y.got}
           /\ x.dirty \subseteq y.dirty /\ ~y.failed
<1> DEFINE R == Reached(Overlay, fs.super)
<1> DEFINE V == View(Overlay, fs.super, x)
<1> DEFINE free == FreeFor(x)
<1> DEFINE b == CHOOSE c \in free : \A d \in free : Distance(x, c) <= Distance(x, d)
<1> DEFINE L == {LeafOf(d) : d \in {e \in Data : Distance(x, e) <= Distance(x, b)}}
<1> DEFINE z == leaf_for(x, L)
<1>1. x \in Txn
  BY DEF Accounts
<1>2. ~x.failed
  BY <1>1 DEF reconfs_txn_alloc, Txn
<1>3. free # {}
  <2>1. SUFFICES ASSUME free = {} PROVE FALSE
    OBVIOUS
  <2>2. y = [leaf_for(x, Leaves) EXCEPT !.got = 0]
    BY <1>2, <2>1 DEF reconfs_txn_alloc
  <2>3. leaf_for(x, Leaves) \in Txn
    BY <1>1, LeafForDoes
  <2> QED
    BY <2>2, <2>3 DEF Txn
<1>4. b \in free
  <2>1. \E c \in free : \A d \in free : Distance(x, c) <= Distance(x, d)
    BY <1>1, <1>3, ScanFinds
  <2> HIDE DEF free
  <2> QED
    BY <2>1
<1>5. /\ b \in Data /\ b \notin V /\ b \notin x.freed /\ LeafOf(b) \in Leaves
  BY <1>4, OwnedMeans, Numbers DEF FreeFor
<1>6. b \notin R
  BY <1>2, <1>5 DEF Accounts
<1>7. L \subseteq Leaves /\ LeafOf(b) \in L
  <2>1. Distance(x, b) <= Distance(x, b)
    <3>1. Distance(x, b) \in Int
      <4>1. x.hint \in Int /\ b \in Int /\ TotalBlocks \in Int /\ FirstBlock \in Int
        BY <1>1, <1>5, Numbers DEF Txn, Data
      <4> HIDE DEF b
      <4> QED
        BY <4>1 DEF Distance
    <3> HIDE DEF b
    <3> QED
      BY <3>1
  <2> HIDE DEF b
  <2> QED
    BY <1>5, <2>1, Numbers
<1>8. y = [z EXCEPT !.owned = z.owned \cup {b}, !.dirty = z.dirty \cup {LeafOf(b)},
                    !.hint = b + 1, !.used = z.used + 1, !.got = b]
  <2>1. y = [z EXCEPT !.owned = @ \cup {b}, !.dirty = @ \cup {LeafOf(b)},
                      !.hint = b + 1, !.used = @ + 1, !.got = b]
    BY <1>2, <1>3 DEF reconfs_txn_alloc
  <2>2. z \in Txn
    <3> HIDE DEF L
    <3> QED
      BY <1>1, <1>7, LeafForDoes
  <2> HIDE DEF z, b
  <2> QED
    BY <2>1, <2>2 DEF Txn
<1> HIDE DEF free, b, L
<1>9. /\ Accounts(Overlay, fs.super, z) /\ SameOthers(x, z)
      /\ View(Overlay, fs.super, z) = V
      /\ z.loaded = x.loaded \cup L /\ z.dirty = x.dirty /\ z.freed = x.freed
      /\ z.failed = x.failed
  BY <1>7, LeafForKeeps
<1> HIDE DEF z
<1>10. z \in Txn /\ z.used = Cardinality(V) /\ LeafOf(b) \in z.loaded
  BY <1>7, <1>9 DEF Accounts
<1>11. Cardinality(V \cup {b}) = Cardinality(V) + 1
       /\ Cardinality(V \cup {b}) \in 0 .. TotalBlocks - 1
  <2>1. V \cup {b} = View(Overlay, fs.super, [loaded |-> Leaves, owned |-> V \cup {b}])
    BY <1>5, Numbers DEF View
  <2> QED
    BY <1>5, <2>1, ViewCounts, FS_AddElement
<1>12. /\ y \in Txn /\ SameOthers(z, y) /\ y.loaded = z.loaded /\ y.old = z.old
       /\ y.owned = z.owned \cup {b} /\ y.dirty = z.dirty \cup {LeafOf(b)}
       /\ y.freed = z.freed /\ y.failed = z.failed /\ y.got = b /\ y.used = z.used + 1
  <2>1. b + 1 \in FirstBlock .. TotalBlocks /\ z.used + 1 \in 0 .. TotalBlocks - 1
    <3>1. b + 1 \in FirstBlock .. TotalBlocks
      BY <1>5, Numbers DEF Data
    <3>2. z.used + 1 = Cardinality(V \cup {b})
      BY <1>10, <1>11
    <3> QED
      BY <1>11, <3>1, <3>2
  <2>2. z.owned \cup {b} \subseteq Data /\ z.dirty \cup {LeafOf(b)} \subseteq Leaves
    BY <1>5, <1>10 DEF Txn
  <2> DEFINE ow == z.owned \cup {b}
  <2> DEFINE di == z.dirty \cup {LeafOf(b)}
  <2> DEFINE hi == b + 1
  <2> DEFINE us == z.used + 1
  <2>3. y = [z EXCEPT !.owned = ow, !.dirty = di, !.hint = hi, !.used = us, !.got = b]
    BY <1>8
  <2>4. /\ ow \in SUBSET Data /\ di \in SUBSET Leaves /\ hi \in FirstBlock .. TotalBlocks
        /\ us \in 0 .. TotalBlocks - 1 /\ b \in Data \cup {0}
    BY <1>5, <2>1, <2>2
  <2>5. y \in Txn
    <3> HIDE DEF V, R, ow, di, hi, us
    <3> QED
      BY <1>10, <2>3, <2>4, ZenonT(60) DEF Txn
  <2>6. /\ SameOthers(z, y) /\ y.loaded = z.loaded /\ y.old = z.old
        /\ y.owned = ow /\ y.dirty = di
        /\ y.freed = z.freed /\ y.failed = z.failed /\ y.got = b /\ y.used = us
    <3> HIDE DEF V, R, ow, di, hi, us
    <3> QED
      BY <1>10, <2>3 DEF Txn, SameOthers
  <2> QED
    BY <2>5, <2>6
<1>13. View(Overlay, fs.super, y) = V \cup {b}
  <2>1. \A c \in Data : c \in View(Overlay, fs.super, y) <=>
                          c \in View(Overlay, fs.super, z) \/ c = b
    BY <1>10, <1>12 DEF View
  <2>2. View(Overlay, fs.super, y) \subseteq Data /\ V \subseteq Data
    BY ViewCounts
  <2> QED
    BY <1>5, <1>9, <2>1, <2>2
<1>14. Accounts(Overlay, fs.super, y)
  <2>1. /\ z.dirty \subseteq z.loaded
        /\ \A c \in z.owned : LeafOf(c) \in z.loaded
        /\ \A l \in z.loaded : z.old[l] = LeafAt(Overlay, fs.super)[l]
        /\ \A c \in Data : LeafOf(c) \in z.loaded \ z.dirty => (c \in z.owned <=> c \in R)
        /\ z.freed \cap V = {} /\ R \ V \subseteq z.freed
        /\ Cardinality(z.freed) <= TXN_FREED
    BY <1>2, <1>9 DEF Accounts
  <2>2. /\ y.dirty \subseteq y.loaded
        /\ \A c \in y.owned : LeafOf(c) \in y.loaded
        /\ \A l \in y.loaded : y.old[l] = LeafAt(Overlay, fs.super)[l]
    BY <1>10, <1>12, <2>1
  <2>3. \A c \in Data : LeafOf(c) \in y.loaded \ y.dirty => (c \in y.owned <=> c \in R)
    BY <1>12, <2>1
  <2>4. y.freed \cap (V \cup {b}) = {} /\ R \ (V \cup {b}) \subseteq y.freed
    BY <1>5, <1>9, <1>12, <2>1
  <2>5. y.used = Cardinality(V \cup {b})
    BY <1>10, <1>11, <1>12
  <2>6. Cardinality(y.freed) <= TXN_FREED
    BY <1>12, <2>1
  <2> HIDE DEF V
  <2> QED
    BY <1>12, <1>13, <2>2, <2>3, <2>4, <2>5, <2>6 DEF Accounts
<1>15. SameOthers(x, y) /\ ~y.failed /\ x.dirty \subseteq y.dirty
  BY <1>2, <1>9, <1>12 DEF SameOthers
<1> QED
  BY <1>5, <1>6, <1>12, <1>13, <1>14, <1>15

\* reconfs_txn_free takes a block out of what is owned, and remembers it or
\* fails the transaction.
LEMMA FreeTakes ==
    ASSUME Whole(Overlay, fs.super), NEW x, Accounts(Overlay, fs.super, x), ~x.failed,
           NEW b \in View(Overlay, fs.super, x), NEW y, y = reconfs_txn_free(x, b)
    PROVE  /\ Accounts(Overlay, fs.super, y) /\ SameOthers(x, y)
           /\ View(Overlay, fs.super, y) = View(Overlay, fs.super, x) \ {b}
           /\ x.dirty \subseteq y.dirty
<1> DEFINE R == Reached(Overlay, fs.super)
<1> DEFINE V == View(Overlay, fs.super, x)
<1> DEFINE full == Cardinality(x.freed) = TXN_FREED
<1> DEFINE z == leaf_for(x, {LeafOf(b)})
<1>1. /\ b \in Data /\ LeafOf(b) \in Leaves /\ x \in Txn
  BY ViewCounts, Numbers DEF Accounts
<1>2. /\ Accounts(Overlay, fs.super, z) /\ SameOthers(x, z)
      /\ View(Overlay, fs.super, z) = V
      /\ z.loaded = x.loaded \cup {LeafOf(b)} /\ z.dirty = x.dirty /\ z.freed = x.freed
      /\ z.failed = x.failed
  BY <1>1, LeafForKeeps
<1>3. z \in Txn /\ z.used = Cardinality(V)
  BY <1>2 DEF Accounts
<1>4. /\ Cardinality(V \ {b}) = Cardinality(V) - 1 /\ Cardinality(V) \in Nat
      /\ Cardinality(V \ {b}) \in 0 .. TotalBlocks - 1 /\ IsFiniteSet(V)
  <2>1. V \ {b} = View(Overlay, fs.super, [loaded |-> Leaves, owned |-> V \ {b}])
    BY Numbers, ViewCounts DEF View
  <2>2. IsFiniteSet(V) /\ Cardinality(V) \in Nat
    BY ViewCounts
  <2>3. b \in V
    OBVIOUS
  <2>4. Cardinality(View(Overlay, fs.super, [loaded |-> Leaves, owned |-> V \ {b}]))
          \in 0 .. TotalBlocks - 1
    BY ViewCounts
  <2> HIDE DEF V
  <2>5. Cardinality(V \ {b}) = Cardinality(V) - 1
    BY <2>2, <2>3, FS_RemoveElement
  <2> QED
    BY <2>1, <2>2, <2>4, <2>5
<1> DEFINE u == IF z.used > 0 THEN z.used - 1 ELSE z.used
<1> DEFINE fr == IF full THEN z.freed ELSE z.freed \cup {b}
<1>5. y = [z EXCEPT !.owned = z.owned \ {b}, !.dirty = z.dirty \cup {LeafOf(b)},
                    !.used = u, !.failed = full, !.freed = fr]
  <2>1. y = [z EXCEPT !.owned = @ \ {b}, !.dirty = @ \cup {LeafOf(b)},
                      !.used = IF @ > 0 THEN @ - 1 ELSE @, !.failed = full,
                      !.freed = IF full THEN @ ELSE @ \cup {b}]
    BY DEF reconfs_txn_free
  <2> HIDE DEF z, full
  <2> QED
    BY <1>3, <2>1 DEF Txn
<1>6. u = Cardinality(V \ {b})
  <2>1. Cardinality(V) > 0
    BY <1>4
  <2> QED
    BY <1>3, <1>4, <2>1
<1>7. fr \subseteq Data /\ Cardinality(fr) <= TXN_FREED /\ (full \/ fr = x.freed \cup {b})
      /\ z.freed \subseteq fr /\ fr \subseteq z.freed \cup {b}
  <2>1. x.freed \subseteq Data /\ IsFiniteSet(x.freed) /\ Cardinality(x.freed) <= TXN_FREED
        /\ Cardinality(x.freed) \in Nat
    <3>1. x.freed \subseteq Data
      BY <1>1 DEF Txn
    <3> QED
      BY <3>1, Numbers, FS_Subset, FS_CardinalityType DEF Accounts
  <2>2. b \notin x.freed
    BY DEF Accounts
  <2>3. Cardinality(x.freed \cup {b}) = Cardinality(x.freed) + 1
    BY <2>1, <2>2, FS_AddElement
  <2>4. TXN_FREED \in Nat
    BY Numbers
  <2>5. CASE full
    BY <1>2, <2>1, <2>5
  <2>6. CASE ~full
    <3>1. Cardinality(x.freed) + 1 <= TXN_FREED
      BY <2>1, <2>4, <2>6
    <3> QED
      BY <1>1, <1>2, <2>1, <2>3, <2>6, <3>1
  <2> QED
    BY <2>5, <2>6
<1>8. full \in BOOLEAN
  OBVIOUS
<1> HIDE DEF full, fr, u, z, V
<1>9. /\ y \in Txn /\ SameOthers(z, y) /\ y.loaded = z.loaded /\ y.old = z.old
      /\ y.owned = z.owned \ {b} /\ y.dirty = z.dirty \cup {LeafOf(b)}
      /\ y.freed = fr /\ y.failed = full /\ y.used = Cardinality(V \ {b})
  <2>1. z.owned \ {b} \subseteq Data /\ z.dirty \cup {LeafOf(b)} \subseteq Leaves
    BY <1>1, <1>3 DEF Txn
  <2>2. u \in 0 .. TotalBlocks - 1
    BY <1>4, <1>6
  <2> DEFINE ow == z.owned \ {b}
  <2> DEFINE di == z.dirty \cup {LeafOf(b)}
  <2>3. y = [z EXCEPT !.owned = ow, !.dirty = di, !.used = u, !.failed = full, !.freed = fr]
    BY <1>5
  <2>4. ow \in SUBSET Data /\ di \in SUBSET Leaves /\ fr \in SUBSET Data
    BY <1>7, <2>1
  <2>5. y \in Txn
    <3> HIDE DEF R, ow, di
    <3> QED
      BY <1>3, <1>8, <2>2, <2>3, <2>4, ZenonT(60) DEF Txn
  <2>6. /\ SameOthers(z, y) /\ y.loaded = z.loaded /\ y.old = z.old
        /\ y.owned = ow /\ y.dirty = di
        /\ y.freed = fr /\ y.failed = full /\ y.used = u
    <3> HIDE DEF R, ow, di
    <3> QED
      BY <1>3, <2>3 DEF Txn, SameOthers
  <2> QED
    BY <1>6, <2>5, <2>6
<1>10. View(Overlay, fs.super, y) = V \ {b}
  <2>1. LeafOf(b) \in z.loaded
    BY <1>2
  <2>2. \A c \in Data : c \in View(Overlay, fs.super, y) <=>
                          c \in View(Overlay, fs.super, z) /\ c # b
    BY <1>9, <2>1 DEF View
  <2>3. View(Overlay, fs.super, y) \subseteq Data /\ V \subseteq Data
    BY ViewCounts DEF V
  <2> QED
    BY <1>2, <2>2, <2>3
<1>11. Accounts(Overlay, fs.super, y)
  <2>1. /\ z.dirty \subseteq z.loaded
        /\ \A c \in z.owned : LeafOf(c) \in z.loaded
        /\ \A l \in z.loaded : z.old[l] = LeafAt(Overlay, fs.super)[l]
        /\ \A c \in Data : LeafOf(c) \in z.loaded \ z.dirty => (c \in z.owned <=> c \in R)
        /\ z.freed \cap V = {} /\ R \ V \subseteq z.freed
    BY <1>2 DEF Accounts
  <2>2. /\ y.dirty \subseteq y.loaded
        /\ \A c \in y.owned : LeafOf(c) \in y.loaded
        /\ \A l \in y.loaded : y.old[l] = LeafAt(Overlay, fs.super)[l]
    BY <1>2, <1>9, <2>1
  <2>3. \A c \in Data : LeafOf(c) \in y.loaded \ y.dirty => (c \in y.owned <=> c \in R)
    BY <1>9, <2>1
  <2>4. y.freed \cap (V \ {b}) = {} /\ (~y.failed => R \ (V \ {b}) \subseteq y.freed)
    BY <1>2, <1>7, <1>9, <2>1
  <2>5. Cardinality(y.freed) <= TXN_FREED
    BY <1>7, <1>9
  <2> HIDE DEF R
  <2> QED
    BY <1>9, <1>10, <2>2, <2>3, <2>4, <2>5 DEF Accounts, R
<1>12. SameOthers(x, y) /\ x.dirty \subseteq y.dirty
  BY <1>2, <1>9 DEF SameOthers
<1> QED
  BY <1>10, <1>11, <1>12 DEF V

-----------------------------------------------------------------------------
(* What the invariant's parts depend on.                                   *)

\* The accounts are about the fields the allocator works on.
LEMMA SameAccounts ==
    ASSUME NEW m, NEW s, NEW x, Accounts(m, s, x), NEW y \in Txn,
           y.loaded = x.loaded, y.owned = x.owned, y.old = x.old, y.dirty = x.dirty,
           y.freed = x.freed, y.failed = x.failed, y.used = x.used
    PROVE  Accounts(m, s, y) /\ View(m, s, y) = View(m, s, x)
<1>1. View(m, s, y) = View(m, s, x)
  BY DEF View
<1> QED
  BY <1>1 DEF Accounts

LEMMA SameShape ==
    ASSUME NEW m, NEW s, NEW x, Shape(m, s, x), NEW y,
           View(m, s, y) = View(m, s, x), y.new = x.new, y.index = x.index,
           y.phase = "planned" <=> x.phase = "planned", y.tree = x.tree,
           x.dirty \subseteq y.dirty
    PROVE  Shape(m, s, y)
<1>1. Home(m, s, y) = Home(m, s, x) /\ Top(s, y) = Top(s, x)
  BY DEF Home, Top
<1> QED
  BY <1>1 DEF Shape

\* Clearing `got`, and moving on to the next phase.
LEMMA GotCleared ==
    ASSUME NEW x \in Txn, NEW y, y = [x EXCEPT !.got = 0]
    PROVE  /\ y \in Txn /\ SameOthers(x, y) /\ y.dirty = x.dirty /\ y.freed = x.freed
           /\ \A m, s : Accounts(m, s, x) =>
                Accounts(m, s, y) /\ View(m, s, y) = View(m, s, x)
           /\ \A m, s : Accounts(m, s, x) /\ Shape(m, s, x) => Shape(m, s, y)
<1>1. /\ y \in Txn /\ SameOthers(x, y) /\ y.loaded = x.loaded /\ y.owned = x.owned
      /\ y.old = x.old /\ y.dirty = x.dirty /\ y.freed = x.freed
      /\ y.failed = x.failed /\ y.used = x.used
  BY DEF Txn, SameOthers
<1>2. ASSUME NEW m, NEW s, Accounts(m, s, x)
      PROVE  Accounts(m, s, y) /\ View(m, s, y) = View(m, s, x)
  BY <1>1, <1>2, SameAccounts
<1>3. ASSUME NEW m, NEW s, Accounts(m, s, x), Shape(m, s, x)
      PROVE  Shape(m, s, y)
  BY <1>1, <1>2, <1>3, SameShape DEF SameOthers
<1> QED
  BY <1>1, <1>2, <1>3

LEMMA PhaseMoves ==
    ASSUME NEW x \in Txn, NEW p \in Phases, NEW y, y = [x EXCEPT !.phase = p]
    PROVE  /\ y \in Txn /\ y.phase = p /\ y.new = x.new /\ y.index = x.index
           /\ y.tree = x.tree /\ y.dirty = x.dirty /\ y.freed = x.freed /\ y.used = x.used
           /\ \A m, s : Accounts(m, s, x) =>
                Accounts(m, s, y) /\ View(m, s, y) = View(m, s, x)
<1>1. /\ y \in Txn /\ y.phase = p /\ y.loaded = x.loaded /\ y.owned = x.owned
      /\ y.old = x.old /\ y.dirty = x.dirty /\ y.freed = x.freed
      /\ y.failed = x.failed /\ y.used = x.used
      /\ y.new = x.new /\ y.index = x.index /\ y.tree = x.tree
  BY DEF Txn
<1>2. ASSUME NEW m, NEW s, Accounts(m, s, x)
      PROVE  Accounts(m, s, y) /\ View(m, s, y) = View(m, s, x)
  BY <1>1, <1>2, SameAccounts
<1> QED
  BY <1>1, <1>2

\* The phases of a transaction, and NoTxn.
LEMMA Underway ==
    ASSUME TypeOK, NEW w \in Writers, txn[w].phase # "none"
    PROVE  txn[w] \in Txn
BY DEF TypeOK, NoTxn

LEMMA NotUnderway ==
    /\ NoTxn.phase = "none" /\ "none" \notin Phases
    /\ \A x \in Txn : x.phase \in Phases
BY DEF NoTxn, Phases, Txn

\* What is read of the believed volume is what is on the medium.
LEMMA ReadsTruth ==
    ASSUME TypeOK, DiskOK
    PROVE  /\ Whole(Overlay, Truth) /\ Reached(Overlay, Truth) = Reached(medium, Truth)
           /\ Overlay \in [Data -> Block]
           /\ \A b \in Data : b \notin DOMAIN cache => Overlay[b] = medium[b]
<1>1. \A b \in Data : b \notin DOMAIN cache => Overlay[b] = medium[b]
  BY DEF Overlay, Reads
<1>2. \A b \in Reached(medium, Truth) : Overlay[b] = medium[b]
  BY <1>1, WholeFacts DEF DiskOK
<1>3. Overlay \in [Data -> Block]
  BY DEF Overlay, Reads, TypeOK
<1> QED
  BY <1>1, <1>2, <1>3, WholeStays DEF DiskOK

\* The volume is mounted while a transaction is open, and is the believed one.
LEMMA MountedTruth ==
    ASSUME IInv, NEW w \in Writers, txn[w].phase # "none"
    PROVE  /\ fs.mounted /\ fs.super = Truth /\ fs.live = Believed(supers)
           /\ Whole(Overlay, fs.super) /\ txn[w] \in Txn
           /\ Reached(Overlay, fs.super) = Reached(medium, Truth)
<1>1. txn[w] # NoTxn /\ txn[w] \in Txn
  BY Underway, NotUnderway DEF IInv
<1>2. fs.mounted
  BY <1>1 DEF IInv, MountOK, TypeOK
<1> QED
  BY <1>1, <1>2, ReadsTruth DEF IInv, MountOK

\* Which slot is which.
LEMMA TwoSlots ==
    /\ \A s \in Slots : Other(s) \in Slots /\ Other(s) # s
    /\ \A s, r \in Slots : r # s => r = Other(s)
<1>1. \A s \in Slots : \E r \in Slots : r # s
  BY DEF Slots
<1>2. \A s \in Slots : Other(s) \in Slots /\ Other(s) # s
  BY <1>1 DEF Other
<1> QED
  BY <1>2 DEF Slots

\* A step of the only writer that mounts and publishes nothing.
LEMMA WriterSteps ==
    ASSUME IInv, \A v, w \in Writers : v = w, NEW w \in Writers, NEW y,
           txn' = [txn EXCEPT ![w] = y], UNCHANGED <<supers, fs, crashes>>, fs.mounted,
           begun' \in 0..MaxTxns, DiskOK', medium' \in [Data -> Block],
           DOMAIN cache' \subseteq Data, cache' \in [DOMAIN cache' -> Block],
           DOMAIN supercache' \subseteq Slots, supercache' \in [DOMAIN supercache' -> Super],
           y = NoTxn \/ (y \in Txn /\ Cardinality(y.freed) <= TXN_FREED),
           y.phase \in {"open", "plan", "planned"} =>
             Accounts(Overlay', fs.super, y) /\ Shape(Overlay', fs.super, y),
           y.phase \in {"table", "flushed", "super"} =>
             /\ Whole(Overlay', Succ(fs.super, y))
             /\ Reached(Overlay', Succ(fs.super, y)) \cap y.freed = {},
           y.phase \in {"flushed", "super"} => cache' = <<>>,
           y.phase = "super" => supercache' = [s \in {Other(fs.live)} |-> Succ(fs.super, y)],
           y.phase # "super" => supercache' = <<>>
    PROVE  IInv'
<1>1. txn'[w] = y /\ \A v \in Writers : v = w
  BY DEF IInv, TypeOK
<1>2. TypeOK'
  <2>1. txn' \in [Writers -> Txn \cup {NoTxn}]
    BY DEF IInv, TypeOK
  <2>2. \A v \in Writers : txn'[v] # NoTxn => Cardinality(txn'[v].freed) <= TXN_FREED
    BY <1>1
  <2> QED
    BY <2>1, <2>2 DEF IInv, TypeOK
<1>3. MountOK'
  <2>1. Truth' = Truth
    BY DEF Truth
  <2> QED
    BY <2>1 DEF IInv, MountOK
<1>4. TxnOK'
  BY <1>1 DEF TxnOK
<1>5. SuperOK'
  BY <1>1 DEF SuperOK
<1> QED
  BY <1>2, <1>3, <1>4, <1>5 DEF IInv

\* With the disk left alone as well.
LEMMA WriterThinks ==
    ASSUME IInv, \A v, w \in Writers : v = w, NEW w \in Writers, NEW y,
           txn' = [txn EXCEPT ![w] = y], UNCHANGED <<disk, fs, crashes>>, fs.mounted,
           begun' \in 0..MaxTxns, txn[w].phase # "super", y.phase # "super",
           y = NoTxn \/ (y \in Txn /\ Cardinality(y.freed) <= TXN_FREED),
           y.phase \in {"open", "plan", "planned"} =>
             Accounts(Overlay, fs.super, y) /\ Shape(Overlay, fs.super, y),
           y.phase \in {"table", "flushed"} =>
             /\ Whole(Overlay, Succ(fs.super, y))
             /\ Reached(Overlay, Succ(fs.super, y)) \cap y.freed = {},
           y.phase = "flushed" => cache = <<>>
    PROVE  IInv'
<1>1. UNCHANGED <<medium, cache, supers, supercache>>
  BY DEF disk
<1>2. Overlay' = Overlay /\ Truth' = Truth
  BY <1>1 DEF Overlay, Reads, Truth
<1>3. DiskOK'
  BY <1>1, <1>2 DEF IInv, DiskOK
<1>4. supercache = <<>>
  BY DEF IInv, SuperOK
<1>5. /\ medium' \in [Data -> Block]
      /\ DOMAIN cache' \subseteq Data /\ cache' \in [DOMAIN cache' -> Block]
      /\ DOMAIN supercache' \subseteq Slots /\ supercache' \in [DOMAIN supercache' -> Super]
  BY <1>1 DEF IInv, TypeOK
<1> QED
  BY <1>1, <1>2, <1>3, <1>4, <1>5, WriterSteps

-----------------------------------------------------------------------------
(* The steps that leave the disk alone.                                    *)

LEMMA EndKeeps ==
    ASSUME IInv, \A v, w \in Writers : v = w, NEW w \in Writers,
           txn[w].phase \notin {"none", "super"}, Ends(w),
           UNCHANGED <<disk, fs, begun, crashes>>
    PROVE  IInv'
<1>1. fs.mounted
  BY MountedTruth
<1>2. NoTxn.phase \notin {"open", "plan", "planned", "table", "flushed", "super"}
  BY DEF NoTxn
<1>3. begun' \in 0..MaxTxns
  BY DEF IInv, TypeOK
<1> QED
  BY <1>1, <1>2, <1>3, WriterThinks DEF Ends

\* A transaction that has just begun sees what the volume reaches.
LEMMA BeginKeeps ==
    ASSUME IInv, \A v, w \in Writers : v = w, NEW w \in Writers, reconfs_txn_begin(w)
    PROVE  IInv'
<1> DEFINE zeros == [l \in Leaves |-> 0]
<1> DEFINE x == [phase |-> "open", hint |-> FirstBlock, loaded |-> {}, owned |-> {},
                 old |-> zeros, new |-> zeros,
                 dirty |-> {}, index |-> 0, freed |-> {}, used |-> fs.super.used,
                 failed |-> FALSE, got |-> 0, tag |-> begun + 1, tree |-> fs.super.tree]
<1> DEFINE R == Reached(Overlay, fs.super)
<1>1. /\ fs.mounted /\ begun < MaxTxns /\ begun' = begun + 1
      /\ txn[w].phase = "none" /\ txn' = [txn EXCEPT ![w] = [x EXCEPT !.got = 0]]
      /\ UNCHANGED <<disk, fs, crashes>>
  BY DEF reconfs_txn_begin, Keeps
<1>2. fs.super = Truth /\ Whole(Overlay, fs.super)
  BY <1>1, ReadsTruth DEF IInv, MountOK
<1>3. View(Overlay, fs.super, x) = R
  BY <1>2, WholeFacts DEF View
<1>4. fs.super.used = Cardinality(R) /\ fs.super.used \in 0..TotalBlocks - 1
  <2>1. fs.super.used = Cardinality(R)
    BY <1>2 DEF Whole
  <2>2. Cardinality(View(Overlay, fs.super, x)) \in 0..TotalBlocks - 1
    BY ViewCounts
  <2> QED
    BY <1>3, <2>1, <2>2
<1>5. begun \in 0..MaxTxns /\ MaxTxns \in Nat /\ begun + 1 \in Tags /\ begun' \in 0..MaxTxns
  BY <1>1, Numbers DEF IInv, TypeOK, Tags
<1>6. x \in Txn
  <2>1. fs.super.tree \in Trees
    BY <1>2 DEF Whole, Super
  <2>2. FirstBlock \in FirstBlock..TotalBlocks
    BY Numbers DEF Data
  <2>3. zeros \in [Leaves -> Data \cup {0}]
    OBVIOUS
  <2>4. "open" \in Phases
    BY DEF Phases
  <2> HIDE DEF zeros
  <2> QED
    BY <1>4, <1>5, <2>1, <2>2, <2>3, <2>4 DEF Txn
<1>7. Accounts(Overlay, fs.super, x)
  <2>1. Cardinality({}) = 0 /\ TXN_FREED \in Nat
    BY FS_EmptySet, Numbers
  <2>2. /\ x.dirty = {} /\ x.loaded = {} /\ x.owned = {} /\ x.freed = {} /\ x.failed = FALSE
        /\ x.used = fs.super.used
    OBVIOUS
  <2> HIDE DEF x
  <2> QED
    BY <1>3, <1>4, <1>6, <2>1, <2>2 DEF Accounts
<1>8. Shape(Overlay, fs.super, x)
  <2>1. Home(Overlay, fs.super, x) = LeafAt(Overlay, fs.super) /\ Top(fs.super, x) = fs.super.table
    BY <1>2 DEF Home, Top, Whole
  <2>2. \A l \in Leaves : x.new[l] = 0
    OBVIOUS
  <2>3. fs.super.table \in Data /\ 0 \notin Data
    BY <1>2, Numbers DEF Whole
  <2>4. x.tree = fs.super.tree /\ x.index = 0 /\ x.phase = "open"
    OBVIOUS
  <2> HIDE DEF x
  <2> QED
    BY <1>2, <1>3, <2>1, <2>2, <2>3, <2>4 DEF Shape, Whole, Reached
<1> DEFINE y == [x EXCEPT !.got = 0]
<1>9. y \in Txn /\ y.phase = "open" /\ Accounts(Overlay, fs.super, y) /\ Shape(Overlay, fs.super, y)
  <2>1. x.phase = "open"
    OBVIOUS
  <2> HIDE DEF x
  <2> QED
    BY <1>6, <1>7, <1>8, <2>1, GotCleared DEF SameOthers
<1>10. Cardinality(y.freed) <= TXN_FREED
  BY <1>9 DEF Accounts
<1> HIDE DEF y
<1> QED
  BY <1>1, <1>5, <1>9, <1>10, WriterThinks DEF y

LEMMA CommitKeeps ==
    ASSUME IInv, \A v, w \in Writers : v = w, NEW w \in Writers, reconfs_txn_commit(w)
    PROVE  IInv'
<1>1. txn[w].phase = "open" /\ UNCHANGED <<disk, fs, begun, crashes>>
  BY DEF reconfs_txn_commit
<1>2. /\ fs.mounted /\ txn[w] \in Txn /\ Accounts(Overlay, fs.super, txn[w])
      /\ Shape(Overlay, fs.super, txn[w])
  BY <1>1, MountedTruth DEF IInv, TxnOK
<1>3. CASE Ends(w)
  BY <1>1, <1>3, EndKeeps
<1>4. CASE Keeps(w, [txn[w] EXCEPT !.phase = "plan"])
  <2> DEFINE x == [txn[w] EXCEPT !.phase = "plan"]
  <2> DEFINE y == [x EXCEPT !.got = 0]
  <2>1. /\ x \in Txn /\ x.phase = "plan" /\ Accounts(Overlay, fs.super, x)
        /\ Shape(Overlay, fs.super, x)
    <3>1. "plan" \in Phases
      BY DEF Phases
    <3> QED
      BY <1>1, <1>2, <3>1, PhaseMoves, SameShape
  <2> HIDE DEF x
  <2>2. y \in Txn /\ y.phase = "plan" /\ Accounts(Overlay, fs.super, y) /\ Shape(Overlay, fs.super, y)
    BY <2>1, GotCleared DEF SameOthers
  <2>3. Cardinality(y.freed) <= TXN_FREED
    BY <2>2 DEF Accounts
  <2>4. txn' = [txn EXCEPT ![w] = y]
    BY <1>4 DEF Keeps, x
  <2>5. begun' \in 0..MaxTxns
    BY <1>1 DEF IInv, TypeOK
  <2> HIDE DEF y
  <2> QED
    BY <1>1, <1>2, <2>2, <2>3, <2>4, <2>5, WriterThinks
<1> QED
  BY <1>3, <1>4 DEF reconfs_txn_commit

\* What a step that only works on the accounts has to show.
LEMMA AccountsStep ==
    ASSUME IInv, \A v, w \in Writers : v = w, NEW w \in Writers,
           txn[w].phase \in {"open", "plan"}, NEW x, Keeps(w, x),
           x.phase \in {"open", "plan", "planned"},
           Accounts(Overlay, fs.super, x), Shape(Overlay, fs.super, x),
           UNCHANGED <<disk, fs, begun, crashes>>
    PROVE  IInv'
<1>1. fs.mounted /\ x \in Txn
  BY MountedTruth DEF Accounts
<1> DEFINE y == [x EXCEPT !.got = 0]
<1>2. /\ y \in Txn /\ y.phase = x.phase /\ Accounts(Overlay, fs.super, y)
      /\ Shape(Overlay, fs.super, y)
  BY <1>1, GotCleared DEF SameOthers
<1>3. Cardinality(y.freed) <= TXN_FREED
  BY <1>2 DEF Accounts
<1>4. txn' = [txn EXCEPT ![w] = y]
  BY DEF Keeps
<1>5. begun' \in 0..MaxTxns
  BY DEF IInv, TypeOK
<1> HIDE DEF y
<1> QED
  BY <1>1, <1>2, <1>3, <1>4, <1>5, WriterThinks

\* The tree of a transaction loses a block.
LEMMA DropKeeps ==
    ASSUME IInv, \A v, w \in Writers : v = w, NEW w \in Writers, NEW b \in Data,
           DropBlock(w, b)
    PROVE  IInv'
<1> DEFINE t == txn[w]
<1> DEFINE y == reconfs_txn_free(t, b)
<1> DEFINE s == fs.super
<1> DEFINE tr == [c \in DOMAIN t.tree \ {b} |-> t.tree[c]]
<1> DEFINE z == [y EXCEPT !.tree = tr]
<1>1. /\ t.phase = "open" /\ ~t.failed /\ b \in DOMAIN t.tree
      /\ UNCHANGED <<disk, fs, begun, crashes>>
      /\ Keeps(w, [y EXCEPT !.tree = [c \in DOMAIN @ \ {b} |-> @[c]]])
  BY DEF DropBlock
<1>2. /\ Whole(Overlay, s) /\ t \in Txn /\ Accounts(Overlay, s, t)
      /\ Shape(Overlay, s, t)
  BY <1>1, MountedTruth DEF IInv, TxnOK
<1>3. b \in View(Overlay, s, t)
  BY <1>1, <1>2 DEF Shape
<1>4. /\ Accounts(Overlay, s, y) /\ SameOthers(t, y)
      /\ View(Overlay, s, y) = View(Overlay, s, t) \ {b} /\ t.dirty \subseteq y.dirty
  BY <1>1, <1>2, <1>3, FreeTakes
<1>5. y \in Txn /\ y.tree = t.tree
  BY <1>4 DEF Accounts, SameOthers
<1> HIDE DEF y
<1>6. Keeps(w, z)
  <2>1. [y EXCEPT !.tree = [c \in DOMAIN @ \ {b} |-> @[c]]] = z
    BY <1>5 DEF Txn
  <2> QED
    BY <1>1, <2>1
<1>7. tr \in Trees
  <2>1. t.tree \in Trees
    BY <1>2 DEF Txn
  <2>2. DOMAIN t.tree \subseteq Data /\ \A c \in DOMAIN t.tree : t.tree[c] \in Tags
    BY <2>1 DEF Trees
  <2>3. tr \in [DOMAIN t.tree \ {b} -> Tags]
    BY <2>2
  <2> QED
    BY <2>2, <2>3 DEF Trees
<1>8. DOMAIN tr = DOMAIN t.tree \ {b} /\ \A c \in DOMAIN tr : tr[c] = t.tree[c]
  OBVIOUS
<1> HIDE DEF tr
<1>9. /\ z \in Txn /\ z.tree = tr /\ z.loaded = y.loaded /\ z.owned = y.owned /\ z.old = y.old
      /\ z.dirty = y.dirty /\ z.freed = y.freed /\ z.failed = y.failed /\ z.used = y.used
      /\ z.new = y.new /\ z.index = y.index /\ z.phase = y.phase
  BY <1>5, <1>7 DEF Txn
<1> HIDE DEF z
<1>10. Accounts(Overlay, s, z) /\ View(Overlay, s, z) = View(Overlay, s, t) \ {b}
  BY <1>4, <1>9, SameAccounts
<1>11. Home(Overlay, s, z) = Home(Overlay, s, t) /\ Top(s, z) = Top(s, t)
  BY <1>4, <1>9 DEF Home, Top, SameOthers
<1>12. z.phase = t.phase /\ z.new = t.new /\ z.index = t.index /\ t.dirty \subseteq z.dirty
  BY <1>4, <1>9 DEF SameOthers
<1> HIDE DEF t
<1>13. Shape(Overlay, s, z)
  <2>1. View(Overlay, s, t) = DOMAIN t.tree \cup {Top(s, t)} \cup {Home(Overlay, s, t)[l] : l \in Leaves}
    BY <1>2 DEF Shape
  <2>2. Top(s, t) # b /\ \A l \in Leaves : Home(Overlay, s, t)[l] # b
    BY <1>1, <1>2 DEF Shape
  <2>3. View(Overlay, s, z) = DOMAIN tr \cup {Top(s, t)} \cup {Home(Overlay, s, t)[l] : l \in Leaves}
    BY <1>8, <1>10, <2>1, <2>2
  <2> QED
    BY <1>2, <1>8, <1>9, <1>11, <1>12, <2>3 DEF Shape
<1> QED
  BY <1>1, <1>6, <1>10, <1>12, <1>13, AccountsStep DEF t

\* planned_leaf finds the new home of a leaf of the live table.
LEMMA PlannedLeaf ==
    ASSUME Whole(Overlay, fs.super), NEW x, Accounts(Overlay, fs.super, x),
           Shape(Overlay, fs.super, x), NEW l \in Leaves
    PROVE  planned_leaf(x, LiveLeaf(l)) = x.new[l]
<1> DEFINE b == LiveLeaf(l)
<1> DEFINE P(k) == k \in x.loaded /\ x.old[k] = b /\ x.new[k] # 0
<1>1. /\ x.dirty \subseteq x.loaded /\ x.loaded \subseteq Leaves
      /\ \A k \in x.loaded : x.old[k] = LeafAt(Overlay, fs.super)[k]
      /\ \A k \in Leaves : x.new[k] # 0 => k \in x.dirty
  BY DEF Accounts, Txn, Shape
<1>2. b = LeafAt(Overlay, fs.super)[l]
  BY LiveTable
<1>3. \A k \in x.loaded : x.old[k] = b => k = l
  BY <1>1, <1>2 DEF Whole
<1>4. CASE x.new[l] # 0
  <2>1. l \in x.loaded /\ x.old[l] = b /\ x.new[l] # 0
    BY <1>1, <1>2, <1>4
  <2>2. (CHOOSE k \in x.loaded : x.old[k] = b /\ x.new[k] # 0) = l
    BY <1>3, <2>1
  <2> QED
    BY <2>1, <2>2 DEF planned_leaf
<1>5. CASE x.new[l] = 0
  <2>1. ~ \E k \in x.loaded : x.old[k] = b /\ x.new[k] # 0
    BY <1>3, <1>5
  <2> QED
    BY <1>5, <2>1 DEF planned_leaf
<1> QED
  BY <1>4, <1>5

LEMMA PlanLeavesKeeps ==
    ASSUME IInv, \A v, w \in Writers : v = w, NEW w \in Writers, plan_leaves(w)
    PROVE  IInv'
<1> DEFINE t == txn[w]
<1> DEFINE s == fs.super
<1> DEFINE x == reconfs_txn_alloc(t)
<1>1. t.phase = "plan" /\ UNCHANGED <<disk, fs, begun, crashes>>
  BY DEF plan_leaves
<1>2. PICK l \in Homeless(t) :
        IF x.got = 0 THEN Ends(w)
        ELSE Keeps(w, reconfs_txn_free([x EXCEPT !.new[l] = x.got], x.old[l]))
  BY DEF plan_leaves
<1>3. /\ Whole(Overlay, s) /\ t \in Txn /\ Accounts(Overlay, s, t)
      /\ Shape(Overlay, s, t)
  BY <1>1, MountedTruth DEF IInv, TxnOK
<1>4. CASE Ends(w)
  BY <1>1, <1>4, EndKeeps
<1>5. CASE x.got # 0 /\ Keeps(w, reconfs_txn_free([x EXCEPT !.new[l] = x.got], x.old[l]))
  <2> DEFINE g == x.got
  <2> DEFINE nw == [x.new EXCEPT ![l] = g]
  <2> DEFINE z == [x EXCEPT !.new = nw]
  <2> DEFINE y == reconfs_txn_free(z, x.old[l])
  <2> DEFINE o == LeafAt(Overlay, s)[l]
  <2>1. /\ Accounts(Overlay, s, x) /\ SameOthers(t, x)
        /\ g \in Data /\ g \notin View(Overlay, s, t) /\ g \notin Reached(Overlay, s)
        /\ View(Overlay, s, x) = View(Overlay, s, t) \cup {g}
        /\ t.dirty \subseteq x.dirty /\ ~x.failed
    BY <1>3, <1>5, AllocGives
  <2>2. x \in Txn /\ x.new = t.new /\ x.tree = t.tree /\ x.index = t.index /\ x.phase = t.phase
    BY <2>1 DEF Accounts, SameOthers
  <2>3. l \in Leaves /\ l \in t.dirty /\ t.new[l] = 0
    BY <1>3 DEF Homeless, Txn
  <2> HIDE DEF x, t
  <2>4. [x EXCEPT !.new[l] = x.got] = z
    OBVIOUS
  <2>5. x.old[l] = o
    BY <2>1, <2>3 DEF Accounts
  <2>6. nw \in [Leaves -> Data \cup {0}]
    BY <2>1, <2>2, <2>3 DEF Txn
  <2>7. nw[l] = g /\ \A k \in Leaves : k # l => nw[k] = t.new[k]
    BY <2>2, <2>3 DEF Txn
  <2> HIDE DEF nw
  <2>8. /\ z \in Txn /\ z.new = nw /\ z.loaded = x.loaded /\ z.owned = x.owned /\ z.old = x.old
        /\ z.dirty = x.dirty /\ z.freed = x.freed /\ z.failed = x.failed /\ z.used = x.used
        /\ z.index = x.index /\ z.phase = x.phase /\ z.tree = x.tree
    BY <2>2, <2>6 DEF Txn
  <2> HIDE DEF z
  <2>9. Accounts(Overlay, s, z) /\ View(Overlay, s, z) = View(Overlay, s, t) \cup {g}
    BY <2>1, <2>8, SameAccounts
  <2>10. Home(Overlay, s, t)[l] = o
    BY <2>3 DEF Home
  <2>11. o \in View(Overlay, s, t) /\ 0 \notin Data
    BY <1>3, <2>3, <2>10, Numbers DEF Shape
  <2>12. /\ Accounts(Overlay, s, y) /\ SameOthers(z, y)
         /\ View(Overlay, s, y) = View(Overlay, s, z) \ {o} /\ z.dirty \subseteq y.dirty
    BY <1>3, <2>1, <2>5, <2>8, <2>9, <2>11, FreeTakes
  <2>13. /\ y.new = nw /\ y.tree = t.tree /\ y.index = t.index /\ y.phase = t.phase
         /\ t.dirty \subseteq y.dirty
    BY <2>1, <2>2, <2>8, <2>12 DEF SameOthers
  <2>14. Keeps(w, y)
    BY <1>5, <2>4
  <2> HIDE DEF y
  <2> DEFINE H == Home(Overlay, s, t)
  <2> DEFINE K == Home(Overlay, s, y)
  <2>15. /\ K[l] = g /\ \A k \in Leaves : k # l => K[k] = H[k]
    BY <2>1, <2>3, <2>7, <2>11, <2>13 DEF Home
  <2>16. Top(s, y) = Top(s, t)
    BY <2>13 DEF Top
  <2> HIDE DEF g, o
  <2>17. Shape(Overlay, s, y)
    <3> DEFINE T == Top(s, t)
    <3> DEFINE V == View(Overlay, s, t)
    <3>1. /\ V = DOMAIN t.tree \cup {T} \cup {H[k] : k \in Leaves}
          /\ \A j, k \in Leaves : H[j] = H[k] => j = k
          /\ \A k \in Leaves : H[k] # T /\ H[k] \notin DOMAIN t.tree
          /\ T \notin DOMAIN t.tree
      BY <1>3 DEF Shape
    <3>2. View(Overlay, s, y) = (V \cup {g}) \ {o}
      BY <2>9, <2>12
    <3> HIDE DEF T, V, H, K
    <3>3. o \notin DOMAIN t.tree /\ o # T /\ H[l] = o /\ g \notin V
      BY <2>1, <2>3, <2>10, <3>1 DEF H, V
    <3>4. \A k \in Leaves : k # l => K[k] # o
      BY <2>3, <2>15, <3>1, <3>3
    <3>5. (V \cup {g}) \ {o} \subseteq DOMAIN t.tree \cup {T} \cup {K[k] : k \in Leaves}
      BY <2>3, <2>15, <3>1, <3>3
    <3>6. DOMAIN t.tree \cup {T} \cup {K[k] : k \in Leaves} \subseteq (V \cup {g}) \ {o}
      <4>1. o # g
        BY <2>11, <3>3 DEF V
      <4> QED
        BY <2>3, <2>15, <3>1, <3>3, <3>4, <4>1
    <3>7. View(Overlay, s, y) = DOMAIN t.tree \cup {T} \cup {K[k] : k \in Leaves}
      BY <3>2, <3>5, <3>6
    <3>8. \A j, k \in Leaves : K[j] = K[k] => j = k
      BY <2>15, <3>1, <3>3
    <3>9. \A k \in Leaves : K[k] # T /\ K[k] \notin DOMAIN t.tree
      BY <2>15, <3>1, <3>3
    <3>10. /\ \A k \in Leaves : t.new[k] # 0 => t.new[k] \notin Reached(Overlay, s) /\ k \in t.dirty
           /\ t.index # 0 <=> t.phase = "planned"
           /\ \A b \in DOMAIN t.tree : Overlay[b] = Holds(t.tree[b])
      BY <1>3 DEF Shape
    <3>11. \A k \in Leaves : nw[k] # 0 => nw[k] \notin Reached(Overlay, s) /\ k \in y.dirty
      BY <2>1, <2>3, <2>7, <2>13, <3>10 DEF g
    <3>12. t.index = 0 /\ s.table # 0
      BY <1>1, <1>3, <2>11, <3>10 DEF Whole, t
    <3> QED
      BY <2>13, <2>16, <3>1, <3>7, <3>8, <3>9, <3>10, <3>11, <3>12 DEF Shape, T, K
  <2> QED
    BY <1>1, <2>12, <2>13, <2>14, <2>17, AccountsStep DEF t
<1> QED
  BY <1>2, <1>4, <1>5

LEMMA PlanIndexKeeps ==
    ASSUME IInv, \A v, w \in Writers : v = w, NEW w \in Writers, plan_index(w)
    PROVE  IInv'
<1> DEFINE t == txn[w]
<1> DEFINE s == fs.super
<1> DEFINE x == reconfs_txn_alloc(t)
<1> DEFINE H == Home(Overlay, s, t)
<1>1. /\ t.phase = "plan" /\ UNCHANGED <<disk, fs, begun, crashes>>
  BY DEF plan_index
<1>2. /\ Whole(Overlay, s) /\ t \in Txn /\ Accounts(Overlay, s, t)
      /\ Shape(Overlay, s, t)
  BY <1>1, MountedTruth DEF IInv, TxnOK
<1>3. /\ t.index = 0 /\ s.table \in Data /\ s.table # 0 /\ Top(s, t) = s.table
      /\ s.table \in Reached(Overlay, s) /\ "planned" \in Phases
  BY <1>1, <1>2, Numbers, WholeFacts DEF Shape, Whole, Top, Phases
<1>4. /\ View(Overlay, s, t) = DOMAIN t.tree \cup {s.table} \cup {H[k] : k \in Leaves}
      /\ \A j, k \in Leaves : H[j] = H[k] => j = k
      /\ \A k \in Leaves : H[k] # s.table /\ H[k] \notin DOMAIN t.tree
      /\ s.table \notin DOMAIN t.tree
      /\ \A k \in Leaves : t.new[k] # 0 => t.new[k] \notin Reached(Overlay, s) /\ k \in t.dirty
      /\ \A b \in DOMAIN t.tree : Overlay[b] = Holds(t.tree[b])
  BY <1>2, <1>3 DEF Shape
<1>5. CASE Ends(w)
  BY <1>1, <1>5, EndKeeps
<1>6. CASE x.got # 0 /\ Keeps(w, reconfs_txn_free([x EXCEPT !.index = x.got, !.phase = "planned"],
                                                  fs.super.table))
  <2> DEFINE g == x.got
  <2> DEFINE z == [x EXCEPT !.index = g, !.phase = "planned"]
  <2> DEFINE y == reconfs_txn_free(z, s.table)
  <2>1. /\ Accounts(Overlay, s, x) /\ SameOthers(t, x)
        /\ g \in Data /\ g \notin View(Overlay, s, t) /\ g \notin Reached(Overlay, s)
        /\ View(Overlay, s, x) = View(Overlay, s, t) \cup {g}
        /\ t.dirty \subseteq x.dirty /\ ~x.failed
    BY <1>2, <1>6, AllocGives
  <2>2. x \in Txn /\ x.new = t.new /\ x.tree = t.tree
    BY <2>1 DEF Accounts, SameOthers
  <2> HIDE DEF x, t
  <2>3. /\ z \in Txn /\ z.new = x.new /\ z.loaded = x.loaded /\ z.owned = x.owned /\ z.old = x.old
        /\ z.dirty = x.dirty /\ z.freed = x.freed /\ z.failed = x.failed /\ z.used = x.used
        /\ z.index = g /\ z.phase = "planned" /\ z.tree = x.tree
    BY <1>3, <2>1, <2>2 DEF Txn
  <2> HIDE DEF z
  <2>4. Accounts(Overlay, s, z) /\ View(Overlay, s, z) = View(Overlay, s, t) \cup {g}
    BY <2>1, <2>3, SameAccounts
  <2>5. s.table \in View(Overlay, s, z)
    BY <1>4, <2>4
  <2>6. /\ Accounts(Overlay, s, y) /\ SameOthers(z, y)
        /\ View(Overlay, s, y) = View(Overlay, s, z) \ {s.table} /\ z.dirty \subseteq y.dirty
    BY <1>2, <2>1, <2>3, <2>4, <2>5, FreeTakes
  <2>7. /\ y.new = t.new /\ y.tree = t.tree /\ y.index = g /\ y.phase = "planned"
        /\ t.dirty \subseteq y.dirty
    BY <2>1, <2>2, <2>3, <2>6 DEF SameOthers
  <2>8. Keeps(w, y)
    BY <1>6 DEF z
  <2> HIDE DEF y
  <2>9. Home(Overlay, s, y) = H /\ Top(s, y) = g /\ g # 0 /\ g # s.table
    BY <1>3, <2>1, <2>7, Numbers DEF Home, Top
  <2>10. Shape(Overlay, s, y)
    <3> HIDE DEF g, H
    <3>1. (View(Overlay, s, t) \cup {g}) \ {s.table}
            = DOMAIN t.tree \cup {g} \cup {H[k] : k \in Leaves}
      <4>1. (View(Overlay, s, t) \cup {g}) \ {s.table}
              \subseteq DOMAIN t.tree \cup {g} \cup {H[k] : k \in Leaves}
        BY <1>4
      <4>2. DOMAIN t.tree \cup {g} \cup {H[k] : k \in Leaves}
              \subseteq (View(Overlay, s, t) \cup {g}) \ {s.table}
        BY <1>4, <2>9
      <4> QED
        BY <4>1, <4>2
    <3>2. g \notin DOMAIN t.tree /\ \A k \in Leaves : H[k] # g
      BY <1>4, <2>1 DEF g
    <3>3. \A k \in Leaves : t.new[k] # 0 => k \in y.dirty
      BY <1>4, <2>7
    <3>4. g \notin Reached(Overlay, s)
      BY <2>1 DEF g
    <3> QED
      BY <1>4, <2>4, <2>6, <2>7, <2>9, <3>1, <3>2, <3>3, <3>4 DEF Shape
  <2> QED
    BY <1>1, <2>6, <2>7, <2>8, <2>10, AccountsStep DEF t
<1>7. CASE /\ ~ \E l \in Leaves : planned_leaf(t, LiveLeaf(l)) # 0
           /\ Keeps(w, [txn[w] EXCEPT !.index = fs.super.table, !.phase = "planned"])
  <2> DEFINE y == [t EXCEPT !.index = s.table, !.phase = "planned"]
  <2>1. \A l \in Leaves : t.new[l] = 0
    <3>1. \A l \in Leaves : planned_leaf(t, LiveLeaf(l)) = t.new[l]
      <4> HIDE DEF t
      <4> QED
        BY <1>2, PlannedLeaf
    <3> QED
      BY <1>7, <3>1
  <2>2. Keeps(w, y)
    BY <1>7
  <2> HIDE DEF t
  <2>3. /\ y \in Txn /\ y.new = t.new /\ y.loaded = t.loaded /\ y.owned = t.owned /\ y.old = t.old
        /\ y.dirty = t.dirty /\ y.freed = t.freed /\ y.failed = t.failed /\ y.used = t.used
        /\ y.index = s.table /\ y.phase = "planned" /\ y.tree = t.tree
    BY <1>2, <1>3 DEF Txn
  <2> HIDE DEF y
  <2>4. Accounts(Overlay, s, y) /\ View(Overlay, s, y) = View(Overlay, s, t)
    BY <1>2, <2>3, SameAccounts
  <2>5. Home(Overlay, s, y) = H /\ Top(s, y) = s.table
    BY <1>3, <2>3 DEF Home, Top
  <2>6. Shape(Overlay, s, y)
    <3> HIDE DEF H
    <3> QED
      BY <1>3, <1>4, <2>1, <2>3, <2>4, <2>5 DEF Shape
  <2> QED
    BY <1>1, <2>2, <2>3, <2>4, <2>6, AccountsStep DEF t
<1> QED
  BY <1>5, <1>6, <1>7 DEF plan_index

-----------------------------------------------------------------------------
(* The steps that write.                                                   *)

\* The disk is given blocks that the believed volume does not reach.
LEMMA CacheGrows ==
    ASSUME IInv, NEW B \in SUBSET Data, B \cap Reached(medium, Truth) = {},
           cache' \in [DOMAIN cache \cup B -> Block],
           \A b \in DOMAIN cache \ B : cache'[b] = cache[b],
           UNCHANGED <<medium, supers>>
    PROVE  /\ DiskOK' /\ DOMAIN cache' \subseteq Data /\ cache' \in [DOMAIN cache' -> Block]
           /\ \A b \in Data : Overlay'[b] = IF b \in B THEN cache'[b] ELSE Overlay[b]
<1>1. DOMAIN cache' = DOMAIN cache \cup B /\ DOMAIN cache \subseteq Data
  BY DEF IInv, TypeOK
<1>2. Truth' = Truth /\ medium' = medium
  BY DEF Truth
<1>3. DiskOK'
  BY <1>1, <1>2 DEF IInv, DiskOK
<1>4. \A b \in Data : Overlay'[b] = IF b \in B THEN cache'[b] ELSE Overlay[b]
  BY <1>1 DEF Overlay, Reads
<1> QED
  BY <1>1, <1>3, <1>4

\* The accounts depend on what the live volume reaches.
LEMMA AccountsStay ==
    ASSUME NEW m, NEW n, NEW s, Whole(m, s), \A b \in Reached(m, s) : n[b] = m[b], NEW x
    PROVE  /\ View(n, s, x) = View(m, s, x) /\ Home(n, s, x) = Home(m, s, x)
           /\ Accounts(m, s, x) => Accounts(n, s, x)
<1>1. Reached(n, s) = Reached(m, s) /\ LeafAt(n, s) = LeafAt(m, s)
  BY WholeStays
<1>2. View(n, s, x) = View(m, s, x) /\ Home(n, s, x) = Home(m, s, x)
  BY <1>1 DEF View, Home
<1> QED
  BY <1>1, <1>2 DEF Accounts

LEMMA TakeKeeps ==
    ASSUME IInv, \A v, w \in Writers : v = w, NEW w \in Writers, TakeBlock(w)
    PROVE  IInv'
<1> DEFINE t == txn[w]
<1> DEFINE s == fs.super
<1> DEFINE x == reconfs_txn_alloc(t)
<1> DEFINE g == x.got
<1> DEFINE H == Home(Overlay, s, t)
<1>1. /\ t.phase = "open"
      /\ UNCHANGED <<medium, supers, supercache, fs, begun, crashes>>
  BY DEF TakeBlock
<1>2. /\ Whole(Overlay, s) /\ t \in Txn /\ Accounts(Overlay, s, t) /\ fs.mounted
      /\ Shape(Overlay, s, t) /\ Reached(Overlay, s) = Reached(medium, Truth)
  BY <1>1, MountedTruth DEF IInv, TxnOK
<1>3. CASE Ends(w) /\ UNCHANGED cache
  BY <1>1, <1>3, EndKeeps DEF disk
<1>4. CASE /\ g # 0
           /\ cache' = [c \in DOMAIN cache \cup {g} |-> IF c = g THEN Holds(x.tag) ELSE cache[c]]
           /\ Keeps(w, [x EXCEPT !.tree = [c \in DOMAIN @ \cup {g} |-> IF c = g THEN x.tag ELSE @[c]]])
  <2> DEFINE tr == [c \in DOMAIN t.tree \cup {g} |-> IF c = g THEN x.tag ELSE t.tree[c]]
  <2> DEFINE z == [x EXCEPT !.tree = tr]
  <2>1. /\ Accounts(Overlay, s, x) /\ SameOthers(t, x)
        /\ g \in Data /\ g \notin View(Overlay, s, t) /\ g \notin Reached(Overlay, s)
        /\ View(Overlay, s, x) = View(Overlay, s, t) \cup {g}
        /\ t.dirty \subseteq x.dirty /\ ~x.failed
    BY <1>2, <1>4, AllocGives
  <2>2. /\ x \in Txn /\ x.new = t.new /\ x.tree = t.tree /\ x.index = t.index /\ x.phase = t.phase
        /\ x.tag \in Tags
    BY <2>1 DEF Accounts, SameOthers, Txn
  <2> HIDE DEF x, t
  <2>3. Keeps(w, z)
    <3>1. [x EXCEPT !.tree = [c \in DOMAIN @ \cup {g} |-> IF c = g THEN x.tag ELSE @[c]]] = z
      BY <2>2 DEF Txn
    <3> QED
      BY <1>4, <3>1
  <2>4. tr \in Trees
    <3>1. t.tree \in Trees
      BY <1>2 DEF Txn
    <3>2. DOMAIN t.tree \subseteq Data /\ \A c \in DOMAIN t.tree : t.tree[c] \in Tags
      BY <3>1 DEF Trees
    <3>3. tr \in [DOMAIN t.tree \cup {g} -> Tags]
      BY <2>2, <3>2
    <3> QED
      BY <2>1, <3>2, <3>3 DEF Trees
  <2>5. /\ DOMAIN tr = DOMAIN t.tree \cup {g} /\ tr[g] = x.tag
        /\ \A c \in DOMAIN t.tree : c # g => tr[c] = t.tree[c]
    OBVIOUS
  <2> HIDE DEF tr
  <2>6. /\ z \in Txn /\ z.tree = tr /\ z.loaded = x.loaded /\ z.owned = x.owned /\ z.old = x.old
        /\ z.dirty = x.dirty /\ z.freed = x.freed /\ z.failed = x.failed /\ z.used = x.used
        /\ z.new = t.new /\ z.index = t.index /\ z.phase = t.phase
    BY <2>2, <2>4 DEF Txn
  <2> HIDE DEF z
  <2>7. Accounts(Overlay, s, z) /\ View(Overlay, s, z) = View(Overlay, s, t) \cup {g}
    BY <2>1, <2>6, SameAccounts
  <2>8. /\ DiskOK' /\ DOMAIN cache' \subseteq Data /\ cache' \in [DOMAIN cache' -> Block]
        /\ \A b \in Data : Overlay'[b] = IF b \in {g} THEN cache'[b] ELSE Overlay[b]
        /\ cache'[g] = Holds(x.tag)
    <3>1. Holds(x.tag) \in Block /\ DOMAIN cache \subseteq Data /\ cache \in [DOMAIN cache -> Block]
      BY <2>2, Blocks DEF IInv, TypeOK
    <3> HIDE DEF g
    <3>2. cache' \in [DOMAIN cache \cup {g} -> Block] /\ cache'[g] = Holds(x.tag)
      BY <1>4, <3>1
    <3>3. \A b \in DOMAIN cache \ {g} : cache'[b] = cache[b]
      BY <1>4
    <3>4. {g} \in SUBSET Data /\ {g} \cap Reached(medium, Truth) = {}
      BY <1>2, <2>1 DEF g
    <3> QED
      BY <1>1, <3>2, <3>3, <3>4, CacheGrows
  <2>9. \A b \in Reached(Overlay, s) : Overlay'[b] = Overlay[b]
    BY <1>2, <2>1, <2>8, WholeFacts
  <2> HIDE DEF g
  <2>10. /\ Accounts(Overlay', s, z) /\ View(Overlay', s, z) = View(Overlay, s, t) \cup {g}
         /\ Home(Overlay', s, z) = H /\ Top(s, z) = Top(s, t)
         /\ Reached(Overlay', s) = Reached(Overlay, s)
    <3>1. Home(Overlay, s, z) = H /\ Top(s, z) = Top(s, t)
      BY <2>6 DEF Home, Top
    <3> QED
      BY <1>2, <2>7, <2>9, <3>1, AccountsStay, WholeStays
  <2>11. Shape(Overlay', s, z)
    <3> HIDE DEF H
    <3>1. /\ View(Overlay, s, t) = DOMAIN t.tree \cup {Top(s, t)} \cup {H[k] : k \in Leaves}
          /\ \A j, k \in Leaves : H[j] = H[k] => j = k
          /\ \A k \in Leaves : H[k] # Top(s, t) /\ H[k] \notin DOMAIN t.tree
          /\ Top(s, t) \notin DOMAIN t.tree
          /\ \A k \in Leaves : t.new[k] # 0 => t.new[k] \notin Reached(Overlay, s) /\ k \in t.dirty
          /\ t.index \notin {0, s.table} => t.index \notin Reached(Overlay, s)
          /\ t.index # 0 <=> t.phase = "planned"
          /\ t.index = s.table => \A l \in Leaves : t.new[l] = 0
          /\ \A b \in DOMAIN t.tree : Overlay[b] = Holds(t.tree[b])
      BY <1>2 DEF Shape, H
    <3>2. View(Overlay, s, t) \cup {g} = DOMAIN tr \cup {Top(s, t)} \cup {H[k] : k \in Leaves}
      BY <2>5, <3>1
    <3>3. g # Top(s, t) /\ g \notin DOMAIN t.tree /\ \A k \in Leaves : H[k] # g
      BY <2>1, <3>1 DEF g
    <3>4. \A k \in Leaves : H[k] # Top(s, t) /\ H[k] \notin DOMAIN tr
      BY <2>5, <3>1, <3>3
    <3>5. Top(s, t) \notin DOMAIN tr
      BY <2>5, <3>1, <3>3
    <3>6. \A b \in DOMAIN tr : Overlay'[b] = Holds(tr[b])
      <4>1. DOMAIN t.tree \subseteq Data /\ g \in Data
        BY <2>1, <3>1, ViewCounts DEF g
      <4> QED
        BY <2>5, <2>8, <3>1, <3>3, <4>1
    <3>7. \A k \in Leaves : t.new[k] # 0 => k \in z.dirty
      BY <2>1, <2>6, <3>1
    <3> QED
      BY <2>6, <2>10, <3>1, <3>2, <3>4, <3>5, <3>6, <3>7 DEF Shape
  <2> DEFINE y == [z EXCEPT !.got = 0]
  <2>12. /\ y \in Txn /\ y.phase = "open" /\ Accounts(Overlay', s, y)
         /\ Shape(Overlay', s, y)
    <3>1. z.phase = "open"
      BY <1>1, <2>6 DEF t
    <3> QED
      BY <2>6, <2>10, <2>11, <3>1, GotCleared DEF SameOthers
  <2>13. Cardinality(y.freed) <= TXN_FREED
    BY <2>12 DEF Accounts
  <2>14. txn' = [txn EXCEPT ![w] = y]
    BY <2>3 DEF Keeps
  <2>15. /\ begun' \in 0..MaxTxns /\ medium' \in [Data -> Block]
         /\ DOMAIN supercache' \subseteq Slots /\ supercache' \in [DOMAIN supercache' -> Super]
    BY <1>1 DEF IInv, TypeOK
  <2>16. supercache' = <<>>
    BY <1>1 DEF IInv, SuperOK, t
  <2> HIDE DEF y
  <2> QED
    BY <1>1, <1>2, <2>8, <2>12, <2>13, <2>14, <2>15, <2>16, WriterSteps
<1> QED
  BY <1>3, <1>4 DEF TakeBlock

\* The table's blocks as they are written: the leaves that move, and the index
\* when it moves.
LEMMA TableWritesAre ==
    ASSUME Whole(Overlay, fs.super), NEW x, Accounts(Overlay, fs.super, x),
           Shape(Overlay, fs.super, x), x.phase = "planned", NEW W, W = TableWrites(x)
    PROVE  /\ DOMAIN W = {x.new[l] : l \in {k \in Leaves : x.new[k] # 0}}
                           \cup ({x.index} \ {fs.super.table})
           /\ \A l \in Leaves : x.new[l] # 0 => W[x.new[l]] = Owners(x.owned \cap Covers(l))
           /\ x.index # fs.super.table => W[x.index] = Index(Home(Overlay, fs.super, x))
           /\ DOMAIN W \subseteq Data /\ DOMAIN W \cap Reached(Overlay, fs.super) = {}
           /\ W \in [DOMAIN W -> Block]
<1> DEFINE H == Home(Overlay, fs.super, x)
<1> DEFINE moved == {l \in Leaves : x.new[l] # 0}
<1> DEFINE leafs == {x.new[l] : l \in moved}
<1> DEFINE at == [l \in Leaves |-> LET m == planned_leaf(x, LiveLeaf(l))
                                   IN  IF m # 0 THEN m ELSE LiveLeaf(l)]
<1> DEFINE D == leafs \cup ({x.index} \ {fs.super.table})
<1>1. W = [b \in D |-> IF b \in leafs
                       THEN Owners(x.owned \cap Covers(CHOOSE l \in moved : x.new[l] = b))
                       ELSE Index(at)]
  BY DEF TableWrites
<1>2. at = H
  <2>1. \A l \in Leaves : planned_leaf(x, LiveLeaf(l)) = x.new[l]
    BY PlannedLeaf
  <2>2. \A l \in Leaves : LiveLeaf(l) = LeafAt(Overlay, fs.super)[l]
    BY LiveTable
  <2> QED
    BY <2>1, <2>2 DEF Home
<1> HIDE DEF at
<1>3. /\ x \in Txn /\ x.new \in [Leaves -> Data \cup {0}] /\ x.owned \subseteq Data
      /\ x.index \in Data \cup {0}
  BY DEF Accounts, Txn
<1>4. /\ \A j, k \in Leaves : H[j] = H[k] => j = k
      /\ \A l \in moved : H[l] = x.new[l]
      /\ x.index # 0 /\ \A l \in Leaves : H[l] # x.index
  BY DEF Shape, Home, Top
<1>5. H \in [Leaves -> Data]
  BY <1>3 DEF Home, Whole
<1>6. ASSUME NEW l \in moved
      PROVE  W[x.new[l]] = Owners(x.owned \cap Covers(l))
  <2>1. (CHOOSE k \in moved : x.new[k] = x.new[l]) = l
    BY <1>4
  <2>2. x.new[l] \in leafs
    OBVIOUS
  <2> HIDE DEF leafs, moved
  <2> QED
    BY <1>1, <2>1, <2>2
<1>7. ASSUME x.index # fs.super.table
      PROVE  W[x.index] = Index(H)
  <2>1. x.index \notin leafs
    BY <1>4
  <2> HIDE DEF leafs
  <2> QED
    BY <1>1, <1>2, <1>7, <2>1
<1>8. D \subseteq Data /\ D \cap Reached(Overlay, fs.super) = {}
  <2>1. leafs \subseteq Data /\ leafs \cap Reached(Overlay, fs.super) = {}
    BY <1>3 DEF Shape
  <2>2. x.index \in Data /\ (x.index # fs.super.table => x.index \notin Reached(Overlay, fs.super))
    BY <1>3, <1>4 DEF Shape
  <2> HIDE DEF leafs
  <2> QED
    BY <2>1, <2>2
<1>9. W \in [D -> Block]
  <2>1. ASSUME NEW b \in D PROVE W[b] \in Block
    <3>1. CASE b \in leafs
      <4>1. PICK l \in moved : b = x.new[l]
        BY <3>1
      <4>2. x.owned \cap Covers(l) \in SUBSET Data
        BY <1>3
      <4> QED
        BY <1>6, <4>1, <4>2, Blocks
    <3>2. CASE b \notin leafs
      <4>1. b = x.index /\ x.index # fs.super.table
        BY <3>2
      <4> QED
        BY <1>5, <1>7, <4>1, Blocks
    <3> QED
      BY <3>1, <3>2
  <2> HIDE DEF D, leafs, moved
  <2> QED
    BY <1>1, <2>1
<1>10. DOMAIN W = D
  BY <1>1
<1> HIDE DEF D
<1> QED
  BY <1>6, <1>7, <1>8, <1>9, <1>10 DEF D

\* With all of the table written the disk holds, in its cache, the volume that
\* the new superblock will name.
LEMMA TableWritten ==
    ASSUME NEW s, NEW x, NEW m, Whole(m, s), Accounts(m, s, x),
           Shape(m, s, x), x.phase = "planned", Homeless(x) = {},
           NEW W, NEW n,
           DOMAIN W = {x.new[l] : l \in {k \in Leaves : x.new[k] # 0}} \cup ({x.index} \ {s.table}),
           \A l \in Leaves : x.new[l] # 0 => W[x.new[l]] = Owners(x.owned \cap Covers(l)),
           x.index # s.table => W[x.index] = Index(Home(m, s, x)),
           DOMAIN W \subseteq Data, DOMAIN W \cap Reached(m, s) = {},
           \A b \in Data : n[b] = IF b \in DOMAIN W THEN W[b] ELSE m[b]
    PROVE  /\ Whole(n, Succ(s, x)) /\ Reached(n, Succ(s, x)) = View(m, s, x)
<1> DEFINE H == Home(m, s, x)
<1> DEFINE V == View(m, s, x)
<1> DEFINE S == Succ(s, x)
<1>1. /\ x \in Txn /\ x.new \in [Leaves -> Data \cup {0}] /\ x.owned \subseteq Data
      /\ x.index \in Data \cup {0} /\ x.tree \in Trees /\ x.used \in Nat
      /\ x.dirty \subseteq x.loaded
  BY Numbers DEF Accounts, Txn
<1>2. /\ S.epoch = s.epoch + 1 /\ S.table = x.index /\ S.tree = x.tree /\ S.used = x.used
      /\ S \in Super /\ S.epoch > 0
  <2>1. s.epoch \in Nat
    BY DEF Whole, Super
  <2> QED
    BY <1>1, <2>1 DEF Succ, Super
<1> HIDE DEF S
<1>3. /\ V = DOMAIN x.tree \cup {x.index} \cup {H[l] : l \in Leaves}
      /\ \A j, k \in Leaves : H[j] = H[k] => j = k
      /\ \A l \in Leaves : H[l] # x.index /\ H[l] \notin DOMAIN x.tree
      /\ x.index \notin DOMAIN x.tree /\ x.index \in Data
      /\ \A b \in DOMAIN x.tree : m[b] = Holds(x.tree[b])
  BY <1>1 DEF Shape, Top
<1>4. H \in [Leaves -> Data]
  BY <1>1 DEF Home, Whole
<1>5. \A l \in Leaves : IF x.new[l] # 0 THEN H[l] = x.new[l] ELSE H[l] = LeafAt(m, s)[l]
  BY DEF Home
<1>6. n[x.index] = Index(H)
  <2>1. CASE x.index # s.table
    BY <1>3, <2>1
  <2>2. CASE x.index = s.table
    <3>1. \A l \in Leaves : x.new[l] = 0
      BY <2>2 DEF Shape
    <3>2. x.index \notin DOMAIN W
      BY <2>2, WholeFacts
    <3>3. H = LeafAt(m, s)
      BY <1>4, <1>5, <3>1 DEF Whole
    <3> QED
      BY <1>3, <2>2, <3>2, <3>3 DEF Whole
  <2> QED
    BY <2>1, <2>2
<1>7. LeafAt(n, S) = H
  BY <1>2, <1>6, Blocks DEF LeafAt
<1>8. Reached(n, S) = V
  BY <1>2, <1>3, <1>7 DEF Reached
<1>9. ASSUME NEW l \in Leaves PROVE n[H[l]] = Owners(Covers(l) \cap V)
  <2>1. CASE x.new[l] # 0
    <3>1. H[l] = x.new[l] /\ H[l] \in DOMAIN W /\ l \in x.loaded
      BY <1>1, <1>5, <2>1 DEF Shape
    <3>2. n[H[l]] = Owners(x.owned \cap Covers(l))
      BY <2>1, <3>1
    <3>3. \A b \in Data : b \in x.owned \cap Covers(l) <=> b \in Covers(l) \cap V
      BY <3>1 DEF Covers, View
    <3>4. x.owned \cap Covers(l) = Covers(l) \cap V
      BY <3>3 DEF Covers
    <3> QED
      BY <3>2, <3>4
  <2>2. CASE x.new[l] = 0
    <3>1. H[l] = LeafAt(m, s)[l] /\ l \notin x.dirty
      BY <1>5, <2>2 DEF Homeless
    <3>2. H[l] \notin DOMAIN W /\ H[l] \in Data
      BY <3>1, WholeFacts
    <3>3. n[H[l]] = Owners(Covers(l) \cap Reached(m, s))
      BY <3>1, <3>2 DEF Whole
    <3>4. \A b \in Data : b \in Covers(l) => (b \in Reached(m, s) <=> b \in V)
      BY <3>1 DEF Covers, View, Accounts
    <3>5. Covers(l) \cap Reached(m, s) = Covers(l) \cap V
      BY <3>4 DEF Covers
    <3> QED
      BY <3>3, <3>5
  <2> QED
    BY <2>1, <2>2
<1>10. ASSUME NEW b \in DOMAIN x.tree PROVE n[b] = Holds(x.tree[b])
  <2>1. b \in Data
    BY <1>1 DEF Trees
  <2>2. b # x.index /\ \A l \in Leaves : H[l] # b
    BY <1>3
  <2>3. b \notin DOMAIN W
    BY <1>5, <2>2
  <2> QED
    BY <1>3, <2>1, <2>3
<1>11. x.used = Cardinality(V)
  BY DEF Accounts
<1>12. \A l \in Leaves : n[LeafAt(n, S)[l]] = Owners(Covers(l) \cap Reached(n, S))
  BY <1>7, <1>8, <1>9
<1>13. \A b \in DOMAIN S.tree : n[b] = Holds(S.tree[b])
  BY <1>2, <1>10
<1>14. n[S.table] = Index(LeafAt(n, S))
  BY <1>2, <1>6, <1>7
<1> HIDE DEF H, V
<1>15. Whole(n, S)
  BY <1>2, <1>3, <1>4, <1>7, <1>8, <1>11, <1>12, <1>13, <1>14 DEF Whole
<1> QED
  BY <1>8, <1>15 DEF S, V

LEMMA TableKeeps ==
    ASSUME IInv, \A v, w \in Writers : v = w, NEW w \in Writers, WriteTable(w)
    PROVE  IInv'
<1> DEFINE t == txn[w]
<1> DEFINE s == fs.super
<1> DEFINE W == TableWrites(t)
<1>1. /\ t.phase = "planned"
      /\ UNCHANGED <<medium, supers, supercache, fs, begun, crashes>>
  BY DEF WriteTable
<1>2. /\ Whole(Overlay, s) /\ t \in Txn /\ Accounts(Overlay, s, t) /\ fs.mounted
      /\ Shape(Overlay, s, t) /\ Reached(Overlay, s) = Reached(medium, Truth)
  BY <1>1, MountedTruth DEF IInv, TxnOK
<1>3. CASE Ends(w) /\ UNCHANGED cache
  BY <1>1, <1>3, EndKeeps DEF disk
<1>4. CASE ~Refused(t) /\ \E made \in SUBSET DOMAIN W :
             /\ cache' = [b \in DOMAIN cache \cup made |-> IF b \in made THEN W[b] ELSE cache[b]]
             /\ \/ Ends(w)
                \/ /\ made = DOMAIN W
                   /\ Keeps(w, [t EXCEPT !.phase = "table"])
  <2>1. PICK made \in SUBSET DOMAIN W :
             /\ cache' = [b \in DOMAIN cache \cup made |-> IF b \in made THEN W[b] ELSE cache[b]]
             /\ \/ Ends(w)
                \/ /\ made = DOMAIN W
                   /\ Keeps(w, [t EXCEPT !.phase = "table"])
    BY <1>4
  <2>2. /\ DOMAIN W = {t.new[l] : l \in {k \in Leaves : t.new[k] # 0}} \cup ({t.index} \ {s.table})
        /\ \A l \in Leaves : t.new[l] # 0 => W[t.new[l]] = Owners(t.owned \cap Covers(l))
        /\ t.index # s.table => W[t.index] = Index(Home(Overlay, s, t))
        /\ DOMAIN W \subseteq Data /\ DOMAIN W \cap Reached(Overlay, s) = {}
        /\ W \in [DOMAIN W -> Block]
    <3> HIDE DEF t
    <3> QED
      BY <1>1, <1>2, TableWritesAre DEF t
  <2> HIDE DEF W
  <2>3. /\ DiskOK' /\ DOMAIN cache' \subseteq Data /\ cache' \in [DOMAIN cache' -> Block]
        /\ \A b \in Data : Overlay'[b] = IF b \in made THEN W[b] ELSE Overlay[b]
    <3>1. DOMAIN cache \subseteq Data /\ cache \in [DOMAIN cache -> Block]
      BY DEF IInv, TypeOK
    <3>2. /\ cache' \in [DOMAIN cache \cup made -> Block]
          /\ \A b \in DOMAIN cache \ made : cache'[b] = cache[b]
          /\ \A b \in made : cache'[b] = W[b]
      BY <2>1, <2>2, <3>1
    <3>3. made \in SUBSET Data /\ made \cap Reached(medium, Truth) = {}
      BY <1>2, <2>2
    <3> QED
      BY <1>1, <3>2, <3>3, CacheGrows
  <2>4. /\ begun' \in 0..MaxTxns /\ medium' \in [Data -> Block]
        /\ DOMAIN supercache' \subseteq Slots /\ supercache' \in [DOMAIN supercache' -> Super]
    BY <1>1 DEF IInv, TypeOK
  <2>5. supercache' = <<>>
    BY <1>1 DEF IInv, SuperOK
  <2>6. CASE Ends(w)
    <3>1. NoTxn.phase \notin {"open", "plan", "planned", "table", "flushed", "super"}
      BY DEF NoTxn
    <3> QED
      BY <1>1, <1>2, <2>3, <2>4, <2>5, <2>6, <3>1, WriterSteps DEF Ends
  <2>7. CASE made = DOMAIN W /\ Keeps(w, [t EXCEPT !.phase = "table"])
    <3> DEFINE x == [t EXCEPT !.phase = "table"]
    <3> DEFINE y == [x EXCEPT !.got = 0]
    <3>1. Homeless(t) = {}
      BY <1>4 DEF Refused
    <3> HIDE DEF t
    <3>2. Whole(Overlay', Succ(s, t)) /\ Reached(Overlay', Succ(s, t)) = View(Overlay, s, t)
      <4>1. t.phase = "planned"
        BY <1>1 DEF t
      <4>2. \A b \in Data : Overlay'[b] = IF b \in DOMAIN W THEN W[b] ELSE Overlay[b]
        BY <2>3, <2>7
      <4> QED
        BY <1>2, <2>2, <3>1, <4>1, <4>2, TableWritten
    <3>3. /\ x \in Txn /\ x.phase = "table" /\ x.index = t.index /\ x.tree = t.tree
          /\ x.freed = t.freed /\ x.used = t.used
      BY <1>2, PhaseMoves DEF Phases
    <3>4. /\ y \in Txn /\ y.phase = "table" /\ y.index = t.index /\ y.tree = t.tree
          /\ y.freed = t.freed /\ y.used = t.used
      <4> HIDE DEF x
      <4> QED
        BY <3>3 DEF Txn
    <3>5. txn' = [txn EXCEPT ![w] = y]
      BY <2>7 DEF Keeps
    <3> HIDE DEF y
    <3>6. Succ(s, y) = Succ(s, t)
      BY <3>4 DEF Succ
    <3>7. View(Overlay, s, t) \cap t.freed = {} /\ Cardinality(t.freed) <= TXN_FREED
      BY <1>2 DEF Accounts
    <3> QED
      BY <1>1, <1>2, <2>3, <2>4, <2>5, <3>2, <3>4, <3>5, <3>6, <3>7, WriterSteps
  <2> QED
    BY <2>1, <2>6, <2>7
<1> QED
  BY <1>3, <1>4 DEF WriteTable

\* A disk with nothing in its cache reads as its medium.
LEMMA NothingCached ==
    /\ DOMAIN (<<>>) = {} /\ \A S : <<>> \in [{} -> S]
    /\ TypeOK /\ cache = <<>> => Overlay = medium
    /\ Torn \in Super /\ Torn.epoch = 0
<1>1. DOMAIN (<<>>) = {} /\ \A S : <<>> \in [{} -> S]
  OBVIOUS
<1>2. TypeOK /\ cache = <<>> => Overlay = medium
  BY <1>1 DEF TypeOK, Overlay, Reads
<1>3. <<>> \in Trees
  BY <1>1 DEF Trees
<1>4. Torn \in Super /\ Torn.epoch = 0
  BY <1>3 DEF Torn, Super
<1> QED
  BY <1>1, <1>2, <1>4

\* The ordering point: what the new superblock will name is on the medium.
LEMMA FirstFlushKeeps ==
    ASSUME IInv, \A v, w \in Writers : v = w, NEW w \in Writers, FirstFlush(w)
    PROVE  IInv'
<1> DEFINE t == txn[w]
<1> DEFINE s == fs.super
<1>1. t.phase = "table" /\ UNCHANGED <<fs, begun, crashes>>
  BY DEF FirstFlush
<1>2. /\ fs.mounted /\ t \in Txn /\ supercache = <<>>
      /\ Whole(Overlay, Succ(s, t)) /\ Reached(Overlay, Succ(s, t)) \cap t.freed = {}
  BY <1>1, MountedTruth DEF IInv, TxnOK, SuperOK
<1>3. CASE Ends(w) /\ UNCHANGED disk
  BY <1>1, <1>3, EndKeeps
<1>4. CASE Flushed /\ Keeps(w, [t EXCEPT !.phase = "flushed"])
  <2> DEFINE x == [t EXCEPT !.phase = "flushed"]
  <2> DEFINE y == [x EXCEPT !.got = 0]
  <2>1. medium' = Overlay /\ cache' = <<>> /\ supercache' = <<>>
    BY <1>4 DEF Flushed, Overlay
  <2>2. supers' = supers
    BY <1>2, <1>4, NothingCached DEF Flushed, IInv, TypeOK
  <2>3. /\ Whole(Overlay, Truth) /\ Overlay \in [Data -> Block]
    BY ReadsTruth DEF IInv
  <2>4. Truth' = Truth
    BY <2>2 DEF Truth
  <2>5. DiskOK'
    BY <2>1, <2>3, <2>4, NothingCached DEF DiskOK
  <2>6. Overlay' = Overlay
    <3>1. \A b \in Data : Reads(b)' = Overlay[b]
      BY <2>1, NothingCached DEF Reads
    <3> QED
      BY <2>3, <3>1 DEF Overlay
  <2>7. /\ DOMAIN cache' \subseteq Data /\ cache' \in [DOMAIN cache' -> Block]
        /\ DOMAIN supercache' \subseteq Slots /\ supercache' \in [DOMAIN supercache' -> Super]
        /\ begun' \in 0..MaxTxns /\ medium' \in [Data -> Block]
    BY <1>1, <2>1, <2>3, NothingCached DEF IInv, TypeOK
  <2>8. Cardinality(t.freed) <= TXN_FREED
    BY <1>1, NotUnderway DEF IInv, TypeOK
  <2>9. txn' = [txn EXCEPT ![w] = y]
    BY <1>4 DEF Keeps
  <2> HIDE DEF t
  <2>10. /\ x \in Txn /\ x.phase = "flushed" /\ x.index = t.index /\ x.tree = t.tree
         /\ x.freed = t.freed /\ x.used = t.used
    BY <1>2, PhaseMoves DEF Phases
  <2> HIDE DEF x
  <2>11. /\ y \in Txn /\ y.phase = "flushed" /\ y.index = t.index /\ y.tree = t.tree
         /\ y.freed = t.freed /\ y.used = t.used
    BY <2>10 DEF Txn
  <2> HIDE DEF y
  <2>12. Succ(s, y) = Succ(s, t)
    BY <2>11 DEF Succ
  <2> QED
    BY <1>1, <1>2, <2>1, <2>2, <2>5, <2>6, <2>7, <2>8, <2>9, <2>11, <2>12, WriterSteps
<1> QED
  BY <1>3, <1>4 DEF FirstFlush

LEMMA WriteSuperKeeps ==
    ASSUME IInv, \A v, w \in Writers : v = w, ~LateFailures, NEW w \in Writers, WriteSuper(w)
    PROVE  IInv'
<1> DEFINE t == txn[w]
<1> DEFINE s == fs.super
<1>1. t.phase = "flushed" /\ UNCHANGED <<medium, cache, supers, fs, begun, crashes>>
  BY DEF WriteSuper
<1>2. /\ fs.mounted /\ t \in Txn /\ supercache = <<>> /\ cache = <<>>
      /\ Whole(Overlay, Succ(s, t)) /\ Reached(Overlay, Succ(s, t)) \cap t.freed = {}
  BY <1>1, MountedTruth DEF IInv, TxnOK, SuperOK
<1>3. CASE Ends(w) /\ UNCHANGED supercache
  BY <1>1, <1>3, EndKeeps DEF disk
<1>4. CASE /\ supercache' = [r \in {Target} |-> NewSuper(t)]
           /\ Keeps(w, [t EXCEPT !.phase = "super"])
  <2> DEFINE x == [t EXCEPT !.phase = "super"]
  <2> DEFINE y == [x EXCEPT !.got = 0]
  <2>1. Truth' = Truth /\ Overlay' = Overlay
    BY <1>1 DEF Truth, Overlay, Reads
  <2>2. DiskOK'
    BY <1>1, <2>1 DEF DiskOK, IInv
  <2>3. supercache' = [r \in {Other(fs.live)} |-> Succ(s, t)]
    BY <1>4 DEF Target, NewSuper, Succ
  <2>4. Succ(s, t) \in Super /\ Other(fs.live) \in Slots
    BY <1>2, TwoSlots DEF Whole, IInv, TypeOK
  <2>5. DOMAIN supercache' \subseteq Slots /\ supercache' \in [DOMAIN supercache' -> Super]
    <3> DEFINE S == Succ(s, t)
    <3> DEFINE o == Other(fs.live)
    <3> HIDE DEF S, o
    <3>1. supercache' = [r \in {o} |-> S] /\ S \in Super /\ o \in Slots
      BY <2>3, <2>4 DEF S, o
    <3> QED
      BY <3>1
  <2>6. /\ DOMAIN cache' \subseteq Data /\ cache' \in [DOMAIN cache' -> Block]
        /\ begun' \in 0..MaxTxns /\ medium' \in [Data -> Block]
    BY <1>1 DEF IInv, TypeOK
  <2>7. Cardinality(t.freed) <= TXN_FREED
    BY <1>1, NotUnderway DEF IInv, TypeOK
  <2>8. txn' = [txn EXCEPT ![w] = y]
    BY <1>4 DEF Keeps
  <2> HIDE DEF t
  <2>9. /\ x \in Txn /\ x.phase = "super" /\ x.index = t.index /\ x.tree = t.tree
        /\ x.freed = t.freed /\ x.used = t.used
    BY <1>2, PhaseMoves DEF Phases
  <2> HIDE DEF x
  <2>10. /\ y \in Txn /\ y.phase = "super" /\ y.index = t.index /\ y.tree = t.tree
         /\ y.freed = t.freed /\ y.used = t.used
    BY <2>9 DEF Txn
  <2> HIDE DEF y
  <2>11. Succ(s, y) = Succ(s, t)
    BY <2>10 DEF Succ
  <2> QED
    BY <1>1, <1>2, <2>1, <2>2, <2>3, <2>5, <2>6, <2>7, <2>8, <2>10, <2>11, WriterSteps
<1> QED
  BY <1>3, <1>4 DEF WriteSuper

\* Which slot a mount believes when one of the two is written.
LEMMA Believes ==
    ASSUME NEW S \in [Slots -> Super], NEW T \in [Slots -> Super], S[Believed(S)].epoch > 0,
           T[Believed(S)] = S[Believed(S)]
    PROVE  /\ T[Other(Believed(S))].epoch = S[Believed(S)].epoch + 1 =>
                Believed(T) = Other(Believed(S))
           /\ T[Other(Believed(S))].epoch = 0 => Believed(T) = Believed(S)
<1>1. \A r \in Slots : S[r].epoch \in Nat /\ T[r].epoch \in Nat
  BY DEF Super
<1>2. Other("A") = "B" /\ Other("B") = "A" /\ "A" \in Slots /\ "B" \in Slots
  BY TwoSlots DEF Slots
<1>3. CASE Believed(S) = "A"
  BY <1>1, <1>2, <1>3 DEF Believed
<1>4. CASE Believed(S) = "B"
  BY <1>1, <1>2, <1>4 DEF Believed
<1> QED
  BY <1>3, <1>4 DEF Believed

\* A step after which no transaction is open and no superblock is waiting.
LEMMA Quiet ==
    ASSUME medium' \in [Data -> Block], supers' \in [Slots -> Super],
           fs' \in [mounted : BOOLEAN, live : Slots, super : Super],
           begun' \in 0..MaxTxns, crashes' \in 0..MaxCrashes, txn' = [w \in Writers |-> NoTxn],
           DOMAIN cache' \subseteq Data, cache' \in [DOMAIN cache' -> Block],
           DiskOK', supercache' = <<>>,
           fs'.mounted => fs'.live = Believed(supers') /\ fs'.super = Truth'
    PROVE  IInv'
<1>1. NoTxn.phase = "none" /\ \A w \in Writers : txn'[w] = NoTxn
  BY DEF NoTxn
<1>2. TypeOK'
  BY <1>1, NothingCached DEF TypeOK
<1>3. TxnOK' /\ MountOK' /\ SuperOK'
  BY <1>1 DEF TxnOK, MountOK, SuperOK
<1> QED
  BY <1>2, <1>3 DEF IInv

LEMMA NoneOpen ==
    ASSUME IInv, \A v, w \in Writers : v = w, NEW w \in Writers, txn' = [txn EXCEPT ![w] = NoTxn]
    PROVE  txn' = [v \in Writers |-> NoTxn]
BY DEF IInv, TypeOK

LEMMA SecondFlushKeeps ==
    ASSUME IInv, \A v, w \in Writers : v = w, ~LateFailures, NEW w \in Writers, SecondFlush(w)
    PROVE  IInv'
<1> DEFINE t == txn[w]
<1> DEFINE s == fs.super
<1> DEFINE S == Succ(s, t)
<1> DEFINE o == Other(fs.live)
<1>1. /\ t.phase = "super" /\ UNCHANGED <<begun, crashes>> /\ Ends(w)
      /\ medium' = [b \in Data |-> IF b \in t.freed THEN Junk ELSE Reads(b)]
      /\ cache' = <<>> /\ supercache' = <<>> /\ fs' = Published(w)
      /\ supers' = [r \in Slots |-> IF r \in DOMAIN supercache THEN supercache[r] ELSE supers[r]]
  BY DEF SecondFlush
<1>2. /\ cache = <<>> /\ supercache = [r \in {o} |-> S] /\ Overlay = medium
      /\ Whole(medium, S) /\ Reached(medium, S) \cap t.freed = {}
      /\ fs.live = Believed(supers) /\ s = Truth /\ t \in Txn
  BY <1>1, MountedTruth, NothingCached DEF IInv, TxnOK
<1>3. /\ o \in Slots /\ o # fs.live /\ fs.live \in Slots /\ S \in Super
      /\ \A r \in Slots : r # fs.live => r = o
      /\ S.epoch = Truth.epoch + 1
  BY <1>2, TwoSlots DEF Whole, IInv, TypeOK, Succ
<1>4. /\ medium \in [Data -> Block] /\ supers \in [Slots -> Super] /\ Truth.epoch > 0
      /\ begun \in 0..MaxTxns /\ crashes \in 0..MaxCrashes
  BY DEF IInv, TypeOK, DiskOK, Whole
<1>5. fs' = [mounted |-> TRUE, live |-> o, super |-> S]
  BY <1>1 DEF Published, Target, NewSuper, Succ
<1> HIDE DEF S, o
<1>6. supers' \in [Slots -> Super] /\ supers'[o] = S /\ supers'[fs.live] = Truth
  <2>1. DOMAIN supercache = {o} /\ supercache[o] = S
    BY <1>2
  <2> QED
    BY <1>1, <1>2, <1>3, <1>4, <2>1 DEF Truth
<1>7. Believed(supers') = o
  BY <1>2, <1>3, <1>4, <1>6, Believes DEF Truth, o
<1>8. Truth' = S /\ fs'.live = Believed(supers')
  BY <1>5, <1>6, <1>7 DEF Truth
<1>9. medium' \in [Data -> Block]
  <2>1. \A b \in Data : Reads(b) = medium[b]
    BY <1>2, NothingCached DEF Reads
  <2> QED
    BY <1>1, <1>4, <2>1, Blocks
<1>10. Whole(medium', S)
  <2>1. \A b \in Reached(medium, S) : medium'[b] = medium[b]
    BY <1>1, <1>2, NothingCached, WholeFacts DEF Reads
  <2> QED
    BY <1>2, <2>1, WholeStays
<1>11. fs' \in [mounted : BOOLEAN, live : Slots, super : Super] /\ fs'.super = S
  BY <1>3, <1>5
<1>12. txn' = [v \in Writers |-> NoTxn]
  BY <1>1, NoneOpen DEF Ends
<1>13. DOMAIN cache' = {} /\ cache' \in [DOMAIN cache' -> Block]
  BY <1>1, NothingCached
<1>14. begun' \in 0..MaxTxns /\ crashes' \in 0..MaxCrashes
  BY <1>1, <1>4
<1>15. DiskOK'
  BY <1>8, <1>10, <1>13 DEF DiskOK
<1> HIDE DEF t
<1> QED
  BY <1>1, <1>6, <1>8, <1>9, <1>11, <1>12, <1>13, <1>14, <1>15, Quiet

-----------------------------------------------------------------------------
(* Mounting, and the power going.                                          *)

LEMMA MountKeeps ==
    ASSUME IInv, reconfs_mount
    PROVE  IInv'
<1>1. /\ ~fs.mounted /\ UNCHANGED <<medium, cache, supers, supercache, txn, begun, crashes>>
      /\ fs' = [mounted |-> TRUE, live |-> Believed(supers), super |-> Truth]
  BY DEF reconfs_mount, disk, Truth
<1>2. \A w \in Writers : txn[w] = NoTxn
  BY <1>1 DEF IInv, MountOK
<1>3. txn' = [w \in Writers |-> NoTxn]
  BY <1>1, <1>2 DEF IInv, TypeOK
<1>4. Truth' = Truth /\ Believed(supers') = Believed(supers)
  BY <1>1 DEF Truth
<1>5. DiskOK'
  BY <1>1, <1>4 DEF IInv, DiskOK
<1>6. supercache' = <<>>
  BY <1>1, <1>2, NotUnderway DEF IInv, SuperOK
<1>7. Truth \in Super /\ Believed(supers) \in Slots
  BY DEF IInv, DiskOK, Whole, Believed, Slots
<1>8. fs' \in [mounted : BOOLEAN, live : Slots, super : Super]
  BY <1>1, <1>7
<1>9. /\ medium' \in [Data -> Block] /\ supers' \in [Slots -> Super]
      /\ begun' \in 0..MaxTxns /\ crashes' \in 0..MaxCrashes
      /\ DOMAIN cache' \subseteq Data /\ cache' \in [DOMAIN cache' -> Block]
  BY <1>1 DEF IInv, TypeOK
<1>10. fs'.live = Believed(supers') /\ fs'.super = Truth'
  BY <1>1, <1>4
<1> QED
  BY <1>3, <1>5, <1>6, <1>8, <1>9, <1>10, Quiet

\* With no superblock on its way the believed volume is as it was; with one,
\* the volume it names is on the medium already, and the old one still is.
LEMMA PowerTruth ==
    ASSUME IInv, \A v, w \in Writers : v = w, PowerFails
    PROVE  /\ Whole(medium', Truth')
           /\ medium' \in [Data -> Block] /\ supers' \in [Slots -> Super]
           /\ \/ Truth' = Truth
              \/ \E w \in Writers : txn[w].phase = "super" /\ Truth' = Succ(fs.super, txn[w])
<1>2. PICK put \in SUBSET (DOMAIN cache), sput \in SUBSET (DOMAIN supercache) :
        \E torn \in {{}} \cup {{b} : b \in put}, storn \in SUBSET sput :
         /\ medium' = [b \in Data |-> IF b \in torn THEN Junk
                                      ELSE IF b \in put THEN cache[b] ELSE medium[b]]
         /\ supers' = [s \in Slots |-> IF s \in storn THEN Torn
                                       ELSE IF s \in sput THEN supercache[s] ELSE supers[s]]
  BY DEF PowerFails
<1>3. PICK torn \in {{}} \cup {{b} : b \in put}, storn \in SUBSET sput :
         /\ medium' = [b \in Data |-> IF b \in torn THEN Junk
                                      ELSE IF b \in put THEN cache[b] ELSE medium[b]]
         /\ supers' = [s \in Slots |-> IF s \in storn THEN Torn
                                       ELSE IF s \in sput THEN supercache[s] ELSE supers[s]]
  BY <1>2
<1>4. torn \subseteq put /\ put \subseteq DOMAIN cache
  OBVIOUS
<1>5. /\ medium \in [Data -> Block] /\ supers \in [Slots -> Super]
      /\ DOMAIN cache \subseteq Data /\ cache \in [DOMAIN cache -> Block]
      /\ DOMAIN supercache \subseteq Slots /\ supercache \in [DOMAIN supercache -> Super]
      /\ Whole(medium, Truth) /\ DOMAIN cache \cap Reached(medium, Truth) = {}
  BY DEF IInv, TypeOK, DiskOK
<1>6. medium' \in [Data -> Block]
  BY <1>3, <1>4, <1>5, Blocks
<1>7. supers' \in [Slots -> Super]
  BY <1>3, <1>5, NothingCached
<1>8. \A b \in Data : b \notin DOMAIN cache => medium'[b] = medium[b]
  BY <1>3, <1>4
<1>9. /\ Whole(medium', Truth')
      /\ \/ Truth' = Truth
         \/ \E w \in Writers : txn[w].phase = "super" /\ Truth' = Succ(fs.super, txn[w])
  <2>1. CASE \A w \in Writers : txn[w].phase # "super"
    <3>1. supercache = <<>>
      BY <2>1 DEF IInv, SuperOK
    <3>2. sput = {} /\ storn = {}
      BY <3>1, NothingCached
    <3>3. supers' = supers
      BY <1>3, <1>5, <3>2
    <3>4. Truth' = Truth
      BY <3>3 DEF Truth
    <3>5. \A b \in Reached(medium, Truth) : medium'[b] = medium[b]
      BY <1>5, <1>8, WholeFacts
    <3> QED
      BY <1>5, <3>4, <3>5, WholeStays
  <2>2. ASSUME NEW w \in Writers, txn[w].phase = "super"
        PROVE  Whole(medium', Truth') /\ (Truth' = Truth \/ Truth' = Succ(fs.super, txn[w]))
    <3> DEFINE S == Succ(fs.super, txn[w])
    <3> DEFINE l == Believed(supers)
    <3>1. /\ cache = <<>> /\ supercache = [r \in {Other(l)} |-> S]
          /\ Whole(medium, S) /\ S.epoch = Truth.epoch + 1
      BY <2>2, MountedTruth, NothingCached DEF IInv, TxnOK, Succ
    <3>2. medium' = medium
      <4>1. DOMAIN cache = {}
        BY <3>1, NothingCached
      <4> QED
        BY <1>5, <1>6, <1>8, <4>1
    <3>3. /\ l \in Slots /\ Other(l) \in Slots /\ Other(l) # l /\ supers[l] = Truth
          /\ Truth.epoch > 0
      BY <1>5, TwoSlots DEF Believed, Slots, Truth, Whole
    <3> DEFINE o == Other(l)
    <3> HIDE DEF S, l, o
    <3>4. DOMAIN supercache = {o} /\ supercache[o] = S
      BY <3>1 DEF o
    <3>5. supers'[l] = Truth
      BY <1>3, <3>3, <3>4 DEF o
    <3>6. supers'[o] \in {Torn, S, supers[o]}
      BY <1>3, <3>3, <3>4 DEF o
    <3>7. CASE supers'[o] = Torn
      <4>1. Believed(supers') = l
        BY <1>5, <1>7, <3>3, <3>5, <3>7, Believes, NothingCached DEF o, l
      <4> QED
        BY <1>5, <3>2, <3>5, <4>1 DEF Truth
    <3>8. CASE supers'[o] = S
      <4>1. Believed(supers') = o
        BY <1>5, <1>7, <3>1, <3>3, <3>5, <3>8, Believes DEF o, l
      <4> QED
        BY <3>1, <3>2, <3>8, <4>1 DEF Truth, S
    <3>9. CASE supers'[o] = supers[o]
      <4>1. \A r \in Slots : r = l \/ r = o
        BY <3>3, TwoSlots DEF o
      <4>2. supers' = supers
        BY <1>5, <1>7, <3>3, <3>5, <3>9, <4>1
      <4> QED
        BY <1>5, <3>2, <4>2 DEF Truth
    <3> QED
      BY <3>6, <3>7, <3>8, <3>9
  <2> QED
    BY <2>1, <2>2
<1> QED
  BY <1>6, <1>7, <1>9

LEMMA PowerKeeps ==
    ASSUME IInv, \A v, w \in Writers : v = w, PowerFails
    PROVE  IInv'
<1>1. /\ crashes < MaxCrashes /\ crashes' = crashes + 1 /\ begun' = begun
      /\ cache' = <<>> /\ supercache' = <<>> /\ txn' = [w \in Writers |-> NoTxn]
      /\ fs' = [mounted |-> FALSE, live |-> "A", super |-> Torn]
  BY DEF PowerFails
<1>2. /\ Whole(medium', Truth')
      /\ medium' \in [Data -> Block] /\ supers' \in [Slots -> Super]
  BY PowerTruth
<1>3. DOMAIN cache' = {} /\ cache' \in [DOMAIN cache' -> Block]
  BY <1>1, NothingCached
<1>4. DiskOK'
  BY <1>2, <1>3 DEF DiskOK
<1>5. fs' \in [mounted : BOOLEAN, live : Slots, super : Super] /\ ~fs'.mounted
  BY <1>1, NothingCached DEF Slots
<1>6. begun' \in 0..MaxTxns /\ crashes' \in 0..MaxCrashes
  <2>1. begun \in 0..MaxTxns /\ crashes \in 0..MaxCrashes /\ MaxCrashes \in Nat
    BY Numbers DEF IInv, TypeOK
  <2> QED
    BY <1>1, <2>1
<1> QED
  BY <1>1, <1>2, <1>3, <1>4, <1>5, <1>6, Quiet

-----------------------------------------------------------------------------
(* The invariant holds after format.                                       *)

LEMMA InitOK ==
    ASSUME Init
    PROVE  IInv
<1> DEFINE F == FormatSuper
<1> DEFINE at == [l \in Leaves |-> FormatLeaf(l)]
<1>1. /\ FirstBlock \in Data /\ FormatIndex \in Data /\ FirstBlock # FormatIndex
      /\ Formatted \subseteq Data /\ IsFiniteSet(Formatted) /\ Cardinality(Formatted) \in Nat
      /\ at \in [Leaves -> Data]
      /\ \A l \in Leaves : at[l] \in Formatted /\ at[l] \notin {FirstBlock, FormatIndex}
      /\ \A k, l \in Leaves : at[k] = at[l] => k = l
      /\ 0 \in Tags
  <2>1. /\ FirstBlock \in Data /\ FormatIndex \in Data /\ FirstBlock # FormatIndex
        /\ Formatted \subseteq Data /\ IsFiniteSet(Formatted) /\ Cardinality(Formatted) \in Nat
    BY Numbers, FS_Subset, FS_CardinalityType
  <2>2. \A l \in Leaves : at[l] \in Formatted /\ at[l] \notin {FirstBlock, FormatIndex}
    BY Numbers
  <2>3. at \in [Leaves -> Data]
    BY <2>1, <2>2
  <2>4. \A k, l \in Leaves : at[k] = at[l] => k = l
    BY Numbers
  <2>5. 0 \in Tags
    BY Numbers DEF Tags
  <2> QED
    BY <2>1, <2>2, <2>3, <2>4, <2>5
<1>2. /\ F.epoch = 1 /\ F.table = FormatIndex /\ DOMAIN F.tree = {FirstBlock}
      /\ F.tree[FirstBlock] = 0 /\ F.used = Cardinality(Formatted) /\ F \in Super
  <2> DEFINE tr == [b \in {FirstBlock} |-> 0]
  <2>1. tr \in Trees
    <3>1. tr \in [{FirstBlock} -> Tags]
      BY <1>1
    <3>2. {FirstBlock} \in SUBSET Data
      BY <1>1
    <3> HIDE DEF tr
    <3> QED
      BY <3>1, <3>2, Zenon DEF Trees
  <2>2. DOMAIN tr = {FirstBlock} /\ tr[FirstBlock] = 0
    OBVIOUS
  <2> HIDE DEF tr
  <2>3. F = [epoch |-> 1, table |-> FormatIndex, tree |-> tr, used |-> Cardinality(Formatted)]
    BY DEF FormatSuper, tr
  <2> QED
    BY <1>1, <2>1, <2>2, <2>3 DEF Super
<1>3. medium = [b \in Data |->
                 IF b = FirstBlock THEN Holds(0)
                 ELSE IF b = FormatIndex THEN Index(at)
                 ELSE IF b \in Formatted
                      THEN Owners(Covers(b - FirstBlock - 1) \cap Formatted)
                 ELSE Junk]
  BY DEF Init
<1>4. /\ cache = <<>> /\ supercache = <<>> /\ txn = [w \in Writers |-> NoTxn] /\ begun = 0
      /\ supers = [s \in Slots |-> F] /\ crashes = 0
      /\ fs = [mounted |-> FALSE, live |-> "A", super |-> Torn]
  BY DEF Init
<1> HIDE DEF F, at
<1>5. /\ medium[FirstBlock] = Holds(0) /\ medium[FormatIndex] = Index(at)
      /\ \A l \in Leaves : medium[at[l]] = Owners(Covers(l) \cap Formatted)
  <2>1. medium[FirstBlock] = Holds(0) /\ medium[FormatIndex] = Index(at)
    BY <1>1, <1>3
  <2>2. ASSUME NEW l \in Leaves PROVE medium[at[l]] = Owners(Covers(l) \cap Formatted)
    <3>1. at[l] \in Data /\ at[l] \in Formatted /\ at[l] # FirstBlock /\ at[l] # FormatIndex
      BY <1>1
    <3>2. at[l] - FirstBlock - 1 = l
      BY Numbers DEF at
    <3> QED
      BY <1>3, <3>1, <3>2
  <2> QED
    BY <2>1, <2>2
<1>6. LeafAt(medium, F) = at
  BY <1>2, <1>5, Blocks DEF LeafAt
<1>7. Reached(medium, F) = Formatted
  <2>1. Reached(medium, F) = {FirstBlock} \cup {FormatIndex} \cup {at[l] : l \in Leaves}
    BY <1>2, <1>6 DEF Reached
  <2>2. FirstBlock \in Formatted /\ FormatIndex \in Formatted
    BY <1>1, Numbers DEF Formatted, Data
  <2>3. ASSUME NEW b \in Formatted, b \notin {FirstBlock, FormatIndex}
        PROVE  \E l \in Leaves : at[l] = b
    <3>1. b - FirstBlock - 1 \in Leaves
      BY <2>3, Numbers
    <3>2. b \in Nat /\ FirstBlock \in Nat
      BY <1>1, Numbers
    <3>3. at[b - FirstBlock - 1] = b
      BY <3>1, <3>2 DEF at, FormatLeaf
    <3> QED
      BY <3>1, <3>3
  <2> QED
    BY <1>1, <2>1, <2>2, <2>3
<1>8. Whole(medium, F)
  BY <1>1, <1>2, <1>5, <1>6, <1>7 DEF Whole
<1>9. Believed(supers) \in Slots /\ Truth = F
  <2>1. Believed(supers) \in Slots
    BY DEF Believed, Slots
  <2> QED
    BY <1>4, <2>1 DEF Truth
<1>10. medium \in [Data -> Block]
  <2>1. \A l : Covers(l) \cap Formatted \in SUBSET Data
    BY <1>1
  <2> QED
    BY <1>1, <1>3, <2>1, Blocks
<1>11. NoTxn.phase = "none" /\ \A w \in Writers : txn[w] = NoTxn
  BY <1>4 DEF NoTxn
<1>12. TypeOK
  <2>1. supers \in [Slots -> Super]
    BY <1>2, <1>4
  <2>2. fs \in [mounted : BOOLEAN, live : Slots, super : Super]
    BY <1>4, NothingCached DEF Slots
  <2>3. begun \in 0..MaxTxns /\ crashes \in 0..MaxCrashes
    BY <1>4, Numbers
  <2> QED
    BY <1>4, <1>10, <1>11, <2>1, <2>2, <2>3, NothingCached DEF TypeOK
<1>13. DiskOK
  BY <1>4, <1>8, <1>9, NothingCached DEF DiskOK
<1>14. TxnOK /\ MountOK /\ SuperOK
  BY <1>4, <1>11 DEF TxnOK, MountOK, SuperOK
<1> QED
  BY <1>12, <1>13, <1>14 DEF IInv

-----------------------------------------------------------------------------
(* The theorems.                                                           *)

\* Every step of one writer, of a mount and of a power cut keeps the
\* invariant, when no commit fails after its superblock may be on the disk.
LEMMA NextKeeps ==
    ASSUME IInv, \A v, w \in Writers : v = w, ~LateFailures, [Next]_vars
    PROVE  IInv'
<1>1. CASE reconfs_mount
  BY <1>1, MountKeeps
<1>2. CASE PowerFails
  BY <1>2, PowerKeeps
<1>3. ASSUME NEW w \in Writers, reconfs_txn_begin(w) PROVE IInv'
  BY <1>3, BeginKeeps
<1>4. ASSUME NEW w \in Writers, reconfs_txn_abort(w) PROVE IInv'
  BY <1>4, EndKeeps DEF reconfs_txn_abort
<1>5. ASSUME NEW w \in Writers, TakeBlock(w) PROVE IInv'
  BY <1>5, TakeKeeps
<1>6. ASSUME NEW w \in Writers, NEW b \in Data, DropBlock(w, b) PROVE IInv'
  BY <1>6, DropKeeps
<1>7. ASSUME NEW w \in Writers, reconfs_txn_commit(w) PROVE IInv'
  BY <1>7, CommitKeeps
<1>8. ASSUME NEW w \in Writers, plan_leaves(w) PROVE IInv'
  BY <1>8, PlanLeavesKeeps
<1>9. ASSUME NEW w \in Writers, plan_index(w) PROVE IInv'
  BY <1>9, PlanIndexKeeps
<1>10. ASSUME NEW w \in Writers, WriteTable(w) PROVE IInv'
  BY <1>10, TableKeeps
<1>11. ASSUME NEW w \in Writers, FirstFlush(w) PROVE IInv'
  BY <1>11, FirstFlushKeeps
<1>12. ASSUME NEW w \in Writers, WriteSuper(w) PROVE IInv'
  BY <1>12, WriteSuperKeeps
<1>13. ASSUME NEW w \in Writers, SecondFlush(w) PROVE IInv'
  BY <1>13, SecondFlushKeeps
<1>14. CASE UNCHANGED vars
  <2>1. UNCHANGED <<medium, cache, supers, supercache, fs, txn, begun, crashes>>
    BY <1>14 DEF vars
  <2>2. Truth' = Truth /\ Overlay' = Overlay
    BY <2>1 DEF Truth, Overlay, Reads
  <2> QED
    BY <2>1, <2>2, ZenonT(60) DEF IInv, TypeOK, DiskOK, MountOK, TxnOK, SuperOK
<1> QED
  BY <1>1, <1>2, <1>3, <1>4, <1>5, <1>6, <1>7, <1>8, <1>9, <1>10, <1>11, <1>12, <1>13, <1>14
  DEF Next

\* With one writer, and no failure reported after the superblock may be on the
\* disk, the invariant holds throughout.
THEOREM Invariance ==
    ASSUME \A v, w \in Writers : v = w, ~LateFailures
    PROVE  Spec => []IInv
<1>1. Init => IInv
  BY InitOK
<1>2. IInv /\ [Next]_vars => IInv'
  BY NextKeeps
<1> QED
  BY <1>1, <1>2, PTL DEF Spec

\* The structures of the volume, the transaction and the disk hold what they
\* are declared to hold, the list of released blocks never past its room.
THEOREM TypeCorrect ==
    ASSUME \A v, w \in Writers : v = w, ~LateFailures
    PROVE  Spec => []TypeOK
<1>1. IInv => TypeOK
  BY DEF IInv
<1> QED
  BY <1>1, Invariance, PTL

\* What the model's Reach says is what Reached says of the medium.
LEMMA ReachIs ==
    Reach(Truth) = Reached(medium, Truth)
BY DEF Reach, TableOf, Reached, LeafAt

\* No write the disk holds back is to a block that the superblock a mount would
\* believe reaches: reconfs_txn_alloc and was_freed_here see to it.
THEOREM LiveIsSafe ==
    ASSUME \A v, w \in Writers : v = w, ~LateFailures
    PROVE  Spec => []NoLiveOverwrite
<1>1. IInv => NoLiveOverwrite
  BY ReachIs DEF IInv, DiskOK, NoLiveOverwrite
<1> QED
  BY <1>1, Invariance, PTL

\* The owner table on the medium says exactly what the believed superblock
\* reaches, and its count is right, after every commit and every power cut.
THEOREM TableTrue ==
    ASSUME \A v, w \in Writers : v = w, ~LateFailures
    PROVE  Spec => []TableIsTrue
<1>1. ASSUME IInv PROVE TableIsTrue
  <2> DEFINE R == Reached(medium, Truth)
  <2> DEFINE owned == UNION {medium[medium[Truth.table].at[l]].owned : l \in Leaves}
  <2>1. Whole(medium, Truth)
    BY <1>1 DEF IInv, DiskOK
  <2>2. \A l \in Leaves : medium[medium[Truth.table].at[l]].owned = Covers(l) \cap R
    BY <2>1, WholeFacts DEF LeafAt
  <2>3. R \subseteq Data /\ \A b \in R : LeafOf(b) \in Leaves /\ b \in Covers(LeafOf(b))
    BY <2>1, WholeFacts, Numbers DEF Covers
  <2>4. Truth.used = Cardinality(R)
    BY <2>1 DEF Whole
  <2> HIDE DEF R
  <2>5. owned = R
    BY <2>2, <2>3
  <2> QED
    BY <2>4, <2>5, ReachIs DEF TableIsTrue, R
<1>2. IInv => TableIsTrue
  BY <1>1
<1> QED
  BY <1>2, Invariance, PTL

\* Every block of the tree that the believed superblock names holds what the
\* transaction that named it wrote.
THEOREM TreeWhole ==
    ASSUME \A v, w \in Writers : v = w, ~LateFailures
    PROVE  Spec => []TreeIsWhole
<1>1. IInv => TreeIsWhole
  BY DEF IInv, DiskOK, Whole, TreeIsWhole, Contents
<1> QED
  BY <1>1, Invariance, PTL

-----------------------------------------------------------------------------
(* The transactions implement Volume.                                      *)

\* The blocks of a tree, as the transaction that named it wrote them.
Made(t) == [b \in DOMAIN t |-> Holds(t[b])]

\* What Volume is shown, in terms of the superblocks.
Shown ==
    /\ Committed = Made(Truth.tree) /\ Made(Truth.tree) # Nothing
    /\ Current = IF fs.mounted THEN Made(Truth.tree) ELSE Nothing
    /\ supercache = <<>> => Proposed = Nothing
    /\ \A w \in Writers : txn[w].phase = "super" =>
         /\ supercache # <<>> /\ Proposed = Made(txn[w].tree)
         /\ Made(txn[w].tree) # Nothing

LEMMA MadeIs ==
    ASSUME TypeOK, NEW s, Whole(medium, s)
    PROVE  Contents(s.tree) = Made(s.tree) /\ Made(s.tree) # Nothing
<1>1. \A b \in DOMAIN s.tree : medium[b] = Holds(s.tree[b])
  BY DEF Whole
<1>2. DOMAIN s.tree \in SUBSET Data /\ \A b \in DOMAIN s.tree : s.tree[b] \in Tags
  BY DEF Whole, Super, Trees
<1>3. Made(s.tree) \in [DOMAIN s.tree -> {Holds(t) : t \in Tags}]
  BY <1>2 DEF Made
<1>4. Made(s.tree) \in Contained
  BY <1>2, <1>3, Zenon DEF Contained
<1> QED
  BY <1>1, <1>4, NothingAssumption DEF Contents, Made

LEMMA ShownIs ==
    ASSUME IInv, \A v, w \in Writers : v = w
    PROVE  Shown
<1>1. TypeOK /\ Whole(medium, Truth)
  BY DEF IInv, DiskOK
<1>2. Committed = Made(Truth.tree) /\ Made(Truth.tree) # Nothing
  BY <1>1, MadeIs DEF Committed
<1>3. Current = IF fs.mounted THEN Made(Truth.tree) ELSE Nothing
  BY <1>1, MadeIs DEF Current, IInv, MountOK
<1>4. ASSUME NEW w \in Writers, txn[w].phase = "super"
      PROVE  supercache # <<>> /\ Proposed = Made(txn[w].tree) /\ Made(txn[w].tree) # Nothing
  <2> DEFINE S == Succ(fs.super, txn[w])
  <2>1. cache = <<>> /\ supercache = [s \in {Other(fs.live)} |-> S] /\ Whole(Overlay, S)
    BY <1>4 DEF IInv, TxnOK
  <2>2. Whole(medium, S) /\ S.tree = txn[w].tree
    BY <1>1, <2>1, NothingCached DEF Succ
  <2>3. supercache # <<>>
    <3> HIDE DEF S
    <3>1. DOMAIN supercache = {Other(fs.live)}
      BY <2>1
    <3> QED
      BY <3>1, NothingCached
  <2>4. Committing = {w}
    BY <1>4 DEF Committing
  <2>5. Proposed = Contents(txn[w].tree)
    <3>1. (CHOOSE v \in Committing : TRUE) = w /\ Committing # {}
      BY <2>4
    <3> QED
      BY <3>1 DEF Proposed
  <2> HIDE DEF S
  <2>6. Contents(S.tree) = Made(S.tree) /\ Made(S.tree) # Nothing
    BY <1>1, <2>2, MadeIs
  <2> QED
    BY <2>2, <2>3, <2>5, <2>6
<1>5. ASSUME supercache = <<>> PROVE Proposed = Nothing
  <2>1. Committing = {}
    BY <1>4, <1>5 DEF Committing
  <2> QED
    BY <2>1 DEF Proposed
<1> QED
  BY <1>2, <1>3, <1>4, <1>5 DEF Shown

\* A step that believes the same superblock and has none on its way shows
\* nothing new.
LEMMA ShowsNothing ==
    ASSUME Shown, Shown', supers' = supers, fs' = fs, supercache = <<>>, supercache' = <<>>
    PROVE  UNCHANGED Vol!vars
<1>1. Truth' = Truth
  BY DEF Truth
<1> QED
  BY <1>1 DEF Shown, Vol!vars

LEMMA VolumeSteps ==
    ASSUME IInv, IInv', Shown, Shown', \A v, w \in Writers : v = w, ~LateFailures, [Next]_vars
    PROVE  [Vol!Next]_(Vol!vars)
<1>1. CASE reconfs_mount
  <2>1. /\ ~fs.mounted /\ fs'.mounted /\ UNCHANGED <<supers, supercache, txn>>
    BY <1>1 DEF reconfs_mount, disk
  <2>2. Truth' = Truth
    BY <2>1 DEF Truth
  <2>3. supercache = <<>>
    BY <2>1, NotUnderway DEF IInv, MountOK, SuperOK
  <2>4. Vol!Mount
    BY <2>1, <2>2, <2>3 DEF Shown, Vol!Mount
  <2> QED
    BY <2>4 DEF Vol!Next
<1>2. CASE PowerFails
  <2>1. ~fs'.mounted /\ supercache' = <<>>
    BY <1>2 DEF PowerFails
  <2>2. Current' = Nothing /\ Proposed' = Nothing
    BY <2>1 DEF Shown
  <2>3. Committed' = Committed \/ (Committed' = Proposed /\ Proposed # Nothing)
    <3>1. CASE Truth' = Truth
      BY <3>1 DEF Shown
    <3>2. CASE \E w \in Writers : txn[w].phase = "super" /\ Truth' = Succ(fs.super, txn[w])
      <4>1. PICK w \in Writers : txn[w].phase = "super" /\ Truth' = Succ(fs.super, txn[w])
        BY <3>2
      <4>2. Truth'.tree = txn[w].tree
        BY <4>1 DEF Succ
      <4> QED
        BY <4>1, <4>2 DEF Shown
    <3> QED
      BY <1>2, <3>1, <3>2, PowerTruth
  <2>4. Vol!PowerFails
    BY <2>2, <2>3 DEF Vol!PowerFails
  <2> QED
    BY <2>4 DEF Vol!Next
<1>3. ASSUME NEW w \in Writers, txn[w].phase # "super"
      PROVE  supercache = <<>>
  BY <1>3 DEF IInv, SuperOK
<1>4. ASSUME NEW w \in Writers,
             \/ reconfs_txn_begin(w) \/ reconfs_txn_abort(w)
             \/ TakeBlock(w) \/ (\E b \in Data : DropBlock(w, b))
             \/ reconfs_txn_commit(w) \/ plan_leaves(w) \/ plan_index(w) \/ WriteTable(w)
      PROVE  UNCHANGED Vol!vars
  <2>1. txn[w].phase # "super"
    BY <1>4 DEF reconfs_txn_begin, reconfs_txn_abort, TakeBlock, DropBlock, reconfs_txn_commit,
                plan_leaves, plan_index, WriteTable
  <2>2. UNCHANGED <<supers, supercache, fs>>
    BY <1>4 DEF reconfs_txn_begin, reconfs_txn_abort, TakeBlock, DropBlock, reconfs_txn_commit,
                plan_leaves, plan_index, WriteTable, disk
  <2> QED
    BY <1>3, <2>1, <2>2, ShowsNothing
<1>5. ASSUME NEW w \in Writers, FirstFlush(w) PROVE UNCHANGED Vol!vars
  <2>1. supercache = <<>> /\ fs' = fs
    BY <1>3, <1>5 DEF FirstFlush
  <2>2. supers' = supers /\ supercache' = <<>>
    BY <1>5, <2>1, NothingCached DEF FirstFlush, Flushed, disk, IInv, TypeOK
  <2> QED
    BY <2>1, <2>2, ShowsNothing
<1>6. ASSUME NEW w \in Writers, WriteSuper(w) PROVE [Vol!Next]_(Vol!vars)
  <2>1. supercache = <<>> /\ UNCHANGED <<supers, fs>> /\ txn[w].phase # "none"
    BY <1>3, <1>6 DEF WriteSuper
  <2>2. Truth' = Truth /\ fs.mounted
    BY <2>1, MountedTruth DEF Truth
  <2>3. CASE UNCHANGED supercache
    BY <2>1, <2>3, ShowsNothing
  <2>4. CASE Keeps(w, [txn[w] EXCEPT !.phase = "super"])
    <3>1. txn'[w].phase = "super"
      <4>1. txn[w] \in Txn
        BY <2>1, MountedTruth
      <4> QED
        BY <2>4, <4>1 DEF Keeps, IInv, TypeOK, Txn
    <3>2. Vol!Propose
      BY <2>1, <2>2, <3>1 DEF Shown, Vol!Propose
    <3> QED
      BY <3>2 DEF Vol!Next
  <2> QED
    BY <1>6, <2>3, <2>4 DEF WriteSuper
<1>7. ASSUME NEW w \in Writers, SecondFlush(w) PROVE [Vol!Next]_(Vol!vars)
  <2>1. txn[w].phase = "super" /\ supercache' = <<>> /\ fs' = Published(w)
    BY <1>7 DEF SecondFlush
  <2>2. fs'.mounted /\ fs'.super.tree = txn[w].tree
    BY <2>1 DEF Published, NewSuper
  <2>3. Truth'.tree = txn[w].tree
    BY <2>2 DEF IInv, MountOK
  <2>4. Vol!Acknowledge
    BY <2>1, <2>2, <2>3 DEF Shown, Vol!Acknowledge
  <2> QED
    BY <2>4 DEF Vol!Next
<1>8. CASE UNCHANGED vars
  <2>1. UNCHANGED <<medium, supers, fs, txn>>
    BY <1>8 DEF vars
  <2>2. UNCHANGED <<Committed, Current, Proposed>>
    BY <2>1 DEF Committed, Current, Proposed, Contents, Truth, Committing
  <2> QED
    BY <2>2 DEF Vol!vars
<1> QED
  BY <1>1, <1>2, <1>4, <1>5, <1>6, <1>7, <1>8 DEF Next

\* A commit is one change: a power cut leaves it wholly done or wholly not, and
\* never undoes one that its caller has been told of.
THEOREM CommitsAreAtomic ==
    ASSUME \A v, w \in Writers : v = w, ~LateFailures
    PROVE  Spec => AtomicCommit
<1>1. Init => Vol!Init
  <2> SUFFICES ASSUME Init PROVE Vol!Init
    OBVIOUS
  <2>1. IInv
    BY InitOK
  <2>2. Shown
    BY <2>1, ShownIs
  <2>3. ~fs.mounted /\ supercache = <<>>
    BY DEF Init
  <2> QED
    BY <2>2, <2>3 DEF Shown, Vol!Init
<1>2. IInv => Shown
  BY ShownIs
<1>3. IInv /\ IInv' /\ Shown /\ Shown' /\ [Next]_vars => [Vol!Next]_(Vol!vars)
  BY VolumeSteps
<1> QED
  BY <1>1, <1>2, <1>3, Invariance, PTL DEF Spec, Vol!Spec, AtomicCommit
=============================================================================
