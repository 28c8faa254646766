----------------------------- MODULE PipeProofs -----------------------------
(***************************************************************************)
(* Proofs about Pipe, for any number of threads and descriptors and a ring *)
(* of any size: the pipe is there exactly as long as something leads to    *)
(* it, nobody sleeps without a reason, and it implements Stream.           *)
(***************************************************************************)
EXTENDS Pipe, FiniteSetTheorems, SequenceTheorems, WellFoundedInduction, TLAPS

(***************************************************************************)
(* What a thread can still have to do: sys_pipe's steps from each of them  *)
(* on, a call on one end, and a close.                                     *)
(***************************************************************************)
Make1 == <<Step("install", "r"), Step("install", "w"), Step("release", "r"),
           Step("release", "w"), Step("check", 0)>>
Make2 == <<Step("install", "w"), Step("release", "r"), Step("release", "w"),
           Step("check", 0)>>
Make3 == <<Step("release", "r"), Step("release", "w"), Step("check", 0)>>
Make4 == <<Step("close", "r"), Step("release", "w"), Step("check", 0)>>
Make5 == <<Step("release", "w"), Step("check", 0)>>
Make6 == <<Step("close", "w"), Step("check", 0)>>
Make7 == <<Step("check", 0)>>

Reading(n) == <<Step("read", n), Step("release", "r")>>
Writing(n) == <<Step("write", n), Step("release", "w")>>
Dropping(f) == <<Step("release", f)>>
Ending(f) == <<Step("close", f)>>
Giving(fd) == <<Step("fd_close", fd)>>

Made == {Make3, Make4, Make5, Make6, Make7}
Works == {<<>>, Make1, Make2} \cup Made
         \cup {Reading(n) : n \in ReadLens} \cup {Writing(n) : n \in WriteLens}
         \cup {Dropping(f) : f \in Ends} \cup {Ending(f) : f \in Ends}
         \cup {Giving(fd) : fd \in FDs}

\* How many numbers sys_pipe has been given by then.
Owed(w) == IF w = Make2 THEN 1 ELSE IF w \in Made THEN 2 ELSE 0

WorkOK == \A t \in Threads : work[t] \in Works /\ Len(got[t]) = Owed(work[t])

Writes(w) == w # <<>> /\ w[1].op = "write"

\* A write has placed less than it was asked for as long as it goes on.
DoneOK ==
    \A t \in Threads : IF Writes(work[t]) THEN done[t] < work[t][1].arg ELSE done[t] = 0

\* The ends that a list of steps does op to.
Todo(w, op) == {f \in Ends : \E i \in 1 .. Len(w) : w[i] = Step(op, f)}

\* Who holds a reference to each end: the descriptors that name it and the
\* calls that have yet to release it.
Named == [f \in Ends |-> {fd \in FDs : fds[fd] = f}]
Using == [f \in Ends |-> {t \in Threads : f \in Todo(work[t], "release")}]
Closing == [f \in Ends |-> {t \in Threads : f \in Todo(work[t], "close")}]

RefsOK == \A f \in Ends : refs[f] = Cardinality(Named[f]) + Cardinality(Using[f])

\* An end is open until the thread that dropped its last reference has closed it.
EndsOK ==
    /\ \A f \in Ends : /\ Closing[f] # {} => refs[f] = 0
                       /\ \A t, u \in Closing[f] : t = u
    /\ read_ends = 1 <=> refs["r"] > 0 \/ Closing["r"] # {}
    /\ write_ends = 1 <=> refs["w"] > 0 \/ Closing["w"] # {}

LifeOK ==
    life = "live" <=> read_ends = 1 \/ write_ends = 1

\* The ring holds what is pending, from head to tail.
RingOK ==
    /\ Len(pending) = count
    /\ tail = (head + count) % PIPE_CAPACITY
    /\ \A i \in 1 .. count : pending[i] = buf[(head + i - 1) % PIPE_CAPACITY]

ToldOK == told => count = 0 /\ write_ends = 0 /\ life # "unmade"

HeldInv == TypeOK /\ WorkOK /\ DoneOK /\ RefsOK /\ EndsOK /\ LifeOK
RingInv == SleepersHaveReason /\ RingOK /\ ToldOK
IInv == HeldInv /\ RingInv
-----------------------------------------------------------------------------
(* Facts about the operators.                                              *)

\* What each list of steps does to the ends.
LEMMA TodoMake ==
    /\ Todo(<<>>, "release") = {} /\ Todo(<<>>, "close") = {}
    /\ Todo(Make1, "release") = Ends /\ Todo(Make1, "close") = {}
    /\ Todo(Make2, "release") = Ends /\ Todo(Make2, "close") = {}
    /\ Todo(Make3, "release") = Ends /\ Todo(Make3, "close") = {}
    /\ Todo(Make4, "release") = {"w"} /\ Todo(Make4, "close") = {"r"}
    /\ Todo(Make5, "release") = {"w"} /\ Todo(Make5, "close") = {}
    /\ Todo(Make6, "release") = {} /\ Todo(Make6, "close") = {"w"}
    /\ Todo(Make7, "release") = {} /\ Todo(Make7, "close") = {}
<1>1. Todo(<<>>, "release") = {} /\ Todo(<<>>, "close") = {}
  BY DEF Todo
<1>2. Todo(Make1, "release") = Ends /\ Todo(Make1, "close") = {}
  BY DEF Todo, Make1, Step, Ends
<1>3. Todo(Make2, "release") = Ends /\ Todo(Make2, "close") = {}
  BY DEF Todo, Make2, Step, Ends
<1>4. Todo(Make3, "release") = Ends /\ Todo(Make3, "close") = {}
  BY DEF Todo, Make3, Step, Ends
<1>5. Todo(Make4, "release") = {"w"} /\ Todo(Make4, "close") = {"r"}
  BY DEF Todo, Make4, Step, Ends
<1>6. Todo(Make5, "release") = {"w"} /\ Todo(Make5, "close") = {}
  BY DEF Todo, Make5, Step, Ends
<1>7. Todo(Make6, "release") = {} /\ Todo(Make6, "close") = {"w"}
  BY DEF Todo, Make6, Step, Ends
<1>8. Todo(Make7, "release") = {} /\ Todo(Make7, "close") = {}
  BY DEF Todo, Make7, Step, Ends
<1> QED
  BY <1>1, <1>2, <1>3, <1>4, <1>5, <1>6, <1>7, <1>8

\* What the lists of a call, a release, a close and a descriptor given up do.
LEMMA TodoCall ==
    /\ \A n : Todo(Reading(n), "release") = {"r"} /\ Todo(Reading(n), "close") = {}
    /\ \A n : Todo(Writing(n), "release") = {"w"} /\ Todo(Writing(n), "close") = {}
    /\ \A f \in Ends : Todo(Dropping(f), "release") = {f} /\ Todo(Dropping(f), "close") = {}
    /\ \A f \in Ends : Todo(Ending(f), "release") = {} /\ Todo(Ending(f), "close") = {f}
    /\ \A fd : Todo(Giving(fd), "release") = {} /\ Todo(Giving(fd), "close") = {}
<1>1. \A n : Todo(Reading(n), "release") = {"r"} /\ Todo(Reading(n), "close") = {}
  BY DEF Todo, Reading, Step, Ends
<1>2. \A n : Todo(Writing(n), "release") = {"w"} /\ Todo(Writing(n), "close") = {}
  BY DEF Todo, Writing, Step, Ends
<1>3. \A f \in Ends : Todo(Dropping(f), "release") = {f} /\ Todo(Dropping(f), "close") = {}
  BY DEF Todo, Dropping, Step, Ends
<1>4. \A f \in Ends : Todo(Ending(f), "release") = {} /\ Todo(Ending(f), "close") = {f}
  BY DEF Todo, Ending, Step, Ends
<1>5. \A fd : Todo(Giving(fd), "release") = {} /\ Todo(Giving(fd), "close") = {}
  BY DEF Todo, Giving, Step, Ends
<1> QED
  BY <1>1, <1>2, <1>3, <1>4, <1>5

\* Putting a step in front of one or two others.
LEMMA InFront ==
    ASSUME NEW a, NEW b, NEW c
    PROVE  /\ <<a>> \o <<b>> = <<a, b>>
           /\ <<a>> \o <<b, c>> = <<a, b, c>>
<1> DEFINE S == {a, b, c}
<1>1. <<a>> \o <<b>> = <<a, b>>
  <2> DEFINE x == <<a>> \o <<b>>
             y == <<a, b>>
  <2>1. x \in Seq(S) /\ y \in Seq(S) /\ Len(x) = 2 /\ Len(y) = 2
    OBVIOUS
  <2>2. x[1] = y[1] /\ x[2] = y[2]
    OBVIOUS
  <2> HIDE DEF x, y
  <2>3. \A i \in 1 .. 2 : x[i] = y[i]
    BY <2>2
  <2>4. x = y
    BY <2>1, <2>3
  <2> QED
    BY <2>4 DEF x, y
<1>2. <<a>> \o <<b, c>> = <<a, b, c>>
  <2> DEFINE x == <<a>> \o <<b, c>>
             y == <<a, b, c>>
  <2>1. x \in Seq(S) /\ y \in Seq(S) /\ Len(x) = 3 /\ Len(y) = 3
    OBVIOUS
  <2>2. x[1] = y[1] /\ x[2] = y[2] /\ x[3] = y[3]
    OBVIOUS
  <2> HIDE DEF x, y
  <2>3. \A i \in 1 .. 3 : x[i] = y[i]
    BY <2>2
  <2>4. x = y
    BY <2>1, <2>3
  <2> QED
    BY <2>4 DEF x, y
<1> QED
  BY <1>1, <1>2

\* How they follow one another.
LEMMA Tails ==
    /\ Tail(Make1) = Make2 /\ Tail(Make2) = Make3 /\ Tail(Make3) = Make5
    /\ Tail(Make4) = Make5 /\ Tail(Make5) = Make7 /\ Tail(Make6) = Make7
    /\ <<Step("close", "r")>> \o Make5 = Make4 /\ <<Step("close", "w")>> \o Make7 = Make6
    /\ \A n : Tail(Reading(n)) = Dropping("r") /\ Tail(Writing(n)) = Dropping("w")
    /\ \A f : Tail(Dropping(f)) = <<>> /\ Tail(Ending(f)) = <<>>
    /\ \A f : <<Step("close", f)>> \o <<>> = Ending(f)
    /\ \A fd : Tail(Giving(fd)) = <<>> 
    /\ \A f : <<Step("release", f)>> \o <<>> = Dropping(f)
<1>1. Tail(Make1) = Make2 /\ Tail(Make2) = Make3 /\ Tail(Make3) = Make5
  BY DEF Make1, Make2, Make3, Make5
<1>2. Tail(Make4) = Make5 /\ Tail(Make5) = Make7 /\ Tail(Make6) = Make7
  BY DEF Make4, Make5, Make6, Make7
<1>3. <<Step("close", "r")>> \o Make5 = Make4 /\ <<Step("close", "w")>> \o Make7 = Make6
  <2>1. /\ <<Step("close", "r")>> \o <<Step("release", "w"), Step("check", 0)>>
             = <<Step("close", "r"), Step("release", "w"), Step("check", 0)>>
        /\ <<Step("close", "w")>> \o <<Step("check", 0)>> = <<Step("close", "w"), Step("check", 0)>>
    BY InFront, Zenon
  <2> QED
    BY <2>1, Zenon DEF Make4, Make5, Make6, Make7
<1>4. \A n : Tail(Reading(n)) = Dropping("r") /\ Tail(Writing(n)) = Dropping("w")
  BY DEF Reading, Writing, Dropping
<1>5. \A f : Tail(Dropping(f)) = <<>> /\ Tail(Ending(f)) = <<>>
  BY DEF Dropping, Ending
<1>6. \A f : <<Step("close", f)>> \o <<>> = Ending(f)
  BY DEF Ending
<1>7. \A fd : Tail(Giving(fd)) = <<>> 
  BY DEF Giving
<1>8. \A f : <<Step("release", f)>> \o <<>> = Dropping(f)
  BY DEF Dropping
<1> QED
  BY <1>1, <1>2, <1>3, <1>4, <1>5, <1>6, <1>7, <1>8

\* The first step tells most of the list.
LEMMA Firsts ==
    ASSUME NEW w \in Works, w # <<>>
    PROVE  /\ w[1].op = "install" => \/ w = Make1 /\ w[1].arg = "r"
                                     \/ w = Make2 /\ w[1].arg = "w"
           /\ w[1].op = "check" => w = Make7
           /\ w[1].op = "release" => \/ w = Make3 /\ w[1].arg = "r"
                                     \/ w = Make5 /\ w[1].arg = "w"
                                     \/ w[1].arg \in Ends /\ w = Dropping(w[1].arg)
           /\ w[1].op = "close" => \/ w = Make4 /\ w[1].arg = "r"
                                   \/ w = Make6 /\ w[1].arg = "w"
                                   \/ w[1].arg \in Ends /\ w = Ending(w[1].arg)
           /\ w[1].op = "read" => w[1].arg \in ReadLens /\ w = Reading(w[1].arg)
           /\ w[1].op = "write" => w[1].arg \in WriteLens /\ w = Writing(w[1].arg)
           /\ w[1].op = "fd_close" => w[1].arg \in FDs /\ w = Giving(w[1].arg)
<1>1. CASE w \in {Make1, Make2}
  BY <1>1 DEF Make1, Make2, Step
<1>2. CASE w \in Made
  BY <1>2 DEF Made, Make3, Make4, Make5, Make6, Make7, Step
<1>3. CASE \E n \in ReadLens : w = Reading(n)
  BY <1>3 DEF Reading, Step
<1>4. CASE \E n \in WriteLens : w = Writing(n)
  BY <1>4 DEF Writing, Step
<1>5. CASE \E f \in Ends : w = Dropping(f)
  BY <1>5 DEF Dropping, Step
<1>6. CASE \E f \in Ends : w = Ending(f)
  BY <1>6 DEF Ending, Step
<1>7. CASE \E fd \in FDs : w = Giving(fd)
  BY <1>7 DEF Giving, Step
<1> QED
  BY <1>1, <1>2, <1>3, <1>4, <1>5, <1>6, <1>7 DEF Works

\* What the lists are, where sys_pipe stands in them, and which of them write.
LEMMA Kinds ==
    /\ Works \subseteq Seq(Steps)
    /\ Owed(<<>>) = 0 /\ Owed(Make1) = 0 /\ Owed(Make2) = 1
    /\ \A w \in Made : Owed(w) = 2
    /\ \A n : Owed(Reading(n)) = 0 /\ Owed(Writing(n)) = 0 /\ Owed(Giving(n)) = 0
    /\ \A f \in Ends : Owed(Dropping(f)) = 0 /\ Owed(Ending(f)) = 0
    /\ ~Writes(<<>>) /\ ~Writes(Make1) /\ ~Writes(Make2)
    /\ \A w \in Made : ~Writes(w)
    /\ \A n : ~Writes(Reading(n)) /\ Writes(Writing(n)) /\ Writing(n)[1].arg = n /\ ~Writes(Giving(n))
    /\ \A f \in Ends : ~Writes(Dropping(f)) /\ ~Writes(Ending(f))
<1>1. Works \subseteq Seq(Steps)
  <2>1. {<<>>, Make1, Make2} \subseteq Seq(Steps)
    BY DEF Make1, Make2, Step, Steps, Ends
  <2>2. Made \subseteq Seq(Steps)
    BY DEF Made, Make3, Make4, Make5, Make6, Make7, Step, Steps, Ends
  <2>3. \A n \in ReadLens : Reading(n) \in Seq(Steps)
    BY DEF Reading, Step, Steps, Ends
  <2>4. \A n \in WriteLens : Writing(n) \in Seq(Steps)
    BY DEF Writing, Step, Steps, Ends
  <2>5. \A f \in Ends : Dropping(f) \in Seq(Steps) /\ Ending(f) \in Seq(Steps)
    BY DEF Dropping, Ending, Step, Steps
  <2>6. \A fd \in FDs : Giving(fd) \in Seq(Steps)
    BY DEF Giving, Step, Steps
  <2> QED
    BY <2>1, <2>2, <2>3, <2>4, <2>5, <2>6 DEF Works
<1>2. /\ Len(Make1) = 5 /\ Len(Make2) = 4 /\ Len(Make3) = 3 /\ Len(Make4) = 3
      /\ Len(Make5) = 2 /\ Len(Make6) = 2 /\ Len(Make7) = 1
  BY DEF Make1, Make2, Make3, Make4, Make5, Make6, Make7
<1>3. \A n : Len(Reading(n)) = 2 /\ Len(Writing(n)) = 2 /\ Len(Giving(n)) = 1
             /\ Len(Dropping(n)) = 1 /\ Len(Ending(n)) = 1
  BY DEF Reading, Writing, Giving, Dropping, Ending
<1>4. /\ Make1[1].op = "install" /\ Make2[1].op = "install" /\ Make3[1].op = "release"
      /\ Make4[1].op = "close" /\ Make5[1].op = "release" /\ Make6[1].op = "close"
      /\ Make7[1].op = "check" /\ Make5[1].arg = "w" /\ Make6[1].arg = "w"
  BY DEF Make1, Make2, Make3, Make4, Make5, Make6, Make7, Step
<1>5. \A n : Reading(n)[1].op = "read" /\ Writing(n)[1].op = "write" /\ Giving(n)[1].op = "fd_close"
             /\ Dropping(n)[1].op = "release" /\ Ending(n)[1].op = "close" /\ Writing(n)[1].arg = n
  BY DEF Reading, Writing, Giving, Dropping, Ending, Step
<1>6. Owed(<<>>) = 0 /\ Owed(Make1) = 0 /\ Owed(Make2) = 1
  <2>1. Len(<<>>) = 0
    OBVIOUS
  <2>2. ASSUME NEW w, Len(w) = 0 \/ Len(w) = 5 PROVE Owed(w) = 0
    <3>1. w # Make2
      BY <1>2, <2>2
    <3>2. w # Make3 /\ w # Make4 /\ w # Make5 /\ w # Make6 /\ w # Make7
      BY <1>2, <2>2
    <3> QED
      BY <3>1, <3>2, Zenon DEF Owed, Made
  <2>4. Owed(Make2) = 1
    BY Zenon DEF Owed
  <2> QED
    BY <1>2, <2>1, <2>2, <2>4
<1>7. \A w \in Made : Owed(w) = 2
  BY <1>2 DEF Owed, Made
<1>8. \A n : Owed(Reading(n)) = 0 /\ Owed(Writing(n)) = 0 /\ Owed(Giving(n)) = 0
  BY <1>2, <1>3, <1>4, <1>5 DEF Owed, Made
<1>9. \A f \in Ends : Owed(Dropping(f)) = 0 /\ Owed(Ending(f)) = 0
  BY <1>2, <1>3, <1>4, <1>5 DEF Owed, Made
<1>10. ~Writes(<<>>) /\ ~Writes(Make1) /\ ~Writes(Make2) /\ \A w \in Made : ~Writes(w)
  BY <1>4 DEF Writes, Made
<1>11. \A n : ~Writes(Reading(n)) /\ Writes(Writing(n)) /\ ~Writes(Giving(n))
              /\ ~Writes(Dropping(n)) /\ ~Writes(Ending(n))
  <2>1. Len(<<>>) = 0
    OBVIOUS
  <2> QED
    BY <1>3, <1>5, <2>1 DEF Writes
<1> QED
  BY <1>1, <1>5, <1>6, <1>7, <1>8, <1>9, <1>10, <1>11

\* The least member of a set of numbers, which is how a descriptor is
\* chosen, is a member of it.
LEMMA MinIsIn ==
    ASSUME NEW S \in SUBSET Nat, S # {}
    PROVE  Min(S) \in S
<1> DEFINE R == {ss \in Nat \X Nat : ss[1] < ss[2]}
<1>1. OpToRel(<, Nat) = R
  BY Zenon DEF OpToRel
<1>2. IsWellFoundedOn(R, Nat)
  BY <1>1, NatLessThanWellFounded, Zenon
<1>3. PICK x \in S : \A y \in S : ~(<<y, x>> \in R)
  <2> HIDE DEF R
  <2> QED BY <1>2, WFMin, Zenon
<1>4. ASSUME NEW y \in S PROVE x <= y
  <2>1. y < x => <<y, x>> \in R
    OBVIOUS
  <2>2. ~(y < x)
    BY <1>3, <2>1
  <2> QED
    BY <2>2
<1> QED
  BY <1>4, Zenon DEF Min

\* A descriptor handed out was free.
LEMMA LowestIsFree ==
    LowestFree # -1 => LowestFree \in FDs /\ fds[LowestFree] = None
<1> DEFINE S == {fd \in FDs : fds[fd] = None}
<1>1. S \in SUBSET Nat
  BY PipeAssumption DEF FDs
<1>2. S # {} => Min(S) \in S
  BY <1>1, MinIsIn
<1> QED
  BY <1>2 DEF LowestFree

\* How many bytes a call moves: the lesser of what it wants and what there is.
LEMMA MinOfTwo ==
    ASSUME NEW a \in Int, NEW b \in Int
    PROVE  Min({a, b}) = IF a <= b THEN a ELSE b
<1> DEFINE m == IF a <= b THEN a ELSE b
<1>1. m \in {a, b} /\ \A y \in {a, b} : m <= y
  OBVIOUS
<1>2. \A x \in {a, b} : (\A y \in {a, b} : x <= y) => x = m
  OBVIOUS
<1> QED
  BY <1>1, <1>2 DEF Min

\* The ring's arithmetic: within one turn a remainder is at most one step of
\* the capacity away.
LEMMA Around ==
    ASSUME NEW n \in Nat \ {0}, NEW x \in Int, -n <= x, x < 2 * n
    PROVE  x % n = IF x < 0 THEN x + n ELSE IF x < n THEN x ELSE x - n
<1>1. CASE x < 0
  BY <1>1
<1>2. CASE 0 <= x /\ x < n
  BY <1>2
<1>3. CASE n <= x
  BY <1>3
<1> QED
  BY <1>1, <1>2, <1>3

-----------------------------------------------------------------------------
(* Counting references.                                                    *)

\* The holders of a reference can be counted.
LEMMA Finite ==
    \A f \in Ends : /\ IsFiniteSet(Named[f]) /\ Cardinality(Named[f]) \in Nat
                    /\ IsFiniteSet(Using[f]) /\ Cardinality(Using[f]) \in Nat
<1>1. IsFiniteSet(FDs)
  <2>1. PROCESS_FDS_MAX - 1 \in Int /\ 0 \in Int
    BY PipeAssumption
  <2> QED
    BY <2>1, FS_Interval DEF FDs
<1>2. IsFiniteSet(Threads)
  BY PipeAssumption
<1>3. ASSUME NEW f \in Ends
      PROVE  Named[f] \in SUBSET FDs /\ Using[f] \in SUBSET Threads
  BY DEF Named, Using
<1> QED
  BY <1>1, <1>2, <1>3, FS_Subset, FS_CardinalityType

\* The sets by what is in them.
LEMMA Members ==
    \A f \in Ends : /\ \A fd : fd \in Named[f] <=> fd \in FDs /\ fds[fd] = f
                    /\ \A t : t \in Using[f] <=> t \in Threads /\ f \in Todo(work[t], "release")
                    /\ \A t : t \in Closing[f] <=> t \in Threads /\ f \in Todo(work[t], "close")
BY DEF Named, Using, Closing

\* One thread's list changes.
LEMMA UsingMoves ==
    ASSUME TypeOK, NEW t \in Threads, NEW w, work' = [work EXCEPT ![t] = w], NEW f \in Ends
    PROVE  /\ Closing'[f] = IF f \in Todo(w, "close") THEN Closing[f] \cup {t} ELSE Closing[f] \ {t}
           /\ (f \in Todo(w, "release") <=> f \in Todo(work[t], "release"))
                => Cardinality(Using'[f]) = Cardinality(Using[f])
           /\ f \in Todo(w, "release") /\ f \notin Todo(work[t], "release")
                => Cardinality(Using'[f]) = Cardinality(Using[f]) + 1
           /\ f \notin Todo(w, "release") /\ f \in Todo(work[t], "release")
                => Cardinality(Using'[f]) = Cardinality(Using[f]) - 1
<1>1. /\ Using'[f] = {u \in Threads : f \in Todo(work'[u], "release")}
      /\ Closing'[f] = {u \in Threads : f \in Todo(work'[u], "close")}
  BY DEF Using, Closing
<1>2. /\ Using[f] = {u \in Threads : f \in Todo(work[u], "release")}
      /\ Closing[f] = {u \in Threads : f \in Todo(work[u], "close")}
  BY DEF Using, Closing
<1>3. work'[t] = w /\ \A u \in Threads : u # t => work'[u] = work[u]
  BY DEF TypeOK
<1>4. Closing'[f] = IF f \in Todo(w, "close") THEN Closing[f] \cup {t} ELSE Closing[f] \ {t}
  BY <1>1, <1>2, <1>3
<1>5. Using'[f] = IF f \in Todo(w, "release") THEN Using[f] \cup {t} ELSE Using[f] \ {t}
  BY <1>1, <1>2, <1>3
<1>6. IsFiniteSet(Using[f]) /\ Cardinality(Using[f]) \in Nat /\ (t \in Using[f] <=> f \in Todo(work[t], "release"))
  BY <1>2, Finite
<1>7. /\ Cardinality(Using[f] \cup {t}) = IF t \in Using[f] THEN Cardinality(Using[f]) ELSE Cardinality(Using[f]) + 1
      /\ Cardinality(Using[f] \ {t}) = IF t \in Using[f] THEN Cardinality(Using[f]) - 1 ELSE Cardinality(Using[f])
  BY <1>6, FS_AddElement, FS_RemoveElement
<1> QED
  BY <1>4, <1>5, <1>6, <1>7

\* One descriptor changes.
LEMMA NamedMoves ==
    ASSUME TypeOK, NEW fd \in FDs, NEW g, fds' = [fds EXCEPT ![fd] = g], NEW f \in Ends
    PROVE  /\ (g = f <=> fds[fd] = f) => Cardinality(Named'[f]) = Cardinality(Named[f])
           /\ g = f /\ fds[fd] # f => Cardinality(Named'[f]) = Cardinality(Named[f]) + 1
           /\ g # f /\ fds[fd] = f => Cardinality(Named'[f]) = Cardinality(Named[f]) - 1
<1>1. Named'[f] = {x \in FDs : fds'[x] = f} /\ Named[f] = {x \in FDs : fds[x] = f}
  BY DEF Named
<1>2. fds'[fd] = g /\ \A x \in FDs : x # fd => fds'[x] = fds[x]
  BY DEF TypeOK
<1>3. Named'[f] = IF g = f THEN Named[f] \cup {fd} ELSE Named[f] \ {fd}
  BY <1>1, <1>2
<1>4. IsFiniteSet(Named[f]) /\ Cardinality(Named[f]) \in Nat /\ (fd \in Named[f] <=> fds[fd] = f)
  BY <1>1, Finite
<1>5. /\ Cardinality(Named[f] \cup {fd}) = IF fd \in Named[f] THEN Cardinality(Named[f]) ELSE Cardinality(Named[f]) + 1
      /\ Cardinality(Named[f] \ {fd}) = IF fd \in Named[f] THEN Cardinality(Named[f]) - 1 ELSE Cardinality(Named[f])
  BY <1>4, FS_AddElement, FS_RemoveElement
<1> QED
  BY <1>3, <1>4, <1>5

\* A descriptor or a call that leads to an end has a reference to it.
LEMMA Referenced ==
    ASSUME TypeOK, RefsOK, NEW f \in Ends
    PROVE  /\ refs[f] \in Nat
           /\ refs[f] > 0 <=> Named[f] # {} \/ Using[f] # {}
<1>1. refs[f] = Cardinality(Named[f]) + Cardinality(Using[f])
  BY DEF RefsOK
<1>2. /\ IsFiniteSet(Named[f]) /\ Cardinality(Named[f]) \in Nat
      /\ IsFiniteSet(Using[f]) /\ Cardinality(Using[f]) \in Nat
  BY Finite
<1>3. Cardinality(Named[f]) = 0 <=> Named[f] = {}
  BY <1>2, FS_EmptySet
<1>4. Cardinality(Using[f]) = 0 <=> Using[f] = {}
  BY <1>2, FS_EmptySet
<1> QED
  BY <1>1, <1>2, <1>3, <1>4

\* The pipe is there exactly as long as something leads to it.
LEMMA FollowsUse ==
    ASSUME TypeOK, WorkOK, RefsOK, EndsOK, LifeOK
    PROVE  LifeFollowsUse
<1>1. ASSUME NEW t \in Threads
      PROVE  Uses(t) \cap {"install", "read", "write", "release", "close"} # {}
               <=> Todo(work[t], "release") # {} \/ Todo(work[t], "close") # {}
  <2> DEFINE Us(w) == {w[i].op : i \in DOMAIN w} \cap {"install", "read", "write", "release", "close"}
             Td(w) == Todo(w, "release") # {} \/ Todo(w, "close") # {}
  <2>1. work[t] \in Works
    BY DEF WorkOK
  <2>2. Us(<<>>) = {}
    OBVIOUS
  <2>3. Us(Make1) # {} /\ Us(Make2) # {} /\ Us(Make3) # {}
    BY DEF Make1, Make2, Make3, Step
  <2>4. Us(Make4) # {} /\ Us(Make5) # {} /\ Us(Make6) # {} /\ Us(Make7) = {}
    BY DEF Make4, Make5, Make6, Make7, Step
  <2>5. \A n : Us(Reading(n)) # {} /\ Us(Writing(n)) # {} /\ Us(Giving(n)) = {}
    BY DEF Reading, Writing, Giving, Step
  <2>6. \A f \in Ends : Us(Dropping(f)) # {} /\ Us(Ending(f)) # {}
    BY DEF Dropping, Ending, Step
  <2>7. ~Td(<<>>) /\ Td(Make1) /\ Td(Make2) /\ Td(Make3) /\ Td(Make4) /\ Td(Make5) /\ Td(Make6) /\ ~Td(Make7)
    BY TodoMake DEF Ends
  <2>8. /\ \A n : Td(Reading(n)) /\ Td(Writing(n)) /\ ~Td(Giving(n))
        /\ \A f \in Ends : Td(Dropping(f)) /\ Td(Ending(f))
    BY TodoCall
  <2>9. Us(work[t]) # {} <=> Td(work[t])
    <3> HIDE DEF Us, Td
    <3> QED
      BY <2>1, <2>2, <2>3, <2>4, <2>5, <2>6, <2>7, <2>8 DEF Works, Made
  <2> QED
    BY <2>9 DEF Uses
<1>2. Reachable <=> \E f \in Ends : Named[f] # {} \/ Using[f] # {} \/ Closing[f] # {}
  <2>1. (\E fd \in FDs : fds[fd] \in Ends) <=> \E f \in Ends : Named[f] # {}
    BY Members
  <2>2. \A t, op : Todo(work[t], op) \subseteq Ends
    BY DEF Todo
  <2>3. (\E t \in Threads : Todo(work[t], "release") # {} \/ Todo(work[t], "close") # {})
          <=> \E f \in Ends : Using[f] # {} \/ Closing[f] # {}
    BY <2>2, Members
  <2> QED
    BY <1>1, <2>1, <2>3 DEF Reachable
<1>3. \A f \in Ends : refs[f] > 0 <=> Named[f] # {} \/ Using[f] # {}
  BY Referenced
<1> QED
  BY <1>2, <1>3 DEF EndsOK, LifeOK, LifeFollowsUse, Ends

\* A step off the front of each kind of list.
LEMMA InstallShape ==
    ASSUME NEW w \in Works, w # <<>>, w[1].op = "install"
    PROVE  /\ w[1].arg \in Ends /\ w[1].arg \in Todo(w, "release")
           /\ Tail(w) \in Works /\ ~Writes(w) /\ ~Writes(Tail(w)) /\ Owed(Tail(w)) = Owed(w) + 1
           /\ Todo(Tail(w), "release") = Todo(w, "release") /\ Todo(Tail(w), "close") = Todo(w, "close")
<1>1. Make2 \in Works /\ Make3 \in Works /\ Make3 \in Made
  BY DEF Works, Made
<1>2. \/ w = Make1 /\ w[1].arg = "r"
      \/ w = Make2 /\ w[1].arg = "w"
  BY Firsts
<1>3. CASE w = Make1 /\ w[1].arg = "r"
  <2>1. Tail(w) = Make2
    BY <1>3, Tails
  <2>2. Owed(Make1) = 0 /\ Owed(Make2) = 1 /\ ~Writes(Make1) /\ ~Writes(Make2)
    BY <1>1, Kinds
  <2>3. /\ Todo(Make1, "release") = Ends /\ Todo(Make2, "release") = Ends
        /\ Todo(Make1, "close") = {} /\ Todo(Make2, "close") = {}
    BY TodoMake
  <2>4. w[1].arg \in Ends
    BY <1>3 DEF Ends
  <2>5. Owed(Tail(w)) = Owed(w) + 1
    <3>1. Owed(Tail(w)) = 1 /\ Owed(w) = 0
      BY <1>3, <2>1, <2>2, Zenon
    <3> QED
      BY <3>1
  <2> QED
    BY <1>1, <1>3, <2>1, <2>2, <2>3, <2>4, <2>5, Zenon
<1>4. CASE w = Make2 /\ w[1].arg = "w"
  <2>1. Tail(w) = Make3
    BY <1>4, Tails
  <2>2. Owed(Make2) = 1 /\ Owed(Make3) = 2 /\ ~Writes(Make2) /\ ~Writes(Make3)
    BY <1>1, Kinds
  <2>3. /\ Todo(Make2, "release") = Ends /\ Todo(Make3, "release") = Ends
        /\ Todo(Make2, "close") = {} /\ Todo(Make3, "close") = {}
    BY TodoMake
  <2>4. w[1].arg \in Ends
    BY <1>4 DEF Ends
  <2>5. Owed(Tail(w)) = Owed(w) + 1
    <3>1. Owed(Tail(w)) = 2 /\ Owed(w) = 1
      BY <1>4, <2>1, <2>2, Zenon
    <3> QED
      BY <3>1
  <2> QED
    BY <1>1, <1>4, <2>1, <2>2, <2>3, <2>4, <2>5, Zenon
<1> QED
  BY <1>2, <1>3, <1>4

\* A release at the front: the end it is about, and what may follow it.
LEMMA ReleaseShape ==
    ASSUME NEW w \in Works, w # <<>>, w[1].op = "release"
    PROVE  LET f == w[1].arg
               c == <<Step("close", f)>> \o Tail(w)
           IN  /\ f \in Ends /\ f \in Todo(w, "release") /\ Todo(w, "close") = {} /\ ~Writes(w)
               /\ Tail(w) \in Works /\ ~Writes(Tail(w)) /\ Owed(Tail(w)) = Owed(w)
               /\ Todo(Tail(w), "release") = Todo(w, "release") \ {f} /\ Todo(Tail(w), "close") = {}
               /\ c \in Works /\ ~Writes(c) /\ Owed(c) = Owed(w)
               /\ Todo(c, "release") = Todo(w, "release") \ {f} /\ Todo(c, "close") = {f}
<1> SUFFICES
      ASSUME NEW f, f = w[1].arg, NEW c, c = <<Step("close", f)>> \o Tail(w)
      PROVE  /\ f \in Ends /\ f \in Todo(w, "release") /\ Todo(w, "close") = {} /\ ~Writes(w)
             /\ Tail(w) \in Works /\ ~Writes(Tail(w)) /\ Owed(Tail(w)) = Owed(w)
             /\ Todo(Tail(w), "release") = Todo(w, "release") \ {f} /\ Todo(Tail(w), "close") = {}
             /\ c \in Works /\ ~Writes(c) /\ Owed(c) = Owed(w)
             /\ Todo(c, "release") = Todo(w, "release") \ {f} /\ Todo(c, "close") = {f}
  BY Zenon
<1>1. Made \subseteq Works /\ <<>> \in Works /\ \A g \in Ends : Ending(g) \in Works
  BY DEF Works
<1>2. {Make3, Make4, Make5, Make6, Make7} \subseteq Made
  BY DEF Made
<1>3. \/ w = Make3 /\ f = "r"
      \/ w = Make5 /\ f = "w"
      \/ f \in Ends /\ w = Dropping(f)
  BY Firsts
<1>4. CASE w = Make3 /\ f = "r"
  <2>1. Tail(w) = Make5 /\ c = Make4
    BY <1>4, Tails
  <2> QED
    BY <1>1, <1>2, <1>4, <2>1, Kinds, TodoMake DEF Ends
<1>5. CASE w = Make5 /\ f = "w"
  <2>1. Tail(w) = Make7 /\ c = Make6
    BY <1>5, Tails
  <2> QED
    BY <1>1, <1>2, <1>5, <2>1, Kinds, TodoMake DEF Ends
<1>6. CASE f \in Ends /\ w = Dropping(f)
  <2>1. Tail(w) = <<>> /\ c = Ending(f)
    BY <1>6, Tails
  <2>2. /\ Todo(w, "release") = {f} /\ Todo(w, "close") = {} /\ ~Writes(w) /\ Owed(w) = 0
        /\ Todo(c, "release") = {} /\ Todo(c, "close") = {f} /\ ~Writes(c) /\ Owed(c) = 0
    BY <1>6, <2>1, Kinds, TodoCall
  <2>3. /\ Todo(<<>>, "release") = {} /\ Todo(<<>>, "close") = {} /\ ~Writes(<<>>) /\ Owed(<<>>) = 0
    BY Kinds, TodoMake
  <2> QED
    BY <1>1, <1>6, <2>1, <2>2, <2>3
<1> QED
  BY <1>3, <1>4, <1>5, <1>6

\* A close at the front is the only one in its list.
LEMMA CloseShape ==
    ASSUME NEW w \in Works, w # <<>>, w[1].op = "close"
    PROVE  /\ w[1].arg \in Ends /\ Todo(w, "close") = {w[1].arg} /\ ~Writes(w)
           /\ Tail(w) \in Works /\ ~Writes(Tail(w)) /\ Owed(Tail(w)) = Owed(w)
           /\ Todo(Tail(w), "release") = Todo(w, "release") /\ Todo(Tail(w), "close") = {}
<1>1. Made \subseteq Works /\ <<>> \in Works /\ {Make4, Make5, Make6, Make7} \subseteq Made
  BY DEF Works, Made
<1>2. \/ w = Make4 /\ w[1].arg = "r"
      \/ w = Make6 /\ w[1].arg = "w"
      \/ w[1].arg \in Ends /\ w = Ending(w[1].arg)
  BY Firsts
<1>3. CASE w = Make4 /\ w[1].arg = "r"
  BY <1>1, <1>3, Tails, Kinds, TodoMake DEF Ends
<1>4. CASE w = Make6 /\ w[1].arg = "w"
  BY <1>1, <1>4, Tails, Kinds, TodoMake DEF Ends
<1>5. CASE w[1].arg \in Ends /\ w = Ending(w[1].arg)
  <2>1. Tail(w) = <<>>
    BY <1>5, Tails
  <2> QED
    BY <1>1, <1>5, <2>1, Kinds, TodoMake, TodoCall, ZenonT(60)
<1> QED
  BY <1>2, <1>3, <1>4, <1>5

\* A call on an end: a step and the release behind it.
LEMMA CallShape ==
    /\ \A w \in Works : w # <<>> /\ w[1].op = "read" =>
         /\ w[1].arg \in ReadLens /\ w = Reading(w[1].arg) /\ Tail(w) = Dropping("r")
         /\ Todo(w, "release") = {"r"} /\ Todo(w, "close") = {} /\ Owed(w) = 0 /\ ~Writes(w)
    /\ \A w \in Works : w # <<>> /\ w[1].op = "write" =>
         /\ w[1].arg \in WriteLens /\ w = Writing(w[1].arg) /\ Tail(w) = Dropping("w")
         /\ Todo(w, "release") = {"w"} /\ Todo(w, "close") = {} /\ Owed(w) = 0 /\ Writes(w)
    /\ \A f \in Ends : /\ Dropping(f) \in Works /\ Owed(Dropping(f)) = 0 /\ ~Writes(Dropping(f))
                       /\ Todo(Dropping(f), "release") = {f} /\ Todo(Dropping(f), "close") = {}
<1>1. \A w \in Works : w # <<>> /\ w[1].op = "read" => w[1].arg \in ReadLens /\ w = Reading(w[1].arg)
  BY Firsts
<1>2. \A w \in Works : w # <<>> /\ w[1].op = "write" => w[1].arg \in WriteLens /\ w = Writing(w[1].arg)
  BY Firsts
<1>3. \A f \in Ends : Dropping(f) \in Works
  BY DEF Works
<1>4. \A n : Tail(Reading(n)) = Dropping("r") /\ Tail(Writing(n)) = Dropping("w")
  BY Tails
<1>5. \A n : /\ Todo(Reading(n), "release") = {"r"} /\ Todo(Reading(n), "close") = {}
             /\ Todo(Writing(n), "release") = {"w"} /\ Todo(Writing(n), "close") = {}
  BY TodoCall
<1>6. \A n : Owed(Reading(n)) = 0 /\ ~Writes(Reading(n)) /\ Owed(Writing(n)) = 0 /\ Writes(Writing(n))
  BY Kinds
<1>7. \A f \in Ends : /\ Owed(Dropping(f)) = 0 /\ ~Writes(Dropping(f))
                         /\ Todo(Dropping(f), "release") = {f} /\ Todo(Dropping(f), "close") = {}
  BY TodoCall, Kinds
<1>8. ASSUME NEW w \in Works, w # <<>>, w[1].op = "read"
      PROVE  /\ w[1].arg \in ReadLens /\ w = Reading(w[1].arg) /\ Tail(w) = Dropping("r")
             /\ Todo(w, "release") = {"r"} /\ Todo(w, "close") = {} /\ Owed(w) = 0 /\ ~Writes(w)
  <2>1. PICK n \in ReadLens : w = Reading(n) /\ n = w[1].arg
    BY <1>1, <1>8
  <2> QED
    BY <1>4, <1>5, <1>6, <2>1, Zenon
<1>9. ASSUME NEW w \in Works, w # <<>>, w[1].op = "write"
      PROVE  /\ w[1].arg \in WriteLens /\ w = Writing(w[1].arg) /\ Tail(w) = Dropping("w")
             /\ Todo(w, "release") = {"w"} /\ Todo(w, "close") = {} /\ Owed(w) = 0 /\ Writes(w)
  <2>1. PICK n \in WriteLens : w = Writing(n) /\ n = w[1].arg
    BY <1>2, <1>9
  <2> QED
    BY <1>4, <1>5, <1>6, <2>1, Zenon
<1> QED
  BY <1>3, <1>7, <1>8, <1>9

-----------------------------------------------------------------------------
(* The inductive invariant.                                                *)

\* Before any call nothing is referenced and nobody is waiting.
LEMMA InitIInv == Init => HeldInv /\ RingInv
<1> SUFFICES ASSUME Init PROVE HeldInv /\ RingInv
  OBVIOUS
<1>0. /\ PROCESS_FDS_MAX \in Nat \ {0} /\ PIPE_CAPACITY \in Nat \ {0} /\ MaxOpens \in Nat
      /\ None \notin {"r", "w", "other"}
  BY PipeAssumption
<1>1. TypeOK
  <2>1. work \in [Threads -> Seq(Steps)] /\ got \in [Threads -> Seq(FDs \cup {-1})] /\ done \in [Threads -> Nat]
    BY DEF Init
  <2>2. fds \in [FDs -> Files \cup {None}] /\ refs \in [Ends -> Nat] /\ life \in {"unmade", "live", "freed"}
    BY DEF Init
  <2>3. /\ buf \in [0 .. PIPE_CAPACITY - 1 -> Bytes \cup {None}]
        /\ {head, tail} \subseteq 0 .. PIPE_CAPACITY - 1
        /\ count \in 0 .. PIPE_CAPACITY
    BY <1>0 DEF Init
  <2>4. /\ {read_ends, write_ends} \subseteq {0, 1} /\ opens \in 0 .. MaxOpens
        /\ readers \subseteq Threads /\ writers \subseteq Threads
        /\ pending \in Seq(Bytes) /\ out \in Seq(Bytes)
    BY <1>0 DEF Init
  <2>5. told \in BOOLEAN
    BY DEF Init
  <2> QED
    BY <2>1, <2>2, <2>3, <2>4, <2>5 DEF TypeOK
<1>2. WorkOK
  <2>1. <<>> \in Works
    BY DEF Works
  <2> QED
    BY <2>1, Kinds DEF WorkOK, Init
<1>3. DoneOK
  BY Kinds DEF DoneOK, Init
<1>4. \A f \in Ends : Named[f] = {} /\ Using[f] = {} /\ Closing[f] = {} /\ refs[f] = 0
  <2>1. \A f \in Ends : f # None /\ \A fd \in FDs : fds[fd] = None
    BY <1>0 DEF Init, Ends
  <2>2. \A t \in Threads : Todo(work[t], "release") = {} /\ Todo(work[t], "close") = {}
    BY TodoMake DEF Init
  <2>3. \A f \in Ends : refs[f] = 0
    BY DEF Init
  <2> QED
    BY <2>1, <2>2, <2>3, Members
<1>5. RefsOK
  BY <1>4, FS_EmptySet DEF RefsOK
<1>6. EndsOK /\ LifeOK
  BY <1>4 DEF EndsOK, LifeOK, Init, Ends
<1>7. SleepersHaveReason /\ ToldOK
  BY DEF SleepersHaveReason, ToldOK, Init
<1>8. RingOK
  <2>1. (0 + 0) % PIPE_CAPACITY = 0
    BY <1>0, Around
  <2> QED
    BY <2>1 DEF RingOK, Init
<1> QED
  BY <1>1, <1>2, <1>3, <1>5, <1>6, <1>7, <1>8 DEF HeldInv, RingInv

\* A thread's list becomes w.
LEMMA WorkMoves ==
    ASSUME TypeOK, WorkOK, DoneOK, NEW t \in Threads, NEW w \in Works,
           work' = [work EXCEPT ![t] = w],
           Len(got'[t]) = Owed(w), \A u \in Threads : u # t => got'[u] = got[u],
           IF Writes(w) THEN done'[t] < w[1].arg ELSE done'[t] = 0,
           \A u \in Threads : u # t => done'[u] = done[u]
    PROVE  work' \in [Threads -> Seq(Steps)] /\ WorkOK' /\ DoneOK'
<1>1. work'[t] = w /\ \A u \in Threads : u # t => work'[u] = work[u]
  BY DEF TypeOK
<1>2. work' \in [Threads -> Seq(Steps)]
  BY Kinds DEF TypeOK
<1>3. WorkOK'
  BY <1>1 DEF WorkOK
<1>4. DoneOK'
  BY <1>1 DEF DoneOK
<1> QED
  BY <1>2, <1>3, <1>4

\* The counts of references all stay.
LEMMA HeldStays ==
    ASSUME RefsOK, EndsOK, LifeOK, UNCHANGED <<refs, read_ends, write_ends, life>>,
           \A f \in Ends : /\ Cardinality(Named'[f]) = Cardinality(Named[f])
                           /\ Cardinality(Using'[f]) = Cardinality(Using[f])
                           /\ Closing'[f] = Closing[f]
    PROVE  RefsOK' /\ EndsOK' /\ LifeOK'
<1>1. RefsOK'
  BY DEF RefsOK
<1>2. EndsOK'
  BY DEF EndsOK, Ends
<1> QED
  BY <1>1, <1>2 DEF LifeOK

\* The ring and the queues stay.
LEMMA RingStays ==
    ASSUME RingInv, UNCHANGED <<ring, readers, writers, history, ends, life>>
    PROVE  RingInv'
BY DEF RingInv, SleepersHaveReason, RingOK, ToldOK, ring, history, ends

\* What an idle thread has.
LEMMA IdleFacts ==
    ASSUME TypeOK, WorkOK, DoneOK, NEW t \in Threads, Idle(t)
    PROVE  /\ work[t] = <<>> /\ Len(got[t]) = 0 /\ done[t] = 0
           /\ Todo(work[t], "release") = {} /\ Todo(work[t], "close") = {}
<1>1. work[t] = <<>>
  BY DEF Idle
<1> QED
  BY <1>1, Kinds, TodoMake DEF WorkOK, DoneOK

\* sys_pipe makes the pipe with a reference to each end, which its call holds.
LEMMA CreateHeld ==
    ASSUME HeldInv, RingInv, NEW t \in Threads, pipe_create(t)
    PROVE  HeldInv' /\ RingInv'
<1>0. TypeOK /\ WorkOK /\ DoneOK /\ RefsOK /\ EndsOK /\ LifeOK
  BY DEF HeldInv
<1>1. /\ Idle(t) /\ life = "unmade" /\ life' = "live" /\ read_ends' = 1 /\ write_ends' = 1
      /\ refs' = [f \in Ends |-> 1] /\ work' = [work EXCEPT ![t] = Make1]
      /\ UNCHANGED <<done, got, fds, ring, readers, writers, opens, history>>
  BY DEF pipe_create, Goes, Make1
<1>2. work[t] = <<>> /\ Len(got[t]) = 0 /\ done[t] = 0
      /\ Todo(work[t], "release") = {} /\ Todo(work[t], "close") = {}
  BY <1>0, <1>1, IdleFacts
<1>3. Make1 \in Works /\ Owed(Make1) = 0 /\ ~Writes(Make1)
  BY Kinds DEF Works
<1>4. work' \in [Threads -> Seq(Steps)] /\ WorkOK' /\ DoneOK'
  BY <1>0, <1>1, <1>2, <1>3, WorkMoves
<1>5. TypeOK'
  BY <1>0, <1>1, <1>4 DEF TypeOK, ring, history
<1>6. \A f \in Ends : refs[f] = 0 /\ Closing[f] = {} /\ Named[f] = {} /\ Using[f] = {}
  <2>1. \A f \in Ends : refs[f] \in Nat /\ (refs[f] > 0 <=> Named[f] # {} \/ Using[f] # {})
    BY <1>0, Referenced
  <2>2. \A f \in Ends : ~(refs[f] > 0) /\ Closing[f] = {}
    BY <1>0, <1>1 DEF LifeOK, EndsOK, Ends
  <2> QED
    BY <2>1, <2>2
<1>7. \A f \in Ends : /\ Cardinality(Using'[f]) = Cardinality(Using[f]) + 1
                      /\ Closing'[f] = {}
  <2>1. ASSUME NEW f \in Ends
        PROVE  Cardinality(Using'[f]) = Cardinality(Using[f]) + 1 /\ Closing'[f] = {}
    <3>1. f \in Todo(Make1, "release") /\ f \notin Todo(Make1, "close")
      BY TodoMake
    <3>2. /\ Closing'[f] = IF f \in Todo(Make1, "close") THEN Closing[f] \cup {t} ELSE Closing[f] \ {t}
          /\ f \in Todo(Make1, "release") /\ f \notin Todo(work[t], "release")
               => Cardinality(Using'[f]) = Cardinality(Using[f]) + 1
      BY <1>0, <1>1, UsingMoves, Zenon
    <3> QED
      BY <1>2, <1>6, <3>1, <3>2
  <2> QED
    BY <2>1
<1>8. Named' = Named
  BY <1>1 DEF Named
<1>9. RefsOK'
  <2>1. Cardinality({}) = 0
    BY FS_EmptySet
  <2>2. \A f \in Ends : Cardinality(Named[f]) = 0 /\ Cardinality(Using[f]) = 0
    BY <1>6, <2>1
  <2> QED
    BY <1>1, <1>7, <1>8, <2>2 DEF RefsOK
<1>10. EndsOK'
  BY <1>1, <1>7 DEF EndsOK, Ends
<1>11. LifeOK'
  BY <1>1 DEF LifeOK
<1>12. RingInv'
  <2>1. SleepersHaveReason'
    BY <1>1 DEF RingInv, SleepersHaveReason, ring
  <2>2. RingOK'
    BY <1>1 DEF RingInv, RingOK, ring, history
  <2>3. ToldOK'
    BY <1>1 DEF RingInv, ToldOK, history
  <2> QED
    BY <2>1, <2>2, <2>3 DEF RingInv
<1> QED
  BY <1>4, <1>5, <1>9, <1>10, <1>11, <1>12 DEF HeldInv

\* sys_read and sys_write take a reference to an end that a descriptor names.
LEMMA CallHeld ==
    ASSUME HeldInv, RingInv, NEW t \in Threads, NEW fd \in FDs, NEW op, NEW n,
           (op = "read" /\ n \in ReadLens) \/ (op = "write" /\ n \in WriteLens),
           Call(t, fd, op, n)
    PROVE  HeldInv' /\ RingInv'
<1> DEFINE f == fds[fd]
<1>0. TypeOK /\ WorkOK /\ DoneOK /\ RefsOK /\ EndsOK /\ LifeOK
  BY DEF HeldInv
<1>1. /\ Idle(t) /\ f \in Ends /\ refs' = [refs EXCEPT ![f] = @ + 1]
      /\ UNCHANGED <<done, got, fds, life, ring, ends, readers, writers, opens, history>>
  BY DEF Call, fd_get
<1>2. PICK w : w \in {Reading(n), Writing(n), Dropping(f)} /\ work' = [work EXCEPT ![t] = w]
              /\ (w = Reading(n) => f = "r" /\ op = "read") /\ (w = Writing(n) => f = "w" /\ op = "write")
  <2>1. work' = [work EXCEPT ![t] = IF (f = "r") = (op = "read")
                   THEN <<Step(op, n), Step("release", f)>> ELSE <<Step("release", f)>>]
    BY DEF Call, Goes
  <2>2. CASE f = "r" /\ op = "read"
    <3>1. work' = [work EXCEPT ![t] = Reading(n)]
      BY <2>1, <2>2 DEF Reading
    <3>2. Reading(n) # Writing(n)
      BY Kinds
    <3> QED
      BY <2>2, <3>1, <3>2
  <2>3. CASE f = "w" /\ op = "write"
    <3>1. work' = [work EXCEPT ![t] = Writing(n)]
      BY <2>1, <2>3 DEF Writing
    <3>2. Reading(n) # Writing(n)
      BY Kinds
    <3> QED
      BY <2>3, <3>1, <3>2
  <2>4. CASE (f = "r") # (op = "read")
    <3>1. work' = [work EXCEPT ![t] = Dropping(f)]
      BY <2>1, <2>4 DEF Dropping
    <3>2. Dropping(f) # Reading(n) /\ Dropping(f) # Writing(n)
      BY DEF Dropping, Reading, Writing
    <3> QED
      BY <3>1, <3>2
  <2> QED
    BY <1>1, <2>2, <2>3, <2>4 DEF Ends
<1>3. work[t] = <<>> /\ Len(got[t]) = 0 /\ done[t] = 0
      /\ Todo(work[t], "release") = {} /\ Todo(work[t], "close") = {}
  BY <1>0, <1>1, IdleFacts
<1>4. /\ w \in Works /\ Owed(w) = 0 /\ (IF Writes(w) THEN 0 < w[1].arg ELSE TRUE)
      /\ Todo(w, "release") = {f} /\ Todo(w, "close") = {}
  <2>1. CASE w = Reading(n)
    <3>1. n \in ReadLens /\ f = "r"
      BY <1>2, <2>1
    <3> QED
      BY <2>1, <3>1, Kinds, TodoCall DEF Works
  <2>2. CASE w = Writing(n)
    <3>1. n \in WriteLens /\ f = "w" /\ 0 < n
      BY <1>2, <2>2, PipeAssumption
    <3>2. w \in Works
      BY <2>2, <3>1 DEF Works
    <3>3. Owed(w) = 0 /\ w[1].arg = n
      BY <2>2, Kinds
    <3>4. Todo(w, "release") = {f} /\ Todo(w, "close") = {}
      BY <2>2, <3>1, TodoCall
    <3> QED
      BY <3>1, <3>2, <3>3, <3>4
  <2>3. CASE w = Dropping(f)
    BY <1>1, <2>3, CallShape
  <2> QED
    BY <1>2, <2>1, <2>2, <2>3
<1>5. work' \in [Threads -> Seq(Steps)] /\ WorkOK' /\ DoneOK'
  BY <1>0, <1>1, <1>2, <1>3, <1>4, WorkMoves
<1> HIDE DEF f
<1>6. TypeOK'
  <2>1. refs' \in [Ends -> Nat]
    BY <1>0, <1>1 DEF TypeOK
  <2> QED
    BY <1>0, <1>1, <1>5, <2>1 DEF TypeOK, ring, history, ends
<1>7. refs'[f] = refs[f] + 1 /\ \A g \in Ends : g # f => refs'[g] = refs[g]
  BY <1>0, <1>1 DEF TypeOK
<1>8. /\ Cardinality(Using'[f]) = Cardinality(Using[f]) + 1
      /\ \A g \in Ends : g # f => Cardinality(Using'[g]) = Cardinality(Using[g])
      /\ \A g \in Ends : Closing'[g] = Closing[g]
  <2>1. \A g \in Ends : t \notin Closing[g]
    BY <1>3, Members
  <2>2. ASSUME NEW g \in Ends
        PROVE  /\ Closing'[g] = IF g \in Todo(w, "close") THEN Closing[g] \cup {t} ELSE Closing[g] \ {t}
               /\ (g \in Todo(w, "release") <=> g \in Todo(work[t], "release"))
                    => Cardinality(Using'[g]) = Cardinality(Using[g])
               /\ g \in Todo(w, "release") /\ g \notin Todo(work[t], "release")
                    => Cardinality(Using'[g]) = Cardinality(Using[g]) + 1
    BY <1>0, <1>2, UsingMoves, Zenon
  <2>3. \A g \in Ends : /\ g \in Todo(w, "release") <=> g = f
                        /\ g \notin Todo(w, "close") /\ g \notin Todo(work[t], "release")
    BY <1>3, <1>4
  <2> HIDE <1>3, <1>4
  <2> QED
    BY <1>1, <2>1, <2>2, <2>3
<1>9. Named' = Named
  BY <1>1 DEF Named
<1>10. refs[f] > 0 /\ refs[f] \in Nat
  <2>1. fd \in Named[f]
    BY <1>1, Members DEF f
  <2> QED
    BY <1>0, <1>1, <2>1, Referenced
<1>11. RefsOK'
  BY <1>0, <1>1, <1>7, <1>8, <1>9, Finite DEF RefsOK
<1>12. EndsOK' /\ LifeOK'
  <2>1. \A g \in Ends : (refs'[g] > 0 <=> refs[g] > 0) /\ (refs'[g] = 0 <=> refs[g] = 0)
    BY <1>7, <1>10
  <2> QED
    BY <1>0, <1>1, <1>8, <2>1 DEF EndsOK, LifeOK, Ends, ends
<1>13. RingInv'
  BY <1>1, RingStays
<1> QED
  BY <1>5, <1>6, <1>11, <1>12, <1>13 DEF HeldInv

\* A list is replaced by one that does the same to the ends.
LEMMA SameTodo ==
    ASSUME TypeOK, NEW t \in Threads, NEW w, work' = [work EXCEPT ![t] = w],
           Todo(w, "release") = Todo(work[t], "release"), Todo(w, "close") = Todo(work[t], "close")
    PROVE  \A f \in Ends : Cardinality(Using'[f]) = Cardinality(Using[f]) /\ Closing'[f] = Closing[f]
<1>1. ASSUME NEW f \in Ends
      PROVE  Cardinality(Using'[f]) = Cardinality(Using[f]) /\ Closing'[f] = Closing[f]
  <2>1. /\ Closing'[f] = IF f \in Todo(w, "close") THEN Closing[f] \cup {t} ELSE Closing[f] \ {t}
        /\ (f \in Todo(w, "release") <=> f \in Todo(work[t], "release"))
             => Cardinality(Using'[f]) = Cardinality(Using[f])
    BY UsingMoves, Zenon
  <2>2. t \in Closing[f] <=> f \in Todo(work[t], "close")
    BY Members
  <2> QED
    BY <2>1, <2>2
<1> QED
  BY <1>1

\* sys_close begins.
LEMMA SysCloseHeld ==
    ASSUME HeldInv, RingInv, NEW t \in Threads, NEW fd \in FDs, sys_close(t, fd)
    PROVE  HeldInv' /\ RingInv'
<1>0. TypeOK /\ WorkOK /\ DoneOK /\ RefsOK /\ EndsOK /\ LifeOK
  BY DEF HeldInv
<1>1. /\ Idle(t) /\ work' = [work EXCEPT ![t] = Giving(fd)]
      /\ UNCHANGED <<done, got, fds, refs, life, ring, ends, readers, writers, opens, history>>
  BY DEF sys_close, Goes, Giving
<1>2. work[t] = <<>> /\ Len(got[t]) = 0 /\ done[t] = 0
      /\ Todo(work[t], "release") = {} /\ Todo(work[t], "close") = {}
  BY <1>0, <1>1, IdleFacts
<1>3. Giving(fd) \in Works
  BY DEF Works
<1>4. /\ Owed(Giving(fd)) = 0 /\ ~Writes(Giving(fd))
      /\ Todo(Giving(fd), "release") = {} /\ Todo(Giving(fd), "close") = {}
  BY Kinds, TodoCall
<1>5. work' \in [Threads -> Seq(Steps)] /\ WorkOK' /\ DoneOK'
  BY <1>0, <1>1, <1>2, <1>3, <1>4, WorkMoves
<1>6. \A f \in Ends : Cardinality(Using'[f]) = Cardinality(Using[f]) /\ Closing'[f] = Closing[f]
  BY <1>0, <1>1, <1>2, <1>4, SameTodo
<1>7. Named' = Named
  BY <1>1 DEF Named
<1>8. TypeOK'
  BY <1>0, <1>1, <1>5 DEF TypeOK, ring, history, ends
<1>9. RefsOK' /\ EndsOK' /\ LifeOK'
  BY <1>0, <1>1, <1>6, <1>7, HeldStays DEF ends
<1>10. RingInv'
  BY <1>1, RingStays
<1> QED
  BY <1>5, <1>8, <1>9, <1>10 DEF HeldInv

\* Another file takes a number that was free.
LEMMA SysOpenHeld ==
    ASSUME HeldInv, RingInv, NEW t \in Threads, sys_open(t)
    PROVE  HeldInv' /\ RingInv'
<1>0. TypeOK /\ WorkOK /\ DoneOK /\ RefsOK /\ EndsOK /\ LifeOK
  BY DEF HeldInv
<1>1. /\ LowestFree # -1 /\ fds' = [fds EXCEPT ![LowestFree] = "other"]
      /\ opens < MaxOpens /\ opens' = opens + 1
      /\ UNCHANGED <<work, done, got, refs, life, ring, ends, readers, writers, history>>
  BY DEF sys_open
<1>2. LowestFree \in FDs /\ fds[LowestFree] = None /\ None \notin Ends
  BY <1>1, LowestIsFree, PipeAssumption DEF Ends
<1>3. TypeOK'
  <2>1. fds' \in [FDs -> Files \cup {None}]
    BY <1>0, <1>1, <1>2 DEF TypeOK, Files
  <2>2. opens' \in 0 .. MaxOpens
    BY <1>0, <1>1, PipeAssumption DEF TypeOK
  <2> QED
    BY <1>0, <1>1, <2>1, <2>2 DEF TypeOK, ring, history, ends
<1>4. WorkOK' /\ DoneOK'
  BY <1>0, <1>1 DEF WorkOK, DoneOK
<1>5. \A f \in Ends : Cardinality(Named'[f]) = Cardinality(Named[f])
  <2>1. \A f \in Ends : f # "other" /\ f # None
    BY <1>2 DEF Ends
  <2>2. ASSUME NEW f \in Ends
        PROVE  ("other" = f <=> fds[LowestFree] = f) => Cardinality(Named'[f]) = Cardinality(Named[f])
    BY <1>0, <1>1, <1>2, NamedMoves, Zenon
  <2> QED
    BY <1>2, <2>1, <2>2
<1>6. Using' = Using /\ Closing' = Closing
  BY <1>1 DEF Using, Closing
<1>7. RefsOK' /\ EndsOK' /\ LifeOK'
  BY <1>0, <1>1, <1>5, <1>6, HeldStays DEF ends
<1>8. RingInv'
  BY <1>1, RingStays
<1> QED
  BY <1>3, <1>4, <1>7, <1>8 DEF HeldInv

\* What a thread that goes on with its list has.
LEMMA DoesFacts ==
    ASSUME TypeOK, WorkOK, DoneOK, NEW t \in Threads, NEW op, Does(t, op)
    PROVE  /\ work[t] \in Works /\ work[t] # <<>> /\ work[t][1].op = op /\ Arg(t) = work[t][1].arg
           /\ Len(got[t]) = Owed(work[t]) /\ (op # "write" => done[t] = 0)
<1>1. work[t] # <<>> /\ work[t][1].op = op
  BY DEF Does, Idle
<1> QED
  BY <1>1 DEF WorkOK, DoneOK, Writes, Arg

\* A descriptor installed has a reference of its own, a refused one has none.
LEMMA InstallHeld ==
    ASSUME HeldInv, RingInv, NEW t \in Threads, fd_install(t)
    PROVE  HeldInv' /\ RingInv'
<1> DEFINE f == Arg(t)
           w == Tail(work[t])
<1>0. TypeOK /\ WorkOK /\ DoneOK /\ RefsOK /\ EndsOK /\ LifeOK
  BY DEF HeldInv
<1>1. /\ got' = [got EXCEPT ![t] = Append(@, LowestFree)] /\ work' = [work EXCEPT ![t] = w]
      /\ UNCHANGED <<done, life, ring, ends, readers, writers, opens, history>>
  BY DEF fd_install, Goes_on, Goes
<1>2. /\ work[t] \in Works /\ work[t] # <<>> /\ work[t][1].op = "install" /\ f = work[t][1].arg
      /\ Len(got[t]) = Owed(work[t]) /\ done[t] = 0
  BY <1>0, DoesFacts DEF fd_install
<1>3. /\ f \in Ends /\ f \in Todo(work[t], "release") /\ w \in Works /\ ~Writes(w)
      /\ Owed(w) = Owed(work[t]) + 1
      /\ Todo(w, "release") = Todo(work[t], "release") /\ Todo(w, "close") = Todo(work[t], "close")
  BY <1>2, InstallShape
<1> HIDE DEF f, w
<1>4. LowestFree \in FDs \cup {-1}
  BY LowestIsFree
<1>5. /\ got' \in [Threads -> Seq(FDs \cup {-1})] /\ Len(got'[t]) = Len(got[t]) + 1
      /\ \A u \in Threads : u # t => got'[u] = got[u]
  BY <1>0, <1>1, <1>4 DEF TypeOK
<1>6. work' \in [Threads -> Seq(Steps)] /\ WorkOK' /\ DoneOK'
  BY <1>0, <1>1, <1>2, <1>3, <1>5, WorkMoves
<1>7. \A g \in Ends : Cardinality(Using'[g]) = Cardinality(Using[g]) /\ Closing'[g] = Closing[g]
  BY <1>0, <1>1, <1>3, SameTodo
<1>8. RingInv'
  BY <1>1, RingStays
<1>9. CASE LowestFree = -1
  <2>1. UNCHANGED <<fds, refs>>
    BY <1>9 DEF fd_install
  <2>2. TypeOK'
    BY <1>0, <1>1, <1>5, <1>6, <2>1 DEF TypeOK, ring, history, ends
  <2>3. Named' = Named
    BY <2>1 DEF Named
  <2>4. RefsOK' /\ EndsOK' /\ LifeOK'
    BY <1>0, <1>1, <1>7, <2>1, <2>3, HeldStays DEF ends
  <2> QED
    BY <1>6, <1>8, <2>2, <2>4 DEF HeldInv
<1>10. CASE LowestFree # -1
  <2>1. fds' = [fds EXCEPT ![LowestFree] = f] /\ refs' = [refs EXCEPT ![f] = @ + 1]
    BY <1>10 DEF fd_install, f
  <2>2. LowestFree \in FDs /\ fds[LowestFree] = None /\ None \notin Ends
    BY <1>10, LowestIsFree, PipeAssumption DEF Ends
  <2>3. refs' \in [Ends -> Nat] /\ refs'[f] = refs[f] + 1 /\ \A g \in Ends : g # f => refs'[g] = refs[g]
    BY <1>0, <1>3, <2>1 DEF TypeOK
  <2>4. TypeOK'
    <3>1. fds' \in [FDs -> Files \cup {None}]
      BY <1>0, <1>3, <2>1, <2>2 DEF TypeOK, Files
    <3> QED
      BY <1>0, <1>1, <1>5, <1>6, <2>3, <3>1 DEF TypeOK, ring, history, ends
  <2>5. /\ Cardinality(Named'[f]) = Cardinality(Named[f]) + 1
        /\ \A g \in Ends : g # f => Cardinality(Named'[g]) = Cardinality(Named[g])
    <3>1. ASSUME NEW g \in Ends
          PROVE  /\ (f = g <=> fds[LowestFree] = g) => Cardinality(Named'[g]) = Cardinality(Named[g])
                 /\ f = g /\ fds[LowestFree] # g => Cardinality(Named'[g]) = Cardinality(Named[g]) + 1
      BY <1>0, <2>1, <2>2, NamedMoves, Zenon
    <3> QED
      BY <1>3, <2>2, <3>1
  <2>6. refs[f] > 0 /\ refs[f] \in Nat
    <3>1. t \in Using[f]
      BY <1>3, Members
    <3> QED
      BY <1>0, <1>3, <3>1, Referenced
  <2>7. RefsOK'
    BY <1>0, <1>3, <1>7, <2>3, <2>5, Finite DEF RefsOK
  <2>8. EndsOK' /\ LifeOK'
    <3>1. \A g \in Ends : (refs'[g] > 0 <=> refs[g] > 0) /\ (refs'[g] = 0 <=> refs[g] = 0)
      BY <2>3, <2>6
    <3> QED
      BY <1>0, <1>1, <1>7, <3>1 DEF EndsOK, LifeOK, Ends, ends
  <2> QED
    BY <1>6, <1>8, <2>4, <2>7, <2>8 DEF HeldInv
<1> QED
  BY <1>9, <1>10

\* Half a pipe gives up the number it got; its reference goes with that.
LEMMA CheckHeld ==
    ASSUME HeldInv, RingInv, NEW t \in Threads, sys_pipe_check(t)
    PROVE  HeldInv' /\ RingInv'
<1> DEFINE a == got[t][1]
           b == got[t][2]
           Half(fd) == IF fd = -1 THEN <<>> ELSE <<Step("fd_close", fd)>>
<1>0. TypeOK /\ WorkOK /\ DoneOK /\ RefsOK /\ EndsOK /\ LifeOK
  BY DEF HeldInv
<1>1. /\ work' = [work EXCEPT ![t] = IF -1 \notin {a, b} THEN <<>> ELSE Half(a) \o Half(b)]
      /\ got' = [got EXCEPT ![t] = <<>>]
      /\ UNCHANGED <<done, fds, refs, life, ring, ends, readers, writers, opens, history>>
  BY DEF sys_pipe_check, Goes
<1>2. /\ work[t] \in Works /\ work[t] # <<>> /\ work[t][1].op = "check"
      /\ Len(got[t]) = Owed(work[t]) /\ done[t] = 0
  BY <1>0, DoesFacts DEF sys_pipe_check
<1>3. work[t] = Make7 /\ Len(got[t]) = 2
  <2>1. work[t] = Make7
    BY <1>2, Firsts
  <2> QED
    BY <1>2, <2>1, Kinds DEF Made
<1>4. a \in FDs \cup {-1} /\ b \in FDs \cup {-1}
  <2>1. got[t] \in Seq(FDs \cup {-1})
    BY <1>0 DEF TypeOK
  <2>2. 1 \in 1 .. Len(got[t]) /\ 2 \in 1 .. Len(got[t])
    BY <1>3
  <2>3. ASSUME NEW S, NEW s \in Seq(S), NEW i \in 1 .. Len(s) PROVE s[i] \in S
    OBVIOUS
  <2> QED
    BY <2>1, <2>2, <2>3
<1>5. PICK w : w \in {<<>>} \cup {Giving(fd) : fd \in FDs} /\ work' = [work EXCEPT ![t] = w]
  <2> HIDE DEF a, b
  <2>1. CASE a # -1 /\ b # -1
    BY <1>1, <2>1
  <2>2. CASE a = -1 /\ b = -1
    <3>1. <<>> \o <<>> = <<>>
      OBVIOUS
    <3> QED
      BY <1>1, <2>2, <3>1
  <2>3. CASE a # -1 /\ b = -1
    <3>1. <<Step("fd_close", a)>> \o <<>> = Giving(a)
      BY DEF Giving
    <3> QED
      BY <1>1, <1>4, <2>3, <3>1
  <2>4. CASE a = -1 /\ b # -1
    <3>1. <<>> \o <<Step("fd_close", b)>> = Giving(b)
      BY DEF Giving
    <3> QED
      BY <1>1, <1>4, <2>4, <3>1
  <2> QED
    BY <2>1, <2>2, <2>3, <2>4
<1>6. /\ w \in Works /\ Owed(w) = 0 /\ ~Writes(w)
      /\ Todo(w, "release") = {} /\ Todo(w, "close") = {}
  <2>1. CASE w = <<>>
    BY <2>1, Kinds, TodoMake DEF Works
  <2>2. CASE \E fd \in FDs : w = Giving(fd)
    <3>1. PICK fd \in FDs : w = Giving(fd)
      BY <2>2
    <3>2. w \in Works
      BY <3>1 DEF Works
    <3> QED
      BY <3>1, <3>2, Kinds, TodoCall
  <2> QED
    BY <1>5, <2>1, <2>2
<1>7. got' \in [Threads -> Seq(FDs \cup {-1})] /\ Len(got'[t]) = 0 /\ \A u \in Threads : u # t => got'[u] = got[u]
  BY <1>0, <1>1 DEF TypeOK
<1>8. work' \in [Threads -> Seq(Steps)] /\ WorkOK' /\ DoneOK'
  <2>1. /\ Len(got'[t]) = Owed(w) /\ \A u \in Threads : u # t => done'[u] = done[u]
        /\ IF Writes(w) THEN done'[t] < w[1].arg ELSE done'[t] = 0
    BY <1>1, <1>2, <1>6, <1>7
  <2> HIDE DEF a, b, Half
  <2> QED
    BY <1>0, <1>5, <1>6, <1>7, <2>1, WorkMoves, Zenon
<1>9. \A f \in Ends : Cardinality(Using'[f]) = Cardinality(Using[f]) /\ Closing'[f] = Closing[f]
  BY <1>0, <1>3, <1>5, <1>6, SameTodo, TodoMake
<1>10. Named' = Named
  BY <1>1 DEF Named
<1>11. TypeOK'
  BY <1>0, <1>1, <1>7, <1>8 DEF TypeOK, ring, history, ends
<1>12. RefsOK' /\ EndsOK' /\ LifeOK'
  BY <1>0, <1>1, <1>9, <1>10, HeldStays DEF ends
<1>13. RingInv'
  BY <1>1, RingStays
<1> QED
  BY <1>8, <1>11, <1>12, <1>13 DEF HeldInv

\* The reference of the number given up passes to the thread that closes it.
LEMMA FdCloseHeld ==
    ASSUME HeldInv, RingInv, NEW t \in Threads, fd_close(t)
    PROVE  HeldInv' /\ RingInv'
<1> DEFINE fd == Arg(t)
           f == fds[fd]
<1>0. TypeOK /\ WorkOK /\ DoneOK /\ RefsOK /\ EndsOK /\ LifeOK
  BY DEF HeldInv
<1>1. /\ work' = [work EXCEPT ![t] = IF f \in Ends THEN <<Step("release", f)>> \o Tail(work[t]) ELSE Tail(work[t])]
      /\ fds' = [fds EXCEPT ![fd] = None]
      /\ UNCHANGED <<done, got, refs, life, ring, ends, readers, writers, opens, history>>
  BY DEF fd_close, Goes
<1>2. /\ work[t] \in Works /\ work[t] # <<>> /\ work[t][1].op = "fd_close" /\ fd = work[t][1].arg
      /\ Len(got[t]) = Owed(work[t]) /\ done[t] = 0
  BY <1>0, DoesFacts DEF fd_close
<1>3. fd \in FDs /\ work[t] = Giving(fd) /\ Tail(work[t]) = <<>>
  BY <1>2, Firsts, Tails
<1>4. Len(got[t]) = 0 /\ Todo(work[t], "release") = {} /\ Todo(work[t], "close") = {}
  BY <1>2, <1>3, Kinds, TodoCall
<1> HIDE DEF fd
<1>5. None \notin Ends
  BY PipeAssumption DEF Ends
<1>6. fds' \in [FDs -> Files \cup {None}]
  BY <1>0, <1>1, <1>3 DEF TypeOK
<1>7. RingInv'
  BY <1>1, RingStays
<1>n. \A g \in Ends : /\ (None = g <=> f = g) => Cardinality(Named'[g]) = Cardinality(Named[g])
                      /\ None # g /\ f = g => Cardinality(Named'[g]) = Cardinality(Named[g]) - 1
  BY <1>0, <1>1, <1>3, NamedMoves, Zenon
<1>8. CASE f \notin Ends
  <2>1. work' = [work EXCEPT ![t] = <<>>]
    BY <1>1, <1>3, <1>8
  <2>2. <<>> \in Works /\ Owed(<<>>) = 0 /\ ~Writes(<<>>)
        /\ Todo(<<>>, "release") = {} /\ Todo(<<>>, "close") = {}
    BY Kinds, TodoMake DEF Works
  <2>3. work' \in [Threads -> Seq(Steps)] /\ WorkOK' /\ DoneOK'
    BY <1>0, <1>1, <1>2, <1>4, <2>1, <2>2, WorkMoves
  <2>4. \A g \in Ends : Cardinality(Using'[g]) = Cardinality(Using[g]) /\ Closing'[g] = Closing[g]
    BY <1>0, <1>4, <2>1, <2>2, SameTodo
  <2>5. \A g \in Ends : Cardinality(Named'[g]) = Cardinality(Named[g])
    BY <1>5, <1>8, <1>n
  <2>6. TypeOK'
    BY <1>0, <1>1, <1>6, <2>3 DEF TypeOK, ring, history, ends
  <2>7. RefsOK' /\ EndsOK' /\ LifeOK'
    BY <1>0, <1>1, <2>4, <2>5, HeldStays DEF ends
  <2> QED
    BY <1>7, <2>3, <2>6, <2>7 DEF HeldInv
<1>9. CASE f \in Ends
  <2>1. work' = [work EXCEPT ![t] = Dropping(f)]
    <3>1. <<Step("release", f)>> \o <<>> = Dropping(f)
      BY Tails
    <3> QED
      BY <1>1, <1>3, <1>9, <3>1
  <2>2. /\ Dropping(f) \in Works /\ Owed(Dropping(f)) = 0 /\ ~Writes(Dropping(f))
        /\ Todo(Dropping(f), "release") = {f} /\ Todo(Dropping(f), "close") = {}
    BY <1>9, CallShape
  <2>3. work' \in [Threads -> Seq(Steps)] /\ WorkOK' /\ DoneOK'
    BY <1>0, <1>1, <1>2, <1>4, <2>1, <2>2, WorkMoves
  <2>4. TypeOK'
    BY <1>0, <1>1, <1>6, <2>3 DEF TypeOK, ring, history, ends
  <2>5. /\ Cardinality(Using'[f]) = Cardinality(Using[f]) + 1
        /\ \A g \in Ends : g # f => Cardinality(Using'[g]) = Cardinality(Using[g])
        /\ \A g \in Ends : Closing'[g] = Closing[g]
    <3>1. \A g \in Ends : t \notin Closing[g]
      BY <1>4, Members
    <3>2. ASSUME NEW g \in Ends
          PROVE  /\ Closing'[g] = IF g \in Todo(Dropping(f), "close") THEN Closing[g] \cup {t} ELSE Closing[g] \ {t}
                 /\ (g \in Todo(Dropping(f), "release") <=> g \in Todo(work[t], "release"))
                      => Cardinality(Using'[g]) = Cardinality(Using[g])
                 /\ g \in Todo(Dropping(f), "release") /\ g \notin Todo(work[t], "release")
                      => Cardinality(Using'[g]) = Cardinality(Using[g]) + 1
      BY <1>0, <2>1, UsingMoves, Zenon
    <3>3. \A g \in Ends : /\ g \in Todo(Dropping(f), "release") <=> g = f
                          /\ g \notin Todo(Dropping(f), "close") /\ g \notin Todo(work[t], "release")
      BY <1>4, <2>2
    <3> HIDE DEF f
    <3> QED
      BY <1>9, <3>1, <3>2, <3>3
  <2>6. /\ Cardinality(Named'[f]) = Cardinality(Named[f]) - 1
        /\ \A g \in Ends : g # f => Cardinality(Named'[g]) = Cardinality(Named[g])
    BY <1>5, <1>9, <1>n
  <2> HIDE DEF f
  <2>7. RefsOK'
    BY <1>0, <1>1, <1>9, <2>5, <2>6, Finite DEF RefsOK
  <2>8. EndsOK' /\ LifeOK'
    BY <1>0, <1>1, <2>5 DEF EndsOK, LifeOK, Ends, ends
  <2> QED
    BY <1>7, <2>3, <2>4, <2>7, <2>8 DEF HeldInv
<1> QED
  BY <1>8, <1>9

\* Who drops the last reference has the end to close, and is alone in that.
LEMMA ReleaseHeld ==
    ASSUME HeldInv, RingInv, NEW t \in Threads, file_release(t)
    PROVE  HeldInv' /\ RingInv'
<1> DEFINE f == Arg(t)
           c == <<Step("close", f)>> \o Tail(work[t])
           w == IF refs[f] = 1 THEN c ELSE Tail(work[t])
<1>0. TypeOK /\ WorkOK /\ DoneOK /\ RefsOK /\ EndsOK /\ LifeOK
  BY DEF HeldInv
<1>1. /\ refs' = [refs EXCEPT ![f] = @ - 1] /\ work' = [work EXCEPT ![t] = w]
      /\ UNCHANGED <<done, got, fds, life, ring, ends, readers, writers, opens, history>>
  BY DEF file_release, Goes
<1>2. /\ work[t] \in Works /\ work[t] # <<>> /\ work[t][1].op = "release" /\ f = work[t][1].arg
      /\ Len(got[t]) = Owed(work[t]) /\ done[t] = 0
  BY <1>0, DoesFacts DEF file_release
<1>3. /\ f \in Ends /\ f \in Todo(work[t], "release") /\ Todo(work[t], "close") = {}
      /\ w \in Works /\ ~Writes(w) /\ Owed(w) = Owed(work[t])
      /\ Todo(w, "release") = Todo(work[t], "release") \ {f}
      /\ Todo(w, "close") = IF refs[f] = 1 THEN {f} ELSE {}
  <2> HIDE DEF f
  <2>1. /\ f \in Ends /\ f \in Todo(work[t], "release") /\ Todo(work[t], "close") = {}
        /\ Tail(work[t]) \in Works /\ ~Writes(Tail(work[t])) /\ Owed(Tail(work[t])) = Owed(work[t])
        /\ Todo(Tail(work[t]), "release") = Todo(work[t], "release") \ {f} /\ Todo(Tail(work[t]), "close") = {}
        /\ c \in Works /\ ~Writes(c) /\ Owed(c) = Owed(work[t])
        /\ Todo(c, "release") = Todo(work[t], "release") \ {f} /\ Todo(c, "close") = {f}
    BY <1>2, ReleaseShape, Zenon
  <2> HIDE DEF c
  <2> QED
    BY <2>1
<1> HIDE DEF f, c, w
<1>4. work' \in [Threads -> Seq(Steps)] /\ WorkOK' /\ DoneOK'
  BY <1>0, <1>1, <1>2, <1>3, WorkMoves
<1>5. refs[f] > 0 /\ refs[f] \in Nat
  <2>1. t \in Using[f]
    BY <1>3, Members
  <2> QED
    BY <1>0, <1>3, <2>1, Referenced
<1>6. /\ refs' \in [Ends -> Nat] /\ refs'[f] = refs[f] - 1
      /\ \A g \in Ends : g # f => refs'[g] = refs[g]
  BY <1>0, <1>1, <1>3, <1>5 DEF TypeOK
<1>7. TypeOK'
  BY <1>0, <1>1, <1>4, <1>6 DEF TypeOK, ring, history, ends
<1>8. /\ Cardinality(Using'[f]) = Cardinality(Using[f]) - 1
      /\ \A g \in Ends : g # f => Cardinality(Using'[g]) = Cardinality(Using[g]) /\ Closing'[g] = Closing[g]
      /\ Closing'[f] = IF refs[f] = 1 THEN {t} ELSE {}
  <2>1. \A g \in Ends : t \notin Closing[g]
    BY <1>3, Members
  <2>2. ASSUME NEW g \in Ends
        PROVE  /\ Closing'[g] = IF g \in Todo(w, "close") THEN Closing[g] \cup {t} ELSE Closing[g] \ {t}
               /\ (g \in Todo(w, "release") <=> g \in Todo(work[t], "release"))
                    => Cardinality(Using'[g]) = Cardinality(Using[g])
               /\ g \notin Todo(w, "release") /\ g \in Todo(work[t], "release")
                    => Cardinality(Using'[g]) = Cardinality(Using[g]) - 1
    BY <1>0, <1>1, UsingMoves, Zenon
  <2>3. Closing[f] = {}
    BY <1>0, <1>3, <1>5 DEF EndsOK
  <2>4. f \notin Todo(w, "release") /\ (f \in Todo(w, "close") <=> refs[f] = 1)
    BY <1>3
  <2>5. \A g \in Ends : g # f => /\ g \in Todo(w, "release") <=> g \in Todo(work[t], "release")
                                 /\ g \notin Todo(w, "close")
    BY <1>3
  <2>6. Cardinality(Using'[f]) = Cardinality(Using[f]) - 1
    BY <1>3, <2>2, <2>4
  <2>7. Closing'[f] = IF refs[f] = 1 THEN {t} ELSE {}
    BY <1>3, <2>2, <2>3, <2>4
  <2>8. ASSUME NEW g \in Ends, g # f
        PROVE  Cardinality(Using'[g]) = Cardinality(Using[g]) /\ Closing'[g] = Closing[g]
    BY <2>1, <2>2, <2>5, <2>8
  <2> QED
    BY <2>6, <2>7, <2>8
<1>9. Named' = Named
  BY <1>1 DEF Named
<1>10. RefsOK'
  <2>1. ASSUME NEW g \in Ends
        PROVE  refs'[g] = Cardinality(Named'[g]) + Cardinality(Using'[g])
    <3>1. refs[g] = Cardinality(Named[g]) + Cardinality(Using[g]) /\ Cardinality(Named'[g]) = Cardinality(Named[g])
      BY <1>0, <1>9 DEF RefsOK
    <3>2. Cardinality(Named[g]) \in Nat /\ Cardinality(Using[g]) \in Nat
      BY Finite
    <3>3. CASE g = f
      BY <1>6, <1>8, <3>1, <3>2, <3>3
    <3>4. CASE g # f
      BY <1>6, <1>8, <3>1, <3>2, <3>4
    <3> QED
      BY <3>3, <3>4
  <2> QED
    BY <2>1 DEF RefsOK
<1>11. EndsOK' /\ LifeOK'
  <2>1. \A g \in Ends : (refs'[g] > 0 \/ Closing'[g] # {} <=> refs[g] > 0 \/ Closing[g] # {})
    <3>1. refs'[f] > 0 \/ Closing'[f] # {}
      BY <1>5, <1>6, <1>8
    <3>2. \A g \in Ends : g # f => refs'[g] = refs[g] /\ Closing'[g] = Closing[g]
      BY <1>6, <1>8
    <3> QED
      BY <1>5, <3>1, <3>2
  <2>2. \A g \in Ends : Closing'[g] # {} => refs'[g] = 0
    BY <1>0, <1>3, <1>5, <1>6, <1>8 DEF EndsOK
  <2>3. \A g \in Ends : \A x, y \in Closing'[g] : x = y
    BY <1>0, <1>3, <1>8 DEF EndsOK
  <2> QED
    BY <1>0, <1>1, <2>1, <2>2, <2>3 DEF EndsOK, LifeOK, Ends, ends
<1>12. RingInv'
  BY <1>1, RingStays
<1> QED
  BY <1>4, <1>7, <1>10, <1>11, <1>12 DEF HeldInv

\* A close takes its step off the list: nobody else is closing the end, and
\* nobody has a reference to it.
LEMMA CloseFacts ==
    ASSUME TypeOK, WorkOK, DoneOK, RefsOK, EndsOK, NEW t \in Threads, NEW f \in Ends,
           Does(t, "close"), Arg(t) = f, Goes_on(t), UNCHANGED <<done, got, fds, refs>>
    PROVE  /\ work' \in [Threads -> Seq(Steps)] /\ WorkOK' /\ DoneOK' /\ RefsOK'
           /\ refs[f] = 0 /\ Closing[f] # {} /\ Closing'[f] = {}
           /\ \A g \in Ends : g # f => Closing'[g] = Closing[g]
<1> DEFINE w == Tail(work[t])
<1>1. work' = [work EXCEPT ![t] = w]
  BY DEF Goes_on, Goes
<1>2. /\ work[t] \in Works /\ work[t] # <<>> /\ work[t][1].op = "close" /\ f = work[t][1].arg
      /\ Len(got[t]) = Owed(work[t]) /\ done[t] = 0
  BY DoesFacts
<1>3. /\ Todo(work[t], "close") = {f} /\ ~Writes(work[t])
      /\ w \in Works /\ ~Writes(w) /\ Owed(w) = Owed(work[t])
      /\ Todo(w, "release") = Todo(work[t], "release") /\ Todo(w, "close") = {}
  BY <1>2, CloseShape
<1> HIDE DEF w
<1>4. work' \in [Threads -> Seq(Steps)] /\ WorkOK' /\ DoneOK'
  BY <1>1, <1>2, <1>3, WorkMoves
<1>5. t \in Closing[f] /\ \A g \in Ends : g # f => t \notin Closing[g]
  BY <1>3, Members
<1>6. refs[f] = 0 /\ Closing[f] = {t}
  BY <1>5 DEF EndsOK
<1>7. \A g \in Ends : /\ Closing'[g] = Closing[g] \ {t}
                      /\ Cardinality(Using'[g]) = Cardinality(Using[g])
  <2>1. ASSUME NEW g \in Ends
        PROVE  /\ Closing'[g] = IF g \in Todo(w, "close") THEN Closing[g] \cup {t} ELSE Closing[g] \ {t}
               /\ (g \in Todo(w, "release") <=> g \in Todo(work[t], "release"))
                    => Cardinality(Using'[g]) = Cardinality(Using[g])
    BY <1>1, UsingMoves, Zenon
  <2> QED
    BY <1>3, <2>1
<1>8. Named' = Named
  BY DEF Named
<1>9. RefsOK'
  BY <1>7, <1>8 DEF RefsOK
<1>10. Closing[f] # {} /\ Closing'[f] = {}
  BY <1>6, <1>7
<1>11. \A g \in Ends : g # f => Closing'[g] = Closing[g]
  BY <1>5, <1>7
<1> QED
  BY <1>4, <1>6, <1>9, <1>10, <1>11

\* Its last reader gone, the pipe wakes the writers and may be freed.
LEMMA CloseReadHeld ==
    ASSUME HeldInv, RingInv, NEW t \in Threads, pipe_close_read(t)
    PROVE  HeldInv' /\ RingInv' /\ life # "unmade" /\ life' # "unmade"
<1>0. TypeOK /\ WorkOK /\ DoneOK /\ RefsOK /\ EndsOK /\ LifeOK /\ "r" \in Ends
  BY DEF HeldInv, Ends
<1>1. /\ Does(t, "close") /\ Arg(t) = "r" /\ Goes_on(t) /\ writers' = {}
      /\ read_ends' = (IF read_ends > 0 THEN read_ends - 1 ELSE 0)
      /\ life' = IF read_ends' + write_ends = 0 THEN "freed" ELSE life
      /\ UNCHANGED <<done, got, fds, refs, ring, write_ends, readers, opens, history>>
  BY DEF pipe_close_read, pipe_maybe_free
<1>2. /\ work' \in [Threads -> Seq(Steps)] /\ WorkOK' /\ DoneOK' /\ RefsOK'
      /\ refs["r"] = 0 /\ Closing["r"] # {} /\ Closing'["r"] = {} /\ Closing'["w"] = Closing["w"]
  <2>1. /\ work' \in [Threads -> Seq(Steps)] /\ WorkOK' /\ DoneOK' /\ RefsOK'
        /\ refs["r"] = 0 /\ Closing["r"] # {} /\ Closing'["r"] = {}
        /\ \A g \in Ends : g # "r" => Closing'[g] = Closing[g]
    BY <1>0, <1>1, CloseFacts
  <2> QED
    BY <2>1 DEF Ends
<1>3. read_ends = 1 /\ read_ends' = 0 /\ life = "live" /\ write_ends \in {0, 1}
  BY <1>0, <1>1, <1>2 DEF EndsOK, LifeOK, TypeOK
<1>4. life' = IF write_ends = 1 THEN "live" ELSE "freed"
  BY <1>1, <1>3
<1>5. TypeOK'
  BY <1>0, <1>1, <1>2, <1>3, <1>4 DEF TypeOK, ring, history
<1>6. EndsOK'
  BY <1>0, <1>1, <1>2, <1>3 DEF EndsOK, Ends
<1>7. LifeOK'
  BY <1>1, <1>3, <1>4 DEF LifeOK
<1>8. RingInv'
  <2>1. SleepersHaveReason'
    BY <1>1 DEF RingInv, SleepersHaveReason, ring
  <2>2. RingOK'
    BY <1>1 DEF RingInv, RingOK, ring, history
  <2>3. ToldOK'
    BY <1>1, <1>4 DEF RingInv, ToldOK, ring, history
  <2> QED
    BY <2>1, <2>2, <2>3 DEF RingInv
<1> QED
  BY <1>2, <1>3, <1>4, <1>5, <1>6, <1>7, <1>8 DEF HeldInv

\* Its last writer gone, the pipe wakes the readers and may be freed.
LEMMA CloseWriteHeld ==
    ASSUME HeldInv, RingInv, NEW t \in Threads, pipe_close_write(t)
    PROVE  /\ HeldInv' /\ RingInv'
           /\ life # "unmade" /\ life' # "unmade" /\ write_ends = 1 /\ write_ends' = 0
<1>0. TypeOK /\ WorkOK /\ DoneOK /\ RefsOK /\ EndsOK /\ LifeOK /\ "w" \in Ends
  BY DEF HeldInv, Ends
<1>1. /\ Does(t, "close") /\ Arg(t) = "w" /\ Goes_on(t) /\ readers' = {}
      /\ write_ends' = (IF write_ends > 0 THEN write_ends - 1 ELSE 0)
      /\ life' = IF read_ends + write_ends' = 0 THEN "freed" ELSE life
      /\ UNCHANGED <<done, got, fds, refs, ring, read_ends, writers, opens, history>>
  BY DEF pipe_close_write, pipe_maybe_free
<1>2. /\ work' \in [Threads -> Seq(Steps)] /\ WorkOK' /\ DoneOK' /\ RefsOK'
      /\ refs["w"] = 0 /\ Closing["w"] # {} /\ Closing'["w"] = {} /\ Closing'["r"] = Closing["r"]
  <2>1. /\ work' \in [Threads -> Seq(Steps)] /\ WorkOK' /\ DoneOK' /\ RefsOK'
        /\ refs["w"] = 0 /\ Closing["w"] # {} /\ Closing'["w"] = {}
        /\ \A g \in Ends : g # "w" => Closing'[g] = Closing[g]
    BY <1>0, <1>1, CloseFacts
  <2> QED
    BY <2>1 DEF Ends
<1>3. write_ends = 1 /\ write_ends' = 0 /\ life = "live" /\ read_ends \in {0, 1}
  BY <1>0, <1>1, <1>2 DEF EndsOK, LifeOK, TypeOK
<1>4. life' = IF read_ends = 1 THEN "live" ELSE "freed"
  BY <1>1, <1>3
<1>5. TypeOK'
  BY <1>0, <1>1, <1>2, <1>3, <1>4 DEF TypeOK, ring, history
<1>6. EndsOK'
  BY <1>0, <1>1, <1>2, <1>3 DEF EndsOK, Ends
<1>7. LifeOK'
  BY <1>1, <1>3, <1>4 DEF LifeOK
<1>8. RingInv'
  <2>1. SleepersHaveReason'
    BY <1>1 DEF RingInv, SleepersHaveReason, ring
  <2>2. RingOK'
    BY <1>1 DEF RingInv, RingOK, ring, history
  <2>3. ToldOK'
    BY <1>1, <1>4 DEF RingInv, ToldOK, ring, history
  <2> QED
    BY <2>1, <2>2, <2>3 DEF RingInv
<1> QED
  BY <1>2, <1>3, <1>4, <1>5, <1>6, <1>7, <1>8 DEF HeldInv

-----------------------------------------------------------------------------
(* The ring.                                                               *)

\* A place that far behind the head.
Place(i) == IF head + i < PIPE_CAPACITY THEN head + i ELSE head + i - PIPE_CAPACITY

\* Places are what the code's remainders are, and each has its own offset.
LEMMA Turns ==
    ASSUME TypeOK, NEW i \in 0 .. PIPE_CAPACITY
    PROVE  /\ (head + i) % PIPE_CAPACITY = Place(i) /\ Place(i) \in 0 .. PIPE_CAPACITY - 1
           /\ i < PIPE_CAPACITY => (Place(i) - head) % PIPE_CAPACITY = i
<1>1. PIPE_CAPACITY \in Nat \ {0} /\ head \in 0 .. PIPE_CAPACITY - 1
  BY PipeAssumption DEF TypeOK
<1>2. (head + i) % PIPE_CAPACITY = Place(i)
  <2> DEFINE x == head + i
  <2>1. x \in Int /\ -PIPE_CAPACITY <= x /\ x < 2 * PIPE_CAPACITY /\ ~(x < 0)
    BY <1>1
  <2>2. Place(i) = IF x < PIPE_CAPACITY THEN x ELSE x - PIPE_CAPACITY
    BY <1>1 DEF Place
  <2> HIDE DEF x
  <2>3. x % PIPE_CAPACITY = IF x < 0 THEN x + PIPE_CAPACITY ELSE IF x < PIPE_CAPACITY THEN x ELSE x - PIPE_CAPACITY
    BY <1>1, <2>1, Around
  <2>4. x % PIPE_CAPACITY = Place(i)
    BY <2>1, <2>2, <2>3
  <2> QED
    BY <2>4 DEF x
<1>3. Place(i) \in 0 .. PIPE_CAPACITY - 1
  BY <1>1 DEF Place
<1>4. ASSUME i < PIPE_CAPACITY PROVE (Place(i) - head) % PIPE_CAPACITY = i
  <2> DEFINE x == Place(i) - head
  <2>1. x \in Int /\ -PIPE_CAPACITY <= x /\ x < 2 * PIPE_CAPACITY /\ x \in {i, i - PIPE_CAPACITY}
    BY <1>1, <1>4 DEF Place
  <2> HIDE DEF x
  <2>2. x % PIPE_CAPACITY = IF x < 0 THEN x + PIPE_CAPACITY ELSE IF x < PIPE_CAPACITY THEN x ELSE x - PIPE_CAPACITY
    BY <1>1, <2>1, Around
  <2>3. x % PIPE_CAPACITY = i
    BY <1>1, <1>4, <2>1, <2>2
  <2> QED
    BY <2>3 DEF x
<1> QED
  BY <1>2, <1>3, <1>4

\* What the ring holds is told by places.
LEMMA RingByPlace ==
    ASSUME TypeOK
    PROVE  RingOK <=> /\ Len(pending) = count /\ tail = Place(count)
                      /\ \A i \in 1 .. count : pending[i] = buf[Place(i - 1)]
<1>1. count \in 0 .. PIPE_CAPACITY /\ PIPE_CAPACITY \in Nat \ {0} /\ head \in 0 .. PIPE_CAPACITY - 1
  BY PipeAssumption DEF TypeOK
<1>2. (head + count) % PIPE_CAPACITY = Place(count)
  BY <1>1, Turns
<1>3. \A i \in 1 .. count : (head + i - 1) % PIPE_CAPACITY = Place(i - 1)
  <2>1. ASSUME NEW i \in 1 .. count PROVE (head + i - 1) % PIPE_CAPACITY = Place(i - 1)
    <3>1. i - 1 \in 0 .. PIPE_CAPACITY /\ head + (i - 1) = head + i - 1
      BY <1>1
    <3>2. (head + (i - 1)) % PIPE_CAPACITY = Place(i - 1)
      BY <3>1, Turns
    <3> QED
      BY <3>1, <3>2
  <2> QED
    BY <2>1
<1> QED
  BY <1>2, <1>3 DEF RingOK

\* Taking n bytes hands over the oldest n, and the ring holds the rest.
LEMMA Taken ==
    ASSUME TypeOK, RingOK, NEW n \in 1 .. count,
           out' = ring_take(n), pending' = SubSeq(pending, n + 1, Len(pending)),
           buf' = Cleared(n), head' = (head + n) % PIPE_CAPACITY, count' = count - n, tail' = tail
    PROVE  /\ pending = out' \o pending' /\ out' # <<>>
           /\ out' \in Seq(Bytes) /\ pending' \in Seq(Bytes)
           /\ buf' \in [0 .. PIPE_CAPACITY - 1 -> Bytes \cup {None}]
           /\ head' \in 0 .. PIPE_CAPACITY - 1 /\ count' \in 0 .. PIPE_CAPACITY
           /\ Len(pending') = count' /\ tail' = (head' + count') % PIPE_CAPACITY
           /\ \A i \in 1 .. count' : pending'[i] = buf'[(head' + i - 1) % PIPE_CAPACITY]
<1>0. n \in Nat /\ n > 0 /\ n <= count /\ count \in Nat
  BY DEF TypeOK
<1>1. /\ PIPE_CAPACITY \in Nat \ {0} /\ head \in 0 .. PIPE_CAPACITY - 1 /\ count \in 0 .. PIPE_CAPACITY
      /\ buf \in [0 .. PIPE_CAPACITY - 1 -> Bytes \cup {None}] /\ pending \in Seq(Bytes)
  BY PipeAssumption DEF TypeOK
<1>2. /\ Len(pending) = count /\ tail = Place(count)
      /\ \A i \in 1 .. count : pending[i] = buf[Place(i - 1)]
  BY RingByPlace
<1>3. \A i \in 1 .. n : ring_take(n)[i] = pending[i]
  <2>1. ASSUME NEW i \in 1 .. n PROVE ring_take(n)[i] = pending[i]
    <3>1. i \in 1 .. count /\ i - 1 \in 0 .. PIPE_CAPACITY /\ head + (i - 1) = head + i - 1
      BY <1>1
    <3>2. (head + (i - 1)) % PIPE_CAPACITY = Place(i - 1)
      BY <3>1, Turns
    <3>3. ring_take(n)[i] = buf[(head + i - 1) % PIPE_CAPACITY]
      BY DEF ring_take
    <3> QED
      BY <1>2, <3>1, <3>2, <3>3
  <2> QED
    BY <2>1
<1>4. out' \in Seq(Bytes) /\ Len(out') = n
  <2>1. \A i \in 1 .. n : pending[i] \in Bytes
    BY <1>1, <1>2
  <2>2. \A i \in 1 .. n : buf[(head + i - 1) % PIPE_CAPACITY] \in Bytes
    BY <1>3, <2>1 DEF ring_take
  <2>3. n \in Nat
    BY <1>1
  <2>4. out' = [i \in 1 .. n |-> buf[(head + i - 1) % PIPE_CAPACITY]]
    BY DEF ring_take
  <2>5. out' \in [1 .. n -> Bytes]
    BY <2>2, <2>4
  <2> QED
    BY <2>3, <2>5
<1>5. pending' \in Seq(Bytes) /\ Len(pending') = count - n /\ \A i \in 1 .. count - n : pending'[i] = pending[n + i]
  BY <1>1, <1>2
<1>6. pending = out' \o pending'
  <2> DEFINE x == out' \o pending'
  <2>1. \A i \in 1 .. n : out'[i] = pending[i]
    BY <1>3
  <2>2. x \in Seq(Bytes) /\ Len(x) = count
    <3>1. x \in Seq(Bytes) /\ Len(x) = Len(out') + Len(pending')
      BY <1>4, <1>5, ConcatProperties
    <3>2. n + (count - n) = count
      BY <1>0
    <3> QED
      BY <1>4, <1>5, <3>1, <3>2
  <2>3. \A i \in 1 .. count : x[i] = pending[i]
    <3>1. ASSUME NEW i \in 1 .. count PROVE x[i] = pending[i]
      <4>1. CASE i <= n
        BY <1>4, <1>5, <2>1, <4>1
      <4>2. CASE i > n
        <5>1. x[i] = pending'[i - n]
          BY <1>1, <1>4, <1>5, <4>2
        <5>2. i - n \in 1 .. count - n /\ n + (i - n) = i
          BY <1>1, <4>2
        <5> QED
          BY <1>5, <5>1, <5>2
      <4>3. i \in Nat /\ (i <= n \/ i > n)
        BY <1>0
      <4> QED
        BY <4>1, <4>2, <4>3
    <3> QED
      BY <3>1
  <2> HIDE DEF x
  <2>4. x = pending
    BY <1>1, <1>2, <2>2, <2>3
  <2> QED
    BY <2>4 DEF x
<1>7. head' = Place(n) /\ head' \in 0 .. PIPE_CAPACITY - 1 /\ count' \in 0 .. PIPE_CAPACITY
  <2>1. n \in 0 .. PIPE_CAPACITY /\ count - n \in 0 .. PIPE_CAPACITY
    BY <1>0, <1>1
  <2> QED
    BY <2>1, Turns
<1>8. buf' \in [0 .. PIPE_CAPACITY - 1 -> Bytes \cup {None}]
  BY <1>1 DEF Cleared
<1>9. ASSUME NEW i \in 0 .. count - n
      PROVE  (head' + i) % PIPE_CAPACITY = Place(n + i)
  <2> DEFINE x == head' + i
  <2>1. /\ x \in Int /\ 0 <= x /\ -PIPE_CAPACITY <= x /\ x < 2 * PIPE_CAPACITY
        /\ x = Place(n) + i
    BY <1>0, <1>1, <1>7
  <2> HIDE DEF x
  <2>2. x % PIPE_CAPACITY = IF x < 0 THEN x + PIPE_CAPACITY ELSE IF x < PIPE_CAPACITY THEN x ELSE x - PIPE_CAPACITY
    BY <1>1, <2>1, Around
  <2>3. Place(n + i) = IF x < PIPE_CAPACITY THEN x ELSE x - PIPE_CAPACITY
    <3>1. /\ Place(n) = IF head + n < PIPE_CAPACITY THEN head + n ELSE head + n - PIPE_CAPACITY
          /\ Place(n + i) = IF head + (n + i) < PIPE_CAPACITY THEN head + (n + i) ELSE head + (n + i) - PIPE_CAPACITY
      BY DEF Place
    <3> HIDE DEF Place
    <3> QED
      BY <1>0, <1>1, <2>1, <3>1
  <2>4. x % PIPE_CAPACITY = Place(n + i)
    BY <1>1, <2>1, <2>2, <2>3
  <2> QED
    BY <2>4 DEF x
<1>10. tail' = (head' + count') % PIPE_CAPACITY
  <2>1. count - n \in 0 .. count - n /\ n + (count - n) = count
    BY <1>1
  <2>2. (head' + (count - n)) % PIPE_CAPACITY = Place(n + (count - n))
    BY <1>9, <2>1
  <2> QED
    BY <1>2, <2>1, <2>2
<1>11. ASSUME NEW i \in 1 .. count - n
       PROVE  pending'[i] = buf'[(head' + i - 1) % PIPE_CAPACITY]
  <2> DEFINE k == n + i - 1
  <2>1. /\ i - 1 \in 0 .. count - n /\ head' + (i - 1) = head' + i - 1 /\ n + (i - 1) = k
        /\ k \in 0 .. PIPE_CAPACITY /\ k < PIPE_CAPACITY /\ n <= k
    BY <1>1, <1>7
  <2>2. (head' + i - 1) % PIPE_CAPACITY = Place(k)
    BY <1>9, <2>1
  <2> HIDE DEF k
  <2>3. Place(k) \in 0 .. PIPE_CAPACITY - 1 /\ (Place(k) - head) % PIPE_CAPACITY = k
    BY <2>1, Turns
  <2>4. buf'[Place(k)] = buf[Place(k)]
    <3>1. buf'[Place(k)] = IF (Place(k) - head) % PIPE_CAPACITY < n THEN None ELSE buf[Place(k)]
      BY <1>1, <2>3 DEF Cleared
    <3> QED
      BY <1>1, <2>1, <2>3, <3>1
  <2>5. n + i \in 1 .. count /\ (n + i) - 1 = k
    BY <1>1 DEF k
  <2>6. pending[n + i] = buf[Place(k)]
    BY <1>2, <2>5
  <2> QED
    BY <1>5, <2>2, <2>4, <2>6
<1>12. out' # <<>>
  <2>1. n > 0 /\ Len(<<>>) = 0
    BY <1>1
  <2> QED
    BY <1>4, <2>1
<1> QED
  BY <1>4, <1>5, <1>6, <1>7, <1>8, <1>10, <1>11, <1>12

\* Putting bytes keeps those the ring held, which come out first.
LEMMA Put ==
    ASSUME TypeOK, RingOK, NEW n \in 1 .. PIPE_CAPACITY - count,
           NEW s \in Seq(Bytes), Len(s) = n,
           pending' = pending \o s, buf' = ring_put(s),
           tail' = (tail + n) % PIPE_CAPACITY, count' = count + n, head' = head
    PROVE  /\ pending' \in Seq(Bytes) /\ Len(pending') > Len(pending)
           /\ SubSeq(pending', 1, Len(pending)) = pending
           /\ buf' \in [0 .. PIPE_CAPACITY - 1 -> Bytes \cup {None}]
           /\ tail' \in 0 .. PIPE_CAPACITY - 1 /\ count' \in 0 .. PIPE_CAPACITY
           /\ Len(pending') = count' /\ tail' = (head' + count') % PIPE_CAPACITY
           /\ \A i \in 1 .. count' : pending'[i] = buf'[(head' + i - 1) % PIPE_CAPACITY]
<1>0. n \in Nat /\ n > 0 /\ count \in Nat /\ count + n <= PIPE_CAPACITY
  BY PipeAssumption DEF TypeOK
<1>1. /\ PIPE_CAPACITY \in Nat \ {0} /\ head \in 0 .. PIPE_CAPACITY - 1 /\ count \in 0 .. PIPE_CAPACITY
      /\ buf \in [0 .. PIPE_CAPACITY - 1 -> Bytes \cup {None}] /\ pending \in Seq(Bytes)
  BY PipeAssumption DEF TypeOK
<1>2. /\ Len(pending) = count /\ tail = Place(count)
      /\ \A i \in 1 .. count : pending[i] = buf[Place(i - 1)]
  BY RingByPlace
<1>3. /\ pending' \in Seq(Bytes) /\ Len(pending') = count + n
      /\ \A i \in 1 .. count : pending'[i] = pending[i]
      /\ \A i \in count + 1 .. count + n : pending'[i] = s[i - count]
  <2>0. /\ pending \o s \in Seq(Bytes) /\ Len(pending \o s) = Len(pending) + Len(s)
        /\ \A i \in 1 .. Len(pending) + Len(s) :
             (pending \o s)[i] = IF i <= Len(pending) THEN pending[i] ELSE s[i - Len(pending)]
    BY <1>1, ConcatProperties
  <2>1. pending' \in Seq(Bytes) /\ Len(pending') = count + n
    BY <1>2, <2>0
  <2>2. ASSUME NEW i \in 1 .. count PROVE pending'[i] = pending[i]
    <3>1. i \in 1 .. Len(pending) + Len(s) /\ i <= Len(pending)
      BY <1>0, <1>2
    <3> QED
      BY <2>0, <3>1
  <2>3. ASSUME NEW i \in count + 1 .. count + n PROVE pending'[i] = s[i - count]
    <3>1. i \in 1 .. Len(pending) + Len(s) /\ ~(i <= Len(pending)) /\ i - Len(pending) = i - count
      BY <1>0, <1>2
    <3> QED
      BY <2>0, <3>1
  <2> QED
    BY <2>1, <2>2, <2>3
<1>4. Len(pending') > Len(pending) /\ SubSeq(pending', 1, Len(pending)) = pending
  <2> DEFINE x == SubSeq(pending', 1, Len(pending))
  <2>1. x \in Seq(Bytes) /\ Len(x) = count /\ \A i \in 1 .. count : x[i] = pending[i]
    BY <1>1, <1>2, <1>3
  <2> HIDE DEF x
  <2>2. x = pending
    BY <1>1, <1>2, <2>1
  <2> QED
    BY <1>1, <1>2, <1>3, <2>2 DEF x
<1>5. buf' \in [0 .. PIPE_CAPACITY - 1 -> Bytes \cup {None}]
  <2>1. ASSUME NEW j \in 0 .. PIPE_CAPACITY - 1
        PROVE  LET k == ((j - tail) % PIPE_CAPACITY) + 1
               IN  (IF k <= Len(s) THEN s[k] ELSE buf[j]) \in Bytes \cup {None}
    <3> DEFINE k == ((j - tail) % PIPE_CAPACITY) + 1
    <3>1. k \in Nat /\ k >= 1
      <4>1. j - tail \in Int
        BY <1>1, <1>2 DEF Place
      <4>2. (j - tail) % PIPE_CAPACITY \in Nat
        BY <1>1, <4>1
      <4> QED
        BY <4>2
    <3> HIDE DEF k
    <3>2. k <= Len(s) => s[k] \in Bytes
      BY <1>1, <3>1
    <3>3. buf[j] \in Bytes \cup {None}
      BY <1>1
    <3>4. (IF k <= Len(s) THEN s[k] ELSE buf[j]) \in Bytes \cup {None}
      BY <3>2, <3>3
    <3> QED
      BY <3>4 DEF k
  <2>2. DOMAIN buf = 0 .. PIPE_CAPACITY - 1
    BY <1>1
  <2> QED
    BY <2>1, <2>2 DEF ring_put
<1>6. tail' = Place(count + n) /\ tail' \in 0 .. PIPE_CAPACITY - 1
  <2> DEFINE x == tail + n
  <2>1. x \in Int /\ 0 <= x /\ -PIPE_CAPACITY <= x /\ x < 2 * PIPE_CAPACITY
    BY <1>0, <1>1, <1>2 DEF Place
  <2>2. Place(count + n) = IF x < PIPE_CAPACITY THEN x ELSE x - PIPE_CAPACITY
    BY <1>0, <1>1, <1>2 DEF Place
  <2> HIDE DEF x
  <2>3. x % PIPE_CAPACITY = IF x < 0 THEN x + PIPE_CAPACITY ELSE IF x < PIPE_CAPACITY THEN x ELSE x - PIPE_CAPACITY
    BY <1>1, <2>1, Around
  <2>4. x % PIPE_CAPACITY = Place(count + n)
    BY <1>1, <2>1, <2>2, <2>3
  <2>5. count + n \in 0 .. PIPE_CAPACITY
    BY <1>0, <1>1
  <2>6. Place(count + n) \in 0 .. PIPE_CAPACITY - 1
    BY <2>5, Turns
  <2> QED
    BY <2>4, <2>6 DEF x
<1>7. tail' = (head' + count') % PIPE_CAPACITY
  <2>1. count + n \in 0 .. PIPE_CAPACITY
    BY <1>1
  <2>2. (head + (count + n)) % PIPE_CAPACITY = Place(count + n)
    BY <2>1, Turns
  <2> QED
    BY <1>6, <2>2
<1>8. ASSUME NEW i \in 1 .. count + n
      PROVE  pending'[i] = buf'[(head' + i - 1) % PIPE_CAPACITY]
  <2> DEFINE j == Place(i - 1)
             k == (j - tail) % PIPE_CAPACITY
  <2>1. i - 1 \in 0 .. PIPE_CAPACITY /\ head + (i - 1) = head + i - 1
    BY <1>1
  <2>2. (head' + i - 1) % PIPE_CAPACITY = j /\ j \in 0 .. PIPE_CAPACITY - 1
    BY <2>1, Turns
  <2>3. k = IF i <= count THEN i - 1 - count + PIPE_CAPACITY ELSE i - 1 - count
    <3> DEFINE x == j - tail
    <3>1. /\ x \in Int /\ -PIPE_CAPACITY <= x /\ x < 2 * PIPE_CAPACITY
          /\ i <= count => x \in {i - 1 - count, i - 1 - count + PIPE_CAPACITY} /\ i - 1 - count < 0
          /\ i > count => x \in {i - 1 - count, i - 1 - count - PIPE_CAPACITY} /\ i - 1 - count >= 0
      BY <1>0, <1>1, <1>2 DEF Place
    <3> HIDE DEF x
    <3>2. x % PIPE_CAPACITY = IF x < 0 THEN x + PIPE_CAPACITY ELSE IF x < PIPE_CAPACITY THEN x ELSE x - PIPE_CAPACITY
      BY <1>1, <3>1, Around
    <3>3. x % PIPE_CAPACITY = IF i <= count THEN i - 1 - count + PIPE_CAPACITY ELSE i - 1 - count
      <4>1. CASE i <= count
        <5>1. x = i - 1 - count \/ x = i - 1 - count + PIPE_CAPACITY
          BY <3>1, <4>1
        <5>2. i - 1 - count < 0 /\ i - 1 - count + PIPE_CAPACITY >= 0 /\ i - 1 - count + PIPE_CAPACITY < PIPE_CAPACITY
          BY <1>0, <1>1, <4>1
        <5> QED
          BY <1>0, <1>1, <3>1, <3>2, <4>1, <5>1, <5>2
      <4>2. CASE i > count
        BY <1>0, <1>1, <3>1, <3>2, <4>2
      <4> QED
        BY <1>0, <4>1, <4>2
    <3> QED
      BY <3>3 DEF x
  <2>4. buf'[j] = IF k + 1 <= n THEN s[k + 1] ELSE buf[j]
    BY <1>1, <2>2 DEF ring_put
  <2> HIDE DEF j, k
  <2>5. CASE i <= count
    <3>1. ~(k + 1 <= n)
      BY <1>1, <2>3, <2>5
    <3>2. pending[i] = buf[j]
      BY <1>1, <1>2, <2>5 DEF j
    <3>3. pending'[i] = pending[i]
      BY <1>3, <2>5
    <3>4. buf'[j] = buf[j]
      BY <2>4, <3>1
    <3> QED
      BY <2>2, <3>2, <3>3, <3>4
  <2>6. CASE i > count
    <3>1. k + 1 <= n /\ k + 1 = i - count /\ i \in count + 1 .. count + n
      BY <1>1, <2>3, <2>6
    <3> QED
      BY <1>3, <2>2, <2>4, <3>1
  <2>7. i <= count \/ i > count
    BY <1>0
  <2> QED
    BY <2>5, <2>6, <2>7
<1>9. count' \in 0 .. PIPE_CAPACITY
  BY <1>1
<1> QED
  BY <1>3, <1>4, <1>5, <1>6, <1>7, <1>8, <1>9

-----------------------------------------------------------------------------
(* Reading and writing.                                                    *)

\* A call on an end is over: what is left of it is the release.
LEMMA CallGoesOn ==
    ASSUME HeldInv, NEW t \in Threads, NEW op \in {"read", "write"}, Does(t, op), Goes_on(t),
           done'[t] = 0, \A u \in Threads : u # t => done'[u] = done[u],
           UNCHANGED <<got, fds, refs, life, ends>>
    PROVE  work' \in [Threads -> Seq(Steps)] /\ WorkOK' /\ DoneOK' /\ RefsOK' /\ EndsOK' /\ LifeOK'
<1> DEFINE w == Tail(work[t])
<1>0. TypeOK /\ WorkOK /\ DoneOK /\ RefsOK /\ EndsOK /\ LifeOK
  BY DEF HeldInv
<1>1. work' = [work EXCEPT ![t] = w]
  BY DEF Goes_on, Goes
<1>2. /\ work[t] \in Works /\ work[t] # <<>> /\ work[t][1].op = op
      /\ Len(got[t]) = Owed(work[t])
  BY <1>0, DoesFacts
<1>3. PICK f \in Ends : /\ w = Dropping(f) /\ Todo(work[t], "release") = {f}
                        /\ Todo(work[t], "close") = {} /\ Owed(work[t]) = 0
  <2>1. CASE op = "read"
    BY <1>2, <2>1, CallShape DEF Ends
  <2>2. CASE op = "write"
    BY <1>2, <2>2, CallShape DEF Ends
  <2> QED
    BY <2>1, <2>2
<1>4. /\ w \in Works /\ Owed(w) = 0 /\ ~Writes(w)
      /\ Todo(w, "release") = {f} /\ Todo(w, "close") = {}
  BY <1>3, CallShape
<1> HIDE DEF w
<1>5. work' \in [Threads -> Seq(Steps)] /\ WorkOK' /\ DoneOK'
  <2>1. Len(got'[t]) = Owed(w) /\ (\A u \in Threads : u # t => got'[u] = got[u])
        /\ IF Writes(w) THEN done'[t] < w[1].arg ELSE done'[t] = 0
    BY <1>2, <1>3, <1>4
  <2> QED
    BY <1>0, <1>1, <1>4, <2>1, WorkMoves, Zenon
<1>6. \A g \in Ends : Cardinality(Using'[g]) = Cardinality(Using[g]) /\ Closing'[g] = Closing[g]
  BY <1>0, <1>1, <1>3, <1>4, SameTodo
<1>7. Named' = Named
  BY DEF Named
<1>8. RefsOK' /\ EndsOK' /\ LifeOK'
  BY <1>0, <1>6, <1>7, HeldStays DEF ends
<1> QED
  BY <1>5, <1>8

\* The call stays where it is: asleep, or asleep again.
LEMMA CallStays ==
    ASSUME HeldInv, DoneOK', UNCHANGED <<work, got, fds, refs, life, ends>>
    PROVE  work' \in [Threads -> Seq(Steps)] /\ WorkOK' /\ RefsOK' /\ EndsOK' /\ LifeOK'
<1>0. TypeOK /\ WorkOK /\ RefsOK /\ EndsOK /\ LifeOK
  BY DEF HeldInv
<1>1. work' \in [Threads -> Seq(Steps)] /\ WorkOK'
  BY <1>0 DEF TypeOK, WorkOK
<1>2. Named' = Named /\ Using' = Using /\ Closing' = Closing
  BY DEF Named, Using, Closing
<1> QED
  BY <1>0, <1>1, <1>2, HeldStays DEF ends

\* Whoever is in a call on an end keeps that end open.
LEMMA CallKeepsOpen ==
    ASSUME HeldInv, NEW t \in Threads
    PROVE  /\ Does(t, "read") => read_ends = 1 /\ Arg(t) \in Nat \ {0} /\ done[t] = 0
           /\ Does(t, "write") => /\ write_ends = 1 /\ Arg(t) \in Nat \ {0}
                                  /\ done[t] \in Nat /\ done[t] < Arg(t)
           /\ Does(t, "read") \/ Does(t, "write") => life = "live"
<1>0. TypeOK /\ WorkOK /\ DoneOK /\ RefsOK /\ EndsOK /\ LifeOK /\ "r" \in Ends /\ "w" \in Ends
  BY DEF HeldInv, Ends
<1>1. ASSUME Does(t, "read")
      PROVE  read_ends = 1 /\ Arg(t) \in Nat \ {0} /\ done[t] = 0
  <2>1. /\ work[t] \in Works /\ work[t] # <<>> /\ work[t][1].op = "read" /\ done[t] = 0
        /\ Arg(t) = work[t][1].arg
    BY <1>0, <1>1, DoesFacts
  <2>2. work[t][1].arg \in ReadLens /\ Todo(work[t], "release") = {"r"}
    BY <2>1, CallShape
  <2>3. t \in Using["r"]
    BY <1>0, <2>2, Members
  <2>4. refs["r"] > 0
    BY <1>0, <2>3, Referenced
  <2> QED
    BY <1>0, <2>1, <2>2, <2>4, PipeAssumption DEF EndsOK
<1>2. ASSUME Does(t, "write")
      PROVE  write_ends = 1 /\ Arg(t) \in Nat \ {0} /\ done[t] \in Nat /\ done[t] < Arg(t)
  <2>1. /\ work[t] \in Works /\ work[t] # <<>> /\ work[t][1].op = "write"
        /\ Arg(t) = work[t][1].arg
    BY <1>0, <1>2, DoesFacts
  <2>2. work[t][1].arg \in WriteLens /\ Todo(work[t], "release") = {"w"}
    BY <2>1, CallShape
  <2>3. t \in Using["w"]
    BY <1>0, <2>2, Members
  <2>4. refs["w"] > 0
    BY <1>0, <2>3, Referenced
  <2>5. done[t] < Arg(t) /\ done[t] \in Nat
    BY <1>0, <2>1 DEF DoneOK, Writes, TypeOK
  <2> QED
    BY <1>0, <2>1, <2>2, <2>4, <2>5, PipeAssumption DEF EndsOK
<1> QED
  BY <1>0, <1>1, <1>2 DEF LifeOK

\* A read ends at the end of the input, sleeps on an empty pipe that can
\* still be written, and takes what there is otherwise.
LEMMA ReadHeld ==
    ASSUME HeldInv, RingInv, NEW t \in Threads, pipe_read(t)
    PROVE  HeldInv' /\ RingInv'
<1>0. TypeOK /\ WorkOK /\ DoneOK /\ SleepersHaveReason /\ RingOK /\ ToldOK
  BY DEF HeldInv, RingInv
<1>1. Does(t, "read") /\ UNCHANGED <<done, got, fds, refs, life, ends, opens>>
  BY DEF pipe_read
<1>2. read_ends = 1 /\ Arg(t) \in Nat \ {0} /\ done[t] = 0 /\ life = "live"
  BY <1>1, CallKeepsOpen
<1>3. ASSUME Goes_on(t)
      PROVE  work' \in [Threads -> Seq(Steps)] /\ WorkOK' /\ DoneOK' /\ RefsOK' /\ EndsOK' /\ LifeOK'
  <2>1. done'[t] = 0 /\ \A u \in Threads : u # t => done'[u] = done[u]
    BY <1>1, <1>2
  <2> QED
    BY <1>1, <1>3, <2>1, CallGoesOn
<1>4. ASSUME UNCHANGED work
      PROVE  work' \in [Threads -> Seq(Steps)] /\ WorkOK' /\ DoneOK' /\ RefsOK' /\ EndsOK' /\ LifeOK'
  <2>1. DoneOK'
    BY <1>0, <1>1, <1>4 DEF DoneOK
  <2> QED
    BY <1>1, <1>4, <2>1, CallStays
<1>5. CASE ReadEnds(t)
  <2>1. /\ count = 0 /\ write_ends = 0 /\ told' = TRUE /\ Goes_on(t)
        /\ UNCHANGED <<ring, readers, writers, pending, out>>
    BY <1>5 DEF ReadEnds
  <2>2. TypeOK'
    BY <1>0, <1>1, <1>3, <2>1 DEF TypeOK, ring, ends
  <2>3. SleepersHaveReason'
    BY <1>0, <1>1, <2>1 DEF SleepersHaveReason, ring, ends
  <2>4. RingOK'
    BY <1>0, <2>1 DEF RingOK, ring
  <2>5. ToldOK'
    BY <1>1, <1>2, <2>1 DEF ToldOK, ring, ends
  <2> QED
    BY <1>3, <2>1, <2>2, <2>3, <2>4, <2>5 DEF HeldInv, RingInv
<1>6. CASE ReadSleeps(t)
  <2>1. /\ count = 0 /\ write_ends # 0
        /\ \/ Goes_on(t) /\ UNCHANGED readers
           \/ readers' = readers \cup {t} /\ UNCHANGED work
        /\ UNCHANGED <<ring, writers, history>>
    BY <1>6 DEF ReadSleeps
  <2>2. work' \in [Threads -> Seq(Steps)] /\ WorkOK' /\ DoneOK' /\ RefsOK' /\ EndsOK' /\ LifeOK'
    BY <1>3, <1>4, <2>1
  <2>3. readers' \subseteq Threads
    BY <1>0, <2>1 DEF TypeOK
  <2>4. TypeOK'
    BY <1>0, <1>1, <2>1, <2>2, <2>3 DEF TypeOK, ring, ends, history
  <2>5. SleepersHaveReason'
    BY <1>0, <1>1, <2>1 DEF SleepersHaveReason, ring, ends
  <2>6. RingOK'
    BY <1>0, <2>1 DEF RingOK, ring, history
  <2>7. ToldOK'
    BY <1>0, <1>1, <2>1 DEF ToldOK, ring, ends, history
  <2> QED
    BY <2>2, <2>4, <2>5, <2>6, <2>7 DEF HeldInv, RingInv
<1>7. CASE ReadTakes(t)
  <2> DEFINE n == Min({Arg(t), count})
  <2>1. /\ count # 0
        /\ out' = ring_take(n) /\ pending' = SubSeq(pending, n + 1, Len(pending))
        /\ buf' = Cleared(n) /\ head' = (head + n) % PIPE_CAPACITY /\ count' = count - n /\ tail' = tail
        /\ writers' = {} /\ Goes_on(t) /\ UNCHANGED <<readers, told>>
    BY <1>7 DEF ReadTakes
  <2>2. count \in Nat /\ count > 0
    BY <1>0, <2>1 DEF TypeOK
  <2>3. n \in 1 .. count
    <3>1. n = IF Arg(t) <= count THEN Arg(t) ELSE count
      BY <1>2, <2>2, MinOfTwo
    <3> HIDE DEF n
    <3> QED
      BY <1>2, <2>2, <3>1
  <2> HIDE DEF n
  <2>4. /\ out' \in Seq(Bytes) /\ pending' \in Seq(Bytes)
        /\ buf' \in [0 .. PIPE_CAPACITY - 1 -> Bytes \cup {None}]
        /\ head' \in 0 .. PIPE_CAPACITY - 1 /\ count' \in 0 .. PIPE_CAPACITY
        /\ Len(pending') = count' /\ tail' = (head' + count') % PIPE_CAPACITY
        /\ \A i \in 1 .. count' : pending'[i] = buf'[(head' + i - 1) % PIPE_CAPACITY]
    BY <1>0, <2>1, <2>3, Taken
  <2>5. RingOK'
    BY <2>4 DEF RingOK
  <2>6. TypeOK'
    BY <1>0, <1>1, <1>3, <2>1, <2>4 DEF TypeOK, ends
  <2>7. SleepersHaveReason'
    BY <1>0, <2>1 DEF SleepersHaveReason
  <2>8. ToldOK'
    BY <1>0, <2>1 DEF ToldOK
  <2> QED
    BY <1>3, <2>1, <2>5, <2>6, <2>7, <2>8 DEF HeldInv, RingInv
<1> QED
  BY <1>5, <1>6, <1>7 DEF pipe_read

\* A write fails when nobody can read, sleeps on a full pipe, and otherwise
\* puts what there is room for.
LEMMA WriteHeld ==
    ASSUME HeldInv, RingInv, NEW t \in Threads, pipe_write(t)
    PROVE  HeldInv' /\ RingInv'
<1>0. TypeOK /\ WorkOK /\ DoneOK /\ SleepersHaveReason /\ RingOK /\ ToldOK
  BY DEF HeldInv, RingInv
<1>1. Does(t, "write") /\ UNCHANGED <<got, fds, refs, life, ends, opens, out, told>>
  BY DEF pipe_write
<1>2. /\ write_ends = 1 /\ Arg(t) \in Nat \ {0} /\ done[t] \in Nat /\ done[t] < Arg(t)
      /\ life = "live" /\ Writes(work[t]) /\ work[t][1].arg = Arg(t)
  <2>1. Writes(work[t]) /\ work[t][1].arg = Arg(t)
    BY <1>1 DEF Does, Idle, Writes, Arg
  <2> QED
    BY <1>1, <2>1, CallKeepsOpen
<1>3. ASSUME Goes_on(t), done' = [done EXCEPT ![t] = 0]
      PROVE  /\ work' \in [Threads -> Seq(Steps)] /\ WorkOK' /\ DoneOK' /\ RefsOK' /\ EndsOK' /\ LifeOK'
             /\ done' \in [Threads -> Nat]
  <2>1. done'[t] = 0 /\ (\A u \in Threads : u # t => done'[u] = done[u]) /\ done' \in [Threads -> Nat]
    BY <1>0, <1>3 DEF TypeOK
  <2> QED
    BY <1>1, <1>3, <2>1, CallGoesOn
<1>4. ASSUME UNCHANGED work, NEW n \in Nat, n + done[t] < Arg(t), done' = [done EXCEPT ![t] = @ + n]
      PROVE  /\ work' \in [Threads -> Seq(Steps)] /\ WorkOK' /\ DoneOK' /\ RefsOK' /\ EndsOK' /\ LifeOK'
             /\ done' \in [Threads -> Nat]
  <2>1. done'[t] = done[t] + n /\ (\A u \in Threads : u # t => done'[u] = done[u]) /\ done' \in [Threads -> Nat]
    BY <1>0, <1>4 DEF TypeOK
  <2>2. done'[t] < work[t][1].arg
    BY <1>2, <1>4, <2>1
  <2>3. DoneOK'
    BY <1>0, <1>2, <1>4, <2>1, <2>2 DEF DoneOK
  <2> QED
    BY <1>1, <1>4, <2>1, <2>3, CallStays
<1>5. ~told
  BY <1>0, <1>2 DEF ToldOK
<1>6. CASE WriteFails(t)
  <2>1. /\ read_ends = 0 /\ Goes_on(t) /\ done' = [done EXCEPT ![t] = 0]
        /\ UNCHANGED <<ring, readers, writers, pending>>
    BY <1>6 DEF WriteFails
  <2>2. TypeOK'
    BY <1>0, <1>1, <1>3, <2>1 DEF TypeOK, ring, ends
  <2>3. SleepersHaveReason'
    BY <1>0, <1>1, <2>1 DEF SleepersHaveReason, ring, ends
  <2>4. RingOK'
    BY <1>0, <2>1 DEF RingOK, ring
  <2>5. ToldOK'
    BY <1>1, <1>5 DEF ToldOK
  <2> QED
    BY <1>3, <2>1, <2>2, <2>3, <2>4, <2>5 DEF HeldInv, RingInv
<1>7. CASE WriteSleeps(t)
  <2>1. /\ count = PIPE_CAPACITY /\ read_ends # 0
        /\ \/ Goes_on(t) /\ done' = [done EXCEPT ![t] = 0] /\ UNCHANGED writers
           \/ writers' = writers \cup {t} /\ UNCHANGED <<work, done>>
        /\ UNCHANGED <<ring, readers, pending>>
    BY <1>7 DEF WriteSleeps
  <2>2. /\ work' \in [Threads -> Seq(Steps)] /\ WorkOK' /\ DoneOK' /\ RefsOK' /\ EndsOK' /\ LifeOK'
        /\ done' \in [Threads -> Nat]
    <3>1. CASE Goes_on(t) /\ done' = [done EXCEPT ![t] = 0]
      BY <1>3, <3>1
    <3>2. CASE UNCHANGED <<work, done>>
      <4>1. DoneOK' /\ done' \in [Threads -> Nat]
        BY <1>0, <3>2 DEF DoneOK, TypeOK
      <4> QED
        BY <1>1, <3>2, <4>1, CallStays
    <3> QED
      BY <2>1, <3>1, <3>2
  <2>3. writers' \subseteq Threads
    BY <1>0, <2>1 DEF TypeOK
  <2>4. TypeOK'
    BY <1>0, <1>1, <2>1, <2>2, <2>3 DEF TypeOK, ring, ends
  <2>5. SleepersHaveReason'
    BY <1>0, <1>1, <2>1 DEF SleepersHaveReason, ring, ends
  <2>6. RingOK'
    BY <1>0, <2>1 DEF RingOK, ring
  <2>7. ToldOK'
    BY <1>1, <1>5 DEF ToldOK
  <2> QED
    BY <2>2, <2>4, <2>5, <2>6, <2>7 DEF HeldInv, RingInv
<1>8. CASE WritePuts(t)
  <2> DEFINE n == Min({Arg(t) - done[t], PIPE_CAPACITY - count})
             bytes == [i \in 1 .. n |-> done[t] + i]
  <2>1. /\ count < PIPE_CAPACITY /\ read_ends # 0
        /\ pending' = pending \o bytes /\ buf' = ring_put(bytes)
        /\ tail' = (tail + n) % PIPE_CAPACITY /\ count' = count + n /\ readers' = {} /\ head' = head
        /\ IF done[t] + n = Arg(t) \/ t \in CannotSleep
           THEN Goes_on(t) /\ done' = [done EXCEPT ![t] = 0] /\ UNCHANGED writers
           ELSE /\ done' = [done EXCEPT ![t] = @ + n] /\ writers' = writers \cup {t}
                /\ UNCHANGED work
    BY <1>8 DEF WritePuts
  <2>2. count \in Nat /\ PIPE_CAPACITY - count \in Nat \ {0} /\ Arg(t) - done[t] \in Nat \ {0}
    BY <1>0, <1>2, <2>1, PipeAssumption, SMTT(30) DEF TypeOK
  <2>3. n = IF Arg(t) - done[t] <= PIPE_CAPACITY - count THEN Arg(t) - done[t] ELSE PIPE_CAPACITY - count
    BY <2>2, MinOfTwo
  <2> HIDE DEF n
  <2>4. n \in 1 .. PIPE_CAPACITY - count /\ n \in Nat /\ n <= Arg(t) - done[t]
    BY <2>2, <2>3
  <2>5. bytes \in Seq(Bytes) /\ Len(bytes) = n
    <3>1. bytes \in [1 .. n -> Bytes]
      BY <1>2, <2>4 DEF Bytes
    <3> QED
      BY <2>4, <3>1
  <2> HIDE DEF bytes
  <2>6. /\ pending' \in Seq(Bytes)
        /\ buf' \in [0 .. PIPE_CAPACITY - 1 -> Bytes \cup {None}]
        /\ tail' \in 0 .. PIPE_CAPACITY - 1 /\ count' \in 0 .. PIPE_CAPACITY
        /\ Len(pending') = count' /\ tail' = (head' + count') % PIPE_CAPACITY
        /\ \A i \in 1 .. count' : pending'[i] = buf'[(head' + i - 1) % PIPE_CAPACITY]
    BY <1>0, <2>1, <2>4, <2>5, Put
  <2>7. RingOK'
    BY <2>6 DEF RingOK
  <2>8. ToldOK'
    BY <1>1, <1>5 DEF ToldOK
  <2>9. writers = {}
    BY <1>0, <2>1, <2>2 DEF SleepersHaveReason
  <2>10. CASE done[t] + n = Arg(t) \/ t \in CannotSleep
    <3>1. Goes_on(t) /\ done' = [done EXCEPT ![t] = 0] /\ writers' = {}
      BY <2>1, <2>9, <2>10
    <3>2. TypeOK'
      BY <1>0, <1>1, <1>3, <2>1, <2>6, <3>1 DEF TypeOK, ends
    <3>3. SleepersHaveReason'
      BY <2>1, <3>1 DEF SleepersHaveReason
    <3> QED
      BY <1>3, <2>7, <2>8, <3>1, <3>2, <3>3 DEF HeldInv, RingInv
  <2>11. CASE ~(done[t] + n = Arg(t) \/ t \in CannotSleep)
    <3>1. /\ done' = [done EXCEPT ![t] = @ + n] /\ writers' = {t} /\ UNCHANGED work
          /\ n + done[t] < Arg(t) /\ n = PIPE_CAPACITY - count
      BY <1>2, <2>1, <2>2, <2>3, <2>4, <2>9, <2>11, SMTT(30)
    <3>2. /\ work' \in [Threads -> Seq(Steps)] /\ WorkOK' /\ DoneOK' /\ RefsOK' /\ EndsOK' /\ LifeOK'
          /\ done' \in [Threads -> Nat]
      BY <1>4, <2>4, <3>1
    <3>3. TypeOK'
      BY <1>0, <1>1, <2>1, <2>6, <3>1, <3>2 DEF TypeOK, ends
    <3>4. SleepersHaveReason'
      <4>1. count' = PIPE_CAPACITY
        BY <2>1, <2>2, <3>1, PipeAssumption
      <4> QED
        BY <1>1, <2>1, <3>1, <4>1 DEF SleepersHaveReason, ends
    <3> QED
      BY <2>7, <2>8, <3>2, <3>3, <3>4 DEF HeldInv, RingInv
  <2> QED
    BY <2>10, <2>11
<1> QED
  BY <1>6, <1>7, <1>8 DEF pipe_write

-----------------------------------------------------------------------------
(* The theorems.                                                           *)

\* No step leaves the inductive invariant.
LEMMA NextIInv ==
    ASSUME IInv, [Next]_vars
    PROVE  IInv'
<1>0. HeldInv /\ RingInv
  BY DEF IInv
<1>1. CASE Next
  <2>1. PICK t \in Threads : Begins(t) \/ Continues(t)
    BY <1>1 DEF Next
  <2>2. CASE pipe_create(t)
    BY <1>0, <2>2, CreateHeld DEF IInv
  <2>3. CASE sys_open(t)
    BY <1>0, <2>3, SysOpenHeld DEF IInv
  <2>4. CASE \E fd \in FDs : sys_close(t, fd)
    BY <1>0, <2>4, SysCloseHeld DEF IInv
  <2>5. CASE \E fd \in FDs : \E n \in ReadLens : sys_read(t, fd, n)
    <3>1. PICK fd \in FDs, n \in ReadLens : Call(t, fd, "read", n)
      BY <2>5 DEF sys_read
    <3>2. ("read" = "read" /\ n \in ReadLens) \/ ("read" = "write" /\ n \in WriteLens)
      OBVIOUS
    <3>3. HeldInv' /\ RingInv'
      BY <1>0, <3>1, <3>2, CallHeld
    <3> QED
      BY <3>3 DEF IInv
  <2>6. CASE \E fd \in FDs : \E n \in WriteLens : sys_write(t, fd, n)
    <3>1. PICK fd \in FDs, n \in WriteLens : Call(t, fd, "write", n)
      BY <2>6 DEF sys_write
    <3>2. ("write" = "read" /\ n \in ReadLens) \/ ("write" = "write" /\ n \in WriteLens)
      OBVIOUS
    <3>3. HeldInv' /\ RingInv'
      BY <1>0, <3>1, <3>2, CallHeld
    <3> QED
      BY <3>3 DEF IInv
  <2>7. CASE fd_install(t)
    BY <1>0, <2>7, InstallHeld DEF IInv
  <2>8. CASE sys_pipe_check(t)
    BY <1>0, <2>8, CheckHeld DEF IInv
  <2>9. CASE fd_close(t)
    BY <1>0, <2>9, FdCloseHeld DEF IInv
  <2>10. CASE file_release(t)
    BY <1>0, <2>10, ReleaseHeld DEF IInv
  <2>11. CASE pipe_close_read(t)
    BY <1>0, <2>11, CloseReadHeld DEF IInv
  <2>12. CASE pipe_close_write(t)
    BY <1>0, <2>12, CloseWriteHeld DEF IInv
  <2>13. CASE pipe_read(t)
    BY <1>0, <2>13, ReadHeld DEF IInv
  <2>14. CASE pipe_write(t)
    BY <1>0, <2>14, WriteHeld DEF IInv
  <2> QED
    BY <2>1, <2>2, <2>3, <2>4, <2>5, <2>6, <2>7, <2>8, <2>9, <2>10, <2>11, <2>12, <2>13, <2>14
    DEF Begins, Continues
<1>2. CASE UNCHANGED vars
  <2>0. /\ UNCHANGED <<work, done, got, fds, refs, life, ends, opens>>
        /\ UNCHANGED <<ring, readers, writers, history>>
    BY <1>2 DEF vars
  <2>1. DoneOK'
    BY <1>0, <2>0 DEF HeldInv, DoneOK
  <2>2. WorkOK' /\ RefsOK' /\ EndsOK' /\ LifeOK'
    BY <1>0, <2>0, <2>1, CallStays
  <2>3. TypeOK'
    BY <1>0, <2>0 DEF HeldInv, TypeOK, ring, ends, history
  <2>4. RingInv'
    BY <1>0, <2>0, RingStays
  <2> QED
    BY <2>1, <2>2, <2>3, <2>4 DEF IInv, HeldInv
<1> QED
  BY <1>1, <1>2

\* References, descriptors and the work left agree with one another and
\* the ring with its history, always.
THEOREM Invariance == Spec => []IInv
<1>1. Init => IInv
  BY InitIInv DEF IInv
<1>2. IInv /\ [Next]_vars => IInv'
  BY NextIInv
<1> QED
  BY <1>1, <1>2, PTL DEF Spec

\* Every variable keeps to the values its field can hold.
THEOREM TypeCorrect == Spec => []TypeOK
<1>1. IInv => TypeOK
  BY DEF IInv, HeldInv
<1> QED
  BY <1>1, Invariance, PTL

\* The pipe is freed neither too early nor never: it is there exactly as
\* long as a descriptor or a call leads to it.
THEOREM FreedAfterLastUse == Spec => []LifeFollowsUse
<1>1. IInv => LifeFollowsUse
  BY FollowsUse DEF IInv, HeldInv
<1> QED
  BY <1>1, Invariance, PTL

\* Who is asleep on the pipe still has a reason to be: no wake was missed.
THEOREM NobodySleepsForNothing == Spec => []SleepersHaveReason
<1>1. IInv => SleepersHaveReason
  BY DEF IInv, RingInv
<1> QED
  BY <1>1, Invariance, PTL

-----------------------------------------------------------------------------
(* The pipe implements a stream.                                           *)

\* A step that leaves the stream alone.
LEMMA Stutters ==
    ASSUME UNCHANGED history, UNCHANGED <<life, write_ends>>
    PROVE  UNCHANGED OneStream!vars
BY DEF OneStream!vars, history

\* What a read does to the stream: it tells the end, nothing, or delivers.
LEMMA ReadStreams ==
    ASSUME IInv, NEW t \in Threads, pipe_read(t)
    PROVE  [OneStream!Next]_(OneStream!vars)
<1>0. HeldInv /\ TypeOK /\ RingOK /\ ToldOK
  BY DEF IInv, HeldInv, RingInv
<1>1. Does(t, "read") /\ UNCHANGED <<life, write_ends>>
  BY DEF pipe_read, ends
<1>2. Arg(t) \in Nat \ {0} /\ life = "live"
  BY <1>0, <1>1, CallKeepsOpen
<1>3. CASE ReadEnds(t)
  <2>1. count = 0 /\ write_ends = 0 /\ told' = TRUE /\ UNCHANGED <<pending, out>>
    BY <1>3 DEF ReadEnds
  <2>2. pending = <<>>
    BY <1>0, <2>1 DEF RingOK, TypeOK
  <2>3. OneStream!TellEnd
    BY <1>1, <1>2, <2>1, <2>2 DEF OneStream!TellEnd
  <2> QED
    BY <2>3 DEF OneStream!Next
<1>4. CASE ReadSleeps(t)
  <2>1. UNCHANGED history
    BY <1>4 DEF ReadSleeps
  <2> QED
    BY <1>1, <2>1, Stutters
<1>5. CASE ReadTakes(t)
  <2> DEFINE n == Min({Arg(t), count})
  <2>1. /\ count # 0
        /\ out' = ring_take(n) /\ pending' = SubSeq(pending, n + 1, Len(pending))
        /\ buf' = Cleared(n) /\ head' = (head + n) % PIPE_CAPACITY /\ count' = count - n /\ tail' = tail
        /\ UNCHANGED told
    BY <1>5 DEF ReadTakes
  <2>2. count \in Nat /\ count > 0
    BY <1>0, <2>1 DEF TypeOK
  <2>3. n \in 1 .. count
    <3>1. n = IF Arg(t) <= count THEN Arg(t) ELSE count
      BY <1>2, <2>2, MinOfTwo
    <3> HIDE DEF n
    <3> QED
      BY <1>2, <2>2, <3>1
  <2> HIDE DEF n
  <2>4. pending = out' \o pending' /\ out' # <<>>
    BY <1>0, <2>1, <2>3, Taken
  <2>5. told = FALSE
    BY <1>0, <2>1 DEF ToldOK, TypeOK
  <2>6. OneStream!Deliver
    BY <1>1, <2>1, <2>4, <2>5 DEF OneStream!Deliver
  <2> QED
    BY <2>6 DEF OneStream!Next
<1> QED
  BY <1>3, <1>4, <1>5 DEF pipe_read

\* What a write does to the stream: nothing, or it adds to its end.
LEMMA WriteStreams ==
    ASSUME IInv, NEW t \in Threads, pipe_write(t)
    PROVE  [OneStream!Next]_(OneStream!vars)
<1>0. HeldInv /\ TypeOK /\ RingOK /\ ToldOK
  BY DEF IInv, HeldInv, RingInv
<1>1. Does(t, "write") /\ UNCHANGED <<life, write_ends, out, told>>
  BY DEF pipe_write, ends
<1>2. /\ Arg(t) \in Nat \ {0} /\ write_ends = 1 /\ done[t] \in Nat /\ done[t] < Arg(t)
  BY <1>0, <1>1, CallKeepsOpen
<1>3. CASE WriteFails(t) \/ WriteSleeps(t)
  <2>1. UNCHANGED history
    BY <1>1, <1>3 DEF WriteFails, WriteSleeps, history
  <2> QED
    BY <1>1, <2>1, Stutters
<1>4. CASE WritePuts(t)
  <2> DEFINE n == Min({Arg(t) - done[t], PIPE_CAPACITY - count})
             bytes == [i \in 1 .. n |-> done[t] + i]
  <2>1. /\ count < PIPE_CAPACITY
        /\ pending' = pending \o bytes /\ buf' = ring_put(bytes)
        /\ tail' = (tail + n) % PIPE_CAPACITY /\ count' = count + n /\ head' = head
    BY <1>4 DEF WritePuts
  <2>2. count \in Nat /\ PIPE_CAPACITY - count \in Nat \ {0} /\ Arg(t) - done[t] \in Nat \ {0}
    BY <1>0, <1>2, <2>1, PipeAssumption DEF TypeOK
  <2>3. n = IF Arg(t) - done[t] <= PIPE_CAPACITY - count THEN Arg(t) - done[t] ELSE PIPE_CAPACITY - count
    BY <2>2, MinOfTwo
  <2> HIDE DEF n
  <2>4. n \in 1 .. PIPE_CAPACITY - count /\ n \in Nat
    BY <2>2, <2>3
  <2>5. bytes \in Seq(Bytes) /\ Len(bytes) = n
    <3>1. bytes \in [1 .. n -> Bytes]
      BY <1>2, <2>4 DEF Bytes
    <3> QED
      BY <2>4, <3>1
  <2> HIDE DEF bytes
  <2>6. Len(pending') > Len(pending) /\ SubSeq(pending', 1, Len(pending)) = pending
    BY <1>0, <2>1, <2>4, <2>5, Put
  <2>7. OneStream!Accept
    BY <1>1, <1>2, <2>6 DEF OneStream!Accept
  <2> QED
    BY <2>7 DEF OneStream!Next
<1> QED
  BY <1>3, <1>4 DEF pipe_write

\* Every step of the pipe is a step of the stream or none.
LEMMA StepStreams ==
    ASSUME IInv, [Next]_vars
    PROVE  [OneStream!Next]_(OneStream!vars)
<1>1. CASE UNCHANGED vars
  BY <1>1, Stutters DEF vars, ends
<1>2. ASSUME NEW t \in Threads, pipe_create(t)
      PROVE  UNCHANGED OneStream!vars
  BY <1>2 DEF pipe_create, history, OneStream!vars
<1>3. ASSUME NEW t \in Threads, sys_open(t)
      PROVE  UNCHANGED OneStream!vars
  BY <1>3, Stutters DEF sys_open, ends
<1>4. ASSUME NEW t \in Threads, NEW fd \in FDs, sys_close(t, fd)
      PROVE  UNCHANGED OneStream!vars
  BY <1>4, Stutters DEF sys_close, ends
<1>5. ASSUME NEW t \in Threads, NEW fd \in FDs, NEW op, NEW n, Call(t, fd, op, n)
      PROVE  UNCHANGED OneStream!vars
  BY <1>5, Stutters DEF Call, ends
<1>6. ASSUME NEW t \in Threads, fd_install(t) \/ sys_pipe_check(t) \/ fd_close(t) \/ file_release(t)
      PROVE  UNCHANGED OneStream!vars
  BY <1>6, Stutters DEF fd_install, sys_pipe_check, fd_close, file_release, ends
<1>7. ASSUME NEW t \in Threads, pipe_close_read(t)
      PROVE  UNCHANGED OneStream!vars
  <2>1. life # "unmade" /\ life' # "unmade"
    BY <1>7, CloseReadHeld DEF IInv
  <2>2. UNCHANGED <<history, write_ends>>
    BY <1>7 DEF pipe_close_read
  <2> QED
    BY <2>1, <2>2 DEF history, OneStream!vars
<1>8. ASSUME NEW t \in Threads, pipe_close_write(t)
      PROVE  OneStream!Next
  <2>1. life # "unmade" /\ life' # "unmade" /\ write_ends' = 0
    BY <1>8, CloseWriteHeld DEF IInv
  <2>2. UNCHANGED history
    BY <1>8 DEF pipe_close_write
  <2>3. OneStream!Close
    BY <2>1, <2>2 DEF history, OneStream!Close
  <2> QED
    BY <2>3 DEF OneStream!Next
<1>9. CASE Next
  <2>1. PICK t \in Threads : Begins(t) \/ Continues(t)
    BY <1>9 DEF Next
  <2>2. CASE Begins(t)
    BY <1>2, <1>3, <1>4, <1>5, <2>2 DEF Begins, sys_read, sys_write
  <2>3. CASE Continues(t)
    BY <1>6, <1>7, <1>8, <2>3, ReadStreams, WriteStreams DEF Continues
  <2> QED
    BY <2>1, <2>2, <2>3
<1> QED
  BY <1>1, <1>9

\* The pipe keeps Stream's promise: bytes come out in order and once each,
\* and the end of the input is told when it is one.
THEOREM KeepsStream == Spec => IsStream
<1>1. Init => OneStream!Init
  BY DEF Init, OneStream!Init
<1>2. IInv /\ [Next]_vars => [OneStream!Next]_(OneStream!vars)
  BY StepStreams
<1> QED
  BY <1>1, <1>2, Invariance, PTL DEF Spec, IsStream, OneStream!Spec
=============================================================================
