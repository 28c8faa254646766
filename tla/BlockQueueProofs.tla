-------------------------- MODULE BlockQueueProofs --------------------------
(***************************************************************************)
(* Proofs about BlockQueue, for any number of callers, any requests and    *)
(* any limit on a transfer: a request is served once, by one servicer,     *)
(* while its owner waits, and `ok` means all of it was moved.              *)
(***************************************************************************)
EXTENDS BlockQueue, FiniteSetTheorems, TLAPS

\* Exactly the threads with a request in hand have one off the queue.
TakenOK ==
    \A t \in Threads : taken[t] # Nobody <=> pc[t] \in {"acquire", "issue", "finish"}

\* `serving` says whether there is a servicer; there is never a second.
ServeOK ==
    /\ \A t \in Threads : pc[t] \in Servicing => serving
    /\ serving => \E t \in Threads : pc[t] \in Servicing
    /\ queue # <<>> => serving
    /\ \A t, u \in Threads : pc[t] \in Servicing /\ pc[u] \in Servicing => t = u

\* `busy` is held by at most one thread, which is inside the driver.
BusyOK ==
    /\ \A t \in Threads : pc[t] \in {"issue", "flush"} => busy
    /\ \A t, u \in Threads : pc[t] \in {"issue", "flush"} /\ pc[u] \in {"issue", "flush"} => t = u

\* No request is on the queue twice.
OnceOK == \A i, j \in 1..Len(queue) : queue[i] = queue[j] => i = j

\* A request not yet done is somewhere a servicer will find it.
WaitOK ==
    /\ \A t \in Threads : pc[t] \in Waiting /\ ~done[t] => Queued(t) \/ Taken(t)
    /\ \A t \in Threads : pc[t] = "asleep" => ~done[t]
    /\ \A t \in Threads : done[t] => pc[t] \in Servicing \cup Waiting

\* Blocks moved and blocks left add up, from the queue to the answer.
MovedOK ==
    /\ \A t \in Threads : Queued(t) => moved[t] = 0
    /\ \A t \in Threads : pc[t] \notin Servicing \cup Waiting => moved[t] = 0 /\ ~done[t]
    /\ \A t \in Threads : pc[t] \in {"acquire", "issue"} => moved[taken[t]] + left[t] = count[taken[t]]
    /\ \A t \in Threads : pc[t] = "finish" /\ status[taken[t]] = "ok" => moved[taken[t]] = count[taken[t]]
    /\ OkMeansAllMoved

IInv ==
    /\ TypeOK
    /\ TakenOK
    /\ ServeOK
    /\ BusyOK
    /\ OnceOK
    /\ FrameStands
    /\ WaitOK
    /\ MovedOK

-----------------------------------------------------------------------------

\* Where a request is put is inside the queue.
LEMMA PassedCount ==
    ASSUME TypeOK, NEW l
    PROVE  Cardinality(Passed(l)) \in 0..Len(queue)
<1>1. Len(queue) \in Nat
  BY DEF TypeOK
<1>2. IsFiniteSet(1..Len(queue)) /\ Cardinality(1..Len(queue)) = Len(queue)
  <2> DEFINE n == Len(queue)
  <2>1. n \in Int /\ 1 \in Int /\ (IF 1 > n THEN 0 ELSE n - 1 + 1) = n
    BY <1>1
  <2> HIDE DEF n
  <2>2. IsFiniteSet(1..n) /\ Cardinality(1..n) = n
    BY <2>1, FS_Interval
  <2> QED
    BY <2>2 DEF n
<1>3. Passed(l) \subseteq 1..Len(queue)
  BY DEF Passed
<1>4. IsFiniteSet(Passed(l)) /\ Cardinality(Passed(l)) <= Cardinality(1..Len(queue))
  BY <1>2, <1>3, FS_Subset
<1>5. Cardinality(Passed(l)) \in Nat
  BY <1>4, FS_CardinalityType
<1> QED
  BY <1>1, <1>2, <1>4, <1>5

\* queue_insert adds one entry and keeps the others, each once.
LEMMA Inserted ==
    ASSUME TypeOK, NEW t \in Threads, NEW l, NEW q, q = queue_insert(t, l)
    PROVE  /\ q \in Seq(Threads)
           /\ q # <<>>
           /\ \A u \in Threads : (\E i \in 1..Len(q) : q[i] = u) <=> (u = t \/ Queued(u))
           /\ OnceOK /\ ~Queued(t) => \A i, j \in 1..Len(q) : q[i] = q[j] => i = j
<1> DEFINE k == Cardinality(Passed(l))
           n == Len(queue)
<1>1. k \in 0..n /\ n \in Nat /\ queue \in Seq(Threads)
  BY PassedCount DEF TypeOK
<1> HIDE DEF k
<1>2. q = [i \in 1..(n + 1) |->
             IF i <= k THEN queue[i] ELSE IF i = k + 1 THEN t ELSE queue[i - 1]]
  BY DEF queue_insert, k
<1>3. \A i \in 1..n : queue[i] \in Threads
  BY <1>1
<1>4. q \in Seq(Threads) /\ Len(q) = n + 1
  <2>1. \A i \in 1..(n + 1) : q[i] \in Threads
    BY <1>1, <1>2, <1>3
  <2> QED
    BY <1>1, <1>2, <2>1
<1> HIDE DEF n
<1>5. /\ \A i \in 1..k : q[i] = queue[i]
      /\ q[k + 1] = t
      /\ \A i \in (k + 1)..n : q[i + 1] = queue[i]
      /\ \A i \in 1..(n + 1) : i <= k \/ i = k + 1 \/ (i - 1 \in (k + 1)..n /\ i = (i - 1) + 1)
  BY <1>1, <1>2
<1>6. ASSUME NEW u \in Threads PROVE (\E i \in 1..Len(q) : q[i] = u) <=> (u = t \/ Queued(u))
  <2>1. ASSUME NEW i \in 1..n, queue[i] = u PROVE \E j \in 1..Len(q) : q[j] = u
    <3>1. CASE i <= k
      BY <1>1, <1>4, <1>5, <2>1, <3>1
    <3>2. CASE i > k
      <4>1. i + 1 \in 1..Len(q) /\ q[i + 1] = u
        BY <1>1, <1>4, <1>5, <2>1, <3>2
      <4> QED
        BY <4>1
    <3> QED
      BY <1>1, <3>1, <3>2
  <2>2. \E j \in 1..Len(q) : q[j] = t
    BY <1>1, <1>4, <1>5
  <2>3. ASSUME NEW i \in 1..Len(q), q[i] = u PROVE u = t \/ Queued(u)
    <3>1. CASE i <= k
      <4>1. i \in 1..n /\ queue[i] = u
        BY <1>1, <1>4, <1>5, <2>3, <3>1
      <4> QED
        BY <4>1 DEF Queued, n
    <3>2. CASE i = k + 1
      BY <1>5, <2>3, <3>2
    <3>3. CASE i > k + 1
      <4>1. i - 1 \in 1..n /\ queue[i - 1] = u
        BY <1>1, <1>2, <1>4, <2>3, <3>3
      <4> QED
        BY <4>1 DEF Queued, n
    <3> QED
      BY <1>1, <1>4, <3>1, <3>2, <3>3
  <2> QED
    BY <2>1, <2>2, <2>3 DEF Queued, n
<1>7. ASSUME OnceOK, ~Queued(t), NEW i \in 1..Len(q), NEW j \in 1..Len(q), q[i] = q[j]
      PROVE  i = j
  <2> DEFINE At(m) == IF m <= k THEN m ELSE m - 1
  <2>1. \A m \in 1..Len(q) : m = k + 1 \/ (At(m) \in 1..n /\ q[m] = queue[At(m)])
    BY <1>1, <1>2, <1>4
  <2>2. \A m \in 1..n : queue[m] # t
    BY <1>7 DEF Queued, n
  <2>3. CASE i = k + 1 \/ j = k + 1
    BY <1>5, <1>7, <2>1, <2>2, <2>3
  <2>4. CASE i # k + 1 /\ j # k + 1
    <3>1. At(i) = At(j)
      BY <1>7, <2>1, <2>4 DEF OnceOK, n
    <3> QED
      BY <1>1, <1>4, <2>4, <3>1
  <2> QED
    BY <2>3, <2>4
<1> QED
  BY <1>4, <1>6, <1>7, <1>1

\* Taking the head of the queue takes out its entry and no other.
LEMMA HeadTaken ==
    ASSUME TypeOK, OnceOK, queue # <<>>, NEW q, q = Tail(queue)
    PROVE  /\ Head(queue) \in Threads /\ Queued(Head(queue))
           /\ q \in Seq(Threads)
           /\ \A u \in Threads : (\E i \in 1..Len(q) : q[i] = u) <=> (Queued(u) /\ u # Head(queue))
           /\ \A i, j \in 1..Len(q) : q[i] = q[j] => i = j
<1>1. /\ queue \in Seq(Threads) /\ Len(queue) \in Nat /\ Len(queue) >= 1
      /\ Head(queue) = queue[1] /\ queue[1] \in Threads
      /\ q \in Seq(Threads) /\ Len(q) = Len(queue) - 1
      /\ \A i \in 1..Len(q) : q[i] = queue[i + 1]
  BY DEF TypeOK
<1>2. Queued(queue[1])
  BY <1>1 DEF Queued
<1>3. ASSUME NEW u \in Threads
      PROVE  (\E i \in 1..Len(q) : q[i] = u) <=> (Queued(u) /\ u # queue[1])
  <2>1. ASSUME NEW i \in 1..Len(q), q[i] = u PROVE Queued(u) /\ u # queue[1]
    <3>1. i + 1 \in 1..Len(queue) /\ queue[i + 1] = u /\ i + 1 # 1 /\ 1 \in 1..Len(queue)
      BY <1>1, <2>1
    <3> QED
      BY <3>1 DEF Queued, OnceOK
  <2>2. ASSUME NEW i \in 1..Len(queue), queue[i] = u, u # queue[1]
        PROVE \E j \in 1..Len(q) : q[j] = u
    <3>1. i - 1 \in 1..Len(q) /\ q[i - 1] = queue[i]
      BY <1>1, <2>2
    <3> QED
      BY <2>2, <3>1
  <2> QED
    BY <2>1, <2>2 DEF Queued
<1>4. ASSUME NEW i \in 1..Len(q), NEW j \in 1..Len(q), q[i] = q[j] PROVE i = j
  <2>1. i + 1 \in 1..Len(queue) /\ j + 1 \in 1..Len(queue) /\ queue[i + 1] = queue[j + 1]
    BY <1>1, <1>4
  <2>2. i + 1 = j + 1
    BY <2>1 DEF OnceOK
  <2> QED
    BY <1>1, <2>2
<1> QED
  BY <1>1, <1>2, <1>3, <1>4

\* The initial state satisfies the inductive invariant.
LEMMA InitIInv == Init => IInv
<1> SUFFICES ASSUME Init PROVE IInv
  OBVIOUS
<1> USE DEF Init, Servicing, Waiting, Queued, Taken
<1>1. TypeOK
  <2>1. done \in [Threads -> BOOLEAN] /\ serving \in BOOLEAN /\ busy \in BOOLEAN
    BY Zenon
  <2>2. queue \in Seq(Threads)
    OBVIOUS
  <2> QED
    BY <2>1, <2>2 DEF TypeOK, Places, InDriver
<1>2. \A t : ~Queued(t)
  OBVIOUS
<1>3. \A t \in Threads : ~Taken(t)
  BY BlockAssumption
<1>4. TakenOK /\ BusyOK /\ OnceOK
  BY DEF TakenOK, BusyOK, OnceOK
<1>5. ServeOK
  BY DEF ServeOK
<1>6. FrameStands
  BY <1>2, <1>3 DEF FrameStands
<1>7. WaitOK
  BY DEF WaitOK
<1>8. MovedOK
  BY <1>2 DEF MovedOK, OkMeansAllMoved
<1> QED
  BY <1>1, <1>4, <1>5, <1>6, <1>7, <1>8 DEF IInv

\* A step of a thread that has no request, before or after, keeps everything
\* that is about requests.
LEMMA Outside ==
    ASSUME IInv, NEW t \in Threads, NEW place,
           pc[t] \notin Servicing \cup Waiting,
           place \notin Servicing \cup Waiting,
           pc' = [pc EXCEPT ![t] = place],
           UNCHANGED <<request, done, status, queue, serving, taken, left, moved>>,
           TypeOK', BusyOK'
    PROVE  IInv'
<1> USE DEF Servicing, Waiting, request
<1>t. pc \in [Threads -> Places]
  BY DEF IInv, TypeOK
<1>1. \A u \in Threads : u # t => pc'[u] = pc[u]
  BY <1>t
<1>2. pc'[t] = place
  BY <1>t
<1>3. TakenOK'
  BY <1>1, <1>2 DEF IInv, TakenOK
<1>4. ServeOK'
  BY <1>1, <1>2 DEF IInv, ServeOK
<1>5. OnceOK'
  BY DEF IInv, OnceOK
<1>6. FrameStands'
  BY <1>1, <1>2 DEF IInv, FrameStands, Queued, Taken
<1>7. WaitOK'
  BY <1>1, <1>2 DEF IInv, WaitOK, Queued, Taken
<1>8. MovedOK'
  BY <1>1, <1>2 DEF IInv, MovedOK, OkMeansAllMoved, Queued
<1> QED
  BY <1>3, <1>4, <1>5, <1>6, <1>7, <1>8 DEF IInv

\* Every step keeps the inductive invariant.
LEMMA NextIInv == IInv /\ [Next]_vars => IInv'
<1> SUFFICES ASSUME IInv, [Next]_vars PROVE IInv'
  OBVIOUS
<1> USE DEF Servicing, Waiting, request, Go
<1>t. TypeOK
  BY DEF IInv
<1>0. CASE UNCHANGED vars
  <2> USE <1>0 DEF vars
  <2>1. TypeOK' /\ TakenOK' /\ BusyOK' /\ OnceOK'
    BY DEF IInv, TypeOK, TakenOK, BusyOK, OnceOK
  <2>2. ServeOK'
    BY DEF IInv, ServeOK
  <2>3. FrameStands' /\ WaitOK'
    BY DEF IInv, FrameStands, WaitOK, Queued, Taken
  <2>4. MovedOK'
    BY DEF IInv, MovedOK, OkMeansAllMoved, Queued
  <2> QED
    BY <2>1, <2>2, <2>3, <2>4 DEF IInv
<1>1. ASSUME NEW t \in Threads, NEW l \in Blocks, NEW n \in 1..MaxCount, submit(t, l, n)
      PROVE  IInv'
  <2> DEFINE q == queue_insert(t, l)
  <2>1. pc[t] = "idle" /\ pc \in [Threads -> Places] /\ l \in Nat /\ n \in Nat
    BY <1>1, <1>t, BlockAssumption DEF submit, Starts, TypeOK
  <2>2. ~Queued(t) /\ ~Taken(t) /\ ~done[t] /\ moved[t] = 0
    BY <2>1 DEF IInv, FrameStands, MovedOK
  <2>3. /\ q \in Seq(Threads) /\ q # <<>>
        /\ \A u \in Threads : (\E i \in 1..Len(q) : q[i] = u) <=> (u = t \/ Queued(u))
        /\ \A i, j \in 1..Len(q) : q[i] = q[j] => i = j
    BY <1>t, <2>2, Inserted DEF IInv
  <2>4. queue' = q /\ taken' = taken /\ left' = left /\ moved' = moved /\ done' = done
        /\ status' = status /\ busy' = busy /\ serving' = TRUE
    BY <1>1 DEF submit
  <2> HIDE DEF q
  <2>5. /\ \A u \in Threads : Queued(u)' <=> (u = t \/ Queued(u))
        /\ \A u \in Threads : Taken(u)' <=> Taken(u)
    BY <2>3, <2>4 DEF Queued, Taken
  <2>6. /\ pc'[t] = (IF serving THEN "wait" ELSE "serve")
        /\ \A u \in Threads : u # t => pc'[u] = pc[u]
        /\ \A u \in Threads : u # t => count'[u] = count[u]
    BY <1>1, <1>t DEF submit, TypeOK
  <2>7. TypeOK'
    <3>1. asked' \in Nat
      BY <1>1, <1>t DEF submit, Starts, TypeOK
    <3>2. pc' \in [Threads -> Places]
      BY <1>1, <1>t DEF submit, TypeOK, Places
    <3>3. lba' \in [Threads -> Nat] /\ count' \in [Threads -> Nat]
      BY <1>1, <1>t, <2>1 DEF submit, TypeOK
    <3> QED
      BY <1>t, <2>3, <2>4, <3>1, <3>2, <3>3 DEF TypeOK
  <2>8. TakenOK'
    BY <2>1, <2>4, <2>6 DEF IInv, TakenOK
  <2>9. ServeOK'
    <3>1. CASE serving
      BY <2>1, <2>4, <2>6, <3>1 DEF IInv, ServeOK
    <3>2. CASE ~serving
      BY <2>1, <2>4, <2>6, <3>2 DEF IInv, ServeOK
    <3> QED
      BY <3>1, <3>2
  <2>10. BusyOK'
    BY <2>1, <2>4, <2>6 DEF IInv, BusyOK
  <2>11. OnceOK'
    BY <2>3, <2>4 DEF OnceOK
  <2>12. FrameStands'
    BY <2>2, <2>4, <2>5, <2>6 DEF IInv, FrameStands
  <2>13. WaitOK'
    BY <2>2, <2>4, <2>5, <2>6 DEF IInv, WaitOK
  <2>14. \A u \in Threads : taken[u] # t
    BY <2>2 DEF Taken
  <2>15. MovedOK'
    <3>1. \A u \in Threads : taken[u] # Nobody => taken[u] \in Threads /\ count'[taken[u]] = count[taken[u]]
      BY <1>t, <2>6, <2>14 DEF TypeOK
    <3> QED
      BY <1>t, <2>1, <2>2, <2>4, <2>5, <2>6, <3>1 DEF IInv, MovedOK, OkMeansAllMoved, TakenOK
  <2> QED
    BY <2>7, <2>8, <2>9, <2>10, <2>11, <2>12, <2>13, <2>15 DEF IInv
<1>2. ASSUME NEW t \in Threads, Await(t) PROVE IInv'
  <2>1. /\ pc[t] = "wait" /\ ~done[t] /\ pc \in [Threads -> Places]
        /\ pc'[t] \in {"spin", "asleep"}
        /\ \A u \in Threads : u # t => pc'[u] = pc[u]
    BY <1>2, <1>t DEF Await, TypeOK
  <2>2. UNCHANGED <<lba, count, done, status, queue, serving, busy, taken, left, moved, asked>>
    BY <1>2 DEF Await
  <2>3. TypeOK'
    BY <1>2, <1>t, <2>2 DEF Await, TypeOK, Places
  <2>4. TakenOK' /\ BusyOK' /\ OnceOK'
    BY <2>1, <2>2 DEF IInv, TakenOK, BusyOK, OnceOK
  <2>5. ServeOK'
    BY <2>1, <2>2 DEF IInv, ServeOK
  <2>6. FrameStands'
    BY <2>1, <2>2 DEF IInv, FrameStands, Queued, Taken
  <2>7. WaitOK'
    BY <2>1, <2>2 DEF IInv, WaitOK, Queued, Taken
  <2>8. MovedOK'
    BY <2>1, <2>2 DEF IInv, MovedOK, OkMeansAllMoved, Queued
  <2> QED
    BY <2>3, <2>4, <2>5, <2>6, <2>7, <2>8 DEF IInv
\* The two ways out of submit: the request is done, and its frame goes.
<1>3. ASSUME NEW t \in Threads, Return(t) \/ StopServing(t) PROVE IInv'
  <2>1. /\ pc[t] \in {"wait", "spin", "serve"} /\ pc \in [Threads -> Places]
        /\ pc'[t] = "idle"
        /\ \A u \in Threads : u # t => pc'[u] = pc[u]
    BY <1>3, <1>t DEF Return, StopServing, TypeOK
  <2>2. FrameGone(t) /\ UNCHANGED <<queue, busy, taken, left, asked>>
    BY <1>3 DEF Return, StopServing
  <2>3. ~Queued(t) /\ ~Taken(t)
    <3>1. CASE Return(t)
      BY <3>1 DEF Return, IInv, FrameStands
    <3>2. CASE StopServing(t)
      <4>1. ~Queued(t)
        BY <3>2 DEF StopServing, Queued
      <4>2. \A u \in Threads : taken[u] = Nobody
        BY <3>2 DEF StopServing, IInv, TakenOK, ServeOK
      <4> QED
        BY <4>1, <4>2, BlockAssumption DEF Taken
    <3> QED
      BY <1>3, <3>1, <3>2
  <2>4. /\ ~done'[t] /\ moved'[t] = 0
        /\ \A u \in Threads : u # t => /\ done'[u] = done[u] /\ moved'[u] = moved[u]
                                       /\ count'[u] = count[u] /\ status'[u] = status[u]
    BY <1>t, <2>2 DEF FrameGone, TypeOK
  <2>5. TypeOK'
    <3>1. pc' \in [Threads -> Places]
      BY <1>3, <1>t DEF Return, StopServing, TypeOK, Places
    <3>2. done' \in [Threads -> BOOLEAN]
      BY <1>t, <2>2, Zenon DEF FrameGone, TypeOK
    <3>3. serving' \in BOOLEAN
      BY <1>3, <1>t, Zenon DEF Return, StopServing, TypeOK
    <3> QED
      BY <1>t, <2>2, <3>1, <3>2, <3>3 DEF FrameGone, TypeOK
  <2>6. TakenOK' /\ BusyOK' /\ OnceOK'
    BY <2>1, <2>2 DEF IInv, TakenOK, BusyOK, OnceOK
  <2>7. ServeOK'
    <3>1. CASE Return(t)
      BY <2>1, <2>2, <3>1 DEF IInv, ServeOK, Return
    <3>2. CASE StopServing(t)
      BY <2>1, <2>2, <3>2 DEF IInv, ServeOK, StopServing
    <3> QED
      BY <1>3, <3>1, <3>2
  <2>8. FrameStands'
    BY <2>1, <2>2, <2>3, <2>4 DEF IInv, FrameStands, Queued, Taken
  <2>9. WaitOK'
    BY <2>1, <2>2, <2>4 DEF IInv, WaitOK, Queued, Taken
  <2>10. MovedOK'
    <3>1. \A u \in Threads : pc[u] \in {"acquire", "issue", "finish"} =>
             taken[u] \in Threads /\ taken[u] # t
      BY <1>t, <2>3 DEF IInv, TakenOK, TypeOK, Taken
    <3> QED
      BY <2>1, <2>2, <2>3, <2>4, <3>1 DEF IInv, MovedOK, OkMeansAllMoved, Queued
  <2> QED
    BY <2>5, <2>6, <2>7, <2>8, <2>9, <2>10 DEF IInv
<1>4. ASSUME NEW t \in Threads, TakeNext(t) PROVE IInv'
  <2> DEFINE h == Head(queue)
  <2>1. /\ pc[t] = "serve" /\ pc \in [Threads -> Places] /\ queue # <<>>
        /\ pc'[t] = "acquire"
        /\ \A u \in Threads : u # t => pc'[u] = pc[u]
    BY <1>4, <1>t DEF TakeNext, TypeOK
  <2>2. /\ h \in Threads /\ Queued(h) /\ Tail(queue) \in Seq(Threads)
        /\ \A u \in Threads : (\E i \in 1..Len(Tail(queue)) : Tail(queue)[i] = u)
                                 <=> (Queued(u) /\ u # h)
        /\ \A i, j \in 1..Len(Tail(queue)) : Tail(queue)[i] = Tail(queue)[j] => i = j
    BY <1>t, <2>1, HeadTaken DEF IInv
  <2> HIDE DEF h
  <2>3. /\ queue' = Tail(queue)
        /\ taken' = [taken EXCEPT ![t] = h] /\ left' = [left EXCEPT ![t] = count[h]]
        /\ UNCHANGED <<lba, count, done, status, serving, busy, moved, asked>>
    BY <1>4 DEF TakeNext, h
  <2>4. /\ taken'[t] = h /\ left'[t] = count[h]
        /\ \A u \in Threads : u # t => taken'[u] = taken[u] /\ left'[u] = left[u]
    BY <1>t, <2>3 DEF TypeOK
  <2>5. taken[t] = Nobody /\ h # Nobody
    BY <2>1, <2>2, BlockAssumption DEF IInv, TakenOK
  <2>6. /\ \A u \in Threads : Queued(u)' <=> (Queued(u) /\ u # h)
        /\ \A u \in Threads : Taken(u)' <=> (Taken(u) \/ u = h)
    <3>1. \A u \in Threads : Taken(u)' <=> (Taken(u) \/ u = h)
      BY <2>4, <2>5, BlockAssumption DEF Taken
    <3>2. \A u \in Threads : Queued(u)' <=> (Queued(u) /\ u # h)
      BY <2>2, <2>3 DEF Queued
    <3> QED
      BY <3>1, <3>2
  <2>7. TypeOK'
    <3>1. pc' \in [Threads -> Places]
      BY <1>4, <1>t DEF TakeNext, TypeOK, Places
    <3> QED
      BY <1>t, <2>2, <2>3, <3>1 DEF TypeOK
  <2>8. TakenOK' /\ BusyOK'
    BY <2>1, <2>3, <2>4, <2>5 DEF IInv, TakenOK, BusyOK
  <2>9. OnceOK'
    BY <2>2, <2>3 DEF OnceOK
  <2>10. ServeOK'
    BY <2>1, <2>3 DEF IInv, ServeOK
  <2>11. FrameStands'
    BY <2>1, <2>2, <2>3, <2>6 DEF IInv, FrameStands
  <2>12. WaitOK'
    BY <2>1, <2>3, <2>6 DEF IInv, WaitOK
  <2>13. MovedOK'
    <3>1. \A u \in Threads : u # t => pc[u] \notin {"acquire", "issue", "finish", "serve"}
      BY <2>1 DEF IInv, ServeOK
    <3>2. moved[h] = 0 /\ count[h] \in Nat
      BY <1>t, <2>2 DEF IInv, MovedOK, TypeOK
    <3> QED
      BY <2>1, <2>3, <2>4, <2>6, <3>1, <3>2 DEF IInv, MovedOK, OkMeansAllMoved
  <2> QED
    BY <2>7, <2>8, <2>9, <2>10, <2>11, <2>12, <2>13 DEF IInv
<1>5. ASSUME NEW t \in Threads, issue(t) PROVE IInv'
  <2>1. /\ pc[t] = "acquire" /\ pc \in [Threads -> Places] /\ ~busy
        /\ pc'[t] = "issue"
        /\ \A u \in Threads : u # t => pc'[u] = pc[u]
    BY <1>5, <1>t DEF issue, device_acquire, TypeOK
  <2>2. busy' = TRUE /\ UNCHANGED <<lba, count, done, status, queue, serving, taken, left, moved, asked>>
    BY <1>5 DEF issue, device_acquire
  <2>3. TypeOK'
    <3>1. pc' \in [Threads -> Places]
      BY <1>5, <1>t DEF issue, device_acquire, TypeOK, Places
    <3> QED
      BY <1>t, <2>2, <3>1 DEF TypeOK
  <2>4. TakenOK' /\ BusyOK' /\ OnceOK'
    BY <2>1, <2>2 DEF IInv, TakenOK, BusyOK, OnceOK
  <2>5. ServeOK'
    BY <2>1, <2>2 DEF IInv, ServeOK
  <2>6. FrameStands'
    BY <2>1, <2>2 DEF IInv, FrameStands, Queued, Taken
  <2>7. WaitOK'
    BY <2>1, <2>2 DEF IInv, WaitOK, Queued, Taken
  <2>8. MovedOK'
    BY <2>1, <2>2 DEF IInv, MovedOK, OkMeansAllMoved, Queued
  <2> QED
    BY <2>3, <2>4, <2>5, <2>6, <2>7, <2>8 DEF IInv
<1>6. ASSUME NEW t \in Threads, NEW ok \in BOOLEAN, ChunkDone(t, ok) PROVE IInv'
  <2> DEFINE r == taken[t]
             most == max_blocks_per_request
             n == IF most > 0 /\ left[t] > most THEN most ELSE left[t]
             last == ~ok \/ n = left[t]
  <2>1. /\ pc[t] = "issue" /\ pc \in [Threads -> Places]
        /\ r \in Threads /\ left[t] \in Nat /\ busy
    BY <1>6, <1>t DEF ChunkDone, TypeOK, IInv, TakenOK, BusyOK
  <2>2. n \in 0..left[t] /\ n \in Nat
    BY <2>1, BlockAssumption
  <2>3. /\ moved' = (IF ok THEN [moved EXCEPT ![r] = @ + n] ELSE moved)
        /\ left' = (IF ok THEN [left EXCEPT ![t] = @ - n] ELSE left)
        /\ pc' = [pc EXCEPT ![t] = IF last THEN "finish" ELSE "issue"]
        /\ busy' = ~last
        /\ status' = (IF last THEN [status EXCEPT ![r] = IF ok THEN "ok" ELSE "error"] ELSE status)
        /\ UNCHANGED <<lba, count, done, queue, serving, taken, asked>>
    BY <1>6 DEF ChunkDone
  <2> HIDE DEF n, r
  <2>4. /\ ok => moved'[r] = moved[r] + n /\ left'[t] = left[t] - n
        /\ ~ok => moved'[r] = moved[r]
        /\ last => status'[r] = (IF ok THEN "ok" ELSE "error")
        /\ \A u \in Threads : u # r => moved'[u] = moved[u] /\ status'[u] = status[u]
        /\ \A u \in Threads : u # t => left'[u] = left[u]
    BY <1>t, <2>1, <2>3 DEF TypeOK
  <2>5. /\ pc'[t] = (IF last THEN "finish" ELSE "issue")
        /\ \A u \in Threads : u # t => pc'[u] = pc[u]
    BY <2>1, <2>3
  <2>6. Taken(r)
    BY <2>1 DEF Taken, r
  <2>7. ~Queued(r) /\ ~done[r] /\ pc[r] \in Servicing \cup Waiting
    BY <2>1, <2>6 DEF IInv, FrameStands
  <2>8. \A u \in Threads : u # t => pc[u] \notin {"serve", "acquire", "issue", "finish", "flush"}
    BY <2>1 DEF IInv, ServeOK, BusyOK
  <2>9. TypeOK'
    <3>1. pc' \in [Threads -> Places]
      BY <2>1, <2>3 DEF Places
    <3>2. busy' \in BOOLEAN
      BY <2>3, Zenon
    <3>3. status' \in [Threads -> {"ok", "error"}]
      BY <1>t, <2>1, <2>3 DEF TypeOK
    <3>4. moved' \in [Threads -> Nat]
      BY <1>t, <2>1, <2>2, <2>3 DEF TypeOK
    <3>5. left' \in [Threads -> Nat]
      BY <1>t, <2>1, <2>2, <2>3 DEF TypeOK
    <3> QED
      BY <1>t, <2>3, <3>1, <3>2, <3>3, <3>4, <3>5 DEF TypeOK
  <2>10. TakenOK' /\ OnceOK'
    BY <2>1, <2>3, <2>5 DEF IInv, TakenOK, OnceOK
  <2>11. BusyOK'
    BY <2>3, <2>5, <2>8 DEF BusyOK
  <2>12. ServeOK'
    BY <2>1, <2>3, <2>5 DEF IInv, ServeOK
  <2>13. FrameStands'
    BY <2>1, <2>3, <2>5 DEF IInv, FrameStands, Queued, Taken
  <2>14. WaitOK'
    BY <2>1, <2>3, <2>5 DEF IInv, WaitOK, Queued, Taken
  <2>15. MovedOK'
    <3>1. moved[r] + left[t] = count[r] /\ moved[r] \in Nat /\ count[r] \in Nat
      BY <1>t, <2>1 DEF IInv, MovedOK, TypeOK, r
    <3>2. taken'[t] = r /\ count' = count /\ done' = done
      BY <2>3 DEF r
    <3>3. pc'[t] = "issue" => moved'[r] + left'[t] = count'[r]
      BY <2>1, <2>2, <2>4, <2>5, <3>1, <3>2
    <3>4. pc'[t] = "finish" /\ status'[r] = "ok" => moved'[r] = count'[r]
      BY <2>1, <2>2, <2>4, <2>5, <3>1, <3>2
    <3>5. \A u \in Threads : Queued(u)' => moved'[u] = 0
      BY <2>3, <2>4, <2>7 DEF IInv, MovedOK, Queued
    <3>6. \A u \in Threads : pc'[u] \notin Servicing \cup Waiting => moved'[u] = 0 /\ ~done'[u]
      BY <2>1, <2>4, <2>5, <2>7, <3>2 DEF IInv, MovedOK
    <3>7. OkMeansAllMoved'
      BY <2>4, <2>7, <3>2 DEF IInv, MovedOK, OkMeansAllMoved
    <3> QED
      BY <2>5, <2>8, <3>2, <3>3, <3>4, <3>5, <3>6, <3>7 DEF MovedOK
  <2> QED
    BY <2>9, <2>10, <2>11, <2>12, <2>13, <2>14, <2>15 DEF IInv
<1>7. ASSUME NEW t \in Threads, Finish(t) PROVE IInv'
  <2> DEFINE r == taken[t]
  <2>1. pc[t] = "finish" /\ r \in Threads
    BY <1>7, <1>t DEF Finish, TypeOK, IInv, TakenOK
  <2>2. /\ done' = [done EXCEPT ![r] = TRUE]
        /\ taken' = [taken EXCEPT ![t] = Nobody]
        /\ left' = [left EXCEPT ![t] = 0]
        /\ UNCHANGED <<lba, count, status, queue, serving, busy, moved, asked>>
    BY <1>7 DEF Finish
  <2>3. /\ pc'[t] = "serve"
        /\ \A u \in Threads : u # t => pc'[u] = (IF pc[u] = "asleep" THEN "wait" ELSE pc[u])
    BY <1>7 DEF Finish
  <2>4. done'[r] /\ \A u \in Threads : u # r => done'[u] = done[u]
    BY <1>t, <2>1, <2>2 DEF TypeOK
  <2>5. taken'[t] = Nobody /\ \A u \in Threads : u # t => taken'[u] = taken[u]
    BY <1>t, <2>2 DEF TypeOK
  <2>6. Taken(r) /\ ~Queued(r) /\ pc[r] \in Servicing \cup Waiting
    BY <2>1 DEF IInv, FrameStands, Taken
  <2>7. \A u \in Threads : u # t => pc[u] \notin {"serve", "acquire", "issue", "finish"}
    BY <2>1 DEF IInv, ServeOK
  <2>8. \A u \in Threads : u # t => taken[u] = Nobody
    BY <2>7 DEF IInv, TakenOK
  <2> HIDE DEF r
  <2>9. \A u \in Threads : ~Taken(u)' /\ (Taken(u) <=> u = r)
    BY <2>1, <2>5, <2>8, BlockAssumption DEF Taken, r
  <2>10. \A u \in Threads : Queued(u)' <=> Queued(u)
    BY <2>2 DEF Queued
  <2>11. TypeOK'
    <3>1. pc' \in [Threads -> Places]
      BY <1>7, <1>t DEF Finish, TypeOK, Places
    <3>2. done' \in [Threads -> BOOLEAN]
      BY <1>t, <2>1, <2>2, Zenon DEF TypeOK
    <3> QED
      BY <1>t, <2>2, <3>1, <3>2 DEF TypeOK
  <2>12. TakenOK'
    BY <2>3, <2>5, <2>7, <2>8 DEF TakenOK
  <2>13. BusyOK' /\ OnceOK'
    BY <2>1, <2>2, <2>3 DEF IInv, BusyOK, OnceOK
  <2>14. ServeOK'
    <3>1. \A u \in Threads : u # t => pc'[u] \notin Servicing
      BY <2>3, <2>7
    <3> QED
      BY <2>1, <2>2, <2>3, <3>1 DEF IInv, ServeOK
  <2>15. FrameStands'
    <3>1. \A u \in Threads : pc[u] \in Servicing \cup Waiting => pc'[u] \in Servicing \cup Waiting
      BY <2>3
    <3> QED
      BY <2>4, <2>6, <2>9, <2>10, <3>1 DEF IInv, FrameStands
  <2>16. WaitOK'
    <3>1. \A u \in Threads : pc'[u] \in Waiting => pc[u] \in Waiting
      BY <2>3
    <3>2. \A u \in Threads : pc'[u] # "asleep"
      BY <2>3
    <3>3. \A u \in Threads : pc[u] \in Servicing \cup Waiting => pc'[u] \in Servicing \cup Waiting
      BY <2>3
    <3> QED
      BY <2>1, <2>4, <2>6, <2>9, <2>10, <3>1, <3>2, <3>3 DEF IInv, WaitOK
  <2>17. MovedOK'
    <3>1. status[r] = "ok" => moved[r] = count[r]
      BY <2>1 DEF IInv, MovedOK, r
    <3>2. \A u \in Threads : pc'[u] \notin Servicing \cup Waiting => pc[u] \notin Servicing \cup Waiting
      BY <2>3
    <3>3. \A u \in Threads : pc'[u] \notin {"acquire", "issue", "finish"}
      BY <2>3, <2>7
    <3>4. OkMeansAllMoved'
      BY <2>2, <2>4, <3>1 DEF IInv, MovedOK, OkMeansAllMoved
    <3> QED
      BY <2>2, <2>4, <2>6, <2>10, <3>2, <3>3, <3>4 DEF IInv, MovedOK
  <2> QED
    BY <2>11, <2>12, <2>13, <2>14, <2>15, <2>16, <2>17 DEF IInv
<1>8. ASSUME NEW t \in Threads, block_flush(t) \/ block_discard(t) PROVE IInv'
  <2> DEFINE place == pc'[t]
  <2>1. /\ pc[t] = "idle" /\ place \in {"flush_acquire", "discard"}
        /\ pc' = [pc EXCEPT ![t] = place]
        /\ UNCHANGED <<request, done, status, queue, serving, busy, taken, left, moved>>
    BY <1>8, <1>t DEF block_flush, block_discard, Starts, TypeOK
  <2>2. asked' \in Nat
    <3>1. Starts(t)
      BY <1>8 DEF block_flush, block_discard
    <3> QED
      BY <1>t, <3>1 DEF Starts, TypeOK
  <2>3. TypeOK'
    BY <1>t, <2>1, <2>2 DEF TypeOK, Places, InDriver
  <2>4. BusyOK'
    BY <1>t, <2>1 DEF IInv, BusyOK, TypeOK
  <2> HIDE DEF place
  <2> QED
    BY <2>1, <2>3, <2>4, Outside
<1>9. ASSUME NEW t \in Threads, FlushEnters(t) PROVE IInv'
  <2>1. /\ pc[t] = "flush_acquire" /\ pc' = [pc EXCEPT ![t] = "flush"] /\ ~busy /\ busy' = TRUE
        /\ UNCHANGED <<request, done, status, queue, serving, taken, left, moved, asked>>
    BY <1>9 DEF FlushEnters, device_acquire
  <2>2. TypeOK'
    BY <1>t, <2>1 DEF TypeOK, Places, InDriver
  <2>3. BusyOK'
    BY <1>t, <2>1 DEF IInv, BusyOK, TypeOK
  <2> QED
    BY <2>1, <2>2, <2>3, Outside
<1>10. ASSUME NEW t \in Threads, FlushDone(t) PROVE IInv'
  <2>1. /\ pc[t] = "flush" /\ pc' = [pc EXCEPT ![t] = "idle"] /\ busy' = FALSE
        /\ UNCHANGED <<request, done, status, queue, serving, taken, left, moved, asked>>
    BY <1>10 DEF FlushDone
  <2>2. TypeOK'
    BY <1>t, <2>1 DEF TypeOK, Places
  <2>3. BusyOK'
    BY <1>t, <2>1 DEF IInv, BusyOK, TypeOK
  <2> QED
    BY <2>1, <2>2, <2>3, Outside
<1>11. ASSUME NEW t \in Threads, DiscardDone(t) PROVE IInv'
  <2>1. /\ pc[t] = "discard" /\ pc' = [pc EXCEPT ![t] = "idle"]
        /\ UNCHANGED <<request, done, status, queue, serving, busy, taken, left, moved, asked>>
    BY <1>11 DEF DiscardDone
  <2>2. TypeOK'
    BY <1>t, <2>1 DEF TypeOK, Places
  <2>3. BusyOK'
    BY <1>t, <2>1 DEF IInv, BusyOK, TypeOK
  <2> QED
    BY <2>1, <2>2, <2>3, Outside
<1> QED
  BY <1>0, <1>1, <1>2, <1>3, <1>4, <1>5, <1>6, <1>7, <1>8, <1>9, <1>10, <1>11
  DEF Next, Steps, Request

\* Every behaviour of the queue keeps the inductive invariant.
THEOREM Invariance == Spec => []IInv
<1> QED
  BY InitIInv, NextIInv, PTL DEF Spec

\* Every variable keeps its type, whatever is asked of the device.
THEOREM TypeCorrect == Spec => []TypeOK
<1>1. IInv => TypeOK
  BY DEF IInv
<1> QED
  BY <1>1, Invariance, PTL

\* Whatever is queued has one servicer on its way to it (submit).
THEOREM AlwaysServed == Spec => []SomebodyComes
<1>1. IInv => SomebodyComes
  BY DEF IInv, ServeOK, SomebodyComes
<1> QED
  BY <1>1, Invariance, PTL

\* Nothing the queue or a servicer points at is a frame that has returned.
THEOREM FramesStand == Spec => []FrameStands
<1>1. IInv => FrameStands
  BY DEF IInv
<1> QED
  BY <1>1, Invariance, PTL

\* Nobody sleeps on a request that is done or that nobody will finish.
THEOREM CompletionsReachOwners == Spec => []NoLostCompletion
<1>1. IInv => NoLostCompletion
  BY DEF IInv, WaitOK, NoLostCompletion, Waiting
<1> QED
  BY <1>1, Invariance, PTL

\* A request answered ok moved all its blocks, whatever the transfer limit.
THEOREM OkIsComplete == Spec => []OkMeansAllMoved
<1>1. IInv => OkMeansAllMoved
  BY DEF IInv, MovedOK
<1> QED
  BY <1>1, Invariance, PTL

\* Transfers and flushes exclude one another, whatever discards do (issue,
\* block_flush).
THEOREM FlushesApart == Spec => []FlushApart
<1>1. IInv => FlushApart
  BY DEF IInv, BusyOK, FlushApart
<1> QED
  BY <1>1, Invariance, PTL

NoDiscard == \A t \in Threads : pc[t] # "discard"

\* With a driver that offers no discard, nobody is ever inside it twice
\* (device_acquire).
THEOREM DriverExclusive ==
    ASSUME ~Discards
    PROVE  Spec => []OneInDriver
<1>1. Init => NoDiscard
  BY DEF Init, NoDiscard
<1>2. IInv /\ NoDiscard /\ [Next]_vars => NoDiscard'
  <2> SUFFICES ASSUME IInv, NoDiscard, [Next]_vars PROVE NoDiscard'
    OBVIOUS
  <2>1. pc \in [Threads -> Places]
    BY DEF IInv, TypeOK
  <2> QED
    BY <2>1 DEF NoDiscard, Next, Steps, Request, vars, submit, Await, Return, StopServing,
       TakeNext, issue, ChunkDone, Finish, block_flush, FlushEnters, FlushDone, block_discard,
       DiscardDone, device_acquire, Go
<1>3. IInv /\ NoDiscard => OneInDriver
  BY DEF IInv, BusyOK, NoDiscard, OneInDriver, InDriver
<1> QED
  BY <1>1, <1>2, <1>3, Invariance, PTL DEF Spec
=============================================================================
