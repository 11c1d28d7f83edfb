---------------------------- MODULE CourseProofs ----------------------------
(***************************************************************************)
(* Proofs about the queues, the pool and the hash set of CoursePrograms,   *)
(* for every number of threads, every capacity and every number of items   *)
(* and tasks.                                                              *)
(***************************************************************************)
EXTENDS CoursePrograms, DataLemmas

-----------------------------------------------------------------------------
(* thread_safe_queue: what holds of it in every reachable state *)

\* A producer that is not done has an item left to enqueue.
Pending == \A p \in Producer : qpc[p] # "done" => made[p] < PerProducer

\* What is in the queue or was popped has been enqueued.
Known == /\ \A k \in 1 .. Len(container) : container[k][2] <= made[container[k][1]]
         /\ \A c \in Consumer : \A k \in 1 .. Len(got[c]) : got[c][k][2] <= made[got[c][k][1]]

\* What has been enqueued is in the queue or was popped.
Kept == \A p \in Producer : \A i \in 1 .. made[p] :
            \/ \E k \in 1 .. Len(container) : container[k] = <<p, i>>
            \/ \E c \in Consumer : \E k \in 1 .. Len(got[c]) : got[c][k] = <<p, i>>

\* No item was popped twice.
Apart == \A c, d \in Consumer : \A j \in 1 .. Len(got[c]), k \in 1 .. Len(got[d]) :
             got[c][j] = got[d][k] => c = d /\ j = k

\* x was enqueued before y, if by the same producer.
Earlier(x, y) == x[1] = y[1] => x[2] < y[2]

\* The order of a producer's items: within the queue, within what a consumer popped,
\* and from one to the other.
Ordered ==
    /\ \A j, k \in 1 .. Len(container) : j < k => Earlier(container[j], container[k])
    /\ \A c \in Consumer :
           /\ \A j, k \in 1 .. Len(got[c]) : j < k => Earlier(got[c][j], got[c][k])
           /\ \A j \in 1 .. Len(got[c]), k \in 1 .. Len(container) :
                  Earlier(got[c][j], container[k])

Woken == {p \in Producer : qpc[p] = "again"}

\* A consumer is awake while there is an item, and beside producers that sleep there is
\* a woken one for every free place: the next of them may take one place of several.
Notified ==
    /\ container # <<>> /\ Queue!Asleep(Consumer) # {}
          => \E c \in Consumer : qpc[c] \in {"call", "again"}
    /\ Queue!Asleep(Producer) # {} => Cardinality(Woken) >= Capacity - Len(container)

Contents == Known /\ Kept /\ Apart /\ Ordered

QueueInv == Queue!TypeOK /\ Pending /\ Contents /\ Notified

\* The constants of the queue.
LEMMA QueueConstants ==
  /\ IsFiniteSet(Producer) /\ Producer \cap Consumer = {}
  /\ Capacity \in Nat /\ Capacity > 0 /\ PerProducer \in Nat /\ PerProducer > 0
BY ProgramsAssumption DEF Queue!ThreadAssumption, Queue!CapacityAssumption,
   Queue!QuotaAssumption, Queue!IsFiniteSet, IsFiniteSet

\* The queue's invariant holds initially.
LEMMA QueueInit == Queue!Init => QueueInv
<1> SUFFICES ASSUME Queue!Init PROVE QueueInv
  OBVIOUS
<1>1. Queue!TypeOK
  BY QueueConstants DEF Queue!Init, Queue!TypeOK, Queue!Locations, Queue!Item
<1>2. Pending /\ Contents
  BY QueueConstants DEF Queue!Init, Queue!Thread, Pending, Contents, Known, Kept, Apart, Ordered
<1>3. Notified
  BY DEF Queue!Init, Queue!Thread, Notified, Queue!Asleep
<1> QED
  BY <1>1, <1>2, <1>3 DEF QueueInv

\* A thread moves on and wakes one sleeper of S, if there is any.
LEMMA GoNotifyOneMoves ==
  ASSUME Queue!TypeOK, NEW t \in Queue!Thread, qpc[t] # "asleep",
         NEW l \in Queue!Locations, NEW S \in SUBSET Queue!Thread,
         Queue!GoNotifyOne(t, l, S)
  PROVE  \E Z \in SUBSET Queue!Asleep(S) :
            /\ Z = {} => Queue!Asleep(S) = {}
            /\ qpc' = [u \in Queue!Thread |->
                          IF u = t THEN l ELSE IF u \in Z THEN "again" ELSE qpc[u]]
<1>1. CASE Queue!Asleep(S) = {} /\ qpc' = [qpc EXCEPT ![t] = l]
  <2>1. qpc' = [u \in Queue!Thread |->
                   IF u = t THEN l ELSE IF u \in {} THEN "again" ELSE qpc[u]]
    BY <1>1 DEF Queue!TypeOK
  <2> QED
    BY <1>1, <2>1
<1>2. ASSUME NEW s \in Queue!Asleep(S), qpc' = [qpc EXCEPT ![t] = l, ![s] = "again"]
      PROVE  \E Z \in SUBSET Queue!Asleep(S) :
                /\ Z = {} => Queue!Asleep(S) = {}
                /\ qpc' = [u \in Queue!Thread |->
                          IF u = t THEN l ELSE IF u \in Z THEN "again" ELSE qpc[u]]
  <2>1. s # t /\ s \in Queue!Thread
    BY DEF Queue!Asleep
  <2>2. qpc' = [u \in Queue!Thread |->
                   IF u = t THEN l ELSE IF u \in {s} THEN "again" ELSE qpc[u]]
    BY <1>2, <2>1 DEF Queue!TypeOK
  <2> QED
    BY <2>2
<1> QED
  BY <1>1, <1>2 DEF Queue!GoNotifyOne

\* A step that leaves the items alone leaves what is known of them alone.
LEMMA ContentsStay ==
  ASSUME Contents, UNCHANGED <<container, made, got>>
  PROVE  Contents'
<1>1. container' = container /\ made' = made /\ got' = got
  OBVIOUS
<1>2. Known'
  BY <1>1 DEF Contents, Known
<1>3. Kept'
  BY <1>1 DEF Contents, Kept
<1>4. Apart'
  BY <1>1 DEF Contents, Apart
<1>5. Ordered'
  BY <1>1 DEF Contents, Ordered, Earlier
<1> QED
  BY <1>2, <1>3, <1>4, <1>5 DEF Contents

\* A set of producers has a size, which one more or one less of them changes by one.
LEMMA ProducersCount ==
  ASSUME NEW S \in SUBSET Producer, NEW p
  PROVE  /\ IsFiniteSet(S) /\ Cardinality(S) \in Nat
         /\ Cardinality(S \ {p}) \in Nat /\ Cardinality(S \ {p}) >= Cardinality(S) - 1
         /\ Cardinality(S \cup {p}) \in Nat /\ Cardinality(S \cup {p}) >= Cardinality(S)
         /\ p \notin S => Cardinality(S \cup {p}) = Cardinality(S) + 1
<1>1. IsFiniteSet(S) /\ Cardinality(S) \in Nat
  BY QueueConstants, FS_Subset, FS_CardinalityType
<1>2. /\ IsFiniteSet(S \ {p})
      /\ Cardinality(S \ {p}) = IF p \in S THEN Cardinality(S) - 1 ELSE Cardinality(S)
  BY <1>1, FS_RemoveElement
<1>3. Cardinality(S \ {p}) \in Nat
  BY <1>2, FS_CardinalityType
<1>4. Cardinality(S \cup {p}) = IF p \in S THEN Cardinality(S) ELSE Cardinality(S) + 1
  BY <1>1, FS_AddElement
<1> QED
  BY <1>1, <1>2, <1>3, <1>4

\* What enqueue() does to the items: the next one of p comes last.
LEMMA EnqueueContents ==
  ASSUME QueueInv, NEW p \in Producer, made[p] < PerProducer,
         container' = Append(container, <<p, made[p] + 1>>),
         made' = [made EXCEPT ![p] = @ + 1],
         got' = got
  PROVE  /\ Contents'
         /\ container' \in Seq(Queue!Item) /\ Len(container') = Len(container) + 1
         /\ made' \in [Producer -> 0 .. PerProducer]
<1> DEFINE n == Len(container)  e == <<p, made[p] + 1>>
<1>0. /\ made \in [Producer -> 0 .. PerProducer] /\ container \in Seq(Queue!Item)
      /\ got \in [Consumer -> Seq(Queue!Item)]
      /\ Known /\ Kept /\ Apart /\ Ordered
  BY DEF QueueInv, Queue!TypeOK, Contents
<1>1. e \in Queue!Item
  BY <1>0, QueueConstants DEF Queue!Item
<1>2. /\ container' \in Seq(Queue!Item) /\ Len(container') = n + 1
      /\ container'[n + 1] = e
      /\ \A k \in 1 .. n : container'[k] = container[k] /\ container[k] \in Queue!Item
      /\ n \in Nat
  BY <1>0, <1>1, AppendElements
<1>3. \A k \in 1 .. (n + 1) : k \in 1 .. n \/ k = n + 1
  BY <1>2
<1>4. \A c \in Consumer : \A k \in 1 .. Len(got[c]) : got[c][k] \in Queue!Item
  BY <1>0
<1>5. /\ made' \in [Producer -> 0 .. PerProducer] /\ made'[p] = made[p] + 1
      /\ \A q \in Producer : q # p => made'[q] = made[q]
      /\ \A q \in Producer : made[q] \in Nat /\ made[q] <= made'[q]
  BY <1>0, QueueConstants
<1>6. \A x \in Queue!Item : x[1] \in Producer /\ x[2] \in Nat /\ x = <<x[1], x[2]>>
  BY QueueConstants DEF Queue!Item
<1> HIDE DEF n
<1>7. Known'
  <2>1. \A x \in Queue!Item : x[2] <= made[x[1]] => x[2] <= made'[x[1]]
    BY <1>5, <1>6
  <2>2. e[2] <= made'[e[1]]
    BY <1>5
  <2>3. \A k \in 1 .. (n + 1) : container'[k][2] <= made'[container'[k][1]]
    BY <1>0, <1>2, <1>3, <2>1, <2>2 DEF Known, n
  <2>4. \A c \in Consumer : \A k \in 1 .. Len(got[c]) : got[c][k][2] <= made'[got[c][k][1]]
    BY <1>0, <1>4, <2>1 DEF Known
  <2> QED
    BY <1>2, <2>3, <2>4 DEF Known
<1>8. Kept'
  <2> SUFFICES ASSUME NEW q \in Producer, NEW i \in 1 .. made'[q]
               PROVE  \/ \E k \in 1 .. Len(container') : container'[k] = <<q, i>>
                      \/ \E c \in Consumer : \E k \in 1 .. Len(got[c]) : got[c][k] = <<q, i>>
    BY DEF Kept
  <2>1. CASE q = p /\ i = made[p] + 1
    <3>1. container'[n + 1] = <<q, i>> /\ n + 1 \in 1 .. Len(container')
      BY <1>2, <2>1
    <3> QED
      BY <3>1
  <2>2. CASE i \in 1 .. made[q]
    <3>1. \/ \E k \in 1 .. n : container[k] = <<q, i>>
          \/ \E c \in Consumer : \E k \in 1 .. Len(got[c]) : got[c][k] = <<q, i>>
      BY <1>0, <2>2 DEF Kept, n
    <3>2. \A k \in 1 .. n : k \in 1 .. Len(container')
      BY <1>2
    <3> QED
      BY <1>2, <3>1, <3>2
  <2>3. i \in 1 .. made[q] \/ (q = p /\ i = made[p] + 1)
    <3>1. CASE q = p
      <4>1. i \in 1 .. (made[p] + 1) /\ made[p] \in Nat
        BY <1>5, <3>1
      <4> QED
        BY <3>1, <4>1
    <3>2. CASE q # p
      BY <1>5, <3>2
    <3> QED
      BY <3>1, <3>2
  <2> QED
    BY <2>1, <2>2, <2>3
<1>9. Apart'
  BY <1>0 DEF Apart
<1>10. Ordered'
  <2>1. \A x \in Queue!Item : x[2] <= made[x[1]] => Earlier(x, e)
    BY <1>5, <1>6 DEF Earlier
  <2>2. \A k \in 1 .. n : Earlier(container[k], e)
    BY <1>0, <1>2, <2>1 DEF Known, n
  <2>3. \A c \in Consumer : \A k \in 1 .. Len(got[c]) : Earlier(got[c][k], e)
    BY <1>0, <1>4, <2>1 DEF Known
  <2> HIDE DEF e
  <2>4. \A j, k \in 1 .. (n + 1) : j < k => Earlier(container'[j], container'[k])
    <3> SUFFICES ASSUME NEW j \in 1 .. (n + 1), NEW k \in 1 .. (n + 1), j < k
                 PROVE  Earlier(container'[j], container'[k])
      OBVIOUS
    <3>1. j \in 1 .. n /\ container'[j] = container[j]
      BY <1>2
    <3>2. CASE k = n + 1
      BY <1>2, <2>2, <3>1, <3>2
    <3>3. CASE k \in 1 .. n
      BY <1>0, <1>2, <3>1, <3>3 DEF Ordered, n
    <3> QED
      BY <1>3, <3>2, <3>3
  <2>5. ASSUME NEW c \in Consumer, NEW j \in 1 .. Len(got[c]), NEW k \in 1 .. (n + 1)
        PROVE  Earlier(got[c][j], container'[k])
    <3>1. CASE k = n + 1
      BY <1>2, <2>3, <3>1
    <3>2. CASE k \in 1 .. n
      BY <1>0, <1>2, <3>2 DEF Ordered, n
    <3> QED
      BY <1>3, <3>1, <3>2
  <2>6. \A c \in Consumer : \A j, k \in 1 .. Len(got[c]) : j < k => Earlier(got[c][j], got[c][k])
    BY <1>0 DEF Ordered
  <2> QED
    BY <1>2, <2>4, <2>5, <2>6 DEF Ordered, Earlier
<1> QED
  BY <1>2, <1>5, <1>7, <1>8, <1>9, <1>10 DEF Contents, n

\* What pop() does to the items: the first one goes to c.
LEMMA PopContents ==
  ASSUME QueueInv, NEW c \in Consumer, container # <<>>,
         got' = [got EXCEPT ![c] = Append(@, Head(container))],
         container' = Tail(container),
         made' = made
  PROVE  /\ Contents'
         /\ container' \in Seq(Queue!Item) /\ Len(container') = Len(container) - 1
         /\ got' \in [Consumer -> Seq(Queue!Item)]
<1> DEFINE n == Len(container)  m == Len(got[c])  e == container[1]
<1>0. /\ container \in Seq(Queue!Item) /\ got \in [Consumer -> Seq(Queue!Item)]
      /\ Known /\ Kept /\ Apart /\ Ordered
  BY DEF QueueInv, Queue!TypeOK, Contents
<1>1. /\ n \in Nat /\ n > 0 /\ Head(container) = e /\ e \in Queue!Item
      /\ container' \in Seq(Queue!Item) /\ Len(container') = n - 1
      /\ \A k \in 1 .. (n - 1) : container'[k] = container[k + 1]
      /\ \A k \in 1 .. n : container[k] \in Queue!Item
  BY <1>0, TailElements
<1>2. /\ got'[c] = Append(got[c], e) /\ got[c] \in Seq(Queue!Item)
      /\ \A d \in Consumer : d # c => got'[d] = got[d]
  BY <1>0, <1>1
<1>3. /\ m \in Nat /\ Len(got'[c]) = m + 1 /\ got'[c][m + 1] = e
      /\ \A k \in 1 .. m : got'[c][k] = got[c][k] /\ got[c][k] \in Queue!Item
      /\ Append(got[c], e) \in Seq(Queue!Item)
  BY <1>1, <1>2, AppendElements
<1>4. got' \in [Consumer -> Seq(Queue!Item)]
  BY <1>0, <1>1, <1>3
<1>5. /\ \A k \in 1 .. (m + 1) : k \in 1 .. m \/ k = m + 1
      /\ \A k \in 1 .. (n - 1) : k + 1 \in 1 .. n /\ k + 1 > 1
      /\ 1 \in 1 .. n /\ m + 1 \in 1 .. (m + 1) /\ 1 .. m \subseteq 1 .. (m + 1)
  BY <1>1, <1>3
\* An element of a popped sequence was there before or is the one popped now.
<1>6. \A d \in Consumer : \A k \in 1 .. Len(got'[d]) :
          \/ k \in 1 .. Len(got[d]) /\ got'[d][k] = got[d][k]
          \/ d = c /\ k = m + 1 /\ got'[d][k] = e
  <2> SUFFICES ASSUME NEW d \in Consumer, NEW k \in 1 .. Len(got'[d])
               PROVE  \/ k \in 1 .. Len(got[d]) /\ got'[d][k] = got[d][k]
                      \/ d = c /\ k = m + 1 /\ got'[d][k] = e
    OBVIOUS
  <2>1. CASE d = c
    BY <1>3, <1>5, <2>1
  <2>2. CASE d # c
    BY <1>2, <2>2
  <2> QED
    BY <2>1, <2>2
<1>7. \A d \in Consumer : \A k \in 1 .. Len(got[d]) :
          k \in 1 .. Len(got'[d]) /\ got'[d][k] = got[d][k]
  <2> SUFFICES ASSUME NEW d \in Consumer, NEW k \in 1 .. Len(got[d])
               PROVE  k \in 1 .. Len(got'[d]) /\ got'[d][k] = got[d][k]
    OBVIOUS
  <2>1. CASE d = c
    BY <1>3, <1>5, <2>1
  <2>2. CASE d # c
    BY <1>2, <2>2
  <2> QED
    BY <2>1, <2>2
<1>8. /\ \A x, y \in Queue!Item : Earlier(x, y) /\ Earlier(y, x) => x # y
      /\ \A x \in Queue!Item : x[2] \in Nat
  BY QueueConstants DEF Earlier, Queue!Item
\* What was popped before is not what is popped now.
<1>9. \A d \in Consumer : \A k \in 1 .. Len(got[d]) : got[d][k] # e /\ Earlier(got[d][k], e)
  <2> SUFFICES ASSUME NEW d \in Consumer, NEW k \in 1 .. Len(got[d])
               PROVE  got[d][k] # e /\ Earlier(got[d][k], e)
    OBVIOUS
  <2>1. Earlier(got[d][k], e) /\ got[d][k] \in Queue!Item
    BY <1>0, <1>5 DEF Ordered
  <2> QED
    BY <1>1, <1>8, <2>1 DEF Earlier
<1> HIDE DEF n, m, e
<1>10. Known'
  <2>1. \A k \in 1 .. (n - 1) : container'[k][2] <= made[container'[k][1]]
    BY <1>0, <1>1, <1>5 DEF Known, n
  <2>2. e[2] <= made[e[1]]
    BY <1>0, <1>5 DEF Known, n, e
  <2>3. \A d \in Consumer : \A k \in 1 .. Len(got'[d]) : got'[d][k][2] <= made[got'[d][k][1]]
    BY <1>0, <1>6, <2>2 DEF Known
  <2> QED
    BY <1>1, <2>1, <2>3 DEF Known
<1>11. Kept'
  <2> SUFFICES ASSUME NEW q \in Producer, NEW i \in 1 .. made[q]
               PROVE  \/ \E k \in 1 .. Len(container') : container'[k] = <<q, i>>
                      \/ \E d \in Consumer : \E k \in 1 .. Len(got'[d]) : got'[d][k] = <<q, i>>
    BY DEF Kept
  <2>1. CASE \E d \in Consumer : \E k \in 1 .. Len(got[d]) : got[d][k] = <<q, i>>
    BY <1>7, <2>1
  <2>2. ASSUME NEW k \in 1 .. n, container[k] = <<q, i>>
        PROVE  \/ \E j \in 1 .. Len(container') : container'[j] = <<q, i>>
               \/ \E d \in Consumer : \E j \in 1 .. Len(got'[d]) : got'[d][j] = <<q, i>>
    <3>1. CASE k = 1
      <4>1. got'[c][m + 1] = <<q, i>> /\ m + 1 \in 1 .. Len(got'[c])
        BY <1>3, <1>5, <2>2, <3>1 DEF e
      <4> QED
        BY <4>1
    <3>2. CASE k > 1
      <4>1. k - 1 \in 1 .. Len(container') /\ container'[k - 1] = <<q, i>>
        BY <1>1, <2>2, <3>2
      <4> QED
        BY <4>1
    <3>3. k = 1 \/ k > 1
      BY <1>1
    <3> QED
      BY <3>1, <3>2, <3>3
  <2> QED
    BY <1>0, <2>1, <2>2 DEF Kept, n
<1>12. Apart'
  <2> SUFFICES ASSUME NEW a \in Consumer, NEW d \in Consumer,
                      NEW j \in 1 .. Len(got'[a]), NEW k \in 1 .. Len(got'[d]),
                      got'[a][j] = got'[d][k]
               PROVE  a = d /\ j = k
    BY DEF Apart
  <2>1. CASE j \in 1 .. Len(got[a]) /\ got'[a][j] = got[a][j]
    <3>1. k \in 1 .. Len(got[d]) /\ got'[d][k] = got[d][k]
      BY <1>6, <1>9, <2>1
    <3> QED
      BY <1>0, <2>1, <3>1 DEF Apart
  <2>2. CASE a = c /\ j = m + 1 /\ got'[a][j] = e
    BY <1>6, <1>9, <2>2
  <2> QED
    BY <1>6, <2>1, <2>2
<1>13. Ordered'
  <2>1. \A j, k \in 1 .. (n - 1) : j < k => Earlier(container'[j], container'[k])
    <3> SUFFICES ASSUME NEW j \in 1 .. (n - 1), NEW k \in 1 .. (n - 1), j < k
                 PROVE  Earlier(container'[j], container'[k])
      OBVIOUS
    <3>1. j + 1 \in 1 .. n /\ k + 1 \in 1 .. n /\ j + 1 < k + 1
      BY <1>1
    <3>2. Earlier(container[j + 1], container[k + 1])
      BY <1>0, <3>1 DEF Ordered, n
    <3> QED
      BY <1>1, <3>2
  <2>2. ASSUME NEW d \in Consumer, NEW j \in 1 .. Len(got'[d]), NEW k \in 1 .. Len(got'[d]), j < k
        PROVE  Earlier(got'[d][j], got'[d][k])
    <3>1. CASE k \in 1 .. Len(got[d]) /\ got'[d][k] = got[d][k]
      <4>1. j \in 1 .. Len(got[d])
        BY <1>0, <2>2, <3>1
      <4> QED
        BY <1>0, <1>7, <2>2, <3>1, <4>1 DEF Ordered
    <3>2. CASE d = c /\ k = m + 1 /\ got'[d][k] = e
      <4>1. j \in 1 .. Len(got[d])
        BY <1>3, <2>2, <3>2 DEF m
      <4> QED
        BY <1>7, <1>9, <3>2, <4>1
    <3> QED
      BY <1>6, <3>1, <3>2
  <2>3. ASSUME NEW d \in Consumer, NEW j \in 1 .. Len(got'[d]), NEW k \in 1 .. (n - 1)
        PROVE  Earlier(got'[d][j], container'[k])
    <3>1. k + 1 \in 1 .. n /\ 1 < k + 1 /\ container'[k] = container[k + 1]
      BY <1>1, <1>5
    <3>2. CASE j \in 1 .. Len(got[d]) /\ got'[d][j] = got[d][j]
      BY <1>0, <3>1, <3>2 DEF Ordered, n
    <3>3. CASE got'[d][j] = e
      BY <1>0, <1>5, <3>1, <3>3 DEF Ordered, n, e
    <3> QED
      BY <1>6, <3>2, <3>3
  <2> QED
    BY <1>1, <2>1, <2>2, <2>3 DEF Ordered, Earlier
<1> QED
  BY <1>1, <1>4, <1>10, <1>11, <1>12, <1>13 DEF Contents, n

\* One step of a producer.  A woken one that takes a place leaves one woken producer
\* less and one place less.
LEMMA ProduceInv ==
  ASSUME QueueInv, NEW p \in Producer, Queue!Produce(p)
  PROVE  QueueInv'
<1>0. /\ container \in Seq(Queue!Item) /\ Len(container) \in Nat /\ Len(container) <= Capacity
      /\ qalive \in BOOLEAN /\ qpc \in [Queue!Thread -> Queue!Locations]
      /\ made \in [Producer -> 0 .. PerProducer] /\ got \in [Consumer -> Seq(Queue!Item)]
      /\ p \in Queue!Thread /\ p \notin Consumer
  BY QueueConstants DEF QueueInv, Queue!TypeOK, Queue!Thread
<1>1. CASE Queue!EnqueueThrows(p)
  <2>1. /\ qpc[p] = "call" /\ qpc' = [qpc EXCEPT ![p] = "thrown"]
        /\ UNCHANGED <<container, qalive, made, got>>
    BY <1>1 DEF Queue!EnqueueThrows
  <2>2. Queue!TypeOK' /\ Pending' /\ Contents'
    BY <1>0, <2>1, ContentsStay DEF QueueInv, Queue!TypeOK, Queue!Locations, Pending
  <2>3. Woken' = Woken
    BY <1>0, <2>1 DEF Woken
  <2>4. /\ \A c \in Consumer : qpc'[c] = qpc[c]
        /\ Queue!Asleep(Consumer)' = Queue!Asleep(Consumer)
        /\ Queue!Asleep(Producer)' = Queue!Asleep(Producer)
    BY <1>0, <2>1 DEF Queue!Asleep, Queue!Thread
  <2>5. Notified'
    BY <2>1, <2>3, <2>4 DEF QueueInv, Notified
  <2> QED
    BY <2>2, <2>5 DEF QueueInv
<1>2. CASE Queue!EnqueueWaits(p)
  <2>1. /\ qpc[p] \in {"call", "again"} /\ qpc' = [qpc EXCEPT ![p] = "asleep"]
        /\ Len(container) = Capacity
        /\ UNCHANGED <<container, qalive, made, got>>
    BY <1>0, <1>2, QueueConstants DEF Queue!EnqueueWaits
  <2>2. Queue!TypeOK' /\ Pending' /\ Contents'
    BY <1>0, <2>1, ContentsStay DEF QueueInv, Queue!TypeOK, Queue!Locations, Pending
  <2>3. /\ \A c \in Consumer : qpc'[c] = qpc[c]
        /\ Queue!Asleep(Consumer)' = Queue!Asleep(Consumer)
    BY <1>0, <2>1 DEF Queue!Asleep, Queue!Thread
  <2>4. Cardinality(Woken') >= Capacity - Len(container')
    <3>1. Cardinality(Woken)' \in Nat
      BY ProducersCount DEF Woken
    <3> QED
      BY <2>1, <3>1, QueueConstants
  <2>5. Notified'
    BY <2>1, <2>3, <2>4 DEF QueueInv, Notified
  <2> QED
    BY <2>2, <2>5 DEF QueueInv
<1>3. CASE Queue!Enqueue(p)
  <2> DEFINE l == IF made[p] + 1 = PerProducer THEN "done" ELSE "call"
  <2>1. /\ qpc[p] \in {"call", "again"} /\ made[p] < PerProducer
        /\ Len(container) < Capacity
        /\ container' = Append(container, <<p, made[p] + 1>>)
        /\ made' = [made EXCEPT ![p] = @ + 1]
        /\ got' = got /\ qalive' = qalive
        /\ Queue!GoNotifyOne(p, l, Consumer)
    BY <1>3 DEF Queue!Enqueue, QueueInv, Pending
  <2>2. /\ Contents' /\ made' \in [Producer -> 0 .. PerProducer]
        /\ container' \in Seq(Queue!Item) /\ Len(container') = Len(container) + 1
    BY <2>1, EnqueueContents
  <2>3. l \in {"call", "done"} /\ l \in Queue!Locations
    BY DEF Queue!Locations
  <2>4. PICK Z \in SUBSET Queue!Asleep(Consumer) :
          /\ Z = {} => Queue!Asleep(Consumer) = {}
          /\ qpc' = [u \in Queue!Thread |->
                        IF u = p THEN l ELSE IF u \in Z THEN "again" ELSE qpc[u]]
    <3>1. Queue!TypeOK /\ qpc[p] # "asleep" /\ Consumer \in SUBSET Queue!Thread
      BY <2>1 DEF QueueInv, Queue!Thread
    <3> HIDE DEF l
    <3> QED
      BY <1>0, <2>1, <2>3, <3>1, GoNotifyOneMoves
  <2>5. Z \subseteq Consumer /\ p \notin Z
    BY <1>0 DEF Queue!Asleep
  <2>6. Queue!TypeOK'
    <3>1. qpc' \in [Queue!Thread -> Queue!Locations]
      BY <1>0, <2>3, <2>4 DEF Queue!Locations
    <3> QED
      BY <1>0, <2>1, <2>2, <3>1, QueueConstants DEF Queue!TypeOK
  <2>7. Pending'
    <3> SUFFICES ASSUME NEW q \in Producer, qpc'[q] # "done"
                 PROVE  made'[q] < PerProducer
      BY DEF Pending
    <3>1. CASE q = p
      <4>1. made[p] + 1 # PerProducer /\ made'[p] = made[p] + 1
        BY <1>0, <2>1, <2>4, <3>1
      <4> QED
        BY <1>0, <2>1, <3>1, <4>1, QueueConstants
    <3>2. CASE q # p
      <4>1. q \notin Z /\ q \in Queue!Thread
        BY <2>5, QueueConstants DEF Queue!Thread
      <4>2. qpc[q] # "done" /\ made'[q] = made[q]
        BY <1>0, <2>1, <2>4, <3>2, <4>1
      <4> QED
        BY <4>2 DEF QueueInv, Pending
    <3> QED
      BY <3>1, <3>2
  <2>8. Woken' = Woken \ {p}
    <3>1. \A q \in Producer : q # p => qpc'[q] = qpc[q]
      BY <2>4, <2>5, QueueConstants DEF Queue!Thread
    <3>2. qpc'[p] # "again"
      BY <1>0, <2>3, <2>4
    <3> QED
      BY <3>1, <3>2 DEF Woken
  <2>9. Queue!Asleep(Producer)' = Queue!Asleep(Producer)
    <3>1. \A q \in Producer : q # p => qpc'[q] = qpc[q]
      BY <2>4, <2>5, QueueConstants DEF Queue!Thread
    <3>2. qpc'[p] # "asleep" /\ qpc[p] # "asleep"
      BY <1>0, <2>1, <2>3, <2>4
    <3> QED
      BY <3>1, <3>2 DEF Queue!Asleep
  <2>10. Queue!Asleep(Producer)' # {} => Cardinality(Woken') >= Capacity - Len(container')
    <3>1. /\ Cardinality(Woken \ {p}) >= Cardinality(Woken) - 1
          /\ Cardinality(Woken \ {p}) \in Nat /\ Cardinality(Woken) \in Nat
      BY ProducersCount DEF Woken
    <3>2. Queue!Asleep(Producer) # {} => Cardinality(Woken) >= Capacity - Len(container)
      BY DEF QueueInv, Notified
    <3> QED
      BY <1>0, <2>2, <2>8, <2>9, <3>1, <3>2, QueueConstants
  <2>11. Queue!Asleep(Consumer)' # {} => \E c \in Consumer : qpc'[c] \in {"call", "again"}
    <3>1. CASE Z = {}
      BY <1>0, <2>4, <3>1 DEF Queue!Asleep, Queue!Thread
    <3>2. CASE Z # {}
      <4>1. PICK z \in Z : z \in Consumer /\ z # p /\ z \in Queue!Thread
        BY <2>5, <3>2 DEF Queue!Thread
      <4>2. qpc'[z] = "again"
        BY <2>4, <4>1
      <4> QED
        BY <4>1, <4>2
    <3> QED
      BY <3>1, <3>2
  <2>12. Notified'
    BY <2>10, <2>11 DEF Notified
  <2> QED
    BY <2>2, <2>6, <2>7, <2>12 DEF QueueInv
<1> QED
  BY <1>1, <1>2, <1>3 DEF Queue!Produce

\* One step of a consumer.  What it takes leaves one place more, and one of the
\* producers that sleep is woken for it.
LEMMA ConsumeInv ==
  ASSUME QueueInv, NEW c \in Consumer, Queue!Consume(c)
  PROVE  QueueInv'
<1>0. /\ container \in Seq(Queue!Item) /\ Len(container) \in Nat /\ Len(container) <= Capacity
      /\ qalive \in BOOLEAN /\ qpc \in [Queue!Thread -> Queue!Locations]
      /\ made \in [Producer -> 0 .. PerProducer] /\ got \in [Consumer -> Seq(Queue!Item)]
      /\ c \in Queue!Thread /\ c \notin Producer
  BY QueueConstants DEF QueueInv, Queue!TypeOK, Queue!Thread
<1>1. ASSUME NEW l \in {"thrown", "asleep"}, container = <<>>,
             qpc' = [qpc EXCEPT ![c] = l], UNCHANGED <<container, qalive, made, got>>
      PROVE  QueueInv'
  <2>1. Queue!TypeOK'
    BY <1>0, <1>1 DEF Queue!TypeOK, Queue!Locations
  <2>2. \A q \in Producer : qpc'[q] = qpc[q]
    BY <1>0, <1>1 DEF Queue!Thread
  <2>3. Pending' /\ Contents'
    BY <1>1, <2>2, ContentsStay DEF QueueInv, Pending
  <2>4. Woken' = Woken /\ Queue!Asleep(Producer)' = Queue!Asleep(Producer)
    BY <2>2 DEF Woken, Queue!Asleep
  <2>5. Notified'
    BY <1>1, <2>4 DEF QueueInv, Notified
  <2> QED
    BY <2>1, <2>3, <2>5 DEF QueueInv
<1>2. CASE Queue!PopThrows(c)
  BY <1>1, <1>2 DEF Queue!PopThrows
<1>3. CASE Queue!PopWaits(c)
  BY <1>1, <1>3 DEF Queue!PopWaits
<1>4. CASE Queue!Pop(c)
  <2>1. /\ qpc[c] \in {"call", "again"} /\ container # <<>>
        /\ got' = [got EXCEPT ![c] = Append(@, Head(container))]
        /\ container' = Tail(container)
        /\ made' = made /\ qalive' = qalive
        /\ Queue!GoNotifyOne(c, "call", Producer)
    BY <1>4 DEF Queue!Pop
  <2>2. /\ Contents' /\ got' \in [Consumer -> Seq(Queue!Item)]
        /\ container' \in Seq(Queue!Item) /\ Len(container') = Len(container) - 1
    BY <2>1, PopContents
  <2>3. PICK Z \in SUBSET Queue!Asleep(Producer) :
          /\ Z = {} => Queue!Asleep(Producer) = {}
          /\ qpc' = [u \in Queue!Thread |->
                        IF u = c THEN "call" ELSE IF u \in Z THEN "again" ELSE qpc[u]]
    <3>1. /\ Queue!TypeOK /\ qpc[c] # "asleep" /\ Producer \in SUBSET Queue!Thread
          /\ "call" \in Queue!Locations
      BY <2>1 DEF QueueInv, Queue!Thread, Queue!Locations
    <3> QED
      BY <1>0, <2>1, <3>1, GoNotifyOneMoves
  <2>4. /\ Z \subseteq Producer /\ c \notin Z
        /\ \A z \in Z : qpc[z] = "asleep" /\ z \in Queue!Thread
    BY <1>0 DEF Queue!Asleep, Queue!Thread
  <2>5. Queue!TypeOK'
    <3>1. qpc' \in [Queue!Thread -> Queue!Locations]
      BY <1>0, <2>3 DEF Queue!Locations
    <3> QED
      BY <1>0, <2>1, <2>2, <3>1, QueueConstants DEF Queue!TypeOK
  <2>6. \A q \in Producer : qpc'[q] = IF q \in Z THEN "again" ELSE qpc[q]
    BY <1>0, <2>3 DEF Queue!Thread
  <2>7. Pending'
    BY <2>1, <2>4, <2>6 DEF QueueInv, Pending
  <2>8. Woken' = Woken \cup Z /\ Z \cap Woken = {}
    BY <2>4, <2>6 DEF Woken
  <2>9. Queue!Asleep(Producer)' = Queue!Asleep(Producer) \ Z
    BY <2>4, <2>6 DEF Queue!Asleep
  <2>10. Queue!Asleep(Producer)' # {} => Cardinality(Woken') >= Capacity - Len(container')
    <3> SUFFICES ASSUME Queue!Asleep(Producer)' # {}
                 PROVE  Cardinality(Woken') >= Capacity - Len(container')
      OBVIOUS
    <3>1. PICK z \in Z : z \notin Woken
      BY <2>3, <2>8, <2>9
    <3>2. Cardinality(Woken) >= Capacity - Len(container)
      BY <2>9 DEF QueueInv, Notified
    <3>3. /\ Cardinality(Woken \cup {z}) = Cardinality(Woken) + 1
          /\ Cardinality(Woken) \in Nat
      BY <3>1, ProducersCount DEF Woken
    <3>4. Woken \cup {z} \subseteq Woken' /\ IsFiniteSet(Woken') /\ Cardinality(Woken') \in Nat
      BY <2>8, <3>1, ProducersCount DEF Woken
    <3>5. Cardinality(Woken \cup {z}) <= Cardinality(Woken')
      BY <3>4, FS_Subset
    <3> QED
      BY <1>0, <2>2, <3>2, <3>3, <3>4, <3>5, QueueConstants
  <2>11. \E d \in Consumer : qpc'[d] \in {"call", "again"}
    BY <1>0, <2>3
  <2>12. Notified'
    BY <2>10, <2>11 DEF Notified
  <2> QED
    BY <2>2, <2>5, <2>7, <2>12 DEF QueueInv
<1> QED
  BY <1>2, <1>3, <1>4 DEF Queue!Consume

\* A wait that returns by itself, and shutdown(), which wakes nobody.
LEMMA WakeInv ==
  ASSUME QueueInv, NEW t \in Queue!Thread, Queue!WakeSpuriously(t)
  PROVE  QueueInv'
<1>0. /\ container \in Seq(Queue!Item) /\ Len(container) \in Nat
      /\ qpc \in [Queue!Thread -> Queue!Locations]
  BY DEF QueueInv, Queue!TypeOK
<1>1. /\ qpc[t] = "asleep" /\ qpc' = [qpc EXCEPT ![t] = "again"]
      /\ UNCHANGED <<container, qalive, made, got>>
  BY DEF Queue!WakeSpuriously
<1>2. Queue!TypeOK'
  BY <1>0, <1>1 DEF QueueInv, Queue!TypeOK, Queue!Locations
<1>3. \A u \in Queue!Thread : qpc'[u] = IF u = t THEN "again" ELSE qpc[u]
  BY <1>0, <1>1
<1>4. Pending' /\ Contents'
  BY <1>1, <1>3, ContentsStay DEF QueueInv, Pending, Queue!Thread
<1>5. /\ Queue!Asleep(Consumer)' \subseteq Queue!Asleep(Consumer)
      /\ Queue!Asleep(Producer)' \subseteq Queue!Asleep(Producer)
      /\ Woken \subseteq Woken'
  BY <1>1, <1>3 DEF Queue!Asleep, Queue!Thread, Woken
<1>6. \A c \in Consumer : qpc[c] \in {"call", "again"} => qpc'[c] \in {"call", "again"}
  BY <1>3 DEF Queue!Thread
<1>7. Cardinality(Woken) <= Cardinality(Woken') /\ Cardinality(Woken) \in Nat
      /\ Cardinality(Woken') \in Nat
  <2>1. /\ IsFiniteSet(Woken') /\ Cardinality(Woken') \in Nat
        /\ Cardinality(Woken) \in Nat
    BY ProducersCount DEF Woken
  <2> QED
    BY <1>5, <2>1, FS_Subset
<1>8. Queue!Asleep(Producer)' # {} => Cardinality(Woken') >= Capacity - Len(container')
  <2>1. Queue!Asleep(Producer)' # {} => Cardinality(Woken) >= Capacity - Len(container)
    BY <1>5 DEF QueueInv, Notified
  <2> QED
    BY <1>0, <1>1, <1>7, <2>1, QueueConstants
<1>9. container' # <<>> /\ Queue!Asleep(Consumer)' # {}
          => \E c \in Consumer : qpc'[c] \in {"call", "again"}
  BY <1>1, <1>5, <1>6 DEF QueueInv, Notified
<1> QED
  BY <1>2, <1>4, <1>8, <1>9 DEF QueueInv, Notified

LEMMA ShutdownInv ==
  ASSUME QueueInv, Queue!Shutdown
  PROVE  QueueInv'
<1>1. qalive' = FALSE /\ UNCHANGED <<container, qpc, made, got>>
  BY DEF Queue!Shutdown
<1>2. Queue!TypeOK'
  BY <1>1 DEF QueueInv, Queue!TypeOK
<1>3. Pending' /\ Contents'
  BY <1>1, ContentsStay DEF QueueInv, Pending
<1>4. Notified'
  BY <1>1 DEF QueueInv, Notified, Woken, Queue!Asleep
<1> QED
  BY <1>2, <1>3, <1>4 DEF QueueInv

\* A step in which the queue does nothing.
LEMMA QueueStays ==
  ASSUME QueueInv, UNCHANGED queueVars
  PROVE  QueueInv'
<1>1. UNCHANGED <<container, qalive, qpc, made, got>>
  BY DEF queueVars
<1>2. Queue!TypeOK' /\ Pending' /\ Contents'
  BY <1>1, ContentsStay DEF QueueInv, Queue!TypeOK, Pending
<1>3. Notified'
  BY <1>1 DEF QueueInv, Notified, Woken, Queue!Asleep
<1> QED
  BY <1>2, <1>3 DEF QueueInv

\* The order that consumers see is that of the parts of which it is made.
LEMMA OrderedIsFifo == QueueInv => Queue!PerProducerFifo
<1> SUFFICES ASSUME QueueInv, NEW c \in Consumer
             PROVE  Queue!InOrder(got[c] \o container)
  BY DEF Queue!PerProducerFifo
<1> DEFINE s == got[c] \o container  m == Len(got[c])  n == Len(container)
<1>1. /\ got[c] \in Seq(Queue!Item) /\ container \in Seq(Queue!Item) /\ Ordered
      /\ m \in Nat /\ n \in Nat
  BY DEF QueueInv, Queue!TypeOK, Contents
<1>2. /\ Len(s) = m + n
      /\ \A k \in 1 .. m : s[k] = got[c][k]
      /\ \A k \in (m + 1) .. (m + n) : k - m \in 1 .. n /\ s[k] = container[k - m]
  BY <1>1
<1> HIDE DEF s, m, n
<1>3. ASSUME NEW j \in 1 .. Len(s), NEW k \in 1 .. Len(s), j < k
      PROVE  Earlier(s[j], s[k])
  <2>1. CASE j \in 1 .. m /\ k \in 1 .. m
    BY <1>1, <1>2, <1>3, <2>1 DEF Ordered, m
  <2>2. CASE j \in 1 .. m /\ k \in (m + 1) .. (m + n)
    BY <1>1, <1>2, <2>2 DEF Ordered, m, n
  <2>3. CASE j \in (m + 1) .. (m + n) /\ k \in (m + 1) .. (m + n)
    <3>1. j - m \in 1 .. n /\ k - m \in 1 .. n /\ j - m < k - m
      BY <1>1, <1>2, <1>3, <2>3
    <3> QED
      BY <1>1, <1>2, <2>3, <3>1 DEF Ordered, n
  <2> QED
    BY <1>1, <1>2, <1>3, <2>1, <2>2, <2>3
<1> QED
  BY <1>3 DEF Queue!InOrder, Earlier, s

\* Both modules count with the same Cardinality.
LEMMA QueueCardinality == \A S : Queue!Cardinality(S) = Cardinality(S)
BY DEF Queue!Cardinality, Cardinality, Queue!IsFiniteSet, IsFiniteSet

\* An item that was enqueued has exactly one place, and one that was not has none.
LEMMA OnePlaceEach == QueueInv => Queue!NoLossNoDuplicate
<1> SUFFICES ASSUME QueueInv, NEW p \in Producer, NEW i \in 1 .. PerProducer
             PROVE  Cardinality(Queue!Popped(<<p, i>>)) + Cardinality(Queue!Inside(<<p, i>>))
                        = IF i <= made[p] THEN 1 ELSE 0
  BY QueueCardinality DEF Queue!NoLossNoDuplicate
<1> DEFINE inside == Queue!Inside(<<p, i>>)  places == Queue!Popped(<<p, i>>)
<1>0. /\ Known /\ Kept /\ Apart /\ Ordered
      /\ made \in [Producer -> 0 .. PerProducer]
      /\ container \in Seq(Queue!Item) /\ got \in [Consumer -> Seq(Queue!Item)]
  BY DEF QueueInv, Queue!TypeOK, Contents
<1>1. i \in Nat /\ ~Earlier(<<p, i>>, <<p, i>>)
  BY QueueConstants DEF Earlier
<1>2. /\ inside = {k \in 1 .. Len(container) : container[k] = <<p, i>>}
      /\ \A x : x \in places <=>
             \E c \in Consumer : \E k \in 1 .. Len(got[c]) : got[c][k] = <<p, i>> /\ x = <<c, k>>
  BY DEF Queue!Inside, Queue!Popped
<1> HIDE DEF inside, places
<1>3. CASE i > made[p]
  <2>1. \A k \in 1 .. Len(container) : container[k] # <<p, i>>
    BY <1>0, <1>1, <1>3 DEF Known
  <2>2. \A c \in Consumer : \A k \in 1 .. Len(got[c]) : got[c][k] # <<p, i>>
    BY <1>0, <1>1, <1>3 DEF Known
  <2>3. places = {} /\ inside = {}
    BY <1>2, <2>1, <2>2
  <2>4. Cardinality(places) = 0 /\ Cardinality(inside) = 0 /\ ~(i <= made[p])
    BY <1>0, <1>1, <1>3, <2>3, FS_EmptySet
  <2> QED
    BY <2>4 DEF places, inside
<1>4. CASE i <= made[p] /\ inside # {}
  <2>1. PICK k \in 1 .. Len(container) : container[k] = <<p, i>>
    BY <1>2, <1>4
  <2>2. \A j \in 1 .. Len(container) : container[j] = <<p, i>> => j = k
    <3> SUFFICES ASSUME NEW j \in 1 .. Len(container), container[j] = <<p, i>>, j # k
                 PROVE  FALSE
      OBVIOUS
    <3>1. j < k \/ k < j
      BY <1>0
    <3> QED
      BY <1>0, <1>1, <2>1, <3>1 DEF Ordered
  <2>3. inside = {k}
    BY <1>2, <2>1, <2>2
  <2>4. \A c \in Consumer : \A j \in 1 .. Len(got[c]) : got[c][j] # <<p, i>>
    BY <1>0, <1>1, <2>1 DEF Ordered
  <2>5. places = {}
    BY <1>2, <2>4
  <2>6. Cardinality(places) = 0 /\ Cardinality(inside) = 1
    BY <2>3, <2>5, FS_EmptySet, FS_Singleton
  <2> QED
    BY <1>4, <2>6 DEF places, inside
<1>5. CASE i <= made[p] /\ inside = {}
  <2>0. PICK c \in Consumer : \E k \in 1 .. Len(got[c]) : got[c][k] = <<p, i>>
    <3>1. i \in 1 .. made[p]
      BY <1>0, <1>5
    <3> QED
      BY <1>0, <1>2, <1>5, <3>1 DEF Kept
  <2>1. PICK k \in 1 .. Len(got[c]) : got[c][k] = <<p, i>>
    BY <2>0
  <2>2. \A d \in Consumer : \A j \in 1 .. Len(got[d]) : got[d][j] = <<p, i>> => d = c /\ j = k
    BY <1>0, <2>1 DEF Apart
  <2>3. \A x : x \in places <=> x = <<c, k>>
    BY <1>2, <2>1, <2>2
  <2>4. places = {<<c, k>>}
    BY <2>3
  <2>5. Cardinality(places) = 1 /\ Cardinality(inside) = 0
    BY <1>5, <2>4, FS_EmptySet, FS_Singleton
  <2> QED
    BY <1>5, <2>5 DEF places, inside
<1> QED
  <2>1. i > made[p] \/ i <= made[p]
    BY <1>0, <1>1
  <2> QED
    BY <1>3, <1>4, <1>5, <2>1

\* Beside sleeping producers and a free place, one that was woken for it.
LEMMA NotifiedIsEnough == QueueInv => Queue!NoLostNotification
<1> SUFFICES ASSUME QueueInv PROVE Queue!NoLostNotification
  OBVIOUS
<1>1. ASSUME Len(container) < Capacity, Queue!Asleep(Producer) # {}
      PROVE  \E p \in Producer : qpc[p] = "again"
  <2>1. Len(container) \in Nat /\ Cardinality(Woken) >= Capacity - Len(container)
    BY <1>1 DEF QueueInv, Queue!TypeOK, Notified
  <2>2. Woken # {}
    BY <1>1, <2>1, FS_EmptySet, QueueConstants
  <2> QED
    BY <2>2 DEF Woken
<1> QED
  BY <1>1 DEF QueueInv, Notified, Queue!NoLostNotification

-----------------------------------------------------------------------------
(* thread_pool: where its tasks are *)

Held(t, h) == \E w \in Worker : h[w] = t

\* The accepted tasks a are those that are queued in q, held by a worker according to h,
\* or run in r, and each is at one place once.
Placed(q, h, r, a) ==
    /\ \A t \in Pool!Task : t \in a <=> InSeq(t, q) \/ Held(t, h) \/ InSeq(t, r)
    /\ \A t \in Pool!Task : /\ ~(InSeq(t, q) /\ Held(t, h))
                            /\ ~(InSeq(t, q) /\ InSeq(t, r))
                            /\ ~(Held(t, h) /\ InSeq(t, r))
    /\ Once(q) /\ Once(r)
    /\ \A v, w \in Worker : h[v] = h[w] /\ h[v] # None => v = w

\* A client's tasks are numbered in turn, and a task that another one submitted has that
\* one behind it: so neither is accepted twice.
Parent(t) == [client |-> t.client, index |-> t.index, child |-> FALSE]
Numbered == \A t \in accepted : /\ ~t.child => t.index <= submitted[t.client]
                                /\ t.child => InSeq(Parent(t), ran)

\* Shutdown goes through its stages, and no worker leaves before the queue is closed and
\* empty; from then on nothing is queued.
Stages ==
    /\ \A c \in Client : cpc[c] \in {"shutdown", "close", "join"} => c \in Closer
    /\ \A c \in Client : cpc[c] = "enqueue" => submitted[c] < Quota
    /\ \A c \in Closer : cpc[c] \in {"join", "done"} => ~isAlive
    /\ \A c \in Closer : cpc[c] = "done" => joined = Worker
    /\ \A w \in Worker : wpc[w] = "nested" => Pool!Nests(task[w])
    /\ \A w \in Worker : wpc[w] = "exited" => ~isAlive /\ queue = <<>>

PoolInv == Pool!TypeOK /\ Placed(queue, task, ran, accepted) /\ Numbered /\ Stages

\* The constants of the pool.
LEMMA PoolConstants ==
  /\ Quota \in Nat /\ Getter \subseteq Client /\ Closer \subseteq Client
  /\ Worker # {} /\ Worker \cap Client = {}
  /\ None \notin Worker /\ None \notin Client /\ None \notin Pool!Task
BY ProgramsAssumption DEF Pool!ClientAssumption, Pool!QuotaAssumption, Pool!WorkerAssumption

\* A new task is queued.
LEMMA PutPlaced ==
  ASSUME NEW q \in Seq(Pool!Task), NEW h, NEW r, NEW a, NEW t \in Pool!Task,
         Placed(q, h, r, a), t \notin a
  PROVE  Placed(Append(q, t), h, r, a \cup {t})
<1>1. /\ \A x : InSeq(x, Append(q, t)) <=> InSeq(x, q) \/ x = t
      /\ Once(q) /\ ~InSeq(t, q) => Once(Append(q, t))
  BY InSeqAppend
<1>2. ~InSeq(t, q) /\ ~Held(t, h) /\ ~InSeq(t, r)
  BY DEF Placed
<1> QED
  BY <1>1, <1>2 DEF Placed

\* A worker without a task takes the first one of the queue.
LEMMA TakePlaced ==
  ASSUME NEW q \in Seq(Pool!Task), q # <<>>, NEW h \in [Worker -> Pool!Task \cup {None}],
         NEW r, NEW a, NEW w \in Worker, h[w] = None, Placed(q, h, r, a)
  PROVE  Placed(Tail(q), [h EXCEPT ![w] = Head(q)], r, a)
<1> DEFINE g == [h EXCEPT ![w] = Head(q)]  e == Head(q)
<1>1. /\ \A x : InSeq(x, q) <=> InSeq(x, Tail(q)) \/ x = e
      /\ Once(Tail(q)) /\ ~InSeq(e, Tail(q))
  BY InSeqTail DEF Placed
<1>2. e \in Pool!Task
  BY TailElements
<1>3. g[w] = e /\ \A v \in Worker : v # w => g[v] = h[v]
  OBVIOUS
<1> HIDE DEF g, e
<1>4. \A x \in Pool!Task : Held(x, g) <=> Held(x, h) \/ x = e
  BY <1>3, PoolConstants DEF Held
<1>5. ~Held(e, h)
  BY <1>1, <1>2 DEF Placed
<1>6. ASSUME NEW v \in Worker, NEW u \in Worker, g[v] = g[u], g[v] # None
      PROVE  v = u
  BY <1>3, <1>5, <1>6 DEF Placed, Held
<1>7. Placed(Tail(q), g, r, a)
  BY <1>1, <1>2, <1>4, <1>5, <1>6 DEF Placed
<1> QED
  BY <1>7 DEF g, e

\* A worker is done with its task.
LEMMA FinishPlaced ==
  ASSUME NEW q, NEW h \in [Worker -> Pool!Task \cup {None}], NEW r \in Seq(Pool!Task), NEW a,
         NEW w \in Worker, h[w] \in Pool!Task, Placed(q, h, r, a)
  PROVE  Placed(q, [h EXCEPT ![w] = None], Append(r, h[w]), a)
<1> DEFINE g == [h EXCEPT ![w] = None]  e == h[w]
<1>1. Held(e, h) /\ ~InSeq(e, r) /\ ~InSeq(e, q)
  BY DEF Placed, Held
<1>2. /\ \A x : InSeq(x, Append(r, e)) <=> InSeq(x, r) \/ x = e
      /\ Once(Append(r, e))
  BY <1>1, InSeqAppend DEF Placed
<1>3. g[w] = None /\ \A v \in Worker : v # w => g[v] = h[v]
  OBVIOUS
<1>4. \A v \in Worker : h[v] = e => v = w
  BY PoolConstants DEF Placed
<1> HIDE DEF g
<1>5. \A x \in Pool!Task : Held(x, g) <=> Held(x, h) /\ x # e
  BY <1>3, <1>4, PoolConstants DEF Held
<1>6. ASSUME NEW v \in Worker, NEW u \in Worker, g[v] = g[u], g[v] # None
      PROVE  v = u
  BY <1>3, <1>6 DEF Placed
<1>7. Placed(q, g, Append(r, e), a)
  BY <1>1, <1>2, <1>5, <1>6 DEF Placed
<1> QED
  BY <1>7 DEF g

\* The invariant without the place of the tasks: what a step that moves no task must keep.
LEMMA TasksStay ==
  ASSUME PoolInv, UNCHANGED <<queue, task, ran, accepted>>,
         \A c \in Client : submitted'[c] = submitted[c]
  PROVE  Placed(queue, task, ran, accepted)' /\ Numbered'
<1>1. queue' = queue /\ task' = task /\ ran' = ran /\ accepted' = accepted
  OBVIOUS
<1>2. Placed(queue, task, ran, accepted)'
  BY <1>1 DEF PoolInv
<1>3. \A t \in accepted : t.client \in Client
  BY DEF PoolInv, Pool!TypeOK, Pool!Task
<1>4. Numbered'
  BY <1>1, <1>3 DEF PoolInv, Numbered
<1> QED
  BY <1>2, <1>4

\* A client asks for the mutex of submit().
LEMMA SubmitLockInv ==
  ASSUME PoolInv, NEW c \in Client, Pool!SubmitLock(c)
  PROVE  PoolInv'
<1>1. /\ cpc[c] = "submit" /\ submitted[c] < Quota /\ lock = None /\ lock' = c
      /\ cpc' = [cpc EXCEPT ![c] = "enqueue"]
      /\ UNCHANGED <<queue, isAlive, joined, wpc, task, submitted, accepted, ran>>
  BY DEF Pool!SubmitLock, Pool!workerVars
<1>2. Pool!TypeOK'
  BY <1>1, PoolConstants DEF PoolInv, Pool!TypeOK, Pool!Working
<1>3. Stages'
  BY <1>1 DEF PoolInv, Pool!TypeOK, Stages, Pool!Nests
<1> QED
  BY <1>1, <1>2, <1>3, TasksStay DEF PoolInv

\* A client has its futures, or does not wait for them.
LEMMA GetInv ==
  ASSUME PoolInv, NEW c \in Client, Pool!Get(c)
  PROVE  PoolInv'
<1>1. /\ cpc[c] = "submit"
      /\ cpc' = [cpc EXCEPT ![c] = IF c \in Closer THEN "shutdown" ELSE "done"]
      /\ UNCHANGED <<queue, isAlive, lock, joined, wpc, task, submitted, accepted, ran>>
  BY DEF Pool!Get, Pool!workerVars
<1>2. Pool!TypeOK'
  BY <1>1, PoolConstants DEF PoolInv, Pool!TypeOK, Pool!Working
<1>3. Stages'
  BY <1>1 DEF PoolInv, Pool!TypeOK, Stages, Pool!Nests
<1> QED
  BY <1>1, <1>2, <1>3, TasksStay DEF PoolInv

\* shutdown() in its stages.
LEMMA ShutdownLockInv ==
  ASSUME PoolInv, NEW c \in Client, Pool!ShutdownLock(c)
  PROVE  PoolInv'
<1>1. /\ cpc[c] = "shutdown" /\ lock = None /\ lock' = c
      /\ cpc' = [cpc EXCEPT ![c] = "close"]
      /\ UNCHANGED <<queue, isAlive, joined, wpc, task, submitted, accepted, ran>>
  BY DEF Pool!ShutdownLock, Pool!workerVars
<1>2. Pool!TypeOK'
  BY <1>1, PoolConstants DEF PoolInv, Pool!TypeOK, Pool!Working
<1>3. Stages'
  BY <1>1 DEF PoolInv, Pool!TypeOK, Stages, Pool!Nests
<1> QED
  BY <1>1, <1>2, <1>3, TasksStay DEF PoolInv

LEMMA CloseInv ==
  ASSUME PoolInv, NEW c \in Client, Pool!Close(c)
  PROVE  PoolInv'
<1>1. /\ cpc[c] = "close" /\ isAlive' = FALSE
      /\ wpc' = [w \in Worker |-> IF w \in Pool!Asleep THEN "pop" ELSE wpc[w]]
      /\ cpc' = [cpc EXCEPT ![c] = "join"]
      /\ UNCHANGED <<queue, lock, joined, task, submitted, accepted, ran>>
  BY DEF Pool!Close
<1>2. \A w \in Worker : /\ wpc'[w] \in {"run", "nested", "exited"} => wpc'[w] = wpc[w]
                        /\ wpc[w] \in {"run", "nested", "exited"} => wpc'[w] = wpc[w]
  BY <1>1 DEF Pool!Asleep
<1>3. wpc' \in [Worker -> {"pop", "asleep", "run", "nested", "exited"}]
  BY <1>1 DEF PoolInv, Pool!TypeOK
<1>4. Pool!TypeOK'
  BY <1>1, <1>2, <1>3, PoolConstants DEF PoolInv, Pool!TypeOK, Pool!Working
<1>5. Stages'
  BY <1>1, <1>2 DEF PoolInv, Pool!TypeOK, Stages, Pool!Nests
<1> QED
  BY <1>1, <1>4, <1>5, TasksStay DEF PoolInv

LEMMA JoinInv ==
  ASSUME PoolInv, NEW c \in Client, Pool!Join(c)
  PROVE  PoolInv'
<1>1. PICK w \in Worker \ joined : wpc[w] = "exited" /\ joined' = joined \cup {w}
  BY DEF Pool!Join
<1>2. UNCHANGED <<queue, isAlive, lock, wpc, task, cpc, submitted, accepted, ran>>
  BY DEF Pool!Join, Pool!workerVars, Pool!clientVars
<1>3. Pool!TypeOK'
  BY <1>1, <1>2 DEF PoolInv, Pool!TypeOK, Pool!Working
<1>4. Stages'
  BY <1>1, <1>2 DEF PoolInv, Pool!TypeOK, Stages, Pool!Nests
<1> QED
  BY <1>2, <1>3, <1>4, TasksStay DEF PoolInv

LEMMA ShutdownReturnInv ==
  ASSUME PoolInv, NEW c \in Client, Pool!ShutdownReturn(c)
  PROVE  PoolInv'
<1>1. /\ cpc[c] = "join" /\ joined = Worker /\ lock' = None
      /\ cpc' = [cpc EXCEPT ![c] = "done"]
      /\ UNCHANGED <<queue, isAlive, joined, wpc, task, submitted, accepted, ran>>
  BY DEF Pool!ShutdownReturn, Pool!workerVars
<1>2. Pool!TypeOK'
  BY <1>1, PoolConstants DEF PoolInv, Pool!TypeOK, Pool!Working
<1>3. Stages'
  BY <1>1 DEF PoolInv, Pool!TypeOK, Stages, Pool!Nests
<1> QED
  BY <1>1, <1>2, <1>3, TasksStay DEF PoolInv

\* Where the workers are when a task is queued or refused.
LEMMA EnqueueIntoMoves ==
  ASSUME NEW pc \in [Worker -> {"pop", "asleep", "run", "nested", "exited"}], NEW t,
         Pool!EnqueueInto(pc, t)
  PROVE  /\ wpc' \in [Worker -> {"pop", "asleep", "run", "nested", "exited"}]
         /\ \A v \in Worker : wpc'[v] = pc[v] \/ (wpc[v] = "asleep" /\ wpc'[v] = "pop")
         /\ lock' = None
         /\ isAlive => queue' = Append(queue, t) /\ accepted' = accepted \cup {t}
         /\ ~isAlive => queue' = queue /\ accepted' = accepted
<1>1. CASE wpc' = pc
  BY <1>1 DEF Pool!EnqueueInto
<1>2. ASSUME NEW w \in Pool!Asleep, wpc' = [pc EXCEPT ![w] = "pop"]
      PROVE  /\ wpc' \in [Worker -> {"pop", "asleep", "run", "nested", "exited"}]
             /\ \A v \in Worker : wpc'[v] = pc[v] \/ (wpc[v] = "asleep" /\ wpc'[v] = "pop")
  <2>1. w \in Worker /\ wpc[w] = "asleep"
    BY DEF Pool!Asleep
  <2> QED
    BY <1>2, <2>1
<1> QED
  BY <1>1, <1>2 DEF Pool!EnqueueInto

\* A client's next task is queued, or refused.
LEMMA SubmitInv ==
  ASSUME PoolInv, NEW c \in Client, Pool!Submit(c)
  PROVE  PoolInv'
<1> DEFINE t == [client |-> c, index |-> submitted[c] + 1, child |-> FALSE]
<1>0. /\ queue \in Seq(Pool!Task) /\ isAlive \in BOOLEAN
      /\ wpc \in [Worker -> {"pop", "asleep", "run", "nested", "exited"}]
      /\ task \in [Worker -> Pool!Task \cup {None}]
      /\ submitted \in [Client -> 0 .. Quota] /\ accepted \subseteq Pool!Task
      /\ Placed(queue, task, ran, accepted) /\ Numbered
  BY DEF PoolInv, Pool!TypeOK
<1>1. /\ cpc[c] = "enqueue" /\ Pool!EnqueueInto(wpc, t)
      /\ submitted' = [submitted EXCEPT ![c] = @ + 1]
      /\ cpc' = [cpc EXCEPT ![c] = "submit"]
      /\ UNCHANGED <<isAlive, joined, task, ran>>
  BY DEF Pool!Submit
<1>2. /\ wpc' \in [Worker -> {"pop", "asleep", "run", "nested", "exited"}]
      /\ \A v \in Worker : wpc'[v] = wpc[v] \/ (wpc[v] = "asleep" /\ wpc'[v] = "pop")
      /\ lock' = None
      /\ isAlive => queue' = Append(queue, t) /\ accepted' = accepted \cup {t}
      /\ ~isAlive => queue' = queue /\ accepted' = accepted
  BY <1>0, <1>1, EnqueueIntoMoves
<1>3. submitted[c] < Quota
  BY <1>1 DEF PoolInv, Stages
<1>4. t \in Pool!Task /\ submitted'[c] = submitted[c] + 1 /\ submitted[c] \in Nat
      /\ submitted' \in [Client -> 0 .. Quota]
      /\ \A d \in Client : submitted[d] <= submitted'[d] /\ submitted[d] \in Nat
      /\ \A e \in Client : submitted'[e] \in Nat
  BY <1>0, <1>1, <1>3, PoolConstants DEF Pool!Task
<1>5. t \notin accepted
  BY <1>0, <1>4 DEF Numbered
<1>6. ~t.child /\ t.index = submitted'[t.client]
  BY <1>4
<1>7. \A x \in Pool!Task : x.client \in Client /\ x.index \in Nat
  BY PoolConstants DEF Pool!Task
<1> HIDE DEF t
<1>8. queue' \in Seq(Pool!Task) /\ accepted' \subseteq Pool!Task
  <2>1. Append(queue, t) \in Seq(Pool!Task) /\ accepted \cup {t} \subseteq Pool!Task
    BY <1>0, <1>4, AppendElements
  <2> QED
    BY <1>0, <1>2, <2>1
<1>9. Pool!TypeOK'
  <2>1. /\ joined' \subseteq {w \in Worker : wpc'[w] = "exited"}
        /\ \A w \in Worker : task'[w] # None <=> w \in Pool!Working'
        /\ \A w \in Worker : wpc'[w] = "nested" <=> wpc[w] = "nested"
    BY <1>1, <1>2 DEF PoolInv, Pool!TypeOK, Pool!Working
  <2>2. /\ cpc' \in [Client -> {"submit", "enqueue", "shutdown", "close", "join", "done"}]
        /\ \A d \in Client : lock' = d <=> cpc'[d] \in {"enqueue", "close", "join"}
        /\ \A w \in Worker : lock' = w <=> wpc'[w] = "nested"
    BY <1>1, <1>2, <2>1, PoolConstants DEF PoolInv, Pool!TypeOK
  <2> QED
    BY <1>0, <1>1, <1>2, <1>4, <1>8, <2>1, <2>2 DEF PoolInv, Pool!TypeOK
<1>10. Placed(queue, task, ran, accepted)'
  <2>1. CASE isAlive
    <3>1. Placed(Append(queue, t), task, ran, accepted \cup {t})
      BY <1>0, <1>4, <1>5, PutPlaced
    <3> QED
      BY <1>1, <1>2, <2>1, <3>1
  <2>2. CASE ~isAlive
    BY <1>0, <1>1, <1>2, <2>2
  <2> QED
    BY <2>1, <2>2
<1>11. Numbered'
  <2> SUFFICES ASSUME NEW x \in accepted'
               PROVE  /\ ~x.child => x.index <= submitted'[x.client]
                      /\ x.child => InSeq(Parent(x), ran)
    BY <1>1 DEF Numbered
  <2>1. CASE x \in accepted
    <3>1. /\ x.client \in Client /\ x.index \in Nat
          /\ ~x.child => x.index <= submitted[x.client]
          /\ x.child => InSeq(Parent(x), ran)
      BY <1>0, <1>7, <2>1 DEF Numbered
    <3> QED
      BY <1>4, <3>1
  <2>2. CASE x = t
    BY <1>4, <1>6, <1>7, <2>2
  <2> QED
    BY <1>0, <1>2, <2>1, <2>2
<1>12. Stages'
  <2>1. /\ \A w \in Worker : wpc'[w] = "nested" => wpc[w] = "nested"
        /\ \A w \in Worker : wpc'[w] = "exited" => wpc[w] = "exited"
    BY <1>2
  <2>2. \A d \in Client : cpc'[d] # "submit" => cpc'[d] = cpc[d] /\ d # c /\ submitted'[d] = submitted[d]
    BY <1>0, <1>1 DEF PoolInv, Pool!TypeOK
  <2> QED
    BY <1>1, <1>2, <2>1, <2>2 DEF PoolInv, Stages, Pool!Nests
<1> QED
  BY <1>9, <1>10, <1>11, <1>12 DEF PoolInv

-----------------------------------------------------------------------------
(* thread_pool: the workers *)

\* A worker that takes no task.
LEMMA WorkerMoves ==
  ASSUME PoolInv, NEW w \in Worker, wpc[w] \in {"pop", "asleep"},
         NEW l \in {"pop", "asleep", "exited"}, l = "exited" => ~isAlive /\ queue = <<>>,
         wpc' = [wpc EXCEPT ![w] = l],
         UNCHANGED <<queue, isAlive, lock, joined, task, cpc, submitted, accepted, ran>>
  PROVE  PoolInv'
<1>1. Pool!TypeOK'
  BY DEF PoolInv, Pool!TypeOK, Pool!Working
<1>2. Stages'
  BY DEF PoolInv, Pool!TypeOK, Stages, Pool!Nests
<1> QED
  BY <1>1, <1>2, TasksStay DEF PoolInv

\* A worker takes the oldest task.
LEMMA PopTaskInv ==
  ASSUME PoolInv, NEW w \in Worker, Pool!PopTask(w)
  PROVE  PoolInv'
<1>0. /\ queue \in Seq(Pool!Task) /\ task \in [Worker -> Pool!Task \cup {None}]
      /\ wpc \in [Worker -> {"pop", "asleep", "run", "nested", "exited"}]
      /\ Placed(queue, task, ran, accepted)
  BY DEF PoolInv, Pool!TypeOK
<1>1. /\ wpc[w] = "pop" /\ queue # <<>>
      /\ task' = [task EXCEPT ![w] = Head(queue)]
      /\ queue' = Tail(queue)
      /\ wpc' = [wpc EXCEPT ![w] = "run"]
      /\ UNCHANGED <<isAlive, lock, joined, cpc, submitted, accepted, ran>>
  BY DEF Pool!PopTask, Pool!clientVars
<1>2. task[w] = None
  BY <1>1 DEF PoolInv, Pool!TypeOK, Pool!Working
<1>3. /\ Head(queue) \in Pool!Task /\ Head(queue) # None /\ queue' \in Seq(Pool!Task)
      /\ task' \in [Worker -> Pool!Task \cup {None}]
  BY <1>0, <1>1, TailElements, PoolConstants
<1>4. Placed(queue, task, ran, accepted)'
  BY <1>0, <1>1, <1>2, TakePlaced
<1>5. Pool!TypeOK'
  BY <1>0, <1>1, <1>3 DEF PoolInv, Pool!TypeOK, Pool!Working
<1>6. Numbered'
  BY <1>1 DEF PoolInv, Numbered
<1>7. \A v \in Worker : /\ wpc'[v] = "nested" => wpc[v] = "nested" /\ task'[v] = task[v]
                        /\ wpc'[v] # "exited"
  BY <1>0, <1>1 DEF PoolInv, Stages
<1>8. Stages'
  BY <1>1, <1>7 DEF PoolInv, Stages, Pool!Nests
<1> QED
  BY <1>4, <1>5, <1>6, <1>8 DEF PoolInv

\* The task is run to its end.
LEMMA RunInv ==
  ASSUME PoolInv, NEW w \in Worker, Pool!Run(w)
  PROVE  PoolInv'
<1>0. /\ task \in [Worker -> Pool!Task \cup {None}] /\ ran \in Seq(Pool!Task)
      /\ wpc \in [Worker -> {"pop", "asleep", "run", "nested", "exited"}]
      /\ Placed(queue, task, ran, accepted)
  BY DEF PoolInv, Pool!TypeOK
<1>1. /\ wpc[w] = "run"
      /\ ran' = Append(ran, task[w])
      /\ task' = [task EXCEPT ![w] = None]
      /\ wpc' = [wpc EXCEPT ![w] = "pop"]
      /\ UNCHANGED <<queue, isAlive, lock, joined, cpc, submitted, accepted>>
  BY DEF Pool!Run, Pool!Finish, Pool!clientVars
<1>2. task[w] \in Pool!Task
  BY <1>0, <1>1 DEF PoolInv, Pool!TypeOK, Pool!Working
<1>3. /\ ran' \in Seq(Pool!Task) /\ task' \in [Worker -> Pool!Task \cup {None}]
      /\ \A t : InSeq(t, ran') <=> InSeq(t, ran) \/ t = task[w]
  BY <1>0, <1>1, <1>2, AppendElements, InSeqAppend
<1>4. Placed(queue, task, ran, accepted)'
  BY <1>0, <1>1, <1>2, FinishPlaced
<1>5. Pool!TypeOK'
  BY <1>0, <1>1, <1>3 DEF PoolInv, Pool!TypeOK, Pool!Working
<1>6. Numbered'
  BY <1>1, <1>3 DEF PoolInv, Numbered
<1>7. \A v \in Worker : /\ wpc'[v] = "nested" => wpc[v] = "nested" /\ task'[v] = task[v]
                        /\ wpc'[v] = "exited" => wpc[v] = "exited"
  BY <1>0, <1>1
<1>8. Stages'
  BY <1>1, <1>7 DEF PoolInv, Stages, Pool!Nests
<1> QED
  BY <1>4, <1>5, <1>6, <1>8 DEF PoolInv

\* A task asks for the mutex of submit().
LEMMA NestedLockInv ==
  ASSUME PoolInv, NEW w \in Worker, Pool!NestedLock(w)
  PROVE  PoolInv'
<1>1. /\ wpc[w] = "run" /\ Pool!Nests(task[w]) /\ lock = None /\ lock' = w
      /\ wpc' = [wpc EXCEPT ![w] = "nested"]
      /\ UNCHANGED <<queue, isAlive, joined, task, cpc, submitted, accepted, ran>>
  BY DEF Pool!NestedLock, Pool!clientVars
<1>2. Pool!TypeOK'
  BY <1>1, PoolConstants DEF PoolInv, Pool!TypeOK, Pool!Working
<1>3. Stages'
  BY <1>1 DEF PoolInv, Pool!TypeOK, Stages, Pool!Nests
<1> QED
  BY <1>1, <1>2, <1>3, TasksStay DEF PoolInv

\* The task submits another one and ends: the new task has it behind itself.
LEMMA NestedSubmitInv ==
  ASSUME PoolInv, NEW w \in Worker, Pool!NestedSubmit(w)
  PROVE  PoolInv'
<1> DEFINE e == task[w]  t == [task[w] EXCEPT !.child = TRUE]
           pc == [wpc EXCEPT ![w] = "pop"]
<1>0. /\ queue \in Seq(Pool!Task) /\ isAlive \in BOOLEAN
      /\ wpc \in [Worker -> {"pop", "asleep", "run", "nested", "exited"}]
      /\ task \in [Worker -> Pool!Task \cup {None}] /\ ran \in Seq(Pool!Task)
      /\ accepted \subseteq Pool!Task
      /\ Placed(queue, task, ran, accepted) /\ Numbered
  BY DEF PoolInv, Pool!TypeOK
<1>1. /\ wpc[w] = "nested" /\ Pool!EnqueueInto(pc, t)
      /\ ran' = Append(ran, e) /\ task' = [task EXCEPT ![w] = None]
      /\ UNCHANGED <<isAlive, joined, cpc, submitted>>
  BY DEF Pool!NestedSubmit, Pool!Finish, Pool!clientVars
<1>2. pc \in [Worker -> {"pop", "asleep", "run", "nested", "exited"}]
      /\ \A v \in Worker : pc[v] = IF v = w THEN "pop" ELSE wpc[v]
  BY <1>0
<1>3. /\ e \in Pool!Task /\ ~e.child
  BY <1>0, <1>1 DEF PoolInv, Pool!TypeOK, Pool!Working, Stages, Pool!Nests
<1>4. t \in Pool!Task /\ t.child /\ Parent(t) = e
  BY <1>3 DEF Pool!Task, Parent
<1> HIDE DEF pc, t
<1>5. /\ wpc' \in [Worker -> {"pop", "asleep", "run", "nested", "exited"}]
      /\ \A v \in Worker : wpc'[v] = pc[v] \/ (wpc[v] = "asleep" /\ wpc'[v] = "pop")
      /\ lock' = None
      /\ isAlive => queue' = Append(queue, t) /\ accepted' = accepted \cup {t}
      /\ ~isAlive => queue' = queue /\ accepted' = accepted
  BY <1>1, <1>2, EnqueueIntoMoves
<1>6. wpc'[w] = "pop" /\ \A v \in Worker : v # w =>
          wpc'[v] = wpc[v] \/ (wpc[v] = "asleep" /\ wpc'[v] = "pop")
  BY <1>1, <1>2, <1>5
<1>7. Held(e, task) /\ ~InSeq(e, ran)
  BY <1>0, <1>3 DEF Placed, Held
<1>8. t \notin accepted
  BY <1>0, <1>4, <1>7 DEF Numbered
<1>9. Placed(queue, task', ran', accepted)
  BY <1>0, <1>1, <1>3, FinishPlaced
<1>10. Placed(queue, task, ran, accepted)'
  <2>1. CASE isAlive
    <3>1. Placed(Append(queue, t), task', ran', accepted \cup {t})
      BY <1>0, <1>4, <1>8, <1>9, PutPlaced
    <3> QED
      BY <1>5, <2>1, <3>1
  <2>2. CASE ~isAlive
    BY <1>5, <1>9, <2>2
  <2> QED
    BY <2>1, <2>2
<1>11. /\ ran' \in Seq(Pool!Task) /\ task' \in [Worker -> Pool!Task \cup {None}]
       /\ \A x : InSeq(x, ran') <=> InSeq(x, ran) \/ x = e
       /\ queue' \in Seq(Pool!Task) /\ accepted' \subseteq Pool!Task
  <2>1. /\ Append(queue, t) \in Seq(Pool!Task) /\ accepted \cup {t} \subseteq Pool!Task
        /\ Append(ran, e) \in Seq(Pool!Task)
        /\ \A x : InSeq(x, Append(ran, e)) <=> InSeq(x, ran) \/ x = e
    BY <1>0, <1>3, <1>4, AppendElements, InSeqAppend
  <2> QED
    BY <1>0, <1>1, <1>5, <2>1
<1>12. Numbered'
  <2> SUFFICES ASSUME NEW x \in accepted'
               PROVE  /\ ~x.child => x.index <= submitted[x.client]
                      /\ x.child => InSeq(Parent(x), ran')
    BY <1>1 DEF Numbered
  <2>1. CASE x \in accepted
    BY <1>0, <1>11, <2>1 DEF Numbered
  <2>2. CASE x = t
    BY <1>4, <1>11, <2>2
  <2> QED
    BY <1>0, <1>5, <2>1, <2>2
<1>13. Pool!TypeOK'
  <2>1. /\ joined' \subseteq {v \in Worker : wpc'[v] = "exited"}
        /\ \A v \in Worker : wpc'[v] = "nested" <=> wpc[v] = "nested" /\ v # w
    BY <1>1, <1>6 DEF PoolInv, Pool!TypeOK
  <2>2. \A v \in Worker : task'[v] # None <=> v \in Pool!Working'
    BY <1>0, <1>1, <1>6 DEF PoolInv, Pool!TypeOK, Pool!Working
  <2>3. lock = w /\ \A v \in Worker : wpc'[v] # "nested"
    BY <1>1, <2>1 DEF PoolInv, Pool!TypeOK
  <2>4. /\ \A d \in Client : lock' = d <=> cpc'[d] \in {"enqueue", "close", "join"}
        /\ \A v \in Worker : lock' = v <=> wpc'[v] = "nested"
    BY <1>1, <1>5, <2>3, PoolConstants DEF PoolInv, Pool!TypeOK
  <2> QED
    BY <1>0, <1>1, <1>5, <1>11, <2>1, <2>2, <2>4 DEF PoolInv, Pool!TypeOK
<1>14. Stages'
  <2>1. /\ \A v \in Worker : wpc'[v] = "nested" => wpc[v] = "nested" /\ task'[v] = task[v]
        /\ \A v \in Worker : wpc'[v] = "exited" => wpc[v] = "exited"
    BY <1>0, <1>1, <1>6
  <2> QED
    BY <1>1, <1>5, <2>1 DEF PoolInv, Stages, Pool!Nests
<1> QED
  BY <1>10, <1>12, <1>13, <1>14 DEF PoolInv

\* One step of a client, and one of a worker.
LEMMA CallInv ==
  ASSUME PoolInv, NEW c \in Client, Pool!Call(c)
  PROVE  PoolInv'
BY SubmitLockInv, SubmitInv, GetInv, ShutdownLockInv, CloseInv, JoinInv, ShutdownReturnInv
   DEF Pool!Call

LEMMA RunWorkerInv ==
  ASSUME PoolInv, NEW w \in Worker, Pool!RunWorker(w) \/ Pool!WakeSpuriously(w)
  PROVE  PoolInv'
<1>1. CASE Pool!PopWaits(w)
  BY <1>1, WorkerMoves DEF Pool!PopWaits, Pool!clientVars
<1>2. CASE Pool!PopEnds(w)
  BY <1>2, WorkerMoves DEF Pool!PopEnds, Pool!clientVars
<1>3. CASE Pool!WakeSpuriously(w)
  BY <1>3, WorkerMoves DEF Pool!WakeSpuriously, Pool!clientVars
<1> QED
  BY <1>1, <1>2, <1>3, PopTaskInv, RunInv, NestedLockInv, NestedSubmitInv DEF Pool!RunWorker

\* A step in which the pool does nothing.
LEMMA PoolStays ==
  ASSUME PoolInv, UNCHANGED poolVars
  PROVE  PoolInv'
<1>1. UNCHANGED <<queue, isAlive, lock, joined, wpc, task, cpc, submitted, accepted, ran>>
  BY DEF poolVars
<1>2. Pool!TypeOK' /\ Stages'
  BY <1>1 DEF PoolInv, Pool!TypeOK, Pool!Working, Stages, Pool!Nests
<1> QED
  BY <1>1, <1>2, TasksStay DEF PoolInv

\* The pool's invariant holds initially.
LEMMA PoolInit == Pool!Init => PoolInv
<1> SUFFICES ASSUME Pool!Init PROVE PoolInv
  OBVIOUS
<1>1. Pool!TypeOK
  BY PoolConstants DEF Pool!Init, Pool!TypeOK, Pool!Working
<1>2. Placed(queue, task, ran, accepted)
  BY PoolConstants DEF Pool!Init, Placed, InSeq, Once, Held
<1>3. Numbered /\ Stages
  BY PoolConstants DEF Pool!Init, Numbered, Stages
<1> QED
  BY <1>1, <1>2, <1>3 DEF PoolInv

\* Both modules count with the same Cardinality.
LEMMA PoolCardinality == \A S : Pool!Cardinality(S) = Cardinality(S)
BY DEF Pool!Cardinality, Cardinality, Pool!IsFiniteSet, IsFiniteSet

\* A task that was accepted has exactly one place, and one that was not has none.
LEMMA PlacedIsNotLost == PoolInv => Pool!NoTaskLost
<1> SUFFICES ASSUME PoolInv, NEW t \in Pool!Task
             PROVE  Cardinality({k \in 1 .. Len(queue) : queue[k] = t})
                        + Cardinality({w \in Worker : task[w] = t})
                        + Cardinality({k \in 1 .. Len(ran) : ran[k] = t})
                    = IF t \in accepted THEN 1 ELSE 0
  BY PoolCardinality DEF Pool!NoTaskLost
<1>0. Placed(queue, task, ran, accepted)
  BY DEF PoolInv
<1>1. /\ Cardinality({k \in 1 .. Len(queue) : queue[k] = t}) = IF InSeq(t, queue) THEN 1 ELSE 0
      /\ Cardinality({k \in 1 .. Len(ran) : ran[k] = t}) = IF InSeq(t, ran) THEN 1 ELSE 0
  BY <1>0, OccursOnce DEF Placed
<1>2. Cardinality({w \in Worker : task[w] = t}) = IF Held(t, task) THEN 1 ELSE 0
  <2>1. CASE Held(t, task)
    <3>1. PICK w \in Worker : task[w] = t
      BY <2>1 DEF Held
    <3>2. {v \in Worker : task[v] = t} = {w}
      BY <1>0, <3>1, PoolConstants DEF Placed
    <3> QED
      BY <2>1, <3>2, FS_Singleton
  <2>2. CASE ~Held(t, task)
    <3>1. {v \in Worker : task[v] = t} = {}
      BY <2>2 DEF Held
    <3> QED
      BY <2>2, <3>1, FS_EmptySet
  <2> QED
    BY <2>1, <2>2
<1>3. /\ t \in accepted <=> InSeq(t, queue) \/ Held(t, task) \/ InSeq(t, ran)
      /\ ~(InSeq(t, queue) /\ Held(t, task)) /\ ~(InSeq(t, queue) /\ InSeq(t, ran))
      /\ ~(Held(t, task) /\ InSeq(t, ran))
  BY <1>0 DEF Placed
<1> QED
  BY <1>1, <1>2, <1>3

\* When a shutdown() has returned the workers are gone, so nothing is queued or held:
\* what was accepted was run.
LEMMA StagesAreFinal == PoolInv => Pool!ShutdownIsFinal
<1> SUFFICES ASSUME PoolInv, NEW c \in Closer, cpc[c] = "done"
             PROVE  /\ \A w \in Worker : wpc[w] = "exited"
                    /\ \A t \in accepted : Pool!HasRun(t)
  BY DEF Pool!ShutdownIsFinal
<1>1. \A w \in Worker : wpc[w] = "exited"
  BY DEF PoolInv, Pool!TypeOK, Stages
<1>2. queue = <<>> /\ \A w \in Worker : task[w] = None
  BY <1>1, PoolConstants DEF PoolInv, Pool!TypeOK, Pool!Working, Stages
<1>3. ASSUME NEW t \in accepted PROVE Pool!HasRun(t)
  <2>1. t \in Pool!Task
    BY DEF PoolInv, Pool!TypeOK
  <2>2. ~InSeq(t, queue) /\ ~Held(t, task)
    BY <1>2, <2>1, PoolConstants DEF InSeq, Held
  <2> QED
    BY <2>1, <2>2 DEF PoolInv, Placed, InSeq, Pool!HasRun
<1> QED
  BY <1>1, <1>3

-----------------------------------------------------------------------------
(* lock_free_queue: the indices are the numbers of items modulo the number of slots, and *)
(* until the buffer was full once every slot between them holds its item                 *)

Slots == Size + 1

RingType == /\ buffer \in [0 .. Size -> Nat] /\ put \in Nat /\ copied \in Nat
            /\ overrun \in BOOLEAN
            /\ epc \in {"load", "write", "store"} /\ dpc \in {"load", "read", "store"}
            /\ out \in Seq(Nat) /\ Len(out) \in Nat
            /\ tail = put % Slots /\ head = Len(out) % Slots

Sound == /\ Len(out) <= put /\ put - Len(out) <= Size
         /\ epc \in {"write", "store"} => put - Len(out) < Size
         /\ dpc \in {"read", "store"} => Len(out) < put
         /\ \A i \in Len(out) .. (put - 1) : buffer[i % Slots] = i + 1
         /\ epc = "store" => buffer[put % Slots] = put + 1
         /\ dpc = "store" => copied = Len(out) + 1
         /\ \A k \in 1 .. Len(out) : out[k] = k

RingInv == RingType /\ (overrun \/ Sound)

\* The buffer has at least two slots, and a remainder is one of them.
LEMMA SlotsType ==
  /\ Size \in Nat /\ Size > 0 /\ Slots \in Nat /\ Slots > 0 /\ Slots = Size + 1
  /\ 0 .. (Slots - 1) = 0 .. Size
BY ProgramsAssumption DEF Ring!RingAssumption, Slots

LEMMA SlotOf ==
  ASSUME NEW i \in Nat
  PROVE  i % Slots \in 0 .. Size /\ Ring!IndexAfter(i % Slots) = (i + 1) % Slots
<1>1. i % Slots \in 0 .. Size
  BY SlotsType, ModType
<1>2. (i + 1) % Slots = ((i % Slots) + 1) % Slots
  BY SlotsType, ModSucc
<1> QED
  BY <1>1, <1>2 DEF Ring!IndexAfter, Slots

\* The ring's invariant holds initially.
LEMMA RingInit == Ring!Init => RingInv
<1> SUFFICES ASSUME Ring!Init PROVE RingInv
  OBVIOUS
<1>1. 0 % Slots = 0
  BY SlotsType
<1> QED
  BY <1>1, SlotsType DEF Ring!Init, RingInv, RingType, Sound

\* The producer's test: a buffer that is not full has a free slot beside the one that is
\* always left.
LEMMA TestFullInv == RingInv /\ Ring!TestFull => RingInv'
<1> SUFFICES ASSUME RingInv, Ring!TestFull PROVE RingInv'
  OBVIOUS
<1>1. /\ overrun' = (overrun \/ Ring!IndexAfter(tail) = head) /\ epc = "load" /\ epc' = "write"
      /\ UNCHANGED <<buffer, head, tail, dpc, copied, put, out>>
  BY DEF Ring!TestFull
<1>2. RingType'
  BY <1>1 DEF RingInv, RingType
<1>3. ASSUME ~overrun' PROVE Sound'
  <2>1. /\ put \in Nat /\ Len(out) \in Nat /\ tail = put % Slots /\ head = Len(out) % Slots
        /\ ~overrun /\ Sound /\ Ring!IndexAfter(tail) # head
    BY <1>1, <1>3 DEF RingInv, RingType
  <2>2. put - Len(out) # Size
    <3> SUFFICES ASSUME put - Len(out) = Size PROVE FALSE
      OBVIOUS
    <3>1. put + 1 = Len(out) + Slots
      BY <2>1, SlotsType
    <3>2. (put + 1) % Slots = Len(out) % Slots
      BY <2>1, <3>1, SlotsType, ModShift
    <3> QED
      BY <2>1, <3>2, SlotOf
  <2>3. put - Len(out) <= Size
    BY <2>1 DEF Sound
  <2>4. put - Len(out) < Size
    BY <2>1, <2>2, <2>3, SlotsType
  <2> QED
    BY <1>1, <2>1, <2>4 DEF Sound
<1> QED
  BY <1>2, <1>3 DEF RingInv, RingType

\* The slot that is written holds no item of the queue.
LEMMA WriteSlotInv == RingInv /\ Ring!WriteSlot => RingInv'
<1> SUFFICES ASSUME RingInv, Ring!WriteSlot PROVE RingInv'
  OBVIOUS
<1>1. /\ epc = "write" /\ epc' = "store" /\ buffer' = [buffer EXCEPT ![put % Slots] = put + 1]
      /\ UNCHANGED <<head, tail, dpc, copied, put, out, overrun>>
  BY DEF Ring!WriteSlot, RingInv, RingType
<1>2. /\ put \in Nat /\ put % Slots \in 0 .. Size /\ buffer \in [0 .. Size -> Nat]
      /\ Len(out) \in Nat
  BY SlotOf DEF RingInv, RingType
<1>3. RingType'
  BY <1>1, <1>2 DEF RingInv, RingType
<1>4. ASSUME ~overrun PROVE Sound'
  <2>1. Sound /\ put - Len(out) < Size
    BY <1>1, <1>4 DEF RingInv, Sound
  <2>2. buffer'[put % Slots] = put + 1
    BY <1>1, <1>2
  <2>3. ASSUME NEW i \in Len(out) .. (put - 1) PROVE buffer'[i % Slots] = i + 1
    <3>1. i \in Nat /\ put > i /\ put - i < Slots
      BY <1>2, <2>1, SlotsType
    <3>2. put % Slots # i % Slots
      BY <1>2, <3>1, SlotsType, ModDistinct
    <3>3. buffer'[i % Slots] = buffer[i % Slots]
      BY <1>1, <1>2, <3>1, <3>2, SlotOf
    <3> QED
      BY <2>1, <3>3 DEF Sound
  <2> QED
    BY <1>1, <2>1, <2>2, <2>3 DEF Sound
<1> QED
  BY <1>1, <1>3, <1>4 DEF RingInv

\* The item is published.
LEMMA StoreTailInv == RingInv /\ Ring!StoreTail => RingInv'
<1> SUFFICES ASSUME RingInv, Ring!StoreTail PROVE RingInv'
  OBVIOUS
<1>1. /\ epc = "store" /\ epc' = "load" /\ put' = put + 1 /\ tail' = (put + 1) % Slots
      /\ UNCHANGED <<buffer, head, dpc, copied, out, overrun>>
      /\ put \in Nat /\ Len(out) \in Nat
  BY SlotOf DEF Ring!StoreTail, RingInv, RingType
<1>2. RingType'
  BY <1>1 DEF RingInv, RingType
<1>3. ASSUME ~overrun PROVE Sound'
  <2>1. Sound
    BY <1>3 DEF RingInv
  <2>2. \A i \in Len(out) .. put : i \in Len(out) .. (put - 1) \/ i = put
    BY <1>1
  <2>3. \A i \in Len(out) .. put : buffer[i % Slots] = i + 1
    BY <1>1, <2>1, <2>2 DEF Sound
  <2> QED
    BY <1>1, <2>1, <2>3, SlotsType DEF Sound
<1> QED
  BY <1>1, <1>2, <1>3 DEF RingInv

\* The consumer's test: different indices, so there is an item.
LEMMA TestEmptyInv == RingInv /\ Ring!TestEmpty => RingInv'
BY DEF Ring!TestEmpty, RingInv, RingType, Sound

\* The slot that is read holds the item whose turn it is.
LEMMA ReadSlotInv == RingInv /\ Ring!ReadSlot => RingInv'
<1> SUFFICES ASSUME RingInv, Ring!ReadSlot PROVE RingInv'
  OBVIOUS
<1>1. /\ dpc = "read" /\ dpc' = "store" /\ copied' = buffer[Len(out) % Slots]
      /\ UNCHANGED <<buffer, head, tail, epc, put, out, overrun>>
      /\ put \in Nat /\ Len(out) \in Nat /\ Len(out) % Slots \in 0 .. Size
  BY SlotOf DEF Ring!ReadSlot, RingInv, RingType
<1>2. RingType'
  BY <1>1 DEF RingInv, RingType
<1>3. ASSUME ~overrun PROVE Sound'
  <2>1. Sound /\ Len(out) \in Len(out) .. (put - 1)
    BY <1>1, <1>3 DEF RingInv, Sound
  <2>2. copied' = Len(out) + 1
    BY <1>1, <2>1 DEF Sound
  <2> QED
    BY <1>1, <2>1, <2>2 DEF Sound
<1> QED
  BY <1>1, <1>2, <1>3 DEF RingInv

\* The slot is given back.
LEMMA StoreHeadInv == RingInv /\ Ring!StoreHead => RingInv'
<1> SUFFICES ASSUME RingInv, Ring!StoreHead PROVE RingInv'
  OBVIOUS
<1>1. /\ dpc = "store" /\ dpc' = "load" /\ head' = (Len(out) + 1) % Slots
      /\ out' = Append(out, copied)
      /\ UNCHANGED <<buffer, tail, epc, copied, put, overrun>>
      /\ put \in Nat /\ Len(out) \in Nat /\ out \in Seq(Nat) /\ copied \in Nat
  BY SlotOf DEF Ring!StoreHead, RingInv, RingType
<1>2. /\ out' \in Seq(Nat) /\ Len(out') = Len(out) + 1 /\ out'[Len(out) + 1] = copied
      /\ \A k \in 1 .. Len(out) : out'[k] = out[k]
  BY <1>1, AppendElements
<1>3. RingType'
  BY <1>1, <1>2 DEF RingInv, RingType
<1>4. ASSUME ~overrun PROVE Sound'
  <2>1. Sound /\ copied = Len(out) + 1 /\ Len(out) < put
    BY <1>1, <1>4 DEF RingInv, Sound
  <2>2. \A k \in 1 .. (Len(out) + 1) : out'[k] = k
    BY <1>1, <1>2, <2>1 DEF Sound
  <2>3. \A i \in (Len(out) + 1) .. (put - 1) : buffer[i % Slots] = i + 1
    BY <1>1, <2>1 DEF Sound
  <2> QED
    BY <1>1, <1>2, <2>1, <2>2, <2>3, SlotsType DEF Sound
<1> QED
  BY <1>1, <1>3, <1>4 DEF RingInv

\* Every step of the ring, and every other.
LEMMA RingNext == RingInv /\ Ring!Next => RingInv'
BY TestFullInv, WriteSlotInv, StoreTailInv, TestEmptyInv, ReadSlotInv, StoreHeadInv
   DEF Ring!Next, Ring!Enqueue, Ring!Dequeue

LEMMA RingStays == RingInv /\ UNCHANGED ringVars => RingInv'
BY DEF ringVars, RingInv, RingType, Sound

\* What came out are the first items, unless the buffer was full once.
LEMMA SoundIsFifo == RingInv => Ring!FifoUntilFull
<1> SUFFICES ASSUME RingInv, ~overrun PROVE out = [k \in 1 .. Len(out) |-> k]
  BY DEF Ring!FifoUntilFull
<1> QED
  BY DEF RingInv, RingType, Sound

-----------------------------------------------------------------------------
(* The programs side by side: while one runs, the others stay as they are *)

LEMMA QueueStep == QueueInv /\ [Next]_vars => QueueInv'
<1> SUFFICES ASSUME QueueInv, [Next]_vars PROVE QueueInv'
  OBVIOUS
<1>1. ASSUME NEW t, InQueue, Work(t) PROVE QueueInv'
  <2>1. (t \in Producer /\ Queue!Produce(t)) \/ (t \in Consumer /\ Queue!Consume(t))
    BY <1>1 DEF Work, InQueue, InPool, InSet, InFlag
  <2> QED
    BY <2>1, ProduceInv, ConsumeInv
<1>2. ASSUME InQueue, Free PROVE QueueInv'
  <2>1. Queue!Shutdown \/ \E t \in Producer \cup Consumer : Queue!WakeSpuriously(t)
    BY <1>2 DEF Free, InQueue, InPool, InSet, InFlag, InRing
  <2> QED
    BY <2>1, ShutdownInv, WakeInv DEF Queue!Thread
<1>3. CASE UNCHANGED queueVars
  BY <1>3, QueueStays
<1>4. InQueue \/ UNCHANGED queueVars
  BY DEF Next, Work, Free, InPool, InSet, InFlag, InRing, vars
<1>5. CASE UNCHANGED vars
  BY <1>3, <1>5 DEF vars
<1> QED
  BY <1>1, <1>2, <1>3, <1>4, <1>5 DEF Next

LEMMA PoolStep == PoolInv /\ [Next]_vars => PoolInv'
<1> SUFFICES ASSUME PoolInv, [Next]_vars PROVE PoolInv'
  OBVIOUS
<1>1. ASSUME NEW t, InPool, Work(t) PROVE PoolInv'
  <2>1. (t \in Worker /\ Pool!RunWorker(t)) \/ (t \in Client /\ Pool!Call(t))
    BY <1>1 DEF Work, InQueue, InPool, InSet, InFlag
  <2> QED
    BY <2>1, RunWorkerInv, CallInv
<1>2. ASSUME InPool, Free PROVE PoolInv'
  <2>1. \E t \in Worker : Pool!WakeSpuriously(t)
    BY <1>2 DEF Free, InQueue, InPool, InSet, InFlag, InRing
  <2> QED
    BY <2>1, RunWorkerInv
<1>3. CASE UNCHANGED poolVars
  BY <1>3, PoolStays
<1>4. InPool \/ UNCHANGED poolVars
  BY DEF Next, Work, Free, InQueue, InSet, InFlag, InRing, vars
<1>5. CASE UNCHANGED vars
  BY <1>3, <1>5 DEF vars
<1> QED
  BY <1>1, <1>2, <1>3, <1>4, <1>5 DEF Next

LEMMA RingStep == RingInv /\ [Next]_vars => RingInv'
<1> SUFFICES ASSUME RingInv, [Next]_vars PROVE RingInv'
  OBVIOUS
<1>1. Ring!Next \/ UNCHANGED ringVars
  BY DEF Next, Work, Free, InQueue, InPool, InSet, InFlag, InRing, vars
<1> QED
  BY <1>1, RingNext, RingStays

\* In every reachable state, for every number of threads, items and tasks and every size:
\* the queue's items are where they belong and its notifications are not lost, ...
THEOREM QueueInvariance == FairSpec => []QueueInv
<1>1. Init => QueueInv
  BY QueueInit DEF Init
<1> QED
  BY <1>1, QueueStep, PTL DEF FairSpec

\* ... the pool's tasks are where they belong and its shutdown goes through its stages, ...
THEOREM PoolInvariance == FairSpec => []PoolInv
<1>1. Init => PoolInv
  BY PoolInit DEF Init
<1> QED
  BY <1>1, PoolStep, PTL DEF FairSpec

\* ... and the ring holds the items between its indices until it was full once.
THEOREM RingInvariance == FairSpec => []RingInv
<1>1. Init => RingInv
  BY RingInit DEF Init
<1> QED
  BY <1>1, RingStep, PTL DEF FairSpec

\* The bounded queue never holds more than its capacity; whoever is inside submit() or
\* shutdown() of the pool holds its mutex, and a worker has a task just while it runs it.
THEOREM TypesHold == FairSpec => []TypeOK
<1>1. QueueInv /\ PoolInv => TypeOK
  BY DEF QueueInv, PoolInv, TypeOK
<1> QED
  BY <1>1, QueueInvariance, PoolInvariance, PTL

\* Neither the bounded queue nor the pool loses or doubles what it has accepted.
THEOREM NothingIsLost == FairSpec => []NothingLostOrDoubled
<1>1. QueueInv /\ PoolInv => NothingLostOrDoubled
  BY OnePlaceEach, PlacedIsNotLost DEF NothingLostOrDoubled
<1> QED
  BY <1>1, QueueInvariance, PoolInvariance, PTL

\* Items leave both queues in the order of their producer, the lock-free one until its
\* buffer was full once.
THEOREM OrderIsKept == FairSpec => []ProducersInOrder
<1>1. QueueInv /\ RingInv => ProducersInOrder
  BY OrderedIsFifo, SoundIsFifo DEF ProducersInOrder
<1> QED
  BY <1>1, QueueInvariance, RingInvariance, PTL

\* No notification of the bounded queue is lost, or spent on the wrong side.
THEOREM NotificationsArrive == FairSpec => []NoLostNotification
<1>1. QueueInv => NoLostNotification
  BY NotifiedIsEnough DEF NoLostNotification
<1> QED
  BY <1>1, QueueInvariance, PTL

\* A shutdown() of the pool that has returned leaves no worker and no future unready.
THEOREM ShutdownHolds == FairSpec => []ShutdownIsFinal
<1>1. PoolInv => ShutdownIsFinal
  BY StagesAreFinal DEF ShutdownIsFinal
<1> QED
  BY <1>1, PoolInvariance, PTL

-----------------------------------------------------------------------------
(***************************************************************************)
(* striped_hash_set: no data race, an exact count, one growth per excess,  *)
(* and that every call takes effect at one moment; for every number of     *)
(* threads, of stripes and of buckets, every growth factor and density.    *)
(***************************************************************************)

Ops == {"add", "remove", "contains"}
Stripes == 0 .. NumStripes - 1

\* The constants of the set.
LEMMA SetConstants ==
  /\ Value \subseteq Nat
  /\ NumStripes \in Nat /\ NumStripes > 0
  /\ BucketsPerStripe \in Nat /\ BucketsPerStripe > 0
  /\ GrowthFactor \in Nat /\ GrowthFactor > 0
  /\ IsFiniteSet(SetThread) /\ None \notin SetThread
  /\ None \notin [op : Ops, value : Value]
BY ProgramsAssumption DEF Set!ValueAssumption, Set!SizeAssumption, Set!ThreadAssumption,
   Set!IsFiniteSet, IsFiniteSet, Ops

\* The set counts and lists the elements of a sequence as everybody does.
LEMMA SetLibrary ==
  /\ \A S : Set!Cardinality(S) = Cardinality(S)
  /\ \A s : Set!ToSet(s) = Elements(s)
BY DEF Set!Cardinality, Cardinality, Set!IsFiniteSet, IsFiniteSet, Set!ToSet, Elements

-----------------------------------------------------------------------------
(* forward_list::remove: the elements that are kept, in their order *)

\* Of two elements the larger one has the higher rank.
LEMMA RankGrows ==
  ASSUME NEW K \in SUBSET Nat, IsFiniteSet(K), NEW i \in K, NEW j \in K, i < j
  PROVE  Set!Rank(K, i) < Set!Rank(K, j)
<1> DEFINE I == {k \in K : k <= i}  J == {k \in K : k <= j}
<1>0. i \in Nat /\ j \in Nat /\ \A k \in K : k \in Nat
  OBVIOUS
<1>1. I \cup {j} \in SUBSET J /\ j \notin I /\ I \in SUBSET K /\ J \in SUBSET K
  <2>1. \A k \in I : k <= j
    BY <1>0
  <2>2. j \in J /\ j \notin I
    BY <1>0
  <2> QED
    BY <2>1, <2>2
<1>2. /\ IsFiniteSet(I) /\ IsFiniteSet(J)
      /\ Cardinality(I) \in Nat /\ Cardinality(J) \in Nat
  BY <1>1, FS_Subset, FS_CardinalityType
<1>3. Set!Rank(K, i) = Cardinality(I) /\ Set!Rank(K, j) = Cardinality(J)
  BY SetLibrary DEF Set!Rank
<1> HIDE DEF I, J
<1>4. Cardinality(I \cup {j}) = Cardinality(I) + 1
  BY <1>1, <1>2, FS_AddElement
<1>5. Cardinality(I \cup {j}) <= Cardinality(J)
  BY <1>1, <1>2, FS_Subset
<1> QED
  BY <1>2, <1>3, <1>4, <1>5

\* The ranks are the numbers up to the number of elements, each of one element.
LEMMA RankNumbers ==
  ASSUME NEW K \in SUBSET Nat, IsFiniteSet(K)
  PROVE  /\ Cardinality(K) \in Nat
         /\ \A i \in K : Set!Rank(K, i) \in 1 .. Cardinality(K)
         /\ \A i, j \in K : Set!Rank(K, i) = Set!Rank(K, j) => i = j
         /\ \A k \in 1 .. Cardinality(K) : \E i \in K : Set!Rank(K, i) = k
<1> DEFINE n == Cardinality(K)  f == [i \in K |-> Set!Rank(K, i)]
<1>1. n \in Nat
  BY FS_CardinalityType
<1>2. ASSUME NEW i \in K PROVE Set!Rank(K, i) \in 1 .. n
  <2> DEFINE I == {k \in K : k <= i}
  <2>1. {i} \in SUBSET I /\ I \in SUBSET K
    OBVIOUS
  <2>2. IsFiniteSet(I) /\ Cardinality(I) \in Nat /\ Cardinality(I) <= n
    BY <2>1, FS_Subset, FS_CardinalityType
  <2>3. Set!Rank(K, i) = Cardinality(I)
    BY SetLibrary DEF Set!Rank
  <2> HIDE DEF I
  <2>4. Cardinality({i}) = 1 /\ Cardinality({i}) <= Cardinality(I)
    BY <2>1, <2>2, FS_Singleton, FS_Subset
  <2> QED
    BY <1>1, <2>2, <2>3, <2>4
<1> HIDE DEF n
<1>3. ASSUME NEW i \in K, NEW j \in K, Set!Rank(K, i) = Set!Rank(K, j) PROVE i = j
  <2>1. Set!Rank(K, i) \in Nat /\ i \in Nat /\ j \in Nat
    BY <1>1, <1>2
  <2>2. ~(i < j) /\ ~(j < i)
    BY <1>3, <2>1, RankGrows
  <2> QED
    BY <2>1, <2>2
<1>4. IsFiniteSet(1 .. n) /\ Cardinality(1 .. n) = n
  BY <1>1, FS_Interval
<1>5. ASSUME NEW k \in 1 .. n, ~ \E i \in K : Set!Rank(K, i) = k PROVE FALSE
  <2> DEFINE T == (1 .. n) \ {k}
  <2>1. IsFiniteSet(T) /\ Cardinality(T) < Cardinality(K)
    <3> DEFINE W == 1 .. n
    <3>1. IsFiniteSet(W) /\ Cardinality(W) = n /\ k \in W /\ T = W \ {k}
      BY <1>4
    <3> HIDE DEF T, W
    <3>2. IsFiniteSet(T) /\ Cardinality(T) = n - 1
      BY <3>1, FS_RemoveElement
    <3> QED
      BY <1>1, <3>2 DEF n
  <2>2. f \in [K -> T]
    BY <1>2, <1>5
  <2> HIDE DEF T
  <2>3. \E i, j \in K : i # j /\ f[i] = f[j]
    <3> HIDE DEF f
    <3> QED
      BY <2>1, <2>2, FS_PigeonHole
  <2> QED
    BY <1>3, <2>3
<1> QED
  BY <1>1, <1>2, <1>3, <1>5 DEF n

\* What is left is what is not v.
LEMMA WithoutElements ==
  ASSUME NEW S, NEW s \in Seq(S), NEW v
  PROVE  /\ Set!Without(s, v) \in Seq(S)
         /\ Elements(Set!Without(s, v)) = Elements(s) \ {v}
<1> DEFINE K == Set!Kept(s, v)  n == Cardinality(K)  w == Set!Without(s, v)
           At(k) == CHOOSE i \in K : Set!Rank(K, i) = k
<1>1. Len(s) \in Nat /\ DOMAIN s = 1 .. Len(s) /\ \A i \in DOMAIN s : s[i] \in S
  OBVIOUS
<1>2. K \in SUBSET (1 .. Len(s)) /\ K = {i \in DOMAIN s : s[i] # v}
  BY <1>1 DEF Set!Kept
<1>3. K \in SUBSET Nat /\ IsFiniteSet(K)
  <2> HIDE DEF K
  <2>1. IsFiniteSet(1 .. Len(s)) /\ 1 .. Len(s) \subseteq Nat
    BY <1>1, FS_Interval
  <2> QED
    BY <1>2, <2>1, FS_Subset
<1>4. w = [k \in 1 .. n |-> s[At(k)]]
  BY SetLibrary DEF Set!Without
<1> HIDE DEF K, n, w
<1>5. /\ n \in Nat
      /\ \A i \in K : Set!Rank(K, i) \in 1 .. n
      /\ \A i, j \in K : Set!Rank(K, i) = Set!Rank(K, j) => i = j
      /\ \A k \in 1 .. n : \E i \in K : Set!Rank(K, i) = k
  BY <1>3, RankNumbers DEF n
<1>6. \A k \in 1 .. n : At(k) \in K /\ Set!Rank(K, At(k)) = k
  BY <1>5
<1>7. \A i \in K : At(Set!Rank(K, i)) = i
  BY <1>5, <1>6
<1> HIDE DEF At
<1>8. \A k \in 1 .. n : w[k] = s[At(k)] /\ w[k] \in S /\ w[k] # v
  BY <1>1, <1>2, <1>4, <1>6
<1>9. w \in Seq(S) /\ DOMAIN w = 1 .. n
  BY <1>4, <1>5, <1>8
<1>10. ASSUME NEW x \in Elements(w) PROVE x \in Elements(s) \ {v}
  <2>1. PICK k \in 1 .. n : x = w[k]
    BY <1>9, <1>10 DEF Elements
  <2> QED
    BY <1>2, <1>6, <1>8, <2>1 DEF Elements
<1>11. ASSUME NEW x \in Elements(s) \ {v} PROVE x \in Elements(w)
  <2>1. PICK i \in DOMAIN s : x = s[i]
    BY <1>11 DEF Elements
  <2>2. i \in K
    BY <1>2, <1>11, <2>1
  <2>3. Set!Rank(K, i) \in 1 .. n /\ w[Set!Rank(K, i)] = s[i]
    BY <1>5, <1>7, <1>8, <2>2
  <2> QED
    BY <1>9, <2>1, <2>3 DEF Elements
<1> QED
  BY <1>9, <1>10, <1>11 DEF w

-----------------------------------------------------------------------------
(* Who holds which stripe *)

Places == {"idle", "lock", "test", "change", "count", "density", "resize", "retest", "move", "return"}

SetTypes ==
    /\ \E k \in Nat : k > 0 /\ numBuckets = NumStripes * k
    /\ writer \in [Stripes -> SetThread \cup {None}]
    /\ readers \in [Stripes -> SUBSET SetThread]
    /\ hpc \in [SetThread -> Places]
    /\ op \in [SetThread -> Ops \cup {None}]
    /\ value \in [SetThread -> Value \cup {None}]
    /\ seen \in [SetThread -> Nat]
    /\ next \in [SetThread -> 0 .. NumStripes]

\* A stripe is shared or held alone.
Exclusive == \A s \in Stripes : writer[s] # None => readers[s] = {}

\* What t holds where it is: the stripe of its value in a call, the first next[t] stripes
\* in resize() and all of them in rehash().
Standing(t) ==
    /\ hpc[t] # "idle" => op[t] \in Ops /\ value[t] \in Value
    /\ hpc[t] \in {"change", "count", "density"} => op[t] # "contains"
    /\ hpc[t] = "test" /\ op[t] = "contains" => t \in readers[Set!Stripe(value[t])]
    /\ hpc[t] \in {"test", "change", "count", "density"} /\ op[t] # "contains"
          => writer[Set!Stripe(value[t])] = t
    /\ hpc[t] = "retest" => next[t] = 1
    /\ hpc[t] = "move" => next[t] = NumStripes
    /\ hpc[t] \in {"resize", "retest", "move"} => \A s \in Stripes : s < next[t] => writer[s] = t
    /\ hpc[t] = "resize" /\ next[t] > 0 => seen[t] = numBuckets

LockInv == SetTypes /\ Exclusive /\ \A t \in SetThread : Standing(t)

\* Every value has a stripe, which goes with its bucket.
LEMMA StripeOf ==
  /\ 0 \in Stripes /\ \A s \in Stripes : s \in Nat /\ s < NumStripes
  /\ \A v \in Value : v \in Nat /\ Set!Stripe(v) \in Stripes
<1>1. \A v \in Value : v \in Nat /\ v % NumStripes \in 0 .. NumStripes - 1
  BY SetConstants, ModType
<1> QED
  BY <1>1, SetConstants DEF Stripes, Set!Stripe

\* What a step of t has to respect of the others.
Undisturbed(t) ==
    \A u \in SetThread \ {t} :
        /\ hpc'[u] = hpc[u] /\ op'[u] = op[u] /\ value'[u] = value[u]
        /\ seen'[u] = seen[u] /\ next'[u] = next[u]
        /\ \A s \in Stripes : /\ writer[s] = u => writer'[s] = u
                              /\ u \in readers[s] => u \in readers'[s]
        /\ hpc[u] = "resize" /\ next[u] > 0 => numBuckets' = numBuckets

LEMMA StandingStep ==
  ASSUME NEW t \in SetThread, LockInv, SetTypes', Exclusive', Standing(t)', Undisturbed(t)
  PROVE  LockInv'
<1>1. ASSUME NEW u \in SetThread \ {t} PROVE Standing(u)'
  <2>1. Standing(u)
    BY DEF LockInv
  <2>2. hpc[u] # "idle" => Set!Stripe(value[u]) \in Stripes
    BY <2>1, StripeOf DEF Standing
  <2>3. /\ hpc'[u] = hpc[u] /\ op'[u] = op[u] /\ value'[u] = value[u]
        /\ seen'[u] = seen[u] /\ next'[u] = next[u]
        /\ \A s \in Stripes : /\ writer[s] = u => writer'[s] = u
                              /\ u \in readers[s] => u \in readers'[s]
        /\ hpc[u] = "resize" /\ next[u] > 0 => numBuckets' = numBuckets
    BY DEF Undisturbed
  <2>4. Set!Stripe(value[u])' = Set!Stripe(value[u])
    BY <2>3 DEF Set!Stripe
  <2> QED
    BY <2>1, <2>2, <2>3, <2>4 DEF Standing
<1> QED
  BY <1>1 DEF LockInv

\* The steps that lock and unlock nothing.
LEMMA StandingStay ==
  ASSUME NEW t \in SetThread, LockInv, SetTypes', Standing(t)',
         UNCHANGED <<writer, readers, numBuckets>>,
         \A u \in SetThread \ {t} :
             /\ hpc'[u] = hpc[u] /\ op'[u] = op[u] /\ value'[u] = value[u]
             /\ seen'[u] = seen[u] /\ next'[u] = next[u]
  PROVE  LockInv'
<1>1. Exclusive' /\ Undisturbed(t)
  BY DEF LockInv, Exclusive, Undisturbed
<1> QED
  BY <1>1, StandingStep

LEMMA InvokeLocks ==
  ASSUME NEW t \in SetThread, LockInv, Set!Invoke(t)
  PROVE  LockInv'
<1>1. PICK o \in Ops, v \in Value :
         /\ hpc[t] = "idle" /\ hpc' = [hpc EXCEPT ![t] = "lock"]
         /\ op' = [op EXCEPT ![t] = o] /\ value' = [value EXCEPT ![t] = v]
         /\ UNCHANGED <<writer, readers, numBuckets, seen, next>>
  BY DEF Set!Invoke, Set!Goto, Ops, Set!table, Set!locks
<1>2. SetTypes'
  BY <1>1 DEF LockInv, SetTypes, Places
<1>3. Standing(t)'
  BY <1>1 DEF LockInv, SetTypes, Standing
<1>4. \A u \in SetThread \ {t} :
         /\ hpc'[u] = hpc[u] /\ op'[u] = op[u] /\ value'[u] = value[u]
         /\ seen'[u] = seen[u] /\ next'[u] = next[u]
  BY <1>1 DEF LockInv, SetTypes
<1> QED
  BY <1>1, <1>2, <1>3, <1>4, StandingStay

LEMMA LockAloneLocks ==
  ASSUME NEW t \in SetThread, LockInv, Set!LockAlone(t)
  PROVE  LockInv'
<1> DEFINE s == Set!Stripe(value[t])
<1>1. /\ hpc[t] = "lock" /\ op[t] # "contains" /\ hpc' = [hpc EXCEPT ![t] = "test"]
      /\ writer[s] = None /\ readers[s] = {}
      /\ writer' = [writer EXCEPT ![s] = t]
      /\ UNCHANGED <<readers, numBuckets, op, value, seen, next>>
  BY DEF Set!LockAlone, Set!Goto, Set!Free, Set!table, Set!frame
<1>2. op[t] \in Ops /\ value[t] \in Value /\ s \in Stripes /\ s' = s
  BY <1>1, StripeOf DEF LockInv, Standing, Set!Stripe
<1> HIDE DEF s
<1>3. SetTypes'
  BY <1>1, <1>2 DEF LockInv, SetTypes, Places
<1>4. Exclusive'
  BY <1>1, <1>2 DEF LockInv, SetTypes, Exclusive
<1>5. Standing(t)'
  BY <1>1, <1>2 DEF LockInv, SetTypes, Standing, s
<1>6. Undisturbed(t)
  BY <1>1, <1>2, SetConstants DEF LockInv, SetTypes, Undisturbed
<1> QED
  BY <1>3, <1>4, <1>5, <1>6, StandingStep

LEMMA LockSharedLocks ==
  ASSUME NEW t \in SetThread, LockInv, Set!LockShared(t)
  PROVE  LockInv'
<1> DEFINE s == Set!Stripe(value[t])
<1>1. /\ hpc[t] = "lock" /\ op[t] = "contains" /\ hpc' = [hpc EXCEPT ![t] = "test"]
      /\ writer[s] = None
      /\ readers' = [readers EXCEPT ![s] = @ \cup {t}]
      /\ UNCHANGED <<writer, numBuckets, op, value, seen, next>>
  BY DEF Set!LockShared, Set!Goto, Set!table, Set!frame
<1>2. op[t] \in Ops /\ value[t] \in Value /\ s \in Stripes /\ s' = s
  BY <1>1, StripeOf DEF LockInv, Standing, Set!Stripe
<1> HIDE DEF s
<1>3. SetTypes'
  BY <1>1, <1>2 DEF LockInv, SetTypes, Places
<1>4. Exclusive'
  BY <1>1, <1>2 DEF LockInv, SetTypes, Exclusive
<1>5. Standing(t)'
  BY <1>1, <1>2 DEF LockInv, SetTypes, Standing, s
<1>6. Undisturbed(t)
  BY <1>1, <1>2, SetConstants DEF LockInv, SetTypes, Undisturbed
<1> QED
  BY <1>3, <1>4, <1>5, <1>6, StandingStep

\* The steps under a lock that move t from one place of its call to another one that is
\* reached with what t holds.
LEMMA PlaceLocks ==
  ASSUME NEW t \in SetThread, LockInv, NEW p \in Places,
         hpc' = [hpc EXCEPT ![t] = p],
         UNCHANGED <<writer, readers, numBuckets, op, value, seen, next>>,
         \/ hpc[t] # "idle" /\ p = "return"
         \/ hpc[t] = "test" /\ op[t] # "contains" /\ p = "change"
         \/ hpc[t] = "change" /\ p = "count"
         \/ hpc[t] = "count" /\ p = "density"
         \/ hpc[t] = "retest" /\ seen[t] = numBuckets /\ p = "resize"
         \/ p = hpc[t]
  PROVE  LockInv'
<1>1. SetTypes'
  BY DEF LockInv, SetTypes
<1>2. Standing(t)
  BY DEF LockInv
<1>3. hpc'[t] = p
  BY DEF LockInv, SetTypes
<1>4. Set!Stripe(value[t])' = Set!Stripe(value[t])
  BY DEF Set!Stripe
<1>5. Standing(t)'
  BY <1>2, <1>3, <1>4 DEF Standing
<1>6. \A u \in SetThread \ {t} :
         /\ hpc'[u] = hpc[u] /\ op'[u] = op[u] /\ value'[u] = value[u]
         /\ seen'[u] = seen[u] /\ next'[u] = next[u]
  BY DEF LockInv, SetTypes
<1> QED
  BY <1>1, <1>5, <1>6, StandingStay

LEMMA CallLocks ==
  ASSUME NEW t \in SetThread, LockInv,
         \/ Set!Look(t) \/ Set!Ask(t) \/ Set!PushFront(t) \/ Set!Erase(t)
         \/ Set!CountUp(t) \/ Set!CountDown(t) \/ Set!Retest(t) \/ Set!Move(t)
  PROVE  LockInv'
<1> USE DEF Set!Goto, Set!table, Set!locks, Set!frame
<1>0. hpc \in [SetThread -> Places] /\ hpc = [hpc EXCEPT ![t] = hpc[t]] /\ hpc[t] \in Places
  BY DEF LockInv, SetTypes
<1>1. CASE Set!Look(t)
  <2>1. /\ hpc[t] = "test" /\ hpc' = [hpc EXCEPT ![t] = "return"]
        /\ UNCHANGED <<writer, readers, numBuckets, op, value, seen, next>>
    BY <1>1 DEF Set!Look
  <2> QED
    BY <2>1, PlaceLocks DEF Places
<1>2. CASE Set!Ask(t)
  <2>1. PICK p \in {"change", "return"} :
           /\ hpc[t] = "test" /\ op[t] # "contains" /\ hpc' = [hpc EXCEPT ![t] = p]
           /\ UNCHANGED <<writer, readers, numBuckets, op, value, seen, next>>
    BY <1>2 DEF Set!Ask
  <2> QED
    BY <2>1, PlaceLocks DEF Places
<1>3. CASE Set!PushFront(t) \/ Set!Erase(t)
  <2>1. /\ hpc[t] = "change" /\ hpc' = [hpc EXCEPT ![t] = "count"]
        /\ UNCHANGED <<writer, readers, numBuckets, op, value, seen, next>>
    BY <1>3 DEF Set!PushFront, Set!Erase
  <2> QED
    BY <2>1, PlaceLocks DEF Places
<1>4. CASE Set!CountUp(t) \/ Set!CountDown(t)
  <2>1. PICK p \in {"density", "return"} :
           /\ hpc[t] = "count" /\ hpc' = [hpc EXCEPT ![t] = p]
           /\ UNCHANGED <<writer, readers, numBuckets, op, value, seen, next>>
    BY <1>4 DEF Set!CountUp, Set!CountDown
  <2> QED
    BY <2>1, PlaceLocks DEF Places
<1>5. CASE Set!Retest(t)
  <2>1. PICK p \in {"resize", "return"} :
           /\ hpc[t] = "retest" /\ hpc' = [hpc EXCEPT ![t] = p]
           /\ p = "resize" => seen[t] = numBuckets
           /\ UNCHANGED <<writer, readers, numBuckets, op, value, seen, next>>
    BY <1>5 DEF Set!Retest
  <2> QED
    BY <2>1, PlaceLocks DEF Places
<1>6. CASE Set!Move(t)
  <2>1. PICK p \in {"move", "return"} :
           /\ hpc[t] = "move" /\ hpc' = [hpc EXCEPT ![t] = p]
           /\ UNCHANGED <<writer, readers, numBuckets, op, value, seen, next>>
    BY <1>0, <1>6 DEF Set!Move
  <2> QED
    BY <2>1, PlaceLocks DEF Places
<1> QED
  BY <1>1, <1>2, <1>3, <1>4, <1>5, <1>6

\* Nobody but t loses a lock when t unlocks what it holds.
LEMMA UnlockAllFrees ==
  ASSUME NEW t \in SetThread, SetTypes, Exclusive, Set!UnlockAll(t)
  PROVE  /\ writer' \in [Stripes -> SetThread \cup {None}]
         /\ readers' \in [Stripes -> SUBSET SetThread]
         /\ Exclusive'
         /\ \A u \in SetThread \ {t}, s \in Stripes :
                /\ writer[s] = u => writer'[s] = u
                /\ u \in readers[s] => u \in readers'[s]
BY DEF SetTypes, Exclusive, Set!UnlockAll, Set!Stripes, Stripes

LEMMA DensityLocks ==
  ASSUME NEW t \in SetThread, LockInv, Set!Density(t)
  PROVE  LockInv'
<1>0. hpc[t] = "density" /\ UNCHANGED <<numBuckets, op, value>>
  BY DEF Set!Density, Set!table, Set!frame
<1>1. CASE Set!TooDense
  <2>1. /\ seen' = [seen EXCEPT ![t] = numBuckets] /\ next' = [next EXCEPT ![t] = 0]
        /\ hpc' = [hpc EXCEPT ![t] = "resize"] /\ Set!UnlockAll(t)
    BY <1>1 DEF Set!Density, Set!Goto
  <2>2. numBuckets \in Nat /\ 0 \in 0 .. NumStripes
    <3>1. \A k \in Nat : NumStripes * k \in Nat
      BY SetConstants
    <3> QED
      BY <3>1, SetConstants DEF LockInv, SetTypes
  <2>3. SetTypes' /\ Exclusive'
    BY <1>0, <2>1, <2>2, UnlockAllFrees DEF LockInv, SetTypes, Places
  <2>4. Standing(t)'
    BY <1>0, <2>1, StripeOf DEF LockInv, SetTypes, Standing
  <2>5. Undisturbed(t)
    BY <1>0, <2>1, UnlockAllFrees DEF LockInv, SetTypes, Undisturbed
  <2> QED
    BY <2>3, <2>4, <2>5, StandingStep
<1>2. CASE ~Set!TooDense
  <2>1. /\ hpc' = [hpc EXCEPT ![t] = "return"]
        /\ UNCHANGED <<seen, next, writer, readers>>
    BY <1>2 DEF Set!Density, Set!Goto, Set!locks
  <2> QED
    BY <1>0, <2>1, PlaceLocks DEF Places
<1> QED
  BY <1>1, <1>2

LEMMA ReturnLocks ==
  ASSUME NEW t \in SetThread, LockInv, Set!Return(t)
  PROVE  LockInv'
<1>1. /\ hpc[t] = "return" /\ hpc' = [hpc EXCEPT ![t] = "idle"] /\ Set!UnlockAll(t)
      /\ UNCHANGED <<numBuckets, op, value, seen, next>>
  BY DEF Set!Return, Set!Goto, Set!table, Set!frame
<1>2. SetTypes' /\ Exclusive'
  BY <1>1, UnlockAllFrees DEF LockInv, SetTypes, Places
<1>3. Standing(t)'
  BY <1>1 DEF LockInv, SetTypes, Standing
<1>4. Undisturbed(t)
  BY <1>1, UnlockAllFrees DEF LockInv, SetTypes, Undisturbed
<1> QED
  BY <1>2, <1>3, <1>4, StandingStep

LEMMA ResizeLockLocks ==
  ASSUME NEW t \in SetThread, LockInv, Set!ResizeLock(t)
  PROVE  LockInv'
<1> DEFINE s == next[t]
<1>1. /\ hpc[t] = "resize" /\ s < NumStripes
      /\ writer[s] = None /\ readers[s] = {}
      /\ writer' = [writer EXCEPT ![s] = t] /\ next' = [next EXCEPT ![t] = s + 1]
      /\ hpc' = [hpc EXCEPT ![t] = IF s = 0 THEN "retest" ELSE "resize"]
      /\ UNCHANGED <<readers, numBuckets, op, value, seen>>
  BY DEF Set!ResizeLock, Set!Free, Set!Goto, Set!table, Set!frame
<1>2. s \in Stripes /\ s \in Nat /\ s + 1 \in 0 .. NumStripes /\ next'[t] = s + 1
  BY <1>1, SetConstants DEF LockInv, SetTypes, Stripes
<1>3. SetTypes'
  BY <1>1, <1>2 DEF LockInv, SetTypes, Places
<1>4. Exclusive'
  BY <1>1, <1>2 DEF LockInv, SetTypes, Exclusive
<1>5. Standing(t)'
  <2>1. /\ hpc'[t] = IF s = 0 THEN "retest" ELSE "resize"
        /\ op[t] \in Ops /\ value[t] \in Value
        /\ \A r \in Stripes : r < s => writer[r] = t
        /\ s > 0 => seen[t] = numBuckets
    BY <1>1, <1>2 DEF LockInv, SetTypes, Standing
  <2>2. \A r \in Stripes : r < s + 1 => r < s \/ r = s
    BY <1>2, StripeOf
  <2>3. \A r \in Stripes : r < s + 1 => writer'[r] = t
    BY <1>1, <1>2, <2>1, <2>2 DEF LockInv, SetTypes
  <2> HIDE DEF s
  <2>4. s = 0 => next'[t] = 1
    BY <1>2
  <2> QED
    BY <1>1, <1>2, <2>1, <2>3, <2>4 DEF Standing
<1> HIDE DEF s
<1>6. Undisturbed(t)
  BY <1>1, <1>2, SetConstants DEF LockInv, SetTypes, Undisturbed
<1> QED
  BY <1>3, <1>4, <1>5, <1>6, StandingStep

\* Whoever holds every stripe is alone: nobody else holds one, in any way.
LEMMA AllHeld ==
  ASSUME NEW t \in SetThread, LockInv, \A s \in Stripes : writer[s] = t
  PROVE  \A u \in SetThread \ {t} :
            /\ hpc[u] \notin {"test", "change", "count", "density", "retest", "move"}
            /\ hpc[u] = "resize" => ~(next[u] > 0)
<1> SUFFICES ASSUME NEW u \in SetThread \ {t}
             PROVE  /\ hpc[u] \notin {"test", "change", "count", "density", "retest", "move"}
                    /\ hpc[u] = "resize" => ~(next[u] > 0)
  OBVIOUS
<1>1. Standing(u) /\ (hpc[u] # "idle" => Set!Stripe(value[u]) \in Stripes)
  BY StripeOf DEF LockInv, Standing
<1>2. \A s \in Stripes : writer[s] # u /\ u \notin readers[s]
  BY SetConstants DEF LockInv, Exclusive
<1>3. 0 \in Stripes /\ NumStripes > 0
  BY SetConstants, StripeOf
<1> QED
  BY <1>1, <1>2, <1>3 DEF Standing

\* Before the table is swapped t holds every stripe.
LEMMA SwapHolds ==
  ASSUME NEW t \in SetThread, LockInv,
         (hpc[t] = "resize" /\ next[t] = NumStripes) \/ hpc[t] = "move"
  PROVE  \A s \in Stripes : writer[s] = t
BY StripeOf DEF LockInv, Standing

LEMMA SwapLocks ==
  ASSUME NEW t \in SetThread, LockInv, Set!Swap(t)
  PROVE  LockInv'
<1>1. /\ hpc[t] = "resize" /\ next[t] = NumStripes /\ hpc' = [hpc EXCEPT ![t] = "move"]
      /\ numBuckets' = numBuckets * GrowthFactor
      /\ UNCHANGED <<writer, readers, op, value, seen, next>>
  BY DEF Set!Swap, Set!Goto, Set!locks, Set!frame
<1>2. SetTypes'
  <2>1. PICK k \in Nat : k > 0 /\ numBuckets = NumStripes * k
    BY DEF LockInv, SetTypes
  <2>2. /\ k * GrowthFactor \in Nat /\ k * GrowthFactor > 0
        /\ numBuckets' = NumStripes * (k * GrowthFactor)
    <3>1. k * GrowthFactor \in Nat /\ k * GrowthFactor > 0
      BY <2>1, SetConstants, ModOfMultiple
    <3>2. numBuckets' = NumStripes * (k * GrowthFactor)
      BY <1>1, <2>1, SetConstants
    <3> QED
      BY <3>1, <3>2
  <2>3. \E n \in Nat : n > 0 /\ numBuckets' = NumStripes * n
    BY <2>2
  <2> QED
    BY <1>1, <2>3 DEF LockInv, SetTypes, Places
<1>3. Exclusive'
  BY <1>1 DEF LockInv, Exclusive
<1>4. Standing(t)'
  BY <1>1 DEF LockInv, SetTypes, Standing
<1>5. Undisturbed(t)
  BY <1>1, AllHeld, SwapHolds DEF LockInv, SetTypes, Undisturbed
<1> QED
  BY <1>2, <1>3, <1>4, <1>5, StandingStep

\* A step of one thread.
SetStep(t) == Set!Invoke(t) \/ Set!Acquire(t) \/ Set!Work(t)

LEMMA LockStep ==
  ASSUME NEW t \in SetThread, LockInv, SetStep(t)
  PROVE  LockInv'
BY InvokeLocks, LockAloneLocks, LockSharedLocks, CallLocks, DensityLocks, ReturnLocks,
   ResizeLockLocks, SwapLocks DEF SetStep, Set!Acquire, Set!Work

-----------------------------------------------------------------------------
(* Buckets and stripes *)

\* The buckets of a stripe are those with its number as the remainder: a bucket stays
\* with its stripe when the table grows.
LEMMA BucketOf ==
  ASSUME SetTypes
  PROVE  /\ numBuckets \in Nat /\ numBuckets > 0
         /\ \A v \in Value : /\ Set!Bucket(v) \in 0 .. numBuckets - 1
                             /\ Set!Bucket(v) % NumStripes = Set!Stripe(v)
<1>1. PICK k \in Nat : k > 0 /\ numBuckets = NumStripes * k
  BY DEF SetTypes
<1>2. NumStripes * k \in Nat /\ NumStripes * k > 0
  BY <1>1, SetConstants, ModOfMultiple
<1>3. ASSUME NEW v \in Value
      PROVE  /\ v % numBuckets \in 0 .. numBuckets - 1
             /\ (v % numBuckets) % NumStripes = v % NumStripes
  <2>1. v \in Nat
    BY SetConstants
  <2>2. v % numBuckets \in 0 .. numBuckets - 1
    BY <1>1, <1>2, <2>1, ModType
  <2> QED
    BY <1>1, <2>1, <2>2, SetConstants, ModOfMultiple
<1> QED
  BY <1>1, <1>2, <1>3 DEF Set!Bucket, Set!Stripe

\* Who accesses a bucket holds its stripe, alone if to write; who accesses the table
\* holds them all.
LEMMA NoRace ==
  ASSUME LockInv
  PROVE  Set!NoDataRace
<1> USE DEF Set!WritesTable, Set!WritesBucket, Set!ReadsBucket, Set!ReadsSize
<1>1. ASSUME NEW t \in SetThread, NEW u \in SetThread, t # u, Set!WritesTable(t)
      PROVE  ~(Set!ReadsBucket(u) \/ Set!WritesBucket(u) \/ Set!WritesTable(u) \/ Set!ReadsSize(u))
  <2>1. \A s \in Stripes : writer[s] = t
    BY <1>1, SwapHolds
  <2>2. /\ hpc[u] \notin {"test", "change", "count", "density", "retest", "move"}
        /\ hpc[u] = "resize" => ~(next[u] > 0)
    BY <1>1, <2>1, AllHeld
  <2> QED
    BY <2>2, SetConstants
<1>2. ASSUME NEW t \in SetThread, NEW u \in SetThread, t # u,
             Set!WritesBucket(t), Set!ReadsBucket(u) \/ Set!WritesBucket(u)
      PROVE  Set!Bucket(value[t]) # Set!Bucket(value[u])
  <2> DEFINE s == Set!Stripe(value[t])  r == Set!Stripe(value[u])
  <2>1. Standing(t) /\ Standing(u) /\ value[t] \in Value /\ value[u] \in Value
    BY <1>2 DEF LockInv, Standing
  <2>2. s \in Stripes /\ r \in Stripes
    BY <2>1, StripeOf
  <2>3. writer[s] = t /\ (writer[r] = u \/ u \in readers[r])
    BY <1>2, <2>1 DEF Standing
  <2>4. s # r
    <3> HIDE DEF s, r
    <3> QED
      BY <1>2, <2>2, <2>3, SetConstants DEF LockInv, Exclusive
  <2> QED
    BY <2>1, <2>4, BucketOf DEF LockInv
<1> QED
  BY <1>1, <1>2 DEF Set!NoDataRace

-----------------------------------------------------------------------------
(* What the table holds *)

TableTypes == /\ buckets \in [0 .. numBuckets - 1 -> Seq(Value)]
              /\ oldBuckets \in Seq(Seq(Value))

\* Values are in their buckets, and nothing is left in the old ones when nobody moves it.
InItsBucket == /\ \A b \in 0 .. numBuckets - 1 : \A x \in Elements(buckets[b]) : Set!Bucket(x) = b
               /\ oldBuckets # <<>> => \E t \in SetThread : hpc[t] = "move"

TableInv == TableTypes /\ InItsBucket

LEMMA InMembers ==
  ASSUME TableTypes
  PROVE  \A x : x \in Set!Members <=>
                   \/ \E b \in 0 .. numBuckets - 1 : x \in Elements(buckets[b])
                   \/ \E i \in 1 .. Len(oldBuckets) : x \in Elements(oldBuckets[i])
<1> DEFINE New == UNION {Set!ToSet(buckets[b]) : b \in DOMAIN buckets}
           Old == UNION {Set!ToSet(oldBuckets[i]) : i \in DOMAIN oldBuckets}
<1>1. DOMAIN buckets = 0 .. numBuckets - 1 /\ DOMAIN oldBuckets = 1 .. Len(oldBuckets)
  BY DEF TableTypes
<1>2. Set!Members = New \cup Old
  BY DEF Set!Members
<1>3. ASSUME NEW x
      PROVE  /\ x \in New <=> \E b \in DOMAIN buckets : x \in Set!ToSet(buckets[b])
             /\ x \in Old <=> \E i \in DOMAIN oldBuckets : x \in Set!ToSet(oldBuckets[i])
  OBVIOUS
<1> HIDE DEF New, Old
<1>4. ASSUME NEW x
      PROVE  /\ x \in New <=> \E b \in 0 .. numBuckets - 1 : x \in Elements(buckets[b])
             /\ x \in Old <=> \E i \in 1 .. Len(oldBuckets) : x \in Elements(oldBuckets[i])
  BY <1>1, <1>3, SetLibrary
<1> QED
  BY <1>2, <1>4

LEMMA InMembersPrimed ==
  ASSUME TableTypes'
  PROVE  \A x : x \in Set!Members' <=>
                   \/ \E b \in 0 .. numBuckets' - 1 : x \in Elements(buckets'[b])
                   \/ \E i \in 1 .. Len(oldBuckets') : x \in Elements(oldBuckets'[i])
<1> DEFINE New == UNION {Set!ToSet(buckets'[b]) : b \in DOMAIN buckets'}
           Old == UNION {Set!ToSet(oldBuckets'[i]) : i \in DOMAIN oldBuckets'}
<1>1. DOMAIN buckets' = 0 .. numBuckets' - 1 /\ DOMAIN oldBuckets' = 1 .. Len(oldBuckets')
  BY DEF TableTypes
<1>2. Set!Members' = New \cup Old
  BY DEF Set!Members
<1>3. ASSUME NEW x
      PROVE  /\ x \in New <=> \E b \in DOMAIN buckets' : x \in Set!ToSet(buckets'[b])
             /\ x \in Old <=> \E i \in DOMAIN oldBuckets' : x \in Set!ToSet(oldBuckets'[i])
  OBVIOUS
<1> HIDE DEF New, Old
<1>4. ASSUME NEW x
      PROVE  /\ x \in New <=> \E b \in 0 .. numBuckets' - 1 : x \in Elements(buckets'[b])
             /\ x \in Old <=> \E i \in 1 .. Len(oldBuckets') : x \in Elements(oldBuckets'[i])
  BY <1>1, <1>3, SetLibrary
<1> QED
  BY <1>2, <1>4

\* As long as t holds a stripe nobody moves.
LEMMA NobodyMoves ==
  ASSUME NEW t \in SetThread, LockInv, TableInv,
         hpc[t] \in {"test", "change"} \/ (hpc[t] = "resize" /\ next[t] = NumStripes)
  PROVE  oldBuckets = <<>>
<1> SUFFICES ASSUME NEW u \in SetThread, hpc[u] = "move" PROVE FALSE
  BY DEF TableInv, InItsBucket
<1>1. u # t /\ t # u /\ \A s \in Stripes : writer[s] = u
  BY SwapHolds
<1> QED
  BY <1>1, AllHeld, SetConstants

\* A value is in the set just if it is in its bucket.
LEMMA FoundMembers ==
  ASSUME NEW t \in SetThread, LockInv, TableInv, hpc[t] \in {"test", "change"}
  PROVE  /\ value[t] \in Value
         /\ Set!Found(value[t]) <=> value[t] \in Set!Members
<1>1. value[t] \in Value /\ oldBuckets = <<>>
  BY NobodyMoves DEF LockInv, Standing
<1>2. Set!Bucket(value[t]) \in 0 .. numBuckets - 1
  BY <1>1, BucketOf DEF LockInv
<1>3. Set!Found(value[t]) <=> value[t] \in Elements(buckets[Set!Bucket(value[t])])
  BY SetLibrary DEF Set!Found
<1>4. Len(oldBuckets) = 0 /\ 1 .. 0 = {}
  BY <1>1
<1>5. value[t] \in Set!Members <=> \E b \in 0 .. numBuckets - 1 : value[t] \in Elements(buckets[b])
  BY <1>4, InMembers DEF TableInv
<1> QED
  BY <1>1, <1>2, <1>3, <1>5 DEF TableInv, InItsBucket

\* What is in the set when t has made its step.
MembersAfter(t) ==
    IF hpc[t] = "change" THEN IF op[t] = "add" THEN Set!Members \cup {value[t]}
                              ELSE Set!Members \ {value[t]}
    ELSE Set!Members

\* What a step of t does to the table.
TableStep(t) == TableInv' /\ Set!Members' = MembersAfter(t)

LEMMA TableStays ==
  ASSUME NEW t \in SetThread, LockInv, TableInv, UNCHANGED Set!table,
         hpc[t] \notin {"change", "move"},
         \A u \in SetThread \ {t} : hpc'[u] = hpc[u]
  PROVE  TableStep(t)
<1>1. UNCHANGED <<numBuckets, buckets, oldBuckets>>
  BY DEF Set!table
<1>2. TableTypes'
  BY <1>1 DEF TableInv, TableTypes
<1>3. InItsBucket'
  BY <1>1 DEF TableInv, InItsBucket, Set!Bucket
<1>4. Set!Members' = Set!Members
  BY <1>1 DEF Set!Members
<1> QED
  BY <1>2, <1>3, <1>4 DEF TableInv, TableStep, MembersAfter

\* A change of one bucket, while nobody moves.
LEMMA BucketStep ==
  ASSUME NEW t \in SetThread, LockInv, TableInv, hpc[t] = "change",
         NEW s \in Seq(Value), NEW X,
         buckets' = [buckets EXCEPT ![Set!Bucket(value[t])] = s],
         UNCHANGED <<numBuckets, oldBuckets>>,
         X \in {Set!Members \cup {value[t]}, Set!Members \ {value[t]}},
         X = Set!Members \cup {value[t]}
            => Elements(s) = {value[t]} \cup Elements(buckets[Set!Bucket(value[t])]),
         X = Set!Members \ {value[t]}
            => Elements(s) = Elements(buckets[Set!Bucket(value[t])]) \ {value[t]}
  PROVE  TableInv' /\ Set!Members' = X
<1> DEFINE v == value[t]  k == Set!Bucket(value[t])
<1>1. v \in Value /\ oldBuckets = <<>> /\ k \in 0 .. numBuckets - 1
  BY NobodyMoves, BucketOf DEF LockInv, Standing
<1>2. \A x : Set!Bucket(x)' = Set!Bucket(x)
  BY DEF Set!Bucket
<1>3. /\ buckets'[k] = s
      /\ \A b \in 0 .. numBuckets - 1 : b # k => buckets'[b] = buckets[b]
      /\ TableTypes'
  BY <1>1 DEF TableInv, TableTypes
<1>4. \A b \in 0 .. numBuckets - 1 : \A x \in Elements(buckets[b]) : Set!Bucket(x) = b
  BY DEF TableInv, InItsBucket
<1>5. Len(oldBuckets) = 0 /\ 1 .. Len(oldBuckets) = {}
  BY <1>1
<1>6. \A x : x \in Set!Members <=> \E b \in 0 .. numBuckets - 1 : x \in Elements(buckets[b])
  BY <1>5, InMembers DEF TableInv
<1>7. \A x : x \in Set!Members' <=> \E b \in 0 .. numBuckets - 1 : x \in Elements(buckets'[b])
  BY <1>3, <1>5, InMembersPrimed
<1>8. Set!Bucket(v) = k
  OBVIOUS
<1> HIDE DEF v, k
<1>9. CASE X = Set!Members \cup {v}
  <2>1. Elements(s) = {v} \cup Elements(buckets[k])
    BY <1>9 DEF v, k
  <2>2. InItsBucket'
    BY <1>1, <1>2, <1>3, <1>4, <1>8, <2>1 DEF InItsBucket
  <2>3. ASSUME NEW x PROVE x \in Set!Members' <=> x \in X
    BY <1>1, <1>3, <1>6, <1>7, <1>9, <2>1
  <2> QED
    BY <1>3, <2>2, <2>3 DEF TableInv
<1>10. CASE X = Set!Members \ {v}
  <2>1. Elements(s) = Elements(buckets[k]) \ {v}
    BY <1>10 DEF v, k
  <2>2. InItsBucket'
    BY <1>1, <1>2, <1>3, <1>4, <2>1 DEF InItsBucket
  <2>3. ASSUME NEW x PROVE x \in Set!Members' <=> x \in X
    <3>1. \A b \in 0 .. numBuckets - 1 : v \in Elements(buckets[b]) => b = k
      BY <1>4, <1>8
    <3> QED
      BY <1>1, <1>3, <1>6, <1>7, <1>10, <2>1, <3>1
  <2> QED
    BY <1>3, <2>2, <2>3 DEF TableInv
<1> QED
  BY <1>9, <1>10 DEF v

LEMMA ChangeTable ==
  ASSUME NEW t \in SetThread, LockInv, TableInv, Set!PushFront(t) \/ Set!Erase(t)
  PROVE  TableStep(t)
<1> DEFINE v == value[t]  k == Set!Bucket(value[t])  M == Set!Members
<1>1. /\ hpc[t] = "change" /\ UNCHANGED <<numBuckets, oldBuckets>>
      /\ op[t] \in {"add", "remove"}
  BY DEF Set!PushFront, Set!Erase
<1>2. v \in Value /\ k \in 0 .. numBuckets - 1 /\ buckets[k] \in Seq(Value)
  BY <1>1, BucketOf DEF LockInv, Standing, TableInv, TableTypes
<1>3. CASE Set!PushFront(t)
  <2>1. op[t] = "add" /\ buckets' = [buckets EXCEPT ![k] = <<v>> \o buckets[k]]
    BY <1>3 DEF Set!PushFront
  <2>2. <<v>> \o buckets[k] \in Seq(Value)
        /\ Elements(<<v>> \o buckets[k]) = {v} \cup Elements(buckets[k])
    BY <1>2, ConsElements
  <2>3. M \cup {v} = M \ {v} => FALSE
    OBVIOUS
  <2>4. TableInv' /\ M' = M \cup {v}
    BY <1>1, <2>1, <2>2, <2>3, BucketStep
  <2> QED
    BY <1>1, <2>1, <2>4 DEF TableStep, MembersAfter
<1>4. CASE Set!Erase(t)
  <2>1. op[t] = "remove" /\ buckets' = [buckets EXCEPT ![k] = Set!Without(buckets[k], v)]
    BY <1>4 DEF Set!Erase
  <2>2. Set!Without(buckets[k], v) \in Seq(Value)
        /\ Elements(Set!Without(buckets[k], v)) = Elements(buckets[k]) \ {v}
    BY <1>2, WithoutElements
  <2>3. M \cup {v} = M \ {v} => FALSE
    OBVIOUS
  <2>4. TableInv' /\ M' = M \ {v}
    BY <1>1, <2>1, <2>2, <2>3, BucketStep
  <2> QED
    BY <1>1, <2>1, <2>4 DEF TableStep, MembersAfter
<1> QED
  BY <1>3, <1>4

\* The buckets become the old ones, the new ones are empty.
LEMMA SwapTable ==
  ASSUME NEW t \in SetThread, LockInv, TableInv, Set!Swap(t), LockInv'
  PROVE  TableStep(t)
<1>1. /\ hpc[t] = "resize" /\ next[t] = NumStripes /\ hpc' = [hpc EXCEPT ![t] = "move"]
      /\ buckets' = [b \in 0 .. numBuckets' - 1 |-> <<>>]
      /\ oldBuckets' = [i \in 1 .. numBuckets |-> buckets[i - 1]]
  BY DEF Set!Swap, Set!Goto, Set!Empty
<1>2. numBuckets \in Nat
  BY BucketOf DEF LockInv
<1>3. oldBuckets = <<>> /\ 1 .. Len(oldBuckets) = {}
  BY <1>1, NobodyMoves
<1>4. /\ \A i \in 1 .. numBuckets : i - 1 \in 0 .. numBuckets - 1
      /\ \A b \in 0 .. numBuckets - 1 : b + 1 \in 1 .. numBuckets /\ (b + 1) - 1 = b
  BY <1>2
<1>5. /\ buckets' \in [0 .. numBuckets' - 1 -> Seq(Value)]
      /\ \A b \in 0 .. numBuckets' - 1 : buckets'[b] = <<>>
  BY <1>1
<1>6. /\ oldBuckets' \in Seq(Seq(Value)) /\ Len(oldBuckets') = numBuckets
      /\ \A i \in 1 .. numBuckets : oldBuckets'[i] = buckets[i - 1]
  <2>1. \A i \in 1 .. numBuckets : buckets[i - 1] \in Seq(Value)
    BY <1>4 DEF TableInv, TableTypes
  <2> QED
    BY <1>1, <1>2, <2>1
<1>7. TableTypes'
  BY <1>5, <1>6 DEF TableTypes
<1>8. Elements(<<>>) = {}
  BY DEF Elements
<1>9. InItsBucket'
  <2>1. hpc'[t] = "move"
    BY <1>1 DEF LockInv, SetTypes
  <2> QED
    BY <1>5, <1>8, <2>1 DEF InItsBucket
<1>10. \A x : x \in Set!Members <=> \E b \in 0 .. numBuckets - 1 : x \in Elements(buckets[b])
  BY <1>3, InMembers DEF TableInv
<1>11. \A x : x \in Set!Members' <=> \E i \in 1 .. numBuckets : x \in Elements(buckets[i - 1])
  BY <1>5, <1>6, <1>7, <1>8, InMembersPrimed
<1>12. ASSUME NEW x PROVE x \in Set!Members' <=> x \in Set!Members
  BY <1>4, <1>10, <1>11
<1> QED
  BY <1>1, <1>7, <1>9, <1>12 DEF TableInv, TableStep, MembersAfter

\* An element goes to its new bucket, or an empty bucket away.
LEMMA MoveTable ==
  ASSUME NEW t \in SetThread, LockInv, TableInv, Set!Move(t), LockInv'
  PROVE  TableStep(t)
<1> DEFINE h == Head(oldBuckets)  r == Tail(oldBuckets)  M == Set!Members
<1>1. hpc[t] = "move" /\ numBuckets' = numBuckets
  BY DEF Set!Move
<1>2. \A x : Set!Bucket(x)' = Set!Bucket(x)
  BY <1>1 DEF Set!Bucket
<1>3. /\ buckets \in [0 .. numBuckets - 1 -> Seq(Value)] /\ oldBuckets \in Seq(Seq(Value))
      /\ \A b \in 0 .. numBuckets - 1 : \A x \in Elements(buckets[b]) : Set!Bucket(x) = b
  BY DEF TableInv, TableTypes, InItsBucket
<1>4. \A x : x \in M <=> \/ \E b \in 0 .. numBuckets - 1 : x \in Elements(buckets[b])
                         \/ \E i \in 1 .. Len(oldBuckets) : x \in Elements(oldBuckets[i])
  BY InMembers DEF TableInv
<1>5. ASSUME oldBuckets # <<>>
      PROVE  /\ h \in Seq(Value) /\ r \in Seq(Seq(Value))
             /\ \A x : (\E i \in 1 .. Len(oldBuckets) : x \in Elements(oldBuckets[i]))
                         <=> x \in Elements(h) \/ \E i \in 1 .. Len(r) : x \in Elements(r[i])
  <2> DEFINE n == Len(oldBuckets)
  <2>1. /\ n \in Nat /\ n > 0 /\ h = oldBuckets[1] /\ h \in Seq(Value)
        /\ r \in Seq(Seq(Value)) /\ Len(r) = n - 1
        /\ \A i \in 1 .. (n - 1) : r[i] = oldBuckets[i + 1]
    BY <1>3, <1>5, TailElements
  <2>2. /\ 1 \in 1 .. n
        /\ \A i \in 1 .. n : i = 1 \/ (i - 1 \in 1 .. (n - 1) /\ (i - 1) + 1 = i)
        /\ \A i \in 1 .. (n - 1) : i + 1 \in 1 .. n
    BY <2>1
  <2> HIDE DEF n, h, r
  <2>3. ASSUME NEW x, NEW i \in 1 .. n, x \in Elements(oldBuckets[i])
        PROVE  x \in Elements(h) \/ \E j \in 1 .. (n - 1) : x \in Elements(r[j])
    BY <2>1, <2>2, <2>3
  <2>4. ASSUME NEW x, x \in Elements(h) \/ \E j \in 1 .. (n - 1) : x \in Elements(r[j])
        PROVE  \E i \in 1 .. n : x \in Elements(oldBuckets[i])
    BY <2>1, <2>2, <2>4
  <2> QED
    BY <2>1, <2>3, <2>4 DEF n
<1>6. CASE oldBuckets # <<>> /\ h = <<>>
  <2>1. oldBuckets' = r /\ UNCHANGED <<buckets, hpc>>
    BY <1>6 DEF Set!Move
  <2>2. TableTypes'
    BY <1>1, <1>3, <1>5, <1>6, <2>1 DEF TableTypes
  <2>3. InItsBucket'
    BY <1>1, <1>2, <1>3, <2>1 DEF InItsBucket
  <2>4. \A x : x \notin Elements(<<>>)
    BY DEF Elements
  <2>5. \A x : x \in M' <=> \/ \E b \in 0 .. numBuckets - 1 : x \in Elements(buckets[b])
                            \/ \E i \in 1 .. Len(r) : x \in Elements(r[i])
    BY <1>1, <2>1, <2>2, InMembersPrimed
  <2> HIDE DEF M, h, r
  <2>6. ASSUME NEW x PROVE x \in M' <=> x \in M
    BY <1>4, <1>5, <1>6, <2>4, <2>5
  <2> QED
    BY <1>1, <2>2, <2>3, <2>6 DEF TableInv, TableStep, MembersAfter, M
<1>7. CASE oldBuckets # <<>> /\ h # <<>>
  <2> DEFINE e == Head(h)  k == Set!Bucket(e)  q == Tail(h)  s == <<e>> \o buckets[k]
  <2>1. /\ buckets' = [buckets EXCEPT ![k] = s]
        /\ oldBuckets' = <<q>> \o r /\ UNCHANGED hpc
    BY <1>7 DEF Set!Move
  <2>2. h \in Seq(Value) /\ r \in Seq(Seq(Value))
    BY <1>5, <1>7
  <2>3. e \in Value /\ q \in Seq(Value) /\ Elements(h) = {e} \cup Elements(q)
    <3> HIDE DEF h
    <3> QED
      BY <1>7, <2>2, TailElements, HeadElements
  <2>4. k \in 0 .. numBuckets - 1 /\ buckets[k] \in Seq(Value)
    <3> HIDE DEF e
    <3> QED
      BY <1>3, <2>3, BucketOf DEF LockInv
  <2>5. s \in Seq(Value) /\ Elements(s) = {e} \cup Elements(buckets[k])
    <3> HIDE DEF e, k
    <3> QED
      BY <2>3, <2>4, ConsElements
  <2>6. Set!Bucket(e) = k
    OBVIOUS
  <2> HIDE DEF h, r, e, k, q, s
  <2>7. /\ oldBuckets' \in Seq(Seq(Value)) /\ Len(oldBuckets') = Len(r) + 1 /\ Len(r) \in Nat
        /\ oldBuckets'[1] = q /\ \A i \in 1 .. Len(r) : oldBuckets'[i + 1] = r[i]
    BY <2>1, <2>2, <2>3
  <2>8. /\ buckets'[k] = s
        /\ \A b \in 0 .. numBuckets - 1 : b # k => buckets'[b] = buckets[b]
        /\ buckets' \in [0 .. numBuckets - 1 -> Seq(Value)]
    BY <1>3, <2>1, <2>4, <2>5
  <2>9. TableTypes'
    BY <1>1, <2>7, <2>8 DEF TableTypes
  <2>10. InItsBucket'
    BY <1>1, <1>2, <1>3, <2>1, <2>4, <2>5, <2>6, <2>8 DEF InItsBucket
  <2>11. \A x : (\E i \in 1 .. Len(oldBuckets') : x \in Elements(oldBuckets'[i]))
                  <=> x \in Elements(q) \/ \E i \in 1 .. Len(r) : x \in Elements(r[i])
    <3> DEFINE n == Len(r)
    <3>1. /\ n \in Nat /\ 1 \in 1 .. (n + 1)
          /\ \A i \in 1 .. (n + 1) : i = 1 \/ (i - 1 \in 1 .. n /\ (i - 1) + 1 = i)
          /\ \A i \in 1 .. n : i + 1 \in 1 .. (n + 1)
      BY <2>7
    <3>2. ASSUME NEW x, NEW i \in 1 .. (n + 1), x \in Elements(oldBuckets'[i])
          PROVE  x \in Elements(q) \/ \E j \in 1 .. n : x \in Elements(r[j])
      BY <2>7, <3>1, <3>2
    <3>3. ASSUME NEW x, x \in Elements(q) \/ \E j \in 1 .. n : x \in Elements(r[j])
          PROVE  \E i \in 1 .. (n + 1) : x \in Elements(oldBuckets'[i])
      BY <2>7, <3>1, <3>3
    <3> QED
      BY <2>7, <3>2, <3>3
  <2>12. \A x : x \in M' <=> \/ \E b \in 0 .. numBuckets - 1 : x \in Elements(buckets'[b])
                             \/ x \in Elements(q)
                             \/ \E i \in 1 .. Len(r) : x \in Elements(r[i])
    BY <1>1, <2>9, <2>11, InMembersPrimed
  <2>13. \A x : (\E b \in 0 .. numBuckets - 1 : x \in Elements(buckets'[b]))
                  <=> x = e \/ \E b \in 0 .. numBuckets - 1 : x \in Elements(buckets[b])
    BY <2>4, <2>5, <2>8
  <2> HIDE DEF M
  <2>14. ASSUME NEW x PROVE x \in M' <=> x \in M
    BY <1>4, <1>5, <1>7, <2>3, <2>12, <2>13
  <2> QED
    BY <1>1, <2>9, <2>10, <2>14 DEF TableInv, TableStep, MembersAfter, M
<1>8. CASE oldBuckets = <<>>
  <2>1. UNCHANGED <<buckets, oldBuckets>>
    BY <1>8 DEF Set!Move
  <2>2. TableTypes' /\ M' = M
    BY <1>1, <2>1 DEF TableInv, TableTypes, Set!Members
  <2>3. InItsBucket'
    BY <1>1, <1>2, <1>3, <1>8, <2>1 DEF InItsBucket
  <2> QED
    BY <1>1, <2>2, <2>3 DEF TableInv, TableStep, MembersAfter
<1> QED
  BY <1>6, <1>7, <1>8

\* A step of t leaves the others where they are.
LEMMA OthersStay ==
  ASSUME NEW t \in SetThread, SetTypes, SetStep(t), NEW u \in SetThread \ {t},
         answer \in [SetThread -> {"none", "void", "yes", "no"}]
  PROVE  hpc'[u] = hpc[u] /\ op'[u] = op[u] /\ value'[u] = value[u] /\ answer'[u] = answer[u]
<1> USE DEF Set!Goto, Set!Answer, Set!frame
<1>1. CASE Set!Invoke(t)
  BY <1>1 DEF Set!Invoke, SetTypes
<1>2. CASE Set!Acquire(t)
  BY <1>2 DEF Set!Acquire, Set!LockAlone, Set!LockShared, Set!ResizeLock, SetTypes
<1>3. CASE Set!Look(t) \/ Set!Ask(t) \/ Set!PushFront(t) \/ Set!Erase(t)
  BY <1>3 DEF Set!Look, Set!Ask, Set!PushFront, Set!Erase, SetTypes
<1>4. CASE Set!CountUp(t) \/ Set!CountDown(t) \/ Set!Density(t) \/ Set!Retest(t)
  BY <1>4 DEF Set!CountUp, Set!CountDown, Set!Density, Set!Retest, SetTypes
<1>5. CASE Set!Swap(t) \/ Set!Move(t) \/ Set!Return(t)
  BY <1>5 DEF Set!Swap, Set!Move, Set!Return, SetTypes
<1> QED
  BY <1>1, <1>2, <1>3, <1>4, <1>5 DEF SetStep, Set!Work

LEMMA SetTable ==
  ASSUME NEW t \in SetThread, LockInv, TableInv, SetStep(t), LockInv',
         answer \in [SetThread -> {"none", "void", "yes", "no"}]
  PROVE  TableStep(t)
<1>1. CASE Set!PushFront(t) \/ Set!Erase(t)
  BY <1>1, ChangeTable
<1>2. CASE Set!Swap(t)
  BY <1>2, SwapTable
<1>3. CASE Set!Move(t)
  BY <1>3, MoveTable
<1>4. CASE ~(Set!PushFront(t) \/ Set!Erase(t) \/ Set!Swap(t) \/ Set!Move(t))
  <2>1. \A u \in SetThread \ {t} : hpc'[u] = hpc[u]
    BY OthersStay DEF LockInv
  <2>2. UNCHANGED Set!table /\ hpc[t] \notin {"change", "move"}
    BY <1>4 DEF SetStep, Set!Acquire, Set!Work, Set!Invoke, Set!LockAlone, Set!LockShared,
       Set!ResizeLock, Set!Look, Set!Ask, Set!CountUp, Set!CountDown, Set!Density, Set!Retest,
       Set!Return
  <2> QED
    BY <2>1, <2>2, TableStays
<1> QED
  BY <1>1, <1>2, <1>3, <1>4

-----------------------------------------------------------------------------
(* The count and the answers *)

\* A call has its answer when it has taken effect.
Answers == /\ answer \in [SetThread -> {"none", "void", "yes", "no"}]
           /\ \A t \in SetThread :
                  answer[t] = "none" <=> hpc[t] \in {"idle", "lock", "test", "change"}

\* What add() is about to enter is not in the set, what remove() takes out is.
Chosen == \A t \in SetThread :
              hpc[t] = "change" => (value[t] \in Set!Members <=> op[t] = "remove")

\* The calls that have changed the set and are still to count it.
Late(o) == {t \in SetThread : hpc[t] = "count" /\ op[t] = o}

Counted == /\ storageSize \in Int /\ IsFiniteSet(Set!Members)
           /\ storageSize + Cardinality(Late("add"))
                = Cardinality(Set!Members) + Cardinality(Late("remove"))

SetInv == LockInv /\ TableInv /\ Answers /\ Chosen /\ Counted

LEMMA AnswersStep ==
  ASSUME NEW t \in SetThread, SetInv, SetStep(t)
  PROVE  Answers'
<1> USE DEF Set!Goto, Set!Answer
<1>1. /\ hpc \in [SetThread -> Places] /\ answer \in [SetThread -> {"none", "void", "yes", "no"}]
      /\ answer[t] = "none" <=> hpc[t] \in {"idle", "lock", "test", "change"}
      /\ SetTypes
  BY DEF SetInv, LockInv, SetTypes, Answers
<1>2. /\ answer' \in [SetThread -> {"none", "void", "yes", "no"}]
      /\ answer'[t] = "none" <=> hpc'[t] \in {"idle", "lock", "test", "change"}
  <2>1. CASE Set!Invoke(t) \/ Set!Acquire(t)
    BY <1>1, <2>1 DEF Set!Invoke, Set!Acquire, Set!LockAlone, Set!LockShared, Set!ResizeLock
  <2>2. CASE Set!Look(t) \/ Set!Ask(t) \/ Set!PushFront(t) \/ Set!Erase(t) \/ Set!Return(t)
    BY <1>1, <2>2 DEF Set!Look, Set!Ask, Set!PushFront, Set!Erase, Set!Return
  <2>3. CASE \/ Set!CountUp(t) \/ Set!CountDown(t) \/ Set!Density(t) \/ Set!Retest(t)
             \/ Set!Swap(t) \/ Set!Move(t)
    BY <1>1, <2>3 DEF Set!CountUp, Set!CountDown, Set!Density, Set!Retest, Set!Swap, Set!Move
  <2> QED
    BY <2>1, <2>2, <2>3 DEF SetStep, Set!Work
<1>3. \A u \in SetThread \ {t} : hpc'[u] = hpc[u] /\ answer'[u] = answer[u]
  BY <1>1, OthersStay
<1> QED
  BY <1>2, <1>3 DEF SetInv, Answers

LEMMA ChosenStep ==
  ASSUME NEW t \in SetThread, SetInv, SetStep(t), TableStep(t)
  PROVE  Chosen'
<1>0. LockInv /\ TableInv /\ Chosen /\ SetTypes /\ Standing(t)
      /\ answer \in [SetThread -> {"none", "void", "yes", "no"}]
  BY DEF SetInv, LockInv, Answers
<1>1. ASSUME NEW u \in SetThread \ {t}, hpc'[u] = "change"
      PROVE  value'[u] \in Set!Members' <=> op'[u] = "remove"
  <2>1. hpc[u] = "change" /\ op'[u] = op[u] /\ value'[u] = value[u] /\ Standing(u)
    BY <1>0, <1>1, OthersStay DEF LockInv
  <2>2. hpc[t] = "change" => value[t] # value[u]
    BY <1>0, <2>1 DEF Standing
  <2>3. value[u] \in Set!Members' <=> value[u] \in Set!Members
    BY <2>2 DEF TableStep, MembersAfter
  <2> QED
    BY <1>0, <2>1, <2>3 DEF Chosen
<1>2. ASSUME hpc'[t] = "change"
      PROVE  value'[t] \in Set!Members' <=> op'[t] = "remove"
  <2>1. Set!Ask(t)
    BY <1>0, <1>2 DEF SetStep, Set!Acquire, Set!Work, Set!Invoke, Set!LockAlone,
       Set!LockShared, Set!ResizeLock, Set!Look, Set!PushFront, Set!Erase, Set!CountUp,
       Set!CountDown, Set!Density, Set!Retest, Set!Swap, Set!Move, Set!Return, Set!Goto, SetTypes
  <2>2. /\ hpc[t] = "test" /\ UNCHANGED <<op, value>>
        /\ Set!Found(value[t]) <=> op[t] = "remove"
    BY <1>0, <1>2, <2>1 DEF Set!Ask, Set!Goto, Set!frame, SetTypes
  <2>3. Set!Members' = Set!Members
    BY <2>2 DEF TableStep, MembersAfter
  <2> QED
    BY <1>0, <2>2, <2>3, FoundMembers
<1> QED
  BY <1>1, <1>2 DEF Chosen

\* The calls that are still to count are finitely many.
LEMMA LateFinite == \A o : IsFiniteSet(Late(o)) /\ Cardinality(Late(o)) \in Nat
<1>1. \A o : Late(o) \in SUBSET SetThread
  BY DEF Late
<1> QED
  BY <1>1, SetConstants, FS_Subset, FS_CardinalityType

LEMMA CountedStep ==
  ASSUME NEW t \in SetThread, SetInv, SetStep(t), TableStep(t)
  PROVE  Counted'
<1> DEFINE M == Set!Members  A == Late("add")  R == Late("remove")
<1>0. /\ LockInv /\ SetTypes /\ Standing(t) /\ hpc[t] \in Places
      /\ answer \in [SetThread -> {"none", "void", "yes", "no"}]
  BY DEF SetInv, LockInv, SetTypes, Answers
<1>1. /\ storageSize \in Int /\ IsFiniteSet(M) /\ Cardinality(M) \in Nat
      /\ IsFiniteSet(A) /\ Cardinality(A) \in Nat /\ IsFiniteSet(R) /\ Cardinality(R) \in Nat
      /\ storageSize + Cardinality(A) = Cardinality(M) + Cardinality(R)
  BY LateFinite, FS_CardinalityType DEF SetInv, Counted
<1>2. \A u \in SetThread \ {t} : hpc'[u] = hpc[u] /\ op'[u] = op[u]
  BY <1>0, OthersStay
<1>3. CASE hpc[t] = "change"
  <2>1. Set!PushFront(t) \/ Set!Erase(t)
    BY <1>0, <1>3 DEF SetStep, Set!Acquire, Set!Work, Set!Invoke, Set!LockAlone,
       Set!LockShared, Set!ResizeLock, Set!Look, Set!Ask, Set!CountUp,
       Set!CountDown, Set!Density, Set!Retest, Set!Swap, Set!Move, Set!Return
  <2>2. /\ hpc'[t] = "count" /\ op'[t] = op[t] /\ storageSize' = storageSize
        /\ op[t] \in {"add", "remove"} /\ (value[t] \in M <=> op[t] = "remove")
    BY <1>0, <2>1 DEF Set!PushFront, Set!Erase, Set!Goto, Set!frame, SetTypes, SetInv, Chosen
  <2>3. CASE op[t] = "add"
    <3>1. A' = A \cup {t} /\ t \notin A /\ R' = R
      BY <1>2, <1>3, <2>2, <2>3 DEF Late
    <3>2. M' = M \cup {value[t]} /\ value[t] \notin M
      BY <1>3, <2>2, <2>3 DEF TableStep, MembersAfter
    <3> HIDE DEF M, A, R
    <3>3. Cardinality(A') = Cardinality(A) + 1
      BY <1>1, <3>1, FS_AddElement
    <3>4. IsFiniteSet(M') /\ Cardinality(M') = Cardinality(M) + 1
      BY <1>1, <3>2, FS_AddElement
    <3>5. storageSize' \in Int /\ storageSize' + Cardinality(A') = Cardinality(M') + Cardinality(R')
      BY <1>1, <2>2, <3>1, <3>3, <3>4
    <3> QED
      BY <3>4, <3>5 DEF Counted, M, A, R
  <2>4. CASE op[t] = "remove"
    <3>1. R' = R \cup {t} /\ t \notin R /\ A' = A
      BY <1>2, <1>3, <2>2, <2>4 DEF Late
    <3>2. M' = M \ {value[t]} /\ value[t] \in M
      BY <1>3, <2>2, <2>4 DEF TableStep, MembersAfter
    <3> HIDE DEF M, A, R
    <3>3. Cardinality(R') = Cardinality(R) + 1
      BY <1>1, <3>1, FS_AddElement
    <3>4. IsFiniteSet(M') /\ Cardinality(M') = Cardinality(M) - 1
      BY <1>1, <3>2, FS_RemoveElement
    <3>5. storageSize' \in Int /\ storageSize' + Cardinality(A') = Cardinality(M') + Cardinality(R')
      BY <1>1, <2>2, <3>1, <3>3, <3>4
    <3> QED
      BY <3>4, <3>5 DEF Counted, M, A, R
  <2> QED
    BY <2>2, <2>3, <2>4
<1>4. CASE hpc[t] = "count"
  <2>1. Set!CountUp(t) \/ Set!CountDown(t)
    BY <1>0, <1>4 DEF SetStep, Set!Acquire, Set!Work, Set!Invoke, Set!LockAlone,
       Set!LockShared, Set!ResizeLock, Set!Look, Set!Ask, Set!PushFront, Set!Erase,
       Set!Density, Set!Retest, Set!Swap, Set!Move, Set!Return
  <2>2. M' = M
    BY <1>4 DEF TableStep, MembersAfter
  <2>3. CASE Set!CountUp(t)
    <3>1. /\ hpc'[t] = "density" /\ op[t] = "add" /\ op' = op /\ storageSize' = storageSize + 1
      BY <1>0, <2>3 DEF Set!CountUp, Set!Goto, Set!frame, SetTypes
    <3>2. A' = A \ {t} /\ t \in A /\ R' = R
      BY <1>2, <1>4, <3>1 DEF Late
    <3> HIDE DEF M, A, R
    <3>3. Cardinality(A') = Cardinality(A) - 1
      BY <1>1, <3>2, FS_RemoveElement
    <3>4. storageSize' \in Int /\ storageSize' + Cardinality(A') = Cardinality(M') + Cardinality(R')
      BY <1>1, <2>2, <3>1, <3>2, <3>3
    <3> QED
      BY <1>1, <2>2, <3>4 DEF Counted, M, A, R
  <2>4. CASE Set!CountDown(t)
    <3>1. /\ hpc'[t] = "return" /\ op[t] = "remove" /\ op' = op /\ storageSize' = storageSize - 1
      BY <1>0, <2>4 DEF Set!CountDown, Set!Goto, Set!frame, SetTypes
    <3>2. R' = R \ {t} /\ t \in R /\ A' = A
      BY <1>2, <1>4, <3>1 DEF Late
    <3> HIDE DEF M, A, R
    <3>3. Cardinality(R') = Cardinality(R) - 1
      BY <1>1, <3>2, FS_RemoveElement
    <3>4. storageSize' \in Int /\ storageSize' + Cardinality(A') = Cardinality(M') + Cardinality(R')
      BY <1>1, <2>2, <3>1, <3>2, <3>3
    <3> QED
      BY <1>1, <2>2, <3>4 DEF Counted, M, A, R
  <2> QED
    BY <2>1, <2>3, <2>4
<1>5. CASE hpc[t] \notin {"change", "count"}
  <2>1. hpc'[t] # "count" /\ storageSize' = storageSize
    BY <1>0, <1>5 DEF SetStep, Set!Acquire, Set!Work, Set!Invoke, Set!LockAlone,
       Set!LockShared, Set!ResizeLock, Set!Look, Set!Ask, Set!PushFront, Set!Erase, Set!CountUp,
       Set!CountDown, Set!Density, Set!Retest, Set!Swap, Set!Move, Set!Return, Set!Goto, SetTypes
  <2>2. A' = A /\ R' = R
    BY <1>2, <1>5, <2>1 DEF Late
  <2>3. M' = M
    BY <1>5 DEF TableStep, MembersAfter
  <2> HIDE DEF M, A, R
  <2>4. storageSize' \in Int /\ storageSize' + Cardinality(A') = Cardinality(M') + Cardinality(R')
    BY <1>1, <2>1, <2>2, <2>3
  <2> QED
    BY <1>1, <2>3, <2>4 DEF Counted, M, A, R
<1> QED
  BY <1>3, <1>4, <1>5

LEMMA SetNext ==
  ASSUME NEW t \in SetThread, SetInv, SetStep(t)
  PROVE  SetInv' /\ TableStep(t)
<1>1. LockInv'
  BY LockStep DEF SetInv
<1>2. TableStep(t)
  BY <1>1, SetTable DEF SetInv, Answers
<1> QED
  BY <1>1, <1>2, AnswersStep, ChosenStep, CountedStep DEF SetInv, TableStep

LEMMA SetInit == Set!Init => SetInv
<1> SUFFICES ASSUME Set!Init PROVE SetInv
  OBVIOUS
<1>1. LockInv
  <2>1. \E k \in Nat : k > 0 /\ numBuckets = NumStripes * k
    <3>1. numBuckets = NumStripes * BucketsPerStripe
      BY SetConstants DEF Set!Init
    <3> QED
      BY <3>1, SetConstants
  <2>2. 0 \in 0 .. NumStripes
    BY SetConstants
  <2>3. SetTypes /\ Exclusive
    BY <2>1, <2>2 DEF Set!Init, Set!Stripes, Stripes, SetTypes, Exclusive, Places
  <2>4. \A t \in SetThread : Standing(t)
    BY DEF Set!Init, Standing
  <2> QED
    BY <2>3, <2>4 DEF LockInv
<1>2. numBuckets \in Nat /\ numBuckets > 0
  BY <1>1, BucketOf DEF LockInv
<1>3. buckets = [b \in 0 .. numBuckets - 1 |-> <<>>] /\ oldBuckets = <<>>
  BY DEF Set!Init, Set!Empty
<1>4. TableTypes /\ Elements(<<>>) = {} /\ Len(oldBuckets) = 0
  BY <1>3 DEF TableTypes, Elements
<1>5. TableInv
  BY <1>3, <1>4 DEF TableInv, InItsBucket
<1>6. Set!Members = {}
  BY <1>3, <1>4, InMembers
<1>7. Answers /\ Chosen
  BY DEF Set!Init, Answers, Chosen
<1>8. Late("add") = {} /\ Late("remove") = {}
  BY DEF Set!Init, Late
<1>9. Counted
  <2>1. IsFiniteSet({}) /\ Cardinality({}) = 0 /\ storageSize = 0
    BY FS_EmptySet DEF Set!Init
  <2>2. IsFiniteSet(Set!Members) /\ Cardinality(Set!Members) = 0
    BY <1>6, <2>1
  <2>3. Cardinality(Late("add")) = 0 /\ Cardinality(Late("remove")) = 0
    BY <1>8, <2>1
  <2> QED
    BY <2>1, <2>2, <2>3 DEF Counted
<1> QED
  BY <1>1, <1>5, <1>7, <1>9 DEF SetInv

LEMMA SetStays == SetInv /\ UNCHANGED setVars => SetInv'
<1> SUFFICES ASSUME SetInv, UNCHANGED setVars PROVE SetInv'
  OBVIOUS
<1>1. UNCHANGED <<numBuckets, buckets, oldBuckets, writer, readers, storageSize, hpc, op,
                  value, seen, next, answer, calls>>
  BY DEF setVars
<1>2. LockInv'
  BY <1>1 DEF SetInv, LockInv, SetTypes, Exclusive, Standing, Set!Stripe
<1>3. TableInv'
  BY <1>1 DEF SetInv, TableInv, TableTypes, InItsBucket, Set!Bucket
<1>4. Set!Members' = Set!Members
  BY <1>1 DEF Set!Members
<1>5. Answers' /\ Chosen'
  BY <1>1, <1>4 DEF SetInv, Answers, Chosen
<1>6. \A o : Late(o)' = Late(o)
  BY <1>1 DEF Late
<1>7. Counted'
  BY <1>1, <1>4, <1>6 DEF SetInv, Counted
<1> QED
  BY <1>2, <1>3, <1>5, <1>7 DEF SetInv

\* Every step of the programs is one of a thread of the set, or none of the set's.
LEMMA ProgramStep ==
  ASSUME [Next]_vars
  PROVE  UNCHANGED setVars \/ \E t \in SetThread : SetStep(t)
<1>1. ASSUME NEW t, InSet, Work(t) PROVE t \in SetThread /\ SetStep(t)
  BY <1>1 DEF Work, SetStep, InQueue, InPool, InSet, InFlag
<1>2. ASSUME InSet, Free PROVE \E t \in SetThread : SetStep(t)
  BY <1>2 DEF Free, SetStep, InQueue, InPool, InSet, InFlag, InRing
<1>3. InSet \/ UNCHANGED setVars
  BY DEF Next, Work, Free, InQueue, InPool, InFlag, InRing, vars
<1> QED
  BY <1>1, <1>2, <1>3 DEF Next, vars

-----------------------------------------------------------------------------
(* Every call takes effect at one moment *)

Call == [t \in SetThread |-> IF hpc[t] = "idle" THEN None
                             ELSE [op |-> op[t], value |-> value[t]]]

\* A call is not nobody.
LEMMA CallOf ==
  ASSUME LockInv
  PROVE  \A t \in SetThread :
            /\ Call[t] = None <=> hpc[t] = "idle"
            /\ hpc[t] # "idle" => Call[t].op = op[t] /\ Call[t].value = value[t]
<1>1. \A o \in Ops, v \in Value : [op |-> o, value |-> v] # None
  BY SetConstants
<1>2. \A t \in SetThread : hpc[t] # "idle" => op[t] \in Ops /\ value[t] \in Value
  BY DEF LockInv, Standing
<1> QED
  BY <1>1, <1>2 DEF Call

\* The next state of a thread's call.
LEMMA CallAfter ==
  ASSUME NEW t \in SetThread, SetInv, SetStep(t)
  PROVE  /\ Call' = [Call EXCEPT ![t] = IF hpc'[t] = "idle" THEN None
                                        ELSE [op |-> op'[t], value |-> value'[t]]]
         /\ answer' = [answer EXCEPT ![t] = answer'[t]]
<1>1. /\ SetTypes /\ answer \in [SetThread -> {"none", "void", "yes", "no"}]
      /\ answer' \in [SetThread -> {"none", "void", "yes", "no"}]
  BY AnswersStep DEF SetInv, LockInv, Answers
<1>2. \A u \in SetThread \ {t} : /\ hpc'[u] = hpc[u] /\ op'[u] = op[u]
                                 /\ value'[u] = value[u] /\ answer'[u] = answer[u]
  BY <1>1, OthersStay
<1> QED
  BY <1>1, <1>2 DEF Call

\* Of the steps of t, the first one of a call invokes the abstract one, the pass over the
\* bucket in contains(), the change of the bucket, or the test that finds nothing to
\* change applies it, and the last one returns; the others do not show.
LEMMA StepRefines ==
  ASSUME NEW t \in SetThread, SetInv, SetStep(t), TableStep(t)
  PROVE  \/ Set!Abstract!Invoke(t) \/ Set!Abstract!Apply(t) \/ Set!Abstract!Return(t)
         \/ UNCHANGED <<Set!Members, Call, answer>>
<1>0. /\ LockInv /\ SetTypes /\ Standing(t) /\ TableInv /\ Chosen
      /\ answer \in [SetThread -> {"none", "void", "yes", "no"}]
      /\ answer[t] = "none" <=> hpc[t] \in {"idle", "lock", "test", "change"}
      /\ Call \in [SetThread -> {Call[u] : u \in SetThread}]
  BY DEF SetInv, LockInv, Answers, Call
<1> DEFINE C == IF hpc'[t] = "idle" THEN None ELSE [op |-> op'[t], value |-> value'[t]]
<1>1. Call' = [Call EXCEPT ![t] = C] /\ answer' = [answer EXCEPT ![t] = answer'[t]]
  BY CallAfter
<1>2. /\ Call[t] = None <=> hpc[t] = "idle"
      /\ hpc[t] # "idle" => Call[t].op = op[t] /\ Call[t].value = value[t]
      /\ hpc[t] # "idle" => Call[t] = [op |-> op[t], value |-> value[t]]
  BY <1>0, CallOf DEF Call
<1>3. CASE Set!Invoke(t)
  <2>1. PICK o \in Ops, v \in Value : hpc[t] = "idle" /\ hpc'[t] = "lock" /\ op'[t] = o /\ value'[t] = v
    BY <1>0, <1>3 DEF Set!Invoke, Set!Goto, Ops, SetTypes
  <2>2. answer' = answer /\ Set!Members' = Set!Members
    BY <1>3, <2>1 DEF Set!Invoke, TableStep, MembersAfter
  <2>3. Call[t] = None /\ Call' = [Call EXCEPT ![t] = [op |-> o, value |-> v]]
    BY <1>1, <1>2, <2>1
  <2> QED
    BY <2>2, <2>3 DEF Set!Abstract!Invoke, Set!Abstract!Ops, Ops, Call
<1>4. CASE Set!Return(t)
  <2>1. hpc[t] = "return" /\ hpc'[t] = "idle" /\ answer' = [answer EXCEPT ![t] = "none"]
    BY <1>0, <1>4 DEF Set!Return, Set!Goto, Set!Answer, SetTypes
  <2>2. Set!Members' = Set!Members /\ answer[t] # "none" /\ Call' = [Call EXCEPT ![t] = None]
    BY <1>0, <1>1, <2>1 DEF TableStep, MembersAfter
  <2> QED
    BY <2>1, <2>2 DEF Set!Abstract!Return, Call
<1>5. ASSUME hpc[t] \in {"test", "change"}, hpc'[t] # "idle", op'[t] = op[t], value'[t] = value[t],
             answer'[t] # "none",
             \/ op[t] = "add" /\ Set!Members' = Set!Members \cup {value[t]} /\ answer'[t] = "void"
             \/ op[t] = "remove" /\ Set!Members' = Set!Members \ {value[t]} /\ answer'[t] = "void"
             \/ /\ op[t] = "contains" /\ Set!Members' = Set!Members
                /\ answer'[t] = IF value[t] \in Set!Members THEN "yes" ELSE "no"
      PROVE  Set!Abstract!Apply(t)
  <2>1. Call' = Call
    BY <1>0, <1>1, <1>2, <1>5
  <2>2. Call[t] # None /\ answer[t] = "none"
    BY <1>0, <1>2, <1>5
  <2> QED
    BY <1>1, <1>2, <1>5, <2>1, <2>2 DEF Set!Abstract!Apply, Call
<1>6. CASE Set!Look(t)
  <2>1. /\ hpc[t] = "test" /\ op[t] = "contains" /\ hpc'[t] = "return"
        /\ op'[t] = op[t] /\ value'[t] = value[t]
        /\ answer'[t] = IF Set!Found(value[t]) THEN "yes" ELSE "no"
    BY <1>0, <1>6 DEF Set!Look, Set!Goto, Set!Answer, Set!frame, SetTypes
  <2>2. Set!Members' = Set!Members
    BY <2>1 DEF TableStep, MembersAfter
  <2> QED
    BY <1>0, <1>5, <2>1, <2>2, FoundMembers
<1>7. CASE Set!PushFront(t) \/ Set!Erase(t)
  <2>1. /\ hpc[t] = "change" /\ hpc'[t] = "count" /\ op[t] \in {"add", "remove"}
        /\ op'[t] = op[t] /\ value'[t] = value[t] /\ answer'[t] = "void"
    BY <1>0, <1>7 DEF Set!PushFront, Set!Erase, Set!Goto, Set!Answer, Set!frame, SetTypes
  <2>2. \/ op[t] = "add" /\ Set!Members' = Set!Members \cup {value[t]}
        \/ op[t] = "remove" /\ Set!Members' = Set!Members \ {value[t]}
    BY <2>1 DEF TableStep, MembersAfter
  <2> QED
    BY <1>5, <2>1, <2>2
<1>8. CASE Set!Ask(t)
  <2>1. /\ hpc[t] = "test" /\ op[t] # "contains" /\ op'[t] = op[t] /\ value'[t] = value[t]
        /\ \/ hpc'[t] = "change" /\ answer' = answer
           \/ /\ hpc'[t] = "return" /\ answer'[t] = "void"
              /\ Set!Found(value[t]) <=> op[t] # "remove"
    BY <1>0, <1>8 DEF Set!Ask, Set!Goto, Set!Answer, Set!frame, SetTypes
  <2>2. Set!Members' = Set!Members /\ op[t] \in {"add", "remove"}
    BY <1>0, <2>1 DEF TableStep, MembersAfter, Standing, Ops
  <2>3. CASE hpc'[t] = "change"
    <3>1. answer' = answer
      BY <2>1, <2>3
    <3>2. Call' = Call
      BY <1>0, <1>1, <1>2, <2>1, <2>3
    <3> QED
      BY <2>2, <3>1, <3>2
  <2>4. CASE hpc'[t] = "return"
    <3>1. value[t] \in Set!Members <=> op[t] = "add"
      BY <1>0, <2>1, <2>2, <2>4, FoundMembers
    <3>2. \/ op[t] = "add" /\ Set!Members' = Set!Members \cup {value[t]}
          \/ op[t] = "remove" /\ Set!Members' = Set!Members \ {value[t]}
      BY <2>2, <3>1
    <3> QED
      BY <1>5, <2>1, <2>4, <3>2
  <2> QED
    BY <2>1, <2>3, <2>4
<1>9. CASE \/ Set!Acquire(t) \/ Set!CountUp(t) \/ Set!CountDown(t) \/ Set!Density(t)
           \/ Set!Retest(t) \/ Set!Swap(t) \/ Set!Move(t)
  <2> USE DEF Set!Goto, Set!frame
  <2>1. /\ hpc[t] \notin {"idle", "change"} /\ hpc'[t] # "idle" /\ answer' = answer
        /\ op' = op /\ value' = value
    <3>1. CASE Set!Acquire(t)
      BY <1>0, <3>1 DEF Set!Acquire, Set!LockAlone, Set!LockShared, Set!ResizeLock, SetTypes
    <3>2. CASE Set!CountUp(t) \/ Set!CountDown(t) \/ Set!Density(t)
      BY <1>0, <3>2 DEF Set!CountUp, Set!CountDown, Set!Density, SetTypes
    <3>3. CASE Set!Retest(t) \/ Set!Swap(t) \/ Set!Move(t)
      BY <1>0, <3>3 DEF Set!Retest, Set!Swap, Set!Move, SetTypes
    <3> QED
      BY <1>9, <3>1, <3>2, <3>3
  <2>2. Set!Members' = Set!Members
    BY <2>1 DEF TableStep, MembersAfter
  <2>3. Call' = Call
    BY <1>0, <1>1, <1>2, <2>1
  <2> QED
    BY <2>1, <2>2, <2>3
<1> QED
  BY <1>3, <1>4, <1>6, <1>7, <1>8, <1>9 DEF SetStep, Set!Work

-----------------------------------------------------------------------------
\* The invariant of the set.
LEMMA SetInvNext == SetInv /\ [Next]_vars => SetInv'
BY ProgramStep, SetNext, SetStays

\* What holds of striped_hash_set in every reachable state: who holds which stripe, where
\* the values are, what the calls have answered and what is counted.
THEOREM SetInvariance == FairSpec => []SetInv
<1>1. Init => SetInv
  BY SetInit DEF Init
<1> QED
  BY <1>1, SetInvNext, PTL DEF FairSpec

\* No thread accesses a bucket, or the table, that another one writes: a bucket stays with
\* its stripe through every growth, and a resize holds all stripes.
THEOREM NoDataRaceHolds == FairSpec => []NoDataRace
<1>1. SetInv => NoDataRace
  BY NoRace DEF SetInv, NoDataRace
<1> QED
  BY <1>1, SetInvariance, PTL

\* storage_size counts the elements, and an excess that two threads saw makes the table
\* grow once.
THEOREM GrowsOnce == FairSpec => []GrowsOnceWhenDense
<1>1. SetInv => Set!SizeMatches
  BY SetLibrary DEF SetInv, Counted, Late, Set!SizeMatches
<1>2. SetInv => Set!GrownOncePerExcess
  BY DEF SetInv, LockInv, Standing, Set!GrownOncePerExcess
<1> QED
  BY <1>1, <1>2, SetInvariance, PTL DEF GrowsOnceWhenDense

\* add(), remove() and contains() take effect at one moment each, whatever the resizes do.
THEOREM SetIsLinearizable == FairSpec => ImplementsSet
<1>1. Init => Set!Abstract!Init
  <2> SUFFICES ASSUME Init PROVE Set!Abstract!Init
    OBVIOUS
  <2>1. Set!Init /\ SetInv
    BY SetInit DEF Init
  <2>2. Set!Members = {}
    <3>1. buckets = [b \in 0 .. numBuckets - 1 |-> <<>>] /\ oldBuckets = <<>>
      BY <2>1 DEF Set!Init, Set!Empty
    <3>2. Elements(<<>>) = {} /\ Len(oldBuckets) = 0
      BY <3>1 DEF Elements
    <3> QED
      BY <2>1, <3>1, <3>2, InMembers DEF SetInv, TableInv
  <2> QED
    BY <2>1, <2>2 DEF Set!Init, Set!Abstract!Init
<1>2. SetInv /\ [Next]_vars => [Set!Abstract!Next]_<<Set!Members, Call, answer>>
  <2> SUFFICES ASSUME SetInv, [Next]_vars
               PROVE  [Set!Abstract!Next]_<<Set!Members, Call, answer>>
    OBVIOUS
  <2>1. CASE UNCHANGED setVars
    <3>1. UNCHANGED <<buckets, oldBuckets, hpc, op, value, answer>>
      BY <2>1 DEF setVars
    <3>2. UNCHANGED Set!Members
      BY <3>1 DEF Set!Members
    <3>3. UNCHANGED Call
      BY <3>1 DEF Call
    <3> QED
      BY <3>1, <3>2, <3>3
  <2>2. ASSUME NEW t \in SetThread, SetStep(t)
        PROVE  [Set!Abstract!Next]_<<Set!Members, Call, answer>>
    BY <2>2, SetNext, StepRefines DEF Set!Abstract!Next
  <2> QED
    BY <2>1, <2>2, ProgramStep
<1> QED
  BY <1>1, <1>2, SetInvariance, PTL
  DEF FairSpec, ImplementsSet, Set!ImplementsSet, Set!Abstract!Spec, Call
=============================================================================
