----------------------------- MODULE SpscProofs -----------------------------
(***************************************************************************)
(* Proofs about SpscRingBuffer for every size and every number of items.   *)
(*                                                                         *)
(* The indices are the loop counters modulo the number of slots (Orders),  *)
(* and what the threads have seen of each other keeps the counters within  *)
(* Size of one another (Views).  So the slots of the items in the queue    *)
(* are distinct, none of them is overwritten, and each holds its item      *)
(* (Slotted).  All of it is needed together: without Views the test for a  *)
(* full buffer, an equation between remainders, would say nothing.         *)
(***************************************************************************)
EXTENDS SpscRingBuffer, DataLemmas

Orders == /\ Len(tail) = sent + 1 /\ Len(head) = received + 1
          /\ \A k \in 1 .. (sent + 1) : tail[k] = (k - 1) % Slots
          /\ \A k \in 1 .. (received + 1) : head[k] = (k - 1) % Slots
          /\ currHead = (seenHead - 1) % Slots
          /\ currTail = (seenTail - 1) % Slots

Views == /\ seenHead <= received + 1
         /\ received + 1 <= seenTail
         /\ seenTail <= sent + 1
         /\ sent + 1 - seenHead <= Size
         /\ pcP \in {"write", "publish"} => sent + 1 - seenHead < Size
         /\ pcC \in {"read", "free"} => received + 1 < seenTail

Slotted == /\ \A i \in received .. (sent - 1) : buffer[i % Slots] = i
           /\ pcP = "publish" => buffer[sent % Slots] = sent

IInv == TypeOK /\ Orders /\ Views /\ Slotted /\ InOrder

-----------------------------------------------------------------------------
\* The buffer has at least two slots.
LEMMA SlotsType == Slots \in Nat /\ Slots > 0 /\ Slots = Size + 1 /\ Size \in Nat /\ Size > 0
BY SizeAssumption DEF Slots

\* A remainder is a slot.
LEMMA SlotOf ==
  ASSUME NEW i \in Nat
  PROVE  i % Slots \in 0 .. Size
<1>1. i % Slots \in 0 .. (Slots - 1)
  BY SlotsType, ModType
<1> QED
  BY <1>1, SlotsType

\* A thread reads its own newest index, and next() advances it by one.
LEMMA OwnIndex ==
  ASSUME IInv
  PROVE  /\ Newest(tail) = sent % Slots /\ next(Newest(tail)) = (sent + 1) % Slots
         /\ Newest(head) = received % Slots /\ next(Newest(head)) = (received + 1) % Slots
<1>1. sent \in Nat /\ received \in Nat
  BY DEF IInv, TypeOK
<1>2. Newest(tail) = sent % Slots /\ Newest(head) = received % Slots
  BY <1>1 DEF IInv, Orders, Newest
<1> QED
  BY <1>1, <1>2, SlotsType, ModSucc DEF next

\* Items that are in the queue together lie in different slots.
LEMMA SlotsDistinct ==
  ASSUME NEW i \in Nat, NEW j \in Nat, i < j, j - i <= Size
  PROVE  i % Slots # j % Slots
BY SlotsType, ModDistinct

\* The invariant holds initially.
LEMMA InitInv == Init => IInv
<1> SUFFICES ASSUME Init PROVE IInv
  OBVIOUS
<1>1. 0 % Slots = 0 /\ 0 \in 0 .. Size
  BY SlotsType
<1>2. TypeOK
  BY <1>1 DEF Init, TypeOK
<1>3. Orders /\ Views /\ Slotted /\ InOrder
  BY <1>1, SlotsType DEF Init, Orders, Views, Slotted, InOrder
<1> QED
  BY <1>2, <1>3 DEF IInv

\* Loading head keeps the invariant: the producer may only have seen more.
LEMMA LoadHeadInv == IInv /\ LoadHead => IInv'
<1> SUFFICES ASSUME IInv, LoadHead PROVE IInv'
  OBVIOUS
<1>1. PICK k \in seenHead .. Len(head) : seenHead' = k /\ currHead' = head[k]
  BY DEF LoadHead
<1>2. k \in 1 .. Len(head) /\ Len(head) = received + 1 /\ received \in Nat /\ seenHead <= k
  BY <1>1 DEF IInv, TypeOK, Orders
<1>3. head[k] = (k - 1) % Slots /\ head[k] \in 0 .. Size
  BY <1>2, SlotOf DEF IInv, Orders
<1>4. UNCHANGED <<buffer, head, tail, pcC, currTail, currNum, sent, received, seenTail>>
      /\ pcP' = "test"
  BY DEF LoadHead, consumer
<1>5. TypeOK'
  BY <1>1, <1>2, <1>3, <1>4 DEF IInv, TypeOK
<1>6. Orders'
  BY <1>1, <1>2, <1>3, <1>4 DEF IInv, Orders
<1>7. Views'
  BY <1>1, <1>2, <1>4, SlotsType DEF IInv, Views, TypeOK
<1>8. Slotted' /\ InOrder'
  BY <1>4 DEF IInv, Slotted, InOrder
<1> QED
  BY <1>5, <1>6, <1>7, <1>8 DEF IInv

\* The test for a full buffer keeps the invariant: when it lets the producer
\* go on, at least one more item fits by what the producer has seen.
LEMMA TestFullInv == IInv /\ TestFull => IInv'
<1> SUFFICES ASSUME IInv, TestFull PROVE IInv'
  OBVIOUS
<1>1. UNCHANGED <<buffer, head, tail, pcC, currHead, currTail, currNum, sent,
                  received, seenHead, seenTail>>
  BY DEF TestFull, consumer
<1>2. sent \in Nat /\ seenHead \in Nat /\ seenHead >= 1 /\ sent + 1 - seenHead <= Size
  BY DEF IInv, TypeOK, Views
<1>3. pcP' = "write" => sent + 1 - seenHead < Size
  <2> SUFFICES ASSUME sent + 1 - seenHead = Size, pcP' = "write" PROVE FALSE
    BY <1>2, SlotsType
  <2>1. seenHead - 1 \in Nat /\ sent + 1 = (seenHead - 1) + Slots
    BY <1>2, SlotsType
  <2>2. (sent + 1) % Slots = (seenHead - 1) % Slots
    BY <2>1, SlotsType, ModShift
  <2> QED
    BY <2>2, OwnIndex DEF TestFull, IInv, Orders
<1>4. pcP' \in {"load", "write"}
  BY DEF TestFull
<1>5. TypeOK' /\ Orders' /\ Slotted' /\ InOrder'
  BY <1>1, <1>4 DEF IInv, TypeOK, Orders, Slotted, InOrder
<1>6. Views'
  BY <1>1, <1>3, <1>4 DEF IInv, Views
<1> QED
  BY <1>5, <1>6 DEF IInv

\* Writing a slot keeps the invariant: it holds no item of the queue.
LEMMA WriteSlotInv == IInv /\ WriteSlot => IInv'
<1> SUFFICES ASSUME IInv, WriteSlot PROVE IInv'
  OBVIOUS
<1>1. /\ UNCHANGED <<head, tail, pcC, currHead, currTail, currNum, sent,
                     received, seenHead, seenTail>>
      /\ pcP = "write" /\ pcP' = "publish"
      /\ buffer' = [buffer EXCEPT ![sent % Slots] = sent]
  BY OwnIndex DEF WriteSlot, consumer
<1>2. sent \in Nat /\ received \in Nat /\ sent % Slots \in 0 .. Size
  BY SlotOf DEF IInv, TypeOK
<1>3. buffer'[sent % Slots] = sent
  BY <1>1, <1>2 DEF IInv, TypeOK
<1>4. \A i \in received .. (sent - 1) : buffer'[i % Slots] = i
  <2> SUFFICES ASSUME NEW i \in received .. (sent - 1) PROVE buffer'[i % Slots] = i
    OBVIOUS
  <2>1. i \in Nat /\ i < sent /\ sent - i <= Size
    BY <1>1, <1>2, SlotsType DEF IInv, Views, TypeOK
  <2>2. i % Slots # sent % Slots /\ i % Slots \in 0 .. Size
    BY <1>2, <2>1, SlotsDistinct, SlotOf
  <2>3. buffer[i % Slots] = i
    BY DEF IInv, Slotted
  <2> QED
    BY <1>1, <2>2, <2>3 DEF IInv, TypeOK
<1>5. TypeOK'
  BY <1>1, <1>2 DEF IInv, TypeOK
<1>6. Orders' /\ InOrder'
  BY <1>1 DEF IInv, Orders, InOrder
<1>7. Views'
  BY <1>1 DEF IInv, Views
<1>8. Slotted'
  BY <1>1, <1>3, <1>4 DEF Slotted
<1> QED
  BY <1>5, <1>6, <1>7, <1>8 DEF IInv

\* Publishing an item keeps the invariant.
LEMMA StoreTailInv == IInv /\ StoreTail => IInv'
<1> SUFFICES ASSUME IInv, StoreTail PROVE IInv'
  OBVIOUS
<1>1. /\ UNCHANGED <<buffer, head, pcC, currHead, currTail, currNum,
                     received, seenHead, seenTail>>
      /\ pcP = "publish" /\ pcP' = "load"
      /\ sent' = sent + 1
      /\ tail' = Append(tail, (sent + 1) % Slots)
  BY OwnIndex DEF StoreTail, consumer
<1>2. /\ sent \in Nat /\ received \in Nat /\ (sent + 1) % Slots \in 0 .. Size
      /\ tail \in Seq(0 .. Size) /\ Len(tail) = sent + 1
      /\ seenHead \in Nat /\ seenTail \in Nat
  BY SlotOf DEF IInv, TypeOK, Orders
<1>3. /\ tail' \in Seq(0 .. Size) /\ Len(tail') = sent + 2
      /\ tail'[sent + 2] = (sent + 1) % Slots
      /\ \A k \in 1 .. (sent + 1) : tail'[k] = tail[k]
  BY <1>1, <1>2
<1>4. TypeOK'
  BY <1>1, <1>2, <1>3 DEF IInv, TypeOK
<1>5. Orders'
  <2>1. \A k \in 1 .. (sent' + 1) : tail'[k] = (k - 1) % Slots
    BY <1>1, <1>2, <1>3 DEF IInv, Orders
  <2> QED
    BY <2>1, <1>1, <1>2, <1>3 DEF IInv, Orders
<1>6. Views'
  BY <1>1, <1>2, SlotsType DEF IInv, Views
<1>7. Slotted' /\ InOrder'
  BY <1>1, <1>2 DEF IInv, Slotted, InOrder
<1> QED
  BY <1>4, <1>5, <1>6, <1>7 DEF IInv

\* Loading tail keeps the invariant: the consumer may only have seen more.
LEMMA LoadTailInv == IInv /\ LoadTail => IInv'
<1> SUFFICES ASSUME IInv, LoadTail PROVE IInv'
  OBVIOUS
<1>1. PICK k \in seenTail .. Len(tail) : seenTail' = k /\ currTail' = tail[k]
  BY DEF LoadTail
<1>2. k \in 1 .. Len(tail) /\ Len(tail) = sent + 1 /\ sent \in Nat /\ seenTail <= k
  BY <1>1 DEF IInv, TypeOK, Orders
<1>3. tail[k] = (k - 1) % Slots /\ tail[k] \in 0 .. Size
  BY <1>2, SlotOf DEF IInv, Orders
<1>4. UNCHANGED <<buffer, head, tail, pcP, currHead, currNum, sent, received, seenHead>>
      /\ pcC' = "test"
  BY DEF LoadTail, producer
<1>5. TypeOK'
  BY <1>1, <1>2, <1>3, <1>4 DEF IInv, TypeOK
<1>6. Orders'
  BY <1>1, <1>2, <1>3, <1>4 DEF IInv, Orders
<1>7. Views'
  BY <1>1, <1>2, <1>4, SlotsType DEF IInv, Views, TypeOK
<1>8. Slotted' /\ InOrder'
  BY <1>4 DEF IInv, Slotted, InOrder
<1> QED
  BY <1>5, <1>6, <1>7, <1>8 DEF IInv

\* The test for an empty buffer keeps the invariant: different indices mean
\* that the consumer has seen an item it has not taken.
LEMMA TestEmptyInv == IInv /\ TestEmpty => IInv'
<1> SUFFICES ASSUME IInv, TestEmpty PROVE IInv'
  OBVIOUS
<1>1. UNCHANGED <<buffer, head, tail, pcP, currHead, currTail, currNum, sent,
                  received, seenHead, seenTail>>
  BY DEF TestEmpty, producer
<1>2. pcC' \in {"load", "read"}
  BY DEF TestEmpty
<1>3. pcC' = "read" => received + 1 < seenTail
  <2> SUFFICES ASSUME received + 1 = seenTail, pcC' = "read" PROVE FALSE
    BY DEF IInv, Views, TypeOK
  <2>1. Newest(head) = currTail
    BY OwnIndex DEF IInv, Orders, TypeOK
  <2> QED
    BY <2>1 DEF TestEmpty
<1>4. TypeOK' /\ Orders' /\ Slotted' /\ InOrder'
  BY <1>1, <1>2 DEF IInv, TypeOK, Orders, Slotted, InOrder
<1>5. Views'
  BY <1>1, <1>2, <1>3 DEF IInv, Views
<1> QED
  BY <1>4, <1>5 DEF IInv

\* Reading a slot keeps the invariant: it holds the item whose turn it is.
LEMMA ReadSlotInv == IInv /\ ReadSlot => IInv'
<1> SUFFICES ASSUME IInv, ReadSlot PROVE IInv'
  OBVIOUS
<1>1. /\ UNCHANGED <<buffer, head, tail, pcP, currHead, currTail, sent,
                     received, seenHead, seenTail>>
      /\ pcC = "read" /\ pcC' = "free"
      /\ currNum' = buffer[received % Slots]
  BY OwnIndex DEF ReadSlot, producer
<1>2. received \in received .. (sent - 1) /\ received \in Nat
  BY <1>1 DEF IInv, Views, TypeOK
<1>3. currNum' = received
  BY <1>1, <1>2 DEF IInv, Slotted
<1>4. TypeOK' /\ Orders' /\ Slotted' /\ InOrder'
  BY <1>1, <1>2, <1>3 DEF IInv, TypeOK, Orders, Slotted, InOrder
<1>5. Views'
  BY <1>1 DEF IInv, Views
<1> QED
  BY <1>4, <1>5 DEF IInv

\* Freeing a slot keeps the invariant.
LEMMA StoreHeadInv == IInv /\ StoreHead => IInv'
<1> SUFFICES ASSUME IInv, StoreHead PROVE IInv'
  OBVIOUS
<1>1. /\ UNCHANGED <<buffer, tail, pcP, currHead, currTail, currNum,
                     sent, seenHead, seenTail>>
      /\ pcC = "free" /\ pcC' = "load"
      /\ received' = received + 1
      /\ head' = Append(head, (received + 1) % Slots)
  BY OwnIndex DEF StoreHead, producer
<1>2. /\ sent \in Nat /\ received \in Nat /\ (received + 1) % Slots \in 0 .. Size
      /\ head \in Seq(0 .. Size) /\ Len(head) = received + 1
      /\ seenHead \in Nat /\ seenTail \in Nat
  BY SlotOf DEF IInv, TypeOK, Orders
<1>3. /\ head' \in Seq(0 .. Size) /\ Len(head') = received + 2
      /\ head'[received + 2] = (received + 1) % Slots
      /\ \A k \in 1 .. (received + 1) : head'[k] = head[k]
  BY <1>1, <1>2
<1>4. TypeOK'
  BY <1>1, <1>2, <1>3 DEF IInv, TypeOK
<1>5. Orders'
  <2>1. \A k \in 1 .. (received' + 1) : head'[k] = (k - 1) % Slots
    BY <1>1, <1>2, <1>3 DEF IInv, Orders
  <2> QED
    BY <2>1, <1>1, <1>2, <1>3 DEF IInv, Orders
<1>6. Views'
  BY <1>1, <1>2, SlotsType DEF IInv, Views
<1>7. Slotted' /\ InOrder'
  BY <1>1, <1>2 DEF IInv, Slotted, InOrder
<1> QED
  BY <1>4, <1>5, <1>6, <1>7 DEF IInv

\* Every step keeps the invariant.
LEMMA NextInv == IInv /\ [Next]_vars => IInv'
<1>1. IInv /\ UNCHANGED vars => IInv'
  BY DEF vars, producer, consumer, IInv, TypeOK, Orders, Views, Slotted, InOrder
<1> QED
  BY <1>1, LoadHeadInv, TestFullInv, WriteSlotInv, StoreTailInv, LoadTailInv,
     TestEmptyInv, ReadSlotInv, StoreHeadInv
     DEF Next, Produce, Consume, AllTransferred

\* The counters, the views and the slots of the ring buffer agree in every
\* reachable state.
THEOREM Invariance == Spec => []IInv
<1> QED
  BY InitInv, NextInv, PTL DEF Spec

\* Indices, views and slots stay in range: no access is out of bounds.
THEOREM TypeCorrect == Spec => []TypeOK
<1>1. IInv => TypeOK
  BY DEF IInv
<1> QED
  BY <1>1, Invariance, PTL

\* The plain accesses to a slot are always ordered by head and tail.
THEOREM NoDataRaceHolds == Spec => []NoDataRace
<1>1. ASSUME IInv PROVE NoDataRace
  <2>1. /\ Len(tail) = sent + 1 /\ Len(head) = received + 1
        /\ sent \in Nat /\ received \in Nat /\ seenHead \in Nat /\ seenTail \in Nat
    BY <1>1 DEF IInv, Orders, TypeOK
  <2>2. pcP = "write" => Len(tail) - seenHead <= Size
    BY <1>1, <2>1 DEF IInv, Views
  <2>3. pcC = "read" => Len(head) < seenTail
    BY <1>1, <2>1 DEF IInv, Views
  <2>4. ~(pcP = "write" /\ pcC = "read" /\ Newest(tail) = Newest(head))
    <3> SUFFICES ASSUME pcP = "write", pcC = "read" PROVE Newest(tail) # Newest(head)
      OBVIOUS
    <3>1. received < sent /\ sent - received <= Size
      BY <1>1, <2>1, SlotsType DEF IInv, Views
    <3> QED
      BY <1>1, <2>1, <3>1, OwnIndex, SlotsDistinct
  <2> QED
    BY <2>2, <2>3, <2>4 DEF NoDataRace
<1> QED
  BY <1>1, Invariance, PTL

\* The consumer gets every item once and in order.
THEOREM InOrderHolds == Spec => []InOrder
<1>1. IInv => InOrder
  BY DEF IInv
<1> QED
  BY <1>1, Invariance, PTL

-----------------------------------------------------------------------------
\* A queue that holds the items a, a + 1, ..., b - 1.
Interval(Q, a, b) == /\ Q \in Seq(Nat) /\ Len(Q) = b - a
                     /\ \A k \in 1 .. (b - a) : Q[k] = a + k - 1

\* There is only one such queue.
LEMMA IntervalUnique ==
  ASSUME NEW a \in Nat, NEW b \in Nat, NEW Q, NEW R,
         Interval(Q, a, b), Interval(R, a, b)
  PROVE  Q = R
BY DEF Interval

\* Putting in the next item.
LEMMA IntervalPut ==
  ASSUME NEW a \in Nat, NEW b \in Nat, a <= b, NEW Q, Interval(Q, a, b)
  PROVE  Interval(Append(Q, b), a, b + 1)
BY DEF Interval

\* Taking out the first item.
LEMMA IntervalTake ==
  ASSUME NEW a \in Nat, NEW b \in Nat, a < b, NEW Q, Interval(Q, a, b)
  PROVE  Q # <<>> /\ Head(Q) = a /\ Interval(Tail(Q), a + 1, b)
<1>1. Q \in Seq(Nat) /\ Len(Q) = b - a /\ Q # <<>> /\ Head(Q) = a
  BY DEF Interval
<1>2. /\ Tail(Q) \in Seq(Nat) /\ Len(Tail(Q)) = Len(Q) - 1
      /\ \A k \in 1 .. (Len(Q) - 1) : Tail(Q)[k] = Q[k + 1]
  BY <1>1
<1>3. \A k \in 1 .. (b - (a + 1)) : Tail(Q)[k] = (a + 1) + k - 1
  BY <1>1, <1>2 DEF Interval
<1> QED
  BY <1>1, <1>2, <1>3 DEF Interval

\* The slots from head to tail hold the items between the two loop counters.
LEMMA ContentsAre ==
  IInv => /\ sent \in Nat /\ received \in Nat /\ sent - received \in 0 .. Size
          /\ Interval(Contents, received, sent)
<1> SUFFICES ASSUME IInv
             PROVE  /\ sent \in Nat /\ received \in Nat
                    /\ sent - received \in 0 .. Size
                    /\ Interval(Contents, received, sent)
  OBVIOUS
<1>1. /\ Len(tail) = sent + 1 /\ Len(head) = received + 1
      /\ sent \in Nat /\ received \in Nat /\ sent - received \in 0 .. Size
      /\ Len(tail) - Len(head) = sent - received
  BY SlotsType DEF IInv, Orders, Views, TypeOK
<1>2. ASSUME NEW k \in 1 .. (sent - received)
      PROVE  buffer[(Newest(head) + k - 1) % Slots] = received + k - 1
  <2>1. k - 1 \in Nat /\ received + (k - 1) \in received .. (sent - 1)
    BY <1>1
  <2>2. ((received % Slots) + (k - 1)) % Slots = (received + (k - 1)) % Slots
    BY <1>1, <2>1, SlotsType, ModAdd
  <2>3. received % Slots \in Nat /\ Newest(head) = received % Slots
    BY <1>1, SlotOf, OwnIndex
  <2>4. Newest(head) + k - 1 = (received % Slots) + (k - 1)
    BY <2>3
  <2>5. buffer[(received + (k - 1)) % Slots] = received + (k - 1)
    BY <2>1 DEF IInv, Slotted
  <2> QED
    BY <1>1, <2>1, <2>2, <2>4, <2>5
<1>3. Contents = [k \in 1 .. (sent - received) |-> received + k - 1]
  BY <1>1, <1>2 DEF Contents
<1>4. \A k \in 1 .. (sent - received) : received + k - 1 \in Nat
  BY <1>1
<1> QED
  BY <1>1, <1>3, <1>4 DEF Interval

\* The store to tail is the abstract Put, the store to head the abstract Take,
\* and no other step changes what is in the queue.
LEMMA StepRefines ==
  ASSUME IInv, [Next]_vars
  PROVE  [Fifo!FifoNext]_(Fifo!fifoVars)
<1>1. IInv'
  BY NextInv
<1>2. /\ sent \in Nat /\ received \in Nat /\ sent - received \in 0 .. Size
      /\ Interval(Contents, received, sent)
  BY ContentsAre
<1>3. Interval(Contents, received, sent)'
  <2>1. IInv => Interval(Contents, received, sent)
    BY ContentsAre
  <2> QED
    BY <2>1, <1>1, ContentsAre, PTL
<1>4. CASE StoreTail
  <2>1. sent' = sent + 1 /\ received' = received /\ sent - received < Size
    BY <1>2, <1>4, SlotsType DEF StoreTail, consumer, IInv, Views, TypeOK
  <2>2. Len(Contents) < Size
    BY <1>2, <2>1 DEF Interval
  <2>3. Interval(Append(Contents, sent), received, sent + 1)
    BY <1>2, IntervalPut
  <2>4. Interval(Contents', received, sent + 1)
    BY <1>3, <2>1 DEF Interval
  <2>5. Contents' = Append(Contents, sent)
    <3>1. received \in Nat /\ sent + 1 \in Nat
      BY <1>2
    <3> QED
      BY ONLY <2>3, <2>4, <3>1, IntervalUnique, Zenon
  <2> QED
    BY <2>1, <2>2, <2>5 DEF Fifo!FifoNext, Fifo!Put
<1>5. CASE StoreHead
  <2>1. received' = received + 1 /\ sent' = sent /\ received < sent
    BY <1>2, <1>5 DEF StoreHead, producer, IInv, Views, TypeOK
  <2>2. /\ Contents # <<>> /\ Head(Contents) = received
        /\ Interval(Tail(Contents), received + 1, sent)
    BY <1>2, <2>1, IntervalTake
  <2>3. Interval(Contents', received + 1, sent)
    BY <1>3, <2>1 DEF Interval
  <2>4. Contents' = Tail(Contents)
    <3>1. received + 1 \in Nat /\ sent \in Nat
      BY <1>2
    <3> QED
      BY ONLY <2>2, <2>3, <3>1, IntervalUnique, Zenon
  <2> QED
    BY <2>1, <2>2, <2>4 DEF Fifo!FifoNext, Fifo!Take
<1>6. CASE ~StoreTail /\ ~StoreHead
  <2>1. sent' = sent /\ received' = received
    BY <1>6 DEF Next, Produce, Consume, AllTransferred, vars, producer, consumer,
       LoadHead, TestFull, WriteSlot, LoadTail, TestEmpty, ReadSlot
  <2>2. Interval(Contents', received, sent)
    BY <1>3, <2>1 DEF Interval
  <2>3. Contents' = Contents
    BY <1>2, <2>2, IntervalUnique
  <2> QED
    BY <2>1, <2>3 DEF Fifo!fifoVars
<1> QED
  BY <1>4, <1>5, <1>6

\* The ring buffer implements a bounded queue: items leave it in the order in
\* which they came, and it never holds more than Size of them.
THEOREM RingImplementsFifo == Spec => ImplementsFifo
<1>1. Init => Fifo!FifoInit
  BY DEF Init, Fifo!FifoInit, Contents
<1>2. IInv /\ [Next]_vars => [Fifo!FifoNext]_(Fifo!fifoVars)
  BY StepRefines
<1> QED
  BY <1>1, <1>2, Invariance, PTL DEF Spec, ImplementsFifo, Fifo!FifoSpec
=============================================================================
