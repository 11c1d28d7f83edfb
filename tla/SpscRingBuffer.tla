--------------------------- MODULE SpscRingBuffer ---------------------------
(***************************************************************************)
(* spsc_ring_buffer of task6 with the producer and the consumer loop that  *)
(* drive it.                                                               *)
(*                                                                         *)
(* Each load and store of head and tail is a step, and so are the plain    *)
(* write and read of a slot.  head and tail are modelled by their modifi-  *)
(* cation orders, the sequences of all values stored to them: a thread     *)
(* that loads the other one's index gets some value no older than the last *)
(* one it has seen (seenHead, seenTail), not necessarily the newest.       *)
(* Since the loads acquire what the stores release, what the other thread  *)
(* did before that store happened before the load; nothing after it may be *)
(* relied on.                                                              *)
(*                                                                         *)
(* The items are the numbers 0, 1, ... that the producer's loop enqueues.  *)
(***************************************************************************)
EXTENDS Integers, Sequences

CONSTANTS Size,     \* the argument of the constructor
          N         \* how many items the loops transfer

ASSUME SizeAssumption  == Size \in Nat /\ Size > 0
ASSUME ItemsAssumption == N \in Nat

Slots == Size + 1                    \* buffer.size()
next(index) == (index + 1) % Slots

VARIABLES buffer,      \* the slots' values; -1 is the initial one
          head, tail,  \* the modification orders of the two shared indices
          pcP, pcC,    \* where the producer and the consumer are
          currHead,    \* the producer's local curr_head
          currTail,    \* the consumer's local curr_tail
          currNum,     \* the consumer loop's curr_num
          sent,        \* the producer loop's i
          received,    \* the consumer loop's i
          seenHead,    \* the position in head the producer has seen
          seenTail     \* the position in tail the consumer has seen

producer == <<tail, pcP, currHead, sent, seenHead>>
consumer == <<head, pcC, currTail, currNum, received, seenTail>>
vars == <<buffer, producer, consumer>>

Newest(order) == order[Len(order)]   \* what a thread reads from its own index

Init == /\ buffer = [s \in 0 .. Size |-> -1]
        /\ head = <<0>> /\ tail = <<0>>
        /\ pcP = "load" /\ pcC = "load"
        /\ currHead = 0 /\ currTail = 0
        /\ currNum = 0
        /\ sent = 0 /\ received = 0
        /\ seenHead = 1 /\ seenTail = 1

-----------------------------------------------------------------------------
\* head.load(acquire)
LoadHead == /\ pcP = "load"
            /\ sent < N
            /\ \E k \in seenHead .. Len(head) :
                  seenHead' = k /\ currHead' = head[k]
            /\ pcP' = "test"
            /\ UNCHANGED <<buffer, tail, sent, consumer>>

\* Mutant: a full buffer is written to.
TestFullDropped == /\ pcP = "test"
                   /\ pcP' = "write"
                   /\ UNCHANGED <<buffer, tail, currHead, sent, seenHead, consumer>>

\* if(is_full(curr_head, curr_tail)) return false; the loop yields and retries.
\* curr_tail is read here: nobody else stores to tail.
TestFull == /\ pcP = "test"
            /\ pcP' = IF next(Newest(tail)) = currHead THEN "load" ELSE "write"
            /\ UNCHANGED <<buffer, tail, currHead, sent, seenHead, consumer>>

\* buffer[curr_tail].value = v
WriteSlot == /\ pcP = "write"
             /\ buffer' = [buffer EXCEPT ![Newest(tail)] = sent]
             /\ pcP' = "publish"
             /\ UNCHANGED <<tail, currHead, sent, seenHead, consumer>>

\* Mutant: tail keeps its value.
StoreTailUnmoved == /\ pcP = "publish"
                    /\ tail' = Append(tail, Newest(tail))
                    /\ sent' = sent + 1
                    /\ pcP' = "load"
                    /\ UNCHANGED <<buffer, currHead, seenHead, consumer>>

\* tail.store(next(curr_tail), release); the loop goes on to the next item.
StoreTail == /\ pcP = "publish"
             /\ tail' = Append(tail, next(Newest(tail)))
             /\ sent' = sent + 1
             /\ pcP' = "load"
             /\ UNCHANGED <<buffer, currHead, seenHead, consumer>>

\* tail.load(acquire)
LoadTail == /\ pcC = "load"
            /\ received < N
            /\ \E k \in seenTail .. Len(tail) :
                  seenTail' = k /\ currTail' = tail[k]
            /\ pcC' = "test"
            /\ UNCHANGED <<buffer, head, currNum, received, producer>>

\* Mutant: the consumer does not test for an empty buffer.
TestEmptyDropped ==
    /\ pcC = "test"
    /\ pcC' = "read"
    /\ UNCHANGED <<buffer, head, currTail, currNum, received, seenTail, producer>>

\* if(is_empty(curr_head, curr_tail)) return false; the loop yields and retries.
TestEmpty ==
    /\ pcC = "test"
    /\ pcC' = IF Newest(head) = currTail THEN "load" ELSE "read"
    /\ UNCHANGED <<buffer, head, currTail, currNum, received, seenTail, producer>>

\* v = buffer[curr_head].value
ReadSlot == /\ pcC = "read"
            /\ currNum' = buffer[Newest(head)]
            /\ pcC' = "free"
            /\ UNCHANGED <<buffer, head, currTail, received, seenTail, producer>>

\* head.store(next(curr_head), release); the loop goes on to the next item.
StoreHead == /\ pcC = "free"
             /\ head' = Append(head, next(Newest(head)))
             /\ received' = received + 1
             /\ pcC' = "load"
             /\ UNCHANGED <<buffer, currTail, currNum, seenTail, producer>>

\* Both loops are over and main has waited for both futures.
AllTransferred == /\ pcP = "load" /\ sent = N
                  /\ pcC = "load" /\ received = N
                  /\ UNCHANGED vars

Produce == LoadHead \/ TestFull \/ WriteSlot \/ StoreTail
Consume == LoadTail \/ TestEmpty \/ ReadSlot \/ StoreHead

Next == Produce \/ Consume \/ AllTransferred

Spec == Init /\ [][Next]_vars

\* Both threads run, and a thread that loads an index again and again sees
\* the newest value in the end.
FairSpec == /\ Spec
            /\ WF_vars(Produce) /\ WF_vars(Consume)
            /\ SF_vars(LoadHead /\ seenHead' = Len(head))
            /\ SF_vars(LoadTail /\ seenTail' = Len(tail))

-----------------------------------------------------------------------------
\* The variables' types: indices are slots, and no thread has seen an index that
\* was never stored.
TypeOK == /\ buffer \in [0 .. Size -> Int]
          /\ head \in Seq(0 .. Size) /\ tail \in Seq(0 .. Size)
          /\ pcP \in {"load", "test", "write", "publish"}
          /\ pcC \in {"load", "test", "read", "free"}
          /\ currHead \in 0 .. Size /\ currTail \in 0 .. Size
          /\ currNum \in Int
          /\ sent \in Nat /\ received \in Nat
          /\ seenHead \in 1 .. Len(head) /\ seenTail \in 1 .. Len(tail)

\* A slot is written only when every earlier read of it, and read only when
\* the write of its item, is known to have happened before: the plain accesses
\* to a slot never race.
NoDataRace == /\ pcP = "write" => Len(tail) - seenHead <= Size
              /\ pcC = "read"  => Len(head) < seenTail
              /\ ~(pcP = "write" /\ pcC = "read" /\ Newest(tail) = Newest(head))

\* The consumer gets the items in the order the producer sent them, each once.
InOrder == pcC = "free" => currNum = received

\* Every item is transferred and both loops end.
AllArrive == <>(received = N)

\* An item is in the queue from the store to tail to the store to head, and
\* what is in the queue lies in the slots from head to tail.
Contents == [k \in 1 .. (Len(tail) - Len(head)) |->
                buffer[(Newest(head) + k - 1) % Slots]]

Fifo == INSTANCE BoundedFifo
           WITH Capacity <- Size, queue <- Contents, put <- sent, taken <- received

\* The buffer implements a bounded queue.
ImplementsFifo == Fifo!FifoSpec
=============================================================================
