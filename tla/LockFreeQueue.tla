---------------------------- MODULE LockFreeQueue ----------------------------
(***************************************************************************)
(* lock_free_queue of task7-8, with the one producer and the one consumer  *)
(* its comments speak of.  enqueue() returns nothing, and what its test    *)
(* for a full buffer guards is empty: it goes on and overwrites a slot.    *)
(*                                                                         *)
(* A step is one access to head, to tail or to a slot.  Every value of     *)
(* tail the consumer loads, and every value of head the producer loads, is *)
(* one the other has stored with release: loads see the stores in order.   *)
(***************************************************************************)
EXTENDS Integers, Sequences

CONSTANTS Size,    \* the constructor's argument: the buffer has one slot more
          Items    \* bound: how many items the producer enqueues

RingAssumption == Size \in Nat \ {0} /\ Items \in Nat

VARIABLES buffer, head, tail,
          ppc, cpc,    \* where the producer and the consumer are
          value,       \* what the consumer has copied out of a slot
          put, out,    \* how many items went in, and those that came out
          overrun      \* is_full() was true once

vars == <<buffer, head, tail, ppc, cpc, value, put, out, overrun>>

IndexAfter(i) == (i + 1) % (Size + 1)

Init == /\ buffer = [i \in 0 .. Size |-> 0]
        /\ head = 0 /\ tail = 0
        /\ ppc = "load" /\ cpc = "load"
        /\ value = 0
        /\ put = 0 /\ out = <<>>
        /\ overrun = FALSE

\* curr_head is loaded and compared; the branch is empty.
TestFull == /\ ppc = "load" /\ put < Items
            /\ overrun' = (overrun \/ IndexAfter(tail) = head)
            /\ ppc' = "write"
            /\ UNCHANGED <<buffer, head, tail, cpc, value, put, out>>

WriteSlot == /\ ppc = "write"
             /\ buffer' = [buffer EXCEPT ![tail] = put + 1]
             /\ ppc' = "store"
             /\ UNCHANGED <<head, tail, cpc, value, put, out, overrun>>

StoreTail == /\ ppc = "store"
             /\ tail' = IndexAfter(tail)
             /\ put' = put + 1
             /\ ppc' = "load"
             /\ UNCHANGED <<buffer, head, cpc, value, out, overrun>>

\* dequeue() finds the queue empty and returns false, or goes on.
TestEmpty == /\ cpc = "load"
             /\ cpc' = IF tail = head THEN "load" ELSE "read"
             /\ UNCHANGED <<buffer, head, tail, ppc, value, put, out, overrun>>

\* Mutant: the slot after the head is read.
ReadNext == /\ cpc = "read"
            /\ value' = buffer[IndexAfter(head)]
            /\ cpc' = "store"
            /\ UNCHANGED <<buffer, head, tail, ppc, put, out, overrun>>

ReadSlot == /\ cpc = "read"
            /\ value' = buffer[head]
            /\ cpc' = "store"
            /\ UNCHANGED <<buffer, head, tail, ppc, put, out, overrun>>

StoreHead == /\ cpc = "store"
             /\ head' = IndexAfter(head)
             /\ out' = Append(out, value)
             /\ cpc' = "load"
             /\ UNCHANGED <<buffer, tail, ppc, value, put, overrun>>

Enqueue == TestFull \/ WriteSlot \/ StoreTail
Dequeue == TestEmpty \/ ReadSlot \/ StoreHead

Next == Enqueue \/ Dequeue

-----------------------------------------------------------------------------
\* Until is_full() has once been true, what came out are the items that went in,
\* from the first on, none twice and none left out.  After that enqueue() has
\* overwritten a slot, and nothing is promised.
FifoUntilFull == overrun \/ out = [k \in 1 .. Len(out) |-> k]
=============================================================================
