----------------------------- MODULE BoundedFifo ----------------------------
(***************************************************************************)
(* What a bounded queue with one producer and one consumer promises: the   *)
(* items 0, 1, 2, ... come out in the order they were put in, none is lost *)
(* or doubled, and at most Capacity of them are inside.                    *)
(***************************************************************************)
EXTENDS Naturals, Sequences

CONSTANT Capacity

VARIABLES queue,   \* the items inside
          put,     \* how many were put in so far, which is also the next item
          taken    \* how many were taken out so far

fifoVars == <<queue, put, taken>>

FifoInit == queue = <<>> /\ put = 0 /\ taken = 0

Put == /\ Len(queue) < Capacity
       /\ queue' = Append(queue, put)
       /\ put' = put + 1
       /\ UNCHANGED taken

Take == /\ queue # <<>>
        /\ Head(queue) = taken
        /\ queue' = Tail(queue)
        /\ taken' = taken + 1
        /\ UNCHANGED put

FifoNext == Put \/ Take

FifoSpec == FifoInit /\ [][FifoNext]_fifoVars
=============================================================================
