----------------------------- MODULE Allocator -----------------------------
(***************************************************************************)
(* What a heap promises its user: memory that nobody else has, until it is *)
(* given back.  A block is <<address, size>>.                              *)
(***************************************************************************)
EXTENDS Integers

CONSTANT HeapSize
VARIABLE live      \* the blocks in use

Disjoint(b, c) == b[1] + b[2] <= c[1] \/ c[1] + c[2] <= b[1]

Init == live = {}

Alloc(b) == /\ b[2] > 0 /\ b[1] + b[2] <= HeapSize
            /\ \A c \in live : Disjoint(b, c)
            /\ live' = live \cup {b}

Free(b) == b \in live /\ live' = live \ {b}

Next == \/ \E address \in 0..HeapSize, size \in 1..HeapSize : Alloc(<<address, size>>)
        \/ \E b \in live : Free(b)

Spec == Init /\ [][Next]_live
============================================================================
