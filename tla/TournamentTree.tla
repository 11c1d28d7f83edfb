--------------------------- MODULE TournamentTree ---------------------------
(***************************************************************************)
(* The arithmetic of tree_mutex: which two-thread mutexes a thread takes,  *)
(* on which side, and in which order it gives them back.  The tree lies in *)
(* an array, the children of node i at 2i + 1 and 2i + 2; lock() computes  *)
(* its path from the leaf up by halving, unlock() computes it again from   *)
(* the root down by bisecting the interval of thread indices.              *)
(***************************************************************************)
EXTENDS Naturals, Sequences

LEFT  == 0
RIGHT == 1

\* pow(2, d); ceil(log2(n)) and the size of tournament_tree for n threads.
PowerOfTwo[d \in Nat] == IF d = 0 THEN 1 ELSE 2 * PowerOfTwo[d - 1]
Depth(n)    == CHOOSE d \in 0 .. n : PowerOfTwo[d] >= n /\ (d > 0 => PowerOfTwo[d - 1] < n)
TreeSize(n) == PowerOfTwo[Depth(n)] - 1

\* One use of a node: the node and the side its user comes from.
Use(node, side) == [node |-> node, side |-> side]

\* Mutant: the side is taken after index has been halved.
LockPathLateSide(n, t) ==
    LET From[at \in Nat \X Nat] ==
            LET i == at[1]  index == at[2]
            IN IF i = 0 THEN <<>>
               ELSE <<Use((i - 1) \div 2, (index \div 2) % 2)>>
                      \o From[<<(i - 1) \div 2, index \div 2>>]
    IN From[<<TreeSize(n) + t, t>>]

\* Mutant: the parent of i is taken to be i / 2.
LockPathWrongParent(n, t) ==
    LET From[at \in Nat \X Nat] ==
            LET i == at[1]  index == at[2]
            IN IF i = 0 THEN <<>>
               ELSE <<Use(i \div 2, index % 2)>>
                      \o From[<<i \div 2, index \div 2>>]
    IN From[<<TreeSize(n) + t, t>>]

\* The loop of lock(): from the thread's leaf to the root.
LockPath(n, t) ==
    LET From[at \in Nat \X Nat] ==
            LET i == at[1]  index == at[2]
            IN IF i = 0 THEN <<>>
               ELSE <<Use((i - 1) \div 2, index % 2)>>
                      \o From[<<(i - 1) \div 2, index \div 2>>]
    IN From[<<TreeSize(n) + t, t>>]

\* Mutant: the middle of the interval counts as the left half.
UnlockPathOffByOne(n, t) ==
    LET From[at \in Nat \X Nat \X Nat] ==
            LET i == at[1]  left == at[2]  right == at[3]
                middle == (left + right) \div 2
                child  == IF middle >= t THEN LEFT ELSE RIGHT
            IN IF i >= TreeSize(n) THEN <<>>
               ELSE <<Use(i, child)>>
                      \o From[<<2*i + child + 1,
                                IF child = RIGHT THEN middle ELSE left,
                                IF child = RIGHT THEN right ELSE middle>>]
    IN From[<<0, 0, TreeSize(n) + 1>>]

\* The loop of unlock(): from the root to the thread's leaf.
UnlockPath(n, t) ==
    LET From[at \in Nat \X Nat \X Nat] ==
            LET i == at[1]  left == at[2]  right == at[3]
                middle == (left + right) \div 2
                child  == IF middle > t THEN LEFT ELSE RIGHT
            IN IF i >= TreeSize(n) THEN <<>>
               ELSE <<Use(i, child)>>
                      \o From[<<2*i + child + 1,
                                IF child = RIGHT THEN middle ELSE left,
                                IF child = RIGHT THEN right ELSE middle>>]
    IN From[<<0, 0, TreeSize(n) + 1>>]
=============================================================================
