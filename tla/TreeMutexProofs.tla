-------------------------- MODULE TreeMutexProofs ---------------------------
(***************************************************************************)
(* Mutual exclusion of tree_mutex, for every number of threads.            *)
(*                                                                         *)
(* The first half is about the tree: lock() halves an index on its way up  *)
(* and unlock() bisects an interval on its way down, and both visit        *)
(* NodeOf(d, t, j), which is level d - j of the tree's array at t's leaf   *)
(* divided by 2^j (LockPathIs, UnlockPathIs).  Levels do not overlap, and  *)
(* two threads that come to a node on the same side come from one child    *)
(* (PathsOfTheTree).  The second half is about the threads.                *)
(*                                                                         *)
(* A thread uses a bottom part of its path: Held(t) nodes that it has      *)
(* locked, and possibly one more in whose lock() it is.  Two threads never *)
(* use the same side of a node (UniqueUse): they could only have come      *)
(* through the same child, and would both hold it.  So each node really    *)
(* serves two parties, and Peterson's argument applies to it (the victim   *)
(* is the one who waits).  Giving the nodes back root first is what keeps  *)
(* the part of the path in use a bottom part.                              *)
(***************************************************************************)
EXTENDS TreeMutex, DataLemmas

-----------------------------------------------------------------------------
(* The paths through the tree *)

\* PowerOfTwo is what its definition says.
LEMMA PowerTurns ==
  /\ PowerOfTwo \in [Nat -> Nat \ {0}] /\ PowerOfTwo[0] = 1
  /\ \A d \in Nat : PowerOfTwo[d + 1] = 2 * PowerOfTwo[d]
<1> DEFINE X == Nat \ {0}
           G == [p \in X \X Nat |-> 2 * p[1]]
           Body(g) == [d \in Nat |-> IF d = 0 THEN 1 ELSE 2 * g[d - 1]]
<1>1. G \in [X \X Nat -> X] /\ 1 \in X
  OBVIOUS
<1>2. PICK f : /\ f \in [Nat -> X] /\ f[0] = 1
               /\ \A m \in Nat : f[m + 1] = G[<<f[m], m + 1>>]
  <2> HIDE DEF G, X
  <2>1. \E f : Turning(f, X, 1, G)
    BY <1>1, Turns
  <2> QED
    BY <2>1 DEF Turning
<1>3. \A m \in Nat : f[m + 1] = 2 * f[m]
  <2>1. \A m \in Nat : <<f[m], m + 1>> \in X \X Nat
    BY <1>2
  <2> QED
    BY <1>2, <2>1
<1>4. f = Body(f)
  <2>1. \A d \in Nat : d = 0 \/ (d - 1 \in Nat /\ (d - 1) + 1 = d)
    OBVIOUS
  <2>2. \A d \in Nat : f[d] = IF d = 0 THEN 1 ELSE 2 * f[d - 1]
    BY <1>2, <1>3, <2>1
  <2> QED
    BY <1>2, <2>2
<1>5. PowerOfTwo = Body(PowerOfTwo)
  <2>1. PowerOfTwo = CHOOSE g : g = Body(g)
    BY DEF PowerOfTwo
  <2> HIDE DEF Body
  <2> QED
    BY <1>4, <2>1
<1>6. PowerOfTwo[0] = 1 /\ \A d \in Nat : PowerOfTwo[d + 1] = 2 * PowerOfTwo[d]
  <2>1. \A d \in Nat : PowerOfTwo[d] = IF d = 0 THEN 1 ELSE 2 * PowerOfTwo[d - 1]
    BY <1>5
  <2>2. \A d \in Nat : d + 1 \in Nat /\ d + 1 # 0 /\ (d + 1) - 1 = d
    OBVIOUS
  <2> QED
    BY <2>1, <2>2
<1>7. \A d \in Nat : PowerOfTwo[d] \in Nat \ {0}
  <2> DEFINE T == {d \in Nat : PowerOfTwo[d] \in Nat \ {0}}
  <2>1. 0 \in T /\ \A d \in Nat : d \in T => d + 1 \in T
    BY <1>6
  <2> HIDE DEF T
  <2>2. Nat \subseteq T
    BY <2>1, Induction
  <2> QED
    BY <2>2 DEF T
<1> QED
  BY <1>5, <1>6, <1>7

\* Powers of two lie at least a factor of two apart.
LEMMA PowersApart ==
  ASSUME NEW j \in Nat, NEW k \in Nat, j < k
  PROVE  2 * PowerOfTwo[j] <= PowerOfTwo[k]
<1> DEFINE T == {i \in Nat : j < i => 2 * PowerOfTwo[j] <= PowerOfTwo[i]}
<1>1. 0 \in T
  OBVIOUS
<1>2. ASSUME NEW i \in Nat, i \in T PROVE i + 1 \in T
  <2>1. PowerOfTwo[i] \in Nat \ {0} /\ PowerOfTwo[i + 1] = 2 * PowerOfTwo[i]
    BY PowerTurns
  <2>2. PowerOfTwo[j] \in Nat \ {0}
    BY PowerTurns
  <2>3. j < i + 1 => j = i \/ j < i
    OBVIOUS
  <2> QED
    BY <1>2, <2>1, <2>2, <2>3
<1> HIDE DEF T
<1>3. Nat \subseteq T
  BY <1>1, <1>2, Induction
<1> QED
  BY <1>3 DEF T

\* The tree is as deep as it must be for every thread to have a leaf.
LEMMA DepthSuffices ==
  ASSUME NEW n \in Nat, n > 0
  PROVE  Depth(n) \in Nat /\ PowerOfTwo[Depth(n)] >= n
<1> DEFINE T == {d \in Nat : PowerOfTwo[d] >= n}
           B == {i \in Nat : PowerOfTwo[i] >= i}
<1>1. n \in T
  <2>1. 0 \in B
    BY PowerTurns
  <2>2. ASSUME NEW i \in Nat, i \in B PROVE i + 1 \in B
    <3>1. PowerOfTwo[i] \in Nat \ {0} /\ PowerOfTwo[i + 1] = 2 * PowerOfTwo[i]
      BY PowerTurns
    <3> QED
      BY <2>2, <3>1
  <2> HIDE DEF B
  <2>3. Nat \subseteq B
    BY <2>1, <2>2, Induction
  <2> QED
    BY <2>3 DEF B
<1>2. PICK d \in T : \A e \in T : d <= e
  <2>1. T \subseteq Nat
    OBVIOUS
  <2> HIDE DEF T
  <2> QED
    BY <1>1, <2>1, NatLeast
<1>3. d \in 0 .. n /\ PowerOfTwo[d] >= n
  BY <1>1, <1>2
<1>4. d > 0 => PowerOfTwo[d - 1] < n
  <2>1. d > 0 => d - 1 \in Nat /\ PowerOfTwo[d - 1] \in Nat
    BY <1>3, PowerTurns
  <2> QED
    BY <1>2, <2>1
<1>5. Depth(n) \in 0 .. n /\ PowerOfTwo[Depth(n)] >= n
  BY <1>3, <1>4 DEF Depth
<1> QED
  BY <1>5

-----------------------------------------------------------------------------
(* The node of the tree above thread t's leaf, j levels up *)

Above(t, j) == t \div PowerOfTwo[j]
NodeOf(d, t, j) == PowerOfTwo[d - j] - 1 + Above(t, j)

LEMMA AboveHalves ==
  ASSUME NEW t \in Nat
  PROVE  /\ Above(t, 0) = t
         /\ \A j \in Nat : Above(t, j) \in Nat /\ Above(t, j + 1) = Above(t, j) \div 2
<1>1. Above(t, 0) = t
  <2>1. t \div 1 = t
    OBVIOUS
  <2> QED
    BY <2>1, PowerTurns DEF Above
<1>2. ASSUME NEW j \in Nat
      PROVE  Above(t, j) \in Nat /\ Above(t, j + 1) = Above(t, j) \div 2
  <2>1. PowerOfTwo[j] \in Nat \ {0} /\ PowerOfTwo[j + 1] = 2 * PowerOfTwo[j]
    BY PowerTurns
  <2>2. t \div PowerOfTwo[j] \in Nat
    BY <2>1, Quotient
  <2>3. (t \div PowerOfTwo[j]) \div 2 = t \div (2 * PowerOfTwo[j])
    BY <2>1, HalfOfQuotient
  <2> QED
    BY <2>1, <2>2, <2>3 DEF Above
<1> QED
  BY <1>1, <1>2

LEMMA AboveBounded ==
  ASSUME NEW d \in Nat, NEW t \in Nat, t < PowerOfTwo[d], NEW j \in 0 .. d
  PROVE  Above(t, j) < PowerOfTwo[d - j]
<1> DEFINE T == {i \in Nat : i <= d => Above(t, i) < PowerOfTwo[d - i]}
<1>1. 0 \in T
  <2>1. d - 0 = d
    OBVIOUS
  <2> QED
    BY <2>1, AboveHalves
<1>2. ASSUME NEW i \in Nat, i \in T PROVE i + 1 \in T
  <2> SUFFICES ASSUME i + 1 <= d PROVE Above(t, i + 1) < PowerOfTwo[d - (i + 1)]
    OBVIOUS
  <2>1. d - (i + 1) \in Nat /\ (d - (i + 1)) + 1 = d - i
    OBVIOUS
  <2>2. /\ PowerOfTwo[d - (i + 1)] \in Nat
        /\ PowerOfTwo[d - i] = 2 * PowerOfTwo[d - (i + 1)]
    BY <2>1, PowerTurns
  <2>3. Above(t, i) \in Nat /\ Above(t, i + 1) = Above(t, i) \div 2
    BY AboveHalves
  <2>4. Above(t, i) < PowerOfTwo[d - i]
    BY <1>2
  <2>5. \A a, p \in Nat : a < 2 * p => a \div 2 < p
    OBVIOUS
  <2> QED
    BY <2>2, <2>3, <2>4, <2>5
<1> HIDE DEF T
<1>3. Nat \subseteq T
  BY <1>1, <1>2, Induction
<1> QED
  BY <1>3 DEF T

Stage(d, t, j) == Use(NodeOf(d, t, j), Above(t, j - 1) % 2)

\* The numbers at a node: its place, its children's and its parent's.
LEMMA NodeNumbers ==
  ASSUME NEW d \in Nat, NEW t \in Nat, t < PowerOfTwo[d], NEW j \in 1 .. d
  PROVE  /\ NodeOf(d, t, j) \in Nat /\ NodeOf(d, t, j - 1) \in Nat \ {0}
         /\ Above(t, j) \in Nat /\ Above(t, j - 1) \in Nat
         /\ Above(t, j) = Above(t, j - 1) \div 2
         /\ NodeOf(d, t, j) = (NodeOf(d, t, j - 1) - 1) \div 2
         /\ NodeOf(d, t, j - 1) = 2 * NodeOf(d, t, j) + (Above(t, j - 1) % 2) + 1
         /\ PowerOfTwo[d - j] - 1 <= NodeOf(d, t, j)
         /\ NodeOf(d, t, j) <= 2 * PowerOfTwo[d - j] - 2
<1>1. /\ d - j \in Nat /\ (d - j) + 1 = d - (j - 1)
      /\ j - 1 \in Nat /\ (j - 1) + 1 = j /\ j \in 0 .. d
  OBVIOUS
<1>2. /\ PowerOfTwo[d - j] \in Nat \ {0}
      /\ PowerOfTwo[d - (j - 1)] = 2 * PowerOfTwo[d - j]
  BY <1>1, PowerTurns
<1>3. /\ Above(t, j) \in Nat /\ Above(t, j - 1) \in Nat
      /\ Above(t, j) = Above(t, j - 1) \div 2
  <2>1. \A i \in Nat : Above(t, i) \in Nat /\ Above(t, i + 1) = Above(t, i) \div 2
    BY AboveHalves
  <2> QED
    BY <1>1, <2>1
<1>4. Above(t, j) < PowerOfTwo[d - j]
  BY <1>1, AboveBounded
<1>5. ASSUME NEW p \in Nat \ {0}, NEW z \in Nat
      PROVE  /\ p - 1 + z \div 2 \in Nat /\ 2 * p - 1 + z \in Nat \ {0}
             /\ p - 1 + z \div 2 = ((2 * p - 1 + z) - 1) \div 2
             /\ 2 * p - 1 + z = 2 * (p - 1 + z \div 2) + (z % 2) + 1
  OBVIOUS
<1> DEFINE p == PowerOfTwo[d - j]  z == Above(t, j - 1)
<1>6. NodeOf(d, t, j) = p - 1 + z \div 2 /\ NodeOf(d, t, j - 1) = 2 * p - 1 + z
  BY <1>2, <1>3 DEF NodeOf
<1>7. p \in Nat \ {0} /\ z \in Nat
  BY <1>2, <1>3
<1> HIDE DEF p, z
<1>8. /\ NodeOf(d, t, j) \in Nat /\ NodeOf(d, t, j - 1) \in Nat \ {0}
      /\ NodeOf(d, t, j) = (NodeOf(d, t, j - 1) - 1) \div 2
      /\ NodeOf(d, t, j - 1) = 2 * NodeOf(d, t, j) + (z % 2) + 1
  BY <1>5, <1>6, <1>7
<1>9. p - 1 <= NodeOf(d, t, j) /\ NodeOf(d, t, j) <= 2 * p - 2
  <2>1. z \div 2 \in Nat /\ z \div 2 < p
    BY <1>3, <1>4 DEF p, z
  <2> QED
    BY <1>6, <1>7, <2>1
<1> QED
  BY <1>3, <1>8, <1>9 DEF p, z

\* What lock() computes: the nodes above the thread's leaf, from the leaf up.
LEMMA LockPathIs ==
  ASSUME NEW n \in Nat, n > 0, NEW t \in 0 .. (n - 1)
  PROVE  LockPath(n, t) = [j \in 1 .. Depth(n) |-> Stage(Depth(n), t, j)]
<1> DEFINE D == Nat \X Nat
           V == [node : Int, side : Int]
           End == {at \in D : at[1] = 0}
           use == [at \in D |-> Use((at[1] - 1) \div 2, at[2] % 2)]
           next == [at \in D |-> IF at[1] = 0 THEN at
                                 ELSE <<(at[1] - 1) \div 2, at[2] \div 2>>]
           M == [at \in D |-> at[1]]
           Body(g) == [at \in D |-> IF at[1] = 0 THEN <<>>
                                    ELSE <<Use((at[1] - 1) \div 2, at[2] % 2)>>
                                           \o g[<<(at[1] - 1) \div 2, at[2] \div 2>>]]
           g == CHOOSE h : h = Body(h)
           d == Depth(n)
           q == [j \in 0 .. d |-> <<NodeOf(d, t, j), Above(t, j)>>]
<1>1. /\ use \in [D -> V] /\ M \in [D -> Nat]
  BY DEF Use
<1>2. next \in [D -> D] /\ \A at \in D \ End : M[next[at]] < M[at]
  <2>1. \A i, x \in Nat : i # 0 => /\ (i - 1) \div 2 \in Nat /\ x \div 2 \in Nat
                                   /\ (i - 1) \div 2 < i
    OBVIOUS
  <2> QED
    BY <2>1
<1>3. \E h : Walks(h, D, End, use, next)
  <2> HIDE DEF D, V, End, use, next, M
  <2> QED
    BY <1>1, <1>2, PathRecursion
<1>4. ASSUME NEW h
      PROVE  Walks(h, D, End, use, next) <=> h = Body(h)
  <2>1. ASSUME NEW at \in D
        PROVE  (IF at \in End THEN <<>> ELSE <<use[at]>> \o h[next[at]])
                 = IF at[1] = 0 THEN <<>>
                   ELSE <<Use((at[1] - 1) \div 2, at[2] % 2)>>
                          \o h[<<(at[1] - 1) \div 2, at[2] \div 2>>]
    OBVIOUS
  <2>2. Body(h) = [at \in D |-> IF at \in End THEN <<>> ELSE <<use[at]>> \o h[next[at]]]
    <3> HIDE DEF D, End, use, next
    <3> QED
      BY <2>1
  <2> QED
    BY <2>2 DEF Walks
<1>5. Walks(g, D, End, use, next)
  <2> HIDE DEF Body, D, End, use, next
  <2> QED
    BY <1>3, <1>4
<1>6. LockPath(n, t) = g[<<TreeSize(n) + t, t>>]
  BY DEF LockPath
<1> HIDE DEF g
<1>7. d \in Nat /\ PowerOfTwo[d] >= n /\ PowerOfTwo[d] \in Nat \ {0}
  BY DepthSuffices, PowerTurns
<1>8. t \in Nat /\ t < PowerOfTwo[d]
  BY <1>7
<1> HIDE DEF d
<1>9. \A j \in 1 .. d : /\ NodeOf(d, t, j) \in Nat /\ NodeOf(d, t, j - 1) \in Nat \ {0}
                        /\ Above(t, j) \in Nat /\ Above(t, j - 1) \in Nat
                        /\ Above(t, j) = Above(t, j - 1) \div 2
                        /\ NodeOf(d, t, j) = (NodeOf(d, t, j - 1) - 1) \div 2
  BY <1>7, <1>8, NodeNumbers
<1>10. q[0] = <<TreeSize(n) + t, t>>
  <2>1. d - 0 = d /\ 0 \in 0 .. d
    BY <1>7
  <2>2. TreeSize(n) = PowerOfTwo[d] - 1
    BY DEF TreeSize, d
  <2> QED
    BY <1>8, <2>1, <2>2, AboveHalves DEF NodeOf
<1>11. q[0] \in D
  BY <1>7, <1>8, <1>10 DEF TreeSize, d
<1>12. q \in [0 .. d -> D]
  <2> SUFFICES ASSUME NEW j \in 0 .. d PROVE <<NodeOf(d, t, j), Above(t, j)>> \in D
    OBVIOUS
  <2>1. CASE j = 0
    BY <1>7, <1>11, <2>1
  <2>2. CASE j \in 1 .. d
    BY <1>9, <2>2
  <2> QED
    BY <1>7, <2>1, <2>2
<1>13. ASSUME NEW j \in 0 .. (d - 1) PROVE q[j] \notin End /\ q[j + 1] = next[q[j]]
  <2>1. j + 1 \in 1 .. d /\ (j + 1) - 1 = j /\ j \in 0 .. d
    BY <1>7
  <2>2. /\ NodeOf(d, t, j) \in Nat \ {0} /\ Above(t, j) \in Nat
        /\ Above(t, j + 1) = Above(t, j) \div 2
        /\ NodeOf(d, t, j + 1) = (NodeOf(d, t, j) - 1) \div 2
    BY <1>9, <2>1
  <2>3. q[j] = <<NodeOf(d, t, j), Above(t, j)>> /\ q[j] \in D
    BY <2>1, <2>2
  <2>4. q[j + 1] = <<(NodeOf(d, t, j) - 1) \div 2, Above(t, j) \div 2>>
    BY <2>1, <2>2
  <2>5. q[j][1] = NodeOf(d, t, j) /\ q[j][2] = Above(t, j)
    BY <2>3
  <2>6. q[j] \notin End
    BY <2>2, <2>5
  <2>7. next[q[j]] = <<(q[j][1] - 1) \div 2, q[j][2] \div 2>>
    <3> HIDE DEF q
    <3> QED
      BY <2>2, <2>3, <2>5
  <2> QED
    BY <2>4, <2>5, <2>6, <2>7
<1>14. q[d] \in End
  <2>1. d - d = 0 /\ d \in 0 .. d
    BY <1>7
  <2>2. Above(t, d) < 1 /\ Above(t, d) \in Nat
    BY <1>7, <1>8, <2>1, AboveBounded, AboveHalves, PowerTurns
  <2>3. NodeOf(d, t, d) = 0
    BY <2>1, <2>2, PowerTurns DEF NodeOf
  <2> QED
    BY <2>1, <2>2, <2>3
<1>15. g[q[0]] = UsedFor(q, d, use)
  <2>1. Visits(q, d, D, End, next)
    <3> HIDE DEF D, V, End, use, next, q
    <3> QED
      BY <1>7, <1>12, <1>13, <1>14 DEF Visits
  <2> HIDE DEF D, V, End, use, next, q, M, Body
  <2> QED
    BY <1>5, <2>1, PathOf
<1>16. ASSUME NEW j \in 1 .. d PROVE use[q[j - 1]] = Stage(d, t, j)
  <2>1. j - 1 \in 0 .. d
    BY <1>7
  <2>2. q[j - 1] = <<NodeOf(d, t, j - 1), Above(t, j - 1)>> /\ q[j - 1] \in D
    BY <1>12, <2>1
  <2>3. q[j - 1][1] = NodeOf(d, t, j - 1) /\ q[j - 1][2] = Above(t, j - 1)
    BY <2>2
  <2>4. use[q[j - 1]] = Use((q[j - 1][1] - 1) \div 2, q[j - 1][2] % 2)
    <3> HIDE DEF q
    <3> QED
      BY <2>2
  <2>5. NodeOf(d, t, j) = (NodeOf(d, t, j - 1) - 1) \div 2
    BY <1>9
  <2> QED
    BY <2>3, <2>4, <2>5 DEF Stage
<1>17. LockPath(n, t) = [j \in 1 .. d |-> use[q[j - 1]]]
  <2> HIDE DEF use, q
  <2> QED
    BY <1>6, <1>10, <1>15 DEF UsedFor
<1>18. LockPath(n, t) = [j \in 1 .. d |-> Stage(d, t, j)]
  <2> HIDE DEF use, q
  <2> QED
    BY <1>16, <1>17
<1> QED
  BY <1>18 DEF d

\* The interval of the threads below a node is cut in the middle.
LEMMA IntervalHalves ==
  ASSUME NEW p \in Nat \ {0}, NEW z \in Nat, NEW t \in Nat, p * z <= t, t < p * (z + 1)
  PROVE  LET y == z \div 2
             left == (2 * p) * y
             right == (2 * p) * (y + 1)
             middle == (left + right) \div 2
             child == IF middle > t THEN LEFT ELSE RIGHT
         IN /\ left \in Nat /\ right \in Nat /\ child = z % 2
            /\ p * z = IF child = RIGHT THEN middle ELSE left
            /\ p * (z + 1) = IF child = RIGHT THEN right ELSE middle
<1> DEFINE y == z \div 2
           left == (2 * p) * y
           right == (2 * p) * (y + 1)
           middle == (left + right) \div 2
<1>1. y \in Nat /\ ((z % 2 = 0 /\ z = 2 * y) \/ (z % 2 = 1 /\ z = 2 * y + 1))
  OBVIOUS
<1> HIDE DEF y
<1> DEFINE b == p * y
<1>2. b \in Nat
  BY <1>1
<1>3. left = 2 * b /\ right = 2 * b + 2 * p
  <2>1. (2 * p) * y = 2 * b
    BY <1>1
  <2>2. (2 * p) * (y + 1) = 2 * b + 2 * p
    BY <1>1
  <2> QED
    BY <2>1, <2>2
<1>4. p * (2 * y + 1) = 2 * b + p /\ p * (2 * y) = 2 * b /\ p * (2 * y + 2) = 2 * b + 2 * p
  BY <1>1
<1> HIDE DEF b, left, right
<1>5. middle = 2 * b + p
  <2>1. (2 * b + (2 * b + 2 * p)) = 2 * (2 * b + p)
    BY <1>2
  <2>2. \A c \in Nat : (2 * c) \div 2 = c
    OBVIOUS
  <2>3. 2 * b + p \in Nat
    BY <1>2
  <2> QED
    BY <1>3, <2>1, <2>2, <2>3
<1> HIDE DEF middle
<1> DEFINE child == IF middle > t THEN LEFT ELSE RIGHT
<1>6. /\ left \in Nat /\ right \in Nat /\ child = z % 2
      /\ p * z = IF child = RIGHT THEN middle ELSE left
      /\ p * (z + 1) = IF child = RIGHT THEN right ELSE middle
  <2>1. CASE z % 2 = 0 /\ z = 2 * y
    <3>1. p * z = 2 * b /\ p * (z + 1) = 2 * b + p
      BY <1>4, <2>1
    <3>2. middle > t
      BY <1>2, <1>5, <3>1
    <3> QED
      BY <1>2, <1>3, <1>5, <2>1, <3>1, <3>2 DEF LEFT, RIGHT
  <2>2. CASE z % 2 = 1 /\ z = 2 * y + 1
    <3>1. p * z = 2 * b + p /\ p * (z + 1) = 2 * b + 2 * p
      <4>1. z + 1 = 2 * y + 2
        BY <1>1, <2>2
      <4> QED
        BY <1>4, <2>2, <4>1
    <3>2. ~ (middle > t)
      BY <1>2, <1>5, <3>1
    <3> QED
      BY <1>2, <1>3, <1>5, <2>2, <3>1, <3>2 DEF LEFT, RIGHT
  <2> QED
    BY <1>1, <2>1, <2>2
<1> QED
  BY <1>6 DEF child, middle, left, right, y

\* What is above a thread's leaf is the interval the thread is in.
LEMMA AboveInterval ==
  ASSUME NEW t \in Nat, NEW j \in Nat
  PROVE  /\ PowerOfTwo[j] * Above(t, j) <= t
         /\ t < PowerOfTwo[j] * (Above(t, j) + 1)
<1> DEFINE p == PowerOfTwo[j]  z == t \div p  r == t % p
<1>1. p \in Nat \ {0}
  BY PowerTurns
<1> HIDE DEF p
<1>2. z \in Nat /\ r \in 0 .. (p - 1) /\ t = p * z + r
  BY <1>1, ModType
<1> HIDE DEF z, r
<1>3. p * z \in Nat /\ p * (z + 1) = p * z + p
  BY <1>1, <1>2
<1>4. p * z <= t /\ t < p * (z + 1)
  BY <1>1, <1>2, <1>3
<1> QED
  BY <1>4 DEF Above, z, p

\* What unlock() computes: the same nodes and sides, from the root down.
LEMMA UnlockPathIs ==
  ASSUME NEW n \in Nat, n > 0, NEW t \in 0 .. (n - 1)
  PROVE  UnlockPath(n, t)
           = [k \in 1 .. Depth(n) |-> Stage(Depth(n), t, Depth(n) + 1 - k)]
<1> DEFINE D == Nat \X Nat \X Nat
           V == [node : Int, side : Int]
           size == TreeSize(n)
           End == {at \in D : at[1] >= size}
           Middle(at) == (at[2] + at[3]) \div 2
           Child(at) == IF Middle(at) > t THEN LEFT ELSE RIGHT
           Then(at) == <<2 * at[1] + Child(at) + 1,
                         IF Child(at) = RIGHT THEN Middle(at) ELSE at[2],
                         IF Child(at) = RIGHT THEN at[3] ELSE Middle(at)>>
           use == [at \in D |-> Use(at[1], Child(at))]
           next == [at \in D |-> Then(at)]
           M == [at \in D |-> IF at[1] >= size THEN 0 ELSE size - at[1]]
           Body(g) == [at \in D |-> IF at[1] >= size THEN <<>>
                                    ELSE <<Use(at[1], Child(at))>> \o g[Then(at)]]
           g == CHOOSE h : h = Body(h)
           d == Depth(n)
           q == [k \in 0 .. d |->
                   <<NodeOf(d, t, d - k),
                     PowerOfTwo[d - k] * Above(t, d - k),
                     PowerOfTwo[d - k] * (Above(t, d - k) + 1)>>]
<1>1. d \in Nat /\ PowerOfTwo[d] >= n /\ PowerOfTwo[d] \in Nat \ {0}
  BY DepthSuffices, PowerTurns
<1>2. t \in Nat /\ t < PowerOfTwo[d] /\ size = PowerOfTwo[d] - 1 /\ size \in Nat
  BY <1>1 DEF TreeSize
<1>3. UnlockPath(n, t) = g[<<0, 0, size + 1>>]
  BY DEF UnlockPath
<1> HIDE DEF g, d, size
<1>4. \A at \in D : Middle(at) \in Nat /\ Child(at) \in {0, 1}
  BY DEF LEFT, RIGHT
<1>5. \A at \in D : Then(at) \in D
  BY <1>4
<1>6. \A at \in D : use[at] = Use(at[1], Child(at)) /\ next[at] = Then(at)
  OBVIOUS
<1>7. use \in [D -> V]
  BY <1>4 DEF Use
<1>8. next \in [D -> D] /\ M \in [D -> Nat]
  <2>1. next \in [D -> D]
    <3> HIDE DEF D, Then
    <3> QED
      BY <1>5
  <2>2. ASSUME NEW at \in D PROVE (IF at[1] >= size THEN 0 ELSE size - at[1]) \in Nat
    <3>1. at[1] \in Nat
      OBVIOUS
    <3> QED
      BY <1>2, <3>1
  <2>3. M \in [D -> Nat]
    <3> HIDE DEF D
    <3> QED
      BY <2>2
  <2> QED
    BY <2>1, <2>3
<1>9. ASSUME NEW at \in D \ End PROVE M[next[at]] < M[at]
  <2>1. Then(at) \in D /\ Child(at) \in Nat /\ at[1] \in Nat /\ at[1] < size
    <3>1. at \in D /\ ~ (at[1] >= size) /\ at[1] \in Nat
      OBVIOUS
    <3>2. Then(at) \in D /\ Child(at) \in {0, 1}
      <4> HIDE DEF D, Then, Child
      <4> QED
        BY <1>4, <1>5, <3>1
    <3> HIDE DEF D, Then, Child
    <3> QED
      BY <1>2, <3>1, <3>2
  <2>2. Then(at)[1] = 2 * at[1] + Child(at) + 1
    OBVIOUS
  <2>3. M[Then(at)] = IF Then(at)[1] >= size THEN 0 ELSE size - Then(at)[1]
    <3> HIDE DEF Then
    <3> QED
      BY <2>1
  <2> HIDE DEF Then, Child
  <2> QED
    BY <1>2, <1>6, <2>1, <2>2, <2>3
<1>10. \E h : Walks(h, D, End, use, next)
  <2> HIDE DEF D, V, End, use, next, M
  <2> QED
    BY <1>7, <1>8, <1>9, PathRecursion
<1>11. ASSUME NEW h
      PROVE  Walks(h, D, End, use, next) <=> h = Body(h)
  <2>1. ASSUME NEW at \in D
        PROVE  (IF at \in End THEN <<>> ELSE <<use[at]>> \o h[next[at]])
                 = IF at[1] >= size THEN <<>>
                   ELSE <<Use(at[1], Child(at))>> \o h[Then(at)]
    <3>1. at \in End <=> at[1] >= size
      OBVIOUS
    <3> HIDE DEF End, use, next, Then, Child
    <3> QED
      BY <1>6, <3>1
  <2>2. Body(h) = [at \in D |-> IF at \in End THEN <<>> ELSE <<use[at]>> \o h[next[at]]]
    <3> HIDE DEF D, End, use, next, Then, Child
    <3> QED
      BY <2>1
  <2> QED
    BY <2>2 DEF Walks
<1>12. Walks(g, D, End, use, next)
  <2> HIDE DEF Body, D, End, use, next
  <2> QED
    BY <1>10, <1>11 DEF g
<1>13. \A j \in 1 .. d :
         /\ NodeOf(d, t, j) \in Nat /\ NodeOf(d, t, j - 1) \in Nat \ {0}
         /\ Above(t, j) \in Nat /\ Above(t, j - 1) \in Nat
         /\ Above(t, j) = Above(t, j - 1) \div 2
         /\ NodeOf(d, t, j - 1) = 2 * NodeOf(d, t, j) + (Above(t, j - 1) % 2) + 1
         /\ NodeOf(d, t, j) <= 2 * PowerOfTwo[d - j] - 2
  BY <1>1, <1>2, NodeNumbers
<1>14. q[0] = <<0, 0, size + 1>>
  <2>1. d - 0 = d /\ d - d = 0 /\ 0 \in 0 .. d /\ d \in 0 .. d
    BY <1>1
  <2>2. PowerOfTwo[0] = 1
    BY PowerTurns
  <2>3. Above(t, d) < 1
    BY <1>1, <1>2, <2>1, <2>2, AboveBounded
  <2>4. Above(t, d) \in Nat
    BY <1>1, <1>2, AboveHalves
  <2>5. Above(t, d) = 0
    BY <2>3, <2>4
  <2>6. NodeOf(d, t, d) = 0
    BY <2>1, <2>2, <2>5 DEF NodeOf
  <2>7. q[0] = <<NodeOf(d, t, d), PowerOfTwo[d] * Above(t, d), PowerOfTwo[d] * (Above(t, d) + 1)>>
    BY <2>1
  <2>8. PowerOfTwo[d] * Above(t, d) = 0 /\ PowerOfTwo[d] * (Above(t, d) + 1) = PowerOfTwo[d]
    BY <1>1, <2>5
  <2>9. PowerOfTwo[d] = size + 1
    BY <1>1, <1>2
  <2> HIDE DEF q
  <2> QED
    BY <2>6, <2>7, <2>8, <2>9
<1>15. \A j \in 0 .. d : NodeOf(d, t, j) \in Nat
  <2>1. CASE d = 0
    <3>1. d - 0 = d /\ Above(t, 0) = t
      BY <1>1, <1>2, AboveHalves
    <3> QED
      BY <1>1, <1>2, <2>1, <3>1 DEF NodeOf
  <2>2. CASE d > 0
    <3>1. \A j \in 0 .. d : j \in 1 .. d \/ (j = 1 - 1 /\ 1 \in 1 .. d)
      BY <1>1, <2>2
    <3> QED
      BY <1>13, <3>1
  <2> QED
    BY <1>1, <2>1, <2>2
<1>16. q \in [0 .. d -> D]
  <2> SUFFICES ASSUME NEW k \in 0 .. d
               PROVE  <<NodeOf(d, t, d - k), PowerOfTwo[d - k] * Above(t, d - k),
                        PowerOfTwo[d - k] * (Above(t, d - k) + 1)>> \in D
    OBVIOUS
  <2>1. d - k \in 0 .. d /\ d - k \in Nat
    BY <1>1
  <2>2. /\ NodeOf(d, t, d - k) \in Nat /\ PowerOfTwo[d - k] \in Nat /\ Above(t, d - k) \in Nat
    BY <1>2, <1>15, <2>1, PowerTurns, AboveHalves
  <2>3. \A a, b \in Nat : a * b \in Nat /\ a * (b + 1) \in Nat
    OBVIOUS
  <2> QED
    BY <2>2, <2>3
\* One step down from level k.
<1>17. ASSUME NEW k \in 0 .. (d - 1)
       PROVE  /\ q[k] \notin End /\ q[k + 1] = next[q[k]]
              /\ use[q[k]] = Stage(d, t, d - k)
  <2> DEFINE j == d - k  p == PowerOfTwo[j - 1]  z == Above(t, j - 1)
  <2>1. /\ j \in 1 .. d /\ j - 1 \in Nat /\ (j - 1) + 1 = j /\ d - (k + 1) = j - 1
        /\ k \in 0 .. d /\ k + 1 \in 0 .. d /\ d - j = k /\ k \in Nat /\ k < d
    BY <1>1
  <2>2. p \in Nat \ {0} /\ PowerOfTwo[j] = 2 * p
    BY <2>1, PowerTurns
  <2>3. /\ NodeOf(d, t, j) \in Nat /\ z \in Nat /\ Above(t, j) = z \div 2
        /\ NodeOf(d, t, j - 1) = 2 * NodeOf(d, t, j) + (z % 2) + 1
        /\ NodeOf(d, t, j) <= 2 * PowerOfTwo[k] - 2
    <3> HIDE DEF j
    <3> QED
      BY <1>13, <2>1
  <2>4. p * z <= t /\ t < p * (z + 1)
    BY <1>2, <2>1, AboveInterval
  <2> DEFINE left == (2 * p) * (z \div 2)
             right == (2 * p) * (z \div 2 + 1)
             at == <<NodeOf(d, t, j), left, right>>
  <2>5. q[k] = at /\ q[k] \in D
    BY <1>16, <2>1, <2>2, <2>3
  <2>6. q[k + 1] = <<NodeOf(d, t, j - 1), p * z, p * (z + 1)>>
    BY <2>1
  <2>7. /\ Child(at) = z % 2
        /\ p * z = IF Child(at) = RIGHT THEN Middle(at) ELSE left
        /\ p * (z + 1) = IF Child(at) = RIGHT THEN right ELSE Middle(at)
    <3> HIDE DEF p, z
    <3> QED
      BY <1>2, <2>2, <2>3, <2>4, IntervalHalves
  <2>8. Then(at) = q[k + 1]
    <3>1. Then(at) = <<2 * NodeOf(d, t, j) + Child(at) + 1,
                       IF Child(at) = RIGHT THEN Middle(at) ELSE left,
                       IF Child(at) = RIGHT THEN right ELSE Middle(at)>>
      OBVIOUS
    <3> HIDE DEF Then, Child, Middle, at, left, right, p, z, j, q
    <3> QED
      BY <2>3, <2>6, <2>7, <3>1
  <2>9. at[1] < size
    <3>1. 2 * PowerOfTwo[k] <= PowerOfTwo[d]
      BY <1>1, <2>1, PowersApart
    <3>2. PowerOfTwo[k] \in Nat
      BY <2>1, PowerTurns
    <3> QED
      BY <1>1, <1>2, <2>3, <3>1, <3>2
  <2>10. at \notin End
    BY <1>2, <2>9, <2>3
  <2>11. use[at] = Stage(d, t, j)
    <3>1. use[at] = Use(at[1], Child(at))
      <4> HIDE DEF at, use, Child
      <4> QED
        BY <1>6, <2>5
    <3>2. at[1] = NodeOf(d, t, j)
      OBVIOUS
    <3> HIDE DEF at, use, Child
    <3> QED
      BY <2>7, <3>1, <3>2 DEF Stage, z
  <2>12. next[at] = Then(at)
    <3> HIDE DEF at, next, Then
    <3> QED
      BY <1>6, <2>5
  <2> HIDE DEF at, use, next, End, q, Then
  <2> QED
    BY <2>5, <2>8, <2>10, <2>11, <2>12 DEF j
<1>18. q[d] \in End
  <2>1. d - d = 0 /\ d - 0 = d /\ d \in 0 .. d
    BY <1>1
  <2>2. q[d] \in D /\ q[d][1] = NodeOf(d, t, 0)
    BY <1>16, <2>1
  <2>3. NodeOf(d, t, 0) = PowerOfTwo[d] - 1 + t
    BY <1>2, <2>1, AboveHalves DEF NodeOf
  <2> HIDE DEF q, D
  <2> QED
    BY <1>1, <1>2, <2>2, <2>3
<1>19. g[q[0]] = UsedFor(q, d, use)
  <2>1. Visits(q, d, D, End, next)
    <3> HIDE DEF D, V, End, use, next, q
    <3> QED
      BY <1>1, <1>16, <1>17, <1>18 DEF Visits
  <2> HIDE DEF D, V, End, use, next, q
  <2> QED
    BY <1>12, <2>1, PathOf
<1>20. ASSUME NEW k \in 1 .. d PROVE use[q[k - 1]] = Stage(d, t, d + 1 - k)
  <2>1. k - 1 \in 0 .. (d - 1) /\ d - (k - 1) = d + 1 - k
    BY <1>1
  <2> HIDE DEF use, q
  <2> QED
    BY <1>17, <2>1
<1>21. UnlockPath(n, t) = [k \in 1 .. d |-> use[q[k - 1]]]
  <2> HIDE DEF use, q
  <2> QED
    BY <1>3, <1>14, <1>19 DEF UsedFor
<1>22. UnlockPath(n, t) = [k \in 1 .. d |-> Stage(d, t, d + 1 - k)]
  <2> HIDE DEF use, q
  <2> QED
    BY <1>20, <1>21
<1> QED
  BY <1>22 DEF d

\* Every thread's uses of the nodes, by level.
LEMMA Levels ==
  ASSUME NEW t \in Thread
  PROVE  LET d == Depth(NumThreads) IN
         /\ d \in Nat /\ t \in Nat /\ t < PowerOfTwo[d]
         /\ Up[t] = [j \in 1 .. d |-> Stage(d, t, j)]
         /\ Down[t] = [k \in 1 .. d |-> Stage(d, t, d + 1 - k)]
         /\ Len(Up[t]) = d /\ Len(Down[t]) = d
<1> DEFINE d == Depth(NumThreads)
<1>1. NumThreads \in Nat /\ NumThreads > 0 /\ t \in 0 .. (NumThreads - 1)
  BY NumThreadsAssumption DEF Thread
<1>2. d \in Nat /\ PowerOfTwo[d] >= NumThreads /\ PowerOfTwo[d] \in Nat \ {0}
  BY <1>1, DepthSuffices, PowerTurns
<1>3. Up[t] = [j \in 1 .. d |-> Stage(d, t, j)]
  BY <1>1, LockPathIs DEF Up
<1>4. Down[t] = [k \in 1 .. d |-> Stage(d, t, d + 1 - k)]
  BY <1>1, UnlockPathIs DEF Down
<1> HIDE DEF d
<1>5. Len(Up[t]) = d /\ Len(Down[t]) = d
  BY <1>2, <1>3, <1>4
<1>6. t \in Nat /\ t < PowerOfTwo[d]
  BY <1>1, <1>2
<1> QED
  BY <1>2, <1>3, <1>4, <1>5, <1>6 DEF d

\* A node's number tells its level.
LEMMA LevelsApart ==
  ASSUME NEW d \in Nat, NEW t \in Nat, t < PowerOfTwo[d], NEW u \in Nat, u < PowerOfTwo[d],
         NEW j \in 1 .. d, NEW k \in 1 .. d, j < k
  PROVE  NodeOf(d, u, k) < NodeOf(d, t, j)
<1>1. d - j \in Nat /\ d - k \in Nat /\ d - k < d - j
  OBVIOUS
<1>2. 2 * PowerOfTwo[d - k] <= PowerOfTwo[d - j]
  BY <1>1, PowersApart
<1>3. PowerOfTwo[d - j] \in Nat /\ PowerOfTwo[d - k] \in Nat
  BY <1>1, PowerTurns
<1>4. PowerOfTwo[d - j] - 1 <= NodeOf(d, t, j) /\ NodeOf(d, t, j) \in Nat
  BY NodeNumbers
<1>5. NodeOf(d, u, k) <= 2 * PowerOfTwo[d - k] - 2 /\ NodeOf(d, u, k) \in Nat
  BY NodeNumbers
<1> QED
  BY <1>2, <1>3, <1>4, <1>5

\* A thread's path takes no node twice, and unlock() gives the nodes back in the
\* opposite order to that in which lock() took them, each on the same side; the
\* paths of two threads end in the same node, the root, and share a side of a
\* node only where they have come through the same child.
THEOREM PathsOfTheTree ==
    /\ Up \in [Thread -> Seq([node : Node, side : Side])]
    /\ \A t \in Thread :
          /\ \A j, k \in 1 .. Len(Up[t]) : j # k => Up[t][j].node # Up[t][k].node
          /\ Len(Down[t]) = Len(Up[t])
          /\ \A k \in 1 .. Len(Up[t]) : Down[t][k] = Up[t][Len(Up[t]) + 1 - k]
    /\ \A t, u \in Thread : t # u =>
          /\ Len(Up[t]) > 0 /\ Len(Up[u]) > 0
          /\ Up[t][Len(Up[t])].node = Up[u][Len(Up[u])].node
          /\ \A j \in 1 .. Len(Up[t]), k \in 1 .. Len(Up[u]) :
                Up[t][j] = Up[u][k] =>
                    j = k /\ j > 1 /\ Up[t][j - 1].node = Up[u][j - 1].node
<1> DEFINE d == Depth(NumThreads)
<1>1. ASSUME NEW t \in Thread
      PROVE  /\ d \in Nat /\ t \in Nat /\ t < PowerOfTwo[d]
             /\ Up[t] = [j \in 1 .. d |-> Stage(d, t, j)]
             /\ Down[t] = [k \in 1 .. d |-> Stage(d, t, d + 1 - k)]
             /\ Len(Up[t]) = d /\ Len(Down[t]) = d
  BY Levels
<1>0. d \in Nat /\ PowerOfTwo[d] \in Nat
  <2>1. 0 \in Thread
    BY NumThreadsAssumption DEF Thread
  <2>2. d \in Nat
    BY <1>1, <2>1
  <2> HIDE DEF d
  <2> QED
    BY <2>2, PowerTurns
<1>2. Node = 0 .. (PowerOfTwo[d] - 2)
  BY <1>0 DEF Node, TreeSize
<1> HIDE DEF d
<1>3. ASSUME NEW t \in Thread, NEW j \in 1 .. d
      PROVE  /\ Up[t][j] = Stage(d, t, j)
             /\ Up[t][j].node = NodeOf(d, t, j)
             /\ Up[t][j].side = Above(t, j - 1) % 2
             /\ Up[t][j] \in [node : Node, side : Side]
  <2>1. Up[t][j] = Stage(d, t, j)
    BY <1>1
  <2>2. Stage(d, t, j) = [node |-> NodeOf(d, t, j), side |-> Above(t, j - 1) % 2]
    BY DEF Stage, Use
  <2>3. /\ NodeOf(d, t, j) \in Nat /\ Above(t, j - 1) \in Nat
        /\ NodeOf(d, t, j) <= 2 * PowerOfTwo[d - j] - 2
    BY <1>1, NodeNumbers
  <2>4. 2 * PowerOfTwo[d - j] <= PowerOfTwo[d]
    <3>1. d - j \in Nat /\ d - j < d
      BY <1>0
    <3> QED
      BY <1>0, <3>1, PowersApart
  <2>5. PowerOfTwo[d] \in Nat /\ PowerOfTwo[d - j] \in Nat
    <3>1. d - j \in Nat
      BY <1>0
    <3> QED
      BY <1>0, <3>1, PowerTurns
  <2>6. NodeOf(d, t, j) \in Node
    BY <1>2, <2>3, <2>4, <2>5
  <2>7. Above(t, j - 1) % 2 \in Side
    BY <2>3 DEF Side, LEFT, RIGHT
  <2> QED
    BY <2>1, <2>2, <2>6, <2>7
<1>4. Up \in [Thread -> Seq([node : Node, side : Side])]
  <2>1. ASSUME NEW t \in Thread PROVE Up[t] \in Seq([node : Node, side : Side])
    <3> DEFINE S == [node : Node, side : Side]
    <3>1. \A j \in 1 .. d : Stage(d, t, j) \in S
      BY <1>3
    <3> HIDE DEF S
    <3>2. [j \in 1 .. d |-> Stage(d, t, j)] \in Seq(S)
      BY <1>0, <3>1
    <3> QED
      BY <1>1, <3>2 DEF S
  <2>2. Up = [t \in Thread |-> Up[t]]
    BY DEF Up
  <2> QED
    BY <2>1, <2>2
<1>5. ASSUME NEW t \in Thread, NEW u \in Thread, NEW j \in 1 .. d, NEW k \in 1 .. d, j # k
      PROVE  Up[t][j].node # Up[u][k].node
  <2>1. /\ Up[t][j].node = NodeOf(d, t, j) /\ Up[u][k].node = NodeOf(d, u, k)
        /\ NodeOf(d, t, j) \in Nat /\ NodeOf(d, u, k) \in Nat
    BY <1>1, <1>3, NodeNumbers
  <2>2. CASE j < k
    <3>1. NodeOf(d, u, k) < NodeOf(d, t, j)
      BY <1>1, <2>2, LevelsApart
    <3> QED
      BY <2>1, <3>1
  <2>3. CASE k < j
    <3>1. NodeOf(d, t, j) < NodeOf(d, u, k)
      BY <1>1, <2>3, LevelsApart
    <3> QED
      BY <2>1, <3>1
  <2> QED
    BY <1>0, <1>5, <2>2, <2>3
<1>6. ASSUME NEW t \in Thread
      PROVE  /\ \A j, k \in 1 .. Len(Up[t]) : j # k => Up[t][j].node # Up[t][k].node
             /\ Len(Down[t]) = Len(Up[t])
             /\ \A k \in 1 .. Len(Up[t]) : Down[t][k] = Up[t][Len(Up[t]) + 1 - k]
  <2>1. \A j, k \in 1 .. Len(Up[t]) : j # k => Up[t][j].node # Up[t][k].node
    <3>1. Len(Up[t]) = d
      BY <1>1
    <3> QED
      BY <1>5, <3>1
  <2>2. ASSUME NEW k \in 1 .. d PROVE Down[t][k] = Up[t][d + 1 - k]
    <3>1. d + 1 - k \in 1 .. d
      BY <1>0
    <3>2. Down[t][k] = Stage(d, t, d + 1 - k)
      BY <1>1
    <3> QED
      BY <1>3, <3>1, <3>2
  <2> QED
    BY <1>1, <2>1, <2>2
<1>7. ASSUME NEW t \in Thread, NEW u \in Thread, t # u
      PROVE  /\ Len(Up[t]) > 0 /\ Len(Up[u]) > 0
             /\ Up[t][Len(Up[t])].node = Up[u][Len(Up[u])].node
             /\ \A j \in 1 .. Len(Up[t]), k \in 1 .. Len(Up[u]) :
                   Up[t][j] = Up[u][k] =>
                       j = k /\ j > 1 /\ Up[t][j - 1].node = Up[u][j - 1].node
  <2>1. d > 0
    <3>1. /\ t \in Nat /\ t < PowerOfTwo[d]
          /\ u \in Nat /\ u < PowerOfTwo[d]
      BY <1>1
    <3>2. d = 0 => PowerOfTwo[d] = 1
      BY PowerTurns
    <3> QED
      BY <1>0, <1>7, <3>1, <3>2
  <2>2. ASSUME NEW v \in {t, u} PROVE Up[v][d].node = 0
    <3>1. d \in 1 .. d /\ d \in 0 .. d /\ d - d = 0
      BY <1>0, <2>1
    <3>2. Above(v, d) < 1 /\ Above(v, d) \in Nat
      BY <1>1, <3>1, AboveBounded, AboveHalves, PowerTurns
    <3>3. NodeOf(d, v, d) = 0
      BY <3>1, <3>2, PowerTurns DEF NodeOf
    <3> QED
      BY <1>3, <3>1, <3>3
  <2>3. ASSUME NEW j \in 1 .. d, NEW k \in 1 .. d, Up[t][j] = Up[u][k]
        PROVE  j = k /\ j > 1 /\ Up[t][j - 1].node = Up[u][j - 1].node
    <3>1. j = k
      BY <1>5, <2>3
    <3>2. /\ NodeOf(d, t, j - 1) = 2 * NodeOf(d, t, j) + (Above(t, j - 1) % 2) + 1
          /\ NodeOf(d, u, j - 1) = 2 * NodeOf(d, u, j) + (Above(u, j - 1) % 2) + 1
          /\ Above(t, j - 1) \in Nat /\ Above(u, j - 1) \in Nat
      <4>1. t \in Nat /\ t < PowerOfTwo[d] /\ u \in Nat /\ u < PowerOfTwo[d]
        BY <1>1
      <4>2. /\ NodeOf(d, t, j - 1) = 2 * NodeOf(d, t, j) + (Above(t, j - 1) % 2) + 1
            /\ Above(t, j - 1) \in Nat
        BY <1>0, <4>1, NodeNumbers
      <4>3. /\ NodeOf(d, u, j - 1) = 2 * NodeOf(d, u, j) + (Above(u, j - 1) % 2) + 1
            /\ Above(u, j - 1) \in Nat
        BY <1>0, <4>1, NodeNumbers
      <4> QED
        BY <4>2, <4>3
    <3>3. NodeOf(d, t, j - 1) = NodeOf(d, u, j - 1)
      <4>1. NodeOf(d, t, j) = NodeOf(d, u, j) /\ Above(t, j - 1) % 2 = Above(u, j - 1) % 2
        BY <1>3, <2>3, <3>1
      <4> QED
        BY <3>2, <4>1
    <3>4. j # 1
      <4> SUFFICES ASSUME j = 1 PROVE FALSE
        OBVIOUS
      <4>1. j - 1 = 0 /\ d - 0 = d
        BY <1>0
      <4>2. NodeOf(d, t, 0) = PowerOfTwo[d] - 1 + t /\ NodeOf(d, u, 0) = PowerOfTwo[d] - 1 + u
        BY <1>1, <4>1, AboveHalves DEF NodeOf
      <4>3. t \in Nat /\ u \in Nat
        BY <1>1
      <4> QED
        BY <1>0, <1>7, <3>3, <4>1, <4>2, <4>3
    <3>5. j - 1 \in 1 .. d /\ j > 1
      BY <1>0, <3>4
    <3> QED
      BY <1>3, <3>1, <3>3, <3>5
  <2>4. d \in Nat /\ Len(Up[t]) = d /\ Len(Up[u]) = d
    BY <1>1
  <2> QED
    BY <2>1, <2>2, <2>3, <2>4
<1> QED
  BY <1>4, <1>6, <1>7

-----------------------------------------------------------------------------
(* The threads *)

\* How many nodes of its path a thread has locked, and how many it uses.
Held(t)  == CASE pc[t] = "critical" -> Len(Up[t])
              [] pc[t] = "release"  -> Len(Up[t]) + 1 - pos[t]
              [] pc[t] \in {"want", "victim", "testWant", "testVictim"} -> pos[t] - 1
              [] OTHER -> 0

InUse(t) == IF pc[t] \in {"victim", "testWant", "testVictim"}
            THEN pos[t] ELSE Held(t)

UseIsWanted == \A t \in Thread : \A j \in 1 .. InUse(t) :
                  want[Up[t][j].node][Up[t][j].side]

UniqueUse == \A t, u \in Thread : t # u =>
                \A j \in 1 .. InUse(t), k \in 1 .. InUse(u) : Up[t][j] # Up[u][k]

NodeExclusion == \A t, u \in Thread : t # u =>
                    \A j \in 1 .. Held(t), k \in 1 .. Held(u) :
                        Up[t][j].node # Up[u][k].node

VictimWaits == \A t, u \in Thread : t # u /\ Waiting(u) =>
                  \A j \in 1 .. Held(t) :
                      Up[t][j].node = Here(u).node
                          => victim[Here(u).node] = Here(u).side

IInv == TypeOK /\ UseIsWanted /\ UniqueUse /\ NodeExclusion /\ VictimWaits

-----------------------------------------------------------------------------
\* The elements of a sequence.
LEMMA SeqElements ==
  ASSUME NEW S, NEW s \in Seq(S)
  PROVE  Len(s) \in Nat /\ \A j \in 1 .. Len(s) : s[j] \in S
OBVIOUS

\* The elements of a path are nodes with a side, and a use is determined by
\* its node and its side.
LEMMA PathType ==
  /\ \A t \in Thread : Len(Up[t]) \in Nat
  /\ \A t \in Thread : \A j \in 1 .. Len(Up[t]) :
        Up[t][j].node \in Node /\ Up[t][j].side \in Side
  /\ \A t, u \in Thread : \A j \in 1 .. Len(Up[t]), k \in 1 .. Len(Up[u]) :
        Up[t][j].node = Up[u][k].node /\ Up[t][j].side = Up[u][k].side
            => Up[t][j] = Up[u][k]
<1>1. \A t \in Thread : Up[t] \in Seq([node : Node, side : Side])
  BY PathsOfTheTree
<1>2. \A t \in Thread : /\ Len(Up[t]) \in Nat
                        /\ \A j \in 1 .. Len(Up[t]) : Up[t][j] \in [node : Node, side : Side]
  BY <1>1, SeqElements
<1> QED
  BY <1>2

\* Two threads that use the same side of a node have come through the same child.
LEMMA SameChild ==
  ASSUME NEW t \in Thread, NEW u \in Thread, t # u,
         NEW j \in 1 .. Len(Up[t]), NEW k \in 1 .. Len(Up[u]), Up[t][j] = Up[u][k]
  PROVE  j = k /\ j > 1 /\ Up[t][j - 1].node = Up[u][j - 1].node
BY PathsOfTheTree

\* No node is twice on a path.
LEMMA OnceEach ==
  ASSUME NEW t \in Thread, NEW j \in 1 .. Len(Up[t]), NEW k \in 1 .. Len(Up[t]), j # k
  PROVE  Up[t][j].node # Up[t][k].node
BY PathsOfTheTree

\* Two uses of one node that differ do so in their sides.
LEMMA OtherSide ==
  ASSUME NEW t \in Thread, NEW u \in Thread,
         NEW j \in 1 .. Len(Up[t]), NEW k \in 1 .. Len(Up[u]),
         Up[t][j].node = Up[u][k].node, Up[t][j] # Up[u][k]
  PROVE  Up[t][j].side # Up[u][k].side
BY PathType

\* The part of the path in use is a bottom part of it.
LEMMA UseBounds ==
  ASSUME TypeOK, NEW t \in Thread
  PROVE  /\ Held(t) \in 0 .. Len(Up[t])
         /\ InUse(t) \in 0 .. Len(Up[t])
         /\ Held(t) <= InUse(t)
         /\ InUse(t) <= Held(t) + 1
<1>1. pc[t] \in Locations /\ pos[t] \in Nat /\ Len(Up[t]) \in Nat
  BY PathType DEF TypeOK
<1>2. pc[t] \in {"want", "victim", "testWant", "testVictim", "release"}
        => pos[t] \in 1 .. Len(Up[t])
  BY DEF TypeOK
<1> QED
  BY <1>1, <1>2 DEF Held, InUse, Locations

\* Where a waiting or advancing thread stands is the top of what it uses.
LEMMA HereType ==
  ASSUME TypeOK, NEW t \in Thread,
         pc[t] \in {"want", "victim", "testWant", "testVictim", "release"}
  PROVE  /\ pos[t] \in 1 .. Len(Up[t])
         /\ Here(t) = Up[t][pos[t]]
         /\ Here(t).node \in Node
         /\ Here(t).side \in Side
<1>1. pos[t] \in 1 .. Len(Up[t])
  BY DEF TypeOK
<1> QED
  BY <1>1, PathType DEF Here

\* The invariant holds initially: nobody uses anything.
LEMMA InitInv == Init => IInv
<1> SUFFICES ASSUME Init PROVE IInv
  OBVIOUS
<1>1. TypeOK
  BY DEF Init, TypeOK, Locations, Side, LEFT, RIGHT
<1>2. \A t \in Thread : Held(t) = 0 /\ InUse(t) = 0 /\ ~Waiting(t)
  BY DEF Init, Held, InUse, Waiting
<1> QED
  BY <1>1, <1>2 DEF IInv, UseIsWanted, UniqueUse, NodeExclusion, VictimWaits

\* A step of t that changes neither what t uses nor want nor victim, and does
\* not make it wait, keeps the invariant.
LEMMA QuietStep ==
  ASSUME IInv, NEW t \in Thread, TypeOK',
         UNCHANGED <<want, victim>>,
         Held(t)' = Held(t), InUse(t)' = InUse(t),
         Waiting(t)' => Waiting(t) /\ pos'[t] = pos[t],
         \A u \in Thread \ {t} : pc'[u] = pc[u] /\ pos'[u] = pos[u]
  PROVE  IInv'
<1>1. \A u \in Thread : Held(u)' = Held(u) /\ InUse(u)' = InUse(u)
  BY DEF Held, InUse
<1>2. \A u \in Thread : Waiting(u)' => Waiting(u) /\ Here(u)' = Here(u)
  BY DEF Waiting, Here
<1>3. UseIsWanted' /\ UniqueUse' /\ NodeExclusion'
  BY <1>1 DEF IInv, UseIsWanted, UniqueUse, NodeExclusion
<1>4. VictimWaits'
  BY <1>1, <1>2 DEF IInv, VictimWaits
<1> QED
  BY <1>3, <1>4 DEF IInv

\* Calling lock() keeps the invariant.
LEMMA LockInv ==
  ASSUME IInv, NEW t \in Thread, Lock(t)
  PROVE  IInv'
<1>1. TypeOK'
  BY PathType DEF IInv, Lock, TypeOK, Locations
<1>2. Held(t)' = Held(t) /\ InUse(t)' = InUse(t) /\ ~Waiting(t)'
  BY DEF IInv, Lock, TypeOK, Held, InUse, Waiting
<1>3. \A u \in Thread \ {t} : pc'[u] = pc[u] /\ pos'[u] = pos[u]
  BY DEF IInv, Lock, TypeOK
<1> QED
  BY <1>1, <1>2, <1>3, QuietStep DEF Lock

\* Calling unlock() keeps the invariant.
LEMMA UnlockInv ==
  ASSUME IInv, NEW t \in Thread, Unlock(t)
  PROVE  IInv'
<1>0. Len(Down[t]) = Len(Up[t]) /\ Len(Up[t]) \in Nat
  BY PathsOfTheTree, PathType
<1>1. TypeOK'
  <2>1. CASE Len(Up[t]) = 0
    BY <1>0, <2>1 DEF IInv, Unlock, TypeOK, Locations
  <2>2. CASE Len(Up[t]) # 0
    <3>1. 1 \in 1 .. Len(Up[t])
      BY <1>0, <2>2
    <3>2. pc' = [pc EXCEPT ![t] = "release"] /\ pos' = [pos EXCEPT ![t] = 1]
      BY <1>0, <2>2 DEF Unlock
    <3> QED
      BY <3>1, <3>2 DEF IInv, Unlock, TypeOK, Locations
  <2> QED
    BY <2>1, <2>2
<1>2. Held(t)' = Held(t) /\ InUse(t)' = InUse(t) /\ ~Waiting(t)'
  BY <1>0 DEF IInv, Unlock, TypeOK, Held, InUse, Waiting
<1>3. \A u \in Thread \ {t} : pc'[u] = pc[u] /\ pos'[u] = pos[u]
  BY DEF IInv, Unlock, TypeOK
<1> QED
  BY <1>1, <1>2, <1>3, QuietStep DEF Unlock

\* Raising want: nobody else can use this side of the node.
LEMMA StoreWantInv ==
  ASSUME IInv, NEW t \in Thread, StoreWant(t)
  PROVE  IInv'
<1>1. /\ pos[t] \in 1 .. Len(Up[t])
      /\ Here(t) = Up[t][pos[t]]
      /\ Here(t).node \in Node
      /\ Here(t).side \in Side
  BY HereType DEF IInv, StoreWant
<1>2. TypeOK'
  BY <1>1 DEF IInv, StoreWant, TypeOK, Locations
<1>3. /\ Held(t)' = Held(t) /\ Held(t) = pos[t] - 1
      /\ InUse(t)' = pos[t] /\ InUse(t) = pos[t] - 1
      /\ ~Waiting(t)'
  BY DEF IInv, StoreWant, TypeOK, Held, InUse, Waiting
<1>4. \A u \in Thread \ {t} : /\ Held(u)' = Held(u) /\ InUse(u)' = InUse(u)
                              /\ Waiting(u)' = Waiting(u) /\ Here(u)' = Here(u)
  BY DEF IInv, StoreWant, TypeOK, Held, InUse, Waiting, Here
<1>5. \A u \in Thread : /\ Held(u) \in 0 .. Len(Up[u]) /\ InUse(u) \in 0 .. Len(Up[u])
                        /\ Held(u) <= InUse(u) /\ InUse(u) <= Held(u) + 1
  BY UseBounds DEF IInv
<1>6. UseIsWanted'
  <2> SUFFICES ASSUME NEW u \in Thread, NEW j \in 1 .. InUse(u)'
               PROVE  want'[Up[u][j].node][Up[u][j].side]
    BY DEF UseIsWanted
  <2>1. j \in 1 .. Len(Up[u]) /\ Up[u][j].node \in Node /\ Up[u][j].side \in Side
    <3>1. j \in 1 .. Len(Up[u])
      <4>1. CASE u = t
        BY <4>1, <1>1, <1>3, PathType
      <4>2. CASE u # t
        BY <4>2, <1>4, <1>5, PathType
      <4> QED
        BY <4>1, <4>2
    <3> QED
      BY <3>1, PathType
  <2>2. CASE u = t /\ j = pos[t]
    BY <2>1, <2>2, <1>1 DEF StoreWant, IInv, TypeOK
  <2>3. CASE ~(u = t /\ j = pos[t])
    <3>1. j \in 1 .. InUse(u)
      BY <2>3, <1>1, <1>3, <1>4
    <3>2. want[Up[u][j].node][Up[u][j].side]
      BY <3>1 DEF IInv, UseIsWanted
    <3> QED
      BY <3>2, <2>1, <1>1 DEF StoreWant, IInv, TypeOK
  <2> QED
    BY <2>2, <2>3
<1>7. \A u \in Thread \ {t} : \A k \in 1 .. InUse(u) : Up[t][pos[t]] # Up[u][k]
  <2> SUFFICES ASSUME NEW u \in Thread \ {t}, NEW k \in 1 .. InUse(u),
                      Up[t][pos[t]] = Up[u][k]
               PROVE  FALSE
    OBVIOUS
  <2>1. k \in 1 .. Len(Up[u])
    BY <1>5
  <2>2. pos[t] = k /\ k > 1 /\ Up[t][pos[t] - 1].node = Up[u][k - 1].node
    BY <1>1, <2>1, SameChild
  <2>3. pos[t] - 1 \in 1 .. Held(t) /\ k - 1 \in 1 .. Held(u)
    BY <1>1, <1>3, <1>5, <2>1, <2>2
  <2> QED
    BY <2>2, <2>3 DEF IInv, NodeExclusion
<1>8. UniqueUse'
  <2> SUFFICES ASSUME NEW u \in Thread, NEW w \in Thread, u # w,
                      NEW j \in 1 .. InUse(u)', NEW k \in 1 .. InUse(w)'
               PROVE  Up[u][j] # Up[w][k]
    BY DEF UniqueUse
  <2>1. CASE u = t /\ j = pos[t]
    BY <2>1, <1>4, <1>7
  <2>2. CASE w = t /\ k = pos[t]
    BY <2>2, <1>4, <1>7
  <2>3. CASE ~(u = t /\ j = pos[t]) /\ ~(w = t /\ k = pos[t])
    <3>1. j \in 1 .. InUse(u) /\ k \in 1 .. InUse(w)
      BY <2>3, <1>1, <1>3, <1>4
    <3> QED
      BY <3>1 DEF IInv, UniqueUse
  <2> QED
    BY <2>1, <2>2, <2>3
<1>9. NodeExclusion'
  BY <1>3, <1>4 DEF IInv, NodeExclusion
<1>10. VictimWaits'
  BY <1>3, <1>4 DEF IInv, VictimWaits, StoreWant
<1> QED
  BY <1>2, <1>6, <1>8, <1>9, <1>10 DEF IInv

\* Naming oneself the victim: no third thread can be at this node, so the one
\* whose waiting is described by victim[node] is now t.
LEMMA StoreVictimInv ==
  ASSUME IInv, NEW t \in Thread, StoreVictim(t)
  PROVE  IInv'
<1>1. /\ pos[t] \in 1 .. Len(Up[t])
      /\ Here(t) = Up[t][pos[t]]
      /\ Here(t).node \in Node
      /\ Here(t).side \in Side
  BY HereType DEF IInv, StoreVictim
<1>2. TypeOK'
  BY <1>1 DEF IInv, StoreVictim, TypeOK, Locations
<1>3. \A u \in Thread : /\ Held(u)' = Held(u) /\ InUse(u)' = InUse(u)
                        /\ Here(u)' = Here(u)
  BY DEF IInv, StoreVictim, TypeOK, Held, InUse, Here
<1>4. /\ Held(t) = pos[t] - 1 /\ InUse(t) = pos[t]
      /\ \A u \in Thread \ {t} : Waiting(u)' = Waiting(u)
  BY DEF IInv, StoreVictim, TypeOK, Held, InUse, Waiting
<1>5. UseIsWanted' /\ UniqueUse' /\ NodeExclusion'
  BY <1>3 DEF IInv, UseIsWanted, UniqueUse, NodeExclusion, StoreVictim
<1>6. VictimWaits'
  <2> SUFFICES ASSUME NEW h \in Thread, NEW u \in Thread, h # u, Waiting(u)',
                      NEW j \in 1 .. Held(h), Up[h][j].node = Here(u).node
               PROVE  victim'[Here(u).node] = Here(u).side
    BY <1>3 DEF VictimWaits
  <2>1. j \in 1 .. Len(Up[h]) /\ j \in 1 .. InUse(h)
    BY UseBounds, PathType DEF IInv
  <2>2. CASE u = t
    BY <2>2, <1>1 DEF StoreVictim, IInv, TypeOK
  <2>3. CASE u # t /\ Here(u).node # Here(t).node
    <3>1. victim[Here(u).node] = Here(u).side
      BY <2>3, <1>4 DEF IInv, VictimWaits
    <3> QED
      BY <3>1, <2>3, <1>1 DEF StoreVictim, IInv, TypeOK
  <2>4. CASE u # t /\ Here(u).node = Here(t).node
    <3>1. Waiting(u) /\ pos[u] \in 1 .. Len(Up[u]) /\ InUse(u) = pos[u]
          /\ Here(u) = Up[u][pos[u]] /\ Here(u).side \in Side
      <4>1. Waiting(u)
        BY <1>4, <2>4
      <4> QED
        BY <4>1, HereType DEF IInv, Waiting, InUse
    <3>2. CASE h = t
      <4>1. j # pos[t] /\ j \in 1 .. Len(Up[t])
        BY <3>2, <1>4, <2>1, <1>1
      <4> QED
        BY <4>1, <3>2, <1>1, <2>4, OnceEach
    <3>3. CASE h # t
      <4>1. Up[h][j] # Up[t][pos[t]] /\ Up[h][j] # Up[u][pos[u]]
            /\ Up[t][pos[t]] # Up[u][pos[u]]
        <5>1. pos[t] \in 1 .. InUse(t) /\ pos[u] \in 1 .. InUse(u)
          BY <3>1, <1>1, <1>4
        <5>2. UniqueUse
          BY DEF IInv
        <5>3. Up[h][j] # Up[t][pos[t]]
          BY <5>1, <5>2, <3>3, <2>1 DEF UniqueUse
        <5>4. Up[h][j] # Up[u][pos[u]]
          BY <5>1, <5>2, <2>1 DEF UniqueUse
        <5>5. Up[t][pos[t]] # Up[u][pos[u]]
          BY <5>1, <5>2, <2>4 DEF UniqueUse
        <5> QED
          BY <5>3, <5>4, <5>5
      <4>2. /\ Up[h][j].side # Here(t).side
            /\ Up[h][j].side # Here(u).side
            /\ Here(t).side # Here(u).side
        <5>1. Up[h][j].side # Here(t).side
          BY <4>1, <2>1, <2>4, <1>1, OtherSide
        <5>2. Up[h][j].side # Here(u).side
          BY <4>1, <3>1, <2>1, OtherSide
        <5>3. Here(t).side # Here(u).side
          BY <4>1, <3>1, <2>4, <1>1, OtherSide
        <5> QED
          BY <5>1, <5>2, <5>3
      <4>3. Up[h][j].side \in Side
        BY <2>1, PathType
      <4> QED
        BY <4>2, <4>3, <3>1, <1>1 DEF Side, LEFT, RIGHT
    <3> QED
      BY <3>2, <3>3
  <2> QED
    BY <2>2, <2>3, <2>4
<1> QED
  BY <1>2, <1>5, <1>6 DEF IInv

\* A thread that has a rival at its node is on the other side of it.
LEMMA RivalSide ==
  ASSUME IInv, NEW t \in Thread, NEW u \in Thread, t # u, Waiting(t),
         NEW k \in 1 .. InUse(u), Up[u][k].node = Here(t).node
  PROVE  /\ k \in 1 .. Len(Up[u])
         /\ Up[u][k].side \in Side
         /\ Up[u][k].side = 1 - Here(t).side
         /\ want[Here(t).node][1 - Here(t).side]
<1>1. /\ pos[t] \in 1 .. Len(Up[t])
      /\ Here(t) = Up[t][pos[t]]
      /\ Here(t).node \in Node
      /\ Here(t).side \in Side
      /\ InUse(t) = pos[t]
  BY HereType DEF IInv, Waiting, InUse
<1>2. k \in 1 .. Len(Up[u])
  BY UseBounds, PathType DEF IInv
<1>3. Up[u][k].side \in Side
  BY <1>2, PathType
<1>4. Up[u][k] # Up[t][pos[t]]
  BY <1>1 DEF IInv, UniqueUse
<1>5. Up[u][k].side # Here(t).side
  BY <1>1, <1>2, <1>4, PathType
<1>6. Up[u][k].side = 1 - Here(t).side
  BY <1>1, <1>3, <1>5 DEF Side, LEFT, RIGHT
<1>7. want[Up[u][k].node][Up[u][k].side]
  BY DEF IInv, UseIsWanted
<1> QED
  BY <1>2, <1>3, <1>6, <1>7

\* Getting a node keeps the invariant when nobody holds it and every rival
\* waiting there is its victim.
LEMMA AdvanceInv ==
  ASSUME IInv, NEW t \in Thread, Waiting(t), Advance(t), UNCHANGED <<want, victim>>,
         \A u \in Thread \ {t} : \A k \in 1 .. Held(u) :
             Up[u][k].node # Here(t).node,
         \A u \in Thread \ {t} :
             Waiting(u) /\ Here(u).node = Here(t).node
                 => victim[Here(u).node] = Here(u).side
  PROVE  IInv'
<1>1. /\ pos[t] \in 1 .. Len(Up[t])
      /\ Here(t) = Up[t][pos[t]]
      /\ Len(Up[t]) \in Nat
  BY HereType, PathType DEF IInv, Waiting
<1>2. TypeOK'
  <2>1. CASE pos[t] = Len(Up[t])
    BY <2>1 DEF IInv, Advance, TypeOK, Locations
  <2>2. CASE pos[t] # Len(Up[t])
    <3>1. pos[t] + 1 \in 1 .. Len(Up[t]) /\ pos[t] + 1 \in Nat
      BY <1>1, <2>2
    <3>2. pc' = [pc EXCEPT ![t] = "want"] /\ pos' = [pos EXCEPT ![t] = pos[t] + 1]
      BY <2>2 DEF Advance
    <3> QED
      BY <3>1, <3>2 DEF IInv, TypeOK, Locations
  <2> QED
    BY <2>1, <2>2
<1>3. /\ Held(t) = pos[t] - 1 /\ InUse(t) = pos[t]
      /\ Held(t)' = pos[t] /\ InUse(t)' = pos[t]
      /\ ~Waiting(t)'
  BY <1>1 DEF IInv, Advance, TypeOK, Held, InUse, Waiting
<1>4. \A u \in Thread \ {t} : /\ Held(u)' = Held(u) /\ InUse(u)' = InUse(u)
                              /\ Waiting(u)' = Waiting(u) /\ Here(u)' = Here(u)
  BY DEF IInv, Advance, TypeOK, Held, InUse, Waiting, Here
<1>5. UseIsWanted' /\ UniqueUse'
  BY <1>3, <1>4 DEF IInv, UseIsWanted, UniqueUse
<1>6. NodeExclusion'
  <2> SUFFICES ASSUME NEW u \in Thread, NEW w \in Thread, u # w,
                      NEW j \in 1 .. Held(u)', NEW k \in 1 .. Held(w)'
               PROVE  Up[u][j].node # Up[w][k].node
    BY DEF NodeExclusion
  <2>1. CASE u = t /\ j = pos[t]
    BY <2>1, <1>1, <1>4
  <2>2. CASE w = t /\ k = pos[t]
    BY <2>2, <1>1, <1>4
  <2>3. CASE ~(u = t /\ j = pos[t]) /\ ~(w = t /\ k = pos[t])
    <3>1. j \in 1 .. Held(u) /\ k \in 1 .. Held(w)
      BY <2>3, <1>1, <1>3, <1>4
    <3> QED
      BY <3>1 DEF IInv, NodeExclusion
  <2> QED
    BY <2>1, <2>2, <2>3
<1>7. VictimWaits'
  <2> SUFFICES ASSUME NEW h \in Thread, NEW u \in Thread, h # u, Waiting(u)',
                      NEW j \in 1 .. Held(h)', Up[h][j].node = Here(u)'.node
               PROVE  victim'[Here(u)'.node] = Here(u)'.side
    BY DEF VictimWaits
  <2>1. u # t /\ Waiting(u) /\ Here(u)' = Here(u)
    BY <1>3, <1>4
  <2>2. CASE h = t /\ j = pos[t]
    BY <2>1, <2>2, <1>1
  <2>3. CASE ~(h = t /\ j = pos[t])
    <3>1. j \in 1 .. Held(h)
      BY <2>3, <1>1, <1>3, <1>4
    <3> QED
      BY <3>1, <2>1 DEF IInv, VictimWaits
  <2> QED
    BY <2>2, <2>3
<1> QED
  BY <1>2, <1>5, <1>6, <1>7 DEF IInv

\* Going back and forth between the two tests keeps the invariant.
LEMMA SpinInv ==
  ASSUME IInv, NEW t \in Thread, NEW to \in {"testWant", "testVictim"}, Waiting(t),
         pc' = [pc EXCEPT ![t] = to], UNCHANGED <<want, victim, pos>>
  PROVE  IInv'
<1>1. TypeOK'
  BY DEF IInv, TypeOK, Locations, Waiting
<1>2. Held(t)' = Held(t) /\ InUse(t)' = InUse(t)
  BY DEF IInv, TypeOK, Held, InUse, Waiting
<1>3. \A u \in Thread \ {t} : pc'[u] = pc[u] /\ pos'[u] = pos[u]
  BY DEF IInv, TypeOK
<1> QED
  BY <1>1, <1>2, <1>3, QuietStep

\* The rival's want is down: there is no rival at the node.
LEMMA TestWantInv ==
  ASSUME IInv, NEW t \in Thread, TestWant(t)
  PROVE  IInv'
<1>1. Waiting(t)
  BY DEF TestWant, Waiting
<1>2. CASE want[Here(t).node][1 - Here(t).side]
  BY <1>1, <1>2, SpinInv DEF TestWant
<1>3. CASE ~want[Here(t).node][1 - Here(t).side]
  <2>1. \A u \in Thread \ {t} : \A k \in 1 .. InUse(u) :
            Up[u][k].node # Here(t).node
    BY <1>1, <1>3, RivalSide
  <2>2. \A u \in Thread \ {t} : \A k \in 1 .. Held(u) : k \in 1 .. InUse(u)
    BY UseBounds, PathType DEF IInv
  <2>3. \A u \in Thread \ {t} : Waiting(u) => Here(u).node # Here(t).node
    <3> SUFFICES ASSUME NEW u \in Thread \ {t}, Waiting(u)
                 PROVE  Here(u).node # Here(t).node
      OBVIOUS
    <3>1. pos[u] \in 1 .. InUse(u) /\ Here(u) = Up[u][pos[u]]
      BY HereType, PathType DEF IInv, Waiting, InUse
    <3> QED
      BY <3>1, <2>1
  <2> QED
    BY <1>1, <1>3, <2>1, <2>2, <2>3, AdvanceInv DEF TestWant
<1> QED
  BY <1>2, <1>3

\* The thread is not the victim: whoever holds the node would make it so, and
\* a rival that waits there is the victim itself.
LEMMA TestVictimInv ==
  ASSUME IInv, NEW t \in Thread, TestVictim(t)
  PROVE  IInv'
<1>1. Waiting(t)
  BY DEF TestVictim, Waiting
<1>2. CASE victim[Here(t).node] = Here(t).side
  BY <1>1, <1>2, SpinInv DEF TestVictim
<1>3. CASE victim[Here(t).node] # Here(t).side
  <2>0. Here(t).node \in Node /\ Here(t).side \in Side
    BY <1>1, HereType DEF IInv, Waiting
  <2>1. \A u \in Thread \ {t} : \A k \in 1 .. Held(u) :
            Up[u][k].node # Here(t).node
    BY <1>1, <1>3 DEF IInv, VictimWaits
  <2>2. ASSUME NEW u \in Thread \ {t}, Waiting(u), Here(u).node = Here(t).node
        PROVE  victim[Here(u).node] = Here(u).side
    <3>1. pos[u] \in 1 .. InUse(u) /\ Here(u) = Up[u][pos[u]]
      BY <2>2, HereType, PathType DEF IInv, Waiting, InUse
    <3>2. Here(u).side = 1 - Here(t).side
      BY <2>2, <3>1, <1>1, RivalSide
    <3>3. victim[Here(t).node] \in Side
      BY <2>0 DEF IInv, TypeOK
    <3> QED
      BY <2>0, <2>2, <3>2, <3>3, <1>3 DEF Side, LEFT, RIGHT
  <2> QED
    BY <1>1, <1>3, <2>1, <2>2, AdvanceInv DEF TestVictim
<1> QED
  BY <1>2, <1>3

\* Lowering want of the topmost node in use: nobody else uses that side, and
\* what t still uses lies below.
LEMMA ReleaseInv ==
  ASSUME IInv, NEW t \in Thread, Release(t)
  PROVE  IInv'
<1> DEFINE top == Len(Up[t]) + 1 - pos[t]
<1>1. /\ pos[t] \in 1 .. Len(Up[t])
      /\ Len(Up[t]) \in Nat /\ Len(Down[t]) = Len(Up[t])
      /\ top \in 1 .. Len(Up[t])
      /\ Down[t][pos[t]] = Up[t][top]
      /\ Up[t][top].node \in Node /\ Up[t][top].side \in Side
  <2>1. pos[t] \in 1 .. Len(Up[t]) /\ Len(Up[t]) \in Nat
    BY HereType, PathType DEF IInv, Release
  <2>2. top \in 1 .. Len(Up[t])
    BY <2>1
  <2> QED
    BY <2>1, <2>2, PathsOfTheTree, PathType
<1>2. TypeOK'
  <2>1. want' \in [Node -> [Side -> BOOLEAN]] /\ victim' \in [Node -> Side]
    BY <1>1 DEF IInv, Release, TypeOK
  <2>2. CASE pos[t] = Len(Up[t])
    <3>1. pc' = [pc EXCEPT ![t] = "idle"] /\ pos' = [pos EXCEPT ![t] = 0]
      BY <1>1, <2>2 DEF Release
    <3> QED
      BY <2>1, <3>1 DEF IInv, TypeOK, Locations
  <2>3. CASE pos[t] # Len(Up[t])
    <3>1. pos[t] + 1 \in 1 .. Len(Up[t]) /\ pos[t] + 1 \in Nat
      BY <1>1, <2>3
    <3>2. pc' = pc /\ pos' = [pos EXCEPT ![t] = pos[t] + 1]
      BY <1>1, <2>3 DEF Release
    <3>3. pc' \in [Thread -> Locations] /\ pos' \in [Thread -> Nat]
      BY <3>1, <3>2 DEF IInv, TypeOK
    <3>4. \A u \in Thread :
             pc'[u] \in {"want", "victim", "testWant", "testVictim", "release"}
                 => pos'[u] \in 1 .. Len(Up[u])
      BY <3>1, <3>2 DEF IInv, TypeOK
    <3> QED
      BY <2>1, <3>3, <3>4 DEF TypeOK
  <2> QED
    BY <2>2, <2>3
<1>3. /\ Held(t) = top /\ InUse(t) = top
      /\ Held(t)' = top - 1 /\ InUse(t)' = top - 1
      /\ ~Waiting(t)'
  <2>1. Held(t) = top /\ InUse(t) = top
    BY DEF Release, Held, InUse
  <2>2. CASE pos[t] = Len(Up[t])
    BY <2>1, <2>2, <1>1 DEF IInv, Release, TypeOK, Held, InUse, Waiting
  <2>3. CASE pos[t] # Len(Up[t])
    BY <2>1, <2>3, <1>1 DEF IInv, Release, TypeOK, Held, InUse, Waiting
  <2> QED
    BY <2>2, <2>3
<1>4. \A u \in Thread \ {t} : pc'[u] = pc[u] /\ pos'[u] = pos[u]
  BY <1>1 DEF IInv, Release, TypeOK
<1>5. \A u \in Thread \ {t} : /\ Held(u)' = Held(u) /\ InUse(u)' = InUse(u)
                              /\ Waiting(u)' = Waiting(u) /\ Here(u)' = Here(u)
  BY <1>4 DEF Held, InUse, Waiting, Here
<1>6. \A u \in Thread : /\ \A j \in 1 .. Held(u)' : j \in 1 .. Held(u)
                        /\ \A j \in 1 .. InUse(u)' : j \in 1 .. InUse(u)
  BY <1>1, <1>3, <1>5
<1>7. UseIsWanted'
  <2> SUFFICES ASSUME NEW u \in Thread, NEW j \in 1 .. InUse(u)'
               PROVE  want'[Up[u][j].node][Up[u][j].side]
    BY DEF UseIsWanted
  <2>1. j \in 1 .. InUse(u) /\ want[Up[u][j].node][Up[u][j].side]
    BY <1>6 DEF IInv, UseIsWanted
  <2>2. j \in 1 .. Len(Up[u])
    BY <2>1, UseBounds, PathType DEF IInv
  <2>3. Up[u][j].node # Up[t][top].node \/ Up[u][j].side # Up[t][top].side
    <3>1. CASE u = t
      <4>1. j # top
        BY <3>1, <1>1, <1>3
      <4> QED
        BY <4>1, <3>1, <2>2, <1>1, OnceEach
    <3>2. CASE u # t
      <4>1. top \in 1 .. InUse(t)
        BY <1>1, <1>3
      <4>2. Up[u][j] # Up[t][top]
        BY <3>2, <4>1, <2>1 DEF IInv, UniqueUse
      <4> QED
        BY <4>2, <2>2, <1>1, PathType
    <3> QED
      BY <3>1, <3>2
  <2>4. Up[u][j].node \in Node /\ Up[u][j].side \in Side
    BY <2>2, PathType
  <2> QED
    BY <2>1, <2>3, <2>4, <1>1 DEF Release, IInv, TypeOK
<1>8. UniqueUse' /\ NodeExclusion'
  BY <1>6 DEF IInv, UniqueUse, NodeExclusion
<1>9. VictimWaits'
  <2> SUFFICES ASSUME NEW h \in Thread, NEW u \in Thread, h # u, Waiting(u)',
                      NEW j \in 1 .. Held(h)', Up[h][j].node = Here(u)'.node
               PROVE  victim'[Here(u)'.node] = Here(u)'.side
    BY DEF VictimWaits
  <2>1. u # t /\ Waiting(u) /\ Here(u)' = Here(u) /\ j \in 1 .. Held(h)
    BY <1>3, <1>5, <1>6
  <2> QED
    BY <2>1 DEF IInv, VictimWaits, Release
<1> QED
  BY <1>2, <1>7, <1>8, <1>9 DEF IInv

\* Every step keeps the invariant.
LEMMA NextInv == IInv /\ [Next]_vars => IInv'
<1> SUFFICES ASSUME IInv, [Next]_vars PROVE IInv'
  OBVIOUS
<1>1. ASSUME NEW t \in Thread, Lock(t) PROVE IInv'
  BY <1>1, LockInv
<1>2. ASSUME NEW t \in Thread, StoreWant(t) PROVE IInv'
  BY <1>2, StoreWantInv
<1>3. ASSUME NEW t \in Thread, StoreVictim(t) PROVE IInv'
  BY <1>3, StoreVictimInv
<1>4. ASSUME NEW t \in Thread, TestWant(t) PROVE IInv'
  BY <1>4, TestWantInv
<1>5. ASSUME NEW t \in Thread, TestVictim(t) PROVE IInv'
  BY <1>5, TestVictimInv
<1>6. ASSUME NEW t \in Thread, Unlock(t) PROVE IInv'
  BY <1>6, UnlockInv
<1>7. ASSUME NEW t \in Thread, Release(t) PROVE IInv'
  BY <1>7, ReleaseInv
<1>8. CASE UNCHANGED vars
  BY <1>8 DEF vars, IInv, TypeOK, UseIsWanted, UniqueUse, NodeExclusion,
              VictimWaits, Held, InUse, Waiting, Here
<1> QED
  BY <1>1, <1>2, <1>3, <1>4, <1>5, <1>6, <1>7, <1>8 DEF Next, Step

\* What the threads use, hold and wait for is consistent in every reachable
\* state of lock() and unlock().
THEOREM Invariance == Spec => []IInv
<1> QED
  BY InitInv, NextInv, PTL DEF Spec

\* The state of tree_mutex is always of its type.
THEOREM TypeCorrect == Spec => []TypeOK
<1>1. IInv => TypeOK
  BY DEF IInv
<1> QED
  BY <1>1, Invariance, PTL

\* At most one thread is between the return of lock() and the call of unlock():
\* two of them would both hold the root.
THEOREM MutualExclusionHolds == Spec => []MutualExclusion
<1>1. IInv => MutualExclusion
  <2> SUFFICES ASSUME IInv, NEW t \in Thread, NEW u \in Thread,
                      pc[t] = "critical", pc[u] = "critical", t # u
               PROVE  FALSE
    BY DEF MutualExclusion
  <2>1. Held(t) = Len(Up[t]) /\ Held(u) = Len(Up[u])
    BY DEF Held
  <2>2. /\ Len(Up[t]) \in 1 .. Held(t) /\ Len(Up[u]) \in 1 .. Held(u)
        /\ Up[t][Len(Up[t])].node = Up[u][Len(Up[u])].node
    BY <2>1, PathsOfTheTree, PathType
  <2> QED
    BY <2>2 DEF IInv, NodeExclusion
<1> QED
  BY <1>1, Invariance, PTL

\* A thread that gets past a rival waiting at its node came before it.
THEOREM NoOvertakingHolds == Spec => NoOvertaking
<1>1. IInv /\ [Next]_vars => [RivalIsVictim]_vars
  <2> SUFFICES ASSUME IInv, Next, NEW t \in Thread, NEW u \in Thread, t # u,
                      GetsNode(t), Waiting(u), Here(u).node = Here(t).node
               PROVE  victim[Here(t).node] = Here(u).side
    BY DEF RivalIsVictim
  <2>1. Waiting(t)
    BY DEF GetsNode
  <2>2. pos[u] \in 1 .. InUse(u) /\ Here(u) = Up[u][pos[u]]
    BY HereType, PathType DEF IInv, Waiting, InUse
  <2>3. /\ Here(u).side = 1 - Here(t).side
        /\ want[Here(t).node][1 - Here(t).side]
    BY <2>1, <2>2, RivalSide
  <2>4. Here(t).node \in Node /\ Here(t).side \in Side
    BY <2>1, HereType DEF IInv, Waiting
  <2>5. victim[Here(t).node] # Here(t).side
    <3> SUFFICES ASSUME victim[Here(t).node] = Here(t).side PROVE FALSE
      OBVIOUS
    <3>1. PICK w \in Thread : Lock(w) \/ Step(w)
      BY DEF Next
    <3>2. CASE w = t
      <4>1. TestWant(t) \/ TestVictim(t)
        BY <3>1, <3>2, <2>1 DEF Waiting, Lock, Step, StoreWant, StoreVictim, Unlock, Release
      <4>2. pc' \in {[pc EXCEPT ![t] = "testWant"], [pc EXCEPT ![t] = "testVictim"]}
            /\ pos' = pos
        BY <4>1, <2>3 DEF TestWant, TestVictim
      <4> QED
        BY <4>2 DEF GetsNode, Waiting, IInv, TypeOK
    <3>3. CASE w # t
      <4>1. pc'[t] = pc[t] /\ pos'[t] = pos[t]
        BY <3>1, <3>3 DEF IInv, TypeOK, Lock, Step, StoreWant, StoreVictim,
                          TestWant, TestVictim, Advance, Unlock, Release
      <4> QED
        BY <4>1 DEF GetsNode, Waiting
    <3> QED
      BY <3>2, <3>3
  <2>6. victim[Here(t).node] \in Side
    BY <2>4 DEF IInv, TypeOK
  <2> QED
    BY <2>3, <2>4, <2>5, <2>6 DEF Side, LEFT, RIGHT
<1> QED
  BY <1>1, Invariance, PTL DEF Spec, NoOvertaking
=============================================================================
