---------------------------- MODULE WinapiProofs ----------------------------
(***************************************************************************)
(* Theorems about the heap manager, the notepad with its workers and the   *)
(* editor with its settings dialogs.                                       *)
(***************************************************************************)
EXTENDS WinapiPrograms, DataLemmas

-----------------------------------------------------------------------------
(* Pages: a page begins at PageSize times its number. *)

LEMMA HeapConstants ==
  /\ HeapSize \in Nat /\ HeapSize > 0 /\ MinSize \in Nat /\ MinSize > 0
  /\ BlockSize \in Nat /\ BlockSize > 0 /\ PageSize \in Nat /\ PageSize > 0
  /\ SmallBorder \in Nat /\ MediumBorder \in Nat /\ SmallBorder < MediumBorder
  /\ HeapSize <= MediumBorder /\ Sizes \subseteq Nat \ {0} /\ MaxUsers \in Nat
BY SizeAssumption, ProgramsAssumption

\* Rounding up and down, told by multiplications.
LEMMA Floor ==
  ASSUME NEW n \in Nat, NEW u \in Nat, u > 0, NEW p \in Nat
  PROVE  /\ n \div u \in Nat
         /\ n \div u <= p <=> n < u * p + u
<1> DEFINE q == n \div u  r == n % u
<1>1. q \in Nat /\ r \in 0 .. (u - 1) /\ n = u * q + r
  BY ModType
<1> HIDE DEF q, r
<1>2. CASE q <= p
  <2>1. u * q <= u * p
    <3>1. CASE q = p
      BY <3>1
    <3>2. CASE q < p
      <4>1. u * q + u <= u * p
        BY <1>1, <3>2, TimesMonotone
      <4> QED
        BY <4>1, <1>1
    <3> QED
      BY <1>1, <1>2, <3>1, <3>2
  <2> QED
    BY <1>1, <1>2, <2>1 DEF q
<1>3. CASE p < q
  <2>1. u * p + u <= u * q
    BY <1>1, <1>3, TimesMonotone
  <2> QED
    BY <1>1, <1>3, <2>1 DEF q
<1> QED
  BY <1>1, <1>2, <1>3

LEMMA Ceiling ==
  ASSUME NEW n \in Nat, NEW u \in Nat, u > 0, NEW p \in Nat
  PROVE  /\ CeilDiv(n, u) \in Nat
         /\ CeilDiv(n, u) <= p <=> n <= u * p
<1> DEFINE q == n \div u  r == n % u
<1>1. q \in Nat /\ r \in 0 .. (u - 1) /\ n = u * q + r
  BY ModType
<1>2. q <= p <=> n < u * p + u
  BY Floor
<1>3. CeilDiv(n, u) = IF r = 0 THEN q ELSE q + 1
  BY <1>1 DEF CeilDiv
<1> HIDE DEF q, r
<1>4. u * p \in Nat /\ u * q \in Nat
  BY <1>1
<1>5. q < p => u * q + u <= u * p
  BY <1>1, TimesMonotone
<1>6. p < q => u * p + u <= u * q
  BY <1>1, TimesMonotone
<1> QED
  BY <1>1, <1>2, <1>3, <1>4, <1>5, <1>6

\* What Alloc asks for is not nothing.
LEMMA RoundedUp ==
  ASSUME NEW n \in Nat, n > 0, NEW u \in Nat, u > 0
  PROVE  CeilTo(n, u) \in Nat /\ CeilTo(n, u) > 0
<1> DEFINE q == n \div u
<1>1. q \in Nat
  BY ModType
<1> HIDE DEF q
<1>2. (q + 1) * u \in Nat /\ (q + 1) * u = u * q + u /\ u * q \in Nat
  BY <1>1
<1> QED
  BY <1>2 DEF CeilTo, q

LEMMA PagesOf ==
  ASSUME NEW b \in Block, NEW p \in Nat
  PROVE  /\ p \in PagesAdded(b) <=> b[1] < PageSize * p + PageSize /\ PageSize * p < End(b)
         /\ p \in PagesRemoved(b) <=> b[1] <= PageSize * p /\ PageSize * p < End(b)
<1>1. b[1] \in Nat /\ b[2] \in Nat /\ End(b) \in Nat /\ End(b) = b[1] + b[2]
  BY HeapConstants DEF Block, End
<1>2. /\ b[1] \div PageSize \in Nat
      /\ b[1] \div PageSize <= p <=> b[1] < PageSize * p + PageSize
  BY <1>1, Floor, HeapConstants
<1>3. /\ CeilDiv(b[1], PageSize) \in Nat /\ CeilDiv(End(b), PageSize) \in Nat
      /\ CeilDiv(b[1], PageSize) <= p <=> b[1] <= PageSize * p
      /\ CeilDiv(End(b), PageSize) <= p <=> End(b) <= PageSize * p
  BY <1>1, Ceiling, HeapConstants
<1>4. PageSize * p \in Nat
  BY HeapConstants
<1>5. p \in PagesAdded(b) <=> b[1] \div PageSize <= p /\ ~(CeilDiv(End(b), PageSize) <= p)
  BY <1>2, <1>3 DEF PagesAdded
<1>6. p \in PagesRemoved(b) <=> CeilDiv(b[1], PageSize) <= p /\ ~(CeilDiv(End(b), PageSize) <= p)
  BY <1>3 DEF PagesRemoved
<1> QED
  BY <1>1, <1>2, <1>3, <1>4, <1>5, <1>6

LEMMA PagesInHeap ==
  ASSUME NEW b \in Block, End(b) <= HeapSize, NEW p \in PagesAdded(b)
  PROVE  p \in Pages
<1>1. b[1] \in Nat /\ End(b) \in Nat /\ End(b) = b[1] + b[2] /\ b[2] \in Nat
  BY HeapConstants DEF Block, End
<1>2. b[1] \div PageSize \in Nat /\ CeilDiv(End(b), PageSize) \in Nat
  BY <1>1, Floor, Ceiling, HeapConstants
<1>3. p \in Nat
  BY <1>2 DEF PagesAdded
<1>4. PageSize * p < HeapSize /\ PageSize * p \in Nat
  BY <1>1, <1>3, PagesOf, HeapConstants
<1> DEFINE q == (HeapSize - 1) \div PageSize
<1>5. /\ HeapSize - 1 \in Nat /\ q \in Nat
      /\ q <= p - 1 => HeapSize - 1 < PageSize * (p - 1) + PageSize
  <2>1. HeapSize - 1 \in Nat
    BY HeapConstants
  <2>2. q \in Nat
    BY <2>1, Floor, HeapConstants
  <2>3. CASE p = 0
    BY <2>1, <2>2, <2>3
  <2>4. CASE p > 0
    <3>1. p - 1 \in Nat
      BY <1>3, <2>4
    <3> QED
      BY <2>1, <3>1, Floor, HeapConstants
  <2> QED
    BY <1>3, <2>3, <2>4
<1>6. PageSize * (p - 1) + PageSize = PageSize * p
  BY <1>3, HeapConstants
<1>7. p <= q
  BY <1>3, <1>4, <1>5, <1>6, HeapConstants
<1> QED
  BY <1>3, <1>5, <1>7 DEF Pages

-----------------------------------------------------------------------------
(* Blocks. *)

Bytes == 0 .. HeapSize - 1

\* The sets of free blocks hold nothing else than blocks of the heap, each in its class.
Sorted(sets) == /\ sets \in [Classes -> SUBSET Block]
                /\ \A c \in Classes : \A b \in sets[c] : Class(b) = c /\ End(b) <= HeapSize
In(sets) == UNION {sets[c] : c \in Classes}

\* Every byte in one block.
Tiles(S) == /\ \A x \in Bytes : \E b \in S : Covers(b, x)
            /\ \A b, d \in S : \A x \in Bytes : Covers(b, x) /\ Covers(d, x) => b = d

LEMMA BlockFields ==
  ASSUME NEW b \in Block
  PROVE  /\ b[1] \in Nat /\ b[2] \in Nat /\ b = <<b[1], b[2]>>
         /\ End(b) \in Nat /\ End(b) = b[1] + b[2]
BY HeapConstants DEF Block, End

LEMMA MakeBlock ==
  ASSUME NEW a \in Nat, NEW n \in Nat, a + n <= HeapSize
  PROVE  /\ <<a, n>> \in Block /\ End(<<a, n>>) = a + n
         /\ <<a, n>>[1] = a /\ <<a, n>>[2] = n
BY HeapConstants DEF Block, End

LEMMA Parts ==
  ASSUME NEW a \in Nat, NEW n \in Nat, NEW h \in Nat, a + n <= h, NEW m \in Nat, m <= n
  PROVE  /\ a + m <= h /\ a + m \in Nat /\ n - m \in Nat
         /\ (a + m) + (n - m) = a + n /\ (a + m) + (n - m) <= h
OBVIOUS

LEMMA Sum ==
  ASSUME NEW a \in Nat, NEW n \in Nat, NEW m \in Nat
  PROVE  n + m \in Nat /\ a + (n + m) = (a + n) + m
OBVIOUS

\* The heap has no large blocks.
LEMMA ClassOf ==
  ASSUME NEW b \in Block, End(b) <= HeapSize
  PROVE  /\ Class(b) \in {"small", "medium"} /\ Class(b) \in Classes
         /\ \A sets : DelFromMemSet(sets, b) = [sets EXCEPT ![Class(b)] = @ \ {b}]
<1>1. b[2] \in Nat /\ b[2] <= MediumBorder
  BY BlockFields, HeapConstants
<1>2. Class(b) \in {"small", "medium"}
  BY <1>1, HeapConstants DEF Class
<1> QED
  BY <1>2 DEF DelFromMemSet, Classes

LEMMA InSorted ==
  ASSUME NEW sets, Sorted(sets), NEW b
  PROVE  /\ b \in In(sets) <=> \E c \in Classes : b \in sets[c]
         /\ b \in In(sets) => b \in Block /\ End(b) <= HeapSize /\ b \in sets[Class(b)]
BY DEF Sorted, In

LEMMA AddSorted ==
  ASSUME NEW sets, Sorted(sets), NEW b \in Block, End(b) <= HeapSize
  PROVE  Sorted(AddToMemSet(sets, b)) /\ In(AddToMemSet(sets, b)) = In(sets) \cup {b}
<1>1. Class(b) \in Classes
  BY ClassOf
<1>2. /\ AddToMemSet(sets, b) \in [Classes -> SUBSET Block]
      /\ \A c \in Classes : AddToMemSet(sets, b)[c] = IF c = Class(b) THEN sets[c] \cup {b} ELSE sets[c]
  BY <1>1 DEF AddToMemSet, Sorted
<1> QED
  BY <1>1, <1>2 DEF Sorted, In

\* A block that is taken out of its set is in none.
LEMMA RemoveSorted ==
  ASSUME NEW sets, Sorted(sets), NEW c \in Classes, NEW b
  PROVE  /\ Sorted([sets EXCEPT ![c] = @ \ {b}])
         /\ b \in sets[c] => In([sets EXCEPT ![c] = @ \ {b}]) = In(sets) \ {b}
<1> DEFINE new == [sets EXCEPT ![c] = @ \ {b}]
<1>1. /\ new \in [Classes -> SUBSET Block]
      /\ \A d \in Classes : new[d] = IF d = c THEN sets[d] \ {b} ELSE sets[d]
  BY DEF Sorted
<1> HIDE DEF new
<1>2. Sorted(new)
  BY <1>1 DEF Sorted
<1>3. ASSUME b \in sets[c] PROVE In(new) = In(sets) \ {b}
  <2>1. \A d \in Classes : b \in sets[d] => d = c
    BY <1>3 DEF Sorted
  <2> QED
    BY <1>1, <2>1 DEF In
<1> QED
  BY <1>2, <1>3 DEF new

\* Alloc: a block is cut in two, the second perhaps of no length.
LEMMA CutTiles ==
  ASSUME NEW S \in SUBSET Block, \A b \in S : End(b) <= HeapSize, Tiles(S),
         NEW f \in S, NEW size \in Nat, 0 < size, size <= f[2]
  PROVE  /\ <<f[1], size>> \in Block /\ <<f[1] + size, f[2] - size>> \in Block
         /\ End(<<f[1], size>>) <= HeapSize /\ End(<<f[1] + size, f[2] - size>>) <= HeapSize
         /\ Tiles((S \ {f}) \cup {<<f[1], size>>, <<f[1] + size, f[2] - size>>})
         /\ <<f[1], size>> \notin S \ {f}
         /\ \A b \in S : b[2] > 0 /\ b # f => b # <<f[1] + size, f[2] - size>>
         /\ <<f[1], size>> # <<f[1] + size, f[2] - size>>
<1> DEFINE l == <<f[1], size>>  x == <<f[1] + size, f[2] - size>>
           T == (S \ {f}) \cup {l, x}
<1>1. /\ f[1] \in Nat /\ f[2] \in Nat /\ End(f) = f[1] + f[2] /\ End(f) <= HeapSize
      /\ f[1] \in Bytes
  BY BlockFields, HeapConstants DEF Bytes
<1>2. /\ l \in Block /\ End(l) = f[1] + size /\ l[1] = f[1] /\ l[2] = size
      /\ x \in Block /\ End(x) = End(f) /\ x[1] = f[1] + size /\ x[2] = f[2] - size
  <2>1. /\ f[1] + size <= HeapSize /\ f[1] + size \in Nat /\ f[2] - size \in Nat
        /\ (f[1] + size) + (f[2] - size) = f[1] + f[2]
        /\ (f[1] + size) + (f[2] - size) <= HeapSize
    BY <1>1, Parts, HeapConstants
  <2>2. /\ l \in Block /\ End(l) = f[1] + size /\ l[1] = f[1] /\ l[2] = size
    BY <1>1, <2>1, MakeBlock
  <2>3. x \in Block /\ End(x) = (f[1] + size) + (f[2] - size) /\ x[1] = f[1] + size /\ x[2] = f[2] - size
    BY <1>1, <2>1, MakeBlock
  <2> QED
    BY <1>1, <2>1, <2>2, <2>3
<1> HIDE DEF l, x
<1>3. \A y \in Bytes : /\ Covers(f, y) <=> Covers(l, y) \/ Covers(x, y)
                       /\ ~(Covers(l, y) /\ Covers(x, y))
  BY <1>1, <1>2 DEF Covers, Bytes
<1>4. \A b \in S : b[1] \in Nat /\ b[2] \in Nat /\ End(b) = b[1] + b[2] /\ End(b) <= HeapSize
  BY BlockFields
<1>5. Covers(f, f[1]) /\ Covers(l, f[1])
  BY <1>1, <1>2 DEF Covers
<1>6. l \notin S \ {f}
  BY <1>1, <1>5 DEF Tiles
<1>7. ASSUME NEW b \in S, b[2] > 0, b # f PROVE b # x
  <2>1. b[1] \in Bytes /\ Covers(b, b[1])
    BY <1>4, <1>7, HeapConstants DEF Covers, Bytes
  <2>2. ~Covers(f, b[1])
    BY <2>1, <1>7 DEF Tiles
  <2> QED
    BY <2>1, <2>2, <1>3
<1>8. l # x
  BY <1>1, <1>2
<1>9. ASSUME NEW y \in Bytes PROVE \E b \in T : Covers(b, y)
  <2>1. PICK b \in S : Covers(b, y)
    BY DEF Tiles
  <2> QED
    BY <2>1, <1>3
<1>10. ASSUME NEW b \in T, NEW d \in T, NEW y \in Bytes, Covers(b, y), Covers(d, y)
       PROVE  b = d
  <2>1. \A e \in S \ {f} : Covers(e, y) => ~Covers(f, y)
    BY DEF Tiles
  <2>2. CASE b \in S \ {f} /\ d \in S \ {f}
    BY <2>2, <1>10 DEF Tiles
  <2>3. CASE b \in S \ {f} /\ d \in {l, x}
    BY <2>1, <2>3, <1>3, <1>10
  <2>4. CASE d \in S \ {f} /\ b \in {l, x}
    BY <2>1, <2>4, <1>3, <1>10
  <2>5. CASE b \in {l, x} /\ d \in {l, x}
    BY <2>5, <1>3, <1>10
  <2> QED
    BY <2>2, <2>3, <2>4, <2>5
<1>11. Tiles(T)
  BY <1>9, <1>10 DEF Tiles
<1>12. End(l) <= HeapSize /\ End(x) <= HeapSize
  BY <1>1, <1>2, HeapConstants
<1>13. \A b \in S : b[2] > 0 /\ b # f => b # x
  BY <1>7
<1> QED
  BY <1>2, <1>6, <1>8, <1>11, <1>12, <1>13, Zenon DEF l, x

\* mergeIteration: two blocks that meet become one.
LEMMA JoinTiles ==
  ASSUME NEW S \in SUBSET Block, \A b \in S : End(b) <= HeapSize, Tiles(S),
         NEW b \in S, NEW d \in S, b # d, d[1] = b[1] + b[2]
  PROVE  /\ <<b[1], b[2] + d[2]>> \in Block /\ End(<<b[1], b[2] + d[2]>>) <= HeapSize
         /\ Tiles((S \ {b, d}) \cup {<<b[1], b[2] + d[2]>>})
<1> DEFINE n == <<b[1], b[2] + d[2]>>  T == (S \ {b, d}) \cup {n}
<1>1. /\ b[1] \in Nat /\ b[2] \in Nat /\ End(b) = b[1] + b[2]
      /\ d[1] \in Nat /\ d[2] \in Nat /\ End(d) = d[1] + d[2] /\ End(d) <= HeapSize
  BY BlockFields
<1>2. n \in Block /\ n[1] = b[1] /\ n[2] = b[2] + d[2] /\ End(n) = End(d)
  <2>1. b[2] + d[2] \in Nat /\ b[1] + (b[2] + d[2]) = End(d)
    BY <1>1, Sum
  <2> QED
    BY <1>1, <2>1, MakeBlock
<1> HIDE DEF n
<1>3. ASSUME NEW y \in Bytes PROVE Covers(n, y) <=> Covers(b, y) \/ Covers(d, y)
  <2>1. y \in Int
    BY DEF Bytes
  <2> QED
    BY <1>1, <1>2, <2>1 DEF Covers
<1>4. ASSUME NEW y \in Bytes PROVE \E e \in T : Covers(e, y)
  <2>1. PICK e \in S : Covers(e, y)
    BY DEF Tiles
  <2> QED
    BY <2>1, <1>3
<1>5. ASSUME NEW e \in T, NEW g \in T, NEW y \in Bytes, Covers(e, y), Covers(g, y)
      PROVE  e = g
  <2>1. \A h \in S \ {b, d} : Covers(h, y) => ~Covers(n, y)
    BY <1>3 DEF Tiles
  <2>2. CASE e \in S \ {b, d} /\ g \in S \ {b, d}
    BY <2>2, <1>5 DEF Tiles
  <2> QED
    BY <2>1, <2>2, <1>5
<1>6. Tiles(T)
  BY <1>4, <1>5 DEF Tiles
<1> QED
  BY <1>1, <1>2, <1>6 DEF n

-----------------------------------------------------------------------------
(* The invariant of the heap.                                              *)
(*                                                                         *)
(* That every byte is in one block is not enough to go on: the blocks must *)
(* be in the sets that their sizes say, for they are looked for there, no  *)
(* block may be free and in use at once, and the block that Free is        *)
(* merging must be one of the free ones, while the block at ptr, which it  *)
(* grew from, has left the live ones and not yet allocatedMemSet.          *)

\* Blocks in use: none is empty, and no two begin at one address.
Used == /\ allocated \subseteq Block
        /\ \A b \in allocated : b[2] > 0 /\ End(b) <= HeapSize
        /\ \A b, d \in allocated : b[1] = d[1] => b = d

\* The block of Free.
Merging == /\ mergeBlock \in Block
           /\ pc = "merging" => mergeBlock # NoBlock
           /\ pc \in {"creating", "ready", "freeing", "destroyed"} => mergeBlock = NoBlock
           /\ mergeBlock # NoBlock => /\ mergeBlock[2] > 0 /\ mergeBlock \in FreeBlocks
                                      /\ \E b \in allocated : b[1] = ptr

Partition == Live \cap FreeBlocks = {} /\ Tiles(Live \cup FreeBlocks)

\* Pages: a block in use counts in every page it touches.
Users(p) == {b \in Live : p \in PagesAdded(b)}
Paged == /\ pageTable \in [Pages -> 0 .. MaxUsers]
         /\ \A p \in Pages : pageTable[p] >= Cardinality(Users(p))

HeapInv == TypeOK /\ Sorted(memSet) /\ Used /\ Merging /\ Partition /\ Paged

LEMMA FirstOfOne ==
  ASSUME NEW b, NEW S, b \in S, \A d \in S : d = b
  PROVE  First(S) = {b}
BY DEF First

\* The block at ptr, if there is one.
LEMMA AtPtr ==
  ASSUME Used, NEW b \in allocated, b[1] = ptr
  PROVE  First({d \in allocated : d[1] = ptr}) = {b}
<1> DEFINE S == {d \in allocated : d[1] = ptr}
<1>1. b \in S /\ \A d \in S : d = b
  BY DEF Used
<1> QED
  BY <1>1, FirstOfOne

LEMMA NothingAtPtr ==
  ASSUME \A b \in allocated : b[1] # ptr
  PROVE  First({d \in allocated : d[1] = ptr}) = {}
BY DEF First

LEMMA LiveBlocks ==
  ASSUME Used
  PROVE  /\ mergeBlock = NoBlock => Live = allocated
         /\ \A b \in allocated : mergeBlock # NoBlock /\ b[1] = ptr => Live = allocated \ {b}
         /\ Live \subseteq allocated
BY AtPtr DEF Live, Taken

LEMMA UsersFinite ==
  ASSUME Used, NEW p
  PROVE  IsFiniteSet(Users(p)) /\ IsFiniteSet(allocated)
<1>1. IsFiniteSet(0 .. HeapSize)
  BY HeapConstants, FS_Interval
<1>2. IsFiniteSet(Block)
  BY <1>1, FS_Product DEF Block
<1>3. IsFiniteSet(allocated)
  BY <1>2, FS_Subset DEF Used
<1>4. Users(p) \subseteq allocated
  BY LiveBlocks DEF Users
<1> QED
  BY <1>3, <1>4, FS_Subset

LEMMA HeapInit == Init => HeapInv
<1> SUFFICES ASSUME Init PROVE HeapInv
  OBVIOUS
<1> DEFINE whole == <<0, HeapSize>>  none == [c \in Classes |-> {}]
<1>1. /\ whole \in Block /\ End(whole) = HeapSize /\ whole[1] = 0 /\ whole[2] = HeapSize
      /\ NoBlock \in Block
  <2>1. whole \in Block /\ End(whole) = 0 + HeapSize /\ whole[1] = 0 /\ whole[2] = HeapSize
    BY MakeBlock, HeapConstants
  <2>2. <<0, 0>> \in Block
    BY MakeBlock, HeapConstants
  <2> QED
    BY <2>1, <2>2, HeapConstants DEF NoBlock
<1>2. Sorted(none) /\ In(none) = {}
  BY DEF Sorted, In
<1>3. memSet = AddToMemSet(none, whole)
  BY DEF Init
<1>4. Sorted(memSet) /\ FreeBlocks = {whole}
  <2>1. End(whole) <= HeapSize
    BY <1>1, HeapConstants
  <2>2. Sorted(AddToMemSet(none, whole)) /\ In(AddToMemSet(none, whole)) = In(none) \cup {whole}
    BY <1>1, <1>2, <2>1, AddSorted
  <2> QED
    BY <1>2, <1>3, <2>2 DEF In, FreeBlocks
<1>5. allocated = {} /\ mergeBlock = NoBlock /\ pc = "creating" /\ ptr = 0
  BY DEF Init
<1>6. Used /\ Live = {}
  BY <1>5 DEF Used, Live
<1>7. \A x \in Bytes : Covers(whole, x)
  BY <1>1, HeapConstants DEF Covers, Bytes
<1>8. Partition
  BY <1>4, <1>6, <1>7 DEF Partition, Tiles
<1>9. Paged
  <2>1. pageTable = [p \in Pages |-> 0] /\ 0 \in 0 .. MaxUsers
    BY HeapConstants DEF Init
  <2>2. \A p : Users(p) = {}
    BY <1>6 DEF Users
  <2> QED
    BY <2>1, <2>2, FS_EmptySet DEF Paged
<1>10. Merging
  BY <1>1, <1>5 DEF Merging
<1>11. TypeOK
  BY <1>1, <1>4, <1>5, <1>9, HeapConstants DEF TypeOK, Sorted, Paged
<1> QED
  BY <1>4, <1>6, <1>8, <1>9, <1>10, <1>11 DEF HeapInv

-----------------------------------------------------------------------------
(* Create and Alloc. *)

LEMMA AllBlocks ==
  ASSUME HeapInv
  PROVE  /\ Live \cup FreeBlocks \in SUBSET Block
         /\ \A b \in Live \cup FreeBlocks : End(b) <= HeapSize
         /\ \A b \in Live : b[2] > 0
<1>1. Live \subseteq allocated /\ Used /\ Sorted(memSet)
  BY LiveBlocks DEF HeapInv
<1>2. \A b \in FreeBlocks : b \in Block /\ End(b) <= HeapSize
  BY <1>1, InSorted DEF In, FreeBlocks
<1> QED
  BY <1>1, <1>2 DEF Used

\* The page table after a block is given out: one user more in each of its pages.
LEMMA PagesGiven ==
  ASSUME HeapInv, NEW f \in Block, End(f) <= HeapSize, NEW l \in Block, NEW x \in Block,
         l[1] = f[1], x[1] = f[1] + l[2], End(x) = End(f), End(l) = x[1],
         \A p \in Pages : AddToPageTable(pageTable, f)[p] <= MaxUsers,
         pageTable' = DelFromPageTable(AddToPageTable(pageTable, f), x)
  PROVE  /\ pageTable' \in [Pages -> 0 .. MaxUsers]
         /\ \A p \in Pages : pageTable'[p] = IF p \in PagesAdded(l) THEN pageTable[p] + 1 ELSE pageTable[p]
<1> DEFINE table == AddToPageTable(pageTable, f)
<1>1. pageTable \in [Pages -> 0 .. MaxUsers] /\ MaxUsers \in Nat
  BY HeapConstants DEF HeapInv, Paged
<1>2. \A p \in Pages : table[p] = IF p \in PagesAdded(f) THEN pageTable[p] + 1 ELSE pageTable[p]
  BY DEF AddToPageTable
<1>3. /\ pageTable' = [p \in Pages |-> IF p \in PagesRemoved(x) THEN table[p] - 1 ELSE table[p]]
      /\ \A p \in Pages : table[p] <= MaxUsers
  BY DEF DelFromPageTable
<1> HIDE DEF table
<1>4. ASSUME NEW p \in Pages
      PROVE  /\ pageTable'[p] = IF p \in PagesAdded(l) THEN pageTable[p] + 1 ELSE pageTable[p]
             /\ pageTable'[p] \in 0 .. MaxUsers
  <2>1. p \in Nat /\ PageSize * p \in Nat /\ PageSize \in Nat /\ PageSize > 0
    BY HeapConstants DEF Pages
  <2>2. /\ p \in PagesAdded(f) <=> f[1] < PageSize * p + PageSize /\ PageSize * p < End(f)
        /\ p \in PagesAdded(l) <=> l[1] < PageSize * p + PageSize /\ PageSize * p < End(l)
        /\ p \in PagesRemoved(x) <=> x[1] <= PageSize * p /\ PageSize * p < End(x)
    BY <2>1, PagesOf
  <2>3. /\ f[1] \in Nat /\ x[1] \in Nat /\ End(f) \in Nat /\ l[1] = f[1] /\ End(l) = x[1]
        /\ End(x) = End(f) /\ f[1] <= x[1] /\ x[1] <= End(f)
    <3>1. f[1] \in Nat /\ l[2] \in Nat /\ x[2] \in Nat /\ x[1] \in Nat /\ End(x) = x[1] + x[2]
          /\ End(f) \in Nat
      BY BlockFields
    <3> QED
      BY <3>1
  <2>4. /\ p \in PagesRemoved(x) => p \in PagesAdded(f) /\ p \notin PagesAdded(l)
        /\ p \in PagesAdded(l) => p \in PagesAdded(f)
        /\ p \in PagesAdded(f) => p \in PagesAdded(l) \/ p \in PagesRemoved(x)
    BY <2>1, <2>2, <2>3
  <2>5. pageTable[p] \in 0 .. MaxUsers /\ pageTable[p] \in Nat
    BY <1>1
  <2>6. pageTable'[p] = IF p \in PagesAdded(l) THEN pageTable[p] + 1 ELSE pageTable[p]
    BY <1>2, <1>3, <2>4, <2>5
  <2>7. p \in PagesAdded(l) => table[p] = pageTable[p] + 1
    BY <1>2, <2>4
  <2> QED
    BY <1>1, <1>3, <2>5, <2>6, <2>7
<1> QED
  BY <1>3, <1>4

LEMMA AllocateHolds ==
  ASSUME HeapInv, NEW size \in Nat, size > 0, Allocate(size), mergeBlock = NoBlock,
         pc' = "ready", UNCHANGED <<ptr, mergeBlock>>
  PROVE  HeapInv' /\ Heap!Next
<1> DEFINE taken(f) == [c \in Classes |-> memSet[c] \ {f}]
           x(f) == <<f[1] + size, f[2] - size>>
           l(f) == <<f[1], size>>
<1>1. PICK f : /\ f \in FreeBlocks /\ f[2] >= size
               /\ \A p \in Pages : AddToPageTable(pageTable, f)[p] <= MaxUsers
               /\ pageTable' = DelFromPageTable(AddToPageTable(pageTable, f), x(f))
               /\ memSet' = AddToMemSet(taken(f), x(f))
               /\ allocated' = allocated \cup {l(f)}
  <2>1. \A f \in GetMemFromSet(size) : f \in FreeBlocks /\ f[2] >= size
    <3>1. SearchedFor(size) \subseteq Classes
      BY DEF SearchedFor, Classes
    <3>2. \A f \in GetMemFromSet(size) : \E d \in SearchedFor(size) : f \in First(Fitting(d, size))
      BY DEF GetMemFromSet
    <3> QED
      BY <3>1, <3>2 DEF First, Fitting, FreeBlocks
  <2> QED
    BY <2>1, Zenon DEF Allocate
<1> DEFINE X == x(f)  L == l(f)  S == Live \cup FreeBlocks  Rest == taken(f)
<1>2. /\ f \in Block /\ End(f) <= HeapSize /\ f[1] \in Nat /\ f[2] \in Nat
      /\ S \in SUBSET Block /\ (\A b \in S : End(b) <= HeapSize) /\ f \in S /\ Tiles(S)
      /\ f \notin Live /\ (\A b \in Live : b[2] > 0) /\ Live = allocated
  BY <1>1, AllBlocks, LiveBlocks, BlockFields DEF HeapInv, Partition
<1> HIDE DEF S
<1>3. /\ L \in Block /\ X \in Block /\ End(L) <= HeapSize /\ End(X) <= HeapSize
      /\ Tiles((S \ {f}) \cup {L, X}) /\ L \notin S \ {f}
      /\ (\A b \in S : b[2] > 0 /\ b # f => b # X) /\ L # X
  BY <1>1, <1>2, CutTiles
<1>4. /\ L[1] = f[1] /\ L[2] = size /\ X[1] = f[1] + size /\ X[2] = f[2] - size
      /\ End(L) = X[1] /\ End(X) = End(f) /\ L # NoBlock /\ L[2] > 0
  <2>1. L[1] = f[1] /\ L[2] = size /\ X[1] = f[1] + size /\ X[2] = f[2] - size
    OBVIOUS
  <2>2. End(L) = L[1] + L[2] /\ End(X) = X[1] + X[2] /\ End(f) = f[1] + f[2]
    BY DEF End
  <2>3. (f[1] + size) + (f[2] - size) = f[1] + f[2]
    BY <1>2
  <2>4. L # NoBlock
    BY <2>1 DEF NoBlock
  <2> QED
    BY <2>1, <2>2, <2>3, <2>4
<1>5. Sorted(Rest) /\ In(Rest) = FreeBlocks \ {f}
  BY DEF HeapInv, Sorted, In, FreeBlocks
<1> HIDE DEF L, X, Rest
<1>6. Sorted(memSet') /\ FreeBlocks' = (FreeBlocks \ {f}) \cup {X}
  <2>1. memSet' = AddToMemSet(Rest, X)
    BY <1>1 DEF Rest, X
  <2>2. Sorted(memSet') /\ In(memSet') = (FreeBlocks \ {f}) \cup {X}
    BY <1>3, <1>5, <2>1, AddSorted
  <2> QED
    BY <2>2 DEF In, FreeBlocks
<1>7. allocated' = allocated \cup {L} /\ L \notin allocated
  BY <1>1, <1>2, <1>3 DEF L, S
<1>8. Used'
  <2>1. ASSUME NEW b \in allocated PROVE b[1] # L[1]
    <3>1. b \in S /\ b \in Block /\ b[2] > 0 /\ b # f /\ End(b) <= HeapSize
      BY <1>2 DEF S
    <3>2. b[1] \in Nat /\ b[2] \in Nat /\ End(b) = b[1] + b[2] /\ b[1] \in Bytes
      BY <3>1, BlockFields, HeapConstants DEF Bytes
    <3>3. Covers(b, b[1])
      BY <3>1, <3>2 DEF Covers
    <3>4. b[1] = f[1] => Covers(f, b[1])
      BY <1>1, <1>2, BlockFields DEF Covers
    <3> QED
      BY <1>2, <1>4, <3>1, <3>2, <3>3, <3>4 DEF Tiles
  <2>2. Used
    BY DEF HeapInv
  <2> QED
    BY <1>3, <1>4, <1>7, <2>1, <2>2 DEF Used
<1>9. Live' = Live \cup {L}
  <2>1. mergeBlock' = NoBlock
    OBVIOUS
  <2>2. Live' = allocated'
    BY <2>1 DEF Live, Taken
  <2> QED
    BY <1>2, <1>7, <2>2
<1>10. Partition'
  <2>1. Live' \cup FreeBlocks' = (S \ {f}) \cup {L, X}
    BY <1>2, <1>6, <1>9 DEF S
  <2>2. Live \cap FreeBlocks = {}
    BY DEF HeapInv, Partition
  <2>3. Live' \cap FreeBlocks' = {}
    BY <1>2, <1>3, <1>6, <1>9, <2>2 DEF S
  <2>4. Tiles(Live' \cup FreeBlocks')
    BY <1>3, <2>1
  <2> QED
    BY <2>3, <2>4 DEF Partition
<1>11. Paged'
  <2>1. /\ pageTable' \in [Pages -> 0 .. MaxUsers]
        /\ \A p \in Pages : pageTable'[p] = IF p \in PagesAdded(L) THEN pageTable[p] + 1 ELSE pageTable[p]
    <3>1. pageTable' = DelFromPageTable(AddToPageTable(pageTable, f), X)
      BY <1>1 DEF X
    <3> QED
      BY <1>1, <1>2, <1>3, <1>4, <3>1, PagesGiven
  <2>2. ASSUME NEW p \in Pages PROVE pageTable'[p] >= Cardinality(Users(p)')
    <3>1. /\ IsFiniteSet(Users(p)) /\ Cardinality(Users(p)) \in Nat /\ L \notin Users(p)
          /\ pageTable[p] >= Cardinality(Users(p)) /\ pageTable[p] \in Nat
      <4>1. IsFiniteSet(Users(p))
        BY UsersFinite DEF HeapInv
      <4>2. Cardinality(Users(p)) \in Nat
        BY <4>1, FS_CardinalityType
      <4>3. pageTable[p] \in 0 .. MaxUsers /\ pageTable[p] >= Cardinality(Users(p))
        BY DEF HeapInv, Paged
      <4>4. L \notin Users(p)
        BY <1>2, <1>7 DEF Users
      <4> QED
        BY <4>1, <4>2, <4>3, <4>4
    <3>2. Users(p)' = IF p \in PagesAdded(L) THEN Users(p) \cup {L} ELSE Users(p)
      BY <1>9 DEF Users
    <3>3. Cardinality(Users(p) \cup {L}) = Cardinality(Users(p)) + 1
      BY <3>1, FS_AddElement
    <3> QED
      BY <2>1, <3>1, <3>2, <3>3
  <2> QED
    BY <2>1, <2>2 DEF Paged
<1>12. Merging'
  BY DEF HeapInv, Merging
<1>13. TypeOK'
  <2>1. memSet' \in [Classes -> SUBSET Block] /\ allocated' \subseteq Block
    BY <1>6, <1>8 DEF Sorted, Used
  <2>2. pageTable' \in [Pages -> 0 .. MaxUsers]
    BY <1>11 DEF Paged
  <2> QED
    BY <2>1, <2>2 DEF HeapInv, TypeOK
<1>14. Heap!Next
  <2>1. L \in Block /\ L[2] > 0 /\ L[1] + L[2] <= HeapSize /\ L = <<L[1], L[2]>>
    BY <1>3, <1>4, BlockFields
  <2>2. ASSUME NEW b \in Live PROVE Heap!Disjoint(L, b)
    <3>1. b \in S /\ b \in Block /\ b[2] > 0 /\ End(b) <= HeapSize /\ b # L /\ b # f
      BY <1>2, <1>7 DEF S
    <3>2. /\ b[1] \in Nat /\ b[2] \in Nat /\ End(b) = b[1] + b[2] /\ b[1] \in Bytes
          /\ L[1] \in Nat /\ L[2] \in Nat /\ End(L) = L[1] + L[2] /\ L[1] \in Bytes
      BY <1>3, <2>1, <3>1, BlockFields, HeapConstants DEF Bytes
    <3>3. b \in (S \ {f}) \cup {L, X}
      BY <3>1
    <3>4. \A y \in Bytes : ~(Covers(b, y) /\ Covers(L, y))
      BY <1>3, <3>1, <3>3 DEF Tiles
    <3> QED
      BY <2>1, <3>1, <3>2, <3>4 DEF Covers, Heap!Disjoint
  <2>3. Heap!Alloc(<<L[1], L[2]>>)
    BY <1>9, <2>1, <2>2 DEF Heap!Alloc
  <2>4. L[1] \in 0 .. HeapSize /\ L[2] \in 1 .. HeapSize
    BY <2>1, <1>3, BlockFields, HeapConstants
  <2> QED
    BY <2>3, <2>4 DEF Heap!Next
<1> QED
  BY <1>6, <1>8, <1>10, <1>11, <1>12, <1>13, <1>14 DEF HeapInv

-----------------------------------------------------------------------------
(* Free. *)

\* Steps of the control alone.
LEMMA Waits ==
  ASSUME HeapInv, UNCHANGED <<memSet, allocated, pageTable, mergeBlock>>,
         ptr' \in 0 .. HeapSize, ptr' = ptr \/ mergeBlock = NoBlock,
         pc' \in {"creating", "ready", "freeing", "merging", "destroyed", "exit"},
         pc' = "merging" => mergeBlock # NoBlock,
         pc' \in {"creating", "ready", "freeing", "destroyed"} => mergeBlock = NoBlock
  PROVE  HeapInv' /\ Live' = Live
<1>1. Live' = Live /\ FreeBlocks' = FreeBlocks
  BY DEF Live, Taken, FreeBlocks
<1>2. Partition' /\ Used' /\ Sorted(memSet')
  BY <1>1 DEF HeapInv, Partition, Used
<1>3. Paged'
  BY <1>1 DEF HeapInv, Paged, Users
<1>4. Merging'
  BY <1>1 DEF HeapInv, Merging
<1>5. TypeOK'
  BY DEF HeapInv, TypeOK
<1> QED
  BY <1>1, <1>2, <1>3, <1>4, <1>5 DEF HeapInv

LEMMA FreeBlockHolds ==
  ASSUME HeapInv, FreeBlock
  PROVE  HeapInv' /\ Heap!Next
<1>1. PICK b : /\ b \in First({d \in allocated : d[1] = ptr})
               /\ memSet' = AddToMemSet(memSet, b)
               /\ pageTable' = DelFromPageTable(pageTable, b)
               /\ mergeBlock' = b
  BY DEF FreeBlock
<1>2. pc = "freeing" /\ pc' = "merging" /\ allocated' = allocated /\ ptr' = ptr
  BY DEF FreeBlock
<1>3. b \in allocated /\ b[1] = ptr
  BY <1>1 DEF First
<1>4. /\ Used /\ Sorted(memSet) /\ mergeBlock = NoBlock /\ Live = allocated
      /\ b \in Block /\ b[2] > 0 /\ End(b) <= HeapSize
  BY <1>2, <1>3, LiveBlocks DEF HeapInv, Merging, Used
<1>5. b # NoBlock
  BY <1>4 DEF NoBlock
<1>6. Used'
  BY <1>2, <1>4 DEF Used
<1>7. Live' = Live \ {b}
  <2>1. mergeBlock' # NoBlock /\ b \in allocated' /\ b[1] = ptr'
    BY <1>1, <1>2, <1>3, <1>5
  <2>2. First({d \in allocated' : d[1] = ptr'}) = {b}
    BY <1>2, <1>3, <1>4, AtPtr
  <2> QED
    BY <1>2, <1>4, <2>1, <2>2 DEF Live, Taken
<1>8. Sorted(memSet') /\ FreeBlocks' = FreeBlocks \cup {b}
  <2>1. Sorted(AddToMemSet(memSet, b)) /\ In(AddToMemSet(memSet, b)) = In(memSet) \cup {b}
    BY <1>4, AddSorted
  <2> QED
    BY <1>1, <2>1 DEF In, FreeBlocks
<1>9. Partition'
  <2>1. Live' \cup FreeBlocks' = Live \cup FreeBlocks
    BY <1>3, <1>4, <1>7, <1>8
  <2>2. Live' \cap FreeBlocks' = {}
    BY <1>7, <1>8 DEF HeapInv, Partition
  <2>3. Tiles(Live' \cup FreeBlocks')
    BY <2>1 DEF HeapInv, Partition
  <2> QED
    BY <2>2, <2>3 DEF Partition
<1>10. Paged'
  <2>1. ASSUME NEW p \in Pages
        PROVE  pageTable'[p] \in 0 .. MaxUsers /\ pageTable'[p] >= Cardinality(Users(p)')
    <3>1. p \in Nat /\ PageSize * p \in Nat /\ PageSize \in Nat /\ PageSize > 0
      BY HeapConstants DEF Pages
    <3>2. b[1] \in Nat /\ End(b) \in Nat
      BY <1>4, BlockFields
    <3>3. p \in PagesRemoved(b) => p \in PagesAdded(b)
      BY <1>4, <3>1, <3>2, PagesOf
    <3>4. IsFiniteSet(Users(p)) /\ Cardinality(Users(p)) \in Nat
      BY <1>4, UsersFinite, FS_CardinalityType
    <3>5. pageTable[p] \in 0 .. MaxUsers /\ pageTable[p] >= Cardinality(Users(p))
      BY DEF HeapInv, Paged
    <3>6. pageTable'[p] = IF p \in PagesRemoved(b) THEN pageTable[p] - 1 ELSE pageTable[p]
      BY <1>1 DEF DelFromPageTable
    <3>7. Users(p)' = Users(p) \ {b}
      BY <1>7 DEF Users
    <3>8. b \in Users(p) <=> p \in PagesAdded(b)
      BY <1>3, <1>4 DEF Users
    <3>9. Cardinality(Users(p) \ {b}) = IF b \in Users(p) THEN Cardinality(Users(p)) - 1 ELSE Cardinality(Users(p))
      BY <3>4, FS_RemoveElement
    <3>10. CASE p \in PagesAdded(b)
      <4>1. Cardinality(Users(p)) >= 1 /\ Cardinality(Users(p)') = Cardinality(Users(p)) - 1
        <5>1. Cardinality(Users(p)) # 0
          BY <3>4, <3>8, <3>10, FS_EmptySet
        <5> QED
          BY <3>4, <3>7, <3>8, <3>9, <3>10, <5>1
      <4> QED
        BY <3>4, <3>5, <3>6, <4>1, HeapConstants
    <3>11. CASE p \notin PagesAdded(b)
      BY <3>3, <3>4, <3>5, <3>6, <3>7, <3>8, <3>9, <3>11
    <3> QED
      BY <3>10, <3>11
  <2>2. pageTable' \in [Pages -> 0 .. MaxUsers]
    <3>1. pageTable' = [p \in Pages |-> IF p \in PagesRemoved(b) THEN pageTable[p] - 1 ELSE pageTable[p]]
      BY <1>1 DEF DelFromPageTable
    <3> QED
      BY <2>1, <3>1
  <2> QED
    BY <2>1, <2>2 DEF Paged
<1>11. Merging'
  BY <1>1, <1>2, <1>3, <1>4, <1>5, <1>8 DEF Merging
<1>12. TypeOK'
  <2>1. memSet' \in [Classes -> SUBSET Block] /\ pageTable' \in [Pages -> 0 .. MaxUsers]
    BY <1>8, <1>10 DEF Sorted, Paged
  <2> QED
    BY <1>1, <1>2, <1>4, <2>1 DEF HeapInv, TypeOK
<1>13. Heap!Next
  BY <1>3, <1>4, <1>7 DEF Heap!Next, Heap!Free
<1> QED
  BY <1>6, <1>8, <1>9, <1>10, <1>11, <1>12, <1>13 DEF HeapInv

LEMMA MergeHolds ==
  ASSUME HeapInv, MergeIteration
  PROVE  HeapInv' /\ Live' = Live
<1> DEFINE m == mergeBlock
<1>1. PICK c, b :
         /\ c \in Classes /\ b \in Neighbours(memSet[c])
         /\ memSet' = AddToMemSet(DelFromMemSet([memSet EXCEPT ![c] = @ \ {b}], m),
                                  MergeBlocks(b, LeftOf(memSet[c]) # {}))
         /\ mergeBlock' = MergeBlocks(b, LeftOf(memSet[c]) # {})
  BY DEF MergeIteration
<1>2. pc = "merging" /\ UNCHANGED <<allocated, pageTable, pc, ptr>>
  BY DEF MergeIteration
<1> DEFINE left == LeftOf(memSet[c]) # {}  n == MergeBlocks(b, left)
           S == Live \cup FreeBlocks
<1>3. /\ Used /\ Sorted(memSet) /\ m # NoBlock /\ m \in Block /\ m[2] > 0 /\ m \in FreeBlocks
      /\ Live \cap FreeBlocks = {} /\ Tiles(S)
  BY <1>2 DEF HeapInv, Merging, Partition
<1>4. /\ b \in memSet[c]
      /\ left => End(b) = m[1]
      /\ ~left => End(m) = b[1]
  <2>1. CASE left
    <3>1. b \in LeftOf(memSet[c])
      BY <1>1, <2>1 DEF Neighbours
    <3>2. b \in LowerBound(memSet[c]) /\ End(b) = m[1]
      BY <3>1 DEF LeftOf
    <3>3. b \in memSet[c]
      BY <3>2 DEF LowerBound, First, Last
    <3> QED
      BY <2>1, <3>2, <3>3
  <2>2. CASE ~left
    <3>1. b \in RightOf(memSet[c])
      BY <1>1, <2>2 DEF Neighbours
    <3>2. b \in UpperBound(memSet[c]) /\ End(m) = b[1]
      BY <3>1 DEF RightOf
    <3>3. b \in memSet[c]
      BY <3>2 DEF UpperBound, First, Last
    <3> QED
      BY <2>2, <3>2, <3>3
  <2> QED
    BY <2>1, <2>2
<1> HIDE DEF left
<1>5. /\ b \in FreeBlocks /\ b \in Block /\ End(b) <= HeapSize /\ End(m) <= HeapSize
      /\ m \in memSet[Class(m)]
  BY <1>1, <1>3, <1>4, InSorted DEF In, FreeBlocks
<1>6. /\ b[1] \in Nat /\ b[2] \in Nat /\ End(b) = b[1] + b[2]
      /\ m[1] \in Nat /\ m[2] \in Nat /\ End(m) = m[1] + m[2]
  BY <1>3, <1>5, BlockFields
<1>7. b # m
  BY <1>3, <1>4, <1>6
<1>8. S \in SUBSET Block /\ (\A d \in S : End(d) <= HeapSize) /\ b \in S /\ m \in S
  BY <1>3, <1>5, AllBlocks
<1> HIDE DEF S
<1>9. n \in Block /\ End(n) <= HeapSize /\ Tiles((S \ {b, m}) \cup {n})
  <2>1. CASE left
    <3>1. n = <<b[1], b[2] + m[2]>>
      BY <2>1 DEF MergeBlocks
    <3>2. m[1] = b[1] + b[2]
      BY <1>4, <1>6, <2>1
    <3> HIDE DEF n, m
    <3> QED
      BY <1>3, <1>7, <1>8, <3>1, <3>2, JoinTiles
  <2>2. CASE ~left
    <3>1. n = <<m[1], m[2] + b[2]>>
      BY <1>6, <2>2 DEF MergeBlocks
    <3>2. b[1] = m[1] + m[2]
      BY <1>4, <1>6, <2>2
    <3>3. (S \ {m, b}) = (S \ {b, m})
      OBVIOUS
    <3> HIDE DEF n, m
    <3> QED
      BY <1>3, <1>7, <1>8, <3>1, <3>2, <3>3, JoinTiles
  <2> QED
    BY <2>1, <2>2
<1>10. /\ n[2] \in Nat /\ n[2] > 0 /\ n # NoBlock
       /\ Covers(n, m[1]) /\ Covers(m, m[1]) /\ m[1] \in Bytes
  <2>1. n[1] = (IF left THEN b[1] ELSE m[1]) /\ n[2] = b[2] + m[2]
    BY DEF MergeBlocks
  <2>2. n[2] \in Nat /\ n[2] > 0 /\ End(n) = n[1] + n[2]
    BY <1>3, <1>6, <1>9, <2>1, BlockFields
  <2>3. n # NoBlock
    BY <2>2 DEF NoBlock
  <2>4. n[1] <= m[1] /\ m[1] < End(n)
    BY <1>3, <1>4, <1>6, <2>1, <2>2
  <2>5. m[1] < End(m) /\ m[1] \in Bytes
    BY <1>3, <1>5, <1>6, HeapConstants DEF Bytes
  <2> QED
    BY <1>6, <2>2, <2>3, <2>4, <2>5 DEF Covers
<1>11. Sorted(memSet') /\ FreeBlocks' = (FreeBlocks \ {b, m}) \cup {n}
  <2> DEFINE erased == [memSet EXCEPT ![c] = @ \ {b}]
             gone == [erased EXCEPT ![Class(m)] = @ \ {m}]
  <2>1. Sorted(erased) /\ In(erased) = In(memSet) \ {b}
    BY <1>1, <1>3, <1>4, RemoveSorted
  <2>2. Class(m) \in Classes /\ DelFromMemSet(erased, m) = gone
    BY <1>3, <1>5, ClassOf
  <2>3. m \in erased[Class(m)]
    BY <1>1, <1>3, <1>5, <1>7, <2>2 DEF Sorted
  <2> HIDE DEF erased
  <2>4. Sorted(gone) /\ In(gone) = In(erased) \ {m}
    BY <2>1, <2>2, <2>3, RemoveSorted
  <2>5. memSet' = AddToMemSet(gone, n)
    BY <1>1, <2>2 DEF erased, left
  <2> HIDE DEF gone, n
  <2>6. Sorted(memSet') /\ In(memSet') = In(gone) \cup {n}
    BY <1>9, <2>4, <2>5, AddSorted
  <2> QED
    BY <2>1, <2>4, <2>6 DEF In, FreeBlocks
<1>12. mergeBlock' = n
  BY <1>1 DEF left
<1> HIDE DEF n
<1>13. Live' = Live
  BY <1>2, <1>3, <1>10, <1>12 DEF Live, Taken
<1>14. Partition'
  <2>1. Live' \cup FreeBlocks' = (S \ {b, m}) \cup {n}
    BY <1>3, <1>5, <1>11, <1>13 DEF S
  <2>2. n \notin Live
    BY <1>3, <1>8, <1>10 DEF Tiles, S
  <2>3. Live' \cap FreeBlocks' = {}
    BY <1>3, <1>11, <1>13, <2>2
  <2> QED
    BY <1>9, <2>1, <2>3 DEF Partition
<1>15. Paged'
  BY <1>2, <1>13 DEF HeapInv, Paged, Users
<1>16. Used'
  BY <1>2, <1>3 DEF Used
<1>17. Merging'
  BY <1>2, <1>9, <1>10, <1>11, <1>12 DEF HeapInv, Merging
<1>18. TypeOK'
  BY <1>2, <1>9, <1>11, <1>12 DEF HeapInv, TypeOK, Sorted
<1> QED
  BY <1>11, <1>13, <1>14, <1>15, <1>16, <1>17, <1>18 DEF HeapInv

LEMMA MergedHolds ==
  ASSUME HeapInv, Merged
  PROVE  HeapInv' /\ Live' = Live
<1>1. PICK b : b \in First({d \in allocated : d[1] = ptr}) /\ allocated' = allocated \ {b}
  BY DEF Merged
<1>2. /\ pc = "merging" /\ pc' = "freeing" /\ mergeBlock' = NoBlock
      /\ UNCHANGED <<memSet, pageTable, ptr>>
  BY DEF Merged
<1>3. b \in allocated /\ b[1] = ptr /\ Used /\ mergeBlock # NoBlock
  BY <1>1, <1>2 DEF HeapInv, Merging, First
<1>4. Live = allocated \ {b} /\ Live' = allocated'
  BY <1>2, <1>3, LiveBlocks DEF Live, Taken
<1>5. Live' = Live /\ FreeBlocks' = FreeBlocks
  BY <1>1, <1>2, <1>4 DEF FreeBlocks
<1>6. Used' /\ Partition' /\ Sorted(memSet')
  BY <1>1, <1>2, <1>5 DEF HeapInv, Partition, Used
<1>7. Paged'
  BY <1>2, <1>5 DEF HeapInv, Paged, Users
<1>8. NoBlock \in Block
  BY HeapConstants DEF NoBlock, Block
<1>9. Merging' /\ TypeOK'
  BY <1>1, <1>2, <1>8 DEF HeapInv, Merging, TypeOK
<1> QED
  BY <1>5, <1>6, <1>7, <1>9 DEF HeapInv

-----------------------------------------------------------------------------
(* The heap as a whole. *)

LEMMA HeapNext ==
  ASSUME HeapInv, Next
  PROVE  HeapInv' /\ (Heap!Next \/ Live' = Live)
<1> USE DEF HeapInv
<1>0. pc \in {"creating", "ready", "freeing"} => mergeBlock = NoBlock
  BY DEF Merging
<1>1. ptr \in 0 .. HeapSize
  BY DEF TypeOK
<1>2. CASE Create
  <2>1. FirstSize \in Nat /\ FirstSize > 0
    BY HeapConstants, RoundedUp DEF FirstSize
  <2>2. CASE Allocate(FirstSize) /\ pc' = "ready" /\ UNCHANGED <<ptr, mergeBlock>>
    BY <1>0, <1>2, <2>1, <2>2, AllocateHolds DEF Create
  <2>3. CASE OutOfMemory(FirstSize)
    BY <1>1, <2>3, Waits DEF OutOfMemory
  <2> QED
    BY <1>2, <2>2, <2>3 DEF Create
<1>3. ASSUME NEW s \in Sizes, Alloc(s) PROVE HeapInv' /\ (Heap!Next \/ Live' = Live)
  <2>1. CeilTo(s, BlockSize) \in Nat /\ CeilTo(s, BlockSize) > 0
    BY HeapConstants, RoundedUp
  <2>2. CASE Allocate(CeilTo(s, BlockSize)) /\ UNCHANGED <<pc, ptr, mergeBlock>>
    BY <1>0, <1>3, <2>1, <2>2, AllocateHolds DEF Alloc
  <2>3. CASE OutOfMemory(CeilTo(s, BlockSize))
    BY <1>1, <2>3, Waits DEF OutOfMemory
  <2> QED
    BY <1>3, <2>2, <2>3 DEF Alloc
<1>4. ASSUME NEW p \in 1 .. HeapSize, Free(p) PROVE HeapInv' /\ Live' = Live
  <2>1. p \in 0 .. HeapSize
    BY HeapConstants
  <2> QED
    BY <1>0, <1>4, <2>1, Waits DEF Free
<1>5. CASE Destroy
  <2>1. 0 \in 0 .. HeapSize
    BY HeapConstants
  <2> QED
    BY <1>0, <1>5, <2>1, Waits DEF Destroy
<1>6. CASE FreeBlock
  BY <1>6, FreeBlockHolds
<1>7. CASE MergeIteration
  BY <1>7, MergeHolds
<1>8. CASE Merged
  BY <1>8, MergedHolds
<1>9. CASE Freed
  BY <1>0, <1>1, <1>9, Waits DEF Freed
<1>10. CASE DebugStop
  BY <1>1, <1>10, Waits DEF DebugStop
<1> QED
  BY <1>2, <1>3, <1>4, <1>5, <1>6, <1>7, <1>8, <1>9, <1>10 DEF Next, FreeStep

LEMMA HeapStep == HeapInv /\ [AllNext]_allVars => HeapInv' /\ (Heap!Next \/ Live' = Live)
<1> SUFFICES ASSUME HeapInv, [AllNext]_allVars PROVE HeapInv' /\ (Heap!Next \/ Live' = Live)
  OBVIOUS
<1>1. CASE Next
  BY <1>1, HeapNext
<1>2. CASE UNCHANGED vars
  <2>1. Live' = Live /\ FreeBlocks' = FreeBlocks
    BY <1>2 DEF vars, Live, Taken, FreeBlocks
  <2>2. Partition' /\ Paged' /\ Used' /\ Merging' /\ Sorted(memSet') /\ TypeOK'
    BY <1>2, <2>1 DEF vars, HeapInv, Partition, Paged, Users, Used, Merging, TypeOK
  <2> QED
    BY <2>1, <2>2 DEF HeapInv
<1> QED
  BY <1>1, <1>2 DEF AllNext, RunHeap, RunEditor, RunWindow, allVars

LEMMA EveryByteInOneBlock == HeapInv => HeapPartitioned
<1> SUFFICES ASSUME HeapInv, NEW x \in Bytes
             PROVE  Cardinality({b \in Live : Covers(b, x)} \cup {b \in FreeBlocks : Covers(b, x)}) = 1
  BY DEF HeapPartitioned, Bytes
<1> DEFINE S == {b \in Live : Covers(b, x)} \cup {b \in FreeBlocks : Covers(b, x)}
<1>1. PICK b \in Live \cup FreeBlocks : Covers(b, x)
  BY DEF HeapInv, Partition, Tiles
<1>2. \A d \in S : d = b
  BY <1>1 DEF HeapInv, Partition, Tiles
<1>3. S = {b}
  BY <1>1, <1>2
<1> QED
  BY <1>3, FS_Singleton

LEMMA PagesOfLiveBlocks == HeapInv => PagesCommitted
<1> SUFFICES ASSUME HeapInv, NEW b \in Live, NEW p \in PagesAdded(b) PROVE pageTable[p] > 0
  BY DEF PagesCommitted
<1>1. p \in Pages
  BY AllBlocks, PagesInHeap
<1>2. b \in Users(p)
  BY DEF Users
<1>3. IsFiniteSet(Users(p)) /\ Cardinality(Users(p)) \in Nat
  BY UsersFinite, FS_CardinalityType DEF HeapInv
<1>4. Cardinality(Users(p)) # 0
  BY <1>2, <1>3, FS_EmptySet
<1>5. pageTable[p] >= Cardinality(Users(p)) /\ pageTable[p] \in 0 .. MaxUsers
  BY <1>1 DEF HeapInv, Paged
<1> QED
  BY <1>3, <1>4, <1>5, HeapConstants

\* The heap keeps its invariant, whatever is allocated and freed in which order.
THEOREM HeapInvariance == AllFairSpec => []HeapInv
<1>1. AllInit => HeapInv
  BY HeapInit DEF AllInit
<1>2. HeapInv /\ [AllNext]_allVars => HeapInv'
  BY HeapStep
<1> QED
  BY <1>1, <1>2, PTL DEF AllFairSpec

\* Every byte is in exactly one block, between any two calls and in the middle of Free: the
\* heap of HeapSize bytes, of any size up to MediumBorder, loses no memory and gives none
\* out twice.
THEOREM MemoryIsPartitioned == AllFairSpec => []HeapPartitioned
<1> QED
  BY HeapInvariance, EveryByteInOneBlock, PTL

\* A page that a block in use touches is never decommitted, for any size of pages.
THEOREM PagesStayCommitted == AllFairSpec => []PagesCommitted
<1> QED
  BY HeapInvariance, PagesOfLiveBlocks, PTL

\* As long as the heap is too small for large blocks, the heap manager with its four sets
\* implements an allocator: Alloc gives memory that nobody has, and only Free takes it back.
\* With large blocks (a heap of more than MediumBorder bytes) this is false: one that was
\* merged stays in its set and is given out twice.
THEOREM HeapIsAnAllocator == AllFairSpec => ImplementsAllocator
<1>1. AllInit => Heap!Init
  BY DEF AllInit, Init, Heap!Init, Live
<1>2. HeapInv /\ [AllNext]_allVars => [Heap!Next]_Live
  BY HeapStep
<1> QED
  BY <1>1, <1>2, HeapInvariance, PTL DEF AllFairSpec, ImplementsAllocator, Heap!Spec

-----------------------------------------------------------------------------
(* The editor's settings.                                                  *)
(*                                                                         *)
(* With one dialog open the size that is shown, and the size in tmp, are   *)
(* those accepted or those of that dialog's slider: a second dialog may    *)
(* have changed them, but has put them back when it was closed.            *)

LEMMA WindowLibrary == \A S : Window!Cardinality(S) = Cardinality(S)
BY DEF Window!Cardinality, Cardinality, Window!IsFiniteSet, IsFiniteSet

LEMMA TwoMembers ==
  ASSUME NEW S, IsFiniteSet(S), NEW e \in S, NEW f \in S, e # f
  PROVE  Cardinality(S) > 1
<1>1. IsFiniteSet({e}) /\ Cardinality({e}) = 1
  BY FS_Singleton
<1>2. Cardinality({e} \cup {f}) = 2
  BY <1>1, FS_AddElement
<1>3. {e} \cup {f} \subseteq S
  OBVIOUS
<1>4. Cardinality({e} \cup {f}) <= Cardinality(S) /\ Cardinality(S) \in Nat
  BY <1>3, FS_Subset, FS_CardinalityType
<1> QED
  BY <1>2, <1>4

LEMMA WindowConstants == Window!Default \in Window!WindowProps /\ MaxDialogs \in Nat
BY ProgramsAssumption DEF Window!PropsAssumption

Sliders == [fontSize : FontSizes, alpha : Alphas, checked : BOOLEAN]
WindowTypes ==
  /\ current \in Window!WindowProps /\ tmp \in Window!WindowProps
  /\ isPreviewChecked \in BOOLEAN /\ fontSize \in FontSizes /\ alpha \in Alphas
  /\ dialogs \in [1 .. MaxDialogs -> Sliders \cup {<<>>}]

OnlyDialog(d) == d \in Window!Open /\ \A e \in Window!Open : e = d
OneDialog ==
  \A d \in Window!Open : OnlyDialog(d) =>
     /\ tmp.fontSize \in {current.fontSize, dialogs[d].fontSize}
     /\ fontSize = current.fontSize \/ (isPreviewChecked /\ fontSize = dialogs[d].fontSize)

SettingsInv == /\ WindowTypes /\ Window!SettingsSettle /\ OneDialog
               /\ ~isPreviewChecked => fontSize = current.fontSize

LEMMA PropsFields ==
  ASSUME NEW p \in Window!WindowProps
  PROVE  /\ p.fontSize \in FontSizes /\ p.alpha \in Alphas
         /\ p = [p EXCEPT !.fontSize = p.fontSize]
BY DEF Window!WindowProps

LEMMA SizeChosen ==
  ASSUME NEW p \in Window!WindowProps, NEW n \in FontSizes
  PROVE  /\ [p EXCEPT !.fontSize = n] \in Window!WindowProps
         /\ [p EXCEPT !.fontSize = n].fontSize = n /\ [p EXCEPT !.fontSize = n].alpha = p.alpha
BY DEF Window!WindowProps

LEMMA BothChosen ==
  ASSUME NEW p \in Window!WindowProps, NEW n \in FontSizes, NEW a \in Alphas
  PROVE  /\ [p EXCEPT !.fontSize = n, !.alpha = a] \in Window!WindowProps
         /\ [p EXCEPT !.fontSize = n, !.alpha = a].fontSize = n
BY DEF Window!WindowProps

LEMMA ColorChosen ==
  ASSUME NEW p \in Window!WindowProps
  PROVE  /\ \A c \in FontColors : /\ [p EXCEPT !.fontColor = c] \in Window!WindowProps
                                  /\ [p EXCEPT !.fontColor = c].fontSize = p.fontSize
         /\ \A c \in BackgroundColors : /\ [p EXCEPT !.backgroundColor = c] \in Window!WindowProps
                                        /\ [p EXCEPT !.backgroundColor = c].fontSize = p.fontSize
BY DEF Window!WindowProps

LEMMA SliderFields ==
  ASSUME NEW s \in Sliders
  PROVE  s # <<>> /\ s.fontSize \in FontSizes /\ s.alpha \in Alphas /\ s.checked \in BOOLEAN
<1>1. "fontSize" \in DOMAIN s
  BY DEF Sliders
<1>2. s # <<>>
  BY <1>1
<1> QED
  BY <1>2 DEF Sliders

LEMMA SettingsInit == Window!InitEditor => SettingsInv
<1> SUFFICES ASSUME Window!InitEditor PROVE SettingsInv
  OBVIOUS
<1>1. WindowTypes
  BY WindowConstants, PropsFields DEF Window!InitEditor, WindowTypes
<1>2. Window!Open = {}
  BY DEF Window!InitEditor, Window!Open
<1> QED
  BY <1>1, <1>2 DEF Window!InitEditor, SettingsInv, OneDialog, Window!SettingsSettle, Window!ShownColors

\* A slot that is opened or moved.
LEMMA SlotSet ==
  ASSUME WindowTypes, NEW d \in 1 .. MaxDialogs, NEW r \in Sliders,
         dialogs' = [dialogs EXCEPT ![d] = r]
  PROVE  /\ Window!Open' = Window!Open \cup {d} /\ dialogs'[d] = r
         /\ \A e \in 1 .. MaxDialogs : e # d => dialogs'[e] = dialogs[e]
         /\ dialogs' \in [1 .. MaxDialogs -> Sliders \cup {<<>>}]
<1>1. r # <<>>
  BY SliderFields
<1> QED
  BY <1>1 DEF Window!Open, WindowTypes

LEMMA SlotClosed ==
  ASSUME WindowTypes, NEW d \in 1 .. MaxDialogs, dialogs' = [dialogs EXCEPT ![d] = <<>>]
  PROVE  /\ Window!Open' = Window!Open \ {d}
         /\ \A e \in 1 .. MaxDialogs : e # d => dialogs'[e] = dialogs[e]
         /\ dialogs' \in [1 .. MaxDialogs -> Sliders \cup {<<>>}]
BY DEF Window!Open, WindowTypes

LEMMA OpenDialogs ==
  ASSUME WindowTypes
  PROVE  \A d \in Window!Open : d \in 1 .. MaxDialogs /\ dialogs[d] \in Sliders
BY DEF Window!Open, WindowTypes

LEMMA ViewHolds ==
  ASSUME SettingsInv, Window!ViewSettings
  PROVE  SettingsInv' /\ Window!OnlyAccepted
<1>1. PICK d \in DOMAIN dialogs \ Window!Open :
         dialogs' = [dialogs EXCEPT ![d] = [fontSize |-> fontSize, alpha |-> current.alpha,
                                            checked |-> isPreviewChecked]]
  BY DEF Window!ViewSettings
<1> DEFINE r == [fontSize |-> fontSize, alpha |-> current.alpha, checked |-> isPreviewChecked]
<1>2. WindowTypes /\ d \in 1 .. MaxDialogs /\ d \notin Window!Open
  BY <1>1 DEF SettingsInv, WindowTypes
<1>3. r \in Sliders /\ r.fontSize = fontSize
  BY <1>2, PropsFields DEF WindowTypes, Sliders
<1> HIDE DEF r
<1>4. /\ Window!Open' = Window!Open \cup {d} /\ dialogs'[d] = r
      /\ dialogs' \in [1 .. MaxDialogs -> Sliders \cup {<<>>}]
  BY <1>1, <1>2, <1>3, SlotSet DEF r
<1>5. /\ current' = [current EXCEPT !.fontSize = fontSize]
      /\ UNCHANGED <<tmp, isPreviewChecked, fontSize, alpha>>
  BY DEF Window!ViewSettings
<1>6. current' \in Window!WindowProps /\ current'.fontSize = fontSize /\ current = [current EXCEPT !.fontSize = current.fontSize]
  BY <1>2, <1>5, PropsFields, SizeChosen DEF WindowTypes
<1>7. WindowTypes'
  BY <1>2, <1>4, <1>5, <1>6 DEF WindowTypes
<1>8. Window!SettingsSettle'
  BY <1>4 DEF Window!SettingsSettle
<1>9. OneDialog'
  <2>1. ASSUME NEW e \in Window!Open', OnlyDialog(e)'
        PROVE  /\ e = d /\ Window!Open = {}
    BY <1>2, <1>4, <2>1 DEF OnlyDialog
  <2>2. Window!Open = {} => tmp.fontSize = fontSize
    BY DEF SettingsInv, Window!SettingsSettle
  <2> QED
    BY <1>3, <1>4, <1>5, <1>6, <2>1, <2>2 DEF OneDialog
<1>10. Window!OnlyAccepted
  <2> SUFFICES ASSUME current' # current
               PROVE  \E e \in Window!Open : \/ isPreviewChecked /\ dialogs[e].fontSize = fontSize
                                             \/ Cardinality(Window!Open) > 1
    BY WindowLibrary DEF Window!OnlyAccepted
  <2>1. fontSize # current.fontSize
    BY <1>5, <1>6
  <2>2. PICK e : e \in Window!Open
    BY <2>1 DEF SettingsInv, Window!SettingsSettle
  <2>3. CASE OnlyDialog(e)
    BY <2>1, <2>2, <2>3 DEF SettingsInv, OneDialog
  <2>4. CASE ~OnlyDialog(e)
    <3>1. PICK f : f \in Window!Open /\ f # e
      BY <2>2, <2>4 DEF OnlyDialog
    <3>2. IsFiniteSet(Window!Open)
      <4>1. Window!Open \subseteq 1 .. MaxDialogs
        BY <1>2, OpenDialogs
      <4>2. IsFiniteSet(1 .. MaxDialogs)
        BY FS_Interval, WindowConstants
      <4> QED
        BY <4>1, <4>2, FS_Subset
    <3> QED
      BY <2>2, <3>1, <3>2, TwoMembers
  <2> QED
    BY <2>3, <2>4
<1> QED
  BY <1>5, <1>6, <1>7, <1>8, <1>9, <1>10 DEF SettingsInv

LEMMA SlideHolds ==
  ASSUME SettingsInv, NEW d \in Window!Open, Window!Slide(d)
  PROVE  SettingsInv' /\ current' = current
<1>1. PICK size \in FontSizes, a \in Alphas :
         /\ dialogs' = [dialogs EXCEPT ![d].fontSize = size, ![d].alpha = a]
         /\ tmp' = [tmp EXCEPT !.fontSize = size, !.alpha = a]
  BY DEF Window!Slide
<1> DEFINE r == [dialogs[d] EXCEPT !.fontSize = size, !.alpha = a]
<1>2. WindowTypes /\ d \in 1 .. MaxDialogs /\ dialogs[d] \in Sliders
  BY OpenDialogs DEF SettingsInv
<1>3. r \in Sliders /\ r.fontSize = size
  BY <1>2 DEF Sliders
<1>4. dialogs' = [dialogs EXCEPT ![d] = r]
  BY <1>1, <1>2 DEF WindowTypes
<1> HIDE DEF r
<1>5. /\ Window!Open' = Window!Open /\ dialogs'[d] = r
      /\ dialogs' \in [1 .. MaxDialogs -> Sliders \cup {<<>>}]
  <2>1. /\ Window!Open' = Window!Open \cup {d} /\ dialogs'[d] = r
        /\ dialogs' \in [1 .. MaxDialogs -> Sliders \cup {<<>>}]
    BY <1>2, <1>3, <1>4, SlotSet
  <2>2. Window!Open \cup {d} = Window!Open
    OBVIOUS
  <2> QED
    BY <2>1, <2>2
<1>6. /\ UNCHANGED <<current, isPreviewChecked>>
      /\ isPreviewChecked => fontSize' = tmp'.fontSize /\ alpha' = tmp'.alpha
      /\ ~isPreviewChecked => UNCHANGED <<fontSize, alpha>>
  BY DEF Window!Slide, Window!Show
<1>7. tmp' \in Window!WindowProps /\ tmp'.fontSize = size
  BY <1>1, <1>2, BothChosen DEF WindowTypes
<1>8. WindowTypes'
  BY <1>2, <1>5, <1>6, <1>7, PropsFields DEF WindowTypes
<1>9. Window!SettingsSettle'
  BY <1>5 DEF Window!SettingsSettle
<1>10. OneDialog'
  BY <1>3, <1>5, <1>6, <1>7 DEF OneDialog, OnlyDialog, SettingsInv
<1> QED
  BY <1>6, <1>8, <1>9, <1>10 DEF SettingsInv

\* OK and Cancel leave one set of properties, and show it.
LEMMA CloseHolds ==
  ASSUME SettingsInv, NEW d \in Window!Open, NEW p \in Window!WindowProps,
         current' = p, tmp' = p, Window!Show(p), Window!Close1(d), UNCHANGED isPreviewChecked
  PROVE  SettingsInv'
<1>1. WindowTypes /\ d \in 1 .. MaxDialogs
  BY OpenDialogs DEF SettingsInv
<1>2. /\ Window!Open' = Window!Open \ {d}
      /\ dialogs' \in [1 .. MaxDialogs -> Sliders \cup {<<>>}]
  BY <1>1, SlotClosed DEF Window!Close1
<1>3. fontSize' = p.fontSize /\ alpha' = p.alpha
  BY DEF Window!Show
<1>4. WindowTypes'
  BY <1>1, <1>2, <1>3, PropsFields DEF WindowTypes
<1>5. Window!SettingsSettle'
  BY <1>3 DEF Window!SettingsSettle, Window!ShownColors
<1>6. OneDialog'
  BY <1>3 DEF OneDialog
<1> QED
  BY <1>3, <1>4, <1>5, <1>6 DEF SettingsInv

LEMMA CheckHolds ==
  ASSUME SettingsInv, NEW d \in Window!Open, Window!DialogCheck(d)
  PROVE  SettingsInv' /\ current' = current
<1> DEFINE r == [dialogs[d] EXCEPT !.checked = ~@]
<1>1. WindowTypes /\ d \in 1 .. MaxDialogs /\ dialogs[d] \in Sliders
  BY OpenDialogs DEF SettingsInv
<1>2. r \in Sliders /\ r.fontSize = dialogs[d].fontSize /\ dialogs[d].checked \in BOOLEAN
  BY <1>1 DEF Sliders
<1>3. dialogs' = [dialogs EXCEPT ![d] = r]
  BY <1>1 DEF WindowTypes, Window!DialogCheck
<1> HIDE DEF r
<1>4. /\ Window!Open' = Window!Open /\ dialogs'[d] = r
      /\ dialogs' \in [1 .. MaxDialogs -> Sliders \cup {<<>>}]
  <2>1. /\ Window!Open' = Window!Open \cup {d} /\ dialogs'[d] = r
        /\ dialogs' \in [1 .. MaxDialogs -> Sliders \cup {<<>>}]
    BY <1>1, <1>2, <1>3, SlotSet
  <2>2. Window!Open \cup {d} = Window!Open
    OBVIOUS
  <2> QED
    BY <2>1, <2>2
<1>5. /\ UNCHANGED <<current, tmp>> /\ isPreviewChecked' = ~dialogs[d].checked
      /\ isPreviewChecked' => fontSize' = tmp.fontSize /\ alpha' = tmp.alpha
      /\ ~isPreviewChecked' => fontSize' = current.fontSize /\ alpha' = current.alpha
  BY DEF Window!DialogCheck, Window!Show
<1>6. WindowTypes'
  BY <1>1, <1>2, <1>4, <1>5, PropsFields DEF WindowTypes
<1>7. Window!SettingsSettle'
  BY <1>4 DEF Window!SettingsSettle
<1>8. OneDialog'
  <2>1. ASSUME NEW e \in Window!Open', OnlyDialog(e)' PROVE e = d /\ OnlyDialog(d)
    BY <1>4, <2>1 DEF OnlyDialog
  <2>2. OnlyDialog(d) => tmp.fontSize \in {current.fontSize, dialogs[d].fontSize}
    BY DEF SettingsInv, OneDialog
  <2> QED
    BY <1>2, <1>4, <1>5, <1>6, <2>1, <2>2 DEF OneDialog, WindowTypes
<1> QED
  BY <1>5, <1>6, <1>7, <1>8 DEF SettingsInv, WindowTypes

LEMMA ColorHolds ==
  ASSUME SettingsInv, NEW d \in Window!Open, Window!ButtonColor(d)
  PROVE  SettingsInv' /\ current' = current
<1>1. UNCHANGED <<current, isPreviewChecked, fontSize, alpha, dialogs>>
  BY DEF Window!ButtonColor
<1>2. tmp' \in Window!WindowProps /\ tmp'.fontSize = tmp.fontSize
  BY ColorChosen DEF Window!ButtonColor, SettingsInv, WindowTypes
<1>3. Window!Open' = Window!Open /\ Window!Open # {}
  BY <1>1 DEF Window!Open
<1>4. WindowTypes' /\ Window!SettingsSettle'
  BY <1>1, <1>2, <1>3 DEF SettingsInv, WindowTypes, Window!SettingsSettle
<1>5. OneDialog'
  BY <1>1, <1>2, <1>3 DEF SettingsInv, OneDialog, OnlyDialog
<1> QED
  BY <1>1, <1>4, <1>5 DEF SettingsInv

LEMMA DialogHolds ==
  ASSUME SettingsInv, Window!Dialog
  PROVE  SettingsInv' /\ Window!OnlyAccepted
<1>1. PICK d : /\ d \in DOMAIN dialogs
               /\ \/ Window!Slide(d) \/ Window!DialogOK(d) \/ Window!DialogCancel(d)
                  \/ Window!DialogCheck(d) \/ Window!ButtonColor(d)
  BY DEF Window!Dialog
<1>2. d \in Window!Open
  BY <1>1 DEF Window!Slide, Window!DialogOK, Window!DialogCancel, Window!DialogCheck, Window!ButtonColor
<1>3. tmp \in Window!WindowProps /\ current \in Window!WindowProps
  BY DEF SettingsInv, WindowTypes
<1>4. CASE Window!DialogOK(d)
  <2>1. SettingsInv'
    BY <1>2, <1>3, <1>4, CloseHolds DEF Window!DialogOK
  <2> QED
    BY <1>2, <1>4, <2>1 DEF Window!OnlyAccepted
<1>5. CASE Window!DialogCancel(d)
  <2>1. current' = current
    BY <1>5 DEF Window!DialogCancel
  <2>2. SettingsInv'
    BY <1>2, <1>3, <1>5, CloseHolds DEF Window!DialogCancel
  <2> QED
    BY <2>1, <2>2 DEF Window!OnlyAccepted
<1>6. CASE \/ Window!Slide(d) \/ Window!DialogCheck(d) \/ Window!ButtonColor(d)
  BY <1>2, <1>6, SlideHolds, CheckHolds, ColorHolds DEF Window!OnlyAccepted
<1> QED
  BY <1>1, <1>4, <1>5, <1>6

\* Steps of anything else.
LEMMA SettingsStay ==
  ASSUME SettingsInv, UNCHANGED Window!settings
  PROVE  SettingsInv' /\ Window!OnlyAccepted
<1>1. UNCHANGED <<current, tmp, isPreviewChecked, fontSize, alpha, dialogs>>
  BY DEF Window!settings
<1>2. Window!Open' = Window!Open
  BY <1>1 DEF Window!Open
<1> QED
  BY <1>1, <1>2 DEF SettingsInv, WindowTypes, OneDialog, OnlyDialog, Window!SettingsSettle,
     Window!ShownColors, Window!OnlyAccepted

LEMMA SettingsStep == SettingsInv /\ [AllNext]_allVars => SettingsInv' /\ Window!OnlyAccepted
<1> SUFFICES ASSUME SettingsInv, [AllNext]_allVars PROVE SettingsInv' /\ Window!OnlyAccepted
  OBVIOUS
<1>1. CASE Window!Next
  <2>1. CASE UNCHANGED Window!settings
    BY <2>1, SettingsStay
  <2>2. CASE Window!ViewSettings
    BY <2>2, ViewHolds
  <2>3. CASE Window!Dialog
    BY <2>3, DialogHolds
  <2> QED
    BY <1>1, <2>1, <2>2, <2>3 DEF Window!Next, Window!TypeText, Window!Save, Window!Close,
       Window!AnswerClose, Window!Saved, Window!NotSaved, Window!DismissError
<1>2. CASE UNCHANGED windowVars
  <2>1. UNCHANGED Window!settings
    BY <1>2 DEF windowVars, Window!settings
  <2> QED
    BY <2>1, SettingsStay
<1> QED
  BY <1>1, <1>2 DEF AllNext, RunHeap, RunEditor, RunWindow, allVars

\* With any number of settings dialogs, any sizes and colors: when none is open the settings
\* shown, accepted and started from agree, and only an OK accepts settings, but for the size
\* that a second dialog takes over.
THEOREM SettingsAgree == AllFairSpec => SettingsSettle
<1>1. AllInit => SettingsInv
  BY SettingsInit DEF AllInit
<1>2. SettingsInv /\ [AllNext]_allVars => SettingsInv' /\ Window!OnlyAccepted
  BY SettingsStep
<1>3. SettingsInv => Window!SettingsSettle
  BY DEF SettingsInv
<1> QED
  BY <1>1, <1>2, <1>3, PTL DEF AllFairSpec, SettingsSettle

-----------------------------------------------------------------------------
(* The words of a text. *)

\* Keep and Known, as the recursion they are.
LEMMA KnownTurns ==
  ASSUME NEW W, NEW t \in Seq(W)
  PROVE  \E f \in [0 .. Len(t) -> Seq(W)] :
            /\ f[0] = <<>> /\ Editor!Known(t) = f[Len(t)]
            /\ \A n \in 1 .. Len(t) : f[n] = Editor!Keep(f[n - 1], t[n])
<1> DEFINE m == Len(t)  X == Seq(W)
      G == [p \in X \X Nat |-> IF p[2] \in 1 .. m THEN Editor!Keep(p[1], t[p[2]]) ELSE p[1]]
      Body(g) == [n \in 0 .. m |-> IF n = 0 THEN <<>> ELSE Editor!Keep(g[n - 1], t[n])]
      h == CHOOSE g : g = Body(g)
<1>0. m \in Nat /\ \A n \in 1 .. m : t[n] \in W
  OBVIOUS
<1>1. <<>> \in X /\ \A s \in X : \A e \in W : Editor!Keep(s, e) \in X
  BY DEF Editor!Keep
<1>2. Editor!Known(t) = h[m]
  BY DEF Editor!Known
<1> HIDE DEF m, X
<1>3. G \in [X \X Nat -> X]
  BY <1>0, <1>1
<1>4. PICK f : f \in [0 .. m -> X] /\ f[0] = <<>> /\ \A n \in 1 .. m : f[n] = G[<<f[n - 1], n>>]
  <2> HIDE DEF G
  <2>1. Followed(X, <<>>, G, m)
    BY <1>0, <1>1, <1>3, Recursion
  <2> QED
    BY <2>1 DEF Followed, Follows
<1>5. \A n \in 1 .. m : f[n] = Editor!Keep(f[n - 1], t[n])
  <2> SUFFICES ASSUME NEW n \in 1 .. m PROVE f[n] = Editor!Keep(f[n - 1], t[n])
    OBVIOUS
  <2>1. n - 1 \in 0 .. m /\ n \in Nat
    BY <1>0
  <2>2. <<f[n - 1], n>> \in X \X Nat
    BY <1>0, <1>4, <2>1
  <2> QED
    BY <1>4, <2>2
<1>6. h = Body(h)
  <2>1. f = [n \in 0 .. m |-> f[n]]
    BY <1>4
  <2>2. \A n \in 0 .. m : n = 0 \/ n \in 1 .. m
    BY <1>0
  <2>3. \A n \in 0 .. m : f[n] = IF n = 0 THEN <<>> ELSE Editor!Keep(f[n - 1], t[n])
    BY <1>4, <1>5, <2>2
  <2>4. f = Body(f)
    BY <2>1, <2>3
  <2> QED
    BY <2>4
<1> HIDE DEF h
<1>7. h[0] = <<>> /\ \A n \in 1 .. m : h[n] = Editor!Keep(h[n - 1], t[n])
  <2>1. 0 \in 0 .. m /\ 1 .. m \subseteq 0 .. m /\ \A n \in 1 .. m : n # 0
    BY <1>0
  <2>2. \A n \in 0 .. m : h[n] = IF n = 0 THEN <<>> ELSE Editor!Keep(h[n - 1], t[n])
    BY <1>6
  <2> QED
    BY <2>1, <2>2
<1>8. \A n \in 0 .. m : h[n] = f[n]
  <2> DEFINE T == {k \in Nat : k <= m => h[k] = f[k]}
  <2>1. 0 \in T
    BY <1>4, <1>7
  <2>2. ASSUME NEW k \in Nat, k \in T PROVE k + 1 \in T
    <3> SUFFICES ASSUME k + 1 <= m PROVE h[k + 1] = f[k + 1]
      OBVIOUS
    <3>1. k + 1 \in 1 .. m /\ (k + 1) - 1 = k /\ k <= m
      BY <1>0
    <3>2. h[k] = f[k]
      BY <2>2, <3>1
    <3> QED
      BY <1>5, <1>7, <3>1, <3>2
  <2> HIDE DEF T
  <2>3. Nat \subseteq T
    BY <2>1, <2>2, Induction
  <2> QED
    BY <1>0, <2>3 DEF T
<1>9. Editor!Known(t) = f[m]
  BY <1>0, <1>2, <1>8
<1> QED
  BY <1>4, <1>5, <1>9 DEF m, X

\* A text with one word more.
LEMMA KnownAppend ==
  ASSUME NEW W, NEW t \in Seq(W), NEW e \in W
  PROVE  Editor!Known(Append(t, e)) = Editor!Keep(Editor!Known(t), e)
<1> DEFINE m == Len(t)  u == Append(t, e)
<1>1. /\ m \in Nat /\ u \in Seq(W) /\ Len(u) = m + 1 /\ u[m + 1] = e
      /\ \A n \in 1 .. m : u[n] = t[n]
  OBVIOUS
<1>2. PICK f \in [0 .. m -> Seq(W)] :
         /\ f[0] = <<>> /\ Editor!Known(t) = f[m]
         /\ \A n \in 1 .. m : f[n] = Editor!Keep(f[n - 1], t[n])
  BY KnownTurns
<1> HIDE DEF m, u
<1>3. PICK g \in [0 .. (m + 1) -> Seq(W)] :
         /\ g[0] = <<>> /\ Editor!Known(u) = g[m + 1]
         /\ \A n \in 1 .. (m + 1) : g[n] = Editor!Keep(g[n - 1], u[n])
  <2>1. \E g \in [0 .. Len(u) -> Seq(W)] :
         /\ g[0] = <<>> /\ Editor!Known(u) = g[Len(u)]
         /\ \A n \in 1 .. Len(u) : g[n] = Editor!Keep(g[n - 1], u[n])
    BY <1>1, KnownTurns
  <2> QED
    BY <1>1, <2>1
<1>4. \A n \in 0 .. m : g[n] = f[n]
  <2> DEFINE T == {k \in Nat : k <= m => g[k] = f[k]}
  <2>1. 0 \in T
    BY <1>2, <1>3
  <2>2. ASSUME NEW k \in Nat, k \in T PROVE k + 1 \in T
    <3> SUFFICES ASSUME k + 1 <= m PROVE g[k + 1] = f[k + 1]
      OBVIOUS
    <3>1. k + 1 \in 1 .. m /\ k + 1 \in 1 .. (m + 1) /\ (k + 1) - 1 = k /\ k <= m
      BY <1>1
    <3>2. g[k] = f[k]
      BY <2>2, <3>1
    <3>3. u[k + 1] = t[k + 1]
      BY <1>1, <3>1
    <3> QED
      BY <1>2, <1>3, <3>1, <3>2, <3>3
  <2> HIDE DEF T
  <2>3. Nat \subseteq T
    BY <2>1, <2>2, Induction
  <2> QED
    BY <1>1, <2>3 DEF T
<1>5. g[m + 1] = Editor!Keep(g[m], e)
  <2>1. m + 1 \in 1 .. (m + 1) /\ (m + 1) - 1 = m
    BY <1>1
  <2> QED
    BY <1>1, <1>3, <2>1
<1>6. g[m] = f[m]
  BY <1>1, <1>4
<1> QED
  BY <1>2, <1>3, <1>5, <1>6 DEF u

LEMMA KnownTypes ==
  ASSUME NEW W
  PROVE  Editor!Known(<<>>) = <<>> /\ \A t \in Seq(W) : Editor!Known(t) \in Seq(W)
<1>1. \A t \in Seq(W) : Editor!Known(t) \in Seq(W)
  <2> SUFFICES ASSUME NEW t \in Seq(W) PROVE Editor!Known(t) \in Seq(W)
    OBVIOUS
  <2>1. PICK f \in [0 .. Len(t) -> Seq(W)] : Editor!Known(t) = f[Len(t)]
    BY KnownTurns
  <2>2. Len(t) \in 0 .. Len(t)
    OBVIOUS
  <2> QED
    BY <2>1, <2>2
<1>2. Editor!Known(<<>>) = <<>>
  <2>1. <<>> \in Seq({}) /\ Len(<<>>) = 0
    OBVIOUS
  <2>2. \E f \in [0 .. Len(<<>>) -> Seq({})] : f[0] = <<>> /\ Editor!Known(<<>>) = f[Len(<<>>)]
    BY <2>1, KnownTurns
  <2> QED
    BY <2>1, <2>2
<1> QED
  BY <1>1, <1>2

\* Nothing happens across the border of two texts.
LEMMA KnownConcat ==
  ASSUME NEW W, NEW s \in Seq(W), NEW t \in Seq(W)
  PROVE  Editor!Known(s \o t) = Editor!Known(s) \o Editor!Known(t)
<1> DEFINE Agree(u) == Editor!Known(s \o u) = Editor!Known(s) \o Editor!Known(u)
           T == {u \in Seq(W) : Agree(u)}
<1>1. <<>> \in T
  <2>1. s \o <<>> = s /\ <<>> \in Seq(W)
    OBVIOUS
  <2>2. Editor!Known(s) \in Seq(W) /\ Editor!Known(<<>>) = <<>>
    BY KnownTypes
  <2>3. Editor!Known(s) \o <<>> = Editor!Known(s)
    BY <2>2
  <2> QED
    BY <2>1, <2>2, <2>3
<1>2. ASSUME NEW v \in Seq(W), NEW e \in W, v \in T PROVE Append(v, e) \in T
  <2>1. Editor!Known(s \o v) = Editor!Known(s) \o Editor!Known(v)
    BY <1>2
  <2>2. s \o Append(v, e) = Append(s \o v, e) /\ s \o v \in Seq(W) /\ Append(v, e) \in Seq(W)
    OBVIOUS
  <2>3. Editor!Known(s \o Append(v, e)) = Editor!Keep(Editor!Known(s \o v), e)
    BY <2>2, KnownAppend
  <2>4. Editor!Known(Append(v, e)) = Editor!Keep(Editor!Known(v), e)
    BY KnownAppend
  <2>5. \A a, b \in Seq(W) : Editor!Keep(a \o b, e) = a \o Editor!Keep(b, e)
    <3> SUFFICES ASSUME NEW a \in Seq(W), NEW b \in Seq(W)
                 PROVE  Editor!Keep(a \o b, e) = a \o Editor!Keep(b, e)
      OBVIOUS
    <3>1. Append(a \o b, e) = a \o Append(b, e)
      <4>1. <<e>> \in Seq(W) /\ a \o b \in Seq(W)
        OBVIOUS
      <4>2. Append(a \o b, e) = (a \o b) \o <<e>> /\ Append(b, e) = b \o <<e>>
        BY <4>1, AppendIsConcat
      <4>3. (a \o b) \o <<e>> = a \o (b \o <<e>>)
        BY <4>1, ConcatAssociative
      <4> QED
        BY <4>2, <4>3
    <3> QED
      BY <3>1 DEF Editor!Keep
  <2>6. Editor!Known(s) \in Seq(W) /\ Editor!Known(v) \in Seq(W)
    BY KnownTypes
  <2> QED
    BY <2>1, <2>2, <2>3, <2>4, <2>5, <2>6
<1> HIDE DEF T
<1>3. Seq(W) \subseteq T
  BY <1>1, <1>2, SeqInduction
<1> QED
  BY <1>3 DEF T

\* A text that was cleared stays as it is.
LEMMA KnownTwice ==
  ASSUME NEW W, NEW t \in Seq(W)
  PROVE  Editor!Known(Editor!Known(t)) = Editor!Known(t)
<1> DEFINE T == {u \in Seq(W) : Editor!Known(Editor!Known(u)) = Editor!Known(u)}
<1>1. <<>> \in T
  BY KnownTypes
<1>2. ASSUME NEW v \in Seq(W), NEW e \in W, v \in T PROVE Append(v, e) \in T
  <2>1. Editor!Known(Editor!Known(v)) = Editor!Known(v)
    BY <1>2
  <2>2. Editor!Known(Append(v, e)) = Editor!Keep(Editor!Known(v), e) /\ Append(v, e) \in Seq(W)
    BY KnownAppend
  <2>3. Editor!Known(v) \in Seq(W)
    BY KnownTypes
  <2>4. CASE Editor!Foreign(e)
    BY <2>1, <2>2, <2>4 DEF Editor!Keep
  <2>5. CASE ~Editor!Foreign(e)
    <3>1. \A p : Editor!Keep(p, e) = Append(p, e)
      BY <2>5 DEF Editor!Keep
    <3>2. Editor!Known(Append(Editor!Known(v), e)) = Editor!Keep(Editor!Known(Editor!Known(v)), e)
      BY <2>3, KnownAppend
    <3> QED
      BY <2>1, <2>2, <3>1, <3>2
  <2> QED
    BY <2>4, <2>5
<1> HIDE DEF T
<1>3. Seq(W) \subseteq T
  BY <1>1, <1>2, SeqInduction
<1> QED
  BY <1>3 DEF T

\* FlattenSeq, as the recursion it is.
Flattens(f, W, m, c) == /\ f \in [1 .. m -> Seq(W)]
                        /\ f[1] = c[1] /\ Editor!FlattenSeq(c) = f[m]
                        /\ \A n \in 2 .. m : f[n] = f[n - 1] \o c[n]
LEMMA FlattenTurns ==
  ASSUME NEW W, NEW m \in Nat \ {0}, NEW c \in [1 .. m -> Seq(W)]
  PROVE  \E f : Flattens(f, W, m, c)
<1> DEFINE X == Seq(W)
      G == [p \in X \X Nat |-> IF p[2] \in 1 .. m - 1 THEN p[1] \o c[p[2] + 1] ELSE p[1]]
      Body(g) == [n \in 1 .. m |-> IF n = 1 THEN c[n] ELSE g[n - 1] \o c[n]]
      h == CHOOSE g : g = Body(g)
<1>0. m - 1 \in Nat /\ 1 \in 1 .. m /\ m \in 1 .. m /\ \A n \in 1 .. m - 1 : n + 1 \in 1 .. m
  OBVIOUS
<1>1. (\A n \in 1 .. m : c[n] \in X) /\ \A s, e \in X : s \o e \in X
  OBVIOUS
<1>2. Editor!FlattenSeq(c) = h[m]
  <2>1. Len(c) = m
    OBVIOUS
  <2> QED
    BY <2>1 DEF Editor!FlattenSeq
<1> HIDE DEF X
<1>3. G \in [X \X Nat -> X]
  BY <1>0, <1>1
<1>4. PICK g : g \in [0 .. m - 1 -> X] /\ g[0] = c[1] /\ \A n \in 1 .. m - 1 : g[n] = G[<<g[n - 1], n>>]
  <2> HIDE DEF G
  <2>1. Followed(X, c[1], G, m - 1)
    BY <1>0, <1>1, <1>3, Recursion
  <2> QED
    BY <2>1 DEF Followed, Follows
<1> DEFINE f == [n \in 1 .. m |-> g[n - 1]]
<1>5. f \in [1 .. m -> X] /\ f[1] = c[1] /\ \A n \in 2 .. m : f[n] = f[n - 1] \o c[n]
  <2>1. f \in [1 .. m -> X] /\ f[1] = c[1]
    <3>1. \A n \in 1 .. m : n - 1 \in 0 .. m - 1
      OBVIOUS
    <3> QED
      BY <1>0, <1>4, <3>1
  <2>2. ASSUME NEW n \in 2 .. m PROVE f[n] = f[n - 1] \o c[n]
    <3>1. /\ n \in 1 .. m /\ n - 1 \in 1 .. m /\ n - 1 \in 1 .. m - 1 /\ n - 1 \in Nat
          /\ (n - 1) - 1 \in 0 .. m - 1 /\ (n - 1) + 1 = n
      OBVIOUS
    <3>2. f[n] = g[n - 1] /\ f[n - 1] = g[(n - 1) - 1]
      BY <3>1
    <3>3. g[n - 1] = G[<<g[(n - 1) - 1], n - 1>>]
      BY <1>4, <3>1
    <3>4. <<g[(n - 1) - 1], n - 1>> \in X \X Nat
      BY <1>4, <3>1
    <3>5. G[<<g[(n - 1) - 1], n - 1>>] = g[(n - 1) - 1] \o c[n]
      BY <3>1, <3>4
    <3> QED
      BY <3>2, <3>3, <3>5
  <2> QED
    BY <2>1, <2>2
<1> HIDE DEF f, G
<1>6. h = Body(h)
  <2>1. f = [n \in 1 .. m |-> f[n]]
    BY <1>5
  <2>2. \A n \in 1 .. m : n = 1 \/ n \in 2 .. m
    OBVIOUS
  <2>3. \A n \in 1 .. m : f[n] = IF n = 1 THEN c[n] ELSE f[n - 1] \o c[n]
    BY <1>5, <2>2
  <2>4. f = Body(f)
    BY <2>1, <2>3
  <2> QED
    BY <2>4
<1> HIDE DEF h
<1>7. h[1] = c[1] /\ \A n \in 2 .. m : h[n] = h[n - 1] \o c[n]
  <2>1. 2 .. m \subseteq 1 .. m /\ \A n \in 2 .. m : n # 1
    OBVIOUS
  <2>2. \A n \in 1 .. m : h[n] = IF n = 1 THEN c[n] ELSE h[n - 1] \o c[n]
    BY <1>6
  <2> QED
    BY <1>0, <2>1, <2>2
<1>8. \A n \in 1 .. m : h[n] = f[n]
  <2> DEFINE T == {k \in Nat : k + 1 <= m => h[k + 1] = f[k + 1]}
  <2>1. 0 \in T
    BY <1>5, <1>7
  <2>2. ASSUME NEW k \in Nat, k \in T PROVE k + 1 \in T
    <3> SUFFICES ASSUME (k + 1) + 1 <= m PROVE h[(k + 1) + 1] = f[(k + 1) + 1]
      OBVIOUS
    <3>1. (k + 1) + 1 \in 2 .. m /\ ((k + 1) + 1) - 1 = k + 1 /\ k + 1 <= m
      OBVIOUS
    <3>2. h[k + 1] = f[k + 1]
      BY <2>2, <3>1
    <3> QED
      BY <1>5, <1>7, <3>1, <3>2
  <2> HIDE DEF T
  <2>3. Nat \subseteq T
    BY <2>1, <2>2, Induction
  <2> SUFFICES ASSUME NEW n \in 1 .. m PROVE h[n] = f[n]
    OBVIOUS
  <2>4. n - 1 \in Nat /\ (n - 1) + 1 = n /\ n <= m
    OBVIOUS
  <2>5. n - 1 \in T
    BY <2>3, <2>4
  <2> QED
    BY <2>4, <2>5 DEF T
<1>9. Editor!FlattenSeq(c) = f[m]
  BY <1>0, <1>2, <1>8
<1> QED
  BY <1>5, <1>9 DEF X, Flattens

\* Where onClear cuts the words: the last one of the k-th part.
Cut(k) == IF k = N THEN Len(tokens) ELSE k * w + 1

LEMMA EditorConstants ==
  /\ N \in Nat \ {0} /\ <<>> \in Texts
  /\ \A t \in Texts : t \in Seq(Words)
  /\ Narrow \in [Words -> Seq(Editor!Plain)] /\ Editor!Plain \subseteq Words
BY ProgramsAssumption DEF Editor!SizeAssumption, Editor!Plain

\* What is read is plain words.
LEMMA ReadTypes ==
  ASSUME NEW t \in Seq(Words)
  PROVE  Editor!Read(t) \in Seq(Editor!Plain)
<1> DEFINE m == Len(t)  c == [n \in DOMAIN t |-> Narrow[t[n]]]
<1>1. m \in Nat /\ c \in [1 .. m -> Seq(Editor!Plain)]
  BY EditorConstants
<1>2. CASE m = 0
  <2>1. Len(c) = 0 /\ c = <<>>
    BY <1>2
  <2> QED
    BY <2>1 DEF Editor!Read, Editor!FlattenSeq
<1>3. CASE m # 0
  <2> HIDE DEF c, m
  <2>1. PICK f : Flattens(f, Editor!Plain, m, c)
    BY <1>1, <1>3, FlattenTurns
  <2>2. m \in 1 .. m
    BY <1>1, <1>3
  <2> QED
    BY <2>1, <2>2 DEF Flattens, Editor!Read, c
<1> QED
  BY <1>2, <1>3

\* Plain words are read as they are.
LEMMA ReadPlain ==
  ASSUME NEW t \in Seq(Editor!Plain)
  PROVE  Editor!Read(t) = t
<1> DEFINE m == Len(t)  c == [n \in DOMAIN t |-> Narrow[t[n]]]
<1>1. m \in Nat /\ \A n \in 1 .. m : t[n] \in Editor!Plain /\ c[n] = <<t[n]>>
  BY DEF Editor!Plain
<1>2. c \in [1 .. m -> Seq(Editor!Plain)]
  <2>1. DOMAIN t = 1 .. m
    OBVIOUS
  <2>2. \A n \in 1 .. m : Narrow[t[n]] \in Seq(Editor!Plain)
    <3> SUFFICES ASSUME NEW n \in 1 .. m PROVE Narrow[t[n]] \in Seq(Editor!Plain)
      OBVIOUS
    <3>1. t[n] \in Words
      BY <1>1, EditorConstants
    <3> QED
      BY <3>1, EditorConstants
  <2> QED
    BY <2>1, <2>2
<1>3. CASE m = 0
  <2>1. Len(c) = 0 /\ c = <<>> /\ t = <<>>
    BY <1>3
  <2> QED
    BY <2>1 DEF Editor!Read, Editor!FlattenSeq
<1>4. CASE m # 0
  <2>1. Editor!Read(t) = Editor!FlattenSeq(c)
    BY DEF Editor!Read
  <2>2. t = SubSeq(t, 1, m)
    BY SubSeqFull
  <2>3. \A n \in 1 .. m - 1 : SubSeq(t, 1, n) \o <<t[n + 1]>> = SubSeq(t, 1, n + 1)
    OBVIOUS
  <2>4. SubSeq(t, 1, 1) = <<t[1]>>
    <3>1. \A n \in 1 .. 1 : t[n] \in Editor!Plain
      BY <1>1, <1>4
    <3>2. /\ SubSeq(t, 1, 1) \in Seq(Editor!Plain) /\ Len(SubSeq(t, 1, 1)) = 1
          /\ SubSeq(t, 1, 1)[1] = t[1]
      BY <3>1, SubSeqProperties
    <3>3. t[1] \in Editor!Plain
      BY <3>1
    <3>4. <<t[1]>> \in Seq(Editor!Plain) /\ Len(<<t[1]>>) = 1 /\ <<t[1]>>[1] = t[1]
      BY <3>3
    <3>5. \A n \in 1 .. 1 : SubSeq(t, 1, 1)[n] = <<t[1]>>[n]
      BY <3>2, <3>4
    <3> QED
      BY <3>2, <3>4, <3>5, SeqEqual
  <2> HIDE DEF c, m
  <2>5. PICK f : Flattens(f, Editor!Plain, m, c)
    BY <1>1, <1>2, <1>4, FlattenTurns
  <2> DEFINE T == {k \in Nat : k + 1 <= m => f[k + 1] = SubSeq(t, 1, k + 1)}
  <2>6. 0 \in T
    BY <1>1, <1>4, <2>4, <2>5 DEF Flattens
  <2>7. ASSUME NEW k \in Nat, k \in T PROVE k + 1 \in T
    <3> SUFFICES ASSUME (k + 1) + 1 <= m PROVE f[(k + 1) + 1] = SubSeq(t, 1, (k + 1) + 1)
      OBVIOUS
    <3>1. (k + 1) + 1 \in 2 .. m /\ ((k + 1) + 1) - 1 = k + 1 /\ k + 1 <= m /\ k + 1 \in 1 .. m - 1
          /\ (k + 1) + 1 \in 1 .. m
      BY <1>1
    <3>2. f[k + 1] = SubSeq(t, 1, k + 1) /\ c[(k + 1) + 1] = <<t[(k + 1) + 1]>>
      BY <1>1, <2>7, <3>1
    <3>3. f[(k + 1) + 1] = f[k + 1] \o c[(k + 1) + 1]
      BY <2>5, <3>1 DEF Flattens
    <3> QED
      BY <2>3, <3>1, <3>2, <3>3
  <2> HIDE DEF T
  <2>8. Nat \subseteq T
    BY <2>6, <2>7, Induction
  <2>9. m - 1 \in Nat /\ (m - 1) + 1 = m
    BY <1>1, <1>4
  <2>10. f[m] = SubSeq(t, 1, m)
    BY <2>8, <2>9 DEF T
  <2> QED
    BY <2>1, <2>2, <2>5, <2>10 DEF Flattens
<1> QED
  BY <1>3, <1>4

\* The parts are in the text, one after the other.
LEMMA Cuts ==
  ASSUME NEW n \in Nat \ {0}, NEW l \in Nat \ {0}, NEW q \in Nat, n * q <= l, NEW k \in Nat, k < n
  PROVE  k * q + 1 \in 1 .. l
<1>1. (k + 1) * q = k * q + q /\ k * q \in Nat
  OBVIOUS
<1>2. n * q >= k * q + q
  <2>1. q * k + q <= q * n
    BY TimesMonotone
  <2> QED
    BY <2>1
<1>3. k * q + 1 <= l
  <2>1. CASE q = 0
    BY <2>1
  <2>2. CASE q > 0
    BY <1>1, <1>2, <2>2
  <2> QED
    BY <2>1, <2>2
<1> QED
  BY <1>1, <1>3

LEMMA NextCut ==
  ASSUME NEW q \in Nat, NEW k \in Nat
  PROVE  (k + 1) * q + 1 = (k * q + 1) + q
OBVIOUS

\* The parts, put together, are the words; so what is known of them is what is known of it.
LEMMA SomePartsJoined ==
  ASSUME NEW W, tokens \in Seq(W), tokens # <<>>, w = Len(tokens) \div N, chunk \in [1 .. N -> Seq(W)],
         \A k \in 1 .. N : chunk[k] = Editor!Known(Editor!Chunk(k))
  PROVE  Editor!FlattenSeq(chunk) = Editor!Known(tokens)
<1> DEFINE l == Len(tokens)
<1>1. N \in Nat \ {0} /\ l \in Nat \ {0} /\ w \in Nat /\ N * w <= l
  <2>1. N \in Nat \ {0} /\ Len(tokens) \in Nat \ {0}
    BY EditorConstants
  <2>2. Len(tokens) \div N \in Nat /\ N * (Len(tokens) \div N) <= Len(tokens)
    BY <2>1, Quotient
  <2> QED
    BY <2>1, <2>2
<1>2. PICK f : /\ f \in [1 .. N -> Seq(W)]
               /\ f[1] = chunk[1] /\ Editor!FlattenSeq(chunk) = f[N]
               /\ \A n \in 2 .. N : f[n] = f[n - 1] \o chunk[n]
  <2>1. \E f : Flattens(f, W, N, chunk)
    BY <1>1, FlattenTurns
  <2> QED
    BY <2>1 DEF Flattens
<1> HIDE DEF l
<1>3. ASSUME NEW k \in Nat, k < N
      PROVE  k * w + 1 \in 1 .. l /\ (k + 1) * w + 1 = (k * w + 1) + w
  <2>1. k * w + 1 \in 1 .. l
    BY <1>1, <1>3, Cuts
  <2>2. (k + 1) * w + 1 = (k * w + 1) + w
    BY <1>1, NextCut
  <2> QED
    BY <2>1, <2>2
<1>4. \A k \in 1 .. N : Cut(k) \in 1 .. l
  <2> SUFFICES ASSUME NEW k \in 1 .. N PROVE Cut(k) \in 1 .. l
    OBVIOUS
  <2>1. CASE k = N
    BY <1>1, <2>1 DEF Cut, l
  <2>2. CASE k # N
    <3>1. k \in Nat /\ k < N
      BY <1>1, <2>2
    <3>2. k * w + 1 \in 1 .. l
      BY <1>3, <3>1
    <3> QED
      BY <2>2, <3>2 DEF Cut
  <2> QED
    BY <2>1, <2>2
<1>5. Editor!Chunk(1) = SubSeq(tokens, 1, Cut(1))
  BY <1>1 DEF Editor!Chunk, Cut
<1>6. ASSUME NEW k \in 2 .. N
      PROVE  /\ Editor!Chunk(k) = SubSeq(tokens, Cut(k - 1) + 1, Cut(k))
             /\ Cut(k - 1) \in 1 .. l /\ Cut(k) \in Cut(k - 1) .. l
  <2>1. k - 1 \in 1 .. N /\ k \in 1 .. N /\ k # 1 /\ k - 1 # N /\ k - 1 \in Nat /\ k - 1 < N
    BY <1>1
  <2>2. Cut(k - 1) = (k - 1) * w + 1
    BY <2>1 DEF Cut
  <2>3. Cut(k - 1) \in 1 .. l /\ Cut(k) \in 1 .. l
    BY <1>4, <2>1
  <2>4. Cut(k - 1) <= Cut(k)
    <3>1. CASE k = N
      BY <1>1, <2>3, <3>1 DEF Cut, l
    <3>2. CASE k # N
      <4>1. ((k - 1) + 1) * w + 1 = ((k - 1) * w + 1) + w
        BY <1>3, <2>1
      <4>2. Cut(k) = k * w + 1 /\ (k - 1) + 1 = k
        BY <3>2 DEF Cut
      <4> QED
        BY <1>1, <2>2, <2>3, <4>1, <4>2
    <3> QED
      BY <3>1, <3>2
  <2>5. Editor!Chunk(k) = SubSeq(tokens, ((k - 1) * w + 1) + 1, Cut(k))
    BY <2>1 DEF Editor!Chunk, Cut
  <2>6. Editor!Chunk(k) = SubSeq(tokens, Cut(k - 1) + 1, Cut(k))
    BY <2>2, <2>5
  <2>7. Cut(k) \in Cut(k - 1) .. l
    BY <1>1, <2>3, <2>4
  <2> QED
    BY <2>3, <2>6, <2>7
<1>7. \A k \in 1 .. N : f[k] = Editor!Known(SubSeq(tokens, 1, Cut(k)))
  <2> DEFINE T == {k \in Nat : k + 1 <= N => f[k + 1] = Editor!Known(SubSeq(tokens, 1, Cut(k + 1)))}
  <2>1. 0 \in T
    <3>1. 1 \in 1 .. N /\ 0 + 1 = 1
      BY <1>1
    <3>2. f[1] = Editor!Known(SubSeq(tokens, 1, Cut(1)))
      BY <1>2, <1>5, <3>1
    <3> QED
      BY <3>1, <3>2
  <2>2. ASSUME NEW j \in Nat, j \in T PROVE j + 1 \in T
    <3> DEFINE k == (j + 1) + 1
    <3> SUFFICES ASSUME k <= N PROVE f[k] = Editor!Known(SubSeq(tokens, 1, Cut(k)))
      OBVIOUS
    <3>1. k \in 2 .. N /\ k - 1 = j + 1 /\ j + 1 <= N /\ k \in 1 .. N
      BY <1>1
    <3>2. f[k - 1] = Editor!Known(SubSeq(tokens, 1, Cut(k - 1)))
      BY <2>2, <3>1
    <3> HIDE DEF k
    <3>3. f[k] = f[k - 1] \o Editor!Known(Editor!Chunk(k))
      BY <1>2, <3>1
    <3>4. /\ Editor!Chunk(k) = SubSeq(tokens, Cut(k - 1) + 1, Cut(k))
          /\ Cut(k - 1) \in 1 .. l /\ Cut(k) \in Cut(k - 1) .. l
      BY <1>6, <3>1
    <3>5. SubSeq(tokens, 1, Cut(k - 1)) \o SubSeq(tokens, Cut(k - 1) + 1, Cut(k)) = SubSeq(tokens, 1, Cut(k))
      <4>1. 1 \in 1 .. l + 1 /\ Cut(k - 1) \in 1 - 1 .. l
        BY <1>1, <3>4
      <4> QED
        BY <3>4, <4>1, ConcatAdjacentSubSeq DEF l
    <3>6. SubSeq(tokens, 1, Cut(k - 1)) \in Seq(W) /\ SubSeq(tokens, Cut(k - 1) + 1, Cut(k)) \in Seq(W)
      <4>1. /\ \A i1 \in 1 .. Cut(k - 1) : tokens[i1] \in W
            /\ \A i1 \in Cut(k - 1) + 1 .. Cut(k) : tokens[i1] \in W
        BY <1>1, <3>4 DEF l
      <4>2. 1 \in Int /\ Cut(k - 1) \in Int /\ Cut(k - 1) + 1 \in Int /\ Cut(k) \in Int
        BY <1>1, <3>4
      <4> QED
        BY <4>1, <4>2, SubSeqProperties
    <3>7. Editor!Known(SubSeq(tokens, 1, Cut(k)))
             = Editor!Known(SubSeq(tokens, 1, Cut(k - 1))) \o Editor!Known(SubSeq(tokens, Cut(k - 1) + 1, Cut(k)))
      BY <3>5, <3>6, KnownConcat
    <3> QED
      BY <3>2, <3>3, <3>4, <3>7
  <2> HIDE DEF T
  <2>3. Nat \subseteq T
    BY <2>1, <2>2, Induction
  <2>4. \A n \in 1 .. N : n - 1 \in Nat /\ (n - 1) + 1 = n /\ n <= N
    BY <1>1
  <2> QED
    BY <2>3, <2>4 DEF T
<1>8. f[N] = Editor!Known(SubSeq(tokens, 1, Len(tokens)))
  <2>1. N \in 1 .. N /\ Cut(N) = Len(tokens)
    BY <1>1 DEF Cut
  <2> QED
    BY <1>7, <2>1
<1>9. SubSeq(tokens, 1, Len(tokens)) = tokens
  BY SubSeqFull
<1> QED
  BY <1>2, <1>8, <1>9

\* Without any words all the parts are empty.
LEMMA PartsJoined ==
  ASSUME NEW W, tokens \in Seq(W), w = Len(tokens) \div N, chunk \in [1 .. N -> Seq(W)],
         \A k \in 1 .. N : chunk[k] = Editor!Known(Editor!Chunk(k))
  PROVE  Editor!FlattenSeq(chunk) = Editor!Known(tokens)
<1>1. CASE tokens # <<>>
  BY <1>1, SomePartsJoined
<1>2. CASE tokens = <<>>
  <2>1. N \in Nat \ {0} /\ w = 0
    <3>1. N \in Nat \ {0} /\ Len(tokens) = 0
      BY <1>2, EditorConstants
    <3>2. 0 \div N \in Nat /\ N * (0 \div N) <= 0
      BY <3>1, Quotient
    <3>3. 0 \div N = 0
      <4>1. \A q \in Nat : 0 < q => N * 0 + N <= N * q
        BY <3>1, TimesMonotone
      <4> QED
        BY <3>1, <3>2, <4>1
    <3> QED
      BY <3>1, <3>3
  <2>2. ASSUME NEW k \in 1 .. N PROVE chunk[k] = <<>>
    <3> DEFINE b == IF k = 1 THEN 0 ELSE (k - 1) * w + 1
    <3>1. b \in Nat
      BY <2>1
    <3>2. Editor!Chunk(k) = SubSeq(tokens, b + 1, 0)
      BY <1>2 DEF Editor!Chunk
    <3> HIDE DEF b
    <3>3. SubSeq(tokens, b + 1, 0) = <<>>
      BY <3>1, SubSeqProperties
    <3> QED
      BY <3>2, <3>3, KnownTypes
  <2>3. PICK f : Flattens(f, W, N, chunk)
    BY <2>1, FlattenTurns
  <2> DEFINE T == {k \in Nat : k + 1 <= N => f[k + 1] = <<>>}
  <2>4. 0 \in T
    BY <2>1, <2>2, <2>3 DEF Flattens
  <2>5. ASSUME NEW k \in Nat, k \in T PROVE k + 1 \in T
    <3> SUFFICES ASSUME (k + 1) + 1 <= N PROVE f[(k + 1) + 1] = <<>>
      OBVIOUS
    <3>1. (k + 1) + 1 \in 2 .. N /\ (k + 1) + 1 \in 1 .. N /\ ((k + 1) + 1) - 1 = k + 1 /\ k + 1 <= N
      BY <2>1
    <3>2. f[k + 1] = <<>> /\ chunk[(k + 1) + 1] = <<>>
      BY <2>2, <2>5, <3>1
    <3>3. f[(k + 1) + 1] = <<>> \o <<>>
      BY <2>3, <3>1, <3>2 DEF Flattens
    <3> QED
      BY <3>3
  <2> HIDE DEF T
  <2>6. Nat \subseteq T
    BY <2>4, <2>5, Induction
  <2>7. N - 1 \in Nat /\ (N - 1) + 1 = N /\ N <= N
    BY <2>1
  <2>8. f[N] = <<>>
    BY <2>6, <2>7 DEF T
  <2> QED
    BY <1>2, <2>3, <2>8, KnownTypes DEF Flattens
<1> QED
  BY <1>1, <1>2

-----------------------------------------------------------------------------
(* The invariant of the notepad with its workers.                          *)
(*                                                                         *)
(* A part is with one party at a time: it waits for its worker (ready), is *)
(* with the worker, or waits for the editor (cleared), which counts it     *)
(* (done); and before, between and after it is with nobody.  So a worker   *)
(* never reads a part that the editor still writes, and clears each once.  *)

Workers == 1 .. N
Written == /\ text \in Seq(Words) /\ file \in Seq(Words) /\ tokens \in Seq(Editor!Plain)
           /\ chunk \in [Workers -> Seq(Editor!Plain)]

\* What was typed since the last save has left a mark.
KnownIn(t) == Editor!Known(Editor!Read(t))
Marked == ~textChanged /\ ~broken => KnownIn(text) = KnownIn(file)

InRound == epc \in {"sending", "waiting"}
Sent(k) == epc = "waiting" \/ (epc = "sending" /\ k < i)
Busy(k) == k \in ready \/ k \in cleared \/ wpc[k] \in {"reading", "ready"}
Resting == ~InRound /\ epc # "astray" => \A k \in Workers : ~Busy(k)

InOnePlace(k) == /\ k \in ready => wpc[k] \notin {"reading", "ready"} /\ k \notin cleared /\ k \notin done
                 /\ wpc[k] \in {"reading", "ready"} => k \notin cleared /\ k \notin done
                 /\ k \in cleared => k \notin done
Share(k) == /\ ~Sent(k) => ~Busy(k) /\ k \notin done
            /\ InOnePlace(k)
            /\ k \in ready \/ wpc[k] = "reading" => chunk[k] = Editor!Chunk(k)
            /\ k \in cleared \/ k \in done \/ wpc[k] = "ready" => chunk[k] = Editor!Known(Editor!Chunk(k))
Divided == tokens = Editor!Read(text) /\ w = Len(tokens) \div N
Sharing == /\ InRound => Divided /\ \A k \in Workers : Share(k)
           /\ epc = "joining" => Divided /\ \A k \in Workers : chunk[k] = Editor!Known(Editor!Chunk(k))

EditorInv == /\ Editor!TypeOK /\ Written /\ Marked /\ Editor!NothingTypedIsLost /\ Resting /\ Sharing

LEMMA ChunkTypes ==
  ASSUME Written, Divided, NEW k \in Workers
  PROVE  Editor!Chunk(k) \in Seq(Editor!Plain) /\ Editor!Known(Editor!Chunk(k)) \in Seq(Editor!Plain)
<1> DEFINE l == Len(tokens)
<1>1. N \in Nat \ {0} /\ l \in Nat /\ w \in Nat /\ N * w <= l
  <2>0. tokens \in Seq(Editor!Plain) /\ w = Len(tokens) \div N
    BY DEF Written, Divided
  <2>1. N \in Nat \ {0} /\ Len(tokens) \in Nat
    BY <2>0, EditorConstants
  <2>2. Len(tokens) \div N \in Nat /\ N * (Len(tokens) \div N) <= Len(tokens)
    BY <2>1, Quotient
  <2> QED
    BY <2>0, <2>1, <2>2
<1> HIDE DEF l
<1> DEFINE a == IF k = 1 THEN 0 ELSE (k - 1) * w + 1
           b == IF k = N \/ tokens = <<>> THEN Len(tokens) ELSE k * w + 1
<1>2. a \in Nat /\ b \in 0 .. l
  <2>1. (k - 1) * w + 1 \in Nat
    <3>1. k - 1 \in Nat /\ w \in Nat
      BY <1>1 DEF Workers
    <3>2. (k - 1) * w \in Nat
      BY <3>1
    <3> QED
      BY <3>2
  <2>2. a \in Nat
    BY <2>1
  <2>3. CASE k = N \/ tokens = <<>>
    BY <1>1, <2>2, <2>3 DEF l
  <2>4. CASE k # N /\ tokens # <<>>
    <3>1. k \in Nat /\ k < N /\ l \in Nat \ {0}
      BY <1>1, <2>4 DEF Workers, Written, l
    <3>2. k * w + 1 \in 1 .. l
      BY <1>1, <3>1, Cuts
    <3>3. b = k * w + 1
      BY <2>4
    <3> QED
      BY <2>2, <3>2, <3>3
  <2> QED
    BY <2>3, <2>4
<1>5. Editor!Chunk(k) = SubSeq(tokens, a + 1, b)
  BY DEF Editor!Chunk
<1> HIDE DEF a, b
<1>6. \A j \in a + 1 .. b : tokens[j] \in Editor!Plain
  <2> SUFFICES ASSUME NEW j \in a + 1 .. b PROVE tokens[j] \in Editor!Plain
    OBVIOUS
  <2>1. j \in 1 .. l
    BY <1>1, <1>2
  <2> QED
    BY <2>1, ElementOfSeq DEF Written, l
<1>7. a + 1 \in Int /\ b \in Int
  BY <1>1, <1>2
<1>8. SubSeq(tokens, a + 1, b) \in Seq(Editor!Plain)
  BY <1>6, <1>7, SubSeqProperties
<1> QED
  BY <1>5, <1>8, KnownTypes

LEMMA SameChunk ==
  ASSUME UNCHANGED <<tokens, w>>
  PROVE  \A k \in Workers : Editor!Chunk(k)' = Editor!Chunk(k)
BY DEF Editor!Chunk

LEMMA EditorInit == Editor!Init => EditorInv
<1> SUFFICES ASSUME Editor!Init PROVE EditorInv
  OBVIOUS
<1>1. <<>> \in Seq(Words) /\ <<>> \in Seq(Editor!Plain) /\ 1 \in Workers
  BY EditorConstants DEF Workers
<1>2. Editor!TypeOK
  BY <1>1 DEF Editor!Init, Editor!TypeOK, Editor!Worker, Workers, Editor!EditorStates, Editor!WorkerStates
<1>3. Written
  BY <1>1 DEF Editor!Init, Written, Editor!Worker, Workers
<1> QED
  BY <1>2, <1>3 DEF Editor!Init, EditorInv, Marked, KnownIn, Editor!NothingTypedIsLost, Resting, InRound, Sharing, Busy,
     Editor!Worker, Workers

\* Handlers that are over at once.
LEMMA IdleHolds ==
  ASSUME EditorInv, ~InRound, epc # "astray", epc' \in Editor!EditorStates \ {"sending", "waiting", "joining"},
         text' \in Seq(Words), file' \in Seq(Words), textChanged' \in BOOLEAN,
         broken' \in BOOLEAN, Marked', Editor!NothingTypedIsLost', i' \in Workers,
         tokens' \in Seq(Editor!Plain), w' \in Nat,
         UNCHANGED <<wpc, ready, cleared, chunk>>, handles' \subseteq Workers, done' \subseteq Workers
  PROVE  EditorInv'
<1>1. Editor!TypeOK'
  BY DEF EditorInv, Editor!TypeOK, Editor!Worker, Workers
<1>2. Written' /\ Resting' /\ Sharing'
  BY DEF EditorInv, Written, Resting, Sharing, InRound, Busy
<1> QED
  BY <1>1, <1>2 DEF EditorInv

LEMMA UserHolds ==
  ASSUME EditorInv, Editor!User
  PROVE  EditorInv'
<1>1. epc = "idle" /\ epc # "astray" /\ ~InRound
  BY DEF Editor!User, Editor!Type, Editor!OpenFile, Editor!Save, Editor!Close, Editor!Quit, Editor!Clear, InRound
<1>2. /\ text \in Seq(Words) /\ file \in Seq(Words) /\ textChanged \in BOOLEAN /\ broken \in BOOLEAN
      /\ tokens \in Seq(Editor!Plain) /\ w \in Nat /\ <<>> \in Seq(Words)
      /\ i \in Workers /\ handles \subseteq Workers /\ done \subseteq Workers /\ 1 \in Workers /\ Marked
  BY EditorConstants DEF EditorInv, Written, Editor!TypeOK, Editor!Worker, Workers
<1>3. {"idle", "opening", "closed", "closed unasked", "quit"} \subseteq Editor!EditorStates \ {"sending", "waiting", "joining"}
  BY DEF Editor!EditorStates
<1>4. CASE \E t \in Texts : Editor!Type(t) \/ Editor!OpenFile(t)
  <2>1. PICK t \in Texts : Editor!Type(t) \/ Editor!OpenFile(t)
    BY <1>4
  <2>2. t \in Seq(Words)
    BY EditorConstants
  <2>3. /\ text' = t /\ file' \in {t, file} /\ textChanged' \in BOOLEAN /\ broken' \in {broken, FALSE}
        /\ epc' = "idle" /\ UNCHANGED <<wpc, ready, cleared, chunk, tokens, w, i, handles, done>>
        /\ ~textChanged' => file' = text'
    BY <1>1, <2>1 DEF Editor!Type, Editor!OpenFile, Editor!clearing
  <2>4. Marked' /\ Editor!NothingTypedIsLost'
    BY <2>3 DEF Marked, KnownIn, Editor!NothingTypedIsLost
  <2> QED
    BY <1>1, <1>2, <1>3, <2>2, <2>3, <2>4, IdleHolds
<1>5. CASE Editor!Save \/ Editor!Close \/ Editor!Quit \/ Editor!Clear
  <2>1. /\ text' = text
        /\ \/ file' = text /\ textChanged' = FALSE /\ broken' = FALSE
           \/ UNCHANGED <<file, textChanged, broken>>
           \/ file' = <<>> /\ broken' = TRUE /\ textChanged' = textChanged
        /\ epc' \in {"idle", "opening", "closed", "closed unasked", "quit"}
        /\ epc' = "closed unasked" => ~textChanged /\ UNCHANGED <<file, textChanged, broken>>
        /\ UNCHANGED <<wpc, ready, cleared, chunk, tokens, w, handles, done>> /\ i' \in {i, 1}
    BY <1>1, <1>5 DEF Editor!Save, Editor!Close, Editor!Quit, Editor!Clear, Editor!SaveText, Editor!clearing, Editor!edited
  <2>2. Marked'
    <3>1. CASE file' = text
      BY <2>1, <3>1 DEF Marked, KnownIn
    <3>2. CASE UNCHANGED <<file, textChanged, broken>>
      BY <1>2, <2>1, <3>2 DEF Marked, KnownIn
    <3>3. CASE broken' = TRUE
      BY <3>3 DEF Marked
    <3> QED
      BY <2>1, <3>1, <3>2, <3>3
  <2>3. Editor!NothingTypedIsLost'
    <3> SUFFICES ASSUME epc' = "closed unasked", ~broken' PROVE KnownIn(text)' = KnownIn(file)'
      BY DEF Editor!NothingTypedIsLost, KnownIn
    <3>1. ~textChanged /\ UNCHANGED <<text, file, textChanged, broken>>
      BY <2>1
    <3>2. KnownIn(text) = KnownIn(file)
      BY <1>2, <3>1 DEF Marked
    <3> QED
      BY <3>1, <3>2 DEF KnownIn
  <2> QED
    BY <1>1, <1>2, <1>3, <2>1, <2>2, <2>3, IdleHolds
<1> QED
  BY <1>4, <1>5 DEF Editor!User

\* Steps of onClear, and of the workers, that leave what was typed alone.
LEMMA RoundHolds ==
  ASSUME EditorInv, UNCHANGED <<text, textChanged, file, broken>>, epc' # "closed unasked",
         Editor!TypeOK', tokens' \in Seq(Editor!Plain), chunk' \in [Workers -> Seq(Editor!Plain)], Resting', Sharing'
  PROVE  EditorInv'
BY DEF EditorInv, Written, Marked, KnownIn, Editor!NothingTypedIsLost

LEMMA OpenEventsHolds ==
  ASSUME EditorInv, Editor!OpenEvents
  PROVE  EditorInv'
<1>1. /\ epc = "opening" /\ epc # "astray" /\ ~InRound /\ UNCHANGED <<text, textChanged, file, broken, ready, cleared, chunk, wpc>>
      /\ handles' \in {handles \cup {i}, handles \ {i}}
      /\ \/ i < N /\ i' = i + 1 /\ UNCHANGED <<epc, tokens, w, done>>
         \/ epc' = "idle" /\ i' = 1 /\ UNCHANGED <<tokens, w, done>>
         \/ /\ epc' \in {"sending", "astray"} /\ i' = 1
            /\ tokens' = Editor!Read(text) /\ w' = Len(tokens') \div N /\ done' = {}
  BY DEF Editor!OpenEvents, Editor!edited, InRound
<1>2. /\ Editor!TypeOK /\ N \in Nat \ {0} /\ text \in Seq(Words) /\ tokens \in Seq(Editor!Plain)
      /\ chunk \in [Workers -> Seq(Editor!Plain)] /\ Resting
  BY EditorConstants DEF EditorInv, Written
<1>3. Editor!Read(text) \in Seq(Editor!Plain) /\ Len(Editor!Read(text)) \div N \in Nat
  <2>1. Editor!Read(text) \in Seq(Editor!Plain)
    BY <1>2, ReadTypes
  <2>2. Len(Editor!Read(text)) \in Nat
    BY <2>1
  <2> QED
    BY <1>2, <2>1, <2>2, Quotient
<1>4. i' \in Workers /\ tokens' \in Seq(Editor!Plain) /\ w' \in Nat /\ done' \subseteq Workers /\ handles' \subseteq Workers
  <2>2. i \in Workers /\ 1 \in Workers /\ w \in Nat /\ done \subseteq Workers /\ handles \subseteq Workers
    BY <1>2 DEF Editor!TypeOK, Editor!Worker, Workers
  <2>3. i < N => i + 1 \in Workers
    BY <1>2, <2>2 DEF Workers
  <2> QED
    BY <1>1, <1>2, <1>3, <2>2, <2>3
<1>5. epc' \in Editor!EditorStates /\ epc' \notin {"closed unasked", "joining"}
  BY <1>1 DEF Editor!EditorStates
<1>6. Editor!TypeOK'
  BY <1>1, <1>2, <1>4, <1>5 DEF Editor!TypeOK, Editor!Worker, Workers
<1>7. \A k \in Workers : ~Busy(k)'
  BY <1>1, <1>2 DEF Resting, Busy
<1>8. Resting'
  BY <1>7 DEF Resting
<1>9. Sharing'
  <2>1. CASE ~InRound'
    BY <1>5, <2>1 DEF Sharing
  <2>2. CASE InRound'
    <3>1. epc' = "sending" /\ i' = 1 /\ tokens' = Editor!Read(text) /\ w' = Len(tokens') \div N /\ done' = {}
      BY <1>1, <2>2 DEF InRound
    <3>2. Divided'
      BY <1>1, <3>1 DEF Divided
    <3>3. ASSUME NEW k \in Workers PROVE Share(k)'
      <4>1. ~Busy(k)' /\ k \notin done'
        BY <1>7, <3>1
      <4> QED
        BY <4>1 DEF Share, Busy, InOnePlace
    <3> QED
      BY <3>1, <3>2, <3>3 DEF Sharing
  <2> QED
    BY <2>1, <2>2
<1> QED
  BY <1>1, <1>2, <1>4, <1>5, <1>6, <1>8, <1>9, RoundHolds

\* A chunk that is too long.
LEMMA TooLongHolds ==
  ASSUME EditorInv, epc' = "astray",
         UNCHANGED <<text, textChanged, file, broken, i, tokens, w, handles, ready, cleared, chunk, done, wpc>>
  PROVE  EditorInv'
<1>1. Editor!TypeOK'
  BY DEF EditorInv, Editor!TypeOK, Editor!EditorStates
<1>2. Resting' /\ Sharing' /\ tokens' \in Seq(Editor!Plain) /\ chunk' \in [Workers -> Seq(Editor!Plain)]
  BY DEF EditorInv, Written, Resting, Sharing, InRound
<1> QED
  BY <1>1, <1>2, RoundHolds

LEMMA SendHolds ==
  ASSUME EditorInv, Editor!SendChunk, epc' # "astray"
  PROVE  EditorInv'
<1>1. /\ epc = "sending" /\ InRound
      /\ UNCHANGED <<text, textChanged, file, broken, tokens, w, handles, cleared, done, wpc>>
      /\ chunk' = [chunk EXCEPT ![i] = Editor!Chunk(i)]
      /\ ready' \in {ready \cup {i}, ready}
      /\ \/ i < N /\ i' = i + 1 /\ epc' = "sending"
         \/ i >= N /\ i' = 1 /\ epc' = "waiting"
  <2>1. i \in Nat /\ N \in Nat
    BY EditorConstants DEF EditorInv, Editor!TypeOK, Editor!Worker
  <2> QED
    BY <2>1 DEF Editor!SendChunk, Editor!edited, InRound
<1>2. /\ Editor!TypeOK /\ N \in Nat \ {0} /\ Written /\ Divided /\ \A k \in Workers : Share(k)
  BY <1>1, EditorConstants DEF EditorInv, Sharing
<1>3. i \in Workers /\ i' \in Workers
  <2>1. i \in Workers /\ 1 \in Workers
    BY <1>2 DEF Editor!TypeOK, Editor!Worker, Workers
  <2>2. i < N => i + 1 \in Workers
    BY <1>2, <2>1 DEF Workers
  <2> QED
    BY <1>1, <2>1, <2>2
<1>4. /\ chunk' \in [Workers -> Seq(Editor!Plain)]
      /\ chunk'[i] = Editor!Chunk(i) /\ \A k \in Workers \ {i} : chunk'[k] = chunk[k]
  BY <1>1, <1>2, <1>3, ChunkTypes DEF Written
<1>5. Editor!TypeOK'
  BY <1>1, <1>2, <1>3, <1>4 DEF Editor!TypeOK, Editor!Worker, Workers, Editor!EditorStates
<1>6. InRound' /\ Divided'
  BY <1>1, <1>2 DEF InRound, Divided
<1>7. \A k \in Workers : Editor!Chunk(k)' = Editor!Chunk(k)
  BY <1>1, SameChunk
<1>8. ASSUME NEW k \in Workers PROVE Share(k)'
  <2>1. Share(k)
    BY <1>2
  <2>2. CASE k = i
    <3>1. ~Sent(k)
      BY <1>1, <1>3, <2>2 DEF Sent, Workers
    <3>2. ~Busy(k) /\ k \notin done
      BY <2>1, <3>1 DEF Share
    <3>3. Sent(k)'
      BY <1>1, <1>3, <2>2 DEF Sent, Workers
    <3>4. k \notin cleared' /\ k \notin done' /\ wpc'[k] \notin {"reading", "ready"}
      BY <1>1, <3>2 DEF Busy
    <3>5. chunk'[k] = Editor!Chunk(k)'
      BY <1>4, <1>7, <2>2
    <3> QED
      BY <3>3, <3>4, <3>5 DEF Share, InOnePlace
  <2>3. CASE k # i
    <3>1. chunk'[k] = chunk[k] /\ (k \in ready' <=> k \in ready) /\ Busy(k)' = Busy(k)
      BY <1>1, <1>4, <2>3 DEF Busy
    <3>2. Sent(k) => Sent(k)'
      BY <1>1, <1>2, <1>3 DEF Sent, Workers
    <3>3. InOnePlace(k)'
      BY <1>1, <2>1, <3>1 DEF Share, InOnePlace
    <3> QED
      BY <1>1, <1>7, <2>1, <3>1, <3>2, <3>3 DEF Share
  <2> QED
    BY <2>2, <2>3
<1>9. Resting' /\ Sharing'
  BY <1>1, <1>6, <1>8 DEF Resting, Sharing, InRound
<1>10. epc' # "closed unasked" /\ tokens' \in Seq(Editor!Plain)
  BY <1>1, <1>2 DEF Written
<1> QED
  BY <1>1, <1>4, <1>5, <1>9, <1>10, RoundHolds

LEMMA SendOrAstrayHolds ==
  ASSUME EditorInv, Editor!SendChunk
  PROVE  EditorInv'
<1>1. CASE epc' = "astray"
  <2>1. epc = "sending" /\ epc' \notin {"sending", "waiting"}
    BY <1>1 DEF Editor!SendChunk
  <2>2. UNCHANGED <<text, textChanged, file, broken, i, tokens, w, handles, ready, cleared, chunk, done, wpc>>
    BY <1>1, <2>1 DEF Editor!SendChunk, Editor!edited
  <2> QED
    BY <1>1, <2>2, TooLongHolds
<1> QED
  BY <1>1, SendHolds

LEMMA WaitHolds ==
  ASSUME EditorInv, Editor!WaitAny
  PROVE  EditorInv'
<1>1. PICK k \in cleared : cleared' = cleared \ {k} /\ done' = done \cup {k}
  BY DEF Editor!WaitAny
<1>2. /\ epc = "waiting" /\ InRound
      /\ UNCHANGED <<text, textChanged, file, broken, i, tokens, w, handles, ready, chunk, wpc>>
      /\ epc' = IF done' = Workers THEN "joining" ELSE "waiting"
  BY DEF Editor!WaitAny, Editor!edited, InRound, Editor!Worker, Workers
<1>3. /\ Editor!TypeOK /\ Written /\ Divided /\ \A l \in Workers : Share(l)
  BY <1>2 DEF EditorInv, Sharing
<1>4. Editor!TypeOK'
  BY <1>1, <1>2, <1>3 DEF Editor!TypeOK, Editor!Worker, Workers, Editor!EditorStates
<1>5. Divided' /\ \A l \in Workers : Editor!Chunk(l)' = Editor!Chunk(l)
  BY <1>2, <1>3, SameChunk DEF Divided
<1>6. ASSUME NEW l \in Workers
      PROVE  /\ InOnePlace(l)'
             /\ l \in ready' \/ wpc'[l] = "reading" => chunk'[l] = Editor!Chunk(l)'
             /\ l \in cleared' \/ l \in done' \/ wpc'[l] = "ready" => chunk'[l] = Editor!Known(Editor!Chunk(l)')
  <2>1. Share(l)
    BY <1>3
  <2> QED
    BY <1>1, <1>2, <1>5, <2>1 DEF Share, InOnePlace
<1>7. CASE done' = Workers
  <2>1. epc' = "joining" /\ ~InRound'
    BY <1>2, <1>7 DEF InRound
  <2>2. \A l \in Workers : ~Busy(l)' /\ chunk'[l] = Editor!Known(Editor!Chunk(l)')
    BY <1>6, <1>7 DEF Busy, InOnePlace
  <2>3. Resting' /\ Sharing'
    BY <1>5, <2>1, <2>2 DEF Resting, Sharing
  <2> QED
    BY <1>2, <1>3, <1>4, <2>1, <2>3, RoundHolds DEF Written
<1>8. CASE done' # Workers
  <2>1. epc' = "waiting" /\ InRound'
    BY <1>2, <1>8 DEF InRound
  <2>2. \A l \in Workers : Share(l)'
    BY <1>6, <2>1 DEF Share, Sent
  <2>3. Resting' /\ Sharing'
    BY <1>5, <2>1, <2>2 DEF Resting, Sharing
  <2> QED
    BY <1>2, <1>3, <1>4, <2>1, <2>3, RoundHolds DEF Written
<1> QED
  BY <1>7, <1>8

\* The parts of the workers make up the known words of the text.
LEMMA RoundKeepsWords ==
  ASSUME EditorInv, epc = "joining"
  PROVE  Editor!FlattenSeq(chunk) = Editor!Known(Editor!Read(text))
<1>1. /\ tokens \in Seq(Editor!Plain) /\ chunk \in [1 .. N -> Seq(Editor!Plain)]
      /\ tokens = Editor!Read(text) /\ w = Len(tokens) \div N /\ \A k \in 1 .. N : chunk[k] = Editor!Known(Editor!Chunk(k))
  BY DEF EditorInv, Written, Sharing, Divided, Workers
<1> QED
  BY <1>1, PartsJoined

LEMMA JoinHolds ==
  ASSUME EditorInv, Editor!Join
  PROVE  EditorInv'
<1>1. /\ epc = "joining" /\ epc # "astray" /\ epc' = "idle" /\ ~InRound /\ ~InRound'
      /\ text' = Editor!FlattenSeq(chunk) /\ tokens' = <<>> /\ w' = 0 /\ done' = {}
      /\ UNCHANGED <<textChanged, file, broken, wpc, i, handles, ready, cleared, chunk>>
  BY DEF Editor!Join, InRound
<1>2. text' = Editor!Known(Editor!Read(text))
  BY <1>1, RoundKeepsWords
<1>3. /\ text \in Seq(Words) /\ file \in Seq(Words) /\ textChanged \in BOOLEAN /\ broken \in BOOLEAN
      /\ i \in Workers /\ handles \subseteq Workers /\ done \subseteq Workers /\ Marked
  BY DEF EditorInv, Written, Editor!TypeOK, Editor!Worker, Workers
<1>4. text' \in Seq(Words) /\ KnownIn(text)' = KnownIn(text)
  <2>1. Editor!Read(text) \in Seq(Editor!Plain)
    BY <1>3, ReadTypes
  <2>2. /\ text' \in Seq(Editor!Plain)
        /\ Editor!Known(Editor!Known(Editor!Read(text))) = Editor!Known(Editor!Read(text))
    BY <1>2, <2>1, KnownTypes, KnownTwice
  <2>3. Editor!Read(text') = text'
    BY <2>2, ReadPlain
  <2>4. text' \in Seq(Words)
    BY <2>2, EditorConstants
  <2> QED
    BY <1>2, <2>2, <2>3, <2>4 DEF KnownIn
<1>5. Marked'
  <2>1. KnownIn(file)' = KnownIn(file)
    BY <1>1 DEF KnownIn
  <2> QED
    BY <1>1, <1>3, <1>4, <2>1 DEF Marked
<1>6. Editor!NothingTypedIsLost' /\ epc' \in Editor!EditorStates \ {"sending", "waiting", "joining"}
  BY <1>1 DEF Editor!NothingTypedIsLost, Editor!EditorStates
<1> QED
  <2>1. tokens' \in Seq(Editor!Plain) /\ w' \in Nat /\ done' \subseteq Workers
    BY <1>1
  <2> QED
    BY <1>1, <1>3, <1>4, <1>5, <1>6, <2>1, IdleHolds

\* A step of worker k leaves the parts of the others alone.
LEMMA WorkerHolds ==
  ASSUME EditorInv, NEW k \in Workers, NEW s \in Editor!WorkerStates,
         UNCHANGED <<text, textChanged, file, broken, epc, i, tokens, w, handles, done>>,
         wpc' = [wpc EXCEPT ![k] = s], ready' \subseteq ready, cleared' \subseteq cleared \cup {k},
         \A l \in Workers \ {k} : (l \in ready' <=> l \in ready) /\ (l \in cleared' <=> l \in cleared),
         chunk' \in [Workers -> Seq(Editor!Plain)], \A l \in Workers \ {k} : chunk'[l] = chunk[l],
         Busy(k)' => Busy(k),
         InRound => Share(k)', epc = "joining" => chunk'[k] = chunk[k]
  PROVE  EditorInv'
<1>1. Editor!TypeOK /\ Written /\ Marked /\ Editor!NothingTypedIsLost /\ Resting /\ Sharing
  BY DEF EditorInv
<1>2. wpc \in [Workers -> Editor!WorkerStates]
  BY <1>1 DEF Editor!TypeOK, Editor!Worker, Workers
<1>3. /\ wpc' \in [Workers -> Editor!WorkerStates]
      /\ wpc'[k] = s /\ \A l \in Workers \ {k} : wpc'[l] = wpc[l]
  BY <1>2
<1>4. Editor!TypeOK'
  BY <1>1, <1>3 DEF Editor!TypeOK, Editor!Worker, Workers
<1>5. Written' /\ Marked' /\ Editor!NothingTypedIsLost'
  BY <1>1 DEF Written, Marked, Editor!NothingTypedIsLost
<1>6. \A l \in Workers \ {k} : Busy(l)' = Busy(l)
  BY <1>3 DEF Busy
<1>7. InRound' = InRound
  BY DEF InRound
<1>8. Resting'
  BY <1>1, <1>6, <1>7 DEF Resting
<1>9. \A l \in Workers : Editor!Chunk(l)' = Editor!Chunk(l)
  BY SameChunk
<1>10. Divided' = Divided
  BY DEF Divided
<1>11. ASSUME NEW l \in Workers \ {k}, Share(l) PROVE Share(l)'
  BY <1>3, <1>6, <1>9, <1>11 DEF Share, InOnePlace, Sent
<1>12. Sharing'
  BY <1>1, <1>7, <1>9, <1>10, <1>11 DEF Sharing
<1> QED
  BY <1>4, <1>5, <1>8, <1>12 DEF EditorInv

LEMMA CreateOrKillHolds ==
  ASSUME EditorInv, NEW k \in Workers, Editor!CreateEvents(k) \/ Editor!Kill(k)
  PROVE  EditorInv'
<1>1. PICK s \in {"waiting", "gone"} : wpc' = [wpc EXCEPT ![k] = s]
  BY DEF Editor!CreateEvents, Editor!Kill
<1>2. UNCHANGED <<text, textChanged, file, broken, epc, i, tokens, w, handles, ready, cleared, chunk, done>>
  BY DEF Editor!CreateEvents, Editor!Kill, Editor!edited, Editor!clearing
<1>3. /\ wpc \in [Workers -> Editor!WorkerStates] /\ chunk \in [Workers -> Seq(Editor!Plain)]
      /\ InRound => Share(k)
  BY DEF EditorInv, Editor!TypeOK, Editor!Worker, Workers, Written, Sharing
<1>4. wpc'[k] \notin {"reading", "ready"} /\ s \in Editor!WorkerStates
  BY <1>1, <1>3 DEF Editor!WorkerStates
<1>5. Busy(k)' => Busy(k)
  BY <1>2, <1>4 DEF Busy
<1>6. Editor!Chunk(k)' = Editor!Chunk(k) /\ Sent(k)' = Sent(k)
  BY <1>2, SameChunk DEF Sent
<1>7. Share(k) => Share(k)'
  BY <1>2, <1>4, <1>5, <1>6 DEF Share, InOnePlace
<1> QED
  BY <1>1, <1>2, <1>3, <1>4, <1>5, <1>7, WorkerHolds

LEMMA WaitReadyHolds ==
  ASSUME EditorInv, NEW k \in Workers, Editor!WaitReady(k)
  PROVE  EditorInv'
<1>1. /\ k \in ready /\ ready' = ready \ {k} /\ wpc' = [wpc EXCEPT ![k] = "reading"]
      /\ UNCHANGED <<text, textChanged, file, broken, epc, i, tokens, w, handles, cleared, chunk, done>>
  BY DEF Editor!WaitReady, Editor!edited
<1>2. /\ wpc \in [Workers -> Editor!WorkerStates] /\ chunk \in [Workers -> Seq(Editor!Plain)]
      /\ InRound => Share(k)
  BY DEF EditorInv, Editor!TypeOK, Editor!Worker, Workers, Written, Sharing
<1>3. wpc'[k] = "reading" /\ "reading" \in Editor!WorkerStates
  BY <1>1, <1>2 DEF Editor!WorkerStates
<1>4. Busy(k)
  BY <1>1 DEF Busy
<1>5. Editor!Chunk(k)' = Editor!Chunk(k) /\ Sent(k)' = Sent(k)
  BY <1>1, SameChunk DEF Sent
<1>6. Share(k) => Share(k)'
  BY <1>1, <1>3, <1>4, <1>5 DEF Share, InOnePlace
<1> QED
  BY <1>1, <1>2, <1>3, <1>4, <1>6, WorkerHolds

LEMMA ClearWordsHolds ==
  ASSUME EditorInv, NEW k \in Workers, Editor!ClearForeignWords(k)
  PROVE  EditorInv'
<1>1. /\ wpc[k] = "reading" /\ wpc' = [wpc EXCEPT ![k] = "ready"]
      /\ chunk' = [chunk EXCEPT ![k] = Editor!Known(Editor!Read(chunk[k]))]
      /\ UNCHANGED <<text, textChanged, file, broken, epc, i, tokens, w, handles, ready, cleared, done>>
  BY DEF Editor!ClearForeignWords, Editor!edited
<1>2. /\ wpc \in [Workers -> Editor!WorkerStates] /\ chunk \in [Workers -> Seq(Editor!Plain)]
      /\ InRound => Share(k)
  BY DEF EditorInv, Editor!TypeOK, Editor!Worker, Workers, Written, Sharing
<1>3. wpc'[k] = "ready" /\ "ready" \in Editor!WorkerStates
  BY <1>1, <1>2 DEF Editor!WorkerStates
<1>4. Busy(k)
  BY <1>1 DEF Busy
<1>5. epc # "joining"
  BY <1>4 DEF EditorInv, Resting, InRound
<1>6. Editor!Read(chunk[k]) = chunk[k] /\ Editor!Known(chunk[k]) \in Seq(Editor!Plain)
  BY <1>2, KnownTypes, ReadPlain
<1>7. /\ chunk' \in [Workers -> Seq(Editor!Plain)] /\ chunk'[k] = Editor!Known(chunk[k])
      /\ \A l \in Workers \ {k} : chunk'[l] = chunk[l]
  BY <1>1, <1>2, <1>6
<1>8. Editor!Chunk(k)' = Editor!Chunk(k) /\ Sent(k)' = Sent(k)
  BY <1>1, SameChunk DEF Sent
<1>9. ASSUME Share(k) PROVE Share(k)'
  <2>1. k \notin ready /\ k \notin cleared /\ k \notin done /\ Sent(k)
    BY <1>1, <1>4, <1>9 DEF Share, InOnePlace
  <2>2. chunk'[k] = Editor!Known(Editor!Chunk(k)')
    BY <1>1, <1>7, <1>8, <1>9 DEF Share
  <2> QED
    BY <1>1, <1>3, <1>8, <2>1, <2>2 DEF Share, InOnePlace
<1> QED
  BY <1>1, <1>2, <1>3, <1>4, <1>5, <1>7, <1>9, WorkerHolds

LEMMA SetClearedHolds ==
  ASSUME EditorInv, NEW k \in Workers, Editor!SetCleared(k)
  PROVE  EditorInv'
<1>1. /\ wpc[k] = "ready" /\ cleared' = cleared \cup {k} /\ wpc' = [wpc EXCEPT ![k] = "waiting"]
      /\ UNCHANGED <<text, textChanged, file, broken, epc, i, tokens, w, handles, ready, chunk, done>>
  BY DEF Editor!SetCleared, Editor!edited
<1>2. /\ wpc \in [Workers -> Editor!WorkerStates] /\ chunk \in [Workers -> Seq(Editor!Plain)]
      /\ InRound => Share(k)
  BY DEF EditorInv, Editor!TypeOK, Editor!Worker, Workers, Written, Sharing
<1>3. wpc'[k] = "waiting" /\ "waiting" \in Editor!WorkerStates
  BY <1>1, <1>2 DEF Editor!WorkerStates
<1>4. Busy(k)
  BY <1>1 DEF Busy
<1>5. Editor!Chunk(k)' = Editor!Chunk(k) /\ Sent(k)' = Sent(k)
  BY <1>1, SameChunk DEF Sent
<1>6. ASSUME Share(k) PROVE Share(k)'
  <2>1. k \notin ready /\ k \notin done /\ Sent(k) /\ chunk[k] = Editor!Known(Editor!Chunk(k))
    BY <1>1, <1>4, <1>6 DEF Share, InOnePlace
  <2> QED
    BY <1>1, <1>3, <1>5, <2>1 DEF Share, InOnePlace
<1> QED
  BY <1>1, <1>2, <1>3, <1>4, <1>6, WorkerHolds

LEMMA EditorStep == EditorInv /\ [AllNext]_allVars => EditorInv'
<1> SUFFICES ASSUME EditorInv, [AllNext]_allVars PROVE EditorInv'
  OBVIOUS
<1>1. CASE Editor!Next
  <2>1. CASE Editor!User
    BY <2>1, UserHolds
  <2>2. CASE Editor!EditorStep
    BY <2>2, OpenEventsHolds, SendOrAstrayHolds, WaitHolds, JoinHolds DEF Editor!EditorStep
  <2>3. CASE \E k \in Editor!Worker : Editor!WorkerStep(k) \/ Editor!Kill(k)
    <3>1. PICK k \in Workers : Editor!WorkerStep(k) \/ Editor!Kill(k)
      BY <2>3 DEF Editor!Worker, Workers
    <3> QED
      BY <3>1, CreateOrKillHolds, WaitReadyHolds, ClearWordsHolds, SetClearedHolds DEF Editor!WorkerStep
  <2> QED
    BY <1>1, <2>1, <2>2, <2>3 DEF Editor!Next, Editor!Step
<1>2. CASE UNCHANGED editorVars
  <2>1. UNCHANGED <<text, textChanged, file, broken, epc, i, tokens, w, handles, ready, cleared, chunk, done, wpc>>
    BY <1>2 DEF editorVars
  <2>2. \A k \in Workers : Editor!Chunk(k)' = Editor!Chunk(k)
    BY <2>1, SameChunk
  <2>3. Editor!TypeOK' /\ Written' /\ Marked' /\ Editor!NothingTypedIsLost' /\ Resting'
    BY <2>1 DEF EditorInv, Editor!TypeOK, Written, Marked, Editor!NothingTypedIsLost, Resting, InRound, Busy
  <2>4. Sharing'
    BY <2>1, <2>2 DEF EditorInv, Sharing, InRound, Share, Sent, Busy, InOnePlace, Divided
  <2> QED
    BY <2>3, <2>4 DEF EditorInv
<1> QED
  BY <1>1, <1>2 DEF AllNext, RunHeap, RunEditor, RunWindow, allVars

\* With any number of workers, any dictionary and any texts, however they are read and whatever
\* length of a part fits into the shared memory, and whoever kills a worker when: until the
\* editor writes past its memory, the parts in the shared memory are what the invariant says.
THEOREM EditorInvariance == AllFairSpec => []EditorInv
<1>1. AllInit => EditorInv
  BY EditorInit DEF AllInit
<1> QED
  BY <1>1, EditorStep, PTL DEF AllFairSpec

\* The text of the editor with settings.
LEMMA WindowTextStep ==
  Window!NothingTypedIsLost /\ [AllNext]_allVars => Window!NothingTypedIsLost'
<1> SUFFICES ASSUME Window!NothingTypedIsLost, [AllNext]_allVars PROVE Window!NothingTypedIsLost'
  OBVIOUS
<1>1. CASE Window!Next
  <2>1. CASE Window!ViewSettings \/ Window!Dialog
    <3>1. UNCHANGED <<typed, unsaved, saved, closed>>
      BY <2>1 DEF Window!ViewSettings, Window!Dialog, Window!Slide, Window!DialogOK, Window!DialogCancel,
         Window!DialogCheck, Window!ButtonColor, Window!saving
    <3> QED
      BY <3>1 DEF Window!NothingTypedIsLost
  <2>2. CASE Window!TypeText \/ Window!Save \/ Window!Close \/ Window!AnswerClose
    BY <2>2 DEF Window!NothingTypedIsLost, Window!TypeText, Window!Save, Window!Close, Window!AnswerClose,
       Window!Enabled, Window!OnTop
  <2>3. CASE Window!Saved \/ Window!NotSaved \/ Window!DismissError
    BY <2>3 DEF Window!NothingTypedIsLost, Window!Saved, Window!NotSaved, Window!DismissError, Window!OnTop
  <2> QED
    BY <1>1, <2>1, <2>2, <2>3 DEF Window!Next
<1>2. CASE UNCHANGED windowVars
  BY <1>2 DEF windowVars, Window!NothingTypedIsLost
<1> QED
  BY <1>1, <1>2 DEF AllNext, RunHeap, RunEditor, RunWindow, allVars

\* However the words are divided and the workers take turns, a "clear" whose parts fit into the
\* shared memory leaves the known words that were read of the text, and nothing else.  No
\* editor is closed unasked by its cross or its menu (the notepad's Ctrl+Q is another way out),
\* and that of tasks 6-7 not after a save, with a text that is not in its file; but for files
\* that a save has emptied and, with a message, failed to write.
THEOREM WordsStay == AllFairSpec => []WordsAreKept
<1>1. AllInit => Window!NothingTypedIsLost
  BY DEF AllInit, Window!InitEditor, Window!NothingTypedIsLost
<1>2. AllFairSpec => []Window!NothingTypedIsLost
  BY <1>1, WindowTextStep, PTL DEF AllFairSpec
<1>3. EditorInv /\ Window!NothingTypedIsLost => WordsAreKept
  <2>1. EditorInv => Editor!ClearKeepsKnownWords
    BY RoundKeepsWords DEF Editor!ClearKeepsKnownWords
  <2> QED
    BY <2>1 DEF EditorInv, WordsAreKept
<1> QED
  BY <1>2, <1>3, EditorInvariance, PTL

\* The types of the heap and of the notepad.
THEOREM ProgramsTypesHold == AllFairSpec => []ProgramsTypeOK
<1>1. HeapInv /\ EditorInv => ProgramsTypeOK
  BY DEF HeapInv, EditorInv, ProgramsTypeOK
<1> QED
  BY <1>1, HeapInvariance, EditorInvariance, PTL
=============================================================================
