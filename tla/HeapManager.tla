---------------------------- MODULE HeapManager ----------------------------
(***************************************************************************)
(* CHeapManager (WinAPI, task 8-9): a heap in one reserved range of        *)
(* addresses.  Free blocks are kept in three ordered sets, by size; blocks *)
(* in use in a fourth; pageTable counts, page by page, the users that need *)
(* the page committed.  A pointer is its distance from ptrHeapStart, a     *)
(* block is <<pointer, size>>, as in memPtrSize.                           *)
(*                                                                         *)
(* Free is a loop, and the merging inside it another one: one action is    *)
(* one iteration.                                                          *)
(***************************************************************************)
EXTENDS Integers, FiniteSets

CONSTANTS HeapSize, MinSize,             \* the arguments of Create
          Sizes,                         \* the sizes the program asks for
          BlockSize, PageSize,           \* SZ_4B, SZ_PAGESIZE
          SmallBorder, MediumBorder,     \* the largest small and medium blocks
          MaxUsers                       \* bound: users of a page, see addToPageTable

ASSUME SizeAssumption ==
    /\ {HeapSize, MinSize, BlockSize, PageSize, SmallBorder, MediumBorder} \subseteq Nat \ {0}
    /\ Sizes \subseteq Nat \ {0}
    /\ SmallBorder < MediumBorder
    /\ MaxUsers \in Nat

VARIABLES memSet,         \* [class -> free blocks]: small, medium and largeMemSet
          allocated,      \* allocatedMemSet
          pageTable,
          pc, 
          ptr, mergeBlock \* Free: the pointer and the block of this iteration

vars == <<memSet, allocated, pageTable, pc, ptr, mergeBlock>>

Classes == {"small", "medium", "large"}
Block == (0..HeapSize) \X (0..HeapSize)
NoBlock == <<0, 0>>
Pages == 0..(HeapSize - 1) \div PageSize

\* The end of a block, and the order of std::pair.
End(b) == b[1] + b[2]
Before(b, c) == b[1] < c[1] \/ (b[1] = c[1] /\ b[2] < c[2])
First(S) == {b \in S : \A c \in S \ {b} : Before(b, c)}
Last(S) == {b \in S : \A c \in S \ {b} : Before(c, b)}

CeilTo(size, unit) == IF size % unit = 0 THEN size ELSE (size \div unit + 1) * unit
CeilDiv(n, unit) == n \div unit + (IF n % unit = 0 THEN 0 ELSE 1)

-----------------------------------------------------------------------------
(* The sets of free blocks. *)

Class(b) == CASE b[2] <= SmallBorder -> "small"
              [] b[2] > SmallBorder /\ b[2] <= MediumBorder -> "medium"
              [] b[2] > MediumBorder -> "large"

AddToMemSet(sets, b) == [sets EXCEPT ![Class(b)] = @ \cup {b}]

\* Mutant: the merged block stays where it was.
DelFromNone(sets, b) == sets

\* A large block is looked for among the medium ones.
DelFromMemSet(sets, b) ==
    [sets EXCEPT ![IF Class(b) = "large" THEN "medium" ELSE Class(b)] = @ \ {b}]

\* The classes a block of that size is looked for in, the first one that has it.
Fitting(c, size) == {b \in memSet[c] : b[2] >= size}
SearchedFor(size) ==
    IF size <= SmallBorder THEN Classes
    ELSE IF size <= MediumBorder THEN {"medium", "large"}
    ELSE IF size <= HeapSize THEN {"large"} ELSE {}
Smaller(c) == CASE c = "small" -> {} [] c = "medium" -> {"small"}
                [] c = "large" -> {"small", "medium"}
GetMemFromSet(size) ==
    UNION {First(Fitting(c, size)) :
           c \in {d \in SearchedFor(size) :
                  \A e \in Smaller(d) \cap SearchedFor(size) : Fitting(e, size) = {}}}

-----------------------------------------------------------------------------
(* The pages: they are committed when the first user comes and decommitted *)
(* when the last one goes.  A block that ends inside a page is a user of   *)
(* it when it is given out, one that begins inside a page is not when it   *)
(* is taken back.                                                          *)

PagesAdded(b) == b[1] \div PageSize .. CeilDiv(End(b), PageSize) - 1
\* Mutant: the page that the block begins in is given back with it.
PagesRemovedFromFloor(b) == b[1] \div PageSize .. CeilDiv(End(b), PageSize) - 1

PagesRemoved(b) == CeilDiv(b[1], PageSize) .. CeilDiv(End(b), PageSize) - 1

AddToPageTable(table, b) ==
    [p \in Pages |-> IF p \in PagesAdded(b) THEN table[p] + 1 ELSE table[p]]
DelFromPageTable(table, b) ==
    [p \in Pages |-> IF p \in PagesRemoved(b) THEN table[p] - 1 ELSE table[p]]

-----------------------------------------------------------------------------
\* Create has reserved the range and goes on to allocate the first block.
Init == /\ memSet = AddToMemSet([c \in Classes |-> {}], <<0, HeapSize>>)
        /\ allocated = {}
        /\ pageTable = [p \in Pages |-> 0]
        /\ pc = "creating" /\ ptr = 0 /\ mergeBlock = NoBlock

\* The whole free block becomes a user of its pages, what is left of it (perhaps
\* nothing: a block of size 0) stops being one and is free again.
Allocate(size) ==
    \E found \in GetMemFromSet(size) :
       LET extra == <<found[1] + size, found[2] - size>>
           taken == [c \in Classes |-> memSet[c] \ {found}]
           table == AddToPageTable(pageTable, found)
       IN /\ \A p \in Pages : table[p] <= MaxUsers
          /\ pageTable' = DelFromPageTable(table, extra)
          /\ memSet' = AddToMemSet(taken, extra)
          /\ allocated' = allocated \cup {<<found[1], size>>}

\* errorHandler(..., critical): the program ends.
OutOfMemory(size) ==
    /\ GetMemFromSet(size) = {}
    /\ pc' = "exit" /\ UNCHANGED <<memSet, allocated, pageTable, ptr, mergeBlock>>

FirstSize == CeilTo(CeilTo(MinSize, PageSize), BlockSize)
Create == /\ pc = "creating"
          /\ \/ Allocate(FirstSize) /\ pc' = "ready" /\ UNCHANGED <<ptr, mergeBlock>>
             \/ OutOfMemory(FirstSize)

Alloc(size) == /\ pc = "ready"
               /\ \/ Allocate(CeilTo(size, BlockSize)) /\ UNCHANGED <<pc, ptr, mergeBlock>>
                  \/ OutOfMemory(CeilTo(size, BlockSize))

\* Free is called with a pointer of the program's own.
Free(p) == /\ pc = "ready" /\ p # 0 /\ \E b \in allocated : b[1] = p
           /\ pc' = "freeing" /\ ptr' = p
           /\ UNCHANGED <<memSet, allocated, pageTable, mergeBlock>>

\* Destroy frees the block of Create; what the program holds stays, and is only
\* listed.
Destroy == /\ pc = "ready"
           /\ pc' = "freeing" /\ ptr' = 0
           /\ UNCHANGED <<memSet, allocated, pageTable, mergeBlock>>

-----------------------------------------------------------------------------
(* One iteration of Free: the next block at that address. *)
FreeBlock == /\ pc = "freeing"
             /\ \E b \in First({c \in allocated : c[1] = ptr}) :
                   /\ memSet' = AddToMemSet(memSet, b)
                   /\ pageTable' = DelFromPageTable(pageTable, b)
                   /\ mergeBlock' = b
             /\ pc' = "merging" /\ UNCHANGED <<allocated, ptr>>

\* mergeIteration in one of the sets: the element before the block if the set has the
\* block, the first element not before it otherwise, and the first element after the
\* block or, if there is none, the last element.  When the block is the first element
\* the code decrements begin(): the release build gets end(), and no neighbour.
LowerBound(S) == IF mergeBlock \in S THEN Last({b \in S : Before(b, mergeBlock)})
                 ELSE First({b \in S : Before(mergeBlock, b)})
UpperBound(S) == LET after == {b \in S : Before(mergeBlock, b)}
                 IN IF after # {} THEN First(after) ELSE Last(S)

LeftOf(S) == {b \in LowerBound(S) : End(b) = mergeBlock[1]}
RightOf(S) == {b \in UpperBound(S) : End(mergeBlock) = b[1]}
Neighbours(S) == IF LeftOf(S) # {} THEN LeftOf(S) ELSE RightOf(S)

\* Mutant: a block always begins where the freed one does.
MergeToTheRight(b, left) == <<mergeBlock[1], b[2] + mergeBlock[2]>>

MergeBlocks(b, left) == <<IF left THEN b[1] ELSE mergeBlock[1], b[2] + mergeBlock[2]>>

MergeIteration ==
    /\ pc = "merging"
    /\ \E c \in Classes :
          /\ \A d \in Smaller(c) : Neighbours(memSet[d]) = {}
          /\ \E b \in Neighbours(memSet[c]) :
                LET newBlock == MergeBlocks(b, LeftOf(memSet[c]) # {})
                    erased == [memSet EXCEPT ![c] = @ \ {b}]
                IN /\ memSet' = AddToMemSet(DelFromMemSet(erased, mergeBlock), newBlock)
                   /\ mergeBlock' = newBlock
    /\ UNCHANGED <<allocated, pageTable, pc, ptr>>

\* No neighbour in any set: the block leaves allocatedMemSet and Free goes on.
Merged == /\ pc = "merging"
          /\ \A c \in Classes : Neighbours(memSet[c]) = {}
          /\ \E b \in First({c \in allocated : c[1] = ptr}) : allocated' = allocated \ {b}
          /\ pc' = "freeing" /\ mergeBlock' = NoBlock
          /\ UNCHANGED <<memSet, pageTable, ptr>>

\* A debug build stops at the decrement of begin().
DebugStop == /\ pc = "merging"
             /\ \E c \in Classes : /\ First(memSet[c]) = {mergeBlock}
                                  /\ \A d \in Smaller(c) : Neighbours(memSet[d]) = {}
             /\ pc' = "exit" /\ UNCHANGED <<memSet, allocated, pageTable, ptr, mergeBlock>>

\* No block is left at that address: Free returns, and Destroy too.
Freed == /\ pc = "freeing" /\ \A b \in allocated : b[1] # ptr
         /\ pc' = IF ptr = 0 THEN "destroyed" ELSE "ready"
         /\ UNCHANGED <<memSet, allocated, pageTable, ptr, mergeBlock>>

FreeStep == FreeBlock \/ MergeIteration \/ Merged \/ Freed

Next == \/ Create \/ \E size \in Sizes : Alloc(size)
        \/ \E p \in 1..HeapSize : Free(p)
        \/ Destroy \/ FreeStep \/ DebugStop

Spec == Init /\ [][Next]_vars
FairSpec == Spec /\ WF_vars(FreeStep)

-----------------------------------------------------------------------------
TypeOK == /\ memSet \in [Classes -> SUBSET Block]
          /\ allocated \subseteq Block
          /\ pageTable \in [Pages -> 0..MaxUsers]
          /\ pc \in {"creating", "ready", "freeing", "merging", "destroyed", "exit"}
          /\ ptr \in 0..HeapSize /\ mergeBlock \in Block

\* The blocks in use: not the one that Free is taking back.
Taken == IF mergeBlock # NoBlock THEN First({b \in allocated : b[1] = ptr}) ELSE {}
Live == allocated \ Taken
FreeBlocks == UNION {memSet[c] : c \in Classes}

\* Every byte of the heap is in exactly one block, free or in use: nothing is given
\* out twice (large blocks apart, see HeapOverlap.cfg) and nothing is lost, in the
\* middle of a merge too.
Covers(b, x) == b[1] <= x /\ x < End(b)
HeapPartitioned ==
    \A x \in 0..HeapSize - 1 :
       Cardinality({b \in Live : Covers(b, x)} \cup {b \in FreeBlocks : Covers(b, x)}) = 1

\* No two live objects share memory: the allocation functions of the tests take
\* their objects from Alloc.
ObjectsDisjoint == \A b, c \in Live : b = c \/ End(b) <= c[1] \/ End(c) <= b[1]

\* A page that a block in use touches is committed: what is taken back never
\* decommits a page under the neighbours.
PagesCommitted ==
    \A b \in Live : \A p \in PagesAdded(b) : pageTable[p] > 0

\* The merging ends: Free returns.
FreeReturns == pc \in {"freeing", "merging"} ~> pc \notin {"freeing", "merging"}

\* The heap gives out only memory that nobody has.
Heap == INSTANCE Allocator WITH live <- Live
ImplementsAllocator == Heap!Spec
============================================================================
