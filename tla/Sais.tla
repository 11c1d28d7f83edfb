-------------------------------- MODULE Sais --------------------------------
(***************************************************************************)
(* Suffix arrays by induced sorting (SA-IS), and the longest common        *)
(* prefixes by Kasai's algorithm.  The baskets of a worker are one array,  *)
(* cut by the number of times each character occurs.  One action is one    *)
(* stage, or one slot of the two scans that induce an order.               *)
(***************************************************************************)
EXTENDS Integers, Sequences, FiniteSets, FiniteSetsExt, SequencesExt, TLC

CONSTANT Windows            \* strings of naturals, the letters counted from 1

WindowAssumption == \A w \in Windows : w # <<>> /\ ToSet(w) \subseteq Nat \ {0}

VARIABLES text, pc,         \* the window; of the program, "failed" is undefined behaviour
          answer            \* the number printed

VARIABLES workers,          \* those that have begun, the deepest last
          slots,            \* baskets_ of the last one
          used,             \* head or end of the scan: how many of a basket are filled
          scan,             \* slots the scan has been over
          stage,            \* what is being sorted: "lms" substrings or "suffixes"
          suffixArray,      \* what the last worker to end has left
          numbers, counter, \* charInducedCounters_ and charCounter_ of the last worker
          prevLMS,
          lcp, k            \* of Kasai's algorithm

InitWindow == text \in Windows /\ answer = 0

\* Positions count from zero in the program.
At(s, p) == s[p + 1]

names == <<numbers, counter, prevLMS>>
sorting == <<workers, slots, used, scan, stage, suffixArray>>
vars == <<text, answer, pc, sorting, names, lcp, k>>

str == Last(workers).str
stypes == Last(workers).stypes
lms == Last(workers).lms
Positions(s) == 0 .. Len(s) - 1
None == -1                  \* UINT32_MAX

\* getSuffixArray: letters from 1, and 0 at the end; the least letter becomes 1.
Normalized(s) == [i \in DOMAIN s |-> s[i] - Min(ToSet(s)) + 1] \o <<0>>

\* classifyChars: an S-type suffix is less than the next one.
STypes(s) == {p \in Positions(s) :
                \/ p = Len(s) - 1
                \/ \E q \in p + 1 .. Len(s) - 1 : /\ At(s, q) > At(s, p)
                                                  /\ \A r \in p .. q - 1 : At(s, r) = At(s, p)}

\* findLMSBorders.
LmsSubstrings(s, st) ==
    SelectSeq([i \in DOMAIN s |-> i - 1], LAMBDA p : p > 0 /\ p \in st /\ p - 1 \notin st)

\* initBaskets: where basket c begins and ends.
BasketStart(s, c) == Cardinality({p \in Positions(s) : At(s, p) < c})
BasketSize(s, c) == Cardinality({p \in Positions(s) : At(s, p) = c})
BasketEnd(s, c) == BasketStart(s, c) + BasketSize(s, c) - 1

\* Stage 1: the positions of order, in that order, into their baskets from the end.
Placed(s, order) ==
    LET Slot(i) == BasketEnd(s, At(s, order[i]))
                     - Cardinality({j \in 1 .. i - 1 : At(s, order[j]) = At(s, order[i])})
        filled == [q \in {Slot(i) : i \in DOMAIN order} |->
                     order[CHOOSE i \in DOMAIN order : Slot(i) = q]]
    IN [q \in Positions(s) |-> IF q \in DOMAIN filled THEN filled[q] ELSE None]

Unused(s) == [c \in ToSet(s) |-> 0]

InitWorkers == /\ workers = <<[str |-> Normalized(text)]>>
               /\ slots = <<>> /\ used = <<>> /\ scan = 0 /\ stage = "lms"
               /\ numbers = <<>> /\ counter = 0 /\ prevLMS = None
               /\ suffixArray = <<>> /\ lcp = <<>> /\ k = 0

\* A worker up to the stages of inducedSortLMS.
ClassifyChars ==
    /\ pc = "worker"
    /\ \E st \in {STypes(str)} : \E order \in {LmsSubstrings(str, st)} :
         /\ workers' = [workers EXCEPT ![Len(workers)] = [str |-> str, stypes |-> st, lms |-> order]]
         /\ slots' = Placed(str, order)
    /\ used' = Unused(str) /\ scan' = 0 /\ stage' = "lms"
    /\ pc' = "L"
    /\ UNCHANGED <<text, answer, suffixArray, names, lcp, k>>

\* inducedSort, stages 2 and 3: the slot at q puts the position before its own into the
\* next slot of that position's basket, if it has the type of the stage.
InducedFrom(q, type, next(_)) ==
    LET p == slots[q] - 1
        target == next(At(str, p))
    IN IF slots[q] \in {None, 0} \/ (p \in stypes) # (type = "S")
       THEN UNCHANGED <<slots, used, pc>>
       ELSE /\ slots' = [slots EXCEPT ![target] = p]
            /\ used' = [used EXCEPT ![At(str, p)] = @ + 1]
            /\ pc' = IF used[At(str, p)] < BasketSize(str, At(str, p)) THEN pc ELSE "failed"

ScanL == /\ pc = "L" /\ scan < Len(str)
         /\ InducedFrom(scan, "L", LAMBDA c : BasketStart(str, c) + used[c])
         /\ scan' = scan + 1
         /\ UNCHANGED <<text, answer, workers, stage, suffixArray, names, lcp, k>>

EndOfL == /\ pc = "L" /\ scan = Len(str)
          /\ used' = Unused(str) /\ scan' = 0 /\ pc' = "S"
          /\ UNCHANGED <<text, answer, workers, slots, stage, suffixArray, names, lcp, k>>

ScanS == /\ pc = "S" /\ scan < Len(str)
         /\ InducedFrom(Len(str) - 1 - scan, "S", LAMBDA c : BasketEnd(str, c) - used[c])
         /\ scan' = scan + 1
         /\ UNCHANGED <<text, answer, workers, stage, suffixArray, names, lcp, k>>

\* equalLMS: equal up to the first S-type character behind an L-type one.
EqualLMS(a, b) ==
    \E m \in 1 .. Len(str) - 1 - Max({a, b}) :
        /\ a + m \in stypes /\ \E j \in 0 .. m - 1 : a + j \notin stypes
        /\ \A j \in 0 .. m : /\ At(str, a + j) = At(str, b + j)
                             /\ (a + j \in stypes) = (b + j \in stypes)

\* exportLMSChars: the LMS substrings get numbers in the order found, equal neighbours
\* the same one.
EndOfS == /\ pc = "S" /\ scan = Len(str) /\ stage = "lms"
          /\ numbers' = [p \in ToSet(lms) |-> 0] /\ counter' = 0 /\ prevLMS' = None
          /\ scan' = 0 /\ pc' = "export"
          /\ UNCHANGED <<text, answer, workers, slots, used, stage, suffixArray, lcp, k>>

ExportLMSChars ==
    /\ pc = "export" /\ scan < Len(str)
    /\ IF slots[scan] \in DOMAIN numbers
       THEN /\ counter' = IF prevLMS = None \/ EqualLMS(prevLMS, slots[scan]) THEN counter
                          ELSE counter + 1
            /\ numbers' = [numbers EXCEPT ![slots[scan]] = counter']
            /\ prevLMS' = slots[scan]
       ELSE UNCHANGED names
    /\ scan' = scan + 1
    /\ pc' = IF slots[scan] = None THEN "failed" ELSE pc
    /\ UNCHANGED <<text, answer, workers, slots, used, stage, suffixArray, lcp, k>>

InducedString == [i \in DOMAIN lms |-> numbers[lms[i]]]

\* inducedSortSuff of worker w, up to the scans: isa is the order of the suffixes that
\* begin an LMS substring.
InducedSortSuff(w, isa) ==
    /\ slots' = Placed(w.str, Reverse([i \in DOMAIN isa |-> w.lms[isa[i] + 1]]))
    /\ used' = Unused(w.str) /\ scan' = 0 /\ stage' = "suffixes" /\ pc' = "L"

\* computeSuffixArray: the numbers are an order already.
ComputeSuffixArray ==
    /\ pc = "export" /\ scan = Len(str) /\ counter + 1 = Len(lms)
    /\ InducedSortSuff(Last(workers), [i \in DOMAIN lms |->
                          (CHOOSE j \in DOMAIN lms : InducedString[j] = i - 1) - 1])
    /\ UNCHANGED <<text, answer, workers, suffixArray, names, lcp, k>>

\* Or they make a string that a worker of its own sorts.
NextLevel ==
    /\ pc = "export" /\ scan = Len(str) /\ counter + 1 # Len(lms)
    /\ workers' = Append(workers, [str |-> InducedString])
    /\ pc' = "worker"
    /\ UNCHANGED <<text, answer, slots, used, scan, stage, suffixArray, names, lcp, k>>

\* The worker ends; the one before it goes on with what it leaves.
WorkerEnds ==
    /\ pc = "S" /\ scan = Len(str) /\ stage = "suffixes"
    /\ suffixArray' = [i \in 1 .. Len(str) |-> slots[i - 1]]
    /\ workers' = Front(workers)
    /\ IF workers' # <<>> THEN InducedSortSuff(Last(workers'), suffixArray')
       ELSE pc' = "kasai" /\ scan' = 0 /\ UNCHANGED <<slots, used, stage>>
    /\ UNCHANGED <<text, answer, names, lcp, k>>

\* getLcpArrayKasai of the window and '^', which is less than any letter: one suffix.
Padded == Append(text, 0)
Rank(p) == CHOOSE i \in DOMAIN suffixArray : suffixArray[i] = p
Common(i, j) == Max({m \in 0 .. Len(Padded) - Max({i, j}) :
                       \A h \in 0 .. m - 1 : At(Padded, i + h) = At(Padded, j + h)})

Kasai == /\ pc = "kasai" /\ scan < Len(Padded)
         /\ IF Rank(scan) = Len(Padded)
            THEN k' = 0 /\ lcp' = lcp
            ELSE LET j == suffixArray[Rank(scan) + 1]
                     common == k + Common(scan + k, j + k)
                 IN /\ lcp' = (Rank(scan) :> common) @@ lcp
                    /\ k' = Max({common - 1, 0})
         /\ scan' = scan + 1
         /\ UNCHANGED <<text, answer, pc, workers, slots, used, stage, suffixArray, names>>

\* getNumOfNonEmptySubstrings: what each suffix has beyond the one before it.
Answer == /\ pc = "kasai" /\ scan = Len(Padded)
          /\ answer' = MapThenSumSet(LAMBDA j : Len(text) - suffixArray[j + 1] - lcp[j],
                                     DOMAIN text)
          /\ pc' = "done"
          /\ UNCHANGED <<text, sorting, names, lcp, k>>

Next == \/ ClassifyChars \/ ScanL \/ EndOfL \/ ScanS \/ EndOfS \/ ExportLMSChars
        \/ ComputeSuffixArray \/ NextLevel \/ WorkerEnds \/ Kasai \/ Answer

-----------------------------------------------------------------------------

\* Suffixes of s: the one at p comes before the one at q.
Precedes(s, p, q) ==
    \E m \in 0 .. Len(s) - 1 - Max({p, q}) :
        /\ At(s, p + m) < At(s, q + m)
        /\ \A j \in 0 .. m - 1 : At(s, p + j) = At(s, q + j)

\* Every worker that ends, at any depth of the recursion, leaves the sorted array of all
\* suffixes of its string.
LevelSorted ==
    WorkerEnds => /\ ToSet(suffixArray') = Positions(str)
                  /\ \A i \in 1 .. Len(str) - 1 :
                       Precedes(str, suffixArray'[i], suffixArray'[i + 1])
============================================================================
