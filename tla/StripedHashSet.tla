--------------------------- MODULE StripedHashSet ---------------------------
(***************************************************************************)
(* striped_hash_set of task4: one reader-writer mutex per stripe of        *)
(* buckets, a hash table that grows under all of them, and a counter.      *)
(*                                                                         *)
(* Values are natural numbers and their own hashes.  A step is one access  *)
(* to a bucket, to the vector of buckets, to the counter or to a mutex; a  *)
(* pass over one bucket is one access.  The moves of rehash() are a step   *)
(* each, one per element.                                                  *)
(***************************************************************************)
EXTENDS Naturals, Sequences, FiniteSets, SequencesExt

CONSTANTS Thread, Value,
          NumStripes, BucketsPerStripe, GrowthFactor,
          DensityNum, DensityDen,   \* max_density, as a fraction
          Calls,         \* bound: how many calls a thread makes
          None           \* nobody

ValueAssumption == Value \subseteq Nat
SizeAssumption == /\ NumStripes \in Nat \ {0}
                  /\ BucketsPerStripe \in Nat \ {0}
                  /\ GrowthFactor \in Nat \ {0, 1}
                  /\ DensityNum \in Nat /\ DensityDen \in Nat \ {0}
                  /\ Calls \in Nat
\* Nobody is no thread and no call.
ThreadAssumption == /\ IsFiniteSet(Thread)
                    /\ None \notin Thread
                    /\ None \notin [op : {"add", "remove", "contains"}, value : Value]

VARIABLES numBuckets,   \* buckets.size()
          buckets,      \* buckets
          oldBuckets,   \* old_buckets of rehash(), what is still to be moved
          writer,       \* stripe -> the thread that holds its mutex alone
          readers,      \* stripe -> the threads that share its mutex
          storageSize,  \* storage_size
          pc, op, value,   \* thread -> where it is, in which call, with what
          seen,         \* thread -> old_num_buckets
          next,         \* thread -> the next stripe resize() locks
          answer,       \* thread -> what the call will return
          calls         \* thread -> how many calls it has begun

table == <<numBuckets, buckets, oldBuckets>>
locks == <<writer, readers>>
frame == <<op, value, calls>>
vars == <<table, locks, storageSize, pc, frame, seen, next, answer>>

Stripes == 0 .. NumStripes - 1
Stripe(v) == (v % NumStripes)
Bucket(v) == (v % numBuckets)

Empty(n) == [b \in 0 .. n - 1 |-> <<>>]

Init == /\ numBuckets = BucketsPerStripe * NumStripes
        /\ buckets = Empty(BucketsPerStripe * NumStripes)
        /\ oldBuckets = <<>>
        /\ writer = [s \in Stripes |-> None]
        /\ readers = [s \in Stripes |-> {}]
        /\ storageSize = 0
        /\ pc = [t \in Thread |-> "idle"]
        /\ op = [t \in Thread |-> None]
        /\ value = [t \in Thread |-> None]
        /\ seen = [t \in Thread |-> 0]
        /\ next = [t \in Thread |-> 0]
        /\ answer = [t \in Thread |-> "none"]
        /\ calls = [t \in Thread |-> 0]

Free(s) == writer[s] = None /\ readers[s] = {}
Goto(t, l) == pc' = [pc EXCEPT ![t] = l]
Answer(t, a) == answer' = [answer EXCEPT ![t] = a]
Found(v) == v \in ToSet(buckets[Bucket(v)])

\* The elements of s that are not v, in the order of s
Kept(s, v) == {i \in DOMAIN s : s[i] # v}
Rank(K, i) == Cardinality({j \in K : j <= i})
Without(s, v) == LET K == Kept(s, v)
                 IN [k \in 1 .. Cardinality(K) |-> s[CHOOSE i \in K : Rank(K, i) = k]]

UnlockAll(t) == /\ writer' = [s \in Stripes |-> IF writer[s] = t THEN None ELSE writer[s]]
                /\ readers' = [s \in Stripes |-> readers[s] \ {t}]

-----------------------------------------------------------------------------
Invoke(t) == /\ pc[t] = "idle" /\ calls[t] < Calls
             /\ \E o \in {"add", "remove", "contains"}, v \in Value :
                    /\ op' = [op EXCEPT ![t] = o]
                    /\ value' = [value EXCEPT ![t] = v]
             /\ calls' = [calls EXCEPT ![t] = @ + 1]
             /\ Goto(t, "lock")
             /\ UNCHANGED <<table, locks, storageSize, seen, next, answer>>

\* The locker of add() and remove()
LockAlone(t) == /\ pc[t] = "lock" /\ op[t] # "contains"
                /\ Free(Stripe(value[t]))
                /\ writer' = [writer EXCEPT ![Stripe(value[t])] = t]
                /\ Goto(t, "test")
                /\ UNCHANGED <<table, readers, storageSize, frame, seen, next, answer>>

\* The locker of contains()
LockShared(t) == /\ pc[t] = "lock" /\ op[t] = "contains"
                 /\ writer[Stripe(value[t])] = None
                 /\ readers' = [readers EXCEPT ![Stripe(value[t])] = @ \cup {t}]
                 /\ Goto(t, "test")
                 /\ UNCHANGED <<table, writer, storageSize, frame, seen, next, answer>>

\* contains(): the pass over the bucket.
Look(t) == /\ pc[t] = "test" /\ op[t] = "contains"
           /\ Answer(t, IF Found(value[t]) THEN "yes" ELSE "no")
           /\ Goto(t, "return")
           /\ UNCHANGED <<table, locks, storageSize, frame, seen, next>>

\* Mutant: contains_nolock() is not asked.
Unasked(t) == /\ pc[t] = "test" /\ op[t] # "contains"
              /\ Goto(t, "change")
              /\ UNCHANGED <<table, locks, storageSize, frame, seen, next, answer>>

\* contains_nolock() of add() and remove(): on to the change, or return.
Ask(t) == /\ pc[t] = "test" /\ op[t] # "contains"
          /\ IF Found(value[t]) <=> op[t] = "remove"
             THEN Goto(t, "change") /\ UNCHANGED answer
             ELSE Goto(t, "return") /\ Answer(t, "void")
          /\ UNCHANGED <<table, locks, storageSize, frame, seen, next>>

PushFront(t) ==
    /\ pc[t] = "change" /\ op[t] = "add"
    /\ buckets' = [buckets EXCEPT ![Bucket(value[t])] = <<value[t]>> \o @]
    /\ Answer(t, "void")
    /\ Goto(t, "count")
    /\ UNCHANGED <<numBuckets, oldBuckets, locks, storageSize, frame, seen, next>>

\* forward_list::remove takes out every equal element.
Erase(t) ==
    /\ pc[t] = "change" /\ op[t] = "remove"
    /\ buckets' = [buckets EXCEPT ![Bucket(value[t])] = Without(@, value[t])]
    /\ Answer(t, "void")
    /\ Goto(t, "count")
    /\ UNCHANGED <<numBuckets, oldBuckets, locks, storageSize, frame, seen, next>>

CountUp(t) == /\ pc[t] = "count" /\ op[t] = "add"
              /\ storageSize' = storageSize + 1
              /\ Goto(t, "density")
              /\ UNCHANGED <<table, locks, frame, seen, next, answer>>

CountDown(t) == /\ pc[t] = "count" /\ op[t] = "remove"
                /\ storageSize' = storageSize - 1
                /\ Goto(t, "return")
                /\ UNCHANGED <<table, locks, frame, seen, next, answer>>

\* get_load_factor() > max_density
TooDense == storageSize * DensityDen > DensityNum * numBuckets

\* Mutant: the stripe stays locked when resize() is called.
DensityKeepsLock(t) ==
    /\ pc[t] = "density"
    /\ IF TooDense
       THEN /\ seen' = [seen EXCEPT ![t] = numBuckets]
            /\ next' = [next EXCEPT ![t] = 0]
            /\ Goto(t, "resize")
       ELSE Goto(t, "return") /\ UNCHANGED <<seen, next>>
    /\ UNCHANGED <<table, locks, storageSize, frame, answer>>

\* Above the maximal density the locker is unlocked and resize() entered with the number of buckets at this moment.
Density(t) ==
    /\ pc[t] = "density"
    /\ IF TooDense
       THEN /\ seen' = [seen EXCEPT ![t] = numBuckets]
            /\ next' = [next EXCEPT ![t] = 0]
            /\ Goto(t, "resize")
            /\ UnlockAll(t)
       ELSE Goto(t, "return") /\ UNCHANGED <<seen, next, locks>>
    /\ UNCHANGED <<table, storageSize, frame, answer>>

-----------------------------------------------------------------------------
\* resize(): lockers of stripe 0 and, after the test, of all the others.
ResizeLock(t) == /\ pc[t] = "resize" /\ next[t] < NumStripes
                 /\ Free(next[t])
                 /\ writer' = [writer EXCEPT ![next[t]] = t]
                 /\ next' = [next EXCEPT ![t] = @ + 1]
                 /\ Goto(t, IF next[t] = 0 THEN "retest" ELSE "resize")
                 /\ UNCHANGED <<table, readers, storageSize, frame, seen, answer>>

\* Mutant: the number of buckets is not compared.
RetestNothing(t) == /\ pc[t] = "retest"
                    /\ Goto(t, "resize")
                    /\ UNCHANGED <<table, locks, storageSize, frame, seen, next, answer>>

\* if(old_num_buckets != buckets.size()) return
Retest(t) == /\ pc[t] = "retest"
             /\ Goto(t, IF seen[t] = numBuckets THEN "resize" ELSE "return")
             /\ UNCHANGED <<table, locks, storageSize, frame, seen, next, answer>>

\* Mutant: stripe 0 is all that resize() locks.
SwapEarly(t) == /\ pc[t] = "resize" /\ next[t] = 1
                /\ numBuckets' = numBuckets * GrowthFactor
                /\ buckets' = Empty(numBuckets * GrowthFactor)
                /\ oldBuckets' = [i \in 1 .. numBuckets |-> buckets[i - 1]]
                /\ Goto(t, "move")
                /\ UNCHANGED <<locks, storageSize, frame, seen, next, answer>>

\* rehash(): an empty vector of the new size takes the place of the old one.
Swap(t) == /\ pc[t] = "resize" /\ next[t] = NumStripes
           /\ numBuckets' = numBuckets * GrowthFactor
           /\ buckets' = Empty(numBuckets * GrowthFactor)
           /\ oldBuckets' = [i \in 1 .. numBuckets |-> buckets[i - 1]]
           /\ Goto(t, "move")
           /\ UNCHANGED <<locks, storageSize, frame, seen, next, answer>>

\* Mutant: an element goes to the bucket of its old index.
MoveSameIndex(t) ==
    /\ pc[t] = "move"
    /\ \/ /\ oldBuckets # <<>> /\ Head(oldBuckets) = <<>>
          /\ oldBuckets' = Tail(oldBuckets)
          /\ UNCHANGED <<buckets, pc>>
       \/ /\ oldBuckets # <<>> /\ Head(oldBuckets) # <<>>
          /\ LET x == Head(Head(oldBuckets))
                 i == x % (numBuckets \div GrowthFactor)
             IN /\ buckets' = [buckets EXCEPT ![i] = <<x>> \o @]
                /\ oldBuckets' = <<Tail(Head(oldBuckets))>> \o Tail(oldBuckets)
          /\ UNCHANGED pc
       \/ oldBuckets = <<>> /\ Goto(t, "return") /\ UNCHANGED <<buckets, oldBuckets>>
    /\ UNCHANGED <<numBuckets, locks, storageSize, frame, seen, next, answer>>

\* The loops of rehash(): the next element, or the next bucket, or the end.
Move(t) ==
    /\ pc[t] = "move"
    /\ \/ /\ oldBuckets # <<>> /\ Head(oldBuckets) = <<>>
          /\ oldBuckets' = Tail(oldBuckets)
          /\ UNCHANGED <<buckets, pc>>
       \/ /\ oldBuckets # <<>> /\ Head(oldBuckets) # <<>>
          /\ LET x == Head(Head(oldBuckets))
             IN buckets' = [buckets EXCEPT ![Bucket(x)] = <<x>> \o @]
          /\ oldBuckets' = <<Tail(Head(oldBuckets))>> \o Tail(oldBuckets)
          /\ UNCHANGED pc
       \/ oldBuckets = <<>> /\ Goto(t, "return") /\ UNCHANGED <<buckets, oldBuckets>>
    /\ UNCHANGED <<numBuckets, locks, storageSize, frame, seen, next, answer>>

\* The lockers are destroyed and the call returns.
Return(t) == /\ pc[t] = "return"
             /\ UnlockAll(t)
             /\ Answer(t, "none")
             /\ Goto(t, "idle")
             /\ UNCHANGED <<table, storageSize, frame, seen, next>>

Acquire(t) == LockAlone(t) \/ LockShared(t) \/ ResizeLock(t)
Work(t) == \/ Look(t) \/ Ask(t) \/ PushFront(t) \/ Erase(t) \/ CountUp(t) \/ CountDown(t)
           \/ Density(t) \/ Retest(t) \/ Swap(t) \/ Move(t) \/ Return(t)

Next == \E t \in Thread : Invoke(t) \/ Acquire(t) \/ Work(t)

-----------------------------------------------------------------------------
\* What a thread's next step reads or writes: the bucket of its value, or the
\* whole table
ReadsBucket(t) == pc[t] = "test"
WritesBucket(t) == pc[t] = "change"
WritesTable(t) == pc[t] = "move" \/ (pc[t] = "resize" /\ next[t] = NumStripes)
ReadsSize(t) == pc[t] \in {"density", "retest"}

\* No two threads are about to access the same bucket, one of them to write
\* it, and none is about to touch the table that another one rebuilds.
NoDataRace ==
    \A t, u \in Thread : t # u =>
        /\ WritesTable(t) => ~(ReadsBucket(u) \/ WritesBucket(u) \/ WritesTable(u) \/ ReadsSize(u))
        /\ WritesBucket(t) /\ (ReadsBucket(u) \/ WritesBucket(u))
               => Bucket(value[t]) # Bucket(value[u])

Members == (UNION {ToSet(buckets[b]) : b \in DOMAIN buckets})
              \cup (UNION {ToSet(oldBuckets[i]) : i \in DOMAIN oldBuckets})

\* storage_size is the number of elements, but for the calls that have changed
\* a bucket and are still to count it.
SizeMatches ==
    LET late(o) == Cardinality({t \in Thread : pc[t] = "count" /\ op[t] = o})
    IN storageSize + late("add") = Cardinality(Members) + late("remove")

\* The table grows only for a thread that saw too high a density at the size
\* it still has: two that saw the same excess grow it once.
GrownOncePerExcess ==
    \A t \in Thread : pc[t] = "resize" /\ next[t] > 0 => seen[t] = numBuckets

\* No call is under way: with a bounded number of calls, they all return just if this
\* is so in the end.
AllIdle == \A t \in Thread : pc[t] = "idle"

\* The set that the threads see
Abstract == INSTANCE ConcurrentSet
    WITH members <- Members,
         call <- [t \in Thread |-> IF pc[t] = "idle" THEN None
                                   ELSE [op |-> op[t], value |-> value[t]]]

\* Every call takes effect at one moment, resizes notwithstanding.
ImplementsSet == Abstract!Spec
=============================================================================
