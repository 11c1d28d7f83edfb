--------------------------- MODULE ListHashTable ---------------------------
(***************************************************************************)
(* Lunev/hashtable: a hash table with lists, and its iterator.  A bucket   *)
(* is a sentinel and a list of elements, the newest first; here the list   *)
(* alone, with a flag for a sentinel that could not be allocated.  The     *)
(* search in a list begins at the sentinel and looks at `length' nodes, so *)
(* it never comes to the oldest element.                                   *)
(*                                                                         *)
(* An element is <<key, serial>>: the serial, which the code has not,      *)
(* tells the copies of a key apart.  my_calloc may fail at any call.       *)
(***************************************************************************)
EXTENDS Integers, Sequences, SequencesExt, FiniteSets

CONSTANTS Key,          \* keys that pass the checks of length
          Hash,         \* [Key -> Nat], the first character
          MaxHash,      \* the argument of hashtable_construct
          MaxAdds       \* bound: elements added

TableAssumption == /\ Hash \in [Key -> Nat]
                   /\ MaxHash \in Nat /\ MaxAdds \in Nat

VARIABLES list, sentinel,     \* the buckets
          serial,             \* elements added so far
          running,            \* FALSE once the program has crashed or destructed
          iterator,           \* NoIterator, or its bucket and the elements left in it
          got, whole          \* what it has given, what it must give

vars == <<list, sentinel, serial, running, iterator, got, whole>>

Buckets == 0 .. MaxHash
NoIterator == <<-1, 0>>
Slot(k) == Hash[k] % (MaxHash + 1)
Elements == UNION {ToSet(list[b]) : b \in Buckets}

Init == /\ list = [b \in Buckets |-> <<>>] /\ sentinel = [b \in Buckets |-> TRUE]
        /\ serial = 0 /\ running = TRUE
        /\ iterator = NoIterator /\ got = <<>> /\ whole = {}

Crash == running' = FALSE /\ UNCHANGED <<list, sentinel, serial, iterator, got, whole>>

\* hashtable_is_ok walks every list from its sentinel: without one it is lost, unless
\* the list is empty.
IsOk == \A b \in Buckets : sentinel[b] \/ list[b] = <<>>

\* Mutant: the newest element is passed over as well.
FindKeyFromTheSecond(b, k) == {n \in 2 .. Len(list[b]) - 1 : list[b][n][1] = k}

\* list_find_key: the indices of the key among the elements that are looked at.
FindKey(b, k) == {n \in 1 .. Len(list[b]) - 1 : list[b][n][1] = k}

\* list_add_elem puts the new element after the sentinel.
AddElem(b, k) == /\ list' = [list EXCEPT ![b] = <<<<k, serial>>>> \o @]
                 /\ serial' = serial + 1
Add(k) ==
    /\ running /\ serial < MaxAdds
    /\ IF ~IsOk \/ (FindKey(Slot(k), k) = {} /\ ~sentinel[Slot(k)]) THEN Crash
       ELSE /\ FindKey(Slot(k), k) = {}
            /\ AddElem(Slot(k), k)
            /\ UNCHANGED <<sentinel, running, iterator, got, whole>>

\* What is left to the iterator, when it stands in that bucket, are the last elements.
Left(b) == IF iterator[1] = b THEN iterator[2] ELSE 0

\* list_delete_elem at the first index found; an iterator that stands on the element
\* keeps a pointer to freed memory, which is no longer modelled.
Del(k) ==
    /\ running
    /\ IF ~IsOk THEN Crash
       ELSE LET b == Slot(k)
            IN \E n \in FindKey(b, k) :
                  /\ \A m \in FindKey(b, k) : n <= m
                  /\ n # Len(list[b]) - Left(b) + 1
                  /\ list' = [list EXCEPT ![b] = RemoveAt(@, n)]
                  /\ iterator' = IF n > Len(list[b]) - Left(b)
                                 THEN <<b, Left(b) - 1>> ELSE iterator
                  /\ whole' = whole \ {list[b][n]}
                  /\ UNCHANGED <<sentinel, serial, running, got>>

\* list_construct for one bucket after the other; the first allocation that fails
\* leaves its list without a sentinel but with its length, and the rest as they are.
\* An iterator may be there unless it stands on an element.
Clear ==
    /\ running /\ iterator[2] = 0
    /\ IF ~IsOk THEN Crash
       ELSE \E upto \in 0 .. MaxHash + 1 :
              /\ list' = [b \in Buckets |-> IF b < upto THEN <<>> ELSE list[b]]
              /\ sentinel' = [b \in Buckets |-> IF b < upto THEN TRUE
                                                ELSE b # upto /\ sentinel[b]]
              /\ whole' = whole \cap UNION {ToSet(list'[b]) : b \in Buckets}
              /\ UNCHANGED <<serial, running, iterator, got>>

\* Well or badly, the table is gone.
Destruct == running /\ Crash

-----------------------------------------------------------------------------
(* The iterator. *)

\* It needs the sentinel of the first bucket.
IteratorConstruct == /\ running /\ iterator = NoIterator
                     /\ IF ~IsOk \/ ~sentinel[0] THEN Crash
                        ELSE /\ iterator' = <<0, Len(list[0])>>
                             /\ got' = <<>> /\ whole' = Elements
                             /\ UNCHANGED <<list, sentinel, serial, running>>

\* Mutant: a bucket is left before its last element.
HasNextButOne(b) == IF b = iterator[1] THEN iterator[2] > 1 ELSE list[b] # <<>>

\* ht_iterate: the first bucket from here on that has an element left.
HasNext(b) == IF b = iterator[1] THEN iterator[2] > 0 ELSE list[b] # <<>>
NextBuckets == {b \in iterator[1] .. MaxHash :
                  HasNext(b) /\ \A c \in iterator[1] .. b - 1 : ~HasNext(c)}

PassesLost == \E c \in iterator[1] + 1 .. MaxHash :
                 ~sentinel[c] /\ \A b \in iterator[1] .. c - 1 : ~HasNext(b)

IteratorGet ==
    /\ running /\ iterator # NoIterator
    /\ IF PassesLost THEN Crash
       ELSE \E b \in NextBuckets :
              LET left == IF b = iterator[1] THEN iterator[2] ELSE Len(list[b])
              IN /\ got' = Append(got, list[b][Len(list[b]) - left + 1])
                 /\ iterator' = <<b, left - 1>>
                 /\ UNCHANGED <<list, sentinel, serial, running, whole>>

IteratorDestruct == /\ running /\ iterator # NoIterator
                    /\ iterator' = NoIterator /\ got' = <<>> /\ whole' = {}
                    /\ UNCHANGED <<list, sentinel, serial, running>>

Next == \/ \E k \in Key : Add(k) \/ Del(k)
        \/ Clear \/ Destruct
        \/ IteratorConstruct \/ IteratorGet \/ IteratorDestruct

Spec == Init /\ [][Next]_vars

-----------------------------------------------------------------------------
TypeOK == /\ DOMAIN list = Buckets /\ sentinel \in [Buckets -> BOOLEAN]
          /\ \A e \in Elements : e \in Key \X (0 .. MaxAdds - 1)
          /\ serial \in 0 .. MaxAdds /\ running \in BOOLEAN
          /\ iterator \in (-1 .. MaxHash) \X (0 .. MaxAdds)

\* A key is stored twice at most, and only the oldest element of a bucket can have a
\* copy: the one that the search does not reach.
OnlyTheOldestIsCopied ==
    \A b \in Buckets : \A m, n \in DOMAIN list[b] :
       list[b][m][1] = list[b][n][1] => m = n \/ Len(list[b]) \in {m, n}

\* An iterator gives every element that was there when it began, and is still there,
\* exactly once, whatever is added or deleted meanwhile.
IterationIsComplete ==
    (running /\ iterator # NoIterator) =>
       /\ IsInjective(got)
       /\ NextBuckets = {} => whole \subseteq ToSet(got)
============================================================================
