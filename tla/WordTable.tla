------------------------------ MODULE WordTable ------------------------------
(***************************************************************************)
(* Ded-C/Hash: the words of a text, put into a table with lists by six     *)
(* hash functions one after the other, and the lengths of the lists        *)
(* printed for each.  A bucket is a sentinel with an empty key and a list, *)
(* here the list alone, the newest word first.  A character is its code.   *)
(***************************************************************************)
EXTENDS Integers, Sequences, SequencesExt, FiniteSets, FiniteSetsExt

CONSTANTS Texts,      \* sequences of characters
          Sizes,      \* numbers of buckets entered
          MaxLen      \* Max_Len, of a word and the end of its string

\* So short that the sums of hash_5 have 16 bits before a rotation, those of hash_6 Bits.
WordsAssumption == MaxLen \in 1 .. 12 /\ Sizes \subseteq Nat

VARIABLES source, size, hash,
          rest,             \* the words of the input file that are not read yet
          buckets, lengths, \* lengths: as printed last
          hpc

wordVars == <<source, size, hash, rest, buckets, lengths, hpc>>

Buckets == 0 .. size - 1

-----------------------------------------------------------------------------
Upper(c) == IF c \in 97 .. 122 THEN c - 32 ELSE c
IsSpace(c) == c \in 9 .. 13 \cup {32}

\* Adapt_Input: what is no letter, digit or space falls out, and joins what it stood between.
AdaptInput(chars) == SelectSeq([i \in DOMAIN chars |-> Upper(chars[i])],
                               LAMBDA c : c \in 65 .. 90 \cup 48 .. 57 \/ IsSpace(c))

\* fscanf ("%s").
Words(chars) ==
    LET Read(w, c) == IF ~IsSpace(c) THEN [w EXCEPT !.word = Append(@, c)]
                      ELSE [word |-> <<>>, all |-> IF w.word = <<>> THEN w.all ELSE Append(w.all, w.word)]
    IN FoldLeft(Read, [word |-> <<>>, all |-> <<>>], Append(chars, 32)).all
Input == Words(AdaptInput(source))

\* Exclusive or, of sums of at most Bits bits.
Bits == 21
Xor == [p \in Nat \X Nat |->
          MapThenSumSet(LAMBDA i : 2^i, {i \in 0 .. Bits - 1 : (p[1] \div 2^i + p[2] \div 2^i) % 2 = 1})]

\* By one place only; what comes back on the right was 15 places further up, not 31.
ROL(x) == 2 * x + x \div 2^15

\* A turn of the loops of hash_5 and hash_6: functions of the sum so far and a character.
Rotate == [p \in Nat \X Nat |-> Xor[p[2], ROL(p[1])]]
Mix == [p \in Nat \X Nat |-> Xor[p[1] + Xor[p[1], ROL(p[2])], p[2]]]

Sum(word) == FoldLeft(+, 0, word)
Rotated(word) == FoldLeft(LAMBDA sum, c : Rotate[sum, c], 0, word)
Mixed(word) == FoldLeft(LAMBDA sum, c : Mix[sum, c], 0, word)

HashOf(word) == CASE hash = 1 -> 0
                  [] hash = 2 -> word[1]
                  [] hash = 3 -> Sum(word)
                  [] hash = 4 -> Sum(word) \div Len(word)
                  [] hash = 5 -> Rotated(word)
                  [] hash = 6 -> Mixed(word) \div Len(word)

Slot(word) == HashOf(word) % size

-----------------------------------------------------------------------------
Errors == {"ELEM_NULL", "ELEM_NULL_KEY", "ELEM_WR_KEY_RANGE", "ELEM_NOMEM",
           "LIST_NULL", "LIST_WR_NDX_RANGE", "LIST_INV",
           "HT_NULL", "HT_WR_HV_RANGE", "HT_BAD_FILE", "HT_WR_INPUT", "HT_INV"}

\* Hashtable_Error_Catch: a code it does not know is no error, -1 neither.
ErrorCatch(code) == IF code \in Errors THEN "HT_ERR" ELSE "HT_OK"

KeyCheck(word) == IF Len(word) >= MaxLen THEN "ELEM_WR_KEY_RANGE" ELSE "ELEM_OK"

\* List_Find_Key begins at the sentinel and looks at `length' nodes: not at the oldest.
FindKey(list, word) == IF \E i \in 1 .. Len(list) - 1 : list[i] = word THEN "LIST_OK" ELSE "-1"

\* List_Add_Elem at index 0: behind the sentinel.
AddElem(list, word) == <<word>> \o list

EmptyList == <<>>
EmptyBuckets == [b \in Buckets |-> EmptyList]

Init == /\ source \in Texts /\ size \in Sizes
        /\ hash = 1 /\ rest = Input
        /\ buckets = EmptyBuckets /\ lengths = [b \in Buckets |-> 0]
        /\ hpc = "fill"

Stop(how) == hpc' = how /\ UNCHANGED <<source, size, hash, rest, buckets, lengths>>

\* A word of Hashtable_Fill: without a bucket it divides by zero.
AddKey ==
    /\ hpc = "fill" /\ rest # <<>>
    /\ LET word == Head(rest) IN
       IF ErrorCatch(KeyCheck(word)) = "HT_ERR" THEN Stop("exited")
       ELSE IF size = 0 THEN Stop("crashed")
       ELSE /\ rest' = Tail(rest)
            /\ LET found == FindKey(buckets[Slot(word)], word) IN
               buckets' = IF found = "-1" /\ ErrorCatch(found) = "HT_OK"
                          THEN [buckets EXCEPT ![Slot(word)] = AddElem(@, word)]
                          ELSE buckets
            /\ UNCHANGED <<source, size, hash, lengths, hpc>>

PrintLengths == /\ hpc = "fill" /\ rest = <<>>
                /\ lengths' = [b \in Buckets |-> Len(buckets[b])]
                /\ hpc' = "printed"
                /\ UNCHANGED <<source, size, hash, rest, buckets>>

\* Mutant: the loop over the hash functions does not count.
TryNextSame == hash' = hash /\ rest' = Input /\ hpc' = "fill"

\* The next hash function, on the input file from its beginning.
TryNext == IF hash < 6 THEN hash' = hash + 1 /\ rest' = Input /\ hpc' = "fill"
           ELSE hpc' = "cleared" /\ UNCHANGED <<hash, rest>>

\* Mutant: the lists are kept.
ClearNothing == /\ hpc = "printed"
                /\ TryNext
                /\ UNCHANGED <<source, size, buckets, lengths>>

\* Hashtable_Clear makes new lists; it does not free the old ones.
Clear == /\ hpc = "printed"
         /\ buckets' = EmptyBuckets
         /\ TryNext
         /\ UNCHANGED <<source, size, lengths>>

\* The lists are empty by then, and List_Destruct goes by their length.
Destruct == /\ hpc = "cleared"
            /\ hpc' = "destructed" /\ size' = 0 /\ buckets' = <<>>
            /\ UNCHANGED <<source, hash, rest, lengths>>

Next == AddKey \/ PrintLengths \/ Clear \/ Destruct

-----------------------------------------------------------------------------
\* How often a bucket should be counted: its words without those that occur again, but
\* once more for the one that came first if it does.
Entered(b) == SelectSeq(Input, LAMBDA word : Slot(word) = b)
Counted(b) == LET words == Entered(b)
              IN Cardinality(ToSet(words)) + IF \E i \in 2 .. Len(words) : words[i] = words[1] THEN 1 ELSE 0

\* The lengths printed for a hash function are those of its own words.
PrintsCounts == hpc = "printed" => \A b \in Buckets : lengths[b] = Counted(b)

\* No list holds a word twice but the one that came first in it.
OnlyTheFirstTwice ==
    hpc \in {"fill", "printed"} =>
       \A b \in Buckets : \A i, j \in DOMAIN buckets[b] :
          i < j /\ buckets[b][i] = buckets[b][j] => j = Len(buckets[b])
=============================================================================
