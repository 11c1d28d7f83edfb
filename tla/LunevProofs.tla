---------------------------- MODULE LunevProofs ----------------------------
(***************************************************************************)
(* Proofs about the programs of Lunev/, for every number of processes,     *)
(* blocks, intervals and keys: an inductive invariant of each program but  *)
(* shmem and select, which follow in LunevCopyProofs, and at the end what  *)
(* it says.                                                                *)
(***************************************************************************)
EXTENDS LunevPrograms, DataLemmas

-----------------------------------------------------------------------------
(* fifo: files through one pipe *)

Block == Sender \X (1 .. FifoBlocks)

\* Of one sender the blocks of x follow each other.
Unmixed(x) == \A j, k \in 1 .. Len(x) : j < k /\ x[j][1] = x[k][1] => x[k][2] - x[j][2] = k - j

Before == {"open sync", "write sync", "open", "opening"}

\* With n[s] blocks written, and c[s] what s does: who has not begun has no block in x, the
\* blocks of the one who writes are the last ones.
Sound(x, n, c) ==
    /\ Unmixed(x)
    /\ \A s \in Sender : c[s] \in Before => \A k \in 1 .. Len(x) : x[k][1] # s
    /\ \A s \in Sender : c[s] = "copy" =>
          \A k \in 1 .. Len(x) : x[k][1] = s => x[k][2] = n[s] - (Len(x) - k)

LEMMA BlockParts == \A e \in Block : e[1] \in Sender /\ e[2] \in Int /\ e[2] \in Nat
BY DEF Block

LEMMA SoundAppend ==
  ASSUME NEW x \in Seq(Block), NEW n \in [Sender -> Nat], NEW c, NEW s \in Sender,
         c[s] = "copy", \A q \in Sender : q # s => c[q] # "copy",
         Sound(x, n, c), n[s] + 1 \in 1 .. FifoBlocks
  PROVE  Sound(Append(x, <<s, n[s] + 1>>), [n EXCEPT ![s] = @ + 1], c)
<1> DEFINE e == <<s, n[s] + 1>>  y == Append(x, e)  l == Len(x)
      n2 == [n EXCEPT ![s] = @ + 1]
<1>1. e \in Block /\ e[1] = s /\ e[2] = n[s] + 1 /\ n2[s] = n[s] + 1 /\ n[s] \in Nat
  BY DEF Block
<1> HIDE DEF e
<1>2. /\ Len(y) = l + 1 /\ y[l + 1] = e /\ l \in Nat
      /\ \A k \in 1 .. l : y[k] = x[k] /\ x[k] \in Block
  BY <1>1, AppendElements
<1> HIDE DEF y, n2, l
<1>3. \A k \in 1 .. (l + 1) : k \in 1 .. l \/ k = l + 1
  BY <1>2
<1>4. ASSUME NEW k \in 1 .. l, x[k][1] = s PROVE x[k][2] = n[s] - (l - k) /\ x[k][2] \in Int
  BY <1>2, <1>4, BlockParts DEF Sound, l
<1>5. Unmixed(x)
  BY DEF Sound
<1>6. Unmixed(y)
  <2> SUFFICES ASSUME NEW j \in 1 .. (l + 1), NEW k \in 1 .. (l + 1), j < k, y[j][1] = y[k][1]
               PROVE  y[k][2] - y[j][2] = k - j
    BY <1>2 DEF Unmixed
  <2>1. j \in 1 .. l
    BY <1>2
  <2>2. CASE k \in 1 .. l
    BY <1>2, <1>5, <2>1, <2>2 DEF Unmixed, l
  <2>3. CASE k = l + 1
    <3>1. x[j][1] = s /\ y[k][2] = n[s] + 1 /\ y[j] = x[j]
      BY <1>1, <1>2, <2>1, <2>3
    <3>2. x[j][2] = n[s] - (l - j)
      BY <1>4, <2>1, <3>1
    <3>3. (n[s] + 1) - (n[s] - (l - j)) = (l + 1) - j
      BY <1>1, <1>2, <2>1
    <3> QED
      BY <2>3, <3>1, <3>2, <3>3
  <2> QED
    BY <1>3, <2>2, <2>3
<1>7. ASSUME NEW q \in Sender, c[q] \in Before, NEW k \in 1 .. (l + 1) PROVE y[k][1] # q
  <2>1. q # s
    BY <1>7 DEF Before
  <2>2. \A m \in 1 .. l : x[m][1] # q
    BY <1>7 DEF Sound, l
  <2> QED
    BY <1>1, <1>2, <1>3, <2>1, <2>2
<1>8. ASSUME NEW q \in Sender, c[q] = "copy", NEW k \in 1 .. (l + 1), y[k][1] = q
      PROVE  y[k][2] = n2[q] - ((l + 1) - k)
  <2>1. q = s
    BY <1>8
  <2>2. CASE k \in 1 .. l
    <3>1. y[k][2] = n[s] - (l - k)
      BY <1>2, <1>4, <1>8, <2>1, <2>2
    <3>2. n[s] - (l - k) = (n[s] + 1) - ((l + 1) - k)
      BY <1>1, <1>2, <2>2
    <3> QED
      BY <1>1, <2>1, <3>1, <3>2
  <2>3. CASE k = l + 1
    <3>1. (l + 1) - k = 0 /\ n[s] + 1 \in Int
      BY <1>1, <1>2, <2>3
    <3> QED
      BY <1>1, <1>2, <2>1, <2>3, <3>1
  <2> QED
    BY <1>3, <2>2, <2>3
<1>9. Sound(y, n2, c)
  BY <1>2, <1>6, <1>7, <1>8 DEF Sound
<1> QED
  BY <1>9 DEF y, e, n2

LEMMA SoundTail ==
  ASSUME NEW x \in Seq(Block), x # <<>>, NEW n \in [Sender -> Nat], NEW c, Sound(x, n, c)
  PROVE  Sound(Tail(x), n, c)
<1> DEFINE y == Tail(x)  l == Len(x)
<1>1. /\ l \in Nat /\ Len(y) = l - 1 /\ \A k \in 1 .. (l - 1) : y[k] = x[k + 1]
      /\ \A k \in 1 .. l : x[k] \in Block
  BY TailElements
<1> HIDE DEF y, l
<1>2. \A k \in 1 .. (l - 1) : k + 1 \in 1 .. l
  BY <1>1
<1>3. Unmixed(y)
  <2> SUFFICES ASSUME NEW j \in 1 .. (l - 1), NEW k \in 1 .. (l - 1), j < k, y[j][1] = y[k][1]
               PROVE  y[k][2] - y[j][2] = k - j
    BY <1>1 DEF Unmixed
  <2>1. /\ j + 1 \in 1 .. l /\ k + 1 \in 1 .. l /\ j + 1 < k + 1
        /\ y[j] = x[j + 1] /\ y[k] = x[k + 1] /\ (k + 1) - (j + 1) = k - j
    BY <1>1, <1>2
  <2>2. x[k + 1][2] - x[j + 1][2] = (k + 1) - (j + 1)
    BY <2>1 DEF Sound, Unmixed, l
  <2> QED
    BY <2>1, <2>2
<1>4. ASSUME NEW s \in Sender, c[s] \in Before, NEW k \in 1 .. (l - 1) PROVE y[k][1] # s
  <2>1. x[k + 1][1] # s
    BY <1>2, <1>4 DEF Sound, l
  <2> QED
    BY <1>1, <2>1
<1>5. ASSUME NEW s \in Sender, c[s] = "copy", NEW k \in 1 .. (l - 1), y[k][1] = s
      PROVE  y[k][2] = n[s] - ((l - 1) - k)
  <2>1. k + 1 \in 1 .. l /\ y[k] = x[k + 1]
    BY <1>1, <1>2
  <2>2. x[k + 1][2] = n[s] - (l - (k + 1))
    BY <1>5, <2>1 DEF Sound, l
  <2>3. l - (k + 1) = (l - 1) - k
    BY <1>1
  <2> QED
    BY <2>1, <2>2, <2>3
<1>6. Sound(y, n, c)
  BY <1>1, <1>3, <1>4, <1>5 DEF Sound
<1> QED
  BY <1>6 DEF y

LEMMA SoundGoesOn ==
  ASSUME NEW x, NEW n, NEW c, Sound(x, n, c), NEW c2,
         \A s \in Sender : /\ c2[s] \in Before => c[s] \in Before
                           /\ c2[s] = "copy" => c[s] = "copy" \/ c[s] \in Before
  PROVE  Sound(x, n, c2)
BY DEF Sound

LEMMA UnmixedStart ==
  ASSUME NEW x \in Seq(Block), NEW y \in Seq(Block), Unmixed(x \o y)
  PROVE  Unmixed(x)
<1>1. /\ Len(x) \in Nat /\ Len(y) \in Nat /\ Len(x \o y) = Len(x) + Len(y)
      /\ \A k \in 1 .. Len(x) + Len(y) : (x \o y)[k] = IF k <= Len(x) THEN x[k] ELSE y[k - Len(x)]
  BY ConcatProperties
<1>2. \A k \in 1 .. Len(x) : k \in 1 .. Len(x \o y) /\ (x \o y)[k] = x[k]
  BY <1>1
<1> QED
  BY <1>2 DEF Unmixed

LEMMA HeadMoves ==
  ASSUME NEW S, NEW x \in Seq(S), NEW y \in Seq(S), y # <<>>
  PROVE  Append(x, Head(y)) \o Tail(y) = x \o y
<1>1. Head(y) \in S /\ Tail(y) \in Seq(S) /\ <<Head(y)>> \o Tail(y) = y
  OBVIOUS
<1> DEFINE h == Head(y)  t == Tail(y)
<1>2. <<h>> \in Seq(S)
  BY <1>1
<1>3. Append(x, h) = x \o <<h>>
  BY <1>1, AppendIsConcat
<1> HIDE DEF h, t
<1>4. (x \o <<h>>) \o t = x \o (<<h>> \o t)
  BY <1>1, <1>2, ConcatAssociative DEF t
<1> QED
  BY <1>1, <1>3, <1>4 DEF h, t

LEMMA AppendToBoth ==
  ASSUME NEW S, NEW x \in Seq(S), NEW y \in Seq(S), NEW e \in S
  PROVE  x \o Append(y, e) = Append(x \o y, e) /\ x \o y \in Seq(S)
<1>1. x \o y \in Seq(S) /\ <<e>> \in Seq(S)
  OBVIOUS
<1>2. Append(y, e) = y \o <<e>> /\ Append(x \o y, e) = (x \o y) \o <<e>>
  BY <1>1, AppendIsConcat
<1>3. (x \o y) \o <<e>> = x \o (y \o <<e>>)
  BY <1>1, ConcatAssociative
<1> QED
  BY <1>1, <1>2, <1>3

-----------------------------------------------------------------------------
\* p has written its message, and has not closed its sync FIFO yet.
Holds(p) == \/ fpc[p] \in {"open", "opening", "copy", "close sync"}
            \/ p \in Receiver /\ fpc[p] = "close data"

KeptOut ==
    /\ \A p \in Fifo!Process :
          /\ Holds(p) \/ fpc[p] = "write sync" => p \in syncOpen[Fifo!SyncOf(p)]
          /\ Holds(p) => syncFull[Fifo!SyncOf(p)]
    /\ \A p, q \in Fifo!Process : Holds(p) /\ Holds(q) /\ Fifo!SyncOf(p) = Fifo!SyncOf(q) => p = q

EndsRight ==
    /\ ends \subseteq Fifo!Process
    /\ \A r \in Receiver : r \in ends <=> fpc[r] \in {"opening", "copy", "close data"}
    /\ \A s \in Sender : s \in ends <=> fpc[s] \in {"opening", "copy", "close sync", "close data"}

NotBegun == /\ \A r \in Receiver : fpc[r] \in Before => fprinted[r] = <<>>
            /\ \A s \in Sender : fpc[s] \in Before => sent[s] = 0

\* What a receiver has printed and what is still to come.
Streams ==
    /\ Sound(data, sent, fpc)
    /\ \A r \in Receiver : IF fpc[r] = "copy" THEN Sound(fprinted[r] \o data, sent, fpc)
                           ELSE Unmixed(fprinted[r])

FifoTypes == Fifo!TypeOK /\ fprinted \in [Receiver -> Seq(Block)]

FifoInv == FifoTypes /\ KeptOut /\ EndsRight /\ NotBegun /\ Streams

LEMMA FifoConstants ==
  /\ FifoBlocks \in Nat /\ Capacity \in Nat /\ Capacity > 0 /\ Receiver \cap Sender = {}
  /\ Fifo!Process = Receiver \cup Sender
  /\ \A p \in Fifo!Process : Fifo!SyncOf(p) \in Fifo!SyncFifos
  /\ \A p \in Receiver : Fifo!SyncOf(p) = "fifo_rcv"
  /\ \A p \in Sender : Fifo!SyncOf(p) = "fifo_snd"
BY ProgramsAssumption DEF Fifo!SizeAssumption, Fifo!SideAssumption, Fifo!Process, Fifo!SyncOf, Fifo!SyncFifos

LEMMA EmptyData == <<>> \in Seq(Block) /\ Len(<<>>) <= Capacity
<1>1. Len(<<>>) = 0 /\ <<>> \in Seq(Block)
  BY EmptySeq
<1>2. 0 <= Capacity
  BY FifoConstants
<1> QED
  BY <1>1, <1>2

LEMMA InvFifo ==
  ASSUME FifoInv
  PROVE  /\ Fifo!TypeOK /\ KeptOut /\ EndsRight /\ NotBegun /\ Streams
         /\ data \in Seq(Block) /\ sent \in [Sender -> 0 .. FifoBlocks] /\ sent \in [Sender -> Nat]
         /\ fprinted \in [Receiver -> Seq(Block)]
         /\ fpc \in [Fifo!Process -> Fifo!Locations]
         /\ syncOpen \in [Fifo!SyncFifos -> SUBSET Fifo!Process]
         /\ syncFull \in [Fifo!SyncFifos -> BOOLEAN]
<1>1. Fifo!TypeOK /\ FifoTypes
  BY DEF FifoInv, FifoTypes
<1>2. data \in Seq(Block) /\ sent \in [Sender -> 0 .. FifoBlocks]
  BY <1>1 DEF Fifo!TypeOK, Block
<1>3. sent \in [Sender -> Nat]
  BY <1>2, FifoConstants
<1> QED
  BY <1>1, <1>2, <1>3 DEF FifoInv, FifoTypes, Fifo!TypeOK

LEMMA FifoInit ==
  ASSUME Fifo!Init
  PROVE  FifoInv
<1> USE FifoConstants
<1>1. /\ syncOpen = [f \in Fifo!SyncFifos |-> {}] /\ syncFull = [f \in Fifo!SyncFifos |-> FALSE]
      /\ data = <<>> /\ ends = {} /\ fpc = [p \in Fifo!Process |-> "open sync"]
      /\ sent = [s \in Sender |-> 0] /\ fprinted = [r \in Receiver |-> <<>>]
  BY DEF Fifo!Init
<1>2. FifoTypes
  <2>1. <<>> \in Seq(Block) /\ Len(<<>>) = 0 /\ 0 \in 0 .. FifoBlocks
    OBVIOUS
  <2>2. fprinted \in [Receiver -> Seq(Block)] /\ \A r \in Receiver : fprinted[r] \in Seq(Block)
    BY <1>1, <2>1
  <2>6. sent \in [Sender -> 0 .. FifoBlocks]
    BY <1>1, <2>1
  <2>7. Len(data) = 0 /\ data \in Seq(Block)
    <3>1. data = <<>>
      BY <1>1
    <3> QED
      BY <2>1, <3>1
  <2>3. sent \in [Sender -> 0 .. FifoBlocks] /\ data \in Seq(Block) /\ Len(data) <= Capacity
    BY <2>6, <2>7
  <2>4. syncOpen \in [Fifo!SyncFifos -> SUBSET Fifo!Process] /\ syncFull \in [Fifo!SyncFifos -> BOOLEAN]
    BY <1>1
  <2>5. fpc \in [Fifo!Process -> Fifo!Locations]
    BY <1>1 DEF Fifo!Locations
  <2> QED
    BY <1>1, <2>2, <2>3, <2>4, <2>5 DEF FifoTypes, Fifo!TypeOK, Block
<1>3. KeptOut /\ EndsRight /\ NotBegun
  BY <1>1 DEF KeptOut, EndsRight, NotBegun, Holds
<1>4. Len(data) = 0 /\ \A r \in Receiver : Len(fprinted[r]) = 0 /\ fpc[r] # "copy"
  BY <1>1
<1>5. Streams
  <2>1. ASSUME NEW x, Len(x) = 0 PROVE 1 .. Len(x) = {}
    BY <2>1
  <2>2. ASSUME NEW x, Len(x) = 0 PROVE Unmixed(x) /\ Sound(x, sent, fpc)
    BY <2>1, <2>2 DEF Sound, Unmixed
  <2> QED
    BY <1>4, <2>2 DEF Streams
<1> QED
  BY <1>2, <1>3, <1>5 DEF FifoInv

\* One process of a kind at a time.
LEMMA OneCopies ==
  ASSUME FifoInv
  PROVE  /\ \A p, q \in Sender : fpc[p] = "copy" /\ fpc[q] = "copy" => p = q
         /\ \A p, q \in Receiver : fpc[p] = "copy" /\ fpc[q] = "copy" => p = q
BY InvFifo, FifoConstants DEF KeptOut, Holds

\* Steps that write and print nothing.
LEMMA StreamsGoOn ==
  ASSUME FifoInv, UNCHANGED <<sent, fprinted>>,
         data' = data \/ (data' = <<>> /\ \A r \in Receiver : fpc'[r] # "copy"),
         \A p \in Fifo!Process : /\ fpc'[p] \in Before => fpc[p] \in Before
                                 /\ fpc'[p] = "copy" => fpc[p] = "copy" \/ fpc[p] \in Before
  PROVE  NotBegun' /\ Streams'
<1> USE InvFifo, FifoConstants
<1>1. NotBegun'
  BY DEF NotBegun
<1>2. Sound(data, sent, fpc) /\ (<<>> \in Seq(Block) /\ Len(<<>>) = 0)
  BY DEF Streams
<1>3. Sound(<<>>, sent, fpc)
  BY <1>2 DEF Sound, Unmixed
<1>4. Sound(data', sent, fpc)
  BY <1>2, <1>3
<1>5. \A s \in Sender : /\ fpc'[s] \in Before => fpc[s] \in Before
                        /\ fpc'[s] = "copy" => fpc[s] = "copy" \/ fpc[s] \in Before
  OBVIOUS
<1>6. Sound(data', sent, fpc')
  BY <1>4, <1>5, SoundGoesOn
<1>7. ASSUME NEW r \in Receiver
      PROVE  IF fpc'[r] = "copy" THEN Sound(fprinted[r] \o data', sent, fpc')
             ELSE Unmixed(fprinted[r])
  <2>1. fprinted[r] \in Seq(Block)
    OBVIOUS
  <2>2. CASE fpc'[r] = "copy"
    <3>1. data' = data
      BY <2>2
    <3>2. CASE fpc[r] = "copy"
      <4>1. Sound(fprinted[r] \o data, sent, fpc)
        BY <3>2 DEF Streams
      <4>2. Sound(fprinted[r] \o data, sent, fpc')
        BY <1>5, <4>1, SoundGoesOn
      <4> QED
        BY <2>2, <3>1, <4>2
    <3>3. CASE fpc[r] # "copy"
      <4>1. fprinted[r] = <<>>
        BY <2>2, <3>3 DEF NotBegun
      <4>2. fprinted[r] \o data = data
        BY <4>1, ConcatEmptySeq
      <4> QED
        BY <1>6, <2>2, <3>1, <4>2
    <3> QED
      BY <3>2, <3>3
  <2>3. CASE fpc'[r] # "copy"
    <3>1. CASE fpc[r] = "copy"
      <4>1. Unmixed(fprinted[r] \o data)
        BY <3>1 DEF Streams, Sound
      <4> QED
        BY <2>1, <2>3, <4>1, UnmixedStart
    <3>2. CASE fpc[r] # "copy"
      BY <2>3, <3>2 DEF Streams
    <3> QED
      BY <3>1, <3>2
  <2> QED
    BY <2>2, <2>3
<1> QED
  BY <1>1, <1>6, <1>7 DEF Streams

\* A process that closes its sync FIFO, and what that leaves of the others.
LEMMA Released ==
  ASSUME FifoInv, NEW p \in Fifo!Process, Fifo!CloseSync(p),
         \A q \in Fifo!Process : q # p => fpc'[q] = fpc[q],
         fpc'[p] \in Fifo!Over \/ (p \notin Receiver /\ fpc'[p] = "close data")
  PROVE  /\ KeptOut'
         /\ syncOpen' \in [Fifo!SyncFifos -> SUBSET Fifo!Process]
         /\ syncFull' \in [Fifo!SyncFifos -> BOOLEAN]
<1> USE InvFifo, FifoConstants
<1> DEFINE f == Fifo!SyncOf(p)  others == syncOpen[f] \ {p}
<1>1. /\ syncOpen' = [syncOpen EXCEPT ![f] = others]
      /\ syncFull' = [syncFull EXCEPT ![f] = @ /\ others # {}]
  BY DEF Fifo!CloseSync
<1>2. f \in Fifo!SyncFifos /\ others \in SUBSET Fifo!Process
  OBVIOUS
<1>3. ~Holds(p)' /\ fpc'[p] # "write sync"
  BY DEF Holds, Fifo!Over
<1>4. ASSUME NEW q \in Fifo!Process, q # p
      PROVE  fpc'[q] = fpc[q] /\ Holds(q)' = Holds(q)
  BY <1>4 DEF Holds
<1> HIDE DEF f, others
<1>5. ASSUME NEW q \in Fifo!Process, Holds(q)' \/ fpc'[q] = "write sync"
      PROVE  /\ q \in syncOpen'[Fifo!SyncOf(q)]
             /\ Holds(q)' => syncFull'[Fifo!SyncOf(q)]
  <2>1. q # p /\ q \in syncOpen[Fifo!SyncOf(q)] /\ (Holds(q)' => syncFull[Fifo!SyncOf(q)])
    BY <1>3, <1>4, <1>5 DEF KeptOut
  <2>2. CASE Fifo!SyncOf(q) = f
    <3>1. q \in others /\ syncOpen'[f] = others
      BY <1>1, <1>2, <2>1, <2>2 DEF others
    <3>2. syncFull'[f] = (syncFull[f] /\ others # {})
      BY <1>1, <1>2
    <3> QED
      BY <2>1, <2>2, <3>1, <3>2
  <2>3. CASE Fifo!SyncOf(q) # f
    BY <1>1, <1>2, <2>1, <2>3
  <2> QED
    BY <2>2, <2>3
<1>6. KeptOut'
  BY <1>3, <1>4, <1>5 DEF KeptOut
<1>7. syncFull' \in [Fifo!SyncFifos -> BOOLEAN]
  BY <1>1, <1>2
<1>8. syncOpen' \in [Fifo!SyncFifos -> SUBSET Fifo!Process]
  BY <1>1, <1>2
<1> QED
  BY <1>6, <1>7, <1>8

\* Steps that open or close nothing of the sync FIFOs.
LEMMA StillKeptOut ==
  ASSUME FifoInv, UNCHANGED <<syncOpen, syncFull>>,
         \A p \in Fifo!Process : (Holds(p)' => Holds(p)) /\ (fpc'[p] = "write sync" => fpc[p] = "write sync")
  PROVE  KeptOut'
BY InvFifo, FifoConstants DEF KeptOut

LEMMA FifoSyncSteps ==
  ASSUME FifoInv, NEW p \in Fifo!Process,
         Fifo!OpenSync(p) \/ Fifo!WriteSync(p) \/ Fifo!CloseSyncOf(p)
  PROVE  FifoInv'
<1> USE InvFifo, FifoConstants
<1> DEFINE f == Fifo!SyncOf(p)
<1>0. f \in Fifo!SyncFifos
  OBVIOUS
<1>1. CASE Fifo!OpenSync(p)
  <2>1. /\ fpc[p] = "open sync" /\ fpc' = [fpc EXCEPT ![p] = "write sync"]
        /\ syncOpen' = [syncOpen EXCEPT ![f] = @ \cup {p}]
        /\ UNCHANGED <<syncFull, data, ends, sent, fprinted>>
    BY <1>1 DEF Fifo!OpenSync, Fifo!Goto
  <2> HIDE DEF f
  <2>2. fpc' \in [Fifo!Process -> Fifo!Locations]
    BY <2>1 DEF Fifo!Locations
  <2>3. \A q \in Fifo!Process : q # p => fpc'[q] = fpc[q] /\ Holds(q)' = Holds(q)
    BY <2>1 DEF Holds
  <2>4. fpc'[p] = "write sync" /\ ~Holds(p)'
    BY <2>1 DEF Holds
  <2>5. syncOpen' \in [Fifo!SyncFifos -> SUBSET Fifo!Process]
        /\ syncOpen'[f] = syncOpen[f] \cup {p}
        /\ \A g \in Fifo!SyncFifos : syncOpen[g] \subseteq syncOpen'[g]
    BY <1>0, <2>1
  <2>6. FifoTypes'
    <3>1. \A q \in ends : fpc'[q] \in {"opening", "copy", "close data", "close sync"}
      BY <2>1, <2>3 DEF Fifo!TypeOK, EndsRight
    <3> QED
      BY <2>1, <2>2, <2>5, <3>1 DEF FifoTypes, Fifo!TypeOK
  <2>7. KeptOut'
    <3>1. ASSUME NEW q \in Fifo!Process, Holds(q)' \/ fpc'[q] = "write sync"
          PROVE  /\ q \in syncOpen'[Fifo!SyncOf(q)]
                 /\ Holds(q)' => syncFull'[Fifo!SyncOf(q)]
      <4>1. CASE q = p
        BY <2>4, <2>5, <4>1 DEF f
      <4>2. CASE q # p
        BY <2>1, <2>3, <2>5, <3>1, <4>2 DEF KeptOut
      <4> QED
        BY <4>1, <4>2
    <3> QED
      BY <2>3, <2>4, <3>1 DEF KeptOut
  <2>8. EndsRight'
    BY <2>1, <2>3, <2>4 DEF EndsRight
  <2>9. NotBegun' /\ Streams'
    BY <2>1, <2>3, <2>4, StreamsGoOn DEF Before
  <2> QED
    BY <2>6, <2>7, <2>8, <2>9 DEF FifoInv
<1>2. CASE Fifo!WriteSync(p) /\ fpc'[p] # "refused"
  <2>1. /\ fpc[p] = "write sync" /\ fpc' = [fpc EXCEPT ![p] = "open"] /\ ~syncFull[f]
        /\ syncFull' = [syncFull EXCEPT ![f] = TRUE]
        /\ UNCHANGED <<syncOpen, data, ends, sent, fprinted>>
    BY <1>2 DEF Fifo!WriteSync, Fifo!Goto
  <2> HIDE DEF f
  <2>2. fpc' \in [Fifo!Process -> Fifo!Locations]
    BY <2>1 DEF Fifo!Locations
  <2>3. \A q \in Fifo!Process : q # p => fpc'[q] = fpc[q] /\ Holds(q)' = Holds(q)
    BY <2>1 DEF Holds
  <2>4. fpc'[p] = "open" /\ p \in syncOpen[f] /\ \A q \in Fifo!Process : Holds(q) => Fifo!SyncOf(q) # f
    BY <2>1 DEF KeptOut, f
  <2>5. /\ syncFull' \in [Fifo!SyncFifos -> BOOLEAN] /\ syncFull'[f]
        /\ \A g \in Fifo!SyncFifos : syncFull[g] => syncFull'[g]
    BY <1>0, <2>1
  <2>6. FifoTypes'
    <3>1. \A q \in ends : fpc'[q] \in {"opening", "copy", "close data", "close sync"}
      BY <2>1, <2>3 DEF Fifo!TypeOK, EndsRight
    <3> QED
      BY <2>1, <2>2, <2>5, <3>1 DEF FifoTypes, Fifo!TypeOK
  <2>7. KeptOut'
    <3>1. ASSUME NEW q \in Fifo!Process, Holds(q)' \/ fpc'[q] = "write sync"
          PROVE  /\ q \in syncOpen'[Fifo!SyncOf(q)]
                 /\ Holds(q)' => syncFull'[Fifo!SyncOf(q)]
      <4>1. CASE q = p
        BY <2>1, <2>4, <2>5, <4>1 DEF f
      <4>2. CASE q # p
        BY <2>1, <2>3, <2>5, <3>1, <4>2 DEF KeptOut
      <4> QED
        BY <4>1, <4>2
    <3>2. ASSUME NEW q \in Fifo!Process, NEW o \in Fifo!Process, Holds(q)', Holds(o)',
                 Fifo!SyncOf(q) = Fifo!SyncOf(o)
          PROVE  q = o
      BY <2>3, <2>4, <3>2 DEF KeptOut, f
    <3> QED
      BY <3>1, <3>2 DEF KeptOut
  <2>8. EndsRight'
    BY <2>1, <2>3, <2>4 DEF EndsRight
  <2>9. NotBegun' /\ Streams'
    BY <2>1, <2>3, <2>4, StreamsGoOn DEF Before
  <2> QED
    BY <2>6, <2>7, <2>8, <2>9 DEF FifoInv
<1>3. ASSUME Fifo!CloseSync(p), fpc' \in [Fifo!Process -> Fifo!Locations],
             \A q \in Fifo!Process : q # p => fpc'[q] = fpc[q],
             \/ fpc[p] = "write sync" /\ fpc'[p] = "refused"
             \/ fpc[p] = "close sync" /\ fpc'[p] = IF p \in Receiver THEN "done" ELSE "close data",
             UNCHANGED <<data, ends, sent, fprinted>>
      PROVE  FifoInv'
  <2>1. KeptOut' /\ syncOpen' \in [Fifo!SyncFifos -> SUBSET Fifo!Process] /\ syncFull' \in [Fifo!SyncFifos -> BOOLEAN]
    <3>1. fpc'[p] \in Fifo!Over \/ (p \notin Receiver /\ fpc'[p] = "close data")
      BY <1>3 DEF Fifo!Over
    <3> QED
      BY <1>3, <3>1, Released
  <2>4. EndsRight'
    BY <1>3 DEF EndsRight
  <2>5. FifoTypes'
    <3>1. \A q \in ends : fpc'[q] \in {"opening", "copy", "close data", "close sync"}
      BY <1>3, <2>4 DEF EndsRight
    <3> QED
      BY <1>3, <2>1, <3>1 DEF FifoTypes, Fifo!TypeOK
  <2>6. NotBegun' /\ Streams'
    <3>1. \A q \in Fifo!Process : /\ fpc'[q] \in Before => fpc[q] \in Before
                                  /\ fpc'[q] = "copy" => fpc[q] = "copy" \/ fpc[q] \in Before
      BY <1>3 DEF Before
    <3> QED
      BY <1>3, <3>1, StreamsGoOn
  <2> QED
    BY <2>1, <2>4, <2>5, <2>6 DEF FifoInv
<1>4. CASE Fifo!WriteSync(p) /\ fpc'[p] = "refused"
  <2>1. fpc[p] = "write sync" /\ fpc' \in {[fpc EXCEPT ![p] = "open"], [fpc EXCEPT ![p] = "refused"]}
    BY <1>4 DEF Fifo!WriteSync, Fifo!Goto
  <2>2. /\ fpc' = [fpc EXCEPT ![p] = "refused"] /\ Fifo!CloseSync(p)
        /\ UNCHANGED <<data, ends, sent, fprinted>>
    BY <1>4, <2>1 DEF Fifo!WriteSync, Fifo!Goto
  <2>3. fpc' \in [Fifo!Process -> Fifo!Locations] /\ \A q \in Fifo!Process : q # p => fpc'[q] = fpc[q]
    BY <2>2 DEF Fifo!Locations, Fifo!Over
  <2> QED
    BY <1>3, <1>4, <2>1, <2>2, <2>3
<1>5. CASE Fifo!CloseSyncOf(p)
  <2>1. /\ fpc[p] = "close sync" /\ Fifo!CloseSync(p)
        /\ fpc' = [fpc EXCEPT ![p] = IF p \in Receiver THEN "done" ELSE "close data"]
        /\ UNCHANGED <<data, ends, sent, fprinted>>
    BY <1>5 DEF Fifo!CloseSyncOf, Fifo!Goto
  <2>2. /\ fpc' \in [Fifo!Process -> Fifo!Locations] /\ \A q \in Fifo!Process : q # p => fpc'[q] = fpc[q]
        /\ fpc'[p] = IF p \in Receiver THEN "done" ELSE "close data"
    BY <2>1 DEF Fifo!Locations, Fifo!Over
  <2> QED
    BY <1>3, <2>1, <2>2
<1> QED
  BY <1>1, <1>2, <1>4, <1>5

LEMMA FifoOpenData ==
  ASSUME FifoInv, NEW p \in Fifo!Process, Fifo!OpenData(p)
  PROVE  FifoInv'
<1> USE InvFifo, FifoConstants
<1> DEFINE others == IF p \in Receiver THEN Fifo!Writers ELSE Fifo!Readers
<1>1. /\ fpc[p] = "open" /\ ends' = ends \cup {p}
      /\ fpc' = [q \in Fifo!Process |->
                    IF q = p THEN IF others = {} THEN "opening" ELSE "copy"
                    ELSE IF q \in others /\ fpc[q] = "opening" THEN "copy" ELSE fpc[q]]
      /\ UNCHANGED <<syncOpen, syncFull, data, sent, fprinted>>
  BY DEF Fifo!OpenData
<1> HIDE DEF others
<1>2. /\ fpc'[p] \in {"opening", "copy"}
      /\ \A q \in Fifo!Process : q # p =>
            fpc'[q] = fpc[q] \/ (fpc[q] = "opening" /\ fpc'[q] = "copy")
  BY <1>1
<1>3. fpc' \in [Fifo!Process -> Fifo!Locations]
  BY <1>1 DEF Fifo!Locations
<1>4. KeptOut'
  BY <1>1, <1>2, StillKeptOut DEF Holds
<1>5. EndsRight'
  BY <1>1, <1>2 DEF EndsRight
<1>6. FifoTypes'
  <2>1. \A q \in ends' : fpc'[q] \in {"opening", "copy", "close data", "close sync"}
    BY <1>1, <1>2, <1>5 DEF EndsRight
  <2> QED
    BY <1>1, <1>3, <2>1 DEF FifoTypes, Fifo!TypeOK
<1>7. NotBegun' /\ Streams'
  <2>1. \A q \in Fifo!Process : /\ fpc'[q] \in Before => fpc[q] \in Before
                                /\ fpc'[q] = "copy" => fpc[q] = "copy" \/ fpc[q] \in Before
    BY <1>1, <1>2 DEF Before
  <2> QED
    BY <1>1, <2>1, StreamsGoOn
<1> QED
  BY <1>4, <1>5, <1>6, <1>7 DEF FifoInv

\* The end of the copy, on either side.
LEMMA FifoCopied ==
  ASSUME FifoInv, NEW p \in Fifo!Process,
         (p \in Receiver /\ Fifo!EndOfFile(p)) \/ (p \in Sender /\ Fifo!Sent(p))
  PROVE  FifoInv'
<1> USE InvFifo, FifoConstants
<1>1. /\ fpc[p] = "copy"
      /\ fpc' = [fpc EXCEPT ![p] = IF p \in Receiver THEN "close data" ELSE "close sync"]
      /\ UNCHANGED <<syncOpen, syncFull, data, ends, sent, fprinted>>
  BY DEF Fifo!EndOfFile, Fifo!Sent, Fifo!Goto
<1>2. /\ fpc'[p] = IF p \in Receiver THEN "close data" ELSE "close sync"
      /\ \A q \in Fifo!Process : q # p => fpc'[q] = fpc[q]
  BY <1>1
<1>3. fpc' \in [Fifo!Process -> Fifo!Locations]
  BY <1>1 DEF Fifo!Locations
<1>4. KeptOut'
  BY <1>1, <1>2, StillKeptOut DEF Holds
<1>5. EndsRight'
  BY <1>1, <1>2 DEF EndsRight
<1>6. FifoTypes'
  <2>1. \A q \in ends' : fpc'[q] \in {"opening", "copy", "close data", "close sync"}
    BY <1>1, <1>2, <1>5 DEF EndsRight
  <2> QED
    BY <1>1, <1>3, <2>1 DEF FifoTypes, Fifo!TypeOK
<1>7. NotBegun' /\ Streams'
  <2>1. \A q \in Fifo!Process : /\ fpc'[q] \in Before => fpc[q] \in Before
                                /\ fpc'[q] = "copy" => fpc[q] = "copy" \/ fpc[q] \in Before
    BY <1>1, <1>2 DEF Before
  <2> QED
    BY <1>1, <2>1, StreamsGoOn
<1> QED
  BY <1>4, <1>5, <1>6, <1>7 DEF FifoInv

\* my_fifo is closed: alone, or by the end of the process.
LEMMA DataClosed ==
  ASSUME FifoInv, NEW p \in Fifo!Process, Fifo!CloseData(p), UNCHANGED <<sent, fprinted>>,
         fpc' \in [Fifo!Process -> Fifo!Locations],
         \A q \in Fifo!Process : q # p => fpc'[q] = fpc[q],
         fpc'[p] \in Fifo!Over \/ (p \in Receiver /\ fpc'[p] = "close sync")
  PROVE  EndsRight' /\ NotBegun' /\ Streams' /\ data' \in Seq(Block) /\ Len(data') <= Capacity
<1> USE InvFifo, FifoConstants
<1>1. ends' = ends \ {p} /\ data' = IF ends' = {} THEN <<>> ELSE data
  BY DEF Fifo!CloseData
<1>2. EndsRight'
  BY <1>1 DEF EndsRight, Fifo!Over
<1>3. \A q \in Fifo!Process : /\ fpc'[q] \in Before => fpc[q] \in Before
                              /\ fpc'[q] = "copy" => fpc[q] = "copy" \/ fpc[q] \in Before
  BY DEF Before, Fifo!Over
<1>4. data' = data \/ (data' = <<>> /\ \A r \in Receiver : fpc'[r] # "copy")
  BY <1>1, <1>2 DEF EndsRight
<1>5. NotBegun' /\ Streams'
  BY <1>3, <1>4, StreamsGoOn
<1>6. data' \in Seq(Block) /\ Len(data') <= Capacity
  <2>1. CASE data' = data
    BY <2>1 DEF Fifo!TypeOK
  <2>2. CASE data' = <<>>
    BY <2>2, EmptyData, Zenon
  <2> QED
    BY <1>4, <2>1, <2>2
<1> QED
  BY <1>2, <1>5, <1>6

LEMMA FifoEndings ==
  ASSUME FifoInv, NEW p \in Fifo!Process,
         Fifo!CloseDataOf(p) \/ Fifo!Kill(p) \/ (p \in Sender /\ Fifo!Sigpipe(p))
  PROVE  FifoInv'
<1> USE InvFifo, FifoConstants
<1>1. CASE Fifo!CloseDataOf(p)
  <2>1. /\ fpc[p] = "close data" /\ Fifo!CloseData(p)
        /\ fpc' = [fpc EXCEPT ![p] = IF p \in Receiver THEN "close sync" ELSE "done"]
        /\ UNCHANGED <<syncOpen, syncFull, sent, fprinted>>
    BY <1>1 DEF Fifo!CloseDataOf, Fifo!Goto
  <2>2. /\ fpc'[p] = IF p \in Receiver THEN "close sync" ELSE "done"
        /\ \A q \in Fifo!Process : q # p => fpc'[q] = fpc[q]
        /\ fpc' \in [Fifo!Process -> Fifo!Locations]
    BY <2>1 DEF Fifo!Locations, Fifo!Over
  <2>3. fpc'[p] \in Fifo!Over \/ (p \in Receiver /\ fpc'[p] = "close sync")
    BY <2>2 DEF Fifo!Over
  <2>4. EndsRight' /\ NotBegun' /\ Streams' /\ data' \in Seq(Block) /\ Len(data') <= Capacity
    BY <2>1, <2>2, <2>3, DataClosed
  <2>5. KeptOut'
    BY <2>1, <2>2, StillKeptOut DEF Holds
  <2>6. FifoTypes'
    <3>1. \A q \in ends' : fpc'[q] \in {"opening", "copy", "close data", "close sync"}
      BY <2>4 DEF EndsRight
    <3> QED
      BY <2>1, <2>2, <2>4, <3>1 DEF FifoTypes, Fifo!TypeOK, Block
  <2> QED
    BY <2>4, <2>5, <2>6 DEF FifoInv
<1>2. CASE Fifo!Kill(p) \/ (p \in Sender /\ Fifo!Sigpipe(p))
  <2>1. /\ Fifo!CloseSync(p) /\ Fifo!CloseData(p) /\ UNCHANGED <<sent, fprinted>>
        /\ fpc' \in {[fpc EXCEPT ![p] = "killed"], [fpc EXCEPT ![p] = "failed"]}
    BY <1>2 DEF Fifo!Kill, Fifo!Sigpipe, Fifo!Goto
  <2>2. /\ fpc'[p] \in Fifo!Over /\ \A q \in Fifo!Process : q # p => fpc'[q] = fpc[q]
        /\ fpc' \in [Fifo!Process -> Fifo!Locations]
    BY <2>1 DEF Fifo!Locations, Fifo!Over
  <2>4. EndsRight' /\ NotBegun' /\ Streams' /\ data' \in Seq(Block) /\ Len(data') <= Capacity
    BY <2>1, <2>2, DataClosed
  <2>5. /\ KeptOut' /\ syncOpen' \in [Fifo!SyncFifos -> SUBSET Fifo!Process]
        /\ syncFull' \in [Fifo!SyncFifos -> BOOLEAN]
    BY <2>1, <2>2, Released
  <2>6. FifoTypes'
    <3>1. \A q \in ends' : fpc'[q] \in {"opening", "copy", "close data", "close sync"}
      BY <2>4 DEF EndsRight
    <3> QED
      BY <2>1, <2>2, <2>4, <2>5, <3>1 DEF FifoTypes, Fifo!TypeOK, Block
  <2> QED
    BY <2>4, <2>5, <2>6 DEF FifoInv
<1> QED
  BY <1>1, <1>2

LEMMA FifoRead ==
  ASSUME FifoInv, NEW r \in Receiver, Fifo!Read(r)
  PROVE  FifoInv'
<1> USE InvFifo, FifoConstants
<1> DEFINE x == Append(fprinted[r], Head(data))
<1>1. /\ fpc[r] = "copy" /\ data # <<>> /\ fprinted' = [fprinted EXCEPT ![r] = x]
      /\ data' = Tail(data) /\ UNCHANGED <<syncOpen, syncFull, ends, fpc, sent>>
  BY DEF Fifo!Read
<1>2. /\ Head(data) \in Block /\ Tail(data) \in Seq(Block) /\ Len(Tail(data)) = Len(data) - 1
      /\ Len(data) \in Nat
  BY <1>1, TailElements
<1>3. x \in Seq(Block) /\ fprinted[r] \in Seq(Block)
  BY <1>2
<1>4. x \o Tail(data) = fprinted[r] \o data
  BY <1>1, <1>3, HeadMoves
<1> HIDE DEF x
<1>5. /\ fprinted' \in [Receiver -> Seq(Block)] /\ fprinted'[r] = x
      /\ \A q \in Receiver : q # r => fprinted'[q] = fprinted[q] /\ fpc[q] # "copy"
  BY <1>1, <1>3, OneCopies
<1>6. FifoTypes'
  <2>1. Len(data') <= Capacity
    <3>1. Len(data) <= Capacity /\ Len(data') = Len(data) - 1
      BY <1>1, <1>2 DEF Fifo!TypeOK
    <3> QED
      BY <1>2, <3>1
  <2> QED
    BY <1>1, <1>2, <1>5, <2>1 DEF FifoTypes, Fifo!TypeOK, Block
<1>7. KeptOut' /\ EndsRight'
  <2>1. UNCHANGED <<syncOpen, syncFull, ends, fpc>>
    BY <1>1
  <2> QED
    BY <2>1 DEF KeptOut, EndsRight, Holds
<1>8. NotBegun'
  BY <1>1, <1>5 DEF NotBegun, Before
<1>9. Streams'
  <2>1. Sound(data', sent, fpc)
    BY <1>1, SoundTail DEF Streams
  <2>2. Sound(fprinted'[r] \o data', sent, fpc)
    BY <1>1, <1>4, <1>5 DEF Streams
  <2>3. ASSUME NEW q \in Receiver, q # r PROVE fpc[q] # "copy" /\ Unmixed(fprinted'[q])
    BY <1>5, <2>3 DEF Streams
  <2> QED
    BY <1>1, <2>1, <2>2, <2>3 DEF Streams
<1> QED
  BY <1>6, <1>7, <1>8, <1>9 DEF FifoInv

LEMMA FifoWrite ==
  ASSUME FifoInv, NEW s \in Sender, Fifo!Write(s)
  PROVE  FifoInv'
<1> USE InvFifo, FifoConstants
<1> DEFINE e == <<s, sent[s] + 1>>
<1>1. /\ fpc[s] = "copy" /\ sent[s] < FifoBlocks /\ Len(data) < Capacity
      /\ data' = Append(data, e) /\ sent' = [sent EXCEPT ![s] = @ + 1]
      /\ UNCHANGED <<syncOpen, syncFull, ends, fpc, fprinted>>
  BY DEF Fifo!Write
<1>2. sent[s] \in Nat /\ sent[s] + 1 \in 1 .. FifoBlocks /\ sent[s] + 1 \in 0 .. FifoBlocks
  <2>1. sent[s] \in Nat
    OBVIOUS
  <2> QED
    BY <1>1, <2>1
<1>3. e \in Block
  BY <1>2 DEF Block
<1>4. sent' \in [Sender -> 0 .. FifoBlocks]
  BY <1>1, <1>2
<1>5. \A q \in Sender : q # s => fpc[q] # "copy"
  BY <1>1, OneCopies
<1> HIDE DEF e
<1>6. data' \in Seq(Block) /\ Len(data') = Len(data) + 1 /\ Len(data) \in Nat
  BY <1>1, <1>3
<1>7. FifoTypes'
  <2>1. Len(data') <= Capacity
    BY <1>1, <1>6
  <2> QED
    BY <1>1, <1>4, <1>6, <2>1 DEF FifoTypes, Fifo!TypeOK, Block
<1>8. KeptOut' /\ EndsRight'
  <2>1. UNCHANGED <<syncOpen, syncFull, ends, fpc>>
    BY <1>1
  <2> QED
    BY <2>1 DEF KeptOut, EndsRight, Holds
<1>9. NotBegun'
  BY <1>1 DEF NotBegun, Before
<1>10. ASSUME NEW x \in Seq(Block), Sound(x, sent, fpc) PROVE Sound(Append(x, e), sent', fpc)
  BY <1>1, <1>2, <1>5, <1>10, SoundAppend DEF e
<1>11. Streams'
  <2>1. Sound(data', sent', fpc)
    BY <1>1, <1>10 DEF Streams
  <2>2. ASSUME NEW r \in Receiver
        PROVE  IF fpc[r] = "copy" THEN Sound(fprinted[r] \o data', sent', fpc) ELSE Unmixed(fprinted[r])
    <3>1. fprinted[r] \in Seq(Block)
      OBVIOUS
    <3>2. fprinted[r] \o data' = Append(fprinted[r] \o data, e) /\ fprinted[r] \o data \in Seq(Block)
      BY <1>1, <1>3, <3>1, AppendToBoth
    <3> QED
      BY <1>10, <3>2 DEF Streams
  <2> QED
    BY <1>1, <2>1, <2>2 DEF Streams
<1> QED
  BY <1>7, <1>8, <1>9, <1>11 DEF FifoInv

LEMMA FifoInvariance == FifoInv /\ [Fifo!Next]_(Fifo!vars) => FifoInv'
<1> SUFFICES ASSUME FifoInv, [Fifo!Next]_(Fifo!vars) PROVE FifoInv'
  OBVIOUS
<1>1. CASE UNCHANGED Fifo!vars
  BY <1>1 DEF Fifo!vars, FifoInv, FifoTypes, Fifo!TypeOK, KeptOut, EndsRight, NotBegun, Streams, Holds
<1>2. ASSUME NEW r \in Receiver, Fifo!Receive(r) PROVE FifoInv'
  <2>1. r \in Fifo!Process
    BY FifoConstants
  <2> QED
    BY <1>2, <2>1, FifoSyncSteps, FifoOpenData, FifoEndings, FifoRead, FifoCopied
       DEF Fifo!Receive, Fifo!Common
<1>3. ASSUME NEW s \in Sender, Fifo!Send(s) PROVE FifoInv'
  <2>1. s \in Fifo!Process
    BY FifoConstants
  <2> QED
    BY <1>3, <2>1, FifoSyncSteps, FifoOpenData, FifoEndings, FifoWrite, FifoCopied
       DEF Fifo!Send, Fifo!Common
<1>4. ASSUME NEW p \in Fifo!Process, Fifo!Kill(p) PROVE FifoInv'
  BY <1>4, FifoEndings
<1> QED
  BY <1>1, <1>2, <1>3, <1>4 DEF Fifo!Next, Fifo!Step

LEMMA FifoFilesNotMixed == FifoInv => Fifo!TypeOK /\ Fifo!FilesNotMixed
<1> SUFFICES ASSUME FifoInv PROVE Fifo!TypeOK /\ Fifo!FilesNotMixed
  OBVIOUS
<1> USE InvFifo
<1>1. ASSUME NEW r \in Receiver PROVE Unmixed(fprinted[r])
  <2>1. CASE fpc[r] = "copy"
    <3>1. Unmixed(fprinted[r] \o data) /\ fprinted[r] \in Seq(Block)
      BY <2>1 DEF Streams, Sound
    <3> QED
      BY <3>1, UnmixedStart
  <2> QED
    BY <2>1 DEF Streams
<1> QED
  BY <1>1 DEF Fifo!FilesNotMixed, Unmixed

-----------------------------------------------------------------------------
(* signal: a file, bit by bit *)

Bytes == -128 .. 127

\* A one-byte shift, as arithmetic.
LEMMA WrapType ==
  ASSUME NEW x \in Int
  PROVE  Signal!Wrap8(x) \in Bytes
<1>1. (x + 128) % 256 \in 0 .. 255
  OBVIOUS
<1> QED
  BY <1>1 DEF Signal!Wrap8, Bytes

LEMMA WrapUnique ==
  ASSUME NEW x \in Bytes, NEW n \in Int
  PROVE  Signal!Wrap8(x + 256 * n) = x
<1>1. ((x + 256 * n) + 128) % 256 = x + 128
  BY DEF Bytes
<1> QED
  BY <1>1 DEF Signal!Wrap8, Bytes

LEMMA WrapTwice ==
  ASSUME NEW x \in Int, NEW e \in Int
  PROVE  Signal!Wrap8(2 * Signal!Wrap8(x) + e) = Signal!Wrap8(2 * x + e)
<1> DEFINE n == (x + 128) \div 256  m == (x + 128) % 256
<1>1. x + 128 = 256 * n + m /\ n \in Int /\ m \in 0 .. 255
  OBVIOUS
<1>2. Signal!Wrap8(x) = m - 128
  BY DEF Signal!Wrap8
<1> HIDE DEF n, m
<1>3. 2 * x + e = (2 * (m - 128) + e) + 256 * (2 * n)
  BY <1>1
<1>4. ((2 * (m - 128) + e + 128) + 256 * (2 * n)) % 256 = (2 * (m - 128) + e + 128) % 256
  BY <1>1
<1> QED
  BY <1>1, <1>2, <1>3, <1>4 DEF Signal!Wrap8

\* What byte_to_bits stores of a byte: the element i is the bit at place 8 - i.
Bit(byte, i1) == IF Signal!ByteToBits(byte)[i1] = 0 THEN 0 ELSE 1

\* The byte after i1 - 1 shifts.
Power == <<1, 2, 4, 8, 16, 32, 64, 128>>

Shifted(byte, i1) == Signal!Wrap8(Power[i1] * byte)

LEMMA ShiftedBits ==
  ASSUME NEW byte \in Bytes, NEW i1 \in 1 .. 8
  PROVE  Bit(byte, i1) = IF Shifted(byte, i1) < 0 THEN 1 ELSE 0
<1> DEFINE Body(g) == [n \in 1 .. 8 |-> IF n = 1 THEN byte ELSE Signal!Wrap8(2 * g[n - 1])]
      h == CHOOSE g : g = Body(g)
      f == [n \in 1 .. 8 |-> Shifted(byte, n)]
<1>1. Signal!ByteToBits(byte) = [n \in 1 .. 8 |-> IF h[n] < 0 THEN -1 ELSE 0]
  BY DEF Signal!ByteToBits, Signal!BitsInByte
<1>2. \A n \in 2 .. 8 : Power[n] = 2 * Power[n - 1] /\ Power[n - 1] \in Int /\ n - 1 \in 1 .. 8
  <2>1. \A n \in 2 .. 8 : n = 2 \/ n = 3 \/ n = 4 \/ n = 5 \/ n = 6 \/ n = 7 \/ n = 8
    OBVIOUS
  <2> QED
    BY <2>1 DEF Power
<1>3. \A n \in 2 .. 8 : Shifted(byte, n) = Signal!Wrap8(2 * Shifted(byte, n - 1))
  <2> SUFFICES ASSUME NEW n \in 2 .. 8 PROVE Shifted(byte, n) = Signal!Wrap8(2 * Shifted(byte, n - 1))
    OBVIOUS
  <2> DEFINE p == Power[n - 1]  x == p * byte
  <2>1. p \in Int /\ byte \in Int /\ Power[n] = 2 * p
    BY <1>2 DEF Bytes
  <2>2. x \in Int
    BY <2>1
  <2>3. Power[n] * byte = 2 * x
    BY <2>1
  <2>4. Shifted(byte, n) = Signal!Wrap8(2 * x) /\ Shifted(byte, n - 1) = Signal!Wrap8(x)
    BY <2>3 DEF Shifted
  <2> HIDE DEF x
  <2>5. Signal!Wrap8(x) \in Int
    BY <2>2, WrapType DEF Bytes
  <2>6. Signal!Wrap8(2 * Signal!Wrap8(x) + 0) = Signal!Wrap8(2 * x + 0)
    BY <2>2, WrapTwice
  <2> QED
    BY <2>2, <2>4, <2>5, <2>6
<1>4. Shifted(byte, 1) = byte
  <2>1. Power[1] = 1 /\ byte \in Int
    BY DEF Power, Bytes
  <2>2. Signal!Wrap8(byte + 256 * 0) = byte
    BY WrapUnique
  <2>3. Power[1] * byte = byte + 256 * 0
    BY <2>1
  <2> QED
    BY <2>2, <2>3 DEF Shifted
<1>5. f = Body(f)
  <2>1. \A n \in 1 .. 8 : f[n] = IF n = 1 THEN byte ELSE Signal!Wrap8(2 * f[n - 1])
    <3>1. \A n \in 1 .. 8 : n = 1 \/ (n \in 2 .. 8 /\ n - 1 \in 1 .. 8 /\ n # 1)
      OBVIOUS
    <3> QED
      BY <1>3, <1>4, <3>1
  <2> QED
    BY <2>1
<1> HIDE DEF f
<1>6. h = Body(h)
  BY <1>5
<1> HIDE DEF h
<1>7. h[1] = byte /\ \A n \in 2 .. 8 : h[n] = Signal!Wrap8(2 * h[n - 1])
  <2>1. \A n \in 1 .. 8 : h[n] = IF n = 1 THEN byte ELSE Signal!Wrap8(2 * h[n - 1])
    BY <1>6
  <2> QED
    BY <2>1
<1>8. h[i1] = Shifted(byte, i1)
  <2> DEFINE T == {n \in Nat : n \in 1 .. 8 => h[n] = Shifted(byte, n)}
  <2>1. 0 \in T
    OBVIOUS
  <2>2. ASSUME NEW n \in Nat, n \in T PROVE n + 1 \in T
    <3> SUFFICES ASSUME n + 1 \in 1 .. 8 PROVE h[n + 1] = Shifted(byte, n + 1)
      OBVIOUS
    <3>1. CASE n = 0
      BY <1>4, <1>7, <3>1
    <3>2. CASE n # 0
      <4>1. n \in 1 .. 8 /\ n + 1 \in 2 .. 8 /\ (n + 1) - 1 = n
        BY <3>2
      <4> QED
        BY <1>3, <1>7, <2>2, <4>1
    <3> QED
      BY <3>1, <3>2
  <2> HIDE DEF T
  <2>3. Nat \subseteq T
    BY <2>1, <2>2, Induction
  <2> QED
    BY <2>3 DEF T
<1>9. Shifted(byte, i1) \in Int
  <2>1. i1 = 1 \/ i1 \in 2 .. 8
    OBVIOUS
  <2>2. Power[i1] \in Int /\ byte \in Int
    BY <1>2, <2>1 DEF Power, Bytes
  <2>3. Power[i1] * byte \in Int
    BY <2>2
  <2> QED
    BY <2>3, WrapType DEF Shifted, Bytes
<1> QED
  BY <1>1, <1>8 DEF Bit

\* bits_to_byte, for a sequence of bits.
LEMMA BitsValue ==
  ASSUME NEW b \in [1 .. 8 -> {0, 1}]
  PROVE  Signal!BitsToByte(b) = Signal!Wrap8(256 + 128 * b[1] + 64 * b[2] + 32 * b[3] + 16 * b[4]
                                             + 8 * b[5] + 4 * b[6] + 2 * b[7] + b[8])
<1> DEFINE Body(g) == [n \in 0 .. 8 |-> IF n = 0 THEN 1 ELSE Signal!Wrap8(2 * g[n - 1] + b[n])]
      h == CHOOSE g : g = Body(g)
      v0 == 1  v1 == 2 * v0 + b[1]  v2 == 2 * v1 + b[2]  v3 == 2 * v2 + b[3]
      v4 == 2 * v3 + b[4]  v5 == 2 * v4 + b[5]  v6 == 2 * v5 + b[6]  v7 == 2 * v6 + b[7]
      v8 == 2 * v7 + b[8]
<1>1. Signal!BitsToByte(b) = h[8]
  BY DEF Signal!BitsToByte, Signal!BitsInByte
<1>2. /\ b[1] \in Int /\ b[2] \in Int /\ b[3] \in Int /\ b[4] \in Int
      /\ b[5] \in Int /\ b[6] \in Int /\ b[7] \in Int /\ b[8] \in Int
  OBVIOUS
<1>3. h = Body(h)
  <2> DEFINE G == [p \in Int \X Nat |-> IF p[2] \in 1 .. 8 THEN Signal!Wrap8(2 * p[1] + b[p[2]]) ELSE 0]
  <2>1. G \in [Int \X Nat -> Int]
    <3>1. ASSUME NEW p \in Int \X Nat PROVE G[p] \in Int
      <4>1. CASE p[2] \in 1 .. 8
        <5>1. 2 * p[1] + b[p[2]] \in Int
          BY <4>1
        <5> QED
          BY <4>1, <5>1, WrapType DEF Bytes
      <4> QED
        BY <4>1
    <3> QED
      BY <3>1
  <2>2. PICK f : f \in [0 .. 8 -> Int] /\ f[0] = 1 /\ \A n \in 1 .. 8 : f[n] = G[<<f[n - 1], n>>]
    <3> HIDE DEF G
    <3>0. 1 \in Int /\ 8 \in Nat
      OBVIOUS
    <3>1. Followed(Int, 1, G, 8)
      BY <2>1, <3>0, Recursion
    <3> QED
      BY <3>1 DEF Followed, Follows
  <2>3. \A n \in 1 .. 8 : f[n] = Signal!Wrap8(2 * f[n - 1] + b[n])
    <3> SUFFICES ASSUME NEW n \in 1 .. 8 PROVE f[n] = Signal!Wrap8(2 * f[n - 1] + b[n])
      OBVIOUS
    <3>1. n - 1 \in 0 .. 8 /\ n \in Nat
      OBVIOUS
    <3>2. <<f[n - 1], n>> \in Int \X Nat
      BY <2>2, <3>1
    <3> QED
      BY <2>2, <3>2
  <2>4. \A n \in 0 .. 8 : f[n] = IF n = 0 THEN 1 ELSE Signal!Wrap8(2 * f[n - 1] + b[n])
    <3>1. \A n \in 0 .. 8 : n = 0 \/ (n \in 1 .. 8 /\ n # 0)
      OBVIOUS
    <3> QED
      BY <2>2, <2>3, <3>1
  <2>5. f = [n \in 0 .. 8 |-> f[n]]
    BY <2>2
  <2>6. f = Body(f)
    BY <2>4, <2>5
  <2> QED
    BY <2>6
<1> HIDE DEF h
<1>4. h[0] = 1 /\ \A n \in 1 .. 8 : h[n] = Signal!Wrap8(2 * h[n - 1] + b[n])
  <2>1. \A n \in 0 .. 8 : h[n] = IF n = 0 THEN 1 ELSE Signal!Wrap8(2 * h[n - 1] + b[n])
    BY <1>3
  <2> QED
    BY <2>1
<1>5. h[1] = Signal!Wrap8(v1)
  BY <1>4
<1>6. /\ h[2] = Signal!Wrap8(2 * h[1] + b[2]) /\ h[3] = Signal!Wrap8(2 * h[2] + b[3])
      /\ h[4] = Signal!Wrap8(2 * h[3] + b[4]) /\ h[5] = Signal!Wrap8(2 * h[4] + b[5])
      /\ h[6] = Signal!Wrap8(2 * h[5] + b[6]) /\ h[7] = Signal!Wrap8(2 * h[6] + b[7])
      /\ h[8] = Signal!Wrap8(2 * h[7] + b[8])
  BY <1>4
<1>7. /\ v1 = 2 + b[1] /\ v2 = 2 * v1 + b[2] /\ v3 = 2 * v2 + b[3] /\ v4 = 2 * v3 + b[4]
      /\ v5 = 2 * v4 + b[5] /\ v6 = 2 * v5 + b[6] /\ v7 = 2 * v6 + b[7] /\ v8 = 2 * v7 + b[8]
  BY <1>2
<1> HIDE DEF v0, v1, v2, v3, v4, v5, v6, v7, v8
<1>8. /\ v1 \in Int /\ v2 \in Int /\ v3 \in Int /\ v4 \in Int
      /\ v5 \in Int /\ v6 \in Int /\ v7 \in Int /\ v8 \in Int
  BY <1>2, <1>7
<1>9. v8 = 256 + 128 * b[1] + 64 * b[2] + 32 * b[3] + 16 * b[4] + 8 * b[5] + 4 * b[6] + 2 * b[7] + b[8]
  BY <1>2, <1>7, <1>8
<1>12. h[2] = Signal!Wrap8(v2)
  BY <1>2, <1>6, <1>7, <1>8, <1>5, WrapTwice
<1>13. h[3] = Signal!Wrap8(v3)
  BY <1>2, <1>6, <1>7, <1>8, <1>12, WrapTwice
<1>14. h[4] = Signal!Wrap8(v4)
  BY <1>2, <1>6, <1>7, <1>8, <1>13, WrapTwice
<1>15. h[5] = Signal!Wrap8(v5)
  BY <1>2, <1>6, <1>7, <1>8, <1>14, WrapTwice
<1>16. h[6] = Signal!Wrap8(v6)
  BY <1>2, <1>6, <1>7, <1>8, <1>15, WrapTwice
<1>17. h[7] = Signal!Wrap8(v7)
  BY <1>2, <1>6, <1>7, <1>8, <1>16, WrapTwice
<1>18. h[8] = Signal!Wrap8(v8)
  BY <1>2, <1>6, <1>7, <1>8, <1>17, WrapTwice
<1> QED
  BY <1>1, <1>9, <1>18

\* A place of a byte: of the rest r1x of it the first bit is set when that is at least h1.
LEMMA PlaceOfABit ==
  ASSUME NEW byte \in Bytes, NEW p \in {1, 2, 4, 8, 16, 32, 64, 128}, NEW n \in Int,
         NEW rest \in Nat, p * rest < 256, p * byte = p * rest + 256 * n
  PROVE  Signal!Wrap8(p * byte) < 0 <=> 128 <= p * rest
<1> DEFINE x == p * rest
<1>1. x \in Int /\ 0 <= x /\ p * byte = x + 256 * n
  <2>1. p \in Nat
    OBVIOUS
  <2> QED
    BY <2>1
<1> HIDE DEF x
<1>2. CASE x < 128
  <2>3. x \in Bytes
    BY <1>1, <1>2 DEF Bytes
  <2>1. Signal!Wrap8(x + 256 * n) = x
    BY <2>3, WrapUnique
  <2> QED
    BY <1>1, <1>2, <2>1 DEF x
<1>3. CASE 128 <= x
  <2>1. x - 256 \in Bytes
    BY <1>1, <1>3 DEF x, Bytes
  <2>2. Signal!Wrap8((x - 256) + 256 * (n + 1)) = x - 256
    <3> DEFINE y == x - 256  k == n + 1
    <3>1. y \in Bytes /\ k \in Int
      BY <2>1
    <3> HIDE DEF y, k
    <3>2. Signal!Wrap8(y + 256 * k) = y
      BY <3>1, WrapUnique
    <3> QED
      BY <3>2 DEF y, k
  <2>3. (x - 256) + 256 * (n + 1) = x + 256 * n
    BY <1>1
  <2> QED
    BY <1>1, <1>3, <2>1, <2>2, <2>3 DEF x, Bytes
<1> QED
  BY <1>1, <1>2, <1>3

\* The bits that are sent make the byte again.
LEMMA RoundTrip ==
  ASSUME NEW byte \in Bytes, NEW b \in [1 .. 8 -> {0, 1}],
         \A k \in 1 .. 8 : b[k] = Bit(byte, k)
  PROVE  Signal!BitsToByte(b) = byte
<1> DEFINE n1 == IF byte < 0 THEN -1 ELSE 0
      u1 == byte - 256 * n1
      u2 == u1 - 128 * b[1]  n2 == 2 * n1 + b[1]
      u3 == u2 - 64 * b[2]  n3 == 2 * n2 + b[2]
      u4 == u3 - 32 * b[3]  n4 == 2 * n3 + b[3]
      u5 == u4 - 16 * b[4]  n5 == 2 * n4 + b[4]
      u6 == u5 - 8 * b[5]  n6 == 2 * n5 + b[5]
      u7 == u6 - 4 * b[6]  n7 == 2 * n6 + b[6]
      u8 == u7 - 2 * b[7]  n8 == 2 * n7 + b[7]
<1>0. byte \in Int /\ n1 \in Int /\ u1 \in 0 .. 255 /\ byte = u1 + 256 * n1
  BY DEF Bytes
<1>1. \A k \in 1 .. 8 : b[k] \in {0, 1} /\ (b[k] = 1 <=> Signal!Wrap8(Power[k] * byte) < 0)
  <2> SUFFICES ASSUME NEW k \in 1 .. 8
               PROVE  b[k] \in {0, 1} /\ (b[k] = 1 <=> Signal!Wrap8(Power[k] * byte) < 0)
    OBVIOUS
  <2>1. b[k] = IF Shifted(byte, k) < 0 THEN 1 ELSE 0
    BY ShiftedBits
  <2> QED
    BY <2>1 DEF Shifted
<1>2. /\ b[1] \in {0, 1} /\ (b[1] = 1 <=> Signal!Wrap8(1 * byte) < 0)
      /\ b[2] \in {0, 1} /\ (b[2] = 1 <=> Signal!Wrap8(2 * byte) < 0)
      /\ b[3] \in {0, 1} /\ (b[3] = 1 <=> Signal!Wrap8(4 * byte) < 0)
      /\ b[4] \in {0, 1} /\ (b[4] = 1 <=> Signal!Wrap8(8 * byte) < 0)
      /\ b[5] \in {0, 1} /\ (b[5] = 1 <=> Signal!Wrap8(16 * byte) < 0)
      /\ b[6] \in {0, 1} /\ (b[6] = 1 <=> Signal!Wrap8(32 * byte) < 0)
      /\ b[7] \in {0, 1} /\ (b[7] = 1 <=> Signal!Wrap8(64 * byte) < 0)
      /\ b[8] \in {0, 1} /\ (b[8] = 1 <=> Signal!Wrap8(128 * byte) < 0)
  BY <1>1 DEF Power
<1>51. u2 = u1 - 128 * b[1] /\ n2 = 2 * n1 + b[1]
  OBVIOUS
<1>52. u3 = u2 - 64 * b[2] /\ n3 = 2 * n2 + b[2]
  OBVIOUS
<1>53. u4 = u3 - 32 * b[3] /\ n4 = 2 * n3 + b[3]
  OBVIOUS
<1>54. u5 = u4 - 16 * b[4] /\ n5 = 2 * n4 + b[4]
  OBVIOUS
<1>55. u6 = u5 - 8 * b[5] /\ n6 = 2 * n5 + b[5]
  OBVIOUS
<1>56. u7 = u6 - 4 * b[6] /\ n7 = 2 * n6 + b[6]
  OBVIOUS
<1>57. u8 = u7 - 2 * b[7] /\ n8 = 2 * n7 + b[7]
  OBVIOUS
<1> HIDE DEF u1, n1, u2, n2, u3, n3, u4, n4, u5, n5, u6, n6, u7, n7, u8, n8
<1>11. b[1] = 1 <=> 128 <= u1
  <2>1. 1 * u1 < 256 /\ u1 \in Nat /\ 1 * byte = 1 * u1 + 256 * n1 /\ n1 \in Int
    BY <1>0
  <2>2. Signal!Wrap8(1 * byte) < 0 <=> 128 <= 1 * u1
    BY <2>1, PlaceOfABit
  <2> QED
    BY <1>2, <2>1, <2>2
<1>31. u2 \in 0 .. 127 /\ n2 \in Int /\ 2 * byte = 2 * u2 + 256 * n2
  <2>1. b[1] \in {0, 1} /\ byte \in Int
    BY <1>0, <1>2
  <2>2. u1 \in Int /\ n1 \in Int /\ 0 <= u1 /\ u1 < 256
    BY <1>0
  <2>3. u2 \in 0 .. 127
    <3>1. CASE b[1] = 0
      BY <2>2, <3>1, <1>11, <1>51
    <3>2. CASE b[1] = 1
      BY <2>2, <3>2, <1>11, <1>51
    <3> QED
      BY <2>1, <3>1, <3>2
  <2>4. n2 \in Int
    BY <2>1, <2>2, <1>51
  <2>5. 1 * byte = 1 * u1 + 256 * n1
    BY <2>1, <1>0
  <2>6. 2 * byte = 2 * u2 + 256 * n2
    BY <2>1, <2>2, <2>5, <1>51
  <2> QED
    BY <2>3, <2>4, <2>6
<1>12. b[2] = 1 <=> 64 <= u2
  <2>1. 2 * u2 < 256 /\ u2 \in Nat /\ 2 * byte = 2 * u2 + 256 * n2 /\ n2 \in Int
    BY <1>0, <1>31
  <2>2. Signal!Wrap8(2 * byte) < 0 <=> 128 <= 2 * u2
    BY <2>1, PlaceOfABit
  <2> QED
    BY <1>2, <2>1, <2>2
<1>32. u3 \in 0 .. 63 /\ n3 \in Int /\ 4 * byte = 4 * u3 + 256 * n3
  <2>1. b[2] \in {0, 1} /\ byte \in Int
    BY <1>0, <1>2
  <2>2. u2 \in Int /\ n2 \in Int /\ 0 <= u2 /\ u2 < 128
    BY <1>31
  <2>3. u3 \in 0 .. 63
    <3>1. CASE b[2] = 0
      BY <2>2, <3>1, <1>12, <1>52
    <3>2. CASE b[2] = 1
      BY <2>2, <3>2, <1>12, <1>52
    <3> QED
      BY <2>1, <3>1, <3>2
  <2>4. n3 \in Int
    BY <2>1, <2>2, <1>52
  <2>5. 2 * byte = 2 * u2 + 256 * n2
    BY <2>1, <1>31
  <2>6. 4 * byte = 4 * u3 + 256 * n3
    BY <2>1, <2>2, <2>5, <1>52
  <2> QED
    BY <2>3, <2>4, <2>6
<1>13. b[3] = 1 <=> 32 <= u3
  <2>1. 4 * u3 < 256 /\ u3 \in Nat /\ 4 * byte = 4 * u3 + 256 * n3 /\ n3 \in Int
    BY <1>0, <1>32
  <2>2. Signal!Wrap8(4 * byte) < 0 <=> 128 <= 4 * u3
    BY <2>1, PlaceOfABit
  <2> QED
    BY <1>2, <2>1, <2>2
<1>33. u4 \in 0 .. 31 /\ n4 \in Int /\ 8 * byte = 8 * u4 + 256 * n4
  <2>1. b[3] \in {0, 1} /\ byte \in Int
    BY <1>0, <1>2
  <2>2. u3 \in Int /\ n3 \in Int /\ 0 <= u3 /\ u3 < 64
    BY <1>32
  <2>3. u4 \in 0 .. 31
    <3>1. CASE b[3] = 0
      BY <2>2, <3>1, <1>13, <1>53
    <3>2. CASE b[3] = 1
      BY <2>2, <3>2, <1>13, <1>53
    <3> QED
      BY <2>1, <3>1, <3>2
  <2>4. n4 \in Int
    BY <2>1, <2>2, <1>53
  <2>5. 4 * byte = 4 * u3 + 256 * n3
    BY <2>1, <1>32
  <2>6. 8 * byte = 8 * u4 + 256 * n4
    BY <2>1, <2>2, <2>5, <1>53
  <2> QED
    BY <2>3, <2>4, <2>6
<1>14. b[4] = 1 <=> 16 <= u4
  <2>1. 8 * u4 < 256 /\ u4 \in Nat /\ 8 * byte = 8 * u4 + 256 * n4 /\ n4 \in Int
    BY <1>0, <1>33
  <2>2. Signal!Wrap8(8 * byte) < 0 <=> 128 <= 8 * u4
    BY <2>1, PlaceOfABit
  <2> QED
    BY <1>2, <2>1, <2>2
<1>34. u5 \in 0 .. 15 /\ n5 \in Int /\ 16 * byte = 16 * u5 + 256 * n5
  <2>1. b[4] \in {0, 1} /\ byte \in Int
    BY <1>0, <1>2
  <2>2. u4 \in Int /\ n4 \in Int /\ 0 <= u4 /\ u4 < 32
    BY <1>33
  <2>3. u5 \in 0 .. 15
    <3>1. CASE b[4] = 0
      BY <2>2, <3>1, <1>14, <1>54
    <3>2. CASE b[4] = 1
      BY <2>2, <3>2, <1>14, <1>54
    <3> QED
      BY <2>1, <3>1, <3>2
  <2>4. n5 \in Int
    BY <2>1, <2>2, <1>54
  <2>5. 8 * byte = 8 * u4 + 256 * n4
    BY <2>1, <1>33
  <2>6. 16 * byte = 16 * u5 + 256 * n5
    BY <2>1, <2>2, <2>5, <1>54
  <2> QED
    BY <2>3, <2>4, <2>6
<1>15. b[5] = 1 <=> 8 <= u5
  <2>1. 16 * u5 < 256 /\ u5 \in Nat /\ 16 * byte = 16 * u5 + 256 * n5 /\ n5 \in Int
    BY <1>0, <1>34
  <2>2. Signal!Wrap8(16 * byte) < 0 <=> 128 <= 16 * u5
    BY <2>1, PlaceOfABit
  <2> QED
    BY <1>2, <2>1, <2>2
<1>35. u6 \in 0 .. 7 /\ n6 \in Int /\ 32 * byte = 32 * u6 + 256 * n6
  <2>1. b[5] \in {0, 1} /\ byte \in Int
    BY <1>0, <1>2
  <2>2. u5 \in Int /\ n5 \in Int /\ 0 <= u5 /\ u5 < 16
    BY <1>34
  <2>3. u6 \in 0 .. 7
    <3>1. CASE b[5] = 0
      BY <2>2, <3>1, <1>15, <1>55
    <3>2. CASE b[5] = 1
      BY <2>2, <3>2, <1>15, <1>55
    <3> QED
      BY <2>1, <3>1, <3>2
  <2>4. n6 \in Int
    BY <2>1, <2>2, <1>55
  <2>5. 16 * byte = 16 * u5 + 256 * n5
    BY <2>1, <1>34
  <2>6. 32 * byte = 32 * u6 + 256 * n6
    BY <2>1, <2>2, <2>5, <1>55
  <2> QED
    BY <2>3, <2>4, <2>6
<1>16. b[6] = 1 <=> 4 <= u6
  <2>1. 32 * u6 < 256 /\ u6 \in Nat /\ 32 * byte = 32 * u6 + 256 * n6 /\ n6 \in Int
    BY <1>0, <1>35
  <2>2. Signal!Wrap8(32 * byte) < 0 <=> 128 <= 32 * u6
    BY <2>1, PlaceOfABit
  <2> QED
    BY <1>2, <2>1, <2>2
<1>36. u7 \in 0 .. 3 /\ n7 \in Int /\ 64 * byte = 64 * u7 + 256 * n7
  <2>1. b[6] \in {0, 1} /\ byte \in Int
    BY <1>0, <1>2
  <2>2. u6 \in Int /\ n6 \in Int /\ 0 <= u6 /\ u6 < 8
    BY <1>35
  <2>3. u7 \in 0 .. 3
    <3>1. CASE b[6] = 0
      BY <2>2, <3>1, <1>16, <1>56
    <3>2. CASE b[6] = 1
      BY <2>2, <3>2, <1>16, <1>56
    <3> QED
      BY <2>1, <3>1, <3>2
  <2>4. n7 \in Int
    BY <2>1, <2>2, <1>56
  <2>5. 32 * byte = 32 * u6 + 256 * n6
    BY <2>1, <1>35
  <2>6. 64 * byte = 64 * u7 + 256 * n7
    BY <2>1, <2>2, <2>5, <1>56
  <2> QED
    BY <2>3, <2>4, <2>6
<1>17. b[7] = 1 <=> 2 <= u7
  <2>1. 64 * u7 < 256 /\ u7 \in Nat /\ 64 * byte = 64 * u7 + 256 * n7 /\ n7 \in Int
    BY <1>0, <1>36
  <2>2. Signal!Wrap8(64 * byte) < 0 <=> 128 <= 64 * u7
    BY <2>1, PlaceOfABit
  <2> QED
    BY <1>2, <2>1, <2>2
<1>37. u8 \in 0 .. 1 /\ n8 \in Int /\ 128 * byte = 128 * u8 + 256 * n8
  <2>1. b[7] \in {0, 1} /\ byte \in Int
    BY <1>0, <1>2
  <2>2. u7 \in Int /\ n7 \in Int /\ 0 <= u7 /\ u7 < 4
    BY <1>36
  <2>3. u8 \in 0 .. 1
    <3>1. CASE b[7] = 0
      BY <2>2, <3>1, <1>17, <1>57
    <3>2. CASE b[7] = 1
      BY <2>2, <3>2, <1>17, <1>57
    <3> QED
      BY <2>1, <3>1, <3>2
  <2>4. n8 \in Int
    BY <2>1, <2>2, <1>57
  <2>5. 64 * byte = 64 * u7 + 256 * n7
    BY <2>1, <1>36
  <2>6. 128 * byte = 128 * u8 + 256 * n8
    BY <2>1, <2>2, <2>5, <1>57
  <2> QED
    BY <2>3, <2>4, <2>6
<1>18. b[8] = 1 <=> 1 <= u8
  <2>1. 128 * u8 < 256 /\ u8 \in Nat /\ 128 * byte = 128 * u8 + 256 * n8 /\ n8 \in Int
    BY <1>0, <1>37
  <2>2. Signal!Wrap8(128 * byte) < 0 <=> 128 <= 128 * u8
    BY <2>1, PlaceOfABit
  <2> QED
    BY <1>2, <2>1, <2>2
<1>4. u8 \in 0 .. 1 /\ b[8] = u8
  BY <1>2, <1>18, <1>37
<1>5. 128 * b[1] + 64 * b[2] + 32 * b[3] + 16 * b[4] + 8 * b[5] + 4 * b[6] + 2 * b[7] + b[8] = u1
  <2>1. /\ u1 \in Int /\ u2 \in Int /\ u3 \in Int /\ u4 \in Int
        /\ u5 \in Int /\ u6 \in Int /\ u7 \in Int /\ u8 \in Int
    BY <1>0, <1>31, <1>32, <1>33, <1>34, <1>35, <1>36, <1>37
  <2>2. /\ b[1] \in Int /\ b[2] \in Int /\ b[3] \in Int /\ b[4] \in Int
        /\ b[5] \in Int /\ b[6] \in Int /\ b[7] \in Int /\ b[8] \in Int
    BY <1>2
  <2> QED
    BY <2>1, <2>2, <1>4, <1>51, <1>52, <1>53, <1>54, <1>55, <1>56, <1>57
<1> DEFINE n0 == 1 - n1
<1>6. n0 \in Int
  BY <1>0
<1>7. 256 + 128 * b[1] + 64 * b[2] + 32 * b[3] + 16 * b[4] + 8 * b[5] + 4 * b[6] + 2 * b[7] + b[8]
      = byte + 256 * n0
  BY <1>0, <1>2, <1>5
<1> HIDE DEF n0
<1>8. Signal!Wrap8(byte + 256 * n0) = byte
  BY <1>6, WrapUnique
<1> QED
  BY <1>7, <1>8, BitsValue

Done == 8 * Len(gprinted) + Len(bits)

Code(n) == IF Signal!NextBit(n) = 0 THEN Signal!Zero ELSE Signal!One

NoBit == Signal!One \notin sigToParent /\ Signal!Zero \notin sigToParent

\* The stages of one bit: none is under way; sent and pending; taken; stored.
Waiting == parentPc = "suspend" /\ pos = Done /\ NoBit

Arrived == /\ parentPc = "suspend" /\ pos = Done + 1
           /\ sigToParent \cap {Signal!One, Signal!Zero} = {Code(Done)}

BitTaken == /\ parentPc = "store" /\ pos = Done + 1 /\ NoBit
         /\ sigflag = IF Signal!NextBit(Done) = 0 THEN 2 ELSE 1

Stored == parentPc = "ready" /\ pos = Done /\ NoBit

\* The child sends when no bit is under way, and is woken then only.
Handshake ==
    Signal!ParentAlive =>
       /\ ~orphan
       /\ Waiting \/ Arrived \/ BitTaken \/ Stored
       /\ childPc \in {"prctl", "open", "send"} => Waiting /\ Signal!One \notin sigToChild
       /\ Signal!One \in sigToChild => Waiting

SignalTypes == /\ Signal!TypeOK /\ file \in [1 .. Length -> Bytes]
               /\ gprinted \in Seq(Bytes) /\ bits \in Seq({0, 1}) /\ gkills \in Nat

Rebuilt == /\ \A k \in 1 .. Len(gprinted) : gprinted[k] = file[k]
           /\ \A k \in 1 .. Len(bits) : bits[k] = Bit(file[Len(gprinted) + 1], k)

Parting == /\ "SIGCHLD" \in sigToParent => ~Signal!ChildAlive
           /\ ~Signal!ParentAlive /\ gkills = 0 => ~Signal!ChildAlive /\ pos = Done

SignalInv == SignalTypes /\ Handshake /\ Rebuilt /\ Parting

LEMMA SignalConstants == Codes \subseteq 0 .. 255 /\ Length \in Nat /\ 8 * Length \in Nat
<1>1. Codes \subseteq 0 .. 255 /\ Length \in Nat
  BY ProgramsAssumption DEF Signal!ByteAssumption
<1> QED
  BY <1>1

LEMMA SignalInit ==
  ASSUME Signal!Init
  PROVE  SignalInv
<1> USE SignalConstants DEF Signal!One, Signal!Zero
<1>1. /\ pos = 0 /\ childPc = "prctl" /\ parentPc = "suspend" /\ sigToChild = {}
      /\ sigToParent = {} /\ orphan = FALSE /\ sigflag = 0 /\ bits = <<>> /\ gprinted = <<>>
      /\ gkills = 0 /\ file \in [1 .. Length -> {Signal!Wrap8(c) : c \in Codes}]
  BY DEF Signal!Init
<1>2. {Signal!Wrap8(c) : c \in Codes} \subseteq Bytes
  BY WrapType
<1>3. file \in [1 .. Length -> Bytes]
  BY <1>1, <1>2
<1>4. Len(bits) = 0 /\ Len(gprinted) = 0 /\ Done = 0
  BY <1>1 DEF Done
<1>5. SignalTypes
  BY <1>1, <1>3, <1>4 DEF SignalTypes, Signal!TypeOK, Signal!BitsInByte
<1>6. Handshake
  BY <1>1, <1>4 DEF Handshake, Waiting, NoBit
<1>7. Rebuilt /\ Parting
  BY <1>1, <1>4 DEF Rebuilt, Parting, Signal!ParentAlive
<1> QED
  BY <1>5, <1>6, <1>7 DEF SignalInv

LEMMA InvSignal ==
  ASSUME SignalInv
  PROVE  /\ Signal!TypeOK /\ Handshake /\ Rebuilt /\ Parting
         /\ pos \in Nat /\ pos <= 8 * Length /\ gkills \in Nat
         /\ file \in [1 .. Length -> Bytes] /\ gprinted \in Seq(Bytes) /\ bits \in Seq({0, 1})
         /\ Len(gprinted) \in Nat /\ Len(bits) \in Nat /\ Len(bits) < 8 /\ Done \in Nat
         /\ Len(gprinted) <= Length
<1>1. SignalTypes /\ Handshake /\ Rebuilt /\ Parting
  BY DEF SignalInv
<1>2. Signal!TypeOK /\ gprinted \in Seq(Bytes) /\ bits \in Seq({0, 1})
  BY <1>1 DEF SignalTypes
<1>3. Len(gprinted) \in Nat /\ Len(bits) \in Nat
  BY <1>2
<1> QED
  BY <1>1, <1>2, <1>3, SignalConstants DEF SignalTypes, Signal!TypeOK, Done, Signal!BitsInByte

LEMMA SignalChildSteps ==
  ASSUME SignalInv, Signal!Child \/ Signal!KillChild
  PROVE  SignalInv'
<1> USE InvSignal DEF Signal!One, Signal!Zero, Signal!ParentAlive, Signal!ChildAlive
<1> DEFINE Same == UNCHANGED <<file, parentPc, deathSig, sigflag, bits, gprinted>>
<1>1. ASSUME Same PROVE Done' = Done /\ Rebuilt' /\ \A n : Code(n)' = Code(n) /\ Signal!NextBit(n)' = Signal!NextBit(n)
  BY <1>1 DEF Done, Rebuilt, Code, Signal!NextBit
<1>2. CASE Signal!Prctl
  <2>1. /\ childPc = "prctl" /\ childPc' = "open"
        /\ UNCHANGED <<file, pos, parentPc, sigToChild, sigToParent, orphan, sigflag, bits, gprinted, gkills>>
    BY <1>2 DEF Signal!Prctl
  <2>2. SignalTypes'
    BY <2>1 DEF SignalTypes, Signal!TypeOK
  <2>3. Handshake'
    BY <2>1 DEF Handshake, Waiting, Arrived, BitTaken, Stored, NoBit, Done, Code, Signal!NextBit
  <2>4. Parting' /\ Rebuilt'
    BY <2>1 DEF Parting, Rebuilt, Done
  <2> QED
    BY <2>2, <2>3, <2>4 DEF SignalInv
<1>3. ASSUME Signal!ChildExit, UNCHANGED <<file, pos, parentPc, sigToChild, orphan, sigflag, bits, gprinted>>,
             gkills' \in Nat, gkills' = 0 => gkills = 0
      PROVE  SignalInv'
  <2>1. childPc' = "gone" /\ sigToParent' \in {sigToParent, sigToParent \cup {"SIGCHLD"}}
    BY <1>3 DEF Signal!ChildExit
  <2>2. SignalTypes'
    BY <1>3, <2>1 DEF SignalTypes, Signal!TypeOK
  <2>3. Handshake'
    <3>1. NoBit' = NoBit /\ sigToParent' \cap {Signal!One, Signal!Zero} = sigToParent \cap {Signal!One, Signal!Zero}
      BY <2>1 DEF NoBit
    <3> QED
      BY <1>3, <2>1, <3>1 DEF Handshake, Waiting, Arrived, BitTaken, Stored, Done, Code, Signal!NextBit
  <2>4. Parting' /\ Rebuilt'
    BY <1>3, <2>1 DEF Parting, Rebuilt, Done
  <2> QED
    BY <2>2, <2>3, <2>4 DEF SignalInv
<1>4. CASE Signal!Open
  <2>1. CASE childPc' = "gone"
    BY <1>3, <1>4, <2>1 DEF Signal!Open
  <2>2. CASE childPc' # "gone"
    <3>1. /\ childPc = "open" /\ childPc' = "send" /\ orphan' = ~Signal!ParentAlive
          /\ UNCHANGED <<file, pos, parentPc, sigToChild, sigToParent, sigflag, bits, gprinted, gkills>>
      BY <1>4, <2>2 DEF Signal!Open, Signal!ChildExit
    <3>2. SignalTypes'
      BY <3>1 DEF SignalTypes, Signal!TypeOK
    <3>3. Handshake'
      BY <3>1 DEF Handshake, Waiting, Arrived, BitTaken, Stored, NoBit, Done, Code, Signal!NextBit
    <3>4. Parting' /\ Rebuilt'
      BY <3>1 DEF Parting, Rebuilt, Done
    <3> QED
      BY <3>2, <3>3, <3>4 DEF SignalInv
  <2> QED
    BY <2>1, <2>2
<1>5. CASE Signal!Send
  <2>1. /\ childPc = "send" /\ pos < Length * 8 /\ pos' = pos + 1 /\ childPc' = "suspend"
        /\ sigToParent' = IF ~Signal!ParentAlive \/ orphan THEN sigToParent
                          ELSE sigToParent \cup {Code(pos)}
        /\ UNCHANGED <<file, parentPc, sigToChild, orphan, sigflag, bits, gprinted, gkills>>
    BY <1>5 DEF Signal!Send, Code, Signal!BitsInByte
  <2>2. SignalTypes'
    BY <2>1, SignalConstants DEF SignalTypes, Signal!TypeOK, Signal!BitsInByte, Code
  <2>3. Handshake'
    <3> SUFFICES ASSUME Signal!ParentAlive
                 PROVE  /\ ~orphan' /\ Arrived' /\ Signal!One \notin sigToChild'
      BY <2>1 DEF Handshake
    <3>1. Waiting /\ Signal!One \notin sigToChild /\ ~orphan
      BY <2>1 DEF Handshake
    <3>2. sigToParent' \cap {Signal!One, Signal!Zero} = {Code(pos)}
      BY <2>1, <3>1 DEF Waiting, NoBit, Code
    <3>3. Done' = Done /\ Code(Done)' = Code(pos)
      BY <2>1, <3>1 DEF Done, Code, Signal!NextBit, Waiting
    <3> QED
      BY <2>1, <3>1, <3>2, <3>3 DEF Arrived, Waiting
  <2>4. Rebuilt'
    BY <2>1 DEF Rebuilt
  <2>5. Parting'
    BY <2>1 DEF Parting, Code
  <2> QED
    BY <2>2, <2>3, <2>4, <2>5 DEF SignalInv
<1>6. CASE Signal!ChildWake
  <2>1. /\ childPc = "suspend" /\ Signal!One \in sigToChild /\ childPc' = "send"
        /\ sigToChild' = sigToChild \ {Signal!One}
        /\ UNCHANGED <<file, pos, parentPc, sigToParent, orphan, sigflag, bits, gprinted, gkills>>
    BY <1>6 DEF Signal!ChildWake
  <2>2. SignalTypes'
    BY <2>1 DEF SignalTypes, Signal!TypeOK
  <2>3. Handshake'
    BY <2>1 DEF Handshake, Waiting, Arrived, BitTaken, Stored, NoBit, Done, Code, Signal!NextBit
  <2>4. Parting' /\ Rebuilt'
    BY <2>1 DEF Parting, Rebuilt, Done
  <2> QED
    BY <2>2, <2>3, <2>4 DEF SignalInv
<1>7. CASE Signal!Sent \/ Signal!Hangup
  BY <1>3, <1>7 DEF Signal!Sent, Signal!Hangup
<1>8. CASE Signal!KillChild
  <2>1. gkills' = gkills + 1
    BY <1>8 DEF Signal!KillChild
  <2> QED
    BY <1>3, <1>8, <2>1 DEF Signal!KillChild
<1> QED
  BY <1>2, <1>4, <1>5, <1>6, <1>7, <1>8 DEF Signal!Child

LEMMA SignalParentSteps ==
  ASSUME SignalInv, Signal!Parent \/ Signal!KillParent
  PROVE  SignalInv'
<1> USE InvSignal DEF Signal!One, Signal!Zero, Signal!ParentAlive, Signal!ChildAlive
<1>1. CASE Signal!ReceiveBit
  <2>1. /\ parentPc = "suspend" /\ parentPc' = "store"
        /\ \/ Signal!One \in sigToParent /\ sigToParent' = sigToParent \ {Signal!One} /\ sigflag' = 1
           \/ /\ Signal!One \notin sigToParent /\ Signal!Zero \in sigToParent
              /\ sigToParent' = sigToParent \ {Signal!Zero} /\ sigflag' = 2
        /\ UNCHANGED <<file, pos, childPc, sigToChild, orphan, bits, gprinted, gkills>>
    BY <1>1 DEF Signal!ReceiveBit
  <2>2. Arrived
    BY <2>1 DEF Handshake, Waiting, BitTaken, Stored, NoBit
  <2>3. Done' = Done /\ Signal!NextBit(Done)' = Signal!NextBit(Done)
    BY <2>1 DEF Done, Signal!NextBit
  <2>4. BitTaken'
    BY <2>1, <2>2, <2>3 DEF Arrived, BitTaken, NoBit, Code
  <2>5. childPc \notin {"prctl", "open", "send"} /\ Signal!One \notin sigToChild /\ ~orphan
    BY <2>1, <2>2 DEF Arrived, Handshake, Waiting
  <2>6. Handshake'
    BY <2>1, <2>4, <2>5 DEF Handshake
  <2>7. SignalTypes' /\ Rebuilt' /\ Parting'
    BY <2>1 DEF SignalTypes, Signal!TypeOK, Rebuilt, Parting
  <2> QED
    BY <2>6, <2>7 DEF SignalInv
<1>2. ASSUME Signal!ParentExit, UNCHANGED <<file, pos, childPc, sigToParent, orphan, sigflag, bits, gprinted>>,
             gkills' \in Nat, gkills' = 0 => ~Signal!ChildAlive /\ pos = Done
      PROVE  SignalInv'
  <2>1. parentPc' = "gone" /\ sigToChild' \in {sigToChild, sigToChild \cup {"SIGHUP"}} /\ Done' = Done
    BY <1>2 DEF Signal!ParentExit, Done
  <2>2. SignalTypes'
    BY <1>2, <2>1 DEF SignalTypes, Signal!TypeOK
  <2>3. Handshake'
    BY <2>1 DEF Handshake
  <2>4. Rebuilt' /\ Parting'
    BY <1>2, <2>1 DEF Rebuilt, Parting
  <2> QED
    BY <2>2, <2>3, <2>4 DEF SignalInv
<1>3. CASE Signal!ChildGone
  <2>1. parentPc = "suspend" /\ sigToParent = {"SIGCHLD"}
    BY <1>3 DEF Signal!ChildGone
  <2>2. ~Signal!ChildAlive
    BY <2>1 DEF Parting
  <2>3. pos = Done
    BY <2>1 DEF Handshake, Waiting, Arrived, BitTaken, Stored
  <2> QED
    BY <1>2, <1>3, <2>2, <2>3 DEF Signal!ChildGone
<1>4. CASE Signal!Store
  <2> DEFINE bit == sigflag % 2
             all == Append(bits, bit)
             byte == file[Len(gprinted) + 1]
  <2>1. /\ parentPc = "store" /\ parentPc' = "ready" /\ sigflag' = 0
        /\ IF Len(all) = 8 THEN gprinted' = Append(gprinted, Signal!BitsToByte(all)) /\ bits' = <<>>
           ELSE bits' = all /\ gprinted' = gprinted
        /\ UNCHANGED <<file, pos, childPc, sigToChild, sigToParent, orphan, gkills>>
    BY <1>4 DEF Signal!Store, Signal!BitsInByte
  <2>2. BitTaken /\ ~orphan
    BY <2>1 DEF Handshake, Waiting, Arrived, Stored
  <2>3. /\ 8 * Len(gprinted) + Len(bits) + 1 <= 8 * Length
        /\ Len(gprinted) + 1 \in 1 .. Length
    <3>1. 8 * Len(gprinted) + Len(bits) + 1 <= 8 * Length
      BY <2>2 DEF BitTaken, Done
    <3> QED
      BY <3>1, SignalConstants
  <2>4. byte \in Bytes
    BY <2>3
  <2>5. bit \in {0, 1} /\ bit = Bit(byte, Len(bits) + 1)
    <3>1. Done \div 8 = Len(gprinted) /\ Done % 8 = Len(bits)
      BY DEF Done
    <3>2. Signal!NextBit(Done) = Signal!ByteToBits(byte)[Len(bits) + 1]
      BY <3>1 DEF Signal!NextBit, Signal!BitsInByte
    <3>3. bit = IF Signal!NextBit(Done) = 0 THEN 0 ELSE 1
      <4>1. 2 % 2 = 0 /\ 1 % 2 = 1
        OBVIOUS
      <4> QED
        BY <2>2, <4>1 DEF BitTaken
    <3> QED
      BY <3>2, <3>3 DEF Bit
  <2> HIDE DEF bit
  <2>6. /\ all \in Seq({0, 1}) /\ Len(all) = Len(bits) + 1
        /\ \A k \in 1 .. Len(all) : all[k] = Bit(byte, k)
    <3>1. /\ all \in Seq({0, 1}) /\ Len(all) = Len(bits) + 1 /\ all[Len(bits) + 1] = bit
          /\ \A k \in 1 .. Len(bits) : all[k] = bits[k]
      BY <2>5, AppendElements
    <3>2. \A k \in 1 .. Len(bits) + 1 : k \in 1 .. Len(bits) \/ k = Len(bits) + 1
      OBVIOUS
    <3>3. \A k \in 1 .. Len(bits) : bits[k] = Bit(byte, k)
      BY DEF Rebuilt
    <3> QED
      BY <2>5, <3>1, <3>2, <3>3
  <2> HIDE DEF all, byte
  <2>7. CASE Len(all) = 8
    <3>1. all \in [1 .. 8 -> {0, 1}]
      BY <2>6, <2>7, LenProperties
    <3>2. Signal!BitsToByte(all) = byte
      BY <2>4, <2>6, <2>7, <3>1, RoundTrip
    <3>3. gprinted' = Append(gprinted, byte) /\ bits' = <<>>
      BY <2>1, <2>7, <3>2
    <3>4. /\ gprinted' \in Seq(Bytes) /\ Len(gprinted') = Len(gprinted) + 1
          /\ gprinted'[Len(gprinted) + 1] = byte
          /\ \A k \in 1 .. Len(gprinted) : gprinted'[k] = gprinted[k]
      BY <2>4, <3>3, AppendElements
    <3>5. Len(bits') = 0 /\ bits' \in Seq({0, 1})
      BY <3>3
    <3>6. Done' = Done + 1
      <4>1. Len(bits) = 7
        <5> DEFINE m == Len(bits)
        <5>1. m + 1 = 8 /\ m \in Nat
          BY <2>6, <2>7
        <5> HIDE DEF m
        <5>2. m = 7
          BY <5>1
        <5> QED
          BY <5>2 DEF m
      <4>2. 8 * (Len(gprinted) + 1) + 0 = (8 * Len(gprinted) + 7) + 1
        OBVIOUS
      <4> QED
        BY <3>4, <3>5, <4>1, <4>2 DEF Done
    <3>7. SignalTypes'
      <4>1. Len(gprinted') <= Length
        BY <2>3, <3>4
      <4> QED
        BY <2>1, <3>4, <3>5, <4>1 DEF SignalTypes, Signal!TypeOK, Signal!BitsInByte
    <3>8. Rebuilt'
      <4>1. \A k \in 1 .. Len(gprinted) + 1 : k \in 1 .. Len(gprinted) \/ k = Len(gprinted) + 1
        OBVIOUS
      <4>2. \A k \in 1 .. Len(gprinted) : gprinted[k] = file[k]
        BY DEF Rebuilt
      <4>3. file' = file
        BY <2>1
      <4>4. \A k \in 1 .. Len(gprinted') : gprinted'[k] = file'[k]
        BY <3>4, <4>1, <4>2, <4>3 DEF byte
      <4>5. 1 .. Len(bits') = {}
        BY <3>5
      <4> QED
        BY <4>4, <4>5 DEF Rebuilt
    <3> QED
      BY <3>6, <3>7, <3>8, <2>1, <2>2 DEF SignalInv, Handshake, BitTaken, Stored, NoBit, Parting, Waiting
  <2>8. CASE Len(all) # 8
    <3>1. bits' = all /\ gprinted' = gprinted
      BY <2>1, <2>8
    <3>2. Done' = Done + 1 /\ Len(bits') < 8
      <4>1. Len(bits') = Len(bits) + 1 /\ Len(bits') < 8
        BY <2>6, <2>8, <3>1
      <4>2. 8 * Len(gprinted) + (Len(bits) + 1) = (8 * Len(gprinted) + Len(bits)) + 1
        OBVIOUS
      <4>3. Len(gprinted') = Len(gprinted)
        BY <3>1
      <4> QED
        BY <4>1, <4>2, <4>3 DEF Done
    <3>3. SignalTypes'
      BY <2>1, <2>6, <3>1, <3>2 DEF SignalTypes, Signal!TypeOK, Signal!BitsInByte
    <3>4. Rebuilt'
      BY <2>1, <2>6, <3>1 DEF Rebuilt, byte
    <3> QED
      BY <3>2, <3>3, <3>4, <2>1, <2>2 DEF SignalInv, Handshake, BitTaken, Stored, NoBit, Parting, Waiting
  <2> QED
    BY <2>7, <2>8
<1>5. CASE Signal!Ready
  <2>1. /\ parentPc = "ready" /\ parentPc' = "suspend"
        /\ sigToChild' \in {sigToChild, sigToChild \cup {Signal!One}}
        /\ UNCHANGED <<file, pos, childPc, sigToParent, orphan, sigflag, bits, gprinted, gkills>>
    BY <1>5 DEF Signal!Ready
  <2>2. Stored /\ ~orphan /\ childPc \notin {"prctl", "open", "send"}
    BY <2>1 DEF Handshake, Waiting, Arrived, BitTaken
  <2>3. Waiting'
    BY <2>1, <2>2 DEF Stored, Waiting, NoBit, Done
  <2>4. Handshake'
    BY <2>1, <2>2, <2>3 DEF Handshake
  <2>5. SignalTypes' /\ Rebuilt' /\ Parting'
    BY <2>1 DEF SignalTypes, Signal!TypeOK, Rebuilt, Parting
  <2> QED
    BY <2>4, <2>5 DEF SignalInv
<1>6. CASE Signal!KillParent
  <2>1. gkills' = gkills + 1
    BY <1>6 DEF Signal!KillParent
  <2> QED
    BY <1>2, <1>6, <2>1 DEF Signal!KillParent
<1> QED
  BY <1>1, <1>3, <1>4, <1>5, <1>6 DEF Signal!Parent

LEMMA SignalInvariance == SignalInv /\ [Signal!Next]_(Signal!vars) => SignalInv'
<1> SUFFICES ASSUME SignalInv, [Signal!Next]_(Signal!vars) PROVE SignalInv'
  OBVIOUS
<1>1. CASE UNCHANGED Signal!vars
  BY <1>1 DEF Signal!vars, SignalInv, SignalTypes, Signal!TypeOK, Handshake, Rebuilt, Parting, Waiting,
              Arrived, BitTaken, Stored, NoBit, Done, Code, Signal!NextBit, Signal!ParentAlive, Signal!ChildAlive
<1> QED
  BY <1>1, SignalChildSteps, SignalParentSteps DEF Signal!Next, Signal!Step

LEMMA SignalPrintsTheFile == SignalInv => Signal!TypeOK /\ Signal!PrintsTheFile
<1> SUFFICES ASSUME SignalInv PROVE Signal!TypeOK /\ Signal!PrintsTheFile
  OBVIOUS
<1> USE InvSignal
<1>1. file \in Seq(Bytes) /\ Len(file) = Length
  <2>1. file \in Seq(Bytes)
    BY SignalConstants, SeqDef
  <2> QED
    BY <2>1, SignalConstants
<1>2. ASSUME NEW n \in Nat, n <= Length
      PROVE  /\ SubSeq(file, 1, n) \in Seq(Bytes) /\ Len(SubSeq(file, 1, n)) = n
             /\ \A k \in 1 .. n : SubSeq(file, 1, n)[k] = file[k]
  BY <1>1, <1>2
<1>3. gprinted = SubSeq(file, 1, Len(gprinted))
  <2> DEFINE n == Len(gprinted)  t == SubSeq(file, 1, n)
  <2>1. t \in Seq(Bytes) /\ Len(t) = n /\ \A k \in 1 .. n : gprinted[k] = t[k]
    BY <1>2 DEF Rebuilt
  <2> HIDE DEF t
  <2> QED
    BY <2>1, SeqEqual DEF t
<1>4. ASSUME ~Signal!ParentAlive, gkills = 0, pos = Length * Signal!BitsInByte PROVE gprinted = file
  <2>1. 8 * Len(gprinted) + Len(bits) = 8 * Length
    BY <1>4, SignalConstants DEF Parting, Done, Signal!BitsInByte
  <2>2. Len(gprinted) = Length
    BY <2>1, SignalConstants
  <2> QED
    BY <1>1, <2>2, SeqEqual DEF Rebuilt
<1> QED
  BY <1>3, <1>4 DEF Signal!PrintsTheFile

-----------------------------------------------------------------------------
(* msg: the messages in the queue and those who may print *)

\* A finite set that is not empty has a greatest element.
HasGreatest(S, f) == \E x \in S : \A y \in S : f[y] <= f[x]

LEMMA Greatest ==
  ASSUME NEW S, IsFiniteSet(S), S # {}, NEW f \in [S -> Nat]
  PROVE  HasGreatest(S, f)
<1> DEFINE T == {k \in Nat : \A U \in SUBSET S :
                     U # {} /\ Cardinality(U) = k => HasGreatest(U, f)}
<1>1. \A U \in SUBSET S : IsFiniteSet(U) /\ Cardinality(U) \in Nat
  BY FS_Subset, FS_CardinalityType
<1>2. 0 \in T
  BY <1>1, FS_EmptySet
<1>3. ASSUME NEW k \in Nat, k \in T PROVE k + 1 \in T
  <2> SUFFICES ASSUME NEW U \in SUBSET S, U # {}, Cardinality(U) = k + 1
               PROVE  HasGreatest(U, f)
    OBVIOUS
  <2>1. PICK x \in U : TRUE
    OBVIOUS
  <2> DEFINE V == U \ {x}
  <2>2. V \in SUBSET S /\ Cardinality(V) = k
    <3>1. Cardinality(U \ {x}) = Cardinality(U) - 1
      BY <1>1, FS_RemoveElement
    <3> QED
      BY <3>1
  <2>3. CASE V = {}
    <3>1. U = {x} /\ f[x] <= f[x]
      BY <2>3
    <3> QED
      BY <3>1 DEF HasGreatest
  <2>4. CASE V # {}
    <3>1. HasGreatest(V, f)
      BY <1>3, <2>2, <2>4
    <3>2. PICK z \in V : \A y \in V : f[y] <= f[z]
      BY <3>1, Zenon DEF HasGreatest
    <3>3. \A y \in U : y \in V \/ y = x
      OBVIOUS
    <3>4. \A y \in U : f[y] \in Nat
      OBVIOUS
    <3>5. x \in U /\ z \in U
      OBVIOUS
    <3> HIDE DEF V
    <3>6. CASE f[x] <= f[z]
      BY <3>2, <3>3, <3>5, <3>6 DEF HasGreatest
    <3>7. CASE ~(f[x] <= f[z])
      BY <3>2, <3>3, <3>4, <3>5, <3>7 DEF HasGreatest
    <3> QED
      BY <3>6, <3>7
  <2> QED
    BY <2>3, <2>4
<1> HIDE DEF T
<1>4. Nat \subseteq T
  BY <1>2, <1>3, Induction
<1> QED
  BY <1>1, <1>4 DEF T

Started == {j \in Jobs : mppc[j] # "fork"}

Holders == {c \in Msg!Children : mcpc[c] \in {"print", "send"}}

MsgTypes ==
    /\ mqueue \in [Msg!Types -> Nat]
    /\ mforked \in [Jobs -> Nat] /\ \A j \in Jobs : mforked[j] <= ChildrenOf[j]
    /\ mppc \in [Jobs -> {"fork", "wait", "ended"}]
    /\ mcpc \in [Msg!Children -> {"unborn", "receive", "print", "send", "ended", "killed"}]
    /\ mprinted \in [Jobs -> Seq(Nat)]
    /\ \A j \in Jobs : \A n \in 1 .. Len(mprinted[j]) : mprinted[j][n] < ChildrenOf[j]

\* A child has printed when it sends, and not before it has received.
PrintedBeforeSend ==
    /\ \A j \in Jobs, n \in Nat : mforked[j] <= n /\ n < ChildrenOf[j] => mcpc[<<j, n>>] = "unborn"
    /\ \A c \in Msg!Children : mcpc[c] \in {"unborn", "receive", "print"} => ~Msg!HasPrinted(c)
    /\ \A c \in Msg!Children : mcpc[c] \in {"send", "ended"} => Msg!HasPrinted(c)

\* Every run has brought one message, which is in the queue, with a child, or lost.
OneMessageEach ==
    /\ IsFiniteSet(Msg!Messages)
    /\ Cardinality(Msg!Messages) + Cardinality(Holders) <= Cardinality(Started)

\* What children of a place have received or can receive has been sent by children of the
\* place before.
Receivers(t) == {c \in Msg!Children : Msg!TypeOf(c) = t /\ (mcpc[c] = "print" \/ Msg!HasPrinted(c))}

Senders(t) == {c \in Msg!Children : Msg!TypeOf(c) = t /\ mcpc[c] = "ended"}

SentBefore == \A t \in Msg!Types : t # 1 =>
                  mqueue[t] + Cardinality(Receivers(t)) <= Cardinality(Senders(t - 1))

MsgInv == MsgTypes /\ PrintedBeforeSend /\ OneMessageEach /\ SentBefore

LEMMA MsgConstants ==
  /\ ChildrenOf \in [Jobs -> Nat \ {0}] /\ IsFiniteSet(Jobs)
  /\ Msg!Widest \in Nat \ {0} /\ \A j \in Jobs : ChildrenOf[j] <= Msg!Widest
  /\ Msg!Types = 1 .. (Msg!Widest + 1)
  /\ IsFiniteSet(Msg!Children)
  /\ \A j \in Jobs : \A n \in Nat : n < ChildrenOf[j] => <<j, n>> \in Msg!Children
  /\ \A c \in Msg!Children : /\ c = <<c[1], c[2]>> /\ c[1] \in Jobs /\ c[2] \in Nat
                             /\ c[2] < ChildrenOf[c[1]] /\ Msg!TypeOf(c) \in Nat
                             /\ Msg!TypeOf(c) \in Msg!Types /\ Msg!TypeOf(c) + 1 \in Msg!Types
                             /\ Msg!TypeOf(c) + 1 # 1
  /\ \A j \in Jobs : ChildrenOf[j] + 1 \in Msg!Types /\ ChildrenOf[j] + 1 # 1
  /\ 1 \in Msg!Types
<1>1. ChildrenOf \in [Jobs -> Nat \ {0}] /\ IsFiniteSet(Jobs) /\ Jobs # {}
  BY ProgramsAssumption
     DEF Msg!NAssumption, Msg!JobsAssumption, Msg!IsFiniteSet, IsFiniteSet
<1>2. Msg!Widest \in Nat \ {0} /\ \A j \in Jobs : ChildrenOf[j] <= Msg!Widest
  <2>1. HasGreatest(Jobs, ChildrenOf)
    BY <1>1, Greatest
  <2>2. PICK x \in Jobs : \A y \in Jobs : ChildrenOf[y] <= ChildrenOf[x]
    BY <2>1, Zenon DEF HasGreatest
  <2>3. \E n \in {ChildrenOf[j] : j \in Jobs} : \A j \in Jobs : ChildrenOf[j] <= n
    BY <2>2
  <2>4. Msg!Widest \in {ChildrenOf[j] : j \in Jobs} /\ \A j \in Jobs : ChildrenOf[j] <= Msg!Widest
    BY <2>3, Zenon DEF Msg!Widest
  <2> QED
    BY <1>1, <2>4
<1>3. Msg!Types = 1 .. (Msg!Widest + 1)
  BY DEF Msg!Types
<1>4. ASSUME NEW c \in Msg!Children
      PROVE  /\ c = <<c[1], c[2]>> /\ c[1] \in Jobs /\ c[2] \in Nat /\ c[2] < ChildrenOf[c[1]]
             /\ c \in Jobs \X (0 .. Msg!Widest)
             /\ Msg!TypeOf(c) \in 1 .. ChildrenOf[c[1]]
  <2>1. PICK j \in Jobs : c \in {j} \X (0 .. ChildrenOf[j] - 1)
    BY DEF Msg!Children
  <2>2. ChildrenOf[j] \in Nat \ {0} /\ ChildrenOf[j] <= Msg!Widest
    BY <1>1, <1>2
  <2>3. c = <<c[1], c[2]>> /\ c[1] = j /\ c[2] \in Nat /\ c[2] < ChildrenOf[j]
    BY <2>1, <2>2
  <2>4. c[2] \in 0 .. Msg!Widest
    BY <1>2, <2>2, <2>3
  <2>5. c \in Jobs \X (0 .. Msg!Widest)
    BY <2>3, <2>4
  <2>6. Msg!TypeOf(c) \in 1 .. ChildrenOf[c[1]]
    BY <2>2, <2>3 DEF Msg!TypeOf
  <2> QED
    BY <2>3, <2>5, <2>6
<1>5. IsFiniteSet(Msg!Children)
  <2>1. IsFiniteSet(0 .. Msg!Widest)
    BY <1>2, FS_Interval
  <2>2. IsFiniteSet(Jobs \X (0 .. Msg!Widest))
    BY <1>1, <2>1, FS_Product
  <2>3. Msg!Children \in SUBSET (Jobs \X (0 .. Msg!Widest))
    BY <1>4
  <2> QED
    BY <2>2, <2>3, FS_Subset
<1>6. ASSUME NEW j \in Jobs, NEW n \in Nat, n < ChildrenOf[j] PROVE <<j, n>> \in Msg!Children
  <2>1. <<j, n>> \in {j} \X (0 .. ChildrenOf[j] - 1)
    BY <1>1, <1>6
  <2> QED
    BY <2>1 DEF Msg!Children
<1>7. ASSUME NEW j \in Jobs, NEW t \in 1 .. ChildrenOf[j]
      PROVE  t \in Msg!Types /\ t + 1 \in Msg!Types /\ t + 1 # 1
  <2>1. ChildrenOf[j] \in Nat \ {0} /\ ChildrenOf[j] <= Msg!Widest
    BY <1>1, <1>2
  <2> QED
    BY <1>2, <1>3, <2>1
<1>8. 1 \in Msg!Types /\ \A j \in Jobs : ChildrenOf[j] \in 1 .. ChildrenOf[j]
  BY <1>1, <1>2, <1>3
<1> QED
  BY <1>1, <1>2, <1>3, <1>4, <1>5, <1>6, <1>7, <1>8

LEMMA SeqOf ==
  ASSUME NEW S, NEW s \in Seq(S), NEW U, \A n \in 1 .. Len(s) : s[n] \in U
  PROVE  s \in Seq(U)
<1>1. Len(s) \in Nat /\ s \in [1 .. Len(s) -> S]
  BY LenProperties
<1>2. s \in [1 .. Len(s) -> U]
  BY <1>1
<1> QED
  BY <1>1, <1>2

LEMMA OneMore == \A n \in Nat : 1 .. (n + 1) = (1 .. n) \cup {n + 1}
OBVIOUS

LEMMA MsgCardinality == \A S : Msg!Cardinality(S) = Cardinality(S)
BY DEF Msg!Cardinality, Cardinality, Msg!IsFiniteSet, IsFiniteSet

LEMMA MsgInit == Msg!Init => MsgInv
<1> SUFFICES ASSUME Msg!Init PROVE MsgInv
  OBVIOUS
<1> USE MsgConstants
<1>1. MsgTypes
  BY DEF Msg!Init, MsgTypes
<1>2. \A c \in Msg!Children : ~Msg!HasPrinted(c)
  BY DEF Msg!Init, Msg!HasPrinted
<1>3. PrintedBeforeSend
  BY <1>2 DEF Msg!Init, PrintedBeforeSend
<1>4. OneMessageEach
  <2>1. Msg!Messages = {} /\ Holders = {} /\ Started = {}
    BY DEF Msg!Init, Msg!Messages, Holders, Started
  <2> QED
    BY <2>1, FS_EmptySet DEF OneMessageEach
<1>5. SentBefore
  <2>1. \A t : Receivers(t) = {} /\ Senders(t) = {}
    BY <1>2 DEF Msg!Init, Receivers, Senders
  <2>2. \A t \in Msg!Types : mqueue[t] = 0
    BY DEF Msg!Init
  <2>3. \A t : Cardinality(Receivers(t)) = 0 /\ Cardinality(Senders(t)) = 0
    BY <2>1, FS_EmptySet
  <2> QED
    BY <2>2, <2>3 DEF SentBefore
<1> QED
  BY <1>1, <1>3, <1>4, <1>5 DEF MsgInv

\* The facts of the invariant that the steps use.
LEMMA InvMsg ==
  ASSUME MsgInv
  PROVE  /\ MsgTypes /\ PrintedBeforeSend /\ OneMessageEach /\ SentBefore
         /\ mqueue \in [Msg!Types -> Nat]
         /\ mforked \in [Jobs -> Nat] /\ mppc \in [Jobs -> {"fork", "wait", "ended"}]
         /\ mcpc \in [Msg!Children -> {"unborn", "receive", "print", "send", "ended", "killed"}]
         /\ mprinted \in [Jobs -> Seq(Nat)]
         /\ IsFiniteSet(Holders) /\ Cardinality(Holders) \in Nat
         /\ IsFiniteSet(Started) /\ Cardinality(Started) \in Nat
         /\ IsFiniteSet(Msg!Messages) /\ Cardinality(Msg!Messages) \in Nat
         /\ \A t : /\ IsFiniteSet(Receivers(t)) /\ Cardinality(Receivers(t)) \in Nat
                   /\ IsFiniteSet(Senders(t)) /\ Cardinality(Senders(t)) \in Nat
<1> USE MsgConstants
<1>1. \A U \in SUBSET Msg!Children : IsFiniteSet(U) /\ Cardinality(U) \in Nat
  BY FS_Subset, FS_CardinalityType
<1>2. /\ Holders \in SUBSET Msg!Children
      /\ \A t : Receivers(t) \in SUBSET Msg!Children /\ Senders(t) \in SUBSET Msg!Children
  BY DEF Holders, Receivers, Senders
<1>3. Started \in SUBSET Jobs
  BY DEF Started
<1>4. IsFiniteSet(Started) /\ Cardinality(Started) \in Nat
  BY <1>3, FS_Subset, FS_CardinalityType
<1>5. IsFiniteSet(Msg!Messages) /\ Cardinality(Msg!Messages) \in Nat
  BY FS_CardinalityType DEF MsgInv, OneMessageEach
<1> QED
  BY <1>1, <1>2, <1>4, <1>5 DEF MsgInv, MsgTypes

\* What a message in the queue more or less is.
LEMMA PutMessage ==
  ASSUME MsgInv, NEW t \in Msg!Types, mqueue' = [mqueue EXCEPT ![t] = @ + 1]
  PROVE  /\ IsFiniteSet(Msg!Messages')
         /\ Cardinality(Msg!Messages') = Cardinality(Msg!Messages) + 1
<1> DEFINE e == <<t, mqueue[t] + 1>>
<1>1. mqueue \in [Msg!Types -> Nat] /\ mqueue[t] \in Nat
  BY InvMsg
<1>2. \A x : x \in Msg!Messages <=> \E d \in Msg!Types : \E n \in 1 .. mqueue[d] : x = <<d, n>>
  BY DEF Msg!Messages
<1>3. \A x : x \in Msg!Messages' <=> \E d \in Msg!Types : \E n \in 1 .. mqueue'[d] : x = <<d, n>>
  BY DEF Msg!Messages, Msg!Types
<1>4. e \notin Msg!Messages
  BY <1>1, <1>2
<1>5. Msg!Messages' = Msg!Messages \cup {e}
  <2>1. \A d \in Msg!Types : d # t => mqueue'[d] = mqueue[d]
    BY <1>1
  <2>2. mqueue'[t] = mqueue[t] + 1
    BY <1>1
  <2>3. \A n : n \in 1 .. mqueue'[t] <=> n \in 1 .. mqueue[t] \/ n = mqueue[t] + 1
    BY <1>1, <2>2
  <2> QED
    BY <1>2, <1>3, <2>1, <2>3
<1> HIDE DEF e
<1> QED
  BY <1>4, <1>5, InvMsg, FS_AddElement

LEMMA TakeMessage ==
  ASSUME MsgInv, NEW t \in Msg!Types, mqueue[t] > 0, mqueue' = [mqueue EXCEPT ![t] = @ - 1]
  PROVE  /\ IsFiniteSet(Msg!Messages')
         /\ Cardinality(Msg!Messages') = Cardinality(Msg!Messages) - 1
         /\ mqueue' \in [Msg!Types -> Nat]
<1> DEFINE e == <<t, mqueue[t]>>
<1>1. mqueue \in [Msg!Types -> Nat] /\ mqueue[t] \in Nat
  BY InvMsg
<1>2. \A x : x \in Msg!Messages <=> \E d \in Msg!Types : \E n \in 1 .. mqueue[d] : x = <<d, n>>
  BY DEF Msg!Messages
<1>3. \A x : x \in Msg!Messages' <=> \E d \in Msg!Types : \E n \in 1 .. mqueue'[d] : x = <<d, n>>
  BY DEF Msg!Messages, Msg!Types
<1>4. e \in Msg!Messages
  BY <1>1, <1>2
<1>5. Msg!Messages' = Msg!Messages \ {e}
  <2>1. \A d \in Msg!Types : d # t => mqueue'[d] = mqueue[d]
    BY <1>1
  <2>2. mqueue'[t] = mqueue[t] - 1
    BY <1>1
  <2>3. \A n : n \in 1 .. mqueue'[t] <=> n \in 1 .. mqueue[t] /\ n # mqueue[t]
    BY <1>1, <2>2
  <2> QED
    BY <1>2, <1>3, <2>1, <2>3
<1>6. mqueue' \in [Msg!Types -> Nat]
  BY <1>1
<1> HIDE DEF e
<1> QED
  BY <1>4, <1>5, <1>6, InvMsg, FS_RemoveElement

-----------------------------------------------------------------------------
\* A child that comes or goes before it has printed or after it has sent.
LEMMA ForkHolds ==
  ASSUME MsgInv, NEW j \in Jobs, Msg!Fork(j)
  PROVE  MsgInv'
<1> USE MsgConstants
<1> DEFINE c == <<j, mforked[j]>>
<1>1. /\ mppc[j] = "fork" /\ mforked[j] < ChildrenOf[j]
      /\ mforked' = [mforked EXCEPT ![j] = @ + 1]
      /\ mcpc' = [mcpc EXCEPT ![c] = "receive"]
      /\ UNCHANGED <<mqueue, mppc, mprinted, mkills>>
  BY DEF Msg!Fork
<1>2. c \in Msg!Children /\ mcpc[c] = "unborn" /\ c[1] = j /\ c[2] = mforked[j]
  BY <1>1, InvMsg DEF PrintedBeforeSend
<1> HIDE DEF c
<1>3. mcpc'[c] = "receive" /\ \A d \in Msg!Children : d # c => mcpc'[d] = mcpc[d]
  BY <1>1, <1>2, InvMsg
<1>4. MsgTypes'
  <2>1. mforked[j] + 1 \in Nat /\ mforked[j] + 1 <= ChildrenOf[j]
    BY <1>1, InvMsg
  <2>2. mforked' \in [Jobs -> Nat]
    BY <1>1, <2>1, InvMsg
  <2>3. \A q \in Jobs : mforked'[q] <= ChildrenOf[q]
    BY <1>1, <2>1, InvMsg DEF MsgTypes
  <2>4. mcpc' \in [Msg!Children -> {"unborn", "receive", "print", "send", "ended", "killed"}]
    BY <1>1, <1>2, InvMsg
  <2> QED
    BY <1>1, <2>2, <2>3, <2>4, InvMsg DEF MsgTypes
<1>5. \A d : Msg!HasPrinted(d)' <=> Msg!HasPrinted(d)
  BY <1>1 DEF Msg!HasPrinted
<1>6. PrintedBeforeSend'
  <2>1. ASSUME NEW q \in Jobs, NEW n \in Nat, mforked'[q] <= n, n < ChildrenOf[q]
        PROVE  mcpc'[<<q, n>>] = "unborn"
    <3>1. mforked[q] <= n /\ <<q, n>> # c
      <4>1. mforked[j] \in Nat
        BY InvMsg
      <4>2. CASE q = j
        <5>1. mforked'[q] = mforked[j] + 1
          BY <1>1, <4>2, InvMsg
        <5> QED
          BY <2>1, <4>1, <4>2, <5>1 DEF c
      <4>3. CASE q # j
        <5>1. mforked'[q] = mforked[q]
          BY <1>1, <4>3, InvMsg
        <5> QED
          BY <2>1, <4>3, <5>1 DEF c
      <4> QED
        BY <4>2, <4>3
    <3> QED
      BY <1>3, <2>1, <3>1, InvMsg DEF PrintedBeforeSend
  <2>2. ASSUME NEW d \in Msg!Children
        PROVE  /\ mcpc'[d] \in {"unborn", "receive", "print"} => ~Msg!HasPrinted(d)'
               /\ mcpc'[d] \in {"send", "ended"} => Msg!HasPrinted(d)'
    <3>1. /\ mcpc[d] \in {"unborn", "receive", "print"} => ~Msg!HasPrinted(d)
          /\ mcpc[d] \in {"send", "ended"} => Msg!HasPrinted(d)
      BY InvMsg DEF PrintedBeforeSend
    <3> QED
      BY <1>2, <1>3, <1>5, <3>1
  <2> QED
    BY <2>1, <2>2 DEF PrintedBeforeSend
<1>7. /\ Holders' = Holders /\ Started' = Started /\ Msg!Messages' = Msg!Messages
      /\ \A t : Receivers(t)' = Receivers(t) /\ Senders(t)' = Senders(t)
  BY <1>1, <1>2, <1>3, <1>5 DEF Holders, Started, Msg!Messages, Receivers, Senders
<1> QED
  BY <1>1, <1>4, <1>6, <1>7, InvMsg DEF MsgInv, OneMessageEach, SentBefore

LEMMA StartHolds ==
  ASSUME MsgInv, NEW j \in Jobs, Msg!Start(j)
  PROVE  MsgInv'
<1> USE MsgConstants
<1>1. /\ mppc[j] = "fork" /\ mqueue' = [mqueue EXCEPT ![1] = @ + 1]
      /\ mppc' = [mppc EXCEPT ![j] = "wait"]
      /\ UNCHANGED <<mforked, mcpc, mprinted, mkills>>
  BY DEF Msg!Start, Msg!Put
<1>2. MsgTypes'
  <2>0. 1 \in Msg!Types /\ mqueue \in [Msg!Types -> Nat]
    BY InvMsg
  <2>1. mqueue[1] + 1 \in Nat
    BY <2>0
  <2>2. mqueue' \in [Msg!Types -> Nat]
    BY <1>1, <2>1, InvMsg
  <2>3. mppc' \in [Jobs -> {"fork", "wait", "ended"}]
    BY <1>1, InvMsg
  <2> QED
    BY <1>1, <2>2, <2>3, InvMsg DEF MsgTypes
<1>3. PrintedBeforeSend'
  BY <1>1, InvMsg DEF PrintedBeforeSend, Msg!HasPrinted
<1>4. Holders' = Holders /\ \A t : Receivers(t)' = Receivers(t) /\ Senders(t)' = Senders(t)
  BY <1>1 DEF Holders, Receivers, Senders, Msg!HasPrinted
<1>5. Cardinality(Started') = Cardinality(Started) + 1
  <2>1. Started' = Started \cup {j} /\ j \notin Started
    BY <1>1, InvMsg DEF Started
  <2> QED
    BY <2>1, InvMsg, FS_AddElement
<1>6. OneMessageEach'
  <2>1. IsFiniteSet(Msg!Messages') /\ Cardinality(Msg!Messages') = Cardinality(Msg!Messages) + 1
    BY <1>1, PutMessage
  <2> QED
    BY <1>4, <1>5, <2>1, InvMsg DEF OneMessageEach
<1>7. SentBefore'
  BY <1>1, <1>4, InvMsg DEF SentBefore
<1> QED
  BY <1>2, <1>3, <1>6, <1>7 DEF MsgInv

LEMMA FinishHolds ==
  ASSUME MsgInv, NEW j \in Jobs, Msg!Finish(j)
  PROVE  MsgInv'
<1> USE MsgConstants
<1> DEFINE t0 == ChildrenOf[j] + 1
<1>1. /\ mppc[j] = "wait" /\ mqueue[t0] > 0 /\ mqueue' = [mqueue EXCEPT ![t0] = @ - 1]
      /\ mppc' = [mppc EXCEPT ![j] = "ended"]
      /\ UNCHANGED <<mforked, mcpc, mprinted, mkills>>
  BY DEF Msg!Finish, Msg!Take
<1>0. t0 \in Msg!Types
  OBVIOUS
<1> HIDE DEF t0
<1>8. /\ IsFiniteSet(Msg!Messages') /\ Cardinality(Msg!Messages') = Cardinality(Msg!Messages) - 1
      /\ mqueue' \in [Msg!Types -> Nat]
  BY <1>0, <1>1, TakeMessage
<1>2. MsgTypes'
  BY <1>1, <1>8, InvMsg DEF MsgTypes
<1>3. PrintedBeforeSend'
  BY <1>1, InvMsg DEF PrintedBeforeSend, Msg!HasPrinted
<1>4. Holders' = Holders /\ \A t : Receivers(t)' = Receivers(t) /\ Senders(t)' = Senders(t)
  BY <1>1 DEF Holders, Receivers, Senders, Msg!HasPrinted
<1>5. Started' = Started
  BY <1>1, InvMsg DEF Started
<1>6. OneMessageEach'
  BY <1>4, <1>5, <1>8, InvMsg DEF OneMessageEach
<1>7. SentBefore'
  <2> SUFFICES ASSUME NEW t \in Msg!Types, t # 1
               PROVE  mqueue'[t] + Cardinality(Receivers(t)) <= Cardinality(Senders(t - 1))
    BY <1>4 DEF SentBefore
  <2>1. mqueue[t] + Cardinality(Receivers(t)) <= Cardinality(Senders(t - 1))
    BY InvMsg DEF SentBefore
  <2>2. mqueue'[t] <= mqueue[t] /\ mqueue'[t] \in Nat /\ mqueue[t] \in Nat
    <3>1. mqueue'[t] = IF t = t0 THEN mqueue[t] - 1 ELSE mqueue[t]
      BY <1>1, InvMsg
    <3>2. mqueue'[t] \in Nat /\ mqueue[t] \in Nat
      BY <1>8, InvMsg
    <3> QED
      BY <3>1, <3>2
  <2>3. Cardinality(Receivers(t)) \in Nat /\ Cardinality(Senders(t - 1)) \in Nat
    BY InvMsg
  <2> QED
    BY <2>1, <2>2, <2>3
<1> QED
  BY <1>2, <1>3, <1>6, <1>7 DEF MsgInv

LEMMA ReceiveHolds ==
  ASSUME MsgInv, NEW c \in Msg!Children, Msg!Receive(c)
  PROVE  MsgInv'
<1> USE MsgConstants
<1> DEFINE t0 == Msg!TypeOf(c)
<1>1. /\ mcpc[c] = "receive" /\ mqueue[t0] > 0 /\ mqueue' = [mqueue EXCEPT ![t0] = @ - 1]
      /\ mcpc' = [mcpc EXCEPT ![c] = "print"]
      /\ UNCHANGED <<mforked, mppc, mprinted, mkills>>
  BY DEF Msg!Receive, Msg!Take
<1>0. t0 \in Msg!Types
  OBVIOUS
<1> HIDE DEF t0
<1>8. /\ IsFiniteSet(Msg!Messages') /\ Cardinality(Msg!Messages') = Cardinality(Msg!Messages) - 1
      /\ mqueue' \in [Msg!Types -> Nat]
  BY <1>0, <1>1, TakeMessage
<1>2. MsgTypes'
  BY <1>1, <1>8, InvMsg DEF MsgTypes
<1>9. mcpc'[c] = "print" /\ \A d \in Msg!Children : d # c => mcpc'[d] = mcpc[d]
  BY <1>1, InvMsg
<1>10. \A d : Msg!HasPrinted(d)' <=> Msg!HasPrinted(d)
  BY <1>1 DEF Msg!HasPrinted
<1>11. ~Msg!HasPrinted(c)
  BY <1>1, InvMsg DEF PrintedBeforeSend
<1>3. PrintedBeforeSend'
  <2>1. ASSUME NEW q \in Jobs, NEW n \in Nat, mforked[q] <= n, n < ChildrenOf[q]
        PROVE  mcpc'[<<q, n>>] = "unborn"
    BY <1>1, <1>9, <2>1, InvMsg DEF PrintedBeforeSend
  <2> QED
    BY <1>1, <1>9, <1>10, <1>11, <2>1, InvMsg DEF PrintedBeforeSend
<1>4. /\ \A t : Senders(t)' = Senders(t) /\ (t # t0 => Receivers(t)' = Receivers(t))
      /\ Receivers(t0)' = Receivers(t0) \cup {c} /\ c \notin Receivers(t0)
      /\ Started' = Started /\ Holders' = Holders \cup {c} /\ c \notin Holders
  BY <1>1, <1>9, <1>10, <1>11 DEF Holders, Receivers, Senders, Started, t0
<1>5. /\ Cardinality(Holders') = Cardinality(Holders) + 1
      /\ Cardinality(Receivers(t0)') = Cardinality(Receivers(t0)) + 1
  BY <1>4, InvMsg, FS_AddElement
<1>6. OneMessageEach'
  BY <1>4, <1>5, <1>8, InvMsg DEF OneMessageEach
<1>7. SentBefore'
  <2> SUFFICES ASSUME NEW t \in Msg!Types, t # 1
               PROVE  mqueue'[t] + Cardinality(Receivers(t)') <= Cardinality(Senders(t - 1))
    BY <1>4 DEF SentBefore
  <2>1. mqueue[t] + Cardinality(Receivers(t)) <= Cardinality(Senders(t - 1))
    BY InvMsg DEF SentBefore
  <2>2. CASE t = t0
    <3>1. mqueue'[t] = mqueue[t] - 1
      BY <1>1, <2>2, InvMsg
    <3> QED
      BY <1>5, <2>1, <2>2, <3>1, InvMsg
  <2>3. CASE t # t0
    BY <1>1, <1>4, <2>1, <2>3, InvMsg
  <2> QED
    BY <2>2, <2>3
<1> QED
  BY <1>2, <1>3, <1>6, <1>7 DEF MsgInv

LEMMA PrintHolds ==
  ASSUME MsgInv, NEW c \in Msg!Children, Msg!PrintNumber(c)
  PROVE  MsgInv'
<1> USE MsgConstants
<1>1. /\ mcpc[c] = "print" /\ mprinted' = [mprinted EXCEPT ![c[1]] = Append(@, c[2])]
      /\ mcpc' = [mcpc EXCEPT ![c] = "send"]
      /\ UNCHANGED <<mqueue, mforked, mppc, mkills>>
  BY DEF Msg!PrintNumber
<1> DEFINE s == mprinted[c[1]]
<1>2. /\ s \in Seq(Nat) /\ Len(s) \in Nat /\ Append(s, c[2]) \in Seq(Nat)
      /\ Len(Append(s, c[2])) = Len(s) + 1 /\ Append(s, c[2])[Len(s) + 1] = c[2]
      /\ \A k \in 1 .. Len(s) : Append(s, c[2])[k] = s[k]
  BY InvMsg, AppendElements
<1>3. /\ mprinted'[c[1]] = Append(s, c[2])
      /\ \A j \in Jobs : j # c[1] => mprinted'[j] = mprinted[j]
      /\ mprinted' \in [Jobs -> Seq(Nat)]
  BY <1>1, <1>2, InvMsg
<1>4. \A k \in 1 .. Len(mprinted'[c[1]]) : k \in 1 .. Len(s) \/ k = Len(s) + 1
  BY <1>2, <1>3
<1>5. MsgTypes'
  <2>1. ASSUME NEW j \in Jobs, NEW n \in 1 .. Len(mprinted'[j])
        PROVE  mprinted'[j][n] < ChildrenOf[j]
    <3>1. CASE j = c[1]
      BY <1>2, <1>3, <1>4, <3>1, InvMsg DEF MsgTypes
    <3>2. CASE j # c[1]
      BY <1>3, <3>2, InvMsg DEF MsgTypes
    <3> QED
      BY <3>1, <3>2
  <2>2. mcpc' \in [Msg!Children -> {"unborn", "receive", "print", "send", "ended", "killed"}]
    BY <1>1, InvMsg
  <2> QED
    BY <1>1, <1>3, <2>1, <2>2, InvMsg DEF MsgTypes
<1>6. Msg!HasPrinted(c)'
  <2>1. DOMAIN mprinted'[c[1]] = 1 .. (Len(s) + 1) /\ Len(s) + 1 \in 1 .. (Len(s) + 1)
    BY <1>2, <1>3
  <2> QED
    BY <1>2, <1>3, <2>1 DEF Msg!HasPrinted
<1>7. ASSUME NEW d \in Msg!Children, d # c PROVE Msg!HasPrinted(d)' <=> Msg!HasPrinted(d)
  <2>1. CASE d[1] # c[1]
    BY <1>3, <2>1 DEF Msg!HasPrinted
  <2>2. CASE d[1] = c[1]
    <3>1. d[2] # c[2]
      BY <1>7, <2>2
    <3>2. DOMAIN mprinted'[c[1]] = 1 .. (Len(s) + 1) /\ DOMAIN s = 1 .. Len(s)
      BY <1>2, <1>3
    <3>3. 1 .. (Len(s) + 1) = (1 .. Len(s)) \cup {Len(s) + 1}
      BY <1>2, OneMore
    <3>4. Msg!HasPrinted(d)' <=> \E k \in 1 .. (Len(s) + 1) : Append(s, c[2])[k] = d[2]
      BY <1>3, <2>2, <3>2 DEF Msg!HasPrinted
    <3>5. Msg!HasPrinted(d) <=> \E k \in 1 .. Len(s) : s[k] = d[2]
      BY <2>2, <3>2 DEF Msg!HasPrinted
    <3> QED
      BY <1>2, <3>1, <3>3, <3>4, <3>5
  <2> QED
    BY <2>1, <2>2
<1>8. mcpc'[c] = "send" /\ \A d \in Msg!Children : d # c => mcpc'[d] = mcpc[d]
  BY <1>1, InvMsg
<1>9. PrintedBeforeSend'
  <2>1. ASSUME NEW q \in Jobs, NEW n \in Nat, mforked[q] <= n, n < ChildrenOf[q]
        PROVE  mcpc'[<<q, n>>] = "unborn"
    BY <1>1, <1>8, <2>1, InvMsg DEF PrintedBeforeSend
  <2>2. ASSUME NEW d \in Msg!Children
        PROVE  /\ mcpc'[d] \in {"unborn", "receive", "print"} => ~Msg!HasPrinted(d)'
               /\ mcpc'[d] \in {"send", "ended"} => Msg!HasPrinted(d)'
    <3>1. /\ mcpc[d] \in {"unborn", "receive", "print"} => ~Msg!HasPrinted(d)
          /\ mcpc[d] \in {"send", "ended"} => Msg!HasPrinted(d)
      BY InvMsg DEF PrintedBeforeSend
    <3> QED
      BY <1>6, <1>7, <1>8, <3>1
  <2> QED
    BY <1>1, <2>1, <2>2 DEF PrintedBeforeSend
<1>10. /\ Holders' = Holders /\ Started' = Started /\ Msg!Messages' = Msg!Messages
       /\ \A t : Receivers(t)' = Receivers(t) /\ Senders(t)' = Senders(t)
  <2>1. \A d \in Msg!Children : /\ mcpc'[d] \in {"print", "send"} <=> mcpc[d] \in {"print", "send"}
                                /\ (mcpc'[d] = "print" \/ Msg!HasPrinted(d)')
                                       <=> (mcpc[d] = "print" \/ Msg!HasPrinted(d))
                                /\ mcpc'[d] = "ended" <=> mcpc[d] = "ended"
    BY <1>1, <1>6, <1>7, <1>8
  <2> QED
    BY <1>1, <2>1 DEF Holders, Started, Msg!Messages, Receivers, Senders
<1> QED
  BY <1>1, <1>5, <1>9, <1>10, InvMsg DEF MsgInv, OneMessageEach, SentBefore

LEMMA SendHolds ==
  ASSUME MsgInv, NEW c \in Msg!Children, Msg!Send(c)
  PROVE  MsgInv'
<1> USE MsgConstants
<1> DEFINE t0 == Msg!TypeOf(c)
<1>1. /\ mcpc[c] = "send" /\ mqueue' = [mqueue EXCEPT ![t0 + 1] = @ + 1]
      /\ mcpc' = [mcpc EXCEPT ![c] = "ended"]
      /\ UNCHANGED <<mforked, mppc, mprinted, mkills>>
  BY DEF Msg!Send, Msg!Put
<1>0. t0 \in Nat /\ t0 + 1 \in Msg!Types
  OBVIOUS
<1> HIDE DEF t0
<1>8. IsFiniteSet(Msg!Messages') /\ Cardinality(Msg!Messages') = Cardinality(Msg!Messages) + 1
  BY <1>0, <1>1, PutMessage
<1>2. MsgTypes'
  <2>1. mqueue[t0 + 1] + 1 \in Nat
    <3>1. mqueue \in [Msg!Types -> Nat]
      BY InvMsg
    <3>2. mqueue[t0 + 1] \in Nat
      BY <1>0, <3>1
    <3> QED
      BY <3>2
  <2>2. mqueue' \in [Msg!Types -> Nat]
    BY <1>1, <2>1, InvMsg
  <2>3. mcpc' \in [Msg!Children -> {"unborn", "receive", "print", "send", "ended", "killed"}]
    BY <1>1, InvMsg
  <2> QED
    BY <1>1, <2>2, <2>3, InvMsg DEF MsgTypes
<1>9. mcpc'[c] = "ended" /\ \A d \in Msg!Children : d # c => mcpc'[d] = mcpc[d]
  BY <1>1, InvMsg
<1>10. \A d : Msg!HasPrinted(d)' <=> Msg!HasPrinted(d)
  BY <1>1 DEF Msg!HasPrinted
<1>11. Msg!HasPrinted(c)
  BY <1>1, InvMsg DEF PrintedBeforeSend
<1>3. PrintedBeforeSend'
  <2>1. ASSUME NEW q \in Jobs, NEW n \in Nat, mforked[q] <= n, n < ChildrenOf[q]
        PROVE  mcpc'[<<q, n>>] = "unborn"
    BY <1>1, <1>9, <2>1, InvMsg DEF PrintedBeforeSend
  <2> QED
    BY <1>1, <1>9, <1>10, <1>11, <2>1, InvMsg DEF PrintedBeforeSend
<1>4. /\ \A t : Receivers(t)' = Receivers(t) /\ (t # t0 => Senders(t)' = Senders(t))
      /\ Senders(t0)' = Senders(t0) \cup {c} /\ c \notin Senders(t0)
      /\ Started' = Started /\ Holders' = Holders \ {c} /\ c \in Holders
  BY <1>1, <1>9, <1>10, <1>11 DEF Holders, Receivers, Senders, Started, t0
<1>5. /\ Cardinality(Holders') = Cardinality(Holders) - 1
      /\ Cardinality(Senders(t0)') = Cardinality(Senders(t0)) + 1
  <2>1. Cardinality(Holders') = Cardinality(Holders) - 1
    BY <1>4, InvMsg, FS_RemoveElement
  <2>2. Cardinality(Senders(t0)') = Cardinality(Senders(t0)) + 1
    BY <1>4, InvMsg, FS_AddElement
  <2> QED
    BY <2>1, <2>2
<1>6. OneMessageEach'
  BY <1>4, <1>5, <1>8, InvMsg DEF OneMessageEach
<1>7. SentBefore'
  <2> SUFFICES ASSUME NEW t \in Msg!Types, t # 1
               PROVE  mqueue'[t] + Cardinality(Receivers(t)) <= Cardinality(Senders(t - 1)')
    BY <1>4 DEF SentBefore
  <2>1. mqueue[t] + Cardinality(Receivers(t)) <= Cardinality(Senders(t - 1))
    BY InvMsg DEF SentBefore
  <2>2. CASE t = t0 + 1
    <3>1. mqueue'[t] = mqueue[t] + 1 /\ mqueue[t] \in Nat /\ t - 1 = t0
      BY <1>0, <1>1, <2>2, InvMsg
    <3> DEFINE old == mqueue[t]  r == Cardinality(Receivers(t))  p == Cardinality(Senders(t - 1))
               new == mqueue'[t]  q == Cardinality(Senders(t - 1)')
    <3>2. q = p + 1
      BY <1>5, <3>1
    <3>3. r \in Nat /\ p \in Nat
      BY InvMsg
    <3>4. new = old + 1 /\ old \in Nat /\ old + r <= p
      BY <2>1, <3>1
    <3> HIDE DEF old, r, p, new, q
    <3>5. new + r <= q
      BY <3>2, <3>3, <3>4
    <3> QED
      BY <3>5 DEF new, r, q
  <2>3. CASE t # t0 + 1
    <3>1. t - 1 # t0
      BY <1>0, <2>3
    <3>2. mqueue'[t] = mqueue[t]
      BY <1>1, <2>3, InvMsg
    <3>3. Senders(t - 1)' = Senders(t - 1)
      BY <1>4, <3>1
    <3> QED
      BY <2>1, <3>2, <3>3
  <2> QED
    BY <2>2, <2>3
<1> QED
  BY <1>2, <1>3, <1>6, <1>7 DEF MsgInv

\* With a child that is killed its message is lost.
LEMMA KillHolds ==
  ASSUME MsgInv, NEW c \in Msg!Children, Msg!Kill(c)
  PROVE  MsgInv'
<1> USE MsgConstants
<1>1. /\ mcpc[c] \in {"receive", "print", "send"} /\ mcpc' = [mcpc EXCEPT ![c] = "killed"]
      /\ UNCHANGED <<mqueue, mforked, mppc, mprinted>>
  BY DEF Msg!Kill
<1>2. MsgTypes'
  <2>1. mcpc' \in [Msg!Children -> {"unborn", "receive", "print", "send", "ended", "killed"}]
    BY <1>1, InvMsg
  <2> QED
    BY <1>1, <2>1, InvMsg DEF MsgTypes
<1>9. mcpc'[c] = "killed" /\ \A d \in Msg!Children : d # c => mcpc'[d] = mcpc[d]
  BY <1>1, InvMsg
<1>10. \A d : Msg!HasPrinted(d)' <=> Msg!HasPrinted(d)
  BY <1>1 DEF Msg!HasPrinted
<1>3. PrintedBeforeSend'
  <2>1. ASSUME NEW q \in Jobs, NEW n \in Nat, mforked[q] <= n, n < ChildrenOf[q]
        PROVE  mcpc'[<<q, n>>] = "unborn"
    <3>1. mcpc[<<q, n>>] = "unborn" /\ <<q, n>> \in Msg!Children
      BY <2>1, InvMsg DEF PrintedBeforeSend
    <3> QED
      BY <1>1, <1>9, <3>1
  <2> QED
    BY <1>1, <1>9, <1>10, <2>1, InvMsg DEF PrintedBeforeSend
<1>4. /\ \A t : Senders(t)' = Senders(t) /\ Receivers(t)' \subseteq Receivers(t)
      /\ Started' = Started /\ Holders' \subseteq Holders /\ Msg!Messages' = Msg!Messages
  <2>1. \A d \in Msg!Children :
           /\ mcpc'[d] \in {"print", "send"} => mcpc[d] \in {"print", "send"}
           /\ (mcpc'[d] = "print" \/ Msg!HasPrinted(d)') => (mcpc[d] = "print" \/ Msg!HasPrinted(d))
           /\ mcpc'[d] = "ended" <=> mcpc[d] = "ended"
    BY <1>1, <1>9, <1>10
  <2>2. \A t : Senders(t)' = Senders(t) /\ Receivers(t)' \subseteq Receivers(t)
    BY <2>1 DEF Receivers, Senders
  <2>3. Started' = Started /\ Holders' \subseteq Holders /\ Msg!Messages' = Msg!Messages
    BY <1>1, <2>1 DEF Holders, Started, Msg!Messages
  <2> QED
    BY <2>2, <2>3
<1>5. Cardinality(Holders') <= Cardinality(Holders) /\ Cardinality(Holders') \in Nat
  BY <1>4, InvMsg, FS_Subset, FS_CardinalityType
<1>6. \A t : Cardinality(Receivers(t)') <= Cardinality(Receivers(t)) /\ Cardinality(Receivers(t)') \in Nat
  BY <1>4, InvMsg, FS_Subset, FS_CardinalityType
<1>7. OneMessageEach'
  BY <1>4, <1>5, InvMsg DEF OneMessageEach
<1>8. SentBefore'
  <2> SUFFICES ASSUME NEW t \in Msg!Types, t # 1
               PROVE  mqueue[t] + Cardinality(Receivers(t)') <= Cardinality(Senders(t - 1))
    BY <1>1, <1>4 DEF SentBefore
  <2>1. mqueue[t] + Cardinality(Receivers(t)) <= Cardinality(Senders(t - 1)) /\ mqueue[t] \in Nat
    BY InvMsg DEF SentBefore
  <2>2. /\ Cardinality(Receivers(t)) \in Nat /\ Cardinality(Senders(t - 1)) \in Nat
        /\ Cardinality(Receivers(t)') <= Cardinality(Receivers(t))
        /\ Cardinality(Receivers(t)') \in Nat
    BY <1>6, InvMsg
  <2> QED
    BY <2>1, <2>2
<1> QED
  BY <1>2, <1>3, <1>7, <1>8 DEF MsgInv

-----------------------------------------------------------------------------
(* the program *)

LEMMA MsgInvariance ==
  ASSUME MsgInv, [Next]_vars
  PROVE  MsgInv'
<1>1. CASE UNCHANGED msgVars
  <2>1. UNCHANGED <<mqueue, mforked, mppc, mcpc, mprinted>>
    BY <1>1 DEF msgVars
  <2>2. MsgTypes' /\ PrintedBeforeSend'
    BY <2>1 DEF MsgInv, MsgTypes, PrintedBeforeSend, Msg!HasPrinted
  <2>3. OneMessageEach' /\ SentBefore'
    BY <2>1 DEF MsgInv, OneMessageEach, SentBefore, Msg!Messages, Holders, Started,
                Receivers, Senders, Msg!HasPrinted
  <2> QED
    BY <2>2, <2>3 DEF MsgInv
<1>2. CASE Msg!Step
  BY <1>2, ForkHolds, StartHolds, FinishHolds, ReceiveHolds, PrintHolds, SendHolds
     DEF Msg!Step, Msg!Parent, Msg!Child
<1>3. CASE \E c \in Msg!Children : Msg!Kill(c)
  BY <1>3, KillHolds
<1>4. UNCHANGED msgVars \/ Msg!Step \/ \E c \in Msg!Children : Msg!Kill(c)
  BY DEF Next, Step, Kill, Call, vars, RunShmem, RunFifo, RunSignal, RunSelect, RunNet,
         RunNewton, RunTable
<1> QED
  BY <1>1, <1>2, <1>3, <1>4

LEMMA MsgTypeOK == MsgInv => Msg!TypeOK
<1> SUFFICES ASSUME MsgInv PROVE Msg!TypeOK
  OBVIOUS
<1> USE MsgConstants
<1>1. Cardinality(Msg!Messages) <= Cardinality(Started)
  BY InvMsg DEF OneMessageEach
<1>2. ASSUME NEW j \in Jobs PROVE mprinted[j] \in Seq(0 .. ChildrenOf[j] - 1)
  <2>1. /\ mprinted[j] \in Seq(Nat) /\ ChildrenOf[j] \in Nat
        /\ \A n \in 1 .. Len(mprinted[j]) : mprinted[j][n] < ChildrenOf[j]
    BY InvMsg DEF MsgTypes
  <2>2. \A n \in 1 .. Len(mprinted[j]) : mprinted[j][n] \in 0 .. ChildrenOf[j] - 1
    BY <2>1
  <2> QED
    BY <2>1, <2>2, SeqOf
<1>3. \A j \in Jobs : mforked[j] \in 0 .. ChildrenOf[j]
  BY InvMsg DEF MsgTypes
<1> QED
  BY <1>1, <1>2, <1>3, InvMsg, MsgCardinality DEF Msg!TypeOK, Started

LEMMA MsgInTurn == MsgInv => Msg!InTurn
<1> SUFFICES ASSUME MsgInv, NEW t \in 1 .. Msg!Widest - 1
             PROVE  Msg!PrintedAt(t) >= Msg!PrintedAt(t + 1)
  BY DEF Msg!InTurn
<1> USE MsgConstants
<1> DEFINE P(k) == {c \in Msg!Children : Msg!TypeOf(c) = k /\ Msg!HasPrinted(c)}
<1>1. t \in Nat /\ t + 1 \in Msg!Types /\ t + 1 # 1 /\ (t + 1) - 1 = t
  OBVIOUS
<1>2. /\ mqueue[t + 1] \in Nat
      /\ mqueue[t + 1] + Cardinality(Receivers(t + 1)) <= Cardinality(Senders(t))
  BY <1>1, InvMsg DEF SentBefore
<1>3. Senders(t) \subseteq P(t) /\ P(t + 1) \subseteq Receivers(t + 1)
  BY InvMsg DEF PrintedBeforeSend, Senders, Receivers
<1>4. IsFiniteSet(P(t)) /\ Cardinality(P(t)) \in Nat /\ Cardinality(P(t + 1)) \in Nat
  BY FS_Subset, FS_CardinalityType
<1> HIDE DEF P
<1>5. Cardinality(Senders(t)) <= Cardinality(P(t))
  BY <1>3, <1>4, FS_Subset
<1>6. Cardinality(P(t + 1)) <= Cardinality(Receivers(t + 1))
  BY <1>3, InvMsg, FS_Subset
<1>7. Msg!PrintedAt(t) = Cardinality(P(t)) /\ Msg!PrintedAt(t + 1) = Cardinality(P(t + 1))
  BY MsgCardinality DEF P, Msg!PrintedAt
<1> QED
  BY <1>2, <1>4, <1>5, <1>6, <1>7, InvMsg

\* One sequence after the other, without an element in common.
LEMMA Joined ==
  ASSUME NEW S, NEW s \in Seq(S), NEW h \in Seq(S)
  PROVE  /\ \A x : InSeq(x, s \o h) <=> InSeq(x, s) \/ InSeq(x, h)
         /\ Once(s) /\ Once(h) /\ (\A x : ~(InSeq(x, s) /\ InSeq(x, h))) => Once(s \o h)
<1> DEFINE n == Len(s)  l == Len(h)  t == s \o h
<1>1. /\ n \in Nat /\ l \in Nat /\ Len(t) = n + l
      /\ \A k \in 1 .. n : t[k] = s[k]
      /\ \A k \in 1 .. l : t[n + k] = h[k]
  OBVIOUS
<1> HIDE DEF n, l, t
<1>2. \A k \in 1 .. (n + l) : k \in 1 .. n \/ \E e \in 1 .. l : k = n + e
  <2> SUFFICES ASSUME NEW k \in 1 .. (n + l), ~(k \in 1 .. n)
               PROVE  \E e \in 1 .. l : k = n + e
    OBVIOUS
  <2>1. k - n \in 1 .. l /\ k = n + (k - n)
    BY <1>1
  <2> QED
    BY <2>1
<1>3. (\A k \in 1 .. n : k \in 1 .. (n + l)) /\ \A k \in 1 .. l : n + k \in 1 .. (n + l)
  BY <1>1
<1>4. ASSUME NEW x PROVE InSeq(x, t) <=> InSeq(x, s) \/ InSeq(x, h)
  <2>1. InSeq(x, t) <=> \E k \in 1 .. (n + l) : t[k] = x
    BY <1>1 DEF InSeq
  <2>2. (InSeq(x, s) <=> \E k \in 1 .. n : s[k] = x) /\ (InSeq(x, h) <=> \E k \in 1 .. l : h[k] = x)
    BY DEF InSeq, n, l
  <2> QED
    BY <1>1, <1>2, <1>3, <2>1, <2>2
<1>5. ASSUME Once(s), Once(h), \A x : ~(InSeq(x, s) /\ InSeq(x, h)),
             NEW j \in 1 .. (n + l), NEW k \in 1 .. (n + l), t[j] = t[k]
      PROVE  j = k
  <2>1. /\ \A a, b \in 1 .. n : s[a] = s[b] => a = b
        /\ \A a, b \in 1 .. l : h[a] = h[b] => a = b
        /\ \A a \in 1 .. n : \A b \in 1 .. l : s[a] # h[b]
    BY <1>5 DEF Once, InSeq, n, l
  <2>2. CASE j \in 1 .. n /\ k \in 1 .. n
    BY <1>1, <1>5, <2>1, <2>2
  <2>3. ASSUME NEW a \in 1 .. l, j = n + a, NEW b \in 1 .. l, k = n + b PROVE j = k
    <3>1. h[a] = h[b]
      BY <1>1, <1>5, <2>3
    <3>2. a = b
      BY <2>1, <3>1
    <3> QED
      BY <2>3, <3>2
  <2>4. ASSUME NEW a \in 1 .. l, j = n + a, k \in 1 .. n PROVE FALSE
    <3>1. t[j] = h[a] /\ t[k] = s[k]
      BY <1>1, <2>4
    <3>2. s[k] # h[a]
      BY <2>1, <2>4
    <3> QED
      BY <1>5, <3>1, <3>2
  <2>5. ASSUME NEW b \in 1 .. l, k = n + b, j \in 1 .. n PROVE FALSE
    <3>1. t[j] = s[j] /\ t[k] = h[b]
      BY <1>1, <2>5
    <3>2. s[j] # h[b]
      BY <2>1, <2>5
    <3> QED
      BY <1>5, <3>1, <3>2
  <2> QED
    BY <1>2, <2>2, <2>3, <2>4, <2>5
<1>6. Once(s) /\ Once(h) /\ (\A x : ~(InSeq(x, s) /\ InSeq(x, h))) => Once(t)
  BY <1>1, <1>5 DEF Once
<1> QED
  BY <1>4, <1>6 DEF t

-----------------------------------------------------------------------------
(* newton: where the intervals are *)

\* The intervals of a child are those at a distance of Nprocs.
Deals(c, k) == k \in Nat /\ k >= c[2] /\ (k - c[2]) % ProcessesOf[c[1]] = 0

NewtonTypes ==
    /\ nqueue \in Seq(Newton!Computers)
    /\ nforked \in [Jobs -> Nat] /\ \A j \in Jobs : nforked[j] <= ProcessesOf[j]
    /\ nppc \in [Jobs -> {"fork", "collect", "reap", "ended"}]
    /\ ncpc \in [Newton!Computers -> {"unborn", "compute", "ended", "killed"}]
    /\ i \in [Newton!Computers -> Nat]
    /\ localsum \in [Newton!Computers -> Seq(Newton!Intervals)]
    /\ received \in [Jobs -> Nat] /\ sum \in [Jobs -> Seq(Newton!Intervals)]
    /\ senders \in [Jobs -> SUBSET Newton!Computers]

\* How far a run is, and what its collector has received.
Progress ==
    \A j \in Jobs :
        /\ \A p \in Nat : nforked[j] < p /\ p <= ProcessesOf[j] => ncpc[<<j, p>>] = "unborn"
        /\ nppc[j] = "fork" => received[j] = 0
        /\ nppc[j] = "collect" => received[j] < ProcessesOf[j]
        /\ nppc[j] \in {"reap", "ended"} => received[j] = ProcessesOf[j]

\* What a child has added: its intervals up to the one it looks at, each once.
Summed(c) ==
    /\ i[c] >= 1 /\ i[c] <= IntervalsOf[c[1]] + ProcessesOf[c[1]] /\ Deals(c, i[c])
    /\ Once(localsum[c])
    /\ \A x : InSeq(x, localsum[c]) => x[1] = c[1] /\ Deals(c, x[2]) /\ x[2] < i[c]
    /\ \A k \in Nat : Deals(c, k) /\ k < i[c] => InSeq(<<c[1], k>>, localsum[c])
    /\ ncpc[c] = "ended" => i[c] > IntervalsOf[c[1]]

LocalSums == \A c \in Newton!Computers : Summed(c)

\* A message is under way or has been received by one run, once its sender has ended.
OneReceiver ==
    /\ Once(nqueue)
    /\ \A c : InSeq(c, nqueue) => \A j \in Jobs : c \notin senders[j]
    /\ \A j, k \in Jobs : \A c : c \in senders[j] /\ c \in senders[k] => j = k
    /\ \A c \in Newton!Computers :
           ncpc[c] = "ended" <=> InSeq(c, nqueue) \/ \E j \in Jobs : c \in senders[j]

\* The sum of a run is made of what was in its messages.
Collected(j) ==
    /\ Once(sum[j])
    /\ \A x : InSeq(x, sum[j]) <=> \E c \in senders[j] : InSeq(x, localsum[c])
    /\ Cardinality(senders[j]) = received[j]

Sums == \A j \in Jobs : Collected(j)

\* No message is lost or received twice.
Taken == UNION {{j} \X (1 .. received[j]) : j \in Jobs}

EndedComputers == {c \in Newton!Computers : ncpc[c] = "ended"}

MessagesCount == /\ IsFiniteSet(Taken)
                 /\ Cardinality(Taken) + Len(nqueue) = Cardinality(EndedComputers)

NewtonInv == NewtonTypes /\ Progress /\ LocalSums /\ OneReceiver /\ Sums /\ MessagesCount

LEMMA NewtonConstants ==
  /\ IsFiniteSet(Jobs) /\ IntervalsOf \in [Jobs -> Nat]
  /\ ProcessesOf \in [Jobs -> Nat \ {0}]
  /\ \A c \in Newton!Computers : /\ c = <<c[1], c[2]>> /\ c[1] \in Jobs /\ c[2] \in Nat
                                 /\ c[2] >= 1 /\ c[2] <= ProcessesOf[c[1]]
                                 /\ ProcessesOf[c[1]] \in Nat /\ ProcessesOf[c[1]] > 0
                                 /\ IntervalsOf[c[1]] \in Nat
  /\ \A j \in Jobs : \A p \in Nat : 1 <= p /\ p <= ProcessesOf[j] => <<j, p>> \in Newton!Computers
  /\ \A x \in Newton!Intervals : /\ x = <<x[1], x[2]>> /\ x[1] \in Jobs /\ x[2] \in Nat
                                 /\ x[2] >= 1 /\ x[2] <= IntervalsOf[x[1]]
  /\ \A j \in Jobs : \A k \in Nat : 1 <= k /\ k <= IntervalsOf[j] => <<j, k>> \in Newton!Intervals
<1>1. /\ IsFiniteSet(Jobs) /\ IntervalsOf \in [Jobs -> Nat]
      /\ ProcessesOf \in [Jobs -> Nat \ {0}]
  BY ProgramsAssumption DEF Newton!JobAssumption, Newton!IsFiniteSet, IsFiniteSet
<1>2. ASSUME NEW c \in Newton!Computers
      PROVE  /\ c = <<c[1], c[2]>> /\ c[1] \in Jobs /\ c[2] \in Nat
             /\ c[2] >= 1 /\ c[2] <= ProcessesOf[c[1]]
             /\ ProcessesOf[c[1]] \in Nat /\ ProcessesOf[c[1]] > 0
             /\ IntervalsOf[c[1]] \in Nat
  <2>1. PICK j \in Jobs : c \in {j} \X (1 .. ProcessesOf[j])
    BY DEF Newton!Computers
  <2>2. ProcessesOf[j] \in Nat \ {0} /\ IntervalsOf[j] \in Nat
    BY <1>1
  <2> QED
    BY <2>1, <2>2
<1>3. ASSUME NEW x \in Newton!Intervals
      PROVE  /\ x = <<x[1], x[2]>> /\ x[1] \in Jobs /\ x[2] \in Nat
             /\ x[2] >= 1 /\ x[2] <= IntervalsOf[x[1]]
  <2>1. PICK j \in Jobs : x \in {j} \X (1 .. IntervalsOf[j])
    BY DEF Newton!Intervals
  <2>2. IntervalsOf[j] \in Nat
    BY <1>1
  <2> QED
    BY <2>1, <2>2
<1>4. ASSUME NEW j \in Jobs, NEW p \in Nat, 1 <= p, p <= ProcessesOf[j]
      PROVE  <<j, p>> \in Newton!Computers
  <2>1. <<j, p>> \in {j} \X (1 .. ProcessesOf[j])
    BY <1>1, <1>4
  <2> QED
    BY <2>1 DEF Newton!Computers
<1>5. ASSUME NEW j \in Jobs, NEW k \in Nat, 1 <= k, k <= IntervalsOf[j]
      PROVE  <<j, k>> \in Newton!Intervals
  <2>1. <<j, k>> \in {j} \X (1 .. IntervalsOf[j])
    BY <1>1, <1>5
  <2> QED
    BY <2>1 DEF Newton!Intervals
<1> QED
  BY <1>1, <1>2, <1>3, <1>4, <1>5

LEMMA PairsFinite ==
  ASSUME NEW f \in [Jobs -> Nat]
  PROVE  IsFiniteSet(UNION {{j} \X (1 .. f[j]) : j \in Jobs})
<1>1. IsFiniteSet(Jobs)
  BY NewtonConstants
<1>2. CASE Jobs = {}
  <2>1. UNION {{j} \X (1 .. f[j]) : j \in Jobs} = {}
    BY <1>2
  <2> QED
    BY <2>1, FS_EmptySet
<1>3. CASE Jobs # {}
  <2>1. HasGreatest(Jobs, f)
    BY <1>1, <1>3, Greatest
  <2>2. PICK z \in Jobs : \A y \in Jobs : f[y] <= f[z]
    BY <2>1, Zenon DEF HasGreatest
  <2>3. IsFiniteSet(Jobs \X (1 .. f[z]))
    <3>1. 1 \in Int /\ f[z] \in Int
      OBVIOUS
    <3>2. IsFiniteSet(1 .. f[z])
      BY <3>1, FS_Interval
    <3> QED
      BY <1>1, <3>2, FS_Product
  <2>4. ASSUME NEW j \in Jobs, NEW x \in {j} \X (1 .. f[j]) PROVE x \in Jobs \X (1 .. f[z])
    <3>1. f[j] \in Nat /\ f[z] \in Nat /\ f[j] <= f[z]
      BY <2>2
    <3> QED
      BY <3>1
  <2>5. UNION {{j} \X (1 .. f[j]) : j \in Jobs} \in SUBSET (Jobs \X (1 .. f[z]))
    BY <2>4
  <2> QED
    BY <2>3, <2>5, FS_Subset
<1> QED
  BY <1>2, <1>3

LEMMA Distances ==
  ASSUME NEW n \in Nat, NEW e \in Nat, NEW P \in Nat, n >= e
  PROVE  /\ (n + P) - e = (n - e) + P /\ n - e \in Nat /\ n + P >= e /\ n + P \in Nat
OBVIOUS

LEMMA Apart ==
  ASSUME NEW n \in Nat, NEW e \in Nat, NEW d \in Nat, NEW P \in Nat,
         n >= e, n >= d, e >= 1, d >= 1, e <= P, d <= P
  PROVE  /\ n - e > n - d => (n - e) - (n - d) < P
         /\ n - d > n - e => (n - d) - (n - e) < P
         /\ n - e = n - d => e = d
OBVIOUS

LEMMA Between ==
  ASSUME NEW n \in Nat, NEW k \in Nat, NEW e \in Nat, NEW P \in Nat,
         n >= e, k >= e, k < n + P, ~(k < n), k # n
  PROVE  k - e \in Nat /\ k - e > n - e /\ (k - e) - (n - e) < P
OBVIOUS

\* Every interval is dealt to one child.
LEMMA OneDealer ==
  ASSUME NEW c \in Newton!Computers, NEW d \in Newton!Computers, c[1] = d[1],
         NEW k, Deals(c, k), Deals(d, k)
  PROVE  c = d
<1> DEFINE P == ProcessesOf[c[1]]  a == k - c[2]  b == k - d[2]
<1>1. /\ P \in Nat /\ P > 0 /\ k \in Nat /\ a \in Nat /\ b \in Nat
      /\ c[2] \in Nat /\ d[2] \in Nat /\ c[2] >= 1 /\ d[2] >= 1 /\ c[2] <= P /\ d[2] <= P
      /\ a % P = 0 /\ b % P = 0
      /\ c = <<c[1], c[2]>> /\ d = <<d[1], d[2]>>
  BY NewtonConstants DEF Deals
<1>2. k >= c[2] /\ k >= d[2]
  BY DEF Deals
<1>5. (a > b => a - b < P) /\ (b > a => b - a < P) /\ (a = b => c[2] = d[2])
  <2> HIDE DEF P
  <2> QED
    BY <1>1, <1>2, Apart
<1> HIDE DEF a, b, P
<1>3. ~(a > b)
  BY <1>1, <1>5, ModDistinct
<1>4. ~(b > a)
  BY <1>1, <1>5, ModDistinct
<1> QED
  BY <1>1, <1>3, <1>4, <1>5

LEMMA SomeDealer ==
  ASSUME NEW x \in Newton!Intervals
  PROVE  \E c \in Newton!Computers : c[1] = x[1] /\ Deals(c, x[2])
<1> DEFINE P == ProcessesOf[x[1]]  n == x[2] - 1  r == n % P  q == n \div P
<1>1. P \in Nat /\ P > 0 /\ n \in Nat /\ x[1] \in Jobs /\ x[2] = n + 1
  BY NewtonConstants
<1> HIDE DEF P, n
<1>2. r \in 0 .. (P - 1) /\ q \in Nat /\ n = P * q + r
  BY <1>1, ModType
<1> HIDE DEF q
<1>3. P * q \in Nat
  BY <1>1, <1>2
<1>4. (P * q) % P = 0
  <2>1. (P * q) % P \in 0 .. (P - 1) /\ (P * q) \div P \in Nat
        /\ P * q = P * ((P * q) \div P) + ((P * q) % P)
    BY <1>1, <1>3, ModType
  <2>2. P * q + 0 = P * ((P * q) \div P) + ((P * q) % P)
    BY <1>3, <2>1
  <2>3. 0 \in 0 .. (P - 1)
    BY <1>1
  <2> QED
    BY <1>1, <1>2, <2>1, <2>2, <2>3, DivisionUnique
<1> HIDE DEF r
<1> DEFINE c == <<x[1], r + 1>>
<1>5. r + 1 \in Nat /\ 1 <= r + 1 /\ r + 1 <= P /\ x[2] - (r + 1) = P * q /\ x[2] >= r + 1
      /\ x[2] \in Nat
  BY <1>1, <1>2, <1>3
<1>6. c \in Newton!Computers
  BY <1>1, <1>5, NewtonConstants DEF P
<1>7. Deals(c, x[2])
  BY <1>4, <1>5 DEF Deals, P
<1> QED
  BY <1>6, <1>7

\* The next interval of a child.
LEMMA NextDealt ==
  ASSUME NEW c \in Newton!Computers, NEW n, Deals(c, n)
  PROVE  /\ Deals(c, n + ProcessesOf[c[1]])
         /\ \A k : Deals(c, k) /\ k < n + ProcessesOf[c[1]] => k < n \/ k = n
<1> DEFINE P == ProcessesOf[c[1]]
<1>1. /\ P \in Nat /\ P > 0 /\ n \in Nat /\ c[2] \in Nat /\ n >= c[2]
      /\ (n - c[2]) % P = 0 /\ c[2] >= 1 /\ c[2] <= P
  BY NewtonConstants DEF Deals
<1>2. (n + P) - c[2] = (n - c[2]) + P /\ n - c[2] \in Nat /\ n + P >= c[2] /\ n + P \in Nat
  <2> HIDE DEF P
  <2> QED
    BY <1>1, Distances
<1>3. ((n - c[2]) + P) % P = 0
  BY <1>1, <1>2, ModShift
<1>4. ASSUME NEW k, Deals(c, k), k < n + P, ~(k < n), k # n PROVE FALSE
  <2>1. k \in Nat /\ k >= c[2] /\ (k - c[2]) % P = 0
    BY <1>4 DEF Deals
  <2>2. k - c[2] \in Nat /\ k - c[2] > n - c[2] /\ (k - c[2]) - (n - c[2]) < P
    <3> HIDE DEF P
    <3> QED
      BY <1>1, <1>4, <2>1, Between
  <2> HIDE DEF P
  <2> QED
    BY <1>1, <1>2, <2>1, <2>2, ModDistinct
<1> QED
  BY <1>2, <1>3, <1>4 DEF Deals

LEMMA NewtonInit == Newton!Init => NewtonInv
<1> SUFFICES ASSUME Newton!Init PROVE NewtonInv
  OBVIOUS
<1> USE NewtonConstants
<1>1. /\ nqueue = <<>> /\ nforked = [j \in Jobs |-> 0] /\ nppc = [j \in Jobs |-> "fork"]
      /\ ncpc = [c \in Newton!Computers |-> "unborn"] /\ i = [c \in Newton!Computers |-> c[2]]
      /\ localsum = [c \in Newton!Computers |-> <<>>]
      /\ received = [j \in Jobs |-> 0] /\ sum = [j \in Jobs |-> <<>>]
      /\ senders = [j \in Jobs |-> {}]
  BY DEF Newton!Init
<1>2. /\ <<>> \in Seq(Newton!Intervals) /\ Len(<<>>) = 0
      /\ <<>> \in Seq(Newton!Computers)
  OBVIOUS
<1>3. NewtonTypes
  <2>1. i \in [Newton!Computers -> Nat]
    BY <1>1
  <2>2. localsum \in [Newton!Computers -> Seq(Newton!Intervals)]
    BY <1>1, <1>2
  <2>3. /\ nforked \in [Jobs -> Nat] /\ \A j \in Jobs : nforked[j] <= ProcessesOf[j]
        /\ received \in [Jobs -> Nat] /\ sum \in [Jobs -> Seq(Newton!Intervals)]
        /\ senders \in [Jobs -> SUBSET Newton!Computers]
    BY <1>1, <1>2
  <2> QED
    BY <1>1, <1>2, <2>1, <2>2, <2>3 DEF NewtonTypes
<1>4. Progress
  <2> SUFFICES ASSUME NEW j \in Jobs
               PROVE /\ \A p \in Nat : nforked[j] < p /\ p <= ProcessesOf[j] => ncpc[<<j, p>>] = "unborn"
                     /\ nppc[j] = "fork" /\ received[j] = 0
    BY DEF Progress
  <2>1. \A p \in Nat : 0 < p => 1 <= p
    OBVIOUS
  <2>2. nforked[j] = 0
    BY <1>1
  <2>3. \A p \in Nat : nforked[j] < p /\ p <= ProcessesOf[j] => <<j, p>> \in Newton!Computers
    BY <2>1, <2>2
  <2> QED
    BY <1>1, <2>3
<1>5. ASSUME NEW c \in Newton!Computers PROVE Summed(c)
  <2>1. i[c] = c[2] /\ localsum[c] = <<>> /\ ncpc[c] = "unborn"
    BY <1>1
  <2>2. c[2] >= 1 /\ c[2] <= IntervalsOf[c[1]] + ProcessesOf[c[1]]
    OBVIOUS
  <2>3. Deals(c, c[2])
    <3>1. c[2] - c[2] = 0 /\ ProcessesOf[c[1]] \in Nat /\ ProcessesOf[c[1]] > 0
      OBVIOUS
    <3>2. 0 % ProcessesOf[c[1]] = 0
      <4> DEFINE P == ProcessesOf[c[1]]
      <4>1. P \in Nat /\ P > 0 /\ 0 \in Nat
        BY <3>1
      <4> HIDE DEF P
      <4>2. 0 % P \in 0 .. (P - 1) /\ 0 \div P \in Nat /\ 0 = P * (0 \div P) + (0 % P)
        BY <4>1, ModType
      <4>3. P * 0 + 0 = P * (0 \div P) + (0 % P) /\ 0 \in 0 .. (P - 1)
        BY <4>1, <4>2
      <4>4. 0 = 0 % P
        BY <4>1, <4>2, <4>3, DivisionUnique
      <4> QED
        BY <4>4 DEF P
    <3> QED
      BY <3>1, <3>2 DEF Deals
  <2>4. Once(<<>>) /\ \A x : ~InSeq(x, <<>>)
    BY <1>2 DEF Once, InSeq
  <2>5. \A k \in Nat : Deals(c, k) => ~(k < c[2])
    BY DEF Deals
  <2> QED
    BY <2>1, <2>2, <2>3, <2>4, <2>5 DEF Summed
<1>6. OneReceiver /\ Sums
  <2>1. Once(<<>>) /\ \A x : ~InSeq(x, <<>>)
    BY <1>2 DEF Once, InSeq
  <2>2. OneReceiver
    BY <1>1, <2>1 DEF OneReceiver
  <2>3. ASSUME NEW j \in Jobs PROVE Collected(j)
    BY <1>1, <2>1, FS_EmptySet DEF Collected
  <2> QED
    BY <2>2, <2>3 DEF Sums
<1>7. MessagesCount
  <2>1. Taken = {} /\ EndedComputers = {} /\ Len(nqueue) = 0
    BY <1>1, <1>2 DEF Taken, EndedComputers
  <2> QED
    BY <2>1, FS_EmptySet DEF MessagesCount
<1> QED
  BY <1>3, <1>4, <1>5, <1>6, <1>7 DEF NewtonInv, LocalSums

\* The facts of the invariant that the steps use.
LEMMA InvNewton ==
  ASSUME NewtonInv
  PROVE  /\ NewtonTypes /\ Progress /\ LocalSums /\ OneReceiver /\ Sums /\ MessagesCount
         /\ nqueue \in Seq(Newton!Computers) /\ Len(nqueue) \in Nat
         /\ nforked \in [Jobs -> Nat] /\ nppc \in [Jobs -> {"fork", "collect", "reap", "ended"}]
         /\ ncpc \in [Newton!Computers -> {"unborn", "compute", "ended", "killed"}]
         /\ i \in [Newton!Computers -> Nat]
         /\ localsum \in [Newton!Computers -> Seq(Newton!Intervals)]
         /\ received \in [Jobs -> Nat] /\ sum \in [Jobs -> Seq(Newton!Intervals)]
         /\ senders \in [Jobs -> SUBSET Newton!Computers]
         /\ IsFiniteSet(Newton!Computers)
         /\ IsFiniteSet(EndedComputers) /\ Cardinality(EndedComputers) \in Nat
         /\ IsFiniteSet(Taken) /\ Cardinality(Taken) \in Nat
<1>1. NewtonTypes /\ Progress /\ LocalSums /\ OneReceiver /\ Sums /\ MessagesCount
  BY DEF NewtonInv
<1>2. IsFiniteSet(Newton!Computers)
  <2>1. ProcessesOf \in [Jobs -> Nat]
    BY NewtonConstants
  <2>2. IsFiniteSet(UNION {{j} \X (1 .. ProcessesOf[j]) : j \in Jobs})
    BY <2>1, PairsFinite
  <2> QED
    BY <2>2 DEF Newton!Computers
<1>3. EndedComputers \in SUBSET Newton!Computers
  BY DEF EndedComputers
<1>4. IsFiniteSet(EndedComputers) /\ Cardinality(EndedComputers) \in Nat
  BY <1>2, <1>3, FS_Subset, FS_CardinalityType
<1>5. IsFiniteSet(Taken) /\ Cardinality(Taken) \in Nat
  BY <1>1, FS_CardinalityType DEF MessagesCount
<1>6. Len(nqueue) \in Nat
  BY <1>1 DEF NewtonTypes
<1> QED
  BY <1>1, <1>2, <1>4, <1>5, <1>6 DEF NewtonTypes

\* As long as nobody ends, nothing is added and nothing sent or received.
LEMMA SameEnded ==
  ASSUME NewtonInv, UNCHANGED <<nqueue, i, localsum, received, sum, senders>>,
         \A c \in Newton!Computers : ncpc'[c] = "ended" <=> ncpc[c] = "ended"
  PROVE  LocalSums' /\ OneReceiver' /\ Sums' /\ MessagesCount'
<1>1. LocalSums'
  <2> SUFFICES ASSUME NEW c \in Newton!Computers PROVE Summed(c)'
    BY DEF LocalSums
  <2>1. Summed(c)
    BY InvNewton DEF LocalSums
  <2> QED
    BY <2>1 DEF Summed
<1>2. OneReceiver' /\ Sums'
  <2>1. OneReceiver /\ Sums
    BY InvNewton
  <2> QED
    BY <2>1 DEF OneReceiver, Sums, Collected
<1>3. MessagesCount'
  <2>1. Taken' = Taken /\ EndedComputers' = EndedComputers
    BY DEF Taken, EndedComputers
  <2> QED
    BY <2>1, InvNewton DEF MessagesCount
<1> QED
  BY <1>1, <1>2, <1>3

-----------------------------------------------------------------------------
(* a run's parent *)

LEMMA NewtonForkHolds ==
  ASSUME NewtonInv, NEW j \in Jobs, Newton!Fork(j)
  PROVE  NewtonInv'
<1> USE NewtonConstants
<1> DEFINE c == <<j, nforked[j] + 1>>
<1>1. /\ nppc[j] = "fork" /\ nforked[j] < ProcessesOf[j]
      /\ nforked' = [nforked EXCEPT ![j] = @ + 1]
      /\ ncpc' = [ncpc EXCEPT ![c] = "compute"]
      /\ UNCHANGED <<nqueue, nppc, i, localsum, received, sum, senders>>
  BY DEF Newton!Fork
<1>2. nforked[j] \in Nat /\ ProcessesOf[j] \in Nat
  BY InvNewton
<1>3. /\ nforked[j] + 1 \in Nat /\ 1 <= nforked[j] + 1 /\ nforked[j] + 1 <= ProcessesOf[j]
      /\ nforked[j] < nforked[j] + 1
  BY <1>1, <1>2
<1>4. c \in Newton!Computers /\ ncpc[c] = "unborn"
  BY <1>3, InvNewton DEF Progress
<1>5. \A d \in Newton!Computers : d # c => ncpc'[d] = ncpc[d]
  BY <1>1, <1>4, InvNewton
<1>6. ncpc'[c] = "compute"
  BY <1>1, <1>4, InvNewton
<1>7. nforked'[j] = nforked[j] + 1 /\ \A q \in Jobs : q # j => nforked'[q] = nforked[q]
  BY <1>1, InvNewton
<1> HIDE DEF c
<1>8. NewtonTypes'
  <2>1. nforked' \in [Jobs -> Nat]
    BY <1>1, <1>3, InvNewton
  <2>2. \A q \in Jobs : nforked'[q] <= ProcessesOf[q]
    BY <1>3, <1>7, InvNewton DEF NewtonTypes
  <2>3. ncpc' \in [Newton!Computers -> {"unborn", "compute", "ended", "killed"}]
    BY <1>1, InvNewton
  <2> QED
    BY <1>1, <2>1, <2>2, <2>3, InvNewton DEF NewtonTypes
<1>9. Progress'
  <2>1. ASSUME NEW q \in Jobs, NEW p \in Nat, nforked'[q] < p, p <= ProcessesOf[q]
        PROVE  ncpc'[<<q, p>>] = "unborn"
    <3>1. nforked[q] < p /\ <<q, p>> # c /\ 1 <= p
      <4>1. CASE q = j
        <5>1. nforked[j] + 1 < p
          BY <1>7, <2>1, <4>1
        <5>2. nforked[j] < p /\ p # nforked[j] + 1 /\ 1 <= p
          BY <1>2, <5>1
        <5> QED
          BY <4>1, <5>2 DEF c
      <4>2. CASE q # j
        <5>1. nforked[q] < p /\ nforked[q] \in Nat
          BY <1>7, <2>1, <4>2, InvNewton
        <5> QED
          BY <4>2, <5>1 DEF c
      <4> QED
        BY <4>1, <4>2
    <3>2. ncpc[<<q, p>>] = "unborn" /\ <<q, p>> \in Newton!Computers
      BY <2>1, <3>1, InvNewton DEF Progress
    <3> QED
      BY <1>5, <3>1, <3>2
  <2> QED
    BY <1>1, <2>1, InvNewton DEF Progress
<1>10. \A d \in Newton!Computers : ncpc'[d] = "ended" <=> ncpc[d] = "ended"
  BY <1>4, <1>5, <1>6
<1> QED
  BY <1>1, <1>8, <1>9, <1>10, SameEnded DEF NewtonInv

\* Forked and Reap.
LEMMA ParentHolds ==
  ASSUME NewtonInv, NEW j \in Jobs, Newton!Forked(j) \/ Newton!Reap(j)
  PROVE  NewtonInv'
<1> USE NewtonConstants
<1>1. /\ UNCHANGED <<nqueue, nforked, ncpc, i, localsum, received, sum, senders>>
      /\ \/ nppc[j] = "fork" /\ nppc' = [nppc EXCEPT ![j] = "collect"]
         \/ nppc[j] = "reap" /\ nppc' = [nppc EXCEPT ![j] = "ended"]
  BY DEF Newton!Forked, Newton!Reap, Newton!procs
<1>2. NewtonTypes'
  <2>1. nppc' \in [Jobs -> {"fork", "collect", "reap", "ended"}]
    BY <1>1, InvNewton
  <2> QED
    BY <1>1, <2>1, InvNewton DEF NewtonTypes
<1>3. Progress'
  <2>1. \A q \in Jobs : q # j => nppc'[q] = nppc[q]
    BY <1>1, InvNewton
  <2>2. /\ \/ nppc'[j] = "collect" /\ nppc[j] = "fork"
           \/ nppc'[j] = "ended" /\ nppc[j] = "reap"
        /\ ProcessesOf[j] > 0 /\ ProcessesOf[j] \in Nat
    BY <1>1, InvNewton
  <2>3. Progress
    BY InvNewton
  <2> SUFFICES ASSUME NEW q \in Jobs
               PROVE  /\ nppc'[q] = "fork" => received[q] = 0
                      /\ nppc'[q] = "collect" => received[q] < ProcessesOf[q]
                      /\ nppc'[q] \in {"reap", "ended"} => received[q] = ProcessesOf[q]
    BY <1>1, <2>3 DEF Progress
  <2>4. CASE q = j
    BY <2>2, <2>3, <2>4 DEF Progress
  <2>5. CASE q # j
    BY <2>1, <2>3, <2>5 DEF Progress
  <2> QED
    BY <2>4, <2>5
<1> QED
  BY <1>1, <1>2, <1>3, SameEnded DEF NewtonInv

-----------------------------------------------------------------------------
(* a child *)

LEMMA NewtonKillHolds ==
  ASSUME NewtonInv, NEW c \in Newton!Computers, Newton!Kill(c)
  PROVE  NewtonInv'
<1> USE NewtonConstants
<1>1. /\ ncpc[c] = "compute" /\ ncpc' = [ncpc EXCEPT ![c] = "killed"]
      /\ UNCHANGED <<nqueue, nforked, nppc, i, localsum, received, sum, senders>>
  BY DEF Newton!Kill
<1>2. ncpc'[c] = "killed" /\ \A d \in Newton!Computers : d # c => ncpc'[d] = ncpc[d]
  BY <1>1, InvNewton
<1>3. NewtonTypes'
  <2>1. ncpc' \in [Newton!Computers -> {"unborn", "compute", "ended", "killed"}]
    BY <1>1, InvNewton
  <2> QED
    BY <1>1, <2>1, InvNewton DEF NewtonTypes
<1>4. Progress'
  <2>1. ASSUME NEW q \in Jobs, NEW p \in Nat, nforked[q] < p, p <= ProcessesOf[q]
        PROVE  ncpc'[<<q, p>>] = "unborn"
    <3>0. nforked[q] \in Nat
      BY InvNewton
    <3>1. 1 <= p
      BY <2>1, <3>0
    <3>2. ncpc[<<q, p>>] = "unborn" /\ <<q, p>> \in Newton!Computers
      BY <2>1, <3>1, InvNewton DEF Progress
    <3> QED
      BY <1>1, <1>2, <3>2
  <2> QED
    BY <1>1, <2>1, InvNewton DEF Progress
<1>5. \A d \in Newton!Computers : ncpc'[d] = "ended" <=> ncpc[d] = "ended"
  BY <1>1, <1>2
<1> QED
  BY <1>1, <1>3, <1>4, <1>5, SameEnded DEF NewtonInv

LEMMA ComputeHolds ==
  ASSUME NewtonInv, NEW c \in Newton!Computers, Newton!Compute(c)
  PROVE  NewtonInv'
<1> USE NewtonConstants
<1> DEFINE x0 == <<c[1], i[c]>>  P == ProcessesOf[c[1]]
<1>1. /\ ncpc[c] = "compute" /\ i[c] <= IntervalsOf[c[1]]
      /\ localsum' = [localsum EXCEPT ![c] = Append(@, x0)]
      /\ i' = [i EXCEPT ![c] = @ + P]
      /\ UNCHANGED <<nqueue, nforked, ncpc, nppc, received, sum, senders>>
  BY DEF Newton!Compute, Newton!procs
<1>2. Summed(c)
  BY InvNewton DEF LocalSums
<1>3. x0 \in Newton!Intervals /\ i[c] \in Nat /\ P \in Nat
  BY <1>1, <1>2, InvNewton DEF Summed
<1> DEFINE s == localsum[c]
<1>4. s \in Seq(Newton!Intervals) /\ Append(s, x0) \in Seq(Newton!Intervals)
  BY <1>3, InvNewton
<1>5. /\ localsum'[c] = Append(s, x0) /\ i'[c] = i[c] + P /\ i[c] + P \in Nat
      /\ \A d \in Newton!Computers : d # c => localsum'[d] = localsum[d] /\ i'[d] = i[d]
  BY <1>1, <1>3, InvNewton
<1>6. NewtonTypes'
  <2>1. localsum' \in [Newton!Computers -> Seq(Newton!Intervals)]
    BY <1>1, <1>4, InvNewton
  <2>2. i' \in [Newton!Computers -> Nat]
    BY <1>1, <1>5, InvNewton
  <2> QED
    BY <1>1, <2>1, <2>2, InvNewton DEF NewtonTypes
<1>7. Progress'
  BY <1>1, InvNewton DEF Progress
<1>8. Summed(c)'
  <2> HIDE DEF s
  <2>1. ~InSeq(x0, s)
    <3>1. InSeq(x0, s) => i[c] < i[c]
      BY <1>2 DEF Summed, s
    <3> QED
      BY <1>3, <3>1
  <2>2. /\ \A t : InSeq(t, Append(s, x0)) <=> InSeq(t, s) \/ t = x0
        /\ Once(Append(s, x0))
    <3>1. Once(s) /\ s \in Seq(Newton!Intervals) /\ x0 \in Newton!Intervals
      BY <1>2, <1>3, <1>4 DEF Summed, s
    <3> HIDE DEF x0
    <3> QED
      BY <2>1, <3>1, InSeqAppend
  <2>3. Deals(c, i[c]) /\ Deals(c, i[c] + P)
        /\ \A k : Deals(c, k) /\ k < i[c] + P => k < i[c] \/ k = i[c]
    <3>1. Deals(c, i[c])
      BY <1>2 DEF Summed
    <3> QED
      BY <3>1, NextDealt
  <2>4. i[c] + P >= 1 /\ i[c] + P <= IntervalsOf[c[1]] + P /\ i[c] < i[c] + P
    <3>1. i[c] \in Nat /\ IntervalsOf[c[1]] \in Nat /\ P \in Nat /\ P > 0
      BY <1>3
    <3> HIDE DEF P
    <3> QED
      BY <1>1, <3>1
  <2>5. \A x : InSeq(x, Append(s, x0)) => x[1] = c[1] /\ Deals(c, x[2]) /\ x[2] < i[c] + P
    <3>1. \A x : InSeq(x, s) => x[1] = c[1] /\ Deals(c, x[2]) /\ x[2] < i[c]
      BY <1>2 DEF Summed, s
    <3>2. \A n \in Nat : n < i[c] => n < i[c] + P
      BY <1>3, <2>4
    <3>3. \A x : Deals(c, x[2]) => x[2] \in Nat
      BY DEF Deals
    <3>4. x0[1] = c[1] /\ x0[2] = i[c]
      OBVIOUS
    <3> HIDE DEF x0, P
    <3> QED
      BY <2>2, <2>3, <2>4, <3>1, <3>2, <3>3, <3>4
  <2>6. \A k \in Nat : Deals(c, k) /\ k < i[c] + P => InSeq(<<c[1], k>>, Append(s, x0))
    <3>1. \A k \in Nat : Deals(c, k) /\ k < i[c] => InSeq(<<c[1], k>>, s)
      BY <1>2 DEF Summed, s
    <3> QED
      BY <2>2, <2>3, <3>1
  <2>7. ncpc'[c] # "ended"
    BY <1>1
  <2>8. \A k : Deals(c, k)' <=> Deals(c, k)
    BY DEF Deals
  <2> QED
    BY <1>5, <2>2, <2>3, <2>4, <2>5, <2>6, <2>7, <2>8 DEF Summed, s
<1>9. LocalSums'
  <2> SUFFICES ASSUME NEW d \in Newton!Computers, d # c PROVE Summed(d)'
    BY <1>8 DEF LocalSums
  <2>1. Summed(d) /\ localsum'[d] = localsum[d] /\ i'[d] = i[d] /\ ncpc' = ncpc
    BY <1>1, <1>5, InvNewton DEF LocalSums
  <2> QED
    BY <2>1 DEF Summed
<1>10. OneReceiver' /\ Sums'
  <2>1. OneReceiver /\ Sums
    BY InvNewton
  <2>2. OneReceiver'
    BY <1>1, <2>1 DEF OneReceiver
  <2>3. ASSUME NEW j \in Jobs PROVE Collected(j)'
    <3>1. Collected(j)
      BY <2>1 DEF Sums
    <3>2. \A d \in senders[j] : d \in Newton!Computers /\ d # c
      BY <1>1, <2>1, InvNewton DEF OneReceiver
    <3>3. \A d \in senders[j] : localsum'[d] = localsum[d]
      BY <1>5, <3>2
    <3> QED
      BY <1>1, <3>1, <3>3 DEF Collected
  <2> QED
    BY <2>2, <2>3 DEF Sums
<1>11. MessagesCount'
  BY <1>1, InvNewton DEF MessagesCount, Taken, EndedComputers
<1> QED
  BY <1>6, <1>7, <1>9, <1>10, <1>11 DEF NewtonInv

\* The sender is the only one to bring a message of its own into the queue.
LEMMA SendSumHolds ==
  ASSUME NewtonInv, NEW c \in Newton!Computers, Newton!SendSum(c)
  PROVE  NewtonInv'
<1> USE NewtonConstants
<1> DEFINE s == localsum[c]  m == Len(nqueue)
<1>1. /\ ncpc[c] = "compute" /\ i[c] > IntervalsOf[c[1]]
      /\ nqueue' = Append(nqueue, c)
      /\ ncpc' = [ncpc EXCEPT ![c] = "ended"]
      /\ UNCHANGED <<nforked, nppc, i, localsum, received, sum, senders>>
  BY DEF Newton!SendSum
<1>2. ncpc'[c] = "ended" /\ \A d \in Newton!Computers : d # c => ncpc'[d] = ncpc[d]
  BY <1>1, InvNewton
<1>3. s \in Seq(Newton!Intervals) /\ m \in Nat
  BY InvNewton
<1>4. nqueue' \in Seq(Newton!Computers) /\ Len(nqueue') = m + 1
  BY <1>1, <1>3, InvNewton, AppendElements
<1>5. NewtonTypes'
  <2>1. ncpc' \in [Newton!Computers -> {"unborn", "compute", "ended", "killed"}]
    BY <1>1, InvNewton
  <2> QED
    BY <1>1, <1>4, <2>1, InvNewton DEF NewtonTypes
<1>6. Progress'
  <2>1. ASSUME NEW q \in Jobs, NEW p \in Nat, nforked[q] < p, p <= ProcessesOf[q]
        PROVE  ncpc'[<<q, p>>] = "unborn"
    <3>0. nforked[q] \in Nat
      BY InvNewton
    <3>1. 1 <= p
      BY <2>1, <3>0
    <3>2. ncpc[<<q, p>>] = "unborn" /\ <<q, p>> \in Newton!Computers
      BY <2>1, <3>1, InvNewton DEF Progress
    <3> QED
      BY <1>1, <1>2, <3>2
  <2> QED
    BY <1>1, <2>1, InvNewton DEF Progress
<1>7. LocalSums'
  <2> SUFFICES ASSUME NEW d \in Newton!Computers PROVE Summed(d)'
    BY DEF LocalSums
  <2>1. Summed(d)
    BY InvNewton DEF LocalSums
  <2>2. ncpc'[d] = "ended" => ncpc[d] = "ended" \/ d = c
    BY <1>2
  <2> QED
    BY <1>1, <2>1, <2>2 DEF Summed
<1>8. OneReceiver
  BY InvNewton
<1>9. ~InSeq(c, nqueue) /\ \A j \in Jobs : c \notin senders[j]
  BY <1>1, <1>8 DEF OneReceiver
<1>10. /\ \A t : InSeq(t, nqueue') <=> InSeq(t, nqueue) \/ t = c
       /\ Once(nqueue')
  BY <1>1, <1>8, <1>9, InvNewton, InSeqAppend DEF OneReceiver
<1>11. OneReceiver'
  <2>1. \A d \in Newton!Computers : ncpc'[d] = "ended" <=> ncpc[d] = "ended" \/ d = c
    BY <1>2
  <2> QED
    BY <1>1, <1>8, <1>9, <1>10, <2>1 DEF OneReceiver
<1>12. Sums'
  <2>1. Sums
    BY InvNewton
  <2> QED
    BY <1>1, <2>1 DEF Sums, Collected
<1>13. MessagesCount'
  <2>1. Taken' = Taken
    BY <1>1 DEF Taken
  <2>2. EndedComputers' = EndedComputers \cup {c} /\ c \notin EndedComputers
    BY <1>1, <1>2 DEF EndedComputers
  <2>3. Cardinality(EndedComputers') = Cardinality(EndedComputers) + 1
    BY <2>2, InvNewton, FS_AddElement
  <2> QED
    BY <1>3, <1>4, <2>1, <2>3, InvNewton DEF MessagesCount
<1> QED
  BY <1>5, <1>6, <1>7, <1>11, <1>12, <1>13 DEF NewtonInv

\* What the first message brings goes to the end of the receiver's sum.
LEMMA CollectHolds ==
  ASSUME NewtonInv, NEW j \in Jobs, Newton!Collect(j)
  PROVE  NewtonInv'
<1> USE NewtonConstants
<1> DEFINE front == Head(nqueue)  h == localsum[front]  m == Len(nqueue)  s == sum[j]
<1>1. /\ nppc[j] = "collect" /\ nqueue # <<>>
      /\ nqueue' = Tail(nqueue)
      /\ sum' = [sum EXCEPT ![j] = s \o h]
      /\ senders' = [senders EXCEPT ![j] = @ \cup {front}]
      /\ received' = [received EXCEPT ![j] = @ + 1]
      /\ nppc' = IF received'[j] < ProcessesOf[j] THEN nppc ELSE [nppc EXCEPT ![j] = "reap"]
      /\ UNCHANGED <<nforked, ncpc, i, localsum>>
  BY DEF Newton!Collect, Newton!procs
<1>2. /\ m \in Nat /\ m > 0 /\ front \in Newton!Computers
      /\ nqueue' \in Seq(Newton!Computers) /\ Len(nqueue') = m - 1
  BY <1>1, InvNewton, TailElements
<1> HIDE DEF front
<1>3. /\ s \in Seq(Newton!Intervals) /\ h \in Seq(Newton!Intervals)
      /\ received[j] \in Nat /\ senders[j] \in SUBSET Newton!Computers
  BY <1>2, InvNewton
<1>4. s \o h \in Seq(Newton!Intervals)
  BY <1>3
<1> HIDE DEF h, s
<1>5. /\ sum'[j] = s \o h /\ received'[j] = received[j] + 1
      /\ \A q \in Jobs : q # j => sum'[q] = sum[q] /\ received'[q] = received[q] /\ nppc'[q] = nppc[q]
      /\ sum' \in [Jobs -> Seq(Newton!Intervals)] /\ received' \in [Jobs -> Nat]
      /\ senders'[j] = senders[j] \cup {front} /\ \A q \in Jobs : q # j => senders'[q] = senders[q]
      /\ senders' \in [Jobs -> SUBSET Newton!Computers]
      /\ nppc' \in [Jobs -> {"fork", "collect", "reap", "ended"}]
  <2>1. received[j] + 1 \in Nat
    BY <1>3
  <2>2. /\ sum'[j] = s \o h /\ \A q \in Jobs : q # j => sum'[q] = sum[q]
        /\ sum' \in [Jobs -> Seq(Newton!Intervals)]
    BY <1>1, <1>4, InvNewton
  <2>3. /\ received'[j] = received[j] + 1
        /\ \A q \in Jobs : q # j => received'[q] = received[q]
        /\ received' \in [Jobs -> Nat]
    BY <1>1, <2>1, InvNewton
  <2>4. /\ \A q \in Jobs : q # j => nppc'[q] = nppc[q]
        /\ nppc' \in [Jobs -> {"fork", "collect", "reap", "ended"}]
    BY <1>1, InvNewton
  <2>5. /\ senders'[j] = senders[j] \cup {front} /\ \A q \in Jobs : q # j => senders'[q] = senders[q]
        /\ senders' \in [Jobs -> SUBSET Newton!Computers]
    BY <1>1, <1>2, <1>3, InvNewton
  <2> QED
    BY <2>2, <2>3, <2>4, <2>5
<1>6. NewtonTypes'
  BY <1>1, <1>2, <1>5, InvNewton DEF NewtonTypes
<1>7. Progress'
  <2>1. Progress
    BY InvNewton
  <2> SUFFICES ASSUME NEW q \in Jobs
               PROVE  /\ nppc'[q] = "fork" => received'[q] = 0
                      /\ nppc'[q] = "collect" => received'[q] < ProcessesOf[q]
                      /\ nppc'[q] \in {"reap", "ended"} => received'[q] = ProcessesOf[q]
    BY <1>1, <2>1 DEF Progress
  <2>2. CASE q = j
    <3>1. received[j] < ProcessesOf[j] /\ received[j] \in Nat /\ ProcessesOf[j] \in Nat
      BY <1>1, <1>3, <2>1 DEF Progress
    <3>2. received[j] + 1 <= ProcessesOf[j]
      BY <3>1
    <3>3. CASE received'[j] < ProcessesOf[j]
      BY <1>1, <1>5, <2>2, <3>3
    <3>4. CASE ~(received'[j] < ProcessesOf[j])
      <4>1. received'[j] = ProcessesOf[j]
        BY <1>5, <3>1, <3>2, <3>4
      <4>2. nppc'[j] = "reap"
        BY <1>1, <3>4, InvNewton
      <4> QED
        BY <2>2, <4>1, <4>2
    <3> QED
      BY <3>3, <3>4
  <2>3. CASE q # j
    BY <1>5, <2>1, <2>3 DEF Progress
  <2> QED
    BY <2>2, <2>3
<1>8. LocalSums'
  <2> SUFFICES ASSUME NEW c \in Newton!Computers PROVE Summed(c)'
    BY DEF LocalSums
  <2>1. Summed(c)
    BY InvNewton DEF LocalSums
  <2> QED
    BY <1>1, <2>1 DEF Summed
<1>9. OneReceiver /\ Sums
  BY InvNewton
<1>10. /\ front \in Newton!Computers /\ InSeq(front, nqueue) /\ Once(nqueue')
       /\ \A t : InSeq(t, nqueue') <=> InSeq(t, nqueue) /\ t # front
  <2>1. nqueue \in Seq(Newton!Computers) /\ nqueue # <<>> /\ Once(nqueue)
    BY <1>1, <1>9, InvNewton DEF OneReceiver
  <2>2. /\ \A t : InSeq(t, nqueue) <=> InSeq(t, Tail(nqueue)) \/ t = Head(nqueue)
        /\ Once(Tail(nqueue)) /\ ~InSeq(Head(nqueue), Tail(nqueue))
    BY <2>1, InSeqTail
  <2> QED
    BY <1>1, <1>2, <2>2 DEF front
<1>11. front \notin senders[j] /\ \A q \in Jobs : front \notin senders[q]
  BY <1>9, <1>10 DEF OneReceiver
<1>12. OneReceiver'
  <2>1. \A q \in Jobs : \A c : c \in senders'[q] <=> c \in senders[q] \/ (q = j /\ c = front)
    BY <1>5
  <2>2. \A c : InSeq(c, nqueue') => \A q \in Jobs : c \notin senders'[q]
    BY <1>9, <1>10, <2>1 DEF OneReceiver
  <2>3. \A q, k \in Jobs : \A c : c \in senders'[q] /\ c \in senders'[k] => q = k
    BY <1>9, <1>11, <2>1 DEF OneReceiver
  <2>4. ASSUME NEW c \in Newton!Computers
        PROVE  ncpc'[c] = "ended" <=> InSeq(c, nqueue') \/ \E q \in Jobs : c \in senders'[q]
    <3>1. ncpc[c] = "ended" <=> InSeq(c, nqueue) \/ \E q \in Jobs : c \in senders[q]
      BY <1>9 DEF OneReceiver
    <3> QED
      BY <1>1, <1>10, <2>1, <3>1
  <2> QED
    BY <1>10, <2>2, <2>3, <2>4 DEF OneReceiver
<1>13. ASSUME NEW q \in Jobs PROVE Collected(q)'
  <2>1. Collected(q)
    BY <1>9 DEF Sums
  <2>2. CASE q # j
    BY <1>1, <1>5, <2>1, <2>2 DEF Collected
  <2>3. CASE q = j
    <3>1. Once(s) /\ Once(h)
      BY <1>2, <2>1, <2>3, InvNewton DEF Collected, LocalSums, Summed, s, h
    <3>2. \A x : InSeq(x, s) <=> \E c \in senders[j] : InSeq(x, localsum[c])
      BY <2>1, <2>3 DEF Collected, s
    <3>3. ASSUME NEW x, InSeq(x, s), InSeq(x, h) PROVE FALSE
      <4>1. PICK c \in senders[j] : InSeq(x, localsum[c])
        BY <3>2, <3>3
      <4>2. c \in Newton!Computers /\ Summed(c) /\ Summed(front)
        BY <1>2, <1>3, InvNewton DEF LocalSums
      <4>3. InSeq(x, localsum[front])
        BY <3>3 DEF h
      <4>4. x[1] = c[1] /\ Deals(c, x[2]) /\ x[1] = front[1] /\ Deals(front, x[2])
        BY <4>1, <4>2, <4>3 DEF Summed
      <4>5. c = front
        BY <1>2, <4>2, <4>4, OneDealer
      <4> QED
        BY <1>11, <4>1, <4>5
    <3>4. Once(s \o h) /\ \A x : InSeq(x, s \o h) <=> InSeq(x, s) \/ InSeq(x, h)
      BY <1>3, <3>1, <3>3, Joined
    <3>5. \A x : InSeq(x, sum'[j]) <=> \E c \in senders'[j] : InSeq(x, localsum'[c])
      BY <1>1, <1>5, <3>2, <3>4 DEF h
    <3>6. Cardinality(senders'[j]) = received'[j]
      <4>1. IsFiniteSet(senders[j])
        BY <1>3, InvNewton, FS_Subset
      <4>2. Cardinality(senders[j] \cup {front}) = Cardinality(senders[j]) + 1
        BY <1>11, <4>1, FS_AddElement
      <4>3. Cardinality(senders[j]) = received[j]
        BY <2>1, <2>3 DEF Collected
      <4> QED
        BY <1>5, <4>2, <4>3
    <3> QED
      BY <1>5, <2>3, <3>4, <3>5, <3>6 DEF Collected
  <2> QED
    BY <2>2, <2>3
<1>14. MessagesCount'
  <2> DEFINE e == <<j, received[j] + 1>>
  <2>1. Taken' = Taken \cup {e}
    <3>1. \A x : x \in Taken <=> \E q \in Jobs : x \in {q} \X (1 .. received[q])
      BY DEF Taken
    <3>2. \A x : x \in Taken' <=> \E q \in Jobs : x \in {q} \X (1 .. received'[q])
      BY DEF Taken
    <3>3. {j} \X (1 .. received'[j]) = ({j} \X (1 .. received[j])) \cup {e}
      <4>1. 1 .. received'[j] = (1 .. received[j]) \cup {received[j] + 1}
        BY <1>3, <1>5, OneMore
      <4> QED
        BY <4>1
    <3> HIDE DEF e
    <3> QED
      BY <1>5, <3>1, <3>2, <3>3
  <2>2. e \notin Taken
    <3>1. \A x \in Taken : \E q \in Jobs : x[1] = q /\ x[2] \in 1 .. received[q]
      BY DEF Taken
    <3> QED
      BY <1>3, <3>1
  <2> HIDE DEF e
  <2>3. IsFiniteSet(Taken') /\ Cardinality(Taken') = Cardinality(Taken) + 1
    BY <2>1, <2>2, InvNewton, FS_AddElement
  <2>4. EndedComputers' = EndedComputers
    BY <1>1 DEF EndedComputers
  <2>5. Cardinality(Taken) + m = Cardinality(EndedComputers)
    BY InvNewton DEF MessagesCount, m
  <2> QED
    BY <1>2, <2>3, <2>4, <2>5, InvNewton DEF MessagesCount
<1> QED
  BY <1>6, <1>7, <1>8, <1>12, <1>13, <1>14 DEF NewtonInv, Sums

-----------------------------------------------------------------------------
(* the program *)

LEMMA NewtonInvariance ==
  ASSUME NewtonInv, [Next]_vars
  PROVE  NewtonInv'
<1>1. CASE UNCHANGED newtonVars
  <2>1. UNCHANGED <<nqueue, nforked, nppc, ncpc, i, localsum, received, sum, senders>>
    BY <1>1 DEF newtonVars
  <2>2. NewtonTypes' /\ Progress'
    BY <2>1 DEF NewtonInv, NewtonTypes, Progress
  <2> QED
    BY <2>1, <2>2, SameEnded DEF NewtonInv
<1>2. CASE Newton!Step
  BY <1>2, NewtonForkHolds, ParentHolds, CollectHolds, ComputeHolds, SendSumHolds
     DEF Newton!Step, Newton!Collector, Newton!Computer
<1>3. CASE \E c \in Newton!Computers : Newton!Kill(c)
  BY <1>3, NewtonKillHolds
<1>4. UNCHANGED newtonVars \/ Newton!Step \/ \E c \in Newton!Computers : Newton!Kill(c)
  BY DEF Next, Step, Kill, Call, vars, RunShmem, RunFifo, RunSignal, RunSelect, RunNet,
         RunMsg, RunTable
<1> QED
  BY <1>1, <1>2, <1>3, <1>4

LEMMA NewtonTypeOK == NewtonInv => Newton!TypeOK
<1> SUFFICES ASSUME NewtonInv PROVE Newton!TypeOK
  OBVIOUS
<1> USE NewtonConstants
<1>1. ASSUME NEW j \in Jobs
      PROVE  nforked[j] \in 0 .. ProcessesOf[j] /\ received[j] \in 0 .. ProcessesOf[j]
  <2>1. /\ nforked[j] \in Nat /\ nforked[j] <= ProcessesOf[j] /\ received[j] \in Nat
        /\ ProcessesOf[j] \in Nat /\ ProcessesOf[j] > 0
    BY InvNewton DEF NewtonTypes
  <2>2. received[j] = 0 \/ received[j] < ProcessesOf[j] \/ received[j] = ProcessesOf[j]
    BY InvNewton DEF Progress
  <2> QED
    BY <2>1, <2>2
<1>2. ASSUME NEW c \in Newton!Computers
      PROVE  i[c] \in 1 .. IntervalsOf[c[1]] + ProcessesOf[c[1]]
  BY InvNewton DEF LocalSums, Summed
<1> QED
  BY <1>1, <1>2, InvNewton DEF Newton!TypeOK

\* When all runs have ended, all messages have been sent and received.
LEMMA AllReceived ==
  ASSUME NewtonInv, Newton!AllEnded
  PROVE  EndedComputers = Newton!Computers /\ Len(nqueue) = 0
<1> USE NewtonConstants
<1>1. \A j \in Jobs : received[j] = ProcessesOf[j]
  BY InvNewton DEF Newton!AllEnded, Progress
<1>2. Taken = Newton!Computers
  BY <1>1 DEF Taken, Newton!Computers
<1>3. Cardinality(Newton!Computers) + Len(nqueue) = Cardinality(EndedComputers)
  BY <1>2, InvNewton DEF MessagesCount
<1>4. EndedComputers \subseteq Newton!Computers
  BY DEF EndedComputers
<1>5. /\ Cardinality(EndedComputers) <= Cardinality(Newton!Computers)
      /\ Cardinality(EndedComputers) = Cardinality(Newton!Computers)
             => EndedComputers = Newton!Computers
      /\ Cardinality(Newton!Computers) \in Nat
  BY <1>4, InvNewton, FS_Subset, FS_CardinalityType
<1> QED
  BY <1>3, <1>5, InvNewton

\* Who has added an interval, and that a run with all messages of a job has added the
\* job's intervals.
LEMMA AddedBy ==
  ASSUME NewtonInv, NEW j \in Jobs
  PROVE  /\ Newton!Added(j) \subseteq Newton!Intervals
         /\ \A x : x \in Newton!Added(j) => \E c \in senders[j] : x[1] = c[1] /\ Deals(c, x[2])
         /\ \A x \in Newton!Intervals : \A c \in senders[j] :
                c[1] = x[1] /\ Deals(c, x[2]) => x \in Newton!Added(j)
<1>1. /\ sum[j] \in Seq(Newton!Intervals) /\ senders[j] \subseteq Newton!Computers
      /\ Collected(j) /\ OneReceiver /\ \A c \in Newton!Computers : Summed(c)
  BY InvNewton DEF Sums, LocalSums
<1>2. \A x : x \in Newton!Added(j) <=> InSeq(x, sum[j])
  BY DEF Newton!Added, InSeq
<1>3. Newton!Added(j) \subseteq Newton!Intervals
  BY <1>1 DEF Newton!Added
<1>4. \A x : x \in Newton!Added(j) => \E c \in senders[j] : x[1] = c[1] /\ Deals(c, x[2])
  BY <1>1, <1>2 DEF Collected, Summed
<1>5. ASSUME NEW x \in Newton!Intervals, NEW c \in senders[j], c[1] = x[1], Deals(c, x[2])
      PROVE  x \in Newton!Added(j)
  <2>1. c \in Newton!Computers /\ ncpc[c] = "ended" /\ Summed(c)
    BY <1>1 DEF OneReceiver
  <2>2. i[c] > IntervalsOf[c[1]] /\ i[c] \in Nat /\ IntervalsOf[c[1]] \in Nat
    BY <2>1, InvNewton, NewtonConstants DEF Summed
  <2>3. x = <<c[1], x[2]>> /\ x[2] \in Nat /\ x[2] <= IntervalsOf[c[1]]
    BY <1>5, NewtonConstants
  <2>4. x[2] < i[c]
    BY <2>2, <2>3
  <2>5. InSeq(x, localsum[c])
    BY <1>5, <2>1, <2>3, <2>4 DEF Summed
  <2> QED
    BY <1>1, <1>2, <2>5 DEF Collected
<1> QED
  BY <1>3, <1>4, <1>5

LEMMA NewtonEachIntervalOnce == NewtonInv => Newton!EachIntervalOnce
<1> USE NewtonConstants
<1> SUFFICES ASSUME NewtonInv PROVE Newton!EachIntervalOnce
  OBVIOUS
<1>1. ASSUME NEW j \in Jobs, nppc[j] = "ended", \A c \in senders[j] : c[1] = j
      PROVE  Newton!Added(j) = {j} \X (1 .. IntervalsOf[j])
  <2> DEFINE own == {j} \X (1 .. ProcessesOf[j])
  <2>1. ProcessesOf[j] \in Nat /\ IntervalsOf[j] \in Nat
    OBVIOUS
  <2>2. senders[j] \subseteq own
    <3> SUFFICES ASSUME NEW c \in senders[j] PROVE c \in own
      OBVIOUS
    <3>1. c \in Newton!Computers /\ c[1] = j
      BY <1>1, InvNewton
    <3> QED
      BY <2>1, <3>1
  <2>3. Cardinality(senders[j]) = ProcessesOf[j]
    <3>1. received[j] = ProcessesOf[j]
      BY <1>1, InvNewton DEF Progress
    <3> QED
      BY <3>1, InvNewton DEF Sums, Collected
  <2>4. IsFiniteSet(own) /\ Cardinality(own) = ProcessesOf[j]
    <3> DEFINE P == ProcessesOf[j]
    <3>1. IsFiniteSet(1 .. P) /\ Cardinality(1 .. P) = P
      <4>1. P \in Nat
        BY <2>1
      <4> HIDE DEF P
      <4>2. 1 \in Int /\ P \in Int
        BY <4>1
      <4>3. IsFiniteSet(1 .. P) /\ Cardinality(1 .. P) = IF 1 > P THEN 0 ELSE P - 1 + 1
        BY <4>2, FS_Interval
      <4> QED
        BY <4>1, <4>3
    <3>2. IsFiniteSet({j}) /\ Cardinality({j}) = 1
      BY FS_Singleton
    <3> HIDE DEF P
    <3>3. IsFiniteSet({j} \X (1 .. P)) /\ Cardinality({j} \X (1 .. P)) = 1 * P
      BY <3>1, <3>2, FS_Product
    <3> QED
      BY <2>1, <3>3 DEF P
  <2>5. senders[j] = own
    BY <2>2, <2>3, <2>4, FS_Subset
  <2>6. ASSUME NEW x \in Newton!Added(j) PROVE x \in {j} \X (1 .. IntervalsOf[j])
    <3>1. x \in Newton!Intervals /\ x[1] = j
      BY <1>1, AddedBy
    <3> QED
      BY <2>1, <3>1
  <2>7. ASSUME NEW x \in {j} \X (1 .. IntervalsOf[j]) PROVE x \in Newton!Added(j)
    <3>1. x \in Newton!Intervals /\ x[1] = j
      BY <2>1
    <3>2. PICK c \in Newton!Computers : c[1] = x[1] /\ Deals(c, x[2])
      BY <3>1, SomeDealer
    <3>3. c \in own
      BY <2>1, <3>1, <3>2
    <3> QED
      BY <2>5, <3>1, <3>2, <3>3, AddedBy
  <2> QED
    BY <2>6, <2>7
<1>2. ASSUME NEW j \in Jobs, NEW k \in Jobs,
             NEW n \in 1 .. Len(sum[j]), NEW m \in 1 .. Len(sum[k]), sum[j][n] = sum[k][m]
      PROVE  j = k /\ n = m
  <2> DEFINE x == sum[j][n]
  <2>1. x \in Newton!Added(j) /\ x \in Newton!Added(k)
    BY <1>2 DEF Newton!Added
  <2> HIDE DEF x
  <2>2. PICK c \in senders[j] : x[1] = c[1] /\ Deals(c, x[2])
    BY <2>1, AddedBy
  <2>3. PICK d \in senders[k] : x[1] = d[1] /\ Deals(d, x[2])
    BY <2>1, AddedBy
  <2>4. c \in Newton!Computers /\ d \in Newton!Computers
    BY InvNewton
  <2>5. c = d
    BY <2>2, <2>3, <2>4, OneDealer
  <2>6. j = k
    BY <2>2, <2>3, <2>5, InvNewton DEF OneReceiver
  <2>7. Once(sum[j])
    BY InvNewton DEF Sums, Collected
  <2> QED
    BY <1>2, <2>6, <2>7 DEF Once
<1>3. ASSUME Newton!AllEnded
      PROVE  UNION {Newton!Added(j) : j \in Jobs} = Newton!Intervals
  <2>1. EndedComputers = Newton!Computers /\ Len(nqueue) = 0
    BY <1>3, AllReceived
  <2>2. ASSUME NEW x \in Newton!Intervals PROVE \E j \in Jobs : x \in Newton!Added(j)
    <3>1. PICK c \in Newton!Computers : c[1] = x[1] /\ Deals(c, x[2])
      BY SomeDealer
    <3>2. ncpc[c] = "ended" /\ ~InSeq(c, nqueue)
      BY <2>1 DEF EndedComputers, InSeq
    <3>3. PICK j \in Jobs : c \in senders[j]
      BY <3>2, InvNewton DEF OneReceiver
    <3> QED
      BY <3>1, <3>3, AddedBy
  <2> QED
    BY <2>2, AddedBy
<1> QED
  BY <1>1, <1>2, <1>3 DEF Newton!EachIntervalOnce, Newton!OwnIntegral

-----------------------------------------------------------------------------
(* newton.net: whose parts a sum is made of *)

\* The client has found its servers and shared the integral out to them.
Complete == Len(chosen) = Nservs /\ bound \in Net!Bounds(chosen)

\* A server has its own part.
HasPart(s) == /\ Complete
              /\ \E k \in 1 .. Nservs : chosen[k] = s /\ part[s] = <<bound[k], bound[k + 1]>>

ServerInv(s) ==
    /\ tpc[s] # "none" => Complete /\ InSeq(s, chosen)
    /\ s \in task => Complete /\ InSeq(s, chosen)
    /\ s \in result => dspc[s] \in {"answered", "ended", "dead"}
    /\ ~Net!Ended /\ (dspc[s] = "computing" \/ s \in result) => HasPart(s)
    /\ tpc[s] \in {"got", "done"} => s \in result /\ HasPart(s)
    /\ dcpc = "printed" /\ InSeq(s, chosen) => tpc[s] = "done"

NetInv == /\ Net!TypeOK /\ chosen \in Seq(Server) /\ Once(chosen) /\ DOMAIN part = Server
          /\ dcpc \in {"broadcast", "collecting"} => Len(chosen) < Nservs
          /\ dcpc \in {"running", "printed"} => Complete
          /\ \A s \in Server : ServerInv(s)

LEMMA NetConstants ==
  /\ Nservs \in Nat /\ Nservs >= 1 /\ ServerProcs \in [Server -> Nat \ {0}]
  /\ \A S : Net!ToSet(S) = {S[k] : k \in DOMAIN S}
<1>1. IsFiniteSet(Server) /\ Nservs \in 1 .. Cardinality(Server)
      /\ ServerProcs \in [Server -> Nat \ {0}]
  BY ProgramsAssumption DEF Net!NetAssumption, Net!IsFiniteSet, IsFiniteSet, Net!Cardinality, Cardinality
<1>2. Cardinality(Server) \in Nat
  BY <1>1, FS_CardinalityType
<1> QED
  BY <1>1, <1>2 DEF Net!ToSet

\* Total, as the recursion it is.
LEMMA TotalTurns ==
  ASSUME NEW t \in Seq(Server)
  PROVE  \E f \in [0 .. Len(t) -> Nat] :
            /\ f[0] = 0 /\ Net!Total(t) = f[Len(t)]
            /\ \A n \in 1 .. Len(t) : f[n] = f[n - 1] + ServerProcs[t[n]]
<1> DEFINE m == Len(t)
      G == [p \in Nat \X Nat |-> IF p[2] \in 1 .. m THEN p[1] + ServerProcs[t[p[2]]] ELSE p[1]]
      Body(g) == [n \in 0 .. m |-> IF n = 0 THEN 0 ELSE g[n - 1] + ServerProcs[t[n]]]
      h == CHOOSE g : g = Body(g)
<1>0. m \in Nat /\ \A n \in 1 .. m : ServerProcs[t[n]] \in Nat
  BY NetConstants
<1>2. Net!Total(t) = h[m]
  BY DEF Net!Total, Net!Share
<1> HIDE DEF m
<1>3. G \in [Nat \X Nat -> Nat]
  BY <1>0
<1>4. PICK f : f \in [0 .. m -> Nat] /\ f[0] = 0 /\ \A n \in 1 .. m : f[n] = G[<<f[n - 1], n>>]
  <2> HIDE DEF G
  <2>1. Followed(Nat, 0, G, m)
    BY <1>0, <1>3, Recursion
  <2> QED
    BY <2>1 DEF Followed, Follows
<1>5. \A n \in 1 .. m : f[n] = f[n - 1] + ServerProcs[t[n]]
  <2> SUFFICES ASSUME NEW n \in 1 .. m PROVE f[n] = f[n - 1] + ServerProcs[t[n]]
    OBVIOUS
  <2>1. n - 1 \in 0 .. m /\ n \in Nat
    BY <1>0
  <2>2. <<f[n - 1], n>> \in Nat \X Nat
    BY <1>0, <1>4, <2>1
  <2> QED
    BY <1>4, <2>2
<1>6. h = Body(h)
  <2>1. f = [n \in 0 .. m |-> f[n]]
    BY <1>4
  <2>2. \A n \in 0 .. m : n = 0 \/ n \in 1 .. m
    BY <1>0
  <2>3. \A n \in 0 .. m : f[n] = IF n = 0 THEN 0 ELSE f[n - 1] + ServerProcs[t[n]]
    BY <1>4, <1>5, <2>2
  <2>4. f = Body(f)
    BY <2>1, <2>3
  <2> QED
    BY <2>4
<1> HIDE DEF h
<1>7. h[0] = 0 /\ \A n \in 1 .. m : h[n] = h[n - 1] + ServerProcs[t[n]]
  <2>1. 0 \in 0 .. m /\ 1 .. m \subseteq 0 .. m /\ \A n \in 1 .. m : n # 0
    BY <1>0
  <2>2. \A n \in 0 .. m : h[n] = IF n = 0 THEN 0 ELSE h[n - 1] + ServerProcs[t[n]]
    BY <1>6
  <2> QED
    BY <2>1, <2>2
<1>8. \A n \in 0 .. m : h[n] = f[n]
  <2> DEFINE T == {n \in Nat : n <= m => h[n] = f[n]}
  <2>1. 0 \in T
    BY <1>4, <1>7
  <2>2. ASSUME NEW n \in Nat, n \in T PROVE n + 1 \in T
    <3> SUFFICES ASSUME n + 1 <= m PROVE h[n + 1] = f[n + 1]
      BY <2>2
    <3>1. n + 1 \in 1 .. m /\ (n + 1) - 1 = n /\ n <= m
      BY <1>0
    <3>2. h[n + 1] = h[n] + ServerProcs[t[n + 1]] /\ f[n + 1] = f[n] + ServerProcs[t[n + 1]]
      BY <1>5, <1>7, <3>1
    <3> QED
      BY <2>2, <3>1, <3>2
  <2> HIDE DEF T
  <2>3. Nat \subseteq T
    BY <2>1, <2>2, Induction
  <2> QED
    BY <1>0, <2>3 DEF T
<1>9. Net!Total(t) = f[m]
  BY <1>0, <1>2, <1>8
<1> QED
  BY <1>4, <1>5, <1>9 DEF m

LEMMA TotalPositive ==
  ASSUME NEW t \in Seq(Server)
  PROVE  /\ Net!Total(t) \in Nat
         /\ Len(t) = 0 => Net!Total(t) = 0
         /\ Len(t) > 0 => Net!Total(t) > 0
<1>1. PICK f \in [0 .. Len(t) -> Nat] :
            /\ f[0] = 0 /\ Net!Total(t) = f[Len(t)]
            /\ \A n \in 1 .. Len(t) : f[n] = f[n - 1] + ServerProcs[t[n]]
  BY TotalTurns
<1>2. Len(t) \in Nat /\ \A n \in 1 .. Len(t) : t[n] \in Server
  OBVIOUS
<1>3. ASSUME Len(t) > 0 PROVE f[Len(t)] > 0
  <2> DEFINE l == Len(t)
  <2>1. l \in 1 .. l /\ l - 1 \in 0 .. l
    BY <1>2, <1>3
  <2>2. f[l - 1] \in Nat /\ ServerProcs[t[l]] \in Nat \ {0}
    BY <1>2, <2>1, NetConstants
  <2> HIDE DEF l
  <2>3. f[l] = f[l - 1] + ServerProcs[t[l]]
    BY <1>1, <2>1 DEF l
  <2>4. f[l] > 0
    BY <2>2, <2>3
  <2> QED
    BY <2>4 DEF l
<1> QED
  BY <1>1, <1>2, <1>3

\* The parts begin at 0 and end at 10 or, cut too short, at 9.
LEMMA BoundEnds ==
  ASSUME NEW t \in Seq(Server), Len(t) = Nservs, NEW b \in Net!Bounds(t)
  PROVE  b[1] = 0 /\ b[Nservs + 1] \in {9, 10}
<1> DEFINE T == Net!Total(t)
<1>1. T \in Nat /\ T > 0 /\ Nservs \in Nat
  BY NetConstants, TotalPositive
<1>2. /\ b \in [1 .. Nservs + 1 -> 0 .. 10]
      /\ \A k \in 1 .. Nservs + 1 : b[k] \in Net!CutBounds(Net!Total(SubSeq(t, 1, k - 1)), T)
  BY DEF Net!Bounds
<1>3. SubSeq(t, 1, 0) \in Seq(Server) /\ Len(SubSeq(t, 1, 0)) = 0
  OBVIOUS
<1>4. SubSeq(t, 1, Nservs) = t
  <2>1. /\ SubSeq(t, 1, Nservs) \in Seq(Server) /\ Len(SubSeq(t, 1, Nservs)) = Len(t)
        /\ \A k \in 1 .. Len(t) : SubSeq(t, 1, Nservs)[k] = t[k]
    BY <1>1
  <2> HIDE DEF T
  <2> QED
    BY <2>1, SeqEqual
<1>5. Net!Total(SubSeq(t, 1, 0)) = 0
  BY <1>3, TotalPositive
<1>6. 1 \in 1 .. Nservs + 1 /\ Nservs + 1 \in 1 .. Nservs + 1 /\ (Nservs + 1) - 1 = Nservs /\ 1 - 1 = 0
  BY <1>1
<1>7. b[1] \in Net!CutBounds(0, T) /\ b[Nservs + 1] \in Net!CutBounds(T, T)
  <2>1. b[1] \in Net!CutBounds(Net!Total(SubSeq(t, 1, 0)), T)
    BY <1>2, <1>6
  <2>2. b[Nservs + 1] \in Net!CutBounds(Net!Total(SubSeq(t, 1, Nservs)), T)
    BY <1>2, <1>6
  <2> QED
    BY <1>4, <1>5, <2>1, <2>2
<1> HIDE DEF T
<1>8. (10 * 0) \div T = 0
  <2>1. 0 % T \in 0 .. (T - 1) /\ 0 \div T \in Nat /\ 0 = T * (0 \div T) + (0 % T)
    BY <1>1, ModType
  <2>2. T * 0 + 0 = T * (0 \div T) + (0 % T) /\ 0 \in 0 .. (T - 1)
    BY <1>1, <2>1
  <2>3. 0 = 0 \div T
    BY <1>1, <2>1, <2>2, QuotientUnique
  <2> QED
    BY <2>3
<1>9. (10 * T) \div T = 10
  <2> DEFINE a == 10 * T
  <2>1. a \in Nat
    BY <1>1
  <2>2. a % T \in 0 .. (T - 1) /\ a \div T \in Nat /\ a = T * (a \div T) + (a % T)
    BY <1>1, <2>1, ModType
  <2>3. T * 10 + 0 = a /\ 0 \in 0 .. (T - 1) /\ 10 \in Nat
    BY <1>1
  <2> HIDE DEF a
  <2>4. T * 10 + 0 = T * (a \div T) + (a % T)
    BY <2>2, <2>3
  <2>5. 10 = a \div T
    BY <1>1, <2>2, <2>3, <2>4, QuotientUnique
  <2> QED
    BY <2>5 DEF a
<1>10. b[1] = 0
  BY <1>7, <1>8 DEF Net!CutBounds
<1>11. b[Nservs + 1] \in {9, 10}
  BY <1>7, <1>9 DEF Net!CutBounds
<1> QED
  BY <1>10, <1>11

LEMMA NetInit ==
  ASSUME Net!Init
  PROVE  NetInv
<1>1. /\ dcpc = "broadcast" /\ chosen = <<>> /\ bound = <<0>> /\ heard = {} /\ answers = {}
      /\ task = {} /\ result = {} /\ silent = {}
      /\ tpc = [s \in Server |-> "none"] /\ chb = [s \in Server |-> "none"]
      /\ shb = [s \in Server |-> "none"] /\ dspc = [s \in Server |-> "listening"]
      /\ DOMAIN part = Server /\ heirs = [s \in Server |-> {}]
  BY DEF Net!Init, Net!InitServers, Net!InitClient
<1>2. DOMAIN chosen = {} /\ Len(chosen) = 0 /\ chosen \in Seq(Server)
  BY <1>1
<1>3. Net!ToSet(chosen) = {}
  BY <1>2, NetConstants
<1>4. Net!TypeOK
  BY <1>1, <1>3 DEF Net!TypeOK, Net!Heartbeats
<1>5. Once(chosen) /\ Len(chosen) < Nservs
  BY <1>2, NetConstants DEF Once
<1>6. ASSUME NEW s \in Server PROVE ServerInv(s)
  BY <1>1, <1>2 DEF ServerInv, InSeq, Net!Ended
<1> QED
  BY <1>1, <1>2, <1>4, <1>5, <1>6 DEF NetInv

\* What a step may do that leaves the shares and the parts alone.
ClientFrame ==
    /\ UNCHANGED <<chosen, bound, part>>
    /\ Net!Ended => Net!Ended'
    /\ dcpc' \in {"broadcast", "collecting"} => dcpc \in {"broadcast", "collecting"}
    /\ dcpc' = "running" => dcpc = "running"
    /\ dcpc' = "printed" => Complete /\ \A s \in Server : InSeq(s, chosen) => tpc'[s] = "done"

ServerFrame(s) ==
    /\ tpc'[s] # "none" => tpc[s] # "none"
    /\ s \in task' => s \in task \/ tpc[s] # "none"
    /\ s \in result => s \in result'
    /\ s \in result' => dspc'[s] \in {"answered", "ended", "dead"}
    /\ dspc'[s] = "computing" => dspc[s] = "computing"
    /\ ~Net!Ended /\ s \in result' => dspc[s] = "computing" \/ s \in result
    /\ tpc'[s] \in {"got", "done"} => tpc[s] \in {"got", "done"} \/ (s \in result /\ ~Net!Ended)

LEMMA NetFrame ==
  ASSUME NetInv, Net!TypeOK', ClientFrame, \A s \in Server : ServerFrame(s)
  PROVE  NetInv'
<1>1. chosen' = chosen /\ bound' = bound /\ part' = part /\ Complete' = Complete
  BY DEF ClientFrame, Complete
<1>2. ASSUME NEW s \in Server PROVE ServerInv(s)'
  <2>1. ServerInv(s) /\ ServerFrame(s) /\ HasPart(s)' = HasPart(s)
    BY <1>1 DEF NetInv, HasPart
  <2>2. (tpc'[s] # "none" => Complete /\ InSeq(s, chosen))
        /\ (s \in task' => Complete /\ InSeq(s, chosen))
    BY <2>1 DEF ServerInv, ServerFrame
  <2>3. s \in result' => dspc'[s] \in {"answered", "ended", "dead"}
    BY <2>1 DEF ServerFrame
  <2>4. ~Net!Ended' /\ (dspc'[s] = "computing" \/ s \in result') => HasPart(s)
    BY <2>1 DEF ServerFrame, ServerInv, ClientFrame
  <2>5. tpc'[s] \in {"got", "done"} => s \in result' /\ HasPart(s)
    BY <2>1 DEF ServerFrame, ServerInv
  <2>6. dcpc' = "printed" /\ InSeq(s, chosen) => tpc'[s] = "done"
    BY DEF ClientFrame
  <2> QED
    BY <1>1, <2>1, <2>2, <2>3, <2>4, <2>5, <2>6 DEF ServerInv
<1>3. /\ chosen' \in Seq(Server) /\ Once(chosen') /\ DOMAIN part' = Server
      /\ dcpc' \in {"broadcast", "collecting"} => Len(chosen') < Nservs
      /\ dcpc' \in {"running", "printed"} => Complete'
  BY <1>1 DEF NetInv, ClientFrame
<1> QED
  BY <1>2, <1>3 DEF NetInv, Once

\* What of the invariant the steps need, spelt out.
LEMMA NetFacts ==
  ASSUME NetInv
  PROVE  /\ chosen \in Seq(Server) /\ Net!TypeOK /\ DOMAIN part = Server
         /\ dcpc \in {"running", "printed"} => Complete
         /\ dcpc = "printed" => \A s \in Server : InSeq(s, chosen) => tpc[s] = "done"
         /\ \A s \in Server : s \in result => dspc[s] \in {"answered", "ended", "dead"}
         /\ \A s \in Server : InSeq(s, chosen) <=> s \in Net!ToSet(chosen)
BY NetConstants DEF NetInv, ServerInv, InSeq

LEMMA NetSearchSteps ==
  ASSUME NetInv,
         \/ Net!Broadcast \/ Net!GiveUp \/ Net!PrintSum
         \/ \E s \in Server : Net!Answer(s)
  PROVE  NetInv'
<1> USE NetFacts
<1>1. CASE Net!Broadcast
  <2>1. /\ dcpc = "broadcast" /\ dcpc' = "collecting" /\ heard' \in SUBSET Server
        /\ UNCHANGED <<chosen, bound, tpc, chb, shb, dspc, answers, task, result, part, heirs, silent, faults>>
    BY <1>1 DEF Net!Broadcast, Net!traffic, Net!harm
  <2>2. Net!TypeOK'
    BY <2>1 DEF Net!TypeOK, Net!ToSet
  <2>3. ClientFrame
    BY <2>1 DEF ClientFrame, Net!Ended
  <2>4. \A s \in Server : ServerFrame(s)
    BY <2>1 DEF ServerFrame
  <2> QED
    BY <2>2, <2>3, <2>4, NetFrame
<1>2. CASE Net!GiveUp
  <2>1. /\ dcpc \in {"broadcast", "collecting"} /\ dcpc' = "failed"
        /\ UNCHANGED <<chosen, bound, heard, answers, tpc, chb, shb, dspc, task, result, part, heirs,
                       silent, faults>>
    BY <1>2 DEF Net!GiveUp, Net!search, Net!traffic, Net!harm
  <2>2. Net!TypeOK'
    BY <2>1 DEF Net!TypeOK, Net!ToSet
  <2>3. ClientFrame
    BY <2>1 DEF ClientFrame, Net!Ended
  <2>4. \A s \in Server : ServerFrame(s)
    BY <2>1 DEF ServerFrame
  <2> QED
    BY <2>2, <2>3, <2>4, NetFrame
<1>3. CASE Net!PrintSum
  <2>1. /\ dcpc = "running" /\ dcpc' = "printed" /\ \A s \in Net!ToSet(chosen) : tpc[s] = "done"
        /\ UNCHANGED <<chosen, bound, heard, answers, tpc, chb, shb, dspc, task, result, part, heirs,
                       silent, faults>>
    BY <1>3 DEF Net!PrintSum, Net!search, Net!traffic, Net!harm
  <2>2. Net!TypeOK'
    BY <2>1 DEF Net!TypeOK, Net!ToSet
  <2>3. ClientFrame
    BY <2>1 DEF ClientFrame, Net!Ended
  <2>4. \A s \in Server : ServerFrame(s)
    BY <2>1 DEF ServerFrame
  <2> QED
    BY <2>2, <2>3, <2>4, NetFrame
<1>4. ASSUME NEW s \in Server, Net!Answer(s) PROVE NetInv'
  <2>1. /\ dspc[s] = "listening" /\ dspc' = [dspc EXCEPT ![s] = "accepting"]
        /\ answers' \in {answers, answers \cup {s}}
        /\ UNCHANGED <<dcpc, chosen, bound, tpc, chb, shb, heard, task, result, part, heirs, silent, faults>>
    BY <1>4 DEF Net!Answer, Net!traffic, Net!harm
  <2>2. Net!TypeOK'
    BY <2>1 DEF Net!TypeOK, Net!ToSet
  <2>3. ClientFrame
    BY <2>1 DEF ClientFrame, Net!Ended
  <2>4. ASSUME NEW t \in Server PROVE ServerFrame(t)
    BY <2>1 DEF ServerFrame, Net!TypeOK
  <2> QED
    BY <2>2, <2>3, <2>4, NetFrame
<1> QED
  BY <1>1, <1>2, <1>3, <1>4

LEMMA NetThreadSteps ==
  ASSUME NetInv, NEW s \in Server,
         \/ Net!Connect(s)
         \/ Net!ForkHeartbeat(s)
         \/ Net!SendTask(s)
         \/ Net!Receive(s)
         \/ Net!KillHeartbeat(s)
  PROVE  NetInv'
<1> USE NetFacts
<1>1. CASE Net!Connect(s)
  <2>1. /\ dcpc = "running" /\ tpc[s] = "start"
        /\ \/ dcpc' = "failed" /\ UNCHANGED tpc
           \/ tpc' = [tpc EXCEPT ![s] = "connected"] /\ UNCHANGED dcpc
        /\ UNCHANGED <<chosen, bound, heard, answers, chb, shb, dspc, task, result, part, heirs, silent, faults>>
    BY <1>1 DEF Net!Connect, Net!search, Net!traffic, Net!harm, Net!ServerEnded
  <2>2. Net!TypeOK'
    BY <2>1 DEF Net!TypeOK, Net!ToSet, Net!Heartbeats
  <2>3. ClientFrame
    BY <2>1 DEF ClientFrame, Net!Ended
  <2>4. ASSUME NEW t \in Server PROVE ServerFrame(t)
    BY <2>1 DEF ServerFrame, Net!TypeOK, Net!Ended
  <2> QED
    BY <2>2, <2>3, <2>4, NetFrame
<1>2. CASE Net!ForkHeartbeat(s)
  <2>1. /\ dcpc = "running" /\ tpc[s] = "connected"
        /\ tpc' = [tpc EXCEPT ![s] = "forked"] /\ chb' = [chb EXCEPT ![s] = "connecting"]
        /\ heirs' \in [Server -> SUBSET Server]
        /\ UNCHANGED <<dcpc, chosen, bound, heard, answers, shb, dspc, task, result, part, silent, faults>>
    BY <1>2 DEF Net!TypeOK, Net!ForkHeartbeat, Net!search, Net!traffic, Net!harm, Net!ServerEnded
  <2>2. Net!TypeOK'
    BY <2>1 DEF Net!TypeOK, Net!ToSet, Net!Heartbeats
  <2>3. ClientFrame
    BY <2>1 DEF ClientFrame, Net!Ended
  <2>4. ASSUME NEW t \in Server PROVE ServerFrame(t)
    BY <2>1 DEF ServerFrame, Net!TypeOK, Net!Ended
  <2> QED
    BY <2>2, <2>3, <2>4, NetFrame
<1>3. CASE Net!SendTask(s)
  <2>1. /\ dcpc = "running" /\ tpc[s] = "forked"
        /\ tpc' = [tpc EXCEPT ![s] = "sent"] /\ task' = task \cup {s}
        /\ UNCHANGED <<dcpc, chosen, bound, heard, answers, chb, shb, dspc, result, part, heirs, silent, faults>>
    BY <1>3 DEF Net!SendTask, Net!search, Net!traffic, Net!harm, Net!ServerEnded
  <2>2. Net!TypeOK'
    BY <2>1 DEF Net!TypeOK, Net!ToSet, Net!Heartbeats
  <2>3. ClientFrame
    BY <2>1 DEF ClientFrame, Net!Ended
  <2>4. ASSUME NEW t \in Server PROVE ServerFrame(t)
    BY <2>1 DEF ServerFrame, Net!TypeOK, Net!Ended
  <2> QED
    BY <2>2, <2>3, <2>4, NetFrame
<1>4. CASE Net!Receive(s)
  <2>1. /\ dcpc = "running" /\ tpc[s] = "sent"
        /\ \/ dcpc' = "failed" /\ UNCHANGED tpc
           \/ s \in result /\ tpc' = [tpc EXCEPT ![s] = "got"] /\ UNCHANGED dcpc
        /\ UNCHANGED <<chosen, bound, heard, answers, chb, shb, dspc, task, result, part, heirs, silent, faults>>
    BY <1>4 DEF Net!Receive, Net!search, Net!traffic, Net!harm, Net!ServerEnded
  <2>2. Net!TypeOK'
    BY <2>1 DEF Net!TypeOK, Net!ToSet, Net!Heartbeats
  <2>3. ClientFrame
    BY <2>1 DEF ClientFrame, Net!Ended
  <2>4. ASSUME NEW t \in Server PROVE ServerFrame(t)
    BY <2>1 DEF ServerFrame, Net!TypeOK, Net!Ended
  <2> QED
    BY <2>2, <2>3, <2>4, NetFrame
<1>5. CASE Net!KillHeartbeat(s)
  <2>1. /\ dcpc = "running" /\ tpc[s] = "got"
        /\ tpc' = [tpc EXCEPT ![s] = "done"] /\ chb' = [chb EXCEPT ![s] = "gone"]
        /\ heirs' \in [Server -> SUBSET Server]
        /\ UNCHANGED <<dcpc, chosen, bound, heard, answers, shb, dspc, task, result, part, silent, faults>>
    BY <1>5 DEF Net!TypeOK, Net!KillHeartbeat, Net!search, Net!traffic, Net!harm, Net!ServerEnded
  <2>2. Net!TypeOK'
    BY <2>1 DEF Net!TypeOK, Net!ToSet, Net!Heartbeats
  <2>3. ClientFrame
    BY <2>1 DEF ClientFrame, Net!Ended
  <2>4. ASSUME NEW t \in Server PROVE ServerFrame(t)
    BY <2>1 DEF ServerFrame, Net!TypeOK, Net!Ended
  <2> QED
    BY <2>2, <2>3, <2>4, NetFrame
<1> QED
  BY <1>1, <1>2, <1>3, <1>4, <1>5

LEMMA NetServerSteps ==
  ASSUME NetInv, NEW s \in Server,
         \/ Net!Accept(s)
         \/ Net!SendResult(s)
         \/ Net!EndServer(s)
  PROVE  NetInv'
<1> USE NetFacts
<1>1. CASE Net!Accept(s)
  <2>1. /\ dspc[s] = "accepting"
        /\ dspc' = [dspc EXCEPT ![s] = "receiving"] /\ shb' = [shb EXCEPT ![s] = "accepting"]
        /\ UNCHANGED <<dcpc, chosen, bound, heard, answers, tpc, chb, task, result, part, heirs, silent, faults>>
    BY <1>1 DEF Net!Accept, Net!search, Net!traffic, Net!harm, Net!ServerEnded
  <2>2. Net!TypeOK'
    BY <2>1 DEF Net!TypeOK, Net!ToSet, Net!Heartbeats
  <2>3. ClientFrame
    BY <2>1 DEF ClientFrame, Net!Ended
  <2>4. ASSUME NEW t \in Server PROVE ServerFrame(t)
    BY <2>1 DEF ServerFrame, Net!TypeOK, Net!Ended
  <2> QED
    BY <2>2, <2>3, <2>4, NetFrame
<1>2. CASE Net!SendResult(s)
  <2>1. /\ dspc[s] = "computing"
        /\ \/ dspc' = [dspc EXCEPT ![s] = "answered"] /\ result' = result \cup {s}
           \/ Net!Ended /\ dspc' = [dspc EXCEPT ![s] = "dead"] /\ UNCHANGED result
        /\ UNCHANGED <<dcpc, chosen, bound, heard, answers, tpc, chb, shb, task, part, heirs, silent, faults>>
    BY <1>2 DEF Net!SendResult, Net!Closed, Net!search, Net!traffic, Net!harm, Net!ServerEnded
  <2>2. Net!TypeOK'
    BY <2>1 DEF Net!TypeOK, Net!ToSet, Net!Heartbeats
  <2>3. ClientFrame
    BY <2>1 DEF ClientFrame, Net!Ended
  <2>4. ASSUME NEW t \in Server PROVE ServerFrame(t)
    BY <2>1 DEF ServerFrame, Net!TypeOK, Net!Ended
  <2> QED
    BY <2>2, <2>3, <2>4, NetFrame
<1>3. CASE Net!EndServer(s)
  <2>1. /\ dspc[s] = "answered"
        /\ dspc' = [dspc EXCEPT ![s] = "ended"] /\ shb' = [shb EXCEPT ![s] = "gone"]
        /\ UNCHANGED <<dcpc, chosen, bound, heard, answers, tpc, chb, task, result, part, heirs, silent, faults>>
    BY <1>3 DEF Net!EndServer, Net!search, Net!traffic, Net!harm, Net!ServerEnded
  <2>2. Net!TypeOK'
    BY <2>1 DEF Net!TypeOK, Net!ToSet, Net!Heartbeats
  <2>3. ClientFrame
    BY <2>1 DEF ClientFrame, Net!Ended
  <2>4. ASSUME NEW t \in Server PROVE ServerFrame(t)
    BY <2>1 DEF ServerFrame, Net!TypeOK, Net!Ended
  <2> QED
    BY <2>2, <2>3, <2>4, NetFrame
<1> QED
  BY <1>1, <1>2, <1>3

LEMMA NetHeartbeatSteps ==
  ASSUME NetInv, NEW s \in Server,
         \/ Net!HeartbeatConnect(s)
         \/ Net!HeartbeatAccept(s)
         \/ Net!ClientMisses(s)
         \/ Net!ServerMisses(s)
         \/ Net!Late(s)
         \/ Net!KillClientGroup(s)
         \/ Net!KillServerGroup(s)
         \/ Net!ServerFails(s)
         \/ Net!ClientFails
  PROVE  NetInv'
<1> USE NetFacts
<1>1. CASE Net!HeartbeatConnect(s)
  <2>1. /\ chb[s] = "connecting"
        /\ \E h \in {"gone", "beating"} : chb' = [chb EXCEPT ![s] = h]
        /\ heirs' \in [Server -> SUBSET Server]
        /\ UNCHANGED <<dcpc, chosen, bound, heard, answers, tpc, shb, dspc, task, result, part, silent, faults>>
    BY <1>1 DEF Net!TypeOK, Net!HeartbeatConnect, Net!search, Net!traffic, Net!harm, Net!ServerEnded
  <2>2. Net!TypeOK'
    <3>1. chb' \in [Server -> Net!Heartbeats]
      BY <2>1 DEF Net!TypeOK, Net!Heartbeats
    <3> QED
      BY <2>1, <3>1 DEF Net!TypeOK, Net!ToSet
  <2>3. ClientFrame
    BY <2>1 DEF ClientFrame, Net!Ended
  <2>4. ASSUME NEW t \in Server PROVE ServerFrame(t)
    BY <2>1 DEF ServerFrame, Net!TypeOK, Net!Ended
  <2> QED
    BY <2>2, <2>3, <2>4, NetFrame
<1>2. CASE Net!HeartbeatAccept(s)
  <2>1. /\ shb[s] = "accepting"
        /\ shb' = [shb EXCEPT ![s] = "beating"]
        /\ UNCHANGED <<dcpc, chosen, bound, heard, answers, tpc, chb, dspc, task, result, part, heirs, silent, faults>>
    BY <1>2 DEF Net!HeartbeatAccept, Net!search, Net!traffic, Net!harm, Net!ServerEnded
  <2>2. Net!TypeOK'
    BY <2>1 DEF Net!TypeOK, Net!ToSet, Net!Heartbeats
  <2>3. ClientFrame
    BY <2>1 DEF ClientFrame, Net!Ended
  <2>4. ASSUME NEW t \in Server PROVE ServerFrame(t)
    BY <2>1 DEF ServerFrame, Net!TypeOK, Net!Ended
  <2> QED
    BY <2>2, <2>3, <2>4, NetFrame
<1>3. CASE Net!ClientMisses(s)
  <2>1. /\ chb[s] = "beating"
        /\ chb' = [chb EXCEPT ![s] = "closing"]
        /\ UNCHANGED <<dcpc, chosen, bound, heard, answers, tpc, shb, dspc, task, result, part, heirs, silent, faults>>
    BY <1>3 DEF Net!ClientMisses, Net!search, Net!traffic, Net!harm, Net!ServerEnded
  <2>2. Net!TypeOK'
    BY <2>1 DEF Net!TypeOK, Net!ToSet, Net!Heartbeats
  <2>3. ClientFrame
    BY <2>1 DEF ClientFrame, Net!Ended
  <2>4. ASSUME NEW t \in Server PROVE ServerFrame(t)
    BY <2>1 DEF ServerFrame, Net!TypeOK, Net!Ended
  <2> QED
    BY <2>2, <2>3, <2>4, NetFrame
<1>4. CASE Net!ServerMisses(s)
  <2>1. /\ shb[s] = "beating"
        /\ shb' = [shb EXCEPT ![s] = "closing"]
        /\ UNCHANGED <<dcpc, chosen, bound, heard, answers, tpc, chb, dspc, task, result, part, heirs, silent, faults>>
    BY <1>4 DEF Net!ServerMisses, Net!search, Net!traffic, Net!harm, Net!ServerEnded
  <2>2. Net!TypeOK'
    BY <2>1 DEF Net!TypeOK, Net!ToSet, Net!Heartbeats
  <2>3. ClientFrame
    BY <2>1 DEF ClientFrame, Net!Ended
  <2>4. ASSUME NEW t \in Server PROVE ServerFrame(t)
    BY <2>1 DEF ServerFrame, Net!TypeOK, Net!Ended
  <2> QED
    BY <2>2, <2>3, <2>4, NetFrame
<1>5. CASE Net!Late(s)
  <2>1. /\ faults' = 1
        /\ \/ chb' = [chb EXCEPT ![s] = "closing"] /\ UNCHANGED shb
           \/ shb' = [shb EXCEPT ![s] = "closing"] /\ UNCHANGED chb
        /\ UNCHANGED <<dcpc, chosen, bound, heard, answers, tpc, dspc, task, result, part, heirs, silent>>
    BY <1>5 DEF Net!Late, Net!search, Net!traffic, Net!harm, Net!ServerEnded
  <2>2. Net!TypeOK'
    BY <2>1 DEF Net!TypeOK, Net!ToSet, Net!Heartbeats
  <2>3. ClientFrame
    BY <2>1 DEF ClientFrame, Net!Ended
  <2>4. ASSUME NEW t \in Server PROVE ServerFrame(t)
    BY <2>1 DEF ServerFrame, Net!TypeOK, Net!Ended
  <2> QED
    BY <2>2, <2>3, <2>4, NetFrame
<1>6. CASE Net!KillClientGroup(s)
  <2>1. /\ chb[s] = "closing"
        /\ dcpc' = IF Net!Ended THEN dcpc ELSE "killed"
        /\ chb' = [t \in Server |-> IF chb[t] = "none" THEN "none" ELSE "gone"]
        /\ heirs' \in [Server -> SUBSET Server]
        /\ UNCHANGED <<chosen, bound, heard, answers, tpc, shb, dspc, task, result, part, silent, faults>>
    BY <1>6 DEF Net!TypeOK, Net!KillClientGroup, Net!HeartbeatsKilled, Net!search, Net!traffic, Net!harm, Net!ServerEnded
  <2>2. Net!TypeOK'
    BY <2>1 DEF Net!TypeOK, Net!ToSet, Net!Heartbeats
  <2>3. ClientFrame
    BY <2>1 DEF ClientFrame, Net!Ended
  <2>4. ASSUME NEW t \in Server PROVE ServerFrame(t)
    BY <2>1 DEF ServerFrame, Net!TypeOK, Net!Ended
  <2> QED
    BY <2>2, <2>3, <2>4, NetFrame
<1>7. CASE Net!KillServerGroup(s)
  <2>1. /\ shb[s] = "closing"
        /\ \E d \in {dspc[s], "dead"} :
              dspc' = [dspc EXCEPT ![s] = d] /\ (dspc[s] = "ended" => d = "ended")
        /\ shb' = [shb EXCEPT ![s] = "gone"]
        /\ UNCHANGED <<dcpc, chosen, bound, heard, answers, tpc, chb, task, result, part, heirs, silent, faults>>
    BY <1>7 DEF Net!KillServerGroup, Net!search, Net!traffic, Net!harm, Net!ServerEnded
  <2>2. Net!TypeOK'
    BY <2>1 DEF Net!TypeOK, Net!ToSet, Net!Heartbeats
  <2>3. ClientFrame
    BY <2>1 DEF ClientFrame, Net!Ended
  <2>4. ASSUME NEW t \in Server PROVE ServerFrame(t)
    BY <2>1 DEF ServerFrame, Net!TypeOK, Net!Ended
  <2> QED
    BY <2>2, <2>3, <2>4, NetFrame
<1>8. CASE Net!ServerFails(s)
  <2>1. /\ faults' = 1
        /\ dspc' = [dspc EXCEPT ![s] = "dead"] /\ shb' = [shb EXCEPT ![s] = "gone"]
        /\ silent' \in {silent, silent \cup {s}}
        /\ UNCHANGED <<dcpc, chosen, bound, heard, answers, tpc, chb, task, result, part, heirs>>
    BY <1>8 DEF Net!ServerFails, Net!search, Net!traffic, Net!harm, Net!ServerEnded
  <2>2. Net!TypeOK'
    BY <2>1 DEF Net!TypeOK, Net!ToSet, Net!Heartbeats
  <2>3. ClientFrame
    BY <2>1 DEF ClientFrame, Net!Ended
  <2>4. ASSUME NEW t \in Server PROVE ServerFrame(t)
    BY <2>1 DEF ServerFrame, Net!TypeOK, Net!Ended
  <2> QED
    BY <2>2, <2>3, <2>4, NetFrame
<1>9. CASE Net!ClientFails
  <2>1. /\ faults' = 1 /\ ~Net!Ended /\ dcpc' = "killed"
        /\ chb' = [t \in Server |-> IF chb[t] = "none" THEN "none" ELSE "gone"]
        /\ heirs' \in [Server -> SUBSET Server]
        /\ UNCHANGED <<chosen, bound, heard, answers, tpc, shb, dspc, task, result, part, silent>>
    BY <1>9 DEF Net!TypeOK, Net!ClientFails, Net!HeartbeatsKilled, Net!search, Net!traffic, Net!harm, Net!ServerEnded
  <2>2. Net!TypeOK'
    BY <2>1 DEF Net!TypeOK, Net!ToSet, Net!Heartbeats
  <2>3. ClientFrame
    BY <2>1 DEF ClientFrame, Net!Ended
  <2>4. ASSUME NEW t \in Server PROVE ServerFrame(t)
    BY <2>1 DEF ServerFrame, Net!TypeOK, Net!Ended
  <2> QED
    BY <2>2, <2>3, <2>4, NetFrame
<1> QED
  BY <1>1, <1>2, <1>3, <1>4, <1>5, <1>6, <1>7, <1>8, <1>9

\* A client that has not found all its servers has shared out nothing.
LEMMA NetCollect ==
  ASSUME NetInv, NEW s \in Server, Net!Collect(s)
  PROVE  NetInv'
<1> USE NetFacts
<1>1. /\ dcpc = "collecting" /\ s \in answers /\ s \notin Net!ToSet(chosen)
      /\ chosen' = Append(chosen, s)
      /\ UNCHANGED <<chb, shb, dspc, heard, answers, task, result, part, heirs, silent, faults>>
  BY DEF Net!Collect, Net!traffic, Net!harm
<1>2. /\ Len(chosen') = Nservs =>
            /\ dcpc' = "running" /\ bound' \in Net!Bounds(chosen')
            /\ tpc' = [t \in Server |-> IF t \in Net!ToSet(chosen') THEN "start" ELSE "none"]
      /\ Len(chosen') # Nservs => UNCHANGED <<dcpc, bound, tpc>>
  BY DEF Net!Collect
<1>3. Len(chosen) < Nservs /\ Once(chosen) /\ Len(chosen) \in Nat
  BY <1>1 DEF NetInv
<1>4. chosen' \in Seq(Server) /\ Len(chosen') = Len(chosen) + 1
  BY <1>1
<1>5. ~InSeq(s, chosen)
  BY <1>1
<1>6. Once(chosen') /\ \A t \in Server : InSeq(t, chosen') <=> t = s \/ InSeq(t, chosen)
  BY <1>1, <1>5, <1>3, InSeqAppend
<1>7. \A t \in Server : InSeq(t, chosen') <=> t \in Net!ToSet(chosen')
  BY NetConstants DEF InSeq
<1>8. ASSUME NEW t \in Server PROVE tpc[t] = "none" /\ t \notin task /\ ~HasPart(t)
  BY <1>3, NetConstants DEF NetInv, ServerInv, Complete, HasPart
<1>9. Net!ToSet(chosen') \subseteq Server
  BY <1>4, NetConstants
<1>10. ASSUME NEW t \in Server PROVE dspc[t] # "computing" /\ t \notin result
  BY <1>1, <1>8 DEF NetInv, ServerInv, Net!Ended
<1>11. CASE Len(chosen') = Nservs
  <2>1. Complete'
    BY <1>2, <1>11 DEF Complete
  <2>2. Net!TypeOK'
    BY <1>1, <1>2, <1>9, <1>11 DEF Net!TypeOK, Net!ToSet
  <2>3. ASSUME NEW t \in Server PROVE ServerInv(t)'
    <3>1. tpc'[t] \in {"start", "none"} /\ (tpc'[t] = "start" => InSeq(t, chosen'))
      BY <1>2, <1>7, <1>11
    <3>2. tpc'[t] # "none" => Complete' /\ InSeq(t, chosen')
      BY <2>1, <3>1
    <3>3. t \notin task' /\ t \notin result' /\ dspc'[t] # "computing" /\ dcpc' # "printed"
      BY <1>1, <1>2, <1>8, <1>10, <1>11
    <3> QED
      BY <3>1, <3>2, <3>3 DEF ServerInv
  <2> QED
    BY <1>1, <1>2, <1>4, <1>6, <1>11, <2>1, <2>2, <2>3 DEF NetInv, Once
<1>12. CASE Len(chosen') # Nservs
  <2>1. Len(chosen') < Nservs
    BY <1>3, <1>4, <1>12, NetConstants
  <2>2. Net!TypeOK'
    BY <1>1, <1>2, <1>9, <1>12 DEF Net!TypeOK, Net!ToSet
  <2>3. ASSUME NEW t \in Server PROVE ServerInv(t)'
    <3>1. tpc'[t] = "none" /\ t \notin task' /\ t \notin result' /\ dspc'[t] # "computing" /\ dcpc' # "printed"
      BY <1>1, <1>2, <1>8, <1>10, <1>12
    <3> QED
      BY <3>1 DEF ServerInv
  <2> QED
    BY <1>1, <1>2, <1>4, <1>6, <1>12, <2>1, <2>2, <2>3 DEF NetInv, Once
<1> QED
  BY <1>11, <1>12

\* The task that a server receives is its own share.
LEMMA NetReceiveTask ==
  ASSUME NetInv, NEW s \in Server, Net!ReceiveTask(s)
  PROVE  NetInv'
<1> USE NetFacts
<1> DEFINE k == CHOOSE k \in DOMAIN chosen : chosen[k] = s
      p == IF s \in task THEN <<bound[k], bound[k + 1]>> ELSE <<0, 0>>
<1>1. /\ dspc[s] = "receiving" /\ (s \in task \/ Net!Ended)
      /\ dspc' = [dspc EXCEPT ![s] = "computing"] /\ part' = [part EXCEPT ![s] = p]
      /\ UNCHANGED <<dcpc, chosen, bound, heard, answers, tpc, chb, shb, task, result, heirs, silent, faults>>
  BY DEF Net!ReceiveTask, Net!Closed, Net!search, Net!harm
<1>2. Net!TypeOK'
  BY <1>1 DEF Net!TypeOK, Net!ToSet
<1>3. Complete' = Complete
  BY <1>1 DEF Complete
<1>4. ASSUME s \in task PROVE Complete /\ k \in 1 .. Nservs /\ chosen[k] = s
  <2>1. Complete /\ InSeq(s, chosen)
    BY <1>4 DEF NetInv, ServerInv
  <2>2. DOMAIN chosen = 1 .. Nservs
    BY <2>1 DEF Complete
  <2>3. \E j \in DOMAIN chosen : chosen[j] = s
    BY <2>1, <2>2 DEF InSeq, Complete
  <2>4. k \in DOMAIN chosen /\ chosen[k] = s
    BY <2>3, Zenon
  <2> QED
    BY <2>1, <2>2, <2>4
<1>5. s \notin result /\ tpc[s] \notin {"got", "done"}
  BY <1>1 DEF NetInv, ServerInv
<1> HIDE DEF k
<1>6. ASSUME NEW t \in Server PROVE ServerInv(t)'
  <2>1. ServerInv(t)
    BY DEF NetInv
  <2>2. CASE t # s
    <3>1. dspc'[t] = dspc[t]
      BY <1>1, <2>2 DEF Net!TypeOK
    <3>2. HasPart(t) => HasPart(t)'
      <4>1. SUFFICES ASSUME NEW n \in 1 .. Nservs, chosen[n] = t, part[t] = <<bound[n], bound[n + 1]>>, Complete
                     PROVE  part'[t] = <<bound'[n], bound'[n + 1]>>
        BY <1>1, <1>3 DEF HasPart
      <4>2. <<bound[n], bound[n + 1]>> # part[t] \/ part'[t] = part[t]
        BY <1>1, <2>2
      <4> QED
        BY <1>1, <4>1, <4>2
    <3> QED
      BY <1>1, <1>3, <2>1, <3>1, <3>2 DEF ServerInv, Net!Ended
  <2>3. CASE t = s
    <3>1. ~Net!Ended => HasPart(s)'
      <4> SUFFICES ASSUME s \in task PROVE HasPart(s)'
        BY <1>1
      <4>1. part' = [part EXCEPT ![s] = <<bound[k], bound[k + 1]>>]
        BY <1>1
      <4>2. part'[s] = <<bound'[k], bound'[k + 1]>> /\ chosen'[k] = s /\ k \in 1 .. Nservs
        BY <1>1, <1>4, <4>1
      <4> QED
        BY <1>3, <1>4, <4>2 DEF HasPart
    <3>2. /\ tpc'[s] # "none" => Complete' /\ InSeq(s, chosen')
          /\ s \in task' => Complete' /\ InSeq(s, chosen')
          /\ dcpc' = "printed" /\ InSeq(s, chosen') => tpc'[s] = "done"
      BY <1>1, <1>3, <2>1, <2>3 DEF ServerInv
    <3>3. s \notin result' /\ tpc'[s] \notin {"got", "done"}
      BY <1>1, <1>5
    <3> QED
      BY <1>1, <2>3, <3>1, <3>2, <3>3 DEF ServerInv, Net!Ended
  <2> QED
    BY <2>2, <2>3
<1> QED
  BY <1>1, <1>2, <1>3, <1>6 DEF NetInv, Once

LEMMA NetInvariance == NetInv /\ [Net!Next]_(Net!vars) => NetInv'
<1> SUFFICES ASSUME NetInv, [Net!Next]_(Net!vars) PROVE NetInv'
  OBVIOUS
<1>1. CASE UNCHANGED Net!vars
  BY <1>1 DEF Net!vars, NetInv, ServerInv, HasPart, Complete, Once, Net!TypeOK, Net!ToSet, Net!Ended
<1>2. CASE Net!Step
  <2>1. CASE Net!Broadcast \/ Net!GiveUp \/ Net!PrintSum
    BY <2>1, NetSearchSteps
  <2>2. ASSUME NEW s \in Server, Net!Collect(s) \/ Net!ThreadStep(s) \/ Net!ServerStep(s) \/ Net!HeartbeatStep(s)
        PROVE  NetInv'
    BY <2>2, NetSearchSteps, NetCollect, NetReceiveTask, NetThreadSteps, NetServerSteps, NetHeartbeatSteps
       DEF Net!ThreadStep, Net!ServerStep, Net!HeartbeatStep
  <2> QED
    BY <1>2, <2>1, <2>2 DEF Net!Step
<1>3. CASE Net!Fault
  <2>1. PICK s \in Server : TRUE
    <3>1. Len(chosen) \in Nat /\ Nservs >= 1 /\ IsFiniteSet(Server) /\ Nservs \in 1 .. Cardinality(Server)
      BY ProgramsAssumption, NetConstants DEF NetInv, Net!NetAssumption, Net!IsFiniteSet, IsFiniteSet, Net!Cardinality, Cardinality
    <3>2. Server # {}
      BY <3>1, FS_EmptySet
    <3> QED
      BY <3>2
  <2>2. CASE Net!ClientFails
    BY <2>1, <2>2, NetHeartbeatSteps
  <2>3. ASSUME NEW t \in Server, Net!ServerFails(t) \/ Net!Late(t) PROVE NetInv'
    BY <2>3, NetHeartbeatSteps
  <2> QED
    BY <1>3, <2>2, <2>3 DEF Net!Fault
<1> QED
  BY <1>1, <1>2, <1>3 DEF Net!Next

LEMMA NetPrintsOneIntegral == NetInv => Net!PrintsOneIntegral
<1> SUFFICES ASSUME NetInv, dcpc = "printed"
             PROVE  /\ Len(chosen) = Nservs /\ Net!ToSet(chosen) \subseteq result
                    /\ part[chosen[1]][1] = 0
                    /\ \A k \in 1 .. Nservs - 1 : part[chosen[k]][2] = part[chosen[k + 1]][1]
                    /\ part[chosen[Nservs]][2] \in {9, 10}
  BY DEF Net!PrintsOneIntegral
<1> USE NetFacts
<1>1. Nservs \in Nat /\ Nservs >= 1 /\ Complete /\ Len(chosen) = Nservs /\ bound \in Net!Bounds(chosen)
  BY NetConstants DEF Complete
<1>2. bound[1] = 0 /\ bound[Nservs + 1] \in {9, 10}
  BY <1>1, BoundEnds
<1>3. ASSUME NEW k \in 1 .. Nservs
      PROVE  chosen[k] \in result /\ part[chosen[k]] = <<bound[k], bound[k + 1]>>
  <2>1. k \in 1 .. Len(chosen) /\ chosen[k] \in Server
    BY <1>1
  <2>2. InSeq(chosen[k], chosen)
    BY <2>1 DEF InSeq
  <2>3. tpc[chosen[k]] = "done"
    BY <2>1, <2>2
  <2>4. chosen[k] \in result /\ HasPart(chosen[k])
    BY <2>1, <2>3 DEF NetInv, ServerInv
  <2>5. PICK n \in 1 .. Nservs : chosen[n] = chosen[k] /\ part[chosen[k]] = <<bound[n], bound[n + 1]>>
    BY <2>4 DEF HasPart
  <2>6. n = k
    BY <1>1, <2>1, <2>5 DEF NetInv, Once
  <2> QED
    BY <2>4, <2>5, <2>6
<1>4. Net!ToSet(chosen) \subseteq result
  BY <1>1, <1>3, NetConstants
<1>5. 1 \in 1 .. Nservs /\ Nservs \in 1 .. Nservs
  BY <1>1
<1>6. part[chosen[1]][1] = 0 /\ part[chosen[Nservs]][2] \in {9, 10}
  <2>1. part[chosen[1]] = <<bound[1], bound[1 + 1]>>
    BY <1>3, <1>5
  <2>2. part[chosen[Nservs]] = <<bound[Nservs], bound[Nservs + 1]>>
    BY <1>3, <1>5
  <2> QED
    BY <1>2, <2>1, <2>2
<1>7. ASSUME NEW k \in 1 .. Nservs - 1 PROVE part[chosen[k]][2] = part[chosen[k + 1]][1]
  <2>1. k \in 1 .. Nservs /\ k + 1 \in 1 .. Nservs
    BY <1>1
  <2>2. part[chosen[k]] = <<bound[k], bound[k + 1]>>
    BY <1>3, <2>1
  <2>3. part[chosen[k + 1]] = <<bound[k + 1], bound[(k + 1) + 1]>>
    BY <1>3, <2>1
  <2> QED
    BY <2>2, <2>3
<1> QED
  BY <1>1, <1>4, <1>6, <1>7

-----------------------------------------------------------------------------
(* hashtable: what holds of the lists and of the iterator *)

Item == Key \X Nat

TableTypes ==
    /\ list \in [Table!Buckets -> Seq(Item)] /\ sentinel \in [Table!Buckets -> BOOLEAN]
    /\ serial \in 0 .. MaxAdds /\ running \in BOOLEAN
    /\ iterator \in (-1 .. MaxHash) \X Nat
    /\ got \in Seq(Item)

\* An element is in the bucket of its key, before those that were added earlier.
InBuckets == \A b \in Table!Buckets :
                 /\ Len(list[b]) <= serial
                 /\ \A n \in 1 .. Len(list[b]) :
                        Table!Slot(list[b][n][1]) = b /\ list[b][n][2] < serial
                 /\ \A m, n \in 1 .. Len(list[b]) : m < n => list[b][m][2] > list[b][n][2]

\* The search reaches all elements but the oldest, so no two of those have the same key.
CopiesAreOldest == \A b \in Table!Buckets : \A m, n \in 1 .. Len(list[b]) :
                       m < n /\ list[b][m][1] = list[b][n][1] => n = Len(list[b])

\* The n-th element of bucket b is still to be given by the iterator.
Ahead(b, n) == \/ b > iterator[1]
               \/ b = iterator[1] /\ n > Len(list[b]) - iterator[2]

ToGive(e) == \E b \in Table!Buckets : \E n \in 1 .. Len(list[b]) :
                 list[b][n] = e /\ Ahead(b, n)

InIterator == /\ iterator[1] \in Table!Buckets => iterator[2] <= Len(list[iterator[1]])
              /\ iterator[1] \notin Table!Buckets => iterator = Table!NoIterator

\* What was given is not given again; what must be given has been or will be.
Iterating == iterator # Table!NoIterator =>
                 /\ Once(got)
                 /\ \A k \in 1 .. Len(got) : got[k][2] < serial /\ ~ToGive(got[k])
                 /\ \A e \in whole : InSeq(e, got) \/ ToGive(e)

TableInv == TableTypes /\ InBuckets /\ CopiesAreOldest /\ InIterator /\ Iterating

LEMMA TableConstants ==
  /\ Hash \in [Key -> Nat] /\ MaxHash \in Nat /\ MaxAdds \in Nat
  /\ Table!Buckets = 0 .. MaxHash
  /\ \A b \in Table!Buckets : b \in Nat /\ b # -1
  /\ \A k \in Key : Table!Slot(k) \in Table!Buckets
<1>1. Hash \in [Key -> Nat] /\ MaxHash \in Nat /\ MaxAdds \in Nat
  BY ProgramsAssumption DEF Table!TableAssumption
<1>2. ASSUME NEW k \in Key PROVE Table!Slot(k) \in Table!Buckets
  <2>1. Hash[k] \in Nat /\ MaxHash + 1 \in Nat /\ MaxHash + 1 > 0
    BY <1>1
  <2>2. Hash[k] % (MaxHash + 1) \in 0 .. ((MaxHash + 1) - 1)
    BY <2>1, ModType
  <2> QED
    BY <1>1, <2>2 DEF Table!Slot, Table!Buckets
<1> QED
  BY <1>1, <1>2 DEF Table!Buckets

\* One more in front, and the n-th away.
LEMMA InFront ==
  ASSUME NEW S, NEW s \in Seq(S), NEW e \in S
  PROVE  /\ <<e>> \o s \in Seq(S) /\ Len(<<e>> \o s) = Len(s) + 1 /\ Len(s) \in Nat
         /\ (<<e>> \o s)[1] = e
         /\ \A k \in 1 .. Len(s) : (<<e>> \o s)[k + 1] = s[k] /\ s[k] \in S
OBVIOUS

LEMMA Away ==
  ASSUME NEW S, NEW s \in Seq(S), NEW n \in 1 .. Len(s)
  PROVE  /\ Table!RemoveAt(s, n) \in Seq(S) /\ Len(Table!RemoveAt(s, n)) = Len(s) - 1
         /\ Len(s) \in Nat
         /\ \A k \in 1 .. (n - 1) : Table!RemoveAt(s, n)[k] = s[k]
         /\ \A k \in n .. (Len(s) - 1) : Table!RemoveAt(s, n)[k] = s[k + 1]
<1> DEFINE a == SubSeq(s, 1, n - 1)  b == SubSeq(s, n + 1, Len(s))
<1>1. /\ a \in Seq(S) /\ Len(a) = n - 1 /\ \A k \in 1 .. (n - 1) : a[k] = s[k]
      /\ Len(s) \in Nat
  OBVIOUS
<1>2. /\ b \in Seq(S) /\ Len(b) = Len(s) - n
      /\ \A k \in 1 .. (Len(s) - n) : b[k] = s[n + k]
  OBVIOUS
<1> HIDE DEF a, b
<1>3. /\ a \o b \in Seq(S) /\ Len(a \o b) = Len(s) - 1
      /\ \A k \in 1 .. (n - 1) : (a \o b)[k] = a[k]
      /\ \A k \in 1 .. (Len(s) - n) : (a \o b)[(n - 1) + k] = b[k]
  <2>1. a \o b \in Seq(S) /\ Len(a \o b) = Len(a) + Len(b)
    BY <1>1, <1>2, ConcatProperties
  <2>2. Len(a \o b) = Len(s) - 1
    BY <1>1, <1>2, <2>1
  <2>3. ASSUME NEW k \in 1 .. (n - 1) PROVE (a \o b)[k] = a[k]
    BY <1>1, <1>2
  <2>4. ASSUME NEW k \in 1 .. (Len(s) - n) PROVE (a \o b)[(n - 1) + k] = b[k]
    BY <1>1, <1>2
  <2> QED
    BY <2>1, <2>2, <2>3, <2>4
<1>4. \A k \in n .. (Len(s) - 1) : /\ k - (n - 1) \in 1 .. (Len(s) - n)
                                   /\ n + (k - (n - 1)) = k + 1
                                   /\ (n - 1) + (k - (n - 1)) = k
  BY <1>1
<1>5. ASSUME NEW k \in n .. (Len(s) - 1) PROVE (a \o b)[k] = s[k + 1]
  <2> DEFINE j == k - (n - 1)
  <2>1. j \in 1 .. (Len(s) - n) /\ n + j = k + 1 /\ (n - 1) + j = k
    BY <1>4
  <2> HIDE DEF j
  <2>2. (a \o b)[(n - 1) + j] = s[n + j]
    BY <1>2, <1>3, <2>1
  <2> QED
    BY <2>1, <2>2
<1> QED
  BY <1>1, <1>3, <1>5 DEF Table!RemoveAt, a, b

LEMMA TableInit == Table!Init => TableInv
<1> SUFFICES ASSUME Table!Init PROVE TableInv
  OBVIOUS
<1> USE TableConstants
<1>1. TableTypes
  BY DEF Table!Init, TableTypes, Table!NoIterator
<1>2. \A b \in Table!Buckets : Len(list[b]) = 0
  BY DEF Table!Init
<1>3. InBuckets /\ CopiesAreOldest
  BY <1>2 DEF InBuckets, CopiesAreOldest, Table!Init
<1>4. InIterator /\ Iterating
  BY DEF Table!Init, InIterator, Iterating, Table!NoIterator
<1> QED
  BY <1>1, <1>3, <1>4 DEF TableInv

-----------------------------------------------------------------------------
\* When nothing that was known is taken from the lists but what must no longer be given,
\* and nothing is put before what is left to the iterator, the iteration goes on.
LEMMA IteratingStays ==
  ASSUME Iterating, got' = got, iterator'[1] = iterator[1],
         iterator # Table!NoIterator \/ iterator' = iterator,
         serial \in Nat, serial' \in Nat, serial <= serial',
         got \in Seq(Item), got' \in Seq(Item),
         \A e \in Item : e[2] < serial /\ ToGive(e)' => ToGive(e),
         \A e \in whole' : e \in whole /\ (ToGive(e) => ToGive(e)')
  PROVE  Iterating'
<1> SUFFICES ASSUME iterator' # Table!NoIterator PROVE
       /\ Once(got)
       /\ \A k \in 1 .. Len(got) : got[k][2] < serial' /\ ~ToGive(got[k])'
       /\ \A e \in whole' : InSeq(e, got) \/ ToGive(e)'
  BY DEF Iterating, Table!NoIterator
<1>1. iterator # Table!NoIterator
  OBVIOUS
<1>2. \A k \in 1 .. Len(got) : got[k] \in Item /\ got[k][2] \in Nat
  BY DEF Item
<1> QED
  BY <1>1, <1>2 DEF Iterating

LEMMA TableStays ==
  ASSUME TableInv, running' \in BOOLEAN,
         UNCHANGED <<list, sentinel, serial, iterator, got, whole>>
  PROVE  TableInv'
<1>1. TableTypes'
  BY DEF TableInv, TableTypes
<1>2. InBuckets' /\ CopiesAreOldest'
  BY DEF TableInv, InBuckets, CopiesAreOldest
<1>3. InIterator' /\ Iterating'
  BY DEF TableInv, InIterator, Iterating, ToGive, Ahead
<1> QED
  BY <1>1, <1>2, <1>3 DEF TableInv

\* The facts of the invariant that the steps use.
LEMMA InvTable ==
  ASSUME TableInv
  PROVE  /\ list \in [Table!Buckets -> Seq(Item)] /\ sentinel \in [Table!Buckets -> BOOLEAN]
         /\ serial \in 0 .. MaxAdds /\ serial \in Nat /\ running \in BOOLEAN
         /\ iterator \in (-1 .. MaxHash) \X Nat /\ iterator[1] \in -1 .. MaxHash
         /\ iterator[1] \in Int /\ iterator[2] \in Nat
         /\ got \in Seq(Item)
         /\ \A b \in Table!Buckets : list[b] \in Seq(Item) /\ Len(list[b]) \in Nat
         /\ \A b \in Table!Buckets : \A n \in 1 .. Len(list[b]) :
                list[b][n] \in Item /\ list[b][n][1] \in Key /\ list[b][n][2] \in Nat
         /\ InBuckets /\ CopiesAreOldest /\ InIterator /\ Iterating
<1>1. /\ TableTypes /\ InBuckets /\ CopiesAreOldest /\ InIterator /\ Iterating
      /\ MaxHash \in Nat /\ MaxAdds \in Nat
  BY TableConstants DEF TableInv
<1>2. /\ \A x \in (-1 .. MaxHash) \X Nat : x[1] \in -1 .. MaxHash /\ x[1] \in Int /\ x[2] \in Nat
      /\ \A x \in Item : x[1] \in Key /\ x[2] \in Nat
      /\ \A x \in Seq(Item) : Len(x) \in Nat /\ \A n \in 1 .. Len(x) : x[n] \in Item
  BY <1>1 DEF Item
<1> QED
  BY <1>1, <1>2 DEF TableTypes

LEMMA AddHolds ==
  ASSUME TableInv, NEW k \in Key, Table!Add(k)
  PROVE  TableInv'
<1> USE TableConstants
<1> DEFINE b == Table!Slot(k)  e == <<k, serial>>  s == list[b]  m == Len(s)
<1>0. CASE Table!Crash
  BY <1>0, TableStays DEF Table!Crash
<1>1. SUFFICES ASSUME /\ Table!FindKey(b, k) = {} /\ serial < MaxAdds
                      /\ list' = [list EXCEPT ![b] = <<e>> \o @] /\ serial' = serial + 1
                      /\ UNCHANGED <<sentinel, running, iterator, got, whole>>
               PROVE  TableInv'
  BY <1>0 DEF Table!Add, Table!AddElem
<1>2. /\ b \in Table!Buckets /\ s \in Seq(Item) /\ m \in Nat /\ e \in Item
      /\ e[1] = k /\ e[2] = serial /\ serial \in Nat
  BY InvTable DEF Item
<1> HIDE DEF e
<1>3. /\ list' \in [Table!Buckets -> Seq(Item)]
      /\ list'[b] \in Seq(Item) /\ Len(list'[b]) = m + 1 /\ list'[b][1] = e
      /\ \A n \in 1 .. m : list'[b][n + 1] = s[n] /\ s[n] \in Item
      /\ \A c \in Table!Buckets : c # b => list'[c] = list[c]
  <2>1. /\ <<e>> \o s \in Seq(Item) /\ Len(<<e>> \o s) = m + 1
        /\ (<<e>> \o s)[1] = e
        /\ \A n \in 1 .. m : (<<e>> \o s)[n + 1] = s[n] /\ s[n] \in Item
    BY <1>2, InFront
  <2> QED
    BY <1>1, <1>2, <2>1, InvTable
<1>4. \A n \in 1 .. (m + 1) : n # 1 => n - 1 \in 1 .. m /\ list'[b][n] = s[n - 1]
  <2> SUFFICES ASSUME NEW n \in 1 .. (m + 1), n # 1
               PROVE  n - 1 \in 1 .. m /\ list'[b][n] = s[n - 1]
    OBVIOUS
  <2> DEFINE j == n - 1
  <2>1. j \in 1 .. m /\ j + 1 = n
    BY <1>2
  <2> HIDE DEF j
  <2>2. list'[b][j + 1] = s[j]
    BY <1>3, <2>1
  <2> QED
    BY <2>1, <2>2 DEF j
<1> HIDE DEF b, s, m
<1>5. TableTypes'
  BY <1>1, <1>3, InvTable DEF TableTypes
<1>6. InBuckets'
  <2> SUFFICES ASSUME NEW c \in Table!Buckets
               PROVE  /\ Len(list'[c]) <= serial'
                      /\ \A n \in 1 .. Len(list'[c]) :
                             Table!Slot(list'[c][n][1]) = c /\ list'[c][n][2] < serial'
                      /\ \A i1, n \in 1 .. Len(list'[c]) :
                             i1 < n => list'[c][i1][2] > list'[c][n][2]
    BY DEF InBuckets
  <2>1. InBuckets
    BY InvTable
  <2>2. CASE c # b
    <3>1. /\ Len(list[c]) <= serial /\ Len(list[c]) \in Nat
          /\ \A n \in 1 .. Len(list[c]) : /\ Table!Slot(list[c][n][1]) = c
                                          /\ list[c][n][2] < serial /\ list[c][n][2] \in Nat
          /\ \A i1, n \in 1 .. Len(list[c]) : i1 < n => list[c][i1][2] > list[c][n][2]
      BY <2>1, InvTable DEF InBuckets
    <3>2. \A j \in Nat : j < serial => j < serial'
      BY <1>1, <1>2
    <3>3. list'[c] = list[c] /\ Len(list[c]) <= serial'
      BY <1>1, <1>2, <1>3, <2>2, <3>1
    <3> QED
      BY <3>1, <3>2, <3>3
  <2>3. CASE c = b
    <3>1. /\ m <= serial
          /\ \A n \in 1 .. m : Table!Slot(s[n][1]) = b /\ s[n][2] < serial /\ s[n][2] \in Nat
          /\ \A i1, n \in 1 .. m : i1 < n => s[i1][2] > s[n][2]
      BY <1>2, <2>1, InvTable DEF InBuckets, s, m
    <3>2. ASSUME NEW n \in 1 .. (m + 1)
          PROVE  Table!Slot(list'[b][n][1]) = b /\ list'[b][n][2] < serial + 1
      <4>1. CASE n = 1
        <5>1. Table!Slot(k) = b
          BY DEF b
        <5> QED
          BY <1>2, <1>3, <4>1, <5>1
      <4>2. CASE n # 1
        <5>1. n - 1 \in 1 .. m /\ list'[b][n] = s[n - 1]
          BY <1>4, <4>2
        <5>2. Table!Slot(s[n - 1][1]) = b /\ s[n - 1][2] < serial /\ s[n - 1][2] \in Nat
          BY <3>1, <5>1
        <5>3. s[n - 1][2] < serial + 1
          BY <1>2, <5>2
        <5> QED
          BY <5>1, <5>2, <5>3
      <4> QED
        BY <4>1, <4>2
    <3>3. ASSUME NEW i1 \in 1 .. (m + 1), NEW n \in 1 .. (m + 1), i1 < n
          PROVE  list'[b][i1][2] > list'[b][n][2]
      <4>1. n # 1 /\ n - 1 \in 1 .. m /\ list'[b][n] = s[n - 1]
        BY <1>2, <1>4, <3>3
      <4>2. CASE i1 = 1
        BY <1>2, <1>3, <3>1, <4>1, <4>2
      <4>3. CASE i1 # 1
        <5>1. i1 - 1 \in 1 .. m /\ list'[b][i1] = s[i1 - 1] /\ i1 - 1 < n - 1
          BY <1>2, <1>4, <3>3, <4>3
        <5> QED
          BY <3>1, <4>1, <5>1
      <4> QED
        BY <4>2, <4>3
    <3>4. m + 1 <= serial'
      BY <1>1, <1>2, <3>1
    <3>5. Len(list'[c]) = m + 1 /\ serial' = serial + 1
      BY <1>1, <1>3, <2>3
    <3> QED
      BY <2>3, <3>2, <3>3, <3>4, <3>5
  <2> QED
    BY <2>2, <2>3
<1>7. CopiesAreOldest'
  <2> SUFFICES ASSUME NEW c \in Table!Buckets,
                      NEW i1 \in 1 .. Len(list'[c]), NEW n \in 1 .. Len(list'[c]),
                      i1 < n, list'[c][i1][1] = list'[c][n][1]
               PROVE  n = Len(list'[c])
    BY DEF CopiesAreOldest
  <2>1. CASE c # b
    BY <1>3, <2>1, InvTable DEF CopiesAreOldest
  <2>2. CASE c = b
    <3>1. n # 1 /\ n - 1 \in 1 .. m /\ list'[b][n] = s[n - 1]
      BY <1>2, <1>3, <1>4, <2>2
    <3>2. CASE i1 = 1
      <4>1. s[n - 1][1] = k
        BY <1>2, <1>3, <2>2, <3>1, <3>2
      <4>2. n - 1 \notin 1 .. (m - 1)
        BY <1>1, <1>2, <4>1 DEF Table!FindKey, s, m
      <4> QED
        BY <1>2, <1>3, <2>2, <3>1, <4>2
    <3>3. CASE i1 # 1
      <4>1. i1 - 1 \in 1 .. m /\ list'[b][i1] = s[i1 - 1] /\ i1 - 1 < n - 1
        BY <1>2, <1>3, <1>4, <2>2, <3>3
      <4>2. n - 1 = m
        BY <1>2, <2>2, <3>1, <4>1, InvTable DEF CopiesAreOldest, s, m
      <4> QED
        BY <1>2, <1>3, <2>2, <3>1, <4>2
    <3> QED
      BY <3>2, <3>3
  <2> QED
    BY <2>1, <2>2
<1>8. InIterator'
  BY <1>1, <1>2, <1>3, InvTable DEF InIterator, m, s
<1>9. ASSUME NEW x \in Item
      PROVE  /\ x[2] < serial /\ ToGive(x)' => ToGive(x)
             /\ ToGive(x) => ToGive(x)'
  <2>1. \A n \in 1 .. m : /\ n + 1 \in 1 .. (m + 1) /\ n + 1 # 1
                          /\ (n + 1 > (m + 1) - iterator[2] <=> n > m - iterator[2])
    <3> DEFINE i2 == iterator[2]
    <3>1. m \in Nat /\ i2 \in Int
      BY <1>2, InvTable
    <3> HIDE DEF i2, m
    <3>2. \A n \in 1 .. m : /\ n + 1 \in 1 .. (m + 1) /\ n + 1 # 1
                            /\ (n + 1 > (m + 1) - i2 <=> n > m - i2)
      BY <3>1
    <3> QED
      BY <3>2 DEF i2
  <2>2. ASSUME NEW n \in 1 .. m, s[n] = x, Ahead(b, n)
        PROVE  list'[b][n + 1] = x /\ Ahead(b, n + 1)'
    BY <1>1, <1>3, <2>1, <2>2 DEF Ahead, s, m
  <2>3. ASSUME NEW n \in 1 .. (m + 1), list'[b][n] = x, Ahead(b, n)', x[2] < serial
        PROVE  n - 1 \in 1 .. m /\ s[n - 1] = x /\ Ahead(b, n - 1)
    <3>1. n # 1
      BY <1>2, <1>3, <2>3
    <3>2. n - 1 \in 1 .. m /\ s[n - 1] = x
      BY <1>4, <2>3, <3>1
    <3>3. n > (m + 1) - iterator[2] <=> n - 1 > m - iterator[2]
      <4> DEFINE i2 == iterator[2]
      <4>1. n \in Nat /\ m \in Nat /\ i2 \in Int
        BY <1>2, InvTable
      <4> HIDE DEF i2, m
      <4>2. n > (m + 1) - i2 <=> n - 1 > m - i2
        BY <4>1
      <4> QED
        BY <4>2 DEF i2
    <3> QED
      BY <1>1, <1>3, <2>3, <3>2, <3>3 DEF Ahead, s, m
  <2>4. ASSUME NEW c \in Table!Buckets, c # b
        PROVE  \A n \in 1 .. Len(list[c]) : Ahead(c, n)' <=> Ahead(c, n)
    BY <1>1, <1>3, <2>4 DEF Ahead
  <2>5. ASSUME ToGive(x) PROVE ToGive(x)'
    <3>0. PICK c \in Table!Buckets : \E n \in 1 .. Len(list[c]) : list[c][n] = x /\ Ahead(c, n)
      BY <2>5 DEF ToGive
    <3>1. PICK n \in 1 .. Len(list[c]) : list[c][n] = x /\ Ahead(c, n)
      BY <3>0
    <3>2. CASE c = b
      BY <1>2, <1>3, <2>1, <2>2, <3>1, <3>2 DEF ToGive, s, m
    <3>3. CASE c # b
      BY <1>3, <2>4, <3>1, <3>3 DEF ToGive
    <3> QED
      BY <3>2, <3>3
  <2>6. ASSUME ToGive(x)', x[2] < serial PROVE ToGive(x)
    <3>0. PICK c \in Table!Buckets :
                 \E n \in 1 .. Len(list'[c]) : list'[c][n] = x /\ Ahead(c, n)'
      BY <2>6 DEF ToGive
    <3>1. PICK n \in 1 .. Len(list'[c]) : list'[c][n] = x /\ Ahead(c, n)'
      BY <3>0
    <3>2. CASE c = b
      <4>1. n - 1 \in 1 .. m /\ s[n - 1] = x /\ Ahead(b, n - 1)
        BY <1>3, <2>3, <2>6, <3>1, <3>2
      <4> QED
        BY <1>2, <4>1 DEF ToGive, s, m
    <3>3. CASE c # b
      BY <1>3, <2>4, <3>1, <3>3 DEF ToGive
    <3> QED
      BY <3>2, <3>3
  <2> QED
    BY <2>5, <2>6
<1>10. Iterating'
  <2>1. \A x \in whole : ToGive(x) => x \in Item
    BY InvTable DEF ToGive
  <2> QED
    BY <1>1, <1>2, <1>5, <1>9, <2>1, IteratingStays, InvTable
<1> QED
  BY <1>5, <1>6, <1>7, <1>8, <1>10 DEF TableInv

\* The indices before an element was removed.
Old(n, k) == IF k < n THEN k ELSE k + 1

Renumbers(m, n) ==
    /\ \A k \in 1 .. (m - 1) : Old(n, k) \in 1 .. m /\ Old(n, k) # n
    /\ \A j, k \in 1 .. (m - 1) : j < k => Old(n, j) < Old(n, k)
    /\ \A k \in 1 .. (m - 1) : Old(n, k) = m => k = m - 1
    /\ \A j \in 1 .. m : j # n => \E k \in 1 .. (m - 1) : j = Old(n, k)

LEMMA OldIndices ==
  ASSUME NEW m \in Nat, NEW n \in 1 .. m
  PROVE  Renumbers(m, n)
<1>1. ASSUME NEW j \in 1 .. m, j # n PROVE \E k \in 1 .. (m - 1) : j = Old(n, k)
  <2>1. CASE j < n
    <3>1. j \in 1 .. (m - 1) /\ j = Old(n, j)
      BY <2>1 DEF Old
    <3> QED
      BY <3>1
  <2>2. CASE j > n
    <3>1. j - 1 \in 1 .. (m - 1) /\ j = Old(n, j - 1)
      BY <2>2 DEF Old
    <3> QED
      BY <3>1
  <2> QED
    BY <1>1, <2>1, <2>2
<1>2. ASSUME NEW k \in 1 .. (m - 1)
      PROVE  Old(n, k) \in 1 .. m /\ Old(n, k) # n /\ (Old(n, k) = m => k = m - 1)
  <2>1. CASE k < n
    BY <2>1 DEF Old
  <2>2. CASE ~(k < n)
    BY <2>2 DEF Old
  <2> QED
    BY <2>1, <2>2
<1>3. ASSUME NEW j \in 1 .. (m - 1), NEW k \in 1 .. (m - 1), j < k
      PROVE  Old(n, j) < Old(n, k)
  <2>1. CASE k < n
    BY <1>3, <2>1 DEF Old
  <2>2. CASE ~(k < n)
    BY <1>3, <2>2 DEF Old
  <2> QED
    BY <2>1, <2>2
<1> QED
  BY <1>1, <1>2, <1>3 DEF Renumbers

LEMMA DelHolds ==
  ASSUME TableInv, NEW k \in Key, Table!Del(k)
  PROVE  TableInv'
<1> USE TableConstants
<1> DEFINE b == Table!Slot(k)  s == list[b]  m == Len(s)  over == iterator[2]
<1>0. CASE Table!Crash
  BY <1>0, TableStays DEF Table!Crash
<1>1. SUFFICES ASSUME NEW n \in Table!FindKey(b, k),
                      n # m - Table!Left(b) + 1,
                      list' = [list EXCEPT ![b] = Table!RemoveAt(@, n)],
                      iterator' = IF n > m - Table!Left(b)
                                  THEN <<b, Table!Left(b) - 1>> ELSE iterator,
                      whole' = whole \ {s[n]},
                      UNCHANGED <<sentinel, serial, running, got>>
               PROVE  TableInv'
  BY <1>0 DEF Table!Del
<1>2. b \in Table!Buckets /\ s \in Seq(Item) /\ m \in Nat /\ n \in 1 .. m
  BY InvTable DEF Table!FindKey
<1>3. /\ list' \in [Table!Buckets -> Seq(Item)]
      /\ list'[b] \in Seq(Item) /\ Len(list'[b]) = m - 1
      /\ \A j \in 1 .. (m - 1) : list'[b][j] = s[Old(n, j)]
      /\ \A c \in Table!Buckets : c # b => list'[c] = list[c]
  <2> DEFINE r == Table!RemoveAt(s, n)
  <2>1. /\ r \in Seq(Item) /\ Len(r) = m - 1
        /\ \A j \in 1 .. (n - 1) : r[j] = s[j]
        /\ \A j \in n .. (m - 1) : r[j] = s[j + 1]
    BY <1>2, Away
  <2> HIDE DEF r
  <2>2. ASSUME NEW j \in 1 .. (m - 1) PROVE r[j] = s[Old(n, j)]
    <3>1. j \in 1 .. (n - 1) \/ j \in n .. (m - 1)
      BY <1>2
    <3> QED
      BY <1>2, <2>1, <3>1 DEF Old
  <2> QED
    BY <1>1, <1>2, <2>1, <2>2, InvTable DEF r
<1>4. /\ \A j \in 1 .. (m - 1) : Old(n, j) \in 1 .. m /\ Old(n, j) # n
      /\ \A i1, j \in 1 .. (m - 1) : i1 < j => Old(n, i1) < Old(n, j)
      /\ \A j \in 1 .. (m - 1) : Old(n, j) = m => j = m - 1
      /\ \A j \in 1 .. m : j # n => \E i1 \in 1 .. (m - 1) : j = Old(n, i1)
  <2>1. Renumbers(m, n)
    BY <1>2, OldIndices
  <2> QED
    BY <2>1, Zenon DEF Renumbers
<1>5. /\ iterator' \in (-1 .. MaxHash) \X Nat /\ iterator'[1] = iterator[1]
      /\ iterator[1] # b => iterator' = iterator
      /\ iterator[1] = b => /\ over <= m /\ n # m - over + 1
                            /\ iterator'[2] = IF n > m - over THEN over - 1 ELSE over
  <2>1. iterator = <<iterator[1], over>> /\ over \in Nat /\ iterator[1] = b => over <= m
    BY <1>2, InvTable DEF InIterator
  <2>2. CASE iterator[1] # b
    <3>1. ~(n > m - Table!Left(b))
      BY <1>2, <2>2 DEF Table!Left
    <3> QED
      BY <1>1, <2>2, <3>1, InvTable
  <2>3. CASE iterator[1] = b
    <3>1. Table!Left(b) = over /\ over <= m
      BY <2>3, <1>2, InvTable DEF Table!Left, InIterator
    <3>2. n > m - over => over - 1 \in Nat
      BY <1>2, InvTable, <3>1
    <3>3. b \in -1 .. MaxHash
      BY <1>2
    <3>4. CASE n > m - over
      <4>1. iterator' = <<b, over - 1>>
        BY <1>1, <3>1, <3>4
      <4> QED
        BY <1>1, <2>3, <3>1, <3>2, <3>3, <3>4, <4>1
    <3>5. CASE ~(n > m - over)
      BY <1>1, <2>3, <3>1, <3>5, InvTable
    <3> QED
      BY <3>4, <3>5
  <2> QED
    BY <2>2, <2>3
<1> HIDE DEF b
<1>6. TableTypes'
  BY <1>1, <1>3, <1>5, InvTable DEF TableTypes
<1>7. InBuckets'
  <2> SUFFICES ASSUME NEW c \in Table!Buckets
               PROVE  /\ Len(list'[c]) <= serial
                      /\ \A j \in 1 .. Len(list'[c]) :
                             Table!Slot(list'[c][j][1]) = c /\ list'[c][j][2] < serial
                      /\ \A i1, j \in 1 .. Len(list'[c]) :
                             i1 < j => list'[c][i1][2] > list'[c][j][2]
    BY <1>1 DEF InBuckets
  <2>1. /\ Len(list[c]) <= serial /\ Len(list[c]) \in Nat
        /\ \A j \in 1 .. Len(list[c]) : Table!Slot(list[c][j][1]) = c /\ list[c][j][2] < serial
        /\ \A i1, j \in 1 .. Len(list[c]) : i1 < j => list[c][i1][2] > list[c][j][2]
    BY InvTable DEF InBuckets
  <2>2. CASE c # b
    BY <1>3, <2>1, <2>2
  <2>3. CASE c = b
    <3>1. m - 1 <= serial
      BY <1>2, <2>1, <2>3, InvTable
    <3>2. ASSUME NEW j \in 1 .. (m - 1)
          PROVE  Table!Slot(list'[b][j][1]) = b /\ list'[b][j][2] < serial
      <4>1. list'[b][j] = s[Old(n, j)] /\ Old(n, j) \in 1 .. m
        BY <1>3, <1>4
      <4>2. Table!Slot(s[Old(n, j)][1]) = b /\ s[Old(n, j)][2] < serial
        BY <2>1, <2>3, <4>1
      <4> QED
        BY <4>1, <4>2
    <3>3. ASSUME NEW i1 \in 1 .. (m - 1), NEW j \in 1 .. (m - 1), i1 < j
          PROVE  list'[b][i1][2] > list'[b][j][2]
      <4>1. Old(n, i1) \in 1 .. m /\ Old(n, j) \in 1 .. m /\ Old(n, i1) < Old(n, j)
        BY <1>4, <3>3
      <4>2. s[Old(n, i1)][2] > s[Old(n, j)][2]
        BY <2>1, <2>3, <4>1
      <4> QED
        BY <1>3, <4>2
    <3> QED
      BY <1>3, <2>3, <3>1, <3>2, <3>3
  <2> QED
    BY <2>2, <2>3
<1>8. CopiesAreOldest'
  <2> SUFFICES ASSUME NEW c \in Table!Buckets,
                      NEW i1 \in 1 .. Len(list'[c]), NEW j \in 1 .. Len(list'[c]),
                      i1 < j, list'[c][i1][1] = list'[c][j][1]
               PROVE  j = Len(list'[c])
    BY DEF CopiesAreOldest
  <2>1. CASE c # b
    BY <1>3, <2>1, InvTable DEF CopiesAreOldest
  <2>2. CASE c = b
    <3>1. /\ i1 \in 1 .. (m - 1) /\ j \in 1 .. (m - 1)
          /\ Old(n, i1) \in 1 .. m /\ Old(n, j) \in 1 .. m /\ Old(n, i1) < Old(n, j)
          /\ list'[b][i1] = s[Old(n, i1)] /\ list'[b][j] = s[Old(n, j)]
      BY <1>3, <1>4, <2>2
    <3>2. Old(n, j) = m
      BY <1>2, <2>2, <3>1, InvTable DEF CopiesAreOldest
    <3> QED
      BY <1>3, <1>4, <2>2, <3>1, <3>2
  <2> QED
    BY <2>1, <2>2
<1>9. InIterator'
  <2>1. CASE iterator[1] = b
    <3>0. over \in Nat /\ over <= m /\ n # m - over + 1 /\ n >= 1 /\ n \in Nat /\ n <= m
      BY <1>2, <1>5, <2>1, InvTable
    <3>1. CASE n > m - over
      <4>1. over - 1 <= m - 1
        BY <1>2, <3>0
      <4> QED
        BY <1>2, <1>3, <1>5, <2>1, <3>1, <4>1 DEF InIterator
    <3>2. CASE ~(n > m - over)
      <4>1. over <= m - 1
        BY <1>2, <3>0, <3>2
      <4> QED
        BY <1>2, <1>3, <1>5, <2>1, <3>2, <4>1 DEF InIterator
    <3> QED
      BY <3>1, <3>2
  <2>2. CASE iterator[1] # b
    BY <1>3, <1>5, <2>2, InvTable DEF InIterator
  <2> QED
    BY <2>1, <2>2
<1>10. ASSUME NEW j \in 1 .. (m - 1) PROVE Ahead(b, j)' <=> Ahead(b, Old(n, j))
  <2>1. CASE iterator[1] = b
    <3>1. /\ over \in Nat /\ over <= m /\ n # m - over + 1
          /\ iterator'[2] = IF n > m - over THEN over - 1 ELSE over
      BY <1>5, <2>1, InvTable
    <3>2. j > (m - 1) - iterator'[2] <=> Old(n, j) > m - over
      <4> HIDE DEF m, over
      <4>0. j \in Nat /\ n \in Nat /\ m \in Nat
        BY <1>2
      <4>1. CASE n > m - over
        BY <3>1, <4>0, <4>1 DEF Old
      <4>2. CASE ~(n > m - over)
        BY <3>1, <4>0, <4>2 DEF Old
      <4> QED
        BY <4>1, <4>2
    <3> QED
      BY <1>3, <1>5, <2>1, <3>2 DEF Ahead
  <2>2. CASE iterator[1] # b
    BY <1>5, <2>2 DEF Ahead
  <2> QED
    BY <2>1, <2>2
<1>11. ASSUME NEW c \in Table!Buckets, c # b
       PROVE  \A j \in 1 .. Len(list[c]) : Ahead(c, j)' <=> Ahead(c, j)
  <2>1. list'[c] = list[c]
    BY <1>3, <1>11
  <2>2. CASE iterator[1] = b
    BY <1>5, <1>11, <2>1, <2>2 DEF Ahead
  <2>3. CASE iterator[1] # b
    BY <1>5, <2>1, <2>3 DEF Ahead
  <2> QED
    BY <2>2, <2>3
<1>12. ASSUME NEW x, ToGive(x)' PROVE ToGive(x)
  <2>1. PICK c \in Table!Buckets : \E j \in 1 .. Len(list'[c]) : list'[c][j] = x /\ Ahead(c, j)'
    BY <1>12 DEF ToGive
  <2>2. PICK j \in 1 .. Len(list'[c]) : list'[c][j] = x /\ Ahead(c, j)'
    BY <2>1
  <2>3. CASE c = b
    <3>1. j \in 1 .. (m - 1)
      BY <1>3, <2>3
    <3>2. Old(n, j) \in 1 .. m /\ s[Old(n, j)] = x /\ Ahead(b, Old(n, j))
      BY <1>3, <1>4, <1>10, <2>2, <2>3, <3>1
    <3> QED
      BY <1>2, <3>2 DEF ToGive
  <2>4. CASE c # b
    BY <1>3, <1>11, <2>2, <2>4 DEF ToGive
  <2> QED
    BY <2>3, <2>4
<1>13. ASSUME NEW x, ToGive(x), x # s[n] PROVE ToGive(x)'
  <2>1. PICK c \in Table!Buckets : \E j \in 1 .. Len(list[c]) : list[c][j] = x /\ Ahead(c, j)
    BY <1>13 DEF ToGive
  <2>2. PICK j \in 1 .. Len(list[c]) : list[c][j] = x /\ Ahead(c, j)
    BY <2>1
  <2>3. CASE c = b
    <3>1. j \in 1 .. m /\ j # n
      BY <1>13, <2>2, <2>3
    <3>2. PICK i1 \in 1 .. (m - 1) : j = Old(n, i1)
      BY <1>4, <3>1
    <3>3. list'[b][i1] = x /\ Ahead(b, i1)'
      BY <1>3, <1>10, <2>2, <2>3, <3>2
    <3> QED
      BY <1>2, <1>3, <3>2, <3>3 DEF ToGive
  <2>4. CASE c # b
    BY <1>3, <1>11, <2>2, <2>4 DEF ToGive
  <2> QED
    BY <2>3, <2>4
<1>14. Iterating'
  <2>1. iterator # Table!NoIterator \/ iterator' = iterator
    BY <1>2, <1>5, InvTable DEF Table!NoIterator
  <2>2. \A x \in whole' : x \in whole /\ x # s[n]
    BY <1>1
  <2>3. \A x \in whole' : x \in whole /\ (ToGive(x) => ToGive(x)')
    BY <1>13, <2>2
  <2>4. \A x \in Item : x[2] < serial /\ ToGive(x)' => ToGive(x)
    BY <1>12
  <2>5. /\ Iterating /\ got' = got /\ iterator'[1] = iterator[1]
        /\ serial \in Nat /\ serial' \in Nat /\ serial <= serial'
        /\ got \in Seq(Item) /\ got' \in Seq(Item)
    BY <1>1, <1>5, InvTable
  <2> QED
    BY <2>1, <2>3, <2>4, <2>5, IteratingStays
<1> QED
  BY <1>6, <1>7, <1>8, <1>9, <1>14 DEF TableInv

\* The lists that are built anew are empty, and what was in them need not be given.
LEMMA ClearHolds ==
  ASSUME TableInv, Table!Clear
  PROVE  TableInv'
<1> USE TableConstants
<1>0. CASE Table!Crash
  BY <1>0, TableStays DEF Table!Crash
<1>1. SUFFICES ASSUME NEW upto \in 0 .. MaxHash + 1,
                      iterator[2] = 0,
                      list' = [c \in Table!Buckets |-> IF c < upto THEN <<>> ELSE list[c]],
                      sentinel' = [c \in Table!Buckets |-> IF c < upto THEN TRUE
                                                          ELSE c # upto /\ sentinel[c]],
                      whole' = whole \cap UNION {Table!ToSet(list'[c]) : c \in Table!Buckets},
                      UNCHANGED <<serial, running, iterator, got>>
               PROVE  TableInv'
  BY <1>0 DEF Table!Clear
<1>2. \A c \in Table!Buckets : list'[c] = <<>> \/ list'[c] = list[c]
  BY <1>1
<1>3. <<>> \in Seq(Item) /\ Len(<<>>) = 0
  OBVIOUS
<1>4. TableTypes'
  <2>1. list' \in [Table!Buckets -> Seq(Item)]
    BY <1>1, <1>3, InvTable
  <2>2. \A c \in Table!Buckets : (c # upto /\ sentinel[c]) \in BOOLEAN
    OBVIOUS
  <2>3. sentinel' \in [Table!Buckets -> BOOLEAN]
    BY <1>1, <2>2
  <2> QED
    BY <1>1, <2>1, <2>3, InvTable DEF TableTypes
<1>5. InBuckets' /\ CopiesAreOldest'
  <2>1. InBuckets /\ CopiesAreOldest /\ serial \in Nat /\ serial' = serial
    BY <1>1, InvTable
  <2>2. ASSUME NEW c \in Table!Buckets, list'[c] = list[c]
        PROVE  /\ Len(list'[c]) <= serial'
               /\ \A n \in 1 .. Len(list'[c]) :
                      Table!Slot(list'[c][n][1]) = c /\ list'[c][n][2] < serial'
               /\ \A m, n \in 1 .. Len(list'[c]) : m < n => list'[c][m][2] > list'[c][n][2]
               /\ \A m, n \in 1 .. Len(list'[c]) :
                      m < n /\ list'[c][m][1] = list'[c][n][1] => n = Len(list'[c])
    BY <2>1, <2>2 DEF InBuckets, CopiesAreOldest
  <2>3. ASSUME NEW c \in Table!Buckets, list'[c] = <<>>
        PROVE  Len(list'[c]) <= serial' /\ 1 .. Len(list'[c]) = {}
    BY <1>3, <2>1, <2>3
  <2> QED
    BY <1>2, <2>2, <2>3 DEF InBuckets, CopiesAreOldest
<1>6. InIterator'
  <2>1. InIterator /\ iterator' = iterator /\ iterator[2] = 0
    BY <1>1, InvTable
  <2>2. \A c \in Table!Buckets : Len(list'[c]) \in Nat
    BY <1>4 DEF TableTypes
  <2> QED
    BY <2>1, <2>2 DEF InIterator
<1>7. \A c \in Table!Buckets : \A n \in 1 .. Len(list'[c]) :
          list'[c] = list[c] /\ (Ahead(c, n)' <=> Ahead(c, n))
  BY <1>1, <1>2, <1>3 DEF Ahead
<1>8. \A x : ToGive(x)' => ToGive(x)
  BY <1>7 DEF ToGive
<1>9. ASSUME NEW x \in whole', ToGive(x) PROVE ToGive(x)'
  <2>1. PICK c \in Table!Buckets : x \in Table!ToSet(list'[c])
    BY <1>1, <1>9
  <2>2. PICK n \in 1 .. Len(list'[c]) : list'[c][n] = x
    <3>1. list'[c] \in Seq(Item)
      BY <1>4 DEF TableTypes
    <3> QED
      BY <2>1, <3>1 DEF Table!ToSet
  <2>3. PICK d \in Table!Buckets : \E m \in 1 .. Len(list[d]) : list[d][m] = x /\ Ahead(d, m)
    BY <1>9 DEF ToGive
  <2>4. PICK m \in 1 .. Len(list[d]) : list[d][m] = x /\ Ahead(d, m)
    BY <2>3
  <2>5. list'[c] = list[c] /\ n \in 1 .. Len(list[c]) /\ list[c][n] = x
    BY <1>7, <2>2
  <2>6. c = d
    <3>1. Table!Slot(x[1]) = c
      BY <2>5, InvTable DEF InBuckets
    <3>2. Table!Slot(x[1]) = d
      BY <2>4, InvTable DEF InBuckets
    <3> QED
      BY <3>1, <3>2
  <2>7. Ahead(c, n)
    <3>1. iterator[2] = 0 /\ Len(list[d]) \in Nat
      BY <1>1, InvTable
    <3> QED
      BY <2>4, <2>6, <3>1 DEF Ahead
  <2> QED
    BY <1>7, <2>2, <2>7 DEF ToGive
<1>10. Iterating'
  <2>1. \A x \in whole' : x \in whole /\ (ToGive(x) => ToGive(x)')
    BY <1>1, <1>9
  <2>2. \A x \in Item : x[2] < serial /\ ToGive(x)' => ToGive(x)
    BY <1>8
  <2>3. /\ Iterating /\ got' = got /\ iterator'[1] = iterator[1]
        /\ iterator # Table!NoIterator \/ iterator' = iterator
        /\ serial \in Nat /\ serial' \in Nat /\ serial <= serial'
        /\ got \in Seq(Item) /\ got' \in Seq(Item)
    BY <1>1, InvTable
  <2> QED
    BY <2>1, <2>2, <2>3, IteratingStays
<1> QED
  BY <1>4, <1>5, <1>6, <1>10 DEF TableInv

-----------------------------------------------------------------------------
(* the iterator *)

\* At the first bucket, with everything before it.
LEMMA ConstructHolds ==
  ASSUME TableInv, Table!IteratorConstruct
  PROVE  TableInv'
<1> USE TableConstants
<1>0. CASE Table!Crash
  BY <1>0, TableStays DEF Table!Crash
<1>1. SUFFICES ASSUME iterator' = <<0, Len(list[0])>>, got' = <<>>,
                      whole' = Table!Elements,
                      UNCHANGED <<list, sentinel, serial, running>>
               PROVE  TableInv'
  BY <1>0 DEF Table!IteratorConstruct
<1>2. 0 \in Table!Buckets /\ Len(list[0]) \in Nat
  BY InvTable
<1>3. TableTypes'
  <2>1. <<>> \in Seq(Item)
    OBVIOUS
  <2> QED
    BY <1>1, <1>2, <2>1, InvTable DEF TableTypes
<1>4. InBuckets' /\ CopiesAreOldest'
  BY <1>1, InvTable DEF InBuckets, CopiesAreOldest
<1>5. InIterator'
  BY <1>1, <1>2 DEF InIterator
<1>6. ASSUME NEW x \in Table!Elements PROVE ToGive(x)'
  <2>1. PICK c \in Table!Buckets : x \in Table!ToSet(list[c])
    BY <1>6 DEF Table!Elements
  <2>2. PICK n \in 1 .. Len(list[c]) : list[c][n] = x
    BY <2>1, InvTable DEF Table!ToSet
  <2>3. CASE c > 0
    <3>1. Ahead(c, n)'
      BY <1>1, <2>3 DEF Ahead
    <3> QED
      BY <1>1, <2>2, <3>1 DEF ToGive
  <2>4. CASE c = 0
    <3>1. n > Len(list[0]) - Len(list[0]) /\ n \in Nat
      BY <1>2, <2>2
    <3>2. Ahead(c, n)'
      BY <1>1, <2>4, <3>1 DEF Ahead
    <3> QED
      BY <1>1, <2>2, <3>2 DEF ToGive
  <2> QED
    BY <2>1, <2>3, <2>4
<1>7. Iterating'
  <2>1. Len(got') = 0 /\ Once(got')
    BY <1>1 DEF Once
  <2> QED
    BY <1>1, <1>6, <2>1 DEF Iterating
<1> QED
  BY <1>3, <1>4, <1>5, <1>7 DEF TableInv

LEMMA IteratorDestructHolds ==
  ASSUME TableInv, Table!IteratorDestruct
  PROVE  TableInv'
<1> USE TableConstants
<1>1. /\ iterator' = <<-1, 0>> /\ got' = <<>>
      /\ UNCHANGED <<list, sentinel, serial, running>>
  BY DEF Table!IteratorDestruct, Table!NoIterator
<1>2. TableTypes'
  BY <1>1, InvTable DEF TableTypes
<1>3. InBuckets' /\ CopiesAreOldest'
  BY <1>1, InvTable DEF InBuckets, CopiesAreOldest
<1>4. InIterator' /\ Iterating'
  BY <1>1 DEF InIterator, Iterating, Table!NoIterator
<1> QED
  BY <1>2, <1>3, <1>4 DEF TableInv

\* The oldest element left in the first bucket that has one left.
LEMMA GetHolds ==
  ASSUME TableInv, Table!IteratorGet
  PROVE  TableInv'
<1> USE TableConstants
<1>0. CASE Table!Crash
  BY <1>0, TableStays DEF Table!Crash
<1> DEFINE over(b) == IF b = iterator[1] THEN iterator[2] ELSE Len(list[b])
<1>1. SUFFICES ASSUME NEW b \in Table!NextBuckets, iterator # Table!NoIterator,
                      got' = Append(got, list[b][Len(list[b]) - over(b) + 1]),
                      iterator' = <<b, over(b) - 1>>,
                      UNCHANGED <<list, sentinel, serial, running, whole>>
               PROVE  TableInv'
  BY <1>0 DEF Table!IteratorGet
<1> DEFINE m == Len(list[b])  l == over(b)  p == m - l + 1  e == list[b][p]
<1>2. /\ iterator[1] \in Table!Buckets /\ iterator[2] <= Len(list[iterator[1]])
      /\ iterator[2] \in Nat /\ b \in iterator[1] .. MaxHash /\ b \in Table!Buckets
      /\ Table!HasNext(b) /\ \A c \in iterator[1] .. b - 1 : ~Table!HasNext(c)
  BY <1>1, InvTable DEF InIterator, Table!NextBuckets
<1>3. m \in Nat /\ l \in 1 .. m /\ p \in 1 .. m
  <2>1. list[b] # <<>> => m > 0
    BY <1>2, InvTable
  <2>2. l \in 1 .. m
    BY <1>2, <2>1, InvTable DEF Table!HasNext
  <2> HIDE DEF m, l
  <2>3. m \in Nat
    BY <1>2, InvTable DEF m
  <2> QED
    BY <2>2, <2>3
<1>4. e \in Item /\ e[2] < serial
  BY <1>2, <1>3, InvTable DEF InBuckets
<1>5. iterator' = <<b, l - 1>> /\ iterator'[1] = b /\ iterator'[2] = l - 1
      /\ got' = Append(got, e)
  BY <1>1
<1>6. (b > iterator[1] /\ l = m) \/ (b = iterator[1] /\ l = iterator[2])
  BY <1>2
<1> HIDE DEF l, e
<1>7. ASSUME NEW c \in Table!Buckets, NEW n \in 1 .. Len(list[c]), list[c][n] = e
      PROVE  c = b /\ n = p
  <2>1. Table!Slot(e[1]) = c
    BY <1>7, InvTable DEF InBuckets
  <2>2. Table!Slot(e[1]) = b
    BY <1>2, <1>3, InvTable DEF InBuckets, e
  <2>3. c = b /\ n \in 1 .. m /\ list[b][n][2] = list[b][p][2]
    BY <1>7, <2>1, <2>2 DEF e
  <2>4. \A i1, j \in 1 .. m : i1 < j => list[b][i1][2] > list[b][j][2]
    BY <1>2, InvTable DEF InBuckets
  <2>5. \A j \in 1 .. m : list[b][j][2] \in Nat
    BY <1>2, InvTable
  <2> HIDE DEF p, m
  <2>6. ~(n < p) /\ ~(p < n)
    BY <1>3, <2>3, <2>4, <2>5
  <2> QED
    BY <1>3, <2>3, <2>6
<1>8. ASSUME NEW c \in Table!Buckets, NEW n \in 1 .. Len(list[c]), Ahead(c, n)'
      PROVE  Ahead(c, n) /\ ~(c = b /\ n = p)
  <2>1. CASE c > b
    BY <1>2, <2>1 DEF Ahead
  <2>2. CASE ~(c > b)
    <3>1. c = b /\ n > m - (l - 1) /\ n \in 1 .. m
      BY <1>1, <1>5, <1>8, <2>2 DEF Ahead
    <3>2. n # p /\ n > m - l
      <4> HIDE DEF m
      <4> QED
        BY <1>3, <3>1
    <3> QED
      BY <1>6, <3>1, <3>2 DEF Ahead
  <2> QED
    BY <2>1, <2>2
<1>9. ASSUME NEW c \in Table!Buckets, NEW n \in 1 .. Len(list[c]), Ahead(c, n)
      PROVE  Ahead(c, n)' \/ (c = b /\ n = p)
  <2>1. CASE c > b
    BY <1>5, <2>1 DEF Ahead
  <2>2. CASE c = b
    <3>1. n > m - l /\ n \in 1 .. m
      BY <1>3, <1>6, <1>9, <2>2 DEF Ahead
    <3>2. n = p \/ n > m - (l - 1)
      <4> HIDE DEF m
      <4> QED
        BY <1>3, <3>1
    <3> QED
      BY <1>1, <1>5, <2>2, <3>2 DEF Ahead
  <2>3. CASE c < b
    <3>1. c \in iterator[1] .. b - 1
      BY <1>2, <1>9, <2>3 DEF Ahead
    <3>2. ~Table!HasNext(c) /\ Len(list[c]) \in Nat
      BY <1>2, <3>1, InvTable
    <3>3. list[c] = <<>> => Len(list[c]) = 0
      OBVIOUS
    <3> QED
      BY <1>2, <1>9, <3>1, <3>2, <3>3 DEF Ahead, Table!HasNext
  <2> QED
    BY <1>2, <2>1, <2>2, <2>3
<1>10. TableTypes'
  <2>1. got' \in Seq(Item)
    BY <1>4, <1>5, InvTable, AppendElements
  <2>2. iterator' \in (-1 .. MaxHash) \X Nat
    <3>1. b \in -1 .. MaxHash /\ l - 1 \in Nat
      BY <1>2, <1>3
    <3> QED
      BY <1>5, <3>1
  <2> QED
    BY <1>1, <2>1, <2>2, InvTable DEF TableTypes
<1>11. InBuckets' /\ CopiesAreOldest'
  BY <1>1, InvTable DEF InBuckets, CopiesAreOldest
<1>12. InIterator'
  <2>1. l - 1 <= m /\ b \in Table!Buckets
    BY <1>2, <1>3
  <2> QED
    BY <1>1, <1>5, <2>1 DEF InIterator
<1>13. ToGive(e)
  <2>1. Ahead(b, p)
    BY <1>3, <1>6 DEF Ahead
  <2> QED
    BY <1>2, <1>3, <2>1 DEF ToGive, e
<1>14. ASSUME NEW x, ToGive(x)' PROVE ToGive(x) /\ x # e
  <2>1. PICK c \in Table!Buckets : \E n \in 1 .. Len(list[c]) : list[c][n] = x /\ Ahead(c, n)'
    BY <1>1, <1>14 DEF ToGive
  <2>2. PICK n \in 1 .. Len(list[c]) : list[c][n] = x /\ Ahead(c, n)'
    BY <2>1
  <2>3. Ahead(c, n) /\ ~(c = b /\ n = p)
    BY <1>8, <2>2
  <2> QED
    BY <1>7, <2>2, <2>3 DEF ToGive
<1>15. ASSUME NEW x, ToGive(x), x # e PROVE ToGive(x)'
  <2>1. PICK c \in Table!Buckets : \E n \in 1 .. Len(list[c]) : list[c][n] = x /\ Ahead(c, n)
    BY <1>15 DEF ToGive
  <2>2. PICK n \in 1 .. Len(list[c]) : list[c][n] = x /\ Ahead(c, n)
    BY <2>1
  <2>3. Ahead(c, n)'
    BY <1>9, <1>15, <2>2 DEF e
  <2> QED
    BY <1>1, <2>2, <2>3 DEF ToGive
<1>16. Iterating'
  <2>1. /\ Once(got)
        /\ \A k \in 1 .. Len(got) : got[k][2] < serial /\ ~ToGive(got[k])
        /\ \A x \in whole : InSeq(x, got) \/ ToGive(x)
        /\ got \in Seq(Item)
    BY <1>1, InvTable DEF Iterating
  <2>2. ~InSeq(e, got)
    BY <1>13, <2>1 DEF InSeq
  <2>3. /\ \A t : InSeq(t, got') <=> InSeq(t, got) \/ t = e
        /\ Once(got')
    BY <1>4, <1>5, <2>1, <2>2, InSeqAppend
  <2>4. \A t : InSeq(t, got') => t[2] < serial /\ ~ToGive(t)'
    BY <1>4, <1>14, <2>1, <2>3 DEF InSeq
  <2>5. \A k \in 1 .. Len(got') : got'[k][2] < serial' /\ ~ToGive(got[k])'
    BY <1>1, <2>4 DEF InSeq
  <2>6. \A x \in whole' : InSeq(x, got') \/ ToGive(x)'
    BY <1>1, <1>15, <2>1, <2>3
  <2> QED
    BY <2>3, <2>5, <2>6 DEF Iterating
<1> QED
  BY <1>10, <1>11, <1>12, <1>16 DEF TableInv

-----------------------------------------------------------------------------
(* the program *)

LEMMA TableInvariance ==
  ASSUME TableInv, [Next]_vars
  PROVE  TableInv'
<1>1. CASE UNCHANGED tableVars
  BY <1>1, TableStays, InvTable DEF tableVars
<1>2. CASE Table!Next
  <2>1. ASSUME NEW k \in Key, Table!Add(k) PROVE TableInv'
    BY <2>1, AddHolds
  <2>2. ASSUME NEW k \in Key, Table!Del(k) PROVE TableInv'
    BY <2>2, DelHolds
  <2>3. CASE Table!Clear
    BY <2>3, ClearHolds
  <2>4. CASE Table!Destruct
    BY <2>4, TableStays DEF Table!Destruct, Table!Crash
  <2>5. CASE Table!IteratorConstruct
    BY <2>5, ConstructHolds
  <2>6. CASE Table!IteratorGet
    BY <2>6, GetHolds
  <2>7. CASE Table!IteratorDestruct
    BY <2>7, IteratorDestructHolds
  <2> QED
    BY <1>2, <2>1, <2>2, <2>3, <2>4, <2>5, <2>6, <2>7 DEF Table!Next
<1>3. UNCHANGED tableVars \/ Table!Next
  BY DEF Next, Step, Kill, Call, vars, RunShmem, RunFifo, RunSignal, RunSelect, RunMsg,
         RunNewton, RunNet, RunTable
<1> QED
  BY <1>1, <1>2, <1>3

\* A bucket with an element left is not the one that ht_iterate fails to find.
LEMMA NothingLeft ==
  ASSUME TableInv, iterator # Table!NoIterator, Table!NextBuckets = {}, NEW x
  PROVE  ~ToGive(x)
<1> USE TableConstants
<1> SUFFICES ASSUME ToGive(x) PROVE FALSE
  OBVIOUS
<1>1. PICK c \in Table!Buckets : \E n \in 1 .. Len(list[c]) : list[c][n] = x /\ Ahead(c, n)
  BY DEF ToGive
<1>2. PICK n \in 1 .. Len(list[c]) : list[c][n] = x /\ Ahead(c, n)
  BY <1>1
<1> DEFINE T == {d \in iterator[1] .. MaxHash : Table!HasNext(d)}
<1>3. iterator[1] \in Table!Buckets /\ iterator[1] \in Nat
  BY InvTable DEF InIterator
<1>4. c \in T
  <2>1. c \in iterator[1] .. MaxHash
    BY <1>2, <1>3 DEF Ahead
  <2>2. Len(list[c]) \in Nat /\ Len(list[c]) >= 1 /\ list[c] # <<>>
    BY <1>2, InvTable
  <2>3. c = iterator[1] => iterator[2] > 0
    BY <1>2, <2>2, InvTable DEF Ahead
  <2> QED
    BY <2>1, <2>2, <2>3 DEF Table!HasNext
<1>5. T \subseteq Nat
  BY <1>3
<1>6. PICK d \in T : \A y \in T : d <= y
  BY <1>4, <1>5, NatLeast
<1>7. d \in Table!NextBuckets
  <2>1. \A y \in iterator[1] .. d - 1 : y \notin T
    BY <1>3, <1>5, <1>6
  <2>2. \A y \in iterator[1] .. d - 1 : y \in iterator[1] .. MaxHash
    BY <1>3, <1>5, <1>6
  <2> QED
    BY <1>6, <2>1, <2>2 DEF Table!NextBuckets
<1> QED
  BY <1>7

LEMMA TableTypeOK == TableInv => Table!TypeOK
<1> SUFFICES ASSUME TableInv PROVE Table!TypeOK
  OBVIOUS
<1> USE TableConstants
<1>1. \A x \in Table!Elements : x \in Key \X (0 .. MaxAdds - 1)
  <2> SUFFICES ASSUME NEW c \in Table!Buckets, NEW x \in Table!ToSet(list[c])
               PROVE  x \in Key \X (0 .. MaxAdds - 1)
    BY DEF Table!Elements
  <2>1. PICK n \in 1 .. Len(list[c]) : list[c][n] = x
    BY InvTable DEF Table!ToSet
  <2>2. x \in Item /\ x[2] < serial /\ serial \in 0 .. MaxAdds
    BY <2>1, InvTable DEF InBuckets
  <2>3. x = <<x[1], x[2]>> /\ x[1] \in Key /\ x[2] \in Nat
    BY <2>2 DEF Item
  <2>4. x[2] \in 0 .. MaxAdds - 1
    BY <2>2, <2>3
  <2> QED
    BY <2>3, <2>4
<1>2. iterator \in (-1 .. MaxHash) \X (0 .. MaxAdds)
  <2>1. iterator = <<iterator[1], iterator[2]>> /\ iterator[1] \in -1 .. MaxHash
    BY InvTable
  <2>2. iterator[2] \in 0 .. MaxAdds
    <3>1. CASE iterator[1] \in Table!Buckets
      <4>1. /\ iterator[2] \in Nat /\ iterator[2] <= Len(list[iterator[1]])
            /\ Len(list[iterator[1]]) \in Nat /\ Len(list[iterator[1]]) <= serial
            /\ serial \in 0 .. MaxAdds
        BY <3>1, InvTable DEF InIterator, InBuckets
      <4> QED
        BY <4>1
    <3>2. CASE iterator[1] \notin Table!Buckets
      BY <3>2, InvTable DEF InIterator, Table!NoIterator
    <3> QED
      BY <3>1, <3>2
  <2> QED
    BY <2>1, <2>2
<1> QED
  BY <1>1, <1>2, InvTable DEF Table!TypeOK

LEMMA TableConsistency == TableInv => TableIsConsistent
<1> SUFFICES ASSUME TableInv
             PROVE  Table!OnlyTheOldestIsCopied /\ Table!IterationIsComplete
  BY DEF TableIsConsistent
<1> USE TableConstants
<1>1. Table!OnlyTheOldestIsCopied
  <2> SUFFICES ASSUME NEW b \in Table!Buckets, NEW m \in DOMAIN list[b], NEW n \in DOMAIN list[b],
                      list[b][m][1] = list[b][n][1]
               PROVE  m = n \/ Len(list[b]) \in {m, n}
    BY DEF Table!OnlyTheOldestIsCopied
  <2>1. m \in 1 .. Len(list[b]) /\ n \in 1 .. Len(list[b]) /\ Len(list[b]) \in Nat
    BY InvTable
  <2>2. m < n \/ m = n \/ n < m
    BY <2>1
  <2>3. CopiesAreOldest
    BY InvTable
  <2> QED
    BY <2>1, <2>2, <2>3 DEF CopiesAreOldest
<1>2. ASSUME iterator # Table!NoIterator
      PROVE  /\ Table!IsInjective(got)
             /\ Table!NextBuckets = {} => whole \subseteq Table!ToSet(got)
  <2>1. got \in Seq(Item) /\ Once(got) /\ \A x \in whole : InSeq(x, got) \/ ToGive(x)
    BY <1>2, InvTable DEF Iterating
  <2>2. Table!IsInjective(got)
    BY <2>1 DEF Table!IsInjective, Once
  <2>3. ASSUME Table!NextBuckets = {}, NEW x \in whole PROVE x \in Table!ToSet(got)
    <3>1. InSeq(x, got)
      BY <1>2, <2>1, <2>3, NothingLeft
    <3> QED
      BY <2>1, <3>1 DEF InSeq, Table!ToSet
  <2> QED
    BY <2>2, <2>3
<1> QED
  BY <1>1, <1>2 DEF Table!IterationIsComplete

\* A second copy of a key is always of the oldest element of its bucket, and an
\* iteration gives every element that stays exactly once, for any keys, hash and table.
THEOREM TableStaysConsistent == FairSpec => []TableIsConsistent
<1>1. Init => TableInv
  BY TableInit DEF Init
<1>2. TableInv /\ [Next]_vars => TableInv'
  BY TableInvariance
<1>3. TableInv => TableIsConsistent
  BY TableConsistency
<1> QED
  BY <1>1, <1>2, <1>3, PTL DEF FairSpec

-----------------------------------------------------------------------------
(* The programs side by side: a step is one of a program, and the variables *)
(* of the others stay.                                                      *)

LEMMA StepsOfOne ==
  ASSUME [Next]_vars
  PROVE  /\ [Fifo!Next]_(Fifo!vars) /\ [Signal!Next]_(Signal!vars)
         /\ [Msg!Next]_(Msg!vars) /\ [Newton!Next]_(Newton!vars) /\ [Net!Next]_(Net!vars)
         /\ (Shmem!Next \/ UNCHANGED shmemVars) /\ (Select!Next \/ UNCHANGED selectVars)
         /\ program' = program
<1>1. UNCHANGED fifoVars \/ Fifo!Next
  BY DEF Next, vars, Step, Kill, Call, Fifo!Next, RunShmem, RunFifo, RunSignal, RunSelect, RunMsg,
         RunNewton, RunNet, RunTable
<1>2. UNCHANGED signalVars \/ Signal!Next
  BY DEF Next, vars, Step, Kill, Call, Signal!Next, RunShmem, RunFifo, RunSignal, RunSelect, RunMsg,
         RunNewton, RunNet, RunTable
<1>3. UNCHANGED msgVars \/ Msg!Next
  BY DEF Next, vars, Step, Kill, Call, Msg!Next, RunShmem, RunFifo, RunSignal, RunSelect, RunMsg,
         RunNewton, RunNet, RunTable
<1>4. UNCHANGED newtonVars \/ Newton!Next
  BY DEF Next, vars, Step, Kill, Call, Newton!Next, RunShmem, RunFifo, RunSignal, RunSelect, RunMsg,
         RunNewton, RunNet, RunTable
<1>5. UNCHANGED netVars \/ Net!Next
  BY DEF Next, vars, Step, Kill, Call, Net!Next, RunShmem, RunFifo, RunSignal, RunSelect, RunMsg,
         RunNewton, RunNet, RunTable
<1>6. [Fifo!Next]_(Fifo!vars)
  BY <1>1 DEF fifoVars, Fifo!vars
<1>7. [Signal!Next]_(Signal!vars)
  BY <1>2 DEF signalVars, Signal!vars
<1>8. [Msg!Next]_(Msg!vars)
  BY <1>3 DEF msgVars, Msg!vars
<1>9. [Newton!Next]_(Newton!vars)
  BY <1>4 DEF newtonVars, Newton!vars, Newton!procs
<1>10. [Net!Next]_(Net!vars)
  BY <1>5 DEF netVars, Net!vars
<1>11. Shmem!Next \/ UNCHANGED shmemVars
  <2>1. {r1, s1} = Shmem!Process
    BY DEF Shmem!Process
  <2> QED
    BY <2>1 DEF Next, vars, Step, Kill, Call, Shmem!Next, RunShmem, RunFifo, RunSignal, RunSelect,
                RunMsg, RunNewton, RunNet, RunTable
<1>12. Select!Next \/ UNCHANGED selectVars
  BY DEF Next, vars, Step, Kill, Call, Select!Next, RunShmem, RunFifo, RunSignal, RunSelect, RunMsg,
         RunNewton, RunNet, RunTable
<1>13. program' = program
  BY DEF Next, vars, Step, Kill, Call, RunShmem, RunFifo, RunSignal, RunSelect, RunMsg,
         RunNewton, RunNet, RunTable
<1> QED
  BY <1>6, <1>7, <1>8, <1>9, <1>10, <1>11, <1>12, <1>13

\* fifo, whoever is killed when: with any number of senders and receivers the types hold, and
\* between two blocks of a sender a receiver prints just the blocks between them in the file.
THEOREM FifoMixesNoFiles ==
  FairSpec => [](Fifo!TypeOK /\ Fifo!FilesNotMixed)
<1>1. Init => FifoInv
  BY FifoInit DEF Init
<1>2. FifoInv /\ [Next]_vars => FifoInv'
  BY FifoInvariance, StepsOfOne
<1>3. FifoInv => Fifo!TypeOK /\ Fifo!FilesNotMixed
  BY FifoFilesNotMixed
<1> QED
  BY <1>1, <1>2, <1>3, PTL DEF FairSpec

\* signal, whoever is killed when: the parent prints the bytes of the file, rebuilt from bits
\* one at a time, and all of them if it ends unkilled after the last bit.
THEOREM SignalCarriesTheFile ==
  FairSpec => [](Signal!TypeOK /\ Signal!PrintsTheFile)
<1>1. Init => SignalInv
  BY SignalInit DEF Init
<1>2. SignalInv /\ [Next]_vars => SignalInv'
  BY SignalInvariance, StepsOfOne
<1>3. SignalInv => Signal!TypeOK /\ Signal!PrintsTheFile
  BY SignalPrintsTheFile
<1> QED
  BY <1>1, <1>2, <1>3, PTL DEF FairSpec

\* The children of a run of msg print in turn; a run of newton that has received messages of
\* its own children only has added their intervals, all and each once, and whoever has
\* received what, no interval is lost or added twice among the runs; the sum of the servers
\* of newton.net is of parts that join.  For any number of runs, children, intervals,
\* servers and processes.
THEOREM SharesAlwaysAddUp == FairSpec => []SharesAddUp
<1>1. Init => MsgInv /\ NewtonInv /\ NetInv
  BY MsgInit, NewtonInit, NetInit DEF Init
<1>2. MsgInv /\ [Next]_vars => MsgInv'
  BY MsgInvariance, StepsOfOne
<1>3. NewtonInv /\ [Next]_vars => NewtonInv'
  BY NewtonInvariance, StepsOfOne
<1>4. NetInv /\ [Next]_vars => NetInv'
  BY NetInvariance, StepsOfOne
<1>5. MsgInv /\ NewtonInv /\ NetInv => SharesAddUp
  BY MsgInTurn, NewtonEachIntervalOnce, NetPrintsOneIntegral DEF SharesAddUp
<1> QED
  BY <1>1, <1>2, <1>3, <1>4, <1>5, PTL DEF FairSpec
=============================================================================
