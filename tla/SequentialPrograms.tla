-------------------------- MODULE SequentialPrograms --------------------------
(***************************************************************************)
(* The algorithms of algos/, the paths of tree_mutex, the CPU and the word  *)
(* table of Ded-C.                                                         *)
(* A behaviour takes one of them and one input, and runs it; the variables *)
(* of the others stay as they are.                                         *)
(***************************************************************************)
EXTENDS Integers, Sequences, FiniteSets, SequencesExt

CONSTANTS MaxCapacity,    \* of a tube
          MaxThreads      \* trees of tree_mutex up to that size

\* Networks of four vertices with tubes both ways between the inner two, the first tube
\* doubled, and a loop.
Networks == {<< <<0, 1, c[1]>>, <<0, 2, c[2]>>, <<1, 2, c[3]>>, <<2, 1, c[4]>>, <<1, 3, c[5]>>,
                <<2, 3, c[6]>>, <<0, 1, 1>>, <<1, 1, 1>> >> : c \in [1 .. 6 -> 0 .. MaxCapacity]}

\* Strings whose substrings are counted: all short ones, some that repeat themselves, and
\* one for which the induced sorting goes three levels deep.
Strings == UNION {[1 .. l -> 1 .. 3] : l \in 1 .. 4} \cup [1 .. 6 -> 1 .. 2]
             \cup {<<1, 2, 1, 1, 3>>, <<2, 1, 2, 1, 2, 1, 1, 2, 1, 2, 1, 2>>,
                   <<1, 2, 1, 2, 1, 2, 2, 1, 2, 1, 2, 2>>, <<3, 1, 2, 3, 1, 2, 3, 1, 2, 1>>,
                   <<3, 1, 3, 3, 1, 3, 2, 3, 1, 3, 2, 3, 1, 3, 2, 3, 1, 3, 2>>}

\* Listings of the CPU: any three statements with an end, a procedure and a label behind it
\* or not; any three that the translator knows; any two of the others on two numbers; and
\* some whose words are not what they seem, that lack an end or a beginning, that say
\* everything twice, and a factorial.
Steps == {<<"PUSH", 1>>, <<"POP_AX">>, <<"PUSH_AX">>, <<"DUP">>, <<"IN">>, <<"CALL", "p">>, <<":", 1>>,
          <<"JMP", 1>>, <<"JA", 1>>, <<"JE", 2>>}
Tails == {<<>>, <<<<"PROC", "p">>, <<"DUP">>, <<"PUSH", 1>>, <<":", 2>>, <<"RET">>>>}
Figures == {<<"PUSH", 0>>, <<"PUSH", 3>>, <<"POP_AX">>, <<"PUSH_AX">>, <<"DUP">>, <<"ADD">>, <<"MUL">>,
            <<"DIV">>, <<"AND">>, <<"OR">>, <<"JAE", 1>>}
Others == {<<c>> : c \in {"SUB", "DIV", "POW", "EQU", "LT", "GT", "SIN", "COS", "SQRT", "NOT", "OUT", "SPC",
                          "DUMP", "ERROR", "POP", "RET", "PUSH_BX", "POP_BX", "PUSH_CX", "POP_DX"}}
          \cup {<<c, 1>> : c \in {"JNE", "JAE", "JB", "JBE", ":"}} \cup {<<"MSG", <<65, 1101>>>>, <<"//">>}
Program(steps) == <<<<"BEGIN">>>> \o steps \o <<<<"END">>>>
CpuListings ==
    {Program(s) \o t : s \in [1 .. 3 -> Steps], t \in Tails}
    \cup {Program(<<<<"PUSH", 0>>, <<"PUSH", 1>>>> \o s) : s \in [1 .. 3 -> Figures]}
    \cup {Program(<<<<"PUSH", 9>>, <<"PUSH", 3>>>> \o s) : s \in [1 .. 2 -> Others]}
    \cup {Program(<<<<"PUSH", c>>>>) : c \in {1102, 1902, 1601, 1000, 9999}}
    \cup {Program(<<<<"PUSH", 2>>, <<"JMP", 1>>>>) \o <<<<"PUSH", 1102>>, <<":", 1>>>>,
           Program(<<<<"PROC", "p">>, <<"PUSH", 1>>, <<"PROC", "q">>>>),
           Program(<<<<"CALL", "q">>>>) \o <<<<"PROC", "p">>, <<"RET">>>>,
           <<<<"BEGIN">>, <<"SPC">>>>, <<<<"SPC">>, <<"END">>>>, <<<<"SPC">>>>,
           Program(<<<<"PUSH", 1>>, <<"PUSH", 3>>, <<"POP_AX">>, <<":", 1>>, <<"PUSH_AX">>, <<"CALL", "p">>,
                     <<"PUSH", 0>>, <<"PUSH_AX">>, <<"JA", 1>>, <<"OUT">>>>)
              \o <<<<"PROC", "p">>, <<"MUL">>, <<"PUSH_AX">>, <<"PUSH", 1>>, <<"SUB">>, <<"POP_AX">>, <<"RET">>>>}

\* Texts of up to four words: "ab", its letters the other way round, and "c,"; a word with
\* a comma in it; words that are just short enough or too long; and text of no words.
TextOf(words) == FlattenSeq([i \in DOMAIN words |-> <<32>> \o words[i]])
WordTexts == {TextOf(words) : words \in UNION {[1 .. l -> {<<97, 98>>, <<66, 65>>, <<99, 44>>}] : l \in 1 .. 4}}
             \cup {TextOf(<<<<97, 98>>, <<97, 44, 66>>>>), <<44, 10>>,
                   TextOf([i \in 1 .. 3 |-> [j \in 1 .. 11 |-> 90 - (i % 2)]]),
                   TextOf(<<<<97>>, [j \in 1 .. 12 |-> 90]>>)}

VARIABLE program        \* the one that is run

VARIABLES edges, flow, networkFlow, fpc, printed
VARIABLES level, visited, queue, deleted, outCapacity, inCapacity, available, chosen, stack, dir
VARIABLES height, usedHeight, excess, pointer, scan, discharged
VARIABLES text, answer, wpc
VARIABLES tree, last, first, offset, point, linkPoint, prevLinkPoint, linkLeft
VARIABLES workers, slots, used, sweep, stage, suffixArray, numbers, counter, prevLMS, lcp, k
VARIABLES board, command, move, discs, turn
VARIABLES n, t, u
VARIABLES listing, code, ip, checked, data, calls, registers, shown, cpu
VARIABLES source, size, hash, rest, buckets, lengths, hpc

networkVars == <<edges, flow, networkFlow, fpc, printed>>
mkmVars == <<level, visited, queue, deleted, outCapacity, inCapacity, available, chosen, stack, dir>>
relabelVars == <<height, usedHeight, excess, pointer, scan, discharged>>
windowVars == <<text, answer, wpc>>
ukkonenVars == <<tree, last, first, offset, point, linkPoint, prevLinkPoint, linkLeft>>
saisVars == <<workers, slots, used, sweep, stage, suffixArray, numbers, counter, prevLMS, lcp, k>>
othelloVars == <<board, command, move, discs, turn>>
treeVars == <<n, t, u>>
cpuVars == <<listing, code, ip, checked, data, calls, registers, shown, cpu>>
wordVars == <<source, size, hash, rest, buckets, lengths, hpc>>
flowVars == <<networkVars, mkmVars, relabelVars>>
textVars == <<windowVars, ukkonenVars, saisVars>>
otherVars == <<othelloVars, treeVars>>
dedVars == <<cpuVars, wordVars>>
vars == <<program, flowVars, textVars, otherVars, dedVars>>

-----------------------------------------------------------------------------
MalhotraKumarMaheshwari == INSTANCE Mkm WITH N <- 4, Graphs <- Networks, pc <- fpc

Relabelling == INSTANCE PushRelabel
                   WITH N <- 4, Graphs <- Networks, DeltaRange <- 4, pc <- fpc

SuffixTree == INSTANCE Ukkonen WITH Windows <- Strings, pc <- wpc

SuffixArray == INSTANCE Sais WITH Windows <- Strings, pc <- wpc, scan <- sweep

\* A board of four by four, up to ten discs.
Game == INSTANCE Othello WITH Size <- 4, MaxDiscs <- 10, printed <- move

\* A state is a tree and two of its threads.
Tree == INSTANCE TournamentTree

PathInit == /\ n \in 1 .. MaxThreads
            /\ t \in 0 .. (n - 1)
            /\ u \in 0 .. (n - 1)

\* IN reads a truth; numbers on stacks and screen are five at most.
Machine == INSTANCE Cpu WITH Listings <- CpuListings, Inputs <- {0, 1}, Room <- 6

\* A key of eleven letters at most.
Table == INSTANCE WordTable WITH Texts <- WordTexts, Sizes <- {0, 1, 3}, MaxLen <- 12

ASSUME ProgramsAssumption ==
    /\ Relabelling!GraphAssumption /\ Relabelling!DeltaAssumption
    /\ SuffixArray!WindowAssumption /\ Game!SizeAssumption /\ MaxThreads \in Nat
    /\ Machine!ListingsAssumption /\ Table!WordsAssumption

-----------------------------------------------------------------------------
\* A program that is not run has one initial state.
Init ==
    /\ program \in {"mkm", "pushrelabel", "ukkonen", "sais", "othello", "tree", "cpu", "words"}
    /\ program \in {"mkm", "pushrelabel"} \/ edges = CHOOSE g \in Networks : TRUE
    /\ MalhotraKumarMaheshwari!Init /\ Relabelling!Init
    /\ program \in {"ukkonen", "sais"} \/ text = CHOOSE w \in Strings : TRUE
    /\ SuffixArray!InitWindow
    /\ wpc = IF program = "sais" THEN "worker" ELSE "append"
    /\ SuffixTree!InitTree /\ SuffixArray!InitWorkers
    /\ Game!Init
    /\ program = "tree" \/ (n = 1 /\ t = 0 /\ u = 0)
    /\ PathInit
    /\ listing \in IF program = "cpu" THEN CpuListings ELSE {<<<<"SPC">>>>}
    /\ Machine!InitCpu
    /\ program = "words" \/ (source = <<44, 10>> /\ size = 1)
    /\ Table!Init

InFlow == UNCHANGED <<program, textVars, otherVars, dedVars>>
InText == UNCHANGED <<program, flowVars, otherVars, dedVars>>
InDed == UNCHANGED <<program, flowVars, textVars, otherVars>>

Next == \/ program = "mkm" /\ MalhotraKumarMaheshwari!Next /\ UNCHANGED relabelVars /\ InFlow
        \/ program = "pushrelabel" /\ Relabelling!Next /\ UNCHANGED mkmVars /\ InFlow
        \/ program = "ukkonen" /\ SuffixTree!Next /\ UNCHANGED saisVars /\ InText
        \/ program = "sais" /\ SuffixArray!Next /\ UNCHANGED ukkonenVars /\ InText
        \/ program = "othello" /\ Game!Next /\ UNCHANGED <<program, flowVars, textVars, treeVars, dedVars>>
        \/ program = "cpu" /\ Machine!Next /\ UNCHANGED wordVars /\ InDed
        \/ program = "words" /\ Table!Next /\ UNCHANGED cpuVars /\ InDed

\* The program that was started goes on; a program of the CPU may do so for ever.
FairSpec == Init /\ [][Next]_vars /\ WF_vars(program # "cpu" /\ Next)

\* For UkkonenCounts.cfg.
UkkonenSpec == program = "ukkonen" /\ Init /\ [][Next]_vars

-----------------------------------------------------------------------------
\* Both algorithms end with the flow of a minimal cut, which obeys the capacities and
\* is conserved, for networks with circles, loops and parallel edges, and no assertion
\* of theirs fails on the way.  Of pushrelabel that is said of the runs in which what it
\* writes beyond the end of usedHeight_ hits nothing, and of networks in which no push is
\* cut to 32 bits.  What their choices rest on holds at every one: for mkm the capacities
\* of the vertices are those of the layers that are left, for pushrelabel no residual tube
\* descends by more than one, though a push is cut.
PrintsMaximumFlow ==
    /\ program = "mkm" => MalhotraKumarMaheshwari!PrintsMaximumFlow
    /\ program = "pushrelabel" /\ Relabelling!TubesFit => Relabelling!PrintsMaximumFlow
    /\ program = "mkm" => MalhotraKumarMaheshwari!CapacitiesExact
    /\ program = "pushrelabel" => Relabelling!ValidLabels

\* The reference for both algorithms of algos/suffix: the set of all substrings.
DistinctSubstrings(s) == Cardinality({SubSeq(s, i, j) : i, j \in DOMAIN s} \ {<<>>})

\* The number printed for a window is that of its different non-empty substrings.
RightNumber == /\ wpc # "failed"
               /\ wpc = "done" => answer = DistinctSubstrings(text)

\* The number of substrings is right: from the suffix array always, from the suffix
\* tree for the windows in which no phase leaves a suffix link unset.  Each level of the
\* induced sorting leaves the suffixes of its string in order.
CountsSubstrings == /\ [](program = "ukkonen" /\ ~linkLeft => RightNumber)
                    /\ [](program = "sais" => RightNumber)
                    /\ [][program = "sais" => SuffixArray!LevelSorted]_vars

\* What getNumOfNonEmptySubstrings promises by its name; esko.cpp breaks it.
TreeCountsSubstrings == program = "ukkonen" => RightNumber

\* The players and the referee agree on the board whenever nothing is under way.
BoardsAgree == program = "othello" => Game!BoardsAgree

\* What unlock() gives back is what lock() took, in the opposite order: the bisection from
\* the root and the halving from the leaf describe one path.
UnlockMirrorsLock ==
    LET up == Tree!LockPath(n, t)  down == Tree!UnlockPath(n, t)
    IN /\ Len(up) = Len(down)
       /\ \A i \in 1 .. Len(up) : down[i] = up[Len(up) + 1 - i]

\* A path runs from the bottom to the root through distinct nodes of the array: no access
\* is out of bounds and no node is locked twice.
PathsClimbToRoot ==
    LET up == Tree!LockPath(n, t)
    IN /\ Len(up) = Tree!Depth(n)
       /\ \A i \in DOMAIN up : up[i].node < Tree!TreeSize(n)
       /\ \A i, j \in DOMAIN up : i # j => up[i].node # up[j].node
       /\ n > 1 => up[Len(up)].node = 0

\* Two threads come to the same side of a node only through the same child, which they
\* must both have locked before: that is why a node with room for two threads is enough.
\* No two threads start from the same side of a node.
SharedSideSharedChild ==
    LET a == Tree!LockPath(n, t)  b == Tree!LockPath(n, u)
    IN t # u => \A i \in DOMAIN a, j \in DOMAIN b :
                    a[i] = b[j] => /\ i = j
                                   /\ i > 1
                                   /\ a[i - 1].node = b[j - 1].node

\* lock() and unlock() of tree_mutex walk the same path, which climbs through distinct
\* nodes of the array; and two threads meet at a side only from the same child.
PathsAgree == program = "tree" => UnlockMirrorsLock /\ PathsClimbToRoot /\ SharedSideSharedChild

\* The words that the assembler makes of a listing, executed with the loader's second END
\* and with the checks that go on behind a command, do what its statements say, whenever
\* the listing keeps to the rules in Proper; but AND and OR leave an operand on the stack
\* when the other one decides.
CodeDoesWhatTextSays == Machine!Started /\ [][Machine!DoesAsWritten]_vars

\* The x86 instructions made of such a listing leave the same stack and registers up to the
\* first AND or OR that leaves an operand on the CPU's stack and not on theirs, the
\* translator's table of addresses is right up to the first jump, and the old disassembler
\* reverses the old assembler.
TranslationsAgree == program = "cpu" => Machine!TranslationsAgree

\* What the table prints for a hash function counts the words of the text and nothing that
\* an earlier function has left; a word is in its list once, but twice if it came first.
CountsWords == program = "words" => Table!PrintsCounts /\ Table!OnlyTheFirstTwice

\* Every run ends: the loops of both flow algorithms, the construction of tree and
\* array, the game, and the passes through the text.  A pushrelabel that cuts a push to
\* nothing may go on for ever, and of one that is astray nothing is said.
ProgramsEnd == <>CASE program = "mkm" -> fpc = "done"
                   [] program = "pushrelabel" -> Relabelling!TubesFit => fpc \in {"done", "astray"}
                   [] program \in {"ukkonen", "sais"} -> wpc \in {"done", "failed"}
                   [] program = "othello" -> Game!Over
                   [] program = "words" -> hpc \in {"destructed", "exited", "crashed"}
                   [] program \in {"tree", "cpu"} -> TRUE
=============================================================================
