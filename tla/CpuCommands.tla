---------------------------- MODULE CpuCommands ----------------------------
(***************************************************************************)
(* The commands of the stack machine of Ded-C/CPU: their codes, the order  *)
(* in which CPU_Run checks a word for them, what they take from the stack  *)
(* and what they compute.                                                  *)
(* Behind them the two other programs of Ded-C for these commands, both    *)
(* written as functions of a code or a text.  BT_Translate of BT makes x86 *)
(* instructions of the words in two passes: the first notes at which byte  *)
(* the word of each address begins, the second writes.  Execute is what    *)
(* the instructions do, on small numbers.  The assembler and the           *)
(* disassembler of asm have codes of their own for the first commands.     *)
(***************************************************************************)
EXTENDS Integers, Sequences, SequencesExt, Bitwise, TLC

\* CPU_Run compares a word with these, one after the other; the two behind END it does not
\* look for.
Table == <<<<"PUSH", 1101>>, <<"POP", 1102>>, <<"IN", 1103>>, <<"OUT", 1104>>, <<"DUP", 1105>>,
           <<"PUSH_AX", 1210>>, <<"POP_AX", 1220>>, <<"PUSH_BX", 1211>>, <<"POP_BX", 1221>>,
           <<"PUSH_CX", 1212>>, <<"POP_CX", 1222>>, <<"PUSH_DX", 1213>>, <<"POP_DX", 1223>>,
           <<"ADD", 1301>>, <<"SUB", 1302>>, <<"MUL", 1303>>, <<"DIV", 1304>>, <<"POW", 1311>>,
           <<"SIN", 1312>>, <<"COS", 1313>>, <<"SQRT", 1314>>,
           <<"AND", 1401>>, <<"OR", 1402>>, <<"NOT", 1403>>,
           <<"EQU", 1411>>, <<"LT", 1412>>, <<"GT", 1413>>,
           <<"JMP", 1501>>, <<"JE", 1502>>, <<"JNE", 1503>>, <<"JA", 1504>>, <<"JAE", 1505>>,
           <<"JB", 1506>>, <<"JBE", 1507>>, <<"CALL", 1601>>, <<"RET", 1603>>,
           <<"SPC", 1801>>, <<"TAB", 1802>>, <<"EOL", 1803>>, <<"DUMP", 1901>>, <<"MSG", 1902>>,
           <<"END", 9999>>, <<"BEGIN", 1000>>, <<"ERROR", 1999>>>>
Checks == 1 .. Len(Table) - 2

\* The first row of a table of commands with a name (column 1) or a code (column 2).
Row(table, column, value) == CHOOSE k \in DOMAIN table : table[k][column] = value
CMD(c) == Table[Row(Table, 1, c)][2]
CommandCodes == {entry[2] : entry \in ToSet(Table)}

EndOfMessage == 10                  \* '\n'

PushRegister == [PUSH_AX |-> "AX", PUSH_BX |-> "BX", PUSH_CX |-> "CX", PUSH_DX |-> "DX"]
PopRegister == [POP_AX |-> "AX", POP_BX |-> "BX", POP_CX |-> "CX", POP_DX |-> "DX"]
Binary == {"ADD", "SUB", "MUL", "DIV", "POW", "AND", "OR", "EQU", "LT", "GT"}
Unary == {"SIN", "COS", "SQRT", "NOT"}
Conditional == {"JE", "JNE", "JA", "JAE", "JB", "JBE"}
Jumps == {"JMP"} \cup Conditional
Printing == {"SPC", "TAB", "EOL", "DUMP"}

\* The last k numbers off the stack, and the k-th from the top.
Popped(s, k) == SubSeq(s, 1, Len(s) - k)
Top(s, k) == s[Len(s) - k + 1]

\* "and" and "or" of C++ do not evaluate their right side when the left one decides.
Decided(op, s) == /\ s # <<>>
                  /\ \/ op = "AND" /\ Top(s, 1) = 0
                     \/ op = "OR" /\ Top(s, 1) # 0

\* How many numbers a command pops off s: Stack_Pop asserts that they are there.
Pops(op, s) == CASE Decided(op, s) -> 1
                 [] op \in (Binary \cup Conditional) /\ ~Decided(op, s) -> 2
                 [] op \in Unary \cup DOMAIN PopRegister \cup {"POP", "OUT", "DUP"} -> 1
                 [] OTHER -> 0

Truth(b) == IF b THEN 1 ELSE 0

\* a was popped first.  The numbers are integers: a quotient is rounded, one by zero is 0,
\* and the listings take roots and angles where the result is whole.
Compute2(op, a, b) == CASE op = "ADD" -> a + b
                        [] op = "SUB" -> b - a
                        [] op = "MUL" -> a * b
                        [] op = "DIV" -> IF a = 0 THEN 0 ELSE b \div a
                        [] op = "POW" -> IF a = 0 THEN 1 ELSE b ^ a    \* pow: the last argument first
                        [] op \in {"AND", "OR"} -> Truth(b # 0)    \* if a has not decided
                        [] op = "EQU" -> Truth(a = b)
                        [] op = "LT" -> Truth(a < b)
                        [] op = "GT" -> Truth(a > b)

Compute1(op, a) == CASE op = "SIN" -> 0
                     [] op = "COS" -> 1
                     [] op = "SQRT" -> CHOOSE r \in 0 .. 40 : r * r <= a /\ (r + 1) * (r + 1) > a
                     [] op = "NOT" -> Truth(a = 0)

\* What a binary command pushes.
Result(op, s) == IF Decided(op, s) THEN Truth(op = "OR") ELSE Compute2(op, Top(s, 1), Top(s, 2))

\* The conditional jumps; a was popped first.
Holds(op, a, b) == CASE op = "JE" -> a = b
                     [] op = "JNE" -> a # b
                     [] op = "JA" -> a < b
                     [] op = "JAE" -> a <= b
                     [] op = "JB" -> a > b
                     [] op = "JBE" -> a >= b

-----------------------------------------------------------------------------
NameOf(w) == IF w \in CommandCodes THEN Table[Row(Table, 2, w)][1] ELSE "number"

WithArgument == {"PUSH", "JMP", "JAE"}
Logical == {"AND", "OR"}
PerRegister == DOMAIN PushRegister \cup DOMAIN PopRegister
Translated == WithArgument \cup PerRegister \cup Logical \cup {"POP", "ADD", "SUB", "MUL", "DIV", "DUP", "NOT"}

\* Mutant: no place for the argument.
PlacesOfCommand(op) == IF op \in Translated THEN 1 ELSE 0

\* What the first pass adds to cpuip and to asmip; an argument is a word like any other.
Places(op) == CASE op \in WithArgument -> 2
                [] op \in Translated \ WithArgument -> 1
                [] OTHER -> 0
Size(op) == CASE op \in {"PUSH", "ADD", "SUB"} \cup Logical -> 5
              [] op \in PerRegister -> 1
              [] op \in {"POP", "DUP"} -> 3
              [] op = "MUL" -> 11
              [] op = "DIV" -> 17
              [] op \in {"NOT", "JAE"} -> 4
              [] OTHER -> 0

NotePlace(pass, w) == [cpuip |-> pass.cpuip + Places(NameOf(w)), asmip |-> pass.asmip + Size(NameOf(w)),
                       table |-> (pass.cpuip :> pass.asmip) @@ pass.table]
IpTranslation(words) == FoldLeft(NotePlace, [cpuip |-> 1, asmip |-> 0, table |-> <<>>], words).table

-----------------------------------------------------------------------------
\* The second pass.  SI and DI are registers the CPU does not have; the bytes of POP and of
\* the complement in NOT are in the wrong order and make other instructions.
Instructions(op) ==
    LET popped2 == <<<<"pop", "SI">>, <<"pop", "DI">>>>
        pushed == <<<<"push", "SI">>>>
    IN CASE op \in DOMAIN PushRegister -> <<<<"push", PushRegister[op]>>>>
         [] op \in DOMAIN PopRegister -> <<<<"pop", PopRegister[op]>>>>
         [] op = "POP" -> <<<<"garbled", 3>>>>
         [] op \in {"ADD", "SUB"} \cup Logical -> popped2 \o <<<<op, "SI", "DI">>>> \o pushed
         [] op = "MUL" -> popped2 \o <<<<"push", "AX">>, <<"mov", "AX", "SI">>, <<"mul", "DI">>,
                                       <<"mov", "SI", "AX">>, <<"pop", "AX">>>> \o pushed
         [] op = "DIV" -> popped2 \o <<<<"push", "AX">>, <<"push", "DX">>, <<"mov", "AX", "SI">>,
                                       <<"clear", "DX">>, <<"div", "DI">>, <<"clear", "SI">>,
                                       <<"mov", "SI", "AX">>, <<"pop", "DX">>, <<"pop", "AX">>>> \o pushed
         [] op = "DUP" -> <<<<"pop", "SI">>>> \o pushed \o pushed
         [] op = "NOT" -> <<<<"pop", "SI">>, <<"garbled", 2>>>> \o pushed
         [] OTHER -> <<>>

\* The table is as long as the code may be, and starts with zeroes.
Entry(table, p) == IF p \in DOMAIN table THEN table[p] ELSE 0

\* The address in a jump is the number of a byte, for an operand that counts from behind it.
InstructionsWith(op, argument, table) ==
    CASE op = "PUSH" -> <<<<"imm", argument>>>>
      [] op = "JMP" -> <<<<"jmp", Entry(table, argument)>>>>
      [] op = "JAE" -> <<<<"pop", "SI">>, <<"pop", "DI">>, <<"cmp", "SI", "DI">>,
                         <<"jae", Entry(table, argument)>>>>

Translate(words) ==
    LET table == IpTranslation(words)
        Write(pass, w) ==
            IF pass.op \in WithArgument
            THEN [op |-> "", out |-> pass.out \o InstructionsWith(pass.op, w, table)]
            ELSE IF NameOf(w) \in WithArgument THEN [pass EXCEPT !.op = NameOf(w)]
            ELSE [pass EXCEPT !.out = @ \o Instructions(NameOf(w))]
    IN FoldLeft(Write, [op |-> "", out |-> <<>>], words).out

Bytes(instructions) ==
    FoldLeft(LAMBDA sum, i : sum + CASE i[1] \in {"push", "pop"} -> 1
                                     [] i[1] \in {"imm", "jmp"} -> 5
                                     [] i[1] = "jae" -> 6
                                     [] i[1] = "garbled" -> i[2]
                                     [] OTHER -> 2,
             0, instructions)

-----------------------------------------------------------------------------
\* The machine that runs them.
PowerOn == [stack |-> <<>>, reg |-> [r \in {"AX", "BX", "CX", "DX", "SI", "DI"} |-> 0]]

Execute(m, i) ==
    CASE i[1] = "imm" -> [m EXCEPT !.stack = Append(@, i[2])]
      [] i[1] = "push" -> [m EXCEPT !.stack = Append(@, m.reg[i[2]])]
      [] i[1] = "pop" -> [m EXCEPT !.stack = Popped(@, 1), !.reg[i[2]] = Top(m.stack, 1)]
      [] i[1] = "mov" -> [m EXCEPT !.reg[i[2]] = m.reg[i[3]]]
      [] i[1] = "clear" -> [m EXCEPT !.reg[i[2]] = 0]
      [] i[1] = "ADD" -> [m EXCEPT !.reg["SI"] = @ + m.reg["DI"]]
      [] i[1] = "SUB" -> [m EXCEPT !.reg["SI"] = @ - m.reg["DI"]]
      [] i[1] = "AND" -> [m EXCEPT !.reg["SI"] = @ & m.reg["DI"]]
      [] i[1] = "OR" -> [m EXCEPT !.reg["SI"] = @ | m.reg["DI"]]
      [] i[1] = "mul" -> [m EXCEPT !.reg["AX"] = @ * m.reg[i[2]], !.reg["DX"] = 0]
      [] i[1] = "div" -> [m EXCEPT !.reg["AX"] = @ \div m.reg[i[2]], !.reg["DX"] = m.reg["AX"] % m.reg[i[2]]]

Run(instructions) == FoldLeft(Execute, PowerOn, instructions)

-----------------------------------------------------------------------------
OldTable == SelectSeq(Table, LAMBDA c : c[1] \in {"PUSH", "POP", "IN", "OUT", "DUP", "ADD", "SUB", "MUL",
                                                  "DIV", "POW", "SIN", "COS", "SQRT", "DUMP", "ERROR"})
            \o <<<<"PUSH_AX", 1201>>, <<"POP_AX", 1202>>, <<"PUSH_BX", 1211>>, <<"POP_BX", 1212>>,
                 <<"PUSH_CX", 1221>>, <<"POP_CX", 1222>>, <<"PUSH_DX", 1231>>, <<"POP_DX", 1232>>,
                 <<"END", 0>>>>
OldCode(c) == OldTable[Row(OldTable, 1, c)][2]
OldName(w) == OldTable[Row(OldTable, 2, w)][1]
OldCommands == {entry[1] : entry \in ToSet(OldTable)}

\* A turn of the loop of Assembler, up to END; words that are no command are passed over,
\* and POP takes the next word for a register.
OldStatement(a, s) ==
    CASE a.result # "" \/ s[1] \notin OldCommands -> a
      [] s[1] = "POP" -> [a EXCEPT !.result = "ASM_ERROR"]
      [] OTHER -> [out |-> a.out \o <<OldCode(s[1])>> \o (IF s[1] = "PUSH" THEN <<s[2]>> ELSE <<>>),
                   result |-> IF s[1] = "END" THEN "ASM_END" ELSE ""]
OldAssembled(text) == FoldLeft(OldStatement, [out |-> <<>>, result |-> ""], text)

\* A word that Disasm reads: the argument of PUSH, or a command; ERROR it passes over.
ReadWord(a, w) ==
    CASE a.op = "END" -> a
      [] a.op = "PUSH" -> [op |-> "", out |-> Append(a.out, <<"PUSH", w>>)]
      [] a.op = "" /\ w = 1101 -> [a EXCEPT !.op = "PUSH"]
      [] a.op = "" /\ w = 0 -> [op |-> "END", out |-> Append(a.out, <<"END">>)]
      [] OTHER -> IF \E entry \in ToSet(OldTable) : entry[2] = w /\ entry[1] # "ERROR"
                  THEN [a EXCEPT !.out = Append(@, <<OldName(w)>>)] ELSE a
Disassembled(words) == FoldLeft(ReadWord, [op |-> "", out |-> <<>>], words).out
============================================================================
