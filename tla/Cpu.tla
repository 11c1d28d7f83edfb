-------------------------------- MODULE Cpu --------------------------------
(***************************************************************************)
(* The stack machine of Ded-C/CPU and its assembler.  A listing is a       *)
(* sequence of statements <<word>> or <<word, argument>>; two passes make  *)
(* words of it, the loader stores them, and CPU_Run compares the word at   *)
(* ip with one command after the other: checked is how far it has come.    *)
(* At the end, what it does against what the listing says (TextMachine)    *)
(* and against what the translators make of it.                            *)
(***************************************************************************)
EXTENDS CpuCommands

CONSTANTS Listings,         \* the texts, behind a right signature
          Inputs,           \* what IN reads
          Room              \* the model stops when stacks and output are that long together

Labels == 1 .. 9            \* the elements of labels[] that ":" can define, 10 aside

VARIABLES listing,
          code,             \* code[0 .. code_len - 1]
          ip,               \* cur_pos
          checked,          \* the checks of this pass that are behind
          data, calls,      \* stack, call_stack
          registers, shown, \* shown: the numbers printed
          cpu               \* "boot", "run", "ended", "error", "aborted" or "astray"

vars == <<listing, code, ip, checked, data, calls, registers, shown, cpu>>

-----------------------------------------------------------------------------
\* What a pass of Assembler keeps.  labels, procs and procIp are static: the second pass
\* begins with what the first has left there.
Pass(labels, procs, procIp) ==
    [out |-> <<>>, index |-> 0, begin |-> FALSE, error |-> FALSE,
     labels |-> labels, procs |-> procs, procIp |-> procIp]

Emit(a, words) == [a EXCEPT !.out = @ \o words, !.index = @ + Len(words)]
Wrong(a) == [a EXCEPT !.error = TRUE]

SetLabel(a, k) == IF k \notin Labels \/ a.labels[k] \notin {0, a.index} THEN Wrong(a)
                  ELSE [a EXCEPT !.labels[k] = a.index]

\* A procedure is refused if any other one was found elsewhere.
SetProc(a, name) == IF \E p \in a.procs : p[2] \notin {0, a.index} THEN Wrong(a)
                    ELSE [a EXCEPT !.procs = @ \cup {<<name, a.index>>}, !.procIp = a.index]

\* The address of the procedure read last, whatever the name; nothing for an unknown name,
\* which takes its two places all the same.
EmitCall(a, name) ==
    [a EXCEPT !.index = @ + 2,
              !.out = IF \E p \in a.procs : p[1] = name THEN @ \o <<CMD("CALL"), a.procIp>> ELSE @]

\* A jump takes the address that its label has so far: in the first pass 0 for one behind.
EmitJump(a, op, label) == Emit(a, <<CMD(op), a.labels[label]>>)

EmitPush(a, number) == Emit(a, <<CMD("PUSH"), number>>)

\* The characters between the quotes, and the end of the line.
EmitMessage(a, characters) == Emit(a, <<CMD("MSG")>> \o characters \o <<EndOfMessage>>)

EmitBegin(a) == [Emit(a, <<CMD("BEGIN")>>) EXCEPT !.begin = TRUE]
EmitEnd(a) == IF a.begin THEN Emit(a, <<CMD("END")>>) ELSE Wrong(a)

\* A command of one word; a comment is none.
EmitCommand(a, op) == IF op = "//" THEN a ELSE Emit(a, <<CMD(op)>>)

\* One turn of the loop of Assembler.
Statement(a, s) ==
    CASE a.error -> a
      [] s[1] = "BEGIN" -> EmitBegin(a)
      [] s[1] = "END" -> EmitEnd(a)
      [] s[1] = "PUSH" -> EmitPush(a, s[2])
      [] s[1] = "POP" -> Wrong(a)                       \* the next word is no register
      [] s[1] = ":" -> SetLabel(a, s[2])
      [] s[1] = "PROC" -> SetProc(a, s[2])
      [] s[1] \in Jumps -> EmitJump(a, s[1], s[2])
      [] s[1] = "CALL" -> EmitCall(a, s[2])
      [] s[1] = "MSG" -> EmitMessage(a, s[2])
      [] OTHER -> EmitCommand(a, s[1])

\* main: both passes, whatever they return; the second writes over the first, and does not
\* stop before it.
FirstPass(l) == FoldLeft(Statement, Pass([k \in Labels |-> 0], {}, 0), l)
Assembled(l) == LET a == FirstPass(l)
                IN FoldLeft(Statement, Pass(a.labels, a.procs, a.procIp), l)

ListingsAssumption == \A l \in Listings : Len(FirstPass(l).out) <= Len(Assembled(l).out)

\* CPU_Load_Data: every word that is the code of END is stored twice.
LoadData(words) == FlattenSeq([i \in DOMAIN words |->
                                 IF words[i] = CMD("END") THEN <<CMD("END"), CMD("END")>> ELSE <<words[i]>>])

InitCpu == /\ code = LoadData(Assembled(listing).out)
           /\ ip = 0 /\ checked = 0 /\ data = <<>> /\ calls = <<>> /\ shown = <<>>
           /\ registers = [r \in {"AX", "BX", "CX", "DX"} |-> 0]
           /\ cpu = "boot"

Init == listing \in Listings /\ InitCpu

-----------------------------------------------------------------------------
Word(p) == IF p < Len(code) THEN code[p + 1] ELSE CMD("END")

\* The first instructions of CPU_Run: without a BEGIN it leaves the array.
Boot == /\ cpu = "boot"
        /\ IF \E p \in 0 .. Len(code) - 1 : Word(p) = CMD("BEGIN")
           THEN /\ cpu' = "run"
                /\ ip' = CHOOSE p \in 0 .. Len(code) - 1 :
                            Word(p) = CMD("BEGIN") /\ \A q \in 0 .. p - 1 : Word(q) # CMD("BEGIN")
           ELSE cpu' = "astray" /\ ip' = ip
        /\ UNCHANGED <<listing, code, checked, data, calls, registers, shown>>

\* The checks of this pass that the word still meets.
Met == LET table == Table IN {k \in Checks : k > checked /\ table[k][2] = Word(ip)}
At(ops) == /\ cpu = "run" /\ (checked > 0 \/ ip < Len(code))
           /\ Len(data) + Len(calls) + Len(shown) < Room
           /\ \E k \in Met : Table[k][1] \in ops
Op == Table[CHOOSE k \in Met : TRUE][1]

\* A command that fits in its stack: the pass ends behind a command that stays where it is,
\* and goes on from there behind one that has moved.
Fits(op) == Len(data) >= Pops(op, data) /\ UNCHANGED <<listing, code>>
EndPass == ip' = ip + 1 /\ checked' = 0 /\ cpu' = cpu
GoOnAt(p) == ip' = p /\ checked' = (CHOOSE k \in Met : TRUE) /\ cpu' = cpu
JumpTo(p) == ip' = p /\ checked' = 0 /\ cpu' = cpu

Push == /\ At({"PUSH"}) /\ Fits("PUSH")
        /\ data' = Append(data, Word(ip + 1)) /\ GoOnAt(ip + 1)
        /\ UNCHANGED <<calls, registers, shown>>

\* POP takes the number popped for an error code: 1, 2 and 3 are some.
Pop == /\ At({"POP"}) /\ Fits("POP")
       /\ data' = Popped(data, 1)
       /\ IF Top(data, 1) \in 1 .. 3 THEN cpu' = "error" /\ UNCHANGED <<ip, checked>> ELSE EndPass
       /\ UNCHANGED <<calls, registers, shown>>

In == /\ At({"IN"}) /\ Fits("IN") /\ EndPass
      /\ \E v \in Inputs : data' = Append(data, v)
      /\ UNCHANGED <<calls, registers, shown>>

Out == /\ At({"OUT"}) /\ Fits("OUT") /\ EndPass
       /\ shown' = Append(shown, Top(data, 1)) /\ data' = Popped(data, 1)
       /\ UNCHANGED <<calls, registers>>

Dup == /\ At({"DUP"}) /\ Fits("DUP") /\ EndPass
       /\ data' = Append(data, Top(data, 1))
       /\ UNCHANGED <<calls, registers, shown>>

PushReg == /\ At(DOMAIN PushRegister) /\ Fits(Op) /\ EndPass
           /\ data' = Append(data, registers[PushRegister[Op]])
           /\ UNCHANGED <<calls, registers, shown>>

PopReg == /\ At(DOMAIN PopRegister) /\ Fits(Op) /\ EndPass
          /\ registers' = [registers EXCEPT ![PopRegister[Op]] = Top(data, 1)]
          /\ data' = Popped(data, 1)
          /\ UNCHANGED <<calls, shown>>

Calculate == /\ At(Binary) /\ Fits(Op) /\ EndPass
             /\ data' = Append(Popped(data, Pops(Op, data)), Result(Op, data))
             /\ UNCHANGED <<calls, registers, shown>>

Evaluate == /\ At(Unary) /\ Fits(Op) /\ EndPass
            /\ data' = Append(Popped(data, 1), Compute1(Op, Top(data, 1)))
            /\ UNCHANGED <<calls, registers, shown>>

Jump == /\ At({"JMP"}) /\ Fits("JMP") /\ JumpTo(Word(ip + 1))
        /\ UNCHANGED <<data, calls, registers, shown>>

\* A jump that is not taken goes on behind its own check, at its argument.
JumpIf == /\ At(Conditional) /\ Fits(Op)
          /\ data' = Popped(data, 2)
          /\ IF Holds(Op, Top(data, 1), Top(data, 2)) THEN JumpTo(Word(ip + 1)) ELSE GoOnAt(ip + 1)
          /\ UNCHANGED <<calls, registers, shown>>

\* Mutant: the address is taken as it is.
CallAsLoaded == /\ At({"CALL"}) /\ Fits("CALL")
                /\ calls' = Append(calls, ip + 1) /\ JumpTo(Word(ip + 1))
                /\ UNCHANGED <<data, registers, shown>>

\* The address was counted with one END, and the loader has stored two.
Call == /\ At({"CALL"}) /\ Fits("CALL")
        /\ calls' = Append(calls, ip + 1) /\ JumpTo(Word(ip + 1) + 1)
        /\ UNCHANGED <<data, registers, shown>>

Ret == /\ At({"RET"}) /\ Fits("RET") /\ calls # <<>>
       /\ GoOnAt(Top(calls, 1)) /\ calls' = Popped(calls, 1)
       /\ UNCHANGED <<data, registers, shown>>

PrintSpace == /\ At(Printing) /\ Fits(Op) /\ EndPass
              /\ UNCHANGED <<data, calls, registers, shown>>

\* Characters up to the end of the message; without one it leaves the array.
Message == /\ At({"MSG"}) /\ Fits("MSG")
           /\ LET ends == {p \in ip + 1 .. Len(code) - 1 : Word(p) = EndOfMessage}
              IN IF ends = {} THEN cpu' = "astray" /\ UNCHANGED <<ip, checked>>
                 ELSE GoOnAt(CHOOSE p \in ends : \A q \in ends : p <= q)
           /\ UNCHANGED <<data, calls, registers, shown>>

\* No check that is left is met.
Skip == /\ cpu = "run" /\ Met = {} /\ (checked > 0 \/ ip < Len(code))
        /\ EndPass
        /\ UNCHANGED <<listing, code, data, calls, registers, shown>>

\* END, or the end of the code.
End == /\ \/ At({"END"})
          \/ cpu = "run" /\ checked = 0 /\ ip >= Len(code)
       /\ cpu' = "ended"
       /\ UNCHANGED <<listing, code, ip, checked, data, calls, registers, shown>>

\* Stack_Pop asserts.
PopFromEmpty == /\ At({Table[k][1] : k \in Checks})
                /\ \/ Len(data) < Pops(Op, data)
                   \/ Op = "RET" /\ calls = <<>>
                /\ cpu' = "aborted"
                /\ UNCHANGED <<listing, code, ip, checked, data, calls, registers, shown>>

Next == \/ Boot \/ Push \/ Pop \/ In \/ Out \/ Dup \/ PushReg \/ PopReg \/ Calculate \/ Evaluate
        \/ Jump \/ JumpIf \/ Call \/ Ret \/ PrintSpace \/ Message \/ Skip \/ End \/ PopFromEmpty

-----------------------------------------------------------------------------
\* The words of a statement, and the address of the first as the loader has stored it.
Words(s) == IF s[1] \in {":", "PROC", "//"} THEN 0
            ELSE CASE s[1] \in Jumps \cup {"PUSH", "CALL"} -> 2
                   [] s[1] = "MSG" -> Len(s[2]) + 2
                   [] OTHER -> 1
Stored(i) == FoldLeft(LAMBDA sum, s : sum + Words(s) + (IF s[1] = "END" THEN 1 ELSE 0),
                      0, SubSeq(listing, 1, i - 1))

\* The statement that the machine is about to execute at address p.
PlaceOf(p) == LET ahead == {i \in DOMAIN listing : Words(listing[i]) > 0 /\ Stored(i) >= p}
              IN IF ahead = {} THEN Len(listing) + 1
                 ELSE CHOOSE i \in ahead : \A j \in ahead : i <= j

Occurs(s) == \E i \in DOMAIN listing : listing[i] = s
EndPlace == CHOOSE i \in DOMAIN listing : listing[i] = <<"END">>
Once(w) == \E i \in DOMAIN listing : \A j \in DOMAIN listing : listing[j][1] = w <=> i = j

\* The listings whose code does what they say: assembled without an error, no number pushed
\* is the code of a command, what is jumped to and called is there, procedures stand behind
\* the END, and labels there stand behind a statement of several words.
Proper ==
    /\ ~Assembled(listing).error
    /\ listing[1] = <<"BEGIN">> /\ Once("BEGIN") /\ Once("END")
    /\ \A i \in DOMAIN listing : LET s == listing[i] IN
          /\ s[1] = "PUSH" => s[2] \notin CommandCodes
          /\ s[1] \in Jumps => Occurs(<<":", s[2]>>)
          /\ s[1] = "CALL" => Occurs(<<"PROC", s[2]>>)
          /\ s[1] = "PROC" => i > EndPlace
          /\ s[1] = ":" /\ i > EndPlace =>
                \E j \in EndPlace + 1 .. i - 1 :
                   Words(listing[j]) > 1 /\ \A m \in j + 1 .. i - 1 : Words(listing[m]) = 0

AsWritten == INSTANCE TextMachine
                 WITH place <- PlaceOf(ip), calls <- [i \in DOMAIN calls |-> PlaceOf(calls[i])],
                      status <- IF cpu = "boot" THEN "run" ELSE cpu

Started == Proper => AsWritten!Started

\* The one thing that the text does not say: AND and OR leave the other operand where it is
\* when the last number decides.
LeavesOperand ==
    /\ PlaceOf(ip) <= Len(listing) /\ Decided(AsWritten!Op, data)
    /\ data' = Append(Popped(data, 1), Truth(AsWritten!Op = "OR"))
    /\ AsWritten!Goes(AsWritten!Behind)
    /\ UNCHANGED <<listing, calls, registers, shown>>

DoesAsWritten == Proper => AsWritten!Next \/ LeavesOperand \/ UNCHANGED AsWritten!vars

-----------------------------------------------------------------------------
Uses(op) == \E i \in DOMAIN listing : listing[i][1] = op
PartBefore(i) == Assembled(SubSeq(listing, 1, i - 1)).out

\* What the translator gets right: no number but a truth under AND and OR, which work on bits.
Translatable ==
    /\ Proper
    /\ \A i \in DOMAIN listing :
          listing[i][1] \in (Translated \cup {"BEGIN", "END"}) \ {"POP", "NOT", "SUB", "DIV", "JMP", "JAE"}
    /\ Uses("AND") \/ Uses("OR") =>
          ~Uses("ADD") /\ \A i \in DOMAIN listing : listing[i][1] = "PUSH" => listing[i][2] \in 0 .. 1

\* The instructions pop both operands of AND and OR, always.
StackBefore(i) == Run(Translate(PartBefore(i))).stack
OperandLeftBefore(i) == \E j \in 1 .. i - 1 : /\ listing[j][1] \in Logical
                                             /\ Decided(listing[j][1], StackBefore(j))

\* The machine code of what is behind has done the same, as long as no operand was left;
\* mul leaves DX changed.
MachineCodeAgrees ==
    Translatable /\ cpu \in {"run", "ended"} /\ ~OperandLeftBefore(PlaceOf(ip)) =>
       LET m == Run(Translate(PartBefore(PlaceOf(ip))))
       IN /\ m.stack = data
          /\ \A r \in DOMAIN registers : m.reg[r] = registers[r] \/ (r = "DX" /\ Uses("MUL"))

\* The first pass has the right byte for each address up to the first jump.
PlacesRight ==
    Proper /\ (\A i \in 2 .. EndPlace - 1 : listing[i][1] \in Translated \cup {":"}) =>
       \A i \in 2 .. EndPlace :
          (\A j \in 2 .. i - 1 : listing[j][1] \notin {"JMP", "JAE"}) =>
             Entry(IpTranslation(Assembled(listing).out), Len(PartBefore(i))) = Bytes(Translate(PartBefore(i)))

\* The old disassembler gives back the commands that the old assembler has taken.
RoundTrip ==
    OldAssembled(listing).result = "ASM_END" =>
       Disassembled(OldAssembled(listing).out) =
          SelectSeq(SubSeq(listing, 1, CHOOSE i \in DOMAIN listing :
                                          listing[i][1] = "END" /\ \A j \in 1 .. i - 1 : listing[j][1] # "END"),
                    LAMBDA s : s[1] \in OldCommands \ {"ERROR"})

TranslationsAgree == /\ MachineCodeAgrees
                     /\ cpu = "boot" => PlacesRight /\ RoundTrip
============================================================================
