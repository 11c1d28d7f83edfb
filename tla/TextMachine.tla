---------------------------- MODULE TextMachine ----------------------------
(***************************************************************************)
(* What a listing of Ded-C/CPU says: its statements executed one by one,   *)
(* with labels and procedures for places in the text.  There are no words  *)
(* and no addresses here.  What two operands mean is stated here once      *)
(* more, as the summary of commands has it, and not taken from CPU_Run;    *)
(* the summary does not say which operand comes first.                     *)
(***************************************************************************)
EXTENDS CpuCommands

CONSTANT Inputs

VARIABLES listing,
          place,                    \* the statement that is next
          data, calls,              \* calls: the places behind the calls that have not returned
          registers, shown,
          status                    \* "run", "ended", "error" or "aborted"

vars == <<listing, place, data, calls, registers, shown, status>>

\* Labels, procedures and comments are nothing to execute.
Settle(p) == LET ahead == {i \in p .. Len(listing) : listing[i][1] \notin {":", "PROC", "//"}}
             IN IF ahead = {} THEN Len(listing) + 1
                ELSE CHOOSE i \in ahead : \A j \in ahead : i <= j
Behind == Settle(place + 1)
PlaceNamed(word, name) == Settle(CHOOSE i \in DOMAIN listing : listing[i] = <<word, name>>)

Started == /\ place = Settle(1) /\ status = "run"
           /\ data = <<>> /\ calls = <<>> /\ shown = <<>>

\* How many numbers a statement takes: both operands, of AND and OR as well.
Takes(op) == CASE op \in Binary \cup Conditional -> 2
               [] op \in Unary \cup DOMAIN PopRegister \cup {"POP", "OUT", "DUP"} -> 1
               [] OTHER -> 0

\* "Difference", "quotient" and the jumps' ">" have the operands in the order in which they
\* were pushed, x before y; LT and GT the other way round.
Meaning(op, x, y) == CASE op = "ADD" -> x + y
                       [] op = "SUB" -> x - y
                       [] op = "MUL" -> x * y
                       [] op = "DIV" -> IF y = 0 THEN 0 ELSE x \div y
                       [] op = "POW" -> IF y = 0 THEN 1 ELSE x ^ y
                       [] op = "AND" -> Truth(x # 0 /\ y # 0)
                       [] op = "OR" -> Truth(x # 0 \/ y # 0)
                       [] op = "EQU" -> Truth(x = y)
                       [] op = "LT" -> Truth(y < x)
                       [] op = "GT" -> Truth(y > x)

IsMet(op, x, y) == CASE op = "JE" -> x = y
                     [] op = "JNE" -> x # y
                     [] op = "JA" -> x > y
                     [] op = "JAE" -> x >= y
                     [] op = "JB" -> x < y
                     [] op = "JBE" -> x <= y

Op == listing[place][1]
Argument == listing[place][2]
On(ops) == /\ status = "run" /\ place <= Len(listing) /\ Op \in ops
           /\ Len(data) >= Takes(Op)
           /\ UNCHANGED listing
Goes(p) == place' = p /\ status' = status

Numbers == /\ \/ On({"PUSH"}) /\ data' = Append(data, Argument)
              \/ On({"IN"}) /\ \E v \in Inputs : data' = Append(data, v)
              \/ On({"DUP"}) /\ data' = Append(data, Top(data, 1))
              \/ On(DOMAIN PushRegister) /\ data' = Append(data, registers[PushRegister[Op]])
              \/ On(Binary) /\ data' = Append(Popped(data, 2), Meaning(Op, Top(data, 2), Top(data, 1)))
              \/ On(Unary) /\ data' = Append(Popped(data, 1), Compute1(Op, Top(data, 1)))
           /\ Goes(Behind) /\ UNCHANGED <<calls, registers, shown>>

Store == /\ On(DOMAIN PopRegister) /\ Goes(Behind)
         /\ registers' = [registers EXCEPT ![PopRegister[Op]] = Top(data, 1)]
         /\ data' = Popped(data, 1)
         /\ UNCHANGED <<calls, shown>>

Show == /\ On({"OUT"}) /\ Goes(Behind)
        /\ shown' = Append(shown, Top(data, 1)) /\ data' = Popped(data, 1)
        /\ UNCHANGED <<calls, registers>>

Jump == /\ On(Jumps)
        /\ Goes(IF Op = "JMP" \/ IsMet(Op, Top(data, 2), Top(data, 1))
                THEN PlaceNamed(":", Argument) ELSE Behind)
        /\ data' = Popped(data, Takes(Op))
        /\ UNCHANGED <<calls, registers, shown>>

Call == /\ On({"CALL"}) /\ Goes(PlaceNamed("PROC", Argument))
        /\ calls' = Append(calls, Behind)
        /\ UNCHANGED <<data, registers, shown>>

Return == /\ On({"RET"}) /\ calls # <<>> /\ Goes(Top(calls, 1))
          /\ calls' = Popped(calls, 1)
          /\ UNCHANGED <<data, registers, shown>>

Nothing == /\ On(Printing \cup {"BEGIN", "MSG", "ERROR"}) /\ Goes(Behind)
           /\ UNCHANGED <<data, calls, registers, shown>>

Ends == /\ On({"END"}) \/ (place > Len(listing) /\ status = "run")
        /\ status' = "ended"
        /\ UNCHANGED <<listing, place, data, calls, registers, shown>>

Aborts == /\ status = "run" /\ place <= Len(listing)
          /\ Len(data) < Takes(Op) \/ (Op = "RET" /\ calls = <<>>)
          /\ status' = "aborted"
          /\ UNCHANGED <<listing, place, data, calls, registers, shown>>

Next == Numbers \/ Store \/ Show \/ Jump \/ Call \/ Return \/ Nothing \/ Ends \/ Aborts
============================================================================
