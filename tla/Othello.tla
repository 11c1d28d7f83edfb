------------------------------ MODULE Othello ------------------------------
(***************************************************************************)
(* Two copies of the Othello player of algos/othello, one of each colour,  *)
(* and the referee that runs them.  A player keeps a board of its own and  *)
(* learns of the opponent's moves from the referee.                        *)
(***************************************************************************)
EXTENDS Integers, FiniteSets, FiniteSetsExt, Sequences

CONSTANTS Size,                     \* BOARD_SIZE
          MaxDiscs                  \* the referee stops there: a bound of the model

SizeAssumption == Size \in {4, 6, 8} /\ MaxDiscs \in 4 .. Size * Size

Black == "Black"
White == "White"
Player == {Black, White}
None == "Empty"
Opponent(color) == IF color = Black THEN White ELSE Black
Cell == (0 .. Size - 1) \X (0 .. Size - 1)
Direction == (-1 .. 1) \X (-1 .. 1) \ {<<0, 0>>}

VARIABLES board,                    \* of each player
          command,                  \* what the referee has sent each player, or ""
          printed,                  \* the last move printed: <<player, cell>>
          discs,                    \* the referee's board: what the rules make of the moves
          turn                      \* whose turn it is, or "over"

vars == <<board, command, printed, discs, turn>>

Along(cell, dir, d) == <<cell[1] + d * dir[1], cell[2] + d * dir[2]>>

\* moveLookup, one direction: the distance at which an own disc closes a run of opponent's
\* discs, or 0.
Bracket(b, color, cell, dir) ==
    LET Closed(d) == /\ Along(cell, dir, d) \in Cell /\ b[Along(cell, dir, d)] = color
                     /\ \A e \in 1 .. d - 1 : b[Along(cell, dir, e)] = Opponent(color)
    IN IF \E d \in 2 .. Size - 1 : Closed(d) THEN CHOOSE d \in 2 .. Size - 1 : Closed(d) ELSE 0

\* getValidMoves: <<cell, prize>>, one for each direction in which the cell is a move.
ValidMoves(b, color) ==
    {<<cell, dir>> \in {c \in Cell : b[c] = None} \X Direction : Bracket(b, color, cell, dir) > 0}
Cells(moves) == {v[1] : v \in moves}

\* boardRecalc: the disc, and moveLookup in every direction.
BoardRecalc(b, color, cell) ==
    [c \in Cell |-> IF \/ c = cell
                       \/ \E dir \in Direction : \E d \in 1 .. Bracket(b, color, cell, dir) - 1 :
                             c = Along(cell, dir, d)
                    THEN color ELSE b[c]]

StartBoard == LET m == Size \div 2
              IN [c \in Cell |-> CASE c \in {<<m - 1, m - 1>>, <<m, m>>} -> White
                                   [] c \in {<<m, m - 1>>, <<m - 1, m>>} -> Black
                                   [] OTHER -> None]

Init == /\ board = [p \in Player |-> [c \in Cell |-> None]]
        /\ command = [p \in Player |-> "init"]
        /\ printed = <<>> /\ discs = StartBoard /\ turn = Black

\* initGame.
InitGame(p) == /\ command[p] = "init"
               /\ board' = [board EXCEPT ![p] = StartBoard]
               /\ command' = [command EXCEPT ![p] = ""]
               /\ UNCHANGED <<printed, discs, turn>>

\* strangeScoring, of which only the sign matters here: a sum of weights of either sign,
\* so what the search finds below any position may be above zero or not.
StrangeScoring(b) == {-1, 0, 1}

\* minimax at depth 0: a move whose score beats the best so far, which begins at the least
\* positive double; the corner <<0, 0>> when no score is positive.
Minimax(p) ==
    LET moves == Cells(ValidMoves(board[p], p))
        After(cell) == BoardRecalc(board[p], p, cell)
    IN {cell \in moves : \E score \in StrangeScoring(After(cell)) : score > 0}
         \cup {c \in {<<0, 0>>} : \A cell \in moves :
                                   \E score \in StrangeScoring(After(cell)) : score <= 0}

\* strategy: the move printed and made on the own board.
Strategy(p) == /\ command[p] = "turn"
               /\ \E cell \in Minimax(p) :
                     /\ printed' = <<p, cell>>
                     /\ board' = [board EXCEPT ![p] = BoardRecalc(board[p], p, cell)]
               /\ command' = [command EXCEPT ![p] = ""]
               /\ UNCHANGED <<discs, turn>>

\* Mutant: the opponent's disc is put down and nothing is turned.
GetOpponentDisc(p) == /\ command[p] = "move"
                      /\ board' = [board EXCEPT ![p][printed[2]] = Opponent(p)]
                      /\ command' = [command EXCEPT ![p] = ""]
                      /\ printed' = <<>>
                      /\ UNCHANGED <<discs, turn>>

\* getOpponentMove.
GetOpponentMove(p) == /\ command[p] = "move"
                      /\ board' = [board EXCEPT ![p] = BoardRecalc(board[p], Opponent(p), printed[2])]
                      /\ command' = [command EXCEPT ![p] = ""]
                      /\ printed' = <<>>
                      /\ UNCHANGED <<discs, turn>>

\* By the rules: a move takes every straight line of the other's discs that it closes.
Line(cell, dir, n) == {Along(cell, dir, d) : d \in 1 .. n}
Taken(b, color, cell) ==
    UNION {Line(cell, dir, n) : <<dir, n>> \in
             {x \in Direction \X (1 .. Size - 2) :
                 /\ Line(cell, x[1], x[2] + 1) \subseteq Cell
                 /\ \A c \in Line(cell, x[1], x[2]) : b[c] = Opponent(color)
                 /\ b[Along(cell, x[1], x[2] + 1)] = color}}
Legal(b, color) == {c \in Cell : b[c] = None /\ Taken(b, color, c) # {}}

Full == Cardinality({c \in Cell : discs[c] # None}) >= MaxDiscs
Idle == \A p \in Player : command[p] = ""

\* The referee: asks a player who can move.
AskTurn == /\ turn \in Player /\ Idle /\ printed = <<>>
           /\ Legal(discs, turn) # {} /\ ~Full
           /\ command' = [command EXCEPT ![turn] = "turn"]
           /\ UNCHANGED <<board, printed, discs, turn>>

\* It passes for a player who cannot, or ends the game.
Pass == /\ turn \in Player /\ Idle /\ printed = <<>>
        /\ Legal(discs, turn) = {} \/ Full
        /\ turn' = IF Legal(discs, Opponent(turn)) = {} \/ Full THEN "over" ELSE Opponent(turn)
        /\ UNCHANGED <<board, command, printed, discs>>

\* It judges a move: "bad" ends the game, a legal one is passed on.
Judge == /\ turn \in Player /\ Idle /\ printed # <<>>
         /\ IF printed[2] \in Legal(discs, turn)
            THEN /\ discs' = [c \in Cell |->
                              IF c \in {printed[2]} \cup Taken(discs, turn, printed[2])
                              THEN turn ELSE discs[c]]
                 /\ command' = [command EXCEPT ![Opponent(turn)] = "move"]
                 /\ turn' = Opponent(turn)
            ELSE turn' = "bad" /\ UNCHANGED <<discs, command>>
         /\ UNCHANGED <<board, printed>>

Next == \/ \E p \in Player : InitGame(p) \/ Strategy(p) \/ GetOpponentMove(p)
        \/ AskTurn \/ Pass \/ Judge

-----------------------------------------------------------------------------

\* When nothing is under way, both players see the board that the rules make of the moves,
\* and a move is refused only if it is the corner of the fallback.
BoardsAgree ==
    /\ Idle /\ printed = <<>> => \A p \in Player : board[p] = discs
    /\ turn = "bad" => printed[2] = <<0, 0>>

Over == turn \notin Player
============================================================================
