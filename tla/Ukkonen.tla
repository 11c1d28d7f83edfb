------------------------------ MODULE Ukkonen ------------------------------
(***************************************************************************)
(* The suffix tree of esko.cpp: Ukkonen's algorithm, one action for each   *)
(* part of a turn of the loop in appendChar.  Nodes are numbered from 1.   *)
(***************************************************************************)
EXTENDS Integers, Sequences, FiniteSets, FiniteSetsExt, SequencesExt, TLC

CONSTANT Windows            \* strings of naturals, the letters counted from 1

VARIABLES text, pc,         \* the window; of the program, "failed" is undefined behaviour
          answer            \* the number printed

VARIABLES tree,                 \* nodes, in the order in which they are made
          last,                 \* lastPosition_: letters taken so far
          first, offset,        \* firstPosition_, curOffset_
          point, linkPoint,     \* curPoint_, curLinkPoint_
          prevLinkPoint,
          linkLeft              \* has a phase ended with a suffix link still to set

InitWindow == text \in Windows /\ answer = 0

\* Positions count from zero in the program.
At(s, p) == s[p + 1]

position == <<first, offset, point, linkPoint, prevLinkPoint, linkLeft>>
vars == <<text, answer, pc, tree, last, position>>

Empty == 1
Root == 2
None == Empty                   \* a curLinkPoint_ of 0 says that there is none
Unset == 0                      \* suffixLink_ has no value until setSuffixLink
Null == 0                       \* -1 in go_
Letters == UNION {ToSet(w) : w \in Windows}
NoChildren == [c \in Letters |-> Null]

\* The two constructors of Node; length_ of a leaf is never read.
Leaf(parent) == [start |-> last - 1, parent |-> parent, leaf |-> TRUE,
                 length |-> 0, link |-> Unset, go |-> NoChildren]
Inner(start, parent, length) == [start |-> start, parent |-> parent, leaf |-> FALSE,
                                 length |-> length, link |-> Unset, go |-> NoChildren]

\* getDistance: fixNodeLengths tells every leaf how far the text has come.
Distance(n, upto) == IF tree[n].leaf THEN upto - tree[n].start ELSE tree[n].length

InitTree ==
    /\ tree = << [Inner(0, Empty, 0) EXCEPT !.go = [c \in Letters |-> Root]],
                 [Inner(0, Empty, 1) EXCEPT !.link = Empty] >>
    /\ last = 0 /\ first = 0 /\ offset = 1
    /\ point = Root /\ linkPoint = None /\ prevLinkPoint = Root /\ linkLeft = FALSE

Init == InitWindow /\ InitTree /\ pc = "append"

\* Mutant: the root and the empty node are summed up as well.
AppendCharSumsAll == 
    /\ pc = "append"
    /\ IF last = Len(text)
       THEN /\ answer' = MapThenSumSet(LAMBDA n : Distance(n, last), 1 .. Len(tree))
            /\ pc' = "done" /\ last' = last
       ELSE last' = last + 1 /\ pc' = "grow" /\ answer' = answer
    /\ UNCHANGED <<text, tree, position>>

\* buildTree, calcSum.
AppendChar == /\ pc = "append"
              /\ IF last = Len(text)
                 THEN /\ answer' = MapThenSumSet(LAMBDA n : Distance(n, last), 3 .. Len(tree))
                      /\ pc' = "done" /\ last' = last
                 ELSE last' = last + 1 /\ pc' = "grow" /\ answer' = answer
              /\ UNCHANGED <<text, tree, position>>

lastChar == text[last]
Child(n, c) == tree[n].go[c]

\* adjustOffset, one node down.
AdjustOffset ==
    /\ pc = "grow" /\ offset > Distance(point, last)
    /\ first' = first + Distance(point, last)
    /\ offset' = offset - Distance(point, last)
    /\ point' = IF first' < Len(text) THEN Child(point, At(text, first')) ELSE Null
    /\ pc' = IF point' = Null THEN "failed" ELSE pc
    /\ UNCHANGED <<text, answer, tree, last, linkPoint, prevLinkPoint, linkLeft>>

\* The loop is left when the letter is there already.
EndPhase == pc' = "append" /\ linkLeft' = (linkLeft \/ prevLinkPoint # Root)
Continue == pc' = "link" /\ linkLeft' = linkLeft

\* growTree at a node: addLeaf, or a step to the child.
GrowAtNode ==
    /\ pc = "grow" /\ offset = Distance(point, last)
    /\ linkPoint' = IF Child(point, lastChar) = Null THEN point
                    ELSE tree[Child(point, lastChar)].parent
    /\ IF Child(point, lastChar) = Null
       THEN /\ tree' = Append([tree EXCEPT ![point].go[lastChar] = Len(tree) + 1], Leaf(point))
            /\ point' = Len(tree) + 1
            /\ first' = last - 1 /\ offset' = 0
            /\ Continue
       ELSE /\ point' = Child(point, lastChar) /\ offset' = 1
            /\ EndPhase
            /\ UNCHANGED <<tree, first>>
    /\ UNCHANGED <<text, answer, last, prevLinkPoint>>

\* growTree inside an edge: split, or a step along it.
GrowInEdge ==
    /\ pc = "grow" /\ offset < Distance(point, last)
    /\ IF At(text, tree[point].start + offset) = lastChar
       THEN offset' = offset + 1 /\ EndPhase /\ UNCHANGED <<tree, first, point, linkPoint>>
       ELSE LET mid == Len(tree) + 1
                node == tree[point]
                low == node.start + offset
                middle == [Inner(node.start, node.parent, offset) EXCEPT
                             !.go = (lastChar :> mid + 1) @@ (At(text, low) :> point) @@ NoChildren]
            IN /\ tree' = [tree EXCEPT ![point].start = low, ![point].length = @ - offset,
                                       ![point].parent = mid,
                                       ![node.parent].go[At(text, node.start)] = mid]
                          \o <<middle, Leaf(mid)>>
               /\ linkPoint' = mid /\ point' = mid /\ first' = node.start
               /\ Continue /\ UNCHANGED offset
    /\ UNCHANGED <<text, answer, last, prevLinkPoint>>

\* appendChar after growTree: the link of the node before, and along the parent's link.
FollowLink ==
    /\ pc = "link"
    /\ LET pending == linkPoint # None /\ prevLinkPoint # Root
           linked == IF pending THEN [tree EXCEPT ![prevLinkPoint].link = linkPoint] ELSE tree
           target == linked[tree[point].parent].link
       IN /\ tree' = linked
          /\ prevLinkPoint' = linkPoint
          /\ linkPoint' = None
          /\ IF target = Unset
             THEN pc' = "failed" /\ UNCHANGED <<point, offset>>
             ELSE IF offset # 0
             THEN /\ point' = linked[target].go[At(text, first)]
                  /\ pc' = IF point' = Null THEN "failed" ELSE "grow"
                  /\ UNCHANGED offset
             ELSE point' = target /\ offset' = linked[target].length /\ pc' = "grow"
    /\ UNCHANGED <<text, answer, last, first, linkLeft>>

Next == AppendChar \/ AdjustOffset \/ GrowAtNode \/ GrowInEdge \/ FollowLink
Spec == Init /\ [][Next]_vars
============================================================================
