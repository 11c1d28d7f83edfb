-------------------------------- MODULE Mkm --------------------------------
(***************************************************************************)
(* The algorithm of Malhotra, Kumar and Maheshwari: in the layers that a   *)
(* breadth-first search finds, the vertex that can pass the least gets     *)
(* that much through it, forward to the sink and backward to the source,   *)
(* and is deleted.  One action is a search, the choice of a vertex, or one *)
(* step of a push.                                                         *)
(***************************************************************************)
EXTENDS FlowNetwork

VARIABLES level, visited, queue,      \* BFS
          deleted,                    \* visitedVertex_
          outCapacity, inCapacity,
          available,                  \* avaliableVertex_: the next tube to try, each way
          chosen,                     \* the vertex whose potential is pushed, and how much
          stack, dir                  \* the calls of pushPreflow: <<vertex, flow left>>; direction

search == <<level, visited, queue>>
flows == <<deleted, outCapacity, inCapacity, available, chosen, stack, dir>>
layers == <<search, flows>>
vars == <<network, pc, printed, layers>>

Zero == [v \in Vertex |-> 0]
Init == /\ InitNetwork
        /\ level = Zero /\ visited = {} /\ queue = <<>> /\ deleted = {}
        /\ outCapacity = Zero /\ inCapacity = Zero
        /\ available = [d \in {"Forward", "Backward"} |-> Zero]
        /\ chosen = <<0, 0>> /\ stack = <<>> /\ dir = "Forward"

\* BFS::run.  level_ keeps what an earlier search wrote where this one does not come.
Bfs == /\ pc = "init"
       /\ visited' = {Source} /\ level' = [level EXCEPT ![Source] = 0] /\ queue' = <<Source>>
       /\ pc' = "search"
       /\ UNCHANGED <<network, printed, flows>>

Visit == /\ pc = "search" /\ queue # <<>>
         /\ LET u == Head(queue)
                new == {v \in Vertex \ visited : ~Saturated(flow, u, v)}
            IN /\ visited' = visited \cup new
               /\ level' = [v \in Vertex |-> IF v \in new THEN level[u] + 1 ELSE level[v]]
               /\ queue' = Tail(queue) \o SetToSortSeq(new, <)
         /\ UNCHANGED <<network, pc, printed, flows>>

NextLevel(u, v) == level[u] + 1 = level[v]
Good(v) == v \in visited /\ (level[v] < level[Sink] \/ v = Sink)

\* run: the sink was found or the program is done.
PathReachedSink == /\ pc = "search" /\ queue = <<>>
                   /\ pc' = IF Sink \in visited THEN "blocking" ELSE "print"
                   /\ UNCHANGED <<network, printed, search, flows>>

\* The capacity, in the layers, of a tube between vertices that are not in gone.
Layered(f, gone, u, v) == IF {u, v} \cap gone = {} /\ NextLevel(u, v) THEN Residual(f, u, v) ELSE 0

InitBlockingFlow ==
    /\ pc = "blocking"
    /\ deleted' = {v \in Vertex : ~Good(v)}
    /\ available' = [d \in {"Forward", "Backward"} |-> Zero]
    /\ outCapacity' = [u \in Vertex |-> MapThenSumSet(LAMBDA v : Layered(flow, deleted', u, v), Vertex)]
    /\ inCapacity' = [v \in Vertex |-> MapThenSumSet(LAMBDA u : Layered(flow, deleted', u, v), Vertex)]
    /\ pc' = "vertex"
    /\ UNCHANGED <<network, printed, search, chosen, stack, dir>>

Potential(v) == CASE v = Source -> outCapacity[v]
                  [] v = Sink -> inCapacity[v]
                  [] OTHER -> Min({outCapacity[v], inCapacity[v]})

\* findBlockingFlow: the first vertex of least potential.
Choose ==
    /\ pc = "vertex" /\ deleted # Vertex
    /\ LET least == Min({Potential(v) : v \in Vertex \ deleted})
           c == Min({v \in Vertex \ deleted : Potential(v) = least})
       IN /\ networkFlow' = networkFlow + least
          /\ chosen' = <<c, least>> /\ stack' = <<<<c, least>>>>
    /\ dir' = "Forward" /\ pc' = "push"
    /\ UNCHANGED <<edges, flow, printed, search, deleted, outCapacity, inCapacity, available>>

From(v, w) == IF dir = "Forward" THEN v ELSE w
To(v, w) == IF dir = "Forward" THEN w ELSE v

\* The loop of pushPreflow up to the first tube that can take some of the flow.
NextTube(v) == Min({N} \cup {w \in available[dir][v] .. N - 1 :
                              /\ w \notin deleted
                              /\ NextLevel(From(v, w), To(v, w))
                              /\ ~Saturated(flow, From(v, w), To(v, w))})

\* pushPreflow: flow through that tube, and the call that takes it on; throw when no
\* tube is left.
PushPreflow ==
    /\ pc = "push" /\ stack # <<>>
    /\ LET v == Last(stack)[1]
           left == Last(stack)[2]
           w == NextTube(v)
           from == From(v, w)
           to == To(v, w)
           delta == Min({left, Residual(flow, from, to)})
       IN /\ left # 0 /\ v # To(Source, Sink)
          /\ available' = [available EXCEPT ![dir][v] = w]
          /\ IF w = N
             THEN pc' = "failed" /\ UNCHANGED <<flow, outCapacity, inCapacity, stack>>
             ELSE /\ flow' = PushTube(flow, from, to, delta)
                  /\ outCapacity' = [outCapacity EXCEPT ![from] = @ - delta]
                  /\ inCapacity' = [inCapacity EXCEPT ![to] = @ - delta]
                  /\ stack' = Front(stack) \o <<<<v, left - delta>>, <<w, delta>>>>
                  /\ pc' = IF WithinCapacity(flow', from, to) THEN pc ELSE "failed"
    /\ UNCHANGED <<edges, networkFlow, printed, search, deleted, chosen, dir>>

\* A call returns when its flow has gone on, or has arrived.
Return ==
    /\ pc = "push" /\ stack # <<>>
    /\ Last(stack)[2] = 0 \/ Last(stack)[1] = To(Source, Sink)
    /\ stack' = Front(stack)
    /\ UNCHANGED <<network, pc, printed, search, deleted, outCapacity, inCapacity,
                   available, chosen, dir>>

PushBackward ==
    /\ pc = "push" /\ stack = <<>> /\ dir = "Forward"
    /\ dir' = "Backward" /\ stack' = <<chosen>>
    /\ UNCHANGED <<network, pc, printed, search, deleted, outCapacity, inCapacity,
                   available, chosen>>

DeleteVertex ==
    /\ pc = "push" /\ stack = <<>> /\ dir = "Backward"
    /\ LET c == chosen[1]
       IN /\ deleted' = deleted \cup {c}
          /\ inCapacity' = [w \in Vertex |-> IF w = c THEN inCapacity[w]
                                             ELSE inCapacity[w] - Layered(flow, deleted, c, w)]
          /\ outCapacity' = [w \in Vertex |-> IF w = c THEN outCapacity[w]
                                              ELSE outCapacity[w] - Layered(flow, deleted, w, c)]
    /\ pc' = "vertex"
    /\ UNCHANGED <<network, printed, search, available, chosen, stack, dir>>

Blocked == /\ pc = "vertex" /\ deleted = Vertex
           /\ pc' = "init"
           /\ UNCHANGED <<network, printed, layers>>

Next == \/ Bfs \/ Visit \/ PathReachedSink \/ InitBlockingFlow \/ Choose \/ PushPreflow
        \/ Return \/ PushBackward \/ DeleteVertex \/ Blocked
        \/ PrintEdge /\ UNCHANGED layers

-----------------------------------------------------------------------------

\* What the choice of a vertex rests on: the capacities kept by the steps are those of
\* the layers without the deleted vertices.
CapacitiesExact ==
    pc = "vertex" => \A w \in Vertex \ deleted :
        /\ outCapacity[w] = MapThenSumSet(LAMBDA v : Layered(flow, deleted, w, v), Vertex)
        /\ inCapacity[w] = MapThenSumSet(LAMBDA u : Layered(flow, deleted, u, w), Vertex)
============================================================================
