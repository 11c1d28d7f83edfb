---------------------------- MODULE FlowNetwork ----------------------------
(***************************************************************************)
(* algos/graph: the network both maximum-flow programs work on, and the    *)
(* output of their main.  Between any two vertices there are two tubes,    *)
(* one each way, that hold opposite flows; parallel edges of the graph add *)
(* up in one tube, and main shares the flow of the tube out to them again. *)
(***************************************************************************)
EXTENDS Integers, Sequences, FiniteSets, FiniteSetsExt, SequencesExt

CONSTANTS N,          \* vertices 0 .. N - 1, the first is the source, the last the sink
          Graphs      \* sequences of edges <<origin, destination, capacity>>

Vertex == 0 .. N - 1
Source == 0
Sink == N - 1

GraphAssumption == /\ N \in Nat /\ N > 1
                   /\ \A g \in Graphs : ToSet(g) \subseteq Vertex \X Vertex \X Nat

VARIABLES edges, flow, networkFlow,
          pc,           \* of the program: what it is at, print, done, failed (assert,
                        \* throw), or astray: it has written where nothing may be written
          printed       \* the flow of each edge, as main prints them

network == <<edges, flow, networkFlow>>

InitNetwork == /\ edges \in Graphs
               /\ flow = [t \in Vertex \X Vertex |-> 0]
               /\ networkFlow = 0 /\ pc = "init" /\ printed = <<>>

\* exportEdge.
Capacity(u, v) == FoldSeq(+, 0, [k \in DOMAIN edges |->
                     IF edges[k][1] = u /\ edges[k][2] = v THEN edges[k][3] ELSE 0])

\* The functions of a tube on a state of the flows.
Residual(f, u, v) == Capacity(u, v) - f[u, v]
Saturated(f, u, v) == Residual(f, u, v) = 0

\* Mutant: the tube back does not hear of the push.
PushOneWay(f, u, v, delta) == IF u = v THEN f ELSE [f EXCEPT ![u, v] = @ + delta]

\* Tube::push: the tube back first, which is the same tube when u = v.
PushTube(f, u, v, delta) ==
    IF u = v THEN f ELSE [f EXCEPT ![v, u] = @ - delta, ![u, v] = @ + delta]
WithinCapacity(f, u, v) == f[u, v] <= Capacity(u, v)

\* main, one edge: as much of the tube's flow as the edge can carry, which is then
\* pushed back.
PrintEdge == /\ pc = "print"
             /\ LET k == Len(printed) + 1
                    u == edges[k][1]
                    v == edges[k][2]
                    ans == Max({0, Min({flow[u, v], edges[k][3]})})
                IN /\ flow' = PushTube(flow, v, u, ans)
                   /\ printed' = Append(printed, ans)
                   /\ pc' = IF ~WithinCapacity(flow', v, u) THEN "failed"
                            ELSE IF k = Len(edges) THEN "done" ELSE "print"
             /\ UNCHANGED <<edges, networkFlow>>

-----------------------------------------------------------------------------
(* What the programs promise. *)

Through(p, w, k) == FoldSeq(+, 0, [e \in DOMAIN edges |-> IF edges[e][k] = w THEN p[e] ELSE 0])
Net(p, w) == Through(p, w, 1) - Through(p, w, 2)

MinCut == Min({FoldSeq(+, 0, [k \in DOMAIN edges |->
                    IF edges[k][1] \in S /\ edges[k][2] \notin S THEN edges[k][3] ELSE 0]) :
               S \in {T \cup {Source} : T \in SUBSET (Vertex \ {Source, Sink})}})

\* Neither the assertion on capacities nor the throw of a push that is left with flow
\* is ever met; the number printed is the capacity of a least cut, and the flows of the
\* edges are a flow of that size.
PrintsMaximumFlow ==
    /\ pc # "failed"
    /\ pc = "done" =>
         /\ networkFlow = MinCut
         /\ \A k \in DOMAIN edges : printed[k] \in 0 .. edges[k][3]
         /\ \A w \in Vertex \ {Source, Sink} : Net(printed, w) = 0
         /\ Net(printed, Source) = networkFlow
============================================================================
