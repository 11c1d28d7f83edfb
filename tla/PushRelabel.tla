---------------------------- MODULE PushRelabel ----------------------------
(***************************************************************************)
(* The push-relabel algorithm with the gap heuristic: one action is one    *)
(* turn of a loop of the program.                                          *)
(***************************************************************************)
EXTENDS FlowNetwork

CONSTANT DeltaRange      \* 2^32: an edge is read into a uint32_t, and discharge keeps the
                         \* flow it pushes in one

DeltaAssumption == \A g \in Graphs : \A k \in DOMAIN g : g[k][3] < DeltaRange

VARIABLES height, usedHeight,         \* usedHeight: the elements that usedHeight_ has
          excess,
          pointer,                    \* of each vertex, the tube discharge tries next
          scan, discharged            \* run: the vertex of this pass, was anything done

labels == <<height, usedHeight, excess, pointer, scan, discharged>>
vars == <<network, pc, printed, labels>>

Zero == [v \in Vertex |-> 0]
Init == /\ InitNetwork
        /\ height = Zero /\ usedHeight = Zero /\ excess = Zero /\ pointer = Zero
        /\ scan = 0 /\ discharged = TRUE

\* The vector has N elements.  The counts of heights N .. 2N are written beyond its end, with
\* no check: they hit nothing, or the program is astray.  What is read there selects a gap
\* above N, which moves nothing.
UseHeight(used, h, by) == IF h \in DOMAIN used THEN [used EXCEPT ![h] = @ + by] ELSE used
Counted(heights, next) == pc' \in IF heights \subseteq DOMAIN usedHeight THEN {next} ELSE {next, "astray"}

\* initPreflow: every tube of the source is filled; height N is counted on every run.
InitPreflow ==
    /\ pc = "init"
    /\ height' = [height EXCEPT ![Source] = N]
    /\ usedHeight' = UseHeight(usedHeight, 0, N - 1)
    /\ excess' = [v \in Vertex |->
                    IF v = Source THEN -MapThenSumSet(LAMBDA w : Capacity(v, w), Vertex \ {v})
                    ELSE Capacity(Source, v)]
    /\ flow' = [t \in Vertex \X Vertex |->
                  CASE t = <<Source, Source>> -> 0
                    [] t[1] = Source -> Capacity(t[1], t[2])
                    [] t[2] = Source -> -Capacity(Source, t[1])
                    [] OTHER -> 0]
    /\ Counted({0, N}, "pass")
    /\ UNCHANGED <<edges, networkFlow, printed, pointer, scan, discharged>>

Active(v) == v \notin {Source, Sink} /\ excess[v] > 0

\* run, the loop over the vertices, and the loop around it.
Scan == /\ pc = "pass" /\ scan < N
        /\ IF Active(scan) THEN pc' = "discharge" /\ discharged' = TRUE /\ scan' = scan
           ELSE pc' = pc /\ discharged' = discharged /\ scan' = scan + 1
        /\ UNCHANGED <<network, printed, height, usedHeight, excess, pointer>>

NextPass == /\ pc = "pass" /\ scan = N /\ discharged
            /\ scan' = 0 /\ discharged' = FALSE
            /\ UNCHANGED <<network, pc, printed, height, usedHeight, excess, pointer>>

SumFlow == /\ pc = "pass" /\ scan = N /\ ~discharged
           /\ networkFlow' = MapThenSumSet(LAMBDA v : flow[Source, v], Vertex \ {Source})
           /\ pc' = "print"
           /\ UNCHANGED <<edges, flow, printed, labels>>

\* Mutant: flow goes up as well.
CanPushUp(u, v) == height[u] # height[v]

CanPush(u, v) == height[u] = height[v] + 1

\* discharge, a tube: a push of nothing through a full tube included.
PushOn ==
    /\ pc = "discharge" /\ excess[scan] > 0 /\ pointer[scan] < N
    /\ LET w == pointer[scan]
           delta == IF CanPush(scan, w) 
                    THEN Min({excess[scan], Residual(flow, scan, w)}) % DeltaRange ELSE 0
       IN /\ flow' = PushTube(flow, scan, w, delta)
          /\ excess' = [excess EXCEPT ![w] = @ + delta, ![scan] = @ - delta]
          /\ pc' = IF WithinCapacity(flow', scan, w) THEN pc ELSE "failed"
    /\ pointer' = [pointer EXCEPT ![scan] = @ + 1]
    /\ UNCHANGED <<edges, networkFlow, printed, height, usedHeight, scan, discharged>>

\* gap: nobody is left at height g; the counts are not moved with the vertices.
Gap(h, g) == [v \in Vertex |-> IF h[v] > g /\ h[v] < N THEN N ELSE h[v]]

\* discharge, behind the last tube: relabel.
Relabel ==
    /\ pc = "discharge" /\ excess[scan] > 0 /\ pointer[scan] = N
    /\ LET old == height[scan]
           new == Min({2 * N} \cup {height[w] + 1 : w \in {x \in Vertex : ~Saturated(flow, scan, x)}})
           used == UseHeight(UseHeight(usedHeight, old, -1), new, 1)
           raised == [height EXCEPT ![scan] = new]
       IN /\ usedHeight' = used /\ Counted({old, new}, pc)
          /\ height' = IF old < N /\ used[old] = 0 THEN Gap(raised, old) ELSE raised
    /\ pointer' = [pointer EXCEPT ![scan] = 0]
    /\ UNCHANGED <<network, printed, excess, scan, discharged>>

Discharged == /\ pc = "discharge" /\ excess[scan] <= 0
              /\ pc' = "pass" /\ scan' = scan + 1
              /\ UNCHANGED <<network, printed, height, usedHeight, excess, pointer, discharged>>

Next == \/ InitPreflow \/ Scan \/ NextPass \/ SumFlow \/ PushOn \/ Relabel \/ Discharged
        \/ PrintEdge /\ UNCHANGED labels

-----------------------------------------------------------------------------

\* No push is cut to 32 bits: two tubes between the same vertices hold less together.
TubesFit == \A u, v \in Vertex : Capacity(u, v) + Capacity(v, u) < DeltaRange

\* What makes an empty pass mean that the flow is maximal: no residual tube descends by
\* more than one, whatever the stale counts made gap do; the excess is what flowed in.
ValidLabels ==
    pc \in {"pass", "discharge"} =>
        /\ \A u, v \in Vertex : Residual(flow, u, v) > 0 => height[u] <= height[v] + 1
        /\ \A v \in Vertex : excess[v] = -MapThenSumSet(LAMBDA w : flow[v, w], Vertex)
============================================================================
