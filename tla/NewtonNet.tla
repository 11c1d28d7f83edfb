----------------------------- MODULE NewtonNet -----------------------------
(***************************************************************************)
(* Lunev/newton.net: the integral of Newton shared out to servers.  The    *)
(* client looks for servers by a broadcast, gives each of the first Nservs *)
(* that answer a part of [0, 10] in proportion to its processes, and adds  *)
(* up what they send back.  Next to every connection a pair of heartbeat   *)
(* processes watches the other side: when one hears nothing it kills the   *)
(* process group it belongs to, the whole client or the whole server.      *)
(*                                                                         *)
(* Datagrams may be lost.  One more thing may go wrong: a program is       *)
(* killed, a server's machine falls silent (no FIN or RST ever comes from  *)
(* it), or a heartbeat is late.                                            *)
(***************************************************************************)
EXTENDS Integers, Sequences, SequencesExt, FiniteSets

CONSTANTS Server, Nservs,    \* the servers that run, and how many the client wants
          Nprocs             \* [Server -> the processes of the server]

NetAssumption == /\ IsFiniteSet(Server) /\ Nservs \in 1..Cardinality(Server)
                 /\ Nprocs \in [Server -> Nat \ {0}]

VARIABLES cpc, chosen, bound,     \* the client: its servers in order, cur_b after each
          tpc,                    \* its threads, one for each server chosen
          chb, shb,               \* the heartbeat processes of both sides
          spc, part,              \* the servers, the interval each has integrated
          heard, answers,         \* datagrams: who got the broadcast, whose answer came
          task, result,           \* what was sent on the connection with each server
          heirs,                  \* the connections each client heartbeat has open
          silent,                 \* the servers whose machine fell silent
          faults                  \* bound: one fault

vars == <<cpc, chosen, bound, tpc, chb, shb, spc, part, heard, answers, task, result,
          heirs, silent, faults>>
search == <<chosen, bound, heard, answers>>
traffic == <<task, result, part, heirs>>
harm == <<silent, faults>>

\* A server has bound its three sockets, and waits for a broadcast.
InitServers == /\ spc = [s \in Server |-> "listening"] /\ shb = [s \in Server |-> "none"]
               /\ part = [s \in Server |-> <<0, 0>>]

InitClient == /\ cpc = "broadcast" /\ chosen = <<>> /\ bound = <<0>>
              /\ tpc = [s \in Server |-> "none"] /\ chb = [s \in Server |-> "none"]

Init == /\ InitServers /\ InitClient
        /\ heard = {} /\ answers = {} /\ task = {} /\ result = {}
        /\ heirs = [s \in Server |-> {}]
        /\ silent = {} /\ faults = 0

Ended == cpc \in {"printed", "failed", "killed"}
ServerEnded(s) == spc[s] \in {"ended", "dead"}

-----------------------------------------------------------------------------
(* The search. *)

Broadcast == /\ cpc = "broadcast"
             /\ \E reached \in SUBSET Server : heard' = reached
             /\ cpc' = "collecting"
             /\ UNCHANGED <<chosen, bound, tpc, chb, shb, spc, answers, traffic, harm>>

\* A server answers one broadcast and then waits for a connection, for ever if none
\* comes.
Answer(s) == /\ spc[s] = "listening" /\ s \in heard
             /\ spc' = [spc EXCEPT ![s] = "accepting"]
             /\ answers' \in {answers, answers \cup {s}}
             /\ UNCHANGED <<cpc, chosen, bound, tpc, chb, shb, heard, traffic, harm>>

Share(s) == Nprocs[s]
Total(seq) == LET first[k \in 0 .. Len(seq)] ==
                     IF k = 0 THEN 0 ELSE first[k - 1] + Share(seq[k])
              IN first[Len(seq)]

\* cur_b as the server sees it: a double that is cut to an int.  One that should be
\* whole may come out of the additions a little too small.
CutBounds(n, total) ==
    {(10 * n) \div total}
        \cup (IF n # 0 /\ (10 * n) % total = 0 THEN {(10 * n) \div total - 1} ELSE {})
Bounds(seq) == {b \in [1 .. Len(seq) + 1 -> 0..10] :
                  \A k \in DOMAIN b : b[k] \in CutBounds(Total(SubSeq(seq, 1, k - 1)), Total(seq))}

Collect(s) == /\ cpc = "collecting" /\ s \in answers \ ToSet(chosen)
              /\ chosen' = Append(chosen, s)
              /\ IF Len(chosen') = Nservs
                 THEN /\ cpc' = "running" /\ bound' \in Bounds(chosen')
                      /\ tpc' = [t \in Server |-> IF t \in ToSet(chosen') THEN "start" ELSE "none"]
                 ELSE UNCHANGED <<cpc, bound, tpc>>
              /\ UNCHANGED <<chb, shb, spc, heard, answers, traffic, harm>>

\* The socket cannot be set up, or select returns after a second: too few servers.
GiveUp == /\ cpc \in {"broadcast", "collecting"} /\ cpc' = "failed"
          /\ UNCHANGED <<search, tpc, chb, shb, spc, traffic, harm>>

-----------------------------------------------------------------------------
(* thread_server and main's join.  ERROR ends the whole program, but not the *)
(* heartbeat processes, and these keep what was open when they were forked.  *)

Held(s) == \E t \in Server : s \in heirs[t]

Connect(s) == /\ cpc = "running" /\ tpc[s] = "start"
              /\ IF ServerEnded(s) THEN cpc' = "failed" /\ UNCHANGED tpc
                 ELSE tpc' = [tpc EXCEPT ![s] = "connected"] /\ UNCHANGED cpc
              /\ UNCHANGED <<search, chb, shb, spc, traffic, harm>>

\* The process has a copy of the socket of every thread; one that is still to connect may
\* have its socket already.
ForkHeartbeat(s) == /\ cpc = "running" /\ tpc[s] = "connected"
                    /\ tpc' = [tpc EXCEPT ![s] = "forked"]
                    /\ chb' = [chb EXCEPT ![s] = "connecting"]
                    /\ \E others \in SUBSET {t \in Server : tpc[t] = "start"} :
                          heirs' = [heirs EXCEPT ![s] = others \cup
                              {t \in Server : tpc[t] \in {"connected", "forked", "sent", "got"}}]
                    /\ UNCHANGED <<cpc, search, shb, spc, task, result, part, harm>>

SendTask(s) == /\ cpc = "running" /\ tpc[s] = "forked"
               /\ tpc' = [tpc EXCEPT ![s] = "sent"] /\ task' = task \cup {s}
               /\ UNCHANGED <<cpc, search, chb, shb, spc, part, result, heirs, harm>>

\* The result, or the end of a connection whose server is gone; nothing comes from a
\* machine that is silent.
Receive(s) == /\ cpc = "running" /\ tpc[s] = "sent"
              /\ IF s \in result THEN tpc' = [tpc EXCEPT ![s] = "got"] /\ UNCHANGED cpc
                 ELSE /\ ServerEnded(s) /\ s \notin silent
                      /\ cpc' = "failed" /\ UNCHANGED tpc
              /\ UNCHANGED <<search, chb, shb, spc, traffic, harm>>

KillHeartbeat(s) == /\ cpc = "running" /\ tpc[s] = "got"
                    /\ tpc' = [tpc EXCEPT ![s] = "done"]
                    /\ chb' = [chb EXCEPT ![s] = "gone"]
                    /\ heirs' = [heirs EXCEPT ![s] = {}]
                    /\ UNCHANGED <<cpc, search, shb, spc, task, result, part, harm>>

\* Mutant: one thread is joined.
PrintSumOfOne == /\ cpc = "running" /\ \E s \in ToSet(chosen) : tpc[s] = "done"
                 /\ cpc' = "printed"
                 /\ UNCHANGED <<search, tpc, chb, shb, spc, traffic, harm>>

PrintSum == /\ cpc = "running" /\ \A s \in ToSet(chosen) : tpc[s] = "done"
            /\ cpc' = "printed"
            /\ UNCHANGED <<search, tpc, chb, shb, spc, traffic, harm>>

-----------------------------------------------------------------------------
(* The server after its answer. *)

Accept(s) == /\ spc[s] = "accepting" /\ tpc[s] \notin {"none", "start"}
             /\ spc' = [spc EXCEPT ![s] = "receiving"]
             /\ shb' = [shb EXCEPT ![s] = "accepting"]
             /\ UNCHANGED <<cpc, search, tpc, chb, traffic, harm>>

\* The client's end of the connection is closed: by the client that ended, and by every
\* heartbeat process that has a copy.
Closed(s) == Ended /\ ~Held(s)

\* recv gives the task, or 0 when the connection is closed: the zero task is not told
\* apart.
ReceiveTask(s) == /\ spc[s] = "receiving" /\ (s \in task \/ Closed(s))
                  /\ spc' = [spc EXCEPT ![s] = "computing"]
                  /\ part' = [part EXCEPT ![s] =
                        IF s \in task
                        THEN LET k == CHOOSE k \in DOMAIN chosen : chosen[k] = s
                             IN <<bound[k], bound[k + 1]>>
                        ELSE <<0, 0>>]
                  /\ UNCHANGED <<cpc, search, tpc, chb, shb, task, result, heirs, harm>>

\* On a closed connection send may end the server by SIGPIPE.
SendResult(s) == /\ spc[s] = "computing"
                 /\ \/ /\ spc' = [spc EXCEPT ![s] = "answered"]
                       /\ result' = result \cup {s}
                    \/ /\ Closed(s) /\ spc' = [spc EXCEPT ![s] = "dead"]
                       /\ UNCHANGED result
                 /\ UNCHANGED <<cpc, search, tpc, chb, shb, task, part, heirs, harm>>

EndServer(s) == /\ spc[s] = "answered"
                /\ spc' = [spc EXCEPT ![s] = "ended"]
                /\ shb' = [shb EXCEPT ![s] = "gone"]
                /\ UNCHANGED <<cpc, search, tpc, chb, traffic, harm>>

-----------------------------------------------------------------------------
(* The heartbeats. *)

\* Without a server to connect to the process only exits: nobody is killed.
HeartbeatConnect(s) ==
    /\ chb[s] = "connecting"
    /\ IF ServerEnded(s) /\ shb[s] # "accepting"
       THEN chb' = [chb EXCEPT ![s] = "gone"] /\ heirs' = [heirs EXCEPT ![s] = {}]
       ELSE chb' = [chb EXCEPT ![s] = "beating"] /\ UNCHANGED heirs
    /\ UNCHANGED <<cpc, search, tpc, shb, spc, task, result, part, harm>>

HeartbeatAccept(s) == /\ shb[s] = "accepting" /\ chb[s] \notin {"none", "connecting"}
                      /\ s \notin silent
                      /\ shb' = [shb EXCEPT ![s] = "beating"]
                      /\ UNCHANGED <<cpc, search, tpc, chb, spc, traffic, harm>>

\* recv has returned 0 or timed out: the other process is gone.
ClientMisses(s) == /\ chb[s] = "beating" /\ shb[s] = "gone"
                   /\ chb' = [chb EXCEPT ![s] = "closing"]
                   /\ UNCHANGED <<cpc, search, tpc, shb, spc, traffic, harm>>
ServerMisses(s) == /\ shb[s] = "beating" /\ chb[s] = "gone"
                   /\ shb' = [shb EXCEPT ![s] = "closing"]
                   /\ UNCHANGED <<cpc, search, tpc, chb, spc, traffic, harm>>

\* The other process is well, but its heartbeat takes more than DELAY seconds.
Late(s) == /\ faults = 0 /\ faults' = 1
           /\ \/ chb[s] = "beating" /\ chb' = [chb EXCEPT ![s] = "closing"] /\ UNCHANGED shb
              \/ shb[s] = "beating" /\ shb' = [shb EXCEPT ![s] = "closing"] /\ UNCHANGED chb
           /\ UNCHANGED <<cpc, search, tpc, spc, traffic, silent>>

HeartbeatsKilled ==
    /\ chb' = [t \in Server |-> IF chb[t] = "none" THEN "none" ELSE "gone"]
    /\ heirs' = [t \in Server |-> {}]

\* killpg: with the client go all of its heartbeat processes.
KillClientGroup(s) == /\ chb[s] = "closing"
                      /\ cpc' = IF Ended THEN cpc ELSE "killed"
                      /\ HeartbeatsKilled
                      /\ UNCHANGED <<search, tpc, shb, spc, task, result, part, harm>>

KillServerGroup(s) == /\ shb[s] = "closing"
                      /\ spc' = [spc EXCEPT ![s] = IF ServerEnded(s) THEN @ ELSE "dead"]
                      /\ shb' = [shb EXCEPT ![s] = "gone"]
                      /\ UNCHANGED <<cpc, search, tpc, chb, traffic, harm>>

-----------------------------------------------------------------------------
(* The fault: a late heartbeat (above), a server that is killed or falls     *)
(* silent, or a client that is killed.                                       *)
ServerFails(s) == /\ faults = 0 /\ faults' = 1 /\ ~ServerEnded(s)
                  /\ spc' = [spc EXCEPT ![s] = "dead"]
                  /\ shb' = [shb EXCEPT ![s] = "gone"]
                  /\ silent' \in {silent, silent \cup {s}}
                  /\ UNCHANGED <<cpc, search, tpc, chb, traffic>>
ClientFails == /\ faults = 0 /\ faults' = 1 /\ ~Ended
               /\ cpc' = "killed"
               /\ HeartbeatsKilled
               /\ UNCHANGED <<search, tpc, shb, spc, task, result, part, silent>>

ThreadStep(s) == \/ Connect(s) \/ ForkHeartbeat(s) \/ SendTask(s) \/ Receive(s)
                 \/ KillHeartbeat(s)
ServerStep(s) == Answer(s) \/ Accept(s) \/ ReceiveTask(s) \/ SendResult(s) \/ EndServer(s)
HeartbeatStep(s) == \/ HeartbeatConnect(s) \/ HeartbeatAccept(s)
                    \/ ClientMisses(s) \/ ServerMisses(s)
                    \/ KillClientGroup(s) \/ KillServerGroup(s)

Step == \/ Broadcast \/ GiveUp \/ PrintSum
        \/ \E s \in Server : Collect(s) \/ ThreadStep(s) \/ ServerStep(s) \/ HeartbeatStep(s)
Fault == ClientFails \/ \E s \in Server : ServerFails(s) \/ Late(s)

Next == Step \/ Fault

\* The processes go on as long as one of them can: every behaviour ends, so this asks of
\* the scheduler no more than that a process is not held back for ever.
FairSpec == Init /\ [][Next]_vars /\ WF_vars(Step)

-----------------------------------------------------------------------------
Heartbeats == {"none", "connecting", "accepting", "beating", "closing", "gone"}
TypeOK ==
    /\ cpc \in {"broadcast", "collecting", "running", "printed", "failed", "killed"}
    /\ tpc \in [Server -> {"none", "start", "connected", "forked", "sent", "got", "done"}]
    /\ chb \in [Server -> Heartbeats] /\ shb \in [Server -> Heartbeats]
    /\ spc \in [Server -> {"listening", "accepting", "receiving", "computing", "answered",
                           "ended", "dead"}]
    /\ heard \cup answers \cup task \cup result \cup silent \cup ToSet(chosen) \subseteq Server
    /\ heirs \in [Server -> SUBSET Server]

\* A sum that is printed is made of the parts of Nservs servers, each added once: they
\* follow each other from 0 without a gap or an overlap.  (They reach 10 or, when the
\* last bound has come out too small, 9.)
PrintsOneIntegral ==
    cpc = "printed" =>
        /\ Len(chosen) = Nservs /\ ToSet(chosen) \subseteq result
        /\ part[chosen[1]][1] = 0
        /\ \A k \in 1 .. Nservs - 1 : part[chosen[k]][2] = part[chosen[k + 1]][1]
        /\ part[chosen[Nservs]][2] \in {9, 10}

\* An ERROR of one thread (a server it cannot reach) has ended the client before another
\* sent its task, and a heartbeat process that survives keeps that connection open.
Orphaned(s) == cpc = "failed" /\ s \notin task /\ Held(s)

\* Once their heartbeats are connected neither side waits for ever for one that is gone,
\* even when no packet says so.  The one exception: an orphaned server, whose recv never
\* returns although nobody is left to send, while the two heartbeats go on.
HeartbeatsGuard ==
    <>[] \A s \in Server :
            /\ chb[s] = "beating" => Ended \/ tpc[s] = "done"
            /\ shb[s] = "beating" => ServerEnded(s) \/ Orphaned(s)
============================================================================
