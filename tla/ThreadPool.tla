----------------------------- MODULE ThreadPool -----------------------------
(***************************************************************************)
(* thread_pool of task2 with its unbounded thread_safe_queue, workers that *)
(* run tasks, clients that submit them, and clients that shut it down.     *)
(*                                                                         *)
(* my_shutdown_mutex is held over the whole of submit() and of shutdown(), *)
(* the join of the workers included, so it is a variable.  The queue's own *)
(* mutex is held from the entry of a method, or from the return of a wait, *)
(* to the next wait or the end: each such stretch is one step.             *)
(*                                                                         *)
(* A task may itself submit a task, as any callable may.                   *)
(***************************************************************************)
EXTENDS Naturals, Sequences, FiniteSets

CONSTANTS Worker, Client,
          Quota,         \* how many tasks a client submits
          Getter,        \* the clients that then wait for their futures
          Closer,        \* the clients that then call shutdown()
          NestedIndex,   \* the tasks of this index submit another (0: none)
          None           \* nobody

ClientAssumption == Getter \subseteq Client /\ Closer \subseteq Client
QuotaAssumption == Quota \in Nat /\ NestedIndex \in 0 .. Quota

Task == [client : Client, index : 1 .. Quota, child : BOOLEAN]

WorkerAssumption == Worker # {} /\ Worker \cap Client = {} /\ None \notin Worker \cup Client \cup Task

Nests(t) == t.index = NestedIndex /\ ~t.child

VARIABLES queue,       \* task_queue.queue
          isAlive,     \* task_queue.is_alive
          lock,        \* who holds my_shutdown_mutex
          joined,      \* the workers that are no longer joinable
          wpc, task,   \* worker -> where it is, and the task it took
          cpc, made,   \* client -> where it is, and how many it submitted
          accepted,    \* the tasks submit() returned a future for
          ran          \* the tasks that have been run, in that order

workerVars == <<wpc, task>>
clientVars == <<cpc, made>>
vars == <<queue, isAlive, lock, joined, wpc, task, cpc, made, accepted, ran>>

Init == /\ queue = <<>>
        /\ isAlive = TRUE
        /\ lock = None
        /\ joined = {}
        /\ wpc = [w \in Worker |-> "pop"]
        /\ task = [w \in Worker |-> None]
        /\ cpc = [c \in Client |-> "submit"]
        /\ made = [c \in Client |-> 0]
        /\ accepted = {}
        /\ ran = <<>>

Asleep == {w \in Worker : wpc[w] = "asleep"}

-----------------------------------------------------------------------------
\* thread_safe_queue::enqueue, with the lock of submit() given back.  Worker
\* locations are those of pc, so that a worker's own nested submit fits in.
EnqueueInto(pc, t) ==
    /\ IF isAlive
       THEN /\ queue' = Append(queue, t)
            /\ accepted' = accepted \cup {t}
            /\ \/ Asleep = {} /\ wpc' = pc
               \/ \E w \in Asleep : wpc' = [pc EXCEPT ![w] = "pop"]
       ELSE /\ wpc' = pc
            /\ UNCHANGED <<queue, accepted>>
    /\ lock' = None

\* submit() of a client, to the constructor of the lock.
SubmitLock(c) == /\ cpc[c] = "submit" /\ made[c] < Quota
                 /\ lock = None
                 /\ lock' = c
                 /\ cpc' = [cpc EXCEPT ![c] = "enqueue"]
                 /\ UNCHANGED <<queue, isAlive, joined, workerVars, made, accepted, ran>>

\* The rest of submit(): a future, or the exception of a dead queue.
Submit(c) ==
    /\ cpc[c] = "enqueue"
    /\ EnqueueInto(wpc, [client |-> c, index |-> made[c] + 1, child |-> FALSE])
    /\ made' = [made EXCEPT ![c] = @ + 1]
    /\ cpc' = [cpc EXCEPT ![c] = "submit"]
    /\ UNCHANGED <<isAlive, joined, task, ran>>

Tasks(c) == {t \in Task : t.client = c /\ ~t.child}
HasRun(t) == \E k \in 1 .. Len(ran) : ran[k] = t

\* After its submissions a client gets its futures, or does not.
Get(c) == /\ cpc[c] = "submit" /\ made[c] = Quota
          /\ c \in Getter => \A t \in Tasks(c) \cap accepted : HasRun(t)
          /\ cpc' = [cpc EXCEPT ![c] = IF c \in Closer THEN "shutdown" ELSE "done"]
          /\ UNCHANGED <<queue, isAlive, lock, joined, workerVars, made, accepted, ran>>

\* Mutant: shutdown() goes in without waiting for my_shutdown_mutex.
ShutdownBarges(c) == /\ cpc[c] = "shutdown"
                     /\ lock' = c
                     /\ cpc' = [cpc EXCEPT ![c] = "close"]
                     /\ UNCHANGED <<queue, isAlive, joined, workerVars, made, accepted, ran>>

ShutdownLock(c) == /\ cpc[c] = "shutdown"
                   /\ lock = None
                   /\ lock' = c
                   /\ cpc' = [cpc EXCEPT ![c] = "close"]
                   /\ UNCHANGED <<queue, isAlive, joined, workerVars, made, accepted, ran>>

\* Mutant: one worker is notified.
CloseNotifyOne(c) ==
    /\ cpc[c] = "close"
    /\ isAlive' = FALSE
    /\ \/ Asleep = {} /\ UNCHANGED wpc
       \/ \E w \in Asleep : wpc' = [wpc EXCEPT ![w] = "pop"]
    /\ cpc' = [cpc EXCEPT ![c] = "join"]
    /\ UNCHANGED <<queue, lock, joined, task, made, accepted, ran>>

\* Mutant: what is still queued is discarded.
CloseDiscards(c) ==
    /\ cpc[c] = "close"
    /\ isAlive' = FALSE
    /\ queue' = <<>>
    /\ wpc' = [w \in Worker |-> IF w \in Asleep THEN "pop" ELSE wpc[w]]
    /\ cpc' = [cpc EXCEPT ![c] = "join"]
    /\ UNCHANGED <<lock, joined, task, made, accepted, ran>>

\* task_queue.shutdown()
Close(c) == /\ cpc[c] = "close"
            /\ isAlive' = FALSE
            /\ wpc' = [w \in Worker |-> IF w \in Asleep THEN "pop" ELSE wpc[w]]
            /\ cpc' = [cpc EXCEPT ![c] = "join"]
            /\ UNCHANGED <<queue, lock, joined, task, made, accepted, ran>>

\* A turn of the loop over the workers; those joined before are skipped.  The
\* order of the turns is left open: the loop ends only when it has joined all.
Join(c) == /\ cpc[c] = "join"
           /\ \E w \in Worker \ joined : /\ wpc[w] = "exited"
                                         /\ joined' = joined \cup {w}
           /\ UNCHANGED <<queue, isAlive, lock, workerVars, clientVars, accepted, ran>>

\* Mutant: shutdown() is over when one worker is.
ReturnAfterFirst(c) == /\ cpc[c] = "join" /\ joined # {}
                       /\ lock' = None
                       /\ cpc' = [cpc EXCEPT ![c] = "done"]
                       /\ UNCHANGED <<queue, isAlive, joined, workerVars, made, accepted, ran>>

ShutdownReturn(c) == /\ cpc[c] = "join" /\ joined = Worker
                     /\ lock' = None
                     /\ cpc' = [cpc EXCEPT ![c] = "done"]
                     /\ UNCHANGED <<queue, isAlive, joined, workerVars, made, accepted, ran>>

-----------------------------------------------------------------------------
\* pop() takes the oldest task, alive or not.
PopTask(w) == /\ wpc[w] = "pop"
              /\ queue # <<>>
              /\ task' = [task EXCEPT ![w] = Head(queue)]
              /\ queue' = Tail(queue)
              /\ wpc' = [wpc EXCEPT ![w] = "run"]
              /\ UNCHANGED <<isAlive, lock, joined, clientVars, accepted, ran>>

PopWaits(w) == /\ wpc[w] = "pop"
               /\ queue = <<>> /\ isAlive
               /\ wpc' = [wpc EXCEPT ![w] = "asleep"]
               /\ UNCHANGED <<queue, isAlive, lock, joined, task, clientVars, accepted, ran>>

\* Mutant: is_alive is tested before the queue is.
PopEndsAtOnce(w) ==
    /\ wpc[w] = "pop"
    /\ ~isAlive
    /\ wpc' = [wpc EXCEPT ![w] = "exited"]
    /\ UNCHANGED <<queue, isAlive, lock, joined, task, clientVars, accepted, ran>>

\* pop() returns false, and run_worker returns.
PopEnds(w) == /\ wpc[w] = "pop"
              /\ queue = <<>> /\ ~isAlive
              /\ wpc' = [wpc EXCEPT ![w] = "exited"]
              /\ UNCHANGED <<queue, isAlive, lock, joined, task, clientVars, accepted, ran>>

\* A condition variable may return without a notification.
WakeSpuriously(w) ==
    /\ wpc[w] = "asleep"
    /\ wpc' = [wpc EXCEPT ![w] = "pop"]
    /\ UNCHANGED <<queue, isAlive, lock, joined, task, clientVars, accepted, ran>>

Finish(w) == /\ ran' = Append(ran, task[w])
             /\ task' = [task EXCEPT ![w] = None]

\* task(): the callable runs, and its future is made ready.
Run(w) == /\ wpc[w] = "run" /\ ~Nests(task[w])
          /\ Finish(w)
          /\ wpc' = [wpc EXCEPT ![w] = "pop"]
          /\ UNCHANGED <<queue, isAlive, lock, joined, clientVars, accepted>>

\* A callable that submits: submit() locks the mutex shutdown() joins under.
NestedLock(w) ==
    /\ wpc[w] = "run" /\ Nests(task[w])
    /\ lock = None
    /\ lock' = w
    /\ wpc' = [wpc EXCEPT ![w] = "nested"]
    /\ UNCHANGED <<queue, isAlive, joined, task, clientVars, accepted, ran>>

NestedSubmit(w) ==
    /\ wpc[w] = "nested"
    /\ EnqueueInto([wpc EXCEPT ![w] = "pop"], [task[w] EXCEPT !.child = TRUE])
    /\ Finish(w)
    /\ UNCHANGED <<isAlive, joined, clientVars>>

-----------------------------------------------------------------------------
Call(c) == \/ SubmitLock(c) \/ Submit(c) \/ Get(c)
           \/ ShutdownLock(c) \/ Close(c) \/ Join(c) \/ ShutdownReturn(c)

RunWorker(w) == \/ PopTask(w) \/ PopWaits(w) \/ PopEnds(w)
                \/ Run(w) \/ NestedLock(w) \/ NestedSubmit(w)

Next == \/ \E c \in Client : Call(c)
        \/ \E w \in Worker : RunWorker(w) \/ WakeSpuriously(w)

-----------------------------------------------------------------------------
Working == {w \in Worker : wpc[w] \in {"run", "nested"}}

\* The variables' types; a worker has a task just while it runs it, and whoever
\* is inside submit() or shutdown() is the holder of my_shutdown_mutex.
TypeOK ==
    /\ queue \in Seq(Task)
    /\ isAlive \in BOOLEAN
    /\ joined \subseteq {w \in Worker : wpc[w] = "exited"}
    /\ wpc \in [Worker -> {"pop", "asleep", "run", "nested", "exited"}]
    /\ task \in [Worker -> Task \cup {None}]
    /\ \A w \in Worker : task[w] # None <=> w \in Working
    /\ cpc \in [Client -> {"submit", "enqueue", "shutdown", "close", "join", "done"}]
    /\ made \in [Client -> 0 .. Quota]
    /\ accepted \subseteq Task
    /\ ran \in Seq(Task)
    /\ \A c \in Client : lock = c <=> cpc[c] \in {"enqueue", "close", "join"}
    /\ \A w \in Worker : lock = w <=> wpc[w] = "nested"

\* A task that submit() accepted is in exactly one place: it is queued once,
\* or one worker has it, or it was run once.  A refused one is nowhere.
NoTaskLost ==
    \A t \in Task :
        LET queued == {k \in 1 .. Len(queue) : queue[k] = t}
            held == {w \in Worker : task[w] = t}
            past == {k \in 1 .. Len(ran) : ran[k] = t}
        IN Cardinality(queued) + Cardinality(held) + Cardinality(past)
               = IF t \in accepted THEN 1 ELSE 0

\* When one shutdown() has returned every worker is gone and every future that
\* was handed out is ready, whoever it was handed to.
ShutdownIsFinal ==
    (\E c \in Closer : cpc[c] = "done")
        => /\ \A w \in Worker : wpc[w] = "exited"
           /\ \A t \in accepted : HasRun(t)

\* A worker whose task waits for the mutex of the shutdown that waits for it
JoinsItself == \E c \in Client : /\ cpc[c] = "join"
                                 /\ \E w \in Worker : wpc[w] = "run" /\ Nests(task[w])

\* Every call of submit() and of shutdown() has returned, or never will for the one
\* reason that shutdown() holds its mutex while it joins a worker whose task is waiting
\* in submit() for that mutex.
Settled == (\A c \in Client : cpc[c] = "done") \/ JoinsItself
=============================================================================
