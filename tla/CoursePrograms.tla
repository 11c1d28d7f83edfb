--------------------------- MODULE CoursePrograms ---------------------------
(***************************************************************************)
(* The queues, the pool, the set and the flag of the concurrency course,   *)
(* each with threads that use it, side by side.  They do not interact: a   *)
(* behaviour starts one of them and runs that one, the variables of the    *)
(* others stay as they are.                                                *)
(***************************************************************************)
EXTENDS Integers, Sequences, FiniteSets

CONSTANTS Producer, Consumer, Capacity, PerProducer
CONSTANTS Worker, Client, Quota, Getter, Closer, NestedIndex
CONSTANTS SetThread, Value, NumStripes, BucketsPerStripe, GrowthFactor,
          DensityNum, DensityDen, Calls
CONSTANTS Waiter, Setter    \* Setter: the thread that calls set()
CONSTANTS Size, Items
CONSTANT None               \* nobody

Threads == Producer \cup Consumer \cup Worker \cup Client \cup SetThread \cup Waiter \cup {Setter}

VARIABLES program           \* the one that is run

VARIABLES container, qalive, qpc, made, got
VARIABLES queue, isAlive, lock, joined, wpc, task, cpc, submitted, accepted, ran
VARIABLES numBuckets, buckets, oldBuckets, writer, readers, storageSize, hpc, op, value,
          seen, next, answer, calls
VARIABLES ready, holds, fpc, mainPc
VARIABLES buffer, head, tail, epc, dpc, copied, put, out, overrun

queueVars == <<container, qalive, qpc, made, got>>
poolVars == <<queue, isAlive, lock, joined, wpc, task, cpc, submitted, accepted, ran>>
setVars == <<numBuckets, buckets, oldBuckets, writer, readers, storageSize, hpc, op, value,
             seen, next, answer, calls>>
flagVars == <<ready, holds, fpc, mainPc>>
ringVars == <<buffer, head, tail, epc, dpc, copied, put, out, overrun>>
vars == <<program, queueVars, poolVars, setVars, flagVars, ringVars>>

-----------------------------------------------------------------------------
\* Producers, consumers and a shutdown at any moment
Queue == INSTANCE ThreadSafeQueue WITH MayShutDown <- TRUE, isAlive <- qalive, pc <- qpc

\* Workers, and clients that submit their tasks, get their futures or do not, and shut the
\* pool down or do not
Pool == INSTANCE ThreadPool WITH made <- submitted

\* Threads that call add(), remove() and contains()
Set == INSTANCE StripedHashSet WITH Thread <- SetThread, pc <- hpc

\* Waiters, and the one thread that calls set()
Flag == INSTANCE BlockingFlag WITH pc <- fpc

\* One producer and one consumer
Ring == INSTANCE LockFreeQueue WITH ppc <- epc, cpc <- dpc, value <- copied

ASSUME ProgramsAssumption ==
    /\ Queue!ThreadAssumption /\ Queue!CapacityAssumption /\ Queue!QuotaAssumption
    /\ Pool!ClientAssumption /\ Pool!QuotaAssumption /\ Pool!WorkerAssumption
    /\ Set!ValueAssumption /\ Set!SizeAssumption /\ Set!ThreadAssumption
    /\ Ring!RingAssumption

-----------------------------------------------------------------------------
Init == /\ program \in {"queue", "pool", "set", "flag", "ring"}
        /\ Queue!Init /\ Pool!Init /\ Set!Init /\ Flag!Init /\ Ring!Init

InQueue == program = "queue" /\ UNCHANGED <<program, poolVars, setVars, flagVars, ringVars>>
InPool == program = "pool" /\ UNCHANGED <<program, queueVars, setVars, flagVars, ringVars>>
InSet == program = "set" /\ UNCHANGED <<program, queueVars, poolVars, flagVars, ringVars>>
InFlag == program = "flag" /\ UNCHANGED <<program, queueVars, poolVars, setVars, ringVars>>
InRing == program = "ring" /\ UNCHANGED <<program, queueVars, poolVars, setVars, flagVars>>

\* What thread t does next when it is run
Work(t) ==
    \/ InQueue /\ ((t \in Producer /\ Queue!Produce(t)) \/ (t \in Consumer /\ Queue!Consume(t)))
    \/ InPool /\ ((t \in Worker /\ Pool!RunWorker(t)) \/ (t \in Client /\ Pool!Call(t)))
    \/ InSet /\ t \in SetThread /\ (Set!Acquire(t) \/ Set!Work(t))
    \/ InFlag /\ ((t \in Waiter /\ Flag!Wait(t)) \/ (t = Setter /\ Flag!Main))

\* The step of t for which it needs a mutex that others take in turn
Acquire(t) ==
    \/ InQueue /\ ((t \in Producer /\ Queue!Enqueue(t)) \/ (t \in Consumer /\ Queue!Pop(t)))
    \/ InPool /\ \/ t \in Worker /\ Pool!NestedLock(t)
                 \/ t \in Client /\ (Pool!SubmitLock(t) \/ Pool!ShutdownLock(t))
    \/ InSet /\ t \in SetThread /\ Set!Acquire(t)
    \/ InFlag /\ t \in Waiter /\ Flag!Lock(t)

\* What nobody is bound to do: a shutdown of the queue, a spurious wake-up, a further
\* call of the set or of the ring
Free == \/ InQueue /\ (Queue!Shutdown \/ \E t \in Producer \cup Consumer : Queue!WakeSpuriously(t))
        \/ InPool /\ \E t \in Worker : Pool!WakeSpuriously(t)
        \/ InSet /\ \E t \in SetThread : Set!Invoke(t)
        \/ InFlag /\ \E t \in Waiter : Flag!WakeSpuriously(t)
        \/ InRing /\ Ring!Next

Next == Free \/ \E t \in Threads : Work(t)

\* A thread that can run is run, and one that asks for a mutex gets it if it can have
\* it again and again.
FairSpec == /\ Init /\ [][Next]_vars
            /\ \A t \in Threads : WF_vars(Work(t)) /\ SF_vars(Acquire(t))

-----------------------------------------------------------------------------
\* The types of queue and pool: the queue never holds more than its capacity, although
\* a woken producer may find its place taken, and whoever is inside submit() or
\* shutdown() is the holder of the pool's mutex.
TypeOK == /\ program = "queue" => Queue!TypeOK
          /\ program = "pool" => Pool!TypeOK

\* What queue and pool accept is in one place: inside, with one thread, or done once.
NothingLostOrDoubled == /\ program = "queue" => Queue!NoLossNoDuplicate
                        /\ program = "pool" => Pool!NoTaskLost

\* Items come out in the order of their producer: always in thread_safe_queue, in
\* lock_free_queue until its buffer was full once.
ProducersInOrder == /\ program = "queue" => Queue!PerProducerFifo
                    /\ program = "ring" => Ring!FifoUntilFull

\* No producer or consumer of thread_safe_queue sleeps while there is something to do
\* for it and nobody of its kind is awake to do it.
NoLostNotification == program = "queue" => Queue!NoLostNotification

\* When one shutdown() of the pool has returned, its workers are gone and every future
\* that was handed out is ready.
ShutdownIsFinal == program = "pool" => Pool!ShutdownIsFinal

\* No thread accesses a bucket, or the table, of striped_hash_set that another writes.
NoDataRace == program = "set" => Set!NoDataRace

\* striped_hash_set counts its elements, but for calls that are still to count theirs,
\* and an excess that two threads saw makes it grow once.
GrowsOnceWhenDense == program = "set" => Set!SizeMatches /\ Set!GrownOncePerExcess

\* Calls return.  queue: items are popped as long as a consumer is left, shut down or
\* not.  pool: submit(), get() and shutdown() return, but for the one reason that
\* shutdown() joins a worker whose task waits for its mutex.  set: no order of stripes
\* and of resizes blocks for ever.  flag: a waiter that set() finds asleep, or that has
\* not tested the flag by then, gets out.
CallsReturn == /\ Queue!AcceptedIsPopped
               /\ <>[](CASE program = "pool" -> Pool!Settled
                         [] program = "set" -> Set!AllIdle
                         [] OTHER -> TRUE)
               /\ Flag!SeenWaiterReturns

\* Every call of striped_hash_set takes effect at one moment, resizes notwithstanding.
ImplementsSet == Set!ImplementsSet
=============================================================================
