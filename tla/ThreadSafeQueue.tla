--------------------------- MODULE ThreadSafeQueue --------------------------
(***************************************************************************)
(* The bounded thread_safe_queue of task2/producer_consumer with producers *)
(* that enqueue, consumers that pop, and a thread that may shut it down.   *)
(*                                                                         *)
(* enqueue() and pop() run under the mutex from their entry, or from the   *)
(* moment a wait has returned with the mutex, to the next wait or the end; *)
(* each such stretch is one step.  shutdown() takes no mutex and notifies  *)
(* nobody.  Its plain write of is_alive races with the tests of it; a test *)
(* reads the old or the new value, which the order of the steps decides.   *)
(***************************************************************************)
EXTENDS Naturals, Sequences, FiniteSets

CONSTANTS Producer, Consumer,
          Capacity,      \* the constructor's argument
          PerProducer,   \* how many items each producer enqueues
          MayShutDown    \* whether some thread calls shutdown()

ThreadAssumption == IsFiniteSet(Producer) /\ Producer \cap Consumer = {}
CapacityAssumption == Capacity \in Nat /\ Capacity > 0
QuotaAssumption == PerProducer \in Nat \ {0} /\ MayShutDown \in BOOLEAN

Thread == Producer \cup Consumer

VARIABLES container,   \* my_container
          isAlive,     \* is_alive
          pc,          \* where a thread is
          made,        \* how many items a producer has enqueued
          got          \* what a consumer has popped, in order

vars == <<container, isAlive, pc, made, got>>

\* "call" about to call, "again" woken in the wait's while loop, "asleep" in
\* the wait, "thrown" left by logic_error, "done" finished its items
Locations == {"call", "again", "asleep", "thrown", "done"}

Init == /\ container = <<>>
        /\ isAlive = TRUE
        /\ pc = [t \in Thread |-> "call"]
        /\ made = [p \in Producer |-> 0]
        /\ got = [c \in Consumer |-> <<>>]

Asleep(S) == {t \in S : pc[t] = "asleep"}

\* t goes to location l, and one sleeper of S, if any, is notified.
GoNotifyOne(t, l, S) ==
    \/ /\ Asleep(S) = {}
       /\ pc' = [pc EXCEPT ![t] = l]
    \/ \E s \in Asleep(S) : pc' = [pc EXCEPT ![t] = l, ![s] = "again"]

-----------------------------------------------------------------------------
\* if(!is_alive) throw, before the loop only.
EnqueueThrows(p) == /\ pc[p] = "call"
                    /\ ~isAlive
                    /\ pc' = [pc EXCEPT ![p] = "thrown"]
                    /\ UNCHANGED <<container, isAlive, made, got>>

EnqueueWaits(p) == /\ pc[p] = "again" \/ (pc[p] = "call" /\ isAlive)
                   /\ Len(container) >= Capacity
                   /\ pc' = [pc EXCEPT ![p] = "asleep"]
                   /\ UNCHANGED <<container, isAlive, made, got>>

\* Mutant: the size is tested before the wait only.
EnqueueNoRecheck(p) ==
    /\ \/ pc[p] = "again"
       \/ pc[p] = "call" /\ isAlive /\ Len(container) < Capacity
    /\ container' = Append(container, <<p, made[p] + 1>>)
    /\ made' = [made EXCEPT ![p] = @ + 1]
    /\ GoNotifyOne(p, IF made[p] + 1 = PerProducer THEN "done" ELSE "call", Consumer)
    /\ UNCHANGED <<isAlive, got>>

\* Mutant: the producers' condition variable is notified.
EnqueueNotifiesProducer(p) ==
    /\ pc[p] = "again" \/ (pc[p] = "call" /\ isAlive)
    /\ Len(container) < Capacity
    /\ container' = Append(container, <<p, made[p] + 1>>)
    /\ made' = [made EXCEPT ![p] = @ + 1]
    /\ GoNotifyOne(p, IF made[p] + 1 = PerProducer THEN "done" ELSE "call", Producer)
    /\ UNCHANGED <<isAlive, got>>

Enqueue(p) ==
    /\ pc[p] = "again" \/ (pc[p] = "call" /\ isAlive)
    /\ Len(container) < Capacity
    /\ container' = Append(container, <<p, made[p] + 1>>)
    /\ made' = [made EXCEPT ![p] = @ + 1]
    /\ GoNotifyOne(p, IF made[p] + 1 = PerProducer THEN "done" ELSE "call", Consumer)
    /\ UNCHANGED <<isAlive, got>>

\* Mutant: a dead queue throws whether or not items are left.
PopThrowsWithItems(c) == /\ pc[c] = "call"
                         /\ ~isAlive
                         /\ pc' = [pc EXCEPT ![c] = "thrown"]
                         /\ UNCHANGED <<container, isAlive, made, got>>

PopThrows(c) == /\ pc[c] = "call"
                /\ ~isAlive /\ container = <<>>
                /\ pc' = [pc EXCEPT ![c] = "thrown"]
                /\ UNCHANGED <<container, isAlive, made, got>>

PopWaits(c) == /\ pc[c] = "again" \/ (pc[c] = "call" /\ isAlive)
               /\ container = <<>>
               /\ pc' = [pc EXCEPT ![c] = "asleep"]
               /\ UNCHANGED <<container, isAlive, made, got>>

\* Mutant: the item is copied and left in place.
PopCopies(c) == /\ pc[c] \in {"call", "again"}
                /\ container # <<>>
                /\ Len(got[c]) < 2 * PerProducer
                /\ got' = [got EXCEPT ![c] = Append(@, Head(container))]
                /\ GoNotifyOne(c, "call", Producer)
                /\ UNCHANGED <<container, isAlive, made>>

\* Mutant: the last item is taken.
PopBack(c) == /\ pc[c] \in {"call", "again"}
              /\ container # <<>>
              /\ got' = [got EXCEPT ![c] = Append(@, container[Len(container)])]
              /\ container' = SubSeq(container, 1, Len(container) - 1)
              /\ GoNotifyOne(c, "call", Producer)
              /\ UNCHANGED <<isAlive, made>>

Pop(c) == /\ pc[c] \in {"call", "again"}
          /\ container # <<>>
          /\ got' = [got EXCEPT ![c] = Append(@, Head(container))]
          /\ container' = Tail(container)
          /\ GoNotifyOne(c, "call", Producer)
          /\ UNCHANGED <<isAlive, made>>

\* A condition variable may return without a notification.
WakeSpuriously(t) == /\ pc[t] = "asleep"
                     /\ pc' = [pc EXCEPT ![t] = "again"]
                     /\ UNCHANGED <<container, isAlive, made, got>>

\* is_alive = false
Shutdown == /\ MayShutDown /\ isAlive
            /\ isAlive' = FALSE
            /\ UNCHANGED <<container, pc, made, got>>

Produce(p) == EnqueueThrows(p) \/ EnqueueWaits(p) \/ Enqueue(p)
Consume(c) == PopThrows(c) \/ PopWaits(c) \/ Pop(c)

Next == \/ \E p \in Producer : Produce(p)
        \/ \E c \in Consumer : Consume(c)
        \/ \E t \in Thread : WakeSpuriously(t)
        \/ Shutdown

-----------------------------------------------------------------------------
Item == Producer \X (1 .. PerProducer)

\* The variables' types: the queue never holds more than its capacity, although
\* a woken producer may find the place it was woken for taken by another one.
TypeOK == /\ container \in Seq(Item) /\ Len(container) <= Capacity
          /\ isAlive \in BOOLEAN
          /\ pc \in [Thread -> Locations]
          /\ made \in [Producer -> 0 .. PerProducer]
          /\ got \in [Consumer -> Seq(Item)]

\* The items of one producer come in the order in which it enqueued them.
InOrder(s) ==
    \A j, k \in 1 .. Len(s) : j < k /\ s[j][1] = s[k][1] => s[j][2] < s[k][2]

\* Every consumer sees a producer's items in the order they were enqueued, and
\* what is still inside comes after all of them.
PerProducerFifo == \A c \in Consumer : InOrder(got[c] \o container)

\* The places of an item
Inside(item) == {k \in 1 .. Len(container) : container[k] = item}
Popped(item) == UNION {{c} \X {k \in 1 .. Len(got[c]) : got[c][k] = item} : c \in Consumer}

\* No item is lost or handed out twice.
NoLossNoDuplicate ==
    \A p \in Producer, i \in 1 .. PerProducer :
        Cardinality(Popped(<<p, i>>)) + Cardinality(Inside(<<p, i>>))
            = IF i <= made[p] THEN 1 ELSE 0

\* No consumer sleeps beside an item, and no producer beside a free place,
\* unless another thread of its kind is awake to see to it: no notification of
\* enqueue() or pop() is lost or spent on the wrong condition variable.
NoLostNotification ==
    /\ container # <<>> /\ Asleep(Consumer) # {}
          => \E c \in Consumer : pc[c] \in {"call", "again"}
    /\ Len(container) < Capacity /\ Asleep(Producer) # {}
          => \E p \in Producer : pc[p] = "again"

\* As long as a consumer is left when there are items, the queue is emptied in
\* the end, shut down or not: no item stays inside beside sleepers, and pop()
\* throws only from an empty queue.
AcceptedIsPopped ==
    container # <<>> /\ (\E c \in Consumer : pc[c] # "thrown") ~> container = <<>>
=============================================================================
