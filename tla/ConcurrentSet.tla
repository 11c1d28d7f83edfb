---------------------------- MODULE ConcurrentSet ---------------------------
(***************************************************************************)
(* What a set that threads share promises: every call takes effect at one  *)
(* moment between its start and its return, and contains() answers what    *)
(* was true at that moment.                                                *)
(***************************************************************************)
CONSTANTS Thread, Value, None

VARIABLES members,   \* the values in the set
          call,      \* thread -> its call [op, value], or None
          answer     \* thread -> "none", or what its call will return

Ops == {"add", "remove", "contains"}

Init == /\ members = {}
        /\ call = [t \in Thread |-> None]
        /\ answer = [t \in Thread |-> "none"]

Invoke(t) == /\ call[t] = None
             /\ \E op \in Ops, v \in Value :
                    call' = [call EXCEPT ![t] = [op |-> op, value |-> v]]
             /\ UNCHANGED <<members, answer>>

Apply(t) ==
    /\ call[t] # None /\ answer[t] = "none"
    /\ LET v == call[t].value
       IN \/ /\ call[t].op = "add"
             /\ members' = members \cup {v}
             /\ answer' = [answer EXCEPT ![t] = "void"]
          \/ /\ call[t].op = "remove"
             /\ members' = members \ {v}
             /\ answer' = [answer EXCEPT ![t] = "void"]
          \/ /\ call[t].op = "contains"
             /\ answer' = [answer EXCEPT ![t] = IF v \in members THEN "yes" ELSE "no"]
             /\ UNCHANGED members
    /\ UNCHANGED call

Return(t) == /\ answer[t] # "none"
             /\ call' = [call EXCEPT ![t] = None]
             /\ answer' = [answer EXCEPT ![t] = "none"]
             /\ UNCHANGED members

Next == \E t \in Thread : Invoke(t) \/ Apply(t) \/ Return(t)

Spec == Init /\ [][Next]_<<members, call, answer>>
=============================================================================
