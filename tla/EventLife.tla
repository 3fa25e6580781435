----------------------------- MODULE EventLife -----------------------------
(***************************************************************************)
(* What the bus promises about the life of an event, whoever carries it    *)
(* out: it is tried, retried within the budget of MaxRetry, and then ends  *)
(* once and for all.  The in-memory transport and the dispatch of one      *)
(* event to its handlers both implement it, and so does a message in a     *)
(* queue of RabbitMQ until the first crash or lost connection.  What a     *)
(* transport takes for a free choice of the handlers (return, throw, be    *)
(* cancelled) is what the dispatcher gives it.                             *)
(***************************************************************************)
EXTENDS Integers

CONSTANTS
    Events,
    Budgeted,  \* the events whose retry budget nobody else draws on
    MaxRetry

VARIABLES
    tries,     \* how many tries of each event have failed
    fate       \* how each event ended

Init ==
    /\ tries = [e \in Events |-> 0]
    /\ fate = [e \in Events |-> "open"]

\* The publisher gets an exception, or nobody listens: before any try only.
Refuse(e) ==
    /\ fate[e] = "open"
    /\ tries[e] = 0
    /\ fate' = [fate EXCEPT ![e] = "refused"]
    /\ UNCHANGED tries

Retry(e) ==
    /\ fate[e] = "open"
    /\ tries[e] < MaxRetry
    /\ tries' = [tries EXCEPT ![e] = @ + 1]
    /\ UNCHANGED fate

Handle(e) ==
    /\ fate[e] = "open"
    /\ fate' = [fate EXCEPT ![e] = "handled"]
    /\ UNCHANGED tries

\* The last try failed, or it was cancelled, which ends the event at any try.
GiveUp(e) ==
    /\ fate[e] = "open"
    /\ tries[e] <= MaxRetry
    /\ tries' = [tries EXCEPT ![e] = @ + 1]
    /\ \/ fate' = [fate EXCEPT ![e] = "cancelled"]
       \/ /\ e \in Budgeted => tries[e] = MaxRetry
          /\ fate' = [fate EXCEPT ![e] = "poisoned"]

\* The try failed and its retry could not be scheduled.
LoseRetry(e) ==
    /\ fate[e] = "open"
    /\ tries[e] > 0
    /\ fate' = [fate EXCEPT ![e] = "lost"]
    /\ UNCHANGED tries

Next ==
    \E e \in Events : Refuse(e) \/ Retry(e) \/ Handle(e) \/ GiveUp(e) \/ LoseRetry(e)

Spec == Init /\ [][Next]_<<tries, fate>>
=============================================================================
