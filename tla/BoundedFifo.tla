---------------------------- MODULE BoundedFifo ----------------------------
(***************************************************************************)
(* What a bounded queue with waiting writers promises, with nothing of how *)
(* it is built: one line of items.  The first Capacity of them have been   *)
(* admitted; the others wait behind them in the order they came.  Only the *)
(* head is ever served, and only an item that has not been admitted may    *)
(* leave the line without being served.                                    *)
(***************************************************************************)
EXTENDS Naturals, SequencesExt

CONSTANTS Items, Capacity

VARIABLE line

Init == line = <<>>

\* A writer hands in an item, or starts to wait with it.
Join(i) ==
    /\ \A k \in DOMAIN line : line[k] # i
    /\ line' = Append(line, i)

\* The reader takes the oldest item; the oldest waiting one is admitted.
Serve ==
    /\ line # <<>>
    /\ line' = Tail(line)

\* A waiting writer gives up.
Withdraw(k) ==
    /\ k > Capacity
    /\ line' = RemoveAt(line, k)

Next ==
    \/ \E i \in Items : Join(i)
    \/ Serve
    \/ \E k \in DOMAIN line : Withdraw(k)

Spec == Init /\ [][Next]_line
=============================================================================
