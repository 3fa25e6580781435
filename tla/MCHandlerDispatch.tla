------------------------- MODULE MCHandlerDispatch -------------------------
(***************************************************************************)
(* Instances of HandlerDispatch for TLC.                                   *)
(***************************************************************************)
EXTENDS HandlerDispatch

CONSTANTS x1, x2, x3, h1, h2, h3, f1, f2, f3

MCSubscription == <<x1, x2, x3>>
MCHandlerOf == [x \in {x1, x2, x3} |-> CASE x = x1 -> h1 [] x = x2 -> h2 [] OTHER -> h3]
MCMethodOf == [x \in {x1, x2, x3} |-> CASE x = x1 -> f1 [] x = x2 -> f2 [] OTHER -> f3]
\* One class with two methods subscribed to the event.
MCTwoMethods == <<x1, x2>>
MCSameHandler == [x \in {x1, x2, x3} |-> h1]
=============================================================================
