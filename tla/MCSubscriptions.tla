-------------------------- MODULE MCSubscriptions --------------------------
(***************************************************************************)
(* Instances of Subscriptions for TLC, with names over a capital, its      *)
(* small letter, a digit and an underscore: a and b have one short name, b *)
(* outside any namespace and with an attribute that sets its version but   *)
(* whose name has no dot, and c gets the wire name of a from its attribute.*)
(***************************************************************************)
EXTENDS Subscriptions

CONSTANTS a, b, c, h1, h2, x1, r1, r2

Pp == <<"P", "p">>
MCLowerOf == [x \in Chars |-> IF x = "P" THEN "p" ELSE x]
MCNamespace == [t \in Types |-> IF t = b THEN <<>> ELSE <<"P">>]
MCTypeName == [t \in Types |-> IF t = c THEN <<"P", "1">> ELSE Pp]
MCAttributeName ==
    [t \in Types |-> CASE t = a -> <<>>
                       [] t = b -> <<<<"p">>>>
                       [] t = c -> <<<<"p">>, <<"p", "p">>, Event>>]
MCVersion == [t \in Types |-> IF t = b THEN 2 ELSE 1]
MCSymmetry == Permutations(Handlers)
=============================================================================
