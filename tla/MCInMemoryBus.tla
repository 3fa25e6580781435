--------------------------- MODULE MCInMemoryBus ---------------------------
(***************************************************************************)
(* Instances of InMemoryBus for TLC.                                       *)
(***************************************************************************)
EXTENDS InMemoryBus

CONSTANTS e1, e2, e3, e4, h1, h2, h3

MCCallers == Events \cup {Subscriber}

\* e1 and e2 were published with one Headers object, the others with their own.
MCHeadersOf == [e \in Events |-> CASE e \in {e1, e2} -> h1 [] e = e3 -> h2 [] OTHER -> h3]
=============================================================================
