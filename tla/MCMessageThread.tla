--------------------------- MODULE MCMessageThread ---------------------------
(* A client c has constructed both threads.  It sends a to t2, whose handler *)
(* sends self to its own thread, and then d to t2, and may stop t2 between   *)
(* its sends.  p is posted to t1, and its handler sends b to t2 and then own *)
(* to its own thread.                                                        *)
EXTENDS MessageThread
CONSTANTS t1, t2, c, a, b, d, self, own, p

MCTarget == (p :> t1) @@ (own :> t1) @@ [m \in {a, b, d, self} |-> t2]

MCCalls == (c :> <<a, d>>) @@ (a :> <<self>>) @@ (p :> <<b, own>>)
               @@ [m \in {b, d, self, own} |-> <<>>]

MCCreator == [t \in Threads |-> c]

MCMayStop == {<<c, t2>>}
==============================================================================
