--------------------------- MODULE MCMessageQueue ---------------------------
(* MessageQueue on small sets: which message is for which handler.         *)
EXTENDS MessageQueue, TLC

CONSTANTS p1, p2, m1, m2, m3, h1, h2

MCHandlerOf == [m \in Msgs |-> IF m = m2 THEN h2 ELSE h1]

MCDelaysOf == [m \in Msgs |-> IF m = m2 THEN {1, Forever} ELSE {Forever}]

\* clear(NULL), clear(h1, id) and clear(h2) as the messages they select.
MCClearSets == {{m1}, Msgs}

\* The posters differ in nothing; for the runs that check safety only.
MCSymmetry == Permutations(Posters)
=============================================================================
