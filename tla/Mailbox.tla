------------------------------ MODULE Mailbox ------------------------------
(***************************************************************************)
(* What a message queue promises about every message, whatever threads,    *)
(* locks, delays and events it is built from: a message enters at most     *)
(* once, is inside until it leaves, and leaves exactly one way, either     *)
(* handed to a caller of get or purged with its data.                      *)
(***************************************************************************)
EXTENDS Sequences, FiniteSets

CONSTANT Msgs       \* the messages that may ever be posted

VARIABLES
    outside,        \* messages nobody has put in yet
    box,            \* messages inside
    handed,         \* messages given to the getter, in order
    purged          \* messages the queue deleted itself

boxVars == <<outside, box, handed, purged>>

Init ==
    /\ outside = Msgs
    /\ box = {}
    /\ handed = <<>>
    /\ purged = {}

\* A post that is turned away, or one still on its way in.
Leave(m) ==
    /\ outside' = outside \ {m}
    /\ UNCHANGED <<box, handed, purged>>

Put(m) ==
    /\ m \notin outside
    /\ m \notin box
    /\ m \notin purged
    /\ \A i \in DOMAIN handed : handed[i] # m
    /\ box' = box \cup {m}
    /\ UNCHANGED <<outside, handed, purged>>

Take(m) ==
    /\ m \in box
    /\ box' = box \ {m}
    /\ handed' = Append(handed, m)
    /\ UNCHANGED <<outside, purged>>

Purge(S) ==
    /\ S \subseteq box
    /\ box' = box \ S
    /\ purged' = purged \cup S
    /\ UNCHANGED <<outside, handed>>

Next ==
    \/ \E m \in Msgs : Leave(m) \/ Put(m) \/ Take(m)
    \/ \E S \in SUBSET Msgs : Purge(S)

Spec == Init /\ [][Next]_boxVars
=============================================================================
