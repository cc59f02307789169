------------------------------ MODULE Signals ------------------------------
(***************************************************************************)
(* Signals and the objects whose slots are connected to them (sigslot.h,    *)
(* which repeats the same classes for each number of arguments).  Both keep *)
(* a list of the other, and a slot may connect, disconnect and destroy      *)
(* while the signal is being emitted.  On one thread: the locks are         *)
(* recursive on Windows, where the library uses them.                       *)
(***************************************************************************)
EXTENDS Sequences, SequencesExt, FiniteSets, Integers

CONSTANTS Sigs, Objects,
          End,          \* the end of a list
          MaxSteps

ASSUME SignalsAssumption == End \notin Sigs /\ End \notin Objects

VARIABLES list,         \* m_connected_slots: whom a signal is connected to
          senders,      \* m_senders: the signals an object knows it is connected to
          made, alive,  \* the signals and the objects that exist
          em,           \* the emission that is going on
          steps
vars == <<list, senders, made, alive, em, steps>>

None == [s |-> End, it |-> End, next |-> End, called |-> <<>>, due |-> {}]

Init ==
    /\ list = [s \in Sigs |-> <<>>] /\ senders = [o \in Objects |-> {}]
    /\ made \in {{s} : s \in Sigs} /\ alive \in (SUBSET Objects) \ {{}}
    /\ em = None /\ steps = 0
----------------------------------------------------------------------------
\* An object is in a list once: the first that is found is all there is of it.
Place(l, o) == CHOOSE i \in DOMAIN l : l[i] = o
Without(l, o) == IF o \in ToSet(l) THEN RemoveAt(l, Place(l, o)) ELSE l
\* Who is behind o in the list.
After(l, o) == IF Place(l, o) = Len(l) THEN End ELSE l[Place(l, o) + 1]
First(l) == IF l = <<>> THEN End ELSE Head(l)

\* Those an emission must still reach: not those that are disconnected meanwhile.
Forget(s, o) == em' = IF em.s = s THEN [em EXCEPT !.due = @ \ {o}] ELSE em
\* A slot may remove itself, not the one that comes next: emit holds on to that.
NotNext(s, o) == em.s # s \/ em.next # o

\* connect: an object is connected to a signal once.
connect(s, o) ==
    /\ s \in made /\ o \in alive /\ o \notin ToSet(list[s])
    /\ list' = [list EXCEPT ![s] = Append(@, o)]
    /\ senders' = [senders EXCEPT ![o] = @ \union {s}]
    /\ UNCHANGED <<made, alive, em>>

disconnect(s, o) ==
    /\ s \in made /\ o \in alive /\ NotNext(s, o)
    /\ IF o \in ToSet(list[s])
       THEN /\ list' = [list EXCEPT ![s] = Without(@, o)]
            /\ senders' = [senders EXCEPT ![o] = @ \ {s}] /\ Forget(s, o)
       ELSE UNCHANGED <<list, senders, em>>
    /\ UNCHANGED <<made, alive>>

slot_disconnect(l, o) == Without(l, o)

\* The destructor of has_slots disconnects it from all it knows.
disconnect_all(o) ==
    /\ o \in alive /\ \A s \in Sigs : NotNext(s, o)
    /\ list' = [s \in Sigs |-> IF s \in senders[o] THEN slot_disconnect(list[s], o) ELSE list[s]]
    /\ senders' = [senders EXCEPT ![o] = {}] /\ alive' = alive \ {o}
    /\ IF em.s \in senders[o] THEN Forget(em.s, o) ELSE UNCHANGED em
    /\ UNCHANGED made

\* A copy of an object is connected to all the object is connected to.
slot_duplicate(l, o, p) == IF o \in ToSet(l) THEN Append(l, p) ELSE l
has_slots(o, p) ==
    /\ o \in alive /\ p \notin alive
    /\ list' = [s \in Sigs |-> IF s \in senders[o] THEN slot_duplicate(list[s], o, p) ELSE list[s]]
    /\ senders' = [senders EXCEPT ![p] = senders[o]] /\ alive' = alive \union {p}
    /\ UNCHANGED <<made, em>>

\* A copy of a signal is connected to all the signal is connected to.
signal_base(s, t) ==
    /\ s \in made /\ t \notin made
    /\ list' = [list EXCEPT ![t] = list[s]]
    /\ senders' = [o \in Objects |-> IF o \in ToSet(list[s]) THEN senders[o] \union {t} ELSE senders[o]]
    /\ made' = made \union {t} /\ UNCHANGED <<alive, em>>

\* The destructor of a signal, which is not being emitted.
signal_disconnect_all(s) ==
    /\ s \in made /\ em.s # s
    /\ list' = [list EXCEPT ![s] = <<>>]
    /\ senders' = [o \in Objects |-> senders[o] \ {s}]
    /\ made' = made \ {s} /\ UNCHANGED <<alive, em>>

\* emit calls one after the other; who is next is looked up before the call.
emit(s) ==
    /\ em = None /\ s \in made /\ list[s] # <<>>
    /\ LET o == First(list[s])
       IN  em' = [s |-> s, it |-> o, next |-> After(list[s], o), called |-> <<o>>, due |-> ToSet(list[s])]
    /\ UNCHANGED <<list, senders, made, alive>>
\* Mutant of itNext: it is looked up after the call.
itNextLate(l) == IF em.it \in ToSet(l) THEN After(l, em.it) ELSE End
itNext(l) == em.next
SlotReturns ==
    /\ em.s # End /\ em.it # End
    /\ LET l == list[em.s]
           o == itNext(l)
       IN  em' = IF o = End THEN [em EXCEPT !.it = End, !.next = End]
                 ELSE [em EXCEPT !.it = o, !.next = After(l, o), !.called = Append(@, o)]
    /\ UNCHANGED <<list, senders, made, alive>>
EmitReturns == em.s # End /\ em.it = End /\ em' = None /\ UNCHANGED <<list, senders, made, alive>>

Next ==
    /\ steps < MaxSteps /\ steps' = steps + 1
    /\ \/ \E s \in Sigs, o \in Objects : connect(s, o) \/ disconnect(s, o)
       \/ \E o, p \in Objects : disconnect_all(o) \/ has_slots(o, p)
       \/ \E s, t \in Sigs : signal_base(s, t) \/ signal_disconnect_all(s) \/ emit(s)
       \/ SlotReturns \/ EmitReturns
Spec == Init /\ [][Next]_vars
----------------------------------------------------------------------------
\* A signal and an object that exist agree on whether they are connected, and a
\* signal is connected to objects that exist: whichever of the two was copied or
\* destroyed.  An emission calls once each object that is connected from its
\* beginning to its end, and none that is gone.
SignalsReach ==
    /\ \A s \in Sigs, o \in Objects : s \in senders[o] <=> o \in ToSet(list[s])
    /\ \A s \in Sigs : ToSet(list[s]) \subseteq alive /\ (list[s] # <<>> => s \in made)
    /\ em.s # End =>
           /\ \A o \in em.due : Cardinality({i \in DOMAIN em.called : em.called[i] = o}) <= 1
           /\ em.next # End => em.next \in ToSet(list[em.s])
           /\ em.it = End => em.due \subseteq ToSet(em.called)
=============================================================================
