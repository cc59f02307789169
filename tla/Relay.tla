------------------------------- MODULE Relay -------------------------------
(***************************************************************************)
(* QyStreamRelay (qystreamutils.cc) between two asynchronous streams.  The  *)
(* streams are modelled by what qystream.h says of them: an event is        *)
(* signalled when a call that has blocked can go on; a stream may open      *)
(* late, fail, or be closed by its other end.                               *)
(***************************************************************************)
EXTENDS Integers, Sequences, SequencesExt, FiniteSetsExt

CONSTANTS BuffSize, Room,
          MaxBytes,   \* bound of the bytes that come from both ends together
          StreamIds   \* the two streams, {0, 1}

VARIABLES dir,      \* mDir: a stream and the bytes read from it, not yet written to the other
          said,     \* the bytes that have come from the stream's other end
          started,  \* a stream was to open when the relay was made, or circulate was called
          closed    \* sigClosed has been signalled
vars == <<dir, said, started, closed>>

\* A stream: in, what has come and is not read; room, what it takes before it
\* blocks; out, what it has taken; events, what it has yet to signal.
Opening == [state |-> "OPENING", in |-> <<>>, room |-> Room, out |-> <<>>, wantRead |-> FALSE,
            wantWrite |-> FALSE, events |-> {}, connected |-> TRUE, buffer |-> <<>>]

Init == /\ dir \in [StreamIds -> {Opening, [Opening EXCEPT !.state = "OPEN"]}]
        /\ said = [i \in StreamIds |-> 0] /\ closed = FALSE
        /\ started = \E i \in StreamIds : dir[i].state = "OPENING"

complement(i) == 1 - i

\* Read and write while they move something; what they block on will be signalled.
ReadSome(d, i) ==
    LET n == Min({BuffSize - Len(d[i].buffer), Len(d[i].in)})
    IN  IF d[i].state # "OPEN" THEN d
        ELSE [d EXCEPT ![i].buffer = @ \o SubSeq(d[i].in, 1, n), ![i].in = SubSeq(@, n + 1, Len(@)),
                       ![i].wantRead = @ \/ n < BuffSize - Len(d[i].buffer)]
WriteSome(d, i) ==
    LET w == complement(i)
        n == Min({Len(d[i].buffer), d[w].room})
    IN  IF d[w].state # "OPEN" THEN d
        ELSE [d EXCEPT ![i].buffer = SubSeq(@, n + 1, Len(@)), ![w].room = @ - n,
                       ![w].out = @ \o SubSeq(d[i].buffer, 1, n), ![w].wantWrite = @ \/ n < Len(d[i].buffer)]

\* Mutant of flow: one round only.
flowOnce(d, i) == [d |-> WriteSome(ReadSome(d, i), i), ok |-> TRUE]
\* flow goes on until neither side moves, or a call fails.
RECURSIVE flow(_, _)
flow(d, i) ==
    LET r == ReadSome(d, i)
        e == WriteSome(r, i)
    IN  IF d[i].state = "FAILED" /\ Len(d[i].buffer) < BuffSize THEN [d |-> d, ok |-> FALSE]
        ELSE IF d[complement(i)].state = "FAILED" /\ r[i].buffer # <<>> THEN [d |-> r, ok |-> FALSE]
        ELSE IF e = d THEN [d |-> d, ok |-> TRUE]
        ELSE flow(e, i)

close(d) == [i \in StreamIds |-> [d[i] EXCEPT !.connected = FALSE, !.state = "CLOSED"]]

\* The relay at the events of stream i.
onEvent(d, i, events) ==
    LET first  == IF events \intersect {"OPEN", "READ"} = {} THEN [d |-> d, ok |-> TRUE] ELSE flow(d, i)
        second == IF ~first.ok \/ events \intersect {"OPEN", "WRITE"} = {} THEN first
                  ELSE flow(first.d, complement(i))
    IN  IF "CLOSE" \in events \/ ~second.ok THEN [d |-> close(second.d), ok |-> FALSE] ELSE second

Do(after) == dir' = after.d /\ closed' = (closed \/ ~after.ok)

circulate ==
    /\ \A i \in StreamIds : dir[i].connected
    /\ LET first  == flow(dir, 0)
           second == IF first.ok THEN flow(first.d, 1) ELSE first
       IN  Do(IF second.ok THEN second ELSE [second EXCEPT !.d = close(@)])
    /\ started' = TRUE /\ UNCHANGED said

\* A stream signals all it has to.
Signals(i) ==
    /\ dir[i].events # {} /\ dir[i].connected
    /\ Do(onEvent([dir EXCEPT ![i].events = {}], i, dir[i].events))
    /\ UNCHANGED <<said, started>>

Up(i) == dir[i].connected /\ dir[i].state \in {"OPENING", "OPEN"}
Opens(i) == /\ dir[i].state = "OPENING"
            /\ dir' = [dir EXCEPT ![i].state = "OPEN", ![i].events = @ \union {"OPEN"}]
            /\ UNCHANGED <<said, started, closed>>
Comes(i) ==
    /\ Up(i) /\ said[0] + said[1] < MaxBytes
    /\ said' = [said EXCEPT ![i] = @ + 1]
    /\ dir' = [dir EXCEPT ![i].in = Append(@, said'[i]), ![i].wantRead = FALSE,
                          ![i].events = IF dir[i].wantRead THEN @ \union {"READ"} ELSE @]
    /\ UNCHANGED <<started, closed>>
Drains(i) ==
    /\ Up(i) /\ dir[i].room < Room
    /\ dir' = [dir EXCEPT ![i].room = Room, ![i].wantWrite = FALSE,
                          ![i].events = IF dir[i].wantWrite THEN @ \union {"WRITE"} ELSE @]
    /\ UNCHANGED <<said, started, closed>>
Fails(i) == /\ Up(i)
            /\ \E s \in {"FAILED", "CLOSED"} :
                 dir' = [dir EXCEPT ![i].state = s, ![i].events = @ \union {"CLOSE"}]
            /\ UNCHANGED <<said, started, closed>>

Next == circulate \/ \E i \in StreamIds : Signals(i) \/ Opens(i) \/ Comes(i) \/ Drains(i) \/ Fails(i)
Spec == Init /\ [][Next]_vars
----------------------------------------------------------------------------
\* The relay passes on what comes in order, without a gap, and once started it
\* never sleeps on what it could move: what it holds waits for
\* a write event that will come, what it has not read for room in its buffer.
RelayMoves ==
    \A i \in StreamIds :
      LET w == complement(i)
          moved == dir[w].out \o dir[i].buffer \o dir[i].in
          open == \A j \in StreamIds : dir[j].state = "OPEN" /\ dir[j].events = {}
      IN  /\ moved = [k \in 1 .. said[i] |-> k]
          /\ open /\ started =>
                 /\ dir[i].buffer # <<>> => dir[w].room = 0 /\ dir[w].wantWrite
                 /\ dir[i].in # <<>> => Len(dir[i].buffer) = BuffSize
=============================================================================
