-------------------------------- MODULE Pipe --------------------------------
(***************************************************************************)
(* One direction of an IPC pipe (qyipc/ipc-pipe-base.cc) once both ends     *)
(* are connected: write puts a packet into a ring of buffers, the           *)
(* completion of one write starts the next, and the other end splits what   *)
(* a read brings into packets again.  The sending end has a read under way  *)
(* that brings nothing.  Both ends have a thread for their completions      *)
(* (iocp.cc); the pipe between them is Windows'.                            *)
(***************************************************************************)
EXTENDS Integers, Sequences, SequencesExt

CONSTANTS
    Packets,        \* numbers, in the order in which the packets are sent
    Length,         \* their lengths
    Header,         \* the length written in front of each, 4 in the code
    Slots,          \* kWriteQueueCount, 20 in the code
    ReadMax,        \* kPACKET_BUFFER_MAX
    Empty, Nobody

ASSUME PipeAssumption ==
    /\ Packets \subseteq Nat /\ Empty \notin Packets /\ Nobody \notin {"sender", "receiver"}
    /\ Length \in [Packets -> Nat \ {0}]
    /\ Header \in Nat \ {0}
    /\ Slots \in Nat \ {0}
    /\ ReadMax \in Nat \ {0}

VARIABLES
    wq, wq_current, wq_count,   \* the ring, the slot being written, the next to fill
    operation,                  \* olwrite_->operation is IOCP_WRITE
    writes,                     \* WriteFiles whose completion has not been handled
    spc, cpc,                   \* the thread that sends; the completion of a write
    stream,                     \* the packets in the pipe
    taken,                      \* bytes of the first of them already read
    closed,                     \* the end that has closed, or Nobody
    reading,                    \* the receiver's ReadFile: not yet, under way, failed
    chunk,                      \* what it has brought: packets, or a full buffer
    told,                       \* the ends whose handlers have heard of an error
    fresh, accepted,            \* history: packets never sent; those write took
    received,                   \* history: packets given to onRecv
    lost, overrun               \* history: LOSTDATA reported; a full read dropped

ring     == <<wq, wq_current, wq_count>>
sender   == <<ring, operation, spc, cpc, fresh, accepted, lost>>
receiver == <<reading, chunk, received, overrun>>
pipe     == <<stream, taken>>
vars     == <<sender, receiver, writes, pipe, closed, told>>

Ends   == {"sender", "receiver"}
Index  == 0 .. Slots - 1
Open(e) == closed # e /\ e \notin told

\* A chunk is whole packets, or it began inside one, or it filled the buffer.
None == [packets |-> <<>>, kind |-> "none"]

Bytes(s) ==
    LET upTo[k \in 0 .. Len(s)] ==
            IF k = 0 THEN 0 ELSE upTo[k - 1] + Header + Length[s[k]]
    IN  upTo[Len(s)]

Init ==
    /\ wq = [i \in Index |-> Empty] /\ wq_current = 0 /\ wq_count = -1
    /\ operation = FALSE /\ writes = 0
    /\ spc = "idle" /\ cpc = "idle"
    /\ stream = <<>> /\ taken = 0 /\ closed = Nobody
    /\ reading = "no" /\ chunk = None
    /\ told = {}
    /\ fresh = Packets /\ accepted = <<>> /\ received = <<>>
    /\ lost = FALSE /\ overrun = FALSE
----------------------------------------------------------------------------
(* write_crit_ is held by write while spc = "full", by nobody else between *)
(* two steps.                                                              *)

\* nextWrite: what is in the current slot of the ring goes to WriteFile, which
\* refuses it when the other end has closed.
NextWrite(from) ==
    /\ wq_current' = IF from >= Slots THEN 0 ELSE from
    /\ IF wq'[wq_current'] # Empty /\ closed = Nobody
       THEN /\ operation' = TRUE
            /\ writes' = writes + 1
            /\ stream' = Append(stream, wq'[wq_current'])
       ELSE operation' = FALSE /\ UNCHANGED <<writes, stream>>
    /\ UNCHANGED taken

\* The slot write looks at.
Slot == IF wq_count \in Index THEN wq_count ELSE 0

\* isWritting.  Once two writes share the OVERLAPPED, GetOverlappedResult
\* speaks of either of them.
IsWritting == IF operation \/ writes = 0 THEN {operation} ELSE BOOLEAN

\* A thread of the sender calls write with the next packet.
Sends(p) == spc = "idle" /\ Open("sender") /\ p \in fresh /\ \A q \in fresh : p <= q

WriteSlot(p) ==
    /\ Sends(p)
    /\ wq[Slot] = Empty
    /\ fresh' = fresh \ {p}
    /\ accepted' = Append(accepted, p)
    /\ wq' = [wq EXCEPT ![Slot] = p]
    /\ wq_count' = Slot + 1
    /\ \E writing \in IsWritting :
         IF writing THEN UNCHANGED <<wq_current, operation, writes, pipe>>
         ELSE NextWrite(wq_current)
    /\ UNCHANGED <<spc, cpc, lost, receiver, closed, told>>

\* The ring is full: write does not take the packet and calls nextWrite, which
\* first says that nothing is being written ...
WriteFull(p) ==
    /\ Sends(p)
    /\ wq[Slot] # Empty
    /\ fresh' = fresh \ {p}
    /\ operation' = FALSE
    /\ spc' = "full"
    /\ UNCHANGED <<ring, cpc, accepted, lost, receiver, writes, pipe, closed, told>>

\* ... and then writes the current slot, which may be on its way already.
WriteAgain ==
    /\ spc = "full"
    /\ UNCHANGED <<wq, wq_count>>
    /\ NextWrite(wq_current)
    /\ lost' = TRUE
    /\ spc' = "idle"
    /\ UNCHANGED <<cpc, fresh, accepted, receiver, closed, told>>
----------------------------------------------------------------------------
(* Completions at the sending end.                                         *)

\* The thread reads ol->operation before it takes write_crit_.
WriteCompletes ==
    /\ writes > 0 /\ cpc = "idle" /\ closed = Nobody
    /\ writes' = writes - 1
    /\ cpc' = IF operation THEN "written" ELSE "idle"
    /\ UNCHANGED <<ring, operation, spc, fresh, accepted, lost, receiver, pipe, closed, told>>

\* Mutant: the slot after the one that was written is cleared.
ClearWrittenNext == [wq EXCEPT ![(wq_current + 1) % Slots] = Empty]

ClearWritten == [wq EXCEPT ![wq_current] = Empty]

Written ==
    /\ cpc = "written" /\ spc = "idle" /\ closed # "sender"
    /\ wq' = ClearWritten
    /\ UNCHANGED wq_count
    /\ NextWrite(wq_current + 1)
    /\ told' = IF wq'[wq_current'] # Empty /\ ~operation' THEN told \cup {"sender"} ELSE told
    /\ cpc' = "idle"
    /\ UNCHANGED <<spc, fresh, accepted, lost, receiver, closed>>

\* A write, or the read that is under way at this end too, completes with an
\* error: onError reports it and cancels the others.
SenderFails ==
    /\ closed = "receiver" /\ cpc = "idle" /\ "sender" \notin told
    /\ told' = told \cup {"sender"}
    /\ UNCHANGED <<sender, receiver, writes, pipe, closed>>
----------------------------------------------------------------------------
(* The receiving end.                                                      *)

\* read, when the pipe is connected.
Read ==
    /\ reading = "no" /\ Open("receiver")
    /\ reading' = "yes"
    /\ UNCHANGED <<sender, chunk, received, overrun, writes, pipe, closed, told>>

\* Whole packets within the next n bytes of the pipe.
Within(n) ==
    {k \in 0 .. Len(stream) : Bytes(SubSeq(stream, 1, k)) <= taken + n}

\* A byte pipe brings all there is, up to the size of the buffer.
ReadCompletes ==
    /\ reading = "yes" /\ chunk = None /\ stream # <<>> /\ closed # "receiver"
    /\ IF Bytes(stream) - taken < ReadMax
       THEN /\ chunk' = [packets |-> stream, kind |-> IF taken = 0 THEN "whole" ELSE "torn"]
            /\ stream' = <<>> /\ taken' = 0
       ELSE LET k == Max(Within(ReadMax)) IN
            /\ chunk' = [packets |-> SubSeq(stream, 1, k), kind |-> "full"]
            /\ stream' = SubSeq(stream, k + 1, Len(stream))
            /\ taken' = taken + ReadMax - Bytes(SubSeq(stream, 1, k))
    /\ UNCHANGED <<sender, reading, received, overrun, writes, closed, told>>

\* packetIntegrity: the bytes it takes to be left when it comes to the i-th
\* packet are all but those of the packet before.
Left(s, i) == Bytes(s) - (IF i = 1 THEN 0 ELSE Bytes(<<s[i - 1]>>))

\* Mutant: one packet for each read.
SplitFirst(s) == SubSeq(s, 1, 1)

\* ... and it stops at the first packet that is longer than that.
Split(s) ==
    SubSeq(s, 1, Max({k \in 0 .. Len(s) : \A i \in 1 .. k : Bytes(<<s[i]>>) <= Left(s, i)}))

\* Mutant: a read that is dropped is not followed by another.
NextReadAfterPackets ==
    IF stream = <<>> /\ closed = "sender"
    THEN reading' = "failed" /\ told' = told \cup {"receiver"}
    ELSE reading' = (IF chunk.kind = "full" THEN "failed" ELSE "yes") /\ UNCHANGED told

\* nextRead, which fails when the other end has closed and the pipe is empty.
NextRead ==
    IF stream = <<>> /\ closed = "sender"
    THEN reading' = "failed" /\ told' = told \cup {"receiver"}
    ELSE reading' = "yes" /\ UNCHANGED told

\* The completion of a read.  A read that has filled the buffer is dropped.
\* What a torn one is taken for depends on the bytes of its packets: nothing
\* of it is recorded.
OnRead ==
    /\ chunk # None /\ closed # "receiver"
    /\ received' = IF chunk.kind = "whole" THEN received \o Split(chunk.packets) ELSE received
    /\ overrun' = (overrun \/ chunk.kind = "full")
    /\ chunk' = None
    /\ NextRead
    /\ UNCHANGED <<sender, writes, pipe, closed>>

ReadFails ==
    /\ reading = "yes" /\ chunk = None /\ Open("receiver")
    /\ closed = "sender" /\ stream = <<>>
    /\ told' = told \cup {"receiver"}
    /\ UNCHANGED <<sender, receiver, writes, pipe, closed>>
----------------------------------------------------------------------------
(* destroy, at one of the ends.  What is still in the pipe is lost with the *)
(* receiver, or when the sender is the server, which disconnects.          *)

Close(e) ==
    /\ closed = Nobody /\ closed' = e
    /\ IF e = "receiver" THEN stream' = <<>> ELSE stream' \in {stream, <<>>}
    /\ taken' = IF stream' = <<>> THEN 0 ELSE taken
    /\ UNCHANGED <<sender, receiver, writes, told>>

Next ==
    \/ \E p \in Packets : WriteSlot(p) \/ WriteFull(p)
    \/ WriteAgain
    \/ WriteCompletes \/ Written \/ SenderFails
    \/ Read \/ ReadCompletes \/ OnRead \/ ReadFails
    \/ \E e \in Ends : Close(e)

Spec == Init /\ [][Next]_vars

(* The threads go on and the pipe moves what it is given.  Nobody has to   *)
(* send, or to close.                                                      *)
Fairness ==
    /\ WF_vars(WriteAgain)
    /\ WF_vars(WriteCompletes) /\ WF_vars(Written) /\ WF_vars(SenderFails)
    /\ WF_vars(Read) /\ WF_vars(ReadCompletes) /\ WF_vars(OnRead) /\ WF_vars(ReadFails)

FairSpec == Spec /\ Fairness
----------------------------------------------------------------------------
(* Correctness.                                                            *)

\* Every variable stays within its type: the current slot is one of the ring
\* whenever nobody is inside write or a completion.
TypeOK ==
    /\ wq \in [Index -> Packets \cup {Empty}]
    /\ wq_current \in Index /\ wq_count \in -1 .. Slots
    /\ operation \in BOOLEAN /\ writes \in Nat
    /\ spc \in {"idle", "full"} /\ cpc \in {"idle", "written"}
    /\ stream \in Seq(Packets) /\ taken \in Nat
    /\ closed \in Ends \cup {Nobody} /\ told \subseteq Ends
    /\ reading \in {"no", "yes", "failed"}
    /\ chunk \in [packets : Seq(Packets), kind : {"none", "whole", "torn", "full"}]
    /\ fresh \subseteq Packets
    /\ accepted \in Seq(Packets) /\ received \in Seq(Packets)
    /\ lost \in BOOLEAN /\ overrun \in BOOLEAN

\* No trouble yet that is known to lose or repeat packets.
Untroubled == spc = "idle" /\ ~lost /\ ~overrun

\* The packets in the ring: what nextWrite finds from the current slot on, up to
\* the first empty one.
SlotAfter(i, k) == IF i + k < Slots THEN i + k ELSE i + k - Slots

At(k) == wq[SlotAfter(wq_current, k)]

Filled == {n \in 0 .. Slots : /\ \A k \in 0 .. n - 1 : At(k) # Empty
                              /\ n < Slots => At(n) = Empty}

Ring == [k \in 1 .. (CHOOSE n \in Filled : TRUE) |-> At(k - 1)]

\* The receiver gets packets that were sent, in the order they were sent, and
\* none twice: also while an end closes, until LOSTDATA is reported.  Every packet
\* that write has taken is, once and in order, with the receiver, in its buffer,
\* in the pipe or in the ring, whatever the writes, completions and reads that
\* cross each other, around the end of the ring.
NothingLost ==
    /\ Untroubled => IsPrefix(received, accepted)
    /\ Untroubled /\ closed = Nobody =>
           accepted = received \o chunk.packets \o stream
                      \o (IF operation THEN Tail(Ring) ELSE Ring)

\* Every packet write has taken is received, unless a loss is reported, a read
\* fills the buffer or an end closes.
Delivered ==
    \A p \in Packets :
        p \in ToSet(accepted) ~> p \in ToSet(received) \/ ~Untroubled \/ closed # Nobody

\* When an end closes, the handlers of the other hear of it.
CloseReported ==
    /\ closed = "receiver" ~> "sender" \in told
    /\ closed = "sender" ~> "receiver" \in told

\* "The only reliable technique for performing simultaneous operations on the
\* same pipe handle is to use a separate OVERLAPPED structure [...] for each
\* operation" (ipc-pipe-base.cc:11): there is one for writes, so there is one
\* write at a time.
OneWritePerOverlapped == writes <= 1
=============================================================================
