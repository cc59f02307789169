------------------------------ MODULE Sockets ------------------------------
(***************************************************************************)
(* Packets over TCP on Windows: AsyncTCPSocket (qyasynctcpsocket.cc), which *)
(* frames them, on QySocketDispatcher (qyphysicalsocketfactory.cc), whose   *)
(* factory's wait loop tells the sockets of one thread what has happened to *)
(* them.  Each socket connects to a relay which joins the two.  What        *)
(* Winsock does (the connection, its buffers, the network events) is        *)
(* modelled from the way the loop uses it.  The owner of the sockets acts   *)
(* on the loop's thread: between two waits, and in the handlers.            *)
(***************************************************************************)
EXTENDS Integers, Sequences, SequencesExt, FiniteSetsExt

CONSTANTS
    Sockets, Peer(_),
    Radix, PktLenSize,      \* 256 and PKT_LEN_SIZE: a length is a number of PktLenSize digits
    Packets,                \* byte sequences the owner may send
    KernelBuf,              \* bytes a connection holds in one direction
    MaxSends, MaxConnects, MaxCloses, Nobody

\* What a digit of a length counts, from the last.
Weight[k \in 0 .. PktLenSize] == IF k = 0 THEN 1 ELSE Radix * Weight[k - 1]
MaxPacketSize == Weight[PktLenSize]
BufSize       == MaxPacketSize + PktLenSize

ASSUME SocketsAssumption ==
    /\ \A s \in Sockets : Peer(s) \in Sockets \ {s} /\ Peer(Peer(s)) = s
    /\ Radix \in Nat \ {0, 1} /\ PktLenSize \in Nat \ {0} /\ KernelBuf \in Nat \ {0}
    /\ Packets \subseteq Seq(0 .. Radix - 1) /\ Nobody \notin Sockets

VARIABLES
    mDispatchers,   \* the factory's list
    loop,           \* where wait is, the index of its pass, the events left for cur, who was called
    st,             \* the sockets
    sends, connects, closes   \* bounds

vars == <<mDispatchers, loop, st, sends, connects, closes>>

\* A socket: open, its mState, mEnabledEvents, mEventIndex and the mask of
\* WSAEventSelect; mInBuf and mOutBuf up to mInpos and mOutpos; the connection
\* (link), what has come for it (rbuf) and whether the other end has closed
\* (fin); the history of this connection: packets handed to the connection
\* (wire) and signalled (got), whether framing could be kept (clean), and whether
\* events of the connection before it are still to be told to it (torn).
Fresh == [open |-> FALSE, mState |-> "CLOSED", mEnabledEvents |-> {}, index |-> -1, mask |-> {},
          mInBuf |-> <<>>, mOutBuf |-> <<>>, link |-> "none", rbuf |-> <<>>, fin |-> FALSE,
          wire |-> <<>>, got |-> <<>>, clean |-> TRUE, torn |-> FALSE]

Idle == [at |-> "idle", i |-> 0, todo |-> {}, cur |-> Nobody, called |-> FALSE]

Init ==
    /\ mDispatchers = <<>> /\ loop = Idle /\ st = [s \in Sockets |-> Fresh]
    /\ sends = 0 /\ connects = 0 /\ closes = 0
----------------------------------------------------------------------------
\* A 16-bit length: MaxPacketSize itself becomes 0.
PacketLength(n) == n % MaxPacketSize
Digits(n) == [i \in 1 .. PktLenSize |-> (n \div Weight[PktLenSize - i]) % Radix]
Value(d)  ==
    LET upTo[k \in 0 .. PktLenSize] == IF k = 0 THEN 0 ELSE upTo[k - 1] * Radix + d[k]
    IN  upTo[PktLenSize]

\* What ::send may answer: some of the bytes are taken, or none (WSAEWOULDBLOCK), or an error.
Space(t, s) == KernelBuf - Len(t[Peer(s)].rbuf)
Joined(t, s) == t[s].open /\ t[s].link = "up" /\ ~t[s].fin
Failed     == -1
WouldBlock == 0
SendResults(t, s, n) ==
    IF ~Joined(t, s) THEN {Failed}
    ELSE IF Space(t, s) = 0 THEN {WouldBlock}
    ELSE 1 .. Min({n, Space(t, s)})

\* send of the physical socket: blocked, it asks for kfWrite.
PhysicalSend(t, s, r) ==
    CASE r = Failed -> t
      [] r = WouldBlock -> [t EXCEPT ![s].mEnabledEvents = @ \union {"write"}]
      [] OTHER -> [t EXCEPT ![Peer(s)].rbuf = @ \o SubSeq(t[s].mOutBuf, 1, r)]

Progress(r) == r > 0

\* Mutant of flush: the bytes sent are cut off at the wrong end.
FlushCutsTail(t, s, r) ==
    LET u == PhysicalSend(t, s, r)
    IN  IF Progress(r) THEN [u EXCEPT ![s].mOutBuf = SubSeq(@, 1, Len(@) - r)] ELSE u

flush(t, s, r) ==
    LET u == PhysicalSend(t, s, r)
    IN  IF Progress(r) THEN [u EXCEPT ![s].mOutBuf = SubSeq(@, r + 1, Len(@))] ELSE u

\* send drops the packet when an earlier one is still going out, and when flush
\* has made no progress.  It answers as if the first had been sent.
SendPacket(t, s, p, r) ==
    LET u == [t EXCEPT ![s].mOutBuf = Digits(PacketLength(Len(p))) \o p]
        v == flush(u, s, r)
    IN  IF Progress(r)
        THEN [v EXCEPT ![s].wire = Append(@, p), ![s].clean = @ /\ Len(p) < MaxPacketSize]
        ELSE [v EXCEPT ![s].mOutBuf = <<>>]

\* processInput: every whole packet at the front of mInBuf is signalled.  Each
\* takes bytes away, so there are no more of them than bytes.
TakePacket(x) ==
    LET n == PktLenSize + Value(x.mInBuf)
    IN  IF Len(x.mInBuf) < PktLenSize \/ Len(x.mInBuf) < n THEN x
        ELSE [x EXCEPT !.mInBuf = SubSeq(@, n + 1, Len(@)),
                       !.got = Append(@, SubSeq(x.mInBuf, PktLenSize + 1, n))]
processInput(x) ==
    LET after[k \in 0 .. Len(x.mInBuf)] == IF k = 0 THEN x ELSE TakePacket(after[k - 1])
    IN  after[Len(x.mInBuf)]

\* Mutant of recv: what was received is taken for the last of it.
RecvQuietly(x, n) ==
    [x EXCEPT !.mInBuf = @ \o SubSeq(x.rbuf, 1, n), !.rbuf = SubSeq(@, n + 1, Len(@))]

\* recv asks for kfRead again.
recv(x, n) ==
    [x EXCEPT !.mInBuf = @ \o SubSeq(x.rbuf, 1, n), !.rbuf = SubSeq(@, n + 1, Len(@)),
              !.mEnabledEvents = @ \union {"read"}]

\* Nothing to receive is the end of the stream: an error, and kfRead stays off.
onReadEvent(t, s) ==
    LET n == Min({Len(t[s].rbuf), BufSize - Len(t[s].mInBuf)})
        y == processInput(recv(t[s], n))
    IN  IF ~t[s].open \/ n = 0 THEN t
        ELSE [t EXCEPT ![s] = [y EXCEPT !.mInBuf = IF Len(@) >= BufSize THEN <<>> ELSE @]]
----------------------------------------------------------------------------
\* The owner has the thread: before a wait, or in a handler the loop has called.
OwnerRuns == loop.at = "idle" \/ loop.called

Enlist(s) == Append(mDispatchers, s)
\* Mutant of remove: the last of the list is erased.
DelistLast(s) == Front(mDispatchers)
\* It is there once.
Delist(s) == RemoveAt(mDispatchers, CHOOSE i \in DOMAIN mDispatchers : mDispatchers[i] = s)

\* A stream socket that is open asks for no events until it connects.  What is
\* left in the buffers of one that is closed breaks the framing of the next.
Opened(x) == [x EXCEPT !.open = TRUE, !.fin = FALSE, !.rbuf = <<>>, !.link = "none"]
Closed(x) == [x EXCEPT !.open = FALSE, !.mState = "CLOSED", !.mEnabledEvents = {},
                       !.link = "none", !.rbuf = <<>>,
                       !.clean = @ /\ x.mInBuf = <<>> /\ x.mOutBuf = <<>>]

\* ::connect is under way, or it fails at once and mState stays as it is.
Connecting(x, err) ==
    IF err THEN [x EXCEPT !.mEnabledEvents = @ \union {"read", "write"}]
    ELSE [x EXCEPT !.link = "pending", !.mState = "CONNECTING",
                   !.mEnabledEvents = @ \union {"connect", "read", "write"}]

createAsyncSocket(s) ==
    /\ OwnerRuns /\ st[s] = Fresh
    /\ mDispatchers' = Enlist(s) /\ st' = [st EXCEPT ![s] = Opened(@)]
    /\ UNCHANGED <<loop, sends, connects, closes>>

\* connect opens the socket if it must, at the end of the list.
Connect(s) ==
    /\ OwnerRuns /\ st[s].link = "none" /\ st[s].mEnabledEvents = {} /\ connects < MaxConnects
    /\ mDispatchers' = IF st[s].open THEN mDispatchers ELSE Enlist(s)
    /\ \E err \in BOOLEAN :
         st' = [st EXCEPT ![s] = [Connecting(IF @.open THEN @ ELSE Opened(@), err) EXCEPT
                                    !.torn = loop.cur = s /\ loop.todo # {}]]
    /\ connects' = connects + 1 /\ UNCHANGED <<loop, sends, closes>>

Send(s, p) ==
    /\ OwnerRuns /\ sends < MaxSends
    /\ Len(p) <= MaxPacketSize /\ st[s].mOutBuf = <<>>
    /\ \E r \in SendResults(st, s, PktLenSize + Len(p)) : st' = SendPacket(st, s, p, r)
    /\ sends' = sends + 1 /\ UNCHANGED <<mDispatchers, loop, connects, closes>>

\* close takes the socket off the list.  AsyncTCPSocket keeps what is in its
\* buffers, which a later connection finds there.
Close(s) ==
    /\ OwnerRuns /\ st[s].open /\ closes < MaxCloses
    /\ mDispatchers' = Delist(s)
    /\ st' = [st EXCEPT ![s] = Closed(@), ![Peer(s)].fin = @ \/ Joined(st, s)]
    /\ closes' = closes + 1 /\ UNCHANGED <<loop, sends, connects>>

\* The relay joins two connections that are under way, or refuses one.
LinkUp(s) ==
    /\ st[s].link = "pending" /\ st[Peer(s)].link = "pending"
    /\ st' = [q \in Sockets |-> IF q \in {s, Peer(s)}
                               THEN [st[q] EXCEPT !.link = "up", !.wire = <<>>, !.got = <<>>]
                               ELSE st[q]]
    /\ UNCHANGED <<mDispatchers, loop, sends, connects, closes>>

LinkFails(s) ==
    /\ st[s].link = "pending"
    /\ st' = [st EXCEPT ![s].link = "failed"]
    /\ UNCHANGED <<mDispatchers, loop, sends, connects, closes>>
----------------------------------------------------------------------------
(* wait: arm the sockets, wait, go through the list, and again.             *)

\* The network events of a socket.  FD_CLOSE and FD_ACCEPT are always asked for.
Happened(s) ==
    LET x == st[s] IN
    {e \in {"read", "write", "connect", "close"} :
        CASE e = "read"    -> x.rbuf # <<>>
          [] e = "write"   -> Joined(st, s) /\ Space(st, s) > 0
          [] e = "connect" -> x.link = "up"
          [] e = "close"   -> x.fin \/ x.link = "failed"}
eventsToFlags(e) == e \union {"close"}
Recorded(s) == Happened(s) \intersect st[s].mask

Arm ==
    /\ loop.at = "idle"
    /\ st' = [s \in Sockets |-> IF Contains(mDispatchers, s)
                                THEN [st[s] EXCEPT !.index = 0,
                                                   !.mask = eventsToFlags(st[s].mEnabledEvents)]
                                ELSE st[s]]
    /\ loop' = [Idle EXCEPT !.at = "wait"]
    /\ UNCHANGED <<mDispatchers, sends, connects, closes>>

Signalled ==
    /\ loop.at = "wait" /\ \E s \in ToSet(mDispatchers) : Recorded(s) # {}
    /\ loop' = [Idle EXCEPT !.at = "pass", !.i = 1]
    /\ UNCHANGED <<mDispatchers, st, sends, connects, closes>>

TimedOut ==
    /\ loop.at = "wait" /\ \A s \in ToSet(mDispatchers) : Recorded(s) = {}
    /\ loop' = Idle
    /\ UNCHANGED <<mDispatchers, st, sends, connects, closes>>

\* The dispatcher at the index of the pass: one that was armed and to which
\* something has happened is told; the next index is looked at otherwise.
PassNext ==
    /\ loop.at = "pass" /\ loop.todo = {} /\ loop.i <= Len(mDispatchers)
    /\ LET s  == mDispatchers[loop.i]
           ff == IF st[s].index = 0 THEN Recorded(s) ELSE {}
       IN  /\ loop' = [loop EXCEPT !.i = @ + 1, !.todo = ff, !.cur = s]
           /\ st' = [st EXCEPT ![s].index = -1,
                               ![s].mState = IF "connect" \in ff THEN "CONNECTED" ELSE @]
    /\ UNCHANGED <<mDispatchers, sends, connects, closes>>

\* onEvent: read, write, connect, close, in this order, though a handler may
\* have closed the socket.  Each event is disabled before its signal.
Order == <<"read", "write", "connect", "close">>
Soonest(todo) ==
    Order[CHOOSE i \in DOMAIN Order : Order[i] \in todo /\ \A j \in 1 .. i - 1 : Order[j] \notin todo]
onEvent ==
    /\ loop.at = "pass" /\ loop.todo # {}
    /\ LET s == loop.cur
           e == Soonest(loop.todo)
           t == [st EXCEPT ![s].mEnabledEvents = @ \ (IF e = "close" THEN {} ELSE {e})]
       IN  /\ loop' = [loop EXCEPT !.todo = @ \ {e}, !.called = TRUE]
           /\ IF e = "read" THEN st' = onReadEvent(t, s)
              ELSE IF e = "write" /\ t[s].mOutBuf # <<>>
              THEN \E r \in SendResults(t, s, Len(t[s].mOutBuf)) : st' = flush(t, s, r)
              ELSE st' = t
    /\ UNCHANGED <<mDispatchers, sends, connects, closes>>

\* The pass is over: wait returns, or arms the sockets again.
PassEnds ==
    /\ loop.at = "pass" /\ loop.todo = {} /\ loop.i > Len(mDispatchers)
    /\ loop' = Idle
    /\ UNCHANGED <<mDispatchers, st, sends, connects, closes>>

Loop == Arm \/ Signalled \/ TimedOut \/ PassNext \/ onEvent \/ PassEnds

Next ==
    \/ Loop
    \/ \E s \in Sockets :
         \/ createAsyncSocket(s) \/ Connect(s) \/ Close(s) \/ LinkUp(s) \/ LinkFails(s)
         \/ \E p \in Packets : Send(s, p)

Spec == Init /\ [][Next]_vars

\* onReadEvent's assertion: mInBuf has room after processInput, whatever came
\* (qyasynctcpsocket.cc:153).  A full one would be thrown away.
InputHasRoom == \A s \in Sockets : Len(st[s].mInBuf) < BufSize /\ (st[s].clean =>
    Len(st[s].mInBuf) < PktLenSize + (IF Len(st[s].mInBuf) < PktLenSize THEN 1 ELSE Value(st[s].mInBuf)))

\* The owner of the thread goes on calling wait.
FairSpec == Spec /\ WF_vars(Loop)
----------------------------------------------------------------------------
\* What is signalled at one end is what the other end's send put on the wire,
\* whole and in order, unless a packet of 64K, whose length is written as 0, or
\* what an earlier connection left in the buffers has broken the framing.
Framed ==
    /\ InputHasRoom
    /\ (\A s \in Sockets : st[s].clean) =>
          \A s \in Sockets : st[s].link = "up" => IsPrefix(st[s].got, st[Peer(s)].wire)

\* The list of the factory holds the open sockets, once each, through closes
\* and connects made by handlers in the middle of a pass.
Registered ==
    /\ IsInjective(mDispatchers)
    /\ ToSet(mDispatchers) = {s \in Sockets : st[s].open}

\* A wait never overlooks what has come: read is asked for whenever there is
\* something to read, although each event disables itself before its signal, a
\* blocked recv is not tried again, and a pass may skip a dispatcher when a
\* handler takes another off the list.  A socket that one of its own handlers has
\* closed and connected again is left out: what onEvent still has to tell, of the
\* connection before, turns off the events of the new one.
DataIsHeard ==
    loop.at = "wait" =>
        \A s \in Sockets : st[s].rbuf # <<>> /\ ~st[s].torn => "read" \in Recorded(s)

\* A packet send has taken goes out whole unless the connection ends: "We claim to have
\* sent the whole thing, even if we only sent partial" (qyasynctcpsocket.cc:61).
PartialIsSent ==
    \A s \in Sockets : (st[s].mOutBuf # <<>> /\ Joined(st, s)) ~> (st[s].mOutBuf = <<>> \/ ~Joined(st, s))
=============================================================================
