------------------------------ MODULE SChannel ------------------------------
(***************************************************************************)
(* SChannelAdapter (qyschanneladapter.cc), the TLS adapter of Windows: it   *)
(* keeps what has come (inbuf), what is decrypted (readable) and what is to *)
(* go out (outbuf), and posts itself a message when there is more to tell.  *)
(* SSPI, the socket below and the server are modelled from the way the      *)
(* adapter uses them: each TLS message is two bytes, and SSPI consumes      *)
(* whole ones.                                                              *)
(***************************************************************************)
EXTENDS Integers, Sequences, SequencesExt, FiniteSetsExt

CONSTANTS
    SendRoom,       \* bytes the socket takes before it blocks
    MaxRecords,     \* records the server sends on a connection
    MaxSends, MaxConnects

VARIABLES
    x,              \* the adapter, its socket and its owner
    flight,         \* what the server has said and the socket has not received
    said,           \* records the server has sent on this connection
    posts,          \* messages in the thread's queue
    sends, connects

vars == <<x, flight, said, posts, sends, connects>>

\* room: what the socket takes before it blocks; wantWrite: it has blocked and
\* will tell when it can be written; told: signals
\* the owner has not reacted to.  step counts the server's handshake messages.
SSLImpl == [step |-> 0, inbuf |-> <<>>, outbuf |-> <<>>, readable |-> <<>>]
NoSocket == [link |-> "none", rbuf |-> <<>>, room |-> SendRoom, wantWrite |-> FALSE]

Init ==
    /\ x = [state |-> "NONE", restartable |-> FALSE, signal_close |-> FALSE, message_pending |-> FALSE,
            impl |-> SSLImpl, sock |-> NoSocket, got |-> <<>>, told |-> {}, post |-> FALSE]
    /\ flight = <<>> /\ said = 0 /\ posts = 0 /\ sends = 0 /\ connects = 0
----------------------------------------------------------------------------
Tell(y, signal) == [y EXCEPT !.told = @ \union {signal}]
Ok(y)   == [x |-> y, err |-> FALSE]
Fail(y) == [x |-> y, err |-> TRUE]

\* Error: the owner is told, or finds out from what the call returns.
SetError(y, signal) ==
    LET z == [y EXCEPT !.state = "ERROR"] IN IF signal THEN Tell(z, "close") ELSE z

\* One message in the queue at a time, when there is anything to tell.
PostEvent(y) ==
    IF (y.impl.readable = <<>> /\ ~y.signal_close) \/ y.message_pending THEN y
    ELSE [y EXCEPT !.message_pending = TRUE, !.post = TRUE]

\* Flush sends until all is gone or the socket blocks.
Flush(y) ==
    LET n == Min({Len(y.impl.outbuf), y.sock.room})
    IN  IF y.sock.link # "up" /\ y.impl.outbuf # <<>> THEN Fail(y)
        ELSE Ok([y EXCEPT !.impl.outbuf = SubSeq(@, n + 1, Len(@)), !.sock.room = @ - n,
                          !.sock.wantWrite = @ \/ n < Len(y.impl.outbuf)])

\* Read: all the socket has, until it blocks.
Read(y) == [y EXCEPT !.impl.inbuf = @ \o y.sock.rbuf, !.sock.rbuf = <<>>]

\* Mutant of DecryptData: what is behind the first record is dropped.
DecryptFirst(y) ==
    IF Len(y.impl.inbuf) < 2 THEN Ok(y)
    ELSE IF y.impl.inbuf[1] = "bad" THEN Fail(y)
    ELSE Ok([y EXCEPT !.impl.inbuf = <<>>, !.impl.readable = Append(@, y.impl.inbuf[2])])

\* DecryptData: whole records go to readable, the rest stays.
RECURSIVE DecryptData(_)
DecryptData(y) ==
    IF Len(y.impl.inbuf) < 2 THEN Ok(y)
    ELSE IF y.impl.inbuf[1] = "bad" THEN Fail(y)
    ELSE DecryptData([y EXCEPT !.impl.inbuf = SubSeq(@, 3, Len(@)),
                               !.impl.readable = Append(@, y.impl.inbuf[2])])

\* The second message of the server ends the handshake: what came behind it is
\* decrypted, and a message is queued for it before the owner hears of the
\* connection.  A record that cannot be decrypted ends it, before anything is flushed.
Established(y) ==
    LET d == DecryptData([y EXCEPT !.state = "CONNECTED"])
        f == Flush(d.x)
    IN  IF d.err THEN Fail(d.x)
        ELSE IF f.err THEN Fail(f.x)
        ELSE Ok(Tell(PostEvent(f.x), "connect"))

\* ContinueSSL and ProcessContext: a message that is not whole waits; the first
\* of the server has an answer; while there is more in inbuf it goes on.
RECURSIVE ContinueSSL(_)
ContinueSSL(y) ==
    LET b == y.impl.inbuf
        z == [y EXCEPT !.impl.inbuf = SubSeq(b, 3, Len(b)), !.impl.step = @ + 1]
        w == [z EXCEPT !.impl.outbuf = @ \o <<"finish", "finish">>]
    IN  IF Len(b) < 2 THEN Flush(y)
        ELSE IF b[1] = "bad" THEN Fail(y)
        ELSE IF z.impl.step = 2 THEN Established(z)
        ELSE IF w.impl.inbuf = <<>> THEN Flush(w)
        ELSE ContinueSSL(w)

BeginSSL(y) == Flush([y EXCEPT !.state = "CONNECTING", !.impl.outbuf = @ \o <<"hello", "hello">>])

StartSSL(y, restartable) ==
    LET z == [y EXCEPT !.restartable = restartable]
        b == BeginSSL(z)
    IN  IF y.sock.link # "up" THEN [z EXCEPT !.state = "WAIT"]
        ELSE IF b.err THEN SetError(b.x, FALSE)
        ELSE b.x

\* Send: one record of what the owner sends, in outbuf even if the socket blocks.
Send(y) ==
    LET f == Flush([y EXCEPT !.impl.outbuf = @ \o <<"record", "record">>])
    IN  IF y.state # "CONNECTED" THEN y
        ELSE IF f.err THEN [f.x EXCEPT !.state = "ERROR"]
        ELSE f.x

Recv(y, cb) ==
    LET n == Min({cb, Len(y.impl.readable)})
    IN  IF y.state # "CONNECTED" \/ y.impl.readable = <<>> THEN y
        ELSE PostEvent([y EXCEPT !.impl.readable = SubSeq(@, n + 1, Len(@)),
                                 !.got = @ \o SubSeq(y.impl.readable, 1, n)])

\* Close forgets the message that is in the queue.
Close(y) ==
    [y EXCEPT !.impl = SSLImpl, !.state = IF y.restartable THEN "WAIT" ELSE "NONE",
              !.signal_close = FALSE, !.message_pending = FALSE, !.sock = NoSocket,
              !.got = <<>>, !.told = {}]

OnConnectEvent(y) ==
    LET b == BeginSSL(y)
    IN  IF y.state # "WAIT" THEN Tell(y, "connect")
        ELSE IF b.err THEN SetError(b.x, TRUE)
        ELSE b.x

OnReadEvent(y) ==
    LET r == Read(y)
        d == DecryptData(r)
        k == ContinueSSL(r)
    IN  CASE y.state = "NONE" -> Tell([y EXCEPT !.sock.rbuf = <<>>], "read")
          [] y.state = "CONNECTED" /\ r.impl.inbuf # <<>> ->
                 IF d.err THEN SetError(d.x, TRUE)
                 ELSE IF d.x.impl.readable # <<>> THEN Tell(d.x, "read") ELSE d.x
          [] y.state = "CONNECTING" /\ r.impl.inbuf # <<>> -> IF k.err THEN SetError(k.x, TRUE) ELSE k.x
          [] OTHER -> r

OnWriteEvent(y) ==
    LET f == Flush(y)
    IN  IF y.state = "NONE" THEN Tell(y, "write")
        ELSE IF f.err THEN SetError(f.x, TRUE)
        ELSE IF f.x.impl.outbuf = <<>> /\ y.state = "CONNECTED" THEN Tell(f.x, "write")
        ELSE f.x

\* Mutant of OnCloseEvent: the close waits for the next read event.
OnCloseEventLater(y) == IF y.state = "NONE" THEN Tell(y, "close") ELSE [y EXCEPT !.signal_close = TRUE]
\* What is readable comes before the close.
OnCloseEvent(y) ==
    IF y.state = "NONE" \/ y.impl.readable = <<>> THEN Tell(y, "close")
    ELSE [y EXCEPT !.signal_close = TRUE]

OnMessage(y) ==
    LET z == [y EXCEPT !.message_pending = FALSE]
    IN  IF ~y.message_pending THEN y
        ELSE IF y.impl.readable # <<>> THEN Tell(z, "read")
        ELSE IF y.signal_close THEN Tell([z EXCEPT !.signal_close = FALSE], "close")
        ELSE z
----------------------------------------------------------------------------
\* The adapter's new state; what PostEvent has posted is in the queue.
Do(y) == x' = [y EXCEPT !.post = FALSE] /\ posts' = posts + IF y.post THEN 1 ELSE 0
Net == <<flight, said>>
Bounds == <<sends, connects>>

OwnerStarts ==
    /\ x.state = "NONE" /\ "close" \notin x.told /\ said = 0
    /\ \E r \in BOOLEAN : Do(StartSSL(x, r))
    /\ UNCHANGED <<Net, Bounds>>
OwnerConnects ==
    /\ x.sock.link = "none" /\ "close" \notin x.told /\ connects < MaxConnects
    /\ Do([x EXCEPT !.sock.link = "pending"])
    /\ flight' = <<>> /\ said' = 0 /\ connects' = connects + 1 /\ UNCHANGED sends
OwnerSends ==
    /\ x.state = "CONNECTED" /\ sends < MaxSends
    /\ Do(Send(x)) /\ sends' = sends + 1 /\ UNCHANGED <<Net, connects>>
\* Told that there is something to read, the owner reads some of it or all.
OwnerReads ==
    /\ "read" \in x.told
    /\ \E cb \in {1, 64} : Do(Recv([x EXCEPT !.told = @ \ {"read"}], cb))
    /\ UNCHANGED <<Net, Bounds>>
OwnerCloses ==
    /\ x.sock.link # "none" \/ "close" \in x.told
    /\ Do(Close(x)) /\ UNCHANGED <<Net, Bounds>>

SocketConnected ==
    /\ x.sock.link = "pending"
    /\ Do(OnConnectEvent([x EXCEPT !.sock.link = "up"])) /\ UNCHANGED <<Net, Bounds>>
SocketReadable ==
    /\ x.sock.link = "up" /\ x.sock.rbuf # <<>>
    /\ Do(OnReadEvent(x)) /\ UNCHANGED <<Net, Bounds>>
\* The socket can be written again, and tells of it if it has blocked.
SocketWritable ==
    /\ x.sock.link = "up" /\ x.sock.room < SendRoom
    /\ LET y == [x EXCEPT !.sock.room = SendRoom, !.sock.wantWrite = FALSE]
       IN  Do(IF x.sock.wantWrite THEN OnWriteEvent(y) ELSE y)
    /\ UNCHANGED <<Net, Bounds>>
\* The server has closed, and all it has said has been received.
SocketClosed ==
    /\ x.sock.link = "up" /\ flight = <<>> /\ x.sock.rbuf = <<>>
    /\ Do(OnCloseEvent([x EXCEPT !.sock.link = "lost"])) /\ UNCHANGED <<Net, Bounds>>
MessageHandled ==
    /\ posts > 0 /\ LET y == OnMessage(x) IN x' = y /\ posts' = posts - 1
    /\ UNCHANGED <<Net, Bounds>>

\* The server answers the hello with two messages, either of which may be bad,
\* and sends records, or one that is bad.  What it says arrives in pieces.
ServerSays ==
    /\ x.sock.link = "up" /\ x.state \notin {"NONE", "WAIT"}
    /\ IF said = 0 THEN \E m, n \in {"hello", "bad"} : flight' = flight \o <<m, m, n, n>>
       ELSE said <= MaxRecords /\ \E m \in {"record", "bad"} : flight' = flight \o <<m, said>>
    /\ said' = said + 1 /\ UNCHANGED <<x, posts, Bounds>>
Arrives ==
    /\ x.sock.link = "up"
    /\ \E n \in 1 .. Len(flight) :
         /\ x' = [x EXCEPT !.sock.rbuf = @ \o SubSeq(flight, 1, n)]
         /\ flight' = SubSeq(flight, n + 1, Len(flight))
    /\ UNCHANGED <<said, posts, Bounds>>

Next ==
    \/ OwnerStarts \/ OwnerConnects \/ OwnerSends \/ OwnerReads \/ OwnerCloses
    \/ SocketConnected \/ SocketReadable \/ SocketWritable \/ SocketClosed \/ MessageHandled
    \/ ServerSays \/ Arrives

Spec == Init /\ [][Next]_vars
----------------------------------------------------------------------------
\* What is readable, and a close that waits for it, are never forgotten: the
\* owner has a signal it has not reacted to, or a message is in the queue that
\* will be heeded, whatever was closed, connected and posted before.  What could
\* not be sent waits for a write event that will come, unless the adapter has
\* failed: an error ends the call before it flushes, and its token stays.
NothingForgotten ==
    /\ x.message_pending => posts > 0
    /\ x.state = "CONNECTED" /\ (x.impl.readable # <<>> \/ x.signal_close) =>
           x.message_pending \/ "read" \in x.told
    /\ x.impl.outbuf # <<>> /\ x.sock.link = "up" => x.sock.wantWrite \/ x.state = "ERROR"

\* The records of the server reach the owner in order and without a gap, in
\* whatever pieces they come, those behind the handshake's last message too.
RecordsInOrder ==
    LET data == x.got \o x.impl.readable
        arrived == flight = <<>> /\ x.sock.rbuf = <<>> /\ x.impl.inbuf = <<>>
    IN  x.state = "CONNECTED" =>
            /\ data = [i \in 1 .. Len(data) |-> i]
            /\ arrived => Len(data) = said - 1
=============================================================================
