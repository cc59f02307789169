------------------------------- MODULE Tunnel -------------------------------
(***************************************************************************)
(* A client's socket with its adapters: the OpenSSL adapter                 *)
(* (qyOpenSSLAdapter.cc) over a SOCKS proxy or a sham-SSL adapter           *)
(* (qysocketadapters.cc) over the physical socket.  A call goes down the    *)
(* layers and a signal up, all on one thread: each is an operator from a    *)
(* state of the connection to the next.  The proxy, the server behind it    *)
(* and the OpenSSL engine are modelled from the way the adapters use them.  *)
(* The owner reacts to a signal when the adapters have returned.            *)
(***************************************************************************)
EXTENDS Integers, Sequences, SequencesExt, FiniteSetsExt

CONSTANTS
    Fronts,         \* subset of {"socks", "ssl"}: the adapter over the socket
    Replies,        \* what the proxy may answer to the connect request
    Payload,        \* what a server without TLS says once the tunnel is up
    StartWhen,      \* when startSSL may be called: subset of {"before", "during", "after"}
    MaxSends, MaxConnects

VARIABLES
    c, server,      \* the client; what the other side has said that is on its way, what it has heard
    sends, connects
vars == <<c, server, sends, connects>>

\* c: the adapters and what they have done.  link is the socket's state, rbuf is what the socket has
\* received, wire what it has sent.  spoilt: recv has dropped bytes it had
\* taken from mBuffer, or a new connection finds old ones there; crashed: the
\* proxy's setError has called itself for ever.
Adapters(front, user, cert) ==
    [front |-> front, user |-> user, mProxyState |-> "ERROR", mBuffering |-> FALSE, mBuffer |-> <<>>,
     mState |-> "NONE", ssl |-> "none", have |-> 0, needsRead |-> FALSE, needsWrite |-> FALSE,
     mRestartable |-> FALSE, cert |-> cert, asked |-> FALSE,
     link |-> "none", rbuf |-> <<>>, wire |-> <<>>, got |-> <<>>, told |-> {}, spoilt |-> FALSE, crashed |-> FALSE]

\* The certificate: its name matches, it verifies, and bad ones are ignored.
Certs == [match : BOOLEAN, verified : BOOLEAN, ignore : BOOLEAN]

Silent == [says |-> <<>>, heard |-> 0]

Init ==
    /\ c \in {Adapters(f, u, k) : f \in Fronts, u \in BOOLEAN,
                                  k \in {x \in Certs : x.match \/ ~x.ignore}}
    /\ server = Silent /\ sends = 0 /\ connects = 0
----------------------------------------------------------------------------
(* The lower layer: a result is the next state and what the call returned.  *)

Blocked == -1
Sent(x, token) == [x EXCEPT !.wire = Append(@, token)]
Tell(x, signal) == [x EXCEPT !.told = @ \union {signal}]

\* Mutant of send: buffering stops what comes in only.
FrontSendAlways(x, token) == [x |-> Sent(x, token), n |-> 1]
\* send of the front adapter: nothing passes while it is buffering.  The socket
\* itself has room.
FrontSend(x, token) == IF x.mBuffering THEN [x |-> x, n |-> Blocked] ELSE [x |-> Sent(x, token), n |-> 1]

\* recv of the front adapter: from mBuffer first.  When the socket then blocks
\* the call fails, and what came from mBuffer is gone.
FrontRecv(x, cb) ==
    LET fromBuf  == Min({cb, Len(x.mBuffer)})
        fromSock == Min({cb - fromBuf, Len(x.rbuf)})
        y == [x EXCEPT !.mBuffer = SubSeq(@, fromBuf + 1, Len(@)), !.rbuf = SubSeq(@, fromSock + 1, Len(@))]
    IN  IF x.mBuffering THEN [x |-> x, n |-> Blocked, data |-> <<>>]
        ELSE IF cb > fromBuf /\ fromSock = 0
        THEN [x |-> [y EXCEPT !.spoilt = @ \/ fromBuf > 0], n |-> Blocked, data |-> <<>>]
        ELSE [x |-> y, n |-> fromBuf + fromSock,
              data |-> SubSeq(x.mBuffer, 1, fromBuf) \o SubSeq(x.rbuf, 1, fromSock)]
----------------------------------------------------------------------------
(* The OpenSSL adapter.                                                     *)

cleanup(x) == [x EXCEPT !.mState = "NONE", !.ssl = "none", !.have = 0,
                        !.needsRead = FALSE, !.needsWrite = FALSE]

\* The engine reads messages of two bytes, and keeps half of one.
EngineRead(x) ==
    LET r == FrontRecv(x, 2 - x.have)
    IN  IF r.n = Blocked THEN [x |-> r.x, done |-> FALSE]
        ELSE IF x.have + r.n = 2 THEN [x |-> [r.x EXCEPT !.have = 0], done |-> TRUE]
        ELSE [x |-> [r.x EXCEPT !.have = @ + r.n], done |-> FALSE]

SSLPostConnectionCheck(x) == x.cert.ignore \/ (x.cert.match /\ x.cert.verified)

\* SSL_connect: the client's hello, then the server's.  A certificate that does
\* not verify ends it in SSLVerifyCallback.  Connected, the owner is told.
continueSSL(x) ==
    LET s == IF x.ssl = "start" THEN FrontSend(x, "hello") ELSE [x |-> x, n |-> 1]
        r == EngineRead([s.x EXCEPT !.ssl = "sent"])
    IN  IF s.n = Blocked THEN [x |-> s.x, err |-> FALSE]
        ELSE IF ~r.done THEN [x |-> r.x, err |-> FALSE]
        ELSE IF ~r.x.cert.verified /\ ~r.x.cert.ignore THEN [x |-> r.x, err |-> TRUE]
        ELSE IF ~SSLPostConnectionCheck(r.x) THEN [x |-> cleanup(r.x), err |-> TRUE]
        ELSE [x |-> Tell([r.x EXCEPT !.mState = "CONNECTED", !.ssl = "done"], "connect"), err |-> FALSE]

beginSSL(x) ==
    LET r == continueSSL([x EXCEPT !.mState = "CONNECTING", !.ssl = "start"])
    IN  IF r.err THEN [x |-> cleanup(r.x), err |-> TRUE] ELSE r

\* connState is the socket's own: the adapters do not say they are connecting.
startSSL(x, restartable) ==
    LET y == [x EXCEPT !.mRestartable = restartable, !.asked = TRUE, !.told = @ \ {"connect"}]
        r == beginSSL(y)
    IN  IF x.link # "up" THEN [y EXCEPT !.mState = "WAIT"]
        ELSE IF r.err THEN [r.x EXCEPT !.mState = "ERROR"]
        ELSE r.x

\* Mutant of onConnectEvent: the owner is told of the tunnel too.
SslOnConnectTells(x) ==
    LET r == beginSSL(x) IN Tell(IF x.mState = "WAIT" THEN r.x ELSE x, "connect")
SslOnConnect(x) ==
    LET r == beginSSL(x)
    IN  IF x.mState # "WAIT" THEN Tell(x, "connect")
        ELSE IF r.err THEN Tell(r.x, "close")
        ELSE r.x

SetErrorWithContext(x) == Tell([x EXCEPT !.mState = "ERROR"], "close")

Continue(x) == LET r == continueSSL(x) IN IF r.err THEN SetErrorWithContext(r.x) ELSE r.x

SslOnRead(x) ==
    CASE x.mState = "NONE"       -> Tell(x, "read")
      [] x.mState = "CONNECTING" -> Continue(x)
      [] x.mState = "CONNECTED"  -> Tell(IF x.needsRead THEN Tell(x, "write") ELSE x, "read")
      [] OTHER                   -> x

SslOnWrite(x) ==
    CASE x.mState = "NONE"       -> Tell(x, "write")
      [] x.mState = "CONNECTING" -> Continue(x)
      [] x.mState = "CONNECTED"  -> Tell(IF x.needsWrite THEN Tell(x, "read") ELSE x, "write")
      [] OTHER                   -> x

\* send and recv of the owner: through the engine when it is connected.  The
\* engine may need to read before it can write (renegotiate), or fail.
SslSends(x) ==
    CASE x.mState = "NONE" -> {FrontSend(x, "plain").x}
      [] x.mState = "CONNECTED" ->
            LET y == [x EXCEPT !.needsRead = FALSE]
            IN  {FrontSend(y, "record").x, [y EXCEPT !.needsRead = TRUE], [y EXCEPT !.mState = "ERROR"]}
      [] OTHER -> {x}

SslRecv(x, cb) ==
    LET plain  == FrontRecv(x, cb)
        engine == EngineRead([x EXCEPT !.needsWrite = FALSE])
    IN  CASE x.mState = "NONE"      -> [plain.x EXCEPT !.got = @ \o plain.data]
          [] x.mState = "CONNECTED" -> IF engine.done THEN [engine.x EXCEPT !.got = Append(@, "record")] ELSE engine.x
          [] OTHER -> x
----------------------------------------------------------------------------
(* The adapter over the socket.                                             *)

\* Who may pass is told, and what came behind the last reply is to be read.
TunnelUp(x) ==
    LET y == SslOnConnect([x EXCEPT !.mBuffering = FALSE])
    IN  IF x.mBuffer # <<>> THEN SslOnRead(y) ELSE y

sendHello(x)   == [Sent(x, "socks") EXCEPT !.mProxyState = "HELLO"]
sendAuth(x)    == [Sent(x, "auth") EXCEPT !.mProxyState = "AUTH"]
sendConnect(x) == [Sent(x, "dest") EXCEPT !.mProxyState = "CONNECT"]

\* The bytes of a reply: as many as its prefix tells.
ReplyLength(x) ==
    LET b == x.mBuffer IN
    CASE x.mProxyState # "CONNECT" -> 2
      [] Len(b) < 4  -> 4
      [] b[4] = 1    -> 10
      [] b[4] = 4    -> 22
      [] b[4] = 3    -> IF Len(b) < 5 THEN 5 ELSE 7 + b[5]
      [] OTHER       -> 4

Refused(x) ==
    LET b == x.mBuffer IN
    CASE x.mProxyState = "HELLO"   -> b[1] # 5 \/ b[2] \notin {0, 2}
      [] x.mProxyState = "AUTH"    -> b[1] # 1 \/ b[2] # 0
      [] x.mProxyState = "CONNECT" -> b[1] # 5 \/ b[2] # 0 \/ b[4] \notin {1, 3, 4}

\* Mutant of Consume: the reply stays in mBuffer.
ConsumeNothing(x, n) == x
Consume(x, n) == [x EXCEPT !.mBuffer = SubSeq(@, n + 1, Len(@))]

\* setError calls close and then itself, not the socket's.
ProxySetError(x) == [x EXCEPT !.mProxyState = "ERROR", !.mBuffering = FALSE, !.crashed = TRUE]

ProxyInput(x) ==
    LET b == x.mBuffer
        n == ReplyLength(x)
        y == Consume(x, n)
    IN  IF Len(b) < Min({n, 4}) THEN x
        ELSE IF Refused(x) THEN ProxySetError(x)
        ELSE IF Len(b) < n THEN x
        ELSE IF x.mProxyState = "CONNECT" THEN TunnelUp([y EXCEPT !.mProxyState = "TUNNEL"])
        ELSE IF x.mProxyState = "HELLO" /\ b[2] = 2 THEN sendAuth(y)
        ELSE sendConnect(y)

ServerHello == <<22, 3, 1>>
SslSocketInput(x) ==
    IF Len(x.mBuffer) < Len(ServerHello) THEN x
    ELSE IF IsPrefix(ServerHello, x.mBuffer) THEN TunnelUp(Consume(x, Len(ServerHello)))
    ELSE Tell([x EXCEPT !.link = "none"], "close")

\* connect starts buffering; the connect event starts the adapter's own talk.
Connecting(x) == [x EXCEPT !.link = "pending", !.mBuffering = TRUE, !.spoilt = @ \/ x.mBuffer # <<>>]
FrontOnConnect(x) == IF x.front = "socks" THEN sendHello(x) ELSE Sent(x, "sham")

FrontOnRead(x) ==
    LET y == [x EXCEPT !.mBuffer = @ \o x.rbuf, !.rbuf = <<>>]
    IN  IF ~x.mBuffering THEN SslOnRead(x)
        ELSE IF x.front = "socks" THEN ProxyInput(y)
        ELSE SslSocketInput(y)

Close(x) == [cleanup(x) EXCEPT !.mState = IF x.mRestartable THEN "WAIT" ELSE "NONE",
                               !.asked = x.mRestartable, !.link = "none",
                               !.rbuf = <<>>, !.wire = <<>>, !.got = <<>>, !.told = {}]
----------------------------------------------------------------------------
Live == ~c.spoilt /\ ~c.crashed

Phase == CASE c.link \in {"none", "pending"} -> "before"
           [] c.link = "up" /\ "connect" \notin c.told -> "during"
           [] OTHER -> "after"

OwnerStarts ==
    /\ Live /\ c.mState = "NONE" /\ ~c.asked /\ Phase \in StartWhen
    /\ c.mBuffer = <<>> /\ c.rbuf = <<>> /\ server.says = <<>>
    /\ "plain" \notin ToSet(c.wire) /\ c.got = <<>> /\ "close" \notin c.told
    /\ \E restartable \in BOOLEAN : c' = startSSL(c, restartable)
    /\ UNCHANGED <<server, sends, connects>>

OwnerConnects ==
    /\ Live /\ c.link = "none" /\ "close" \notin c.told /\ connects < MaxConnects
    /\ c' = Connecting(c) /\ connects' = connects + 1 /\ server' = Silent /\ UNCHANGED sends

OwnerSends ==
    /\ Live /\ c.link = "up" /\ sends < MaxSends
    /\ c' \in SslSends(c) /\ sends' = sends + 1 /\ UNCHANGED <<server, connects>>

\* The owner reads what it has been told of, a byte or as much as there is.
OwnerReads ==
    /\ Live /\ c.link = "up" /\ "read" \in c.told
    /\ \E cb \in {1, 64} : c' = SslRecv([c EXCEPT !.told = @ \ {"read"}], cb)
    /\ UNCHANGED <<server, sends, connects>>

OwnerCloses ==
    /\ Live /\ (c.link # "none" \/ "close" \in c.told)
    /\ c' = Close(c) /\ UNCHANGED <<server, sends, connects>>

SocketConnected ==
    /\ Live /\ c.link = "pending"
    /\ c' = FrontOnConnect([c EXCEPT !.link = "up"]) /\ UNCHANGED <<server, sends, connects>>

SocketReadable ==
    /\ Live /\ c.link = "up" /\ c.rbuf # <<>> /\ "read" \notin c.told
    /\ c' = FrontOnRead(c) /\ UNCHANGED <<server, sends, connects>>

SocketWritable ==
    /\ Live /\ c.link = "up" /\ ~c.mBuffering /\ "write" \notin c.told
    /\ c' = SslOnWrite(c) /\ UNCHANGED <<server, sends, connects>>

\* The proxy answers what it is sent; the server, once the tunnel is there for
\* it, says Payload or answers the engine.
Answers(token) ==
    CASE token = "socks"  -> IF c.user THEN {<<5, 2>>, <<5, 0>>} ELSE {<<5, 0>>, <<5, 255>>}
      [] token = "auth"   -> {<<1, 0>>, <<1, 1>>}
      [] token = "dest"   -> Replies \union {r \o Payload : r \in IF c.asked THEN {} ELSE Replies}
      [] token = "sham"   -> {ServerHello, <<22, 3, 3>>} \union IF c.asked THEN {} ELSE {ServerHello \o Payload}
      [] token = "hello"  -> {<<80, 81>>}
      [] token = "record" -> {<<82, 83>>}
      [] token = "plain"  -> {<<>>}

ServerAnswers ==
    /\ Live /\ server.heard < Len(c.wire)
    /\ \E a \in Answers(c.wire[server.heard + 1]) :
         server' = [says |-> server.says \o a, heard |-> server.heard + 1]
    /\ UNCHANGED <<c, sends, connects>>

\* What the other side says comes in pieces.
Arrives ==
    /\ Live /\ c.link = "up"
    /\ \E n \in 1 .. Len(server.says) :
         /\ c' = [c EXCEPT !.rbuf = @ \o SubSeq(server.says, 1, n)]
         /\ server' = [server EXCEPT !.says = SubSeq(@, n + 1, Len(@))]
    /\ UNCHANGED <<sends, connects>>

Next ==
    \/ OwnerStarts \/ OwnerConnects \/ OwnerSends \/ OwnerReads \/ OwnerCloses
    \/ SocketConnected \/ SocketReadable \/ SocketWritable \/ ServerAnswers \/ Arrives

Spec == Init /\ [][Next]_vars
----------------------------------------------------------------------------
Rank(token) == CASE token \in {"socks", "sham"} -> 1 [] token = "auth" -> 2 [] token = "dest" -> 3
                 [] token = "hello" -> 4 [] OTHER -> 5

\* What a connection sends is in order, whoever asks for it and whenever: the
\* talk of the proxy adapter, once, then the engine's hello, then what the owner
\* sends; and that goes through the engine if the owner has started TLS, until
\* it is told that the connection has failed.
WireInOrder ==
    LET w == c.wire IN
    /\ \A i, j \in DOMAIN w : i < j => Rank(w[i]) < Rank(w[j]) \/ (Rank(w[i]) = 5 /\ Rank(w[j]) = 5)
    /\ c.asked /\ "close" \notin c.told => "plain" \notin ToSet(w)

\* What the owner has read is what the server has said behind the tunnel, whole
\* from its first byte: nothing of the adapters' own talk, in whatever pieces it
\* came, unless recv has dropped bytes.
GotIsPayload ==
    Live => IF c.asked THEN ToSet(c.got) \subseteq {"record"} ELSE IsPrefix(c.got, Payload)

\* An owner that has started TLS is told that it is connected when TLS is:
\* onConnectEvent's assertion (qyOpenSSLAdapter.cc:405) is that a connect event
\* comes to an adapter that is not negotiating.
ConnectedMeansNegotiated ==
    c.asked /\ "connect" \in c.told => c.mState \notin {"WAIT", "CONNECTING"}
=============================================================================
