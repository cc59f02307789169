------------------------------- MODULE MCNet -------------------------------
(***************************************************************************)
(* What the network library puts around a socket: the streams and what they *)
(* are made of, the codecs, the signals, and a client with one of the two   *)
(* TLS adapters, OpenSSL's over a proxy or a sham-SSL adapter or that of    *)
(* Windows over the socket itself.  They share no state: a behaviour works  *)
(* with one of them.  The sources of the codecs are made of characters that *)
(* some codec replaces, UTF-8 of each length, a byte that is none, and a    *)
(* number.  The proxy replies with an address, a name of one letter, or a   *)
(* refusal.                                                                 *)
(***************************************************************************)
EXTENDS Integers, Signals

CONSTANTS Bytes, BufSize, Round, MaxCalls, MaxChunk, BuffSize, Room, MaxBytes, StreamIds,
          MaxAtoms, BufLens,
          Fronts, StartWhen, SendRoom, MaxRecords, MaxSends, MaxConnects

VARIABLES part, buf, queue, mem, file, same, tapped, copied, calls, dir, said, started, closed, job,
          c, server, x, flight, records, posts, sends, connects

StreamVars == <<buf, queue, mem, file, same, tapped, copied, calls>>
RelayVars == <<dir, said, started, closed>>
TunnelVars == <<c, server>>
SignalVars == vars
SChannelVars == <<x, flight, records, posts>>
OwnerVars == <<sends, connects>>

MCAtoms == {<<97>>, <<37>>, <<38>>, <<43>>, <<92>>, <<39>>, <<195>>, <<169>>,
            <<226, 130, 172>>, <<240, 159, 152, 128>>, <<38, 35, 50, 51, 51, 59>>}
MCReplies == {<<5, 0, 0, 1, 9, 9, 9, 9, 9, 9>>, <<5, 0, 0, 3, 1, 9, 9, 9>>, <<5, 1, 0, 1>>}
MCPayload == <<7, 8>>

T == INSTANCE Streams
R == INSTANCE Relay
C == INSTANCE Codecs WITH Atoms <- MCAtoms
O == INSTANCE Tunnel WITH Replies <- MCReplies, Payload <- MCPayload
W == INSTANCE SChannel WITH said <- records

\* A part that is not worked with is in one state.
NetInit ==
    /\ part \in {"buffer", "files", "tap", "relay", "codecs", "signals", "openssl", "schannel"}
    /\ T!Init /\ (part # "tap" => tapped.mTap = T!NullStream)
    /\ IF part = "relay" THEN R!Init
       ELSE dir = [i \in StreamIds |-> R!Opening] /\ said = [i \in StreamIds |-> 0] /\ started = TRUE /\ closed = FALSE
    /\ IF part = "codecs" THEN C!Init ELSE job = C!New("hex", <<>>)
    /\ IF part = "signals" THEN Init
       ELSE /\ list = [s \in Sigs |-> <<>>] /\ senders = [o \in Objects |-> {}]
            /\ made = {} /\ alive = {} /\ em = None /\ steps = 0
    /\ O!Init /\ W!Init
    /\ part # "openssl" => c.front = "socks" /\ c.user /\ c.cert.match /\ c.cert.verified /\ c.cert.ignore

Library == <<StreamVars, RelayVars, job, SignalVars>>
Adapters == <<TunnelVars, SChannelVars, OwnerVars>>
NetNext ==
    /\ UNCHANGED part
    /\ \/ part = "buffer" /\ T!Counted /\ T!BufferStep /\ UNCHANGED <<RelayVars, job, SignalVars, Adapters>>
       \/ part = "files" /\ T!Counted /\ T!FileStep /\ UNCHANGED <<RelayVars, job, SignalVars, Adapters>>
       \/ part = "tap" /\ T!Counted /\ T!TapStep /\ UNCHANGED <<RelayVars, job, SignalVars, Adapters>>
       \/ part = "relay" /\ R!Next /\ UNCHANGED <<StreamVars, job, SignalVars, Adapters>>
       \/ part = "codecs" /\ C!Next /\ UNCHANGED <<StreamVars, RelayVars, SignalVars, Adapters>>
       \/ part = "signals" /\ Next /\ UNCHANGED <<StreamVars, RelayVars, job, Adapters>>
       \/ part = "openssl" /\ O!Next /\ UNCHANGED <<Library, SChannelVars>>
       \/ part = "schannel" /\ W!Next /\ UNCHANGED <<Library, TunnelVars>>
NetSpec == NetInit /\ [][NetNext]_<<part, Library, Adapters>>

\* The byte buffer holds what has been written and not read (Streams).
BufferIsQueue == part = "buffer" => T!BufferIsQueue
\* Memory streams answer as files do, and a tap hears all that passes (Streams).
BytesPass == part \in {"files", "tap"} => T!MemoryIsFile /\ T!TapHearsAll
\* The relay never sleeps on bytes that it could move (Relay).
RelayMoves == part = "relay" => R!RelayMoves
\* What a codec puts into its buffer, it takes out again (Codecs).
RoundTrip == part = "codecs" => C!RoundTrip
\* utf8_encode leaves room for the terminator (Codecs).
Utf8LeavesRoom == part = "codecs" => C!Utf8LeavesRoom
\* What goes over the wire is in the order of the protocols (Tunnel).
WireInOrder == part = "openssl" => O!WireInOrder
\* The owner gets the server's payload and nothing of the negotiations (Tunnel).
GotIsPayload == part = "openssl" => O!GotIsPayload
\* The owner hears of a connection when TLS has been negotiated (Tunnel).
ConnectedMeansNegotiated == part = "openssl" => O!ConnectedMeansNegotiated
\* What can be read is told of, what waits to be sent will be (SChannel).
NothingForgotten == part = "schannel" => W!NothingForgotten
\* The owner gets the records in order, none lost or repeated (SChannel).
RecordsInOrder == part = "schannel" => W!RecordsInOrder
=============================================================================
