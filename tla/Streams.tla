------------------------------ MODULE Streams ------------------------------
(***************************************************************************)
(* QyByteBuffer (qybytebuffer.cc) and the synchronous streams (qystream.cc, *)
(* qystreamutils.cc): memory, string, file and null streams, the tap and    *)
(* the counter around a stream, and flowStream.  A stream is a record; a    *)
(* call returns a result, what was moved and the next record.  The C        *)
(* library's files are modelled by what the file stream uses of them.       *)
(***************************************************************************)
EXTENDS Integers, Sequences, SequencesExt, FiniteSetsExt

CONSTANTS
    Bytes,          \* the values of a byte
    BufSize,        \* QyByteBuffer's first size (DEFAULT_SIZE, 2048 in the code)
    Round,          \* a memory stream grows to multiples of it (256)
    MaxCalls, MaxChunk

VARIABLES
    buf, queue,     \* a byte buffer, and the bytes it should hold
    mem, file,      \* a memory stream and a file that are called alike
    same,           \* they have answered alike
    tapped, copied, \* a stream with a tap and a counter, and what went through it
    calls

vars == <<buf, queue, mem, file, same, tapped, copied, calls>>

Chunks == UNION {[1 .. n -> Bytes] : n \in 0 .. MaxChunk}
Junk(n) == [i \in 1 .. n |-> 0]
\* The bytes s with val put at offset at, as far as s goes.
Put(s, at, val) == [i \in DOMAIN s |-> IF i > at /\ i <= at + Len(val) THEN val[i - at] ELSE s[i]]
----------------------------------------------------------------------------
(* The byte buffer: mBytes, mStart and mEnd; mSize is the length of mBytes. *)

ByteBuffer(bytes) == [mBytes |-> bytes, mStart |-> 0, mEnd |-> Len(bytes)]
EmptyBuffer == [mBytes |-> Junk(BufSize), mStart |-> 0, mEnd |-> 0]
Length(b) == b.mEnd - b.mStart
Capacity(b) == Len(b.mBytes) - b.mStart
Contents(b) == SubSeq(b.mBytes, b.mStart + 1, b.mEnd)

\* Mutant of Resize: the bytes that have been read stay in front.
ResizeInPlace(b, size) ==
    LET n == IF size > Len(b.mBytes) THEN Max({size, (3 * Len(b.mBytes)) \div 2}) ELSE size
    IN  [mBytes |-> SubSeq(b.mBytes \o Junk(n), 1, n), mStart |-> b.mStart, mEnd |-> Min({b.mEnd, n})]
\* Resize moves what is left to the front of a new block, half as large again at least.
Resize(b, size) ==
    LET n   == IF size > Len(b.mBytes) THEN Max({size, (3 * Len(b.mBytes)) \div 2}) ELSE size
        len == Min({Length(b), n})
    IN  [mBytes |-> SubSeq(SubSeq(Contents(b), 1, len) \o Junk(n), 1, n), mStart |-> 0, mEnd |-> len]

Grown(b, n) == IF Length(b) + n > Capacity(b) THEN Resize(b, Length(b) + n) ELSE b

WriteBytes(b, val) ==
    LET g == Grown(b, Len(val))
    IN  [g EXCEPT !.mBytes = Put(@, g.mEnd, val), !.mEnd = @ + Len(val)]

\* WriteBytes at an index into mBytes: over what is there, and behind it.
WriteBytesAt(b, index, val) ==
    LET l == Len(val) - (b.mEnd - index)
        g == Grown(b, l)
    IN  IF index >= b.mEnd THEN WriteBytes(b, val)
        ELSE IF l <= 0 THEN [b EXCEPT !.mBytes = Put(@, index, val)]
        ELSE [g EXCEPT !.mBytes = Put(@, index, val), !.mEnd = @ + l]

ReadBytes(b, len) == IF len > Length(b) THEN b ELSE [b EXCEPT !.mStart = @ + len]

Shift(b, size) ==
    IF size > Length(b) THEN b
    ELSE [mBytes |-> Put(b.mBytes, 0, SubSeq(b.mBytes, b.mStart + size + 1, b.mEnd)),
          mStart |-> 0, mEnd |-> Length(b) - size]

Clear(b) == [b EXCEPT !.mStart = 0, !.mEnd = 0]
----------------------------------------------------------------------------
(* The streams.  A call: its result r, the bytes read or the number written *)
(* (n), and the stream after it.                                            *)

Read(s, result, data, pos) == [r |-> result, data |-> data, s |-> [s EXCEPT !.pos = pos]]
Wrote(s, result, n) == [r |-> result, n |-> n, s |-> s]

\* QyMemoryStream: mBuffer (as long as mAllocatedLength), mDataLength, mSeekPosition.
MemoryStream(data) == [kind |-> "memory", mBuffer |-> data, len |-> Len(data), pos |-> 0]

MemRead(s, n) ==
    LET k == Min({n, s.len - s.pos})
    IN  IF s.pos >= s.len THEN Read(s, "EOS", <<>>, s.pos)
        ELSE Read(s, "SUCCESS", SubSeq(s.mBuffer, s.pos + 1, s.pos + k), s.pos + k)

\* Mutant of MemWrite: the length becomes the position.
MemWriteCuts(s, data) ==
    LET new == s.pos + Len(data)
        b   == IF new > Len(s.mBuffer) THEN s.mBuffer \o Junk(new - Len(s.mBuffer)) ELSE s.mBuffer
    IN  Wrote([s EXCEPT !.mBuffer = Put(b, s.pos, data), !.len = new, !.pos = new], "SUCCESS", Len(data))
\* write grows the buffer, to the next multiple or the double, and keeps the
\* mDataLength bytes that were there.
MemWrite(s, data) ==
    LET new   == s.pos + Len(data)
        alloc == Max({(new \div Round + 1) * Round, 2 * Len(s.mBuffer)})
        b     == IF new > Len(s.mBuffer) THEN SubSeq(SubSeq(s.mBuffer, 1, s.len) \o Junk(alloc), 1, alloc)
                 ELSE s.mBuffer
    IN  Wrote([s EXCEPT !.mBuffer = Put(b, s.pos, data), !.pos = new, !.len = Max({@, new})],
              "SUCCESS", Len(data))

MemSetPosition(s, at) == IF at <= s.len THEN [s EXCEPT !.pos = at] ELSE s
MemReserve(s, size) ==
    IF Len(s.mBuffer) >= size THEN s
    ELSE [s EXCEPT !.mBuffer = SubSeq(SubSeq(@, 1, s.len) \o Junk(size), 1, size)]

\* QyFileStream over a file of the C library; closed, it is at its end.
FileOpen(content) == [kind |-> "file", open |-> TRUE, content |-> content, pos |-> 0]
FileRead(s, n) ==
    LET k == Min({n, Len(s.content) - s.pos})
    IN  IF ~s.open \/ (k <= 0 /\ n > 0) THEN Read(s, "EOS", <<>>, s.pos)
        ELSE Read(s, "SUCCESS", SubSeq(s.content, s.pos + 1, s.pos + k), s.pos + k)
FileWrite(s, data) ==
    LET new == s.pos + Len(data)
        c   == s.content \o Junk(Max({0, new - Len(s.content)}))
    IN  IF ~s.open THEN Wrote(s, "EOS", 0)
        ELSE Wrote([s EXCEPT !.content = Put(c, s.pos, data), !.pos = new], "SUCCESS", Len(data))
FileSetPosition(s, at) == IF s.open THEN [s EXCEPT !.pos = at] ELSE s
FileClose(s) == [s EXCEPT !.open = FALSE]

\* QyStringStream reads at mReadPos and appends; on a const string it only reads.
StringStream(str, readOnly) == [kind |-> "string", mString |-> str, pos |-> 0, mReadOnly |-> readOnly]
StringRead(s, n) ==
    LET k == Min({n, Len(s.mString) - s.pos})
    IN  IF k = 0 THEN Read(s, "EOS", <<>>, s.pos)
        ELSE Read(s, "SUCCESS", SubSeq(s.mString, s.pos + 1, s.pos + k), s.pos + k)
StringWrite(s, data) ==
    IF s.mReadOnly THEN Wrote(s, "ERROR", 0) ELSE Wrote([s EXCEPT !.mString = @ \o data], "SUCCESS", Len(data))

\* QyNullStream takes everything and gives an error.
NullStream == [kind |-> "null", pos |-> 0]

SRead(s, n) ==
    CASE s.kind = "memory" -> MemRead(s, n)
      [] s.kind = "file"   -> FileRead(s, n)
      [] s.kind = "string" -> StringRead(s, n)
      [] s.kind = "null"   -> Read(s, "ERROR", <<>>, 0)
SWrite(s, data) ==
    CASE s.kind = "memory" -> MemWrite(s, data)
      [] s.kind = "file"   -> FileWrite(s, data)
      [] s.kind = "string" -> StringWrite(s, data)
      [] s.kind = "null"   -> Wrote(s, "SUCCESS", Len(data))

RECURSIVE writeAll(_, _)
writeAll(s, data) ==
    LET w == SWrite(s, data)
    IN  IF data = <<>> THEN Wrote(s, "SUCCESS", 0)
        ELSE IF w.r # "SUCCESS" THEN w
        ELSE writeAll(w.s, SubSeq(data, w.n + 1, Len(data)))

RECURSIVE readAll(_, _)
readAll(s, n) ==
    LET one == SRead(s, n)
        all == readAll(one.s, n - Len(one.data))
    IN  IF n = 0 THEN Read(s, "SUCCESS", <<>>, s.pos)
        ELSE IF one.r # "SUCCESS" THEN one
        ELSE [all EXCEPT !.data = one.data \o @]

\* readLine: up to the end of the line, or of the stream when there is something.
Newline == 10
RECURSIVE readLine(_, _)
readLine(s, line) ==
    LET one == SRead(s, 1)
    IN  IF one.r # "SUCCESS" \/ one.data[1] = Newline
        THEN [one EXCEPT !.r = IF line # <<>> THEN "SUCCESS" ELSE @, !.data = line]
        ELSE readLine(one.s, Append(line, one.data[1]))

\* The tap hears what has been read or written until it refuses something.
Tap(t, moved, result) ==
    LET w == writeAll(t.mTap, moved)
    IN  IF result = "SUCCESS" /\ t.mTapResult = "SUCCESS"
        THEN [t EXCEPT !.mTap = w.s, !.mTapResult = w.r] ELSE t
TapRead(t, n) ==
    LET one == SRead(t.stream, n)
    IN  [call |-> one, t |-> Tap([t EXCEPT !.stream = one.s], one.data, one.r)]
TapWrite(t, data) ==
    LET one == SWrite(t.stream, data)
    IN  [call |-> one, t |-> Tap([t EXCEPT !.stream = one.s], SubSeq(data, 1, one.n), one.r)]

\* The counter counts what has been moved.
Count(t, call, n) == IF call.r = "SUCCESS" THEN [t EXCEPT !.mCount = @ + n] ELSE t
CountRead(t, n)     == LET c == TapRead(t, n) IN [c EXCEPT !.t = Count(@, c.call, Len(c.call.data))]
CountWrite(t, data) == LET c == TapWrite(t, data) IN [c EXCEPT !.t = Count(@, c.call, c.call.n)]

\* flowStream fills its buffer, empties it into the sink, until the end.
RECURSIVE flowStream(_, _, _)
RECURSIVE Fill(_, _, _)
Fill(s, n, data) ==
    LET one == SRead(s, n)
    IN  IF n = 0 THEN [r |-> "SUCCESS", data |-> data, s |-> s]
        ELSE IF one.r # "SUCCESS" THEN [r |-> one.r, data |-> data, s |-> one.s]
        ELSE Fill(one.s, n - Len(one.data), data \o one.data)
flowStream(source, len, sink) ==
    LET f == Fill(source, len, <<>>)
        w == IF f.data = <<>> THEN SWrite(sink, <<>>) ELSE writeAll(sink, f.data)
    IN  IF f.r \notin {"SUCCESS", "EOS"} THEN [r |-> f.r, source |-> f.s, sink |-> sink]
        ELSE IF w.r # "SUCCESS" THEN [r |-> w.r, source |-> f.s, sink |-> w.s]
        ELSE IF f.r = "EOS" THEN [r |-> "SUCCESS", source |-> f.s, sink |-> w.s]
        ELSE flowStream(f.s, len, w.s)
----------------------------------------------------------------------------
Init ==
    /\ buf = EmptyBuffer /\ queue = <<>>
    /\ mem = MemoryStream(<<>>) /\ file = FileOpen(<<>>) /\ same = TRUE
    /\ tapped \in {[stream |-> StringStream(<<>>, FALSE), mTap |-> t, mTapResult |-> "SUCCESS", mCount |-> 0] :
                      t \in {StringStream(<<>>, FALSE), StringStream(<<>>, TRUE), NullStream}}
    /\ copied = <<>> /\ calls = 0

Counted == calls < MaxCalls /\ calls' = calls + 1
Files == <<mem, file, same>>
Taps == <<tapped, copied>>
Buffers == <<buf, queue>>

BufferWrites == \E v \in Chunks : buf' = WriteBytes(buf, v) /\ queue' = queue \o v
\* At an index: of a buffer nothing has been read from, as the code's users do.
BufferWritesAt ==
    /\ buf.mStart = 0
    /\ \E v \in Chunks, at \in 0 .. buf.mEnd :
         /\ buf' = WriteBytesAt(buf, at, v)
         /\ queue' = SubSeq(queue, 1, at) \o v \o SubSeq(queue, at + Len(v) + 1, Len(queue))
BufferReads ==
    \E n \in 1 .. MaxChunk : /\ buf' = ReadBytes(buf, n)
                             /\ queue' = IF n > Len(queue) THEN queue ELSE SubSeq(queue, n + 1, Len(queue))
BufferShifts ==
    \E n \in 1 .. MaxChunk : /\ buf' = Shift(buf, n)
                             /\ queue' = IF n > Len(queue) THEN queue ELSE SubSeq(queue, n + 1, Len(queue))
BufferClears == buf' = Clear(buf) /\ queue' = <<>>
BufferStep ==
    /\ BufferWrites \/ BufferWritesAt \/ BufferReads \/ BufferShifts \/ BufferClears
    /\ UNCHANGED <<Files, Taps>>

FilesWrite ==
    \E v \in Chunks \ {<<>>} : LET m == SWrite(mem, v) f == SWrite(file, v)
                               IN mem' = m.s /\ file' = f.s /\ same' = (m.r = f.r /\ m.n = f.n)
FilesRead ==
    \E n \in 1 .. MaxChunk + 1 : LET m == readAll(mem, n) f == readAll(file, n)
                                 IN mem' = m.s /\ file' = f.s /\ same' = (m.r = f.r /\ m.data = f.data)
FilesReadLine ==
    LET m == readLine(mem, <<>>) f == readLine(file, <<>>)
    IN  mem' = m.s /\ file' = f.s /\ same' = (m.r = f.r /\ m.data = f.data)
FilesSeek ==
    \E at \in 0 .. mem.len : mem' = MemSetPosition(mem, at) /\ file' = FileSetPosition(file, at) /\ UNCHANGED same
\* Closed and opened again; the memory stream is rewound.
FilesReopen == file' = FileOpen(FileClose(file).content) /\ mem' = MemSetPosition(mem, 0) /\ UNCHANGED same
FilesReserve == \E n \in 1 .. 2 * Round : mem' = MemReserve(mem, n) /\ UNCHANGED <<file, same>>
FileStep ==
    /\ FilesWrite \/ FilesRead \/ FilesReadLine \/ FilesSeek \/ FilesReopen \/ FilesReserve
    /\ UNCHANGED <<Buffers, Taps>>

TappedWrites == \E v \in Chunks : tapped' = CountWrite(tapped, v).t /\ copied' = copied \o v
TappedReads ==
    \E n \in 1 .. MaxChunk : LET c == CountRead(tapped, n) IN tapped' = c.t /\ copied' = copied \o c.call.data
TapStep == (TappedWrites \/ TappedReads) /\ UNCHANGED <<Buffers, Files>>

Next == Counted /\ (BufferStep \/ FileStep \/ TapStep)
Spec == Init /\ [][Next]_vars
----------------------------------------------------------------------------
\* A byte buffer holds what was written and is not yet read, whatever it has
\* grown, shifted and moved, and never writes past its block.
BufferIsQueue == buf.mEnd <= Len(buf.mBytes) /\ Contents(buf) = queue

\* A memory stream is a file: called alike, the two answer alike and hold the
\* same, whatever the one has allocated.
MemoryIsFile == same /\ SubSeq(mem.mBuffer, 1, mem.len) = file.content /\ mem.pos = file.pos

\* The tap and the counter have seen what went through, in order, until the tap
\* refused something; flowStream moves what is left of a stream, whole, through
\* a buffer of any length.
TapHearsAll ==
    /\ tapped.mCount = Len(copied)
    /\ tapped.mTapResult = "SUCCESS" /\ tapped.mTap.kind = "string" => tapped.mTap.mString = copied
    /\ \A len \in 1 .. 3 :
         LET f == flowStream(mem, len, StringStream(<<>>, FALSE))
         IN  f.r = "SUCCESS" /\ f.sink.mString = SubSeq(mem.mBuffer, mem.pos + 1, mem.len)
=============================================================================
