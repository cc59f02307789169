------------------------------- MODULE Codecs ------------------------------
(***************************************************************************)
(* The string codecs (qystringencode.cc).  Each copies its source into a    *)
(* buffer, a unit at a time, and stops where a unit and the terminator no   *)
(* longer fit.  A character is its code.                                    *)
(***************************************************************************)
EXTENDS Integers, Sequences, SequencesExt, FiniteSetsExt

CONSTANTS Atoms, MaxAtoms,  \* the sources are up to so many of these strings
          BufLens           \* the lengths of the buffers

VARIABLES job               \* a source, a codec and room; what was encoded and decoded again
vars == <<job>>

Escape == 92
Illegal == {38, 39}         \* what escape and encode are asked to replace

\* A step of a codec, of what is left of the source and the room: what it puts
\* out and how much it takes, or it stops.
Took(out, took) == [out |-> out, took |-> took]
Stop == Took(<<>>, 0)
\* Mutant of Unit: an escape may take the terminator's place.
UnitOver(out, took, room) == IF Len(out) > room THEN Stop ELSE Took(out, took)
Unit(out, took, room) == IF Len(out) >= room THEN Stop ELSE Took(out, took)

\* The digits 0-9 and a-f, and back.
hex_encode(val) == IF val < 10 THEN 48 + val ELSE 87 + val
hex_decode(ch)  == LET lower == IF ch \in 65 .. 90 THEN ch + 32 ELSE ch
                   IN  IF ch <= 57 THEN ch - 48 ELSE (lower - 97) + 10
Hex(ch) == <<hex_encode(ch \div 16), hex_encode(ch % 16)>>
Unhex(a, b) == (hex_decode(a) * 16 + hex_decode(b)) % 256

escape(s, room)   == Unit(IF s[1] = Escape \/ s[1] \in Illegal THEN <<Escape, s[1]>> ELSE <<s[1]>>, 1, room)
unescape(s, room) == IF s[1] = Escape /\ Len(s) > 1 THEN Unit(<<s[2]>>, 2, room) ELSE Unit(<<s[1]>>, 1, room)

encode(s, room) == Unit(IF s[1] = Escape \/ s[1] \in Illegal THEN <<Escape>> \o Hex(s[1]) ELSE <<s[1]>>, 1, room)
decode(s, room) ==
    IF s[1] = Escape /\ Len(s) > 2 THEN Unit(<<Unhex(s[2], s[3])>>, 3, room) ELSE Unit(<<s[1]>>, 1, room)

\* ASCII_CLASS: controls and some signs are unsafe in a URL.
UrlUnsafe(ch) ==
    \/ ch \in 0 .. 32 \/ ch \in {34, 35, 36, 37, 38, 43, 44, 47, 127}
    \/ ch \in 58 .. 64 \/ ch \in 91 .. 94 \/ ch \in {96, 123, 124, 125}
url_encode(s, room) == Unit(IF UrlUnsafe(s[1]) THEN <<37>> \o Hex(s[1]) ELSE <<s[1]>>, 1, room)
url_decode(s, room) ==
    CASE s[1] = 43 -> Unit(<<32>>, 1, room)
      [] s[1] = 37 /\ Len(s) > 2 -> Unit(<<Unhex(s[2], s[3])>>, 3, room)
      [] OTHER -> Unit(<<s[1]>>, 1, room)

hex_encode_all(s, room) == Unit(Hex(s[1]), 1, room)
hex_decode_all(s, room) == IF Len(s) < 2 THEN Stop ELSE Unit(<<Unhex(s[1], s[2])>>, 2, room)

\* UTF-8: as many trailers as the first byte asks for, or nothing is taken.
Trailer(s, i) == Len(s) >= i /\ s[i] \div 64 = 2
utf8_decode(s) ==
    CASE s[1] < 128 -> [took |-> 1, value |-> s[1]]
      [] s[1] \div 32 = 6 /\ Trailer(s, 2) -> [took |-> 2, value |-> (s[1] % 32) * 64 + (s[2] % 64)]
      [] s[1] \div 16 = 14 /\ Trailer(s, 2) /\ Trailer(s, 3) ->
            [took |-> 3, value |-> ((s[1] % 16) * 64 + (s[2] % 64)) * 64 + (s[3] % 64)]
      [] s[1] \div 8 = 30 /\ Trailer(s, 2) /\ Trailer(s, 3) /\ Trailer(s, 4) ->
            [took |-> 4, value |-> (((s[1] % 8) * 64 + (s[2] % 64)) * 64 + (s[3] % 64)) * 64 + (s[4] % 64)]
      [] OTHER -> [took |-> 0, value |-> 0]

utf8_encode(room, v) ==
    LET tail(n) == 128 + ((v \div n) % 64)
        e == CASE v < 128   -> <<v>>
               [] v \in 128 .. 2047    -> <<192 + v \div 64, tail(1)>>
               [] v \in 2048 .. 65535  -> <<224 + v \div 4096, tail(64), tail(1)>>
               [] v \in 65536 .. 2097151 -> <<240 + v \div 262144, tail(4096), tail(64), tail(1)>>
               [] OTHER -> <<>>
    IN  IF Len(e) > room THEN <<>> ELSE e

\* The five signs of XML: as entities, but for the apostrophe of html_encode.
Entity(ch) == CASE ch = 60 -> <<38, 108, 116, 59>>
                [] ch = 62 -> <<38, 103, 116, 59>>
                [] ch = 39 -> <<38, 97, 112, 111, 115, 59>>
                [] ch = 34 -> <<38, 113, 117, 111, 116, 59>>
                [] ch = 38 -> <<38, 97, 109, 112, 59>>
Signs == {60, 62, 39, 34, 38}

RECURSIVE Decimal(_)
Decimal(n) == IF n < 10 THEN <<48 + n>> ELSE Append(Decimal(n \div 10), 48 + (n % 10))
Number(v) == <<38, 35>> \o Decimal(v) \o <<59>>

html_encode(s, room) ==
    LET u == utf8_decode(s)
    IN  CASE s[1] < 128 -> Unit(IF s[1] = 39 THEN Number(39) ELSE IF s[1] \in Signs THEN Entity(s[1]) ELSE <<s[1]>>, 1, room)
          [] s[1] >= 128 -> IF u.took > 0 THEN Unit(Number(u.value), u.took, room) ELSE Unit(Number(s[1]), 1, room)
xml_encode(s, room) == Unit(IF s[1] \in Signs THEN Entity(s[1]) ELSE <<s[1]>>, 1, room)

\* strtoul: the value of the digits from i on, and where they end.
RECURSIVE Strtoul(_, _, _, _)
Strtoul(s, i, base, v) ==
    LET digit == i <= Len(s) /\ (s[i] \in 48 .. 57 \/ (base = 16 /\ s[i] \in 97 .. 102))
    IN  IF digit THEN Strtoul(s, i + 1, base, v * base + hex_decode(s[i])) ELSE [value |-> v, end |-> i]

\* An entity, a number in either base, or a character; anything else ends it.
\* The bytes of a number may fill the terminator's place too.
xml_decode(s, room) ==
    LET base == IF Len(s) > 2 /\ s[3] = 120 THEN 16 ELSE 10
        n    == Strtoul(s, IF base = 16 THEN 4 ELSE 3, base, 0)
        bytes == utf8_encode(room, n.value)
        known == {ch \in Signs : IsPrefix(Entity(ch), s)}
    IN  CASE s[1] # 38 -> Unit(<<s[1]>>, 1, room)
          [] known # {} -> Unit(SetToSeq(known), Len(Entity(CHOOSE ch \in known : TRUE)), room)
          [] IsPrefix(<<38, 35>>, s) ->
                IF n.end <= Len(s) /\ s[n.end] = 59 /\ bytes # <<>> THEN Took(bytes, n.end) ELSE Stop
          [] OTHER -> Stop
----------------------------------------------------------------------------
Sources == {FlattenSeq(a) : a \in UNION {[1 .. n -> Atoms] : n \in 0 .. MaxAtoms}}
Codecs == {"escape", "encode", "url", "hex", "html", "xml"}

\* Of a URL, s_transform asks how long the buffer must be.
Lengths(codec, s, encoding) ==
    IF codec # "url" THEN BufLens ELSE BufLens \union {IF encoding THEN 3 * Len(s) + 1 ELSE Len(s) + 1}

Step(codec, encoding, s, room) ==
    CASE codec = "escape" -> IF encoding THEN escape(s, room) ELSE unescape(s, room)
      [] codec = "encode" -> IF encoding THEN encode(s, room) ELSE decode(s, room)
      [] codec = "url"    -> IF encoding THEN url_encode(s, room) ELSE url_decode(s, room)
      [] codec = "hex"    -> IF encoding THEN hex_encode_all(s, room) ELSE hex_decode_all(s, room)
      [] codec = "html"   -> IF encoding THEN html_encode(s, room) ELSE xml_decode(s, room)
      [] codec = "xml"    -> IF encoding THEN xml_encode(s, room) ELSE xml_decode(s, room)

RECURSIVE Run(_, _, _, _)
Run(codec, encoding, s, room) ==
    LET u == Step(codec, encoding, s, room)
    IN  IF s = <<>> \/ room < 2 \/ u.took = 0 THEN <<>>
        ELSE u.out \o Run(codec, encoding, SubSeq(s, u.took + 1, Len(s)), room - Len(u.out))

New(codec, s) == [codec |-> codec, source |-> s, phase |-> "new", room |-> 0, out |-> <<>>, back |-> <<>>]
Init == job \in {New(c, s) : c \in Codecs, s \in Sources}
Encode ==
    /\ job.phase = "new"
    /\ \E n \in Lengths(job.codec, job.source, TRUE) :
         job' = [job EXCEPT !.phase = "encoded", !.room = n, !.out = Run(job.codec, TRUE, job.source, n)]
Decode ==
    /\ job.phase = "encoded"
    /\ job' = [job EXCEPT !.phase = "decoded", !.back = Run(job.codec, FALSE, job.out, Len(job.out) + 1)]
\* Any source may be decoded.
DecodeAny ==
    /\ job.phase = "new"
    /\ \E n \in Lengths(job.codec, job.source, FALSE) :
         job' = [job EXCEPT !.phase = "any", !.room = n, !.back = Run(job.codec, FALSE, job.source, n)]
Next == Encode \/ Decode \/ DecodeAny
Spec == Init /\ [][Next]_vars
----------------------------------------------------------------------------
\* UTF-8 throughout, each character in its shortest form.
RECURSIVE Utf8(_)
Utf8(s) == s = <<>> \/ LET u == utf8_decode(s)
                      IN  /\ u.took > 0 /\ Len(utf8_encode(4, u.value)) = u.took
                          /\ Utf8(SubSeq(s, u.took + 1, Len(s)))

\* What is encoded is decoded to the source, or, where the room did not suffice,
\* to its beginning: no unit is cut in two, no character is taken for an escape.
\* The room that s_transform gives is enough.  A terminator always fits.
RoundTrip ==
    /\ job.phase \in {"encoded", "any"} /\ (job.phase = "encoded" \/ job.codec \notin {"html", "xml"}) =>
           Len(job.out) < job.room /\ Len(job.back) < job.room
    /\ job.phase = "decoded" /\ (job.codec = "html" => Utf8(job.source)) =>
           /\ IsPrefix(job.back, job.source)
           /\ job.room > 10 * Len(job.source) \/ (job.codec = "url" /\ job.room = 3 * Len(job.source) + 1) =>
                  job.back = job.source

\* utf8_encode leaves room for the terminator (qystringencode.h:18-19), so that
\* what xml_decode puts out, numbers too, ends within its buffer.
Utf8LeavesRoom == job.phase = "any" => Len(job.back) < job.room
=============================================================================
