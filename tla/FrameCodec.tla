----------------------------- MODULE FrameCodec -----------------------------
(***************************************************************************)
(* FrameCodec (libs/sony-protocol/src/FrameCodec.cpp): frames as bytes on  *)
(* the wire, between markers that are escaped within.                      *)
(***************************************************************************)
EXTENDS Integers, SequencesExt

CONSTANT MAX_FRAME_SIZE     \* the longest frame that is written

\* A frame is short enough for the four bytes that its length has.
ASSUME CodecAssumption == MAX_FRAME_SIZE \in 1 .. 2^24

Byte == 0 .. 255

START_MARKER  == 62
END_MARKER    == 60
ESCAPE_MARKER == 61
MIN_BODY_SIZE == 7      \* type, sequence, four bytes of length, checksum

\* What each of the three is after an ESCAPE_MARKER.
EscapedAs == [b \in {END_MARKER, ESCAPE_MARKER, START_MARKER} |->
                 CASE b = END_MARKER    -> 44
                   [] b = ESCAPE_MARKER -> 45
                   [] b = START_MARKER  -> 46]

Escape(data) ==
    FlattenSeq([i \in DOMAIN data |->
        IF data[i] \in DOMAIN EscapedAs
        THEN <<ESCAPE_MARKER, EscapedAs[data[i]]>> ELSE <<data[i]>>])

\* unescape() throws when an ESCAPE_MARKER is the last byte, or is followed by
\* one that stands for nothing; another ESCAPE_MARKER is such a byte.
IsEscaped(data) ==
    \A i \in DOMAIN data :
        data[i] = ESCAPE_MARKER =>
            i < Len(data) /\ data[i + 1] \in Range(EscapedAs)

Unescape(data) ==
    LET Original(b) == CHOOSE m \in DOMAIN EscapedAs : EscapedAs[m] = b
    IN  FlattenSeq([i \in DOMAIN data |->
            CASE data[i] = ESCAPE_MARKER -> <<>>
              [] i > 1 /\ data[i - 1] = ESCAPE_MARKER -> <<Original(data[i])>>
              [] OTHER -> <<data[i]>>])

Checksum(data) == SumFunction(data) % 256

\* The length of the payload, the highest byte first.
Length(n) == <<(n \div 2^24) % 256, (n \div 2^16) % 256, (n \div 2^8) % 256,
               n % 256>>

LengthIn(body) ==
    body[3] * 2^24 + body[4] * 2^16 + body[5] * 2^8 + body[6]

Contents(frame) ==
    <<frame.type, frame.sequence>> \o Length(Len(frame.payload))
    \o frame.payload

Encode(frame) ==
    LET contents == Contents(frame)
    IN  <<START_MARKER>> \o Escape(Append(contents, Checksum(contents)))
        \o <<END_MARKER>>

\* encode() throws when the frame is too long once it is escaped.
Encodable(frame) == Len(Encode(frame)) <= MAX_FRAME_SIZE

\* Mutant: the checksum is not compared.
IsBodyUnchecked(body) ==
    /\ Len(body) >= MIN_BODY_SIZE
    /\ Len(body) >= 6 + LengthIn(body) + 1

\* A body that is long enough for the payload it declares, and the checksum.
\* Bytes after that are ignored.
IsBody(body) ==
    /\ Len(body) >= MIN_BODY_SIZE
    /\ Len(body) >= 6 + LengthIn(body) + 1
    /\ body[7 + LengthIn(body)] = Checksum(SubSeq(body, 1, 6 + LengthIn(body)))

\* The bytes between the markers.
Between(slice) == SubSeq(slice, 2, Len(slice) - 1)

\* decode() does not throw.
Decodable(slice) ==
    /\ Len(slice) >= 2
    /\ Head(slice) = START_MARKER /\ Last(slice) = END_MARKER
    /\ IsEscaped(Between(slice)) /\ IsBody(Unescape(Between(slice)))

Decode(slice) ==
    LET body == Unescape(Between(slice))
    IN  [type |-> body[1], sequence |-> body[2],
         payload |-> SubSeq(body, 7, 6 + LengthIn(body))]
=============================================================================
