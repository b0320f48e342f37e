---------------------------- MODULE FrameStream ----------------------------
(***************************************************************************)
(* The session's stream of bytes (_handleIncomingBytes and _parseStream of *)
(* libs/sony-protocol/src/SonyProtocolSession.cpp): frames are cut out of  *)
(* bytes that come in pieces of any size, with damaged frames and garbage  *)
(* among them.  A step of the parser is one round of its loop.             *)
(***************************************************************************)
EXTENDS FrameCodec

CONSTANTS
    Frames,         \* what the headphones send
    Garbage,        \* what else may come on the wire
    Changed,        \* what a byte may be changed to
    MaxChunk,       \* the size of the reader's buffer
    MaxFrames,      \* bound: frames sent
    MaxDamage       \* bound: damaged frames, or garbage, sent

ASSUME StreamAssumption ==
    /\ Frames \subseteq [type: Byte, sequence: Byte, payload: Seq(Byte)]
    /\ Garbage \subseteq Seq(Byte) /\ Changed \subseteq Byte
    /\ MaxChunk \in Nat \ {0} /\ MaxFrames \in Nat /\ MaxDamage \in Nat

VARIABLES
    wire,           \* bytes on their way to the host
    streamBuffer,
    parsing,        \* _parseStream is in its loop
    delivered,      \* frames handed to _handleDecodedFrame, in order
    sent,           \* history: frames sent whole, with where they end
    written,        \* history: bytes sent
    damage          \* history: damaged frames sent

vars == <<wire, streamBuffer, parsing, delivered, sent, written, damage>>

Init ==
    /\ wire = <<>> /\ streamBuffer = <<>> /\ parsing = FALSE
    /\ delivered = <<>> /\ sent = <<>> /\ written = 0 /\ damage = 0

-----------------------------------------------------------------------------
(* The headphones and the link (external).                                 *)

Write(bytes) ==
    /\ wire' = wire \o bytes /\ written' = written + Len(bytes)
    /\ UNCHANGED <<streamBuffer, parsing, delivered>>

Send(frame) ==
    /\ Len(sent) < MaxFrames /\ Encodable(frame)
    /\ Write(Encode(frame))
    /\ sent' = Append(sent, [frame |-> frame, end |-> written'])
    /\ UNCHANGED damage

\* A frame cut short, one that lacks a byte, or has one changed.
Damaged(bytes) ==
    LET Cut     == {SubSeq(bytes, 1, n) : n \in 1 .. Len(bytes) - 1}
        Lacking == {RemoveAt(bytes, i) : i \in DOMAIN bytes}
        Altered == {[bytes EXCEPT ![i] = b] : i \in DOMAIN bytes, b \in Changed}
    IN  (Cut \cup Lacking \cup Altered) \ {bytes}

SendDamaged ==
    /\ damage < MaxDamage
    /\ \E bytes \in Garbage \cup
                    UNION {Damaged(Encode(frame)) : frame \in Frames} :
          Write(bytes)
    /\ damage' = damage + 1
    /\ UNCHANGED sent

-----------------------------------------------------------------------------
(* The session's reader.                                                   *)

\* receive() returns some bytes, which are added to the buffer.
Receive(n) ==
    /\ ~parsing /\ parsing' = TRUE
    /\ n <= Len(wire)
    /\ streamBuffer' = streamBuffer \o SubSeq(wire, 1, n)
    /\ wire' = SubSeq(wire, n + 1, Len(wire))
    /\ UNCHANGED <<delivered, sent, written, damage>>

\* receive() times out, and is called again.
TimesOut == ~parsing /\ wire = <<>> /\ UNCHANGED vars

\* Where markers are in the buffer.
Places(markers) == {i \in DOMAIN streamBuffer : streamBuffer[i] \in markers}

Starts == Places({START_MARKER})

\* Mutant: only the end is looked for.
DelimitersEnd == Places({END_MARKER}) \ {1}

\* What may end the frame that starts the buffer, or cut it short.
Delimiters == Places({START_MARKER, END_MARKER}) \ {1}

IsFirst(i, places) == i \in places /\ \A j \in places : i <= j

\* The buffer from its i-th byte on.
From(i) == SubSeq(streamBuffer, i, Len(streamBuffer))

\* Without a START_MARKER the buffer is of no use.
Discard ==
    /\ parsing /\ Starts = {}
    /\ streamBuffer' = <<>> /\ parsing' = FALSE
    /\ UNCHANGED <<wire, delivered, sent, written, damage>>

\* The bytes before the first START_MARKER are dropped.
Align ==
    /\ parsing /\ 1 \notin Starts
    /\ \E i \in Starts : IsFirst(i, Starts) /\ streamBuffer' = From(i)
    /\ UNCHANGED <<wire, parsing, delivered, sent, written, damage>>

\* A frame that is cut short by another is dropped.
Restart ==
    /\ parsing /\ 1 \in Starts
    /\ \E i \in Starts : IsFirst(i, Delimiters) /\ streamBuffer' = From(i)
    /\ UNCHANGED <<wire, parsing, delivered, sent, written, damage>>

\* Mutant: a buffer that is full is kept as it is.
TrimmedNever(buffer) == buffer

\* A frame that does not end loses its START_MARKER, and thereby all.
Trimmed(buffer) ==
    IF Len(buffer) > 2 * MAX_FRAME_SIZE THEN Tail(buffer) ELSE buffer

\* The rest of the frame is yet to come.
Await ==
    /\ parsing /\ 1 \in Starts /\ Delimiters = {}
    /\ streamBuffer' = Trimmed(streamBuffer) /\ parsing' = FALSE
    /\ UNCHANGED <<wire, delivered, sent, written, damage>>

\* A frame is cut out, and dropped if it cannot be decoded.
Extract ==
    /\ parsing /\ 1 \in Starts
    /\ \E i \in Delimiters \ Starts :
          /\ IsFirst(i, Delimiters)
          /\ LET slice == SubSeq(streamBuffer, 1, i) IN
             delivered' = IF Decodable(slice)
                          THEN Append(delivered, Decode(slice)) ELSE delivered
          /\ streamBuffer' = From(i + 1)
    /\ UNCHANGED <<wire, parsing, sent, written, damage>>

Parse == Discard \/ Align \/ Restart \/ Await \/ Extract

Next ==
    \/ (\E frame \in Frames : Send(frame)) \/ SendDamaged
    \/ (\E n \in 1 .. MaxChunk : Receive(n)) \/ TimesOut \/ Parse

Spec == Init /\ [][Next]_vars

\* The reader runs, and receives what has come.
FairSpec ==
    Spec /\ WF_vars(Parse) /\ WF_vars(\E n \in 1 .. MaxChunk : Receive(n))

-----------------------------------------------------------------------------
\* The buffer is bounded whatever comes, though a buffer that is too long
\* loses but one byte at a time.
BufferBounded ==
    Len(streamBuffer) <= 2 * MAX_FRAME_SIZE + 2 * MaxChunk

\* The frames sent whole whose last byte has come.
Arrived == {i \in DOMAIN sent : sent[i].end <= written - Len(wire)}

\* At these places among the frames delivered are those sent whole, in order.
Keeps(place) ==
    /\ \A i \in Arrived : delivered[place[i]] = sent[i].frame
    /\ \A i, j \in Arrived : i < j => place[i] < place[j]

\* Every frame sent whole is delivered, in order, as soon as its last byte has
\* come: however the stream came in pieces, whatever else was on the wire, and
\* if some of that was taken for a frame, too.
NothingLost ==
    ~parsing => \E place \in [Arrived -> DOMAIN delivered] : Keeps(place)

\* Frames that nobody sent and that the garbage spells out all the same.
Forgeries == {Decode(bytes) : bytes \in {g \in Garbage : Decodable(g)}}

\* Nothing else is delivered, either: each frame sent whole once, in order, and
\* nothing that damage made of one; a frame that nobody sent only where the
\* garbage is one, markers, length and checksum.
ExactlyWhole ==
    ~parsing => \E place \in [Arrived -> DOMAIN delivered] :
        /\ Keeps(place)
        /\ \A k \in DOMAIN delivered :
              delivered[k] \in Forgeries \/ \E i \in Arrived : place[i] = k

\* The parser comes to an end and every whole frame through, whatever
\* surrounds it.
Delivers ==
    \A n \in 1 .. MaxFrames :
        Len(sent) >= n
        ~> Cardinality({k \in DOMAIN delivered : delivered[k] \in Frames}) >= n
=============================================================================
