--------------------------- MODULE MCFrameStream ---------------------------
(* A small instance of FrameStream for TLC: an ACK, and a frame with a     *)
(* marker in the payload and another for its checksum.                     *)
EXTENDS FrameStream
Ack == [type |-> 1, sequence |-> 1, payload |-> <<>>]
Escapes == [type |-> 12, sequence |-> 0, payload |-> <<61, 242>>]
AckAndEscapes == {Ack, Escapes}
Unending == <<62>> \o [i \in 1 .. 40 |-> 0]
\* A frame without an end, the end of one cut in two, and a frame that nobody
\* sent.
Noise == {Unending, <<61, 60>>, Encode([Ack EXCEPT !.sequence = 0])}
=============================================================================
