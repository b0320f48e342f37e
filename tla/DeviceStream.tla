---------------------------- MODULE DeviceStream ----------------------------
(***************************************************************************)
(* What SonyProtocolSession promises about the data frames of one          *)
(* connection: each is accepted once, in the order the headphones sent     *)
(* them, whatever is retransmitted.  Frames are named by their rank.  The  *)
(* session acknowledges a frame before it records it, so the headphones    *)
(* may be two frames ahead.                                                *)
(***************************************************************************)
EXTENDS Naturals, Sequences

VARIABLES
    sent,       \* frames of this connection the headphones have sent
    taken       \* those the session has accepted

Init == sent = 0 /\ taken = <<>>

Send == sent < Len(taken) + 2 /\ sent' = sent + 1 /\ UNCHANGED taken

Take == /\ Len(taken) < sent
        /\ taken' = Append(taken, Len(taken) + 1)
        /\ UNCHANGED sent

\* A new connection.
Restart == sent' = 0 /\ taken' = <<>>

Next == Send \/ Take \/ Restart

Spec == Init /\ [][Next]_<<sent, taken>>
=============================================================================
