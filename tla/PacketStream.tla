--------------------------- MODULE PacketStream -----------------------------
(***************************************************************************)
(* What framing promises: the packets handed to the program are the        *)
(* packets that were sent, whole, in order, each once and none invented,   *)
(* however the network cuts the stream; and all of them arrive in the end. *)
(* RecvStream and Reassembly implement it.                                 *)
(***************************************************************************)
EXTENDS Integers, Sequences

CONSTANT NumPackets

VARIABLES
  sent,       \* how many packets were sent
  delivered   \* the packets handed over, by number

Init ==
  /\ sent = 0
  /\ delivered = <<>>

Send ==
  /\ sent < NumPackets
  /\ sent' = sent + 1
  /\ UNCHANGED delivered

Deliver ==
  /\ Len(delivered) < sent
  /\ delivered' = Append(delivered, Len(delivered) + 1)
  /\ UNCHANGED sent

Next == Send \/ Deliver

Safe == Init /\ [][Next]_<<sent, delivered>>
Spec == Safe /\ WF_<<sent, delivered>>(Deliver)
=============================================================================
