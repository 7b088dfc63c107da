---------------------------- MODULE ByteStream ------------------------------
(***************************************************************************)
(* One direction of a TCP connection between client and server, as far as  *)
(* framing is concerned.  The sender writes whole packets, each of which   *)
(* begins with its own size (BASE_PACKET); the network keeps the order of  *)
(* the bytes and cuts them anywhere.  A byte is known by its position in   *)
(* the stream, counted from 0.                                             *)
(*                                                                         *)
(* RecvStream (client to server) and Reassembly (server to client) extend  *)
(* this module by the two receivers.                                       *)
(***************************************************************************)
EXTENDS Integers, Sequences

CONSTANTS
  NumPackets,   \* packets the sender has to say; bound of the model
  PacketSizes,  \* sizes of packets (field size of BASE_PACKET)
  BufSize       \* BUF_SIZE

\* protocol.h: a packet is at least its two bytes of header, and every packet
\* structure fits into a buffer.
ASSUME SizeAssumption ==
  /\ NumPackets \in Nat
  /\ BufSize \in Nat \ {0}
  /\ PacketSizes \subseteq 2..BufSize

VARIABLES
  start,    \* where each packet begins in the stream; chosen once
  packets,  \* how many packets were written
  read      \* how many bytes the receiving side has taken

stream == <<start, packets, read>>

\* The cells of a buffer of the receiver, and one never written.
Cells == 0..(BufSize - 1)
Unset == -1

Packets == 1..NumPackets

\* Every way the packets can follow each other, one after the other without gaps.
Layouts ==
  {f \in [1..(NumPackets + 1) -> 0..(NumPackets * BufSize)] :
     /\ f[1] = 0
     /\ \A i \in Packets : f[i + 1] - f[i] \in PacketSizes
     /\ \A i, j \in 1..(NumPackets + 1) : i < j => f[i] < f[j]}

SizeOf(i) == start[i + 1] - start[i]

\* The bytes of packet i.
Bytes(i) == [k \in 1..SizeOf(i) |-> start[i] + k - 1]

\* BASE_PACKET::size read at byte b: the size of the packet that begins there;
\* inside a packet it is payload, whatever that holds.
Payload == 1
SizeAt(b) ==
  IF \E i \in Packets : start[i] = b
    THEN SizeOf(CHOOSE i \in Packets : start[i] = b)
    ELSE Payload

StreamTypes ==
  /\ start \in Layouts
  /\ packets \in 0..NumPackets
  /\ read \in Nat

StreamInit ==
  /\ start \in Layouts
  /\ packets = 0
  /\ read = 0

\* The sender writes its next packet: as many bytes as its size field says.
Send ==
  /\ packets < NumPackets
  /\ packets' = packets + 1
  /\ UNCHANGED <<start, read>>

\* Bytes on their way to the receiver.
Available == start[packets + 1] - read

\* The network hands over n bytes, at most limit, of those on their way.
Take(n, limit) ==
  /\ n <= limit
  /\ n <= Available
  /\ read' = read + n
  /\ UNCHANGED <<start, packets>>
=============================================================================
