---------------------------- MODULE Reassembly ------------------------------
(***************************************************************************)
(* The client's side of framing: CPacketMgr::RecvPacket, called once a     *)
(* frame, reads what the socket has into a local buffer, and               *)
(* PacketReasemble collects packets in a static buffer that lives from one *)
(* call to the next.  A round of its loop is a step.                       *)
(***************************************************************************)
EXTENDS ByteStream

VARIABLES
  stage,    \* "frame": between two frames; "loop": in PacketReasemble
  net,      \* the local net_buf
  ptr,      \* offset of the local pointer ptr in net_buf
  io,       \* io_byte, the bytes of net_buf still to be taken
  inSize,   \* static in_packet_size
  saved,    \* static saved_packet_size
  pbuf,     \* static packet_buffer
  seen      \* the packets given to ProcessPacket, as the bytes in the buffer

client == <<stage, net, ptr, io, inSize, saved, pbuf, seen>>
clientVars == <<stream, client>>

\* Every variable has its type, and the code stays inside both buffers.
ClientTypes ==
  /\ StreamTypes
  /\ stage \in {"frame", "loop"}
  /\ net \in [Cells -> Int]
  /\ pbuf \in [Cells -> Int]
  /\ ptr \in Nat
  /\ io \in Nat
  /\ inSize \in 0..BufSize
  /\ saved \in Nat
  /\ ptr + io <= BufSize
  /\ saved <= inSize
  /\ seen \in Seq(Seq(Int))

-----------------------------------------------------------------------------
(* Faults: what an operation would be with one plausible mistake.          *)

SizeReadAgain == SizeAt(net[ptr])

CopiedToFront(n) ==
  [c \in Cells |-> IF c < n THEN net[ptr + c] ELSE pbuf[c]]

-----------------------------------------------------------------------------
(* What the loop computes first.                                           *)

\* in_packet_size after the first line of the loop: read from the next byte if
\* no packet is under way.
Size == IF inSize = 0 THEN SizeAt(net[ptr]) ELSE inSize

\* The bytes still missing from a packet of this size.
Missing(size) == size - saved


\* memcpy(packet_buffer + saved_packet_size, ptr, n).
Copied(n) ==
  [c \in Cells |->
     IF c \in saved..(saved + n - 1) THEN net[ptr + c - saved] ELSE pbuf[c]]

ClientInit ==
  /\ StreamInit
  /\ stage = "frame"
  /\ net = [c \in Cells |-> Unset]
  /\ ptr = 0
  /\ io = 0
  /\ inSize = 0
  /\ saved = 0
  /\ pbuf = [c \in Cells |-> Unset]
  /\ seen = <<>>

\* RecvPacket gets n bytes from the non-blocking socket.
RecvPacket(n) ==
  /\ stage = "frame"
  /\ Take(n, BufSize)
  /\ net' = [c \in Cells |-> IF c < n THEN read + c ELSE Unset]
  /\ ptr' = 0
  /\ io' = n
  /\ stage' = "loop"
  /\ UNCHANGED <<inSize, saved, pbuf, seen>>

\* The packet is complete: it is processed and the next one begins.
Process ==
  /\ stage = "loop"
  /\ io > 0
  /\ io + saved >= Size
  /\ pbuf' = Copied(Missing(Size))
  /\ seen' = Append(seen, [k \in 1..Size |-> pbuf'[k - 1]])
  /\ ptr' = ptr + Missing(Size)
  /\ io' = io - Missing(Size)
  /\ inSize' = 0
  /\ saved' = 0
  /\ UNCHANGED <<stream, stage, net>>

\* It is not: what there is of it is saved.
Save ==
  /\ stage = "loop"
  /\ io > 0
  /\ io + saved < Size
  /\ pbuf' = Copied(io)
  /\ inSize' = Size
  /\ saved' = saved + io
  /\ io' = 0
  /\ UNCHANGED <<stream, stage, net, ptr, seen>>

Return ==
  /\ stage = "loop"
  /\ io = 0
  /\ stage' = "frame"
  /\ net' = [c \in Cells |-> Unset]
  /\ ptr' = 0
  /\ UNCHANGED <<stream, io, inSize, saved, pbuf, seen>>

ServerSends == Send /\ UNCHANGED client

ClientReceive == \E n \in 1..BufSize : RecvPacket(n)

ClientNext == ServerSends \/ ClientReceive \/ Process \/ Save \/ Return

\* The client reads its socket every frame, and its one thread goes on.
ClientFairness == WF_clientVars(ClientReceive) /\ WF_clientVars(Process) /\ WF_clientVars(Save) /\ WF_clientVars(Return)

ClientSafe == ClientInit /\ [][ClientNext]_clientVars
ClientSpec == ClientSafe /\ ClientFairness

-----------------------------------------------------------------------------
(* ProcessPacket is given the packets the server sent, byte for byte, in   *)
(* order, however the bytes arrive.                                        *)
SeenIntact ==
  /\ Len(seen) <= packets
  /\ \A i \in 1..Len(seen) : seen[i] = Bytes(i)

(* PacketReasemble turns the stream of bytes into the packets that were    *)
(* sent, and in the end into all of them.                                  *)
SeenNumber(i) == IF seen[i] = Bytes(i) THEN i ELSE 0

Reassembled == INSTANCE PacketStream WITH
  sent <- packets,
  delivered <- [i \in 1..Len(seen) |-> SeenNumber(i)]

ClientImplementsPacketStream == Reassembled!Spec
=============================================================================
