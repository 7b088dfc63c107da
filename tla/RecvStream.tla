---------------------------- MODULE RecvStream ------------------------------
(***************************************************************************)
(* The server's side of framing: the receive posted by CSession::RecvPacket*)
(* and the loop of CNetworkMgr::Recv that turns what came into jobs.  A    *)
(* session has one receive outstanding, so one IOCP thread at a time runs  *)
(* Recv for it; each round of the loop is a step here.                     *)
(*                                                                         *)
(* The buffer is that of m_recvOver, cell by cell; a cell holds a byte of  *)
(* the stream or what was there before.                                    *)
(***************************************************************************)
EXTENDS ByteStream

VARIABLES
  buf,      \* COverlapEx::m_send_buf of the session's m_recvOver
  window,   \* the WSABUF of the receive: offset in the buffer, and length
  remain,   \* m_remainBufSize
  phase,    \* "armed": a receive is outstanding; "parse": in the loop of Recv
  packet,   \* offset of the local pointer packet
  data,     \* local remain_data
  jobs      \* the packets posted to the job queue, as the bytes copied

receiver == <<buf, window, remain, phase, packet, data, jobs>>
vars == <<stream, receiver>>

\* Every variable has its type, and the code stays inside the buffer.
TypeOK ==
  /\ StreamTypes
  /\ buf \in [Cells -> Int]
  /\ window \in [offset : Nat, length : Nat]
  /\ window.offset + window.length <= BufSize
  /\ remain \in 0..BufSize
  /\ phase \in {"armed", "parse"}
  /\ packet \in Nat
  /\ data \in Nat
  /\ packet + data <= BufSize
  /\ jobs \in Seq(Seq(Int))

-----------------------------------------------------------------------------
(* Faults: what an operation would be with one plausible mistake.          *)

WindowAtFront(r) == [offset |-> 0, length |-> BufSize - r]

WholeBuffer(r) == [offset |-> r, length |-> BufSize]

CompleteStrictly == data > 0 /\ SizeAt(buf[packet]) < data

LeftoverInPlace == buf

-----------------------------------------------------------------------------
(* CSession::RecvPacket: the next bytes go behind those left over.         *)
Window(r) == [offset |-> r, length |-> BufSize - r]

Init ==
  /\ StreamInit
  /\ buf = [c \in Cells |-> Unset]
  /\ window = Window(0)
  /\ remain = 0
  /\ phase = "armed"
  /\ packet = 0
  /\ data = 0
  /\ jobs = <<>>

\* The receive completes with n bytes; Recv starts at the front of the buffer.
\* (No bytes at all would be the end of the connection, IOCPFunc.)
Complete(n) ==
  /\ phase = "armed"
  /\ Take(n, window.length)
  /\ buf' = [c \in Cells |->
               IF c \in window.offset..(window.offset + n - 1)
                 THEN read + c - window.offset
                 ELSE buf[c]]
  /\ data' = n + remain
  /\ packet' = 0
  /\ phase' = "parse"
  /\ UNCHANGED <<window, remain, jobs>>

\* The condition of the loop and the test in it.
Whole == data > 0 /\ SizeAt(buf[packet]) <= data

\* A whole packet: it is copied and posted as a job.
PostPacket ==
  /\ phase = "parse"
  /\ Whole
  /\ LET size == SizeAt(buf[packet]) IN
       /\ jobs' = Append(jobs, [k \in 1..size |-> buf[packet + k - 1]])
       /\ packet' = packet + size
       /\ data' = data - size
  /\ UNCHANGED <<stream, buf, window, remain, phase>>

\* The memcpy of the leftover to the front of the buffer.
Leftover ==
  [c \in Cells |-> IF c < data THEN buf[packet + c] ELSE buf[c]]

\* The rest is kept for the next completion and the receive posted again.
Rearm ==
  /\ phase = "parse"
  /\ ~Whole
  /\ remain' = data
  /\ buf' = Leftover
  /\ window' = Window(data)
  /\ phase' = "armed"
  /\ packet' = 0
  /\ data' = 0
  /\ UNCHANGED <<stream, jobs>>

SendPacket == Send /\ UNCHANGED receiver

Receive == \E n \in 1..BufSize : Complete(n)

Next == SendPacket \/ Receive \/ PostPacket \/ Rearm

\* The network delivers what was sent, and an IOCP thread that has a completion
\* in hand goes on.
Fairness == WF_vars(Receive) /\ WF_vars(PostPacket) /\ WF_vars(Rearm)

Safe == Init /\ [][Next]_vars
Spec == Safe /\ Fairness

-----------------------------------------------------------------------------
(* The receive posted always has room: a receive of length 0 would complete*)
(* with 0 bytes, which IOCPFunc takes for the end of the connection        *)
(* (CNetworkMgr.cpp:129).  It holds because no packet is larger than the   *)
(* buffer, and only if every whole packet is taken out before.             *)
ReceiveHasRoom == phase = "armed" => window.length > 0

(* The jobs posted are the packets sent, byte for byte, in order, however  *)
(* the bytes arrive.                                                       *)
PacketsIntact ==
  /\ Len(jobs) <= packets
  /\ \A i \in 1..Len(jobs) : jobs[i] = Bytes(i)

(* Recv turns the stream of bytes into the packets that were sent, and in  *)
(* the end into all of them.                                               *)
Number(i) == IF jobs[i] = Bytes(i) THEN i ELSE 0

Framing == INSTANCE PacketStream WITH
  sent <- packets,
  delivered <- [i \in 1..Len(jobs) |-> Number(i)]

ImplementsPacketStream == Framing!Spec
=============================================================================
