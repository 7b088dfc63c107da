--------------------------- MODULE FramingProofs ----------------------------
(***************************************************************************)
(* Proofs about RecvStream and Reassembly, for any number of packets, any  *)
(* sizes that fit the buffer and any cutting of the stream: both receivers *)
(* stay inside their buffers, hand over the packets that were sent, and    *)
(* implement the safety part of PacketStream.                              *)
(***************************************************************************)
EXTENDS RecvStream, Reassembly, TLAPS

Got == Len(jobs)

\* Where the first packet not yet posted begins.
Base == start[Got + 1]

\* n cells from offset on hold the stream from that packet on, and that is all
\* that was taken from the network and not posted.
Holds(offset, n) ==
  /\ read = Base + n
  /\ \A k \in 0..(n - 1) : buf[offset + k] = Base + k

ArmedInv ==
  phase = "armed" =>
    /\ window = Window(remain)
    /\ Holds(0, remain)
    /\ Got < NumPackets => remain < SizeOf(Got + 1)
    /\ Got = NumPackets => remain = 0

ParseInv == phase = "parse" => Holds(packet, data)

\* The inductive invariant.
FramingInv ==
  /\ TypeOK
  /\ PacketsIntact
  /\ read <= start[packets + 1]
  /\ ArmedInv
  /\ ParseInv

-----------------------------------------------------------------------------
\* The size read at the beginning of a packet is the size of that packet, and
\* lies within the bounds of a buffer.
LEMMA SizeLemma ==
  ASSUME start \in Layouts, NEW i \in Packets
  PROVE  /\ SizeAt(start[i]) = SizeOf(i)
         /\ SizeOf(i) \in PacketSizes
         /\ SizeOf(i) \in 2..BufSize
<1>1. /\ \A j \in Packets : start[j + 1] - start[j] \in PacketSizes
      /\ \A j, k \in 1..(NumPackets + 1) : j < k => start[j] < start[k]
      /\ start \in [1..(NumPackets + 1) -> 0..(NumPackets * BufSize)]
  BY DEF Layouts
<1>2. SizeOf(i) \in PacketSizes
  BY <1>1 DEF SizeOf
<1>3. SizeOf(i) \in 2..BufSize
  BY <1>2, SizeAssumption
<1>4. \A j \in Packets : start[j] = start[i] => j = i
  BY SMTT(30), <1>1, SizeAssumption DEF Packets
<1>5. (CHOOSE j \in Packets : start[j] = start[i]) = i
  BY <1>4
<1>6. SizeAt(start[i]) = SizeOf(i)
  BY <1>5 DEF SizeAt
<1> QED BY <1>2, <1>3, <1>6

\* Packets begin at numbers, later ones further on.
LEMMA StartLemma ==
  ASSUME start \in Layouts
  PROVE  /\ \A i \in 1..(NumPackets + 1) : start[i] \in Nat
         /\ \A i, j \in 1..(NumPackets + 1) : i < j => start[i] < start[j]
         /\ start[1] = 0
<1>1. start \in [1..(NumPackets + 1) -> 0..(NumPackets * BufSize)]
  BY DEF Layouts
<1>2. NumPackets * BufSize \in Nat
  BY SizeAssumption
<1> QED BY <1>1, <1>2, SizeAssumption DEF Layouts

\* In the loop, with bytes left: a packet begins at the pointer, and it is the
\* next one of those written.
LEMMA HeaderLemma ==
  ASSUME FramingInv, phase = "parse", data > 0
  PROVE  /\ Got + 1 \in Packets
         /\ Got + 1 <= packets
         /\ buf[packet] = Base
         /\ SizeAt(buf[packet]) = SizeOf(Got + 1)
<1>1. /\ start \in Layouts
      /\ packets \in 0..NumPackets
      /\ Got \in Nat
      /\ Got <= packets
      /\ data \in Nat
      /\ packet \in Nat
  BY DEF FramingInv, TypeOK, StreamTypes, PacketsIntact, Got
<1>2. Base + data <= start[packets + 1]
  BY DEF FramingInv, ParseInv, Holds
<1>3. Got < packets
  <2>1. Got + 1 \in 1..(NumPackets + 1) /\ packets + 1 \in 1..(NumPackets + 1)
    BY <1>1, SizeAssumption
  <2>2. start[Got + 1] < start[packets + 1]
    BY <1>1, <1>2, <2>1, StartLemma DEF Base
  <2>3. Got # packets
    BY <2>1, <2>2, <1>1, StartLemma
  <2> QED BY <2>3, <1>1
<1>4. Got + 1 \in Packets
  BY <1>1, <1>3, SizeAssumption DEF Packets
<1>5. 0 \in 0..(data - 1)
  BY <1>1
<1>6. buf[packet + 0] = Base + 0
  BY <1>5 DEF FramingInv, ParseInv, Holds
<1>7. Base \in Nat
  BY <1>4, <1>1, StartLemma, SizeAssumption DEF Base, Packets
<1>8. buf[packet] = Base
  BY <1>6, <1>7, <1>1
<1> QED BY <1>1, <1>3, <1>4, <1>8, SizeLemma DEF Base

LEMMA InitFraming == Init => FramingInv
<1> SUFFICES ASSUME Init PROVE FramingInv
  OBVIOUS
<1>1. start \in Layouts /\ packets = 0 /\ read = 0 /\ jobs = <<>> /\ Got = 0
  BY DEF Init, StreamInit, Got
<1>2. start[1] = 0
  BY <1>1, StartLemma
<1>3. TypeOK
  BY <1>1, SizeAssumption DEF Init, TypeOK, StreamTypes, Window, Cells, Unset
<1>4. PacketsIntact
  BY <1>1 DEF PacketsIntact
<1>5. ArmedInv
  <2>1. NumPackets > 0 => SizeOf(1) \in 2..BufSize
    BY <1>1, SizeLemma, SizeAssumption DEF Packets
  <2>2. Base = 0
    BY <1>1, <1>2 DEF Base
  <2> QED BY <1>1, <2>1, <2>2, SizeAssumption DEF ArmedInv, Init, Holds
<1>6. ParseInv
  BY DEF Init, ParseInv
<1>7. read <= start[packets + 1]
  BY <1>1, <1>2
<1> QED BY <1>3, <1>4, <1>5, <1>6, <1>7 DEF FramingInv

\* The sender writes: only the number of packets written changes.
LEMMA SendStep == FramingInv /\ SendPacket => FramingInv'
<1> SUFFICES ASSUME FramingInv, SendPacket PROVE FramingInv'
  OBVIOUS
<1>1. /\ start' = start /\ read' = read
      /\ packets' = packets + 1
      /\ packets < NumPackets
      /\ buf' = buf /\ window' = window /\ remain' = remain /\ phase' = phase
      /\ packet' = packet /\ data' = data /\ jobs' = jobs
  BY DEF SendPacket, Send, receiver
<1>2. TypeOK /\ packets \in 0..NumPackets /\ start \in Layouts /\ read \in Nat
  BY DEF FramingInv, TypeOK, StreamTypes
<1>3. TypeOK'
  BY <1>1, <1>2, SizeAssumption DEF TypeOK, StreamTypes, Cells
<1>4. PacketsIntact'
  BY <1>1, <1>2 DEF FramingInv, PacketsIntact, Bytes, SizeOf
<1>5. ArmedInv' /\ ParseInv'
  BY <1>1 DEF FramingInv, ArmedInv, ParseInv, Holds, Base, Got, Window, SizeOf
<1>6. (read <= start[packets + 1])'
  <2>1. packets + 1 \in 1..(NumPackets + 1) /\ packets + 2 \in 1..(NumPackets + 1)
    BY <1>1, <1>2, SizeAssumption
  <2>2. start[packets + 1] < start[packets + 2]
    BY <1>2, <2>1, StartLemma
  <2>3. start[packets + 1] \in Nat /\ start[packets + 2] \in Nat
    BY <1>2, <2>1, StartLemma
  <2>4. packets' + 1 = packets + 2
    BY <1>1, <1>2
  <2>5. read <= start[packets + 1]
    BY DEF FramingInv
  <2> QED BY <1>1, <1>2, <2>2, <2>3, <2>4, <2>5
<1> QED BY <1>3, <1>4, <1>5, <1>6 DEF FramingInv

\* A receive completes: the bytes land behind those left over.
LEMMA CompleteStep ==
  ASSUME FramingInv, NEW n \in 1..BufSize, Complete(n)
  PROVE  FramingInv'
<1>1. /\ phase = "armed" /\ phase' = "parse"
      /\ n <= window.length
      /\ n <= Available
      /\ read' = read + n
      /\ start' = start /\ packets' = packets
      /\ data' = n + remain /\ packet' = 0
      /\ window' = window /\ remain' = remain /\ jobs' = jobs
  BY DEF Complete, Take
<1>2. buf' = [c \in Cells |->
               IF c \in window.offset..(window.offset + n - 1)
                 THEN read + c - window.offset
                 ELSE buf[c]]
  BY DEF Complete
<1>3. /\ packets \in 0..NumPackets /\ start \in Layouts /\ read \in Nat
      /\ remain \in 0..BufSize /\ n \in Nat /\ n > 0
      /\ jobs \in Seq(Seq(Int)) /\ buf \in [Cells -> Int]
      /\ BufSize \in Nat
  BY SizeAssumption DEF FramingInv, TypeOK, StreamTypes
<1>4. /\ window = Window(remain)
      /\ read = Base + remain
      /\ \A k \in 0..(remain - 1) : buf[k] = Base + k
  <2>1. Holds(0, remain) /\ window = Window(remain)
    BY <1>1 DEF FramingInv, ArmedInv
  <2>2. \A k \in 0..(remain - 1) : 0 + k = k
    BY <1>3
  <2> QED BY <2>1, <2>2 DEF Holds
<1>5. window.offset = remain /\ window.length = BufSize - remain
  BY <1>4 DEF Window
<1>6. Base \in Nat
  <2>1. Got + 1 \in 1..(NumPackets + 1)
    BY <1>3, SizeAssumption DEF Got, FramingInv, PacketsIntact
  <2> QED BY <2>1, <1>3, StartLemma DEF Base
<1>7. TypeOK'
  <2>1. buf' \in [Cells -> Int]
    <3>1. \A c \in Cells : read + c - window.offset \in Int
      BY <1>3, <1>5 DEF Cells
    <3>2. \A c \in Cells : buf[c] \in Int
      BY <1>3
    <3> QED BY <1>2, <3>1, <3>2
  <2>2. n + remain \in Nat /\ 0 + (n + remain) <= BufSize
    BY <1>1, <1>3, <1>5
  <2>3. read + n \in Nat
    BY <1>3
  <2> QED BY <2>1, <2>2, <2>3, <1>1 DEF FramingInv, TypeOK, StreamTypes, Cells
<1>8. PacketsIntact'
  BY <1>1 DEF FramingInv, PacketsIntact, Bytes, SizeOf
<1>9. (read <= start[packets + 1])'
  <2>1. start[packets + 1] \in Nat
    BY <1>3, StartLemma, SizeAssumption
  <2> QED BY <1>1, <1>3, <2>1 DEF Available
<1>10. ArmedInv'
  BY <1>1 DEF ArmedInv
<1>11. ParseInv'
  <2>1. Base' = Base
    BY <1>1 DEF Base, Got
  <2>2. read' = Base + data'
    BY <1>1, <1>3, <1>4, <1>6
  <2>3. ASSUME NEW k \in 0..(n + remain - 1) PROVE buf'[0 + k] = Base + k
    <3>1. k \in Cells /\ 0 + k = k
      BY <1>1, <1>3, <1>5 DEF Cells
    <3>2. CASE k < remain
      <4>1. k \in 0..(remain - 1) /\ k \notin window.offset..(window.offset + n - 1)
        BY <3>2, <1>3, <1>5
      <4>2. buf'[k] = buf[k]
        BY <1>2, <3>1, <4>1
      <4> QED BY <3>1, <4>1, <4>2, <1>4
    <3>3. CASE ~(k < remain)
      <4>1. k \in window.offset..(window.offset + n - 1)
        BY <3>3, <1>3, <1>5
      <4>2. buf'[k] = read + k - window.offset
        BY <1>2, <3>1, <4>1
      <4> QED BY <3>1, <4>2, <1>3, <1>4, <1>5, <1>6
    <3> QED BY <3>2, <3>3
  <2>4. \A k \in 0..(n + remain - 1) : buf'[0 + k] = Base + k
    BY <2>3
  <2>5. data' - 1 = n + remain - 1
    BY <1>1, <1>3
  <2>6. \A k \in 0..(data' - 1) : buf'[packet' + k] = Base + k
    BY <2>4, <2>5, <1>1
  <2> QED BY <2>1, <2>2, <2>6 DEF ParseInv, Holds
<1> QED BY <1>7, <1>8, <1>9, <1>10, <1>11 DEF FramingInv

\* A whole packet is posted: it is the next one, and the pointer is moved to the
\* beginning of the one after it.
LEMMA PostStep == FramingInv /\ PostPacket => FramingInv'
<1> SUFFICES ASSUME FramingInv, PostPacket PROVE FramingInv'
  OBVIOUS
<1> DEFINE size == SizeOf(Got + 1)
<1>1. phase = "parse" /\ data > 0 /\ SizeAt(buf[packet]) <= data
  BY DEF PostPacket, Whole
<1>2. /\ Got + 1 \in Packets
      /\ Got + 1 <= packets
      /\ buf[packet] = Base
      /\ SizeAt(buf[packet]) = size
  BY <1>1, HeaderLemma
<1>3. /\ start \in Layouts /\ packets \in 0..NumPackets /\ read \in Nat
      /\ packet \in Nat /\ data \in Nat /\ packet + data <= BufSize
      /\ jobs \in Seq(Seq(Int)) /\ buf \in [Cells -> Int] /\ Got \in Nat
  BY DEF FramingInv, TypeOK, StreamTypes, Got
<1>4. size \in 2..BufSize /\ size <= data /\ size \in Nat
  BY <1>1, <1>2, <1>3, SizeLemma, SizeAssumption
<1>5. /\ jobs' = Append(jobs, [k \in 1..size |-> buf[packet + k - 1]])
      /\ packet' = packet + size
      /\ data' = data - size
      /\ start' = start /\ packets' = packets /\ read' = read
      /\ buf' = buf /\ window' = window /\ remain' = remain /\ phase' = phase
  BY <1>2 DEF PostPacket, stream
<1> HIDE DEF size
<1>6. Base \in Nat
  BY <1>2, <1>3, StartLemma, SizeAssumption DEF Base, Packets
<1>7. read = Base + data /\ \A k \in 0..(data - 1) : buf[packet + k] = Base + k
  BY <1>1 DEF FramingInv, ParseInv, Holds
<1>8. [k \in 1..size |-> buf[packet + k - 1]] = Bytes(Got + 1)
  <2>1. ASSUME NEW k \in 1..size PROVE buf[packet + k - 1] = Base + k - 1
    <3>1. k - 1 \in 0..(data - 1) /\ packet + k - 1 = packet + (k - 1)
      BY <1>3, <1>4
    <3>2. buf[packet + (k - 1)] = Base + (k - 1)
      BY <3>1, <1>7
    <3> QED BY <3>1, <3>2, <1>6
  <2>2. Bytes(Got + 1) = [k \in 1..size |-> Base + k - 1]
    BY DEF Bytes, Base, size
  <2> QED BY <2>1, <2>2
<1>9. [k \in 1..size |-> buf[packet + k - 1]] \in Seq(Int)
  <2>1. \A k \in 1..size : buf[packet + k - 1] \in Int
    <3>1. \A k \in 1..size : packet + k - 1 \in Cells
      BY <1>3, <1>4, SizeAssumption DEF Cells
    <3> QED BY <3>1, <1>3
  <2> QED BY <2>1, <1>4
<1>10. /\ Len(jobs') = Got + 1
       /\ jobs' \in Seq(Seq(Int))
       /\ \A i \in 1..Got : jobs'[i] = jobs[i]
       /\ jobs'[Got + 1] = Bytes(Got + 1)
  <2>1. jobs' = Append(jobs, Bytes(Got + 1)) /\ Bytes(Got + 1) \in Seq(Int)
    BY <1>5, <1>8, <1>9
  <2> HIDE DEF Got
  <2>2. jobs' \in Seq(Seq(Int)) /\ Len(jobs') = Len(jobs) + 1
    BY <2>1, <1>3
  <2>3. \A i \in 1..Len(jobs) : jobs'[i] = jobs[i]
    BY <2>1, <1>3
  <2>4. jobs'[Len(jobs) + 1] = Bytes(Got + 1)
    BY <2>1, <1>3
  <2> QED BY <2>2, <2>3, <2>4 DEF Got
<1>11. TypeOK'
  <2>1. packet + size \in Nat /\ data - size \in Nat
    BY <1>3, <1>4
  <2>2. (packet + size) + (data - size) <= BufSize
    BY <1>3, <1>4, SizeAssumption
  <2> QED BY <1>5, <1>10, <2>1, <2>2 DEF FramingInv, TypeOK, StreamTypes, Cells
<1>12. PacketsIntact'
  <2>1. \A i \in 1..Got : jobs[i] = Bytes(i)
    BY DEF FramingInv, PacketsIntact, Got
  <2>2. \A i \in 1..Got : jobs'[i] = Bytes(i)
    BY <1>10, <2>1
  <2>3. \A i \in 1..(Got + 1) : i \in 1..Got \/ i = Got + 1
    BY <1>3
  <2>4. \A i \in 1..(Got + 1) : jobs'[i] = Bytes(i)
    BY <1>10, <2>2, <2>3
  <2>5. \A i : Bytes(i)' = Bytes(i)
    BY <1>5 DEF Bytes, SizeOf
  <2>6. \A i \in 1..Len(jobs') : jobs'[i] = Bytes(i)'
    BY <2>4, <2>5, <1>10
  <2>7. Len(jobs') <= packets'
    BY <1>2, <1>5, <1>10
  <2> QED BY <2>6, <2>7 DEF PacketsIntact
<1>13. ParseInv'
  <2>1. Base' = Base + size
    <3>1. Base' = start[(Got + 1) + 1]
      BY <1>5, <1>10 DEF Base, Got
    <3>2. start[(Got + 1) + 1] \in Nat
      BY <1>2, <1>3, StartLemma, SizeAssumption DEF Packets
    <3> QED BY <3>1, <3>2, <1>6 DEF Base, size, SizeOf
  <2>2. read' = Base' + data'
    BY <2>1, <1>3, <1>4, <1>5, <1>6, <1>7
  <2>3. ASSUME NEW k \in 0..(data - size - 1)
        PROVE  buf[packet + size + k] = Base + size + k
    <3>1. size + k \in 0..(data - 1) /\ packet + size + k = packet + (size + k)
      BY <1>3, <1>4
    <3>2. buf[packet + (size + k)] = Base + (size + k)
      BY <3>1, <1>7
    <3> QED BY <3>1, <3>2, <1>4, <1>6
  <2>4. \A k \in 0..(data' - 1) : buf'[packet' + k] = Base' + k
    BY <2>1, <2>3, <1>5
  <2> QED BY <2>2, <2>4 DEF ParseInv, Holds
<1>14. ArmedInv'
  BY <1>1, <1>5 DEF ArmedInv
<1>15. (read <= start[packets + 1])'
  BY <1>5 DEF FramingInv
<1> QED BY <1>11, <1>12, <1>13, <1>14, <1>15 DEF FramingInv

\* No whole packet is left: what remains is the beginning of the next packet, or
\* nothing, and goes to the front of the buffer.
LEMMA RearmStep == FramingInv /\ Rearm => FramingInv'
<1> SUFFICES ASSUME FramingInv, Rearm PROVE FramingInv'
  OBVIOUS
<1>1. /\ phase = "parse" /\ ~Whole
      /\ remain' = data /\ window' = Window(data)
      /\ buf' = [c \in Cells |-> IF c < data THEN buf[packet + c] ELSE buf[c]]
      /\ phase' = "armed" /\ packet' = 0 /\ data' = 0
      /\ start' = start /\ packets' = packets /\ read' = read /\ jobs' = jobs
  BY DEF Rearm, Leftover, stream
<1>2. /\ start \in Layouts /\ packets \in 0..NumPackets /\ read \in Nat
      /\ packet \in Nat /\ data \in Nat /\ packet + data <= BufSize
      /\ buf \in [Cells -> Int] /\ Got \in Nat /\ BufSize \in Nat
      /\ Got <= packets
  BY SizeAssumption DEF FramingInv, TypeOK, StreamTypes, PacketsIntact, Got
<1>3. Holds(packet, data)
  BY <1>1 DEF FramingInv, ParseInv
<1>4. data <= BufSize
  BY <1>2
<1>5. TypeOK'
  <2>1. \A c \in Cells : c < data => packet + c \in Cells
    BY <1>2 DEF Cells
  <2>2. buf' \in [Cells -> Int]
    BY <1>1, <1>2, <2>1
  <2>3. Window(data) \in [offset : Nat, length : Nat]
    BY <1>2, <1>4 DEF Window
  <2>4. Window(data).offset + Window(data).length <= BufSize
    BY <1>2, <1>4 DEF Window
  <2>5. 0 + 0 <= BufSize
    BY <1>2
  <2> QED BY <1>1, <1>2, <1>4, <2>2, <2>3, <2>4, <2>5
          DEF FramingInv, TypeOK, StreamTypes, Cells
<1>6. PacketsIntact'
  BY <1>1 DEF FramingInv, PacketsIntact, Bytes, SizeOf
<1>7. (read <= start[packets + 1])'
  BY <1>1 DEF FramingInv
<1>8. ParseInv'
  BY <1>1 DEF ParseInv
<1>9. ArmedInv'
  <2>1. Base' = Base /\ Got' = Got
    BY <1>1 DEF Base, Got
  <2>2. Holds(0, remain)'
    <3>1. \A k \in 0..(data - 1) : k \in Cells /\ k < data /\ 0 + k = k
      BY <1>2, <1>4 DEF Cells
    <3>2. \A k \in 0..(data - 1) : buf'[0 + k] = buf[packet + k]
      BY <1>1, <3>1
    <3>3. \A k \in 0..(data - 1) : buf'[0 + k] = Base + k
      BY <3>2, <1>3 DEF Holds
    <3> QED BY <3>3, <2>1, <1>1, <1>3 DEF Holds
  <2>3. Got < NumPackets => data < SizeOf(Got + 1)
    <3>1. CASE data > 0
      <4>1. SizeAt(buf[packet]) = SizeOf(Got + 1) /\ Got + 1 \in Packets
        BY <1>1, <3>1, HeaderLemma
      <4>2. SizeOf(Got + 1) \in 2..BufSize
        BY <4>1, <1>2, SizeLemma
      <4>3. ~(SizeOf(Got + 1) <= data)
        BY <4>1, <1>1, <3>1 DEF Whole
      <4> QED BY <4>2, <4>3, <1>2
    <3>2. CASE data = 0
      <4>1. ASSUME Got < NumPackets PROVE SizeOf(Got + 1) \in 2..BufSize
        <5>1. Got + 1 \in Packets
          BY <4>1, <1>2, SizeAssumption DEF Packets
        <5> QED BY <5>1, <1>2, SizeLemma
      <4> QED BY <4>1, <3>2, <1>2
    <3> QED BY <3>1, <3>2, <1>2
  <2>4. Got = NumPackets => data = 0
    <3>1. ASSUME data > 0 PROVE Got < NumPackets
      <4>1. Got + 1 \in Packets
        BY <1>1, <3>1, HeaderLemma
      <4> QED BY <4>1, <1>2, SizeAssumption DEF Packets
    <3> QED BY <3>1, <1>2, SizeAssumption
  <2>5. SizeOf(Got + 1)' = SizeOf(Got + 1)
    BY <1>1 DEF SizeOf, Got
  <2> QED BY <1>1, <2>1, <2>2, <2>3, <2>4, <2>5 DEF ArmedInv, Window
<1> QED BY <1>5, <1>6, <1>7, <1>8, <1>9 DEF FramingInv

LEMMA Stutter == FramingInv /\ UNCHANGED vars => FramingInv'
BY DEF vars, stream, receiver, FramingInv, TypeOK, StreamTypes, PacketsIntact, ArmedInv,
       ParseInv, Holds, Base, Got, Window, Bytes, SizeOf, Cells

LEMMA Inductive == Safe => []FramingInv
<1>1. FramingInv /\ [Next]_vars => FramingInv'
  <2> SUFFICES ASSUME FramingInv, [Next]_vars PROVE FramingInv'
    OBVIOUS
  <2>1. CASE SendPacket
    BY <2>1, SendStep
  <2>2. CASE Receive
    BY <2>2, CompleteStep DEF Receive
  <2>3. CASE PostPacket
    BY <2>3, PostStep
  <2>4. CASE Rearm
    BY <2>4, RearmStep
  <2>5. CASE UNCHANGED vars
    BY <2>5, Stutter
  <2> QED BY <2>1, <2>2, <2>3, <2>4, <2>5 DEF Next
<1> QED BY InitFraming, <1>1, PTL DEF Safe

-----------------------------------------------------------------------------
(* Type correctness; in particular neither the receive nor the copies of   *)
(* CNetworkMgr::Recv leave the buffer of the session.                      *)
THEOREM TypeInvariant == Safe => []TypeOK
<1>1. FramingInv => TypeOK
  BY DEF FramingInv
<1> QED BY Inductive, <1>1, PTL

(* The receive that CSession::RecvPacket posts always has room for a byte, *)
(* so no completion of 0 bytes is mistaken for the end of a connection.    *)
THEOREM RoomInvariant == Safe => []ReceiveHasRoom
<1>1. FramingInv => ReceiveHasRoom
  <2> SUFFICES ASSUME FramingInv, phase = "armed" PROVE window.length > 0
    BY DEF ReceiveHasRoom
  <2>1. /\ window = Window(remain)
        /\ Got < NumPackets => remain < SizeOf(Got + 1)
        /\ Got = NumPackets => remain = 0
    BY DEF FramingInv, ArmedInv
  <2>2. /\ start \in Layouts /\ packets \in 0..NumPackets /\ Got \in Nat /\ Got <= packets
        /\ remain \in 0..BufSize
    BY DEF FramingInv, TypeOK, StreamTypes, PacketsIntact, Got
  <2>3. CASE Got < NumPackets
    <3>1. Got + 1 \in Packets
      BY <2>2, <2>3, SizeAssumption DEF Packets
    <3>2. SizeOf(Got + 1) \in 2..BufSize
      BY <3>1, <2>2, SizeLemma
    <3>3. BufSize - remain > 0
      BY <3>2, <2>1, <2>2, <2>3, SizeAssumption
    <3> QED BY <3>3, <2>1 DEF Window
  <2>4. CASE Got = NumPackets
    <3>1. BufSize - remain > 0
      BY <2>1, <2>2, <2>4, SizeAssumption
    <3> QED BY <3>1, <2>1 DEF Window
  <2> QED BY <2>2, <2>3, <2>4, SizeAssumption
<1> QED BY Inductive, <1>1, PTL

(* The jobs posted are the packets sent, byte for byte and in order.       *)
THEOREM IntactInvariant == Safe => []PacketsIntact
<1>1. FramingInv => PacketsIntact
  BY DEF FramingInv
<1> QED BY Inductive, <1>1, PTL

-----------------------------------------------------------------------------
(* Refinement.                                                             *)

\* Seen as a PacketStream, the packets delivered are 1, 2, ... up to the number
\* of jobs.
Delivered == [i \in 1..Got |-> Number(i)]

LEMMA DeliveredLemma ==
  ASSUME FramingInv
  PROVE  /\ Delivered = [i \in 1..Got |-> i]
         /\ Got \in Nat
         /\ Len(Delivered) = Got
<1>1. \A i \in 1..Got : Number(i) = i
  BY DEF FramingInv, PacketsIntact, Got, Number
<1>2. Got \in Nat
  BY DEF FramingInv, TypeOK, Got
<1> HIDE DEF Got
<1>3. Delivered = [i \in 1..Got |-> i]
  BY <1>1 DEF Delivered
<1>4. Len([i \in 1..Got |-> i]) = Got
  BY <1>2
<1> QED BY <1>2, <1>3, <1>4

(* RecvStream implements the safety part of PacketStream: whatever the     *)
(* network does, Recv behaves like a channel of whole packets.             *)
THEOREM Implementation == Safe => Framing!Safe
<1>1. Init => Framing!Init
  <2> SUFFICES ASSUME Init PROVE Framing!Init
    OBVIOUS
  <2>1. packets = 0 /\ jobs = <<>>
    BY DEF Init, StreamInit
  <2>2. [i \in 1..Len(jobs) |-> Number(i)] = <<>>
    BY <2>1
  <2> QED BY <2>1, <2>2 DEF Framing!Init
<1>2. ASSUME FramingInv, FramingInv', [Next]_vars
      PROVE  [Framing!Next]_<<packets, [i \in 1..Len(jobs) |-> Number(i)]>>
  <2>1. /\ Delivered = [i \in 1..Got |-> i] /\ Got \in Nat /\ Len(Delivered) = Got
    BY <1>2, DeliveredLemma
  <2>2. /\ Delivered' = [i \in 1..Got' |-> i] /\ Got' \in Nat
    <3>1. \A i \in 1..Got' : Number(i)' = i
      BY <1>2 DEF FramingInv, PacketsIntact, Got, Number
    <3>2. Got' \in Nat
      BY <1>2 DEF FramingInv, TypeOK, Got
    <3> QED BY <3>1, <3>2 DEF Delivered
  <2>3. Delivered = [i \in 1..Len(jobs) |-> Number(i)]
    BY DEF Delivered, Got
  <2>4. Delivered' = [i \in 1..Len(jobs) |-> Number(i)]'
    BY DEF Delivered, Got
  <2>5. CASE SendPacket
    <3>1. packets < NumPackets /\ packets' = packets + 1 /\ Got' = Got
      BY <2>5 DEF SendPacket, Send, receiver, Got
    <3>2. Delivered' = Delivered
      BY <2>1, <2>2, <3>1
    <3>3. Framing!Send
      BY <2>3, <2>4, <3>1, <3>2 DEF Framing!Send
    <3> QED BY <3>3 DEF Framing!Next
  <2>6. CASE PostPacket
    <3>1. phase = "parse" /\ data > 0 /\ packets' = packets
      BY <2>6 DEF PostPacket, Whole, stream
    <3>2. Got + 1 <= packets
      BY <1>2, <3>1, HeaderLemma
    <3>3. packets \in Nat
      BY <1>2, SizeAssumption DEF FramingInv, TypeOK, StreamTypes
    <3>4. Got' = Got + 1
      BY <2>6, <1>2 DEF PostPacket, Got, FramingInv, TypeOK
    <3> HIDE DEF Got, Delivered
    <3>5. Append([i \in 1..Got |-> i], Got + 1) = [i \in 1..(Got + 1) |-> i]
      <4>1. [i \in 1..Got |-> i] \in Seq(Nat)
        BY <2>1
      <4> QED BY <4>1, <2>1
    <3>6. Delivered' = Append(Delivered, Len(Delivered) + 1)
      BY <2>1, <2>2, <3>4, <3>5
    <3>7. Len(Delivered) < packets
      BY <2>1, <3>2, <3>3
    <3>8. Framing!Deliver
      BY <2>3, <2>4, <3>1, <3>6, <3>7 DEF Framing!Deliver
    <3> QED BY <3>8 DEF Framing!Next
  <2>7. CASE Receive \/ Rearm \/ UNCHANGED vars
    <3>1. packets' = packets /\ jobs' = jobs
      BY <2>7 DEF Receive, Complete, Take, Rearm, vars, stream, receiver
    <3>2. Got' = Got
      BY <3>1 DEF Got
    <3>3. Delivered' = Delivered
      BY <2>1, <2>2, <3>2
    <3> QED BY <2>3, <2>4, <3>1, <3>3
  <2> QED BY <1>2, <2>5, <2>6, <2>7 DEF Next
<1> QED BY <1>1, <1>2, Inductive, PTL DEF Safe, Framing!Safe

-----------------------------------------------------------------------------
(* The client's side: PacketReasemble.                                     *)

Seen == Len(seen)

\* Where the packet under way begins.
SeenBase == start[Seen + 1]

\* packet_buffer holds what was saved of the packet under way; net_buf, from ptr
\* on, what follows in the stream; nothing else was taken.
BuffersInv ==
  /\ read = SeenBase + saved + io
  /\ \A k \in 0..(saved - 1) : pbuf[k] = SeenBase + k
  /\ \A k \in 0..(io - 1) : net[ptr + k] = SeenBase + saved + k

\* A size is known only of a packet that is not complete.
SizeInv ==
  /\ inSize = 0 => saved = 0
  /\ inSize # 0 => /\ Seen < NumPackets
                   /\ inSize = SizeOf(Seen + 1)
                   /\ saved < inSize

FrameInv == stage = "frame" => io = 0

\* The inductive invariant.
ReassemblyInv ==
  /\ ClientTypes
  /\ SeenIntact
  /\ read <= start[packets + 1]
  /\ BuffersInv
  /\ SizeInv
  /\ FrameInv

-----------------------------------------------------------------------------
\* What the types and the invariant say of the variables, at once.
LEMMA ClientFacts ==
  ASSUME ReassemblyInv
  PROVE  /\ start \in Layouts /\ packets \in 0..NumPackets /\ read \in Nat
         /\ net \in [Cells -> Int] /\ pbuf \in [Cells -> Int]
         /\ ptr \in Nat /\ io \in Nat /\ saved \in Nat /\ inSize \in 0..BufSize
         /\ ptr + io <= BufSize /\ saved <= inSize
         /\ seen \in Seq(Seq(Int)) /\ Seen \in Nat /\ Seen <= packets
         /\ BufSize \in Nat /\ NumPackets \in Nat
         /\ SeenBase \in Nat
<1>1. /\ start \in Layouts /\ packets \in 0..NumPackets /\ read \in Nat
      /\ net \in [Cells -> Int] /\ pbuf \in [Cells -> Int]
      /\ ptr \in Nat /\ io \in Nat /\ saved \in Nat /\ inSize \in 0..BufSize
      /\ ptr + io <= BufSize /\ saved <= inSize
      /\ seen \in Seq(Seq(Int)) /\ Seen \in Nat /\ Seen <= packets
      /\ BufSize \in Nat /\ NumPackets \in Nat
  BY SizeAssumption DEF ReassemblyInv, ClientTypes, StreamTypes, SeenIntact, Seen
<1>2. Seen + 1 \in 1..(NumPackets + 1)
  BY <1>1
<1>3. SeenBase \in Nat
  BY <1>1, <1>2, StartLemma DEF SeenBase
<1> QED BY <1>1, <1>3

\* In the loop, with bytes left: the size the code computes is that of the next
\* packet of those written.
LEMMA NextSizeLemma ==
  ASSUME ReassemblyInv, io > 0
  PROVE  /\ Seen + 1 \in Packets
         /\ Seen + 1 <= packets
         /\ Size = SizeOf(Seen + 1)
         /\ Size \in 2..BufSize
         /\ saved < Size
<1>1. SeenBase + saved + io <= start[packets + 1]
  BY DEF ReassemblyInv, BuffersInv
<1>2. Seen < packets
  <2>1. Seen + 1 \in 1..(NumPackets + 1) /\ packets + 1 \in 1..(NumPackets + 1)
    BY SMTT(30), ClientFacts
  <2>2. start[packets + 1] \in Nat
    BY <2>1, ClientFacts, StartLemma
  <2>3. start[Seen + 1] < start[packets + 1]
    BY SMTT(30), <1>1, <2>2, ClientFacts DEF SeenBase
  <2>4. Seen # packets
    BY <2>2, <2>3
  <2> QED BY <2>4, ClientFacts
<1>3. Seen + 1 \in Packets
  BY <1>2, ClientFacts DEF Packets
<1>4. SizeAt(SeenBase) = SizeOf(Seen + 1) /\ SizeOf(Seen + 1) \in 2..BufSize
  BY <1>3, ClientFacts, SizeLemma DEF SeenBase
<1>5. CASE inSize = 0
  <2>1. saved = 0
    BY <1>5 DEF ReassemblyInv, SizeInv
  <2>2. 0 \in 0..(io - 1)
    BY ClientFacts
  <2>3. net[ptr + 0] = SeenBase + saved + 0
    BY <2>2 DEF ReassemblyInv, BuffersInv
  <2>4. net[ptr] = SeenBase
    BY <2>1, <2>3, ClientFacts
  <2> QED BY <1>2, <1>3, <1>4, <1>5, <2>1, <2>4, ClientFacts DEF Size
<1>6. CASE inSize # 0
  <2>1. inSize = SizeOf(Seen + 1) /\ saved < inSize
    BY <1>6 DEF ReassemblyInv, SizeInv
  <2> QED BY <1>2, <1>3, <1>4, <1>6, <2>1, ClientFacts DEF Size
<1> QED BY <1>5, <1>6

\* The memcpy of n bytes behind those saved.
LEMMA CopyLemma ==
  ASSUME ReassemblyInv, NEW n \in 0..io, saved + n <= BufSize
  PROVE  /\ Copied(n) \in [Cells -> Int]
         /\ \A k \in 0..(saved + n - 1) : Copied(n)[k] = SeenBase + k
<1>0. /\ n \in Nat /\ n <= io /\ saved \in Nat /\ ptr \in Nat /\ io \in Nat
      /\ BufSize \in Nat /\ ptr + io <= BufSize
  BY ClientFacts
<1>1. \A c \in Cells : c \in saved..(saved + n - 1) => ptr + c - saved \in Cells
  BY <1>0 DEF Cells
<1>2. Copied(n) \in [Cells -> Int]
  BY <1>1, ClientFacts DEF Copied
<1>3. ASSUME NEW k \in 0..(saved + n - 1) PROVE Copied(n)[k] = SeenBase + k
  <2>1. k \in Cells
    BY SMTT(30), ClientFacts DEF Cells
  <2>2. CASE k < saved
    <3>1. k \in 0..(saved - 1) /\ k \notin saved..(saved + n - 1)
      BY SMTT(30), <2>2, ClientFacts
    <3>2. pbuf[k] = SeenBase + k
      BY <3>1 DEF ReassemblyInv, BuffersInv
    <3> QED BY <2>1, <3>1, <3>2 DEF Copied
  <2>3. CASE ~(k < saved)
    <3>1. k \in saved..(saved + n - 1) /\ k - saved \in 0..(io - 1)
      BY <2>3, <1>0
    <3>2. net[ptr + (k - saved)] = SeenBase + saved + (k - saved)
      BY <3>1 DEF ReassemblyInv, BuffersInv
    <3>3. ptr + (k - saved) = ptr + k - saved /\ SeenBase + saved + (k - saved) = SeenBase + k
      BY ClientFacts
    <3> QED BY <2>1, <3>1, <3>2, <3>3 DEF Copied
  <2> QED BY <2>2, <2>3
<1> QED BY <1>2, <1>3

LEMMA InitReassembly == ClientInit => ReassemblyInv
<1> SUFFICES ASSUME ClientInit PROVE ReassemblyInv
  OBVIOUS
<1>1. /\ start \in Layouts /\ packets = 0 /\ read = 0 /\ seen = <<>> /\ Seen = 0
      /\ io = 0 /\ saved = 0 /\ inSize = 0
  BY DEF ClientInit, StreamInit, Seen
<1>2. start[1] = 0
  BY <1>1, StartLemma
<1>3. ClientTypes
  BY <1>1, SizeAssumption DEF ClientInit, ClientTypes, StreamTypes, Cells, Unset
<1>4. SeenIntact
  BY <1>1 DEF SeenIntact
<1>5. BuffersInv /\ SizeInv /\ FrameInv
  BY <1>1, <1>2 DEF BuffersInv, SizeInv, FrameInv, SeenBase
<1>6. read <= start[packets + 1]
  BY <1>1, <1>2
<1> QED BY <1>3, <1>4, <1>5, <1>6 DEF ReassemblyInv

LEMMA ServerSendStep == ReassemblyInv /\ ServerSends => ReassemblyInv'
<1> SUFFICES ASSUME ReassemblyInv, ServerSends PROVE ReassemblyInv'
  OBVIOUS
<1>1. /\ start' = start /\ read' = read
      /\ packets' = packets + 1
      /\ packets < NumPackets
      /\ stage' = stage /\ net' = net /\ ptr' = ptr /\ io' = io /\ inSize' = inSize
      /\ saved' = saved /\ pbuf' = pbuf /\ seen' = seen
  BY DEF ServerSends, Send, client
<1>2. ClientTypes'
  <2>1. packets + 1 \in 0..NumPackets
    BY <1>1, ClientFacts
  <2> QED BY <1>1, <2>1 DEF ReassemblyInv, ClientTypes, StreamTypes, Cells
<1>3. SeenIntact'
  BY SMTT(30), <1>1, ClientFacts DEF ReassemblyInv, SeenIntact, Bytes, SizeOf
<1>4. BuffersInv' /\ SizeInv' /\ FrameInv'
  BY <1>1 DEF ReassemblyInv, BuffersInv, SizeInv, FrameInv, SeenBase, Seen, SizeOf
<1>5. (read <= start[packets + 1])'
  <2>0. start \in Layouts /\ packets \in Nat /\ NumPackets \in Nat /\ read \in Nat
    BY ClientFacts
  <2>1. /\ start \in Layouts /\ packets \in Nat /\ NumPackets \in Nat /\ read \in Nat
        /\ packets + 1 \in 1..(NumPackets + 1) /\ packets + 2 \in 1..(NumPackets + 1)
        /\ packets + 1 < packets + 2
    <3>1. packets < NumPackets
      BY <1>1
    <3> QED BY <2>0, <3>1
  <2>2. start[packets + 1] < start[packets + 2]
    BY <2>1, StartLemma
  <2>3. start[packets + 1] \in Nat /\ start[packets + 2] \in Nat
    BY <2>1, StartLemma
  <2>4. start'[packets' + 1] = start[packets + 2] /\ read' = read
    BY <1>1, <2>1
  <2>5. read <= start[packets + 1]
    BY DEF ReassemblyInv
  <2> QED BY <2>1, <2>2, <2>3, <2>4, <2>5
<1> QED BY <1>2, <1>3, <1>4, <1>5 DEF ReassemblyInv

\* The socket gives n bytes to a fresh net_buf.
LEMMA ClientRecvStep ==
  ASSUME ReassemblyInv, NEW n \in 1..BufSize, RecvPacket(n)
  PROVE  ReassemblyInv'
<1>1. /\ stage = "frame" /\ stage' = "loop"
      /\ n <= Available
      /\ read' = read + n
      /\ start' = start /\ packets' = packets
      /\ net' = [c \in Cells |-> IF c < n THEN read + c ELSE Unset]
      /\ ptr' = 0 /\ io' = n
      /\ inSize' = inSize /\ saved' = saved /\ pbuf' = pbuf /\ seen' = seen
  BY DEF RecvPacket, Take
<1>2. n \in Nat /\ n <= BufSize /\ io = 0
  BY <1>1, ClientFacts DEF ReassemblyInv, FrameInv
<1>3. ClientTypes'
  <2>1. net' \in [Cells -> Int]
    BY <1>1, ClientFacts DEF Cells, Unset
  <2>2. 0 + n <= BufSize /\ read + n \in Nat
    BY <1>2, ClientFacts
  <2> QED BY <1>1, <1>2, <2>1, <2>2 DEF ReassemblyInv, ClientTypes, StreamTypes, Cells
<1>4. SeenIntact'
  BY <1>1 DEF ReassemblyInv, SeenIntact, Bytes, SizeOf
<1>5. (read <= start[packets + 1])'
  <2>1. start[packets + 1] \in Nat
    BY SMTT(30), ClientFacts, StartLemma
  <2> QED BY SMTT(30), <1>1, <1>2, ClientFacts, <2>1 DEF Available
<1>6. BuffersInv'
  <2>1. SeenBase' = SeenBase
    BY <1>1 DEF SeenBase, Seen
  <2>2. read = SeenBase + saved
    BY <1>2, ClientFacts DEF ReassemblyInv, BuffersInv
  <2>3. ASSUME NEW k \in 0..(n - 1) PROVE net'[0 + k] = SeenBase + saved + k
    <3>1. k \in Cells /\ k < n /\ 0 + k = k
      BY <1>2, ClientFacts DEF Cells
    <3> QED BY <1>1, <3>1, <2>2
  <2>4. \A k \in 0..(saved - 1) : pbuf[k] = SeenBase + k
    BY DEF ReassemblyInv, BuffersInv
  <2>5. read + n = SeenBase + saved + n
    BY <2>2
  <2> QED BY <1>1, <2>1, <2>3, <2>4, <2>5 DEF BuffersInv
<1>7. SizeInv' /\ FrameInv'
  BY <1>1 DEF ReassemblyInv, SizeInv, FrameInv, Seen, SizeOf
<1> QED BY <1>3, <1>4, <1>5, <1>6, <1>7 DEF ReassemblyInv

\* The packet under way is complete: it is processed, and the next one begins at
\* the new ptr.
LEMMA ProcessStep == ReassemblyInv /\ Process => ReassemblyInv'
<1> SUFFICES ASSUME ReassemblyInv, Process PROVE ReassemblyInv'
  OBVIOUS
<1>0. /\ io \in Nat /\ saved \in Nat /\ ptr \in Nat /\ SeenBase \in Nat /\ BufSize \in Nat
      /\ ptr + io <= BufSize
  BY ClientFacts
<1> DEFINE size == SizeOf(Seen + 1)
           n == Missing(Size)
<1>1. /\ io > 0 /\ io + saved >= Size
      /\ stage = "loop" /\ stage' = stage
      /\ pbuf' = Copied(n)
      /\ seen' = Append(seen, [k \in 1..Size |-> pbuf'[k - 1]])
      /\ ptr' = ptr + n /\ io' = io - n
      /\ inSize' = 0 /\ saved' = 0
      /\ start' = start /\ packets' = packets /\ read' = read /\ net' = net
  BY DEF Process, stream
<1>2. /\ Seen + 1 \in Packets /\ Seen + 1 <= packets
      /\ Size = size /\ size \in 2..BufSize /\ saved < size
  BY <1>1, NextSizeLemma
<1> HIDE DEF size
<1>3. /\ n = size - saved /\ n \in 0..io /\ n \in Nat /\ n <= io /\ saved + n <= BufSize
      /\ saved + n = size /\ size \in Nat
  BY <1>0, <1>1, <1>2 DEF Missing
<1> HIDE DEF n
<1>4. /\ Copied(n) \in [Cells -> Int]
      /\ \A k \in 0..(size - 1) : Copied(n)[k] = SeenBase + k
  <2>1. /\ Copied(n) \in [Cells -> Int]
        /\ \A k \in 0..(saved + n - 1) : Copied(n)[k] = SeenBase + k
    BY <1>3, CopyLemma
  <2>2. \A k \in 0..(size - 1) : k \in 0..(saved + n - 1)
    BY <1>0, <1>3
  <2> QED BY <2>1, <2>2
<1>5. [k \in 1..Size |-> pbuf'[k - 1]] = Bytes(Seen + 1)
  <2>1. ASSUME NEW k \in 1..size PROVE pbuf'[k - 1] = SeenBase + k - 1
    <3>1. k - 1 \in 0..(size - 1)
      BY <1>3
    <3>2. Copied(n)[k - 1] = SeenBase + (k - 1)
      BY <3>1, <1>4
    <3> QED BY <1>1, <3>2, <1>3, ClientFacts
  <2>2. Bytes(Seen + 1) = [k \in 1..size |-> SeenBase + k - 1]
    BY DEF Bytes, SeenBase, size
  <2> QED BY <2>1, <2>2, <1>2
<1>6. Bytes(Seen + 1) \in Seq(Int)
  <2>1. Bytes(Seen + 1) = [k \in 1..size |-> SeenBase + k - 1]
    BY DEF Bytes, SeenBase, size
  <2>2. \A k \in 1..size : SeenBase + k - 1 \in Int
    BY <1>0
  <2> QED BY <2>1, <2>2, <1>3
<1>7. /\ Len(seen') = Seen + 1
      /\ seen' \in Seq(Seq(Int))
      /\ \A i \in 1..Seen : seen'[i] = seen[i]
      /\ seen'[Seen + 1] = Bytes(Seen + 1)
  <2>1. seen' = Append(seen, Bytes(Seen + 1)) /\ seen \in Seq(Seq(Int))
    BY <1>1, <1>5, ClientFacts
  <2> HIDE DEF Seen
  <2>2. seen' \in Seq(Seq(Int)) /\ Len(seen') = Len(seen) + 1
    BY <2>1, <1>6
  <2>3. \A i \in 1..Len(seen) : seen'[i] = seen[i]
    BY <2>1, <1>6
  <2>4. seen'[Len(seen) + 1] = Bytes(Seen + 1)
    BY <2>1, <1>6
  <2> QED BY <2>2, <2>3, <2>4 DEF Seen
<1>8. ClientTypes'
  <2>1. ptr + n \in Nat /\ io - n \in Nat /\ (ptr + n) + (io - n) <= BufSize
    BY <1>0, <1>3
  <2>2. 0 \in 0..BufSize /\ 0 <= 0
    BY ClientFacts
  <2> QED BY <1>1, <1>4, <1>7, <2>1, <2>2 DEF ReassemblyInv, ClientTypes, StreamTypes, Cells
<1>9. SeenIntact'
  <2>1. \A i \in 1..Seen : seen[i] = Bytes(i)
    BY DEF ReassemblyInv, SeenIntact, Seen
  <2>2. \A i \in 1..Seen : seen'[i] = Bytes(i)
    BY <1>7, <2>1
  <2>3. \A i \in 1..(Seen + 1) : i \in 1..Seen \/ i = Seen + 1
    BY ClientFacts
  <2>4. \A i \in 1..(Seen + 1) : seen'[i] = Bytes(i)
    BY <1>7, <2>2, <2>3
  <2>5. \A i : Bytes(i)' = Bytes(i)
    BY <1>1 DEF Bytes, SizeOf
  <2>6. \A i \in 1..Len(seen') : seen'[i] = Bytes(i)'
    BY <2>4, <2>5, <1>7
  <2>7. Len(seen') <= packets'
    BY <1>1, <1>2, <1>7
  <2> QED BY <2>6, <2>7 DEF SeenIntact
<1>10. BuffersInv'
  <2>1. SeenBase' = SeenBase + size
    <3>1. SeenBase' = start[(Seen + 1) + 1]
      BY <1>1, <1>7 DEF SeenBase, Seen
    <3>2. (Seen + 1) + 1 \in 1..(NumPackets + 1)
      BY SMTT(30), <1>2, ClientFacts DEF Packets
    <3>3. start[(Seen + 1) + 1] \in Nat
      BY <3>2, ClientFacts, StartLemma
    <3> QED BY SMTT(30), <3>1, <3>3, ClientFacts DEF SeenBase, size, SizeOf
  <2>2. read = SeenBase + saved + io
    BY DEF ReassemblyInv, BuffersInv
  <2>3. read' = SeenBase' + saved' + io'
    BY <2>1, <2>2, <1>0, <1>1, <1>3
  <2>4. ASSUME NEW k \in 0..(io - n - 1) PROVE net[ptr + n + k] = SeenBase + size + 0 + k
    <3>1. n + k \in 0..(io - 1) /\ ptr + n + k = ptr + (n + k)
      BY <1>0, <1>3
    <3>2. net[ptr + (n + k)] = SeenBase + saved + (n + k)
      BY <3>1 DEF ReassemblyInv, BuffersInv
    <3>3. SeenBase + saved + (n + k) = SeenBase + size + 0 + k
      BY <1>0, <1>3
    <3> QED BY <3>1, <3>2, <3>3
  <2>5. \A k \in 0..(io' - 1) : net'[ptr' + k] = SeenBase' + saved' + k
    BY <2>1, <2>4, <1>1
  <2>6. \A k \in 0..(saved' - 1) : FALSE
    BY <1>1
  <2> QED BY <2>3, <2>5, <2>6 DEF BuffersInv
<1>11. SizeInv' /\ FrameInv'
  BY <1>1 DEF SizeInv, FrameInv
<1>12. (read <= start[packets + 1])'
  BY <1>1 DEF ReassemblyInv
<1> QED BY <1>8, <1>9, <1>10, <1>11, <1>12 DEF ReassemblyInv

\* The packet under way is not complete: what came of it is saved.
LEMMA SaveStep == ReassemblyInv /\ Save => ReassemblyInv'
<1> SUFFICES ASSUME ReassemblyInv, Save PROVE ReassemblyInv'
  OBVIOUS
<1>1. /\ io > 0 /\ io + saved < Size
      /\ stage = "loop" /\ stage' = stage
      /\ pbuf' = Copied(io)
      /\ inSize' = Size /\ saved' = saved + io /\ io' = 0
      /\ start' = start /\ packets' = packets /\ read' = read
      /\ net' = net /\ ptr' = ptr /\ seen' = seen
  BY DEF Save, stream
<1>2. /\ Seen + 1 \in Packets
      /\ Size = SizeOf(Seen + 1) /\ Size \in 2..BufSize
  BY <1>1, NextSizeLemma
<1>3. io \in 0..io /\ saved + io <= BufSize /\ saved + io \in Nat
  BY SMTT(30), <1>1, <1>2, ClientFacts
<1>4. /\ Copied(io) \in [Cells -> Int]
      /\ \A k \in 0..(saved + io - 1) : Copied(io)[k] = SeenBase + k
  BY <1>3, CopyLemma
<1>5. ClientTypes'
  <2>1. ptr + 0 <= BufSize /\ Size \in 0..BufSize /\ saved + io <= Size
    BY SMTT(30), <1>1, <1>2, ClientFacts
  <2> QED BY <1>1, <1>3, <1>4, <2>1 DEF ReassemblyInv, ClientTypes, StreamTypes, Cells
<1>6. SeenIntact'
  BY <1>1 DEF ReassemblyInv, SeenIntact, Bytes, SizeOf
<1>7. BuffersInv'
  <2>1. SeenBase' = SeenBase
    BY <1>1 DEF SeenBase, Seen
  <2>2. read = SeenBase + saved + io
    BY DEF ReassemblyInv, BuffersInv
  <2>3. read' = SeenBase' + saved' + io'
    BY <1>1, <2>1, <2>2, ClientFacts
  <2>4. \A k \in 0..(saved' - 1) : pbuf'[k] = SeenBase' + k
    <3>1. \A k \in 0..(saved' - 1) : k \in 0..(saved + io - 1)
      BY <1>1, <1>3, ClientFacts
    <3>2. \A k \in 0..(saved' - 1) : Copied(io)[k] = SeenBase + k
      BY <1>4, <3>1
    <3> QED BY <1>1, <2>1, <3>2
  <2>5. \A k \in 0..(io' - 1) : FALSE
    BY <1>1
  <2> QED BY <2>3, <2>4, <2>5 DEF BuffersInv
<1>8. SizeInv'
  <2>1. Seen < NumPackets
    BY SMTT(30), <1>2, ClientFacts DEF Packets
  <2>2. Seen' = Seen /\ SizeOf(Seen + 1)' = SizeOf(Seen + 1)
    BY <1>1 DEF Seen, SizeOf
  <2>3. Size # 0 /\ saved + io < Size
    BY <1>1, <1>2, ClientFacts
  <2> QED BY <1>1, <1>2, <2>1, <2>2, <2>3 DEF SizeInv
<1>9. FrameInv' /\ (read <= start[packets + 1])'
  BY <1>1 DEF ReassemblyInv, FrameInv
<1> QED BY <1>5, <1>6, <1>7, <1>8, <1>9 DEF ReassemblyInv

\* All of net_buf is taken: RecvPacket returns.
LEMMA ReturnStep == ReassemblyInv /\ Return => ReassemblyInv'
<1> SUFFICES ASSUME ReassemblyInv, Return PROVE ReassemblyInv'
  OBVIOUS
<1>1. /\ io = 0 /\ stage' = "frame"
      /\ net' = [c \in Cells |-> Unset] /\ ptr' = 0
      /\ io' = io /\ inSize' = inSize /\ saved' = saved /\ pbuf' = pbuf /\ seen' = seen
      /\ start' = start /\ packets' = packets /\ read' = read
  BY DEF Return, stream
<1>2. ClientTypes'
  <2>1. 0 + io <= BufSize
    BY <1>1, ClientFacts
  <2>2. [c \in Cells |-> Unset] \in [Cells -> Int]
    BY DEF Unset
  <2> QED BY <1>1, <2>1, <2>2 DEF ReassemblyInv, ClientTypes, StreamTypes, Cells
<1>3. SeenIntact'
  BY <1>1 DEF ReassemblyInv, SeenIntact, Bytes, SizeOf
<1>4. BuffersInv'
  <2>1. \A k \in 0..(io - 1) : FALSE
    BY <1>1
  <2> QED BY <1>1, <2>1 DEF ReassemblyInv, BuffersInv, SeenBase, Seen
<1>5. SizeInv' /\ FrameInv' /\ (read <= start[packets + 1])'
  BY <1>1 DEF ReassemblyInv, SizeInv, FrameInv, Seen, SizeOf
<1> QED BY <1>2, <1>3, <1>4, <1>5 DEF ReassemblyInv

LEMMA ReassemblyStutter == ReassemblyInv /\ UNCHANGED clientVars => ReassemblyInv'
BY DEF clientVars, stream, client, ReassemblyInv, ClientTypes, StreamTypes, SeenIntact, BuffersInv,
       SizeInv, FrameInv, SeenBase, Seen, Bytes, SizeOf, Cells

LEMMA ReassemblyInductive == ClientSafe => []ReassemblyInv
<1>1. ReassemblyInv /\ [ClientNext]_clientVars => ReassemblyInv'
  <2> SUFFICES ASSUME ReassemblyInv, [ClientNext]_clientVars PROVE ReassemblyInv'
    OBVIOUS
  <2>1. CASE ServerSends
    BY <2>1, ServerSendStep
  <2>2. CASE ClientReceive
    BY <2>2, ClientRecvStep DEF ClientReceive
  <2>3. CASE Process
    BY <2>3, ProcessStep
  <2>4. CASE Save
    BY <2>4, SaveStep
  <2>5. CASE Return
    BY <2>5, ReturnStep
  <2>6. CASE UNCHANGED clientVars
    BY <2>6, ReassemblyStutter
  <2> QED BY <2>1, <2>2, <2>3, <2>4, <2>5, <2>6 DEF ClientNext
<1> QED BY InitReassembly, <1>1, PTL DEF ClientSafe

-----------------------------------------------------------------------------
(* Type correctness; in particular PacketReasemble never copies outside of *)
(* net_buf and packet_buffer.                                              *)
THEOREM ClientTypeInvariant == ClientSafe => []ClientTypes
<1>1. ReassemblyInv => ClientTypes
  BY DEF ReassemblyInv
<1> QED BY ReassemblyInductive, <1>1, PTL

(* ProcessPacket sees the packets the server sent, byte for byte and in    *)
(* order.                                                                  *)
THEOREM ClientIntactInvariant == ClientSafe => []SeenIntact
<1>1. ReassemblyInv => SeenIntact
  BY DEF ReassemblyInv
<1> QED BY ReassemblyInductive, <1>1, PTL

-----------------------------------------------------------------------------
(* Refinement.                                                             *)

\* Seen as a PacketStream, the packets delivered are 1, 2, ... up to the number
\* seen.
Processed == [i \in 1..Seen |-> SeenNumber(i)]

LEMMA ProcessedLemma ==
  ASSUME ReassemblyInv
  PROVE  /\ Processed = [i \in 1..Seen |-> i]
         /\ Seen \in Nat
         /\ Len(Processed) = Seen
<1>1. \A i \in 1..Seen : SeenNumber(i) = i
  BY DEF ReassemblyInv, SeenIntact, Seen, SeenNumber
<1>2. Seen \in Nat
  BY DEF ReassemblyInv, ClientTypes, Seen
<1> HIDE DEF Seen
<1>3. Processed = [i \in 1..Seen |-> i]
  BY <1>1 DEF Processed
<1>4. Len([i \in 1..Seen |-> i]) = Seen
  BY <1>2
<1> QED BY <1>2, <1>3, <1>4

(* Reassembly implements the safety part of PacketStream: whatever the     *)
(* network does, the client sees a channel of whole packets.               *)
THEOREM ClientImplementation == ClientSafe => Reassembled!Safe
<1>1. ClientInit => Reassembled!Init
  <2> SUFFICES ASSUME ClientInit PROVE Reassembled!Init
    OBVIOUS
  <2>1. packets = 0 /\ seen = <<>>
    BY DEF ClientInit, StreamInit
  <2>2. [i \in 1..Len(seen) |-> SeenNumber(i)] = <<>>
    BY <2>1
  <2> QED BY <2>1, <2>2 DEF Reassembled!Init
<1>2. ASSUME ReassemblyInv, ReassemblyInv', [ClientNext]_clientVars
      PROVE  [Reassembled!Next]_<<packets, [i \in 1..Len(seen) |-> SeenNumber(i)]>>
  <2>1. /\ Processed = [i \in 1..Seen |-> i] /\ Seen \in Nat /\ Len(Processed) = Seen
    BY <1>2, ProcessedLemma
  <2>2. /\ Processed' = [i \in 1..Seen' |-> i] /\ Seen' \in Nat
    <3>1. \A i \in 1..Seen' : SeenNumber(i)' = i
      BY <1>2 DEF ReassemblyInv, SeenIntact, Seen, SeenNumber
    <3>2. Seen' \in Nat
      BY <1>2 DEF ReassemblyInv, ClientTypes, Seen
    <3> QED BY <3>1, <3>2 DEF Processed
  <2>3. Processed = [i \in 1..Len(seen) |-> SeenNumber(i)]
    BY DEF Processed, Seen
  <2>4. Processed' = [i \in 1..Len(seen) |-> SeenNumber(i)]'
    BY DEF Processed, Seen
  <2>5. CASE ServerSends
    <3>1. packets < NumPackets /\ packets' = packets + 1 /\ Seen' = Seen
      BY <2>5 DEF ServerSends, Send, client, Seen
    <3>2. Processed' = Processed
      BY <2>1, <2>2, <3>1
    <3>3. Reassembled!Send
      BY <2>3, <2>4, <3>1, <3>2 DEF Reassembled!Send
    <3> QED BY <3>3 DEF Reassembled!Next
  <2>6. CASE Process
    <3>1. io > 0 /\ packets' = packets
      BY <2>6 DEF Process, stream
    <3>2. Seen + 1 <= packets
      BY <1>2, <3>1, NextSizeLemma
    <3>3. packets \in Nat
      BY <1>2, SizeAssumption DEF ReassemblyInv, ClientTypes, StreamTypes
    <3>4. Seen' = Seen + 1
      BY <2>6, <1>2 DEF Process, Seen, ReassemblyInv, ClientTypes
    <3> HIDE DEF Seen, Processed
    <3>5. Append([i \in 1..Seen |-> i], Seen + 1) = [i \in 1..(Seen + 1) |-> i]
      <4>1. [i \in 1..Seen |-> i] \in Seq(Nat)
        BY <2>1
      <4> QED BY <4>1, <2>1
    <3>6. Processed' = Append(Processed, Len(Processed) + 1)
      BY <2>1, <2>2, <3>4, <3>5
    <3>7. Len(Processed) < packets
      BY <2>1, <3>2, <3>3
    <3>8. Reassembled!Deliver
      BY <2>3, <2>4, <3>1, <3>6, <3>7 DEF Reassembled!Deliver
    <3> QED BY <3>8 DEF Reassembled!Next
  <2>7. CASE ClientReceive \/ Save \/ Return \/ UNCHANGED clientVars
    <3>1. packets' = packets /\ seen' = seen
      BY <2>7 DEF ClientReceive, RecvPacket, Take, Save, Return, clientVars, stream, client
    <3>2. Seen' = Seen
      BY <3>1 DEF Seen
    <3>3. Processed' = Processed
      BY <2>1, <2>2, <3>2
    <3> QED BY <2>3, <2>4, <3>1, <3>3
  <2> QED BY <1>2, <2>5, <2>6, <2>7 DEF ClientNext
<1> QED BY <1>1, <1>2, ReassemblyInductive, PTL DEF ClientSafe, Reassembled!Safe
=============================================================================
