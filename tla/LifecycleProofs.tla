--------------------------- MODULE LifecycleProofs ---------------------------
(***************************************************************************)
(* Proofs about Lifecycle, for any number of clients, sockets and threads: *)
(* the types; no two connections share a player object; the end of a       *)
(* connection is noticed; nobody comes back after a logout; two players    *)
(* have one name only if their logins overlapped.                          *)
(***************************************************************************)
EXTENDS Lifecycle, TLAPS

\* TypeOK, by the groups of variables that actions leave alone together.
AcceptorType ==
  /\ pool \in Seq(Slots)
  /\ clientSock \in Slots \cup {None}
  /\ listening \in Slots \cup {None}
  /\ accepted \in Nat
  /\ fails \in 0..MaxFails

IocpType ==
  /\ ipc \in [IocpThreads -> {"wait"} \cup AcceptPlaces \cup RecvPlaces]
  /\ on \in [IocpThreads -> Slots \cup {None}]
  /\ \A t \in IocpThreads : on[t] # None <=> ipc[t] \in RecvPlaces

ClientsType ==
  /\ conn \in [Clients -> {"off", "waiting", "up", "gone"}]
  /\ slot \in [Clients -> Slots \cup {None}]
  /\ name \in [Clients -> Names]
  /\ login \in [Clients -> {"unsent", "sent", "received"}]

PlayersType ==
  /\ state \in [Slots -> {"free", "alloc", "ingame"}]
  /\ nameOf \in [Slots -> Names \cup {NoName}]
  /\ disc \subseteq Slots
  /\ scan \in [Slots -> 0..(MaxUser + 1)]
  /\ tail \subseteq disc
  /\ beside \subseteq Slots \X Slots

TrafficType ==
  /\ armed \subseteq Slots
  /\ refused \subseteq Slots
  /\ sending \in [Slots -> Nat]
  /\ sends \in 0..MaxSends
  /\ notices \in [Slots -> Nat]

JobsType == jobs \in [Slots -> Seq({"accept", "login", "logout"})]

SessionType == session \in [Slots -> {"unmarked", "marked", "ending"}]

Parts ==
  AcceptorType /\ IocpType /\ ClientsType /\ PlayersType /\ TrafficType /\ JobsType

LEMMA TypeParts ==
  (TypeOK <=> Parts /\ SessionType) /\ (TypeOK' <=> Parts' /\ SessionType')
BY DEF TypeOK, Parts, AcceptorType, IocpType, ClientsType, PlayersType, TrafficType,
   JobsType, SessionType

-----------------------------------------------------------------------------
(* The helpers that several actions use keep the types.                    *)

LEMMA PushJobType ==
  ASSUME JobsType, NEW s \in Slots, NEW job \in {"accept", "login", "logout"},
         PushJob(s, job)
  PROVE  JobsType'
BY DEF JobsType, PushJob

LEMMA MayRunType ==
  ASSUME JobsType, NEW s \in Slots, NEW job, MayRun(s, job)
  PROVE  JobsType'
<1>1. jobs[s] \in Seq({"accept", "login", "logout"}) /\ jobs[s] # <<>>
  BY DEF JobsType, MayRun
<1>2. Tail(jobs[s]) \in Seq({"accept", "login", "logout"})
  BY <1>1
<1>. QED
  BY <1>2 DEF JobsType, MayRun

LEMMA SendPacketType ==
  ASSUME sending \in [Slots -> Nat], NEW s \in Slots, SendPacket(s)
  PROVE  sending' \in [Slots -> Nat]
BY DEF SendPacket

LEMMA RecvPacketType ==
  ASSUME armed \subseteq Slots, refused \subseteq Slots, NEW s \in Slots,
         RecvPacket(s)
  PROVE  armed' \subseteq Slots /\ refused' \subseteq Slots
BY DEF RecvPacket

LEMMA InitTypes == Init => TypeOK
<1>. SUFFICES ASSUME Init PROVE TypeOK
  OBVIOUS
<1>1. AcceptorType
  <2>1. pool \in Seq(Slots)
    BY UserAssumption DEF Init, Slots
  <2>. QED
    BY <2>1, UserAssumption, BoundAssumption DEF Init, AcceptorType, Slots, None
<1>2. IocpType
  BY DEF Init, IocpType, None, AcceptPlaces, RecvPlaces
<1>3. ClientsType
  BY NameAssumption DEF Init, ClientsType
<1>4. PlayersType
  BY UserAssumption DEF Init, PlayersType
<1>5. TrafficType
  BY BoundAssumption DEF Init, TrafficType
<1>6. JobsType
  BY DEF Init, JobsType
<1>7. SessionType
  BY DEF Init, SessionType
<1>. QED
  BY <1>1, <1>2, <1>3, <1>4, <1>5, <1>6, <1>7, TypeParts DEF Parts

\* Marking and unmarking keep the type.
LEMMA SessionTypes ==
  ASSUME TypeOK, [Next]_vars
  PROVE  SessionType'
<1>1. SessionType
  BY TypeParts
<1>2. CASE UNCHANGED session
  BY <1>1, <1>2 DEF SessionType
<1>3. ASSUME NEW s, AddSessionQueue(s)
      PROVE  SessionType'
  BY <1>1, <1>3 DEF SessionType, AddSessionQueue
<1>4. CASE \E t \in IocpThreads : Accept(t) \/ Recv(t)
  BY <1>2, <1>3, <1>4 DEF Accept, AcceptBegin, AcceptPost, AcceptNext, AcceptAgain, Recv,
     RecvBegin, RecvPush, RecvAgain, Post
<1>5. CASE \E s \in Slots : Work(s) \/ Disconnect(s) \/ Inform(s)
  BY <1>2, <1>3, <1>5 DEF Work, PlayerAccept, LoginPacket, CheckLoginFail, LoginFail,
     LoginEnd, Logout, MayRun, Disconnect, Post, Inform
<1>6. CASE \E s \in Slots : EndVisit(s) \/ UnmarkInQueue(s)
  BY <1>1, <1>6 DEF SessionType, EndVisit, UnmarkInQueue
<1>7. CASE \/ \E c \in Clients : Connect(c) \/ Establish(c) \/ WriteLogin(c) \/ Leave(c)
           \/ AcceptFails
           \/ \E s \in Slots : NoticeEnd(s) \/ SendDone(s)
           \/ UNCHANGED vars
  BY <1>2, <1>7 DEF Connect, Establish, WriteLogin, Leave, AcceptFails, NoticeEnd, SendDone,
     vars
<1>. QED
  BY <1>4, <1>5, <1>6, <1>7 DEF Next

\* The steps of clients and network keep the types.
LEMMA OutsideTypes ==
  ASSUME TypeOK,
         \/ \E c \in Clients : Connect(c) \/ Establish(c) \/ WriteLogin(c) \/ Leave(c)
         \/ AcceptFails
         \/ \E s \in Slots : NoticeEnd(s) \/ SendDone(s)
  PROVE  Parts'
<1>. SUFFICES ASSUME Parts PROVE Parts'
  BY TypeParts
<1>. USE DEF Parts
<1>1. CASE \E c \in Clients : Connect(c) \/ WriteLogin(c) \/ Leave(c)
  BY ZenonT(40), <1>1 DEF Connect, WriteLogin, Leave, acceptor, iocp, players,
     traffic,
     AcceptorType, IocpType, ClientsType, PlayersType, TrafficType, JobsType
<1>2. CASE \E c \in Clients : Establish(c)
  <2>1. PICK c \in Clients : Establish(c)
    BY <1>2
  <2>2. AcceptorType'
    BY <2>1 DEF Establish, AcceptorType
  <2>3. ClientsType'
    BY <2>1 DEF Establish, ClientsType, AcceptorType
  <2>. QED
    BY <2>1, <2>2, <2>3 DEF Establish, iocp, players, traffic,
       IocpType, PlayersType, TrafficType, JobsType
<1>3. CASE AcceptFails
  <2>1. AcceptorType'
    BY <1>3, BoundAssumption DEF AcceptFails, AcceptorType
  <2>. QED
    BY <1>3, <2>1 DEF AcceptFails, iocp, clients, players, traffic,
       IocpType, ClientsType, PlayersType, TrafficType, JobsType
<1>4. CASE \E s \in Slots : NoticeEnd(s)
  <2>1. PICK s \in Slots : NoticeEnd(s)
    BY <1>4
  <2>2. TrafficType'
    BY <2>1 DEF NoticeEnd, TrafficType
  <2>. QED
    BY <2>1, <2>2 DEF NoticeEnd, acceptor, iocp, clients, players,
       AcceptorType, IocpType, ClientsType, PlayersType, JobsType
<1>5. CASE \E s \in Slots : SendDone(s)
  <2>1. PICK s \in Slots : SendDone(s)
    BY <1>5
  <2>2. TrafficType'
    BY <2>1 DEF SendDone, TrafficType
  <2>. QED
    BY <2>1, <2>2 DEF SendDone, acceptor, iocp, clients, players,
       AcceptorType, IocpType, ClientsType, PlayersType, JobsType
<1>. QED
  BY <1>1, <1>2, <1>3, <1>4, <1>5

\* The steps of CNetworkMgr::Accept keep the types.
LEMMA AcceptTypes ==
  ASSUME TypeOK, NEW t \in IocpThreads, Accept(t)
  PROVE  Parts'
<1>. SUFFICES ASSUME Parts PROVE Parts'
  BY TypeParts
<1>. USE DEF Parts
<1>1. CASE AcceptBegin(t)
  <2>1. AcceptorType'
    BY <1>1 DEF AcceptBegin, AcceptorType
  <2>2. IocpType'
    BY <1>1 DEF AcceptBegin, IocpType, On, Jump, AcceptPlaces, RecvPlaces
  <2>. QED
    BY <1>1, <2>1, <2>2 DEF AcceptBegin, clients, players, traffic,
       ClientsType, PlayersType, TrafficType, JobsType
<1>2. CASE AcceptPost(t)
  <2>1. IocpType'
    BY <1>2 DEF AcceptPost, IocpType, On, Jump, AcceptPlaces, RecvPlaces
  <2>2. JobsType'
    <3>1. CASE clientSock \in Slots
      BY <1>2, <3>1, PushJobType DEF AcceptPost, Post
    <3>2. CASE clientSock \notin Slots
      BY <1>2, <3>2 DEF AcceptPost, Post, PushJob, JobsType
    <3>. QED
      BY <3>1, <3>2
  <2>. QED
    BY <1>2, <2>1, <2>2 DEF AcceptPost, acceptor, clients, players, traffic,
       AcceptorType, ClientsType, PlayersType, TrafficType
<1>3. CASE AcceptNext(t)
  <2>1. AcceptorType'
    <3>1. CASE pool # <<>>
      <4>1. Head(pool) \in Slots /\ Tail(pool) \in Seq(Slots)
        BY <3>1 DEF AcceptorType
      <4>. QED
        BY <1>3, <3>1, <4>1 DEF AcceptNext, AcceptorType
    <3>2. CASE pool = <<>>
      BY <1>3, <3>2 DEF AcceptNext, AcceptorType
    <3>. QED
      BY <3>1, <3>2
  <2>2. IocpType'
    BY <1>3 DEF AcceptNext, IocpType, On, Jump, AcceptPlaces, RecvPlaces
  <2>. QED
    BY <1>3, <2>1, <2>2 DEF AcceptNext, clients, players, traffic,
       ClientsType, PlayersType, TrafficType, JobsType
<1>4. CASE AcceptAgain(t)
  <2>1. AcceptorType'
    BY <1>4 DEF AcceptAgain, AcceptorType
  <2>2. IocpType'
    BY <1>4 DEF AcceptAgain, IocpType, On, Jump, AcceptPlaces, RecvPlaces
  <2>. QED
    BY <1>4, <2>1, <2>2 DEF AcceptAgain, clients, players, traffic,
       ClientsType, PlayersType, TrafficType, JobsType
<1>. QED
  BY <1>1, <1>2, <1>3, <1>4 DEF Accept

\* The steps of CNetworkMgr::Recv and Disconnect keep the types.
LEMMA RecvTypes ==
  ASSUME TypeOK,
         \/ \E t \in IocpThreads : Recv(t)
         \/ \E s \in Slots : Disconnect(s)
  PROVE  Parts'
<1>. SUFFICES ASSUME Parts PROVE Parts'
  BY TypeParts
<1>. USE DEF Parts
<1>1. CASE \E t \in IocpThreads, s \in Slots : RecvBegin(t, s)
  <2>1. PICK t \in IocpThreads, s \in Slots : RecvBegin(t, s)
    BY <1>1
  <2>2. IocpType'
    <3>1. s # None /\ s \in Slots \cup {None}
      BY UserAssumption DEF Slots, None
    <3>. QED
      BY <2>1, <3>1 DEF RecvBegin, IocpType, On, Jump, AcceptPlaces, RecvPlaces
  <2>3. ClientsType'
    BY <2>1 DEF RecvBegin, ClientsType
  <2>4. TrafficType'
    BY <2>1 DEF RecvBegin, TrafficType
  <2>. QED
    BY <2>1, <2>2, <2>3, <2>4 DEF RecvBegin, acceptor, players,
       AcceptorType, PlayersType, JobsType
<1>2. CASE \E t \in IocpThreads : RecvPush(t)
  <2>1. PICK t \in IocpThreads : RecvPush(t)
    BY <1>2
  <2>2. on[t] \in Slots
    BY <2>1 DEF RecvPush, On, IocpType, RecvPlaces
  <2>3. IocpType'
    BY <2>1 DEF RecvPush, IocpType, On, Jump, AcceptPlaces, RecvPlaces
  <2>4. JobsType'
    BY <2>1, <2>2, PushJobType DEF RecvPush
  <2>. QED
    BY <2>1, <2>3, <2>4 DEF RecvPush, acceptor, clients, players, traffic,
       AcceptorType, ClientsType, PlayersType, TrafficType
<1>3. CASE \E t \in IocpThreads : RecvAgain(t)
  <2>1. PICK t \in IocpThreads : RecvAgain(t)
    BY <1>3
  <2>2. on[t] \in Slots
    BY <2>1 DEF RecvAgain, On, IocpType, RecvPlaces
  <2>3. IocpType'
    BY <2>1 DEF RecvAgain, IocpType, On, Jump, AcceptPlaces, RecvPlaces
  <2>4. TrafficType'
    BY <2>1, <2>2, RecvPacketType DEF RecvAgain, TrafficType
  <2>. QED
    BY <2>1, <2>3, <2>4 DEF RecvAgain, acceptor, clients, players,
       AcceptorType, ClientsType, PlayersType, JobsType
<1>4. CASE \E s \in Slots : Disconnect(s)
  <2>1. PICK s \in Slots : Disconnect(s)
    BY <1>4
  <2>2. TrafficType'
    BY <2>1 DEF Disconnect, TrafficType
  <2>3. JobsType'
    BY <2>1, PushJobType DEF Disconnect, Post
  <2>. QED
    BY <2>1, <2>2, <2>3 DEF Disconnect, acceptor, iocp, clients, players,
       AcceptorType, IocpType, ClientsType, PlayersType
<1>. QED
  BY <1>1, <1>2, <1>3, <1>4 DEF Recv

\* The jobs, and what others send the player, keep the types.
LEMMA WorkTypes ==
  ASSUME TypeOK, NEW s \in Slots,
         Work(s) \/ EndVisit(s) \/ UnmarkInQueue(s) \/ Inform(s)
  PROVE  Parts'
<1>. SUFFICES ASSUME Parts PROVE Parts'
  BY TypeParts
<1>. USE DEF Parts
<1>1. CASE PlayerAccept(s)
  <2>1. PlayersType'
    BY <1>1 DEF PlayerAccept, PlayersType
  <2>2. TrafficType'
    BY <1>1, RecvPacketType DEF PlayerAccept, TrafficType
  <2>3. JobsType'
    BY <1>1, MayRunType DEF PlayerAccept
  <2>. QED
    BY <1>1, <2>1, <2>2, <2>3 DEF PlayerAccept, acceptor, iocp, clients,
       AcceptorType, IocpType, ClientsType
<1>2. CASE LoginPacket(s)
  <2>1. PlayersType'
    BY <1>2, UserAssumption DEF LoginPacket, PlayersType, Slots
  <2>2. JobsType'
    BY <1>2, MayRunType DEF LoginPacket
  <2>. QED
    BY <1>2, <2>1, <2>2 DEF LoginPacket, acceptor, iocp, clients, traffic,
       AcceptorType, IocpType, ClientsType, TrafficType
<1>3. CASE CheckLoginFail(s)
  <2>1. scan[s] + 1 \in 0..(MaxUser + 1)
    BY <1>3, UserAssumption DEF CheckLoginFail, Slots
  <2>2. PlayersType'
    BY <1>3, <2>1 DEF CheckLoginFail, PlayersType
  <2>. QED
    BY <1>3, <2>2 DEF CheckLoginFail, acceptor, iocp, clients, traffic,
       AcceptorType, IocpType, ClientsType, TrafficType, JobsType
<1>4. CASE LoginFail(s)
  <2>1. PlayersType'
    BY <1>4, UserAssumption DEF LoginFail, PlayersType
  <2>2. TrafficType'
    BY <1>4, SendPacketType DEF LoginFail, TrafficType
  <2>. QED
    BY <1>4, <2>1, <2>2 DEF LoginFail, acceptor, iocp, clients,
       AcceptorType, IocpType, ClientsType, JobsType
<1>5. CASE LoginEnd(s)
  <2>1. PICK c \in Who(s) : nameOf' = [nameOf EXCEPT ![s] = name[c]]
    BY <1>5 DEF LoginEnd
  <2>2. name[c] \in Names
    BY <2>1 DEF Who, ClientsType
  <2>3. PlayersType'
    BY <1>5, <2>1, <2>2, UserAssumption DEF LoginEnd, PlayersType
  <2>4. TrafficType'
    BY <1>5, SendPacketType DEF LoginEnd, TrafficType
  <2>. QED
    BY <1>5, <2>3, <2>4 DEF LoginEnd, acceptor, iocp, clients,
       AcceptorType, IocpType, ClientsType, JobsType
<1>6. CASE Logout(s)
  <2>1. PlayersType'
    BY <1>6 DEF Logout, PlayersType
  <2>2. ClientsType'
    BY <1>6 DEF Logout, ClientsType
  <2>3. JobsType'
    BY <1>6, MayRunType DEF Logout
  <2>. QED
    BY <1>6, <2>1, <2>2, <2>3 DEF Logout, acceptor, iocp, traffic,
       AcceptorType, IocpType, TrafficType
<1>7. CASE EndVisit(s)
  <2>1. PlayersType'
    BY <1>7 DEF EndVisit, PlayersType
  <2>. QED
    BY <1>7, <2>1 DEF EndVisit, acceptor, iocp, clients, traffic,
       AcceptorType, IocpType, ClientsType, TrafficType, JobsType
<1>8. CASE Inform(s)
  <2>1. sends' \in 0..MaxSends
    BY <1>8, BoundAssumption DEF Inform, TrafficType
  <2>2. TrafficType'
    BY <1>8, <2>1, SendPacketType DEF Inform, TrafficType
  <2>. QED
    BY <1>8, <2>2 DEF Inform, acceptor, iocp, clients, players,
       AcceptorType, IocpType, ClientsType, PlayersType, JobsType
<1>9. CASE UnmarkInQueue(s)
  BY <1>9 DEF UnmarkInQueue, acceptor, iocp, clients, players, traffic,
     AcceptorType, IocpType, ClientsType, PlayersType, TrafficType, JobsType
<1>. QED
  BY <1>1, <1>2, <1>3, <1>4, <1>5, <1>6, <1>7, <1>8, <1>9 DEF Work

LEMMA StepTypes == TypeOK /\ [Next]_vars => TypeOK'
<1>. SUFFICES ASSUME TypeOK, [Next]_vars PROVE TypeOK'
  OBVIOUS
<1>1. CASE UNCHANGED vars
  BY <1>1, TypeParts DEF vars, acceptor, iocp, clients, players, traffic, Parts,
     AcceptorType, IocpType, ClientsType, PlayersType, TrafficType, JobsType, SessionType
<1>2. CASE Next
  <2>1. Parts'
    BY <1>2, OutsideTypes, AcceptTypes, RecvTypes, WorkTypes DEF Next
  <2>. QED
    BY <2>1, SessionTypes, TypeParts
<1>. QED
  BY <1>1, <1>2

\* Every variable has its type at all times.
THEOREM TypeInvariant == Spec => []TypeOK
BY InitTypes, StepTypes, PTL DEF Spec

-----------------------------------------------------------------------------
(* One connection per player object.  A socket is in the pool, or in       *)
(* m_clientSock, or accepted, and moves in this direction only; at most    *)
(* one accept is under way, or its completion, or the handler of it.       *)

OneAccept ==
  /\ listening # None => accepted = 0
  /\ accepted <= 1
  /\ listening # None \/ accepted > 0 => \A t \in IocpThreads : ipc[t] \notin AcceptPlaces
  /\ \A t, u \in IocpThreads :
       ipc[t] \in AcceptPlaces /\ ipc[u] \in AcceptPlaces => t = u

FreshPool ==
  /\ \A i \in 1..Len(pool) : pool[i] # clientSock
  /\ \A i \in 1..Len(pool) : \A c \in Clients : slot[c] # pool[i]
  /\ \A i, j \in 1..Len(pool) : pool[i] = pool[j] => i = j

FreshSocket ==
  \A t \in IocpThreads : On(t, "accept") /\ clientSock # None => Who(clientSock) = {}

SlotInv == OneConnection /\ OneAccept /\ FreshPool /\ FreshSocket

LEMMA SlotInit == Init => SlotInv
<1>. SUFFICES ASSUME Init PROVE SlotInv
  OBVIOUS
<1>1. OneConnection
  BY UserAssumption DEF Init, OneConnection, Who, On, None
<1>2. OneAccept
  BY DEF Init, OneAccept, AcceptPlaces
<1>3. FreshPool
  <2>1. Len(pool) = MaxUser - 1 /\ \A i \in 1..Len(pool) : pool[i] = i + 1
    BY UserAssumption DEF Init
  <2>. QED
    BY <2>1, UserAssumption DEF Init, FreshPool, None
<1>4. FreshSocket
  BY DEF Init, FreshSocket, On
<1>. QED
  BY <1>1, <1>2, <1>3, <1>4 DEF SlotInv

\* What the invariant is about.
SlotVars == <<pool, clientSock, listening, accepted, ipc, slot>>

LEMMA SlotStutter == SlotInv /\ UNCHANGED SlotVars => SlotInv'
BY DEF SlotInv, SlotVars, OneConnection, OneAccept, FreshPool, FreshSocket, Who, On

\* AcceptEx completes: its socket was nobody's.
LEMMA EstablishSlots ==
  ASSUME TypeOK, SlotInv, NEW c \in Clients, Establish(c)
  PROVE  SlotInv'
<1>1. /\ listening = clientSock /\ listening # None
      /\ \A d \in Clients : slot[d] # listening
      /\ accepted = 0
      /\ \A t \in IocpThreads : ipc[t] \notin AcceptPlaces
  BY DEF SlotInv, OneConnection, OneAccept, Establish, Who
<1>2. slot' = [slot EXCEPT ![c] = listening] /\ listening' = None /\ accepted' = 1
      /\ UNCHANGED <<pool, clientSock, ipc>>
  BY <1>1 DEF Establish, iocp
<1>3. slot \in [Clients -> Slots \cup {None}]
  BY DEF TypeOK
<1>4. OneConnection'
  BY <1>1, <1>2, <1>3 DEF SlotInv, OneConnection, On, AcceptPlaces
<1>5. OneAccept'
  BY <1>1, <1>2 DEF SlotInv, OneAccept
<1>6. FreshPool'
  BY <1>1, <1>2, <1>3 DEF SlotInv, FreshPool
<1>7. FreshSocket'
  BY <1>1, <1>2 DEF FreshSocket, On, AcceptPlaces
<1>. QED
  BY <1>4, <1>5, <1>6, <1>7 DEF SlotInv

\* AcceptEx fails, and its socket remains nobody's.
LEMMA AcceptFailsSlots ==
  ASSUME TypeOK, SlotInv, AcceptFails
  PROVE  SlotInv'
<1>1. accepted = 0 /\ \A t \in IocpThreads : ipc[t] \notin AcceptPlaces
  BY DEF SlotInv, OneAccept, AcceptFails
<1>2. listening' = None /\ accepted' = 1 /\ UNCHANGED <<pool, clientSock, ipc, slot>>
  BY <1>1 DEF AcceptFails, iocp, clients
<1>. QED
  BY <1>1, <1>2 DEF SlotInv, OneConnection, OneAccept, FreshPool, FreshSocket, Who, On,
     AcceptPlaces

\* The steps of Accept: the next socket comes from the pool, where all are nobody's.
LEMMA AcceptSlots ==
  ASSUME TypeOK, SlotInv, NEW t \in IocpThreads, Accept(t)
  PROVE  SlotInv'
<1>0. /\ ipc \in [IocpThreads -> {"wait"} \cup AcceptPlaces \cup RecvPlaces]
      /\ accepted \in Nat /\ pool \in Seq(Slots)
  BY DEF TypeOK
<1>1. CASE AcceptBegin(t)
  <2>1. accepted = 1 /\ accepted' = 0 /\ listening = None
        /\ \A u \in IocpThreads : ipc[u] \notin AcceptPlaces
    BY <1>0, <1>1 DEF SlotInv, OneAccept, AcceptBegin
  <2>2. UNCHANGED <<pool, clientSock, listening, slot>>
    BY <1>1 DEF AcceptBegin, clients
  <2>3. \/ UNCHANGED ipc
        \/ clientSock # None /\ ipc' = [ipc EXCEPT ![t] = "post"]
    BY <1>1 DEF AcceptBegin, Jump
  <2>4. \A u \in IocpThreads : ipc'[u] \in AcceptPlaces =>
          u = t /\ ipc'[u] = "post" /\ clientSock # None
    BY <1>0, <2>1, <2>3
  <2>. QED
    BY <2>1, <2>2, <2>4
       DEF SlotInv, OneConnection, OneAccept, FreshPool, FreshSocket, Who, On, AcceptPlaces
<1>2. CASE AcceptPost(t)
  <2>1. ipc' = [ipc EXCEPT ![t] = "next"] /\ ipc[t] = "post"
        /\ UNCHANGED <<pool, clientSock, listening, accepted, slot>>
    BY <1>2 DEF AcceptPost, acceptor, clients, On, Jump
  <2>. QED
    BY <1>0, <2>1
       DEF SlotInv, OneConnection, OneAccept, FreshPool, FreshSocket, Who, On, AcceptPlaces
<1>3. CASE AcceptNext(t)
  <2>1. /\ ipc' = [ipc EXCEPT ![t] = "accept"] /\ ipc[t] = "next"
        /\ UNCHANGED <<listening, accepted, slot>>
    BY <1>3 DEF AcceptNext, clients, On, Jump
  <2>2. listening = None /\ accepted = 0
        /\ \A u \in IocpThreads : u # t => ipc[u] \notin AcceptPlaces
    BY <1>0, <2>1 DEF SlotInv, OneAccept, AcceptPlaces
  <2>3. OneAccept'
    BY <1>0, <2>1, <2>2 DEF OneAccept, AcceptPlaces
  <2>4. OneConnection'
    BY <1>0, <2>1, <2>2 DEF SlotInv, OneConnection, On, AcceptPlaces
  <2>5. CASE pool # <<>>
    <3>1. clientSock' = pool[1] /\ pool' = Tail(pool) /\ 1 \in 1..Len(pool)
      BY <1>0, <1>3, <2>5 DEF AcceptNext
    <3>2. \A i \in 1..Len(pool') : pool'[i] = pool[i + 1] /\ i + 1 \in 1..Len(pool)
                                   /\ i + 1 # 1
      BY <1>0, <2>5, <3>1
    <3>3. FreshPool'
      <4>1. \A i \in 1..Len(pool') : pool'[i] # clientSock'
        BY <3>1, <3>2 DEF SlotInv, FreshPool
      <4>2. \A i \in 1..Len(pool') : \A c \in Clients : slot'[c] # pool'[i]
        BY <2>1, <3>2 DEF SlotInv, FreshPool
      <4>3. \A i, j \in 1..Len(pool') : pool'[i] = pool'[j] => i = j
        BY <3>2 DEF SlotInv, FreshPool
      <4>. QED
        BY <4>1, <4>2, <4>3 DEF FreshPool
    <3>4. FreshSocket'
      BY <2>1, <3>1 DEF SlotInv, FreshPool, FreshSocket, Who
    <3>. QED
      BY <2>3, <2>4, <3>3, <3>4 DEF SlotInv
  <2>6. CASE pool = <<>>
    <3>1. clientSock' = None /\ pool' = pool
      BY <1>3, <2>6 DEF AcceptNext
    <3>2. FreshPool' /\ FreshSocket'
      BY <2>6, <3>1 DEF FreshPool, FreshSocket
    <3>. QED
      BY <2>3, <2>4, <3>2 DEF SlotInv
  <2>. QED
    BY <2>5, <2>6
<1>4. CASE AcceptAgain(t)
  <2>1. /\ ipc' = [ipc EXCEPT ![t] = "wait"] /\ ipc[t] = "accept"
        /\ listening' = clientSock /\ UNCHANGED <<pool, clientSock, accepted, slot>>
    BY <1>4 DEF AcceptAgain, clients, On, Jump
  <2>2. accepted = 0 /\ \A u \in IocpThreads : u # t => ipc[u] \notin AcceptPlaces
    BY <1>0, <2>1 DEF SlotInv, OneAccept, AcceptPlaces
  <2>3. \A u \in IocpThreads : ipc'[u] \notin AcceptPlaces
    BY <1>0, <2>1, <2>2 DEF AcceptPlaces
  <2>4. OneConnection'
    BY <2>1, <2>3 DEF SlotInv, OneConnection, FreshSocket, Who, On, AcceptPlaces
  <2>5. OneAccept' /\ FreshSocket'
    BY <2>1, <2>2, <2>3 DEF OneAccept, FreshSocket, On, AcceptPlaces
  <2>6. FreshPool'
    BY <2>1 DEF SlotInv, FreshPool
  <2>. QED
    BY <2>4, <2>5, <2>6 DEF SlotInv
<1>. QED
  BY <1>1, <1>2, <1>3, <1>4 DEF Accept

\* The steps of Recv move no thread to or from the places of Accept.
LEMMA RecvSlots ==
  ASSUME TypeOK, SlotInv, NEW t \in IocpThreads, Recv(t)
  PROVE  SlotInv'
<1>1. UNCHANGED <<pool, clientSock, listening, accepted, slot>>
  BY DEF Recv, RecvBegin, RecvPush, RecvAgain, acceptor, clients
<1>2. \A u \in IocpThreads : \/ ipc'[u] = ipc[u]
                             \/ ipc'[u] \notin AcceptPlaces
  BY DEF TypeOK, Recv, RecvBegin, RecvPush, RecvAgain, Jump, AcceptPlaces
<1>. QED
  BY <1>1, <1>2
     DEF SlotInv, OneConnection, OneAccept, FreshPool, FreshSocket, Who, On, AcceptPlaces

\* Everything else leaves sockets and accepts alone.
LEMMA OtherSlots ==
  ASSUME \/ \E c \in Clients : Connect(c) \/ WriteLogin(c) \/ Leave(c)
         \/ \E s \in Slots : \/ Work(s) \/ EndVisit(s) \/ UnmarkInQueue(s)
                             \/ NoticeEnd(s) \/ SendDone(s) \/ Disconnect(s) \/ Inform(s)
         \/ UNCHANGED vars
  PROVE  UNCHANGED SlotVars
BY DEF SlotVars, vars, acceptor, iocp, clients, Connect, WriteLogin, Leave, Work,
   PlayerAccept, LoginPacket, CheckLoginFail, LoginFail, LoginEnd, Logout, EndVisit,
   UnmarkInQueue, NoticeEnd, SendDone, Disconnect, Inform

LEMMA SlotStep == TypeOK /\ SlotInv /\ [Next]_vars => SlotInv'
<1>. SUFFICES ASSUME TypeOK, SlotInv, [Next]_vars PROVE SlotInv'
  OBVIOUS
<1>1. CASE \E c \in Clients : Establish(c)
  BY <1>1, EstablishSlots
<1>2. CASE AcceptFails
  BY <1>2, AcceptFailsSlots
<1>3. CASE \E t \in IocpThreads : Accept(t) \/ Recv(t)
  BY <1>3, AcceptSlots, RecvSlots
<1>. QED
  BY <1>1, <1>2, <1>3, OtherSlots, SlotStutter DEF Next

\* No two connections share a player object, and an accept is posted for the
\* player object whose socket was accepted.
THEOREM OneConnectionInvariant == Spec => []OneConnection
<1>1. SlotInv => OneConnection
  BY DEF SlotInv
<1>. QED
  BY <1>1, SlotInit, SlotStep, TypeInvariant, PTL DEF Spec

-----------------------------------------------------------------------------
(* The life of a slot: its socket waits, its player is accepted, the login *)
(* is received, pushed, run; then come logouts.  What follows says of      *)
(* every stage what cannot have happened yet or any more.                  *)

\* Neither accepted nor logged out so far.
Unready(s) == state[s] = "free" /\ s \notin disc

\* The job PlayerAccept of the slot is still to be posted.
Unposted(s) ==
  \/ \E i \in 1..Len(pool) : pool[i] = s
  \/ s = clientSock /\ \A t \in IocpThreads : ~On(t, "next")

Quiet(s) ==
  Unready(s) =>
    /\ s \notin armed /\ notices[s] = 0 /\ scan[s] = 0
    /\ \A t \in IocpThreads : on[t] # s
    /\ jobs[s] = <<>> \/ jobs[s] = <<"accept">>

AcceptedOnce(s) ==
  /\ Unposted(s) => Unready(s) /\ jobs[s] = <<>>
  /\ ~Unready(s) => \A i \in 1..Len(jobs[s]) : jobs[s][i] # "accept"

\* The login of a client has not been received.
Unread(s) ==
  \A c \in Clients : slot[c] = s /\ login[c] # "received" =>
    /\ state[s] # "ingame" /\ scan[s] = 0
    /\ \A i \in 1..Len(jobs[s]) : jobs[s][i] # "login"
    /\ \A t \in IocpThreads : on[t] # s
    /\ s \in armed => notices[s] = 0 /\ jobs[s] = <<>> /\ s \notin disc

Pushing(s) ==
  \A t \in IocpThreads : on[t] = s /\ ipc[t] = "push" =>
    /\ state[s] = "alloc" /\ s \notin armed /\ notices[s] = 0
    /\ jobs[s] = <<>> /\ scan[s] = 0
    /\ \A u \in IocpThreads : on[u] = s => u = t

LoginFirst(s) ==
  \A i \in 1..Len(jobs[s]) : jobs[s][i] = "login" =>
    i = 1 /\ state[s] = "alloc" /\ scan[s] = 0

Asking(s) == scan[s] # 0 => state[s] = "alloc"

SentInGame(s) == sending[s] > 0 => state[s] = "ingame" \/ s \in disc

Gone(s) == s \in disc => state[s] = "free"

\* Noticed, whether the connection has ended or not.
Watched(s) ==
  state[s] # "free" /\ s \notin refused =>
    \/ s \in armed
    \/ notices[s] > 0
    \/ \E t \in IocpThreads : on[t] = s
    \/ \E i \in 1..Len(jobs[s]) : jobs[s][i] = "logout"

Life(s) ==
  /\ Quiet(s) /\ AcceptedOnce(s) /\ Unread(s) /\ Pushing(s) /\ LoginFirst(s)
  /\ Asking(s) /\ SentInGame(s) /\ Gone(s) /\ Watched(s)

LifeInv == \A s \in Slots : Life(s)

\* A login that has looked at a player in game under its name overlapped his.
Faced(s) ==
  \A r \in Slots : \A c \in Clients :
    /\ r # s /\ slot[c] = s /\ r < scan[s]
    /\ state[r] = "ingame" /\ nameOf[r] = name[c]
    => <<r, s>> \in beside /\ <<s, r>> \in beside

BothAsk ==
  \A r, s \in Slots : r # s /\ scan[r] # 0 /\ scan[s] # 0 => <<r, s>> \in beside

NameInv ==
  /\ NamesakesRaced
  /\ BothAsk
  /\ \A s \in Slots : Faced(s)

LEMMA LifeInit == Init => LifeInv
<1>. SUFFICES ASSUME Init, NEW s \in Slots PROVE Life(s)
  BY DEF LifeInv
<1>1. /\ state[s] = "free" /\ s \notin disc /\ s \notin armed /\ notices[s] = 0
      /\ scan[s] = 0 /\ sending[s] = 0 /\ jobs[s] = <<>>
      /\ \A t \in IocpThreads : on[t] # s
  BY UserAssumption DEF Init, Slots, None
<1>2. \A i \in 1..Len(jobs[s]) : FALSE
  BY <1>1
<1>. QED
  BY <1>1, <1>2 DEF Life, Unready, Quiet, AcceptedOnce, Unread, Pushing, LoginFirst, Asking,
     SentInGame, Gone, Watched

\* What the life of a slot depends on does not change, or only for the better.
SameSlot(s) ==
  /\ state'[s] = state[s] /\ (s \in disc' <=> s \in disc) /\ scan'[s] = scan[s]
  /\ (s \in armed' <=> s \in armed) /\ (s \in refused => s \in refused')
  /\ notices'[s] = notices[s] /\ jobs'[s] = jobs[s]
  /\ sending'[s] > 0 => sending[s] > 0 \/ state[s] = "ingame"
  /\ \A t \in IocpThreads : (on'[t] = s <=> on[t] = s) /\ (on[t] = s => ipc'[t] = ipc[t])
  /\ Unposted(s)' => Unposted(s)
  /\ \A c \in Clients : slot'[c] = s /\ login'[c] # "received" =>
                        slot[c] = s /\ login[c] # "received"

LEMMA SameLife ==
  ASSUME NEW s \in Slots, Life(s), SameSlot(s)
  PROVE  Life(s)'
<1>. USE DEF SameSlot, Life, Unready
<1>1. Quiet(s)'
  BY DEF Quiet
<1>2. AcceptedOnce(s)'
  BY DEF AcceptedOnce
<1>3. Unread(s)'
  BY DEF Unread
<1>4. Pushing(s)'
  BY DEF Pushing
<1>5. LoginFirst(s)' /\ Asking(s)' /\ SentInGame(s)' /\ Gone(s)'
  BY DEF LoginFirst, Asking, SentInGame, Gone
<1>6. Watched(s)'
  BY DEF Watched
<1>. QED
  BY <1>1, <1>2, <1>3, <1>4, <1>5, <1>6

\* Unposted depends on the acceptor alone.
LEMMA SameUnposted ==
  ASSUME UNCHANGED <<pool, clientSock>>,
         \A t \in IocpThreads : ipc'[t] = "next" <=> ipc[t] = "next",
         NEW s
  PROVE  Unposted(s)' <=> Unposted(s)
BY DEF Unposted, On

\* The steps of Accept.
LEMMA AcceptLife ==
  ASSUME TypeOK, SlotInv, LifeInv, NEW t \in IocpThreads, Accept(t)
  PROVE  LifeInv'
<1>0. /\ ipc \in [IocpThreads -> {"wait"} \cup AcceptPlaces \cup RecvPlaces]
      /\ pool \in Seq(Slots)
      /\ jobs \in [Slots -> Seq({"accept", "login", "logout"})]
      /\ \A u \in IocpThreads : on[u] # None <=> ipc[u] \in RecvPlaces
  BY DEF TypeOK
<1>1. UNCHANGED <<on, state, disc, scan, armed, refused, notices, sending, slot, login>>
  BY DEF Accept, AcceptBegin, AcceptPost, AcceptNext, AcceptAgain, players, traffic, clients
<1>2. ipc[t] \notin RecvPlaces /\ on[t] = None
      /\ \A u \in IocpThreads : u # t => ipc'[u] = ipc[u]
  BY <1>0 DEF Accept, AcceptBegin, AcceptPost, AcceptNext, AcceptAgain, On, Jump, RecvPlaces,
     TypeOK
<1>3. \A s \in Slots : s # None
  BY UserAssumption DEF Slots, None
<1>4. ASSUME NEW s \in Slots, jobs'[s] = jobs[s], Unposted(s)' => Unposted(s)
      PROVE  Life(s)'
  <2>1. SameSlot(s)
    BY <1>1, <1>2, <1>3, <1>4 DEF SameSlot
  <2>. QED
    BY <2>1, SameLife DEF LifeInv
<1>5. CASE AcceptBegin(t) \/ AcceptAgain(t)
  <2>1. UNCHANGED <<pool, clientSock, jobs>>
    BY <1>5 DEF AcceptBegin, AcceptAgain
  <2>2. \A u \in IocpThreads : ipc'[u] = "next" <=> ipc[u] = "next"
    BY <1>0, <1>2, <1>5 DEF AcceptBegin, AcceptAgain, On, Jump
  <2>. QED
    BY <1>4, <2>1, <2>2, SameUnposted DEF LifeInv
<1>6. CASE AcceptPost(t)
  <2>1. /\ ipc[t] = "post" /\ ipc'[t] = "next" /\ UNCHANGED <<pool, clientSock>>
        /\ jobs' = [jobs EXCEPT ![clientSock] = Append(@, "accept")]
    BY <1>0, <1>6 DEF AcceptPost, On, Jump, Post, PushJob, acceptor
  <2>2. clientSock \in Slots
    BY <2>1 DEF SlotInv, OneConnection, On, TypeOK, None
  <2>3. \A u \in IocpThreads : ~On(u, "next")
    BY <2>1 DEF SlotInv, OneAccept, On, AcceptPlaces
  <2>4. Unposted(clientSock) /\ ~Unposted(clientSock)'
    BY <2>1, <2>3 DEF Unposted, SlotInv, FreshPool, On
  <2>5. ASSUME NEW s \in Slots, s # clientSock PROVE Life(s)'
    <3>1. jobs'[s] = jobs[s]
      BY <1>0, <2>1, <2>5
    <3>2. Unposted(s)' => Unposted(s)
      BY <2>1, <2>5 DEF Unposted
    <3>. QED
      BY <1>4, <3>1, <3>2
  <2>6. Life(clientSock)'
    <3> DEFINE s == clientSock
    <3>1. Life(s) /\ s' = s
      BY <2>1, <2>2 DEF LifeInv
    <3>2. Unready(s) /\ jobs[s] = <<>>
      BY <2>4, <3>1 DEF Life, AcceptedOnce
    <3>3. jobs'[s] = <<"accept">>
      BY <1>0, <2>1, <2>2, <3>2
    <3>4. /\ s \notin armed /\ notices[s] = 0 /\ scan[s] = 0 /\ state[s] = "free"
          /\ s \notin disc /\ ~(sending[s] > 0) /\ \A u \in IocpThreads : on[u] # s
      BY <3>1, <3>2 DEF Life, Quiet, Unready, SentInGame
    <3>5. \A i \in 1..Len(jobs'[s]) : jobs'[s][i] = "accept"
      BY <3>3
    <3>. QED
      BY <1>1, <2>4, <3>1, <3>3, <3>4, <3>5 DEF Life, Unready, Quiet, AcceptedOnce, Unread,
         Pushing, LoginFirst, Asking, SentInGame, Gone, Watched
  <2>. QED
    BY <2>1, <2>5, <2>6 DEF LifeInv
<1>7. CASE AcceptNext(t)
  <2>1. UNCHANGED jobs
    BY <1>7 DEF AcceptNext
  <2>2. ASSUME NEW s \in Slots, Unposted(s)' PROVE Unposted(s)
    <3>1. CASE pool # <<>>
      <4>1. clientSock' = pool[1] /\ pool' = Tail(pool) /\ 1 \in 1..Len(pool)
        BY <1>0, <1>7, <3>1 DEF AcceptNext
      <4>2. \A i \in 1..Len(pool') : pool'[i] = pool[i + 1] /\ i + 1 \in 1..Len(pool)
        BY <1>0, <3>1, <4>1
      <4>. QED
        BY <2>2, <4>1, <4>2 DEF Unposted
    <3>2. CASE pool = <<>>
      BY <1>3, <1>7, <2>2, <3>2 DEF AcceptNext, Unposted
    <3>. QED
      BY <3>1, <3>2
  <2>. QED
    BY <1>4, <2>1, <2>2 DEF LifeInv
<1>. QED
  BY <1>5, <1>6, <1>7 DEF Accept

\* The steps of clients and network.
LEMMA OutsideLife ==
  ASSUME TypeOK, SlotInv, LifeInv,
         \/ \E c \in Clients : Connect(c) \/ Establish(c) \/ WriteLogin(c) \/ Leave(c)
         \/ AcceptFails
         \/ \E s \in Slots : NoticeEnd(s) \/ SendDone(s)
  PROVE  LifeInv'
<1>0. /\ slot \in [Clients -> Slots \cup {None}]
      /\ login \in [Clients -> {"unsent", "sent", "received"}]
      /\ notices \in [Slots -> Nat] /\ sending \in [Slots -> Nat]
      /\ jobs \in [Slots -> Seq({"accept", "login", "logout"})]
  BY DEF TypeOK
<1>1. CASE AcceptFails \/ \E c \in Clients : Connect(c) \/ WriteLogin(c) \/ Leave(c)
  <2>1. /\ UNCHANGED <<pool, clientSock, ipc, on, state, disc, scan, armed, refused, notices,
                       sending, slot, jobs>>
        /\ \A d \in Clients : login'[d] # "received" => login[d] # "received"
    BY <1>0, <1>1 DEF AcceptFails, Connect, WriteLogin, Leave, acceptor, iocp, players,
       traffic, clients
  <2>2. ASSUME NEW s \in Slots PROVE Life(s)'
    <3>1. SameSlot(s)
      BY <2>1, SameUnposted DEF SameSlot
    <3>. QED
      BY <3>1, SameLife DEF LifeInv
  <2>. QED
    BY <2>2 DEF LifeInv
<1>2. CASE \E c \in Clients : Establish(c)
  <2>1. PICK c \in Clients : Establish(c)
    BY <1>2
  <2>2. /\ UNCHANGED <<pool, clientSock, ipc, on, state, disc, scan, armed, refused, notices,
                       sending, login, jobs>>
        /\ slot' = [slot EXCEPT ![c] = listening]
    BY <2>1 DEF Establish, iocp, players, traffic
  <2>3. listening # None /\ listening = clientSock
        /\ \A t \in IocpThreads : ipc[t] \notin AcceptPlaces
    BY <2>1 DEF Establish, SlotInv, OneConnection, OneAccept
  <2>4. ASSUME NEW s \in Slots, s # listening PROVE Life(s)'
    <3>1. SameSlot(s)
      BY <1>0, <2>2, <2>4, SameUnposted DEF SameSlot
    <3>. QED
      BY <3>1, SameLife DEF LifeInv
  <2>5. ASSUME NEW s \in Slots, s = listening PROVE Life(s)'
    <3>1. Unposted(s)
      BY <2>3, <2>5 DEF Unposted, On, AcceptPlaces
    <3>2. Life(s) /\ Unready(s) /\ jobs[s] = <<>>
      BY <3>1 DEF LifeInv, Life, AcceptedOnce
    <3>3. /\ state[s] = "free" /\ s \notin armed /\ scan[s] = 0
          /\ \A t \in IocpThreads : on[t] # s
          /\ \A i \in 1..Len(jobs[s]) : FALSE
      BY <3>2 DEF Life, Quiet, Unready
    <3>4. Unread(s)'
      BY <2>2, <3>3 DEF Unread
    <3>5. Unposted(s)' <=> Unposted(s)
      BY <2>2, SameUnposted
    <3>. QED
      BY <2>2, <3>2, <3>4, <3>5 DEF Life, Unready, Quiet, AcceptedOnce, Pushing, LoginFirst,
         Asking, SentInGame, Gone, Watched
  <2>. QED
    BY <2>4, <2>5 DEF LifeInv
<1>3. CASE \E s \in Slots : NoticeEnd(s) \/ SendDone(s)
  <2>1. PICK s \in Slots : NoticeEnd(s) \/ SendDone(s)
    BY <1>3
  <2>2. /\ UNCHANGED <<pool, clientSock, ipc, on, state, disc, scan, refused, slot, login,
                       jobs>>
        /\ armed' \subseteq armed
        /\ \A r \in Slots : r # s =>
             (r \in armed' <=> r \in armed) /\ notices'[r] = notices[r]
             /\ sending'[r] = sending[r]
        /\ sending'[s] <= sending[s]
    BY <1>0, <2>1 DEF NoticeEnd, SendDone, acceptor, iocp, clients, players
  <2>3. ASSUME NEW r \in Slots, r # s PROVE Life(r)'
    <3>1. SameSlot(r)
      BY <2>2, <2>3, SameUnposted DEF SameSlot
    <3>. QED
      BY <3>1, SameLife DEF LifeInv
  <2>4. Life(s)
    BY DEF LifeInv
  <2>5. CASE SendDone(s) /\ UNCHANGED notices
    <3>1. SameSlot(s)
      BY <1>0, <2>2, <2>5, SameUnposted DEF SameSlot, SendDone
    <3>. QED
      BY <2>3, <2>4, <3>1, SameLife DEF LifeInv
  <2>6. CASE NoticeEnd(s) \/ (SendDone(s) /\ ~UNCHANGED notices)
    <3>1. /\ notices'[s] > 0
          /\ \/ s \in armed /\ s \notin armed'
             \/ sending[s] > 0 /\ (s \in armed' <=> s \in armed)
      BY <1>0, <2>6 DEF NoticeEnd, SendDone
    <3>2. ~Unready(s)
      BY <2>4, <3>1 DEF Life, Quiet, SentInGame, Unready
    <3>3. Unready(s)' <=> Unready(s)
      BY <2>2 DEF Unready
    <3>4. Unread(s)'
      <4>1. CASE s \notin armed'
        BY <2>2, <2>4, <4>1 DEF Life, Unread
      <4>2. CASE s \in armed'
        BY <2>2, <2>4, <3>1, <4>2 DEF Life, Unread, SentInGame
      <4>. QED
        BY <4>1, <4>2
    <3>5. Pushing(s)'
      BY <2>2, <2>4, <3>1 DEF Life, Pushing, SentInGame, Gone
    <3>6. Quiet(s)' /\ AcceptedOnce(s)'
      BY <2>2, <2>4, <3>2, <3>3, SameUnposted DEF Life, Quiet, AcceptedOnce
    <3>7. LoginFirst(s)' /\ Asking(s)' /\ Gone(s)'
      BY <2>2, <2>4 DEF Life, LoginFirst, Asking, Gone
    <3>8. SentInGame(s)'
      BY <1>0, <2>2, <2>4, <2>6 DEF Life, SentInGame, NoticeEnd, SendDone
    <3>9. Watched(s)'
      BY <3>1 DEF Watched
    <3>10. Life(s)'
      BY <3>4, <3>5, <3>6, <3>7, <3>8, <3>9 DEF Life
    <3>. QED
      BY <2>3, <3>10 DEF LifeInv
  <2>. QED
    BY <2>1, <2>5, <2>6
<1>. QED
  BY <1>1, <1>2, <1>3

\* The steps of Recv, on the slot whose receive the thread handles, and Disconnect.
LEMMA RecvLife ==
  ASSUME TypeOK, SlotInv, LifeInv, NEW s \in Slots,
         \/ \E t \in IocpThreads : \/ RecvBegin(t, s)
                                   \/ (RecvPush(t) \/ RecvAgain(t)) /\ on[t] = s
         \/ Disconnect(s)
  PROVE  LifeInv'
<1>0. /\ ipc \in [IocpThreads -> {"wait"} \cup AcceptPlaces \cup RecvPlaces]
      /\ on \in [IocpThreads -> Slots \cup {None}]
      /\ login \in [Clients -> {"unsent", "sent", "received"}]
      /\ jobs \in [Slots -> Seq({"accept", "login", "logout"})]
      /\ notices \in [Slots -> Nat]
      /\ \A u \in IocpThreads : on[u] # None <=> ipc[u] \in RecvPlaces
  BY DEF TypeOK
<1>1. Life(s) /\ s # None
  BY UserAssumption DEF LifeInv, Slots, None
<1>2. UNCHANGED <<pool, clientSock, state, disc, scan, sending, slot>>
  BY DEF RecvBegin, RecvPush, RecvAgain, Disconnect, acceptor, clients, players, traffic
<1>3. \A u \in IocpThreads : ipc'[u] = "next" <=> ipc[u] = "next"
  BY <1>0 DEF RecvBegin, RecvPush, RecvAgain, Disconnect, iocp, On, Jump, RecvPlaces
<1>4. /\ refused \subseteq refused'
      /\ \A r \in Slots : r # s =>
           (r \in armed' <=> r \in armed) /\ notices'[r] = notices[r] /\ jobs'[r] = jobs[r]
      /\ \A d \in Clients : login'[d] # "received" => login[d] # "received"
      /\ \A u \in IocpThreads : \A r \in Slots : r # s =>
           (on'[u] = r <=> on[u] = r) /\ (on[u] = r => ipc'[u] = ipc[u])
  <2>0. \A r \in Slots : r # None
    BY UserAssumption DEF Slots, None
  <2>1. CASE \E t \in IocpThreads : RecvBegin(t, s)
    <3>1. PICK t \in IocpThreads : RecvBegin(t, s)
      BY <2>1
    <3>2. /\ armed' = armed \ {s} /\ on' = [on EXCEPT ![t] = s] /\ ipc[t] = "wait"
          /\ ipc' = [ipc EXCEPT ![t] = "push"] /\ UNCHANGED <<refused, notices, jobs>>
          /\ \A d \in Clients : login'[d] # "received" => login[d] # "received"
      BY <1>0, <3>1 DEF RecvBegin, On, Jump
    <3>3. on[t] = None
      BY <1>0, <3>2 DEF RecvPlaces
    <3>. QED
      BY <1>0, <2>0, <3>2, <3>3
  <2>2. CASE \E t \in IocpThreads : (RecvPush(t) \/ RecvAgain(t)) /\ on[t] = s
    <3>1. PICK t \in IocpThreads : (RecvPush(t) \/ RecvAgain(t)) /\ on[t] = s
      BY <2>2
    <3>2. /\ refused \subseteq refused' /\ UNCHANGED <<notices, login>>
          /\ \A r \in Slots : r # s => (r \in armed' <=> r \in armed) /\ jobs'[r] = jobs[r]
      BY <1>0, <3>1 DEF RecvPush, RecvAgain, RecvPacket, PushJob, clients, traffic
    <3>3. \A u \in IocpThreads : u # t => ipc'[u] = ipc[u] /\ on'[u] = on[u]
      BY <1>0, <3>1 DEF RecvPush, RecvAgain, Jump
    <3>4. on'[t] = s \/ on'[t] = None
      BY <1>0, <3>1 DEF RecvPush, RecvAgain
    <3>. QED
      BY <2>0, <3>1, <3>2, <3>3, <3>4
  <2>3. CASE Disconnect(s)
    BY <1>0, <2>3 DEF Disconnect, Post, PushJob, iocp, clients
  <2>. QED
    BY <2>1, <2>2, <2>3
<1>5. ASSUME NEW r \in Slots, r # s PROVE Life(r)'
  <2>1. SameSlot(r)
    BY <1>2, <1>3, <1>4, <1>5, SameUnposted DEF SameSlot
  <2>. QED
    BY <2>1, SameLife DEF LifeInv
<1>6. (Unready(s)' <=> Unready(s)) /\ (Unposted(s)' <=> Unposted(s))
  BY <1>2, <1>3, SameUnposted DEF Unready
<1>7. Asking(s)' /\ SentInGame(s)' /\ Gone(s)'
  BY <1>1, <1>2 DEF Life, Asking, SentInGame, Gone
<1>8. CASE \E t \in IocpThreads : RecvBegin(t, s)
  <2>1. PICK t \in IocpThreads : RecvBegin(t, s)
    BY <1>8
  <2>2. PICK c \in Clients : slot[c] = s /\ login[c] = "sent"
                             /\ login' = [login EXCEPT ![c] = "received"]
    BY <2>1 DEF RecvBegin, Who
  <2>3. /\ s \in armed /\ armed' = armed \ {s} /\ on' = [on EXCEPT ![t] = s]
        /\ ipc' = [ipc EXCEPT ![t] = "push"] /\ UNCHANGED <<refused, notices, jobs>>
    BY <2>1 DEF RecvBegin, Jump
  <2>4. /\ state[s] = "alloc" /\ scan[s] = 0 /\ notices[s] = 0 /\ jobs[s] = <<>>
        /\ s \notin disc /\ ~Unready(s) /\ \A u \in IocpThreads : on[u] # s
    BY <1>1, <2>2, <2>3 DEF Life, Unread, Quiet, Unready, TypeOK
  <2>5. \A d \in Clients : slot[d] = s => login'[d] = "received"
    BY <1>0, <1>1, <2>2 DEF SlotInv, OneConnection
  <2>6. \A u \in IocpThreads : (on'[u] = s <=> u = t) /\ ipc'[t] = "push"
    BY <1>0, <2>3, <2>4
  <2>7. Unread(s)' /\ Pushing(s)'
    BY <1>2, <2>3, <2>4, <2>5, <2>6 DEF Unread, Pushing
  <2>8. Quiet(s)' /\ AcceptedOnce(s)' /\ LoginFirst(s)'
    BY <1>1, <1>2, <1>6, <2>3, <2>4 DEF Life, Quiet, AcceptedOnce, LoginFirst
  <2>9. Watched(s)'
    BY <2>6 DEF Watched
  <2>. QED
    BY <1>5, <1>7, <2>7, <2>8, <2>9 DEF Life, LifeInv
<1>9. CASE \E t \in IocpThreads : RecvPush(t) /\ on[t] = s
  <2>1. PICK t \in IocpThreads : RecvPush(t) /\ on[t] = s
    BY <1>9
  <2>2. /\ ipc[t] = "push" /\ ipc' = [ipc EXCEPT ![t] = "receive"]
        /\ jobs' = [jobs EXCEPT ![s] = Append(@, "login")]
        /\ UNCHANGED <<on, armed, refused, notices, login>>
    BY <2>1 DEF RecvPush, On, Jump, PushJob, traffic, clients
  <2>3. /\ state[s] = "alloc" /\ scan[s] = 0 /\ jobs[s] = <<>> /\ ~Unready(s)
        /\ \A u \in IocpThreads : on[u] = s => u = t
    BY <1>1, <2>1, <2>2 DEF Life, Pushing, Unready
  <2>4. jobs'[s] = <<"login">>
    BY <1>0, <2>2, <2>3
  <2>5. \A i \in 1..Len(jobs'[s]) : i = 1 /\ jobs'[s][i] = "login"
    BY <2>4
  <2>6. Quiet(s)' /\ AcceptedOnce(s)' /\ LoginFirst(s)'
    BY <1>1, <1>2, <1>6, <2>3, <2>5 DEF Life, Quiet, AcceptedOnce, LoginFirst
  <2>7. Unread(s)'
    BY <1>1, <1>2, <2>1, <2>2 DEF Life, Unread
  <2>8. Pushing(s)'
    BY <1>0, <2>2, <2>3 DEF Pushing
  <2>9. Watched(s)'
    BY <2>1, <2>2 DEF Watched
  <2>. QED
    BY <1>5, <1>7, <2>6, <2>7, <2>8, <2>9 DEF Life, LifeInv
<1>10. CASE \E t \in IocpThreads : RecvAgain(t) /\ on[t] = s
  <2>1. PICK t \in IocpThreads : RecvAgain(t) /\ on[t] = s
    BY <1>10
  <2>2. /\ ipc[t] = "receive" /\ ipc' = [ipc EXCEPT ![t] = "wait"]
        /\ on' = [on EXCEPT ![t] = None]
        /\ s \in armed' \/ s \in refused'
        /\ UNCHANGED <<notices, login, jobs>>
    BY <2>1 DEF RecvAgain, RecvPacket, On, Jump, clients
  <2>3. ~Unready(s) /\ \A d \in Clients : slot[d] = s => login[d] = "received"
    BY <1>1, <2>1 DEF Life, Quiet, Unread
  <2>4. \A u \in IocpThreads : on'[u] = s => on[u] = s /\ ipc'[u] = ipc[u]
    BY <1>0, <1>1, <2>2
  <2>5. \A u \in IocpThreads : ~(on[u] = s /\ ipc[u] = "push")
    BY <1>1, <2>1, <2>2 DEF Life, Pushing
  <2>6. Quiet(s)' /\ AcceptedOnce(s)' /\ LoginFirst(s)'
    BY <1>1, <1>2, <1>6, <2>2, <2>3 DEF Life, Quiet, AcceptedOnce, LoginFirst
  <2>7. Unread(s)' /\ Pushing(s)'
    BY <1>2, <2>2, <2>3, <2>4, <2>5 DEF Unread, Pushing
  <2>8. Watched(s)'
    BY <2>2 DEF Watched
  <2>. QED
    BY <1>5, <1>7, <2>6, <2>7, <2>8 DEF Life, LifeInv
<1>11. CASE Disconnect(s)
  <2>1. /\ notices[s] > 0 /\ jobs' = [jobs EXCEPT ![s] = Append(@, "logout")]
        /\ UNCHANGED <<on, ipc, armed, refused, login>>
    BY <1>11 DEF Disconnect, Post, PushJob, iocp, clients
  <2>2. ~Unready(s) /\ \A u \in IocpThreads : ~(on[u] = s /\ ipc[u] = "push")
    BY <1>1, <2>1 DEF Life, Quiet, Pushing
  <2>3. /\ Len(jobs'[s]) = Len(jobs[s]) + 1
        /\ \A i \in 1..Len(jobs[s]) : jobs'[s][i] = jobs[s][i]
        /\ jobs'[s][Len(jobs[s]) + 1] = "logout"
        /\ Len(jobs[s]) \in Nat
    BY <1>0, <2>1
  <2>4. \A i \in 1..Len(jobs'[s]) :
          jobs'[s][i] = "logout" \/ (i \in 1..Len(jobs[s]) /\ jobs'[s][i] = jobs[s][i])
    BY <2>3
  <2>5. Len(jobs'[s]) \in 1..Len(jobs'[s]) /\ jobs'[s][Len(jobs'[s])] = "logout"
    BY <2>3
  <2>6. Quiet(s)' /\ AcceptedOnce(s)' /\ LoginFirst(s)'
    BY <1>1, <1>2, <1>6, <2>2, <2>4 DEF Life, Quiet, AcceptedOnce, LoginFirst
  <2>7. Unread(s)' /\ Pushing(s)'
    BY <1>1, <1>2, <2>1, <2>2, <2>4 DEF Life, Unread, Pushing
  <2>8. Watched(s)'
    BY <2>5 DEF Watched
  <2>. QED
    BY <1>5, <1>7, <2>6, <2>7, <2>8 DEF Life, LifeInv
<1>. QED
  BY <1>8, <1>9, <1>10, <1>11

\* Taking a job from the queue of a slot.
LEMMA TakeJob ==
  ASSUME TypeOK, NEW s \in Slots, NEW job, MayRun(s, job)
  PROVE  /\ jobs[s] # <<>> /\ jobs[s][1] = job /\ 1 \in 1..Len(jobs[s])
         /\ scan[s] = 0
         /\ jobs' = [jobs EXCEPT ![s] = Tail(@)]
         /\ \A i \in 1..Len(jobs'[s]) : /\ i + 1 \in 1..Len(jobs[s]) /\ i + 1 # 1
                                        /\ jobs'[s][i] = jobs[s][i + 1]
         /\ \A i \in 1..Len(jobs[s]) :
              i = 1 \/ (i - 1 \in 1..Len(jobs'[s]) /\ jobs'[s][i - 1] = jobs[s][i])
<1>1. jobs[s] \in Seq({"accept", "login", "logout"}) /\ jobs[s] # <<>>
      /\ jobs' = [jobs EXCEPT ![s] = Tail(jobs[s])] /\ Head(jobs[s]) = job /\ scan[s] = 0
  BY DEF TypeOK, MayRun, Visited
<1>2. jobs'[s] = Tail(jobs[s])
  BY <1>1 DEF TypeOK
<1>3. /\ Len(jobs[s]) \in Nat /\ Len(jobs[s]) > 0 /\ jobs[s][1] = job
      /\ Len(Tail(jobs[s])) = Len(jobs[s]) - 1
      /\ \A i \in 1..Len(Tail(jobs[s])) : Tail(jobs[s])[i] = jobs[s][i + 1]
  BY <1>1
<1>4. ASSUME NEW i \in 1..Len(jobs'[s])
      PROVE  i + 1 \in 1..Len(jobs[s]) /\ i + 1 # 1 /\ jobs'[s][i] = jobs[s][i + 1]
  BY <1>2, <1>3
<1>5. ASSUME NEW i \in 1..Len(jobs[s]), i # 1
      PROVE  i - 1 \in 1..Len(jobs'[s]) /\ jobs'[s][i - 1] = jobs[s][i]
  <2>1. i - 1 \in 1..Len(Tail(jobs[s])) /\ (i - 1) + 1 = i
    BY <1>3, <1>5
  <2>. QED
    BY <1>2, <1>3, <2>1
<1>6. 1 \in 1..Len(jobs[s])
  BY <1>3
<1>. QED
  BY <1>1, <1>3, <1>4, <1>5, <1>6

\* The jobs, and what others send the player: they touch their own slot, except for
\* a packet to another player in game.
LEMMA WorkLife ==
  ASSUME TypeOK, SlotInv, LifeInv, NEW s \in Slots,
         Work(s) \/ EndVisit(s) \/ UnmarkInQueue(s) \/ Inform(s)
  PROVE  LifeInv'
<1>0. /\ state \in [Slots -> {"free", "alloc", "ingame"}]
      /\ scan \in [Slots -> 0..(MaxUser + 1)]
      /\ jobs \in [Slots -> Seq({"accept", "login", "logout"})]
      /\ sending \in [Slots -> Nat] /\ notices \in [Slots -> Nat]
      /\ disc \subseteq Slots
  BY DEF TypeOK
<1>1. Life(s)
  BY DEF LifeInv
<1>2. UNCHANGED <<pool, clientSock, ipc, on, slot, login, notices>>
  BY DEF Work, PlayerAccept, LoginPacket, CheckLoginFail, LoginFail, LoginEnd, Logout,
     EndVisit, UnmarkInQueue, Inform, acceptor, iocp, clients, traffic
<1>3. \A r \in Slots : Unposted(r)' <=> Unposted(r)
  BY <1>2, SameUnposted
<1>4. ASSUME \A r \in Slots : r # s =>
                /\ state'[r] = state[r] /\ (r \in disc' <=> r \in disc) /\ scan'[r] = scan[r]
                /\ (r \in armed' <=> r \in armed) /\ (r \in refused => r \in refused')
                /\ jobs'[r] = jobs[r]
                /\ sending'[r] > 0 => sending[r] > 0 \/ state[r] = "ingame",
             Life(s)'
      PROVE  LifeInv'
  <2>1. ASSUME NEW r \in Slots, r # s PROVE Life(r)'
    <3>1. SameSlot(r)
      BY <1>2, <1>3, <1>4, <2>1 DEF SameSlot
    <3>. QED
      BY <3>1, SameLife DEF LifeInv
  <2>. QED
    BY <1>4, <2>1 DEF LifeInv
<1>5. CASE PlayerAccept(s)
  <2>1. /\ state' = [state EXCEPT ![s] = "alloc"] /\ UNCHANGED <<disc, scan, sending>>
        /\ jobs[s][1] = "accept" /\ 1 \in 1..Len(jobs[s])
        /\ jobs' = [jobs EXCEPT ![s] = Tail(@)]
        /\ refused \subseteq refused' /\ (s \in armed' \/ s \in refused')
        /\ \A r \in Slots : r # s => (r \in armed' <=> r \in armed)
    BY <1>5, TakeJob DEF PlayerAccept, RecvPacket
  <2>2. Unready(s)
    BY <1>1, <2>1 DEF Life, AcceptedOnce
  <2>3. /\ notices[s] = 0 /\ scan[s] = 0 /\ \A t \in IocpThreads : on[t] # s
        /\ jobs[s] = <<"accept">> /\ ~(sending[s] > 0) /\ s \notin disc
    BY <1>1, <2>1, <2>2 DEF Life, Quiet, SentInGame, Unready
  <2>4. jobs'[s] = <<>> /\ state'[s] = "alloc" /\ ~Unready(s)'
    BY <1>0, <2>1, <2>3 DEF Unready
  <2>5. ~Unposted(s)
    BY <1>1, <2>3 DEF Life, AcceptedOnce
  <2>6. \A i \in 1..Len(jobs'[s]) : FALSE
    BY <2>4
  <2>7. Life(s)'
    BY <1>2, <1>3, <2>1, <2>3, <2>4, <2>5, <2>6 DEF Life, Quiet, AcceptedOnce, Unread, Pushing,
       LoginFirst, Asking, SentInGame, Gone, Watched
  <2>. QED
    BY <1>0, <1>4, <2>1, <2>7
<1>6. CASE LoginPacket(s)
  <2>1. /\ scan' = [scan EXCEPT ![s] = 1] /\ UNCHANGED <<state, disc, armed, refused, sending>>
        /\ jobs[s][1] = "login" /\ jobs' = [jobs EXCEPT ![s] = Tail(@)]
    BY <1>6, TakeJob DEF LoginPacket, traffic
  <2>2. 1 \in 1..Len(jobs[s])
        /\ \A i \in 1..Len(jobs'[s]) : /\ i + 1 \in 1..Len(jobs[s]) /\ i + 1 # 1
                                       /\ jobs'[s][i] = jobs[s][i + 1]
    BY <1>6, TakeJob DEF LoginPacket
  <2>3. \A i \in 1..Len(jobs[s]) : i = 1 \/ (i - 1 \in 1..Len(jobs'[s])
                                             /\ jobs'[s][i - 1] = jobs[s][i])
    BY <1>6, TakeJob DEF LoginPacket
  <2>4. state[s] = "alloc" /\ ~Unready(s) /\ ~Unready(s)' /\ ~Unposted(s) /\ jobs[s] # <<>>
    BY <1>1, <2>1, <2>2 DEF Life, LoginFirst, Unready, AcceptedOnce
  <2>5. \A i \in 1..Len(jobs'[s]) : jobs'[s][i] # "login" /\ jobs'[s][i] # "accept"
    BY <1>1, <2>2, <2>4 DEF Life, LoginFirst, AcceptedOnce
  <2>6. Unread(s)'
    BY <1>1, <1>2, <2>1, <2>2 DEF Life, Unread
  <2>7. Pushing(s)'
    BY <1>1, <1>2, <2>4 DEF Life, Pushing
  <2>8. Watched(s)'
    BY <1>1, <1>2, <2>1, <2>3 DEF Life, Watched
  <2>9. Quiet(s)' /\ AcceptedOnce(s)' /\ LoginFirst(s)' /\ Asking(s)'
    BY <1>2, <1>3, <2>1, <2>4, <2>5 DEF Quiet, AcceptedOnce, LoginFirst, Asking
  <2>10. SentInGame(s)' /\ Gone(s)'
    BY <1>1, <2>1 DEF Life, SentInGame, Gone
  <2>11. Life(s)'
    BY <2>6, <2>7, <2>8, <2>9, <2>10 DEF Life
  <2>. QED
    BY <1>0, <1>4, <2>1, <2>11
<1>7. CASE CheckLoginFail(s)
  <2>1. /\ scan[s] # 0 /\ scan' = [scan EXCEPT ![s] = @ + 1]
        /\ UNCHANGED <<state, disc, armed, refused, sending, jobs>>
    BY <1>7, UserAssumption DEF CheckLoginFail, traffic, Slots
  <2>2. state[s] = "alloc" /\ ~Unready(s) /\ ~Unready(s)'
    BY <1>1, <2>1 DEF Life, Asking, Unready
  <2>3. \A i \in 1..Len(jobs[s]) : jobs[s][i] # "login"
    BY <1>1, <2>1 DEF Life, LoginFirst
  <2>4. Unread(s)' /\ Pushing(s)'
    BY <1>1, <1>2, <2>1 DEF Life, Unread, Pushing
  <2>5. Quiet(s)' /\ AcceptedOnce(s)' /\ LoginFirst(s)' /\ Asking(s)'
    BY <1>1, <1>3, <2>1, <2>2, <2>3 DEF Life, Quiet, AcceptedOnce, LoginFirst, Asking
  <2>6. SentInGame(s)' /\ Gone(s)' /\ Watched(s)'
    BY <1>1, <1>2, <2>1 DEF Life, SentInGame, Gone, Watched
  <2>7. Life(s)'
    BY <2>4, <2>5, <2>6 DEF Life
  <2>. QED
    BY <1>0, <1>4, <2>1, <2>7
<1>8. CASE LoginFail(s) \/ LoginEnd(s)
  <2>1. /\ scan[s] # 0 /\ scan' = [scan EXCEPT ![s] = 0]
        /\ UNCHANGED <<disc, armed, refused, jobs>>
    BY <1>8, UserAssumption DEF LoginFail, LoginEnd, Slots
  <2>2. /\ \A r \in Slots : r # s => state'[r] = state[r]
        /\ state'[s] = state[s] \/ state'[s] = "ingame"
        /\ LoginEnd(s) => state'[s] = "ingame"
        /\ LoginFail(s) => state' = state
    BY <1>0, <1>8 DEF LoginFail, LoginEnd
  <2>3. state[s] = "alloc" /\ ~Unready(s) /\ ~Unready(s)' /\ s \notin disc
    BY <1>1, <2>1, <2>2 DEF Life, Asking, Unready, Gone
  <2>4. \A i \in 1..Len(jobs[s]) : jobs[s][i] # "login"
    BY <1>1, <2>1 DEF Life, LoginFirst
  <2>5. Unread(s)' /\ Pushing(s)'
    BY <1>1, <1>2, <2>1 DEF Life, Unread, Pushing
  <2>6. Quiet(s)' /\ AcceptedOnce(s)' /\ LoginFirst(s)' /\ Asking(s)'
    BY <1>0, <1>1, <1>3, <2>1, <2>3, <2>4 DEF Life, Quiet, AcceptedOnce, LoginFirst, Asking
  <2>7. \A r \in Slots : sending'[r] > 0 => sending[r] > 0 \/ state'[r] = "ingame"
    <3>1. CASE LoginFail(s)
      BY <1>0, <2>2, <3>1 DEF LoginFail, SendPacket, Taken
    <3>2. CASE LoginEnd(s)
      BY <1>0, <2>2, <3>2 DEF LoginEnd, SendPacket
    <3>. QED
      BY <1>8, <3>1, <3>2
  <2>8. SentInGame(s)' /\ Gone(s)' /\ Watched(s)'
    BY <1>1, <1>2, <2>1, <2>2, <2>3, <2>7 DEF Life, SentInGame, Gone, Watched
  <2>9. Life(s)'
    BY <2>5, <2>6, <2>8 DEF Life
  <2>. QED
    BY <1>0, <1>4, <2>1, <2>2, <2>7, <2>9
<1>9. CASE Logout(s)
  <2>1. /\ state' = [state EXCEPT ![s] = "free"] /\ disc' = disc \cup {s}
        /\ UNCHANGED <<scan, armed, refused, sending>>
        /\ jobs[s][1] = "logout" /\ scan[s] = 0 /\ jobs' = [jobs EXCEPT ![s] = Tail(@)]
    BY <1>9, TakeJob DEF Logout, traffic
  <2>2. 1 \in 1..Len(jobs[s]) /\ jobs[s] # <<>>
        /\ \A i \in 1..Len(jobs'[s]) : /\ i + 1 \in 1..Len(jobs[s]) /\ i + 1 # 1
                                       /\ jobs'[s][i] = jobs[s][i + 1]
    BY <1>9, TakeJob DEF Logout
  <2>3. ~Unready(s) /\ ~Unready(s)' /\ ~Unposted(s) /\ state'[s] = "free" /\ s \in disc'
    BY <1>0, <1>1, <2>1, <2>2 DEF Life, Quiet, AcceptedOnce, Unready
  <2>4. \A i \in 1..Len(jobs'[s]) : jobs'[s][i] # "login" /\ jobs'[s][i] # "accept"
    BY <1>1, <2>2, <2>3 DEF Life, LoginFirst, AcceptedOnce
  <2>5. Unread(s)' /\ Pushing(s)'
    BY <1>1, <1>2, <2>1, <2>2, <2>3, <2>4 DEF Life, Unread, Pushing
  <2>6. Life(s)'
    BY <1>2, <1>3, <2>1, <2>3, <2>4, <2>5 DEF Life, Quiet, AcceptedOnce, LoginFirst, Asking,
       SentInGame, Gone, Watched
  <2>. QED
    BY <1>0, <1>4, <2>1, <2>6
<1>10. CASE EndVisit(s) \/ UnmarkInQueue(s)
  <2>1. UNCHANGED <<state, disc, scan, armed, refused, sending, jobs>>
    BY <1>10 DEF EndVisit, UnmarkInQueue, players, traffic
  <2>2. SameSlot(s)
    BY <1>2, <1>3, <2>1 DEF SameSlot
  <2>. QED
    BY <1>1, <1>4, <2>1, <2>2, SameLife
<1>11. CASE Inform(s)
  <2>1. UNCHANGED <<state, disc, scan, armed, refused, jobs>>
    BY <1>11 DEF Inform, players
  <2>2. \A r \in Slots : sending'[r] > 0 => sending[r] > 0 \/ state[r] = "ingame"
    BY <1>0, <1>11 DEF Inform, SendPacket
  <2>3. SameSlot(s)
    BY <1>2, <1>3, <2>1, <2>2 DEF SameSlot
  <2>. QED
    BY <1>1, <1>4, <2>1, <2>2, <2>3, SameLife
<1>. QED
  BY <1>5, <1>6, <1>7, <1>8, <1>9, <1>10, <1>11 DEF Work

LEMMA LifeStep == TypeOK /\ SlotInv /\ LifeInv /\ [Next]_vars => LifeInv'
<1>. SUFFICES ASSUME TypeOK, SlotInv, LifeInv, [Next]_vars PROVE LifeInv'
  OBVIOUS
<1>1. CASE UNCHANGED vars
  BY <1>1 DEF vars, acceptor, iocp, clients, players, traffic, LifeInv, Life, Unready,
     Unposted, On, Quiet, AcceptedOnce, Unread, Pushing, LoginFirst, Asking, SentInGame, Gone,
     Watched
<1>2. CASE \/ \E c \in Clients : Connect(c) \/ Establish(c) \/ WriteLogin(c) \/ Leave(c)
           \/ AcceptFails
           \/ \E s \in Slots : NoticeEnd(s) \/ SendDone(s)
  BY <1>2, OutsideLife
<1>3. CASE \E t \in IocpThreads : Accept(t)
  BY <1>3, AcceptLife
<1>4. CASE \E t \in IocpThreads : Recv(t)
  <2>1. PICK t \in IocpThreads : Recv(t)
    BY <1>4
  <2>2. RecvPush(t) \/ RecvAgain(t) => on[t] \in Slots
    BY DEF RecvPush, RecvAgain, On, TypeOK, RecvPlaces
  <2>. QED
    BY <2>1, <2>2, RecvLife DEF Recv
<1>5. CASE \E s \in Slots : Disconnect(s)
  BY <1>5, RecvLife
<1>6. CASE \E s \in Slots : Work(s) \/ EndVisit(s) \/ UnmarkInQueue(s) \/ Inform(s)
  BY <1>6, WorkLife
<1>. QED
  BY <1>1, <1>2, <1>3, <1>4, <1>5, <1>6 DEF Next

LEMMA LifeInvariant == Spec => [](TypeOK /\ SlotInv /\ LifeInv)
BY TypeInvariant, SlotInit, SlotStep, LifeInit, LifeStep, PTL DEF Spec

\* The end of a connection is noticed, unless its receive was refused.
THEOREM NoticedInvariant == Spec => []Noticed
<1>1. LifeInv => Noticed
  BY DEF LifeInv, Life, Watched, Noticed
<1>. QED
  BY <1>1, LifeInvariant, PTL

\* Nobody comes back after a logout.
THEOREM GoneForever == Spec => GoneForGood
<1>1. LifeInv /\ LifeInv' /\ [Next]_vars =>
        [\A s \in Slots : s \in disc /\ state[s] = "free" => state'[s] = "free"]_vars
  <2>1. ASSUME [Next]_vars PROVE disc \subseteq disc'
    BY <2>1 DEF Next, vars, players, Connect, Establish, WriteLogin, Leave, AcceptFails, Accept,
       AcceptBegin, AcceptPost, AcceptNext, AcceptAgain, Recv, RecvBegin, RecvPush, RecvAgain,
       Work, PlayerAccept, LoginPacket, CheckLoginFail, LoginFail, LoginEnd, Logout, EndVisit,
       UnmarkInQueue, NoticeEnd, SendDone, Disconnect, Inform
  <2>. QED
    BY <2>1 DEF LifeInv, Life, Gone
<1>. QED
  BY <1>1, LifeInvariant, PTL DEF Spec, GoneForGood

-----------------------------------------------------------------------------
(* Two players under one name.                                             *)

LEMMA NameInit == Init => NameInv
BY UserAssumption DEF Init, NameInv, NamesakesRaced, BothAsk, Faced, Slots

\* What the invariant is about.
NameVars == <<scan, slot, name, state, nameOf, beside>>

LEMMA NameStutter == NameInv /\ UNCHANGED NameVars => NameInv'
BY DEF NameInv, NameVars, NamesakesRaced, BothAsk, Faced

\* A slot that is being accepted asks for no name.
LEMMA EstablishNames ==
  ASSUME TypeOK, SlotInv, LifeInv, NameInv, NEW c \in Clients, Establish(c)
  PROVE  NameInv'
<1>1. /\ slot' = [slot EXCEPT ![c] = listening] /\ slot \in [Clients -> Slots \cup {None}]
      /\ UNCHANGED <<scan, name, state, nameOf, beside>>
  BY DEF Establish, players, TypeOK
<1>2. listening \in Slots /\ Unposted(listening)
  BY DEF Establish, SlotInv, OneConnection, OneAccept, Unposted, On, AcceptPlaces, TypeOK
<1>3. scan[listening] = 0
  BY <1>2 DEF LifeInv, Life, AcceptedOnce, Quiet
<1>4. ASSUME NEW s \in Slots PROVE Faced(s)'
  <2>1. CASE s = listening
    BY <1>1, <1>3, <2>1 DEF Faced, Slots
  <2>2. CASE s # listening
    BY <1>1, <2>2 DEF NameInv, Faced
  <2>. QED
    BY <2>1, <2>2
<1>5. NamesakesRaced' /\ BothAsk'
  BY <1>1 DEF NameInv, NamesakesRaced, BothAsk
<1>. QED
  BY <1>4, <1>5 DEF NameInv

\* The jobs.  Whoever logs in has faced all players but those who ask like him, and
\* his login overlapped with theirs.
LEMMA WorkNames ==
  ASSUME TypeOK, SlotInv, LifeInv, NameInv, NEW s \in Slots, Work(s)
  PROVE  NameInv'
<1>0. /\ state \in [Slots -> {"free", "alloc", "ingame"}]
      /\ nameOf \in [Slots -> Names \cup {NoName}]
      /\ scan \in [Slots -> 0..(MaxUser + 1)]
  BY DEF TypeOK
<1>1. UNCHANGED <<slot, name>>
  BY DEF Work, PlayerAccept, LoginPacket, CheckLoginFail, LoginFail, LoginEnd, Logout, clients
<1>2. scan[s] # 0 => state[s] = "alloc"
  BY DEF LifeInv, Life, Asking
<1>3. CASE PlayerAccept(s) \/ Logout(s)
  <2>1. /\ UNCHANGED <<scan, beside>> /\ state'[s] # "ingame"
        /\ \A r \in Slots : r # s => state'[r] = state[r] /\ nameOf'[r] = nameOf[r]
    BY <1>0, <1>3 DEF PlayerAccept, Logout
  <2>. QED
    BY <1>1, <2>1 DEF NameInv, NamesakesRaced, BothAsk, Faced
<1>4. CASE LoginPacket(s)
  <2>1. /\ scan'[s] = 1 /\ \A r \in Slots : r # s => scan'[r] = scan[r]
        /\ UNCHANGED <<state, nameOf>> /\ beside \subseteq beside'
        /\ \A r \in Slots : scan[r] # 0 => <<s, r>> \in beside' /\ <<r, s>> \in beside'
    BY <1>0, <1>4 DEF LoginPacket
  <2>2. NamesakesRaced'
    BY <2>1 DEF NameInv, NamesakesRaced
  <2>3. BothAsk'
    BY <2>1 DEF NameInv, BothAsk
  <2>4. \A r \in Slots : ~(r < 1)
    BY DEF Slots
  <2>5. ASSUME NEW r \in Slots PROVE Faced(r)'
    BY <1>1, <2>1, <2>4 DEF NameInv, Faced
  <2>. QED
    BY <2>2, <2>3, <2>5 DEF NameInv
<1>5. CASE CheckLoginFail(s)
  <2>1. /\ scan[s] \in Slots /\ scan'[s] = scan[s] + 1 /\ ~Taken(s)
        /\ \A r \in Slots : r # s => scan'[r] = scan[r]
        /\ UNCHANGED <<state, nameOf, beside>>
    BY <1>0, <1>5 DEF CheckLoginFail
  <2>2. scan[s] # 0
    BY <2>1, UserAssumption DEF Slots
  <2>3. \A r \in Slots : r < scan[s] + 1 => r < scan[s] \/ r = scan[s]
    BY <2>1 DEF Slots
  <2>4. \A c \in Clients : slot[c] = s /\ state[scan[s]] = "ingame" =>
                           nameOf[scan[s]] # name[c]
    BY <2>1 DEF Taken, Who
  <2>5. NamesakesRaced' /\ BothAsk'
    <3>1. \A r \in Slots : scan'[r] # 0 => scan[r] # 0
      BY <2>1, <2>2
    <3>. QED
      BY <2>1, <3>1 DEF NameInv, NamesakesRaced, BothAsk
  <2>6. Faced(s)'
    BY <1>1, <2>1, <2>3, <2>4 DEF NameInv, Faced
  <2>7. ASSUME NEW r \in Slots, r # s PROVE Faced(r)'
    BY <1>1, <2>1, <2>7 DEF NameInv, Faced
  <2>. QED
    BY <2>5, <2>6, <2>7 DEF NameInv
<1>6. CASE LoginFail(s)
  <2>1. /\ scan'[s] = 0 /\ \A r \in Slots : r # s => scan'[r] = scan[r]
        /\ UNCHANGED <<state, nameOf, beside>>
    BY <1>0, <1>6 DEF LoginFail
  <2>2. NamesakesRaced' /\ BothAsk'
    BY <2>1 DEF NameInv, NamesakesRaced, BothAsk
  <2>3. \A r \in Slots : ~(r < 0)
    BY DEF Slots
  <2>4. ASSUME NEW r \in Slots PROVE Faced(r)'
    BY <1>1, <2>1, <2>3 DEF NameInv, Faced
  <2>. QED
    BY <2>2, <2>4 DEF NameInv
<1>7. CASE LoginEnd(s)
  <2>1. PICK c \in Clients : slot[c] = s /\ nameOf' = [nameOf EXCEPT ![s] = name[c]]
    BY <1>7 DEF LoginEnd, Who
  <2>2. /\ scan[s] > MaxUser /\ scan'[s] = 0 /\ state'[s] = "ingame"
        /\ \A r \in Slots : r # s => scan'[r] = scan[r] /\ state'[r] = state[r]
        /\ UNCHANGED beside
    BY <1>0, <1>7 DEF LoginEnd
  <2>3. \A r \in Slots : r < scan[s] /\ ~(r < 0)
    BY <1>0, <2>2, UserAssumption DEF Slots
  <2>4. scan[s] # 0
    BY <1>0, <2>2, UserAssumption
  <2>5. nameOf'[s] = name[c] /\ \A r \in Slots : r # s => nameOf'[r] = nameOf[r]
    BY <1>0, <2>1
  <2>6. NamesakesRaced'
    <3>1. \A r \in Slots : r # s /\ state[r] = "ingame" /\ nameOf[r] = name[c] =>
                           <<r, s>> \in beside /\ <<s, r>> \in beside
      BY <2>1, <2>3 DEF NameInv, Faced
    <3>. QED
      BY <2>2, <2>5, <3>1 DEF NameInv, NamesakesRaced
  <2>7. BothAsk'
    BY <2>2 DEF NameInv, BothAsk
  <2>8. Faced(s)'
    BY <2>2, <2>3 DEF Faced
  <2>9. ASSUME NEW r \in Slots, r # s PROVE Faced(r)'
    <3>1. scan[r] # 0 => <<s, r>> \in beside /\ <<r, s>> \in beside
      BY <2>4, <2>9 DEF NameInv, BothAsk
    <3>2. s < scan[r] => scan[r] # 0
      BY <1>0, <2>3
    <3>. QED
      BY <1>1, <2>2, <2>5, <2>9, <3>1, <3>2 DEF NameInv, Faced
  <2>. QED
    BY <2>6, <2>7, <2>8, <2>9 DEF NameInv
<1>. QED
  BY <1>3, <1>4, <1>5, <1>6, <1>7 DEF Work

\* Everything else leaves names and logins alone.
LEMMA OtherNames ==
  ASSUME \/ \E c \in Clients : Connect(c) \/ WriteLogin(c) \/ Leave(c)
         \/ AcceptFails
         \/ \E t \in IocpThreads : Accept(t) \/ Recv(t)
         \/ \E s \in Slots : \/ EndVisit(s) \/ UnmarkInQueue(s)
                             \/ NoticeEnd(s) \/ SendDone(s) \/ Disconnect(s) \/ Inform(s)
         \/ UNCHANGED vars
  PROVE  UNCHANGED NameVars
BY DEF NameVars, vars, clients, players, Connect, WriteLogin, Leave, AcceptFails, Accept,
   AcceptBegin, AcceptPost, AcceptNext, AcceptAgain, Recv, RecvBegin, RecvPush, RecvAgain,
   EndVisit, UnmarkInQueue, NoticeEnd, SendDone, Disconnect, Inform

LEMMA NameStep ==
  TypeOK /\ SlotInv /\ LifeInv /\ NameInv /\ [Next]_vars => NameInv'
BY EstablishNames, WorkNames, OtherNames, NameStutter DEF Next

\* Two players are in game under one name only if their logins overlapped.
THEOREM NamesakesInvariant == Spec => []NamesakesRaced
<1>1. NameInv => NamesakesRaced
  BY DEF NameInv
<1>. QED
  BY <1>1, LifeInvariant, NameInit, NameStep, PTL DEF Spec
=============================================================================
