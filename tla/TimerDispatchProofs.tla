------------------------- MODULE TimerDispatchProofs ------------------------
(***************************************************************************)
(* What holds of the timer, the pool and the completion port for any       *)
(* number of threads, objects, events and overlapped objects.  Three       *)
(* invariants, each on top of the one before: the types, with the objects  *)
(* that exist (Made); that the places an object can be in exclude each     *)
(* other (Apart); and what an object says of its operation (Told, Lost).   *)
(* A last one says that an event is in one place (Once) and on time (Due): *)
(* with it the model implements delayed calls.                             *)
(***************************************************************************)
EXTENDS TimerDispatch, FiniteSetTheorems, TLAPS

Holds(p) == icp[p] # Nothing

\* An overlapped object that is anywhere has been allocated.
Made ==
  /\ \A v \in Overlaps : pool[v] # 0 => v \in Exists
  /\ \A c \in port : c.ov \in Exists
  /\ \A p \in IocpThreads : Holds(p) => icp[p].ov \in Exists

\* What is in the pool is there once.
PoolApart == \A v \in Overlaps : pool[v] <= 1

\* What is in the port is posted once, and is neither in the pool nor with the timer.
PortApart ==
  /\ \A c \in port : pool[c.ov] = 0 /\ c.ov # tov
  /\ \A c, d \in port : c.ov = d.ov => c = d

\* The same of what an IOCP thread holds.
IocpApart ==
  /\ \A p \in IocpThreads : Holds(p) =>
       /\ pool[icp[p].ov] = 0 /\ icp[p].ov # tov
       /\ \A c \in port : c.ov # icp[p].ov
  /\ \A p, q \in IocpThreads : Holds(p) /\ Holds(q) /\ icp[p].ov = icp[q].ov => p = q

\* The same of what a sender holds.
SendersApart ==
  /\ \A t \in Senders : sov[t] # Nothing =>
       /\ pool[sov[t]] = 0 /\ sov[t] # tov
       /\ \A c \in port : c.ov # sov[t]
       /\ \A p \in IocpThreads : Holds(p) => icp[p].ov # sov[t]
  /\ \A t, u \in Senders : sov[t] # Nothing /\ sov[t] = sov[u] => t = u

Apart ==
  /\ PoolApart /\ PortApart /\ IocpApart /\ SendersApart
  /\ tov # Nothing => pool[tov] = 0

\* The type in a posted object is that of its event, or "send" if it has none; only
\* sends fail.
Says(c) ==
  IF c.event = Nothing THEN type[c.ov] = "send"
  ELSE c.ok /\ type[c.ov] = c.event.kind
Told ==
  /\ \A c \in port : Says(c)
  /\ \A p \in IocpThreads : ipc[p] = "classify" => Says(icp[p])

\* Where an object is, if anywhere.
Somewhere(v) ==
  \/ pool[v] # 0
  \/ \E c \in port : c.ov = v
  \/ \E p \in IocpThreads : Holds(p) /\ icp[p].ov = v
  \/ \E t \in Senders : sov[t] = v
  \/ tov = v

Lost ==
  \A v \in Exists : Somewhere(v) \/ type[v] \in {"respawn", "rollback", "send"}

\* An event that was registered is in one place: the queue, the timer thread, the
\* port or a thread that has not called its handler yet, or it is handled.
Classifying(p) == ipc[p] = "classify" /\ icp[p].event # Nothing
Old ==
  /\ \A e \in timers \cup handled : e.id < nextEvent
  /\ tev # Nothing => tev.id < nextEvent
  /\ \A c \in port : c.event # Nothing => c.event.id < nextEvent
  /\ \A p \in IocpThreads : Classifying(p) => icp[p].event.id < nextEvent
TimerOnce == timers \cap handled = {} /\ tev \notin timers \cup handled
PortOnce ==
  /\ \A c \in port : c.event # Nothing => c.event \notin timers \cup handled \cup {tev}
  /\ \A c, d \in port : c.event = d.event /\ c.event # Nothing => c = d
IocpOnce ==
  /\ \A p \in IocpThreads : Classifying(p) =>
       /\ icp[p].event \notin timers \cup handled \cup {tev}
       /\ \A c \in port : c.event # icp[p].event
  /\ \A p, q \in IocpThreads :
       Classifying(p) /\ Classifying(q) /\ icp[p].event = icp[q].event => p = q
Once == Old /\ TimerOnce /\ PortOnce /\ IocpOnce

\* Nothing is posted before its time.
Due ==
  /\ tpc \in {"get", "post"} => tev.wake <= tnow
  /\ \A c \in port : c.event # Nothing => c.event.wake <= clock
  /\ \A p \in IocpThreads : Classifying(p) => icp[p].event.wake <= clock

\* The parts of TypeOK.
NumbersOK ==
  /\ clock \in 0..MaxTime /\ nextEvent \in 1..(MaxEvents + 1) /\ sent \in 0..MaxSends
  /\ tnow \in 0..clock /\ until \in 0..(MaxTime + 1) /\ allocated \in 0..MaxOverlaps
EventsOK == timers \subseteq Event /\ handled \subseteq Event
TimerOK ==
  /\ tpc \in TimerPlaces
  /\ tev \in Event \cup {Nothing}
  /\ tev # Nothing <=> tpc \in {"compare", "back", "get", "post"}
  /\ tov \in Exists \cup {Nothing}
  /\ tov # Nothing <=> tpc = "post"
PoolOK == type \in [Overlaps -> Types] /\ pool \in [Overlaps -> Nat]
SendersOK == sov \in [Senders -> Exists \cup {Nothing}]
PortOK == port \subseteq Completion /\ wrong \subseteq Completion
IocpOK ==
  /\ ipc \in [IocpThreads -> IocpPlaces]
  /\ icp \in [IocpThreads -> Completion \cup {Nothing}]
  /\ \A p \in IocpThreads : icp[p] # Nothing <=> ipc[p] # "wait"

LEMMA TypeParts ==
  /\ TypeOK <=> /\ NumbersOK /\ EventsOK /\ TimerOK /\ PoolOK
                /\ SendersOK /\ PortOK /\ IocpOK
  /\ TypeOK' <=> /\ NumbersOK' /\ EventsOK' /\ TimerOK' /\ PoolOK'
                 /\ SendersOK' /\ PortOK' /\ IocpOK'
BY DEF TypeOK, NumbersOK, EventsOK, TimerOK, PoolOK, SendersOK, PortOK, IocpOK, Exists

LEMMA KindsAreTypes ==
  /\ \A k \in Kinds : k \in Types /\ k \notin {"recv", "send"}
  /\ "send" \in Types /\ "recv" \in Types
BY KindAssumption DEF Types, AllKinds

LEMMA EventFields ==
  ASSUME NEW e \in Event
  PROVE  /\ e.id \in 1..MaxEvents /\ e.kind \in Kinds /\ e.wake \in 0..MaxTime
         /\ e # Nothing
BY NothingAssumption DEF Event

LEMMA CompletionFields ==
  ASSUME NEW c \in Completion
  PROVE  /\ c.ov \in Overlaps /\ c.ok \in BOOLEAN /\ c.event \in Event \cup {Nothing}
         /\ c # Nothing
BY NothingAssumption DEF Completion

LEMMA ExistsAreOverlaps == NumbersOK => Exists \subseteq Overlaps
BY BoundAssumption DEF NumbersOK, Exists, Overlaps

\* What GetOverlap does to the pool: v comes out of it, or is new.
LEMMA GetOverlapFacts ==
  ASSUME NumbersOK, PoolOK, NEW v \in Overlaps, GetOverlap(v)
  PROVE  /\ allocated' \in 0..MaxOverlaps
         /\ Exists \subseteq Exists' /\ Exists' \subseteq Exists \cup {v}
         /\ pool' \in [Overlaps -> Nat]
         /\ \A x \in Overlaps : x # v => pool'[x] = pool[x]
         /\ \/ pool[v] = 0 /\ pool'[v] = 0 /\ v \in Exists' /\ v \notin Exists
            \/ pool[v] # 0 /\ pool'[v] = pool[v] - 1 /\ Exists' = Exists
<1>0. /\ pool \in [Overlaps -> Nat] /\ allocated \in 0..MaxOverlaps /\ MaxOverlaps \in Nat
      /\ v \in 1..MaxOverlaps
  BY BoundAssumption DEF NumbersOK, PoolOK, Overlaps
<1>1. CASE \A x \in Overlaps : pool[x] = 0
  <2>1. allocated < MaxOverlaps /\ v = allocated + 1 /\ allocated' = v /\ pool' = pool
    BY <1>1 DEF GetOverlap
  <2>2. pool[v] = 0 /\ pool'[v] = 0 /\ v \in Exists' /\ v \notin Exists
    BY <1>0, <1>1, <2>1 DEF Exists
  <2>3. Exists \subseteq Exists' /\ Exists' \subseteq Exists \cup {v}
    BY <1>0, <2>1 DEF Exists
  <2>4. QED
    BY <1>0, <2>1, <2>2, <2>3
<1>2. CASE ~\A x \in Overlaps : pool[x] = 0
  <2>1. pool[v] > 0 /\ pool' = [pool EXCEPT ![v] = @ - 1] /\ allocated' = allocated
    BY <1>2 DEF GetOverlap
  <2>2. pool' \in [Overlaps -> Nat] /\ pool'[v] = pool[v] - 1
    BY <1>0, <2>1
  <2>3. Exists' = Exists
    BY <2>1 DEF Exists
  <2>4. QED
    BY <1>0, <2>1, <2>2, <2>3
<1>3. QED
  BY <1>1, <1>2

-----------------------------------------------------------------------------
(* Types.                                                                  *)

LEMMA TypeRegister ==
  ASSUME TypeOK, NEW k \in Kinds, NEW o \in Objects, NEW d \in Delays,
         RegisterEvent(k, o, d)
  PROVE  TypeOK' /\ [id |-> nextEvent, kind |-> k, obj |-> o, wake |-> clock + d] \in Event
<1>0. NumbersOK /\ EventsOK /\ TimerOK /\ PoolOK /\ SendersOK /\ PortOK /\ IocpOK
  BY TypeParts
<1>1. clock + d \in 0..MaxTime
  BY <1>0, DelayAssumption, BoundAssumption DEF NumbersOK, RegisterEvent
<1>2. nextEvent \in 1..MaxEvents /\ nextEvent' \in 1..(MaxEvents + 1)
  BY <1>0, BoundAssumption DEF NumbersOK, RegisterEvent
<1>3. [id |-> nextEvent, kind |-> k, obj |-> o, wake |-> clock + d] \in Event
  BY <1>1, <1>2 DEF Event
<1>4. NumbersOK' /\ EventsOK'
  BY <1>0, <1>2, <1>3 DEF NumbersOK, EventsOK, RegisterEvent, timerThread, history
<1>5. TimerOK' /\ PoolOK' /\ SendersOK' /\ PortOK' /\ IocpOK'
  BY <1>0 DEF RegisterEvent, TimerOK, PoolOK, SendersOK, PortOK, IocpOK, timerThread,
              iocp, history, Exists
<1>6. QED
  BY <1>3, <1>4, <1>5, TypeParts

LEMMA TypeTick ==
  ASSUME TypeOK, Tick
  PROVE  TypeOK'
<1>0. NumbersOK /\ EventsOK /\ TimerOK /\ PoolOK /\ SendersOK /\ PortOK /\ IocpOK
  BY TypeParts
<1>1. NumbersOK'
  BY <1>0, BoundAssumption DEF NumbersOK, Tick, timerThread
<1>2. EventsOK' /\ TimerOK' /\ PoolOK' /\ SendersOK' /\ PortOK' /\ IocpOK'
  BY <1>0 DEF Tick, EventsOK, TimerOK, PoolOK, SendersOK, PortOK, IocpOK, timerThread,
              iocp, history, Exists
<1>3. QED
  BY <1>1, <1>2, TypeParts

LEMMA TypeSend ==
  ASSUME TypeOK, Made, NEW t \in Senders, SendGet(t) \/ SendPost(t)
  PROVE  TypeOK'
<1>0. NumbersOK /\ EventsOK /\ TimerOK /\ PoolOK /\ SendersOK /\ PortOK /\ IocpOK
  BY TypeParts
<1>1. CASE SendGet(t)
  <2>1. PICK v \in Overlaps : GetOverlap(v) /\ sov' = [sov EXCEPT ![t] = v]
    BY <1>1 DEF SendGet
  <2>2. /\ allocated' \in 0..MaxOverlaps /\ Exists \subseteq Exists'
        /\ pool' \in [Overlaps -> Nat] /\ v \in Exists'
    BY <1>0, <2>1, GetOverlapFacts DEF Made
  <2>3. NumbersOK' /\ EventsOK' /\ PoolOK' /\ PortOK' /\ IocpOK'
    BY <1>0, <1>1, <2>2, BoundAssumption
       DEF SendGet, NumbersOK, EventsOK, PoolOK, PortOK, IocpOK, timerThread, iocp, history
  <2>4. TimerOK'
    BY <1>0, <1>1, <2>2 DEF SendGet, TimerOK, timerThread
  <2>5. SendersOK'
    BY <1>0, <2>1, <2>2 DEF SendersOK
  <2>6. QED
    BY <2>3, <2>4, <2>5, TypeParts
<1>2. CASE SendPost(t)
  <2>1. sov[t] \in Exists /\ sov[t] \in Overlaps
    BY <1>0, <1>2, ExistsAreOverlaps DEF SendPost, SendersOK
  <2>2. \A ok \in BOOLEAN : [ov |-> sov[t], ok |-> ok, event |-> Nothing] \in Completion
    BY <2>1 DEF Completion
  <2>3. PortOK'
    BY <1>0, <1>2, <2>2 DEF SendPost, PortOK, history
  <2>4. PoolOK'
    BY <1>0, <1>2, KindsAreTypes DEF SendPost, PoolOK
  <2>5. SendersOK'
    BY <1>0, <1>2 DEF SendPost, SendersOK, Exists
  <2>6. NumbersOK' /\ EventsOK' /\ TimerOK' /\ IocpOK'
    BY <1>0, <1>2 DEF SendPost, NumbersOK, EventsOK, TimerOK, IocpOK, timerThread, iocp,
                      history, Exists
  <2>7. QED
    BY <2>3, <2>4, <2>5, <2>6, TypeParts
<1>3. QED
  BY <1>1, <1>2

LEMMA TypeTimer ==
  ASSUME TypeOK, Made, TimerFunc
  PROVE  TypeOK'
<1>0. NumbersOK /\ EventsOK /\ TimerOK /\ PoolOK /\ SendersOK /\ PortOK /\ IocpOK
  BY TypeParts
<1>1. CASE TimerRead \/ TimerPop \/ TimerEmpty \/ TimerCompare \/ TimerBack \/ TimerWake
  <2>1. PoolOK' /\ SendersOK' /\ PortOK' /\ IocpOK'
    BY <1>0, <1>1 DEF TimerRead, TimerPop, TimerEmpty, TimerCompare, TimerBack, TimerWake,
       PoolOK, SendersOK, PortOK, IocpOK, iocp, history, Exists
  <2>2. NumbersOK'
    BY <1>0, <1>1, BoundAssumption
       DEF TimerRead, TimerPop, TimerEmpty, TimerCompare, TimerBack, TimerWake, NumbersOK
  <2>3. EventsOK'
    BY <1>0, <1>1 DEF TimerRead, TimerPop, TimerEmpty, TimerCompare, TimerBack, TimerWake,
       EventsOK, TimerOK, history
  <2>4. TimerOK'
    <3>1. CASE TimerRead \/ TimerEmpty \/ TimerCompare \/ TimerWake
      BY <1>0, <3>1 DEF TimerRead, TimerEmpty, TimerCompare, TimerWake, TimerOK,
         TimerPlaces, Exists
    <3>2. CASE TimerPop
      BY <1>0, <3>2, NothingAssumption DEF TimerPop, TimerOK, TimerPlaces, Exists, EventsOK
    <3>3. CASE TimerBack
      BY <1>0, <3>3 DEF TimerBack, TimerOK, TimerPlaces, Exists
    <3>4. QED
      BY <1>1, <3>1, <3>2, <3>3
  <2>5. QED
    BY <2>1, <2>2, <2>3, <2>4, TypeParts
<1>2. CASE TimerGet
  <2>1. PICK v \in Overlaps : GetOverlap(v) /\ tov' = v
    BY <1>2 DEF TimerGet
  <2>2. /\ allocated' \in 0..MaxOverlaps /\ Exists \subseteq Exists'
        /\ pool' \in [Overlaps -> Nat] /\ v \in Exists'
    BY <1>0, <2>1, GetOverlapFacts DEF Made
  <2>3. NumbersOK' /\ EventsOK' /\ PoolOK' /\ PortOK' /\ IocpOK'
    BY <1>0, <1>2, <2>2
       DEF TimerGet, NumbersOK, EventsOK, PoolOK, PortOK, IocpOK, iocp, history
  <2>4. SendersOK'
    BY <1>0, <1>2, <2>2 DEF TimerGet, SendersOK
  <2>5. TimerOK'
    BY <1>0, <1>2, <2>1, <2>2, NothingAssumption DEF TimerGet, TimerOK, TimerPlaces
  <2>6. QED
    BY <2>3, <2>4, <2>5, TypeParts
<1>3. CASE TimerPost
  <2>1. tov \in Overlaps /\ tev \in Event
    BY <1>0, <1>3, ExistsAreOverlaps DEF TimerPost, TimerOK
  <2>2. [ov |-> tov, ok |-> TRUE, event |-> tev] \in Completion
    BY <2>1 DEF Completion
  <2>3. tev.kind \in Types
    BY <2>1, EventFields, KindsAreTypes
  <2>4. PortOK' /\ PoolOK'
    BY <1>0, <1>3, <2>1, <2>2, <2>3 DEF TimerPost, PortOK, PoolOK, history
  <2>5. TimerOK'
    BY <1>0, <1>3 DEF TimerPost, TimerOK, TimerPlaces
  <2>6. NumbersOK' /\ EventsOK' /\ SendersOK' /\ IocpOK'
    BY <1>0, <1>3 DEF TimerPost, NumbersOK, EventsOK, SendersOK, IocpOK, iocp, history, Exists
  <2>7. QED
    BY <2>4, <2>5, <2>6, TypeParts
<1>4. QED
  BY <1>1, <1>2, <1>3 DEF TimerFunc

LEMMA TypeIocp ==
  ASSUME TypeOK, NEW p \in IocpThreads, IOCPFunc(p)
  PROVE  TypeOK'
<1>0. NumbersOK /\ EventsOK /\ TimerOK /\ PoolOK /\ SendersOK /\ PortOK /\ IocpOK
  BY TypeParts
<1>1. NumbersOK' /\ TimerOK' /\ SendersOK'
  BY <1>0 DEF IOCPFunc, Dequeue, DispatchFailed, Dispatch, DispatchWrong, RegisterToPool,
     NumbersOK, TimerOK, SendersOK, timerThread, Exists
<1>2. ipc[p] # "wait" => icp[p] \in Completion
  BY <1>0 DEF IocpOK
<1>3. EventsOK'
  BY <1>0, <1>2, CompletionFields
     DEF IOCPFunc, Dequeue, DispatchFailed, Dispatch, DispatchWrong, RegisterToPool,
         EventsOK, history
<1>4. PoolOK'
  BY <1>0, <1>2, CompletionFields
     DEF IOCPFunc, Dequeue, DispatchFailed, Dispatch, DispatchWrong, RegisterToPool, PoolOK
<1>5. PortOK'
  BY <1>0, <1>2
     DEF IOCPFunc, Dequeue, DispatchFailed, Dispatch, DispatchWrong, RegisterToPool,
         PortOK, history
<1>6. IocpOK'
  <2>1. CASE \E c \in port : Dequeue(p, c)
    BY <1>0, <2>1, CompletionFields DEF Dequeue, IocpOK, IocpPlaces, PortOK
  <2>2. CASE ipc[p] # "wait" /\ ipc' = [ipc EXCEPT ![p] = "return"] /\ UNCHANGED icp
    BY <1>0, <2>2 DEF IocpOK, IocpPlaces
  <2>3. CASE /\ ipc' = [ipc EXCEPT ![p] = "wait"]
             /\ icp' = [icp EXCEPT ![p] = Nothing]
    BY <1>0, <2>3 DEF IocpOK, IocpPlaces
  <2>4. QED
    BY <2>1, <2>2, <2>3 DEF IOCPFunc, DispatchFailed, Dispatch, DispatchWrong, RegisterToPool
<1>7. QED
  BY <1>1, <1>3, <1>4, <1>5, <1>6, TypeParts

LEMMA TypeStutter ==
  ASSUME TypeOK, UNCHANGED vars
  PROVE  TypeOK'
BY TypeParts DEF vars, timerThread, iocp, history, NumbersOK, EventsOK, TimerOK, PoolOK,
   SendersOK, PortOK, IocpOK, Exists

LEMMA MadeStep ==
  ASSUME TypeOK, Made, [Next]_vars
  PROVE  Made'
<1>0. /\ NumbersOK /\ TimerOK /\ PoolOK /\ SendersOK /\ PortOK /\ IocpOK
      /\ \A c \in port : c \in Completion
  BY TypeParts DEF PortOK
<1>1. CASE Tick \/ UNCHANGED vars \/ \E k \in Kinds, o \in Objects, d \in Delays : RegisterEvent(k, o, d)
  BY <1>1 DEF Tick, RegisterEvent, vars, iocp, Made, Holds, Exists
<1>2. ASSUME NEW v \in Overlaps, GetOverlap(v), UNCHANGED <<port, icp>>
      PROVE  Made'
  BY <1>0, <1>2, GetOverlapFacts DEF Made, Holds
<1>3. ASSUME NEW t \in Senders, SendGet(t) \/ SendPost(t)
      PROVE  Made'
  <2>1. CASE SendGet(t)
    BY <1>2, <2>1 DEF SendGet, iocp
  <2>2. CASE SendPost(t)
    <3>1. sov[t] \in Exists
      BY <1>0, <2>2 DEF SendPost, SendersOK
    <3>2. \A c \in port' : c \in port \/ c.ov = sov[t]
      BY <2>2 DEF SendPost
    <3>3. QED
      BY <2>2, <3>1, <3>2 DEF SendPost, Made, Holds, iocp, Exists
  <2>3. QED
    BY <1>3, <2>1, <2>2
<1>4. CASE TimerFunc
  <2>1. CASE TimerGet
    BY <1>2, <2>1 DEF TimerGet, iocp
  <2>2. CASE TimerPost
    <3>1. tov \in Exists
      BY <1>0, <2>2 DEF TimerPost, TimerOK
    <3>2. \A c \in port' : c \in port \/ c.ov = tov
      BY <2>2 DEF TimerPost
    <3>3. QED
      BY <2>2, <3>1, <3>2 DEF TimerPost, Made, Holds, iocp, Exists
  <2>3. QED
    BY <1>4, <2>1, <2>2 DEF TimerFunc, TimerRead, TimerPop, TimerEmpty, TimerCompare, TimerBack,
       TimerWake, Made, Holds, iocp, Exists
<1>5. ASSUME NEW p \in IocpThreads, IOCPFunc(p)
      PROVE  Made'
  <2>1. CASE \E c \in port : Dequeue(p, c)
    BY <1>0, <2>1 DEF Dequeue, Made, Holds, IocpOK, Exists
  <2>2. CASE RegisterToPool(p)
    <3>1. Holds(p) /\ icp[p].ov \in Exists
      BY <1>0, <2>2 DEF RegisterToPool, IocpOK, Holds, Made
    <3>2. QED
      BY <1>0, <2>2, <3>1 DEF RegisterToPool, Made, Holds, IocpOK, PoolOK, Exists
  <2>3. CASE DispatchFailed(p) \/ Dispatch(p) \/ DispatchWrong(p)
    BY <1>0, <2>3 DEF DispatchFailed, Dispatch, DispatchWrong, Made, Holds, IocpOK, Exists
  <2>4. QED
    BY <1>5, <2>1, <2>2, <2>3 DEF IOCPFunc
<1>6. QED
  BY <1>1, <1>3, <1>4, <1>5 DEF Next

LEMMA TypeStep ==
  ASSUME TypeOK, Made, [Next]_vars
  PROVE  TypeOK' /\ Made'
BY MadeStep, TypeTick, TypeRegister, TypeSend, TypeTimer, TypeIocp, TypeStutter DEF Next

\* Every variable has its type, whatever the numbers of threads, objects and events;
\* an overlapped object that anybody holds exists.
THEOREM TypeInvariant == Spec => []TypeOK
<1>1. Init => TypeOK /\ Made
  BY NothingAssumption, BoundAssumption, KindsAreTypes
     DEF Init, TypeOK, TimerPlaces, IocpPlaces, Overlaps, Exists, Made, Holds
<1>2. QED
  BY <1>1, TypeStep, PTL DEF Spec

-----------------------------------------------------------------------------
(* An object is in one place.                                              *)

\* What comes out of the pool is nowhere else.
LEMMA Fresh ==
  ASSUME TypeOK, Made, Apart, NEW v \in Overlaps, GetOverlap(v)
  PROVE  /\ pool'[v] = 0 /\ \A x \in Overlaps : pool'[x] <= pool[x]
         /\ \A x \in Overlaps : pool'[x] \in Nat
         /\ \A c \in port : c.ov # v
         /\ \A p \in IocpThreads : Holds(p) => icp[p].ov # v
         /\ \A t \in Senders : sov[t] # v
         /\ tov # v
<1>0. /\ NumbersOK /\ TimerOK /\ PoolOK /\ SendersOK
      /\ \A x \in Overlaps : pool[x] \in Nat
      /\ v # Nothing
  BY TypeParts, NothingAssumption DEF PoolOK
<1>1. /\ pool' \in [Overlaps -> Nat]
      /\ \A x \in Overlaps : x # v => pool'[x] = pool[x]
      /\ \/ pool[v] = 0 /\ pool'[v] = 0 /\ v \notin Exists
         \/ pool[v] # 0 /\ pool'[v] = pool[v] - 1
  BY <1>0, GetOverlapFacts
<1>2. /\ pool'[v] = 0 /\ \A x \in Overlaps : pool'[x] <= pool[x]
      /\ \A x \in Overlaps : pool'[x] \in Nat
  BY <1>0, <1>1 DEF Apart, PoolApart
<1>3. v \notin Exists \/ pool[v] # 0
  BY <1>1
<1>4. /\ \A c \in port : c.ov # v
      /\ \A p \in IocpThreads : Holds(p) => icp[p].ov # v
  BY <1>3 DEF Made, Apart, PortApart, IocpApart
<1>5. /\ \A t \in Senders : sov[t] # v
      /\ tov # v
  BY <1>0, <1>3 DEF Apart, SendersApart, SendersOK, TimerOK
<1>6. QED
  BY <1>2, <1>4, <1>5

LEMMA ApartSame ==
  ASSUME Apart, UNCHANGED <<pool, port, icp, sov, tov>>
  PROVE  Apart'
BY DEF Apart, PoolApart, PortApart, IocpApart, SendersApart, Holds

LEMMA ApartSend ==
  ASSUME TypeOK, Made, Apart, NEW t \in Senders, SendGet(t) \/ SendPost(t)
  PROVE  Apart'
<1>0. /\ NumbersOK /\ TimerOK /\ PoolOK /\ SendersOK /\ IocpOK
      /\ \A c \in port : c.ov \in Overlaps
      /\ \A p \in IocpThreads : Holds(p) => icp[p].ov \in Overlaps
      /\ \A u \in Senders : sov[u] # Nothing => sov[u] \in Overlaps
      /\ tov # Nothing => tov \in Overlaps
  BY TypeParts, ExistsAreOverlaps, CompletionFields DEF PortOK, IocpOK, Holds, SendersOK, TimerOK
<1>1. CASE SendGet(t)
  <2>1. PICK v \in Overlaps : GetOverlap(v) /\ sov' = [sov EXCEPT ![t] = v]
    BY <1>1 DEF SendGet
  <2>2. /\ pool'[v] = 0 /\ \A x \in Overlaps : pool'[x] <= pool[x]
        /\ \A x \in Overlaps : pool'[x] \in Nat
        /\ \A c \in port : c.ov # v
        /\ \A p \in IocpThreads : Holds(p) => icp[p].ov # v
        /\ \A u \in Senders : sov[u] # v
        /\ tov # v
    BY <2>1, Fresh
  <2>3. UNCHANGED <<port, icp, tov>>
    BY <1>1 DEF SendGet, iocp, timerThread
  <2>4. PoolApart'
    BY <1>0, <2>2 DEF Apart, PoolApart, PoolOK
  <2>5. PortApart' /\ IocpApart'
    BY <1>0, <2>2, <2>3 DEF Apart, PortApart, IocpApart, Holds
  <2>6. sov'[t] = v /\ \A u \in Senders : u # t => sov'[u] = sov[u]
    BY <1>0, <2>1 DEF SendersOK
  <2>7. SendersApart'
    BY <1>0, <2>2, <2>3, <2>6 DEF Apart, SendersApart, Holds
  <2>8. (tov # Nothing => pool[tov] = 0)'
    BY <1>0, <2>2, <2>3 DEF Apart
  <2>9. QED
    BY <2>4, <2>5, <2>7, <2>8 DEF Apart
<1>2. CASE SendPost(t)
  <2>1. sov[t] # Nothing /\ UNCHANGED <<pool, icp, tov>>
    BY <1>2 DEF SendPost, iocp, timerThread
  <2>2. /\ \A c \in port' : c \in port \/ c.ov = sov[t]
        /\ \A c, d \in port' : c \notin port /\ d \notin port => c = d
    BY <1>2 DEF SendPost
  <2>3. sov'[t] = Nothing /\ \A u \in Senders : u # t => sov'[u] = sov[u]
    BY <1>0, <1>2 DEF SendPost, SendersOK
  <2>4. PoolApart' /\ (tov # Nothing => pool[tov] = 0)'
    BY <2>1 DEF Apart, PoolApart
  <2>5. PortApart' /\ IocpApart'
    BY <2>1, <2>2 DEF Apart, PortApart, IocpApart, SendersApart, Holds
  <2>6. SendersApart'
    BY <2>1, <2>2, <2>3 DEF Apart, SendersApart, Holds
  <2>7. QED
    BY <2>4, <2>5, <2>6 DEF Apart
<1>3. QED
  BY <1>1, <1>2

LEMMA ApartTimer ==
  ASSUME TypeOK, Made, Apart, TimerFunc
  PROVE  Apart'
<1>0. /\ NumbersOK /\ TimerOK /\ PoolOK /\ SendersOK /\ IocpOK
      /\ \A c \in port : c.ov \in Overlaps
      /\ \A p \in IocpThreads : Holds(p) => icp[p].ov \in Overlaps
      /\ \A u \in Senders : sov[u] # Nothing => sov[u] \in Overlaps
  BY TypeParts, ExistsAreOverlaps, CompletionFields DEF PortOK, IocpOK, Holds, SendersOK
<1>1. CASE TimerGet
  <2>1. PICK v \in Overlaps : GetOverlap(v) /\ tov' = v
    BY <1>1 DEF TimerGet
  <2>2. /\ pool'[v] = 0 /\ \A x \in Overlaps : pool'[x] <= pool[x]
        /\ \A x \in Overlaps : pool'[x] \in Nat
        /\ \A c \in port : c.ov # v
        /\ \A p \in IocpThreads : Holds(p) => icp[p].ov # v
        /\ \A u \in Senders : sov[u] # v
    BY <2>1, Fresh
  <2>3. UNCHANGED <<port, icp, sov>>
    BY <1>1 DEF TimerGet, iocp
  <2>4. PoolApart' /\ (tov # Nothing => pool[tov] = 0)'
    BY <1>0, <2>1, <2>2 DEF Apart, PoolApart, PoolOK
  <2>5. PortApart' /\ IocpApart'
    BY <1>0, <2>1, <2>2, <2>3 DEF Apart, PortApart, IocpApart, Holds
  <2>6. SendersApart'
    BY <1>0, <2>1, <2>2, <2>3 DEF Apart, SendersApart, Holds
  <2>7. QED
    BY <2>4, <2>5, <2>6 DEF Apart
<1>2. CASE TimerPost
  <2>1. tov # Nothing /\ tov' = Nothing /\ UNCHANGED <<pool, icp, sov>>
    <3>1. tov # Nothing
      BY <1>0, <1>2 DEF TimerPost, TimerOK
    <3>2. QED
      BY <1>2, <3>1 DEF TimerPost, iocp
  <2>2. /\ \A c \in port' : c \in port \/ c.ov = tov
        /\ \A c, d \in port' : c \notin port /\ d \notin port => c = d
    <3> DEFINE d0 == [ov |-> tov, ok |-> TRUE, event |-> tev]
    <3>1. port' = port \cup {d0}
      BY <1>2 DEF TimerPost
    <3>2. d0.ov = tov
      OBVIOUS
    <3> HIDE DEF d0
    <3>3. QED
      BY <3>1, <3>2
  <2>3. Nothing \notin Overlaps
    BY NothingAssumption
  <2>4. tov \in Overlaps
    BY <1>0, <2>1, ExistsAreOverlaps DEF TimerOK
  <2>5. PoolApart' /\ (tov # Nothing => pool[tov] = 0)'
    BY <2>1 DEF Apart, PoolApart
  <2>6. PortApart' /\ IocpApart'
    BY <1>0, <2>1, <2>2, <2>3, <2>4 DEF Apart, PortApart, IocpApart, Holds
  <2>7. SendersApart'
    BY <1>0, <2>1, <2>2, <2>3, <2>4 DEF Apart, SendersApart, Holds
  <2>8. QED
    BY <2>5, <2>6, <2>7 DEF Apart
<1>3. CASE UNCHANGED <<pool, port, icp, sov, tov>>
  BY <1>3, ApartSame
<1>4. QED
  BY <1>1, <1>2, <1>3 DEF TimerFunc, TimerRead, TimerPop, TimerEmpty, TimerCompare,
     TimerBack, TimerWake, iocp

LEMMA ApartIocp ==
  ASSUME TypeOK, Made, Apart, NEW p \in IocpThreads, IOCPFunc(p)
  PROVE  Apart'
<1>0. /\ PoolOK /\ IocpOK
      /\ \A c \in port : c # Nothing /\ c.ov \in Overlaps
      /\ \A q \in IocpThreads : Holds(q) => icp[q].ov \in Overlaps
      /\ UNCHANGED <<sov, tov>>
  BY TypeParts, CompletionFields
     DEF PortOK, IocpOK, Holds, IOCPFunc, Dequeue, DispatchFailed, Dispatch, DispatchWrong,
         RegisterToPool, timerThread
<1>1. CASE \E c \in port : Dequeue(p, c)
  <2>1. PICK c \in port : Dequeue(p, c)
    BY <1>1
  <2>2. /\ ~Holds(p) /\ icp'[p] = c /\ port' = port \ {c} /\ pool' = pool
        /\ \A q \in IocpThreads : q # p => icp'[q] = icp[q]
    BY <1>0, <2>1 DEF Dequeue, IocpOK, Holds
  <2>3. PoolApart' /\ PortApart' /\ (tov # Nothing => pool[tov] = 0)'
    BY <1>0, <2>2 DEF Apart, PoolApart, PortApart
  <2>4. IocpApart'
    BY <1>0, <2>2 DEF Apart, PortApart, IocpApart, Holds
  <2>5. SendersApart'
    BY <1>0, <2>2 DEF Apart, SendersApart, Holds
  <2>6. QED
    BY <2>3, <2>4, <2>5 DEF Apart
<1>2. CASE RegisterToPool(p)
  <2>1. Holds(p) /\ icp[p].ov \in Overlaps /\ pool[icp[p].ov] = 0
    BY <1>0, <1>2 DEF RegisterToPool, IocpOK, Holds, Apart, IocpApart
  <2>2. /\ pool'[icp[p].ov] = 1 /\ port' = port
        /\ \A x \in Overlaps : x # icp[p].ov => pool'[x] = pool[x]
    BY <1>0, <1>2, <2>1 DEF RegisterToPool, PoolOK
  <2>3. icp'[p] = Nothing /\ \A q \in IocpThreads : q # p => icp'[q] = icp[q]
    BY <1>0, <1>2 DEF RegisterToPool, IocpOK
  <2>4. PoolApart'
    BY <2>1, <2>2 DEF Apart, PoolApart
  <2>5. PortApart'
    BY <1>0, <2>1, <2>2 DEF Apart, PortApart, IocpApart
  <2>6. IocpApart'
    BY <1>0, <2>1, <2>2, <2>3 DEF Apart, IocpApart, Holds
  <2>7. \A u \in Senders : sov[u] # Nothing => sov[u] \in Overlaps
    BY TypeParts, ExistsAreOverlaps DEF SendersOK
  <2>8. SendersApart'
    BY <1>0, <2>1, <2>2, <2>3, <2>7 DEF Apart, SendersApart, Holds
  <2>9. (tov # Nothing => pool[tov] = 0)'
    BY <1>0, <2>1, <2>2, TypeParts, ExistsAreOverlaps DEF Apart, IocpApart, TimerOK
  <2>10. QED
    BY <2>4, <2>5, <2>6, <2>8, <2>9 DEF Apart
<1>3. CASE UNCHANGED <<pool, port, icp>>
  BY <1>0, <1>3, ApartSame
<1>4. CASE icp' = [icp EXCEPT ![p] = Nothing] /\ UNCHANGED <<pool, port>>
  BY <1>0, <1>4 DEF Apart, PoolApart, PortApart, IocpApart, SendersApart, Holds, IocpOK
<1>5. QED
  BY <1>1, <1>2, <1>3, <1>4 DEF IOCPFunc, DispatchFailed, Dispatch, DispatchWrong

LEMMA ApartStep ==
  ASSUME TypeOK, Made, Apart, [Next]_vars
  PROVE  Apart'
<1>1. CASE Tick \/ UNCHANGED vars \/ \E k \in Kinds, o \in Objects, d \in Delays : RegisterEvent(k, o, d)
  BY <1>1, ApartSame DEF Tick, RegisterEvent, vars, timerThread, iocp
<1>2. QED
  BY <1>1, ApartSend, ApartTimer, ApartIocp DEF Next

\* The disjoint places of Apart, counted.
LEMMA ApartOwner ==
  ASSUME TypeOK, Made, Apart
  PROVE  OneOwner
<1> SUFFICES ASSUME NEW v \in Overlaps
             PROVE  Hands(v) <= 1
  BY DEF OneOwner
<1>0. pool[v] \in {0, 1} /\ v # Nothing
  BY TypeParts, NothingAssumption DEF PoolOK, Apart, PoolApart
<1>1. Held(v) = {} \/ \E p \in IocpThreads : Held(v) = {p}
  BY DEF Held, Apart, IocpApart, Holds
<1>2. Posted(v) = {} \/ \E c \in port : Posted(v) = {c}
  BY DEF Posted, Apart, PortApart
<1>3. SentBy(v) = {} \/ \E t \in Senders : SentBy(v) = {t}
  BY <1>0 DEF SentBy, Apart, SendersApart
<1>4. /\ pool[v] = 1 => Held(v) = {} /\ Posted(v) = {} /\ SentBy(v) = {} /\ tov # v
      /\ tov = v => Held(v) = {} /\ Posted(v) = {} /\ SentBy(v) = {}
      /\ SentBy(v) # {} => Held(v) = {} /\ Posted(v) = {}
      /\ Held(v) # {} => Posted(v) = {}
  BY <1>0 DEF Held, Posted, SentBy, Apart, PortApart, IocpApart, SendersApart, Holds
<1>5. /\ Cardinality(Held(v)) = IF Held(v) = {} THEN 0 ELSE 1
      /\ Cardinality(Posted(v)) = IF Posted(v) = {} THEN 0 ELSE 1
      /\ Cardinality(SentBy(v)) = IF SentBy(v) = {} THEN 0 ELSE 1
  BY <1>1, <1>2, <1>3, FS_EmptySet, FS_Singleton
<1>6. QED
  BY <1>0, <1>4, <1>5 DEF Hands

\* Whoever posts, sends, fails or is refused, an overlapped object is in one place.
THEOREM OwnerInvariant == Spec => []OneOwner
<1>1. Init => TypeOK /\ Made /\ Apart
  BY NothingAssumption, BoundAssumption, KindsAreTypes
     DEF Init, TypeOK, TimerPlaces, IocpPlaces, Overlaps, Exists, Made, Holds, Apart,
         PoolApart, PortApart, IocpApart, SendersApart
<1>2. TypeOK /\ Made /\ Apart /\ [Next]_vars => TypeOK' /\ Made' /\ Apart'
  BY TypeStep, ApartStep
<1>3. QED
  BY <1>1, <1>2, ApartOwner, PTL DEF Spec

-----------------------------------------------------------------------------
(* What an object says of its operation, and where objects are lost.       *)

\* A step that writes the type of at most one object, which is neither posted
\* nor held by an IOCP thread.
LEMMA ToldSame ==
  ASSUME TypeOK, Told, NEW v \in Overlaps,
         \A x \in Overlaps : x # v => type'[x] = type[x],
         \A c \in port : c.ov # v,
         \A p \in IocpThreads : Holds(p) => icp[p].ov # v,
         \A c \in port' : c \in port \/ Says(c)',
         UNCHANGED <<ipc, icp>>
  PROVE  Told'
<1>1. \A c \in port : c.ov \in Overlaps
  BY TypeParts, CompletionFields DEF PortOK
<1>2. \A p \in IocpThreads : ipc[p] = "classify" => Holds(p) /\ icp[p].ov \in Overlaps
  BY TypeParts, CompletionFields DEF IocpOK, Holds
<1>3. QED
  BY <1>1, <1>2 DEF Told, Says

LEMMA ToldStep ==
  ASSUME TypeOK, Made, Apart, Told, [Next]_vars
  PROVE  Told'
<1>0. /\ NumbersOK /\ TimerOK /\ PoolOK /\ SendersOK /\ IocpOK
      /\ Exists \subseteq Overlaps
  BY TypeParts, ExistsAreOverlaps
<1>1. CASE UNCHANGED <<type, port, ipc, icp>>
  BY <1>1 DEF Told, Says
<1>2. ASSUME NEW t \in Senders, SendPost(t)
      PROVE  Told'
  <2>1. sov[t] # Nothing /\ sov[t] \in Overlaps /\ UNCHANGED <<ipc, icp>>
    BY <1>0, <1>2 DEF SendPost, SendersOK, iocp
  <2>2. type'[sov[t]] = "send" /\ \A x \in Overlaps : x # sov[t] => type'[x] = type[x]
    BY <1>0, <1>2, <2>1 DEF SendPost, PoolOK
  <2>3. \A c \in port' : c \in port \/ (c.ov = sov[t] /\ c.event = Nothing)
    BY <1>2 DEF SendPost
  <2>4. \A c \in port' : c \in port \/ Says(c)'
    BY <2>2, <2>3 DEF Says
  <2>5. /\ \A c \in port : c.ov # sov[t]
        /\ \A p \in IocpThreads : Holds(p) => icp[p].ov # sov[t]
    BY <2>1 DEF Apart, SendersApart
  <2>6. QED
    BY <2>1, <2>2, <2>4, <2>5, ToldSame
<1>3. CASE TimerPost
  <2>1. tov # Nothing /\ tov \in Overlaps /\ tev \in Event
    BY <1>0, <1>3 DEF TimerPost, TimerOK
  <2>2. type'[tov] = tev.kind /\ \A x \in Overlaps : x # tov => type'[x] = type[x]
    BY <1>0, <1>3, <2>1 DEF TimerPost, PoolOK
  <2>3. \A c \in port' : c \in port \/ (c.ov = tov /\ c.event = tev /\ c.ok)
    BY <1>3 DEF TimerPost
  <2>4. \A c \in port' : c \in port \/ Says(c)'
    BY <2>1, <2>2, <2>3, NothingAssumption DEF Says
  <2>5. /\ \A c \in port : c.ov # tov
        /\ \A p \in IocpThreads : Holds(p) => icp[p].ov # tov
    BY DEF Apart, PortApart, IocpApart
  <2>6. UNCHANGED <<ipc, icp>>
    BY <1>3 DEF TimerPost, iocp
  <2>7. QED
    BY <2>1, <2>2, <2>4, <2>5, <2>6, ToldSame
<1>4. ASSUME NEW p \in IocpThreads, IOCPFunc(p)
      PROVE  Told'
  <2>1. \A q \in IocpThreads : q # p => icp'[q] = icp[q] /\ ipc'[q] = ipc[q]
    BY <1>0, <1>4 DEF IOCPFunc, Dequeue, DispatchFailed, Dispatch, DispatchWrong,
       RegisterToPool, IocpOK
  <2>2. type' = type /\ port' \subseteq port
    BY <1>4 DEF IOCPFunc, Dequeue, DispatchFailed, Dispatch, DispatchWrong, RegisterToPool
  <2>3. ipc'[p] = "classify" => icp'[p] \in port
    BY <1>0, <1>4 DEF IOCPFunc, Dequeue, DispatchFailed, Dispatch, DispatchWrong,
       RegisterToPool, IocpOK
  <2>4. QED
    BY <2>1, <2>2, <2>3 DEF Told, Says
<1>5. QED
  BY <1>1, <1>2, <1>3, <1>4 DEF Next, Tick, RegisterEvent, SendGet, TimerFunc, TimerRead,
     TimerPop, TimerEmpty, TimerCompare, TimerBack, TimerWake, TimerGet, iocp, vars

\* An IOCP thread drops an object only if it is one of a respawn or a rollback.
LEMMA Dropped ==
  ASSUME TypeOK, Told, NEW p \in IocpThreads, DispatchFailed(p) \/ Dispatch(p) \/ DispatchWrong(p)
  PROVE  \/ UNCHANGED icp
         \/ /\ icp' = [icp EXCEPT ![p] = Nothing]
            /\ type[icp[p].ov] \in {"respawn", "rollback"}
<1>1. icp[p] \in Completion /\ Says(icp[p])
  BY TypeParts DEF IocpOK, DispatchFailed, Dispatch, DispatchWrong, Told
<1>2. /\ type[icp[p].ov] # "recv"
      /\ ~icp[p].ok => type[icp[p].ov] = "send"
  BY <1>1, CompletionFields, EventFields, KindsAreTypes DEF Says
<1>3. type[icp[p].ov] \in Types
  BY <1>1, CompletionFields, TypeParts DEF PoolOK
<1>4. CASE DispatchFailed(p)
  BY <1>2, <1>4 DEF DispatchFailed
<1>5. CASE Dispatch(p)
  BY <1>2, <1>5 DEF Dispatch, HasHandler, Returns
<1>6. CASE DispatchWrong(p)
  BY <1>3, <1>6 DEF DispatchWrong, HasHandler, Types, AllKinds
<1>7. QED
  BY <1>4, <1>5, <1>6

LEMMA LostStep ==
  ASSUME TypeOK, Made, Apart, Told, Lost, [Next]_vars
  PROVE  Lost'
<1>0. /\ NumbersOK /\ TimerOK /\ PoolOK /\ SendersOK /\ IocpOK
      /\ Exists \subseteq Overlaps
      /\ Nothing \notin Overlaps
  BY TypeParts, ExistsAreOverlaps, NothingAssumption
<1>1. CASE UNCHANGED <<allocated, type, pool, port, icp, sov, tov>>
  BY <1>1 DEF Lost, Somewhere, Holds, Exists
<1>2. ASSUME NEW t \in Senders, SendGet(t)
      PROVE  Lost'
  <2>1. PICK v \in Overlaps : GetOverlap(v) /\ sov' = [sov EXCEPT ![t] = v]
    BY <1>2 DEF SendGet
  <2>2. /\ sov[t] = Nothing /\ sov'[t] = v /\ \A u \in Senders : u # t => sov'[u] = sov[u]
        /\ UNCHANGED <<type, port, icp, tov>>
    BY <1>0, <1>2, <2>1 DEF SendGet, SendersOK, iocp, timerThread
  <2>3. /\ Exists' \subseteq Exists \cup {v}
        /\ \A x \in Overlaps : x # v => pool'[x] = pool[x]
    BY <1>0, <2>1, GetOverlapFacts
  <2>4. Somewhere(v)'
    BY <2>2 DEF Somewhere
  <2>5. \A x \in Exists : x # v /\ Somewhere(x) => Somewhere(x)'
    BY <1>0, <2>2, <2>3 DEF Somewhere, Holds
  <2>6. QED
    BY <2>2, <2>3, <2>4, <2>5 DEF Lost
<1>3. ASSUME NEW t \in Senders, SendPost(t)
      PROVE  Lost'
  <2>1. sov[t] \in Overlaps /\ UNCHANGED <<pool, icp, tov>> /\ port \subseteq port' /\ Exists' = Exists
    BY <1>0, <1>3 DEF SendPost, SendersOK, iocp, timerThread, Exists
  <2>2. /\ type'[sov[t]] = "send" /\ \A x \in Overlaps : x # sov[t] => type'[x] = type[x]
        /\ \A u \in Senders : u # t => sov'[u] = sov[u]
    BY <1>0, <1>3, <2>1 DEF SendPost, PoolOK, SendersOK
  <2>3. \A x \in Exists : x # sov[t] /\ Somewhere(x) => Somewhere(x)'
    BY <2>1, <2>2 DEF Somewhere, Holds
  <2>4. QED
    BY <1>0, <2>1, <2>2, <2>3 DEF Lost
<1>4. CASE TimerGet
  <2>1. PICK v \in Overlaps : GetOverlap(v) /\ tov' = v
    BY <1>4 DEF TimerGet
  <2>2. tov = Nothing /\ UNCHANGED <<type, port, icp, sov>>
    BY <1>0, <1>4 DEF TimerGet, iocp, TimerOK
  <2>3. /\ Exists' \subseteq Exists \cup {v}
        /\ \A x \in Overlaps : x # v => pool'[x] = pool[x]
    BY <1>0, <2>1, GetOverlapFacts
  <2>4. Somewhere(v)'
    BY <2>1 DEF Somewhere
  <2>5. \A x \in Exists : x # v /\ Somewhere(x) => Somewhere(x)'
    BY <1>0, <2>2, <2>3 DEF Somewhere, Holds
  <2>6. QED
    BY <2>2, <2>3, <2>4, <2>5 DEF Lost
<1>5. CASE TimerPost
  <2>1. tov \in Overlaps /\ UNCHANGED <<pool, icp, sov>> /\ Exists' = Exists
    BY <1>0, <1>5 DEF TimerPost, TimerOK, iocp, Exists
  <2>2. \A x \in Overlaps : x # tov => type'[x] = type[x]
    BY <1>0, <1>5, <2>1 DEF TimerPost, PoolOK
  <2>3. port \subseteq port' /\ \E c \in port' : c.ov = tov
    <3> DEFINE d0 == [ov |-> tov, ok |-> TRUE, event |-> tev]
    <3>1. port' = port \cup {d0}
      BY <1>5 DEF TimerPost
    <3>2. d0.ov = tov
      OBVIOUS
    <3> HIDE DEF d0
    <3>3. QED
      BY <3>1, <3>2
  <2>4. \A x \in Exists : x = tov \/ Somewhere(x) => Somewhere(x)'
    BY <2>1, <2>3 DEF Somewhere, Holds
  <2>5. QED
    BY <1>0, <2>1, <2>2, <2>4 DEF Lost
<1>6. ASSUME NEW p \in IocpThreads, IOCPFunc(p)
      PROVE  Lost'
  <2>0. UNCHANGED <<type, sov, tov>> /\ Exists' = Exists
    BY <1>6 DEF IOCPFunc, Dequeue, DispatchFailed, Dispatch, DispatchWrong, RegisterToPool,
       timerThread, Exists
  <2>1. CASE \E c \in port : Dequeue(p, c)
    <3>1. PICK c \in port : Dequeue(p, c)
      BY <2>1
    <3>2. /\ ~Holds(p) /\ icp'[p] = c /\ c # Nothing /\ port' = port \ {c} /\ pool' = pool
          /\ \A q \in IocpThreads : q # p => icp'[q] = icp[q]
      BY <1>0, <3>1, TypeParts, CompletionFields DEF Dequeue, IocpOK, Holds, PortOK
    <3>3. \A x \in Exists : Somewhere(x) => Somewhere(x)'
      BY <2>0, <3>2 DEF Somewhere, Holds
    <3>4. QED
      BY <2>0, <3>3 DEF Lost
  <2>2. CASE RegisterToPool(p)
    <3>1. Holds(p) /\ icp[p].ov \in Overlaps
      BY <1>0, <2>2, CompletionFields DEF RegisterToPool, IocpOK, Holds
    <3>2. /\ pool'[icp[p].ov] = pool[icp[p].ov] + 1 /\ port' = port
          /\ \A x \in Overlaps : x # icp[p].ov => pool'[x] = pool[x]
          /\ \A q \in IocpThreads : q # p => icp'[q] = icp[q]
      BY <1>0, <2>2, <3>1 DEF RegisterToPool, PoolOK, IocpOK
    <3>3. pool'[icp[p].ov] # 0
      BY <1>0, <3>1, <3>2 DEF PoolOK
    <3>4. \A x \in Exists : Somewhere(x) => Somewhere(x)'
      BY <1>0, <2>0, <3>2, <3>3 DEF Somewhere, Holds
    <3>5. QED
      BY <2>0, <3>4 DEF Lost
  <2>3. CASE DispatchFailed(p) \/ Dispatch(p) \/ DispatchWrong(p)
    <3>1. UNCHANGED <<port, pool>>
      BY <2>3 DEF DispatchFailed, Dispatch, DispatchWrong
    <3>2. CASE UNCHANGED icp
      BY <2>0, <3>1, <3>2 DEF Lost, Somewhere, Holds
    <3>3. CASE /\ icp' = [icp EXCEPT ![p] = Nothing]
               /\ type[icp[p].ov] \in {"respawn", "rollback"}
      <4>1. \A q \in IocpThreads : q # p => icp'[q] = icp[q]
        BY <1>0, <3>3 DEF IocpOK
      <4>2. \A x \in Exists : x # icp[p].ov /\ Somewhere(x) => Somewhere(x)'
        BY <2>0, <3>1, <4>1 DEF Somewhere, Holds
      <4>3. QED
        BY <2>0, <3>3, <4>2 DEF Lost
    <3>4. QED
      BY <2>3, <3>2, <3>3, Dropped
  <2>4. QED
    BY <1>6, <2>1, <2>2, <2>3 DEF IOCPFunc
<1>7. QED
  BY <1>1, <1>2, <1>3, <1>4, <1>5, <1>6 DEF Next, Tick, RegisterEvent, TimerFunc, TimerRead,
     TimerPop, TimerEmpty, TimerCompare, TimerBack, TimerWake, timerThread, iocp, vars

LEMMA LostCounted ==
  ASSUME TypeOK, Made, Apart, Lost
  PROVE  LostOnlyBy
<1> SUFFICES ASSUME NEW v \in Exists, Somewhere(v)
             PROVE  Hands(v) # 0
  BY DEF LostOnlyBy, Lost
<1>0. v \in Overlaps /\ pool[v] \in Nat /\ v # Nothing
  BY TypeParts, ExistsAreOverlaps, NothingAssumption DEF PoolOK
<1>1. Held(v) = {} \/ \E p \in IocpThreads : Held(v) = {p}
  BY DEF Held, Apart, IocpApart, Holds
<1>2. Posted(v) = {} \/ \E c \in port : Posted(v) = {c}
  BY DEF Posted, Apart, PortApart
<1>3. SentBy(v) = {} \/ \E t \in Senders : SentBy(v) = {t}
  BY <1>0 DEF SentBy, Apart, SendersApart
<1>4. pool[v] # 0 \/ Held(v) # {} \/ Posted(v) # {} \/ SentBy(v) # {} \/ tov = v
  BY DEF Somewhere, Held, Posted, SentBy, Holds
<1>5. /\ Cardinality(Held(v)) = IF Held(v) = {} THEN 0 ELSE 1
      /\ Cardinality(Posted(v)) = IF Posted(v) = {} THEN 0 ELSE 1
      /\ Cardinality(SentBy(v)) = IF SentBy(v) = {} THEN 0 ELSE 1
  BY <1>1, <1>2, <1>3, FS_EmptySet, FS_Singleton
<1>6. QED
  BY <1>0, <1>4, <1>5 DEF Hands

\* An overlapped object gets lost only with a respawn, a rollback or a send.
THEOREM LossInvariant == Spec => []LostOnlyBy
<1>1. Init => TypeOK /\ Made /\ Apart /\ Told /\ Lost
  BY NothingAssumption, BoundAssumption, KindsAreTypes
     DEF Init, TypeOK, TimerPlaces, IocpPlaces, Overlaps, Exists, Made, Holds, Apart,
         PoolApart, PortApart, IocpApart, SendersApart, Told, Lost
<1>2. TypeOK /\ Made /\ Apart /\ Told /\ Lost /\ [Next]_vars
        => TypeOK' /\ Made' /\ Apart' /\ Told' /\ Lost'
  BY TypeStep, ApartStep, ToldStep, LostStep
<1>3. QED
  BY <1>1, <1>2, LostCounted, PTL DEF Spec

-----------------------------------------------------------------------------
(* An event is in one place and on time.                                   *)

LEMMA OnceTypes ==
  ASSUME TypeOK
  PROVE  /\ \A e \in timers \cup handled : e \in Event
         /\ tev # Nothing => tev \in Event
         /\ \A c \in port : c.event # Nothing => c.event \in Event
         /\ \A p \in IocpThreads : ipc[p] = "classify" => icp[p] \in Completion
         /\ \A p \in IocpThreads : Classifying(p) => icp[p].event \in Event
         /\ nextEvent \in Nat /\ Nothing \notin timers \cup handled
BY TypeParts, CompletionFields, EventFields, NothingAssumption
   DEF EventsOK, TimerOK, PortOK, IocpOK, Classifying, NumbersOK

LEMMA OnceRegister ==
  ASSUME TypeOK, Once, NEW k \in Kinds, NEW o \in Objects, NEW d \in Delays,
         RegisterEvent(k, o, d)
  PROVE  Once'
<1> DEFINE e0 == [id |-> nextEvent, kind |-> k, obj |-> o, wake |-> clock + d]
<1>1. e0 \in Event /\ e0.id = nextEvent
  BY TypeRegister
<1>2. timers' = timers \cup {e0} /\ nextEvent' = nextEvent + 1
  BY DEF RegisterEvent
<1>3. UNCHANGED <<handled, tev, port, ipc, icp>>
  BY DEF RegisterEvent, timerThread, iocp, history
<1> HIDE DEF e0
<1>4. \A e \in Event : e.id < nextEvent => e # e0 /\ e.id < nextEvent'
  BY <1>1, <1>2, OnceTypes, EventFields
<1>5. Old'
  BY <1>1, <1>2, <1>3, <1>4, OnceTypes DEF Once, Old, Classifying
<1>6. TimerOnce' /\ PortOnce'
  BY <1>1, <1>2, <1>3, <1>4, OnceTypes, EventFields DEF Once, Old, TimerOnce, PortOnce
<1>7. IocpOnce'
  BY <1>1, <1>2, <1>3, <1>4, OnceTypes DEF Once, Old, IocpOnce, Classifying
<1>8. QED
  BY <1>5, <1>6, <1>7 DEF Once

LEMMA OnceTimer ==
  ASSUME TypeOK, Once, TimerPop \/ TimerBack \/ TimerPost
  PROVE  Once'
<1>0. TimerOK /\ EventsOK
  BY TypeParts
<1>1. CASE TimerPop
  <2>1. PICK e \in timers : tev' = e /\ timers' = timers \ {e}
    BY <1>1 DEF TimerPop
  <2>2. UNCHANGED <<nextEvent, handled, port, ipc, icp>>
    BY <1>1 DEF TimerPop, iocp, history
  <2>3. Old' /\ TimerOnce'
    BY <2>1, <2>2 DEF Once, Old, TimerOnce, Classifying
  <2>4. PortOnce' /\ IocpOnce'
    BY <2>1, <2>2 DEF Once, PortOnce, IocpOnce, Classifying
  <2>5. QED
    BY <2>3, <2>4 DEF Once
<1>2. CASE TimerBack
  <2>1. tev # Nothing
    BY <1>0, <1>2 DEF TimerBack, TimerOK
  <2>2. /\ tev' = Nothing /\ timers' = timers \cup {tev}
        /\ UNCHANGED <<nextEvent, handled, port, ipc, icp>>
    BY <1>2 DEF TimerBack, iocp, history
  <2>3. Old' /\ TimerOnce'
    BY <2>1, <2>2, OnceTypes DEF Once, Old, TimerOnce, Classifying
  <2>4. PortOnce' /\ IocpOnce'
    BY <2>1, <2>2 DEF Once, PortOnce, IocpOnce, Classifying
  <2>5. QED
    BY <2>3, <2>4 DEF Once
<1>3. CASE TimerPost
  <2> DEFINE c0 == [ov |-> tov, ok |-> TRUE, event |-> tev]
  <2>1. tev # Nothing
    BY <1>0, <1>3 DEF TimerPost, TimerOK
  <2>2. port' = port \cup {c0}
    BY <1>3 DEF TimerPost
  <2>3. c0.event = tev
    OBVIOUS
  <2>4. tev' = Nothing /\ UNCHANGED <<nextEvent, timers, handled, ipc, icp>>
    BY <1>3 DEF TimerPost, iocp, history
  <2> HIDE DEF c0
  <2>5. Old' /\ TimerOnce'
    BY <2>1, <2>2, <2>3, <2>4, OnceTypes DEF Once, Old, TimerOnce, Classifying
  <2>6. PortOnce'
    BY <2>1, <2>2, <2>3, <2>4 DEF Once, TimerOnce, PortOnce
  <2>7. IocpOnce'
    BY <2>1, <2>2, <2>3, <2>4 DEF Once, IocpOnce, Classifying
  <2>8. QED
    BY <2>5, <2>6, <2>7 DEF Once
<1>4. QED
  BY <1>1, <1>2, <1>3

LEMMA OnceSendPost ==
  ASSUME TypeOK, Once, NEW t \in Senders, SendPost(t)
  PROVE  Once'
<1>1. /\ port \subseteq port' /\ \A c \in port' : c \in port \/ c.event = Nothing
      /\ UNCHANGED <<nextEvent, timers, handled, tev, ipc, icp>>
  BY DEF SendPost, timerThread, iocp, history
<1>2. Old' /\ TimerOnce' /\ PortOnce'
  BY <1>1 DEF Once, Old, TimerOnce, PortOnce, Classifying
<1>3. IocpOnce'
  BY <1>1 DEF Once, IocpOnce, Classifying
<1>4. QED
  BY <1>2, <1>3 DEF Once

LEMMA OnceIocp ==
  ASSUME TypeOK, Once, NEW p \in IocpThreads, IOCPFunc(p)
  PROVE  Once'
<1>0. /\ IocpOK /\ \A c \in port : c \in Completion
      /\ UNCHANGED <<nextEvent, timers, tev>>
      /\ \A q \in IocpThreads : q # p => icp'[q] = icp[q] /\ ipc'[q] = ipc[q]
  BY TypeParts
     DEF PortOK, IocpOK, IOCPFunc, Dequeue, DispatchFailed, Dispatch, DispatchWrong,
         RegisterToPool, timerThread
<1>1. CASE \E c \in port : Dequeue(p, c)
  <2>1. PICK c \in port : Dequeue(p, c)
    BY <1>1
  <2>2. /\ ~Classifying(p) /\ icp'[p] = c /\ port' = port \ {c} /\ handled' = handled
        /\ Classifying(p)' => c.event # Nothing
    BY <1>0, <2>1 DEF Dequeue, IocpOK, Classifying, history
  <2>3. \A q \in IocpThreads : q # p => (Classifying(q)' <=> Classifying(q))
    BY <1>0 DEF Classifying
  <2>4. Old' /\ TimerOnce' /\ PortOnce'
    BY <1>0, <2>2, <2>3 DEF Once, Old, TimerOnce, PortOnce
  <2>5. IocpOnce'
    BY <1>0, <2>2, <2>3 DEF Once, PortOnce, IocpOnce
  <2>6. QED
    BY <2>4, <2>5 DEF Once
<1>2. CASE DispatchFailed(p) \/ Dispatch(p) \/ DispatchWrong(p) \/ RegisterToPool(p)
  <2>1. ~Classifying(p)' /\ port' = port
    BY <1>0, <1>2 DEF DispatchFailed, Dispatch, DispatchWrong, RegisterToPool, Classifying, IocpOK
  <2>2. \A q \in IocpThreads : q # p => (Classifying(q)' <=> Classifying(q))
    BY <1>0 DEF Classifying
  <2>3. handled' = handled \/ (Classifying(p) /\ handled' = handled \cup {icp[p].event})
    BY <1>2 DEF DispatchFailed, Dispatch, DispatchWrong, RegisterToPool, Classifying, history
  <2>4. CASE handled' = handled
    <3>1. Old' /\ TimerOnce' /\ PortOnce'
      BY <1>0, <2>1, <2>2, <2>4 DEF Once, Old, TimerOnce, PortOnce
    <3>2. IocpOnce'
      BY <1>0, <2>1, <2>2, <2>4 DEF Once, IocpOnce
    <3>3. QED
      BY <3>1, <3>2 DEF Once
  <2>5. CASE Classifying(p) /\ handled' = handled \cup {icp[p].event}
    <3>1. Old' /\ TimerOnce' /\ PortOnce'
      BY <1>0, <2>1, <2>2, <2>5 DEF Once, Old, TimerOnce, PortOnce, IocpOnce
    <3>2. IocpOnce'
      BY <1>0, <2>1, <2>2, <2>5 DEF Once, IocpOnce
    <3>3. QED
      BY <3>1, <3>2 DEF Once
  <2>6. QED
    BY <2>3, <2>4, <2>5
<1>3. QED
  BY <1>1, <1>2 DEF IOCPFunc

LEMMA OnceStep ==
  ASSUME TypeOK, Once, [Next]_vars
  PROVE  Once'
<1>1. CASE UNCHANGED <<nextEvent, timers, handled, tev, port, ipc, icp>>
  BY <1>1 DEF Once, Old, TimerOnce, PortOnce, IocpOnce, Classifying
<1>2. QED
  BY <1>1, OnceRegister, OnceTimer, OnceSendPost, OnceIocp
     DEF Next, Tick, SendGet, TimerFunc, TimerRead, TimerEmpty, TimerCompare, TimerWake,
         TimerGet, timerThread, iocp, history, vars

LEMMA DueStep ==
  ASSUME TypeOK, Due, [Next]_vars
  PROVE  Due'
<1>0. /\ NumbersOK /\ TimerOK /\ IocpOK
      /\ \A c \in port : c.event # Nothing => c.event.wake \in Nat
      /\ \A p \in IocpThreads : Classifying(p) => icp[p].event.wake \in Nat
      /\ clock \in Nat /\ tnow \in Nat /\ tnow <= clock
  BY TypeParts, OnceTypes, EventFields, BoundAssumption DEF NumbersOK
<1>1. CASE UNCHANGED <<clock, tnow, tpc, tev, port, ipc, icp>>
  BY <1>1 DEF Due, Classifying
<1>2. CASE Tick
  <2>1. clock' = clock + 1 /\ UNCHANGED <<tnow, tpc, tev, port, ipc, icp>>
    BY <1>2 DEF Tick, timerThread, iocp
  <2>2. QED
    BY <1>0, <2>1 DEF Due, Classifying
<1>3. ASSUME NEW t \in Senders, SendPost(t)
      PROVE  Due'
  <2>1. /\ \A c \in port' : c \in port \/ c.event = Nothing
        /\ UNCHANGED <<clock, tnow, tpc, tev, ipc, icp>>
    BY <1>3 DEF SendPost, timerThread, iocp
  <2>2. QED
    BY <2>1 DEF Due, Classifying
<1>4. CASE TimerFunc
  <2>0. UNCHANGED <<clock, ipc, icp>>
    BY <1>4 DEF TimerFunc, TimerRead, TimerPop, TimerEmpty, TimerCompare, TimerBack, TimerWake,
       TimerGet, TimerPost, iocp
  <2>1. CASE TimerPost
    <3> DEFINE c0 == [ov |-> tov, ok |-> TRUE, event |-> tev]
    <3>1. port' = port \cup {c0} /\ tpc' = "read" /\ tpc = "post"
      BY <2>1 DEF TimerPost
    <3>2. c0.event = tev
      OBVIOUS
    <3> HIDE DEF c0
    <3>3. tev \in Event /\ tev.wake \in Nat
      BY <1>0, <3>1, EventFields, BoundAssumption DEF TimerOK
    <3>4. tev.wake <= clock
      BY <1>0, <3>1, <3>3 DEF Due
    <3>5. QED
      BY <2>0, <3>1, <3>2, <3>4 DEF Due, Classifying
  <2>2. CASE TimerCompare
    <3>1. tev \in Event /\ tev.wake \in Nat
      BY <1>0, <2>2, EventFields, BoundAssumption DEF TimerOK, TimerCompare
    <3>2. QED
      BY <1>0, <2>0, <2>2, <3>1 DEF TimerCompare, Due, Classifying
  <2>3. CASE TimerRead \/ TimerPop \/ TimerEmpty \/ TimerBack \/ TimerWake \/ TimerGet
    BY <2>0, <2>3 DEF TimerRead, TimerPop, TimerEmpty, TimerBack, TimerWake, TimerGet, Due, Classifying
  <2>4. QED
    BY <1>4, <2>1, <2>2, <2>3 DEF TimerFunc
<1>5. ASSUME NEW p \in IocpThreads, IOCPFunc(p)
      PROVE  Due'
  <2>1. \A q \in IocpThreads : q # p => icp'[q] = icp[q] /\ ipc'[q] = ipc[q]
    BY <1>0, <1>5 DEF IOCPFunc, Dequeue, DispatchFailed, Dispatch, DispatchWrong,
       RegisterToPool, IocpOK
  <2>2. port' \subseteq port /\ UNCHANGED <<clock, tnow, tpc, tev>>
    BY <1>5 DEF IOCPFunc, Dequeue, DispatchFailed, Dispatch, DispatchWrong, RegisterToPool,
       timerThread
  <2>3. ipc'[p] = "classify" => icp'[p] \in port
    BY <1>0, <1>5 DEF IOCPFunc, Dequeue, DispatchFailed, Dispatch, DispatchWrong,
       RegisterToPool, IocpOK
  <2>4. QED
    BY <2>1, <2>2, <2>3 DEF Due, Classifying
<1>6. QED
  BY <1>1, <1>2, <1>3, <1>4, <1>5 DEF Next, RegisterEvent, SendGet, timerThread, iocp, vars

-----------------------------------------------------------------------------
(* The refinement.                                                         *)

Waiting(e) ==
  \/ e \in timers \/ e = tev
  \/ \E c \in port : c.event = e
  \/ \E p \in IocpThreads : Classifying(p) /\ icp[p].event = e

LEMMA PendingWaits ==
  ASSUME TypeOK
  PROVE  \A e : e \in Pending <=> e \in Event /\ Waiting(e) /\ HasHandler(e.kind) /\ e \notin handled
BY OnceTypes, NothingAssumption DEF Pending, InHand, Waiting, Classifying

LEMMA PendingWaitsNext ==
  ASSUME TypeOK'
  PROVE  \A e : e \in Pending' <=> e \in Event /\ Waiting(e)' /\ HasHandler(e.kind) /\ e \notin handled'
<1>1. /\ \A e \in timers' \cup handled' : e \in Event
      /\ tev' # Nothing => tev' \in Event
      /\ \A c \in port' : c.event # Nothing => c.event \in Event
      /\ \A p \in IocpThreads : Classifying(p)' => icp'[p].event \in Event
  BY TypeParts, CompletionFields DEF EventsOK, TimerOK, PortOK, IocpOK, Classifying
<1>2. QED
  BY <1>1, NothingAssumption DEF Pending, InHand, Waiting, Classifying, HasHandler

\* A step that leaves what waits and what is handled maps to a stutter.
LEMMA SameCalls ==
  ASSUME TypeOK, TypeOK', UNCHANGED <<clock, handled>>,
         \A e \in Event : HasHandler(e.kind) => (Waiting(e)' <=> Waiting(e))
  PROVE  UNCHANGED Calls!vars
<1>1. Pending' = Pending
  BY PendingWaits, PendingWaitsNext
<1>2. QED
  BY <1>1 DEF Calls!vars

LEMMA RegisterMaps ==
  ASSUME TypeOK, TypeOK', Once, NEW k \in Kinds, NEW o \in Objects, NEW d \in Delays,
         RegisterEvent(k, o, d)
  PROVE  [Calls!Next]_Calls!vars
<1> DEFINE e0 == [id |-> nextEvent, kind |-> k, obj |-> o, wake |-> clock + d]
<1>1. e0 \in Event /\ e0.id = nextEvent
  BY TypeRegister
<1>2. /\ timers' = timers \cup {e0}
      /\ UNCHANGED <<clock, handled, tev, port, ipc, icp>>
  BY DEF RegisterEvent, timerThread, iocp, history
<1> HIDE DEF e0
<1>3. \A e \in Event : Waiting(e)' <=> Waiting(e) \/ e = e0
  BY <1>2 DEF Waiting, Classifying
<1>4. ~Waiting(e0) /\ e0 \notin handled
  BY <1>1, OnceTypes, EventFields DEF Once, Old, Waiting
<1>5. CASE HasHandler(e0.kind)
  <2>1. Pending' = Pending \cup {e0}
    BY <1>1, <1>2, <1>3, <1>4, <1>5, PendingWaits, PendingWaitsNext
  <2>2. e0 \notin Pending
    BY <1>4, PendingWaits
  <2>3. Calls!Register(e0)
    BY <1>2, <1>4, <2>1, <2>2 DEF Calls!Register
  <2>4. QED
    BY <1>1, <2>3 DEF Calls!Next
<1>6. CASE ~HasHandler(e0.kind)
  <2>1. UNCHANGED Calls!vars
    BY <1>2, <1>3, <1>6, SameCalls
  <2>2. QED
    BY <2>1
<1>7. QED
  BY <1>5, <1>6

LEMMA TimerMaps ==
  ASSUME TypeOK, TypeOK', TimerPop \/ TimerBack \/ TimerPost
  PROVE  UNCHANGED Calls!vars
<1>0. /\ UNCHANGED <<clock, handled, ipc, icp>>
      /\ Nothing \notin Event
  BY NothingAssumption DEF TimerPop, TimerBack, TimerPost, iocp, history
<1>1. CASE TimerPop
  <2>1. tev = Nothing
    BY <1>1, TypeParts DEF TimerPop, TimerOK
  <2>2. \A e \in Event : Waiting(e)' <=> Waiting(e)
    BY <1>0, <1>1, <2>1 DEF TimerPop, Waiting, Classifying
  <2>3. QED
    BY <1>0, <2>2, SameCalls
<1>2. CASE TimerBack
  <2>1. \A e \in Event : Waiting(e)' <=> Waiting(e)
    BY <1>0, <1>2 DEF TimerBack, Waiting, Classifying
  <2>2. QED
    BY <1>0, <2>1, SameCalls
<1>3. CASE TimerPost
  <2> DEFINE c0 == [ov |-> tov, ok |-> TRUE, event |-> tev]
  <2>1. port' = port \cup {c0} /\ tev' = Nothing /\ timers' = timers
    BY <1>3 DEF TimerPost
  <2>2. c0.event = tev
    OBVIOUS
  <2> HIDE DEF c0
  <2>3. \A e \in Event : Waiting(e)' <=> Waiting(e)
    BY <1>0, <2>1, <2>2 DEF Waiting, Classifying
  <2>4. QED
    BY <1>0, <2>3, SameCalls
<1>4. QED
  BY <1>1, <1>2, <1>3

LEMMA SendPostMaps ==
  ASSUME TypeOK, TypeOK', NEW t \in Senders, SendPost(t)
  PROVE  UNCHANGED Calls!vars
<1>1. /\ port \subseteq port' /\ \A c \in port' : c \in port \/ c.event = Nothing
      /\ UNCHANGED <<clock, timers, handled, tev, ipc, icp>>
  BY DEF SendPost, timerThread, iocp, history
<1>2. \A e \in Event : Waiting(e)' <=> Waiting(e)
  BY <1>1, NothingAssumption DEF Waiting, Classifying
<1>3. QED
  BY <1>1, <1>2, SameCalls

LEMMA IocpMaps ==
  ASSUME TypeOK, TypeOK', Told, Once, Due, NEW p \in IocpThreads, IOCPFunc(p)
  PROVE  [Calls!Next]_Calls!vars
<1>0. /\ IocpOK /\ Nothing \notin Event
      /\ \A q \in IocpThreads : q # p => (Classifying(q)' <=> Classifying(q)) /\ icp'[q] = icp[q]
      /\ UNCHANGED <<clock, timers, tev>>
  BY TypeParts, NothingAssumption
     DEF IocpOK, IOCPFunc, Dequeue, DispatchFailed, Dispatch, DispatchWrong, RegisterToPool,
         timerThread, Classifying
<1>1. CASE \E c \in port : Dequeue(p, c)
  <2>1. PICK c \in port : Dequeue(p, c)
    BY <1>1
  <2>2. /\ ~Classifying(p) /\ port' = port \ {c} /\ handled' = handled
        /\ icp'[p] = c /\ ipc'[p] = "classify"
    BY <1>0, <2>1 DEF Dequeue, IocpOK, Classifying, history
  <2>3. Classifying(p)' <=> c.event # Nothing
    BY <2>2 DEF Classifying
  <2>4. \A e \in Event : Waiting(e)' <=> Waiting(e)
    BY <1>0, <2>2, <2>3 DEF Waiting
  <2>5. QED
    BY <1>0, <2>2, <2>4, SameCalls
<1>2. CASE DispatchFailed(p) \/ Dispatch(p) \/ DispatchWrong(p) \/ RegisterToPool(p)
  <2>1. ~Classifying(p)' /\ port' = port
    BY <1>0, <1>2 DEF DispatchFailed, Dispatch, DispatchWrong, RegisterToPool, Classifying, IocpOK
  <2>2. \A e : ~(Classifying(p) /\ icp[p].event = e) => (Waiting(e)' <=> Waiting(e))
    BY <1>0, <2>1 DEF Waiting
  <2>3. CASE Classifying(p) /\ HasHandler(icp[p].event.kind)
    <3> DEFINE e1 == icp[p].event
    <3>1. e1 \in Event /\ Waiting(e1) /\ e1 \notin handled /\ e1.wake <= clock
      BY <2>3, OnceTypes DEF Once, IocpOnce, Due, Waiting
    <3>2. icp[p].ok /\ type[icp[p].ov] = e1.kind
      BY <2>3 DEF Told, Says, Classifying
    <3>3. handled' = handled \cup {e1}
      BY <1>2, <2>3, <3>2 DEF DispatchFailed, Dispatch, DispatchWrong, RegisterToPool, Classifying
    <3> HIDE DEF e1
    <3>4. \A e : e # e1 => (Waiting(e)' <=> Waiting(e))
      BY <2>2 DEF e1
    <3>5. Pending' = Pending \ {e1}
      BY <3>3, <3>4, PendingWaits, PendingWaitsNext
    <3>6. e1 \in Pending
      BY <2>3, <3>1, PendingWaits DEF e1
    <3>7. clock \in Nat /\ e1.wake \in Nat
      BY <3>1, TypeParts, EventFields, BoundAssumption DEF NumbersOK
    <3>8. Calls!Handle(e1)
      BY <1>0, <3>1, <3>3, <3>5, <3>6, <3>7 DEF Calls!Handle
    <3>9. QED
      BY <3>1, <3>8 DEF Calls!Next
  <2>4. CASE ~(Classifying(p) /\ HasHandler(icp[p].event.kind))
    <3>1. handled' = handled
      BY <1>2, <2>4 DEF DispatchFailed, Dispatch, DispatchWrong, RegisterToPool, Classifying, history
    <3>2. \A e \in Event : HasHandler(e.kind) => (Waiting(e)' <=> Waiting(e))
      BY <2>2, <2>4
    <3>3. UNCHANGED Calls!vars
      BY <1>0, <3>1, <3>2, SameCalls
    <3>4. QED
      BY <3>3
  <2>5. QED
    BY <2>3, <2>4
<1>3. QED
  BY <1>1, <1>2 DEF IOCPFunc

LEMMA NextMaps ==
  ASSUME TypeOK, TypeOK', Told, Once, Due, [Next]_vars
  PROVE  [Calls!Next]_Calls!vars
<1>1. CASE UNCHANGED <<clock, timers, handled, tev, port, ipc, icp>>
  <2>1. \A e \in Event : Waiting(e)' <=> Waiting(e)
    BY <1>1 DEF Waiting, Classifying
  <2>2. QED
    BY <1>1, <2>1, SameCalls
<1>2. CASE Tick
  <2>1. clock' = clock + 1 /\ UNCHANGED <<timers, handled, tev, port, ipc, icp>>
    BY <1>2 DEF Tick, timerThread, iocp, history
  <2>2. \A e \in Event : Waiting(e)' <=> Waiting(e)
    BY <2>1 DEF Waiting, Classifying
  <2>3. Pending' = Pending
    BY <2>1, <2>2, PendingWaits, PendingWaitsNext
  <2>4. QED
    BY <2>1, <2>3 DEF Calls!Next, Calls!Tick
<1>3. QED
  BY <1>1, <1>2, RegisterMaps, TimerMaps, SendPostMaps, IocpMaps
     DEF Next, SendGet, TimerFunc, TimerRead, TimerEmpty, TimerCompare, TimerWake,
         TimerGet, timerThread, iocp, history, vars

\* Timer, port and IOCP threads implement delayed calls: an event that has a handler
\* is handled at most once, as what it was registered for, and not before its time.
THEOREM Implementation == Spec => ImplementsCalls
<1> DEFINE Inv == TypeOK /\ Made /\ Apart /\ Told /\ Once /\ Due
<1>1. Init => Inv /\ Calls!Init
  <2>1. Init => TypeOK /\ Made /\ Apart /\ Told
    BY NothingAssumption, BoundAssumption, KindsAreTypes
       DEF Init, TypeOK, TimerPlaces, IocpPlaces, Overlaps, Exists, Made, Holds, Apart,
           PoolApart, PortApart, IocpApart, SendersApart, Told
  <2>2. Init => Once /\ Due
    BY DEF Init, Once, Old, TimerOnce, PortOnce, IocpOnce, Classifying, Due
  <2>3. Init => Calls!Init
    BY DEF Init, Calls!Init, Pending, InHand
  <2>4. QED
    BY <2>1, <2>2, <2>3
<1>2. Inv /\ [Next]_vars => Inv'
  BY TypeStep, ApartStep, ToldStep, OnceStep, DueStep
<1>3. Inv /\ Inv' /\ [Next]_vars => [Calls!Next]_Calls!vars
  BY NextMaps
<1>4. QED
  BY <1>1, <1>2, <1>3, PTL DEF Spec, ImplementsCalls, Calls!Spec
=============================================================================
