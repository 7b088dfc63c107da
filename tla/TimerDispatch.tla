--------------------------- MODULE TimerDispatch ----------------------------
(***************************************************************************)
(* The timer thread (CNetworkMgr::TimerFunc), the completion port and the  *)
(* IOCP threads that drain it (CNetworkMgr::IOCPFunc with its table of     *)
(* handlers), and the pool of overlapped objects (OverlapPool) through     *)
(* which both the timer and every send get the object they post with.      *)
(*                                                                         *)
(* An overlapped object (COverlapEx) carries the type of its operation in  *)
(* m_comp_type, a plain field: whoever holds the object may write it, and  *)
(* an IOCP thread believes it.  Objects are numbered by address, as the    *)
(* pool orders them.  A step is one access to shared state.                *)
(***************************************************************************)
EXTENDS Integers, FiniteSets

CONSTANTS
  Objects,      \* the players and NPCs that events are for
  Kinds,        \* the kinds of event in this instance
  Delays,       \* how far ahead events are registered
  Senders,      \* threads that send packets (workers and IOCP threads)
  IocpThreads,  \* threads that run IOCPFunc
  MaxOverlaps,  \* bound of the model: overlapped objects ever allocated
  MaxEvents,    \* bound of the model: events ever registered
  MaxSends,     \* bound of the model: packets ever sent
  MaxTime,      \* bound of the model: the clock stops there
  Nothing       \* no event, overlapped object or completion in hand

\* move: EV_RANDOM_MOVE, EV_CHASE_PLAYER and EV_ATTACK_PLAYER, which the timer
\* treats alike; rollback: EV_POWERUP_ROLLBACK.
AllKinds == {"move", "heal", "respawn", "rollback"}

ASSUME KindAssumption == Kinds \subseteq AllKinds
ASSUME DelayAssumption == Delays \subseteq Nat
ASSUME BoundAssumption ==
  /\ MaxOverlaps \in Nat
  /\ MaxEvents \in Nat
  /\ MaxSends \in Nat
  /\ MaxTime \in Nat

Overlaps == 1..MaxOverlaps

\* TIMER_EVENT; the identity is only for the properties.
Event == [id : 1..MaxEvents, kind : Kinds, obj : Objects, wake : 0..MaxTime]

\* m_comp_type: OP_RECV from the constructor, then what it was last used for.
Types == {"recv", "send"} \cup AllKinds

\* An entry of the completion port: what GetQueuedCompletionStatus returns, and
\* the event it was posted for (history).
Completion ==
  [ov : Overlaps, ok : BOOLEAN, event : Event \cup {Nothing}]

ASSUME NothingAssumption ==
  /\ Nothing \notin Event
  /\ Nothing \notin Overlaps
  /\ Nothing \notin Completion

VARIABLES
  clock,      \* chrono::system_clock, in seconds
  nextEvent,  \* identity of the next event
  sent,       \* packets sent so far
  timers,     \* CNetworkMgr::m_timerQueue
  tpc,        \* where the timer thread is
  tnow,       \* its current_time
  tev,        \* the event it popped
  tov,        \* the overlapped object it got
  until,      \* the end of its sleep
  allocated,  \* how many overlapped objects exist
  type,       \* m_comp_type of each
  pool,       \* OverlapPool::m_overlapPool: how many times an object is in it
  sov,        \* the overlapped object a sender holds
  port,       \* the completion port
  ipc,        \* where an IOCP thread is
  icp,        \* the completion it took
  handled,    \* history: the events whose handler was called
  wrong       \* history: completions that ended in "Wrong IOCP Operation"

timerThread == <<tpc, tnow, tev, tov, until>>
iocp == <<ipc, icp>>
history == <<handled, wrong>>
vars == <<clock, nextEvent, sent, timers, timerThread, allocated, type, pool, sov,
          port, iocp, history>>

TimerPlaces == {"read", "pop", "compare", "back", "get", "post", "sleep"}
IocpPlaces == {"wait", "classify", "return"}

Exists == 1..allocated

\* Every variable has its type; a thread holds an event, an object or a
\* completion exactly where the code has one in a local variable.
TypeOK ==
  /\ clock \in 0..MaxTime
  /\ nextEvent \in 1..(MaxEvents + 1)
  /\ sent \in 0..MaxSends
  /\ timers \subseteq Event
  /\ tpc \in TimerPlaces
  /\ tnow \in 0..clock
  /\ tev \in Event \cup {Nothing}
  /\ tev # Nothing <=> tpc \in {"compare", "back", "get", "post"}
  /\ tov \in Exists \cup {Nothing}
  /\ tov # Nothing <=> tpc = "post"
  /\ until \in 0..(MaxTime + 1)
  /\ allocated \in 0..MaxOverlaps
  /\ type \in [Overlaps -> Types]
  /\ pool \in [Overlaps -> Nat]
  /\ sov \in [Senders -> Exists \cup {Nothing}]
  /\ port \subseteq Completion
  /\ ipc \in [IocpThreads -> IocpPlaces]
  /\ icp \in [IocpThreads -> Completion \cup {Nothing}]
  /\ \A p \in IocpThreads : icp[p] # Nothing <=> ipc[p] # "wait"
  /\ handled \subseteq Event
  /\ wrong \subseteq Completion

Init ==
  /\ clock = 0
  /\ nextEvent = 1
  /\ sent = 0
  /\ timers = {}
  /\ tpc = "read"
  /\ tnow = 0
  /\ tev = Nothing
  /\ tov = Nothing
  /\ until = 0
  /\ allocated = 0
  /\ type = [v \in Overlaps |-> "recv"]
  /\ pool = [v \in Overlaps |-> 0]
  /\ sov = [t \in Senders |-> Nothing]
  /\ port = {}
  /\ ipc = [p \in IocpThreads |-> "wait"]
  /\ icp = [p \in IocpThreads |-> Nothing]
  /\ handled = {}
  /\ wrong = {}

-----------------------------------------------------------------------------
(* Faults: one plausible mistake each; used by the mutation runs only.     *)

\* GetOverlapFromPool looks at the top of the pool and leaves it there.
GetOverlapPeeks(v) ==
  IF \A x \in Overlaps : pool[x] = 0
    THEN /\ allocated < MaxOverlaps
         /\ v = allocated + 1
         /\ allocated' = v
         /\ UNCHANGED pool
    ELSE /\ pool[v] > 0 /\ \A x \in Overlaps : pool[x] > 0 => x <= v
         /\ UNCHANGED <<pool, allocated>>

\* The loop of the timer thread ends when its queue is empty.
TimerEmptyEnds ==
  /\ tpc = "pop"
  /\ timers = {}
  /\ tpc' = "ended"
  /\ UNCHANGED <<clock, nextEvent, sent, timers, tnow, tev, tov, until, allocated,
                 type, pool, sov, port, iocp, history>>

\* The comparison grants one second of grace.
TimerCompareLoosely ==
  /\ tpc = "compare"
  /\ tpc' = IF tev.wake > tnow + 1 THEN "back" ELSE "get"
  /\ UNCHANGED <<clock, nextEvent, sent, timers, tnow, tev, tov, until, allocated,
                 type, pool, sov, port, iocp, history>>

\* Only sends return their overlapped object.
ReturnsOnlySends(y) == y = "send"

-----------------------------------------------------------------------------
(* The pool.                                                               *)

\* OverlapPool::GetOverlapFromPool: the greatest address in the pool, or a
\* new object when it is empty.
GetOverlap(v) ==
  IF \A x \in Overlaps : pool[x] = 0
    THEN /\ allocated < MaxOverlaps
         /\ v = allocated + 1
         /\ allocated' = v
         /\ UNCHANGED pool
    ELSE /\ pool[v] > 0 /\ \A x \in Overlaps : pool[x] > 0 => x <= v
         /\ pool' = [pool EXCEPT ![v] = @ - 1]
         /\ UNCHANGED allocated

\* The operations whose handlers call RegisterToPool: NpcMove, PlayerHeal and
\* Send.  MonsterRespawn does not, and PowerUpRollBack is not in the table.
Returns(y) == y \in {"move", "heal", "send"}

\* The keys that Initialize puts into m_iocpfunc.
HasHandler(y) == y \in {"recv", "send", "move", "heal", "respawn"}

-----------------------------------------------------------------------------
(* Those who use it.                                                       *)

Tick ==
  /\ clock < MaxTime
  /\ clock' = clock + 1
  /\ UNCHANGED <<nextEvent, sent, timers, timerThread, allocated, type, pool, sov,
                 port, iocp, history>>

\* CNetworkMgr::RegisterEvent, from any thread.
RegisterEvent(k, o, d) ==
  /\ nextEvent <= MaxEvents
  /\ clock + d <= MaxTime
  /\ timers' = timers \cup {[id |-> nextEvent, kind |-> k, obj |-> o,
                             wake |-> clock + d]}
  /\ nextEvent' = nextEvent + 1
  /\ UNCHANGED <<clock, sent, timerThread, allocated, type, pool, sov, port, iocp,
                 history>>

\* CSession::SendPacket: an object from the pool ...
SendGet(t) ==
  /\ sov[t] = Nothing
  /\ sent < MaxSends
  /\ sent' = sent + 1
  /\ \E v \in Overlaps : GetOverlap(v) /\ sov' = [sov EXCEPT ![t] = v]
  /\ UNCHANGED <<clock, nextEvent, timers, timerThread, type, port, iocp, history>>

\* ... initialised and handed to WSASend, whose result is ignored: it completes,
\* well or not, or it is refused (the socket is closed) and never does.
SendPost(t) ==
  /\ sov[t] # Nothing
  /\ type' = [type EXCEPT ![sov[t]] = "send"]
  /\ sov' = [sov EXCEPT ![t] = Nothing]
  /\ \/ \E ok \in BOOLEAN :
          port' = port \cup {[ov |-> sov[t], ok |-> ok, event |-> Nothing]}
     \/ UNCHANGED port
  /\ UNCHANGED <<clock, nextEvent, sent, timers, timerThread, allocated, pool, iocp,
                 history>>

-----------------------------------------------------------------------------
(* The timer thread.                                                       *)

\* current_time is read before the queue is looked at.
TimerRead ==
  /\ tpc = "read"
  /\ tnow' = clock
  /\ tpc' = "pop"
  /\ UNCHANGED <<clock, nextEvent, sent, timers, tev, tov, until, allocated, type,
                 pool, sov, port, iocp, history>>

\* try_pop: an event with the least wakeup_time.
TimerPop ==
  /\ tpc = "pop"
  /\ \E e \in timers :
       /\ \A f \in timers : e.wake <= f.wake
       /\ tev' = e
       /\ timers' = timers \ {e}
  /\ tpc' = "compare"
  /\ UNCHANGED <<clock, nextEvent, sent, tnow, tov, until, allocated, type, pool,
                 sov, port, iocp, history>>

\* Nothing to do: sleep for a second.
TimerEmpty ==
  /\ tpc = "pop"
  /\ timers = {}
  /\ until' = clock + 1
  /\ tpc' = "sleep"
  /\ UNCHANGED <<clock, nextEvent, sent, timers, tnow, tev, tov, allocated, type,
                 pool, sov, port, iocp, history>>

TimerCompare ==
  /\ tpc = "compare"
  /\ tpc' = IF tev.wake > tnow THEN "back" ELSE "get"
  /\ UNCHANGED <<clock, nextEvent, sent, timers, tnow, tev, tov, until, allocated,
                 type, pool, sov, port, iocp, history>>

\* Not due: it is pushed again, and the thread sleeps for a second.
TimerBack ==
  /\ tpc = "back"
  /\ timers' = timers \cup {tev}
  /\ tev' = Nothing
  /\ until' = clock + 1
  /\ tpc' = "sleep"
  /\ UNCHANGED <<clock, nextEvent, sent, tnow, tov, allocated, type, pool, sov,
                 port, iocp, history>>

\* The sleep is over (at the bound of the model, at once).
TimerWake ==
  /\ tpc = "sleep"
  /\ clock >= until \/ clock = MaxTime
  /\ tpc' = "read"
  /\ UNCHANGED <<clock, nextEvent, sent, timers, tnow, tev, tov, until, allocated,
                 type, pool, sov, port, iocp, history>>

TimerGet ==
  /\ tpc = "get"
  /\ \E v \in Overlaps : GetOverlap(v) /\ tov' = v
  /\ tpc' = "post"
  /\ UNCHANGED <<clock, nextEvent, sent, timers, tnow, tev, until, type, sov, port,
                 iocp, history>>

\* The switch of TimerFunc: the type is written and the object posted.
TimerPost ==
  /\ tpc = "post"
  /\ type' = [type EXCEPT ![tov] = tev.kind]
  /\ port' = port \cup {[ov |-> tov, ok |-> TRUE, event |-> tev]}
  /\ tev' = Nothing
  /\ tov' = Nothing
  /\ tpc' = "read"
  /\ UNCHANGED <<clock, nextEvent, sent, timers, tnow, until, allocated, pool, sov,
                 iocp, history>>

-----------------------------------------------------------------------------
(* The IOCP threads.                                                       *)

\* GetQueuedCompletionStatus.
Dequeue(p, c) ==
  /\ ipc[p] = "wait"
  /\ c \in port
  /\ port' = port \ {c}
  /\ icp' = [icp EXCEPT ![p] = c]
  /\ ipc' = [ipc EXCEPT ![p] = "classify"]
  /\ UNCHANGED <<clock, nextEvent, sent, timers, timerThread, allocated, type, pool,
                 sov, history>>

\* A failed operation: Disconnect (a job, see SessionJobs), and only the object of
\* a send goes back.
DispatchFailed(p) ==
  /\ ipc[p] = "classify"
  /\ ~icp[p].ok
  /\ IF type[icp[p].ov] = "send"
       THEN ipc' = [ipc EXCEPT ![p] = "return"] /\ UNCHANGED icp
       ELSE /\ ipc' = [ipc EXCEPT ![p] = "wait"]
            /\ icp' = [icp EXCEPT ![p] = Nothing]
  /\ UNCHANGED <<clock, nextEvent, sent, timers, timerThread, allocated, type, pool,
                 sov, port, history>>

\* The handler of the operation is found and called: an event is handled if the
\* handler is the one it was registered for.
Dispatch(p) ==
  LET c == icp[p]
      y == type[c.ov]
  IN
  /\ ipc[p] = "classify"
  /\ c.ok
  /\ HasHandler(y)
  /\ handled' = IF c.event # Nothing /\ c.event.kind = y
                  THEN handled \cup {c.event} ELSE handled
  /\ IF Returns(y)
       THEN ipc' = [ipc EXCEPT ![p] = "return"] /\ UNCHANGED icp
       ELSE /\ ipc' = [ipc EXCEPT ![p] = "wait"]
            /\ icp' = [icp EXCEPT ![p] = Nothing]
  /\ UNCHANGED <<clock, nextEvent, sent, timers, timerThread, allocated, type, pool,
                 sov, port, wrong>>

\* m_iocpfunc has no such key.
DispatchWrong(p) ==
  /\ ipc[p] = "classify"
  /\ icp[p].ok
  /\ ~HasHandler(type[icp[p].ov])
  /\ wrong' = wrong \cup {icp[p]}
  /\ ipc' = [ipc EXCEPT ![p] = "wait"]
  /\ icp' = [icp EXCEPT ![p] = Nothing]
  /\ UNCHANGED <<clock, nextEvent, sent, timers, timerThread, allocated, type, pool,
                 sov, port, handled>>

\* OverlapPool::RegisterToPool.
RegisterToPool(p) ==
  /\ ipc[p] = "return"
  /\ pool' = [pool EXCEPT ![icp[p].ov] = @ + 1]
  /\ ipc' = [ipc EXCEPT ![p] = "wait"]
  /\ icp' = [icp EXCEPT ![p] = Nothing]
  /\ UNCHANGED <<clock, nextEvent, sent, timers, timerThread, allocated, type, sov,
                 port, history>>

-----------------------------------------------------------------------------
TimerFunc ==
  \/ TimerRead
  \/ TimerPop
  \/ TimerEmpty
  \/ TimerCompare
  \/ TimerBack
  \/ TimerWake
  \/ TimerGet
  \/ TimerPost

IOCPFunc(p) ==
  \/ \E c \in port : Dequeue(p, c)
  \/ DispatchFailed(p)
  \/ Dispatch(p)
  \/ DispatchWrong(p)
  \/ RegisterToPool(p)

Next ==
  \/ Tick
  \/ \E k \in Kinds, o \in Objects, d \in Delays : RegisterEvent(k, o, d)
  \/ \E t \in Senders : SendGet(t) \/ SendPost(t)
  \/ TimerFunc
  \/ \E p \in IocpThreads : IOCPFunc(p)

Spec == Init /\ [][Next]_vars

\* Time passes and every thread runs.  A completion that every IOCP thread could
\* take is taken: the port is served in order.
Fairness ==
  /\ WF_vars(Tick)
  /\ WF_vars(TimerFunc)
  /\ \A t \in Senders : WF_vars(SendPost(t))
  /\ \A p \in IocpThreads : WF_vars(IOCPFunc(p))

FairSpec == Spec /\ Fairness

-----------------------------------------------------------------------------
(* Properties.                                                             *)

Held(v) == {p \in IocpThreads : icp[p] # Nothing /\ icp[p].ov = v}
Posted(v) == {c \in port : c.ov = v}
SentBy(v) == {t \in Senders : sov[t] = v}

\* How many hands an overlapped object is in.
Hands(v) ==
  pool[v] + Cardinality(Held(v)) + Cardinality(Posted(v)) + Cardinality(SentBy(v))
    + (IF tov = v THEN 1 ELSE 0)

\* An overlapped object is in one place at a time: nobody writes the packet or the
\* type of an object that another operation still uses.
OneOwner == \A v \in Overlaps : Hands(v) <= 1

\* An object that is in no place any more was lost by a respawn, a power-up
\* rollback or a refused send: moves and heals give theirs back.
LostOnlyBy ==
  \A v \in Exists :
    Hands(v) = 0 => type[v] \in {"respawn", "rollback", "send"}

InHand ==
  (IF tev = Nothing THEN {} ELSE {tev})
    \cup {c.event : c \in port \cup {icp[p] : p \in {q \in IocpThreads : ipc[q] = "classify"}}}

\* Registered and not handled yet, of the kinds that have a handler.
Pending ==
  {e \in timers \cup (InHand \ {Nothing}) : HasHandler(e.kind)} \ handled

Calls == INSTANCE DelayedCalls WITH pending <- Pending

\* The timer, the port and the IOCP threads implement delayed calls for the events
\* that have a handler: each is handled once, as what it was registered for, and
\* never before its time.
ImplementsCalls == Calls!Spec

\* Every event that has been registered and has a handler is handled.
EveryEventHandled ==
  \A i \in 1..MaxEvents :
    (\E e \in timers : e.id = i /\ HasHandler(e.kind))
      ~> (\E e \in handled : e.id = i)

\* No completion ends in "Wrong IOCP Operation".
NoWrongOperation == wrong = {}
=============================================================================
