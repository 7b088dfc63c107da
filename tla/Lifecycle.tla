----------------------------- MODULE Lifecycle ------------------------------
(***************************************************************************)
(* A connection from accept to logout: the chain of AcceptEx calls and the *)
(* sockets it takes from the pool (CNetworkMgr::Accept), the jobs of the   *)
(* session (PlayerAccept, LoginPacket with CheckLoginFail, Logout) and the *)
(* ways in which the server learns that a connection has ended: a receive  *)
(* or a send that fails, each of which posts one more Logout.              *)
(*                                                                         *)
(* Every socket belongs to one player object from the start (m_idMap):     *)
(* both are the same number, a slot.  The jobs of a slot run one at a      *)
(* time, oldest first (SessionJobs), which here is the order in which they *)
(* are pushed; the end of a visit may leave the newest behind.             *)
(* Completions reach the IOCP threads in any order.  A client connects     *)
(* once, sends CS_LOGIN once and leaves when it likes, or when it is told  *)
(* LOGIN_FAIL.                                                             *)
(***************************************************************************)
EXTENDS Integers, Sequences, FiniteSets

CONSTANTS
  Clients,      \* the programs that connect
  Names,        \* names of players
  Choices,      \* who may ask for which name
  MaxUser,      \* MAX_USER: sockets, and player objects
  IocpThreads,  \* threads that run IOCPFunc
  MaxFails,     \* bound of the model: accepts that fail
  MaxSends,     \* bound of the model: packets sent to players in game
  NoName        \* the name of a player who never logged in

Slots == 1..MaxUser
None == 0       \* no slot: -1 in m_clientSock

ASSUME UserAssumption == MaxUser \in Nat \ {0}
ASSUME NameAssumption == NoName \notin Names /\ Choices \subseteq [Clients -> Names]
ASSUME BoundAssumption == MaxFails \in Nat /\ MaxSends \in Nat

VARIABLES
  pool,       \* CNetworkMgr::m_socketpool
  clientSock, \* CNetworkMgr::m_clientSock
  listening,  \* the socket of the AcceptEx outstanding
  accepted,   \* completions of AcceptEx in the port
  fails,      \* accepts that failed so far
  ipc,        \* where an IOCP thread is
  on,         \* the slot whose receive it handles
  conn,       \* the connection of a client
  slot,       \* the socket it was accepted with
  name,       \* the name its player will ask for
  login,      \* its CS_LOGIN: not sent, on its way, received
  state,      \* CClient::m_State
  nameOf,     \* CObject::m_name
  disc,       \* slots with m_isDisconnected, whose socket is closed
  armed,      \* slots with a receive outstanding
  refused,    \* history: slots whose WSARecv was refused
  sending,    \* sends outstanding
  sends,      \* packets sent so far to players in game
  notices,    \* failed completions in the port
  jobs,       \* the jobs of a slot
  session,    \* m_isEnqueued of a slot: not marked; in the session queue or visited;
              \* or still marked, while its visit has found no more jobs
  scan,       \* the player that CheckLoginFail looks at next (0: no login runs)
  tail,       \* slots in the visit in which they were logged out
  beside      \* history: pairs of slots whose logins overlapped

acceptor == <<pool, clientSock, listening, accepted, fails>>
iocp == <<ipc, on>>
clients == <<conn, slot, name, login>>
players == <<state, nameOf, disc, scan, tail, beside>>
traffic == <<armed, refused, sending, sends, notices>>
vars == <<acceptor, iocp, clients, players, traffic, jobs, session>>

AcceptPlaces == {"post", "next", "accept"}
RecvPlaces == {"push", "receive"}

\* Every variable has its type; a thread has a slot while it handles a receive.
TypeOK ==
  /\ pool \in Seq(Slots)
  /\ clientSock \in Slots \cup {None}
  /\ listening \in Slots \cup {None}
  /\ accepted \in Nat
  /\ fails \in 0..MaxFails
  /\ ipc \in [IocpThreads -> {"wait"} \cup AcceptPlaces \cup RecvPlaces]
  /\ on \in [IocpThreads -> Slots \cup {None}]
  /\ \A t \in IocpThreads : on[t] # None <=> ipc[t] \in RecvPlaces
  /\ conn \in [Clients -> {"off", "waiting", "up", "gone"}]
  /\ slot \in [Clients -> Slots \cup {None}]
  /\ name \in [Clients -> Names]
  /\ login \in [Clients -> {"unsent", "sent", "received"}]
  /\ state \in [Slots -> {"free", "alloc", "ingame"}]
  /\ nameOf \in [Slots -> Names \cup {NoName}]
  /\ disc \subseteq Slots
  /\ armed \subseteq Slots
  /\ refused \subseteq Slots
  /\ sending \in [Slots -> Nat]
  /\ sends \in 0..MaxSends
  /\ notices \in [Slots -> Nat]
  /\ jobs \in [Slots -> Seq({"accept", "login", "logout"})]
  /\ session \in [Slots -> {"unmarked", "marked", "ending"}]
  /\ scan \in [Slots -> 0..(MaxUser + 1)]
  /\ tail \subseteq disc
  /\ beside \subseteq Slots \X Slots

Init ==
  /\ pool = [i \in 1..(MaxUser - 1) |-> i + 1]
  /\ clientSock = 1
  /\ listening = 1
  /\ accepted = 0
  /\ fails = 0
  /\ ipc = [t \in IocpThreads |-> "wait"]
  /\ on = [t \in IocpThreads |-> None]
  /\ conn = [c \in Clients |-> "off"]
  /\ slot = [c \in Clients |-> None]
  /\ name \in Choices
  /\ login = [c \in Clients |-> "unsent"]
  /\ state = [s \in Slots |-> "free"]
  /\ nameOf = [s \in Slots |-> NoName]
  /\ disc = {}
  /\ armed = {}
  /\ refused = {}
  /\ sending = [s \in Slots |-> 0]
  /\ sends = 0
  /\ notices = [s \in Slots |-> 0]
  /\ jobs = [s \in Slots |-> <<>>]
  /\ session = [s \in Slots |-> "unmarked"]
  /\ scan = [s \in Slots |-> 0]
  /\ tail = {}
  /\ beside = {}

-----------------------------------------------------------------------------
(* What several actions have in common.                                    *)

On(t, place) == ipc[t] = place
Jump(t, place) == ipc' = [ipc EXCEPT ![t] = place]

\* The clients on a socket: at most one, see OneConnection.
Who(s) == {c \in Clients : slot[c] = s}
Up(s) == s \notin disc /\ \E c \in Who(s) : conn[c] = "up"
Left(s) == s \notin disc /\ \E c \in Who(s) : conn[c] = "gone"

PushJob(s, job) == jobs' = [jobs EXCEPT ![s] = Append(@, job)]

\* AddSessionQueue: a session that is marked is not put into the queue again, though
\* its visit may be ending.
AddSessionQueue(s) ==
  session' = [session EXCEPT ![s] = IF @ = "unmarked" THEN "marked" ELSE @]

Post(s, job) == PushJob(s, job) /\ AddSessionQueue(s)

\* WSARecv in CSession::RecvPacket, whose result is ignored.  On a connection that
\* has ended it may be refused, or be posted and complete with nothing (NoticeEnd);
\* on a socket without a connection it is refused.
RecvPacket(s) ==
  \/ /\ Up(s) \/ Left(s)
     /\ armed' = armed \cup {s}
     /\ UNCHANGED refused
  \/ /\ ~Up(s)
     /\ refused' = refused \cup {s}
     /\ UNCHANGED armed

\* WSASend in CSession::SendPacket, whose result is ignored too.
SendPacket(s) ==
  \/ /\ Up(s) \/ Left(s)
     /\ sending' = [sending EXCEPT ![s] = @ + 1]
  \/ /\ ~Up(s)
     /\ UNCHANGED sending

\* A worker visits the slot, or can: no job of it is running, and it is not
\* disconnected, or was so in this visit.
Visited(s) ==
  /\ session[s] = "marked"
  /\ scan[s] = 0
  /\ s \in disc => s \in tail

\* A job of the slot runs.
MayRun(s, job) ==
  /\ Visited(s)
  /\ jobs[s] # <<>> /\ Head(jobs[s]) = job
  /\ jobs' = [jobs EXCEPT ![s] = Tail(@)]
  /\ UNCHANGED session

-----------------------------------------------------------------------------
(* Faults: one plausible mistake each; used by the mutation runs only.     *)

\* The loop over the players runs once too often.
CheckLoginFailPast(s) ==
  /\ scan[s] \in 1..(MaxUser + 1)
  /\ scan[s] \in Slots =>
       state[scan[s]] # "ingame" \/ \A c \in Who(s) : nameOf[scan[s]] # name[c]
  /\ scan' = [scan EXCEPT ![s] = @ + 1]
  /\ UNCHANGED <<acceptor, iocp, clients, state, nameOf, disc, tail, beside, traffic,
                 jobs, session>>

\* The next socket is read and left in the pool.
AcceptNextKeeps(t) ==
  /\ On(t, "next")
  /\ clientSock' = IF pool # <<>> THEN Head(pool) ELSE None
  /\ Jump(t, "accept")
  /\ UNCHANGED <<pool, listening, accepted, fails, on, clients, players, traffic,
                 jobs, session>>

\* Only players in game are logged out.
DisconnectInGame(s) ==
  /\ notices[s] > 0
  /\ notices' = [notices EXCEPT ![s] = @ - 1]
  /\ IF state[s] = "ingame" THEN Post(s, "logout") ELSE UNCHANGED <<jobs, session>>
  /\ UNCHANGED <<acceptor, iocp, clients, players, armed, refused, sending, sends>>

\* The next receive is posted before the packets of this one are pushed.
RecvBeginArmed(t, s) ==
  /\ On(t, "wait")
  /\ s \in armed
  /\ \E c \in Who(s) :
       /\ login[c] = "sent"
       /\ login' = [login EXCEPT ![c] = "received"]
  /\ on' = [on EXCEPT ![t] = s]
  /\ Jump(t, "push")
  /\ UNCHANGED <<acceptor, conn, slot, name, players, traffic, jobs, session>>

\* CheckLoginFail begins behind the player who asks.
LoginPacketBehind(s) ==
  /\ MayRun(s, "login")
  /\ scan' = [scan EXCEPT ![s] = s + 1]
  /\ beside' = beside \cup {<<s, r>> : r \in {x \in Slots : scan[x] # 0}}
                      \cup {<<r, s>> : r \in {x \in Slots : scan[x] # 0}}
  /\ UNCHANGED <<acceptor, iocp, clients, state, nameOf, disc, tail, traffic>>

\* A failed accept is reported and skipped, as a failed receive is.
AcceptBeginGood(t) ==
  /\ On(t, "wait")
  /\ accepted > 0
  /\ accepted' = accepted - 1
  /\ IF clientSock = None \/ Who(clientSock) = {} THEN UNCHANGED ipc ELSE Jump(t, "post")
  /\ UNCHANGED <<pool, clientSock, listening, fails, on, clients, players, traffic,
                 jobs, session>>

-----------------------------------------------------------------------------
(* The clients and the network.                                            *)

Connect(c) ==
  /\ conn[c] = "off"
  /\ conn' = [conn EXCEPT ![c] = "waiting"]
  /\ UNCHANGED <<acceptor, iocp, slot, name, login, players, traffic, jobs, session>>

\* The outstanding AcceptEx completes with a connection ...
Establish(c) ==
  /\ conn[c] = "waiting"
  /\ listening # None
  /\ conn' = [conn EXCEPT ![c] = "up"]
  /\ slot' = [slot EXCEPT ![c] = listening]
  /\ listening' = None
  /\ accepted' = accepted + 1
  /\ UNCHANGED <<pool, clientSock, fails, iocp, name, login, players, traffic, jobs,
                 session>>

\* ... or fails, because somebody gave up while connecting.
AcceptFails ==
  /\ fails < MaxFails
  /\ listening # None
  /\ fails' = fails + 1
  /\ listening' = None
  /\ accepted' = accepted + 1
  /\ UNCHANGED <<pool, clientSock, iocp, clients, players, traffic, jobs, session>>

WriteLogin(c) ==
  /\ conn[c] = "up"
  /\ login[c] = "unsent"
  /\ login' = [login EXCEPT ![c] = "sent"]
  /\ UNCHANGED <<acceptor, iocp, conn, slot, name, players, traffic, jobs, session>>

\* The client closes its end, crashes, or is cut off.
Leave(c) ==
  /\ conn[c] = "up"
  /\ conn' = [conn EXCEPT ![c] = "gone"]
  /\ UNCHANGED <<acceptor, iocp, slot, name, login, players, traffic, jobs, session>>

\* The outstanding receive completes with nothing or with an error.
NoticeEnd(s) ==
  /\ s \in armed
  /\ ~Up(s)
  /\ armed' = armed \ {s}
  /\ notices' = [notices EXCEPT ![s] = @ + 1]
  /\ UNCHANGED <<acceptor, iocp, clients, players, refused, sending, sends, jobs,
                 session>>

\* A send completes, well or not.
SendDone(s) ==
  /\ sending[s] > 0
  /\ sending' = [sending EXCEPT ![s] = @ - 1]
  /\ \/ UNCHANGED notices
     \/ ~Up(s) /\ notices' = [notices EXCEPT ![s] = @ + 1]
  /\ UNCHANGED <<acceptor, iocp, clients, players, armed, refused, sends, jobs,
                 session>>

-----------------------------------------------------------------------------
(* CNetworkMgr, on the IOCP threads.                                       *)

\* An AcceptEx has completed.  If it failed, IOCPFunc says so and falls through to
\* Accept all the same, which keeps the chain of accepts alive.
AcceptBegin(t) ==
  /\ On(t, "wait")
  /\ accepted > 0
  /\ accepted' = accepted - 1
  /\ IF clientSock = None THEN UNCHANGED ipc ELSE Jump(t, "post")
  /\ UNCHANGED <<pool, clientSock, listening, fails, on, clients, players, traffic,
                 jobs, session>>

\* Accept: the job for the player object of the socket ...
AcceptPost(t) ==
  /\ On(t, "post")
  /\ Post(clientSock, "accept")
  /\ Jump(t, "next")
  /\ UNCHANGED <<acceptor, on, clients, players, traffic>>

\* ... the next socket ...
AcceptNext(t) ==
  /\ On(t, "next")
  /\ IF pool # <<>>
       THEN clientSock' = Head(pool) /\ pool' = Tail(pool)
       ELSE clientSock' = None /\ UNCHANGED pool
  /\ Jump(t, "accept")
  /\ UNCHANGED <<listening, accepted, fails, on, clients, players, traffic, jobs,
                 session>>

\* ... and the next AcceptEx, which is refused for the socket -1.
AcceptAgain(t) ==
  /\ On(t, "accept")
  /\ listening' = clientSock
  /\ Jump(t, "wait")
  /\ UNCHANGED <<pool, clientSock, accepted, fails, on, clients, players, traffic,
                 jobs, session>>

\* Recv: the receive has completed with the client's CS_LOGIN.
RecvBegin(t, s) ==
  /\ On(t, "wait")
  /\ s \in armed
  /\ \E c \in Who(s) :
       /\ login[c] = "sent"
       /\ login' = [login EXCEPT ![c] = "received"]
  /\ armed' = armed \ {s}
  /\ on' = [on EXCEPT ![t] = s]
  /\ Jump(t, "push")
  /\ UNCHANGED <<acceptor, conn, slot, name, players, refused, sending, sends,
                 notices, jobs, session>>

RecvPush(t) ==
  /\ On(t, "push")
  /\ PushJob(on[t], "login")
  /\ Jump(t, "receive")
  /\ UNCHANGED <<acceptor, on, clients, players, traffic, session>>

RecvAgain(t) ==
  /\ On(t, "receive")
  /\ RecvPacket(on[t])
  /\ AddSessionQueue(on[t])
  /\ on' = [on EXCEPT ![t] = None]
  /\ Jump(t, "wait")
  /\ UNCHANGED <<acceptor, clients, players, sending, sends, notices, jobs>>

\* IOCPFunc on a receive or a send that failed.
Disconnect(s) ==
  /\ notices[s] > 0
  /\ notices' = [notices EXCEPT ![s] = @ - 1]
  /\ Post(s, "logout")
  /\ UNCHANGED <<acceptor, iocp, clients, players, armed, refused, sending, sends>>

-----------------------------------------------------------------------------
(* The jobs, on the workers.                                               *)

PlayerAccept(s) ==
  /\ MayRun(s, "accept")
  /\ state' = [state EXCEPT ![s] = "alloc"]
  /\ nameOf' = [nameOf EXCEPT ![s] = NoName]
  /\ RecvPacket(s)
  /\ UNCHANGED <<acceptor, iocp, clients, disc, scan, tail, beside, sending, sends,
                 notices>>

LoginPacket(s) ==
  /\ MayRun(s, "login")
  /\ scan' = [scan EXCEPT ![s] = 1]
  /\ beside' = beside \cup {<<s, r>> : r \in {x \in Slots : scan[x] # 0}}
                      \cup {<<r, s>> : r \in {x \in Slots : scan[x] # 0}}
  /\ UNCHANGED <<acceptor, iocp, clients, state, nameOf, disc, tail, traffic>>

\* The player at the cursor is in game under the name asked for.
Taken(s) ==
  /\ state[scan[s]] = "ingame"
  /\ \E c \in Who(s) : nameOf[scan[s]] = name[c]

\* CheckLoginFail looks at one player after the other.
CheckLoginFail(s) ==
  /\ scan[s] \in Slots
  /\ ~Taken(s)
  /\ scan' = [scan EXCEPT ![s] = @ + 1]
  /\ UNCHANGED <<acceptor, iocp, clients, state, nameOf, disc, tail, beside, traffic,
                 jobs, session>>

\* The name is taken: LOGIN_FAIL goes to the player who has it, whose client ends;
\* the one who asked is told nothing.
LoginFail(s) ==
  /\ scan[s] \in Slots
  /\ Taken(s)
  /\ SendPacket(scan[s])
  /\ scan' = [scan EXCEPT ![s] = 0]
  /\ UNCHANGED <<acceptor, iocp, clients, state, nameOf, disc, tail, beside, armed,
                 refused, sends, notices, jobs, session>>

\* The name is free: the player is in game and told so.
LoginEnd(s) ==
  /\ scan[s] > MaxUser
  /\ \E c \in Who(s) : nameOf' = [nameOf EXCEPT ![s] = name[c]]
  /\ state' = [state EXCEPT ![s] = "ingame"]
  /\ scan' = [scan EXCEPT ![s] = 0]
  /\ SendPacket(s)
  /\ UNCHANGED <<acceptor, iocp, clients, disc, tail, beside, armed, refused, sends,
                 notices, jobs, session>>

\* Somebody's job sends the player a packet.
Inform(s) ==
  /\ state[s] = "ingame"
  /\ sends < MaxSends
  /\ sends' = sends + 1
  /\ SendPacket(s)
  /\ UNCHANGED <<acceptor, iocp, clients, players, armed, refused, notices, jobs,
                 session>>

\* Logout: the mark, the socket closed, the slot free.  The client, if it is still
\* there, finds its connection closed.
Logout(s) ==
  /\ MayRun(s, "logout")
  /\ disc' = disc \cup {s}
  /\ tail' = tail \cup {s}
  /\ state' = [state EXCEPT ![s] = "free"]
  /\ conn' = [c \in Clients |-> IF c \in Who(s) THEN "gone" ELSE conn[c]]
  /\ UNCHANGED <<acceptor, iocp, slot, name, login, nameOf, scan, beside, traffic>>

\* The visit is over.  A player who was logged out in it is done with: whether the
\* session is requeued or unmarked, the next worker that comes to it drops it.
EndVisit(s) ==
  /\ Visited(s)
  /\ IF s \in disc
       THEN tail' = tail \ {s} /\ UNCHANGED session
       ELSE /\ jobs[s] = <<>>
            /\ session' = [session EXCEPT ![s] = "ending"]
            /\ UNCHANGED tail
  /\ UNCHANGED <<acceptor, iocp, clients, state, nameOf, disc, scan, beside, traffic,
                 jobs>>

UnmarkInQueue(s) ==
  /\ session[s] = "ending"
  /\ session' = [session EXCEPT ![s] = "unmarked"]
  /\ UNCHANGED <<acceptor, iocp, clients, players, traffic, jobs>>

-----------------------------------------------------------------------------
Accept(t) ==
  \/ AcceptBegin(t)
  \/ AcceptPost(t)
  \/ AcceptNext(t)
  \/ AcceptAgain(t)

Recv(t) ==
  \/ \E s \in Slots : RecvBegin(t, s)
  \/ RecvPush(t)
  \/ RecvAgain(t)

Work(s) ==
  \/ PlayerAccept(s)
  \/ LoginPacket(s)
  \/ CheckLoginFail(s)
  \/ LoginFail(s)
  \/ LoginEnd(s)
  \/ Logout(s)

Next ==
  \/ \E c \in Clients : Connect(c) \/ Establish(c) \/ WriteLogin(c) \/ Leave(c)
  \/ AcceptFails
  \/ \E t \in IocpThreads : Accept(t) \/ Recv(t)
  \/ \E s \in Slots :
       \/ Work(s) \/ EndVisit(s) \/ UnmarkInQueue(s)
       \/ NoticeEnd(s) \/ SendDone(s) \/ Disconnect(s) \/ Inform(s)

Spec == Init /\ [][Next]_vars

\* The network connects a client that waits, which then logs in; an IOCP thread goes on
\* with its completions, and a worker with the visit it is in.
Fairness ==
  /\ \A c \in Clients : WF_vars(Establish(c) \/ WriteLogin(c))
  /\ \A t \in IocpThreads : WF_vars(Accept(t) \/ Recv(t))
  /\ \A s \in Slots :
       WF_vars(CheckLoginFail(s) \/ LoginFail(s) \/ LoginEnd(s) \/ UnmarkInQueue(s))

FairSpec == Spec /\ Fairness

-----------------------------------------------------------------------------
(* Properties.                                                             *)

\* No two connections share a player object, and the player object that an accept
\* is posted for is the one whose socket was accepted.
OneConnection ==
  /\ \A c, d \in Clients : slot[c] = slot[d] /\ slot[c] # None => c = d
  /\ listening # None => listening = clientSock /\ Who(listening) = {}
  /\ \A t \in IocpThreads : On(t, "post") => clientSock # None /\ listening = None

\* A player whose connection has ended will be logged out: a failed completion is
\* under way or still to come, or the job is posted.  The exception is a receive
\* that was refused, which nobody looks at.
Noticed ==
  \A s \in Slots :
    state[s] # "free" /\ Left(s) /\ s \notin refused =>
      \/ s \in armed
      \/ notices[s] > 0
      \/ \E t \in IocpThreads : on[t] = s
      \/ \E i \in 1..Len(jobs[s]) : jobs[s][i] = "logout"

\* A player who has been logged out is never in game again, though jobs that were
\* posted to him before may still run in that visit.
GoneForGood ==
  [][\A s \in Slots : s \in disc /\ state[s] = "free" => state'[s] = "free"]_vars

\* Two players are in game under one name only if their logins overlapped.
NamesakesRaced ==
  \A r, s \in Slots :
    r # s /\ state[r] = "ingame" /\ state[s] = "ingame" /\ nameOf[r] = nameOf[s]
      => <<r, s>> \in beside

\* No session is outranked for ever: to one that is marked and has jobs a worker comes.
Served == \A s \in Slots : WF_vars(Work(s))

\* No socket is left for the client, all having been spent on others and on failures.
TurnedAway(c) ==
  /\ conn[c] = "waiting" /\ clientSock = None
  /\ fails + Cardinality({d \in Clients : slot[d] # None}) = MaxUser

\* Jobs of the client's player lie in a session that nobody visits.
Stranded(c) ==
  slot[c] # None /\ jobs[slot[c]] # <<>> /\ session[slot[c]] = "unmarked"

\* The client is there, under a name of its own, and neither in the game nor out of
\* luck.
KeptWaiting(c) ==
  /\ conn[c] \in {"waiting", "up"} /\ ~TurnedAway(c)
  /\ conn[c] = "up" => state[slot[c]] # "ingame"
  /\ \A d \in Clients : name[d] = name[c] => d = c

\* A client that connects under a name of its own gets into the game, leaves, or finds
\* the sockets spent, whatever accepts fail in between.  It waits for ever only if its
\* CS_LOGIN is stranded behind PlayerAccept and nothing is posted after it, or if
\* sessions of higher address are served for ever.
Admitted == Served => \A c \in Clients : <>[]KeptWaiting(c) => <>[]Stranded(c)
=============================================================================
