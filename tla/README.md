# A TLA+ verification of the SimpleMMORPG server

SimpleMMORPG is a Windows server for a tile-based role-playing game, a client
with a graphical front end and a load generator. This directory holds TLA+
modules that model the server's core logic, the configurations that check them
with TLC, and theorems about them checked with TLAPS. Paths below are relative
to `src/`; the server's own files live in
`TermProject_Server/TermProject_Server/`, written `S/` here.

The code is compiled with `WITH_VIEW` and `WITH_SECTION` and without `DATABASE`
and `CHECK_NPC_ACTIVE` (`S/pch.h`); that is the program that is modelled.

## 1. The system

### Threads

`CServer::Run` starts five IOCP threads (`CNetworkMgr::IOCPFunc`), five workers
(`PacketJobQueue::ProcessJob`) and one timer thread (`CNetworkMgr::TimerFunc`).
They share everything: an array of `MAX_USER` player objects (`CClient`) and
`MAX_NPC` monsters (`CNpc`), the job queues, the timer queue, the pool of
overlapped structures, the section grid and the item map. Players' state is
meant to be touched only by jobs of their session; monsters' state is touched
directly by IOCP threads and workers.

### Components

| Component | State | Operations | What makes it correct |
|---|---|---|---|
| Job queues and workers (`S/JobQueue.*`, `S/Job.h`, `S/CClient.h`) | per-session priority queue of jobs, enqueued mark, session queue | `PushJob`, `AddSessionQueue`, `ProcessJob` | a session's jobs run one at a time, in order, none lost, none twice |
| Connection lifecycle (`S/CNetworkMgr.cpp`, `S/CClient.cpp`, `S/CSession.*`) | socket pool, socket in the pending accept, `m_State`, `m_isDisconnected`, outstanding receive | `Accept`, `PlayerAccept`, `Disconnect`, `Logout` | a slot serves one connection; state follows ALLOC, INGAME, FREE; failed operations end it |
| Login (`S/CPacketMgr.cpp`) | names, `ST_INGAME` | `LoginPacket`, `CheckLoginFail` | one player per name; the newcomer is told; views are set up on both sides |
| Packet framing (`S/CNetworkMgr.cpp` `Recv`, `S/CSession.cpp`, client `CPacketMgr`, `NetworkModule`) | receive buffer, bytes left over | `Recv`, `RecvPacket`, `PacketReasemble` | the packets processed are the packets sent, however the stream is cut |
| Packet dispatch (`S/CPacketMgr.cpp`) | handler table | one handler per client packet | every documented packet does what the protocol says |
| World, sections and views (`S/GameUtil.*`, `S/CObject.*`, `S/CClient.cpp`) | positions, section grid, view lists, what each client was told | `Move`, `CheckSection`, `AddObjectToView`, `RemoveObjectFromView`, `RegisterToSection` | a client knows exactly the objects near it; the grid lists every object where it stands |
| Monsters (`S/CNpc.*`, `S/CNetworkMgr.cpp` `MonsterRespawn`) | active, dead, state, target, position, timer chain | `WakeUp`, `Update`, `RandomMove`, `Chase`, `Attack`, `Damaged` | one timer chain while awake; a death counts once; a watched monster is awake |
| Path finding (`S/CNpc.cpp` `AStar`) | local grid | `AStar`, `FindNextStep` | the step is on a shortest path; the grid is not left |
| Timer, completion port, overlapped pool (`S/CNetworkMgr.cpp`, `S/OverlapPool.*`) | timer queue, completions, pool | `RegisterEvent`, `TimerFunc`, `IOCPFunc`, handlers | every event reaches its handler once, not early; structures go back to the pool |
| Player vitals (`S/CStat.*`, `S/CSkill.*`, `S/CClient.cpp`) | hp, mp, level, exp, power, heal chain, cool-downs | `Damaged`, `Heal`, `UseSkill`, `UseItem`, `GainExp` | bounds hold; a wounded player heals; a power-up ends |
| Items (`S/CItem*`, `S/CClient.cpp` `CheckItem`, client `CScene`) | item map, six slots per player, what the client shows of both | `CheckItem`, `UseItem`, `CreateItem` | an item is picked up once; slots stay in range |
| Chat (`S/ChatUtil.*`, `S/LuaFunc.cpp`) | none | `SendDamageMsg`, `SendNpcKillMsg`, `SendNpcDamageMsg` | messages reach who is concerned |
| Database (`S/CDatabase.*`) | ODBC connection | `GetPlayerInfo`, `SavePlayerInfo` | compiled out |
| Client application (`TermProject_Client/`) | mirror of the objects seen | `ProcessPacket`, drawing | the mirror follows the server's packets |
| Load generator (`Stress_Test/`) | simulated clients | `Worker_Thread`, `Adjust_Number_Of_Client` | test tool |

### Interactions

* An IOCP thread takes a completion and dispatches it. `Recv`, `Disconnect`,
  `Accept` and `PlayerHeal` post jobs to the session and queue the session;
  `NpcMove` runs a monster's `Update` on the spot, which posts jobs to the
  players that see it or are attacked; `MonsterRespawn` changes monsters and,
  directly, players' view lists.
* A worker takes a session and runs its jobs. `Move`, `Damaged` and `Logout`
  post jobs to the sessions in view; `Move` and login wake monsters; skills
  damage monsters directly.
* Monsters, skills and healing register timer events; the timer thread turns a
  due event into a completion.

### What is hard

Interleavings of the posting threads and workers around the enqueued mark; view
lists that follow positions through jobs which run later, in another order, or
never; monsters without any lock that two workers wake or kill at once; timer
chains that split or die; a connection whose end is noticed by several failed
operations; streams cut anywhere. The list with line numbers is `hazards` in
`PROJECT.json`.


## 2. Plan

Order: first what every other component relies on (A to C), then the two
components whose chains of events are easiest to break (D, E), connections (F),
then the world the players share (G to I).
A module that relies on another states the promise it uses in its opening
comment, and the promise is a module of its own where it is worth one.

| | Modules | Promise (abstract module) | Runs | Theorems | State |
|---|---|---|---|---|---|
| A | `SessionJobs` | `SerialExecutor`: a session's jobs run alone, each once, oldest first | `session_jobs`, `session_stranded` | types, token, order, logout, refinement | done |
| B | `TimerDispatch` | `DelayedCalls`: an event is one call of its handler, not early | `timer_calls`, `timer_wrong` | types, `OneOwner`, `LostOnlyBy`, refinement | done |
| C | `RecvStream`, `Reassembly` over `ByteStream` | `PacketStream`: packets arrive whole and in order | `recv_framing`, `client_framing` | types, intactness, refinement | done |
| D | `PlayerVitals` | - | `player_vitals` | types, limits, experience, heal chain | done |
| E | `NpcLife` | - | `npc_life` | types, move chain, respawn, health | done |
| F | `Lifecycle`: accept chain and socket pool, `PlayerAccept`, login with `CheckLoginFail`, failed operations, `Logout` | - | `lifecycle` | types, `OneConnection`, `Noticed`, `NamesakesRaced`, `GoneForGood` | done |
| G | `ViewSync`: `Move`, `CheckSection`, `RegisterToSection`, the view jobs, kills, login and logout, with the client's mirror; `MonsterViews` over it: walking, `ViewListUpdate`, `MonsterRespawn` | - | `view_sync` | types, grid, looking around, clients | done |
| H | `Inventory`: item map, slots, `CheckItem`, `UseItem`, the client's ground and bag | - | `inventory` | types, conservation, money, bag | done |
| I | `PathFinding`: `AStar` and `FindNextStep` | the distance by rings around the destination, an operator | `path_finding` | types, shortest step, search inside the window | done |

F, G and H rely on A: their players' operations are jobs of a serial executor,
one shared access per step where they touch what is not their own. There is one
run per question, and a run per module where one instance answers all of them.

## 3. Modules and code

Every definition that stands for code is in the `map` of `PROJECT.json` with its
lines. A step of a model is one access to state that threads share, unless the
module says that what it describes is reached by one thread at a time. Every
module that has mutations lists them under "Faults"; no specification uses them.

### A. Sessions and jobs

`SessionJobs` is `PushJob`, `AddSessionQueue` and both `ProcessJob` loops, step by
step: push, compare-and-swap of the mark, insertion; pop, test of
`m_isDisconnected`, up to `MAX_JOB_PROCESS` jobs, size test, requeue or unmark.
Priority queues are sets ordered by what the code compares: jobs by
`m_RegisterTime` (readings of the clock may be equal), sessions by address,
because `concurrent_priority_queue<CClient*>` has no comparator. IOCP threads post
what `Recv` (a packet, with the receive armed again before the session is
queued), `Disconnect` and `PlayerHeal` post; workers post from inside a job;
`bare` is `ViewListUpdate`'s removal, which pushes a job and queues nobody.
`SerialExecutor` is what the rest of the server believes of all this.

* `session_jobs` (two sessions, two workers, two IOCP threads, two jobs, one per
  visit): `OneToken`, `NoOrphanSession`, `PacketsInOrder`, `LogoutIsFinal`, the
  refinement of `SerialExecutor`, and `ServedUnlessOutranked` under weak fairness of
  every worker and poster. The operating system runs every thread, and none of
  them blocks on another, so weak fairness of each thread is what the code has.
  It does not serve every session: the session queue gives the highest address
  first, so sessions of higher address that are requeued or posted to without end
  starve one of lower address, whatever threads run. That is the program's
  behaviour and the premise of the property (`Outranked`); with the two jobs of
  this run nobody is busy for ever, so the run itself shows the paths of a visit
  and not the starvation. Two jobs with one per visit give a requeue, a session
  taken from the front of another, a job that arrives at every point of a visit and
  one behind a logout. The theorems say the same of the safety properties for any
  numbers; for liveness there is only this instance.
* `session_stranded`: `NoStrandedJob` fails. Between `JobQueueSize() > 0` and
  `UnmarkInQueue()` of `ProcessJob` a job is pushed whose `TryMarkInQueue` fails;
  it stays until something else is posted to that session.

Abstracted: what a job does (later modules), the closure, the vector of bytes of
a packet. A session that another job still refers to is never freed in the code
either, so there is no lifetime to model.

### B. Timer, completion port, overlapped pool

`TimerDispatch` is `TimerFunc` with its queue, the port, `IOCPFunc` with the table
`m_iocpfunc`, the pool, and the part of `SendPacket` that takes an object from the
pool. The operation an IOCP thread believes in is the `m_comp_type` in the object,
as in the code, so an object in two hands would be seen as the wrong operation.
Time is in seconds, the timer's sleep one of them; its other thread-local,
`current_time`, is read before the queue, as in the code. The port delivers in any
order, which over-approximates it.

* `timer_calls` (two events, one send, three objects, two IOCP threads, times 0
  to 2): `OneOwner`, `LostOnlyBy`, refinement of `DelayedCalls` and
  `EveryEventHandled`, the last two for events that have a handler. Fairness: the
  clock advances, and every thread runs.
* `timer_wrong`: `NoWrongOperation` fails. `OP_POWERUP_ROLLBACK` has no entry in
  the table, so no power-up ends.

The model takes one thread for the timer, as `CServer::Run` does.

### C. Framing

`ByteStream` is what both directions share: the packets, laid out end to end in
one stream, and the network, which delivers any non-empty prefix of what is under
way. A byte is identified by its position, and the size of a packet can be read
only where a packet begins: elsewhere the same read gives payload. `PacketStream`
is the promise.

`RecvStream` is `RecvPacket` (the window of the posted receive) and `Recv` (the
loop, the leftover moved to the front). `Reassembly` is the client's
`PacketReasemble` with its three statics. Both are sequential; the adversary is
the network. `recv_framing` and `client_framing` check every cutting of four
packets of sizes 2, 3, 5 and 6 with a buffer of 6: packets of the buffer's size,
several packets in one read, a packet in several reads, a size byte that is the
last byte of a read. Four packets are enough to have one of each in a row. The
`m_remainBufSize` and `BUF_SIZE` of the server are the model's, the packets of the
protocol have 2 to 106 bytes (`SC_CHAT_PACKET`), so the signed `size` byte is never
negative.

Liveness in these runs (all packets arrive, as part of `PacketStream`'s
specification) assumes that the network delivers and the receiver keeps calling:
`Recv` posts the next receive itself, the client calls `RecvPacket` every frame.

Modelled as a move: the overlapping `memcpy` of `Recv` (line 311), which is one in
the x64 C runtime. Whole packets are written: the client ignores how much of a
packet `sf::TcpSocket::send` wrote, and that case is listed under `hazards`.

### D. Vitals

`PlayerVitals` is one player after his first login: `CStat.cpp`, `CanUse` and
`UseSkill`, `UseItem`, `Damaged`, `Heal` and the heal events, with the mark of his
session. A skill is two steps
(test and begin; payment) with kills in between, because `CNpc::Damaged` raises
experience in the middle of `CSkill::Use`; all other operations are jobs of the
session and therefore steps (module A). The heal chains are counted, since
`m_isHealEventRegistered` is never set and every hit starts another.

`player_vitals`: powers 35 and 60 (both below and above half of the health), rewards
that give one and two levels at once, two hits, two uses, one kill. `Alive` (a hit
never leaves a player without health; between jobs the experience is below the
next level), `HealPending`, `ExpConserved`, and `Recovers`. Fairness is of the timer
and of the visits of his session, no more: a heal job that arrives while a visit is
`ending` (between `JobQueueSize()` and `UnmarkInQueue()`, `session_stranded` in A)
stays where it is, and nothing makes it run. `Recovers` therefore says that a hurt
player who is left alone is whole again, or has left, or the last link of his heal
chain lies in a session that nobody visits (`Stranded`), for ever: the last is a
defect of the program, and no other way of not recovering exists. That sessions of
higher address do not starve his is its premise (`Served`).

Not modelled: a second `CS_LOGIN`, the load generator's login (name
"Stress_Test", other maxima), 32-bit overflow of a power doubled for ever.

### E. Monsters

`NpcLife` is one monster and the players around it: `WakeUp`, `Update`,
`Attack`, `Chase`, `RandomMove`, `Damaged`, `MonsterRespawn`. Its flags and state are
plain fields touched by workers and IOCP threads at once, so every test and every
assignment is a step. Events are handled at any time (module B says once each);
players' operations run one at a time per player (module A). Positions are the
four distances at which the code decides differently; a player who leaves stays in
the section grid, as in the code. `m_state` starts as whatever the memory holds.

* `npc_life` (one player, two IOCP threads, hits that kill or wound, four
  operations, `m_state` PATROL or garbage at first): `NeverStuck`, `DeadRespawns`,
  `NoWalkingDead` where an update and a respawn overlap, and `Respawns` and
  `SleepsUnwatched` under fairness of events, of jobs, and of the random direction
  that some time finds a free tile. Double kills and wake-ups by several players
  need more players than liveness can be checked with; the theorems cover the
  three invariants for any number of them. A monster whose `m_state` is none of
  the three values stays awake for ever (`S/CNpc.cpp:393`), so `SleepsUnwatched`
  excepts it.

The theorems hold for any number of players and threads. Deadlock is not checked: a
sleeping monster and absent players do nothing.

A player who comes into view between `CheckSection` and `m_active = false`
(`CNpc.cpp:100`, `191`) is not noticed: `MonsterWakes` in G says that nobody else is
overlooked by a monster that one thread at a time handles. What the code does not promise, and no property says: two players may both be paid for one kill (`352`); a monster beside a player who
logged out attacks him for ever (`38`).

Abstracted: the path of a chase (it comes closer or fails), `m_target` stays one of
the players; the view list of the monster is in G. The path itself is in I.

### F. Connections and logins

`Lifecycle` follows a connection from `AcceptEx` to `Logout`. Every socket belongs
to one player object from the start (`m_idMap`), so both are one number, a slot.
Accepting is four steps of an IOCP thread (the completion; the job for the player;
the next socket into `m_clientSock`; the next `AcceptEx`), receiving three (the
completion; the job; the next receive). `CheckLoginFail` is one step per player it
looks at, since the others' names and states change meanwhile; `PlayerAccept` and
`Logout` are jobs and touch the player's own slot, so they are one step each. A
socket ends with a receive or with sends that fail, each of which posts one more
`Logout`; the results of `WSARecv` and `WSASend` are ignored in the code, so a
refused call leaves no completion (`refused` remembers receives of that kind).
`tail` is the visit in which `Logout` ran: the jobs behind it in that visit still
run, however many they are, which covers every `MAX_JOB_PROCESS`. `session` is the
mark of a slot with the moment in which a visit has found no more jobs and has not
unmarked yet: a job pushed then is left behind.

* `lifecycle` (two clients with the same or different names, two sockets, one
  accept that may fail, one packet sent in game, one IOCP thread; `MCLifecycle` says
who asks for which name):
  `OneConnection`, `Noticed`, `GoneForGood`, `NamesakesRaced`, `Admitted`. Two
  clients are what a collision of names or of slots needs; two sockets with
  a failed accept, or with two clients, run out. One IOCP thread is enough because
  only one accept is ever outstanding, and the steps of two receives touch
  different slots (the theorems hold for any number). Fairness: threads run, the
  network connects those who wait, and a connected client writes its `CS_LOGIN`, the
  first thing it does. `Admitted` does not assume that a job which has been pushed
  runs: its premise (`Served`) is that a session in the queue is not outranked for
  ever, and what it says is that a client with a name of its own waits for ever only
  if a job of its slot is stranded, as `CS_LOGIN` is that arrives behind
  `PlayerAccept` at the end of the visit. A client is turned away only when all
  sockets have been spent, each on another client or on a failed accept
  (`TurnedAway` counts them).
  `Noticed` excepts by name a receive that was refused (`refused`): what
  `S/CSession.cpp:29` ignores is not found by it, it shows that there is no other
  way for an end to go unnoticed.

What the code does here and no property says: `LOGIN_FAIL` goes to the player who
has the name (`S/CPacketMgr.cpp:251`), whose client takes it for its own
("Already Playing") and ends, and the newcomer is told nothing; sockets are never
given back (`S/CNetworkMgr.cpp:225`), so the server accepts `MAX_USER` connections
in its life; two logins that overlap share a name.

Abstracted: what a login and a logout do to views and sections (G), the load
generator's login, a second `CS_LOGIN` of a client.

### G. Sections and views

`ViewSync` is positions, the grid of sections (`GameUtil`), every view list and what
the clients show, through what players do: `LoginPacket`, `Move`, the death in
`Damaged`, the kill of a monster with `SendNpcKillMsg`, `Logout`. `MonsterViews`
extends it with the monsters: `Update` with a step of `RandomMove` or `Chase`,
falling asleep, `ViewListUpdate`, `MonsterRespawn`. Two accesses of one thread to
state that others use are two steps: setting the position, leaving a section,
entering the next, copying a section under its lock, looking at each object in the
copy, posting to each neighbour, changing a list and telling the client; the test of
`m_active` in `WakeUp`, setting it, clearing the list, each section of
`CheckSection`, the first event. `script` holds what is left of the turn of the loop
a thread is in (the push, the wake-up, the list, the packet). Operations of one
player run one at a time and his jobs in the order posted
(module A). Kills, respawns and logins change the lists of others on the spot.

A monster's events (`links`) may be handled by several threads at once: two wakers,
a waker and a handler, or a respawn start a second chain (E). So the thread that
handles an event is an actor of its own: it has the name of the monster if nobody
else is at one of its events, and is one of its `Twins` otherwise; what a handler
keeps on its stack (`phase`, `visit`, `todo`, `new`, `goal`) is the actor's, what is
in the `CNpc` (position, section, `m_viewList`, `m_active`) the monster's. The
history variable `doubled` is the monsters on which two threads have been at work at
once, handlers or wakers. Of these most of what one would like to say is false, and
the properties say it of the others: two chains that step from one section into
another both leave the old one before either notes the new one, and the monster stays
listed twice (`S/CNpc.cpp:179-182`); a `seeNow` that one thread posts late puts a far
monster back into a list for good, and a late `lose` takes out one that has come
back (`552-578`). With `\ doubled` left out of the properties, TLC finds these: five
of the six fail, all but `ClientFollows`, which has no such exception. That a
monster which has not been doubled is not disturbed by what happens to others that
have been is part of what the runs and the theorems show.

* `view_sync` (a world of 4 by 4, view range 1, so sections of 2; a seat, a spawn,
  a home and a monster's place on a crooked path through three sections; one twin of
  the monster). The path makes objects come into and out of view across a corner of
  sections, which is where `CheckSection` has to look at all eight neighbours. A
  `cast` is chosen first: the two players with two moves; the player in game and the
  monster with two; the one who logs in and the monster with three; all three with
  one, where a move is a step, a death or a kill (1.7 million states). Two players
  are what two players see of each other; the third thread that changes a list needs
  the monster, and a monster that leaves one player and stays awake needs another.
  * `GridTracks`: everybody is listed in one section, except between leaving one and
    entering the next: a player in the one he stands in, a monster in the one its last
    step led to. After a respawn that is not where the monster stands
    (`S/CNetworkMgr.cpp:244`) until its next step.
  * `CheckExact`: looking around finds exactly those near, among those who have
    kept still since it began. Players who have logged out are among those found.
  * `ClientFollows`: a client shows its player's list; excepted are pairs for which
    two threads were between list and packet at once (`crossed`), which a login, a
    kill or a respawn brings about, and a monster put into the list without health
    (`hollow`), which `AddObjectToView` does not show (`S/CClient.cpp:523`) and no
    respawn shows later while it stays in the list. It holds of doubled monsters too.
  * `LastComerSeen`: when two neighbours are at rest and nothing is posted between
    them, the one who moved last is in the other's list and at the right place
    on his screen; excepted are moves during the other's login or respawn (`missed`)
    and doubled monsters.
  * `MonsterWakes`: a monster at rest beside a player who came last is awake;
    excepted are a monster that fell asleep on a look around which began before he
    came (`S/CNpc.cpp:100`), one not yet registered where it respawned, one that
    respawned while he moved, and a doubled one.
  * `MonsterLeaves`: a monster that is awake and has walked away from a player whom
    it knew is not in his list any more, if it is not doubled.

The variables `later`, `missed`, `crossed`, `hollow`, `steady` and `doubled` are
history: no guard reads them; nor does one read `old` of a monster. An exception
names a hazard and does not remove it: a move that falls between a newcomer's
exchange of views and his entry in the grid is seen by neither
(`S/CPacketMgr.cpp:168`); a list may say one thing and the client another after a
login crossed a removal (`:93`); what two threads do to one monster is above. The
properties show that nothing else goes wrong in these ways. What no property says:
lists are not symmetric (a neighbour's job adds whoever moved, wherever both are by
then, `S/CClient.cpp:247`); a monster that sleeps, or that does not know a player,
stays in his list when he is far away; players who logged out stay in their section
and are shown to whoever passes (`:339`).

Abstracted: both coordinates of a position are written at once, and both of a
section; the packets a player gets about himself; a captured position is the one at
the time of posting, because nobody else moves the player during his own job. In
`Chase` the section is computed from `m_PosX` and `m_PosY` read again after they were
written, which gives what was written as long as one thread handles the monster;
with two, the model takes the thread's own place, and `m_viewList`, an
`unordered_set` without a lock, as a set: both concern doubled monsters only, of
which the run and the theorems say no more than `ClientFollows`. A respawn
comes 30 seconds after the kill and finds the killers done (`Rise`); an attack is an
update that changes no view. A skill hits one monster, and of what a hit does only the kill changes views. Whoever is in game at
the start and the monsters near him see each other.

### H. Items

`Inventory` is the item map, the slots and the client's side of both. `CheckItem`
reads the tile when it asks whether anything lies there, when it asks for money and
when it stores the type, and then clears it: four steps, with no lock, while
monsters that die overwrite the tile and other players stand on it. Every dropped
item has an identity in the model, so that one can ask where it went; the code's
values are types. Of the `ITEM_TYPE`s those that behave alike are one.

* `inventory` (two players, two tiles, two slots, three drops, three steps; players
  and tiles symmetric): `ItemsConserved`, `OneMoneySlot`, `BagFollows`. Two slots
  are filled and overflow with three drops; a tile where two operations overlap
  needs two players, a step and a drop more.

`ItemsConserved` and `OneMoneySlot` are about items on whose tile no two operations
overlapped (`contended`): where they did, items are duplicated or lost, which is the
hazard at `S/CClient.cpp:46`. What no property says: money at full slots is written
to `m_items[-1]` (`:65`); the client sets `m_money = 77` for money it did not see
fall (client `CScene.cpp:602`); `m_num` is one too small and never read; an icon on
the ground stays with those who do not pick it up.

### I. Path finding

`PathFinding` is one search: `SearchInit` chooses the maze and the destination, a step is
one turn of the outer loop of `AStar` with its four neighbours, and the queue gives
any of the cells of equal weight (`Expanded` is the loop over them, `Visit` its body,
`Trail` the walk back of `FindNextStep`). The arrays are what they are in memory, so a cell
past the right side is the first one of the next row, and one past the end is
whatever lies there (`luck`); `IsValid` compares local coordinates with the world's
size, as the code does. Tiles outside the world, which `GetTile` reads in the row
before or after, are cells of some maze.

* `path_finding` (view 2, a window of five by five; rooms with up to two pillars
  around the monster, and passages that lead past each side or nowhere; every
  destination that a player seen inside the window can have reached): `ShortestStep`,
  `SpillsOnlyOnDetours`. The window of the code is eleven by eleven; what
  goes on at its sides and around an obstacle does not depend on that, and both are
  proved for every size and every maze.

What no property says: a search that writes past the window may end `wild`, and a
player one step past a low side is never found (both are in the model).

## 4. Proofs

TLAPS checks, for every value of the constants under their named assumptions:

| Module | Theorems | Argument |
|---|---|---|
| `SessionJobsProofs` | `TypeInvariant`, `TokenInvariant`, `SerialExecution`, `NoOrphans`, `PacketOrder`, `LogoutEndsVisits`, `Implementation` | `OneToken` is inductive with the types: the compare-and-swap creates the token, insertion, pop and requeue move it, unmarking destroys it. Mutual exclusion of workers follows. `PacketOrder` adds: the stamps of what started are at most those of what waits, since only one thread at a time is between construction and push for the packets of one connection (its receive is not armed meanwhile). `LogoutEndsVisits` adds: a logout that is done has set `m_isDisconnected`, so no later visit gets past the test, and the count of the visit it ran in includes it and the jobs behind it. For `Implementation`: with the token, a session has at most one running job, so every step is a submission, a start, an end or a stutter of `SerialExecutor` |
| `PlayerVitalsProofs` | `TypeInvariant`, `AliveInvariant`, `ExpInvariant`, `HealInvariant` | one invariant for the first three: they are inductive together with `Affordable` (the skill in progress can be paid: kills in between only raise the mana); the price of all levels is in closed form. `HealInvariant` then needs no strengthening: whoever hurts the player registers an event, and a heal that uses one up registers the next unless he is whole |
| `NpcProofs`, a monster's life | `TypeInvariant`, `StuckInvariant`, `RespawnInvariant`, `HealthInvariant` | the three properties are inductive with the types: who drops a link of a chain sees a flag that obliges somebody else to make a new one |
| `NpcProofs`, its search | `SearchTypes`, `FirstStepOfShortest`, `StraightStaysInside` | `SearchInv` is inductive. Wherever the search has looked, `ArraysOK`: a node that was written hangs on a closed node with one step less, down to the monster's; no cell shares a node with the monster's; there are at most as many steps as closed nodes. So the walk back ends, and next to the monster (`WalkBack`, `StepBeside`). While it has looked at nothing past its window, `Guided`: a node is its own cell's, a cell that is not closed is queued with its weight, cells are closed in the order of their weights and never get lighter afterwards (`CalH` falls by one at most in a step), and what is next to a closed cell was reached from it. Then, by induction over the rings, `Potential`: from a closed cell no way to the destination is shorter than the least weight in the queue says. With the way found (`WayBack`) this gives the shortest step; with an empty queue, that there is no way. On a straight way no weight exceeds the distance, so every expanded cell lies between monster and player (`PoppedBetween`) |
| `FramingProofs` | the server's side: `TypeInvariant`, `RoomInvariant`, `IntactInvariant`, `Implementation`; the client's: `ClientTypeInvariant`, `ClientIntactInvariant`, `ClientImplementation` | the buffer holds the stream from the first packet that has not been posted; what is left over after the loop is shorter than that packet. The same holds of the two buffers of the client, and `in_packet_size` is 0 or the size of the packet being put together |
| `LifecycleProofs` | `TypeInvariant`, `OneConnectionInvariant`, `NoticedInvariant`, `GoneForever`, `NamesakesInvariant` | three inductive invariants, one on top of the other. `SlotInv`: a socket is in the pool, in `m_clientSock` or accepted, and one accept, completion or handler of it is under way. `LifeInv`: what cannot have happened yet, or any more, at each stage of a slot; so a login is pushed to an empty queue before anything can fail, and is never behind a logout. `NameInv`: whoever looks for his name has faced every player he passed, or overlapped with him |
| `TimerDispatchProofs` | `TypeInvariant`, `OwnerInvariant`, `LossInvariant`, `Implementation` | four invariants, one on top of the other. `Made`: an object that is anywhere was allocated. `Apart`: the places of an object (pool, posted completion, timer, sender, IOCP thread) exclude each other, which is what `OneOwner` says and needs as its own strengthening. `Told`: the type in a posted object is its event's, and only sends fail; so an object can only go missing where `LostOnlyBy` says. `Once` and `Due`: an event is in the queue, with the timer, posted or handled, and posted no earlier than due; with them every step is a registration, a call or a stutter of `DelayedCalls` |
| `MonsterViewsProofs` | `TypeInvariant`, `GridFollows`, `LookingIsExact`, `ClientsFollow`, `MonstersWake`, `MonstersLeave`, `ComersAreSeen` | `SoloInv`, with the types: of a monster that is not doubled no twin has taken up an event, and at most one actor handles it or is waking it. So a step is either one object's, and `SparesOthers` says what it leaves alone of the others, once for all actions; or it is a twin's, and `TwinAside` says that it changes nothing of anybody who is not doubled (`Aside`), save that it may post to players about its own monster. Every invariant below has one lemma for the first kind of step and one for the second. `TrackInv`: whoever has entered is listed in the section he is registered in and nowhere else, save between the two halves of a change. `SightInv`, on top of it: the sections still to visit and those visited together are the nine around the start, and a section is twice the range of view (`NearLemma`), so whoever is near and keeps still is found; that is for every range and every size of the world. `FollowInv`: between a list and the packet that tells of it there is one access of one thread, or the pair is in `crossed`. `WakeInv`: of a monster and a player who came after it, it is awake, dead, or he has yet to look around or to reach it in his loop; that he will find it there is `KnownInv` with `SightInv`. `LeaveInv`: a player out of the view of a monster that had him in its list is being dealt with at every moment: it is looking around, he is in what is left of its loop, the job is his newest about it (`JobsStep`: jobs about an object are posted by that object alone), he is erasing it, or it is gone and nobody is putting it back (`OwnersInv`: who can be in the middle of what). `SeenInv` is the same for one who comes beside another and takes his place last (`LastComerSeen`): it is looking around and will find him (`FoundLemma`), he is in what is left of its loop, it is posting to him or changing his list itself, the newest job of his about it says where it stands, he is adding it, or he has it in his list and nobody is about to take it out (`Still`: neither he nor, while it is neither killed nor leaving, anybody else), while his client has been told or is about to be (`FollowInv`). `DropInv` is what keeps its own loop from posting the opposite: nobody who was found near is in the rest of the loop over those no longer near. `PreyDeadInv`, `HomeInv` and `GreetInv` say that a killer is at it until the monster is dead, that a player is registered where he stands, and that whoever was at rest when the other began to log in or respawn is still. |
| `InventoryProofs` | `TypeInvariant`, `ItemsInvariant`, `MoneyInvariant`, `BagInvariant` | the number of an item is never used twice. `TileInv`: who is alone on his tile has read what lies there (`ReadInv`), and what two read or find on one tile is contended (`OverlapInv`). `CleanInv`, on top of it: an item that is not contended was taken once (`Once`), by somebody who is about to clear it if it still lies (`Cleared`), and is cleared only if it was taken or refused (`Kept`). The counts of `ItemsConserved` are then 0 or 1 for any number of players |

Each invariant was checked by TLC as part of a run or of a scratch run before it
was proved. `PacketsIntact` and the types of A, B, E, F, G, H and I and of the client's side of C are proved and
not in a run: the refinements and the other properties say more. The refinements are of the safety parts.

Only model-checked: the temporal properties (`ServedUnlessOutranked`, `EveryEventHandled`,
`Recovers`, `Respawns`, `SleepsUnwatched`, and arrival in `PacketStream`), since
liveness under fairness and `ENABLED` are out of the prover's reach, as is
`Admitted`. All invariants that a run checks are proved. Rings and the walk back are
iterations; what they do at every step is proved by well-founded induction over sets
of numbers (`Induction`, `Iterates`), since an induction theorem over predicates
cannot be instantiated. What the proofs about the search assume is that there are
finitely many cells (`MazeAssumption`) and that the window is not empty
(`ViewAssumption`). Nothing is proved of the way a search finds after it has looked
past its window, save that its first step is walkable and next to the monster.

## 5. Not modelled

* The load generator and its login (`S/CPacketMgr.cpp:172-205`, where a neighbour's
  list gets the neighbour himself, not the newcomer): a test tool.
* What `CItemGenerator` draws (any item, in `Inventory`), items saved and
  restored (there are none without the database), the database (compiled out).
* Packet dispatch (a table without state), chat messages and the Lua scripts (texts, and
  a monster's initial values), drawing and input of the client, loading of the
  map: nothing of the above depends on them.
* Vendored code (SFML, the Lua headers), by far the largest part of the
  repository by lines: the client's drawing and the scripts' interpreter.
* Data races on plain fields are steps in some order; no word-tearing is modelled,
  all the fields are machine words or smaller.
