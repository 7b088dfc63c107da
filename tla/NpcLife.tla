------------------------------ MODULE NpcLife -------------------------------
(***************************************************************************)
(* The life of one monster (CNpc.cpp and CNetworkMgr::MonsterRespawn): it  *)
(* is woken by players who come into view, moves by a chain of timer       *)
(* events, goes to sleep when nobody is in view, is killed and comes back. *)
(*                                                                         *)
(* Nothing here is locked except the health.  Jobs of several players wake *)
(* and hit the monster on several workers while IOCP threads move it or    *)
(* bring it back; a step is one access to what they share.  A job of a     *)
(* player runs to its end before the next one of the same player           *)
(* (SessionJobs), and an event is a call of its handler on some IOCP       *)
(* thread (TimerDispatch), here at any time.                               *)
(*                                                                         *)
(* Positions are abstracted to the distance class of every player: next to *)
(* the monster (Manhattan distance 1 at most), within MONSTER_VIEW, within *)
(* VIEW_RANGE, or out of view.  One step of either changes it by one.      *)
(***************************************************************************)
EXTENDS Integers

CONSTANTS
  Players,      \* the players
  IocpThreads,  \* threads that run IOCPFunc
  MaxHp,        \* health of the monster
  Powers,       \* damage that hits do
  MonType,      \* "agro" or "peace" (MONSTER_TYPE)
  InitStates,   \* what the memory of m_state, which nothing initialises, may hold
  MaxOps        \* bound of the model: logins, moves, hits, deaths and logouts

NpcStates == {"patrol", "chase", "attack", "garbage"}

ASSUME HealthAssumption == MaxHp \in Nat \ {0} /\ Powers \subseteq Nat \ {0}
ASSUME TypeAssumption == MonType \in {"agro", "peace"} /\ InitStates \subseteq NpcStates
ASSUME BoundAssumption == MaxOps \in Nat

\* Distance classes.
Adjacent == 0
Near == 1
InView == 2
Far == 3

VARIABLES
  active,      \* CNpc::m_active
  die,         \* CNpc::m_die
  hp,          \* m_curHp of its stat
  mode,        \* CNpc::m_state
  target,      \* CNpc::m_target
  range,       \* distance class of every player (Far before he logs in)
  moves,       \* move events registered and not taken by an IOCP thread
  respawns,    \* respawn events, likewise
  ipc,         \* where an IOCP thread is
  state,       \* m_State of every player
  listed,      \* players in the section grid
  blows,       \* players with a Damaged job from the monster pending
  ppc,         \* where the job of a player is
  ops          \* how much the players have done

npc == <<active, die, hp, mode, target>>
timer == <<moves, respawns>>
players == <<state, listed, blows, ops>>
vars == <<npc, range, timer, ipc, ppc, players>>

UpdatePlaces ==
  {"upDie", "upActive", "act", "look", "search", "sleep", "final", "push"}
RespawnPlaces == {"rsDie", "rsHp", "rsPos", "rsPush"}
WakePlaces == {"wakeActive", "wakeDie", "wakeSet", "wakePush"}
HitPlaces == {"hitActive", "hitDie", "hitHp", "killDie", "killEvent"}

\* Every variable has its type; only players in game have a job in progress.
TypeOK ==
  /\ active \in BOOLEAN
  /\ die \in BOOLEAN
  /\ hp \in 0..MaxHp
  /\ mode \in NpcStates
  /\ target \in Players
  /\ range \in [Players -> Adjacent..Far]
  /\ moves \in Nat
  /\ respawns \in Nat
  /\ ipc \in [IocpThreads -> {"wait"} \cup UpdatePlaces \cup RespawnPlaces]
  /\ state \in [Players -> {"alloc", "ingame", "left"}]
  /\ listed \subseteq Players
  /\ blows \subseteq Players
  /\ ppc \in [Players -> {"idle", "enter"} \cup WakePlaces \cup HitPlaces]
  /\ ops \in 0..MaxOps
  /\ \A p \in Players : ppc[p] # "idle" => state[p] = "ingame"

Init ==
  /\ active = FALSE
  /\ die = FALSE
  /\ hp = MaxHp
  /\ mode \in InitStates
  /\ target \in Players
  /\ range = [p \in Players |-> Far]
  /\ moves = 0
  /\ respawns = 0
  /\ ipc = [t \in IocpThreads |-> "wait"]
  /\ state = [p \in Players |-> "alloc"]
  /\ listed = {}
  /\ blows = {}
  /\ ppc = [p \in Players |-> "idle"]
  /\ ops = 0

-----------------------------------------------------------------------------
(* Faults: one plausible mistake each; used by the mutation runs only.     *)

At(p, place) == ppc[p] = place
Goto(p, place) == ppc' = [ppc EXCEPT ![p] = place]

On(t, place) == ipc[t] = place
Jump(t, place) == ipc' = [ipc EXCEPT ![t] = place]

\* The health is not stopped at 0.
HitHpBelow(p, power) ==
  /\ At(p, "hitHp")
  /\ hp' = hp - power
  /\ Goto(p, IF hp - power <= 0 THEN "killDie" ELSE "idle")
  /\ UNCHANGED <<active, die, mode, target, range, timer, ipc, players>>

\* A monster that has gone to sleep needs no respawn event.
KillEventIfActive(p) ==
  /\ At(p, "killEvent")
  /\ respawns' = IF active THEN respawns + 1 ELSE respawns
  /\ Goto(p, "idle")
  /\ UNCHANGED <<npc, range, moves, ipc, players>>

\* A monster that was awake when it was killed still has its move event.
RespawnPushIfAsleep(t) ==
  /\ On(t, "rsPush")
  /\ moves' = IF active THEN moves ELSE moves + 1
  /\ Jump(t, "wait")
  /\ UNCHANGED <<npc, range, respawns, ppc, players>>

\* Only a monster that is awake is brought back.
RespawnDieIfActive(t) ==
  /\ On(t, "rsDie")
  /\ die' = (die /\ ~active)
  /\ Jump(t, "rsHp")
  /\ UNCHANGED <<active, hp, mode, target, range, timer, ppc, players>>

\* The health is not restored.
RespawnHpForgotten(t) ==
  /\ On(t, "rsHp")
  /\ Jump(t, "rsPos")
  /\ UNCHANGED <<npc, range, timer, ppc, players>>

\* A chase that fails is not given up.
GiveUpNever(t) ==
  /\ On(t, "act")
  /\ mode = "chase"
  /\ Jump(t, "final")
  /\ UNCHANGED <<npc, range, timer, ppc, players>>

-----------------------------------------------------------------------------
(* Distances.                                                              *)

\* Where a distance class can be after one step of the player or the monster.
StepFrom(r) == {s \in Adjacent..Far : s \in (r - 1)..(r + 1)}

CanSee(p) == range[p] <= InView
Agro(p) == range[p] <= Near

\* A player moves one tile; the monster moves one tile, or stays.
PlayerSteps(p) == \E r \in StepFrom(range[p]) : range' = [range EXCEPT ![p] = r]
MonsterSteps ==
  range' \in {r \in [Players -> Adjacent..Far] :
                \A p \in Players : r[p] \in IF state[p] = "alloc" THEN {Far}
                                           ELSE StepFrom(range[p])}

\* CNpc::CheckSection: every player in the grid, in game or not.
CheckSection == {p \in listed : CanSee(p)}

-----------------------------------------------------------------------------
(* The jobs of the players.                                                *)

\* WakeUp is called for what the player sees.
WakeIfSeen(p, seen) == Goto(p, IF seen THEN "wakeActive" ELSE "idle")

\* WakeUp returns: LoginPacket has yet to put the player into the grid.
EndWakeUp(p) == Goto(p, IF p \in listed THEN "idle" ELSE "enter")

May(p) ==
  /\ At(p, "idle")
  /\ state[p] = "ingame"
  /\ ops < MaxOps
  /\ ops' = ops + 1

\* LoginPacket: the player is in game at his place, and wakes what he sees before
\* he is in the section grid.
Login(p) ==
  /\ state[p] = "alloc"
  /\ ops < MaxOps
  /\ ops' = ops + 1
  /\ state' = [state EXCEPT ![p] = "ingame"]
  /\ \E r \in Adjacent..Far : range' = [range EXCEPT ![p] = r]
  /\ Goto(p, IF range'[p] <= InView THEN "wakeActive" ELSE "enter")
  /\ UNCHANGED <<npc, timer, ipc, listed, blows>>

\* The end of LoginPacket: RegisterToSection.
Enter(p) ==
  /\ At(p, "enter")
  /\ listed' = listed \cup {p}
  /\ Goto(p, "idle")
  /\ UNCHANGED <<npc, range, timer, ipc, state, blows, ops>>

\* CClient::Move, up to the call of WakeUp.
Move(p) ==
  /\ May(p)
  /\ p \in listed
  /\ PlayerSteps(p)
  /\ WakeIfSeen(p, range'[p] <= InView)
  /\ UNCHANGED <<npc, timer, ipc, state, listed, blows>>

\* CClient::Damaged, posted by Attack: the player may die and find himself
\* elsewhere, where he wakes what he sees.
TakeBlow(p) ==
  /\ p \in blows
  /\ At(p, "idle")
  /\ state[p] = "ingame"
  /\ blows' = blows \ {p}
  /\ \/ UNCHANGED <<range, ppc, ops>>
     \/ /\ May(p)
        /\ \E r \in Adjacent..Far : range' = [range EXCEPT ![p] = r]
        /\ WakeIfSeen(p, range'[p] <= InView)
  /\ UNCHANGED <<npc, timer, ipc, state, listed>>

\* CClient::Logout: the player stays in the section grid.
Logout(p) ==
  /\ May(p)
  /\ state' = [state EXCEPT ![p] = "left"]
  /\ UNCHANGED <<npc, range, timer, ipc, listed, blows, ppc>>

\* CNpc::WakeUp: the two tests ...
WakeTestActive(p) ==
  /\ At(p, "wakeActive")
  /\ IF active THEN EndWakeUp(p) ELSE Goto(p, "wakeDie")
  /\ UNCHANGED <<npc, range, timer, ipc, players>>

WakeTestDie(p) ==
  /\ At(p, "wakeDie")
  /\ IF die THEN EndWakeUp(p) ELSE Goto(p, "wakeSet")
  /\ UNCHANGED <<npc, range, timer, ipc, players>>

\* ... then the assignment ...
WakeSet(p) ==
  /\ At(p, "wakeSet")
  /\ active' = TRUE
  /\ Goto(p, "wakePush")
  /\ UNCHANGED <<die, hp, mode, target, range, timer, ipc, players>>

\* ... and the first move event.
WakePush(p) ==
  /\ At(p, "wakePush")
  /\ moves' = moves + 1
  /\ EndWakeUp(p)
  /\ UNCHANGED <<npc, range, respawns, ipc, players>>
\* A skill of the player reaches the monster: CNpc::Damaged is called, ...
Hit(p) ==
  /\ May(p)
  /\ p \in listed
  /\ Agro(p)
  /\ Goto(p, "hitActive")
  /\ UNCHANGED <<npc, range, timer, ipc, state, listed, blows>>

\* ... makes its two tests, ...
HitTestActive(p) ==
  /\ At(p, "hitActive")
  /\ Goto(p, IF active THEN "hitDie" ELSE "idle")
  /\ UNCHANGED <<npc, range, timer, ipc, players>>

HitTestDie(p) ==
  /\ At(p, "hitDie")
  /\ Goto(p, IF die THEN "idle" ELSE "hitHp")
  /\ UNCHANGED <<npc, range, timer, ipc, players>>

\* ... takes the health under its lock (CStat::Damaged), ...
HitHp(p, power) ==
  /\ At(p, "hitHp")
  /\ hp' = IF hp - power <= 0 THEN 0 ELSE hp - power
  /\ Goto(p, IF hp - power <= 0 THEN "killDie" ELSE "idle")
  /\ UNCHANGED <<active, die, mode, target, range, timer, ipc, players>>

\* ... and, if nothing is left, kills: m_die first, the respawn event next.  What
\* the killer gains is in PlayerVitals.
KillDie(p) ==
  /\ At(p, "killDie")
  /\ die' = TRUE
  /\ Goto(p, "killEvent")
  /\ UNCHANGED <<active, hp, mode, target, range, timer, ipc, players>>

KillEvent(p) ==
  /\ At(p, "killEvent")
  /\ respawns' = respawns + 1
  /\ Goto(p, "idle")
  /\ UNCHANGED <<npc, range, moves, ipc, players>>

-----------------------------------------------------------------------------
(* A move event on an IOCP thread: CNpc::Update.                           *)

TakeMove(t) ==
  /\ On(t, "wait")
  /\ moves > 0
  /\ moves' = moves - 1
  /\ Jump(t, "upDie")
  /\ UNCHANGED <<npc, range, respawns, ppc, players>>

UpdateTestDie(t) ==
  /\ On(t, "upDie")
  /\ Jump(t, IF die THEN "wait" ELSE "upActive")
  /\ UNCHANGED <<npc, range, timer, ppc, players>>

UpdateTestActive(t) ==
  /\ On(t, "upActive")
  /\ Jump(t, IF active THEN "act" ELSE "wait")
  /\ UNCHANGED <<npc, range, timer, ppc, players>>

\* CNpc::Attack: a target next to the monster is hit, another chased or let go.
Attack(t) ==
  /\ On(t, "act")
  /\ mode = "attack"
  /\ IF range[target] = Adjacent
       THEN blows' = blows \cup {target} /\ UNCHANGED mode
       ELSE mode' = (IF Agro(target) THEN "chase" ELSE "patrol") /\ UNCHANGED blows
  /\ Jump(t, "final")
  /\ UNCHANGED <<active, die, hp, target, range, timer, ppc, state, listed, ops>>

\* CNpc::Chase with a target out of reach, or no way to it (AStar) ...
GiveUp(t) ==
  /\ On(t, "act")
  /\ mode = "chase"
  /\ mode' = "patrol"
  /\ Jump(t, "final")
  /\ UNCHANGED <<active, die, hp, target, range, timer, ppc, players>>

\* ... and with a step of a way to the target.
Chase(t) ==
  /\ On(t, "act")
  /\ mode = "chase"
  /\ Agro(target)
  /\ MonsterSteps
  /\ mode' = IF range'[target] = Adjacent THEN "attack" ELSE mode
  /\ Jump(t, "look")
  /\ UNCHANGED <<active, die, hp, target, timer, ppc, players>>

\* CNpc::RandomMove into a tile that is not free ...
Blocked(t) ==
  /\ On(t, "act")
  /\ mode = "patrol"
  /\ Jump(t, "final")
  /\ UNCHANGED <<npc, range, timer, ppc, players>>

\* ... and into a free one.
RandomMove(t) ==
  /\ On(t, "act")
  /\ mode = "patrol"
  /\ MonsterSteps
  /\ Jump(t, "search")
  /\ UNCHANGED <<npc, timer, ppc, players>>

\* Update with an m_state that is none of the three.
NoMode(t) ==
  /\ On(t, "act")
  /\ mode = "garbage"
  /\ Jump(t, "final")
  /\ UNCHANGED <<npc, range, timer, ppc, players>>

\* CheckSection after a step: if nobody is there the monster goes to sleep.
Look(t) ==
  /\ On(t, "look")
  /\ Jump(t, IF CheckSection = {} THEN "sleep" ELSE "final")
  /\ UNCHANGED <<npc, range, timer, ppc, players>>

\* On patrol, an agro monster turns on the first it finds within MONSTER_VIEW.
Search(t) ==
  /\ On(t, "search")
  /\ Jump(t, IF CheckSection = {} THEN "sleep" ELSE "final")
  /\ LET prey == {p \in CheckSection : MonType = "agro" /\ Agro(p)} IN
       IF prey = {} THEN UNCHANGED <<mode, target>>
                    ELSE target' \in prey /\ mode' = "chase"
  /\ UNCHANGED <<active, die, hp, range, timer, ppc, players>>

Sleep(t) ==
  /\ On(t, "sleep")
  /\ active' = FALSE
  /\ Jump(t, "final")
  /\ UNCHANGED <<die, hp, mode, target, range, timer, ppc, players>>

\* The last test of Update, and the next link of the chain.
UpdateTestAgain(t) ==
  /\ On(t, "final")
  /\ Jump(t, IF active THEN "push" ELSE "wait")
  /\ UNCHANGED <<npc, range, timer, ppc, players>>

UpdatePush(t) ==
  /\ On(t, "push")
  /\ moves' = moves + 1
  /\ Jump(t, "wait")
  /\ UNCHANGED <<npc, range, respawns, ppc, players>>

-----------------------------------------------------------------------------
(* A respawn event on an IOCP thread: CNetworkMgr::MonsterRespawn.         *)

TakeRespawn(t) ==
  /\ On(t, "wait")
  /\ respawns > 0
  /\ respawns' = respawns - 1
  /\ Jump(t, "rsDie")
  /\ UNCHANGED <<npc, range, moves, ppc, players>>

RespawnDie(t) ==
  /\ On(t, "rsDie")
  /\ die' = FALSE
  /\ Jump(t, "rsHp")
  /\ UNCHANGED <<active, hp, mode, target, range, timer, ppc, players>>

RespawnHp(t) ==
  /\ On(t, "rsHp")
  /\ hp' = MaxHp
  /\ Jump(t, "rsPos")
  /\ UNCHANGED <<active, die, mode, target, range, timer, ppc, players>>

\* SetPos to where the monster belongs.
RespawnPos(t) ==
  /\ On(t, "rsPos")
  /\ range' \in [Players -> Adjacent..Far]
  /\ Jump(t, "rsPush")
  /\ UNCHANGED <<npc, timer, ppc, players>>

RespawnPush(t) ==
  /\ On(t, "rsPush")
  /\ moves' = moves + 1
  /\ Jump(t, "wait")
  /\ UNCHANGED <<npc, range, respawns, ppc, players>>

-----------------------------------------------------------------------------
\* What a player or his client starts, and what then goes on by itself.
Begin(p) == Login(p) \/ Move(p) \/ TakeBlow(p) \/ Logout(p) \/ Hit(p)

WakeUp(p) == WakeTestActive(p) \/ WakeTestDie(p) \/ WakeSet(p) \/ WakePush(p)

Damaged(p) ==
  \/ HitTestActive(p) \/ HitTestDie(p)
  \/ \E power \in Powers : HitHp(p, power)
  \/ KillDie(p) \/ KillEvent(p)

Continue(p) == WakeUp(p) \/ Damaged(p) \/ Enter(p)

Act(t) ==
  Attack(t) \/ GiveUp(t) \/ Chase(t) \/ Blocked(t) \/ RandomMove(t) \/ NoMode(t)

Update(t) ==
  \/ UpdateTestDie(t) \/ UpdateTestActive(t)
  \/ Act(t)
  \/ Look(t) \/ Search(t) \/ Sleep(t)
  \/ UpdateTestAgain(t) \/ UpdatePush(t)

MonsterRespawn(t) == RespawnDie(t) \/ RespawnHp(t) \/ RespawnPos(t) \/ RespawnPush(t)

Next ==
  \/ \E p \in Players : Begin(p) \/ Continue(p)
  \/ \E t \in IocpThreads :
       TakeMove(t) \/ TakeRespawn(t) \/ Update(t) \/ MonsterRespawn(t)

Spec == Init /\ [][Next]_vars

\* Every thread runs; events are delivered (TimerDispatch); and rand() finds a free
\* tile in the end.
Fairness ==
  /\ \A p \in Players : WF_vars(Continue(p))
  /\ \A t \in IocpThreads : WF_vars(Update(t) \/ MonsterRespawn(t))
  /\ SF_vars(\E t \in IocpThreads : TakeMove(t))
  /\ SF_vars(\E t \in IocpThreads : TakeRespawn(t))
  /\ SF_vars(\E t \in IocpThreads : RandomMove(t))

FairSpec == Spec /\ Fairness

-----------------------------------------------------------------------------
(* Properties.                                                             *)

\* A monster that is awake and alive has something that will move it: an event, a
\* thread that moves it and will register the next, or one that is about to
\* register the first.  Otherwise it would stand still for ever: WakeUp does
\* nothing for a monster that is awake.
NeverStuck ==
  active /\ ~die =>
    \/ moves > 0
    \/ \E t \in IocpThreads : ipc[t] \in UpdatePlaces \cup (RespawnPlaces \ {"rsDie"})
    \/ \E p \in Players : ppc[p] = "wakePush"

\* A dead monster comes back: its respawn is registered, or being carried out, or
\* its killer is about to register it, whoever else killed it meanwhile.
DeadRespawns ==
  die =>
    \/ respawns > 0
    \/ \E t \in IocpThreads : ipc[t] = "rsDie"
    \/ \E p \in Players : ppc[p] = "killEvent"

\* A monster that is not dead has health left, unless somebody is about to mark it
\* dead or to heal it.
NoWalkingDead ==
  ~die =>
    \/ hp > 0
    \/ \E p \in Players : ppc[p] = "killDie"
    \/ \E t \in IocpThreads : ipc[t] = "rsHp"

\* A dead monster is alive again some time.
Respawns == die ~> ~die

\* A monster that nobody in the grid sees any more goes to sleep and stays asleep,
\* and all its events run out, however many chains of them there are; unless its
\* m_state is none of the three, when nothing it does ends in CheckSection.
Unwatched == CheckSection = {} /\ mode # "garbage"
SleepsUnwatched == <>[]Unwatched => <>[](~active /\ moves = 0)
=============================================================================
