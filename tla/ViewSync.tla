------------------------------ MODULE ViewSync ------------------------------
(***************************************************************************)
(* Who sees whom: positions, the grid of sections, the view list of every  *)
(* player and what his client shows.  A player logs in (LoginPacket),      *)
(* walks (CClient::Move), is sent home when he dies (CClient::Damaged),    *)
(* kills a monster (CNpc::Damaged) and logs out (CClient::Logout).  Each   *)
(* of these changes his own list at once and the lists of others through   *)
(* jobs that their sessions run later; a kill changes them on the spot.    *)
(* What monsters do themselves is in MonsterViews, which extends this.     *)
(*                                                                         *)
(* Every operation of a player is a job of his session, so his operations  *)
(* run one at a time, and what is posted to him runs in the order in which *)
(* it is posted (SessionJobs); the packets of his client may be anywhere   *)
(* in that order.  A step is one access to state that others use: while    *)
(* one player looks around, the others go on.  Packets to a client arrive  *)
(* in the order in which they are sent, so what it shows is given as of    *)
(* the last packet sent.                                                   *)
(***************************************************************************)
EXTENDS Integers, Sequences

CONSTANTS
  Players,    \* player objects
  Monsters,   \* monsters
  Twins,      \* further threads, which handle an event of a monster while one does
  Of,         \* the monster of a twin
  Width,      \* W_WIDTH
  Height,     \* W_HEIGHT
  ViewRange,  \* VIEW_RANGE
  Ground,     \* the tiles on which one can walk ('G' and 'D')
  Spawn,      \* where a login puts a player
  Home,       \* where a dead player finds himself
  Seats,      \* where those stand who are in game from the start
  Dens,       \* where monsters are put at the start, and respawn
  Casts,      \* bound of the model: who may take part, with how many steps and kills
  Nowhere,    \* the position of what a client does not show
  Nobody      \* no monster

Objects == Players \cup Monsters

\* The workers and IOCP threads: the one that runs the jobs of a player or handles an
\* event of a monster has the name of the player or monster, unless it is a twin.
Actors == Objects \cup Twins
Handlers(m) == {m} \cup {t \in Twins : Of[t] = m}

Positions == (0..(Width - 1)) \X (0..(Height - 1))
SectionSize == ViewRange * 2
SectionNum == Width \div SectionSize + 1
Sections == (0..(SectionNum - 1)) \X (0..(SectionNum - 1))
SectionOf(at) == <<at[1] \div SectionSize, at[2] \div SectionSize>>

Within(a, b, d) == a - b <= d /\ b - a <= d
Near(at, bt) == Within(at[1], bt[1], ViewRange) /\ Within(at[2], bt[2], ViewRange)

ASSUME SizeAssumption ==
  /\ Width \in Nat \ {0} /\ Height \in Nat \ {0} /\ ViewRange \in Nat \ {0}
  /\ Height <= Width
ASSUME PlaceAssumption ==
  /\ Ground \subseteq Positions /\ Spawn \in Positions /\ Home \in Positions
  /\ Nowhere \notin Positions
ASSUME SeatAssumption ==
  /\ DOMAIN Seats \subseteq Players /\ \A p \in DOMAIN Seats : Seats[p] \in Positions
  /\ \A p, q \in DOMAIN Seats : p # q => ~Near(Seats[p], Seats[q])
ASSUME ObjectAssumption == Players \cap Monsters = {} /\ Dens \in [Monsters -> Positions]
ASSUME TwinAssumption == Twins \cap Objects = {} /\ Of \in [Twins -> Monsters]
ASSUME NobodyAssumption == Nobody \notin Objects
ASSUME BoundAssumption ==
  /\ DOMAIN Casts \subseteq SUBSET Objects /\ \A c \in DOMAIN Casts : Casts[c] \in Nat

\* GameUtil::CanMove: the last row and the last column are never entered.
CanMove(at) ==
  /\ at[1] >= 0 /\ at[1] < Width - 1 /\ at[2] >= 0 /\ at[2] < Height - 1
  /\ at \in Ground

Neighbours(at) ==
  {<<at[1], at[2] - 1>>, <<at[1], at[2] + 1>>, <<at[1] - 1, at[2]>>, <<at[1] + 1, at[2]>>}

VARIABLES
  pos,      \* m_PosX, m_PosY
  st,       \* m_State: out (not logged in), ingame, gone (logged out)
  sect,     \* m_sectionX, m_sectionY
  grid,     \* GameUtil::sections: the objects listed in a section
  view,     \* m_viewList
  shown,    \* where the client of a player shows an object, or Nowhere
  jobs,     \* the view jobs posted to a player
  cast,     \* the objects of this instance
  awake,    \* monsters with m_active
  life,     \* alive; down: no health left; dead: m_die as well
  due,      \* respawn events registered
  links,    \* EV_RANDOM_MOVE events registered
  doubled,  \* history: monsters on which two threads were at work at once
  prey,     \* the monster that a player is killing, or Nobody
  phase,    \* where the job of a player, or the handler of a monster's event, is
  dying,    \* players whose job is a death and not a step
  goal,     \* x and y of a monster's step, or Nowhere
  script,   \* what is left of the current turn of a loop, one access each
  visit,    \* sections CheckSection has yet to read, of the actor or of a monster that
            \* it wakes
  todo,     \* the rest of the set that the current loop goes through
  new,      \* newView
  old,      \* oldView; for a monster old is history: its list when it last looked
            \* around, if it has been awake since
  moves,    \* steps, deaths and kills left
  later,    \* history: <<p, q>>: q took his place after p took his
  missed,   \* history: pairs of which one took a place during the other's login or
            \* respawn, or before the other fell asleep without having seen it
  crossed,  \* history: <<p, q>>: two threads were changing at once what p sees of q
  hollow,   \* history: <<p, m>>: m was put into the list of p while it had no health
  steady    \* history: who has not stirred since the object began to look around

world == <<pos, st, sect, grid>>
lair == <<cast, awake, life, due, prey, links, doubled, goal>>
local == <<phase, dying, script, visit, todo, old, new>>
history == <<later, missed, crossed, hollow, steady>>
vars == <<world, view, shown, jobs, lair, local, moves, history>>

Phases == {"idle", "enter", "greet", "register", "leave", "arrive", "check",
           "look", "tell", "drop", "kill", "mourn", "bury", "bye"}
MonsterPhases == {"idle", "step", "leave", "arrive", "check", "look", "post", "part", "next",
                  "rise", "return", "appear"}
JobKinds == {"see", "seeNow", "lose"}
Job == [do : JobKinds, who : Objects, at : Positions]
Waking == {"rouse", "clear", "scan", "start"}
Access == [op : JobKinds \cup Waking \cup {"meet", "wake", "insert", "show", "erase", "hide"},
           of : Objects, obj : Objects]

\* Every variable has its type.
ViewTypes ==
  /\ pos \in [Objects -> Positions]
  /\ st \in [Players -> {"out", "ingame", "gone"}]
  /\ sect \in [Objects -> Sections]
  /\ grid \in [Sections -> SUBSET Objects]
  /\ view \in [Objects -> SUBSET Objects]
  /\ shown \in [Players -> [Objects -> Positions \cup {Nowhere}]]
  /\ jobs \in [Players -> Seq(Job)]
  /\ cast \in DOMAIN Casts
  /\ awake \subseteq Monsters
  /\ life \in [Monsters -> {"alive", "down", "dead"}]
  /\ due \in [Monsters -> Nat]
  /\ prey \in [Players -> Monsters \cup {Nobody}]
  /\ links \in [Monsters -> Nat]
  /\ doubled \subseteq Monsters
  /\ goal \in [Actors -> Positions \cup {Nowhere}]
  /\ phase \in [Actors -> Phases \cup MonsterPhases]
  /\ dying \subseteq Players
  /\ script \in [Actors -> Seq(Access)]
  /\ visit \in [Actors -> SUBSET Sections]
  /\ todo \in [Actors -> SUBSET Objects]
  /\ old \in [Objects -> SUBSET Objects]
  /\ new \in [Actors -> SUBSET Objects]
  /\ moves \in Nat
  /\ later \subseteq Objects \X Objects
  /\ missed \subseteq Objects \X Objects
  /\ crossed \subseteq Players \X Objects
  /\ hollow \subseteq Players \X Monsters
  /\ steady \in [Objects -> SUBSET Objects]

\* PlayerAccept leaves a player at (0, 0); API_Initialize gives a monster its place
\* and its section.
Start(o) == CASE o \in DOMAIN Seats -> Seats[o]
              [] o \in Monsters -> Dens[o]
              [] OTHER -> <<0, 0>>

\* Those in the grid at the start, and who sees whom: monsters are awake where a
\* player is near.
Placed == cast \cap (DOMAIN Seats \cup Monsters)
Sees(o) == {q \in Placed : {o, q} \cap Players # {} /\ {o, q} \cap Monsters # {}
                             /\ Near(Start(o), Start(q))}

ViewInit ==
  /\ cast \in DOMAIN Casts
  /\ pos = [o \in Objects |-> Start(o)]
  /\ st = [p \in Players |-> IF p \in DOMAIN Seats \cap cast THEN "ingame" ELSE "out"]
  /\ sect = [o \in Objects |-> SectionOf(Start(o))]
  /\ grid = [s \in Sections |->
               {o \in Placed : SectionOf(Start(o)) = s}]
  /\ view = [o \in Objects |-> IF o \in Placed THEN Sees(o) ELSE {}]
  /\ shown = [p \in Players |-> [o \in Objects |-> IF o \in view[p] THEN pos[o] ELSE Nowhere]]
  /\ jobs = [p \in Players |-> <<>>]
  /\ awake = {m \in Monsters : view[m] # {}}
  /\ life = [m \in Monsters |-> "alive"]
  /\ due = [m \in Monsters |-> 0]
  /\ prey = [p \in Players |-> Nobody]
  /\ links = [m \in Monsters |-> IF m \in awake THEN 1 ELSE 0]
  /\ doubled = {}
  /\ goal = [t \in Actors |-> Nowhere]
  /\ phase = [t \in Actors |-> "idle"]
  /\ dying = {}
  /\ script = [t \in Actors |-> <<>>]
  /\ visit = [t \in Actors |-> {}]
  /\ todo = [t \in Actors |-> {}]
  /\ old = [o \in Objects |-> {}]
  /\ new = [t \in Actors |-> {}]
  /\ moves = Casts[cast]
  /\ later = {} /\ missed = {} /\ crossed = {} /\ hollow = {}
  /\ steady = [o \in Objects |-> {}]
-----------------------------------------------------------------------------
\* A column or row of sections with those beside it that exist.
Reach(i) ==
  {i} \cup (IF i <= SectionNum - 2 THEN {i + 1} ELSE {})
      \cup (IF i >= 1 THEN {i - 1} ELSE {})

\* A fault, used by a mutation run only: the four sections at the corners are forgotten.
AroundStraight(s) == {t \in Reach(s[1]) \X Reach(s[2]) : t[1] = s[1] \/ t[2] = s[2]}

\* The sections CheckSection reads.
Around(s) == Reach(s[1]) \X Reach(s[2])

\* The order in which CheckSection reads those around s.
Turn(s, t) ==
  LET column == IF t[1] = s[1] THEN 0 ELSE IF t[1] > s[1] THEN 1 ELSE 2
      row == IF t[2] = s[2] THEN 0 ELSE IF t[2] > s[2] THEN 1 ELSE 2
  IN  IF column = 0 /\ row # 0 THEN 8 + row ELSE 3 * column + row

\* What CNpc::CheckSection finds in one section.
Watchers(m, s) == {p \in grid[s] \cap Players : Near(pos[m], pos[p])}
-----------------------------------------------------------------------------
(* Accesses to what belongs to others: one per step, at the head of script. *)

Op(op, of, obj) == [op |-> op, of |-> of, obj |-> obj]

\* AddObjectToView of player p: the list, then the packet.
AddObjectToView(p, q) == <<Op("insert", p, q), Op("show", p, q)>>

\* Somebody other than p has changed view[o] and has not told the client of o yet.
Crossing(p, o, x) ==
  \E t \in Actors \ {p} :
    /\ script[t] # <<>>
    /\ Head(script[t]) \in {Op("show", o, x), Op("hide", o, x)}

Cross(p, o, x) ==
  crossed' = IF Crossing(p, o, x) THEN crossed \cup {<<o, x>>} ELSE crossed

\* Of a monster without health the client is told nothing.
Healthy(o) == o \in Monsters => life[o] = "alive"

\* A player in view has a job posted, a monster is woken.
Notice(p, q) ==
  IF q \in Monsters THEN Op("wake", q, p)
  ELSE Op(IF p \in dying THEN "seeNow" ELSE "see", q, p)

Rest(p, s) == script' = [script EXCEPT ![p] = s]

\* a is the access that p makes, rest what is left of its script after that.
Enqueue(p, a, rest) ==
  /\ a.op \in JobKinds
  /\ jobs' = [jobs EXCEPT ![a.of] =
       Append(@, [do |-> a.op, who |-> a.obj, at |-> pos[a.obj]])]
  /\ Rest(p, rest)
  /\ UNCHANGED <<view, shown, awake, links, doubled, visit, crossed, hollow>>

Meet(p, a, rest) ==
  /\ a.op = "meet"
  /\ Rest(p, (IF st[a.of] = "ingame"
                THEN AddObjectToView(a.of, a.obj) \o AddObjectToView(a.obj, a.of)
                ELSE <<>>) \o rest)
  /\ UNCHANGED <<view, shown, jobs, awake, links, doubled, visit, crossed, hollow>>

\* t handles an event of the monster, or is waking it.
AtWork(t, m) ==
  \/ t \in Handlers(m) /\ phase[t] # "idle"
  \/ script[t] # <<>> /\ Head(script[t]).op \in Waking /\ Head(script[t]).of = m

Engage(m) == doubled' = IF \E t \in Actors : AtWork(t, m) THEN doubled \cup {m} ELSE doubled

\* What p does for the monster once it is to be woken.
Waken(m, p) == <<Op("rouse", m, p), Op("clear", m, p), Op("scan", m, p), Op("start", m, p)>>

\* WakeUp: the tests of m_active and m_die ...
WakeUp(p, a, rest) ==
  /\ a.op = "wake"
  /\ IF a.of \in awake \/ life[a.of] = "dead"
       THEN Rest(p, rest) /\ UNCHANGED doubled
       ELSE /\ Rest(p, Waken(a.of, a.obj) \o rest)
            /\ Engage(a.of)
  /\ UNCHANGED <<view, shown, jobs, awake, links, visit, crossed, hollow>>

\* ... m_active = true ...
Rouse(p, a, rest) ==
  /\ a.op = "rouse"
  /\ awake' = awake \cup {a.of}
  /\ Rest(p, rest)
  /\ UNCHANGED <<view, shown, jobs, links, doubled, visit, crossed, hollow>>

\* ... the list is cleared ...
Clear(p, a, rest) ==
  /\ a.op = "clear"
  /\ view' = [view EXCEPT ![a.of] = {}]
  /\ visit' = [visit EXCEPT ![p] = Around(sect[a.of])]
  /\ Rest(p, rest)
  /\ UNCHANGED <<shown, jobs, awake, links, doubled, crossed, hollow>>

\* ... and filled, one section after the other ...
Scan(p, a, rest) ==
  /\ a.op = "scan"
  /\ \/ /\ visit[p] = {}
        /\ Rest(p, rest)
        /\ UNCHANGED <<view, visit>>
     \/ \E s \in visit[p] :
          /\ \A u \in visit[p] : Turn(sect[a.of], s) <= Turn(sect[a.of], u)
          /\ view' = [view EXCEPT ![a.of] = @ \cup Watchers(a.of, s)]
          /\ visit' = [visit EXCEPT ![p] = @ \ {s}]
          /\ UNCHANGED script
  /\ UNCHANGED <<shown, jobs, awake, links, doubled, crossed, hollow>>

\* ... and the first event is registered.
Begin(p, a, rest) ==
  /\ a.op = "start"
  /\ links' = [links EXCEPT ![a.of] = @ + 1]
  /\ Rest(p, rest)
  /\ UNCHANGED <<view, shown, jobs, awake, doubled, visit, crossed, hollow>>

Insert(p, a, rest) ==
  /\ a.op = "insert"
  /\ view' = [view EXCEPT ![a.of] = @ \cup {a.obj}]
  /\ Cross(p, a.of, a.obj)
  /\ Rest(p, rest)
  /\ UNCHANGED <<shown, jobs, awake, links, doubled, visit, hollow>>

\* The client is told only if there was something to erase.
Erase(p, a, rest) ==
  /\ a.op = "erase"
  /\ view' = [view EXCEPT ![a.of] = @ \ {a.obj}]
  /\ IF a.obj \in view[a.of]
       THEN Rest(p, rest) /\ Cross(p, a.of, a.obj)
       ELSE Rest(p, Tail(rest)) /\ UNCHANGED crossed
  /\ UNCHANGED <<shown, jobs, awake, links, doubled, visit, hollow>>

Show(p, a, rest) ==
  /\ a.op = "show"
  /\ IF Healthy(a.obj)
       THEN /\ shown' = [shown EXCEPT ![a.of][a.obj] = pos[a.obj]]
            /\ hollow' = hollow \ {<<a.of, a.obj>>}
       ELSE hollow' = hollow \cup {<<a.of, a.obj>>} /\ UNCHANGED shown
  /\ Rest(p, rest)
  /\ UNCHANGED <<view, jobs, awake, links, doubled, visit, crossed>>

Hide(p, a, rest) ==
  /\ a.op = "hide"
  /\ shown' = [shown EXCEPT ![a.of][a.obj] = Nowhere]
  /\ hollow' = hollow \ {<<a.of, a.obj>>}
  /\ Rest(p, rest)
  /\ UNCHANGED <<view, jobs, awake, links, doubled, visit, crossed>>

Execute(p) ==
  LET a == Head(script[p])
      rest == Tail(script[p])
  IN  /\ script[p] # <<>>
      /\ \/ Enqueue(p, a, rest) \/ Meet(p, a, rest)
         \/ WakeUp(p, a, rest) \/ Rouse(p, a, rest) \/ Clear(p, a, rest)
         \/ Scan(p, a, rest) \/ Begin(p, a, rest)
         \/ Insert(p, a, rest) \/ Erase(p, a, rest) \/ Show(p, a, rest) \/ Hide(p, a, rest)
      /\ UNCHANGED <<world, cast, life, due, prey, goal, phase, dying, todo, old, new,
                     moves, later, missed, steady>>

At(p, ph) == phase[p] = ph /\ script[p] = <<>>
Goto(p, ph) == phase' = [phase EXCEPT ![p] = ph]
-----------------------------------------------------------------------------
(* History: o takes its place.                                             *)

Settling == {o \in Objects : phase[o] \in {"enter", "greet", "register", "appear"}}
Busy(o) == {q \in Objects : \/ phase[q] # "idle" \/ script[q] # <<>>
                            \/ q \in Players /\ \E i \in 1..Len(jobs[q]) : jobs[q][i].who = o}

TakePlace(o, beside) ==
  /\ later' = (later \ {<<o, q>> : q \in Objects}) \cup {<<q, o>> : q \in cast \ {o}}
  /\ missed' = {m \in missed : o \notin {m[1], m[2]}}
                 \cup {<<o, q>> : q \in beside \ {o}}
  /\ steady' = [q \in Objects |-> steady[q] \ {o}]
-----------------------------------------------------------------------------
(* Faults: one plausible mistake each; used by the mutation runs only.     *)

\* The packet goes out before the list is changed.
RemoveObjectHidesFirst(p, q) == <<Op("hide", p, q), Op("erase", p, q)>>

\* The new section is not noted in m_sectionX and m_sectionY.
ArriveUnnoted(p) ==
  /\ At(p, "arrive")
  /\ grid' = [grid EXCEPT ![SectionOf(pos[p])] = @ \cup {p}]
  /\ Goto(p, "check")
  /\ TakePlace(p, Settling)
  /\ UNCHANGED <<pos, st, sect, view, shown, jobs, lair, dying, script, visit, todo, old, new,
                 moves, crossed, hollow>>

\* Nothing is posted to those who have just come into view.
TellOnly(p) ==
  /\ At(p, "tell")
  /\ \E q \in todo[p] :
       /\ todo' = [todo EXCEPT ![p] = @ \ {q}]
       /\ Rest(p, IF q \in old[p] THEN <<Notice(p, q)>> ELSE AddObjectToView(p, q))
  /\ UNCHANGED <<world, view, shown, jobs, lair, phase, dying, visit, old, new, moves, history>>

\* A monster that is in the list already is not woken again.
TellNewMonsters(p) ==
  /\ At(p, "tell")
  /\ \E q \in todo[p] :
       /\ todo' = [todo EXCEPT ![p] = @ \ {q}]
       /\ Rest(p, IF q \notin old[p] THEN <<Notice(p, q)>> \o AddObjectToView(p, q)
                  ELSE IF q \in Players THEN <<Notice(p, q)>> ELSE <<>>)
  /\ UNCHANGED <<world, view, shown, jobs, lair, phase, dying, visit, old, new, moves, history>>
-----------------------------------------------------------------------------
(* LoginPacket: the newcomer enters the grid last.                         *)

Login(p) ==
  /\ At(p, "idle") /\ st[p] = "out" /\ p \in cast
  /\ pos' = [pos EXCEPT ![p] = Spawn]
  /\ Goto(p, "enter")
  /\ TakePlace(p, Busy(p))
  /\ UNCHANGED <<st, sect, grid, view, shown, jobs, lair, dying, script, visit, todo, old, new,
                 moves, crossed, hollow>>

Enter(p) ==
  /\ At(p, "enter")
  /\ st' = [st EXCEPT ![p] = "ingame"]
  /\ todo' = [todo EXCEPT ![p] = cast \ {p}]
  /\ Goto(p, "greet")
  /\ UNCHANGED <<pos, sect, grid, view, shown, jobs, lair, dying, script, visit, old, new,
                 moves, history>>

Greet(p) ==
  /\ At(p, "greet")
  /\ \E q \in todo[p] :
       /\ todo' = [todo EXCEPT ![p] = @ \ {q}]
       /\ Rest(p, IF ~Near(pos[p], pos[q]) THEN <<>>
                  ELSE IF q \in Players THEN <<Op("meet", q, p)>>
                  ELSE <<Op("wake", q, p)>> \o AddObjectToView(p, q))
  /\ UNCHANGED <<world, view, shown, jobs, lair, phase, dying, visit, old, new, moves, history>>

Greeted(p) ==
  /\ At(p, "greet") /\ todo[p] = {}
  /\ sect' = [sect EXCEPT ![p] = SectionOf(pos[p])]
  /\ Goto(p, "register")
  /\ UNCHANGED <<pos, st, grid, view, shown, jobs, lair, dying, script, visit, todo, old, new,
                 moves, history>>

Register(p) ==
  /\ At(p, "register")
  /\ grid' = [grid EXCEPT ![sect[p]] = @ \cup {p}]
  /\ Goto(p, "idle")
  /\ UNCHANGED <<pos, st, sect, view, shown, jobs, lair, dying, script, visit, todo, old, new,
                 moves, history>>
-----------------------------------------------------------------------------
(* Move and the death of Damaged.                                          *)

\* RemoveObjectFromView of player p.
RemoveObjectFromView(p, q) == <<Op("erase", p, q), Op("hide", p, q)>>

\* A place in the same section is taken by SetPos alone.
Stand(p, at) ==
  /\ pos' = [pos EXCEPT ![p] = at]
  /\ Goto(p, IF SectionOf(at) = sect[p] THEN "check" ELSE "leave")
  /\ moves > 0 /\ moves' = moves - 1
  /\ TakePlace(p, Settling)
  /\ UNCHANGED <<st, sect, grid, view, shown, jobs, lair, script, visit, todo, old, new, crossed, hollow>>

\* What is behind a logout in the same visit still runs.
Ready(p) == At(p, "idle") /\ st[p] # "out"

Move(p) ==
  /\ Ready(p)
  /\ \E at \in Neighbours(pos[p]) : CanMove(at) /\ Stand(p, at)
  /\ dying' = dying \ {p}

Die(p) ==
  /\ Ready(p)
  /\ Stand(p, Home)
  /\ dying' = dying \cup {p}

\* RegisterToSection, by thread t for object o.
Leave(t, o) ==
  /\ At(t, "leave")
  /\ grid' = [grid EXCEPT ![sect[o]] = @ \ {o}]
  /\ Goto(t, "arrive")
  /\ UNCHANGED <<pos, st, sect, view, shown, jobs, lair, dying, script, visit, todo, old, new,
                 moves, history>>

Arrive(p) ==
  /\ At(p, "arrive")
  /\ grid' = [grid EXCEPT ![SectionOf(pos[p])] = @ \cup {p}]
  /\ sect' = [sect EXCEPT ![p] = SectionOf(pos[p])]
  /\ Goto(p, "check")
  /\ TakePlace(p, Settling)
  /\ UNCHANGED <<pos, st, view, shown, jobs, lair, dying, script, visit, todo, old, new,
                 moves, crossed, hollow>>

\* In the grid, where it stands.
Registered(o) ==
  /\ phase[o] \notin {"enter", "greet", "register", "leave", "arrive"}
  /\ o \in Players => st[o] # "out"
  /\ SectionOf(pos[o]) = sect[o]

\* CheckSection, by thread t for object o.
Check(t, o) ==
  /\ At(t, "check")
  /\ old' = [old EXCEPT ![o] = view[o]]
  /\ new' = [new EXCEPT ![t] = {}]
  /\ visit' = [visit EXCEPT ![t] = Around(sect[o])]
  /\ steady' = [steady EXCEPT ![o] = {q \in cast \ {o} : Registered(q)}]
  /\ Goto(t, "look")
  /\ UNCHANGED <<world, view, shown, jobs, lair, dying, script, todo, moves, later, missed, crossed, hollow>>

\* GetSectionObjects copies one section under its lock.
Visit(t, o) ==
  /\ At(t, "look") /\ todo[t] = {}
  /\ \E s \in visit[t] :
       /\ \A u \in visit[t] : Turn(sect[o], s) <= Turn(sect[o], u)
       /\ visit' = [visit EXCEPT ![t] = @ \ {s}]
       /\ todo' = [todo EXCEPT ![t] = IF o \in Players THEN grid[s] \ {o} ELSE grid[s] \cap Players]
  /\ UNCHANGED <<world, view, shown, jobs, lair, phase, dying, script, old, new, moves, history>>

Look(t, o) ==
  /\ At(t, "look")
  /\ \E q \in todo[t] :
       /\ todo' = [todo EXCEPT ![t] = @ \ {q}]
       /\ new' = [new EXCEPT ![t] = IF Near(pos[o], pos[q]) THEN @ \cup {q} ELSE @]
  /\ UNCHANGED <<world, view, shown, jobs, lair, phase, dying, script, visit, old, moves, history>>

Looked(p) ==
  /\ At(p, "look") /\ todo[p] = {} /\ visit[p] = {}
  /\ todo' = [todo EXCEPT ![p] = new[p]]
  /\ Goto(p, "tell")
  /\ UNCHANGED <<world, view, shown, jobs, lair, dying, script, visit, old, new, moves, history>>

\* Whoever is in view is told, and is added if he was not.
Tell(p) ==
  /\ At(p, "tell")
  /\ \E q \in todo[p] :
       /\ todo' = [todo EXCEPT ![p] = @ \ {q}]
       /\ Rest(p, <<Notice(p, q)>> \o (IF q \in old[p] THEN <<>> ELSE AddObjectToView(p, q)))
  /\ UNCHANGED <<world, view, shown, jobs, lair, phase, dying, visit, old, new, moves, history>>

Told(p) ==
  /\ At(p, "tell") /\ todo[p] = {}
  /\ todo' = [todo EXCEPT ![p] = old[p] \ new[p]]
  /\ Goto(p, "drop")
  /\ UNCHANGED <<world, view, shown, jobs, lair, dying, script, visit, old, new, moves, history>>

\* Whoever is no longer in view is removed, and is told to do the same.
Drop(p) ==
  /\ At(p, "drop")
  /\ \E q \in todo[p] :
       /\ todo' = [todo EXCEPT ![p] = @ \ {q}]
       /\ Rest(p, RemoveObjectFromView(p, q)
                    \o (IF q \in Players THEN <<Op("lose", q, p)>> ELSE <<>>))
  /\ UNCHANGED <<world, view, shown, jobs, lair, phase, dying, visit, old, new, moves, history>>

Dropped(p) ==
  /\ At(p, "drop") /\ todo[p] = {}
  /\ Goto(p, "idle")
  /\ old' = [old EXCEPT ![p] = {}]
  /\ new' = [new EXCEPT ![p] = {}]
  /\ steady' = [steady EXCEPT ![p] = {}]
  /\ UNCHANGED <<world, view, shown, jobs, lair, dying, script, visit, todo, moves,
                 later, missed, crossed, hollow>>
-----------------------------------------------------------------------------
(* The jobs posted to a player, and his logout.                            *)

\* A move packet for something that is not shown moves it unseen.
MoveShown(p, q, at) ==
  shown' = [shown EXCEPT ![p][q] = IF @ = Nowhere THEN Nowhere ELSE at]

RunJob(p) ==
  LET j == Head(jobs[p])
  IN  /\ Ready(p) /\ jobs[p] # <<>>
      /\ jobs' = [jobs EXCEPT ![p] = Tail(@)]
      /\ \/ /\ j.do = "lose"
            /\ Rest(p, RemoveObjectFromView(p, j.who))
            /\ UNCHANGED shown
         \/ /\ j.do # "lose" /\ j.who \notin view[p]
            /\ Rest(p, AddObjectToView(p, j.who))
            /\ UNCHANGED shown
         \/ /\ j.do # "lose" /\ j.who \in view[p]
            /\ MoveShown(p, j.who, IF j.do = "see" THEN j.at ELSE pos[j.who])
            /\ UNCHANGED script
      /\ UNCHANGED <<world, view, lair, phase, dying, visit, todo, old, new, moves, history>>

Logout(p) ==
  /\ At(p, "idle") /\ st[p] = "ingame"
  /\ todo' = [todo EXCEPT ![p] = view[p] \cap Players]
  /\ Goto(p, "bye")
  /\ UNCHANGED <<world, view, shown, jobs, lair, dying, script, visit, old, new, moves, history>>

Bye(p) ==
  /\ At(p, "bye")
  /\ \E q \in todo[p] :
       /\ todo' = [todo EXCEPT ![p] = @ \ {q}]
       /\ Rest(p, <<Op("lose", q, p)>>)
  /\ UNCHANGED <<world, view, shown, jobs, lair, phase, dying, visit, old, new, moves, history>>

\* He stays in his section and keeps his list.
Gone(p) ==
  /\ At(p, "bye") /\ todo[p] = {}
  /\ st' = [st EXCEPT ![p] = "gone"]
  /\ Goto(p, "idle")
  /\ UNCHANGED <<pos, sect, grid, view, shown, jobs, lair, dying, script, visit, todo, old, new,
                 moves, history>>
-----------------------------------------------------------------------------
(* A skill kills a monster: CNpc::Damaged on the killer's thread.  (NpcLife has its *)
(* tests and the health one by one; a blow that does not kill changes no view.)     *)

Hit(p) ==
  /\ Ready(p)
  /\ \E m \in view[p] \cap awake :
       /\ Near(pos[p], pos[m]) /\ life[m] # "dead"
       /\ life' = [life EXCEPT ![m] = "down"]
       /\ prey' = [prey EXCEPT ![p] = m]
  /\ moves > 0 /\ moves' = moves - 1
  /\ Goto(p, "kill")
  /\ UNCHANGED <<world, view, shown, jobs, cast, awake, due, links, doubled, goal, dying,
                 script, visit, todo, old, new, history>>

Kill(p) ==
  /\ At(p, "kill")
  /\ life' = [life EXCEPT ![prey[p]] = "dead"]
  /\ due' = [due EXCEPT ![prey[p]] = @ + 1]
  /\ todo' = [todo EXCEPT ![p] = cast \cap Players]
  /\ Goto(p, "mourn")
  /\ UNCHANGED <<world, view, shown, jobs, cast, awake, prey, links, doubled, goal, dying,
                 script, visit, old, new, moves, history>>

\* GetClientsCanSeeNpc: everybody in game is looked at ...
Mourn(p) ==
  /\ At(p, "mourn")
  /\ \E q \in todo[p] :
       /\ todo' = [todo EXCEPT ![p] = @ \ {q}]
       /\ new' = [new EXCEPT ![p] =
                    IF st[q] = "ingame" /\ Near(pos[q], pos[prey[p]]) THEN @ \cup {q} ELSE @]
  /\ UNCHANGED <<world, view, shown, jobs, lair, phase, dying, script, visit, old, moves, history>>

Mourned(p) ==
  /\ At(p, "mourn") /\ todo[p] = {}
  /\ todo' = [todo EXCEPT ![p] = new[p]]
  /\ Goto(p, "bury")
  /\ UNCHANGED <<world, view, shown, jobs, lair, dying, script, visit, old, new, moves, history>>

\* ... and the monster is taken out of the lists of those who saw it.
Bury(p) ==
  /\ At(p, "bury")
  /\ \E q \in todo[p] :
       /\ todo' = [todo EXCEPT ![p] = @ \ {q}]
       /\ Rest(p, RemoveObjectFromView(q, prey[p]))
  /\ UNCHANGED <<world, view, shown, jobs, lair, phase, dying, visit, old, new, moves, history>>

Buried(p) ==
  /\ At(p, "bury") /\ todo[p] = {}
  /\ new' = [new EXCEPT ![p] = {}]
  /\ prey' = [prey EXCEPT ![p] = Nobody]
  /\ Goto(p, "idle")
  /\ UNCHANGED <<world, view, shown, jobs, cast, awake, life, due, links, doubled, goal,
                 dying, script, visit, todo, old, moves, history>>
-----------------------------------------------------------------------------
Entering(p) == Login(p) \/ Enter(p) \/ Greet(p) \/ Greeted(p) \/ Register(p)
Stirring(p) == Move(p) \/ Die(p) \/ Leave(p, p) \/ Arrive(p)
Checking(p) == Check(p, p) \/ Visit(p, p) \/ Look(p, p) \/ Looked(p)
Telling(p) == Tell(p) \/ Told(p) \/ Drop(p) \/ Dropped(p)
Killing(p) == Hit(p) \/ Kill(p) \/ Mourn(p) \/ Mourned(p) \/ Bury(p) \/ Buried(p)
Leaving(p) == Logout(p) \/ Bye(p) \/ Gone(p)

ViewStep(p) ==
  Execute(p) \/ Entering(p) \/ Stirring(p) \/ Checking(p) \/ Telling(p) \/ RunJob(p)
    \/ Killing(p) \/ Leaving(p)

ViewNext == \E p \in Players : ViewStep(p)
-----------------------------------------------------------------------------
(* Properties.                                                             *)

\* Whoever has entered is listed in one section only: a player, in game or logged out,
\* where he stands, except while he changes sections and before his login is through;
\* a monster where its last step led, unless two threads have handled it at once.
GridTracks ==
  \A o \in cast \ doubled :
    {s \in Sections : o \in grid[s]} =
      IF \/ phase[o] \in {"arrive", "enter", "greet", "register"}
         \/ o \in Players /\ st[o] = "out"
        THEN {}
        ELSE {IF o \in Players /\ phase[o] # "leave" THEN SectionOf(pos[o]) ELSE sect[o]}

\* Looking around misses nobody and invents nobody among those who kept still
\* meanwhile, wherever the borders of sections and of the world are; for monsters on
\* which two threads have been at work nothing is said.
CheckExact ==
  \A o \in cast \ doubled : phase[o] \in {"tell", "drop", "post", "part"} =>
    \A q \in steady[o] \ doubled :
      q \in new[o] <=> (Near(pos[o], pos[q]) /\ (o \in Monsters => q \in Players))

\* Neither is doing anything, nor is a kill, and nobody has been asked to do anything
\* about the other.
Quiet(p, q) ==
  /\ \A t \in {p, q} : At(t, "idle")
  /\ \A t \in Players : prey[t] \notin {p, q}
  /\ \A t \in {p, q} \cap Players : \A i \in 1..Len(jobs[t]) : jobs[t][i].who \notin {p, q}

Missed(p, q) == <<p, q>> \in missed \/ <<q, p>> \in missed

Pending(p, q) ==
  \E t \in Actors : \E i \in 1..Len(script[t]) : script[t][i] \in {Op("show", p, q), Op("hide", p, q)}

\* A client shows exactly the list of its player, except when another thread (a
\* login, a kill, a respawn) changed the list in the middle of a change, and except
\* for what was put into the list when it had no health.
ClientFollows ==
  \A p \in Players \cap cast, q \in cast :
    \/ shown[p][q] # Nowhere <=> q \in view[p]
    \/ <<p, q>> \in crossed \cup hollow
    \/ Pending(p, q)

\* Once nothing is under way between two neighbours, the one who came last is in
\* the list of the other, and the other's client shows him where he stands,
\* whatever overlapped; except when he came while the other was logging in or is a
\* monster that two threads have handled at once, and on a client whose list two
\* threads were changing at once.
LastComerSeen ==
  \A p \in Players \cap cast, q \in cast \ doubled :
    /\ <<p, q>> \in later /\ st[p] = "ingame"
    /\ q \in Players => st[q] = "ingame"
    /\ q \in Monsters => life[q] = "alive"
    /\ Quiet(p, q) /\ Near(pos[p], pos[q]) /\ ~Missed(p, q)
    => q \in view[p] /\ (<<p, q>> \in crossed \cup hollow \/ shown[p][q] = pos[q])
=============================================================================
