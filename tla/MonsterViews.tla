---------------------------- MODULE MonsterViews ----------------------------
(***************************************************************************)
(* What monsters do to the views of ViewSync: a monster that is awake      *)
(* walks (RandomMove and Chase of CNpc), looks around, falls asleep when   *)
(* it sees nobody, and posts jobs to the players it sees or saw            *)
(* (ViewListUpdate).  A dead one respawns (MonsterRespawn of CNetworkMgr)  *)
(* where it was put at the start, and enters the lists of players itself.  *)
(*                                                                         *)
(* A monster has one chain of events, each step registering the next, but  *)
(* two wakers, a waker and a handler, or a respawn may start another       *)
(* (NpcLife); its events are then handled by several threads at once, by a *)
(* twin while the thread that has its name is busy.  What holds of a       *)
(* monster is lost with that (doubled).  A respawn (30 s after the kill)   *)
(* finds the killers done.                                                 *)
(***************************************************************************)
EXTENDS ViewSync

(* Faults: used by the mutation runs only.                                 *)

\* The list is replaced before it is compared with the new one.
PostedLate(t, m) ==
  /\ At(t, "post") /\ todo[t] = {}
  /\ view' = [view EXCEPT ![m] = new[t]]
  /\ todo' = [todo EXCEPT ![t] = view'[m] \ new[t]]
  /\ Goto(t, "part")
  /\ UNCHANGED <<world, shown, jobs, lair, dying, script, visit, old, new, moves, history>>
-----------------------------------------------------------------------------
(* Update of monster m, by thread t.                                       *)

\* An event of the monster is taken up: by a twin if another one is being handled.
Free(t, m) == At(t, "idle") /\ (t # m => phase[m] # "idle")

\* The tests of m_die and m_active, and the choice of a step; a step that is refused,
\* an attack, or a target out of sight ends the update.
Update(t, m) ==
  /\ Free(t, m)
  /\ links[m] > 0 /\ links' = [links EXCEPT ![m] = @ - 1]
  /\ \/ /\ m \notin awake \/ life[m] = "dead"
        /\ UNCHANGED <<phase, goal, doubled, moves>>
     \/ /\ m \in awake /\ life[m] # "dead"
        /\ Engage(m)
        /\ \/ Goto(t, "next") /\ UNCHANGED <<goal, moves>>
           \/ /\ Goto(t, "step")
              /\ moves > 0 /\ moves' = moves - 1
              /\ \E at \in {a \in Neighbours(pos[m]) : CanMove(a)} \cup {Nowhere} :
                   goal' = [goal EXCEPT ![t] = at]
  /\ UNCHANGED <<world, view, shown, jobs, cast, awake, life, due, prey, dying, script, visit,
                 todo, old, new, history>>

\* SetPos; Chase looks around even when the step it chose is refused.  A place in the
\* same section is taken by that alone.
Walk(t, m) ==
  /\ At(t, "step")
  /\ LET at == IF goal[t] = Nowhere THEN pos[m] ELSE goal[t]
         stays == SectionOf(at) = sect[m]
     IN  /\ pos' = [pos EXCEPT ![m] = at]
         /\ goal' = [goal EXCEPT ![t] = IF stays THEN Nowhere ELSE at]
         /\ Goto(t, IF stays THEN "check" ELSE "leave")
  /\ TakePlace(m, Settling)
  /\ UNCHANGED <<st, sect, grid, view, shown, jobs, cast, awake, life, due, prey, links, doubled,
                 dying, script, visit, todo, old, new, moves, crossed, hollow>>

\* The rest of RegisterToSection; then m_sectionX and m_sectionY are set.
Join(t, m) ==
  /\ At(t, "arrive")
  /\ grid' = [grid EXCEPT ![SectionOf(goal[t])] = @ \cup {m}]
  /\ sect' = [sect EXCEPT ![m] = SectionOf(goal[t])]
  /\ goal' = [goal EXCEPT ![t] = Nowhere]
  /\ Goto(t, "check")
  /\ TakePlace(m, Settling)
  /\ UNCHANGED <<pos, st, view, shown, jobs, cast, awake, life, due, prey, links, doubled, dying,
                 script, visit, todo, old, new, moves, crossed, hollow>>

\* Nobody in view: the monster sleeps, and keeps its list.
Sleep(t, m) ==
  /\ At(t, "look") /\ todo[t] = {} /\ visit[t] = {} /\ new[t] = {}
  /\ awake' = awake \ {m}
  /\ Goto(t, "next")
  /\ old' = [old EXCEPT ![m] = {}]
  /\ missed' = missed \cup {pq \in later : pq[1] = m}
  /\ steady' = [steady EXCEPT ![m] = {}]
  /\ UNCHANGED <<world, view, shown, jobs, cast, life, due, prey, links, doubled, goal, dying,
                 script, visit, todo, new, moves, later, crossed, hollow>>

\* ViewListUpdate: a job for everybody in view ...
Seen(t) ==
  /\ At(t, "look") /\ todo[t] = {} /\ visit[t] = {} /\ new[t] # {}
  /\ todo' = [todo EXCEPT ![t] = new[t]]
  /\ Goto(t, "post")
  /\ UNCHANGED <<world, view, shown, jobs, lair, dying, script, visit, old, new, moves, history>>

Post(t, m) ==
  /\ At(t, "post")
  /\ \E q \in todo[t] :
       /\ todo' = [todo EXCEPT ![t] = @ \ {q}]
       /\ Rest(t, <<Op("seeNow", q, m)>>)
  /\ UNCHANGED <<world, view, shown, jobs, lair, phase, dying, visit, old, new, moves, history>>

\* ... and for everybody who was in its list and is no longer in view.
Posted(t, m) ==
  /\ At(t, "post") /\ todo[t] = {}
  /\ todo' = [todo EXCEPT ![t] = view[m] \ new[t]]
  /\ Goto(t, "part")
  /\ UNCHANGED <<world, view, shown, jobs, lair, dying, script, visit, old, new, moves, history>>

Part(t, m) ==
  /\ At(t, "part")
  /\ \E q \in todo[t] :
       /\ todo' = [todo EXCEPT ![t] = @ \ {q}]
       /\ Rest(t, <<Op("lose", q, m)>>)
  /\ UNCHANGED <<world, view, shown, jobs, lair, phase, dying, visit, old, new, moves, history>>

Parted(t, m) ==
  /\ At(t, "part") /\ todo[t] = {}
  /\ view' = [view EXCEPT ![m] = new[t]]
  /\ Goto(t, "next")
  /\ new' = [new EXCEPT ![t] = {}]
  /\ steady' = [steady EXCEPT ![m] = {}]
  /\ UNCHANGED <<world, shown, jobs, lair, dying, script, visit, todo, old, moves,
                 later, missed, crossed, hollow>>

\* The end of Update: the next event, if the monster is awake.
Again(t, m) ==
  /\ At(t, "next")
  /\ links' = IF m \in awake THEN [links EXCEPT ![m] = @ + 1] ELSE links
  /\ Goto(t, "idle")
  /\ UNCHANGED <<world, view, shown, jobs, cast, awake, life, due, prey, doubled, goal, dying,
                 script, visit, todo, old, new, moves, history>>
-----------------------------------------------------------------------------
(* MonsterRespawn.                                                         *)

\* SetDie(false) comes before the health.
Rise(t, m) ==
  /\ Free(t, m) /\ due[m] > 0
  /\ \A p \in Players : prey[p] # m
  /\ due' = [due EXCEPT ![m] = @ - 1]
  /\ life' = [life EXCEPT ![m] = IF @ = "dead" THEN "down" ELSE @]
  /\ Engage(m)
  /\ Goto(t, "rise")
  /\ UNCHANGED <<world, view, shown, jobs, cast, awake, prey, links, goal, dying, script, visit,
                 todo, old, new, moves, history>>

Heal(t, m) ==
  /\ At(t, "rise")
  /\ life' = [life EXCEPT ![m] = IF @ = "down" THEN "alive" ELSE @]
  /\ Goto(t, "return")
  /\ UNCHANGED <<world, view, shown, jobs, cast, awake, due, prey, links, doubled, goal, dying,
                 script, visit, todo, old, new, moves, history>>

\* The section and the grid are not told.
Return(t, m) ==
  /\ At(t, "return")
  /\ pos' = [pos EXCEPT ![m] = Dens[m]]
  /\ todo' = [todo EXCEPT ![t] = cast \cap Players]
  /\ Goto(t, "appear")
  /\ old' = [old EXCEPT ![m] = {}]
  /\ TakePlace(m, Busy(m))
  /\ UNCHANGED <<st, sect, grid, view, shown, jobs, lair, dying, script, visit, new,
                 moves, crossed, hollow>>

Appear(t, m) ==
  /\ At(t, "appear")
  /\ \E q \in todo[t] :
       /\ todo' = [todo EXCEPT ![t] = @ \ {q}]
       /\ Rest(t, IF st[q] = "ingame" /\ Near(pos[q], pos[m]) THEN AddObjectToView(q, m) ELSE <<>>)
  /\ UNCHANGED <<world, view, shown, jobs, lair, phase, dying, visit, old, new, moves, history>>

Appeared(t, m) ==
  /\ At(t, "appear") /\ todo[t] = {}
  /\ links' = [links EXCEPT ![m] = @ + 1]
  /\ Goto(t, "idle")
  /\ UNCHANGED <<world, view, shown, jobs, cast, awake, life, due, prey, doubled, goal, dying,
                 script, visit, todo, old, new, moves, history>>
-----------------------------------------------------------------------------
Walking(t, m) == Update(t, m) \/ Walk(t, m) \/ Leave(t, m) \/ Join(t, m) \/ Again(t, m)
Watching(t, m) == Check(t, m) \/ Visit(t, m) \/ Look(t, m) \/ Sleep(t, m) \/ Seen(t)
Posting(t, m) == Post(t, m) \/ Posted(t, m) \/ Part(t, m) \/ Parted(t, m)
Respawning(t, m) ==
  Rise(t, m) \/ Heal(t, m) \/ Return(t, m) \/ Appear(t, m) \/ Appeared(t, m)

MonsterStep(t, m) ==
  Execute(t) \/ Walking(t, m) \/ Watching(t, m) \/ Posting(t, m) \/ Respawning(t, m)

MonstersNext == ViewNext \/ \E m \in Monsters : \E t \in Handlers(m) : MonsterStep(t, m)
MonstersSpec == ViewInit /\ [][MonstersNext]_vars
-----------------------------------------------------------------------------
(* Properties.                                                             *)

\* A monster with a player beside it who came last is awake once nothing is under
\* way between them, unless he came while it was looking around and found nobody,
\* or while it respawned, or two threads have been at work on it at once.
MonsterWakes ==
  \A m \in Monsters \ doubled, p \in Players :
    /\ <<m, p>> \in later /\ st[p] = "ingame" /\ life[m] = "alive" /\ Registered(m)
    /\ Quiet(p, m) /\ Near(pos[p], pos[m]) /\ ~Missed(p, m)
    => m \in awake

\* A monster that is awake and has walked out of the view of a player who was in
\* its list is not in his list any more, once nothing is under way between them,
\* as long as one thread at a time has handled it.
MonsterLeaves ==
  \A m \in awake \ doubled, p \in Players :
    /\ <<p, m>> \in later /\ p \in old[m] /\ ~Near(pos[p], pos[m])
    /\ life[m] = "alive" /\ Quiet(p, m)
    => m \notin view[p]
=============================================================================
