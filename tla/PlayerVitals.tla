---------------------------- MODULE PlayerVitals ----------------------------
(***************************************************************************)
(* The health, mana, experience and power of one player (CStat.cpp,        *)
(* CSkill.cpp, and Damaged, Heal, UseSkill and UseItem of CClient.cpp),    *)
(* with the chain of heal events that makes a wounded player recover.      *)
(*                                                                         *)
(* All of it runs in jobs of the player's own session, which never overlap *)
(* (SessionJobs): a job is one step, except that a skill is begun, may     *)
(* kill any number of NPCs, one round of the GainExp loop at a time, and   *)
(* ends.  A heal event waits in the timer and then as a job in the         *)
(* session, where the end of a visit may leave it behind (SessionJobs).    *)
(* The event that should roll a power-up back is dropped by the IOCP       *)
(* threads (TimerDispatch): it changes nothing here.                       *)
(***************************************************************************)
EXTENDS Integers

CONSTANTS
  Powers,       \* what the NPCs around hit with
  Rewards,      \* experience that their kills are worth
  MaxHits,      \* bounds of the model: hits taken,
  MaxUses,      \*   skills and potions used (a power-up doubles the power: far
                \*   below 2^31 here),
  MaxKills      \*   and NPCs killed

ASSUME ParameterAssumption ==
  /\ Powers \subseteq Nat \ {0}
  /\ Rewards \subseteq Nat \ {0}
ASSUME BoundAssumption ==
  /\ MaxHits \in Nat
  /\ MaxUses \in Nat
  /\ MaxKills \in Nat

Skills == {"attack", "powerup", "fire", "explosion"}
Potions == {"hp", "mp"}
NoSkill == "none"

\* The *_MP_CONSUMTION constants.
Consumption == [attack |-> 0, powerup |-> 15, fire |-> 5, explosion |-> 10]

InitExp == 10
ExpUp == 40
Need(level) == InitExp + (level - 1) * ExpUp

VARIABLES
  state,       \* CClient::m_State, with "left" once Logout has run
  stat,        \* the CClientStat of the player
  ready,       \* skills whose cool time is over
  using,       \* the skill whose Use is running
  healTimers,  \* EV_PLAYER_HEAL events in the timer
  healJobs,    \* heal jobs in the session
  session,     \* not marked; in the session queue or visited; or its visit has
               \* found no more jobs and is about to take the mark away
  hits,        \* hits taken so far
  uses,        \* skills and potions used so far
  kills,       \* NPCs killed so far
  earned       \* history: all experience gained

counts == <<hits, uses, kills, earned>>
vars == <<state, stat, ready, using, healTimers, healJobs, session, counts>>

Stat == [level : Nat, maxHp : Nat, hp : Nat, maxMp : Nat, mp : Nat,
         exp : Nat, maxExp : Nat, power : Nat]

\* Every variable has its type: health, mana and the rest are never negative.
TypeOK ==
  /\ state \in {"alloc", "ingame", "left"}
  /\ stat \in Stat
  /\ ready \subseteq Skills
  /\ using \in Skills \cup {NoSkill}
  /\ healTimers \in Nat
  /\ healJobs \in Nat
  /\ session \in {"unmarked", "marked", "ending"}
  /\ hits \in 0..MaxHits
  /\ uses \in 0..MaxUses
  /\ kills \in 0..MaxKills
  /\ earned \in Nat

\* Accepted, not logged in: only the power has been set.  The other fields of the
\* stat are not initialised (0 here) and nothing reads them before Login.
Init ==
  /\ state = "alloc"
  /\ stat = [level |-> 0, maxHp |-> 0, hp |-> 0, maxMp |-> 0, mp |-> 0,
             exp |-> 0, maxExp |-> 0, power |-> 20]
  /\ ready = Skills
  /\ using = NoSkill
  /\ healTimers = 0
  /\ healJobs = 0
  /\ session = "unmarked"
  /\ hits = 0
  /\ uses = 0
  /\ kills = 0
  /\ earned = 0

-----------------------------------------------------------------------------
(* Faults: one plausible mistake each; used by the mutation runs only.     *)

\* The health is tested before the blow is taken off.
DamagedLate(s, power) ==
  [s EXCEPT !.hp = IF @ <= 0 THEN s.maxHp \div 2 ELSE @ - power]

\* The maximum is not applied.
HealHpUncapped(s, heal) == [s EXCEPT !.hp = @ + heal]

\* The heal chain ends when the health is full.
FullHealthOnly(s) == s.hp = s.maxHp

\* A tenth of what is left, not of the maximum.
TenthOfRest(s) == [hp |-> s.hp \div 10, mp |-> s.mp \div 10]

\* The level is raised before its experience is paid.
RiseEarly(s) ==
  [s EXCEPT !.level = @ + 1,
            !.exp = @ - Need(s.level + 1),
            !.maxExp = Need(s.level + 1)]

-----------------------------------------------------------------------------
(* CStat.cpp.                                                              *)

AtMost(x, max) == IF x > max THEN max ELSE x

HealHp(s, heal) == [s EXCEPT !.hp = AtMost(@ + heal, s.maxHp)]
HealMp(s, heal) == [s EXCEPT !.mp = AtMost(@ + heal, s.maxMp)]
SetMp(s, mp) == [s EXCEPT !.mp = AtMost(mp, s.maxMp)]

IsMaxHp(s) == s.hp = s.maxHp
IsMaxMp(s) == s.mp = s.maxMp
IsFullCondition(s) == IsMaxHp(s) /\ IsMaxMp(s)

\* CClientStat::Damaged: a player whose health runs out has half of it again.
Damaged(s, power) ==
  [s EXCEPT !.hp = IF s.hp - power <= 0 THEN s.maxHp \div 2 ELSE s.hp - power]

\* One round of the loop of CClientStat::GainExp ...
Rise(s) ==
  [s EXCEPT !.level = @ + 1,
            !.exp = @ - s.maxExp,
            !.maxExp = Need(s.level + 1)]

\* ... and what follows it: however many levels, the power rises by 15 once.
Refill(s) ==
  [s EXCEPT !.maxHp = s.level * 100, !.hp = s.level * 100,
            !.maxMp = s.level * 50, !.mp = s.level * 50,
            !.power = @ + 15]

\* static_cast<int>(max * 0.1f), exact for these maxima (multiples of 50).
Tenth(s) == [hp |-> s.maxHp \div 10, mp |-> s.maxMp \div 10]

-----------------------------------------------------------------------------
(* The jobs of the player.                                                 *)

\* A job of the session can run: the player is in game, or was (the jobs of the
\* same visit that follow Logout), and no job is running.
MayRun == state # "alloc" /\ using = NoSkill

\* A job runs in a visit.  If the session was not marked, some post has just marked it:
\* the job's own, or one of a job that changes no vitals, such as a move.
InVisit == session # "ending" /\ session' = "marked"

\* The condition under which UseSkill and Damaged register a heal event.
\* m_isHealEventRegistered is never set: the chains add up.
RegisterHealUnless(full) ==
  healTimers' = IF full THEN healTimers ELSE healTimers + 1

\* The part of LoginPacket that sets the stat, without a database.
Login ==
  /\ state = "alloc"
  /\ InVisit
  /\ state' = "ingame"
  /\ stat' = [level |-> 1, maxHp |-> 100, hp |-> 100, maxMp |-> 50, mp |-> 50,
              exp |-> 0, maxExp |-> Need(1), power |-> stat.power]
  /\ UNCHANGED <<ready, using, healTimers, healJobs, counts>>

\* Logout; the stat stays as it is, and so do the pending events.
Logout ==
  /\ state = "ingame"
  /\ using = NoSkill
  /\ InVisit
  /\ state' = "left"
  /\ UNCHANGED <<stat, ready, using, healTimers, healJobs, counts>>

\* CSkill::CanUse.
CanUse(k) == k \in ready /\ stat.mp >= Consumption[k]

\* UseSkill, when the skill can be used: its Use begins.  CPowerUp::Use doubles
\* the power at once.
BeginSkill(k) ==
  /\ MayRun /\ InVisit
  /\ uses < MaxUses
  /\ CanUse(k)
  /\ uses' = uses + 1
  /\ ready' = ready \ {k}
  /\ using' = k
  /\ stat' = IF k = "powerup" THEN [stat EXCEPT !.power = @ * 2] ELSE stat
  /\ UNCHANGED <<state, healTimers, healJobs, hits, kills, earned>>

\* The condition of the loop of GainExp, which a kill may make true.
Rising == stat.exp >= stat.maxExp

\* One of the NPCs that the skill hits dies (CNpc::Damaged): GainExp begins.
Kill(e) ==
  /\ using \in Skills \ {"powerup"}
  /\ ~Rising
  /\ kills < MaxKills
  /\ kills' = kills + 1
  /\ stat' = [stat EXCEPT !.exp = @ + e]
  /\ earned' = earned + e
  /\ UNCHANGED <<session, state, ready, using, healTimers, healJobs, hits, uses>>

\* The loop of GainExp goes round once, and ends or not.
LevelUp ==
  /\ using # NoSkill
  /\ Rising
  /\ LET s == Rise(stat) IN
       stat' = IF s.exp >= s.maxExp THEN s ELSE Refill(s)
  /\ UNCHANGED <<session, state, ready, using, healTimers, healJobs, counts>>

\* The rest of UseSkill: the mana is paid.
EndSkill ==
  /\ using # NoSkill
  /\ ~Rising
  /\ stat' = SetMp(stat, stat.mp - Consumption[using])
  /\ RegisterHealUnless(IsMaxMp(stat'))
  /\ using' = NoSkill
  /\ UNCHANGED <<session, state, ready, healJobs, counts>>

\* UseSkill, when it cannot: it may still register a heal event.
RefuseSkill(k) ==
  /\ MayRun /\ InVisit
  /\ uses < MaxUses
  /\ ~CanUse(k)
  /\ uses' = uses + 1
  /\ RegisterHealUnless(IsMaxMp(stat))
  /\ UNCHANGED <<state, stat, ready, using, healJobs, hits, kills, earned>>

\* The cool time of a skill is over.
CoolDown(k) ==
  /\ k \notin ready
  /\ using # k
  /\ ready' = ready \cup {k}
  /\ UNCHANGED <<session, state, stat, using, healTimers, healJobs, counts>>

\* UseItem with a potion in the slot.
UsePotion(p) ==
  /\ MayRun /\ InVisit
  /\ uses < MaxUses
  /\ uses' = uses + 1
  /\ stat' = IF p = "hp" THEN HealHp(stat, 50) ELSE HealMp(stat, 30)
  /\ UNCHANGED <<state, ready, using, healTimers, healJobs, hits, kills,
                 earned>>

\* CClient::Damaged, posted by CNpc::Attack; what a death does to the position and
\* to the views is not in this module.
Hit(power) ==
  /\ MayRun /\ InVisit
  /\ hits < MaxHits
  /\ hits' = hits + 1
  /\ stat' = Damaged(stat, power)
  /\ RegisterHealUnless(IsMaxHp(stat'))
  /\ UNCHANGED <<state, ready, using, healJobs, uses, kills, earned>>

\* The event comes due and PlayerHeal posts the job.  A visit that is ending does not
\* see it any more, and the mark that is still set keeps the session out of the queue.
HealDue ==
  /\ healTimers > 0
  /\ healTimers' = healTimers - 1
  /\ healJobs' = healJobs + 1
  /\ session' = IF session = "unmarked" THEN "marked" ELSE session
  /\ UNCHANGED <<state, stat, ready, using, counts>>

\* CClient::Heal.
Heal ==
  /\ MayRun /\ InVisit
  /\ healJobs > 0
  /\ healJobs' = healJobs - 1
  /\ stat' = HealMp(HealHp(stat, Tenth(stat).hp), Tenth(stat).mp)
  /\ RegisterHealUnless(IsFullCondition(stat'))
  /\ UNCHANGED <<state, ready, using, counts>>

\* JobQueueSize() finds no more jobs ...
EndVisit ==
  /\ session = "marked" /\ using = NoSkill /\ healJobs = 0
  /\ session' = "ending"
  /\ UNCHANGED <<state, stat, ready, using, healTimers, healJobs, counts>>

\* ... and the session is unmarked.
Unmark ==
  /\ session = "ending"
  /\ session' = "unmarked"
  /\ UNCHANGED <<state, stat, ready, using, healTimers, healJobs, counts>>

-----------------------------------------------------------------------------
Next ==
  \/ Login
  \/ Logout
  \/ \E k \in Skills : BeginSkill(k) \/ RefuseSkill(k) \/ CoolDown(k)
  \/ \E e \in Rewards : Kill(e)
  \/ LevelUp
  \/ EndSkill
  \/ \E p \in Potions : UsePotion(p)
  \/ \E power \in Powers : Hit(power)
  \/ HealDue
  \/ Heal
  \/ EndVisit
  \/ Unmark

Spec == Init /\ [][Next]_vars

\* The timer and the IOCP threads deliver every event (TimerDispatch), and a worker
\* goes on with the job and the visit it is in.
Fairness ==
  /\ WF_vars(LevelUp \/ EndSkill)
  /\ WF_vars(HealDue)
  /\ WF_vars(Unmark)

FairSpec == Spec /\ Fairness

-----------------------------------------------------------------------------
(* Properties.                                                             *)

Whole == stat.hp = stat.maxHp /\ stat.mp = stat.maxMp
Hurt == state = "ingame" /\ ~Whole

\* A player who is in game is alive and within his limits, and between two jobs
\* has not reached the next level.
Alive ==
  state # "alloc" =>
    /\ stat.hp \in 1..stat.maxHp
    /\ stat.mp \in 0..stat.maxMp
    /\ using = NoSkill => stat.exp < stat.maxExp

\* A player who lacks health or mana has a heal event or a heal job pending,
\* whatever hit him, whatever he used, and at whatever level.
HealPending == Hurt => healTimers + healJobs > 0

\* No experience is lost or invented: what the levels cost and what is left over
\* add up to all that was earned, and the maxima are those of the level.
ExpConserved ==
  state # "alloc" =>
    LET l == stat.level - 1 IN
    /\ earned = stat.exp + l * InitExp + ((l * (l - 1)) \div 2) * ExpUp
    /\ stat.maxExp = Need(stat.level)
    /\ ~Rising => stat.maxHp = 100 * stat.level /\ stat.maxMp = 50 * stat.level

\* His session is not outranked for ever: when a heal job is there and the session is
\* marked, a worker comes to it.  A stranded job nobody need come to.
Served == WF_vars(state = "ingame" /\ session = "marked" /\ Heal)

\* From some time on nothing hits him and he uses no skill.
LeftAlone == <>[][~(\E power \in Powers : Hit(power)) /\ ~(\E k \in Skills : BeginSkill(k))]_vars

\* The last link of his heal chain lies in the session, which nobody visits.
Stranded == healJobs > 0 /\ session = "unmarked"

\* A hurt player who is left alone recovers completely, unless he leaves, sessions
\* of higher address are served before his for ever, or the heal job that was to
\* bring him on is stranded and nothing is ever posted to him again.
Recovers ==
  Served /\ LeftAlone => (Hurt ~> (Whole \/ state = "left" \/ []Stranded))
=============================================================================
