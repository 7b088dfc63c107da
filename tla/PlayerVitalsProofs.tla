------------------------- MODULE PlayerVitalsProofs -------------------------
(***************************************************************************)
(* What holds of a player's vitals for any powers, any rewards and any     *)
(* number of hits, skills, potions and kills.  The inductive invariant     *)
(* adds to the properties that a player in a skill can still pay for it    *)
(* (Affordable), which is what keeps the mana from becoming negative.      *)
(***************************************************************************)
EXTENDS PlayerVitals, TLAPS

\* Mana enough for the skill in use, whoever is killed by it meanwhile; levels
\* rise only inside a skill.
Affordable ==
  /\ using # NoSkill => state # "alloc" /\ stat.mp >= Consumption[using]
  /\ state # "alloc" => stat.level >= 1
  /\ state = "alloc" => earned = 0

VitalsInv == TypeOK /\ Alive /\ ExpConserved /\ Affordable

LEMMA Costs ==
  /\ Consumption.attack = 0 /\ Consumption.powerup = 15
  /\ Consumption.fire = 5 /\ Consumption.explosion = 10
  /\ \A k \in Skills : Consumption[k] \in 0..15
BY DEF Consumption, Skills

\* What the operations of CStat.cpp do to the record.
LEMMA HealHpTypes ==
  ASSUME NEW s \in Stat, NEW h \in Nat
  PROVE  /\ HealHp(s, h) \in Stat
         /\ HealHp(s, h) = [s EXCEPT !.hp = HealHp(s, h).hp]
         /\ s.hp <= s.maxHp =>
              HealHp(s, h).hp >= s.hp /\ HealHp(s, h).hp <= s.maxHp
BY DEF Stat, HealHp, AtMost

LEMMA HealMpTypes ==
  ASSUME NEW s \in Stat, NEW h \in Nat
  PROVE  /\ HealMp(s, h) \in Stat
         /\ HealMp(s, h) = [s EXCEPT !.mp = HealMp(s, h).mp]
         /\ s.mp <= s.maxMp =>
              HealMp(s, h).mp >= s.mp /\ HealMp(s, h).mp <= s.maxMp
BY DEF Stat, HealMp, AtMost

LEMMA DamagedTypes ==
  ASSUME NEW s \in Stat, NEW p \in Nat \ {0}
  PROVE  /\ Damaged(s, p) \in Stat
         /\ Damaged(s, p) = [s EXCEPT !.hp = Damaged(s, p).hp]
         /\ s.hp <= s.maxHp /\ s.maxHp >= 100 =>
              Damaged(s, p).hp >= 1 /\ Damaged(s, p).hp <= s.maxHp
<1>1. s.maxHp \div 2 \in Nat /\ (s.maxHp >= 100 => s.maxHp \div 2 >= 1)
        /\ s.maxHp \div 2 <= s.maxHp
  BY DEF Stat
<1>2. QED
  BY <1>1 DEF Stat, Damaged


\* A job that leaves level, experience and maxima alone keeps the books.
LEMMA BooksStay ==
  ASSUME ExpConserved, UNCHANGED <<state, earned>>,
         /\ stat'.level = stat.level /\ stat'.exp = stat.exp
         /\ stat'.maxExp = stat.maxExp
         /\ stat'.maxHp = stat.maxHp /\ stat'.maxMp = stat.maxMp
  PROVE  ExpConserved'
BY DEF ExpConserved, Rising

\* The limits of a player who is not from his level.
LEMMA Limits ==
  ASSUME VitalsInv, state # "alloc", using = NoSkill
  PROVE  /\ stat.maxHp >= 100 /\ stat.maxMp >= 50
         /\ stat.hp <= stat.maxHp /\ stat.mp <= stat.maxMp
BY DEF VitalsInv, TypeOK, Stat, Alive, ExpConserved, Affordable, Rising

\* The triangular numbers of the books.
LEMMA Triangle ==
  ASSUME NEW l \in Nat
  PROVE  ((l + 1) * l) \div 2 = ((l * (l - 1)) \div 2) + l
<1>1. (l + 1) * l = l * (l - 1) + 2 * l
  OBVIOUS
<1>2. \A x \in Int : (x + 2 * l) \div 2 = (x \div 2) + l
  OBVIOUS
<1>3. l * (l - 1) \in Int
  OBVIOUS
<1>4. QED
  BY <1>1, <1>2, <1>3

\* A job that leaves state, level, experience and maxima alone, and the player
\* within his limits, keeps the invariant.
LEMMA QuietJob ==
  ASSUME VitalsInv, TypeOK', UNCHANGED <<state, earned>>,
         /\ stat'.level = stat.level /\ stat'.exp = stat.exp
         /\ stat'.maxExp = stat.maxExp
         /\ stat'.maxHp = stat.maxHp /\ stat'.maxMp = stat.maxMp,
         state # "alloc" => stat'.hp \in 1..stat'.maxHp /\ stat'.mp \in 0..stat'.maxMp,
         using' # NoSkill => state # "alloc" /\ stat'.mp >= Consumption[using'],
         using' = NoSkill => using = NoSkill \/ ~Rising
  PROVE  VitalsInv'
<1>1. ExpConserved'
  BY BooksStay DEF VitalsInv
<1>2. Alive'
  BY DEF VitalsInv, TypeOK, Stat, Alive, Rising
<1>3. Affordable'
  BY DEF VitalsInv, Affordable
<1>4. QED
  BY <1>1, <1>2, <1>3 DEF VitalsInv

\* No step leaves the places the session can be in.
LEMMA SessionStep ==
  ASSUME TypeOK, [Next]_vars
  PROVE  session' \in {"unmarked", "marked", "ending"}
<1>1. CASE UNCHANGED session
  BY <1>1 DEF TypeOK
<1>2. CASE session' = "marked"
  BY <1>2
<1>3. CASE EndVisit \/ Unmark
  BY <1>3 DEF EndVisit, Unmark
<1>4. CASE Login \/ Logout \/ Heal \/ HealDue
  BY <1>1, <1>2, <1>4 DEF Login, Logout, Heal, HealDue, MayRun, InVisit
<1>5. CASE LevelUp \/ EndSkill
  BY <1>1, <1>5 DEF LevelUp, EndSkill
<1>6. ASSUME NEW k \in Skills, BeginSkill(k) \/ RefuseSkill(k) \/ CoolDown(k)
      PROVE  UNCHANGED session \/ session' = "marked"
  BY <1>6 DEF BeginSkill, RefuseSkill, CoolDown, InVisit
<1>7. ASSUME NEW e \in Rewards, Kill(e)
      PROVE  UNCHANGED session
  BY <1>7 DEF Kill
<1>8. ASSUME NEW p \in Potions, UsePotion(p)
      PROVE  session' = "marked"
  BY <1>8 DEF UsePotion, InVisit
<1>9. ASSUME NEW power \in Powers, Hit(power)
      PROVE  session' = "marked"
  BY <1>9 DEF Hit, InVisit
<1>10. CASE UNCHANGED vars
  BY <1>1, <1>10 DEF vars
<1>11. QED
  BY <1>1, <1>2, <1>3, <1>4, <1>5, <1>6, <1>7, <1>8, <1>9, <1>10 DEF Next

LEMMA VitalsInvariant == Spec => []VitalsInv
<1>1. Init => VitalsInv
  <2> SUFFICES ASSUME Init PROVE VitalsInv
    OBVIOUS
  <2>1. stat \in Stat
    BY DEF Init, Stat
  <2>2. hits \in 0..MaxHits /\ uses \in 0..MaxUses /\ kills \in 0..MaxKills
    BY BoundAssumption DEF Init
  <2>3. TypeOK
    BY <2>1, <2>2 DEF Init, TypeOK
  <2>4. QED
    BY <2>3 DEF Init, VitalsInv, Alive, ExpConserved, Affordable
<1>2. VitalsInv /\ [Next]_vars => VitalsInv'
  <2>1. SUFFICES ASSUME VitalsInv, [Next]_vars PROVE VitalsInv'
    OBVIOUS
  <2>2. /\ stat \in Stat /\ healTimers \in Nat /\ healJobs \in Nat /\ earned \in Nat
        /\ TypeOK /\ Alive /\ ExpConserved /\ Affordable
        /\ session' \in {"unmarked", "marked", "ending"}
    BY <2>1, SessionStep DEF VitalsInv, TypeOK
  <2>3. CASE Login
    <3>1. stat' = [level |-> 1, maxHp |-> 100, hp |-> 100, maxMp |-> 50, mp |-> 50,
                   exp |-> 0, maxExp |-> 10, power |-> stat.power]
      BY <2>3 DEF Login, Need, InitExp, ExpUp
    <3>2. earned' = 0 /\ using' = NoSkill /\ state' = "ingame"
      BY <2>2, <2>3 DEF Login, Affordable, counts
    <3>3. TypeOK'
      BY <2>2, <2>3, <3>1 DEF Login, TypeOK, Stat, counts
    <3>4. Alive'
      BY <3>1, <3>2 DEF Alive
    <3>5. ExpConserved'
      <4>1. (0 * (0 - 1)) \div 2 = 0
        OBVIOUS
      <4>2. Need(1) = 10
        BY DEF Need, InitExp, ExpUp
      <4>3. QED
        BY <3>1, <3>2, <4>1, <4>2 DEF ExpConserved, InitExp, ExpUp
    <3>6. Affordable'
      BY <3>1, <3>2 DEF Affordable
    <3>7. QED
      BY <3>3, <3>4, <3>5, <3>6 DEF VitalsInv
  <2>4. CASE Logout
    <3>1. TypeOK'
      BY <2>2, <2>4 DEF Logout, TypeOK, counts
    <3>2. state = "ingame" /\ state' = "left" /\ UNCHANGED <<stat, using, earned>>
      BY <2>4 DEF Logout, counts
    <3>3. QED
      BY <2>2, <3>1, <3>2 DEF VitalsInv, Alive, ExpConserved, Affordable, Rising
  <2>5. ASSUME NEW k \in Skills, BeginSkill(k)
        PROVE  VitalsInv'
    <3>1. /\ stat' \in Stat
          /\ stat' = [stat EXCEPT !.power = stat'.power]
      BY <2>2, <2>5 DEF BeginSkill, Stat
    <3>2. /\ UNCHANGED <<state, healTimers, healJobs, hits, kills, earned>>
          /\ using' = k /\ uses' \in 0..MaxUses /\ ready' \subseteq Skills
          /\ state # "alloc"
          /\ stat.mp >= Consumption[k]
      BY <2>2, <2>5, BoundAssumption DEF BeginSkill, MayRun, CanUse, TypeOK
    <3>3. TypeOK'
      BY <2>2, <3>1, <3>2 DEF TypeOK
    <3>4. k # NoSkill
      BY DEF Skills, NoSkill
    <3>5. QED
      BY <2>1, <2>2, <3>1, <3>2, <3>3, <3>4, QuietJob DEF Stat, Alive
  <2>6. ASSUME NEW e \in Rewards, Kill(e)
        PROVE  VitalsInv'
    <3>1. e \in Nat /\ stat' = [stat EXCEPT !.exp = @ + e] /\ stat' \in Stat
      BY <2>2, <2>6, ParameterAssumption DEF Kill, Stat
    <3>2. /\ UNCHANGED <<state, ready, using, healTimers, healJobs, hits, uses>>
          /\ using # NoSkill /\ ~Rising /\ state # "alloc"
          /\ kills' \in 0..MaxKills /\ earned' = earned + e
      <4>1. NoSkill \notin Skills
        BY DEF Skills, NoSkill
      <4>2. using # NoSkill
        BY <2>6, <4>1 DEF Kill
      <4>3. kills + 1 \in 0..MaxKills
        BY <2>2, <2>6, BoundAssumption DEF Kill, TypeOK
      <4>4. QED
        BY <2>2, <2>6, <4>2, <4>3 DEF Kill, Affordable
    <3>4. Alive'
      BY <2>2, <3>1, <3>2 DEF Alive, Stat
    <3>5. ExpConserved'
      BY <2>2, <3>1, <3>2 DEF ExpConserved, Stat, InitExp, ExpUp, Rising
    <3>8. TypeOK'
      BY <2>2, <3>1, <3>2 DEF TypeOK
    <3>6. Affordable'
      BY <2>2, <3>1, <3>2 DEF Affordable, Stat
    <3>7. QED
      BY <3>4, <3>5, <3>6, <3>8 DEF VitalsInv
  <2>7. CASE LevelUp
    <3> DEFINE s == Rise(stat)
    <3>1. /\ UNCHANGED <<state, ready, using, healTimers, healJobs, counts>>
          /\ using # NoSkill
          /\ stat.exp >= stat.maxExp
          /\ stat' = IF s.exp >= s.maxExp THEN s ELSE Refill(s)
      BY <2>7 DEF LevelUp, Rising
    <3>2. state # "alloc" /\ using # NoSkill /\ stat.exp >= stat.maxExp
      BY <2>2, <3>1 DEF Affordable
    <3>3. /\ s \in Stat
          /\ s.level = stat.level + 1 /\ s.exp = stat.exp - stat.maxExp
          /\ s.maxExp = Need(s.level) /\ s.hp = stat.hp /\ s.maxHp = stat.maxHp
          /\ s.mp = stat.mp /\ s.maxMp = stat.maxMp
      <4>1. Need(stat.level + 1) \in Nat
        BY <2>2 DEF Stat, Need, InitExp, ExpUp
      <4>2. stat.exp - stat.maxExp \in Nat /\ stat.level + 1 \in Nat
        BY <2>2, <3>2 DEF Stat
      <4>3. QED
        BY <2>2, <4>1, <4>2 DEF Rise, Stat
    <3> HIDE DEF s
    <3>4. /\ Refill(s) \in Stat
          /\ Refill(s).level = s.level /\ Refill(s).exp = s.exp
          /\ Refill(s).maxExp = s.maxExp
          /\ Refill(s).maxHp = s.level * 100 /\ Refill(s).hp = s.level * 100
          /\ Refill(s).maxMp = s.level * 50 /\ Refill(s).mp = s.level * 50
      <4>1. s.level * 100 \in Nat /\ s.level * 50 \in Nat /\ s.power + 15 \in Nat
        BY <3>3 DEF Stat
      <4>2. /\ Refill(s).level = s.level /\ Refill(s).exp = s.exp
            /\ Refill(s).maxExp = s.maxExp
            /\ Refill(s).maxHp = s.level * 100 /\ Refill(s).hp = s.level * 100
            /\ Refill(s).maxMp = s.level * 50 /\ Refill(s).mp = s.level * 50
        BY <3>3 DEF Refill, Stat
      <4>3. Refill(s) \in Stat
        BY ZenonT(90), <3>3, <4>1 DEF Refill, Stat
      <4>4. QED
        BY <4>2, <4>3
    <3>5. TypeOK'
      BY <2>2, <3>1, <3>3, <3>4 DEF TypeOK, counts
    <3>6. stat.level >= 1
      BY <2>2, <3>2 DEF Affordable
    <3>7. Alive'
      <4>1. /\ stat'.exp = s.exp /\ stat'.maxExp = s.maxExp /\ state' # "alloc"
            /\ stat.level \in Nat
        BY <2>2, <3>1, <3>2, <3>4 DEF Stat
      <4>2. stat'.hp \in 1..stat'.maxHp /\ stat'.mp \in 0..stat'.maxMp
        <5>1. CASE s.exp >= s.maxExp
          BY <2>2, <3>1, <3>2, <3>3, <5>1 DEF Alive
        <5>2. CASE ~(s.exp >= s.maxExp)
          BY <3>1, <3>3, <3>4, <3>6, <4>1, <5>2
        <5>3. QED
          BY <5>1, <5>2
      <4>3. QED
        BY <3>1, <4>1, <4>2 DEF Alive
    <3>8. ExpConserved'
      <4> DEFINE l == stat.level - 1
      <4>1. l \in Nat /\ stat.level = l + 1
        BY <2>2, <3>6 DEF Stat
      <4>2. stat'.level = l + 2 /\ stat'.exp = stat.exp - stat.maxExp
              /\ stat'.maxExp = Need(stat'.level)
        BY <3>1, <3>3, <3>4, <4>1
      <4>3. /\ earned = stat.exp + l * InitExp + ((l * (l - 1)) \div 2) * ExpUp
            /\ stat.maxExp = 10 + l * 40
        BY <2>2, <3>2 DEF ExpConserved, Need, InitExp, ExpUp
      <4>4. ((l + 1) * l) \div 2 = ((l * (l - 1)) \div 2) + l
        BY <4>1, Triangle
      <4>5. (l * (l - 1)) \div 2 \in Int
        BY <4>1
      <4>6. earned' = stat'.exp + (l + 1) * InitExp + (((l + 1) * l) \div 2) * ExpUp
        <5> HIDE DEF l
        <5>1. earned' = earned /\ stat.exp \in Nat
          BY <2>2, <3>1 DEF Stat, counts
        <5>2. QED
          BY <4>1, <4>2, <4>3, <4>4, <4>5, <5>1 DEF InitExp, ExpUp
      <4>7. stat'.exp < stat'.maxExp =>
              stat'.maxHp = 100 * stat'.level /\ stat'.maxMp = 50 * stat'.level
        <5>1. s.level \in Nat /\ s.exp \in Nat /\ s.maxExp \in Nat
          BY <3>3 DEF Stat
        <5>2. QED
          BY <3>1, <3>4, <5>1
      <4>8. stat'.level - 1 = l + 1 /\ (l + 1) - 1 = l
        BY <4>1, <4>2
      <4>9. /\ earned' = stat'.exp + (stat'.level - 1) * InitExp
                        + (((stat'.level - 1) * ((stat'.level - 1) - 1)) \div 2) * ExpUp
            /\ stat'.maxExp = Need(stat'.level)
            /\ ~(stat'.exp >= stat'.maxExp) =>
                 stat'.maxHp = 100 * stat'.level /\ stat'.maxMp = 50 * stat'.level
        <5>1. stat'.exp \in Nat /\ stat'.maxExp \in Nat
          BY <3>5 DEF TypeOK, Stat
        <5>2. QED
          BY <4>2, <4>6, <4>7, <4>8, <5>1
      <4>10. QED
        BY <4>9 DEF ExpConserved, Rising
    <3>9. Affordable'
      <4>1. Consumption[using] \in 0..15
        BY <2>2, <3>2, Costs DEF TypeOK
      <4>2. stat'.mp >= Consumption[using]
        BY <2>2, <3>1, <3>2, <3>3, <3>4, <3>6, <4>1 DEF Affordable, Stat
      <4>3. QED
        BY <2>2, <3>1, <3>2, <3>3, <3>4, <3>6, <4>2 DEF Affordable, Stat, counts
    <3>10. QED
      BY <3>5, <3>7, <3>8, <3>9 DEF VitalsInv
  <2>8. CASE EndSkill
    <3>1. /\ using # NoSkill /\ ~Rising /\ state # "alloc"
          /\ Consumption[using] \in 0..15 /\ stat.mp >= Consumption[using]
          /\ stat.mp <= stat.maxMp
      BY <2>2, <2>8, Costs DEF EndSkill, Affordable, TypeOK, Alive
    <3>2. stat' = [stat EXCEPT !.mp = stat.mp - Consumption[using]]
      BY <2>2, <2>8, <3>1 DEF EndSkill, SetMp, AtMost, Stat
    <3>3. stat' \in Stat
      BY <2>2, <3>1, <3>2 DEF Stat
    <3>4. /\ UNCHANGED <<state, ready, healJobs, counts>> /\ using' = NoSkill
          /\ healTimers' \in Nat
      BY <2>2, <2>8 DEF EndSkill, RegisterHealUnless
    <3>5. TypeOK'
      BY <2>2, <3>3, <3>4 DEF TypeOK, counts
    <3>6. QED
      BY <2>1, <2>2, <3>1, <3>2, <3>3, <3>4, <3>5, QuietJob DEF Stat, Alive, counts
  <2>9. ASSUME NEW k \in Skills, RefuseSkill(k) \/ CoolDown(k)
        PROVE  VitalsInv'
    <3>1. /\ UNCHANGED <<state, stat, using, healJobs, hits, kills, earned>>
          /\ healTimers' \in Nat /\ uses' \in 0..MaxUses /\ ready' \subseteq Skills
      BY <2>2, <2>9, BoundAssumption
         DEF RefuseSkill, CoolDown, RegisterHealUnless, TypeOK, counts
    <3>2. TypeOK'
      BY <2>2, <3>1 DEF TypeOK
    <3>3. QED
      BY <2>2, <3>1, <3>2 DEF VitalsInv, Alive, ExpConserved, Affordable, Rising
  <2>10. ASSUME NEW p \in Potions, UsePotion(p)
         PROVE  VitalsInv'
    <3>1. /\ UNCHANGED <<state, ready, using, healTimers, healJobs, hits, kills,
                         earned>>
          /\ uses' \in 0..MaxUses
          /\ state # "alloc" /\ using = NoSkill
      BY <2>2, <2>10, BoundAssumption DEF UsePotion, MayRun, TypeOK, Affordable
    <3>2. stat.hp <= stat.maxHp /\ stat.mp <= stat.maxMp /\ stat.hp >= 1
      BY <2>2, <3>1 DEF Alive
    <3>3. CASE stat' = HealHp(stat, 50)
      <4>1. /\ stat' \in Stat /\ stat' = [stat EXCEPT !.hp = stat'.hp]
            /\ stat'.hp >= stat.hp /\ stat'.hp <= stat.maxHp
        BY <2>2, <3>2, <3>3, HealHpTypes
      <4>2. TypeOK'
        BY <2>2, <3>1, <4>1 DEF TypeOK
      <4>3. QED
        BY <2>1, <2>2, <3>1, <3>2, <4>1, <4>2, QuietJob DEF Stat
    <3>4. CASE stat' = HealMp(stat, 30)
      <4>1. /\ stat' \in Stat /\ stat' = [stat EXCEPT !.mp = stat'.mp]
            /\ stat'.mp >= stat.mp /\ stat'.mp <= stat.maxMp
        BY <2>2, <3>2, <3>4, HealMpTypes
      <4>2. TypeOK'
        BY <2>2, <3>1, <4>1 DEF TypeOK
      <4>3. QED
        BY <2>1, <2>2, <3>1, <3>2, <4>1, <4>2, QuietJob DEF Stat
    <3>5. QED
      BY <2>10, <3>3, <3>4 DEF UsePotion
  <2>11. ASSUME NEW power \in Powers, Hit(power)
         PROVE  VitalsInv'
    <3>1. /\ UNCHANGED <<state, ready, using, healJobs, uses, kills, earned>>
          /\ hits' \in 0..MaxHits /\ healTimers' \in Nat
          /\ state # "alloc" /\ using = NoSkill
          /\ stat' = Damaged(stat, power) /\ power \in Nat \ {0}
      BY <2>2, <2>11, BoundAssumption, ParameterAssumption
         DEF Hit, MayRun, TypeOK, Affordable, RegisterHealUnless
    <3>2. /\ stat' \in Stat /\ stat' = [stat EXCEPT !.hp = stat'.hp]
          /\ stat'.hp >= 1 /\ stat'.hp <= stat.maxHp /\ stat.mp <= stat.maxMp
      BY <2>1, <2>2, <3>1, Limits, DamagedTypes
    <3>3. TypeOK'
      BY <2>2, <3>1, <3>2 DEF TypeOK
    <3>4. QED
      BY <2>1, <2>2, <3>1, <3>2, <3>3, QuietJob DEF Stat
  <2>12. CASE HealDue
    <3>1. /\ UNCHANGED <<state, stat, ready, using, counts>>
          /\ healTimers' \in Nat /\ healJobs' \in Nat
      BY <2>2, <2>12 DEF HealDue
    <3>2. TypeOK'
      BY <2>2, <3>1 DEF TypeOK, counts
    <3>3. QED
      BY <2>2, <3>1, <3>2 DEF VitalsInv, Alive, ExpConserved, Affordable, Rising, counts
  <2>13. CASE Heal
    <3>1. /\ UNCHANGED <<state, ready, using, counts>>
          /\ healTimers' \in Nat /\ healJobs' \in Nat
          /\ state # "alloc" /\ using = NoSkill
      BY <2>2, <2>13 DEF Heal, MayRun, Affordable, RegisterHealUnless
    <3>2. Tenth(stat).hp \in Nat /\ Tenth(stat).mp \in Nat
      BY <2>2 DEF Tenth, Stat
    <3>3. stat.hp <= stat.maxHp /\ stat.mp <= stat.maxMp /\ stat.hp >= 1
      BY <2>2, <3>1 DEF Alive
    <3> DEFINE s == HealHp(stat, Tenth(stat).hp)
    <3>4. /\ s \in Stat /\ s = [stat EXCEPT !.hp = s.hp]
          /\ s.hp >= stat.hp /\ s.hp <= stat.maxHp
      BY <2>2, <3>2, <3>3, HealHpTypes
    <3>5. stat' = HealMp(s, Tenth(stat).mp)
      BY <2>13 DEF Heal
    <3> HIDE DEF s
    <3>6. s.mp = stat.mp /\ s.maxMp = stat.maxMp
      BY <2>2, <3>4 DEF Stat
    <3>7. /\ stat' \in Stat /\ stat' = [s EXCEPT !.mp = stat'.mp]
          /\ stat'.mp >= s.mp /\ stat'.mp <= s.maxMp
      BY <3>2, <3>3, <3>4, <3>5, <3>6, HealMpTypes
    <3>8. TypeOK'
      BY <2>2, <3>1, <3>7 DEF TypeOK, counts
    <3>9. /\ stat'.level = stat.level /\ stat'.exp = stat.exp
          /\ stat'.maxExp = stat.maxExp /\ stat'.maxHp = stat.maxHp
          /\ stat'.maxMp = stat.maxMp /\ stat'.hp = s.hp
      BY <2>2, <3>4, <3>7 DEF Stat
    <3>10. QED
      BY <2>1, <2>2, <3>1, <3>3, <3>4, <3>6, <3>7, <3>8, <3>9, QuietJob DEF Stat, counts
  <2>14. CASE EndVisit \/ Unmark
    <3>1. UNCHANGED <<state, stat, ready, using, healTimers, healJobs, counts>>
      BY <2>14 DEF EndVisit, Unmark
    <3>2. TypeOK'
      BY <2>2, <3>1 DEF TypeOK, counts
    <3>3. QED
      BY <2>2, <3>1, <3>2 DEF VitalsInv, Alive, ExpConserved, Affordable, Rising, counts
  <2>15. CASE UNCHANGED vars
    BY <2>2, <2>15
       DEF vars, counts, VitalsInv, TypeOK, Alive, ExpConserved, Affordable, Rising
  <2>16. QED
    BY <2>1, <2>3, <2>4, <2>5, <2>6, <2>7, <2>8, <2>9, <2>10, <2>11, <2>12, <2>13, <2>14, <2>15
       DEF Next
<1>3. QED
  BY <1>1, <1>2, PTL DEF Spec

\* Every variable of the vitals has its type: nothing becomes negative.
THEOREM TypeInvariant == Spec => []TypeOK
BY VitalsInvariant, PTL DEF VitalsInv

\* A player in game is alive and within his limits, at every level.
THEOREM AliveInvariant == Spec => []Alive
BY VitalsInvariant, PTL DEF VitalsInv

\* Experience is conserved through any number of kills and level-ups.
THEOREM ExpInvariant == Spec => []ExpConserved
BY VitalsInvariant, PTL DEF VitalsInv

\* Jobs that take neither health nor mana, and no heal event, keep a player who
\* is not healing whole.
LEMMA NoHarm ==
  ASSUME HealPending, UNCHANGED <<state, healTimers, healJobs>>,
         Whole => stat'.hp = stat'.maxHp /\ stat'.mp = stat'.maxMp
  PROVE  HealPending'
BY DEF HealPending, Hurt, Whole

\* A heal event registered by a job is pending after it.
LEMMA Registered ==
  ASSUME healTimers \in Nat, healJobs' \in Nat, healTimers' = healTimers + 1
  PROVE  HealPending'
<1>1. \A h, j \in Nat : (h + 1) + j > 0
  OBVIOUS
<1>2. healTimers' + healJobs' > 0
  BY <1>1
<1>3. QED
  BY <1>2 DEF HealPending

\* A player who lacks health or mana always has a heal event or job pending: no
\* order of hits, skills, potions, level-ups and heals breaks his recovery off.
THEOREM HealInvariant == Spec => []HealPending
<1>1. Init => HealPending
  BY DEF Init, HealPending, Hurt
<1>2. VitalsInv /\ VitalsInv' /\ HealPending /\ [Next]_vars => HealPending'
  <2>1. SUFFICES ASSUME VitalsInv, VitalsInv', HealPending, [Next]_vars
                 PROVE  HealPending'
    OBVIOUS
  <2>2. /\ TypeOK /\ Alive /\ Affordable
        /\ stat \in Stat /\ healTimers \in Nat /\ healJobs \in Nat
        /\ stat' \in Stat /\ healTimers' \in Nat /\ healJobs' \in Nat
    BY <2>1 DEF VitalsInv, TypeOK
  <2>3. CASE Login
    BY <2>3 DEF Login, HealPending, Hurt, Whole
  <2>4. CASE Logout
    BY <2>4 DEF Logout, HealPending, Hurt
  <2>5. ASSUME NEW k \in Skills, BeginSkill(k)
        PROVE  HealPending'
    <3>1. /\ stat'.hp = stat.hp /\ stat'.maxHp = stat.maxHp
          /\ stat'.mp = stat.mp /\ stat'.maxMp = stat.maxMp
      BY <2>2, <2>5 DEF BeginSkill, Stat
    <3>2. UNCHANGED <<state, healTimers, healJobs>>
      BY <2>5 DEF BeginSkill
    <3>3. QED
      BY <2>1, <3>1, <3>2, NoHarm DEF Whole
  <2>6. ASSUME NEW e \in Rewards, Kill(e)
        PROVE  HealPending'
    <3>1. /\ stat'.hp = stat.hp /\ stat'.maxHp = stat.maxHp
          /\ stat'.mp = stat.mp /\ stat'.maxMp = stat.maxMp
      BY <2>2, <2>6 DEF Kill, Stat
    <3>2. UNCHANGED <<state, healTimers, healJobs>>
      BY <2>6 DEF Kill
    <3>3. QED
      BY <2>1, <3>1, <3>2, NoHarm DEF Whole
  <2>7. CASE LevelUp
    <3> DEFINE s == Rise(stat)
    <3>1. UNCHANGED <<state, healTimers, healJobs>> /\ (stat' = s \/ stat' = Refill(s))
      BY <2>7 DEF LevelUp
    <3>2. s.hp = stat.hp /\ s.maxHp = stat.maxHp /\ s.mp = stat.mp /\ s.maxMp = stat.maxMp
      BY <2>2 DEF Rise, Stat
    <3>3. Refill(s).hp = Refill(s).maxHp /\ Refill(s).mp = Refill(s).maxMp
      BY <2>2 DEF Rise, Refill, Stat
    <3> HIDE DEF s
    <3>4. QED
      BY <2>1, <3>1, <3>2, <3>3, NoHarm DEF Whole
  <2>8. CASE EndSkill
    <3>1. /\ Consumption[using] \in 0..15 /\ stat.mp >= Consumption[using]
          /\ stat.mp <= stat.maxMp
      BY <2>2, <2>8, Costs DEF EndSkill, Affordable, TypeOK, Alive
    <3>2. stat' = [stat EXCEPT !.mp = stat.mp - Consumption[using]]
      BY <2>2, <2>8, <3>1 DEF EndSkill, SetMp, AtMost, Stat
    <3>3. CASE stat'.mp = stat'.maxMp
      <4>1. UNCHANGED <<state, healTimers, healJobs>>
        BY <2>8, <3>3 DEF EndSkill, RegisterHealUnless, IsMaxMp
      <4>2. stat'.hp = stat.hp /\ stat'.maxHp = stat.maxHp
        BY <2>2, <3>2 DEF Stat
      <4>3. QED
        BY <2>1, <3>3, <4>1, <4>2, NoHarm DEF Whole
    <3>4. CASE stat'.mp # stat'.maxMp
      <4>1. healTimers' = healTimers + 1
        BY <2>8, <3>4 DEF EndSkill, RegisterHealUnless, IsMaxMp
      <4>2. QED
        BY <2>2, <4>1, Registered
    <3>5. QED
      BY <3>3, <3>4
  <2>9. ASSUME NEW k \in Skills, RefuseSkill(k)
        PROVE  HealPending'
    <3>1. UNCHANGED <<state, stat, healJobs>>
            /\ (healTimers' = healTimers \/ healTimers' = healTimers + 1)
      BY <2>9 DEF RefuseSkill, RegisterHealUnless
    <3>2. QED
      BY <2>1, <2>2, <3>1, NoHarm, Registered DEF Whole
  <2>10. ASSUME NEW k \in Skills, CoolDown(k)
         PROVE  HealPending'
    BY <2>1, <2>10 DEF CoolDown, HealPending, Hurt, Whole
  <2>11. ASSUME NEW p \in Potions, UsePotion(p)
         PROVE  HealPending'
    <3>1. /\ UNCHANGED <<state, healTimers, healJobs>>
          /\ stat' = HealHp(stat, 50) \/ stat' = HealMp(stat, 30)
      BY <2>11 DEF UsePotion
    <3>2. ASSUME Whole
          PROVE  stat'.hp = stat'.maxHp /\ stat'.mp = stat'.maxMp
      BY <2>2, <3>1, <3>2 DEF Whole, HealHp, HealMp, AtMost, Stat
    <3>3. QED
      BY <2>1, <3>1, <3>2, NoHarm
  <2>12. ASSUME NEW power \in Powers, Hit(power)
         PROVE  HealPending'
    <3>1. state # "alloc" /\ using = NoSkill /\ power \in Nat \ {0}
            /\ stat' = Damaged(stat, power)
      BY <2>12, ParameterAssumption DEF Hit, MayRun
    <3>2. stat'.hp # stat'.maxHp
      <4>1. stat.maxHp >= 100 /\ stat.hp <= stat.maxHp
        BY <2>1, <3>1, Limits
      <4>2. stat.maxHp \div 2 < stat.maxHp /\ stat.maxHp \div 2 \in Nat
        BY <2>2, <4>1 DEF Stat
      <4>3. QED
        BY <2>2, <3>1, <4>1, <4>2 DEF Damaged, Stat
    <3>3. healTimers' = healTimers + 1
      BY <2>12, <3>2 DEF Hit, RegisterHealUnless, IsMaxHp
    <3>4. QED
      BY <2>2, <3>3, Registered
  <2>13. CASE HealDue
    <3>1. healTimers' + healJobs' = healTimers + healJobs /\ UNCHANGED <<state, stat>>
      BY <2>2, <2>13 DEF HealDue
    <3>2. QED
      BY <2>1, <3>1 DEF HealPending, Hurt, Whole
  <2>14. CASE Heal
    <3>1. CASE IsFullCondition(stat')
      BY <3>1 DEF HealPending, Hurt, Whole, IsFullCondition, IsMaxHp, IsMaxMp
    <3>2. CASE ~IsFullCondition(stat')
      <4>1. healTimers' = healTimers + 1
        BY <2>14, <3>2 DEF Heal, RegisterHealUnless
      <4>2. QED
        BY <2>2, <4>1, Registered
    <3>3. QED
      BY <3>1, <3>2
  <2>15. CASE EndVisit \/ Unmark
    <3>1. UNCHANGED <<state, stat, healTimers, healJobs>>
      BY <2>15 DEF EndVisit, Unmark
    <3>2. QED
      BY <2>1, <3>1 DEF HealPending, Hurt, Whole
  <2>16. CASE UNCHANGED vars
    BY <2>1, <2>16 DEF vars, HealPending, Hurt, Whole
  <2>17. QED
    BY <2>1, <2>3, <2>4, <2>5, <2>6, <2>7, <2>8, <2>9, <2>10, <2>11, <2>12, <2>13,
       <2>14, <2>15, <2>16 DEF Next
<1>3. QED
  BY <1>1, <1>2, VitalsInvariant, PTL DEF Spec
=============================================================================
