------------------------- MODULE MonsterViewsProofs -------------------------
(***************************************************************************)
(* Theorems about ViewSync and MonsterViews together, for any players and  *)
(* monsters, any size of the world and range of view, and any number of    *)
(* steps: types, what the grid lists, what looking around finds, what a    *)
(* client shows, that monsters are woken and forgotten, and that whoever   *)
(* comes is seen.  Nothing is assumed of the scheduler.                    *)
(***************************************************************************)
EXTENDS MonsterViews, TLAPS

(* What the handlers rely on: who is at which stage, whom the loops go     *)
(* through there, and what a turn of a loop can be made of.                *)

\* Players and monsters have stages of their own, and a monster's thread does something
\* to others, or knows where it goes, at certain stages only.
PhaseInv ==
  /\ \A p \in Players : phase[p] \in Phases
  /\ \A t \in Actors \ Players :
       /\ phase[t] \in MonsterPhases
       /\ script[t] # <<>> => phase[t] \in {"post", "part", "appear"}
       /\ phase[t] \in {"leave", "arrive"} => goal[t] \in Positions

\* Who is not logged in does nothing but log in.
EntryInv == \A p \in Players : st[p] = "out" => phase[p] \in {"idle", "enter"}

\* A kill is of a monster.
PreyInv == \A p \in Players : phase[p] \in {"kill", "mourn", "bury"} => prey[p] \in Monsters

\* A kill and a logout go through players.
ViewersInv ==
  \A p \in Players :
    /\ phase[p] \notin {"look", "tell", "drop", "mourn", "bury"} => new[p] = {}
    /\ phase[p] \in {"mourn", "bury"} => new[p] \subseteq Players /\ todo[p] \subseteq Players
    /\ phase[p] = "bye" => todo[p] \subseteq Players

\* A monster sees players only.
WatchersInv ==
  /\ \A t \in Actors \ Players : new[t] \subseteq Players /\ todo[t] \subseteq Players
  /\ \A m \in Monsters : view[m] \subseteq Players

\* An access is to somebody who has what is accessed.
Sound(a) ==
  /\ IF a.op \in {"wake"} \cup Waking THEN a.of \in Monsters /\ a.obj \in Players
                                      ELSE a.of \in Players
  /\ a.op = "meet" => a.obj \in Players

\* The packet follows the change of the list that it tells of, a meeting is all there
\* is to its turn, and a wake-up goes on before anything else.
Chained(s) ==
  /\ \A i \in 1..Len(s) : Sound(s[i])
  /\ \A i \in 1..Len(s) :
       /\ s[i].op = "meet" => Len(s) = 1
       /\ s[i].op = "insert" => i < Len(s) /\ s[i + 1] = Op("show", s[i].of, s[i].obj)
       /\ s[i].op = "erase" => i < Len(s) /\ s[i + 1] = Op("hide", s[i].of, s[i].obj)
       /\ s[i].op = "show" /\ i > 1 => s[i - 1] = Op("insert", s[i].of, s[i].obj)
       /\ s[i].op = "hide" /\ i > 1 => s[i - 1] = Op("erase", s[i].of, s[i].obj)
       /\ s[i].op \in Waking => \A k \in 1..i : s[k].op \in Waking /\ s[k].of = s[i].of

ScriptInv == \A t \in Actors : script[t] \in Seq(Access) /\ Chained(script[t])

ShapeInv == PhaseInv /\ EntryInv /\ PreyInv /\ ViewersInv /\ WatchersInv /\ ScriptInv

Typed == ViewTypes /\ ShapeInv

-----------------------------------------------------------------------------
(* Scripts.                                                                *)

LEMMA HeadLemma ==
  ASSUME NEW S, NEW s \in Seq(S)
  PROVE  /\ Len(s) \in Nat
         /\ s # <<>> <=> Len(s) > 0
         /\ s # <<>> => Head(s) = s[1] /\ s[1] \in S
OBVIOUS

LEMMA OneChained ==
  ASSUME NEW a \in Access, Sound(a), a.op \in JobKinds \cup {"wake", "meet"}
  PROVE  <<a>> \in Seq(Access) /\ Chained(<<a>>)
BY DEF Chained, JobKinds, Waking

LEMMA AddChained ==
  ASSUME NEW p \in Players, NEW q \in Objects
  PROVE  /\ AddObjectToView(p, q) \in Seq(Access)
         /\ Chained(AddObjectToView(p, q))
         /\ \A i \in 1..Len(AddObjectToView(p, q)) : AddObjectToView(p, q)[i].op \notin {"meet"} \cup Waking
         /\ Head(AddObjectToView(p, q)).op = "insert"
<1>1. Op("insert", p, q) \in Access /\ Op("show", p, q) \in Access
  BY DEF Op, Access, Objects
<1> QED BY <1>1 DEF AddObjectToView, Chained, Sound, Op, Waking

LEMMA RemoveChained ==
  ASSUME NEW p \in Players, NEW q \in Objects
  PROVE  /\ RemoveObjectFromView(p, q) \in Seq(Access)
         /\ Chained(RemoveObjectFromView(p, q))
         /\ \A i \in 1..Len(RemoveObjectFromView(p, q)) : RemoveObjectFromView(p, q)[i].op # "meet"
<1>1. Op("erase", p, q) \in Access /\ Op("hide", p, q) \in Access
  BY DEF Op, Access, Objects
<1> QED BY <1>1 DEF RemoveObjectFromView, Chained, Sound, Op, Waking

LEMMA ConcatChained ==
  ASSUME NEW s \in Seq(Access), NEW t \in Seq(Access), Chained(s), Chained(t),
         \A i \in 1..Len(s) : s[i].op # "meet",
         \A i \in 1..Len(t) : t[i].op \notin {"meet"} \cup Waking,
         t # <<>> => Head(t).op \notin {"show", "hide"}
  PROVE  /\ s \o t \in Seq(Access)
         /\ Chained(s \o t)
<1> DEFINE c == s \o t
<1>1. /\ c \in Seq(Access) /\ Len(c) = Len(s) + Len(t)
      /\ \A i \in 1..Len(c) : c[i] = IF i <= Len(s) THEN s[i] ELSE t[i - Len(s)]
      /\ Len(s) \in Nat /\ Len(t) \in Nat
  OBVIOUS
<1>2. t # <<>> => Head(t) = t[1]
  OBVIOUS
<1>3. t # <<>> <=> Len(t) > 0
  OBVIOUS
<1> HIDE DEF c
<1>4. ASSUME NEW i \in 1..Len(c) PROVE Sound(c[i]) /\ c[i].op # "meet"
  <2>1. CASE i <= Len(s)
    <3>1. i \in 1..Len(s) /\ c[i] = s[i]
      BY <1>1, <2>1
    <3> QED BY <3>1 DEF Chained
  <2>2. CASE i > Len(s)
    <3>1. i - Len(s) \in 1..Len(t) /\ c[i] = t[i - Len(s)]
      BY <1>1, <2>2
    <3> QED BY <3>1 DEF Chained
  <2> QED BY <1>1, <2>1, <2>2
<1>5. ASSUME NEW i \in 1..Len(c)
      PROVE  /\ c[i].op = "insert" => i < Len(c) /\ c[i + 1] = Op("show", c[i].of, c[i].obj)
             /\ c[i].op = "erase" => i < Len(c) /\ c[i + 1] = Op("hide", c[i].of, c[i].obj)
             /\ c[i].op = "show" /\ i > 1 => c[i - 1] = Op("insert", c[i].of, c[i].obj)
             /\ c[i].op = "hide" /\ i > 1 => c[i - 1] = Op("erase", c[i].of, c[i].obj)
             /\ c[i].op \in Waking => \A k \in 1..i : c[k].op \in Waking /\ c[k].of = c[i].of
  <2>1. CASE i <= Len(s)
    <3>1. i \in 1..Len(s) /\ c[i] = s[i]
      BY <1>1, <2>1
    <3>2. s[i].op \in {"insert", "erase"} => i < Len(s) /\ i + 1 \in 1..Len(c) /\ c[i + 1] = s[i + 1]
      BY <1>1, <3>1 DEF Chained
    <3>3. i > 1 => i - 1 \in 1..Len(c) /\ c[i - 1] = s[i - 1]
      BY <1>1, <3>1, SMTT(30)
    <3>4. \A k \in 1..i : k \in 1..Len(s) /\ c[k] = s[k]
      BY <1>1, <3>1
    <3>5. s[i].op \in Waking => \A k \in 1..i : s[k].op \in Waking /\ s[k].of = s[i].of
      BY <3>1 DEF Chained
    <3>6. c[i].op \in Waking => \A k \in 1..i : c[k].op \in Waking /\ c[k].of = c[i].of
      BY <3>1, <3>4, <3>5
    <3>7. /\ s[i].op = "insert" => s[i + 1] = Op("show", s[i].of, s[i].obj)
          /\ s[i].op = "erase" => s[i + 1] = Op("hide", s[i].of, s[i].obj)
          /\ s[i].op = "show" /\ i > 1 => s[i - 1] = Op("insert", s[i].of, s[i].obj)
          /\ s[i].op = "hide" /\ i > 1 => s[i - 1] = Op("erase", s[i].of, s[i].obj)
      BY <3>1 DEF Chained
    <3> QED BY <1>1, <3>1, <3>2, <3>3, <3>6, <3>7
  <2>2. CASE i > Len(s)
    <3> DEFINE j == i - Len(s)
    <3>1. j \in 1..Len(t) /\ c[i] = t[j]
      BY <1>1, <2>2
    <3>2. t[j].op \in {"insert", "erase"} => j < Len(t) /\ i < Len(c) /\ c[i + 1] = t[j + 1]
      BY <1>1, <3>1, SMTT(30) DEF Chained
    <3>3. j > 1 => i > 1 /\ c[i - 1] = t[j - 1]
      BY <1>1, <3>1, SMTT(30)
    <3>4. j = 1 => t[j].op \notin {"show", "hide"}
      BY <1>2, <1>3, <3>1
    <3> HIDE DEF j
    <3>5. t[j].op \notin Waking
      BY <3>1
    <3>6. /\ t[j].op = "insert" => t[j + 1] = Op("show", t[j].of, t[j].obj)
          /\ t[j].op = "erase" => t[j + 1] = Op("hide", t[j].of, t[j].obj)
          /\ t[j].op = "show" /\ j > 1 => t[j - 1] = Op("insert", t[j].of, t[j].obj)
          /\ t[j].op = "hide" /\ j > 1 => t[j - 1] = Op("erase", t[j].of, t[j].obj)
      BY <3>1 DEF Chained
    <3> QED BY <3>1, <3>2, <3>3, <3>4, <3>5, <3>6
  <2> QED BY <1>1, <2>1, <2>2
<1> QED BY <1>1, <1>4, <1>5 DEF Chained, c

LEMMA TailChained ==
  ASSUME NEW s \in Seq(Access), Chained(s), s # <<>>
  PROVE  /\ Head(s) \in Access /\ Sound(Head(s))
         /\ Tail(s) \in Seq(Access) /\ Chained(Tail(s))
         /\ Head(s).op = "meet" => Tail(s) = <<>>
         /\ Head(s).op = "insert" =>
              Tail(s) # <<>> /\ Head(Tail(s)) = Op("show", Head(s).of, Head(s).obj)
         /\ Head(s).op = "erase" =>
              /\ Tail(s) # <<>> /\ Head(Tail(s)) = Op("hide", Head(s).of, Head(s).obj)
         /\ \A i \in 1..Len(Tail(s)) :
              /\ Tail(s)[i].op # "meet"
              /\ Tail(s)[i].op \in Waking => Head(s).op \in Waking /\ Head(s).of = Tail(s)[i].of
         /\ Tail(s) # <<>> /\ Head(Tail(s)).op = "show" =>
              Head(s) = Op("insert", Head(Tail(s)).of, Head(Tail(s)).obj)
         /\ Tail(s) # <<>> /\ Head(Tail(s)).op = "hide" =>
              Head(s) = Op("erase", Head(Tail(s)).of, Head(Tail(s)).obj)
<1> DEFINE t == Tail(s)
<1>1. /\ t \in Seq(Access) /\ Len(t) = Len(s) - 1 /\ \A i \in 1..Len(t) : t[i] = s[i + 1]
      /\ Len(s) \in Nat \ {0} /\ Len(t) \in Nat
      /\ Head(s) = s[1] /\ s[1] \in Access
  OBVIOUS
<1> HIDE DEF t
<1>2. (t # <<>> <=> Len(t) > 0) /\ (t # <<>> => Head(t) = t[1])
  BY <1>1, HeadLemma
<1>3. Chained(t)
  <2>1. ASSUME NEW i \in 1..Len(t)
        PROVE  /\ i + 1 \in 1..Len(s) /\ t[i] = s[i + 1] /\ (i + 1) - 1 = i /\ i + 1 > 1
               /\ i + 1 < Len(s) => i < Len(t) /\ t[i + 1] = s[(i + 1) + 1]
               /\ i > 1 => t[i - 1] = s[i]
    BY <1>1
  <2>2. ASSUME NEW i \in 1..Len(t) PROVE Sound(t[i]) /\ t[i].op # "meet"
    <3>1. Sound(t[i])
      BY <2>1, <2>2 DEF Chained
    <3>2. t[i].op = "meet" => Len(s) = 1
      BY <2>1, <2>2 DEF Chained
    <3>3. Len(s) # 1
      BY <1>1, <2>2
    <3> QED BY <2>2, <3>1, <3>2, <3>3
  <2>3. ASSUME NEW i \in 1..Len(t)
        PROVE  /\ t[i].op = "insert" => i < Len(t) /\ t[i + 1] = Op("show", t[i].of, t[i].obj)
               /\ t[i].op = "erase" => i < Len(t) /\ t[i + 1] = Op("hide", t[i].of, t[i].obj)
    BY <2>1 DEF Chained
  <2>4. ASSUME NEW i \in 1..Len(t)
        PROVE  /\ t[i].op = "show" /\ i > 1 => t[i - 1] = Op("insert", t[i].of, t[i].obj)
               /\ t[i].op = "hide" /\ i > 1 => t[i - 1] = Op("erase", t[i].of, t[i].obj)
    BY <2>1 DEF Chained
  <2>5. ASSUME NEW i \in 1..Len(t), t[i].op \in Waking, NEW k \in 1..i
        PROVE  t[k].op \in Waking /\ t[k].of = t[i].of
    <3>1. k + 1 \in 1..(i + 1) /\ k \in 1..Len(t) /\ i + 1 \in 1..Len(s)
      BY <1>1
    <3>2. t[i] = s[i + 1] /\ t[k] = s[k + 1]
      BY <2>1, <3>1
    <3>3. \A l \in 1..(i + 1) : s[l].op \in Waking /\ s[l].of = s[i + 1].of
      BY <2>5, <3>1, <3>2 DEF Chained
    <3> QED BY <3>1, <3>2, <3>3
  <2> QED BY <2>2, <2>3, <2>4, <2>5 DEF Chained
<1>8. \A i \in 1..Len(t) :
        /\ t[i].op # "meet"
        /\ t[i].op \in Waking => s[1].op \in Waking /\ s[1].of = t[i].of
  <2> SUFFICES ASSUME NEW i \in 1..Len(t)
               PROVE  /\ t[i].op # "meet"
                      /\ t[i].op \in Waking => s[1].op \in Waking /\ s[1].of = t[i].of
    OBVIOUS
  <2>1. i + 1 \in 1..Len(s) /\ t[i] = s[i + 1] /\ 1 \in 1..(i + 1) /\ Len(s) # 1
    BY <1>1
  <2> QED BY <2>1 DEF Chained
<1>4. Sound(s[1]) /\ (s[1].op = "meet" => Len(s) = 1)
  BY <1>1 DEF Chained
<1>5. s[1].op = "insert" => Len(t) > 0 /\ t[1] = Op("show", s[1].of, s[1].obj)
  BY <1>1 DEF Chained
<1>6. s[1].op = "erase" => Len(t) > 0 /\ t[1] = Op("hide", s[1].of, s[1].obj)
  BY <1>1 DEF Chained
<1>7. Len(t) > 0 => /\ t[1].op = "show" => s[1] = Op("insert", t[1].of, t[1].obj)
                    /\ t[1].op = "hide" => s[1] = Op("erase", t[1].of, t[1].obj)
  <2>1. Len(t) > 0 => 2 \in 1..Len(s) /\ t[1] = s[2] /\ 2 - 1 = 1
    BY <1>1
  <2>2. \A i \in 1..Len(s) :
          /\ s[i].op = "show" /\ i > 1 => s[i - 1] = Op("insert", s[i].of, s[i].obj)
          /\ s[i].op = "hide" /\ i > 1 => s[i - 1] = Op("erase", s[i].of, s[i].obj)
    BY DEF Chained
  <2>3. 2 \in 1..Len(s) => s[2 - 1] = s[1]
    OBVIOUS
  <2>4. ASSUME Len(t) > 0
        PROVE  /\ s[2].op = "show" => s[1] = Op("insert", s[2].of, s[2].obj)
               /\ s[2].op = "hide" => s[1] = Op("erase", s[2].of, s[2].obj)
    <3>1. 2 \in 1..Len(s) /\ 2 > 1
      BY <2>1, <2>4
    <3> QED BY <2>2, <2>3, <3>1
  <2> QED BY <2>1, <2>4
<1>9. /\ t # <<>> /\ Head(t).op = "show" => s[1] = Op("insert", Head(t).of, Head(t).obj)
      /\ t # <<>> /\ Head(t).op = "hide" => s[1] = Op("erase", Head(t).of, Head(t).obj)
  BY <1>2, <1>7
<1>10. /\ s[1].op = "meet" => t = <<>>
       /\ s[1].op = "insert" => t # <<>> /\ Head(t) = Op("show", s[1].of, s[1].obj)
       /\ s[1].op = "erase" => t # <<>> /\ Head(t) = Op("hide", s[1].of, s[1].obj)
  BY <1>1, <1>2, <1>4, <1>5, <1>6
<1>11. s[1] = Head(s) /\ s[1] \in Access /\ t \in Seq(Access)
  BY <1>1
<1> QED
  <2> HIDE DEF Chained, Sound
  <2> QED BY <1>3, <1>4, <1>8, <1>9, <1>10, <1>11, Zenon DEF t

LEMMA WakenChained ==
  ASSUME NEW m \in Monsters, NEW p \in Players
  PROVE  /\ Waken(m, p) \in Seq(Access) /\ Chained(Waken(m, p))
         /\ \A i \in 1..Len(Waken(m, p)) : Waken(m, p)[i].op # "meet"
<1> DEFINE a == Op("rouse", m, p)
           b == Op("clear", m, p)
           c == Op("scan", m, p)
           d == Op("start", m, p)
<1>1. a \in Access /\ b \in Access /\ c \in Access /\ d \in Access
  BY DEF Op, Access, Objects, Waking
<1>2. \A x \in {a, b, c, d} : x.op \in Waking /\ x.of = m /\ Sound(x)
  BY DEF Op, Waking, Sound
<1> HIDE DEF a, b, c, d
<1>3. /\ Waken(m, p) \in Seq(Access) /\ Len(Waken(m, p)) = 4
      /\ \A i \in 1..4 : Waken(m, p)[i] \in {a, b, c, d}
  <2>1. Waken(m, p) = <<a, b, c, d>>
    BY DEF Waken, a, b, c, d
  <2> QED BY <1>1, <2>1
<1>4. \A x \in {a, b, c, d} : x.op \notin {"meet", "insert", "erase", "show", "hide"}
  BY <1>2 DEF Waking
<1> QED BY <1>2, <1>3, <1>4 DEF Chained

\* What is done about q in view: it is told, and added if it was not in the list.
LEMMA NoticeAdd ==
  ASSUME NEW p \in Players, NEW q \in Objects
  PROVE  /\ <<Notice(p, q)>> \in Seq(Access) /\ Chained(<<Notice(p, q)>>)
         /\ <<Notice(p, q)>> \o AddObjectToView(p, q) \in Seq(Access)
         /\ Chained(<<Notice(p, q)>> \o AddObjectToView(p, q))
         /\ q \in Monsters => Notice(p, q) = Op("wake", q, p)
<1> DEFINE n == Notice(p, q)
<1>1. n \in Access /\ Sound(n) /\ n.op \in JobKinds \cup {"wake"} /\ (q \in Monsters => n = Op("wake", q, p))
  <2>1. CASE q \in Monsters
    <3>1. n = Op("wake", q, p)
      BY <2>1 DEF Notice
    <3> QED BY <2>1, <3>1 DEF Op, Access, Sound, JobKinds, Waking, Objects
  <2>2. CASE q \notin Monsters
    <3>1. n = Op("seeNow", q, p) \/ n = Op("see", q, p)
      BY <2>2 DEF Notice
    <3> QED BY <2>2, <3>1 DEF Op, Access, Sound, JobKinds, Waking, Objects
  <2> QED BY <2>1, <2>2
<1> HIDE DEF n
<1>2. <<n>> \in Seq(Access) /\ Chained(<<n>>) /\ \A i \in 1..Len(<<n>>) : <<n>>[i].op # "meet"
  BY <1>1, OneChained DEF JobKinds
<1>3. <<n>> \o AddObjectToView(p, q) \in Seq(Access) /\ Chained(<<n>> \o AddObjectToView(p, q))
  BY <1>2, AddChained, ConcatChained
<1> QED BY <1>1, <1>2, <1>3 DEF n

-----------------------------------------------------------------------------
(* Places.                                                                 *)

LEMMA Division ==
  ASSUME NEW a \in Nat, NEW b \in Nat, NEW d \in Nat \ {0}
  PROVE  /\ a \div d \in Nat
         /\ a <= b => a \div d <= b \div d
         /\ a <= b + d - 1 => a \div d <= b \div d + 1
OBVIOUS

LEMMA SectionLemma ==
  ASSUME NEW at \in Positions
  PROVE  SectionOf(at) \in Sections
<1>1. SectionSize \in Nat \ {0} /\ Width \in Nat /\ at[1] \in Nat /\ at[2] \in Nat
  BY SizeAssumption DEF SectionSize, Positions
<1>2. at[1] <= Width /\ at[2] <= Width
  BY SizeAssumption DEF Positions
<1>3. /\ at[1] \div SectionSize \in Nat /\ at[2] \div SectionSize \in Nat
      /\ Width \div SectionSize \in Nat
      /\ at[1] \div SectionSize <= Width \div SectionSize
      /\ at[2] \div SectionSize <= Width \div SectionSize
  BY <1>1, <1>2, Division
<1> QED BY <1>3 DEF SectionOf, Sections, SectionNum

LEMMA AroundLemma ==
  ASSUME NEW s \in Sections
  PROVE  Around(s) \subseteq Sections
<1>1. SectionNum \in Nat
  BY SizeAssumption, Division DEF SectionNum, SectionSize
<1>2. ASSUME NEW i \in 0..(SectionNum - 1) PROVE Reach(i) \subseteq 0..(SectionNum - 1)
  BY <1>1 DEF Reach
<1> QED BY <1>2 DEF Around, Sections

LEMMA StepLemma ==
  ASSUME NEW at, NEW from \in Positions, at = from \/ (at \in Neighbours(from) /\ CanMove(at))
  PROVE  at \in Positions
BY PlaceAssumption DEF CanMove

LEMMA StartLemma == ASSUME NEW o \in Objects PROVE Start(o) \in Positions
BY SizeAssumption, SeatAssumption, ObjectAssumption DEF Start, Positions, Objects

LEMMA CastLemma == ASSUME cast \in DOMAIN Casts PROVE cast \subseteq Objects /\ Casts[cast] \in Nat
BY BoundAssumption

LEMMA TakeTypes ==
  ASSUME ViewTypes, NEW o \in Objects, NEW beside, beside \subseteq Objects, TakePlace(o, beside)
  PROVE  /\ later' \subseteq Objects \X Objects
         /\ missed' \subseteq Objects \X Objects
         /\ steady' \in [Objects -> SUBSET Objects]
BY CastLemma DEF ViewTypes, TakePlace

-----------------------------------------------------------------------------
(* Types.                                                                  *)

LEMMA InitTypes == ViewInit => Typed
<1> SUFFICES ASSUME ViewInit PROVE Typed
  OBVIOUS
<1>1. \A o \in Objects : Start(o) \in Positions /\ SectionOf(Start(o)) \in Sections
  BY StartLemma, SectionLemma
<1>2. Placed \subseteq Objects /\ \A o \in Objects : Sees(o) \subseteq Objects
  BY CastLemma DEF ViewInit, Placed, Sees
<1>3. \A m \in Monsters : Sees(m) \subseteq Players
  BY <1>2, ObjectAssumption DEF Sees, Objects
<1>4. view \in [Objects -> SUBSET Objects] /\ \A m \in Monsters : view[m] \subseteq Players
  BY <1>2, <1>3 DEF ViewInit, Objects
<1>5. ViewTypes
  <2>1. /\ pos \in [Objects -> Positions] /\ sect \in [Objects -> Sections]
        /\ grid \in [Sections -> SUBSET Objects]
    BY <1>1, <1>2 DEF ViewInit
  <2>2. shown \in [Players -> [Objects -> Positions \cup {Nowhere}]]
    BY <2>1 DEF ViewInit
  <2>3. moves \in Nat /\ cast \in DOMAIN Casts
    BY CastLemma DEF ViewInit
  <2>4. /\ st \in [Players -> {"out", "ingame", "gone"}]
        /\ jobs \in [Players -> Seq(Job)]
        /\ awake \subseteq Monsters
        /\ life \in [Monsters -> {"alive", "down", "dead"}]
        /\ due \in [Monsters -> Nat]
        /\ prey \in [Players -> Monsters \cup {Nobody}]
        /\ phase \in [Actors -> Phases \cup MonsterPhases]
        /\ dying \subseteq Players
        /\ links \in [Monsters -> Nat] /\ doubled \subseteq Monsters
        /\ goal \in [Actors -> Positions \cup {Nowhere}]
    BY DEF ViewInit, Phases
  <2>5. /\ script \in [Actors -> Seq(Access)]
        /\ visit \in [Actors -> SUBSET Sections]
        /\ todo \in [Actors -> SUBSET Objects]
        /\ old \in [Objects -> SUBSET Objects]
        /\ new \in [Actors -> SUBSET Objects]
        /\ later = {} /\ missed = {} /\ crossed = {} /\ hollow = {}
        /\ steady \in [Objects -> SUBSET Objects]
    BY DEF ViewInit
  <2> QED BY <1>4, <2>1, <2>2, <2>3, <2>4, <2>5 DEF ViewTypes
<1>6. ShapeInv
  <2>1. \A t \in Actors : script[t] \in Seq(Access) /\ Len(script[t]) = 0
    BY DEF ViewInit
  <2>2. ScriptInv
    BY <2>1 DEF ScriptInv, Chained
  <2> QED BY <1>4, <2>2 DEF ViewInit, ShapeInv, PhaseInv, Phases, MonsterPhases, EntryInv, PreyInv,
             ViewersInv, WatchersInv, Objects, Actors
<1> QED BY <1>5, <1>6 DEF Typed

\* Every step leaves the cast alone.
LEMMA EnteringTypes == ASSUME Typed, NEW p \in Players, Entering(p) PROVE Typed'
<1> USE DEF Typed, ViewTypes, world, lair, local, history, At, Goto, Objects, Actors
<1>1. CASE Login(p)
  <2>1. pos' \in [Objects -> Positions]
    BY <1>1, PlaceAssumption DEF Login
  <2>2. later' \subseteq Objects \X Objects /\ missed' \subseteq Objects \X Objects
        /\ steady' \in [Objects -> SUBSET Objects]
    BY <1>1, TakeTypes DEF Login, Busy
  <2>3. ViewTypes'
    BY <1>1, <2>1, <2>2 DEF Login, Phases
  <2>4. ShapeInv'
    BY <1>1, ObjectAssumption DEF Login, ShapeInv, PhaseInv, Phases, EntryInv, PreyInv,
       ViewersInv, WatchersInv, ScriptInv
  <2> QED BY <2>3, <2>4
<1>2. CASE Enter(p)
  <2>1. ViewTypes'
    BY <1>2, CastLemma DEF Enter, Phases
  <2>2. ShapeInv'
    BY <1>2, CastLemma, ObjectAssumption DEF Enter, ShapeInv, PhaseInv, Phases, EntryInv,
       PreyInv, ViewersInv,
       WatchersInv, ScriptInv
  <2> QED BY <2>1, <2>2
<1>3. CASE Greet(p)
  <2>1. PICK q \in todo[p] :
          /\ todo' = [todo EXCEPT ![p] = @ \ {q}]
          /\ Rest(p, IF ~Near(pos[p], pos[q]) THEN <<>>
                     ELSE IF q \in Players THEN <<Op("meet", q, p)>>
                     ELSE <<Op("wake", q, p)>> \o AddObjectToView(p, q))
    BY <1>3 DEF Greet
  <2>2. q \in Objects
    OBVIOUS
  <2>3. /\ <<>> \in Seq(Access) /\ Chained(<<>>)
        /\ q \in Players => /\ <<Op("meet", q, p)>> \in Seq(Access)
                            /\ Chained(<<Op("meet", q, p)>>)
        /\ q \in Monsters => /\ <<Op("wake", q, p)>> \o AddObjectToView(p, q) \in Seq(Access)
                             /\ Chained(<<Op("wake", q, p)>> \o AddObjectToView(p, q))
    <3>1. <<>> \in Seq(Access) /\ Chained(<<>>)
      BY DEF Chained
    <3>2. q \in Players => /\ <<Op("meet", q, p)>> \in Seq(Access)
                           /\ Chained(<<Op("meet", q, p)>>)
      <4>1. q \in Players => Op("meet", q, p) \in Access /\ Sound(Op("meet", q, p))
                             /\ Op("meet", q, p).op = "meet"
        BY DEF Op, Access, Sound, Waking
      <4> QED BY <4>1, OneChained
    <3>3. q \in Monsters => /\ <<Op("wake", q, p)>> \o AddObjectToView(p, q) \in Seq(Access)
                            /\ Chained(<<Op("wake", q, p)>> \o AddObjectToView(p, q))
      BY <2>2, NoticeAdd DEF Notice
    <3> QED BY <3>1, <3>2, <3>3
  <2>4. script' \in [Actors -> Seq(Access)] /\ \A o \in Actors : Chained(script'[o]) /\ (o # p => script'[o] = script[o])
    BY <2>1, <2>2, <2>3 DEF Rest, ShapeInv, ScriptInv
  <2>5. ViewTypes'
    BY <1>3, <2>1, <2>4 DEF Greet
  <2>6. ShapeInv'
    BY <1>3, <2>1, <2>4, ObjectAssumption DEF Greet, ShapeInv, PhaseInv, Phases, EntryInv,
       PreyInv, ViewersInv,
       WatchersInv, ScriptInv
  <2> QED BY <2>5, <2>6
<1>4. CASE Greeted(p)
  <2>1. sect' \in [Objects -> Sections]
    BY <1>4, SectionLemma DEF Greeted
  <2>2. ViewTypes'
    BY <1>4, <2>1 DEF Greeted, Phases
  <2>3. ShapeInv'
    BY <1>4, ObjectAssumption DEF Greeted, ShapeInv, PhaseInv, Phases, EntryInv, PreyInv,
       ViewersInv, WatchersInv, ScriptInv
  <2> QED BY <2>2, <2>3
<1>5. CASE Register(p)
  <2>1. ViewTypes'
    BY <1>5 DEF Register, Phases
  <2>2. ShapeInv'
    BY <1>5, ObjectAssumption DEF Register, ShapeInv, PhaseInv, Phases, EntryInv, PreyInv,
       ViewersInv, WatchersInv, ScriptInv
  <2> QED BY <2>1, <2>2
<1> QED BY <1>1, <1>2, <1>3, <1>4, <1>5 DEF Entering

LEMMA StandTypes ==
  ASSUME Typed, NEW p \in Players, NEW at \in Positions, Stand(p, at),
         phase[p] = "idle", st[p] # "out", dying' \subseteq Players
  PROVE  Typed'
<1> USE DEF Typed, ViewTypes, world, lair, local, history, At, Goto, Objects, Actors
<1>1. pos' \in [Objects -> Positions]
  BY DEF Stand
<1>2. later' \subseteq Objects \X Objects /\ missed' \subseteq Objects \X Objects
      /\ steady' \in [Objects -> SUBSET Objects]
  BY TakeTypes DEF Stand, Settling
<1>3. phase' \in [Actors -> Phases \cup MonsterPhases] /\ moves' \in Nat
  BY DEF Stand, Phases
<1>4. ViewTypes'
  BY <1>1, <1>2, <1>3 DEF Stand
<1>5. ShapeInv'
  BY DEF Stand, ShapeInv, PhaseInv, Phases, EntryInv, PreyInv, ViewersInv, WatchersInv, ScriptInv
<1> QED BY <1>4, <1>5

\* The handlers of a monster are neither players nor other monsters.
LEMMA HandlersLemma ==
  ASSUME NEW m \in Monsters, NEW t \in Handlers(m)
  PROVE  /\ t \in Actors \ Players /\ m \in Objects \ Players
         /\ t \in Objects => t = m
         /\ t \notin Objects => t \in Twins /\ Of[t] = m
BY ObjectAssumption, TwinAssumption DEF Handlers, Actors, Objects

LEMMA LeaveTypes ==
  ASSUME Typed, NEW t \in Actors, NEW o \in Objects, t \in Players <=> o \in Players, Leave(t, o)
  PROVE  Typed'
<1> USE DEF Typed, ViewTypes, world, lair, local, history, At, Goto, Objects, Actors
<1>1. ViewTypes'
  BY DEF Leave, Phases, MonsterPhases
<1>2. ShapeInv'
  BY DEF Leave, ShapeInv, PhaseInv, Phases, MonsterPhases, EntryInv, PreyInv, ViewersInv, WatchersInv,
     ScriptInv
<1> QED BY <1>1, <1>2

LEMMA ArriveTypes == ASSUME Typed, NEW p \in Players, Arrive(p) PROVE Typed'
<1> USE DEF Typed, ViewTypes, world, lair, local, history, At, Goto, Objects, Actors
<1>1. sect' \in [Objects -> Sections] /\ SectionOf(pos[p]) \in Sections
  BY SectionLemma DEF Arrive
<1>2. later' \subseteq Objects \X Objects /\ missed' \subseteq Objects \X Objects
      /\ steady' \in [Objects -> SUBSET Objects]
  BY TakeTypes DEF Arrive, Settling
<1>3. /\ grid' \in [Sections -> SUBSET Objects]
      /\ phase' \in [Actors -> Phases \cup MonsterPhases]
  BY <1>1 DEF Arrive, Phases
<1>4. ViewTypes'
  BY <1>1, <1>2, <1>3 DEF Arrive
<1>5. ShapeInv'
  BY DEF Arrive, ShapeInv, PhaseInv, Phases, EntryInv, PreyInv, ViewersInv, WatchersInv, ScriptInv
<1> QED BY <1>4, <1>5

LEMMA StirringTypes == ASSUME Typed, NEW p \in Players, Stirring(p) PROVE Typed'
<1> USE DEF Ready, At
<1>1. CASE Move(p)
  <2>1. PICK at \in Neighbours(pos[p]) : CanMove(at) /\ Stand(p, at)
    BY <1>1 DEF Move
  <2>2. at \in Positions
    BY <2>1, StepLemma DEF Typed, ViewTypes, Objects
  <2> QED BY <1>1, <2>1, <2>2, StandTypes DEF Move, Typed, ViewTypes, Objects
<1>2. CASE Die(p)
  BY <1>2, PlaceAssumption, StandTypes DEF Die, Typed, ViewTypes, Objects
<1> QED BY <1>1, <1>2, LeaveTypes, ArriveTypes DEF Stirring, Objects, Actors

LEMMA LookTypes ==
  ASSUME Typed, NEW t \in Actors, NEW o \in Objects, t \in Players <=> o \in Players,
         Check(t, o) \/ Visit(t, o) \/ Look(t, o)
  PROVE  Typed'
<1> USE DEF Typed, ViewTypes, world, lair, local, history, At, Goto, Objects, Actors
<1>1. CASE Check(t, o)
  <2>1. visit' \in [Actors -> SUBSET Sections]
    BY <1>1, AroundLemma DEF Check
  <2>2. steady' \in [Objects -> SUBSET Objects]
    BY <1>1, CastLemma DEF Check
  <2>3. ViewTypes'
    BY <1>1, <2>1, <2>2 DEF Check, Phases, MonsterPhases
  <2>4. ShapeInv'
    BY <1>1, ObjectAssumption DEF Check, ShapeInv, PhaseInv, Phases, MonsterPhases, EntryInv,
       PreyInv, ViewersInv, WatchersInv, ScriptInv
  <2> QED BY <2>3, <2>4
<1>2. CASE Visit(t, o)
  <2>1. visit' \in [Actors -> SUBSET Sections] /\ todo' \in [Actors -> SUBSET Objects]
    BY <1>2 DEF Visit
  <2>3. ViewTypes'
    BY <1>2, <2>1 DEF Visit
  <2>4. PhaseInv' /\ EntryInv' /\ PreyInv' /\ ScriptInv'
    BY <1>2 DEF Visit, ShapeInv, PhaseInv, EntryInv, PreyInv, ScriptInv
  <2>5. ViewersInv' /\ WatchersInv'
    BY <1>2, ObjectAssumption DEF Visit, ShapeInv, ViewersInv, WatchersInv
  <2>2. ShapeInv'
    BY <2>4, <2>5 DEF ShapeInv
  <2> QED BY <2>2, <2>3
<1>3. CASE Look(t, o)
  <2>0. todo' \in [Actors -> SUBSET Objects] /\ new' \in [Actors -> SUBSET Objects]
    BY <1>3 DEF Look
  <2>1. ViewTypes'
    BY <1>3, <2>0 DEF Look
  <2>2. PhaseInv' /\ EntryInv' /\ PreyInv' /\ ScriptInv'
    BY <1>3 DEF Look, ShapeInv, PhaseInv, EntryInv, PreyInv, ScriptInv
  <2>3. ViewersInv' /\ WatchersInv'
    BY <1>3, ObjectAssumption DEF Look, ShapeInv, ViewersInv, WatchersInv
  <2> QED BY <2>1, <2>2, <2>3 DEF ShapeInv
<1> QED BY <1>1, <1>2, <1>3

\* What follows a removal, and single accesses.
LEMMA Followed ==
  ASSUME NEW p \in Players, NEW q \in Objects
  PROVE  /\ RemoveObjectFromView(p, q) \o <<>> \in Seq(Access)
         /\ Chained(RemoveObjectFromView(p, q) \o <<>>)
         /\ q \in Players => /\ RemoveObjectFromView(p, q) \o <<Op("lose", q, p)>> \in Seq(Access)
                             /\ Chained(RemoveObjectFromView(p, q) \o <<Op("lose", q, p)>>)
<1>1. <<>> \in Seq(Access) /\ Chained(<<>>) /\ \A i \in 1..Len(<<>>) : <<>>[i].op \notin {"meet"} \cup Waking
  BY DEF Chained
<1>2. RemoveObjectFromView(p, q) \o <<>> \in Seq(Access) /\ Chained(RemoveObjectFromView(p, q) \o <<>>)
  BY <1>1, RemoveChained, ConcatChained
<1>3. ASSUME q \in Players
      PROVE  /\ RemoveObjectFromView(p, q) \o <<Op("lose", q, p)>> \in Seq(Access)
             /\ Chained(RemoveObjectFromView(p, q) \o <<Op("lose", q, p)>>)
  <2> DEFINE a == Op("lose", q, p)
  <2>1. a \in Access /\ Sound(a) /\ a.op = "lose"
    BY <1>3 DEF Op, Access, Sound, JobKinds, Waking, Objects
  <2> HIDE DEF a
  <2>2. /\ <<a>> \in Seq(Access) /\ Chained(<<a>>)
        /\ \A i \in 1..Len(<<a>>) : <<a>>[i].op \notin {"meet"} \cup Waking
        /\ Head(<<a>>).op = "lose"
    BY <2>1, OneChained DEF JobKinds, Waking
  <2>3. /\ RemoveObjectFromView(p, q) \o <<a>> \in Seq(Access)
        /\ Chained(RemoveObjectFromView(p, q) \o <<a>>)
    BY <2>2, RemoveChained, ConcatChained
  <2> QED BY <2>3 DEF a
<1> QED BY <1>2, <1>3

LEMMA PostChained ==
  ASSUME NEW p \in Players, NEW q \in Objects, NEW do \in JobKinds
  PROVE  <<Op(do, p, q)>> \in Seq(Access) /\ Chained(<<Op(do, p, q)>>)
<1>1. Op(do, p, q) \in Access /\ Sound(Op(do, p, q)) /\ Op(do, p, q).op \in JobKinds
  BY DEF Op, Access, Sound, JobKinds, Waking, Objects
<1> QED BY <1>1, OneChained

LEMMA TellingTypes == ASSUME Typed, NEW p \in Players, Looked(p) \/ Telling(p) PROVE Typed'
<1> USE DEF Typed, ViewTypes, world, lair, local, history, At, Goto, Objects, Actors
<1>1. CASE Looked(p)
  <2>1. ViewTypes'
    BY <1>1 DEF Looked, Phases, MonsterPhases
  <2>2. ShapeInv'
    BY <1>1, ObjectAssumption DEF Looked, ShapeInv, PhaseInv, Phases, MonsterPhases, EntryInv,
       PreyInv, ViewersInv, WatchersInv, ScriptInv
  <2> QED BY <2>1, <2>2
<1>2. CASE Tell(p)
  <2>1. PICK q \in todo[p] :
          /\ todo' = [todo EXCEPT ![p] = @ \ {q}]
          /\ Rest(p, <<Notice(p, q)>> \o (IF q \in old[p] THEN <<>> ELSE AddObjectToView(p, q)))
    BY <1>2 DEF Tell
  <2>2. q \in Objects
    BY <1>2 DEF Tell
  <2>3. script' \in [Actors -> Seq(Access)] /\ \A o \in Actors : Chained(script'[o]) /\ (o # p => script'[o] = script[o])
    <3> DEFINE s == <<Notice(p, q)>> \o (IF q \in old[p] THEN <<>> ELSE AddObjectToView(p, q))
    <3>1. s \in Seq(Access) /\ Chained(s)
      <4>1. CASE q \in old[p]
        <5>1. <<Notice(p, q)>> \in Seq(Access) /\ Chained(<<Notice(p, q)>>)
          BY <2>2, NoticeAdd
        <5>2. <<Notice(p, q)>> \o <<>> = <<Notice(p, q)>>
          BY <5>1
        <5> QED BY <4>1, <5>1, <5>2
      <4>2. CASE q \notin old[p]
        BY <4>2, <2>2, NoticeAdd
      <4> QED BY <4>1, <4>2
    <3> HIDE DEF s
    <3>2. script' = [script EXCEPT ![p] = s]
      BY <2>1 DEF Rest, s
    <3> QED BY <3>1, <3>2 DEF ShapeInv, ScriptInv
  <2>4. ViewTypes'
    BY <1>2, <2>1, <2>3 DEF Tell
  <2>5. ShapeInv'
    BY <1>2, <2>1, <2>3, ObjectAssumption DEF Tell, ShapeInv, PhaseInv, Phases, MonsterPhases, EntryInv,
       PreyInv, ViewersInv, WatchersInv, ScriptInv
  <2> QED BY <2>4, <2>5
<1>3. CASE Told(p)
  <2>1. ViewTypes'
    BY <1>3 DEF Told, Phases, MonsterPhases
  <2>2. ShapeInv'
    BY <1>3, ObjectAssumption DEF Told, ShapeInv, PhaseInv, Phases, MonsterPhases, EntryInv,
       PreyInv, ViewersInv, WatchersInv, ScriptInv
  <2> QED BY <2>1, <2>2
<1>4. CASE Drop(p)
  <2>1. PICK q \in todo[p] :
          /\ todo' = [todo EXCEPT ![p] = @ \ {q}]
          /\ Rest(p, RemoveObjectFromView(p, q)
                       \o (IF q \in Players THEN <<Op("lose", q, p)>> ELSE <<>>))
    BY <1>4 DEF Drop
  <2>2. q \in Objects
    BY <1>4 DEF Drop
  <2>3. script' \in [Actors -> Seq(Access)] /\ \A o \in Actors : Chained(script'[o]) /\ (o # p => script'[o] = script[o])
    <3> DEFINE s == RemoveObjectFromView(p, q)
                       \o (IF q \in Players THEN <<Op("lose", q, p)>> ELSE <<>>)
    <3>1. s \in Seq(Access) /\ Chained(s)
      BY <2>2, Followed
    <3> HIDE DEF s
    <3>2. script' = [script EXCEPT ![p] = s]
      BY <2>1 DEF Rest, s
    <3> QED BY <3>1, <3>2 DEF ShapeInv, ScriptInv
  <2>4. ViewTypes'
    BY <1>4, <2>1, <2>3 DEF Drop
  <2>5. ShapeInv'
    BY <1>4, <2>1, <2>3, ObjectAssumption DEF Drop, ShapeInv, PhaseInv, Phases, MonsterPhases, EntryInv,
       PreyInv, ViewersInv, WatchersInv, ScriptInv
  <2> QED BY <2>4, <2>5
<1>5. CASE Dropped(p)
  <2>1. ViewTypes'
    BY <1>5 DEF Dropped, Phases, MonsterPhases
  <2>2. ShapeInv'
    BY <1>5, ObjectAssumption DEF Dropped, ShapeInv, PhaseInv, Phases, MonsterPhases, EntryInv,
       PreyInv, ViewersInv, WatchersInv, ScriptInv
  <2> QED BY <2>1, <2>2
<1> QED BY <1>1, <1>2, <1>3, <1>4, <1>5 DEF Telling

LEMMA LeavingTypes == ASSUME Typed, NEW p \in Players, Leaving(p) PROVE Typed'
<1> USE DEF Typed, ViewTypes, world, lair, local, history, At, Goto, Objects, Actors
<1>1. CASE Logout(p)
  <2>1. ViewTypes'
    BY <1>1 DEF Logout, Phases, MonsterPhases
  <2>2. ShapeInv'
    BY <1>1, ObjectAssumption DEF Logout, ShapeInv, PhaseInv, Phases, MonsterPhases, EntryInv,
       PreyInv, ViewersInv, WatchersInv, ScriptInv
  <2> QED BY <2>1, <2>2
<1>2. CASE Bye(p)
  <2>1. PICK q \in todo[p] :
          /\ todo' = [todo EXCEPT ![p] = @ \ {q}]
          /\ Rest(p, <<Op("lose", q, p)>>)
    BY <1>2 DEF Bye
  <2>2. q \in Players
    BY <1>2 DEF Bye, ShapeInv, ViewersInv
  <2>3. script' \in [Actors -> Seq(Access)] /\ \A o \in Actors : Chained(script'[o]) /\ (o # p => script'[o] = script[o])
    <3> DEFINE s == <<Op("lose", q, p)>>
    <3>1. s \in Seq(Access) /\ Chained(s)
      BY <2>2, PostChained DEF JobKinds
    <3> HIDE DEF s
    <3>2. script' = [script EXCEPT ![p] = s]
      BY <2>1 DEF Rest, s
    <3> QED BY <3>1, <3>2 DEF ShapeInv, ScriptInv
  <2>4. ViewTypes'
    BY <1>2, <2>1, <2>3 DEF Bye
  <2>5. ShapeInv'
    BY <1>2, <2>1, <2>3, ObjectAssumption DEF Bye, ShapeInv, PhaseInv, Phases, MonsterPhases, EntryInv,
       PreyInv, ViewersInv, WatchersInv, ScriptInv
  <2> QED BY <2>4, <2>5
<1>3. CASE Gone(p)
  <2>1. ViewTypes'
    BY <1>3 DEF Gone, Phases, MonsterPhases
  <2>2. ShapeInv'
    BY <1>3, ObjectAssumption DEF Gone, ShapeInv, PhaseInv, Phases, MonsterPhases, EntryInv,
       PreyInv, ViewersInv, WatchersInv, ScriptInv
  <2> QED BY <2>1, <2>2
<1> QED BY <1>1, <1>2, <1>3 DEF Leaving

LEMMA KillingTypes == ASSUME Typed, NEW p \in Players, Killing(p) PROVE Typed'
<1> USE DEF Typed, ViewTypes, world, lair, local, history, At, Goto, Objects, Actors
<1>1. CASE Hit(p)
  <2>0. PICK m \in view[p] \cap awake :
          /\ life' = [life EXCEPT ![m] = "down"]
          /\ prey' = [prey EXCEPT ![p] = m]
    BY <1>1 DEF Hit
  <2>1. ViewTypes'
    BY <1>1, <2>0 DEF Hit, Phases, MonsterPhases
  <2>3. /\ m \in Monsters /\ st[p] # "out"
        /\ phase' = [phase EXCEPT ![p] = "kill"]
        /\ UNCHANGED <<st, view, todo, new, script, goal>>
    BY <1>1, <2>0 DEF Hit, Ready
  <2>4. PhaseInv' /\ EntryInv' /\ PreyInv'
    BY <2>0, <2>3, ObjectAssumption DEF ShapeInv, PhaseInv, EntryInv, PreyInv, Phases
  <2>5. ViewersInv' /\ WatchersInv' /\ ScriptInv'
    BY <1>1, <2>3, ObjectAssumption DEF Hit, Ready, ShapeInv, ViewersInv, WatchersInv, ScriptInv
  <2>2. ShapeInv'
    BY <2>4, <2>5 DEF ShapeInv
  <2> QED BY <2>1, <2>2
<1>2. CASE Kill(p)
  <2>3. prey[p] \in Monsters
    BY <1>2 DEF Kill, ShapeInv, PreyInv
  <2>4. /\ life' \in [Monsters -> {"alive", "down", "dead"}]
        /\ due' \in [Monsters -> Nat]
    BY <1>2, <2>3 DEF Kill
  <2>5. /\ todo' \in [Actors -> SUBSET Objects]
        /\ phase' \in [Actors -> Phases \cup MonsterPhases]
    BY <1>2, CastLemma DEF Kill, Phases
  <2>1. ViewTypes'
    BY <1>2, <2>4, <2>5 DEF Kill
  <2>2. ShapeInv'
    BY <1>2, CastLemma, ObjectAssumption DEF Kill, ShapeInv, PhaseInv, Phases, MonsterPhases, EntryInv,
       PreyInv, ViewersInv, WatchersInv, ScriptInv
  <2> QED BY <2>1, <2>2
<1>3. CASE Mourn(p)
  <2>0. /\ todo' \in [Actors -> SUBSET Objects]
        /\ new' \in [Actors -> SUBSET Objects]
    BY <1>3 DEF Mourn
  <2>1. ViewTypes'
    BY <1>3, <2>0 DEF Mourn
  <2>2. ShapeInv'
    BY <1>3, ObjectAssumption DEF Mourn, ShapeInv, PhaseInv, Phases, MonsterPhases, EntryInv,
       PreyInv, ViewersInv, WatchersInv, ScriptInv
  <2> QED BY <2>1, <2>2
<1>4. CASE Mourned(p)
  <2>1. ViewTypes'
    BY <1>4 DEF Mourned, Phases, MonsterPhases
  <2>2. ShapeInv'
    BY <1>4, ObjectAssumption DEF Mourned, ShapeInv, PhaseInv, Phases, MonsterPhases, EntryInv,
       PreyInv, ViewersInv, WatchersInv, ScriptInv
  <2> QED BY <2>1, <2>2
<1>5. CASE Bury(p)
  <2>1. PICK q \in todo[p] :
          /\ todo' = [todo EXCEPT ![p] = @ \ {q}]
          /\ Rest(p, RemoveObjectFromView(q, prey[p]))
    BY <1>5 DEF Bury
  <2>2. q \in Players
    BY <1>5 DEF Bury, ShapeInv, ViewersInv
  <2>3. script' \in [Actors -> Seq(Access)] /\ \A o \in Actors : Chained(script'[o]) /\ (o # p => script'[o] = script[o])
    <3> DEFINE s == RemoveObjectFromView(q, prey[p])
    <3>1. s \in Seq(Access) /\ Chained(s)
      <4>1. prey[p] \in Objects
        BY <1>5 DEF Bury, ShapeInv, PreyInv
      <4> QED BY <2>2, <4>1, RemoveChained
    <3> HIDE DEF s
    <3>2. script' = [script EXCEPT ![p] = s]
      BY <2>1 DEF Rest, s
    <3> QED BY <3>1, <3>2 DEF ShapeInv, ScriptInv
  <2>4. ViewTypes'
    BY <1>5, <2>1, <2>3 DEF Bury
  <2>5. ShapeInv'
    BY <1>5, <2>1, <2>3, ObjectAssumption, SMTT(30) DEF Bury, ShapeInv, PhaseInv, Phases,
       MonsterPhases, EntryInv,
       PreyInv, ViewersInv, WatchersInv, ScriptInv
  <2> QED BY <2>4, <2>5
<1>6. CASE Buried(p)
  <2>1. ViewTypes'
    BY <1>6 DEF Buried, Phases, MonsterPhases
  <2>2. ShapeInv'
    BY <1>6, ObjectAssumption DEF Buried, ShapeInv, PhaseInv, Phases, MonsterPhases, EntryInv,
       PreyInv, ViewersInv, WatchersInv, ScriptInv
  <2> QED BY <2>1, <2>2
<1> QED BY <1>1, <1>2, <1>3, <1>4, <1>5, <1>6 DEF Killing

\* One entry of what a client shows is changed.
LEMMA ShownTypes ==
  ASSUME shown \in [Players -> [Objects -> Positions \cup {Nowhere}]],
         NEW p \in Players, NEW q \in Objects, NEW v \in Positions \cup {Nowhere},
         shown' = [shown EXCEPT ![p][q] = v]
  PROVE  shown' \in [Players -> [Objects -> Positions \cup {Nowhere}]]
OBVIOUS

LEMMA RunJobTypes == ASSUME Typed, NEW p \in Players, RunJob(p) PROVE Typed'
<1> USE DEF Typed, ViewTypes, world, lair, local, history, At, Goto, Objects, Actors
<1> DEFINE j == Head(jobs[p])
<1>1. j \in Job /\ Tail(jobs[p]) \in Seq(Job)
  BY DEF RunJob
<1>2. j.do \in JobKinds /\ j.who \in Objects /\ j.at \in Positions
  BY <1>1 DEF Job
<1>3. jobs' = [jobs EXCEPT ![p] = Tail(@)] /\ Ready(p)
      /\ UNCHANGED <<world, view, lair, phase, dying, visit, todo, old, new, moves, history>>
  BY DEF RunJob
<1>4. \/ shown' = shown /\ \/ script' = [script EXCEPT ![p] = RemoveObjectFromView(p, j.who)]
                           \/ script' = [script EXCEPT ![p] = AddObjectToView(p, j.who)]
      \/ /\ script' = script
         /\ \/ MoveShown(p, j.who, j.at)
            \/ MoveShown(p, j.who, pos[j.who])
  BY DEF RunJob, Rest
<1> HIDE DEF j
<1>5. script' \in [Actors -> Seq(Access)] /\ \A o \in Actors : Chained(script'[o]) /\ (o # p => script'[o] = script[o])
  <2>1. /\ RemoveObjectFromView(p, j.who) \in Seq(Access) /\ Chained(RemoveObjectFromView(p, j.who))
        /\ AddObjectToView(p, j.who) \in Seq(Access) /\ Chained(AddObjectToView(p, j.who))
    BY <1>2, AddChained, RemoveChained
  <2>2. ASSUME NEW s \in Seq(Access), Chained(s), script' = [script EXCEPT ![p] = s]
        PROVE  script' \in [Actors -> Seq(Access)] /\ \A o \in Actors : Chained(script'[o]) /\ (o # p => script'[o] = script[o])
    BY <2>2 DEF ShapeInv, ScriptInv
  <2>3. CASE script' = script
    BY <2>3 DEF ShapeInv, ScriptInv
  <2> QED BY <1>4, <2>1, <2>2, <2>3
<1>6. shown' \in [Players -> [Objects -> Positions \cup {Nowhere}]]
  <2>1. \/ shown' = shown
        \/ \E v \in Positions \cup {Nowhere} : shown' = [shown EXCEPT ![p][j.who] = v]
    BY <1>2, <1>4 DEF MoveShown
  <2> QED BY <1>2, <2>1, ShownTypes
<1>7. jobs' \in [Players -> Seq(Job)]
  BY <1>1, <1>3 DEF j
<1>8. ViewTypes'
  BY <1>3, <1>5, <1>6, <1>7
<1>9. ShapeInv'
  BY <1>3, <1>5 DEF ShapeInv, PhaseInv, EntryInv, PreyInv, ViewersInv, WatchersInv, ScriptInv
<1> QED BY <1>8, <1>9

LEMMA ExecuteTypes == ASSUME Typed, NEW o \in Actors, Execute(o) PROVE Typed'
<1> USE DEF Typed, ViewTypes, world, lair, local, history, At, Goto, Objects, Actors
<1> DEFINE a == Head(script[o])
           rest == Tail(script[o])
<1>1. /\ script[o] # <<>>
      /\ \/ Enqueue(o, a, rest) \/ Meet(o, a, rest)
         \/ WakeUp(o, a, rest) \/ Rouse(o, a, rest) \/ Clear(o, a, rest)
         \/ Scan(o, a, rest) \/ Begin(o, a, rest)
         \/ Insert(o, a, rest) \/ Erase(o, a, rest) \/ Show(o, a, rest) \/ Hide(o, a, rest)
      /\ UNCHANGED <<world, cast, life, due, prey, goal, phase, dying, todo, old, new,
                     moves, later, missed, steady>>
  BY DEF Execute
<1>2. script[o] \in Seq(Access) /\ Chained(script[o])
  BY DEF ShapeInv, ScriptInv
<1>3. /\ a \in Access /\ Sound(a)
      /\ rest \in Seq(Access) /\ Chained(rest)
      /\ a.op = "meet" => rest = <<>>
      /\ a.op = "erase" => rest # <<>>
      /\ \A i \in 1..Len(rest) :
           rest[i].op # "meet" /\ (rest[i].op \in Waking => a.op \in Waking)
      /\ rest # <<>> /\ Head(rest).op \in {"show", "hide"} => a.op \in {"insert", "erase"}
  <2>1. a \in Access /\ Sound(a) /\ rest \in Seq(Access) /\ Chained(rest)
    BY <1>1, <1>2, TailChained
  <2>2. /\ a.op = "meet" => rest = <<>>
        /\ a.op = "erase" => rest # <<>>
        /\ \A i \in 1..Len(rest) :
             rest[i].op # "meet" /\ (rest[i].op \in Waking => a.op \in Waking)
    BY <1>1, <1>2, TailChained
  <2>3. rest # <<>> /\ Head(rest).op \in {"show", "hide"} => a.op \in {"insert", "erase"}
    <3>1. rest # <<>> /\ Head(rest).op = "show" => a = Op("insert", Head(rest).of, Head(rest).obj)
      BY <1>1, <1>2, TailChained
    <3>2. rest # <<>> /\ Head(rest).op = "hide" => a = Op("erase", Head(rest).of, Head(rest).obj)
      BY <1>1, <1>2, TailChained
    <3> QED BY <3>1, <3>2 DEF Op
  <2> QED BY <2>1, <2>2, <2>3
<1> HIDE DEF a, rest
<1>4. /\ a.of \in Objects /\ a.obj \in Objects
      /\ a.op \notin {"wake"} \cup Waking => a.of \in Players
      /\ a.op \in {"wake"} \cup Waking => a.of \in Monsters /\ a.obj \in Players
      /\ a.op = "meet" => a.obj \in Players
  BY <1>3 DEF Access, Sound
<1>5. ASSUME script' \in [Actors -> Seq(Access)], \A x \in Actors : Chained(script'[x]),
             view' \in [Objects -> SUBSET Objects],
             \A m \in Monsters : view'[m] \subseteq Players,
             jobs' \in [Players -> Seq(Job)],
             shown' \in [Players -> [Objects -> Positions \cup {Nowhere}]],
             awake' \subseteq Monsters, crossed' \subseteq Players \X Objects,
             hollow' \subseteq Players \X Monsters,
             links' \in [Monsters -> Nat], doubled' \subseteq Monsters,
             visit' \in [Actors -> SUBSET Sections],
             \A x \in Actors : x # o => script'[x] = script[x]
      PROVE  Typed'
  <2>1. ViewTypes'
    BY <1>1, <1>5
  <2>3. PhaseInv'
    BY <1>1, <1>5 DEF ShapeInv, PhaseInv
  <2>2. ShapeInv'
    BY <1>1, <1>5, <2>3 DEF ShapeInv, EntryInv, PreyInv, ViewersInv, WatchersInv, ScriptInv
  <2> QED BY <2>1, <2>2
<1>6. ASSUME NEW s \in Seq(Access), Chained(s), Rest(o, s)
      PROVE  /\ script' \in [Actors -> Seq(Access)] /\ \A x \in Actors : Chained(script'[x])
             /\ \A x \in Actors : x # o => script'[x] = script[x]
  BY <1>6 DEF Rest, ShapeInv, ScriptInv
<1>7. \A m \in Monsters : view[m] \subseteq Players
  BY DEF ShapeInv, WatchersInv
<1>8. CASE Enqueue(o, a, rest)
  <2>1. [do |-> a.op, who |-> a.obj, at |-> pos[a.obj]] \in Job /\ a.of \in Players
    BY <1>4, <1>8 DEF Enqueue, Job, JobKinds, Waking
  <2>2. jobs' \in [Players -> Seq(Job)]
    BY <1>8, <2>1 DEF Enqueue
  <2>3. Rest(o, rest) /\ UNCHANGED <<view, shown, awake, links, doubled, visit, crossed, hollow>>
    BY <1>8 DEF Enqueue
  <2> QED BY <1>3, <1>5, <1>6, <1>7, <2>2, <2>3
<1>9. CASE Meet(o, a, rest)
  <2> DEFINE s == IF st[a.of] = "ingame"
                    THEN AddObjectToView(a.of, a.obj) \o AddObjectToView(a.obj, a.of)
                    ELSE <<>>
  <2>1. a.op = "meet" /\ a.of \in Players /\ a.obj \in Players /\ rest = <<>>
    BY <1>3, <1>4, <1>9 DEF Meet, Waking
  <2>2. s \in Seq(Access) /\ Chained(s)
    <3>1. <<>> \in Seq(Access) /\ Chained(<<>>)
      BY DEF Chained
    <3>2. /\ AddObjectToView(a.of, a.obj) \o AddObjectToView(a.obj, a.of) \in Seq(Access)
          /\ Chained(AddObjectToView(a.of, a.obj) \o AddObjectToView(a.obj, a.of))
      <4>1. \A p \in Players, q \in Objects :
              /\ AddObjectToView(p, q) \in Seq(Access) /\ Chained(AddObjectToView(p, q))
              /\ Head(AddObjectToView(p, q)).op \notin {"show", "hide"}
              /\ \A i \in 1..Len(AddObjectToView(p, q)) :
                   /\ AddObjectToView(p, q)[i].op \notin {"meet"} \cup Waking
                   /\ AddObjectToView(p, q)[i].op # "meet"
        BY AddChained
      <4> QED BY <1>4, <2>1, <4>1, ConcatChained
    <3> QED BY <3>1, <3>2
  <2>3. Rest(o, s \o rest)
        /\ UNCHANGED <<view, shown, jobs, awake, links, doubled, visit, crossed, hollow>>
    BY <1>9 DEF Meet
  <2> HIDE DEF s
  <2>4. s \o rest = s
    BY <2>1, <2>2
  <2> QED BY <1>5, <1>6, <1>7, <2>2, <2>3, <2>4
<1>10. CASE WakeUp(o, a, rest)
  <2>1. a.op = "wake" /\ a.of \in Monsters /\ a.obj \in Players
    BY <1>4, <1>10 DEF WakeUp
  <2>2. Waken(a.of, a.obj) \o rest \in Seq(Access) /\ Chained(Waken(a.of, a.obj) \o rest)
    <3>1. \A i \in 1..Len(rest) : rest[i].op \notin {"meet"} \cup Waking
      BY <1>3, <2>1 DEF Waking
    <3>2. rest # <<>> => Head(rest).op \notin {"show", "hide"}
      BY <1>3, <2>1
    <3> QED BY <1>3, <2>1, <3>1, <3>2, WakenChained, ConcatChained
  <2>3. Rest(o, rest) \/ Rest(o, Waken(a.of, a.obj) \o rest)
    BY <1>10 DEF WakeUp
  <2>4. /\ doubled' \subseteq Monsters
        /\ UNCHANGED <<view, shown, jobs, awake, links, visit, crossed, hollow>>
    BY <1>10, <2>1 DEF WakeUp, Engage
  <2> QED BY <1>3, <1>5, <1>6, <1>7, <2>2, <2>3, <2>4
<1>15. CASE Rouse(o, a, rest)
  <2>1. a.of \in Monsters
    BY <1>4, <1>15 DEF Rouse, Waking
  <2>2. /\ awake' \subseteq Monsters /\ Rest(o, rest)
        /\ UNCHANGED <<view, shown, jobs, links, doubled, visit, crossed, hollow>>
    BY <1>15, <2>1 DEF Rouse
  <2> QED BY <1>3, <1>5, <1>6, <1>7, <2>2
<1>16. CASE Clear(o, a, rest)
  <2>1. a.of \in Monsters
    BY <1>4, <1>16 DEF Clear, Waking
  <2>2. /\ view' \in [Objects -> SUBSET Objects]
        /\ \A m \in Monsters : view'[m] \subseteq Players
    BY <1>7, <1>16 DEF Clear
  <2>3. visit' \in [Actors -> SUBSET Sections]
    BY <1>16, <2>1, AroundLemma DEF Clear
  <2>4. Rest(o, rest) /\ UNCHANGED <<shown, jobs, awake, links, doubled, crossed, hollow>>
    BY <1>16 DEF Clear
  <2> QED BY <1>3, <1>5, <1>6, <2>2, <2>3, <2>4
<1>17. CASE Scan(o, a, rest)
  <2>1. /\ view' \in [Objects -> SUBSET Objects]
        /\ \A m \in Monsters : view'[m] \subseteq Players
        /\ visit' \in [Actors -> SUBSET Sections]
    <3>1. CASE view' = view /\ visit' = visit
      BY <1>7, <3>1
    <3>2. CASE \E s \in visit[o] : /\ view' = [view EXCEPT ![a.of] = @ \cup Watchers(a.of, s)]
                                   /\ visit' = [visit EXCEPT ![o] = @ \ {s}]
      <4>1. PICK s \in visit[o] :
              /\ view' = [view EXCEPT ![a.of] = @ \cup Watchers(a.of, s)]
              /\ visit' = [visit EXCEPT ![o] = @ \ {s}]
        BY <3>2
      <4>2. Watchers(a.of, s) \subseteq Players
        BY DEF Watchers
      <4> QED BY <1>7, <4>1, <4>2
    <3> QED BY <1>17, <3>1, <3>2 DEF Scan
  <2>2. Rest(o, rest) \/ script' = script
    BY <1>17 DEF Scan
  <2>3. UNCHANGED <<shown, jobs, awake, links, doubled, crossed, hollow>>
    BY <1>17 DEF Scan
  <2>4. script' = script =>
          /\ script' \in [Actors -> Seq(Access)] /\ \A x \in Actors : Chained(script'[x])
          /\ \A x \in Actors : x # o => script'[x] = script[x]
    BY DEF ShapeInv, ScriptInv
  <2> QED BY <1>3, <1>5, <1>6, <2>1, <2>2, <2>3, <2>4
<1>18. CASE Begin(o, a, rest)
  <2>1. a.of \in Monsters
    BY <1>4, <1>18 DEF Begin, Waking
  <2>2. links' \in [Monsters -> Nat] /\ Rest(o, rest)
    BY <1>18, <2>1 DEF Begin
  <2>3. UNCHANGED <<view, shown, jobs, awake, doubled, visit, crossed, hollow>>
    BY <1>18 DEF Begin
  <2> QED BY <1>3, <1>5, <1>6, <1>7, <2>2, <2>3
<1>11. CASE Insert(o, a, rest)
  <2>1. a.of \in Players
    BY <1>4, <1>11 DEF Insert, Waking
  <2>2. /\ view' \in [Objects -> SUBSET Objects]
        /\ \A m \in Monsters : view'[m] \subseteq Players
        /\ crossed' \subseteq Players \X Objects
    BY <1>4, <1>7, <1>11, <2>1, ObjectAssumption DEF Insert, Cross
  <2>3. Rest(o, rest) /\ UNCHANGED <<shown, jobs, awake, links, doubled, visit, hollow>>
    BY <1>11 DEF Insert
  <2> QED BY <1>3, <1>5, <1>6, <2>2, <2>3
<1>12. CASE Erase(o, a, rest)
  <2>1. a.of \in Players /\ rest # <<>>
    BY <1>3, <1>4, <1>12 DEF Erase, Waking
  <2>2. /\ view' \in [Objects -> SUBSET Objects]
        /\ \A m \in Monsters : view'[m] \subseteq Players
        /\ crossed' \subseteq Players \X Objects
    BY <1>4, <1>7, <1>12, <2>1, ObjectAssumption DEF Erase, Cross
  <2>3. (Rest(o, rest) \/ Rest(o, Tail(rest))) /\ UNCHANGED <<shown, jobs, awake, links, doubled, visit, hollow>>
    BY <1>12 DEF Erase
  <2>4. Tail(rest) \in Seq(Access) /\ Chained(Tail(rest))
    BY <1>3, <2>1, TailChained
  <2> QED BY <1>3, <1>5, <1>6, <2>2, <2>3, <2>4
<1>13. CASE Show(o, a, rest)
  <2>1. a.of \in Players
    BY <1>4, <1>13 DEF Show, Waking
  <2>2. /\ shown' \in [Players -> [Objects -> Positions \cup {Nowhere}]]
        /\ hollow' \subseteq Players \X Monsters
    <3>1. pos[a.obj] \in Positions
      BY <1>4
    <3>2. \/ shown' = [shown EXCEPT ![a.of][a.obj] = pos[a.obj]] /\ hollow' = hollow \ {<<a.of, a.obj>>}
          \/ a.obj \in Monsters /\ shown' = shown /\ hollow' = hollow \cup {<<a.of, a.obj>>}
      BY <1>13 DEF Show, Healthy
    <3>3. CASE /\ shown' = [shown EXCEPT ![a.of][a.obj] = pos[a.obj]]
               /\ hollow' = hollow \ {<<a.of, a.obj>>}
      <4>1. shown' \in [Players -> [Objects -> Positions \cup {Nowhere}]]
        BY <1>4, <2>1, <3>1, <3>3, ShownTypes
      <4> QED BY <3>3, <4>1
    <3>4. CASE a.obj \in Monsters /\ shown' = shown /\ hollow' = hollow \cup {<<a.of, a.obj>>}
      <4>1. <<a.of, a.obj>> \in Players \X Monsters
        BY <2>1, <3>4
      <4>2. hollow \subseteq Players \X Monsters
        OBVIOUS
      <4> QED BY <3>4, <4>1, <4>2
    <3> QED BY <3>2, <3>3, <3>4
  <2>3. Rest(o, rest) /\ UNCHANGED <<view, jobs, awake, links, doubled, visit, crossed>>
    BY <1>13 DEF Show
  <2> QED BY <1>3, <1>5, <1>6, <1>7, <2>2, <2>3
<1>14. CASE Hide(o, a, rest)
  <2>1. a.of \in Players
    BY <1>4, <1>14 DEF Hide, Waking
  <2>2. /\ shown' \in [Players -> [Objects -> Positions \cup {Nowhere}]]
        /\ hollow' \subseteq Players \X Monsters
    BY <1>4, <1>14, <2>1 DEF Hide
  <2>3. Rest(o, rest) /\ UNCHANGED <<view, jobs, awake, links, doubled, visit, crossed>>
    BY <1>14 DEF Hide
  <2> QED BY <1>3, <1>5, <1>6, <1>7, <2>2, <2>3
<1> QED BY <1>1, <1>8, <1>9, <1>10, <1>11, <1>12, <1>13, <1>14, <1>15, <1>16, <1>17, <1>18

\* What Update and Rise do about threads that are at work on the monster.
LEMMA EngageTypes ==
  ASSUME doubled \subseteq Monsters, NEW m \in Monsters, Engage(m)
  PROVE  doubled' \subseteq Monsters /\ doubled \subseteq doubled'
BY DEF Engage

LEMMA WalkingTypes ==
  ASSUME Typed, NEW m \in Monsters, NEW t \in Handlers(m), Walking(t, m)
  PROVE  Typed'
<1> USE DEF Typed, ViewTypes, world, lair, local, history, At, Goto
<1>0. /\ t \in Actors \ Players /\ m \in Objects \ Players
      /\ Monsters \subseteq Objects /\ Players \subseteq Objects /\ Objects \subseteq Actors
  BY HandlersLemma DEF Objects, Actors
<1>1. CASE Update(t, m)
  <2>1. links' \in [Monsters -> Nat]
    BY <1>1 DEF Update
  <2>2. doubled' \subseteq Monsters
    BY <1>1, EngageTypes DEF Update
  <2>3. /\ phase' \in [Actors -> Phases \cup MonsterPhases]
        /\ phase[t] = "idle"
        /\ phase' = phase \/ \E ph \in {"next", "step"} : phase' = [phase EXCEPT ![t] = ph]
    BY <1>1 DEF Update, Free, MonsterPhases
  <2>4. /\ goal' \in [Actors -> Positions \cup {Nowhere}]
        /\ \A u \in Actors : u # t => goal'[u] = goal[u]
        /\ moves' \in Nat
    <3>1. CASE goal' = goal /\ moves' = moves
      BY <3>1
    <3>2. CASE /\ moves > 0 /\ moves' = moves - 1
               /\ \E at \in {a \in Neighbours(pos[m]) : CanMove(a)} \cup {Nowhere} :
                    goal' = [goal EXCEPT ![t] = at]
      <4>1. PICK at \in {a \in Neighbours(pos[m]) : CanMove(a)} \cup {Nowhere} :
              goal' = [goal EXCEPT ![t] = at]
        BY <3>2
      <4>2. at \in Positions \cup {Nowhere}
        <5>1. pos[m] \in Positions
          BY <1>0
        <5> QED BY <4>1, <5>1, StepLemma
      <4>3. goal' \in [Actors -> Positions \cup {Nowhere}] /\ \A u \in Actors : u # t => goal'[u] = goal[u]
        BY <4>1, <4>2
      <4>4. moves' \in Nat
        BY <3>2
      <4> QED BY <4>3, <4>4
    <3> QED BY <1>1, <3>1, <3>2 DEF Update
  <2>5. ViewTypes'
    BY <1>1, <2>1, <2>2, <2>3, <2>4 DEF Update
  <2>6. PhaseInv'
    <3>1. script' = script
      BY <1>1 DEF Update
    <3>2. script[t] = <<>>
      BY <1>0, <2>3 DEF ShapeInv, PhaseInv
    <3> QED BY <1>0, <2>3, <2>4, <3>1, <3>2 DEF ShapeInv, PhaseInv, MonsterPhases
  <2>8. UNCHANGED <<st, prey, new, todo, view, script>> /\ \A p \in Players : phase'[p] = phase[p]
    BY <1>0, <1>1, <2>3 DEF Update
  <2>7. EntryInv' /\ PreyInv' /\ ViewersInv' /\ WatchersInv' /\ ScriptInv'
    BY <2>8 DEF ShapeInv, EntryInv, PreyInv, ViewersInv, WatchersInv, ScriptInv
  <2> QED BY <2>5, <2>6, <2>7 DEF ShapeInv
<1>2. CASE Walk(t, m)
  <2> DEFINE at == IF goal[t] = Nowhere THEN pos[m] ELSE goal[t]
  <2>1. at \in Positions
    BY <1>0
  <2>2. /\ pos' = [pos EXCEPT ![m] = at]
        /\ phase[t] = "step"
        /\ \/ phase' = [phase EXCEPT ![t] = "leave"] /\ goal' = [goal EXCEPT ![t] = at]
           \/ phase' = [phase EXCEPT ![t] = "check"] /\ goal' = [goal EXCEPT ![t] = Nowhere]
    BY <1>2 DEF Walk
  <2> HIDE DEF at
  <2>3. /\ later' \subseteq Objects \X Objects /\ missed' \subseteq Objects \X Objects
        /\ steady' \in [Objects -> SUBSET Objects]
    BY <1>0, <1>2, TakeTypes DEF Walk, Settling
  <2>4. /\ pos' \in [Objects -> Positions]
        /\ phase' \in [Actors -> Phases \cup MonsterPhases]
        /\ goal' \in [Actors -> Positions \cup {Nowhere}]
    <3>1. CASE phase' = [phase EXCEPT ![t] = "leave"] /\ goal' = [goal EXCEPT ![t] = at]
      BY <2>1, <2>2, <3>1 DEF MonsterPhases
    <3>2. CASE phase' = [phase EXCEPT ![t] = "check"] /\ goal' = [goal EXCEPT ![t] = Nowhere]
      BY <2>1, <2>2, <3>2 DEF MonsterPhases
    <3> QED BY <2>2, <3>1, <3>2
  <2>5. ViewTypes'
    BY <1>2, <2>3, <2>4 DEF Walk
  <2>6. PhaseInv'
    <3>1. script' = script
      BY <1>2 DEF Walk
    <3>2. script[t] = <<>>
      BY <1>0, <2>2 DEF ShapeInv, PhaseInv
    <3> QED BY <1>0, <2>1, <2>2, <3>1, <3>2 DEF ShapeInv, PhaseInv, MonsterPhases
  <2>7. EntryInv' /\ PreyInv' /\ ViewersInv' /\ WatchersInv' /\ ScriptInv'
    BY <1>0, <1>2 DEF Walk, ShapeInv, EntryInv, PreyInv, ViewersInv, WatchersInv, ScriptInv
  <2> QED BY <2>5, <2>6, <2>7 DEF ShapeInv
<1>3. CASE Leave(t, m)
  BY <1>0, <1>3, LeaveTypes
<1>4. CASE Join(t, m)
  <2>1. goal[t] \in Positions /\ phase[t] = "arrive"
    BY <1>0, <1>4 DEF Join, ShapeInv, PhaseInv
  <2>2. /\ later' \subseteq Objects \X Objects /\ missed' \subseteq Objects \X Objects
        /\ steady' \in [Objects -> SUBSET Objects]
    BY <1>0, <1>4, TakeTypes DEF Join, Settling
  <2>3. /\ sect' \in [Objects -> Sections] /\ grid' \in [Sections -> SUBSET Objects]
        /\ goal' \in [Actors -> Positions \cup {Nowhere}]
        /\ phase' \in [Actors -> Phases \cup MonsterPhases]
    BY <1>0, <1>4, <2>1, SectionLemma DEF Join, MonsterPhases
  <2>4. ViewTypes'
    BY <1>4, <2>2, <2>3 DEF Join
  <2>5. PhaseInv'
    <3>1. script' = script /\ script[t] = <<>>
      BY <1>0, <1>4, <2>1 DEF Join, ShapeInv, PhaseInv
    <3> QED BY <1>0, <1>4, <2>1, <3>1 DEF Join, ShapeInv, PhaseInv, MonsterPhases
  <2>6. EntryInv' /\ PreyInv' /\ ViewersInv' /\ WatchersInv' /\ ScriptInv'
    BY <1>0, <1>4 DEF Join, ShapeInv, EntryInv, PreyInv, ViewersInv, WatchersInv, ScriptInv
  <2> QED BY <2>4, <2>5, <2>6 DEF ShapeInv
<1>5. CASE Again(t, m)
  <2>1. links' \in [Monsters -> Nat] /\ phase' \in [Actors -> Phases \cup MonsterPhases]
    <3>1. links' \in [Monsters -> Nat]
      BY <1>5 DEF Again
    <3> QED BY <1>5, <3>1 DEF Again, MonsterPhases
  <2>2. ViewTypes'
    BY <1>5, <2>1 DEF Again
  <2>3. PhaseInv'
    <3>1. script' = script /\ script[t] = <<>>
      BY <1>0, <1>5 DEF Again, ShapeInv, PhaseInv
    <3> QED BY <1>0, <1>5, <3>1 DEF Again, ShapeInv, PhaseInv, MonsterPhases
  <2>4. EntryInv' /\ PreyInv' /\ ViewersInv' /\ WatchersInv' /\ ScriptInv'
    BY <1>0, <1>5 DEF Again, ShapeInv, EntryInv, PreyInv, ViewersInv, WatchersInv, ScriptInv
  <2> QED BY <2>2, <2>3, <2>4 DEF ShapeInv
<1> QED BY <1>1, <1>2, <1>3, <1>4, <1>5 DEF Walking

LEMMA WatchingTypes ==
  ASSUME Typed, NEW m \in Monsters, NEW t \in Handlers(m), Watching(t, m)
  PROVE  Typed'
<1> USE DEF Typed, ViewTypes, world, lair, local, history, At, Goto
<1>0. /\ t \in Actors \ Players /\ m \in Objects \ Players
      /\ Monsters \subseteq Objects /\ Players \subseteq Objects /\ Objects \subseteq Actors
  BY HandlersLemma DEF Objects, Actors
<1>1. CASE Check(t, m) \/ Visit(t, m) \/ Look(t, m)
  BY <1>0, <1>1, LookTypes
<1>2. CASE Sleep(t, m)
  <2>1. ViewTypes'
    BY <1>2 DEF Sleep, Phases, MonsterPhases
  <2>2. ShapeInv'
    BY <1>0, <1>2, ObjectAssumption DEF Sleep, ShapeInv, PhaseInv, Phases, MonsterPhases, EntryInv,
       PreyInv, ViewersInv, WatchersInv, ScriptInv
  <2> QED BY <2>1, <2>2
<1>3. CASE Seen(t)
  <2>1. ViewTypes'
    BY <1>0, <1>3 DEF Seen, Phases, MonsterPhases
  <2>2. ShapeInv'
    BY <1>0, <1>3, ObjectAssumption DEF Seen, ShapeInv, PhaseInv, Phases, MonsterPhases, EntryInv,
       PreyInv, ViewersInv, WatchersInv, ScriptInv
  <2> QED BY <2>1, <2>2
<1> QED BY <1>1, <1>2, <1>3 DEF Watching

LEMMA PostingTypes ==
  ASSUME Typed, NEW m \in Monsters, NEW t \in Handlers(m), Posting(t, m)
  PROVE  Typed'
<1> USE DEF Typed, ViewTypes, world, lair, local, history, At, Goto
<1>0. /\ t \in Actors \ Players /\ m \in Objects \ Players
      /\ Monsters \subseteq Objects /\ Players \subseteq Objects /\ Objects \subseteq Actors
  BY HandlersLemma DEF Objects, Actors
<1>1. CASE Post(t, m)
  <2>1. PICK q \in todo[t] :
          /\ todo' = [todo EXCEPT ![t] = @ \ {q}]
          /\ Rest(t, <<Op("seeNow", q, m)>>)
    BY <1>0, <1>1 DEF Post
  <2>2. q \in Players
    BY <1>0, <1>1 DEF Post, ShapeInv, WatchersInv
  <2>3. script' \in [Actors -> Seq(Access)] /\ \A o \in Actors : Chained(script'[o]) /\ (o # t => script'[o] = script[o])
    <3> DEFINE s == <<Op("seeNow", q, m)>>
    <3>1. s \in Seq(Access) /\ Chained(s)
      BY <1>0, <2>2, PostChained DEF JobKinds
    <3> HIDE DEF s
    <3>2. script' = [script EXCEPT ![t] = s]
      BY <2>1 DEF Rest, s
    <3> QED BY <1>0, <3>1, <3>2 DEF ShapeInv, ScriptInv
  <2>4. ViewTypes'
    BY <1>0, <1>1, <2>1, <2>3 DEF Post
  <2>5. ShapeInv'
    <3>1. /\ phase[t] = "post" /\ todo' = [todo EXCEPT ![t] = @ \ {q}]
          /\ UNCHANGED <<st, prey, phase, goal, new, view>>
      BY <1>0, <1>1, <2>1 DEF Post
    <3>2. PhaseInv'
      BY <1>0, <2>3, <3>1 DEF ShapeInv, PhaseInv
    <3>3. EntryInv' /\ PreyInv' /\ ScriptInv'
      BY <2>3, <3>1 DEF ShapeInv, EntryInv, PreyInv, ScriptInv
    <3>4. ViewersInv' /\ WatchersInv'
      BY <1>0, <3>1 DEF ShapeInv, ViewersInv, WatchersInv
    <3> QED BY <3>2, <3>3, <3>4 DEF ShapeInv
  <2> QED BY <2>4, <2>5
<1>2. CASE Posted(t, m)
  <2>1. ViewTypes'
    BY <1>0, <1>2 DEF Posted, Phases, MonsterPhases
  <2>2. ShapeInv'
    BY <1>0, <1>2, ObjectAssumption DEF Posted, ShapeInv, PhaseInv, Phases, MonsterPhases, EntryInv,
       PreyInv, ViewersInv, WatchersInv, ScriptInv
  <2> QED BY <2>1, <2>2
<1>3. CASE Part(t, m)
  <2>1. PICK q \in todo[t] :
          /\ todo' = [todo EXCEPT ![t] = @ \ {q}]
          /\ Rest(t, <<Op("lose", q, m)>>)
    BY <1>0, <1>3 DEF Part
  <2>2. q \in Players
    BY <1>0, <1>3 DEF Part, ShapeInv, WatchersInv
  <2>3. script' \in [Actors -> Seq(Access)] /\ \A o \in Actors : Chained(script'[o]) /\ (o # t => script'[o] = script[o])
    <3> DEFINE s == <<Op("lose", q, m)>>
    <3>1. s \in Seq(Access) /\ Chained(s)
      BY <1>0, <2>2, PostChained DEF JobKinds
    <3> HIDE DEF s
    <3>2. script' = [script EXCEPT ![t] = s]
      BY <2>1 DEF Rest, s
    <3> QED BY <1>0, <3>1, <3>2 DEF ShapeInv, ScriptInv
  <2>4. ViewTypes'
    BY <1>0, <1>3, <2>1, <2>3 DEF Part
  <2>5. ShapeInv'
    <3>1. /\ phase[t] = "part" /\ todo' = [todo EXCEPT ![t] = @ \ {q}]
          /\ UNCHANGED <<st, prey, phase, goal, new, view>>
      BY <1>0, <1>3, <2>1 DEF Part
    <3>2. PhaseInv'
      BY <1>0, <2>3, <3>1 DEF ShapeInv, PhaseInv
    <3>3. EntryInv' /\ PreyInv' /\ ScriptInv'
      BY <2>3, <3>1 DEF ShapeInv, EntryInv, PreyInv, ScriptInv
    <3>4. ViewersInv' /\ WatchersInv'
      BY <1>0, <3>1 DEF ShapeInv, ViewersInv, WatchersInv
    <3> QED BY <3>2, <3>3, <3>4 DEF ShapeInv
  <2> QED BY <2>4, <2>5
<1>4. CASE Parted(t, m)
  <2>1. ViewTypes'
    BY <1>0, <1>4 DEF Parted, Phases, MonsterPhases
  <2>2. ShapeInv'
    BY <1>0, <1>4, ObjectAssumption DEF Parted, ShapeInv, PhaseInv, Phases, MonsterPhases, EntryInv,
       PreyInv, ViewersInv, WatchersInv, ScriptInv
  <2> QED BY <2>1, <2>2
<1> QED BY <1>1, <1>2, <1>3, <1>4 DEF Posting

LEMMA RespawningTypes ==
  ASSUME Typed, NEW m \in Monsters, NEW t \in Handlers(m), Respawning(t, m)
  PROVE  Typed'
<1> USE DEF Typed, ViewTypes, world, lair, local, history, At, Goto
<1>0. /\ t \in Actors \ Players /\ m \in Objects \ Players
      /\ Monsters \subseteq Objects /\ Players \subseteq Objects /\ Objects \subseteq Actors
  BY HandlersLemma DEF Objects, Actors
<1>1. CASE Rise(t, m)
  <2>0. /\ life' \in [Monsters -> {"alive", "down", "dead"}]
        /\ due' \in [Monsters -> Nat]
        /\ phase' \in [Actors -> Phases \cup MonsterPhases]
        /\ phase[t] = "idle"
    BY <1>0, <1>1 DEF Rise, Free, MonsterPhases
  <2>3. doubled' \subseteq Monsters
    BY <1>1, EngageTypes DEF Rise
  <2>1. ViewTypes'
    BY <1>0, <1>1, <2>0, <2>3 DEF Rise
  <2>2. ShapeInv'
    BY <1>0, <1>1, <2>0, ObjectAssumption DEF Rise, ShapeInv, PhaseInv, Phases, MonsterPhases, EntryInv,
       PreyInv, ViewersInv, WatchersInv, ScriptInv
  <2> QED BY <2>1, <2>2
<1>2. CASE Heal(t, m)
  <2>1. ViewTypes'
    BY <1>0, <1>2 DEF Heal, Phases, MonsterPhases
  <2>2. ShapeInv'
    BY <1>0, <1>2, ObjectAssumption DEF Heal, ShapeInv, PhaseInv, Phases, MonsterPhases, EntryInv,
       PreyInv, ViewersInv, WatchersInv, ScriptInv
  <2> QED BY <2>1, <2>2
<1>3. CASE Return(t, m)
  <2>1. pos' \in [Objects -> Positions]
    BY <1>0, <1>3, ObjectAssumption DEF Return
  <2>2. later' \subseteq Objects \X Objects /\ missed' \subseteq Objects \X Objects
        /\ steady' \in [Objects -> SUBSET Objects]
    BY <1>0, <1>3, TakeTypes DEF Return, Busy
  <2>3. /\ todo' \in [Actors -> SUBSET Objects]
        /\ phase' \in [Actors -> Phases \cup MonsterPhases]
        /\ old' \in [Objects -> SUBSET Objects]
    BY <1>0, <1>3, CastLemma DEF Return, MonsterPhases
  <2>4. ViewTypes'
    BY <1>0, <1>3, <2>1, <2>2, <2>3 DEF Return
  <2>5. ShapeInv'
    BY <1>0, <1>3, ObjectAssumption DEF Return, ShapeInv, PhaseInv, Phases, MonsterPhases, EntryInv,
       PreyInv, ViewersInv, WatchersInv, ScriptInv
  <2> QED BY <2>4, <2>5
<1>4. CASE Appear(t, m)
  <2>1. PICK q \in todo[t] :
          /\ todo' = [todo EXCEPT ![t] = @ \ {q}]
          /\ Rest(t, IF st[q] = "ingame" /\ Near(pos[q], pos[m]) THEN AddObjectToView(q, m) ELSE <<>>)
    BY <1>0, <1>4 DEF Appear
  <2>2. q \in Players
    BY <1>0, <1>4 DEF Appear, ShapeInv, WatchersInv
  <2>3. script' \in [Actors -> Seq(Access)] /\ \A o \in Actors : Chained(script'[o]) /\ (o # t => script'[o] = script[o])
    <3> DEFINE s == IF st[q] = "ingame" /\ Near(pos[q], pos[m]) THEN AddObjectToView(q, m) ELSE <<>>
    <3>1. s \in Seq(Access) /\ Chained(s)
      <4>1. <<>> \in Seq(Access) /\ Chained(<<>>)
        BY DEF Chained
      <4> QED BY <1>0, <2>2, <4>1, AddChained
    <3> HIDE DEF s
    <3>2. script' = [script EXCEPT ![t] = s]
      BY <2>1 DEF Rest, s
    <3> QED BY <1>0, <3>1, <3>2 DEF ShapeInv, ScriptInv
  <2>4. ViewTypes'
    BY <1>0, <1>4, <2>1, <2>3 DEF Appear
  <2>5. ShapeInv'
    <3>1. /\ phase[t] = "appear" /\ todo' = [todo EXCEPT ![t] = @ \ {q}]
          /\ UNCHANGED <<st, prey, phase, goal, new, view>>
      BY <1>0, <1>4, <2>1 DEF Appear
    <3>2. PhaseInv'
      BY <1>0, <2>3, <3>1 DEF ShapeInv, PhaseInv
    <3>3. EntryInv' /\ PreyInv' /\ ScriptInv'
      BY <2>3, <3>1 DEF ShapeInv, EntryInv, PreyInv, ScriptInv
    <3>4. ViewersInv' /\ WatchersInv'
      BY <1>0, <3>1 DEF ShapeInv, ViewersInv, WatchersInv
    <3> QED BY <3>2, <3>3, <3>4 DEF ShapeInv
  <2> QED BY <2>4, <2>5
<1>5. CASE Appeared(t, m)
  <2>1. ViewTypes'
    BY <1>0, <1>5 DEF Appeared, Phases, MonsterPhases
  <2>2. ShapeInv'
    BY <1>0, <1>5, ObjectAssumption DEF Appeared, ShapeInv, PhaseInv, Phases, MonsterPhases, EntryInv,
       PreyInv, ViewersInv, WatchersInv, ScriptInv
  <2> QED BY <2>1, <2>2
<1> QED BY <1>1, <1>2, <1>3, <1>4, <1>5 DEF Respawning


LEMMA StutterTypes == Typed /\ UNCHANGED vars => Typed'
BY DEF vars, world, lair, local, history, Typed, ViewTypes, ShapeInv, PhaseInv, EntryInv, PreyInv,
   ViewersInv, WatchersInv, ScriptInv

LEMMA StepTypes == Typed /\ [MonstersNext]_vars => Typed'
<1> SUFFICES ASSUME Typed, [MonstersNext]_vars PROVE Typed'
  OBVIOUS
<1>1. ASSUME NEW p \in Players, ViewStep(p) PROVE Typed'
  <2>1. p \in Objects /\ p \in Actors
    BY DEF Objects, Actors
  <2> QED BY <1>1, <2>1, ExecuteTypes, EnteringTypes, StirringTypes, LookTypes, TellingTypes,
  RunJobTypes,
             KillingTypes, LeavingTypes DEF ViewStep, Checking
<1>2. ASSUME NEW m \in Monsters, NEW t \in Handlers(m), MonsterStep(t, m) PROVE Typed'
  <2>1. t \in Actors
    BY HandlersLemma
  <2> QED BY <1>2, <2>1, ExecuteTypes, WalkingTypes, WatchingTypes, PostingTypes,
             RespawningTypes DEF MonsterStep
<1> QED BY <1>1, <1>2, StutterTypes DEF MonstersNext, ViewNext

-----------------------------------------------------------------------------
(* One thread at a time, unless the monster is among the doubled.          *)

\* The thread is about to go on with a wake-up of the monster.
Wakes(t, m) == script[t] # <<>> /\ Head(script[t]).op \in Waking /\ Head(script[t]).of = m

\* What the handler of a monster does to others: it tells them of that monster.
Meant(t, a) == a.op \in {"seeNow", "lose", "insert", "show"} /\ a.obj \in Monsters /\ t \in Handlers(a.obj)

\* The handlers of monsters do nothing else.  As long as two threads have not been at work
\* on a monster at once, no twin has taken up an event of it, and a step that it is
\* about to register leads where it stands.
SoloInv ==
  /\ \A t \in Actors \ Players : \A i \in 1..Len(script[t]) :
       Meant(t, script[t][i])
  /\ \A m \in Monsters \ doubled :
       /\ \A t \in Twins : Of[t] = m => phase[t] = "idle"
       /\ \A t, u \in Actors : AtWork(t, m) /\ AtWork(u, m) => t = u
       /\ phase[m] \in {"leave", "arrive"} => goal[m] = pos[m]

TypeInv == Typed /\ SoloInv

LEMMA InitSolo == ViewInit => SoloInv
<1> SUFFICES ASSUME ViewInit PROVE SoloInv
  OBVIOUS
<1>1. \A t \in Actors : script[t] = <<>> /\ phase[t] = "idle"
  BY DEF ViewInit
<1>2. \A m \in Monsters : \A t \in Actors : ~AtWork(t, m)
  BY <1>1 DEF AtWork
<1>3. Twins \subseteq Actors /\ Monsters \subseteq Actors
  BY DEF Actors, Objects
<1> QED BY <1>1, <1>2, <1>3 DEF SoloInv

\* What a step must do: start no turn of a monster's handler with another access, and
\* bring nobody to work on a monster.
LEMMA SoloFrame ==
  ASSUME SoloInv, doubled \subseteq doubled',
         \A t \in Actors \ Players : \/ script'[t] = script[t]
                                     \/ \A i \in 1..Len(script'[t]) :
                                          Meant(t, script'[t][i]),
         \A m \in Monsters \ doubled', t \in Actors : AtWork(t, m)' => AtWork(t, m),
         \A m \in Monsters \ doubled', t \in Twins : Of[t] = m => phase'[t] = "idle",
         \A m \in Monsters \ doubled' :
           phase'[m] \in {"leave", "arrive"} =>
             phase[m] \in {"leave", "arrive"} /\ goal'[m] = goal[m] /\ pos'[m] = pos[m]
  PROVE  SoloInv'
<1>1. \A t \in Actors \ Players : \A i \in 1..Len(script'[t]) :
        Meant(t, script'[t][i])
  BY DEF SoloInv
<1>2. ASSUME NEW m \in Monsters \ doubled'
      PROVE  /\ \A t \in Twins : Of[t] = m => phase'[t] = "idle"
             /\ \A t, u \in Actors : AtWork(t, m)' /\ AtWork(u, m)' => t = u
             /\ phase'[m] \in {"leave", "arrive"} => goal'[m] = pos'[m]
  <2>1. m \in Monsters \ doubled
    OBVIOUS
  <2> QED BY <1>2, <2>1 DEF SoloInv
<1> QED BY <1>1, <1>2 DEF SoloInv

\* A player who starts a turn, or none, is not in the middle of a wake-up.
LEMMA PlayerSolo ==
  ASSUME Typed, SoloInv, NEW p \in Players, doubled' = doubled,
         \A t \in Actors : t # p => script'[t] = script[t] /\ phase'[t] = phase[t],
         \/ script'[p] = script[p]
         \/ script'[p] = <<>>
         \/ Head(script'[p]).op \notin Waking,
         \A m \in Monsters : goal'[m] = goal[m] /\ pos'[m] = pos[m]
  PROVE  SoloInv'
<1>1. Monsters \subseteq Actors /\ Twins \subseteq Actors /\ p \notin Monsters /\ p \notin Twins
  BY ObjectAssumption, TwinAssumption DEF Actors, Objects
<1>2. ASSUME NEW m \in Monsters, NEW t \in Actors, AtWork(t, m)' PROVE AtWork(t, m)
  <2>1. CASE t = p
    <3>1. p \notin Handlers(m)
      BY HandlersLemma
    <3>2. script'[p] # <<>> /\ Head(script'[p]).op \in Waking /\ Head(script'[p]).of = m
      BY <1>2, <2>1, <3>1 DEF AtWork, Handlers
    <3> QED BY <2>1, <3>2 DEF AtWork
  <2>2. CASE t # p
    BY <1>2, <2>2 DEF AtWork, Handlers
  <2> QED BY <2>1, <2>2
<1>3. \A m \in Monsters \ doubled', t \in Twins : Of[t] = m => phase'[t] = "idle"
  BY <1>1 DEF SoloInv
<1>4. \A m \in Monsters : phase'[m] = phase[m]
  BY <1>1
<1> QED BY <1>1, <1>2, <1>3, <1>4, SoloFrame

\* A thread at work on a monster that no other is at work on is the one of its name.
LEMMA SoloHandler ==
  ASSUME SoloInv, NEW m \in Monsters \ doubled, NEW t \in Handlers(m), phase[t] # "idle"
  PROVE  t = m /\ AtWork(m, m)
<1>1. t = m
  BY HandlersLemma DEF SoloInv, Handlers
<1> QED BY <1>1 DEF AtWork, Handlers

\* Nobody is at work on a monster that an event of it leaves out of the doubled.
LEMMA EngageSolo ==
  ASSUME SoloInv, NEW m \in Monsters, NEW t \in Handlers(m), Free(t, m), Engage(m), m \notin doubled'
  PROVE  t = m /\ \A u \in Actors : ~AtWork(u, m)
<1>1. \A u \in Actors : ~AtWork(u, m)
  BY DEF Engage
<1>2. m \in Actors /\ m \in Handlers(m)
  BY DEF Handlers, Actors, Objects
<1> QED BY <1>1, <1>2 DEF Free, AtWork

\* A monster's handler that goes on.
LEMMA HandlerSolo ==
  ASSUME Typed, SoloInv, NEW m \in Monsters, NEW t \in Handlers(m), phase[t] # "idle",
         doubled' = doubled,
         \A u \in Actors : u # t => script'[u] = script[u] /\ phase'[u] = phase[u] /\ goal'[u] = goal[u],
         \/ script'[t] = script[t]
         \/ \A i \in 1..Len(script'[t]) : Meant(t, script'[t][i]),
         script'[t] \in Seq(Access),
         phase'[t] \in {"leave", "arrive"} =>
           \/ goal'[t] = pos'[m]
           \/ phase[t] \in {"leave", "arrive"} /\ goal'[t] = goal[t] /\ pos'[m] = pos[m],
         \A x \in Objects : x # m => pos'[x] = pos[x]
  PROVE  SoloInv'
<1>1. /\ Monsters \subseteq Actors /\ Twins \subseteq Actors
      /\ t \in Actors \ Players /\ (t \notin Twins => t = m) /\ (t \in Twins => Of[t] = m)
      /\ Monsters \subseteq Objects /\ Monsters \cap Twins = {}
  BY HandlersLemma, TwinAssumption DEF Actors, Objects
<1>2. \A u \in Actors \ Players : \A i \in 1..Len(script'[u]) :
        Meant(u, script'[u][i])
  BY DEF SoloInv
<1>3. script'[t] # <<>> => Head(script'[t]).op \notin Waking
  <2>1. script'[t] # <<>> => 1 \in 1..Len(script'[t]) /\ Head(script'[t]) = script'[t][1]
    OBVIOUS
  <2>2. \A i \in 1..Len(script'[t]) : Meant(t, script'[t][i])
    BY <1>1, <1>2
  <2> QED BY <2>1, <2>2 DEF Waking, Meant
<1>4. ASSUME NEW x \in Monsters \ doubled', NEW u \in Actors, AtWork(u, x)' PROVE AtWork(u, x)
  <2>1. CASE u = t
    <3>1. t \in Handlers(x)
      BY <1>3, <1>4, <2>1 DEF AtWork, Handlers
    <3> QED BY <2>1, <3>1 DEF AtWork
  <2>2. CASE u # t
    BY <1>4, <2>2 DEF AtWork, Handlers
  <2> QED BY <2>1, <2>2
<1>5. ASSUME NEW x \in Monsters \ doubled', NEW u \in Twins, Of[u] = x PROVE phase'[u] = "idle"
  <2>1. phase[u] = "idle" /\ u \in Actors
    BY <1>1, <1>5 DEF SoloInv
  <2> QED BY <2>1
<1>6. ASSUME NEW x \in Monsters \ doubled' , phase'[x] \in {"leave", "arrive"}
      PROVE  goal'[x] = pos'[x]
  <2>1. phase[x] \in {"leave", "arrive"} => goal[x] = pos[x]
    BY DEF SoloInv
  <2>2. CASE x = t
    <3>1. x = m
      BY <1>1, <2>2
    <3> QED BY <1>6, <2>1, <2>2, <3>1
  <2>3. CASE x # t
    <3>1. phase[x] \in {"leave", "arrive"} /\ goal'[x] = goal[x] /\ x \in Objects
      BY <1>1, <1>6, <2>3
    <3>2. x # m
      <4>1. SUFFICES ASSUME x = m PROVE FALSE
        OBVIOUS
      <4>2. t \in Twins /\ Of[t] = x
        BY <1>1, <2>3, <4>1
      <4> QED BY <4>2 DEF SoloInv
    <3> QED BY <2>1, <3>1, <3>2
  <2> QED BY <2>2, <2>3
<1>7. ASSUME NEW x \in Monsters \ doubled', NEW u \in Actors, NEW v \in Actors,
             AtWork(u, x)', AtWork(v, x)'
      PROVE  u = v
  <2>1. AtWork(u, x) /\ AtWork(v, x)
    BY <1>4, <1>7
  <2> QED BY <2>1 DEF SoloInv
<1> QED BY <1>2, <1>5, <1>6, <1>7 DEF SoloInv

\* An event that is taken up.
LEMMA FreeSolo ==
  ASSUME Typed, SoloInv, NEW m \in Monsters, NEW t \in Handlers(m), Free(t, m), Engage(m),
         script' = script, pos' = pos,
         \A u \in Actors : u # t => phase'[u] = phase[u] /\ goal'[u] = goal[u],
         phase'[t] \notin {"leave", "arrive"}
  PROVE  SoloInv'
<1>1. /\ Monsters \subseteq Actors /\ Twins \subseteq Actors
      /\ t \in Actors \ Players /\ (t \notin Twins => t = m) /\ (t \in Twins => Of[t] = m)
      /\ Monsters \cap Twins = {} /\ m \in Actors
      /\ doubled \subseteq doubled'
  BY HandlersLemma, TwinAssumption DEF Actors, Objects, Engage
<1>2. \A u \in Actors \ Players : \A i \in 1..Len(script'[u]) :
        Meant(u, script'[u][i])
  BY DEF SoloInv
<1>3. ASSUME NEW x \in Monsters \ doubled', NEW u \in Actors, AtWork(u, x)'
      PROVE  AtWork(u, x) \/ (u = t /\ x = m)
  <2>1. CASE u = t /\ x # m
    <3>1. t \notin Handlers(x)
      BY <1>1, <2>1, HandlersLemma, TwinAssumption DEF Handlers, Objects
    <3>2. t \notin Handlers(x)'
      BY <3>1 DEF Handlers
    <3> QED BY <1>3, <2>1, <3>2 DEF AtWork
  <2>2. CASE u # t
    BY <1>3, <2>2 DEF AtWork, Handlers
  <2> QED BY <2>1, <2>2
<1>4. m \notin doubled' => t = m /\ \A u \in Actors : ~AtWork(u, m)
  BY EngageSolo
<1>5. ASSUME NEW x \in Monsters \ doubled', NEW u \in Twins, Of[u] = x PROVE phase'[u] = "idle"
  <2>1. phase[u] = "idle" /\ u \in Actors
    BY <1>1, <1>5 DEF SoloInv
  <2>2. u # t
    BY <1>1, <1>4, <1>5
  <2> QED BY <2>1, <2>2
<1>6. ASSUME NEW x \in Monsters \ doubled', phase'[x] \in {"leave", "arrive"}
      PROVE  goal'[x] = pos'[x]
  BY <1>1, <1>6 DEF SoloInv
<1>7. ASSUME NEW x \in Monsters \ doubled', NEW u \in Actors, NEW v \in Actors,
             AtWork(u, x)', AtWork(v, x)'
      PROVE  u = v
  <2>1. CASE x = m
    BY <1>3, <1>4, <1>7, <2>1
  <2>2. CASE x # m
    <3>1. AtWork(u, x) /\ AtWork(v, x)
      BY <1>3, <1>7, <2>2
    <3> QED BY <1>1, <3>1 DEF SoloInv
  <2> QED BY <2>1, <2>2
<1> QED BY <1>2, <1>5, <1>6, <1>7 DEF SoloInv

\* The first access of a turn of a player is not a part of a wake-up.
LEMMA TurnHeads ==
  ASSUME NEW p, NEW q, NEW s
  PROVE  /\ Head(<<Op("meet", q, p)>>).op \notin Waking
         /\ Head(<<Op("lose", q, p)>>).op \notin Waking
         /\ Head(<<Op("wake", q, p)>> \o s).op \notin Waking
BY DEF Op, Waking

LEMMA FirstHeads ==
  ASSUME NEW p \in Players, NEW q \in Objects, NEW s \in Seq(Access)
  PROVE  /\ Head(AddObjectToView(p, q)).op \notin Waking
         /\ Head(RemoveObjectFromView(p, q)).op \notin Waking
         /\ Head(RemoveObjectFromView(p, q) \o s).op \notin Waking
         /\ Head(<<Notice(p, q)>> \o s).op \notin Waking
         /\ Head(<<Op("wake", q, p)>> \o s).op \notin Waking
<1>1. Head(AddObjectToView(p, q)).op \notin Waking
  BY DEF AddObjectToView, Op, Waking
<1>2. Head(RemoveObjectFromView(p, q)).op \notin Waking
  BY DEF RemoveObjectFromView, Op, Waking
<1>3. /\ \A x \in Access : Head(<<x>> \o s) = x
      /\ \A x, y \in Access : Head(<<x, y>> \o s) = x
  <2>1. ASSUME NEW x \in Access PROVE Head(<<x>> \o s) = x
    OBVIOUS
  <2>2. ASSUME NEW x \in Access, NEW y \in Access PROVE Head(<<x, y>> \o s) = x
    OBVIOUS
  <2> QED BY <2>1, <2>2
<1>4. Head(RemoveObjectFromView(p, q) \o s).op \notin Waking
  <2>1. Op("erase", p, q) \in Access /\ Op("hide", p, q) \in Access /\ Op("erase", p, q).op \notin Waking
    BY DEF Op, Access, Objects, Waking
  <2> QED BY <1>3, <2>1 DEF RemoveObjectFromView
<1>5. Notice(p, q) \in Access /\ Notice(p, q).op \notin Waking
  <2>1. \/ Notice(p, q) = Op("wake", q, p) /\ q \in Monsters
        \/ Notice(p, q) = Op("seeNow", q, p) /\ q \in Players
        \/ Notice(p, q) = Op("see", q, p) /\ q \in Players
    BY DEF Notice, Objects
  <2> QED BY <2>1 DEF Op, Access, Waking, JobKinds, Objects
<1>6. Head(<<Notice(p, q)>> \o s).op \notin Waking
  BY <1>3, <1>5
<1>7. Op("wake", q, p) \in Access /\ Op("wake", q, p).op \notin Waking
  BY DEF Op, Access, Waking, Objects
<1>8. Head(<<Op("wake", q, p)>> \o s).op \notin Waking
  BY <1>3, <1>7
<1> QED BY <1>1, <1>2, <1>4, <1>6, <1>8

LEMMA PlayersSolo ==
  ASSUME Typed, SoloInv, NEW p \in Players,
         \/ Entering(p) \/ Stirring(p) \/ Checking(p) \/ Telling(p) \/ RunJob(p) \/ Killing(p) \/ Leaving(p)
  PROVE  SoloInv'
<1> USE DEF world, lair, local, history, At, Goto, Rest
<1>1. /\ p \in Objects /\ p \in Actors /\ Objects \subseteq Actors /\ p \notin Monsters
      /\ todo[p] \subseteq Objects /\ script \in [Actors -> Seq(Access)] /\ phase \in [Actors -> Phases \cup MonsterPhases]
      /\ phase[p] = "bye" \/ phase[p] = "bury" => todo[p] \subseteq Players
      /\ phase[p] = "bury" => prey[p] \in Objects
      /\ \A s \in Seq(Access) : s \o <<>> = s
      /\ <<>> \in Seq(Access)
  BY ObjectAssumption DEF Typed, ViewTypes, ShapeInv, ViewersInv, PreyInv, Objects, Actors
<1>2. /\ doubled' = doubled
      /\ \A t \in Actors : t # p => script'[t] = script[t] /\ phase'[t] = phase[t]
      /\ \A m \in Monsters : goal'[m] = goal[m] /\ pos'[m] = pos[m]
  <2> USE <1>1
  <2>1. CASE Entering(p)
    <3>1. CASE Login(p)
      BY <3>1 DEF Login, Typed, ViewTypes
    <3>2. CASE Greet(p)
      BY <3>2 DEF Greet
    <3>3. CASE Enter(p) \/ Greeted(p) \/ Register(p)
      BY <3>3 DEF Enter, Greeted, Register
    <3> QED BY <2>1, <3>1, <3>2, <3>3 DEF Entering
  <2>2. CASE Stirring(p)
    <3>1. ASSUME NEW at, Stand(p, at) PROVE \A m \in Monsters : pos'[m] = pos[m]
      BY <3>1 DEF Stand, Typed, ViewTypes
    <3>2. ASSUME NEW at, Stand(p, at)
          PROVE  /\ \A t \in Actors : t # p => script'[t] = script[t] /\ phase'[t] = phase[t]
                 /\ UNCHANGED lair
      BY <3>2 DEF Stand
    <3>3. CASE Move(p) \/ Die(p)
      BY <3>1, <3>2, <3>3 DEF Move, Die
    <3>4. CASE Leave(p, p) \/ Arrive(p)
      BY <3>4 DEF Leave, Arrive
    <3> QED BY <2>2, <3>3, <3>4 DEF Stirring
  <2>3. CASE Checking(p)
    BY <2>3 DEF Checking, Check, Visit, Look, Looked, Typed, ViewTypes
  <2>4. CASE Telling(p)
    BY <2>4 DEF Telling, Tell, Told, Drop, Dropped, Typed, ViewTypes
  <2>5. CASE RunJob(p)
    BY <2>5 DEF RunJob
  <2>6. CASE Killing(p)
    BY <2>6 DEF Killing, Hit, Kill, Mourn, Mourned, Bury, Buried, Typed, ViewTypes
  <2>7. CASE Leaving(p)
    BY <2>7 DEF Leaving, Logout, Bye, Gone, Typed, ViewTypes
  <2> QED BY <2>1, <2>2, <2>3, <2>4, <2>5, <2>6, <2>7
<1>3. \/ script' = script
      \/ \E s \in Seq(Access) : script' = [script EXCEPT ![p] = s] /\ (s = <<>> \/ Head(s).op \notin Waking)
  <2> DEFINE Begun == \E s \in Seq(Access) : /\ script' = [script EXCEPT ![p] = s]
                                             /\ s = <<>> \/ Head(s).op \notin Waking
  <2>1. CASE Greet(p)
    <3>1. PICK q \in todo[p] :
            Rest(p, IF ~Near(pos[p], pos[q]) THEN <<>>
                    ELSE IF q \in Players THEN <<Op("meet", q, p)>>
                    ELSE <<Op("wake", q, p)>> \o AddObjectToView(p, q))
      BY <2>1 DEF Greet
    <3>2. q \in Objects
      BY <1>1
    <3>3. CASE q \in Players
      <4>1. <<Op("meet", q, p)>> \in Seq(Access)
        <5>1. Op("meet", q, p) \in Access
          BY <1>1, <3>2 DEF Op, Access
        <5> QED BY <5>1
      <4> QED BY <1>1, <3>1, <3>3, <4>1, TurnHeads
    <3>4. CASE q \in Monsters
      <4>1. <<Op("wake", q, p)>> \o AddObjectToView(p, q) \in Seq(Access)
        BY <3>2, <3>4, NoticeAdd DEF Notice
      <4> QED BY <1>1, <3>1, <3>4, <4>1, TurnHeads, ObjectAssumption
    <3> QED BY <3>2, <3>3, <3>4 DEF Objects
  <2>2. CASE Tell(p)
    <3>1. PICK q \in todo[p] :
            Rest(p, <<Notice(p, q)>> \o (IF q \in old[p] THEN <<>> ELSE AddObjectToView(p, q)))
      BY <2>2 DEF Tell
    <3>2. q \in Objects /\ AddObjectToView(p, q) \in Seq(Access)
      BY <1>1, AddChained
    <3>3. /\ <<Notice(p, q)>> \o <<>> \in Seq(Access)
          /\ <<Notice(p, q)>> \o AddObjectToView(p, q) \in Seq(Access)
      BY <1>1, <3>2, NoticeAdd
    <3> QED BY <1>1, <3>1, <3>2, <3>3, FirstHeads
  <2>3. CASE Drop(p)
    <3>1. PICK q \in todo[p] :
            Rest(p, RemoveObjectFromView(p, q) \o (IF q \in Players THEN <<Op("lose", q, p)>> ELSE <<>>))
      BY <2>3 DEF Drop
    <3>2. q \in Objects /\ (q \in Players => <<Op("lose", q, p)>> \in Seq(Access))
      BY <1>1, PostChained DEF JobKinds
    <3>3. RemoveObjectFromView(p, q) \o (IF q \in Players THEN <<Op("lose", q, p)>> ELSE <<>>) \in Seq(Access)
      BY <3>2, Followed
    <3> QED BY <1>1, <3>1, <3>2, <3>3, FirstHeads
  <2>4. CASE RunJob(p)
    <3> DEFINE j == Head(jobs[p])
    <3>1. j.who \in Objects
      <4>1. jobs[p] \in Seq(Job) /\ jobs[p] # <<>>
        BY <2>4 DEF RunJob, Typed, ViewTypes
      <4>2. j \in Job
        BY <4>1
      <4> QED BY <4>2 DEF Job
    <3>2. \/ script' = script
          \/ script' = [script EXCEPT ![p] = RemoveObjectFromView(p, j.who)]
          \/ script' = [script EXCEPT ![p] = AddObjectToView(p, j.who)]
      BY <2>4 DEF RunJob
    <3> HIDE DEF j
    <3> QED BY <1>1, <3>1, <3>2, FirstHeads, AddChained, RemoveChained
  <2>5. CASE Bury(p)
    <3>1. PICK q \in todo[p] : Rest(p, RemoveObjectFromView(q, prey[p]))
      BY <2>5 DEF Bury
    <3>2. q \in Players /\ prey[p] \in Objects
      BY <1>1, <2>5 DEF Bury
    <3> QED BY <1>1, <3>1, <3>2, FirstHeads, RemoveChained
  <2>6. CASE Bye(p)
    <3>1. PICK q \in todo[p] : Rest(p, <<Op("lose", q, p)>>)
      BY <2>6 DEF Bye
    <3>2. q \in Players
      BY <1>1, <2>6 DEF Bye
    <3>3. <<Op("lose", q, p)>> \in Seq(Access)
      BY <1>1, <3>2, PostChained DEF JobKinds
    <3> QED BY <3>1, <3>3, TurnHeads
  <2>7. \/ Greet(p) \/ Tell(p) \/ Drop(p) \/ RunJob(p) \/ Bury(p) \/ Bye(p)
        \/ script' = script
    <3>1. CASE Entering(p)
      BY <3>1 DEF Entering, Login, Enter, Greeted, Register
    <3>2. CASE Stirring(p)
      BY <3>2 DEF Stirring, Move, Die, Stand, Leave, Arrive
    <3>3. CASE Checking(p)
      BY <3>3 DEF Checking, Check, Visit, Look, Looked
    <3>4. CASE Telling(p)
      BY <3>4 DEF Telling, Told, Dropped
    <3>5. CASE Killing(p)
      BY <3>5 DEF Killing, Hit, Kill, Mourn, Mourned, Buried
    <3>6. CASE Leaving(p)
      BY <3>6 DEF Leaving, Logout, Gone
    <3> QED BY <3>1, <3>2, <3>3, <3>4, <3>5, <3>6
  <2> QED BY <2>1, <2>2, <2>3, <2>4, <2>5, <2>6, <2>7
<1>4. \/ script'[p] = script[p]
      \/ script'[p] = <<>>
      \/ Head(script'[p]).op \notin Waking
  BY <1>1, <1>3
<1> QED BY <1>2, <1>4, PlayerSolo

LEMMA ExecuteSolo ==
  ASSUME Typed, SoloInv, NEW t \in Actors, Execute(t)
  PROVE  SoloInv'
<1> DEFINE a == Head(script[t])
           rest == Tail(script[t])
<1>1. /\ script[t] # <<>>
      /\ \/ Enqueue(t, a, rest) \/ Meet(t, a, rest)
         \/ WakeUp(t, a, rest) \/ Rouse(t, a, rest) \/ Clear(t, a, rest)
         \/ Scan(t, a, rest) \/ Begin(t, a, rest)
         \/ Insert(t, a, rest) \/ Erase(t, a, rest) \/ Show(t, a, rest) \/ Hide(t, a, rest)
      /\ UNCHANGED <<world, cast, life, due, prey, goal, phase, dying, todo, old, new,
                     moves, later, missed, steady>>
  BY DEF Execute
<1>2. script[t] \in Seq(Access) /\ Chained(script[t]) /\ script \in [Actors -> Seq(Access)]
  BY DEF Typed, ViewTypes, ShapeInv, ScriptInv
<1>3. /\ a \in Access /\ Sound(a) /\ rest \in Seq(Access) /\ Chained(rest)
      /\ \A i \in 1..Len(rest) :
           /\ rest[i].op # "meet"
           /\ rest[i].op \in Waking => a.op \in Waking /\ a.of = rest[i].of
      /\ a.op = "meet" => rest = <<>>
      /\ a.op = "erase" => rest # <<>>
  BY <1>1, <1>2, TailChained
<1>4. /\ a.of \in Objects /\ a.obj \in Objects
      /\ a.op \in {"wake"} \cup Waking => a.of \in Monsters /\ a.obj \in Players
      /\ a.op = "meet" => a.of \in Players /\ a.obj \in Players
  BY <1>3 DEF Access, Sound, Waking
<1>5. Monsters \subseteq Objects /\ Objects \subseteq Actors /\ Twins \subseteq Actors /\ Players \subseteq Objects
  BY DEF Actors, Objects
\* What is left of a script.
<1>6. ASSUME NEW s \in Seq(Access), s = rest \/ (a.op = "erase" /\ s = Tail(rest))
      PROVE  /\ s # <<>> /\ Head(s).op \in Waking => a.op \in Waking /\ Head(s).of = a.of
             /\ \A i \in 1..Len(s) : \E k \in 1..Len(script[t]) : s[i] = script[t][k]
  <2>1. \A i \in 1..Len(rest) : i + 1 \in 1..Len(script[t]) /\ rest[i] = script[t][i + 1]
    BY <1>1, <1>2
  <2>2. ASSUME NEW r \in Seq(Access), r # <<>>
        PROVE  /\ \A i \in 1..Len(Tail(r)) : i + 1 \in 1..Len(r) /\ Tail(r)[i] = r[i + 1]
               /\ Len(Tail(r)) = Len(r) - 1 /\ Tail(r) \in Seq(Access)
    BY <2>2
  <2> HIDE DEF rest, a
  <2>3. \A i \in 1..Len(s) : \E j \in 1..Len(rest) : s[i] = rest[j]
    <3>1. CASE s = rest
      BY <3>1
    <3>2. CASE a.op = "erase" /\ s = Tail(rest)
      BY <1>3, <2>2, <3>2
    <3> QED BY <1>6, <3>1, <3>2
  <2>4. s # <<>> => 1 \in 1..Len(s) /\ Head(s) = s[1]
    OBVIOUS
  <2>5. s # <<>> => \E j \in 1..Len(rest) : Head(s) = rest[j]
    BY <2>3, <2>4
  <2>6. s # <<>> /\ Head(s).op \in Waking => a.op \in Waking /\ Head(s).of = a.of
    BY <1>3, <2>5
  <2>7. \A i \in 1..Len(s) : \E k \in 1..Len(script[t]) : s[i] = script[t][k]
    BY <2>1, <2>3
  <2> QED BY <2>6, <2>7
\* A step that leaves of the script what was there.
<1>7. ASSUME NEW s \in Seq(Access), Rest(t, s), doubled' = doubled,
             s # <<>> /\ Head(s).op \in Waking => a.op \in Waking /\ Head(s).of = a.of,
             t \notin Players => \A i \in 1..Len(s) : Meant(t, s[i])
      PROVE  SoloInv'
  <2>1. /\ script' = [script EXCEPT ![t] = s]
        /\ UNCHANGED <<phase, goal, pos>>
    BY <1>1, <1>7 DEF Rest, world
  <2>2. script'[t] = s /\ \A u \in Actors : u # t => script'[u] = script[u]
    BY <1>2, <2>1
  <2>3. ASSUME NEW m \in Monsters, NEW u \in Actors, AtWork(u, m)' PROVE AtWork(u, m)
    <3>1. CASE u \in Handlers(m) /\ phase[u] # "idle"
      BY <3>1 DEF AtWork
    <3>2. CASE script'[u] # <<>> /\ Head(script'[u]).op \in Waking /\ Head(script'[u]).of = m
      <4>1. CASE u = t
        BY <1>1, <1>7, <2>2, <3>2, <4>1 DEF AtWork
      <4>2. CASE u # t
        BY <2>2, <3>2, <4>2 DEF AtWork
      <4> QED BY <4>1, <4>2
    <3> QED BY <2>1, <2>3, <3>1, <3>2 DEF AtWork, Handlers
  <2>4. \A u \in Actors \ Players : \/ script'[u] = script[u]
                                    \/ \A i \in 1..Len(script'[u]) :
                                         Meant(u, script'[u][i])
    BY <1>7, <2>2
  <2>5. \A m \in Monsters \ doubled', u \in Twins : Of[u] = m => phase'[u] = "idle"
    BY <1>7, <2>1 DEF SoloInv
  <2> HIDE DEF AtWork
  <2> QED BY <1>7, <2>1, <2>3, <2>4, <2>5, SoloFrame
<1>8. t \notin Players => \A i \in 1..Len(script[t]) : Meant(t, script[t][i])
  BY DEF SoloInv
<1>9. t \notin Players => Meant(t, a)
  <2>1. 1 \in 1..Len(script[t]) /\ a = script[t][1]
    BY <1>1, <1>2
  <2> QED BY <1>8, <2>1
<1> HIDE DEF a, rest
<1>10. ASSUME NEW s \in Seq(Access), s = rest \/ (a.op = "erase" /\ s = Tail(rest)), Rest(t, s), doubled' = doubled
       PROVE  SoloInv'
  <2>1. s # <<>> /\ Head(s).op \in Waking => a.op \in Waking /\ Head(s).of = a.of
    BY <1>6, <1>10
  <2>2. t \notin Players => \A i \in 1..Len(s) : Meant(t, s[i])
    BY <1>6, <1>8, <1>10
  <2> QED BY <1>7, <1>10, <2>1, <2>2
<1>11. CASE Meet(t, a, rest)
  <2> DEFINE s == IF st[a.of] = "ingame"
                    THEN AddObjectToView(a.of, a.obj) \o AddObjectToView(a.obj, a.of)
                    ELSE <<>>
  <2>1. a.op = "meet" /\ Rest(t, s \o rest) /\ doubled' = doubled
    BY <1>11 DEF Meet
  <2>2. rest = <<>> /\ a.of \in Players /\ a.obj \in Players
    BY <1>3, <1>4, <2>1
  <2>3. s \in Seq(Access) /\ (s = <<>> \/ Head(s).op \notin Waking)
    <3>1. AddObjectToView(a.of, a.obj) \o AddObjectToView(a.obj, a.of) \in Seq(Access)
      BY <1>4, <2>2, AddChained
    <3>2. Head(AddObjectToView(a.of, a.obj) \o AddObjectToView(a.obj, a.of)) = Head(AddObjectToView(a.of, a.obj))
      <4>1. Op("insert", a.of, a.obj) \in Access /\ Op("show", a.of, a.obj) \in Access
        BY <1>4, <2>2 DEF Op, Access
      <4>2. AddObjectToView(a.obj, a.of) \in Seq(Access)
        BY <1>4, <2>2, AddChained
      <4>3. ASSUME NEW x \in Access, NEW y \in Access, NEW r \in Seq(Access) PROVE Head(<<x, y>> \o r) = Head(<<x, y>>)
        OBVIOUS
      <4> QED BY <4>1, <4>2, <4>3 DEF AddObjectToView
    <3>3. Head(AddObjectToView(a.of, a.obj)).op \notin Waking
      BY <1>3, <1>4, <2>2, FirstHeads
    <3> QED BY <3>1, <3>2, <3>3
  <2>4. t \in Players
    BY <1>9, <2>1 DEF Meant
  <2> HIDE DEF s
  <2>5. s \o rest = s
    BY <2>2, <2>3
  <2> QED BY <1>7, <2>1, <2>3, <2>4, <2>5
<1>12. CASE WakeUp(t, a, rest)
  <2>1. a.op = "wake" /\ a.of \in Monsters /\ a.obj \in Players /\ t \in Players
    BY <1>4, <1>9, <1>12 DEF WakeUp, Meant
  <2>2. CASE Rest(t, rest) /\ doubled' = doubled
    BY <1>3, <1>10, <2>2
  <2>3. CASE Rest(t, Waken(a.of, a.obj) \o rest) /\ Engage(a.of)
    <3> DEFINE s == Waken(a.of, a.obj) \o rest
    <3>1. s \in Seq(Access) /\ s # <<>> /\ Head(s).of = a.of
      <4>1. ASSUME NEW x1 \in Access, NEW x2 \in Access, NEW x3 \in Access, NEW x4 \in Access, NEW r \in Seq(Access)
            PROVE  /\ Head(<<x1, x2, x3, x4>> \o r) = x1 /\ <<x1, x2, x3, x4>> \o r \in Seq(Access)
                   /\ <<x1, x2, x3, x4>> \o r # <<>>
        <5>1. /\ Len(<<x1, x2, x3, x4>> \o r) = 4 + Len(r) /\ Len(r) \in Nat
              /\ (<<x1, x2, x3, x4>> \o r)[1] = x1 /\ <<x1, x2, x3, x4>> \o r \in Seq(Access)
          OBVIOUS
        <5>2. <<x1, x2, x3, x4>> \o r # <<>>
          BY <5>1
        <5> QED BY <5>1, <5>2, HeadLemma
      <4>2. \A op \in Waking : Op(op, a.of, a.obj) \in Access /\ Op(op, a.of, a.obj).of = a.of
        BY <1>4 DEF Op, Access
      <4> QED BY <1>3, <4>1, <4>2 DEF Waken, Waking
    <3> HIDE DEF s
    <3>2. /\ script' = [script EXCEPT ![t] = s] /\ UNCHANGED <<phase, goal, pos>>
      BY <1>1, <2>3 DEF Rest, world, s
    <3>3. script'[t] = s /\ \A u \in Actors : u # t => script'[u] = script[u]
      BY <1>2, <3>2
    <3>4. doubled \subseteq doubled' /\ (a.of \notin doubled' => \A u \in Actors : ~AtWork(u, a.of))
      BY <2>3 DEF Engage
    <3>5. ASSUME NEW m \in Monsters, NEW u \in Actors, AtWork(u, m)'
          PROVE  AtWork(u, m) \/ (u = t /\ m = a.of)
      <4>1. CASE u = t
        <5>1. t \notin Handlers(m)
          BY <2>1, HandlersLemma
        <5>2. script'[t] # <<>> /\ Head(script'[t]).of = m
          BY <1>5, <3>5, <4>1, <5>1 DEF AtWork, Handlers
        <5> QED BY <3>1, <3>3, <4>1, <5>2
      <4>2. CASE u # t
        BY <3>2, <3>3, <3>5, <4>2 DEF AtWork, Handlers
      <4> QED BY <4>1, <4>2
    <3>6. \A u \in Actors \ Players : \A i \in 1..Len(script'[u]) :
            Meant(u, script'[u][i])
      BY <2>1, <3>3 DEF SoloInv
    <3>7. ASSUME NEW m \in Monsters \ doubled'
          PROVE  /\ \A u \in Twins : Of[u] = m => phase'[u] = "idle"
                 /\ \A u, v \in Actors : AtWork(u, m)' /\ AtWork(v, m)' => u = v
                 /\ phase'[m] \in {"leave", "arrive"} => goal'[m] = pos'[m]
      <4>1. m \in Monsters \ doubled
        BY <3>4
      <4>2. /\ \A u \in Twins : Of[u] = m => phase'[u] = "idle"
            /\ phase'[m] \in {"leave", "arrive"} => goal'[m] = pos'[m]
        BY <3>2, <4>1 DEF SoloInv
      <4>3. ASSUME NEW u \in Actors, NEW v \in Actors, AtWork(u, m)', AtWork(v, m)' PROVE u = v
        <5>1. CASE m = a.of
          BY <3>4, <3>5, <4>3, <5>1
        <5>2. CASE m # a.of
          <6>1. AtWork(u, m) /\ AtWork(v, m)
            BY <3>5, <4>3, <5>2
          <6> QED BY <4>1, <6>1 DEF SoloInv
        <5> QED BY <5>1, <5>2
      <4> QED BY <4>2, <4>3
    <3> QED BY <3>6, <3>7 DEF SoloInv
  <2> QED BY <1>12, <2>2, <2>3 DEF WakeUp
<1>13. CASE Scan(t, a, rest) /\ script' = script
  <2>1. doubled' = doubled /\ UNCHANGED <<phase, goal, pos>> /\ script' = script
    BY <1>1, <1>13 DEF Scan, world
  <2>2. \A m \in Monsters, u \in Actors : AtWork(u, m)' => AtWork(u, m)
    BY <2>1 DEF AtWork, Handlers
  <2> QED BY <2>1, <2>2 DEF SoloInv
<1>14. CASE Erase(t, a, rest)
  <2>1. a.op = "erase" /\ (Rest(t, rest) \/ Rest(t, Tail(rest))) /\ doubled' = doubled
    BY <1>14 DEF Erase
  <2>2. Tail(rest) \in Seq(Access)
    BY <1>3, <2>1
  <2> QED BY <1>3, <1>10, <2>1, <2>2
<1>15. CASE \/ Enqueue(t, a, rest) \/ Rouse(t, a, rest) \/ Clear(t, a, rest)
            \/ (Scan(t, a, rest) /\ script' # script)
            \/ Begin(t, a, rest) \/ Insert(t, a, rest) \/ Show(t, a, rest) \/ Hide(t, a, rest)
  <2>1. Rest(t, rest) /\ doubled' = doubled
    BY <1>15 DEF Enqueue, Rouse, Clear, Scan, Begin, Insert, Show, Hide
  <2> QED BY <1>3, <1>10, <2>1
<1> QED BY <1>1, <1>11, <1>12, <1>13, <1>14, <1>15

LEMMA MonstersSolo ==
  ASSUME Typed, SoloInv, NEW m \in Monsters, NEW t \in Handlers(m),
         Walking(t, m) \/ Watching(t, m) \/ Posting(t, m) \/ Respawning(t, m),
         script' \in [Actors -> Seq(Access)]
  PROVE  SoloInv'
<1> USE DEF world, lair, local, history, At, Goto, Rest
<1>0. /\ t \in Actors \ Players /\ m \in Objects \ Players
      /\ script \in [Actors -> Seq(Access)] /\ phase \in [Actors -> Phases \cup MonsterPhases]
      /\ goal \in [Actors -> Positions \cup {Nowhere}] /\ pos \in [Objects -> Positions]
      /\ todo[t] \subseteq Players
  BY HandlersLemma DEF Typed, ViewTypes, ShapeInv, WatchersInv
<1> DEFINE Plain(s) == \A i \in 1..Len(s) : Meant(t, s[i])
<1>1. CASE Update(t, m)
  <2>1. CASE m \in awake /\ life[m] # "dead"
    <3>1. /\ Free(t, m) /\ Engage(m) /\ script' = script /\ pos' = pos
          /\ \A u \in Actors : u # t => phase'[u] = phase[u] /\ goal'[u] = goal[u]
          /\ phase'[t] \in {"next", "step"}
      BY <1>0, <1>1, <2>1 DEF Update
    <3> QED BY <3>1, FreeSolo
  <2>2. CASE m \notin awake \/ life[m] = "dead"
    <3>1. UNCHANGED <<script, pos, phase, goal, doubled>>
      BY <1>1, <2>2 DEF Update
    <3>2. \A x \in Monsters, u \in Actors : AtWork(u, x)' => AtWork(u, x)
      BY <3>1 DEF AtWork, Handlers
    <3> QED BY <3>1, <3>2 DEF SoloInv
  <2> QED BY <2>1, <2>2
<1>2. CASE Rise(t, m)
  <2>1. /\ Free(t, m) /\ Engage(m) /\ script' = script /\ pos' = pos
        /\ \A u \in Actors : u # t => phase'[u] = phase[u] /\ goal'[u] = goal[u]
        /\ phase'[t] = "rise"
    BY <1>0, <1>2 DEF Rise
  <2> QED BY <2>1, FreeSolo
<1>3. CASE Walk(t, m)
  <2> DEFINE at == IF goal[t] = Nowhere THEN pos[m] ELSE goal[t]
  <2>1. /\ pos' = [pos EXCEPT ![m] = at] /\ phase[t] = "step"
        /\ \/ phase' = [phase EXCEPT ![t] = "leave"] /\ goal' = [goal EXCEPT ![t] = at]
           \/ phase' = [phase EXCEPT ![t] = "check"] /\ goal' = [goal EXCEPT ![t] = Nowhere]
        /\ UNCHANGED <<script, doubled>>
    BY <1>3 DEF Walk
  <2> HIDE DEF at
  <2>2. /\ \A u \in Actors : u # t => phase'[u] = phase[u] /\ goal'[u] = goal[u]
        /\ \A x \in Objects : x # m => pos'[x] = pos[x]
        /\ phase'[t] \in {"leave", "arrive"} => goal'[t] = pos'[m]
    BY <1>0, <2>1
  <2> QED BY <1>0, <2>1, <2>2, HandlerSolo
<1>4. CASE Leave(t, m)
  <2>1. /\ phase[t] = "leave" /\ phase' = [phase EXCEPT ![t] = "arrive"]
        /\ UNCHANGED <<script, doubled, goal, pos>>
    BY <1>4 DEF Leave
  <2> QED BY <1>0, <2>1, HandlerSolo
<1>5. CASE \/ Join(t, m) \/ Again(t, m) \/ Check(t, m) \/ Sleep(t, m) \/ Seen(t) \/ Posted(t, m)
           \/ Parted(t, m) \/ Heal(t, m) \/ Return(t, m) \/ Appeared(t, m)
  <2>1. /\ phase[t] # "idle"
        /\ \E ph \in MonsterPhases : phase' = [phase EXCEPT ![t] = ph] /\ ph \notin {"leave", "arrive"}
        /\ UNCHANGED <<script, doubled>>
        /\ goal' = goal \/ goal' = [goal EXCEPT ![t] = Nowhere]
        /\ pos' = pos \/ pos' = [pos EXCEPT ![m] = Dens[m]]
    <3>1. CASE Join(t, m) \/ Again(t, m)
      BY <3>1 DEF Join, Again, MonsterPhases
    <3>2. CASE Check(t, m) \/ Sleep(t, m) \/ Seen(t)
      BY <3>2 DEF Check, Sleep, Seen, MonsterPhases
    <3>3. CASE Posted(t, m) \/ Parted(t, m)
      BY <3>3 DEF Posted, Parted, MonsterPhases
    <3>4. CASE Heal(t, m) \/ Return(t, m) \/ Appeared(t, m)
      BY <3>4 DEF Heal, Return, Appeared, MonsterPhases
    <3> QED BY <1>5, <3>1, <3>2, <3>3, <3>4
  <2>2. /\ \A u \in Actors : u # t => phase'[u] = phase[u] /\ goal'[u] = goal[u]
        /\ phase'[t] \notin {"leave", "arrive"}
        /\ \A x \in Objects : x # m => pos'[x] = pos[x]
    BY <1>0, <2>1
  <2> QED BY <1>0, <2>1, <2>2, HandlerSolo
<1>6. CASE Visit(t, m) \/ Look(t, m)
  <2>1. phase[t] = "look" /\ UNCHANGED <<script, doubled, goal, pos, phase>>
    BY <1>6 DEF Visit, Look
  <2> QED BY <1>0, <2>1, HandlerSolo
<1>7. CASE Post(t, m) \/ Part(t, m) \/ Appear(t, m)
  <2>1. /\ phase[t] # "idle" /\ phase[t] \notin {"leave", "arrive"}
        /\ UNCHANGED <<doubled, goal, pos, phase>>
        /\ \E s \in Seq(Access) : script' = [script EXCEPT ![t] = s] /\ Plain(s)
    <3>1. CASE Post(t, m)
      <4>1. PICK q \in todo[t] : Rest(t, <<Op("seeNow", q, m)>>)
        BY <3>1 DEF Post
      <4>2. <<Op("seeNow", q, m)>> \in Seq(Access) /\ Plain(<<Op("seeNow", q, m)>>)
        <5>1. <<Op("seeNow", q, m)>> \in Seq(Access)
          BY <1>0, <4>1, PostChained DEF JobKinds
        <5> QED BY <5>1 DEF Op, Meant
      <4> HIDE DEF Plain
      <4> QED BY <3>1, <4>1, <4>2 DEF Post
    <3>2. CASE Part(t, m)
      <4>1. PICK q \in todo[t] : Rest(t, <<Op("lose", q, m)>>)
        BY <3>2 DEF Part
      <4>2. <<Op("lose", q, m)>> \in Seq(Access) /\ Plain(<<Op("lose", q, m)>>)
        <5>1. <<Op("lose", q, m)>> \in Seq(Access)
          BY <1>0, <4>1, PostChained DEF JobKinds
        <5> QED BY <5>1 DEF Op, Meant
      <4> HIDE DEF Plain
      <4> QED BY <3>2, <4>1, <4>2 DEF Part
    <3>3. CASE Appear(t, m)
      <4>1. PICK q \in todo[t] :
              Rest(t, IF st[q] = "ingame" /\ Near(pos[q], pos[m]) THEN AddObjectToView(q, m) ELSE <<>>)
        BY <3>3 DEF Appear
      <4>2. /\ AddObjectToView(q, m) \in Seq(Access) /\ Plain(AddObjectToView(q, m))
            /\ <<>> \in Seq(Access) /\ Plain(<<>>)
        <5>1. AddObjectToView(q, m) \in Seq(Access)
          BY <1>0, <4>1, AddChained
        <5>2. Plain(AddObjectToView(q, m))
          BY DEF AddObjectToView, Op, Meant
        <5> QED BY <5>1, <5>2
      <4> HIDE DEF Plain
      <4> QED BY <3>3, <4>1, <4>2 DEF Appear
    <3> QED BY <1>7, <3>1, <3>2, <3>3
  <2>2. /\ \A u \in Actors : u # t => script'[u] = script[u]
        /\ Plain(script'[t])
    BY <1>0, <2>1
  <2> QED BY <1>0, <2>1, <2>2, HandlerSolo
<1> QED BY <1>1, <1>2, <1>3, <1>4, <1>5, <1>6, <1>7 DEF Walking, Watching, Posting, Respawning

LEMMA StepSolo == TypeInv /\ [MonstersNext]_vars => TypeInv'
<1> SUFFICES ASSUME TypeInv, [MonstersNext]_vars PROVE SoloInv'
  BY StepTypes DEF TypeInv
<1>1. Typed /\ SoloInv /\ Typed'
  BY StepTypes DEF TypeInv
<1>2. script' \in [Actors -> Seq(Access)]
  BY <1>1 DEF Typed, ViewTypes
<1>3. ASSUME NEW p \in Players, ViewStep(p) PROVE SoloInv'
  <2>1. p \in Actors
    BY DEF Objects, Actors
  <2> QED BY <1>1, <1>3, <2>1, ExecuteSolo, PlayersSolo DEF ViewStep
<1>4. ASSUME NEW m \in Monsters, NEW t \in Handlers(m), MonsterStep(t, m) PROVE SoloInv'
  <2>1. t \in Actors
    BY HandlersLemma
  <2> QED BY <1>1, <1>2, <1>4, <2>1, ExecuteSolo, MonstersSolo DEF MonsterStep
<1>5. ASSUME UNCHANGED vars PROVE SoloInv'
  <2>1. UNCHANGED <<script, phase, goal, pos, doubled>>
    BY <1>5 DEF vars, world, lair, local
  <2>2. \A x \in Monsters, u \in Actors : AtWork(u, x)' => AtWork(u, x)
    BY <2>1 DEF AtWork, Handlers
  <2> QED BY <1>1, <2>1, <2>2 DEF SoloInv
<1> QED BY <1>3, <1>4, <1>5 DEF MonstersNext, ViewNext

\* The variables of the views keep their types, and a handler only ever acts on those
\* it is meant for: monsters post to players, kills are of monsters, packets follow
\* the change they tell of; and until two threads are at work on a monster at once,
\* what is done for it is done by one.
THEOREM TypeInvariant == MonstersSpec => []TypeInv
<1>1. ViewInit => TypeInv
  BY InitTypes, InitSolo DEF TypeInv
<1> QED BY <1>1, StepSolo, PTL DEF MonstersSpec
-----------------------------------------------------------------------------
(* A step belongs to one object, or is that of a twin.                     *)

Step(o) == \/ o \in Players /\ ViewStep(o)
           \/ o \in Monsters /\ MonsterStep(o, o)

\* What a twin leaves alone: everything but what is about its monster, which is one of
\* the doubled.
AsideOwn ==
  /\ doubled \subseteq doubled' /\ doubled' \subseteq Monsters
  /\ UNCHANGED <<cast, st, prey, dying>>
  /\ \A x \in Objects :
       /\ phase'[x] = phase[x] /\ script'[x] = script[x] /\ visit'[x] = visit[x]
       /\ todo'[x] = todo[x] /\ new'[x] = new[x]
  /\ \A x \in Objects \ doubled' :
       /\ pos'[x] = pos[x] /\ sect'[x] = sect[x] /\ old'[x] = old[x]
       /\ \A s \in Sections : x \in grid'[s] <=> x \in grid[s]
AsidePairs ==
  \A x, y \in Objects \ doubled' :
    /\ y \in steady'[x] <=> y \in steady[x]
    /\ <<x, y>> \in later' <=> <<x, y>> \in later
    /\ <<x, y>> \in missed' <=> <<x, y>> \in missed
AsideMonsters ==
  \A m \in Monsters \ doubled' :
    /\ m \in awake' <=> m \in awake
    /\ life'[m] = life[m] /\ view'[m] = view[m]
AsidePlayers ==
  \A p \in Players :
    /\ \A y \in Objects \ doubled' :
         /\ y \in view'[p] <=> y \in view[p]
         /\ shown'[p][y] = shown[p][y]
         /\ <<p, y>> \in crossed' <=> <<p, y>> \in crossed
         /\ <<p, y>> \in hollow' <=> <<p, y>> \in hollow
    /\ \/ jobs'[p] = jobs[p]
       \/ \E j \in Job : j.who \in doubled' /\ jobs'[p] = Append(jobs[p], j)
Aside == AsideOwn /\ AsidePairs /\ AsideMonsters /\ AsidePlayers

\* The monster of a twin that is at work is among the doubled.
LEMMA TwinDoubled ==
  ASSUME TypeInv, NEW m \in Monsters, NEW t \in Handlers(m), t # m, MonsterStep(t, m)
  PROVE  /\ doubled \subseteq doubled'
         /\ m \in doubled' \/ (Update(t, m) /\ UNCHANGED <<phase, goal, doubled, moves>>)
<1>1. t \in Twins /\ Of[t] = m /\ t \in Actors \ Players
  BY HandlersLemma DEF Handlers
<1>2. phase[t] # "idle" => m \in doubled
  BY <1>1 DEF TypeInv, SoloInv
<1>3. script[t] # <<>> => phase[t] # "idle"
  BY <1>1 DEF TypeInv, Typed, ShapeInv, PhaseInv
<1>4. ASSUME Free(t, m), Engage(m) PROVE m \in doubled' /\ doubled \subseteq doubled'
  BY <1>4, EngageSolo DEF TypeInv, Engage
<1>5. CASE Update(t, m) \/ Rise(t, m)
  BY <1>4, <1>5 DEF Update, Rise
<1>6. CASE Execute(t)
  <2>1. m \in doubled
    BY <1>2, <1>3, <1>6 DEF Execute
  <2>2. doubled \subseteq doubled'
    BY <1>6 DEF Execute, Enqueue, Meet, WakeUp, Engage, Rouse, Clear, Scan, Begin, Insert, Erase,
       Show, Hide
  <2> QED BY <2>1, <2>2
<1>7. CASE ~Update(t, m) /\ ~Rise(t, m) /\ ~Execute(t)
  <2> USE DEF At, lair
  <2>1. CASE Walk(t, m) \/ Leave(t, m) \/ Join(t, m) \/ Again(t, m)
    BY <1>2, <2>1 DEF Walk, Leave, Join, Again
  <2>2. CASE Watching(t, m)
    BY <1>2, <2>2 DEF Watching, Check, Visit, Look, Sleep, Seen
  <2>3. CASE Posting(t, m)
    BY <1>2, <2>3 DEF Posting, Post, Posted, Part, Parted
  <2>4. CASE Heal(t, m) \/ Return(t, m) \/ Appear(t, m) \/ Appeared(t, m)
    BY <1>2, <2>4 DEF Heal, Return, Appear, Appeared
  <2> QED BY <1>7, <2>1, <2>2, <2>3, <2>4 DEF MonsterStep, Walking, Respawning
<1> QED BY <1>5, <1>6, <1>7

LEMMA TwinAside ==
  ASSUME TypeInv, NEW m \in Monsters, NEW t \in Handlers(m), t # m, MonsterStep(t, m)
  PROVE  Aside
<1>0. /\ t \in Actors /\ t \notin Objects /\ t \notin Players /\ m \in Objects /\ m \notin Players
      /\ Objects \subseteq Actors /\ Monsters \subseteq Objects /\ Players \subseteq Objects
  BY HandlersLemma, ObjectAssumption DEF Actors, Objects
<1>1. /\ doubled \subseteq doubled'
      /\ m \in doubled' \/ (Update(t, m) /\ UNCHANGED <<phase, goal, doubled, moves>>)
  BY TwinDoubled
<1>2. /\ phase \in [Actors -> Phases \cup MonsterPhases]
      /\ script \in [Actors -> Seq(Access)]
      /\ visit \in [Actors -> SUBSET Sections]
      /\ todo \in [Actors -> SUBSET Objects]
      /\ new \in [Actors -> SUBSET Objects]
      /\ pos \in [Objects -> Positions]
      /\ sect \in [Objects -> Sections]
      /\ old \in [Objects -> SUBSET Objects]
      /\ steady \in [Objects -> SUBSET Objects]
      /\ grid \in [Sections -> SUBSET Objects]
      /\ view \in [Objects -> SUBSET Objects]
      /\ shown \in [Players -> [Objects -> Positions \cup {Nowhere}]]
      /\ life \in [Monsters -> {"alive", "down", "dead"}]
      /\ jobs \in [Players -> Seq(Job)]
      /\ crossed \subseteq Players \X Objects /\ hollow \subseteq Players \X Monsters
      /\ awake \subseteq Monsters
  BY DEF TypeInv, Typed, ViewTypes
<1>3. doubled' \subseteq Monsters
  <2>1. TypeInv'
    <3>1. MonstersNext
      BY DEF MonstersNext
    <3> QED BY <3>1, StepSolo
  <2> QED BY <2>1 DEF TypeInv, Typed, ViewTypes
<1> USE DEF world, lair, local, history, At, Goto
\* A step that leaves what players see and are asked to do alone.
<1>4. ASSUME UNCHANGED <<view, shown, jobs, crossed, hollow>> PROVE AsidePlayers
  BY <1>4 DEF AsidePlayers
<1>5. ASSUME UNCHANGED <<awake, life, view>> PROVE AsideMonsters
  BY <1>5 DEF AsideMonsters
<1>6. ASSUME UNCHANGED <<steady, later, missed>> PROVE AsidePairs
  BY <1>6 DEF AsidePairs
<1>7. ASSUME NEW beside, TakePlace(m, beside), m \in doubled' PROVE AsidePairs
  <2> SUFFICES ASSUME NEW x \in Objects \ doubled', NEW y \in Objects \ doubled'
               PROVE  /\ y \in steady'[x] <=> y \in steady[x]
                      /\ <<x, y>> \in later' <=> <<x, y>> \in later
                      /\ <<x, y>> \in missed' <=> <<x, y>> \in missed
    BY DEF AsidePairs
  <2>1. x # m /\ y # m
    BY <1>7
  <2> QED BY <1>7, <2>1 DEF TakePlace
<1>8. ASSUME m \in doubled', steady' = [steady EXCEPT ![m] = {q \in cast \ {m} : Registered(q)}] \/ steady' = [steady EXCEPT ![m] = {}],
             later' = later, missed' = missed \/ missed' = missed \cup {pq \in later : pq[1] = m}
      PROVE  AsidePairs
  <2> SUFFICES ASSUME NEW x \in Objects \ doubled', NEW y \in Objects \ doubled'
               PROVE  /\ y \in steady'[x] <=> y \in steady[x]
                      /\ <<x, y>> \in later' <=> <<x, y>> \in later
                      /\ <<x, y>> \in missed' <=> <<x, y>> \in missed
    BY DEF AsidePairs
  <2>1. x # m
    BY <1>8
  <2>2. steady'[x] = steady[x]
    BY <1>2, <1>8, <2>1
  <2>3. <<x, y>> \in missed' <=> <<x, y>> \in missed
    BY <1>8, <2>1
  <2> QED BY <1>8, <2>2, <2>3
\* What is the twin's.
<1>9. ASSUME UNCHANGED <<cast, st, prey, dying>>,
             m \in doubled',
             \A u \in Actors : u # t => /\ phase'[u] = phase[u] /\ script'[u] = script[u]
                                        /\ visit'[u] = visit[u] /\ todo'[u] = todo[u] /\ new'[u] = new[u],
             \A x \in Objects : x # m => /\ pos'[x] = pos[x] /\ sect'[x] = sect[x] /\ old'[x] = old[x]
                                         /\ \A s \in Sections : x \in grid'[s] <=> x \in grid[s]
      PROVE  AsideOwn
  BY <1>0, <1>1, <1>3, <1>9 DEF AsideOwn
<1>10. CASE Update(t, m)
  <2>1. /\ UNCHANGED <<world, view, shown, jobs, cast, awake, life, prey, dying, script, visit,
                       todo, old, new, history>>
        /\ \A u \in Actors : u # t => phase'[u] = phase[u]
    <3>1. phase' = phase \/ \E ph : phase' = [phase EXCEPT ![t] = ph]
      BY <1>10 DEF Update
    <3>2. UNCHANGED <<world, view, shown, jobs, cast, awake, life, prey, dying, script, visit,
                      todo, old, new, history>>
      BY <1>10 DEF Update
    <3> QED BY <1>2, <3>1, <3>2
  <2>2. AsideOwn
    BY <1>0, <1>1, <1>3, <2>1 DEF AsideOwn
  <2> QED BY <1>4, <1>5, <1>6, <2>1, <2>2 DEF Aside
<1>11. CASE m \in doubled' /\ (Walk(t, m) \/ Join(t, m) \/ Leave(t, m))
  <2>1. AsidePairs
    BY <1>6, <1>7, <1>11 DEF Walk, Join, Leave
  <2>2. /\ UNCHANGED <<view, shown, jobs, crossed, hollow, awake, life, cast, st, prey, dying, script, visit, todo, new, old>>
        /\ \A u \in Actors : u # t => phase'[u] = phase[u]
        /\ \A x \in Objects : x # m => pos'[x] = pos[x] /\ sect'[x] = sect[x]
    BY <1>0, <1>2, <1>11 DEF Walk, Join, Leave
  <2>3. \A x \in Objects : x # m => \A s \in Sections : x \in grid'[s] <=> x \in grid[s]
    <3>1. grid' = grid \/ \E u : grid' = [grid EXCEPT ![u] = @ \cup {m}] \/ grid' = [grid EXCEPT ![u] = @ \ {m}]
      BY <1>11 DEF Walk, Join, Leave
    <3> QED BY <1>2, <3>1
  <2>4. AsideOwn
    BY <1>9, <1>11, <2>2, <2>3
  <2> QED BY <1>4, <1>5, <2>1, <2>2, <2>4 DEF Aside
<1>12. CASE m \in doubled' /\ (Again(t, m) \/ Appeared(t, m) \/ Heal(t, m) \/ Rise(t, m))
  <2>1. /\ UNCHANGED <<world, view, shown, jobs, cast, awake, prey, dying, script, visit, todo, old, new, history>>
        /\ \A u \in Actors : u # t => phase'[u] = phase[u]
        /\ \A x \in Monsters : x # m => life'[x] = life[x]
    BY <1>0, <1>2, <1>12 DEF Again, Appeared, Heal, Rise
  <2>2. AsideOwn
    BY <1>9, <1>12, <2>1
  <2>3. AsideMonsters
    BY <1>12, <2>1 DEF AsideMonsters
  <2> QED BY <1>4, <1>6, <2>1, <2>2, <2>3 DEF Aside
<1>13. CASE m \in doubled' /\ (Check(t, m) \/ Visit(t, m) \/ Look(t, m) \/ Seen(t) \/ Posted(t, m))
  <2>1. /\ UNCHANGED <<world, view, shown, jobs, lair, dying, script, crossed, hollow>>
        /\ \A u \in Actors : u # t => /\ phase'[u] = phase[u] /\ visit'[u] = visit[u] /\ todo'[u] = todo[u]
                                      /\ new'[u] = new[u]
        /\ \A x \in Objects : x # m => old'[x] = old[x]
    BY <1>0, <1>2, <1>13 DEF Check, Visit, Look, Seen, Posted
  <2>2. AsideOwn
    BY <1>9, <1>13, <2>1
  <2>3. AsidePairs
    BY <1>6, <1>8, <1>13 DEF Check, Visit, Look, Seen, Posted
  <2> QED BY <1>4, <1>5, <2>1, <2>2, <2>3 DEF Aside
<1>14. CASE m \in doubled' /\ (Sleep(t, m) \/ Parted(t, m))
  <2>1. /\ UNCHANGED <<world, shown, jobs, cast, st, prey, dying, script, visit, todo, crossed, hollow, life>>
        /\ \A u \in Actors : u # t => phase'[u] = phase[u] /\ new'[u] = new[u]
        /\ \A x \in Objects : x # m => old'[x] = old[x] /\ view'[x] = view[x]
        /\ \A x \in Monsters : x # m => (x \in awake' <=> x \in awake)
    BY <1>0, <1>2, <1>14 DEF Sleep, Parted
  <2>2. AsideOwn
    BY <1>9, <1>14, <2>1
  <2>3. AsidePairs
    BY <1>8, <1>14 DEF Sleep, Parted
  <2>4. AsideMonsters /\ AsidePlayers
    BY <1>0, <1>14, <2>1 DEF AsideMonsters, AsidePlayers
  <2> QED BY <2>2, <2>3, <2>4 DEF Aside
<1>15. CASE m \in doubled' /\ (Post(t, m) \/ Part(t, m) \/ Appear(t, m))
  <2>1. /\ UNCHANGED <<world, view, shown, jobs, lair, phase, dying, visit, old, new, moves, history>>
        /\ \A u \in Actors : u # t => script'[u] = script[u] /\ todo'[u] = todo[u]
    BY <1>0, <1>2, <1>15 DEF Post, Part, Appear, Rest
  <2>2. AsideOwn
    BY <1>9, <1>15, <2>1
  <2> QED BY <1>4, <1>5, <1>6, <2>1, <2>2 DEF Aside
<1>16. CASE m \in doubled' /\ Return(t, m)
  <2>1. /\ UNCHANGED <<st, sect, grid, view, shown, jobs, lair, dying, script, visit, new, crossed, hollow>>
        /\ \A u \in Actors : u # t => phase'[u] = phase[u] /\ todo'[u] = todo[u]
        /\ \A x \in Objects : x # m => old'[x] = old[x] /\ pos'[x] = pos[x]
    BY <1>0, <1>2, <1>16 DEF Return
  <2>2. AsideOwn
    BY <1>9, <1>16, <2>1
  <2>3. AsidePairs
    BY <1>7, <1>16 DEF Return
  <2> QED BY <1>4, <1>5, <2>1, <2>2, <2>3 DEF Aside
<1>17. CASE m \in doubled' /\ Execute(t)
  <2> DEFINE a == Head(script[t])
             rest == Tail(script[t])
  <2>1. /\ script[t] # <<>> /\ script[t] \in Seq(Access)
        /\ \/ Enqueue(t, a, rest) \/ Meet(t, a, rest)
           \/ WakeUp(t, a, rest) \/ Rouse(t, a, rest) \/ Clear(t, a, rest)
           \/ Scan(t, a, rest) \/ Begin(t, a, rest)
           \/ Insert(t, a, rest) \/ Erase(t, a, rest) \/ Show(t, a, rest) \/ Hide(t, a, rest)
        /\ UNCHANGED <<world, cast, life, due, prey, goal, phase, dying, todo, old, new,
                       moves, later, missed, steady>>
    BY <1>0, <1>2, <1>17 DEF Execute
  <2>2. a.op \in {"seeNow", "lose", "insert", "show"} /\ a.obj = m /\ a.of \in Players
    <3>1. 1 \in 1..Len(script[t]) /\ a = script[t][1]
      BY <2>1
    <3>2. Meant(t, a)
      BY <1>0, <3>1 DEF TypeInv, SoloInv
    <3>3. Sound(a)
      BY <1>0, <2>1, TailChained DEF TypeInv, Typed, ShapeInv, ScriptInv
    <3>4. Of[t] = a.obj /\ Of[t] = m
      BY <1>0, <3>2, HandlersLemma DEF Meant, Handlers
    <3> QED BY <3>2, <3>3, <3>4 DEF Meant, Sound, Waking
  <2> HIDE DEF a, rest
  <2>3. Enqueue(t, a, rest) \/ Insert(t, a, rest) \/ Show(t, a, rest)
    BY <2>1, <2>2 DEF Meet, WakeUp, Rouse, Clear, Scan, Begin, Erase, Hide
  <2>4. /\ UNCHANGED <<awake, visit>>
        /\ script' = [script EXCEPT ![t] = rest]
    BY <2>3 DEF Enqueue, Insert, Show, Rest
  <2>5. AsideOwn
    BY <1>2, <1>9, <1>17, <2>1, <2>4
  <2>6. CASE Enqueue(t, a, rest)
    <3>1. /\ UNCHANGED <<view, shown, crossed, hollow>>
          /\ jobs' = [jobs EXCEPT ![a.of] = Append(@, [do |-> a.op, who |-> a.obj, at |-> pos[a.obj]])]
          /\ a.op \in JobKinds
      BY <2>6 DEF Enqueue
    <3>2. [do |-> a.op, who |-> a.obj, at |-> pos[a.obj]] \in Job
      BY <1>0, <1>2, <2>2, <3>1 DEF Job
    <3> DEFINE j == [do |-> a.op, who |-> a.obj, at |-> pos[a.obj]]
    <3>3. j \in Job /\ j.who \in doubled' /\ jobs' = [jobs EXCEPT ![a.of] = Append(@, j)]
      BY <1>17, <2>2, <3>1, <3>2
    <3> HIDE DEF j
    <3>4. \A p \in Players : \/ jobs'[p] = jobs[p]
                             \/ \E k \in Job : k.who \in doubled' /\ jobs'[p] = Append(jobs[p], k)
      BY <1>2, <3>3
    <3>5. AsidePlayers
      BY <3>1, <3>4 DEF AsidePlayers
    <3> QED BY <1>5, <1>6, <2>1, <2>4, <2>5, <3>1, <3>5 DEF Aside
  <2>7. CASE Insert(t, a, rest)
    <3>1. /\ UNCHANGED <<shown, jobs, hollow>> /\ view' = [view EXCEPT ![a.of] = @ \cup {m}]
          /\ crossed' = crossed \/ crossed' = crossed \cup {<<a.of, m>>}
      BY <2>2, <2>7 DEF Insert, Cross
    <3>2. AsidePlayers
      BY <1>0, <1>2, <1>17, <3>1 DEF AsidePlayers
    <3>3. AsideMonsters
      BY <1>0, <1>2, <2>1, <2>2, <2>4, <3>1, ObjectAssumption DEF AsideMonsters
    <3> QED BY <1>6, <2>1, <2>5, <3>2, <3>3 DEF Aside
  <2>8. CASE Show(t, a, rest)
    <3>1. /\ UNCHANGED <<view, jobs, crossed>>
          /\ shown' = shown \/ \E v : shown' = [shown EXCEPT ![a.of][m] = v]
          /\ hollow' = hollow \ {<<a.of, m>>} \/ hollow' = hollow \cup {<<a.of, m>>}
      BY <2>2, <2>8 DEF Show
    <3>2. \A p \in Players, y \in Objects \ doubled' : shown'[p][y] = shown[p][y]
      <4>1. ASSUME NEW v, shown' = [shown EXCEPT ![a.of][m] = v], NEW p \in Players, NEW y \in Objects \ doubled'
            PROVE  shown'[p][y] = shown[p][y]
        BY <1>2, <1>17, <4>1
      <4> QED BY <3>1, <4>1
    <3>3. AsidePlayers
      BY <1>17, <3>1, <3>2 DEF AsidePlayers
    <3> QED BY <1>5, <1>6, <2>1, <2>4, <2>5, <3>1, <3>3 DEF Aside
  <2> QED BY <2>3, <2>6, <2>7, <2>8
<1> HIDE DEF world, lair, local, history, At, Goto
<1> QED BY <1>1, <1>10, <1>11, <1>12, <1>13, <1>14, <1>15, <1>16, <1>17
       DEF MonsterStep, Walking, Watching, Posting, Respawning

LEMMA StutterAside == TypeInv /\ UNCHANGED vars => Aside
BY DEF TypeInv, Typed, ViewTypes, vars, world, lair, local, history, Aside, AsideOwn, AsidePairs,
   AsideMonsters, AsidePlayers

\* A step of the system is a step of an object, or nothing but the monster of a twin is
\* concerned.
LEMMA SomeStep == TypeInv /\ [MonstersNext]_vars => (\E a \in Objects : Step(a)) \/ Aside
<1> SUFFICES ASSUME TypeInv, [MonstersNext]_vars PROVE (\E a \in Objects : Step(a)) \/ Aside
  OBVIOUS
<1>1. ASSUME NEW m \in Monsters, NEW t \in Handlers(m), MonsterStep(t, m)
      PROVE  (\E a \in Objects : Step(a)) \/ Aside
  <2>1. CASE t = m
    BY <1>1, <2>1 DEF Step, Objects
  <2>2. CASE t # m
    BY <1>1, <2>2, TwinAside
  <2> QED BY <2>1, <2>2
<1> QED BY <1>1, StutterAside DEF MonstersNext, ViewNext, Step, Objects

\* What a step of a leaves alone: the place, the handler and the listing of all others.
Spares(a) ==
  /\ doubled \subseteq doubled'
  /\ \A x \in Objects \ {a} :
    /\ pos'[x] = pos[x] /\ sect'[x] = sect[x]
    /\ phase'[x] = phase[x] /\ script'[x] = script[x]
    /\ visit'[x] = visit[x] /\ todo'[x] = todo[x] /\ new'[x] = new[x]
    /\ x \in Players => st'[x] = st[x]
    /\ \A s \in Sections : x \in grid'[s] <=> x \in grid[s]
    /\ steady'[x] \subseteq steady[x]

\* A step to a place, and the entry in a section; a monster's section may be that of
\* another step if two threads have been at work on it.
Stands(a, at) ==
  /\ phase[a] = IF a \in Players THEN "idle" ELSE "step"
  /\ pos' = [pos EXCEPT ![a] = at]
  /\ Goto(a, IF SectionOf(at) = sect[a] THEN "check" ELSE "leave")
  /\ TakePlace(a, Settling)
  /\ UNCHANGED <<st, sect, grid, view, shown, jobs, cast, awake, life, due, prey, doubled,
                 script, visit, todo, old, new, crossed, hollow>>
Arrives(a) ==
  \E at \in Positions :
    /\ a \notin doubled => at = pos[a]
    /\ phase[a] = "arrive"
    /\ grid' = [grid EXCEPT ![SectionOf(at)] = @ \cup {a}]
    /\ sect' = [sect EXCEPT ![a] = SectionOf(at)]
    /\ Goto(a, "check")
    /\ TakePlace(a, Settling)
    /\ UNCHANGED <<pos, st, view, shown, jobs, cast, awake, life, due, prey, doubled,
                   script, visit, todo, old, new, crossed, hollow>>

LEMMA StandStep ==
  ASSUME TypeInv, NEW a \in Objects
  PROVE  /\ \A at : a \in Players /\ Ready(a) /\ Stand(a, at) => Stands(a, at)
         /\ a \in Monsters /\ Walk(a, a) => \E at \in Positions : Stands(a, at)
         /\ a \in Players /\ Arrive(a) => Arrives(a)
         /\ a \in Monsters /\ Join(a, a) => Arrives(a)
<1> USE DEF At, lair
<1>0. /\ Objects \subseteq Actors /\ (a \in Players => a \notin Monsters)
      /\ goal \in [Actors -> Positions \cup {Nowhere}] /\ pos \in [Objects -> Positions]
  BY ObjectAssumption DEF Actors, TypeInv, Typed, ViewTypes
<1>1. ASSUME NEW at, a \in Players, Ready(a), Stand(a, at) PROVE Stands(a, at)
  BY <1>1 DEF Ready, Stand, Stands
<1>2. ASSUME a \in Monsters, Walk(a, a) PROVE \E at \in Positions : Stands(a, at)
  <2> DEFINE at == IF goal[a] = Nowhere THEN pos[a] ELSE goal[a]
  <2>1. at \in Positions
    BY <1>0
  <2>2. /\ phase[a] = "step" /\ pos' = [pos EXCEPT ![a] = at] /\ TakePlace(a, Settling)
        /\ Goto(a, IF SectionOf(at) = sect[a] THEN "check" ELSE "leave")
        /\ UNCHANGED <<st, sect, grid, view, shown, jobs, cast, awake, life, due, prey, doubled,
                       script, visit, todo, old, new, crossed, hollow>>
    BY <1>2 DEF Walk
  <2> HIDE DEF at
  <2> QED BY <1>0, <1>2, <2>1, <2>2 DEF Stands
<1>3. ASSUME a \in Players, Arrive(a) PROVE Arrives(a)
  <2>1. pos[a] \in Positions
    BY <1>0
  <2> QED BY <1>3, <2>1 DEF Arrive, Arrives
<1>4. ASSUME a \in Monsters, Join(a, a) PROVE Arrives(a)
  <2>1. /\ goal[a] \in Positions
        /\ a \notin doubled => goal[a] = pos[a]
    BY <1>0, <1>4 DEF Join, TypeInv, Typed, ShapeInv, PhaseInv, SoloInv
  <2> QED BY <1>4, <2>1 DEF Join, Arrives
<1> QED BY <1>1, <1>2, <1>3, <1>4


LEMMA SparesOthers == ASSUME TypeInv, NEW a \in Objects, Step(a) PROVE Spares(a) /\ cast' = cast
<1> USE DEF TypeInv, Typed, ViewTypes, world, lair, local, history, At, Goto, Spares
<1>0. Objects \subseteq Actors
  BY DEF Actors
<1>1. CASE Execute(a)
  <2>1. /\ UNCHANGED <<pos, sect, grid, steady, cast>>
        /\ UNCHANGED <<phase, todo, new, st>>
    BY <1>1 DEF Execute
  <2>3. doubled \subseteq doubled' /\ \A x \in Objects \ {a} : visit'[x] = visit[x]
    BY <1>0, <1>1 DEF Execute, Enqueue, Meet, WakeUp, Engage, Rouse, Clear, Scan, Begin, Insert,
       Erase, Show, Hide
  <2>2. \A x \in Objects \ {a} : script'[x] = script[x]
    <3>1. \A s : Rest(a, s) => \A x \in Objects \ {a} : script'[x] = script[x]
      BY DEF Rest
    <3>2. script' = script \/ \E s : Rest(a, s)
      BY <1>1 DEF Execute, Enqueue, Meet, WakeUp, Rouse, Clear, Scan, Begin, Insert, Erase, Show, Hide
    <3> QED BY <3>1, <3>2
  <2> QED BY <1>0, <1>0, <2>1, <2>2, <2>3
<1>2. ASSUME NEW p \in Players, p = a, Entering(p) PROVE Spares(a) /\ cast' = cast
  <2>1. CASE Login(p)
    BY <1>0, <1>2, <2>1 DEF Login, TakePlace
  <2>2. CASE Enter(p)
    BY <1>0, <1>2, <2>2 DEF Enter
  <2>3. CASE Greet(p)
    BY <1>0, <1>2, <2>3 DEF Greet, Rest
  <2>4. CASE Greeted(p)
    BY <1>0, <1>2, <2>4 DEF Greeted
  <2>5. CASE Register(p)
    BY <1>0, <1>2, <2>5 DEF Register
  <2> QED BY <1>0, <1>2, <2>1, <2>2, <2>3, <2>4, <2>5 DEF Entering
<1>3. ASSUME NEW at, Stands(a, at) PROVE Spares(a) /\ cast' = cast
  BY <1>0, <1>3 DEF Stands, TakePlace
<1>4. CASE Leave(a, a)
  BY <1>0, <1>4 DEF Leave
<1>5. CASE Arrives(a)
  <2>1. PICK at \in Positions :
          /\ grid' = [grid EXCEPT ![SectionOf(at)] = @ \cup {a}]
          /\ sect' = [sect EXCEPT ![a] = SectionOf(at)]
    BY <1>5 DEF Arrives
  <2> QED BY <1>0, <1>5, <2>1 DEF Arrives, TakePlace
<1>6. ASSUME NEW p \in Players, p = a, Stirring(p) PROVE Spares(a) /\ cast' = cast
  <2>1. CASE Move(p)
    BY <1>3, <1>6, <2>1, StandStep DEF Move
  <2>2. CASE Die(p)
    BY <1>3, <1>6, <2>2, StandStep DEF Die
  <2> QED BY <1>4, <1>5, <1>6, <2>1, <2>2, StandStep DEF Stirring, Leave, Arrive
<1>7. CASE Check(a, a)
  BY <1>0, <1>7 DEF Check
<1>8. CASE Visit(a, a)
  BY <1>0, <1>8 DEF Visit
<1>9. CASE Look(a, a)
  BY <1>0, <1>9 DEF Look
<1>10. CASE Looked(a)
  BY <1>0, <1>10 DEF Looked
<1>11. CASE Telling(a)
  <2>1. CASE Tell(a)
    BY <1>0, <2>1 DEF Tell, Rest
  <2>2. CASE Told(a)
    BY <1>0, <2>2 DEF Told
  <2>3. CASE Drop(a)
    BY <1>0, <2>3 DEF Drop, Rest
  <2>4. CASE Dropped(a)
    BY <1>0, <2>4 DEF Dropped
  <2> QED BY <1>0, <1>11, <2>1, <2>2, <2>3, <2>4 DEF Telling
<1>12. ASSUME NEW p \in Players, p = a, RunJob(p) PROVE Spares(a) /\ cast' = cast
  <2>1. UNCHANGED <<pos, st, sect, grid, cast, phase, visit, todo, new, steady>>
    BY <1>12 DEF RunJob
  <2>2. script' = script \/ \E s : script' = [script EXCEPT ![a] = s]
    BY <1>12 DEF RunJob, Rest
  <2>3. \A x \in Objects \ {a} : script'[x] = script[x]
    BY <1>0, <2>2
  <2>4. doubled' = doubled
    BY <1>12 DEF RunJob
  <2> QED BY <2>1, <2>3, <2>4
<1>13. ASSUME NEW p \in Players, p = a, Killing(p) PROVE Spares(a) /\ cast' = cast
  BY <1>0, <1>13 DEF Killing, Hit, Kill, Mourn, Mourned, Bury, Buried, Rest
<1>14. ASSUME NEW p \in Players, p = a, Leaving(p) PROVE Spares(a) /\ cast' = cast
  BY <1>0, <1>14 DEF Leaving, Logout, Bye, Gone, Rest
<1>15. ASSUME a \in Monsters, Walk(a, a) \/ Join(a, a) PROVE Spares(a) /\ cast' = cast
  <2>1. CASE Walk(a, a)
    BY <1>3, <1>15, <2>1, StandStep
  <2>2. CASE Join(a, a)
    BY <1>5, <1>15, <2>2, StandStep DEF Join
  <2> QED BY <1>0, <1>15, <2>1, <2>2
<1>22. CASE Update(a, a) \/ Again(a, a)
  <2>1. /\ doubled \subseteq doubled'
        /\ UNCHANGED <<pos, st, sect, grid, script, visit, todo, new, steady, cast>>
    BY <1>22 DEF Update, Again, Engage
  <2>2. phase' = phase \/ \E ph : phase' = [phase EXCEPT ![a] = ph]
    BY <1>22 DEF Update, Again
  <2> QED BY <1>0, <2>1, <2>2
<1>16. CASE Sleep(a, a)
  BY <1>0, <1>16 DEF Sleep
<1>17. CASE Seen(a)
  BY <1>0, <1>17 DEF Seen
<1>18. CASE Posting(a, a)
  BY <1>0, <1>18 DEF Posting, Post, Posted, Part, Parted, Rest
<1>19. ASSUME NEW m \in Monsters, m = a, Respawning(m, m) PROVE Spares(a) /\ cast' = cast
  <2>1. CASE Rise(m, m)
    BY <1>0, <1>19, <2>1 DEF Rise, Engage
  <2>2. CASE Heal(m, m)
    BY <1>0, <1>19, <2>2 DEF Heal
  <2>3. CASE Return(m, m)
    BY <1>0, <1>19, <2>3 DEF Return, TakePlace
  <2>4. CASE Appear(m, m)
    BY <1>0, <1>19, <2>4 DEF Appear, Rest
  <2>5. CASE Appeared(m, m)
    BY <1>0, <1>19, <2>5 DEF Appeared
  <2> QED BY <1>0, <1>19, <2>1, <2>2, <2>3, <2>4, <2>5 DEF Respawning
<1> HIDE DEF TypeInv, Typed, ViewTypes, world, lair, local, history, At, Goto, Spares
<1>20. CASE a \in Players /\ ViewStep(a)
  BY <1>1, <1>2, <1>6, <1>7, <1>8, <1>9, <1>10, <1>11, <1>12, <1>13, <1>14, <1>20
     DEF ViewStep, Checking
<1>21. CASE a \in Monsters /\ MonsterStep(a, a)
  BY <1>1, <1>4, <1>7, <1>8, <1>9, <1>15, <1>16, <1>17, <1>18, <1>19, <1>21, <1>22
     DEF MonsterStep, Walking, Watching
<1> QED BY <1>20, <1>21 DEF Step

\* A step of a that leaves him where he stands and is listed, and what such a step
\* does to his looking around.
Moving == {"enter", "greet", "register", "leave", "arrive"}
Sighted == {"tell", "drop", "post", "part"}
Stays(a) ==
  /\ UNCHANGED <<pos, sect, grid>>
  /\ a \in Players => (st'[a] = "out" <=> st[a] = "out")
  /\ phase'[a] = phase[a] \/ {phase[a], phase'[a]} \cap Moving = {}
  /\ phase'[a] = "check" => phase[a] = "check" /\ steady' = steady
  /\ phase'[a] = "look" =>
       \/ Check(a, a) \/ Visit(a, a) \/ Look(a, a)
       \/ /\ phase[a] = "look" /\ steady' = steady
          /\ new'[a] = new[a] /\ todo'[a] = todo[a]
          /\ script[a] = <<>> => script'[a] = <<>> /\ visit'[a] = visit[a]
  /\ phase'[a] \in Sighted =>
       \/ Looked(a) \/ Seen(a)
       \/ (phase[a] \in Sighted /\ new'[a] = new[a] /\ steady' = steady)
  /\ steady'[a] \subseteq steady[a] \/ Check(a, a)

LEMMA OwnStep ==
  ASSUME TypeInv, NEW a \in Objects, Step(a)
  PROVE  \/ a \in Players /\ Entering(a)
         \/ Leave(a, a) \/ Arrives(a) \/ Return(a, a)
         \/ /\ a \in Players => st[a] # "out"
            /\ \E at \in Positions : Stands(a, at)
         \/ Stays(a)
<1> USE DEF TypeInv, Typed, ViewTypes, world, lair, local, history, At, Goto, Stays, Moving, Sighted
<1>0. Objects \subseteq Actors
  BY DEF Actors
<1>1. CASE Execute(a)
  <2>1. script[a] # <<>> /\ UNCHANGED <<pos, st, sect, grid, steady, phase, todo, new>>
    BY <1>1 DEF Execute
  <2> QED BY <1>0, <2>1
<1>2. ASSUME NEW p \in Players, p = a, Move(p) \/ Die(p)
      PROVE  /\ st[a] # "out"
             /\ \E at \in Positions : Stands(a, at)
  BY <1>2, StepLemma, StandStep, PlaceAssumption DEF Move, Die, Ready
<1>3. CASE Check(a, a)
  BY <1>0, <1>3 DEF Check
<1>4. CASE Visit(a, a)
  BY <1>0, <1>4 DEF Visit
<1>5. CASE Look(a, a)
  BY <1>0, <1>5 DEF Look
<1>6. CASE Looked(a)
  BY <1>0, <1>6 DEF Looked
<1>7. CASE Tell(a)
  BY <1>0, <1>7 DEF Tell
<1>8. CASE Told(a)
  BY <1>0, <1>8 DEF Told
<1>9. CASE Drop(a)
  BY <1>0, <1>9 DEF Drop
<1>10. CASE Dropped(a)
  BY <1>0, <1>10 DEF Dropped
<1>11. ASSUME NEW p \in Players, p = a, RunJob(p) PROVE Stays(a)
  BY <1>0, <1>11 DEF RunJob, Ready
<1>12. ASSUME NEW p \in Players, p = a, Killing(p) PROVE Stays(a)
  <2>1. CASE Hit(p)
    BY <1>0, <1>12, <2>1 DEF Hit, Ready
  <2>2. CASE Kill(p)
    BY <1>0, <1>12, <2>2 DEF Kill
  <2>3. CASE Mourn(p)
    BY <1>0, <1>12, <2>3 DEF Mourn
  <2>4. CASE Mourned(p)
    BY <1>0, <1>12, <2>4 DEF Mourned
  <2>5. CASE Bury(p)
    BY <1>0, <1>12, <2>5 DEF Bury
  <2>6. CASE Buried(p)
    BY <1>0, <1>12, <2>6 DEF Buried
  <2> QED BY <1>0, <1>12, <2>1, <2>2, <2>3, <2>4, <2>5, <2>6 DEF Killing
<1>13. ASSUME NEW p \in Players, p = a, Leaving(p) PROVE Stays(a)
  <2>1. CASE Logout(p)
    BY <1>0, <1>13, <2>1 DEF Logout
  <2>2. CASE Bye(p)
    BY <1>0, <1>13, <2>2 DEF Bye
  <2>3. CASE Gone(p)
    <3>1. st[p] # "out"
      BY <2>3 DEF Gone, ShapeInv, EntryInv
    <3> QED BY <1>0, <1>13, <2>3, <3>1 DEF Gone
  <2> QED BY <1>0, <1>13, <2>1, <2>2, <2>3 DEF Leaving
<1>14. CASE Update(a, a) \/ Again(a, a)
  <2>1. UNCHANGED <<pos, st, sect, grid, steady, script, visit, todo, new>>
    BY <1>0, <1>14 DEF Update, Again
  <2>2. phase' = phase \/ \E ph \in {"idle", "step", "next"} : phase' = [phase EXCEPT ![a] = ph]
    BY <1>0, <1>14 DEF Update, Again
  <2>3. phase'[a] # phase[a] => phase[a] \in {"idle", "next"}
    BY <1>0, <1>14 DEF Update, Again, Free
  <2>4. phase'[a] = phase[a] \/ phase'[a] \in {"idle", "step", "next"}
    BY <1>0, <2>2
  <2> QED BY <2>1, <2>3, <2>4
<1>15. CASE Sleep(a, a)
  BY <1>0, <1>15 DEF Sleep
<1>16. CASE Seen(a)
  BY <1>0, <1>16 DEF Seen
<1>17. CASE Post(a, a)
  BY <1>0, <1>17 DEF Post
<1>18. CASE Posted(a, a)
  BY <1>0, <1>18 DEF Posted
<1>19. CASE Part(a, a)
  BY <1>0, <1>19 DEF Part
<1>20. CASE Parted(a, a)
  BY <1>0, <1>20 DEF Parted
<1>21. CASE Rise(a, a)
  BY <1>0, <1>21 DEF Rise, Free
<1>22. CASE Heal(a, a)
  BY <1>0, <1>22 DEF Heal
<1>23. CASE Appear(a, a)
  BY <1>0, <1>23 DEF Appear
<1>24. CASE Appeared(a, a)
  BY <1>0, <1>24 DEF Appeared
<1> HIDE DEF TypeInv, Typed, ViewTypes, world, lair, local, history, At, Goto, Stays, Moving, Sighted
<1>25. CASE a \in Players /\ ViewStep(a)
  BY <1>1, <1>2, <1>3, <1>4, <1>5, <1>6, <1>7, <1>8, <1>9, <1>10, <1>11, <1>12, <1>13, <1>25, StandStep
     DEF ViewStep, Stirring, Checking, Telling
<1>26. CASE a \in Monsters /\ MonsterStep(a, a)
  BY <1>1, <1>3, <1>4, <1>5, <1>14, <1>15, <1>16, <1>17, <1>18, <1>19, <1>20, <1>21, <1>22, <1>23,
     <1>24, <1>26, StandStep, ObjectAssumption
     DEF MonsterStep, Walking, Watching, Posting, Respawning
<1> QED BY <1>25, <1>26 DEF Step
-----------------------------------------------------------------------------
(* The grid lists everybody where he is registered.                        *)

Unlisted(o) == \/ phase[o] \in {"arrive", "enter", "greet", "register"}
               \/ o \in Players /\ st[o] = "out"
Tracked(o) == \A s \in Sections : o \in grid[s] <=> (~Unlisted(o) /\ s = sect[o])
TrackInv == \A o \in cast \ doubled : Tracked(o)

\* A player enters but once, and is registered where he stands, except on his way.
HomeInv ==
  \A p \in Players :
    /\ phase[p] = "enter" => st[p] = "out"
    /\ phase[p] \notin {"enter", "greet", "leave", "arrive"} /\ st[p] # "out"
         => SectionOf(pos[p]) = sect[p]

LEMMA HomeStep ==
  ASSUME TypeInv, HomeInv, NEW a \in Objects, Step(a)
  PROVE  HomeInv'
<1> SUFFICES ASSUME NEW p \in Players
             PROVE  /\ phase'[p] = "enter" => st'[p] = "out"
                    /\ phase'[p] \notin {"enter", "greet", "leave", "arrive"} /\ st'[p] # "out"
                         => SectionOf(pos'[p]) = sect'[p]
  BY DEF HomeInv, SectionOf, SectionSize
<1>0. /\ phase \in [Actors -> Phases \cup MonsterPhases] /\ phase[p] \in Phases
      /\ sect \in [Objects -> Sections] /\ pos \in [Objects -> Positions]
      /\ p \in Objects /\ p \in Actors
  BY DEF TypeInv, Typed, ViewTypes, ShapeInv, PhaseInv, Objects, Actors
<1>1. CASE a # p
  BY <1>0, <1>1, SparesOthers DEF Spares, HomeInv
<1>2. CASE a = p
  <2> USE DEF Goto, At
  <2>1. CASE Entering(p)
    <3>1. CASE Login(p) \/ Enter(p) \/ Greet(p)
      BY <1>0, <3>1 DEF Login, Enter, Greet, local
    <3>2. CASE Greeted(p)
      BY <1>0, <3>2 DEF Greeted
    <3>3. CASE Register(p)
      BY <1>0, <3>3 DEF Register, HomeInv
    <3> QED BY <2>1, <3>1, <3>2, <3>3 DEF Entering
  <2>2. CASE Leave(p, p) \/ Return(p, p)
    BY <1>0, <2>2 DEF Leave, Return, Phases
  <2>3. CASE Arrives(p)
    <3>1. p \notin doubled
      BY ObjectAssumption DEF TypeInv, Typed, ViewTypes
    <3> QED BY <1>0, <2>3, <3>1 DEF Arrives
  <2>4. CASE \E at \in Positions : Stands(p, at)
    BY <1>0, <2>4 DEF Stands
  <2>5. CASE Stays(p)
    <3>1. /\ phase'[p] = "enter" => phase[p] = "enter"
          /\ st'[p] = "out" <=> st[p] = "out"
          /\ phase'[p] \notin {"enter", "greet", "leave", "arrive"}
               => phase[p] \notin {"enter", "greet", "leave", "arrive"}
      BY <2>5 DEF Stays, Moving
    <3> QED BY <2>5, <3>1 DEF Stays, HomeInv
  <2> QED BY <1>0, <1>2, <2>1, <2>2, <2>3, <2>4, <2>5, OwnStep
<1> QED BY <1>1, <1>2


LEMMA HomeAside == HomeInv /\ Aside => HomeInv'
<1> SUFFICES ASSUME HomeInv, Aside, NEW p \in Players
             PROVE  /\ phase'[p] = "enter" => st'[p] = "out"
                    /\ phase'[p] \notin {"enter", "greet", "leave", "arrive"} /\ st'[p] # "out"
                         => SectionOf(pos'[p]) = sect'[p]
  BY DEF HomeInv, SectionOf, SectionSize
<1>1. p \in Objects \ doubled'
  BY ObjectAssumption DEF Aside, AsideOwn, Objects
<1> QED BY <1>1 DEF HomeInv, Aside, AsideOwn

LEMMA HomeInit == ViewInit => HomeInv
<1> SUFFICES ASSUME ViewInit, NEW p \in Players
             PROVE  phase[p] = "idle" /\ SectionOf(pos[p]) = sect[p]
  BY DEF HomeInv
<1>1. p \in Objects /\ p \in Actors
  BY DEF Objects, Actors
<1> QED BY <1>1 DEF ViewInit

LEMMA TracksLemma == TypeInv /\ HomeInv /\ TrackInv => GridTracks
<1> SUFFICES ASSUME TypeInv, HomeInv, TrackInv, NEW o \in cast \ doubled
             PROVE  {s \in Sections : o \in grid[s]} =
                      IF Unlisted(o) THEN {}
                      ELSE {IF o \in Players /\ phase[o] # "leave" THEN SectionOf(pos[o]) ELSE sect[o]}
  BY DEF GridTracks, Unlisted
<1>1. sect[o] \in Sections
  BY CastLemma DEF TypeInv, Typed, ViewTypes
<1>2. {s \in Sections : o \in grid[s]} = IF Unlisted(o) THEN {} ELSE {sect[o]}
  BY <1>1 DEF TrackInv, Tracked
<1>3. o \in Players /\ phase[o] # "leave" /\ ~Unlisted(o) => SectionOf(pos[o]) = sect[o]
  BY DEF HomeInv, Unlisted
<1> QED BY <1>2, <1>3

LEMMA TrackInit == ViewInit => TrackInv
<1> SUFFICES ASSUME ViewInit, NEW o \in cast PROVE Tracked(o)
  BY DEF TrackInv
<1>1. o \in Objects
  BY CastLemma DEF ViewInit
<1>2. Unlisted(o) <=> o \notin Placed
  BY <1>1, ObjectAssumption, SeatAssumption DEF ViewInit, Unlisted, Placed, Objects, Actors
<1>3. \A s \in Sections : o \in grid[s] <=> (o \in Placed /\ SectionOf(Start(o)) = s)
  BY <1>1 DEF ViewInit
<1>4. sect[o] = SectionOf(Start(o))
  BY <1>1 DEF ViewInit
<1> QED BY <1>2, <1>3, <1>4 DEF Tracked

\* What a step of a does to the listing of a.
LEMMA TrackOwn ==
  ASSUME TypeInv, NEW a \in cast, a \in Objects, Step(a), Tracked(a), a \notin doubled'
  PROVE  Tracked(a)'
<1> USE DEF Tracked, Unlisted, At, Goto
<1>1. /\ phase \in [Actors -> Phases \cup MonsterPhases]
      /\ grid \in [Sections -> SUBSET Objects]
      /\ sect \in [Objects -> Sections]
      /\ pos \in [Objects -> Positions]
      /\ st \in [Players -> {"out", "ingame", "gone"}]
      /\ Objects \subseteq Actors
      /\ a \notin doubled
  BY SparesOthers DEF Spares, Actors, TypeInv, Typed, ViewTypes
<1>2. ASSUME a \in Players, Entering(a) PROVE Tracked(a)'
  <2>1. phase[a] \in {"greet", "register"} => st[a] # "out"
    BY <1>2 DEF TypeInv, Typed, ShapeInv, EntryInv
  <2>2. CASE Login(a)
    BY <1>1, <1>2, <2>2 DEF Login
  <2>3. CASE Enter(a)
    BY <1>1, <1>2, <2>3 DEF Enter
  <2>4. CASE Greet(a)
    BY <1>1, <1>2, <2>4 DEF Greet, world
  <2>5. CASE Greeted(a)
    BY <1>1, <1>2, <2>5 DEF Greeted
  <2>6. CASE Register(a)
    BY <1>1, <1>2, <2>1, <2>6 DEF Register
  <2> QED BY <1>2, <2>2, <2>3, <2>4, <2>5, <2>6 DEF Entering
<1>3. CASE Leave(a, a)
  BY <1>1, <1>3 DEF Leave
<1>4. CASE Arrives(a)
  <2>1. SectionOf(pos[a]) \in Sections
    BY <1>1, SectionLemma
  <2>2. a \in Players => st[a] # "out"
    BY <1>4 DEF Arrives, TypeInv, Typed, ShapeInv, EntryInv
  <2>3. PICK at \in Positions : /\ a \notin doubled => at = pos[a]
                                /\ grid' = [grid EXCEPT ![SectionOf(at)] = @ \cup {a}]
                                /\ sect' = [sect EXCEPT ![a] = SectionOf(at)]
    BY <1>4 DEF Arrives
  <2> QED BY <1>1, <1>4, <2>1, <2>2, <2>3 DEF Arrives
<1>5. CASE Return(a, a)
  BY <1>1, <1>5 DEF Return
<1>6. CASE \E at \in Positions : Stands(a, at)
  BY <1>1, <1>6 DEF Stands
<1>7. CASE Stays(a)
  BY <1>1, <1>7 DEF Stays, Moving
<1> QED BY <1>2, <1>3, <1>4, <1>5, <1>6, <1>7, OwnStep

LEMMA TrackStep == ASSUME TypeInv, TrackInv, NEW a \in Objects, Step(a) PROVE TrackInv'
<1>1. Spares(a) /\ cast' = cast /\ cast \subseteq Objects
  BY SparesOthers, CastLemma DEF TypeInv, Typed, ViewTypes
<1> SUFFICES ASSUME NEW o \in cast \ doubled' PROVE Tracked(o)'
  BY <1>1 DEF TrackInv
<1>4. o \in cast \ doubled
  BY <1>1 DEF Spares
<1>2. CASE o = a
  BY <1>2, <1>4, TrackOwn DEF TrackInv
<1>3. CASE o # a
  BY <1>1, <1>3, <1>4 DEF Spares, TrackInv, Tracked, Unlisted
<1> QED BY <1>2, <1>3

LEMMA TrackAside == TypeInv /\ TrackInv /\ Aside => TrackInv'
<1> SUFFICES ASSUME TypeInv, TrackInv, Aside, NEW o \in cast' \ doubled' PROVE Tracked(o)'
  BY DEF TrackInv
<1>1. o \in cast \ doubled /\ o \in Objects \ doubled' /\ (o \in Players => st'[o] = st[o])
  BY CastLemma DEF Aside, AsideOwn, TypeInv, Typed, ViewTypes
<1>2. Tracked(o)
  BY <1>1 DEF TrackInv
<1>3. Unlisted(o)' <=> Unlisted(o)
  BY <1>1 DEF Unlisted, Aside, AsideOwn
<1>4. Sections' = Sections
  BY DEF Sections, SectionNum, SectionSize
<1> QED BY <1>1, <1>2, <1>3, <1>4 DEF Tracked, Aside, AsideOwn

\* Whoever has entered is listed in the section he is registered in and in no other,
\* except while he changes sections and before his login is through
\* (GameUtil::RegisterToSection, LoginPacket); a player in the one he stands in, and a
\* monster as long as no two threads have been at work on it at once.
THEOREM GridFollows == MonstersSpec => []GridTracks
<1> DEFINE I == TypeInv /\ HomeInv /\ TrackInv
<1>1. ViewInit => I
  BY InitTypes, InitSolo, HomeInit, TrackInit DEF TypeInv
<1>2. I /\ [MonstersNext]_vars => I'
  <2>1. ASSUME I, NEW a \in Objects, Step(a) PROVE HomeInv' /\ TrackInv'
    BY <2>1, HomeStep, TrackStep
  <2>2. I /\ Aside => HomeInv' /\ TrackInv'
    BY HomeAside, TrackAside
  <2> QED BY <2>1, <2>2, StepSolo, SomeStep
<1>3. I => GridTracks
  BY TracksLemma
<1> QED BY <1>1, <1>2, <1>3, PTL DEF MonstersSpec
-----------------------------------------------------------------------------
(* Looking around finds exactly those who are near.                        *)

\* Whoever is near stands in the section of a or in one beside it.
LEMMA NearLemma ==
  ASSUME NEW at \in Positions, NEW bt \in Positions, Near(at, bt)
  PROVE  SectionOf(bt) \in Around(SectionOf(at))
<1> DEFINE d == SectionSize
<1>1. d \in Nat \ {0} /\ ViewRange \in Nat /\ ViewRange <= d - 1
  BY SizeAssumption DEF SectionSize
<1>2. SectionOf(at) \in Sections /\ SectionOf(bt) \in Sections /\ SectionNum \in Nat
  BY SectionLemma, SizeAssumption, Division DEF SectionSize, SectionNum
<1>3. /\ at[1] \in Nat /\ at[2] \in Nat /\ bt[1] \in Nat /\ bt[2] \in Nat
      /\ at[1] <= bt[1] + d - 1 /\ bt[1] <= at[1] + d - 1
      /\ at[2] <= bt[2] + d - 1 /\ bt[2] <= at[2] + d - 1
  BY <1>1, SizeAssumption DEF Near, Within, Positions
<1>4. /\ at[1] \div d <= bt[1] \div d + 1 /\ bt[1] \div d <= at[1] \div d + 1
      /\ at[2] \div d <= bt[2] \div d + 1 /\ bt[2] \div d <= at[2] \div d + 1
  BY <1>1, <1>3, Division
<1> HIDE DEF d
<1>5. ASSUME NEW i \in 0..(SectionNum - 1), NEW j \in 0..(SectionNum - 1), i <= j + 1, j <= i + 1
      PROVE  j \in Reach(i)
  BY <1>2, <1>5 DEF Reach
<1>6. /\ SectionOf(at)[1] \in 0..(SectionNum - 1) /\ SectionOf(at)[2] \in 0..(SectionNum - 1)
      /\ SectionOf(bt)[1] \in 0..(SectionNum - 1) /\ SectionOf(bt)[2] \in 0..(SectionNum - 1)
  BY <1>2 DEF Sections
<1>7. /\ SectionOf(at) = <<at[1] \div d, at[2] \div d>>
      /\ SectionOf(bt) = <<bt[1] \div d, bt[2] \div d>>
  BY DEF SectionOf, d
<1>8. SectionOf(bt)[1] \in Reach(SectionOf(at)[1]) /\ SectionOf(bt)[2] \in Reach(SectionOf(at)[2])
  BY <1>4, <1>5, <1>6, <1>7
<1> QED BY <1>7, <1>8 DEF Around

\* Whoever looks around is registered where he stands.
PlaceInv ==
  \A o \in Objects \ doubled : phase[o] \in {"check", "look"} \cup Sighted => sect[o] = SectionOf(pos[o])

\* Whoever has kept still is in the grid, where he stands.
SteadyInv == \A o \in Objects \ doubled : \A q \in steady[o] \ doubled : q \in cast /\ q # o /\ Registered(q)

\* What o is to find has been found, is about to be looked at, or is in a section
\* that has yet to be read; and what has been found is near.
Seeks(o, q) == Near(pos[o], pos[q]) /\ (o \in Monsters => q \in Players)
LookInv ==
  \A o \in Objects \ doubled : phase[o] = "look" =>
    /\ script[o] = <<>>
    /\ \A q \in steady[o] \ doubled :
         /\ Seeks(o, q) => q \in new[o] \cup todo[o] \/ sect[q] \in visit[o]
         /\ q \in new[o] => Near(pos[o], pos[q])

ExactInv ==
  \A o \in Objects \ doubled : phase[o] \in Sighted => \A q \in steady[o] \ doubled : q \in new[o] <=> Seeks(o, q)

SightInv == PlaceInv /\ SteadyInv /\ LookInv /\ ExactInv

LEMMA PlaceStep == ASSUME TypeInv, PlaceInv, NEW a \in Objects, Step(a) PROVE PlaceInv'
<1>1. Spares(a)
  BY SparesOthers
<1> SUFFICES ASSUME NEW o \in Objects \ doubled', phase'[o] \in {"check", "look"} \cup Sighted
             PROVE  sect'[o] = SectionOf(pos'[o])
  BY DEF PlaceInv, SectionOf, SectionSize
<1>4. o \in Objects \ doubled
  BY <1>1 DEF Spares
<1>2. CASE o # a
  BY <1>1, <1>2, <1>4 DEF Spares, PlaceInv
<1>3. CASE o = a
  <2> USE DEF Goto, At, Sighted
  <2>1. /\ phase \in [Actors -> Phases \cup MonsterPhases]
        /\ sect \in [Objects -> Sections] /\ pos \in [Objects -> Positions]
    BY DEF TypeInv, Typed, ViewTypes
  <2>7. a \in Actors
    BY DEF Actors
  <2>2. ~Entering(a)
    BY <1>3, <2>1, <2>7 DEF Entering, Login, Enter, Greet, Greeted, Register, local
  <2>3. ~Leave(a, a) /\ ~Return(a, a)
    BY <1>3, <2>1, <2>7 DEF Leave, Return
  <2>4. CASE Arrives(a)
    BY <1>3, <1>4, <2>1, <2>4, <2>7 DEF Arrives
  <2>5. CASE \E at \in Positions : Stands(a, at)
    BY <1>3, <2>1, <2>5, <2>7 DEF Stands
  <2>6. CASE Stays(a)
    <3>1. phase[a] \in {"check", "look"} \cup Sighted
      BY <1>3, <2>6 DEF Stays, Check, Visit, Look, Looked, Seen
    <3> QED BY <1>3, <1>4, <2>6, <3>1 DEF Stays, PlaceInv
  <2> QED BY <2>2, <2>3, <2>4, <2>5, <2>6, OwnStep
<1> QED BY <1>2, <1>3

\* During a step, whoever is steady for x neither moves nor is moved in the grid.
LEMMA Unmoved ==
  ASSUME TypeInv, SteadyInv, NEW a \in Objects, Step(a), NEW x \in Objects \ doubled', NEW q \in steady'[x] \ doubled'
  PROVE  /\ q \in steady[x] \/ (x = a /\ Check(a, a))
         /\ q \in cast /\ q # x /\ Registered(q)
         /\ pos'[q] = pos[q] /\ sect'[q] = sect[q] /\ Registered(q)'
<1> USE DEF At, Goto
<1>0. /\ cast \subseteq Objects /\ a \in Actors
      /\ phase \in [Actors -> Phases \cup MonsterPhases]
      /\ steady \in [Objects -> SUBSET Objects]
      /\ st \in [Players -> {"out", "ingame", "gone"}]
  BY CastLemma DEF Actors, TypeInv, Typed, ViewTypes
<1>1. Spares(a) /\ cast' = cast
  BY SparesOthers
<1>6. x \in Objects \ doubled /\ q \notin doubled
  BY <1>1 DEF Spares
<1>2. q \in steady[x] \/ (x = a /\ Check(a, a))
  <2>1. CASE x # a
    BY <1>1, <1>6, <2>1 DEF Spares
  <2>2. CASE a \in Players /\ Entering(a)
    BY <1>0, <1>6, <2>2 DEF Entering, Login, Enter, Greet, Greeted, Register, history, TakePlace
  <2>3. CASE Leave(a, a) \/ Arrives(a) \/ Return(a, a) \/ \E at \in Positions : Stands(a, at)
    BY <1>0, <1>6, <2>3 DEF Leave, Arrives, Return, Stands, history, TakePlace
  <2>4. CASE Stays(a)
    BY <1>6, <2>1, <2>4 DEF Stays
  <2> QED BY <2>1, <2>2, <2>3, <2>4, OwnStep
<1>3. q \in cast /\ q # x /\ Registered(q)
  BY <1>0, <1>2, <1>6 DEF SteadyInv, Check
<1>4. CASE q # a
  BY <1>0, <1>1, <1>2, <1>3, <1>4 DEF Spares, Registered, SectionOf, SectionSize
<1>5. CASE q = a
  <2>1. x # a /\ q \in steady[x]
    BY <1>2, <1>3, <1>5
  <2>2. CASE a \in Players /\ Entering(a)
    BY <1>0, <1>3, <1>5, <2>2
       DEF Entering, Login, Enter, Greet, Greeted, Register, TakePlace, Registered
  <2>3. ASSUME NEW beside PROVE ~TakePlace(a, beside)
    BY <1>5 DEF TakePlace
  <2>4. CASE Stays(a)
    BY <1>2, <1>3, <1>5, <2>4 DEF Stays, Moving, Registered, SectionOf, SectionSize
  <2>5. ~Leave(a, a)
    BY <1>3, <1>5 DEF Leave, Registered
  <2>6. ~Arrives(a) /\ ~Return(a, a) /\ ~(\E at \in Positions : Stands(a, at))
    BY <2>3 DEF Arrives, Return, Stands
  <2> QED BY <1>2, <1>3, <2>2, <2>4, <2>5, <2>6, OwnStep
<1> QED BY <1>2, <1>3, <1>4, <1>5

\* Nothing comes between the accesses of a reader.
LEMMA LookBare ==
  ASSUME TypeInv, LookInv, NEW a \in Objects, Step(a), NEW o \in Objects \ doubled', phase'[o] = "look"
  PROVE  script'[o] = <<>>
<1> USE DEF At, Goto
<1>1. Spares(a) /\ a \in Actors /\ o \in Objects \ doubled
  BY SparesOthers DEF Actors, Spares
<1>2. phase \in [Actors -> Phases \cup MonsterPhases]
  BY DEF TypeInv, Typed, ViewTypes
<1>3. CASE o # a
  BY <1>1, <1>3 DEF Spares, LookInv
<1>4. CASE o = a
  <2>1. Stays(a)
    <3>1. ~(a \in Players /\ Entering(a))
      BY <1>1, <1>2, <1>4 DEF Entering, Login, Enter, Greet, Greeted, Register, local
    <3>2. ~Leave(a, a) /\ ~Arrives(a) /\ ~Return(a, a) /\ ~(\E at \in Positions : Stands(a, at))
      BY <1>1, <1>2, <1>4 DEF Leave, Arrives, Return, Stands
    <3> QED BY <3>1, <3>2, OwnStep
  <2>2. CASE Check(a, a) \/ Visit(a, a) \/ Look(a, a)
    BY <1>4, <2>2 DEF Check, Visit, Look
  <2>3. CASE phase[a] = "look" /\ (script[a] = <<>> => script'[a] = <<>>)
    BY <1>1, <1>4, <2>3 DEF LookInv
  <2> QED BY <1>4, <2>1, <2>2, <2>3 DEF Stays
<1> QED BY <1>3, <1>4

LEMMA LookStep ==
  ASSUME TypeInv, TrackInv, SightInv, NEW a \in Objects, Step(a)
  PROVE  LookInv'
<1> USE DEF At, Goto
<1>1. Spares(a) /\ cast \subseteq Objects /\ a \in Actors
  BY SparesOthers, CastLemma DEF Actors, TypeInv, Typed, ViewTypes
<1>2. /\ phase \in [Actors -> Phases \cup MonsterPhases]
      /\ visit \in [Actors -> SUBSET Sections]
      /\ todo \in [Actors -> SUBSET Objects]
      /\ new \in [Actors -> SUBSET Objects]
      /\ pos \in [Objects -> Positions]
      /\ sect \in [Objects -> Sections]
  BY DEF TypeInv, Typed, ViewTypes
<1> SUFFICES ASSUME NEW o \in Objects \ doubled', phase'[o] = "look", NEW q \in steady'[o] \ doubled'
             PROVE  /\ Seeks(o, q)' => \/ q \in new'[o] \cup todo'[o]
                                       \/ sect'[q] \in visit'[o]
                    /\ q \in new'[o] => Near(pos'[o], pos'[q])
  BY LookBare DEF SightInv, LookInv, Seeks, Near, Within
<1>3. /\ q \in steady[o] \/ (o = a /\ Check(a, a))
      /\ q \in cast /\ q # o /\ Registered(q)
      /\ pos'[q] = pos[q] /\ sect'[q] = sect[q]
  BY Unmoved DEF SightInv
<1>7. o \in Objects \ doubled /\ q \notin doubled
  BY <1>1 DEF Spares
<1>4. ASSUME pos'[o] = pos[o] PROVE Seeks(o, q)' <=> Seeks(o, q)
  BY <1>3, <1>4 DEF Seeks, Near, Within
<1>5. CASE o # a
  BY <1>1, <1>3, <1>4, <1>5, <1>7 DEF Spares, SightInv, LookInv, Seeks
<1>6. CASE o = a
  <2>1. Stays(a)
    <3>1. ~(a \in Players /\ Entering(a))
      BY <1>1, <1>2, <1>6 DEF Entering, Login, Enter, Greet, Greeted, Register, local
    <3>2. ~Leave(a, a) /\ ~Arrives(a) /\ ~Return(a, a) /\ ~(\E at \in Positions : Stands(a, at))
      BY <1>1, <1>2, <1>6 DEF Leave, Arrives, Return, Stands
    <3> QED BY <3>1, <3>2, OwnStep
  <2>2. Seeks(o, q)' <=> Seeks(o, q)
    BY <1>4, <2>1 DEF Stays
  <2>3. CASE Check(a, a)
    <3>1. Seeks(o, q) => sect[q] \in Around(sect[o])
      <4>1. sect[o] = SectionOf(pos[o]) /\ sect[q] = SectionOf(pos[q])
        BY <1>3, <1>6, <1>7, <2>3 DEF Check, SightInv, PlaceInv, Registered
      <4>2. Near(pos[o], pos[q]) => SectionOf(pos[q]) \in Around(SectionOf(pos[o]))
        BY <1>1, <1>2, <1>3, NearLemma
      <4> QED BY <4>1, <4>2 DEF Seeks
    <3>2. new'[o] = {} /\ visit'[o] = Around(sect[o])
      BY <1>1, <1>2, <1>6, <2>3 DEF Check
    <3> QED BY <1>3, <2>2, <3>1, <3>2
  <2>4. CASE Visit(a, a)
    <3>1. phase[o] = "look" /\ q \in steady[o] /\ new'[o] = new[o] /\ todo[o] = {} /\ pos' = pos
      BY <1>3, <1>6, <2>4 DEF Visit, Check, world
    <3>2. PICK s \in visit[a] :
            /\ visit' = [visit EXCEPT ![a] = @ \ {s}]
            /\ todo' = [todo EXCEPT ![a] = IF a \in Players THEN grid[s] \ {a}
                                           ELSE grid[s] \cap Players]
      BY <2>4 DEF Visit
    <3>3. Seeks(o, q) => q \in new[o] \/ sect[q] \in visit[o]
      BY <1>7, <3>1 DEF SightInv, LookInv
    <3>4. sect[q] \in Sections /\ q \in grid[sect[q]]
      BY <1>1, <1>2, <1>3, <1>7 DEF TrackInv, Tracked, Unlisted, Registered
    <3>5. Seeks(o, q) => (o \in Players \/ q \in Players)
      BY DEF Seeks, Objects
    <3>6. q \in new[o] => Near(pos[o], pos[q])
      BY <1>7, <3>1 DEF SightInv, LookInv
    <3>7. sect[q] = s /\ Seeks(o, q) => q \in todo'[o]
      BY <1>1, <1>2, <1>3, <1>6, <3>2, <3>4, <3>5
    <3>8. visit'[o] = visit[o] \ {s}
      BY <1>1, <1>2, <1>6, <3>2
    <3> QED BY <1>3, <2>2, <3>1, <3>3, <3>6, <3>7, <3>8
  <2>5. CASE Look(a, a)
    <3>1. phase[o] = "look" /\ q \in steady[o] /\ visit'[o] = visit[o] /\ pos' = pos
      BY <1>3, <1>6, <2>5 DEF Look, Check, world
    <3>2. PICK t \in todo[a] :
            /\ todo' = [todo EXCEPT ![a] = @ \ {t}]
            /\ new' = [new EXCEPT ![a] = IF Near(pos[a], pos[t]) THEN @ \cup {t} ELSE @]
      BY <2>5 DEF Look
    <3>3. /\ todo'[o] = todo[o] \ {t}
          /\ new'[o] = IF Near(pos[o], pos[t]) THEN new[o] \cup {t} ELSE new[o]
      BY <1>1, <1>2, <1>6, <3>2
    <3>4. /\ Seeks(o, q) => q \in new[o] \cup todo[o] \/ sect[q] \in visit[o]
          /\ q \in new[o] => Near(pos[o], pos[q])
          /\ Seeks(o, q) => Near(pos[o], pos[q])
      BY <1>7, <3>1 DEF SightInv, LookInv, Seeks
    <3> QED BY <1>3, <2>2, <3>1, <3>3, <3>4
  <2>6. CASE /\ phase[a] = "look" /\ steady' = steady
             /\ new'[a] = new[a] /\ todo'[a] = todo[a]
             /\ script[a] = <<>> => script'[a] = <<>> /\ visit'[a] = visit[a]
    <3>1. pos' = pos
      BY <2>1 DEF Stays
    <3> QED BY <1>3, <1>6, <1>7, <2>2, <2>6, <3>1 DEF SightInv, LookInv
  <2> QED BY <1>6, <2>1, <2>3, <2>4, <2>5, <2>6 DEF Stays
<1> QED BY <1>5, <1>6

LEMMA ExactStep ==
  ASSUME TypeInv, SightInv, NEW a \in Objects, Step(a)
  PROVE  ExactInv'
<1> USE DEF At, Goto
<1>1. Spares(a) /\ cast \subseteq Objects /\ a \in Actors
  BY SparesOthers, CastLemma DEF Actors, TypeInv, Typed, ViewTypes
<1>2. /\ phase \in [Actors -> Phases \cup MonsterPhases]
      /\ new \in [Actors -> SUBSET Objects]
  BY DEF TypeInv, Typed, ViewTypes
<1> SUFFICES ASSUME NEW o \in Objects \ doubled', phase'[o] \in Sighted, NEW q \in steady'[o] \ doubled'
             PROVE  q \in new'[o] <=> Seeks(o, q)'
  BY DEF ExactInv
<1>3. /\ q \in steady[o] \/ (o = a /\ Check(a, a))
      /\ pos'[q] = pos[q]
  BY Unmoved DEF SightInv
<1>7. o \in Objects \ doubled /\ q \notin doubled
  BY <1>1 DEF Spares
<1>4. ASSUME pos'[o] = pos[o] PROVE Seeks(o, q)' <=> Seeks(o, q)
  BY <1>3, <1>4 DEF Seeks, Near, Within
<1>5. CASE o # a
  BY <1>1, <1>3, <1>4, <1>5, <1>7 DEF Spares, SightInv, ExactInv
<1>6. CASE o = a
  <2>1. Stays(a)
    <3>1. ~(a \in Players /\ Entering(a))
      BY <1>1, <1>2, <1>6 DEF Entering, Login, Enter, Greet, Greeted, Register, local, Sighted
    <3>2. ~Leave(a, a) /\ ~Arrives(a) /\ ~Return(a, a) /\ ~(\E at \in Positions : Stands(a, at))
      BY <1>1, <1>2, <1>6 DEF Leave, Arrives, Return, Stands, Sighted
    <3> QED BY <3>1, <3>2, OwnStep
  <2>2. (Seeks(o, q)' <=> Seeks(o, q)) /\ q \in steady[o]
    BY <1>1, <1>2, <1>3, <1>4, <1>6, <2>1 DEF Stays, Check, Sighted
  <2>3. CASE Looked(a) \/ Seen(a)
    <3>1. /\ phase[o] = "look" /\ new'[o] = new[o]
          /\ todo[o] = {} /\ visit[o] = {}
      BY <1>6, <2>3 DEF Looked, Seen
    <3>2. /\ Seeks(o, q) => q \in new[o]
          /\ q \in new[o] => Near(pos[o], pos[q])
      BY <1>7, <2>2, <3>1 DEF SightInv, LookInv
    <3>3. o \in Monsters /\ q \in new[o] => q \in Players
      BY ObjectAssumption DEF Actors, Objects, TypeInv, Typed, ShapeInv, WatchersInv
    <3> QED BY <2>2, <3>1, <3>2, <3>3 DEF Seeks
  <2>4. CASE phase[a] \in Sighted /\ new'[a] = new[a] /\ steady' = steady
    BY <1>6, <1>7, <2>2, <2>4 DEF SightInv, ExactInv
  <2> QED BY <1>6, <2>1, <2>3, <2>4 DEF Stays
<1> QED BY <1>5, <1>6

LEMMA SteadyStep == ASSUME TypeInv, SteadyInv, NEW a \in Objects, Step(a) PROVE SteadyInv'
BY Unmoved, SparesOthers DEF SteadyInv

LEMMA SightInit == ViewInit => SightInv
<1> SUFFICES ASSUME ViewInit PROVE SightInv
  OBVIOUS
<1>1. \A o \in Objects : phase[o] = "idle" /\ steady[o] = {}
  BY DEF ViewInit, Actors
<1> QED BY <1>1 DEF SightInv, PlaceInv, SteadyInv, LookInv, ExactInv, Sighted

LEMMA SightAside == TypeInv /\ TypeInv' /\ SightInv /\ Aside => SightInv'
<1> SUFFICES ASSUME TypeInv, TypeInv', SightInv, Aside PROVE SightInv'
  OBVIOUS
<1>1. ASSUME NEW o \in Objects \ doubled'
      PROVE  /\ o \in Objects \ doubled
             /\ phase'[o] = phase[o] /\ script'[o] = script[o] /\ visit'[o] = visit[o]
             /\ todo'[o] = todo[o] /\ new'[o] = new[o] /\ pos'[o] = pos[o] /\ sect'[o] = sect[o]
             /\ \A q \in steady'[o] \ doubled' : q \in steady[o] \ doubled /\ q \in Objects \ doubled'
  <2>1. \A q \in steady'[o] : q \in Objects
    BY DEF TypeInv, Typed, ViewTypes
  <2> QED BY <1>1, <2>1 DEF Aside, AsideOwn, AsidePairs
<1>2. ASSUME NEW o \in Objects \ doubled', NEW q \in steady'[o] \ doubled'
      PROVE  Seeks(o, q)' <=> Seeks(o, q)
  BY <1>1, <1>2 DEF Seeks, Near, Within
<1>3. PlaceInv'
  BY <1>1 DEF SightInv, PlaceInv, SectionOf, SectionSize
<1>4. SteadyInv'
  <2> SUFFICES ASSUME NEW o \in Objects \ doubled', NEW q \in steady'[o] \ doubled'
               PROVE  q \in cast' /\ q # o /\ Registered(q)'
    BY DEF SteadyInv
  <2>1. q \in cast /\ q # o /\ Registered(q)
    BY <1>1 DEF SightInv, SteadyInv
  <2>2. cast' = cast /\ (q \in Players => st'[q] = st[q])
    BY DEF Aside, AsideOwn
  <2>3. SectionOf(pos[q])' = SectionOf(pos[q])
    BY <1>1 DEF SectionOf, SectionSize
  <2> QED BY <1>1, <2>1, <2>2, <2>3 DEF Registered
<1>5. LookInv'
  <2> SUFFICES ASSUME NEW o \in Objects \ doubled', phase'[o] = "look"
               PROVE  /\ script'[o] = <<>>
                      /\ \A q \in steady'[o] \ doubled' :
                           /\ Seeks(o, q)' => \/ q \in new'[o] \cup todo'[o]
                                              \/ sect'[q] \in visit'[o]
                           /\ q \in new'[o] => Near(pos'[o], pos'[q])
    BY DEF LookInv, Seeks, Near, Within
  <2> QED BY <1>1, <1>2 DEF SightInv, LookInv
<1>6. ExactInv'
  BY <1>1, <1>2 DEF SightInv, ExactInv, Sighted
<1> QED BY <1>3, <1>4, <1>5, <1>6 DEF SightInv

\* CheckSection misses nobody and invents nobody among those who kept still meanwhile:
\* a section is twice the range of view, so whoever is near is in one of the nine.
THEOREM LookingIsExact == MonstersSpec => []CheckExact
<1> DEFINE I == TypeInv /\ TrackInv /\ SightInv
<1>1. ViewInit => I
  BY InitTypes, InitSolo, TrackInit, SightInit DEF TypeInv
<1>2. I /\ [MonstersNext]_vars => I'
  <2>1. ASSUME I, NEW a \in Objects, Step(a) PROVE TrackInv' /\ SightInv'
    BY <2>1, TrackStep, PlaceStep, SteadyStep, LookStep, ExactStep DEF SightInv
  <2> QED BY <2>1, StepSolo, SomeStep, TrackAside, SightAside
<1>3. I => CheckExact
  BY CastLemma DEF SightInv, ExactInv, Seeks, Sighted, CheckExact, TypeInv, Typed, ViewTypes
<1> QED BY <1>1, <1>2, <1>3, PTL DEF MonstersSpec
-----------------------------------------------------------------------------
(* What a client shows.                                                    *)

\* t is about to tell the client of p of what it has done to q in the list of p.
Tells(t, p, q) ==
  /\ script[t] # <<>>
  /\ Head(script[t]) \in {Op("show", p, q), Op("hide", p, q)}

\* A turn never begins with a packet.
Opens(s) == s = <<>> \/ Head(s).op \notin {"show", "hide"}

\* Where nobody has crossed: one thread at a time is between the list and the packet,
\* what it is about to send is what the list says, and when there is none the client
\* shows what the list says.
Follows(p, q) ==
  /\ \A t, u \in Actors : Tells(t, p, q) /\ Tells(u, p, q) => t = u
  /\ \A t \in Actors : Tells(t, p, q) => (Head(script[t]).op = "show" <=> q \in view[p])
  /\ \/ shown[p][q] # Nowhere <=> q \in view[p]
     \/ <<p, q>> \in hollow
     \/ \E t \in Actors : Tells(t, p, q)
FollowInv == \A p \in Players, q \in Objects : <<p, q>> \notin crossed => Follows(p, q)

LEMMA OpensLemma ==
  ASSUME NEW s \in Seq(Access), NEW r \in Seq(Access), s # <<>>, Opens(s)
  PROVE  Opens(s \o r)
<1>1. Len(s) \in Nat \ {0} /\ Len(r) \in Nat /\ s \o r \in Seq(Access)
  OBVIOUS
<1>2. Len(s \o r) = Len(s) + Len(r) /\ (s \o r)[1] = s[1]
  BY <1>1
<1>3. Head(s) = s[1] /\ Head(s \o r) = (s \o r)[1]
  BY <1>1, <1>2
<1> QED BY <1>2, <1>3 DEF Opens

LEMMA OpenTurns ==
  ASSUME NEW p, NEW q
  PROVE  /\ Opens(<<>>)
         /\ Opens(AddObjectToView(p, q)) /\ Opens(RemoveObjectFromView(p, q))
         /\ Opens(<<Op("see", p, q)>>) /\ Opens(<<Op("seeNow", p, q)>>)
         /\ Opens(<<Op("lose", p, q)>>)
         /\ Opens(<<Op("meet", p, q)>>) /\ Opens(<<Op("wake", p, q)>>)
<1>1. ASSUME NEW a, a.op \notin {"show", "hide"}
      PROVE  Opens(<<a>>) /\ \A b : Opens(<<a, b>>)
  BY <1>1 DEF Opens
<1>2. /\ Op("meet", p, q).op = "meet" /\ Op("wake", p, q).op = "wake"
      /\ Op("insert", p, q).op = "insert" /\ Op("erase", p, q).op = "erase"
      /\ Op("see", p, q).op = "see" /\ Op("seeNow", p, q).op = "seeNow"
      /\ Op("lose", p, q).op = "lose"
  BY DEF Op
<1>3. Opens(<<>>)
  BY DEF Opens
<1> QED BY <1>1, <1>2, <1>3 DEF AddObjectToView, RemoveObjectFromView

\* The packet comes right after the change of the list that it tells of.
LEMMA NextHead ==
  ASSUME NEW s \in Seq(Access), Chained(s), s # <<>>
  PROVE  /\ Head(s).op = "insert" =>
              Tail(s) # <<>> /\ Head(Tail(s)) = Op("show", Head(s).of, Head(s).obj)
         /\ Head(s).op = "erase" =>
              Tail(s) # <<>> /\ Head(Tail(s)) = Op("hide", Head(s).of, Head(s).obj)
         /\ Head(s).op \notin {"insert", "erase"} => Opens(Tail(s))
BY TailChained DEF Opens, Op

\* A step of any thread, twins included.
Acts(t) == \/ t \in Players /\ ViewStep(t)
           \/ \E m \in Monsters : t \in Handlers(m) /\ MonsterStep(t, m)

LEMMA StepActs == ASSUME NEW a, Step(a) PROVE Acts(a)
BY DEF Step, Acts, Handlers

LEMMA SomeActs ==
  [MonstersNext]_vars => \/ \E t \in Actors : Acts(t)
                         \/ UNCHANGED vars
<1>1. Players \subseteq Actors /\ \A m \in Monsters : Handlers(m) \subseteq Actors
  BY DEF Actors, Objects, Handlers
<1> QED BY <1>1 DEF MonstersNext, ViewNext, Acts

\* A thread goes through its own turn only.
LEMMA OwnTurn ==
  ASSUME TypeInv, NEW t \in Actors, Acts(t)
  PROVE  \A u \in Actors \ {t} : script'[u] = script[u]
<1> USE DEF world, local, Rest
<1>0. script \in [Actors -> Seq(Access)]
  BY DEF TypeInv, Typed, ViewTypes
<1> SUFFICES script' = script \/ \E s : script' = [script EXCEPT ![t] = s]
  BY <1>0
<1>1. CASE Execute(t)
  <2>1. script' = script \/ \E s : Rest(t, s)
    BY <1>1 DEF Execute, Enqueue, Meet, WakeUp, Rouse, Clear, Scan, Begin, Insert, Erase, Show, Hide
  <2> QED BY <2>1
<1>2. CASE Entering(t)
  BY <1>2 DEF Entering, Login, Enter, Greet, Greeted, Register
<1>3. CASE Stirring(t)
  BY <1>3 DEF Stirring, Move, Die, Leave, Arrive, Stand
<1>4. CASE Checking(t)
  BY <1>4 DEF Checking, Check, Visit, Look, Looked
<1>5. CASE Telling(t)
  BY <1>5 DEF Telling, Tell, Told, Drop, Dropped
<1>6. CASE RunJob(t)
  BY <1>6 DEF RunJob
<1>7. CASE Killing(t)
  BY <1>7 DEF Killing, Hit, Kill, Mourn, Mourned, Bury, Buried
<1>8. CASE Leaving(t)
  BY <1>8 DEF Leaving, Logout, Bye, Gone
<1>9. ASSUME NEW m \in Monsters, Walking(t, m)
      PROVE  script' = script
  BY <1>9 DEF Walking, Update, Walk, Leave, Join, Again
<1>10. ASSUME NEW m \in Monsters, Watching(t, m)
       PROVE  script' = script
  BY <1>10 DEF Watching, Check, Visit, Look, Sleep, Seen
<1>11. ASSUME NEW m \in Monsters, Posting(t, m)
       PROVE  script' = script \/ \E s : script' = [script EXCEPT ![t] = s]
  BY <1>11 DEF Posting, Post, Posted, Part, Parted
<1>12. ASSUME NEW m \in Monsters, Respawning(t, m)
       PROVE  script' = script \/ \E s : script' = [script EXCEPT ![t] = s]
  BY <1>12 DEF Respawning, Rise, Heal, Return, Appear, Appeared
<1> QED BY <1>1, <1>2, <1>3, <1>4, <1>5, <1>6, <1>7, <1>8, <1>9, <1>10, <1>11, <1>12
        DEF Acts, ViewStep, MonsterStep

\* What a step other than an access leaves alone, and how it begins a turn.
LEMMA Outside ==
  ASSUME TypeInv, NEW a \in Actors, Acts(a), ~Execute(a)
  PROVE  /\ UNCHANGED <<crossed, hollow>>
         /\ \A p \in Players : view'[p] = view[p]
         /\ \A p \in Players, q \in Objects : shown'[p][q] # Nowhere <=> shown[p][q] # Nowhere
         /\ script'[a] = script[a] \/ Opens(script'[a])
<1> USE DEF TypeInv, Typed, ViewTypes, world, lair, local, history, Rest, Objects
<1>0. ASSUME NEW s, script' = [script EXCEPT ![a] = s] PROVE script'[a] = s
  BY <1>0
<1>1. ASSUME NEW p \in Players, NEW q \in Objects
      PROVE  /\ AddObjectToView(p, q) \in Seq(Access) /\ RemoveObjectFromView(p, q) \in Seq(Access)
             /\ AddObjectToView(p, q) # <<>> /\ RemoveObjectFromView(p, q) # <<>>
  BY AddChained, RemoveChained DEF AddObjectToView, RemoveObjectFromView
<1>2. ASSUME NEW op \in JobKinds \cup {"wake"}, NEW p \in Objects, NEW q \in Objects
      PROVE  <<Op(op, p, q)>> \in Seq(Access) /\ <<Op(op, p, q)>> # <<>> /\ Opens(<<Op(op, p, q)>>)
  <2>1. Op(op, p, q) \in Access
    BY <1>2 DEF Access, Op
  <2>2. <<Op(op, p, q)>> \in Seq(Access) /\ <<Op(op, p, q)>> # <<>>
    BY <2>1
  <2>3. op \in {"see", "seeNow", "lose", "wake"}
    BY DEF JobKinds
  <2> QED BY <2>2, <2>3, OpenTurns
<1>3. ASSUME a \in Players, Greet(a) PROVE Opens(script'[a])
  <2>1. PICK q \in todo[a] :
          script' = [script EXCEPT ![a] =
            IF ~Near(pos[a], pos[q]) THEN <<>>
            ELSE IF q \in Players THEN <<Op("meet", q, a)>>
            ELSE <<Op("wake", q, a)>> \o AddObjectToView(a, q)]
    BY <1>3 DEF Greet
  <2>2. q \in Objects
    BY <1>3, <2>1
  <2>3. /\ Opens(<<>>) /\ Opens(<<Op("meet", q, a)>>)
        /\ Opens(<<Op("wake", q, a)>> \o AddObjectToView(a, q))
    BY <1>1, <1>2, <1>3, <2>2, OpensLemma, OpenTurns
  <2> QED BY <1>0, <2>1, <2>3
<1>4. ASSUME a \in Players, Tell(a) PROVE Opens(script'[a])
  <2>1. PICK q \in todo[a] :
          script' = [script EXCEPT ![a] =
            <<Notice(a, q)>> \o (IF q \in old[a] THEN <<>> ELSE AddObjectToView(a, q))]
    BY <1>4 DEF Tell
  <2>2. q \in Objects
    BY <1>4, <2>1
  <2>3. /\ <<Notice(a, q)>> \in Seq(Access) /\ <<Notice(a, q)>> # <<>> /\ Opens(<<Notice(a, q)>>)
    BY <1>2, <1>4, <2>2 DEF Notice, JobKinds
  <2>4. (IF q \in old[a] THEN <<>> ELSE AddObjectToView(a, q)) \in Seq(Access)
    BY <1>1, <1>4, <2>2
  <2>5. Opens(<<Notice(a, q)>> \o (IF q \in old[a] THEN <<>> ELSE AddObjectToView(a, q)))
    BY <2>3, <2>4, OpensLemma
  <2> QED BY <1>0, <2>1, <2>5
<1>5. ASSUME a \in Players, Drop(a) PROVE Opens(script'[a])
  <2>1. PICK q \in todo[a] :
          script' = [script EXCEPT ![a] =
            RemoveObjectFromView(a, q) \o (IF q \in Players THEN <<Op("lose", q, a)>> ELSE <<>>)]
    BY <1>5 DEF Drop
  <2>2. q \in Objects
    BY <1>5, <2>1
  <2>3. (IF q \in Players THEN <<Op("lose", q, a)>> ELSE <<>>) \in Seq(Access)
    <3>1. <<Op("lose", q, a)>> \in Seq(Access)
      BY <1>2, <1>5, <2>2 DEF JobKinds
    <3> QED BY <3>1
  <2>4. Opens(RemoveObjectFromView(a, q))
    BY OpenTurns
  <2>5. Opens(RemoveObjectFromView(a, q)
                \o (IF q \in Players THEN <<Op("lose", q, a)>> ELSE <<>>))
    BY <1>1, <1>5, <2>2, <2>3, <2>4, OpensLemma
  <2> QED BY <1>0, <2>1, <2>5
<1>6. ASSUME a \in Players, Bye(a) PROVE Opens(script'[a])
  <2>1. PICK q \in todo[a] : script' = [script EXCEPT ![a] = <<Op("lose", q, a)>>]
    BY <1>6 DEF Bye
  <2> QED BY <1>0, <2>1, OpenTurns
<1>7. ASSUME a \in Players, Bury(a) PROVE Opens(script'[a])
  <2>1. PICK q \in todo[a] : script' = [script EXCEPT ![a] = RemoveObjectFromView(q, prey[a])]
    BY <1>7 DEF Bury
  <2> QED BY <1>0, <2>1, OpenTurns
<1>8. ASSUME a \in Players, RunJob(a)
      PROVE  /\ \A p \in Players, q \in Objects : shown'[p][q] # Nowhere <=> shown[p][q] # Nowhere
             /\ script'[a] = script[a] \/ Opens(script'[a])
  <2> DEFINE j == Head(jobs[a])
  <2>1. j \in Job
    BY <1>8 DEF RunJob
  <2>2. j.who \in Objects /\ j.at \in Positions
    BY <2>1 DEF Job
  <2>3. \/ script' = script
        \/ script' = [script EXCEPT ![a] = RemoveObjectFromView(a, j.who)]
        \/ script' = [script EXCEPT ![a] = AddObjectToView(a, j.who)]
    BY <1>8 DEF RunJob
  <2>4. shown' = shown \/ \E at \in Positions : MoveShown(a, j.who, at)
    BY <1>8, <2>2 DEF RunJob
  <2> HIDE DEF j
  <2>5. script'[a] = script[a] \/ Opens(script'[a])
    <3>1. Opens(RemoveObjectFromView(a, j.who)) /\ Opens(AddObjectToView(a, j.who))
      BY OpenTurns
    <3> QED BY <1>0, <2>3, <3>1
  <2>6. ASSUME NEW at \in Positions, MoveShown(a, j.who, at), NEW p \in Players, NEW q \in Objects
        PROVE  shown'[p][q] # Nowhere <=> shown[p][q] # Nowhere
    <3>1. at # Nowhere
      BY PlaceAssumption
    <3> QED BY <1>8, <2>2, <2>6, <3>1 DEF MoveShown
  <2> QED BY <2>4, <2>5, <2>6
<1>9. ASSUME a \in Players, RunJob(a) PROVE UNCHANGED <<crossed, hollow, view>>
  BY <1>9 DEF RunJob
<1>10. ASSUME NEW m \in Monsters, Posting(a, m)
       PROVE  /\ UNCHANGED <<crossed, hollow, shown>>
              /\ \A p \in Players : view'[p] = view[p]
              /\ script'[a] = script[a] \/ Opens(script'[a])
  <2>1. ASSUME Parted(a, m), NEW p \in Players PROVE view'[p] = view[p]
    BY <1>10, <2>1, ObjectAssumption DEF Parted
  <2>2. ASSUME Post(a, m) PROVE Opens(script'[a])
    <3>1. PICK q \in todo[a] : script' = [script EXCEPT ![a] = <<Op("seeNow", q, m)>>]
      BY <2>2 DEF Post
    <3> QED BY <1>0, <3>1, OpenTurns
  <2>3. ASSUME Part(a, m) PROVE Opens(script'[a])
    <3>1. PICK q \in todo[a] : script' = [script EXCEPT ![a] = <<Op("lose", q, m)>>]
      BY <2>3 DEF Part
    <3> QED BY <1>0, <3>1, OpenTurns
  <2> QED BY <1>10, <2>1, <2>2, <2>3 DEF Posting, Post, Posted, Part, Parted
<1>11. ASSUME NEW m \in Monsters, Appear(a, m) PROVE Opens(script'[a])
  <2>1. PICK q \in todo[a] :
          script' = [script EXCEPT ![a] =
            IF st[q] = "ingame" /\ Near(pos[q], pos[m]) THEN AddObjectToView(q, m) ELSE <<>>]
    BY <1>11 DEF Appear
  <2> QED BY <1>0, <2>1, OpenTurns
<1>12. CASE a \in Players /\ Entering(a)
  BY <1>3, <1>12 DEF Entering, Login, Enter, Greet, Greeted, Register
<1>13. CASE a \in Players /\ Stirring(a)
  BY <1>13 DEF Stirring, Move, Die, Leave, Arrive, Stand
<1>14. CASE a \in Players /\ Checking(a)
  BY <1>14 DEF Checking, Check, Visit, Look, Looked
<1>15. CASE a \in Players /\ Telling(a)
  BY <1>4, <1>5, <1>15 DEF Telling, Tell, Told, Drop, Dropped
<1>16. CASE a \in Players /\ Killing(a)
  BY <1>7, <1>16 DEF Killing, Hit, Kill, Mourn, Mourned, Bury, Buried
<1>17. CASE a \in Players /\ Leaving(a)
  BY <1>6, <1>17 DEF Leaving, Logout, Bye, Gone
<1>18. ASSUME NEW m \in Monsters, Walking(a, m)
       PROVE  UNCHANGED <<crossed, hollow, view, shown, script>>
  BY <1>18 DEF Walking, Update, Walk, Leave, Join, Again
<1>19. ASSUME NEW m \in Monsters, Watching(a, m)
       PROVE  UNCHANGED <<crossed, hollow, view, shown, script>>
  BY <1>19 DEF Watching, Check, Visit, Look, Sleep, Seen
<1>20. ASSUME NEW m \in Monsters, Respawning(a, m)
       PROVE  /\ UNCHANGED <<crossed, hollow, view, shown>>
              /\ script'[a] = script[a] \/ Opens(script'[a])
  BY <1>11, <1>20 DEF Respawning, Rise, Heal, Return, Appear, Appeared
<1> QED BY <1>8, <1>9, <1>10, <1>12, <1>13, <1>14, <1>15, <1>16, <1>17, <1>18, <1>19, <1>20
        DEF Acts, ViewStep, MonsterStep

\* Nothing but an access goes on while there is a turn to go through.
LEMMA TurnDone == ASSUME NEW a, Acts(a), ~Execute(a) PROVE script[a] = <<>>
<1> USE DEF At, Ready, Free
<1>1. CASE ViewStep(a)
  BY <1>1 DEF ViewStep, Entering, Login, Enter, Greet, Greeted, Register, Stirring, Move, Die,
    Leave, Arrive, Checking, Check, Visit, Look, Looked, Telling, Tell, Told, Drop, Dropped,
    RunJob, Killing, Hit, Kill, Mourn, Mourned, Bury, Buried, Leaving, Logout, Bye, Gone
<1>2. ASSUME NEW m, MonsterStep(a, m) PROVE script[a] = <<>>
  BY <1>2 DEF MonsterStep, Walking, Update, Walk, Leave, Join, Again, Watching, Check, Visit, Look,
    Sleep, Seen, Posting, Post, Posted, Part, Parted, Respawning, Rise, Heal, Return, Appear, Appeared
<1> QED BY <1>1, <1>2 DEF Acts

\* What p sees of q is left alone, and so is what is about to be sent.
LEMMA FollowSame ==
  ASSUME NEW p \in Players, NEW q \in Objects, Follows(p, q),
         \A t \in Actors : \/ script'[t] = script[t]
                           \/ ~Tells(t, p, q) /\ ~Tells(t, p, q)',
         q \in view'[p] <=> q \in view[p],
         shown'[p][q] # Nowhere <=> shown[p][q] # Nowhere,
         <<p, q>> \in hollow' <=> <<p, q>> \in hollow
  PROVE  Follows(p, q)'
<1>1. ASSUME NEW t \in Actors
      PROVE  /\ Tells(t, p, q)' <=> Tells(t, p, q)
             /\ Tells(t, p, q)' => Head(script'[t]) = Head(script[t])
  BY DEF Tells
<1> QED BY <1>1 DEF Follows

LEMMA FollowOutside ==
  ASSUME TypeInv, FollowInv, NEW a \in Actors, Acts(a), ~Execute(a)
  PROVE  FollowInv'
<1> SUFFICES ASSUME NEW p \in Players, NEW q \in Objects, <<p, q>> \notin crossed'
             PROVE  Follows(p, q)'
  BY DEF FollowInv
<1>1. /\ UNCHANGED <<crossed, hollow>> /\ view'[p] = view[p]
      /\ shown'[p][q] # Nowhere <=> shown[p][q] # Nowhere
      /\ script'[a] = script[a] \/ Opens(script'[a])
  BY Outside
<1>2. Follows(p, q)
  BY <1>1 DEF FollowInv
<1>3. script[a] = <<>>
  BY TurnDone
<1>4. \A t \in Actors \ {a} : script'[t] = script[t]
  BY OwnTurn
<1>5. ASSUME NEW t \in Actors
      PROVE  script'[t] = script[t] \/ (~Tells(t, p, q) /\ ~Tells(t, p, q)')
  <2>1. CASE t # a
    BY <1>4, <2>1
  <2>2. CASE t = a
    BY <1>1, <1>3, <2>2 DEF Opens, Tells, Op
  <2> QED BY <2>1, <2>2
<1> QED BY <1>1, <1>2, <1>5, FollowSame

LEMMA FollowExecute ==
  ASSUME TypeInv, FollowInv, NEW a \in Actors, Execute(a)
  PROVE  FollowInv'
<1> DEFINE s == script[a]
           h == Head(script[a])
           r == Tail(script[a])
<1>1. /\ s # <<>>
      /\ \/ Enqueue(a, h, r) \/ Meet(a, h, r) \/ WakeUp(a, h, r)
         \/ Rouse(a, h, r) \/ Clear(a, h, r) \/ Scan(a, h, r) \/ Begin(a, h, r)
         \/ Insert(a, h, r) \/ Erase(a, h, r) \/ Show(a, h, r) \/ Hide(a, h, r)
      /\ script \in [Actors -> Seq(Access)]
      /\ view \in [Objects -> SUBSET Objects]
      /\ shown \in [Players -> [Objects -> Positions \cup {Nowhere}]]
      /\ pos \in [Objects -> Positions]
  BY DEF Execute, TypeInv, Typed, ViewTypes
<1>2. s \in Seq(Access) /\ Chained(s)
  BY <1>1 DEF TypeInv, Typed, ShapeInv, ScriptInv
<1>3. h \in Access /\ Sound(h)
  BY <1>1, <1>2, TailChained
<1>4. r \in Seq(Access) /\ Chained(r) /\ (h.op = "meet" => r = <<>>)
  BY <1>1, <1>2, TailChained
<1>5. /\ h.op = "insert" => r # <<>> /\ Head(r) = Op("show", h.of, h.obj)
      /\ h.op = "erase" => r # <<>> /\ Head(r) = Op("hide", h.of, h.obj)
      /\ h.op \notin {"insert", "erase"} => Opens(r)
  BY <1>1, <1>2, NextHead
<1>6. ASSUME NEW p, NEW q, NEW k
      PROVE  h = Op(k, p, q) <=> h.op = k /\ h.of = p /\ h.obj = q
  BY <1>3 DEF Access, Op
<1>7. ASSUME NEW p \in Players, NEW q \in Objects
      PROVE  Tells(a, p, q) <=> h.op \in {"show", "hide"} /\ h.of = p /\ h.obj = q
  BY <1>1, <1>6 DEF Tells
<1>8. ASSUME NEW z \in Seq(Access), script' = [script EXCEPT ![a] = z]
      PROVE  script'[a] = z /\ \A t \in Actors \ {a} : script'[t] = script[t]
  BY <1>1, <1>8
<1>9. ASSUME NEW p, NEW q, Opens(script'[a]) PROVE ~Tells(a, p, q)'
  BY <1>9 DEF Opens, Tells, Op
<1> SUFFICES ASSUME NEW p \in Players, NEW q \in Objects, <<p, q>> \notin crossed'
             PROVE  Follows(p, q)'
  BY DEF FollowInv
<1>10. Follows(p, q)
  <2>1. crossed \subseteq crossed'
    BY <1>1 DEF Enqueue, Meet, WakeUp, Rouse, Clear, Scan, Begin, Insert, Erase, Show, Hide, Cross
  <2> QED BY <2>1 DEF FollowInv
<1> HIDE DEF s, h, r
<1>0. p \in Objects
  BY DEF Objects
<1>11. ASSUME \A t \in Actors : \/ script'[t] = script[t]
                                \/ ~Tells(t, p, q) /\ ~Tells(t, p, q)',
              view'[p] = view[p],
              shown' = shown, hollow' = hollow
       PROVE  Follows(p, q)'
  BY <1>10, <1>11, FollowSame
\* Nothing is said to p of q before or after, and neither list nor client changes.
<1>12. ASSUME NEW z \in Seq(Access), script' = [script EXCEPT ![a] = z], Opens(z),
              h.op \notin {"show", "hide"},
              view'[p] = view[p], shown' = shown, hollow' = hollow
       PROVE  Follows(p, q)'
  <2>1. \A t \in Actors \ {a} : script'[t] = script[t]
    BY <1>8, <1>12
  <2>2. ~Tells(a, p, q) /\ ~Tells(a, p, q)'
    BY <1>7, <1>8, <1>9, <1>12
  <2> QED BY <1>11, <1>12, <2>1, <2>2
<1>13. CASE Enqueue(a, h, r)
  <2>1. Opens(r) /\ h.op \notin {"show", "hide"}
    BY <1>5, <1>13 DEF Enqueue, JobKinds
  <2> QED BY <1>4, <1>12, <1>13, <2>1 DEF Enqueue, Rest
<1>14. CASE Meet(a, h, r)
  <2> DEFINE z == IF st[h.of] = "ingame"
                    THEN AddObjectToView(h.of, h.obj) \o AddObjectToView(h.obj, h.of)
                    ELSE <<>>
  <2>1. h.op = "meet" /\ h.of \in Players /\ h.obj \in Players /\ r = <<>>
    BY <1>3, <1>4, <1>14 DEF Meet, Sound, Waking
  <2>2. z \in Seq(Access) /\ Opens(z)
    <3>1. ASSUME NEW x \in Players, NEW y \in Players
          PROVE  AddObjectToView(x, y) \in Seq(Access) /\ AddObjectToView(x, y) # <<>>
      BY AddChained DEF AddObjectToView, Objects
    <3>2. Opens(AddObjectToView(h.of, h.obj)) /\ Opens(<<>>)
      BY OpenTurns
    <3>3. <<>> \in Seq(Access)
      OBVIOUS
    <3> QED BY <2>1, <3>1, <3>2, <3>3, OpensLemma
  <2>3. script' = [script EXCEPT ![a] = z \o r] /\ view' = view /\ shown' = shown /\ hollow' = hollow
    BY <1>14 DEF Meet, Rest
  <2> HIDE DEF z
  <2>4. z \o r = z
    BY <2>1, <2>2
  <2> QED BY <1>12, <2>1, <2>2, <2>3, <2>4
<1>15. CASE WakeUp(a, h, r)
  <2>1. h.op = "wake" /\ Opens(r)
    BY <1>5, <1>15 DEF WakeUp
  <2>2. /\ Waken(h.of, h.obj) \o r \in Seq(Access)
        /\ Opens(Waken(h.of, h.obj) \o r)
    <3>1. h.of \in Monsters /\ h.obj \in Players
      BY <1>3, <2>1 DEF Sound
    <3>2. Waken(h.of, h.obj) \in Seq(Access) /\ Waken(h.of, h.obj) # <<>> /\ Opens(Waken(h.of, h.obj))
      <4>1. \A k \in Waking : Op(k, h.of, h.obj) \in Access
        BY <3>1 DEF Access, Op, Objects
      <4>2. Op("rouse", h.of, h.obj).op = "rouse"
        BY DEF Op
      <4> QED BY <4>1, <4>2 DEF Waken, Waking, Opens
    <3> QED BY <1>4, <3>2, OpensLemma
  <2>3. script' = [script EXCEPT ![a] = r] \/ script' = [script EXCEPT ![a] = Waken(h.of, h.obj) \o r]
    BY <1>15 DEF WakeUp, Rest
  <2>4. view' = view /\ shown' = shown /\ hollow' = hollow
    BY <1>15 DEF WakeUp
  <2> QED BY <1>4, <1>12, <2>1, <2>2, <2>3, <2>4
<1>19. CASE Rouse(a, h, r) \/ Clear(a, h, r) \/ Scan(a, h, r) \/ Begin(a, h, r)
  <2>1. h.op \in Waking /\ h.op \notin {"show", "hide"} /\ h.of # p /\ Opens(r)
    BY <1>3, <1>5, <1>19, ObjectAssumption DEF Rouse, Clear, Scan, Begin, Sound, Waking
  <2>2. view'[p] = view[p]
    <3>1. view' = view \/ \E v : view' = [view EXCEPT ![h.of] = v]
      BY <1>19 DEF Rouse, Clear, Scan, Begin
    <3> QED BY <1>0, <1>1, <2>1, <3>1
  <2>3. shown' = shown /\ hollow' = hollow
    BY <1>19 DEF Rouse, Clear, Scan, Begin
  <2>4. script' = script \/ script' = [script EXCEPT ![a] = r]
    BY <1>19 DEF Rouse, Clear, Scan, Begin, Rest
  <2> QED BY <1>4, <1>11, <1>12, <2>1, <2>2, <2>3, <2>4
<1>16. CASE Insert(a, h, r)
  <2>1. h.op = "insert" /\ script' = [script EXCEPT ![a] = r]
        /\ view' = [view EXCEPT ![h.of] = @ \cup {h.obj}]
        /\ shown' = shown /\ hollow' = hollow
    BY <1>16 DEF Insert, Rest
  <2>2. script'[a] = r /\ r # <<>> /\ Head(r) = Op("show", h.of, h.obj)
        /\ \A t \in Actors \ {a} : script'[t] = script[t]
    BY <1>4, <1>5, <1>8, <2>1
  <2>3. CASE h.of = p /\ h.obj = q
    <3>1. \A t \in Actors \ {a} : ~Tells(t, p, q)'
      <4>1. ~Crossing(a, p, q)
        BY <1>16, <2>3 DEF Insert, Cross
      <4> QED BY <2>2, <4>1 DEF Crossing, Tells
    <3>2. Tells(a, p, q)' /\ Head(script'[a]).op = "show"
      BY <2>2, <2>3 DEF Tells, Op
    <3>3. q \in view'[p]
      BY <1>0, <1>1, <2>1, <2>3
    <3> QED BY <3>1, <3>2, <3>3 DEF Follows
  <2>4. CASE ~(h.of = p /\ h.obj = q)
    <3>1. ~Tells(a, p, q) /\ ~Tells(a, p, q)'
      BY <1>7, <2>1, <2>2, <2>4 DEF Tells, Op
    <3>2. q \in view'[p] <=> q \in view[p]
      BY <1>1, <1>3, <2>1, <2>4
    <3> QED BY <1>10, <2>1, <2>2, <3>1, <3>2, FollowSame
  <2> QED BY <2>3, <2>4
<1>17. CASE Erase(a, h, r)
  <2>1. h.op = "erase" /\ view' = [view EXCEPT ![h.of] = @ \ {h.obj}]
        /\ shown' = shown /\ hollow' = hollow
        /\ r # <<>> /\ Head(r) = Op("hide", h.of, h.obj)
    BY <1>5, <1>17 DEF Erase
  <2>2. CASE h.obj \notin view[h.of]
    <3>1. script' = [script EXCEPT ![a] = Tail(r)]
      BY <1>17, <2>2 DEF Erase, Rest
    <3>2. Tail(r) \in Seq(Access) /\ Opens(Tail(r))
      BY <1>4, <2>1, NextHead, TailChained DEF Op
    <3>3. view'[p] = view[p]
      BY <1>0, <1>1, <2>1, <2>2
    <3> QED BY <1>12, <2>1, <3>1, <3>2, <3>3
  <2>3. CASE h.obj \in view[h.of]
    <3>1. script'[a] = r /\ \A t \in Actors \ {a} : script'[t] = script[t]
      BY <1>4, <1>8, <1>17, <2>3 DEF Erase, Rest
    <3>2. CASE h.of = p /\ h.obj = q
      <4>1. \A t \in Actors \ {a} : ~Tells(t, p, q)'
        <5>1. ~Crossing(a, p, q)
          BY <1>17, <2>3, <3>2 DEF Erase, Cross
        <5> QED BY <3>1, <5>1 DEF Crossing, Tells
      <4>2. Tells(a, p, q)' /\ Head(script'[a]).op # "show"
        BY <2>1, <3>1, <3>2 DEF Tells, Op
      <4>3. q \notin view'[p]
        BY <1>0, <1>1, <2>1, <3>2
      <4> QED BY <4>1, <4>2, <4>3 DEF Follows
    <3>3. CASE ~(h.of = p /\ h.obj = q)
      <4>1. ~Tells(a, p, q) /\ ~Tells(a, p, q)'
        BY <1>7, <2>1, <3>1, <3>3 DEF Tells, Op
      <4>2. q \in view'[p] <=> q \in view[p]
        BY <1>1, <1>3, <2>1, <3>3
      <4> QED BY <1>10, <2>1, <3>1, <4>1, <4>2, FollowSame
    <3> QED BY <3>2, <3>3
  <2> QED BY <2>2, <2>3
<1>18. CASE Show(a, h, r) \/ Hide(a, h, r)
  <2>1. h.op \in {"show", "hide"} /\ h.of \in Players /\ h.obj \in Objects
        /\ view' = view /\ script' = [script EXCEPT ![a] = r]
    BY <1>3, <1>18 DEF Show, Hide, Rest, Sound, Access, Waking
  <2>2. script'[a] = r /\ Opens(r) /\ \A t \in Actors \ {a} : script'[t] = script[t]
    BY <1>4, <1>5, <1>8, <2>1
  <2>3. ~Tells(a, p, q)'
    BY <1>9, <2>2
  <2>4. CASE h.of = p /\ h.obj = q
    <3>1. Tells(a, p, q)
      BY <1>7, <2>1, <2>4
    <3>2. \A t \in Actors : ~Tells(t, p, q)'
      <4>1. \A t \in Actors \ {a} : ~Tells(t, p, q)
        BY <1>10, <3>1 DEF Follows
      <4> QED BY <2>2, <2>3, <4>1 DEF Tells
    <3>3. h.op = "show" <=> q \in view[p]
      BY <1>10, <3>1 DEF Follows, h
    <3>4. (shown'[p][q] # Nowhere <=> q \in view'[p]) \/ <<p, q>> \in hollow'
      <4>1. CASE Show(a, h, r)
        BY <1>1, <2>1, <2>4, <3>3, <4>1, PlaceAssumption DEF Show
      <4>2. CASE Hide(a, h, r)
        BY <1>1, <2>1, <2>4, <3>3, <4>2 DEF Hide
      <4> QED BY <1>18, <4>1, <4>2
    <3> QED BY <3>2, <3>4 DEF Follows
  <2>5. CASE ~(h.of = p /\ h.obj = q)
    <3>1. ~Tells(a, p, q)
      BY <1>7, <2>5
    <3>2. shown'[p][q] = shown[p][q]
      BY <1>1, <1>18, <2>1, <2>5 DEF Show, Hide
    <3>3. <<p, q>> \in hollow' <=> <<p, q>> \in hollow
      BY <1>18, <2>5 DEF Show, Hide
    <3> QED BY <1>10, <2>1, <2>2, <2>3, <3>1, <3>2, <3>3, FollowSame
  <2> QED BY <2>4, <2>5
<1> QED BY <1>1, <1>13, <1>14, <1>15, <1>16, <1>17, <1>18, <1>19

LEMMA FollowInit == ViewInit => FollowInv
<1> SUFFICES ASSUME ViewInit, NEW p \in Players, NEW q \in Objects PROVE Follows(p, q)
  BY DEF FollowInv
<1>1. \A t \in Actors : ~Tells(t, p, q)
  BY DEF ViewInit, Tells
<1>2. pos[q] \in Positions /\ Nowhere \notin Positions
  BY StartLemma, PlaceAssumption DEF ViewInit
<1>3. shown[p][q] = IF q \in view[p] THEN pos[q] ELSE Nowhere
  BY DEF ViewInit
<1> QED BY <1>1, <1>2, <1>3 DEF Follows

LEMMA StutterFollows == FollowInv /\ UNCHANGED vars => FollowInv'
BY DEF FollowInv, Follows, Tells, vars, local, history

\* A client shows what its player's list says, once the packet is out, unless two
\* threads changed the list at once (AddObjectToView and RemoveObjectFromView from
\* LoginPacket, MonsterRespawn, SendNpcKillMsg) or the monster had no health.
THEOREM ClientsFollow == MonstersSpec => []ClientFollows
<1>1. ViewInit => TypeInv /\ FollowInv
  BY InitTypes, InitSolo, FollowInit DEF TypeInv
<1>2. TypeInv /\ FollowInv /\ [MonstersNext]_vars => (TypeInv /\ FollowInv)'
  BY StepSolo, FollowOutside, FollowExecute, SomeActs, StutterFollows
<1>3. TypeInv /\ FollowInv => ClientFollows
  <2> SUFFICES ASSUME TypeInv, FollowInv, NEW p \in Players \cap cast, NEW q \in cast
               PROVE  \/ shown[p][q] # Nowhere <=> q \in view[p]
                      \/ <<p, q>> \in crossed \cup hollow
                      \/ Pending(p, q)
    BY DEF ClientFollows
  <2>1. q \in Objects
    BY CastLemma DEF TypeInv, Typed, ViewTypes
  <2>2. ASSUME NEW t \in Actors, Tells(t, p, q) PROVE Pending(p, q)
    <3>1. script[t] \in Seq(Access) /\ script[t] # <<>>
      BY <2>2 DEF Tells, TypeInv, Typed, ViewTypes
    <3>2. 1 \in 1..Len(script[t]) /\ Head(script[t]) = script[t][1]
      BY <3>1, HeadLemma
    <3> QED BY <2>2, <3>2 DEF Tells, Pending
  <2> QED BY <2>1, <2>2 DEF FollowInv, Follows
<1> QED BY <1>1, <1>2, <1>3, PTL DEF MonstersSpec
-----------------------------------------------------------------------------
(* Who came last.                                                          *)

\* y took his place after x took his, and neither missed the other then, nor is one of
\* them a monster that two threads have handled at once.
Pair(x, y) == {x, y} \cap doubled = {} /\ <<x, y>> \in later /\ ~Missed(x, y)

Settles == {"enter", "greet", "register", "appear"}
Looks == {"look"} \cup Sighted

\* A step in which a takes his place, and one in which nobody does.
Comes(a) ==
  /\ TakePlace(a, IF phase'[a] \in {"enter", "appear"} THEN Busy(a) ELSE Settling)
  /\ phase'[a] \in {"enter", "leave", "check", "appear"}
  /\ a \in Players => phase'[a] # "appear"
Rests(a) ==
  /\ UNCHANGED <<pos, later>> /\ missed \subseteq missed'
  /\ phase'[a] \in Settles => phase[a] \in Settles
  /\ Registered(a)' => Registered(a) \/ phase[a] \in Settles
  /\ \A x \in Objects \ {a} : steady'[x] = steady[x]
  /\ phase'[a] \in Looks => Check(a, a) \/ (phase[a] \in Looks /\ steady'[a] = steady[a])

LEMMA ComesOrRests == ASSUME TypeInv, NEW a \in Objects, Step(a) PROVE Comes(a) \/ Rests(a)
<1>0. a \in Players => phase[a] \in Phases /\ phase'[a] \in Phases
  <2>1. MonstersNext
    BY DEF MonstersNext, ViewNext, Step, Handlers
  <2>2. Typed /\ Typed'
    BY <2>1, StepTypes DEF TypeInv
  <2> QED BY <2>2 DEF Typed, ShapeInv, PhaseInv
<1> USE DEF TypeInv, Typed, ViewTypes, world, lair, local, history, At, Goto
<1>18. a \in Actors
  BY DEF Actors
<1>1. ASSUME NEW at, Stands(a, at) PROVE Comes(a)
  BY <1>18, <1>1 DEF Stands, Comes
<1>2. ASSUME NEW p \in Players, p = a, Entering(p) PROVE Comes(a) \/ Rests(a)
  <2>1. CASE Login(p)
    BY <1>18, <1>2, <2>1 DEF Login, Comes
  <2>2. CASE Enter(p)
    BY <1>18, <1>2, <2>2 DEF Enter, Rests, Settles, Looks, Sighted, Registered
  <2>3. CASE Greet(p)
    BY <1>18, <1>2, <2>3 DEF Greet, Rests, Settles, Looks, Sighted, Registered
  <2>4. CASE Greeted(p)
    BY <1>18, <1>2, <2>4 DEF Greeted, Rests, Settles, Looks, Sighted, Registered
  <2>5. CASE Register(p)
    BY <1>18, <1>2, <2>5 DEF Register, Rests, Settles, Looks, Sighted, Registered
  <2> QED BY <1>2, <2>1, <2>2, <2>3, <2>4, <2>5 DEF Entering
<1>3. CASE Arrives(a)
  BY <1>18, <1>3 DEF Arrives, Comes
<1>4. CASE Return(a, a)
  BY <1>0, <1>18, <1>4 DEF Return, Comes, Phases
<1>5. CASE Leave(a, a)
  BY <1>18, <1>5 DEF Leave, Rests, Settles, Looks, Sighted, Registered
<1>6. ASSUME Stays(a), UNCHANGED later, missed \subseteq missed',
             \A x \in Objects \ {a} : steady'[x] = steady[x],
             phase'[a] = "appear" => phase[a] = "appear"
      PROVE  Rests(a)
  <2>1. phase'[a] \in Settles => phase[a] \in Settles
    BY <1>6 DEF Stays, Moving, Settles
  <2>2. Registered(a)' => Registered(a)
    BY <1>6 DEF Stays, Moving, Registered, SectionOf, SectionSize
  <2>3. phase'[a] \in Looks => Check(a, a) \/ (phase[a] \in Looks /\ steady'[a] = steady[a])
    BY <1>6 DEF Stays, Looks, Sighted, Visit, Look, Looked, Seen
  <2> QED BY <1>6, <2>1, <2>2, <2>3 DEF Stays, Rests
<1> HIDE DEF TypeInv, Typed, ViewTypes, world, lair, local, history, At, Goto
<1>17. \/ Comes(a) \/ Rests(a)
       \/ Stays(a) /\ ~Return(a, a) /\ ~(a \in Players /\ Login(a)) /\ ~Arrives(a) /\ ~(\E at : Stands(a, at))
  BY <1>1, <1>2, <1>3, <1>4, <1>5, OwnStep DEF Entering
<1> SUFFICES ASSUME Stays(a), ~Return(a, a), ~(a \in Players /\ Login(a)), ~Arrives(a),
                    ~(\E at : Stands(a, at))
             PROVE  /\ UNCHANGED later /\ missed \subseteq missed'
                    /\ \A x \in Objects \ {a} : steady'[x] = steady[x]
                    /\ phase'[a] = "appear" => phase[a] = "appear"
  BY <1>6, <1>17
<1> USE DEF TypeInv, Typed, ViewTypes, world, lair, local, history, At, Goto
<1>7. CASE Execute(a) \/ Check(a, a) \/ Visit(a, a) \/ Look(a, a) \/ Looked(a)
  BY <1>18, <1>7 DEF Execute, Check, Visit, Look, Looked
<1>8. CASE Telling(a)
  BY <1>18, <1>8 DEF Telling, Tell, Told, Drop, Dropped
<1>9. CASE a \in Players /\ (RunJob(a) \/ Leaving(a))
  BY <1>18, <1>9 DEF RunJob, Leaving, Logout, Bye, Gone
<1>10. CASE a \in Players /\ Killing(a)
  BY <1>18, <1>10 DEF Killing, Hit, Kill, Mourn, Mourned, Bury, Buried
<1>11. CASE Sleep(a, a) \/ Seen(a) \/ Posting(a, a)
  BY <1>18, <1>11 DEF Sleep, Seen, Posting, Post, Posted, Part, Parted
<1>12. CASE Rise(a, a) \/ Heal(a, a) \/ Appear(a, a) \/ Appeared(a, a)
  BY <1>18, <1>12 DEF Rise, Heal, Appear, Appeared
<1>19. CASE Update(a, a) \/ Again(a, a)
  <2>1. UNCHANGED <<later, missed, steady>>
    BY <1>19 DEF Update, Again
  <2>2. phase' = phase \/ \E ph \in {"idle", "step", "next"} : phase' = [phase EXCEPT ![a] = ph]
    BY <1>19 DEF Update, Again
  <2> QED BY <1>18, <2>1, <2>2
<1>13. CASE Leave(a, a)
  BY <1>18, <1>13 DEF Leave
<1>14. CASE a \in Players /\ Entering(a)
  BY <1>18, <1>14 DEF Entering, Enter, Greet, Greeted, Register
<1> HIDE DEF TypeInv, Typed, ViewTypes, world, lair, local, history, At, Goto
<1>15. CASE a \in Players /\ ViewStep(a)
  BY <1>7, <1>8, <1>9, <1>10, <1>13, <1>14, <1>15, StandStep DEF ViewStep, Stirring, Checking, Move, Die
<1>16. CASE a \in Monsters /\ MonsterStep(a, a)
  BY <1>7, <1>11, <1>12, <1>13, <1>16, <1>19, StandStep DEF MonsterStep, Walking, Watching, Respawning
<1> QED BY <1>15, <1>16 DEF Step

\* Who is of interest takes part, and is not settling yet.
CastInv == \A x, y \in Objects \ doubled : <<x, y>> \in later => x \in cast /\ x # y
SettledInv == \A x, y \in Objects : Pair(x, y) => phase[x] \notin Settles

\* Whoever looks around knows those who were there before him.
KnownInv ==
  \A x, y \in Objects : Pair(x, y) /\ phase[y] \in Looks /\ Registered(x) => x \in steady[y]

LastInv == CastInv /\ SettledInv /\ KnownInv

\* Either y has just come, and x was not settling (nor busy, when y has not seen to his
\* neighbours himself); or both stay where they were.
LEMMA PairStep ==
  ASSUME TypeInv, LastInv, NEW a \in Objects, Step(a),
         NEW x \in Objects, NEW y \in Objects, Pair(x, y)'
  PROVE  /\ x \in cast /\ x # y
         /\ \/ /\ a = y /\ Comes(a) /\ phase[x] \notin Settles
               /\ phase'[y] \in {"enter", "appear"} => x \notin Busy(y)
            \/ /\ Pair(x, y) /\ pos'[x] = pos[x] /\ pos'[y] = pos[y]
               /\ Registered(x)' => Registered(x)
               /\ a \in {x, y} => Rests(a)
<1>1. Spares(a) /\ {x, y} \cap doubled = {} /\ x \in Objects \ doubled /\ y \in Objects \ doubled
  BY SparesOthers DEF Spares, Pair
<1>2. /\ phase \in [Actors -> Phases \cup MonsterPhases]
      /\ later \subseteq Objects \X Objects
  BY DEF TypeInv, Typed, ViewTypes
<1>3. CASE Comes(a)
  <2> DEFINE beside == IF phase'[a] \in {"enter", "appear"} THEN Busy(a) ELSE Settling
  <2>1. /\ later' = (later \ {<<a, q>> : q \in Objects}) \cup {<<q, a>> : q \in cast \ {a}}
        /\ missed' = {m \in missed : a \notin {m[1], m[2]}} \cup {<<a, q>> : q \in beside \ {a}}
    BY <1>3 DEF Comes, TakePlace
  <2>2. x # a
    BY <2>1 DEF Pair
  <2>3. CASE a = y
    <3>1. x \in cast /\ x # y
      BY <1>1, <2>1, <2>2, <2>3 DEF Pair, LastInv, CastInv
    <3>2. x \notin beside
      BY <2>1, <2>2, <2>3 DEF Pair, Missed
    <3>3. phase[x] \notin Settles
      BY <3>2 DEF Settling, Busy, Settles
    <3> QED BY <1>3, <2>3, <3>1, <3>2, <3>3
  <2>4. CASE a # y
    <3>1. <<x, y>> \in later
      BY <2>1, <2>2, <2>4 DEF Pair
    <3>2. ASSUME NEW u \in Objects \ {a}, NEW v \in Objects \ {a}
          PROVE  <<u, v>> \in missed => <<u, v>> \in missed'
      BY <2>1, <3>2
    <3>3. Pair(x, y)
      BY <1>1, <2>2, <2>4, <3>1, <3>2 DEF Pair, Missed
    <3>4. x \in cast /\ x # y
      BY <1>1, <3>1 DEF LastInv, CastInv
    <3>5. Registered(x)' => Registered(x)
      BY <1>1, <2>2 DEF Spares, Registered, SectionOf, SectionSize
    <3> QED BY <1>1, <2>2, <2>4, <3>3, <3>4, <3>5 DEF Spares
  <2> QED BY <2>3, <2>4
<1>4. CASE Rests(a)
  <2>1. Pair(x, y) /\ pos' = pos
    BY <1>1, <1>4 DEF Rests, Pair, Missed
  <2>2. x \in cast /\ x # y /\ phase[x] \notin Settles
    BY <1>1, <2>1 DEF LastInv, CastInv, SettledInv, Pair
  <2>3. Registered(x)' => Registered(x)
    <3>1. CASE x = a
      BY <1>4, <2>2, <3>1 DEF Rests
    <3>2. CASE x # a
      BY <1>1, <3>2 DEF Spares, Registered, SectionOf, SectionSize
    <3> QED BY <3>1, <3>2
  <2> QED BY <1>4, <2>1, <2>2, <2>3
<1> QED BY <1>3, <1>4, ComesOrRests

LEMMA LastStep ==
  ASSUME TypeInv, LastInv, NEW a \in Objects, Step(a)
  PROVE  LastInv'
<1>1. Spares(a) /\ cast' = cast /\ Objects \ doubled' \subseteq Objects \ doubled
  BY SparesOthers DEF Spares
<1>2. /\ phase \in [Actors -> Phases \cup MonsterPhases]
      /\ steady \in [Objects -> SUBSET Objects]
  BY DEF TypeInv, Typed, ViewTypes
<1>3. CastInv'
  <2> SUFFICES ASSUME NEW x \in Objects \ doubled', NEW y \in Objects \ doubled', <<x, y>> \in later'
               PROVE  x \in cast /\ x # y
    BY <1>1 DEF CastInv
  <2>1. CASE Comes(a)
    BY <1>1, <2>1 DEF Comes, TakePlace, LastInv, CastInv
  <2>2. CASE Rests(a)
    BY <1>1, <2>2 DEF Rests, LastInv, CastInv
  <2> QED BY <2>1, <2>2, ComesOrRests
<1> SUFFICES ASSUME NEW x \in Objects, NEW y \in Objects, Pair(x, y)'
             PROVE  /\ phase'[x] \notin Settles
                    /\ phase'[y] \in Looks /\ Registered(x)' => x \in steady'[y]
  BY <1>3 DEF LastInv, SettledInv, KnownInv
<1>4. CASE a = y /\ Comes(a) /\ phase[x] \notin Settles /\ x # y
  <2>1. phase'[x] = phase[x]
    BY <1>1, <1>4 DEF Spares
  <2>2. phase'[y] \notin Looks
    BY <1>4 DEF Comes, Looks, Sighted
  <2> QED BY <1>4, <2>1, <2>2
<1>5. CASE /\ Pair(x, y) /\ x \in cast /\ x # y
           /\ Registered(x)' => Registered(x)
           /\ a \in {x, y} => Rests(a)
  <2>1. phase[x] \notin Settles
    BY <1>5 DEF LastInv, SettledInv
  <2>2. phase'[x] \notin Settles
    BY <1>1, <1>5, <2>1 DEF Spares, Rests
  <2>3. ASSUME phase'[y] \in Looks, Registered(x)' PROVE x \in steady'[y]
    <3>1. phase[y] \in Looks => x \in steady[y]
      BY <1>5, <2>3 DEF LastInv, KnownInv
    <3>2. CASE y = a
      <4>1. CASE Check(a, a)
        BY <1>2, <1>5, <2>3, <3>2, <4>1 DEF Check
      <4> QED BY <1>5, <2>3, <3>1, <3>2, <4>1 DEF Rests
    <3>3. CASE y # a
      <4>1. phase[y] \in Looks
        BY <1>1, <2>3, <3>3 DEF Spares
      <4>2. steady'[y] = steady[y] \/ steady'[y] = steady[y] \ {a}
        BY <1>2, <3>3, ComesOrRests DEF Comes, TakePlace, Rests
      <4>3. x = a => steady'[y] = steady[y]
        BY <1>5, <3>3 DEF Rests
      <4> QED BY <3>1, <4>1, <4>2, <4>3
    <3> QED BY <3>2, <3>3
  <2> QED BY <2>2, <2>3
<1> QED BY <1>4, <1>5, PairStep

LEMMA LastInit == ViewInit => LastInv
BY DEF ViewInit, LastInv, CastInv, SettledInv, KnownInv, Pair

LEMMA PairAside ==
  ASSUME Aside, NEW x \in Objects, NEW y \in Objects, Pair(x, y)'
  PROVE  /\ Pair(x, y) /\ x \in Objects \ doubled' /\ y \in Objects \ doubled'
         /\ pos'[x] = pos[x] /\ pos'[y] = pos[y]
         /\ phase'[x] = phase[x] /\ phase'[y] = phase[y]
         /\ Registered(x)' <=> Registered(x)
         /\ x \in steady'[y] <=> x \in steady[y]
<1>1. /\ x \in Objects \ doubled' /\ y \in Objects \ doubled' /\ {x, y} \cap doubled = {}
      /\ <<x, y>> \in later' /\ <<x, y>> \notin missed' /\ <<y, x>> \notin missed'
  BY DEF Pair, Missed, Aside, AsideOwn
<1>2. Pair(x, y)
  BY <1>1 DEF Aside, AsidePairs, Pair, Missed
<1>3. /\ pos'[x] = pos[x] /\ pos'[y] = pos[y] /\ sect'[x] = sect[x]
      /\ phase'[x] = phase[x] /\ phase'[y] = phase[y] /\ st' = st
  BY <1>1 DEF Aside, AsideOwn
<1>4. Registered(x)' <=> Registered(x)
  BY <1>3 DEF Registered, SectionOf, SectionSize
<1>5. x \in steady'[y] <=> x \in steady[y]
  BY <1>1 DEF Aside, AsidePairs
<1> QED BY <1>1, <1>2, <1>3, <1>4, <1>5

LEMMA LastAside == LastInv /\ Aside => LastInv'
<1> SUFFICES ASSUME LastInv, Aside PROVE LastInv'
  OBVIOUS
<1>1. ASSUME NEW x \in Objects \ doubled', NEW y \in Objects \ doubled', <<x, y>> \in later'
      PROVE  x \in cast' /\ x # y
  <2>1. x \in Objects \ doubled /\ y \in Objects \ doubled /\ cast' = cast /\ <<x, y>> \in later
    BY <1>1 DEF Aside, AsideOwn, AsidePairs
  <2> QED BY <2>1 DEF LastInv, CastInv
<1>2. ASSUME NEW x \in Objects, NEW y \in Objects, Pair(x, y)'
      PROVE  /\ phase'[x] \notin Settles
             /\ phase'[y] \in Looks /\ Registered(x)' => x \in steady'[y]
  BY <1>2, PairAside DEF LastInv, SettledInv, KnownInv
<1>3. CastInv'
  BY <1>1 DEF CastInv
<1>4. SettledInv' /\ KnownInv'
  BY <1>2 DEF SettledInv, KnownInv
<1> QED BY <1>3, <1>4 DEF LastInv

-----------------------------------------------------------------------------
(* What is left of a turn.                                                 *)

In(s, x) == \E i \in 1..Len(s) : s[i] = x
Has(t, x) == In(script[t], x)

LEMMA InHeadTail ==
  ASSUME NEW S, NEW s \in Seq(S), s # <<>>, NEW x
  PROVE  /\ In(s, Head(s))
         /\ In(s, x) => x = Head(s) \/ In(Tail(s), x)
         /\ In(Tail(s), x) => In(s, x)
<1> DEFINE t == Tail(s)
<1>1. /\ t \in Seq(S) /\ Len(t) = Len(s) - 1 /\ \A i \in 1..Len(t) : t[i] = s[i + 1]
      /\ Len(s) \in Nat \ {0} /\ Len(t) \in Nat
      /\ Head(s) = s[1] /\ 1 \in 1..Len(s)
  OBVIOUS
<1> HIDE DEF t
<1>2. ASSUME NEW i \in 1..Len(s), i # 1 PROVE i - 1 \in 1..Len(t) /\ t[i - 1] = s[i]
  BY <1>1, <1>2
<1>3. ASSUME NEW j \in 1..Len(t) PROVE j + 1 \in 1..Len(s) /\ t[j] = s[j + 1]
  BY <1>1
<1>4. In(s, Head(s))
  BY <1>1 DEF In
<1>5. In(s, x) => x = Head(s) \/ In(t, x)
  BY <1>1, <1>2 DEF In
<1>6. In(t, x) => In(s, x)
  BY <1>3 DEF In
<1> QED BY <1>4, <1>5, <1>6 DEF t

LEMMA InConcat ==
  ASSUME NEW S, NEW s \in Seq(S), NEW t \in Seq(S), NEW x
  PROVE  In(s \o t, x) <=> In(s, x) \/ In(t, x)
<1> DEFINE c == s \o t
<1>1. /\ c \in Seq(S) /\ Len(c) = Len(s) + Len(t)
      /\ \A i \in 1..Len(c) : c[i] = IF i <= Len(s) THEN s[i] ELSE t[i - Len(s)]
      /\ Len(s) \in Nat /\ Len(t) \in Nat
  OBVIOUS
<1> HIDE DEF c
<1>2. ASSUME NEW i \in 1..Len(s) PROVE i \in 1..Len(c) /\ c[i] = s[i]
  BY <1>1
<1>3. ASSUME NEW j \in 1..Len(t) PROVE j + Len(s) \in 1..Len(c) /\ c[j + Len(s)] = t[j]
  <2>1. ASSUME NEW m \in Nat, NEW n \in Nat, NEW d \in 1..n
        PROVE  d + m \in 1..(m + n) /\ ~(d + m <= m) /\ (d + m) - m = d
    OBVIOUS
  <2>2. /\ j + Len(s) \in 1..Len(c) /\ ~(j + Len(s) <= Len(s)) /\ (j + Len(s)) - Len(s) = j
    BY <1>1, <2>1
  <2> QED BY <1>1, <2>2
<1>4. ASSUME NEW k \in 1..Len(c)
      PROVE  (k \in 1..Len(s) /\ c[k] = s[k]) \/ (k - Len(s) \in 1..Len(t) /\ c[k] = t[k - Len(s)])
  BY <1>1
<1> QED BY <1>2, <1>3, <1>4 DEF c, In

LEMMA InOne == ASSUME NEW y, NEW x PROVE In(<<y>>, x) <=> x = y
<1>1. <<y>> \in Seq({y})
  OBVIOUS
<1>2. PICK s \in Seq({y}) : s = <<y>>
  BY <1>1
<1>3. Len(s) = 1 /\ s[1] = y
  BY <1>2
<1>4. In(s, x) <=> x = y
  BY <1>3 DEF In
<1> QED BY <1>2, <1>4

LEMMA InNone == ASSUME NEW x PROVE ~In(<<>>, x)
BY DEF In

LEMMA InTwo == ASSUME NEW y, NEW z, NEW x PROVE In(<<y, z>>, x) <=> x \in {y, z}
<1>1. y \in {y, z} /\ z \in {y, z}
  OBVIOUS
<1>2. <<y, z>> \in Seq({y, z})
  BY <1>1
<1>3. PICK s \in Seq({y, z}) : s = <<y, z>>
  BY <1>2
<1>4. Len(s) = 2 /\ s[1] = y /\ s[2] = z
  BY <1>3
<1>5. In(s, x) <=> x \in {y, z}
  BY <1>4 DEF In
<1> QED BY <1>3, <1>5

LEMMA WakenAccess ==
  ASSUME NEW m \in Monsters, NEW p \in Players
  PROVE  /\ Waken(m, p) \in Seq(Access) /\ In(Waken(m, p), Op("rouse", m, p))
         /\ \A x : In(Waken(m, p), x) => x.op \in Waking /\ x.of = m /\ x.obj = p
<1>1. \A k \in Waking : Op(k, m, p) \in Access
  BY DEF Access, Op, Objects
<1>2. PICK s : s = Waken(m, p)
  OBVIOUS
<1>3. s \in Seq(Access)
  BY <1>1, <1>2 DEF Waken, Waking
<1>4. /\ Len(s) = 4 /\ s[1] = Op("rouse", m, p) /\ s[2] = Op("clear", m, p)
      /\ s[3] = Op("scan", m, p) /\ s[4] = Op("start", m, p)
  BY <1>2 DEF Waken
<1>5. In(s, Op("rouse", m, p))
  BY <1>4 DEF In
<1>6. ASSUME NEW i \in 1..Len(s) PROVE s[i].op \in Waking /\ s[i].of = m /\ s[i].obj = p
  <2>1. i \in {1, 2, 3, 4}
    BY <1>4
  <2> QED BY <1>4, <2>1 DEF Op, Waking
<1> QED BY <1>2, <1>3, <1>5, <1>6 DEF In

\* Nothing but a packet that would tell nothing is left out.
LEMMA HasKept ==
  ASSUME TypeInv, NEW a \in Actors, Execute(a), NEW x, Has(a, x), x.op # "hide"
  PROVE  x = Head(script[a]) \/ Has(a, x)'
<1> DEFINE s == script[a]
           h == Head(s)
           r == Tail(s)
<1>1. /\ s # <<>> /\ s \in Seq(Access) /\ Chained(s)
      /\ script \in [Actors -> Seq(Access)]
  BY DEF Execute, TypeInv, Typed, ViewTypes, ShapeInv, ScriptInv
<1>2. /\ h.op = "meet" => r = <<>>
      /\ h.op = "erase" => r # <<>> /\ Head(r) = Op("hide", h.of, h.obj)
      /\ r \in Seq(Access)
  BY <1>1, TailChained
<1>3. x = h \/ In(r, x)
  BY <1>1, InHeadTail DEF Has
<1>4. \/ Enqueue(a, h, r) \/ Meet(a, h, r) \/ WakeUp(a, h, r)
      \/ Rouse(a, h, r) \/ Clear(a, h, r) \/ Scan(a, h, r) \/ Begin(a, h, r)
      \/ Insert(a, h, r) \/ Erase(a, h, r) \/ Show(a, h, r) \/ Hide(a, h, r)
  BY DEF Execute
<1> HIDE DEF h, r, s
<1>5. CASE Meet(a, h, r)
  BY <1>2, <1>3, <1>5, InNone DEF Meet, h, s
<1>6. CASE script'[a] = r
  BY <1>3, <1>6 DEF h, s, Has
<1>7. CASE script'[a] = Tail(r) /\ Erase(a, h, r)
  <2>1. r # <<>> /\ Head(r).op = "hide"
    BY <1>2, <1>7 DEF Erase, Op
  <2> QED BY <1>2, <1>3, <1>7, <2>1, InHeadTail DEF h, s, Has
<1>8. Erase(a, h, r) => script'[a] = r \/ script'[a] = Tail(r)
  BY <1>1, <1>2 DEF Erase, Rest
<1>9. ASSUME \/ Enqueue(a, h, r) \/ Rouse(a, h, r) \/ Clear(a, h, r) \/ Begin(a, h, r)
             \/ Insert(a, h, r) \/ Show(a, h, r) \/ Hide(a, h, r)
      PROVE  script'[a] = r
  BY <1>1, <1>9 DEF Enqueue, Rouse, Clear, Begin, Insert, Show, Hide, Rest
<1>10. Scan(a, h, r) => script'[a] = r \/ script'[a] = script[a]
  BY <1>1 DEF Scan, Rest
<1>11. CASE WakeUp(a, h, r)
  <2>1. Sound(h) /\ h.op = "wake"
    BY <1>1, <1>11, TailChained DEF WakeUp, h, s
  <2>2. Waken(h.of, h.obj) \in Seq(Access)
    BY <2>1, WakenAccess DEF Sound
  <2>3. script'[a] = r \/ script'[a] = Waken(h.of, h.obj) \o r
    BY <1>1, <1>11 DEF WakeUp, Rest
  <2>4. In(r, x) => In(Waken(h.of, h.obj) \o r, x)
    BY <1>2, <2>2, InConcat
  <2> QED BY <1>3, <2>3, <2>4 DEF h, s, Has
<1>12. CASE script'[a] = script[a]
  BY <1>12 DEF Has
<1> QED BY <1>4, <1>5, <1>6, <1>7, <1>8, <1>9, <1>10, <1>11, <1>12
-----------------------------------------------------------------------------
(* Monsters are woken.                                                     *)

\* A dead monster is not woken; its respawn puts it into the lists itself.
Doomed(m) == life[m] = "dead" \/ phase[m] \in {"rise", "return"}

\* p has yet to look around, or to see to m.
Coming(p, m) ==
  \/ phase[p] \in {"enter", "leave", "arrive", "check", "look"}
  \/ phase[p] \in {"greet", "tell"} /\ m \in todo[p]
  \/ Has(p, Op("wake", m, p)) \/ Has(p, Op("rouse", m, p))

WakeInv ==
  \A m \in Monsters, p \in Players :
    Pair(m, p) /\ Registered(m) /\ Near(pos[p], pos[m]) => m \in awake \/ Doomed(m) \/ Coming(p, m)

\* Only a monster that falls asleep stops being awake.
LEMMA AwakeStep ==
  ASSUME TypeInv, NEW a \in Objects, Step(a), NEW m \in Monsters, m \in awake
  PROVE  m \in awake' \/ (a = m /\ Sleep(a, a))
<1> USE DEF lair
<1>1. CASE Execute(a)
  BY <1>1 DEF Execute, Enqueue, Meet, WakeUp, Rouse, Clear, Scan, Begin, Insert, Erase, Show, Hide
<1>2. CASE Check(a, a) \/ Visit(a, a) \/ Look(a, a) \/ Looked(a)
  BY <1>2 DEF Check, Visit, Look, Looked
<1>3. CASE Telling(a)
  BY <1>3 DEF Telling, Tell, Told, Drop, Dropped
<1>4. CASE RunJob(a) \/ Leaving(a)
  BY <1>4 DEF RunJob, Leaving, Logout, Bye, Gone
<1>5. CASE Killing(a)
  BY <1>5 DEF Killing, Hit, Kill, Mourn, Mourned, Bury, Buried
<1>6. CASE Sleep(a, a)
  BY <1>6 DEF Sleep
<1>7. CASE Seen(a) \/ Posting(a, a)
  BY <1>7 DEF Seen, Posting, Post, Posted, Part, Parted
<1>8. CASE Respawning(a, a)
  BY <1>8 DEF Respawning, Rise, Heal, Return, Appear, Appeared
<1>9. CASE Entering(a)
  BY <1>9 DEF Entering, Login, Enter, Greet, Greeted, Register
<1>10. CASE Leave(a, a) \/ Arrives(a) \/ \E at : Stands(a, at)
  BY <1>10 DEF Leave, Arrives, Stands
<1>13. CASE Update(a, a) \/ Again(a, a)
  BY <1>13 DEF Update, Again
<1>11. CASE a \in Players /\ ViewStep(a)
  BY <1>1, <1>2, <1>3, <1>4, <1>5, <1>9, <1>10, <1>11, StandStep
     DEF ViewStep, Stirring, Checking, Move, Die
<1>12. CASE a \in Monsters /\ MonsterStep(a, a)
  BY <1>1, <1>2, <1>6, <1>7, <1>8, <1>10, <1>12, <1>13, StandStep DEF MonsterStep, Walking, Watching
<1> QED BY <1>11, <1>12 DEF Step

\* What is dead stays so until it rises.
LEMMA DoomedStep ==
  ASSUME TypeInv, NEW a \in Objects, Step(a), NEW m \in Monsters, Doomed(m), a = m => Rests(a)
  PROVE  Doomed(m)'
<1> USE DEF lair, local
<1>0. /\ phase \in [Actors -> Phases \cup MonsterPhases]
      /\ life \in [Monsters -> {"alive", "down", "dead"}]
      /\ m \in Objects /\ Objects \subseteq Actors
      /\ \A p \in Players : phase[p] \in Phases
  BY DEF TypeInv, Typed, ViewTypes, ShapeInv, PhaseInv, Objects, Actors
<1>1. CASE UNCHANGED <<life, phase>>
  BY <1>1 DEF Doomed
<1>2. CASE /\ life' = life /\ (phase[m] \in {"rise", "return"} => phase'[m] \in {"rise", "return"})
  BY <1>2 DEF Doomed
<1>3. ASSUME phase[a] \notin {"rise", "return"}, life' = life PROVE Doomed(m)'
  <2>1. a # m => phase'[m] = phase[m]
    BY <1>0, SparesOthers DEF Spares
  <2> QED BY <1>2, <1>3, <2>1
<1>4. CASE Execute(a) \/ RunJob(a)
  BY <1>1, <1>4 DEF Execute, RunJob
<1>5. CASE Check(a, a) \/ Visit(a, a) \/ Look(a, a) \/ Looked(a)
  BY <1>3, <1>5 DEF Check, Visit, Look, Looked, At
<1>6. CASE Telling(a)
  BY <1>3, <1>6 DEF Telling, Tell, Told, Drop, Dropped, At
<1>7. CASE Leaving(a)
  BY <1>3, <1>7 DEF Leaving, Logout, Bye, Gone, At
<1>8. CASE a \in Players /\ Killing(a)
  <2>1. a # m /\ phase'[m] = phase[m]
    BY <1>0, <1>8, SparesOthers, ObjectAssumption DEF Spares
  <2>2. life[m] = "dead" => life'[m] = "dead"
    BY <1>0, <1>8 DEF Killing, Hit, Kill, Mourn, Mourned, Bury, Buried
  <2> QED BY <2>1, <2>2 DEF Doomed
<1>9. CASE Sleep(a, a) \/ Seen(a) \/ Posting(a, a)
  BY <1>3, <1>9 DEF Sleep, Seen, Posting, Post, Posted, Part, Parted, At
<1>10. CASE a \in Monsters /\ Respawning(a, a)
  <2>1. a # m => phase'[m] = phase[m]
    BY <1>0, SparesOthers DEF Spares
  <2>2. CASE Rise(a, a)
    BY <1>0, <2>1, <2>2 DEF Rise, Free, At, Goto, Doomed
  <2>3. CASE Heal(a, a)
    BY <1>0, <2>1, <2>3 DEF Heal, At, Goto, Doomed
  <2>4. CASE Return(a, a)
    <3>1. a # m
      BY <1>0, <2>4 DEF Return, Goto, Rests, Settles, At
    <3> QED BY <2>1, <2>4, <3>1 DEF Return, Doomed
  <2>5. CASE Appear(a, a) \/ Appeared(a, a)
    BY <1>3, <2>5 DEF Appear, Appeared, At
  <2> QED BY <1>10, <2>2, <2>3, <2>4, <2>5 DEF Respawning
<1>11. CASE Entering(a)
  BY <1>3, <1>11 DEF Entering, Login, Enter, Greet, Greeted, Register, At
<1>12. CASE Leave(a, a) \/ Arrives(a)
  BY <1>3, <1>12 DEF Leave, Arrives, At
<1>13. CASE \E at : Stands(a, at)
  BY <1>3, <1>13 DEF Stands
<1>16. CASE Update(a, a) \/ Again(a, a)
  BY <1>3, <1>16 DEF Update, Again, Free, At
<1>14. CASE a \in Players /\ ViewStep(a)
  BY <1>4, <1>5, <1>6, <1>7, <1>8, <1>11, <1>12, <1>13, <1>14, StandStep
     DEF ViewStep, Stirring, Checking, Move, Die, Ready, At
<1>15. CASE a \in Monsters /\ MonsterStep(a, a)
  BY <1>4, <1>5, <1>9, <1>10, <1>12, <1>13, <1>15, <1>16, StandStep DEF MonsterStep, Walking,
     Watching, At
<1> QED BY <1>14, <1>15 DEF Step

\* What a player's handler goes on with.
LEMMA NextOf ==
  ASSUME NEW p, ViewStep(p), ~Execute(p)
  PROVE  /\ phase[p] = "enter" => Enter(p)
         /\ phase[p] = "greet" => Greet(p) \/ Greeted(p)
         /\ phase[p] = "leave" => Leave(p, p)
         /\ phase[p] = "arrive" => Arrive(p)
         /\ phase[p] = "check" => Check(p, p)
         /\ phase[p] = "look" => Visit(p, p) \/ Look(p, p) \/ Looked(p)
         /\ phase[p] = "tell" => Tell(p) \/ Told(p)
         /\ phase[p] = "drop" => Drop(p) \/ Dropped(p)
         /\ phase[p] = "idle" => Login(p) \/ Move(p) \/ Die(p) \/ RunJob(p) \/ Hit(p) \/ Logout(p)
BY DEF ViewStep, Entering, Login, Enter, Greet, Greeted, Register, Stirring, Move, Die, Leave,
   Arrive, Checking, Check, Visit, Look, Looked, Telling, Tell, Told, Drop, Dropped, RunJob,
   Killing, Hit, Kill, Mourn, Mourned, Bury, Buried, Leaving, Logout, Bye, Gone, Ready, At

LEMMA FirstOf ==
  ASSUME NEW y \in Access, NEW t \in Seq(Access), NEW x
  PROVE  In(<<y>> \o t, x) <=> x = y \/ In(t, x)
<1>1. <<y>> \in Seq(Access)
  OBVIOUS
<1>2. In(<<y>>, x) <=> x = y
  BY InOne
<1> QED BY <1>1, <1>2, InConcat

\* A player who has yet to see to m does so.
LEMMA ComingStep ==
  ASSUME TypeInv, SightInv, LastInv, NEW a \in Objects, Step(a),
         NEW m \in Monsters, NEW p \in Players,
         Pair(m, p), Registered(m), Near(pos[p], pos[m]), Coming(p, m)
  PROVE  m \in awake' \/ Doomed(m)' \/ Coming(p, m)'
<1> USE DEF At, Goto
<1>0. /\ phase \in [Actors -> Phases \cup MonsterPhases]
      /\ todo \in [Actors -> SUBSET Objects] /\ new \in [Actors -> SUBSET Objects]
      /\ script \in [Actors -> Seq(Access)]
      /\ m \in Objects \ doubled /\ p \in Objects \ doubled /\ m \notin Players /\ Objects \subseteq Actors
      /\ phase[p] \in Phases
  BY ObjectAssumption DEF TypeInv, Typed, ViewTypes, ShapeInv, PhaseInv, Objects, Actors, Pair
<1>1. CASE a # p
  BY <1>0, <1>1, SparesOthers DEF Spares, Coming, Has
<1>2. CASE a = p /\ Execute(a)
  <2>1. phase' = phase /\ todo' = todo /\ life' = life
    BY <1>2 DEF Execute
  <2>2. CASE Head(script[p]) \notin {Op("wake", m, p), Op("rouse", m, p)}
    <3>1. ASSUME NEW k \in {"wake", "rouse"}
          PROVE  Has(p, Op(k, m, p)) => Has(p, Op(k, m, p))'
      BY <1>0, <1>2, <2>2, HasKept DEF Op
    <3> QED BY <2>1, <3>1 DEF Coming
  <2>4. CASE Head(script[p]) = Op("rouse", m, p)
    <3>1. Head(script[p]).op = "rouse" /\ Head(script[p]).of = m
      BY <2>4 DEF Op
    <3>2. Rouse(p, Head(script[p]), Tail(script[p]))
      BY <1>2, <3>1 DEF Execute, Enqueue, Meet, WakeUp, Clear, Scan, Begin, Insert, Erase, Show,
         Hide, JobKinds
    <3> QED BY <3>1, <3>2 DEF Rouse
  <2>3. CASE Head(script[p]) = Op("wake", m, p)
    <3>1. Head(script[p]).op = "wake" /\ Head(script[p]).of = m /\ Head(script[p]).obj = p
      BY <2>3 DEF Op
    <3>2. WakeUp(p, Head(script[p]), Tail(script[p]))
      BY <1>2, <3>1 DEF Execute, Enqueue, Meet, Rouse, Clear, Scan, Begin, Insert, Erase, Show,
         Hide, JobKinds
    <3>3. \/ m \in awake' \/ life[m] = "dead"
          \/ script'[p] = Waken(m, p) \o Tail(script[p])
      BY <1>0, <3>1, <3>2 DEF WakeUp, Rest
    <3>4. script'[p] = Waken(m, p) \o Tail(script[p]) => Has(p, Op("rouse", m, p))'
      <4>1. Tail(script[p]) \in Seq(Access)
        BY <1>0, <1>2 DEF Execute
      <4>2. Waken(m, p) \in Seq(Access) /\ In(Waken(m, p), Op("rouse", m, p))
        BY WakenAccess
      <4>3. In(Waken(m, p) \o Tail(script[p]), Op("rouse", m, p))
        BY <4>1, <4>2, InConcat
      <4> QED BY <4>3 DEF Has
    <3> QED BY <2>1, <3>3, <3>4 DEF Doomed, Coming
  <2> QED BY <2>2, <2>3, <2>4
<1>3. CASE a = p /\ ~Execute(a)
  <2>1. script[p] = <<>>
    BY <1>3, StepActs, TurnDone
  <2>2. \A x : ~Has(p, x)
    BY <2>1, InNone DEF Has
  <2>3. m \in cast /\ m # p
    BY <1>0 DEF LastInv, CastInv, Pair
  <2>4. ViewStep(p)
    BY <1>0, <1>3, ObjectAssumption DEF Step
  <2>5. CASE phase[p] = "enter"
    <3>1. Enter(p)
      BY <1>3, <2>4, <2>5, NextOf
    <3> QED BY <1>0, <2>3, <3>1 DEF Enter, Coming
  <2>6. CASE phase[p] = "leave"
    <3>1. Leave(p, p)
      BY <1>3, <2>4, <2>6, NextOf
    <3> QED BY <1>0, <3>1 DEF Leave, Coming
  <2>7. CASE phase[p] = "arrive"
    <3>1. Arrive(p)
      BY <1>3, <2>4, <2>7, NextOf
    <3> QED BY <1>0, <3>1 DEF Arrive, Coming
  <2>8. CASE phase[p] = "check"
    <3>1. Check(p, p)
      BY <1>3, <2>4, <2>8, NextOf
    <3> QED BY <1>0, <3>1 DEF Check, Coming
  <2>9. CASE phase[p] = "look"
    <3>1. Visit(p, p) \/ Look(p, p) \/ Looked(p)
      BY <1>3, <2>4, <2>9, NextOf
    <3>2. CASE Visit(p, p) \/ Look(p, p)
      BY <2>9, <3>2 DEF Visit, Look, local, Coming
    <3>3. CASE Looked(p)
      <4>1. m \in steady[p]
        BY <1>0, <2>9 DEF LastInv, KnownInv, Looks
      <4>2. Seeks(p, m)
        BY <1>0, ObjectAssumption DEF Seeks
      <4>3. m \in new[p]
        BY <1>0, <2>9, <3>3, <4>1, <4>2 DEF SightInv, LookInv, Looked
      <4> QED BY <1>0, <3>3, <4>3 DEF Looked, Coming
    <3> QED BY <3>1, <3>2, <3>3
  <2>10. CASE phase[p] = "greet" /\ m \in todo[p]
    <3>1. Greet(p)
      BY <1>3, <2>4, <2>10, NextOf DEF Greeted
    <3>2. PICK q \in todo[p] :
            /\ todo' = [todo EXCEPT ![p] = @ \ {q}]
            /\ Rest(p, IF ~Near(pos[p], pos[q]) THEN <<>>
                       ELSE IF q \in Players THEN <<Op("meet", q, p)>>
                       ELSE <<Op("wake", q, p)>> \o AddObjectToView(p, q))
      BY <3>1 DEF Greet
    <3>3. phase' = phase
      BY <3>1 DEF Greet, local
    <3>4. CASE q = m
      <4>1. script'[p] = <<Op("wake", m, p)>> \o AddObjectToView(p, m)
        BY <1>0, <3>2, <3>4 DEF Rest
      <4>2. Op("wake", m, p) \in Access /\ AddObjectToView(p, m) \in Seq(Access)
        BY <1>0, AddChained DEF Op, Access
      <4> QED BY <4>1, <4>2, FirstOf DEF Has, Coming
    <3>5. CASE q # m
      BY <1>0, <2>10, <3>2, <3>3, <3>5 DEF Coming
    <3> QED BY <3>4, <3>5
  <2>11. CASE phase[p] = "tell" /\ m \in todo[p]
    <3>1. Tell(p)
      BY <1>3, <2>4, <2>11, NextOf DEF Told
    <3>2. PICK q \in todo[p] :
            /\ todo' = [todo EXCEPT ![p] = @ \ {q}]
            /\ Rest(p, <<Notice(p, q)>> \o (IF q \in old[p] THEN <<>> ELSE AddObjectToView(p, q)))
      BY <3>1 DEF Tell
    <3>3. phase' = phase
      BY <3>1 DEF Tell
    <3>4. CASE q = m
      <4>1. Notice(p, m) = Op("wake", m, p)
        BY DEF Notice
      <4>2. PICK t : t = IF m \in old[p] THEN <<>> ELSE AddObjectToView(p, m)
        OBVIOUS
      <4>3. script'[p] = <<Op("wake", m, p)>> \o t
        BY <1>0, <3>2, <3>4, <4>1, <4>2 DEF Rest
      <4>4. Op("wake", m, p) \in Access /\ AddObjectToView(p, m) \in Seq(Access)
        BY <1>0, AddChained DEF Op, Access
      <4>5. t \in Seq(Access)
        <5>1. <<>> \in Seq(Access)
          OBVIOUS
        <5> QED BY <4>2, <4>4, <5>1
      <4> QED BY <4>3, <4>4, <4>5, FirstOf DEF Has, Coming
    <3>5. CASE q # m
      BY <1>0, <2>11, <3>2, <3>3, <3>5 DEF Coming
    <3> QED BY <3>4, <3>5
  <2> QED BY <2>2, <2>5, <2>6, <2>7, <2>8, <2>9, <2>10, <2>11 DEF Coming
<1> QED BY <1>1, <1>2, <1>3

LEMMA WakeStep ==
  ASSUME TypeInv, SightInv, LastInv, WakeInv, NEW a \in Objects, Step(a)
  PROVE  WakeInv'
<1> SUFFICES ASSUME NEW m \in Monsters, NEW p \in Players,
                    Pair(m, p)', Registered(m)', Near(pos'[p], pos'[m])
             PROVE  m \in awake' \/ Doomed(m)' \/ Coming(p, m)'
  BY DEF WakeInv, Near, Within
<1>1. m \in Objects /\ p \in Objects
  BY DEF Objects
<1>2. CASE a = p /\ Comes(a)
  BY <1>2 DEF Comes, Coming
<1>3. CASE /\ Pair(m, p) /\ pos'[m] = pos[m] /\ pos'[p] = pos[p] /\ Registered(m)
           /\ a \in {m, p} => Rests(a)
  <2>1. m \in awake \/ Doomed(m) \/ Coming(p, m)
    BY <1>3 DEF WakeInv
  <2>2. ASSUME m \in awake PROVE m \in awake'
    <3>1. ~(a = m /\ Sleep(a, a))
      BY <1>3 DEF Sleep, Pair, Missed
    <3> QED BY <2>2, <3>1, AwakeStep
  <2>3. Doomed(m) => Doomed(m)'
    BY <1>3, DoomedStep
  <2>4. Coming(p, m) => m \in awake' \/ Doomed(m)' \/ Coming(p, m)'
    BY <1>3, ComingStep
  <2> QED BY <2>1, <2>2, <2>3, <2>4
<1> QED BY <1>1, <1>2, <1>3, PairStep

LEMMA WakeInit == ViewInit => WakeInv
BY DEF ViewInit, WakeInv, Pair

LEMMA WakeAside == WakeInv /\ Aside => WakeInv'
<1> SUFFICES ASSUME WakeInv, Aside, NEW m \in Monsters, NEW p \in Players,
                    Pair(m, p)', Registered(m)', Near(pos'[p], pos'[m])
             PROVE  m \in awake' \/ Doomed(m)' \/ Coming(p, m)'
  BY DEF WakeInv, Near, Within
<1>1. m \in Objects /\ p \in Objects
  BY DEF Objects
<1>2. /\ Pair(m, p) /\ m \notin doubled' /\ pos'[m] = pos[m] /\ pos'[p] = pos[p]
      /\ Registered(m)
  BY <1>1, PairAside
<1>3. m \in awake \/ Doomed(m) \/ Coming(p, m)
  BY <1>2 DEF WakeInv
<1>4. /\ m \in awake' <=> m \in awake
      /\ life'[m] = life[m] /\ phase'[m] = phase[m]
      /\ phase'[p] = phase[p] /\ script'[p] = script[p] /\ todo'[p] = todo[p]
  BY <1>1, <1>2 DEF Aside, AsideOwn, AsideMonsters
<1> QED BY <1>3, <1>4 DEF Doomed, Coming, Has

\* What has been found so far holds together.
ViewsInv == TypeInv /\ TrackInv /\ SightInv /\ LastInv /\ WakeInv

LEMMA ViewsStep == ASSUME ViewsInv, NEW a \in Objects, Step(a) PROVE (TrackInv /\ SightInv /\ LastInv /\ WakeInv)'
BY TrackStep, PlaceStep, SteadyStep, LookStep, ExactStep, LastStep, WakeStep DEF ViewsInv, SightInv

\* A monster with a player beside it who came last is awake once nothing is under way
\* between them (Move, Damaged and LoginPacket wake whom they find with CNpc::WakeUp),
\* unless he came while it was looking around and found nobody, or while it respawned,
\* and as long as no two threads have been at work on it at once.
THEOREM MonstersWake == MonstersSpec => []MonsterWakes
<1>1. ViewInit => ViewsInv
  BY InitTypes, InitSolo, TrackInit, SightInit, LastInit, WakeInit DEF ViewsInv, TypeInv
<1>2. ViewsInv /\ [MonstersNext]_vars => ViewsInv'
  BY ViewsStep, StepSolo, SomeStep, TrackAside, SightAside, LastAside, WakeAside DEF ViewsInv
<1>3. ViewsInv => MonsterWakes
  <2> SUFFICES ASSUME ViewsInv, NEW m \in Monsters \ doubled, NEW p \in Players,
                      <<m, p>> \in later, life[m] = "alive", Registered(m),
                      Quiet(p, m), Near(pos[p], pos[m]), ~Missed(p, m)
               PROVE  m \in awake
    BY DEF MonsterWakes
  <2>1. Pair(m, p)
    BY ObjectAssumption DEF Pair, Missed, ViewsInv, TypeInv, Typed, ViewTypes
  <2>2. phase[p] = "idle" /\ phase[m] = "idle" /\ script[p] = <<>>
    BY DEF Quiet, At
  <2>3. ~Doomed(m) /\ ~Coming(p, m)
    BY <2>2, InNone DEF Doomed, Coming, Has
  <2> QED BY <2>1, <2>3 DEF ViewsInv, WakeInv
<1> QED BY <1>1, <1>2, <1>3, PTL DEF MonstersSpec
-----------------------------------------------------------------------------
(* Who is about to do what.                                                *)

\* What t does to others it does at a stage of its own, and in its own name; only a
\* kill and a respawn make changes between two others, or between another and itself.
Whose(t, x) ==
  /\ x.op \in {"see", "seeNow"} => x.obj = t /\ phase[t] \in {"tell", "post"}
  /\ x.op = "lose" => x.obj = t /\ phase[t] \in {"drop", "part", "bye"}
  /\ x.op = "meet" => x.obj = t /\ phase[t] = "greet"
  /\ x.op \in {"wake"} \cup Waking => x.obj = t /\ phase[t] \in {"greet", "tell"}
  /\ x.op \in {"insert", "show"} => \/ x.of = t /\ phase[t] \in {"greet", "tell", "idle"}
                                    \/ x.obj = t /\ phase[t] \in {"greet", "appear"}
  /\ x.op \in {"erase", "hide"} => \/ x.of = t /\ phase[t] \in {"drop", "idle"}
                                   \/ t \in Players /\ x.obj = prey[t] /\ phase[t] = "bury"
OwnersInv == \A t \in Objects : \A x \in Access : Has(t, x) => Whose(t, x)

LEMMA TurnLemma ==
  ASSUME NEW p, NEW q, NEW x
  PROVE  /\ In(AddObjectToView(p, q), x) <=> x \in {Op("insert", p, q), Op("show", p, q)}
         /\ In(RemoveObjectFromView(p, q), x) <=> x \in {Op("erase", p, q), Op("hide", p, q)}
BY InTwo DEF AddObjectToView, RemoveObjectFromView

\* What a step other than an access puts into the turn of its object.
LEMMA NewTurn ==
  ASSUME TypeInv, NEW a \in Objects, Step(a), ~Execute(a), NEW x, Has(a, x)'
  PROVE  /\ phase'[a] = phase[a]
         /\ \/ /\ a \in Players /\ Greet(a)
               /\ \E q \in todo[a] :
                    /\ Near(pos[a], pos[q])
                    /\ IF q \in Players THEN x = Op("meet", q, a)
                       ELSE x \in {Op("wake", q, a), Op("insert", a, q), Op("show", a, q)}
            \/ /\ a \in Players /\ Tell(a)
               /\ \E q \in todo[a] :
                    \/ x = Notice(a, q)
                    \/ q \notin old[a] /\ x \in {Op("insert", a, q), Op("show", a, q)}
            \/ /\ a \in Players /\ Drop(a)
               /\ \E q \in todo[a] :
                    \/ x \in {Op("erase", a, q), Op("hide", a, q)}
                    \/ q \in Players /\ x = Op("lose", q, a)
            \/ /\ a \in Players /\ RunJob(a)
               /\ x \in LET j == Head(jobs[a])
                        IN  IF j.do = "lose" THEN {Op("erase", a, j.who), Op("hide", a, j.who)}
                            ELSE {Op("insert", a, j.who), Op("show", a, j.who)}
            \/ a \in Players /\ Bye(a) /\ \E q \in todo[a] : x = Op("lose", q, a)
            \/ /\ a \in Players /\ Bury(a)
               /\ \E q \in todo[a] : x \in {Op("erase", q, prey[a]), Op("hide", q, prey[a])}
            \/ a \in Monsters /\ Post(a, a) /\ \E q \in todo[a] : x = Op("seeNow", q, a)
            \/ a \in Monsters /\ Part(a, a) /\ \E q \in todo[a] : x = Op("lose", q, a)
            \/ /\ a \in Monsters /\ Appear(a, a)
               /\ \E q \in todo[a] :
                    /\ st[q] = "ingame" /\ Near(pos[q], pos[a])
                    /\ x \in {Op("insert", q, a), Op("show", q, a)}
<1> USE DEF local, At, Rest
<1>0. /\ phase \in [Actors -> Phases \cup MonsterPhases]
      /\ script \in [Actors -> Seq(Access)]
      /\ todo \in [Actors -> SUBSET Objects]
      /\ script[a] = <<>> /\ <<>> \in Seq(Access)
      /\ Objects \subseteq Actors
  BY StepActs, TurnDone DEF TypeInv, Typed, ViewTypes, Actors
<1>1. script' # script
  BY <1>0, InNone DEF Has
<1>2. ASSUME NEW s, script' = [script EXCEPT ![a] = s] PROVE In(s, x)
  BY <1>0, <1>2 DEF Has
<1>3. CASE a \in Players /\ Greet(a)
  <2>1. PICK q \in todo[a] :
          script' = [script EXCEPT ![a] =
            IF ~Near(pos[a], pos[q]) THEN <<>>
            ELSE IF q \in Players THEN <<Op("meet", q, a)>>
            ELSE <<Op("wake", q, a)>> \o AddObjectToView(a, q)]
    BY <1>3 DEF Greet
  <2>2. /\ q \in Objects /\ Op("wake", q, a) \in Access
        /\ AddObjectToView(a, q) \in Seq(Access)
    <3>1. q \in Objects
      BY <1>0, <2>1
    <3>2. Op("wake", q, a) \in Access
      BY <3>1 DEF Op, Access
    <3> QED BY <1>3, <3>1, <3>2, AddChained
  <2>3. /\ ~In(<<>>, x) /\ (In(<<Op("meet", q, a)>>, x) => x = Op("meet", q, a))
        /\ In(<<Op("wake", q, a)>> \o AddObjectToView(a, q), x)
             => x \in {Op("wake", q, a), Op("insert", a, q), Op("show", a, q)}
    BY <2>2, InNone, InOne, FirstOf, TurnLemma
  <2>4. phase' = phase
    BY <1>3 DEF Greet
  <2> QED BY <1>2, <1>3, <2>1, <2>3, <2>4
<1>4. CASE a \in Players /\ Tell(a)
  <2>1. PICK q \in todo[a] :
          script' = [script EXCEPT ![a] =
            <<Notice(a, q)>> \o (IF q \in old[a] THEN <<>> ELSE AddObjectToView(a, q))]
    BY <1>4 DEF Tell
  <2>2. q \in Objects
    BY <1>0, <2>1
  <2>3. Notice(a, q) \in Access /\ AddObjectToView(a, q) \in Seq(Access)
    <3>1. Notice(a, q) \in Access
      BY <2>2 DEF Notice, Op, Access, JobKinds
    <3> QED BY <1>4, <2>2, <3>1, AddChained
  <2>4. PICK s : s = IF q \in old[a] THEN <<>> ELSE AddObjectToView(a, q)
    OBVIOUS
  <2>5. s \in Seq(Access) /\ (In(s, x) => q \notin old[a] /\ x \in {Op("insert", a, q), Op("show", a, q)})
    BY <1>0, <2>3, <2>4, InNone, TurnLemma
  <2>6. In(<<Notice(a, q)>> \o s, x)
    <3>1. script' = [script EXCEPT ![a] = <<Notice(a, q)>> \o s]
      BY <2>1, <2>4
    <3> QED BY <1>2, <3>1
  <2>7. x = Notice(a, q) \/ In(s, x)
    BY <2>3, <2>5, <2>6, FirstOf
  <2>8. phase' = phase
    BY <1>4 DEF Tell
  <2> QED BY <1>4, <2>5, <2>7, <2>8
<1>5. CASE a \in Players /\ Drop(a)
  <2>1. PICK q \in todo[a] :
          script' = [script EXCEPT ![a] =
            RemoveObjectFromView(a, q) \o (IF q \in Players THEN <<Op("lose", q, a)>> ELSE <<>>)]
    BY <1>5 DEF Drop
  <2>2. q \in Objects
    BY <1>0, <2>1
  <2>3. <<Op("lose", q, a)>> \in Seq(Access) /\ RemoveObjectFromView(a, q) \in Seq(Access)
    <3>1. Op("lose", q, a) \in Access
      BY <2>2 DEF Op, Access, JobKinds
    <3> QED BY <1>5, <2>2, <3>1, RemoveChained
  <2>4. PICK s : s = IF q \in Players THEN <<Op("lose", q, a)>> ELSE <<>>
    OBVIOUS
  <2>5. s \in Seq(Access) /\ (In(s, x) => q \in Players /\ x = Op("lose", q, a))
    BY <1>0, <2>3, <2>4, InNone, InOne
  <2>6. In(RemoveObjectFromView(a, q) \o s, x)
    <3>1. script' = [script EXCEPT ![a] = RemoveObjectFromView(a, q) \o s]
      BY <2>1, <2>4
    <3> QED BY <1>2, <3>1
  <2>7. x \in {Op("erase", a, q), Op("hide", a, q)} \/ In(s, x)
    BY <2>3, <2>5, <2>6, InConcat, TurnLemma
  <2>8. phase' = phase
    BY <1>5 DEF Drop
  <2> QED BY <1>5, <2>5, <2>7, <2>8
<1>6. CASE a \in Players /\ RunJob(a)
  <2> DEFINE j == Head(jobs[a])
  <2>1. \/ j.do = "lose" /\ script' = [script EXCEPT ![a] = RemoveObjectFromView(a, j.who)]
        \/ j.do # "lose" /\ script' = [script EXCEPT ![a] = AddObjectToView(a, j.who)]
    BY <1>1, <1>6 DEF RunJob
  <2>2. phase' = phase
    BY <1>6 DEF RunJob
  <2> QED BY <1>2, <1>6, <2>1, <2>2, TurnLemma
<1>7. CASE a \in Players /\ Bye(a)
  <2>1. PICK q \in todo[a] : script' = [script EXCEPT ![a] = <<Op("lose", q, a)>>]
    BY <1>7 DEF Bye
  <2>2. x = Op("lose", q, a)
    BY <1>2, <2>1, InOne
  <2>3. phase' = phase
    BY <1>7 DEF Bye
  <2> QED BY <1>7, <2>1, <2>2, <2>3
<1>8. CASE a \in Players /\ Bury(a)
  <2>1. PICK q \in todo[a] : script' = [script EXCEPT ![a] = RemoveObjectFromView(q, prey[a])]
    BY <1>8 DEF Bury
  <2>2. x \in {Op("erase", q, prey[a]), Op("hide", q, prey[a])}
    BY <1>2, <2>1, TurnLemma
  <2>3. phase' = phase
    BY <1>8 DEF Bury
  <2> QED BY <1>8, <2>1, <2>2, <2>3
<1>9. CASE a \in Monsters /\ Post(a, a)
  <2>1. PICK q \in todo[a] : script' = [script EXCEPT ![a] = <<Op("seeNow", q, a)>>]
    BY <1>9 DEF Post
  <2>2. x = Op("seeNow", q, a)
    BY <1>2, <2>1, InOne
  <2>3. phase' = phase
    BY <1>9 DEF Post
  <2> QED BY <1>9, <2>1, <2>2, <2>3
<1>10. CASE a \in Monsters /\ Part(a, a)
  <2>1. PICK q \in todo[a] : script' = [script EXCEPT ![a] = <<Op("lose", q, a)>>]
    BY <1>10 DEF Part
  <2>2. x = Op("lose", q, a)
    BY <1>2, <2>1, InOne
  <2>3. phase' = phase
    BY <1>10 DEF Part
  <2> QED BY <1>10, <2>1, <2>2, <2>3
<1>11. CASE a \in Monsters /\ Appear(a, a)
  <2>1. PICK q \in todo[a] :
          script' = [script EXCEPT ![a] =
            IF st[q] = "ingame" /\ Near(pos[q], pos[a]) THEN AddObjectToView(q, a) ELSE <<>>]
    BY <1>11 DEF Appear
  <2>2. phase' = phase
    BY <1>11 DEF Appear
  <2>3. ~In(<<>>, x)
    BY InNone
  <2>4. /\ st[q] = "ingame" /\ Near(pos[q], pos[a])
        /\ In(AddObjectToView(q, a), x)
    BY <1>2, <2>1, <2>3
  <2>5. x \in {Op("insert", q, a), Op("show", q, a)}
    BY <2>4, TurnLemma
  <2> QED BY <1>11, <2>2, <2>4, <2>5
<1>12. CASE a \in Players /\ (Entering(a) \/ Stirring(a) \/ Checking(a))
  BY <1>1, <1>3, <1>12 DEF Entering, Login, Enter, Greeted, Register, Stirring, Move, Die, Leave,
     Arrive, Stand, Checking, Check, Visit, Look, Looked
<1>13. CASE a \in Players /\ (Telling(a) \/ Leaving(a))
  BY <1>1, <1>4, <1>5, <1>7, <1>13 DEF Telling, Told, Dropped, Leaving, Logout, Gone
<1>14. CASE a \in Players /\ Killing(a)
  BY <1>1, <1>8, <1>14 DEF Killing, Hit, Kill, Mourn, Mourned, Buried
<1>15. CASE a \in Monsters /\ (Walking(a, a) \/ Watching(a, a))
  BY <1>1, <1>15 DEF Walking, Update, Walk, Leave, Join, Again, Watching, Check, Visit, Look, Sleep, Seen
<1>16. CASE a \in Monsters /\ (Posting(a, a) \/ Respawning(a, a))
  BY <1>1, <1>9, <1>10, <1>11, <1>16
     DEF Posting, Posted, Parted, Respawning, Rise, Heal, Return, Appeared
<1> QED BY <1>6, <1>12, <1>13, <1>14, <1>15, <1>16 DEF Step, ViewStep, MonsterStep

\* An access takes itself off; only a meeting and a wake-up put others in its place.
LEMMA HasAfter ==
  ASSUME TypeInv, NEW a \in Objects, Execute(a), NEW x, Has(a, x)'
  PROVE  \/ Has(a, x)
         \/ \E h \in Access :
              /\ Has(a, h) /\ h.op = "meet" /\ h.of \in Players /\ h.obj \in Players
              /\ x \in {Op("insert", h.of, h.obj), Op("show", h.of, h.obj),
                        Op("insert", h.obj, h.of), Op("show", h.obj, h.of)}
         \/ \E h \in Access :
              /\ Has(a, h) /\ h.op = "wake" /\ h.of \in Monsters /\ h.of \notin awake /\ life[h.of] # "dead"
              /\ x.op \in Waking /\ x.of = h.of /\ x.obj = h.obj
<1> DEFINE s == script[a]
           h == Head(s)
           r == Tail(s)
<1>1. /\ s # <<>> /\ s \in Seq(Access) /\ Chained(s)
      /\ script \in [Actors -> Seq(Access)] /\ a \in Actors
  BY DEF Execute, TypeInv, Typed, ViewTypes, ShapeInv, ScriptInv, Actors
<1>2. /\ h \in Access /\ Sound(h)
      /\ h.op = "meet" => r = <<>>
      /\ h.op = "erase" => r # <<>>
      /\ r \in Seq(Access)
  BY <1>1, TailChained
<1>3. In(s, h) /\ (In(r, x) => In(s, x)) /\ (r # <<>> => (In(Tail(r), x) => In(r, x)))
  BY <1>1, <1>2, InHeadTail
<1>4. \/ Enqueue(a, h, r) \/ Meet(a, h, r) \/ WakeUp(a, h, r)
      \/ Rouse(a, h, r) \/ Clear(a, h, r) \/ Scan(a, h, r) \/ Begin(a, h, r)
      \/ Insert(a, h, r) \/ Erase(a, h, r) \/ Show(a, h, r) \/ Hide(a, h, r)
  BY DEF Execute
<1> HIDE DEF h, r, s
<1>5. CASE Meet(a, h, r)
  <2> DEFINE z == IF st[h.of] = "ingame"
                    THEN AddObjectToView(h.of, h.obj) \o AddObjectToView(h.obj, h.of)
                    ELSE <<>>
  <2>1. h.op = "meet" /\ h.of \in Players /\ h.obj \in Players /\ r = <<>>
    BY <1>2, <1>5 DEF Meet, Sound, Waking
  <2>2. /\ AddObjectToView(h.of, h.obj) \in Seq(Access) /\ AddObjectToView(h.obj, h.of) \in Seq(Access)
        /\ <<>> \in Seq(Access)
    BY <2>1, AddChained DEF Objects
  <2>3. z \in Seq(Access)
    BY <2>2
  <2>4. In(z, x) => x \in {Op("insert", h.of, h.obj), Op("show", h.of, h.obj),
                           Op("insert", h.obj, h.of), Op("show", h.obj, h.of)}
    BY <2>2, InConcat, InNone, TurnLemma
  <2>5. script' = [script EXCEPT ![a] = z \o r]
    BY <1>5 DEF Meet, Rest
  <2> HIDE DEF z
  <2>6. z \o r = z
    BY <2>1, <2>3
  <2>7. In(z, x)
    BY <1>1, <2>5, <2>6 DEF Has
  <2> QED BY <1>2, <1>3, <2>1, <2>4, <2>7 DEF Has, s
<1>6. CASE script'[a] = r
  BY <1>3, <1>6 DEF s, Has
<1>7. CASE script'[a] = Tail(r) /\ Erase(a, h, r)
  BY <1>2, <1>3, <1>7 DEF s, Has, Erase
<1>8. Erase(a, h, r) => script'[a] = r \/ script'[a] = Tail(r)
  BY <1>1, <1>2 DEF Erase, Rest
<1>9. ASSUME \/ Enqueue(a, h, r) \/ Rouse(a, h, r) \/ Clear(a, h, r) \/ Begin(a, h, r)
             \/ Insert(a, h, r) \/ Show(a, h, r) \/ Hide(a, h, r)
      PROVE  script'[a] = r
  BY <1>1, <1>9 DEF Enqueue, Rouse, Clear, Begin, Insert, Show, Hide, Rest
<1>10. Scan(a, h, r) => script'[a] = r \/ script'[a] = script[a]
  BY <1>1 DEF Scan, Rest
<1>11. CASE WakeUp(a, h, r)
  <2>1. h.op = "wake" /\ h.of \in Monsters /\ h.obj \in Players
    BY <1>2, <1>11 DEF WakeUp, Sound
  <2>2. /\ Waken(h.of, h.obj) \in Seq(Access)
        /\ In(Waken(h.of, h.obj), x) => x.op \in Waking /\ x.of = h.of /\ x.obj = h.obj
    BY <2>1, WakenAccess
  <2>3. \/ script'[a] = r
        \/ /\ script'[a] = Waken(h.of, h.obj) \o r
           /\ h.of \notin awake /\ life[h.of] # "dead"
    BY <1>1, <1>11 DEF WakeUp, Rest
  <2>4. CASE script'[a] = Waken(h.of, h.obj) \o r /\ h.of \notin awake /\ life[h.of] # "dead"
    <3>1. In(Waken(h.of, h.obj), x) \/ In(r, x)
      BY <1>2, <2>2, <2>4, InConcat DEF Has
    <3>2. Has(a, h)
      BY <1>3 DEF Has, s
    <3>3. CASE In(Waken(h.of, h.obj), x)
      BY <1>2, <2>1, <2>2, <2>4, <3>2, <3>3
    <3>4. CASE In(r, x)
      BY <1>3, <3>4 DEF Has, s
    <3> QED BY <3>1, <3>3, <3>4
  <2> QED BY <1>6, <2>3, <2>4
<1>12. CASE script'[a] = script[a]
  BY <1>12 DEF Has
<1> QED BY <1>4, <1>5, <1>6, <1>7, <1>8, <1>9, <1>10, <1>11, <1>12

\* Whom a player is killing is his own affair.
LEMMA PreyStep ==
  ASSUME TypeInv, NEW a \in Objects, Step(a), NEW t \in Players, t # a \/ Execute(a)
  PROVE  prey'[t] = prey[t]
<1> USE DEF lair
<1>1. CASE Execute(a) \/ Checking(a) \/ Telling(a) \/ RunJob(a) \/ Leaving(a)
  BY <1>1 DEF Execute, Checking, Check, Visit, Look, Looked, Telling, Tell, Told, Drop, Dropped,
     RunJob, Leaving, Logout, Bye, Gone
<1>2. CASE a \in Players /\ Killing(a)
  <2>1. prey \in [Players -> Monsters \cup {Nobody}]
    BY DEF TypeInv, Typed, ViewTypes
  <2>2. t # a
    <3>1. CASE Execute(a)
      <4>1. phase' = phase /\ todo' = todo /\ script[a] # <<>>
        BY <3>1 DEF Execute
      <4>2. script[a] = <<>>
        BY <1>2 DEF Killing, Hit, Kill, Mourn, Mourned, Bury, Buried, Ready, At
      <4> QED BY <4>1, <4>2
    <3> QED BY <3>1
  <2> QED BY <1>2, <2>1, <2>2 DEF Killing, Hit, Kill, Mourn, Mourned, Bury, Buried
<1>3. CASE Entering(a) \/ Stirring(a)
  BY <1>3 DEF Entering, Login, Enter, Greet, Greeted, Register, Stirring, Move, Die, Leave, Arrive, Stand
<1>4. CASE Walking(a, a) \/ Watching(a, a) \/ Posting(a, a) \/ Respawning(a, a)
  BY <1>4 DEF Walking, Update, Walk, Leave, Join, Again, Watching, Check, Visit, Look, Sleep, Seen,
     Posting, Post, Posted, Part, Parted, Respawning, Rise, Heal, Return, Appear, Appeared
<1> QED BY <1>1, <1>2, <1>3, <1>4 DEF Step, ViewStep, MonsterStep

LEMMA OwnersStep ==
  ASSUME TypeInv, OwnersInv, NEW a \in Objects, Step(a)
  PROVE  OwnersInv'
<1> USE DEF Op
<1> SUFFICES ASSUME NEW t \in Objects, NEW x \in Access, Has(t, x)' PROVE Whose(t, x)'
  BY DEF OwnersInv
<1>1. CASE t # a
  <2>1. script'[t] = script[t] /\ phase'[t] = phase[t] /\ (t \in Players => prey'[t] = prey[t])
    BY <1>1, SparesOthers, PreyStep DEF Spares
  <2>2. Whose(t, x)
    BY <2>1 DEF OwnersInv, Has
  <2> QED BY <2>1, <2>2 DEF Whose
<1>2. CASE t = a /\ Execute(a)
  <2>1. phase' = phase /\ (t \in Players => prey'[t] = prey[t])
    BY <1>2, PreyStep DEF Execute
  <2>2. Has(a, x) => Whose(t, x)
    BY <1>2 DEF OwnersInv
  <2>3. CASE Has(a, x)
    BY <2>1, <2>2, <2>3 DEF Whose
  <2>4. CASE ~Has(a, x)
    <3>1. ASSUME NEW h \in Access, Has(a, h), h.op = "meet",
                 x \in {Op("insert", h.of, h.obj), Op("show", h.of, h.obj),
                       Op("insert", h.obj, h.of), Op("show", h.obj, h.of)}
          PROVE  Whose(t, x)'
      <4>1. h.obj = t /\ phase[t] = "greet"
        BY <1>2, <3>1 DEF OwnersInv, Whose
      <4> QED BY <2>1, <3>1, <4>1 DEF Whose, Waking
    <3>2. ASSUME NEW h \in Access, Has(a, h), h.op = "wake", x.op \in Waking, x.obj = h.obj
          PROVE  Whose(t, x)'
      <4>1. h.obj = t /\ phase[t] \in {"greet", "tell"}
        BY <1>2, <3>2 DEF OwnersInv, Whose
      <4> QED BY <2>1, <3>2, <4>1 DEF Whose, Waking
    <3> QED BY <1>2, <2>4, <3>1, <3>2, HasAfter
  <2> QED BY <2>3, <2>4
<1>3. CASE t = a /\ ~Execute(a)
  <2> USE DEF At
  <2>1. phase'[a] = phase[a]
    BY <1>3, NewTurn
  <2>2. a \in Monsters => a \notin Players
    BY ObjectAssumption
  <2>3. CASE a \in Players /\ (Greet(a) \/ Tell(a))
    <3>1. phase[a] \in {"greet", "tell"} /\ (Greet(a) => phase[a] = "greet") /\ (Tell(a) => phase[a] = "tell")
      BY <2>3 DEF Greet, Tell
    <3>2. ~Drop(a) /\ ~RunJob(a) /\ ~Bye(a) /\ ~Bury(a)
      BY <3>1 DEF Drop, RunJob, Ready, Bye, Bury
    <3> QED BY <1>3, <2>1, <2>2, <2>3, <3>1, <3>2, NewTurn DEF Whose, Notice, Waking
  <2>4. CASE a \in Players /\ (Drop(a) \/ Bye(a))
    <3>1. (Drop(a) => phase[a] = "drop") /\ (Bye(a) => phase[a] = "bye")
      BY <2>4 DEF Drop, Bye
    <3>2. ~Greet(a) /\ ~Tell(a) /\ ~RunJob(a) /\ ~Bury(a)
      BY <2>4, <3>1 DEF Greet, Tell, RunJob, Ready, Bury
    <3> QED BY <1>3, <2>1, <2>2, <2>4, <3>1, <3>2, NewTurn DEF Whose, Waking
  <2>7. CASE a \in Players /\ RunJob(a)
    <3>1. phase[a] = "idle"
      BY <2>7 DEF RunJob, Ready
    <3>2. ~Greet(a) /\ ~Tell(a) /\ ~Drop(a) /\ ~Bye(a) /\ ~Bury(a)
      BY <3>1 DEF Greet, Tell, Drop, Bye, Bury
    <3> QED BY <1>3, <2>1, <2>2, <2>7, <3>1, <3>2, NewTurn DEF Whose, Waking
  <2>5. CASE a \in Players /\ Bury(a)
    <3>1. phase[a] = "bury" /\ prey' = prey
      BY <2>5 DEF Bury, lair
    <3> QED BY <1>3, <2>1, <2>2, <2>5, <3>1, NewTurn DEF Whose, Waking, Greet, Tell, Drop,
    RunJob, Ready, Bye
  <2>6. CASE a \in Monsters /\ (Post(a, a) \/ Part(a, a) \/ Appear(a, a))
    BY <1>3, <2>1, <2>2, <2>6, NewTurn DEF Whose, Waking, Post, Part, Appear
  <2> QED BY <1>3, <2>3, <2>4, <2>5, <2>6, <2>7, NewTurn
<1> QED BY <1>1, <1>2, <1>3

LEMMA OwnersInit == ViewInit => OwnersInv
BY InNone DEF ViewInit, OwnersInv, Has, Actors

LEMMA OwnersAside == OwnersInv /\ Aside => OwnersInv'
<1> SUFFICES ASSUME OwnersInv, Aside, NEW t \in Objects, NEW x \in Access, Has(t, x)'
             PROVE  Whose(t, x)'
  BY DEF OwnersInv
<1>1. script'[t] = script[t] /\ phase'[t] = phase[t] /\ prey' = prey
  BY DEF Aside, AsideOwn
<1>2. Whose(t, x)
  BY <1>1 DEF OwnersInv, Has
<1> QED BY <1>1, <1>2 DEF Whose

-----------------------------------------------------------------------------
(* Monsters are forgotten.                                                 *)

\* y has just come, or both stay where they were.
LEMMA LaterStep ==
  ASSUME TypeInv, NEW a \in Objects, Step(a), NEW x \in Objects, NEW y \in Objects, <<x, y>> \in later'
  PROVE  \/ a = y /\ Comes(a)
         \/ /\ <<x, y>> \in later /\ pos'[x] = pos[x] /\ pos'[y] = pos[y]
            /\ a \in {x, y} => Rests(a)
<1>1. CASE Comes(a)
  <2>1. later' = (later \ {<<a, z>> : z \in Objects}) \cup {<<z, a>> : z \in cast \ {a}}
    BY <1>1 DEF Comes, TakePlace
  <2>2. x # a /\ (a # y => <<x, y>> \in later)
    BY <2>1
  <2> QED BY <1>1, <2>2, SparesOthers DEF Spares
<1>2. CASE Rests(a)
  BY <1>2 DEF Rests
<1> QED BY <1>1, <1>2, ComesOrRests

\* What a monster's handler goes on with.
LEMMA NextOfMonster ==
  ASSUME NEW m, MonsterStep(m, m), ~Execute(m)
  PROVE  /\ phase[m] = "step" => Walk(m, m)
         /\ phase[m] = "leave" => Leave(m, m)
         /\ phase[m] = "arrive" => Join(m, m)
         /\ phase[m] = "check" => Check(m, m)
         /\ phase[m] = "look" => Visit(m, m) \/ Look(m, m) \/ Sleep(m, m) \/ Seen(m)
         /\ phase[m] = "post" => Post(m, m) \/ Posted(m, m)
         /\ phase[m] = "part" => Part(m, m) \/ Parted(m, m)
         /\ phase[m] = "next" => Again(m, m)
         /\ phase[m] = "rise" => Heal(m, m)
         /\ phase[m] = "return" => Return(m, m)
         /\ phase[m] = "appear" => Appear(m, m) \/ Appeared(m, m)
         /\ phase[m] = "idle" => Update(m, m) \/ Rise(m, m)
BY DEF MonsterStep, Walking, Update, Walk, Leave, Join, Again, Watching, Check, Visit, Look, Sleep, Seen,
   Posting, Post, Posted, Part, Parted, Respawning, Rise, Heal, Return, Appear, Appeared, Free, At

\* The list of a monster is changed by its own handler, and by who wakes it; the one it had
\* when it last looked around is its own.
LEMMA ListStep ==
  ASSUME TypeInv, NEW a \in Objects, Step(a), NEW m \in Monsters
  PROVE  /\ \/ view'[m] = view[m]
            \/ Execute(a) /\ (m \notin doubled => phase[m] = "idle")
            \/ a = m /\ Parted(a, a)
         /\ old'[m] = old[m] \/ (a = m /\ (Check(a, a) \/ Sleep(a, a) \/ Return(a, a)))
<1> USE DEF local
<1>0. /\ view \in [Objects -> SUBSET Objects] /\ old \in [Objects -> SUBSET Objects]
      /\ m \in Objects /\ m \notin Players /\ Objects \subseteq Actors /\ m \in Handlers(m)
  BY ObjectAssumption DEF TypeInv, Typed, ViewTypes, Objects, Actors, Handlers
<1>1. CASE Execute(a)
  <2> DEFINE h == Head(script[a])
             r == Tail(script[a])
  <2>1. h \in Access /\ Sound(h)
    BY <1>0, <1>1, TailChained DEF Execute, TypeInv, Typed, ViewTypes, ShapeInv, ScriptInv
  <2>2. \/ Enqueue(a, h, r) \/ Meet(a, h, r) \/ WakeUp(a, h, r)
        \/ Rouse(a, h, r) \/ Clear(a, h, r) \/ Scan(a, h, r) \/ Begin(a, h, r)
        \/ Insert(a, h, r) \/ Erase(a, h, r) \/ Show(a, h, r) \/ Hide(a, h, r)
    BY <1>1 DEF Execute
  <2>3. old' = old
    BY <1>1 DEF Execute
  <2>7. ASSUME h.op \in Waking, h.of = m, m \notin doubled PROVE phase[m] = "idle"
    <3>1. AtWork(a, m) /\ a \in Actors /\ m \in Actors
      BY <1>0, <1>1, <2>7 DEF AtWork, Execute
    <3>2. a \in Players
      <4>1. SUFFICES ASSUME a \in Actors \ Players PROVE FALSE
        BY <3>1
      <4>2. script[a] \in Seq(Access) /\ script[a] # <<>>
        BY <1>1, <4>1 DEF Execute, TypeInv, Typed, ShapeInv, ScriptInv
      <4>3. 1 \in 1..Len(script[a]) /\ h = script[a][1]
        BY <4>2
      <4>4. Meant(a, h)
        BY <4>1, <4>3 DEF TypeInv, SoloInv
      <4> QED BY <2>7, <4>4 DEF Meant, Waking
    <3>3. phase[m] # "idle" => AtWork(m, m)
      BY <1>0 DEF AtWork
    <3> QED BY <1>0, <2>7, <3>1, <3>2, <3>3 DEF TypeInv, SoloInv
  <2> HIDE DEF h, r
  <2>4. CASE Clear(a, h, r) \/ Scan(a, h, r)
    <3>1. CASE h.of = m
      BY <1>1, <2>3, <2>4, <2>7, <3>1 DEF Clear, Scan, Waking
    <3>2. CASE h.of # m
      BY <1>0, <2>3, <2>4, <3>2 DEF Clear, Scan
    <3> QED BY <3>1, <3>2
  <2>5. CASE Insert(a, h, r) \/ Erase(a, h, r)
    <3>1. h.of # m
      BY <1>0, <2>1, <2>5 DEF Insert, Erase, Sound, Waking
    <3> QED BY <1>0, <2>3, <2>5, <3>1 DEF Insert, Erase
  <2>6. CASE \/ Enqueue(a, h, r) \/ Meet(a, h, r) \/ Show(a, h, r) \/ Hide(a, h, r)
             \/ WakeUp(a, h, r) \/ Rouse(a, h, r) \/ Begin(a, h, r)
    BY <2>3, <2>6 DEF Enqueue, Meet, Show, Hide, WakeUp, Rouse, Begin
  <2> QED BY <2>2, <2>3, <2>4, <2>5, <2>6
<1>2. CASE Check(a, a)
  BY <1>0, <1>2 DEF Check
<1>3. CASE Visit(a, a) \/ Look(a, a) \/ Looked(a)
  BY <1>3 DEF Visit, Look, Looked
<1>4. CASE a \in Players /\ Telling(a)
  BY <1>0, <1>4 DEF Telling, Tell, Told, Drop, Dropped
<1>5. CASE RunJob(a) \/ Killing(a) \/ Leaving(a)
  BY <1>5 DEF RunJob, Killing, Hit, Kill, Mourn, Mourned, Bury, Buried, Leaving, Logout, Bye, Gone
<1>6. CASE Entering(a) \/ Leave(a, a) \/ Arrives(a) \/ \E at : Stands(a, at)
  BY <1>6 DEF Entering, Login, Enter, Greet, Greeted, Register, Leave, Arrives, Stands
<1>13. CASE Update(a, a) \/ Again(a, a)
  BY <1>13 DEF Update, Again
<1>7. CASE Sleep(a, a)
  BY <1>0, <1>7 DEF Sleep
<1>8. CASE Seen(a) \/ Post(a, a) \/ Posted(a, a) \/ Part(a, a)
  BY <1>8 DEF Seen, Post, Posted, Part
<1>9. CASE Parted(a, a)
  BY <1>0, <1>9 DEF Parted
<1>10. CASE Respawning(a, a)
  BY <1>0, <1>10 DEF Respawning, Rise, Heal, Return, Appear, Appeared
<1>11. CASE a \in Players /\ ViewStep(a)
  BY <1>1, <1>2, <1>3, <1>4, <1>5, <1>6, <1>11, StandStep DEF ViewStep, Stirring, Checking, Move, Die
<1>12. CASE a \in Monsters /\ MonsterStep(a, a)
  BY <1>1, <1>2, <1>3, <1>6, <1>7, <1>8, <1>9, <1>10, <1>12, <1>13, StandStep
     DEF MonsterStep, Walking, Watching, Posting
<1> QED BY <1>11, <1>12 DEF Step

\* Only a monster that is awake goes about, and one that sleeps or respawns has no
\* list to compare with.
SleepInv ==
  \A m \in Monsters \ doubled :
    /\ m \notin awake => old[m] = {} /\ phase[m] \in {"idle", "next", "rise", "return", "appear"}
    /\ phase[m] = "appear" => old[m] = {}

\* The list of a monster is not changed while it looks around, and it sees nobody
\* who is not near, unless he has moved since.
ListInv ==
  \A m \in Monsters \ doubled : phase[m] \in {"look", "post", "part"} =>
    /\ view[m] = old[m]
    /\ \A q \in new[m] : <<q, m>> \in later => Near(pos[m], pos[q])

\* A stage is followed by the next.
LEMMA MonsterPhase ==
  ASSUME TypeInv, NEW m \in Monsters, Step(m), phase'[m] # phase[m]
  PROVE  \/ /\ phase[m] = "idle" /\ m \in awake /\ phase'[m] \in {"step", "next"}
         \/ phase[m] = "idle" /\ phase'[m] = "rise"
         \/ phase[m] = "step" /\ phase'[m] \in {"check", "leave"}
         \/ phase[m] = "leave" /\ phase'[m] = "arrive"
         \/ phase[m] = "arrive" /\ phase'[m] = "check"
         \/ phase[m] = "check" /\ Check(m, m) /\ phase'[m] = "look"
         \/ phase[m] = "look" /\ Sleep(m, m) /\ phase'[m] = "next"
         \/ phase[m] = "look" /\ Seen(m) /\ phase'[m] = "post"
         \/ phase[m] = "post" /\ Posted(m, m) /\ phase'[m] = "part"
         \/ phase[m] = "part" /\ Parted(m, m) /\ phase'[m] = "next"
         \/ phase[m] = "next" /\ phase'[m] = "idle"
         \/ phase[m] = "rise" /\ phase'[m] = "return"
         \/ phase[m] = "return" /\ Return(m, m) /\ phase'[m] = "appear"
         \/ phase[m] = "appear" /\ phase'[m] = "idle"
<1> USE DEF At, Goto
<1>1. phase \in [Actors -> Phases \cup MonsterPhases] /\ m \in Objects /\ m \in Actors
  BY DEF TypeInv, Typed, ViewTypes, Objects, Actors
<1>2. MonsterStep(m, m) /\ ~Execute(m)
  <2>1. ~Execute(m)
    BY DEF Execute
  <2> QED BY <2>1, ObjectAssumption DEF Step
<1>3. CASE Update(m, m)
  <2>1. phase[m] = "idle" /\ m \in awake
    BY <1>3 DEF Update, Free
  <2>2. \/ phase' = [phase EXCEPT ![m] = "next"]
        \/ phase' = [phase EXCEPT ![m] = "step"]
    BY <1>3 DEF Update
  <2> QED BY <1>1, <2>1, <2>2
<1>7. CASE Walk(m, m)
  BY <1>1, <1>7 DEF Walk
<1>8. CASE Leave(m, m) \/ Join(m, m) \/ Again(m, m)
  BY <1>1, <1>8 DEF Leave, Join, Again
<1>4. CASE Watching(m, m)
  <2>1. ~Visit(m, m) /\ ~Look(m, m)
    BY DEF Visit, Look, local
  <2>2. Check(m, m) => phase[m] = "check" /\ phase'[m] = "look"
    BY <1>1 DEF Check
  <2>3. Sleep(m, m) => phase[m] = "look" /\ phase'[m] = "next"
    BY <1>1 DEF Sleep
  <2>4. Seen(m) => phase[m] = "look" /\ phase'[m] = "post"
    BY <1>1 DEF Seen
  <2> QED BY <1>4, <2>1, <2>2, <2>3, <2>4 DEF Watching
<1>5. CASE Posting(m, m)
  BY <1>1, <1>5 DEF Posting, Post, Posted, Part, Parted
<1>6. CASE Respawning(m, m)
  <2>1. Rise(m, m) => phase[m] = "idle" /\ phase'[m] = "rise"
    BY <1>1 DEF Rise, Free
  <2> QED BY <1>1, <1>6, <2>1 DEF Respawning, Heal, Return, Appear, Appeared
<1> QED BY <1>2, <1>3, <1>4, <1>5, <1>6, <1>7, <1>8 DEF MonsterStep, Walking

LEMMA SleepStep ==
  ASSUME TypeInv, SleepInv, NEW a \in Objects, Step(a)
  PROVE  SleepInv'
<1> SUFFICES ASSUME NEW m \in Monsters \ doubled'
             PROVE  /\ m \notin awake' => /\ old'[m] = {}
                                          /\ phase'[m] \in {"idle", "next", "rise", "return", "appear"}
                    /\ phase'[m] = "appear" => old'[m] = {}
  BY DEF SleepInv
<1>1. m \in Objects /\ m \in Actors /\ old \in [Objects -> SUBSET Objects] /\ m \in Monsters \ doubled
  BY SparesOthers DEF Objects, Actors, TypeInv, Typed, ViewTypes, Spares
<1>2. old'[m] = old[m] \/ (a = m /\ (Check(m, m) \/ Sleep(m, m) \/ Return(m, m)))
  BY ListStep
<1>3. m \notin awake' => m \notin awake \/ (a = m /\ Sleep(m, m))
  BY AwakeStep
<1>4. CASE a # m
  BY <1>1, <1>2, <1>3, <1>4, SparesOthers DEF Spares, SleepInv
<1>5. CASE a = m /\ phase'[m] # phase[m]
  <2>1. Sleep(m, m) => m \notin awake' /\ old'[m] = {} /\ phase'[m] = "next"
    <3>1. phase \in [Actors -> Phases \cup MonsterPhases]
      BY DEF TypeInv, Typed, ViewTypes
    <3> QED BY <1>1, <3>1 DEF Sleep, Goto
  <2>2. Return(m, m) => old'[m] = {}
    BY <1>1 DEF Return
  <2>3. Check(m, m) => phase[m] = "check"
    BY DEF Check, At
  <2> QED BY <1>1, <1>2, <1>3, <1>5, <2>1, <2>2, <2>3, MonsterPhase DEF SleepInv
<1>6. CASE a = m /\ phase'[m] = phase[m]
  <2>1. ~Check(m, m) /\ ~Sleep(m, m) /\ ~Return(m, m)
    <3>1. phase \in [Actors -> Phases \cup MonsterPhases]
      BY DEF TypeInv, Typed, ViewTypes
    <3> QED BY <1>1, <1>6, <3>1 DEF Check, Sleep, Return, At, Goto
  <2> QED BY <1>1, <1>2, <1>3, <1>6, <2>1 DEF SleepInv
<1> QED BY <1>4, <1>5, <1>6

LEMMA ListInvStep ==
  ASSUME TypeInv, LastInv, SleepInv, ListInv, NEW a \in Objects, Step(a)
  PROVE  ListInv'
<1> SUFFICES ASSUME NEW m \in Monsters \ doubled', phase'[m] \in {"look", "post", "part"}
             PROVE  /\ view'[m] = old'[m]
                    /\ \A q \in new'[m] : <<q, m>> \in later' => Near(pos'[m], pos'[q])
  BY DEF ListInv, Near, Within
<1> USE DEF At, Goto
<1>1. /\ m \in Objects /\ m \in Monsters \ doubled /\ Objects \subseteq Actors
      /\ old \in [Objects -> SUBSET Objects] /\ new \in [Actors -> SUBSET Objects]
      /\ phase \in [Actors -> Phases \cup MonsterPhases]
      /\ view \in [Objects -> SUBSET Objects]
      /\ later \subseteq Objects \X Objects
  BY SparesOthers DEF Objects, Actors, TypeInv, Typed, ViewTypes, Spares
<1>2. CASE a = m /\ Check(m, m)
  <2>1. new'[m] = {} /\ old'[m] = view[m] /\ view' = view
    BY <1>1, <1>2 DEF Check
  <2> QED BY <2>1
<1>3. CASE ~(a = m /\ Check(m, m))
  <2>1. phase[m] \in {"look", "post", "part"}
    <3>1. CASE a # m
      BY <1>1, <3>1, SparesOthers DEF Spares
    <3>2. CASE a = m
      BY <1>3, <3>2, MonsterPhase
    <3> QED BY <3>1, <3>2
  <2>2. Execute(a) => phase[m] # "idle"
    BY <2>1
  <2>3. ~(a = m /\ (Parted(m, m) \/ Sleep(m, m) \/ Return(m, m)))
    BY <1>1 DEF Parted, Sleep, Return
  <2>4. view'[m] = old'[m]
    BY <1>1, <1>3, <2>1, <2>2, <2>3, ListStep DEF ListInv
  <2>5. ASSUME NEW q \in new'[m], <<q, m>> \in later'
        PROVE  q \in Objects /\ pos'[m] = pos[m] /\ pos'[q] = pos[q] /\ <<q, m>> \in later
    <3>1. ~(a = m /\ Comes(a))
      BY <2>1, MonsterPhase DEF Comes
    <3>2. q \in Objects
      <4>1. MonstersNext
        BY DEF Step, MonstersNext, ViewNext, Handlers
      <4>2. new' \in [Actors -> SUBSET Objects]
        BY <4>1, StepTypes DEF TypeInv, Typed, ViewTypes
      <4> QED BY <1>1, <2>5, <4>2
    <3> QED BY <1>1, <2>5, <3>1, <3>2, LaterStep
  <2>6. ASSUME NEW q \in new'[m], <<q, m>> \in later' PROVE Near(pos[m], pos[q])
    <3>1. CASE q \in new[m]
      BY <1>1, <2>1, <2>5, <2>6, <3>1 DEF ListInv
    <3>2. CASE q \notin new[m]
      <4>1. a = m
        BY <1>1, <3>2, SparesOthers DEF Spares
      <4>2. Look(m, m)
        BY <1>1, <1>3, <2>1, <2>3, <3>2, <4>1, NextOfMonster, ObjectAssumption
           DEF Step, Execute, Visit, Seen, Post, Posted, Part, local
      <4> QED BY <1>1, <3>2, <4>2 DEF Look
    <3> QED BY <3>1, <3>2
  <2> QED BY <2>4, <2>5, <2>6
<1> QED BY <1>2, <1>3

\* The jobs of a player: none is about q, and the newest one about q is j.
NoJob(s, q) == \A i \in 1..Len(s) : s[i].who # q
Newest(s, q, j) ==
  \E i \in 1..Len(s) : /\ s[i] = j /\ j.who = q
                       /\ \A k \in 1..Len(s) : k > i => s[k].who # q

LEMMA JobAdded ==
  ASSUME NEW s \in Seq(Job), NEW j \in Job, NEW q
  PROVE  /\ j.who # q /\ NoJob(s, q) => NoJob(Append(s, j), q)
         /\ j.who # q => \A l : Newest(s, q, l) => Newest(Append(s, j), q, l)
         /\ j.who = q => Newest(Append(s, j), q, j)
<1> DEFINE t == Append(s, j)
<1>1. /\ t \in Seq(Job) /\ Len(t) = Len(s) + 1 /\ Len(s) \in Nat
      /\ \A i \in 1..Len(s) : t[i] = s[i]
      /\ t[Len(s) + 1] = j
  OBVIOUS
<1> HIDE DEF t
<1>2. \A i \in 1..Len(t) : (i \in 1..Len(s) /\ t[i] = s[i]) \/ (i = Len(s) + 1 /\ t[i] = j)
  BY <1>1
<1>3. j.who # q /\ NoJob(s, q) => NoJob(t, q)
  BY <1>2 DEF NoJob
<1>4. ASSUME j.who # q, NEW l, Newest(s, q, l) PROVE Newest(t, q, l)
  <2>1. PICK i \in 1..Len(s) : s[i] = l /\ l.who = q /\ \A k \in 1..Len(s) : k > i => s[k].who # q
    BY <1>4 DEF Newest
  <2>2. i \in 1..Len(t) /\ t[i] = l
    BY <1>1, <2>1
  <2>3. \A k \in 1..Len(t) : k > i => t[k].who # q
    BY <1>2, <1>4, <2>1
  <2> QED BY <2>1, <2>2, <2>3 DEF Newest
<1>5. ASSUME j.who = q PROVE Newest(t, q, j)
  <2>1. Len(s) + 1 \in 1..Len(t) /\ \A k \in 1..Len(t) : ~(k > Len(s) + 1)
    BY <1>1
  <2> QED BY <1>1, <1>5, <2>1 DEF Newest
<1> QED BY <1>3, <1>4, <1>5 DEF t

LEMMA JobTaken ==
  ASSUME NEW s \in Seq(Job), s # <<>>, NEW q
  PROVE  /\ Head(s) \in Job
         /\ NoJob(s, q) => NoJob(Tail(s), q) /\ Head(s).who # q
         /\ \A l : Newest(s, q, l) => (Head(s) = l /\ NoJob(Tail(s), q)) \/ Newest(Tail(s), q, l)
<1> DEFINE t == Tail(s)
<1>1. /\ t \in Seq(Job) /\ Len(t) = Len(s) - 1 /\ \A i \in 1..Len(t) : t[i] = s[i + 1]
      /\ Len(s) \in Nat \ {0} /\ Len(t) \in Nat
      /\ Head(s) = s[1] /\ 1 \in 1..Len(s) /\ s[1] \in Job
  OBVIOUS
<1> HIDE DEF t
<1>2. ASSUME NEW j \in 1..Len(t) PROVE j + 1 \in 1..Len(s) /\ t[j] = s[j + 1] /\ j + 1 > 1
  BY <1>1
<1>3. NoJob(s, q) => NoJob(t, q) /\ Head(s).who # q
  BY <1>1, <1>2 DEF NoJob
<1>4. ASSUME NEW l, Newest(s, q, l) PROVE (Head(s) = l /\ NoJob(t, q)) \/ Newest(t, q, l)
  <2>1. PICK i \in 1..Len(s) : s[i] = l /\ l.who = q /\ \A k \in 1..Len(s) : k > i => s[k].who # q
    BY <1>4 DEF Newest
  <2>2. CASE i = 1
    BY <1>1, <1>2, <2>1, <2>2 DEF NoJob
  <2>3. CASE i # 1
    <3>1. i - 1 \in 1..Len(t) /\ (i - 1) + 1 = i /\ t[i - 1] = l
      BY <1>1, <2>1, <2>3
    <3>2. ASSUME NEW k \in 1..Len(t), k > i - 1 PROVE t[k].who # q
      <4>1. k + 1 > i
        BY <3>1, <3>2
      <4> QED BY <1>2, <2>1, <4>1
    <3> QED BY <2>1, <3>1, <3>2 DEF Newest
  <2> QED BY <2>2, <2>3
<1> QED BY <1>1, <1>3, <1>4 DEF t

\* A player's jobs are posted by whom they are about, and run in their order.
LEMMA JobsStep ==
  ASSUME TypeInv, OwnersInv, NEW a \in Objects, Step(a), NEW p \in Players
  PROVE  \/ jobs'[p] = jobs[p]
         \/ a = p /\ RunJob(a) /\ jobs[p] # <<>> /\ jobs'[p] = Tail(jobs[p])
         \/ /\ Execute(a) /\ view' = view
            /\ \E j \in Job :
                 /\ jobs'[p] = Append(jobs[p], j) /\ j.who = a /\ j.at = pos[a]
                 /\ Head(script[a]) = Op(j.do, p, a) /\ Enqueue(a, Head(script[a]), Tail(script[a]))
                 /\ j.do = "lose" => phase[a] \in {"drop", "part", "bye"}
                 /\ j.do # "lose" => phase[a] \in {"tell", "post"}
<1>0. jobs \in [Players -> Seq(Job)] /\ pos \in [Objects -> Positions]
  BY DEF TypeInv, Typed, ViewTypes
<1>1. CASE Execute(a)
  <2> DEFINE h == Head(script[a])
             r == Tail(script[a])
  <2>1. h \in Access /\ Sound(h) /\ Has(a, h)
    <3>1. script[a] # <<>> /\ script[a] \in Seq(Access) /\ Chained(script[a])
      BY <1>1 DEF Execute, TypeInv, Typed, ViewTypes, ShapeInv, ScriptInv, Actors
    <3> QED BY <3>1, TailChained, InHeadTail DEF Has
  <2>2. \/ Enqueue(a, h, r) \/ Meet(a, h, r) \/ WakeUp(a, h, r)
        \/ Rouse(a, h, r) \/ Clear(a, h, r) \/ Scan(a, h, r) \/ Begin(a, h, r)
        \/ Insert(a, h, r) \/ Erase(a, h, r) \/ Show(a, h, r) \/ Hide(a, h, r)
    BY <1>1 DEF Execute
  <2>3. CASE Enqueue(a, h, r) /\ h.of = p
    <3> DEFINE j == [do |-> h.op, who |-> h.obj, at |-> pos[h.obj]]
    <3>1. h.op \in JobKinds /\ jobs'[p] = Append(jobs[p], j) /\ view' = view
      BY <1>0, <2>3 DEF Enqueue
    <3>2. Whose(a, h)
      BY <2>1 DEF OwnersInv
    <3>3. h.obj = a /\ j \in Job /\ h = Op(h.op, p, a)
      BY <1>0, <2>1, <2>3, <3>1, <3>2 DEF Whose, JobKinds, Job, Access, Op
    <3>4. /\ h.op = "lose" => phase[a] \in {"drop", "part", "bye"}
          /\ h.op # "lose" => phase[a] \in {"tell", "post"}
      BY <3>1, <3>2 DEF Whose, JobKinds
    <3>5. j.do = h.op /\ j.who = a /\ j.at = pos[a]
      BY <3>3
    <3> QED BY <1>1, <2>3, <3>1, <3>3, <3>4, <3>5
  <2>4. CASE Enqueue(a, h, r) /\ h.of # p
    BY <1>0, <2>4 DEF Enqueue
  <2> QED BY <2>2, <2>3, <2>4 DEF Meet, WakeUp, Rouse, Clear, Scan, Begin, Insert, Erase, Show, Hide
<1>2. CASE a \in Players /\ RunJob(a)
  BY <1>0, <1>2 DEF RunJob
<1>3. CASE a \in Players /\ (Entering(a) \/ Stirring(a) \/ Checking(a))
  BY <1>3 DEF Entering, Login, Enter, Greet, Greeted, Register, Stirring, Move, Die, Leave,
     Arrive, Stand, Checking, Check, Visit, Look, Looked
<1>4. CASE a \in Players /\ (Telling(a) \/ Leaving(a) \/ Killing(a))
  BY <1>4 DEF Telling, Tell, Told, Drop, Dropped, Leaving, Logout, Bye, Gone, Killing, Hit, Kill,
     Mourn, Mourned, Bury, Buried
<1>5. CASE a \in Monsters /\ (Walking(a, a) \/ Watching(a, a))
  BY <1>5 DEF Walking, Update, Walk, Leave, Join, Again, Watching, Check, Visit, Look, Sleep, Seen
<1>6. CASE a \in Monsters /\ (Posting(a, a) \/ Respawning(a, a))
  BY <1>6 DEF Posting, Post, Posted, Part, Parted, Respawning, Rise, Heal, Return, Appear, Appeared
<1> QED BY <1>1, <1>2, <1>3, <1>4, <1>5, <1>6 DEF Step, ViewStep, MonsterStep

\* The list of a player changes one entry at a time.
LEMMA ViewChange ==
  ASSUME TypeInv, NEW a \in Objects, Step(a), NEW p \in Players, NEW q \in Objects
  PROVE  \/ q \in view'[p] <=> q \in view[p]
         \/ Execute(a) /\ Head(script[a]) = Op("insert", p, q) /\ q \in view'[p]
         \/ Execute(a) /\ Head(script[a]) = Op("erase", p, q) /\ q \notin view'[p]
<1>1. CASE Execute(a)
  <2> DEFINE h == Head(script[a])
             r == Tail(script[a])
  <2>0. view \in [Objects -> SUBSET Objects] /\ p \in Objects /\ p \notin Monsters
    BY ObjectAssumption DEF TypeInv, Typed, ViewTypes, Objects
  <2>1. h \in Access /\ Sound(h)
    BY <1>1, TailChained DEF Execute, TypeInv, Typed, ViewTypes, ShapeInv, ScriptInv, Actors
  <2>2. \/ Enqueue(a, h, r) \/ Meet(a, h, r) \/ WakeUp(a, h, r)
        \/ Rouse(a, h, r) \/ Clear(a, h, r) \/ Scan(a, h, r) \/ Begin(a, h, r)
        \/ Insert(a, h, r) \/ Erase(a, h, r) \/ Show(a, h, r) \/ Hide(a, h, r)
    BY <1>1 DEF Execute
  <2>3. h = Op(h.op, h.of, h.obj)
    BY <2>1 DEF Access, Op
  <2> HIDE DEF h, r
  <2>4. CASE Clear(a, h, r) \/ Scan(a, h, r)
    <3>1. h.of # p
      BY <2>0, <2>1, <2>4 DEF Clear, Scan, Sound, Waking
    <3>2. view' = view \/ \E v : view' = [view EXCEPT ![h.of] = v]
      BY <2>4 DEF Clear, Scan
    <3> QED BY <2>0, <3>1, <3>2
  <2>5. CASE Insert(a, h, r)
    <3>1. h.op = "insert" /\ view' = [view EXCEPT ![h.of] = @ \cup {h.obj}]
      BY <2>5 DEF Insert
    <3>2. CASE h.of = p /\ h.obj = q
      BY <1>1, <2>0, <2>3, <3>1, <3>2 DEF h
    <3>3. CASE ~(h.of = p /\ h.obj = q)
      BY <2>0, <3>1, <3>3
    <3> QED BY <3>2, <3>3
  <2>6. CASE Erase(a, h, r)
    <3>1. h.op = "erase" /\ view' = [view EXCEPT ![h.of] = @ \ {h.obj}]
      BY <2>6 DEF Erase
    <3>2. CASE h.of = p /\ h.obj = q
      BY <1>1, <2>0, <2>3, <3>1, <3>2 DEF h
    <3>3. CASE ~(h.of = p /\ h.obj = q)
      BY <2>0, <3>1, <3>3
    <3> QED BY <3>2, <3>3
  <2>7. CASE \/ Enqueue(a, h, r) \/ Meet(a, h, r) \/ Show(a, h, r) \/ Hide(a, h, r)
             \/ WakeUp(a, h, r) \/ Rouse(a, h, r) \/ Begin(a, h, r)
    BY <2>7 DEF Enqueue, Meet, Show, Hide, WakeUp, Rouse, Begin
  <2> QED BY <2>2, <2>4, <2>5, <2>6, <2>7
<1>2. CASE ~Execute(a)
  BY <1>2, StepActs, Outside DEF Actors
<1> QED BY <1>1, <1>2

\* Where a player is when he stays where he is.
Calm == {"idle", "kill", "mourn", "bury", "bye"}

LEMMA CalmStep ==
  ASSUME TypeInv, NEW a \in Objects, Step(a), NEW p \in Players, phase[p] \in Calm,
         NEW q \in Objects, <<p, q>> \in later'
  PROVE  phase'[p] \in Calm
<1> USE DEF At, Goto
<1>1. /\ phase \in [Actors -> Phases \cup MonsterPhases]
      /\ p \in Objects /\ p \in Actors /\ p \notin Monsters
  BY ObjectAssumption DEF TypeInv, Typed, ViewTypes, Objects, Actors
<1>2. CASE a # p
  BY <1>1, <1>2, SparesOthers DEF Spares
<1>3. CASE a = p /\ (Execute(p) \/ RunJob(p))
  BY <1>3 DEF Execute, RunJob
<1>4. CASE a = p /\ (Login(p) \/ \E at : Stand(p, at))
  <2>1. \E s : TakePlace(p, s)
    BY <1>4 DEF Login, Stand
  <2> QED BY <2>1 DEF TakePlace
<1>5. CASE a = p /\ Entering(p)
  BY <1>4, <1>5 DEF Entering, Enter, Greet, Greeted, Register, Calm
<1>6. CASE a = p /\ Stirring(p)
  BY <1>4, <1>6 DEF Stirring, Move, Die, Leave, Arrive, Calm
<1>7. CASE a = p /\ (Checking(p) \/ Telling(p))
  BY <1>1, <1>7 DEF Checking, Check, Visit, Look, Looked, Telling, Tell, Told, Drop, Dropped, Calm
<1>8. CASE a = p /\ (Killing(p) \/ Leaving(p))
  BY <1>1, <1>8 DEF Killing, Hit, Kill, Mourn, Mourned, Bury, Buried, Leaving, Logout, Bye, Gone, Calm
<1> QED BY <1>1, <1>2, <1>3, <1>5, <1>6, <1>7, <1>8 DEF Step, ViewStep

\* The last job of p about m takes m out of his list.
LastLose(p, m) == \E j : Newest(jobs[p], m, j) /\ j.do = "lose"

\* How far m, which is out of the sight of p, has come in leaving his list.
Parting(p, m) ==
  \/ phase[m] \in {"leave", "arrive", "check", "look", "post"}
  \/ phase[m] = "part" /\ p \in todo[m]
  \/ Has(m, Op("lose", p, m))
  \/ LastLose(p, m)
  \/ phase[p] = "idle" /\ script[p] = RemoveObjectFromView(p, m) /\ NoJob(jobs[p], m)
  \/ phase[p] \in Calm /\ m \notin view[p] /\ ~Has(p, Op("insert", p, m)) /\ NoJob(jobs[p], m)

LeaveInv ==
  \A m \in awake \ doubled, p \in Players :
    <<p, m>> \in later /\ p \in old[m] /\ ~Near(pos[p], pos[m]) => Parting(p, m)

\* The jobs of p about m.
LEMMA LoseStep ==
  ASSUME TypeInv, OwnersInv, NEW a \in Objects, Step(a), NEW p \in Players, NEW m \in Monsters
  PROVE  /\ NoJob(jobs[p], m) => \/ NoJob(jobs'[p], m)
                                \/ LastLose(p, m)'
                                \/ phase'[m] = "post"
         /\ LastLose(p, m) => \/ LastLose(p, m)'
                              \/ phase'[m] = "post"
                              \/ /\ phase'[p] = "idle" /\ NoJob(jobs'[p], m)
                                 /\ script'[p] = RemoveObjectFromView(p, m)
<1>0. /\ jobs \in [Players -> Seq(Job)] /\ jobs[p] \in Seq(Job)
      /\ script \in [Actors -> Seq(Access)]
      /\ p \in Objects /\ m \in Objects /\ Objects \subseteq Actors
      /\ phase[m] \in MonsterPhases
  BY ObjectAssumption DEF TypeInv, Typed, ViewTypes, ShapeInv, PhaseInv, Objects, Actors
<1>1. CASE jobs'[p] = jobs[p]
  BY <1>1 DEF LastLose
<1>2. CASE a = p /\ RunJob(a) /\ jobs[p] # <<>> /\ jobs'[p] = Tail(jobs[p])
  <2>1. NoJob(jobs[p], m) => NoJob(jobs'[p], m)
    BY <1>0, <1>2, JobTaken
  <2>2. LastLose(p, m) => \/ LastLose(p, m)'
                          \/ NoJob(jobs'[p], m) /\ Head(jobs[p]).who = m /\ Head(jobs[p]).do = "lose"
    <3> SUFFICES ASSUME NEW l, Newest(jobs[p], m, l), l.do = "lose"
                 PROVE  \/ Newest(jobs'[p], m, l)
                        \/ NoJob(jobs'[p], m) /\ Head(jobs[p]).who = m /\ Head(jobs[p]).do = "lose"
      BY DEF LastLose
    <3>1. l.who = m
      BY DEF Newest
    <3>2. (Head(jobs[p]) = l /\ NoJob(Tail(jobs[p]), m)) \/ Newest(Tail(jobs[p]), m, l)
      BY <1>0, <1>2, JobTaken
    <3> QED BY <1>2, <3>1, <3>2
  <2>3. ASSUME Head(jobs[p]).who = m, Head(jobs[p]).do = "lose"
        PROVE  phase'[p] = "idle" /\ script'[p] = RemoveObjectFromView(p, m)
    BY <1>0, <1>2, <2>3 DEF RunJob, Ready, At, Rest
  <2> QED BY <2>1, <2>2, <2>3
<1>3. CASE /\ Execute(a)
           /\ \E j \in Job :
                /\ jobs'[p] = Append(jobs[p], j) /\ j.who = a
                /\ j.do # "lose" => phase[a] \in {"tell", "post"}
  <2>1. PICK j \in Job : /\ jobs'[p] = Append(jobs[p], j) /\ j.who = a
                         /\ j.do # "lose" => phase[a] \in {"tell", "post"}
    BY <1>3
  <2>2. CASE a # m
    <3>1. NoJob(jobs[p], m) => NoJob(jobs'[p], m)
      BY <1>0, <2>1, <2>2, JobAdded
    <3>2. \A l : Newest(jobs[p], m, l) => Newest(jobs'[p], m, l)
      BY <1>0, <2>1, <2>2, JobAdded
    <3> QED BY <3>1, <3>2 DEF LastLose
  <2>3. CASE a = m /\ j.do = "lose"
    <3>1. Newest(jobs'[p], m, j)
      BY <1>0, <2>1, <2>3, JobAdded
    <3> QED BY <2>3, <3>1 DEF LastLose
  <2>4. CASE a = m /\ j.do # "lose"
    BY <1>0, <1>3, <2>1, <2>4 DEF MonsterPhases, Execute
  <2> QED BY <2>2, <2>3, <2>4
<1> QED BY <1>1, <1>2, <1>3, JobsStep

\* m has asked p to take it out of his list.
LEMMA LosePosted ==
  ASSUME TypeInv, NEW p \in Players, NEW m \in Monsters, Execute(m),
         Head(script[m]) = Op("lose", p, m)
  PROVE  LastLose(p, m)'
<1> DEFINE h == Head(script[m])
           j == [do |-> "lose", who |-> m, at |-> pos[m]]
<1>1. h.op = "lose" /\ h.of = p /\ h.obj = m
  BY DEF Op
<1>2. jobs \in [Players -> Seq(Job)] /\ jobs[p] \in Seq(Job) /\ j \in Job
  BY DEF TypeInv, Typed, ViewTypes, Job, JobKinds, Objects
<1>3. Enqueue(m, h, Tail(script[m]))
  BY <1>1 DEF Execute, Meet, WakeUp, Rouse, Clear, Scan, Begin, Insert, Erase, Show, Hide
<1>4. jobs'[p] = Append(jobs[p], j)
  BY <1>1, <1>2, <1>3 DEF Enqueue
<1>5. j.who = m /\ j.do = "lose"
  OBVIOUS
<1> HIDE DEF j
<1>6. Newest(Append(jobs[p], j), m, j)
  BY <1>2, <1>5, JobAdded
<1> QED BY <1>4, <1>5, <1>6 DEF LastLose

\* m asks to be forgotten.
LEMMA AskStep ==
  ASSUME TypeInv, OwnersInv, ListInv, NEW a \in Objects, Step(a),
         NEW p \in Players, NEW m \in Monsters \ doubled, m \in awake', ~Near(pos[p], pos[m]), p \in old[m],
         <<p, m>> \in later,
         \/ phase[m] \in {"leave", "arrive", "check", "look", "post"}
         \/ phase[m] = "part" /\ p \in todo[m]
         \/ Has(m, Op("lose", p, m))
  PROVE  Parting(p, m)'
<1>0. /\ phase \in [Actors -> Phases \cup MonsterPhases]
      /\ todo \in [Actors -> SUBSET Objects]
      /\ script \in [Actors -> Seq(Access)]
      /\ m \in Objects /\ p \in Objects /\ m \notin Players /\ Objects \subseteq Actors /\ m \in Actors
  BY ObjectAssumption DEF TypeInv, Typed, ViewTypes, Objects, Actors
<1>1. CASE a # m
  BY <1>0, <1>1, SparesOthers DEF Spares, Parting, Has
<1>2. CASE a = m /\ Execute(m)
  <2>1. phase' = phase /\ todo' = todo
    BY <1>2 DEF Execute
  <2>2. Has(m, Op("lose", p, m)) => Head(script[m]) = Op("lose", p, m) \/ Has(m, Op("lose", p, m))'
    BY <1>0, <1>2, HasKept DEF Op
  <2>3. Head(script[m]) = Op("lose", p, m) => LastLose(p, m)'
    BY <1>2, LosePosted
  <2> QED BY <2>1, <2>2, <2>3 DEF Parting
<1>3. CASE a = m /\ ~Execute(m)
  <2>1. script[m] = <<>> /\ ~Has(m, Op("lose", p, m))
    BY <1>3, StepActs, TurnDone, InNone DEF Has
  <2>2. MonsterStep(m, m)
    BY <1>0, <1>3 DEF Step
  <2>3. CASE phase[m] \in {"leave", "arrive", "check", "look", "post"}
    <3>1. CASE phase'[m] = phase[m]
      BY <2>3, <3>1 DEF Parting
    <3>2. CASE Posted(m, m)
      <4>1. p \notin new[m] /\ view[m] = old[m]
        BY <3>2 DEF ListInv, Posted, At, Near, Within
      <4>2. phase'[m] = "part" /\ todo'[m] = view[m] \ new[m]
        BY <1>0, <3>2 DEF Posted, Goto
      <4> QED BY <4>1, <4>2 DEF Parting
    <3>3. ~Sleep(m, m)
      BY DEF Sleep
    <3> QED BY <1>3, <2>3, <3>1, <3>2, <3>3, MonsterPhase DEF Parting
  <2>4. CASE phase[m] = "part" /\ p \in todo[m]
    <3>1. Part(m, m)
      BY <1>3, <2>2, <2>4, NextOfMonster DEF Parted
    <3>2. PICK q \in todo[m] : /\ todo' = [todo EXCEPT ![m] = @ \ {q}]
                               /\ script' = [script EXCEPT ![m] = <<Op("lose", q, m)>>]
      BY <3>1 DEF Part, Rest
    <3>3. phase' = phase
      BY <3>1 DEF Part
    <3>4. CASE q = p
      <4>1. script'[m] = <<Op("lose", p, m)>>
        BY <1>0, <3>2, <3>4
      <4> QED BY <4>1, InOne DEF Has, Parting
    <3>5. CASE q # p
      <4>1. p \in todo'[m]
        BY <1>0, <2>4, <3>2, <3>5
      <4> QED BY <2>4, <3>3, <4>1 DEF Parting
    <3> QED BY <3>4, <3>5
  <2> QED BY <2>1, <2>3, <2>4
<1> QED BY <1>1, <1>2, <1>3

\* p takes m out of his list, and nobody puts it back.
LEMMA ForgetStep ==
  ASSUME TypeInv, OwnersInv, SleepInv, NEW a \in Objects, Step(a),
         NEW p \in Players, NEW m \in Monsters \ doubled, p \in old[m], <<p, m>> \in later',
         \/ phase[p] = "idle" /\ script[p] = RemoveObjectFromView(p, m)
         \/ phase[p] \in Calm /\ m \notin view[p] /\ ~Has(p, Op("insert", p, m)),
         NoJob(jobs[p], m)
  PROVE  \/ phase'[p] = "idle" /\ script'[p] = RemoveObjectFromView(p, m)
         \/ phase'[p] \in Calm /\ m \notin view'[p] /\ ~Has(p, Op("insert", p, m))'
<1> DEFINE x == Op("insert", p, m)
<1>0. /\ phase \in [Actors -> Phases \cup MonsterPhases]
      /\ jobs \in [Players -> Seq(Job)]
      /\ view \in [Objects -> SUBSET Objects]
      /\ script \in [Actors -> Seq(Access)]
      /\ m \in Objects /\ p \in Objects /\ m \notin Players /\ p \notin Monsters /\ Objects \subseteq Actors
      /\ phase[m] # "appear" /\ phase[m] \in MonsterPhases
  BY ObjectAssumption DEF TypeInv, Typed, ViewTypes, Objects, SleepInv, ShapeInv, PhaseInv, Actors
<1>1. x \in Access /\ x.op = "insert" /\ x.of = p /\ x.obj = m
  BY <1>0 DEF Op, Access
<1>2. phase'[p] \in Calm
  BY <1>0, CalmStep DEF Calm
<1>3. CASE phase[p] = "idle" /\ script[p] = RemoveObjectFromView(p, m)
  <2>1. CASE a # p
    BY <1>0, <1>3, <2>1, SparesOthers DEF Spares
  <2>2. CASE a = p
    <3> DEFINE s == script[p]
    <3> DEFINE y == Op("erase", p, m)
               z == Op("hide", p, m)
    <3>1. <<y, z>> \in Seq({y, z})
      OBVIOUS
    <3>2. PICK t \in Seq({y, z}) : t = <<y, z>>
      BY <3>1
    <3>3. s # <<>> /\ Head(s) = y
      <4>1. t # <<>> /\ Head(t) = y
        BY <3>2
      <4> QED BY <1>3, <3>2, <4>1 DEF RemoveObjectFromView
    <3>4. Execute(p)
      BY <2>2, <3>3, StepActs, TurnDone
    <3>5. y.op = "erase" /\ y.of = p /\ y.obj = m
      BY DEF Op
    <3>6. Erase(p, y, Tail(s))
      BY <3>3, <3>4, <3>5 DEF Execute, Enqueue, Meet, WakeUp, Rouse, Clear, Scan, Begin, Insert,
         Show, Hide, JobKinds
    <3>7. m \notin view'[p]
      BY <1>0, <3>5, <3>6 DEF Erase
    <3>8. ~Has(p, x)'
      <4>1. ~Has(p, x)
        BY <1>1, <1>3, TurnLemma DEF Has, Op
      <4>2. ASSUME NEW h, Has(p, h) PROVE h.op # "meet"
        <5>1. h \in {Op("erase", p, m), Op("hide", p, m)}
          BY <1>3, <4>2, TurnLemma DEF Has
        <5> QED BY <5>1 DEF Op
      <4>3. x.op \notin Waking
        BY <1>1 DEF Waking
      <4> QED BY <2>2, <3>4, <4>1, <4>2, <4>3, HasAfter
    <3> QED BY <1>2, <3>7, <3>8
  <2> QED BY <2>1, <2>2
<1>4. CASE phase[p] \in Calm /\ m \notin view[p] /\ ~Has(p, x)
  <2>1. m \notin view'[p]
    <3>1. ASSUME Execute(a), Head(script[a]) = x PROVE FALSE
      <4>1. Has(a, x)
        BY <1>0, <3>1, InHeadTail DEF Execute, Has
      <4>2. Whose(a, x)
        BY <1>1, <4>1 DEF OwnersInv
      <4>3. p = a \/ (m = a /\ phase[a] \in {"greet", "appear"})
        BY <1>1, <4>2 DEF Whose
      <4> QED BY <1>0, <1>4, <4>1, <4>3 DEF MonsterPhases
    <3> QED BY <1>0, <1>4, <3>1, ViewChange
  <2>2. ASSUME Has(p, x)' PROVE FALSE
    <3>1. a = p
      BY <1>0, <1>4, <2>2, SparesOthers DEF Spares, Has
    <3>2. CASE Execute(p)
      <4>1. PICK h \in Access : Has(p, h) /\ h.op = "meet"
        BY <1>1, <1>4, <2>2, <3>1, <3>2, HasAfter DEF Waking
      <4>2. phase[p] = "greet"
        BY <1>0, <4>1 DEF OwnersInv, Whose
      <4> QED BY <1>4, <4>2 DEF Calm
    <3>3. CASE ~Execute(p)
      <4>1. ~Greet(p) /\ ~Tell(p) /\ ~Drop(p)
        BY <1>4 DEF Greet, Tell, Drop, At, Calm
      <4>2. /\ \A q : x # Op("lose", q, p)
            /\ \A q : x # Op("erase", q, prey[p]) /\ x # Op("hide", q, prey[p])
            /\ \A q : x # Op("erase", p, q) /\ x # Op("hide", p, q)
            /\ \A q : x \in {Op("insert", p, q), Op("show", p, q)} => q = m
        BY DEF Op
      <4>3. /\ RunJob(p)
            /\ x \in LET j == Head(jobs[p])
                     IN  IF j.do = "lose" THEN {Op("erase", p, j.who), Op("hide", p, j.who)}
                         ELSE {Op("insert", p, j.who), Op("show", p, j.who)}
        <5> HIDE DEF x
        <5>1. ~(\E q \in todo[p] : x = Op("lose", q, p))
          BY <4>2
        <5>2. ~(\E q \in todo[p] : x \in {Op("erase", q, prey[p]), Op("hide", q, prey[p])})
          BY <4>2
        <5>3. p \in Objects /\ Step(p) /\ ~Execute(p) /\ Has(p, x)'
          BY <1>0, <2>2, <3>1, <3>3 DEF x
        <5> QED BY <1>0, <4>1, <5>1, <5>2, <5>3, NewTurn
      <4>5. Head(jobs[p]).who = m
        <5> HIDE DEF x
        <5> QED BY <4>2, <4>3
      <4>4. jobs[p] # <<>> /\ Head(jobs[p]).who # m
        BY <1>0, <4>3, JobTaken DEF RunJob
      <4> QED BY <4>4, <4>5
    <3> QED BY <3>1, <3>2, <3>3
  <2> QED BY <1>2, <2>1, <2>2
<1> QED BY <1>3, <1>4

LEMMA LeaveStep ==
  ASSUME TypeInv, LastInv, OwnersInv, SleepInv, ListInv, LeaveInv, NEW a \in Objects, Step(a)
  PROVE  LeaveInv'
<1> SUFFICES ASSUME NEW m \in Monsters \ doubled', m \in awake', NEW p \in Players,
                    <<p, m>> \in later', p \in old'[m], ~Near(pos'[p], pos'[m])
             PROVE  Parting(p, m)'
  <2>1. TypeInv'
    BY StepSolo DEF Step, MonstersNext, ViewNext, Handlers
  <2> QED BY <2>1 DEF LeaveInv, TypeInv, Typed, ViewTypes, Near, Within
<1>0. /\ phase \in [Actors -> Phases \cup MonsterPhases]
      /\ old \in [Objects -> SUBSET Objects]
      /\ m \in Objects /\ p \in Objects /\ m \in Actors /\ m \in Monsters \ doubled
  BY SparesOthers DEF TypeInv, Typed, ViewTypes, Objects, Actors, Spares
<1>1. CASE a = m /\ Comes(a)
  <2>1. phase'[m] # "appear"
    BY SleepStep DEF SleepInv
  <2>2. phase'[m] # "enter"
    <3>1. TypeInv'
      BY StepSolo DEF Step, MonstersNext, ViewNext, Handlers
    <3> QED BY <1>0, <3>1, ObjectAssumption DEF TypeInv, Typed, ShapeInv, PhaseInv, MonsterPhases
  <2> QED BY <1>1, <2>1, <2>2 DEF Comes, Parting
<1>2. CASE a = m /\ Check(m, m)
  <2>1. phase'[m] = "look"
    BY <1>0, <1>2 DEF Check, Goto
  <2> QED BY <2>1 DEF Parting
<1>3. CASE ~(a = m /\ Comes(a)) /\ ~(a = m /\ Check(m, m))
  <2>1. <<p, m>> \in later /\ pos'[p] = pos[p] /\ pos'[m] = pos[m]
    BY <1>0, <1>3, LaterStep
  <2>2. old'[m] = old[m]
    <3>1. Sleep(m, m) \/ Return(m, m) => old'[m] = {}
      BY <1>0 DEF Sleep, Return
    <3> QED BY <1>3, <3>1, ListStep
  <2>3. m \in awake /\ p \in old[m]
    BY <1>0, <2>2 DEF SleepInv
  <2>4. ~Near(pos[p], pos[m])
    BY <2>1 DEF Near, Within
  <2>5. Parting(p, m)
    BY <1>0, <2>1, <2>3, <2>4 DEF LeaveInv
  <2>6. CASE \/ phase[m] \in {"leave", "arrive", "check", "look", "post"}
             \/ phase[m] = "part" /\ p \in todo[m]
             \/ Has(m, Op("lose", p, m))
    BY <1>0, <2>1, <2>3, <2>4, <2>6, AskStep
  <2>7. CASE LastLose(p, m)
    BY <2>7, LoseStep DEF Parting
  <2>8. CASE /\ \/ phase[p] = "idle" /\ script[p] = RemoveObjectFromView(p, m)
                \/ phase[p] \in Calm /\ m \notin view[p] /\ ~Has(p, Op("insert", p, m))
             /\ NoJob(jobs[p], m)
    BY <1>0, <2>3, <2>8, ForgetStep, LoseStep DEF Parting
  <2> QED BY <2>5, <2>6, <2>7, <2>8 DEF Parting
<1> QED BY <1>1, <1>2, <1>3

LEMMA ForgetInit == ViewInit => SleepInv /\ ListInv /\ LeaveInv
<1> SUFFICES ASSUME ViewInit PROVE SleepInv /\ ListInv /\ LeaveInv
  OBVIOUS
<1>1. /\ \A m \in Monsters : phase[m] = "idle" /\ old[m] = {}
      /\ later = {}
  BY DEF ViewInit, Objects, Actors
<1> QED BY <1>1 DEF SleepInv, ListInv, LeaveInv

LEMMA ForgetAside == SleepInv /\ ListInv /\ LeaveInv /\ TypeInv /\ TypeInv' /\ Aside => (SleepInv /\ ListInv /\ LeaveInv)'
<1> SUFFICES ASSUME SleepInv, ListInv, LeaveInv, TypeInv, TypeInv', Aside PROVE (SleepInv /\ ListInv /\ LeaveInv)'
  OBVIOUS
<1> USE DEF Aside, AsideOwn
<1>1. ASSUME NEW m \in Monsters \ doubled'
      PROVE  /\ m \in Monsters \ doubled /\ m \in Objects \ doubled'
             /\ phase'[m] = phase[m] /\ script'[m] = script[m] /\ todo'[m] = todo[m] /\ new'[m] = new[m]
             /\ pos'[m] = pos[m] /\ old'[m] = old[m]
             /\ (m \in awake' <=> m \in awake) /\ view'[m] = view[m]
  BY DEF Objects, AsideMonsters
<1>2. \A p \in Players : p \in Objects \ doubled' /\ pos'[p] = pos[p]
  BY ObjectAssumption DEF Objects
<1>3. SleepInv'
  BY <1>1 DEF SleepInv
<1>4. ListInv'
  <2> SUFFICES ASSUME NEW m \in Monsters \ doubled', phase'[m] \in {"look", "post", "part"}
               PROVE  /\ view'[m] = old'[m]
                      /\ \A q \in new'[m] : <<q, m>> \in later' => Near(pos'[m], pos'[q])
    BY DEF ListInv, Near, Within
  <2>1. /\ view[m] = old[m]
        /\ \A q \in new[m] : <<q, m>> \in later => Near(pos[m], pos[q])
    BY <1>1 DEF ListInv
  <2>2. new[m] \subseteq Players
    BY ObjectAssumption DEF TypeInv, Typed, ShapeInv, WatchersInv, Actors, Objects
  <2>3. \A q \in new[m] : pos'[q] = pos[q] /\ (<<q, m>> \in later' <=> <<q, m>> \in later)
    BY <1>1, <1>2, <2>2 DEF AsidePairs
  <2> QED BY <1>1, <2>1, <2>3
<1>5. LeaveInv'
  <2> SUFFICES ASSUME NEW m \in awake' \ doubled', NEW p \in Players,
                      <<p, m>> \in later', p \in old'[m], ~Near(pos'[p], pos'[m])
               PROVE  Parting(p, m)'
    BY DEF LeaveInv, Near, Within
  <2>0. m \in Monsters
    BY DEF TypeInv, Typed, ViewTypes
  <2>1. /\ m \in awake \ doubled /\ p \in old[m] /\ <<p, m>> \in later /\ ~Near(pos[p], pos[m])
    BY <1>1, <1>2, <2>0 DEF AsidePairs
  <2>2. Parting(p, m)
    BY <2>1 DEF LeaveInv
  <2>3. /\ phase'[p] = phase[p] /\ script'[p] = script[p] /\ (m \in view'[p] <=> m \in view[p])
    BY <1>1, <1>2, <2>0 DEF AsidePlayers
  <2>4. /\ NoJob(jobs[p], m) => NoJob(jobs'[p], m)
        /\ \A l : Newest(jobs[p], m, l) => Newest(jobs'[p], m, l)
    <3>1. CASE jobs'[p] = jobs[p]
      BY <3>1
    <3>2. CASE \E j \in Job : j.who \in doubled' /\ jobs'[p] = Append(jobs[p], j)
      <4>1. PICK j \in Job : j.who \in doubled' /\ jobs'[p] = Append(jobs[p], j)
        BY <3>2
      <4>2. j.who # m /\ jobs[p] \in Seq(Job)
        BY <4>1 DEF TypeInv, Typed, ViewTypes
      <4> QED BY <4>1, <4>2, JobAdded
    <3> QED BY <3>1, <3>2 DEF AsidePlayers
  <2> QED BY <1>1, <2>0, <2>2, <2>3, <2>4 DEF Parting, LastLose, Has
<1> QED BY <1>3, <1>4, <1>5

\* What is known of the monsters that leave.
ForgetInv == TypeInv /\ LastInv /\ OwnersInv /\ SleepInv /\ ListInv /\ LeaveInv

LEMMA ForgetAll ==
  ASSUME ForgetInv, NEW a \in Objects, Step(a)
  PROVE  (LastInv /\ OwnersInv /\ SleepInv /\ ListInv /\ LeaveInv)'
BY LastStep, OwnersStep, SleepStep, ListInvStep, LeaveStep DEF ForgetInv

\* A monster that is awake and has walked out of the view of a player who was in its
\* list is not in his list any more, once nothing is under way between them: the job
\* that CNpc's ViewListUpdate posts to him has run, and nothing has brought it back.
THEOREM MonstersLeave == MonstersSpec => []MonsterLeaves
<1>1. ViewInit => ForgetInv
  BY InitTypes, InitSolo, LastInit, OwnersInit, ForgetInit DEF ForgetInv, TypeInv
<1>2. ForgetInv /\ [MonstersNext]_vars => ForgetInv'
  BY ForgetAll, StepSolo, SomeStep, LastAside, OwnersAside, ForgetAside DEF ForgetInv
<1>3. ForgetInv => MonsterLeaves
  <2> SUFFICES ASSUME ForgetInv, NEW m \in awake \ doubled, NEW p \in Players,
                      <<p, m>> \in later, p \in old[m], ~Near(pos[p], pos[m]), Quiet(p, m)
               PROVE  m \notin view[p]
    BY DEF MonsterLeaves
  <2>1. Parting(p, m) /\ m \in Monsters
    BY DEF ForgetInv, LeaveInv, TypeInv, Typed, ViewTypes
  <2>2. phase[p] = "idle" /\ script[p] = <<>> /\ phase[m] = "idle" /\ script[m] = <<>>
    BY DEF Quiet, At
  <2>3. ~Has(m, Op("lose", p, m))
    BY <2>2, InNone DEF Has
  <2>4. ~LastLose(p, m)
    BY DEF Quiet, LastLose, Newest
  <2>5. script[p] # RemoveObjectFromView(p, m)
    <3>1. In(RemoveObjectFromView(p, m), Op("erase", p, m)) /\ ~In(<<>>, Op("erase", p, m))
      BY TurnLemma, InNone
    <3> QED BY <2>2, <3>1
  <2> QED BY <2>1, <2>2, <2>3, <2>4, <2>5 DEF Parting
<1> QED BY <1>1, <1>2, <1>3, PTL DEF MonstersSpec
-----------------------------------------------------------------------------
(* Those who come are seen.                                                *)

\* Whose health a step changes.
LEMMA LifeStep ==
  ASSUME TypeInv, NEW a \in Objects, Step(a)
  PROVE  \/ life' = life
         \/ a \in Players /\ (Hit(a) \/ Kill(a))
         \/ a \in Monsters /\ (Rise(a, a) \/ Heal(a, a))
<1> USE DEF lair
<1>1. CASE Execute(a) \/ RunJob(a) \/ Check(a, a) \/ Visit(a, a) \/ Look(a, a) \/ Looked(a)
  BY <1>1 DEF Execute, RunJob, Check, Visit, Look, Looked
<1>2. CASE \/ Entering(a) \/ Leave(a, a) \/ Arrive(a) \/ \E at : Stand(a, at)
           \/ Update(a, a) \/ Walk(a, a) \/ Join(a, a) \/ Again(a, a)
  BY <1>2 DEF Entering, Login, Enter, Greet, Greeted, Register, Leave, Arrive, Stand, Update,
     Walk, Join, Again
<1>3. CASE Telling(a) \/ Leaving(a)
  BY <1>3 DEF Telling, Tell, Told, Drop, Dropped, Leaving, Logout, Bye, Gone
<1>4. CASE a \in Players /\ Killing(a)
  BY <1>4 DEF Killing, Mourn, Mourned, Bury, Buried
<1>5. CASE Sleep(a, a) \/ Seen(a) \/ Posting(a, a)
  BY <1>5 DEF Sleep, Seen, Posting, Post, Posted, Part, Parted
<1>6. CASE a \in Monsters /\ Respawning(a, a)
  BY <1>6 DEF Respawning, Return, Appear, Appeared
<1>7. CASE a \in Players /\ ViewStep(a)
  BY <1>1, <1>2, <1>3, <1>4, <1>7 DEF ViewStep, Stirring, Checking, Move, Die
<1>8. CASE a \in Monsters /\ MonsterStep(a, a)
  BY <1>1, <1>2, <1>5, <1>6, <1>8 DEF MonsterStep, Walking, Watching
<1> QED BY <1>7, <1>8 DEF Step

\* A killer is at it from the blow on, and his prey is dead once he has seen to that.
PreyDeadInv ==
  \A t \in Players, m \in Monsters :
    prey[t] = m =>
      /\ phase[t] \in {"kill", "mourn", "bury"}
      /\ m \notin doubled /\ phase[t] # "kill" => life[m] = "dead"

LEMMA PreyDeadStep ==
  ASSUME TypeInv, PreyDeadInv, NEW a \in Objects, Step(a)
  PROVE  PreyDeadInv'
<1> USE DEF At, Goto
<1> SUFFICES ASSUME NEW t \in Players, NEW m \in Monsters, prey'[t] = m
             PROVE  /\ phase'[t] \in {"kill", "mourn", "bury"}
                    /\ m \notin doubled' /\ phase'[t] # "kill" => life'[m] = "dead"
  BY DEF PreyDeadInv
<1>0. /\ phase \in [Actors -> Phases \cup MonsterPhases]
      /\ prey \in [Players -> Monsters \cup {Nobody}]
      /\ life \in [Monsters -> {"alive", "down", "dead"}]
      /\ t \in Objects /\ t \in Actors /\ Nobody \notin Monsters
      /\ m \notin doubled' => m \notin doubled
  BY NobodyAssumption, SparesOthers DEF TypeInv, Typed, ViewTypes, Objects, Actors, Spares
<1>1. ASSUME prey[t] = m, life[m] = "dead" PROVE life'[m] = "dead"
  <2>1. CASE life' = life
    BY <1>1, <2>1
  <2>2. CASE a \in Players /\ Hit(a)
    BY <1>0, <1>1, <2>2 DEF Hit
  <2>3. CASE a \in Players /\ Kill(a)
    BY <1>0, <1>1, <2>3 DEF Kill
  <2>4. CASE a \in Monsters /\ (Rise(a, a) \/ Heal(a, a))
    BY <1>0, <1>1, <2>4 DEF Rise, Heal
  <2> QED BY <2>1, <2>2, <2>3, <2>4, LifeStep
<1>2. CASE t # a \/ Execute(a)
  <2>1. prey'[t] = prey[t]
    BY <1>2, PreyStep
  <2>2. phase'[t] = phase[t]
    BY <1>0, <1>2, SparesOthers DEF Spares, Execute
  <2> QED BY <1>0, <1>1, <2>1, <2>2 DEF PreyDeadInv
<1>3. CASE t = a /\ ~Execute(a)
  <2>0. ViewStep(t)
    BY <1>3, ObjectAssumption DEF Step
  <2>1. CASE Hit(t)
    BY <1>0, <2>1 DEF Hit
  <2>2. CASE Kill(t)
    BY <1>0, <2>2 DEF Kill, PreyDeadInv
  <2>3. CASE Mourn(t) \/ Mourned(t) \/ Bury(t)
    BY <1>0, <2>3 DEF Mourn, Mourned, Bury, lair, PreyDeadInv
  <2>4. ~Buried(t)
    BY <1>0 DEF Buried
  <2>5. CASE ~Killing(t)
    <3>1. prey'[t] = prey[t] /\ phase[t] \notin {"kill", "mourn", "bury"}
      BY <1>3, <2>0, <2>5 DEF ViewStep, Entering, Login, Enter, Greet, Greeted, Register, Stirring,
         Move, Die, Leave, Arrive, Stand, Checking, Check, Visit, Look, Looked, Telling, Tell, Told,
         Drop, Dropped, RunJob, Ready, Leaving, Logout, Bye, Gone, lair
    <3> QED BY <1>0, <3>1 DEF PreyDeadInv
  <2> QED BY <2>1, <2>2, <2>3, <2>4, <2>5 DEF Killing
<1> QED BY <1>2, <1>3

\* Nobody who is near is told to forget q.
DropInv ==
  \A q \in Objects, p \in Players :
    phase[q] \in {"drop", "part"} /\ (p \in todo[q] \/ Has(q, Op("lose", p, q))) => p \notin new[q]

LEMMA DropStep ==
  ASSUME TypeInv, OwnersInv, DropInv, NEW a \in Objects, Step(a)
  PROVE  DropInv'
<1> USE DEF At, Goto
<1> SUFFICES ASSUME NEW q \in Objects, NEW p \in Players, phase'[q] \in {"drop", "part"},
                    p \in todo'[q] \/ Has(q, Op("lose", p, q))'
             PROVE  p \notin new'[q]
  BY DEF DropInv
<1> DEFINE x == Op("lose", p, q)
<1>0. /\ phase \in [Actors -> Phases \cup MonsterPhases]
      /\ todo \in [Actors -> SUBSET Objects] /\ new \in [Actors -> SUBSET Objects]
      /\ script \in [Actors -> Seq(Access)]
      /\ q \in Players => q \notin Monsters
      /\ q \in Actors
  BY ObjectAssumption DEF TypeInv, Typed, ViewTypes, Actors
<1>1. CASE a # q
  BY <1>0, <1>1, SparesOthers DEF Spares, DropInv, Has
<1>2. CASE a = q /\ Execute(q)
  <2>1. phase' = phase /\ todo' = todo /\ new' = new
    BY <1>2 DEF Execute
  <2>2. Has(q, x)' => Has(q, x)
    BY <1>2, HasAfter DEF Op, Waking
  <2> QED BY <2>1, <2>2 DEF DropInv
<1>3. CASE a = q /\ ~Execute(q)
  <2>0. script[q] = <<>> /\ ~Has(q, x)
    BY <1>3, StepActs, TurnDone, InNone DEF Has
  <2>1. CASE Told(q) \/ Posted(q, q)
    <3>1. script' = script /\ new' = new /\ phase'[q] \in {"drop", "part"}
      BY <1>0, <2>1 DEF Told, Posted, local
    <3>2. ~Has(q, x)'
      BY <2>0, <3>1 DEF Has
    <3> QED BY <1>0, <2>1, <3>1, <3>2 DEF Told, Posted
  <2>2. CASE (q \in Players /\ Drop(q)) \/ (q \in Monsters /\ Part(q, q))
    <3>1. PICK r \in todo[q] : todo' = [todo EXCEPT ![q] = @ \ {r}]
      BY <2>2 DEF Drop, Part
    <3>2. new' = new /\ phase' = phase /\ phase[q] \in {"drop", "part"}
      BY <2>2 DEF Drop, Part
    <3>3. Has(q, x)' => p \in todo[q]
      <4>1. /\ \A s : x \in {Op("erase", q, s), Op("hide", q, s)} => FALSE
            /\ \A s : x = Op("lose", s, q) => s = p
        BY DEF Op
      <4>2. ~Greet(q) /\ ~Tell(q) /\ ~RunJob(q) /\ ~Bye(q) /\ ~Bury(q) /\ ~Post(q, q) /\ ~Appear(q, q)
        BY <3>2 DEF Greet, Tell, RunJob, Ready, Bye, Bury, Post, Appear
      <4> HIDE DEF x
      <4> QED BY <1>3, <4>1, <4>2, NewTurn
    <3> QED BY <1>0, <3>1, <3>2, <3>3 DEF DropInv
  <2>3. CASE /\ ~Told(q) /\ ~Posted(q, q)
             /\ ~(q \in Players /\ Drop(q)) /\ ~(q \in Monsters /\ Part(q, q))
    <3>1. q \in Players => phase'[q] \notin {"drop", "part"}
      <4>1. ASSUME q \in Players PROVE ViewStep(q) /\ phase[q] \in Phases
        BY <1>0, <1>3, <4>1 DEF Step, TypeInv, Typed, ShapeInv, PhaseInv
      <4>2. CASE q \in Players /\ (Entering(q) \/ Stirring(q) \/ Checking(q))
        BY <1>0, <4>2 DEF Entering, Login, Enter, Greet, Greeted, Register, Stirring, Move, Die, Leave,
           Arrive, Stand, Checking, Check, Visit, Look, Looked
      <4>3. CASE q \in Players /\ (Telling(q) \/ RunJob(q) \/ Killing(q) \/ Leaving(q))
        BY <1>0, <2>3, <4>3 DEF Telling, Tell, Dropped, RunJob, Ready, Killing, Hit, Kill, Mourn,
           Mourned,
           Bury, Buried, Leaving, Logout, Bye, Gone
      <4> QED BY <1>3, <4>1, <4>2, <4>3 DEF ViewStep
    <3>2. q \in Monsters => phase'[q] \notin {"drop", "part"}
      <4>1. ASSUME q \in Monsters, phase'[q] = "part" PROVE FALSE
        <5>1. phase[q] # "part"
          BY <1>0, <1>3, <2>3, <4>1, NextOfMonster, ObjectAssumption DEF Step, Parted
        <5> QED BY <1>3, <2>3, <4>1, <5>1, MonsterPhase
      <4>2. TypeInv'
        BY StepSolo DEF Step, MonstersNext, ViewNext, Handlers
      <4> QED BY <1>0, <4>1, <4>2 DEF TypeInv, Typed, ShapeInv, PhaseInv, MonsterPhases
    <3> QED BY <3>1, <3>2 DEF Objects
  <2> QED BY <2>1, <2>2, <2>3
<1> QED BY <1>1, <1>2, <1>3

\* What has crossed once stays so.
LEMMA CrossedStep == ASSUME TypeInv, NEW a \in Objects, Step(a) PROVE crossed \subseteq crossed'
<1>1. CASE Execute(a)
  BY <1>1 DEF Execute, Enqueue, Meet, WakeUp, Rouse, Clear, Scan, Begin, Insert, Erase, Show, Hide, Cross
<1>2. CASE ~Execute(a)
  BY <1>2, StepActs, Outside DEF Actors
<1> QED BY <1>1, <1>2

\* p stays where he is, with no job about q, and leaves his entry of q alone, unless q is
\* his prey.
Still(p, q) ==
  /\ phase[p] \in Calm /\ NoJob(jobs[p], q)
  /\ Has(p, Op("erase", p, q)) \/ Has(p, Op("hide", p, q)) => prey[p] = q

LEMMA StillStep ==
  ASSUME TypeInv, OwnersInv, NEW a \in Objects, Step(a), NEW p \in Players, NEW q \in Objects,
         <<p, q>> \in later', Still(p, q), NoJob(jobs'[p], q)
  PROVE  Still(p, q)'
<1> DEFINE X == {Op("erase", p, q), Op("hide", p, q)}
<1>0. /\ jobs \in [Players -> Seq(Job)] /\ p \in Objects /\ p \in Actors /\ p \notin Monsters
  BY ObjectAssumption DEF TypeInv, Typed, ViewTypes, Objects, Actors
<1>1. phase'[p] \in Calm
  BY CalmStep DEF Still
<1>2. ASSUME NEW x \in X, Has(p, x)' PROVE prey'[p] = q
  <2>1. CASE a # p
    BY <1>0, <1>2, <2>1, SparesOthers, PreyStep DEF Spares, Has, Still
  <2>2. CASE a = p /\ Execute(p)
    <3>1. prey'[p] = prey[p]
      BY <2>2, PreyStep
    <3>2. Has(p, x)
      BY <1>2, <2>2, HasAfter DEF Op, Waking
    <3> QED BY <3>1, <3>2 DEF Still
  <2>3. CASE a = p /\ ~Execute(p)
    <3>1. ~Greet(p) /\ ~Tell(p) /\ ~Drop(p)
      BY DEF Greet, Tell, Drop, At, Still, Calm
    <3>2. /\ \A r : x # Op("lose", r, p)
          /\ \A r : x \notin {Op("insert", p, r), Op("show", p, r)}
          /\ \A r : x \in {Op("erase", p, r), Op("hide", p, r)} => r = q
          /\ \A r : x \in {Op("erase", r, prey[p]), Op("hide", r, prey[p])} => prey[p] = q
      BY DEF Op
    <3>3. CASE RunJob(p)
      <4>1. Head(jobs[p]).who # q /\ phase[p] = "idle"
        BY <1>0, <3>3, JobTaken DEF RunJob, Ready, At, Still
      <4>2. ~Bye(p) /\ ~Bury(p)
        BY <4>1 DEF Bye, Bury, At
      <4>3. \/ Head(jobs[p]).do = "lose" /\ script' = [script EXCEPT ![p] = RemoveObjectFromView(p, Head(jobs[p]).who)]
            \/ Head(jobs[p]).do # "lose" /\ script' = [script EXCEPT ![p] = AddObjectToView(p, Head(jobs[p]).who)]
            \/ script' = script
        BY <3>3 DEF RunJob, Rest
      <4>4. script \in [Actors -> Seq(Access)] /\ script[p] = <<>>
        BY <2>3, StepActs, TurnDone DEF TypeInv, Typed, ViewTypes
      <4>5. ~In(<<>>, x)
        BY InNone
      <4>6. \/ In(RemoveObjectFromView(p, Head(jobs[p]).who), x)
            \/ In(AddObjectToView(p, Head(jobs[p]).who), x)
        <5> HIDE DEF X
        <5> QED BY <1>0, <1>2, <4>3, <4>4, <4>5 DEF Has
      <4>7. Head(jobs[p]).who = q
        <5> HIDE DEF X
        <5> QED BY <3>2, <4>6, TurnLemma
      <4> QED BY <4>1, <4>7
    <3>4. CASE ~RunJob(p)
      <4>1. Step(p) /\ ~(\E r \in todo[p] : x = Op("lose", r, p))
        BY <2>3, <3>2
      <4>2. /\ Bury(p)
            /\ \E r \in todo[p] : x \in {Op("erase", r, prey[p]), Op("hide", r, prey[p])}
        <5> HIDE DEF X
        <5> QED BY <1>0, <1>2, <2>3, <3>1, <3>4, <4>1, NewTurn
      <4> QED BY <3>2, <4>2 DEF Bury, lair
    <3> QED BY <3>3, <3>4
  <2> QED BY <2>1, <2>2, <2>3
<1>3. Has(p, Op("erase", p, q))' \/ Has(p, Op("hide", p, q))' => prey'[p] = q
  BY <1>2
<1> QED BY <1>1, <1>3 DEF Still

\* Nobody is busy with whom he has yet to greet.
GreetInv ==
  \A p \in Players, q \in Objects : Pair(p, q) /\ phase[q] \in {"enter", "greet", "appear"} => Still(p, q)

LEMMA GreetStep ==
  ASSUME TypeInv, LastInv, OwnersInv, GreetInv, NEW a \in Objects, Step(a)
  PROVE  GreetInv'
<1> SUFFICES ASSUME NEW p \in Players, NEW q \in Objects, Pair(p, q)',
                    phase'[q] \in {"enter", "greet", "appear"}
             PROVE  Still(p, q)'
  BY DEF GreetInv
<1>0. /\ p \in Objects /\ <<p, q>> \in later' /\ q \in Actors
      /\ phase \in [Actors -> Phases \cup MonsterPhases]
      /\ jobs \in [Players -> Seq(Job)]
  BY DEF Objects, Actors, Pair, TypeInv, Typed, ViewTypes
<1>1. Still(p, q)
  <2>1. CASE a = q /\ Comes(a) /\ (phase'[q] \in {"enter", "appear"} => p \notin Busy(q))
    <3>1. p \notin Busy(q)
      BY <2>1 DEF Comes
    <3>2. phase[p] = "idle" /\ script[p] = <<>> /\ NoJob(jobs[p], q)
      BY <1>0, <3>1 DEF Busy, NoJob
    <3> QED BY <3>2, InNone DEF Still, Calm, Has
  <2>2. CASE Pair(p, q) /\ (a \in {p, q} => Rests(a))
    <3>1. CASE a # q
      BY <2>2, <3>1, SparesOthers DEF Spares, GreetInv
    <3>2. CASE a = q
      <4>1. phase[q] \in Settles
        BY <2>2, <3>2 DEF Rests, Settles
      <4>2. phase[q] # "register"
        <5>1. ASSUME phase[q] = "register" PROVE FALSE
          <6>1. q \in Players
            BY <5>1 DEF TypeInv, Typed, ShapeInv, PhaseInv, MonsterPhases, Objects, Actors
          <6>2. ViewStep(q) /\ ~Execute(q)
            BY <3>2, <5>1, <6>1, ObjectAssumption DEF Step, Execute
          <6>3. Register(q)
            BY <5>1, <6>2 DEF ViewStep, Entering, Login, Enter, Greet, Greeted, Stirring, Move, Die,
               Leave, Arrive, Checking, Check, Visit, Look, Looked, Telling, Tell, Told, Drop, Dropped,
               RunJob, Killing, Hit, Kill, Mourn, Mourned, Bury, Buried, Leaving, Logout, Bye, Gone,
               Ready, At
          <6> QED BY <1>0, <6>3 DEF Register, Goto
        <5> QED BY <5>1
      <4> QED BY <2>2, <4>1, <4>2 DEF GreetInv, Settles
    <3> QED BY <3>1, <3>2
  <2> QED BY <1>0, <2>1, <2>2, PairStep
<1>2. NoJob(jobs'[p], q)
  <2>1. NoJob(jobs[p], q)
    BY <1>1 DEF Still
  <2>2. CASE jobs'[p] = jobs[p]
    BY <2>1, <2>2
  <2>3. CASE jobs[p] # <<>> /\ jobs'[p] = Tail(jobs[p])
    BY <1>0, <2>1, <2>3, JobTaken
  <2>4. CASE /\ Execute(a)
             /\ \E j \in Job : /\ jobs'[p] = Append(jobs[p], j) /\ j.who = a
                               /\ phase[a] \in {"drop", "part", "bye", "tell", "post"}
    <3>1. a # q
      BY <2>4 DEF Execute
    <3> QED BY <1>0, <2>1, <2>4, <3>1, JobAdded
  <2> QED BY <2>2, <2>3, <2>4, JobsStep
<1> QED BY <1>0, <1>1, <1>2, StillStep

\* q has neither logged out nor died, and nobody is killing it.
Present(q) ==
  IF q \in Players THEN st[q] # "gone" /\ phase[q] # "bye"
  ELSE ~Doomed(q) /\ \A t \in Players : prey[t] # q

LEMMA NotPrey == ASSUME TypeInv, NEW q \in Objects, Present(q), NEW t \in Players PROVE prey[t] # q
<1>1. prey[t] \in Monsters \cup {Nobody}
  BY DEF TypeInv, Typed, ViewTypes
<1>2. q \in Players => q # prey[t]
  BY <1>1, ObjectAssumption, NobodyAssumption DEF Objects
<1>3. q \notin Players => q # prey[t]
  BY DEF Present
<1> QED BY <1>2, <1>3

\* A player enters the game and leaves it by himself.
LEMMA StateStep ==
  ASSUME TypeInv, NEW a \in Objects, Step(a), NEW p \in Players
  PROVE  st'[p] = st[p] \/ (a = p /\ (Enter(p) \/ Gone(p)))
<1> USE DEF world
<1>0. p \in Objects /\ p \notin Monsters
  BY ObjectAssumption DEF Objects
<1>1. CASE a # p
  BY <1>0, <1>1, SparesOthers DEF Spares
<1>2. CASE a = p /\ (Execute(p) \/ RunJob(p) \/ Checking(p) \/ Telling(p) \/ Killing(p))
  BY <1>2 DEF Execute, RunJob, Checking, Check, Visit, Look, Looked, Telling, Tell, Told, Drop, Dropped,
     Killing, Hit, Kill, Mourn, Mourned, Bury, Buried
<1>3. CASE a = p /\ (Entering(p) \/ Stirring(p) \/ Leaving(p))
  BY <1>3 DEF Entering, Login, Greet, Greeted, Register, Stirring, Move, Die, Leave, Arrive, Stand,
     Leaving, Logout, Bye
<1> QED BY <1>0, <1>1, <1>2, <1>3 DEF Step, ViewStep

LEMMA PresentStep ==
  ASSUME TypeInv, PreyDeadInv, HomeInv, NEW a \in Objects, Step(a), NEW q \in Objects \ doubled, a = q => Rests(a),
         Present(q)'
  PROVE  Present(q)
<1>0. /\ phase \in [Actors -> Phases \cup MonsterPhases] /\ st \in [Players -> {"out", "ingame", "gone"}]
      /\ prey \in [Players -> Monsters \cup {Nobody}]
  BY DEF TypeInv, Typed, ViewTypes
<1>1. CASE q \in Players
  <2>1. ASSUME st[q] = "gone" PROVE FALSE
    <3>1. ~Enter(q) /\ (Gone(q) => st'[q] = "gone")
      BY <1>0, <1>1, <2>1 DEF Enter, At, Gone, HomeInv
    <3>2. st'[q] = "gone"
      BY <1>1, <2>1, <3>1, StateStep
    <3> QED BY <1>1, <3>2 DEF Present
  <2>2. ASSUME phase[q] = "bye" PROVE FALSE
    <3>1. a = q /\ ~Execute(q) /\ phase'[q] # phase[q]
      BY <1>1, <2>2, SparesOthers DEF Spares, Present, Execute
    <3>2. ViewStep(q)
      BY <1>1, <3>1, ObjectAssumption DEF Step
    <3>3. Gone(q)
      BY <2>2, <3>1, <3>2 DEF ViewStep, Entering, Login, Enter, Greet, Greeted, Register, Stirring, Move,
         Die, Leave, Arrive, Checking, Check, Visit, Look, Looked, Telling, Tell, Told, Drop, Dropped,
         RunJob, Killing, Hit, Kill, Mourn, Mourned, Bury, Buried, Leaving, Logout, Bye, Ready, At
    <3>4. st'[q] = "gone"
      BY <1>0, <1>1, <3>3 DEF Gone
    <3> QED BY <1>1, <3>4 DEF Present
  <2> QED BY <1>1, <2>1, <2>2 DEF Present
<1>2. CASE q \notin Players
  <2>0. q \in Monsters
    BY <1>2 DEF Objects
  <2>1. ~Doomed(q)
    BY <1>2, <2>0, DoomedStep DEF Present
  <2>2. ASSUME NEW t \in Players, prey[t] = q PROVE FALSE
    <3>1. prey'[t] # q
      BY <1>2, <2>2 DEF Present
    <3>2. phase[t] = "kill"
      BY <2>0, <2>1, <2>2 DEF PreyDeadInv, Doomed
    <3>3. t = a /\ ~Execute(a)
      BY <2>2, <3>1, PreyStep
    <3>4. ViewStep(t)
      BY <3>3, ObjectAssumption DEF Step
    <3>5. Kill(t)
      BY <3>2, <3>3, <3>4 DEF ViewStep, Entering, Login, Enter, Greet, Greeted, Register, Stirring, Move,
         Die, Leave, Arrive, Checking, Check, Visit, Look, Looked, Telling, Tell, Told, Drop, Dropped,
         RunJob, Killing, Hit, Mourn, Mourned, Bury, Buried, Leaving, Logout, Bye, Gone, Ready, At
    <3> QED BY <2>2, <3>1, <3>5 DEF Kill
  <2> QED BY <1>2, <2>1, <2>2 DEF Present
<1> QED BY <1>1, <1>2

\* The newest job of p about q is to see it where it stands.
LastSee(p, q) == \E j : Newest(jobs[p], q, j) /\ j.do # "lose" /\ j.at = pos[q]

\* The client of p has been told of q, or is about to be.
Shows(p, q) ==
  \/ <<p, q>> \in crossed \cup hollow
  \/ shown[p][q] = pos[q]
  \/ \E t \in Objects : Has(t, Op("show", p, q))

\* How far q, which is beside p and came after him, has come in being seen.
Seeing(p, q) ==
  \/ phase[q] \in {"enter", "leave", "arrive", "check", "look"}
  \/ phase[q] \in {"greet", "tell", "post", "appear"} /\ p \in todo[q]
  \/ \E op \in {"see", "seeNow", "meet", "insert"} : Has(q, Op(op, p, q))
  \/ LastSee(p, q)
  \/ phase[p] = "idle" /\ script[p] = AddObjectToView(p, q) /\ NoJob(jobs[p], q)
  \/ Still(p, q) /\ q \in view[p] /\ Shows(p, q)

Beside(p, q) ==
  /\ Pair(p, q) /\ Near(pos[p], pos[q])
  /\ st[p] = "ingame" /\ Registered(p) /\ Present(q)
SeenInv == \A p \in Players, q \in Objects : Beside(p, q) => Seeing(p, q)

\* Whoever has looked around has found p.
LEMMA FoundLemma ==
  ASSUME TypeInv, SightInv, LastInv, NEW p \in Players, NEW q \in Objects, Beside(p, q)
  PROVE  /\ phase[q] = "look" /\ todo[q] = {} /\ visit[q] = {} => p \in new[q]
         /\ phase[q] \in Sighted => p \in new[q]
<1>1. /\ p \in Objects \ doubled /\ q \in Objects \ doubled
      /\ Seeks(q, p)
  BY DEF Objects, Beside, Pair, Near, Within, Seeks
<1>2. phase[q] \in Looks => p \in steady[q]
  BY <1>1 DEF LastInv, KnownInv, Beside
<1>3. /\ phase[q] = "look" => (p \in steady[q] => p \in new[q] \cup todo[q] \/ sect[p] \in visit[q])
      /\ phase[q] \in Sighted => (p \in steady[q] => p \in new[q])
  BY <1>1 DEF SightInv, LookInv, ExactInv
<1> QED BY <1>2, <1>3 DEF Looks

\* q looks around.
LEMMA SeekStep ==
  ASSUME TypeInv, SightInv, LastInv, NEW a \in Objects, Step(a),
         NEW p \in Players, NEW q \in Objects, Beside(p, q),
         phase[q] \in {"enter", "leave", "arrive", "check", "look"}
  PROVE  Seeing(p, q)'
<1> USE DEF At, Goto
<1>0. /\ phase \in [Actors -> Phases \cup MonsterPhases]
      /\ todo \in [Actors -> SUBSET Objects] /\ new \in [Actors -> SUBSET Objects]
      /\ p \in Objects /\ p \in cast /\ p # q /\ q \in Actors
      /\ p \notin doubled /\ q \notin doubled
      /\ q \in Monsters => phase[q] \in MonsterPhases /\ q \notin Players
  BY ObjectAssumption DEF TypeInv, Typed, ViewTypes, ShapeInv, PhaseInv, Objects, Actors,
     LastInv, CastInv, Beside, Pair
<1>1. CASE phase'[q] = phase[q]
  BY <1>1 DEF Seeing
<1>2. CASE phase'[q] # phase[q]
  <2>1. a = q /\ ~Execute(q)
    BY <1>2, SparesOthers DEF Spares, Execute
  <2>2. CASE q \in Players
    <3>1. ViewStep(q)
      BY <2>1, <2>2, ObjectAssumption DEF Step
    <3>2. CASE phase[q] = "enter"
      <4>1. Enter(q)
        BY <2>1, <3>1, <3>2, NextOf
      <4> QED BY <1>0, <4>1 DEF Enter, Seeing
    <3>3. CASE phase[q] = "leave"
      <4>1. Leave(q, q)
        BY <2>1, <3>1, <3>3, NextOf
      <4> QED BY <1>0, <4>1 DEF Leave, Seeing
    <3>4. CASE phase[q] = "arrive"
      <4>1. Arrive(q)
        BY <2>1, <3>1, <3>4, NextOf
      <4> QED BY <1>0, <4>1 DEF Arrive, Seeing
    <3>5. CASE phase[q] = "check"
      <4>1. Check(q, q)
        BY <2>1, <3>1, <3>5, NextOf
      <4> QED BY <1>0, <4>1 DEF Check, Seeing
    <3>6. CASE phase[q] = "look"
      <4>1. Visit(q, q) \/ Look(q, q) \/ Looked(q)
        BY <2>1, <3>1, <3>6, NextOf
      <4>2. Looked(q)
        BY <1>2, <4>1 DEF Visit, Look
      <4>3. p \in new[q]
        BY <3>6, <4>2, FoundLemma DEF Looked
      <4> QED BY <1>0, <4>2, <4>3 DEF Looked, Seeing
    <3> QED BY <3>2, <3>3, <3>4, <3>5, <3>6
  <2>3. CASE q \in Monsters
    <3>1. \/ phase'[q] \in {"arrive", "check", "look"}
          \/ phase[q] = "look" /\ (Sleep(q, q) \/ Seen(q))
      BY <1>0, <1>2, <2>1, <2>3, MonsterPhase DEF MonsterPhases
    <3>2. CASE phase[q] = "look" /\ (Sleep(q, q) \/ Seen(q))
      <4>1. p \in new[q]
        BY <3>2, FoundLemma DEF Sleep, Seen
      <4> QED BY <1>0, <3>2, <4>1 DEF Sleep, Seen, Seeing
    <3> QED BY <3>1, <3>2 DEF Seeing
  <2> QED BY <2>2, <2>3 DEF Objects
<1> QED BY <1>1, <1>2

\* q comes to p in its loop.
LEMMA ReachStep ==
  ASSUME TypeInv, NEW a \in Objects, Step(a), NEW p \in Players, NEW q \in Objects, Beside(p, q),
         phase[q] \in {"greet", "tell", "post", "appear"}, p \in todo[q]
  PROVE  Seeing(p, q)'
<1> USE DEF At, Goto
<1>0. /\ phase \in [Actors -> Phases \cup MonsterPhases]
      /\ todo \in [Actors -> SUBSET Objects]
      /\ script \in [Actors -> Seq(Access)]
      /\ p \in Objects /\ p \notin Monsters /\ q \in Actors
      /\ q \in Monsters => phase[q] \in MonsterPhases /\ q \notin Players
      /\ q \in Players => phase[q] \in Phases
  BY ObjectAssumption DEF TypeInv, Typed, ViewTypes, ShapeInv, PhaseInv, Objects, Actors
<1>1. CASE phase'[q] = phase[q] /\ p \in todo'[q]
  BY <1>1 DEF Seeing
<1>2. CASE ~(phase'[q] = phase[q] /\ p \in todo'[q])
  <2>1. a = q /\ ~Execute(q)
    BY <1>2, SparesOthers DEF Spares, Execute
  <2>2. st[p] = "ingame" /\ Near(pos[p], pos[q]) /\ Near(pos[q], pos[p])
    BY DEF Beside, Near, Within
  <2>3. ASSUME NEW r \in todo[q], todo' = [todo EXCEPT ![q] = @ \ {r}], phase' = phase PROVE r = p
    BY <1>0, <1>2, <2>3
  <2>4. CASE phase[q] = "greet"
    <3>1. Greet(q)
      BY <1>0, <2>1, <2>4, NextOf, ObjectAssumption DEF Step, Greeted, MonsterPhases, Objects
    <3>2. PICK r \in todo[q] :
            /\ todo' = [todo EXCEPT ![q] = @ \ {r}]
            /\ script' = [script EXCEPT ![q] =
                 IF ~Near(pos[q], pos[r]) THEN <<>>
                 ELSE IF r \in Players THEN <<Op("meet", r, q)>>
                 ELSE <<Op("wake", r, q)>> \o AddObjectToView(q, r)]
      BY <3>1 DEF Greet, Rest
    <3>3. r = p
      BY <2>3, <3>1, <3>2 DEF Greet
    <3>4. script'[q] = <<Op("meet", p, q)>>
      BY <1>0, <2>2, <3>2, <3>3
    <3> QED BY <3>4, InOne DEF Has, Seeing
  <2>5. CASE phase[q] = "tell"
    <3>1. Tell(q)
      BY <1>0, <2>1, <2>5, NextOf, ObjectAssumption DEF Step, Told, MonsterPhases, Objects
    <3>2. PICK r \in todo[q] :
            /\ todo' = [todo EXCEPT ![q] = @ \ {r}]
            /\ script' = [script EXCEPT ![q] =
                 <<Notice(q, r)>> \o (IF r \in old[q] THEN <<>> ELSE AddObjectToView(q, r))]
      BY <3>1 DEF Tell, Rest
    <3>3. r = p
      BY <2>3, <3>1, <3>2 DEF Tell
    <3>4. q \in Players
      BY <1>0, <2>5 DEF MonsterPhases, Objects
    <3>5. PICK op \in {"see", "seeNow"} : Notice(q, p) = Op(op, p, q)
      BY <1>0 DEF Notice
    <3>6. PICK s : s = IF p \in old[q] THEN <<>> ELSE AddObjectToView(q, p)
      OBVIOUS
    <3>7. script'[q] = <<Op(op, p, q)>> \o s
      BY <1>0, <3>2, <3>3, <3>5, <3>6
    <3>8. Op(op, p, q) \in Access /\ AddObjectToView(q, p) \in Seq(Access) /\ <<>> \in Seq(Access)
      <4>1. <<>> \in Seq(Access)
        OBVIOUS
      <4>2. Op(op, p, q) \in Access
        BY <1>0 DEF Op, Access, JobKinds
      <4> QED BY <1>0, <3>4, <4>1, <4>2, AddChained
    <3>9. s \in Seq(Access)
      BY <3>6, <3>8
    <3>10. Has(q, Op(op, p, q))'
      BY <3>7, <3>8, <3>9, FirstOf DEF Has
    <3> QED BY <3>10 DEF Seeing
  <2>6. CASE phase[q] = "post"
    <3>1. Post(q, q)
      BY <1>0, <2>1, <2>6, NextOfMonster, ObjectAssumption DEF Step, Posted, Phases, Objects
    <3>2. PICK r \in todo[q] : /\ todo' = [todo EXCEPT ![q] = @ \ {r}]
                               /\ script' = [script EXCEPT ![q] = <<Op("seeNow", r, q)>>]
      BY <3>1 DEF Post, Rest
    <3>3. r = p
      BY <2>3, <3>1, <3>2 DEF Post
    <3>4. script'[q] = <<Op("seeNow", p, q)>>
      BY <1>0, <3>2, <3>3
    <3> QED BY <3>4, InOne DEF Has, Seeing
  <2>7. CASE phase[q] = "appear"
    <3>1. Appear(q, q)
      BY <1>0, <2>1, <2>7, NextOfMonster, ObjectAssumption DEF Step, Appeared, Phases, Objects
    <3>2. PICK r \in todo[q] :
            /\ todo' = [todo EXCEPT ![q] = @ \ {r}]
            /\ script' = [script EXCEPT ![q] =
                 IF st[r] = "ingame" /\ Near(pos[r], pos[q]) THEN AddObjectToView(r, q) ELSE <<>>]
      BY <3>1 DEF Appear, Rest
    <3>3. r = p
      BY <2>3, <3>1, <3>2 DEF Appear
    <3>4. script'[q] = AddObjectToView(p, q)
      BY <1>0, <2>2, <3>2, <3>3
    <3> QED BY <3>4, TurnLemma DEF Has, Seeing
  <2> QED BY <2>4, <2>5, <2>6, <2>7
<1> QED BY <1>1, <1>2

\* A job that q posts to p, while it is beside him, says where it stands.
LEMMA PostedJob ==
  ASSUME TypeInv, SightInv, LastInv, OwnersInv, DropInv, NEW a \in Objects, Step(a),
         NEW p \in Players, NEW q \in Objects, Beside(p, q), pos'[q] = pos[q]
  PROVE  /\ NoJob(jobs[p], q) => NoJob(jobs'[p], q) \/ LastSee(p, q)'
         /\ LastSee(p, q) => \/ LastSee(p, q)'
                             \/ /\ a = p /\ RunJob(p) /\ jobs[p] # <<>> /\ NoJob(jobs'[p], q)
                                /\ Head(jobs[p]).who = q /\ Head(jobs[p]).do # "lose"
                                /\ Head(jobs[p]).at = pos[q]
<1>0. jobs \in [Players -> Seq(Job)] /\ jobs[p] \in Seq(Job)
  BY DEF TypeInv, Typed, ViewTypes
<1>1. CASE jobs'[p] = jobs[p]
  BY <1>1 DEF LastSee
<1>2. CASE a = p /\ RunJob(a) /\ jobs[p] # <<>> /\ jobs'[p] = Tail(jobs[p])
  <2>1. NoJob(jobs[p], q) => NoJob(jobs'[p], q)
    BY <1>0, <1>2, JobTaken
  <2>2. ASSUME NEW l, Newest(jobs[p], q, l)
        PROVE  Newest(jobs'[p], q, l) \/ (Head(jobs[p]) = l /\ l.who = q /\ NoJob(jobs'[p], q))
    <3>1. l.who = q
      BY <2>2 DEF Newest
    <3> QED BY <1>0, <1>2, <2>2, <3>1, JobTaken
  <2> QED BY <1>2, <2>1, <2>2 DEF LastSee
<1>3. ASSUME Execute(a), NEW j \in Job, jobs'[p] = Append(jobs[p], j), j.who = a, j.at = pos[a],
             Head(script[a]) = Op(j.do, p, a),
             j.do = "lose" => phase[a] \in {"drop", "part", "bye"}
      PROVE  LastSee(p, q)' \/ ((NoJob(jobs[p], q) => NoJob(jobs'[p], q)) /\ (LastSee(p, q) => LastSee(p, q)'))
  <2>1. CASE a # q
    <3>1. NoJob(jobs[p], q) => NoJob(jobs'[p], q)
      BY <1>0, <1>3, <2>1, JobAdded
    <3>2. \A l : Newest(jobs[p], q, l) => Newest(jobs'[p], q, l)
      BY <1>0, <1>3, <2>1, JobAdded
    <3> QED BY <3>1, <3>2 DEF LastSee
  <2>2. CASE a = q
    <3>1. Newest(jobs'[p], q, j)
      BY <1>0, <1>3, <2>2, JobAdded
    <3>2. j.do # "lose"
      <4>1. ASSUME j.do = "lose" PROVE FALSE
        <5>1. Has(q, Op("lose", p, q))
          <6>1. script[q] # <<>> /\ script[q] \in Seq(Access)
            BY <1>3, <2>2 DEF Execute, TypeInv, Typed, ViewTypes, Actors
          <6> QED BY <1>3, <2>2, <4>1, <6>1, InHeadTail DEF Has
        <5>2. phase[q] # "bye"
          BY ObjectAssumption DEF Beside, Present, TypeInv, Typed, ShapeInv, PhaseInv,
             MonsterPhases, Objects, Actors
        <5>3. phase[q] \in {"drop", "part"}
          BY <1>3, <2>2, <4>1, <5>2
        <5>4. p \notin new[q]
          BY <5>1, <5>3 DEF DropInv
        <5> QED BY <5>3, <5>4, FoundLemma DEF Sighted
      <4> QED BY <4>1
    <3> QED BY <1>3, <2>2, <3>1, <3>2 DEF LastSee
  <2> QED BY <2>1, <2>2
<1> QED BY <1>1, <1>2, <1>3, JobsStep

\* q is in the middle of telling p, or of entering his list itself.
LEMMA AskedStep ==
  ASSUME TypeInv, OwnersInv, GreetInv, NEW a \in Objects, Step(a),
         NEW p \in Players, NEW q \in Objects, Beside(p, q), p # q, <<p, q>> \in later', pos'[q] = pos[q],
         NEW op \in {"see", "seeNow", "meet", "insert"}, Has(q, Op(op, p, q))
  PROVE  Seeing(p, q)'
<1> DEFINE x == Op(op, p, q)
           r == Tail(script[q])
<1>0. /\ p \in Objects /\ p \notin Monsters /\ q \in Actors
      /\ jobs \in [Players -> Seq(Job)] /\ jobs[p] \in Seq(Job)
      /\ script \in [Actors -> Seq(Access)] /\ view \in [Objects -> SUBSET Objects]
      /\ x.op = op /\ x.of = p /\ x.obj = q
  BY ObjectAssumption DEF TypeInv, Typed, ViewTypes, Objects, Actors, Op
<1>1. CASE Has(q, x)'
  BY <1>1 DEF Seeing
<1>2. CASE ~Has(q, x)'
  <2>1. a = q
    BY <1>2, SparesOthers DEF Spares, Has
  <2>2. Execute(q)
    BY <2>1, StepActs, TurnDone, InNone DEF Has
  <2>3. Head(script[q]) = x
    BY <1>0, <1>2, <2>2, HasKept
  <2> HIDE DEF x
  <2>4. \/ Enqueue(q, x, r) \/ Meet(q, x, r) \/ WakeUp(q, x, r)
        \/ Rouse(q, x, r) \/ Clear(q, x, r) \/ Scan(q, x, r) \/ Begin(q, x, r)
        \/ Insert(q, x, r) \/ Erase(q, x, r) \/ Show(q, x, r) \/ Hide(q, x, r)
    BY <2>2, <2>3 DEF Execute
  <2>5. CASE op \in {"see", "seeNow"}
    <3> DEFINE j == [do |-> op, who |-> q, at |-> pos[q]]
    <3>1. Enqueue(q, x, r)
      BY <1>0, <2>4, <2>5 DEF Meet, WakeUp, Rouse, Clear, Scan, Begin, Insert, Erase, Show, Hide
    <3>2. jobs'[p] = Append(jobs[p], j)
      BY <1>0, <3>1 DEF Enqueue
    <3>3. j \in Job /\ j.who = q /\ j.do # "lose" /\ j.at = pos[q]
      BY <2>5 DEF Job, JobKinds, TypeInv, Typed, ViewTypes
    <3> HIDE DEF j
    <3>4. Newest(Append(jobs[p], j), q, j)
      BY <1>0, <3>3, JobAdded
    <3> QED BY <3>2, <3>3, <3>4 DEF LastSee, Seeing
  <2>6. CASE op = "meet"
    <3>1. Meet(q, x, r)
      BY <1>0, <2>4, <2>6 DEF Enqueue, JobKinds, WakeUp, Rouse, Clear, Scan, Begin, Insert,
         Erase, Show, Hide
    <3>2. script'[q] = (AddObjectToView(p, q) \o AddObjectToView(q, p)) \o r
      BY <1>0, <3>1 DEF Meet, Rest, Beside
    <3>3. Sound(x) /\ r = <<>>
      <4>1. script[q] # <<>> /\ script[q] \in Seq(Access) /\ Chained(script[q])
        BY <1>0, <2>2 DEF Execute, TypeInv, Typed, ViewTypes, ShapeInv, ScriptInv
      <4> QED BY <1>0, <2>3, <2>6, <4>1, TailChained
    <3>4. AddObjectToView(p, q) \in Seq(Access) /\ AddObjectToView(q, p) \in Seq(Access)
      <4>1. q \in Players
        BY <1>0, <2>6, <3>3 DEF Sound
      <4> QED BY <1>0, <4>1, AddChained
    <3>5. PICK u \in Seq(Access) : u = AddObjectToView(p, q)
      BY <3>4
    <3>6. PICK v \in Seq(Access) : v = AddObjectToView(q, p)
      BY <3>4
    <3>9. u \o v \in Seq(Access) /\ (u \o v) \o <<>> = u \o v
      OBVIOUS
    <3>10. script'[q] = u \o v
      BY <3>2, <3>3, <3>5, <3>6, <3>9
    <3>7. In(AddObjectToView(p, q), Op("insert", p, q))
      BY TurnLemma
    <3>8. Has(q, Op("insert", p, q))'
      BY <3>5, <3>7, <3>10, InConcat DEF Has
    <3> QED BY <3>8 DEF Seeing
  <2>7. CASE op = "insert"
    <3>1. Insert(q, x, r)
      BY <1>0, <2>4, <2>7 DEF Enqueue, JobKinds, WakeUp, Rouse, Clear, Scan, Begin, Meet, Erase,
         Show, Hide
    <3>2. q \in view'[p] /\ jobs' = jobs /\ phase' = phase /\ script'[q] = r
      BY <1>0, <2>2, <3>1 DEF Insert, Rest, Execute
    <3>3. Whose(q, x)
      <4>1. x \in Access
        BY <1>0, <2>3, <2>2 DEF Execute
      <4> QED BY <4>1 DEF OwnersInv, x
    <3>4. phase[q] \in {"greet", "appear"}
      BY <1>0, <2>7, <3>3 DEF Whose
    <3>5. Still(p, q)
      BY <3>4 DEF GreetInv, Beside
    <3>6. Still(p, q)'
      <4>1. NoJob(jobs'[p], q)
        BY <3>2, <3>5 DEF Still
      <4> QED BY <1>0, <3>5, <4>1, StillStep
    <3>7. Has(q, Op("show", p, q))'
      <4>1. script[q] # <<>> /\ script[q] \in Seq(Access) /\ Chained(script[q])
        BY <1>0, <2>2 DEF Execute, TypeInv, Typed, ViewTypes, ShapeInv, ScriptInv
      <4>2. r # <<>> /\ Head(r) = Op("show", p, q) /\ r \in Seq(Access)
        BY <1>0, <2>3, <2>7, <4>1, NextHead, TailChained
      <4> HIDE DEF r
      <4>3. In(r, Op("show", p, q))
        BY <4>2, InHeadTail
      <4> QED BY <3>2, <4>3 DEF Has
    <3> QED BY <3>2, <3>6, <3>7 DEF Shows, Seeing
  <2> QED BY <2>5, <2>6, <2>7
<1> QED BY <1>1, <1>2

\* What a step changes in what the client of p shows of q.
LEMMA ShowStep ==
  ASSUME TypeInv, NEW a \in Objects, Step(a), NEW p \in Players, NEW q \in Objects
  PROVE  /\ \/ shown'[p][q] = shown[p][q] /\ (<<p, q>> \in hollow => <<p, q>> \in hollow')
            \/ a = p /\ RunJob(p) /\ jobs[p] # <<>> /\ Head(jobs[p]).who = q
            \/ Execute(a) /\ Head(script[a]) \in {Op("show", p, q), Op("hide", p, q)}
         /\ Execute(a) /\ Head(script[a]) = Op("show", p, q)
              => <<p, q>> \in hollow' \/ shown'[p][q] = pos[q]
<1>0. shown \in [Players -> [Objects -> Positions \cup {Nowhere}]] /\ jobs \in [Players -> Seq(Job)]
  BY DEF TypeInv, Typed, ViewTypes
<1>01. a \in Actors
  BY DEF Actors
<1>1. CASE Execute(a)
  <2> DEFINE h == Head(script[a])
             r == Tail(script[a])
  <2>1. h \in Access /\ Sound(h)
    BY <1>01, <1>1, TailChained DEF Execute, TypeInv, Typed, ViewTypes, ShapeInv, ScriptInv
  <2>2. \/ Enqueue(a, h, r) \/ Meet(a, h, r) \/ WakeUp(a, h, r)
        \/ Rouse(a, h, r) \/ Clear(a, h, r) \/ Scan(a, h, r) \/ Begin(a, h, r)
        \/ Insert(a, h, r) \/ Erase(a, h, r) \/ Show(a, h, r) \/ Hide(a, h, r)
    BY <1>1 DEF Execute
  <2>3. h = Op(h.op, h.of, h.obj)
    BY <2>1 DEF Access, Op
  <2>4. h = Op("show", p, q) => h.op = "show" /\ h.of = p /\ h.obj = q
    BY DEF Op
  <2> HIDE DEF h, r
  <2>5. CASE Show(a, h, r)
    <3>1. CASE h = Op("show", p, q)
      BY <1>0, <1>1, <2>4, <2>5, <3>1 DEF Show, h
    <3>2. CASE h # Op("show", p, q)
      <4>1. h.op = "show" /\ ~(h.of = p /\ h.obj = q)
        BY <2>3, <2>5, <3>2 DEF Show
      <4> QED BY <1>0, <2>5, <3>2, <4>1 DEF Show, h
    <3> QED BY <3>1, <3>2
  <2>6. CASE Hide(a, h, r)
    <3>1. h.op = "hide" /\ h # Op("show", p, q)
      BY <2>4, <2>6 DEF Hide
    <3>2. CASE h.of = p /\ h.obj = q
      BY <1>1, <2>3, <3>1, <3>2 DEF h
    <3>3. CASE ~(h.of = p /\ h.obj = q)
      BY <1>0, <2>6, <3>1, <3>3 DEF Hide, h
    <3> QED BY <3>2, <3>3
  <2>7. CASE \/ Enqueue(a, h, r) \/ Meet(a, h, r) \/ WakeUp(a, h, r)
             \/ Rouse(a, h, r) \/ Clear(a, h, r) \/ Scan(a, h, r) \/ Begin(a, h, r)
             \/ Insert(a, h, r) \/ Erase(a, h, r)
    <3>1. shown' = shown /\ hollow' = hollow /\ h.op # "show"
      BY <2>7 DEF Enqueue, JobKinds, Meet, WakeUp, Rouse, Clear, Scan, Begin, Insert, Erase
    <3> QED BY <2>4, <3>1 DEF h
  <2> QED BY <2>2, <2>5, <2>6, <2>7
<1>2. CASE ~Execute(a)
  <2>0. hollow' = hollow
    BY <1>01, <1>2, StepActs, Outside
  <2>1. CASE a = p /\ RunJob(p)
    <3>1. jobs[p] # <<>>
      BY <2>1 DEF RunJob
    <3>2. CASE Head(jobs[p]).who # q
      <4>1. \/ shown' = shown
            \/ \E at : shown' = [shown EXCEPT ![p][Head(jobs[p]).who] = at]
        BY <2>1 DEF RunJob, MoveShown
      <4>2. shown'[p][q] = shown[p][q]
        BY <1>0, <3>2, <4>1
      <4> QED BY <1>2, <2>0, <4>2
    <3> QED BY <1>2, <2>1, <3>1, <3>2
  <2>2. CASE a \in Players /\ RunJob(a) /\ a # p
    <3>1. \/ shown' = shown
          \/ \E r, at : shown' = [shown EXCEPT ![a][r] = at]
      BY <2>2 DEF RunJob, MoveShown
    <3> QED BY <1>0, <1>2, <2>0, <2>2, <3>1
  <2>3. CASE a \in Players /\ (Entering(a) \/ Stirring(a) \/ Checking(a))
    BY <1>2, <2>0, <2>3 DEF Entering, Login, Enter, Greet, Greeted, Register, Stirring, Move, Die, Leave,
       Arrive, Stand, Checking, Check, Visit, Look, Looked
  <2>4. CASE a \in Players /\ (Telling(a) \/ Leaving(a) \/ Killing(a))
    BY <1>2, <2>0, <2>4 DEF Telling, Tell, Told, Drop, Dropped, Leaving, Logout, Bye, Gone, Killing, Hit,
       Kill, Mourn, Mourned, Bury, Buried
  <2>5. CASE a \in Monsters /\ (Walking(a, a) \/ Watching(a, a))
    BY <1>2, <2>0, <2>5 DEF Walking, Update, Walk, Leave, Join, Again, Watching, Check, Visit,
       Look, Sleep, Seen
  <2>6. CASE a \in Monsters /\ (Posting(a, a) \/ Respawning(a, a))
    BY <1>2, <2>0, <2>6 DEF Posting, Post, Posted, Part, Parted, Respawning, Rise, Heal, Return, Appear,
       Appeared
  <2> QED BY <1>2, <2>1, <2>2, <2>3, <2>4, <2>5, <2>6 DEF Step, ViewStep, MonsterStep
<1> QED BY <1>1, <1>2

\* p has q in his list, and it stays there.
LEMMA StayStep ==
  ASSUME TypeInv, SightInv, LastInv, OwnersInv, DropInv, NEW a \in Objects, Step(a),
         NEW p \in Players, NEW q \in Objects, Beside(p, q), <<p, q>> \in later', pos'[q] = pos[q],
         Still(p, q), q \in view[p], Shows(p, q)
  PROVE  Seeing(p, q)'
<1> DEFINE x == Op("show", p, q)
<1>0. /\ p \in Objects /\ p \notin Monsters /\ Present(q) /\ a \in Actors
      /\ jobs \in [Players -> Seq(Job)] /\ script \in [Actors -> Seq(Access)]
  BY ObjectAssumption DEF TypeInv, Typed, ViewTypes, Objects, Actors, Beside
<1>1. ASSUME NEW y \in {Op("erase", p, q), Op("hide", p, q)}, Execute(a), Head(script[a]) = y
      PROVE  FALSE
  <2>1. y \in Access /\ y.op \in {"erase", "hide"} /\ y.of = p /\ y.obj = q
    BY <1>0 DEF Op, Access
  <2>2. Has(a, y)
    BY <1>0, <1>1, InHeadTail DEF Execute, Has
  <2>3. Whose(a, y)
    BY <2>1, <2>2 DEF OwnersInv
  <2>4. a = p \/ (a \in Players /\ prey[a] = q)
    BY <2>1, <2>3 DEF Whose
  <2>5. a = p => prey[p] = q
    BY <2>2 DEF Still
  <2> QED BY <1>0, <2>4, <2>5, NotPrey
<1>2. NoJob(jobs'[p], q) \/ LastSee(p, q)'
  BY PostedJob DEF Still
<1>3. CASE NoJob(jobs'[p], q)
  <2>1. Still(p, q)'
    BY <1>3, StillStep
  <2>2. q \in view'[p]
    BY <1>1, ViewChange
  <2>3. ~(a = p /\ RunJob(p) /\ jobs[p] # <<>> /\ Head(jobs[p]).who = q)
    BY <1>0, JobTaken DEF Still
  <2>4. Shows(p, q)'
    <3>1. CASE <<p, q>> \in crossed
      BY <3>1, CrossedStep DEF Shows
    <3>2. CASE Execute(a) /\ Head(script[a]) = x
      BY <3>2, ShowStep DEF Shows
    <3>3. CASE /\ ~(Execute(a) /\ Head(script[a]) = x)
               /\ <<p, q>> \in hollow \/ shown[p][q] = pos[q]
      <4>1. shown'[p][q] = shown[p][q] /\ (<<p, q>> \in hollow => <<p, q>> \in hollow')
        BY <1>1, <2>3, <3>3, ShowStep
      <4> QED BY <3>3, <4>1 DEF Shows
    <3>4. ASSUME ~(Execute(a) /\ Head(script[a]) = x), NEW t \in Objects, Has(t, x) PROVE Has(t, x)'
      <4>1. CASE t # a
        BY <3>4, <4>1, SparesOthers DEF Spares, Has
      <4>2. CASE t = a
        <5>1. Execute(a)
          BY <3>4, <4>2, StepActs, TurnDone, InNone DEF Has
        <5>2. x.op # "hide"
          BY DEF Op
        <5> HIDE DEF x
        <5> QED BY <1>0, <3>4, <4>2, <5>1, <5>2, HasKept
      <4> QED BY <4>1, <4>2
    <3>5. (\E t \in Objects : Has(t, x)') => Shows(p, q)'
      BY DEF Shows
    <3> QED BY <3>1, <3>2, <3>3, <3>4, <3>5 DEF Shows
  <2> QED BY <2>1, <2>2, <2>4 DEF Seeing
<1> QED BY <1>2, <1>3 DEF Seeing

\* p is about to put q into his list himself.
LEMMA AddStep ==
  ASSUME TypeInv, SightInv, LastInv, OwnersInv, DropInv, NEW a \in Objects, Step(a),
         NEW p \in Players, NEW q \in Objects, Beside(p, q), pos'[q] = pos[q],
         phase[p] = "idle", script[p] = AddObjectToView(p, q), NoJob(jobs[p], q)
  PROVE  Seeing(p, q)'
<1> DEFINE y == Op("insert", p, q)
           z == Op("show", p, q)
<1>0. /\ p \in Objects /\ p \notin Monsters /\ p \in Actors
      /\ script \in [Actors -> Seq(Access)] /\ view \in [Objects -> SUBSET Objects]
  BY ObjectAssumption DEF TypeInv, Typed, ViewTypes, Objects, Actors
<1>1. NoJob(jobs'[p], q) \/ LastSee(p, q)'
  BY PostedJob
<1>2. CASE NoJob(jobs'[p], q) /\ a # p
  BY <1>0, <1>2, SparesOthers DEF Spares, Seeing
<1>3. CASE NoJob(jobs'[p], q) /\ a = p
  <2>1. <<y, z>> \in Seq({y, z})
    OBVIOUS
  <2>2. PICK s \in Seq({y, z}) : s = <<y, z>>
    BY <2>1
  <2>3. s # <<>> /\ Head(s) = y /\ Tail(s) = <<z>>
    BY <2>2
  <2>4. script[p] # <<>> /\ Head(script[p]) = y /\ Tail(script[p]) = <<z>>
    BY <2>2, <2>3 DEF AddObjectToView
  <2>5. Execute(p)
    BY <1>3, <2>4, StepActs, TurnDone
  <2>6. y.op = "insert" /\ y.of = p /\ y.obj = q
    BY DEF Op
  <2> HIDE DEF y
  <2>7. Insert(p, y, <<z>>) /\ phase' = phase
    BY <2>4, <2>5, <2>6 DEF Execute, Enqueue, JobKinds, Meet, WakeUp, Rouse, Clear, Scan, Begin,
       Erase, Show, Hide
  <2>8. q \in view'[p]
    BY <1>0, <2>6, <2>7 DEF Insert
  <2>9. script'[p] = <<z>>
    BY <1>0, <2>7 DEF Insert, Rest
  <2>10. Has(p, z)' /\ ~Has(p, Op("erase", p, q))' /\ ~Has(p, Op("hide", p, q))'
    <3>1. z # Op("erase", p, q) /\ z # Op("hide", p, q)
      BY DEF Op
    <3> HIDE DEF z
    <3> QED BY <2>9, <3>1, InOne DEF Has
  <2>11. Still(p, q)'
    BY <1>3, <2>7, <2>10 DEF Still, Calm
  <2>12. Shows(p, q)'
    BY <1>0, <2>10 DEF Shows
  <2> QED BY <2>8, <2>11, <2>12 DEF Seeing
<1> QED BY <1>1, <1>2, <1>3 DEF Seeing

\* Whoever is about to tell p of an object that is not among the doubled is no twin.
LEMMA OwnTells ==
  ASSUME TypeInv, NEW p \in Players, NEW q \in Objects \ doubled, NEW t \in Actors, Tells(t, p, q),
         Head(script[t]) = Op("show", p, q)
  PROVE  t \in Objects
<1> SUFFICES ASSUME t \in Twins, t \notin Players PROVE FALSE
  BY DEF Actors, Objects
<1>1. script[t] \in Seq(Access) /\ script[t] # <<>>
  BY DEF Tells, TypeInv, Typed, ViewTypes
<1>2. 1 \in 1..Len(script[t]) /\ Head(script[t]) = script[t][1]
  BY <1>1, HeadLemma
<1>3. Meant(t, script[t][1])
  BY <1>2 DEF TypeInv, SoloInv
<1>4. q \in Monsters /\ t \in Handlers(q)
  BY <1>2, <1>3 DEF Meant, Op
<1>5. Of[t] = q
  BY <1>4, TwinAssumption DEF Handlers, Objects
<1>6. phase[t] = "idle"
  BY <1>4, <1>5 DEF TypeInv, SoloInv
<1>7. phase[t] # "idle"
  BY <1>1 DEF TypeInv, Typed, ShapeInv, PhaseInv
<1> QED BY <1>6, <1>7

\* p runs the job.
LEMMA RunStep ==
  ASSUME TypeInv, SightInv, FollowInv, LastInv, OwnersInv, DropInv, NEW a \in Objects, Step(a),
         NEW p \in Players, NEW q \in Objects, Beside(p, q), pos'[q] = pos[q], LastSee(p, q)
  PROVE  Seeing(p, q)'
<1>0. /\ p \in Objects /\ p \notin Monsters /\ p \in Actors
      /\ q \in Objects \ doubled /\ Objects \subseteq Actors
      /\ script \in [Actors -> Seq(Access)] /\ jobs \in [Players -> Seq(Job)]
      /\ shown \in [Players -> [Objects -> Positions \cup {Nowhere}]]
  BY ObjectAssumption DEF TypeInv, Typed, ViewTypes, Objects, Actors, Beside, Pair
<1>1. CASE LastSee(p, q)'
  BY <1>1 DEF Seeing
<1>2. CASE /\ a = p /\ RunJob(p) /\ jobs[p] # <<>> /\ NoJob(jobs'[p], q)
           /\ Head(jobs[p]).who = q /\ Head(jobs[p]).do # "lose"
           /\ Head(jobs[p]).at = pos[q]
  <2>1. phase[p] = "idle" /\ script[p] = <<>> /\ phase' = phase /\ view' = view
    BY <1>2 DEF RunJob, Ready, At, local
  <2>2. ~Execute(p)
    BY <2>1 DEF Execute
  <2>3. CASE q \notin view[p]
    <3>1. script' = [script EXCEPT ![p] = AddObjectToView(p, q)]
      BY <1>2, <2>3 DEF RunJob, Rest
    <3>2. script'[p] = AddObjectToView(p, q)
      BY <1>0, <3>1
    <3> QED BY <1>2, <2>1, <3>2 DEF Seeing
  <2>4. CASE q \in view[p]
    <3>1. script' = script /\ MoveShown(p, q, pos[q])
      BY <1>2, <2>4 DEF RunJob
    <3>2. Still(p, q)'
      BY <1>2, <2>1, <3>1, InNone DEF Still, Calm, Has
    <3>3. CASE shown[p][q] # Nowhere
      <4>1. shown'[p][q] = pos[q]
        BY <1>0, <3>1, <3>3 DEF MoveShown
      <4> QED BY <2>1, <2>4, <3>2, <4>1 DEF Shows, Seeing
    <3>4. CASE shown[p][q] = Nowhere
      <4>1. CASE <<p, q>> \in crossed
        BY <2>1, <2>4, <3>2, <4>1, CrossedStep DEF Shows, Seeing
      <4>2. CASE <<p, q>> \in hollow
        <5>1. hollow' = hollow
          BY <1>0, <1>2, <2>2, StepActs, Outside
        <5> QED BY <2>1, <2>4, <3>2, <4>2, <5>1 DEF Shows, Seeing
      <4>3. CASE <<p, q>> \notin crossed \cup hollow
        <5>1. PICK t \in Actors : Tells(t, p, q)
          BY <2>4, <3>4, <4>3 DEF FollowInv, Follows
        <5>2. Head(script[t]) = Op("show", p, q)
          <6>1. Head(script[t]).op = "show"
            BY <2>4, <4>3, <5>1 DEF FollowInv, Follows
          <6> QED BY <5>1, <6>1 DEF Tells, Op
        <5>5. t \in Objects
          BY <1>0, <5>1, <5>2, OwnTells
        <5>3. Has(t, Op("show", p, q))
          BY <1>0, <5>1, <5>2, InHeadTail DEF Tells, Has
        <5>4. Has(t, Op("show", p, q))'
          BY <3>1, <5>3 DEF Has
        <5> QED BY <2>1, <2>4, <3>2, <5>4, <5>5 DEF Shows, Seeing
      <4> QED BY <4>1, <4>2, <4>3
    <3> QED BY <3>3, <3>4
  <2> QED BY <2>3, <2>4
<1> QED BY <1>1, <1>2, PostedJob

\* q sets about being seen when it comes, and gets there.
LEMMA SeenStep ==
  ASSUME TypeInv, SightInv, FollowInv, LastInv, OwnersInv, PreyDeadInv, HomeInv, DropInv, GreetInv, SeenInv,
         NEW a \in Objects, Step(a)
  PROVE  SeenInv'
<1> SUFFICES ASSUME NEW p \in Players, NEW q \in Objects, Pair(p, q)', Near(pos'[p], pos'[q]),
                    st'[p] = "ingame", Registered(p)', Present(q)'
             PROVE  Seeing(p, q)'
  BY DEF SeenInv, Beside, Near, Within
<1>0. /\ p \in Objects /\ p \notin Monsters /\ <<p, q>> \in later' /\ p \in Actors /\ q \in Actors
      /\ phase \in [Actors -> Phases \cup MonsterPhases] /\ todo \in [Actors -> SUBSET Objects]
      /\ st \in [Players -> {"out", "ingame", "gone"}]
  BY ObjectAssumption DEF Objects, Actors, Pair, TypeInv, Typed, ViewTypes
<1>1. CASE a = q /\ Comes(q) /\ phase'[q] # "appear"
  BY <1>1 DEF Comes, Seeing
<1>2. CASE a = q /\ Return(q, q)
  <2>1. p \in cast
    BY PairStep, <1>0
  <2>2. phase'[q] = "appear" /\ p \in todo'[q]
    BY <1>0, <1>2, <2>1 DEF Return, Goto
  <2> QED BY <2>2 DEF Seeing
<1>3. CASE ~(a = q /\ Comes(q) /\ phase'[q] # "appear") /\ ~(a = q /\ Return(q, q))
  <2>1. p # q /\ Pair(p, q) /\ pos'[p] = pos[p] /\ pos'[q] = pos[q] /\ Registered(p) /\ (a \in {p, q} => Rests(a))
    <3>1. CASE a = q /\ Comes(q)
      <4>1. q \in Monsters /\ phase'[q] = "appear"
        BY <1>3, <3>1 DEF Comes, Objects
      <4>2. phase[q] = "appear"
        BY <1>3, <3>1, <4>1, MonsterPhase
      <4>3. Execute(q) \/ Appear(q, q)
        BY <1>0, <3>1, <4>1, <4>2, NextOfMonster, ObjectAssumption DEF Step, Appeared, Goto
      <4>4. /\ UNCHANGED <<later, missed, steady, pos, phase>>
            /\ st' = st /\ sect' = sect
        BY <4>3 DEF Execute, Appear, history, world
      <4>5. p # q /\ Pair(p, q) /\ Registered(p)
        <5>1. doubled \subseteq doubled'
          BY SparesOthers DEF Spares
        <5> QED BY <1>0, <3>1, <4>1, <4>4, <5>1 DEF Pair, Missed, Registered, SectionOf, SectionSize
      <4>6. Rests(q)
        BY <4>2, <4>4 DEF Rests, Settles, Looks, Sighted, Registered, SectionOf, SectionSize
      <4> QED BY <1>0, <3>1, <4>1, <4>4, <4>5, <4>6
    <3>2. CASE ~(a = q /\ Comes(q))
      BY <1>0, <3>2, PairStep
    <3> QED BY <3>1, <3>2
  <2>2. Near(pos[p], pos[q])
    BY <2>1
  <2>3. st[p] = "ingame"
    <3>1. ~Enter(p)
      BY <1>0, <2>1 DEF LastInv, SettledInv, Settles, Enter, At
    <3>2. ~Gone(p)
      BY <1>0 DEF Gone
    <3> QED BY <3>1, <3>2, StateStep
  <2>4. Present(q)
    BY <2>1, PresentStep DEF Pair
  <2>5. Beside(p, q)
    BY <2>1, <2>2, <2>3, <2>4 DEF Beside
  <2>6. CASE phase[q] \in {"enter", "leave", "arrive", "check", "look"}
    BY <2>5, <2>6, SeekStep
  <2>7. CASE phase[q] \in {"greet", "tell", "post", "appear"} /\ p \in todo[q]
    BY <2>5, <2>7, ReachStep
  <2>8. CASE \E op \in {"see", "seeNow", "meet", "insert"} : Has(q, Op(op, p, q))
    BY <1>0, <2>1, <2>5, <2>8, AskedStep
  <2>9. CASE LastSee(p, q)
    BY <2>1, <2>5, <2>9, RunStep
  <2>10. CASE phase[p] = "idle" /\ script[p] = AddObjectToView(p, q) /\ NoJob(jobs[p], q)
    BY <2>1, <2>5, <2>10, AddStep
  <2>11. CASE Still(p, q) /\ q \in view[p] /\ Shows(p, q)
    BY <1>0, <2>1, <2>5, <2>11, StayStep
  <2>12. Seeing(p, q)
    BY <2>5 DEF SeenInv
  <2> HIDE DEF Seeing
  <2> QED BY <2>6, <2>7, <2>8, <2>9, <2>10, <2>11, <2>12 DEF Seeing
<1> QED BY <1>1, <1>2, <1>3

\* What is known of those who come.
ComersInv ==
  /\ TypeInv /\ TrackInv /\ SightInv /\ FollowInv /\ LastInv /\ OwnersInv
  /\ PreyDeadInv /\ HomeInv /\ DropInv /\ GreetInv /\ SeenInv

LEMMA ComersInit == ViewInit => PreyDeadInv /\ DropInv /\ GreetInv /\ SeenInv
<1> SUFFICES ASSUME ViewInit PROVE PreyDeadInv /\ DropInv /\ GreetInv /\ SeenInv
  OBVIOUS
<1>1. PreyDeadInv
  BY NobodyAssumption DEF ViewInit, PreyDeadInv, Objects
<1>2. DropInv
  BY DEF ViewInit, DropInv, Actors
<1>3. GreetInv /\ SeenInv
  BY DEF ViewInit, GreetInv, SeenInv, Beside, Pair
<1> QED BY <1>1, <1>2, <1>3

\* What a twin does concerns none of those who are not among the doubled.
LEMMA ComersAside ==
  ASSUME TypeInv, PreyDeadInv, DropInv, GreetInv, SeenInv, Aside
  PROVE  (PreyDeadInv /\ DropInv /\ GreetInv /\ SeenInv)'
<1> USE DEF Aside, AsideOwn
<1>0. /\ Players \subseteq Objects \ doubled' /\ Players \cap Monsters = {} /\ doubled' \subseteq Monsters
      /\ jobs \in [Players -> Seq(Job)]
  BY ObjectAssumption DEF Objects, TypeInv, Typed, ViewTypes
<1>1. PreyDeadInv'
  <2> SUFFICES ASSUME NEW t \in Players, NEW m \in Monsters, prey'[t] = m
               PROVE  /\ phase'[t] \in {"kill", "mourn", "bury"}
                      /\ m \notin doubled' /\ phase'[t] # "kill" => life'[m] = "dead"
    BY DEF PreyDeadInv
  <2>1. prey[t] = m /\ phase'[t] = phase[t]
    BY <1>0
  <2>2. m \notin doubled' => m \notin doubled /\ life'[m] = life[m]
    BY DEF AsideMonsters
  <2> QED BY <2>1, <2>2 DEF PreyDeadInv
<1>2. DropInv'
  <2> SUFFICES ASSUME NEW q \in Objects, NEW p \in Players, phase'[q] \in {"drop", "part"},
                      p \in todo'[q] \/ Has(q, Op("lose", p, q))'
               PROVE  p \notin new'[q]
    BY DEF DropInv
  <2>1. /\ phase'[q] = phase[q] /\ script'[q] = script[q]
        /\ todo'[q] = todo[q] /\ new'[q] = new[q]
    OBVIOUS
  <2> QED BY <2>1 DEF DropInv, Has
<1>3. ASSUME NEW p \in Players, NEW q \in Objects \ doubled'
      PROVE  /\ NoJob(jobs[p], q) => NoJob(jobs'[p], q)
             /\ \A l : Newest(jobs[p], q, l) => Newest(jobs'[p], q, l)
  <2>1. CASE jobs'[p] = jobs[p]
    BY <2>1
  <2>2. CASE \E j \in Job : j.who \in doubled' /\ jobs'[p] = Append(jobs[p], j)
    <3>1. PICK j \in Job : j.who \in doubled' /\ jobs'[p] = Append(jobs[p], j)
      BY <2>2
    <3>2. jobs[p] \in Seq(Job) /\ j.who # q
      BY <1>0, <1>3, <3>1
    <3> QED BY <3>1, <3>2, JobAdded
  <2> QED BY <2>1, <2>2 DEF AsidePlayers
<1>4. ASSUME NEW p \in Players, NEW q \in Objects \ doubled', Still(p, q) PROVE Still(p, q)'
  BY <1>0, <1>3, <1>4 DEF Still, Has
<1>5. GreetInv'
  <2> SUFFICES ASSUME NEW p \in Players, NEW q \in Objects, Pair(p, q)',
                      phase'[q] \in {"enter", "greet", "appear"}
               PROVE  Still(p, q)'
    BY DEF GreetInv
  <2>1. /\ Pair(p, q) /\ q \in Objects \ doubled' /\ phase'[q] = phase[q]
    BY <1>0, PairAside
  <2> QED BY <1>4, <2>1 DEF GreetInv
<1>6. SeenInv'
  <2> SUFFICES ASSUME NEW p \in Players, NEW q \in Objects, Beside(p, q)' PROVE Seeing(p, q)'
    BY DEF SeenInv
  <2>1. /\ Pair(p, q) /\ q \in Objects \ doubled' /\ p \in Objects \ doubled'
        /\ pos'[p] = pos[p] /\ pos'[q] = pos[q] /\ phase'[p] = phase[p] /\ phase'[q] = phase[q]
        /\ Registered(p)' <=> Registered(p)
    BY <1>0, PairAside DEF Beside
  <2>2. Present(q)
    <3>1. Present(q)'
      BY DEF Beside
    <3>2. q \notin Players => q \in Monsters \ doubled'
      BY <2>1 DEF Objects
    <3> QED BY <2>1, <3>1, <3>2 DEF Present, Doomed, AsideMonsters
  <2>3. Beside(p, q)
    BY <2>1, <2>2 DEF Beside, Near, Within
  <2>4. Seeing(p, q)
    BY <2>3 DEF SeenInv
  <2>5. /\ script'[p] = script[p] /\ script'[q] = script[q] /\ todo'[q] = todo[q]
        /\ q \in view'[p] <=> q \in view[p]
        /\ shown'[p][q] = shown[p][q]
        /\ <<p, q>> \in crossed' <=> <<p, q>> \in crossed
        /\ <<p, q>> \in hollow' <=> <<p, q>> \in hollow
    BY <2>1 DEF AsidePlayers
  <2>6. /\ LastSee(p, q) => LastSee(p, q)'
        /\ NoJob(jobs[p], q) => NoJob(jobs'[p], q)
    BY <1>3, <2>1 DEF LastSee
  <2>7. Shows(p, q) => Shows(p, q)'
    BY <2>1, <2>5 DEF Shows, Has
  <2>8. Still(p, q) => Still(p, q)'
    BY <1>4, <2>1
  <2>9. \A x : Has(q, x) => Has(q, x)'
    BY <2>5 DEF Has
  <2> QED BY <2>1, <2>4, <2>5, <2>6, <2>7, <2>8, <2>9 DEF Seeing
<1> QED BY <1>1, <1>2, <1>5, <1>6

LEMMA ComersStep == ComersInv /\ [MonstersNext]_vars => ComersInv'
<1> SUFFICES ASSUME ComersInv, [MonstersNext]_vars PROVE ComersInv'
  OBVIOUS
<1> USE DEF ComersInv
<1>1. TypeInv'
  BY StepSolo
<1>2. FollowInv'
  BY FollowOutside, FollowExecute, SomeActs, StutterFollows
<1>3. ASSUME NEW a \in Objects, Step(a) PROVE ComersInv'
  <2>1. TrackInv' /\ SightInv' /\ LastInv' /\ OwnersInv'
    BY <1>3, TrackStep, PlaceStep, SteadyStep, LookStep, ExactStep, LastStep, OwnersStep DEF SightInv
  <2>2. PreyDeadInv' /\ HomeInv' /\ DropInv' /\ GreetInv' /\ SeenInv'
    BY <1>3, PreyDeadStep, HomeStep, DropStep, GreetStep, SeenStep
  <2> QED BY <1>1, <1>2, <2>1, <2>2
<1>4. CASE Aside
  BY <1>1, <1>2, <1>4, TrackAside, SightAside, LastAside, OwnersAside, HomeAside, ComersAside
<1> QED BY <1>3, <1>4, SomeStep

\* Once nothing is under way between two neighbours, the one who came last is in the
\* list of the other, and the other's client shows him where he stands, whatever
\* overlapped (Move, Damaged, LoginPacket, Logout and the jobs they post, the walks and
\* respawns of monsters and the kills of others); except when he came while the other
\* was logging in or is a monster on which two threads have been at work at once, and on
\* a client whose list two threads were changing at once.
THEOREM ComersAreSeen == MonstersSpec => []LastComerSeen
<1>1. ViewInit => ComersInv
  BY InitTypes, InitSolo, TrackInit, SightInit, FollowInit, LastInit, OwnersInit, HomeInit, ComersInit
    DEF ComersInv, TypeInv
<1>2. ComersInv => LastComerSeen
  <2> SUFFICES ASSUME ComersInv, NEW p \in Players \cap cast, NEW q \in cast \ doubled,
                      <<p, q>> \in later, st[p] = "ingame",
                      q \in Players => st[q] = "ingame", q \in Monsters => life[q] = "alive",
                      Quiet(p, q), Near(pos[p], pos[q]), ~Missed(p, q)
               PROVE  q \in view[p] /\ (<<p, q>> \in crossed \cup hollow \/ shown[p][q] = pos[q])
    BY DEF LastComerSeen
  <2>0. p \in Objects /\ q \in Objects
    BY CastLemma DEF ComersInv, TypeInv, Typed, ViewTypes, Objects
  <2>1. /\ phase[p] = "idle" /\ script[p] = <<>> /\ phase[q] = "idle" /\ script[q] = <<>>
        /\ \A t \in Players : prey[t] # q
        /\ \A i \in 1..Len(jobs[p]) : jobs[p][i].who # q
    BY DEF Quiet, At
  <2>2. Beside(p, q)
    <3>1. Registered(p)
      BY <2>1 DEF ComersInv, HomeInv, Registered
    <3>2. Present(q)
      BY <2>0, <2>1 DEF Present, Doomed, Objects
    <3>3. p \notin doubled
      BY ObjectAssumption DEF ComersInv, TypeInv, Typed, ViewTypes
    <3> QED BY <3>1, <3>2, <3>3 DEF Beside, Pair
  <2>3. Seeing(p, q)
    BY <2>0, <2>2 DEF ComersInv, SeenInv
  <2>4. \A x : ~Has(p, x) /\ ~Has(q, x)
    BY <2>1, InNone DEF Has
  <2>5. ~LastSee(p, q)
    BY <2>1 DEF LastSee, Newest
  <2>6. script[p] # AddObjectToView(p, q)
    <3>1. In(AddObjectToView(p, q), Op("insert", p, q)) /\ ~In(<<>>, Op("insert", p, q))
      BY TurnLemma, InNone
    <3> QED BY <2>1, <3>1
  <2>7. q \in view[p] /\ Shows(p, q)
    BY <2>1, <2>3, <2>4, <2>5, <2>6 DEF Seeing
  <2>8. ASSUME NEW t \in Objects, Has(t, Op("show", p, q)) PROVE FALSE
    <3> DEFINE x == Op("show", p, q)
    <3>1. x \in Access /\ x.op = "show" /\ x.of = p /\ x.obj = q
      BY <2>0 DEF Op, Access
    <3>2. Whose(t, x)
      BY <2>8, <3>1 DEF ComersInv, OwnersInv
    <3>3. t \in {p, q}
      BY <3>1, <3>2 DEF Whose
    <3> QED BY <2>4, <2>8, <3>3
  <2> QED BY <2>7, <2>8 DEF Shows
<1> QED BY <1>1, <1>2, ComersStep, PTL DEF MonstersSpec
=============================================================================
