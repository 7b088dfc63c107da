--------------------------- MODULE InventoryProofs ---------------------------
(***************************************************************************)
(* What becomes of the items for any number of players, tiles, slots,      *)
(* drops and steps.  The item map has no lock; the proofs follow the one   *)
(* picking up who is alone on his tile: what he asked for is what lies     *)
(* there until he clears it.  Every other drop is contended, and nothing   *)
(* is claimed of it.                                                       *)
(***************************************************************************)
EXTENDS Inventory, TLAPS, FiniteSetTheorems, SequenceTheorems, WellFoundedInduction

\* The drops so far, and what a tile may hold.
Known == 1..Len(type)
OnTile == Known \cup {Nothing}

\* TypeOK, with drops that have been made in place of any, and a reader that has
\* read nothing when nothing is being picked up.
KnownInv ==
  /\ item \in [Tiles -> OnTile]
  /\ slot \in [Players -> [1..Slots -> OnTile \cup {Free}]]
  /\ purse \in [Players -> SUBSET Known]
  /\ read \in [Players -> OnTile]
  /\ ground \in [Players -> Seq(Known \X Tiles)]
  /\ used \subseteq Known /\ buried \subseteq Known /\ refused \subseteq Known
  /\ contended \subseteq Known

IdleInv == \A p \in Players : phase[p] \in {"idle", "peek"} => read[p] = Nothing

\* A drop lies on one tile at most.
LyingInv == \A t, u \in Tiles : item[t] = item[u] /\ item[t] # Nothing => t = u

\* What two operations on one tile read, and what lies there, is contended.
OverlapInv ==
  \A p, q \in Players : p # q /\ phase[p] # "idle" /\ phase[q] # "idle" /\ at[p] = at[q] =>
    {item[at[p]], read[p]} \subseteq contended \cup {Nothing}

\* A player on a tile of his own has read what lies there.
ReadInv ==
  \A p \in Players : phase[p] \in {"ask", "put", "clear"} =>
    \/ read[p] = item[at[p]]
    \/ {item[at[p]], read[p]} \subseteq contended \cup {Nothing}

\* A drop was taken: it is in a slot, in a purse, or drunk.
Taken(d) ==
  \/ \E p \in Players, i \in 1..Slots : slot[p][i] = d
  \/ \E p \in Players : d \in purse[p]
  \/ d \in used

\* It was taken once.
Once(d) ==
  /\ \A p, q \in Players, i, j \in 1..Slots : slot[p][i] = d /\ slot[q][j] = d => p = q /\ i = j
  /\ \A p, q \in Players : d \in purse[p] /\ d \in purse[q] => p = q
  /\ \A p, q \in Players, i \in 1..Slots : slot[p][i] = d => d \notin purse[q]
  /\ d \in used => \A p \in Players : d \notin purse[p] /\ \A i \in 1..Slots : slot[p][i] # d

\* Taken and still on a tile, it is about to be cleared from there.
Cleared(d) ==
  \A t \in Tiles : Taken(d) /\ item[t] = d => \E p \in Players : phase[p] = "clear" /\ at[p] = t

\* Who clears it has taken it or had no room for it; what was not taken lies
\* somewhere, or is lost under another drop or at full slots.
Kept(d) ==
  /\ \A p \in Players : (phase[p] = "clear" /\ item[at[p]] = d) => (Taken(d) \/ d \in refused)
  /\ Taken(d) \/ Lies(d) \/ d \in buried \cup refused

\* That much holds of a clean drop.
CleanInv == \A d \in Known \ contended : Once(d) /\ Cleared(d) /\ Kept(d)


TileInv == IdleInv /\ LyingInv /\ OverlapInv /\ ReadInv
Inv == TypeOK /\ KnownInv /\ TileInv /\ CleanInv /\ OneMoneySlot /\ BagFollows
-----------------------------------------------------------------------------
(* Lemmas about the operators.                                             *)

\* The first element of a set of slots or of lying items is its smallest.
LEMMA FirstIs ==
  ASSUME NEW S \in SUBSET Nat, S # {}
  PROVE  First(S) \in S /\ \A j \in S : First(S) <= j
<1>1. PICK x \in S : \A y \in S : ~(<<y, x>> \in OpToRel(<, Nat))
  BY NatLessThanWellFounded, WFMin
<1>2. \A y \in S : <<y, x>> \in Nat \X Nat
  OBVIOUS
<1>3. \A y \in S : ~(y < x)
  BY <1>1, <1>2 DEF OpToRel
<1>4. \A y \in S : x <= y
  BY <1>3
<1> QED BY <1>4 DEF First

\* A drop has a type, what is no drop has none.
LEMMA TypeIs ==
  ASSUME TypeOK
  PROVE  /\ \A d \in Known : d \in Drops /\ Type(d) \in Types \ {"none"}
         /\ Type(Nothing) = "none" /\ Type(Free) = "none"
         /\ Nothing \notin Known /\ Free \notin Known
         /\ DOMAIN type = Known
<1>1. /\ type \in Seq(Types \ {"none"}) /\ Len(type) <= MaxDrops
      /\ DOMAIN type = 1..Len(type) /\ Len(type) \in Nat
  BY DEF TypeOK
<1>2. \A d \in Known : type[d] \in Types \ {"none"}
  BY <1>1 DEF Known
<1> QED BY <1>1, <1>2, CountAssumption DEF Type, Known, Drops, Nothing, Free

\* A drop makes a new number; every earlier drop keeps its type.
LEMMA DropMakes ==
  ASSUME TypeOK, NEW k \in Players, NEW t \in Tiles, NEW kind \in Types \ {"none"}, Drop(k, t, kind)
  PROVE  /\ type' \in Seq(Types \ {"none"}) /\ Len(type') <= MaxDrops
         /\ Known' = Known \cup {Len(type) + 1} /\ Len(type) + 1 \notin Known
         /\ Len(type) + 1 \in Drops /\ Len(type) + 1 # Nothing /\ Len(type) + 1 # Free
         /\ \A d : d # Len(type) + 1 => Type(d)' = Type(d)
<1>1. /\ type \in Seq(Types \ {"none"}) /\ Len(type) < MaxDrops /\ Len(type) \in Nat
      /\ DOMAIN type = 1..Len(type)
  BY DEF TypeOK, Drop
<1>2. type' = Append(type, kind)
  BY DEF Drop
<1>3. /\ type' \in Seq(Types \ {"none"}) /\ Len(type') = Len(type) + 1
      /\ \A i \in 1..Len(type) : type'[i] = type[i]
      /\ DOMAIN type' = 1..(Len(type) + 1)
  <2>1. type' \in Seq(Types \ {"none"}) /\ Len(type') = Len(type) + 1
    BY <1>1, <1>2, AppendProperties
  <2> QED BY <1>1, <1>2, <2>1
<1>4. \A d : d # Len(type) + 1 => (d \in DOMAIN type' <=> d \in DOMAIN type)
  BY <1>1, <1>3
<1>5. \A d : d # Len(type) + 1 => Type(d)' = Type(d)
  BY <1>1, <1>3, <1>4 DEF Type
<1> QED BY <1>1, <1>3, <1>5, CountAssumption DEF Known, Drops, Nothing, Free

\* A slot holds a drop, nothing, or is free.
LEMMA SlotHolds ==
  ASSUME KnownInv
  PROVE  \A p \in Players, i \in 1..Slots : slot[p][i] \in OnTile \cup {Free}
<1>1. slot \in [Players -> [1..Slots -> OnTile \cup {Free}]]
  BY DEF KnownInv
<1>2. \A p \in Players : slot[p] \in [1..Slots -> OnTile \cup {Free}]
  BY <1>1
<1> QED BY <1>2

LEMMA WithoutIs ==
  ASSUME NEW S, NEW s \in Seq(S), NEW n \in DOMAIN s
  PROVE  Without(s, n) \in Seq(S)
<1>1. n \in 1..Len(s) /\ Len(s) \in Nat
  OBVIOUS
<1>2. SubSeq(s, 1, n - 1) \in Seq(S) /\ SubSeq(s, n + 1, Len(s)) \in Seq(S)
  BY <1>1
<1> QED BY <1>2, ConcatProperties DEF Without

\* What the client does when it is told of an item: the icon is that of y, and the
\* slot is misled if y is not the item.
IconOf(y, p, i, d) ==
  /\ bag' = [bag EXCEPT ![p][i] = Type(y)]
  /\ misled' = IF y = d THEN misled \ {<<p, i>>} ELSE misled \cup {<<p, i>>}

LEMMA ItemGetIs ==
  ASSUME TypeOK, KnownInv, NEW p \in Players, NEW i \in 1..Slots, NEW d \in OnTile,
         NEW t \in Tiles, ItemGet(p, i, d, t)
  PROVE  /\ ground' \in [Players -> Seq(Known \X Tiles)]
         /\ \E y \in OnTile : IconOf(y, p, i, d)
<1>1. CASE Lying(p, t) = {}
  BY <1>1 DEF ItemGet, KnownInv, IconOf
<1>2. CASE Lying(p, t) # {}
  <2> DEFINE n == First(Lying(p, t))
  <2>1. ground[p] \in Seq(Known \X Tiles) /\ DOMAIN ground[p] = 1..Len(ground[p])
    BY DEF KnownInv
  <2>2. Lying(p, t) \in SUBSET Nat
    BY <2>1 DEF Lying
  <2>3. n \in Lying(p, t)
    BY <1>2, <2>2, FirstIs
  <2>4. n \in DOMAIN ground[p] /\ ground[p][n][1] \in Known
    <3>1. \A m \in DOMAIN ground[p] : ground[p][m] \in Known \X Tiles
      BY <2>1
    <3>2. n \in DOMAIN ground[p]
      BY <2>3 DEF Lying
    <3> HIDE DEF n
    <3> QED BY <3>1, <3>2
  <2>5. /\ IconOf(ground[p][n][1], p, i, d)
        /\ ground' = [ground EXCEPT ![p] = Without(@, n)]
    BY <1>2 DEF ItemGet, IconOf, First
  <2>6. Without(ground[p], n) \in Seq(Known \X Tiles)
    BY <2>1, <2>4, WithoutIs
  <2>7. ground' \in [Players -> Seq(Known \X Tiles)]
    BY <2>5, <2>6 DEF KnownInv
  <2>8. ground[p][n][1] \in OnTile
    BY <2>4 DEF OnTile
  <2> QED BY <2>5, <2>7, <2>8
<1> QED BY <1>1, <1>2

\* The slots that are searched: the first one found is a slot.
LEMMA SlotsFound ==
  ASSUME NEW p \in Players
  PROVE  /\ MoneySlots(p) # {} => First(MoneySlots(p)) \in MoneySlots(p)
         /\ FreeSlots(p) # {} => First(FreeSlots(p)) \in FreeSlots(p)
         /\ MoneySlots(p) \subseteq 1..Slots /\ FreeSlots(p) \subseteq 1..Slots
<1>1. MoneySlots(p) \in SUBSET Nat /\ FreeSlots(p) \in SUBSET Nat
  BY CountAssumption DEF MoneySlots, FreeSlots
<1> QED BY <1>1, FirstIs DEF MoneySlots, FreeSlots
-----------------------------------------------------------------------------
(* The types.                                                              *)

\* The part of TypeOK that KnownInv does not cover.
PlainInv ==
  /\ type \in Seq(Types \ {"none"}) /\ Len(type) <= MaxDrops
  /\ at \in [Players -> Tiles]
  /\ phase \in [Players -> {"idle", "peek", "ask", "put", "clear"}]
  /\ bag \in [Players -> [1..Slots -> Types \cup {"empty"}]]
  /\ steps \in 0..MaxSteps
  /\ misled \subseteq Players \X (1..Slots)

LEMMA TypeParts == ASSUME PlainInv, KnownInv PROVE TypeOK
<1>1. Known \subseteq Drops /\ OnTile \subseteq Drops \cup {Nothing}
  BY CountAssumption DEF PlainInv, Known, OnTile, Drops
<1>2. ground \in [Players -> Seq(Drops \X Tiles)]
  <2>1. \A p \in Players : ground[p] \in Seq(Drops \X Tiles)
    <3> SUFFICES ASSUME NEW p \in Players PROVE ground[p] \in Seq(Drops \X Tiles)
      OBVIOUS
    <3>1. ground[p] \in Seq(Known \X Tiles)
      BY DEF KnownInv
    <3>2. Known \X Tiles \subseteq Drops \X Tiles
      BY <1>1
    <3> QED BY <3>1, <3>2
  <2> QED BY <2>1 DEF KnownInv
<1> QED BY <1>1, <1>2 DEF TypeOK, PlainInv, KnownInv

LEMMA TypePartsNext == ASSUME PlainInv', KnownInv' PROVE TypeOK'
BY TypeParts, PTL

LEMMA InitTypes == Init => TypeOK /\ KnownInv
<1> SUFFICES ASSUME Init PROVE PlainInv /\ KnownInv
  BY TypeParts
<1>1. \A S : <<>> \in Seq(S)
  OBVIOUS
<1>2. Len(type) = 0
  BY DEF Init
<1>3. PlainInv
  BY <1>1, <1>2, CountAssumption DEF Init, PlainInv
<1>4. KnownInv
  BY <1>1 DEF Init, KnownInv, Known, OnTile
<1> QED BY <1>3, <1>4

\* One case for each action of a player.
LEMMA SomeStep ==
  ASSUME Next
  PROVE  \E p \in Players :
           \/ \E t \in Tiles : StepOn(p, t)
           \/ \E t \in Tiles, kind \in Types \ {"none"} : Drop(p, t, kind)
           \/ Peek(p) \/ Ask(p) \/ PutMoney(p) \/ PutItem(p) \/ PutNowhere(p) \/ Clear(p)
           \/ \E i \in 1..Slots : UseItem(p, i)
BY DEF Next, CheckItem

\* Nothing new is known unless a monster drops it.
LEMMA KnownStays == ASSUME UNCHANGED type PROVE Known' = Known /\ OnTile' = OnTile /\ \A d : Type(d)' = Type(d)
BY DEF Known, OnTile, Type

LEMMA TypeStep == ASSUME TypeOK, KnownInv, [Next]_vars PROVE TypeOK' /\ KnownInv'
<1> SUFFICES PlainInv' /\ KnownInv'
  BY TypePartsNext
<1>t. /\ Nothing \in OnTile /\ Known \subseteq OnTile
      /\ PlainInv /\ MaxSteps \in Nat
      /\ \A p \in Players : item[at[p]] \in OnTile /\ at[p] \in Tiles /\ read[p] \in OnTile
  BY CountAssumption DEF OnTile, TypeOK, PlainInv, KnownInv
<1>1. ASSUME NEW k \in Players, NEW t \in Tiles, NEW kind \in Types \ {"none"}, Drop(k, t, kind)
      PROVE  PlainInv' /\ KnownInv'
  <2> DEFINE d == Len(type) + 1
  <2>1. /\ type' \in Seq(Types \ {"none"}) /\ Len(type') <= MaxDrops
        /\ Known' = Known \cup {d} /\ OnTile' = OnTile \cup {d}
    BY <1>1, DropMakes DEF OnTile
  <2>2. /\ item' = [item EXCEPT ![t] = d]
        /\ buried' = buried \cup ({item[t]} \ {Nothing})
        /\ ground' = [ground EXCEPT ![k] = Append(@, <<d, t>>)]
        /\ UNCHANGED <<at, slot, purse, phase, read, bag, misled, steps, used, refused>>
    BY <1>1 DEF Drop, ItemAdd
  <2>3. contended' \subseteq Known'
    <3>1. contended' \subseteq contended \cup (({d, item[t]} \cup {read[p] : p \in Picking(t)}) \ {Nothing})
      BY <1>1 DEF Drop
    <3>2. {read[p] : p \in Picking(t)} \subseteq OnTile
      BY <1>t DEF Picking
    <3>3. item[t] \in OnTile /\ contended \subseteq Known
      BY DEF KnownInv
    <3>4. ({d, item[t]} \cup {read[p] : p \in Picking(t)}) \ {Nothing} \subseteq Known \cup {d}
      BY <3>2, <3>3 DEF OnTile
    <3> HIDE DEF d
    <3> QED BY <2>1, <3>1, <3>3, <3>4
  <2>4. ground' \in [Players -> Seq(Known' \X Tiles)]
    <3>1. \A p \in Players : ground[p] \in Seq(Known' \X Tiles)
      <4> SUFFICES ASSUME NEW p \in Players PROVE ground[p] \in Seq(Known' \X Tiles)
        OBVIOUS
      <4>1. ground[p] \in Seq(Known \X Tiles)
        BY DEF KnownInv
      <4>2. Known \X Tiles \subseteq Known' \X Tiles
        BY <2>1
      <4> QED BY <4>1, <4>2
    <3>2. <<d, t>> \in Known' \X Tiles
      BY <2>1
    <3>3. Append(ground[k], <<d, t>>) \in Seq(Known' \X Tiles)
      BY <3>1, <3>2, AppendProperties
    <3> HIDE DEF d
    <3> QED BY <2>2, <3>1, <3>3 DEF KnownInv
  <2>5. PlainInv'
    BY <1>t, <2>1, <2>2 DEF PlainInv
  <2>6. KnownInv'
    <3> HIDE DEF d
    <3>1. item' \in [Tiles -> OnTile'] /\ buried' \subseteq Known'
      BY <2>1, <2>2 DEF KnownInv, OnTile
    <3>2. slot' \in [Players -> [1..Slots -> OnTile' \cup {Free}]]
      BY <2>1, <2>2 DEF KnownInv
    <3>3. purse' \in [Players -> SUBSET (Known')] /\ read' \in [Players -> OnTile']
      BY <2>1, <2>2 DEF KnownInv
    <3>4. used' \subseteq Known' /\ refused' \subseteq Known'
      BY <2>1, <2>2 DEF KnownInv
    <3> QED BY <2>3, <2>4, <3>1, <3>2, <3>3, <3>4 DEF KnownInv
  <2> QED BY <2>5, <2>6
<1>2. ASSUME NEW p \in Players, NEW t \in Tiles, StepOn(p, t) PROVE PlainInv' /\ KnownInv'
  <2>1. UNCHANGED type /\ item[t] \in OnTile
    BY <1>2 DEF StepOn, map, KnownInv
  <2>2. contended' \subseteq Known
    <3>1. {read[q] : q \in Picking(t)} \subseteq OnTile
      BY <1>t DEF Picking
    <3> QED BY <1>2, <2>1, <3>1 DEF StepOn, KnownInv, OnTile
  <2> QED BY <1>2, <1>t, <2>1, <2>2, KnownStays DEF StepOn, PlainInv, KnownInv, map, client
<1>3. ASSUME NEW p \in Players, Peek(p) PROVE PlainInv' /\ KnownInv'
  BY <1>3, <1>t, KnownStays DEF Peek, Goto, PlainInv, KnownInv, map, client
<1>4. ASSUME NEW p \in Players, Ask(p) PROVE PlainInv' /\ KnownInv'
  BY <1>4, <1>t, KnownStays DEF Ask, Goto, PlainInv, KnownInv, map, client
<1>5. ASSUME NEW p \in Players, NEW i \in 1..Slots, NEW d \in OnTile, ItemGet(p, i, d, at[p]),
             Putting(p), UNCHANGED <<map, at, steps, used, buried, refused, contended>>,
             \/ UNCHANGED <<slot, read>> /\ purse' = [purse EXCEPT ![p] = @ \cup {d}] /\ d # Nothing
             \/ /\ slot' = [slot EXCEPT ![p][i] = d]
                /\ read' = [read EXCEPT ![p] = d]
                /\ UNCHANGED purse
      PROVE  PlainInv' /\ KnownInv'
  <2>1. UNCHANGED type
    BY <1>5 DEF map
  <2>2. PICK y \in OnTile : IconOf(y, p, i, d)
    BY <1>5, <1>t, ItemGetIs
  <2>3. Type(y) \in Types
    BY TypeIs DEF OnTile, Types
  <2>4. bag' \in [Players -> [1..Slots -> Types \cup {"empty"}]]
    BY <1>t, <2>2, <2>3 DEF IconOf, PlainInv
  <2>5. misled' \subseteq Players \X (1..Slots)
    <3>1. <<p, i>> \in Players \X (1..Slots)
      OBVIOUS
    <3> QED BY <1>t, <2>2, <3>1 DEF IconOf, PlainInv
  <2>6. PlainInv'
    BY <1>5, <1>t, <2>4, <2>5 DEF PlainInv, map, Putting
  <2>7. ground' \in [Players -> Seq(Known \X Tiles)]
    BY <1>5, <1>t, ItemGetIs
  <2>8. slot' \in [Players -> [1..Slots -> OnTile \cup {Free}]] /\ read' \in [Players -> OnTile]
    <3>1. /\ slot \in [Players -> [1..Slots -> OnTile \cup {Free}]]
          /\ read \in [Players -> OnTile]
      BY DEF KnownInv
    <3>2. CASE UNCHANGED <<slot, read>>
      BY <3>1, <3>2
    <3>3. CASE slot' = [slot EXCEPT ![p][i] = d] /\ read' = [read EXCEPT ![p] = d]
      BY <3>1, <3>3
    <3> QED BY <1>5, <3>2, <3>3
  <2>9. purse' \in [Players -> SUBSET Known]
    <3>1. purse \in [Players -> SUBSET Known]
      BY DEF KnownInv
    <3>2. CASE UNCHANGED purse
      BY <3>1, <3>2
    <3>3. CASE purse' = [purse EXCEPT ![p] = @ \cup {d}] /\ d # Nothing
      <4>1. d \in Known
        BY <3>3 DEF OnTile
      <4> QED BY <3>1, <3>3, <4>1
    <3> QED BY <1>5, <3>2, <3>3
  <2> QED BY <1>5, <2>1, <2>6, <2>7, <2>8, <2>9, KnownStays DEF KnownInv, map
<1>6. ASSUME NEW p \in Players, PutMoney(p) PROVE PlainInv' /\ KnownInv'
  <2> DEFINE i == First(MoneySlots(p))
  <2>1. i \in 1..Slots
    BY <1>6, SlotsFound DEF PutMoney
  <2>2. read[p] # Nothing
    BY <1>6, TypeIs DEF PutMoney
  <2>3. /\ Putting(p) /\ purse' = [purse EXCEPT ![p] = @ \cup {read[p]}]
        /\ ItemGet(p, i, read[p], at[p])
        /\ UNCHANGED <<map, at, slot, read, steps, used, buried, refused, contended>>
    BY <1>6 DEF PutMoney
  <2> HIDE DEF i
  <2> QED BY <1>5, <1>t, <2>1, <2>2, <2>3
<1>7. ASSUME NEW p \in Players, PutItem(p) PROVE PlainInv' /\ KnownInv'
  <2> DEFINE i == First(FreeSlots(p))
  <2>1. i \in 1..Slots
    BY <1>7, SlotsFound DEF PutItem
  <2>2. /\ Putting(p) /\ slot' = [slot EXCEPT ![p][i] = item[at[p]]]
        /\ read' = [read EXCEPT ![p] = item[at[p]]]
        /\ ItemGet(p, i, item[at[p]], at[p])
        /\ UNCHANGED <<map, at, purse, steps, used, buried, refused, contended>>
    BY <1>7 DEF PutItem
  <2> HIDE DEF i
  <2> QED BY <1>5, <1>t, <2>1, <2>2
<1>8. ASSUME NEW p \in Players, PutNowhere(p) PROVE PlainInv' /\ KnownInv'
  BY <1>8, <1>t, KnownStays DEF PutNowhere, Putting, PlainInv, KnownInv, OnTile, map, client
<1>9. ASSUME NEW p \in Players, Clear(p) PROVE PlainInv' /\ KnownInv'
  BY <1>9, <1>t, KnownStays DEF Clear, PlainInv, KnownInv, client
<1>10. ASSUME NEW p \in Players, NEW i \in 1..Slots, UseItem(p, i) PROVE PlainInv' /\ KnownInv'
  <2>1. UNCHANGED type /\ slot[p][i] \in Known
    <3>1. slot[p][i] \in OnTile \cup {Free}
      BY SlotHolds
    <3>2. UNCHANGED type /\ Type(slot[p][i]) = "potion"
      BY <1>10 DEF UseItem, map
    <3>3. slot[p][i] # Free /\ slot[p][i] # Nothing
      BY <3>2, TypeIs
    <3> QED BY <3>1, <3>2, <3>3 DEF OnTile
  <2>2. bag' \in [Players -> [1..Slots -> Types \cup {"empty"}]]
    BY <1>10, <1>t DEF UseItem, ItemUsed, PlainInv
  <2>3. slot' \in [Players -> [1..Slots -> OnTile \cup {Free}]]
    BY <1>10 DEF UseItem, KnownInv
  <2> QED BY <1>10, <1>t, <2>1, <2>2, <2>3, KnownStays DEF UseItem, ItemUsed, PlainInv, KnownInv, map
<1>11. CASE UNCHANGED vars
  BY <1>11, <1>t, KnownStays DEF vars, map, client, PlainInv, KnownInv
<1> QED BY <1>1, <1>2, <1>3, <1>4, <1>6, <1>7, <1>8, <1>9, <1>10, <1>11, SomeStep
-----------------------------------------------------------------------------
(* The tiles: what those who pick up have read of them.                    *)

LEMMA InitTiles == Init => TileInv
BY DEF Init, TileInv, IdleInv, LyingInv, OverlapInv, ReadInv

LEMMA TileStep == ASSUME TypeOK, KnownInv, TileInv, [Next]_vars PROVE TileInv'
<1>t. /\ item \in [Tiles -> OnTile] /\ read \in [Players -> OnTile] /\ at \in [Players -> Tiles]
      /\ phase \in [Players -> {"idle", "peek", "ask", "put", "clear"}]
  BY DEF TypeOK, KnownInv
<1>i. IdleInv /\ LyingInv /\ OverlapInv /\ ReadInv
  BY DEF TileInv
<1>1. ASSUME NEW k \in Players, NEW t \in Tiles, NEW kind \in Types \ {"none"}, Drop(k, t, kind)
      PROVE  TileInv'
  <2> DEFINE d == Len(type) + 1
  <2>1. d \notin Known /\ d # Nothing
    BY <1>1, DropMakes
  <2>2. item' = [item EXCEPT ![t] = d] /\ UNCHANGED <<at, phase, read>>
    BY <1>1 DEF Drop
  <2>3. /\ contended \subseteq contended'
        /\ Picking(t) # {} => {d, item[t]} \cup {read[p] : p \in Picking(t)} \subseteq contended' \cup {Nothing}
    BY <1>1 DEF Drop
  <2> HIDE DEF d
  <2>4. IdleInv'
    BY <1>i, <2>2 DEF IdleInv
  <2>5. LyingInv'
    BY <1>t, <1>i, <2>1, <2>2 DEF LyingInv, OnTile
  <2>6. \A p \in Players : phase[p] # "idle" /\ at[p] = t =>
          {item'[t], item[t], read[p]} \subseteq contended' \cup {Nothing}
    BY <1>t, <2>2, <2>3 DEF Picking
  <2>7. \A p \in Players : at[p] # t => item'[at[p]] = item[at[p]]
    BY <1>t, <2>2
  <2>8. OverlapInv'
    BY <1>i, <2>2, <2>3, <2>6, <2>7 DEF OverlapInv
  <2>9. ReadInv'
    BY <1>i, <2>2, <2>3, <2>6, <2>7 DEF ReadInv
  <2> QED BY <2>4, <2>5, <2>8, <2>9 DEF TileInv
<1>2. ASSUME NEW p \in Players, NEW t \in Tiles, StepOn(p, t) PROVE TileInv'
  <2>1. /\ UNCHANGED <<item, read>> /\ phase[p] = "idle" /\ at' = [at EXCEPT ![p] = t]
        /\ phase' = [phase EXCEPT ![p] = "peek"]
    BY <1>2 DEF StepOn, map
  <2>2. /\ contended \subseteq contended'
        /\ Picking(t) # {} => {item[t]} \cup {read[q] : q \in Picking(t)} \subseteq contended' \cup {Nothing}
    BY <1>2 DEF StepOn
  <2>3. read[p] = Nothing /\ at'[p] = t /\ phase'[p] = "peek"
    BY <1>t, <1>i, <2>1 DEF IdleInv
  <2>4. \A q \in Players \ {p} : at'[q] = at[q] /\ phase'[q] = phase[q]
    BY <1>t, <2>1
  <2>5. IdleInv'
    BY <1>i, <2>1, <2>3, <2>4 DEF IdleInv
  <2>6. LyingInv'
    BY <1>i, <2>1 DEF LyingInv
  <2>7. \A q \in Players : phase[q] # "idle" /\ at[q] = t =>
          {item[t], read[q]} \subseteq contended' \cup {Nothing}
    BY <2>2 DEF Picking
  <2>8. OverlapInv'
    <3> SUFFICES ASSUME NEW x \in Players, NEW y \in Players, x # y, phase'[x] # "idle",
                        phase'[y] # "idle", at'[x] = at'[y]
                 PROVE  {item[at'[x]], read[x]} \subseteq contended' \cup {Nothing}
      BY <2>1 DEF OverlapInv
    <3>1. CASE x = p
      BY <2>3, <2>4, <2>7, <3>1
    <3>2. CASE x # p /\ y = p
      BY <2>3, <2>4, <2>7, <3>2
    <3>3. CASE x # p /\ y # p
      BY <1>i, <2>2, <2>4, <3>3 DEF OverlapInv
    <3> QED BY <3>1, <3>2, <3>3
  <2>9. ReadInv'
    BY <1>i, <2>1, <2>2, <2>3, <2>4 DEF ReadInv
  <2> QED BY <2>5, <2>6, <2>8, <2>9 DEF TileInv
<1>3. ASSUME NEW p \in Players, NEW r \in OnTile, NEW ph \in {"ask", "put", "clear"},
             UNCHANGED <<item, at, contended>>,
             read' = [read EXCEPT ![p] = r], phase' = [phase EXCEPT ![p] = ph],
             phase[p] # "idle",
             r = item[at[p]] \/ (r = read[p] /\ phase[p] # "peek")
      PROVE  TileInv'
  <2>1. /\ phase'[p] = ph /\ read'[p] = r
        /\ \A q \in Players \ {p} : phase'[q] = phase[q] /\ read'[q] = read[q]
    BY <1>3, <1>t
  <2>2. IdleInv'
    BY <1>i, <2>1 DEF IdleInv
  <2>3. LyingInv'
    BY <1>3, <1>i DEF LyingInv
  <2>4. OverlapInv'
    <3>1. \A x, y \in Players : phase'[x] # "idle" /\ phase'[y] # "idle" =>
            phase[x] # "idle" /\ phase[y] # "idle"
      BY <1>3, <2>1
    <3>2. \A x \in Players : read'[x] \in {read[x], item[at[x]]}
      BY <1>3, <2>1
    <3> QED BY <1>3, <1>i, <3>1, <3>2 DEF OverlapInv
  <2>5. ReadInv'
    BY <1>3, <1>i, <1>t, <2>1 DEF ReadInv
  <2> QED BY <2>2, <2>3, <2>4, <2>5 DEF TileInv
<1>4. ASSUME NEW p \in Players, Clear(p) PROVE TileInv'
  <2>1. /\ phase' = [phase EXCEPT ![p] = "idle"] /\ read' = [read EXCEPT ![p] = Nothing]
        /\ item' = [item EXCEPT ![at[p]] = Nothing] /\ UNCHANGED <<at, contended>>
    BY <1>4 DEF Clear
  <2>2. phase[p] = "clear"
    BY <1>4 DEF Clear
  <2>3. /\ phase'[p] = "idle" /\ read'[p] = Nothing /\ item'[at[p]] = Nothing
        /\ \A q \in Players \ {p} : phase'[q] = phase[q] /\ read'[q] = read[q]
        /\ \A t \in Tiles \ {at[p]} : item'[t] = item[t]
    BY <1>t, <2>1
  <2>4. IdleInv'
    BY <1>i, <2>3 DEF IdleInv
  <2>5. LyingInv'
    BY <1>i, <2>3 DEF LyingInv
  <2>6. \A q \in Players \ {p} : phase[q] # "idle" /\ at[q] = at[p] =>
          read[q] \in contended \cup {Nothing}
    BY <1>i, <2>2 DEF OverlapInv
  <2>7. OverlapInv'
    <3> SUFFICES ASSUME NEW x \in Players, NEW y \in Players, x # y, phase'[x] # "idle",
                        phase'[y] # "idle", at[x] = at[y]
                 PROVE  {item'[at[x]], read'[x]} \subseteq contended \cup {Nothing}
      BY <2>1 DEF OverlapInv
    <3>1. x # p /\ y # p
      BY <2>3
    <3>2. {item[at[x]], read[x]} \subseteq contended \cup {Nothing}
      BY <1>i, <2>3, <3>1 DEF OverlapInv
    <3> QED BY <1>t, <2>3, <3>1, <3>2
  <2>8. ReadInv'
    <3> SUFFICES ASSUME NEW q \in Players, phase'[q] \in {"ask", "put", "clear"}
                 PROVE  \/ read'[q] = item'[at[q]]
                        \/ {item'[at[q]], read'[q]} \subseteq contended \cup {Nothing}
      BY <2>1 DEF ReadInv
    <3>1. q # p
      BY <2>3
    <3>2. CASE at[q] = at[p]
      BY <2>3, <2>6, <3>1, <3>2
    <3>3. CASE at[q] # at[p]
      BY <1>i, <1>t, <2>3, <3>1, <3>3 DEF ReadInv
    <3> QED BY <3>2, <3>3
  <2> QED BY <2>4, <2>5, <2>7, <2>8 DEF TileInv
<1>5. ASSUME NEW p \in Players, Peek(p) PROVE TileInv'
  <2>1. CASE item[at[p]] = Nothing
    <3>1. /\ phase' = [phase EXCEPT ![p] = "idle"] /\ phase[p] = "peek"
          /\ UNCHANGED <<item, at, read, contended>>
      BY <1>5, <2>1 DEF Peek, map
    <3>2. phase'[p] = "idle" /\ \A q \in Players \ {p} : phase'[q] = phase[q]
      BY <1>t, <3>1
    <3> QED BY <1>i, <3>1, <3>2 DEF TileInv, IdleInv, LyingInv, OverlapInv, ReadInv
  <2>2. CASE item[at[p]] # Nothing
    <3>1. /\ phase' = [phase EXCEPT ![p] = "ask"] /\ read' = [read EXCEPT ![p] = item[at[p]]]
          /\ UNCHANGED <<item, at, contended>> /\ phase[p] # "idle"
      BY <1>5, <2>2 DEF Peek, Goto, map
    <3>2. item[at[p]] \in OnTile /\ "ask" \in {"ask", "put", "clear"}
      BY <1>t
    <3> QED BY <1>3, <3>1, <3>2
  <2> QED BY <2>1, <2>2
<1>6. ASSUME NEW p \in Players, Ask(p) PROVE TileInv'
  BY <1>3, <1>6, <1>t DEF Ask, Goto, map
<1>7. ASSUME NEW p \in Players, PutMoney(p) \/ PutNowhere(p) PROVE TileInv'
  <2>1. /\ UNCHANGED <<item, at, contended, read>> /\ phase[p] = "put"
        /\ phase' = [phase EXCEPT ![p] = "clear"]
    BY <1>7 DEF PutMoney, PutNowhere, Putting, map
  <2>2. read' = [read EXCEPT ![p] = read[p]]
    BY <1>t, <2>1
  <2> QED BY <1>3, <1>t, <2>1, <2>2
<1>8. ASSUME NEW p \in Players, PutItem(p) PROVE TileInv'
  BY <1>3, <1>8, <1>t DEF PutItem, Putting, map
<1>9. ASSUME UNCHANGED <<item, at, phase, read, contended>> PROVE TileInv'
  BY <1>9, <1>i DEF TileInv, IdleInv, LyingInv, OverlapInv, ReadInv
<1>10. ASSUME NEW p \in Players, NEW i \in 1..Slots, UseItem(p, i) PROVE TileInv'
  BY <1>9, <1>10 DEF UseItem, map
<1>11. CASE UNCHANGED vars
  BY <1>9, <1>11 DEF vars, map
<1> QED BY <1>1, <1>2, <1>4, <1>5, <1>6, <1>7, <1>8, <1>10, <1>11, SomeStep
-----------------------------------------------------------------------------
(* A clean drop: taken once, cleared after it was taken.                   *)

LEMMA InitClean == Init => CleanInv
BY DEF Init, CleanInv, Known

\* Nobody else is on the tile of one who picks up a clean drop.
LEMMA Alone ==
  ASSUME TypeOK, OverlapInv, NEW p \in Players, NEW q \in Players, phase[p] # "idle",
         phase[q] # "idle", at[q] = at[p], item[at[p]] \in Known \ contended
  PROVE  q = p
BY TypeIs DEF OverlapInv

\* What is taken, and how often, depends on slots, purses and potions drunk alone.
LEMMA TakenStays ==
  ASSUME UNCHANGED <<slot, purse, used>>
  PROVE  \A d : (Taken(d)' <=> Taken(d)) /\ (Once(d)' <=> Once(d))
BY DEF Taken, Once

LEMMA CleanStep == ASSUME TypeOK, KnownInv, TileInv, CleanInv, [Next]_vars PROVE CleanInv'
<1>t. /\ item \in [Tiles -> OnTile] /\ read \in [Players -> OnTile] /\ at \in [Players -> Tiles]
      /\ phase \in [Players -> {"idle", "peek", "ask", "put", "clear"}]
      /\ slot \in [Players -> [1..Slots -> OnTile \cup {Free}]]
      /\ purse \in [Players -> SUBSET Known] /\ Len(type) \in Nat /\ used \subseteq Known
      /\ OnTile = Known \cup {Nothing} /\ Nothing \notin Known /\ Free \notin Known
  BY TypeIs DEF TypeOK, KnownInv, OnTile
<1>s. \A p \in Players, i \in 1..Slots : slot[p][i] \in OnTile \cup {Free}
  BY SlotHolds
<1>i. LyingInv /\ OverlapInv /\ ReadInv
  BY DEF TileInv
<1>c. \A d \in Known \ contended : Once(d) /\ Cleared(d) /\ Kept(d)
  BY DEF CleanInv
<1>1. ASSUME NEW k \in Players, NEW t \in Tiles, NEW kind \in Types \ {"none"}, Drop(k, t, kind)
      PROVE  CleanInv'
  <2>0. PICK n \in Nat : n = Len(type) + 1
    BY <1>t
  <2>1. n \notin Known /\ n # Nothing /\ n # Free /\ Known' = Known \cup {n}
    BY <1>1, <2>0, DropMakes
  <2>2. /\ item' = [item EXCEPT ![t] = n] /\ buried' = buried \cup ({item[t]} \ {Nothing})
        /\ UNCHANGED <<at, slot, purse, phase, used, refused>>
        /\ contended \subseteq contended'
        /\ Picking(t) # {} => n \in contended' \cup {Nothing}
    BY <1>1, <2>0 DEF Drop
  <2>3. item'[t] = n /\ \A u \in Tiles : u # t => item'[u] = item[u]
    BY <1>t, <2>2
  <2>4. \A d : (Taken(d)' <=> Taken(d)) /\ (Once(d)' <=> Once(d))
    BY <2>2, TakenStays
  <2>5. ASSUME n \notin contended' PROVE Once(n) /\ Cleared(n)' /\ Kept(n)'
    <3>1. /\ ~Taken(n) /\ Once(n)
      <4>1. \A p \in Players, i \in 1..Slots : slot[p][i] # n
        BY <1>t, <1>s, <2>1
      <4>2. n \notin used /\ \A p \in Players : n \notin purse[p]
        BY <1>t, <2>1
      <4> QED BY <4>1, <4>2 DEF Taken, Once
    <3>2. Lies(n)'
      BY <2>3 DEF Lies
    <3>3. \A p \in Players : phase[p] = "clear" => at[p] # t
      BY <2>1, <2>2, <2>5 DEF Picking
    <3>4. \A p \in Players : phase[p] = "clear" => item'[at[p]] # n
      BY <1>t, <2>1, <2>3, <3>3
    <3> QED BY <2>2, <2>4, <3>1, <3>2, <3>4 DEF Cleared, Kept
  <2>6. ASSUME NEW d \in Known \ contended PROVE Cleared(d)' /\ Kept(d)'
    <3>1. d # n /\ d # Nothing /\ Cleared(d) /\ Kept(d)
      BY <1>t, <1>c, <2>1
    <3>2. \A u \in Tiles : item'[u] = d => item[u] = d
      BY <2>3, <3>1
    <3>3. Cleared(d)'
      BY <2>2, <2>4, <3>1, <3>2 DEF Cleared
    <3>4. Lies(d) => Lies(d)' \/ d \in buried'
      BY <2>2, <2>3, <3>1 DEF Lies
    <3> QED BY <1>t, <2>2, <2>4, <3>1, <3>2, <3>3, <3>4 DEF Kept
  <2> QED BY <1>c, <2>1, <2>2, <2>4, <2>5, <2>6 DEF CleanInv
<1>2. ASSUME NEW p \in Players, NEW t \in Tiles, StepOn(p, t) PROVE CleanInv'
  <2>1. /\ UNCHANGED <<item, type, slot, purse, used, buried, refused>> /\ contended \subseteq contended'
        /\ phase[p] = "idle" /\ phase' = [phase EXCEPT ![p] = "peek"] /\ at' = [at EXCEPT ![p] = t]
    BY <1>2 DEF StepOn, map
  <2>2. \A q \in Players : /\ phase'[q] = "clear" <=> phase[q] = "clear"
                           /\ phase[q] = "clear" => at'[q] = at[q]
    BY <1>t, <2>1
  <2>3. \A d : (Taken(d)' <=> Taken(d)) /\ (Once(d)' <=> Once(d)) /\ (Lies(d)' <=> Lies(d))
    BY <2>1, TakenStays DEF Lies
  <2>4. Known' = Known
    BY <2>1, KnownStays
  <2> QED BY <1>c, <2>1, <2>2, <2>3, <2>4 DEF CleanInv, Cleared, Kept
<1>3. ASSUME NEW p \in Players, Peek(p) \/ Ask(p) PROVE CleanInv'
  <2>1. /\ UNCHANGED <<item, type, at, slot, purse, used, buried, refused, contended>>
        /\ phase[p] \in {"peek", "ask"}
        /\ \E ph \in {"idle", "ask", "put"} : phase' = [phase EXCEPT ![p] = ph]
    BY <1>3 DEF Peek, Ask, Goto, map
  <2>2. \A q \in Players : phase'[q] = "clear" <=> phase[q] = "clear"
    BY <1>t, <2>1
  <2>3. \A d : (Taken(d)' <=> Taken(d)) /\ (Once(d)' <=> Once(d)) /\ (Lies(d)' <=> Lies(d))
    BY <2>1, TakenStays DEF Lies
  <2>4. Known' = Known
    BY <2>1, KnownStays
  <2> QED BY <1>c, <2>1, <2>2, <2>3, <2>4 DEF CleanInv, Cleared, Kept
<1>4. ASSUME NEW p \in Players, NEW r \in OnTile, phase[p] = "put",
             phase' = [phase EXCEPT ![p] = "clear"],
             UNCHANGED <<item, type, at, used, buried, refused, contended>>,
             r \in Known \ contended => r = item[at[p]],
             item[at[p]] \in Known \ contended => r = item[at[p]],
             \A d \in Known : d # r => (Taken(d)' <=> Taken(d)) /\ (Once(d) => Once(d)'),
             r \in Known /\ ~Taken(r) => Taken(r)' /\ Once(r)'
      PROVE  CleanInv'
  <2>1. /\ phase'[p] = "clear"
        /\ \A q \in Players \ {p} : phase'[q] = phase[q]
    BY <1>t, <1>4
  <2>2. Known' = Known /\ \A d : Lies(d)' <=> Lies(d)
    BY <1>4, KnownStays DEF Lies
  <2>3. ASSUME NEW d \in Known \ contended, d # r PROVE Once(d)' /\ Cleared(d)' /\ Kept(d)'
    <3>1. item[at[p]] # d
      BY <1>4, <2>3
    <3> QED BY <1>c, <1>4, <2>1, <2>2, <2>3, <3>1 DEF Cleared, Kept
  <2>4. ASSUME r \in Known \ contended PROVE Once(r)' /\ Cleared(r)' /\ Kept(r)'
    <3>1. r = item[at[p]] /\ r # Nothing
      BY <1>t, <1>4, <2>4
    <3>2. \A q \in Players : phase[q] = "clear" => at[q] # at[p]
      BY <1>i, <1>4, <2>4, <3>1, Alone
    <3>3. ~Taken(r)
      BY <1>c, <1>t, <2>4, <3>1, <3>2 DEF Cleared
    <3>4. Taken(r)' /\ Once(r)'
      BY <1>4, <2>4, <3>3
    <3>5. \A t \in Tiles : item[t] = r => t = at[p]
      BY <1>i, <1>t, <3>1 DEF LyingInv
    <3> QED BY <1>4, <2>1, <3>4, <3>5 DEF Cleared, Kept
  <2> QED BY <1>4, <2>2, <2>3, <2>4 DEF CleanInv
<1>5. ASSUME NEW p \in Players, PutMoney(p) PROVE CleanInv'
  <2>1. PICK r \in OnTile : r = read[p]
    BY <1>t
  <2>2. /\ phase[p] = "put" /\ phase' = [phase EXCEPT ![p] = "clear"]
        /\ UNCHANGED <<item, type, at, slot, used, buried, refused, contended>>
        /\ purse' = [purse EXCEPT ![p] = @ \cup {r}]
    BY <1>5, <2>1 DEF PutMoney, Putting, map
  <2>3. /\ r \in Known \ contended => r = item[at[p]]
        /\ item[at[p]] \in Known \ contended => r = item[at[p]]
    BY <1>i, <1>t, <2>1, <2>2 DEF ReadInv
  <2>4. /\ purse'[p] = purse[p] \cup {r}
        /\ \A q \in Players \ {p} : purse'[q] = purse[q]
    BY <1>t, <2>2
  <2>5. ASSUME NEW d \in Known, d # r PROVE (Taken(d)' <=> Taken(d)) /\ (Once(d) => Once(d)')
    <3>1. \A q \in Players : d \in purse'[q] <=> d \in purse[q]
      BY <2>4, <2>5
    <3>2. Taken(d)' <=> Taken(d)
      BY <2>2, <3>1 DEF Taken
    <3>3. Once(d) => Once(d)'
      BY <2>2, <3>1 DEF Once
    <3> QED BY <3>2, <3>3
  <2>6. ASSUME ~Taken(r) PROVE Taken(r)' /\ Once(r)'
    <3>1. /\ \A q \in Players : r \in purse'[q] <=> q = p
          /\ \A q \in Players, i \in 1..Slots : slot'[q][i] # r
          /\ r \notin used'
      BY <2>2, <2>4, <2>6 DEF Taken
    <3> QED BY <3>1 DEF Taken, Once
  <2> QED BY <1>4, <2>2, <2>3, <2>5, <2>6
<1>6. ASSUME NEW p \in Players, PutItem(p) PROVE CleanInv'
  <2>1. PICK r \in OnTile : r = item[at[p]]
    BY <1>t
  <2>2. PICK i \in 1..Slots : i = First(FreeSlots(p)) /\ slot[p][i] = Free
    BY <1>6, SlotsFound DEF PutItem, FreeSlots
  <2>3. /\ phase[p] = "put" /\ phase' = [phase EXCEPT ![p] = "clear"]
        /\ UNCHANGED <<item, type, at, purse, used, buried, refused, contended>>
        /\ slot' = [slot EXCEPT ![p][i] = r]
    BY <1>6, <2>1, <2>2 DEF PutItem, Putting, map
  <2>4. /\ slot'[p][i] = r
        /\ \A q \in Players, j \in 1..Slots : <<q, j>> # <<p, i>> => slot'[q][j] = slot[q][j]
    BY <1>t, <2>3
  <2>5. ASSUME NEW d \in Known, d # r PROVE (Taken(d)' <=> Taken(d)) /\ (Once(d) => Once(d)')
    <3>1. \A q \in Players, j \in 1..Slots : slot'[q][j] = d <=> slot[q][j] = d
      BY <1>t, <2>2, <2>4, <2>5
    <3>2. Taken(d)' <=> Taken(d)
      BY <2>3, <3>1 DEF Taken
    <3>3. Once(d) => Once(d)'
      BY <2>3, <3>1 DEF Once
    <3> QED BY <3>2, <3>3
  <2>6. ASSUME ~Taken(r) PROVE Taken(r)' /\ Once(r)'
    <3>1. /\ \A q \in Players, j \in 1..Slots : slot'[q][j] = r <=> q = p /\ j = i
          /\ \A q \in Players : r \notin purse'[q]
          /\ r \notin used'
      BY <2>3, <2>4, <2>6 DEF Taken
    <3> QED BY <3>1 DEF Taken, Once
  <2> QED BY <1>4, <2>1, <2>3, <2>5, <2>6
<1>7. ASSUME NEW p \in Players, PutNowhere(p) PROVE CleanInv'
  <2>1. /\ UNCHANGED <<item, type, at, slot, purse, used, buried, contended>>
        /\ phase[p] = "put" /\ phase' = [phase EXCEPT ![p] = "clear"]
        /\ refused' = refused \cup ({item[at[p]]} \ {Nothing})
    BY <1>7 DEF PutNowhere, Putting, map
  <2>2. /\ phase'[p] = "clear"
        /\ \A q \in Players \ {p} : phase'[q] = phase[q]
    BY <1>t, <2>1
  <2>3. \A d : (Taken(d)' <=> Taken(d)) /\ (Once(d)' <=> Once(d)) /\ (Lies(d)' <=> Lies(d))
    BY <2>1, TakenStays DEF Lies
  <2>4. Known' = Known
    BY <2>1, KnownStays
  <2>5. ASSUME NEW d \in Known \ contended PROVE Cleared(d)' /\ Kept(d)'
    <3>1. item[at[p]] = d => d \in refused'
      BY <1>t, <2>1, <2>5
    <3> QED BY <1>c, <2>1, <2>2, <2>3, <2>5, <3>1 DEF Cleared, Kept
  <2> QED BY <1>c, <2>1, <2>3, <2>4, <2>5 DEF CleanInv
<1>8. ASSUME NEW p \in Players, Clear(p) PROVE CleanInv'
  <2>1. /\ UNCHANGED <<type, at, slot, purse, used, buried, refused, contended>>
        /\ phase[p] = "clear" /\ phase' = [phase EXCEPT ![p] = "idle"]
        /\ item' = [item EXCEPT ![at[p]] = Nothing]
    BY <1>8 DEF Clear
  <2>2. /\ phase'[p] = "idle" /\ item'[at[p]] = Nothing
        /\ \A q \in Players \ {p} : phase'[q] = phase[q]
        /\ \A t \in Tiles \ {at[p]} : item'[t] = item[t]
    BY <1>t, <2>1
  <2>3. \A d : (Taken(d)' <=> Taken(d)) /\ (Once(d)' <=> Once(d))
    BY <2>1, TakenStays
  <2>4. Known' = Known
    BY <2>1, KnownStays
  <2>5. ASSUME NEW d \in Known \ contended PROVE Cleared(d)' /\ Kept(d)'
    <3>1. d # Nothing /\ Cleared(d) /\ Kept(d)
      BY <1>c, <1>t, <2>5
    <3>2. \A t \in Tiles : item'[t] = d => t # at[p] /\ item[t] = d
      BY <2>2, <3>1
    <3>3. Cleared(d)'
      BY <2>1, <2>2, <2>3, <3>1, <3>2 DEF Cleared
    <3>4. Lies(d) => Lies(d)' \/ item[at[p]] = d
      BY <2>2 DEF Lies
    <3>5. item[at[p]] = d => Taken(d) \/ d \in refused
      BY <2>1, <3>1 DEF Kept
    <3>6. Taken(d)' \/ Lies(d)' \/ d \in buried' \cup refused'
      BY <2>1, <2>3, <3>1, <3>4, <3>5 DEF Kept
    <3>7. \A q \in Players : (phase'[q] = "clear" /\ item'[at[q]] = d) =>
            (phase[q] = "clear" /\ item[at[q]] = d)
      BY <1>t, <2>2, <3>2
    <3>8. Kept(d)'
      BY <2>1, <2>3, <3>1, <3>6, <3>7 DEF Kept
    <3> QED BY <3>3, <3>8
  <2> QED BY <1>c, <2>1, <2>3, <2>4, <2>5 DEF CleanInv
<1>9. ASSUME NEW p \in Players, NEW i \in 1..Slots, UseItem(p, i) PROVE CleanInv'
  <2>1. PICK r \in OnTile \cup {Free} : r = slot[p][i]
    BY <1>s
  <2>2. /\ UNCHANGED <<item, type, at, purse, phase, buried, refused, contended>>
        /\ slot' = [slot EXCEPT ![p][i] = Free] /\ used' = used \cup {r}
    BY <1>9, <2>1 DEF UseItem, map
  <2>3. /\ slot'[p][i] = Free
        /\ \A q \in Players, j \in 1..Slots : <<q, j>> # <<p, i>> => slot'[q][j] = slot[q][j]
    BY <1>t, <2>2
  <2>4. ASSUME NEW d \in Known, Once(d) PROVE (Taken(d)' <=> Taken(d)) /\ Once(d)'
    <3>1. CASE d = r
      <4>1. /\ \A q \in Players : d \notin purse[q]
            /\ \A q \in Players, j \in 1..Slots : slot[q][j] = d => q = p /\ j = i
        BY <2>1, <2>4, <3>1 DEF Once
      <4>2. \A q \in Players, j \in 1..Slots : slot'[q][j] # d
        BY <1>t, <2>3, <4>1
      <4> QED BY <2>1, <2>2, <3>1, <4>1, <4>2 DEF Taken, Once
    <3>2. CASE d # r
      <4>1. \A q \in Players, j \in 1..Slots : slot'[q][j] = d <=> slot[q][j] = d
        BY <1>t, <2>1, <2>3, <3>2
      <4>2. d \in used' <=> d \in used
        BY <2>2, <3>2
      <4> QED BY <2>2, <2>4, <4>1, <4>2 DEF Taken, Once
    <3> QED BY <3>1, <3>2
  <2>5. Known' = Known /\ \A d : Lies(d)' <=> Lies(d)
    BY <2>2, KnownStays DEF Lies
  <2> QED BY <1>c, <2>2, <2>4, <2>5 DEF CleanInv, Cleared, Kept
<1>10. CASE UNCHANGED vars
  <2>1. UNCHANGED <<item, type, at, slot, purse, phase, used, buried, refused, contended>>
    BY <1>10 DEF vars, map
  <2>2. Known' = Known /\ \A d : Lies(d)' <=> Lies(d)
    BY <2>1, KnownStays DEF Lies
  <2> QED BY <1>c, <2>1, <2>2, TakenStays DEF CleanInv, Cleared, Kept
<1> QED BY <1>1, <1>2, <1>3, <1>5, <1>6, <1>7, <1>8, <1>9, <1>10, SomeStep
-----------------------------------------------------------------------------
(* Types stay with their drops, and what is contended stays so.            *)

LEMMA TypesKept ==
  ASSUME TypeOK, KnownInv, [Next]_vars
  PROVE  /\ \A d \in OnTile \cup {Free} : Type(d)' = Type(d)
         /\ contended \subseteq contended'
<1>1. ASSUME NEW k \in Players, NEW t \in Tiles, NEW kind \in Types \ {"none"}, Drop(k, t, kind)
      PROVE  /\ \A d \in OnTile \cup {Free} : Type(d)' = Type(d)
             /\ contended \subseteq contended'
  <2>1. \A d \in OnTile \cup {Free} : d # Len(type) + 1
    BY <1>1, DropMakes DEF OnTile
  <2>2. \A d \in OnTile \cup {Free} : Type(d)' = Type(d)
    BY <1>1, <2>1, DropMakes
  <2> QED BY <1>1, <2>2 DEF Drop
<1>2. ASSUME NEW p \in Players, NEW t \in Tiles, StepOn(p, t)
      PROVE  UNCHANGED type /\ contended \subseteq contended'
  BY <1>2 DEF StepOn, map
<1>3. ASSUME NEW p \in Players, \/ Peek(p) \/ Ask(p) \/ PutMoney(p) \/ PutItem(p) \/ PutNowhere(p) \/ Clear(p)
      PROVE  UNCHANGED <<type, contended>>
  BY <1>3 DEF Peek, Ask, PutMoney, PutItem, PutNowhere, Clear, map
<1>4. ASSUME NEW p \in Players, NEW i \in 1..Slots, UseItem(p, i) PROVE UNCHANGED <<type, contended>>
  BY <1>4 DEF UseItem, map
<1>5. CASE UNCHANGED vars
  BY <1>5, KnownStays DEF vars, map
<1> QED BY <1>1, <1>2, <1>3, <1>4, <1>5, SomeStep, KnownStays

LEMMA SlotTypes ==
  ASSUME TypeOK, KnownInv, [Next]_vars, NEW p \in Players, NEW i \in 1..Slots,
         slot'[p][i] = slot[p][i]
  PROVE  Type(slot[p][i])' = Type(slot[p][i])
<1>1. PICK d \in OnTile \cup {Free} : d = slot[p][i]
  BY SlotHolds
<1>2. Type(d)' = Type(d)
  BY TypesKept
<1> QED BY <1>1, <1>2 DEF Type

\* The slots change when something is put there or drunk.
LEMMA SlotsKept ==
  ASSUME [Next]_vars
  PROVE  \/ UNCHANGED slot
         \/ \E p \in Players : PutItem(p)
         \/ \E p \in Players, i \in 1..Slots : UseItem(p, i)
<1>1. ASSUME NEW p \in Players, NEW t \in Tiles, NEW kind \in Types \ {"none"}, Drop(p, t, kind)
      PROVE  UNCHANGED slot
  BY <1>1 DEF Drop
<1>2. ASSUME NEW p \in Players, NEW t \in Tiles, StepOn(p, t) PROVE UNCHANGED slot
  BY <1>2 DEF StepOn
<1>3. ASSUME NEW p \in Players, \/ Peek(p) \/ Ask(p) \/ PutMoney(p) \/ PutNowhere(p) \/ Clear(p)
      PROVE  UNCHANGED slot
  BY <1>3 DEF Peek, Ask, PutMoney, PutNowhere, Clear
<1>4. CASE UNCHANGED vars
  BY <1>4 DEF vars
<1> QED BY <1>1, <1>2, <1>3, <1>4, SomeStep
-----------------------------------------------------------------------------
(* Money: what is put into a slot of its own was not what was asked for.   *)

\* There is money in slot i of p.
Money(p, i) == Type(slot[p][i]) = "money"

LEMMA InitMoney == Init => OneMoneySlot
BY DEF Init, OneMoneySlot, Type

LEMMA MoneyStep == ASSUME TypeOK, KnownInv, TileInv, OneMoneySlot, [Next]_vars PROVE OneMoneySlot'
<1> USE DEF Money
<1>c. contended \subseteq contended'
  BY TypesKept
<1>s. ASSUME NEW q \in Players, NEW i \in 1..Slots, NEW j \in 1..Slots, i # j,
             slot'[q][i] = slot[q][i], slot'[q][j] = slot[q][j], Money(q, i)', Money(q, j)'
      PROVE  {slot'[q][i], slot'[q][j]} \cap contended' # {}
  <2>1. Money(q, i) /\ Money(q, j)
    BY <1>s, SlotTypes
  <2> QED BY <1>c, <1>s, <2>1 DEF OneMoneySlot
<1>1. CASE UNCHANGED slot
  BY <1>1, <1>s DEF OneMoneySlot
<1>2. ASSUME NEW p \in Players, PutItem(p) PROVE OneMoneySlot'
  <2>1. PICK i \in 1..Slots : i = First(FreeSlots(p))
    BY <1>2, SlotsFound DEF PutItem
  <2>2. PICK r \in OnTile : r = item[at[p]]
    BY DEF TypeOK, KnownInv
  <2>3. /\ slot' = [slot EXCEPT ![p][i] = r] /\ UNCHANGED <<type, contended>>
        /\ phase[p] = "put"
        /\ Type(read[p]) # "money" \/ MoneySlots(p) = {}
    BY <1>2, <2>1, <2>2 DEF PutItem, Putting, map
  <2>4. /\ slot'[p][i] = r
        /\ \A q \in Players, j \in 1..Slots : <<q, j>> # <<p, i>> => slot'[q][j] = slot[q][j]
    BY <2>3 DEF KnownInv
  <2>5. ASSUME NEW j \in 1..Slots, j # i, Money(p, i)', Money(p, j)' PROVE r \in contended'
    <3>1. Type(r) = "money"
      BY <2>3, <2>4, <2>5 DEF Type
    <3>2. Money(p, j)
      BY <2>4, <2>5, SlotTypes
    <3>3. read[p] # r
      BY <2>3, <3>1, <3>2 DEF MoneySlots
    <3>4. r \in contended \cup {Nothing}
      BY <2>2, <2>3, <3>3 DEF TileInv, ReadInv
    <3> QED BY <1>c, <3>1, <3>4, TypeIs
  <2> QED BY <1>s, <2>4, <2>5 DEF OneMoneySlot
<1>3. ASSUME NEW p \in Players, NEW i \in 1..Slots, UseItem(p, i) PROVE OneMoneySlot'
  <2>1. /\ slot'[p][i] = Free
        /\ \A q \in Players, j \in 1..Slots : <<q, j>> # <<p, i>> => slot'[q][j] = slot[q][j]
    BY <1>3 DEF UseItem, KnownInv
  <2>2. ~Money(p, i)'
    <3>1. Type(Free)' = "none"
      BY TypeIs, TypesKept
    <3> QED BY <2>1, <3>1 DEF Type
  <2> QED BY <1>s, <2>1, <2>2 DEF OneMoneySlot
<1> QED BY <1>1, <1>2, <1>3, SlotsKept
-----------------------------------------------------------------------------
(* The bag of the client follows the slots.                                *)

LEMMA InitBag == Init => BagFollows
BY DEF Init, BagFollows

LEMMA BagStep == ASSUME TypeOK, KnownInv, BagFollows, [Next]_vars PROVE BagFollows'
<1> DEFINE Follows(p, i) ==
      /\ bag[p][i] = "empty" <=> slot[p][i] = Free
      /\ (<<p, i>> \notin misled /\ slot[p][i] # Free) => bag[p][i] = Type(slot[p][i])
<1>b. \A p \in Players, i \in 1..Slots : Follows(p, i)
  BY DEF BagFollows
<1>f. (\A p \in Players, i \in 1..Slots : Follows(p, i)') => BagFollows'
  BY DEF BagFollows
<1>t. /\ bag \in [Players -> [1..Slots -> Types \cup {"empty"}]]
      /\ slot \in [Players -> [1..Slots -> OnTile \cup {Free}]]
      /\ \A p \in Players : item[at[p]] \in OnTile /\ at[p] \in Tiles /\ read[p] \in OnTile
      /\ Free \notin OnTile
  BY TypeIs DEF TypeOK, KnownInv, OnTile, Nothing, Free
<1>s. ASSUME NEW p \in Players, NEW i \in 1..Slots, slot'[p][i] = slot[p][i],
             bag'[p][i] = bag[p][i], <<p, i>> \in misled <=> <<p, i>> \in misled'
      PROVE  Follows(p, i)'
  <2>1. Type(slot[p][i])' = Type(slot[p][i])
    BY <1>s, SlotTypes
  <2> QED BY <1>b, <1>s, <2>1
\* An icon that the client shows in slot i.
<1>g. ASSUME NEW p \in Players, NEW i \in 1..Slots, NEW d \in OnTile, UNCHANGED type,
             NEW r \in OnTile, slot'[p][i] = r, Type(r) = Type(d), ItemGet(p, i, d, at[p]),
             \A q \in Players, j \in 1..Slots : <<q, j>> # <<p, i>> => slot'[q][j] = slot[q][j]
      PROVE  BagFollows'
  <2>1. PICK y \in OnTile : IconOf(y, p, i, d)
    BY <1>g, <1>t, ItemGetIs
  <2>2. /\ bag'[p][i] = Type(y)
        /\ \A q \in Players, j \in 1..Slots : <<q, j>> # <<p, i>> => bag'[q][j] = bag[q][j]
    BY <1>t, <2>1 DEF IconOf
  <2>3. Type(y) \in Types /\ "empty" \notin Types
    BY TypeIs DEF OnTile, Types
  <2>4. <<p, i>> \notin misled' => y = d
    BY <2>1 DEF IconOf
  <2>5. Type(r)' = Type(r)
    BY <1>g, KnownStays
  <2>6. Follows(p, i)'
    <3>1. Type(slot[p][i])' = Type(r)
      BY <1>g, <2>5 DEF Type
    <3>2. bag'[p][i] # "empty" /\ slot'[p][i] # Free
      BY <1>g, <1>t, <2>2, <2>3
    <3>3. <<p, i>> \notin misled' => bag'[p][i] = Type(r)
      BY <1>g, <2>2, <2>4
    <3> QED BY <3>1, <3>2, <3>3
  <2>7. \A q \in Players, j \in 1..Slots : <<q, j>> # <<p, i>> =>
          (<<q, j>> \in misled <=> <<q, j>> \in misled')
    BY <2>1 DEF IconOf
  <2>8. \A q \in Players, j \in 1..Slots : <<q, j>> # <<p, i>> => Follows(q, j)'
    BY <1>g, <1>s, <2>2, <2>7
  <2> QED BY <1>f, <2>6, <2>8
<1>1. CASE UNCHANGED <<slot, bag, misled>>
  BY <1>1, <1>f, <1>s
<1>2. ASSUME NEW p \in Players, NEW t \in Tiles, NEW kind \in Types \ {"none"}, Drop(p, t, kind)
      PROVE  BagFollows'
  BY <1>1, <1>2 DEF Drop, ItemAdd
<1>3. ASSUME NEW p \in Players, NEW t \in Tiles, StepOn(p, t) PROVE BagFollows'
  BY <1>1, <1>3 DEF StepOn, client
<1>4. ASSUME NEW p \in Players, Peek(p) \/ Ask(p) \/ PutNowhere(p) \/ Clear(p) PROVE BagFollows'
  BY <1>1, <1>4 DEF Peek, Ask, PutNowhere, Clear, client
<1>5. ASSUME NEW p \in Players, PutMoney(p) PROVE BagFollows'
  <2>1. PICK i \in 1..Slots : i = First(MoneySlots(p)) /\ Type(slot[p][i]) = "money"
    BY <1>5, SlotsFound DEF PutMoney, MoneySlots
  <2>2. PICK d \in OnTile : d = read[p]
    BY <1>t
  <2>3. PICK r \in OnTile \cup {Free} : r = slot[p][i]
    BY SlotHolds
  <2>4. UNCHANGED <<type, slot>> /\ Type(d) = "money" /\ ItemGet(p, i, d, at[p])
    BY <1>5, <2>1, <2>2 DEF PutMoney, map
  <2>5. r \in OnTile /\ Type(r) = Type(d) /\ slot'[p][i] = r
    BY <2>1, <2>3, <2>4, TypeIs
  <2> QED BY <1>g, <2>4, <2>5
<1>6. ASSUME NEW p \in Players, PutItem(p) PROVE BagFollows'
  <2>1. PICK i \in 1..Slots : i = First(FreeSlots(p))
    BY <1>6, SlotsFound DEF PutItem
  <2>2. PICK r \in OnTile : r = item[at[p]]
    BY <1>t
  <2>3. slot' = [slot EXCEPT ![p][i] = r] /\ UNCHANGED type /\ ItemGet(p, i, r, at[p])
    BY <1>6, <2>1, <2>2 DEF PutItem, map
  <2>4. /\ slot'[p][i] = r
        /\ \A q \in Players, j \in 1..Slots : <<q, j>> # <<p, i>> => slot'[q][j] = slot[q][j]
    BY <1>t, <2>3
  <2> QED BY <1>g, <2>3, <2>4
<1>7. ASSUME NEW p \in Players, NEW i \in 1..Slots, UseItem(p, i) PROVE BagFollows'
  <2>1. /\ slot' = [slot EXCEPT ![p][i] = Free] /\ bag' = [bag EXCEPT ![p][i] = "empty"]
        /\ misled' = misled \ {<<p, i>>}
    BY <1>7 DEF UseItem, ItemUsed
  <2>2. /\ slot'[p][i] = Free /\ bag'[p][i] = "empty"
        /\ \A q \in Players, j \in 1..Slots : <<q, j>> # <<p, i>> =>
             /\ slot'[q][j] = slot[q][j] /\ bag'[q][j] = bag[q][j]
             /\ <<q, j>> \in misled <=> <<q, j>> \in misled'
    BY <1>t, <2>1
  <2>3. Follows(p, i)'
    BY <2>2
  <2>4. \A q \in Players, j \in 1..Slots : <<q, j>> # <<p, i>> => Follows(q, j)'
    BY <1>s, <2>2
  <2> QED BY <1>f, <2>3, <2>4
<1>8. CASE UNCHANGED vars
  BY <1>1, <1>8 DEF vars, client
<1> QED BY <1>2, <1>3, <1>4, <1>5, <1>6, <1>7, <1>8, SomeStep
-----------------------------------------------------------------------------
(* The theorems.                                                           *)

LEMMA InitInv == Init => Inv
BY InitTypes, InitTiles, InitClean, InitMoney, InitBag DEF Inv

LEMMA InvStep == Inv /\ [Next]_vars => Inv'
BY TypeStep, TileStep, CleanStep, MoneyStep, BagStep DEF Inv

LEMMA InvHolds == Spec => []Inv
BY InitInv, InvStep, PTL DEF Spec

\* A set of at most one element.
LEMMA OneAtMost ==
  ASSUME NEW S, \A x, y \in S : x = y
  PROVE  Cardinality(S) = IF S = {} THEN 0 ELSE 1
<1>1. CASE S = {}
  BY <1>1, FS_EmptySet
<1>2. ASSUME NEW x \in S PROVE Cardinality(S) = 1
  <2>1. S = {x}
    OBVIOUS
  <2> QED BY <2>1, FS_Singleton
<1> QED BY <1>1, <1>2

\* Taken once, an item counts once.
LEMMA TakesIs == ASSUME NEW d, Once(d) PROVE Takes(d) = IF Taken(d) THEN 1 ELSE 0
<1> DEFINE O == {p \in Players : d \in purse[p]}
<1>1. Cardinality(Holders(d)) = IF Holders(d) = {} THEN 0 ELSE 1
  <2>1. \A g, h \in Holders(d) : g = h
    BY DEF Once, Holders
  <2> QED BY <2>1, OneAtMost
<1>2. Cardinality(O) = IF O = {} THEN 0 ELSE 1
  <2>1. \A p, q \in O : p = q
    BY DEF Once
  <2> QED BY <2>1, OneAtMost
<1>3. Holders(d) # {} <=> \E p \in Players, i \in 1..Slots : slot[p][i] = d
  <2>1. \A p \in Players, i \in 1..Slots : slot[p][i] = d => <<p, i>> \in Holders(d)
    BY DEF Holders
  <2>2. \A h \in Holders(d) : h[1] \in Players /\ h[2] \in 1..Slots /\ slot[h[1]][h[2]] = d
    BY DEF Holders
  <2> QED BY <2>1, <2>2
<1>4. O # {} <=> \E p \in Players : d \in purse[p]
  OBVIOUS
<1>5. /\ Holders(d) # {} => O = {} /\ d \notin used
      /\ O # {} => d \notin used
  BY <1>3, <1>4 DEF Once
<1>6. Taken(d) <=> Holders(d) # {} \/ O # {} \/ d \in used
  BY <1>3, <1>4 DEF Taken
<1>7. Takes(d) = Cardinality(Holders(d)) + Cardinality(O) + (IF d \in used THEN 1 ELSE 0)
  BY DEF Takes
<1> HIDE DEF O
<1> QED BY <1>1, <1>2, <1>5, <1>6, <1>7

LEMMA Conserved == Inv => ItemsConserved
<1> SUFFICES ASSUME Inv, NEW d \in Known \ contended
             PROVE  /\ Takes(d) <= 1
                    /\ Takes(d) = 1 /\ Lies(d) => BeingTaken(d)
                    /\ Takes(d) = 0 /\ ~Lies(d) => d \in buried \cup refused
  BY DEF ItemsConserved, Known
<1>1. Once(d) /\ Cleared(d) /\ Kept(d)
  BY DEF Inv, CleanInv
<1>2. Takes(d) = IF Taken(d) THEN 1 ELSE 0
  BY <1>1, TakesIs
<1>3. Taken(d) /\ Lies(d) => BeingTaken(d)
  BY <1>1 DEF Cleared, Lies, BeingTaken
<1>4. ~Taken(d) /\ ~Lies(d) => d \in buried \cup refused
  BY <1>1 DEF Kept
<1> QED BY <1>2, <1>3, <1>4

\* Every variable keeps its type, whatever the players and the drops do.
THEOREM TypeInvariant == Spec => []TypeOK
<1>1. Inv => TypeOK
  BY DEF Inv
<1> QED BY <1>1, InvHolds, PTL

\* CNpc::Damaged, CClient::CheckItem and CClient::UseItem neither double nor lose
\* an item on whose tile no two of them overlapped, but under another drop or at
\* full slots.
THEOREM ItemsInvariant == Spec => []ItemsConserved
BY InvHolds, Conserved, PTL

\* CClient::CheckItem opens a second slot of money only when another operation
\* changed the tile between its two reads.
THEOREM MoneyInvariant == Spec => []OneMoneySlot
<1>1. Inv => OneMoneySlot
  BY DEF Inv
<1> QED BY <1>1, InvHolds, PTL

\* ProcessItemGetPacket and ProcessItemUsedPacket keep the client's bag at the
\* slots of the server.
THEOREM BagInvariant == Spec => []BagFollows
<1>1. Inv => BagFollows
  BY DEF Inv
<1> QED BY <1>1, InvHolds, PTL
=============================================================================
