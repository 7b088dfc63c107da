----------------------------- MODULE Inventory ------------------------------
(***************************************************************************)
(* What lies on the map and who has it: the item map (GameUtil::itemmap),  *)
(* the slots of every player, and the ground and the bag that his client   *)
(* shows.  A killed monster drops an item where it stood (CNpc::Damaged);  *)
(* a player who steps on it picks it up (CClient::CheckItem); potions are  *)
(* drunk (CClient::UseItem).                                               *)
(*                                                                         *)
(* The operations of one player run one at a time (SessionJobs).  The item *)
(* map has no lock and CheckItem reads the tile up to three times before   *)
(* it clears it: each of these accesses is a step.  Slots, and the packets *)
(* to the client, belong to the player's own thread.                       *)
(***************************************************************************)
EXTENDS Integers, FiniteSets, Sequences

CONSTANTS
  Players,   \* player objects
  Tiles,     \* tiles of the map
  Slots,     \* number of slots (6)
  MaxDrops,  \* bound of the model: items dropped
  MaxSteps   \* bound of the model: steps of the players

ASSUME CountAssumption ==
  Slots \in Nat \ {0} /\ MaxDrops \in Nat /\ MaxSteps \in Nat

\* ITEM_TYPE up to what it does: money is stacked, potions are drunk, the rest is worn.
Types == {"none", "money", "potion", "gear"}

\* Every item dropped is told apart by a number of the model, its identity.
Drops == 1..MaxDrops
Nothing == 0    \* what the map holds where nothing lies
Free == -1      \* a slot that is not enabled

VARIABLES
  item,    \* itemmap: the drop that lies on a tile, or Nothing
  type,    \* the types of the drops so far
  at,      \* m_PosX, m_PosY: the tile of a player
  slot,    \* m_items: Free, or the drop (Nothing if the type read was NONE)
  purse,   \* the money stacked on a player's money slot (m_num counts it)
  phase,   \* where the CheckItem of a player is
  read,    \* the drop it last read from the tile
  ground,  \* m_itemVector of his client: items of his kills, oldest first
  bag,     \* m_inventory of his client: the types shown
  steps,   \* steps so far
  used,      \* history: potions drunk
  buried,    \* history: drops another drop fell upon
  refused,   \* history: drops there was no room for
  contended, \* history: drops on a tile while two operations overlapped there
  misled     \* history: slots whose icon came from another item of the same tile

map == <<item, type>>
client == <<ground, bag, misled>>
vars == <<map, at, slot, purse, phase, read, client, steps, used, buried, refused, contended>>

Type(d) == IF d \in DOMAIN type THEN type[d] ELSE "none"

TypeOK ==
  /\ item \in [Tiles -> Drops \cup {Nothing}]
  /\ type \in Seq(Types \ {"none"}) /\ Len(type) <= MaxDrops
  /\ at \in [Players -> Tiles]
  /\ slot \in [Players -> [1..Slots -> Drops \cup {Nothing, Free}]]
  /\ purse \in [Players -> SUBSET Drops]
  /\ phase \in [Players -> {"idle", "peek", "ask", "put", "clear"}]
  /\ read \in [Players -> Drops \cup {Nothing}]
  /\ ground \in [Players -> Seq(Drops \X Tiles)]
  /\ bag \in [Players -> [1..Slots -> Types \cup {"empty"}]]
  /\ steps \in 0..MaxSteps
  /\ used \subseteq Drops /\ buried \subseteq Drops /\ refused \subseteq Drops
  /\ contended \subseteq Drops
  /\ misled \subseteq Players \X (1..Slots)

Init ==
  /\ item = [t \in Tiles |-> Nothing]
  /\ type = <<>>
  /\ at \in [Players -> Tiles]
  /\ slot = [p \in Players |-> [i \in 1..Slots |-> Free]]
  /\ purse = [p \in Players |-> {}]
  /\ phase = [p \in Players |-> "idle"]
  /\ read = [p \in Players |-> Nothing]
  /\ ground = [p \in Players |-> <<>>]
  /\ bag = [p \in Players |-> [i \in 1..Slots |-> "empty"]]
  /\ steps = 0
  /\ used = {} /\ buried = {} /\ refused = {} /\ contended = {} /\ misled = {}
-----------------------------------------------------------------------------
(* Faults: one plausible mistake each; used by the mutation runs only.     *)

\* The client is not told.
ItemUsedUntold(p, i) == UNCHANGED client

\* The search for money ends at the first slot.
MoneySlotsAhead(p) == {i \in {1} : Type(slot[p][i]) = "money"}

\* Whether a slot is enabled is not asked.
FreeSlotsUnchecked(p) == 1..Slots
-----------------------------------------------------------------------------
(* The client: ProcessItemAddPacket, ProcessItemGetPacket, ...UsedPacket.   *)

Lying(p, t) == {n \in DOMAIN ground[p] : ground[p][n][2] = t}
Without(s, n) == SubSeq(s, 1, n - 1) \o SubSeq(s, n + 1, Len(s))

ItemAdd(p, d, t) ==
  /\ ground' = [ground EXCEPT ![p] = Append(@, <<d, t>>)]
  /\ UNCHANGED <<bag, misled>>

\* The oldest item that lies on the tile goes into the bag, whatever the packet
\* says; only if none does, one is made as the packet says.
ItemGet(p, i, d, t) ==
  IF Lying(p, t) = {}
    THEN /\ bag' = [bag EXCEPT ![p][i] = Type(d)]
         /\ misled' = misled \ {<<p, i>>}
         /\ UNCHANGED ground
    ELSE LET n == CHOOSE m \in Lying(p, t) : \A k \in Lying(p, t) : m <= k
             icon == ground[p][n][1]
         IN  /\ bag' = [bag EXCEPT ![p][i] = Type(icon)]
             /\ misled' = IF icon = d THEN misled \ {<<p, i>>} ELSE misled \cup {<<p, i>>}
             /\ ground' = [ground EXCEPT ![p] = Without(@, n)]

ItemUsed(p, i) ==
  /\ bag' = [bag EXCEPT ![p][i] = "empty"]
  /\ misled' = misled \ {<<p, i>>}
  /\ UNCHANGED ground
-----------------------------------------------------------------------------
\* Those whose CheckItem is under way on a tile.
Picking(t) == {p \in Players : phase[p] # "idle" /\ at[p] = t}

\* CNpc::Damaged, in the thread of the killer: the tile is overwritten, and
\* only the killer is told.  A monster that drops nothing changes nothing.
Drop(k, t, kind) ==
  LET d == Len(type) + 1 IN
  /\ phase[k] = "idle"
  /\ Len(type) < MaxDrops
  /\ type' = Append(type, kind)
  /\ item' = [item EXCEPT ![t] = d]
  /\ buried' = buried \cup ({item[t]} \ {Nothing})
  /\ contended' = IF Picking(t) = {} THEN contended
                  ELSE contended \cup (({d, item[t]} \cup {read[p] : p \in Picking(t)}) \ {Nothing})
  /\ ItemAdd(k, d, t)
  /\ UNCHANGED <<at, slot, purse, phase, read, steps, used, refused>>

\* Move calls CheckItem as soon as the position is set.
StepOn(p, t) ==
  /\ phase[p] = "idle"
  /\ t # at[p]
  /\ steps < MaxSteps /\ steps' = steps + 1
  /\ at' = [at EXCEPT ![p] = t]
  /\ phase' = [phase EXCEPT ![p] = "peek"]
  /\ contended' = IF Picking(t) = {} THEN contended
                  ELSE contended \cup (({item[t]} \cup {read[q] : q \in Picking(t)}) \ {Nothing})
  /\ UNCHANGED <<map, slot, purse, read, client, used, buried, refused>>

Goto(p, ph) ==
  /\ phase' = [phase EXCEPT ![p] = ph]
  /\ read' = [read EXCEPT ![p] = item[at[p]]]

Peek(p) ==
  /\ phase[p] = "peek"
  /\ IF item[at[p]] = Nothing
       THEN phase' = [phase EXCEPT ![p] = "idle"] /\ UNCHANGED read
       ELSE Goto(p, "ask")
  /\ UNCHANGED <<map, at, slot, purse, client, steps, used, buried, refused, contended>>

Ask(p) ==
  /\ phase[p] = "ask"
  /\ Goto(p, "put")
  /\ UNCHANGED <<map, at, slot, purse, client, steps, used, buried, refused, contended>>

MoneySlots(p) == {i \in 1..Slots : Type(slot[p][i]) = "money"}

FreeSlots(p) == {i \in 1..Slots : slot[p][i] = Free}
First(S) == CHOOSE i \in S : \A j \in S : i <= j

Putting(p) == phase[p] = "put" /\ phase' = [phase EXCEPT ![p] = "clear"]

\* Money on money: what was asked for counts, the tile is not read again.
PutMoney(p) ==
  /\ Putting(p)
  /\ Type(read[p]) = "money" /\ MoneySlots(p) # {}
  /\ purse' = [purse EXCEPT ![p] = @ \cup {read[p]}]
  /\ ItemGet(p, First(MoneySlots(p)), read[p], at[p])
  /\ UNCHANGED <<map, at, slot, read, steps, used, buried, refused, contended>>

\* Anything else goes into the first free slot, as the type the tile has by now.
PutItem(p) ==
  LET d == item[at[p]] IN
  /\ Putting(p)
  /\ Type(read[p]) # "money" \/ MoneySlots(p) = {}
  /\ FreeSlots(p) # {}
  /\ slot' = [slot EXCEPT ![p][First(FreeSlots(p))] = d]
  /\ read' = [read EXCEPT ![p] = d]
  /\ ItemGet(p, First(FreeSlots(p)), d, at[p])
  /\ UNCHANGED <<map, at, purse, steps, used, buried, refused, contended>>

\* No slot is free: index stays -1 and nothing is sent.  Money is written to
\* m_items[-1], which is outside the slots and outside this module.
PutNowhere(p) ==
  /\ Putting(p)
  /\ Type(read[p]) # "money" \/ MoneySlots(p) = {}
  /\ FreeSlots(p) = {}
  /\ refused' = refused \cup ({item[at[p]]} \ {Nothing})
  /\ UNCHANGED <<map, at, slot, purse, read, client, steps, used, buried, contended>>

Clear(p) ==
  /\ phase[p] = "clear"
  /\ phase' = [phase EXCEPT ![p] = "idle"]
  /\ item' = [item EXCEPT ![at[p]] = Nothing]
  /\ read' = [read EXCEPT ![p] = Nothing]
  /\ UNCHANGED <<type, at, slot, purse, client, steps, used, buried, refused, contended>>

UseItem(p, i) ==
  /\ phase[p] = "idle"
  /\ Type(slot[p][i]) = "potion"
  /\ slot' = [slot EXCEPT ![p][i] = Free]
  /\ used' = used \cup {slot[p][i]}
  /\ ItemUsed(p, i)
  /\ UNCHANGED <<map, at, purse, phase, read, steps, buried, refused, contended>>
-----------------------------------------------------------------------------
CheckItem(p) == Peek(p) \/ Ask(p) \/ PutMoney(p) \/ PutItem(p) \/ PutNowhere(p) \/ Clear(p)

Next ==
  \E p \in Players :
    \/ \E t \in Tiles : StepOn(p, t) \/ \E kind \in Types \ {"none"} : Drop(p, t, kind)
    \/ CheckItem(p)
    \/ \E i \in 1..Slots : UseItem(p, i)

Spec == Init /\ [][Next]_vars
-----------------------------------------------------------------------------
(* Properties.                                                             *)

Holders(d) == {h \in Players \X (1..Slots) : slot[h[1]][h[2]] = d}
Takes(d) ==
  Cardinality(Holders(d)) + Cardinality({p \in Players : d \in purse[p]})
    + (IF d \in used THEN 1 ELSE 0)
Lies(d) == \E t \in Tiles : item[t] = d
BeingTaken(d) == \E p \in Players : phase[p] = "clear" /\ item[at[p]] = d

\* An item on whose tile no two operations ever overlapped is in one place: on
\* the map, or with one player, once; it is lost only under another drop, or when
\* a player whose slots are full steps on it.
ItemsConserved ==
  \A d \in 1..Len(type) : d \notin contended =>
    /\ Takes(d) <= 1
    /\ Takes(d) = 1 /\ Lies(d) => BeingTaken(d)
    /\ Takes(d) = 0 /\ ~Lies(d) => d \in buried \cup refused

\* Money is kept in one slot: a second slot of it takes an overlap on the tile
\* where it was picked up.
OneMoneySlot ==
  \A p \in Players : \A i, j \in 1..Slots :
    i # j /\ Type(slot[p][i]) = "money" /\ Type(slot[p][j]) = "money" =>
      {slot[p][i], slot[p][j]} \cap contended # {}

\* The client's bag has an icon in exactly the slots that are taken, and of the
\* type the server has there unless another item of its kills lay on that tile.
BagFollows ==
  \A p \in Players, i \in 1..Slots :
    /\ bag[p][i] = "empty" <=> slot[p][i] = Free
    /\ <<p, i>> \notin misled /\ slot[p][i] # Free => bag[p][i] = Type(slot[p][i])
=============================================================================
