---------------------------- MODULE PathFinding -----------------------------
(***************************************************************************)
(* The search by which a monster follows a player: CNpc::AStar, with       *)
(* CalH, IsUnBlocked and FindNextStep.  The search keeps its nodes in two  *)
(* arrays that cover a window around the monster, whose corner is (0, 0)   *)
(* of the local coordinates used here.                                     *)
(*                                                                         *)
(* IsValid compares local coordinates with the size of the world: it keeps *)
(* the search from leaving the window at the low sides but not at the high *)
(* ones.  A cell past the right side is, in memory, the first of the next  *)
(* row; a cell past the end of the arrays is whatever lies there.          *)
(***************************************************************************)
EXTENDS Integers, FiniteSets

CONSTANTS
  View,   \* MONSTER_VIEW
  Arena,  \* bound of the model: the cells among which there are walkable ones
  Mazes   \* the sets of walkable cells to search

ASSUME ViewAssumption == View \in Nat \ {0}
ASSUME MazeAssumption ==
  /\ IsFiniteSet(Arena) /\ Arena \subseteq Int \X Int
  /\ \A maze \in Mazes : maze \subseteq Arena

Side == 2 * View + 1
Window == (0..(Side - 1)) \X (0..(Side - 1))
Start == <<View, View>>

\* Where a cell is kept: node[y][x], closedList[y][x].
Index(c) == c[2] * Side + c[1]
Memory == 0..(Side * Side - 1)

Distance(c, d) ==
  LET Abs(n) == IF n < 0 THEN -n ELSE n IN Abs(c[1] - d[1]) + Abs(c[2] - d[2])

\* The order of dx1 and dy1.
Around(c) == << <<c[1], c[2] - 1>>, <<c[1], c[2] + 1>>, <<c[1] + 1, c[2]>>, <<c[1] - 1, c[2]>> >>
Neighbours(c) == LET a == Around(c) IN {a[1], a[2], a[3], a[4]}

\* A node no cell was written to (weights of INF), and the others.
Unset == [f |-> -1, g |-> -1, parent |-> <<-1, -1>>]
Written(nodes) == {m \in Memory : nodes[m] # Unset}

VARIABLES
  walkable, \* the walkable cells
  dest,     \* destX, destY
  node,     \* f, g and parent of a cell, by index
  closed,   \* closedList
  open,     \* openList
  spilled,  \* history: a walkable cell past the window was looked up
  outcome,  \* searching; then found, none, wild or endless
  step      \* resultx, resulty

search == <<node, closed, open, spilled, outcome, step>>
searchVars == <<walkable, dest, search>>

SearchTypeOK ==
  /\ walkable \in Mazes
  /\ dest \in Arena
  /\ node \in [Memory -> [f : Nat, g : Nat, parent : Nat \X Nat] \cup {Unset}]
  /\ closed \subseteq Written(node)
  /\ open \subseteq [f : Nat, at : Nat \X Nat] /\ \A e \in open : Index(e.at) \in Written(node)
  /\ spilled \in BOOLEAN
  /\ outcome \in {"searching", "found", "none", "wild", "endless"}
  /\ step \in Arena

\* The player may have moved a step since Agro saw him inside the window.
Seen(c) == \A i \in {1, 2} : c[i] >= -1 /\ c[i] <= Side

SearchInit ==
  /\ walkable \in {maze \in Mazes : Start \in maze}
  /\ dest \in {c \in walkable \ {Start} : Seen(c)}
  /\ node = [m \in Memory |->
              IF m = Index(Start) THEN [f |-> 0, g |-> 0, parent |-> Start] ELSE Unset]
  /\ closed = {}
  /\ open = {[f |-> 0, at |-> Start]}
  /\ spilled = FALSE
  /\ outcome = "searching"
  /\ step = Start
-----------------------------------------------------------------------------
(* Faults: one plausible mistake each; used by the mutation runs only.     *)

\* The order of the weights is not reversed, and the queue is a max-heap.
Heaviest(e) == \A other \in open : e.f >= other.f
-----------------------------------------------------------------------------
\* x, f[x], f[f[x]], ...
Iterate(f, x) ==
  LET it[n \in Nat] == IF n = 0 THEN x ELSE f[it[n - 1]]
  IN  it

Parent(nodes) == [c \in {d \in Arena : Index(d) \in Memory} |-> nodes[Index(c)].parent]

\* The cells that FindNextStep walks back over.
Trail(nodes) == Iterate(Parent(nodes), dest)

\* FindNextStep: the last cell before the first that is its own parent.
FindNextStep(nodes) ==
  LET trail == Trail(nodes)
      Ends(n) == trail[n + 1] = trail[n]
      length == CHOOSE n \in Memory : Ends(n) /\ \A k \in 0..(n - 1) : ~Ends(k)
  IN  IF \E n \in Memory : Ends(n)
      THEN outcome' = "found" /\ step' = trail[length - 1]
      ELSE outcome' = "endless" /\ UNCHANGED step

CalH(c) == Distance(c, dest)

\* The node of n when it is reached from c.
Reach(s, c, n, f) ==
  [s.node EXCEPT ![Index(n)] = [f |-> f, g |-> s.node[Index(c)].g + 1, parent |-> c]]

\* History: n was looked up.
Past(s, n) == [s EXCEPT !.spilled = @ \/ n \in walkable \ Window]

\* One cell next to the expanded cell c, in the state s of the search; luck says
\* whether closedList reads true past its end.
Visit(s, c, n, luck) ==
  LET g == s.node[Index(c)].g + 1
      f == g + CalH(n)
      past == Past(s, n)
  IN  IF s.end # "no" \/ n[1] < 0 \/ n[2] < 0 THEN s
      ELSE IF Index(n) \in closed \cup {Index(c)} \/ n \notin walkable THEN past
      ELSE IF Index(n) \notin Memory THEN IF luck THEN past ELSE [past EXCEPT !.end = "wild"]
      ELSE IF n = dest THEN [past EXCEPT !.node = Reach(s, c, n, g), !.end = "dest"]
      ELSE IF Index(n) \in Written(s.node) /\ s.node[Index(n)].f <= f THEN past
      ELSE [past EXCEPT !.node = Reach(s, c, n, f), !.open = @ \cup {[f |-> f, at |-> n]}]

Lightest(e) == \A other \in open : e.f <= other.f

\* The search after it has looked at the four cells next to e.
Expanded(e, luck) ==
  LET See(s, i) == Visit(s, e.at, Around(e.at)[i], luck)
      before == [node |-> node, open |-> open \ {e}, spilled |-> spilled, end |-> "no"]
  IN  See(See(See(See(before, 1), 2), 3), 4)

\* Among cells of equal weight the queue gives any.
Pop(e, luck) ==
  /\ e \in open /\ Lightest(e)
  /\ closed' = closed \cup {Index(e.at)}
  /\ \E after \in {Expanded(e, luck)} :
       /\ node' = after.node /\ open' = after.open /\ spilled' = after.spilled
       /\ CASE after.end = "no" -> UNCHANGED <<outcome, step>>
            [] after.end = "wild" -> outcome' = "wild" /\ UNCHANGED step
            [] after.end = "dest" -> FindNextStep(after.node)

Exhausted ==
  /\ open = {}
  /\ outcome' = "none"
  /\ UNCHANGED <<node, closed, open, spilled, step>>

SearchNext ==
  /\ outcome = "searching"
  /\ \/ \E e \in open, luck \in BOOLEAN : Pop(e, luck)
     \/ Exhausted
  /\ UNCHANGED <<walkable, dest>>

SearchSpec == SearchInit /\ [][SearchNext]_searchVars
-----------------------------------------------------------------------------
(* Reference: how far the destination is, over walkable cells that are not  *)
(* past a low side of the window.                                          *)

Allowed == {c \in walkable : c[1] >= 0 /\ c[2] >= 0}

\* The cells within 0, 1, 2, ... steps of the destination.
Widen == [cells \in SUBSET walkable |->
           cells \cup {c \in Allowed : Neighbours(c) \cap cells # {}}]
Rings == Iterate(Widen, {dest} \cap Allowed)

\* The steps from c to the destination; -1 if there is no way.
StepsTo(c) ==
  LET rings == Rings
      last == Cardinality(Allowed)
      steps == CHOOSE n \in 0..last : /\ n = last \/ c \in rings[n]
                                      /\ n = 0 \/ c \notin rings[n - 1]
  IN  IF c \in rings[steps] THEN steps ELSE -1

\* The step that is found is next to the monster and walkable, however far past the
\* right side the search looked and whatever it overwrote there.  If it looked at
\* nothing walkable past the window, it is the first step of a shortest way, in
\* whatever order cells of equal weight come, and there is a way if and only if
\* a step is found.
ShortestStep ==
  /\ outcome # "endless"
  /\ outcome = "found" => step \in Neighbours(Start) \cap walkable
  /\ outcome = "found" /\ ~spilled => StepsTo(step) = StepsTo(Start) - 1
  /\ outcome = "none" /\ ~spilled => StepsTo(Start) = -1

\* While the player is inside the window, and not on its edge, and walking
\* straight towards him is possible, the search does not look past its window.
SpillsOnlyOnDetours ==
  spilled => \/ \E i \in {1, 2} : dest[i] \notin 1..(Side - 2)
             \/ StepsTo(Start) # Distance(Start, dest)
=============================================================================
