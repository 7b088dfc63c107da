--------------------------- MODULE MCPathFinding ----------------------------
(***************************************************************************)
(* Mazes for a window of five by five cells around the monster at (2, 2).  *)
(***************************************************************************)
EXTENDS PathFinding

MCArena == (-1..6) \X (-1..6)

\* One or two walls near the monster; beyond the window there is nothing.
Pillars == {<<1, 1>>, <<1, 2>>, <<1, 3>>, <<2, 1>>, <<2, 3>>, <<3, 1>>, <<3, 2>>, <<3, 3>>, <<4, 2>>, <<2, 4>>}
Rooms == {Window \ {a, b} : a \in Pillars, b \in Pillars}

\* Open ground and passages that lead past a side of the window, or nowhere.
Ways == {
  (1..5) \X (1..3),
  (0..5) \X {1, 2},
  {1, 2} \X (0..5),
  (-1..6) \X {2},
  {2} \X (-1..6),
  {<<2, 2>>, <<2, 1>>, <<3, 1>>, <<4, 1>>, <<5, 1>>, <<5, 2>>, <<5, 3>>, <<4, 3>>},
  {<<2, 2>>, <<2, 3>>, <<2, 4>>, <<2, 5>>, <<3, 5>>, <<4, 5>>, <<4, 4>>, <<4, 3>>},
  {<<2, 2>>, <<3, 2>>, <<4, 2>>, <<5, 2>>, <<0, 3>>, <<0, 4>>, <<1, 4>>, <<5, 3>>},
  {<<2, 2>>, <<1, 2>>, <<2, 3>>, <<4, 4>>, <<4, 2>>, <<3, 4>>}}

MCMazes == Rooms \cup Ways
=============================================================================
