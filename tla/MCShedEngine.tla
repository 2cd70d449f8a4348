---------------------------- MODULE MCShedEngine ----------------------------
(***************************************************************************)
(* A small deck for TLC: one face of every effect but the larger penalties *)
(* and the plain wild ones, which differ from others in a number only.     *)
(***************************************************************************)
EXTENDS ShedEngine, TLC

Number(col, n) == [kind |-> "number", color |-> col, number |-> n]
Action(k, col) == [kind |-> k, color |-> col]
Wild(k) == [kind |-> k]

MCColors == {"red", "blue"}

\* three players, so that a game goes on when one of them is out
TableDeck ==
  "r0" :> Number("red", 0) @@ "b7" :> Number("blue", 7) @@
  "r1" :> Number("red", 1) @@ "b1" :> Number("blue", 1) @@
  "rDA" :> Action("discard_all", "red") @@ "bD2" :> Action("draw_two", "blue") @@
  "wRo" :> Wild("wild_color_roulette") @@
  "wR4" :> Wild("wild_reverse_draw_four") @@ "bSkip" :> Action("skip", "blue") @@
  "rAll" :> Action("skip_everyone", "red") @@ "rRev" :> Action("reverse", "red")
TableHands == {{"r0", "bD2"}, {"b7", "wRo"}, {"b1", "rDA"}}
TableFlipped == {"r1"}

TableCards == DOMAIN TableDeck

Symmetry == Permutations(Users)
=============================================================================
