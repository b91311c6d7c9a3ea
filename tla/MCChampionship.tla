---------------------------- MODULE MCChampionship ----------------------------
(* Small instances of Championship for TLC: battles have the codes of      *)
(* their letters, as in battle.c.                                          *)
EXTENDS ChampionshipProperties, TLC

B == 66
C == 67
G == 71
H == 72
M == 77

(* Four players: A is fought by the winners of B, Zone A, and C, Zone B.   *)
FourBattles  == {65, B, C, G, H, M}
FourReal     == 0..3
FourAgents   == {8, 11, 14}
FourChildren == (65 :> <<B, C>>) @@ (B :> <<G, H>>) @@ (C :> <<M, 14>>) @@
                (G :> <<0, 1>>) @@ (H :> <<2, 3>>) @@ (M :> <<8, 11>>)
FourFifos    == (B :> 14) @@ (G :> 8) @@ (H :> 11)
FourAttr     == (65 :> 0) @@ (B :> 1) @@ (C :> 2) @@ (G :> 0) @@ (H :> 1) @@ (M :> 0)

\* The first lines of player_status.txt.
P(hp, atk, attr) == [hp |-> hp, atk |-> atk, attr |-> attr]
File  == {0 :> P(7, 2, 0) @@ 1 :> P(8, 3, 1) @@ 2 :> P(4, 4, 0) @@ 3 :> P(1, 4, 1)}

\* Weak and strong players of every attribute, who meet with equal and with odd HP.
Files == File
  \cup {[p \in FourReal |-> P(hp[p], 2, p % 3)] : hp \in [FourReal -> {2, 5}]}
  \cup {[p \in FourReal |-> P(hp[p], 1, 1)] : hp \in [FourReal -> {1, 2}]}
=============================================================================
