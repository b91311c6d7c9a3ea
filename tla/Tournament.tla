------------------------------ MODULE Tournament ------------------------------
(***************************************************************************)
(* The tournament the README draws: a battle is fought once its two        *)
(* contenders are known, one wins and goes on, the other loses and goes on *)
(* in the place that is kept for the loser of that battle, if there is one.*)
(***************************************************************************)
EXTENDS Integers, Sequences

CONSTANTS
  Battles,   \* 'A' .. 'N'
  Real,      \* the real players
  Agents,    \* the players that stand in for the losers of Zone A
  Children,  \* per battle: the two battles or players below it
  Agent,     \* per battle of Zone A: the agent its loser goes to
  Nobody     \* not known yet

VARIABLES
  won,       \* per battle: the real player who has won
  lost       \* per battle: the real player who has lost

\* The battle whose loser agent a stands in for.
LoserOf(a) == CHOOSE b \in DOMAIN Agent : Agent[b] = a

\* The real player who comes from n.
Contender(n) ==
  CASE n \in Real    -> n
    [] n \in Battles -> won[n]
    [] n \in Agents  -> lost[LoserOf(n)]

Contenders(b) == {Contender(Children[b][1]), Contender(Children[b][2])}

TournamentInit ==
  /\ won = [b \in Battles |-> Nobody]
  /\ lost = [b \in Battles |-> Nobody]

Fight(b) ==
  /\ won[b] = Nobody /\ Nobody \notin Contenders(b)
  /\ \E winner \in Contenders(b) : \E loser \in Contenders(b) \ {winner} :
       /\ won' = [won EXCEPT ![b] = winner]
       /\ lost' = [lost EXCEPT ![b] = loser]

TournamentSpec ==
  TournamentInit /\ [][\E b \in Battles : Fight(b)]_<<won, lost>>
=============================================================================
