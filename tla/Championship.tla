----------------------------- MODULE Championship -----------------------------
(***************************************************************************)
(* pvp-championship: a tree of processes.  A battle forks its two children *)
(* and is joined to each by a pipe down and a pipe up; a player is a leaf. *)
(* A loser of Zone A goes through a FIFO to an agent, a leaf elsewhere.    *)
(*                                                                         *)
(* Every process is sequential and shares nothing, so a step runs from one *)
(* call that may block, read, open or wait, to the next.                   *)
(***************************************************************************)
EXTENDS Integers, Sequences, FiniteSets

CONSTANTS
  Battles,   \* battles, by their letter's code; A is the root
  Real,      \* real players, by their number
  Agents,    \* agent players, by their number
  A,         \* the root
  Children,  \* battle_children
  Agent,     \* fifo[]: the agent that waits for the loser of a battle of Zone A
  BattleAttr,\* battle_attr
  Tables,    \* contents of player_status.txt: per real player hp, atk and attr
  Nobody     \* no champion yet

Players == Real \cup Agents
Nodes   == Battles \cup Players
Kids(b) == {Children[b][1], Children[b][2]}
Above(n) == CHOOSE b \in Battles : n \in Kids(b)

ASSUME NodesAssumption ==
  /\ Nodes \subseteq Nat /\ Real \cap Agents = {} /\ Battles \cap Players = {}
  /\ A \in Battles
ASSUME TreeAssumption ==
  /\ \A b \in Battles : Children[b] \in (Nodes \ {A}) \X (Nodes \ {A})
  /\ \A b \in Battles : Children[b][1] # Children[b][2] /\ b \notin Kids(b)
  /\ \A b, c \in Battles : b # c => Kids(b) \cap Kids(c) = {}
ASSUME AgentAssumption ==
  /\ DOMAIN Agent \subseteq Battles /\ \A b \in DOMAIN Agent : Agent[b] \in Agents
  /\ \A b, c \in DOMAIN Agent : Agent[b] = Agent[c] => b = c
\* Who fights in a battle of Zone A and loses has a FIFO to go to.
ASSUME ZoneAssumption ==
  \A b \in Battles \ (DOMAIN Agent \cup {A}) : Kids(b) \cap (Real \cup DOMAIN Agent) = {}
\* Who n is depends on who m is: m fights in battle n, or in the one whose loser n stands in
\* for.  Nobody depends on itself, and every agent stands in for somebody.
Feeds(m, n) ==
  \E b \in Battles : m \in Kids(b) /\ (n = b \/ (b \in DOMAIN Agent /\ n = Agent[b]))
ASSUME OrderAssumption ==
  /\ \A S \in SUBSET Nodes : S # {} => \E n \in S : \A m \in S : ~Feeds(m, n)
  /\ \A a \in Agents : \E b \in DOMAIN Agent : Agent[b] = a
ASSUME NobodyAssumption == Nobody \notin Real
ASSUME TablesAssumption ==
  /\ BattleAttr \in [Battles -> 0..2]
  /\ \A t \in Tables : t \in [Real -> [hp : Nat \ {0}, atk : Nat \ {0}, attr : 0..2]]

VARIABLES
  table,     \* the file
  pc,        \* per process: the call it blocks in
  seat,      \* per battle: player_status0 and player_status1
  attacker,  \* per battle: the seat first_attack names
  reaped,    \* per battle: the children wait has returned
  self,      \* per player: player_status
  original,  \* per player: original_HP
  up, down,  \* per process: the pipes to and from its parent
  fifo,      \* per agent: its FIFO
  champion   \* what the root prints

vars == <<table, pc, seat, attacker, reaped, self, original, up, down, fifo, champion>>

NoStatus == [id |-> 0, hp |-> 0, atk |-> 0, attr |-> 0, at |-> A, ended |-> FALSE]

Init ==
  /\ table \in Tables
  /\ pc = [n \in Nodes |-> IF n = A THEN "start" ELSE "unborn"]
  /\ seat = [b \in Battles |-> <<NoStatus, NoStatus>>]
  /\ attacker = [b \in Battles |-> 1]
  /\ reaped = [b \in Battles |-> {}]
  /\ self = [p \in Players |-> NoStatus]
  /\ original = [p \in Players |-> 0]
  /\ up = [n \in Nodes |-> <<>>] /\ down = [n \in Nodes |-> <<>>]
  /\ fifo = [p \in Agents |-> <<>>]
  /\ champion = Nobody

\* Process n blocks next in the call named where.
Goto(n, where) == pc' = [pc EXCEPT ![n] = where]

Send(pipes, n, s) == [pipes EXCEPT ![n] = Append(@, s)]
Taken(pipes, n)   == [pipes EXCEPT ![n] = Tail(@)]

-----------------------------------------------------------------------------
(* The rules of a battle.                                                  *)

Other(k) == 3 - k

\* The player with less HP attacks first, of equals the one with the smaller number.
FirstAttack(s) ==
  IF \/ s[1].hp > s[2].hp
     \/ s[1].hp = s[2].hp /\ s[1].id > s[2].id
  THEN 2 ELSE 1

\* Mutant: an attack counts only where the attribute fits.
PowerIfFitting(s, b) == IF s.attr = BattleAttr[b] THEN 2 * s.atk ELSE 0

Power(s, b) == IF s.attr = BattleAttr[b] THEN 2 * s.atk ELSE s.atk

\* Seat k attacks; an HP of zero or below ends the battle for both.
Attack(b, s, k) ==
  LET hp == s[Other(k)].hp - Power(s[k], b)
      t  == [s EXCEPT ![Other(k)].hp = hp]
  IN  IF hp > 0 THEN t ELSE [t EXCEPT ![1].ended = TRUE, ![2].ended = TRUE]

\* Mutant: first_attack stays with who attacked first when the other strikes back.
RoundOfFirst(b, s) ==
  LET k == FirstAttack(s)
      t == Attack(b, s, k)
  IN  [seats |-> IF t[1].ended THEN t ELSE Attack(b, t, Other(k)), attacker |-> k]

\* One turn of the loop: an attack, and one back if the other still stands.
Round(b, s) ==
  LET k == FirstAttack(s)
      t == Attack(b, s, k)
  IN  IF t[1].ended THEN [seats |-> t, attacker |-> k]
      ELSE [seats |-> Attack(b, t, Other(k)), attacker |-> Other(k)]

-----------------------------------------------------------------------------
(* battle.c                                                                *)

Winner(b) == Children[b][attacker[b]]

Fork(b) ==
  /\ pc[b] = "start"
  /\ pc' = [n \in Nodes |-> IF n = b THEN "first" ELSE IF n \in Kids(b) THEN "start" ELSE pc[n]]
  /\ UNCHANGED <<table, seat, attacker, reaped, self, original, up, down, fifo, champion>>

ReadFirst(b) ==
  LET n == Children[b][1] IN
  /\ pc[b] = "first" /\ up[n] # <<>>
  /\ seat' = [seat EXCEPT ![b][1] = Head(up[n])]
  /\ up' = Taken(up, n)
  /\ Goto(b, "second")
  /\ UNCHANGED <<table, attacker, reaped, self, original, down, fifo, champion>>

\* The second status is read, the round is played, and both go down again.
Play(b) ==
  LET m == Children[b][1]
      n == Children[b][2] IN
  /\ pc[b] = "second" /\ up[n] # <<>>
  /\ LET r == Round(b, <<[seat[b][1] EXCEPT !.at = b], [Head(up[n]) EXCEPT !.at = b]>>)
     IN  /\ seat' = [seat EXCEPT ![b] = r.seats]
         /\ attacker' = [attacker EXCEPT ![b] = r.attacker]
         /\ down' = Send(Send(down, m, r.seats[1]), n, r.seats[2])
         /\ Goto(b, IF r.seats[1].ended THEN "reap" ELSE "first")
  /\ up' = Taken(up, n)
  /\ UNCHANGED <<table, reaped, self, original, fifo, champion>>

\* wait(NULL) returns any child that has exited.
Wait(b) ==
  \E n \in Kids(b) \ reaped[b] :
    pc[n] = "exited" /\ reaped' = [reaped EXCEPT ![b] = @ \cup {n}]

Reap(b) ==
  /\ pc[b] = "reap" /\ Wait(b)
  /\ Goto(b, IF b = A THEN "last" ELSE "pass")
  /\ UNCHANGED <<table, seat, attacker, self, original, up, down, fifo, champion>>

\* Passing mode: what the winner below says goes up ...
PassUp(b) ==
  /\ pc[b] = "pass" /\ up[Winner(b)] # <<>>
  /\ seat' = [seat EXCEPT ![b][attacker[b]] = Head(up[Winner(b)])]
  /\ up' = Send(Taken(up, Winner(b)), b, Head(up[Winner(b)]))
  /\ Goto(b, "back")
  /\ UNCHANGED <<table, attacker, reaped, self, original, down, fifo, champion>>

\* Mutant: passing ends with the next battle, won or lost.
LeavesEarly(s) == s.ended

Leaves(s) == s.hp <= 0 \/ (s.at = A /\ s.ended)

\* ... and the answer goes down, until the player below has lost or is the champion.
PassDown(b) ==
  /\ pc[b] = "back" /\ down[b] # <<>>
  /\ LET s == Head(down[b])
     IN  /\ seat' = [seat EXCEPT ![b][attacker[b]] = s]
         /\ down' = Send(Taken(down, b), Winner(b), s)
         /\ Goto(b, IF Leaves(s) THEN "last" ELSE "pass")
  /\ UNCHANGED <<table, attacker, reaped, self, original, up, fifo, champion>>

\* Mutant: the champion is the child who has won, an agent or a battle.
FinishByChild(b) ==
  /\ pc[b] = "last" /\ Wait(b)
  /\ champion' = IF b = A THEN Winner(b) ELSE champion
  /\ Goto(b, "exited")
  /\ UNCHANGED <<table, seat, attacker, self, original, up, down, fifo>>

\* The last child has gone; the root prints the champion.
Finish(b) ==
  /\ pc[b] = "last" /\ Wait(b)
  /\ champion' = IF b = A THEN seat[b][attacker[b]].id ELSE champion
  /\ Goto(b, "exited")
  /\ UNCHANGED <<table, seat, attacker, self, original, up, down, fifo>>

-----------------------------------------------------------------------------
(* player.c                                                                *)

\* p enters the battle above it with status s.
Enter(p, s) ==
  /\ self' = [self EXCEPT ![p] = s]
  /\ original' = [original EXCEPT ![p] = s.hp]
  /\ up' = Send(up, p, s)
  /\ Goto(p, "read")

ReadFile(p) ==
  /\ p \in Real /\ pc[p] = "start"
  /\ Enter(p, [id |-> p, hp |-> table[p].hp, atk |-> table[p].atk, attr |-> table[p].attr,
               at |-> Above(p), ended |-> FALSE])
  /\ UNCHANGED <<table, seat, attacker, reaped, down, fifo, champion>>

OpenToRead(p) ==
  /\ p \in Agents /\ pc[p] = "start"
  /\ Goto(p, "open")
  /\ UNCHANGED <<table, seat, attacker, reaped, self, original, up, down, fifo, champion>>

ReadFifo(p) ==
  /\ p \in Agents /\ pc[p] = "open" /\ fifo[p] # <<>>
  /\ Enter(p, Head(fifo[p]))
  /\ fifo' = Taken(fifo, p)
  /\ UNCHANGED <<table, seat, attacker, reaped, down, champion>>

\* Mutant: a winner starts its next battle with the HP it has left.
NotRecovered(s, hp) == [s EXCEPT !.ended = FALSE]

\* A winner regains half of what it has lost.
Recovered(s, hp) == [s EXCEPT !.ended = FALSE, !.hp = @ + (hp - @) \div 2]

\* While the battle goes on a player sends back what it gets; a winner goes on recovered.
Continue(p) ==
  /\ pc[p] = "read" /\ down[p] # <<>>
  /\ LET s == Head(down[p])
         t == IF s.ended THEN Recovered(s, original[p]) ELSE s
     IN  /\ s.ended => s.hp > 0 /\ s.at # A
         /\ self' = [self EXCEPT ![p] = t]
         /\ up' = Send(up, p, t)
  /\ down' = Taken(down, p)
  /\ UNCHANGED <<table, pc, seat, attacker, reaped, original, fifo, champion>>

\* The end of a battle that is the end of the player: the champion, and losers who have
\* no second chance, exit.
Retire(p) ==
  /\ pc[p] = "read" /\ down[p] # <<>>
  /\ LET s == Head(down[p])
     IN  /\ s.ended /\ (s.hp <= 0 \/ s.at = A)
         /\ s.hp <= 0 => s.at = A \/ p \in Agents
         /\ self' = [self EXCEPT ![p] = s]
  /\ Goto(p, "exited")
  /\ down' = Taken(down, p)
  /\ UNCHANGED <<table, seat, attacker, reaped, original, up, fifo, champion>>

Revived(s, hp) == [s EXCEPT !.ended = FALSE, !.hp = hp]

\* A loser of Zone A opens the FIFO of the agent that takes its place.
Lose(p) ==
  /\ pc[p] = "read" /\ down[p] # <<>>
  /\ LET s == Head(down[p])
     IN  /\ s.ended /\ s.hp <= 0 /\ s.at # A /\ p \in Real
         /\ self' = [self EXCEPT ![p] = Revived(s, original[p])]
  /\ Goto(p, "open")
  /\ down' = Taken(down, p)
  /\ UNCHANGED <<table, seat, attacker, reaped, original, up, fifo, champion>>

\* Mutant: the table of FIFOs is off by one agent.
NextAgent(b) ==
  LET later == {a \in Agents : a > Agent[b]}
      rest  == IF later = {} THEN Agents ELSE later
  IN  CHOOSE a \in rest : \A c \in rest : a <= c

AgentFor(b) == Agent[b]

\* Mutant: the loser goes on reading from its battle.
WriteFifoAndStay(p) ==
  LET a == AgentFor(self[p].at) IN
  /\ p \in Real /\ pc[p] = "open" /\ pc[a] = "open"
  /\ fifo' = Send(fifo, a, self[p])
  /\ Goto(p, "read")
  /\ UNCHANGED <<table, seat, attacker, reaped, self, original, up, down, champion>>

\* The two opens of a FIFO wait for each other.  The loser writes and exits.
WriteFifo(p) ==
  LET a == AgentFor(self[p].at) IN
  /\ p \in Real /\ pc[p] = "open" /\ pc[a] = "open"
  /\ fifo' = Send(fifo, a, self[p])
  /\ Goto(p, "exited")
  /\ UNCHANGED <<table, seat, attacker, reaped, self, original, up, down, champion>>

-----------------------------------------------------------------------------
Battle(b) ==
  \/ Fork(b) \/ ReadFirst(b) \/ Play(b) \/ Reap(b)
  \/ PassUp(b) \/ PassDown(b) \/ Finish(b)

Player(p) ==
  \/ ReadFile(p) \/ OpenToRead(p) \/ ReadFifo(p)
  \/ Continue(p) \/ Retire(p) \/ Lose(p) \/ WriteFifo(p)

Terminating == (\A n \in Nodes : pc[n] = "exited") /\ UNCHANGED vars

Next == \/ \E b \in Battles : Battle(b)
        \/ \E p \in Players : Player(p)
        \/ Terminating

Spec == Init /\ [][Next]_vars

\* Every process that does not block goes on.
FairSpec == /\ Spec
            /\ \A b \in Battles : WF_vars(Battle(b))
            /\ \A p \in Players : WF_vars(Player(p))
=============================================================================
