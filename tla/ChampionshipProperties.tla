------------------------ MODULE ChampionshipProperties ------------------------
(* What the championship guarantees.  Checked by the runs of               *)
(* MCChampionship.                                                         *)
EXTENDS Championship

Status == [id : Nat, hp : Int, atk : Nat, attr : 0..2, at : Battles, ended : BOOLEAN]

\* Every variable has its type.
TypeOK ==
  /\ table \in Tables
  /\ pc \in [Nodes -> {"unborn", "start", "first", "second", "reap", "pass", "back", "last",
                       "open", "read", "exited"}]
  /\ seat \in [Battles -> Status \X Status]
  /\ attacker \in [Battles -> 1..2]
  /\ reaped \in [Battles -> SUBSET Nodes]
  /\ self \in [Players -> Status]
  /\ original \in [Players -> Nat]
  /\ up \in [Nodes -> Seq(Status)] /\ down \in [Nodes -> Seq(Status)]
  /\ fifo \in [Agents -> Seq(Status)]
  /\ champion \in Real \cup {Nobody}

\* The players who play as p now, and the messages between them.
Embodiments(i) ==
  {p \in Players : self[p].id = i /\ (pc[p] = "read" \/ (pc[p] = "open" /\ p \in Real))}
  \cup {-a : a \in {a \in Agents : fifo[a] # <<>> /\ Head(fifo[a]).id = i}}

(* A loser's status leaves one process before it lives on in another       *)
(* (player.c 165-177, 105-110): nobody fights in two places.               *)
OnePlace ==
  /\ \A i \in Real : Cardinality(Embodiments(i)) <= 1
  /\ \A a \in Agents : Len(fifo[a]) <= 1

\* The process takes no more from its pipe to n.
DoneWith(b, n) ==
  \/ pc[b] \in {"last", "exited"}
  \/ pc[b] \in {"reap", "pass", "back"} /\ n # Winner(b)

(* Between a battle and a child there is at most one message, in one of    *)
(* the two pipes, and none in a pipe whose reader is done with it: nobody  *)
(* writes to a closed pipe, and no status is left behind (battle.c         *)
(* 129-185, player.c 144-163).                                             *)
NothingLost ==
  \A b \in Battles : \A n \in Kids(b) :
    /\ Len(up[n]) + Len(down[n]) <= 1
    /\ DoneWith(b, n) => up[n] = <<>>
    /\ pc[n] \in {"unborn", "start", "open", "exited"} => up[n] = <<>> /\ down[n] = <<>>

\* The battle is over.
Decided(b) == pc[b] \in {"reap", "pass", "back", "last", "exited"}

Loser(b) == Children[b][Other(attacker[b])]

(* Each wait(NULL) takes whatever child has exited (battle.c 155, 161,     *)
(* 182), yet a battle that passes messages has reaped the loser's side,    *)
(* and the winner's side is still there to answer.  The root passes none:  *)
(* its first wait may return either child.  A battle exits after everybody *)
(* below it.                                                               *)
ReapsLoserFirst ==
  \A b \in Battles :
    /\ pc[b] = "pass" \/ pc[b] = "back" =>
         reaped[b] = {Loser(b)} /\ pc[Winner(b)] # "exited"
    /\ pc[b] = "exited" => \A n \in Kids(b) : pc[n] = "exited"

-----------------------------------------------------------------------------
(* The inductive invariant behind NothingLost and ReapsLoserFirst: battle  *)
(* b and its child n take turns.                                           *)

\* n has sent a status up and waits for the answer; b has it in hand.
Waits(n)    == pc[n] \in {"read", "back"}
Holds(b, n) == \/ pc[b] = "second" /\ n = Children[b][1]
               \/ pc[b] = "back" /\ n = Winner(b)

\* b sends and takes nothing more; n does not either.
Finished(b, n) == DoneWith(b, n) \/ (b = A /\ pc[b] = "reap")
Gone(n)        == pc[n] \in {"last", "exited"} \/ (pc[n] = "open" /\ n \in Real)

\* A message that ends the player is the last one, and the only way for n to go.
Edge(b, n) ==
  /\ Len(up[n]) <= 1 /\ Len(down[n]) <= 1
  /\ Waits(n) <=> (up[n] # <<>> \/ down[n] # <<>> \/ Holds(b, n))
  /\ up[n] # <<>> => down[n] = <<>> /\ ~Holds(b, n)
  /\ down[n] # <<>> => ~Holds(b, n) /\ (Leaves(Head(down[n])) <=> Finished(b, n))
  /\ Finished(b, n) => Gone(n) \/ down[n] # <<>>
  /\ Gone(n) => Finished(b, n)
  /\ pc[b] \in {"unborn", "start"} <=> pc[n] = "unborn"

EdgesOK == \A b \in Battles : \A n \in Kids(b) : Edge(b, n)

\* Who goes up is alive, and who is dead is told so.
Alive(s) == s.id \in Real /\ s.hp > 0 /\ ~s.ended
Told(s)  == s.id \in Real /\ (s.hp > 0 \/ s.ended)

StatusOK ==
  /\ \A n \in Nodes : /\ up[n] # <<>> => Alive(Head(up[n]))
                      /\ down[n] # <<>> => Told(Head(down[n]))
  /\ \A b \in Battles : /\ pc[b] = "second" => Alive(seat[b][1])
                        /\ Decided(b) => seat[b][attacker[b]].id \in Real
  /\ \A a \in Agents : \A i \in DOMAIN fifo[a] : Alive(fifo[a][i])
  /\ \A p \in Players : /\ pc[p] = "read" => original[p] > 0
                        /\ pc[p] = "open" /\ p \in Real => Alive(self[p])

\* The children a battle has waited for have exited.
Buried(b) ==
  /\ pc[b] \notin {"pass", "back", "last", "exited"} => reaped[b] = {}
  /\ pc[b] \in {"pass", "back"} =>
       b # A /\ reaped[b] = {Loser(b)} /\ pc[Loser(b)] = "exited"
  /\ pc[b] = "last" => \E n \in Kids(b) : reaped[b] = {n} /\ pc[n] = "exited"
  /\ pc[b] = "exited" => \A n \in Kids(b) : pc[n] = "exited"

ReapedOK == \A b \in Battles : Buried(b)

\* Battles and players are in states of their own, and have been forked.
BornOK ==
  /\ \A b \in Battles : pc[b] \notin {"open", "read"}
  /\ \A p \in Players : pc[p] \in {"unborn", "start", "open", "read", "exited"}
  /\ \A n \in Nodes : pc[n] # "unborn" => n = A \/ \E b \in Battles : n \in Kids(b)

IInv == TypeOK /\ EdgesOK /\ StatusOK /\ ReapedOK /\ BornOK

-----------------------------------------------------------------------------
(* The inductive invariant behind OnePlace and PlaysTournament: who is     *)
(* where.                                                                  *)

\* The player n speaks for.
Carried(n) == IF n \in Players THEN self[n].id ELSE seat[n][attacker[n]].id

\* What passes between battle b and its child n is about the player n speaks for.
Named(b, n) ==
  /\ up[n] # <<>> => Head(up[n]).id = Carried(n)
  /\ down[n] # <<>> => Head(down[n]).id = Carried(n)
  /\ pc[b] = "second" /\ n = Children[b][1] => seat[b][1].id = Carried(n)
  /\ pc[b] = "back" /\ n = Winner(b) => seat[b][attacker[b]].id = Carried(n)

NamesOK ==
  /\ \A b \in Battles : \A n \in Kids(b) : Named(b, n)
  /\ \A p \in Real : pc[p] \in {"read", "open", "exited"} => self[p].id = p

\* Who has no HP left lost the battle the status names, in Zone A if it started there.
Fallen(s) == Decided(s.at) /\ s.id = seat[s.at][Other(attacker[s.at])].id
InZone(n) == n \in Real \cup DOMAIN Agent

FallenOK ==
  /\ \A b \in Battles : \A n \in Kids(b) : down[n] # <<>> =>
       /\ Head(down[n]).hp <= 0 => Fallen(Head(down[n]))
       /\ InZone(n) => Head(down[n]).at \in DOMAIN Agent \cup {A}
  /\ \A p \in Real : pc[p] = "open" => Fallen(self[p]) /\ self[p].at \in DOMAIN Agent

\* An agent stands in for a player who has left, after the battle that is the agent's.
StandIn(a) == IF pc[a] = "read" THEN self[a].id ELSE Head(fifo[a]).id

AgentOK(a) ==
  /\ Len(fifo[a]) <= 1
  /\ fifo[a] # <<>> => pc[a] = "open"
  /\ pc[a] = "read" \/ fifo[a] # <<>> =>
       LET i == StandIn(a) IN
       /\ i \in Real /\ pc[i] = "exited" /\ Fallen(self[i])
       /\ self[i].at \in DOMAIN Agent /\ Agent[self[i].at] = a

AgentsOK == \A a \in Agents : AgentOK(a)

\* The highest process that waits for an answer to one player's status.
Top(n) == Waits(n) /\ \A b \in Battles : ~(pc[b] = "back" /\ n = Winner(b))

\* A player has at most one of them, and none before it enters and after it falls.
TopsOK ==
  /\ \A m, n \in Nodes : Top(m) /\ Top(n) /\ Carried(m) = Carried(n) => m = n
  /\ \A n \in Nodes : Top(n) =>
       /\ Carried(n) \in Real /\ pc[Carried(n)] \notin {"unborn", "start", "open"}
       /\ \A a \in Agents : fifo[a] # <<>> => Carried(n) # Head(fifo[a]).id

PlacesOK == NamesOK /\ FallenOK /\ AgentsOK /\ TopsOK

\* It is settled which player n speaks for.
Known(n) ==
  \/ n \in Players /\ (pc[n] \in {"read", "exited"} \/ (pc[n] = "open" /\ n \in Real))
  \/ n \in Battles /\ Decided(n)

\* Who is seated as the winner while battle b passes is who the child below speaks for.
WinnersOK ==
  \A b \in Battles : pc[b] \in {"reap", "pass", "back"} =>
    Known(Winner(b)) /\ Carried(Winner(b)) = seat[b][attacker[b]].id

-----------------------------------------------------------------------------
(* What the numbers in the file lead to, played one battle after the other *)
(* without any processes: the seats when battle b ends, and the status     *)
(* with which n enters the battle above it.                                *)
Rounds(b, s) ==
  LET F[h \in Int \X Int] ==
        LET r == Round(b, <<[s[1] EXCEPT !.hp = h[1]], [s[2] EXCEPT !.hp = h[2]]>>)
        IN  IF r.seats[1].ended THEN r ELSE F[<<r.seats[1].hp, r.seats[2].hp>>]
  IN  F

Bout(b, s) == Rounds(b, s)[<<s[1].hp, s[2].hp>>]

\* The battle at whose end it is settled with which status n enters.
Source(n) == IF n \in Battles THEN n ELSE CHOOSE c \in DOMAIN Agent : Agent[c] = n

Rules ==
  LET E[n \in Nodes] ==
        IF n \in Real
        THEN [id |-> n, hp |-> table[n].hp, atk |-> table[n].atk, attr |-> table[n].attr,
              at |-> A, ended |-> FALSE]
        ELSE LET b   == Source(n)
                 r   == Bout(b, <<E[Children[b][1]], E[Children[b][2]]>>)
                 s   == r.seats[IF n \in Battles THEN r.attacker ELSE Other(r.attacker)]
                 max == table[s.id].hp
             IN  [s EXCEPT !.hp = IF n \in Battles THEN @ + (max - @) \div 2 ELSE max,
                           !.ended = FALSE]
  IN  E

(* However the processes are scheduled, each battle has the winner the     *)
(* file determines, and the champion is the winner of the last one: HP     *)
(* recovers between battles, and a loser comes back with all of it.        *)
ByTheRules ==
  \/ \A b \in Battles : ~Decided(b)
  \/ LET E == Rules IN
     /\ \A b \in Battles : Decided(b) => seat[b][attacker[b]].id = E[b].id
     /\ champion # Nobody => champion = E[A].id

-----------------------------------------------------------------------------
(* The inductive invariant behind ByTheRules: the statuses on their way    *)
(* are those of the rules.                                                 *)

Entrants(b) == <<Rules[Children[b][1]], Rules[Children[b][2]]>>
Result(b)   == Bout(b, Entrants(b))

\* The same player with the same powers; with the same HP too.
SameFighter(s, t) == s.id = t.id /\ s.atk = t.atk /\ s.attr = t.attr
Like(s, t)        == SameFighter(s, t) /\ s.hp = t.hp /\ s.ended = t.ended

\* A round has been played.
Begun(b) == seat[b][2].atk > 0

\* What a player sends back.
Reply(s) == IF s.ended THEN Recovered(s, table[s.id].hp) ELSE s

\* What the child of seat k sends next, or has sent.
Due(b, k) ==
  IF Decided(b) THEN Reply(seat[b][k])
  ELSE IF Begun(b) THEN seat[b][k] ELSE Entrants(b)[k]

\* Between battle b and the child of seat k: messages are the ones due, and a battle that
\* passes is due what the one above it waits for.
InTransit(b, k) ==
  LET n == Children[b][k] IN
  /\ up[n] # <<>> => Like(Head(up[n]), Due(b, k))
  /\ down[n] # <<>> => Begun(b) /\ Head(down[n]) = seat[b][k]
  /\ n \in Battles /\ pc[n] \in {"reap", "pass"} => Like(Due(n, attacker[n]), Due(b, k))

MessagesOK == \A b \in Battles : \A k \in {1, 2} : InTransit(b, k)

\* The rounds still to be played end as the battle does.
Fighting(b) ==
  /\ \A k \in {1, 2} : /\ SameFighter(seat[b][k], Entrants(b)[k])
                     /\ seat[b][k].hp > 0 /\ ~seat[b][k].ended
  /\ Rounds(b, Entrants(b))[<<seat[b][1].hp, seat[b][2].hp>>] = Result(b)

Contest(b) ==
  /\ Begun(b) => \A n \in Kids(b) : Known(n)
  /\ pc[b] = "second" /\ ~Begun(b) => Like(seat[b][1], Entrants(b)[1])
  /\ pc[b] \in {"first", "second"} /\ Begun(b) => Fighting(b)
  /\ Decided(b) => /\ Begun(b) /\ attacker[b] = Result(b).attacker
                   /\ seat[b][attacker[b]].id = Rules[b].id

ContestsOK == \A b \in Battles : Contest(b)

\* Who has no HP left is the loser of the battle the status names.
Beaten(s) == LET r == Result(s.at) IN SameFighter(s, r.seats[Other(r.attacker)])

LosersOK ==
  /\ \A n \in Nodes : down[n] # <<>> => /\ Head(down[n]).atk > 0
                                        /\ Head(down[n]).hp <= 0 => Beaten(Head(down[n]))
  /\ \A p \in Players : pc[p] = "read" => original[p] = table[self[p].id].hp
  /\ \A p \in Real : pc[p] = "open" => Like(self[p], Rules[AgentFor(self[p].at)])
  /\ \A a \in Agents : fifo[a] # <<>> => Like(Head(fifo[a]), Rules[a])

ChampionOK == champion # Nobody => Decided(A) /\ champion = Rules[A].id

RulesOK == MessagesOK /\ ContestsOK /\ LosersOK /\ ChampionOK

-----------------------------------------------------------------------------
(* The championship implements Tournament: a battle is fought by the       *)
(* winners of the battles below it, and an agent stands in for the loser   *)
(* of its battle and for nobody else.                                      *)
Won  == [b \in Battles |-> IF Decided(b) THEN seat[b][attacker[b]].id ELSE Nobody]
Lost == [b \in Battles |-> IF Decided(b) THEN seat[b][Other(attacker[b])].id ELSE Nobody]
T == INSTANCE Tournament WITH won <- Won, lost <- Lost
PlaysTournament == T!TournamentSpec

(* Every process reads, opens or waits for another (battle.c 129, player.c *)
(* 105, 147, 171): none of them waits for ever, and the root prints a      *)
(* champion after all have gone.                                           *)
Ends == <>(champion # Nobody /\ \A n \in Nodes : pc[n] = "exited")
=============================================================================
