-------------------------- MODULE ChampionshipProofs --------------------------
(* NothingLost and ReapsLoserFirst hold for every tree of battles, every   *)
(* table of players and every schedule of the processes.  At the end: what *)
(* the rules of a battle and of the championship lead to, without them.    *)
EXTENDS ChampionshipProperties, RecursionProofs, TLAPS

-----------------------------------------------------------------------------
(* The tree: a process has one parent, and is not its own.                 *)

LEMMA TreeFacts ==
  ASSUME NEW b \in Battles
  PROVE  /\ b \in Nodes /\ A \in Nodes /\ b \notin Players
         /\ Children[b] \in (Nodes \ {A}) \X (Nodes \ {A})
         /\ Children[b][1] \in Nodes \ {A} /\ Children[b][2] \in Nodes \ {A}
         /\ Kids(b) \subseteq Nodes \ {A} /\ b \notin Kids(b)
         /\ Children[b][1] \in Kids(b) /\ Children[b][2] \in Kids(b)
         /\ Children[b][1] # Children[b][2]
         /\ \A k \in 1..2 : Children[b][k] \in Kids(b)
         /\ \A n \in Kids(b), c \in Battles : n \in Kids(c) => c = b
<1>1. Children[b] \in (Nodes \ {A}) \X (Nodes \ {A})
  BY TreeAssumption
<1>2. Children[b][1] \in Nodes \ {A} /\ Children[b][2] \in Nodes \ {A}
  BY <1>1
<1>3. \A n \in Kids(b), c \in Battles : n \in Kids(c) => c = b
  BY TreeAssumption
<1>4. \A k \in 1..2 : k = 1 \/ k = 2
  OBVIOUS
<1> QED  BY <1>1, <1>2, <1>3, <1>4, TreeAssumption, NodesAssumption DEF Kids, Nodes

LEMMA SeatFacts ==
  ASSUME TypeOK, NEW b \in Battles
  PROVE  /\ attacker[b] \in {1, 2} /\ Other(attacker[b]) \in {1, 2}
         /\ Winner(b) \in Kids(b) /\ Loser(b) \in Kids(b) /\ Winner(b) # Loser(b)
         /\ Kids(b) = {Winner(b), Loser(b)}
<1>1. attacker[b] \in {1, 2}
  BY DEF TypeOK
<1> QED  BY <1>1, TreeFacts DEF Winner, Loser, Other, Kids

-----------------------------------------------------------------------------
(* Seats and pipes keep their types.                                       *)

LEMMA SeatUpdate ==
  ASSUME NEW t \in Status \X Status, NEW k \in {1, 2}, NEW s \in Status
  PROVE  /\ [t EXCEPT ![k] = s] \in Status \X Status
         /\ [t EXCEPT ![k] = s][k] = s
         /\ [t EXCEPT ![k] = s][Other(k)] = t[Other(k)]
BY DEF Other

LEMMA Pipes ==
  ASSUME NEW S, NEW pipes \in [S -> Seq(Status)], NEW n \in S
  PROVE  /\ \A s \in Status : /\ Send(pipes, n, s) \in [S -> Seq(Status)]
                              /\ Send(pipes, n, s)[n] = Append(pipes[n], s)
                              /\ \A m \in S : m # n => Send(pipes, n, s)[m] = pipes[m]
         /\ pipes[n] # <<>> => /\ Taken(pipes, n) \in [S -> Seq(Status)]
                               /\ Taken(pipes, n)[n] = Tail(pipes[n])
                               /\ Head(pipes[n]) \in Status
         /\ \A m \in S : m # n => Taken(pipes, n)[m] = pipes[m]
BY DEF Send, Taken

-----------------------------------------------------------------------------
(* A round.                                                                *)

\* The seats of battle b at the start of a turn, and after it.
Ready(b, s) == /\ s \in Status \X Status
               /\ \A i \in {1, 2} : Alive(s[i]) /\ s[i].at = b

Fought(b, s, k) ==
  /\ s \in Status \X Status /\ k \in {1, 2}
  /\ \A i \in {1, 2} : s[i].id \in Real /\ s[i].at = b /\ s[i].ended = s[1].ended
  /\ IF s[1].ended THEN s[k].hp > 0 /\ s[Other(k)].hp <= 0
                   ELSE s[1].hp > 0 /\ s[2].hp > 0

LEMMA AttackFought ==
  ASSUME NEW b \in Battles, NEW s, Ready(b, s), NEW k \in {1, 2}
  PROVE  /\ Fought(b, Attack(b, s, k), k)
         /\ \A i \in {1, 2} : Attack(b, s, k)[i].id = s[i].id
<1> DEFINE hp == s[Other(k)].hp - Power(s[k], b)
           t  == [s EXCEPT ![Other(k)].hp = hp]
           u  == [t EXCEPT ![1].ended = TRUE, ![2].ended = TRUE]
<1>1. Other(k) \in {1, 2} /\ Other(k) # k /\ {1, 2} = {k, Other(k)}
  BY DEF Other
<1>2. s[1] \in Status /\ s[2] \in Status /\ s = <<s[1], s[2]>>
  BY DEF Ready
<1>3. hp \in Int
  BY <1>1, <1>2, TablesAssumption DEF Power, Status
<1> HIDE DEF hp
<1>4. t \in Status \X Status /\ t[k] = s[k] /\ t[Other(k)] = [s[Other(k)] EXCEPT !.hp = hp]
  BY <1>1, <1>2, <1>3 DEF Status
<1> HIDE DEF t
<1>5. u \in Status \X Status /\ \A i \in {1, 2} : u[i] = [t[i] EXCEPT !.ended = TRUE]
  <2> DEFINE e == [t[1] EXCEPT !.ended = TRUE]
             f == [t[2] EXCEPT !.ended = TRUE]
             v == [t EXCEPT ![1] = e]
  <2>1. t[1] \in Status /\ t[2] \in Status /\ Other(1) = 2 /\ Other(2) = 1
    BY <1>4 DEF Other
  <2>2. e \in Status /\ f \in Status
    BY <2>1 DEF Status
  <2>3. u = [v EXCEPT ![2] = [v[2] EXCEPT !.ended = TRUE]]
    OBVIOUS
  <2>4. \A i \in {1, 2} : [t[i] EXCEPT !.ended = TRUE] = IF i = 1 THEN e ELSE f
    OBVIOUS
  <2> HIDE DEF e, f, u
  <2>5. v \in Status \X Status /\ v[1] = e /\ v[2] = t[2]
    BY <1>4, <2>1, <2>2
  <2> HIDE DEF v
  <2>6. u = [v EXCEPT ![2] = f]
    BY <2>3, <2>5 DEF f
  <2>7. u \in Status \X Status /\ u[2] = f /\ u[1] = e
    BY <2>1, <2>2, <2>5, <2>6
  <2> QED  BY <2>4, <2>7
<1> HIDE DEF u
<1>6. Attack(b, s, k) = IF hp > 0 THEN t ELSE u
  BY DEF Attack, hp, t, u
<1>7. CASE hp > 0
  <2>1. Fought(b, Attack(b, s, k), k)
    BY <1>1, <1>2, <1>3, <1>4, <1>6, <1>7 DEF Fought, Ready, Alive, Status
  <2>2. \A i \in {1, 2} : t[i].id = s[i].id
    BY <1>1, <1>2, <1>3, <1>4 DEF Status
  <2> QED  BY <1>6, <1>7, <2>1, <2>2
<1>8. CASE ~(hp > 0)
  <2>1. \A i \in {1, 2} : t[i] \in Status /\ t[i].id = s[i].id /\ t[i].at = s[i].at
    BY <1>1, <1>2, <1>3, <1>4 DEF Status
  <2>2. \A i \in {1, 2} : u[i].id = s[i].id /\ u[i].at = s[i].at /\ u[i].hp = t[i].hp /\ u[i].ended = TRUE
    BY <1>5, <2>1 DEF Status
  <2>3. t[k].hp = s[k].hp /\ t[Other(k)].hp = hp
    BY <1>1, <1>2, <1>3, <1>4 DEF Status
  <2>4. s[k].hp > 0 /\ \A i \in {1, 2} : s[i].id \in Real /\ s[i].at = b
    BY DEF Ready, Alive
  <2>5. u[1].ended /\ u[2].ended
    BY <2>2
  <2>6. u[k].hp > 0 /\ u[Other(k)].hp <= 0
    BY <1>1, <1>3, <1>8, <2>2, <2>3, <2>4
  <2>7. \A i \in {1, 2} : u[i].id \in Real /\ u[i].at = b /\ u[i].ended = u[1].ended
    BY <2>2, <2>4
  <2>8. Attack(b, s, k) = u
    BY <1>3, <1>6, <1>8
  <2>9. Fought(b, u, k)
    BY <1>5, <2>5, <2>6, <2>7 DEF Fought
  <2> QED  BY <2>2, <2>8, <2>9
<1> QED  BY <1>7, <1>8

LEMMA RoundFought ==
  ASSUME NEW b \in Battles, NEW s, Ready(b, s)
  PROVE  /\ Fought(b, Round(b, s).seats, Round(b, s).attacker)
         /\ \A i \in {1, 2} : Round(b, s).seats[i].id = s[i].id
<1> DEFINE k == FirstAttack(s)
           t == Attack(b, s, k)
<1>1. k \in {1, 2} /\ Other(k) \in {1, 2}
  BY DEF FirstAttack, Other
<1>2. Fought(b, t, k) /\ \A i \in {1, 2} : t[i].id = s[i].id
  BY <1>1, AttackFought
<1>3. Round(b, s) = IF t[1].ended THEN [seats |-> t, attacker |-> k]
                    ELSE [seats |-> Attack(b, t, Other(k)), attacker |-> Other(k)]
  BY DEF Round
<1> HIDE DEF k, t
<1>4. CASE t[1].ended
  BY <1>2, <1>3, <1>4
<1>5. CASE ~t[1].ended
  <2>1. Ready(b, t)
    BY <1>2, <1>5 DEF Fought, Ready, Alive
  <2>2. /\ Fought(b, Attack(b, t, Other(k)), Other(k))
        /\ \A i \in {1, 2} : Attack(b, t, Other(k))[i].id = t[i].id
    BY <1>1, <2>1, AttackFought
  <2> QED  BY <1>2, <1>3, <1>5, <2>2
<1> QED  BY <1>4, <1>5

LEMMA RecoveredAlive ==
  ASSUME NEW s \in Status, s.id \in Real, s.hp > 0, NEW hp \in Nat, hp > 0
  PROVE  Recovered(s, hp) \in Status /\ Alive(Recovered(s, hp))
<1>1. s.hp \in Int /\ (hp - s.hp) \div 2 \in Int /\ s.hp + (hp - s.hp) \div 2 > 0
  BY DEF Status
<1> DEFINE h == s.hp + (hp - s.hp) \div 2
<1>2. h \in Int /\ h > 0
  BY <1>1
<1> HIDE DEF h
<1>3. Recovered(s, hp) = [s EXCEPT !.ended = FALSE, !.hp = h]
  BY DEF Recovered, h
<1> QED  BY <1>2, <1>3 DEF Status, Alive

LEMMA RevivedType ==
  ASSUME NEW s \in Status, NEW hp \in Nat
  PROVE  /\ Revived(s, hp) \in Status
         /\ s.id \in Real /\ hp > 0 => Alive(Revived(s, hp))
<1>1. hp \in Int
  OBVIOUS
<1>2. Revived(s, hp) \in Status /\ Revived(s, hp).id = s.id
      /\ Revived(s, hp).hp = hp /\ Revived(s, hp).ended = FALSE
  BY <1>1 DEF Revived, Status
<1> QED  BY <1>2 DEF Alive

-----------------------------------------------------------------------------
(* Types.                                                                  *)

Points == {"unborn", "start", "first", "second", "reap", "pass", "back", "last",
           "open", "read", "exited"}

LEMMA Goes ==
  ASSUME TypeOK, NEW n \in Nodes, NEW where \in Points, Goto(n, where)
  PROVE  /\ pc' \in [Nodes -> Points] /\ pc'[n] = where
         /\ \A m \in Nodes \ {n} : pc'[m] = pc[m]
BY DEF Goto, TypeOK, Points

LEMMA PlayFacts ==
  ASSUME IInv, NEW b \in Battles, Play(b)
  PROVE  \E s, k :
           /\ Fought(b, s, k)
           /\ s[1].id = seat[b][1].id /\ s[2].id = Head(up[Children[b][2]]).id
           /\ seat' = [seat EXCEPT ![b] = s] /\ attacker' = [attacker EXCEPT ![b] = k]
           /\ down' = Send(Send(down, Children[b][1], s[1]), Children[b][2], s[2])
           /\ Goto(b, IF s[1].ended THEN "reap" ELSE "first")
           /\ up' = Taken(up, Children[b][2])
<1> DEFINE n == Children[b][2]
           t == <<[seat[b][1] EXCEPT !.at = b], [Head(up[n]) EXCEPT !.at = b]>>
<1>1. pc[b] = "second" /\ up[n] # <<>> /\ n \in Nodes
  BY TreeFacts DEF Play
<1>2. seat[b][1] \in Status /\ Head(up[n]) \in Status
  BY <1>1, Pipes DEF IInv, TypeOK
<1>3. Alive(seat[b][1]) /\ Alive(Head(up[n]))
  BY <1>1 DEF IInv, StatusOK
<1>4. Ready(b, t) /\ t[1].id = seat[b][1].id /\ t[2].id = Head(up[n]).id
  BY <1>2, <1>3 DEF Ready, Alive, Status
<1> HIDE DEF t
<1>5. /\ Fought(b, Round(b, t).seats, Round(b, t).attacker)
      /\ Round(b, t).seats[1].id = seat[b][1].id
      /\ Round(b, t).seats[2].id = Head(up[n]).id
  BY <1>4, RoundFought
<1>6. /\ seat' = [seat EXCEPT ![b] = Round(b, t).seats]
      /\ attacker' = [attacker EXCEPT ![b] = Round(b, t).attacker]
      /\ down' = Send(Send(down, Children[b][1], Round(b, t).seats[1]), n, Round(b, t).seats[2])
      /\ Goto(b, IF Round(b, t).seats[1].ended THEN "reap" ELSE "first")
      /\ up' = Taken(up, n)
  BY DEF Play, t
<1> QED  BY <1>5, <1>6

LEMMA EnterType ==
  ASSUME TypeOK, NEW p \in Players, NEW s \in Status, Alive(s), Enter(p, s)
  PROVE  /\ pc' \in [Nodes -> Points] /\ self' \in [Players -> Status]
         /\ original' \in [Players -> Nat] /\ up' \in [Nodes -> Seq(Status)]
<1>1. p \in Nodes /\ Goto(p, "read") /\ s.hp \in Nat /\ up' = Send(up, p, s)
  BY DEF Nodes, Enter, Alive, Status
<1>2. pc' \in [Nodes -> Points]
  BY <1>1, Goes DEF Points
<1>3. up' \in [Nodes -> Seq(Status)]
  BY <1>1, Pipes DEF TypeOK
<1> QED  BY <1>1, <1>2, <1>3 DEF Enter, TypeOK

LEMMA BattleType ==
  ASSUME IInv, NEW b \in Battles, Battle(b)
  PROVE  TypeOK'
<1>0. TypeOK /\ b \in Nodes
  BY TreeFacts DEF IInv
<1>1. CASE Fork(b)
  <2>1. pc' \in [Nodes -> Points]
    BY <1>0, <1>1 DEF Fork, TypeOK, Points
  <2> QED  BY <1>0, <1>1, <2>1 DEF Fork, TypeOK, Points
<1>2. CASE ReadFirst(b)
  <2> DEFINE n == Children[b][1]
  <2>1. n \in Nodes /\ up[n] # <<>> /\ up' = Taken(up, n)
    BY <1>2, TreeFacts DEF ReadFirst
  <2>2. Head(up[n]) \in Status /\ up' \in [Nodes -> Seq(Status)]
    BY <1>0, <2>1, Pipes DEF TypeOK
  <2>3. seat' \in [Battles -> Status \X Status]
    <3>1. seat' = [seat EXCEPT ![b] = [seat[b] EXCEPT ![1] = Head(up[n])]]
      BY <1>2 DEF ReadFirst
    <3>2. [seat[b] EXCEPT ![1] = Head(up[n])] \in Status \X Status
      BY <1>0, <2>2, SeatUpdate DEF TypeOK
    <3> QED  BY <1>0, <3>1, <3>2 DEF TypeOK
  <2>4. pc' \in [Nodes -> Points]
    BY <1>0, <1>2, Goes DEF ReadFirst, Points
  <2> QED  BY <1>0, <1>2, <2>2, <2>3, <2>4 DEF ReadFirst, TypeOK, Points
<1>3. CASE Play(b)
  <2> DEFINE m == Children[b][1]
             n == Children[b][2]
  <2>1. PICK s, k :
           /\ Fought(b, s, k)
           /\ seat' = [seat EXCEPT ![b] = s] /\ attacker' = [attacker EXCEPT ![b] = k]
           /\ down' = Send(Send(down, m, s[1]), n, s[2])
           /\ Goto(b, IF s[1].ended THEN "reap" ELSE "first")
           /\ up' = Taken(up, n)
    BY <1>3, PlayFacts
  <2>7. up[n] # <<>> /\ UNCHANGED <<table, reaped, self, original, fifo, champion>>
    BY <1>3 DEF Play
  <2>2. /\ m \in Nodes /\ n \in Nodes /\ up[n] # <<>>
        /\ s \in Status \X Status /\ s[1] \in Status /\ s[2] \in Status /\ k \in 1..2
    BY <2>1, <2>7, TreeFacts DEF Fought
  <2>3. pc' \in [Nodes -> Points]
    <3> DEFINE where == IF s[1].ended THEN "reap" ELSE "first"
    <3>1. where \in Points /\ Goto(b, where)
      BY <2>1 DEF Points
    <3> HIDE DEF where
    <3> QED  BY <1>0, <3>1, Goes
  <2>8. up' \in [Nodes -> Seq(Status)]
    <3>1. up \in [Nodes -> Seq(Status)]
      BY <1>0 DEF TypeOK
    <3>2. Taken(up, n) \in [Nodes -> Seq(Status)]
      BY <3>1, <2>2, Pipes
    <3> QED  BY <2>1, <3>2
  <2>4. Send(down, m, s[1]) \in [Nodes -> Seq(Status)]
    BY <1>0, <2>2, Pipes DEF TypeOK
  <2>5. down' \in [Nodes -> Seq(Status)]
    BY <2>1, <2>2, <2>4, Pipes
  <2>6. seat' \in [Battles -> Status \X Status] /\ attacker' \in [Battles -> 1..2]
    BY <1>0, <2>1, <2>2 DEF TypeOK
  <2> QED  BY <1>0, <2>7, <2>3, <2>8, <2>5, <2>6 DEF TypeOK, Points
<1>4. CASE Reap(b)
  <2>1. pc' \in [Nodes -> Points]
    BY <1>0, <1>4, Goes DEF Reap, Points
  <2>2. reaped' \in [Battles -> SUBSET Nodes]
    BY <1>0, <1>4, TreeFacts DEF Reap, Wait, TypeOK
  <2> QED  BY <1>0, <1>4, <2>1, <2>2 DEF Reap, TypeOK, Points
<1>5. CASE PassUp(b)
  <2> DEFINE w == Winner(b)
             s == Head(up[w])
  <2>1. w \in Nodes /\ up[w] # <<>> /\ attacker[b] \in {1, 2}
    BY <1>0, <1>5, TreeFacts, SeatFacts DEF PassUp
  <2>2. s \in Status /\ Taken(up, w) \in [Nodes -> Seq(Status)]
    BY <1>0, <2>1, Pipes DEF TypeOK
  <2>3. up' \in [Nodes -> Seq(Status)]
    BY <1>0, <1>5, <2>2, Pipes DEF PassUp
  <2>4. seat' \in [Battles -> Status \X Status]
    <3>1. seat' = [seat EXCEPT ![b] = [seat[b] EXCEPT ![attacker[b]] = s]]
      BY <1>5 DEF PassUp
    <3>2. [seat[b] EXCEPT ![attacker[b]] = s] \in Status \X Status
      BY <1>0, <2>1, <2>2, SeatUpdate DEF TypeOK
    <3> QED  BY <1>0, <3>1, <3>2 DEF TypeOK
  <2>5. pc' \in [Nodes -> Points]
    BY <1>0, <1>5, Goes DEF PassUp, Points
  <2> QED  BY <1>0, <1>5, <2>3, <2>4, <2>5 DEF PassUp, TypeOK, Points
<1>6. CASE PassDown(b)
  <2> DEFINE w == Winner(b)
             s == Head(down[b])
  <2>1. w \in Nodes /\ down[b] # <<>> /\ attacker[b] \in {1, 2}
    BY <1>0, <1>6, TreeFacts, SeatFacts DEF PassDown
  <2>2. s \in Status /\ Taken(down, b) \in [Nodes -> Seq(Status)]
    BY <1>0, <2>1, Pipes DEF TypeOK
  <2>3. down' \in [Nodes -> Seq(Status)]
    BY <1>6, <2>1, <2>2, Pipes DEF PassDown
  <2>4. seat' \in [Battles -> Status \X Status]
    <3>1. seat' = [seat EXCEPT ![b] = [seat[b] EXCEPT ![attacker[b]] = s]]
      BY <1>6 DEF PassDown
    <3>2. [seat[b] EXCEPT ![attacker[b]] = s] \in Status \X Status
      BY <1>0, <2>1, <2>2, SeatUpdate DEF TypeOK
    <3> QED  BY <1>0, <3>1, <3>2 DEF TypeOK
  <2>5. pc' \in [Nodes -> Points]
    BY <1>0, <1>6, Goes DEF PassDown, Points
  <2> QED  BY <1>0, <1>6, <2>3, <2>4, <2>5 DEF PassDown, TypeOK, Points
<1>7. CASE Finish(b)
  <2>1. pc' \in [Nodes -> Points]
    BY <1>0, <1>7, Goes DEF Finish, Points
  <2>2. reaped' \in [Battles -> SUBSET Nodes]
    BY <1>0, <1>7, TreeFacts DEF Finish, Wait, TypeOK
  <2>3. seat[b][attacker[b]].id \in Real
    BY <1>7 DEF Finish, IInv, StatusOK, Decided
  <2> QED  BY <1>0, <1>7, <2>1, <2>2, <2>3 DEF Finish, TypeOK, Points
<1> QED  BY <1>1, <1>2, <1>3, <1>4, <1>5, <1>6, <1>7 DEF Battle

LEMMA ReadFileFacts ==
  ASSUME IInv, NEW p \in Players, ReadFile(p)
  PROVE  \E s \in Status : Alive(s) /\ Enter(p, s)
<1> DEFINE s == [id |-> p, hp |-> table[p].hp, atk |-> table[p].atk, attr |-> table[p].attr,
                 at |-> Above(p), ended |-> FALSE]
<1>1. p \in Real /\ pc[p] = "start" /\ Enter(p, s)
  BY DEF ReadFile
<1>2. \E b \in Battles : p \in Kids(b)
  BY <1>1, NodesAssumption DEF IInv, BornOK, Nodes
<1>3. Above(p) \in Battles
  BY <1>2 DEF Above
<1>4. table[p] \in [hp : Nat \ {0}, atk : Nat \ {0}, attr : 0..2]
  BY <1>1, TablesAssumption DEF IInv, TypeOK
<1>5. s \in Status /\ Alive(s)
  BY <1>1, <1>3, <1>4, NodesAssumption DEF Status, Alive, Nodes, Players
<1> QED  BY <1>1, <1>5

LEMMA ReadFifoFacts ==
  ASSUME IInv, NEW p \in Players, ReadFifo(p)
  PROVE  /\ Head(fifo[p]) \in Status /\ Alive(Head(fifo[p])) /\ Enter(p, Head(fifo[p]))
         /\ fifo' \in [Agents -> Seq(Status)]
         /\ \A a \in Agents : fifo'[a] = IF a = p THEN Tail(fifo[a]) ELSE fifo[a]
<1>1. p \in Agents /\ fifo[p] # <<>> /\ Enter(p, Head(fifo[p])) /\ fifo' = Taken(fifo, p)
  BY DEF ReadFifo
<1>2. fifo \in [Agents -> Seq(Status)]
  BY DEF IInv, TypeOK
<1>3. Head(fifo[p]) = fifo[p][1] /\ 1 \in DOMAIN fifo[p]
  BY <1>1, <1>2
<1> QED  BY <1>1, <1>2, <1>3, Pipes DEF IInv, StatusOK

\* What p reads from the pipe of its battle.
LEMMA ReadFacts ==
  ASSUME IInv, NEW p \in Players, pc[p] = "read", down[p] # <<>>
  PROVE  /\ p \in Nodes /\ Head(down[p]) \in Status /\ Told(Head(down[p]))
         /\ original[p] \in Nat /\ original[p] > 0
         /\ down' = Taken(down, p) => down' \in [Nodes -> Seq(Status)]
<1>1. p \in Nodes
  BY DEF Nodes
<1>2. Head(down[p]) \in Status /\ Taken(down, p) \in [Nodes -> Seq(Status)]
  BY <1>1, Pipes DEF IInv, TypeOK
<1>3. Told(Head(down[p])) /\ original[p] > 0 /\ original[p] \in Nat
  BY <1>1 DEF IInv, TypeOK, StatusOK
<1> QED  BY <1>1, <1>2, <1>3

LEMMA ContinueFacts ==
  ASSUME IInv, NEW p \in Players, Continue(p)
  PROVE  \E t \in Status :
           /\ Alive(t) /\ ~Leaves(Head(down[p]))
           /\ self' = [self EXCEPT ![p] = t] /\ up' = Send(up, p, t)
<1> DEFINE s == Head(down[p])
           t == IF s.ended THEN Recovered(s, original[p]) ELSE s
<1>1. /\ pc[p] = "read" /\ down[p] # <<>>
      /\ s.ended => s.hp > 0 /\ s.at # A
      /\ self' = [self EXCEPT ![p] = t] /\ up' = Send(up, p, t)
  BY DEF Continue
<1> HIDE DEF t
<1>2. s \in Status /\ Told(s) /\ original[p] \in Nat /\ original[p] > 0
  BY <1>1, ReadFacts
<1> HIDE DEF s
<1>3. s.id \in Real /\ s.hp \in Int /\ s.hp > 0 /\ s.ended \in BOOLEAN
  BY <1>1, <1>2 DEF Told, Status
<1>4. CASE s.ended
  <2>1. t = Recovered(s, original[p]) /\ s.at # A
    BY <1>1, <1>4 DEF t
  <2>2. t \in Status /\ Alive(t)
    BY <1>2, <1>3, <2>1, RecoveredAlive
  <2>3. ~Leaves(s)
    BY <1>3, <2>1 DEF Leaves
  <2> QED  BY <1>1, <2>2, <2>3 DEF s
<1>5. CASE ~s.ended
  <2>1. t = s
    BY <1>5 DEF t
  <2>2. Alive(t) /\ ~Leaves(s)
    BY <1>3, <1>5, <2>1 DEF Alive, Leaves
  <2> QED  BY <1>1, <1>2, <2>1, <2>2 DEF s
<1> QED  BY <1>4, <1>5

LEMMA WriteFifoFacts ==
  ASSUME IInv, NEW p \in Players, WriteFifo(p)
  PROVE  /\ fifo' \in [Agents -> Seq(Status)]
         /\ \A a \in Agents : fifo'[a] = fifo[a] \/ fifo'[a] = Append(fifo[a], self[p])
<1> DEFINE a == AgentFor(self[p].at)
<1>1. fifo \in [Agents -> Seq(Status)] /\ self[p] \in Status
  BY DEF IInv, TypeOK
<1>2. fifo' = Send(fifo, a, self[p])
  BY DEF WriteFifo
<1> HIDE DEF a
<1>3. \A c \in Agents : Append(fifo[c], self[p]) \in Seq(Status)
  BY <1>1
<1>4. fifo' = [fifo EXCEPT ![a] = Append(fifo[a], self[p])]
  BY <1>2 DEF Send
<1>5. CASE a \in Agents
  BY <1>1, <1>3, <1>4, <1>5
<1>6. CASE a \notin Agents
  BY <1>1, <1>4, <1>6
<1> QED  BY <1>5, <1>6

LEMMA PlayerType ==
  ASSUME IInv, NEW p \in Players, Player(p)
  PROVE  TypeOK'
<1>0. TypeOK /\ p \in Nodes
  BY DEF IInv, Nodes
<1>1. CASE ReadFile(p)
  BY <1>0, <1>1, ReadFileFacts, EnterType DEF ReadFile, TypeOK, Points
<1>2. CASE OpenToRead(p)
  <2>1. pc' \in [Nodes -> Points]
    BY <1>0, <1>2, Goes DEF OpenToRead, Points
  <2> QED  BY <1>0, <1>2, <2>1 DEF OpenToRead, TypeOK, Points
<1>3. CASE ReadFifo(p)
  BY <1>0, <1>3, ReadFifoFacts, EnterType DEF ReadFifo, TypeOK, Points
<1>4. CASE Continue(p)
  <2>1. PICK t \in Status : self' = [self EXCEPT ![p] = t] /\ up' = Send(up, p, t)
    BY <1>4, ContinueFacts
  <2>2. up' \in [Nodes -> Seq(Status)]
    BY <1>0, <2>1, Pipes DEF TypeOK
  <2>3. down' \in [Nodes -> Seq(Status)]
    BY <1>4, ReadFacts DEF Continue
  <2> QED  BY <1>0, <1>4, <2>1, <2>2, <2>3 DEF Continue, TypeOK
<1>5. CASE Retire(p)
  <2>1. pc' \in [Nodes -> Points]
    BY <1>0, <1>5, Goes DEF Retire, Points
  <2>2. down' \in [Nodes -> Seq(Status)] /\ Head(down[p]) \in Status
    BY <1>5, ReadFacts DEF Retire
  <2> QED  BY <1>0, <1>5, <2>1, <2>2 DEF Retire, TypeOK, Points
<1>6. CASE Lose(p)
  <2>1. pc' \in [Nodes -> Points]
    BY <1>0, <1>6, Goes DEF Lose, Points
  <2>2. down' \in [Nodes -> Seq(Status)] /\ Head(down[p]) \in Status /\ original[p] \in Nat
    BY <1>6, ReadFacts DEF Lose
  <2>3. Revived(Head(down[p]), original[p]) \in Status
    BY <2>2, RevivedType
  <2> QED  BY <1>0, <1>6, <2>1, <2>2, <2>3 DEF Lose, TypeOK, Points
<1>7. CASE WriteFifo(p)
  <2>1. pc' \in [Nodes -> Points]
    BY <1>0, <1>7, Goes DEF WriteFifo, Points
  <2>2. fifo' \in [Agents -> Seq(Status)]
    BY <1>7, WriteFifoFacts
  <2> QED  BY <1>0, <1>7, <2>1, <2>2 DEF WriteFifo, TypeOK, Points
<1> QED  BY <1>1, <1>2, <1>3, <1>4, <1>5, <1>6, <1>7 DEF Player

-----------------------------------------------------------------------------
(* Edges.                                                                  *)

LEMMA EdgeFrame ==
  ASSUME NEW b, NEW n, Edge(b, n), up'[n] = up[n], down'[n] = down[n],
         Waits(n)' <=> Waits(n), Gone(n)' <=> Gone(n),
         pc'[n] = "unborn" <=> pc[n] = "unborn",
         Holds(b, n)' <=> Holds(b, n), Finished(b, n)' <=> Finished(b, n),
         pc'[b] \in {"unborn", "start"} <=> pc[b] \in {"unborn", "start"}
  PROVE  Edge(b, n)'
BY DEF Edge

\* Only the child's state changes.
LEMMA EdgeBelow ==
  ASSUME NEW b, NEW n, Edge(b, n), up'[n] = up[n], down'[n] = down[n],
         pc'[b] = pc[b], attacker'[b] = attacker[b],
         Waits(n)' <=> Waits(n), Gone(n)' <=> Gone(n),
         pc'[n] = "unborn" <=> pc[n] = "unborn"
  PROVE  Edge(b, n)'
<1>1. (Holds(b, n)' <=> Holds(b, n)) /\ (Finished(b, n)' <=> Finished(b, n))
  BY DEF Holds, Finished, DoneWith, Winner
<1> QED  BY <1>1, EdgeFrame

\* Only the battle's state changes.
LEMMA EdgeAbove ==
  ASSUME NEW b, NEW n, Edge(b, n), up'[n] = up[n], down'[n] = down[n], pc'[n] = pc[n],
         Holds(b, n)' <=> Holds(b, n), Finished(b, n)' <=> Finished(b, n),
         pc'[b] \in {"unborn", "start"} <=> pc[b] \in {"unborn", "start"}
  PROVE  Edge(b, n)'
<1>1. (Waits(n)' <=> Waits(n)) /\ (Gone(n)' <=> Gone(n))
  BY DEF Waits, Gone
<1> QED  BY <1>1, EdgeFrame

\* A step of process x, which is not a fork, disturbs the edges at x only.
LEMMA EdgesElsewhere ==
  ASSUME IInv, NEW x \in Nodes, NEW below \in SUBSET Nodes,
         \A m \in Nodes \ {x} : pc'[m] = pc[m],
         \A m \in Nodes \ (below \cup {x}) : up'[m] = up[m] /\ down'[m] = down[m],
         \A c \in Battles \ {x} : attacker'[c] = attacker[c],
         \A c \in Battles \ {x} : below \cap Kids(c) = {},
         \A c \in Battles : \A n \in Kids(c) : c = x \/ n = x => Edge(c, n)'
  PROVE  EdgesOK'
<1> SUFFICES ASSUME NEW c \in Battles, NEW n \in Kids(c), c # x, n # x
             PROVE  Edge(c, n)'
  BY DEF EdgesOK
<1>1. c \in Nodes /\ n \in Nodes /\ n \notin below /\ Edge(c, n)
  BY TreeFacts DEF IInv, EdgesOK
<1>2. (Waits(n)' <=> Waits(n)) /\ (Gone(n)' <=> Gone(n))
  BY <1>1 DEF Waits, Gone
<1> QED  BY <1>1, <1>2, EdgeBelow

LEMMA ForkEdges ==
  ASSUME IInv, NEW b \in Battles, Fork(b)
  PROVE  EdgesOK'
<1> SUFFICES ASSUME NEW c \in Battles, NEW n \in Kids(c)
             PROVE  Edge(c, n)'
  BY DEF EdgesOK
<1>1. /\ pc[b] = "start" /\ pc'[b] = "first"
      /\ \A m \in Kids(b) : pc[m] = "unborn" /\ pc'[m] = "start"
      /\ \A m \in Nodes : m # b /\ m \notin Kids(b) => pc'[m] = pc[m]
      /\ up' = up /\ down' = down /\ attacker' = attacker
  BY TreeFacts DEF Fork, IInv, EdgesOK, Edge
<1>2. Edge(c, n) /\ c \in Nodes /\ n \in Nodes
  BY TreeFacts DEF IInv, EdgesOK
<1>3. CASE c = b
  <2>1. pc'[b] = "first" /\ pc'[n] = "start" /\ pc[n] = "unborn" /\ pc[b] = "start"
    BY <1>1, <1>3
  <2>2. up[n] = <<>> /\ down[n] = <<>>
    BY <1>2, <1>3, <2>1 DEF Edge, Waits
  <2> QED
    BY <1>1, <1>2, <1>3, <2>1, <2>2 DEF Edge, Waits, Gone, Holds, Finished, DoneWith
<1>4. CASE n = b
  <2>1. c \notin Kids(b) /\ c # b
    BY <1>1, <1>2, <1>4, TreeFacts DEF Edge
  <2>2. pc'[c] = pc[c]
    BY <1>1, <1>2, <2>1
  <2> QED  BY <1>1, <1>2, <1>4, <2>2, EdgeBelow DEF Waits, Gone
<1>5. CASE c # b /\ n # b
  <2>1. n \notin Kids(b)
    BY <1>5, TreeFacts
  <2>2. pc'[n] = pc[n]
    BY <1>1, <1>2, <1>5, <2>1
  <2>3. CASE c \in Kids(b)
    <3>1. pc[c] = "unborn" /\ pc'[c] = "start"
      BY <1>1, <2>3
    <3> QED  BY <1>1, <1>2, <2>2, <3>1, EdgeAbove DEF Holds, Finished, DoneWith
  <2>4. CASE c \notin Kids(b)
    <3>1. pc'[c] = pc[c]
      BY <1>1, <1>2, <1>5, <2>4
    <3> QED  BY <1>1, <1>2, <2>2, <3>1, EdgeBelow DEF Waits, Gone
  <2> QED  BY <2>3, <2>4
<1> QED  BY <1>3, <1>4, <1>5

LEMMA BattleEdges ==
  ASSUME IInv, NEW b \in Battles,
         \A m \in Nodes \ {b} : pc'[m] = pc[m],
         \A m \in Nodes \ (Kids(b) \cup {b}) : up'[m] = up[m] /\ down'[m] = down[m],
         \A c \in Battles \ {b} : attacker'[c] = attacker[c],
         \A n \in Kids(b) : Edge(b, n)',
         \A c \in Battles : b \in Kids(c) => Edge(c, b)'
  PROVE  EdgesOK'
<1>1. b \in Nodes /\ Kids(b) \in SUBSET Nodes
  BY TreeFacts
<1>2. \A c \in Battles \ {b} : Kids(b) \cap Kids(c) = {}
  BY TreeAssumption
<1>3. \A c \in Battles : \A n \in Kids(c) : c = b \/ n = b => Edge(c, n)'
  OBVIOUS
<1> QED  BY <1>1, <1>2, <1>3, EdgesElsewhere

\* What holds around a battle.
LEMMA Around ==
  ASSUME IInv, NEW b \in Battles
  PROVE  /\ \A n \in Kids(b) : n \in Nodes /\ n # b /\ Edge(b, n)
         /\ \A c \in Battles : b \in Kids(c) => c \in Nodes /\ c # b /\ Edge(c, b) /\ b # A
BY TreeFacts DEF IInv, EdgesOK

LEMMA OtherPipes ==
  ASSUME NEW pipes \in [Nodes -> Seq(Status)], NEW n \in Nodes
  PROVE  \A m \in Nodes \ {n} : /\ Taken(pipes, n)[m] = pipes[m]
                                /\ \A s : Send(pipes, n, s)[m] = pipes[m]
BY DEF Taken, Send

LEMMA TakenLast ==
  ASSUME NEW pipes \in [Nodes -> Seq(Status)], NEW n \in Nodes,
         pipes[n] # <<>>, Len(pipes[n]) <= 1
  PROVE  /\ Taken(pipes, n) \in [Nodes -> Seq(Status)] /\ Taken(pipes, n)[n] = <<>>
         /\ Head(pipes[n]) \in Status
         /\ \A m \in Nodes \ {n} : Taken(pipes, n)[m] = pipes[m]
<1>1. Tail(pipes[n]) = <<>> /\ Head(pipes[n]) \in Status
  OBVIOUS
<1>2. Taken(pipes, n) = [pipes EXCEPT ![n] = Tail(pipes[n])]
  BY DEF Taken
<1>3. <<>> \in Seq(Status)
  OBVIOUS
<1> QED  BY <1>1, <1>2, <1>3

\* What is taken from a pipe of a battle leaves it empty.
LEMMA TakenOne ==
  ASSUME IInv, NEW b \in Battles, NEW n \in Kids(b)
  PROVE  /\ up[n] # <<>> => /\ Taken(up, n) \in [Nodes -> Seq(Status)] /\ Taken(up, n)[n] = <<>>
                            /\ Head(up[n]) \in Status /\ Alive(Head(up[n]))
                            /\ \A m \in Nodes \ {n} : Taken(up, n)[m] = up[m]
         /\ down[n] # <<>> => /\ Taken(down, n) \in [Nodes -> Seq(Status)] /\ Taken(down, n)[n] = <<>>
                              /\ Head(down[n]) \in Status /\ Told(Head(down[n]))
                              /\ \A m \in Nodes \ {n} : Taken(down, n)[m] = down[m]
<1>1. n \in Nodes /\ Len(up[n]) <= 1 /\ Len(down[n]) <= 1
  BY Around DEF Edge
<1>2. up \in [Nodes -> Seq(Status)] /\ down \in [Nodes -> Seq(Status)]
  BY DEF IInv, TypeOK
<1>3. /\ up[n] # <<>> => Alive(Head(up[n]))
      /\ down[n] # <<>> => Told(Head(down[n]))
  BY <1>1 DEF IInv, StatusOK
<1> QED  BY <1>1, <1>2, <1>3, TakenLast

\* What is sent through an empty pipe is the only message in it.
LEMMA SentOne ==
  ASSUME NEW pipes \in [Nodes -> Seq(Status)], NEW n \in Nodes, pipes[n] = <<>>, NEW s \in Status
  PROVE  /\ Send(pipes, n, s) \in [Nodes -> Seq(Status)]
         /\ Send(pipes, n, s)[n] # <<>> /\ Len(Send(pipes, n, s)[n]) = 1
         /\ Head(Send(pipes, n, s)[n]) = s
         /\ \A m \in Nodes \ {n} : Send(pipes, n, s)[m] = pipes[m]
<1>1. Send(pipes, n, s)[n] = Append(<<>>, s)
  BY DEF Send
<1>2. Append(<<>>, s) # <<>> /\ Len(Append(<<>>, s)) = 1 /\ Head(Append(<<>>, s)) = s
  OBVIOUS
<1> QED  BY <1>1, <1>2, Pipes

LEMMA ReadFirstEdges ==
  ASSUME IInv, NEW b \in Battles, ReadFirst(b)
  PROVE  EdgesOK'
<1> DEFINE n == Children[b][1]
<1>1. /\ pc[b] = "first" /\ up[n] # <<>> /\ up' = Taken(up, n) /\ Goto(b, "second")
      /\ attacker' = attacker /\ down' = down
  BY DEF ReadFirst
<1>2. /\ n \in Nodes /\ n \in Kids(b) /\ b \in Nodes
      /\ Children[b][2] # n /\ Kids(b) = {n, Children[b][2]}
  BY TreeFacts DEF Kids
<1>3. pc'[b] = "second" /\ \A m \in Nodes \ {b} : pc'[m] = pc[m]
  BY <1>1, <1>2, Goes DEF IInv, Points
<1>4. up'[n] = <<>> /\ \A m \in Nodes \ {n} : up'[m] = up[m]
  BY <1>1, <1>2, TakenOne
<1> HIDE DEF n
<1>5. ASSUME NEW m \in Kids(b) PROVE Edge(b, m)'
  <2>1. Edge(b, m) /\ pc'[m] = pc[m]
    BY <1>3, Around
  <2>2. CASE m = n
    BY <1>1, <1>3, <1>4, <2>1, <2>2 DEF Edge, Waits, Gone, Holds, Finished, DoneWith, n
  <2>3. CASE m # n
    <3>1. up'[m] = up[m] /\ down'[m] = down[m]
      BY <1>1, <1>4, <2>3, Around
    <3> QED  BY <1>1, <1>3, <2>1, <2>3, <3>1, EdgeAbove DEF Holds, Finished, DoneWith, n
  <2> QED  BY <2>2, <2>3
<1>6. ASSUME NEW c \in Battles, b \in Kids(c) PROVE Edge(c, b)'
  BY <1>1, <1>2, <1>3, <1>4, <1>6, Around, EdgeBelow DEF Waits, Gone
<1> QED  BY <1>1, <1>2, <1>3, <1>4, <1>5, <1>6, BattleEdges

LEMMA ReapEdges ==
  ASSUME IInv, NEW b \in Battles, Reap(b)
  PROVE  EdgesOK'
<1>1. /\ pc[b] = "reap" /\ Goto(b, IF b = A THEN "last" ELSE "pass")
      /\ attacker' = attacker /\ down' = down /\ up' = up
  BY DEF Reap
<1>2. b \in Nodes
  BY TreeFacts
<1>3. /\ pc'[b] = IF b = A THEN "last" ELSE "pass"
      /\ \A m \in Nodes \ {b} : pc'[m] = pc[m]
  BY <1>1, <1>2, Goes DEF IInv, Points
<1>4. ASSUME NEW m \in Kids(b) PROVE Edge(b, m)'
  <2>1. Edge(b, m) /\ pc'[m] = pc[m]
    BY <1>3, Around
  <2>2. (Holds(b, m)' <=> Holds(b, m)) /\ (Finished(b, m)' <=> Finished(b, m))
    BY <1>1, <1>3 DEF Holds, Finished, DoneWith, Winner
  <2> QED  BY <1>1, <1>3, <2>1, <2>2, EdgeAbove
<1>5. ASSUME NEW c \in Battles, b \in Kids(c) PROVE Edge(c, b)'
  BY <1>1, <1>2, <1>3, <1>5, Around, EdgeBelow DEF Waits, Gone
<1> QED  BY <1>1, <1>3, <1>4, <1>5, BattleEdges

LEMMA FinishEdges ==
  ASSUME IInv, NEW b \in Battles, Finish(b)
  PROVE  EdgesOK'
<1>1. /\ pc[b] = "last" /\ Goto(b, "exited")
      /\ attacker' = attacker /\ down' = down /\ up' = up
  BY DEF Finish
<1>2. b \in Nodes
  BY TreeFacts
<1>3. pc'[b] = "exited" /\ \A m \in Nodes \ {b} : pc'[m] = pc[m]
  BY <1>1, <1>2, Goes DEF IInv, Points
<1>4. ASSUME NEW m \in Kids(b) PROVE Edge(b, m)'
  <2>1. Edge(b, m) /\ pc'[m] = pc[m]
    BY <1>3, Around
  <2>2. (Holds(b, m)' <=> Holds(b, m)) /\ (Finished(b, m)' <=> Finished(b, m))
    BY <1>1, <1>3 DEF Holds, Finished, DoneWith, Winner
  <2> QED  BY <1>1, <1>3, <2>1, <2>2, EdgeAbove
<1>5. ASSUME NEW c \in Battles, b \in Kids(c) PROVE Edge(c, b)'
  BY <1>1, <1>2, <1>3, <1>5, Around, EdgeBelow DEF Waits, Gone
<1> QED  BY <1>1, <1>3, <1>4, <1>5, BattleEdges

\* The pipe holds one message, s.
Holding(q, s) == q # <<>> /\ Len(q) = 1 /\ Head(q) = s

\* The effect of a round: both children wait for what b sends them.
Played(b, s, k) ==
  LET m == Children[b][1]
      n == Children[b][2] IN
  /\ Fought(b, s, k) /\ s[1] \in Status /\ s[2] \in Status
  /\ Waits(m) /\ Waits(n)
  /\ seat' = [seat EXCEPT ![b] = s] /\ attacker'[b] = k
  /\ \A c \in Battles \ {b} : attacker'[c] = attacker[c]
  /\ pc'[b] = IF s[1].ended THEN "reap" ELSE "first"
  /\ \A x \in Nodes \ {b} : pc'[x] = pc[x]
  /\ up'[m] = <<>> /\ up'[n] = <<>> /\ \A x \in Nodes \ {m, n} : up'[x] = up[x]
  /\ Holding(down'[m], s[1]) /\ Holding(down'[n], s[2])
  /\ \A x \in Nodes \ {m, n} : down'[x] = down[x]

LEMMA PlayEffect ==
  ASSUME IInv, NEW b \in Battles, Play(b)
  PROVE  \E s, k : /\ Played(b, s, k)
                  /\ s[1].id = seat[b][1].id /\ s[2].id = Head(up[Children[b][2]]).id
<1> DEFINE m == Children[b][1]
           n == Children[b][2]
<1>1. pc[b] = "second" /\ up[n] # <<>>
  BY DEF Play
<1>2. PICK s, k :
           /\ Fought(b, s, k)
           /\ s[1].id = seat[b][1].id /\ s[2].id = Head(up[n]).id
           /\ seat' = [seat EXCEPT ![b] = s] /\ attacker' = [attacker EXCEPT ![b] = k]
           /\ down' = Send(Send(down, m, s[1]), n, s[2])
           /\ Goto(b, IF s[1].ended THEN "reap" ELSE "first")
           /\ up' = Taken(up, n)
  BY PlayFacts
<1>3. /\ m \in Kids(b) /\ n \in Kids(b) /\ m # n
      /\ m \in Nodes /\ n \in Nodes /\ b \in Nodes
  BY TreeFacts DEF Kids
<1>4. /\ pc'[b] = IF s[1].ended THEN "reap" ELSE "first"
      /\ \A x \in Nodes \ {b} : pc'[x] = pc[x]
  BY <1>2, <1>3, Goes DEF IInv, Points
<1>5. Edge(b, m) /\ Edge(b, n) /\ Holds(b, m)
  BY <1>1, <1>3, Around DEF Holds
<1>6. up[m] = <<>> /\ down[m] = <<>> /\ down[n] = <<>> /\ Waits(m) /\ Waits(n)
  BY <1>1, <1>5 DEF Edge
<1>7. up'[n] = <<>> /\ \A x \in Nodes \ {n} : up'[x] = up[x]
  BY <1>1, <1>2, <1>3, TakenOne
<1>8. s[1] \in Status /\ s[2] \in Status /\ k \in {1, 2} /\ attacker'[b] = k
      /\ \A c \in Battles \ {b} : attacker'[c] = attacker[c]
  BY <1>2 DEF Fought, IInv, TypeOK
<1>9. /\ Holding(down'[m], s[1]) /\ Holding(down'[n], s[2])
      /\ \A x \in Nodes \ {m, n} : down'[x] = down[x]
  <2> DEFINE d == Send(down, m, s[1])
  <2>1. down \in [Nodes -> Seq(Status)]
    BY DEF IInv, TypeOK
  <2>2. /\ d \in [Nodes -> Seq(Status)] /\ Holding(d[m], s[1])
        /\ \A x \in Nodes \ {m} : d[x] = down[x]
    BY <1>3, <1>6, <1>8, <2>1, SentOne DEF Holding
  <2> HIDE DEF d
  <2>3. /\ Holding(Send(d, n, s[2])[n], s[2])
        /\ \A x \in Nodes \ {n} : Send(d, n, s[2])[x] = d[x]
    BY <1>3, <1>6, <1>8, <2>2, SentOne DEF Holding
  <2> QED  BY <1>2, <1>3, <2>2, <2>3 DEF d
<1>10. up'[m] = <<>> /\ \A x \in Nodes \ {m, n} : up'[x] = up[x]
  BY <1>3, <1>6, <1>7
<1>11. Played(b, s, k)
  BY <1>2, <1>4, <1>6, <1>7, <1>8, <1>9, <1>10 DEF Played
<1> QED  BY <1>2, <1>11

LEMMA PlayEdges ==
  ASSUME IInv, NEW b \in Battles, Play(b)
  PROVE  EdgesOK'
<1> DEFINE m == Children[b][1]
           n == Children[b][2]
<1>1. PICK s, k : Played(b, s, k)
  BY PlayEffect
<1>2. k \in {1, 2} /\ pc[b] = "second"
  BY <1>1 DEF Played, Fought, Play
<1>3. /\ m \in Kids(b) /\ n \in Kids(b) /\ m # n /\ Kids(b) = {m, n}
      /\ m \in Nodes /\ n \in Nodes /\ b \in Nodes /\ m # b /\ n # b
  BY TreeFacts DEF Kids
<1>4. ASSUME NEW i \in {1, 2} PROVE Leaves(s[i]) <=> Finished(b, Children[b][i])'
  <2>0. /\ attacker'[b] = k /\ pc'[b] = IF s[1].ended THEN "reap" ELSE "first"
        /\ Fought(b, s, k)
    BY <1>1 DEF Played
  <2>1. s[i] \in Status /\ s[i].at = b /\ s[i].ended = s[1].ended /\ s[1].ended \in BOOLEAN
    BY <1>1 DEF Played, Fought, Status
  <2>2. CASE s[1].ended
    <3>1. i # k => i = Other(k)
      BY <1>2 DEF Other
    <3>2. i = k <=> ~(s[i].hp <= 0)
      BY <1>2, <2>0, <2>1, <2>2, <3>1 DEF Fought, Status
    <3>3. i = k <=> Children[b][i] = Children[b][k]
      BY <1>2, <1>3
    <3>4. Finished(b, Children[b][i])' <=> (i # k \/ b = A)
      BY <2>0, <2>2, <3>3 DEF Finished, DoneWith, Winner
    <3> QED  BY <2>1, <2>2, <3>2, <3>4 DEF Leaves
  <2>3. CASE ~s[1].ended
    <3>1. s[i].hp > 0 /\ s[i].hp \in Int
      BY <2>0, <2>1, <2>3 DEF Fought, Status
    <3>2. ~Leaves(s[i])
      BY <2>1, <2>3, <3>1 DEF Leaves
    <3> QED  BY <2>0, <2>3, <3>2 DEF Finished, DoneWith
  <2> QED  BY <2>2, <2>3
<1>5. ASSUME NEW x \in Kids(b) PROVE Edge(b, x)'
  <2>1. /\ up'[x] = <<>> /\ down'[x] # <<>> /\ Len(down'[x]) = 1
        /\ Leaves(Head(down'[x])) <=> Finished(b, x)'
    BY <1>1, <1>3, <1>4 DEF Played, Holding
  <2>2. Waits(x)' /\ ~Gone(x)' /\ pc'[x] # "unborn"
    BY <1>1, <1>3 DEF Played, Waits, Gone
  <2>3. ~Holds(b, x)' /\ pc'[b] \notin {"unborn", "start"}
    BY <1>1 DEF Played, Holds
  <2>4. Len(<<>>) = 0
    OBVIOUS
  <2> QED  BY <2>1, <2>2, <2>3, <2>4 DEF Edge
<1>6. ASSUME NEW c \in Battles, b \in Kids(c) PROVE Edge(c, b)'
  <2>1. c # b /\ c \in Nodes /\ Edge(c, b)
    BY <1>6, Around
  <2>2. up'[b] = up[b] /\ down'[b] = down[b] /\ pc'[c] = pc[c] /\ attacker'[c] = attacker[c]
    BY <1>1, <1>3, <2>1 DEF Played
  <2>3. (Waits(b)' <=> Waits(b)) /\ (Gone(b)' <=> Gone(b)) /\ pc'[b] # "unborn" /\ pc[b] # "unborn"
    BY <1>1, <1>2 DEF Played, Waits, Gone
  <2> QED  BY <2>1, <2>2, <2>3, EdgeBelow
<1>7. /\ \A x \in Nodes \ {b} : pc'[x] = pc[x]
      /\ \A c \in Battles \ {b} : attacker'[c] = attacker[c]
      /\ \A x \in Nodes \ (Kids(b) \cup {b}) : up'[x] = up[x] /\ down'[x] = down[x]
  BY <1>1, <1>3 DEF Played
<1> QED  BY <1>5, <1>6, <1>7, BattleEdges

LEMMA PassUpEdges ==
  ASSUME IInv, NEW b \in Battles, PassUp(b)
  PROVE  EdgesOK'
<1> DEFINE w == Winner(b)
           s == Head(up[w])
           u == Taken(up, w)
<1>1. /\ pc[b] = "pass" /\ up[w] # <<>> /\ up' = Send(u, b, s) /\ Goto(b, "back")
      /\ attacker' = attacker /\ down' = down
  BY DEF PassUp
<1>2. /\ w \in Kids(b) /\ w \in Nodes /\ b \in Nodes /\ w # b /\ b # A
      /\ \A m \in Kids(b) : m \in Nodes /\ m # b
  BY <1>1, SeatFacts, TreeFacts DEF IInv, ReapedOK, Buried
<1>3. pc'[b] = "back" /\ \A m \in Nodes \ {b} : pc'[m] = pc[m]
  BY <1>1, <1>2, Goes DEF IInv, Points
<1>4. /\ u \in [Nodes -> Seq(Status)] /\ u[w] = <<>> /\ s \in Status
      /\ \A m \in Nodes \ {w} : u[m] = up[m]
  BY <1>1, <1>2, TakenOne
<1>5. \E c \in Battles : b \in Kids(c)
  BY <1>1, <1>2 DEF IInv, BornOK
<1>6. ASSUME NEW c \in Battles, b \in Kids(c)
      PROVE  /\ c \in Nodes /\ c # b /\ Edge(c, b) /\ up[b] = <<>> /\ down[b] = <<>>
             /\ ~Holds(c, b) /\ ~Finished(c, b)
  <2>1. c \in Nodes /\ c # b /\ Edge(c, b)
    BY <1>6, Around
  <2>2. ~Waits(b) /\ ~Gone(b)
    BY <1>1, <1>2, NodesAssumption DEF Waits, Gone, Players
  <2> QED  BY <2>1, <2>2 DEF Edge
<1>7. /\ up'[b] # <<>> /\ Len(up'[b]) = 1 /\ \A m \in Nodes \ {b} : up'[m] = u[m]
  <2>1. u[b] = <<>>
    BY <1>2, <1>4, <1>5, <1>6
  <2> HIDE DEF u, s
  <2> QED  BY <1>1, <1>2, <1>4, <2>1, SentOne
<1> HIDE DEF u, s
<1>8. ASSUME NEW m \in Kids(b) PROVE Edge(b, m)'
  <2>1. Edge(b, m) /\ pc'[m] = pc[m] /\ m # b /\ down'[m] = down[m]
    BY <1>1, <1>2, <1>3, Around
  <2>2. CASE m = w
    <3>1. Waits(m) /\ down[m] = <<>> /\ ~Gone(m) /\ ~Finished(b, m)
      BY <1>1, <1>2, <2>1, <2>2 DEF Edge, Finished, DoneWith
    <3>2. up'[m] = <<>>
      BY <1>2, <1>4, <1>7, <2>2
    <3>3. Holds(b, m)' /\ ~Finished(b, m)'
      BY <1>1, <1>2, <1>3, <2>2 DEF Holds, Finished, DoneWith, Winner
    <3>4. Waits(m)' /\ ~Gone(m)' /\ pc'[m] # "unborn"
      BY <2>1, <3>1 DEF Waits, Gone
    <3>5. Len(<<>>) = 0
      OBVIOUS
    <3> QED  BY <1>3, <2>1, <3>1, <3>2, <3>3, <3>4, <3>5 DEF Edge
  <2>3. CASE m # w
    <3>1. up'[m] = up[m]
      BY <1>2, <1>4, <1>7, <2>3
    <3>2. (Holds(b, m)' <=> Holds(b, m)) /\ (Finished(b, m)' <=> Finished(b, m))
      BY <1>1, <1>3, <2>3 DEF Holds, Finished, DoneWith, Winner
    <3> QED  BY <1>1, <1>3, <2>1, <3>1, <3>2, EdgeAbove
  <2> QED  BY <2>2, <2>3
<1>9. ASSUME NEW c \in Battles, b \in Kids(c) PROVE Edge(c, b)'
  <2>1. /\ c \in Nodes /\ c # b /\ Edge(c, b) /\ up[b] = <<>> /\ down[b] = <<>>
        /\ ~Holds(c, b) /\ ~Finished(c, b)
    BY <1>6, <1>9
  <2>2. pc'[c] = pc[c] /\ attacker' = attacker /\ down'[b] = <<>>
    BY <1>1, <1>3, <2>1
  <2>3. ~Holds(c, b)' /\ ~Finished(c, b)'
    BY <2>1, <2>2 DEF Holds, Finished, DoneWith, Winner
  <2>4. Waits(b)' /\ ~Gone(b)' /\ pc'[b] # "unborn" /\ pc[b] # "unborn"
    BY <1>1, <1>2, <1>3, NodesAssumption DEF Waits, Gone, Players
  <2>5. Len(<<>>) = 0
    OBVIOUS
  <2> QED  BY <1>7, <2>1, <2>2, <2>3, <2>4, <2>5 DEF Edge
<1>10. \A x \in Nodes \ (Kids(b) \cup {b}) : up'[x] = up[x] /\ down'[x] = down[x]
  BY <1>1, <1>2, <1>4, <1>7
<1> QED  BY <1>1, <1>3, <1>8, <1>9, <1>10, BattleEdges

LEMMA PassDownEdges ==
  ASSUME IInv, NEW b \in Battles, PassDown(b)
  PROVE  EdgesOK'
<1> DEFINE w == Winner(b)
           s == Head(down[b])
           d == Taken(down, b)
<1>1. /\ pc[b] = "back" /\ down[b] # <<>> /\ down' = Send(d, w, s)
      /\ Goto(b, IF Leaves(s) THEN "last" ELSE "pass")
      /\ attacker' = attacker /\ up' = up
  BY DEF PassDown
<1>2. /\ w \in Kids(b) /\ w \in Nodes /\ b \in Nodes /\ w # b /\ b # A
      /\ \A m \in Kids(b) : m \in Nodes /\ m # b
  BY <1>1, SeatFacts, TreeFacts DEF IInv, ReapedOK, Buried
<1>3. /\ pc'[b] = IF Leaves(s) THEN "last" ELSE "pass"
      /\ \A m \in Nodes \ {b} : pc'[m] = pc[m]
  BY <1>1, <1>2, Goes DEF IInv, Points
<1>4. \E c \in Battles : b \in Kids(c)
  BY <1>1, <1>2 DEF IInv, BornOK
<1>5. /\ d \in [Nodes -> Seq(Status)] /\ d[b] = <<>> /\ s \in Status
      /\ \A m \in Nodes \ {b} : d[m] = down[m]
  BY <1>1, <1>4, TakenOne
<1> HIDE DEF d, s
<1>6. Edge(b, w) /\ Holds(b, w) /\ up[w] = <<>> /\ down[w] = <<>> /\ Waits(w)
  BY <1>1, <1>2, Around DEF Edge, Holds
<1>7. /\ down'[w] # <<>> /\ Len(down'[w]) = 1 /\ Head(down'[w]) = s
      /\ \A m \in Nodes \ {w} : down'[m] = d[m]
  <2>1. d[w] = <<>>
    BY <1>2, <1>5, <1>6
  <2> QED  BY <1>1, <1>2, <1>5, <2>1, SentOne
<1>8. ASSUME NEW m \in Kids(b) PROVE Edge(b, m)'
  <2>1. Edge(b, m) /\ pc'[m] = pc[m] /\ m # b /\ up'[m] = up[m]
    BY <1>1, <1>2, <1>3, Around
  <2>2. CASE m = w
    <3>1. ~Holds(b, m)' /\ (Finished(b, m)' <=> Leaves(s))
      BY <1>1, <1>2, <1>3, <2>2 DEF Holds, Finished, DoneWith, Winner
    <3>2. Waits(m)' /\ ~Gone(m)' /\ pc'[m] # "unborn"
      BY <1>6, <2>1, <2>2 DEF Waits, Gone
    <3>3. Len(<<>>) = 0
      OBVIOUS
    <3>4. pc'[b] \notin {"unborn", "start"}
      BY <1>3
    <3>5. /\ up'[m] = <<>> /\ down'[m] # <<>> /\ Len(down'[m]) = 1
          /\ Leaves(Head(down'[m])) <=> Finished(b, m)'
      BY <1>6, <1>7, <2>1, <2>2, <3>1
    <3> QED  BY <3>1, <3>2, <3>3, <3>4, <3>5 DEF Edge
  <2>3. CASE m # w
    <3>1. down'[m] = down[m]
      BY <1>2, <1>5, <1>7, <2>3
    <3>2. (Holds(b, m)' <=> Holds(b, m)) /\ (Finished(b, m)' <=> Finished(b, m))
      BY <1>1, <1>3, <2>3 DEF Holds, Finished, DoneWith, Winner
    <3> QED  BY <1>1, <1>3, <2>1, <3>1, <3>2, EdgeAbove
  <2> QED  BY <2>2, <2>3
<1>9. ASSUME NEW c \in Battles, b \in Kids(c) PROVE Edge(c, b)'
  <2>1. c \in Nodes /\ c # b /\ Edge(c, b)
    BY <1>9, Around
  <2>2. up[b] = <<>> /\ ~Holds(c, b) /\ (Leaves(s) <=> Finished(c, b))
    BY <1>1, <2>1 DEF Edge, s
  <2>3. pc'[c] = pc[c] /\ attacker' = attacker /\ up'[b] = <<>> /\ down'[b] = <<>>
    BY <1>1, <1>2, <1>3, <1>5, <1>7, <2>1, <2>2
  <2>4. ~Holds(c, b)' /\ (Leaves(s) <=> Finished(c, b)')
    BY <2>2, <2>3 DEF Holds, Finished, DoneWith, Winner
  <2>5. ~Waits(b)' /\ (Gone(b)' <=> Leaves(s)) /\ pc'[b] # "unborn" /\ pc[b] # "unborn"
    BY <1>1, <1>3 DEF Waits, Gone
  <2>6. Len(<<>>) = 0
    OBVIOUS
  <2> QED  BY <2>1, <2>3, <2>4, <2>5, <2>6 DEF Edge
<1>10. \A x \in Nodes \ (Kids(b) \cup {b}) : up'[x] = up[x] /\ down'[x] = down[x]
  BY <1>1, <1>2, <1>5, <1>7
<1> QED  BY <1>1, <1>3, <1>8, <1>9, <1>10, BattleEdges

\* A step of player p disturbs the edge above p only.
LEMMA PlayerEdges ==
  ASSUME IInv, NEW p \in Players, attacker' = attacker,
         \A m \in Nodes \ {p} : pc'[m] = pc[m] /\ up'[m] = up[m] /\ down'[m] = down[m],
         \A c \in Battles : p \in Kids(c) /\ Edge(c, p) /\ pc'[c] = pc[c] => Edge(c, p)'
  PROVE  EdgesOK'
<1>1. p \in Nodes /\ p \notin Battles
  BY NodesAssumption DEF Nodes
<1>2. ASSUME NEW c \in Battles, NEW n \in Kids(c), c = p \/ n = p PROVE Edge(c, n)'
  <2>1. c # p /\ n = p /\ c \in Nodes
    BY <1>1, <1>2, TreeFacts
  <2> QED  BY <2>1 DEF IInv, EdgesOK
<1>3. \A c \in Battles \ {p} : {} \cap Kids(c) = {}
  OBVIOUS
<1>4. \A m \in Nodes \ ({} \cup {p}) : up'[m] = up[m] /\ down'[m] = down[m]
  OBVIOUS
<1> QED  BY <1>1, <1>2, <1>3, <1>4, EdgesElsewhere

LEMMA EnterEdges ==
  ASSUME IInv, NEW p \in Players, pc[p] \in {"start", "open"}, ~Gone(p),
         NEW s \in Status, Enter(p, s), attacker' = attacker, down' = down
  PROVE  EdgesOK'
<1>1. p \in Nodes /\ Goto(p, "read") /\ up' = Send(up, p, s)
  BY DEF Nodes, Enter
<1>2. pc'[p] = "read" /\ \A m \in Nodes \ {p} : pc'[m] = pc[m]
  BY <1>1, Goes DEF IInv, Points
<1>3. up \in [Nodes -> Seq(Status)]
  BY DEF IInv, TypeOK
<1>4. \A m \in Nodes \ {p} : up'[m] = up[m]
  BY <1>1, <1>3, OtherPipes
<1>5. ASSUME NEW c \in Battles, p \in Kids(c), Edge(c, p), pc'[c] = pc[c]
      PROVE  Edge(c, p)'
  <2>1. up[p] = <<>> /\ down[p] = <<>> /\ ~Holds(c, p) /\ ~Finished(c, p)
    BY <1>5 DEF Edge, Waits
  <2>2. up'[p] # <<>> /\ Len(up'[p]) = 1
    BY <1>1, <1>3, <2>1, SentOne
  <2>3. ~Holds(c, p)' /\ ~Finished(c, p)'
    BY <1>5, <2>1 DEF Holds, Finished, DoneWith, Winner
  <2>4. Waits(p)' /\ ~Gone(p)' /\ pc'[p] # "unborn" /\ pc[p] # "unborn"
    BY <1>2 DEF Waits, Gone
  <2>5. Len(<<>>) = 0
    OBVIOUS
  <2> QED  BY <1>5, <2>1, <2>2, <2>3, <2>4, <2>5 DEF Edge
<1> QED  BY <1>2, <1>4, <1>5, PlayerEdges

\* p has read the end of its part in the battle above it.
LEMMA LeaveEdges ==
  ASSUME IInv, NEW p \in Players, pc[p] = "read", down[p] # <<>>, Leaves(Head(down[p])),
         NEW where \in {"exited", "open"}, where = "open" => p \in Real, Goto(p, where),
         down' = Taken(down, p), up' = up, attacker' = attacker
  PROVE  EdgesOK'
<1>1. p \in Nodes
  BY DEF Nodes
<1>2. pc'[p] = where /\ \A m \in Nodes \ {p} : pc'[m] = pc[m]
  BY <1>1, Goes DEF IInv, Points
<1>3. \A m \in Nodes \ {p} : down'[m] = down[m]
  BY <1>1, OtherPipes DEF IInv, TypeOK
<1>4. ASSUME NEW c \in Battles, p \in Kids(c), Edge(c, p), pc'[c] = pc[c]
      PROVE  Edge(c, p)'
  <2>1. up[p] = <<>> /\ ~Holds(c, p) /\ Finished(c, p)
    BY <1>4 DEF Edge
  <2>2. down'[p] = <<>>
    BY <1>4, TakenOne
  <2>3. ~Holds(c, p)' /\ Finished(c, p)'
    BY <1>4, <2>1 DEF Holds, Finished, DoneWith, Winner
  <2>4. ~Waits(p)' /\ Gone(p)' /\ pc'[p] # "unborn" /\ pc[p] # "unborn"
    BY <1>2 DEF Waits, Gone
  <2>5. Len(<<>>) = 0
    OBVIOUS
  <2> QED  BY <1>4, <2>1, <2>2, <2>3, <2>4, <2>5 DEF Edge
<1>5. \A m \in Nodes \ {p} : pc'[m] = pc[m] /\ up'[m] = up[m] /\ down'[m] = down[m]
  BY <1>2, <1>3
<1>6. \A c \in Battles : p \in Kids(c) /\ Edge(c, p) /\ pc'[c] = pc[c] => Edge(c, p)'
  BY <1>4
<1> QED  BY <1>5, <1>6, PlayerEdges

LEMMA ContinueEdges ==
  ASSUME IInv, NEW p \in Players, Continue(p)
  PROVE  EdgesOK'
<1>1. pc[p] = "read" /\ down[p] # <<>> /\ down' = Taken(down, p) /\ pc' = pc /\ attacker' = attacker
  BY DEF Continue
<1>2. PICK t \in Status : ~Leaves(Head(down[p])) /\ up' = Send(up, p, t)
  BY ContinueFacts
<1>3. p \in Nodes /\ up \in [Nodes -> Seq(Status)] /\ down \in [Nodes -> Seq(Status)]
  BY DEF Nodes, IInv, TypeOK
<1>4. \A m \in Nodes \ {p} : up'[m] = up[m] /\ down'[m] = down[m]
  BY <1>1, <1>2, <1>3, OtherPipes
<1>5. ASSUME NEW c \in Battles, p \in Kids(c), Edge(c, p) PROVE Edge(c, p)'
  <2>1. up[p] = <<>> /\ ~Holds(c, p) /\ ~Finished(c, p)
    BY <1>1, <1>2, <1>5 DEF Edge
  <2>2. down'[p] = <<>>
    BY <1>1, <1>5, TakenOne
  <2>6. up'[p] # <<>> /\ Len(up'[p]) = 1
    BY <1>2, <1>3, <2>1, SentOne
  <2>3. ~Holds(c, p)' /\ ~Finished(c, p)'
    BY <1>1, <2>1 DEF Holds, Finished, DoneWith, Winner
  <2>4. Waits(p)' /\ ~Gone(p)'
    BY <1>1 DEF Waits, Gone
  <2>5. Len(<<>>) = 0
    OBVIOUS
  <2> QED  BY <1>1, <1>5, <2>1, <2>2, <2>3, <2>4, <2>5, <2>6 DEF Edge
<1> QED  BY <1>1, <1>4, <1>5, PlayerEdges

LEMMA StillEdges ==
  ASSUME IInv, NEW p \in Players, OpenToRead(p) \/ WriteFifo(p)
  PROVE  EdgesOK'
<1>1. p \in Nodes /\ attacker' = attacker /\ up' = up /\ down' = down
  BY DEF Nodes, OpenToRead, WriteFifo
<1>2. /\ \A m \in Nodes \ {p} : pc'[m] = pc[m]
      /\ OpenToRead(p) => p \in Agents /\ pc[p] = "start" /\ pc'[p] = "open"
      /\ WriteFifo(p) => p \in Real /\ pc[p] = "open" /\ pc'[p] = "exited"
  BY <1>1, Goes DEF OpenToRead, WriteFifo, IInv, Points
<1>3. (Waits(p)' <=> Waits(p)) /\ (Gone(p)' <=> Gone(p)) /\ pc'[p] # "unborn" /\ pc[p] # "unborn"
  BY <1>2, NodesAssumption DEF Waits, Gone
<1>4. ASSUME NEW c \in Battles, p \in Kids(c), Edge(c, p), pc'[c] = pc[c] PROVE Edge(c, p)'
  BY <1>1, <1>3, <1>4, EdgeBelow
<1> QED  BY <1>1, <1>2, <1>4, PlayerEdges

LEMMA NextEdges ==
  ASSUME IInv, Next
  PROVE  EdgesOK'
<1>1. ASSUME NEW b \in Battles, Battle(b) PROVE EdgesOK'
  BY <1>1, ForkEdges, ReadFirstEdges, PlayEdges, ReapEdges, PassUpEdges, PassDownEdges,
     FinishEdges DEF Battle
<1>2. ASSUME NEW p \in Players, Player(p) PROVE EdgesOK'
  <2>1. CASE ReadFile(p)
    <3>1. PICK s \in Status : Enter(p, s)
      BY <2>1, ReadFileFacts
    <3>2. pc[p] = "start" /\ ~Gone(p) /\ attacker' = attacker /\ down' = down
      BY <2>1 DEF ReadFile, Gone
    <3> QED  BY <3>1, <3>2, EnterEdges
  <2>2. CASE ReadFifo(p)
    <3>1. Head(fifo[p]) \in Status /\ Enter(p, Head(fifo[p]))
      BY <2>2, ReadFifoFacts
    <3>2. pc[p] = "open" /\ ~Gone(p) /\ attacker' = attacker /\ down' = down
      BY <2>2, NodesAssumption DEF ReadFifo, Gone
    <3> QED  BY <3>1, <3>2, EnterEdges
  <2>3. CASE Retire(p)
    <3>1. /\ pc[p] = "read" /\ down[p] # <<>> /\ Leaves(Head(down[p]))
          /\ Goto(p, "exited") /\ down' = Taken(down, p) /\ up' = up /\ attacker' = attacker
      BY <2>3 DEF Retire, Leaves
    <3> QED  BY <3>1, LeaveEdges
  <2>4. CASE Lose(p)
    <3>1. /\ pc[p] = "read" /\ down[p] # <<>> /\ Leaves(Head(down[p])) /\ p \in Real
          /\ Goto(p, "open") /\ down' = Taken(down, p) /\ up' = up /\ attacker' = attacker
      BY <2>4 DEF Lose, Leaves
    <3> QED  BY <3>1, LeaveEdges
  <2> QED  BY <1>2, <2>1, <2>2, <2>3, <2>4, ContinueEdges, StillEdges DEF Player
<1>3. CASE Terminating
  <2>1. pc' = pc /\ up' = up /\ down' = down /\ attacker' = attacker
    BY <1>3 DEF Terminating, vars
  <2> QED
    BY <2>1 DEF IInv, EdgesOK, Edge, Waits, Holds, Finished, Gone, DoneWith, Winner
<1> QED  BY <1>1, <1>2, <1>3 DEF Next

-----------------------------------------------------------------------------
(* Statuses.                                                               *)

\* A pipe holds what it held, or nothing, or a message of who is alive (or told).
UpAlive(n)  == up'[n] # <<>> => up'[n] = up[n] \/ Alive(Head(up'[n]))
DownTold(n) == down'[n] # <<>> => down'[n] = down[n] \/ Told(Head(down'[n]))

LEMMA BattleStatus ==
  ASSUME IInv, NEW b \in Battles, \A m \in Nodes \ {b} : pc'[m] = pc[m],
         UNCHANGED <<fifo, self, original>>,
         \A c \in Battles \ {b} : seat'[c] = seat[c] /\ attacker'[c] = attacker[c],
         \A n \in Nodes : UpAlive(n) /\ DownTold(n),
         pc'[b] = "second" => Alive(seat'[b][1]),
         Decided(b)' => seat'[b][attacker'[b]].id \in Real
  PROVE  StatusOK'
<1>1. \A n \in Nodes : /\ up'[n] # <<>> => Alive(Head(up'[n]))
                       /\ down'[n] # <<>> => Told(Head(down'[n]))
  BY DEF UpAlive, DownTold, IInv, StatusOK
<1>2. ASSUME NEW c \in Battles
      PROVE  /\ pc'[c] = "second" => Alive(seat'[c][1])
             /\ Decided(c)' => seat'[c][attacker'[c]].id \in Real
  <2>1. CASE c = b
    BY <2>1
  <2>2. CASE c # b
    <3>1. pc'[c] = pc[c] /\ seat'[c] = seat[c] /\ attacker'[c] = attacker[c]
      BY <2>2, TreeFacts
    <3> QED  BY <3>1 DEF IInv, StatusOK, Decided
  <2> QED  BY <2>1, <2>2
<1>3. \A a \in Agents : \A i \in DOMAIN fifo'[a] : Alive(fifo'[a][i])
  BY DEF IInv, StatusOK
<1>4. ASSUME NEW p \in Players
      PROVE  /\ pc'[p] = "read" => original'[p] > 0
             /\ pc'[p] = "open" /\ p \in Real => Alive(self'[p])
  <2>1. pc'[p] = pc[p]
    BY NodesAssumption DEF Nodes
  <2> QED  BY <2>1 DEF IInv, StatusOK
<1> QED  BY <1>1, <1>2, <1>3, <1>4 DEF StatusOK

LEMMA PlayerStatus ==
  ASSUME IInv, NEW p \in Players, \A m \in Nodes \ {p} : pc'[m] = pc[m],
         UNCHANGED <<seat, attacker>>,
         \A q \in Players \ {p} : self'[q] = self[q] /\ original'[q] = original[q],
         \A n \in Nodes : UpAlive(n) /\ DownTold(n),
         \A a \in Agents : \A i \in DOMAIN fifo'[a] : Alive(fifo'[a][i]),
         pc'[p] = "read" => original'[p] > 0,
         pc'[p] = "open" /\ p \in Real => Alive(self'[p])
  PROVE  StatusOK'
<1>1. \A n \in Nodes : /\ up'[n] # <<>> => Alive(Head(up'[n]))
                       /\ down'[n] # <<>> => Told(Head(down'[n]))
  BY DEF UpAlive, DownTold, IInv, StatusOK
<1>2. ASSUME NEW c \in Battles
      PROVE  /\ pc'[c] = "second" => Alive(seat'[c][1])
             /\ Decided(c)' => seat'[c][attacker'[c]].id \in Real
  <2>1. pc'[c] = pc[c]
    BY NodesAssumption DEF Nodes
  <2> QED  BY <2>1 DEF IInv, StatusOK, Decided
<1>3. ASSUME NEW q \in Players
      PROVE  /\ pc'[q] = "read" => original'[q] > 0
             /\ pc'[q] = "open" /\ q \in Real => Alive(self'[q])
  <2>1. CASE q = p
    BY <2>1
  <2>2. CASE q # p
    BY <2>2 DEF IInv, StatusOK, Nodes
  <2> QED  BY <2>1, <2>2
<1> QED  BY <1>1, <1>2, <1>3 DEF StatusOK

LEMMA ForkStatus ==
  ASSUME IInv, NEW b \in Battles, Fork(b)
  PROVE  StatusOK'
<1>1. UNCHANGED <<seat, attacker, self, original, up, down, fifo>>
  BY DEF Fork
<1>2. \A n \in Nodes : pc'[n] = pc[n] \/ pc'[n] \in {"start", "first"}
  BY DEF Fork
<1>3. Battles \subseteq Nodes /\ Players \subseteq Nodes
  BY DEF Nodes
<1>4. \A c \in Battles : (pc'[c] = "second" => pc[c] = "second") /\ (Decided(c)' => Decided(c))
  BY <1>2, <1>3 DEF Decided
<1>5. \A p \in Players : (pc'[p] = "read" => pc[p] = "read") /\ (pc'[p] = "open" => pc[p] = "open")
  BY <1>2, <1>3
<1> QED  BY <1>1, <1>4, <1>5 DEF IInv, StatusOK

\* b seats s.
Seated(b, k, s) == seat' = [seat EXCEPT ![b][k] = s]

LEMMA SeatsElsewhere ==
  ASSUME IInv, NEW b \in Battles, NEW k \in {1, 2}, NEW s \in Status, Seated(b, k, s)
  PROVE  /\ seat'[b][k] = s
         /\ \A c \in Battles \ {b} : seat'[c] = seat[c]
<1>1. seat[b] \in Status \X Status /\ seat \in [Battles -> Status \X Status]
  BY DEF IInv, TypeOK
<1>2. seat' = [seat EXCEPT ![b] = [seat[b] EXCEPT ![k] = s]]
  BY DEF Seated
<1>3. [seat[b] EXCEPT ![k] = s][k] = s
  BY <1>1, SeatUpdate
<1> QED  BY <1>1, <1>2, <1>3

LEMMA BattleStatusStep ==
  ASSUME IInv, NEW b \in Battles, Battle(b)
  PROVE  StatusOK'
<1>0. b \in Nodes /\ TypeOK /\ attacker[b] \in {1, 2}
  BY TreeFacts, SeatFacts DEF IInv
<1>1. CASE Fork(b)
  BY <1>1, ForkStatus
<1>2. CASE ReadFirst(b)
  <2> DEFINE n == Children[b][1]
  <2>1. /\ up[n] # <<>> /\ up' = Taken(up, n) /\ Goto(b, "second") /\ n \in Kids(b)
        /\ Seated(b, 1, Head(up[n]))
        /\ UNCHANGED <<attacker, self, original, down, fifo>>
    BY <1>2, TreeFacts DEF ReadFirst, Seated
  <2>2. pc'[b] = "second" /\ \A m \in Nodes \ {b} : pc'[m] = pc[m]
    BY <1>0, <2>1, Goes DEF Points
  <2>3. /\ up'[n] = <<>> /\ Head(up[n]) \in Status /\ Alive(Head(up[n]))
        /\ \A m \in Nodes \ {n} : up'[m] = up[m]
    BY <2>1, TakenOne
  <2>4. seat'[b][1] = Head(up[n]) /\ \A c \in Battles \ {b} : seat'[c] = seat[c]
    BY <2>1, <2>3, SeatsElsewhere
  <2> HIDE DEF n
  <2>5. \A m \in Nodes : UpAlive(m) /\ DownTold(m)
    BY <2>1, <2>3 DEF UpAlive, DownTold
  <2>6. ~Decided(b)'
    BY <2>2 DEF Decided
  <2> QED  BY <2>1, <2>2, <2>3, <2>4, <2>5, <2>6, BattleStatus
<1>3. CASE Play(b)
  <2>1. PICK s, k : Played(b, s, k)
    BY <1>3, PlayEffect
  <2>2. UNCHANGED <<fifo, self, original>>
    BY <1>3 DEF Play
  <2>3. /\ seat'[b] = s /\ \A c \in Battles \ {b} : seat'[c] = seat[c]
        /\ attacker'[b] \in {1, 2} /\ s[1].id \in Real /\ s[2].id \in Real
    BY <1>0, <2>1 DEF Played, Fought, TypeOK
  <2>4. Told(s[1]) /\ Told(s[2])
    BY <2>1 DEF Played, Fought, Told
  <2>5. ASSUME NEW m \in Nodes PROVE UpAlive(m) /\ DownTold(m)
    BY <2>1, <2>4 DEF Played, Holding, UpAlive, DownTold
  <2>6. /\ pc'[b] # "second" /\ \A m \in Nodes \ {b} : pc'[m] = pc[m]
        /\ \A c \in Battles \ {b} : attacker'[c] = attacker[c]
    BY <2>1 DEF Played
  <2> QED  BY <2>2, <2>3, <2>5, <2>6, BattleStatus
<1>4. CASE Reap(b)
  <2>1. /\ Goto(b, IF b = A THEN "last" ELSE "pass")
        /\ UNCHANGED <<seat, attacker, self, original, up, down, fifo>>
    BY <1>4 DEF Reap
  <2>2. pc'[b] \in {"last", "pass"} /\ \A m \in Nodes \ {b} : pc'[m] = pc[m]
    BY <1>0, <2>1, Goes DEF Points
  <2>3. seat[b][attacker[b]].id \in Real
    BY <1>4 DEF Reap, IInv, StatusOK, Decided
  <2>4. \A m \in Nodes : UpAlive(m) /\ DownTold(m)
    BY <2>1 DEF UpAlive, DownTold
  <2> QED  BY <2>1, <2>2, <2>3, <2>4, BattleStatus
<1>5. CASE PassUp(b)
  <2> DEFINE w == Winner(b)
             s == Head(up[w])
             u == Taken(up, w)
  <2>1. /\ up[w] # <<>> /\ up' = Send(u, b, s) /\ Goto(b, "back") /\ w \in Kids(b) /\ w # b
        /\ Seated(b, attacker[b], s)
        /\ UNCHANGED <<attacker, self, original, down, fifo>>
    BY <1>0, <1>5, TreeFacts, SeatFacts DEF PassUp, Seated
  <2>2. pc'[b] = "back" /\ \A m \in Nodes \ {b} : pc'[m] = pc[m]
    BY <1>0, <2>1, Goes DEF Points
  <2>3. /\ u \in [Nodes -> Seq(Status)] /\ u[w] = <<>> /\ s \in Status /\ Alive(s)
        /\ \A m \in Nodes \ {w} : u[m] = up[m]
    BY <2>1, TakenOne
  <2> HIDE DEF u, s
  <2>4. seat'[b][attacker[b]] = s /\ \A c \in Battles \ {b} : seat'[c] = seat[c]
    BY <1>0, <2>1, <2>3, SeatsElsewhere
  <2>5. ~Waits(b)
    BY <1>5, NodesAssumption DEF PassUp, Waits, Players
  <2>6. u[b] = <<>>
    <3>1. \E c \in Battles : b \in Kids(c)
      BY <1>0, <1>5 DEF PassUp, IInv, BornOK, ReapedOK, Buried
    <3>2. up[b] = <<>>
      BY <2>5, <3>1, Around DEF Edge
    <3> QED  BY <1>0, <2>1, <2>3, <3>2
  <2>7. Head(up'[b]) = s /\ \A m \in Nodes \ {b} : up'[m] = u[m]
    BY <1>0, <2>1, <2>3, <2>6, SentOne
  <2>8. ASSUME NEW m \in Nodes PROVE UpAlive(m) /\ DownTold(m)
    BY <2>1, <2>3, <2>7 DEF UpAlive, DownTold
  <2>9. Alive(s) => s.id \in Real
    BY DEF Alive
  <2> QED  BY <2>1, <2>2, <2>3, <2>4, <2>8, <2>9, BattleStatus
<1>6. CASE PassDown(b)
  <2> DEFINE w == Winner(b)
             s == Head(down[b])
             d == Taken(down, b)
  <2>1. /\ pc[b] = "back" /\ down[b] # <<>> /\ down' = Send(d, w, s)
        /\ Goto(b, IF Leaves(s) THEN "last" ELSE "pass") /\ w \in Kids(b) /\ w \in Nodes /\ w # b
        /\ Seated(b, attacker[b], s)
        /\ UNCHANGED <<attacker, self, original, up, fifo>>
    BY <1>0, <1>6, TreeFacts, SeatFacts DEF PassDown, Seated
  <2>2. pc'[b] \in {"last", "pass"} /\ \A m \in Nodes \ {b} : pc'[m] = pc[m]
    BY <1>0, <2>1, Goes DEF Points
  <2>3. /\ d \in [Nodes -> Seq(Status)] /\ d[b] = <<>> /\ s \in Status /\ Told(s)
        /\ \A m \in Nodes \ {b} : d[m] = down[m]
    <3>1. \E c \in Battles : b \in Kids(c)
      BY <1>0, <2>1 DEF IInv, BornOK, ReapedOK, Buried
    <3> QED  BY <2>1, <3>1, TakenOne
  <2> HIDE DEF d, s
  <2>4. seat'[b][attacker[b]] = s /\ \A c \in Battles \ {b} : seat'[c] = seat[c]
    BY <1>0, <2>1, <2>3, SeatsElsewhere
  <2>5. d[w] = <<>>
    <3>1. Edge(b, w) /\ Holds(b, w)
      BY <2>1, Around DEF Holds
    <3> QED  BY <2>1, <2>3, <3>1 DEF Edge
  <2>6. Head(down'[w]) = s /\ \A m \in Nodes \ {w} : down'[m] = d[m]
    BY <2>1, <2>3, <2>5, SentOne
  <2>7. ASSUME NEW m \in Nodes PROVE UpAlive(m) /\ DownTold(m)
    BY <2>1, <2>3, <2>6 DEF UpAlive, DownTold
  <2>8. Told(s) => s.id \in Real
    BY DEF Told
  <2> QED  BY <2>1, <2>2, <2>3, <2>4, <2>7, <2>8, BattleStatus
<1>7. CASE Finish(b)
  <2>1. Goto(b, "exited") /\ UNCHANGED <<seat, attacker, self, original, up, down, fifo>>
    BY <1>7 DEF Finish
  <2>2. pc'[b] = "exited" /\ \A m \in Nodes \ {b} : pc'[m] = pc[m]
    BY <1>0, <2>1, Goes DEF Points
  <2>3. seat[b][attacker[b]].id \in Real
    BY <1>7 DEF Finish, IInv, StatusOK, Decided
  <2>4. \A m \in Nodes : UpAlive(m) /\ DownTold(m)
    BY <2>1 DEF UpAlive, DownTold
  <2> QED  BY <2>1, <2>2, <2>3, <2>4, BattleStatus
<1> QED  BY <1>1, <1>2, <1>3, <1>4, <1>5, <1>6, <1>7 DEF Battle

LEMMA PlayerStatusStep ==
  ASSUME IInv, NEW p \in Players, Player(p)
  PROVE  StatusOK'
<1>0. /\ p \in Nodes /\ TypeOK /\ up \in [Nodes -> Seq(Status)] /\ down \in [Nodes -> Seq(Status)]
      /\ \A a \in Agents : \A i \in DOMAIN fifo[a] : Alive(fifo[a][i])
      /\ pc[p] # "unborn" => \E c \in Battles : p \in Kids(c)
  BY NodesAssumption DEF Nodes, IInv, TypeOK, StatusOK, BornOK
<1>1. \A s \in Status : Enter(p, s) /\ Alive(s) =>
        /\ pc'[p] = "read" /\ \A m \in Nodes \ {p} : pc'[m] = pc[m]
        /\ \A q \in Players \ {p} : self'[q] = self[q] /\ original'[q] = original[q]
        /\ original'[p] > 0
  <2> SUFFICES ASSUME NEW s \in Status, Enter(p, s), Alive(s)
               PROVE  /\ pc'[p] = "read" /\ \A m \in Nodes \ {p} : pc'[m] = pc[m]
                      /\ \A q \in Players \ {p} : self'[q] = self[q] /\ original'[q] = original[q]
                      /\ original'[p] > 0
    OBVIOUS
  <2>1. Goto(p, "read") /\ s.hp > 0
    BY DEF Enter, Alive
  <2>2. pc'[p] = "read" /\ \A m \in Nodes \ {p} : pc'[m] = pc[m]
    BY <1>0, <2>1, Goes DEF Points
  <2> QED  BY <1>0, <2>1, <2>2 DEF Enter, TypeOK
<1>2. ASSUME NEW s \in Status, Alive(s), up' = Send(up, p, s), pc[p] # "unborn",
             \A c \in Battles : p \in Kids(c) => up[p] = <<>>
      PROVE  \A m \in Nodes : UpAlive(m)
  <2>1. up[p] = <<>>
    BY <1>0, <1>2
  <2>2. Head(Send(up, p, s)[p]) = s /\ \A m \in Nodes \ {p} : Send(up, p, s)[m] = up[m]
    BY <1>0, <2>1, SentOne
  <2> QED  BY <1>2, <2>2 DEF UpAlive
<1>3. ASSUME down' = Taken(down, p), down[p] # <<>>, pc[p] = "read"
      PROVE  \A m \in Nodes : DownTold(m)
  <2>1. PICK c \in Battles : p \in Kids(c)
    BY <1>0, <1>3
  <2>2. down'[p] = <<>> /\ \A m \in Nodes \ {p} : down'[m] = down[m]
    BY <1>3, <2>1, TakenOne
  <2> QED  BY <2>2 DEF DownTold
<1>4. CASE ReadFile(p)
  <2>1. PICK s \in Status : Alive(s) /\ Enter(p, s)
    BY <1>4, ReadFileFacts
  <2>2. pc[p] = "start" /\ UNCHANGED <<seat, attacker, down, fifo>> /\ up' = Send(up, p, s)
    BY <1>4, <2>1 DEF ReadFile, Enter
  <2>3. \A c \in Battles : p \in Kids(c) => up[p] = <<>>
    BY <2>2, Around, <1>0 DEF IInv, EdgesOK, Edge, Waits
  <2>4. \A m \in Nodes : UpAlive(m) /\ DownTold(m)
    BY <1>2, <2>1, <2>2, <2>3 DEF DownTold
  <2> QED  BY <1>0, <1>1, <2>1, <2>2, <2>4, PlayerStatus
<1>5. CASE OpenToRead(p)
  <2>1. /\ Goto(p, "open") /\ p \in Agents /\ p \notin Real
        /\ UNCHANGED <<seat, attacker, self, original, up, down, fifo>>
    BY <1>5, NodesAssumption DEF OpenToRead
  <2>2. pc'[p] = "open" /\ \A m \in Nodes \ {p} : pc'[m] = pc[m]
    BY <1>0, <2>1, Goes DEF Points
  <2>3. \A m \in Nodes : UpAlive(m) /\ DownTold(m)
    BY <2>1 DEF UpAlive, DownTold
  <2> QED  BY <1>0, <2>1, <2>2, <2>3, PlayerStatus
<1>6. CASE ReadFifo(p)
  <2> DEFINE s == Head(fifo[p])
  <2>1. /\ s \in Status /\ Alive(s) /\ Enter(p, s)
        /\ \A a \in Agents : fifo'[a] = IF a = p THEN Tail(fifo[a]) ELSE fifo[a]
    BY <1>6, ReadFifoFacts
  <2>2. /\ pc[p] = "open" /\ p \in Agents /\ fifo[p] # <<>> /\ UNCHANGED <<seat, attacker, down>>
        /\ up' = Send(up, p, s)
    BY <1>6 DEF ReadFifo, Enter
  <2>3. \A c \in Battles : p \in Kids(c) => up[p] = <<>>
    BY <2>2, <1>0 DEF IInv, EdgesOK, Edge, Waits
  <2> HIDE DEF s
  <2>4. \A m \in Nodes : UpAlive(m) /\ DownTold(m)
    BY <1>2, <2>1, <2>2, <2>3 DEF DownTold
  <2>5. \A a \in Agents : \A i \in DOMAIN fifo'[a] : Alive(fifo'[a][i])
    <3>1. fifo[p] \in Seq(Status)
      BY <1>0, <2>2 DEF TypeOK
    <3>2. ASSUME NEW i \in DOMAIN Tail(fifo[p]) PROVE Alive(Tail(fifo[p])[i])
      <4>1. i + 1 \in DOMAIN fifo[p] /\ Tail(fifo[p])[i] = fifo[p][i + 1]
        BY <2>2, <3>1
      <4> QED  BY <1>0, <2>2, <4>1
    <3> QED  BY <1>0, <2>1, <3>2
  <2> QED  BY <1>0, <1>1, <2>1, <2>2, <2>4, <2>5, PlayerStatus
<1>7. CASE Continue(p)
  <2>1. PICK t \in Status :
          Alive(t) /\ self' = [self EXCEPT ![p] = t] /\ up' = Send(up, p, t)
    BY <1>7, ContinueFacts
  <2>2. /\ pc[p] = "read" /\ down[p] # <<>> /\ down' = Taken(down, p)
        /\ UNCHANGED <<pc, seat, attacker, original, fifo>>
    BY <1>7 DEF Continue
  <2>3. \A c \in Battles : p \in Kids(c) => up[p] = <<>>
    BY <2>2, <1>0 DEF IInv, EdgesOK, Edge
  <2>4. \A m \in Nodes : UpAlive(m) /\ DownTold(m)
    BY <1>2, <1>3, <2>1, <2>2, <2>3
  <2>5. \A q \in Players \ {p} : self'[q] = self[q]
    BY <1>0, <2>1 DEF TypeOK
  <2>6. original[p] > 0
    BY <2>2 DEF IInv, StatusOK
  <2> QED  BY <1>0, <2>1, <2>2, <2>4, <2>5, <2>6, PlayerStatus
<1>8. CASE Retire(p)
  <2>1. /\ pc[p] = "read" /\ down[p] # <<>> /\ down' = Taken(down, p) /\ Goto(p, "exited")
        /\ self' = [self EXCEPT ![p] = Head(down[p])]
        /\ UNCHANGED <<seat, attacker, original, up, fifo>>
    BY <1>8 DEF Retire
  <2>2. pc'[p] = "exited" /\ \A m \in Nodes \ {p} : pc'[m] = pc[m]
    BY <1>0, <2>1, Goes DEF Points
  <2>3. \A m \in Nodes : UpAlive(m) /\ DownTold(m)
    BY <1>3, <2>1 DEF UpAlive
  <2>4. \A q \in Players \ {p} : self'[q] = self[q]
    BY <1>0, <2>1 DEF TypeOK
  <2> QED  BY <1>0, <2>1, <2>2, <2>3, <2>4, PlayerStatus
<1>9. CASE Lose(p)
  <2> DEFINE t == Revived(Head(down[p]), original[p])
  <2>1. /\ pc[p] = "read" /\ down[p] # <<>> /\ down' = Taken(down, p) /\ Goto(p, "open")
        /\ self' = [self EXCEPT ![p] = t]
        /\ UNCHANGED <<seat, attacker, original, up, fifo>>
    BY <1>9 DEF Lose
  <2>2. pc'[p] = "open" /\ \A m \in Nodes \ {p} : pc'[m] = pc[m]
    BY <1>0, <2>1, Goes DEF Points
  <2>3. \A m \in Nodes : UpAlive(m) /\ DownTold(m)
    BY <1>3, <2>1 DEF UpAlive
  <2>4. Alive(t)
    <3>1. /\ Head(down[p]) \in Status /\ Told(Head(down[p]))
          /\ original[p] \in Nat /\ original[p] > 0
      BY <2>1, ReadFacts
    <3> QED  BY <3>1, RevivedType DEF Told
  <2> HIDE DEF t
  <2>5. self'[p] = t /\ \A q \in Players \ {p} : self'[q] = self[q]
    BY <1>0, <2>1 DEF TypeOK
  <2> QED  BY <1>0, <2>1, <2>2, <2>3, <2>4, <2>5, PlayerStatus
<1>10. CASE WriteFifo(p)
  <2>1. /\ p \in Real /\ pc[p] = "open" /\ Goto(p, "exited")
        /\ UNCHANGED <<seat, attacker, self, original, up, down>>
    BY <1>10 DEF WriteFifo
  <2>2. pc'[p] = "exited" /\ \A m \in Nodes \ {p} : pc'[m] = pc[m]
    BY <1>0, <2>1, Goes DEF Points
  <2>3. \A m \in Nodes : UpAlive(m) /\ DownTold(m)
    BY <2>1 DEF UpAlive, DownTold
  <2>4. Alive(self[p]) /\ self[p] \in Status
    BY <1>0, <2>1 DEF IInv, StatusOK, TypeOK
  <2>5. ASSUME NEW a \in Agents, NEW i \in DOMAIN fifo'[a] PROVE Alive(fifo'[a][i])
    <3>1. fifo[a] \in Seq(Status)
      BY <1>0 DEF TypeOK
    <3>2. fifo'[a] = fifo[a] \/ fifo'[a] = Append(fifo[a], self[p])
      BY <1>10, WriteFifoFacts
    <3>3. CASE fifo'[a] = fifo[a]
      BY <1>0, <3>3
    <3>4. CASE fifo'[a] = Append(fifo[a], self[p])
      <4>1. (i \in DOMAIN fifo[a] /\ fifo'[a][i] = fifo[a][i]) \/ fifo'[a][i] = self[p]
        BY <2>4, <3>1, <3>4
      <4> QED  BY <1>0, <2>4, <4>1
    <3> QED  BY <3>2, <3>3, <3>4
  <2> QED  BY <1>0, <2>1, <2>2, <2>3, <2>5, PlayerStatus
<1> QED  BY <1>4, <1>5, <1>6, <1>7, <1>8, <1>9, <1>10 DEF Player

-----------------------------------------------------------------------------
(* Children that are waited for.                                           *)

\* Who has exited stays so, and nothing else of a battle's state matters.
LEMMA BuriedStill ==
  ASSUME TypeOK, NEW c \in Battles, Buried(c),
         pc'[c] = pc[c], reaped'[c] = reaped[c], attacker'[c] = attacker[c],
         \A n \in Kids(c) : pc[n] = "exited" => pc'[n] = "exited"
  PROVE  Buried(c)'
<1>1. Loser(c)' = Loser(c) /\ Loser(c) \in Kids(c)
  BY SeatFacts DEF Loser
<1> QED  BY <1>1 DEF Buried

LEMMA ReapedStill ==
  ASSUME IInv, NEW x \in Nodes, pc[x] # "exited", \A m \in Nodes \ {x} : pc'[m] = pc[m],
         \A c \in Battles \ {x} : reaped'[c] = reaped[c] /\ attacker'[c] = attacker[c],
         x \in Battles => Buried(x)'
  PROVE  ReapedOK'
<1> SUFFICES ASSUME NEW c \in Battles, c # x
             PROVE  Buried(c)'
  BY DEF ReapedOK
<1>1. c \in Nodes /\ Kids(c) \subseteq Nodes /\ pc'[c] = pc[c]
  BY TreeFacts
<1>2. \A n \in Kids(c) : pc[n] = "exited" => pc'[n] = "exited"
  BY <1>1
<1> QED  BY <1>1, <1>2, BuriedStill DEF IInv, ReapedOK

LEMMA BattleReaped ==
  ASSUME IInv, NEW b \in Battles, Battle(b)
  PROVE  ReapedOK'
<1>0. b \in Nodes /\ b \notin Kids(b) /\ Kids(b) \subseteq Nodes /\ TypeOK /\ Buried(b)
  BY TreeFacts DEF IInv, ReapedOK
<1>1. CASE Fork(b)
  <2>1. /\ pc[b] = "start" /\ UNCHANGED <<reaped, attacker>> /\ pc'[b] = "first"
        /\ \A m \in Nodes : m # b /\ m \notin Kids(b) => pc'[m] = pc[m]
        /\ \A m \in Kids(b) : pc[m] = "unborn" /\ pc'[m] = "start"
    BY <1>0, <1>1 DEF Fork, IInv, EdgesOK, Edge
  <2> SUFFICES ASSUME NEW c \in Battles PROVE Buried(c)'
    BY DEF ReapedOK
  <2>2. Buried(c) /\ c \in Nodes /\ Kids(c) \subseteq Nodes
    BY TreeFacts DEF IInv, ReapedOK
  <2>3. CASE c = b \/ c \in Kids(b)
    BY <2>1, <2>2, <2>3 DEF Buried
  <2>4. CASE c # b /\ c \notin Kids(b)
    <3>1. \A n \in Kids(c) : pc[n] = "exited" => pc'[n] = "exited"
      BY <2>1, <2>2
    <3> QED  BY <1>0, <2>1, <2>2, <2>4, <3>1, BuriedStill
  <2> QED  BY <2>3, <2>4
<1>2. CASE ReadFirst(b)
  <2>1. pc[b] = "first" /\ Goto(b, "second") /\ UNCHANGED <<reaped, attacker>>
    BY <1>2 DEF ReadFirst
  <2>2. pc'[b] = "second" /\ \A m \in Nodes \ {b} : pc'[m] = pc[m]
    BY <1>0, <2>1, Goes DEF Points
  <2>3. Buried(b)'
    BY <1>0, <2>1, <2>2 DEF Buried
  <2> QED  BY <1>0, <2>1, <2>2, <2>3, ReapedStill
<1>3. CASE Play(b)
  <2>1. PICK s, k : Played(b, s, k)
    BY <1>3, PlayEffect
  <2>2. pc[b] = "second" /\ reaped' = reaped
    BY <1>3 DEF Play
  <2>3. /\ pc'[b] \in {"reap", "first"} /\ \A m \in Nodes \ {b} : pc'[m] = pc[m]
        /\ \A c \in Battles \ {b} : attacker'[c] = attacker[c]
    BY <2>1 DEF Played
  <2>4. Buried(b)'
    BY <1>0, <2>2, <2>3 DEF Buried
  <2> QED  BY <1>0, <2>2, <2>3, <2>4, ReapedStill
<1>4. CASE Reap(b)
  <2>1. pc[b] = "reap" /\ Goto(b, IF b = A THEN "last" ELSE "pass") /\ attacker' = attacker
    BY <1>4 DEF Reap
  <2>2. PICK n \in Kids(b) : pc[n] = "exited" /\ reaped' = [reaped EXCEPT ![b] = @ \cup {n}]
    BY <1>4 DEF Reap, Wait
  <2>3. /\ pc'[b] = IF b = A THEN "last" ELSE "pass"
        /\ \A m \in Nodes \ {b} : pc'[m] = pc[m]
    BY <1>0, <2>1, Goes DEF Points
  <2>4. reaped'[b] = {n} /\ \A c \in Battles \ {b} : reaped'[c] = reaped[c]
    BY <1>0, <2>1, <2>2 DEF Buried, TypeOK
  <2>5. pc'[n] = "exited"
    BY <1>0, <2>2, <2>3
  <2>6. b # A => n = Loser(b)
    <3>1. Edge(b, n) /\ Gone(n)
      BY <2>2, Around DEF Gone
    <3>2. b # A => n # Winner(b)
      BY <2>1, <3>1 DEF Edge, Finished, DoneWith
    <3> QED  BY <1>0, <3>2, SeatFacts
  <2>7. Loser(b)' = Loser(b)
    BY <2>1 DEF Loser
  <2>8. Buried(b)'
    BY <2>3, <2>4, <2>5, <2>6, <2>7 DEF Buried
  <2> QED  BY <1>0, <2>1, <2>3, <2>4, <2>8, ReapedStill
<1>5. CASE PassUp(b)
  <2>1. pc[b] = "pass" /\ Goto(b, "back") /\ UNCHANGED <<reaped, attacker>>
    BY <1>5 DEF PassUp
  <2>2. pc'[b] = "back" /\ \A m \in Nodes \ {b} : pc'[m] = pc[m]
    BY <1>0, <2>1, Goes DEF Points
  <2>3. Loser(b)' = Loser(b) /\ Loser(b) \in Kids(b)
    BY <1>0, <2>1, SeatFacts DEF Loser
  <2>4. Buried(b)'
    BY <1>0, <2>1, <2>2, <2>3 DEF Buried
  <2> QED  BY <1>0, <2>1, <2>2, <2>4, ReapedStill
<1>6. CASE PassDown(b)
  <2>1. /\ pc[b] = "back" /\ Goto(b, IF Leaves(Head(down[b])) THEN "last" ELSE "pass")
        /\ UNCHANGED <<reaped, attacker>>
    BY <1>6 DEF PassDown
  <2>2. pc'[b] \in {"last", "pass"} /\ \A m \in Nodes \ {b} : pc'[m] = pc[m]
    BY <1>0, <2>1, Goes DEF Points
  <2>3. Loser(b)' = Loser(b) /\ Loser(b) \in Kids(b)
    BY <1>0, <2>1, SeatFacts DEF Loser
  <2>4. Buried(b)'
    BY <1>0, <2>1, <2>2, <2>3 DEF Buried
  <2> QED  BY <1>0, <2>1, <2>2, <2>4, ReapedStill
<1>7. CASE Finish(b)
  <2>1. pc[b] = "last" /\ Goto(b, "exited") /\ attacker' = attacker
    BY <1>7 DEF Finish
  <2>2. PICK n \in Kids(b) \ reaped[b] :
          pc[n] = "exited" /\ reaped' = [reaped EXCEPT ![b] = @ \cup {n}]
    BY <1>7 DEF Finish, Wait
  <2>3. pc'[b] = "exited" /\ \A m \in Nodes \ {b} : pc'[m] = pc[m]
    BY <1>0, <2>1, Goes DEF Points
  <2>4. PICK m \in Kids(b) : reaped[b] = {m} /\ pc[m] = "exited"
    BY <1>0, <2>1 DEF Buried
  <2>5. Kids(b) = {m, n}
    BY <2>2, <2>4, SeatFacts, <1>0
  <2>6. \A x \in Kids(b) : pc'[x] = "exited"
    BY <1>0, <2>2, <2>3, <2>4, <2>5
  <2>7. \A c \in Battles \ {b} : reaped'[c] = reaped[c]
    BY <1>0, <2>2 DEF TypeOK
  <2>8. Buried(b)'
    BY <2>3, <2>6 DEF Buried
  <2> QED  BY <1>0, <2>1, <2>3, <2>7, <2>8, ReapedStill
<1> QED  BY <1>1, <1>2, <1>3, <1>4, <1>5, <1>6, <1>7 DEF Battle

\* A step of a player changes its own state only, and it has not exited before.
LEMMA PlayerMoves ==
  ASSUME IInv, NEW p \in Players, Player(p)
  PROVE  /\ p \in Nodes /\ p \notin Battles /\ UNCHANGED <<reaped, attacker>>
         /\ pc[p] \notin {"unborn", "exited"} /\ pc'[p] \in {"open", "read", "exited"}
         /\ \A m \in Nodes \ {p} : pc'[m] = pc[m]
<1>1. p \in Nodes /\ p \notin Battles /\ TypeOK
  BY NodesAssumption DEF Nodes, IInv
<1>2. /\ UNCHANGED <<reaped, attacker>> /\ pc[p] \notin {"unborn", "exited"}
      /\ \/ Goto(p, "open") \/ Goto(p, "read") \/ Goto(p, "exited")
         \/ pc' = pc /\ pc[p] = "read"
  BY DEF Player, ReadFile, OpenToRead, ReadFifo, Continue, Retire, Lose, WriteFifo, Enter
<1> QED  BY <1>1, <1>2, Goes DEF Points

LEMMA NextReaped ==
  ASSUME IInv, Next
  PROVE  ReapedOK'
<1>1. ASSUME NEW p \in Players, Player(p) PROVE ReapedOK'
  BY <1>1, PlayerMoves, ReapedStill
<1>2. CASE Terminating
  <2>1. pc' = pc /\ reaped' = reaped /\ attacker' = attacker
    BY <1>2 DEF Terminating, vars
  <2> QED  BY <2>1 DEF IInv, ReapedOK, Buried, Loser
<1> QED  BY <1>1, <1>2, BattleReaped DEF Next

-----------------------------------------------------------------------------
(* Processes in states of their own.                                       *)

LEMMA BattleBorn ==
  ASSUME IInv, NEW b \in Battles, Battle(b)
  PROVE  BornOK'
<1>0. b \in Nodes /\ b \notin Players /\ TypeOK /\ Players \subseteq Nodes /\ Battles \subseteq Nodes
  BY TreeFacts DEF IInv, Nodes
<1>1. CASE Fork(b)
  <2>1. /\ pc[b] = "start"
        /\ pc' = [n \in Nodes |-> IF n = b THEN "first" ELSE IF n \in Kids(b) THEN "start" ELSE pc[n]]
    BY <1>1 DEF Fork
  <2>2. \A n \in Nodes : pc'[n] # "unborn" => pc[n] # "unborn" \/ n \in Kids(b)
    BY <2>1
  <2>3. \A n \in Nodes : pc'[n] # "unborn" => n = A \/ \E c \in Battles : n \in Kids(c)
    BY <2>2 DEF IInv, BornOK
  <2>4. \A c \in Battles : pc'[c] \notin {"open", "read"}
    BY <1>0, <2>1 DEF IInv, BornOK
  <2>5. \A p \in Players : pc'[p] \in {"unborn", "start", "open", "read", "exited"}
    BY <1>0, <2>1 DEF IInv, BornOK
  <2> QED  BY <2>3, <2>4, <2>5 DEF BornOK
<1>2. CASE ~Fork(b)
  <2>1. /\ pc[b] # "unborn"
        /\ \/ Goto(b, "first") \/ Goto(b, "second") \/ Goto(b, "reap") \/ Goto(b, "pass")
           \/ Goto(b, "back") \/ Goto(b, "last") \/ Goto(b, "exited")
    BY <1>2 DEF Battle, ReadFirst, Play, Reap, PassUp, PassDown, Finish
  <2>2. /\ pc'[b] \in {"first", "second", "reap", "pass", "back", "last", "exited"}
        /\ \A m \in Nodes \ {b} : pc'[m] = pc[m]
    BY <1>0, <2>1, Goes DEF Points
  <2> QED  BY <1>0, <2>1, <2>2 DEF IInv, BornOK
<1> QED  BY <1>1, <1>2

LEMMA NextBorn ==
  ASSUME IInv, Next
  PROVE  BornOK'
<1>1. ASSUME NEW p \in Players, Player(p) PROVE BornOK'
  <2>1. /\ p \in Nodes /\ p \notin Battles /\ pc[p] # "unborn"
        /\ pc'[p] \in {"open", "read", "exited"} /\ \A m \in Nodes \ {p} : pc'[m] = pc[m]
    BY <1>1, PlayerMoves
  <2>2. Players \subseteq Nodes /\ Battles \subseteq Nodes
    BY DEF Nodes
  <2> QED  BY <2>1, <2>2 DEF IInv, BornOK
<1>2. CASE Terminating
  BY <1>2 DEF Terminating, vars, IInv, BornOK
<1> QED  BY <1>1, <1>2, BattleBorn DEF Next

-----------------------------------------------------------------------------
(* The theorems.                                                           *)

LEMMA InitInv ==
  ASSUME Init
  PROVE  IInv
<1>1. NoStatus \in Status
  BY NodesAssumption DEF NoStatus, Status
<1>2. <<>> \in Seq(Status) /\ Len(<<>>) = 0
  OBVIOUS
<1>3. TypeOK
  BY <1>1, <1>2 DEF Init, TypeOK
<1>4. \A b \in Battles : b \in Nodes /\ Kids(b) \subseteq Nodes \ {A}
  BY TreeFacts
<1>5. EdgesOK
  BY <1>2, <1>4 DEF Init, EdgesOK, Edge, Waits, Holds, Gone, Finished, DoneWith
<1>6. StatusOK
  BY <1>2, NodesAssumption DEF Init, StatusOK, Decided, Nodes
<1>7. ReapedOK
  BY <1>4 DEF Init, ReapedOK, Buried
<1>8. BornOK
  BY NodesAssumption DEF Init, BornOK, Nodes
<1> QED  BY <1>3, <1>5, <1>6, <1>7, <1>8 DEF IInv

LEMMA NextInv ==
  ASSUME IInv, [Next]_vars
  PROVE  IInv'
<1>1. CASE Next
  <2>1. TypeOK'
    <3>1. CASE Terminating
      BY <3>1 DEF Terminating, vars, IInv, TypeOK
    <3> QED  BY <1>1, <3>1, BattleType, PlayerType DEF Next
  <2>2. StatusOK'
    <3>1. CASE Terminating
      BY <3>1 DEF Terminating, vars, IInv, StatusOK, Decided
    <3> QED  BY <1>1, <3>1, BattleStatusStep, PlayerStatusStep DEF Next
  <2> QED  BY <1>1, <2>1, <2>2, NextEdges, NextReaped, NextBorn DEF IInv
<1>2. CASE UNCHANGED vars
  <2>1. TypeOK' /\ StatusOK' /\ BornOK'
    BY <1>2 DEF vars, IInv, TypeOK, StatusOK, Decided, BornOK
  <2>2. EdgesOK' /\ ReapedOK'
    BY <1>2 DEF vars, IInv, EdgesOK, Edge, Waits, Holds, Finished, Gone, DoneWith, Winner,
                ReapedOK, Buried, Loser
  <2> QED  BY <2>1, <2>2 DEF IInv
<1> QED  BY <1>1, <1>2

(* The inductive invariant IInv holds in every reachable state.            *)
THEOREM Invariance == Spec => []IInv
BY InitInv, NextInv, PTL DEF Spec

(* Every variable keeps its type: the champion the root prints is a real   *)
(* player (battle.c 192-195).                                              *)
THEOREM TypeCorrect == Spec => []TypeOK
<1>1. IInv => TypeOK
  BY DEF IInv
<1> QED  BY <1>1, Invariance, PTL

(* Battles and children take turns: never two messages between them, none  *)
(* in a pipe that nobody reads any more (battle.c 129-185, player.c        *)
(* 144-163).                                                               *)
THEOREM Lockstep == Spec => []NothingLost
<1>1. IInv => NothingLost
  <2> SUFFICES ASSUME IInv, NEW b \in Battles, NEW n \in Kids(b)
               PROVE  /\ Len(up[n]) + Len(down[n]) <= 1
                      /\ DoneWith(b, n) => up[n] = <<>>
                      /\ pc[n] \in {"unborn", "start", "open", "exited"} =>
                           up[n] = <<>> /\ down[n] = <<>>
    BY DEF NothingLost
  <2>1. Edge(b, n) /\ n \in Nodes
    BY Around
  <2>2. up[n] \in Seq(Status) /\ down[n] \in Seq(Status) /\ Len(<<>>) = 0
    BY <2>1 DEF IInv, TypeOK
  <2>3. Len(up[n]) + Len(down[n]) <= 1
    <3>1. Len(up[n]) \in Nat /\ Len(down[n]) \in Nat /\ Len(up[n]) <= 1 /\ Len(down[n]) <= 1
      BY <2>1, <2>2 DEF Edge
    <3>2. up[n] = <<>> \/ down[n] = <<>>
      BY <2>1 DEF Edge
    <3>3. Len(up[n]) = 0 \/ Len(down[n]) = 0
      BY <2>2, <3>2
    <3>4. \A i, j \in Nat : i <= 1 /\ j <= 1 /\ (i = 0 \/ j = 0) => i + j <= 1
      OBVIOUS
    <3> QED  BY <3>1, <3>3, <3>4
  <2>4. ASSUME DoneWith(b, n) PROVE up[n] = <<>>
    <3>1. Gone(n) \/ down[n] # <<>>
      BY <2>1, <2>4 DEF Edge, Finished
    <3>2. Gone(n) => ~Waits(n)
      BY DEF Gone, Waits
    <3> QED  BY <2>1, <3>1, <3>2 DEF Edge
  <2>5. ASSUME pc[n] \in {"unborn", "start", "open", "exited"}
        PROVE  up[n] = <<>> /\ down[n] = <<>>
    BY <2>1, <2>5 DEF Edge, Waits
  <2> QED  BY <2>3, <2>4, <2>5
<1> QED  BY <1>1, Invariance, PTL

(* A battle that passes messages has reaped the loser's side and not the   *)
(* winner's, and a battle exits after everybody below it (battle.c 155,    *)
(* 182).                                                                   *)
THEOREM LoserFirst == Spec => []ReapsLoserFirst
<1>1. IInv => ReapsLoserFirst
  <2> SUFFICES ASSUME IInv, NEW b \in Battles
               PROVE  /\ pc[b] = "pass" \/ pc[b] = "back" =>
                           reaped[b] = {Loser(b)} /\ pc[Winner(b)] # "exited"
                      /\ pc[b] = "exited" => \A n \in Kids(b) : pc[n] = "exited"
    BY DEF ReapsLoserFirst
  <2>1. Buried(b)
    BY DEF IInv, ReapedOK
  <2>2. ASSUME pc[b] = "pass" \/ pc[b] = "back" PROVE pc[Winner(b)] # "exited"
    <3>1. Edge(b, Winner(b)) /\ b # A
      BY <2>1, <2>2, Around, SeatFacts DEF Buried, IInv
    <3>2. ~Finished(b, Winner(b))
      BY <2>2, <3>1 DEF Finished, DoneWith
    <3> QED  BY <3>1, <3>2 DEF Edge, Gone
  <2> QED  BY <2>1, <2>2 DEF Buried
<1> QED  BY <1>1, Invariance, PTL

-----------------------------------------------------------------------------
(* The rules of a battle, for any two statuses.                            *)

\* What attack k of battle b makes of the seats s.
Attacked(b, s, k, t) ==
  /\ t \in Status \X Status
  /\ \A i \in {1, 2} : SameFighter(t[i], s[i]) /\ t[i].at = s[i].at
  /\ t[k].hp = s[k].hp /\ t[Other(k)].hp = s[Other(k)].hp - Power(s[k], b)
  /\ \A i \in {1, 2} : t[i].ended <=> (s[i].ended \/ ~(t[Other(k)].hp > 0))

LEMMA PowerType ==
  ASSUME NEW b \in Battles, NEW s \in Status
  PROVE  Power(s, b) \in Nat /\ (s.atk > 0 => Power(s, b) > 0)
BY TablesAssumption DEF Power, Status

LEMMA AttackEffect ==
  ASSUME NEW b \in Battles, NEW s \in Status \X Status, NEW k \in {1, 2}
  PROVE  Attacked(b, s, k, Attack(b, s, k))
<1> DEFINE o  == Other(k)
           hp == s[o].hp - Power(s[k], b)
           t  == [s EXCEPT ![o].hp = hp]
           u  == [t EXCEPT ![1].ended = TRUE, ![2].ended = TRUE]
<1>1. o \in {1, 2} /\ o # k /\ {1, 2} = {k, o}
  BY DEF Other
<1>2. s[1] \in Status /\ s[2] \in Status /\ s[k] \in Status /\ s[o] \in Status
  BY <1>1
<1>3. hp \in Int
  BY <1>2, PowerType DEF Status
<1>4. Attack(b, s, k) = IF hp > 0 THEN t ELSE u
  BY DEF Attack
<1>5. o = Other(k) /\ hp = s[o].hp - Power(s[k], b)
  OBVIOUS
<1> HIDE DEF hp, o
<1>6. t \in Status \X Status /\ t[k] = s[k] /\ t[o] = [s[o] EXCEPT !.hp = hp]
  BY <1>1, <1>2, <1>3 DEF Status
<1> HIDE DEF t
<1>7. /\ t[o].hp = hp /\ t[k].hp = s[k].hp
      /\ \A i \in {1, 2} : SameFighter(t[i], s[i]) /\ t[i].at = s[i].at /\ t[i].ended = s[i].ended
  BY <1>1, <1>2, <1>3, <1>6 DEF Status, SameFighter
<1>8. CASE hp > 0
  BY <1>1, <1>4, <1>5, <1>6, <1>7, <1>8 DEF Attacked
<1>9. CASE ~(hp > 0)
  <2> DEFINE e == [t[1] EXCEPT !.ended = TRUE]
             f == [t[2] EXCEPT !.ended = TRUE]
             v == [t EXCEPT ![1] = e]
  <2>1. t[1] \in Status /\ t[2] \in Status
    BY <1>6
  <2>2. /\ e \in Status /\ SameFighter(e, t[1]) /\ e.at = t[1].at /\ e.hp = t[1].hp /\ e.ended
        /\ f \in Status /\ SameFighter(f, t[2]) /\ f.at = t[2].at /\ f.hp = t[2].hp /\ f.ended
    BY <2>1 DEF Status, SameFighter
  <2>3. u = [v EXCEPT ![2] = [v[2] EXCEPT !.ended = TRUE]]
    OBVIOUS
  <2>4. v \in Status \X Status /\ v[1] = e /\ v[2] = t[2]
    <3> HIDE DEF e
    <3> QED  BY <1>6, <2>1, <2>2
  <2> HIDE DEF u, v
  <2>5. u = [v EXCEPT ![2] = f]
    BY <2>3, <2>4
  <2> HIDE DEF e, f
  <2>6. u \in Status \X Status /\ u[1] = e /\ u[2] = f
    BY <2>1, <2>2, <2>4, <2>5
  <2>7. \A i \in {1, 2} : SameFighter(u[i], t[i]) /\ u[i].at = t[i].at /\ u[i].hp = t[i].hp /\ u[i].ended
    BY <2>2, <2>6
  <2>8. u[o].hp = hp /\ u[k].hp = s[k].hp /\ ~(u[o].hp > 0)
    BY <1>1, <1>7, <1>9, <2>7
  <2>9. \A i \in {1, 2} : SameFighter(u[i], s[i]) /\ u[i].at = s[i].at
    BY <1>7, <2>7 DEF SameFighter
  <2> QED  BY <1>4, <1>5, <1>9, <2>6, <2>7, <2>8, <2>9 DEF Attacked
<1> QED  BY <1>8, <1>9

LEMMA FirstAttackType ==
  ASSUME NEW s PROVE FirstAttack(s) \in {1, 2} /\ Other(FirstAttack(s)) \in {1, 2}
BY DEF FirstAttack, Other

LEMMA RoundCases ==
  ASSUME NEW b, NEW s
  PROVE  LET k == FirstAttack(s)
             t == Attack(b, s, k)
         IN  /\ t[1].ended => Round(b, s).seats = t /\ Round(b, s).attacker = k
             /\ ~t[1].ended => /\ Round(b, s).seats = Attack(b, t, Other(k))
                               /\ Round(b, s).attacker = Other(k)
BY DEF Round

\* Two statuses that fight, of living players of some strength.
Fighters(s) ==
  /\ s \in Status \X Status
  /\ \A i \in {1, 2} : s[i].atk > 0 /\ ~s[i].ended

\* A round ends the battle for both or costs both some of their HP.
LEMMA RoundEffect ==
  ASSUME NEW b \in Battles, NEW s, Fighters(s)
  PROVE  LET t == Round(b, s).seats
             k == Round(b, s).attacker IN
         /\ t \in Status \X Status /\ k \in {1, 2}
         /\ \A i \in {1, 2} : SameFighter(t[i], s[i]) /\ t[i].at = s[i].at
                              /\ (t[i].ended <=> t[1].ended)
         /\ ~t[1].ended => t[1].hp > 0 /\ t[2].hp > 0 /\ t[1].hp < s[1].hp
         /\ t[1].ended /\ s[1].hp > 0 /\ s[2].hp > 0 => t[k].hp > 0
<1> DEFINE k == FirstAttack(s)
           t == Attack(b, s, k)
           u == Attack(b, t, Other(k))
<1>1. k \in {1, 2} /\ Other(k) \in {1, 2} /\ Other(Other(k)) = k
      /\ {1, 2} = {k, Other(k)} /\ k # Other(k)
  BY FirstAttackType DEF Other
<1>2. s \in Status \X Status
  BY DEF Fighters
<1>3. Attacked(b, s, k, t)
  BY <1>1, <1>2, AttackEffect
<1>4. t \in Status \X Status
  BY <1>3 DEF Attacked
<1>5. Attacked(b, t, Other(k), u)
  BY <1>1, <1>4, AttackEffect
<1>6. /\ t[1].ended => Round(b, s).seats = t /\ Round(b, s).attacker = k
      /\ ~t[1].ended => /\ Round(b, s).seats = u /\ Round(b, s).attacker = Other(k)
  BY RoundCases
<1> HIDE DEF k, t, u
<1>7. /\ s[1] \in Status /\ s[2] \in Status /\ s[k] \in Status /\ s[Other(k)] \in Status
      /\ t[1] \in Status /\ t[2] \in Status /\ t[k] \in Status /\ t[Other(k)] \in Status
      /\ u[1] \in Status /\ u[2] \in Status /\ u \in Status \X Status
  BY <1>1, <1>2, <1>4, <1>5 DEF Attacked
<1>8. /\ Power(s[k], b) \in Nat /\ Power(s[k], b) > 0
      /\ Power(t[Other(k)], b) \in Nat /\ Power(t[Other(k)], b) > 0
  <2>1. s[k].atk > 0 /\ t[Other(k)].atk > 0
    BY <1>1, <1>3 DEF Fighters, Attacked, SameFighter
  <2> QED  BY <1>7, <2>1, PowerType
<1>9. \A i \in {1, 2} : s[i].hp \in Int /\ t[i].hp \in Int /\ u[i].hp \in Int
  BY <1>7 DEF Status
<1>10. CASE t[1].ended
  <2>1. /\ Round(b, s).seats = t /\ Round(b, s).attacker = k
    BY <1>6, <1>10
  <2>2. \A i \in {1, 2} : t[i].ended
    BY <1>3, <1>10 DEF Attacked, Fighters
  <2>3. s[1].hp > 0 /\ s[2].hp > 0 => t[k].hp > 0
    BY <1>1, <1>3 DEF Attacked
  <2>4. \A i \in {1, 2} : SameFighter(t[i], s[i]) /\ t[i].at = s[i].at
    BY <1>3 DEF Attacked
  <2> QED  BY <1>1, <1>4, <2>1, <2>2, <2>3, <2>4
<1>11. CASE ~t[1].ended
  <2>1. /\ Round(b, s).seats = u /\ Round(b, s).attacker = Other(k)
    BY <1>6, <1>11
  <2>2. t[Other(k)].hp > 0 /\ ~t[1].ended /\ ~t[2].ended
    BY <1>3, <1>11 DEF Attacked, Fighters
  <2>3. \A i \in {1, 2} : u[i].ended <=> ~(u[k].hp > 0)
    BY <1>1, <1>5, <2>2 DEF Attacked
  <2>4. u[Other(k)].hp = t[Other(k)].hp /\ t[k].hp = s[k].hp
        /\ u[k].hp = t[k].hp - Power(t[Other(k)], b)
        /\ t[Other(k)].hp = s[Other(k)].hp - Power(s[k], b)
    BY <1>1, <1>3, <1>5 DEF Attacked
  <2>5. u[Other(k)].hp > 0 /\ u[k].hp < s[k].hp /\ u[Other(k)].hp < s[Other(k)].hp
    BY <1>1, <1>8, <1>9, <2>2, <2>4
  <2>6. ~u[1].ended => u[1].hp > 0 /\ u[2].hp > 0 /\ u[1].hp < s[1].hp
    BY <1>1, <2>3, <2>5
  <2>7. \A i \in {1, 2} : SameFighter(u[i], s[i]) /\ u[i].at = s[i].at
    BY <1>3, <1>5 DEF Attacked, SameFighter
  <2> QED  BY <1>1, <1>7, <2>1, <2>3, <2>5, <2>6, <2>7
<1> QED  BY <1>10, <1>11

\* Where a status was last seen does not matter.
LEMMA AttackLike ==
  ASSUME NEW b \in Battles, NEW s \in Status \X Status, NEW u \in Status \X Status,
         NEW k \in {1, 2}, \A i \in {1, 2} : Like(s[i], u[i])
  PROVE  \A i \in {1, 2} : Like(Attack(b, s, k)[i], Attack(b, u, k)[i])
<1> DEFINE t == Attack(b, s, k)
           v == Attack(b, u, k)
<1>1. Attacked(b, s, k, t) /\ Attacked(b, u, k, v)
  BY AttackEffect
<1> HIDE DEF t, v
<1>2. Power(s[k], b) = Power(u[k], b)
  BY DEF Power, Like, SameFighter
<1>3. Other(k) \in {1, 2} /\ {1, 2} = {k, Other(k)}
  BY DEF Other
<1>4. \A i \in {1, 2} : SameFighter(t[i], v[i]) /\ t[i].hp = v[i].hp
  BY <1>1, <1>2, <1>3 DEF Attacked, Like, SameFighter
<1>5. \A i \in {1, 2} : t[i].ended <=> v[i].ended
  BY <1>1, <1>3, <1>4 DEF Attacked, Like
<1>6. \A i \in {1, 2} : t[i].ended \in BOOLEAN /\ v[i].ended \in BOOLEAN
  BY <1>1 DEF Attacked, Status
<1> QED  BY <1>4, <1>5, <1>6 DEF Like, t, v

LEMMA RoundLike ==
  ASSUME NEW b \in Battles, NEW s, Fighters(s), NEW u, Fighters(u),
         \A i \in {1, 2} : Like(s[i], u[i])
  PROVE  /\ Round(b, s).attacker = Round(b, u).attacker
         /\ \A i \in {1, 2} : Like(Round(b, s).seats[i], Round(b, u).seats[i])
<1> DEFINE k == FirstAttack(s)
           t == Attack(b, s, k)
           v == Attack(b, u, k)
<1>1. k \in {1, 2} /\ Other(k) \in {1, 2} /\ FirstAttack(u) = k
  BY FirstAttackType DEF FirstAttack, Like, SameFighter
<1>2. t \in Status \X Status /\ v \in Status \X Status
  BY <1>1, AttackEffect DEF Fighters, Attacked
<1>3. \A i \in {1, 2} : Like(t[i], v[i])
  BY <1>1, AttackLike DEF Fighters
<1>4. \A i \in {1, 2} : Like(Attack(b, t, Other(k))[i], Attack(b, v, Other(k))[i])
  BY <1>1, <1>2, <1>3, AttackLike
<1>5. t[1].ended = v[1].ended
  BY <1>3 DEF Like
<1>6. /\ Round(b, s) = IF t[1].ended THEN [seats |-> t, attacker |-> k]
                       ELSE [seats |-> Attack(b, t, Other(k)), attacker |-> Other(k)]
      /\ Round(b, u) = IF v[1].ended THEN [seats |-> v, attacker |-> k]
                       ELSE [seats |-> Attack(b, v, Other(k)), attacker |-> Other(k)]
  BY <1>1 DEF Round
<1> HIDE DEF k, t, v
<1> QED  BY <1>3, <1>4, <1>5, <1>6

-----------------------------------------------------------------------------
(* A battle between two statuses has an end.                               *)

Hps == Int \X Int

\* The seats s with HPs h, a round from there, and the HPs it leaves.
Standing(s, h) == <<[s[1] EXCEPT !.hp = h[1]], [s[2] EXCEPT !.hp = h[2]]>>
Turn(b, s, h)  == Round(b, Standing(s, h))
Rest(b, s, h)  == <<Turn(b, s, h).seats[1].hp, Turn(b, s, h).seats[2].hp>>

Outcomes == [seats : Status \X Status, attacker : {1, 2}]

LEMMA StandingFights ==
  ASSUME NEW s, Fighters(s), NEW h \in Hps
  PROVE  /\ Fighters(Standing(s, h))
         /\ \A i \in {1, 2} : SameFighter(Standing(s, h)[i], s[i]) /\ Standing(s, h)[i].hp = h[i]
                              /\ Standing(s, h)[i].at = s[i].at
<1>1. s[1] \in Status /\ s[2] \in Status /\ h[1] \in Int /\ h[2] \in Int
  BY DEF Fighters, Hps
<1>2. \A i \in {1, 2} : /\ [s[i] EXCEPT !.hp = h[i]] \in Status
                        /\ [s[i] EXCEPT !.hp = h[i]].hp = h[i]
                        /\ [s[i] EXCEPT !.hp = h[i]].at = s[i].at
                        /\ [s[i] EXCEPT !.hp = h[i]].atk > 0 /\ ~[s[i] EXCEPT !.hp = h[i]].ended
                        /\ SameFighter([s[i] EXCEPT !.hp = h[i]], s[i])
  BY <1>1 DEF Status, Fighters, SameFighter
<1>3. Standing(s, h)[1] = [s[1] EXCEPT !.hp = h[1]] /\ Standing(s, h)[2] = [s[2] EXCEPT !.hp = h[2]]
      /\ Standing(s, h) = <<[s[1] EXCEPT !.hp = h[1]], [s[2] EXCEPT !.hp = h[2]]>>
  BY DEF Standing
<1>4. Standing(s, h) \in Status \X Status
  BY <1>2, <1>3
<1> QED  BY <1>2, <1>3, <1>4 DEF Fighters

LEMMA TurnEffect ==
  ASSUME NEW b \in Battles, NEW s, Fighters(s), NEW h \in Hps
  PROVE  LET r == Turn(b, s, h) IN
         /\ r.seats \in Status \X Status /\ r.attacker \in {1, 2} /\ r \in Outcomes
         /\ Rest(b, s, h) \in Hps
         /\ \A i \in {1, 2} : SameFighter(r.seats[i], s[i]) /\ r.seats[i].at = s[i].at
                              /\ (r.seats[i].ended <=> r.seats[1].ended)
         /\ ~r.seats[1].ended => /\ Rest(b, s, h)[1] > 0 /\ Rest(b, s, h)[2] > 0
                                 /\ Rest(b, s, h)[1] < h[1]
         /\ r.seats[1].ended /\ h[1] > 0 /\ h[2] > 0 => r.seats[r.attacker].hp > 0
<1> DEFINE u == Standing(s, h)
           r == Turn(b, s, h)
<1>1. /\ Fighters(u)
      /\ \A i \in {1, 2} : SameFighter(u[i], s[i]) /\ u[i].hp = h[i] /\ u[i].at = s[i].at
  BY StandingFights
<1>2. r = Round(b, u)
  BY DEF Turn
<1>3. r = [seats |-> r.seats, attacker |-> r.attacker]
  BY <1>2 DEF Round
<1>4. Rest(b, s, h) = <<r.seats[1].hp, r.seats[2].hp>>
  BY DEF Rest
<1> HIDE DEF u, r
<1>5. /\ r.seats \in Status \X Status /\ r.attacker \in {1, 2}
      /\ \A i \in {1, 2} : SameFighter(r.seats[i], u[i]) /\ r.seats[i].at = u[i].at
                           /\ (r.seats[i].ended <=> r.seats[1].ended)
      /\ ~r.seats[1].ended => r.seats[1].hp > 0 /\ r.seats[2].hp > 0 /\ r.seats[1].hp < u[1].hp
      /\ r.seats[1].ended /\ u[1].hp > 0 /\ u[2].hp > 0 => r.seats[r.attacker].hp > 0
  BY <1>1, <1>2, RoundEffect
<1>6. \A i \in {1, 2} : SameFighter(r.seats[i], s[i]) /\ r.seats[i].at = s[i].at
  BY <1>1, <1>5 DEF SameFighter
<1>7. r \in Outcomes
  BY <1>3, <1>5 DEF Outcomes
<1>8. r.seats[1].hp \in Int /\ r.seats[2].hp \in Int
  BY <1>5 DEF Status
<1>9. Rest(b, s, h) \in Hps
  BY <1>4, <1>8 DEF Hps
<1> QED  BY <1>1, <1>4, <1>5, <1>6, <1>7, <1>8, <1>9 DEF r

\* The HPs after a round come before those at its start.
Over(b, s, h) == Turn(b, s, h).seats[1].ended
Onward(b, s) == {gh \in Hps \X Hps : ~Over(b, s, gh[2]) /\ gh[1] = Rest(b, s, gh[2])}

LEMMA RoundsGrounded ==
  ASSUME NEW b \in Battles, NEW s, Fighters(s)
  PROVE  Grounded(Onward(b, s), Hps)
<1> DEFINE R == Onward(b, s)
<1>1. \A h \in Hps, g \in Hps : <<g, h>> \in R <=> ~Over(b, s, h) /\ g = Rest(b, s, h)
  BY DEF Onward
<1>2. \A h \in Hps : ~Over(b, s, h) => Rest(b, s, h)[1] > 0 /\ Rest(b, s, h)[1] < h[1]
  BY TurnEffect DEF Over
<1> HIDE DEF R
<1> SUFFICES ASSUME NEW S \in SUBSET Hps, S # {}, \A h \in S : \E g \in S : <<g, h>> \in R
             PROVE  FALSE
  BY DEF Grounded, R
<1>3. \A h \in S : \E g \in S : g[1] > 0 /\ g[1] < h[1]
  BY <1>1, <1>2
<1> DEFINE Q == {n \in Nat : \A g \in S : ~(g[1] > 0 /\ g[1] <= n)}
<1>4. \A h \in S : h[1] \in Int
  BY DEF Hps
<1>5. 0 \in Q
  BY <1>4
<1>6. ASSUME NEW n \in Nat, n \in Q PROVE n + 1 \in Q
  <2> SUFFICES ASSUME NEW h \in S, h[1] > 0, h[1] <= n + 1 PROVE FALSE
    OBVIOUS
  <2>1. PICK g \in S : g[1] > 0 /\ g[1] < h[1]
    BY <1>3
  <2>2. g[1] <= n
    BY <1>4, <2>1
  <2> QED  BY <1>6, <2>1, <2>2
<1>7. \A n \in Nat : n \in Q
  <2> HIDE DEF Q
  <2> QED  BY <1>5, <1>6, Induct
<1>8. PICK h \in S : h[1] > 0
  BY <1>3
<1>9. h[1] \in Nat /\ h[1] \in Q
  BY <1>4, <1>7, <1>8
<1> QED  BY <1>4, <1>8, <1>9

\* Rounds is the function its equation defines.
LEMMA RoundsDefined ==
  ASSUME NEW b \in Battles, NEW s, Fighters(s)
  PROVE  \A h \in Hps : /\ Rounds(b, s)[h] \in Outcomes
                        /\ Rounds(b, s)[h] = IF Over(b, s, h) THEN Turn(b, s, h)
                                             ELSE Rounds(b, s)[Rest(b, s, h)]
<1> DEFINE R == Onward(b, s)
           H == [h \in Hps |-> [f \in [Hps -> Outcomes] |->
                   IF Over(b, s, h) THEN Turn(b, s, h) ELSE f[Rest(b, s, h)]]]
           v == Turn(b, s, <<0, 0>>)
           Is(F) == F = [h \in Hps |-> IF Over(b, s, h) THEN Turn(b, s, h) ELSE F[Rest(b, s, h)]]
<1>1. Grounded(R, Hps)
  BY RoundsGrounded
<1>2. \A h \in Hps : Turn(b, s, h) \in Outcomes /\ Rest(b, s, h) \in Hps
  BY TurnEffect
<1>3. <<0, 0>> \in Hps
  BY DEF Hps
<1>4. v \in Outcomes
  BY <1>2, <1>3
<1>5. \A h \in Hps, g \in Hps : <<g, h>> \in R <=> ~Over(b, s, h) /\ g = Rest(b, s, h)
  BY DEF Onward
<1> HIDE DEF R, v
<1>6. StepsFrom(Outcomes, Hps, R, H)
  <2>1. ASSUME NEW h \in Hps, NEW f \in [Hps -> Outcomes] PROVE H[h][f] \in Outcomes
    BY <1>2
  <2>2. ASSUME NEW h \in Hps, NEW f \in [Hps -> Outcomes], NEW g \in [Hps -> Outcomes],
               \A m \in Hps : <<m, h>> \in R => f[m] = g[m]
        PROVE  H[h][f] = H[h][g]
    BY <1>2, <1>5, <2>2
  <2> HIDE DEF H
  <2> QED  BY <2>1, <2>2 DEF StepsFrom
<1>7. PICK F \in [Hps -> Outcomes] : \A h \in Hps : F[h] = H[h][F]
  <2> HIDE DEF H
  <2> QED  BY <1>1, <1>4, <1>6, TreeRecursion
<1>8. \A h \in Hps : F[h] = IF Over(b, s, h) THEN Turn(b, s, h) ELSE F[Rest(b, s, h)]
  BY <1>7
<1>9. Is(F)
  <2>1. F = [h \in Hps |-> F[h]]
    OBVIOUS
  <2> QED  BY <1>8, <2>1
<1>10. Rounds(b, s) = CHOOSE G : Is(G)
  BY DEF Rounds, Hps, Over, Turn, Rest, Standing
<1> DEFINE G == Rounds(b, s)
<1>11. Is(G)
  BY <1>9, <1>10
<1> HIDE DEF G
<1>12. \A h \in Hps : G[h] = IF Over(b, s, h) THEN Turn(b, s, h) ELSE G[Rest(b, s, h)]
  BY <1>11
<1>13. \A h \in Hps : G[h] \in Outcomes
  <2> DEFINE S == {h \in Hps : G[h] \notin Outcomes}
  <2> SUFFICES ASSUME S # {} PROVE FALSE
    OBVIOUS
  <2>1. S \in SUBSET Hps
    OBVIOUS
  <2>2. PICK h \in S : \A m \in S : <<m, h>> \notin R
    <3> HIDE DEF S
    <3> QED  BY <1>1, <2>1 DEF Grounded
  <2>3. ~Over(b, s, h) /\ Rest(b, s, h) \in Hps /\ G[h] = G[Rest(b, s, h)]
    BY <1>2, <1>12
  <2>4. Rest(b, s, h) \in S
    BY <2>3
  <2>5. <<Rest(b, s, h), h>> \in R
    BY <1>5, <2>3
  <2> QED  BY <2>2, <2>4, <2>5
<1> QED  BY <1>12, <1>13 DEF G

\* How a battle ends between two who live.
LEMMA RoundsEnd ==
  ASSUME NEW b \in Battles, NEW s, Fighters(s), NEW h \in Hps, h[1] > 0, h[2] > 0
  PROVE  LET r == Rounds(b, s)[h] IN
         /\ r \in Outcomes /\ r.seats \in Status \X Status /\ r.attacker \in {1, 2}
         /\ \A i \in {1, 2} : SameFighter(r.seats[i], s[i])
         /\ r.seats[r.attacker].hp > 0
<1> DEFINE F == Rounds(b, s)
           R == Onward(b, s)
           Good(r) == /\ r.seats \in Status \X Status /\ r.attacker \in {1, 2}
                      /\ \A i \in {1, 2} : SameFighter(r.seats[i], s[i])
                      /\ r.seats[r.attacker].hp > 0
           S == {g \in Hps : g[1] > 0 /\ g[2] > 0 /\ ~Good(F[g])}
<1>1. \A g \in Hps : /\ F[g] \in Outcomes
                     /\ F[g] = IF Over(b, s, g) THEN Turn(b, s, g) ELSE F[Rest(b, s, g)]
  BY RoundsDefined
<1>2. Grounded(R, Hps)
  BY RoundsGrounded
<1>3. \A g \in Hps, e \in Hps : <<e, g>> \in R <=> ~Over(b, s, g) /\ e = Rest(b, s, g)
  BY DEF Onward
<1>4. \A g \in Hps : Rest(b, s, g) \in Hps
                     /\ (~Over(b, s, g) => Rest(b, s, g)[1] > 0 /\ Rest(b, s, g)[2] > 0)
  BY TurnEffect DEF Over
<1>5. \A g \in Hps : g[1] > 0 /\ g[2] > 0 /\ Over(b, s, g) => Good(Turn(b, s, g))
  BY TurnEffect DEF Over
<1> HIDE DEF F, R, Good
<1>6. S = {}
  <2> SUFFICES ASSUME S # {} PROVE FALSE
    OBVIOUS
  <2>1. S \in SUBSET Hps
    OBVIOUS
  <2>2. PICK g \in S : \A m \in S : <<m, g>> \notin R
    <3> HIDE DEF S
    <3> QED  BY <1>2, <2>1 DEF Grounded
  <2>3. ~Over(b, s, g)
    BY <1>1, <1>5, <2>2
  <2>4. Rest(b, s, g) \in S /\ <<Rest(b, s, g), g>> \in R
    BY <1>1, <1>3, <1>4, <2>2, <2>3
  <2> QED  BY <2>2, <2>4
<1>7. Good(F[h])
  BY <1>6
<1> QED  BY <1>1, <1>7 DEF Good, F

-----------------------------------------------------------------------------
(* The rules of the championship.                                          *)

\* With what a player can enter a battle.
Entrant == {s \in Status : s.id \in Real /\ s.hp > 0 /\ s.atk > 0 /\ ~s.ended}

FromFile(n) == [id |-> n, hp |-> table[n].hp, atk |-> table[n].atk, attr |-> table[n].attr,
                at |-> A, ended |-> FALSE]

\* What n enters with if f says so of the players of its battle.
Ended(n, f)  == Bout(Source(n), <<f[Children[Source(n)][1]], f[Children[Source(n)][2]]>>)
Comes(n, r)  == r.seats[IF n \in Battles THEN r.attacker ELSE Other(r.attacker)]
Enters(n, s) == [s EXCEPT !.hp = IF n \in Battles THEN @ + (table[s.id].hp - @) \div 2 ELSE table[s.id].hp,
                          !.ended = FALSE]

LEMMA SourceFacts ==
  ASSUME NEW n \in Nodes \ Real
  PROVE  /\ Source(n) \in Battles
         /\ n \in Battles => Source(n) = n
         /\ n \notin Battles => n \in Agents /\ Source(n) \in DOMAIN Agent /\ Agent[Source(n)] = n
         /\ \A m \in Kids(Source(n)) : Feeds(m, n)
<1>1. n \in Battles => Source(n) = n
  BY DEF Source
<1>2. n \notin Battles => n \in Agents /\ Source(n) \in DOMAIN Agent /\ Agent[Source(n)] = n
  BY OrderAssumption DEF Source, Nodes, Players
<1>3. Source(n) \in Battles
  BY <1>1, <1>2, AgentAssumption
<1>4. n = Source(n) \/ (Source(n) \in DOMAIN Agent /\ n = Agent[Source(n)])
  BY <1>1, <1>2
<1> QED  BY <1>1, <1>2, <1>3, <1>4 DEF Feeds

\* The battle an agent belongs to is the one whose loser it stands in for.
LEMMA AgentSource ==
  ASSUME NEW c \in DOMAIN Agent
  PROVE  Agent[c] \in Nodes \ Real /\ Agent[c] \notin Battles /\ Source(Agent[c]) = c
<1>1. Agent[c] \in Agents
  BY AgentAssumption
<1>2. Agent[c] \in Nodes \ Real /\ Agent[c] \notin Battles
  BY <1>1, NodesAssumption DEF Nodes, Players
<1> QED  BY <1>2, SourceFacts, AgentAssumption

\* What two entrants make of a battle.
LEMMA BoutEnds ==
  ASSUME NEW b \in Battles, NEW s \in Entrant, NEW t \in Entrant
  PROVE  LET r == Bout(b, <<s, t>>) IN
         /\ Fighters(<<s, t>>) /\ <<s.hp, t.hp>> \in Hps
         /\ r.seats \in Status \X Status /\ r.attacker \in {1, 2}
         /\ SameFighter(r.seats[1], s) /\ SameFighter(r.seats[2], t)
         /\ r.seats[r.attacker].hp > 0
<1> DEFINE u == <<s, t>>
           h == <<s.hp, t.hp>>
<1>1. s \in Status /\ t \in Status /\ s.hp \in Int /\ t.hp \in Int
  BY DEF Entrant, Status
<1>2. u \in Status \X Status /\ u[1] = s /\ u[2] = t /\ \A i \in {1, 2} : u[i] \in Entrant
  BY <1>1
<1>3. Fighters(u)
  BY <1>2 DEF Fighters, Entrant
<1>4. h \in Hps /\ h[1] > 0 /\ h[2] > 0
  BY <1>1 DEF Hps, Entrant
<1>5. Bout(b, u) = Rounds(b, u)[h]
  BY DEF Bout
<1> HIDE DEF u, h
<1>6. /\ Bout(b, u).seats \in Status \X Status /\ Bout(b, u).attacker \in {1, 2}
      /\ \A i \in {1, 2} : SameFighter(Bout(b, u).seats[i], u[i])
      /\ Bout(b, u).seats[Bout(b, u).attacker].hp > 0
  BY <1>3, <1>4, <1>5, RoundsEnd
<1> QED  BY <1>2, <1>3, <1>4, <1>6 DEF u, h

LEMMA EntersType ==
  ASSUME table \in Tables, NEW n, NEW s \in Status, s.id \in Real, s.atk > 0,
         n \in Battles => s.hp > 0
  PROVE  /\ Enters(n, s) \in Entrant /\ SameFighter(Enters(n, s), s)
         /\ n \in Battles => Like(Enters(n, s), Recovered(s, table[s.id].hp))
         /\ n \notin Battles => Enters(n, s).hp = table[s.id].hp
<1> DEFINE max == table[s.id].hp
           g   == s.hp + (max - s.hp) \div 2
           hp  == IF n \in Battles THEN g ELSE max
<1>1. max \in Nat /\ max > 0
  BY TablesAssumption
<1>2. /\ s.hp \in Int /\ g \in Int /\ (s.hp > 0 => g > 0)
  BY <1>1 DEF Status
<1>3. Enters(n, s) = [s EXCEPT !.hp = hp, !.ended = FALSE]
  BY DEF Enters
<1>4. Recovered(s, max) = [s EXCEPT !.ended = FALSE, !.hp = g]
  BY DEF Recovered
<1> HIDE DEF max, g
<1>5. hp \in Int /\ hp > 0
  BY <1>1, <1>2
<1>6. hp = IF n \in Battles THEN g ELSE max
  OBVIOUS
<1> HIDE DEF hp
<1>7. /\ Enters(n, s) \in Status /\ SameFighter(Enters(n, s), s) /\ Enters(n, s).hp = hp
      /\ Enters(n, s).ended = FALSE
  BY <1>3, <1>5 DEF Status, SameFighter
<1>8. Enters(n, s) \in Entrant
  BY <1>5, <1>7 DEF Entrant, SameFighter
<1>9. SameFighter(Recovered(s, max), s) /\ Recovered(s, max).hp = g /\ Recovered(s, max).ended = FALSE
  BY <1>2, <1>4 DEF Status, SameFighter
<1> QED  BY <1>6, <1>7, <1>8, <1>9 DEF Like, SameFighter, max

\* What comes from the battle n depends on can enter another.
LEMMA ComesType ==
  ASSUME table \in Tables, NEW n \in Nodes \ Real, NEW f \in [Nodes -> Entrant]
  PROVE  /\ Comes(n, Ended(n, f)) \in Status /\ Comes(n, Ended(n, f)).id \in Real
         /\ Comes(n, Ended(n, f)).atk > 0
         /\ n \in Battles => Comes(n, Ended(n, f)).hp > 0
<1> DEFINE b == Source(n)
           s == f[Children[b][1]]
           t == f[Children[b][2]]
           r == Bout(b, <<s, t>>)
           k == IF n \in Battles THEN r.attacker ELSE Other(r.attacker)
<1>1. b \in Battles
  BY SourceFacts
<1>2. s \in Entrant /\ t \in Entrant
  BY <1>1, TreeFacts
<1>3. Ended(n, f) = r /\ Comes(n, r) = r.seats[k]
  BY DEF Ended, Comes
<1> HIDE DEF b, s, t
<1>4. /\ r.seats \in Status \X Status /\ r.attacker \in {1, 2}
      /\ SameFighter(r.seats[1], s) /\ SameFighter(r.seats[2], t)
      /\ r.seats[r.attacker].hp > 0
  BY <1>1, <1>2, BoutEnds
<1> HIDE DEF r
<1>5. k \in {1, 2} /\ (n \in Battles => k = r.attacker)
  BY <1>4 DEF Other
<1> HIDE DEF k
<1>6. \A i \in {1, 2} : r.seats[i] \in Status /\ r.seats[i].id \in Real /\ r.seats[i].atk > 0
  BY <1>2, <1>4 DEF SameFighter, Entrant
<1> QED  BY <1>3, <1>4, <1>5, <1>6

LEMMA FromFileType ==
  ASSUME table \in Tables, NEW n \in Real PROVE FromFile(n) \in Entrant
<1>1. n \in Nat /\ A \in Battles
  BY NodesAssumption DEF Nodes, Players
<1>2. table[n].hp \in Nat \ {0} /\ table[n].atk \in Nat \ {0} /\ table[n].attr \in 0..2
  BY TablesAssumption
<1> QED  BY <1>1, <1>2 DEF FromFile, Entrant, Status

\* Rules is the function its equations define.
LEMMA RulesDefined ==
  ASSUME table \in Tables
  PROVE  /\ Rules \in [Nodes -> Entrant]
         /\ \A n \in Real : Rules[n] = FromFile(n)
         /\ \A n \in Nodes \ Real : Rules[n] = Enters(n, Comes(n, Ended(n, Rules)))
<1> DEFINE Step(n, f) == IF n \in Real THEN FromFile(n) ELSE Enters(n, Comes(n, Ended(n, f)))
           H == [n \in Nodes |-> [f \in [Nodes -> Entrant] |-> Step(n, f)]]
           R == {mn \in Nodes \X Nodes : Feeds(mn[1], mn[2])}
           Is(E) == E = [n \in Nodes |-> Step(n, E)]
<1>1. \A n \in Nodes, m \in Nodes : <<m, n>> \in R <=> Feeds(m, n)
  OBVIOUS
<1> HIDE DEF R
<1>2. Grounded(R, Nodes)
  <2> SUFFICES ASSUME NEW S \in SUBSET Nodes, S # {}
               PROVE  \E n \in S : \A m \in S : <<m, n>> \notin R
    BY DEF Grounded
  <2>1. PICK n \in S : \A m \in S : ~Feeds(m, n)
    BY OrderAssumption
  <2> QED  BY <1>1, <2>1
<1>3. ASSUME NEW n \in Nodes, NEW f \in [Nodes -> Entrant] PROVE Step(n, f) \in Entrant
  <2>1. CASE n \in Real
    BY <2>1, FromFileType
  <2>2. CASE n \notin Real
    BY <2>2, ComesType, EntersType
  <2> QED  BY <2>1, <2>2
<1>4. ASSUME NEW n \in Nodes, NEW f \in [Nodes -> Entrant], NEW g \in [Nodes -> Entrant],
             \A m \in Nodes : <<m, n>> \in R => f[m] = g[m]
      PROVE  Step(n, f) = Step(n, g)
  <2> SUFFICES ASSUME n \notin Real PROVE Ended(n, f) = Ended(n, g)
    OBVIOUS
  <2>1. \A m \in Kids(Source(n)) : m \in Nodes /\ Feeds(m, n)
    BY SourceFacts, TreeFacts
  <2>2. Children[Source(n)][1] \in Kids(Source(n)) /\ Children[Source(n)][2] \in Kids(Source(n))
    BY DEF Kids
  <2>3. \A m \in Kids(Source(n)) : f[m] = g[m]
    BY <1>1, <1>4, <2>1
  <2> QED  BY <2>2, <2>3 DEF Ended
<1> HIDE DEF Step
<1>5. StepsFrom(Entrant, Nodes, R, H)
  BY <1>3, <1>4 DEF StepsFrom
<1>6. \E v : v \in Entrant
  <2>1. PICK n \in Nodes : \A m \in Nodes : ~Feeds(m, n)
    <3>1. Nodes \in SUBSET Nodes /\ Nodes # {}
      BY NodesAssumption DEF Nodes
    <3> QED  BY <3>1, OrderAssumption
  <2>2. n \in Real
    <3> SUFFICES ASSUME n \notin Real PROVE FALSE
      OBVIOUS
    <3>1. Children[Source(n)][1] \in Nodes /\ Children[Source(n)][1] \in Kids(Source(n))
      BY SourceFacts, TreeFacts
    <3> QED  BY <2>1, <3>1, SourceFacts
  <2> QED  BY <2>2, FromFileType
<1>7. PICK E \in [Nodes -> Entrant] : \A n \in Nodes : E[n] = H[n][E]
  <2> HIDE DEF H
  <2> QED  BY <1>2, <1>5, <1>6, TreeRecursion
<1>8. \A n \in Nodes : E[n] = Step(n, E)
  BY <1>7
<1>9. Is(E)
  <2>1. E = [n \in Nodes |-> E[n]]
    OBVIOUS
  <2> QED  BY <1>8, <2>1
<1>10. Rules = CHOOSE F : Is(F)
  BY DEF Rules, Step, FromFile, Enters, Comes, Ended
<1> DEFINE F == Rules
<1>11. Is(F)
  BY <1>9, <1>10
<1> HIDE DEF F
<1>12. \A n \in Nodes : F[n] = Step(n, F)
  BY <1>11
<1>13. F \in [Nodes -> Entrant]
  <2> DEFINE S == {n \in Nodes : F[n] \notin Entrant}
  <2>1. F = [n \in Nodes |-> F[n]]
    BY <1>11, <1>12
  <2> SUFFICES ASSUME S # {} PROVE FALSE
    BY <2>1
  <2>2. S \in SUBSET Nodes
    OBVIOUS
  <2>3. PICK n \in S : \A m \in S : <<m, n>> \notin R
    <3> HIDE DEF S
    <3> QED  BY <1>2, <2>2 DEF Grounded
  <2> DEFINE g == [m \in Nodes |-> IF m \in S THEN E[m] ELSE F[m]]
  <2>4. g \in [Nodes -> Entrant]
    BY <1>7
  <2>5. \A m \in Nodes : <<m, n>> \in R => F[m] = g[m]
    BY <2>3
  <2> HIDE DEF g
  <2>6. n \in Real => F[n] \in Entrant
    BY <1>12, FromFileType DEF Step
  <2>7. n \notin Real => Ended(n, F) = Ended(n, g)
    <3> SUFFICES ASSUME n \notin Real PROVE Ended(n, F) = Ended(n, g)
      OBVIOUS
    <3>1. \A m \in Kids(Source(n)) : m \in Nodes /\ Feeds(m, n)
      BY SourceFacts, TreeFacts
    <3>2. \A m \in Kids(Source(n)) : F[m] = g[m]
      BY <1>1, <2>5, <3>1
    <3> QED  BY <3>2 DEF Ended, Kids
  <2>8. F[n] = Step(n, g)
    BY <1>12, <2>7 DEF Step
  <2> QED  BY <1>3, <2>4, <2>8
<1>14. Real \subseteq Nodes
  BY DEF Nodes, Players
<1>15. /\ \A n \in Real : F[n] = FromFile(n)
       /\ \A n \in Nodes \ Real : F[n] = Enters(n, Comes(n, Ended(n, F)))
  BY <1>12, <1>14 DEF Step
<1> QED  BY <1>13, <1>15 DEF F

LEMMA EntrantsFacts ==
  ASSUME table \in Tables, NEW b \in Battles
  PROVE  /\ Fighters(Entrants(b))
         /\ \A k \in {1, 2} : /\ Entrants(b)[k] = Rules[Children[b][k]]
                              /\ Entrants(b)[k] \in Entrant
                              /\ Entrants(b)[k].hp > 0 /\ Entrants(b)[k] \in Status
         /\ Result(b) = Rounds(b, Entrants(b))[<<Entrants(b)[1].hp, Entrants(b)[2].hp>>]
         /\ Result(b).seats \in Status \X Status /\ Result(b).attacker \in {1, 2}
         /\ \A k \in {1, 2} : SameFighter(Result(b).seats[k], Entrants(b)[k])
         /\ Result(b).seats[Result(b).attacker].hp > 0
<1> DEFINE s == Rules[Children[b][1]]
           t == Rules[Children[b][2]]
           r == Bout(b, <<s, t>>)
<1>1. s \in Entrant /\ t \in Entrant
  BY RulesDefined, TreeFacts
<1>2. Entrants(b) = <<s, t>> /\ Result(b) = r
  BY DEF Entrants, Result
<1>3. Result(b) = Rounds(b, Entrants(b))[<<Entrants(b)[1].hp, Entrants(b)[2].hp>>]
  BY DEF Result, Bout
<1>4. /\ Fighters(<<s, t>>) /\ r.seats \in Status \X Status /\ r.attacker \in {1, 2}
      /\ SameFighter(r.seats[1], s) /\ SameFighter(r.seats[2], t)
      /\ r.seats[r.attacker].hp > 0
  BY <1>1, BoutEnds
<1>5. \A k \in {1, 2} : Entrants(b)[k] = Rules[Children[b][k]]
  BY <1>2
<1>6. \A e \in Entrant : e.hp > 0 /\ e \in Status
  BY DEF Entrant
<1> HIDE DEF s, t, r
<1>7. Entrants(b)[1] = s /\ Entrants(b)[2] = t
  BY <1>2
<1>8. \A k \in {1, 2} : k = 1 \/ k = 2
  OBVIOUS
<1> QED  BY <1>1, <1>2, <1>3, <1>4, <1>5, <1>6, <1>7, <1>8

\* The winner recovers and goes on; the loser of Zone A comes back with all its HP.
LEMMA WinnerRule ==
  ASSUME table \in Tables, NEW b \in Battles
  PROVE  LET s == Result(b).seats[Result(b).attacker] IN
         /\ s \in Status /\ SameFighter(Rules[b], s) /\ Like(Rules[b], Recovered(s, table[s.id].hp))
<1> DEFINE r == Result(b)
           s == r.seats[r.attacker]
<1>1. b \in Nodes \ Real /\ Source(b) = b /\ b \in Battles
  BY SourceFacts, TreeFacts DEF Players
<1>2. Ended(b, Rules) = r /\ Comes(b, r) = s
  BY <1>1 DEF Ended, Result, Entrants, Comes
<1>3. Rules[b] = Enters(b, s)
  BY <1>1, <1>2, RulesDefined
<1>4. s \in Status /\ s.id \in Real /\ s.atk > 0 /\ s.hp > 0
  BY <1>1, <1>2, ComesType, RulesDefined
<1> HIDE DEF s
<1>5. SameFighter(Rules[b], s) /\ Like(Rules[b], Recovered(s, table[s.id].hp))
  BY <1>3, <1>4, EntersType
<1> QED  BY <1>4, <1>5 DEF s

LEMMA LoserRule ==
  ASSUME table \in Tables, NEW c \in DOMAIN Agent
  PROVE  LET s == Result(c).seats[Other(Result(c).attacker)] IN
         /\ s.id \in Real /\ SameFighter(Rules[Agent[c]], s)
         /\ Rules[Agent[c]].hp = table[s.id].hp /\ ~Rules[Agent[c]].ended
<1> DEFINE r == Result(c)
           s == r.seats[Other(r.attacker)]
           a == Agent[c]
<1>1. a \in Nodes \ Real /\ a \notin Battles /\ Source(a) = c
  BY AgentSource
<1>2. Ended(a, Rules) = r /\ Comes(a, r) = s
  BY <1>1 DEF Ended, Result, Entrants, Comes
<1>3. Rules[a] = Enters(a, s) /\ Rules[a] \in Entrant
  BY <1>1, <1>2, RulesDefined
<1>4. s \in Status /\ s.id \in Real /\ s.atk > 0
  BY <1>1, <1>2, ComesType, RulesDefined
<1> HIDE DEF s, a
<1>5. SameFighter(Rules[a], s) /\ Rules[a].hp = table[s.id].hp
  BY <1>1, <1>3, <1>4, EntersType
<1>6. ~Rules[a].ended
  BY <1>3 DEF Entrant
<1> QED  BY <1>4, <1>5, <1>6 DEF s, a

\* A round between the two with the HPs they have left is a round of the battle.
LEMMA RoundOfBout ==
  ASSUME table \in Tables, NEW b \in Battles, NEW t, Fighters(t),
         \A k \in {1, 2} : SameFighter(t[k], Entrants(b)[k]) /\ t[k].hp > 0,
         Rounds(b, Entrants(b))[<<t[1].hp, t[2].hp>>] = Result(b)
  PROVE  LET r == Round(b, t) IN
         /\ \A k \in {1, 2} : SameFighter(r.seats[k], Entrants(b)[k])
         /\ r.seats[1].ended => /\ r.attacker = Result(b).attacker
                                /\ \A k \in {1, 2} : Like(r.seats[k], Result(b).seats[k])
         /\ ~r.seats[1].ended =>
              Rounds(b, Entrants(b))[<<r.seats[1].hp, r.seats[2].hp>>] = Result(b)
<1> DEFINE e == Entrants(b)
           h == <<t[1].hp, t[2].hp>>
           u == Standing(e, h)
           r == Round(b, t)
           v == Round(b, u)
<1>1. Fighters(e)
  BY EntrantsFacts
<1>2. h \in Hps /\ h[1] = t[1].hp /\ h[2] = t[2].hp
  BY DEF Fighters, Status, Hps
<1> HIDE DEF e, h
<1>3. /\ Fighters(u) /\ \A i \in {1, 2} : SameFighter(u[i], e[i]) /\ u[i].hp = h[i]
  BY <1>1, <1>2, StandingFights
<1> HIDE DEF u
<1>4. \A i \in {1, 2} : Like(t[i], u[i])
  <2>1. \A i \in {1, 2} : SameFighter(t[i], u[i]) /\ t[i].hp = u[i].hp
    BY <1>2, <1>3 DEF SameFighter, e
  <2>2. \A i \in {1, 2} : t[i].ended = u[i].ended
    BY <1>3 DEF Fighters, Status
  <2> QED  BY <2>1, <2>2 DEF Like
<1>5. r.attacker = v.attacker /\ \A i \in {1, 2} : Like(r.seats[i], v.seats[i])
  BY <1>3, <1>4, RoundLike
<1>6. v = Turn(b, e, h) /\ Rest(b, e, h) = <<v.seats[1].hp, v.seats[2].hp>>
      /\ (Over(b, e, h) <=> v.seats[1].ended)
  BY DEF Turn, Rest, Over, u
<1> HIDE DEF r, v
<1>7. Rounds(b, e)[h] = IF v.seats[1].ended THEN v ELSE Rounds(b, e)[<<v.seats[1].hp, v.seats[2].hp>>]
  BY <1>1, <1>2, <1>6, RoundsDefined
<1>8. Rounds(b, e)[h] = Result(b)
  BY DEF e, h
<1>9. \A i \in {1, 2} : SameFighter(r.seats[i], e[i])
  <2>1. \A i \in {1, 2} : SameFighter(r.seats[i], t[i])
    BY RoundEffect DEF r
  <2> QED  BY <2>1 DEF SameFighter, e
<1>10. r.seats[1].hp = v.seats[1].hp /\ r.seats[2].hp = v.seats[2].hp
       /\ r.seats[1].ended = v.seats[1].ended
  BY <1>5 DEF Like
<1>11. r.seats[1].ended => r.attacker = Result(b).attacker
                           /\ \A k \in {1, 2} : Like(r.seats[k], Result(b).seats[k])
  BY <1>5, <1>7, <1>8, <1>10
<1>12. ~r.seats[1].ended => Rounds(b, e)[<<r.seats[1].hp, r.seats[2].hp>>] = Result(b)
  BY <1>7, <1>8, <1>10
<1> QED  BY <1>9, <1>11, <1>12 DEF r, e
=============================================================================
