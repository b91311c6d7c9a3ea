----------------------- MODULE ChampionshipPlacesProofs -----------------------
(* Every player is in one place, for every tree of battles, every table of *)
(* players and every schedule of the processes: OnePlace, the refinement   *)
(* of Tournament that rests on it, and on both that every battle has the   *)
(* winner the rules give it.                                               *)
EXTENDS ChampionshipProofs, FiniteSetTheorems

-----------------------------------------------------------------------------
(* What the steps do, process by process.                                  *)

LEMMA ReadFirstEffect ==
  ASSUME IInv, NEW b \in Battles, ReadFirst(b)
  PROVE  LET n == Children[b][1] IN
         /\ pc[b] = "first" /\ pc'[b] = "second" /\ \A m \in Nodes \ {b} : pc'[m] = pc[m]
         /\ up[n] # <<>> /\ up'[n] = <<>> /\ \A m \in Nodes \ {n} : up'[m] = up[m]
         /\ seat'[b][1] = Head(up[n]) /\ \A c \in Battles \ {b} : seat'[c] = seat[c]
         /\ UNCHANGED <<attacker, self, down, fifo>>
<1> DEFINE n == Children[b][1]
<1>1. /\ pc[b] = "first" /\ up[n] # <<>> /\ up' = Taken(up, n) /\ Goto(b, "second")
      /\ Seated(b, 1, Head(up[n])) /\ UNCHANGED <<attacker, self, down, fifo>>
  BY DEF ReadFirst, Seated
<1>2. n \in Kids(b) /\ b \in Nodes
  BY TreeFacts
<1>3. pc'[b] = "second" /\ \A m \in Nodes \ {b} : pc'[m] = pc[m]
  BY <1>1, <1>2, Goes DEF IInv, Points
<1>4. up'[n] = <<>> /\ Head(up[n]) \in Status /\ \A m \in Nodes \ {n} : up'[m] = up[m]
  BY <1>1, <1>2, TakenOne
<1>5. seat'[b][1] = Head(up[n]) /\ \A c \in Battles \ {b} : seat'[c] = seat[c]
  BY <1>1, <1>4, SeatsElsewhere
<1> QED  BY <1>1, <1>3, <1>4, <1>5

\* A battle that passes is not the root, and has only the player below it to seat anew.
LEMMA PassSeats ==
  ASSUME IInv, NEW b \in Battles, pc[b] \in {"pass", "back"},
         NEW s \in Status, Seated(b, attacker[b], s)
  PROVE  /\ b # A /\ b \in Nodes /\ \E c \in Battles : b \in Kids(c)
         /\ Winner(b) \in Kids(b) /\ Winner(b) \in Nodes /\ Winner(b) # b
         /\ seat'[b][attacker[b]] = s
         /\ seat'[b][Other(attacker[b])] = seat[b][Other(attacker[b])]
         /\ \A c \in Battles \ {b} : seat'[c] = seat[c]
<1>1. TypeOK /\ b # A /\ b \in Nodes /\ Winner(b) \in Kids(b) /\ Winner(b) \in Nodes
      /\ Winner(b) # b /\ attacker[b] \in {1, 2}
  BY SeatFacts, TreeFacts DEF IInv, ReapedOK, Buried
<1>2. \E c \in Battles : b \in Kids(c)
  BY <1>1 DEF IInv, BornOK
<1>3. seat'[b][attacker[b]] = s /\ \A c \in Battles \ {b} : seat'[c] = seat[c]
  BY <1>1, SeatsElsewhere
<1>4. seat'[b][Other(attacker[b])] = seat[b][Other(attacker[b])]
  <2>1. seat \in [Battles -> Status \X Status] /\ seat[b] \in Status \X Status
    BY <1>1 DEF TypeOK
  <2>2. seat'[b] = [seat[b] EXCEPT ![attacker[b]] = s]
    BY <2>1 DEF Seated
  <2>3. \A t \in Status \X Status, k \in {1, 2} : [t EXCEPT ![k] = s][Other(k)] = t[Other(k)]
    BY DEF Other
  <2> QED  BY <1>1, <2>1, <2>2, <2>3
<1> QED  BY <1>1, <1>2, <1>3, <1>4

LEMMA PassUpEffect ==
  ASSUME IInv, NEW b \in Battles, PassUp(b)
  PROVE  LET w == Winner(b) IN
         /\ w \in Kids(b) /\ w \in Nodes /\ b \in Nodes /\ w # b
         /\ pc[b] = "pass" /\ pc'[b] = "back" /\ \A m \in Nodes \ {b} : pc'[m] = pc[m]
         /\ up[w] # <<>> /\ up'[w] = <<>> /\ Holding(up'[b], Head(up[w]))
         /\ \A m \in Nodes \ {b, w} : up'[m] = up[m]
         /\ seat'[b][attacker[b]] = Head(up[w])
         /\ seat'[b][Other(attacker[b])] = seat[b][Other(attacker[b])]
         /\ \A c \in Battles \ {b} : seat'[c] = seat[c]
         /\ UNCHANGED <<attacker, self, down, fifo>>
<1> DEFINE w == Winner(b)
           s == Head(up[w])
           u == Taken(up, w)
<1>1. /\ pc[b] = "pass" /\ up[w] # <<>> /\ up' = Send(u, b, s) /\ Goto(b, "back")
      /\ Seated(b, attacker[b], s) /\ UNCHANGED <<attacker, self, down, fifo>>
  BY DEF PassUp, Seated
<1>2. w \in Kids(b)
  BY SeatFacts DEF IInv
<1>3. /\ u \in [Nodes -> Seq(Status)] /\ u[w] = <<>> /\ s \in Status
      /\ \A m \in Nodes \ {w} : u[m] = up[m]
  BY <1>1, <1>2, TakenOne
<1> HIDE DEF u, s
<1>4. /\ b \in Nodes /\ \E c \in Battles : b \in Kids(c) /\ w \in Nodes /\ w # b
      /\ seat'[b][attacker[b]] = s
      /\ seat'[b][Other(attacker[b])] = seat[b][Other(attacker[b])]
      /\ \A c \in Battles \ {b} : seat'[c] = seat[c]
  BY <1>1, <1>3, PassSeats
<1>5. pc'[b] = "back" /\ \A m \in Nodes \ {b} : pc'[m] = pc[m]
  BY <1>1, <1>4, Goes DEF IInv, Points
<1>6. ~Waits(b)
  BY <1>1 DEF Waits
<1>7. up[b] = <<>> /\ u[b] = <<>>
  BY <1>3, <1>4, <1>6, Around DEF Edge
<1>8. Holding(up'[b], s) /\ \A m \in Nodes \ {b} : up'[m] = u[m]
  BY <1>1, <1>3, <1>4, <1>7, SentOne DEF Holding
<1> QED  BY <1>1, <1>2, <1>3, <1>4, <1>5, <1>8 DEF s

LEMMA PassDownEffect ==
  ASSUME IInv, NEW b \in Battles, PassDown(b)
  PROVE  LET w == Winner(b) IN
         /\ w \in Kids(b) /\ w \in Nodes /\ b \in Nodes /\ w # b /\ b # A
         /\ pc[b] = "back" /\ pc'[b] \in {"pass", "last"} /\ \A m \in Nodes \ {b} : pc'[m] = pc[m]
         /\ down[b] # <<>> /\ down'[b] = <<>> /\ Holding(down'[w], Head(down[b]))
         /\ \A m \in Nodes \ {b, w} : down'[m] = down[m]
         /\ seat'[b][attacker[b]] = Head(down[b])
         /\ seat'[b][Other(attacker[b])] = seat[b][Other(attacker[b])]
         /\ \A c \in Battles \ {b} : seat'[c] = seat[c]
         /\ UNCHANGED <<attacker, self, up, fifo>>
<1> DEFINE w == Winner(b)
           s == Head(down[b])
           d == Taken(down, b)
<1>1. /\ pc[b] = "back" /\ down[b] # <<>> /\ down' = Send(d, w, s)
      /\ Goto(b, IF Leaves(s) THEN "last" ELSE "pass")
      /\ Seated(b, attacker[b], s) /\ UNCHANGED <<attacker, self, up, fifo>>
  BY DEF PassDown, Seated
<1>2. w \in Kids(b) /\ \E c \in Battles : b \in Kids(c)
  BY <1>1, SeatFacts, TreeFacts DEF IInv, BornOK, ReapedOK, Buried
<1>3. /\ d \in [Nodes -> Seq(Status)] /\ d[b] = <<>> /\ s \in Status
      /\ \A m \in Nodes \ {b} : d[m] = down[m]
  BY <1>1, <1>2, TakenOne
<1> HIDE DEF d, s
<1>4. /\ b \in Nodes /\ w \in Nodes /\ w # b /\ b # A
      /\ seat'[b][attacker[b]] = s
      /\ seat'[b][Other(attacker[b])] = seat[b][Other(attacker[b])]
      /\ \A c \in Battles \ {b} : seat'[c] = seat[c]
  BY <1>1, <1>3, PassSeats
<1>5. pc'[b] \in {"pass", "last"} /\ \A m \in Nodes \ {b} : pc'[m] = pc[m]
  BY <1>1, <1>4, Goes DEF IInv, Points
<1>6. d[w] = <<>>
  <2>1. Edge(b, w) /\ Holds(b, w)
    BY <1>1, <1>2, Around DEF Holds
  <2> QED  BY <1>3, <1>4, <2>1 DEF Edge
<1>7. Holding(down'[w], s) /\ \A m \in Nodes \ {w} : down'[m] = d[m]
  BY <1>1, <1>3, <1>4, <1>6, SentOne DEF Holding
<1> QED  BY <1>1, <1>2, <1>3, <1>4, <1>5, <1>7 DEF s

\* p enters its battle with s.
Entered(p, s) ==
  /\ pc[p] \in {"start", "open"} /\ pc'[p] = "read" /\ \A m \in Nodes \ {p} : pc'[m] = pc[m]
  /\ self'[p] = s /\ \A q \in Players \ {p} : self'[q] = self[q]
  /\ Holding(up'[p], s) /\ \A m \in Nodes \ {p} : up'[m] = up[m]
  /\ UNCHANGED <<attacker, seat, down>>

LEMMA EnterEffect ==
  ASSUME IInv, NEW p \in Players, pc[p] \in {"start", "open"}, NEW s \in Status, Enter(p, s),
         UNCHANGED <<attacker, seat, down>>
  PROVE  Entered(p, s)
<1>1. p \in Nodes /\ Goto(p, "read") /\ up' = Send(up, p, s) /\ self' = [self EXCEPT ![p] = s]
  BY DEF Nodes, Enter
<1>2. pc'[p] = "read" /\ \A m \in Nodes \ {p} : pc'[m] = pc[m]
  BY <1>1, Goes DEF IInv, Points
<1>3. up[p] = <<>> /\ up \in [Nodes -> Seq(Status)] /\ self \in [Players -> Status]
  <2>1. \E c \in Battles : p \in Kids(c)
    BY <1>1, NodesAssumption DEF IInv, BornOK
  <2> QED  BY <2>1, Around DEF Edge, Waits, IInv, TypeOK
<1>4. Holding(up'[p], s) /\ \A m \in Nodes \ {p} : up'[m] = up[m]
  BY <1>1, <1>3, SentOne DEF Holding
<1> QED  BY <1>1, <1>2, <1>3, <1>4 DEF Entered

\* p reads the answer of its battle, and the answer only.
LEMMA AnswerRead ==
  ASSUME IInv, NEW p \in Players, pc[p] = "read", down[p] # <<>>, down' = Taken(down, p)
  PROVE  /\ p \in Nodes /\ \E c \in Battles : p \in Kids(c)
         /\ down'[p] = <<>> /\ \A m \in Nodes \ {p} : down'[m] = down[m]
         /\ up[p] = <<>> /\ up \in [Nodes -> Seq(Status)] /\ self \in [Players -> Status]
         /\ Head(down[p]) \in Status /\ Told(Head(down[p])) /\ original[p] \in Nat
<1>1. p \in Nodes /\ \E c \in Battles : p \in Kids(c)
  BY NodesAssumption DEF Nodes, IInv, BornOK
<1> QED  BY <1>1, TakenOne, Around, ReadFacts DEF Edge, IInv, TypeOK

LEMMA ContinueEffect ==
  ASSUME IInv, NEW p \in Players, Continue(p)
  PROVE  /\ p \in Nodes /\ pc[p] = "read" /\ pc' = pc
         /\ down[p] # <<>> /\ down'[p] = <<>> /\ \A m \in Nodes \ {p} : down'[m] = down[m]
         /\ self'[p].id = Head(down[p]).id /\ \A q \in Players \ {p} : self'[q] = self[q]
         /\ Holding(up'[p], self'[p]) /\ \A m \in Nodes \ {p} : up'[m] = up[m]
         /\ UNCHANGED <<attacker, seat, fifo>>
<1> DEFINE s == Head(down[p])
           t == IF s.ended THEN Recovered(s, original[p]) ELSE s
<1>1. /\ pc[p] = "read" /\ down[p] # <<>> /\ down' = Taken(down, p)
      /\ self' = [self EXCEPT ![p] = t] /\ up' = Send(up, p, t)
      /\ UNCHANGED <<pc, attacker, seat, fifo>>
  BY DEF Continue
<1>2. /\ p \in Nodes /\ down'[p] = <<>> /\ \A m \in Nodes \ {p} : down'[m] = down[m]
      /\ up[p] = <<>> /\ up \in [Nodes -> Seq(Status)] /\ self \in [Players -> Status]
      /\ s \in Status /\ Told(s) /\ original[p] \in Nat
  BY <1>1, AnswerRead
<1>3. t.id = s.id
  BY <1>2 DEF Recovered, Status
<1> HIDE DEF t
<1>4. self'[p] = t /\ \A q \in Players \ {p} : self'[q] = self[q]
  BY <1>1, <1>2
<1>5. t \in Status
  <2>1. PICK r \in Status : self' = [self EXCEPT ![p] = r]
    BY ContinueFacts
  <2> QED  BY <1>2, <1>4, <2>1
<1>6. Holding(up'[p], t) /\ \A m \in Nodes \ {p} : up'[m] = up[m]
  BY <1>1, <1>2, <1>5, SentOne DEF Holding
<1> QED  BY <1>1, <1>2, <1>3, <1>4, <1>6

\* p reads that its part is over.
Left(p) ==
  /\ p \in Nodes /\ pc[p] = "read" /\ pc'[p] \in {"open", "exited"}
  /\ \A m \in Nodes \ {p} : pc'[m] = pc[m]
  /\ down[p] # <<>> /\ down'[p] = <<>> /\ \A m \in Nodes \ {p} : down'[m] = down[m]
  /\ self'[p].id = Head(down[p]).id /\ self'[p].at = Head(down[p]).at
  /\ \A q \in Players \ {p} : self'[q] = self[q]
  /\ pc'[p] = "open" => p \in Real /\ Head(down[p]).hp <= 0 /\ Head(down[p]).at # A
  /\ UNCHANGED <<attacker, seat, up, fifo>>

LEMMA LeaveEffect ==
  ASSUME IInv, NEW p \in Players, Retire(p) \/ Lose(p)
  PROVE  Left(p)
<1> DEFINE s == Head(down[p])
<1>1. /\ pc[p] = "read" /\ down[p] # <<>> /\ down' = Taken(down, p)
      /\ UNCHANGED <<attacker, seat, up, fifo>>
  BY DEF Retire, Lose
<1>2. /\ p \in Nodes /\ down'[p] = <<>> /\ \A m \in Nodes \ {p} : down'[m] = down[m]
      /\ self \in [Players -> Status] /\ s \in Status /\ original[p] \in Nat
  BY <1>1, AnswerRead
<1>3. CASE Retire(p)
  <2>1. Goto(p, "exited") /\ self' = [self EXCEPT ![p] = s]
    BY <1>3 DEF Retire
  <2>2. pc'[p] = "exited" /\ \A m \in Nodes \ {p} : pc'[m] = pc[m]
    BY <1>2, <2>1, Goes DEF IInv, Points
  <2> QED  BY <1>1, <1>2, <2>1, <2>2 DEF Left
<1>4. CASE Lose(p)
  <2>1. /\ Goto(p, "open") /\ self' = [self EXCEPT ![p] = Revived(s, original[p])]
        /\ p \in Real /\ s.hp <= 0 /\ s.at # A
    BY <1>4 DEF Lose
  <2>2. pc'[p] = "open" /\ \A m \in Nodes \ {p} : pc'[m] = pc[m]
    BY <1>2, <2>1, Goes DEF IInv, Points
  <2>3. Revived(s, original[p]).id = s.id /\ Revived(s, original[p]).at = s.at
    BY <1>2 DEF Revived, Status
  <2>4. self'[p].id = s.id /\ self'[p].at = s.at /\ \A q \in Players \ {p} : self'[q] = self[q]
    BY <1>2, <2>1, <2>3
  <2> QED  BY <1>1, <1>2, <2>1, <2>2, <2>4 DEF Left
<1> QED  BY <1>3, <1>4

LEMMA WriteFifoEffect ==
  ASSUME IInv, NEW p \in Players, WriteFifo(p)
  PROVE  LET a == Agent[self[p].at] IN
         /\ p \in Real /\ p \in Nodes /\ pc[p] = "open" /\ pc'[p] = "exited" /\ pc[a] = "open"
         /\ \A m \in Nodes \ {p} : pc'[m] = pc[m]
         /\ a \in Agents => fifo'[a] = Append(fifo[a], self[p])
         /\ \A c \in Agents \ {a} : fifo'[c] = fifo[c]
         /\ UNCHANGED <<attacker, seat, self, up, down>>
<1> DEFINE a == Agent[self[p].at]
<1>1. /\ p \in Real /\ p \in Nodes /\ pc[p] = "open" /\ Goto(p, "exited") /\ pc[a] = "open"
      /\ fifo' = Send(fifo, a, self[p]) /\ UNCHANGED <<attacker, seat, self, up, down>>
  BY DEF WriteFifo, AgentFor, Nodes
<1>2. pc'[p] = "exited" /\ \A m \in Nodes \ {p} : pc'[m] = pc[m]
  BY <1>1, Goes DEF IInv, Points
<1> HIDE DEF a
<1>3. fifo \in [Agents -> Seq(Status)] /\ self[p] \in Status
  BY DEF IInv, TypeOK
<1>4. a \in Agents => fifo'[a] = Append(fifo[a], self[p])
  BY <1>1, <1>3 DEF Send
<1>5. \A c \in Agents \ {a} : fifo'[c] = fifo[c]
  BY <1>1, <1>3 DEF Send
<1> QED  BY <1>1, <1>2, <1>4, <1>5 DEF a

-----------------------------------------------------------------------------
(* What is for ever.                                                       *)

\* The loser of c stays its loser.
Settled(c) ==
  Decided(c) => /\ Decided(c)' /\ attacker'[c] = attacker[c]
                /\ seat'[c][Other(attacker[c])] = seat[c][Other(attacker[c])]

Forever ==
  /\ \A c \in Battles : Settled(c)
  /\ \A q \in Players : pc[q] = "exited" => pc'[q] = "exited" /\ self'[q] = self[q]

LEMMA BattleForever ==
  ASSUME IInv, NEW b \in Battles, Battle(b)
  PROVE  Forever
<1>0. b \in Nodes /\ b \notin Players /\ Players \subseteq Nodes /\ Battles \subseteq Nodes
  BY TreeFacts DEF Nodes
<1>1. self' = self
  BY DEF Battle, Fork, ReadFirst, Play, Reap, PassUp, PassDown, Finish
<1>2. CASE Fork(b)
  <2>1. /\ pc[b] = "start" /\ UNCHANGED <<seat, attacker>>
        /\ \A m \in Nodes : m # b /\ m \notin Kids(b) => pc'[m] = pc[m]
        /\ \A m \in Kids(b) : pc[m] = "unborn"
    BY <1>0, <1>2, Around DEF Fork, Edge
  <2> QED  BY <1>0, <1>1, <2>1 DEF Forever, Settled, Decided
<1>3. ASSUME \A m \in Nodes \ {b} : pc'[m] = pc[m],
             \A c \in Battles \ {b} : seat'[c] = seat[c] /\ attacker'[c] = attacker[c], Settled(b)
      PROVE  Forever
  <2>1. \A q \in Players : pc[q] = "exited" => pc'[q] = "exited" /\ self'[q] = self[q]
    BY <1>0, <1>1, <1>3
  <2>2. \A c \in Battles \ {b} : Settled(c)
    BY <1>0, <1>3 DEF Settled, Decided
  <2> QED  BY <1>3, <2>1, <2>2 DEF Forever
<1>4. CASE ReadFirst(b)
  <2>1. Settled(b)
    BY <1>4 DEF ReadFirst, Settled, Decided
  <2> QED  BY <1>3, <1>4, <2>1, ReadFirstEffect
<1>5. CASE Play(b)
  <2>1. PICK s, k : Played(b, s, k)
    BY <1>5, PlayEffect
  <2>2. Settled(b)
    BY <1>5 DEF Play, Settled, Decided
  <2>3. /\ \A m \in Nodes \ {b} : pc'[m] = pc[m]
        /\ \A c \in Battles \ {b} : seat'[c] = seat[c] /\ attacker'[c] = attacker[c]
    BY <2>1 DEF Played, IInv, TypeOK
  <2> QED  BY <1>3, <2>2, <2>3
<1>6. CASE Reap(b) \/ Finish(b)
  <2>1. /\ Goto(b, "last") \/ Goto(b, "pass") \/ Goto(b, "exited")
        /\ UNCHANGED <<seat, attacker>>
    BY <1>6 DEF Reap, Finish
  <2>2. pc'[b] \in {"last", "pass", "exited"} /\ \A m \in Nodes \ {b} : pc'[m] = pc[m]
    BY <1>0, <2>1, Goes DEF IInv, Points
  <2>3. Settled(b)
    BY <2>1, <2>2 DEF Settled, Decided
  <2> QED  BY <1>3, <2>1, <2>2, <2>3
<1>7. CASE PassUp(b)
  <2>1. Settled(b)
    BY <1>7, PassUpEffect DEF Settled, Decided
  <2> QED  BY <1>3, <1>7, <2>1, PassUpEffect
<1>8. CASE PassDown(b)
  <2>1. Settled(b)
    BY <1>8, PassDownEffect DEF Settled, Decided
  <2> QED  BY <1>3, <1>8, <2>1, PassDownEffect
<1> QED  BY <1>2, <1>4, <1>5, <1>6, <1>7, <1>8 DEF Battle

LEMMA NextForever ==
  ASSUME IInv, [Next]_vars
  PROVE  Forever
<1>1. ASSUME NEW p \in Players, Player(p) PROVE Forever
  <2>1. /\ p \in Nodes /\ p \notin Battles /\ pc[p] # "exited" /\ attacker' = attacker
        /\ \A m \in Nodes \ {p} : pc'[m] = pc[m]
    BY <1>1, PlayerMoves
  <2>2. seat' = seat
    BY <1>1 DEF Player, ReadFile, OpenToRead, ReadFifo, Continue, Retire, Lose, WriteFifo
  <2>3. self' = self \/ \E t : self' = [self EXCEPT ![p] = t]
    BY <1>1 DEF Player, ReadFile, OpenToRead, ReadFifo, Continue, Retire, Lose, WriteFifo, Enter
  <2>4. \A q \in Players \ {p} : self'[q] = self[q]
    BY <2>3 DEF IInv, TypeOK
  <2>5. Players \subseteq Nodes /\ Battles \subseteq Nodes
    BY DEF Nodes
  <2> QED  BY <2>1, <2>2, <2>4, <2>5 DEF Forever, Settled, Decided
<1>2. CASE UNCHANGED vars
  BY <1>2 DEF vars, Forever, Settled, Decided
<1> QED  BY <1>1, <1>2, BattleForever DEF Next, Terminating

LEMMA FallenStays ==
  ASSUME Forever, NEW s \in Status, Fallen(s)
  PROVE  Fallen(s)'
BY DEF Forever, Settled, Fallen, Status

-----------------------------------------------------------------------------
(* The parts of the invariant, for any step.                               *)

LEMMA Carries ==
  ASSUME NEW n \in Nodes
  PROVE  /\ n \in Players => (Carried(n) = self[n].id /\ Carried(n)' = self'[n].id)
         /\ n \in Battles => /\ Carried(n) = seat[n][attacker[n]].id
                             /\ Carried(n)' = seat'[n][attacker'[n]].id
         /\ n \in Battles \/ n \in Players
BY NodesAssumption DEF Carried, Nodes

LEMMA NamesStep ==
  ASSUME IInv, IInv', NamesOK,
         \A n \in Nodes : Waits(n) /\ Waits(n)' => Carried(n)' = Carried(n),
         \A n \in Nodes : up'[n] # <<>> => up'[n] = up[n] \/ Head(up'[n]).id = Carried(n)',
         \A n \in Nodes : down'[n] # <<>> => down'[n] = down[n] \/ Head(down'[n]).id = Carried(n)',
         \A b \in Battles : pc'[b] = "second" =>
           \/ pc[b] = "second" /\ seat'[b] = seat[b]
           \/ seat'[b][1].id = Carried(Children[b][1])',
         \A b \in Battles : pc'[b] = "back" =>
           \/ pc[b] = "back" /\ seat'[b] = seat[b] /\ attacker'[b] = attacker[b]
           \/ seat'[b][attacker'[b]].id = Carried(Winner(b))',
         \A p \in Real : pc'[p] \in {"read", "open", "exited"} => self'[p].id = p
  PROVE  NamesOK'
<1>1. ASSUME NEW b \in Battles, NEW n \in Kids(b) PROVE Named(b, n)'
  <2>1. n \in Nodes /\ Edge(b, n) /\ Edge(b, n)' /\ Named(b, n)
    BY TreeFacts DEF IInv, EdgesOK, NamesOK
  <2>2. up'[n] # <<>> => Head(up'[n]).id = Carried(n)'
    BY <2>1 DEF Edge, Named
  <2>3. down'[n] # <<>> => Head(down'[n]).id = Carried(n)'
    BY <2>1 DEF Edge, Named
  <2>4. pc'[b] = "second" /\ n = Children[b][1] => seat'[b][1].id = Carried(n)'
    BY <2>1 DEF Edge, Named, Holds
  <2>5. ASSUME pc'[b] = "back", n = Winner(b)' PROVE seat'[b][attacker'[b]].id = Carried(n)'
    <3>1. CASE seat'[b][attacker'[b]].id = Carried(Winner(b))'
      BY <2>5, <3>1 DEF Carried
    <3>2. CASE pc[b] = "back" /\ seat'[b] = seat[b] /\ attacker'[b] = attacker[b]
      BY <2>1, <2>5, <3>2 DEF Edge, Named, Holds, Winner
    <3> QED  BY <2>5, <3>1, <3>2
  <2> QED  BY <2>2, <2>3, <2>4, <2>5 DEF Named
<1> QED  BY <1>1 DEF NamesOK

LEMMA FallenStep ==
  ASSUME IInv, Forever, FallenOK,
         \A b \in Battles : \A n \in Kids(b) : down'[n] # <<>> =>
           \/ down'[n] = down[n]
           \/ /\ Head(down'[n]).hp <= 0 => Fallen(Head(down[n]))'
              /\ InZone(n) => Head(down'[n]).at \in DOMAIN Agent \cup {A},
         \A p \in Real : pc'[p] = "open" =>
           \/ pc[p] = "open" /\ self'[p] = self[p]
           \/ Fallen(self[p])' /\ self'[p].at \in DOMAIN Agent
  PROVE  FallenOK'
<1>1. ASSUME NEW b \in Battles, NEW n \in Kids(b), down'[n] # <<>>
      PROVE  /\ Head(down'[n]).hp <= 0 => Fallen(Head(down[n]))'
             /\ InZone(n) => Head(down'[n]).at \in DOMAIN Agent \cup {A}
  <2>1. CASE down'[n] = down[n]
    <3>1. PICK s \in Status : s = Head(down[n])
      BY <1>1, <2>1, TakenOne
    <3>2. s.hp <= 0 => Fallen(s)'
      BY <1>1, <2>1, <3>1, FallenStays DEF FallenOK
    <3> QED  BY <1>1, <2>1, <3>1, <3>2 DEF FallenOK, Fallen
  <2> QED  BY <1>1, <2>1
<1>2. ASSUME NEW p \in Real, pc'[p] = "open" PROVE Fallen(self[p])' /\ self'[p].at \in DOMAIN Agent
  <2>1. CASE pc[p] = "open" /\ self'[p] = self[p]
    <3>1. PICK s \in Status : s = self[p]
      BY DEF IInv, TypeOK, Players
    <3>2. Fallen(s)'
      BY <2>1, <3>1, FallenStays DEF FallenOK
    <3> QED  BY <2>1, <3>1, <3>2 DEF FallenOK, Fallen
  <2> QED  BY <1>2, <2>1
<1> QED  BY <1>1, <1>2 DEF FallenOK

LEMMA AgentsStep ==
  ASSUME IInv, Forever, AgentsOK,
         \A a \in Agents :
           \/ AgentOK(a)'
           \/ /\ fifo'[a] = fifo[a] /\ (pc'[a] = "read" <=> pc[a] = "read")
              /\ pc[a] = "open" => pc'[a] = "open"
              /\ pc[a] = "read" => self'[a].id = self[a].id
  PROVE  AgentsOK'
<1> SUFFICES ASSUME NEW a \in Agents, fifo'[a] = fifo[a], pc'[a] = "read" <=> pc[a] = "read",
                    pc[a] = "open" => pc'[a] = "open",
                    pc[a] = "read" => self'[a].id = self[a].id
             PROVE  AgentOK(a)'
  BY DEF AgentsOK
<1>1. AgentOK(a)
  BY DEF AgentsOK
<1>2. ASSUME pc[a] = "read" \/ fifo[a] # <<>>
      PROVE  \E i \in Real : /\ i = StandIn(a)' /\ pc'[i] = "exited" /\ Fallen(self[i])'
                             /\ self'[i].at \in DOMAIN Agent /\ Agent[self'[i].at] = a
  <2>1. StandIn(a)' = StandIn(a)
    BY <1>2 DEF StandIn
  <2>2. PICK i \in Real : i = StandIn(a)
    BY <1>1, <1>2 DEF AgentOK
  <2>3. i \in Players /\ self[i] \in Status
    BY DEF Players, IInv, TypeOK
  <2>4. PICK s \in Status : s = self[i]
    BY <2>3
  <2>5. /\ pc[i] = "exited" /\ Fallen(s) /\ s.at \in DOMAIN Agent /\ Agent[s.at] = a
    BY <1>1, <1>2, <2>2, <2>4 DEF AgentOK
  <2>6. pc'[i] = "exited" /\ self'[i] = s
    BY <2>3, <2>4, <2>5 DEF Forever
  <2>7. Fallen(s)'
    BY <2>5, FallenStays
  <2>8. Fallen(self[i])'
    BY <2>6, <2>7 DEF Fallen
  <2> QED  BY <2>1, <2>2, <2>5, <2>6, <2>8 DEF Fallen
<1> QED  BY <1>1, <1>2 DEF AgentOK, Fallen

\* A player's top moves from x to y, and the others stay.
LEMMA TopsStep ==
  ASSUME TopsOK, NEW x \in Nodes, NEW y \in Nodes,
         \A n \in Nodes : Top(n)' =>
           \/ n # x /\ n # y /\ Top(n) /\ Carried(n)' = Carried(n)
           \/ n = y /\ Top(x) /\ Carried(y)' = Carried(x),
         \A q \in Real : pc'[q] \in {"unborn", "start", "open"} =>
           \/ pc[q] \in {"unborn", "start", "open"}
           \/ \A n \in Nodes : Top(n)' => Carried(n)' # q,
         \A a \in Agents : fifo'[a] # <<>> => fifo'[a] = fifo[a] \/ pc[Head(fifo'[a]).id] = "open"
  PROVE  TopsOK'
<1>1. \A n \in Nodes : Top(n)' => \E m \in Nodes :
        /\ Top(m) /\ Carried(n)' = Carried(m) /\ m = IF n = y THEN x ELSE n
  OBVIOUS
<1>2. ASSUME NEW m \in Nodes, NEW n \in Nodes, Top(m)', Top(n)', Carried(m)' = Carried(n)'
      PROVE  m = n
  BY <1>2 DEF TopsOK
<1>3. ASSUME NEW n \in Nodes, Top(n)'
      PROVE  /\ Carried(n)' \in Real /\ pc'[Carried(n)'] \notin {"unborn", "start", "open"}
             /\ \A a \in Agents : fifo'[a] # <<>> => Carried(n)' # Head(fifo'[a]).id
  BY <1>1, <1>3 DEF TopsOK
<1> QED  BY <1>2, <1>3 DEF TopsOK

-----------------------------------------------------------------------------
(* The steps of battles.                                                   *)

\* A step that only moves processes to calls where nobody waits.
LEMMA QuietPlaces ==
  ASSUME IInv, IInv', PlacesOK, Forever, UNCHANGED <<seat, attacker, self, up, down, fifo>>,
         \A n \in Nodes : pc'[n] \in {"second", "back", "read"} => pc'[n] = pc[n],
         \A n \in Nodes : pc[n] \in {"back", "read"} => pc'[n] = pc[n],
         \A p \in Real : pc'[p] \in {"open", "exited"} => pc'[p] = pc[p],
         \A p \in Real : pc'[p] \in {"unborn", "start"} => pc[p] \in {"unborn", "start"},
         \A a \in Agents : pc[a] = "open" => pc'[a] = "open"
  PROVE  PlacesOK'
<1>0. Real \subseteq Nodes /\ Agents \subseteq Nodes /\ Battles \subseteq Nodes
  BY DEF Nodes, Players
<1>1. \A n \in Nodes : Carried(n)' = Carried(n)
  BY DEF Carried
<1>2. \A n \in Nodes : Waits(n)' <=> Waits(n)
  BY DEF Waits
<1>3. NamesOK'
  BY <1>0, <1>1, NamesStep DEF PlacesOK, NamesOK
<1>4. FallenOK'
  BY <1>0, FallenStep DEF PlacesOK
<1>5. AgentsOK'
  BY <1>0, AgentsStep DEF PlacesOK
<1>6. \A n \in Nodes : Top(n)' => Top(n) /\ Carried(n)' = Carried(n)
  <2>1. \A b \in Battles : Winner(b)' = Winner(b) /\ (pc[b] = "back" => pc'[b] = "back")
    BY <1>0 DEF Winner
  <2> QED  BY <1>1, <1>2, <2>1 DEF Top
<1>7. TopsOK'
  <2>1. A \in Nodes
    BY NodesAssumption DEF Nodes
  <2>2. \A q \in Real : pc'[q] \in {"unborn", "start", "open"} => pc[q] \in {"unborn", "start", "open"}
    OBVIOUS
  <2> QED  BY <1>6, <2>1, <2>2, TopsStep DEF PlacesOK
<1> QED  BY <1>3, <1>4, <1>5, <1>7 DEF PlacesOK

\* A step of battle b leaves the other processes alone.
Alone(b) ==
  /\ UNCHANGED <<self, fifo>>
  /\ \A m \in Nodes \ {b} : pc'[m] = pc[m]
  /\ \A c \in Battles \ {b} : seat'[c] = seat[c] /\ attacker'[c] = attacker[c]

LEMMA OthersAlone ==
  ASSUME IInv, NEW b \in Battles, Alone(b)
  PROVE  /\ \A n \in Nodes \ {b} : Carried(n)' = Carried(n) /\ (Waits(n)' <=> Waits(n))
         /\ \A c \in Battles \ {b} : Winner(c)' = Winner(c) /\ pc'[c] = pc[c]
         /\ \A p \in Players : p \in Nodes /\ p # b /\ pc'[p] = pc[p] /\ self'[p] = self[p]
<1>1. b \notin Players /\ Players \subseteq Nodes /\ Battles \subseteq Nodes
  BY TreeFacts DEF Nodes
<1>2. ASSUME NEW n \in Nodes \ {b} PROVE Carried(n)' = Carried(n)
  BY <1>2, Carries DEF Alone
<1>3. \A n \in Nodes \ {b} : Waits(n)' <=> Waits(n)
  BY DEF Alone, Waits
<1>4. \A c \in Battles \ {b} : Winner(c)' = Winner(c) /\ pc'[c] = pc[c]
  BY <1>1 DEF Alone, Winner
<1> QED  BY <1>1, <1>2, <1>3, <1>4 DEF Alone

\* What is left to show of it: the names on the edges, and where tops go.
LEMMA BattlePlaces ==
  ASSUME IInv, IInv', PlacesOK, Forever, NEW b \in Battles, Alone(b),
         Waits(b) /\ Waits(b)' => Carried(b)' = Carried(b),
         \A n \in Nodes : up'[n] # <<>> => up'[n] = up[n] \/ Head(up'[n]).id = Carried(n)',
         \A n \in Nodes : down'[n] # <<>> => down'[n] = down[n] \/ Head(down'[n]).id = Carried(n)',
         pc'[b] = "second" => seat'[b][1].id = Carried(Children[b][1])',
         pc'[b] = "back" => seat'[b][attacker'[b]].id = Carried(Winner(b))',
         \A c \in Battles : \A n \in Kids(c) : down'[n] # <<>> =>
           \/ down'[n] = down[n]
           \/ /\ Head(down'[n]).hp <= 0 => Fallen(Head(down[n]))'
              /\ InZone(n) => Head(down'[n]).at \in DOMAIN Agent \cup {A},
         NEW x \in Nodes, NEW y \in Nodes,
         \A n \in Nodes : Top(n)' =>
           \/ n # x /\ n # y /\ Top(n) /\ Carried(n)' = Carried(n)
           \/ n = y /\ Top(x) /\ Carried(y)' = Carried(x)
  PROVE  PlacesOK'
<1>1. /\ \A n \in Nodes \ {b} : Carried(n)' = Carried(n) /\ (Waits(n)' <=> Waits(n))
      /\ \A c \in Battles \ {b} : Winner(c)' = Winner(c) /\ pc'[c] = pc[c]
      /\ \A p \in Players : p \in Nodes /\ p # b /\ pc'[p] = pc[p] /\ self'[p] = self[p]
  BY OthersAlone
<1>2. Real \subseteq Players /\ Agents \subseteq Players
  BY DEF Players
<1>3. NamesOK'
  <2>1. \A n \in Nodes : Waits(n) /\ Waits(n)' => Carried(n)' = Carried(n)
    BY <1>1
  <2>2. \A c \in Battles : pc'[c] = "second" =>
           \/ pc[c] = "second" /\ seat'[c] = seat[c]
           \/ seat'[c][1].id = Carried(Children[c][1])'
    BY <1>1 DEF Alone
  <2>3. ASSUME NEW c \in Battles, pc'[c] = "back"
        PROVE  \/ pc[c] = "back" /\ seat'[c] = seat[c] /\ attacker'[c] = attacker[c]
               \/ seat'[c][attacker'[c]].id = Carried(Winner(c))'
    BY <1>1, <2>3 DEF Alone
  <2>4. \A p \in Real : pc'[p] \in {"read", "open", "exited"} => self'[p].id = p
    BY <1>1, <1>2 DEF PlacesOK, NamesOK
  <2> QED  BY <2>1, <2>2, <2>3, <2>4, NamesStep DEF PlacesOK
<1>4. FallenOK'
  BY <1>1, <1>2, FallenStep DEF PlacesOK
<1>5. AgentsOK'
  <2>1. fifo' = fifo /\ \A a \in Agents : pc'[a] = pc[a] /\ self'[a] = self[a]
    BY <1>1, <1>2 DEF Alone
  <2> QED  BY <2>1, AgentsStep DEF PlacesOK
<1>6. TopsOK'
  <2>1. fifo' = fifo /\ \A q \in Real : pc'[q] = pc[q]
    BY <1>1, <1>2 DEF Alone
  <2> QED  BY <2>1, TopsStep DEF PlacesOK
<1> QED  BY <1>3, <1>4, <1>5, <1>6 DEF PlacesOK

LEMMA ReadFirstPlaces ==
  ASSUME IInv, IInv', PlacesOK, Forever, NEW b \in Battles, ReadFirst(b)
  PROVE  PlacesOK'
<1> DEFINE n == Children[b][1]
<1>1. /\ pc[b] = "first" /\ pc'[b] = "second" /\ up[n] # <<>> /\ up'[n] = <<>>
      /\ \A m \in Nodes \ {n} : up'[m] = up[m]
      /\ seat'[b][1] = Head(up[n]) /\ Alone(b) /\ UNCHANGED <<attacker, down>>
  BY ReadFirstEffect DEF Alone
<1>2. b \in Nodes /\ n \in Kids(b) /\ n \in Nodes /\ n # b
  BY TreeFacts
<1>3. /\ \A m \in Nodes \ {b} : Carried(m)' = Carried(m) /\ (Waits(m)' <=> Waits(m))
      /\ \A c \in Battles \ {b} : Winner(c)' = Winner(c) /\ pc'[c] = pc[c]
  BY <1>1, OthersAlone
<1>4. Named(b, n)
  BY <1>2 DEF PlacesOK, NamesOK
<1>5. seat'[b][1].id = Carried(n)'
  BY <1>1, <1>2, <1>3, <1>4 DEF Named
<1>6. ~Waits(b)' /\ pc'[b] # "back"
  BY <1>1 DEF Waits
<1>7. \A m \in Nodes : Top(m)' => m # b /\ Top(m) /\ Carried(m)' = Carried(m)
  BY <1>1, <1>3, <1>6 DEF Top
<1>8. \A m \in Nodes : up'[m] # <<>> => up'[m] = up[m]
  BY <1>1
<1> HIDE DEF n
<1> QED  BY <1>1, <1>2, <1>5, <1>6, <1>7, <1>8, BattlePlaces DEF n

LEMMA PlayPlaces ==
  ASSUME IInv, IInv', PlacesOK, Forever, NEW b \in Battles, Play(b)
  PROVE  PlacesOK'
<1> DEFINE m == Children[b][1]
           n == Children[b][2]
<1>1. PICK s, k : /\ Played(b, s, k)
                  /\ s[1].id = seat[b][1].id /\ s[2].id = Head(up[n]).id
  BY PlayEffect
<1>2. /\ m \in Kids(b) /\ n \in Kids(b) /\ m # n /\ m # b /\ n # b /\ Kids(b) = {m, n}
      /\ m \in Nodes /\ n \in Nodes /\ b \in Nodes
  BY TreeFacts DEF Kids
<1>3. pc[b] = "second" /\ up[n] # <<>> /\ UNCHANGED <<self, fifo>>
  BY DEF Play
<1>4. /\ Fought(b, s, k) /\ seat'[b] = s /\ attacker'[b] = k
      /\ \A c \in Battles \ {b} : seat'[c] = seat[c] /\ attacker'[c] = attacker[c]
      /\ pc'[b] = IF s[1].ended THEN "reap" ELSE "first"
      /\ \A x \in Nodes \ {b} : pc'[x] = pc[x]
      /\ \A x \in Nodes : up'[x] # <<>> => up'[x] = up[x]
      /\ Holding(down'[m], s[1]) /\ Holding(down'[n], s[2])
      /\ \A x \in Nodes \ {m, n} : down'[x] = down[x]
  BY <1>1 DEF Played, IInv, TypeOK
<1>5. Alone(b)
  BY <1>3, <1>4 DEF Alone
<1>6. /\ \A x \in Nodes \ {b} : Carried(x)' = Carried(x) /\ (Waits(x)' <=> Waits(x))
      /\ \A c \in Battles \ {b} : Winner(c)' = Winner(c) /\ pc'[c] = pc[c]
  BY <1>5, OthersAlone
<1>7. Head(down'[m]).id = Carried(m)' /\ Head(down'[n]).id = Carried(n)'
  <2>1. Named(b, m) /\ Named(b, n)
    BY <1>2 DEF PlacesOK, NamesOK
  <2> QED  BY <1>1, <1>2, <1>3, <1>4, <1>6, <2>1 DEF Named, Holding
<1>8. ASSUME NEW i \in {1, 2} PROVE s[i].hp <= 0 => Fallen(s[i])'
  <2>1. s[i].hp <= 0 => s[1].ended /\ i = Other(k)
    BY <1>4 DEF Fought, Status, Other
  <2>2. s[i].at = b
    BY <1>4 DEF Fought
  <2> QED  BY <1>4, <2>1, <2>2 DEF Fallen, Decided
<1>9. \A i \in {1, 2} : s[i].at = b
  BY <1>4 DEF Fought
<1>10. \A x \in Kids(b) : InZone(x) => b \in DOMAIN Agent \cup {A}
  BY ZoneAssumption DEF InZone
<1>11. \A c \in Battles : \A x \in Kids(c) : down'[x] # <<>> =>
           \/ down'[x] = down[x]
           \/ /\ Head(down'[x]).hp <= 0 => Fallen(Head(down[x]))'
              /\ InZone(x) => Head(down'[x]).at \in DOMAIN Agent \cup {A}
  <2> SUFFICES ASSUME NEW x \in {m, n}
               PROVE  /\ Head(down'[x]).hp <= 0 => Fallen(Head(down[x]))'
                      /\ InZone(x) => Head(down'[x]).at \in DOMAIN Agent \cup {A}
    BY <1>4, TreeFacts
  <2>1. PICK i \in {1, 2} : Head(down'[x]) = s[i]
    BY <1>4 DEF Holding
  <2>2. x \in Kids(b)
    BY <1>2
  <2>3. s[i].at = b /\ (s[i].hp <= 0 => Fallen(s[i])')
    BY <1>8, <1>9
  <2> QED  BY <1>10, <2>1, <2>2, <2>3 DEF Fallen
<1>12. ~Waits(b)' /\ pc'[b] # "back" /\ pc'[b] # "second"
  BY <1>4 DEF Waits
<1>13. \A x \in Nodes : Top(x)' => x # b /\ Top(x) /\ Carried(x)' = Carried(x)
  BY <1>3, <1>6, <1>12 DEF Top
<1>14. \A x \in Nodes : down'[x] # <<>> => down'[x] = down[x] \/ Head(down'[x]).id = Carried(x)'
  BY <1>4, <1>7
<1> HIDE DEF m, n
<1> QED  BY <1>2, <1>4, <1>5, <1>11, <1>12, <1>13, <1>14, BattlePlaces

LEMMA PassUpPlaces ==
  ASSUME IInv, IInv', PlacesOK, Forever, NEW b \in Battles, PassUp(b)
  PROVE  PlacesOK'
<1>0. PICK w : w = Winner(b)
  OBVIOUS
<1>1. /\ w \in Kids(b) /\ w \in Nodes /\ b \in Nodes /\ w # b
      /\ pc[b] = "pass" /\ pc'[b] = "back"
      /\ up[w] # <<>> /\ up'[w] = <<>> /\ Holding(up'[b], Head(up[w]))
      /\ \A m \in Nodes \ {b, w} : up'[m] = up[m]
      /\ seat'[b][attacker[b]] = Head(up[w]) /\ Alone(b) /\ UNCHANGED <<attacker, down>>
  BY <1>0, PassUpEffect DEF Alone
<1>2. /\ \A m \in Nodes \ {b} : Carried(m)' = Carried(m) /\ (Waits(m)' <=> Waits(m))
      /\ \A c \in Battles \ {b} : Winner(c)' = Winner(c) /\ pc'[c] = pc[c]
  BY <1>1, OthersAlone
<1>3. Winner(b)' = w /\ Edge(b, w) /\ Named(b, w) /\ \A c \in Battles : w \in Kids(c) => c = b
  BY <1>0, <1>1, Around, TreeFacts DEF PlacesOK, NamesOK, Winner
<1>4. Carried(b)' = Carried(w) /\ Carried(w)' = Carried(w) /\ Waits(w) /\ ~Waits(b)
      /\ Head(up'[b]).id = Carried(b)' /\ seat'[b][attacker'[b]].id = Carried(w)'
  BY <1>0, <1>1, <1>2, <1>3, Carries DEF Edge, Named, Waits, Holding
<1>5. Top(w)
  <2>1. \A c \in Battles : pc[c] = "back" => Winner(c) \in Kids(c)
    BY SeatFacts DEF IInv
  <2> QED  BY <1>1, <1>3, <1>4, <2>1 DEF Top
<1>6. ~Top(w)'
  BY <1>1, <1>3 DEF Top
<1>7. \A n \in Nodes : Top(n)' =>
         \/ n # w /\ n # b /\ Top(n) /\ Carried(n)' = Carried(n)
         \/ n = b /\ Top(w) /\ Carried(b)' = Carried(w)
  BY <1>1, <1>2, <1>4, <1>5, <1>6 DEF Top
<1>8. \A n \in Nodes : up'[n] # <<>> => up'[n] = up[n] \/ Head(up'[n]).id = Carried(n)'
  BY <1>1, <1>4
<1>9. seat'[b][attacker'[b]].id = Carried(Winner(b))'
  BY <1>3, <1>4 DEF Carried
<1> QED  BY <1>1, <1>4, <1>7, <1>8, <1>9, BattlePlaces

LEMMA PassDownPlaces ==
  ASSUME IInv, IInv', PlacesOK, Forever, NEW b \in Battles, PassDown(b)
  PROVE  PlacesOK'
<1>0. PICK w : w = Winner(b)
  OBVIOUS
<1>1. /\ w \in Kids(b) /\ w \in Nodes /\ b \in Nodes /\ w # b /\ b # A
      /\ pc[b] = "back" /\ pc'[b] \in {"pass", "last"}
      /\ down[b] # <<>> /\ down'[b] = <<>> /\ Holding(down'[w], Head(down[b]))
      /\ \A m \in Nodes \ {b, w} : down'[m] = down[m]
      /\ seat'[b][attacker[b]] = Head(down[b]) /\ Alone(b) /\ UNCHANGED <<attacker, up>>
  BY <1>0, PassDownEffect DEF Alone
<1>2. /\ \A m \in Nodes \ {b} : Carried(m)' = Carried(m) /\ (Waits(m)' <=> Waits(m))
      /\ \A c \in Battles \ {b} : Winner(c)' = Winner(c) /\ pc'[c] = pc[c]
  BY <1>1, OthersAlone
<1>3. PICK e \in Battles : b \in Kids(e) /\ e # b /\ Edge(e, b) /\ Named(e, b)
  <2>1. PICK e \in Battles : b \in Kids(e)
    BY <1>1 DEF IInv, BornOK
  <2> QED  BY <2>1, Around DEF PlacesOK, NamesOK
<1>4. Winner(b)' = w /\ Named(b, w) /\ \A c \in Battles : w \in Kids(c) => c = b
  BY <1>0, <1>1, TreeFacts DEF PlacesOK, NamesOK, Winner
<1>5. Carried(b) = Carried(w) /\ Carried(w)' = Carried(w) /\ Carried(b)' = Carried(b)
      /\ Head(down[b]).id = Carried(b) /\ Waits(b) /\ ~Holds(e, b)
  BY <1>0, <1>1, <1>2, <1>3, <1>4, Carries DEF Edge, Named, Waits
<1>6. Top(b)
  <2>1. \A c \in Battles : pc[c] = "back" => Winner(c) \in Kids(c)
    BY SeatFacts DEF IInv
  <2>2. \A c \in Battles : pc[c] = "back" => b # Winner(c)
    BY <1>3, <1>5, <2>1, TreeFacts DEF Holds
  <2> QED  BY <1>5, <2>2 DEF Top
<1>7. ~Waits(b)' /\ pc'[b] # "back" /\ pc'[b] # "second"
  BY <1>1 DEF Waits
<1>8. \A n \in Nodes : Top(n)' =>
         \/ n # b /\ n # w /\ Top(n) /\ Carried(n)' = Carried(n)
         \/ n = w /\ Top(b) /\ Carried(w)' = Carried(b)
  <2>1. ASSUME NEW n \in Nodes \ {b, w}, Top(n)' PROVE Top(n) /\ Carried(n)' = Carried(n)
    BY <1>0, <1>1, <1>2, <2>1 DEF Top
  <2> QED  BY <1>5, <1>6, <1>7, <2>1 DEF Top
<1>9. \A n \in Nodes : down'[n] # <<>> => down'[n] = down[n] \/ Head(down'[n]).id = Carried(n)'
  BY <1>1, <1>5 DEF Holding
<1>10. /\ Head(down[b]).hp <= 0 => Fallen(Head(down[b]))
       /\ InZone(w) => Head(down[b]).at \in DOMAIN Agent \cup {A}
  <2>1. InZone(w) => InZone(b)
    BY <1>1, ZoneAssumption DEF InZone
  <2> QED  BY <1>1, <1>3, <2>1 DEF PlacesOK, FallenOK
<1>11. /\ Head(down'[w]).hp <= 0 => Fallen(Head(down[w]))'
       /\ InZone(w) => Head(down'[w]).at \in DOMAIN Agent \cup {A}
  <2>1. PICK s \in Status : s = Head(down[b])
    BY <1>1, <1>3, TakenOne
  <2>2. s.hp <= 0 => Fallen(s)'
    BY <1>10, <2>1, FallenStays
  <2>3. Head(down'[w]) = s
    BY <1>1, <2>1 DEF Holding
  <2> QED  BY <1>10, <2>1, <2>2, <2>3 DEF Fallen
<1>12. \A c \in Battles : \A n \in Kids(c) : down'[n] # <<>> =>
           \/ down'[n] = down[n]
           \/ /\ Head(down'[n]).hp <= 0 => Fallen(Head(down[n]))'
              /\ InZone(n) => Head(down'[n]).at \in DOMAIN Agent \cup {A}
  <2> SUFFICES ASSUME NEW c \in Battles, NEW n \in Kids(c), down'[n] # <<>>
               PROVE  \/ down'[n] = down[n]
                      \/ /\ Head(down'[n]).hp <= 0 => Fallen(Head(down[n]))'
                         /\ InZone(n) => Head(down'[n]).at \in DOMAIN Agent \cup {A}
    OBVIOUS
  <2>1. n \in Nodes
    BY TreeFacts
  <2>2. CASE n = w
    BY <1>11, <2>2 DEF Fallen
  <2> QED  BY <1>1, <2>1, <2>2
<1> QED  BY <1>1, <1>5, <1>7, <1>8, <1>9, <1>12, BattlePlaces

\* A fork, a wait and the end of a battle are between processes that do not wait.
LEMMA WaitPlaces ==
  ASSUME IInv, IInv', PlacesOK, Forever, NEW b \in Battles, Fork(b) \/ Reap(b) \/ Finish(b)
  PROVE  PlacesOK'
<1>1. UNCHANGED <<seat, attacker, self, up, down, fifo>>
  BY DEF Fork, Reap, Finish
<1>2. \A n \in Nodes : \/ pc'[n] = pc[n]
                       \/ n = b /\ pc[n] \in {"start", "reap", "last"}
                                /\ pc'[n] \in {"first", "pass", "last", "exited"}
                       \/ pc[n] = "unborn" /\ pc'[n] = "start"
  <2>1. CASE Fork(b)
    BY <2>1, Around DEF Fork, Edge
  <2>2. CASE Reap(b) \/ Finish(b)
    <3>1. b \in Nodes /\ pc[b] \in {"reap", "last"}
          /\ (Goto(b, "last") \/ Goto(b, "pass") \/ Goto(b, "exited"))
      BY <2>2, TreeFacts DEF Reap, Finish
    <3> QED  BY <3>1, Goes DEF IInv, Points
  <2> QED  BY <2>1, <2>2
<1>3. Real \subseteq Nodes /\ Agents \subseteq Nodes /\ b \notin Real /\ b \notin Agents
  BY TreeFacts DEF Nodes, Players
<1>4. /\ \A n \in Nodes : pc'[n] \in {"second", "back", "read"} => pc'[n] = pc[n]
      /\ \A n \in Nodes : pc[n] \in {"back", "read"} => pc'[n] = pc[n]
  BY <1>2
<1>5. /\ \A p \in Real : pc'[p] \in {"open", "exited"} => pc'[p] = pc[p]
      /\ \A p \in Real : pc'[p] \in {"unborn", "start"} => pc[p] \in {"unborn", "start"}
      /\ \A a \in Agents : pc[a] = "open" => pc'[a] = "open"
  BY <1>2, <1>3
<1> QED  BY <1>1, <1>4, <1>5, QuietPlaces

-----------------------------------------------------------------------------
(* The steps of players.                                                   *)

\* A step of player p leaves the other processes alone.
Apart(p) ==
  /\ UNCHANGED <<seat, attacker>>
  /\ \A m \in Nodes \ {p} : pc'[m] = pc[m]
  /\ \A q \in Players \ {p} : self'[q] = self[q]

LEMMA OthersApart ==
  ASSUME IInv, NEW p \in Players, Apart(p)
  PROVE  /\ p \in Nodes /\ p \notin Battles
         /\ \A n \in Nodes \ {p} : /\ Carried(n)' = Carried(n) /\ (Waits(n)' <=> Waits(n))
                                   /\ Top(n)' => Top(n)
         /\ \A c \in Battles : Winner(c)' = Winner(c) /\ pc'[c] = pc[c]
         /\ \A q \in Players : q \in Nodes /\ (q # p => pc'[q] = pc[q] /\ self'[q] = self[q])
<1>1. p \in Nodes /\ p \notin Battles /\ Players \subseteq Nodes /\ Battles \subseteq Nodes
  BY NodesAssumption DEF Nodes
<1>2. ASSUME NEW n \in Nodes \ {p} PROVE Carried(n)' = Carried(n)
  BY <1>2, Carries DEF Apart
<1>3. \A n \in Nodes \ {p} : Waits(n)' <=> Waits(n)
  BY DEF Apart, Waits
<1>4. \A c \in Battles : Winner(c)' = Winner(c) /\ pc'[c] = pc[c]
  BY <1>1 DEF Apart, Winner
<1>5. \A n \in Nodes \ {p} : Top(n)' => Top(n)
  BY <1>3, <1>4 DEF Top
<1> QED  BY <1>1, <1>2, <1>3, <1>4, <1>5 DEF Apart

\* What is left to show of it for the names.
LEMMA PlayerNames ==
  ASSUME IInv, IInv', PlacesOK, NEW p \in Players, Apart(p),
         Waits(p) /\ Waits(p)' => Carried(p)' = Carried(p),
         \A n \in Nodes \ {p} : up'[n] = up[n] /\ down'[n] = down[n],
         up'[p] # <<>> => up'[p] = up[p] \/ Head(up'[p]).id = Carried(p)',
         down'[p] # <<>> => down'[p] = down[p],
         p \in Real => self'[p].id = p
  PROVE  NamesOK'
<1>1. /\ \A n \in Nodes \ {p} : Carried(n)' = Carried(n)
      /\ \A c \in Battles : Winner(c)' = Winner(c) /\ pc'[c] = pc[c]
      /\ \A q \in Players : q \in Nodes /\ (q # p => pc'[q] = pc[q] /\ self'[q] = self[q])
  BY OthersApart
<1>2. \A q \in Real : pc'[q] \in {"read", "open", "exited"} => self'[q].id = q
  BY <1>1 DEF PlacesOK, NamesOK, Players
<1>3. /\ \A n \in Nodes : Waits(n) /\ Waits(n)' => Carried(n)' = Carried(n)
      /\ \A n \in Nodes : up'[n] # <<>> => up'[n] = up[n] \/ Head(up'[n]).id = Carried(n)'
      /\ \A n \in Nodes : down'[n] # <<>> => down'[n] = down[n]
  BY <1>1
<1>4. seat' = seat /\ attacker' = attacker
  BY DEF Apart
<1> QED  BY <1>1, <1>2, <1>3, <1>4, NamesStep DEF PlacesOK

\* ... and for the fallen, of a player who does not fall.
LEMMA PlayerFallen ==
  ASSUME IInv, PlacesOK, Forever, NEW p \in Players, Apart(p),
         \A n \in Nodes : down'[n] # <<>> => down'[n] = down[n],
         p \in Real => pc'[p] # "open"
  PROVE  FallenOK'
<1>1. \A q \in Real : pc'[q] = "open" => pc[q] = "open" /\ self'[q] = self[q]
  BY OthersApart DEF Players
<1>2. \A b \in Battles : \A n \in Kids(b) : n \in Nodes
  BY TreeFacts
<1> QED  BY <1>1, <1>2, FallenStep DEF PlacesOK

\* Player p enters; an agent takes the place of the player whose status it has read.
LEMMA EnterPlaces ==
  ASSUME IInv, IInv', PlacesOK, Forever, NEW p \in Players, NEW s \in Status, s.id \in Real,
         Entered(p, s), \A a \in Agents \ {p} : fifo'[a] = fifo[a],
         p \in Real => pc[p] = "start" /\ s.id = p,
         p \in Agents => pc[p] = "open" /\ fifo[p] # <<>> /\ s = Head(fifo[p]) /\ fifo'[p] = <<>>
  PROVE  PlacesOK'
<1>1. Apart(p) /\ pc[p] \in {"start", "open"} /\ pc'[p] = "read" /\ self'[p] = s
      /\ Holding(up'[p], s) /\ (\A m \in Nodes \ {p} : up'[m] = up[m]) /\ down' = down
  BY DEF Entered, Apart
<1>2. /\ p \in Nodes /\ p \notin Battles
      /\ \A n \in Nodes \ {p} : /\ Carried(n)' = Carried(n) /\ (Waits(n)' <=> Waits(n))
                                /\ Top(n)' => Top(n)
      /\ \A c \in Battles : Winner(c)' = Winner(c) /\ pc'[c] = pc[c]
      /\ \A q \in Players : q \in Nodes /\ (q # p => pc'[q] = pc[q] /\ self'[q] = self[q])
  BY <1>1, OthersApart
<1>3. Carried(p)' = s.id /\ ~Waits(p)
  BY <1>1, <1>2, Carries DEF Waits
<1>4. NamesOK'
  <2>1. up'[p] # <<>> => Head(up'[p]).id = Carried(p)'
    BY <1>1, <1>3 DEF Holding
  <2> QED  BY <1>1, <1>3, <2>1, PlayerNames
<1>5. FallenOK'
  BY <1>1, PlayerFallen
<1>6. ASSUME p \in Agents
      PROVE  /\ fifo'[p] = <<>> => AgentOK(p)'
             /\ pc[s.id] = "exited" /\ self[s.id].at \in DOMAIN Agent /\ Agent[self[s.id].at] = p
  <2>1. AgentOK(p) /\ StandIn(p) = s.id
    BY <1>6 DEF PlacesOK, AgentsOK, StandIn
  <2>2. /\ pc[s.id] = "exited" /\ Fallen(self[s.id])
        /\ self[s.id].at \in DOMAIN Agent /\ Agent[self[s.id].at] = p
    BY <1>6, <2>1 DEF AgentOK
  <2>3. PICK i \in Real : i = s.id
    OBVIOUS
  <2>4. i \in Players /\ self[i] \in Status
    BY DEF Players, IInv, TypeOK
  <2>5. PICK t \in Status : t = self[i]
    BY <2>4
  <2>6. Fallen(t)' /\ pc'[i] = "exited" /\ self'[i] = t
    BY <2>2, <2>3, <2>4, <2>5, FallenStays DEF Forever
  <2>7. Fallen(self[i])'
    BY <2>6 DEF Fallen
  <2>8. StandIn(p)' = i
    BY <1>1, <2>3 DEF StandIn
  <2>9. fifo'[p] = <<>> => AgentOK(p)'
    BY <2>2, <2>3, <2>5, <2>6, <2>7, <2>8 DEF AgentOK, Fallen
  <2> QED  BY <2>2, <2>9
<1>7. p \in Agents => fifo'[p] = <<>>
  OBVIOUS
<1>8. AgentsOK'
  <2>1. \A a \in Agents \ {p} : pc'[a] = pc[a] /\ self'[a] = self[a]
    BY <1>2 DEF Players
  <2> QED  BY <1>6, <1>7, <2>1, AgentsStep DEF PlacesOK
<1>9. \A a \in Agents : fifo'[a] # <<>> => a # p /\ fifo'[a] = fifo[a] /\ Head(fifo'[a]).id # s.id
  <2>1. ASSUME NEW a \in Agents, fifo'[a] # <<>>, a # p PROVE Head(fifo[a]).id # s.id
    <3>1. fifo[a] # <<>> /\ AgentOK(a)
      BY <2>1 DEF PlacesOK, AgentsOK
    <3>2. pc[a] = "open" /\ StandIn(a) = Head(fifo[a]).id
      BY <3>1 DEF AgentOK, StandIn
    <3>3. pc[StandIn(a)] = "exited" /\ Agent[self[StandIn(a)].at] = a
      BY <3>1 DEF AgentOK
    <3> QED  BY <1>6, <2>1, <3>2, <3>3 DEF Players
  <2> QED  BY <1>7, <2>1
<1>10. \A n \in Nodes : Top(n) => Carried(n) # s.id
  BY DEF PlacesOK, TopsOK, Players
<1>11. pc'[s.id] \notin {"unborn", "start", "open"}
  <2>1. p \in Agents => p \notin Real
    BY NodesAssumption
  <2>2. s.id \in Nodes
    BY DEF Nodes, Players
  <2> QED  BY <1>1, <1>2, <1>6, <2>1, <2>2 DEF Apart, Players
<1>12. TopsOK'
  <2>1. ASSUME NEW m \in Nodes, NEW n \in Nodes, Top(m)', Top(n)', Carried(m)' = Carried(n)'
        PROVE  m = n
    BY <1>2, <1>3, <1>10, <2>1 DEF PlacesOK, TopsOK
  <2>2. ASSUME NEW n \in Nodes, Top(n)'
        PROVE  /\ Carried(n)' \in Real /\ pc'[Carried(n)'] \notin {"unborn", "start", "open"}
               /\ \A a \in Agents : fifo'[a] # <<>> => Carried(n)' # Head(fifo'[a]).id
    <3>1. CASE n = p
      BY <1>3, <1>9, <1>11, <3>1
    <3>2. CASE n # p
      <4>1. /\ Carried(n)' = Carried(n) /\ Carried(n) \in Real /\ Carried(n) # s.id
            /\ pc[Carried(n)] \notin {"unborn", "start", "open"}
            /\ \A a \in Agents : fifo[a] # <<>> => Carried(n) # Head(fifo[a]).id
        BY <1>2, <1>10, <2>2, <3>2 DEF PlacesOK, TopsOK
      <4>2. pc'[Carried(n)] \notin {"unborn", "start", "open"}
        BY <1>1, <1>2, <4>1 DEF Players
      <4> QED  BY <1>9, <4>1, <4>2
    <3> QED  BY <3>1, <3>2
  <2> QED  BY <2>1, <2>2 DEF TopsOK
<1> QED  BY <1>4, <1>5, <1>8, <1>12 DEF PlacesOK

LEMMA ReadFilePlaces ==
  ASSUME IInv, IInv', PlacesOK, Forever, NEW p \in Players, ReadFile(p)
  PROVE  PlacesOK'
<1>1. PICK s \in Status : Alive(s) /\ Enter(p, s) /\ s.id = p
  <2>1. PICK s \in Status : Alive(s) /\ Enter(p, s)
    BY ReadFileFacts
  <2>2. PICK t : t.id = p /\ self' = [self EXCEPT ![p] = t]
    BY DEF ReadFile, Enter
  <2>3. self'[p] = s /\ self'[p] = t
    BY <2>1, <2>2 DEF Enter, IInv, TypeOK
  <2> QED  BY <2>1, <2>2, <2>3
<1>2. p \in Real /\ pc[p] = "start" /\ p \notin Agents /\ UNCHANGED <<attacker, seat, down, fifo>>
  BY NodesAssumption DEF ReadFile
<1>3. Entered(p, s)
  BY <1>1, <1>2, EnterEffect
<1> QED  BY <1>1, <1>2, <1>3, EnterPlaces DEF Alive

LEMMA ReadFifoPlaces ==
  ASSUME IInv, IInv', PlacesOK, Forever, NEW p \in Players, ReadFifo(p)
  PROVE  PlacesOK'
<1>1. PICK s \in Status : s = Head(fifo[p]) /\ Alive(s) /\ Enter(p, s)
  BY ReadFifoFacts
<1>2. /\ p \in Agents /\ p \notin Real /\ pc[p] = "open" /\ fifo[p] # <<>>
      /\ UNCHANGED <<attacker, seat, down>>
  BY NodesAssumption DEF ReadFifo
<1>3. \A a \in Agents : fifo'[a] = IF a = p THEN Tail(fifo[a]) ELSE fifo[a]
  BY ReadFifoFacts
<1>4. fifo'[p] = <<>>
  <2>1. Len(fifo[p]) <= 1 /\ fifo[p] \in Seq(Status)
    BY <1>2 DEF PlacesOK, AgentsOK, AgentOK, IInv, TypeOK
  <2>2. \A q \in Seq(Status) : Len(q) <= 1 /\ q # <<>> => Tail(q) = <<>>
    OBVIOUS
  <2>3. Tail(fifo[p]) = <<>>
    BY <1>2, <2>1, <2>2
  <2> QED  BY <1>2, <1>3, <2>3
<1>5. Entered(p, s)
  BY <1>1, <1>2, EnterEffect
<1> QED  BY <1>1, <1>2, <1>3, <1>4, <1>5, EnterPlaces DEF Alive

LEMMA ContinuePlaces ==
  ASSUME IInv, IInv', PlacesOK, Forever, NEW p \in Players, Continue(p)
  PROVE  PlacesOK'
<1>1. /\ p \in Nodes /\ pc[p] = "read" /\ pc' = pc
      /\ down[p] # <<>> /\ down'[p] = <<>> /\ \A m \in Nodes \ {p} : down'[m] = down[m]
      /\ self'[p].id = Head(down[p]).id /\ \A q \in Players \ {p} : self'[q] = self[q]
      /\ Holding(up'[p], self'[p]) /\ \A m \in Nodes \ {p} : up'[m] = up[m]
      /\ UNCHANGED <<attacker, seat, fifo>>
  BY ContinueEffect
<1>2. Apart(p)
  BY <1>1 DEF Apart
<1>3. Carried(p) = self[p].id /\ Carried(p)' = self'[p].id /\ Head(down[p]).id = Carried(p)
  <2>1. PICK b \in Battles : p \in Kids(b)
    BY <1>1, NodesAssumption DEF IInv, BornOK
  <2>2. Named(b, p)
    BY <2>1 DEF PlacesOK, NamesOK
  <2> QED  BY <1>1, <2>2, Carries DEF Named
<1>4. /\ \A n \in Nodes : Carried(n)' = Carried(n) /\ (Top(n)' => Top(n))
      /\ \A q \in Players : q \in Nodes /\ self'[q].id = self[q].id
  <2>1. Top(p)' => Top(p)
    BY <1>1 DEF Top, Waits, Winner
  <2> QED  BY <1>1, <1>2, <1>3, <2>1, OthersApart
<1>5. NamesOK'
  <2>1. up'[p] # <<>> => Head(up'[p]).id = Carried(p)'
    BY <1>1, <1>3 DEF Holding
  <2>2. p \in Real => self'[p].id = p
    BY <1>1, <1>3 DEF PlacesOK, NamesOK
  <2> QED  BY <1>1, <1>2, <1>4, <2>1, <2>2, PlayerNames
<1>6. FallenOK'
  BY <1>1, <1>2, PlayerFallen
<1>7. AgentsOK'
  BY <1>1, <1>4, AgentsStep DEF PlacesOK, Players
<1>8. TopsOK'
  BY <1>1, <1>4, TopsStep DEF PlacesOK
<1> QED  BY <1>5, <1>6, <1>7, <1>8 DEF PlacesOK

LEMMA LeavePlaces ==
  ASSUME IInv, IInv', PlacesOK, Forever, NEW p \in Players, Left(p)
  PROVE  PlacesOK'
<1>1. /\ p \in Nodes /\ pc[p] = "read" /\ pc'[p] \in {"open", "exited"} /\ Apart(p)
      /\ down[p] # <<>> /\ down'[p] = <<>> /\ \A m \in Nodes \ {p} : down'[m] = down[m]
      /\ self'[p].id = Head(down[p]).id /\ self'[p].at = Head(down[p]).at
      /\ pc'[p] = "open" => p \in Real /\ Head(down[p]).hp <= 0 /\ Head(down[p]).at # A
      /\ UNCHANGED <<up, fifo>>
  BY DEF Left, Apart
<1>2. /\ \A n \in Nodes \ {p} : Carried(n)' = Carried(n) /\ (Top(n)' => Top(n))
      /\ \A q \in Players : q \in Nodes /\ (q # p => pc'[q] = pc[q] /\ self'[q] = self[q])
  BY <1>1, OthersApart
<1>3. PICK b \in Battles : p \in Kids(b)
  BY <1>1, NodesAssumption DEF IInv, BornOK
<1>4. /\ Edge(b, p) /\ Named(b, p)
      /\ Head(down[p]).hp <= 0 => Fallen(Head(down[p]))
      /\ InZone(p) => Head(down[p]).at \in DOMAIN Agent \cup {A}
  BY <1>1, <1>3, Around DEF PlacesOK, NamesOK, FallenOK
<1>5. Carried(p) = self[p].id /\ self'[p].id = self[p].id /\ Waits(p) /\ ~Holds(b, p)
      /\ ~Waits(p)'
  BY <1>1, <1>4, Carries DEF Named, Edge, Waits
<1>6. Top(p) /\ ~Top(p)'
  <2>1. \A c \in Battles : pc[c] = "back" => Winner(c) \in Kids(c)
    BY SeatFacts DEF IInv
  <2>2. \A c \in Battles : pc[c] = "back" => p # Winner(c)
    BY <1>3, <1>5, <2>1, TreeFacts DEF Holds
  <2> QED  BY <1>5, <2>2 DEF Top
<1>7. p \in Real => self[p].id = p
  BY <1>1 DEF PlacesOK, NamesOK
<1>8. NamesOK'
  BY <1>1, <1>5, <1>7, PlayerNames
<1>9. FallenOK'
  <2>1. ASSUME pc'[p] = "open" PROVE Fallen(self[p])' /\ self'[p].at \in DOMAIN Agent
    <3>1. PICK s \in Status : s = Head(down[p])
      BY <1>1, <1>3, TakenOne
    <3>2. Fallen(s)'
      BY <1>1, <1>4, <2>1, <3>1, FallenStays
    <3>3. Fallen(self[p])'
      BY <1>1, <3>1, <3>2 DEF Fallen
    <3>4. self'[p].at \in DOMAIN Agent
      BY <1>1, <1>4, <2>1 DEF InZone
    <3> QED  BY <3>3, <3>4
  <2>2. ASSUME NEW q \in Real, pc'[q] = "open"
        PROVE  \/ pc[q] = "open" /\ self'[q] = self[q]
               \/ Fallen(self[q])' /\ self'[q].at \in DOMAIN Agent
    <3>1. CASE q = p
      <4>1. Fallen(self[q])' /\ self'[q].at \in DOMAIN Agent
        BY <2>1, <2>2, <3>1 DEF Fallen
      <4> QED  BY <4>1
    <3> QED  BY <1>2, <2>2, <3>1 DEF Players
  <2>3. \A c \in Battles : \A n \in Kids(c) : down'[n] # <<>> => down'[n] = down[n]
    BY <1>1, TreeFacts
  <2> QED  BY <2>2, <2>3, FallenStep DEF PlacesOK
<1>10. AgentsOK'
  <2>1. ASSUME p \in Agents PROVE AgentOK(p)'
    <3>1. p \notin Real
      BY <2>1, NodesAssumption
    <3>2. fifo'[p] = <<>> /\ pc'[p] = "exited"
      BY <1>1, <2>1, <3>1 DEF PlacesOK, AgentsOK, AgentOK
    <3> QED  BY <3>2 DEF AgentOK
  <2>2. \A a \in Agents \ {p} : pc'[a] = pc[a] /\ self'[a] = self[a]
    BY <1>2 DEF Players
  <2> QED  BY <1>1, <2>1, <2>2, AgentsStep DEF PlacesOK
<1>11. TopsOK'
  <2>1. ASSUME NEW q \in Real, pc'[q] \in {"unborn", "start", "open"}
        PROVE  \/ pc[q] \in {"unborn", "start", "open"}
               \/ \A n \in Nodes : Top(n)' => Carried(n)' # q
    <3>1. CASE q # p
      BY <1>2, <2>1, <3>1 DEF Players
    <3>2. CASE q = p
      <4>1. ASSUME NEW n \in Nodes, Top(n)' PROVE Carried(n)' # q
        BY <1>1, <1>2, <1>5, <1>6, <1>7, <3>2, <4>1 DEF PlacesOK, TopsOK
      <4> QED  BY <4>1
    <3> QED  BY <3>1, <3>2
  <2>2. \A n \in Nodes : Top(n)' => n # p /\ Top(n) /\ Carried(n)' = Carried(n)
    BY <1>2, <1>6
  <2>3. \A a \in Agents : fifo'[a] # <<>> => fifo'[a] = fifo[a]
    BY <1>1
  <2> QED  BY <1>1, <2>1, <2>2, <2>3, TopsStep DEF PlacesOK
<1> QED  BY <1>8, <1>9, <1>10, <1>11 DEF PlacesOK

LEMMA WriteFifoPlaces ==
  ASSUME IInv, IInv', PlacesOK, Forever, NEW p \in Players, WriteFifo(p)
  PROVE  PlacesOK'
<1>0. PICK a : a = Agent[self[p].at]
  OBVIOUS
<1>1. /\ p \in Real /\ p \in Nodes /\ pc[p] = "open" /\ pc'[p] = "exited" /\ pc[a] = "open"
      /\ Apart(p) /\ self' = self
      /\ a \in Agents => fifo'[a] = Append(fifo[a], self[p])
      /\ \A c \in Agents \ {a} : fifo'[c] = fifo[c]
      /\ UNCHANGED <<up, down>>
  BY <1>0, WriteFifoEffect DEF Apart
<1>2. /\ \A n \in Nodes \ {p} : Carried(n)' = Carried(n) /\ (Top(n)' => Top(n))
      /\ \A q \in Players : q \in Nodes /\ (q # p => pc'[q] = pc[q] /\ self'[q] = self[q])
  BY <1>1, OthersApart
<1>3. /\ self[p].id = p /\ Fallen(self[p]) /\ self[p].at \in DOMAIN Agent
      /\ a \in Agents /\ a # p /\ self[p] \in Status
  <2>1. self[p].id = p /\ Fallen(self[p]) /\ self[p].at \in DOMAIN Agent
    BY <1>1 DEF PlacesOK, NamesOK, FallenOK
  <2>2. a \in Agents
    BY <1>0, <2>1, AgentAssumption
  <2> QED  BY <1>1, <2>1, <2>2, NodesAssumption DEF IInv, TypeOK
<1>4. fifo[a] = <<>>
  <2> SUFFICES ASSUME fifo[a] # <<>> PROVE FALSE
    OBVIOUS
  <2>1. AgentOK(a)
    BY <1>3 DEF PlacesOK, AgentsOK
  <2>2. PICK i \in Real : /\ pc[i] = "exited" /\ Fallen(self[i])
                          /\ self[i].at \in DOMAIN Agent /\ Agent[self[i].at] = a
    BY <2>1 DEF AgentOK
  <2>3. self[i].at = self[p].at
    BY <1>0, <1>3, <2>2, AgentAssumption
  <2>4. self[i].id = i
    BY <2>2 DEF PlacesOK, NamesOK
  <2> QED  BY <1>1, <1>3, <2>2, <2>3, <2>4 DEF Fallen
<1>5. Holding(fifo'[a], self[p])
  <2>1. fifo'[a] = Append(<<>>, self[p])
    BY <1>1, <1>3, <1>4
  <2>2. \A s : Append(<<>>, s) # <<>> /\ Len(Append(<<>>, s)) = 1 /\ Head(Append(<<>>, s)) = s
    OBVIOUS
  <2> QED  BY <2>1, <2>2 DEF Holding
<1>6. NamesOK'
  BY <1>1, <1>3, PlayerNames DEF Waits
<1>7. FallenOK'
  BY <1>1, PlayerFallen
<1>8. AgentsOK'
  <2>1. AgentOK(a)'
    <3>1. pc'[a] = "open" /\ StandIn(a)' = p
      <4>1. pc'[a] = "open"
        BY <1>1, <1>2, <1>3 DEF Players
      <4> QED  BY <1>3, <1>5, <4>1 DEF StandIn, Holding
    <3>2. PICK s \in Status : s = self[p]
      BY <1>3
    <3>3. Fallen(s)'
      BY <1>3, <3>2, FallenStays
    <3>4. Fallen(self[p])' /\ self'[p].at \in DOMAIN Agent /\ Agent[self'[p].at] = a
      BY <1>0, <1>1, <1>3, <3>2, <3>3 DEF Fallen
    <3> QED  BY <1>1, <1>5, <3>1, <3>4 DEF AgentOK, Holding, Fallen
  <2>2. \A c \in Agents \ {a} : fifo'[c] = fifo[c] /\ pc'[c] = pc[c] /\ self'[c] = self[c]
    <3>1. \A c \in Agents : c # p
      BY <1>1, NodesAssumption
    <3> QED  BY <1>1, <1>2, <3>1 DEF Players
  <2> QED  BY <2>1, <2>2, AgentsStep DEF PlacesOK
<1>9. TopsOK'
  <2>1. ~Top(p)'
    BY <1>1 DEF Top, Waits
  <2>2. \A n \in Nodes : Top(n)' => n # p /\ Top(n) /\ Carried(n)' = Carried(n)
    BY <1>2, <2>1
  <2>3. \A q \in Real : pc'[q] \in {"unborn", "start", "open"} => pc[q] \in {"unborn", "start", "open"}
    BY <1>1, <1>2 DEF Players
  <2>4. \A c \in Agents : fifo'[c] # <<>> => fifo'[c] = fifo[c] \/ pc[Head(fifo'[c]).id] = "open"
    BY <1>1, <1>3, <1>5 DEF Holding
  <2> QED  BY <1>1, <2>2, <2>3, <2>4, TopsStep DEF PlacesOK
<1> QED  BY <1>6, <1>7, <1>8, <1>9 DEF PlacesOK

-----------------------------------------------------------------------------
(* Nobody fights in two places.                                            *)

LEMMA InitPlaces == Init => PlacesOK
<1> SUFFICES ASSUME Init PROVE PlacesOK
  OBVIOUS
<1>1. \A n \in Nodes : pc[n] \in {"start", "unborn"} /\ up[n] = <<>> /\ down[n] = <<>>
  BY DEF Init
<1>2. \A a \in Agents : fifo[a] = <<>> /\ Len(<<>>) = 0
  BY DEF Init
<1>3. Battles \subseteq Nodes /\ Real \subseteq Nodes /\ Agents \subseteq Nodes
  BY DEF Nodes, Players
<1>4. NamesOK
  BY <1>1, <1>3, TreeFacts DEF NamesOK, Named
<1>5. FallenOK
  BY <1>1, <1>3, TreeFacts DEF FallenOK
<1>6. AgentsOK
  BY <1>1, <1>2, <1>3 DEF AgentsOK, AgentOK
<1>7. TopsOK
  BY <1>1 DEF TopsOK, Top, Waits
<1> QED  BY <1>4, <1>5, <1>6, <1>7 DEF PlacesOK

LEMMA NextPlaces ==
  ASSUME IInv, PlacesOK, [Next]_vars
  PROVE  PlacesOK'
<1>1. IInv' /\ Forever
  BY NextInv, NextForever
<1>2. ASSUME NEW b \in Battles, Battle(b) PROVE PlacesOK'
  BY <1>1, <1>2, ReadFirstPlaces, PlayPlaces, PassUpPlaces, PassDownPlaces, WaitPlaces DEF Battle
<1>3. ASSUME NEW p \in Players, Player(p) PROVE PlacesOK'
  <2>1. CASE OpenToRead(p)
    <3>1. /\ p \in Agents /\ p \notin Real /\ p \in Nodes /\ pc[p] = "start" /\ Goto(p, "open")
          /\ UNCHANGED <<seat, attacker, self, up, down, fifo>>
      BY <2>1, NodesAssumption DEF OpenToRead, Nodes
    <3>2. pc'[p] = "open" /\ \A n \in Nodes \ {p} : pc'[n] = pc[n]
      BY <3>1, Goes DEF IInv, Points
    <3>3. Real \subseteq Nodes /\ Agents \subseteq Nodes
      BY DEF Nodes, Players
    <3> QED  BY <1>1, <3>1, <3>2, <3>3, QuietPlaces
  <2>2. CASE Retire(p) \/ Lose(p)
    BY <1>1, <2>2, LeaveEffect, LeavePlaces
  <2> QED  BY <1>1, <1>3, <2>1, <2>2, ReadFilePlaces, ReadFifoPlaces, ContinuePlaces, WriteFifoPlaces
           DEF Player
<1>4. CASE UNCHANGED vars
  BY <1>1, <1>4, QuietPlaces DEF vars
<1> QED  BY <1>2, <1>3, <1>4 DEF Next, Terminating

LEMMA PlacesInvariance == Spec => []PlacesOK
BY InitPlaces, NextPlaces, Invariance, PTL DEF Spec

(* A loser's status leaves one process before it lives on in another: the  *)
(* agent's, or the FIFO between them (player.c 105-110, 165-177).          *)
THEOREM NobodyTwice == Spec => []OnePlace
<1>1. ASSUME IInv, PlacesOK, NEW i \in Real PROVE Cardinality(Embodiments(i)) <= 1
  <2>1. \A p \in Real : self[p].id = i /\ pc[p] \in {"read", "open"} => p = i
    BY <1>1 DEF PlacesOK, NamesOK
  <2>2. \A a \in Agents : /\ pc[a] = "read" /\ self[a].id = i => StandIn(a) = i
                          /\ fifo[a] # <<>> => pc[a] = "open"
                          /\ fifo[a] # <<>> /\ Head(fifo[a]).id = i => StandIn(a) = i
    BY <1>1 DEF PlacesOK, AgentsOK, AgentOK, StandIn
  <2>3. ASSUME NEW a \in Agents, pc[a] = "read" \/ fifo[a] # <<>>, StandIn(a) = i
        PROVE  pc[i] = "exited" /\ a = Agent[self[i].at]
    BY <1>1, <2>3 DEF PlacesOK, AgentsOK, AgentOK
  <2>4. PICK x : Embodiments(i) \subseteq {x}
    <3>1. CASE pc[i] \in {"read", "open"}
      <4>1. Embodiments(i) \subseteq {i}
        BY <2>1, <2>2, <2>3, <3>1 DEF Embodiments, Players
      <4> QED  BY <4>1
    <3>2. CASE pc[i] \notin {"read", "open"}
      <4> DEFINE a == Agent[self[i].at]
                 x == IF pc[a] = "read" THEN a ELSE -a
      <4>1. ASSUME NEW p \in Players, self[p].id = i,
                   pc[p] = "read" \/ (pc[p] = "open" /\ p \in Real)
            PROVE  p = a /\ pc[p] = "read"
        BY <2>1, <2>2, <2>3, <3>2, <4>1 DEF Players
      <4>2. \A c \in Agents : fifo[c] # <<>> /\ Head(fifo[c]).id = i => c = a /\ pc[c] = "open"
        BY <2>2, <2>3
      <4> HIDE DEF a
      <4>3. Embodiments(i) \subseteq {x}
        BY <4>1, <4>2 DEF Embodiments
      <4> QED  BY <4>3
    <3> QED  BY <3>1, <3>2
  <2>5. IsFiniteSet({x}) /\ Cardinality({x}) = 1
    BY FS_Singleton
  <2>6. Cardinality(Embodiments(i)) <= Cardinality({x})
    BY <2>4, <2>5, FS_Subset
  <2> QED  BY <2>5, <2>6
<1>2. ASSUME PlacesOK, NEW a \in Agents PROVE Len(fifo[a]) <= 1
  BY <1>2 DEF PlacesOK, AgentsOK, AgentOK
<1>3. IInv /\ PlacesOK => OnePlace
  BY <1>1, <1>2 DEF OnePlace
<1> QED  BY <1>3, PlacesInvariance, Invariance, PTL

-----------------------------------------------------------------------------
(* Who is known stays known.                                               *)

LEMMA WaitsKnown ==
  ASSUME NEW n \in Nodes, Waits(n), BornOK
  PROVE  Known(n)
BY DEF Known, Waits, Decided, BornOK, Nodes

LEMMA PlayNames ==
  ASSUME IInv, PlacesOK, NEW b \in Battles, Play(b)
  PROVE  \E s, k : /\ Played(b, s, k)
                  /\ \A i \in {1, 2} : /\ Children[b][i] \in Nodes /\ Waits(Children[b][i])
                                       /\ s[i].id = Carried(Children[b][i])
<1>1. PICK s, k : /\ Played(b, s, k)
                  /\ s[1].id = seat[b][1].id /\ s[2].id = Head(up[Children[b][2]]).id
  BY PlayEffect
<1>2. pc[b] = "second" /\ up[Children[b][2]] # <<>>
  BY DEF Play
<1>3. /\ Children[b][1] \in Nodes /\ Children[b][2] \in Nodes
      /\ Named(b, Children[b][1]) /\ Named(b, Children[b][2])
  BY TreeFacts DEF PlacesOK, NamesOK
<1>4. s[1].id = Carried(Children[b][1]) /\ s[2].id = Carried(Children[b][2])
  BY <1>1, <1>2, <1>3 DEF Named
<1>5. \A i \in {1, 2} : /\ Children[b][i] \in Nodes /\ Waits(Children[b][i])
                        /\ s[i].id = Carried(Children[b][i])
  BY <1>1, <1>3, <1>4 DEF Played
<1> QED  BY <1>1, <1>5

\* A battle moves itself, and gives birth.
LEMMA BattleMoves ==
  ASSUME IInv, NEW b \in Battles, Battle(b), NEW n \in Nodes \ {b}
  PROVE  pc'[n] = pc[n] \/ (pc[n] = "unborn" /\ pc'[n] = "start")
<1>1. CASE Fork(b)
  BY <1>1, Around DEF Fork, Edge
<1>2. CASE Play(b)
  <2>1. PICK s, k : Played(b, s, k)
    BY <1>2, PlayEffect
  <2> QED  BY <2>1 DEF Played
<1>3. CASE Reap(b) \/ Finish(b)
  <2>1. b \in Nodes /\ (Goto(b, "last") \/ Goto(b, "pass") \/ Goto(b, "exited"))
    BY <1>3, TreeFacts DEF Reap, Finish
  <2> QED  BY <2>1, Goes DEF IInv, Points
<1> QED  BY <1>1, <1>2, <1>3, ReadFirstEffect, PassUpEffect, PassDownEffect DEF Battle

\* A step leaves the name of a battle's winner alone.
LEMMA WinnerStays ==
  ASSUME IInv, PlacesOK, WinnersOK, Forever, NEW b \in Battles, [Next]_vars, Decided(b)
  PROVE  seat'[b][attacker'[b]].id = seat[b][attacker[b]].id
<1>1. attacker'[b] = attacker[b]
  BY DEF Forever, Settled
<1>2. CASE seat'[b] = seat[b]
  BY <1>1, <1>2
<1>3. CASE seat'[b] # seat[b]
  <2>1. seat' # seat
    BY <1>3
  <2>2. PICK c \in Battles : ReadFirst(c) \/ Play(c) \/ PassUp(c) \/ PassDown(c)
    BY <2>1 DEF Next, vars, Terminating, Battle, Fork, Reap, Finish,
                Player, ReadFile, OpenToRead, ReadFifo, Continue, Retire, Lose, WriteFifo
  <2>3. c = b
    <3>1. CASE Play(c)
      <4>1. PICK s, k : Played(c, s, k)
        BY <3>1, PlayEffect
      <4> QED  BY <1>3, <4>1 DEF Played, IInv, TypeOK
    <3> QED  BY <1>3, <2>2, <3>1, ReadFirstEffect, PassUpEffect, PassDownEffect
  <2>4. ~ReadFirst(b) /\ ~Play(b)
    BY DEF ReadFirst, Play, Decided
  <2>5. CASE PassUp(b)
    <3>1. Named(b, Winner(b)) /\ pc[b] = "pass" /\ up[Winner(b)] # <<>>
          /\ seat'[b][attacker[b]] = Head(up[Winner(b)])
      BY <2>5, PassUpEffect DEF PlacesOK, NamesOK
    <3> QED  BY <1>1, <3>1 DEF Named, WinnersOK
  <2>6. CASE PassDown(b)
    <3>1. PICK e \in Battles : b \in Kids(e)
      BY <2>6, PassDownEffect DEF IInv, BornOK
    <3>2. /\ Named(e, b) /\ down[b] # <<>> /\ seat'[b][attacker[b]] = Head(down[b])
          /\ Carried(b) = seat[b][attacker[b]].id
      BY <2>6, <3>1, PassDownEffect, Carries DEF PlacesOK, NamesOK
    <3> QED  BY <1>1, <3>2 DEF Named
  <2> QED  BY <2>2, <2>3, <2>4, <2>5, <2>6
<1> QED  BY <1>2, <1>3

LEMMA PlayerStays ==
  ASSUME IInv, PlacesOK, Forever, NEW q \in Players, [Next]_vars, Known(q)
  PROVE  Known(q)' /\ self'[q].id = self[q].id
<1>0. q \in Nodes /\ q \notin Battles /\ (q \in Real => q \notin Agents)
  BY NodesAssumption DEF Nodes
<1>1. ASSUME pc'[q] = pc[q], self'[q] = self[q] PROVE Known(q)' /\ self'[q].id = self[q].id
  BY <1>0, <1>1 DEF Known
<1>2. ASSUME NEW b \in Battles, Battle(b) PROVE Known(q)' /\ self'[q].id = self[q].id
  <2>1. self' = self
    BY <1>2 DEF Battle, Fork, ReadFirst, Play, Reap, PassUp, PassDown, Finish
  <2>2. pc'[q] = pc[q]
    BY <1>0, <1>2, BattleMoves DEF Known
  <2> QED  BY <1>1, <2>1, <2>2
<1>3. ASSUME NEW p \in Players, Player(p) PROVE Known(q)' /\ self'[q].id = self[q].id
  <2>1. CASE p # q
    <3>1. \/ self' = self
          \/ \E t : self' = [self EXCEPT ![p] = t]
      BY <1>3 DEF Player, ReadFile, OpenToRead, ReadFifo, Continue, Retire, Lose, WriteFifo, Enter
    <3>2. self'[q] = self[q]
      BY <2>1, <3>1 DEF IInv, TypeOK
    <3> QED  BY <1>0, <1>1, <1>3, <2>1, <3>2, PlayerMoves
  <2>2. ASSUME pc[q] = "read", down[q] # <<>>
        PROVE  Head(down[q]).id = self[q].id
    <3>1. PICK b \in Battles : q \in Kids(b)
      BY <1>0, <2>2, NodesAssumption DEF IInv, BornOK
    <3>2. Named(b, q)
      BY <3>1 DEF PlacesOK, NamesOK
    <3> QED  BY <1>0, <2>2, <3>2, Carries DEF Named
  <2>3. CASE Continue(q)
    BY <1>0, <2>2, <2>3, ContinueEffect DEF Known
  <2>4. CASE Retire(q) \/ Lose(q)
    BY <1>0, <2>2, <2>4, LeaveEffect DEF Left, Known
  <2>5. CASE WriteFifo(q)
    BY <1>0, <2>5, WriteFifoEffect DEF Known
  <2>6. ~ReadFile(q) /\ ~OpenToRead(q) /\ ~ReadFifo(q)
    BY <1>0 DEF Known, ReadFile, OpenToRead, ReadFifo
  <2> QED  BY <1>3, <2>1, <2>3, <2>4, <2>5, <2>6 DEF Player
<1>4. CASE UNCHANGED vars
  BY <1>1, <1>4 DEF vars
<1> QED  BY <1>2, <1>3, <1>4 DEF Next, Terminating

LEMMA KnownStays ==
  ASSUME IInv, PlacesOK, WinnersOK, Forever, [Next]_vars, NEW n \in Nodes, Known(n)
  PROVE  Known(n)' /\ Carried(n)' = Carried(n)
<1>1. CASE n \in Players
  BY <1>1, PlayerStays, Carries
<1>2. CASE n \in Battles
  <2>1. Decided(n) /\ Decided(n)'
    BY <1>2, NodesAssumption DEF Known, Forever, Settled
  <2> QED  BY <1>2, <2>1, WinnerStays, Carries DEF Known
<1> QED  BY <1>1, <1>2, Carries

LEMMA NextWinners ==
  ASSUME IInv, PlacesOK, WinnersOK, [Next]_vars
  PROVE  WinnersOK'
<1>1. IInv' /\ Forever /\ PlacesOK'
  BY NextInv, NextForever, NextPlaces
<1> SUFFICES ASSUME NEW b \in Battles, pc'[b] \in {"reap", "pass", "back"}
             PROVE  Known(Winner(b))' /\ Carried(Winner(b))' = seat'[b][attacker'[b]].id
  BY DEF WinnersOK
<1>2. CASE pc[b] \in {"reap", "pass", "back"}
  <2>1. PICK w \in Nodes : w = Winner(b)
    BY SeatFacts, TreeFacts DEF IInv
  <2>2. Known(w) /\ Carried(w) = seat[b][attacker[b]].id /\ Decided(b)
    BY <1>2, <2>1 DEF WinnersOK, Decided
  <2>3. Known(w)' /\ Carried(w)' = Carried(w) /\ Winner(b)' = w
        /\ seat'[b][attacker'[b]].id = seat[b][attacker[b]].id
    BY <1>1, <2>1, <2>2, KnownStays, WinnerStays DEF Forever, Settled, Winner
  <2> QED  BY <2>2, <2>3 DEF Known, Carried
<1>3. CASE pc[b] \notin {"reap", "pass", "back"}
  <2>1. Play(b)
    <3>1. ASSUME NEW p \in Players, Player(p) PROVE pc'[b] = pc[b]
      BY <3>1, PlayerMoves, TreeFacts
    <3>2. ASSUME NEW c \in Battles, Battle(c), c # b PROVE pc'[b] = pc[b] \/ pc'[b] = "start"
      BY <3>2, BattleMoves, TreeFacts
    <3>3. Battle(b)
      BY <1>3, <3>1, <3>2 DEF Next, Terminating, vars
    <3>4. CASE Fork(b)
      BY <3>4, TreeFacts DEF Fork
    <3>5. CASE Reap(b) \/ Finish(b)
      <4>1. pc[b] = "reap" \/ Goto(b, "exited")
        BY <3>5 DEF Reap, Finish
      <4> QED  BY <1>3, <4>1, Goes, TreeFacts DEF IInv, Points
    <3> QED  BY <1>3, <3>3, <3>4, <3>5, ReadFirstEffect, PassUpEffect, PassDownEffect DEF Battle
  <2>2. PICK s, k : /\ Played(b, s, k)
                    /\ \A i \in {1, 2} : /\ Children[b][i] \in Nodes /\ Waits(Children[b][i])
                                         /\ s[i].id = Carried(Children[b][i])
    BY <2>1, PlayNames
  <2>3. k \in {1, 2} /\ attacker'[b] = k /\ seat'[b] = s
    BY <2>2 DEF Played, Fought, IInv, TypeOK
  <2>4. PICK w \in Nodes : w = Children[b][k] /\ Waits(w) /\ s[k].id = Carried(w)
    BY <2>2, <2>3
  <2>5. Known(w)' /\ Carried(w)' = s[k].id
    BY <1>1, <2>4, WaitsKnown, KnownStays DEF IInv
  <2>6. Winner(b)' = w
    BY <2>3, <2>4 DEF Winner
  <2> QED  BY <2>3, <2>5, <2>6 DEF Known, Carried
<1> QED  BY <1>2, <1>3

LEMMA WinnersInvariance == Spec => []WinnersOK
<1>1. Init => WinnersOK
  BY TreeFacts DEF Init, WinnersOK, Nodes
<1> QED  BY <1>1, NextWinners, Invariance, PlacesInvariance, PTL DEF Spec

-----------------------------------------------------------------------------
(* The championship implements Tournament.                                 *)

\* Who comes from a process that waits is the contender of the tournament.
LEMMA Contends ==
  ASSUME IInv, PlacesOK, NEW n \in Nodes, Waits(n)
  PROVE  T!Contender(n) = Carried(n)
<1>1. CASE n \in Real
  <2>1. pc[n] = "read" /\ n \in Players
    BY <1>1, NodesAssumption DEF Waits, IInv, BornOK, Players
  <2>2. Carried(n) = n
    BY <1>1, <2>1 DEF PlacesOK, NamesOK, Carried
  <2>3. n \notin Battles /\ n \notin Agents
    BY <1>1, NodesAssumption DEF Players
  <2>4. T!Contender(n) = n
    BY <1>1, <2>3 DEF T!Contender
  <2> QED  BY <2>2, <2>4
<1>2. CASE n \in Battles
  <2>1. Decided(n) /\ n \notin Real
    BY <1>2, NodesAssumption DEF Waits, Decided, IInv, BornOK, Players
  <2>2. T!Contender(n) = Won[n]
    BY <1>2, <2>1, NodesAssumption DEF T!Contender, Players
  <2>3. Won[n] = seat[n][attacker[n]].id
    BY <1>2, <2>1 DEF Won
  <2> QED  BY <1>2, <2>2, <2>3, Carries
<1>3. CASE n \in Agents
  <2>1. n \in Players /\ n \notin Real /\ n \notin Battles /\ pc[n] = "read"
    BY <1>3, NodesAssumption DEF Waits, IInv, BornOK, Players
  <2>2. PICK i \in Real : /\ i = self[n].id /\ Fallen(self[i])
                          /\ self[i].at \in DOMAIN Agent /\ Agent[self[i].at] = n
    BY <1>3, <2>1 DEF PlacesOK, AgentsOK, AgentOK, StandIn
  <2>3. PICK b \in Battles : b = self[i].at
    BY <2>2, AgentAssumption
  <2>4. \A c \in DOMAIN Agent : Agent[c] = n => c = b
    BY <2>2, <2>3, AgentAssumption
  <2>5. T!LoserOf(n) = b
    BY <2>2, <2>3, <2>4 DEF T!LoserOf
  <2>6. Lost[b] = self[i].id
    BY <2>2, <2>3 DEF Lost, Fallen
  <2>7. pc[i] = "exited"
    BY <1>3, <2>1, <2>2 DEF PlacesOK, AgentsOK, AgentOK, StandIn
  <2>8. self[i].id = i
    BY <2>7 DEF PlacesOK, NamesOK
  <2>9. T!Contender(n) = Lost[b]
    BY <1>3, <2>1, <2>5 DEF T!Contender
  <2> QED  BY <2>1, <2>2, <2>6, <2>8, <2>9 DEF Carried
<1> QED  BY <1>1, <1>2, <1>3 DEF Nodes, Players

\* A battle ends with a winner and a loser who come from its two children.
LEMMA PlayFights ==
  ASSUME IInv, PlacesOK, NEW b \in Battles, Play(b), pc'[b] = "reap"
  PROVE  T!Fight(b)
<1>1. PICK s, k : /\ Played(b, s, k)
                  /\ \A i \in {1, 2} : /\ Children[b][i] \in Nodes /\ Waits(Children[b][i])
                                       /\ s[i].id = Carried(Children[b][i])
  BY PlayNames
<1>2. /\ k \in {1, 2} /\ Other(k) \in {1, 2} /\ Other(k) # k
      /\ attacker'[b] = k /\ seat'[b] = s /\ pc[b] = "second"
      /\ \A i \in {1, 2} : s[i].id \in Real
      /\ \A c \in Battles \ {b} : seat'[c] = seat[c] /\ attacker'[c] = attacker[c] /\ pc'[c] = pc[c]
  <2>1. /\ Fought(b, s, k) /\ pc[b] = "second" /\ attacker'[b] = k
        /\ seat' = [seat EXCEPT ![b] = s] /\ \A c \in Battles \ {b} : attacker'[c] = attacker[c]
        /\ \A x \in Nodes \ {b} : pc'[x] = pc[x]
    BY <1>1 DEF Play, Played
  <2>2. seat'[b] = s /\ \A c \in Battles \ {b} : seat'[c] = seat[c]
    BY <2>1 DEF IInv, TypeOK
  <2>3. k \in {1, 2} /\ \A i \in {1, 2} : s[i].id \in Real
    BY <2>1 DEF Fought
  <2>4. Other(k) \in {1, 2} /\ Other(k) # k
    BY <2>3 DEF Other
  <2>5. Battles \subseteq Nodes
    BY DEF Nodes
  <2> QED  BY <2>1, <2>2, <2>3, <2>4, <2>5
<1>3. \A i \in {1, 2} : T!Contender(Children[b][i]) = s[i].id
  BY <1>1, Contends
<1>4. T!Contenders(b) = {s[1].id, s[2].id}
  BY <1>3 DEF T!Contenders
<1>5. s[1].id # s[2].id
  <2>1. ASSUME NEW i \in {1, 2} PROVE Top(Children[b][i])
    <3>1. \A c \in Battles : pc[c] = "back" => Winner(c) \in Kids(c) /\ c # b
      BY <1>2, SeatFacts DEF IInv
    <3>2. \A c \in Battles : Children[b][i] \in Kids(c) => c = b
      BY TreeFacts
    <3> QED  BY <1>1, <3>1, <3>2 DEF Top
  <2>2. Children[b][1] # Children[b][2]
    BY TreeFacts
  <2> QED  BY <1>1, <2>1, <2>2 DEF PlacesOK, TopsOK
<1>6. Won[b] = Nobody /\ Nobody \notin T!Contenders(b)
  BY <1>2, <1>4, NobodyAssumption DEF Won, Decided
<1>7. Won' = [Won EXCEPT ![b] = s[k].id] /\ Lost' = [Lost EXCEPT ![b] = s[Other(k)].id]
  <2>1. Decided(b)' /\ \A c \in Battles \ {b} : Decided(c)' <=> Decided(c)
    BY <1>2 DEF Decided
  <2>2. \A c \in Battles : Won'[c] = IF c = b THEN s[k].id ELSE Won[c]
    BY <1>2, <2>1 DEF Won, Decided
  <2>3. \A c \in Battles : Lost'[c] = IF c = b THEN s[Other(k)].id ELSE Lost[c]
    BY <1>2, <2>1 DEF Lost, Decided
  <2> QED  BY <2>2, <2>3 DEF Won, Lost
<1>8. s[k].id \in T!Contenders(b) /\ s[Other(k)].id \in T!Contenders(b) \ {s[k].id}
  BY <1>2, <1>4, <1>5 DEF Other
<1> QED  BY <1>6, <1>7, <1>8 DEF T!Fight

\* Everything else is a step the tournament does not see.
LEMMA OthersStutter ==
  ASSUME IInv, PlacesOK, WinnersOK, [Next]_vars,
         \A b \in Battles : Play(b) => pc'[b] # "reap"
  PROVE  UNCHANGED <<Won, Lost>>
<1>1. Forever
  BY NextForever
<1>2. ASSUME NEW b \in Battles, Decided(b)' PROVE Decided(b)
  <2>1. ASSUME NEW p \in Players, Player(p) PROVE pc'[b] = pc[b]
    BY <2>1, PlayerMoves, TreeFacts
  <2>2. ASSUME NEW c \in Battles, Battle(c), c # b PROVE pc'[b] = pc[b] \/ pc'[b] = "start"
    BY <2>2, BattleMoves, TreeFacts
  <2>3. CASE Battle(b)
    <3>1. CASE Fork(b)
      BY <1>2, <3>1, TreeFacts DEF Fork, Decided
    <3>2. CASE Play(b)
      <4>1. PICK s, k : Played(b, s, k)
        BY <3>2, PlayEffect
      <4> QED  BY <1>2, <3>2, <4>1 DEF Played, Decided
    <3> QED  BY <1>2, <2>3, <3>1, <3>2, ReadFirstEffect DEF Battle, Reap, PassUp, PassDown, Finish, Decided
  <2> QED  BY <1>2, <2>1, <2>2, <2>3 DEF Next, Terminating, vars, Decided
<1>3. ASSUME NEW b \in Battles, Decided(b)
      PROVE  /\ Decided(b)' /\ seat'[b][attacker'[b]].id = seat[b][attacker[b]].id
             /\ seat'[b][Other(attacker'[b])].id = seat[b][Other(attacker[b])].id
  BY <1>1, <1>3, WinnerStays DEF Forever, Settled
<1>4. \A b \in Battles : Won'[b] = Won[b] /\ Lost'[b] = Lost[b]
  BY <1>2, <1>3 DEF Won, Lost, Decided
<1> QED  BY <1>4 DEF Won, Lost

(* A battle is fought by the winners of the battles below it, and an agent *)
(* stands in for the loser of its battle and for nobody else.              *)
THEOREM Refinement == Spec => PlaysTournament
<1>1. Init => T!TournamentInit
  BY TreeFacts DEF Init, T!TournamentInit, Won, Lost, Decided
<1>2. ASSUME IInv, PlacesOK, WinnersOK, [Next]_vars
      PROVE  [\E b \in Battles : T!Fight(b)]_<<Won, Lost>>
  <2>1. CASE \E b \in Battles : Play(b) /\ pc'[b] = "reap"
    BY <1>2, <2>1, PlayFights
  <2>2. CASE \A b \in Battles : Play(b) => pc'[b] # "reap"
    BY <1>2, <2>2, OthersStutter
  <2> QED  BY <2>1, <2>2
<1> QED
  BY <1>1, <1>2, Invariance, PlacesInvariance, WinnersInvariance, PTL
     DEF Spec, PlaysTournament, T!TournamentSpec

-----------------------------------------------------------------------------
(* The statuses on their way are those of the rules.                       *)

LEMMA RulesStay ==
  ASSUME table' = table
  PROVE  /\ Rules' = Rules
         /\ \A b \in Battles : Entrants(b)' = Entrants(b) /\ Result(b)' = Result(b)
<1>1. Rules' = Rules
  BY DEF Rules
<1> QED  BY <1>1 DEF Entrants, Result

\* What holds before every step.
RulesState == IInv /\ PlacesOK /\ WinnersOK /\ RulesOK

LEMMA LikeFacts ==
  ASSUME NEW s, NEW t, NEW u
  PROVE  /\ Like(s, s) /\ SameFighter(s, s)
         /\ Like(s, t) => Like(t, s)
         /\ Like(s, t) /\ Like(t, u) => Like(s, u)
         /\ SameFighter(s, t) => SameFighter(t, s)
         /\ SameFighter(s, t) /\ SameFighter(t, u) => SameFighter(s, u)
BY DEF Like, SameFighter

LEMMA ReplySame ==
  ASSUME TypeOK, NEW s \in Status, s.id \in Real
  PROVE  SameFighter(Reply(s), s) /\ (~s.ended => Reply(s) = s)
<1>1. table[s.id].hp \in Nat
  BY TablesAssumption DEF TypeOK
<1>2. s.hp + (table[s.id].hp - s.hp) \div 2 \in Int
  BY <1>1 DEF Status
<1> DEFINE g == s.hp + (table[s.id].hp - s.hp) \div 2
<1>3. Recovered(s, table[s.id].hp) = [s EXCEPT !.ended = FALSE, !.hp = g]
  BY DEF Recovered
<1> HIDE DEF g
<1>4. SameFighter(Recovered(s, table[s.id].hp), s)
  BY <1>3 DEF Status, SameFighter
<1> QED  BY <1>4 DEF Reply, SameFighter

\* What is due is the same after a step that changes neither the seats nor their battle.
LEMMA DueFrame ==
  ASSUME NEW b \in Battles, NEW k, table' = table, seat'[b] = seat[b], Decided(b)' = Decided(b)
  PROVE  Due(b, k)' = Due(b, k) /\ Begun(b)' = Begun(b)
<1>1. Entrants(b)' = Entrants(b)
  BY RulesStay
<1>2. Begun(b)' = Begun(b)
  BY DEF Begun
<1>3. Reply(seat[b][k])' = Reply(seat[b][k])
  BY DEF Reply
<1> QED  BY <1>1, <1>2, <1>3 DEF Due

LEMMA TransitFrame ==
  ASSUME NEW b \in Battles, NEW k \in {1, 2}, InTransit(b, k), table' = table,
         seat'[b] = seat[b], Decided(b)' = Decided(b),
         up'[Children[b][k]] = up[Children[b][k]], down'[Children[b][k]] = down[Children[b][k]],
         Children[b][k] \in Battles /\ pc'[Children[b][k]] \in {"reap", "pass"} =>
           /\ pc[Children[b][k]] \in {"reap", "pass"}
           /\ seat'[Children[b][k]] = seat[Children[b][k]]
           /\ attacker'[Children[b][k]] = attacker[Children[b][k]]
  PROVE  InTransit(b, k)'
<1> DEFINE n == Children[b][k]
<1>1. Due(b, k)' = Due(b, k) /\ Begun(b)' = Begun(b)
  BY DueFrame
<1>2. n \in Battles /\ pc'[n] \in {"reap", "pass"} =>
        /\ pc[n] \in {"reap", "pass"} /\ attacker'[n] = attacker[n]
        /\ Due(n, attacker[n])' = Due(n, attacker[n])
  <2> SUFFICES ASSUME n \in Battles, pc'[n] \in {"reap", "pass"}
               PROVE  /\ pc[n] \in {"reap", "pass"} /\ attacker'[n] = attacker[n]
                      /\ Due(n, attacker[n])' = Due(n, attacker[n])
    OBVIOUS
  <2>1. pc[n] \in {"reap", "pass"} /\ seat'[n] = seat[n] /\ attacker'[n] = attacker[n]
    OBVIOUS
  <2>2. Decided(n) /\ Decided(n)'
    BY <2>1 DEF Decided
  <2> DEFINE a == attacker[n]
  <2>3. a' = a
    BY <2>1
  <2> QED  BY <2>1, <2>2, <2>3 DEF Due, Reply
<1> QED  BY <1>1, <1>2 DEF InTransit

\* A step of process x is seen at the battle above x and, if x is a battle, below it.
LEMMA TransitsElsewhere ==
  ASSUME MessagesOK, NEW x \in Nodes, table' = table,
         \A c \in Battles \ {x} : seat'[c] = seat[c] /\ attacker'[c] = attacker[c],
         \A m \in Nodes \ {x} : pc'[m] = pc[m],
         \A m \in Nodes \ {x} : (x \in Battles /\ m \in Kids(x)) \/ (up'[m] = up[m] /\ down'[m] = down[m]),
         \A c \in Battles : \A k \in {1, 2} : c = x \/ Children[c][k] = x => InTransit(c, k)'
  PROVE  MessagesOK'
<1> SUFFICES ASSUME NEW c \in Battles, NEW k \in {1, 2}, c # x, Children[c][k] # x
             PROVE  InTransit(c, k)'
  BY DEF MessagesOK
<1> DEFINE n == Children[c][k]
<1>1. n \in Kids(c) /\ n \in Nodes /\ c \in Nodes
  BY TreeFacts
<1>2. up'[n] = up[n] /\ down'[n] = down[n]
  BY <1>1, TreeFacts
<1>3. pc'[n] = pc[n] /\ pc'[c] = pc[c] /\ seat'[c] = seat[c]
  BY <1>1
<1>4. Decided(c)' = Decided(c)
  BY <1>3 DEF Decided
<1>5. n \in Battles => seat'[n] = seat[n] /\ attacker'[n] = attacker[n]
  OBVIOUS
<1>6. InTransit(c, k)
  BY DEF MessagesOK
<1> QED  BY <1>2, <1>3, <1>4, <1>5, <1>6, TransitFrame

LEMMA ContestFrame ==
  ASSUME NEW b \in Battles, Contest(b), table' = table,
         seat'[b] = seat[b], attacker'[b] = attacker[b], pc'[b] = pc[b],
         \A n \in Kids(b) : Known(n) => Known(n)'
  PROVE  Contest(b)'
<1>1. Rules' = Rules /\ Entrants(b)' = Entrants(b) /\ Result(b)' = Result(b)
  BY RulesStay
<1>2. Begun(b)' = Begun(b) /\ Decided(b)' = Decided(b)
  BY DEF Begun, Decided
<1>3. Fighting(b) => Fighting(b)'
  BY <1>1 DEF Fighting
<1> QED  BY <1>1, <1>2, <1>3 DEF Contest

LEMMA ContestsElsewhere ==
  ASSUME RulesState, [Next]_vars, NEW x \in Nodes, table' = table,
         \A c \in Battles \ {x} : seat'[c] = seat[c] /\ attacker'[c] = attacker[c] /\ pc'[c] = pc[c],
         x \in Battles => Contest(x)'
  PROVE  ContestsOK'
<1> SUFFICES ASSUME NEW c \in Battles, c # x PROVE Contest(c)'
  BY DEF ContestsOK
<1>1. \A n \in Kids(c) : Known(n) => Known(n)'
  BY KnownStays, NextForever, TreeFacts DEF RulesState
<1> QED  BY <1>1, ContestFrame DEF RulesState, RulesOK, ContestsOK

\* What a process that waits for an answer will make of it is what is due.
LEMMA AnswerDue ==
  ASSUME RulesState, NEW b \in Battles, NEW k \in {1, 2}, down[Children[b][k]] # <<>>
  PROVE  LET s == Head(down[Children[b][k]]) IN
         s = seat[b][k] /\ Due(b, k) = Reply(s)
<1> DEFINE n == Children[b][k]
           s == Head(down[n])
<1>1. /\ InTransit(b, k) /\ Contest(b)
      /\ n \in Kids(b) /\ n \in Nodes
  BY TreeFacts DEF RulesState, RulesOK, MessagesOK, ContestsOK
<1>2. s = seat[b][k] /\ Begun(b)
  BY <1>1 DEF InTransit
<1>3. s \in Status /\ s.id \in Real
  BY <1>1, TakenOne DEF RulesState, Told
<1>4. CASE Decided(b)
  BY <1>2, <1>4 DEF Due
<1>5. CASE ~Decided(b)
  <2>1. pc[b] \in {"first", "second"}
    <3>1. pc[b] \notin {"unborn", "start"}
      BY <1>1, <1>2, NodesAssumption DEF Contest, Known, RulesState, IInv, EdgesOK, Edge, Decided, Nodes
    <3> QED  BY <1>5, <3>1, TreeFacts DEF RulesState, IInv, BornOK, TypeOK, Decided
  <2>2. ~s.ended
    BY <1>1, <1>2, <2>1 DEF Contest, Fighting
  <2> QED  BY <1>2, <1>3, <1>5, <2>2, ReplySame DEF Due, RulesState, IInv
<1> QED  BY <1>2, <1>4, <1>5

-----------------------------------------------------------------------------
(* The steps of a battle.                                                  *)

\* Who fought a battle, fell and came back is not touched by a battle that ends nothing.
LEMMA LosersFrame ==
  ASSUME RulesState, IInv', table' = table, NEW b \in Battles, Battle(b),
         \A n \in Nodes : down'[n] # <<>> =>
           \/ down'[n] = down[n]
           \/ Head(down'[n]).atk > 0 /\ (Head(down'[n]).hp <= 0 => Beaten(Head(down'[n])))
  PROVE  LosersOK'
<1>1. Rules' = Rules /\ \A c \in Battles : Result(c)' = Result(c)
  BY RulesStay
<1>2. UNCHANGED <<self, original, fifo>>
  BY DEF Battle, Fork, ReadFirst, Play, Reap, PassUp, PassDown, Finish
<1>3. LosersOK /\ TypeOK
  BY DEF RulesState, RulesOK, IInv
<1>4. \A p \in Players : pc'[p] \in {"read", "open"} => pc[p] = pc'[p]
  <2> SUFFICES ASSUME NEW p \in Players, pc'[p] \in {"read", "open"} PROVE pc[p] = pc'[p]
    OBVIOUS
  <2>1. p \in Nodes \ {b}
    BY TreeFacts DEF Nodes
  <2> QED  BY <2>1, BattleMoves DEF RulesState
<1>5. \A p \in Players : pc'[p] = "read" => original'[p] = table'[self'[p].id].hp
  BY <1>2, <1>3, <1>4 DEF LosersOK
<1>6. \A p \in Real : pc'[p] = "open" => Like(self'[p], Rules'[AgentFor(self'[p].at)])
  BY <1>1, <1>2, <1>3, <1>4 DEF LosersOK, Players
<1>7. \A a \in Agents : fifo'[a] # <<>> => Like(Head(fifo'[a]), Rules'[a])
  BY <1>1, <1>2, <1>3 DEF LosersOK
<1>8. ASSUME NEW n \in Nodes, down'[n] # <<>>
      PROVE  Head(down'[n]).atk > 0 /\ (Head(down'[n]).hp <= 0 => Beaten(Head(down[n]))')
  <2>1. Head(down'[n]) \in Status
    BY <1>8 DEF IInv, TypeOK
  <2>2. Head(down'[n]).at \in Battles
    BY <2>1 DEF Status
  <2>3. Result(Head(down[n]).at)' = Result(Head(down'[n]).at)
    BY <1>1, <2>2
  <2>4. Beaten(Head(down[n]))' <=> Beaten(Head(down'[n]))
    BY <2>3 DEF Beaten
  <2> QED  BY <1>3, <1>8, <2>4 DEF LosersOK
<1> QED  BY <1>5, <1>6, <1>7, <1>8 DEF LosersOK

\* The champion is named once the root's battle is over.
LEMMA ChampionFrame ==
  ASSUME RulesState, [Next]_vars, table' = table, champion' = champion
  PROVE  ChampionOK'
<1>1. Rules' = Rules
  BY RulesStay
<1>2. Decided(A) => Decided(A)'
  BY NextForever, NodesAssumption DEF RulesState, Forever, Settled
<1> QED  BY <1>1, <1>2 DEF ChampionOK, RulesState, RulesOK

LEMMA ForkRules ==
  ASSUME RulesState, [Next]_vars, IInv', NEW b \in Battles, Fork(b)
  PROVE  RulesOK'
<1>1. /\ pc[b] = "start" /\ b \in Nodes
      /\ UNCHANGED <<table, seat, attacker, self, up, down, fifo, original, champion>>
  BY TreeFacts DEF Fork
<1>2. \A n \in Nodes : pc'[n] = IF n = b THEN "first" ELSE IF n \in Kids(b) THEN "start" ELSE pc[n]
  BY DEF Fork
<1>3. \A n \in Kids(b) : n \in Nodes /\ pc[n] = "unborn"
  BY <1>1, Around DEF Edge, RulesState
<1>4. \A c \in Battles : Decided(c)' = Decided(c)
  BY <1>1, <1>2, <1>3, TreeFacts DEF Decided
<1>5. MessagesOK'
  <2> SUFFICES ASSUME NEW c \in Battles, NEW k \in {1, 2} PROVE InTransit(c, k)'
    BY DEF MessagesOK
  <2>1. Children[c][k] \in Nodes /\ InTransit(c, k)
    BY TreeFacts DEF RulesState, RulesOK, MessagesOK
  <2>2. pc'[Children[c][k]] \in {"reap", "pass"} => pc[Children[c][k]] \in {"reap", "pass"}
    BY <1>2, <2>1
  <2> QED  BY <1>1, <1>4, <2>1, <2>2, TransitFrame
<1>6. ContestsOK'
  <2> SUFFICES ASSUME NEW c \in Battles PROVE Contest(c)'
    BY DEF ContestsOK
  <2>1. Contest(c) /\ c \in Nodes
    BY TreeFacts DEF RulesState, RulesOK, ContestsOK
  <2>2. CASE c = b
    <3>1. ~Begun(b)
      <4>1. \E n \in Kids(b) : n \in Nodes /\ pc[n] = "unborn"
        BY <1>3, TreeFacts
      <4> QED  BY <2>1, <2>2, <4>1 DEF Contest, Known, Decided
    <3>2. ~Begun(b)'
      BY <1>1, <3>1 DEF Begun
    <3>3. pc'[b] = "first"
      BY <1>1, <1>2
    <3> QED  BY <2>2, <3>2, <3>3 DEF Contest, Decided
  <2>3. CASE c # b /\ c \in Kids(b)
    <3>1. pc[c] = "unborn" /\ pc'[c] = "start"
      BY <1>2, <1>3, <2>3
    <3>2. ~Begun(c)
      <4>1. \E n \in Kids(c) : n \in Nodes /\ pc[n] = "unborn"
        BY <3>1, Around, TreeFacts DEF Edge, RulesState
      <4> QED  BY <2>1, <4>1 DEF Contest, Known, Decided
    <3>3. ~Begun(c)'
      BY <1>1, <3>2 DEF Begun
    <3> QED  BY <3>1, <3>3 DEF Contest, Decided
  <2>4. CASE c # b /\ c \notin Kids(b)
    <3>1. pc'[c] = pc[c]
      BY <1>2, <2>1, <2>4
    <3>2. \A n \in Kids(c) : Known(n) => Known(n)'
      BY KnownStays, NextForever, TreeFacts DEF RulesState
    <3> QED  BY <1>1, <2>1, <3>1, <3>2, ContestFrame
  <2> QED  BY <2>2, <2>3, <2>4
<1>7. LosersOK'
  BY <1>1, LosersFrame DEF Battle
<1>8. ChampionOK'
  BY <1>1, ChampionFrame
<1> QED  BY <1>5, <1>6, <1>7, <1>8 DEF RulesOK

LEMMA ReadFirstRules ==
  ASSUME RulesState, [Next]_vars, IInv', NEW b \in Battles, ReadFirst(b)
  PROVE  RulesOK'
<1> DEFINE n == Children[b][1]
           s == Head(up[n])
<1>1. /\ pc[b] = "first" /\ pc'[b] = "second" /\ \A m \in Nodes \ {b} : pc'[m] = pc[m]
      /\ up[n] # <<>> /\ up'[n] = <<>> /\ \A m \in Nodes \ {n} : up'[m] = up[m]
      /\ seat'[b][1] = s /\ \A c \in Battles \ {b} : seat'[c] = seat[c]
      /\ UNCHANGED <<attacker, self, down, fifo>>
  BY ReadFirstEffect DEF RulesState
<1>2. table' = table /\ champion' = champion
  BY DEF ReadFirst
<1>3. seat'[b][2] = seat[b][2]
  <2>1. seat' = [seat EXCEPT ![b][1] = s] /\ seat[b] \in Status \X Status
    BY DEF ReadFirst, RulesState, IInv, TypeOK
  <2> QED  BY <2>1 DEF RulesState, IInv, TypeOK
<1>4. b \in Nodes /\ n \in Nodes /\ n \in Kids(b) /\ InTransit(b, 1) /\ InTransit(b, 2) /\ Contest(b)
  BY TreeFacts DEF RulesState, RulesOK, MessagesOK, ContestsOK
<1>5. Like(s, Due(b, 1)) /\ down[n] = <<>> /\ Waits(n)
  BY <1>1, <1>4, Around DEF InTransit, Edge, RulesState
<1>6. ~Decided(b) /\ ~Decided(b)' /\ Begun(b)' = Begun(b)
  BY <1>1, <1>3 DEF Decided, Begun
<1>7. Entrants(b)' = Entrants(b) /\ Result(b)' = Result(b) /\ Rules' = Rules
  BY <1>2, RulesStay
<1>8. Due(b, 2)' = Due(b, 2)
  BY <1>3, <1>6, <1>7 DEF Due
<1>9. InTransit(b, 1)'
  BY <1>1, <1>4, <1>5 DEF InTransit, Waits
<1>10. InTransit(b, 2)'
  <2> DEFINE m == Children[b][2]
  <2>1. m \in Nodes /\ m # n /\ m # b
    BY TreeFacts
  <2>2. up'[m] = up[m] /\ down'[m] = down[m] /\ pc'[m] = pc[m]
    BY <1>1, <2>1
  <2>3. m \in Battles => Due(m, attacker[m])' = Due(m, attacker[m])
    <3> SUFFICES ASSUME m \in Battles PROVE Due(m, attacker[m])' = Due(m, attacker[m])
      OBVIOUS
    <3>1. seat'[m] = seat[m] /\ attacker'[m] = attacker[m] /\ Decided(m)' = Decided(m)
      BY <1>1, <2>1, <2>2 DEF Decided
    <3> QED  BY <1>2, <3>1, DueFrame
  <2> QED  BY <1>1, <1>3, <1>4, <1>6, <1>8, <2>2, <2>3 DEF InTransit
<1>11. MessagesOK'
  <2>1. \A k \in {1, 2} : InTransit(b, k)'
    BY <1>9, <1>10
  <2>2. ASSUME NEW c \in Battles, NEW k \in {1, 2}, Children[c][k] = b PROVE InTransit(c, k)'
    <3>1. InTransit(c, k) /\ c # b /\ b \in Kids(c) /\ c \in Nodes /\ b # n
      BY <2>2, TreeFacts DEF RulesState, RulesOK, MessagesOK
    <3>2. Decided(c)' = Decided(c) /\ seat'[c] = seat[c]
      BY <1>1, <3>1 DEF Decided
    <3>3. up'[b] = up[b]
      BY <1>1, <1>4, <3>1
    <3>4. pc'[Children[c][k]] \notin {"reap", "pass"}
      BY <1>1, <2>2
    <3> QED  BY <1>1, <1>2, <2>2, <3>1, <3>2, <3>3, <3>4, TransitFrame
  <2>3. \A m \in Nodes \ {b} : m \notin Kids(b) => up'[m] = up[m] /\ down'[m] = down[m]
    BY <1>1, <1>4
  <2> QED  BY <1>1, <1>2, <1>4, <2>1, <2>2, <2>3, TransitsElsewhere DEF RulesState, RulesOK
<1>12. Contest(b)'
  <2>1. \A m \in Kids(b) : Known(m) => Known(m)'
    BY KnownStays, NextForever, TreeFacts DEF RulesState
  <2>2. ~Begun(b) => Like(seat'[b][1], Entrants(b)[1])
    BY <1>1, <1>5, <1>6 DEF Due
  <2>3. Begun(b) => Fighting(b)'
    <3> SUFFICES ASSUME Begun(b) PROVE Fighting(b)'
      OBVIOUS
    <3>1. Fighting(b) /\ Like(seat'[b][1], seat[b][1])
      BY <1>1, <1>4, <1>5, <1>6 DEF Contest, Due
    <3>2. seat'[b][1].hp = seat[b][1].hp /\ seat'[b][1].ended = seat[b][1].ended
          /\ SameFighter(seat'[b][1], seat[b][1])
      BY <3>1 DEF Like
    <3>3. SameFighter(seat'[b][1], Entrants(b)[1])
      BY <3>1, <3>2 DEF Fighting, SameFighter
    <3> QED  BY <1>3, <1>7, <3>1, <3>2, <3>3 DEF Fighting
  <2> QED  BY <1>1, <1>4, <1>6, <1>7, <2>1, <2>2, <2>3 DEF Contest
<1>13. ContestsOK'
  BY <1>1, <1>2, <1>4, <1>12, ContestsElsewhere DEF Nodes
<1>14. LosersOK' /\ ChampionOK'
  BY <1>1, <1>2, LosersFrame, ChampionFrame DEF Battle
<1> QED  BY <1>11, <1>13, <1>14 DEF RulesOK

\* Between the second status and the round the rules still lead to the end of the battle.
Opening(b) == <<[seat[b][1] EXCEPT !.at = b], [Head(up[Children[b][2]]) EXCEPT !.at = b]>>

LEMMA OpeningFacts ==
  ASSUME RulesState, NEW b \in Battles, Play(b)
  PROVE  LET t == Opening(b) IN
         /\ Fighters(t)
         /\ \A k \in {1, 2} : SameFighter(t[k], Entrants(b)[k]) /\ t[k].hp > 0
         /\ Rounds(b, Entrants(b))[<<t[1].hp, t[2].hp>>] = Result(b)
<1> DEFINE n == Children[b][2]
           u == seat[b][1]
           v == Head(up[n])
           e == Entrants(b)
           t == Opening(b)
<1>1. pc[b] = "second" /\ up[n] # <<>> /\ table \in Tables
  BY DEF Play, RulesState, IInv, TypeOK
<1>2. /\ n \in Kids(b) /\ InTransit(b, 2) /\ Contest(b) /\ ~Decided(b)
  BY <1>1, TreeFacts DEF RulesState, RulesOK, MessagesOK, ContestsOK, Decided
<1>3. u \in Status /\ v \in Status
  BY <1>1, <1>2, TakenOne DEF RulesState, IInv, TypeOK
<1>4. Alive(u) /\ Alive(v)
  BY <1>1, <1>2, TakenOne DEF RulesState, IInv, StatusOK
<1>5. /\ Fighters(e) /\ \A k \in {1, 2} : e[k].hp > 0 /\ e[k].atk > 0
      /\ Result(b) = Rounds(b, e)[<<e[1].hp, e[2].hp>>]
  BY <1>1, EntrantsFacts DEF Fighters
<1>6. /\ t \in Status \X Status /\ t[1].hp = u.hp /\ t[2].hp = v.hp
      /\ SameFighter(t[1], u) /\ SameFighter(t[2], v)
      /\ \A k \in {1, 2} : t[k].hp > 0 /\ ~t[k].ended
  BY <1>3, <1>4 DEF Opening, Status, SameFighter, Alive
<1> HIDE DEF t, e
<1>7. /\ SameFighter(u, e[1]) /\ SameFighter(v, e[2])
      /\ Rounds(b, e)[<<u.hp, v.hp>>] = Result(b)
  <2>1. CASE Begun(b)
    <3>1. Fighting(b) /\ Like(v, seat[b][2])
      BY <1>1, <1>2, <2>1 DEF Contest, InTransit, Due
    <3>2. v.hp = seat[b][2].hp /\ SameFighter(v, seat[b][2])
      BY <3>1 DEF Like
    <3> QED  BY <3>1, <3>2 DEF Fighting, SameFighter, e
  <2>2. CASE ~Begun(b)
    <3>1. Like(u, e[1]) /\ Like(v, e[2])
      BY <1>1, <1>2, <2>2 DEF Contest, InTransit, Due, e
    <3> QED  BY <1>5, <3>1 DEF Like
  <2> QED  BY <2>1, <2>2
<1>8. \A k \in {1, 2} : SameFighter(t[k], e[k]) /\ t[k].atk > 0
  <2>1. SameFighter(t[1], e[1]) /\ SameFighter(t[2], e[2])
    BY <1>6, <1>7 DEF SameFighter
  <2>2. \A k \in {1, 2} : k = 1 \/ k = 2
    OBVIOUS
  <2> QED  BY <1>5, <2>1, <2>2 DEF SameFighter
<1>9. Fighters(t)
  BY <1>6, <1>8 DEF Fighters
<1> QED  BY <1>6, <1>7, <1>8, <1>9 DEF t, e

\* What a round makes of the seats, as far as the rules go.
LEMMA PlayOutcome ==
  ASSUME RulesState, NEW b \in Battles, Play(b)
  PROVE  \E s, k :
           /\ Played(b, s, k)
           /\ \A i \in {1, 2} : SameFighter(s[i], Entrants(b)[i])
           /\ s[1].ended => /\ k = Result(b).attacker
                            /\ \A i \in {1, 2} : Like(s[i], Result(b).seats[i])
           /\ ~s[1].ended => Rounds(b, Entrants(b))[<<s[1].hp, s[2].hp>>] = Result(b)
<1> DEFINE r == Round(b, Opening(b))
<1>1. /\ Fighters(Opening(b))
      /\ \A k \in {1, 2} : SameFighter(Opening(b)[k], Entrants(b)[k]) /\ Opening(b)[k].hp > 0
      /\ Rounds(b, Entrants(b))[<<Opening(b)[1].hp, Opening(b)[2].hp>>] = Result(b)
  BY OpeningFacts
<1>2. table \in Tables /\ TypeOK
  BY DEF RulesState, IInv, TypeOK
<1>3. /\ \A k \in {1, 2} : SameFighter(r.seats[k], Entrants(b)[k])
      /\ r.seats[1].ended => /\ r.attacker = Result(b).attacker
                             /\ \A k \in {1, 2} : Like(r.seats[k], Result(b).seats[k])
      /\ ~r.seats[1].ended =>
           Rounds(b, Entrants(b))[<<r.seats[1].hp, r.seats[2].hp>>] = Result(b)
  BY <1>1, <1>2, RoundOfBout
<1>4. PICK s, k : Played(b, s, k)
  BY PlayEffect DEF RulesState
<1>5. seat' = [seat EXCEPT ![b] = r.seats] /\ attacker' = [attacker EXCEPT ![b] = r.attacker]
  BY DEF Play, Opening
<1> HIDE DEF r
<1>6. s = r.seats /\ k = r.attacker
  BY <1>2, <1>4, <1>5 DEF Played, TypeOK
<1> QED  BY <1>3, <1>4, <1>6

\* What a winner sends back is with what the rules let it go on.
LEMMA ReplyOfWinner ==
  ASSUME table \in Tables, NEW b \in Battles, NEW s \in Status, s.ended,
         Like(s, Result(b).seats[Result(b).attacker])
  PROVE  Like(Reply(s), Rules[b])
<1> DEFINE u == Result(b).seats[Result(b).attacker]
           max == table[s.id].hp
<1>1. u \in Status /\ SameFighter(Rules[b], u) /\ Like(Rules[b], Recovered(u, table[u.id].hp))
  BY WinnerRule
<1>2. s.id = u.id /\ s.hp = u.hp /\ SameFighter(s, u)
  BY DEF Like, SameFighter
<1> HIDE DEF u
<1> DEFINE h == s.hp + (max - s.hp) \div 2
<1>3. /\ Recovered(s, max) = [s EXCEPT !.ended = FALSE, !.hp = h]
      /\ Recovered(u, max) = [u EXCEPT !.ended = FALSE, !.hp = h]
  BY <1>2 DEF Recovered
<1>4. table[u.id].hp = max
  BY <1>2
<1> HIDE DEF max, h
<1>5. Like(Recovered(s, max), Recovered(u, max))
  BY <1>1, <1>2, <1>3 DEF Status, Like, SameFighter
<1>6. Reply(s) = Recovered(s, max)
  BY DEF Reply, max
<1> QED  BY <1>1, <1>4, <1>5, <1>6 DEF Like, SameFighter

LEMMA PlayContest ==
  ASSUME RulesState, [Next]_vars, IInv', NEW b \in Battles, Play(b)
  PROVE  /\ Contest(b)' /\ Begun(b)' /\ table' = table /\ champion' = champion
         /\ \A c \in Battles \ {b} : seat'[c] = seat[c]
<1>1. PICK s, k :
           /\ Played(b, s, k)
           /\ \A i \in {1, 2} : SameFighter(s[i], Entrants(b)[i])
           /\ s[1].ended => /\ k = Result(b).attacker
                            /\ \A i \in {1, 2} : Like(s[i], Result(b).seats[i])
           /\ ~s[1].ended => Rounds(b, Entrants(b))[<<s[1].hp, s[2].hp>>] = Result(b)
  BY PlayOutcome
<1>2. /\ table' = table /\ champion' = champion /\ TypeOK /\ table \in Tables
  BY DEF Play, RulesState, IInv, TypeOK
<1>3. /\ seat'[b] = s /\ \A c \in Battles \ {b} : seat'[c] = seat[c]
      /\ attacker'[b] = k /\ pc'[b] = IF s[1].ended THEN "reap" ELSE "first"
  BY <1>1, <1>2 DEF Played, TypeOK
<1>4. Rules' = Rules /\ Entrants(b)' = Entrants(b) /\ Result(b)' = Result(b)
  BY <1>2, RulesStay
<1>5. Begun(b)'
  <2>1. s[2].atk = Entrants(b)[2].atk /\ Entrants(b)[2].atk > 0
    BY <1>1, <1>2, EntrantsFacts DEF SameFighter, Entrant
  <2> QED  BY <1>3, <2>1 DEF Begun
<1>6. \A n \in Kids(b) : Known(n)'
  <2> SUFFICES ASSUME NEW n \in Kids(b) PROVE Known(n)'
    OBVIOUS
  <2>1. n \in Nodes /\ Waits(n)
    BY <1>1, TreeFacts DEF Played, Kids
  <2>2. Known(n)
    BY <2>1, WaitsKnown DEF RulesState, IInv
  <2> QED  BY <2>1, <2>2, KnownStays, NextForever DEF RulesState
<1>7. CASE s[1].ended
  <2>1. pc'[b] = "reap" /\ k = Result(b).attacker /\ k \in {1, 2} /\ Like(s[k], Result(b).seats[k])
    BY <1>1, <1>3, <1>7 DEF Played, Fought
  <2>2. s[k].id = Rules[b].id
    BY <1>2, <2>1, WinnerRule DEF Like, SameFighter
  <2> QED  BY <1>2, <1>3, <1>4, <1>5, <1>6, <2>1, <2>2 DEF Contest
<1>8. CASE ~s[1].ended
  <2>1. pc'[b] = "first" /\ \A i \in {1, 2} : s[i].hp > 0 /\ ~s[i].ended
    BY <1>1, <1>3, <1>8 DEF Played, Fought
  <2>2. Fighting(b)'
    BY <1>1, <1>3, <1>4, <1>8, <2>1 DEF Fighting
  <2> QED  BY <1>2, <1>3, <1>5, <1>6, <2>1, <2>2 DEF Contest, Decided
<1> QED  BY <1>2, <1>3, <1>5, <1>7, <1>8

\* The battle above still waits for whoever wins b.
LEMMA PlayAbove ==
  ASSUME RulesState, [Next]_vars, IInv', NEW b \in Battles, Play(b),
         NEW c \in Battles, NEW k \in {1, 2}, Children[c][k] = b
  PROVE  InTransit(c, k)'
<1>1. PICK s, j :
           /\ Played(b, s, j)
           /\ s[1].ended => /\ j = Result(b).attacker
                            /\ \A i \in {1, 2} : Like(s[i], Result(b).seats[i])
  BY PlayOutcome
<1>2. /\ c # b /\ b \in Kids(c) /\ c \in Nodes /\ Edge(c, b) /\ b \in Nodes /\ pc[b] = "second"
      /\ table \in Tables /\ table' = table /\ \A d \in Battles \ {b} : seat'[d] = seat[d]
      /\ Contest(c)
  <2>1. c # b /\ b \in Kids(c) /\ c \in Nodes /\ b \in Nodes
    BY TreeFacts
  <2>2. Edge(c, b)
    BY <2>1, Around DEF RulesState
  <2>3. pc[b] = "second" /\ table \in Tables /\ Contest(c)
    BY DEF Play, RulesState, IInv, TypeOK, RulesOK, ContestsOK
  <2>4. table' = table /\ \A d \in Battles \ {b} : seat'[d] = seat[d]
    BY PlayContest
  <2> QED  BY <2>1, <2>2, <2>3, <2>4
<1>3. up'[b] = <<>> /\ down'[b] = <<>> /\ pc'[c] = pc[c]
  <2>1. up[b] = <<>> /\ down[b] = <<>>
    BY <1>2 DEF Edge, Waits
  <2>2. b \notin {Children[b][1], Children[b][2]}
    BY TreeFacts DEF Kids
  <2> QED  BY <1>1, <1>2, <2>1, <2>2 DEF Played
<1>4. ~Begun(c) /\ ~Decided(c)
  BY <1>2, NodesAssumption DEF Contest, Known, Decided, Nodes
<1>5. Due(c, k)' = Rules[b]
  <2>1. Due(c, k)' = Due(c, k)
    BY <1>2, <1>3, DueFrame DEF Decided
  <2>2. Entrants(c)[k] = Rules[b]
    BY <1>2, EntrantsFacts
  <2> QED  BY <1>4, <2>1, <2>2 DEF Due
<1>6. ASSUME pc'[b] \in {"reap", "pass"} PROVE Like(Due(b, attacker[b]), Due(c, k))'
  <2>1. /\ s[1].ended /\ j \in {1, 2} /\ s[j] \in Status /\ s[j].ended
        /\ Like(s[j], Result(b).seats[Result(b).attacker])
        /\ seat'[b] = s /\ attacker'[b] = j
    <3>1. s[1].ended
      BY <1>1, <1>6 DEF Played
    <3>2. j \in {1, 2} /\ s \in Status \X Status /\ s[j].ended = s[1].ended
      BY <1>1 DEF Played, Fought
    <3>3. seat'[b] = s /\ attacker'[b] = j
      BY <1>1 DEF Played, RulesState, IInv, TypeOK
    <3> QED  BY <1>1, <3>1, <3>2, <3>3
  <2>2. Like(Reply(s[j]), Rules[b])
    BY <1>2, <2>1, ReplyOfWinner
  <2>3. Due(b, attacker[b])' = Reply(s[j])
    BY <1>2, <1>6, <2>1 DEF Due, Decided, Reply
  <2> QED  BY <1>5, <2>2, <2>3 DEF Like, SameFighter
<1> QED  BY <1>3, <1>6 DEF InTransit

LEMMA PlayRules ==
  ASSUME RulesState, [Next]_vars, IInv', NEW b \in Battles, Play(b)
  PROVE  RulesOK'
<1>1. PICK s, k :
           /\ Played(b, s, k)
           /\ \A i \in {1, 2} : SameFighter(s[i], Entrants(b)[i])
           /\ s[1].ended => /\ k = Result(b).attacker
                            /\ \A i \in {1, 2} : Like(s[i], Result(b).seats[i])
  BY PlayOutcome
<1>2. /\ Contest(b)' /\ Begun(b)' /\ table' = table /\ champion' = champion
      /\ b \in Nodes /\ \A c \in Battles \ {b} : seat'[c] = seat[c]
  BY PlayContest, TreeFacts
<1>3. /\ seat'[b] = s /\ attacker'[b] = k /\ \A c \in Battles \ {b} : attacker'[c] = attacker[c]
      /\ \A m \in Nodes \ {b} : pc'[m] = pc[m]
      /\ \A m \in Nodes \ {b} : m \in Kids(b) \/ (up'[m] = up[m] /\ down'[m] = down[m])
  BY <1>1 DEF Played, Kids, RulesState, IInv, TypeOK
<1>4. \A i \in {1, 2} : LET n == Children[b][i] IN
        n \in Nodes \ {b} /\ n \in Kids(b) /\ Waits(n) /\ up'[n] = <<>> /\ Holding(down'[n], s[i])
  <2>1. \A i \in {1, 2} : i = 1 \/ i = 2
    OBVIOUS
  <2> QED  BY <1>1, <2>1, TreeFacts DEF Played
<1>5. MessagesOK'
  <2>1. ASSUME NEW i \in {1, 2} PROVE InTransit(b, i)'
    <3>1. pc'[Children[b][i]] \notin {"reap", "pass"}
      BY <1>3, <1>4 DEF Waits
    <3> QED  BY <1>2, <1>3, <1>4, <3>1 DEF InTransit, Holding
  <2>2. \A c \in Battles : \A i \in {1, 2} : c = b \/ Children[c][i] = b => InTransit(c, i)'
    BY <2>1, PlayAbove
  <2> QED  BY <1>2, <1>3, <2>2, TransitsElsewhere DEF RulesState, RulesOK
<1>6. ContestsOK'
  BY <1>2, <1>3, ContestsElsewhere DEF Nodes
<1>7. ASSUME NEW i \in {1, 2} PROVE s[i].atk > 0 /\ (s[i].hp <= 0 => Beaten(s[i]))
  <2>1. s[i].atk > 0
    BY <1>1, EntrantsFacts DEF SameFighter, Entrant, RulesState, IInv, TypeOK
  <2>2. ASSUME s[i].hp <= 0 PROVE Beaten(s[i])
    <3>1. s \in Status \X Status /\ s[i].at = b /\ k \in {1, 2} /\ s[i].hp \in Int
      BY <1>1 DEF Played, Fought, Status
    <3>2. s[1].ended /\ i # k
      <4>1. ~(s[i].hp > 0)
        BY <2>2, <3>1
      <4>2. \A x \in {1, 2} : x = 1 \/ x = 2
        OBVIOUS
      <4> QED  BY <1>1, <4>1, <4>2 DEF Played, Fought
    <3>3. i = Other(Result(b).attacker) /\ Like(s[i], Result(b).seats[i])
      BY <1>1, <3>1, <3>2 DEF Other
    <3> QED  BY <3>1, <3>3 DEF Beaten, Like
  <2> QED  BY <2>1, <2>2
<1>8. LosersOK'
  <2>1. ASSUME NEW n \in Nodes, down'[n] # <<>>
        PROVE  \/ down'[n] = down[n]
               \/ Head(down'[n]).atk > 0 /\ (Head(down'[n]).hp <= 0 => Beaten(Head(down'[n])))
    <3>1. CASE \E i \in {1, 2} : n = Children[b][i]
      BY <1>4, <1>7, <3>1 DEF Holding
    <3>2. CASE ~\E i \in {1, 2} : n = Children[b][i]
      BY <1>1, <3>2 DEF Played
    <3> QED  BY <3>1, <3>2
  <2> QED  BY <1>2, <2>1, LosersFrame DEF Battle
<1>9. ChampionOK'
  BY <1>2, ChampionFrame
<1> QED  BY <1>5, <1>6, <1>8, <1>9 DEF RulesOK

\* Waiting for a child changes nobody's status.
LEMMA WaitRules ==
  ASSUME RulesState, [Next]_vars, IInv', NEW b \in Battles, Reap(b) \/ Finish(b)
  PROVE  RulesOK'
<1>1. /\ b \in Nodes /\ UNCHANGED <<table, seat, attacker, self, original, up, down, fifo>>
      /\ \/ pc[b] = "reap" /\ (Goto(b, "last") \/ Goto(b, "pass"))
         \/ pc[b] = "last" /\ Goto(b, "exited")
  BY TreeFacts DEF Reap, Finish
<1>2. /\ \/ pc[b] = "reap" /\ pc'[b] \in {"last", "pass"}
         \/ pc[b] = "last" /\ pc'[b] = "exited"
      /\ \A m \in Nodes \ {b} : pc'[m] = pc[m]
  BY <1>1, Goes DEF RulesState, IInv, Points
<1>3. \A c \in Battles : c \in Nodes /\ Decided(c)' = Decided(c)
  BY <1>2, TreeFacts DEF Decided
<1>4. Decided(b) /\ Decided(b)'
  BY <1>2 DEF Decided
<1>5. MessagesOK'
  <2> SUFFICES ASSUME NEW c \in Battles, NEW k \in {1, 2} PROVE InTransit(c, k)'
    BY DEF MessagesOK
  <2>1. Children[c][k] \in Nodes /\ InTransit(c, k)
    BY TreeFacts DEF RulesState, RulesOK, MessagesOK
  <2>2. pc'[Children[c][k]] \in {"reap", "pass"} => pc[Children[c][k]] \in {"reap", "pass"}
    BY <1>2, <2>1
  <2> QED  BY <1>1, <1>3, <2>1, <2>2, TransitFrame
<1>6. Contest(b)'
  <2>1. Contest(b) /\ \A n \in Kids(b) : Known(n) => Known(n)'
    BY KnownStays, NextForever, TreeFacts DEF RulesState, RulesOK, ContestsOK
  <2>2. Begun(b)' = Begun(b) /\ Rules' = Rules /\ Result(b)' = Result(b)
    BY <1>1, RulesStay DEF Begun
  <2>3. pc'[b] \notin {"first", "second"}
    BY <1>2
  <2> QED  BY <1>1, <1>4, <2>1, <2>2, <2>3 DEF Contest
<1>7. ContestsOK'
  BY <1>1, <1>2, <1>3, <1>6, ContestsElsewhere
<1>8. LosersOK'
  BY <1>1, LosersFrame DEF Battle
<1>9. ChampionOK'
  <2>1. CASE champion' = champion
    BY <1>1, <2>1, ChampionFrame
  <2>2. CASE champion' # champion
    <3>1. b = A /\ champion' = seat[A][attacker[A]].id
      BY <2>2 DEF Reap, Finish
    <3>2. Contest(A) /\ Rules' = Rules
      BY <1>1, <3>1, RulesStay DEF RulesState, RulesOK, ContestsOK
    <3> QED  BY <1>4, <3>1, <3>2 DEF Contest, ChampionOK
  <2> QED  BY <2>1, <2>2
<1> QED  BY <1>5, <1>7, <1>8, <1>9 DEF RulesOK

\* Nothing passes between a battle that is over and the loser's side.
LEMMA LoserGone ==
  ASSUME IInv, NEW b \in Battles, pc[b] \in {"pass", "back"}
  PROVE  /\ Loser(b) \in Kids(b) /\ Loser(b) \in Nodes /\ Loser(b) # b /\ Loser(b) # Winner(b)
         /\ pc[Loser(b)] = "exited" /\ up[Loser(b)] = <<>> /\ down[Loser(b)] = <<>>
<1>1. Loser(b) \in Kids(b) /\ Loser(b) # Winner(b) /\ pc[Loser(b)] = "exited"
  BY SeatFacts DEF IInv, ReapedOK, Buried
<1>2. Loser(b) \in Nodes /\ Loser(b) # b /\ Edge(b, Loser(b))
  BY <1>1, Around
<1> QED  BY <1>1, <1>2 DEF Edge, Waits

\* Passing changes neither the winner nor who is settled.
LEMMA PassContest ==
  ASSUME RulesState, [Next]_vars, NEW b \in Battles, Decided(b), pc'[b] \in {"pass", "back", "last"},
         table' = table, Begun(b)'
  PROVE  Contest(b)'
<1>1. Contest(b) /\ (\A n \in Kids(b) : Known(n) => Known(n)') /\ attacker'[b] = attacker[b]
  BY KnownStays, NextForever, TreeFacts DEF RulesState, RulesOK, ContestsOK, Forever, Settled
<1>2. Rules' = Rules /\ Result(b)' = Result(b)
  BY RulesStay
<1>3. seat'[b][attacker'[b]].id = seat[b][attacker[b]].id
  BY WinnerStays, NextForever DEF RulesState
<1> QED  BY <1>1, <1>2, <1>3 DEF Contest

LEMMA PassUpRules ==
  ASSUME RulesState, [Next]_vars, IInv', NEW b \in Battles, PassUp(b)
  PROVE  RulesOK'
<1> DEFINE a == attacker[b]
           w == Winner(b)
           x == Head(up[w])
<1>1. /\ w \in Kids(b) /\ w \in Nodes /\ b \in Nodes /\ w # b
      /\ pc[b] = "pass" /\ pc'[b] = "back" /\ \A m \in Nodes \ {b} : pc'[m] = pc[m]
      /\ up[w] # <<>> /\ up'[w] = <<>> /\ Holding(up'[b], x)
      /\ \A m \in Nodes \ {b, w} : up'[m] = up[m]
      /\ seat'[b][a] = x /\ seat'[b][Other(a)] = seat[b][Other(a)]
      /\ \A c \in Battles \ {b} : seat'[c] = seat[c]
      /\ UNCHANGED <<attacker, down>>
  BY PassUpEffect DEF RulesState
<1>2. /\ table' = table /\ champion' = champion /\ TypeOK /\ a \in {1, 2} /\ Other(a) \in {1, 2}
      /\ Decided(b) /\ \A k \in {1, 2} : k = a \/ k = Other(a)
  BY <1>1, SeatFacts DEF PassUp, RulesState, IInv, Decided, Other
<1>3. InTransit(b, a) /\ Contest(b) /\ Children[b][a] = w /\ Edge(b, w)
  BY <1>1, <1>2, Around DEF RulesState, RulesOK, MessagesOK, ContestsOK, Winner
<1>4. Like(x, Due(b, a)) /\ down[w] = <<>> /\ Waits(w)
  BY <1>1, <1>3 DEF InTransit, Edge
<1>5. SameFighter(x, seat[b][a])
  <2>1. seat[b][a] \in Status /\ seat[b][a].id \in Real
    BY <1>1, <1>2 DEF RulesState, IInv, StatusOK, TypeOK
  <2>2. Due(b, a) = Reply(seat[b][a])
    BY <1>2 DEF Due
  <2> QED  BY <1>2, <1>4, <2>1, <2>2, ReplySame DEF Like, SameFighter
<1>6. Begun(b)'
  <2>1. Begun(b)
    BY <1>2, <1>3 DEF Contest
  <2>2. seat'[b][2].atk = seat[b][2].atk
    BY <1>1, <1>2, <1>5 DEF SameFighter
  <2> QED  BY <2>1, <2>2 DEF Begun
<1>7. ASSUME NEW k \in {1, 2} PROVE InTransit(b, k)'
  <2>1. CASE k = a
    BY <1>1, <1>3, <1>4, <2>1 DEF InTransit, Waits
  <2>2. CASE k = Other(a)
    <3>1. /\ Children[b][k] \in Nodes \ {b, w} /\ pc[Children[b][k]] = "exited"
          /\ up[Children[b][k]] = <<>> /\ down[Children[b][k]] = <<>>
      BY <1>1, <2>2, LoserGone DEF Loser, RulesState
    <3> QED  BY <1>1, <3>1 DEF InTransit
  <2> QED  BY <1>2, <2>1, <2>2
<1>8. ASSUME NEW c \in Battles, NEW k \in {1, 2}, Children[c][k] = b PROVE InTransit(c, k)'
  <2>1. c # b /\ b \in Kids(c) /\ c \in Nodes /\ InTransit(c, k)
    BY <1>8, TreeFacts DEF RulesState, RulesOK, MessagesOK
  <2>2. Edge(c, b)
    BY <2>1, Around DEF RulesState
  <2>3. Due(c, k)' = Due(c, k)
    BY <1>1, <1>2, <2>1, DueFrame DEF Decided
  <2>4. Like(x, Due(c, k))
    <3>1. Like(Due(b, a), Due(c, k))
      BY <1>1, <1>8, <2>1 DEF InTransit
    <3> QED  BY <1>4, <3>1 DEF Like, SameFighter
  <2>5. down'[b] = <<>>
    BY <1>1, <2>2 DEF Edge, Waits
  <2> QED  BY <1>1, <1>8, <2>3, <2>4, <2>5 DEF InTransit, Holding
<1>9. MessagesOK'
  BY <1>1, <1>2, <1>7, <1>8, TransitsElsewhere DEF RulesState, RulesOK
<1>10. Contest(b)'
  BY <1>1, <1>2, <1>6, PassContest
<1>11. ContestsOK'
  BY <1>1, <1>2, <1>10, ContestsElsewhere DEF Nodes
<1>12. LosersOK' /\ ChampionOK'
  BY <1>1, <1>2, LosersFrame, ChampionFrame DEF Battle
<1> QED  BY <1>9, <1>11, <1>12 DEF RulesOK

LEMMA PassDownRules ==
  ASSUME RulesState, [Next]_vars, IInv', NEW b \in Battles, PassDown(b)
  PROVE  RulesOK'
<1> DEFINE a == attacker[b]
           w == Winner(b)
           s == Head(down[b])
<1>1. /\ w \in Kids(b) /\ w \in Nodes /\ b \in Nodes /\ w # b /\ b # A
      /\ pc[b] = "back" /\ pc'[b] \in {"pass", "last"} /\ \A m \in Nodes \ {b} : pc'[m] = pc[m]
      /\ down[b] # <<>> /\ down'[b] = <<>> /\ Holding(down'[w], s)
      /\ \A m \in Nodes \ {b, w} : down'[m] = down[m]
      /\ seat'[b][a] = s /\ seat'[b][Other(a)] = seat[b][Other(a)]
      /\ \A c \in Battles \ {b} : seat'[c] = seat[c]
      /\ UNCHANGED <<attacker, up>>
  BY PassDownEffect DEF RulesState
<1>2. /\ table' = table /\ champion' = champion /\ TypeOK /\ a \in {1, 2} /\ Other(a) \in {1, 2}
      /\ Decided(b) /\ Decided(b)' /\ \A k \in {1, 2} : k = a \/ k = Other(a)
  BY <1>1, SeatFacts DEF PassDown, RulesState, IInv, Decided, Other
<1>3. Contest(b) /\ Children[b][a] = w /\ Edge(b, w) /\ Holds(b, w)
  BY <1>1, <1>2, Around DEF RulesState, RulesOK, ContestsOK, Winner, Holds
<1>4. up[w] = <<>> /\ Waits(w)
  BY <1>3 DEF Edge
<1>5. s.atk > 0 /\ (s.hp <= 0 => Beaten(s))
  BY <1>1 DEF RulesState, RulesOK, LosersOK
<1>6. Begun(b)'
  <2>1. Begun(b)
    BY <1>2, <1>3 DEF Contest
  <2>2. seat'[b][2].atk > 0
    <3>1. CASE a = 2
      BY <1>1, <1>5, <3>1
    <3>2. CASE Other(a) = 2
      BY <1>1, <2>1, <3>2 DEF Begun
    <3> QED  BY <1>2, <3>1, <3>2
  <2> QED  BY <2>2 DEF Begun
<1>7. Due(b, a)' = Reply(s)
  BY <1>1, <1>2 DEF Due, Reply
<1>8. ASSUME NEW k \in {1, 2} PROVE InTransit(b, k)'
  <2>1. CASE k = a
    BY <1>1, <1>3, <1>4, <1>6, <2>1 DEF InTransit, Waits, Holding
  <2>2. CASE k = Other(a)
    <3>1. /\ Children[b][k] \in Nodes \ {b, w} /\ pc[Children[b][k]] = "exited"
          /\ up[Children[b][k]] = <<>> /\ down[Children[b][k]] = <<>>
      BY <1>1, <2>2, LoserGone DEF Loser, RulesState
    <3> QED  BY <1>1, <3>1 DEF InTransit
  <2> QED  BY <1>2, <2>1, <2>2
<1>9. ASSUME NEW c \in Battles, NEW k \in {1, 2}, Children[c][k] = b PROVE InTransit(c, k)'
  <2>1. c # b /\ b \in Kids(c) /\ c \in Nodes
    BY <1>9, TreeFacts
  <2>2. Edge(c, b)
    BY <2>1, Around DEF RulesState
  <2>3. Due(c, k)' = Due(c, k)
    BY <1>1, <1>2, <2>1, DueFrame DEF Decided
  <2>4. Due(c, k) = Reply(s)
    BY <1>1, <1>9, AnswerDue
  <2>5. Like(Due(b, attacker[b]), Due(c, k))'
    BY <1>1, <1>7, <2>3, <2>4, LikeFacts
  <2>6. up'[b] = <<>>
    BY <1>1, <2>2 DEF Edge
  <2> QED  BY <1>1, <1>9, <2>5, <2>6 DEF InTransit
<1>10. MessagesOK'
  BY <1>1, <1>2, <1>8, <1>9, TransitsElsewhere DEF RulesState, RulesOK
<1>11. Contest(b)'
  BY <1>1, <1>2, <1>6, PassContest
<1>12. ContestsOK'
  BY <1>1, <1>2, <1>11, ContestsElsewhere DEF Nodes
<1>13. LosersOK'
  <2>1. ASSUME NEW n \in Nodes, down'[n] # <<>>
        PROVE  \/ down'[n] = down[n]
               \/ Head(down'[n]).atk > 0 /\ (Head(down'[n]).hp <= 0 => Beaten(Head(down'[n])))
    BY <1>1, <1>5, <2>1 DEF Holding
  <2> QED  BY <1>2, <2>1, LosersFrame DEF Battle
<1>14. ChampionOK'
  BY <1>2, ChampionFrame
<1> QED  BY <1>10, <1>12, <1>13, <1>14 DEF RulesOK

-----------------------------------------------------------------------------
(* The steps of a player.                                                  *)

\* What the battle above p waits for.
Awaited(p, s) == \A c \in Battles : \A k \in {1, 2} : Children[c][k] = p => Like(s, Due(c, k))

LEMMA PlayerFrame ==
  ASSUME RulesState, [Next]_vars, NEW p \in Players, Apart(p), table' = table, champion' = champion,
         \A n \in Nodes \ {p} : up'[n] = up[n] /\ down'[n] = down[n],
         down'[p] # <<>> => down'[p] = down[p],
         up'[p] # <<>> => up'[p] = up[p] \/ Awaited(p, Head(up'[p])),
         LosersOK'
  PROVE  RulesOK'
<1>1. /\ p \in Nodes /\ p \notin Battles /\ \A c \in Battles : pc'[c] = pc[c]
      /\ UNCHANGED <<seat, attacker>> /\ \A m \in Nodes \ {p} : pc'[m] = pc[m]
  BY OthersApart DEF Apart, RulesState
<1>2. ASSUME NEW c \in Battles, NEW k \in {1, 2}, Children[c][k] = p PROVE InTransit(c, k)'
  <2>1. InTransit(c, k) /\ c # p
    BY <1>1 DEF RulesState, RulesOK, MessagesOK
  <2>2. Due(c, k)' = Due(c, k) /\ Begun(c)' = Begun(c)
    BY <1>1, DueFrame DEF Decided
  <2>3. up'[p] # <<>> => Like(Head(up'[p]), Due(c, k))
    BY <1>2, <2>1 DEF InTransit, Awaited
  <2>4. down'[p] # <<>> => Begun(c) /\ Head(down'[p]) = seat[c][k]
    BY <1>2, <2>1 DEF InTransit
  <2> QED  BY <1>1, <1>2, <2>2, <2>3, <2>4 DEF InTransit
<1>3. MessagesOK'
  BY <1>1, <1>2, TransitsElsewhere DEF RulesState, RulesOK
<1>4. ContestsOK'
  BY <1>1, ContestsElsewhere
<1> QED  BY <1>3, <1>4, ChampionFrame DEF RulesOK

LEMMA PlayerLosers ==
  ASSUME RulesState, IInv', table' = table, NEW p \in Players, Apart(p),
         \A n \in Nodes : down'[n] # <<>> => down'[n] = down[n],
         \A q \in Players \ {p} : original'[q] = original[q],
         pc'[p] = "read" => original'[p] = table[self'[p].id].hp,
         p \in Real /\ pc'[p] = "open" => Like(self'[p], Rules[AgentFor(self'[p].at)]),
         \A a \in Agents : fifo'[a] # <<>> => fifo'[a] = fifo[a] \/ Like(Head(fifo'[a]), Rules[a])
  PROVE  LosersOK'
<1>1. Rules' = Rules /\ \A c \in Battles : Result(c)' = Result(c)
  BY RulesStay
<1>2. LosersOK /\ \A q \in Players \ {p} : pc'[q] = pc[q] /\ self'[q] = self[q]
  BY DEF Apart, RulesState, RulesOK, Nodes
<1>3. ASSUME NEW q \in Players, pc'[q] = "read" PROVE original'[q] = table'[self'[q].id].hp
  BY <1>2, <1>3 DEF LosersOK
<1>4. ASSUME NEW q \in Real, pc'[q] = "open" PROVE Like(self'[q], Rules'[AgentFor(self'[q].at)])
  <2>1. CASE q = p
    BY <1>1, <1>4, <2>1
  <2>2. CASE q # p
    <3>1. pc[q] = "open" /\ self'[q] = self[q]
      BY <1>2, <1>4, <2>2 DEF Players
    <3> QED  BY <1>1, <1>2, <3>1 DEF LosersOK
  <2> QED  BY <2>1, <2>2
<1>5. ASSUME NEW a \in Agents, fifo'[a] # <<>> PROVE Like(Head(fifo'[a]), Rules'[a])
  BY <1>1, <1>2, <1>5 DEF LosersOK
<1>6. ASSUME NEW n \in Nodes, down'[n] # <<>>
      PROVE  Head(down'[n]).atk > 0 /\ (Head(down'[n]).hp <= 0 => Beaten(Head(down[n]))')
  <2>1. Head(down'[n]) \in Status
    BY <1>6 DEF IInv, TypeOK
  <2>2. Head(down'[n]).at \in Battles
    BY <2>1 DEF Status
  <2>3. Result(Head(down[n]).at)' = Result(Head(down'[n]).at)
    BY <1>1, <2>2
  <2>4. Beaten(Head(down[n]))' <=> Beaten(Head(down'[n]))
    BY <2>3 DEF Beaten
  <2>5. down'[n] = down[n]
    BY <1>6
  <2> QED  BY <1>2, <1>6, <2>4, <2>5 DEF LosersOK
<1> QED  BY <1>3, <1>4, <1>5, <1>6 DEF LosersOK

\* A battle is not under way before it is settled who fights in it.
LEMMA NotBegun ==
  ASSUME RulesState, NEW p \in Players, ~Known(p)
  PROVE  \A c \in Battles : \A k \in {1, 2} : Children[c][k] = p => Due(c, k) = Rules[p]
<1> SUFFICES ASSUME NEW c \in Battles, NEW k \in {1, 2}, Children[c][k] = p
             PROVE  Due(c, k) = Rules[p]
  OBVIOUS
<1>1. Contest(c) /\ p \in Kids(c)
  BY TreeFacts DEF RulesState, RulesOK, ContestsOK
<1>2. ~Begun(c) /\ ~Decided(c)
  BY <1>1 DEF Contest
<1>3. Entrants(c)[k] = Rules[p]
  BY EntrantsFacts DEF RulesState, IInv, TypeOK
<1> QED  BY <1>2, <1>3 DEF Due

\* Player p enters with what the rules say.
LEMMA EnterRules ==
  ASSUME RulesState, [Next]_vars, IInv', NEW p \in Players, NEW s \in Status, Entered(p, s),
         ~Known(p), Like(s, Rules[p]), table' = table, champion' = champion,
         original' = [original EXCEPT ![p] = s.hp], s.hp = table[s.id].hp,
         \A a \in Agents : fifo'[a] # <<>> => fifo'[a] = fifo[a]
  PROVE  RulesOK'
<1>1. /\ Apart(p) /\ pc'[p] = "read" /\ self'[p] = s /\ down' = down
      /\ \A n \in Nodes \ {p} : up'[n] = up[n]
      /\ Head(up'[p]) = s
  BY DEF Entered, Apart, Holding
<1>2. Awaited(p, s)
  BY NotBegun DEF Awaited
<1>3. /\ original'[p] = s.hp /\ \A q \in Players \ {p} : original'[q] = original[q]
  BY DEF RulesState, IInv, TypeOK
<1>4. LosersOK'
  BY <1>1, <1>3, PlayerLosers
<1> QED  BY <1>1, <1>2, <1>4, PlayerFrame

LEMMA ReadFileRules ==
  ASSUME RulesState, [Next]_vars, IInv', NEW p \in Players, ReadFile(p)
  PROVE  RulesOK'
<1> DEFINE s == [id |-> p, hp |-> table[p].hp, atk |-> table[p].atk, attr |-> table[p].attr,
                 at |-> Above(p), ended |-> FALSE]
<1>1. /\ p \in Real /\ pc[p] = "start" /\ Enter(p, s)
      /\ UNCHANGED <<table, seat, attacker, down, fifo, champion>>
  BY DEF ReadFile
<1>2. Like(s, Rules[p]) /\ s.id = p /\ s.hp = table[p].hp
  <2>1. Rules[p] = FromFile(p)
    BY <1>1, RulesDefined DEF RulesState, IInv, TypeOK
  <2> QED  BY <2>1 DEF FromFile, Like, SameFighter
<1> HIDE DEF s
<1>3. self' = [self EXCEPT ![p] = s] /\ original' = [original EXCEPT ![p] = s.hp]
  BY <1>1 DEF Enter
<1>4. s \in Status
  BY <1>3 DEF RulesState, IInv, TypeOK
<1>5. Entered(p, s)
  BY <1>1, <1>4, EnterEffect DEF RulesState
<1>6. ~Known(p)
  BY <1>1, NodesAssumption DEF Known
<1> QED  BY <1>1, <1>2, <1>3, <1>4, <1>5, <1>6, EnterRules

LEMMA ReadFifoRules ==
  ASSUME RulesState, [Next]_vars, IInv', NEW p \in Players, ReadFifo(p)
  PROVE  RulesOK'
<1> DEFINE s == Head(fifo[p])
<1>1. s \in Status /\ Enter(p, s)
  BY ReadFifoFacts DEF RulesState
<1>2. /\ p \in Agents /\ p \notin Real /\ pc[p] = "open" /\ fifo[p] # <<>>
      /\ UNCHANGED <<table, seat, attacker, down, champion>>
  BY NodesAssumption DEF ReadFifo
<1>3. Like(s, Rules[p])
  BY <1>2 DEF RulesState, RulesOK, LosersOK
<1>4. s.hp = table[s.id].hp
  <2>1. PICK c \in DOMAIN Agent : Agent[c] = p
    BY <1>2, OrderAssumption
  <2>2. Rules[p].hp = table[Rules[p].id].hp
    BY <2>1, LoserRule DEF RulesState, IInv, TypeOK, SameFighter
  <2> QED  BY <1>3, <2>2 DEF Like, SameFighter
<1>5. \A a \in Agents : fifo'[a] # <<>> => fifo'[a] = fifo[a]
  <2>1. \A a \in Agents : fifo'[a] = IF a = p THEN Tail(fifo[a]) ELSE fifo[a]
    BY ReadFifoFacts DEF RulesState
  <2>2. Len(fifo[p]) <= 1 /\ fifo[p] \in Seq(Status)
    BY <1>2 DEF RulesState, PlacesOK, AgentsOK, AgentOK, IInv, TypeOK
  <2>3. Tail(fifo[p]) = <<>>
    BY <1>2, <2>2
  <2> QED  BY <2>1, <2>3
<1>6. Entered(p, s) /\ original' = [original EXCEPT ![p] = s.hp]
  BY <1>1, <1>2, EnterEffect DEF RulesState, Enter
<1>7. ~Known(p)
  BY <1>2, NodesAssumption DEF Known
<1> HIDE DEF s
<1> QED  BY <1>1, <1>2, <1>3, <1>4, <1>5, <1>6, <1>7, EnterRules

\* What p reads is about itself, and what it knows of its HP is what the file says.
LEMMA AnswerFacts ==
  ASSUME RulesState, NEW p \in Players, pc[p] = "read", down[p] # <<>>
  PROVE  LET s == Head(down[p]) IN
         /\ s \in Status /\ s.id = self[p].id /\ s.id \in Real /\ original[p] = table[s.id].hp
         /\ original[p] \in Nat
         /\ Awaited(p, Reply(s))
         /\ s.hp <= 0 => Beaten(s)
         /\ p \in Real => s.at \in DOMAIN Agent \cup {A}
<1> DEFINE s == Head(down[p])
<1>1. PICK b \in Battles : p \in Kids(b)
  BY NodesAssumption DEF Nodes, RulesState, IInv, BornOK
<1>2. p \in Nodes /\ s \in Status /\ s.id \in Real /\ original[p] \in Nat
  BY ReadFacts DEF RulesState, Told
<1>3. s.id = self[p].id
  <2>1. Named(b, p)
    BY <1>1 DEF RulesState, PlacesOK, NamesOK
  <2> QED  BY <1>2, <2>1, Carries DEF Named
<1>4. original[p] = table[s.id].hp
  BY <1>3 DEF RulesState, RulesOK, LosersOK
<1>5. Awaited(p, Reply(s))
  <2> SUFFICES ASSUME NEW c \in Battles, NEW k \in {1, 2}, Children[c][k] = p
               PROVE  Like(Reply(s), Due(c, k))
    BY DEF Awaited
  <2>1. Due(c, k) = Reply(s)
    BY AnswerDue
  <2> QED  BY <2>1, LikeFacts
<1>6. s.hp <= 0 => Beaten(s)
  BY <1>2 DEF RulesState, RulesOK, LosersOK
<1>7. p \in Real => s.at \in DOMAIN Agent \cup {A}
  BY <1>1 DEF RulesState, PlacesOK, FallenOK, InZone
<1> QED  BY <1>2, <1>3, <1>4, <1>5, <1>6, <1>7

LEMMA ContinueRules ==
  ASSUME RulesState, [Next]_vars, IInv', NEW p \in Players, Continue(p)
  PROVE  RulesOK'
<1> DEFINE s == Head(down[p])
           t == IF s.ended THEN Recovered(s, original[p]) ELSE s
<1>1. /\ p \in Nodes /\ pc[p] = "read" /\ pc' = pc
      /\ down[p] # <<>> /\ down'[p] = <<>> /\ \A m \in Nodes \ {p} : down'[m] = down[m]
      /\ self'[p].id = s.id /\ \A q \in Players \ {p} : self'[q] = self[q]
      /\ Holding(up'[p], self'[p]) /\ \A m \in Nodes \ {p} : up'[m] = up[m]
      /\ UNCHANGED <<attacker, seat, fifo>>
  BY ContinueEffect DEF RulesState
<1>2. /\ self' = [self EXCEPT ![p] = t]
      /\ table' = table /\ original' = original /\ champion' = champion
  BY DEF Continue
<1>3. /\ s \in Status /\ original[p] = table[s.id].hp /\ Awaited(p, Reply(s))
  BY <1>1, AnswerFacts
<1>4. t = Reply(s)
  BY <1>3 DEF Reply
<1> HIDE DEF t
<1>5. self'[p] = t
  BY <1>2 DEF RulesState, IInv, TypeOK
<1> HIDE DEF s
<1>6. Apart(p)
  BY <1>1 DEF Apart
<1>7. LosersOK'
  <2>1. pc'[p] = "read" /\ original'[p] = table[self'[p].id].hp
    BY <1>1, <1>2, <1>3
  <2>2. \A n \in Nodes : down'[n] # <<>> => down'[n] = down[n]
    BY <1>1
  <2> QED  BY <1>1, <1>2, <1>6, <2>1, <2>2, PlayerLosers
<1>8. Awaited(p, Head(up'[p]))
  BY <1>1, <1>3, <1>4, <1>5 DEF Holding
<1> QED  BY <1>1, <1>2, <1>6, <1>7, <1>8, PlayerFrame

\* Who loses in Zone A goes to the FIFO as the rules let its agent enter.
LEMMA RevivedRules ==
  ASSUME RulesState, NEW p \in Players, Lose(p)
  PROVE  LET t == Revived(Head(down[p]), original[p]) IN Like(t, Rules[AgentFor(t.at)])
<1> DEFINE s == Head(down[p])
           t == Revived(s, original[p])
           c == s.at
           u == Result(c).seats[Other(Result(c).attacker)]
<1>1. pc[p] = "read" /\ down[p] # <<>> /\ s.hp <= 0 /\ s.at # A /\ p \in Real
  BY DEF Lose
<1>2. /\ s \in Status /\ original[p] = table[s.id].hp /\ original[p] \in Nat
      /\ Beaten(s) /\ c \in DOMAIN Agent
  BY <1>1, AnswerFacts
<1>3. SameFighter(s, u)
  BY <1>2 DEF Beaten
<1>4. table \in Tables
  BY DEF RulesState, IInv, TypeOK
<1>5. /\ SameFighter(Rules[Agent[c]], u) /\ Rules[Agent[c]].hp = table[u.id].hp
      /\ ~Rules[Agent[c]].ended
  BY <1>2, <1>4, LoserRule
<1>6. Rules[Agent[c]].ended \in BOOLEAN
  <2>1. Agent[c] \in Nodes
    BY <1>2, AgentSource
  <2>2. Rules[Agent[c]] \in Entrant
    BY <1>4, <2>1, RulesDefined
  <2> QED  BY <2>2 DEF Entrant, Status
<1> HIDE DEF u
<1>7. /\ SameFighter(t, s) /\ t.hp = original[p] /\ t.ended = FALSE /\ t.at = c
  BY <1>2 DEF Revived, Status, SameFighter
<1> HIDE DEF t, c
<1>8. Like(t, Rules[Agent[c]])
  BY <1>2, <1>3, <1>5, <1>6, <1>7 DEF Like, SameFighter
<1> QED  BY <1>7, <1>8 DEF AgentFor, t

LEMMA LeaveRules ==
  ASSUME RulesState, [Next]_vars, IInv', NEW p \in Players, Retire(p) \/ Lose(p)
  PROVE  RulesOK'
<1>1. /\ p \in Nodes /\ pc'[p] \in {"open", "exited"}
      /\ \A m \in Nodes \ {p} : pc'[m] = pc[m]
      /\ down'[p] = <<>> /\ \A m \in Nodes \ {p} : down'[m] = down[m]
      /\ \A q \in Players \ {p} : self'[q] = self[q]
      /\ UNCHANGED <<attacker, seat, up, fifo>>
  BY LeaveEffect DEF RulesState, Left
<1>2. table' = table /\ original' = original /\ champion' = champion
  BY DEF Retire, Lose
<1>3. Apart(p)
  BY <1>1 DEF Apart
<1>4. ASSUME pc'[p] = "open" PROVE Like(self'[p], Rules[AgentFor(self'[p].at)])
  <2>1. Lose(p)
    <3>1. ASSUME Retire(p) PROVE FALSE
      <4>1. Goto(p, "exited")
        BY <3>1 DEF Retire
      <4>2. pc'[p] = "exited"
        BY <1>1, <4>1, Goes DEF RulesState, IInv, Points
      <4> QED  BY <1>4, <4>2
    <3> QED  BY <3>1
  <2>2. self'[p] = Revived(Head(down[p]), original[p])
    BY <2>1 DEF Lose, RulesState, IInv, TypeOK
  <2> QED  BY <2>1, <2>2, RevivedRules
<1>5. \A n \in Nodes : down'[n] # <<>> => down'[n] = down[n]
  BY <1>1
<1>6. LosersOK'
  BY <1>1, <1>2, <1>3, <1>4, <1>5, PlayerLosers
<1> QED  BY <1>1, <1>2, <1>3, <1>6, PlayerFrame

LEMMA OpenToReadRules ==
  ASSUME RulesState, [Next]_vars, IInv', NEW p \in Players, OpenToRead(p)
  PROVE  RulesOK'
<1>1. /\ p \in Agents /\ p \notin Real /\ p \in Nodes /\ Goto(p, "open")
      /\ UNCHANGED <<table, seat, attacker, self, original, up, down, fifo, champion>>
  BY NodesAssumption DEF OpenToRead, Nodes
<1>2. pc'[p] = "open" /\ \A m \in Nodes \ {p} : pc'[m] = pc[m]
  BY <1>1, Goes DEF RulesState, IInv, Points
<1>3. Apart(p)
  BY <1>1, <1>2 DEF Apart
<1>4. LosersOK'
  BY <1>1, <1>2, <1>3, PlayerLosers
<1> QED  BY <1>1, <1>3, <1>4, PlayerFrame

LEMMA WriteFifoRules ==
  ASSUME RulesState, [Next]_vars, IInv', NEW p \in Players, WriteFifo(p)
  PROVE  RulesOK'
<1>0. PICK a : a = Agent[self[p].at]
  OBVIOUS
<1>1. /\ p \in Real /\ p \in Nodes /\ pc[p] = "open" /\ pc'[p] = "exited"
      /\ \A m \in Nodes \ {p} : pc'[m] = pc[m]
      /\ a \in Agents => fifo'[a] = Append(fifo[a], self[p])
      /\ \A c \in Agents \ {a} : fifo'[c] = fifo[c]
      /\ UNCHANGED <<attacker, seat, self, up, down>>
  BY <1>0, WriteFifoEffect DEF RulesState
<1>2. table' = table /\ original' = original /\ champion' = champion
  BY DEF WriteFifo
<1>3. Apart(p)
  BY <1>1 DEF Apart
<1>4. Like(self[p], Rules[a])
  BY <1>0, <1>1 DEF RulesState, RulesOK, LosersOK, AgentFor
<1>5. ASSUME NEW c \in Agents, fifo'[c] # <<>> PROVE fifo'[c] = fifo[c] \/ Like(Head(fifo'[c]), Rules[c])
  <2>1. CASE c # a
    BY <1>1, <2>1
  <2>2. CASE c = a
    <3>1. fifo'[c] = Append(fifo[c], self[p]) /\ fifo[c] \in Seq(Status)
      BY <1>1, <2>2 DEF RulesState, IInv, TypeOK
    <3>2. CASE fifo[c] = <<>>
      BY <1>4, <2>2, <3>1, <3>2
    <3>3. CASE fifo[c] # <<>>
      <4>1. Head(fifo'[c]) = Head(fifo[c])
        BY <3>1, <3>3
      <4> QED  BY <3>3, <4>1 DEF RulesState, RulesOK, LosersOK
    <3> QED  BY <3>2, <3>3
  <2> QED  BY <2>1, <2>2
<1>6. LosersOK'
  BY <1>1, <1>2, <1>3, <1>5, PlayerLosers
<1> QED  BY <1>1, <1>2, <1>3, <1>6, PlayerFrame

-----------------------------------------------------------------------------
(* The inductive invariant.                                                *)

LEMMA InitRules == Init => RulesOK
<1> SUFFICES ASSUME Init PROVE RulesOK
  OBVIOUS
<1>1. /\ \A n \in Nodes : pc[n] \in {"start", "unborn"} /\ up[n] = <<>> /\ down[n] = <<>>
      /\ \A a \in Agents : fifo[a] = <<>>
      /\ champion = Nobody
  BY DEF Init
<1>2. Battles \subseteq Nodes /\ Players \subseteq Nodes /\ Real \subseteq Nodes
  BY DEF Nodes, Players
<1>3. \A b \in Battles : ~Begun(b) /\ ~Decided(b)
  BY <1>1, <1>2 DEF Init, Begun, NoStatus, Decided
<1>4. MessagesOK
  BY <1>1, <1>2, TreeFacts DEF MessagesOK, InTransit
<1>5. ContestsOK
  BY <1>1, <1>2, <1>3 DEF ContestsOK, Contest
<1>6. LosersOK /\ ChampionOK
  BY <1>1, <1>2 DEF LosersOK, ChampionOK
<1> QED  BY <1>4, <1>5, <1>6 DEF RulesOK

LEMMA NextRules ==
  ASSUME RulesState, [Next]_vars
  PROVE  RulesOK'
<1>1. IInv'
  BY NextInv DEF RulesState
<1>2. ASSUME NEW b \in Battles, Battle(b) PROVE RulesOK'
  BY <1>1, <1>2, ForkRules, ReadFirstRules, PlayRules, WaitRules, PassUpRules, PassDownRules DEF Battle
<1>3. ASSUME NEW p \in Players, Player(p) PROVE RulesOK'
  BY <1>1, <1>3, ReadFileRules, OpenToReadRules, ReadFifoRules, ContinueRules, LeaveRules,
     WriteFifoRules DEF Player
<1>4. CASE UNCHANGED vars
  <2>1. /\ RulesOK
        /\ UNCHANGED <<table, pc, seat, attacker, self, original, up, down, fifo, champion>>
    BY <1>4 DEF vars, RulesState
  <2>2. Rules' = Rules /\ \A b \in Battles : Entrants(b)' = Entrants(b) /\ Result(b)' = Result(b)
    BY <2>1, RulesStay
  <2>3. MessagesOK'
    <3> SUFFICES ASSUME NEW c \in Battles, NEW k \in {1, 2} PROVE InTransit(c, k)'
      BY DEF MessagesOK
    <3>1. InTransit(c, k)
      BY <2>1 DEF RulesOK, MessagesOK
    <3> QED  BY <2>1, <3>1, TransitFrame DEF Decided
  <2>4. ContestsOK'
    <3> SUFFICES ASSUME NEW b \in Battles PROVE Contest(b)'
      BY DEF ContestsOK
    <3>1. Contest(b) /\ \A n \in Kids(b) : Known(n) => Known(n)'
      BY <2>1 DEF RulesOK, ContestsOK, Known, Decided
    <3> QED  BY <2>1, <3>1, ContestFrame
  <2>5. LosersOK'
    <3>1. ASSUME NEW n \in Nodes, down[n] # <<>>
          PROVE  Head(down[n]).atk > 0 /\ (Head(down[n]).hp <= 0 => Beaten(Head(down[n]))')
      <4>1. Head(down[n]).at \in Battles
        <5>1. Head(down[n]) \in Status
          BY <3>1 DEF RulesState, IInv, TypeOK
        <5> QED  BY <5>1 DEF Status
      <4>2. Beaten(Head(down[n]))' <=> Beaten(Head(down[n]))
        BY <2>1, <2>2, <4>1 DEF Beaten
      <4> QED  BY <2>1, <3>1, <4>2 DEF RulesOK, LosersOK
    <3> QED  BY <2>1, <2>2, <3>1 DEF RulesOK, LosersOK
  <2>6. ChampionOK'
    BY <2>1, <2>2, ChampionFrame
  <2> QED  BY <2>3, <2>4, <2>5, <2>6 DEF RulesOK
<1>5. \/ \E b \in Battles : Battle(b)
      \/ \E p \in Players : Player(p)
      \/ UNCHANGED vars
  BY DEF Next, Terminating
<1> QED  BY <1>2, <1>3, <1>4, <1>5

(* However the processes are scheduled, every battle has the winner that   *)
(* the numbers in the file determine: both halves of a battle see each     *)
(* player with the HP it recovered (player.c 155-158), and an agent enters *)
(* with the HP, attack and attribute of whom it stands in for (player.c    *)
(* 165-177, 105-110).                                                      *)
THEOREM Rulebook == Spec => []ByTheRules
<1>1. RulesOK => ByTheRules
  BY DEF RulesOK, ContestsOK, Contest, ChampionOK, ByTheRules
<1>2. IInv /\ PlacesOK /\ WinnersOK /\ RulesOK /\ [Next]_vars => RulesOK'
  BY NextRules DEF RulesState
<1> QED
  BY <1>1, <1>2, InitRules, Invariance, PlacesInvariance, WinnersInvariance, PTL DEF Spec
=============================================================================
