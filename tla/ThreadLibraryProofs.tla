------------------------- MODULE ThreadLibraryProofs -------------------------
(* With at most one reader, as main creates, and any number of other       *)
(* threads: no thread is lost, doubled or resumed at the wrong place,      *)
(* whenever signals and input arrive, and what the threads compute is      *)
(* right.  With two readers the first of this is false: Asleep.            *)
EXTENDS ThreadLibraryProperties, RecursionProofs, FiniteSetTheorems, FunctionTheorems, TLAPS

\* main.c 53-61: init_threads creates at most one thread of each kind.
OneReader == \A t, u \in Subs \cap Created : t = u

-----------------------------------------------------------------------------
(* Queues.                                                                 *)

\* No thread is in two entries of q.
Distinct(q) == \A m, n \in 1..Len(q) : q[m] = q[n] => m = n

LEMMA Positions ==
  ASSUME NEW at, IsFiniteSet(at), at \subseteq Nat
  PROVE  LET rank(m) == Cardinality({k \in at : k <= m})
         IN  /\ Cardinality(at) \in Nat
             /\ \A m \in at : rank(m) \in 1..Cardinality(at)
             /\ \A l, m \in at : rank(l) = rank(m) => l = m
             /\ \A n \in 1..Cardinality(at) : \E m \in at : rank(m) = n
<1> DEFINE upto(m) == {k \in at : k <= m}
           rank(m) == Cardinality(upto(m))
           N == Cardinality(at)
<1>1. N \in Nat
  BY FS_CardinalityType
<1>2. \A m \in at : IsFiniteSet(upto(m)) /\ rank(m) \in Nat /\ rank(m) <= N
  <2> TAKE m \in at
  <2>1. upto(m) \in SUBSET at
    OBVIOUS
  <2> QED  BY <2>1, FS_Subset, FS_CardinalityType
<1>3. \A m \in at : rank(m) \in 1..N
  <2> TAKE m \in at
  <2>1. m \in upto(m)
    OBVIOUS
  <2>2. rank(m) # 0
    BY <1>2, <2>1, FS_EmptySet
  <2> QED  BY <1>1, <1>2, <2>2
<1>4. \A l, m \in at : l < m => rank(l) # rank(m)
  <2> SUFFICES ASSUME NEW l \in at, NEW m \in at, l < m  PROVE rank(l) # rank(m)
    OBVIOUS
  <2>1. upto(l) \in SUBSET upto(m)
    <3>1. \A k \in at : k \in Nat
      OBVIOUS
    <3>2. \A k \in at : k <= l => k <= m
      BY <3>1
    <3> QED  BY <3>2
  <2>2. m \in upto(m) /\ m \notin upto(l)
    OBVIOUS
  <2> QED  BY <1>2, <2>1, <2>2, FS_Subset
<1>5. \A l, m \in at : rank(l) = rank(m) => l = m
  <2> SUFFICES ASSUME NEW l \in at, NEW m \in at, l # m  PROVE rank(l) # rank(m)
    OBVIOUS
  <2>1. l < m \/ m < l
    OBVIOUS
  <2> HIDE DEF rank
  <2> QED  BY <1>4, <2>1
<1>6. \A n \in 1..N : \E m \in at : rank(m) = n
  <2> DEFINE f == [m \in at |-> rank(m)]
  <2> HIDE DEF rank, N
  <2>1. f \in Injection(at, 1..N)
    BY <1>3, <1>5, Fun_IsInj
  <2>2. IsFiniteSet(1..N) /\ Cardinality(1..N) = N
    BY <1>1, FS_Interval
  <2>3. f \in Surjection(at, 1..N)
    BY <2>1, <2>2, FS_Injection DEF N
  <2>4. \A m \in at : f[m] = rank(m)
    OBVIOUS
  <2> HIDE DEF f
  <2>5. \A n \in 1..N : \E m \in at : f[m] = n
    BY <2>3, Fun_SurjectionProperties
  <2> QED  BY <2>4, <2>5
<1> QED  BY <1>1, <1>3, <1>5, <1>6

LEMMA PickedFacts ==
  ASSUME NEW q \in Seq(Threads), NEW S
  PROVE  /\ Picked(q, S) \in Seq(Threads)
         /\ Members(Picked(q, S)) = Members(q) \cap S
         /\ Distinct(q) => Distinct(Picked(q, S))
<1> DEFINE at == {m \in 1..Len(q) : q[m] \in S}
           rank(m) == Cardinality({k \in at : k <= m})
           N == Cardinality(at)
           pos(n) == CHOOSE m \in at : rank(m) = n
           p == Picked(q, S)
<1>1. IsFiniteSet(at) /\ at \subseteq Nat
  <2>1. at \in SUBSET (1..Len(q)) /\ Len(q) \in Nat
    OBVIOUS
  <2>2. IsFiniteSet(1..Len(q))
    BY <2>1, FS_Interval
  <2> QED  BY <2>1, <2>2, FS_Subset
<1>2. p = [n \in 1..N |-> q[pos(n)]]
  BY DEF Picked
<1>3. \A m \in at : m \in 1..Len(q) /\ q[m] \in Threads /\ q[m] \in S
  OBVIOUS
<1>4. \A m \in 1..Len(q) : q[m] \in S => m \in at
  OBVIOUS
<1> HIDE DEF at
<1>5. /\ N \in Nat
      /\ \A m \in at : rank(m) \in 1..N
      /\ \A l, m \in at : rank(l) = rank(m) => l = m
      /\ \A n \in 1..N : \E m \in at : rank(m) = n
  BY <1>1, Positions
<1> HIDE DEF rank, N
<1>6. \A n \in 1..N : pos(n) \in at /\ rank(pos(n)) = n
  BY <1>5
<1>7. \A m \in at : pos(rank(m)) = m
  BY <1>5, <1>6
<1> HIDE DEF pos, p
<1>8. p \in Seq(Threads) /\ Len(p) = N /\ \A n \in 1..N : p[n] = q[pos(n)]
  BY <1>2, <1>3, <1>5, <1>6
<1>9. Members(p) = Members(q) \cap S
  <2>1. \A n \in 1..N : p[n] \in Members(q) \cap S
    BY <1>3, <1>6, <1>8 DEF Members
  <2>2. \A m \in 1..Len(q) : q[m] \in S => \E n \in 1..N : p[n] = q[m]
    BY <1>4, <1>5, <1>7, <1>8
  <2> QED  BY <1>8, <2>1, <2>2 DEF Members
<1>10. Distinct(q) => Distinct(p)
  <2> SUFFICES ASSUME Distinct(q), NEW m \in 1..N, NEW n \in 1..N, p[m] = p[n]
               PROVE  m = n
    BY <1>8 DEF Distinct
  <2>1. pos(m) = pos(n)
    BY <1>3, <1>6, <1>8 DEF Distinct
  <2> QED  BY <1>6, <2>1
<1> QED  BY <1>8, <1>9, <1>10 DEF p

LEMMA JoinFacts ==
  ASSUME NEW q \in Seq(Threads), NEW r \in Seq(Threads)
  PROVE  /\ q \o r \in Seq(Threads)
         /\ Len(q \o r) = Len(q) + Len(r)
         /\ \A n \in 1..Len(q) : (q \o r)[n] = q[n]
         /\ Members(q \o r) = Members(q) \cup Members(r)
         /\ Distinct(q) /\ Distinct(r) /\ Members(q) \cap Members(r) = {} => Distinct(q \o r)
<1>1. /\ q \o r \in Seq(Threads)
      /\ Len(q \o r) = Len(q) + Len(r)
      /\ \A n \in 1..Len(q) : (q \o r)[n] = q[n]
      /\ \A n \in 1..Len(r) : (q \o r)[n + Len(q)] = r[n]
      /\ \A n \in 1..Len(q \o r) : n \in 1..Len(q) \/ n - Len(q) \in 1..Len(r)
  OBVIOUS
<1>2. \A n \in 1..Len(q \o r) : \/ n \in 1..Len(q) /\ (q \o r)[n] = q[n]
                                \/ n - Len(q) \in 1..Len(r) /\ (q \o r)[n] = r[n - Len(q)]
  OBVIOUS
<1>3. Members(q \o r) = Members(q) \cup Members(r)
  <2>1. \A n \in 1..Len(q \o r) : (q \o r)[n] \in Members(q) \cup Members(r)
    BY <1>2 DEF Members
  <2>2. \A n \in 1..Len(q) : q[n] \in Members(q \o r)
    BY <1>1 DEF Members
  <2>3. \A n \in 1..Len(r) : n + Len(q) \in 1..Len(q \o r)
    BY <1>1
  <2>4. \A n \in 1..Len(r) : r[n] \in Members(q \o r)
    BY <1>1, <2>3 DEF Members
  <2> QED  BY <2>1, <2>2, <2>4 DEF Members
<1>4. ASSUME Distinct(q), Distinct(r), Members(q) \cap Members(r) = {}
      PROVE  Distinct(q \o r)
  <2>1. \A m \in 1..Len(q), n \in 1..Len(r) : q[m] # r[n]
    BY <1>4 DEF Members
  <2> SUFFICES ASSUME NEW m \in 1..Len(q \o r), NEW n \in 1..Len(q \o r),
                      (q \o r)[m] = (q \o r)[n]
               PROVE  m = n
    BY DEF Distinct
  <2> QED  BY <1>1, <1>2, <1>4, <2>1 DEF Distinct
<1> QED  BY <1>1, <1>3, <1>4

LEMMA FillHoleFacts ==
  ASSUME NEW q \in Seq(Threads), Distinct(q), NEW c \in Nat, c < Len(q)
  PROVE  LET r == FillHole(q, c)
         IN  /\ r \in Seq(Threads) /\ Len(r) = Len(q) - 1
             /\ Members(r) = Members(q) \ {q[c + 1]}
             /\ Distinct(r)
<1> DEFINE r == FillHole(q, c)
           L == Len(q)
<1>1. L \in Nat \ {0} /\ c + 1 \in 1..L /\ L \in 1..L /\ L - 1 \in Nat
  OBVIOUS
<1>2. /\ r \in Seq(Threads) /\ Len(r) = L - 1
      /\ \A n \in 1..(L - 1) : r[n] = IF n = c + 1 THEN q[L] ELSE q[n]
  <2> DEFINE s == [q EXCEPT ![c + 1] = q[L]]
  <2>1. s \in Seq(Threads) /\ Len(s) = L /\ \A n \in 1..L : s[n] = IF n = c + 1 THEN q[L] ELSE q[n]
    BY <1>1
  <2>2. r = SubSeq(s, 1, L - 1)
    BY DEF FillHole
  <2> HIDE DEF s, L, r
  <2>3. r \in Seq(Threads) /\ Len(r) = L - 1 /\ \A n \in 1..(L - 1) : r[n] = s[n]
    BY <1>1, <2>1, <2>2
  <2> QED  BY <1>1, <2>1, <2>3
<1> HIDE DEF r
<1>3. \A m, n \in 1..L : q[m] = q[n] => m = n
  BY DEF Distinct
<1>4. Members(r) = Members(q) \ {q[c + 1]}
  <2>1. \A n \in 1..(L - 1) : r[n] \in Members(q) \ {q[c + 1]}
    BY <1>1, <1>2, <1>3 DEF Members
  <2>2. \A m \in 1..L : m # c + 1 => \E n \in 1..(L - 1) : r[n] = q[m]
    <3> TAKE m \in 1..L
    <3> HAVE m # c + 1
    <3>1. CASE m = L
      <4>1. c + 1 \in 1..(L - 1)
        BY <1>1, <3>1
      <4> QED  BY <1>2, <3>1, <4>1
    <3>2. CASE m # L
      <4>1. m \in 1..(L - 1)
        BY <1>1, <3>2
      <4> QED  BY <1>2, <4>1
    <3> QED  BY <3>1, <3>2
  <2>3. \A n \in 1..Len(r) : n \in 1..(L - 1)
    BY <1>2
  <2>4. \A x \in Members(r) : x \in Members(q) \ {q[c + 1]}
    BY <2>1, <2>3 DEF Members
  <2>5. ASSUME NEW x \in Members(q), x # q[c + 1] PROVE x \in Members(r)
    <3>1. PICK m \in 1..L : x = q[m]
      BY DEF Members
    <3>2. PICK n \in 1..(L - 1) : r[n] = x
      BY <2>2, <2>5, <3>1
    <3> QED  BY <1>2, <3>2 DEF Members
  <2> QED  BY <2>4, <2>5
<1>5. Distinct(r)
  <2> SUFFICES ASSUME NEW m \in 1..(L - 1), NEW n \in 1..(L - 1), r[m] = r[n]
               PROVE  m = n
    BY <1>2 DEF Distinct
  <2> QED  BY <1>1, <1>2, <1>3
<1> QED  BY <1>2, <1>4, <1>5 DEF r

-----------------------------------------------------------------------------
(* The inductive invariant.  Running is the thread at rq_current; it has   *)
(* left its environment where it will resume, and while it is leaving it   *)
(* is still in the ready queue.                                            *)

\* What is in buf came from a FIFO or from malloc.
BufInv == \A t \in Threads : tcb[t].buf \in Numbers

QueuesInv ==
  /\ Distinct(rq) /\ Distinct(wq)
  /\ Members(rq) \cap Members(wq) = {}
  /\ Members(rq) \cup Members(wq) = (Created \ exited) \cup Leaving
  /\ Leaving \subseteq exited
  /\ pc = "idle" => rq = <<>>

EnvInv ==
  /\ ResumesInPlace
  /\ \A t \in Threads : env[t] = "read" => t \in Subs
  /\ pc \in {"setup", "yield", "read"} => env[Running] = pc
  /\ pc = "sched" => cause \in 1..3

\* Before the first jump nothing has happened.
StartInv == pc = "start" => /\ cur = 0 /\ wq = <<>> /\ exited = {}
                            /\ ~armed /\ "ALRM" \notin pending

IInv == TypeOK /\ BufInv /\ QueuesInv /\ EnvInv /\ StartInv /\ SignalsBlocked /\ AlarmLives
-----------------------------------------------------------------------------
(* The scheduler.                                                          *)

\* The queues as the scheduler must leave them.
Settled(r, w, c) ==
  /\ r \in Seq(Threads) /\ w \in Seq(Threads) /\ c \in Nat
  /\ Distinct(r) /\ Distinct(w)
  /\ Members(r) \cap Members(w) = {}
  /\ Members(r) \cup Members(w) = Created \ exited
  /\ \A t \in Members(w) : t \in Subs /\ env[t] = "read"
  /\ r = <<>> \/ c < Len(r)

LEMMA RunningFacts ==
  ASSUME TypeOK, QueuesInv, EnvInv, InThread \/ pc = "sched"
  PROVE  /\ cur \in Nat /\ cur < Len(rq) /\ cur + 1 \in 1..Len(rq)
         /\ Running \in Threads /\ Running \in Members(rq) /\ Running \notin Members(wq)
         /\ Running \in Created
         /\ ~(pc = "sched" /\ cause = 3) => Running \notin exited
<1>1. rq \in Seq(Threads) /\ cur \in Nat /\ cur < Len(rq) /\ exited \subseteq Created
  BY DEF TypeOK, EnvInv, ResumesInPlace
<1>2. cur + 1 \in 1..Len(rq) /\ Running \in Threads
  BY <1>1 DEF Running
<1>3. Running \in Members(rq)
  BY <1>2 DEF Running, Members
<1> HIDE DEF Running
<1>4. Running \notin Members(wq) /\ Running \in (Created \ exited) \cup Leaving
  BY <1>3 DEF QueuesInv
<1>5. Running \in Created
  BY <1>1, <1>4 DEF QueuesInv
<1> QED  BY <1>1, <1>2, <1>3, <1>4, <1>5 DEF Leaving

LEMMA WokenFacts ==
  ASSUME OneReader, TypeOK, QueuesInv, EnvInv
  PROVE  /\ Woken \in Seq(Threads) /\ Asleep \in Seq(Threads)
         /\ Distinct(Woken) /\ Distinct(Asleep)
         /\ Members(Woken) \cup Members(Asleep) = Members(wq)
         /\ Members(Woken) \cap Members(Asleep) = {}
         /\ Members(Woken) \subseteq Awake
<1> DEFINE kept == Picked(wq, Subs \ Awake)
<1>1. wq \in Seq(Threads) /\ Distinct(wq) /\ Members(wq) \subseteq Subs
  BY DEF TypeOK, QueuesInv, EnvInv, ResumesInPlace
<1>2. /\ Members(Woken) = Members(wq) \cap Awake /\ Members(kept) = Members(wq) \cap (Subs \ Awake)
      /\ Woken \in Seq(Threads) /\ kept \in Seq(Threads) /\ Distinct(Woken) /\ Distinct(kept)
  BY <1>1, PickedFacts DEF Woken
<1> HIDE DEF kept
<1>3. Asleep = kept
  <2>1. Asleep = [n \in 1..Len(kept) |->
                    IF Woken # <<>> /\ \A m \in 1..n : wq[m] \notin Awake THEN Null ELSE kept[n]]
    BY DEF Asleep, kept
  <2>2. CASE Woken = <<>>
    BY <1>2, <2>1, <2>2
  <2>3. CASE Woken # <<>>
    <3>1. Woken[1] \in Members(Woken)
      BY <1>2, <2>3 DEF Members
    <3>2. \A t, u \in Members(wq) : t = u
      <4>1. Members(wq) \subseteq Created
        BY DEF TypeOK, QueuesInv, Leaving
      <4> QED  BY <1>1, <4>1 DEF OneReader
    <3>3. Members(kept) = {}
      BY <1>2, <3>1, <3>2
    <3>4. Len(kept) = 0
      <4>1. Len(kept) \in Nat /\ (1 \in 1..Len(kept) => kept[1] \in Members(kept))
        BY <1>2 DEF Members
      <4> QED  BY <3>3, <4>1
    <3> QED  BY <1>2, <2>1, <3>4
  <2> QED  BY <2>2, <2>3
<1> QED  BY <1>1, <1>2, <1>3

LEMMA Rotated ==
  ASSUME OneReader, TypeOK, QueuesInv, EnvInv, pc = "sched", cause = 1, Rotate
  PROVE  /\ Settled(rq', wq', cur') /\ rq' # <<>>
         /\ Members(rq') = Members(rq) \cup Members(Woken) /\ wq' = Asleep
<1>1. rq \in Seq(Threads) /\ wq \in Seq(Threads) /\ cur \in Nat /\ cur < Len(rq)
  BY RunningFacts DEF TypeOK
<1>2. rq' = rq \o Woken /\ wq' = Asleep /\ cur' = (cur + 1) % Len(rq')
  BY DEF Rotate
<1>3. Members(rq) \cap Members(Woken) = {} /\ Distinct(rq)
  BY WokenFacts DEF QueuesInv
<1>4. rq' \in Seq(Threads) /\ Distinct(rq') /\ Len(rq') = Len(rq) + Len(Woken)
  BY <1>1, <1>2, <1>3, JoinFacts, WokenFacts
<1>5. Members(rq') = Members(rq) \cup Members(Woken)
  BY <1>1, <1>2, JoinFacts, WokenFacts
<1>6. Len(rq') \in Nat /\ Len(rq') > 0
  BY <1>1, <1>4, WokenFacts
<1>7. cur' \in Nat /\ cur' < Len(rq')
  BY <1>1, <1>2, <1>6
<1>8. Members(rq') \cap Members(wq') = {}
  BY <1>2, <1>5, WokenFacts DEF QueuesInv
<1>9. Members(rq') \cup Members(wq') = Created \ exited
  BY <1>2, <1>5, WokenFacts DEF QueuesInv, Leaving
<1>10. \A t \in Members(wq') : t \in Subs /\ env[t] = "read"
  BY <1>2, WokenFacts DEF EnvInv, ResumesInPlace
<1> QED  BY <1>2, <1>4, <1>5, <1>6, <1>7, <1>8, <1>9, <1>10, WokenFacts DEF Settled

LEMMA AppendFacts ==
  ASSUME NEW q \in Seq(Threads), NEW t \in Threads
  PROVE  /\ Append(q, t) \in Seq(Threads)
         /\ Members(Append(q, t)) = Members(q) \cup {t}
         /\ Distinct(q) /\ t \notin Members(q) => Distinct(Append(q, t))
<1> DEFINE r == Append(q, t)
<1>1. /\ r \in Seq(Threads) /\ Len(r) = Len(q) + 1 /\ Len(q) \in Nat
      /\ \A n \in 1..Len(q) : r[n] = q[n]
      /\ r[Len(q) + 1] = t
  OBVIOUS
<1> HIDE DEF r
<1>2. \A n \in 1..Len(r) : n \in 1..Len(q) \/ n = Len(q) + 1
  BY <1>1
<1>3. Members(r) = Members(q) \cup {t}
  <2>1. \A x \in Members(r) : x \in Members(q) \cup {t}
    BY <1>1, <1>2 DEF Members
  <2>2. \A n \in 1..Len(q) : n \in 1..Len(r)
    BY <1>1
  <2>3. Len(q) + 1 \in 1..Len(r)
    BY <1>1
  <2> QED  BY <1>1, <2>1, <2>2, <2>3 DEF Members
<1>4. ASSUME Distinct(q), t \notin Members(q)  PROVE Distinct(r)
  <2>1. \A n \in 1..Len(q) : q[n] # t
    BY <1>4 DEF Members
  <2> QED  BY <1>1, <1>2, <1>4, <2>1 DEF Distinct
<1> QED  BY <1>1, <1>3, <1>4 DEF r

LEMMA Departed ==
  ASSUME OneReader, TypeOK, QueuesInv, EnvInv, pc = "sched", cause \in {2, 3}, Depart
  PROVE  /\ Settled(rq', wq', cur')
         /\ Members(rq') = (Members(rq) \cup Members(Woken)) \ {Running}
         /\ Members(wq') = Members(Asleep) \cup (IF cause = 2 THEN {Running} ELSE {})
<1> DEFINE q == rq \o Woken
           t == Running
<1>1. /\ rq \in Seq(Threads) /\ cur \in Nat /\ cur < Len(rq) /\ cur + 1 \in 1..Len(rq)
      /\ t \in Threads /\ t \in Members(rq) /\ t \notin Members(wq) /\ t = rq[cur + 1]
  BY RunningFacts DEF TypeOK, Running
<1>2. /\ rq' = FillHole(q, cur) /\ cur' = Wrapped(rq')
      /\ wq' = IF cause = 2 THEN Append(Asleep, t) ELSE Asleep
  BY DEF Depart
<1>3. Members(rq) \cap Members(Woken) = {} /\ Distinct(rq)
  BY WokenFacts DEF QueuesInv
<1>4. /\ q \in Seq(Threads) /\ Distinct(q) /\ cur < Len(q) /\ q[cur + 1] = t
      /\ Members(q) = Members(rq) \cup Members(Woken)
  BY <1>1, <1>3, JoinFacts, WokenFacts
<1> HIDE DEF q, t
<1>5. /\ rq' \in Seq(Threads) /\ Distinct(rq') /\ Len(rq') = Len(q) - 1
      /\ Members(rq') = Members(q) \ {t}
  BY <1>1, <1>2, <1>4, FillHoleFacts
<1>6. cur' \in Nat /\ (rq' = <<>> \/ cur' < Len(rq'))
  BY <1>1, <1>2, <1>4, <1>5 DEF Wrapped
<1>7. /\ wq' \in Seq(Threads) /\ Distinct(wq')
      /\ Members(wq') = Members(Asleep) \cup (IF cause = 2 THEN {t} ELSE {})
  BY <1>1, <1>2, WokenFacts, AppendFacts
<1>8. Members(rq') \cap Members(wq') = {}
  BY <1>1, <1>4, <1>5, <1>7, WokenFacts DEF QueuesInv
<1>9. Members(rq') \cup Members(wq') = Created \ exited
  <2>1. Members(rq) \cup Members(wq) = (Created \ exited) \cup Leaving
        /\ Leaving = (IF cause = 3 THEN {t} ELSE {}) /\ Leaving \subseteq exited
    BY DEF QueuesInv, Leaving, t
  <2> QED  BY <1>1, <1>4, <1>5, <1>7, <2>1, WokenFacts
<1>10. \A u \in Members(wq') : u \in Subs /\ env[u] = "read"
  <2>1. cause = 2 => env[t] = "read"
    BY DEF EnvInv, ResumesInPlace, t
  <2> QED  BY <1>1, <1>7, <2>1, WokenFacts DEF EnvInv, ResumesInPlace
<1> QED  BY <1>4, <1>5, <1>6, <1>7, <1>8, <1>9, <1>10 DEF Settled, t

LEMMA Slept ==
  ASSUME OneReader, TypeOK, QueuesInv, EnvInv, pc = "idle", Idle
  PROVE  Settled(rq', wq', cur') /\ rq' # <<>>
<1>1. rq' = Woken /\ wq' = Asleep /\ cur' = 0 /\ Woken # <<>>
  BY DEF Idle
<1>2. Members(rq) = {}
  BY DEF QueuesInv, Members
<1>3. Members(wq) = Created \ exited
  BY <1>2 DEF QueuesInv, Leaving
<1>4. cur' < Len(rq')
  BY <1>1, WokenFacts
<1> QED  BY <1>1, <1>3, <1>4, WokenFacts DEF Settled, EnvInv, ResumesInPlace

\* Where the process can be once the queues are settled.
Landed(r, w, c, p) ==
  \/ p = "returned" /\ r = <<>>
  \/ p = "idle" /\ r = <<>>
  \/ p = JumpTo(r, c)

LEMMA Landing ==
  ASSUME TypeOK, EnvInv, Settled(rq', wq', cur'), Landed(rq', wq', cur', pc'),
         UNCHANGED <<env, exited>>
  PROVE  /\ QueuesInv' /\ EnvInv'
         /\ pc' \in {"returned", "idle", "crash", "setup", "yield", "read"}
         /\ pc' = "crash" => rq' = <<>>
         /\ rq' # <<>> => pc' \in {"setup", "yield", "read"}
<1>1. rq' \in Seq(Threads) /\ cur' \in Nat /\ (rq' = <<>> \/ cur' < Len(rq'))
  BY DEF Settled
<1>2. \/ pc' = "returned" /\ rq' = <<>>
      \/ pc' = "crash" /\ rq' = <<>>
      \/ pc' = "idle" /\ rq' = <<>>
      \/ pc' = env[Running'] /\ Running' \in Threads /\ cur' < Len(rq')
  BY <1>1 DEF Landed, JumpTo, Running
<1>3. pc' \in {"returned", "idle", "crash", "setup", "yield", "read"}
  BY <1>2 DEF TypeOK
<1>4. Leaving' = {}
  BY <1>3 DEF Leaving
<1>5. QueuesInv'
  <2>1. /\ Distinct(rq') /\ Distinct(wq') /\ Members(rq') \cap Members(wq') = {}
        /\ Members(rq') \cup Members(wq') = Created \ exited'
    BY DEF Settled
  <2>2. pc' = "idle" => rq' = <<>>
    BY <1>2 DEF TypeOK
  <2> QED  BY <1>4, <2>1, <2>2 DEF QueuesInv
<1>6. EnvInv'
  <2>1. \A t \in Members(wq') : t \in Subs /\ env'[t] = "read"
    BY DEF Settled
  <2>2. /\ InThread' => pc' \in {"setup", "yield", "read"}
        /\ pc' # "sched" /\ pc' \notin {"tstp_window", "alrm_window"}
    BY <1>3 DEF InThread
  <2>3. pc' \in {"setup", "yield", "read"} => cur' < Len(rq') /\ pc' = env'[Running']
    BY <1>2
  <2>4. ResumesInPlace'
    BY <2>1, <2>2, <2>3 DEF ResumesInPlace
  <2> QED  BY <2>2, <2>3, <2>4 DEF EnvInv
<1>7. rq' # <<>> => pc' \in {"setup", "yield", "read"}
  BY <1>2 DEF TypeOK
<1> QED  BY <1>2, <1>3, <1>5, <1>6, <1>7 DEF TypeOK
\* The types of the variables outside the process's own.
InputOK ==
  /\ fifo \in [Subs -> Seq(Numbers)] /\ fed \in [Subs -> Seq(Numbers)]
  /\ used \in [Subs -> Seq(Numbers)]
  /\ writer \in [Subs -> {"never", "open", "closed"}]

LEMMA Switches ==
  ASSUME OneReader, IInv, Start \/ Schedule \/ Idle
  PROVE  /\ IInv'
         /\ rq' # <<>> => pc' \in {"setup", "yield", "read"}
         /\ pc' = "crash" => \/ rq' = <<>> /\ pc = "start"
                             \/ rq' = <<>> /\ wq' # <<>> /\ Len(wq') # 1
<1>1. Settled(rq', wq', cur') /\ Landed(rq', wq', cur', pc') /\ UNCHANGED <<env, exited>>
  <2>1. CASE Start
    <3>1. UNCHANGED <<rq, wq, cur, env, exited>> /\ pc = "start" /\ cur = 0 /\ pc' = JumpTo(rq, 0)
      BY <2>1 DEF Start, queues, IInv, StartInv
    <3>2. rq \in Seq(Threads) /\ wq \in Seq(Threads) /\ cur \in Nat
      BY DEF IInv, TypeOK
    <3>3. Members(rq) \cup Members(wq) = Created \ exited
      BY <3>1 DEF IInv, QueuesInv, Leaving
    <3>4. rq = <<>> \/ cur < Len(rq)
      BY <3>1, <3>2
    <3> QED  BY <3>1, <3>2, <3>3, <3>4 DEF IInv, QueuesInv, EnvInv, ResumesInPlace, Settled, Landed
  <2>2. CASE Schedule
    <3>1. pc = "sched" /\ cause \in {1, 2, 3}
      BY <2>2 DEF Schedule, IInv, EnvInv
    <3>2. Settled(rq', wq', cur')
      BY <2>2, <3>1, Rotated, Departed DEF Schedule, IInv
    <3>3. ~(\E n \in 1..Len(wq) : wq[n] = Null)
      BY NullAssumption DEF IInv, TypeOK
    <3> QED  BY <2>2, <3>2, <3>3 DEF Schedule, Landed
  <2>3. CASE Idle
    <3>1. Settled(rq', wq', cur')
      BY <2>3, Slept DEF Idle, IInv
    <3> QED  BY <2>3, <3>1 DEF Idle, Landed
  <2> QED  BY <2>1, <2>2, <2>3
<1>2. /\ QueuesInv' /\ EnvInv' /\ pc' \in {"returned", "idle", "crash", "setup", "yield", "read"}
      /\ pc' = "crash" => rq' = <<>>
      /\ rq' # <<>> => pc' \in {"setup", "yield", "read"}
  BY <1>1, Landing DEF IInv
<1>3. UNCHANGED <<cause, env, tcb, exited, mask, pending, fifo, writer, fed, used>>
  BY DEF Start, Schedule, Idle, signals, input
<1>4. TypeOK' /\ BufInv'
  <2>1. rq' \in Seq(Threads) /\ wq' \in Seq(Threads) /\ cur' \in Nat
    BY <1>1 DEF Settled
  <2>2. armed' \in BOOLEAN
    <3>1. CASE Start
      <4> DEFINE slice == Timeslice > 0
      <4>1. armed' = slice
        BY <3>1 DEF Start
      <4>2. slice \in BOOLEAN
        OBVIOUS
      <4> HIDE DEF slice
      <4> QED  BY <4>1, <4>2
    <3>2. CASE Schedule \/ Idle
      <4>1. armed' = armed
        BY <3>2 DEF Schedule, Idle, signals
      <4> QED  BY <4>1 DEF IInv, TypeOK
    <3> QED  BY <3>1, <3>2
  <2>3. /\ cause \in 0..3 /\ env \in [Threads -> {"setup", "yield", "read"}]
        /\ tcb \in [Threads -> Tcb] /\ exited \subseteq Created
        /\ mask \subseteq Signals /\ pending \subseteq Signals /\ InputOK
    BY DEF IInv, TypeOK, InputOK
  <2>4. BufInv'
    BY <1>3 DEF IInv, BufInv
  <2> QED  BY <1>2, <1>3, <2>1, <2>2, <2>3, <2>4 DEF TypeOK, InputOK
<1>5. StartInv' /\ SignalsBlocked'
  <2>1. pc \notin {"tstp_window", "alrm_window"} /\ pc' \notin {"start", "tstp_window", "alrm_window"}
    BY <1>2 DEF Start, Schedule, Idle
  <2> QED  BY <1>3, <2>1 DEF IInv, StartInv, SignalsBlocked
<1>6. AlarmLives'
  <2>1. CASE Start
    BY <1>3, <2>1 DEF Start, IInv, StartInv, AlarmLives
  <2>2. CASE Schedule \/ Idle
    <3>1. UNCHANGED <<armed, pending>> /\ pc \notin {"start", "returned"}
      BY <2>2 DEF Schedule, Idle, signals
    <3> QED  BY <3>1 DEF IInv, AlarmLives
  <2> QED  BY <2>1, <2>2
<1>7. pc' = "crash" => \/ rq' = <<>> /\ pc = "start"
                       \/ rq' = <<>> /\ wq' # <<>> /\ Len(wq') # 1
  <2>1. CASE Start
    BY <1>2, <2>1 DEF Start
  <2>2. CASE Schedule
    <3>1. ~(\E n \in 1..Len(wq) : wq[n] = Null)
      BY NullAssumption DEF IInv, TypeOK
    <3> QED  BY <1>2, <2>2, <3>1 DEF Schedule
  <2>3. CASE Idle
    BY <1>2, <2>3 DEF Idle
  <2> QED  BY <2>1, <2>2, <2>3
<1> QED  BY <1>2, <1>4, <1>5, <1>6, <1>7 DEF IInv

-----------------------------------------------------------------------------
(* The running thread.                                                     *)

LEMMA LoopTypes ==
  ASSUME NEW t \in Threads, NEW b \in Tcb
  PROVE  /\ Count(b) \in Tcb /\ Count(b).buf = b.buf
         /\ [b EXCEPT !.i = 1] \in Tcb /\ [b EXCEPT !.i = 1].buf = b.buf
         /\ Body(t, b) \in Tcb /\ Body(t, b).buf = b.buf
<1>1. MaxLoops \in Nat \ {0}
  BY BoundsAssumption
<1>2. /\ Count(b) \in Tcb /\ Count(b).buf = b.buf
      /\ [b EXCEPT !.i = 1] \in Tcb /\ [b EXCEPT !.i = 1].buf = b.buf
  BY <1>1 DEF Count, Tcb
<1>3. Fibonacci(b) \in Tcb /\ Fibonacci(b).buf = b.buf
  <2>1. \A u, v \in Int : /\ [b EXCEPT !.x = u, !.y = v] \in Tcb
                          /\ [b EXCEPT !.x = u, !.y = v].buf = b.buf
    BY DEF Tcb
  <2>2. b.y \in Int /\ b.x + b.y \in Int /\ 1 \in Int
    BY DEF Tcb
  <2>3. CASE b.i <= 2
    BY <2>1, <2>2, <2>3 DEF Fibonacci
  <2>4. CASE ~(b.i <= 2)
    BY <2>1, <2>2, <2>4 DEF Fibonacci
  <2> QED  BY <2>3, <2>4
<1>4. Collatz(b) \in Tcb /\ Collatz(b).buf = b.buf
  BY DEF Collatz, Tcb
<1>5. MaxSubarray(b) \in Tcb /\ MaxSubarray(b).buf = b.buf
  <2> DEFINE y == IF b.i > 1 /\ b.y > 0 THEN b.y + b.buf ELSE b.buf
             x == IF b.i = 1 THEN 0 ELSE b.x
             z == IF x < y THEN y ELSE x
  <2>1. y \in Int /\ z \in Int
    BY DEF Tcb
  <2>2. MaxSubarray(b) = [b EXCEPT !.y = y, !.x = z]
    BY DEF MaxSubarray
  <2> HIDE DEF y, z
  <2>3. /\ [b EXCEPT !.y = y, !.x = z] \in Tcb
        /\ [b EXCEPT !.y = y, !.x = z].buf = b.buf
    BY <2>1 DEF Tcb
  <2> QED  BY <2>2, <2>3
<1>6. Body(t, b) \in {Collatz(b), b, Fibonacci(b), MaxSubarray(b)}
  BY DEF Body
<1> QED  BY <1>2, <1>3, <1>4, <1>5, <1>6

LEMMA HeadTypes ==
  ASSUME IInv, NEW t \in Threads
  PROVE  /\ tcb[t] \in Tcb /\ tcb[t].buf \in Numbers
         /\ LoopHead(t) \in Tcb /\ LoopHead(t).buf \in Numbers
<1>1. tcb[t] \in Tcb /\ tcb[t].buf \in Numbers
  BY DEF IInv, TypeOK, BufInv
<1> QED  BY <1>1, LoopTypes DEF LoopHead

\* The variables of the process a loop leaves alone keep their invariants when it
\* exits or yields, and its own get them.
LEMMA ExitsOrYields ==
  ASSUME IInv, pc \in {"setup", "yield", "read"},
         NEW b \in Tcb, b.buf \in Numbers, ExitOrYield(Running, b),
         UNCHANGED <<rq, wq, cur, pending, armed>>, InputOK'
  PROVE  IInv'
<1>1. /\ cur < Len(rq) /\ Running \in Threads /\ Running \in Members(rq)
      /\ Running \notin Members(wq) /\ Running \in Created \ exited
      /\ Running' = Running /\ Members(rq)' = Members(rq) /\ Members(wq)' = Members(wq)
  BY RunningFacts DEF IInv, InThread, Running, Members
<1>2. tcb' = [tcb EXCEPT ![Running] = b]
  BY DEF ExitOrYield
<1>3. /\ rq \in Seq(Threads) /\ wq \in Seq(Threads) /\ cur \in Nat /\ cause \in 0..3
      /\ env \in [Threads -> {"setup", "yield", "read"}] /\ tcb \in [Threads -> Tcb]
      /\ exited \subseteq Created /\ mask \subseteq Signals /\ pending \subseteq Signals
      /\ armed \in BOOLEAN
  BY DEF IInv, TypeOK
<1> HIDE DEF Running
<1>4. BufInv' /\ tcb' \in [Threads -> Tcb]
  BY <1>1, <1>2, <1>3 DEF IInv, BufInv
<1>5. Members(rq) \cup Members(wq) = Created \ exited /\ mask = Signals
  BY DEF IInv, QueuesInv, Leaving, SignalsBlocked
<1>6. ASSUME Finished(Running, b)  PROVE IInv'
  <2>1. /\ exited' = exited \cup {Running} /\ pc' = "sched" /\ cause' = 3
        /\ UNCHANGED <<env, mask>>
    BY <1>6 DEF ExitOrYield, CallScheduler
  <2>2. Leaving' = {Running}
    BY <1>1, <2>1 DEF Leaving
  <2>3. QueuesInv'
    BY <1>1, <1>5, <2>1, <2>2 DEF IInv, QueuesInv
  <2>4. EnvInv'
    <3>1. \A t \in Members(wq) : t \in Subs /\ env[t] = "read"
      BY DEF IInv, EnvInv, ResumesInPlace
    <3>2. ResumesInPlace'
      BY <1>1, <2>1, <3>1 DEF ResumesInPlace, InThread
    <3>3. \A t \in Threads : env[t] = "read" => t \in Subs
      BY DEF IInv, EnvInv
    <3> QED  BY <2>1, <3>2, <3>3 DEF EnvInv
  <2>5. TypeOK'
    BY <1>1, <1>3, <1>4, <2>1 DEF TypeOK, InputOK
  <2>6. StartInv' /\ SignalsBlocked' /\ AlarmLives'
    BY <1>5, <2>1 DEF IInv, StartInv, SignalsBlocked, AlarmLives
  <2> QED  BY <1>4, <2>3, <2>4, <2>5, <2>6 DEF IInv
<1>7. ASSUME ~Finished(Running, b)  PROVE IInv'
  <2>1. /\ env' = [env EXCEPT ![Running] = "yield"] /\ mask' = {"ALRM"}
        /\ pc' = "tstp_window" /\ UNCHANGED <<cause, exited>>
    BY <1>7 DEF ExitOrYield
  <2>2. Leaving' = {}
    BY <2>1 DEF Leaving
  <2>3. QueuesInv'
    BY <1>1, <1>5, <2>1, <2>2 DEF IInv, QueuesInv
  <2>4. env'[Running] = "yield" /\ \A t \in Threads : env'[t] = "read" => env[t] = "read"
    BY <1>1, <1>3, <2>1
  <2>5. \A t \in Members(wq) : t \in Subs /\ env'[t] = "read"
    BY <1>1, <1>3, <2>1 DEF IInv, EnvInv, ResumesInPlace, Threads
  <2>6. EnvInv'
    BY <1>1, <2>1, <2>4, <2>5 DEF IInv, EnvInv, ResumesInPlace, InThread
  <2>7. TypeOK'
    BY <1>3, <1>4, <2>1 DEF TypeOK, InputOK, Signals
  <2>8. StartInv' /\ SignalsBlocked' /\ AlarmLives'
    BY <2>1 DEF IInv, StartInv, SignalsBlocked, AlarmLives
  <2> QED  BY <1>4, <2>3, <2>6, <2>7, <2>8 DEF IInv
<1> QED  BY <1>6, <1>7
LEMMA Iterates ==
  ASSUME IInv, Iterate
  PROVE  IInv'
<1> DEFINE b == Body(Running, LoopHead(Running))
<1>1. pc \in {"setup", "yield", "read"} /\ ExitOrYield(Running, b)
      /\ UNCHANGED <<rq, wq, cur, pending, armed>>
  BY DEF Iterate, queues
<1>2. InputOK'
  BY DEF Iterate, input, IInv, TypeOK, InputOK
<1>3. Running \in Threads
  BY <1>1, RunningFacts DEF IInv, InThread
<1>4. b \in Tcb /\ b.buf \in Numbers
  BY <1>3, HeadTypes, LoopTypes
<1> HIDE DEF b
<1> QED  BY <1>1, <1>2, <1>4, ExitsOrYields

LEMMA Reads ==
  ASSUME IInv, ReadAndIterate
  PROVE  IInv'
<1> DEFINE t == Running
           b == Read(t, tcb[t])
           c == Body(t, b)
<1>1. /\ pc = "read" /\ ExitOrYield(Running, c)
      /\ UNCHANGED <<rq, wq, cur, pending, armed, writer, fed>>
      /\ fifo' = [fifo EXCEPT ![t] = IF @ = <<>> THEN @ ELSE Tail(@)]
      /\ used' = IF b.i = MaxLoops THEN used ELSE [used EXCEPT ![t] = Append(@, b.buf)]
  BY DEF ReadAndIterate, queues
<1>2. t \in Threads /\ t \in Subs
  BY <1>1, RunningFacts DEF IInv, InThread, EnvInv
<1>3. InputOK
  BY DEF IInv, TypeOK, InputOK
<1>4. fifo[t] # <<>> => Head(fifo[t]) \in Numbers /\ Tail(fifo[t]) \in Seq(Numbers)
  BY <1>2, <1>3 DEF InputOK
<1>5. b \in Tcb /\ b.buf \in Numbers
  <2>1. \A n \in Numbers : [tcb[t] EXCEPT !.buf = n] \in Tcb /\ [tcb[t] EXCEPT !.buf = n].buf = n
    BY <1>2, HeadTypes, NumbersAssumption DEF Tcb
  <2> QED  BY <1>2, <1>4, <2>1, HeadTypes DEF Read
<1> HIDE DEF b, t
<1>6. c \in Tcb /\ c.buf \in Numbers
  BY <1>2, <1>5, LoopTypes
<1> HIDE DEF c
<1>7. InputOK'
  <2>1. fifo' \in [Subs -> Seq(Numbers)]
    BY <1>1, <1>2, <1>3, <1>4 DEF InputOK
  <2>2. used' \in [Subs -> Seq(Numbers)]
    BY <1>1, <1>2, <1>3, <1>5 DEF InputOK
  <2> QED  BY <1>1, <1>3, <2>1, <2>2 DEF InputOK
<1> QED  BY <1>1, <1>6, <1>7, ExitsOrYields

LEMMA StartsReading ==
  ASSUME IInv, AsyncRead
  PROVE  IInv'
<1>1. /\ pc \in {"setup", "yield"} /\ Running \in Subs
      /\ tcb' = [tcb EXCEPT ![Running] = LoopHead(Running)]
      /\ env' = [env EXCEPT ![Running] = "read"]
      /\ pc' = "sched" /\ cause' = 2
      /\ UNCHANGED <<rq, wq, cur, exited, mask, pending, armed, fifo, writer, fed, used>>
  BY DEF AsyncRead, CallScheduler, queues, signals, input
<1>2. /\ cur < Len(rq) /\ Running \in Threads /\ Running' = Running
      /\ Members(rq)' = Members(rq) /\ Members(wq)' = Members(wq)
  BY <1>1, RunningFacts DEF IInv, InThread, Running, Members
<1>3. LoopHead(Running) \in Tcb /\ LoopHead(Running).buf \in Numbers
  BY <1>2, HeadTypes
<1> HIDE DEF Running
<1>4. /\ rq \in Seq(Threads) /\ wq \in Seq(Threads) /\ cur \in Nat
      /\ env \in [Threads -> {"setup", "yield", "read"}] /\ tcb \in [Threads -> Tcb]
      /\ exited \subseteq Created /\ mask \subseteq Signals /\ pending \subseteq Signals
      /\ armed \in BOOLEAN /\ InputOK
  BY DEF IInv, TypeOK, InputOK
<1>5. tcb' \in [Threads -> Tcb] /\ BufInv'
  BY <1>1, <1>2, <1>3, <1>4 DEF IInv, BufInv
<1>6. TypeOK'
  <2>1. env' \in [Threads -> {"setup", "yield", "read"}]
    BY <1>1, <1>2, <1>4
  <2> QED  BY <1>1, <1>4, <1>5, <2>1 DEF TypeOK, InputOK
<1>7. Leaving = {} /\ Leaving' = {}
  BY <1>1 DEF Leaving
<1>8. QueuesInv'
  BY <1>1, <1>2, <1>7 DEF IInv, QueuesInv
<1>9. EnvInv'
  <2>1. env'[Running] = "read" /\ \A t \in Threads : env'[t] = "read" => env[t] = "read" \/ t = Running
    BY <1>1, <1>2, <1>4
  <2>2. \A t \in Threads : env'[t] = "read" => t \in Subs
    BY <1>1, <2>1 DEF IInv, EnvInv
  <2>3. \A t \in Members(wq) : t \in Subs /\ env'[t] = "read"
    BY <1>1, <1>2, <1>4 DEF IInv, EnvInv, ResumesInPlace, Threads
  <2>4. ResumesInPlace'
    BY <1>1, <1>2, <2>1, <2>3 DEF ResumesInPlace, InThread
  <2> QED  BY <1>1, <2>2, <2>4 DEF EnvInv
<1>10. StartInv' /\ SignalsBlocked' /\ AlarmLives'
  BY <1>1 DEF IInv, StartInv, SignalsBlocked, AlarmLives
<1> QED  BY <1>5, <1>6, <1>8, <1>9, <1>10 DEF IInv

-----------------------------------------------------------------------------
(* Signals and input.                                                      *)

LEMMA QueuesStay ==
  ASSUME IInv, UNCHANGED <<pc, cause, rq, wq, cur, env, exited, tcb>>
  PROVE  QueuesInv' /\ EnvInv' /\ BufInv'
<1>1. Members(rq)' = Members(rq) /\ Members(wq)' = Members(wq) /\ Running' = Running
  BY DEF Members, Running
<1>2. Leaving' = Leaving /\ InThread' = InThread
  BY <1>1 DEF Leaving, InThread
<1>3. QueuesInv'
  BY <1>1, <1>2 DEF IInv, QueuesInv
<1>4. EnvInv'
  BY <1>1, <1>2 DEF IInv, EnvInv, ResumesInPlace
<1> QED  BY <1>3, <1>4 DEF IInv, BufInv

\* A jump out of a window takes the cause of a signal with it.
LEMMA WindowsLeft ==
  ASSUME IInv, pc \in {"tstp_window", "alrm_window"}, cause' \in 0..3,
         pc' \in {"alrm_window", "yield", "sched"}, pc' = "sched" => cause' = 1,
         UNCHANGED <<rq, wq, cur, env, exited, tcb>>
  PROVE  QueuesInv' /\ EnvInv' /\ BufInv'
<1>1. Members(rq)' = Members(rq) /\ Members(wq)' = Members(wq) /\ Running' = Running
  BY DEF Members, Running
<1> HIDE DEF Running
<1>2. Leaving = {} /\ InThread
  BY DEF Leaving, InThread
<1>3. Leaving' = {}
  BY DEF Leaving
<1>4. cur < Len(rq) /\ env[Running] = "yield"
  BY <1>2 DEF IInv, EnvInv, ResumesInPlace
<1>5. QueuesInv'
  BY <1>1, <1>2, <1>3 DEF IInv, QueuesInv
<1>6. ResumesInPlace'
  <2>1. \A t \in Members(wq)' : t \in Subs /\ env[t] = "read"
    BY <1>1 DEF IInv, EnvInv, ResumesInPlace
  <2>2. env'[Running'] = "yield" /\ cur' < Len(rq')
    BY <1>1, <1>4
  <2>3. ~(pc' = "sched" /\ cause' = 2)
    OBVIOUS
  <2> QED  BY <2>1, <2>2, <2>3 DEF ResumesInPlace
<1>7. EnvInv'
  <2>1. \A t \in Threads : env[t] = "read" => t \in Subs
    BY DEF IInv, EnvInv
  <2>2. pc' \in {"setup", "yield", "read"} => env'[Running'] = pc'
    BY <1>1, <1>4
  <2>3. pc' = "sched" => cause' \in 1..3
    OBVIOUS
  <2> QED  BY <1>6, <2>1, <2>2, <2>3 DEF EnvInv
<1> QED  BY <1>5, <1>7 DEF IInv, BufInv

LEMMA WindowsClose ==
  ASSUME IInv, CloseTstpWindow \/ CloseAlrmWindow
  PROVE  IInv'
<1>1. /\ pc \in {"tstp_window", "alrm_window"}
      /\ \/ pc = "tstp_window" /\ pc' = "alrm_window" /\ mask' = {"TSTP"}
         \/ pc = "alrm_window" /\ pc' = "yield" /\ mask' = Signals
      /\ UNCHANGED <<cause, rq, wq, cur, env, tcb, exited, pending, armed, fifo, writer, fed, used>>
  BY DEF CloseTstpWindow, CloseAlrmWindow, queues, input
<1>2. QueuesInv' /\ EnvInv' /\ BufInv'
  BY <1>1, WindowsLeft DEF IInv, TypeOK
<1>3. TypeOK'
  BY <1>1 DEF IInv, TypeOK, Signals
<1>4. StartInv' /\ SignalsBlocked' /\ AlarmLives'
  BY <1>1 DEF IInv, StartInv, SignalsBlocked, AlarmLives
<1> QED  BY <1>2, <1>3, <1>4 DEF IInv

LEMMA Handles ==
  ASSUME IInv, NEW s \in Signals, Sighandler(s)
  PROVE  IInv'
<1>1. /\ pc \notin {"returned", "crash"} /\ s \in pending /\ s \notin mask
      /\ pending' = pending \ {s} /\ mask' = mask \cup {s}
      /\ armed' = IF s = "ALRM" THEN Timeslice > 0 ELSE armed
      /\ pc' = "sched" /\ cause' = 1
      /\ UNCHANGED <<rq, wq, cur, env, tcb, exited, fifo, writer, fed, used>>
  BY DEF Sighandler, CallScheduler, queues, input
<1>2. /\ pc \in {"tstp_window", "alrm_window"} /\ mask' = Signals
      /\ pc = "tstp_window" => s = "TSTP"
  BY <1>1 DEF IInv, SignalsBlocked, Signals
<1>3. QueuesInv' /\ EnvInv' /\ BufInv'
  BY <1>1, <1>2, WindowsLeft
<1>4. armed' \in BOOLEAN
  <2> DEFINE slice == Timeslice > 0
  <2>1. slice \in BOOLEAN
    OBVIOUS
  <2>2. armed' = IF s = "ALRM" THEN slice ELSE armed
    BY <1>1
  <2>3. armed \in BOOLEAN
    BY DEF IInv, TypeOK
  <2> HIDE DEF slice
  <2> QED  BY <2>1, <2>2, <2>3
<1>5. TypeOK'
  <2>1. /\ rq \in Seq(Threads) /\ wq \in Seq(Threads) /\ cur \in Nat
        /\ env \in [Threads -> {"setup", "yield", "read"}] /\ tcb \in [Threads -> Tcb]
        /\ exited \subseteq Created /\ pending \subseteq Signals /\ InputOK
    BY DEF IInv, TypeOK, InputOK
  <2>2. mask' \subseteq Signals /\ pending' \subseteq Signals
    BY <1>1, <1>2, <2>1
  <2> QED  BY <1>1, <1>4, <2>1, <2>2 DEF TypeOK, InputOK
<1>6. StartInv' /\ SignalsBlocked'
  BY <1>1, <1>2 DEF StartInv, SignalsBlocked
<1>7. AlarmLives'
  BY <1>1, <1>2 DEF IInv, AlarmLives
<1> QED  BY <1>3, <1>5, <1>6, <1>7 DEF IInv

LEMMA Outside ==
  ASSUME IInv, SendTstp \/ AlarmFires \/ Feed \/ \E t \in Subs : CloseFifo(t)
  PROVE  IInv'
<1>1. UNCHANGED <<pc, cause, rq, wq, cur, env, tcb, exited, mask>>
  BY DEF SendTstp, AlarmFires, Feed, OpenFifo, Write, CloseFifo, queues, signals
<1>2. QueuesInv' /\ EnvInv' /\ BufInv' /\ SignalsBlocked'
  BY <1>1, QueuesStay DEF IInv, SignalsBlocked
<1>3. CASE SendTstp
  <2>1. /\ pending' = pending \cup {"TSTP"}
        /\ UNCHANGED <<armed, fifo, writer, fed, used>>
    BY <1>3 DEF SendTstp, input
  <2>2. TypeOK'
    BY <1>1, <2>1 DEF IInv, TypeOK, Signals
  <2>3. StartInv' /\ AlarmLives'
    BY <1>1, <2>1 DEF IInv, StartInv, AlarmLives
  <2> QED  BY <1>2, <2>2, <2>3 DEF IInv
<1>4. CASE AlarmFires
  <2>1. /\ armed /\ armed' = FALSE /\ pending' = pending \cup {"ALRM"}
        /\ UNCHANGED <<fifo, writer, fed, used>>
    BY <1>4 DEF AlarmFires, input
  <2>2. TypeOK'
    BY <1>1, <2>1 DEF IInv, TypeOK, Signals
  <2>3. StartInv' /\ AlarmLives'
    BY <1>1, <2>1 DEF IInv, StartInv, AlarmLives
  <2> QED  BY <1>2, <2>2, <2>3 DEF IInv
<1>5. CASE Feed \/ \E t \in Subs : CloseFifo(t)
  <2>1. UNCHANGED <<armed, pending>>
    BY <1>5 DEF Feed, OpenFifo, Write, CloseFifo, signals
  <2>2. InputOK
    BY DEF IInv, TypeOK, InputOK
  <2>3. InputOK'
    <3>1. CASE \E t \in Subs : OpenFifo(t) \/ CloseFifo(t)
      BY <2>2, <3>1 DEF OpenFifo, CloseFifo, InputOK
    <3>2. CASE \E t \in Subs, n \in Numbers : Write(t, n)
      BY <2>2, <3>2 DEF Write, InputOK
    <3> QED  BY <1>5, <3>1, <3>2 DEF Feed
  <2>4. TypeOK'
    BY <1>1, <2>1, <2>3 DEF IInv, TypeOK, InputOK
  <2>5. StartInv' /\ AlarmLives'
    BY <1>1, <2>1 DEF IInv, StartInv, AlarmLives
  <2> QED  BY <1>2, <2>4, <2>5 DEF IInv
<1> QED  BY <1>3, <1>4, <1>5
-----------------------------------------------------------------------------
(* The theorems.                                                           *)

LEMMA Initially == Init => IInv
<1> SUFFICES ASSUME Init PROVE IInv
  OBVIOUS
<1> USE DEF Init
<1> DEFINE S == {t \in Threads : Arg[t] >= 0}
<1>1. /\ rq \in Seq(Threads) /\ Members(rq) = Members(Creation) \cap S /\ Distinct(rq)
  <2>1. Creation \in Seq(Threads) /\ Distinct(Creation)
    BY CreationAssumption DEF Distinct
  <2> QED  BY <2>1, PickedFacts
<1>2. Members(Creation) \cap S = Created
  BY CreationAssumption DEF Members, Created
<1>3. wq = <<>> /\ Members(wq) = {} /\ Distinct(wq) /\ Leaving = {}
  BY DEF Members, Distinct, Leaving
<1>4. PICK junk \in Numbers :
        tcb = [t \in Threads |-> [arg |-> Arg[t], i |-> 0, x |-> 0, y |-> 0, buf |-> junk]]
  OBVIOUS
<1>5. tcb \in [Threads -> Tcb] /\ BufInv
  <2>1. junk \in Int /\ 0 \in 0..MaxLoops
    BY NumbersAssumption, BoundsAssumption
  <2>2. \A t \in Threads : Arg[t] \in Int
    BY ArgAssumption
  <2> QED  BY <1>4, <2>1, <2>2 DEF BufInv, Tcb
<1>6. TypeOK
  <2>1. fifo \in [Subs -> Seq(Numbers)] /\ fed \in [Subs -> Seq(Numbers)] /\ used \in [Subs -> Seq(Numbers)]
    OBVIOUS
  <2>2. /\ wq \in Seq(Threads) /\ cur \in Nat /\ cause \in 0..3
        /\ env \in [Threads -> {"setup", "yield", "read"}]
        /\ writer \in [Subs -> {"never", "open", "closed"}]
    OBVIOUS
  <2>3. /\ pc = "start" /\ exited = {} /\ mask = Signals /\ pending = {} /\ armed = FALSE
    OBVIOUS
  <2>4. armed \in BOOLEAN
    BY <2>3
  <2>5. /\ exited \subseteq Created /\ mask \subseteq Signals /\ pending \subseteq Signals
    BY <2>3
  <2> HIDE DEF Init
  <2> QED  BY <1>1, <1>5, <2>1, <2>2, <2>3, <2>4, <2>5 DEF TypeOK
<1>7. QueuesInv
  BY <1>1, <1>2, <1>3 DEF QueuesInv
<1>8. EnvInv
  BY <1>3 DEF EnvInv, ResumesInPlace, InThread
<1>9. StartInv /\ SignalsBlocked /\ AlarmLives
  BY DEF StartInv, SignalsBlocked, AlarmLives
<1> QED  BY <1>5, <1>6, <1>7, <1>8, <1>9 DEF IInv

LEMMA Stuttering ==
  ASSUME IInv, UNCHANGED vars
  PROVE  IInv'
<1>1. UNCHANGED <<pc, cause, rq, wq, cur, env, tcb, exited, mask, pending, armed,
                  fifo, writer, fed, used>>
  BY DEF vars, queues, signals, input
<1>2. QueuesInv' /\ EnvInv' /\ BufInv'
  BY <1>1, QueuesStay
<1>3. TypeOK'
  BY <1>1 DEF IInv, TypeOK
<1> QED  BY <1>1, <1>2, <1>3 DEF IInv, StartInv, SignalsBlocked, AlarmLives

\* The invariant on which the others rest.
THEOREM Invariance ==
  ASSUME OneReader
  PROVE  Spec => []IInv
<1>1. ASSUME IInv, [Next]_vars  PROVE IInv'
  <2>1. CASE Start \/ Schedule \/ Idle
    BY <1>1, <2>1, Switches
  <2>2. CASE Iterate
    BY <1>1, <2>2, Iterates
  <2>3. CASE AsyncRead
    BY <1>1, <2>3, StartsReading
  <2>4. CASE ReadAndIterate
    BY <1>1, <2>4, Reads
  <2>5. CASE CloseTstpWindow \/ CloseAlrmWindow
    BY <1>1, <2>5, WindowsClose
  <2>6. CASE \E s \in Signals : Sighandler(s)
    BY <1>1, <2>6, Handles
  <2>7. CASE SendTstp \/ AlarmFires \/ Feed \/ \E t \in Subs : CloseFifo(t)
    BY <1>1, <2>7, Outside
  <2>8. CASE UNCHANGED vars
    BY <1>1, <2>8, Stuttering
  <2> QED  BY <1>1, <2>1, <2>2, <2>3, <2>4, <2>5, <2>6, <2>7, <2>8 DEF Next, Process
<1> QED  BY <1>1, Initially, PTL DEF Spec

(* Every variable has its type, tcb included.                              *)
THEOREM TypeCorrect ==
  ASSUME OneReader
  PROVE  Spec => []TypeOK
<1>1. IInv => TypeOK
  BY DEF IInv
<1>2. Spec => []IInv
  BY Invariance
<1> QED  BY <1>1, <1>2, PTL

(* Every thread that has not exited is in one entry of one queue, whatever *)
(* order the threads and their one reader read, exit and wake up in        *)
(* (scheduler.c 40-82).                                                    *)
THEOREM Kept ==
  ASSUME OneReader
  PROVE  Spec => []NoThreadLost
<1>1. ASSUME NEW q \in Seq(Threads), Distinct(q)
      PROVE  Cardinality(Members(q)) = Len(q)
  <2>1. q \in [1..Len(q) -> Members(q)] /\ Len(q) \in Nat
    BY DEF Members
  <2>2. \A x \in Members(q) : \E n \in 1..Len(q) : q[n] = x
    BY DEF Members
  <2>3. \A m, n \in 1..Len(q) : q[m] = q[n] => m = n
    BY <1>1 DEF Distinct
  <2>4. q \in Bijection(1..Len(q), Members(q))
    BY <2>1, <2>2, <2>3, Fun_IsBij
  <2> QED  BY <2>1, <2>4, FS_CountingElements DEF ExistsBijection
<1>2. IInv => NoThreadLost
  BY <1>1 DEF IInv, TypeOK, QueuesInv, NoThreadLost
<1>3. Spec => []IInv
  BY Invariance
<1> QED  BY <1>2, <1>3, PTL

(* A jump takes a thread to the setjmp it last executed (threadtools.h     *)
(* 79-98).                                                                 *)
THEOREM InPlace ==
  ASSUME OneReader
  PROVE  Spec => []ResumesInPlace
<1>1. IInv => ResumesInPlace
  BY DEF IInv, EnvInv
<1>2. Spec => []IInv
  BY Invariance
<1> QED  BY <1>1, <1>2, PTL

(* The scheduler and the loop bodies run with both signals blocked, each   *)
(* window with one (scheduler.c 24, threadtools.h 81-83).                  *)
THEOREM Blocked ==
  ASSUME OneReader
  PROVE  Spec => []SignalsBlocked
<1>1. IInv => SignalsBlocked
  BY DEF IInv
<1>2. Spec => []IInv
  BY Invariance
<1> QED  BY <1>1, <1>2, PTL

(* An alarm is running or waits to be delivered, never both and never      *)
(* neither (scheduler.c 18).                                               *)
THEOREM Ticks ==
  ASSUME OneReader
  PROVE  Spec => []AlarmLives
<1>1. IInv => AlarmLives
  BY DEF IInv
<1>2. Spec => []IInv
  BY Invariance
<1> QED  BY <1>1, <1>2, PTL

(* With one reader and a thread to start with, longjmp always finds a      *)
(* thread (scheduler.c 30, 83-119).                                        *)
THEOREM Landings ==
  ASSUME OneReader, Created # {}
  PROVE  Spec => []NoNullJump
<1>1. Init => NoNullJump
  BY DEF Init, NoNullJump
<1>2. ASSUME IInv, IInv', NoNullJump, [Next]_vars  PROVE NoNullJump'
  <2>1. CASE Start \/ Schedule \/ Idle
    <3> SUFFICES ASSUME pc' = "crash" PROVE FALSE
      BY DEF NoNullJump
    <3>1. CASE rq' = <<>> /\ pc = "start"
      <4>1. rq = <<>> /\ wq = <<>> /\ exited = {}
        BY <1>2, <2>1, <3>1 DEF Start, Schedule, Idle, queues, IInv, StartInv
      <4>2. Members(rq) \cup Members(wq) = {}
        BY <4>1 DEF Members
      <4> QED  BY <1>2, <3>1, <4>1, <4>2 DEF IInv, QueuesInv
    <3>2. CASE wq' # <<>> /\ Len(wq') # 1
      <4>1. wq' \in Seq(Threads) /\ Distinct(wq') /\ \A t \in Members(wq') : t \in Subs
        BY <1>2 DEF IInv, TypeOK, QueuesInv, EnvInv, ResumesInPlace
      <4>2. 1 \in 1..Len(wq') /\ 2 \in 1..Len(wq')
        <5> DEFINE n == Len(wq')
        <5>1. n \in Nat /\ n # 0 /\ n # 1
          BY <3>2, <4>1
        <5> HIDE DEF n
        <5>2. 1 \in 1..n /\ 2 \in 1..n
          BY <5>1
        <5> QED  BY <5>2 DEF n
      <4>3. wq'[1] \in Members(wq') /\ wq'[2] \in Members(wq')
        BY <4>2 DEF Members
      <4>4. wq'[1] = wq'[2]
        <5>1. Members(wq)' \subseteq Created
          BY <1>2 DEF IInv, TypeOK, QueuesInv, Leaving
        <5> QED  BY <4>1, <4>3, <5>1 DEF OneReader
      <4> QED  BY <4>1, <4>2, <4>4 DEF Distinct
    <3> QED  BY <1>2, <2>1, <3>1, <3>2, Switches
  <2>2. CASE Iterate \/ AsyncRead \/ ReadAndIterate \/ CloseTstpWindow \/ CloseAlrmWindow
    BY <2>2 DEF Iterate, AsyncRead, ReadAndIterate, CloseTstpWindow, CloseAlrmWindow,
                ExitOrYield, CallScheduler, NoNullJump
  <2>3. CASE \E s \in Signals : Sighandler(s)
    BY <2>3 DEF Sighandler, CallScheduler, NoNullJump
  <2>4. CASE SendTstp \/ AlarmFires \/ Feed \/ \E t \in Subs : CloseFifo(t)
    <3>1. pc' = pc
      BY <2>4 DEF SendTstp, AlarmFires, Feed, OpenFifo, Write, CloseFifo
    <3> QED  BY <1>2, <3>1 DEF NoNullJump
  <2>5. CASE UNCHANGED vars
    BY <1>2, <2>5 DEF vars, NoNullJump
  <2> QED  BY <1>2, <2>1, <2>2, <2>3, <2>4, <2>5 DEF Next, Process
<1>3. Spec => []IInv
  BY Invariance
<1> QED  BY <1>1, <1>2, <1>3, PTL DEF Spec
-----------------------------------------------------------------------------
(* The queues implement the three states of a thread.                      *)

\* A switch in which the threads woken leave the waiting queue.
LEMMA OneSwitch ==
  ASSUME NEW woken \in SUBSET Members(wq),
         NEW blocks \in SUBSET runningBar, NEW exits \in SUBSET runningBar,
         blocks \cap exits = {},
         Members(rq)' = (Members(rq) \ runningBar) \cup woken \cup (runningBar \ (blocks \cup exits)),
         Members(wq)' = (Members(wq) \ woken) \cup blocks,
         (exited \ Leaving)' = (exited \ Leaving) \cup exits,
         \/ Members(rq)' = {} /\ runningBar' = {}
         \/ \E t \in Members(rq)' : runningBar' = {t}
  PROVE  States!Switch
BY DEF States!Switch

LEMMA SwitchesImplement ==
  ASSUME OneReader, IInv, IInv', Start \/ Schedule \/ Idle
  PROVE  States!Switch
<1>1. \/ Members(rq)' = {} /\ runningBar' = {}
      \/ \E t \in Members(rq)' : runningBar' = {t}
  <2>1. CASE rq' = <<>>
    <3>1. Members(rq)' = {}
      BY <2>1 DEF Members
    <3>2. ~(InThread' \/ pc' = "sched")
      <4>1. cur' \in Nat /\ Len(rq') = 0
        BY <2>1 DEF IInv, TypeOK
      <4>2. InThread' \/ pc' = "sched" => cur' < Len(rq')
        BY DEF IInv, EnvInv, ResumesInPlace
      <4> QED  BY <4>1, <4>2
    <3> QED  BY <3>1, <3>2 DEF runningBar
  <2>2. CASE rq' # <<>>
    <3>1. pc' \in {"setup", "yield", "read"}
      BY <2>2, Switches
    <3>2. InThread'
      BY <3>1 DEF InThread
    <3>3. rq' \in Seq(Threads) /\ cur' \in Nat /\ cur' < Len(rq')
      BY <3>2 DEF IInv, TypeOK, EnvInv, ResumesInPlace
    <3>4. Running' \in Members(rq)'
      BY <3>3 DEF Running, Members
    <3> QED  BY <3>2, <3>4 DEF runningBar
  <2> QED  BY <2>1, <2>2
<1>9. (exited \ Leaving)' = exited
  <2>1. pc' # "sched"
    <3>1. CASE rq' = <<>>
      <4>1. cur' \in Nat /\ Len(rq') = 0
        BY <3>1 DEF IInv, TypeOK
      <4>2. pc' = "sched" => cur' < Len(rq')
        BY DEF IInv, EnvInv, ResumesInPlace
      <4> QED  BY <4>1, <4>2
    <3>2. CASE rq' # <<>>
      BY <3>2, Switches
    <3> QED  BY <3>1, <3>2
  <2>2. exited' = exited
    BY DEF Start, Schedule, Idle
  <2> QED  BY <2>1, <2>2 DEF Leaving
<1>2. CASE Start
  <2>1. runningBar = {} /\ UNCHANGED <<rq, wq>>
    BY <1>2 DEF Start, runningBar, InThread, queues
  <2>2. Members(rq)' = Members(rq) /\ Members(wq)' = Members(wq)
    BY <2>1 DEF Members
  <2>3. {} \in SUBSET Members(wq) /\ {} \in SUBSET runningBar
    OBVIOUS
  <2>4. Leaving = {}
    BY <1>2 DEF Start, Leaving
  <2> QED  BY <1>1, <1>9, <2>1, <2>2, <2>3, <2>4, OneSwitch
<1> DEFINE woken == Members(Woken)
<1>3. CASE Schedule
  <2>1. /\ pc = "sched" /\ cause \in {1, 2, 3} /\ runningBar = {Running}
        /\ IF cause = 1 THEN Rotate ELSE Depart
    BY <1>3 DEF Schedule, runningBar, IInv, EnvInv
  <2>2. /\ woken \in SUBSET Members(wq) /\ Members(Asleep) = Members(wq) \ woken
        /\ Running \in Members(rq) /\ Running \notin Members(wq)
    BY <2>1, WokenFacts, RunningFacts DEF IInv
  <2> HIDE DEF woken
  <2>3. CASE cause = 1
    <3>1. /\ Members(rq)' = (Members(rq) \ runningBar) \cup woken \cup (runningBar \ ({} \cup {}))
          /\ Members(wq)' = (Members(wq) \ woken) \cup {}
      BY <2>1, <2>2, <2>3, Rotated DEF IInv, woken
    <3>2. {} \in SUBSET runningBar /\ {} \cap {} = {}
      OBVIOUS
    <3>3. (exited \ Leaving)' = (exited \ Leaving) \cup {}
      BY <1>9, <2>3 DEF Leaving
    <3> QED  BY <1>1, <2>2, <3>1, <3>2, <3>3, OneSwitch
  <2>4. CASE cause \in {2, 3}
    <3> DEFINE blocks == IF cause = 2 THEN {Running} ELSE {}
               exits  == IF cause = 3 THEN {Running} ELSE {}
    <3>1. blocks \in SUBSET runningBar /\ exits \in SUBSET runningBar /\ blocks \cap exits = {}
      BY <2>1
    <3>2. runningBar \ (blocks \cup exits) = {}
      BY <2>1, <2>4
    <3>3. (exited \ Leaving)' = (exited \ Leaving) \cup exits
      <4>1. Leaving = exits /\ Leaving \subseteq exited
        BY <2>1 DEF Leaving, IInv, QueuesInv
      <4> HIDE DEF exits
      <4> QED  BY <1>9, <4>1
    <3>4. Members(wq)' = (Members(wq) \ woken) \cup blocks
      BY <2>1, <2>2, <2>4, Departed DEF IInv, woken
    <3> HIDE DEF blocks, exits
    <3>5. Members(rq)' = (Members(rq) \ runningBar) \cup woken \cup (runningBar \ (blocks \cup exits))
      BY <2>1, <2>2, <2>4, <3>2, Departed DEF IInv, woken
    <3> QED  BY <1>1, <2>2, <3>1, <3>3, <3>4, <3>5, OneSwitch
  <2> QED  BY <2>1, <2>3, <2>4
<1>4. CASE Idle
  <2>1. /\ pc = "idle" /\ rq = <<>> /\ rq' = Woken /\ wq' = Asleep
        /\ runningBar = {} /\ Members(rq) = {}
    BY <1>4 DEF Idle, runningBar, InThread, IInv, QueuesInv, Members
  <2>2. woken \in SUBSET Members(wq) /\ Members(Asleep) = Members(wq) \ woken
    BY WokenFacts DEF IInv
  <2>3. /\ Members(rq)' = (Members(rq) \ runningBar) \cup woken \cup (runningBar \ ({} \cup {}))
        /\ Members(wq)' = (Members(wq) \ woken) \cup {}
    BY <2>1, <2>2
  <2>4. {} \in SUBSET runningBar /\ {} \cap {} = {}
    OBVIOUS
  <2>5. (exited \ Leaving)' = (exited \ Leaving) \cup {}
    BY <1>9, <2>1 DEF Leaving
  <2> HIDE DEF woken
  <2> QED  BY <1>1, <2>2, <2>3, <2>4, <2>5, OneSwitch
<1> QED  BY <1>2, <1>3, <1>4

LEMMA OthersStutter ==
  ASSUME IInv, Next, ~Start, ~Schedule, ~Idle
  PROVE  UNCHANGED States!vars
<1>1. /\ UNCHANGED <<rq, wq, cur>>
      /\ \/ InThread /\ (InThread' \/ pc' = "sched")
         \/ pc' = pc
  <2>1. CASE Iterate \/ AsyncRead \/ ReadAndIterate
    BY <2>1 DEF Iterate, AsyncRead, ReadAndIterate, ExitOrYield, CallScheduler, InThread, queues
  <2>2. CASE CloseTstpWindow \/ CloseAlrmWindow
    BY <2>2 DEF CloseTstpWindow, CloseAlrmWindow, InThread, queues
  <2>3. CASE \E s \in Signals : Sighandler(s)
    <3>1. mask # Signals /\ pc' = "sched" /\ UNCHANGED <<rq, wq, cur>>
      BY <2>3 DEF Sighandler, CallScheduler, queues
    <3>2. pc \in {"tstp_window", "alrm_window"}
      BY <3>1 DEF IInv, SignalsBlocked
    <3> QED  BY <3>1, <3>2 DEF InThread
  <2>4. CASE SendTstp \/ AlarmFires \/ Feed \/ \E t \in Subs : CloseFifo(t)
    BY <2>4 DEF SendTstp, AlarmFires, Feed, OpenFifo, Write, CloseFifo, queues
  <2> QED  BY <2>1, <2>2, <2>3, <2>4 DEF Next, Process
<1>2. Members(rq)' = Members(rq) /\ Members(wq)' = Members(wq) /\ Running' = Running
  BY <1>1 DEF Members, Running
<1>3. runningBar' = runningBar
  BY <1>1, <1>2 DEF runningBar, InThread
<1>4. (exited \ Leaving)' = exited \ Leaving
  <2>1. CASE Iterate \/ ReadAndIterate
    <3>1. InThread /\ pc # "sched"
      BY <2>1 DEF Iterate, ReadAndIterate, InThread
    <3>2. Running \notin exited /\ Leaving = {}
      BY <3>1, RunningFacts DEF IInv, Leaving
    <3>3. \/ exited' = exited \cup {Running} /\ pc' = "sched" /\ cause' = 3
          \/ exited' = exited /\ pc' = "tstp_window"
      BY <2>1 DEF Iterate, ReadAndIterate, ExitOrYield, CallScheduler
    <3> HIDE DEF Running
    <3> QED  BY <1>2, <3>2, <3>3 DEF Leaving
  <2>2. CASE AsyncRead
    BY <2>2 DEF AsyncRead, CallScheduler, Leaving
  <2>3. CASE CloseTstpWindow \/ CloseAlrmWindow
    BY <2>3 DEF CloseTstpWindow, CloseAlrmWindow, Leaving
  <2>4. CASE \E s \in Signals : Sighandler(s)
    <3>1. mask # Signals /\ pc' = "sched" /\ cause' = 1 /\ exited' = exited
      BY <2>4 DEF Sighandler, CallScheduler
    <3>2. pc # "sched"
      BY <3>1 DEF IInv, SignalsBlocked
    <3> QED  BY <3>1, <3>2 DEF Leaving
  <2>5. CASE SendTstp \/ AlarmFires \/ Feed \/ \E t \in Subs : CloseFifo(t)
    <3>1. UNCHANGED <<pc, cause, exited>>
      BY <2>5 DEF SendTstp, AlarmFires, Feed, OpenFifo, Write, CloseFifo
    <3> QED  BY <1>2, <3>1 DEF Leaving
  <2> QED  BY <2>1, <2>2, <2>3, <2>4, <2>5 DEF Next, Process
<1> QED  BY <1>2, <1>3, <1>4 DEF States!vars

(* Each thread is running, ready, waiting or gone, only the scheduler moves *)
(* it from one to another and it forgets none, and the processor is idle    *)
(* only when no thread is ready (README.md 29-32, scheduler.c 26-127).      *)
THEOREM Implements ==
  ASSUME OneReader
  PROVE  Spec => States!Init /\ [][States!Switch]_States!vars
<1>1. Init => States!Init
  <2> SUFFICES ASSUME Init PROVE States!Init
    OBVIOUS
  <2>1. IInv
    BY Initially
  <2>2. rq \in Seq(Threads) /\ Members(wq) = {} /\ runningBar = {}
    BY <2>1 DEF Init, IInv, TypeOK, Members, runningBar, InThread
  <2>3. Members(rq) \subseteq Threads
    BY <2>2 DEF Members
  <2>4. exited \ Leaving = {}
    BY DEF Init
  <2> QED  BY <2>2, <2>3, <2>4 DEF States!Init
<1>2. ASSUME IInv, IInv', [Next]_vars  PROVE [States!Switch]_States!vars
  <2>1. CASE Start \/ Schedule \/ Idle
    BY <1>2, <2>1, SwitchesImplement
  <2>2. CASE Next /\ ~(Start \/ Schedule \/ Idle)
    BY <1>2, <2>2, OthersStutter
  <2>3. CASE UNCHANGED vars
    <3>1. UNCHANGED <<pc, cause, rq, wq, cur, exited>>
      BY <2>3 DEF vars, queues
    <3> QED  BY <3>1 DEF States!vars, Members, runningBar, InThread, Running, Leaving
  <2> QED  BY <1>2, <2>1, <2>2, <2>3
<1>3. Spec => []IInv
  BY Invariance
<1> QED  BY <1>1, <1>2, <1>3, PTL DEF Spec
-----------------------------------------------------------------------------
(* Input.  A reader in the ready queue has something to read when it comes *)
(* back to async_read, because select said so when it was woken.           *)

\* Reader t has been woken, or is reading, inside async_read.
Served(t) == /\ env[t] = "read" /\ t \in Members(rq) /\ t \notin exited
             /\ ~(pc = "sched" /\ cause = 2 /\ t = Running)

\* Where reader t is in its loop of Arg[t] iterations.
Counted(t) == /\ tcb[t].arg = Arg[t]
              /\ t \notin exited /\ env[t] = "read" => tcb[t].i \in 1..Arg[t]
              /\ t \notin exited /\ env[t] = "yield" => tcb[t].i \in 1..(Arg[t] - 1)

ReadsOK(t) == /\ writer[t] # "closed" /\ used[t] \o fifo[t] = fed[t]
              /\ Counted(t) /\ (Served(t) => fifo[t] # <<>>)

ReadInv == \A t \in Subs : ReadsOK(t)

LEMMA Consumed ==
  ASSUME NEW u \in Seq(Numbers), NEW f \in Seq(Numbers), f # <<>>
  PROVE  Append(u, Head(f)) \o Tail(f) = u \o f
<1> DEFINE v == Append(u, Head(f)) \o Tail(f)
           w == u \o f
<1>1. /\ Len(u) \in Nat /\ Len(f) \in Nat \ {0} /\ Head(f) = f[1] /\ Head(f) \in Numbers
      /\ Tail(f) \in Seq(Numbers) /\ Len(Tail(f)) = Len(f) - 1
      /\ \A n \in 1..(Len(f) - 1) : Tail(f)[n] = f[n + 1]
  OBVIOUS
<1>2. /\ Append(u, Head(f)) \in Seq(Numbers) /\ Len(Append(u, Head(f))) = Len(u) + 1
      /\ \A n \in 1..Len(u) : Append(u, Head(f))[n] = u[n]
      /\ Append(u, Head(f))[Len(u) + 1] = f[1]
  BY <1>1
<1>3. /\ v \in Seq(Numbers) /\ Len(v) = Len(u) + Len(f)
      /\ w \in Seq(Numbers) /\ Len(w) = Len(u) + Len(f)
  BY <1>1, <1>2
<1>4. \A n \in 1..(Len(u) + Len(f)) : v[n] = w[n]
  <2> TAKE n \in 1..(Len(u) + Len(f))
  <2>1. CASE n \in 1..Len(u)
    BY <1>1, <1>2, <2>1
  <2>2. CASE n = Len(u) + 1
    BY <1>1, <1>2, <2>2
  <2>3. CASE n > Len(u) + 1
    <3>1. n - (Len(u) + 1) \in 1..(Len(f) - 1) /\ n - Len(u) \in 1..Len(f)
      BY <1>1, <2>3
    <3>2. v[n] = Tail(f)[n - (Len(u) + 1)] /\ w[n] = f[n - Len(u)]
      BY <1>1, <1>2, <3>1
    <3> QED  BY <1>1, <3>1, <3>2
  <2> QED  BY <1>1, <2>1, <2>2, <2>3
<1> HIDE DEF v, w
<1>5. v = w
  BY <1>1, <1>3, <1>4
<1> QED  BY <1>5 DEF v, w

LEMMA Fed ==
  ASSUME NEW u \in Seq(Numbers), NEW f \in Seq(Numbers), NEW n \in Numbers
  PROVE  u \o Append(f, n) = Append(u \o f, n) /\ Append(f, n) # <<>>
OBVIOUS

LEMMA ReadsInitially ==
  ASSUME Init PROVE ReadInv
<1> SUFFICES ASSUME NEW t \in Subs PROVE ReadsOK(t)
  BY DEF ReadInv
<1>1. t \in Threads
  BY DEF Threads
<1>2. env[t] = "setup" /\ tcb[t].arg = Arg[t]
  BY <1>1 DEF Init
<1>3. writer[t] = "never" /\ used[t] = <<>> /\ fifo[t] = <<>> /\ fed[t] = <<>>
  BY DEF Init
<1>4. <<>> \o <<>> = <<>>
  OBVIOUS
<1> QED  BY <1>2, <1>3, <1>4 DEF ReadsOK, Counted, Served

\* In the scheduler nothing is read, and who comes into the ready queue is readable.
LEMMA ReadsSwitch ==
  ASSUME OneReader, IInv, ReadInv, Start \/ Schedule \/ Idle
  PROVE  ReadInv'
<1> SUFFICES ASSUME NEW t \in Subs PROVE ReadsOK(t)'
  BY DEF ReadInv
<1>1. UNCHANGED <<env, tcb, exited, fifo, writer, fed, used>>
  BY DEF Start, Schedule, Idle, input
<1>2. ReadsOK(t)
  BY DEF ReadInv
<1>3. Counted(t)'
  BY <1>1, <1>2 DEF ReadsOK, Counted
<1>4. t \in Awake => fifo[t] # <<>>
  BY <1>2 DEF Awake, Readable, ReadsOK
<1>5. ASSUME Served(t)' PROVE Served(t) \/ t \in Awake
  <2>1. env[t] = "read" /\ t \in Members(rq)' /\ t \notin exited
    BY <1>1, <1>5 DEF Served
  <2>2. CASE Start
    <3>1. pc = "start" /\ Members(rq)' = Members(rq)
      BY <2>2 DEF Start, queues, Members
    <3> QED  BY <2>1, <3>1 DEF Served
  <2>3. CASE Schedule
    <3>1. pc = "sched" /\ cause \in {1, 2, 3} /\ IF cause = 1 THEN Rotate ELSE Depart
      BY <2>3 DEF Schedule, IInv, EnvInv
    <3>2. CASE cause = 1
      <4>1. Members(rq)' = Members(rq) \cup Members(Woken)
        BY <3>1, <3>2, Rotated DEF IInv
      <4> QED  BY <2>1, <3>2, <4>1, WokenFacts DEF Served, IInv
    <3>3. CASE cause \in {2, 3}
      <4>1. Members(rq)' = (Members(rq) \cup Members(Woken)) \ {Running}
        BY <3>1, <3>3, Departed DEF IInv
      <4> QED  BY <2>1, <4>1, WokenFacts DEF Served, IInv
    <3> QED  BY <3>1, <3>2, <3>3
  <2>4. CASE Idle
    <3>1. Members(rq)' = Members(Woken)
      BY <2>4 DEF Idle, Members
    <3> QED  BY <2>1, <3>1, WokenFacts DEF IInv
  <2> QED  BY <2>2, <2>3, <2>4
<1>6. Served(t)' => fifo[t] # <<>>
  BY <1>2, <1>4, <1>5 DEF ReadsOK
<1> QED  BY <1>1, <1>2, <1>3, <1>6 DEF ReadsOK

\* A thread's own step touches its own entries.
LEMMA ReadsBeside ==
  ASSUME IInv, ReadInv, InThread, NEW t \in Subs, t # Running,
         UNCHANGED <<rq, cur>>,
         env'[t] = env[t], tcb'[t] = tcb[t], t \in exited' <=> t \in exited,
         fifo'[t] = fifo[t], writer'[t] = writer[t], fed'[t] = fed[t], used'[t] = used[t]
  PROVE  ReadsOK(t)'
<1>1. Members(rq)' = Members(rq) /\ pc # "sched"
  BY DEF Members, InThread
<1>2. Served(t)' => Served(t)
  BY <1>1 DEF Served
<1> QED  BY <1>2 DEF ReadInv, ReadsOK, Counted

LEMMA ReadsIterate ==
  ASSUME IInv, ReadInv, Iterate
  PROVE  ReadInv'
<1> DEFINE b == Body(Running, LoopHead(Running))
<1> SUFFICES ASSUME NEW t \in Subs PROVE ReadsOK(t)'
  BY DEF ReadInv
<1>1. /\ pc \in {"setup", "yield", "read"} /\ ExitOrYield(Running, b) /\ t # Running /\ InThread
      /\ UNCHANGED <<rq, cur, fifo, writer, fed, used>>
  BY DEF Iterate, queues, input, InThread
<1>2. Running \in Threads /\ t \in Threads
  BY <1>1, RunningFacts DEF IInv, Threads
<1>3. tcb \in [Threads -> Tcb] /\ env \in [Threads -> {"setup", "yield", "read"}]
  BY DEF IInv, TypeOK
<1> HIDE DEF b, Running
<1>4. env'[t] = env[t] /\ tcb'[t] = tcb[t] /\ (t \in exited' <=> t \in exited)
  BY <1>1, <1>2, <1>3 DEF ExitOrYield
<1> QED  BY <1>1, <1>4, ReadsBeside

LEMMA ReadsStart ==
  ASSUME IInv, ReadInv, \A t \in Subs : Arg[t] # 0, AsyncRead
  PROVE  ReadInv'
<1> SUFFICES ASSUME NEW t \in Subs PROVE ReadsOK(t)'
  BY DEF ReadInv
<1>1. /\ pc \in {"setup", "yield"} /\ Running \in Subs /\ InThread
      /\ tcb' = [tcb EXCEPT ![Running] = LoopHead(Running)]
      /\ env' = [env EXCEPT ![Running] = "read"]
      /\ pc' = "sched" /\ cause' = 2
      /\ UNCHANGED <<rq, cur, exited, fifo, writer, fed, used>>
  BY DEF AsyncRead, CallScheduler, queues, input, InThread
<1>2. /\ Running \in Threads /\ t \in Threads /\ Running' = Running
      /\ Running \in Created /\ Running \notin exited /\ env[Running] = pc
  BY <1>1, RunningFacts DEF IInv, EnvInv, Threads, Running
<1>3. tcb \in [Threads -> Tcb] /\ env \in [Threads -> {"setup", "yield", "read"}]
  BY DEF IInv, TypeOK
<1>4. Running \in Created => Arg[Running] >= 0
  BY DEF Created
<1>5. Arg[Running] \in Nat \ {0} /\ Arg[Running] < MaxLoops /\ MaxLoops \in Nat
  BY <1>1, <1>2, <1>4, ArgAssumption, BoundsAssumption
<1> HIDE DEF Running
<1>6. CASE t # Running
  BY <1>1, <1>2, <1>3, <1>6, ReadsBeside
<1>7. CASE t = Running
  <2>1. tcb'[t] = LoopHead(t) /\ env'[t] = "read" /\ t \notin exited'
    BY <1>1, <1>2, <1>3, <1>7
  <2>2. ReadsOK(t)
    BY DEF ReadInv
  <2>3. tcb[t] \in Tcb /\ tcb[t].arg = Arg[t] /\ (pc = "yield" => tcb[t].i \in 1..(Arg[t] - 1))
    BY <1>2, <1>3, <1>7, <2>2 DEF ReadsOK, Counted
  <2>4. LoopHead(t).arg = Arg[t] /\ LoopHead(t).i \in 1..Arg[t]
    <3>1. CASE pc = "setup"
      BY <1>5, <1>7, <2>3, <3>1 DEF LoopHead, Tcb
    <3>2. CASE pc = "yield"
      BY <1>5, <1>7, <2>3, <3>2 DEF LoopHead, Count, Tcb
    <3> QED  BY <1>1, <3>1, <3>2
  <2>5. Counted(t)'
    BY <2>1, <2>4 DEF Counted
  <2>6. ~Served(t)'
    BY <1>1, <1>2, <1>7 DEF Served
  <2> QED  BY <1>1, <2>2, <2>5, <2>6 DEF ReadsOK
<1> QED  BY <1>6, <1>7

LEMMA ReadsRead ==
  ASSUME IInv, ReadInv, \A t \in Subs : Arg[t] # 0, ReadAndIterate
  PROVE  ReadInv'
<1> DEFINE r == Running
           b == Read(r, tcb[r])
           c == Body(r, b)
<1> SUFFICES ASSUME NEW t \in Subs PROVE ReadsOK(t)'
  BY DEF ReadInv
<1>1. /\ pc = "read" /\ InThread /\ ExitOrYield(r, c)
      /\ UNCHANGED <<rq, cur, writer, fed>>
      /\ fifo' = [fifo EXCEPT ![r] = IF @ = <<>> THEN @ ELSE Tail(@)]
      /\ used' = IF b.i = MaxLoops THEN used ELSE [used EXCEPT ![r] = Append(@, b.buf)]
  BY DEF ReadAndIterate, queues, InThread
<1>2. /\ r \in Threads /\ t \in Threads /\ r \in Subs /\ r' = r /\ r \in Members(rq)
      /\ r \in Created /\ r \notin exited /\ env[r] = "read"
  BY <1>1, RunningFacts DEF IInv, EnvInv, Threads, Running
<1>3. /\ tcb \in [Threads -> Tcb] /\ env \in [Threads -> {"setup", "yield", "read"}]
      /\ fifo \in [Subs -> Seq(Numbers)] /\ used \in [Subs -> Seq(Numbers)]
  BY DEF IInv, TypeOK
<1>4. Arg[r] < MaxLoops /\ MaxLoops \in Nat /\ Arg[r] \in Int
  BY <1>2, ArgAssumption, BoundsAssumption
<1> HIDE DEF r
<1>5. ReadsOK(r) /\ Served(r)
  BY <1>1, <1>2 DEF ReadInv, Served
<1>6. fifo[r] # <<>> /\ tcb[r] \in Tcb /\ tcb[r].arg = Arg[r] /\ tcb[r].i \in 1..Arg[r]
  BY <1>2, <1>3, <1>5 DEF ReadsOK, Counted
<1>7. b.buf = Head(fifo[r]) /\ b.i = tcb[r].i /\ b.arg = Arg[r] /\ b.i # MaxLoops
  BY <1>4, <1>6 DEF Read, Tcb
<1>8. b \in Tcb
  <2>1. Head(fifo[r]) \in Int
    <3>1. fifo[r] \in Seq(Numbers)
      BY <1>2, <1>3
    <3>2. \A f \in Seq(Numbers) : f # <<>> => Head(f) \in Numbers
      OBVIOUS
    <3>3. Head(fifo[r]) \in Numbers
      BY <1>6, <3>1, <3>2
    <3> QED  BY <3>3, NumbersAssumption
  <2> QED  BY <1>6, <2>1 DEF Read, Tcb
<1> HIDE DEF b
<1>9. c.i = b.i /\ c.arg = b.arg
  <2>1. r \notin Cols /\ r \notin Fibs
    BY <1>2, KindsAssumption
  <2>2. c = MaxSubarray(b)
    BY <1>7, <2>1 DEF Body
  <2> HIDE DEF c
  <2> DEFINE y == IF b.i > 1 /\ b.y > 0 THEN b.y + b.buf ELSE b.buf
             x == IF b.i = 1 THEN 0 ELSE b.x
             z == IF x < y THEN y ELSE x
  <2>3. MaxSubarray(b) = [b EXCEPT !.y = y, !.x = z]
    BY DEF MaxSubarray
  <2> HIDE DEF y, z
  <2> QED  BY <1>8, <2>2, <2>3 DEF Tcb
<1> HIDE DEF c
<1>10. used' = [used EXCEPT ![r] = Append(@, Head(fifo[r]))]
  BY <1>1, <1>7
<1>11. CASE t # r
  <2>1. env'[t] = env[t] /\ tcb'[t] = tcb[t] /\ (t \in exited' <=> t \in exited)
    BY <1>1, <1>2, <1>3, <1>11 DEF ExitOrYield
  <2>2. fifo'[t] = fifo[t] /\ used'[t] = used[t]
    BY <1>1, <1>2, <1>3, <1>10, <1>11
  <2> QED  BY <1>1, <1>11, <2>1, <2>2, ReadsBeside DEF r
<1>12. CASE t = r
  <2>1. /\ fifo'[t] = Tail(fifo[t]) /\ used'[t] = Append(used[t], Head(fifo[t]))
        /\ tcb'[t] = c
    BY <1>1, <1>2, <1>3, <1>6, <1>10, <1>12 DEF ExitOrYield
  <2>2. used'[t] \o fifo'[t] = fed'[t]
    <3>1. fifo[t] \in Seq(Numbers) /\ used[t] \in Seq(Numbers) /\ fifo[t] # <<>>
      BY <1>3, <1>6, <1>12
    <3>2. used'[t] \o fifo'[t] = used[t] \o fifo[t]
      BY <2>1, <3>1, Consumed
    <3> QED  BY <1>1, <1>5, <1>12, <3>2 DEF ReadsOK
  <2>3. \/ t \in exited'
        \/ env'[t] = "yield" /\ c.i # c.arg
    <3>1. r \notin Cols
      BY <1>2, KindsAssumption
    <3> QED  BY <1>1, <1>2, <1>3, <1>12, <3>1 DEF ExitOrYield, Finished
  <2>4. Counted(t)'
    <3>1. c.i # c.arg => c.i \in 1..(Arg[t] - 1)
      BY <1>4, <1>6, <1>7, <1>9, <1>12
    <3>2. c.arg = Arg[t]
      BY <1>7, <1>9, <1>12
    <3> QED  BY <2>1, <2>3, <3>1, <3>2 DEF Counted
  <2>5. ~Served(t)'
    BY <2>3 DEF Served
  <2> QED  BY <1>1, <1>5, <1>12, <2>2, <2>4, <2>5 DEF ReadsOK
<1> QED  BY <1>11, <1>12

LEMMA ReadsElse ==
  ASSUME IInv, ReadInv, ~WritersClose,
         \/ CloseTstpWindow \/ CloseAlrmWindow \/ \E s \in Signals : Sighandler(s)
         \/ SendTstp \/ AlarmFires \/ Feed \/ \E t \in Subs : CloseFifo(t)
         \/ UNCHANGED vars
  PROVE  ReadInv'
<1> SUFFICES ASSUME NEW t \in Subs PROVE ReadsOK(t)'
  BY DEF ReadInv
<1>1. ReadsOK(t)
  BY DEF ReadInv
<1>2. /\ UNCHANGED <<rq, cur, env, tcb, exited, used>>
      /\ (pc' = pc /\ cause' = cause) \/ (pc # "sched")
  BY DEF CloseTstpWindow, CloseAlrmWindow, SendTstp, AlarmFires, Feed, OpenFifo, Write,
         CloseFifo, vars, queues, IInv, SignalsBlocked, Sighandler
<1>3. Served(t)' => Served(t)
  <2>1. Members(rq)' = Members(rq) /\ Running' = Running
    BY <1>2 DEF Members, Running
  <2> QED  BY <1>2, <2>1 DEF Served
<1>4. Counted(t)'
  BY <1>1, <1>2 DEF ReadsOK, Counted
<1>5. CASE Feed
  <2>1. fifo \in [Subs -> Seq(Numbers)] /\ fed \in [Subs -> Seq(Numbers)]
        /\ used \in [Subs -> Seq(Numbers)] /\ writer \in [Subs -> {"never", "open", "closed"}]
    BY DEF IInv, TypeOK
  <2>2. CASE \E u \in Subs : OpenFifo(u)
    <3>1. UNCHANGED <<fifo, fed>> /\ writer'[t] # "closed"
      BY <1>1, <2>1, <2>2 DEF OpenFifo, ReadsOK
    <3> QED  BY <1>1, <1>2, <1>3, <1>4, <3>1 DEF ReadsOK
  <2>3. ASSUME NEW u \in Subs, NEW n \in Numbers, Write(u, n)  PROVE ReadsOK(t)'
    <3>1. /\ fifo' = [fifo EXCEPT ![u] = Append(@, n)] /\ fed' = [fed EXCEPT ![u] = Append(@, n)]
          /\ UNCHANGED writer
      BY <2>3 DEF Write
    <3>2. CASE t # u
      <4>1. fifo'[t] = fifo[t] /\ fed'[t] = fed[t]
        BY <2>1, <3>1, <3>2
      <4> QED  BY <1>1, <1>2, <1>3, <1>4, <3>1, <4>1 DEF ReadsOK
    <3>3. CASE t = u
      <4>1. fifo'[t] = Append(fifo[t], n) /\ fed'[t] = Append(fed[t], n)
        BY <2>1, <3>1, <3>3
      <4>2. fifo[t] \in Seq(Numbers) /\ used[t] \in Seq(Numbers)
        BY <2>1
      <4>3. used[t] \o fifo'[t] = fed'[t] /\ fifo'[t] # <<>>
        <5>1. /\ used[t] \o Append(fifo[t], n) = Append(used[t] \o fifo[t], n)
              /\ Append(fifo[t], n) # <<>>
          BY <4>2, Fed
        <5>2. used[t] \o fifo[t] = fed[t]
          BY <1>1 DEF ReadsOK
        <5> QED  BY <4>1, <5>1, <5>2
      <4> QED  BY <1>1, <1>2, <1>4, <3>1, <4>3 DEF ReadsOK
    <3> QED  BY <3>2, <3>3
  <2> QED  BY <1>5, <2>2, <2>3 DEF Feed
<1>6. CASE ~Feed
  <2>1. UNCHANGED <<fifo, writer, fed>>
    BY <1>6 DEF CloseTstpWindow, CloseAlrmWindow, SendTstp, AlarmFires, CloseFifo, vars,
                input, Sighandler
  <2> QED  BY <1>1, <1>2, <1>3, <1>4, <2>1 DEF ReadsOK
<1> QED  BY <1>5, <1>6

LEMMA ReadsAlways ==
  ASSUME OneReader, \A t \in Subs : Arg[t] # 0, ~WritersClose
  PROVE  Spec => [](IInv /\ ReadInv)
<1>1. Init => ReadInv
  BY ReadsInitially
<1>2. ASSUME IInv, ReadInv, [Next]_vars  PROVE ReadInv'
  BY <1>2, ReadsSwitch, ReadsIterate, ReadsStart, ReadsRead, ReadsElse DEF Next, Process
<1>3. Spec => []IInv
  BY Invariance
<1> QED  BY <1>1, <1>2, <1>3, PTL DEF Spec

(* With writers that stay, and a reader that is to end, each number of its *)
(* FIFO is taken once and in order, however often the reader sleeps        *)
(* between two of them (threadtools.h 87-98, threads.c 58-82).             *)
THEOREM InOrder ==
  ASSUME OneReader, \A t \in Subs : Arg[t] # 0
  PROVE  Spec => []InputInOrder
<1>1. CASE WritersClose
  <2>1. IInv => InputInOrder
    BY <1>1 DEF InputInOrder
  <2>2. Spec => []IInv
    BY Invariance
  <2> QED  BY <2>1, <2>2, PTL
<1>2. CASE ~WritersClose
  <2>1. ReadInv => InputInOrder
    BY DEF ReadInv, ReadsOK, InputInOrder
  <2>2. Spec => [](IInv /\ ReadInv)
    BY <1>2, ReadsAlways
  <2> QED  BY <2>1, <2>2, PTL
<1> QED  BY <1>1, <1>2

(* With writers that stay, a reader in the ready queue has the input       *)
(* select promised until it reads it, however many switches and signals    *)
(* come between (README.md 26, scheduler.c 40-45, threadtools.h 92-94).    *)
THEOREM Supplied ==
  ASSUME OneReader, \A t \in Subs : Arg[t] # 0
  PROVE  Spec => []ReadyHasInput
<1>1. CASE WritersClose
  <2>1. IInv => ReadyHasInput
    BY <1>1 DEF ReadyHasInput
  <2>2. Spec => []IInv
    BY Invariance
  <2> QED  BY <2>1, <2>2, PTL
<1>2. CASE ~WritersClose
  <2>1. ASSUME IInv, ReadInv  PROVE ReadyHasInput
    <3> SUFFICES ASSUME NEW t \in Subs, t \in Members(rq), t \notin runningBar, env[t] = "read"
                 PROVE  fifo[t] # <<>>
      BY DEF ReadyHasInput
    <3>1. t \notin Leaving /\ ~(pc = "sched" /\ cause = 2 /\ t = Running)
      BY DEF runningBar, Leaving
    <3>2. t \notin exited
      BY <2>1, <3>1 DEF IInv, QueuesInv
    <3> QED  BY <2>1, <3>1, <3>2 DEF ReadInv, ReadsOK, Served
  <2>2. Spec => [](IInv /\ ReadInv)
    BY <1>2, ReadsAlways
  <2> QED  BY <2>1, <2>2, PTL
<1> QED  BY <1>1, <1>2
-----------------------------------------------------------------------------
(* Results.  The numbers of Fibonacci and the sums of runs are recursive   *)
(* functions; these lemmas say what they are.                              *)

LEMMA Fibonaccis ==
  \A n \in 1..MaxLoops :
    FibonacciNumber[n] = IF n <= 2 THEN 1 ELSE FibonacciNumber[n - 1] + FibonacciNumber[n - 2]
<1> DEFINE V == Int \X Int
           H == [k \in 1..MaxLoops |-> [v \in V |-> <<v[2], v[1] + v[2]>>]]
           Is(F) == F = [n \in 1..MaxLoops |-> IF n <= 2 THEN 1 ELSE F[n - 1] + F[n - 2]]
<1>1. MaxLoops \in Nat
  BY BoundsAssumption
<1>2. StepsWithin(V, MaxLoops, H)
  BY DEF StepsWithin
<1>3. \A k \in 1..MaxLoops : \A v \in V : H[k][v] = <<v[2], v[1] + v[2]>>
  OBVIOUS
<1>4. <<0, 1>> \in V
  OBVIOUS
<1>5. PICK g : Follows(g, V, <<0, 1>>, MaxLoops, H)
  <2> HIDE DEF V, H
  <2> QED  BY <1>1, <1>2, <1>4, Recursion
<1>6. /\ g \in [0..MaxLoops -> V] /\ g[0] = <<0, 1>>
      /\ \A k \in 1..MaxLoops : g[k] = <<g[k - 1][2], g[k - 1][1] + g[k - 1][2]>>
  <2> HIDE DEF H
  <2>1. g \in [0..MaxLoops -> V] /\ g[0] = <<0, 1>> /\ \A k \in 1..MaxLoops : g[k] = H[k][g[k - 1]]
    BY <1>5 DEF Follows
  <2>2. \A k \in 1..MaxLoops : k - 1 \in 0..MaxLoops
    BY <1>1
  <2> QED  BY <1>3, <2>1, <2>2
<1> HIDE DEF H
<1> DEFINE f == [n \in 1..MaxLoops |-> g[n][1]]
<1>7. \A n \in 1..MaxLoops : f[n] = IF n <= 2 THEN 1 ELSE f[n - 1] + f[n - 2]
  <2> SUFFICES ASSUME NEW n \in 1..MaxLoops
               PROVE  f[n] = IF n <= 2 THEN 1 ELSE f[n - 1] + f[n - 2]
    OBVIOUS
  <2>1. f[n] = g[n][1] /\ g[n][1] = g[n - 1][2]
    BY <1>6
  <2>2. CASE n = 1
    BY <1>6, <2>1, <2>2
  <2>3. CASE n >= 2
    <3>1. n - 1 \in 1..MaxLoops /\ (n - 1) - 1 = n - 2 /\ n \in Int
      BY <1>1, <2>3
    <3>2. g[n - 1][2] = g[n - 2][1] + g[n - 2][2] /\ g[n - 1][1] = g[n - 2][2]
      BY <1>6, <3>1
    <3>3. CASE n = 2
      <4>1. g[n - 2] = <<0, 1>>
        BY <1>6, <3>3
      <4> QED  BY <2>1, <3>2, <3>3, <4>1
    <3>4. CASE n > 2
      <4>1. n - 2 \in 1..MaxLoops
        BY <1>1, <3>4
      <4>2. f[n - 1] = g[n - 1][1] /\ f[n - 2] = g[n - 2][1]
        BY <3>1, <4>1
      <4>3. g[n - 2][1] \in Int /\ g[n - 2][2] \in Int
        BY <1>6, <4>1
      <4> QED  BY <2>1, <3>1, <3>2, <3>4, <4>2, <4>3
    <3> QED  BY <2>3, <3>1, <3>3, <3>4
  <2> QED  BY <1>1, <2>2, <2>3
<1>8. Is(f)
  <2>1. f = [n \in 1..MaxLoops |-> f[n]]
    OBVIOUS
  <2> HIDE DEF f
  <2> QED  BY <1>7, <2>1
<1> HIDE DEF f
<1>9. Is(FibonacciNumber)
  BY <1>8 DEF FibonacciNumber
<1> QED  BY <1>9

\* The sums of the first numbers of s.
Sums(s) == CHOOSE P : P = [n \in 0..Len(s) |-> IF n = 0 THEN 0 ELSE P[n - 1] + s[n]]

LEMMA SumsAdd ==
  ASSUME NEW s \in Seq(Int)
  PROVE  /\ Sums(s)[0] = 0
         /\ \A n \in 1..Len(s) : Sums(s)[n] = Sums(s)[n - 1] + s[n]
         /\ \A n \in 0..Len(s) : Sums(s)[n] \in Int
<1> DEFINE Is(P) == P = [n \in 0..Len(s) |-> IF n = 0 THEN 0 ELSE P[n - 1] + s[n]]
           V == Int
           H == [k \in 1..Len(s) |-> [v \in V |-> v + s[k]]]
<1>1. Len(s) \in Nat /\ (\A n \in 1..Len(s) : s[n] \in Int) /\ 0 \in V
  OBVIOUS
<1>2. StepsWithin(V, Len(s), H)
  BY <1>1 DEF StepsWithin
<1>3. \A k \in 1..Len(s) : \A v \in V : H[k][v] = v + s[k]
  OBVIOUS
<1> HIDE DEF H
<1>4. PICK f : Follows(f, V, 0, Len(s), H)
  <2> HIDE DEF V
  <2> QED  BY <1>1, <1>2, Recursion
<1>5. f \in [0..Len(s) -> Int] /\ f[0] = 0 /\ \A k \in 1..Len(s) : f[k] = f[k - 1] + s[k]
  <2>1. f \in [0..Len(s) -> V] /\ f[0] = 0 /\ \A k \in 1..Len(s) : f[k] = H[k][f[k - 1]]
    BY <1>4 DEF Follows
  <2>2. \A k \in 1..Len(s) : k - 1 \in 0..Len(s)
    BY <1>1
  <2> QED  BY <1>3, <2>1, <2>2
<1>6. Is(f)
  <2>1. f = [n \in 0..Len(s) |-> f[n]]
    BY <1>5
  <2>2. \A n \in 0..Len(s) : n = 0 \/ n \in 1..Len(s)
    BY <1>1
  <2> QED  BY <1>5, <2>1, <2>2
<1>7. Is(Sums(s))
  BY <1>6 DEF Sums
<1> DEFINE P == Sums(s)
<1> HIDE DEF P
<1>8. P[0] = 0 /\ \A n \in 1..Len(s) : P[n] = P[n - 1] + s[n]
  BY <1>1, <1>7 DEF P
<1> DEFINE S == {n \in Nat : n <= Len(s) => P[n] \in Int}
<1>9. 0 \in S
  BY <1>8
<1>10. ASSUME NEW n \in Nat, n \in S PROVE n + 1 \in S
  <2> SUFFICES ASSUME n + 1 <= Len(s) PROVE P[n + 1] \in Int
    OBVIOUS
  <2>1. n + 1 \in 1..Len(s) /\ (n + 1) - 1 = n /\ P[n] \in Int
    BY <1>1, <1>10
  <2>2. P[n + 1] = P[(n + 1) - 1] + s[n + 1]
    BY <1>8, <2>1
  <2> QED  BY <1>1, <2>1, <2>2
<1>11. \A n \in Nat : n \in S
  <2> HIDE DEF S
  <2> QED  BY <1>9, <1>10, Induct
<1>12. \A n \in 0..Len(s) : P[n] \in Int
  BY <1>1, <1>11
<1> QED  BY <1>8, <1>12 DEF P

\* One more number changes no sum of earlier ones.
LEMMA SumsStay ==
  ASSUME NEW s \in Seq(Int), NEW n \in Int
  PROVE  \A k \in 0..Len(s) : Sums(Append(s, n))[k] = Sums(s)[k]
<1> DEFINE u == Append(s, n)
           S == {k \in Nat : k <= Len(s) => Sums(u)[k] = Sums(s)[k]}
<1>1. u \in Seq(Int) /\ Len(u) = Len(s) + 1 /\ Len(s) \in Nat
      /\ \A k \in 1..Len(s) : u[k] = s[k]
  OBVIOUS
<1> HIDE DEF u
<1>2. 0 \in S
  BY <1>1, SumsAdd
<1>3. ASSUME NEW k \in Nat, k \in S PROVE k + 1 \in S
  <2> SUFFICES ASSUME k + 1 <= Len(s) PROVE Sums(u)[k + 1] = Sums(s)[k + 1]
    OBVIOUS
  <2>1. /\ k + 1 \in 1..Len(s) /\ k + 1 \in 1..Len(u) /\ (k + 1) - 1 = k
        /\ Sums(u)[k] = Sums(s)[k]
    BY <1>1, <1>3
  <2>2. Sums(u)[k + 1] = Sums(u)[(k + 1) - 1] + u[k + 1]
    BY <1>1, <2>1, SumsAdd
  <2>3. Sums(s)[k + 1] = Sums(s)[(k + 1) - 1] + s[k + 1]
    BY <2>1, SumsAdd
  <2> QED  BY <1>1, <2>1, <2>2, <2>3
<1>4. \A k \in Nat : k \in S
  <2> HIDE DEF S
  <2> QED  BY <1>2, <1>3, Induct
<1> QED  BY <1>1, <1>4 DEF u

\* y is the largest sum of the last numbers of s, of one number at least.
EndsBest(s, y) ==
  /\ \E a \in 0..(Len(s) - 1) : y = Sums(s)[Len(s)] - Sums(s)[a]
  /\ \A a \in 0..(Len(s) - 1) : Sums(s)[Len(s)] - Sums(s)[a] <= y

LEMMA BestSums ==
  ASSUME NEW s, NEW x
  PROVE  IsBestSum(s, x) <=>
           /\ \E a, b \in 0..Len(s) : a <= b /\ x = Sums(s)[b] - Sums(s)[a]
           /\ \A a, b \in 0..Len(s) : a <= b => Sums(s)[b] - Sums(s)[a] <= x
<1> DEFINE D == {p \in (0..Len(s)) \X (0..Len(s)) : p[1] <= p[2]}
<1>1. \A a, b : SumBetween(s, a, b) = Sums(s)[b] - Sums(s)[a]
  BY DEF SumBetween, Sums
<1>2. /\ \A p \in D : p[1] \in 0..Len(s) /\ p[2] \in 0..Len(s) /\ p[1] <= p[2]
      /\ \A a, b \in 0..Len(s) : a <= b =>
           <<a, b>> \in D /\ <<a, b>>[1] = a /\ <<a, b>>[2] = b
  OBVIOUS
<1> DEFINE runs == {SumBetween(s, ab[1], ab[2]) : ab \in D}
<1>3. IsBestSum(s, x) <=> x \in runs /\ \A r \in runs : r <= x
  BY DEF IsBestSum
<1>4. ASSUME NEW r, r \in runs
      PROVE  \E a, b \in 0..Len(s) : a <= b /\ r = Sums(s)[b] - Sums(s)[a]
  <2>1. PICK p \in D : r = SumBetween(s, p[1], p[2])
    BY <1>4
  <2> HIDE DEF D
  <2>2. p[1] \in 0..Len(s) /\ p[2] \in 0..Len(s) /\ p[1] <= p[2]
    BY <1>2
  <2>3. r = Sums(s)[p[2]] - Sums(s)[p[1]]
    BY <1>1, <2>1
  <2> QED  BY <2>2, <2>3
<1>5. ASSUME NEW a \in 0..Len(s), NEW b \in 0..Len(s), a <= b
      PROVE  Sums(s)[b] - Sums(s)[a] \in runs
  <2> DEFINE p == <<a, b>>
  <2>1. p \in D /\ p[1] = a /\ p[2] = b
    BY <1>2, <1>5
  <2> HIDE DEF D, p
  <2>2. SumBetween(s, p[1], p[2]) \in runs
    BY <2>1
  <2> QED  BY <1>1, <2>1, <2>2
<1> HIDE DEF D, runs
<1>6. x \in runs <=> \E a, b \in 0..Len(s) : a <= b /\ x = Sums(s)[b] - Sums(s)[a]
  BY <1>4, <1>5
<1>7. (\A r \in runs : r <= x) <=>
        \A a, b \in 0..Len(s) : a <= b => Sums(s)[b] - Sums(s)[a] <= x
  <2>1. ASSUME \A r \in runs : r <= x, NEW a \in 0..Len(s), NEW b \in 0..Len(s), a <= b
        PROVE  Sums(s)[b] - Sums(s)[a] <= x
    BY <1>5, <2>1
  <2>2. ASSUME \A a, b \in 0..Len(s) : a <= b => Sums(s)[b] - Sums(s)[a] <= x,
               NEW r \in runs
        PROVE  r <= x
    <3>1. PICK a \in 0..Len(s), b \in 0..Len(s) : a <= b /\ r = Sums(s)[b] - Sums(s)[a]
      BY <1>4
    <3> QED  BY <2>2, <3>1
  <2> QED  BY <2>1, <2>2
<1> QED  BY <1>3, <1>6, <1>7

\* With a next number n the best sum of the last ones goes on from a positive one, and the
\* best sum of all is the old one or that.
LEMMA BestGoesOn ==
  ASSUME NEW s \in Seq(Int), NEW n \in Int, NEW x \in Int, NEW y \in Int, NEW z \in Int,
         s # <<>> => EndsBest(s, y) /\ IsBestSum(s, x),
         s = <<>> => x = 0,
         z = IF s # <<>> /\ y > 0 THEN y + n ELSE n
  PROVE  /\ EndsBest(Append(s, n), z)
         /\ IsBestSum(Append(s, n), IF x < z THEN z ELSE x)
<1> DEFINE m == Len(s)
           u == Append(s, n)
           P == Sums(s)
           Q == Sums(u)
           best == IF x < z THEN z ELSE x
<1>1. m \in Nat /\ u \in Seq(Int) /\ Len(u) = m + 1 /\ u[m + 1] = n /\ (s = <<>> <=> m = 0)
  OBVIOUS
<1>2. (\A k \in 0..m : Q[k] = P[k] /\ P[k] \in Int) /\ P[0] = 0
  BY SumsStay, SumsAdd
<1>3. Q[m + 1] = P[m] + n /\ Q[m + 1] \in Int
  <2>1. m + 1 \in 1..Len(u) /\ (m + 1) - 1 = m /\ m \in 0..m
    BY <1>1
  <2>2. Q[m + 1] = Q[(m + 1) - 1] + u[m + 1]
    BY <1>1, <2>1, SumsAdd
  <2> QED  BY <1>1, <1>2, <2>1, <2>2
<1>4. m # 0 => /\ \E a \in 0..(m - 1) : y = P[m] - P[a]
               /\ \A a \in 0..(m - 1) : P[m] - P[a] <= y
  BY <1>1 DEF EndsBest
<1>5. /\ \E a, b \in 0..m : a <= b /\ x = P[b] - P[a]
      /\ \A a, b \in 0..m : a <= b => P[b] - P[a] <= x
  <2>1. CASE m = 0
    BY <1>1, <1>2, <2>1
  <2>2. CASE m # 0
    BY <1>1, <2>2, BestSums
  <2> QED  BY <2>1, <2>2
<1> HIDE DEF m, u, P, Q
<1>6. \E a \in 0..m : z = Q[m + 1] - Q[a]
  <2>1. CASE m # 0 /\ y > 0
    <3>1. PICK a \in 0..(m - 1) : y = P[m] - P[a]
      BY <1>4, <2>1
    <3>2. a \in 0..m /\ m \in 0..m
      BY <1>1
    <3>3. z = y + n /\ Q[a] = P[a] /\ P[a] \in Int /\ P[m] \in Int
      BY <1>1, <1>2, <2>1, <3>2
    <3>4. z = Q[m + 1] - Q[a]
      BY <1>3, <3>1, <3>3
    <3> QED  BY <3>2, <3>4
  <2>2. CASE ~(m # 0 /\ y > 0)
    <3>1. z = n /\ m \in 0..m
      BY <1>1, <2>2
    <3> QED  BY <1>2, <1>3, <3>1
  <2> QED  BY <2>1, <2>2
<1>7. \A a \in 0..m : Q[m + 1] - Q[a] <= z
  <2> SUFFICES ASSUME NEW a \in 0..m PROVE Q[m + 1] - Q[a] <= z
    OBVIOUS
  <2>1. /\ Q[a] = P[a] /\ P[a] \in Int /\ P[m] \in Int
        /\ z = IF m # 0 /\ y > 0 THEN y + n ELSE n
    BY <1>1, <1>2
  <2>2. CASE a = m
    BY <1>3, <2>1, <2>2
  <2>3. CASE a # m
    <3>1. m # 0 /\ a \in 0..(m - 1)
      BY <1>1, <2>3
    <3>2. P[m] - P[a] <= y
      BY <1>4, <3>1
    <3> QED  BY <1>3, <2>1, <3>1, <3>2
  <2> QED  BY <2>2, <2>3
<1>8. EndsBest(u, z)
  BY <1>1, <1>6, <1>7 DEF EndsBest, Q
<1>9. \E a, b \in 0..(m + 1) : a <= b /\ best = Q[b] - Q[a]
  <2>1. CASE x < z
    <3>1. PICK a \in 0..m : z = Q[m + 1] - Q[a]
      BY <1>6
    <3>2. a \in 0..(m + 1) /\ m + 1 \in 0..(m + 1) /\ a <= m + 1
      BY <1>1
    <3> QED  BY <2>1, <3>1, <3>2
  <2>2. CASE ~(x < z)
    <3>1. PICK a \in 0..m, b \in 0..m : a <= b /\ x = P[b] - P[a]
      BY <1>5
    <3>2. a \in 0..(m + 1) /\ b \in 0..(m + 1)
      BY <1>1
    <3>3. x = Q[b] - Q[a]
      BY <1>2, <3>1
    <3> QED  BY <2>2, <3>1, <3>2, <3>3
  <2> QED  BY <2>1, <2>2
<1>10. \A a, b \in 0..(m + 1) : a <= b => Q[b] - Q[a] <= best
  <2> SUFFICES ASSUME NEW a \in 0..(m + 1), NEW b \in 0..(m + 1), a <= b
               PROVE  Q[b] - Q[a] <= best
    OBVIOUS
  <2>1. CASE b = m + 1 /\ a = m + 1
    <3>1. x >= 0
      <4>1. 0 \in 0..m /\ P[0] - P[0] <= x
        BY <1>1, <1>5
      <4> QED  BY <1>2, <4>1
    <3> QED  BY <1>3, <2>1, <3>1
  <2>2. CASE b = m + 1 /\ a # m + 1
    <3>1. a \in 0..m
      BY <1>1, <2>2
    <3>2. Q[m + 1] - Q[a] <= z /\ Q[a] \in Int
      BY <1>2, <1>7, <3>1
    <3> QED  BY <1>3, <2>2, <3>2
  <2>3. CASE b # m + 1
    <3>1. a \in 0..m /\ b \in 0..m
      BY <1>1, <2>3
    <3>2. P[b] - P[a] <= x /\ Q[b] = P[b] /\ Q[a] = P[a] /\ P[a] \in Int /\ P[b] \in Int
      BY <1>2, <1>5, <3>1
    <3> QED  BY <3>2
  <2> QED  BY <2>1, <2>2, <2>3
<1>11. IsBestSum(u, best)
  BY <1>1, <1>9, <1>10, BestSums DEF Q
<1> QED  BY <1>8, <1>11 DEF u

-----------------------------------------------------------------------------
(* Each loop takes one more number for one more i, and keeps in x and y    *)
(* what it needs for the next.                                             *)

FibOK(t) ==
  tcb[t].i \in 1..(MaxLoops - 1) =>
    /\ tcb[t].y = FibonacciNumber[tcb[t].i]
    /\ tcb[t].x = IF tcb[t].i = 1 THEN 1 ELSE FibonacciNumber[tcb[t].i - 1]

\* i counts the numbers taken: with the one to be read in async_read, without it after.
TakenOK(t) ==
  t \notin exited =>
    /\ env[t] = "setup" => used[t] = <<>>
    /\ env[t] = "yield" /\ tcb[t].i < MaxLoops => Len(used[t]) = tcb[t].i
    /\ env[t] = "read" /\ tcb[t].i < MaxLoops => Len(used[t]) = tcb[t].i - 1

SumsOK(t) ==
  used[t] # <<>> => EndsBest(used[t], tcb[t].y) /\ IsBestSum(used[t], tcb[t].x)

ResultsInv == /\ \A t \in Fibs : FibOK(t)
              /\ \A t \in Subs : TakenOK(t) /\ SumsOK(t)

LEMMA ResultsInitially ==
  ASSUME Init PROVE ResultsInv
<1>1. PICK junk \in Numbers :
        tcb = [t \in Threads |-> [arg |-> Arg[t], i |-> 0, x |-> 0, y |-> 0, buf |-> junk]]
  BY DEF Init
<1>2. \A t \in Fibs : tcb[t].i = 0
  BY <1>1 DEF Threads
<1>3. \A t \in Subs : used[t] = <<>> /\ env[t] = "setup"
  BY DEF Init, Threads
<1> QED  BY <1>2, <1>3 DEF ResultsInv, FibOK, TakenOK, SumsOK

\* What a step of thread r leaves alone.
LEMMA ResultsBeside ==
  ASSUME ResultsInv, NEW t \in Threads,
         env'[t] = env[t], tcb'[t] = tcb[t], t \in exited' <=> t \in exited,
         t \in Subs => used'[t] = used[t]
  PROVE  /\ t \in Fibs => FibOK(t)'
         /\ t \in Subs => TakenOK(t)' /\ SumsOK(t)'
<1>1. ASSUME t \in Fibs PROVE FibOK(t)'
  <2>1. FibOK(t)
    BY <1>1 DEF ResultsInv
  <2> QED  BY <2>1 DEF FibOK
<1>2. ASSUME t \in Subs PROVE TakenOK(t)' /\ SumsOK(t)'
  <2>1. TakenOK(t) /\ SumsOK(t) /\ used'[t] = used[t]
    BY <1>2 DEF ResultsInv
  <2> QED  BY <2>1 DEF TakenOK, SumsOK
<1> QED  BY <1>1, <1>2

\* Together the threads are r and the others.
LEMMA ResultsOfAll ==
  ASSUME \A t \in Threads : /\ t \in Fibs => FibOK(t)'
                            /\ t \in Subs => TakenOK(t)' /\ SumsOK(t)'
  PROVE  ResultsInv'
BY DEF ResultsInv, Threads

\* Whoever switches threads or acts from outside changes nothing a loop has computed.
LEMMA ResultsQuiet ==
  ASSUME ResultsInv,
         \/ Start \/ Schedule \/ Idle
         \/ CloseTstpWindow \/ CloseAlrmWindow \/ \E s \in Signals : Sighandler(s)
         \/ SendTstp \/ AlarmFires \/ Feed \/ \E t \in Subs : CloseFifo(t)
         \/ UNCHANGED vars
  PROVE  ResultsInv'
<1>1. UNCHANGED <<env, tcb, exited, used>>
  <2>1. CASE Start \/ Schedule \/ Idle
    BY <2>1 DEF Start, Schedule, Idle
  <2>2. CASE CloseTstpWindow \/ CloseAlrmWindow \/ \E s \in Signals : Sighandler(s)
    BY <2>2 DEF CloseTstpWindow, CloseAlrmWindow, Sighandler
  <2>3. CASE SendTstp \/ AlarmFires \/ Feed \/ \E t \in Subs : CloseFifo(t)
    BY <2>3 DEF SendTstp, AlarmFires, Feed, OpenFifo, Write, CloseFifo
  <2>4. CASE UNCHANGED vars
    BY <2>4 DEF vars
  <2> QED  BY <2>1, <2>2, <2>3, <2>4
<1> QED  BY <1>1, ResultsBeside, ResultsOfAll

LEMMA NextFibonacci ==
  ASSUME NEW t \in Fibs, NEW b \in Tcb, NEW h \in Tcb,
         b.i \in 1..(MaxLoops - 1) =>
           /\ b.y = FibonacciNumber[b.i]
           /\ b.x = IF b.i = 1 THEN 1 ELSE FibonacciNumber[b.i - 1],
         h.x = b.x, h.y = b.y,
         h.i = 1 \/ h.i = MaxLoops \/ h.i = b.i + 1
  PROVE  LET c == Body(t, h)
         IN  c.i \in 1..(MaxLoops - 1) =>
               /\ c.y = FibonacciNumber[c.i]
               /\ c.x = IF c.i = 1 THEN 1 ELSE FibonacciNumber[c.i - 1]
<1> DEFINE c == Body(t, h)
           F == FibonacciNumber
<1>1. t \notin Cols /\ MaxLoops \in Nat \ {0}
  BY KindsAssumption, BoundsAssumption
<1>2. CASE h.i = MaxLoops
  BY <1>1, <1>2 DEF Body
<1>3. CASE h.i # MaxLoops
  <2>1. c = Fibonacci(h)
    BY <1>1, <1>3 DEF Body
  <2>2. h.i \in Nat /\ b.i \in Nat /\ b.x \in Int /\ b.y \in Int
    BY <1>1 DEF Tcb
  <2>3. /\ c.i = h.i
        /\ h.i <= 2 => c.x = 1 /\ c.y = 1
        /\ h.i > 2 => c.x = b.y /\ c.y = b.x + b.y
    BY <1>1, <2>1, <2>2 DEF Fibonacci, Tcb
  <2> HIDE DEF c, F
  <2> SUFFICES ASSUME h.i \in 1..(MaxLoops - 1)
               PROVE  c.y = F[h.i] /\ c.x = IF h.i = 1 THEN 1 ELSE F[h.i - 1]
    BY <2>3 DEF c, F
  <2>4. \A n \in 1..MaxLoops : F[n] = IF n <= 2 THEN 1 ELSE F[n - 1] + F[n - 2]
    BY Fibonaccis DEF F
  <2>5. CASE h.i <= 2
    <3>1. F[h.i] = 1 /\ (h.i = 2 => F[h.i - 1] = 1)
      BY <1>1, <2>2, <2>4, <2>5
    <3> QED  BY <2>2, <2>3, <2>5, <3>1
  <2>6. CASE h.i > 2
    <3>1. b.i = h.i - 1 /\ b.i \in 1..(MaxLoops - 1) /\ b.i # 1
      BY <1>1, <1>3, <2>2, <2>6
    <3>2. b.y = F[h.i - 1] /\ b.x = F[h.i - 2]
      <4>1. b.y = F[b.i] /\ b.x = F[b.i - 1] /\ b.i - 1 = h.i - 2
        BY <2>2, <3>1 DEF F
      <4> QED  BY <3>1, <4>1
    <3>3. F[h.i] = F[h.i - 1] + F[h.i - 2]
      BY <1>1, <2>2, <2>4, <2>6
    <3> QED  BY <2>2, <2>3, <2>6, <3>1, <3>2, <3>3
  <2> QED  BY <2>2, <2>5, <2>6
<1> QED  BY <1>2, <1>3

LEMMA HeadCounts ==
  ASSUME NEW t, tcb[t] \in Tcb
  PROVE  /\ LoopHead(t).x = tcb[t].x /\ LoopHead(t).y = tcb[t].y
         /\ LoopHead(t).i = 1 \/ LoopHead(t).i = MaxLoops \/ LoopHead(t).i = tcb[t].i + 1
         /\ pc = "setup" => LoopHead(t).i = 1
         /\ pc # "setup" /\ LoopHead(t).i < MaxLoops => LoopHead(t).i = tcb[t].i + 1
<1>1. MaxLoops \in Nat \ {0} /\ tcb[t].i \in 0..MaxLoops
  BY BoundsAssumption DEF Tcb
<1>2. CASE pc = "setup"
  BY <1>2 DEF LoopHead, Tcb
<1>3. CASE pc # "setup"
  BY <1>1, <1>3 DEF LoopHead, Count, Tcb
<1> QED  BY <1>2, <1>3

LEMMA ResultsIterate ==
  ASSUME IInv, ResultsInv, Iterate
  PROVE  ResultsInv'
<1> DEFINE r == Running
           b == Body(r, LoopHead(r))
<1>1. /\ pc \in {"setup", "yield"} /\ ExitOrYield(r, b) /\ r \notin Subs
      /\ UNCHANGED used /\ r' = r
  BY DEF Iterate, queues, Running
<1>2. r \in Threads
  BY <1>1, RunningFacts DEF IInv, InThread
<1>3. tcb \in [Threads -> Tcb] /\ env \in [Threads -> {"setup", "yield", "read"}]
  BY DEF IInv, TypeOK
<1>4. ASSUME r \in Fibs
      PROVE  b.i \in 1..(MaxLoops - 1) =>
               /\ b.y = FibonacciNumber[b.i]
               /\ b.x = IF b.i = 1 THEN 1 ELSE FibonacciNumber[b.i - 1]
  <2>1. tcb[r] \in Tcb /\ LoopHead(r) \in Tcb
    BY <1>2, HeadTypes
  <2>2. FibOK(r)
    BY <1>4 DEF ResultsInv
  <2> QED  BY <1>4, <2>1, <2>2, HeadCounts, NextFibonacci DEF FibOK
<1> HIDE DEF r, b
<1>5. /\ tcb'[r] = b
      /\ \A t \in Threads : t # r =>
           /\ tcb'[t] = tcb[t] /\ env'[t] = env[t] /\ (t \in exited' <=> t \in exited)
  BY <1>1, <1>2, <1>3 DEF ExitOrYield
<1>6. r \in Fibs => FibOK(r)'
  BY <1>1, <1>4, <1>5 DEF FibOK
<1>7. \A t \in Threads : t # r => /\ t \in Fibs => FibOK(t)'
                                  /\ t \in Subs => TakenOK(t)' /\ SumsOK(t)'
  BY <1>1, <1>5, ResultsBeside
<1> QED  BY <1>1, <1>6, <1>7, ResultsOfAll

LEMMA ResultsStart ==
  ASSUME IInv, ResultsInv, AsyncRead
  PROVE  ResultsInv'
<1> DEFINE r == Running
           b == LoopHead(r)
<1>1. /\ pc \in {"setup", "yield"} /\ r \in Subs
      /\ tcb' = [tcb EXCEPT ![r] = b] /\ env' = [env EXCEPT ![r] = "read"]
      /\ UNCHANGED <<exited, used>> /\ r' = r
  BY DEF AsyncRead, queues, Running
<1>2. r \in Threads /\ r \notin exited /\ env[r] = pc
  BY <1>1, RunningFacts DEF IInv, EnvInv, InThread
<1>3. tcb \in [Threads -> Tcb] /\ env \in [Threads -> {"setup", "yield", "read"}]
  BY DEF IInv, TypeOK
<1>4. /\ b.x = tcb[r].x /\ b.y = tcb[r].y
      /\ pc = "setup" => b.i = 1
      /\ pc # "setup" /\ b.i < MaxLoops => b.i = tcb[r].i + 1
  BY <1>2, <1>3, HeadCounts
<1>5. tcb[r].i \in Nat /\ b.i \in Nat /\ MaxLoops \in Nat
  <2>1. tcb[r] \in Tcb /\ b \in Tcb
    BY <1>2, HeadTypes
  <2> HIDE DEF b
  <2> QED  BY <2>1, BoundsAssumption DEF Tcb
<1> HIDE DEF r, b
<1>6. TakenOK(r) /\ SumsOK(r)
  BY <1>1 DEF ResultsInv
<1>7. tcb'[r] = b /\ env'[r] = "read"
  BY <1>1, <1>2, <1>3
<1>8. SumsOK(r)'
  BY <1>1, <1>4, <1>6, <1>7 DEF SumsOK
<1>9. TakenOK(r)'
  <2>1. b.i < MaxLoops => Len(used[r]) = b.i - 1
    <3>1. CASE pc = "setup"
      BY <1>2, <1>4, <1>6, <3>1 DEF TakenOK
    <3>2. CASE pc = "yield"
      BY <1>2, <1>4, <1>5, <1>6, <3>2 DEF TakenOK
    <3> QED  BY <1>1, <3>1, <3>2
  <2> QED  BY <1>1, <1>7, <2>1 DEF TakenOK
<1>10. \A t \in Threads : t # r => /\ t \in Fibs => FibOK(t)'
                                   /\ t \in Subs => TakenOK(t)' /\ SumsOK(t)'
  BY <1>1, <1>2, <1>3, ResultsBeside
<1>11. r \notin Fibs
  BY <1>1, KindsAssumption
<1> QED  BY <1>1, <1>8, <1>9, <1>10, <1>11, ResultsOfAll

LEMMA EmptyList ==
  \A u \in Seq(Int) : u = <<>> <=> Len(u) = 0
OBVIOUS

LEMMA NextSums ==
  ASSUME NEW b \in Tcb, NEW u \in Seq(Int), Len(u) = b.i - 1,
         u # <<>> => EndsBest(u, b.y) /\ IsBestSum(u, b.x)
  PROVE  LET c == MaxSubarray(b)
         IN  /\ EndsBest(Append(u, b.buf), c.y) /\ IsBestSum(Append(u, b.buf), c.x)
             /\ c.i = b.i
<1> DEFINE x == IF b.i = 1 THEN 0 ELSE b.x
           z == IF b.i > 1 /\ b.y > 0 THEN b.y + b.buf ELSE b.buf
           w == IF x < z THEN z ELSE x
<1>1. /\ b.i \in Nat /\ b.x \in Int /\ b.y \in Int /\ b.buf \in Int
      /\ x \in Int /\ z \in Int /\ (u = <<>> <=> b.i = 1) /\ (u # <<>> <=> b.i > 1)
  <2>1. b.i \in Nat /\ b.x \in Int /\ b.y \in Int /\ b.buf \in Int
    BY DEF Tcb
  <2>2. u = <<>> <=> Len(u) = 0
    BY EmptyList
  <2> QED  BY <2>1, <2>2
<1>2. MaxSubarray(b) = [b EXCEPT !.y = z, !.x = w]
  BY DEF MaxSubarray
<1>3. /\ u # <<>> => EndsBest(u, b.y) /\ IsBestSum(u, x)
      /\ u = <<>> => x = 0
      /\ z = IF u # <<>> /\ b.y > 0 THEN b.y + b.buf ELSE b.buf
  BY <1>1
<1> HIDE DEF x, z
<1>4. EndsBest(Append(u, b.buf), z) /\ IsBestSum(Append(u, b.buf), w)
  BY <1>1, <1>3, BestGoesOn
<1> HIDE DEF w
<1>5. MaxSubarray(b).y = z /\ MaxSubarray(b).x = w /\ MaxSubarray(b).i = b.i
  BY <1>2 DEF Tcb
<1> QED  BY <1>4, <1>5

LEMMA ResultsRead ==
  ASSUME IInv, ResultsInv, ReadAndIterate
  PROVE  ResultsInv'
<1> DEFINE r == Running
           b == Read(r, tcb[r])
           c == Body(r, b)
<1>1. /\ pc = "read" /\ ExitOrYield(r, c)
      /\ used' = IF b.i = MaxLoops THEN used ELSE [used EXCEPT ![r] = Append(@, b.buf)]
      /\ r' = r
  BY DEF ReadAndIterate, queues, Running
<1>2. r \in Threads /\ r \in Subs /\ r \notin exited /\ env[r] = "read"
  BY <1>1, RunningFacts DEF IInv, EnvInv, InThread
<1>3. /\ tcb \in [Threads -> Tcb] /\ env \in [Threads -> {"setup", "yield", "read"}]
      /\ used \in [Subs -> Seq(Numbers)] /\ fifo \in [Subs -> Seq(Numbers)]
  BY DEF IInv, TypeOK
<1>4. r \notin Fibs /\ r \notin Cols /\ MaxLoops \in Nat
  BY <1>2, KindsAssumption, BoundsAssumption
<1>5. b \in Tcb /\ b.i = tcb[r].i /\ b.x = tcb[r].x /\ b.y = tcb[r].y
  <2>1. tcb[r] \in Tcb
    BY <1>2, <1>3
  <2>2. fifo[r] # <<>> => Head(fifo[r]) \in Int
    <3>1. \A f \in Seq(Numbers) : f # <<>> => Head(f) \in Numbers
      OBVIOUS
    <3>2. fifo[r] \in Seq(Numbers)
      BY <1>2, <1>3
    <3> QED  BY <3>1, <3>2, NumbersAssumption
  <2>3. \A n \in Int : LET d == [tcb[r] EXCEPT !.buf = n]
                       IN  d \in Tcb /\ d.i = tcb[r].i /\ d.x = tcb[r].x /\ d.y = tcb[r].y
    BY <2>1 DEF Tcb
  <2> HIDE DEF r
  <2> QED  BY <2>1, <2>2, <2>3 DEF Read
<1>6. used[r] \in Seq(Int) /\ used[r] \in Seq(Numbers) /\ TakenOK(r) /\ SumsOK(r)
  <2>1. used[r] \in Seq(Numbers)
    BY <1>2, <1>3
  <2>2. \A s \in Seq(Numbers) : s \in Seq(Int)
    <3>1. \A s \in Seq(Numbers) : Len(s) \in Nat /\ s \in [1..Len(s) -> Numbers]
      OBVIOUS
    <3>2. \A s \in Seq(Numbers) : s \in [1..Len(s) -> Int]
      BY <3>1, NumbersAssumption
    <3> QED  BY <3>1, <3>2
  <2> QED  BY <1>2, <2>1, <2>2 DEF ResultsInv
<1> HIDE DEF r
<1>7. b.i = MaxLoops \/ b.i < MaxLoops
  BY <1>4, <1>5 DEF Tcb
<1>8. c = IF b.i = MaxLoops THEN b ELSE MaxSubarray(b)
  BY <1>4 DEF Body
<1> HIDE DEF b, c
<1>9. /\ EndsBest(used'[r], c.y) \/ used'[r] = <<>>
      /\ IsBestSum(used'[r], c.x) \/ used'[r] = <<>>
      /\ c.i < MaxLoops => Len(used'[r]) = c.i
  <2>1. CASE b.i = MaxLoops
    <3>1. c = b /\ used' = used
      BY <1>1, <1>8, <2>1
    <3> QED  BY <1>4, <1>5, <1>6, <2>1, <3>1 DEF SumsOK
  <2>2. CASE b.i # MaxLoops
    <3>1. c = MaxSubarray(b) /\ used'[r] = Append(used[r], b.buf)
      BY <1>1, <1>2, <1>3, <1>8, <2>2
    <3>2. Len(used[r]) = b.i - 1
      BY <1>2, <1>5, <1>6, <1>7, <2>2 DEF TakenOK
    <3>3. used[r] # <<>> => EndsBest(used[r], b.y) /\ IsBestSum(used[r], b.x)
      BY <1>5, <1>6 DEF SumsOK
    <3>4. /\ EndsBest(Append(used[r], b.buf), c.y) /\ IsBestSum(Append(used[r], b.buf), c.x)
          /\ c.i = b.i
      BY <1>5, <1>6, <3>1, <3>2, <3>3, NextSums
    <3>5. Len(Append(used[r], b.buf)) = Len(used[r]) + 1 /\ b.i \in Nat
      BY <1>5, <1>6 DEF Tcb
    <3> QED  BY <3>1, <3>2, <3>4, <3>5
  <2> QED  BY <2>1, <2>2
<1>10. /\ r \in exited' \/ env'[r] = "yield"
       /\ \A t \in Threads : t # r =>
            /\ tcb'[t] = tcb[t] /\ env'[t] = env[t] /\ (t \in exited' <=> t \in exited)
  BY <1>1, <1>2, <1>3 DEF ExitOrYield
<1>11. tcb'[r] = c
  BY <1>1, <1>2, <1>3 DEF ExitOrYield
<1>12. TakenOK(r)' /\ SumsOK(r)'
  BY <1>1, <1>9, <1>10, <1>11 DEF TakenOK, SumsOK
<1>13. \A t \in Threads : t \in Subs /\ t # r => used'[t] = used[t]
  BY <1>1, <1>2, <1>3
<1>14. \A t \in Threads : t # r => /\ t \in Fibs => FibOK(t)'
                                   /\ t \in Subs => TakenOK(t)' /\ SumsOK(t)'
  BY <1>10, <1>13, ResultsBeside
<1> QED  BY <1>1, <1>4, <1>12, <1>14, ResultsOfAll

(* What fibonacci and max_subarray print is right for any argument and any *)
(* numbers, however often signals and empty FIFOs switch threads between   *)
(* two iterations: x, y, i and buf survive in the tcb (threads.c 8-82).    *)
THEOREM Results ==
  ASSUME OneReader
  PROVE  Spec => []AnswersRight
<1>1. Init => ResultsInv
  BY ResultsInitially
<1>2. ASSUME IInv, ResultsInv, [Next]_vars  PROVE ResultsInv'
  BY <1>2, ResultsQuiet, ResultsIterate, ResultsStart, ResultsRead DEF Next, Process
<1>3. ResultsInv => AnswersRight
  BY DEF ResultsInv, FibOK, SumsOK, AnswersRight
<1>4. Spec => []IInv
  BY Invariance
<1> QED  BY <1>1, <1>2, <1>3, <1>4, PTL DEF Spec
=============================================================================
