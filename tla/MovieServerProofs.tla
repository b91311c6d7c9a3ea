-------------------------- MODULE MovieServerProofs --------------------------
(* Theorems about MovieServer for every table of movies, number of         *)
(* requests, depth, thread limit and leaf size.                            *)
EXTENDS MovieServerProperties, FiniteSetTheorems, TLAPS

-----------------------------------------------------------------------------
(* Paths of the recursion.                                                 *)

LEMMA PathType ==
  ASSUME NEW p \in Paths
  PROVE  /\ p \in Seq({0, 1}) /\ Len(p) \in 0..MaxDepth /\ DOMAIN p = 1..Len(p)
         /\ \A i \in 1..Len(p) : p[i] \in {0, 1}
<1>1. MaxDepth \in Nat
  BY SizesAssumption
<1>2. PICK m \in 0..MaxDepth : p \in [1..m -> {0, 1}]
  BY DEF Paths, SeqOf
<1>3. p \in Seq({0, 1}) /\ Len(p) = m
  BY <1>1, <1>2
<1> QED  BY <1>1, <1>2, <1>3

LEMMA RootPath == Root \in Paths /\ Len(Root) = 0
<1>1. MaxDepth \in Nat
  BY SizesAssumption
<1>2. Root \in [1..0 -> {0, 1}]
  BY DEF Root
<1> QED  BY <1>1, <1>2 DEF Paths, SeqOf, Root

LEMMA ChildPaths ==
  ASSUME NEW p \in Paths, Len(p) < MaxDepth
  PROVE  /\ Left(p) \in Paths /\ Right(p) \in Paths
         /\ Len(Left(p)) = Len(p) + 1 /\ Len(Right(p)) = Len(p) + 1
         /\ \A i \in 1..Len(p) : Left(p)[i] = p[i] /\ Right(p)[i] = p[i]
         /\ Left(p)[Len(p) + 1] = 0 /\ Right(p)[Len(p) + 1] = 1
<1>1. MaxDepth \in Nat
  BY SizesAssumption
<1>2. p \in Seq({0, 1}) /\ Len(p) \in 0..MaxDepth
  BY PathType
<1>3. /\ Left(p) \in [1..(Len(p) + 1) -> {0, 1}]
      /\ Right(p) \in [1..(Len(p) + 1) -> {0, 1}]
  <2>1. Left(p) \in Seq({0, 1}) /\ Len(Left(p)) = Len(p) + 1
    BY <1>2 DEF Left
  <2>2. Right(p) \in Seq({0, 1}) /\ Len(Right(p)) = Len(p) + 1
    BY <1>2 DEF Right
  <2>3. \A s \in Seq({0, 1}) : s \in [1..Len(s) -> {0, 1}]
    OBVIOUS
  <2> QED  BY <2>1, <2>2, <2>3
<1>4. Len(p) + 1 \in 0..MaxDepth
  BY <1>1, <1>2
<1>5. Left(p) \in Paths /\ Right(p) \in Paths
  BY <1>3, <1>4 DEF Paths, SeqOf
<1> QED  BY <1>2, <1>5 DEF Left, Right

\* A prefix agrees with its extension at each of its steps.
LEMMA PrefixSteps ==
  ASSUME NEW p \in Paths, NEW q \in Paths
  PROVE  IsPrefix(p, q) <=> Len(p) <= Len(q) /\ \A i \in 1..Len(p) : p[i] = q[i]
<1>1. /\ p \in Seq({0, 1}) /\ q \in Seq({0, 1}) /\ Len(p) \in Nat /\ Len(q) \in Nat
      /\ DOMAIN p = 1..Len(p) /\ DOMAIN q = 1..Len(q)
  BY PathType
<1>2. SubSeq(p, 1, Len(p)) = p
  BY <1>1
<1>3. Len(p) <= Len(q) => /\ SubSeq(q, 1, Len(p)) \in Seq({0, 1})
                          /\ Len(SubSeq(q, 1, Len(p))) = Len(p)
                          /\ \A i \in 1..Len(p) : SubSeq(q, 1, Len(p))[i] = q[i]
  BY <1>1
<1> QED  BY <1>1, <1>2, <1>3 DEF IsPrefix

LEMMA PathsEqual ==
  ASSUME NEW p \in Paths, NEW q \in Paths, Len(p) = Len(q),
         \A i \in 1..Len(p) : p[i] = q[i]
  PROVE  p = q
BY PathType

\* Above a child are its parent and all above that.
LEMMA AboveChild ==
  ASSUME NEW x \in Paths, Len(x) < MaxDepth, NEW p \in Paths,
         NEW c \in {Left(x), Right(x)}
  PROVE  IsStrictPrefix(p, c) <=> p = x \/ IsStrictPrefix(p, x)
<1>1. /\ c \in Paths /\ Len(c) = Len(x) + 1
      /\ \A i \in 1..Len(x) : c[i] = x[i]
  BY ChildPaths
<1>2. Len(x) \in Nat /\ Len(p) \in Nat /\ Len(c) \in Nat
  BY <1>1, PathType
<1>3. ASSUME IsStrictPrefix(p, c)
      PROVE  p = x \/ IsStrictPrefix(p, x)
  <2>1. Len(p) <= Len(c) /\ \A i \in 1..Len(p) : p[i] = c[i]
    BY <1>1, <1>3, PrefixSteps DEF IsStrictPrefix
  <2>2. Len(p) # Len(c)
    BY <1>1, <1>3, <2>1, PathsEqual DEF IsStrictPrefix
  <2>3. Len(p) <= Len(x) /\ \A i \in 1..Len(p) : p[i] = x[i]
    BY <1>1, <1>2, <2>1, <2>2
  <2> QED  BY <2>3, PrefixSteps DEF IsStrictPrefix
<1>4. ASSUME p = x \/ IsStrictPrefix(p, x)
      PROVE  IsStrictPrefix(p, c)
  <2>1. Len(p) <= Len(x) /\ \A i \in 1..Len(p) : p[i] = x[i]
    BY <1>2, <1>4, PrefixSteps DEF IsStrictPrefix
  <2>2. Len(p) <= Len(c) /\ \A i \in 1..Len(p) : p[i] = c[i]
    BY <1>1, <1>2, <2>1
  <2>3. p # c
    BY <1>1, <1>2, <2>1
  <2> QED  BY <1>1, <2>2, <2>3, PrefixSteps DEF IsStrictPrefix
<1> QED  BY <1>3, <1>4

LEMMA OneParent ==
  ASSUME NEW x \in Paths, Len(x) < MaxDepth, NEW y \in Paths, Len(y) < MaxDepth,
         NEW c \in {Left(x), Right(x)}, c \in {Left(y), Right(y)}
  PROVE  x = y
<1>1. Len(c) = Len(x) + 1 /\ \A i \in 1..Len(x) : c[i] = x[i]
  BY ChildPaths
<1>2. Len(c) = Len(y) + 1 /\ \A i \in 1..Len(y) : c[i] = y[i]
  BY ChildPaths
<1>3. Len(x) \in Nat /\ Len(y) \in Nat
  BY PathType
<1> QED  BY <1>1, <1>2, <1>3, PathsEqual

\* Below a path are its children and all below them, and no path is below both.
LEMMA BelowPath ==
  ASSUME NEW x \in Paths, NEW q \in Paths, IsStrictPrefix(x, q)
  PROVE  /\ Len(x) < MaxDepth
         /\ IsPrefix(Left(x), q) \/ IsPrefix(Right(x), q)
         /\ ~(IsPrefix(Left(x), q) /\ IsPrefix(Right(x), q))
<1>1. Len(x) \in 0..MaxDepth /\ Len(q) \in 0..MaxDepth /\ MaxDepth \in Nat
  BY PathType, SizesAssumption
<1>2. Len(x) <= Len(q) /\ \A i \in 1..Len(x) : x[i] = q[i]
  BY PrefixSteps DEF IsStrictPrefix
<1>3. Len(x) < Len(q)
  BY <1>1, <1>2, PathsEqual DEF IsStrictPrefix
<1>4. Len(x) < MaxDepth
  BY <1>1, <1>3
<1>5. /\ Left(x) \in Paths /\ Len(Left(x)) = Len(x) + 1
      /\ \A i \in 1..Len(x) : Left(x)[i] = x[i]
      /\ Left(x)[Len(x) + 1] = 0
  BY <1>4, ChildPaths
<1>6. /\ Right(x) \in Paths /\ Len(Right(x)) = Len(x) + 1
      /\ \A i \in 1..Len(x) : Right(x)[i] = x[i]
      /\ Right(x)[Len(x) + 1] = 1
  BY <1>4, ChildPaths
<1>7. q[Len(x) + 1] \in {0, 1}
  BY <1>1, <1>3, PathType
<1>8. IsPrefix(Left(x), q) <=> q[Len(x) + 1] = 0
  <2>1. IsPrefix(Left(x), q) <=>
          Len(Left(x)) <= Len(q) /\ \A i \in 1..Len(Left(x)) : Left(x)[i] = q[i]
    BY <1>5, PrefixSteps
  <2> QED  BY <1>1, <1>2, <1>3, <1>5, <2>1
<1>9. IsPrefix(Right(x), q) <=> q[Len(x) + 1] = 1
  <2>1. IsPrefix(Right(x), q) <=>
          Len(Right(x)) <= Len(q) /\ \A i \in 1..Len(Right(x)) : Right(x)[i] = q[i]
    BY <1>6, PrefixSteps
  <2> QED  BY <1>1, <1>2, <1>3, <1>6, <2>1
<1> QED  BY <1>4, <1>7, <1>8, <1>9

LEMMA PrefixOrder ==
  ASSUME NEW p \in Paths, NEW q \in Paths, NEW s \in Paths
  PROVE  /\ IsPrefix(p, p)
         /\ IsPrefix(p, q) /\ IsPrefix(q, s) => IsPrefix(p, s)
         /\ IsPrefix(p, q) /\ IsPrefix(q, p) => p = q
         /\ IsPrefix(p, s) /\ IsPrefix(q, s) => IsPrefix(p, q) \/ IsPrefix(q, p)
         /\ IsPrefix(Root, p)
<1>1. Len(p) \in Nat /\ Len(q) \in Nat /\ Len(s) \in Nat
  BY PathType
<1>2. IsPrefix(p, p)
  BY <1>1, PrefixSteps
<1>3. IsPrefix(p, q) /\ IsPrefix(q, s) => IsPrefix(p, s)
  BY <1>1, PrefixSteps
<1>4. IsPrefix(p, q) /\ IsPrefix(q, p) => p = q
  BY <1>1, PrefixSteps, PathsEqual
<1>5. IsPrefix(p, s) /\ IsPrefix(q, s) => IsPrefix(p, q) \/ IsPrefix(q, p)
  BY <1>1, PrefixSteps
<1>6. IsPrefix(Root, p)
  BY <1>1, RootPath, PrefixSteps
<1> QED  BY <1>2, <1>3, <1>4, <1>5, <1>6

-----------------------------------------------------------------------------
(* Calls of the merge sort.                                                *)

LEMMA CallFields ==
  ASSUME ControlTypeOK, NEW r \in Requests, NEW p \in Paths
  PROVE  /\ call[r][p] \in Call
         /\ call[r][p].left \in Int /\ call[r][p].right \in Int
         /\ call[r][p].reg \in 0..(CountMod - 1)
BY DEF ControlTypeOK, Call

\* The halves of a range that is split.
LEMMA HalfRanges ==
  ASSUME ControlTypeOK, RangesOK, NEW r \in Requests, NEW p \in Paths,
         Started(r, p), ~IsLeaf(r, p)
  PROVE  LET l == call[r][p].left
             h == call[r][p].right
             m == Mid(r, p)
         IN  /\ m \in Int
             /\ (0 <= l /\ l <= m) \/ (l = 1 /\ m <= 0)
             /\ (0 <= m + 1 /\ m + 1 <= h) \/ (m + 1 = 1 /\ h <= 0)
             /\ p # Root => l..m \subseteq l..h /\ (m + 1)..h \subseteq l..h
<1> DEFINE l == call[r][p].left
           h == call[r][p].right
           m == Mid(r, p)
<1>1. l \in Int /\ h \in Int /\ LeafSize \in Nat \ {0}
  BY CallFields, SizesAssumption
<1>2. l # h
  BY <1>1, BuildAssumption DEF IsLeaf, ControlTypeOK
<1>3. \/ 0 <= l /\ l <= h
      \/ l = 1 /\ h <= 0
      \/ p = Root /\ l = 0 /\ h = -1
  BY DEF RangesOK
<1>4. m = IF l + h < 0 THEN 0 ELSE (l + h) \div 2
  BY DEF Mid, Half
<1> HIDE DEF l, h, m
<1>5. CASE 0 <= l /\ l <= h
  <2>1. l + h >= 0 /\ m = (l + h) \div 2
    BY <1>1, <1>4, <1>5
  <2>2. m \in Int /\ l <= m /\ m < h
    BY <1>1, <1>2, <1>5, <2>1
  <2> QED  BY <1>1, <1>5, <2>2 DEF l, h, m
<1>6. CASE l = 1 /\ h <= 0
  <2>1. m = 0
    BY <1>1, <1>4, <1>6
  <2> QED  BY <1>1, <1>6, <2>1 DEF l, h, m
<1>7. CASE p = Root /\ l = 0 /\ h = -1
  <2>1. m = 0
    BY <1>1, <1>4, <1>7
  <2> QED  BY <1>1, <1>7, <2>1 DEF l, h, m
<1> QED  BY <1>3, <1>5, <1>6, <1>7

\* A call goes on without starting another.
LEMMA CallMoves ==
  ASSUME ControlTypeOK, CallsOK, NEW r \in Requests, NEW p \in Paths, NEW d \in Call,
         Active(r, p), build' = build, call' = [call EXCEPT ![r][p] = d],
         d.left = call[r][p].left, d.right = call[r][p].right,
         d.pc \in {"room", "more", "less", "done"},
         d.pc \in {"room", "more"} => call[r][p].pc \in {"start", "room"},
         d.pc # "done" => ~IsLeaf(r, p),
         d.pc \in {"less", "done"} =>
           \A q \in Paths : IsStrictPrefix(p, q) => ~Active(r, q)
  PROVE  CallsOK'
<1>1. call'[r][p] = d
  BY DEF ControlTypeOK
<1>2. \A s \in Requests, q \in Paths : s # r \/ q # p => call'[s][q] = call[s][q]
  BY DEF ControlTypeOK
<1>3. \A s \in Requests, q \in Paths :
        /\ call'[s][q].left = call[s][q].left /\ call'[s][q].right = call[s][q].right
        /\ Started(s, q)' <=> Started(s, q)
        /\ Active(s, q)' => Active(s, q)
        /\ Done(s, q) => Done(s, q)'
        /\ Mid(s, q)' = Mid(s, q) /\ (IsLeaf(s, q)' <=> IsLeaf(s, q))
        /\ Indices(s, q)' = Indices(s, q)
  BY <1>1, <1>2 DEF Started, Active, Done, Mid, IsLeaf, Indices
<1>4. InnerCalls'
  <2> SUFFICES ASSUME NEW s \in Requests, NEW x \in Paths, NEW q \in Paths,
                      IsStrictPrefix(x, q), Active(s, q)'
               PROVE  call'[s][x].pc \in {"both", "first", "second"}
    BY DEF InnerCalls
  <2>1. Active(s, q) /\ call[s][x].pc \in {"both", "first", "second"}
    BY <1>3 DEF CallsOK, InnerCalls
  <2>2. CASE s = r /\ x = p
    BY <2>1, <2>2 DEF InnerCalls
  <2> QED  BY <1>2, <2>1, <2>2
<1>5. LaterCalls'
  <2> SUFFICES ASSUME NEW s \in Requests, NEW x \in Paths, NEW q \in Paths, Started(s, q)'
               PROVE  /\ IsStrictPrefix(x, q) =>
                            call'[s][x].pc \notin {"none", "start", "room", "more"}
                      /\ call'[s][x].pc = "first" => ~IsPrefix(Right(x), q)
    BY DEF LaterCalls
  <2>1. Started(s, q)
    BY <1>3
  <2>2. /\ IsStrictPrefix(x, q) => call[s][x].pc \notin {"none", "start", "room", "more"}
        /\ call[s][x].pc = "first" => ~IsPrefix(Right(x), q)
    BY <2>1 DEF CallsOK, LaterCalls
  <2> QED  BY <1>1, <1>2, <2>2
<1>6. HalvesOK'
  <2> SUFFICES ASSUME NEW s \in Requests, NEW x \in Paths
               PROVE  /\ call'[s][x].pc \in {"room", "more", "both", "first", "second", "less"}
                           => ~IsLeaf(s, x)
                      /\ call'[s][x].pc = "first" => call'[s][Left(x)].right = Mid(s, x)
                      /\ call'[s][x].pc = "second" => Done(s, Left(x))'
    BY <1>3 DEF HalvesOK
  <2>1. CASE s = r /\ x = p
    BY <1>1, <2>1
  <2>2. CASE s # r \/ x # p
    <3>1. /\ call[s][x].pc \in {"room", "more", "both", "first", "second", "less"}
                => ~IsLeaf(s, x)
          /\ call[s][x].pc = "first" => call[s][Left(x)].right = Mid(s, x)
          /\ call[s][x].pc = "second" => Done(s, Left(x))
      BY DEF CallsOK, HalvesOK
    <3>2. call[s][x].pc \in {"first", "second"} => Left(x) \in Paths
      <4>1. ~IsLeaf(s, x) => Len(x) < MaxDepth
        BY PathType, SizesAssumption DEF IsLeaf
      <4> QED  BY <3>1, <4>1, ChildPaths
    <3> QED  BY <1>2, <1>3, <2>2, <3>1, <3>2
  <2> QED  BY <2>1, <2>2
<1>7. RangesOK' /\ RangesNested' /\ RangesApart'
  BY <1>3 DEF CallsOK, RangesOK, RangesNested, RangesApart
<1> QED  BY <1>4, <1>5, <1>6, <1>7 DEF CallsOK

\* A call of p is made with the range of its half.
HalfOf(r, p, c) == IF c = Left(p) THEN LeftCall(r, p) ELSE RightCall(r, p)

\* Call p starts the halves in N: both side by side, or first the left and then the right.
Splits(r, p, pc, N) ==
  \/ call[r][p].pc \in {"start", "more"} /\ pc = "both" /\ N = {Left(p), Right(p)}
  \/ call[r][p].pc = "start" /\ pc = "first" /\ N = {Left(p)}
  \/ call[r][p].pc = "first" /\ pc = "second" /\ N = {Right(p)} /\ Done(r, Left(p))

AfterSplit(r, p, pc, N) ==
  [q \in Paths |-> IF q = p THEN [call[r][p] EXCEPT !.pc = pc]
                   ELSE IF q \in N THEN HalfOf(r, p, q) ELSE call[r][q]]

LEMMA CallSplits ==
  ASSUME ControlTypeOK, CallsOK, NEW r \in Requests, NEW p \in Paths,
         NEW pc, NEW N, Splits(r, p, pc, N), ~IsLeaf(r, p), build' = build,
         call' = [call EXCEPT ![r] = AfterSplit(r, p, pc, N)]
  PROVE  CallsOK'
<1> USE DEF Splits
<1>0. /\ N \in SUBSET {Left(p), Right(p)}
      /\ \A s \in Requests, q \in Paths :
           call'[s][q] = IF s = r /\ q = p THEN [call[r][p] EXCEPT !.pc = pc]
                         ELSE IF s = r /\ q \in N THEN HalfOf(r, p, q)
                         ELSE call[s][q]
  BY DEF ControlTypeOK, AfterSplit
<1>1. /\ Len(p) < MaxDepth /\ N \subseteq Paths /\ Left(p) \in Paths /\ Right(p) \in Paths
      /\ Left(p) # Right(p) /\ Left(p) # p /\ Right(p) # p
      /\ Left(p) # Root /\ Right(p) # Root
  <2>1. Len(p) < MaxDepth /\ Len(p) \in Nat
    BY PathType, SizesAssumption DEF IsLeaf
  <2> QED  BY <2>1, ChildPaths, RootPath
<1>2. \A x \in Paths, c \in N : IsStrictPrefix(x, c) <=> x = p \/ IsStrictPrefix(x, p)
  BY <1>1, AboveChild
<1>3. /\ call[r][p] \in Call /\ Active(r, p) /\ Started(r, p)
      /\ call'[r][p] = [call[r][p] EXCEPT !.pc = pc] /\ call'[r][p].pc = pc
  BY <1>0, <1>1, CallFields DEF Active, Started, Call
<1>4. \A c \in N : /\ call'[r][c] = HalfOf(r, p, c)
                   /\ call'[r][c].pc = "start" /\ Active(r, c)' /\ Started(r, c)'
                   /\ call'[r][c].left = (IF c = Left(p) THEN call[r][p].left ELSE Mid(r, p) + 1)
                   /\ call'[r][c].right = (IF c = Left(p) THEN Mid(r, p) ELSE call[r][p].right)
  <2>1. \A c \in N : call'[r][c] = HalfOf(r, p, c)
    BY <1>0, <1>1
  <2>2. \A l, h : /\ Called(l, h).pc = "start"
                 /\ Called(l, h).left = l /\ Called(l, h).right = h
    BY DEF Called, NoCall
  <2> QED  BY <1>1, <2>1, <2>2 DEF HalfOf, LeftCall, RightCall, Active, Started
<1>5. \A s \in Requests, q \in Paths :
        s # r \/ (q # p /\ q \notin N) =>
          /\ call'[s][q] = call[s][q]
          /\ (Started(s, q)' <=> Started(s, q)) /\ (Active(s, q)' <=> Active(s, q))
          /\ (Done(s, q)' <=> Done(s, q))
  BY <1>0 DEF Started, Active, Done
\* A range stays what it is, unless its call starts now.
<1>6. \A s \in Requests, q \in Paths :
        s # r \/ q \notin N =>
          /\ call'[s][q].left = call[s][q].left /\ call'[s][q].right = call[s][q].right
          /\ Mid(s, q)' = Mid(s, q) /\ (IsLeaf(s, q)' <=> IsLeaf(s, q))
          /\ Indices(s, q)' = Indices(s, q)
          /\ (Started(s, q)' <=> Started(s, q))
  <2>1. call'[r][p].left = call[r][p].left /\ call'[r][p].right = call[r][p].right
    BY <1>3 DEF Call
  <2>2. Started(r, p)'
    BY <1>3 DEF Started
  <2>3. \A s \in Requests, q \in Paths :
          s # r \/ q \notin N =>
            /\ call'[s][q].left = call[s][q].left /\ call'[s][q].right = call[s][q].right
            /\ (Started(s, q)' <=> Started(s, q))
    BY <1>3, <1>5, <2>1, <2>2
  <2> QED  BY <2>3 DEF Mid, IsLeaf, Indices
<1>7. \A c \in N, q \in Paths : IsPrefix(c, q) => ~Started(r, q)
  <2> SUFFICES ASSUME NEW c \in N, NEW q \in Paths, IsPrefix(c, q)
               PROVE  ~Started(r, q)
    OBVIOUS
  <2>1. IsStrictPrefix(p, q)
    <3>1. IsStrictPrefix(p, c) /\ c # p
      BY <1>1, <1>2
    <3>2. IsPrefix(p, c) /\ IsPrefix(p, q)
      BY <1>1, <3>1, PrefixOrder DEF IsStrictPrefix
    <3>3. p # q
      BY <1>1, <3>1, <3>2, PrefixOrder
    <3> QED  BY <3>2, <3>3 DEF IsStrictPrefix
  <2>2. CASE call[r][p].pc \in {"start", "more"}
    BY <2>1, <2>2 DEF CallsOK, LaterCalls
  <2>3. CASE call[r][p].pc = "first" /\ N = {Right(p)}
    BY <2>3 DEF CallsOK, LaterCalls
  <2> QED  BY <2>2, <2>3
<1>8. InnerCalls'
  <2> SUFFICES ASSUME NEW s \in Requests, NEW x \in Paths, NEW q \in Paths,
                      IsStrictPrefix(x, q), Active(s, q)'
               PROVE  call'[s][x].pc \in {"both", "first", "second"}
    BY DEF InnerCalls
  <2>1. CASE s # r
    BY <1>5, <2>1 DEF CallsOK, InnerCalls
  <2>2. CASE s = r /\ x = p
    BY <1>3, <2>2
  <2>3. CASE s = r /\ x # p /\ q \in N
    <3>1. IsStrictPrefix(x, p)
      BY <1>2, <2>3
    <3>2. call[r][x].pc \in {"both", "first", "second"}
      BY <1>3, <3>1 DEF CallsOK, InnerCalls
    <3>3. x \notin N
      BY <1>7, <3>2, PrefixOrder DEF Started
    <3> QED  BY <1>5, <2>3, <3>2, <3>3
  <2>4. CASE s = r /\ x # p /\ q \notin N
    <3>1. Active(r, q)
      BY <1>3, <1>5, <2>4
    <3>2. call[r][x].pc \in {"both", "first", "second"}
      BY <2>4, <3>1 DEF CallsOK, InnerCalls
    <3>3. x \notin N
      BY <1>7, <3>2, PrefixOrder DEF Started
    <3> QED  BY <1>5, <2>4, <3>2, <3>3
  <2> QED  BY <2>1, <2>2, <2>3, <2>4
<1>9. LaterCalls'
  <2> SUFFICES ASSUME NEW s \in Requests, NEW x \in Paths, NEW q \in Paths, Started(s, q)'
               PROVE  /\ IsStrictPrefix(x, q) =>
                            call'[s][x].pc \notin {"none", "start", "room", "more"}
                      /\ call'[s][x].pc = "first" => ~IsPrefix(Right(x), q)
    BY DEF LaterCalls
  <2>1. CASE s # r
    BY <1>5, <2>1 DEF CallsOK, LaterCalls
  <2>2. ASSUME s = r, IsStrictPrefix(x, q)
        PROVE  call'[s][x].pc \notin {"none", "start", "room", "more"}
    <3>1. CASE x = p
      BY <1>3, <2>2, <3>1
    <3>2. CASE x # p /\ q \in N
      <4>1. IsStrictPrefix(x, p)
        BY <1>2, <2>2, <3>2
      <4>2. call[r][x].pc \notin {"none", "start", "room", "more"}
        BY <1>3, <4>1 DEF CallsOK, LaterCalls
      <4>3. x \notin N
        BY <1>7, <4>2, PrefixOrder DEF Started
      <4> QED  BY <1>5, <2>2, <3>2, <4>2, <4>3
    <3>3. CASE x # p /\ q \notin N
      <4>1. Started(r, q)
        BY <1>6, <2>2, <3>3
      <4>2. call[r][x].pc \notin {"none", "start", "room", "more"}
        BY <2>2, <4>1 DEF CallsOK, LaterCalls
      <4>3. x \notin N
        BY <1>7, <4>2, PrefixOrder DEF Started
      <4> QED  BY <1>5, <2>2, <3>3, <4>2, <4>3
    <3> QED  BY <3>1, <3>2, <3>3
  <2>3. ASSUME s = r, call'[s][x].pc = "first"
        PROVE  ~IsPrefix(Right(x), q)
    <3>1. CASE x = p
      <4>1. N = {Left(p)} /\ call[r][p].pc = "start"
        BY <1>3, <2>3, <3>1
      <4>2. CASE q = Left(p)
        <5>1. ~IsPrefix(Right(p), Left(p))
          BY <1>1, BelowPath, <1>2, <4>1, PrefixOrder
        <5> QED  BY <3>1, <4>2, <5>1
      <4>3. CASE q # Left(p)
        <5>1. Started(r, q)
          BY <1>6, <2>3, <4>1, <4>3
        <5>2. ~IsStrictPrefix(p, q)
          BY <4>1, <5>1 DEF CallsOK, LaterCalls
        <5>3. SUFFICES ASSUME IsPrefix(Right(p), q) PROVE FALSE
          BY <3>1
        <5>4. IsStrictPrefix(p, Right(p))
          BY <1>1, AboveChild
        <5>5. IsPrefix(p, q) /\ p # q
          BY <1>1, <5>3, <5>4, PrefixOrder DEF IsStrictPrefix
        <5> QED  BY <5>2, <5>5 DEF IsStrictPrefix
      <4> QED  BY <4>2, <4>3
    <3>2. CASE x # p
      <4>1. x \notin N /\ call[r][x].pc = "first"
        BY <1>4, <1>5, <2>3, <3>2
      <4>2. ~IsLeaf(r, x) /\ Right(x) \in Paths
        <5>1. ~IsLeaf(r, x)
          BY <4>1 DEF CallsOK, HalvesOK
        <5>2. Len(x) < MaxDepth
          BY <5>1, PathType, SizesAssumption DEF IsLeaf
        <5> QED  BY <5>1, <5>2, ChildPaths
      <4>3. CASE q \in N
        <5>1. ~IsPrefix(Right(x), p)
          BY <1>3, <4>1 DEF CallsOK, LaterCalls
        <5>2. Right(x) # q
          <6>1. Len(x) < MaxDepth
            BY <4>2, PathType, SizesAssumption DEF IsLeaf
          <6> QED  BY <1>1, <3>2, <4>3, <6>1, OneParent
        <5>3. ASSUME IsPrefix(Right(x), q) PROVE FALSE
          <6>1. Right(x) = p \/ IsStrictPrefix(Right(x), p)
            BY <1>2, <4>2, <4>3, <5>2, <5>3 DEF IsStrictPrefix
          <6> QED  BY <5>1, <6>1, PrefixOrder DEF IsStrictPrefix
        <5> QED  BY <5>3
      <4>4. CASE q \notin N
        BY <1>6, <2>3, <4>1, <4>4 DEF CallsOK, LaterCalls
      <4> QED  BY <4>3, <4>4
    <3> QED  BY <3>1, <3>2
  <2> QED  BY <2>1, <2>2, <2>3
<1>10. HalvesOK'
  <2> SUFFICES ASSUME NEW s \in Requests, NEW x \in Paths
               PROVE  /\ call'[s][x].pc \in {"room", "more", "both", "first", "second", "less"}
                           => ~IsLeaf(s, x)'
                      /\ call'[s][x].pc = "first" => call'[s][Left(x)].right = Mid(s, x)'
                      /\ call'[s][x].pc = "second" => Done(s, Left(x))'
    BY DEF HalvesOK
  <2>1. CASE s = r /\ x = p
    <3>1. ~IsLeaf(s, x)' /\ Mid(s, x)' = Mid(s, x)
      BY <1>6, <2>1, <1>1, <1>7, PrefixOrder, <1>3
    <3>2. pc = "first" => call'[r][Left(p)].right = Mid(r, p)
      BY <1>4
    <3>3. pc = "second" => Done(r, Left(p))'
      BY <1>1, <1>5
    <3> QED  BY <1>3, <2>1, <3>1, <3>2, <3>3
  <2>2. CASE s = r /\ x \in N
    BY <1>4, <2>2
  <2>3. CASE s # r \/ (x # p /\ x \notin N)
    <3>1. /\ call[s][x].pc \in {"room", "more", "both", "first", "second", "less"}
                => ~IsLeaf(s, x)
          /\ call[s][x].pc = "first" => call[s][Left(x)].right = Mid(s, x)
          /\ call[s][x].pc = "second" => Done(s, Left(x))
      BY DEF CallsOK, HalvesOK
    <3>2. /\ call'[s][x] = call[s][x] /\ Mid(s, x)' = Mid(s, x)
          /\ (IsLeaf(s, x)' <=> IsLeaf(s, x))
      BY <1>5, <1>6, <2>3
    <3>3. ASSUME call[s][x].pc \in {"first", "second"}
          PROVE  Left(x) \in Paths /\ (s = r => Left(x) \notin N)
      <4>1. Len(x) < MaxDepth
        BY <3>1, <3>3, PathType, SizesAssumption DEF IsLeaf
      <4> QED  BY <1>1, <2>3, <4>1, ChildPaths, OneParent
    <3>4. call[s][x].pc = "first" => call'[s][Left(x)].right = Mid(s, x)
      BY <1>6, <3>1, <3>3
    <3>5. ASSUME call[s][x].pc = "second"
          PROVE  Done(s, Left(x))'
      <4>1. s # r \/ Left(x) # p
        BY <1>3, <3>1, <3>5 DEF Done, Active
      <4> QED  BY <1>5, <3>1, <3>3, <3>5, <4>1
    <3> QED  BY <3>1, <3>2, <3>4, <3>5
  <2> QED  BY <2>1, <2>2, <2>3
<1>11. /\ call[r][p].left \in Int /\ call[r][p].right \in Int
       /\ Mid(r, p) \in Int
       /\ \/ 0 <= call[r][p].left /\ call[r][p].left <= Mid(r, p)
          \/ call[r][p].left = 1 /\ Mid(r, p) <= 0
       /\ \/ 0 <= Mid(r, p) + 1 /\ Mid(r, p) + 1 <= call[r][p].right
          \/ Mid(r, p) + 1 = 1 /\ call[r][p].right <= 0
       /\ p # Root => /\ call[r][p].left..Mid(r, p) \subseteq Indices(r, p)
                      /\ (Mid(r, p) + 1)..call[r][p].right \subseteq Indices(r, p)
  BY <1>3, CallFields, HalfRanges DEF CallsOK, Indices
<1>12. \A c \in N : Indices(r, c)' = IF c = Left(p) THEN call[r][p].left..Mid(r, p)
                                      ELSE (Mid(r, p) + 1)..call[r][p].right
  BY <1>4 DEF Indices
<1>13. RangesOK'
  <2> SUFFICES ASSUME NEW s \in Requests, NEW q \in Paths, Started(s, q)'
               PROVE  \/ 0 <= call'[s][q].left /\ call'[s][q].left <= call'[s][q].right
                      \/ call'[s][q].left = 1 /\ call'[s][q].right <= 0
                      \/ q = Root /\ call'[s][q].left = 0 /\ call'[s][q].right = -1
    BY DEF RangesOK
  <2>1. CASE s = r /\ q \in N
    BY <1>4, <1>11, <2>1
  <2>2. CASE s # r \/ q \notin N
    BY <1>6, <2>2 DEF CallsOK, RangesOK
  <2> QED  BY <2>1, <2>2
<1>14. RangesNested'
  <2> SUFFICES ASSUME NEW s \in Requests, NEW x \in Paths, NEW q \in Paths,
                      x # Root, IsPrefix(x, q), Started(s, q)'
               PROVE  Indices(s, q)' \subseteq Indices(s, x)'
    BY DEF RangesNested
  <2>1. CASE s # r
    BY <1>6, <2>1 DEF CallsOK, RangesNested
  <2>2. CASE s = r /\ q \in N /\ x # q
    <3>1. x = p \/ IsStrictPrefix(x, p)
      BY <1>2, <2>2 DEF IsStrictPrefix
    <3>2. p # Root
      BY <3>1, RootPath, PrefixOrder DEF IsStrictPrefix
    <3>3. Indices(r, q)' \subseteq Indices(r, p)
      BY <1>11, <1>12, <2>2, <3>2
    <3>4. Indices(r, p) \subseteq Indices(r, x)
      BY <1>3, <3>1, PrefixOrder DEF CallsOK, RangesNested, IsStrictPrefix
    <3>5. x \notin N
      <4>1. IsPrefix(x, p)
        BY <3>1, PrefixOrder DEF IsStrictPrefix
      <4> QED  BY <1>3, <1>7, <4>1
    <3> QED  BY <1>6, <2>2, <3>3, <3>4, <3>5
  <2>3. CASE s = r /\ q \notin N
    <3>1. Started(r, q)
      BY <1>6, <2>3
    <3>2. x \notin N
      BY <1>7, <3>1
    <3> QED  BY <1>6, <2>3, <3>1, <3>2 DEF CallsOK, RangesNested
  <2> QED  BY <2>1, <2>2, <2>3
<1>15. \A c \in N, q \in Paths :
         /\ Started(r, q)' /\ ~IsPrefix(c, q) /\ ~IsPrefix(q, c) =>
              Indices(r, c)' \cap Indices(r, q)' = {}
  <2> SUFFICES ASSUME NEW c \in N, NEW q \in Paths, Started(r, q)',
                      ~IsPrefix(c, q), ~IsPrefix(q, c)
               PROVE  Indices(r, c)' \cap Indices(r, q)' = {}
    OBVIOUS
  <2>1. CASE q \in N
    <3>1. c # q
      BY PrefixOrder
    <3> QED  BY <1>1, <1>11, <1>12, <2>1, <3>1
  <2>2. CASE q \notin N
    <3>1. Started(r, q) /\ Indices(r, q)' = Indices(r, q)
      BY <1>6, <2>2
    <3>2. IsPrefix(p, c)
      BY <1>1, <1>2 DEF IsStrictPrefix
    <3>3. ~IsPrefix(q, p)
      BY <1>1, <3>2, PrefixOrder
    <3>4. CASE IsPrefix(p, q)
      <4>1. IsStrictPrefix(p, q)
        BY <3>3, <3>4, PrefixOrder DEF IsStrictPrefix
      <4>2. IsPrefix(Left(p), q) \/ IsPrefix(Right(p), q)
        BY <4>1, BelowPath
      <4>3. N = {Right(p)} /\ c = Right(p) /\ IsPrefix(Left(p), q) /\ call[r][p].pc = "first"
        <5>1. call[r][p].pc \notin {"start", "more"}
          BY <3>1, <4>1 DEF CallsOK, LaterCalls
        <5> QED  BY <1>7, <3>1, <4>2, <5>1
      <4>4. call[r][Left(p)].right = Mid(r, p)
        BY <4>3 DEF CallsOK, HalvesOK
      <4>5. Indices(r, q) \subseteq Indices(r, Left(p))
        BY <1>1, <3>1, <4>3 DEF CallsOK, RangesNested
      <4>6. Indices(r, c)' = (Mid(r, p) + 1)..call[r][p].right
        BY <1>1, <1>12, <4>3
      <4>7. Indices(r, Left(p)) = call[r][Left(p)].left..Mid(r, p)
        BY <4>4 DEF Indices
      <4>8. call[r][Left(p)].left \in Int
        BY <1>1, CallFields
      <4> QED  BY <1>11, <3>1, <4>5, <4>6, <4>7, <4>8
    <3>5. CASE ~IsPrefix(p, q)
      <4>1. p # Root
        BY <3>5, PrefixOrder
      <4>2. Indices(r, c)' \subseteq Indices(r, p)
        BY <1>11, <1>12, <4>1
      <4>3. Indices(r, p) \cap Indices(r, q) = {}
        BY <1>3, <3>1, <3>3, <3>5 DEF CallsOK, RangesApart
      <4> QED  BY <3>1, <4>2, <4>3
    <3> QED  BY <3>4, <3>5
  <2> QED  BY <2>1, <2>2
<1>16. RangesApart'
  <2> SUFFICES ASSUME NEW s \in Requests, NEW x \in Paths, NEW q \in Paths,
                      Started(s, x)', Started(s, q)', ~IsPrefix(x, q), ~IsPrefix(q, x)
               PROVE  Indices(s, x)' \cap Indices(s, q)' = {}
    BY DEF RangesApart
  <2>1. CASE s = r /\ x \in N
    BY <1>15, <2>1
  <2>2. CASE s = r /\ q \in N
    BY <1>15, <2>2
  <2>3. CASE s # r \/ (x \notin N /\ q \notin N)
    BY <1>6, <2>3 DEF CallsOK, RangesApart
  <2> QED  BY <2>1, <2>2, <2>3
<1> QED  BY <1>8, <1>9, <1>10, <1>13, <1>14, <1>16 DEF CallsOK

\* A new request starts at its root.
LEMMA CallBegins ==
  ASSUME ControlTypeOK, CallsOK, NEW r \in Requests, NEW n \in Nat,
         \A p \in Paths : ~Started(r, p),
         build' = build, call' = [call EXCEPT ![r][Root] = Called(0, n - 1)]
  PROVE  CallsOK'
<1>1. /\ call'[r][Root].pc = "start"
      /\ call'[r][Root].left = 0 /\ call'[r][Root].right = n - 1
  BY RootPath DEF ControlTypeOK, Called, NoCall
<1>2. \A s \in Requests, q \in Paths : s # r \/ q # Root => call'[s][q] = call[s][q]
  BY DEF ControlTypeOK
<1>3. \A s \in Requests, q \in Paths :
        s # r => /\ (Started(s, q)' <=> Started(s, q)) /\ (Active(s, q)' <=> Active(s, q))
                 /\ (Done(s, q)' <=> Done(s, q)) /\ Indices(s, q)' = Indices(s, q)
                 /\ Mid(s, q)' = Mid(s, q) /\ (IsLeaf(s, q)' <=> IsLeaf(s, q))
  BY <1>2 DEF Started, Active, Done, Indices, Mid, IsLeaf
<1>4. \A q \in Paths : q # Root => /\ call'[r][q].pc = "none" /\ ~Started(r, q)'
                                   /\ ~Active(r, q)'
  BY <1>2 DEF Started, Active
<1>5. \A q \in Paths : /\ ~IsStrictPrefix(q, Root)
                       /\ IsPrefix(q, Root) => q = Root
                       /\ IsPrefix(Root, q)
  BY RootPath, PrefixOrder DEF IsStrictPrefix
<1>6. InnerCalls'
  <2> SUFFICES ASSUME NEW s \in Requests, NEW x \in Paths, NEW q \in Paths,
                      IsStrictPrefix(x, q), Active(s, q)'
               PROVE  call'[s][x].pc \in {"both", "first", "second"}
    BY DEF InnerCalls
  <2>1. s # r
    BY <1>4, <1>5
  <2> QED  BY <1>2, <1>3, <2>1 DEF CallsOK, InnerCalls
<1>7. LaterCalls'
  <2> SUFFICES ASSUME NEW s \in Requests, NEW x \in Paths, NEW q \in Paths, Started(s, q)'
               PROVE  /\ IsStrictPrefix(x, q) =>
                            call'[s][x].pc \notin {"none", "start", "room", "more"}
                      /\ call'[s][x].pc = "first" => ~IsPrefix(Right(x), q)
    BY DEF LaterCalls
  <2>1. CASE s = r
    BY <1>1, <1>4, <1>5, <2>1
  <2>2. CASE s # r
    BY <1>2, <1>3, <2>2 DEF CallsOK, LaterCalls
  <2> QED  BY <2>1, <2>2
<1>8. HalvesOK'
  <2> SUFFICES ASSUME NEW s \in Requests, NEW x \in Paths
               PROVE  /\ call'[s][x].pc \in {"room", "more", "both", "first", "second", "less"}
                           => ~IsLeaf(s, x)'
                      /\ call'[s][x].pc = "first" => call'[s][Left(x)].right = Mid(s, x)'
                      /\ call'[s][x].pc = "second" => Done(s, Left(x))'
    BY DEF HalvesOK
  <2>1. CASE s = r
    BY <1>1, <1>4, <2>1
  <2>2. CASE s # r
    <3>1. call'[s] = call[s]
      BY <2>2 DEF ControlTypeOK
    <3>2. Done(s, Left(x)) <=> Done(s, Left(x))'
      BY <3>1 DEF Done
    <3> QED  BY <1>3, <2>2, <3>1, <3>2 DEF CallsOK, HalvesOK
  <2> QED  BY <2>1, <2>2
<1>9. RangesOK'
  <2> SUFFICES ASSUME NEW s \in Requests, NEW q \in Paths, Started(s, q)'
               PROVE  \/ 0 <= call'[s][q].left /\ call'[s][q].left <= call'[s][q].right
                      \/ call'[s][q].left = 1 /\ call'[s][q].right <= 0
                      \/ q = Root /\ call'[s][q].left = 0 /\ call'[s][q].right = -1
    BY DEF RangesOK
  <2>1. CASE s = r
    BY <1>1, <1>4, <2>1
  <2>2. CASE s # r
    BY <1>2, <1>3, <2>2 DEF CallsOK, RangesOK
  <2> QED  BY <2>1, <2>2
<1>10. RangesNested'
  <2> SUFFICES ASSUME NEW s \in Requests, NEW x \in Paths, NEW q \in Paths,
                      x # Root, IsPrefix(x, q), Started(s, q)'
               PROVE  Indices(s, q)' \subseteq Indices(s, x)'
    BY DEF RangesNested
  <2>1. s # r
    BY <1>4, <1>5
  <2> QED  BY <1>3, <2>1 DEF CallsOK, RangesNested
<1>11. RangesApart'
  <2> SUFFICES ASSUME NEW s \in Requests, NEW x \in Paths, NEW q \in Paths,
                      Started(s, x)', Started(s, q)', ~IsPrefix(x, q), ~IsPrefix(q, x)
               PROVE  Indices(s, x)' \cap Indices(s, q)' = {}
    BY DEF RangesApart
  <2>1. s # r
    BY <1>4, <1>5
  <2> QED  BY <1>3, <2>1 DEF CallsOK, RangesApart
<1> QED  BY <1>6, <1>7, <1>8, <1>9, <1>10, <1>11 DEF CallsOK

\* The invariant of the calls speaks of no other variable.
LEMMA CallsStay ==
  ASSUME CallsOK, build' = build, call' = call
  PROVE  CallsOK'
BY DEF CallsOK, InnerCalls, LaterCalls, HalvesOK, RangesOK, RangesNested, RangesApart,
       Started, Active, Done, Indices, Mid, IsLeaf

\* Nobody below a call that is not waiting is at work.
LEMMA NothingBelow ==
  ASSUME CallsOK, NEW r \in Requests, NEW p \in Paths, NEW q \in Paths,
         IsStrictPrefix(p, q), call[r][p].pc \notin {"both", "first", "second"}
  PROVE  ~Active(r, q)
BY DEF CallsOK, InnerCalls

LEMMA NothingBelowJoined ==
  ASSUME CallsOK, NEW r \in Requests, NEW p \in Paths, NEW q \in Paths,
         IsStrictPrefix(p, q), Joined(r, p)
  PROVE  ~Active(r, q)
<1>1. PICK c \in {Left(p), Right(p)} : IsPrefix(c, q)
  BY BelowPath
<1>2. c \in Paths
  BY BelowPath, ChildPaths
<1>3. Done(r, c)
  BY DEF Joined
<1>4. CASE c = q
  BY <1>3, <1>4 DEF Done, Active
<1>5. CASE c # q
  BY <1>1, <1>2, <1>3, <1>5, NothingBelow DEF Done, IsStrictPrefix
<1> QED  BY <1>4, <1>5

-----------------------------------------------------------------------------
(* The steps of the main thread and of handle_request.                     *)

LEMMA Counts ==
  ASSUME NEW n \in Int
  PROVE  More(n) \in 0..(CountMod - 1) /\ Less(n) \in 0..(CountMod - 1)
BY SizesAssumption DEF More, Less

LEMMA RegistersInt == 0..(CountMod - 1) \subseteq Int /\ 0 \in 0..(CountMod - 1)
BY SizesAssumption

LEMMA CalledTyped ==
  ASSUME NEW l \in Int, NEW h \in Int
  PROVE  Called(l, h) \in Call
<1>1. NoCall \in Call
  BY RegistersInt DEF NoCall, Call
<1> QED  BY <1>1 DEF Called, Call

LEMMA MainTyped ==
  ASSUME ControlTypeOK
  PROVE  /\ main.i \in Requests /\ main.reg \in Int
         /\ More(main.reg) \in 0..(CountMod - 1) /\ Less(main.reg) \in 0..(CountMod - 1)
<1>1. main.i \in Requests /\ main.reg \in 0..(CountMod - 1)
  BY DEF ControlTypeOK
<1>2. main.reg \in Int
  BY <1>1, RegistersInt
<1> QED  BY <1>1, <1>2, Counts

LEMMA NextTurnTyped ==
  ASSUME ControlTypeOK, NEW pc, NEW behind, NextTurn(pc, behind),
         pc \in {"load", "join"}, behind \in {"join", "returned"}
  PROVE  main' \in [pc : {"load", "create", "join", "leave", "serve", "returned", "died"},
                   i : Requests, reg : 0..(CountMod - 1)]
<1>1. main.i \in Requests /\ (main.i < NumReqs => main.i + 1 \in Requests) /\ 1 \in Requests
  BY MainTyped, SizesAssumption DEF Requests
<1> QED  BY <1>1 DEF NextTurn, ControlTypeOK

LEMMA MainLoadsInv == IInv /\ MainLoads => IInv'
<1> SUFFICES ASSUME IInv, MainLoads PROVE IInv'
  OBVIOUS
<1>1. ControlTypeOK'
  BY DEF IInv, ControlTypeOK, MainLoads, input
<1>2. CallsOK'
  BY CallsStay DEF IInv, MainLoads, input
<1>3. RequestsOK'
  BY DEF IInv, RequestsOK, MainLoads, Started, Active
<1>4. MainOK'
  BY DEF IInv, MainOK, ControlTypeOK, MainLoads, input
<1> QED  BY <1>1, <1>2, <1>3, <1>4 DEF IInv

LEMMA MainCreatesInv == IInv /\ MainCreates => IInv'
<1> SUFFICES ASSUME IInv, MainCreates PROVE IInv'
  OBVIOUS
<1>1. ControlTypeOK'
  BY MainTyped, NextTurnTyped DEF IInv, ControlTypeOK, MainCreates, input
<1>2. CallsOK'
  BY CallsStay DEF IInv, MainCreates, input
<1>3. RequestsOK'
  <2>1. req[main.i] = "none"
    BY SizesAssumption DEF IInv, MainOK, ControlTypeOK, MainCreates, Requests
  <2> QED  BY <2>1 DEF IInv, ControlTypeOK, RequestsOK, MainCreates, Started, Active
<1>4. MainOK'
  BY SizesAssumption DEF IInv, MainOK, ControlTypeOK, MainCreates, NextTurn, input, Requests
<1> QED  BY <1>1, <1>2, <1>3, <1>4 DEF IInv

LEMMA MainJoinsInv == IInv /\ MainJoins => IInv'
<1> SUFFICES ASSUME IInv, MainJoins PROVE IInv'
  OBVIOUS
<1>1. ControlTypeOK'
  BY DEF IInv, ControlTypeOK, MainJoins, input
<1>2. CallsOK'
  BY CallsStay DEF IInv, MainJoins, input
<1>3. RequestsOK'
  BY DEF IInv, RequestsOK, MainJoins, Started, Active
<1>4. MainOK'
  BY DEF IInv, MainOK, ControlTypeOK, MainJoins, input
<1> QED  BY <1>1, <1>2, <1>3, <1>4 DEF IInv

LEMMA MainLeavesInv == IInv /\ MainLeaves => IInv'
<1> SUFFICES ASSUME IInv, MainLeaves PROVE IInv'
  OBVIOUS
<1>1. ControlTypeOK'
  BY MainTyped, NextTurnTyped DEF IInv, ControlTypeOK, MainLeaves, input
<1>2. CallsOK'
  BY CallsStay DEF IInv, MainLeaves, input
<1>3. RequestsOK'
  BY DEF IInv, RequestsOK, MainLeaves, Started, Active
<1>4. MainOK'
  BY SizesAssumption DEF IInv, MainOK, ControlTypeOK, MainLeaves, NextTurn, input, Requests
<1> QED  BY <1>1, <1>2, <1>3, <1>4 DEF IInv

LEMMA MainReturnsInv == IInv /\ MainReturns => IInv'
<1> SUFFICES ASSUME IInv, MainReturns PROVE IInv'
  OBVIOUS
<1>1. ControlTypeOK'
  BY DEF IInv, ControlTypeOK, MainReturns, input
<1>2. CallsOK'
  BY CallsStay DEF IInv, MainReturns, input
<1>3. RequestsOK'
  BY DEF IInv, RequestsOK, MainReturns, Started, Active
<1>4. MainOK'
  BY DEF IInv, MainOK, ControlTypeOK, MainReturns, input
<1> QED  BY <1>1, <1>2, <1>3, <1>4 DEF IInv

\* A request matches finitely many movies.
LEMMA FilteredNumber ==
  ASSUME ControlTypeOK, NEW r \in Requests
  PROVE  Cardinality(DOMAIN score[r]) \in Nat
<1>1. DOMAIN score[r] \subseteq 1..Len(Title)
  BY ScoresAssumption, TitleAssumption DEF ControlTypeOK, Movies
<1>2. IsFiniteSet(1..Len(Title))
  BY FS_Interval, TitleAssumption
<1> QED  BY <1>1, <1>2, FS_Subset, FS_CardinalityType

LEMMA FilterInv == \A r \in Requests : IInv /\ Filter(r) => IInv'
<1> SUFFICES ASSUME NEW r \in Requests, IInv, Filter(r) PROVE IInv'
  OBVIOUS
<1> DEFINE n == Cardinality(DOMAIN score[r])
<1>1. /\ req[r] = "filter" /\ req' = [req EXCEPT ![r] = "sort"]
      /\ call' = [call EXCEPT ![r][Root] = Called(0, n - 1)]
      /\ UNCHANGED <<input, main, count, answer>>
  BY DEF Filter
<1>2. n \in Nat
  BY FilteredNumber DEF IInv
<1> HIDE DEF n
<1>3. \A p \in Paths : ~Started(r, p)
  BY <1>1 DEF IInv, RequestsOK
<1>4. ControlTypeOK'
  <2>1. Called(0, n - 1) \in Call
    BY <1>2, CalledTyped
  <2> QED  BY <1>1, <2>1, RootPath DEF IInv, ControlTypeOK, input
<1>5. CallsOK'
  BY <1>1, <1>2, <1>3, CallBegins DEF IInv, input
<1>6. RequestsOK'
  BY <1>1, RootPath DEF IInv, ControlTypeOK, RequestsOK, Started, Active
<1>7. MainOK'
  BY <1>1 DEF IInv, ControlTypeOK, MainOK, input
<1> QED  BY <1>4, <1>5, <1>6, <1>7 DEF IInv

LEMMA OutputInv == \A r \in Requests : IInv /\ Output(r) => IInv'
<1> SUFFICES ASSUME NEW r \in Requests, IInv, Output(r) PROVE IInv'
  OBVIOUS
<1>1. /\ req[r] = "sort" /\ Done(r, Root) /\ req' = [req EXCEPT ![r] = "ended"]
      /\ UNCHANGED <<input, main, count, list, call>>
  BY DEF Output
<1>2. ControlTypeOK'
  BY <1>1 DEF IInv, ControlTypeOK, input
<1>3. CallsOK'
  BY <1>1, CallsStay DEF IInv, input
<1>4. \A p \in Paths : ~Active(r, p)
  <2> SUFFICES ASSUME NEW p \in Paths, p # Root PROVE ~Active(r, p)
    BY <1>1 DEF Done, Active
  <2>1. IsStrictPrefix(Root, p)
    BY PrefixOrder, RootPath DEF IsStrictPrefix
  <2> QED  BY <1>1, <2>1, NothingBelow, RootPath DEF IInv, Done
<1>5. RequestsOK'
  BY <1>1, <1>4 DEF IInv, ControlTypeOK, RequestsOK, Started, Active
<1>6. MainOK'
  BY <1>1 DEF IInv, ControlTypeOK, MainOK, input
<1> QED  BY <1>2, <1>3, <1>5, <1>6 DEF IInv

-----------------------------------------------------------------------------
(* The steps of the merge sorts.                                           *)

\* Who works on a call is neither main nor in front of or behind the sort.
LEMMA SortsOnly ==
  ASSUME IInv, NEW r \in Requests, NEW p \in Paths, Active(r, p),
         \A s \in Requests : s # r => call'[s] = call[s],
         build' = build, main' = main, req' = req
  PROVE  RequestsOK' /\ MainOK'
<1>1. req[r] = "sort"
  BY DEF IInv, RequestsOK, ControlTypeOK, Active, Started
<1>2. RequestsOK'
  BY <1>1 DEF IInv, RequestsOK, Started, Active
<1>3. MainOK'
  BY DEF IInv, MainOK
<1> QED  BY <1>2, <1>3

\* A step within call p that starts no other.
LEMMA MovesInv ==
  ASSUME IInv, NEW r \in Requests, NEW p \in Paths, NEW pc, NEW reg \in 0..(CountMod - 1),
         Active(r, p), UNCHANGED <<input, main, req>>, count' \in 0..(CountMod - 1),
         call' = [call EXCEPT ![r][p] = [call[r][p] EXCEPT !.pc = pc, !.reg = reg]],
         pc \in {"room", "more", "less", "done"},
         pc \in {"room", "more"} => call[r][p].pc \in {"start", "room"},
         pc # "done" => ~IsLeaf(r, p),
         \A q \in Paths : IsStrictPrefix(p, q) => ~Active(r, q)
  PROVE  IInv'
<1> DEFINE d == [call[r][p] EXCEPT !.pc = pc, !.reg = reg]
<1>1. /\ d \in Call /\ d.pc = pc /\ d.left = call[r][p].left /\ d.right = call[r][p].right
  BY CallFields DEF IInv, Call
<1> HIDE DEF d
<1>2. call' = [call EXCEPT ![r][p] = d]
  BY DEF d
<1>3. ControlTypeOK'
  BY <1>1, <1>2 DEF IInv, ControlTypeOK, input
<1>4. CallsOK'
  BY <1>1, <1>2, CallMoves DEF IInv, input
<1>5. \A s \in Requests : s # r => call'[s] = call[s]
  BY <1>2 DEF IInv, ControlTypeOK
<1> QED  BY <1>3, <1>4, <1>5, SortsOnly DEF IInv, input

LEMMA SeesRoomInv == \A r \in Requests, p \in Paths : IInv /\ SeesRoom(r, p) => IInv'
<1> SUFFICES ASSUME NEW r \in Requests, NEW p \in Paths, IInv, SeesRoom(r, p) PROVE IInv'
  OBVIOUS
<1>1. call[r][p] \in Call /\ count \in 0..(CountMod - 1)
  BY CallFields DEF IInv, ControlTypeOK
<1>2. call' = [call EXCEPT ![r][p] = [call[r][p] EXCEPT !.pc = "room", !.reg = call[r][p].reg]]
  BY <1>1 DEF SeesRoom, Call
<1>3. call[r][p].reg \in 0..(CountMod - 1)
  BY <1>1 DEF Call
<1>4. \A q \in Paths : IsStrictPrefix(p, q) => ~Active(r, q)
  BY NothingBelow DEF SeesRoom, IInv
<1> QED  BY <1>1, <1>2, <1>3, <1>4, MovesInv DEF SeesRoom, Active

LEMMA LoadsMoreInv == \A r \in Requests, p \in Paths : IInv /\ LoadsMore(r, p) => IInv'
<1> SUFFICES ASSUME NEW r \in Requests, NEW p \in Paths, IInv, LoadsMore(r, p) PROVE IInv'
  OBVIOUS
<1>1. call[r][p] \in Call /\ count \in 0..(CountMod - 1)
  BY CallFields DEF IInv, ControlTypeOK
<1>2. call' = [call EXCEPT ![r][p] = [call[r][p] EXCEPT !.pc = "more", !.reg = count]]
  BY <1>1 DEF LoadsMore, Call
<1>3. ~IsLeaf(r, p)
  BY DEF LoadsMore, IInv, CallsOK, HalvesOK
<1>4. \A q \in Paths : IsStrictPrefix(p, q) => ~Active(r, q)
  BY NothingBelow DEF LoadsMore, IInv
<1> QED  BY <1>1, <1>2, <1>3, <1>4, MovesInv DEF LoadsMore, Active

LEMMA LoadsLessInv == \A r \in Requests, p \in Paths : IInv /\ LoadsLess(r, p) => IInv'
<1> SUFFICES ASSUME NEW r \in Requests, NEW p \in Paths, IInv, LoadsLess(r, p) PROVE IInv'
  OBVIOUS
<1>1. call[r][p] \in Call /\ count \in 0..(CountMod - 1)
  BY CallFields DEF IInv, ControlTypeOK
<1>2. call' = [call EXCEPT ![r][p] = [call[r][p] EXCEPT !.pc = "less", !.reg = count]]
  BY <1>1 DEF LoadsLess, Call
<1>3. ~IsLeaf(r, p)
  BY DEF LoadsLess, IInv, CallsOK, HalvesOK
<1>4. \A q \in Paths : IsStrictPrefix(p, q) => ~Active(r, q)
  BY NothingBelowJoined DEF LoadsLess, IInv
<1> QED  BY <1>1, <1>2, <1>3, <1>4, MovesInv DEF LoadsLess, Active

LEMMA SortLeafInv == \A r \in Requests, p \in Paths : IInv /\ SortLeaf(r, p) => IInv'
<1> SUFFICES ASSUME NEW r \in Requests, NEW p \in Paths, IInv, SortLeaf(r, p) PROVE IInv'
  OBVIOUS
<1>1. call[r][p] \in Call /\ count \in 0..(CountMod - 1)
  BY CallFields DEF IInv, ControlTypeOK
<1>2. call' = [call EXCEPT ![r][p] = [call[r][p] EXCEPT !.pc = "done", !.reg = call[r][p].reg]]
  BY <1>1 DEF SortLeaf, Call
<1>3. call[r][p].reg \in 0..(CountMod - 1)
  BY <1>1 DEF Call
<1>4. \A q \in Paths : IsStrictPrefix(p, q) => ~Active(r, q)
  BY NothingBelow DEF SortLeaf, IInv
<1> QED  BY <1>1, <1>2, <1>3, <1>4, MovesInv DEF SortLeaf, Active

LEMMA SortStaleInv ==
  \A r \in Requests, p \in Paths : IInv /\ SortStale(r, p) => IInv'
<1> SUFFICES ASSUME NEW r \in Requests, NEW p \in Paths, IInv, SortStale(r, p) PROVE IInv'
  OBVIOUS
<1>1. call[r][p] \in Call /\ count \in 0..(CountMod - 1)
  BY CallFields DEF IInv, ControlTypeOK
<1>2. call' = [call EXCEPT ![r][p] = [call[r][p] EXCEPT !.pc = "done", !.reg = call[r][p].reg]]
  BY <1>1 DEF SortStale, Call
<1>3. call[r][p].reg \in 0..(CountMod - 1)
  BY <1>1 DEF Call
<1>4. \A q \in Paths : IsStrictPrefix(p, q) => ~Active(r, q)
  BY NothingBelow DEF SortStale, Misses, IInv
<1> QED  BY <1>1, <1>2, <1>3, <1>4, MovesInv DEF SortStale, Misses, Active

\* Every merge ends a call whose halves are done.
LEMMA MergeHalvesInv ==
  ASSUME IInv, NEW r \in Requests, NEW p \in Paths, MergeHalves(r, p), Active(r, p),
         count' \in 0..(CountMod - 1),
         \A q \in Paths : IsStrictPrefix(p, q) => ~Active(r, q)
  PROVE  IInv'
<1>1. call[r][p] \in Call
  BY CallFields DEF IInv
<1>2. call' = [call EXCEPT ![r][p] = [call[r][p] EXCEPT !.pc = "done", !.reg = call[r][p].reg]]
  BY <1>1 DEF MergeHalves, Call
<1>3. call[r][p].reg \in 0..(CountMod - 1)
  BY <1>1 DEF Call
<1> QED  BY <1>1, <1>2, <1>3, MovesInv DEF MergeHalves

LEMMA MergeAfterThreadInv ==
  \A r \in Requests, p \in Paths : IInv /\ MergeAfterThread(r, p) => IInv'
<1> SUFFICES ASSUME NEW r \in Requests, NEW p \in Paths, IInv, MergeAfterThread(r, p)
             PROVE  IInv'
  OBVIOUS
<1>1. call[r][p].reg \in Int
  BY CallFields, RegistersInt DEF IInv
<1>2. count' \in 0..(CountMod - 1)
  BY <1>1, Counts DEF MergeAfterThread
<1>3. \A q \in Paths : IsStrictPrefix(p, q) => ~Active(r, q)
  BY NothingBelow DEF MergeAfterThread, IInv
<1> QED  BY <1>2, <1>3, MergeHalvesInv DEF MergeAfterThread, Active

LEMMA MergeAfterForkInv ==
  \A r \in Requests, p \in Paths : IInv /\ MergeAfterFork(r, p) => IInv'
<1> SUFFICES ASSUME NEW r \in Requests, NEW p \in Paths, IInv, MergeAfterFork(r, p)
             PROVE  IInv'
  OBVIOUS
<1>1. count' \in 0..(CountMod - 1)
  BY DEF MergeAfterFork, IInv, ControlTypeOK
<1>2. \A q \in Paths : IsStrictPrefix(p, q) => ~Active(r, q)
  BY NothingBelowJoined DEF MergeAfterFork, IInv
<1> QED  BY <1>1, <1>2, MergeHalvesInv DEF MergeAfterFork, Active

LEMMA MergeAloneInv ==
  \A r \in Requests, p \in Paths : IInv /\ MergeAlone(r, p) => IInv'
<1> SUFFICES ASSUME NEW r \in Requests, NEW p \in Paths, IInv, MergeAlone(r, p)
             PROVE  IInv'
  OBVIOUS
<1>1. count' \in 0..(CountMod - 1)
  BY DEF MergeAlone, IInv, ControlTypeOK
<1>2. Joined(r, p)
  BY DEF MergeAlone, Joined, IInv, CallsOK, HalvesOK
<1>3. \A q \in Paths : IsStrictPrefix(p, q) => ~Active(r, q)
  BY <1>2, NothingBelowJoined DEF IInv
<1> QED  BY <1>1, <1>3, MergeHalvesInv DEF MergeAlone, Active

\* A step that starts halves of p.
LEMMA SplitsInv ==
  ASSUME IInv, NEW r \in Requests, NEW p \in Paths,
         NEW pc, NEW N, Splits(r, p, pc, N), ~IsLeaf(r, p),
         UNCHANGED <<input, main, req>>, count' \in 0..(CountMod - 1),
         call' = [call EXCEPT ![r] = AfterSplit(r, p, pc, N)]
  PROVE  IInv'
<1>1. Mid(r, p) \in Int
  BY HalfRanges DEF IInv, CallsOK, Started, Splits
<1>2. \A q \in N : HalfOf(r, p, q) \in Call
  <2>1. call[r][p].left \in Int /\ call[r][p].right \in Int
    BY CallFields DEF IInv
  <2> QED  BY <1>1, <2>1, CalledTyped DEF HalfOf, LeftCall, RightCall
<1>3. [call[r][p] EXCEPT !.pc = pc] \in Call
  BY CallFields DEF IInv, Call, Splits
<1>4. call' \in [Requests -> [Paths -> Call]]
  <2>1. AfterSplit(r, p, pc, N) \in [Paths -> Call]
    BY <1>2, <1>3 DEF IInv, ControlTypeOK, AfterSplit
  <2> QED  BY <2>1 DEF IInv, ControlTypeOK
<1>5. ControlTypeOK'
  BY <1>4 DEF IInv, ControlTypeOK, input
<1>6. CallsOK'
  BY CallSplits DEF IInv, input
<1>7. Active(r, p) /\ \A s \in Requests : s # r => call'[s] = call[s]
  BY DEF Active, Splits, IInv, ControlTypeOK
<1> QED  BY <1>5, <1>6, <1>7, SortsOnly DEF IInv, input

\* The children of a call that is no leaf.
LEMMA Halves ==
  ASSUME NEW r \in Requests, NEW p \in Paths, ~IsLeaf(r, p)
  PROVE  /\ Left(p) \in Paths /\ Right(p) \in Paths
         /\ Left(p) # p /\ Right(p) # p /\ Left(p) # Right(p)
<1>1. Len(p) < MaxDepth /\ Len(p) \in Nat
  BY PathType, SizesAssumption DEF IsLeaf
<1> QED  BY <1>1, ChildPaths

LEMMA CreatesThreadInv ==
  \A r \in Requests, p \in Paths : IInv /\ CreatesThread(r, p) => IInv'
<1> SUFFICES ASSUME NEW r \in Requests, NEW p \in Paths, IInv, CreatesThread(r, p)
             PROVE  IInv'
  OBVIOUS
<1>1. ~IsLeaf(r, p)
  BY DEF CreatesThread, IInv, CallsOK, HalvesOK
<1>2. count' \in 0..(CountMod - 1)
  BY CallFields, RegistersInt, Counts DEF CreatesThread, IInv
<1>3. call' = [call EXCEPT ![r] = AfterSplit(r, p, "both", {Left(p), Right(p)})]
  BY <1>1, Halves DEF CreatesThread, IInv, ControlTypeOK, HalfOf, AfterSplit
<1>4. Splits(r, p, "both", {Left(p), Right(p)})
  BY DEF Splits, CreatesThread
<1> QED  BY <1>1, <1>2, <1>3, <1>4, SplitsInv DEF CreatesThread

LEMMA ForksInv == \A r \in Requests, p \in Paths : IInv /\ Forks(r, p) => IInv'
<1> SUFFICES ASSUME NEW r \in Requests, NEW p \in Paths, IInv, Forks(r, p) PROVE IInv'
  OBVIOUS
<1>1. ~IsLeaf(r, p)
  BY DEF Forks
<1>2. count' \in 0..(CountMod - 1)
  BY DEF Forks, IInv, ControlTypeOK
<1>3. call' = [call EXCEPT ![r] = AfterSplit(r, p, "both", {Left(p), Right(p)})]
  BY <1>1, Halves DEF Forks, IInv, ControlTypeOK, HalfOf, AfterSplit
<1>4. Splits(r, p, "both", {Left(p), Right(p)})
  BY DEF Splits, Forks
<1> QED  BY <1>1, <1>2, <1>3, <1>4, SplitsInv DEF Forks

LEMMA SeesFullInv == \A r \in Requests, p \in Paths : IInv /\ SeesFull(r, p) => IInv'
<1> SUFFICES ASSUME NEW r \in Requests, NEW p \in Paths, IInv, SeesFull(r, p) PROVE IInv'
  OBVIOUS
<1>1. ~IsLeaf(r, p)
  BY DEF SeesFull
<1>2. count' \in 0..(CountMod - 1)
  BY DEF SeesFull, IInv, ControlTypeOK
<1>3. call' = [call EXCEPT ![r] = AfterSplit(r, p, "first", {Left(p)})]
  BY <1>1, Halves DEF SeesFull, IInv, ControlTypeOK, HalfOf, AfterSplit
<1>4. Splits(r, p, "first", {Left(p)})
  BY DEF Splits, SeesFull
<1> QED  BY <1>1, <1>2, <1>3, <1>4, SplitsInv DEF SeesFull

LEMMA TurnsRightInv == \A r \in Requests, p \in Paths : IInv /\ TurnsRight(r, p) => IInv'
<1> SUFFICES ASSUME NEW r \in Requests, NEW p \in Paths, IInv, TurnsRight(r, p) PROVE IInv'
  OBVIOUS
<1>1. ~IsLeaf(r, p)
  BY DEF TurnsRight, IInv, CallsOK, HalvesOK
<1>2. count' \in 0..(CountMod - 1)
  BY DEF TurnsRight, IInv, ControlTypeOK
<1>3. call' = [call EXCEPT ![r] = AfterSplit(r, p, "second", {Right(p)})]
  BY <1>1, Halves DEF TurnsRight, IInv, ControlTypeOK, HalfOf, AfterSplit
<1>4. Splits(r, p, "second", {Right(p)})
  BY DEF Splits, TurnsRight
<1> QED  BY <1>1, <1>2, <1>3, <1>4, SplitsInv DEF TurnsRight

\* The process that sorts nothing takes all calls with it.
LEMMA SortNothingInv ==
  \A r \in Requests, p \in Paths : IInv /\ SortNothing(r, p) => IInv'
<1> SUFFICES ASSUME NEW r \in Requests, NEW p \in Paths, IInv, SortNothing(r, p)
             PROVE  IInv'
  OBVIOUS
<1>1. \A s \in Requests, q \in Paths : /\ call'[s][q].pc = "none" /\ ~Started(s, q)'
                                        /\ ~Active(s, q)'
  BY DEF SortNothing, NoCall, Started, Active
<1>2. ControlTypeOK'
  <2>1. NoCall \in Call
    BY RegistersInt DEF NoCall, Call
  <2> QED  BY <2>1 DEF SortNothing, IInv, ControlTypeOK, input
<1>3. CallsOK'
  BY <1>1 DEF CallsOK, InnerCalls, LaterCalls, HalvesOK, RangesOK, RangesNested, RangesApart
<1>4. RequestsOK'
  BY <1>1 DEF RequestsOK
<1>5. MainOK'
  BY DEF SortNothing, MainOK, IInv, input
<1> QED  BY <1>2, <1>3, <1>4, <1>5 DEF IInv

-----------------------------------------------------------------------------
LEMMA InitInv == Init => IInv
<1> SUFFICES ASSUME Init PROVE IInv
  OBVIOUS
<1>1. \A r \in Requests, p \in Paths : /\ call[r][p].pc = "none" /\ ~Started(r, p)
                                        /\ ~Active(r, p)
  BY DEF Init, NoCall, Started, Active
<1>2. ControlTypeOK
  <2>1. NoCall \in Call /\ 1 \in Requests /\ 0 \in 0..(CountMod - 1)
    BY RegistersInt, SizesAssumption DEF NoCall, Call, Requests
  <2> QED  BY <2>1, BuildAssumption DEF Init, ControlTypeOK
<1>3. CallsOK
  BY <1>1 DEF CallsOK, InnerCalls, LaterCalls, HalvesOK, RangesOK, RangesNested, RangesApart
<1>4. RequestsOK
  BY <1>1 DEF RequestsOK
<1>5. MainOK
  BY DEF Init, MainOK
<1> QED  BY <1>2, <1>3, <1>4, <1>5 DEF IInv

LEMMA NextInv == IInv /\ [Next]_vars => IInv'
<1> SUFFICES ASSUME IInv, [Next]_vars PROVE IInv'
  OBVIOUS
<1>1. CASE Main
  BY <1>1, MainLoadsInv, MainCreatesInv, MainJoinsInv, MainLeavesInv, MainReturnsInv DEF Main
<1>2. CASE \E r \in Requests : Handle(r)
  BY <1>2, FilterInv, OutputInv DEF Handle
<1>3. CASE \E r \in Requests, p \in Paths : MergeSort(r, p)
  BY <1>3, SortLeafInv, SortNothingInv, SortStaleInv, SeesRoomInv, LoadsMoreInv, CreatesThreadInv,
     ForksInv, SeesFullInv, TurnsRightInv, LoadsLessInv, MergeAfterThreadInv, MergeAfterForkInv,
     MergeAloneInv DEF MergeSort
<1>4. CASE UNCHANGED vars
  <2>1. UNCHANGED <<input, main, count, req, call>>
    BY <1>4 DEF vars
  <2>2. CallsOK'
    BY <2>1, CallsStay DEF IInv, input
  <2>3. ControlTypeOK' /\ RequestsOK' /\ MainOK'
    BY <2>1 DEF IInv, input, ControlTypeOK, RequestsOK, MainOK, Started, Active
  <2> QED  BY <2>2, <2>3 DEF IInv
<1> QED  BY <1>1, <1>2, <1>3, <1>4 DEF Next, Terminating

(* The inductive invariant IInv holds in every reachable state of both     *)
(* programs.                                                               *)
THEOREM Invariance == Spec => []IInv
BY InitInv, NextInv, PTL DEF Spec

(* Calls of the merge sort that can run at the same time, in threads or in *)
(* processes, have no index of the list in common (server.c 157-247).      *)
THEOREM CallsApart == Spec => []NoOverlap
<1>1. IInv => NoOverlap
  <2> SUFFICES ASSUME IInv, NEW r \in Requests, NEW p \in Paths, NEW q \in Paths,
                      Working(r, p), Working(r, q), p # q
               PROVE  Indices(r, p) \cap Indices(r, q) = {}
    BY DEF NoOverlap
  <2>1. ~IsPrefix(p, q) /\ ~IsPrefix(q, p)
    BY DEF Working, IsStrictPrefix
  <2> QED  BY <2>1 DEF IInv, CallsOK, RangesApart, Working, Active, Started
<1> QED  BY <1>1, Invariance, PTL

(* When a request's list is freed, and when main returns, no thread of the *)
(* request is at work on it (server.c 265, 332).                           *)
THEOREM ListsLive == Spec => []NoWorkAfterFree
<1>1. IInv => NoWorkAfterFree
  BY DEF IInv, RequestsOK, MainOK, ControlTypeOK, NoWorkAfterFree, Active, Started
<1> QED  BY <1>1, Invariance, PTL
=============================================================================
