-------------------------- MODULE MovieAnswersProofs --------------------------
(* Theorems about the lists of MovieServer and what is answered from them, *)
(* for every table of movies, depth, thread limit and leaf size.           *)
EXTENDS MovieServerProofs, MovieListsProofs

-----------------------------------------------------------------------------
(* Paths and their parents.                                                *)

LEMMA FrontPath ==
  ASSUME NEW x \in Paths, x # Root
  PROVE  /\ Front(x) \in Paths /\ Len(Front(x)) = Len(x) - 1
         /\ IsStrictPrefix(Front(x), x)
         /\ x \in {Left(Front(x)), Right(Front(x))}
<1>1. /\ x \in Seq({0, 1}) /\ Len(x) \in 0..MaxDepth /\ DOMAIN x = 1..Len(x)
      /\ \A i \in 1..Len(x) : x[i] \in {0, 1}
  BY PathType
<1>2. Len(x) # 0
  BY <1>1, PathsEqual, RootPath
<1>3. /\ Front(x) \in Seq({0, 1}) /\ Len(Front(x)) = Len(x) - 1
      /\ \A i \in 1..(Len(x) - 1) : Front(x)[i] = x[i]
  BY <1>1, <1>2 DEF Front
<1>4. MaxDepth \in Nat
  BY SizesAssumption
<1>5. Front(x) \in Paths
  <2>1. \A s \in Seq({0, 1}) : s \in [1..Len(s) -> {0, 1}]
    OBVIOUS
  <2>2. Front(x) \in [1..(Len(x) - 1) -> {0, 1}]
    BY <1>3, <2>1
  <2>3. Len(x) - 1 \in 0..MaxDepth
    BY <1>1, <1>2, <1>4
  <2> QED  BY <2>2, <2>3 DEF Paths, SeqOf
<1>6. Len(Front(x)) < MaxDepth
  BY <1>1, <1>3, <1>4
<1>7. /\ Left(Front(x)) \in Paths /\ Right(Front(x)) \in Paths
      /\ Len(Left(Front(x))) = Len(x) /\ Len(Right(Front(x))) = Len(x)
      /\ \A i \in 1..(Len(x) - 1) : Left(Front(x))[i] = x[i] /\ Right(Front(x))[i] = x[i]
      /\ Left(Front(x))[Len(x)] = 0 /\ Right(Front(x))[Len(x)] = 1
  BY <1>1, <1>2, <1>3, <1>5, <1>6, ChildPaths
<1>8. x[Len(x)] \in {0, 1}
  BY <1>1, <1>2
<1>9. CASE x[Len(x)] = 0
  <2>1. \A i \in 1..Len(x) : Left(Front(x))[i] = x[i]
    BY <1>1, <1>2, <1>7, <1>9
  <2>2. Left(Front(x)) = x
    BY <1>7, <2>1, PathsEqual
  <2> QED  BY <1>3, <1>5, <1>6, <2>2, AboveChild
<1>10. CASE x[Len(x)] = 1
  <2>1. \A i \in 1..Len(x) : Right(Front(x))[i] = x[i]
    BY <1>1, <1>2, <1>7, <1>10
  <2>2. Right(Front(x)) = x
    BY <1>7, <2>1, PathsEqual
  <2> QED  BY <1>3, <1>5, <1>6, <2>2, AboveChild
<1> QED  BY <1>8, <1>9, <1>10

LEMMA FrontOfChild ==
  ASSUME NEW x \in Paths, Len(x) < MaxDepth, NEW c \in {Left(x), Right(x)}
  PROVE  c \in Paths /\ c # Root /\ c # x /\ Front(c) = x /\ Left(x) # Right(x)
<1>1. /\ c \in Paths /\ Len(c) = Len(x) + 1 /\ Left(x) # Right(x)
  BY ChildPaths, PathType
<1>2. c # Root /\ c # x
  BY <1>1, PathType, RootPath
<1>3. /\ Front(c) \in Paths /\ Len(Front(c)) = Len(c) - 1
      /\ c \in {Left(Front(c)), Right(Front(c))}
  BY <1>1, <1>2, FrontPath
<1>4. Len(Front(c)) < MaxDepth
  BY <1>1, <1>3, PathType
<1> QED  BY <1>1, <1>2, <1>3, <1>4, OneParent

\* What is above a path is its parent or above that.
LEMMA AboveFront ==
  ASSUME NEW x \in Paths, x # Root, NEW p \in Paths, IsStrictPrefix(p, x)
  PROVE  p = Front(x) \/ IsStrictPrefix(p, Front(x))
<1>1. /\ Front(x) \in Paths /\ Len(Front(x)) = Len(x) - 1
      /\ x \in {Left(Front(x)), Right(Front(x))}
  BY FrontPath
<1>2. Len(Front(x)) < MaxDepth
  BY <1>1, PathType, SizesAssumption
<1> QED  BY <1>1, <1>2, AboveChild

\* A call with halves has paths below it.
LEMMA HalvesHavePaths ==
  ASSUME CallsOK, NEW r \in Requests, NEW p \in Paths,
         call[r][p].pc \in {"room", "more", "both", "first", "second", "less"}
  PROVE  /\ ~IsLeaf(r, p) /\ Len(p) < MaxDepth
         /\ Left(p) \in Paths /\ Right(p) \in Paths /\ Left(p) # Right(p)
         /\ Left(p) # p /\ Right(p) # p /\ Left(p) # Root /\ Right(p) # Root
         /\ Front(Left(p)) = p /\ Front(Right(p)) = p
<1>1. ~IsLeaf(r, p)
  BY DEF CallsOK, HalvesOK
<1>2. Len(p) < MaxDepth
  BY <1>1, PathType, SizesAssumption DEF IsLeaf
<1> QED  BY <1>1, <1>2, FrontOfChild

-----------------------------------------------------------------------------
(* The ranges of calls and their halves.                                   *)

\* Call p goes on as d and starts no other.
Moves(r, p, d) ==
  /\ Active(r, p) /\ d \in Call /\ call' = [call EXCEPT ![r][p] = d]
  /\ d.left = call[r][p].left /\ d.right = call[r][p].right
  /\ d.pc \in {"room", "more", "less", "done"}
  /\ d.pc = "less" => call[r][p].pc = "both" /\ Joined(r, p)

LEMMA MovedCalls ==
  ASSUME ControlTypeOK, NEW r \in Requests, NEW p \in Paths, NEW d, Moves(r, p, d)
  PROVE  /\ call'[r][p] = d /\ call'[r][p].pc = d.pc
         /\ \A s \in Requests, q \in Paths :
              /\ s # r \/ q # p => call'[s][q] = call[s][q]
              /\ call'[s][q].left = call[s][q].left /\ call'[s][q].right = call[s][q].right
              /\ Mid(s, q)' = Mid(s, q) /\ Indices(s, q)' = Indices(s, q)
              /\ (Started(s, q)' <=> Started(s, q))
              /\ Done(s, q) => Done(s, q)'
<1>1. call'[r][p] = d
  BY DEF Moves, ControlTypeOK
<1>2. \A s \in Requests, q \in Paths : s # r \/ q # p => call'[s][q] = call[s][q]
  BY DEF Moves, ControlTypeOK
<1>3. \A s \in Requests, q \in Paths :
        call'[s][q].left = call[s][q].left /\ call'[s][q].right = call[s][q].right
  BY <1>1, <1>2 DEF Moves
<1>4. \A s \in Requests, q \in Paths : /\ (Started(s, q)' <=> Started(s, q))
                                       /\ Done(s, q) => Done(s, q)'
  BY <1>1, <1>2 DEF Moves, Started, Done, Active
<1>5. \A s \in Requests, q \in Paths :
        Mid(s, q)' = Mid(s, q) /\ Indices(s, q)' = Indices(s, q)
  BY <1>3 DEF Mid, Indices
<1> QED  BY <1>1, <1>2, <1>3, <1>4, <1>5

LEMMA MovesExact ==
  ASSUME ControlTypeOK, CallsOK, HalvesExact, NEW r \in Requests, NEW p \in Paths, NEW d,
         Moves(r, p, d)
  PROVE  HalvesExact'
<1> SUFFICES ASSUME NEW s \in Requests, NEW x \in Paths
             PROVE  /\ call'[s][x].pc \in {"both", "first", "second", "less"} =>
                         /\ call'[s][Left(x)].left = call'[s][x].left
                         /\ call'[s][Left(x)].right = Mid(s, x)'
                    /\ call'[s][x].pc \in {"both", "second", "less"} =>
                         /\ call'[s][Right(x)].left = Mid(s, x)' + 1
                         /\ call'[s][Right(x)].right = call'[s][x].right
                    /\ call'[s][x].pc = "less" => Joined(s, x)'
  BY DEF HalvesExact
<1>0. /\ call'[r][p].pc = d.pc /\ d.pc \in {"room", "more", "less", "done"}
      /\ d.pc = "less" => call[r][p].pc = "both" /\ Joined(r, p)
  <2>1. call'[r][p].pc = d.pc
    BY MovedCalls
  <2> QED  BY <2>1 DEF Moves
<1>1. CASE s = r /\ x = p /\ d.pc # "less"
  BY <1>0, <1>1
<1>2. CASE s = r /\ x = p /\ d.pc = "less"
  <2>1. call[r][p].pc = "both" /\ Joined(r, p) /\ call'[r][p].pc = "less"
    BY <1>0, <1>2
  <2>2. Left(p) \in Paths /\ Right(p) \in Paths
    BY <2>1, HalvesHavePaths
  <2>3. /\ call[r][Left(p)].left = call[r][p].left /\ call[r][Left(p)].right = Mid(r, p)
        /\ call[r][Right(p)].left = Mid(r, p) + 1
        /\ call[r][Right(p)].right = call[r][p].right
    BY <2>1 DEF HalvesExact
  <2>4. Joined(r, p)'
    BY <2>1, <2>2, MovedCalls DEF Joined
  <2> QED  BY <1>2, <2>1, <2>2, <2>3, <2>4, MovedCalls
<1>3. CASE s # r \/ x # p
  <2>1. call'[s][x] = call[s][x]
    BY <1>3, MovedCalls
  <2> SUFFICES ASSUME call[s][x].pc \in {"both", "first", "second", "less"}
               PROVE  /\ /\ call'[s][Left(x)].left = call'[s][x].left
                         /\ call'[s][Left(x)].right = Mid(s, x)'
                      /\ call[s][x].pc \in {"both", "second", "less"} =>
                           /\ call'[s][Right(x)].left = Mid(s, x)' + 1
                           /\ call'[s][Right(x)].right = call'[s][x].right
                      /\ call[s][x].pc = "less" => Joined(s, x)'
    BY <2>1
  <2>2. Left(x) \in Paths /\ Right(x) \in Paths
    BY HalvesHavePaths
  <2>3. call[s][x].pc = "less" => Joined(s, x)'
    BY <2>2, MovedCalls DEF HalvesExact, Joined
  <2>4. /\ call[s][Left(x)].left = call[s][x].left /\ call[s][Left(x)].right = Mid(s, x)
        /\ call[s][x].pc \in {"both", "second", "less"} =>
             /\ call[s][Right(x)].left = Mid(s, x) + 1
             /\ call[s][Right(x)].right = call[s][x].right
    BY DEF HalvesExact
  <2> QED  BY <2>2, <2>3, <2>4, MovedCalls
<1> QED  BY <1>1, <1>2, <1>3

\* What a step that starts halves of p does to the calls.
SplitsTo(r, p, pc, N) ==
  /\ Splits(r, p, pc, N) /\ ~IsLeaf(r, p)
  /\ call' = [call EXCEPT ![r] = AfterSplit(r, p, pc, N)]

LEMMA CalledFields ==
  \A l, h : Called(l, h).pc = "start" /\ Called(l, h).left = l /\ Called(l, h).right = h
BY DEF Called, NoCall

HalvesStart(r, p, pc, N) ==
  /\ Len(p) < MaxDepth /\ Left(p) \in Paths /\ Right(p) \in Paths
  /\ N \subseteq {Left(p), Right(p)} /\ p \notin N /\ Left(p) # Right(p) /\ Root \notin N
  /\ Front(Left(p)) = p /\ Front(Right(p)) = p
  /\ Active(r, p) /\ call'[r][p] = [call[r][p] EXCEPT !.pc = pc] /\ call'[r][p].pc = pc
  /\ \A q \in N : call'[r][q] = HalfOf(r, p, q) /\ ~Started(r, q)
  /\ \A s \in Requests, q \in Paths :
       /\ s # r \/ (q # p /\ q \notin N) => call'[s][q] = call[s][q]
       /\ s # r \/ q \notin N =>
            /\ call'[s][q].left = call[s][q].left
            /\ call'[s][q].right = call[s][q].right
            /\ Mid(s, q)' = Mid(s, q) /\ Indices(s, q)' = Indices(s, q)
       /\ Done(s, q)' <=> Done(s, q)

LEMMA SplitCalls ==
  ASSUME ControlTypeOK, CallsOK, NEW r \in Requests, NEW p \in Paths, NEW pc, NEW N,
         SplitsTo(r, p, pc, N)
  PROVE  HalvesStart(r, p, pc, N)
<1>1. /\ Len(p) < MaxDepth /\ Left(p) \in Paths /\ Right(p) \in Paths
      /\ Left(p) # Right(p) /\ p # Left(p) /\ p # Right(p)
      /\ Left(p) # Root /\ Right(p) # Root
      /\ IsStrictPrefix(p, Left(p)) /\ IsStrictPrefix(p, Right(p))
      /\ Front(Left(p)) = p /\ Front(Right(p)) = p
  <2>1. Len(p) < MaxDepth
    BY PathType, SizesAssumption DEF SplitsTo, IsLeaf
  <2> QED  BY <2>1, FrontOfChild, AboveChild
<1>2. N \subseteq {Left(p), Right(p)} /\ p \notin N /\ Root \notin N /\ Active(r, p)
  BY <1>1 DEF SplitsTo, Splits, Active
<1>3. \A s \in Requests, q \in Paths :
        call'[s][q] = IF s = r /\ q = p THEN [call[r][p] EXCEPT !.pc = pc]
                      ELSE IF s = r /\ q \in N THEN HalfOf(r, p, q)
                      ELSE call[s][q]
  BY DEF SplitsTo, ControlTypeOK, AfterSplit
<1>4. call'[r][p] = [call[r][p] EXCEPT !.pc = pc] /\ call'[r][p].pc = pc
  BY <1>3, CallFields DEF Call
<1>5. \A q \in N : call'[r][q] = HalfOf(r, p, q)
  BY <1>1, <1>2, <1>3
<1>6. \A q \in N : ~Started(r, q)
  <2>1. CASE call[r][p].pc \in {"start", "more"}
    BY <1>1, <1>2, <2>1 DEF CallsOK, LaterCalls
  <2>2. CASE call[r][p].pc = "first" /\ N = {Right(p)}
    BY <1>1, <2>2, PrefixOrder DEF CallsOK, LaterCalls
  <2> QED  BY <2>1, <2>2 DEF SplitsTo, Splits
<1>7. \A s \in Requests, q \in Paths :
        s # r \/ (q # p /\ q \notin N) => call'[s][q] = call[s][q]
  BY <1>3
<1>8. \A s \in Requests, q \in Paths :
        s # r \/ q \notin N =>
          call'[s][q].left = call[s][q].left /\ call'[s][q].right = call[s][q].right
  BY <1>4, <1>7, CallFields DEF Call
<1>9. \A s \in Requests, q \in Paths :
        s # r \/ q \notin N => Mid(s, q)' = Mid(s, q) /\ Indices(s, q)' = Indices(s, q)
  BY <1>8 DEF Mid, Indices
<1>10. \A s \in Requests, q \in Paths : Done(s, q)' <=> Done(s, q)
  <2>1. ~Done(r, p) /\ ~Done(r, p)'
    BY <1>2, <1>4 DEF Done, Active, SplitsTo, Splits
  <2>2. \A q \in N : ~Done(r, q) /\ ~Done(r, q)'
    <3>1. \A q \in N : HalfOf(r, p, q).pc = "start"
      BY CalledFields DEF HalfOf, LeftCall, RightCall
    <3> QED  BY <1>5, <1>6, <3>1 DEF Done, Started
  <2> QED  BY <1>7, <2>1, <2>2 DEF Done
<1> QED
  BY <1>1, <1>2, <1>4, <1>5, <1>6, <1>7, <1>8, <1>9, <1>10 DEF HalvesStart

LEMMA SplitsExact ==
  ASSUME ControlTypeOK, CallsOK, HalvesExact, NEW r \in Requests, NEW p \in Paths,
         NEW pc, NEW N, SplitsTo(r, p, pc, N)
  PROVE  HalvesExact'
<1> SUFFICES ASSUME NEW s \in Requests, NEW x \in Paths
             PROVE  /\ call'[s][x].pc \in {"both", "first", "second", "less"} =>
                         /\ call'[s][Left(x)].left = call'[s][x].left
                         /\ call'[s][Left(x)].right = Mid(s, x)'
                    /\ call'[s][x].pc \in {"both", "second", "less"} =>
                         /\ call'[s][Right(x)].left = Mid(s, x)' + 1
                         /\ call'[s][Right(x)].right = call'[s][x].right
                    /\ call'[s][x].pc = "less" => Joined(s, x)'
  BY DEF HalvesExact
<1>0. /\ Left(p) \in Paths /\ Right(p) \in Paths /\ N \subseteq {Left(p), Right(p)}
      /\ Left(p) # Right(p) /\ p \notin N /\ call'[r][p].pc = pc
      /\ Len(p) < MaxDepth /\ Front(Left(p)) = p /\ Front(Right(p)) = p
      /\ HalvesStart(r, p, pc, N)
  <2>1. HalvesStart(r, p, pc, N)
    BY SplitCalls
  <2> QED  BY <2>1 DEF HalvesStart
<1>1. CASE s = r /\ x = p
  <2>1. /\ call'[r][p].left = call[r][p].left /\ call'[r][p].right = call[r][p].right
        /\ Mid(r, p)' = Mid(r, p)
    BY <1>0 DEF HalvesStart
  <2>2. Left(p) \in N => /\ call'[r][Left(p)].left = call[r][p].left
                         /\ call'[r][Left(p)].right = Mid(r, p)
    BY <1>0, CalledFields DEF HalvesStart, HalfOf, LeftCall
  <2>3. Right(p) \in N => /\ call'[r][Right(p)].left = Mid(r, p) + 1
                          /\ call'[r][Right(p)].right = call[r][p].right
    BY <1>0, CalledFields DEF HalvesStart, HalfOf, RightCall
  <2>4. CASE pc = "both"
    <3>1. N = {Left(p), Right(p)}
      BY <2>4 DEF SplitsTo, Splits
    <3> QED  BY <1>0, <1>1, <2>1, <2>2, <2>3, <2>4, <3>1
  <2>5. CASE pc = "first"
    <3>1. N = {Left(p)}
      BY <2>5 DEF SplitsTo, Splits
    <3> QED  BY <1>0, <1>1, <2>1, <2>2, <2>5, <3>1
  <2>6. CASE pc = "second"
    <3>1. N = {Right(p)} /\ call[r][p].pc = "first"
      BY <2>6 DEF SplitsTo, Splits
    <3>2. /\ call[r][Left(p)].left = call[r][p].left
          /\ call[r][Left(p)].right = Mid(r, p)
      BY <3>1 DEF HalvesExact
    <3>3. /\ call'[r][Left(p)].left = call[r][Left(p)].left
          /\ call'[r][Left(p)].right = call[r][Left(p)].right
      BY <1>0, <3>1 DEF HalvesStart
    <3> QED  BY <1>0, <1>1, <2>1, <2>3, <2>6, <3>1, <3>2, <3>3
  <2> QED  BY <2>4, <2>5, <2>6 DEF SplitsTo, Splits
<1>2. CASE s = r /\ x \in N
  <2>1. call'[r][x].pc = "start"
    BY <1>0, <1>2, CalledFields DEF HalvesStart, HalfOf, LeftCall, RightCall
  <2> QED  BY <1>2, <2>1
<1>3. CASE s # r \/ (x # p /\ x \notin N)
  <2>1. /\ call'[s][x] = call[s][x] /\ Mid(s, x)' = Mid(s, x)
    BY <1>0, <1>3 DEF HalvesStart
  <2> SUFFICES ASSUME call[s][x].pc \in {"both", "first", "second", "less"}
               PROVE  /\ /\ call'[s][Left(x)].left = call'[s][x].left
                         /\ call'[s][Left(x)].right = Mid(s, x)'
                      /\ call[s][x].pc \in {"both", "second", "less"} =>
                           /\ call'[s][Right(x)].left = Mid(s, x)' + 1
                           /\ call'[s][Right(x)].right = call'[s][x].right
                      /\ call[s][x].pc = "less" => Joined(s, x)'
    BY <2>1
  <2>2. /\ Left(x) \in Paths /\ Right(x) \in Paths
        /\ s # r \/ (Left(x) \notin N /\ Right(x) \notin N)
    BY <1>0, <1>3, HalvesHavePaths
  <2>3. call[s][x].pc = "less" => Joined(s, x)'
    BY <1>0, <2>2 DEF HalvesStart, HalvesExact, Joined
  <2>4. /\ call[s][Left(x)].left = call[s][x].left /\ call[s][Left(x)].right = Mid(s, x)
        /\ call[s][x].pc \in {"both", "second", "less"} =>
             /\ call[s][Right(x)].left = Mid(s, x) + 1
             /\ call[s][Right(x)].right = call[s][x].right
    BY DEF HalvesExact
  <2>5. /\ call'[s][Left(x)].left = call[s][Left(x)].left
        /\ call'[s][Left(x)].right = call[s][Left(x)].right
        /\ call'[s][Right(x)].left = call[s][Right(x)].left
        /\ call'[s][Right(x)].right = call[s][Right(x)].right
    BY <1>0, <2>2 DEF HalvesStart
  <2> QED  BY <2>1, <2>3, <2>4, <2>5
<1> QED  BY <1>1, <1>2, <1>3

-----------------------------------------------------------------------------
(* Steps that leave the lists alone.                                       *)

LEMMA SliceOfList ==
  ASSUME NEW r \in Requests, list'[r] = list[r], NEW p \in Paths,
         call'[r][p].left = call[r][p].left, call'[r][p].right = call[r][p].right
  PROVE  Entries(r, p)' = Entries(r, p)
BY DEF Entries

\* A call that goes on as d, without a look at the list, is not done after it.
LEMMA MovesLists ==
  ASSUME ControlTypeOK, CallsOK, PartsOK, UntouchedOK, HalvesWait,
         NEW r \in Requests, NEW p \in Paths, NEW d, Moves(r, p, d), d.pc # "done",
         d.pc \in {"room", "more"} => call[r][p].pc \in {"start", "room"}, list' = list
  PROVE  PartsOK' /\ UntouchedOK' /\ HalvesWait'
<1>1. \A s \in Requests, x \in Paths : Done(s, x)' <=> Done(s, x)
  BY MovedCalls DEF Moves, Done, Active
<1>2. PartsOK'
  <2> SUFFICES ASSUME NEW s \in Requests, NEW x \in Paths
               PROVE  /\ Started(s, Root)' => /\ call'[s][Root].left = 0
                                              /\ call'[s][Root].right = Len(list[s]) - 1
                      /\ Done(s, x)' => HasPart(s, x)' \/ Vacant(s, x)'
    BY DEF PartsOK
  <2> QED  BY <1>1, MovedCalls, RootPath DEF PartsOK, HasPart, Vacant
<1>3. UntouchedOK'
  <2> SUFFICES ASSUME NEW s \in Requests, NEW x \in Paths
               PROVE  /\ call'[s][x].pc \in {"start", "room", "more"} =>
                           Untouched(s, call[s][x].left, call[s][x].right)'
                      /\ call'[s][x].pc = "first" =>
                           Untouched(s, Mid(s, x) + 1, call[s][x].right)'
    BY DEF UntouchedOK, Untouched
  <2>1. call'[s][x].pc \in {"start", "room", "more"} =>
          call[s][x].pc \in {"start", "room", "more"}
    BY MovedCalls DEF Moves
  <2>2. call'[s][x].pc = "first" => call[s][x].pc = "first"
    BY MovedCalls DEF Moves
  <2>3. /\ call'[s][x].left = call[s][x].left /\ call'[s][x].right = call[s][x].right
        /\ Mid(s, x)' = Mid(s, x)
    BY MovedCalls
  <2> QED  BY <2>1, <2>2, <2>3 DEF UntouchedOK, Untouched
<1>4. HalvesWait'
  <2> SUFFICES ASSUME NEW s \in Requests, NEW x \in Paths, list'[s] # <<>>, Done(s, x)',
                      x = Root \/ ~Done(s, Front(x))'
               PROVE  /\ Ordered(Entries(s, x)')
                      /\ \A k \in DOMAIN Entries(s, x)' : Entries(s, x)'[k].secret = 1
    BY DEF HalvesWait, Undisturbed
  <2>1. Done(s, x) /\ (x = Root \/ ~Done(s, Front(x)))
    BY <1>1, FrontPath
  <2>2. Entries(s, x)' = Entries(s, x)
    BY MovedCalls, SliceOfList
  <2> QED  BY <2>1, <2>2 DEF HalvesWait, Undisturbed
<1> QED  BY <1>2, <1>3, <1>4

\* Both halves of a range that is not sorted yet are not sorted yet.
LEMMA HalvesUntouched ==
  ASSUME ControlTypeOK, CallsOK, PartsOK, UntouchedOK, NEW r \in Requests, NEW p \in Paths,
         call[r][p].pc \in {"start", "more"}, ~IsLeaf(r, p), list[r] \in Seq(Entry)
  PROVE  /\ Untouched(r, call[r][p].left, Mid(r, p))
         /\ Untouched(r, Mid(r, p) + 1, call[r][p].right)
<1> DEFINE l == call[r][p].left
           h == call[r][p].right
           m == Mid(r, p)
<1>1. Started(r, p)
  BY DEF Started
<1>2. /\ l \in Int /\ h \in Int /\ m \in Int
      /\ (0 <= l /\ l <= m) \/ (l = 1 /\ m <= 0)
      /\ (0 <= m + 1 /\ m + 1 <= h) \/ (m + 1 = 1 /\ h <= 0)
      /\ p # Root => l..m \subseteq l..h /\ (m + 1)..h \subseteq l..h
  BY <1>1, HalfRanges, CallFields DEF CallsOK
<1>3. Untouched(r, l, h)
  BY DEF UntouchedOK
<1>4. p = Root => l = 0 /\ h = Len(list[r]) - 1
  BY <1>1 DEF PartsOK
<1>5. Len(list[r]) \in Nat /\ DOMAIN list[r] = 1..Len(list[r])
  OBVIOUS
<1> HIDE DEF l, h, m
<1>6. \A k \in DOMAIN list[r] : k - 1 \in l..m \/ k - 1 \in (m + 1)..h => k - 1 \in l..h
  <2>1. CASE p = Root
    BY <1>2, <1>4, <1>5, <2>1
  <2>2. CASE p # Root
    BY <1>2, <2>2
  <2> QED  BY <2>1, <2>2
<1>7. Untouched(r, l, m) /\ Untouched(r, m + 1, h)
  BY <1>3, <1>6 DEF Untouched
<1> QED  BY <1>7 DEF l, h, m

LEMMA SplitsLists ==
  ASSUME ControlTypeOK, CallsOK, PartsOK, UntouchedOK, HalvesWait,
         NEW r \in Requests, NEW p \in Paths, NEW pc, NEW N, SplitsTo(r, p, pc, N),
         list' = list, list[r] \in Seq(Entry)
  PROVE  PartsOK' /\ UntouchedOK' /\ HalvesWait'
<1>0. /\ HalvesStart(r, p, pc, N)
      /\ \A s \in Requests, x \in Paths : Done(s, x)' <=> Done(s, x)
      /\ \A s \in Requests, x \in Paths :
           s # r \/ x \notin N => /\ call'[s][x].left = call[s][x].left
                                  /\ call'[s][x].right = call[s][x].right
                                  /\ Mid(s, x)' = Mid(s, x)
      /\ \A x \in N : ~Started(r, x)
  <2>1. HalvesStart(r, p, pc, N)
    BY SplitCalls
  <2> QED  BY <2>1 DEF HalvesStart
<1>1. PartsOK'
  <2> SUFFICES ASSUME NEW s \in Requests, NEW x \in Paths
               PROVE  /\ Started(s, Root)' => /\ call'[s][Root].left = 0
                                              /\ call'[s][Root].right = Len(list[s]) - 1
                      /\ Done(s, x)' => HasPart(s, x)' \/ Vacant(s, x)'
    BY DEF PartsOK
  <2>1. Started(s, Root)' => Started(s, Root)
    BY <1>0, RootPath DEF HalvesStart, Started, Active
  <2>2. Root \in Paths /\ Root \notin N
    BY <1>0, RootPath DEF HalvesStart
  <2>3. Done(s, x)' => Done(s, x) /\ (s # r \/ x \notin N)
    BY <1>0 DEF Done, Started
  <2> QED  BY <1>0, <2>1, <2>2, <2>3 DEF PartsOK, HasPart, Vacant
<1>2. UntouchedOK'
  <2> SUFFICES ASSUME NEW s \in Requests, NEW x \in Paths
               PROVE  /\ call'[s][x].pc \in {"start", "room", "more"} =>
                           Untouched(s, call'[s][x].left, call'[s][x].right)
                      /\ call'[s][x].pc = "first" =>
                           Untouched(s, Mid(s, x)' + 1, call'[s][x].right)
    BY DEF UntouchedOK, Untouched
  <2>1. call[r][p].pc \in {"start", "more"} =>
          /\ Untouched(r, call[r][p].left, Mid(r, p))
          /\ Untouched(r, Mid(r, p) + 1, call[r][p].right)
    BY HalvesUntouched DEF SplitsTo
  <2>2. CASE s = r /\ x = p
    <3>1. call'[r][p].pc = pc /\ pc \in {"both", "first", "second"}
      BY <1>0 DEF HalvesStart, SplitsTo, Splits
    <3>2. pc = "first" => call[r][p].pc = "start"
      BY DEF SplitsTo, Splits
    <3>3. p \notin N
      BY <1>0 DEF HalvesStart
    <3> QED  BY <1>0, <2>1, <2>2, <3>1, <3>2, <3>3
  <2>3. CASE s = r /\ x \in N
    <3>1. call'[r][x] = HalfOf(r, p, x) /\ x \in {Left(p), Right(p)} /\ Left(p) # Right(p)
      BY <1>0, <2>3 DEF HalvesStart
    <3>2. CASE x = Left(p)
      <4>1. call[r][p].pc \in {"start", "more"}
        BY <2>3, <3>1, <3>2 DEF SplitsTo, Splits
      <4>2. call'[r][x] = Called(call[r][p].left, Mid(r, p))
        BY <3>1, <3>2 DEF HalfOf, LeftCall
      <4>3. /\ call'[r][x].pc = "start" /\ call'[r][x].left = call[r][p].left
            /\ call'[r][x].right = Mid(r, p)
        BY <4>2, CalledFields
      <4> QED  BY <2>1, <2>3, <4>1, <4>3
    <3>3. CASE x = Right(p)
      <4>1. Untouched(r, Mid(r, p) + 1, call[r][p].right)
        BY <2>1 DEF SplitsTo, Splits, UntouchedOK
      <4>2. call'[r][x] = Called(Mid(r, p) + 1, call[r][p].right)
        BY <3>1, <3>3 DEF HalfOf, RightCall
      <4>3. /\ call'[r][x].pc = "start" /\ call'[r][x].left = Mid(r, p) + 1
            /\ call'[r][x].right = call[r][p].right
        BY <4>2, CalledFields
      <4> QED  BY <2>3, <4>1, <4>3
    <3> QED  BY <3>1, <3>2, <3>3
  <2>4. CASE s # r \/ (x # p /\ x \notin N)
    <3>1. call'[s][x] = call[s][x] /\ Mid(s, x)' = Mid(s, x)
      BY <1>0, <2>4 DEF HalvesStart
    <3> QED  BY <3>1 DEF UntouchedOK
  <2> QED  BY <2>2, <2>3, <2>4
<1>3. HalvesWait'
  <2> SUFFICES ASSUME NEW s \in Requests, NEW x \in Paths, list'[s] # <<>>, Done(s, x)',
                      x = Root \/ ~Done(s, Front(x))'
               PROVE  /\ Ordered(Entries(s, x)')
                      /\ \A k \in DOMAIN Entries(s, x)' : Entries(s, x)'[k].secret = 1
    BY DEF HalvesWait, Undisturbed
  <2>1. Done(s, x) /\ (x = Root \/ ~Done(s, Front(x)))
    BY <1>0, FrontPath
  <2>2. s # r \/ x \notin N
    BY <1>0, <2>1 DEF Done, Started
  <2>3. Entries(s, x)' = Entries(s, x)
    BY <1>0, <2>2, SliceOfList
  <2> QED  BY <2>1, <2>3 DEF HalvesWait, Undisturbed
<1> QED  BY <1>1, <1>2, <1>3

-----------------------------------------------------------------------------
(* Steps that end a call: its part of the list is replaced by t.           *)

Replaces(r, p, t) ==
  LET l == call[r][p].left
      h == call[r][p].right
  IN  /\ l \in Nat /\ h \in Nat /\ l <= h /\ h < Len(list[r])
      /\ t \in Seq(Entry) /\ Len(t) = h - l + 1 /\ Rearranged(Entries(r, p), t)
      /\ Ordered(t) /\ \A k \in 1..Len(t) : t[k].secret = 1
      /\ list' = [list EXCEPT ![r] = Splice(@, l, h, t)]

Finishes(r, p, t) ==
  /\ Moves(r, p, [call[r][p] EXCEPT !.pc = "done"])
  /\ \A q \in Paths : IsStrictPrefix(p, q) => ~Active(r, q)
  /\ Replaces(r, p, t)

LEMMA FinishedList ==
  ASSUME ControlTypeOK, list \in [Requests -> Seq(Entry)],
         NEW r \in Requests, NEW p \in Paths, NEW t, Replaces(r, p, t)
  PROVE  /\ \A s \in Requests : s # r => list'[s] = list[s]
         /\ list'[r] \in Seq(Entry) /\ Len(list'[r]) = Len(list[r])
         /\ \A k \in 1..Len(list[r]) : k - 1 \notin Indices(r, p) => list'[r][k] = list[r][k]
         /\ Slice(list'[r], call[r][p].left, call[r][p].right) = t
         /\ Rearranged(list[r], list'[r])
<1> DEFINE l == call[r][p].left
           h == call[r][p].right
           u == Splice(list[r], l, h, t)
<1>1. /\ l \in Nat /\ h \in Nat /\ l <= h /\ h < Len(list[r])
      /\ t \in Seq(Entry) /\ Len(t) = h - l + 1 /\ Rearranged(Entries(r, p), t)
      /\ list' = [list EXCEPT ![r] = u]
  BY DEF Replaces
<1>2. list'[r] = u /\ \A s \in Requests : s # r => list'[s] = list[s]
  BY <1>1
<1>3. list[r] \in Seq(Entry)
  OBVIOUS
<1>4. Entries(r, p) = Slice(list[r], l, h) /\ Indices(r, p) = l..h
  BY DEF Entries, Indices
<1> HIDE DEF l, h, u
<1>5. /\ u \in Seq(Entry) /\ Len(u) = Len(list[r])
      /\ \A k \in 1..Len(list[r]) : u[k] = IF k - 1 \in l..h THEN t[k - l] ELSE list[r][k]
  BY <1>1, <1>3, SpliceEntries DEF u
<1>6. Rearranged(list[r], u)
  BY <1>1, <1>3, <1>4, PartRearranged DEF u
<1>7. Slice(u, l, h) = t
  <2>1. /\ Slice(u, l, h) \in Seq(Entry) /\ Len(Slice(u, l, h)) = h - l + 1
        /\ \A k \in 1..(h - l + 1) : Slice(u, l, h)[k] = u[l + k]
    BY <1>1, <1>5, SliceEntries
  <2>2. ASSUME NEW k \in 1..(h - l + 1) PROVE Slice(u, l, h)[k] = t[k]
    <3>1. PICK n \in 1..Len(list[r]) : n = l + k /\ n - 1 \in l..h /\ n - l = k
      BY <1>1, <1>3
    <3>2. u[n] = t[n - l]
      BY <1>5, <3>1
    <3> QED  BY <2>1, <3>1, <3>2
  <2> DEFINE v == Slice(u, l, h)
  <2>3. v \in Seq(Entry) /\ Len(v) = Len(t) /\ \A k \in 1..Len(t) : v[k] = t[k]
    BY <1>1, <2>1, <2>2
  <2> HIDE DEF v
  <2>4. v = t
    BY <1>1, <2>3
  <2> QED  BY <2>4 DEF v
<1>8. \A k \in 1..Len(list[r]) : k - 1 \notin l..h => u[k] = list[r][k]
  BY <1>5
<1> QED  BY <1>2, <1>4, <1>5, <1>6, <1>7, <1>8 DEF l, h

\* Two lists that agree on a part have the same slice there.
LEMMA SameSlice ==
  ASSUME NEW s \in Seq(Entry), NEW u \in Seq(Entry), Len(u) = Len(s),
         NEW left \in Nat, NEW right \in Nat, left <= right, right < Len(s),
         \A k \in 1..Len(s) : k - 1 \in left..right => u[k] = s[k]
  PROVE  Slice(u, left, right) = Slice(s, left, right)
<1> DEFINE a == Slice(u, left, right)
           b == Slice(s, left, right)
<1>1. /\ a \in Seq(Entry) /\ Len(a) = right - left + 1
      /\ \A k \in 1..(right - left + 1) : a[k] = u[left + k]
  BY SliceEntries
<1>2. /\ b \in Seq(Entry) /\ Len(b) = right - left + 1
      /\ \A k \in 1..(right - left + 1) : b[k] = s[left + k]
  BY SliceEntries
<1>3. \A k \in 1..(right - left + 1) : left + k \in 1..Len(s) /\ left + k - 1 \in left..right
  OBVIOUS
<1>4. \A k \in 1..(right - left + 1) : a[k] = b[k]
  BY <1>1, <1>2, <1>3
<1> HIDE DEF a, b
<1>5. a = b
  BY <1>1, <1>2, <1>4
<1> QED  BY <1>5 DEF a, b

\* A call that somebody still needs has no index in common with one that ends.
LEMMA NeededApart ==
  ASSUME CallsOK, NEW r \in Requests, NEW p \in Paths, Active(r, p),
         \A q \in Paths : IsStrictPrefix(p, q) => ~Active(r, q),
         NEW x \in Paths, x # p,
         \/ Done(r, x) /\ (x = Root \/ (~Done(r, Front(x)) /\ Front(x) # p))
         \/ call[r][x].pc \in {"start", "room", "more"}
  PROVE  /\ Indices(r, x) \cap Indices(r, p) = {}
         /\ ~IsPrefix(x, p)
<1>0. Started(r, p) /\ Started(r, x)
  BY DEF Active, Started, Done
<1>1. ~IsPrefix(x, p)
  <2> SUFFICES ASSUME IsStrictPrefix(x, p) PROVE FALSE
    BY DEF IsStrictPrefix
  <2> QED  BY <1>0 DEF CallsOK, InnerCalls, LaterCalls, Done
<1>2. ~IsPrefix(p, x)
  <2> SUFFICES ASSUME IsStrictPrefix(p, x) PROVE FALSE
    BY DEF IsStrictPrefix
  <2>1. Done(r, x) /\ (x = Root \/ (~Done(r, Front(x)) /\ Front(x) # p))
    BY DEF Active
  <2>2. x # Root
    BY RootPath, PrefixOrder DEF IsStrictPrefix
  <2>3. Front(x) \in Paths /\ IsStrictPrefix(Front(x), x) /\ IsStrictPrefix(p, Front(x))
    BY <2>1, <2>2, FrontPath, AboveFront
  <2>4. Active(r, Front(x))
    BY <1>0, <2>1, <2>2, <2>3 DEF CallsOK, LaterCalls, Active, Done
  <2> QED  BY <2>3, <2>4
<1>3. Indices(r, x) \cap Indices(r, p) = {}
  BY <1>0, <1>1, <1>2 DEF CallsOK, RangesApart
<1> QED  BY <1>1, <1>3

LEMMA FinishParts ==
  ASSUME ControlTypeOK, CallsOK, PartsOK, list \in [Requests -> Seq(Entry)],
         NEW r \in Requests, NEW p \in Paths, NEW t, Finishes(r, p, t)
  PROVE  PartsOK'
<1> SUFFICES ASSUME NEW s \in Requests, NEW x \in Paths
             PROVE  /\ Started(s, Root)' => /\ call'[s][Root].left = 0
                                            /\ call'[s][Root].right = Len(list'[s]) - 1
                    /\ Done(s, x)' => HasPart(s, x)' \/ Vacant(s, x)'
  BY DEF PartsOK
<1> DEFINE d == [call[r][p] EXCEPT !.pc = "done"]
<1>1. Moves(r, p, d) /\ Replaces(r, p, t)
  BY DEF Finishes
<1> HIDE DEF d
<1>2. Len(list'[s]) = Len(list[s])
  BY <1>1, FinishedList
<1>3. /\ Started(s, Root)' => Started(s, Root)
      /\ call'[s][Root].left = call[s][Root].left /\ call'[s][Root].right = call[s][Root].right
      /\ call'[s][x].left = call[s][x].left /\ call'[s][x].right = call[s][x].right
      /\ s # r \/ x # p => call'[s][x] = call[s][x]
  BY <1>1, MovedCalls, RootPath
<1>4. Started(s, Root) => call[s][Root].left = 0 /\ call[s][Root].right = Len(list[s]) - 1
  BY DEF PartsOK
<1>5. CASE s = r /\ x = p
  <2>1. HasPart(r, p)
    BY <1>1 DEF Replaces, HasPart
  <2> QED  BY <1>2, <1>3, <1>4, <1>5, <2>1 DEF HasPart
<1>6. CASE s # r \/ x # p
  <2>1. Done(s, x)' => Done(s, x)
    BY <1>3, <1>6 DEF Done
  <2>2. Done(s, x) => HasPart(s, x) \/ Vacant(s, x)
    BY DEF PartsOK
  <2>3. list[s] = <<>> => list'[s] = <<>>
    BY <1>1, <1>2, FinishedList
  <2> QED  BY <1>2, <1>3, <1>4, <2>1, <2>2, <2>3 DEF HasPart, Vacant
<1> QED  BY <1>5, <1>6

LEMMA FinishUntouched ==
  ASSUME ControlTypeOK, CallsOK, UntouchedOK, list \in [Requests -> Seq(Entry)],
         NEW r \in Requests, NEW p \in Paths, NEW t, Finishes(r, p, t)
  PROVE  UntouchedOK'
<1> DEFINE d == [call[r][p] EXCEPT !.pc = "done"]
<1>1. /\ Moves(r, p, d) /\ Replaces(r, p, t) /\ Active(r, p) /\ d.pc = "done"
      /\ \A q \in Paths : IsStrictPrefix(p, q) => ~Active(r, q)
  BY CallFields DEF Finishes, Moves, Call
<1> HIDE DEF d
<1>2. call'[r][p].pc = "done"
  BY <1>1, MovedCalls
<1>3. \A s \in Requests, x \in Paths : s # r \/ x # p => call'[s][x] = call[s][x]
  BY <1>1, MovedCalls
<1> SUFFICES ASSUME NEW s \in Requests, NEW x \in Paths
             PROVE  /\ call'[s][x].pc \in {"start", "room", "more"} =>
                         Untouched(s, call[s][x].left, call[s][x].right)'
                    /\ call'[s][x].pc = "first" =>
                         Untouched(s, Mid(s, x) + 1, call[s][x].right)'
  BY DEF UntouchedOK, Untouched
<1>4. /\ call'[s][x].left = call[s][x].left /\ call'[s][x].right = call[s][x].right
      /\ Mid(s, x)' = Mid(s, x)
  BY <1>1, MovedCalls
<1>5. CASE s # r
  <2>1. call'[s][x] = call[s][x] /\ list'[s] = list[s]
    BY <1>1, <1>3, <1>5, FinishedList
  <2> QED  BY <1>4, <2>1 DEF UntouchedOK, Untouched
<1>6. CASE s = r /\ x = p
  BY <1>2, <1>6
<1>7. CASE s = r /\ x # p
  <2>1. /\ call'[s][x] = call[s][x] /\ DOMAIN list'[r] = DOMAIN list[r]
        /\ \A k \in DOMAIN list[r] : k - 1 \notin Indices(r, p) => list'[r][k] = list[r][k]
    <3>1. /\ list[r] \in Seq(Entry) /\ list'[r] \in Seq(Entry) /\ Len(list'[r]) = Len(list[r])
          /\ \A k \in 1..Len(list[r]) : k - 1 \notin Indices(r, p) => list'[r][k] = list[r][k]
      BY <1>1, FinishedList
    <3> QED  BY <1>3, <1>7, <3>1
  <2>2. ASSUME call[r][x].pc \in {"start", "room", "more"}
        PROVE  Untouched(s, call[s][x].left, call[s][x].right)'
    <3>1. Indices(r, x) \cap Indices(r, p) = {}
      BY <1>1, <1>7, <2>2, NeededApart
    <3>2. Untouched(r, call[r][x].left, call[r][x].right)
      BY <2>2 DEF UntouchedOK
    <3> QED  BY <1>4, <1>7, <2>1, <3>1, <3>2 DEF Untouched, Indices
  <2>3. ASSUME call[r][x].pc = "first"
        PROVE  Untouched(s, Mid(s, x) + 1, call[s][x].right)'
    <3>1. Untouched(r, Mid(r, x) + 1, call[r][x].right)
      BY <2>3 DEF UntouchedOK
    <3>2. Started(r, p) /\ Started(r, x)
      BY <1>1, <2>3 DEF Active, Started
    <3>3. ~IsPrefix(p, x)
      BY <1>1, <1>7, <2>3 DEF Active, IsStrictPrefix
    <3>4. ((Mid(r, x) + 1)..call[r][x].right) \cap Indices(r, p) = {}
      <4>1. CASE IsPrefix(x, p)
        <5>1. Left(x) \in Paths /\ Left(x) # Root
          BY <2>3, HalvesHavePaths
        <5>2. IsPrefix(Left(x), p)
          BY <1>7, <2>3, <3>2, <4>1, BelowPath DEF CallsOK, LaterCalls, IsStrictPrefix
        <5>3. Indices(r, p) \subseteq Indices(r, Left(x))
          BY <3>2, <5>1, <5>2 DEF CallsOK, RangesNested
        <5>4. call[r][Left(x)].right = Mid(r, x)
          BY <2>3 DEF CallsOK, HalvesOK
        <5>5. Indices(r, p) \subseteq call[r][Left(x)].left..Mid(r, x)
          BY <5>3, <5>4 DEF Indices
        <5>6. /\ Mid(r, x) \in Int /\ call[r][x].right \in Int
              /\ call[r][Left(x)].left \in Int
          BY <2>3, <3>2, <5>1, HalvesHavePaths, HalfRanges, CallFields DEF CallsOK
        <5> DEFINE m == Mid(r, x)
                   h == call[r][x].right
                   l == call[r][Left(x)].left
        <5> HIDE DEF m, h, l
        <5>7. ((m + 1)..h) \cap (l..m) = {}
          BY <5>6 DEF m, h, l
        <5> QED  BY <5>5, <5>7 DEF m, h, l
      <4>2. CASE ~IsPrefix(x, p)
        <5>1. Indices(r, x) \cap Indices(r, p) = {}
          BY <3>2, <3>3, <4>2 DEF CallsOK, RangesApart
        <5>2. x # Root
          BY <4>2, PrefixOrder
        <5>3. (Mid(r, x) + 1)..call[r][x].right \subseteq Indices(r, x)
          BY <2>3, <3>2, <5>2, HalvesHavePaths, HalfRanges DEF CallsOK, Indices
        <5> QED  BY <5>1, <5>3
      <4> QED  BY <4>1, <4>2
    <3> QED  BY <1>4, <1>7, <2>1, <3>1, <3>4 DEF Untouched
  <2> QED  BY <1>7, <2>1, <2>2, <2>3
<1> QED  BY <1>5, <1>6, <1>7

LEMMA FinishWait ==
  ASSUME ControlTypeOK, CallsOK, PartsOK, HalvesWait, list \in [Requests -> Seq(Entry)],
         NEW r \in Requests, NEW p \in Paths, NEW t, Finishes(r, p, t)
  PROVE  HalvesWait'
<1> DEFINE d == [call[r][p] EXCEPT !.pc = "done"]
<1>1. /\ Moves(r, p, d) /\ Replaces(r, p, t) /\ Active(r, p)
      /\ \A q \in Paths : IsStrictPrefix(p, q) => ~Active(r, q)
  BY DEF Finishes, Moves
<1>2. call'[r][p].pc = "done"
  BY CallFields DEF Finishes, Moves, Call, ControlTypeOK
<1> HIDE DEF d
<1>3. \A s \in Requests, x \in Paths :
        /\ s # r \/ x # p => call'[s][x] = call[s][x]
        /\ call'[s][x].left = call[s][x].left /\ call'[s][x].right = call[s][x].right
        /\ Done(s, x) => Done(s, x)'
  BY <1>1, MovedCalls
<1> SUFFICES ASSUME NEW s \in Requests, NEW x \in Paths, list'[s] # <<>>, Done(s, x)',
                    x = Root \/ ~Done(s, Front(x))'
             PROVE  /\ Ordered(Entries(s, x)')
                    /\ \A k \in DOMAIN Entries(s, x)' : Entries(s, x)'[k].secret = 1
  BY DEF HalvesWait, Undisturbed
<1>4. CASE s = r /\ x = p
  <2>1. Entries(r, p)' = t
    BY <1>1, <1>3, FinishedList DEF Entries
  <2>2. t \in Seq(Entry) /\ Ordered(t) /\ \A k \in 1..Len(t) : t[k].secret = 1
    BY <1>1 DEF Replaces
  <2> QED  BY <1>4, <2>1, <2>2
<1>5. CASE s # r \/ x # p
  <2>0. list[s] # <<>>
    <3>1. /\ list[s] \in Seq(Entry) /\ list'[s] \in Seq(Entry) /\ Len(list'[s]) = Len(list[s])
      BY <1>1, FinishedList
    <3> QED  BY <3>1
  <2>1. Done(s, x) /\ (x = Root \/ (~Done(s, Front(x)) /\ (s # r \/ Front(x) # p)))
    <3>1. Done(s, x)
      BY <1>3, <1>5 DEF Done
    <3>2. x # Root => Front(x) \in Paths
      BY FrontPath
    <3>3. x # Root => ~Done(s, Front(x))
      BY <1>3, <3>2
    <3>4. Done(r, p)'
      BY <1>2 DEF Done
    <3> QED  BY <3>1, <3>3, <3>4
  <2>2. Entries(s, x)' = Entries(s, x)
    <3>1. CASE s # r
      BY <1>1, <1>3, <3>1, FinishedList, SliceOfList
    <3>2. CASE s = r
      <4>1. Indices(r, x) \cap Indices(r, p) = {}
        BY <1>1, <1>5, <2>1, <3>2, NeededApart
      <4>2. /\ list[r] \in Seq(Entry) /\ list'[r] \in Seq(Entry)
            /\ Len(list'[r]) = Len(list[r])
            /\ \A k \in 1..Len(list[r]) :
                 k - 1 \notin Indices(r, p) => list'[r][k] = list[r][k]
        BY <1>1, FinishedList
      <4>3. /\ call[r][x].left \in Nat /\ call[r][x].right \in Nat
            /\ call[r][x].left <= call[r][x].right /\ call[r][x].right < Len(list[r])
        BY <2>0, <2>1, <3>2, CallFields DEF PartsOK, HasPart, Vacant
      <4>4. \A k \in 1..Len(list[r]) :
              k - 1 \in call[r][x].left..call[r][x].right => list'[r][k] = list[r][k]
        BY <4>1, <4>2 DEF Indices
      <4>5. Slice(list'[r], call[r][x].left, call[r][x].right) =
              Slice(list[r], call[r][x].left, call[r][x].right)
        BY <4>2, <4>3, <4>4, SameSlice
      <4> QED  BY <1>3, <3>2, <4>5 DEF Entries
    <3> QED  BY <3>1, <3>2
  <2> QED  BY <2>0, <2>1, <2>2 DEF HalvesWait, Undisturbed
<1> QED  BY <1>4, <1>5

LEMMA DoneMoves ==
  ASSUME ControlTypeOK, NEW r \in Requests, NEW p \in Paths, Active(r, p),
         call' = [call EXCEPT ![r][p].pc = "done"]
  PROVE  Moves(r, p, [call[r][p] EXCEPT !.pc = "done"])
<1> DEFINE d == [call[r][p] EXCEPT !.pc = "done"]
<1>1. /\ d \in Call /\ d.pc = "done" /\ d.left = call[r][p].left
      /\ d.right = call[r][p].right
  BY CallFields DEF Call
<1>2. call' = [call EXCEPT ![r][p] = d]
  OBVIOUS
<1> HIDE DEF d
<1>3. Moves(r, p, d)
  BY <1>1, <1>2 DEF Moves
<1> QED  BY <1>3 DEF d

LEMMA SortLeafFinishes ==
  ASSUME IInv, UntouchedOK, list \in [Requests -> Seq(Entry)],
         NEW r \in Requests, NEW p \in Paths, SortLeaf(r, p)
  PROVE  Finishes(r, p, Sort(Entries(r, p)))
<1> DEFINE l == call[r][p].left
           h == call[r][p].right
           e == Entries(r, p)
           t == Sort(e)
<1>1. /\ call[r][p].pc = "start" /\ l \in 0..h /\ h < Len(list[r])
      /\ list' = [list EXCEPT ![r] = Splice(@, l, h, t)]
      /\ call' = [call EXCEPT ![r][p].pc = "done"]
  BY DEF SortLeaf
<1>2. \A q \in Paths : IsStrictPrefix(p, q) => ~Active(r, q)
  BY <1>1, NothingBelow DEF IInv
<1>3. Moves(r, p, [call[r][p] EXCEPT !.pc = "done"])
  BY <1>1, DoneMoves DEF IInv, Active
<1>4. l \in Nat /\ h \in Nat /\ l <= h
  BY <1>1, CallFields DEF IInv
<1>5. e = Slice(list[r], l, h)
  BY DEF Entries
<1>6. Untouched(r, l, h)
  BY <1>1 DEF UntouchedOK
<1>7. list[r] \in Seq(Entry)
  OBVIOUS
<1> HIDE DEF l, h, e, t
<1>8. /\ e \in Seq(Entry) /\ Len(e) = h - l + 1
      /\ \A k \in 1..(h - l + 1) : e[k] = list[r][l + k]
  BY <1>1, <1>4, <1>5, <1>7, SliceEntries
<1>9. \A k \in 1..Len(e) : e[k].secret = 0
  <2>1. \A k \in 1..(h - l + 1) : l + k \in DOMAIN list[r] /\ (l + k) - 1 \in l..h
    BY <1>1, <1>4, <1>7
  <2> QED  BY <1>6, <1>8, <2>1 DEF Untouched
<1>10. Sorting(e, t, Len(e)) /\ Ordered(t) /\ Rearranged(e, t)
  BY <1>8, Sorted, SortRearranges DEF t
<1>11. t \in Seq(Entry) /\ Len(t) = h - l + 1
  BY <1>8, <1>10 DEF Sorting
<1>12. \A k \in 1..Len(t) : t[k].secret = 1
  <2>1. PICK g \in [1..Len(e) -> 1..Len(e)] :
          \A k \in 1..Len(e) : t[k].secret = e[g[k]].secret + (IF k <= Len(e) THEN 1 ELSE 0)
    BY <1>10 DEF Sorting
  <2>2. ASSUME NEW k \in 1..Len(e) PROVE t[k].secret = 1
    <3>1. PICK n \in 1..Len(e) : n = g[k]
      OBVIOUS
    <3>2. e[n].secret = 0
      BY <1>9
    <3>3. k <= Len(e)
      BY <1>8
    <3> QED  BY <2>1, <3>1, <3>2, <3>3
  <2> QED  BY <1>8, <1>11, <2>2
<1>13. Replaces(r, p, t)
  BY <1>1, <1>4, <1>10, <1>11, <1>12 DEF Replaces, l, h, e
<1> QED  BY <1>2, <1>3, <1>13 DEF Finishes, t, e

LEMMA MergeFinishes ==
  ASSUME IInv, HalvesExact, PartsOK, HalvesWait, list \in [Requests -> Seq(Entry)],
         NEW r \in Requests, NEW p \in Paths, MergeHalves(r, p), Joined(r, p),
         call[r][p].pc \in {"both", "second", "less"}, list[r] # <<>>
  PROVE  Finishes(r, p, Merge(Entries(r, Left(p)), Entries(r, Right(p))))
<1> DEFINE l == call[r][p].left
           h == call[r][p].right
           m == Mid(r, p)
           a == Entries(r, Left(p))
           b == Entries(r, Right(p))
           t == Merge(a, b)
<1>1. /\ list' = [list EXCEPT ![r] = Splice(@, l, h, t)]
      /\ call' = [call EXCEPT ![r][p].pc = "done"]
  BY DEF MergeHalves
<1>2. \A q \in Paths : IsStrictPrefix(p, q) => ~Active(r, q)
  BY NothingBelowJoined DEF IInv
<1>3. Moves(r, p, [call[r][p] EXCEPT !.pc = "done"])
  BY <1>1, DoneMoves DEF IInv, Active
<1>4. /\ Left(p) \in Paths /\ Right(p) \in Paths
      /\ Left(p) # Root /\ Right(p) # Root
      /\ Front(Left(p)) = p /\ Front(Right(p)) = p
  BY HalvesHavePaths DEF IInv
<1>5. /\ call[r][Left(p)].left = l /\ call[r][Left(p)].right = m
      /\ call[r][Right(p)].left = m + 1 /\ call[r][Right(p)].right = h
  BY DEF HalvesExact
<1>6. /\ 0 <= l /\ l <= m /\ 0 <= m + 1 /\ m + 1 <= h /\ h < Len(list[r])
  BY <1>4, <1>5 DEF PartsOK, HasPart, Vacant, Joined
<1>7. l \in Nat /\ m \in Nat /\ h \in Nat
  <2>1. l \in Int /\ m \in Int /\ h \in Int
    BY <1>4, <1>5, CallFields DEF IInv
  <2> QED  BY <1>6, <2>1
<1>8. a = Slice(list[r], l, m) /\ b = Slice(list[r], m + 1, h)
      /\ Entries(r, p) = Slice(list[r], l, h)
  BY <1>5 DEF Entries
<1>9. /\ Ordered(a) /\ \A k \in DOMAIN a : a[k].secret = 1
      /\ Ordered(b) /\ \A k \in DOMAIN b : b[k].secret = 1
  <2>1. ~Done(r, p)
    BY DEF Done
  <2> QED  BY <1>4, <2>1 DEF HalvesWait, Undisturbed, Joined
<1>10. list[r] \in Seq(Entry)
  OBVIOUS
<1> HIDE DEF l, m, h, a, b, t
<1>11. /\ a \in Seq(Entry) /\ Len(a) = m - l + 1
       /\ b \in Seq(Entry) /\ Len(b) = h - m
  <2>1. m < Len(list[r]) /\ m + 1 \in Nat /\ h - (m + 1) + 1 = h - m
    BY <1>6, <1>7, <1>10
  <2>2. a \in Seq(Entry) /\ Len(a) = m - l + 1
    BY <1>6, <1>7, <1>8, <1>10, <2>1, SliceEntries
  <2>3. b \in Seq(Entry) /\ Len(b) = h - (m + 1) + 1
    BY <1>6, <1>7, <1>8, <1>10, <2>1, SliceEntries
  <2> QED  BY <2>1, <2>2, <2>3
<1>12. t \in Seq(Entry) /\ Len(t) = h - l + 1 /\ Ordered(t)
  <2>1. t \in Seq(Entry) /\ Len(t) = Len(a) + Len(b) /\ Ordered(t)
    BY <1>9, <1>11, MergeTyped, MergeOrdered DEF t
  <2> QED  BY <1>7, <1>11, <2>1
<1>13. Rearranged(Entries(r, p), t)
  BY <1>6, <1>7, <1>8, <1>10, HalvesRearranged DEF t
<1>14. \A k \in 1..Len(t) : t[k].secret = 1
  <2>1. Len(t) = Len(a) + Len(b)
    BY <1>11, MergeTyped DEF t
  <2>2. PICK g \in [1..Len(t) -> 1..Len(t)] :
          \A k \in 1..Len(t) : t[k] = IF g[k] <= Len(a) THEN a[g[k]] ELSE b[g[k] - Len(a)]
    <3> DEFINE f == MergedFrom(a, b)
    <3>1. /\ f \in [1..Len(t) -> 1..Len(t)]
          /\ \A k \in 1..Len(t) : t[k] = IF f[k] <= Len(a) THEN a[f[k]] ELSE b[f[k] - Len(a)]
      <4>1. /\ f \in [1..(Len(a) + Len(b)) -> 1..(Len(a) + Len(b))]
            /\ \A k \in 1..(Len(a) + Len(b)) :
                 Merge(a, b)[k] = IF f[k] <= Len(a) THEN a[f[k]] ELSE b[f[k] - Len(a)]
        BY <1>11, MergeRearranges
      <4> HIDE DEF f
      <4> QED  BY <2>1, <4>1 DEF t
    <3> HIDE DEF f
    <3> QED  BY <3>1
  <2>3. ASSUME NEW k \in 1..Len(t) PROVE t[k].secret = 1
    <3>1. PICK n \in 1..Len(t) : n = g[k]
      BY <2>3
    <3>2. t[k] = IF n <= Len(a) THEN a[n] ELSE b[n - Len(a)]
      BY <2>2, <3>1
    <3>3. CASE n <= Len(a)
      <4>1. n \in DOMAIN a
        BY <1>11, <2>1, <3>3
      <4> QED  BY <1>9, <3>2, <3>3, <4>1
    <3>4. CASE ~(n <= Len(a))
      <4>1. PICK j \in 1..Len(b) : j = n - Len(a)
        BY <1>11, <2>1, <3>4
      <4> QED  BY <1>9, <1>11, <3>2, <3>4, <4>1
    <3> QED  BY <3>3, <3>4
  <2> QED  BY <2>3
<1>15. Replaces(r, p, t)
  BY <1>1, <1>6, <1>7, <1>12, <1>13, <1>14 DEF Replaces, l, h, m
<1> QED  BY <1>2, <1>3, <1>15 DEF Finishes, t, a, b

-----------------------------------------------------------------------------
(* The list that filter makes.                                             *)

\* The movies of S up to each place of the table.
Found(S) ==
  CHOOSE F : F = [m \in 0..Len(Title) |->
                    IF m = 0 THEN <<>> ELSE IF m \in S THEN Append(F[m - 1], m) ELSE F[m - 1]]

LEMMA InOrderByFound == ASSUME NEW S PROVE InOrder(S) = Found(S)[Len(Title)]
BY DEF InOrder, Found

LEMMA FoundSteps ==
  ASSUME NEW S \in SUBSET Movies
  PROVE  /\ Found(S)[0] = <<>>
         /\ \A m \in 1..Len(Title) :
              Found(S)[m] = IF m \in S THEN Append(Found(S)[m - 1], m) ELSE Found(S)[m - 1]
<1> DEFINE n == Len(Title)
           V == Seq(S)
           Step(v, m) == IF m \in S THEN Append(v, m) ELSE v
           H == [m \in 1..n |-> [v \in V |-> Step(v, m)]]
           Is(F) == F = [m \in 0..n |-> IF m = 0 THEN <<>> ELSE Step(F[m - 1], m)]
<1>1. n \in Nat /\ <<>> \in V
  BY TitleAssumption
<1>2. \A m \in 1..n : \A v \in V : H[m][v] = Step(v, m)
  OBVIOUS
<1>3. \A m \in 1..n : \A v \in V : Step(v, m) \in V
  OBVIOUS
<1>4. StepsWithin(V, n, H)
  BY <1>2, <1>3 DEF StepsWithin
<1> HIDE DEF n, H, V, Step
<1>5. PICK f : Follows(f, V, <<>>, n, H)
  BY <1>1, <1>4, Recursion
<1>6. Is(f)
  <2>1. f \in [0..n -> V] /\ f[0] = <<>>
    BY <1>5 DEF Follows
  <2>2. \A m \in 1..n : f[m] = Step(f[m - 1], m)
    <3> SUFFICES ASSUME NEW m \in 1..n PROVE f[m] = Step(f[m - 1], m)
      OBVIOUS
    <3>1. m - 1 \in 0..n /\ f[m] = H[m][f[m - 1]]
      BY <1>1, <1>5 DEF Follows
    <3> QED  BY <1>2, <2>1, <3>1
  <2> QED  BY <1>1, <2>1, <2>2
<1>7. Is(Found(S))
  BY <1>6 DEF Found, n, Step
<1>8. \A m \in 1..n : Found(S)[m] = Step(Found(S)[m - 1], m)
  BY <1>1, <1>7
<1>9. Found(S)[0] = <<>>
  BY <1>1, <1>7
<1> QED  BY <1>8, <1>9 DEF n, Step

\* The first movies of S stand in f, one behind the other.
Lists(f, S, m) ==
  /\ f \in Seq(S) /\ Len(f) = Cardinality(S \cap 1..m)
  /\ \A k \in 1..Len(f) : f[k] <= m
  /\ \A j, k \in 1..Len(f) : j < k => f[j] < f[k]

LEMMA ListsGoesOn ==
  ASSUME NEW S \in SUBSET Movies, NEW m \in Nat, NEW f, Lists(f, S, m)
  PROVE  Lists(IF m + 1 \in S THEN Append(f, m + 1) ELSE f, S, m + 1)
<1> DEFINE n == Len(f)
<1>0. S \subseteq Nat
  BY TitleAssumption DEF Movies
<1>1. f \in Seq(S) /\ n \in Nat /\ n = Cardinality(S \cap 1..m)
  BY DEF Lists
<1>2. \A k \in 1..n : f[k] \in Nat /\ f[k] <= m
  <2>1. \A k \in 1..n : f[k] \in S
    BY <1>1
  <2> QED  BY <1>0, <2>1 DEF Lists
<1>3. \A j, k \in 1..n : j < k => f[j] < f[k]
  BY DEF Lists
<1>4. CASE m + 1 \in S
  <2> DEFINE g == Append(f, m + 1)
  <2>1. /\ g \in Seq(S) /\ Len(g) = n + 1 /\ g[n + 1] = m + 1
        /\ \A k \in 1..n : g[k] = f[k]
    <3>1. g \in Seq(S) /\ Len(g) = Len(f) + 1 /\ g[Len(f) + 1] = m + 1
      BY <1>1, <1>4
    <3>2. \A k \in 1..Len(f) : g[k] = f[k]
      BY <1>1, <1>4
    <3> QED  BY <3>1, <3>2
  <2>2. Cardinality(S \cap 1..(m + 1)) = n + 1
    <3> DEFINE T == S \cap 1..m
    <3>1. S \cap 1..(m + 1) = T \cup {m + 1} /\ m + 1 \notin T
      BY <1>4
    <3>2. IsFiniteSet(T)
      <4>1. IsFiniteSet(1..m) /\ T \in SUBSET (1..m)
        BY FS_Interval
      <4> QED  BY <4>1, FS_Subset
    <3>3. n = Cardinality(T)
      BY <1>1
    <3> HIDE DEF n, T
    <3> QED  BY <3>1, <3>2, <3>3, FS_AddElement
  <2> HIDE DEF n, g
  <2>3. ASSUME NEW k \in 1..(n + 1)
        PROVE  g[k] \in Nat /\ g[k] <= m + 1 /\ (k # n + 1 => k \in 1..n /\ g[k] <= m)
    <3>1. CASE k = n + 1
      BY <2>1, <3>1
    <3>2. CASE k # n + 1
      <4>1. k \in 1..n
        BY <1>1, <3>2
      <4>2. g[k] = f[k] /\ f[k] \in Nat /\ f[k] <= m
        BY <1>2, <2>1, <4>1
      <4> QED  BY <4>1, <4>2
    <3> QED  BY <3>1, <3>2
  <2>4. ASSUME NEW j \in 1..(n + 1), NEW k \in 1..(n + 1), j < k PROVE g[j] < g[k]
    <3>1. j # n + 1 /\ j \in 1..n
      BY <1>1, <2>4
    <3>2. g[j] \in Nat /\ g[j] <= m
      BY <2>3, <3>1
    <3>3. CASE k = n + 1
      BY <2>1, <3>2, <3>3
    <3>4. CASE k # n + 1
      <4>1. k \in 1..n
        BY <2>3, <3>4
      <4>2. f[j] < f[k]
        BY <1>3, <2>4, <3>1, <4>1
      <4> QED  BY <2>1, <3>1, <4>1, <4>2
    <3> QED  BY <3>3, <3>4
  <2>5. Lists(g, S, m + 1)
    <3>1. \A k \in 1..(n + 1) : g[k] <= m + 1
      BY <2>3
    <3> QED  BY <2>1, <2>2, <2>4, <3>1 DEF Lists
  <2> QED  BY <1>4, <2>5 DEF g
<1>5. CASE m + 1 \notin S
  <2>1. S \cap 1..(m + 1) = S \cap 1..m
    BY <1>5
  <2> HIDE DEF n
  <2>2. \A k \in 1..n : f[k] <= m + 1
    BY <1>2
  <2>3. Lists(f, S, m + 1)
    BY <1>1, <1>3, <2>1, <2>2 DEF Lists, n
  <2> QED  BY <1>5, <2>3
<1> QED  BY <1>4, <1>5

\* filter finds every movie that matches once, and no other.
LEMMA InOrderLists ==
  ASSUME NEW S \in SUBSET Movies
  PROVE  LET f == InOrder(S)
         IN  /\ f \in Seq(S) /\ Len(f) = Cardinality(S)
             /\ \A j, k \in 1..Len(f) : f[j] = f[k] => j = k
<1> DEFINE n == Len(Title)
           I == {m \in Nat : m <= n => Lists(Found(S)[m], S, m)}
<1>1. n \in Nat
  BY TitleAssumption
<1>2. 0 \in I
  <2>1. S \cap 1..0 = {}
    OBVIOUS
  <2>2. Lists(<<>>, S, 0)
    BY <2>1, FS_EmptySet DEF Lists
  <2> QED  BY <2>2, FoundSteps
<1>3. ASSUME NEW m \in Nat, m \in I PROVE m + 1 \in I
  <2> SUFFICES ASSUME m + 1 <= n PROVE Lists(Found(S)[m + 1], S, m + 1)
    BY <1>1
  <2>1. m + 1 \in 1..Len(Title) /\ (m + 1) - 1 = m
    BY <1>1
  <2>2. Lists(Found(S)[m], S, m)
    BY <1>1, <1>3
  <2>3. Found(S)[m + 1] = IF m + 1 \in S THEN Append(Found(S)[m], m + 1) ELSE Found(S)[m]
    BY <2>1, FoundSteps
  <2> QED  BY <2>2, <2>3, ListsGoesOn
<1>4. n \in I
  <2>1. \A m \in Nat : m \in I
    <3> HIDE DEF I
    <3> QED  BY <1>2, <1>3, Induct
  <2> QED  BY <1>1, <2>1
<1>5. Lists(InOrder(S), S, n)
  BY <1>1, <1>4, InOrderByFound
<1>6. S \cap 1..n = S
  BY TitleAssumption DEF Movies
<1> DEFINE f == InOrder(S)
<1> HIDE DEF f
<1>7. /\ f \in Seq(S) /\ Len(f) = Cardinality(S)
      /\ \A j, k \in 1..Len(f) : j < k => f[j] < f[k]
  BY <1>5, <1>6 DEF Lists, f
<1>8. \A k \in 1..Len(f) : f[k] \in Nat
  BY <1>7, TitleAssumption DEF Movies
<1>9. \A j, k \in 1..Len(f) : f[j] = f[k] => j = k
  <2> SUFFICES ASSUME NEW j \in 1..Len(f), NEW k \in 1..Len(f), f[j] = f[k], j # k
               PROVE  FALSE
    OBVIOUS
  <2>1. j < k \/ k < j
    BY <1>7
  <2> QED  BY <1>7, <1>8, <2>1
<1> QED  BY <1>7, <1>9 DEF f

\* The request's movies, with what stood in the memory added to their scores.
Filtered(r, old, L) ==
  LET f == InOrder(DOMAIN score[r])
  IN  /\ L \in Seq(Entry) /\ Len(L) = Len(f)
      /\ \A k \in 1..Len(L) : /\ L[k].title = Title[f[k]]
                              /\ L[k].score = old[k] + score[r][f[k]]
                              /\ L[k].secret = 0

LEMMA FilteredMovies ==
  ASSUME ControlTypeOK, NEW r \in Requests
  PROVE  LET f == InOrder(DOMAIN score[r])
         IN  /\ DOMAIN score[r] \in SUBSET Movies
             /\ f \in Seq(DOMAIN score[r]) /\ Len(f) = Cardinality(DOMAIN score[r])
             /\ Len(f) <= Len(Title)
             /\ \A j, k \in 1..Len(f) : f[j] = f[k] => j = k
             /\ \A k \in 1..Len(f) : /\ f[k] \in DOMAIN score[r] /\ f[k] \in Movies
                                     /\ Title[f[k]] \in Nat /\ score[r][f[k]] \in Nat
                                     /\ k \in Movies
<1> DEFINE D == DOMAIN score[r]
           f == InOrder(D)
<1>1. D \in SUBSET Movies /\ \A m \in D : score[r][m] \in Nat
  <2>1. score \in ScoreTables
    BY DEF ControlTypeOK
  <2>2. DOMAIN score[r] \subseteq Movies /\ score[r] \in [DOMAIN score[r] -> Nat]
    BY <2>1, ScoresAssumption
  <2> QED  BY <2>2
<1>2. Movies = 1..Len(Title) /\ Len(Title) \in Nat /\ \A m \in Movies : Title[m] \in Nat
  BY TitleAssumption DEF Movies
<1> HIDE DEF D, f
<1>3. /\ f \in Seq(D) /\ Len(f) = Cardinality(D)
      /\ \A j, k \in 1..Len(f) : f[j] = f[k] => j = k
  BY <1>1, InOrderLists DEF f
<1>4. Cardinality(D) <= Len(Title)
  <2>1. IsFiniteSet(Movies) /\ Cardinality(Movies) = Len(Title)
    BY <1>2, FS_Interval
  <2> QED  BY <1>1, <2>1, FS_Subset
<1>5. \A k \in 1..Len(f) : f[k] \in D
  BY <1>3
<1>6. \A k \in 1..Len(f) : k \in Movies
  BY <1>2, <1>3, <1>4
<1> QED  BY <1>1, <1>2, <1>3, <1>4, <1>5, <1>6 DEF D, f

LEMMA FilterMakes ==
  ASSUME IInv, TypeOK, NEW r \in Requests, Filter(r)
  PROVE  \E q \in {0} \cup heap.free : \E old \in [Movies -> Nat] : \E L \in Seq(Entry) :
           /\ old = (IF q = 0 THEN Zeros ELSE block[q].scores)
           /\ Filtered(r, old, L) /\ list' = [list EXCEPT ![r] = L]
           /\ block' = [block EXCEPT ![r] = [onheap |-> heap.used, scores |-> old]]
           /\ heap' = [heap EXCEPT !.free = @ \ {q}]
<1> DEFINE f == InOrder(DOMAIN score[r])
           L(old) == [k \in DOMAIN f |->
                       [title |-> Title[f[k]], score |-> old[k] + score[r][f[k]], secret |-> 0]]
<1>1. PICK q \in {0} \cup heap.free :
        LET old == IF q = 0 THEN Zeros ELSE block[q].scores
        IN  /\ block' = [block EXCEPT ![r] = [onheap |-> heap.used, scores |-> old]]
            /\ heap' = [heap EXCEPT !.free = @ \ {q}]
            /\ list' = [list EXCEPT ![r] = L(old)]
  BY DEF Filter
<1> DEFINE old == IF q = 0 THEN Zeros ELSE block[q].scores
<1>2. old \in [Movies -> Nat]
  <2>1. q # 0 => q \in Requests
    BY DEF TypeOK
  <2> QED  BY <2>1 DEF TypeOK, Zeros
<1> HIDE DEF f
<1>3. /\ f \in Seq(DOMAIN score[r])
      /\ \A k \in 1..Len(f) : /\ Title[f[k]] \in Nat /\ score[r][f[k]] \in Nat
                              /\ k \in Movies
  BY FilteredMovies DEF f, IInv
<1>4. PICK o \in [Movies -> Nat] : o = old
  BY <1>2
<1>5. Filtered(r, o, L(o))
  <2>1. Len(f) \in Nat /\ DOMAIN f = 1..Len(f)
    BY <1>3
  <2>2. ASSUME NEW k \in 1..Len(f)
        PROVE  /\ [title |-> Title[f[k]], score |-> o[k] + score[r][f[k]], secret |-> 0] \in Entry
               /\ L(o)[k].title = Title[f[k]] /\ L(o)[k].secret = 0
               /\ L(o)[k].score = o[k] + score[r][f[k]]
    <3>1. Title[f[k]] \in Nat /\ score[r][f[k]] \in Nat /\ o[k] \in Nat
      BY <1>3
    <3> QED  BY <2>1, <3>1 DEF Entry
  <2>3. L(o) \in Seq(Entry) /\ Len(L(o)) = Len(f)
    BY <2>1, <2>2
  <2> QED  BY <2>2, <2>3 DEF Filtered, f
<1>6. L(o) \in Seq(Entry)
  BY <1>5 DEF Filtered
<1> QED  BY <1>1, <1>4, <1>5, <1>6

LEMMA FilterLists ==
  ASSUME ListIInv, NEW r \in Requests, Filter(r)
  PROVE  TypeOK' /\ HalvesExact' /\ PartsOK' /\ UntouchedOK' /\ HalvesWait'
<1>1. PICK q \in {0} \cup heap.free, old \in [Movies -> Nat], L \in Seq(Entry) :
        /\ Filtered(r, old, L) /\ list' = [list EXCEPT ![r] = L]
        /\ block' = [block EXCEPT ![r] = [onheap |-> heap.used, scores |-> old]]
        /\ heap' = [heap EXCEPT !.free = @ \ {q}]
  BY FilterMakes DEF ListIInv
<1> DEFINE n == Cardinality(DOMAIN score[r])
<1>2. /\ call' = [call EXCEPT ![r][Root] = Called(0, n - 1)] /\ answer' = answer
      /\ req[r] = "filter"
  BY DEF Filter
<1>3. L \in Seq(Entry) /\ Len(L) = n /\ n <= Len(Title) /\ \A k \in 1..n : L[k].secret = 0
  BY <1>1, FilteredMovies DEF Filtered, ListIInv, IInv
<1>4. n \in Nat
  BY FilteredNumber DEF ListIInv, IInv
<1> HIDE DEF n
<1>5. list' \in [Requests -> Seq(Entry)] /\ list'[r] = L
      /\ \A s \in Requests : s # r => list'[s] = list[s]
  BY <1>1, <1>3 DEF ListIInv, TypeOK
<1>6. /\ call'[r][Root].pc = "start" /\ call'[r][Root].left = 0
      /\ call'[r][Root].right = n - 1
      /\ \A s \in Requests, p \in Paths : s # r \/ p # Root => call'[s][p] = call[s][p]
      /\ \A p \in Paths : p # Root => call'[r][p].pc = "none"
  <2>1. \A p \in Paths : call[r][p].pc = "none"
    BY <1>2 DEF ListIInv, IInv, RequestsOK, Started
  <2>2. call \in [Requests -> [Paths -> Call]]
    BY DEF ListIInv, IInv, ControlTypeOK
  <2>3. \A s \in Requests, p \in Paths : s # r \/ p # Root => call'[s][p] = call[s][p]
    BY <1>2, <2>2
  <2>4. call'[r][Root] = Called(0, n - 1)
    BY <1>2, <2>2, RootPath
  <2> QED  BY <2>1, <2>3, <2>4, CalledFields
<1>7. TypeOK'
  <2>1. ControlTypeOK'
    BY FilterInv DEF ListIInv, IInv
  <2>2. \A s \in Requests : Len(list'[s]) <= Len(Title)
    BY <1>3, <1>5 DEF ListIInv, TypeOK
  <2>3. heap \in [used : BOOLEAN, free : SUBSET Requests]
    BY DEF ListIInv, TypeOK
  <2>4. heap' \in [used : BOOLEAN, free : SUBSET Requests]
    BY <1>1, <2>3
  <2>5. [onheap |-> heap.used, scores |-> old] \in [onheap : BOOLEAN, scores : [Movies -> Nat]]
    BY <1>1, <2>3
  <2>6. block' \in [Requests -> [onheap : BOOLEAN, scores : [Movies -> Nat]]]
    BY <1>1, <2>5 DEF ListIInv, TypeOK
  <2>7. answer' \in [Requests -> Seq(Nat) \cup {None}]
    BY <1>2 DEF ListIInv, TypeOK
  <2> QED  BY <1>5, <2>1, <2>2, <2>4, <2>6, <2>7 DEF TypeOK
\* The calls and lists of the other requests are as before.
<1>8. \A s \in Requests, p \in Paths : s # r =>
        /\ (Started(s, p)' <=> Started(s, p)) /\ (Done(s, p)' <=> Done(s, p))
        /\ Mid(s, p)' = Mid(s, p) /\ Entries(s, p)' = Entries(s, p)
        /\ Joined(s, p) => call'[s] = call[s]
        /\ call'[s] = call[s]
  <2>1. call \in [Requests -> [Paths -> Call]]
    BY DEF ListIInv, IInv, ControlTypeOK
  <2>2. \A s \in Requests : s # r => call'[s] = call[s]
    BY <1>2, <2>1
  <2> QED  BY <1>5, <2>2 DEF Started, Done, Mid, Entries
<1>9. HalvesExact'
  <2> SUFFICES ASSUME NEW s \in Requests, NEW x \in Paths
               PROVE  /\ call'[s][x].pc \in {"both", "first", "second", "less"} =>
                           /\ call'[s][Left(x)].left = call'[s][x].left
                           /\ call'[s][Left(x)].right = Mid(s, x)'
                      /\ call'[s][x].pc \in {"both", "second", "less"} =>
                           /\ call'[s][Right(x)].left = Mid(s, x)' + 1
                           /\ call'[s][Right(x)].right = call'[s][x].right
                      /\ call'[s][x].pc = "less" => Joined(s, x)'
    BY DEF HalvesExact
  <2>1. CASE s = r
    BY <1>6, <2>1
  <2>2. CASE s # r
    BY <1>8, <2>2 DEF ListIInv, HalvesExact, Joined, Done
  <2> QED  BY <2>1, <2>2
<1>10. PartsOK'
  <2> SUFFICES ASSUME NEW s \in Requests, NEW x \in Paths
               PROVE  /\ Started(s, Root)' => /\ call'[s][Root].left = 0
                                              /\ call'[s][Root].right = Len(list'[s]) - 1
                      /\ Done(s, x)' => HasPart(s, x)' \/ Vacant(s, x)'
    BY DEF PartsOK
  <2>1. CASE s = r
    BY <1>3, <1>5, <1>6, <2>1 DEF Done
  <2>2. CASE s # r
    BY <1>5, <1>8, <2>2, RootPath DEF ListIInv, PartsOK, HasPart, Vacant
  <2> QED  BY <2>1, <2>2
<1>11. UntouchedOK'
  <2> SUFFICES ASSUME NEW s \in Requests, NEW x \in Paths
               PROVE  /\ call'[s][x].pc \in {"start", "room", "more"} =>
                           Untouched(s, call[s][x].left, call[s][x].right)'
                      /\ call'[s][x].pc = "first" =>
                           Untouched(s, Mid(s, x) + 1, call[s][x].right)'
    BY DEF UntouchedOK, Untouched
  <2>1. CASE s = r
    <3>1. \A k \in DOMAIN list'[r] : list'[r][k].secret = 0
      BY <1>3, <1>5
    <3>2. call'[r][x].pc # "first"
      BY <1>6
    <3> QED  BY <2>1, <3>1, <3>2 DEF Untouched
  <2>2. CASE s # r
    <3>1. call'[s][x] = call[s][x] /\ list'[s] = list[s] /\ Mid(s, x)' = Mid(s, x)
      BY <1>5, <1>8, <2>2
    <3>2. /\ call[s][x].pc \in {"start", "room", "more"} =>
               Untouched(s, call[s][x].left, call[s][x].right)
          /\ call[s][x].pc = "first" => Untouched(s, Mid(s, x) + 1, call[s][x].right)
      BY DEF ListIInv, UntouchedOK
    <3> QED  BY <3>1, <3>2 DEF Untouched
  <2> QED  BY <2>1, <2>2
<1>12. HalvesWait'
  <2> SUFFICES ASSUME NEW s \in Requests, NEW x \in Paths, list'[s] # <<>>, Done(s, x)',
                      x = Root \/ ~Done(s, Front(x))'
               PROVE  /\ Ordered(Entries(s, x)')
                      /\ \A k \in DOMAIN Entries(s, x)' : Entries(s, x)'[k].secret = 1
    BY DEF HalvesWait, Undisturbed
  <2>1. s # r
    BY <1>6 DEF Done
  <2>2. Done(s, x) /\ (x = Root \/ ~Done(s, Front(x)))
    BY <1>8, <2>1, FrontPath
  <2> QED  BY <1>5, <1>8, <2>1, <2>2 DEF ListIInv, HalvesWait, Undisturbed
<1> QED  BY <1>7, <1>9, <1>10, <1>11, <1>12

\* Who waits for filter has not been answered.
LEMMA FilterUnanswered ==
  ASSUME ListIInv, NEW r \in Requests, req[r] \in {"none", "filter", "sort"},
         main.pc # "died"
  PROVE  answer[r] = None
BY DEF ListIInv, HeapOK

LEMMA FilterHeap ==
  ASSUME ListIInv, NEW r \in Requests, Filter(r)
  PROVE  HeapOK'
<1>1. PICK q \in {0} \cup heap.free, old \in [Movies -> Nat] :
        /\ block' = [block EXCEPT ![r] = [onheap |-> heap.used, scores |-> old]]
        /\ heap' = [heap EXCEPT !.free = @ \ {q}]
  BY FilterMakes DEF ListIInv
<1>2. /\ req[r] = "filter" /\ req' = [req EXCEPT ![r] = "sort"]
      /\ UNCHANGED <<build, main, answer>>
  BY DEF Filter, input
<1>3. main.pc # "died"
  BY <1>2 DEF ListIInv, IInv, MainOK
<1>4. answer[r] = None
  BY <1>2, <1>3, FilterUnanswered
<1>5. heap'.used = heap.used /\ heap'.free \subseteq heap.free
  BY <1>1 DEF ListIInv, TypeOK
<1>6. /\ block'[r].onheap = heap.used
      /\ \A s \in Requests : s # r => block'[s] = block[s] /\ req'[s] = req[s]
  BY <1>1, <1>2 DEF ListIInv, IInv, ControlTypeOK, TypeOK
<1>7. r \notin heap.free
  BY <1>4 DEF ListIInv, HeapOK
<1> USE DEF HeapOK
<1>8. /\ heap'.used => \E p \in Requests : answer'[p] # None
      /\ build' = "PROCESS" => ~heap'.used
  BY <1>2, <1>5 DEF ListIInv
<1>9. ASSUME NEW s \in Requests
      PROVE  /\ block'[s].onheap => heap'.used /\ \E p \in Requests \ {s} : answer'[p] # None
             /\ s \in heap'.free => block'[s].onheap /\ answer'[s] # None
             /\ answer'[s] # None => req'[s] = "ended" \/ main'.pc = "died"
  <2>1. CASE s = r
    BY <1>2, <1>4, <1>5, <1>6, <1>7, <2>1 DEF ListIInv
  <2>2. CASE s # r
    BY <1>2, <1>5, <1>6, <2>2 DEF ListIInv
  <2> QED  BY <2>1, <2>2
<1> QED  BY <1>8, <1>9

-----------------------------------------------------------------------------
(* Every step keeps ListIInv.                                              *)

LEMMA ListsStay ==
  ASSUME ListIInv, list' = list, call' = call
  PROVE  HalvesExact' /\ PartsOK' /\ UntouchedOK' /\ HalvesWait'
<1>1. \A r \in Requests, p \in Paths :
        /\ Mid(r, p)' = Mid(r, p) /\ Entries(r, p)' = Entries(r, p)
        /\ Started(r, p)' = Started(r, p) /\ Done(r, p)' = Done(r, p)
  BY DEF Mid, Entries, Started, Done
<1>2. HalvesExact'
  BY DEF ListIInv, HalvesExact, Mid, Joined, Done
<1>3. PartsOK'
  BY DEF ListIInv, PartsOK, HasPart, Vacant, Started, Done
<1>4. UntouchedOK'
  BY <1>1 DEF ListIInv, UntouchedOK, Untouched
<1>5. HalvesWait'
  BY <1>1, FrontPath DEF ListIInv, HalvesWait, Undisturbed
<1> QED  BY <1>2, <1>3, <1>4, <1>5

LEMMA TypesStay ==
  ASSUME TypeOK, ControlTypeOK', list' \in [Requests -> Seq(Entry)],
         \A r \in Requests : Len(list'[r]) = Len(list[r]), UNCHANGED <<block, heap, answer>>
  PROVE  TypeOK'
BY DEF TypeOK

LEMMA HeapStays ==
  ASSUME HeapOK, UNCHANGED <<build, block, heap, answer>>,
         \A r \in Requests : /\ answer[r] # None
                             /\ req[r] = "ended" \/ main.pc = "died"
                             => req'[r] = "ended" \/ main'.pc = "died"
  PROVE  HeapOK'
BY DEF HeapOK

\* A step that leaves calls and lists, the heap and the answers alone.
LEMMA QuietLists ==
  ASSUME ListIInv, IInv', UNCHANGED <<build, list, call, block, heap, answer>>,
         \A r \in Requests : /\ answer[r] # None
                             /\ req[r] = "ended" \/ main.pc = "died"
                             => req'[r] = "ended" \/ main'.pc = "died"
  PROVE  ListIInv'
<1>1. TypeOK'
  BY TypesStay DEF ListIInv, TypeOK, IInv
<1>2. HeapOK'
  BY HeapStays DEF ListIInv
<1> QED  BY <1>1, <1>2, ListsStay DEF ListIInv

LEMMA MainLists == ListIInv /\ Main => ListIInv'
<1> SUFFICES ASSUME ListIInv, Main PROVE ListIInv'
  OBVIOUS
<1>1. IInv'
  BY MainLoadsInv, MainCreatesInv, MainJoinsInv, MainLeavesInv, MainReturnsInv DEF Main, ListIInv
<1>2. UNCHANGED <<build, list, call, block, heap, answer>> /\ main.pc # "died"
  BY DEF Main, MainLoads, MainCreates, MainJoins, MainLeaves, MainReturns, input
<1>3. \A r \in Requests : req[r] = "ended" => req'[r] = "ended"
  <2>1. CASE MainCreates
    <3>1. req[main.i] = "none" /\ req' = [req EXCEPT ![main.i] = "filter"]
      BY <2>1 DEF MainCreates, ListIInv, IInv, MainOK, ControlTypeOK, Requests
    <3> QED  BY <3>1 DEF ListIInv, IInv, ControlTypeOK
  <2>2. CASE ~MainCreates
    <3>1. req' = req
      BY <2>2 DEF Main, MainLoads, MainJoins, MainLeaves, MainReturns
    <3> QED  BY <3>1
  <2> QED  BY <2>1, <2>2
<1> QED  BY <1>1, <1>2, <1>3, QuietLists

\* A call that goes on without a look at the list.
LEMMA MovesKeep ==
  ASSUME ListIInv, IInv', NEW r \in Requests, NEW p \in Paths, NEW d, Moves(r, p, d),
         d.pc # "done", d.pc \in {"room", "more"} => call[r][p].pc \in {"start", "room"},
         UNCHANGED <<build, main, req, list, block, heap, answer>>
  PROVE  ListIInv'
<1>1. TypeOK'
  BY TypesStay DEF ListIInv, TypeOK, IInv
<1>2. HeapOK'
  BY HeapStays DEF ListIInv
<1>3. HalvesExact'
  BY MovesExact DEF ListIInv, IInv
<1>4. PartsOK' /\ UntouchedOK' /\ HalvesWait'
  BY MovesLists DEF ListIInv, IInv
<1> QED  BY <1>1, <1>2, <1>3, <1>4 DEF ListIInv

\* What the three of them do to the call.
LEMMA MovesTo ==
  ASSUME ControlTypeOK, NEW r \in Requests, NEW p \in Paths, Active(r, p),
         NEW pc \in {"room", "more", "less"}, NEW reg \in 0..(CountMod - 1),
         pc = "less" => call[r][p].pc = "both" /\ Joined(r, p),
         call' = [call EXCEPT ![r][p] = [call[r][p] EXCEPT !.pc = pc, !.reg = reg]]
  PROVE  \E d : Moves(r, p, d) /\ d.pc = pc
<1> DEFINE d == [call[r][p] EXCEPT !.pc = pc, !.reg = reg]
<1>1. /\ d \in Call /\ d.pc = pc /\ d.left = call[r][p].left /\ d.right = call[r][p].right
  BY CallFields DEF Call
<1> HIDE DEF d
<1>2. call' = [call EXCEPT ![r][p] = d]
  BY DEF d
<1>3. Moves(r, p, d)
  BY <1>1, <1>2 DEF Moves
<1> QED  BY <1>1, <1>3

LEMMA SeesRoomLists == \A r \in Requests, p \in Paths : ListIInv /\ SeesRoom(r, p) => ListIInv'
<1> SUFFICES ASSUME NEW r \in Requests, NEW p \in Paths, ListIInv, SeesRoom(r, p)
             PROVE  ListIInv'
  OBVIOUS
<1>1. call[r][p] \in Call /\ call[r][p].reg \in 0..(CountMod - 1)
  BY CallFields DEF ListIInv, IInv
<1>2. call' = [call EXCEPT ![r][p] = [call[r][p] EXCEPT !.pc = "room", !.reg = call[r][p].reg]]
  BY <1>1 DEF SeesRoom, Call
<1>3. PICK d : Moves(r, p, d) /\ d.pc = "room"
  BY <1>1, <1>2, MovesTo DEF ListIInv, IInv, Active, SeesRoom
<1>4. IInv'
  BY SeesRoomInv DEF ListIInv
<1> QED  BY <1>3, <1>4, MovesKeep DEF SeesRoom, input

LEMMA LoadsMoreLists ==
  \A r \in Requests, p \in Paths : ListIInv /\ LoadsMore(r, p) => ListIInv'
<1> SUFFICES ASSUME NEW r \in Requests, NEW p \in Paths, ListIInv, LoadsMore(r, p)
             PROVE  ListIInv'
  OBVIOUS
<1>1. call[r][p] \in Call /\ count \in 0..(CountMod - 1)
  BY CallFields DEF ListIInv, IInv, ControlTypeOK
<1>2. call' = [call EXCEPT ![r][p] = [call[r][p] EXCEPT !.pc = "more", !.reg = count]]
  BY <1>1 DEF LoadsMore, Call
<1>3. PICK d : Moves(r, p, d) /\ d.pc = "more"
  BY <1>1, <1>2, MovesTo DEF ListIInv, IInv, Active, LoadsMore
<1>4. IInv'
  BY LoadsMoreInv DEF ListIInv
<1> QED  BY <1>3, <1>4, MovesKeep DEF LoadsMore, input

LEMMA LoadsLessLists ==
  \A r \in Requests, p \in Paths : ListIInv /\ LoadsLess(r, p) => ListIInv'
<1> SUFFICES ASSUME NEW r \in Requests, NEW p \in Paths, ListIInv, LoadsLess(r, p)
             PROVE  ListIInv'
  OBVIOUS
<1>1. call[r][p] \in Call /\ count \in 0..(CountMod - 1)
  BY CallFields DEF ListIInv, IInv, ControlTypeOK
<1>2. call' = [call EXCEPT ![r][p] = [call[r][p] EXCEPT !.pc = "less", !.reg = count]]
  BY <1>1 DEF LoadsLess, Call
<1>3. PICK d : Moves(r, p, d) /\ d.pc = "less"
  BY <1>1, <1>2, MovesTo DEF ListIInv, IInv, Active, LoadsLess
<1>4. IInv'
  BY LoadsLessInv DEF ListIInv
<1> QED  BY <1>3, <1>4, MovesKeep DEF LoadsLess, input

\* A call that starts halves.
LEMMA SplitsKeep ==
  ASSUME ListIInv, IInv', NEW r \in Requests, NEW p \in Paths, NEW pc, NEW N,
         SplitsTo(r, p, pc, N), UNCHANGED <<build, main, req, list, block, heap, answer>>
  PROVE  ListIInv'
<1>1. TypeOK'
  BY TypesStay DEF ListIInv, TypeOK, IInv
<1>2. HeapOK'
  BY HeapStays DEF ListIInv
<1>3. HalvesExact'
  BY SplitsExact DEF ListIInv, IInv
<1>4. list[r] \in Seq(Entry)
  BY DEF ListIInv, TypeOK
<1>5. PartsOK' /\ UntouchedOK' /\ HalvesWait'
  BY <1>4, SplitsLists DEF ListIInv, IInv
<1> QED  BY <1>1, <1>2, <1>3, <1>5 DEF ListIInv

LEMMA CreatesThreadLists ==
  \A r \in Requests, p \in Paths : ListIInv /\ CreatesThread(r, p) => ListIInv'
<1> SUFFICES ASSUME NEW r \in Requests, NEW p \in Paths, ListIInv, CreatesThread(r, p)
             PROVE  ListIInv'
  OBVIOUS
<1>1. ~IsLeaf(r, p) /\ IInv'
  BY CreatesThreadInv DEF CreatesThread, ListIInv, IInv, CallsOK, HalvesOK
<1>2. call' = [call EXCEPT ![r] = AfterSplit(r, p, "both", {Left(p), Right(p)})]
  <2>1. call \in [Requests -> [Paths -> Call]]
    BY DEF ListIInv, IInv, ControlTypeOK
  <2> QED  BY <1>1, <2>1, Halves DEF CreatesThread, HalfOf, AfterSplit
<1>3. SplitsTo(r, p, "both", {Left(p), Right(p)})
  BY <1>1, <1>2 DEF SplitsTo, Splits, CreatesThread
<1> QED  BY <1>1, <1>3, SplitsKeep DEF CreatesThread, input

LEMMA ForksLists == \A r \in Requests, p \in Paths : ListIInv /\ Forks(r, p) => ListIInv'
<1> SUFFICES ASSUME NEW r \in Requests, NEW p \in Paths, ListIInv, Forks(r, p) PROVE ListIInv'
  OBVIOUS
<1>1. ~IsLeaf(r, p) /\ IInv'
  BY ForksInv DEF Forks, ListIInv
<1>2. call' = [call EXCEPT ![r] = AfterSplit(r, p, "both", {Left(p), Right(p)})]
  <2>1. call \in [Requests -> [Paths -> Call]]
    BY DEF ListIInv, IInv, ControlTypeOK
  <2> QED  BY <1>1, <2>1, Halves DEF Forks, HalfOf, AfterSplit
<1>3. SplitsTo(r, p, "both", {Left(p), Right(p)})
  BY <1>1, <1>2 DEF SplitsTo, Splits, Forks
<1> QED  BY <1>1, <1>3, SplitsKeep DEF Forks, input

LEMMA SeesFullLists == \A r \in Requests, p \in Paths : ListIInv /\ SeesFull(r, p) => ListIInv'
<1> SUFFICES ASSUME NEW r \in Requests, NEW p \in Paths, ListIInv, SeesFull(r, p)
             PROVE  ListIInv'
  OBVIOUS
<1>1. ~IsLeaf(r, p) /\ IInv'
  BY SeesFullInv DEF SeesFull, ListIInv
<1>2. call' = [call EXCEPT ![r] = AfterSplit(r, p, "first", {Left(p)})]
  <2>1. call \in [Requests -> [Paths -> Call]]
    BY DEF ListIInv, IInv, ControlTypeOK
  <2> QED  BY <1>1, <2>1, Halves DEF SeesFull, HalfOf, AfterSplit
<1>3. SplitsTo(r, p, "first", {Left(p)})
  BY <1>1, <1>2 DEF SplitsTo, Splits, SeesFull
<1> QED  BY <1>1, <1>3, SplitsKeep DEF SeesFull, input

LEMMA TurnsRightLists ==
  \A r \in Requests, p \in Paths : ListIInv /\ TurnsRight(r, p) => ListIInv'
<1> SUFFICES ASSUME NEW r \in Requests, NEW p \in Paths, ListIInv, TurnsRight(r, p)
             PROVE  ListIInv'
  OBVIOUS
<1>1. ~IsLeaf(r, p) /\ IInv'
  BY TurnsRightInv DEF TurnsRight, ListIInv, IInv, CallsOK, HalvesOK
<1>2. call' = [call EXCEPT ![r] = AfterSplit(r, p, "second", {Right(p)})]
  <2>1. call \in [Requests -> [Paths -> Call]]
    BY DEF ListIInv, IInv, ControlTypeOK
  <2> QED  BY <1>1, <2>1, Halves DEF TurnsRight, HalfOf, AfterSplit
<1>3. SplitsTo(r, p, "second", {Right(p)})
  BY <1>1, <1>2 DEF SplitsTo, Splits, TurnsRight
<1> QED  BY <1>1, <1>3, SplitsKeep DEF TurnsRight, input

\* A call that ends.
LEMMA FinishKeeps ==
  ASSUME ListIInv, IInv', NEW r \in Requests, NEW p \in Paths, NEW t, Finishes(r, p, t),
         UNCHANGED <<build, main, req, block, heap, answer>>
  PROVE  ListIInv'
<1> DEFINE d == [call[r][p] EXCEPT !.pc = "done"]
<1>1. Moves(r, p, d) /\ Replaces(r, p, t)
  BY DEF Finishes
<1> HIDE DEF d
<1>2. list \in [Requests -> Seq(Entry)] /\ ControlTypeOK /\ CallsOK
  BY DEF ListIInv, TypeOK, IInv
<1>3. \A s \in Requests : list'[s] \in Seq(Entry) /\ Len(list'[s]) = Len(list[s])
  BY <1>1, <1>2, FinishedList
<1>4. TypeOK'
  <2>1. list' \in [Requests -> Seq(Entry)]
    BY <1>1, <1>2, <1>3 DEF Replaces
  <2> QED  BY <1>3, <2>1, TypesStay DEF ListIInv, IInv
<1>5. HeapOK'
  BY HeapStays DEF ListIInv
<1>6. HalvesExact'
  BY <1>1, <1>2, MovesExact DEF ListIInv
<1>7. PartsOK' /\ UntouchedOK' /\ HalvesWait'
  BY <1>2, FinishParts, FinishUntouched, FinishWait DEF ListIInv
<1> QED  BY <1>4, <1>5, <1>6, <1>7 DEF ListIInv

LEMMA SortLeafLists == \A r \in Requests, p \in Paths : ListIInv /\ SortLeaf(r, p) => ListIInv'
<1> SUFFICES ASSUME NEW r \in Requests, NEW p \in Paths, ListIInv, SortLeaf(r, p)
             PROVE  ListIInv'
  OBVIOUS
<1>1. Finishes(r, p, Sort(Entries(r, p)))
  BY SortLeafFinishes DEF ListIInv, TypeOK
<1>2. IInv'
  BY SortLeafInv DEF ListIInv
<1> QED  BY <1>1, <1>2, FinishKeeps DEF SortLeaf, input

\* A call on an empty list ends.
LEMMA VacantKeeps ==
  ASSUME ListIInv, IInv', NEW r \in Requests, NEW p \in Paths, Active(r, p), Vacant(r, p),
         call' = [call EXCEPT ![r][p].pc = "done"],
         UNCHANGED <<build, main, req, list, block, heap, answer>>
  PROVE  ListIInv'
<1> DEFINE d == [call[r][p] EXCEPT !.pc = "done"]
<1>0. ControlTypeOK /\ CallsOK
  BY DEF ListIInv, IInv
<1>1. Moves(r, p, d) /\ d.pc = "done"
  BY <1>0, DoneMoves, CallFields DEF Call
<1> HIDE DEF d
<1>2. /\ call'[r][p].pc = "done"
      /\ \A s \in Requests, x \in Paths :
           /\ s # r \/ x # p => call'[s][x] = call[s][x]
           /\ call'[s][x].left = call[s][x].left /\ call'[s][x].right = call[s][x].right
           /\ Mid(s, x)' = Mid(s, x)
           /\ Started(s, x)' <=> Started(s, x)
           /\ Done(s, x) => Done(s, x)'
           /\ Done(s, x)' => Done(s, x) \/ (s = r /\ x = p)
  <2>1. \A s \in Requests, x \in Paths : Done(s, x)' => Done(s, x) \/ (s = r /\ x = p)
    BY <1>0, <1>1, MovedCalls DEF Done
  <2> QED  BY <1>0, <1>1, <2>1, MovedCalls
<1>3. TypeOK'
  BY TypesStay DEF ListIInv, TypeOK, IInv
<1>4. HeapOK'
  BY HeapStays DEF ListIInv
<1>5. HalvesExact'
  BY <1>0, <1>1, MovesExact DEF ListIInv
<1>6. PartsOK'
  BY <1>2, RootPath DEF ListIInv, PartsOK, HasPart, Vacant
<1>7. UntouchedOK'
  <2>1. \A s \in Requests, x \in Paths :
          call'[s][x].pc \in {"start", "room", "more", "first"} => call'[s][x] = call[s][x]
    BY <1>2
  <2> QED  BY <1>2, <2>1 DEF ListIInv, UntouchedOK, Untouched
<1>8. HalvesWait'
  <2> SUFFICES ASSUME NEW s \in Requests, NEW x \in Paths, list'[s] # <<>>, Done(s, x)',
                      x = Root \/ ~Done(s, Front(x))'
               PROVE  /\ Ordered(Entries(s, x)')
                      /\ \A k \in DOMAIN Entries(s, x)' : Entries(s, x)'[k].secret = 1
    BY DEF HalvesWait, Undisturbed
  <2>1. list[s] # <<>> /\ s # r
    BY DEF Vacant
  <2>2. Done(s, x) /\ (x = Root \/ ~Done(s, Front(x)))
    BY <1>2, <2>1, FrontPath
  <2>3. Entries(s, x)' = Entries(s, x)
    BY <1>2, SliceOfList
  <2> QED  BY <2>1, <2>2, <2>3 DEF ListIInv, HalvesWait, Undisturbed
<1> QED  BY <1>3, <1>4, <1>5, <1>6, <1>7, <1>8 DEF ListIInv

LEMMA SortStaleLists ==
  \A r \in Requests, p \in Paths : ListIInv /\ SortStale(r, p) => ListIInv'
<1> SUFFICES ASSUME NEW r \in Requests, NEW p \in Paths, ListIInv, SortStale(r, p)
             PROVE  ListIInv'
  OBVIOUS
<1>1. IInv' /\ Active(r, p)
  BY SortStaleInv DEF ListIInv, SortStale, Misses, Active
<1>2. Vacant(r, p)
  <2>1. Started(r, p) /\ call[r][p].right = 0 /\ list[r] = <<>>
    BY DEF SortStale, Misses, Started
  <2>2. call[r][p].left \in Int
    BY CallFields DEF ListIInv, IInv
  <2> QED  BY <2>1, <2>2 DEF ListIInv, IInv, CallsOK, RangesOK, Vacant
<1> QED  BY <1>1, <1>2, VacantKeeps DEF SortStale, input

\* What every merge of two halves has in common.
Merges(r, p) == MergeAfterThread(r, p) \/ MergeAfterFork(r, p) \/ MergeAlone(r, p)

LEMMA MergesFinish ==
  ASSUME ListIInv, NEW r \in Requests, NEW p \in Paths, Merges(r, p), list[r] # <<>>
  PROVE  /\ Finishes(r, p, Merge(Entries(r, Left(p)), Entries(r, Right(p)))) /\ IInv'
         /\ UNCHANGED <<build, score, main, req, block, heap, answer>>
<1>1. MergeHalves(r, p)
  BY DEF Merges, MergeAfterThread, MergeAfterFork, MergeAlone
<1>2. Joined(r, p) /\ call[r][p].pc \in {"both", "second", "less"}
  BY DEF Merges, MergeAfterThread, MergeAfterFork, MergeAlone, ListIInv, IInv, CallsOK,
     HalvesOK, HalvesExact, Joined
<1>3. IInv'
  BY MergeAfterThreadInv, MergeAfterForkInv, MergeAloneInv DEF Merges, ListIInv
<1>4. Finishes(r, p, Merge(Entries(r, Left(p)), Entries(r, Right(p))))
  BY <1>1, <1>2, MergeFinishes DEF ListIInv, TypeOK
<1> QED  BY <1>1, <1>3, <1>4 DEF MergeHalves, input

\* In an empty list there is nothing to merge.
LEMMA MergesNothing ==
  ASSUME ListIInv, NEW r \in Requests, NEW p \in Paths, Merges(r, p), list[r] = <<>>
  PROVE  Vacant(r, p) /\ Active(r, p) /\ list' = list
<1>1. MergeHalves(r, p)
  BY DEF Merges, MergeAfterThread, MergeAfterFork, MergeAlone
<1>2. Joined(r, p) /\ call[r][p].pc \in {"both", "second", "less"}
  BY DEF Merges, MergeAfterThread, MergeAfterFork, MergeAlone, ListIInv, IInv, CallsOK,
     HalvesOK, HalvesExact, Joined
<1>3. Left(p) \in Paths /\ Right(p) \in Paths
  BY <1>2, HalvesHavePaths DEF ListIInv, IInv
<1>4. ~HasPart(r, Left(p)) /\ ~HasPart(r, Right(p))
  <2>1. Len(list[r]) = 0
    OBVIOUS
  <2>2. \A q \in Paths : call[r][q].left \in Int /\ call[r][q].right \in Int
    BY CallFields DEF ListIInv, IInv
  <2> QED  BY <1>3, <2>1, <2>2 DEF HasPart
<1>5. Vacant(r, Left(p)) /\ Vacant(r, Right(p))
  BY <1>2, <1>3, <1>4 DEF ListIInv, PartsOK, Joined
<1>6. Vacant(r, p)
  BY <1>2, <1>5 DEF Vacant, ListIInv, HalvesExact
<1>7. list' = list
  <2> DEFINE t == Merge(Entries(r, Left(p)), Entries(r, Right(p)))
  <2>1. list' = [list EXCEPT ![r] = Splice(list[r], call[r][p].left, call[r][p].right, t)]
    BY <1>1 DEF MergeHalves
  <2> HIDE DEF t
  <2>2. Splice(list[r], call[r][p].left, call[r][p].right, t) = list[r]
    BY DEF Splice
  <2>3. list \in [Requests -> Seq(Entry)]
    BY DEF ListIInv, TypeOK
  <2> QED  BY <2>1, <2>2, <2>3
<1> QED  BY <1>2, <1>6, <1>7 DEF Active

LEMMA MergesLists == \A r \in Requests, p \in Paths : ListIInv /\ Merges(r, p) => ListIInv'
<1> SUFFICES ASSUME NEW r \in Requests, NEW p \in Paths, ListIInv, Merges(r, p)
             PROVE  ListIInv'
  OBVIOUS
<1>1. CASE list[r] # <<>>
  BY <1>1, MergesFinish, FinishKeeps
<1>2. CASE list[r] = <<>>
  <2>1. MergeHalves(r, p)
    BY DEF Merges, MergeAfterThread, MergeAfterFork, MergeAlone
  <2>2. IInv'
    BY MergeAfterThreadInv, MergeAfterForkInv, MergeAloneInv DEF Merges, ListIInv
  <2> QED  BY <1>2, <2>1, <2>2, MergesNothing, VacantKeeps DEF MergeHalves, input
<1> QED  BY <1>1, <1>2

\* Without calls there is nothing to say about their ranges.
LEMMA NoCalls ==
  ASSUME \A r \in Requests, p \in Paths : call[r][p].pc = "none"
  PROVE  HalvesExact /\ PartsOK /\ UntouchedOK /\ HalvesWait
BY RootPath DEF HalvesExact, PartsOK, UntouchedOK, HalvesWait, Undisturbed, Started, Done

LEMMA SortNothingLists ==
  \A r \in Requests, p \in Paths : ListIInv /\ SortNothing(r, p) => ListIInv'
<1> SUFFICES ASSUME NEW r \in Requests, NEW p \in Paths, ListIInv, SortNothing(r, p)
             PROVE  ListIInv'
  OBVIOUS
<1>1. IInv'
  BY SortNothingInv DEF ListIInv
<1>2. \A s \in Requests, q \in Paths : call'[s][q].pc = "none"
  BY DEF SortNothing, NoCall
<1>3. UNCHANGED <<build, list, block, heap, answer>> /\ main'.pc = "died"
  BY DEF SortNothing, input, ListIInv, IInv, ControlTypeOK
<1>4. HalvesExact' /\ PartsOK' /\ UntouchedOK' /\ HalvesWait'
  BY <1>2, RootPath DEF HalvesExact, PartsOK, UntouchedOK, HalvesWait, Undisturbed, Started, Done
<1>5. TypeOK'
  BY <1>1, <1>3, TypesStay DEF ListIInv, TypeOK, IInv
<1>6. HeapOK'
  BY <1>3, HeapStays DEF ListIInv
<1> QED  BY <1>1, <1>4, <1>5, <1>6 DEF ListIInv

LEMMA OutputLists == \A r \in Requests : ListIInv /\ Output(r) => ListIInv'
<1> SUFFICES ASSUME NEW r \in Requests, ListIInv, Output(r) PROVE ListIInv'
  OBVIOUS
<1> DEFINE a == [k \in DOMAIN list[r] |-> list[r][k].title]
<1>1. /\ answer' = [answer EXCEPT ![r] = a]
      /\ block' = [block EXCEPT ![r].scores =
           [m \in Movies |-> IF m \in DOMAIN list[r] THEN list[r][m].score ELSE @[m]]]
      /\ heap' = IF build = "PROCESS" THEN heap
                 ELSE [used |-> TRUE,
                       free |-> IF block[r].onheap THEN heap.free \cup {r} ELSE heap.free]
      /\ req' = [req EXCEPT ![r] = "ended"]
      /\ UNCHANGED <<build, score, main, count, list, call>>
  BY DEF Output, input
<1>2. IInv'
  BY OutputInv DEF ListIInv
<1>3. HalvesExact' /\ PartsOK' /\ UntouchedOK' /\ HalvesWait'
  BY <1>1, ListsStay
<1>4. /\ list[r] \in Seq(Entry) /\ block \in [Requests -> [onheap : BOOLEAN, scores : [Movies -> Nat]]]
      /\ heap \in [used : BOOLEAN, free : SUBSET Requests]
      /\ answer \in [Requests -> Seq(Nat) \cup {None}]
  BY DEF ListIInv, TypeOK
<1>5. a \in Seq(Nat) /\ a # None
  <2>1. \A k \in 1..Len(list[r]) : list[r][k].title \in Nat
    BY <1>4, EntryFields
  <2>2. DOMAIN list[r] = 1..Len(list[r]) /\ Len(list[r]) \in Nat
    BY <1>4
  <2>3. a \in [1..Len(list[r]) -> Nat]
    BY <2>1, <2>2
  <2>4. a \in Seq(Nat)
    BY <2>2, <2>3
  <2> QED  BY <2>4, NoneAssumption
<1> HIDE DEF a
<1>6. /\ answer'[r] = a /\ answer' \in [Requests -> Seq(Nat) \cup {None}]
      /\ \A s \in Requests : answer[s] # None => answer'[s] # None
      /\ \A s \in Requests : s # r => answer'[s] = answer[s]
  BY <1>1, <1>4, <1>5
<1>7. /\ block' \in [Requests -> [onheap : BOOLEAN, scores : [Movies -> Nat]]]
      /\ \A s \in Requests : block'[s].onheap = block[s].onheap
  <2> DEFINE w == [m \in Movies |-> IF m \in DOMAIN list[r] THEN list[r][m].score
                                    ELSE block[r].scores[m]]
  <2>1. w \in [Movies -> Nat]
    <3>1. \A k \in DOMAIN list[r] : list[r][k].score \in Nat
      BY <1>4, EntryFields
    <3>2. block[r].scores \in [Movies -> Nat]
      BY <1>4
    <3> QED  BY <3>1, <3>2
  <2>2. block' = [block EXCEPT ![r].scores = w]
    BY <1>1, <1>4
  <2> HIDE DEF w
  <2> QED  BY <1>4, <2>1, <2>2
<1>8. heap' \in [used : BOOLEAN, free : SUBSET Requests]
  BY <1>1, <1>4
<1>9. TypeOK'
  BY <1>1, <1>2, <1>6, <1>7, <1>8 DEF ListIInv, TypeOK, IInv
<1>10. HeapOK'
  <2>0. HeapOK
    BY DEF ListIInv
  <2>1. heap'.used => \E p \in Requests : answer'[p] # None
    BY <1>5, <1>6
  <2>2. build' = "PROCESS" => ~heap'.used
    BY <1>1, <2>0 DEF HeapOK
  <2>3. ASSUME NEW s \in Requests
        PROVE  /\ block'[s].onheap => heap'.used /\ \E p \in Requests \ {s} : answer'[p] # None
               /\ s \in heap'.free => block'[s].onheap /\ answer'[s] # None
               /\ answer'[s] # None => req'[s] = "ended" \/ main'.pc = "died"
    <3>1. heap.used => heap'.used
      BY <1>1
    <3>2. block'[s].onheap => heap'.used /\ \E p \in Requests \ {s} : answer'[p] # None
      BY <1>6, <1>7, <2>0, <3>1 DEF HeapOK
    <3>3. s \in heap'.free => s \in heap.free \/ (s = r /\ block[r].onheap)
      BY <1>1
    <3>4. s \in heap'.free => block'[s].onheap /\ answer'[s] # None
      BY <1>5, <1>6, <1>7, <2>0, <3>3 DEF HeapOK
    <3>5. req'[r] = "ended" /\ \A q \in Requests : q # r => req'[q] = req[q]
      BY <1>1 DEF ListIInv, IInv, ControlTypeOK
    <3>6. answer'[s] # None => req'[s] = "ended" \/ main'.pc = "died"
      BY <1>1, <1>6, <2>0, <3>5 DEF HeapOK
    <3> QED  BY <3>2, <3>4, <3>6
  <2> QED  BY <2>1, <2>2, <2>3 DEF HeapOK
<1> QED  BY <1>2, <1>3, <1>9, <1>10 DEF ListIInv

LEMMA InitLists == Init => ListIInv
<1> SUFFICES ASSUME Init PROVE ListIInv
  OBVIOUS
<1>1. IInv
  BY InitInv
<1>2. HalvesExact /\ PartsOK /\ UntouchedOK /\ HalvesWait
  <2>1. \A r \in Requests, p \in Paths : call[r][p].pc = "none"
    BY DEF Init, NoCall
  <2> QED  BY <2>1, NoCalls
<1>3. Zeros \in [Movies -> Nat]
  BY DEF Zeros
<1>4. TypeOK
  <2>1. /\ list = [r \in Requests |-> <<>>]
        /\ block = [r \in Requests |-> [onheap |-> FALSE, scores |-> Zeros]]
        /\ heap = [used |-> FALSE, free |-> {}]
        /\ answer = [r \in Requests |-> None]
    BY DEF Init
  <2>2. Len(Title) \in Nat
    BY TitleAssumption
  <2> QED  BY <1>1, <1>3, <2>1, <2>2 DEF TypeOK, IInv
<1>5. HeapOK
  BY DEF Init, HeapOK
<1> QED  BY <1>1, <1>2, <1>4, <1>5 DEF ListIInv

LEMMA NextLists == ListIInv /\ [Next]_vars => ListIInv'
<1> SUFFICES ASSUME ListIInv, [Next]_vars PROVE ListIInv'
  OBVIOUS
<1>1. CASE Main
  BY <1>1, MainLists
<1>2. ASSUME NEW r \in Requests, Handle(r) PROVE ListIInv'
  <2>1. CASE Filter(r)
    <3>1. IInv'
      BY <2>1, FilterInv DEF ListIInv
    <3> QED  BY <2>1, <3>1, FilterLists, FilterHeap DEF ListIInv
  <2>2. CASE Output(r)
    BY <2>2, OutputLists
  <2> QED  BY <1>2, <2>1, <2>2 DEF Handle
<1>3. ASSUME NEW r \in Requests, NEW p \in Paths, MergeSort(r, p) PROVE ListIInv'
  BY <1>3, SortLeafLists, SortNothingLists, SortStaleLists, SeesRoomLists, LoadsMoreLists, CreatesThreadLists,
     ForksLists, SeesFullLists, TurnsRightLists, LoadsLessLists, MergesLists
     DEF MergeSort, Merges
<1>4. CASE UNCHANGED vars
  <2>1. IInv'
    BY NextInv DEF ListIInv
  <2>2. UNCHANGED <<build, main, req, list, call, block, heap, answer>>
    BY <1>4 DEF vars, input
  <2> QED  BY <2>1, <2>2, QuietLists
<1> QED  BY <1>1, <1>2, <1>3, <1>4 DEF Next, Terminating

(* What is known of the lists while they are sorted holds in every         *)
(* reachable state of both programs.                                       *)
THEOREM ListInvariance == Spec => []ListIInv
BY InitLists, NextLists, PTL DEF Spec

(* Every variable of both programs has its type, the lists, the memory     *)
(* they stand in and the answers included.                                 *)
THEOREM TypeCorrectness == Spec => []TypeOK
<1>1. ListIInv => TypeOK
  BY DEF ListIInv
<1> QED  BY <1>1, ListInvariance, PTL

(* A half that is sorted stays in order, each of its titles marked once,   *)
(* until the call above it merges it, however the threads or processes of  *)
(* its request go on (server.c 157-247).                                   *)
THEOREM HalvesKept == Spec => []HalvesWait
<1>1. ListIInv => HalvesWait
  BY DEF ListIInv
<1> QED  BY <1>1, ListInvariance, PTL

-----------------------------------------------------------------------------
(* The answers.                                                            *)

\* What is matched stays matched while nobody touches the list and the input.
LEMMA MatchingStays ==
  ASSUME NEW r \in Requests, Matching(r), list'[r] = list[r], score' = score
  PROVE  Matching(r)'
BY DEF Matching

LEMMA MatchingRearranged ==
  ASSUME NEW r \in Requests, Matching(r), score' = score,
         list[r] \in Seq(Entry), list'[r] \in Seq(Entry), Rearranged(list[r], list'[r])
  PROVE  Matching(r)'
<1> DEFINE n == Len(list[r])
           D == DOMAIN score[r]
<1>1. n \in Nat /\ DOMAIN list[r] = 1..n /\ DOMAIN list'[r] = 1..n /\ Len(list'[r]) = n
  BY DEF Rearranged
<1>2. n = Cardinality(D)
  BY DEF Matching
<1>3. PICK f \in [1..n -> D] :
        /\ \A j, k \in 1..n : f[j] = f[k] => j = k
        /\ \A k \in 1..n : list[r][k].title = Title[f[k]] /\ list[r][k].score = score[r][f[k]]
  BY <1>1 DEF Matching
<1>4. PICK g \in [1..n -> 1..n] :
        /\ \A j, k \in 1..n : g[j] = g[k] => j = k
        /\ \A k \in 1..n : /\ list'[r][k].title = list[r][g[k]].title
                           /\ list'[r][k].score = list[r][g[k]].score
  BY DEF Rearranged
<1> DEFINE h == [k \in 1..n |-> f[g[k]]]
<1> HIDE DEF n, D
<1>5. h \in [1..n -> D] /\ \A k \in 1..n : h[k] = f[g[k]] /\ g[k] \in 1..n
  OBVIOUS
<1> HIDE DEF h
<1>6. \A j, k \in 1..n : h[j] = h[k] => j = k
  BY <1>3, <1>4, <1>5
<1>7. \A k \in 1..n : /\ list'[r][k].title = Title[h[k]]
                      /\ list'[r][k].score = score[r][h[k]]
  BY <1>3, <1>4, <1>5
<1>8. DOMAIN score'[r] = D /\ score'[r] = score[r]
  BY DEF D
<1>9. /\ h \in [DOMAIN list'[r] -> DOMAIN score'[r]]
      /\ Len(list'[r]) = Cardinality(DOMAIN score'[r])
      /\ \A j, k \in DOMAIN list'[r] : h[j] = h[k] => j = k
      /\ \A k \in DOMAIN list'[r] : /\ list'[r][k].title = Title[h[k]]
                                    /\ list'[r][k].score = score'[r][h[k]]
  BY <1>1, <1>2, <1>5, <1>6, <1>7, <1>8
<1> QED  BY <1>9 DEF Matching

LEMMA FilterMatches ==
  ASSUME ListIInv, Cleared, NEW r \in Requests, Filter(r)
  PROVE  /\ Matching(r)' /\ score' = score
         /\ \A s \in Requests : s # r => list'[s] = list[s] /\ req'[s] = req[s]
<1>1. PICK q \in {0} \cup heap.free, old \in [Movies -> Nat], L \in Seq(Entry) :
        /\ old = (IF q = 0 THEN Zeros ELSE block[q].scores)
        /\ Filtered(r, old, L) /\ list' = [list EXCEPT ![r] = L]
  <2>1. IInv /\ TypeOK
    BY DEF ListIInv
  <2>2. \E q \in {0} \cup heap.free : \E old \in [Movies -> Nat] : \E L \in Seq(Entry) :
          /\ old = (IF q = 0 THEN Zeros ELSE block[q].scores)
          /\ Filtered(r, old, L) /\ list' = [list EXCEPT ![r] = L]
          /\ block' = [block EXCEPT ![r] = [onheap |-> heap.used, scores |-> old]]
          /\ heap' = [heap EXCEPT !.free = @ \ {q}]
    BY <2>1, FilterMakes
  <2> QED  BY <2>2
<1>2. req[r] = "filter" /\ req' = [req EXCEPT ![r] = "sort"] /\ score' = score
  BY DEF Filter, input
<1>3. old = Zeros
  BY <1>1, <1>2 DEF Cleared
<1> DEFINE f == InOrder(DOMAIN score[r])
           D == DOMAIN score[r]
<1>4. /\ f \in Seq(D) /\ Len(f) = Cardinality(D)
      /\ \A j, k \in 1..Len(f) : f[j] = f[k] => j = k
      /\ \A k \in 1..Len(f) : f[k] \in D /\ score[r][f[k]] \in Nat /\ k \in Movies
  BY FilteredMovies DEF ListIInv, IInv
<1>5. /\ L \in Seq(Entry) /\ Len(L) = Len(f)
      /\ \A k \in 1..Len(L) : /\ L[k].title = Title[f[k]]
                              /\ L[k].score = old[k] + score[r][f[k]]
  BY <1>1 DEF Filtered
<1> HIDE DEF f
<1>6. list'[r] = L /\ DOMAIN L = 1..Len(f) /\ \A s \in Requests : s # r => list'[s] = list[s]
  BY <1>1, <1>5 DEF ListIInv, TypeOK
<1>7. \A k \in 1..Len(f) : L[k].score = score[r][f[k]]
  <2>1. \A k \in 1..Len(f) : old[k] = 0
    BY <1>3, <1>4 DEF Zeros
  <2> QED  BY <1>4, <1>5, <2>1
<1>8. f \in [1..Len(f) -> D]
  BY <1>4
<1>9. score'[r] = score[r]
  BY <1>2
<1>10. Matching(r)'
  <2>1. /\ f \in [DOMAIN list'[r] -> DOMAIN score'[r]]
        /\ Len(list'[r]) = Cardinality(DOMAIN score'[r])
        /\ \A j, k \in DOMAIN list'[r] : f[j] = f[k] => j = k
    BY <1>4, <1>5, <1>6, <1>8, <1>9
  <2>2. \A k \in DOMAIN list'[r] : /\ list'[r][k].title = Title[f[k]]
                                  /\ list'[r][k].score = score'[r][f[k]]
    BY <1>5, <1>6, <1>7, <1>9
  <2> QED  BY <2>1, <2>2 DEF Matching
<1> QED  BY <1>2, <1>6, <1>10 DEF ListIInv, IInv, ControlTypeOK

LEMMA FinishMatches ==
  ASSUME ListIInv, ListsMatch, NEW r \in Requests, NEW p \in Paths, NEW t,
         Finishes(r, p, t), UNCHANGED <<score, req>>
  PROVE  ListsMatch'
<1> DEFINE d == [call[r][p] EXCEPT !.pc = "done"]
<1>1. Replaces(r, p, t)
  BY DEF Finishes
<1>2. list \in [Requests -> Seq(Entry)] /\ ControlTypeOK
  BY DEF ListIInv, TypeOK, IInv
<1>3. /\ \A s \in Requests : s # r => list'[s] = list[s]
      /\ list'[r] \in Seq(Entry) /\ Rearranged(list[r], list'[r])
  BY <1>1, <1>2, FinishedList
<1> SUFFICES ASSUME NEW s \in Requests, req[s] = "sort" PROVE Matching(s)'
  BY DEF ListsMatch
<1>4. Matching(s)
  BY DEF ListsMatch
<1> QED  BY <1>2, <1>3, <1>4, MatchingStays, MatchingRearranged

LEMMA QuietMatches ==
  ASSUME ListsMatch, UNCHANGED <<score, list>>,
         \A r \in Requests : req'[r] = "sort" => req[r] = "sort"
  PROVE  ListsMatch'
BY MatchingStays DEF ListsMatch

LEMMA NextMatches == ListIInv /\ Cleared /\ ListsMatch /\ [Next]_vars => ListsMatch'
<1> SUFFICES ASSUME ListIInv, Cleared, ListsMatch, [Next]_vars PROVE ListsMatch'
  OBVIOUS
<1>0. req \in [Requests -> {"none", "filter", "sort", "ended"}]
  BY DEF ListIInv, IInv, ControlTypeOK
<1>1. CASE Main
  <2>1. UNCHANGED <<score, list>>
    BY <1>1 DEF Main, MainLoads, MainCreates, MainJoins, MainLeaves, MainReturns, input
  <2>2. \A r \in Requests : req'[r] = "sort" => req[r] = "sort"
    BY <1>0, <1>1 DEF Main, MainLoads, MainCreates, MainJoins, MainLeaves, MainReturns
  <2> QED  BY <2>1, <2>2, QuietMatches
<1>2. ASSUME NEW r \in Requests, Filter(r) PROVE ListsMatch'
  BY <1>2, FilterMatches, MatchingStays DEF ListsMatch
<1>3. ASSUME NEW r \in Requests, Output(r) PROVE ListsMatch'
  BY <1>0, <1>3, QuietMatches DEF Output, input
<1>4. ASSUME NEW r \in Requests, NEW p \in Paths, MergeSort(r, p) PROVE ListsMatch'
  <2>1. CASE SortLeaf(r, p)
    BY <2>1, SortLeafFinishes, FinishMatches DEF SortLeaf, input, ListIInv, TypeOK
  <2>2. CASE Merges(r, p)
    <3>1. CASE list[r] # <<>>
      BY <2>2, <3>1, MergesFinish, FinishMatches
    <3>2. CASE list[r] = <<>>
      BY <2>2, <3>2, MergesNothing, QuietMatches DEF Merges, MergeAfterThread, MergeAfterFork,
         MergeAlone, MergeHalves, input
    <3> QED  BY <3>1, <3>2
  <2>3. CASE ~SortLeaf(r, p) /\ ~Merges(r, p)
    <3>1. UNCHANGED <<score, list>> /\ \A s \in Requests : req'[s] = "sort" => req[s] = "sort"
      BY <1>4, <2>3 DEF MergeSort, Merges, SortNothing, SortStale, SeesRoom, LoadsMore, CreatesThread, Forks,
         SeesFull, TurnsRight, LoadsLess, input
    <3> QED  BY <3>1, QuietMatches
  <2> QED  BY <2>1, <2>2, <2>3
<1>5. CASE UNCHANGED vars
  BY <1>5, QuietMatches DEF vars, input
<1> QED  BY <1>1, <1>2, <1>3, <1>4, <1>5 DEF Next, Terminating, Handle

\* The list of a request that is sorted.
LEMMA WholeList ==
  ASSUME ListIInv, NEW r \in Requests, Done(r, Root)
  PROVE  list[r] \in Seq(Entry) /\ Ordered(list[r])
<1>1. list[r] \in Seq(Entry) /\ Root \in Paths
  BY RootPath DEF ListIInv, TypeOK
<1>2. /\ call[r][Root].left = 0 /\ call[r][Root].right = Len(list[r]) - 1
      /\ 0 <= Len(list[r]) - 1
  <2>1. /\ call[r][Root].left = 0 /\ call[r][Root].right = Len(list[r]) - 1
        /\ HasPart(r, Root) \/ Vacant(r, Root)
    BY <1>1 DEF ListIInv, PartsOK, Started, Done
  <2>2. ~Vacant(r, Root)
    <3> SUFFICES ASSUME list[r] = <<>>, call[r][Root].right = 0 PROVE FALSE
      BY DEF Vacant
    <3>1. Len(list[r]) = 0
      OBVIOUS
    <3>2. call[r][Root].right = Len(list[r]) - 1
      BY <2>1
    <3>3. call[r][Root].right = -1
      BY <3>1, <3>2
    <3> QED  BY <3>3
  <2>3. HasPart(r, Root)
    BY <2>1, <2>2
  <2>4. call[r][Root].left \in Int /\ call[r][Root].right \in Int
    BY <1>1, CallFields DEF ListIInv, IInv
  <2>5. 0 <= Len(list[r]) - 1
    BY <1>1, <2>1, <2>3, <2>4 DEF HasPart
  <2> QED  BY <2>1, <2>5
<1> DEFINE n == Len(list[r])
           e == Entries(r, Root)
<1>3. n \in Nat /\ n - 1 \in Nat
  BY <1>1, <1>2
<1>4. e = Slice(list[r], 0, n - 1)
  BY <1>2 DEF Entries
<1> HIDE DEF n, e
<1>5. /\ e \in Seq(Entry) /\ Len(e) = n /\ \A k \in 1..n : e[k] = list[r][k]
  <2>1. n - 1 < Len(list[r]) /\ 0 <= n - 1 /\ n - 1 - 0 + 1 = n /\ 0 \in Nat
        /\ \A k \in 1..n : 0 + k = k
    BY <1>3 DEF n
  <2> QED  BY <1>1, <1>3, <1>4, <2>1, SliceEntries
<1>6. e = list[r]
  BY <1>1, <1>5 DEF n
<1>7. Ordered(e)
  <2>1. list[r] # <<>>
    BY <1>2
  <2> QED  BY <1>1, <2>1 DEF ListIInv, HalvesWait, Undisturbed, e
<1> QED  BY <1>1, <1>6, <1>7

LEMMA OutputAnswers ==
  ASSUME ListIInv, ListsMatch, NEW r \in Requests, Output(r)
  PROVE  R!Answer(r)
<1> DEFINE n == Len(list[r])
           D == DOMAIN score[r]
           a == [k \in DOMAIN list[r] |-> list[r][k].title]
<1>1. /\ req[r] = "sort" /\ Done(r, Root) /\ answer' = [answer EXCEPT ![r] = a]
      /\ score' = score
  BY DEF Output, input
<1>2. list[r] \in Seq(Entry) /\ Ordered(list[r]) /\ DOMAIN list[r] = 1..n
  BY <1>1, WholeList
<1>3. answer[r] = None
  <2>1. main.pc # "died"
    BY <1>1 DEF ListIInv, IInv, MainOK
  <2> QED  BY <1>1, <2>1, FilterUnanswered
<1>4. answer'[r] = a /\ \A q \in Requests \ {r} : answer'[q] = answer[q]
  BY <1>1 DEF ListIInv, TypeOK
<1>5. a # None
  <2>1. \A k \in 1..n : list[r][k].title \in Nat
    BY <1>2, EntryFields
  <2>2. a \in [1..n -> Nat] /\ n \in Nat
    BY <1>2, <2>1
  <2>3. a \in Seq(Nat)
    BY <2>2
  <2> QED  BY <2>3, NoneAssumption
<1>6. n = Cardinality(D)
  BY <1>1 DEF ListsMatch, Matching
<1>7. PICK f \in [1..n -> D] :
        /\ \A j, k \in 1..n : f[j] = f[k] => j = k
        /\ \A k \in 1..n : list[r][k].title = Title[f[k]] /\ list[r][k].score = score[r][f[k]]
  BY <1>1, <1>2 DEF ListsMatch, Matching
<1>8. f \in R!SetToSeqs(D)
  <2>1. f \in [1..Cardinality(D) -> D]
    BY <1>6, <1>7
  <2>2. \A i, j \in 1..Cardinality(D) : i # j => f[i] # f[j]
    BY <1>6, <1>7
  <2>3. R!Cardinality(D) = Cardinality(D)
    BY DEF R!Cardinality, Cardinality
  <2> HIDE DEF D, n
  <2> QED  BY <2>1, <2>2, <2>3 DEF R!SetToSeqs
<1>9. R!IsSorted(f, LAMBDA x, y : R!Ranked(r, x, y))
  <2>1. \A i, j \in 1..n : i < j => ~Better(list[r][j], list[r][i])
    BY <1>2, OrderedEntries
  <2>2. \A k \in 1..n : Title[f[k]] \in Nat /\ score[r][f[k]] \in Nat
    BY <1>2, <1>7, EntryFields
  <2>3. ASSUME NEW i \in 1..n, NEW j \in 1..n, i < j PROVE R!Ranked(r, f[i], f[j])
    <3>1. /\ list[r][i].title = Title[f[i]] /\ list[r][i].score = score[r][f[i]]
          /\ list[r][j].title = Title[f[j]] /\ list[r][j].score = score[r][f[j]]
      BY <1>7
    <3>2. /\ Title[f[i]] \in Nat /\ score[r][f[i]] \in Nat
          /\ Title[f[j]] \in Nat /\ score[r][f[j]] \in Nat
      BY <2>2
    <3>3. ~Better(list[r][j], list[r][i])
      BY <2>1, <2>3
    <3> QED  BY <3>1, <3>2, <3>3 DEF Better, R!Ranked
  <2>4. Len(f) = n
    BY <1>2
  <2> QED  BY <2>3, <2>4 DEF R!IsSorted
<1>10. a = [k \in DOMAIN f |-> Title[f[k]]]
  BY <1>2, <1>7
<1>11. R!RightAnswer(r, a)
  BY <1>8, <1>9, <1>10 DEF R!RightAnswer
<1> QED  BY <1>1, <1>3, <1>4, <1>5, <1>11 DEF R!Answer

\* Answers are given by Output and by nobody else.
LEMMA StepAnswers ==
  ASSUME ListIInv, ListsMatch, [Next]_vars
  PROVE  [\E r \in Requests : R!Answer(r)]_<<score, answer>>
<1>1. CASE \E r \in Requests : Output(r)
  BY <1>1, OutputAnswers
<1>2. CASE Main
  BY <1>2 DEF Main, MainLoads, MainCreates, MainJoins, MainLeaves, MainReturns, input
<1>3. CASE \E r \in Requests : Filter(r)
  BY <1>3 DEF Filter, input
<1>4. CASE \E r \in Requests, p \in Paths : MergeSort(r, p)
  <2>1. PICK r \in Requests, p \in Paths : MergeSort(r, p)
    BY <1>4
  <2>2. CASE SortLeaf(r, p) \/ SortNothing(r, p) \/ SortStale(r, p) \/ SeesRoom(r, p)
             \/ LoadsMore(r, p)
    BY <2>2 DEF SortLeaf, SortNothing, SortStale, SeesRoom, LoadsMore, input
  <2>3. CASE CreatesThread(r, p) \/ Forks(r, p) \/ SeesFull(r, p) \/ TurnsRight(r, p)
    BY <2>3 DEF CreatesThread, Forks, SeesFull, TurnsRight, input
  <2>4. CASE LoadsLess(r, p)
    BY <2>4 DEF LoadsLess, input
  <2>5. CASE MergeAfterThread(r, p) \/ MergeAfterFork(r, p) \/ MergeAlone(r, p)
    BY <2>5 DEF MergeAfterThread, MergeAfterFork, MergeAlone, MergeHalves, input
  <2> QED  BY <2>1, <2>2, <2>3, <2>4, <2>5 DEF MergeSort
<1>5. CASE UNCHANGED vars
  BY <1>5 DEF vars, input
<1> QED  BY <1>1, <1>2, <1>3, <1>4, <1>5 DEF Next, Terminating, Handle

(* As long as malloc hands out no block that an earlier request has left   *)
(* its scores in, every request is answered once, by the titles of exactly *)
(* the movies it matches, best score first and alphabetically among equal  *)
(* ones: the race for num_of_threads, the halves that find no room and the *)
(* order in which threads end show in no answer (server.c 110-280).        *)
THEOREM AnswersFromCleared == Spec /\ []Cleared => Recommends
<1>1. Init => ListsMatch /\ R!RecommenderInit
  BY DEF Init, ListsMatch, R!RecommenderInit
<1> QED
  BY <1>1, NextMatches, StepAnswers, ListInvariance, PTL
     DEF Spec, Recommends, R!RecommenderSpec

\* For a block to be taken over, two requests have to be answered before a third one starts.
LEMMA TwoAreCleared ==
  ASSUME NumReqs <= 2 \/ Builds = {"PROCESS"}, ListIInv
  PROVE  Cleared
<1> SUFFICES ASSUME NEW r \in Requests, req[r] = "filter", NEW q \in heap.free PROVE FALSE
  BY DEF Cleared
<1>1. q \in Requests /\ block[q].onheap /\ heap.used /\ answer[q] # None
  BY DEF ListIInv, TypeOK, HeapOK
<1>2. PICK p \in Requests : p # q /\ answer[p] # None
  BY <1>1 DEF ListIInv, HeapOK
<1>3. answer[r] = None
  <2>1. main.pc # "died"
    BY DEF ListIInv, IInv, MainOK
  <2> QED  BY <2>1, FilterUnanswered
<1>4. Builds # {"PROCESS"}
  BY <1>1 DEF ListIInv, HeapOK, IInv, ControlTypeOK
<1>5. NumReqs \in Nat /\ NumReqs <= 2
  BY <1>4, SizesAssumption
<1> QED  BY <1>1, <1>2, <1>3, <1>5 DEF Requests

(* pserver, and tserver with up to two requests, answer every request      *)
(* right: Recommender is what they implement.                              *)
THEOREM Refinement ==
  ASSUME NumReqs <= 2 \/ Builds = {"PROCESS"}
  PROVE  Spec => Recommends
<1>1. ListIInv => Cleared
  BY TwoAreCleared
<1> QED  BY <1>1, ListInvariance, AnswersFromCleared, PTL
=============================================================================
