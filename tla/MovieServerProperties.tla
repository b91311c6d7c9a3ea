------------------------ MODULE MovieServerProperties ------------------------
(* What the two movie servers guarantee.  Checked by the runs of           *)
(* MCMovieServer.                                                          *)
EXTENDS MovieServer

Call == [pc : {"none", "start", "room", "more", "both", "first", "second", "less", "done"},
         left : Int, right : Int, reg : 0..(CountMod - 1)]

\* What steers threads and processes has its type.
ControlTypeOK ==
  /\ build \in Builds /\ score \in ScoreTables
  /\ main \in [pc : {"load", "create", "join", "leave", "serve", "returned", "died"},
               i : Requests, reg : 0..(CountMod - 1)]
  /\ count \in 0..(CountMod - 1)
  /\ req \in [Requests -> {"none", "filter", "sort", "ended"}]
  /\ call \in [Requests -> [Paths -> Call]]

\* Every variable has its type.
TypeOK ==
  /\ ControlTypeOK
  /\ list \in [Requests -> Seq(Entry)]
  /\ \A r \in Requests : Len(list[r]) <= Len(Title)
  /\ block \in [Requests -> [onheap : BOOLEAN, scores : [Movies -> Nat]]]
  /\ heap \in [used : BOOLEAN, free : SUBSET Requests]
  /\ answer \in [Requests -> Seq(Nat) \cup {None}]

\* The call has started and not returned.
Active(r, p) == call[r][p].pc \notin {"none", "done"}

\* The call may touch its range now: no call below it is going on.
Working(r, p) ==
  Active(r, p) /\ \A q \in Paths : IsStrictPrefix(p, q) => ~Active(r, q)

Indices(r, p) == call[r][p].left..call[r][p].right

(* Threads and processes sort one array without a lock (server.c 180, 235, *)
(* 241).  Two calls that can run at the same time never have an index in   *)
(* common, whatever thread was slow.                                       *)
NoOverlap ==
  \A r \in Requests : \A p, q \in Paths :
    Working(r, p) /\ Working(r, q) /\ p # q => Indices(r, p) \cap Indices(r, q) = {}

(* What a call leaves behind stays in order, each title marked as secret   *)
(* once, until the call above it merges it (server.c 193, 244): no merge   *)
(* starts on a half that somebody still sorts, and nobody disturbs a half  *)
(* that waits for the other.                                               *)
Undisturbed(r, p) ==
  list[r] # <<>> /\ Done(r, p) /\ (p = Root \/ ~Done(r, Front(p))) =>
    /\ Ordered(Entries(r, p))
    /\ \A k \in DOMAIN Entries(r, p) : Entries(r, p)[k].secret = 1
HalvesWait == \A r \in Requests : \A p \in Paths : Undisturbed(r, p)

(* handle_request frees its list (server.c 265) and main returns (line     *)
(* 332): by then no thread of the request may be at work on the list.      *)
NoWorkAfterFree ==
  \A r \in Requests :
    req[r] = "ended" \/ main.pc = "returned" => \A p \in Paths : ~Active(r, p)

-----------------------------------------------------------------------------
(* The inductive invariant behind NoOverlap and NoWorkAfterFree.           *)

Started(r, p) == call[r][p].pc # "none"

\* A call below p goes on only while p waits for it.
InnerCalls ==
  \A r \in Requests : \A p, q \in Paths :
    IsStrictPrefix(p, q) /\ Active(r, q) => call[r][p].pc \in {"both", "first", "second"}

\* Nothing below p has started before p came to it.
LaterCalls ==
  \A r \in Requests : \A p, q \in Paths :
    Started(r, q) =>
      /\ IsStrictPrefix(p, q) => call[r][p].pc \notin {"none", "start", "room", "more"}
      /\ call[r][p].pc = "first" => ~IsPrefix(Right(p), q)

\* A call with halves is no leaf; alone, it turns to the right half behind the left one.
HalvesOK ==
  \A r \in Requests : \A p \in Paths :
    /\ call[r][p].pc \in {"room", "more", "both", "first", "second", "less"} => ~IsLeaf(r, p)
    /\ call[r][p].pc = "first" => call[r][Left(p)].right = Mid(r, p)
    /\ call[r][p].pc = "second" => Done(r, Left(p))

\* Only the range 0..-1 of a request that matches nothing is split into empty ranges.
RangesOK ==
  \A r \in Requests : \A p \in Paths :
    Started(r, p) =>
      \/ 0 <= call[r][p].left /\ call[r][p].left <= call[r][p].right
      \/ call[r][p].left = 1 /\ call[r][p].right <= 0
      \/ p = Root /\ call[r][p].left = 0 /\ call[r][p].right = -1

RangesNested ==
  \A r \in Requests : \A p, q \in Paths :
    p # Root /\ IsPrefix(p, q) /\ Started(r, q) => Indices(r, q) \subseteq Indices(r, p)

RangesApart ==
  \A r \in Requests : \A p, q \in Paths :
    Started(r, p) /\ Started(r, q) /\ ~IsPrefix(p, q) /\ ~IsPrefix(q, p) =>
      Indices(r, p) \cap Indices(r, q) = {}

\* The calls of a request start after its filter and are over before its list is freed.
RequestsOK ==
  \A r \in Requests : \A p \in Paths :
    /\ req[r] \in {"none", "filter"} => ~Started(r, p)
    /\ req[r] = "ended" => ~Active(r, p)

\* main creates every request once, and has waited for each of them when it returns.
MainOK ==
  /\ build = "PROCESS" => main.pc \in {"serve", "returned", "died"}
  /\ \A r \in Requests :
       /\ main.pc \in {"load", "create"} /\ r >= main.i => req[r] = "none"
       /\ main.pc \in {"join", "leave"} /\ r < main.i => req[r] = "ended"
       /\ main.pc = "leave" /\ r = main.i => req[r] = "ended"
       /\ main.pc \in {"returned", "died"} => req[r] \in {"none", "ended"}
       /\ main.pc = "serve" /\ r # 1 => req[r] = "none"

CallsOK ==
  InnerCalls /\ LaterCalls /\ HalvesOK /\ RangesOK /\ RangesNested /\ RangesApart

IInv == ControlTypeOK /\ CallsOK /\ RequestsOK /\ MainOK

-----------------------------------------------------------------------------
(* The inductive invariant behind HalvesWait and Recommends: what stands   *)
(* in the lists while they are sorted.                                     *)

\* Each half has its part of the range of the call that split it.
HalvesExact ==
  \A r \in Requests : \A p \in Paths :
    /\ call[r][p].pc \in {"both", "first", "second", "less"} =>
         /\ call[r][Left(p)].left = call[r][p].left
         /\ call[r][Left(p)].right = Mid(r, p)
    /\ call[r][p].pc \in {"both", "second", "less"} =>
         /\ call[r][Right(p)].left = Mid(r, p) + 1
         /\ call[r][Right(p)].right = call[r][p].right
    /\ call[r][p].pc = "less" => Joined(r, p)

\* A part of the list that is not empty; a range of an empty one that gets past sort.
HasPart(r, p) ==
  0 <= call[r][p].left /\ call[r][p].left <= call[r][p].right /\ call[r][p].right < Len(list[r])
Vacant(r, p) == list[r] = <<>> /\ call[r][p].left \in {0, 1} /\ call[r][p].right = 0

\* The first call has the whole list, and who is done had one of these.
PartsOK ==
  \A r \in Requests : \A p \in Paths :
    /\ Started(r, Root) => call[r][Root].left = 0 /\ call[r][Root].right = Len(list[r]) - 1
    /\ Done(r, p) => HasPart(r, p) \/ Vacant(r, p)

Untouched(r, left, right) ==
  \A k \in DOMAIN list[r] : k - 1 \in left..right => list[r][k].secret = 0

\* No title is marked before a call sorts the range it is in.
UntouchedOK ==
  \A r \in Requests : \A p \in Paths :
    /\ call[r][p].pc \in {"start", "room", "more"} =>
         Untouched(r, call[r][p].left, call[r][p].right)
    /\ call[r][p].pc = "first" => Untouched(r, Mid(r, p) + 1, call[r][p].right)

\* A block goes back to the heap only when somebody has been answered.
HeapOK ==
  /\ heap.used => \E p \in Requests : answer[p] # None
  /\ build = "PROCESS" => ~heap.used
  /\ \A r \in Requests :
       /\ block[r].onheap => heap.used /\ \E p \in Requests \ {r} : answer[p] # None
       /\ r \in heap.free => block[r].onheap /\ answer[r] # None
       /\ answer[r] # None => req[r] = "ended" \/ main.pc = "died"

ListIInv == IInv /\ TypeOK /\ HalvesExact /\ PartsOK /\ UntouchedOK /\ HalvesWait /\ HeapOK

\* The list of a request that is sorted has the movies it matches, with their scores.
Matching(r) ==
  \E f \in [DOMAIN list[r] -> DOMAIN score[r]] :
    /\ Len(list[r]) = Cardinality(DOMAIN score[r])
    /\ \A j, k \in DOMAIN list[r] : f[j] = f[k] => j = k
    /\ \A k \in DOMAIN list[r] : /\ list[r][k].title = Title[f[k]]
                                 /\ list[r][k].score = score[r][f[k]]
ListsMatch == \A r \in Requests : req[r] = "sort" => Matching(r)

\* Nobody who still has to filter can get memory with the scores of another request.
Cleared == (\E r \in Requests : req[r] = "filter") => heap.free = {}

-----------------------------------------------------------------------------
(* The servers implement Recommender: every file holds the right titles in *)
(* the right order, however threads were interleaved, whatever their race  *)
(* did to num_of_threads, and however many halves found no room.           *)
R == INSTANCE Recommender
Recommends == R!RecommenderSpec

(* The server comes to its end with every request answered, if each matches *)
(* something: threads that join each other never wait in a circle, and no  *)
(* range that is split ever gets empty.                                    *)
Served == {r \in Requests : build = "THREAD" \/ r = 1}
ServesAll ==
  (\A r \in Served : DOMAIN score[r] # {}) =>
    <>(main.pc = "returned" /\ \A r \in Served : answer[r] # None)

(* server.c 174-177: a thread is created only while there are fewer than   *)
(* MAX_THREAD.  The threads beside main's:                                 *)
RequestThreads == {r \in Requests : req[r] \in {"filter", "sort"}}
HalfThreads ==
  {rp \in Requests \X Paths :
     call[rp[1]][rp[2]].pc \in {"both", "less"} /\ Active(rp[1], Left(rp[2]))}
ThreadLimit ==
  build = "THREAD" => Cardinality(RequestThreads) + Cardinality(HalfThreads) <= MaxThread
=============================================================================
