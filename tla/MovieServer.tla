----------------------------- MODULE MovieServer -----------------------------
(***************************************************************************)
(* simple-movies-recommendation-system: tserver, a thread per request and  *)
(* a merge sort that gives left halves to new threads, and pserver, one    *)
(* request and a merge sort that forks for left halves over shared memory. *)
(*                                                                         *)
(* A call of the merge sort is named by its path from the root of the      *)
(* recursion, 0 for a left half and 1 for a right one.  Code of a call     *)
(* that touches only its own range of the list is one step;                *)
(* num_of_threads, which all threads share without a lock, is loaded and   *)
(* stored in steps of their own.                                           *)
(***************************************************************************)
EXTENDS Integers, Sequences, FiniteSets, SequencesExt, MovieLists

CONSTANTS
  Builds,      \* the programs looked at: "THREAD" is tserver, "PROCESS" pserver
  NumReqs,     \* requests read from the input
  Title,       \* per movie of the table: its place in alphabetical order
  ScoreTables, \* what requests may match, and what the profiles then multiply to
  MaxDepth,    \* MAX_DEPTH
  MaxThread,   \* MAX_THREAD
  LeafSize,    \* pserver sorts ranges up to this length at once: 1024
  CountMod,    \* num_of_threads is unsigned and wraps: 2^32
  None         \* no answer yet

Requests == 1..NumReqs
Movies   == DOMAIN Title
Paths    == SeqOf({0, 1}, MaxDepth)

ASSUME BuildAssumption  == Builds \subseteq {"THREAD", "PROCESS"}
ASSUME SizesAssumption  == /\ NumReqs \in Nat \ {0} /\ MaxDepth \in Nat \ {0}
                           /\ MaxThread \in Nat /\ LeafSize \in Nat \ {0}
                           /\ CountMod \in Nat \ {0}
ASSUME TitleAssumption  == Title \in Seq(Nat)
\* lib.c 82 asserts that no score is negative.
ASSUME ScoresAssumption ==
  \A t \in ScoreTables : \A r \in Requests :
    DOMAIN t[r] \subseteq Movies /\ t[r] \in [DOMAIN t[r] -> Nat]
ASSUME NoneAssumption   == None \notin Seq(Nat)

VARIABLES
  build,    \* which program it is
  score,    \* the input: per request, for the movies it matches, their profiles multiplied
  main,     \* where the main thread is, its loop variable, the count it loaded
  count,    \* num_of_threads
  req,      \* per request: how far handle_request is
  list,     \* per request: its filtered_movies up to filtered_num
  block,    \* per request: is its memory from the heap, and the scores it came with
  heap,     \* does malloc serve this size from the heap, and whose blocks are free there
  call,     \* per request and path: that call of the merge sort
  answer    \* per request: the titles in its output file

input == <<build, score>>
vars  == <<input, main, count, req, list, block, heap, call, answer>>

Root     == <<>>
Left(p)  == Append(p, 0)
Right(p) == Append(p, 1)

NoCall == [pc |-> "none", left |-> 0, right |-> 0, reg |-> 0]
Called(left, right) == [NoCall EXCEPT !.pc = "start", !.left = left, !.right = right]
Done(r, p) == call[r][p].pc = "done"

Zeros == [m \in Movies |-> 0]

\* Mutant: a signed counter.
LessSigned(n) == n - 1

\* What num_of_threads++ and num_of_threads-- store after loading n.
More(n) == (n + 1) % CountMod
Less(n) == (n - 1) % CountMod

Init ==
  /\ build \in Builds
  /\ score \in ScoreTables
  /\ main = [pc |-> IF build = "THREAD" THEN "load" ELSE "serve", i |-> 1, reg |-> 0]
  /\ count = 0
  /\ req = [r \in Requests |-> IF build = "PROCESS" /\ r = 1 THEN "filter" ELSE "none"]
  /\ list = [r \in Requests |-> <<>>]
  /\ block = [r \in Requests |-> [onheap |-> FALSE, scores |-> Zeros]]
  /\ heap = [used |-> FALSE, free |-> {}]
  /\ call = [r \in Requests |-> [p \in Paths |-> NoCall]]
  /\ answer = [r \in Requests |-> None]

-----------------------------------------------------------------------------
(* main: num_of_threads++ and a thread per request, without a look at      *)
(* MAX_THREAD; then a join and num_of_threads-- for each.                  *)

MainLoads ==
  /\ main.pc = "load"
  /\ main' = [main EXCEPT !.pc = "create", !.reg = count]
  /\ UNCHANGED <<input, count, req, list, block, heap, call, answer>>

\* One more turn of the loop, or on behind it.
NextTurn(pc, behind) ==
  main' = IF main.i < NumReqs THEN [main EXCEPT !.pc = pc, !.i = @ + 1]
                              ELSE [main EXCEPT !.pc = behind, !.i = 1]

MainCreates ==
  /\ main.pc = "create"
  /\ count' = More(main.reg)
  /\ req' = [req EXCEPT ![main.i] = "filter"]
  /\ NextTurn("load", "join")
  /\ UNCHANGED <<input, list, block, heap, call, answer>>

MainJoins ==
  /\ main.pc = "join" /\ req[main.i] = "ended"
  /\ main' = [main EXCEPT !.pc = "leave", !.reg = count]
  /\ UNCHANGED <<input, count, req, list, block, heap, call, answer>>

MainLeaves ==
  /\ main.pc = "leave"
  /\ count' = Less(main.reg)
  /\ NextTurn("join", "returned")
  /\ UNCHANGED <<input, req, list, block, heap, call, answer>>

\* pserver's main has handled its request itself.
MainReturns ==
  /\ main.pc = "serve" /\ req[1] = "ended"
  /\ main' = [main EXCEPT !.pc = "returned"]
  /\ UNCHANGED <<input, count, req, list, block, heap, call, answer>>

-----------------------------------------------------------------------------
(* handle_request, and the same lines in pserver's main.                   *)

\* The movies of S, in the order of the table.
InOrder(S) ==
  LET F[m \in 0..Len(Title)] ==
        IF m = 0 THEN <<>> ELSE IF m \in S THEN Append(F[m - 1], m) ELSE F[m - 1]
  IN  F[Len(Title)]

\* filter adds the products to what stands in the new memory.  mmap hands out zeros, and so
\* does malloc, until the first block of this size was freed: then it takes them from its
\* heap, where it may reuse a block freed later (q) as it was left.
Filter(r) ==
  /\ req[r] = "filter"
  /\ \E q \in {0} \cup heap.free :
       LET old == IF q = 0 THEN Zeros ELSE block[q].scores
           f   == InOrder(DOMAIN score[r])
       IN  /\ block' = [block EXCEPT ![r] = [onheap |-> heap.used, scores |-> old]]
           /\ heap' = [heap EXCEPT !.free = @ \ {q}]
           /\ list' = [list EXCEPT ![r] =
                [k \in DOMAIN f |->
                  [title |-> Title[f[k]], score |-> old[k] + score[r][f[k]], secret |-> 0]]]
  /\ call' = [call EXCEPT ![r][Root] = Called(0, Cardinality(DOMAIN score[r]) - 1)]
  /\ req' = [req EXCEPT ![r] = "sort"]
  /\ UNCHANGED <<input, main, count, answer>>

\* The sorted list is printed and freed.  malloc learns from the first block it has mapped
\* and frees; a block of its heap keeps the scores.
Output(r) ==
  /\ req[r] = "sort" /\ Done(r, Root)
  /\ answer' = [answer EXCEPT ![r] = [k \in DOMAIN list[r] |-> list[r][k].title]]
  /\ block' = [block EXCEPT ![r].scores =
       [m \in Movies |-> IF m \in DOMAIN list[r] THEN list[r][m].score ELSE @[m]]]
  /\ heap' = IF build = "PROCESS" THEN heap
             ELSE [used |-> TRUE,
                   free |-> IF block[r].onheap THEN heap.free \cup {r} ELSE heap.free]
  /\ req' = [req EXCEPT ![r] = "ended"]
  /\ UNCHANGED <<input, main, count, list, call>>

-----------------------------------------------------------------------------
(* thread_merge_sort and process_merge_sort.                               *)

\* Mutant: a range of one movie is split again.
IsLeafByDepth(r, p) ==
  \/ Len(p) >= MaxDepth
  \/ build = "PROCESS" /\ call[r][p].right - call[r][p].left < LeafSize

IsLeaf(r, p) ==
  \/ Len(p) >= MaxDepth
  \/ build = "THREAD"  /\ call[r][p].right = call[r][p].left
  \/ build = "PROCESS" /\ call[r][p].right - call[r][p].left < LeafSize

Entries(r, p) == Slice(list[r], call[r][p].left, call[r][p].right)

SortLeaf(r, p) ==
  /\ call[r][p].pc = "start" /\ IsLeaf(r, p)
  /\ call[r][p].left \in 0..call[r][p].right /\ call[r][p].right < Len(list[r])
  /\ list' = [list EXCEPT ![r] = Splice(@, call[r][p].left, call[r][p].right, Sort(Entries(r, p)))]
  /\ call' = [call EXCEPT ![r][p].pc = "done"]
  /\ UNCHANGED <<input, main, count, req, block, heap, answer>>

\* No entry of the list is in the range: sort looks at a title beside it.
Misses(r, p) ==
  /\ call[r][p].pc = "start" /\ IsLeaf(r, p)
  /\ call[r][p].right < call[r][p].left \/ call[r][p].right >= Len(list[r])

\* What it finds is a null pointer: the process and all its threads end.
SortNothing(r, p) ==
  /\ Misses(r, p)
  /\ main' = [main EXCEPT !.pc = "died"]
  /\ req' = [q \in Requests |-> "none"]
  /\ call' = [q \in Requests |-> [path \in Paths |-> NoCall]]
  /\ UNCHANGED <<input, count, list, block, heap, answer>>

\* What it finds, title[0] for the ranges 0..0 and 1..0, is left in used memory: it goes on.
SortStale(r, p) ==
  /\ Misses(r, p)
  /\ list[r] = <<>> /\ call[r][p].right = 0 /\ block[r].onheap
  /\ call' = [call EXCEPT ![r][p].pc = "done"]
  /\ UNCHANGED <<input, main, count, req, list, block, heap, answer>>

\* C divides towards zero; left + right may be -1.
Half(n) == IF n < 0 THEN 0 ELSE n \div 2

Mid(r, p) == Half(call[r][p].left + call[r][p].right)

LeftCall(r, p)  == Called(call[r][p].left, Mid(r, p))

\* Mutant: both halves have the movie in the middle.
RightCallFromMid(r, p) == Called(Mid(r, p), call[r][p].right)
RightCall(r, p) == Called(Mid(r, p) + 1, call[r][p].right)

\* num_of_threads < MAX_THREAD: room for one more thread.
SeesRoom(r, p) ==
  /\ build = "THREAD" /\ call[r][p].pc = "start" /\ ~IsLeaf(r, p)
  /\ count < MaxThread
  /\ call' = [call EXCEPT ![r][p].pc = "room"]
  /\ UNCHANGED <<input, main, count, req, list, block, heap, answer>>

LoadsMore(r, p) ==
  /\ call[r][p].pc = "room"
  /\ call' = [call EXCEPT ![r][p].pc = "more", ![r][p].reg = count]
  /\ UNCHANGED <<input, main, count, req, list, block, heap, answer>>

\* The left half goes to a new thread while this one sorts the right half.
CreatesThread(r, p) ==
  /\ call[r][p].pc = "more"
  /\ count' = More(call[r][p].reg)
  /\ call' = [call EXCEPT ![r][p].pc = "both", ![r][Left(p)] = LeftCall(r, p),
                          ![r][Right(p)] = RightCall(r, p)]
  /\ UNCHANGED <<input, main, req, list, block, heap, answer>>

Forks(r, p) ==
  /\ build = "PROCESS" /\ call[r][p].pc = "start" /\ ~IsLeaf(r, p)
  /\ call' = [call EXCEPT ![r][p].pc = "both", ![r][Left(p)] = LeftCall(r, p),
                          ![r][Right(p)] = RightCall(r, p)]
  /\ UNCHANGED <<input, main, count, req, list, block, heap, answer>>

\* No room: the same thread sorts one half after the other.
SeesFull(r, p) ==
  /\ build = "THREAD" /\ call[r][p].pc = "start" /\ ~IsLeaf(r, p)
  /\ count >= MaxThread
  /\ call' = [call EXCEPT ![r][p].pc = "first", ![r][Left(p)] = LeftCall(r, p)]
  /\ UNCHANGED <<input, main, count, req, list, block, heap, answer>>

TurnsRight(r, p) ==
  /\ call[r][p].pc = "first" /\ Done(r, Left(p))
  /\ call' = [call EXCEPT ![r][p].pc = "second", ![r][Right(p)] = RightCall(r, p)]
  /\ UNCHANGED <<input, main, count, req, list, block, heap, answer>>

\* Mutant: nobody waits for the thread or process with the left half.
JoinedByLuck(r, p) == Done(r, Right(p))

\* The own half is done, and the thread or process with the other one has been waited for.
Joined(r, p) == Done(r, Left(p)) /\ Done(r, Right(p))

LoadsLess(r, p) ==
  /\ build = "THREAD" /\ call[r][p].pc = "both" /\ Joined(r, p)
  /\ call' = [call EXCEPT ![r][p].pc = "less", ![r][p].reg = count]
  /\ UNCHANGED <<input, main, count, req, list, block, heap, answer>>

MergeHalves(r, p) ==
  /\ list' = [list EXCEPT ![r] =
       Splice(@, call[r][p].left, call[r][p].right,
              Merge(Entries(r, Left(p)), Entries(r, Right(p))))]
  /\ call' = [call EXCEPT ![r][p].pc = "done"]
  /\ UNCHANGED <<input, main, req, block, heap, answer>>

MergeAfterThread(r, p) ==
  /\ call[r][p].pc = "less"
  /\ count' = Less(call[r][p].reg)
  /\ MergeHalves(r, p)

MergeAfterFork(r, p) ==
  /\ build = "PROCESS" /\ call[r][p].pc = "both" /\ Joined(r, p)
  /\ MergeHalves(r, p) /\ UNCHANGED count

MergeAlone(r, p) ==
  /\ call[r][p].pc = "second" /\ Done(r, Right(p))
  /\ MergeHalves(r, p) /\ UNCHANGED count

-----------------------------------------------------------------------------
Main    == MainLoads \/ MainCreates \/ MainJoins \/ MainLeaves \/ MainReturns
Handle(r)  == Filter(r) \/ Output(r)
MergeSort(r, p) ==
  \/ SortLeaf(r, p) \/ SortNothing(r, p) \/ SortStale(r, p)
  \/ SeesRoom(r, p) \/ LoadsMore(r, p) \/ CreatesThread(r, p) \/ Forks(r, p)
  \/ SeesFull(r, p) \/ TurnsRight(r, p)
  \/ LoadsLess(r, p) \/ MergeAfterThread(r, p) \/ MergeAfterFork(r, p) \/ MergeAlone(r, p)

Terminating == main.pc \in {"returned", "died"} /\ UNCHANGED vars

Next == \/ Main
        \/ \E r \in Requests : Handle(r)
        \/ \E r \in Requests, p \in Paths : MergeSort(r, p)
        \/ Terminating

Spec == Init /\ [][Next]_vars

\* The main thread, and the threads or processes of each request, go on as long as one of
\* them does not block.
FairSpec == /\ Spec /\ WF_vars(Main)
            /\ \A r \in Requests : WF_vars(Handle(r) \/ \E p \in Paths : MergeSort(r, p))
=============================================================================
