----------------------- MODULE ThreadLibraryProperties -----------------------
(* What the thread library guarantees.  Checked by the runs of             *)
(* MCThreadLibrary.                                                        *)
EXTENDS ThreadLibrary

Members(q) == {q[n] : n \in 1..Len(q)}

\* The process executes code of the thread RUNNING names.
InThread == pc \in {"setup", "yield", "read", "tstp_window", "alrm_window"}

Tcb == [arg : Int, i : 0..MaxLoops, x : Int, y : Int, buf : Int]

\* Every variable has its type.
TypeOK ==
  /\ pc \in {"start", "sched", "idle", "returned", "crash",
             "setup", "yield", "read", "tstp_window", "alrm_window"}
  /\ cause \in 0..3
  /\ rq \in Seq(Threads) /\ wq \in Seq(Threads) /\ cur \in Nat
  /\ env \in [Threads -> {"setup", "yield", "read"}]
  /\ tcb \in [Threads -> Tcb]
  /\ exited \subseteq Created
  /\ mask \subseteq Signals /\ pending \subseteq Signals /\ armed \in BOOLEAN
  /\ fifo \in [Subs -> Seq(Numbers)]
  /\ fed \in [Subs -> Seq(Numbers)]
  /\ used \in [Subs -> Seq(Numbers)]
  /\ writer \in [Subs -> {"never", "open", "closed"}]

\* The thread that has the processor, if any has.
runningBar == IF InThread \/ pc = "sched" THEN {Running} ELSE {}

\* The thread that has called thread_exit and is still in the ready queue.
Leaving == IF pc = "sched" /\ cause = 3 THEN {Running} ELSE {}

(* The queues are arrays with holes to fill (scheduler.c 46-69).  With one *)
(* reader, as main creates, whatever order threads read, exit and wake up  *)
(* in, each that has not exited is in exactly one entry of one queue.      *)
NoThreadLost ==
  /\ Members(rq) \cap Members(wq) = {}
  /\ Members(rq) \cup Members(wq) = (Created \ exited) \cup Leaving
  /\ Cardinality(Members(rq)) = Len(rq)
  /\ Cardinality(Members(wq)) = Len(wq)

(* A jump takes the thread to the setjmp it last executed: who waits is a  *)
(* reader inside async_read, who is in a window of thread_yield would come *)
(* back behind it, and rq_current names a thread whenever it is used.      *)
ResumesInPlace ==
  /\ \A t \in Members(wq) : t \in Subs /\ env[t] = "read"
  /\ InThread \/ pc = "sched" => cur < Len(rq)
  /\ pc \in {"tstp_window", "alrm_window"} => env[Running] = "yield"
  /\ pc = "sched" /\ cause = 2 => env[Running] = "read"

\* With one reader, as main creates, nothing goes through an empty entry: the queues
\* never leave rq_current on one, nor NULL in waiting_queue (scheduler.c 37-119).
NoNullJump == pc # "crash"

(* scheduler.c 24: the scheduler runs with SIGTSTP and SIGALRM blocked,    *)
(* from all three places that jump to it, so that no signal can cut a      *)
(* queue update short; and outside its two windows a thread has both       *)
(* blocked, one in each window.                                            *)
SignalsBlocked ==
  mask = CASE pc = "tstp_window" -> {"ALRM"}
           [] pc = "alrm_window" -> {"TSTP"}
           [] OTHER -> Signals

(* Time slices never stop: as long as the process lives an alarm is        *)
(* running or waits to be delivered, and never both (scheduler.c 18).      *)
AlarmLives ==
  Timeslice > 0 /\ pc \notin {"start", "returned"} => (armed <=> "ALRM" \notin pending)

(* A reader takes each number of its FIFO once and in order, as long as    *)
(* its writer stays, however often it is put to sleep between them.        *)
InputInOrder ==
  \A t \in Subs : WritersClose \/ used[t] \o fifo[t] = fed[t]

(* README.md 26: who is ready "has all the input it needs at the moment".  *)
(* While writers stay, what select said of a reader's FIFO when the reader *)
(* was woken still holds whenever it gets to run and reads, any number of  *)
(* switches later (scheduler.c 40-45, threadtools.h 92-94).  After a       *)
(* writer has left, it is false: end of file wakes a reader too.           *)
ReadyHasInput ==
  \A t \in Subs : WritersClose \/
    (t \in Members(rq) \ runningBar /\ env[t] = "read" => fifo[t] # <<>>)

-----------------------------------------------------------------------------
(* The results the threads print, kept in their tcb across switches.       *)

FibonacciNumber == LET F[n \in 1..MaxLoops] == IF n <= 2 THEN 1 ELSE F[n - 1] + F[n - 2]
                   IN  F

\* The sum of s[a+1..b].
SumBetween(s, a, b) ==
  LET P[n \in 0..Len(s)] == IF n = 0 THEN 0 ELSE P[n - 1] + s[n]
  IN  P[b] - P[a]

\* The largest sum of a run of adjacent numbers of s, the empty run included.
IsBestSum(s, x) ==
  LET runs == {SumBetween(s, ab[1], ab[2]) :
                 ab \in {p \in (0..Len(s)) \X (0..Len(s)) : p[1] <= p[2]}}
  IN  x \in runs /\ \A r \in runs : r <= x

(* What fibonacci and max_subarray print is the Fibonacci number of the    *)
(* iteration and the best sum of the numbers taken so far, although each   *)
(* computes it from fields that survive any number of switches.            *)
AnswersRight ==
  /\ \A t \in Fibs : tcb[t].i \in 1..(MaxLoops - 1) => tcb[t].y = FibonacciNumber[tcb[t].i]
  /\ \A t \in Subs : used[t] # <<>> => IsBestSum(used[t], tcb[t].x)
-----------------------------------------------------------------------------
(* The states of the threads.                                              *)

States == INSTANCE ThreadStates WITH
            running <- runningBar,
            ready   <- Members(rq) \ runningBar,
            waiting <- Members(wq),
            gone    <- exited \ Leaving

(* The ready queue stores the running and the ready threads, the waiting   *)
(* queue the waiting ones, only the scheduler moves them (README.md 29-32) *)
(* and it loses none.  Every ready thread gets the processor although one  *)
(* thread never ends: alarms cut it short, and rotation and hole filling   *)
(* pass over nobody.  That a ready thread has its input, README.md 26, is  *)
(* no part of this: see ReadyHasInput.                                     *)
FairThreads == States!Spec

(* A reader with input wakes up, although the waiting queue is only        *)
(* looked at when somebody calls the scheduler.                            *)
WakesUp == \A t \in Subs : (t \in Members(wq) /\ fifo[t] # <<>>) ~> (t \in Members(rq))

(* When no argument is 0 and writers keep writing, all threads exit and    *)
(* start_threading returns.                                                *)
Terminates == <>(pc = "returned")
=============================================================================
