---------------------------- MODULE ThreadLibrary ----------------------------
(***************************************************************************)
(* thread-library: user-level threads that switch by setjmp and longjmp.   *)
(* There is one process and one flow of control, pc; what runs beside it   *)
(* is the alarm, whoever sends SIGTSTP, and the writers of the FIFOs.      *)
(*                                                                         *)
(* A stretch of code in which both signals are blocked is one action.  The *)
(* two windows of thread_yield, each with one signal unblocked, are states *)
(* of their own.  longjmp to a stored environment resumes the code after   *)
(* its setjmp: env says which setjmp of the thread that was.               *)
(***************************************************************************)
EXTENDS Integers, Sequences, FiniteSets

CONSTANTS
  Fibs, Cols, Subs,   \* threads running fibonacci, collatz and max_subarray
  Creation,           \* the order in which init_threads creates them
  Arg,                \* the argument of each on the command line
  Null,               \* an entry of waiting_queue without a thread
  Timeslice,          \* seconds between alarms; alarm(0) sets none
  Numbers,            \* what writers put into a FIFO, one number per line
  WritersClose,       \* whether a writer may close the FIFO and leave
  MaxNumbers,         \* bound: numbers written to one FIFO
  MaxLoops            \* bound: iterations counted of a loop that never ends

Threads == Fibs \cup Cols \cup Subs
Signals == {"TSTP", "ALRM"}
Created == {Creation[n] : n \in {m \in 1..Len(Creation) : Arg[Creation[m]] >= 0}}

ASSUME KindsAssumption    == Fibs \cap Cols = {} /\ Subs \cap (Fibs \cup Cols) = {}
ASSUME CreationAssumption == /\ Creation \in Seq(Threads)
                             /\ \A m, n \in 1..Len(Creation) :
                                  Creation[m] = Creation[n] => m = n
ASSUME ArgAssumption      == Arg \in [Threads -> Int]
ASSUME NullAssumption     == Null \notin Threads
ASSUME SliceAssumption    == Timeslice \in Nat
ASSUME NumbersAssumption  == Numbers \subseteq Int
ASSUME BoundsAssumption   == /\ MaxNumbers \in Nat /\ MaxLoops \in Nat \ {0}
                             /\ \A t \in Fibs \cup Subs : Arg[t] < MaxLoops
                             /\ WritersClose \in BOOLEAN

VARIABLES
  pc,       \* where the process is
  cause,    \* what the scheduler was called with: 1 signal, 2 async_read, 3 exit
  rq, wq,   \* ready_queue and waiting_queue up to rq_size and wq_size
  cur,      \* rq_current
  env,      \* per thread: the setjmp its environment was stored by
  tcb,      \* per thread: arg, i, x, y and the number in buf
  exited,   \* the threads that called thread_exit
  mask,     \* the signals blocked
  pending,  \* the signals raised and not delivered
  armed,    \* whether an alarm is running
  fifo,     \* per reader: numbers written and not read
  writer,   \* per reader: whether somebody has its FIFO open for writing
  fed,      \* per reader: every number written so far
  used      \* per reader: every number its loop has taken from buf so far

queues  == <<rq, wq, cur>>
signals == <<mask, pending, armed>>
input   == <<fifo, writer, fed>>
vars    == <<pc, cause, queues, env, tcb, exited, signals, input, used>>

Running == rq[cur + 1]
-----------------------------------------------------------------------------
(* The loop bodies.                                                        *)

Fibonacci(b) == IF b.i <= 2 THEN [b EXCEPT !.x = 1, !.y = 1]
                            ELSE [b EXCEPT !.x = b.y, !.y = b.x + b.y]

Collatz(b) == [b EXCEPT !.arg = IF b.arg % 2 = 0 THEN b.arg \div 2 ELSE b.arg * 3 + 1]

\* Mutant: the sum of the run that ends here never starts again.
MaxSubarrayOneRun(b) ==
  LET y == IF b.i > 1 THEN b.y + b.buf ELSE b.buf
      x == IF b.i = 1 THEN 0 ELSE b.x
  IN  [b EXCEPT !.y = y, !.x = IF x < y THEN y ELSE x]

MaxSubarray(b) ==
  LET y == IF b.i > 1 /\ b.y > 0 THEN b.y + b.buf ELSE b.buf
      x == IF b.i = 1 THEN 0 ELSE b.x
  IN  [b EXCEPT !.y = y, !.x = IF x < y THEN y ELSE x]

\* RUNNING->i of a loop that never ends stays at the bound, and so do its results.
Count(b) == [b EXCEPT !.i = IF b.i < MaxLoops THEN b.i + 1 ELSE b.i]

Body(t, b) == IF t \in Cols THEN Collatz(b)
              ELSE IF b.i = MaxLoops THEN b
              ELSE IF t \in Fibs THEN Fibonacci(b)
              ELSE MaxSubarray(b)

Finished(t, b) == IF t \in Cols THEN b.arg = 1 ELSE b.i = b.arg

\* read(): a line of the FIFO, or nothing at end of file, which leaves buf as it was.
Read(t, b) == IF fifo[t] = <<>> THEN b ELSE [b EXCEPT !.buf = Head(fifo[t])]

\* Mutant: the result of select is not looked at.
ReadableAlways(t) == writer[t] = writer[t]

Readable(t) == fifo[t] # <<>> \/ writer[t] = "closed"
-----------------------------------------------------------------------------
(* The scheduler.                                                          *)

\* longjmp to the environment of entry c of queue q.
JumpTo(q, c) == IF c < Len(q) THEN env[q[c + 1]] ELSE "crash"

\* Mutant: the queue gets shorter and nobody moves into the hole.
CutQueue(q, c) == SubSeq(q, 1, Len(q) - 1)

\* The last thread takes the place of the one that leaves.
FillHole(q, c) == SubSeq([q EXCEPT ![c + 1] = q[Len(q)]], 1, Len(q) - 1)

\* The entries of q that are in S, in their order: the n-th has n - 1 before it.
Picked(q, S) ==
  LET at == {m \in 1..Len(q) : q[m] \in S}
  IN  [n \in 1..Cardinality(at) |->
         q[CHOOSE m \in at : Cardinality({k \in at : k <= m}) = n]]

Awake  == {t \in Subs : Readable(t)}
Woken  == Picked(wq, Awake)

\* Each sleeper is copied to the front and the entry it came from is cleared, also
\* when the two are one: who slept in front of the first one woken is lost.
Asleep ==
  LET kept       == Picked(wq, Subs \ Awake)
      inPlace(n) == \A m \in 1..n : wq[m] \notin Awake
  IN  [n \in 1..Len(kept) |-> IF Woken # <<>> /\ inPlace(n) THEN Null ELSE kept[n]]

\* Mutant: rq_current is not reset at the end of the queue.
NotWrapped(q) == cur

\* Mutant: rq_current goes back to the last entry, which may not be there.
WrappedToLast(q) == IF cur = Len(q) THEN Len(q) - 1 ELSE cur

\* rq_current after the entry at cur has left q.
Wrapped(q) == IF cur = Len(q) THEN 0 ELSE cur

\* Mutant: a signal switches threads without looking at the waiting queue.
RotateBlindly ==
  /\ rq' = rq
  /\ wq' = wq
  /\ cur' = (cur + 1) % Len(rq')

\* Mutant: the scheduler goes on with the thread that was interrupted.
RotateNot ==
  /\ rq' = rq \o Woken
  /\ wq' = Asleep
  /\ cur' = cur

Rotate ==
  /\ rq' = rq \o Woken
  /\ wq' = Asleep
  /\ cur' = (cur + 1) % Len(rq')

\* async_read and thread_exit: the running thread leaves the ready queue.
Depart ==
  /\ rq' = FillHole(rq \o Woken, cur)
  /\ wq' = IF cause = 2 THEN Append(Asleep, Running) ELSE Asleep
  /\ cur' = Wrapped(rq')

\* A cleared entry is dereferenced before anything else.
Schedule ==
  /\ pc = "sched"
  /\ IF cause = 1 THEN Rotate ELSE Depart
  /\ pc' = CASE \E n \in 1..Len(wq) : wq[n] = Null -> "crash"
             [] rq' = <<>> /\ wq' = <<>> -> "returned"
             [] rq' = <<>> /\ Len(wq') = 1 -> "idle"
             [] OTHER -> JumpTo(rq', cur')
  /\ UNCHANGED <<cause, env, tcb, exited, signals, input, used>>

\* Nothing is ready: the scheduler calls select until the one reader has input.
Idle ==
  /\ pc = "idle"
  /\ Woken # <<>>
  /\ rq' = Woken /\ wq' = Asleep /\ cur' = 0
  /\ pc' = JumpTo(rq', cur')
  /\ UNCHANGED <<cause, env, tcb, exited, signals, input, used>>

Start ==
  /\ pc = "start"
  /\ armed' = (Timeslice > 0)
  /\ pc' = JumpTo(rq, 0)
  /\ UNCHANGED <<cause, queues, env, tcb, exited, mask, pending, input, used>>

\* longjmp(sched_buf, why).
CallScheduler(why) == pc' = "sched" /\ cause' = why
-----------------------------------------------------------------------------
(* The running thread.                                                     *)

\* i = 1 on entering the loop, i++ on coming back from thread_yield.
LoopHead(t) == IF pc = "setup" THEN [tcb[t] EXCEPT !.i = 1] ELSE Count(tcb[t])

\* After the loop body: thread_exit, or thread_yield up to its first window.
ExitOrYield(t, b) ==
  /\ tcb' = [tcb EXCEPT ![t] = b]
  /\ IF Finished(t, b)
     THEN /\ exited' = exited \cup {t}
          /\ CallScheduler(3)
          /\ UNCHANGED <<env, mask>>
     ELSE /\ env' = [env EXCEPT ![t] = "yield"]
          /\ mask' = {"ALRM"}
          /\ pc' = "tstp_window"
          /\ UNCHANGED <<cause, exited>>

Iterate ==
  /\ pc \in {"setup", "yield"}
  /\ Running \notin Subs
  /\ ExitOrYield(Running, Body(Running, LoopHead(Running)))
  /\ UNCHANGED <<queues, pending, armed, input, used>>

\* Mutant: async_read jumps away without a setjmp of its own.
AsyncReadWithoutSetjmp ==
  /\ pc \in {"setup", "yield"}
  /\ Running \in Subs
  /\ tcb' = [tcb EXCEPT ![Running] = LoopHead(Running)]
  /\ CallScheduler(2)
  /\ UNCHANGED <<queues, env, exited, signals, input, used>>

AsyncRead ==
  /\ pc \in {"setup", "yield"}
  /\ Running \in Subs
  /\ tcb' = [tcb EXCEPT ![Running] = LoopHead(Running)]
  /\ env' = [env EXCEPT ![Running] = "read"]
  /\ CallScheduler(2)
  /\ UNCHANGED <<queues, exited, signals, input, used>>

\* The rest of the iteration of a reader, when async_read returns.
ReadAndIterate ==
  /\ pc = "read"
  /\ LET t == Running
         b == Read(t, tcb[t])
     IN  /\ ExitOrYield(t, Body(t, b))
         /\ fifo' = [fifo EXCEPT ![t] = IF @ = <<>> THEN @ ELSE Tail(@)]
         /\ used' = IF b.i = MaxLoops THEN used
                                      ELSE [used EXCEPT ![t] = Append(@, b.buf)]
  /\ UNCHANGED <<queues, pending, armed, writer, fed>>

\* The windows of thread_yield close when the signal they admit is not there.
CloseTstpWindow ==
  /\ pc = "tstp_window" /\ pending \subseteq mask
  /\ mask' = {"TSTP"} /\ pc' = "alrm_window"
  /\ UNCHANGED <<cause, queues, env, tcb, exited, pending, armed, input, used>>

\* Mutant: thread_yield does not put base_mask back.
CloseAlrmWindowUnmasked ==
  /\ pc = "alrm_window" /\ pending \subseteq mask
  /\ pc' = "yield"
  /\ UNCHANGED <<cause, queues, env, tcb, exited, signals, input, used>>

CloseAlrmWindow ==
  /\ pc = "alrm_window" /\ pending \subseteq mask
  /\ mask' = Signals /\ pc' = "yield"
  /\ UNCHANGED <<cause, queues, env, tcb, exited, pending, armed, input, used>>

\* Mutant: the handler does not start the next alarm.
SighandlerOnce(s) ==
  /\ pc \notin {"returned", "crash"}
  /\ s \in pending \ mask
  /\ pending' = pending \ {s}
  /\ mask' = mask \cup {s}
  /\ CallScheduler(1)
  /\ UNCHANGED <<queues, armed, env, tcb, exited, input, used>>

\* The kernel delivers s: sighandler runs with s blocked as well and jumps away.
Sighandler(s) ==
  /\ pc \notin {"returned", "crash"}
  /\ s \in pending \ mask
  /\ pending' = pending \ {s}
  /\ mask' = mask \cup {s}
  /\ armed' = IF s = "ALRM" THEN Timeslice > 0 ELSE armed
  /\ CallScheduler(1)
  /\ UNCHANGED <<queues, env, tcb, exited, input, used>>
-----------------------------------------------------------------------------
(* The world outside.                                                      *)

Alive == pc \notin {"returned", "crash"}

SendTstp ==
  /\ Alive
  /\ pending' = pending \cup {"TSTP"}
  /\ UNCHANGED <<pc, cause, queues, env, tcb, exited, mask, armed, input, used>>

AlarmFires ==
  /\ Alive /\ armed
  /\ armed' = FALSE
  /\ pending' = pending \cup {"ALRM"}
  /\ UNCHANGED <<pc, cause, queues, env, tcb, exited, mask, input, used>>

\* A FIFO is unlinked when its thread exits.
OpenFifo(t) ==
  /\ Alive /\ t \in Created \ exited
  /\ writer[t] # "open"
  /\ Len(fed[t]) < MaxNumbers
  /\ writer' = [writer EXCEPT ![t] = "open"]
  /\ UNCHANGED <<pc, cause, queues, env, tcb, exited, signals, fifo, fed, used>>

Write(t, n) ==
  /\ Alive /\ t \notin exited
  /\ writer[t] = "open"
  /\ Len(fed[t]) < MaxNumbers
  /\ fifo' = [fifo EXCEPT ![t] = Append(@, n)]
  /\ fed' = [fed EXCEPT ![t] = Append(@, n)]
  /\ UNCHANGED <<pc, cause, queues, env, tcb, exited, signals, writer, used>>

CloseFifo(t) ==
  /\ WritersClose
  /\ Alive /\ t \notin exited
  /\ writer[t] = "open"
  /\ writer' = [writer EXCEPT ![t] = "closed"]
  /\ UNCHANGED <<pc, cause, queues, env, tcb, exited, signals, fifo, fed, used>>
-----------------------------------------------------------------------------
\* init_signal and init_threads are done, scheduler is about to be called.  malloc
\* leaves anything in buf; i, x and y are set before they are read.
Init ==
  /\ pc = "start" /\ cause = 0
  /\ rq = Picked(Creation, {t \in Threads : Arg[t] >= 0})
  /\ wq = <<>>
  /\ cur = 0
  /\ env = [t \in Threads |-> "setup"]
  /\ \E junk \in Numbers :
       tcb = [t \in Threads |-> [arg |-> Arg[t], i |-> 0, x |-> 0, y |-> 0, buf |-> junk]]
  /\ exited = {}
  /\ mask = Signals /\ pending = {} /\ armed = FALSE
  /\ fifo = [t \in Subs |-> <<>>]
  /\ writer = [t \in Subs |-> "never"]
  /\ fed = [t \in Subs |-> <<>>]
  /\ used = [t \in Subs |-> <<>>]

Process ==
  \/ Start \/ Schedule \/ Idle
  \/ Iterate \/ AsyncRead \/ ReadAndIterate
  \/ CloseTstpWindow \/ CloseAlrmWindow
  \/ \E s \in Signals : Sighandler(s)

Feed == \E t \in Subs : OpenFifo(t) \/ \E n \in Numbers : Write(t, n)

Next ==
  \/ Process
  \/ SendTstp \/ AlarmFires
  \/ Feed
  \/ \E t \in Subs : CloseFifo(t)

Spec == Init /\ [][Next]_vars

\* The process runs whenever it can, and alarms fire.
FairSpec == Spec /\ WF_vars(Process) /\ WF_vars(AlarmFires)

\* And writers keep writing.
FedSpec == FairSpec /\ WF_vars(Feed)
=============================================================================
