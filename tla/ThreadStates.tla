----------------------------- MODULE ThreadStates -----------------------------
(***************************************************************************)
(* What thread-library promises its threads: each is running, ready or     *)
(* waiting until it exits, at most one is running, none is lost, and every *)
(* ready thread gets to run.                                               *)
(***************************************************************************)
CONSTANT Threads

VARIABLES running, ready, waiting, gone

vars == <<running, ready, waiting, gone>>

Init == running = {} /\ ready \subseteq Threads /\ waiting = {} /\ gone = {}

(* One call of the scheduler.  Some waiting threads become ready; the      *)
(* thread that ran waits, has exited or else is ready again; and a ready   *)
(* thread runs: the processor is idle only when no thread is ready.        *)
Switch ==
  \E woken \in SUBSET waiting, blocks \in SUBSET running, exits \in SUBSET running :
    LET able == ready \cup woken \cup (running \ (blocks \cup exits))
    IN  /\ blocks \cap exits = {}
        /\ waiting' = (waiting \ woken) \cup blocks
        /\ gone' = gone \cup exits
        /\ \/ able = {} /\ running' = {}
           \/ \E t \in able : running' = {t}
        /\ ready' = able \ running'

\* Every ready thread gets the processor.
FairShare == \A t \in Threads : t \in ready ~> t \in running

Spec == Init /\ [][Switch]_vars /\ FairShare
=============================================================================
