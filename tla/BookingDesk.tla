------------------------------ MODULE BookingDesk ------------------------------
(***************************************************************************)
(* What the csieBooking servers promise together: one desk at which        *)
(* readers of a user's booking may stand side by side and a writer stands  *)
(* alone, every visitor sees the current booking for as long as it stays,  *)
(* and bookings change only from what their writer saw, within the limits. *)
(* CsieBooking implements this with processes, sockets and record locks.   *)
(***************************************************************************)
EXTENDS Integers

CONSTANTS
  Sessions,       \* every connection any server can have
  Writers,        \* those of write servers
  Ids,            \* the users
  BookingRecord,  \* their bookings at the start
  Commands,       \* the changes clients ask for
  None            \* no user, nothing seen

Items    == 1..3
MaxItems == 15
Bookings == [Items -> Int]
Total(b) == b[1] + b[2] + b[3]
Legal(b) == Total(b) <= MaxItems /\ \A j \in Items : b[j] >= 0
Plus(b, modi) == [j \in Items |-> b[j] + modi[j]]

VARIABLES
  booking,  \* per user
  visitor,  \* per session: the user it is admitted to, or None
  view      \* per session: the booking it has seen, or None

deskVars == <<booking, visitor, view>>

DeskInit ==
  /\ booking = BookingRecord
  /\ visitor = [k \in Sessions |-> None]
  /\ view = [k \in Sessions |-> None]

\* A writer needs the user to itself; a reader needs no writer there.
Free(k, i) == \A l \in Sessions : visitor[l] = i => k \notin Writers /\ l \notin Writers

Enter(k, i) ==
  /\ visitor[k] = None
  /\ Free(k, i)
  /\ visitor' = [visitor EXCEPT ![k] = i]
  /\ UNCHANGED <<booking, view>>

See(k) ==
  /\ visitor[k] # None
  /\ view[k] = None
  /\ view' = [view EXCEPT ![k] = booking[visitor[k]]]
  /\ UNCHANGED <<booking, visitor>>

\* The booking changes by what was asked, from what was seen.
Update(k, modi) ==
  /\ k \in Writers
  /\ visitor[k] # None
  /\ view[k] # None
  /\ Legal(Plus(view[k], modi))
  /\ booking' = [booking EXCEPT ![visitor[k]] = Plus(view[k], modi)]
  /\ view' = [view EXCEPT ![k] = Plus(view[k], modi)]
  /\ UNCHANGED visitor

\* Sessions end one by one, or all those of a process at once.
EndAll(K) ==
  /\ visitor' = [k \in Sessions |-> IF k \in K THEN None ELSE visitor[k]]
  /\ view' = [k \in Sessions |-> IF k \in K THEN None ELSE view[k]]
  /\ UNCHANGED booking

DeskNext ==
  \/ \E k \in Sessions : \/ \E i \in Ids : Enter(k, i)
                         \/ See(k)
                         \/ \E modi \in Commands : Update(k, modi)
  \/ \E K \in SUBSET Sessions : EndAll(K)

DeskSpec == DeskInit /\ [][DeskNext]_deskVars
=============================================================================
