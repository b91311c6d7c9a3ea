------------------------------ MODULE CsieBooking ------------------------------
(***************************************************************************)
(* The csieBooking system: read servers and write servers, each a single-  *)
(* threaded process built from csiebooking/server.c, that share the file   *)
(* bookingRecord and coordinate with fcntl record locks.                   *)
(*                                                                         *)
(* A server's loop takes one ready descriptor at a time.  A handler is one *)
(* action unless another process could observe its middle: the steps that  *)
(* lock, read or write the shared file are separated by a program counter, *)
(* so handlers of different servers interleave and a process can be killed *)
(* between any two of them.                                                *)
(***************************************************************************)
EXTENDS Integers, Sequences, FiniteSets

CONSTANTS
  ReadServers,    \* processes running the READ_SERVER build
  WriteServers,   \* processes running the WRITE_SERVER build
  Killable,       \* the servers an operator may kill
  Fds,            \* descriptors a server has for connections
  Ids,            \* the users, 902001 to 902020 in the code
  BookingRecord,  \* what the file holds at the start
  Commands,       \* the booking commands clients type
  IntHalf,        \* an int lies in -IntHalf .. IntHalf-1
  Lines,          \* what clients send
  MaxInbox,       \* bound: lines queued on a connection and not yet read
  None            \* no user, no booking

Servers == ReadServers \cup WriteServers
Items   == 1..3
MaxItems == 15

Bookings == [Items -> Int]
Total(b) == b[1] + b[2] + b[3]
Legal(b) == Total(b) <= MaxItems /\ \A j \in Items : b[j] >= 0

ASSUME ServersAssumption == ReadServers \cap WriteServers = {}
ASSUME FdsAssumption     == Fds \subseteq Nat /\ IsFiniteSet(Fds)
ASSUME NoneAssumption    == None \notin Ids
ASSUME NoneIsNoBooking   == None \notin Bookings
ASSUME RecordAssumption  == /\ BookingRecord \in [Ids -> Bookings]
                            /\ \A i \in Ids : Legal(BookingRecord[i])
ASSUME CommandAssumption == Commands \subseteq Bookings
ASSUME IntAssumption     == IntHalf \in Nat /\ IntHalf > MaxItems
ASSUME InboxAssumption   == MaxInbox \in Nat

(* What one read() of a connection can deliver.  A line after the first in *)
(* the same read is dropped by handle_read, which is a client step that    *)
(* changes nothing; "partial" is data without a newline.                   *)
AllLines == [kind : {"id"}, id : Ids] \cup [kind : {"command"}, modi : Commands]
              \cup [kind : {"exit", "other", "partial", "ctrl-c"}]

ASSUME LinesAssumption == Lines \subseteq AllLines

VARIABLES
  proc,       \* per server: where its loop is, the connection and result in hand
  requestP,   \* per server and descriptor: the request table
  writelock,  \* per server and user: the write server's own flag
  readlock,   \* per server and user: the read server's own count
  sock,       \* per server and descriptor: the connection, seen from outside
  flock,      \* per server and user: the record lock the kernel has granted
  file,       \* the bookings in bookingRecord
  told        \* per user: the booking the last "updated" reply announced

vars == <<proc, requestP, writelock, readlock, sock, flock, file, told>>

Idle        == [pc |-> "loop", conn_fd |-> -1, new |-> None]
FreeRequest == [open |-> FALSE, id |-> None, wait_for_write |-> FALSE]
NoSock      == [peer |-> "none", inbox |-> <<>>, shown |-> None]

Procs    == [pc : {"down", "loop", "show", "check", "save", "release"},
             conn_fd : Fds \cup {-1}, new : Bookings \cup {None}]
Requests == [open : BOOLEAN, id : Ids \cup {None}, wait_for_write : BOOLEAN]
Socks    == [peer : {"none", "open", "closed", "reset"}, inbox : Seq(Lines),
             shown : Bookings \cup {None}]

TypeOK ==
  /\ proc \in [Servers -> Procs]
  /\ requestP \in [Servers -> [Fds -> Requests]]
  /\ writelock \in [Servers -> [Ids -> BOOLEAN]]
  /\ readlock \in [Servers -> [Ids -> Nat]]
  /\ sock \in [Servers -> [Fds -> Socks]]
  /\ flock \in [Servers -> [Ids -> {"unlck", "rdlck", "wrlck"}]]
  /\ file \in [Ids -> Bookings]
  /\ told \in [Ids -> Bookings]

Init ==
  /\ proc = [s \in Servers |-> Idle]
  /\ requestP = [s \in Servers |-> [c \in Fds |-> FreeRequest]]
  /\ writelock = [s \in Servers |-> [i \in Ids |-> FALSE]]
  /\ readlock = [s \in Servers |-> [i \in Ids |-> 0]]
  /\ sock = [s \in Servers |-> [c \in Fds |-> NoSock]]
  /\ flock = [s \in Servers |-> [i \in Ids |-> "unlck"]]
  /\ file = BookingRecord
  /\ told = BookingRecord

-----------------------------------------------------------------------------
(* int arithmetic: the Makefile builds without optimisation, so it wraps.  *)

Wrap(n) == IF n \in -IntHalf..(IntHalf - 1)
           THEN n
           ELSE ((n + IntHalf) % (2 * IntHalf)) - IntHalf

\* new[j] = temp.bookingState[j] + modi[j]
Apply(b, modi) == [j \in Items |-> Wrap(b[j] + modi[j])]

\* the sum the limit is checked on
Sum(b) == Wrap(Wrap(b[1] + b[2]) + b[3])

\* Mutant: the loop over the three items looks at the last one only.
AcceptedByLast(b) == Sum(b) <= MaxItems /\ b[3] >= 0

Accepted(b) == Sum(b) <= MaxItems /\ \A j \in Items : b[j] >= 0

-----------------------------------------------------------------------------
(* Record locks of the kernel: one owner per process, never blocking.      *)

CanLock(s, i, type) ==
  \A t \in Servers \ {s} :
    flock[t][i] = "unlck" \/ (flock[t][i] = "rdlck" /\ type = "rdlck")

SetLock(s, i, type) == flock' = [flock EXCEPT ![s][i] = type]

\* The process ends: the kernel closes its descriptors and drops its locks,
\* and everything it kept in memory is gone.
Exit(s) ==
  /\ proc' = [proc EXCEPT ![s] = [Idle EXCEPT !.pc = "down"]]
  /\ requestP' = [requestP EXCEPT ![s] = [c \in Fds |-> FreeRequest]]
  /\ writelock' = [writelock EXCEPT ![s] = [i \in Ids |-> FALSE]]
  /\ readlock' = [readlock EXCEPT ![s] = [i \in Ids |-> 0]]
  /\ sock' = [sock EXCEPT ![s] = [c \in Fds |-> NoSock]]
  /\ flock' = [flock EXCEPT ![s] = [i \in Ids |-> "unlck"]]
  /\ UNCHANGED <<file, told>>

\* A write() to a connection its client has reset may raise SIGPIPE, which
\* the server leaves at its default.
Sigpipe(s, c) == sock[s][c].peer = "reset" /\ Exit(s)

\* Mutant: the descriptor is closed and its request is not reset.
EndConnectionOnly(s, c) ==
  /\ requestP' = [requestP EXCEPT ![s][c].open = FALSE]
  /\ sock' = [sock EXCEPT ![s][c] = NoSock]

EndConnection(s, c) ==
  /\ requestP' = [requestP EXCEPT ![s][c] = FreeRequest]
  /\ sock' = [sock EXCEPT ![s][c] = NoSock]

\* The first write() after the client closed succeeds and is answered by a reset.
Delivered(s, c, b) ==
  sock' = [sock EXCEPT ![s][c].shown = b,
                       ![s][c].peer = IF @ = "closed" THEN "reset" ELSE @]

-----------------------------------------------------------------------------
(* One iteration of the loop in main: a pending connection first, else the *)
(* lowest ready descriptor.                                                *)

Ready(s, c) == /\ requestP[s][c].open
               /\ sock[s][c].inbox # <<>> \/ sock[s][c].peer \in {"closed", "reset"}

Select(s, c) == /\ proc[s].pc = "loop"
                /\ Ready(s, c)
                /\ \A d \in Fds : Ready(s, d) => c <= d

\* handle_read returned 0 or -1
Eof(s, c) == sock[s][c].inbox # <<>> => Head(sock[s][c].inbox).kind = "ctrl-c"

\* handle_read returned 1 with a line of one of these kinds
Got(s, c, kinds) == /\ sock[s][c].inbox # <<>>
                    /\ Head(sock[s][c].inbox).kind \in kinds

Take(s, c) == sock' = [sock EXCEPT ![s][c].inbox = Tail(@)]

\* A client connects: accept() hands out the lowest free descriptor.
Accept(s, c) ==
  /\ proc[s].pc = "loop"
  /\ ~requestP[s][c].open
  /\ \A d \in Fds : ~requestP[s][d].open => c <= d
  /\ requestP' = [requestP EXCEPT ![s][c].open = TRUE]
  /\ sock' = [sock EXCEPT ![s][c].peer = "open"]
  /\ UNCHANGED <<proc, writelock, readlock, flock, file, told>>

\* A client connects and no descriptor is free: accept() fails with EMFILE,
\* which is neither EINTR, EAGAIN nor ENFILE.
AcceptFails(s) ==
  /\ proc[s].pc = "loop"
  /\ \A c \in Fds : requestP[s][c].open
  /\ Exit(s)

\* The client that connects has reset the connection before it is greeted.
GreetingFails(s) ==
  /\ proc[s].pc = "loop"
  /\ \E c \in Fds : ~requestP[s][c].open
  /\ Exit(s)

\* handle_read finds data without a newline
NoNewline(s, c) ==
  /\ Select(s, c)
  /\ Got(s, c, {"partial"})
  /\ Exit(s)

-----------------------------------------------------------------------------
(* The first line of a connection: the user's id.                          *)

AwaitsId(s, c) == Select(s, c) /\ ~requestP[s][c].wait_for_write

HangUp(s, c) ==
  /\ AwaitsId(s, c)
  /\ Eof(s, c)
  /\ EndConnection(s, c)
  /\ UNCHANGED <<proc, writelock, readlock, flock, file, told>>

RefuseId(s, c) ==
  /\ AwaitsId(s, c)
  /\ Got(s, c, {"command", "exit", "other"})
  /\ \/ /\ EndConnection(s, c)
        /\ UNCHANGED <<proc, writelock, readlock, flock, file, told>>
     \/ Sigpipe(s, c)

\* Mutant: a write server trusts the record lock inside its own process.
MayServeByLock(s, i) == CanLock(s, i, IF s \in ReadServers THEN "rdlck" ELSE "wrlck")

\* Mutant: a write server trusts its own flag.
MayServeByFlag(s, i) ==
  \/ s \in ReadServers /\ CanLock(s, i, "rdlck")
  \/ s \in WriteServers /\ ~writelock[s][i]

\* What each build tests before it serves user i.
MayServe(s, i) ==
  \/ s \in ReadServers /\ CanLock(s, i, "rdlck")
  \/ s \in WriteServers /\ ~writelock[s][i] /\ CanLock(s, i, "wrlck")

Locked(s, c) ==
  /\ AwaitsId(s, c)
  /\ Got(s, c, {"id"})
  /\ ~MayServe(s, Head(sock[s][c].inbox).id)
  /\ \/ /\ EndConnection(s, c)
        /\ UNCHANGED <<proc, writelock, readlock, flock, file, told>>
     \/ Sigpipe(s, c)

Admit(s, c) ==
  /\ AwaitsId(s, c)
  /\ Got(s, c, {"id"})
  /\ LET i == Head(sock[s][c].inbox).id IN
     /\ MayServe(s, i)
     /\ requestP' = [requestP EXCEPT ![s][c].id = i]
     /\ \/ /\ s \in ReadServers
           /\ SetLock(s, i, "rdlck")
           /\ readlock' = [readlock EXCEPT ![s][i] = @ + 1]
           /\ UNCHANGED writelock
        \/ /\ s \in WriteServers
           /\ SetLock(s, i, "wrlck")
           /\ writelock' = [writelock EXCEPT ![s][i] = TRUE]
           /\ UNCHANGED readlock
  /\ Take(s, c)
  /\ proc' = [proc EXCEPT ![s].pc = "show", ![s].conn_fd = c]
  /\ UNCHANGED <<file, told>>

\* The record is read and sent, and the connection waits for its second line.
Show(s) ==
  /\ proc[s].pc = "show"
  /\ LET c == proc[s].conn_fd IN
     \/ /\ Delivered(s, c, file[requestP[s][c].id])
        /\ requestP' = [requestP EXCEPT ![s][c].wait_for_write = TRUE]
        /\ proc' = [proc EXCEPT ![s] = Idle]
        /\ UNCHANGED <<writelock, readlock, flock, file, told>>
     \/ Sigpipe(s, c)

-----------------------------------------------------------------------------
(* The lines after it.                                                     *)

AwaitsMore(s, c) == Select(s, c) /\ requestP[s][c].wait_for_write

\* Mutant: every reader that leaves unlocks the record.
AnyReader(s, i) == TRUE

\* The count is zero once it is decremented.
LastReader(s, i) == readlock[s][i] = 1

\* The session ends: the server's own mark, the record lock and the connection.
EndSession(s, c) ==
  LET i == requestP[s][c].id IN
  /\ \/ /\ s \in ReadServers
        /\ readlock' = [readlock EXCEPT ![s][i] = @ - 1]
        /\ IF LastReader(s, i) THEN SetLock(s, i, "unlck") ELSE UNCHANGED flock
        /\ UNCHANGED writelock
     \/ /\ s \in WriteServers
        /\ writelock' = [writelock EXCEPT ![s][i] = FALSE]
        /\ SetLock(s, i, "unlck")
        /\ UNCHANGED readlock
  /\ EndConnection(s, c)
  /\ UNCHANGED <<file, told>>

\* Mutant: a session ends by Exit alone.
LeavesByExit(s, c) == s \in ReadServers /\ Got(s, c, {"exit"})

Leaves(s, c) == Eof(s, c) \/ (s \in ReadServers /\ Got(s, c, {"exit"}))

Leave(s, c) ==
  /\ AwaitsMore(s, c)
  /\ Leaves(s, c)
  /\ EndSession(s, c)
  /\ UNCHANGED proc

\* A read server ignores any other line.
Ignore(s, c) ==
  /\ s \in ReadServers
  /\ AwaitsMore(s, c)
  /\ Got(s, c, {"id", "command", "other"})
  /\ Take(s, c)
  /\ UNCHANGED <<proc, requestP, writelock, readlock, flock, file, told>>

BadCommand(s, c) ==
  /\ s \in WriteServers
  /\ AwaitsMore(s, c)
  /\ Got(s, c, {"id", "exit", "other"})
  /\ \/ EndSession(s, c) /\ UNCHANGED proc
     \/ Sigpipe(s, c)

\* The record is read again and the new booking computed from it.
Compute(s, c) ==
  /\ s \in WriteServers
  /\ AwaitsMore(s, c)
  /\ Got(s, c, {"command"})
  /\ proc' = [proc EXCEPT ![s] =
                [pc |-> "check", conn_fd |-> c,
                 new |-> Apply(file[requestP[s][c].id], Head(sock[s][c].inbox).modi)]]
  /\ Take(s, c)
  /\ UNCHANGED <<requestP, writelock, readlock, flock, file, told>>

Reject(s) ==
  /\ proc[s].pc = "check"
  /\ ~Accepted(proc[s].new)
  /\ LET c == proc[s].conn_fd IN
     \/ /\ EndSession(s, c)
        /\ proc' = [proc EXCEPT ![s] = Idle]
     \/ Sigpipe(s, c)

\* Mutant: the record is unlocked before it is written.
AnnounceUnlocked(s) ==
  /\ proc[s].pc = "check"
  /\ Accepted(proc[s].new)
  /\ LET c == proc[s].conn_fd IN
     /\ Delivered(s, c, sock[s][c].shown)
     /\ told' = [told EXCEPT ![requestP[s][c].id] = proc[s].new]
     /\ SetLock(s, requestP[s][c].id, "unlck")
  /\ proc' = [proc EXCEPT ![s].pc = "save"]
  /\ UNCHANGED <<requestP, writelock, readlock, file>>

\* "Bookings for user ... are updated" is sent before the file is written.
Announce(s) ==
  /\ proc[s].pc = "check"
  /\ Accepted(proc[s].new)
  /\ LET c == proc[s].conn_fd IN
     \/ /\ Delivered(s, c, sock[s][c].shown)
        /\ told' = [told EXCEPT ![requestP[s][c].id] = proc[s].new]
        /\ proc' = [proc EXCEPT ![s].pc = "save"]
        /\ UNCHANGED <<requestP, writelock, readlock, flock, file>>
     \/ Sigpipe(s, c)

\* Mutant: no lseek after the read, so the write lands behind the record.
SaveBehind(s) ==
  /\ proc[s].pc = "save"
  /\ proc' = [proc EXCEPT ![s].pc = "release"]
  /\ UNCHANGED <<requestP, writelock, readlock, sock, flock, file, told>>

Save(s) ==
  /\ proc[s].pc = "save"
  /\ file' = [file EXCEPT ![requestP[s][proc[s].conn_fd].id] = proc[s].new]
  /\ proc' = [proc EXCEPT ![s].pc = "release"]
  /\ UNCHANGED <<requestP, writelock, readlock, sock, flock, told>>

Release(s) ==
  /\ proc[s].pc = "release"
  /\ EndSession(s, proc[s].conn_fd)
  /\ proc' = [proc EXCEPT ![s] = Idle]

-----------------------------------------------------------------------------
(* Clients and operators.                                                  *)

Send(s, c, line) ==
  /\ sock[s][c].peer = "open"
  /\ Len(sock[s][c].inbox) < MaxInbox
  /\ sock' = [sock EXCEPT ![s][c].inbox = Append(@, line)]
  /\ UNCHANGED <<proc, requestP, writelock, readlock, flock, file, told>>

\* The client closes; its kernel sends a reset at once if it had unread replies.
Close(s, c) ==
  /\ sock[s][c].peer = "open"
  /\ \E how \in {"closed", "reset"} : sock' = [sock EXCEPT ![s][c].peer = how]
  /\ UNCHANGED <<proc, requestP, writelock, readlock, flock, file, told>>

Kill(s) == /\ s \in Killable
           /\ proc[s].pc # "down"
           /\ Exit(s)

Restart(s) ==
  /\ proc[s].pc = "down"
  /\ proc' = [proc EXCEPT ![s] = Idle]
  /\ UNCHANGED <<requestP, writelock, readlock, sock, flock, file, told>>

-----------------------------------------------------------------------------

Handle(s) ==
  \/ Show(s) \/ Reject(s) \/ Announce(s) \/ Save(s) \/ Release(s)
  \/ \E c \in Fds : \/ NoNewline(s, c) \/ HangUp(s, c) \/ RefuseId(s, c)
                    \/ Locked(s, c) \/ Admit(s, c)
                    \/ Leave(s, c) \/ Ignore(s, c) \/ BadCommand(s, c) \/ Compute(s, c)

Arrive(s) == AcceptFails(s) \/ GreetingFails(s) \/ \E c \in Fds : Accept(s, c)

Client(s) == \E c \in Fds : Close(s, c) \/ \E line \in Lines : Send(s, c, line)

Next == \E s \in Servers :
          Handle(s) \/ Arrive(s) \/ Client(s) \/ Kill(s) \/ Restart(s)

Spec == Init /\ [][Next]_vars

\* A server with something to do keeps executing, for select polls and no call
\* blocks; nothing makes it take a ready descriptor before a new connection.
FairSpec == Spec /\ \A s \in Servers : WF_vars(ENABLED Handle(s) /\ (Handle(s) \/ Arrive(s)))
=============================================================================
