------------------------- MODULE CsieBookingProperties -------------------------
(* What makes the csieBooking servers correct: safety, the invariant behind *)
(* it, the booking desk they implement, and liveness.                       *)
EXTENDS CsieBooking

\* The connection has been admitted to user i and has not ended.
Holds(s, c, i) == requestP[s][c].id = i

Holders(s, i) == {c \in Fds : Holds(s, c, i)}

\* While a write server has a session on a user, no other connection of any
\* server has one: the promise behind the "Locked." reply, kept by the record
\* lock between processes and by writelock inside one (server.c 232-278).
WriterExcludesAll ==
  \A s \in WriteServers, t \in Servers, c, d \in Fds, i \in Ids :
    Holds(s, c, i) /\ Holds(t, d, i) => s = t /\ c = d

MarksMatch(s, i) ==
  /\ s \in ReadServers =>
       /\ readlock[s][i] = Cardinality(Holders(s, i))
       /\ flock[s][i] = IF Holders(s, i) = {} THEN "unlck" ELSE "rdlck"
  /\ s \in WriteServers =>
       /\ writelock[s][i] <=> Holders(s, i) # {}
       /\ flock[s][i] = IF Holders(s, i) = {} THEN "unlck" ELSE "wrlck"

\* The server's own marks, the kernel's lock and the open sessions always
\* agree, on every path that ends a session or a process: a leaked lock would
\* leave a user "Locked." for ever, a lost one would break exclusion.
LocksMatchSessions == \A s \in Servers, i \in Ids : MarksMatch(s, i)

\* What a connection has been shown stays what the file holds until the
\* connection ends or its own command is saved.
ShownIsCurrent ==
  \A s \in Servers, c \in Fds, i \in Ids :
    /\ Holds(s, c, i)
    /\ requestP[s][c].wait_for_write
    /\ ~(proc[s].pc = "release" /\ proc[s].conn_fd = c)
    => sock[s][c].shown = file[i]

\* No user has more than 15 items or a negative number of them.
RecordsLegal == \A i \in Ids : Legal(file[i])

\* Once no server is between the reply and the write, the file holds what
\* clients were told it holds.
ToldIsSaved ==
  \A i \in Ids :
    \/ file[i] = told[i]
    \/ \E s \in WriteServers : proc[s].pc = "save" /\ Holds(s, proc[s].conn_fd, i)

\* No update is lost: at the moment a server writes a record, the file still
\* holds the booking its session was shown, and what it writes is a command
\* applied to that; whatever others did since the record was read is in it
\* (server.c 311-331, 369-370).
NoLostUpdate ==
  [][/\ \A s \in Servers : Save(s) =>
          LET c == proc[s].conn_fd
              i == requestP[s][c].id
          IN  /\ sock[s][c].shown = file[i]
              /\ \E modi \in Commands : file' = [file EXCEPT ![i] = Apply(file[i], modi)]
     /\ UNCHANGED file \/ \E s \in Servers : Save(s)]_vars

\* No amount in a command is so large that a sum of three could leave an int.
CommandsFit ==
  \A modi \in Commands, j \in Items : 3 * modi[j] + MaxItems < IntHalf /\ -3 * modi[j] <= IntHalf

-----------------------------------------------------------------------------
(* What makes these invariants inductive.                                  *)

\* A connection is admitted to a user from the moment its lock is taken; only
\* while its handler is between the lock and the reply is wait_for_write unset.
RequestsOK ==
  \A s \in Servers, c \in Fds :
    /\ requestP[s][c].wait_for_write => requestP[s][c].id # None
    /\ requestP[s][c].id # None =>
         \/ requestP[s][c].wait_for_write
         \/ proc[s].pc = "show" /\ proc[s].conn_fd = c

\* What a handler that has been interrupted has in hand.
HandlersOK ==
  \A s \in Servers :
    LET c == proc[s].conn_fd IN
    /\ proc[s].pc = "show" =>
         c \in Fds /\ requestP[s][c].id # None /\ ~requestP[s][c].wait_for_write
    /\ proc[s].pc \in {"check", "save", "release"} =>
         /\ s \in WriteServers
         /\ c \in Fds
         /\ requestP[s][c].wait_for_write
    /\ proc[s].pc \in {"check", "save"} =>
         /\ proc[s].new \in Bookings
         /\ \E modi \in Commands : proc[s].new = Apply(sock[s][c].shown, modi)
    /\ proc[s].pc = "save" => Accepted(proc[s].new)

\* The kernel never grants conflicting record locks to two processes.
KernelLocks ==
  \A s, t \in Servers, i \in Ids :
    s # t /\ flock[s][i] = "wrlck" => flock[t][i] = "unlck"

\* writelock keeps a second connection of the same process away.
OneWriter ==
  \A s \in WriteServers, c, d \in Fds, i \in Ids :
    Holds(s, c, i) /\ Holds(s, d, i) => c = d

SessionLocks == LocksMatchSessions /\ KernelLocks /\ OneWriter

IInv == TypeOK /\ RequestsOK /\ HandlersOK /\ SessionLocks /\ ShownIsCurrent

\* What a server is about to write is what its client was told.
Announced ==
  \A s \in Servers :
    proc[s].pc = "save" => told[requestP[s][proc[s].conn_fd].id] = proc[s].new

-----------------------------------------------------------------------------
(* The servers together are a booking desk.                                *)

Connections == Servers \X Fds
Saved(k) == proc[k[1]].pc = "release" /\ proc[k[1]].conn_fd = k[2]

visitorBar == [k \in Connections |-> requestP[k[1]][k[2]].id]
viewBar    == [k \in Connections |->
                 IF ~requestP[k[1]][k[2]].wait_for_write THEN None
                 ELSE IF Saved(k) THEN file[requestP[k[1]][k[2]].id]
                 ELSE sock[k[1]][k[2]].shown]

Desk == INSTANCE BookingDesk
          WITH Sessions <- Connections, Writers <- WriteServers \X Fds,
               booking <- file, visitor <- visitorBar, view <- viewBar

\* Processes that interleave and die, per-process marks and kernel locks
\* implement the desk: exclusion, current views and lawful updates at once.
DeskSpec == Desk!DeskSpec

-----------------------------------------------------------------------------
(* Liveness.                                                               *)

Gone(s, c) == sock[s][c].peer \in {"closed", "reset"}

\* The loop serves the lowest ready descriptor, so a lower one that is ready
\* again and again, or clients that keep connecting, can keep it busy for ever.
Starved(s, c) ==
  \/ []<>(\E d \in Fds : d < c /\ Ready(s, d))
  \/ []<><<Arrive(s)>>_vars

\* When a client leaves without Exit or a command, its session and the lock
\* under it do not outlive it, unless its server is starved.
AbandonedSessionEnds ==
  \A s \in Servers : \A c \in Fds :
    Starved(s, c) \/ ((requestP[s][c].id # None /\ Gone(s, c)) ~> requestP[s][c].id = None)

-----------------------------------------------------------------------------
\* The code treats a full descriptor table as a condition to report and
\* survive (server.c 174-177): with nothing else wrong, a server whose table
\* is full goes on running.
FullTableSurvives ==
  [][\A s \in Servers \ Killable :
       /\ proc[s].pc = "loop"
       /\ \A c \in Fds : /\ requestP[s][c].open
                         /\ sock[s][c].peer # "reset"
                         /\ ~Got(s, c, {"partial"})
       => proc'[s].pc # "down"]_vars
=============================================================================
