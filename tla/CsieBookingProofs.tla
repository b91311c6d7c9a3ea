-------------------------- MODULE CsieBookingProofs --------------------------
(* Theorems about CsieBooking for every set of servers, descriptors, users *)
(* and commands.                                                           *)
EXTENDS CsieBookingProperties, FiniteSetTheorems, TLAPS

\* One entry of a table of servers and users changes.
LEMMA TableUpdate ==
  ASSUME NEW V, NEW f \in [Servers -> [Ids -> V]],
         NEW s \in Servers, NEW i \in Ids, NEW v \in V
  PROVE  [f EXCEPT ![s][i] = v] \in [Servers -> [Ids -> V]]
OBVIOUS

LEMMA CellUpdate ==
  ASSUME NEW V, NEW f \in [Servers -> [Ids -> V]],
         NEW s \in Servers, NEW i \in Ids, NEW v
  PROVE  /\ [f EXCEPT ![s][i] = v][s][i] = v
         /\ \A j \in Ids \ {i} : [f EXCEPT ![s][i] = v][s][j] = f[s][j]
         /\ \A t \in Servers \ {s} : [f EXCEPT ![s][i] = v][t] = f[t]
OBVIOUS

LEMMA ProcMoves ==
  ASSUME TypeOK, NEW s \in Servers,
         NEW where \in {"down", "loop", "show", "check", "save", "release"},
         proc' = [proc EXCEPT ![s].pc = where]
  PROVE  /\ proc'[s].pc = where
         /\ proc'[s].conn_fd = proc[s].conn_fd /\ proc'[s].new = proc[s].new
         /\ \A t \in Servers \ {s} : proc'[t] = proc[t]
         /\ proc' \in [Servers -> Procs]
<1>1. proc \in [Servers -> Procs]
  BY DEF TypeOK
<1> DEFINE r == [proc[s] EXCEPT !.pc = where]
<1>2. proc' = [proc EXCEPT ![s] = r]
  OBVIOUS
<1>3. r \in Procs /\ r.pc = where /\ r.conn_fd = proc[s].conn_fd /\ r.new = proc[s].new
  BY <1>1 DEF Procs
<1> HIDE DEF r
<1> QED  BY <1>1, <1>2, <1>3

LEMMA RequestFields ==
  ASSUME NEW r \in Requests, NEW i \in Ids
  PROVE  /\ [r EXCEPT !.id = i] \in Requests
         /\ [r EXCEPT !.id = i].id = i
         /\ [r EXCEPT !.id = i].wait_for_write = r.wait_for_write
         /\ [r EXCEPT !.wait_for_write = TRUE] \in Requests
         /\ [r EXCEPT !.wait_for_write = TRUE].id = r.id
         /\ [r EXCEPT !.wait_for_write = TRUE].wait_for_write
         /\ [r EXCEPT !.open = TRUE] \in Requests
         /\ [r EXCEPT !.open = TRUE].id = r.id
         /\ [r EXCEPT !.open = TRUE].wait_for_write = r.wait_for_write
BY DEF Requests

-----------------------------------------------------------------------------
(* What the line at the head of an inbox can be.                           *)

LEMMA HeadLine ==
  ASSUME NEW s \in Servers, NEW c \in Fds, TypeOK, sock[s][c].inbox # <<>>
  PROVE  /\ Head(sock[s][c].inbox) \in AllLines
         /\ sock'= [sock EXCEPT ![s][c].inbox = Tail(@)] => sock' \in [Servers -> [Fds -> Socks]]
<1>1. sock[s][c] \in Socks
  BY DEF TypeOK
<1>2. sock[s][c].inbox \in Seq(Lines)
  BY <1>1 DEF Socks
<1>3. Head(sock[s][c].inbox) \in Lines /\ Tail(sock[s][c].inbox) \in Seq(Lines)
  BY <1>2
<1>4. [sock[s][c] EXCEPT !.inbox = Tail(@)] \in Socks
  BY <1>1, <1>3 DEF Socks
<1>5. sock'= [sock EXCEPT ![s][c].inbox = Tail(@)] => sock' \in [Servers -> [Fds -> Socks]]
  BY <1>4 DEF TypeOK
<1> QED  BY <1>3, <1>5, LinesAssumption

LEMMA HeadId ==
  ASSUME NEW s \in Servers, NEW c \in Fds, TypeOK, Got(s, c, {"id"})
  PROVE  Head(sock[s][c].inbox).id \in Ids
BY HeadLine DEF Got, AllLines

LEMMA HeadCommand ==
  ASSUME NEW s \in Servers, NEW c \in Fds, TypeOK, Got(s, c, {"command"})
  PROVE  Head(sock[s][c].inbox).modi \in Commands
BY HeadLine DEF Got, AllLines

\* int arithmetic yields ints.
LEMMA ApplyType ==
  ASSUME NEW b \in Bookings, NEW modi \in Commands
  PROVE  Apply(b, modi) \in Bookings
<1>1. modi \in [Items -> Int]
  BY CommandAssumption DEF Bookings
<1>2. ASSUME NEW n \in Int PROVE Wrap(n) \in Int
  <2> DEFINE K == 2 * IntHalf
  <2>1. K \in Int /\ K > 0
    BY IntAssumption DEF MaxItems
  <2>2. IntHalf \in Int /\ n + IntHalf \in Int
    BY IntAssumption
  <2> HIDE DEF K
  <2>3. (n + IntHalf) % K \in Int
    BY <2>1, <2>2
  <2> QED  BY <2>2, <2>3 DEF Wrap, K
<1> QED  BY <1>1, <1>2 DEF Apply, Bookings

LEMMA SockUpdates ==
  ASSUME NEW s \in Servers, NEW c \in Fds, TypeOK
  PROVE  /\ EndConnection(s, c) => /\ requestP' \in [Servers -> [Fds -> Requests]]
                                   /\ sock' \in [Servers -> [Fds -> Socks]]
         /\ \A b \in Bookings \cup {None} :
              Delivered(s, c, b) => sock' \in [Servers -> [Fds -> Socks]]
<1>1. FreeRequest \in Requests /\ NoSock \in Socks
  BY DEF FreeRequest, Requests, NoSock, Socks
<1>2. sock[s][c] \in Socks
  BY DEF TypeOK
<1>3. ASSUME NEW b \in Bookings \cup {None}, Delivered(s, c, b)
      PROVE  sock' \in [Servers -> [Fds -> Socks]]
  <2>1. [sock[s][c] EXCEPT !.shown = b, !.peer = IF @ = "closed" THEN "reset" ELSE @] \in Socks
    BY <1>2 DEF Socks
  <2>2. sock' = [sock EXCEPT ![s][c] =
                  [sock[s][c] EXCEPT !.shown = b, !.peer = IF @ = "closed" THEN "reset" ELSE @]]
    BY <1>3 DEF Delivered, TypeOK
  <2> QED  BY <2>1, <2>2 DEF TypeOK
<1>4. ASSUME EndConnection(s, c)
      PROVE  /\ requestP' \in [Servers -> [Fds -> Requests]]
             /\ sock' \in [Servers -> [Fds -> Socks]]
  BY <1>1, <1>4 DEF EndConnection, TypeOK
<1> QED  BY <1>3, <1>4

LEMMA ExitType ==
  ASSUME NEW s \in Servers, TypeOK, Exit(s)
  PROVE  TypeOK'
<1>1. [Idle EXCEPT !.pc = "down"] \in Procs /\ FreeRequest \in Requests /\ NoSock \in Socks
  BY DEF Idle, Procs, FreeRequest, Requests, NoSock, Socks
<1> QED  BY <1>1 DEF Exit, TypeOK

-----------------------------------------------------------------------------
(* The locks, by what a step does to sessions.                             *)

LEMMA HoldersFinite ==
  ASSUME NEW s \in Servers, NEW i \in Ids
  PROVE  IsFiniteSet(Holders(s, i)) /\ Cardinality(Holders(s, i)) \in Nat
         /\ (Cardinality(Holders(s, i)) = 0 <=> Holders(s, i) = {})
<1>1. Holders(s, i) \in SUBSET Fds
  BY DEF Holders
<1>2. IsFiniteSet(Holders(s, i))
  BY <1>1, FS_Subset, FdsAssumption
<1> QED  BY <1>2, FS_EmptySet, FS_CardinalityType

\* Nothing about locks changes while no id, mark or record lock does.
LEMMA LocksUntouched ==
  ASSUME SessionLocks, UNCHANGED <<writelock, readlock, flock>>,
         \A s \in Servers, c \in Fds : requestP'[s][c].id = requestP[s][c].id
  PROVE  SessionLocks'
<1>1. \A s \in Servers, c \in Fds, i \in Ids : Holds(s, c, i)' <=> Holds(s, c, i)
  BY DEF Holds
<1>2. \A s \in Servers, i \in Ids : Holders(s, i)' = Holders(s, i)
  BY <1>1 DEF Holders
<1>3. LocksMatchSessions'
  BY <1>2 DEF SessionLocks, LocksMatchSessions, MarksMatch
<1>4. OneWriter'
  BY <1>1 DEF SessionLocks, OneWriter, Servers
<1> QED  BY <1>3, <1>4 DEF SessionLocks, KernelLocks

LEMMA LocksAfterExit ==
  ASSUME NEW s \in Servers, TypeOK, SessionLocks, Exit(s)
  PROVE  SessionLocks'
<1>1. \A c \in Fds, i \in Ids : ~Holds(s, c, i)'
  BY NoneAssumption DEF Exit, Holds, FreeRequest, TypeOK
<1>2. \A t \in Servers \ {s}, c \in Fds, i \in Ids : Holds(t, c, i)' <=> Holds(t, c, i)
  BY DEF Exit, Holds, TypeOK
<1>3. /\ \A i \in Ids : Holders(s, i)' = {}
      /\ \A t \in Servers \ {s}, i \in Ids : Holders(t, i)' = Holders(t, i)
  BY <1>1, <1>2 DEF Holders
<1>4. /\ \A i \in Ids : ~writelock'[s][i] /\ readlock'[s][i] = 0 /\ flock'[s][i] = "unlck"
      /\ \A t \in Servers \ {s} : /\ writelock'[t] = writelock[t]
                                  /\ readlock'[t] = readlock[t]
                                  /\ flock'[t] = flock[t]
  BY DEF Exit, TypeOK
<1>5. LocksMatchSessions'
  <2>1. ASSUME NEW i \in Ids
        PROVE  /\ readlock'[s][i] = Cardinality(Holders(s, i)')
               /\ flock'[s][i] = "unlck"
               /\ ~writelock'[s][i] /\ Holders(s, i)' = {}
    BY <1>3, <1>4, FS_EmptySet
  <2>2. ASSUME NEW t \in Servers \ {s}, NEW i \in Ids
        PROVE  /\ readlock'[t][i] = readlock[t][i] /\ flock'[t][i] = flock[t][i]
               /\ writelock'[t][i] = writelock[t][i] /\ Holders(t, i)' = Holders(t, i)
    BY <1>3, <1>4
  <2> QED  BY <2>1, <2>2 DEF SessionLocks, LocksMatchSessions, MarksMatch
<1>6. KernelLocks'
  BY <1>4 DEF SessionLocks, KernelLocks
<1>7. OneWriter'
  BY <1>1, <1>2 DEF SessionLocks, OneWriter, Servers
<1> QED  BY <1>5, <1>6, <1>7 DEF SessionLocks

LEMMA LocksAfterEndSession ==
  ASSUME NEW s \in Servers, NEW c \in Fds, TypeOK, SessionLocks,
         NEW i \in Ids, Holds(s, c, i), EndSession(s, c)
  PROVE  SessionLocks' /\ readlock' \in [Servers -> [Ids -> Nat]]
<1>1. c \in Holders(s, i) /\ requestP[s][c].id = i
  BY DEF Holders, Holds
<1>2. /\ \A d \in Fds, j \in Ids : Holds(s, d, j)' <=> Holds(s, d, j) /\ d # c
      /\ \A t \in Servers \ {s}, d \in Fds, j \in Ids : Holds(t, d, j)' <=> Holds(t, d, j)
  BY NoneAssumption DEF EndSession, EndConnection, Holds, FreeRequest, TypeOK
<1>3. /\ Holders(s, i)' = Holders(s, i) \ {c}
      /\ \A j \in Ids \ {i} : Holders(s, j)' = Holders(s, j)
      /\ \A t \in Servers \ {s}, j \in Ids : Holders(t, j)' = Holders(t, j)
  <2>1. Holders(s, i)' = Holders(s, i) \ {c}
    BY <1>1, <1>2 DEF Holders
  <2>2. \A j \in Ids : c \in Holders(s, j) => j = i
    BY <1>1 DEF Holders, Holds
  <2>3. \A j \in Ids \ {i} : Holders(s, j)' = Holders(s, j)
    BY <1>2, <2>2 DEF Holders
  <2>4. \A t \in Servers \ {s}, j \in Ids : Holders(t, j)' = Holders(t, j)
    BY <1>2 DEF Holders
  <2> QED  BY <2>1, <2>3, <2>4
<1>4. /\ Cardinality(Holders(s, i)') = Cardinality(Holders(s, i)) - 1
      /\ Cardinality(Holders(s, i)) \in Nat \ {0}
      /\ Cardinality(Holders(s, i)) = 1 <=> Holders(s, i)' = {}
  <2>1. IsFiniteSet(Holders(s, i)') /\ Cardinality(Holders(s, i)') = Cardinality(Holders(s, i)) - 1
    BY <1>1, <1>3, HoldersFinite, FS_RemoveElement
  <2> QED  BY <2>1, <1>1, HoldersFinite, FS_EmptySet
<1>5. /\ \A j \in Ids \ {i} : /\ writelock'[s][j] = writelock[s][j]
                              /\ readlock'[s][j] = readlock[s][j]
                              /\ flock'[s][j] = flock[s][j]
      /\ \A t \in Servers \ {s} : /\ writelock'[t] = writelock[t]
                                  /\ readlock'[t] = readlock[t]
                                  /\ flock'[t] = flock[t]
  BY <1>1 DEF EndSession, SetLock, TypeOK
<1>6. ASSUME NEW t \in Servers, NEW j \in Ids, t # s \/ j # i
      PROVE  MarksMatch(t, j)'
  <2>1. Holders(t, j)' = Holders(t, j)
    BY <1>3, <1>6
  <2>2. /\ readlock'[t][j] = readlock[t][j]
        /\ writelock'[t][j] = writelock[t][j]
        /\ flock'[t][j] = flock[t][j]
    BY <1>5, <1>6
  <2> QED  BY <2>1, <2>2 DEF SessionLocks, LocksMatchSessions, MarksMatch
<1>7. CASE s \in ReadServers
  <2>1. s \notin WriteServers
    BY <1>7, ServersAssumption
  <2>2. /\ readlock[s][i] = Cardinality(Holders(s, i))
        /\ flock[s][i] = "rdlck"
    BY <1>1, <1>7 DEF SessionLocks, LocksMatchSessions, MarksMatch
  <2>3. /\ readlock' = [readlock EXCEPT ![s][i] = @ - 1]
        /\ IF LastReader(s, i) THEN SetLock(s, i, "unlck") ELSE UNCHANGED flock
    BY <1>1, <2>1 DEF EndSession
  <2>4. /\ readlock'[s][i] = Cardinality(Holders(s, i)')
        /\ flock'[s][i] = IF Holders(s, i)' = {} THEN "unlck" ELSE "rdlck"
    BY <2>2, <2>3, <1>1, <1>4 DEF LastReader, SetLock, TypeOK
  <2>5. readlock' \in [Servers -> [Ids -> Nat]]
    <3>1. readlock[s][i] - 1 \in Nat
      BY <2>2, <1>4
    <3> QED  BY <2>3, <3>1, <1>1 DEF TypeOK
  <2>6. LocksMatchSessions'
    <3> SUFFICES ASSUME NEW t \in Servers, NEW j \in Ids
                 PROVE  MarksMatch(t, j)'
      BY DEF LocksMatchSessions
    <3>1. CASE t # s \/ j # i
      BY <3>1, <1>6
    <3>2. CASE t = s /\ j = i
      BY <3>2, <2>1, <2>4 DEF MarksMatch
    <3> QED  BY <3>1, <3>2
  <2>7. KernelLocks'
    BY <2>2, <2>4, <1>1, <1>5 DEF SessionLocks, KernelLocks
  <2>8. OneWriter'
    BY <1>2, <2>1 DEF SessionLocks, OneWriter, Servers
  <2> QED  BY <2>5, <2>6, <2>7, <2>8 DEF SessionLocks
<1>8. CASE s \in WriteServers
  <2>1. s \notin ReadServers
    BY <1>8, ServersAssumption
  <2>2. /\ writelock' = [writelock EXCEPT ![s][i] = FALSE]
        /\ flock' = [flock EXCEPT ![s][i] = "unlck"]
        /\ UNCHANGED readlock
    BY <1>1, <2>1 DEF EndSession, SetLock
  <2>3. ~writelock'[s][i] /\ flock'[s][i] = "unlck"
    BY <2>2, <1>1 DEF TypeOK
  <2>4. Holders(s, i)' = {}
    BY <1>1, <1>3, <1>8 DEF SessionLocks, OneWriter, Holders
  <2>5. LocksMatchSessions'
    <3> SUFFICES ASSUME NEW t \in Servers, NEW j \in Ids
                 PROVE  MarksMatch(t, j)'
      BY DEF LocksMatchSessions
    <3>1. CASE t # s \/ j # i
      BY <3>1, <1>6
    <3>2. CASE t = s /\ j = i
      BY <3>2, <2>1, <2>3, <2>4 DEF MarksMatch
    <3> QED  BY <3>1, <3>2
  <2>6. KernelLocks'
    BY <2>3, <1>1, <1>5 DEF SessionLocks, KernelLocks
  <2>7. OneWriter'
    BY <1>2 DEF SessionLocks, OneWriter, Servers
  <2> QED  BY <2>2, <2>5, <2>6, <2>7 DEF SessionLocks, TypeOK
<1> QED  BY <1>7, <1>8 DEF Servers

LEMMA LocksAfterAdmit ==
  ASSUME NEW s \in Servers, NEW c \in Fds, NEW i \in Ids,
         TypeOK, RequestsOK, SessionLocks,
         Admit(s, c), i = Head(sock[s][c].inbox).id
  PROVE  SessionLocks' /\ readlock' \in [Servers -> [Ids -> Nat]]
<1>0. /\ flock \in [Servers -> [Ids -> {"unlck", "rdlck", "wrlck"}]]
      /\ writelock \in [Servers -> [Ids -> BOOLEAN]]
      /\ readlock \in [Servers -> [Ids -> Nat]]
  BY DEF TypeOK
<1>1. requestP[s][c].id = None
  BY DEF Admit, AwaitsId, Select, RequestsOK
<1>2. /\ requestP' = [requestP EXCEPT ![s][c].id = i]
      /\ MayServe(s, i)
      /\ \/ /\ s \in ReadServers
            /\ flock' = [flock EXCEPT ![s][i] = "rdlck"]
            /\ readlock' = [readlock EXCEPT ![s][i] = @ + 1]
            /\ UNCHANGED writelock
         \/ /\ s \in WriteServers
            /\ flock' = [flock EXCEPT ![s][i] = "wrlck"]
            /\ writelock' = [writelock EXCEPT ![s][i] = TRUE]
            /\ UNCHANGED readlock
  BY DEF Admit, SetLock
<1>3. /\ \A d \in Fds, j \in Ids : Holds(s, d, j)' <=> Holds(s, d, j) \/ (d = c /\ j = i)
      /\ \A t \in Servers \ {s}, d \in Fds, j \in Ids : Holds(t, d, j)' <=> Holds(t, d, j)
  <2>0. requestP \in [Servers -> [Fds -> Requests]] /\ requestP' = [requestP EXCEPT ![s][c].id = i]
    BY <1>2 DEF TypeOK
  <2>1. requestP'[s][c].id = i
    BY <2>0 DEF Requests
  <2>3. \A d \in Fds \ {c} : requestP'[s][d] = requestP[s][d]
    BY <2>0
  <2>2. \A t \in Servers \ {s} : requestP'[t] = requestP[t]
    BY <2>0
  <2> QED  BY <1>1, <2>1, <2>2, <2>3, NoneAssumption DEF Holds
<1>4. /\ Holders(s, i)' = Holders(s, i) \cup {c}
      /\ c \notin Holders(s, i)
      /\ \A j \in Ids \ {i} : Holders(s, j)' = Holders(s, j)
      /\ \A t \in Servers \ {s}, j \in Ids : Holders(t, j)' = Holders(t, j)
  <2>1. Holders(s, i)' = Holders(s, i) \cup {c}
    BY <1>3 DEF Holders
  <2>2. c \notin Holders(s, i)
    BY <1>1, NoneAssumption DEF Holders, Holds
  <2>3. \A j \in Ids \ {i} : Holders(s, j)' = Holders(s, j)
    BY <1>3 DEF Holders
  <2>4. \A t \in Servers \ {s}, j \in Ids : Holders(t, j)' = Holders(t, j)
    BY <1>3 DEF Holders
  <2> QED  BY <2>1, <2>2, <2>3, <2>4
<1>5. Cardinality(Holders(s, i)') = Cardinality(Holders(s, i)) + 1
  BY <1>4, HoldersFinite, FS_AddElement
<1>6. /\ \A j \in Ids \ {i} : /\ writelock'[s][j] = writelock[s][j]
                              /\ readlock'[s][j] = readlock[s][j]
                              /\ flock'[s][j] = flock[s][j]
      /\ \A t \in Servers \ {s} : /\ writelock'[t] = writelock[t]
                                  /\ readlock'[t] = readlock[t]
                                  /\ flock'[t] = flock[t]
  <2>1. /\ \A j \in Ids \ {i} : flock'[s][j] = flock[s][j]
        /\ \A t \in Servers \ {s} : flock'[t] = flock[t]
    <3>1. PICK type : flock' = [flock EXCEPT ![s][i] = type]
      BY <1>2
    <3> QED  BY <1>0, <3>1, CellUpdate
  <2>2. /\ \A j \in Ids \ {i} : writelock'[s][j] = writelock[s][j]
        /\ \A t \in Servers \ {s} : writelock'[t] = writelock[t]
    <3>1. writelock' = [writelock EXCEPT ![s][i] = TRUE] \/ writelock' = writelock
      BY <1>2
    <3> QED  BY <1>0, <3>1, CellUpdate
  <2>3. /\ \A j \in Ids \ {i} : readlock'[s][j] = readlock[s][j]
        /\ \A t \in Servers \ {s} : readlock'[t] = readlock[t]
    <3>1. PICK n : readlock' = [readlock EXCEPT ![s][i] = n] \/ readlock' = readlock
      BY <1>2
    <3> QED  BY <1>0, <3>1, CellUpdate
  <2> QED  BY <2>1, <2>2, <2>3
<1>7. ASSUME NEW t \in Servers, NEW j \in Ids, t # s \/ j # i
      PROVE  MarksMatch(t, j)'
  <2>1. Holders(t, j)' = Holders(t, j)
    BY <1>4, <1>7
  <2>2. /\ readlock'[t][j] = readlock[t][j]
        /\ writelock'[t][j] = writelock[t][j]
        /\ flock'[t][j] = flock[t][j]
    BY <1>6, <1>7
  <2> QED  BY <2>1, <2>2 DEF SessionLocks, LocksMatchSessions, MarksMatch
<1>8. ASSUME MarksMatch(s, i)' PROVE LocksMatchSessions'
  <2> SUFFICES ASSUME NEW t \in Servers, NEW j \in Ids
               PROVE  MarksMatch(t, j)'
    BY DEF LocksMatchSessions
  <2>1. CASE t # s \/ j # i
    BY <2>1, <1>7
  <2>2. CASE t = s /\ j = i
    BY <2>2, <1>8
  <2> QED  BY <2>1, <2>2
<1>9. CASE s \in ReadServers
  <2>1. s \notin WriteServers
    BY <1>9, ServersAssumption
  <2>8. /\ flock' = [flock EXCEPT ![s][i] = "rdlck"]
        /\ readlock' = [readlock EXCEPT ![s][i] = readlock[s][i] + 1]
    BY <1>2, <2>1
  <2>2. readlock'[s][i] = readlock[s][i] + 1 /\ flock'[s][i] = "rdlck"
    BY <1>0, <2>8, CellUpdate
  <2>3. MarksMatch(s, i)'
    BY <1>4, <1>5, <1>9, <2>1, <2>2 DEF SessionLocks, LocksMatchSessions, MarksMatch
  <2>4. readlock' \in [Servers -> [Ids -> Nat]]
    <3>1. readlock[s][i] + 1 \in Nat
      BY <1>0
    <3> QED  BY <1>0, <2>8, <3>1, TableUpdate
  <2>5. \A t \in Servers \ {s} : flock[t][i] # "wrlck"
    BY <1>2, <2>1 DEF MayServe, CanLock
  <2>6. KernelLocks'
    <3> SUFFICES ASSUME NEW t \in Servers, NEW u \in Servers, NEW j \in Ids,
                        t # u, flock'[t][j] = "wrlck"
                 PROVE  flock'[u][j] = "unlck"
      BY DEF KernelLocks
    <3>1. flock[t][j] = "wrlck"
      BY <1>6, <2>2
    <3>2. flock[u][j] = "unlck"
      BY <3>1 DEF SessionLocks, KernelLocks
    <3>3. u # s \/ j # i
      BY <2>5, <3>1
    <3> QED  BY <1>6, <3>2, <3>3
  <2>7. OneWriter'
    BY <1>3, <2>1 DEF SessionLocks, OneWriter, Servers
  <2> QED  BY <1>8, <2>3, <2>4, <2>6, <2>7 DEF SessionLocks
<1>10. CASE s \in WriteServers
  <2>1. s \notin ReadServers
    BY <1>10, ServersAssumption
  <2>8. /\ flock' = [flock EXCEPT ![s][i] = "wrlck"]
        /\ writelock' = [writelock EXCEPT ![s][i] = TRUE]
        /\ UNCHANGED readlock
    BY <1>2, <2>1
  <2>2. writelock'[s][i] /\ flock'[s][i] = "wrlck" /\ UNCHANGED readlock
    <3>1. flock'[s][i] = "wrlck"
      BY <1>0, <2>8, CellUpdate
    <3>2. writelock'[s][i] = TRUE
      BY <1>0, <2>8, CellUpdate
    <3> QED  BY <2>8, <3>1, <3>2
  <2>3. MarksMatch(s, i)'
    BY <1>4, <2>1, <2>2 DEF MarksMatch
  <2>4. Holders(s, i) = {}
    BY <1>2, <1>10, <2>1 DEF MayServe, SessionLocks, LocksMatchSessions, MarksMatch
  <2>5. \A t \in Servers \ {s} : flock[t][i] = "unlck"
    BY <1>2, <2>1 DEF MayServe, CanLock
  <2>6. KernelLocks'
    BY <1>6, <2>2, <2>5 DEF SessionLocks, KernelLocks
  <2>7. OneWriter'
    BY <1>3, <2>4 DEF SessionLocks, OneWriter, Servers, Holders
  <2> QED  BY <1>8, <2>2, <2>3, <2>6, <2>7 DEF SessionLocks, TypeOK
<1> QED  BY <1>9, <1>10 DEF Servers

\* The main safety property, from the locks.
LEMMA LocksExclude ==
  ASSUME SessionLocks
  PROVE  WriterExcludesAll
<1> SUFFICES ASSUME NEW s \in WriteServers, NEW t \in Servers, NEW c \in Fds, NEW d \in Fds,
                    NEW i \in Ids, Holds(s, c, i), Holds(t, d, i)
             PROVE  s = t /\ c = d
  BY DEF WriterExcludesAll
<1>1. s \in Servers /\ Holders(s, i) # {} /\ Holders(t, i) # {}
  BY DEF Servers, Holders
<1>2. flock[s][i] = "wrlck" /\ flock[t][i] # "unlck"
  BY <1>1 DEF SessionLocks, LocksMatchSessions, MarksMatch, Servers
<1>3. s = t
  BY <1>1, <1>2 DEF SessionLocks, KernelLocks
<1> QED  BY <1>3 DEF SessionLocks, OneWriter

-----------------------------------------------------------------------------
(* The invariant, by the ways a session or a process ends.                 *)

LEMMA ExitInv ==
  ASSUME NEW s \in Servers, IInv, Exit(s)
  PROVE  IInv'
<1>1. /\ TypeOK /\ RequestsOK /\ HandlersOK /\ SessionLocks /\ ShownIsCurrent
      /\ TypeOK' /\ SessionLocks'
  BY ExitType, LocksAfterExit DEF IInv
<1>2. /\ proc'[s].pc = "down"
      /\ \A c \in Fds : requestP'[s][c] = FreeRequest
      /\ \A t \in Servers \ {s} : /\ proc'[t] = proc[t]
                                  /\ requestP'[t] = requestP[t]
                                  /\ sock'[t] = sock[t]
      /\ file' = file
  BY <1>1 DEF Exit, TypeOK, Idle
<1>3. RequestsOK'
  BY <1>1, <1>2 DEF RequestsOK, FreeRequest
<1>4. HandlersOK'
  <2> SUFFICES ASSUME NEW t \in Servers, proc'[t].pc \in {"show", "check", "save", "release"}
               PROVE  t # s
    BY <1>1, <1>2 DEF HandlersOK
  <2> QED  BY <1>2
<1>5. ShownIsCurrent'
  BY <1>1, <1>2, NoneAssumption DEF ShownIsCurrent, Holds, FreeRequest
<1> QED  BY <1>1, <1>3, <1>4, <1>5 DEF IInv

\* A handler that is done goes back to the loop.
LEMMA EndSessionInv ==
  ASSUME NEW s \in Servers, NEW c \in Fds, IInv,
         requestP[s][c].wait_for_write, EndSession(s, c),
         \/ UNCHANGED proc /\ proc[s].pc = "loop"
         \/ proc' = [proc EXCEPT ![s] = Idle] /\ proc[s].conn_fd = c /\ proc[s].pc # "show"
  PROVE  IInv'
<1>1. TypeOK /\ RequestsOK /\ HandlersOK /\ SessionLocks /\ ShownIsCurrent
  BY DEF IInv
<1>2. PICK i \in Ids : Holds(s, c, i)
  BY <1>1 DEF TypeOK, Requests, RequestsOK, Holds
<1>3. SessionLocks' /\ readlock' \in [Servers -> [Ids -> Nat]]
  BY <1>1, <1>2, LocksAfterEndSession
<1>4. EndConnection(s, c) /\ UNCHANGED <<file, told>>
  BY DEF EndSession
<1>5. proc'[s].pc = "loop" /\ \A t \in Servers \ {s} : proc'[t] = proc[t]
  BY <1>1 DEF TypeOK, Idle
<1>6. TypeOK'
  <2>1. proc' \in [Servers -> Procs]
    <3>1. Idle \in Procs
      BY DEF Idle, Procs
    <3>2. proc \in [Servers -> Procs]
      BY <1>1 DEF TypeOK
    <3> QED  BY <3>1, <3>2
  <2>2. /\ flock' \in [Servers -> [Ids -> {"unlck", "rdlck", "wrlck"}]]
        /\ writelock' \in [Servers -> [Ids -> BOOLEAN]]
    <3>1. flock' = [flock EXCEPT ![s][i] = "unlck"] \/ flock' = flock
      BY <1>2 DEF EndSession, SetLock, Holds
    <3>2. writelock' = [writelock EXCEPT ![s][i] = FALSE] \/ writelock' = writelock
      BY <1>2 DEF EndSession, Holds
    <3>3. flock' \in [Servers -> [Ids -> {"unlck", "rdlck", "wrlck"}]]
      <4>1. flock \in [Servers -> [Ids -> {"unlck", "rdlck", "wrlck"}]]
        BY <1>1 DEF TypeOK
      <4>2. [flock EXCEPT ![s][i] = "unlck"] \in [Servers -> [Ids -> {"unlck", "rdlck", "wrlck"}]]
        BY <4>1, TableUpdate
      <4> QED  BY <3>1, <4>1, <4>2
    <3>4. writelock' \in [Servers -> [Ids -> BOOLEAN]]
      <4>1. writelock \in [Servers -> [Ids -> BOOLEAN]]
        BY <1>1 DEF TypeOK
      <4>2. [writelock EXCEPT ![s][i] = FALSE] \in [Servers -> [Ids -> BOOLEAN]]
        BY <4>1, TableUpdate, Zenon
      <4> QED  BY <3>2, <4>1, <4>2
    <3> QED  BY <3>3, <3>4
  <2> QED  BY <1>1, <1>3, <1>4, <2>1, <2>2, SockUpdates DEF TypeOK
<1>7. /\ requestP'[s][c] = FreeRequest
      /\ \A d \in Fds \ {c} : requestP'[s][d] = requestP[s][d] /\ sock'[s][d] = sock[s][d]
      /\ \A t \in Servers \ {s} : requestP'[t] = requestP[t] /\ sock'[t] = sock[t]
  BY <1>1, <1>4 DEF EndConnection, TypeOK
<1>8. RequestsOK'
  <2>1. \A d \in Fds \ {c} : ~(proc[s].pc = "show" /\ proc[s].conn_fd = d)
    OBVIOUS
  <2> QED  BY <1>1, <1>5, <1>7, <2>1 DEF RequestsOK, FreeRequest
<1>9. HandlersOK'
  BY <1>1, <1>5, <1>7 DEF HandlersOK
<1>10. ShownIsCurrent'
  <2> SUFFICES ASSUME NEW t \in Servers, NEW d \in Fds, NEW j \in Ids,
                      Holds(t, d, j)', requestP'[t][d].wait_for_write,
                      ~(proc'[t].pc = "release" /\ proc'[t].conn_fd = d)
               PROVE  sock'[t][d].shown = file'[j]
    BY DEF ShownIsCurrent
  <2>1. t # s \/ d # c
    BY <1>7 DEF FreeRequest
  <2>2. requestP'[t][d] = requestP[t][d] /\ sock'[t][d] = sock[t][d] /\ file' = file
    BY <2>1, <1>4, <1>7
  <2>3. ~(proc[t].pc = "release" /\ proc[t].conn_fd = d)
    BY <2>1, <1>5
  <2> QED  BY <1>1, <2>2, <2>3 DEF ShownIsCurrent, Holds
<1> QED  BY <1>3, <1>6, <1>8, <1>9, <1>10 DEF IInv

LEMMA AdmitInv ==
  ASSUME NEW s \in Servers, NEW c \in Fds, IInv, Admit(s, c)
  PROVE  IInv'
<1>1. TypeOK /\ RequestsOK /\ HandlersOK /\ SessionLocks /\ ShownIsCurrent
  BY DEF IInv
<1>2. Got(s, c, {"id"}) /\ sock[s][c].inbox # <<>> /\ UNCHANGED <<file, told>>
  BY DEF Admit, Got
<1>3. PICK i \in Ids : i = Head(sock[s][c].inbox).id
  BY <1>1, <1>2, HeadId
<1>4. SessionLocks' /\ readlock' \in [Servers -> [Ids -> Nat]]
  BY <1>1, <1>3, LocksAfterAdmit
<1>5. /\ requestP[s][c].id = None /\ ~requestP[s][c].wait_for_write
      /\ proc[s].pc = "loop"
      /\ requestP' = [requestP EXCEPT ![s][c].id = i]
      /\ proc' = [proc EXCEPT ![s].pc = "show", ![s].conn_fd = c]
      /\ sock' = [sock EXCEPT ![s][c].inbox = Tail(@)]
  BY <1>1, <1>3 DEF Admit, AwaitsId, Select, RequestsOK, Take
<1>6. /\ proc'[s].pc = "show" /\ proc'[s].conn_fd = c /\ proc'[s] \in Procs
      /\ \A t \in Servers \ {s} : proc'[t] = proc[t]
  BY <1>1, <1>5 DEF TypeOK, Procs
<1>7. /\ requestP'[s][c].id = i /\ ~requestP'[s][c].wait_for_write /\ requestP'[s][c] \in Requests
      /\ \A d \in Fds \ {c} : requestP'[s][d] = requestP[s][d]
      /\ \A t \in Servers \ {s} : requestP'[t] = requestP[t]
  <2>1. requestP[s][c] \in Requests
    BY <1>1 DEF TypeOK
  <2>2. requestP'[s][c] = [requestP[s][c] EXCEPT !.id = i]
    BY <1>1, <1>5 DEF TypeOK
  <2>3. \A d \in Fds \ {c} : requestP'[s][d] = requestP[s][d]
    BY <1>1, <1>5 DEF TypeOK
  <2>4. \A t \in Servers \ {s} : requestP'[t] = requestP[t]
    BY <1>1, <1>5 DEF TypeOK
  <2>5. /\ requestP'[s][c].id = i /\ requestP'[s][c] \in Requests
        /\ requestP'[s][c].wait_for_write = requestP[s][c].wait_for_write
    BY <2>1, <2>2 DEF Requests
  <2>6. ~requestP'[s][c].wait_for_write
    BY <1>5, <2>5
  <2> QED  BY <2>3, <2>4, <2>5, <2>6
<1>8. /\ sock'[s][c].shown = sock[s][c].shown
      /\ \A d \in Fds \ {c} : sock'[s][d] = sock[s][d]
      /\ \A t \in Servers \ {s} : sock'[t] = sock[t]
  <2>1. sock' = [sock EXCEPT ![s] = [sock[s] EXCEPT ![c] = [sock[s][c] EXCEPT !.inbox = Tail(@)]]]
    BY <1>5
  <2>2. sock'[s] = [sock[s] EXCEPT ![c] = [sock[s][c] EXCEPT !.inbox = Tail(@)]]
    BY <1>1, <2>1 DEF TypeOK
  <2>3. sock'[s][c] = [sock[s][c] EXCEPT !.inbox = Tail(@)]
    BY <1>1, <2>2 DEF TypeOK
  <2>4. sock[s][c] \in Socks
    BY <1>1 DEF TypeOK
  <2>5. sock'[s][c].shown = sock[s][c].shown
    BY <2>3, <2>4 DEF Socks
  <2> QED  BY <1>1, <2>1, <2>2, <2>5 DEF TypeOK
<1>9. TypeOK'
  <2>1. sock' \in [Servers -> [Fds -> Socks]]
    BY <1>1, <1>2, <1>5, HeadLine
  <2>2. proc' \in [Servers -> Procs] /\ requestP' \in [Servers -> [Fds -> Requests]]
    BY <1>1, <1>5, <1>6, <1>7 DEF TypeOK
  <2>3. flock' \in [Servers -> [Ids -> {"unlck", "rdlck", "wrlck"}]]
    <3>1. PICK type \in {"unlck", "rdlck", "wrlck"} : flock' = [flock EXCEPT ![s][i] = type]
      BY <1>3 DEF Admit, SetLock
    <3>2. flock \in [Servers -> [Ids -> {"unlck", "rdlck", "wrlck"}]]
      BY <1>1 DEF TypeOK
    <3> QED  BY <3>1, <3>2, TableUpdate
  <2>4. writelock' \in [Servers -> [Ids -> BOOLEAN]]
    <3>1. writelock' = [writelock EXCEPT ![s][i] = TRUE] \/ writelock' = writelock
      BY <1>3 DEF Admit
    <3>2. writelock \in [Servers -> [Ids -> BOOLEAN]]
      BY <1>1 DEF TypeOK
    <3>3. [writelock EXCEPT ![s][i] = TRUE] \in [Servers -> [Ids -> BOOLEAN]]
      BY <3>2, TableUpdate, Zenon
    <3> QED  BY <3>1, <3>2, <3>3
  <2> QED  BY <1>1, <1>2, <1>4, <2>1, <2>2, <2>3, <2>4 DEF TypeOK
<1>10. RequestsOK'
  <2> SUFFICES ASSUME NEW t \in Servers, NEW d \in Fds
               PROVE  /\ requestP'[t][d].wait_for_write => requestP'[t][d].id # None
                      /\ requestP'[t][d].id # None =>
                           \/ requestP'[t][d].wait_for_write
                           \/ proc'[t].pc = "show" /\ proc'[t].conn_fd = d
    BY DEF RequestsOK
  <2>1. CASE t = s /\ d = c
    BY <2>1, <1>6, <1>7
  <2>2. CASE t = s /\ d # c
    BY <2>2, <1>1, <1>5, <1>7 DEF RequestsOK
  <2>3. CASE t # s
    BY <2>3, <1>1, <1>6, <1>7 DEF RequestsOK
  <2> QED  BY <2>1, <2>2, <2>3
<1>11. HandlersOK'
  <2>1. requestP'[s][c].id # None
    BY <1>7, NoneAssumption
  <2> QED  BY <1>1, <1>6, <1>7, <1>8, <2>1 DEF HandlersOK
<1>12. ShownIsCurrent'
  <2> SUFFICES ASSUME NEW t \in Servers, NEW d \in Fds, NEW j \in Ids,
                      Holds(t, d, j)', requestP'[t][d].wait_for_write,
                      ~(proc'[t].pc = "release" /\ proc'[t].conn_fd = d)
               PROVE  sock'[t][d].shown = file'[j]
    BY DEF ShownIsCurrent
  <2>1. t # s \/ d # c
    BY <1>7
  <2>2. requestP'[t][d] = requestP[t][d] /\ sock'[t][d] = sock[t][d] /\ file' = file
    BY <2>1, <1>2, <1>7, <1>8
  <2>3. ~(proc[t].pc = "release" /\ proc[t].conn_fd = d)
    BY <2>1, <1>5, <1>6
  <2> QED  BY <1>1, <2>2, <2>3 DEF ShownIsCurrent, Holds
<1> QED  BY <1>4, <1>9, <1>10, <1>11, <1>12 DEF IInv

\* Steps that touch one connection's socket and open flag, or close a
\* connection that no user has been admitted on.
LEMMA SocketInv ==
  ASSUME IInv, UNCHANGED <<proc, writelock, readlock, flock, file, told>>,
         requestP' \in [Servers -> [Fds -> Requests]],
         sock' \in [Servers -> [Fds -> Socks]],
         \A s \in Servers, c \in Fds :
           /\ requestP'[s][c].id = requestP[s][c].id
           /\ requestP'[s][c].wait_for_write <=> requestP[s][c].wait_for_write
           /\ requestP[s][c].id # None => sock'[s][c].shown = sock[s][c].shown
  PROVE  IInv'
<1>1. TypeOK /\ RequestsOK /\ HandlersOK /\ SessionLocks /\ ShownIsCurrent
  BY DEF IInv
<1>2. TypeOK'
  BY <1>1 DEF TypeOK
<1>3. SessionLocks'
  BY <1>1, LocksUntouched
<1>4. RequestsOK'
  BY <1>1 DEF RequestsOK
<1>5. HandlersOK'
  <2> SUFFICES ASSUME NEW s \in Servers, NEW c, c = proc[s].conn_fd,
                      proc[s].pc \in {"check", "save"}
               PROVE  sock'[s][c].shown = sock[s][c].shown
    BY <1>1 DEF HandlersOK
  <2> QED  BY <1>1 DEF HandlersOK, RequestsOK
<1>6. ShownIsCurrent'
  BY <1>1, NoneAssumption DEF ShownIsCurrent, Holds
<1> QED  BY <1>2, <1>3, <1>4, <1>5, <1>6 DEF IInv

\* A connection no user has been admitted on is closed.
LEMMA CloseInv ==
  ASSUME NEW s \in Servers, NEW c \in Fds, IInv, AwaitsId(s, c), EndConnection(s, c),
         UNCHANGED <<proc, writelock, readlock, flock, file, told>>
  PROVE  IInv'
<1>1. TypeOK /\ requestP[s][c].id = None /\ ~requestP[s][c].wait_for_write
  BY DEF IInv, AwaitsId, Select, RequestsOK
<1>2. /\ requestP' \in [Servers -> [Fds -> Requests]]
      /\ sock' \in [Servers -> [Fds -> Socks]]
  BY <1>1, SockUpdates
<1>3. /\ requestP'[s][c] = FreeRequest
      /\ \A d \in Fds \ {c} : requestP'[s][d] = requestP[s][d] /\ sock'[s][d] = sock[s][d]
      /\ \A t \in Servers \ {s} : requestP'[t] = requestP[t] /\ sock'[t] = sock[t]
  BY <1>1 DEF EndConnection, TypeOK
<1>4. \A t \in Servers, d \in Fds :
        /\ requestP'[t][d].id = requestP[t][d].id
        /\ requestP'[t][d].wait_for_write <=> requestP[t][d].wait_for_write
        /\ requestP[t][d].id # None => sock'[t][d].shown = sock[t][d].shown
  BY <1>1, <1>3 DEF FreeRequest
<1> QED  BY <1>2, <1>4, SocketInv

\* A connection's socket changes, and not what it has been shown.
LEMMA InboxInv ==
  ASSUME NEW s \in Servers, NEW c \in Fds, NEW k \in Socks, IInv,
         sock' = [sock EXCEPT ![s][c] = k], k.shown = sock[s][c].shown,
         UNCHANGED <<proc, requestP, writelock, readlock, flock, file, told>>
  PROVE  IInv'
<1>1. TypeOK
  BY DEF IInv
<1>2. sock' \in [Servers -> [Fds -> Socks]] /\ requestP' \in [Servers -> [Fds -> Requests]]
  BY <1>1 DEF TypeOK
<1>3. \A t \in Servers, d \in Fds : sock'[t][d].shown = sock[t][d].shown
  BY <1>1 DEF TypeOK
<1> QED  BY <1>2, <1>3, SocketInv

LEMMA AcceptInv ==
  ASSUME NEW s \in Servers, NEW c \in Fds, IInv, Accept(s, c)
  PROVE  IInv'
<1>1. TypeOK
  BY DEF IInv
<1> DEFINE r == [requestP[s][c] EXCEPT !.open = TRUE]
           k == [sock[s][c] EXCEPT !.peer = "open"]
<1>2. /\ r \in Requests /\ r.id = requestP[s][c].id
      /\ r.wait_for_write <=> requestP[s][c].wait_for_write
      /\ k \in Socks /\ k.shown = sock[s][c].shown
  <2>1. requestP[s][c] \in Requests /\ sock[s][c] \in Socks
    BY <1>1 DEF TypeOK
  <2> QED  BY <2>1 DEF Requests, Socks
<1>3. /\ requestP' = [requestP EXCEPT ![s][c] = r]
      /\ sock' = [sock EXCEPT ![s][c] = k]
      /\ UNCHANGED <<proc, writelock, readlock, flock, file, told>>
  BY DEF Accept
<1> HIDE DEF r, k
<1>4. /\ requestP' \in [Servers -> [Fds -> Requests]]
      /\ sock' \in [Servers -> [Fds -> Socks]]
  BY <1>1, <1>2, <1>3 DEF TypeOK
<1>5. \A t \in Servers, d \in Fds :
        /\ requestP'[t][d].id = requestP[t][d].id
        /\ requestP'[t][d].wait_for_write <=> requestP[t][d].wait_for_write
        /\ sock'[t][d].shown = sock[t][d].shown
  BY <1>1, <1>2, <1>3 DEF TypeOK
<1> QED  BY <1>3, <1>4, <1>5, SocketInv

LEMMA RestartInv ==
  ASSUME NEW s \in Servers, IInv, Restart(s)
  PROVE  IInv'
<1>1. TypeOK /\ RequestsOK /\ HandlersOK /\ SessionLocks /\ ShownIsCurrent
  BY DEF IInv
<1>2. /\ proc[s].pc = "down" /\ proc'[s].pc = "loop"
      /\ \A t \in Servers \ {s} : proc'[t] = proc[t]
      /\ UNCHANGED <<requestP, writelock, readlock, sock, flock, file, told>>
  BY <1>1 DEF Restart, TypeOK, Idle
<1>3. TypeOK'
  <2>1. Idle \in Procs
    BY DEF Idle, Procs
  <2> QED  BY <1>1, <1>2, <2>1 DEF Restart, TypeOK
<1>4. SessionLocks'
  BY <1>1, <1>2, LocksUntouched
<1>5. RequestsOK'
  BY <1>1, <1>2 DEF RequestsOK
<1>6. HandlersOK'
  BY <1>1, <1>2 DEF HandlersOK
<1>7. ShownIsCurrent'
  BY <1>1, <1>2 DEF ShownIsCurrent, Holds
<1> QED  BY <1>3, <1>4, <1>5, <1>6, <1>7 DEF IInv

-----------------------------------------------------------------------------
(* The invariant, by the steps of a session.                               *)

\* What a reply leaves of a socket.
LEMMA DeliveredSock ==
  ASSUME NEW s \in Servers, NEW c \in Fds, NEW b \in Bookings \cup {None},
         TypeOK, Delivered(s, c, b)
  PROVE  /\ sock' \in [Servers -> [Fds -> Socks]]
         /\ sock'[s][c].shown = b
         /\ \A d \in Fds \ {c} : sock'[s][d] = sock[s][d]
         /\ \A t \in Servers \ {s} : sock'[t] = sock[t]
<1> DEFINE k == [sock[s][c] EXCEPT !.shown = b, !.peer = IF @ = "closed" THEN "reset" ELSE @]
<1>1. k.shown = b
  BY DEF TypeOK, Socks
<1>2. sock' = [sock EXCEPT ![s][c] = k]
  BY DEF Delivered, TypeOK
<1>3. sock' \in [Servers -> [Fds -> Socks]]
  BY SockUpdates
<1> QED  BY <1>1, <1>2, <1>3 DEF TypeOK

LEMMA ShowInv ==
  ASSUME NEW s \in Servers, IInv, Show(s)
  PROVE  IInv'
<1> DEFINE c == proc[s].conn_fd
<1>1. /\ TypeOK /\ RequestsOK /\ HandlersOK /\ SessionLocks /\ ShownIsCurrent
      /\ proc[s].pc = "show" /\ c \in Fds
      /\ requestP[s][c].id # None /\ ~requestP[s][c].wait_for_write
  BY DEF IInv, Show, HandlersOK
<1>2. CASE Exit(s)
  BY <1>2, ExitInv
<1>3. CASE ~Exit(s)
  <2>1. PICK d \in Fds : d = proc[s].conn_fd
    BY <1>1
  <2>2. PICK i \in Ids : i = requestP[s][d].id
    BY <1>1, <2>1 DEF TypeOK, Requests
  <2>3. /\ Delivered(s, d, file[i])
        /\ requestP' = [requestP EXCEPT ![s][d].wait_for_write = TRUE]
        /\ proc' = [proc EXCEPT ![s] = Idle]
        /\ UNCHANGED <<writelock, readlock, flock, file, told>>
    BY <1>3, <2>1, <2>2 DEF Show, Sigpipe
  <2>4. /\ sock' \in [Servers -> [Fds -> Socks]]
        /\ sock'[s][d].shown = file[i]
        /\ \A e \in Fds \ {d} : sock'[s][e] = sock[s][e]
        /\ \A t \in Servers \ {s} : sock'[t] = sock[t]
    <3>1. file[i] \in Bookings
      BY <1>1 DEF TypeOK
    <3> QED  BY <1>1, <2>3, <3>1, DeliveredSock
  <2>5. /\ requestP'[s][d].id = i /\ requestP'[s][d].wait_for_write
        /\ \A e \in Fds \ {d} : requestP'[s][e] = requestP[s][e]
        /\ \A t \in Servers \ {s} : requestP'[t] = requestP[t]
        /\ requestP' \in [Servers -> [Fds -> Requests]]
    <3> DEFINE r == [requestP[s][d] EXCEPT !.wait_for_write = TRUE]
    <3>1. requestP[s][d] \in Requests
      BY <1>1 DEF TypeOK
    <3>2. r \in Requests /\ r.id = i /\ r.wait_for_write
      BY <3>1, <2>2 DEF Requests
    <3>3. requestP' = [requestP EXCEPT ![s][d] = r]
      BY <2>3
    <3> HIDE DEF r
    <3> QED  BY <1>1, <3>2, <3>3 DEF TypeOK
  <2>6. proc'[s].pc = "loop" /\ \A t \in Servers \ {s} : proc'[t] = proc[t]
    BY <1>1, <2>3 DEF TypeOK, Idle
  <2>7. TypeOK'
    <3>1. Idle \in Procs
      BY DEF Idle, Procs
    <3> QED  BY <1>1, <2>3, <2>4, <2>5, <3>1 DEF TypeOK
  <2>8. SessionLocks'
    <3>1. \A t \in Servers, e \in Fds : requestP'[t][e].id = requestP[t][e].id
      BY <2>2, <2>5
    <3> QED  BY <1>1, <2>3, <3>1, LocksUntouched
  <2>9. RequestsOK'
    <3>1. requestP'[s][d].id # None
      BY <2>5, NoneAssumption
    <3> QED  BY <1>1, <2>1, <2>5, <2>6, <3>1 DEF RequestsOK
  <2>10. HandlersOK'
    BY <1>1, <2>4, <2>5, <2>6 DEF HandlersOK
  <2>11. ShownIsCurrent'
    <3> SUFFICES ASSUME NEW t \in Servers, NEW e \in Fds, NEW j \in Ids,
                        Holds(t, e, j)', requestP'[t][e].wait_for_write,
                        ~(proc'[t].pc = "release" /\ proc'[t].conn_fd = e)
                 PROVE  sock'[t][e].shown = file'[j]
      BY DEF ShownIsCurrent
    <3>1. CASE t = s /\ e = d
      BY <3>1, <2>3, <2>4, <2>5 DEF Holds
    <3>2. CASE t # s \/ e # d
      BY <3>2, <1>1, <2>3, <2>4, <2>5, <2>6 DEF ShownIsCurrent, Holds
    <3> QED  BY <3>1, <3>2
  <2> QED  BY <2>7, <2>8, <2>9, <2>10, <2>11 DEF IInv
<1> QED  BY <1>2, <1>3

LEMMA ComputeInv ==
  ASSUME NEW s \in Servers, NEW c \in Fds, IInv, Compute(s, c)
  PROVE  IInv'
<1>1. /\ TypeOK /\ RequestsOK /\ HandlersOK /\ SessionLocks /\ ShownIsCurrent
      /\ proc[s].pc = "loop" /\ requestP[s][c].wait_for_write /\ s \in WriteServers
      /\ Got(s, c, {"command"}) /\ sock[s][c].inbox # <<>>
  BY DEF IInv, Compute, AwaitsMore, Select, Got
<1>2. PICK i \in Ids : i = requestP[s][c].id
  BY <1>1 DEF TypeOK, Requests, RequestsOK
<1>3. sock[s][c].shown = file[i] /\ file[i] \in Bookings
  BY <1>1, <1>2 DEF ShownIsCurrent, Holds, TypeOK
<1>4. PICK modi \in Commands : modi = Head(sock[s][c].inbox).modi
  BY <1>1, HeadCommand
<1>5. PICK b \in Bookings : b = Apply(file[i], modi)
  BY <1>3, ApplyType
<1>6. /\ proc' = [proc EXCEPT ![s] = [pc |-> "check", conn_fd |-> c, new |-> b]]
      /\ sock' = [sock EXCEPT ![s][c].inbox = Tail(@)]
      /\ UNCHANGED <<requestP, writelock, readlock, flock, file, told>>
  BY <1>2, <1>4, <1>5 DEF Compute, Take
<1>7. sock' \in [Servers -> [Fds -> Socks]]
  BY <1>1, <1>6, HeadLine
<1>8. \A t \in Servers, d \in Fds : sock'[t][d].shown = sock[t][d].shown
  <2> DEFINE k == [sock[s][c] EXCEPT !.inbox = Tail(@)]
  <2>1. sock' = [sock EXCEPT ![s][c] = k]
    BY <1>6
  <2>2. k.shown = sock[s][c].shown
    BY <1>1 DEF TypeOK, Socks
  <2> HIDE DEF k
  <2> QED  BY <1>1, <2>1, <2>2 DEF TypeOK
<1>9. /\ proc'[s].pc = "check" /\ proc'[s].conn_fd = c /\ proc'[s].new = b
      /\ \A t \in Servers \ {s} : proc'[t] = proc[t]
      /\ proc' \in [Servers -> Procs]
  <2>1. [pc |-> "check", conn_fd |-> c, new |-> b] \in Procs
    BY DEF Procs
  <2> QED  BY <1>1, <1>6, <2>1 DEF TypeOK
<1>10. TypeOK'
  BY <1>1, <1>6, <1>7, <1>9 DEF TypeOK
<1>11. SessionLocks'
  BY <1>1, <1>6, LocksUntouched
<1>12. RequestsOK'
  BY <1>1, <1>6, <1>9 DEF RequestsOK
<1>13. HandlersOK'
  <2>1. b = Apply(sock'[s][c].shown, modi)
    BY <1>3, <1>5, <1>8
  <2> QED  BY <1>1, <1>6, <1>8, <1>9, <2>1 DEF HandlersOK
<1>14. ShownIsCurrent'
  BY <1>1, <1>6, <1>8, <1>9 DEF ShownIsCurrent, Holds
<1> QED  BY <1>10, <1>11, <1>12, <1>13, <1>14 DEF IInv

LEMMA AnnounceInv ==
  ASSUME NEW s \in Servers, IInv, Announce(s)
  PROVE  IInv'
<1>1. /\ TypeOK /\ RequestsOK /\ HandlersOK /\ SessionLocks /\ ShownIsCurrent
      /\ proc[s].pc = "check" /\ Accepted(proc[s].new)
  BY DEF IInv, Announce
<1>2. CASE Exit(s)
  BY <1>2, ExitInv
<1>3. CASE ~Exit(s)
  <2>1. PICK c \in Fds : c = proc[s].conn_fd
    BY <1>1 DEF HandlersOK
  <2>2. s \in WriteServers /\ requestP[s][c].wait_for_write /\ proc[s].new \in Bookings
    BY <1>1, <2>1 DEF HandlersOK
  <2>3. /\ Delivered(s, c, sock[s][c].shown)
        /\ told' = [told EXCEPT ![requestP[s][c].id] = proc[s].new]
        /\ proc' = [proc EXCEPT ![s].pc = "save"]
        /\ UNCHANGED <<requestP, writelock, readlock, flock, file>>
    BY <1>3, <2>1 DEF Announce, Sigpipe
  <2>4. /\ sock' \in [Servers -> [Fds -> Socks]]
        /\ \A t \in Servers, d \in Fds : sock'[t][d].shown = sock[t][d].shown
    <3>1. sock[s][c].shown \in Bookings \cup {None}
      BY <1>1 DEF TypeOK, Socks
    <3> QED  BY <1>1, <2>3, <3>1, DeliveredSock
  <2>5. /\ proc'[s].pc = "save" /\ proc'[s].conn_fd = c /\ proc'[s].new = proc[s].new
        /\ \A t \in Servers \ {s} : proc'[t] = proc[t]
        /\ proc' \in [Servers -> Procs]
    BY <1>1, <2>1, <2>3, ProcMoves
  <2>6. told' \in [Ids -> Bookings]
    BY <1>1, <2>2, <2>3 DEF TypeOK
  <2>7. TypeOK'
    BY <1>1, <2>3, <2>4, <2>5, <2>6 DEF TypeOK
  <2>8. SessionLocks'
    BY <1>1, <2>3, LocksUntouched
  <2>9. RequestsOK'
    BY <1>1, <2>3, <2>5 DEF RequestsOK
  <2>10. HandlersOK'
    <3>1. PICK modi \in Commands : proc[s].new = Apply(sock[s][c].shown, modi)
      BY <1>1, <2>1 DEF HandlersOK
    <3>2. proc'[s].new = Apply(sock'[s][c].shown, modi)
      BY <2>4, <2>5, <3>1
    <3> SUFFICES ASSUME NEW t \in Servers
                 PROVE  LET d == proc'[t].conn_fd IN
                        /\ proc'[t].pc = "show" =>
                             d \in Fds /\ requestP'[t][d].id # None /\ ~requestP'[t][d].wait_for_write
                        /\ proc'[t].pc \in {"check", "save", "release"} =>
                             /\ t \in WriteServers
                             /\ d \in Fds
                             /\ requestP'[t][d].wait_for_write
                        /\ proc'[t].pc \in {"check", "save"} =>
                             /\ proc'[t].new \in Bookings
                             /\ \E m \in Commands : proc'[t].new = Apply(sock'[t][d].shown, m)
                        /\ proc'[t].pc = "save" => Accepted(proc'[t].new)
      BY DEF HandlersOK
    <3>3. CASE t = s
      BY <3>2, <3>3, <1>1, <2>2, <2>3, <2>5
    <3>4. CASE t # s
      BY <3>4, <1>1, <2>3, <2>4, <2>5 DEF HandlersOK
    <3> QED  BY <3>3, <3>4
  <2>11. ShownIsCurrent'
    BY <1>1, <2>3, <2>4, <2>5 DEF ShownIsCurrent, Holds
  <2> QED  BY <2>7, <2>8, <2>9, <2>10, <2>11 DEF IInv
<1> QED  BY <1>2, <1>3

\* No other session sees the record that is written.
LEMMA SaveInv ==
  ASSUME NEW s \in Servers, IInv, Save(s)
  PROVE  IInv'
<1>1. /\ TypeOK /\ RequestsOK /\ HandlersOK /\ SessionLocks /\ ShownIsCurrent
      /\ proc[s].pc = "save"
  BY DEF IInv, Save
<1>2. PICK c \in Fds : c = proc[s].conn_fd
  BY <1>1 DEF HandlersOK
<1>3. s \in WriteServers /\ requestP[s][c].wait_for_write /\ proc[s].new \in Bookings
  BY <1>1, <1>2 DEF HandlersOK
<1>4. PICK i \in Ids : Holds(s, c, i)
  BY <1>1, <1>3 DEF TypeOK, Requests, RequestsOK, Holds
<1>5. /\ file' = [file EXCEPT ![i] = proc[s].new]
      /\ proc' = [proc EXCEPT ![s].pc = "release"]
      /\ UNCHANGED <<requestP, writelock, readlock, sock, flock, told>>
  BY <1>2, <1>4 DEF Save, Holds
<1>6. /\ proc'[s].pc = "release" /\ proc'[s].conn_fd = c /\ proc'[s].new = proc[s].new
      /\ \A t \in Servers \ {s} : proc'[t] = proc[t]
      /\ proc' \in [Servers -> Procs]
  BY <1>1, <1>2, <1>5, ProcMoves
<1>7. TypeOK'
  <2>1. file \in [Ids -> Bookings] /\ file' \in [Ids -> Bookings]
    BY <1>1, <1>3, <1>5 DEF TypeOK
  <2> QED  BY <1>1, <1>5, <1>6, <2>1 DEF TypeOK
<1>8. SessionLocks'
  BY <1>1, <1>5, LocksUntouched
<1>9. RequestsOK'
  BY <1>1, <1>5, <1>6 DEF RequestsOK
<1>10. HandlersOK'
  BY <1>1, <1>3, <1>5, <1>6 DEF HandlersOK
<1>11. ShownIsCurrent'
  <2> SUFFICES ASSUME NEW t \in Servers, NEW d \in Fds, NEW j \in Ids,
                      Holds(t, d, j)', requestP'[t][d].wait_for_write,
                      ~(proc'[t].pc = "release" /\ proc'[t].conn_fd = d)
               PROVE  sock'[t][d].shown = file'[j]
    BY DEF ShownIsCurrent
  <2>1. t # s \/ d # c
    BY <1>6
  <2>2. Holds(t, d, j) /\ requestP[t][d].wait_for_write
    BY <1>5 DEF Holds
  <2>3. j # i
    BY <1>1, <1>3, <1>4, <2>1, <2>2, LocksExclude DEF WriterExcludesAll
  <2>4. ~(proc[t].pc = "release" /\ proc[t].conn_fd = d)
    BY <1>1, <1>6
  <2>5. sock[t][d].shown = file[j]
    BY <1>1, <2>2, <2>4 DEF ShownIsCurrent
  <2> QED  BY <1>1, <1>5, <2>3, <2>5 DEF TypeOK
<1> QED  BY <1>7, <1>8, <1>9, <1>10, <1>11 DEF IInv

LEMMA InitInv == Init => IInv
<1> SUFFICES ASSUME Init PROVE IInv
  OBVIOUS
<1>1. Idle \in Procs /\ FreeRequest \in Requests /\ NoSock \in Socks
  BY DEF Idle, Procs, FreeRequest, Requests, NoSock, Socks
<1>2. TypeOK
  BY <1>1, RecordAssumption DEF Init, TypeOK
<1>3. RequestsOK
  BY DEF Init, RequestsOK, FreeRequest
<1>4. HandlersOK
  BY DEF Init, HandlersOK, Idle
<1>5. \A s \in Servers, c \in Fds, i \in Ids : ~Holds(s, c, i)
  BY NoneAssumption DEF Init, Holds, FreeRequest
<1>6. \A s \in Servers, i \in Ids : Holders(s, i) = {}
  BY <1>5 DEF Holders
<1>7. SessionLocks
  BY <1>5, <1>6, FS_EmptySet
     DEF Init, SessionLocks, LocksMatchSessions, MarksMatch, KernelLocks, OneWriter, Servers
<1>8. ShownIsCurrent
  BY <1>5 DEF ShownIsCurrent
<1> QED  BY <1>2, <1>3, <1>4, <1>7, <1>8 DEF IInv

LEMMA NextInv == IInv /\ [Next]_vars => IInv'
<1> SUFFICES ASSUME IInv, [Next]_vars PROVE IInv'
  OBVIOUS
<1>1. /\ TypeOK /\ HandlersOK
      /\ \A s \in Servers, c \in Fds : AwaitsMore(s, c) =>
           requestP[s][c].wait_for_write /\ proc[s].pc = "loop"
  BY DEF IInv, AwaitsMore, Select
<1>2. ASSUME NEW s \in Servers, NEW c \in Fds, NoNewline(s, c) PROVE IInv'
  BY <1>2, ExitInv DEF NoNewline
<1>3. ASSUME NEW s \in Servers, NEW c \in Fds, HangUp(s, c) PROVE IInv'
  BY <1>3, CloseInv DEF HangUp
<1>4. ASSUME NEW s \in Servers, NEW c \in Fds, RefuseId(s, c) PROVE IInv'
  BY <1>4, CloseInv, ExitInv DEF RefuseId, Sigpipe
<1>5. ASSUME NEW s \in Servers, NEW c \in Fds, Locked(s, c) PROVE IInv'
  BY <1>5, CloseInv, ExitInv DEF Locked, Sigpipe
<1>6. ASSUME NEW s \in Servers, NEW c \in Fds, Leave(s, c) PROVE IInv'
  BY <1>1, <1>6, EndSessionInv DEF Leave
<1>7. ASSUME NEW s \in Servers, NEW c \in Fds, Ignore(s, c) PROVE IInv'
  <2> DEFINE k == [sock[s][c] EXCEPT !.inbox = Tail(@)]
  <2>1. sock' = [sock EXCEPT ![s][c] = k]
        /\ UNCHANGED <<proc, requestP, writelock, readlock, flock, file, told>>
    BY <1>7 DEF Ignore, Take
  <2>2. sock[s][c] \in Socks /\ Tail(sock[s][c].inbox) \in Seq(Lines)
    BY <1>1, <1>7 DEF Ignore, Got, TypeOK, Socks
  <2>3. k \in Socks /\ k.shown = sock[s][c].shown
    BY <2>2 DEF Socks
  <2> QED  BY <2>1, <2>3, InboxInv
<1>8. ASSUME NEW s \in Servers, NEW c \in Fds, BadCommand(s, c) PROVE IInv'
  BY <1>1, <1>8, EndSessionInv, ExitInv DEF BadCommand, Sigpipe
<1>9. ASSUME NEW s \in Servers, Reject(s) PROVE IInv'
  <2>1. /\ proc[s].conn_fd \in Fds /\ proc[s].pc # "show"
        /\ requestP[s][proc[s].conn_fd].wait_for_write
    BY <1>1, <1>9 DEF Reject, HandlersOK
  <2> QED  BY <1>9, <2>1, EndSessionInv, ExitInv DEF Reject, Sigpipe
<1>10. ASSUME NEW s \in Servers, Release(s) PROVE IInv'
  <2>1. /\ proc[s].conn_fd \in Fds /\ proc[s].pc # "show"
        /\ requestP[s][proc[s].conn_fd].wait_for_write
    BY <1>1, <1>10 DEF Release, HandlersOK
  <2> QED  BY <1>10, <2>1, EndSessionInv DEF Release
<1>11. ASSUME NEW s \in Servers, Handle(s) PROVE IInv'
  BY <1>2, <1>3, <1>4, <1>5, <1>6, <1>7, <1>8, <1>9, <1>10, <1>11,
     AdmitInv, ShowInv, ComputeInv, AnnounceInv, SaveInv DEF Handle
<1>12. ASSUME NEW s \in Servers, Arrive(s) PROVE IInv'
  BY <1>12, AcceptInv, ExitInv DEF Arrive, AcceptFails, GreetingFails
<1>13. ASSUME NEW s \in Servers, NEW c \in Fds, NEW line \in Lines, Send(s, c, line) PROVE IInv'
  <2> DEFINE k == [sock[s][c] EXCEPT !.inbox = Append(@, line)]
  <2>1. sock' = [sock EXCEPT ![s][c] = k]
        /\ UNCHANGED <<proc, requestP, writelock, readlock, flock, file, told>>
    BY <1>13 DEF Send
  <2>2. sock[s][c] \in Socks /\ Append(sock[s][c].inbox, line) \in Seq(Lines)
    BY <1>1 DEF TypeOK, Socks
  <2>3. k \in Socks /\ k.shown = sock[s][c].shown
    BY <2>2 DEF Socks
  <2> QED  BY <2>1, <2>3, InboxInv
<1>14. ASSUME NEW s \in Servers, NEW c \in Fds, Close(s, c) PROVE IInv'
  <2>1. PICK how \in {"closed", "reset"} : sock' = [sock EXCEPT ![s][c].peer = how]
    BY <1>14 DEF Close
  <2> DEFINE k == [sock[s][c] EXCEPT !.peer = how]
  <2>2. sock' = [sock EXCEPT ![s][c] = k]
        /\ UNCHANGED <<proc, requestP, writelock, readlock, flock, file, told>>
    BY <1>14, <2>1 DEF Close
  <2>3. sock[s][c] \in Socks /\ how \in {"none", "open", "closed", "reset"}
    BY <1>1 DEF TypeOK
  <2>4. k \in Socks /\ k.shown = sock[s][c].shown
    BY <2>3 DEF Socks
  <2> QED  BY <2>2, <2>4, InboxInv
<1>15. ASSUME NEW s \in Servers, Client(s) PROVE IInv'
  BY <1>13, <1>14, <1>15 DEF Client
<1>16. ASSUME NEW s \in Servers, Kill(s) PROVE IInv'
  BY <1>16, ExitInv DEF Kill
<1>17. CASE Next
  BY <1>11, <1>12, <1>15, <1>16, <1>17, RestartInv DEF Next
<1>18. CASE UNCHANGED vars
  BY <1>1, <1>18, SocketInv DEF vars, TypeOK
<1> QED  BY <1>17, <1>18

THEOREM Invariance == Spec => []IInv
BY InitInv, NextInv, PTL DEF Spec

-----------------------------------------------------------------------------
(* The properties of the runs.                                             *)

\* Every variable keeps its type, whatever clients send and whoever is killed.
THEOREM TypeCorrect == Spec => []TypeOK
<1>1. IInv => TypeOK
  BY DEF IInv
<1> QED  BY <1>1, Invariance, PTL

\* The marks each server keeps, the record locks the kernel has granted and
\* the sessions that are open agree in every reachable state.
THEOREM LocksCorrect == Spec => []LocksMatchSessions
<1>1. IInv => LocksMatchSessions
  BY DEF IInv, SessionLocks
<1> QED  BY <1>1, Invariance, PTL

\* A session of a write server is the only session of its user.
THEOREM Exclusion == Spec => []WriterExcludesAll
<1>1. IInv => WriterExcludesAll
  BY LocksExclude DEF IInv
<1> QED  BY <1>1, Invariance, PTL

\* What a session has been shown is what the file holds.
THEOREM Freshness == Spec => []ShownIsCurrent
<1>1. IInv => ShownIsCurrent
  BY DEF IInv
<1> QED  BY <1>1, Invariance, PTL

\* Only one step of a handler changes a record.
LEMMA OnlySaveWrites ==
  ASSUME [Next]_vars, \A s \in Servers : ~Save(s)
  PROVE  UNCHANGED file
<1>1. ASSUME NEW s \in Servers, Handle(s) PROVE UNCHANGED file
  BY <1>1 DEF Handle, Show, Reject, Announce, Release, NoNewline, HangUp, RefuseId, Locked,
     Admit, Leave, Ignore, BadCommand, Compute, Sigpipe, Exit, EndSession
<1>2. ASSUME NEW s \in Servers, Arrive(s) PROVE UNCHANGED file
  BY <1>2 DEF Arrive, Accept, AcceptFails, GreetingFails, Exit
<1>3. ASSUME NEW s \in Servers, Client(s) PROVE UNCHANGED file
  BY <1>3 DEF Client, Send, Close
<1>4. ASSUME NEW s \in Servers, Kill(s) \/ Restart(s) PROVE UNCHANGED file
  BY <1>4 DEF Kill, Restart, Exit
<1> QED  BY <1>1, <1>2, <1>3, <1>4 DEF Next, vars

\* What a write stores: a command applied to what its session was shown,
\* which is what the file still holds.
LEMMA SaveStores ==
  ASSUME NEW s \in Servers, IInv, Save(s)
  PROVE  \E c \in Fds, i \in Ids, modi \in Commands :
           /\ c = proc[s].conn_fd
           /\ s \in WriteServers
           /\ Holds(s, c, i)
           /\ requestP[s][c].wait_for_write
           /\ sock[s][c].shown = file[i]
           /\ proc[s].new = Apply(file[i], modi)
           /\ proc[s].new \in Bookings
           /\ Accepted(proc[s].new)
           /\ file' = [file EXCEPT ![i] = proc[s].new]
<1>1. /\ TypeOK /\ RequestsOK /\ HandlersOK /\ ShownIsCurrent
      /\ proc[s].pc = "save"
  BY DEF IInv, Save
<1>2. PICK c \in Fds : c = proc[s].conn_fd
  BY <1>1 DEF HandlersOK
<1>3. /\ s \in WriteServers /\ requestP[s][c].wait_for_write
      /\ proc[s].new \in Bookings /\ Accepted(proc[s].new)
  BY <1>1, <1>2 DEF HandlersOK
<1>4. PICK i \in Ids : Holds(s, c, i)
  BY <1>1, <1>3 DEF TypeOK, Requests, RequestsOK, Holds
<1>5. PICK modi \in Commands : proc[s].new = Apply(sock[s][c].shown, modi)
  BY <1>1, <1>2 DEF HandlersOK
<1>6. sock[s][c].shown = file[i]
  BY <1>1, <1>3, <1>4 DEF ShownIsCurrent
<1>7. file' = [file EXCEPT ![i] = proc[s].new]
  BY <1>2, <1>4 DEF Save, Holds
<1> QED  BY <1>2, <1>3, <1>4, <1>5, <1>6, <1>7

\* Each write stores a command applied to the booking its session was shown, which
\* is what the file holds at that moment, and nothing else changes the file.
THEOREM UpdatesKept == Spec => NoLostUpdate
<1> DEFINE Kept(s) == LET c == proc[s].conn_fd
                          i == requestP[s][c].id
                      IN  /\ sock[s][c].shown = file[i]
                          /\ \E modi \in Commands :
                               file' = [file EXCEPT ![i] = Apply(file[i], modi)]
<1>1. ASSUME IInv, NEW s \in Servers, Save(s)  PROVE Kept(s)
  <2>1. PICK c \in Fds, i \in Ids, modi \in Commands :
          /\ c = proc[s].conn_fd
          /\ Holds(s, c, i)
          /\ sock[s][c].shown = file[i]
          /\ proc[s].new = Apply(file[i], modi)
          /\ file' = [file EXCEPT ![i] = proc[s].new]
    BY <1>1, SaveStores
  <2>2. i = requestP[s][c].id
    BY <2>1 DEF Holds
  <2>3. file' = [file EXCEPT ![i] = Apply(file[i], modi)]
    BY <2>1
  <2> QED  BY <2>1, <2>2, <2>3
<1>2. ASSUME IInv, [Next]_vars
      PROVE  [/\ \A s \in Servers : Save(s) => Kept(s)
              /\ UNCHANGED file \/ \E s \in Servers : Save(s)]_vars
  BY <1>1, <1>2, OnlySaveWrites
<1> QED  BY <1>2, Invariance, PTL DEF Spec, NoLostUpdate

\* Amounts that fit are added exactly.
LEMMA ExactSums ==
  ASSUME CommandsFit, NEW b \in Bookings, Legal(b), NEW modi \in Commands
  PROVE  /\ Apply(b, modi) = Desk!Plus(b, modi)
         /\ Sum(Apply(b, modi)) = Total(Apply(b, modi))
<1>1. /\ b[1] \in Int /\ b[2] \in Int /\ b[3] \in Int
      /\ modi[1] \in Int /\ modi[2] \in Int /\ modi[3] \in Int
  BY CommandAssumption DEF Bookings, Items
<1>2. /\ 0 <= b[1] /\ 0 <= b[2] /\ 0 <= b[3] /\ b[1] + b[2] + b[3] <= 15
      /\ IntHalf \in Int /\ IntHalf > 15
  BY IntAssumption DEF Legal, Total, Items, MaxItems
<1>3. /\ 3 * modi[1] + 15 < IntHalf /\ -3 * modi[1] <= IntHalf
      /\ 3 * modi[2] + 15 < IntHalf /\ -3 * modi[2] <= IntHalf
      /\ 3 * modi[3] + 15 < IntHalf /\ -3 * modi[3] <= IntHalf
  BY DEF CommandsFit, Items, MaxItems
<1>4. ASSUME NEW n \in Int, -IntHalf <= n, n < IntHalf PROVE Wrap(n) = n
  BY <1>2, <1>4 DEF Wrap
<1>5. /\ Wrap(b[1] + modi[1]) = b[1] + modi[1]
      /\ Wrap(b[2] + modi[2]) = b[2] + modi[2]
      /\ Wrap(b[3] + modi[3]) = b[3] + modi[3]
  BY <1>1, <1>2, <1>3, <1>4
<1>6. /\ Wrap((b[1] + modi[1]) + (b[2] + modi[2])) = (b[1] + modi[1]) + (b[2] + modi[2])
      /\ Wrap((b[1] + modi[1]) + (b[2] + modi[2]) + (b[3] + modi[3]))
           = (b[1] + modi[1]) + (b[2] + modi[2]) + (b[3] + modi[3])
  BY <1>1, <1>2, <1>3, <1>4
<1>7. Apply(b, modi) = [j \in Items |-> b[j] + modi[j]]
  BY <1>5 DEF Apply, Items
<1>8. /\ Apply(b, modi)[1] = b[1] + modi[1]
      /\ Apply(b, modi)[2] = b[2] + modi[2]
      /\ Apply(b, modi)[3] = b[3] + modi[3]
  BY <1>7 DEF Items
<1> QED  BY <1>6, <1>7, <1>8 DEF Sum, Total, Desk!Plus, Items, Desk!Items

\* If the amounts that clients type fit, no booking leaves its limits.
THEOREM Legality ==
  ASSUME CommandsFit
  PROVE  Spec => []RecordsLegal
<1>1. Init => RecordsLegal
  BY RecordAssumption DEF Init, RecordsLegal
<1>2. ASSUME IInv, RecordsLegal, [Next]_vars
      PROVE  RecordsLegal'
  <2>1. CASE UNCHANGED file
    BY <1>2, <2>1 DEF RecordsLegal
  <2>2. CASE ~UNCHANGED file
    <3>1. PICK s \in Servers : Save(s)
      BY <1>2, <2>2, OnlySaveWrites
    <3>2. PICK c \in Fds, j \in Ids, modi \in Commands :
            /\ proc[s].new = Apply(file[j], modi)
            /\ Accepted(proc[s].new)
            /\ file' = [file EXCEPT ![j] = proc[s].new]
      BY <1>2, <3>1, SaveStores
    <3>3. file[j] \in Bookings /\ Legal(file[j])
      BY <1>2 DEF IInv, TypeOK, RecordsLegal
    <3>4. Legal(proc[s].new)
      BY <3>2, <3>3, ExactSums DEF Accepted, Legal
    <3> QED  BY <1>2, <3>2, <3>4 DEF RecordsLegal, IInv, TypeOK
  <2> QED  BY <2>1, <2>2
<1> QED  BY <1>1, <1>2, Invariance, PTL DEF Spec

-----------------------------------------------------------------------------
(* What clients are told.                                                  *)

\* A step that neither announces nor writes, and kills nobody who is about to write.
Silent ==
  /\ UNCHANGED <<file, told>>
  /\ \A t \in Servers :
       /\ proc[t].pc = "save" => proc'[t] = proc[t] /\ requestP'[t] = requestP[t]
       /\ proc'[t].pc = "save" => proc[t].pc = "save"

\* Server s does as it likes unless it is about to write, or comes to that.
LEMMA OthersSilent ==
  ASSUME NEW s \in Servers, UNCHANGED <<file, told>>,
         proc[s].pc # "save", proc'[s].pc # "save",
         \A t \in Servers \ {s} : proc'[t] = proc[t] /\ requestP'[t] = requestP[t]
  PROVE  Silent
BY DEF Silent

LEMMA ExitSilent ==
  ASSUME TypeOK, NEW s \in Servers, Exit(s), proc[s].pc # "save"
  PROVE  Silent
<1>1. /\ UNCHANGED <<file, told>> /\ proc'[s].pc # "save"
      /\ \A t \in Servers \ {s} : proc'[t] = proc[t] /\ requestP'[t] = requestP[t]
  BY DEF Exit, TypeOK, Idle
<1> QED  BY <1>1, OthersSilent

LEMMA StepsSilent ==
  ASSUME IInv, Killable \cap WriteServers = {}, [Next]_vars, \A s \in Servers : ~Save(s) /\ (Announce(s) => Exit(s))
  PROVE  Silent
<1> USE DEF EndConnection, EndSession
<1>1. TypeOK /\ proc \in [Servers -> Procs] /\ requestP \in [Servers -> [Fds -> Requests]]
  BY DEF IInv, TypeOK
<1>2. ASSUME NEW s \in Servers, NEW c \in Fds,
             NoNewline(s, c) \/ HangUp(s, c) \/ RefuseId(s, c) \/ Locked(s, c) \/ Ignore(s, c)
             \/ Leave(s, c) \/ BadCommand(s, c)
      PROVE  Silent
  <2>1. proc[s].pc = "loop"
    BY <1>2 DEF NoNewline, HangUp, RefuseId, Locked, Ignore, Leave, BadCommand, AwaitsId, AwaitsMore, Select
  <2>2. CASE Exit(s)
    BY <1>1, <2>1, <2>2, ExitSilent
  <2>3. CASE ~Exit(s)
    <3>1. UNCHANGED <<proc, file, told>>
      BY <1>2, <2>3 DEF NoNewline, HangUp, RefuseId, Locked, Ignore, Leave, BadCommand, Sigpipe
    <3>2. requestP' = [requestP EXCEPT ![s][c] = FreeRequest] \/ requestP' = requestP
      BY <1>2, <2>3 DEF NoNewline, HangUp, RefuseId, Locked, Ignore, Leave, BadCommand, Sigpipe
    <3>3. \A t \in Servers \ {s} : requestP'[t] = requestP[t]
      BY <1>1, <3>2
    <3> QED  BY <2>1, <3>1, <3>3, OthersSilent
  <2> QED  BY <2>2, <2>3
<1>3. ASSUME NEW s \in Servers, NEW c \in Fds, Admit(s, c) \/ Compute(s, c)
      PROVE  Silent
  <2>1. proc[s].pc = "loop" /\ UNCHANGED <<file, told>>
    BY <1>3 DEF Admit, Compute, AwaitsId, AwaitsMore, Select
  <2>2. CASE Admit(s, c)
    <3>1. /\ proc' = [proc EXCEPT ![s].pc = "show", ![s].conn_fd = c]
          /\ \E i : requestP' = [requestP EXCEPT ![s][c].id = i]
      BY <2>2 DEF Admit
    <3>2. proc'[s].pc # "save" /\ \A t \in Servers \ {s} : proc'[t] = proc[t]
      BY <1>1, <3>1 DEF Procs
    <3>3. \A t \in Servers \ {s} : requestP'[t] = requestP[t]
      BY <1>1, <3>1
    <3> QED  BY <2>1, <3>2, <3>3, OthersSilent
  <2>3. CASE Compute(s, c)
    <3>1. /\ proc' = [proc EXCEPT ![s] =
                       [pc |-> "check", conn_fd |-> c,
                        new |-> Apply(file[requestP[s][c].id], Head(sock[s][c].inbox).modi)]]
          /\ UNCHANGED requestP
      BY <2>3 DEF Compute
    <3>2. proc'[s].pc # "save" /\ \A t \in Servers \ {s} : proc'[t] = proc[t]
      BY <1>1, <3>1
    <3> QED  BY <2>1, <3>1, <3>2, OthersSilent
  <2> QED  BY <1>3, <2>2, <2>3
<1>4. ASSUME NEW s \in Servers, Show(s) \/ Reject(s) \/ Release(s) \/ Announce(s)
      PROVE  Silent
  <2>1. proc[s].pc \in {"show", "check", "release"}
    BY <1>4 DEF Show, Reject, Release, Announce
  <2>2. CASE Exit(s)
    BY <1>1, <2>1, <2>2, ExitSilent
  <2>3. CASE ~Exit(s)
    <3>0. /\ UNCHANGED <<file, told>> /\ proc' = [proc EXCEPT ![s] = Idle]
          /\ \E c, r : requestP' = [requestP EXCEPT ![s][c] = r]
      <4>1. CASE Show(s)
        <5>1. /\ UNCHANGED <<file, told>> /\ proc' = [proc EXCEPT ![s] = Idle]
              /\ requestP' = [requestP EXCEPT ![s][proc[s].conn_fd].wait_for_write = TRUE]
          BY <4>1, <2>3 DEF Show, Sigpipe
        <5> QED  BY <5>1
      <4>2. CASE Reject(s)
        BY <4>2, <2>3 DEF Reject, Sigpipe
      <4>3. CASE Release(s)
        BY <4>3 DEF Release
      <4> QED  BY <1>4, <2>3, <4>1, <4>2, <4>3
    <3>1. UNCHANGED <<file, told>> /\ proc' = [proc EXCEPT ![s] = Idle]
      BY <3>0
    <3>2. \A t \in Servers \ {s} : requestP'[t] = requestP[t]
      BY <1>1, <3>0
    <3>3. proc'[s].pc # "save" /\ \A t \in Servers \ {s} : proc'[t] = proc[t]
      BY <1>1, <3>1 DEF Idle
    <3> QED  BY <2>1, <3>1, <3>2, <3>3, OthersSilent
  <2> QED  BY <2>2, <2>3
<1>5. ASSUME NEW s \in Servers, Arrive(s) PROVE Silent
  <2>1. CASE AcceptFails(s) \/ GreetingFails(s)
    BY <1>1, <2>1, ExitSilent DEF AcceptFails, GreetingFails
  <2>2. ASSUME NEW c \in Fds, Accept(s, c) PROVE Silent
    <3>1. /\ proc[s].pc = "loop" /\ UNCHANGED <<proc, file, told>>
          /\ requestP' = [requestP EXCEPT ![s][c].open = TRUE]
      BY <2>2 DEF Accept
    <3>2. \A t \in Servers \ {s} : requestP'[t] = requestP[t]
      BY <1>1, <3>1
    <3> QED  BY <3>1, <3>2, OthersSilent
  <2> QED  BY <1>5, <2>1, <2>2 DEF Arrive
<1>6. ASSUME NEW s \in Servers, Client(s) PROVE Silent
  BY <1>6 DEF Client, Send, Close, Silent
<1>7. ASSUME NEW s \in Servers, Restart(s) PROVE Silent
  <2>1. proc[s].pc = "down" /\ UNCHANGED <<requestP, file, told>>
    BY <1>7 DEF Restart
  <2>2. proc'[s].pc # "save" /\ \A t \in Servers \ {s} : proc'[t] = proc[t]
    BY <1>1, <1>7 DEF Restart, Idle
  <2> QED  BY <2>1, <2>2, OthersSilent
<1>8. ASSUME NEW s \in Servers, Kill(s) PROVE Silent
  <2>1. Exit(s) /\ proc[s].pc # "save"
    BY <1>8 DEF Kill, IInv, HandlersOK
  <2> QED  BY <1>1, <2>1, ExitSilent
<1>9. CASE UNCHANGED vars
  BY <1>9 DEF vars, Silent
<1>10. ASSUME NEW s \in Servers, Handle(s) PROVE Silent
  BY <1>2, <1>3, <1>4, <1>10 DEF Handle
<1> QED  BY <1>5, <1>6, <1>7, <1>8, <1>9, <1>10 DEF Next

LEMMA SilentKeeps ==
  ASSUME IInv, Announced, ToldIsSaved, Silent
  PROVE  Announced' /\ ToldIsSaved'
<1>1. Announced'
  BY DEF Announced, Silent
<1>2. ASSUME NEW i \in Ids PROVE file'[i] = told'[i] \/
        \E s \in WriteServers : proc'[s].pc = "save" /\ Holds(s, proc[s].conn_fd, i)'
  <2>1. CASE file[i] = told[i]
    BY <2>1 DEF Silent
  <2>2. CASE \E s \in WriteServers : proc[s].pc = "save" /\ Holds(s, proc[s].conn_fd, i)
    BY <2>2 DEF Silent, Holds, Servers
  <2> QED  BY <2>1, <2>2 DEF ToldIsSaved
<1>3. ToldIsSaved'
  BY <1>2 DEF ToldIsSaved, Holds, Silent, Servers
<1> QED  BY <1>1, <1>3

\* Two servers about to write are about to write different records.
LEMMA SaversDiffer ==
  ASSUME IInv, NEW s \in Servers, proc[s].pc \in {"check", "save"}
  PROVE  /\ s \in WriteServers
         /\ requestP[s][proc[s].conn_fd].id \in Ids
         /\ \A t \in Servers \ {s} :
              proc[t].pc = "save" => requestP[t][proc[t].conn_fd].id # requestP[s][proc[s].conn_fd].id
<1>1. HandlersOK /\ RequestsOK /\ TypeOK /\ WriterExcludesAll
  BY LocksExclude DEF IInv
<1>2. /\ s \in WriteServers /\ proc[s].conn_fd \in Fds
      /\ requestP[s][proc[s].conn_fd].wait_for_write
  BY <1>1 DEF HandlersOK
<1>3. requestP[s][proc[s].conn_fd].id \in Ids
  BY <1>1, <1>2 DEF RequestsOK, TypeOK, Requests
<1>4. ASSUME NEW t \in Servers \ {s}, proc[t].pc = "save"
      PROVE  requestP[t][proc[t].conn_fd].id # requestP[s][proc[s].conn_fd].id
  <2>1. proc[t].conn_fd \in Fds
    BY <1>1, <1>4 DEF HandlersOK
  <2> QED  BY <1>1, <1>2, <1>3, <2>1 DEF WriterExcludesAll, Holds
<1> QED  BY <1>2, <1>3, <1>4

LEMMA AnnounceTells ==
  ASSUME IInv, Announced, ToldIsSaved, NEW s \in Servers, Announce(s), ~Exit(s)
  PROVE  Announced' /\ ToldIsSaved'
<1> DEFINE i == requestP[s][proc[s].conn_fd].id
<1>1. /\ proc[s].pc = "check" /\ UNCHANGED <<requestP, file>>
      /\ told' = [told EXCEPT ![i] = proc[s].new]
      /\ proc' = [proc EXCEPT ![s].pc = "save"]
  BY DEF Announce, Sigpipe
<1>2. TypeOK /\ told \in [Ids -> Bookings]
  BY DEF IInv, TypeOK
<1>3. /\ proc'[s].pc = "save" /\ proc'[s].conn_fd = proc[s].conn_fd /\ proc'[s].new = proc[s].new
      /\ \A t \in Servers \ {s} : proc'[t] = proc[t]
  BY <1>1, <1>2, ProcMoves
<1>4. /\ s \in WriteServers /\ i \in Ids
      /\ \A t \in Servers \ {s} : proc[t].pc = "save" => requestP[t][proc[t].conn_fd].id # i
  BY <1>1, SaversDiffer
<1>5. Holds(s, proc[s].conn_fd, i)
  BY DEF Holds
<1> HIDE DEF i
<1>6. told'[i] = proc[s].new /\ \A j : j # i => told'[j] = told[j]
  BY <1>1, <1>2, <1>4
<1>7. ASSUME NEW t \in Servers, proc'[t].pc = "save"
      PROVE  told'[requestP'[t][proc'[t].conn_fd].id] = proc'[t].new
  <2>1. CASE t = s
    BY <1>1, <1>3, <1>6, <2>1 DEF i
  <2>2. CASE t # s
    BY <1>1, <1>3, <1>4, <1>6, <1>7, <2>2 DEF Announced
  <2> QED  BY <2>1, <2>2
<1>8. ASSUME NEW j \in Ids, j # i
      PROVE  file'[j] = told'[j] \/ \E t \in WriteServers : proc'[t].pc = "save" /\ Holds(t, proc[t].conn_fd, j)'
  <2>1. CASE file[j] = told[j]
    BY <1>1, <1>6, <1>8, <2>1
  <2>2. ASSUME NEW t \in WriteServers, proc[t].pc = "save", Holds(t, proc[t].conn_fd, j)
        PROVE  proc'[t].pc = "save" /\ Holds(t, proc[t].conn_fd, j)'
    BY <1>1, <1>3, <2>2 DEF Holds, Servers
  <2> QED  BY <2>1, <2>2 DEF ToldIsSaved
<1>9. Announced'
  BY <1>7 DEF Announced
<1>10. ASSUME NEW j \in Ids
       PROVE  file'[j] = told'[j] \/ \E t \in WriteServers : proc'[t].pc = "save" /\ requestP'[t][proc'[t].conn_fd].id = j
  BY <1>1, <1>3, <1>4, <1>5, <1>8 DEF Holds, Servers
<1> QED  BY <1>9, <1>10 DEF ToldIsSaved, Holds

LEMMA SaveTells ==
  ASSUME IInv, Announced, ToldIsSaved, NEW s \in Servers, Save(s)
  PROVE  Announced' /\ ToldIsSaved'
<1> DEFINE i == requestP[s][proc[s].conn_fd].id
<1>1. /\ proc[s].pc = "save" /\ UNCHANGED <<requestP, told>>
      /\ file' = [file EXCEPT ![i] = proc[s].new]
      /\ proc' = [proc EXCEPT ![s].pc = "release"]
  BY DEF Save
<1>2. TypeOK /\ file \in [Ids -> Bookings]
  BY DEF IInv, TypeOK
<1>3. /\ proc'[s].pc = "release" /\ proc'[s].conn_fd = proc[s].conn_fd
      /\ \A t \in Servers \ {s} : proc'[t] = proc[t]
  BY <1>1, <1>2, ProcMoves
<1>4. i \in Ids /\ told[i] = proc[s].new
  BY <1>1, SaversDiffer DEF Announced
<1>5. Announced'
  BY <1>1, <1>3 DEF Announced
<1>6. ASSUME NEW t \in Servers, proc[t].pc = "save", NEW j, Holds(t, proc[t].conn_fd, j), j # i
      PROVE  proc'[t].pc = "save" /\ requestP'[t][proc'[t].conn_fd].id = j
  BY <1>1, <1>3, <1>6 DEF Holds
<1> HIDE DEF i
<1>7. file'[i] = told'[i] /\ \A j : j # i => file'[j] = file[j]
  BY <1>1, <1>2, <1>4
<1>8. ASSUME NEW j \in Ids
      PROVE  file'[j] = told'[j] \/ \E t \in WriteServers : proc'[t].pc = "save" /\ requestP'[t][proc'[t].conn_fd].id = j
  <2>1. CASE j = i \/ file[j] = told[j]
    BY <1>1, <1>7, <2>1
  <2>2. ASSUME NEW t \in WriteServers, proc[t].pc = "save", Holds(t, proc[t].conn_fd, j), j # i
        PROVE  proc'[t].pc = "save" /\ requestP'[t][proc'[t].conn_fd].id = j
    BY <1>6, <2>2 DEF Servers
  <2> QED  BY <2>1, <2>2 DEF ToldIsSaved
<1> QED  BY <1>5, <1>8 DEF ToldIsSaved, Holds

\* While nobody kills a write server, a client that was told its booking is
\* updated finds it in the file as soon as the handler that told it is done.
THEOREM Honesty ==
  ASSUME Killable \cap WriteServers = {}
  PROVE  Spec => []ToldIsSaved
<1>1. Init => Announced /\ ToldIsSaved
  BY DEF Init, Announced, ToldIsSaved, Idle
<1>2. ASSUME IInv, Announced, ToldIsSaved, [Next]_vars
      PROVE  Announced' /\ ToldIsSaved'
  <2>1. CASE \E s \in Servers : Save(s)
    BY <1>2, <2>1, SaveTells
  <2>2. CASE \E s \in Servers : Announce(s) /\ ~Exit(s)
    BY <1>2, <2>2, AnnounceTells
  <2>3. CASE \A s \in Servers : ~Save(s) /\ (Announce(s) => Exit(s))
    BY <1>2, <2>3, StepsSilent, SilentKeeps
  <2> QED  BY <2>1, <2>2, <2>3
<1> QED  BY <1>1, <1>2, Invariance, PTL DEF Spec

-----------------------------------------------------------------------------
(* The servers implement the booking desk.                                 *)

\* What the desk sees of a connection.
LEMMA Bars ==
  ASSUME NEW s \in Servers, NEW c \in Fds
  PROVE  /\ <<s, c>> \in Connections
         /\ visitorBar[<<s, c>>] = requestP[s][c].id
         /\ viewBar[<<s, c>>] =
              IF ~requestP[s][c].wait_for_write THEN None
              ELSE IF proc[s].pc = "release" /\ proc[s].conn_fd = c THEN file[requestP[s][c].id]
              ELSE sock[s][c].shown
         /\ visitorBar'[<<s, c>>] = requestP'[s][c].id
         /\ viewBar'[<<s, c>>] =
              IF ~requestP'[s][c].wait_for_write THEN None
              ELSE IF proc'[s].pc = "release" /\ proc'[s].conn_fd = c THEN file'[requestP'[s][c].id]
              ELSE sock'[s][c].shown
BY DEF Connections, visitorBar, viewBar, Saved

\* A connection whose request, shown booking and handler stay as they are
\* looks the same from the desk, and a connection not admitted looks free.
LEMMA BarsKept ==
  ASSUME NEW s \in Servers, NEW c \in Fds, IInv, UNCHANGED file,
         requestP'[s][c].id = requestP[s][c].id,
         requestP'[s][c].wait_for_write <=> requestP[s][c].wait_for_write,
         requestP[s][c].wait_for_write =>
           /\ sock'[s][c].shown = sock[s][c].shown
           /\ (proc'[s].pc = "release" /\ proc'[s].conn_fd = c)
                <=> (proc[s].pc = "release" /\ proc[s].conn_fd = c)
  PROVE  /\ visitorBar'[<<s, c>>] = visitorBar[<<s, c>>]
         /\ viewBar'[<<s, c>>] = viewBar[<<s, c>>]
BY Bars

LEMMA BarsAreFunctions ==
  /\ visitorBar = [k \in Connections |-> visitorBar[k]]
  /\ viewBar = [k \in Connections |-> viewBar[k]]
  /\ visitorBar' = [k \in Connections |-> visitorBar'[k]]
  /\ viewBar' = [k \in Connections |-> viewBar'[k]]
BY DEF visitorBar, viewBar

\* If every connection looks the same the desk stands still.
LEMMA DeskStutters ==
  ASSUME UNCHANGED file,
         \A s \in Servers, c \in Fds :
           /\ visitorBar'[<<s, c>>] = visitorBar[<<s, c>>]
           /\ viewBar'[<<s, c>>] = viewBar[<<s, c>>]
  PROVE  UNCHANGED Desk!deskVars
<1>1. \A k \in Connections : visitorBar'[k] = visitorBar[k] /\ viewBar'[k] = viewBar[k]
  BY DEF Connections
<1>2. visitorBar' = visitorBar
  BY <1>1, BarsAreFunctions
<1>3. viewBar' = viewBar
  BY <1>1, BarsAreFunctions
<1> QED  BY <1>2, <1>3 DEF Desk!deskVars

\* If some connections become free and the others look the same, the desk
\* sees their sessions end.
LEMMA DeskEnds ==
  ASSUME UNCHANGED file, NEW K \in SUBSET Connections,
         \A s \in Servers, c \in Fds :
           IF <<s, c>> \in K
           THEN visitorBar'[<<s, c>>] = None /\ viewBar'[<<s, c>>] = None
           ELSE /\ visitorBar'[<<s, c>>] = visitorBar[<<s, c>>]
                /\ viewBar'[<<s, c>>] = viewBar[<<s, c>>]
  PROVE  Desk!DeskNext
<1> \A k \in Connections :
      IF k \in K
      THEN visitorBar'[k] = None /\ viewBar'[k] = None
      ELSE visitorBar'[k] = visitorBar[k] /\ viewBar'[k] = viewBar[k]
  BY DEF Connections
<1>1. visitorBar' = [k \in Connections |-> IF k \in K THEN None ELSE visitorBar[k]]
  BY BarsAreFunctions
<1>2. viewBar' = [k \in Connections |-> IF k \in K THEN None ELSE viewBar[k]]
  BY BarsAreFunctions
<1>3. Desk!EndAll(K)
  BY <1>1, <1>2 DEF Desk!EndAll
<1> QED  BY <1>3 DEF Desk!DeskNext

LEMMA ExitMaps ==
  ASSUME NEW s \in Servers, IInv, Exit(s)
  PROVE  Desk!DeskNext
<1> DEFINE K == {s} \X Fds
<1>1. K \in SUBSET Connections
  BY DEF Connections
<1>2. /\ file' = file
      /\ \A c \in Fds : requestP'[s][c] = FreeRequest
      /\ \A t \in Servers \ {s} : proc'[t] = proc[t] /\ requestP'[t] = requestP[t] /\ sock'[t] = sock[t]
  BY DEF Exit, IInv, TypeOK
<1>3. ASSUME NEW t \in Servers, NEW c \in Fds
      PROVE  IF <<t, c>> \in K
             THEN visitorBar'[<<t, c>>] = None /\ viewBar'[<<t, c>>] = None
             ELSE /\ visitorBar'[<<t, c>>] = visitorBar[<<t, c>>]
                  /\ viewBar'[<<t, c>>] = viewBar[<<t, c>>]
  <2>1. CASE t = s
    BY <1>2, <2>1, Bars DEF FreeRequest
  <2>2. CASE t # s
    BY <1>2, <2>2, BarsKept
  <2> QED  BY <2>1, <2>2
<1> QED  BY <1>1, <1>2, <1>3, DeskEnds

LEMMA EndSessionMaps ==
  ASSUME NEW s \in Servers, NEW c \in Fds, IInv, EndSession(s, c),
         \/ UNCHANGED proc /\ proc[s].pc = "loop"
         \/ proc' = [proc EXCEPT ![s] = Idle] /\ proc[s].conn_fd = c
  PROVE  Desk!DeskNext
<1> DEFINE K == {<<s, c>>}
<1>1. K \in SUBSET Connections
  BY DEF Connections
<1>2. /\ file' = file
      /\ requestP'[s][c] = FreeRequest
      /\ \A d \in Fds \ {c} : requestP'[s][d] = requestP[s][d] /\ sock'[s][d] = sock[s][d]
      /\ \A t \in Servers \ {s} : proc'[t] = proc[t] /\ requestP'[t] = requestP[t] /\ sock'[t] = sock[t]
  BY DEF EndSession, EndConnection, IInv, TypeOK
<1>3. proc'[s].pc = "loop" /\ \A d \in Fds \ {c} : ~(proc[s].pc = "release" /\ proc[s].conn_fd = d)
  BY DEF Idle, IInv, TypeOK
<1>4. ASSUME NEW t \in Servers, NEW d \in Fds
      PROVE  IF <<t, d>> \in K
             THEN visitorBar'[<<t, d>>] = None /\ viewBar'[<<t, d>>] = None
             ELSE /\ visitorBar'[<<t, d>>] = visitorBar[<<t, d>>]
                  /\ viewBar'[<<t, d>>] = viewBar[<<t, d>>]
  <2>1. CASE t = s /\ d = c
    BY <1>2, <2>1, Bars DEF FreeRequest
  <2>2. CASE t # s \/ d # c
    BY <1>2, <1>3, <2>2, BarsKept
  <2> QED  BY <2>1, <2>2
<1> QED  BY <1>1, <1>2, <1>4, DeskEnds

LEMMA AdmitMaps ==
  ASSUME NEW s \in Servers, NEW c \in Fds, IInv, Admit(s, c)
  PROVE  Desk!DeskNext
<1>1. TypeOK /\ RequestsOK /\ SessionLocks /\ Got(s, c, {"id"}) /\ UNCHANGED file
  BY DEF IInv, Admit
<1>2. PICK i \in Ids : i = Head(sock[s][c].inbox).id
  BY <1>1, HeadId
<1>3. /\ requestP[s][c].id = None /\ ~requestP[s][c].wait_for_write
      /\ proc[s].pc = "loop" /\ MayServe(s, i)
      /\ requestP' = [requestP EXCEPT ![s][c].id = i]
      /\ proc' = [proc EXCEPT ![s].pc = "show", ![s].conn_fd = c]
      /\ sock' = [sock EXCEPT ![s][c].inbox = Tail(@)]
  BY <1>1, <1>2 DEF Admit, AwaitsId, Select, RequestsOK, Take
<1>4. /\ requestP'[s][c].id = i /\ ~requestP'[s][c].wait_for_write
      /\ \A d \in Fds \ {c} : requestP'[s][d] = requestP[s][d] /\ sock'[s][d] = sock[s][d]
      /\ \A t \in Servers \ {s} : requestP'[t] = requestP[t] /\ sock'[t] = sock[t] /\ proc'[t] = proc[t]
      /\ proc'[s].pc = "show"
  <2>1. requestP'[s][c] = [requestP[s][c] EXCEPT !.id = i] /\ requestP[s][c] \in Requests
    BY <1>1, <1>3 DEF TypeOK
  <2>2. requestP'[s][c].id = i /\ ~requestP'[s][c].wait_for_write
    BY <1>3, <2>1 DEF Requests
  <2>3. /\ \A d \in Fds \ {c} : requestP'[s][d] = requestP[s][d] /\ sock'[s][d] = sock[s][d]
        /\ \A t \in Servers \ {s} : requestP'[t] = requestP[t] /\ sock'[t] = sock[t] /\ proc'[t] = proc[t]
    BY <1>1, <1>3 DEF TypeOK
  <2>4. proc'[s].pc = "show"
    BY <1>1, <1>3 DEF TypeOK, Procs
  <2> QED  BY <2>2, <2>3, <2>4
<1>5. ASSUME NEW t \in Servers, NEW d \in Fds, requestP[t][d].id = i
      PROVE  s \notin WriteServers /\ t \notin WriteServers
  <2>1. Holders(t, i) # {}
    BY <1>5 DEF Holders, Holds
  <2>2. /\ t \in WriteServers => flock[t][i] = "wrlck" /\ writelock[t][i]
        /\ t \in ReadServers => flock[t][i] = "rdlck"
    BY <1>1, <2>1 DEF SessionLocks, LocksMatchSessions, MarksMatch
  <2> QED  BY <1>3, <2>2, ServersAssumption DEF MayServe, CanLock, Servers
<1>6. Desk!Free(<<s, c>>, i)
  BY <1>5, Bars DEF Desk!Free, Connections
<1>7. \A k \in Connections :
        /\ visitorBar'[k] = IF k = <<s, c>> THEN i ELSE visitorBar[k]
        /\ viewBar'[k] = viewBar[k]
  <2> SUFFICES ASSUME NEW t \in Servers, NEW d \in Fds
               PROVE  /\ visitorBar'[<<t, d>>] = IF <<t, d>> = <<s, c>> THEN i ELSE visitorBar[<<t, d>>]
                      /\ viewBar'[<<t, d>>] = viewBar[<<t, d>>]
    BY DEF Connections
  <2>1. CASE t = s /\ d = c
    BY <1>3, <1>4, <2>1, Bars
  <2>2. CASE t # s \/ d # c
    <3>1. requestP'[t][d] = requestP[t][d] /\ sock'[t][d] = sock[t][d]
      BY <1>4, <2>2
    <3>2. (proc'[t].pc = "release" /\ proc'[t].conn_fd = d)
            <=> (proc[t].pc = "release" /\ proc[t].conn_fd = d)
      BY <1>3, <1>4, <2>2
    <3> QED  BY <1>1, <2>2, <3>1, <3>2, BarsKept
  <2> QED  BY <2>1, <2>2
<1>8. <<s, c>> \in Connections /\ visitorBar[<<s, c>>] = None
  BY <1>3, Bars
<1>9. Desk!Enter(<<s, c>>, i)
  <2>1. visitorBar' = [visitorBar EXCEPT ![<<s, c>>] = i]
    BY <1>7, <1>8, BarsAreFunctions
  <2>2. viewBar' = viewBar
    BY <1>7, BarsAreFunctions
  <2> QED  BY <1>1, <1>6, <1>8, <2>1, <2>2 DEF Desk!Enter
<1> QED  BY <1>8, <1>9 DEF Desk!DeskNext

LEMMA ShowMaps ==
  ASSUME NEW s \in Servers, IInv, Show(s)
  PROVE  Desk!DeskNext
<1>1. /\ TypeOK /\ HandlersOK /\ proc[s].pc = "show"
  BY DEF IInv, Show
<1>2. CASE Exit(s)
  BY <1>2, ExitMaps
<1>3. CASE ~Exit(s)
  <2>1. PICK c \in Fds : c = proc[s].conn_fd
    BY <1>1 DEF HandlersOK
  <2>2. requestP[s][c].id # None /\ ~requestP[s][c].wait_for_write
    BY <1>1, <2>1 DEF HandlersOK
  <2>3. PICK i \in Ids : i = requestP[s][c].id
    BY <1>1, <2>2 DEF TypeOK, Requests
  <2>4. /\ Delivered(s, c, file[i])
        /\ requestP' = [requestP EXCEPT ![s][c].wait_for_write = TRUE]
        /\ proc' = [proc EXCEPT ![s] = Idle]
        /\ UNCHANGED file
    BY <1>3, <2>1, <2>3 DEF Show, Sigpipe
  <2>5. file[i] \in Bookings
    BY <1>1 DEF TypeOK
  <2>6. /\ sock'[s][c].shown = file[i]
        /\ \A d \in Fds \ {c} : sock'[s][d] = sock[s][d]
        /\ \A t \in Servers \ {s} : sock'[t] = sock[t]
    BY <1>1, <2>4, <2>5, DeliveredSock
  <2>7. /\ requestP'[s][c].id = i /\ requestP'[s][c].wait_for_write
        /\ \A d \in Fds \ {c} : requestP'[s][d] = requestP[s][d]
        /\ \A t \in Servers \ {s} : requestP'[t] = requestP[t] /\ proc'[t] = proc[t]
        /\ proc'[s].pc = "loop"
    <3>1. requestP'[s][c] = [requestP[s][c] EXCEPT !.wait_for_write = TRUE] /\ requestP[s][c] \in Requests
      BY <1>1, <2>4 DEF TypeOK
    <3>2. requestP'[s][c].id = i /\ requestP'[s][c].wait_for_write
      BY <2>3, <3>1 DEF Requests
    <3> QED  BY <1>1, <2>4, <3>2 DEF TypeOK, Idle
  <2>8. \A k \in Connections :
          /\ visitorBar'[k] = visitorBar[k]
          /\ viewBar'[k] = IF k = <<s, c>> THEN file[i] ELSE viewBar[k]
    <3> SUFFICES ASSUME NEW t \in Servers, NEW d \in Fds
                 PROVE  /\ visitorBar'[<<t, d>>] = visitorBar[<<t, d>>]
                        /\ viewBar'[<<t, d>>] = IF <<t, d>> = <<s, c>> THEN file[i] ELSE viewBar[<<t, d>>]
      BY DEF Connections
    <3>1. CASE t = s /\ d = c
      BY <2>3, <2>6, <2>7, <3>1, Bars
    <3>2. CASE t # s \/ d # c
      BY <1>1, <2>4, <2>6, <2>7, <3>2, BarsKept
    <3> QED  BY <3>1, <3>2
  <2>9. /\ <<s, c>> \in Connections
        /\ visitorBar[<<s, c>>] = i /\ i # None /\ viewBar[<<s, c>>] = None
    BY <2>2, <2>3, Bars
  <2>10. Desk!See(<<s, c>>)
    <3>1. visitorBar' = visitorBar
      BY <2>8, BarsAreFunctions
    <3>2. viewBar' = [viewBar EXCEPT ![<<s, c>>] = file[visitorBar[<<s, c>>]]]
      BY <2>8, <2>9, BarsAreFunctions
    <3> QED  BY <2>4, <2>9, <3>1, <3>2 DEF Desk!See
  <2> QED  BY <2>9, <2>10 DEF Desk!DeskNext
<1> QED  BY <1>2, <1>3

LEMMA SaveMaps ==
  ASSUME CommandsFit, NEW s \in Servers, IInv, RecordsLegal, Save(s)
  PROVE  Desk!DeskNext
<1>1. TypeOK /\ SessionLocks /\ proc[s].pc = "save"
  BY DEF IInv, Save
<1>2. PICK c \in Fds, i \in Ids, modi \in Commands :
        /\ c = proc[s].conn_fd
        /\ s \in WriteServers
        /\ Holds(s, c, i)
        /\ requestP[s][c].wait_for_write
        /\ sock[s][c].shown = file[i]
        /\ proc[s].new = Apply(file[i], modi)
        /\ proc[s].new \in Bookings
        /\ Accepted(proc[s].new)
        /\ file' = [file EXCEPT ![i] = proc[s].new]
  BY SaveStores
<1>3. file[i] \in Bookings /\ Legal(file[i])
  BY <1>1 DEF TypeOK, RecordsLegal
<1>4. /\ proc[s].new = Desk!Plus(file[i], modi)
      /\ Sum(proc[s].new) = Total(proc[s].new)
  BY <1>2, <1>3, ExactSums
<1>5. Desk!Legal(Desk!Plus(file[i], modi))
  BY <1>2, <1>4 DEF Accepted, Desk!Legal, Total, Desk!Total, MaxItems, Desk!MaxItems, Items, Desk!Items
<1>6. /\ UNCHANGED <<requestP, sock>>
      /\ proc'[s].pc = "release" /\ proc'[s].conn_fd = c
      /\ \A t \in Servers \ {s} : proc'[t] = proc[t]
      /\ file'[i] = proc[s].new /\ \A j \in Ids \ {i} : file'[j] = file[j]
  BY <1>1, <1>2 DEF Save, TypeOK, Procs
<1>7. requestP[s][c].id = i /\ i # None
  BY <1>2, NoneAssumption DEF Holds
<1>8. \A k \in Connections :
        /\ visitorBar'[k] = visitorBar[k]
        /\ viewBar'[k] = IF k = <<s, c>> THEN proc[s].new ELSE viewBar[k]
  <2> SUFFICES ASSUME NEW t \in Servers, NEW d \in Fds
               PROVE  /\ visitorBar'[<<t, d>>] = visitorBar[<<t, d>>]
                      /\ viewBar'[<<t, d>>] = IF <<t, d>> = <<s, c>> THEN proc[s].new ELSE viewBar[<<t, d>>]
    BY DEF Connections
  <2>1. visitorBar'[<<t, d>>] = visitorBar[<<t, d>>]
    BY <1>6, Bars
  <2>2. CASE t = s /\ d = c
    BY <1>2, <1>6, <1>7, <2>1, <2>2, Bars
  <2>3. CASE t # s \/ d # c
    <3>1. requestP[t][d].id # i
      BY <1>1, <1>2, <2>3, LocksExclude DEF WriterExcludesAll, Holds
    <3>2. requestP[t][d].wait_for_write => requestP[t][d].id \in Ids \ {i}
      BY <1>1, <3>1 DEF IInv, RequestsOK, TypeOK, Requests
    <3>3. (proc'[t].pc = "release" /\ proc'[t].conn_fd = d)
            <=> (proc[t].pc = "release" /\ proc[t].conn_fd = d)
      BY <1>1, <1>6, <2>3
    <3> QED  BY <1>6, <2>1, <2>3, <3>2, <3>3, Bars
  <2> QED  BY <2>1, <2>2, <2>3
<1>9. /\ <<s, c>> \in Connections /\ <<s, c>> \in WriteServers \X Fds
      /\ visitorBar[<<s, c>>] = i /\ viewBar[<<s, c>>] = file[i] /\ file[i] # None
  <2>1. viewBar[<<s, c>>] = file[i]
    BY <1>1, <1>2, <1>7, Bars
  <2>2. file[i] # None
    BY <1>3, NoneIsNoBooking
  <2> QED  BY <1>2, <1>7, <2>1, <2>2, Bars
<1>10. Desk!Update(<<s, c>>, modi)
  <2>1. visitorBar' = visitorBar
    BY <1>8, BarsAreFunctions
  <2>2. viewBar' = [viewBar EXCEPT ![<<s, c>>] = proc[s].new]
    BY <1>8, <1>9, BarsAreFunctions
  <2> QED  BY <1>2, <1>4, <1>5, <1>7, <1>9, <2>1, <2>2 DEF Desk!Update
<1> QED  BY <1>9, <1>10 DEF Desk!DeskNext

\* Every other step leaves the desk as it is.
LEMMA QuietMaps ==
  ASSUME IInv, UNCHANGED file,
         \A s \in Servers, c \in Fds :
           /\ requestP'[s][c].id = requestP[s][c].id
           /\ requestP'[s][c].wait_for_write <=> requestP[s][c].wait_for_write
           /\ requestP[s][c].wait_for_write =>
                /\ sock'[s][c].shown = sock[s][c].shown
                /\ (proc'[s].pc = "release" /\ proc'[s].conn_fd = c)
                     <=> (proc[s].pc = "release" /\ proc[s].conn_fd = c)
  PROVE  UNCHANGED Desk!deskVars
<1>1. ASSUME NEW s \in Servers, NEW c \in Fds
      PROVE  /\ visitorBar'[<<s, c>>] = visitorBar[<<s, c>>]
             /\ viewBar'[<<s, c>>] = viewBar[<<s, c>>]
  BY BarsKept
<1> QED  BY <1>1, DeskStutters

LEMMA CloseMaps ==
  ASSUME NEW s \in Servers, NEW c \in Fds, IInv, AwaitsId(s, c), EndConnection(s, c),
         UNCHANGED <<proc, file>>
  PROVE  UNCHANGED Desk!deskVars
<1>1. TypeOK /\ requestP[s][c].id = None /\ ~requestP[s][c].wait_for_write
  BY DEF IInv, AwaitsId, Select, RequestsOK
<1>2. /\ requestP'[s][c] = FreeRequest
      /\ \A d \in Fds \ {c} : requestP'[s][d] = requestP[s][d] /\ sock'[s][d] = sock[s][d]
      /\ \A t \in Servers \ {s} : requestP'[t] = requestP[t] /\ sock'[t] = sock[t]
  BY <1>1 DEF EndConnection, TypeOK
<1>3. \A t \in Servers, d \in Fds :
        /\ requestP'[t][d].id = requestP[t][d].id
        /\ requestP'[t][d].wait_for_write <=> requestP[t][d].wait_for_write
        /\ requestP[t][d].wait_for_write => sock'[t][d].shown = sock[t][d].shown
  BY <1>1, <1>2 DEF FreeRequest
<1> QED  BY <1>3, QuietMaps

\* A socket changes, and not what it has been shown.
LEMMA InboxMaps ==
  ASSUME NEW s \in Servers, NEW c \in Fds, NEW k, IInv,
         sock' = [sock EXCEPT ![s][c] = k], k.shown = sock[s][c].shown,
         UNCHANGED <<proc, requestP, file>>
  PROVE  UNCHANGED Desk!deskVars
<1>1. \A t \in Servers, d \in Fds : sock'[t][d].shown = sock[t][d].shown
  BY DEF IInv, TypeOK
<1> QED  BY <1>1, QuietMaps

LEMMA AcceptMaps ==
  ASSUME NEW s \in Servers, NEW c \in Fds, IInv, Accept(s, c)
  PROVE  UNCHANGED Desk!deskVars
<1>1. /\ requestP' = [requestP EXCEPT ![s][c].open = TRUE]
      /\ sock' = [sock EXCEPT ![s][c].peer = "open"]
      /\ UNCHANGED <<proc, file>>
      /\ TypeOK
  BY DEF Accept, IInv
<1>2. requestP[s][c] \in Requests /\ sock[s][c] \in Socks
  BY <1>1 DEF TypeOK
<1> DEFINE r == [requestP[s][c] EXCEPT !.open = TRUE]
           k == [sock[s][c] EXCEPT !.peer = "open"]
<1>3. /\ r.id = requestP[s][c].id
      /\ r.wait_for_write <=> requestP[s][c].wait_for_write
      /\ k.shown = sock[s][c].shown
  BY <1>2 DEF Requests, Socks
<1>4. requestP' = [requestP EXCEPT ![s][c] = r] /\ sock' = [sock EXCEPT ![s][c] = k]
  BY <1>1
<1> HIDE DEF r, k
<1>5. \A t \in Servers, d \in Fds :
        /\ requestP'[t][d].id = requestP[t][d].id
        /\ requestP'[t][d].wait_for_write <=> requestP[t][d].wait_for_write
        /\ sock'[t][d].shown = sock[t][d].shown
  BY <1>1, <1>3, <1>4 DEF TypeOK
<1> QED  BY <1>1, <1>5, QuietMaps

LEMMA ComputeMaps ==
  ASSUME NEW s \in Servers, NEW c \in Fds, IInv, Compute(s, c)
  PROVE  UNCHANGED Desk!deskVars
<1> DEFINE k == [sock[s][c] EXCEPT !.inbox = Tail(@)]
<1>1. /\ TypeOK /\ proc[s].pc = "loop"
      /\ sock' = [sock EXCEPT ![s][c] = k]
      /\ UNCHANGED <<requestP, file>>
  BY DEF Compute, IInv, AwaitsMore, Select, Take
<1>2. proc'[s].pc = "check" /\ \A t \in Servers \ {s} : proc'[t] = proc[t]
  BY <1>1 DEF Compute, TypeOK
<1>3. k.shown = sock[s][c].shown
  BY <1>1 DEF TypeOK, Socks
<1> HIDE DEF k
<1>4. \A t \in Servers, d \in Fds : sock'[t][d].shown = sock[t][d].shown
  BY <1>1, <1>3 DEF TypeOK
<1> QED  BY <1>1, <1>2, <1>4, QuietMaps

LEMMA AnnounceMaps ==
  ASSUME NEW s \in Servers, IInv, Announce(s)
  PROVE  Desk!DeskNext \/ UNCHANGED Desk!deskVars
<1>1. TypeOK /\ HandlersOK /\ proc[s].pc = "check"
  BY DEF IInv, Announce
<1>2. CASE Exit(s)
  BY <1>2, ExitMaps
<1>3. CASE ~Exit(s)
  <2>1. PICK c \in Fds : c = proc[s].conn_fd
    BY <1>1 DEF HandlersOK
  <2>2. /\ Delivered(s, c, sock[s][c].shown)
        /\ proc' = [proc EXCEPT ![s].pc = "save"]
        /\ UNCHANGED <<requestP, file>>
    BY <1>3, <2>1 DEF Announce, Sigpipe
  <2>3. sock[s][c].shown \in Bookings \cup {None}
    BY <1>1 DEF TypeOK, Socks
  <2>4. \A t \in Servers, d \in Fds : sock'[t][d].shown = sock[t][d].shown
    BY <1>1, <2>2, <2>3, DeliveredSock
  <2>5. proc'[s].pc = "save" /\ \A t \in Servers \ {s} : proc'[t] = proc[t]
    BY <1>1, <2>2 DEF TypeOK, Procs
  <2> QED  BY <1>1, <2>2, <2>4, <2>5, QuietMaps
<1> QED  BY <1>2, <1>3

LEMMA RestartMaps ==
  ASSUME NEW s \in Servers, IInv, Restart(s)
  PROVE  UNCHANGED Desk!deskVars
<1>1. /\ proc[s].pc = "down" /\ proc'[s].pc = "loop"
      /\ \A t \in Servers \ {s} : proc'[t] = proc[t]
      /\ UNCHANGED <<requestP, sock, file>>
  BY DEF Restart, IInv, TypeOK, Idle
<1> QED  BY <1>1, QuietMaps

LEMMA StepMaps ==
  ASSUME CommandsFit, IInv, RecordsLegal, [Next]_vars
  PROVE  Desk!DeskNext \/ UNCHANGED Desk!deskVars
<1> DEFINE Maps == Desk!DeskNext \/ UNCHANGED Desk!deskVars
<1>1. /\ TypeOK /\ HandlersOK
      /\ \A s \in Servers, c \in Fds : AwaitsMore(s, c) => proc[s].pc = "loop"
  BY DEF IInv, AwaitsMore, Select
<1>2. ASSUME NEW s \in Servers, NEW c \in Fds,
             NoNewline(s, c) \/ HangUp(s, c) \/ RefuseId(s, c) \/ Locked(s, c)
      PROVE  Maps
  BY <1>2, ExitMaps, CloseMaps DEF NoNewline, HangUp, RefuseId, Locked, Sigpipe
<1>3. ASSUME NEW s \in Servers, NEW c \in Fds, Leave(s, c) \/ BadCommand(s, c) PROVE Maps
  <2>1. CASE Exit(s)
    BY <2>1, ExitMaps
  <2>2. CASE ~Exit(s)
    <3>1. EndSession(s, c) /\ UNCHANGED proc /\ proc[s].pc = "loop"
      BY <1>1, <1>3, <2>2 DEF Leave, BadCommand, Sigpipe
    <3> QED  BY <3>1, EndSessionMaps
  <2> QED  BY <2>1, <2>2
<1>4. ASSUME NEW s \in Servers, Reject(s) \/ Release(s) PROVE Maps
  <2>1. CASE Exit(s)
    BY <2>1, ExitMaps
  <2>2. CASE ~Exit(s)
    <3>1. PICK c \in Fds : c = proc[s].conn_fd
      BY <1>1, <1>4 DEF Reject, Release, HandlersOK
    <3>2. EndSession(s, c) /\ proc' = [proc EXCEPT ![s] = Idle]
      BY <1>4, <2>2, <3>1 DEF Reject, Release, Sigpipe
    <3> QED  BY <3>1, <3>2, EndSessionMaps
  <2> QED  BY <2>1, <2>2
<1>5. ASSUME NEW s \in Servers, NEW c \in Fds, Ignore(s, c) PROVE Maps
  <2> DEFINE k == [sock[s][c] EXCEPT !.inbox = Tail(@)]
  <2>1. sock' = [sock EXCEPT ![s][c] = k] /\ UNCHANGED <<proc, requestP, file>>
    BY <1>5 DEF Ignore, Take
  <2>2. k.shown = sock[s][c].shown
    BY <1>1 DEF TypeOK, Socks
  <2> HIDE DEF k
  <2> QED  BY <2>1, <2>2, InboxMaps
<1>6. ASSUME NEW s \in Servers, Handle(s) PROVE Maps
  BY <1>2, <1>3, <1>4, <1>5, <1>6, AdmitMaps, ShowMaps, ComputeMaps, AnnounceMaps, SaveMaps
     DEF Handle
<1>7. ASSUME NEW s \in Servers, Arrive(s) PROVE Maps
  BY <1>7, AcceptMaps, ExitMaps DEF Arrive, AcceptFails, GreetingFails
<1>8. ASSUME NEW s \in Servers, NEW c \in Fds, NEW line \in Lines, Send(s, c, line) PROVE Maps
  <2> DEFINE k == [sock[s][c] EXCEPT !.inbox = Append(@, line)]
  <2>1. sock' = [sock EXCEPT ![s][c] = k] /\ UNCHANGED <<proc, requestP, file>>
    BY <1>8 DEF Send
  <2>2. k.shown = sock[s][c].shown
    BY <1>1 DEF TypeOK, Socks
  <2> HIDE DEF k
  <2> QED  BY <2>1, <2>2, InboxMaps
<1>9. ASSUME NEW s \in Servers, NEW c \in Fds, Close(s, c) PROVE Maps
  <2>1. PICK how \in {"closed", "reset"} : sock' = [sock EXCEPT ![s][c].peer = how]
    BY <1>9 DEF Close
  <2> DEFINE k == [sock[s][c] EXCEPT !.peer = how]
  <2>2. sock' = [sock EXCEPT ![s][c] = k] /\ UNCHANGED <<proc, requestP, file>>
    BY <1>9, <2>1 DEF Close
  <2>3. k.shown = sock[s][c].shown
    BY <1>1 DEF TypeOK, Socks
  <2> HIDE DEF k
  <2> QED  BY <2>2, <2>3, InboxMaps
<1>10. ASSUME NEW s \in Servers, Client(s) PROVE Maps
  BY <1>8, <1>9, <1>10 DEF Client
<1>11. CASE Next
  BY <1>6, <1>7, <1>10, <1>11, ExitMaps, RestartMaps DEF Next, Kill
<1>12. CASE UNCHANGED vars
  BY <1>12, QuietMaps DEF vars
<1> QED  BY <1>11, <1>12

LEMMA InitMaps == Init => Desk!DeskInit
<1> SUFFICES ASSUME Init PROVE Desk!DeskInit
  OBVIOUS
<1>1. \A k \in Connections : visitorBar[k] = None /\ viewBar[k] = None
  <2> SUFFICES ASSUME NEW s \in Servers, NEW c \in Fds
               PROVE  visitorBar[<<s, c>>] = None /\ viewBar[<<s, c>>] = None
    BY DEF Connections
  <2>1. requestP[s][c].id = None /\ ~requestP[s][c].wait_for_write
    BY DEF Init, FreeRequest
  <2> QED  BY <2>1, Bars
<1>2. /\ visitorBar = [k \in Connections |-> None]
      /\ viewBar = [k \in Connections |-> None]
  BY <1>1, BarsAreFunctions
<1> QED  BY <1>2 DEF Init, Desk!DeskInit

\* If the amounts that clients type fit an int, the servers together are a
\* booking desk, through every crash and every interleaving.
THEOREM Refinement ==
  ASSUME CommandsFit
  PROVE  Spec => DeskSpec
<1>1. Init => Desk!DeskInit
  BY InitMaps
<1>2. IInv /\ RecordsLegal /\ [Next]_vars => [Desk!DeskNext]_(Desk!deskVars)
  BY StepMaps
<1>3. Spec => []IInv /\ []RecordsLegal
  BY Invariance, Legality
<1> QED  BY <1>1, <1>2, <1>3, PTL DEF Spec, DeskSpec, Desk!DeskSpec
=============================================================================
