# Verification of 2022-SP-HW

This directory holds TLA+ specifications of the programs of this repository, TLC
configurations that check them on small instances, and proofs checked by TLAPS.

## 1. The system

The repository has four independent C programs. They share no code and do not talk to
each other; each is a small concurrent system of its own.

| Program | Parts | Hard behaviour | Here |
|---|---|---|---|
| `csiebooking/` | read servers and write servers, one file, `fcntl` record locks | several processes on one file, client disconnects, process deaths | modelled, checked, proved |
| `thread-library/` | a scheduler, a signal handler, three thread bodies | preemption by signals, two queues in arrays, input from FIFOs | modelled, checked, proved |
| `simple-movies-recommendation-system/` | filter, threaded and forked merge sort | threads and processes that sort halves of one array, an unlocked counter | modelled, checked, proved |
| `pvp-championship/` | 14 battles and 15 players in a tree of processes | pipes, FIFOs, waiting for children | modelled, checked, proved |

### csiebooking

`server.c` is compiled twice: with `READ_SERVER` it shows the booking of a user, with
`WRITE_SERVER` it also changes it. Any number of each run at the same time on the file
`bookingRecord`. State of a process: the request table `requestP` (one entry per
descriptor: the user's id and whether the id has been read), `writelock[]` (a flag per
user, write build), `readlock[]` (a count per user, read build). State outside: the
file, the record locks in the kernel, the TCP connections. Operations: accept a
connection; read the id, test and take the lock, show the booking or answer `Locked.`;
read the second line, then leave, refuse, or compute, check, announce, save and release.
The processes interact only through the file and its locks, and a record lock excludes
other *processes* only.

What makes it correct: a user being written is served to nobody else; flags, counts and
kernel locks agree with the sessions on every path that ends one; what a session was
shown stays true until it books; no update is lost; bookings stay between 0 and 15
items; a client that was told of an update finds it in the file; a lock does not
outlive its client.

### thread-library

State: `ready_queue`, `rq_size`, `rq_current`, `waiting_queue`, `wq_size`, one `tcb` per
thread (its environment, argument, loop variables and input buffer), the signal mask,
pending signals, the alarm. The scheduler is entered by `longjmp(sched_buf, why)` from
the signal handler (1), `async_read` (2) and `thread_exit` (3), wakes readers whose FIFO
is readable, rotates or shrinks the ready queue, and jumps to the environment of
`RUNNING`. Threads are preempted only in two windows of `thread_yield`, one per signal.

What makes it correct: every live thread is in exactly one entry of one queue;
`rq_current` names a thread whenever it is used; threads resume behind the `setjmp` they
executed last; the scheduler always runs with both signals blocked; alarms never stop;
every ready thread runs again; a reader with input wakes up, and one that runs has its
input; results survive switches.

### simple-movies-recommendation-system

State: the movie table, the requests, per request a `filtered_movies` array, and
`num_of_threads`, shared by all threads without a lock. A request filters the table
(`filter`, which also adds up the scores), sorts by score and name, and prints. `tserver`
has one thread per request and gives left halves of the sort to new threads if the
counter allows; `pserver` handles one request, over shared memory, and forks for every
left half.

What makes it correct: the titles printed are the matching ones in the right order in
every interleaving; calls that run side by side touch different indices; a half is
complete, and waited for, before it is merged; nobody works on a freed list; nobody
waits in a circle.

### pvp-championship

State: per battle the two statuses, who attacked, four pipe ends and the children it has
waited for; per player its status and original HP; the FIFOs from real players to
agents. Battles fork two children each and exchange statuses in rounds (playing mode);
when a battle that is not the root is over it waits for a child, which can only be the
loser's side, and then carries messages between the winner's side and its parent (passing
mode). The root waits for both sides, in the order in which they end. Losers of Zone A go through a FIFO to
an agent, a leaf of Zone B.

What makes it correct: no circular wait and no message to a process that has gone; each
status lives in one process; a battle that passes messages has waited for the loser and
not for the winner; results depend on the file
and not on which battle is faster; every process ends and one champion is printed.

## 2. Modules

| Module | What it is |
|---|---|
| `BookingDesk` | what the csieBooking servers promise together: readers side by side, a writer alone, views that stay true, lawful updates |
| `CsieBooking` | the servers, processes dying and restarting included |
| `CsieBookingProperties` | their invariants, the inductive invariant, the refinement mapping to `BookingDesk`, liveness |
| `CsieBookingProofs` | theorems about them |
| `MCCsieBooking` | instances for TLC |
| `ThreadStates` | running, ready and waiting threads and those that are gone: a switch loses nobody and leaves the processor idle only when nobody is ready; every ready thread gets its share |
| `ThreadLibrary` | scheduler, handler, thread macros, thread bodies, FIFOs and signals |
| `ThreadLibraryProperties` | invariants, the mapping to `ThreadStates`, liveness |
| `ThreadLibraryProofs` | theorems about them |
| `MCThreadLibrary` | instances for TLC |
| `Recommender` | what the movie server promises: each request is answered once, with its movies in the right order |
| `MovieLists` | the filtered list, `merge`, and the library's `sort` |
| `MovieServer` | `tserver` and `pserver`: main, the requests, both merge sorts, the counter, the memory of the lists |
| `MovieServerProperties` | invariants, the mapping to `Recommender`, liveness |
| `MovieServerProofs` | theorems about the ranges of calls and the life of the lists |
| `MovieListsProofs` | theorems about `merge` and the library's `sort`, without any requests |
| `MovieAnswersProofs` | theorems about what the lists hold, and the refinement of `Recommender` |
| `MCMovieServer` | instances for TLC |
| `Tournament` | who meets whom, without processes |
| `Championship` | battles, players and agents over pipes and FIFOs |
| `ChampionshipProperties` | invariants, the rules played without processes, the mapping to `Tournament`, liveness |
| `ChampionshipProofs` | theorems about pipes and about waiting for children, and lemmas about what the rules lead to |
| `ChampionshipPlacesProofs` | theorems about who is where, the refinement of `Tournament`, and who wins |
| `MCChampionship` | instances for TLC |
| `RecursionProofs` | lemmas for the other proofs: induction over numbers, and functions defined step by step or along a relation without endless descent |

Definitions marked `Mutant:` are plausible bugs; nothing refers to them. `PROJECT.json`
names, for each property, a mutant that makes TLC report it.

### How CsieBooking corresponds to server.c

One iteration of the loop in `main` is one action, unless another process could see its
middle: then `proc[s].pc` says where the process is. `Admit` ends with the lock taken
(line 232 or 257), `Show` reads and sends the record, `Compute` reads it again and adds,
`Reject` or `Announce` (line 368) follow the check, `Save` is line 370, `Release` lines
371-373. `Select` is `select` and the scan from the lowest descriptor; `Accept` has no
order against it, because the loop looks at the listening socket first and connections
arrive at any time.

Abstractions:

- A client's `connect` and the server's `accept` are one step. Of the greeting only the
  failure is modelled: a client that has reset the connection before line 185 may raise
  SIGPIPE there and end the server (`GreetingFails`); if its reset comes later, it is
  `Accept` followed by `Close`. The host name is left out.
- What one `read` delivers is an element of `AllLines`: an id, a command, `Exit`,
  another line, data without a newline, Ctrl-C. A second line in the same read is dropped
  by `handle_read`; it changes nothing and is not represented.
- `Exit(s)` stands for every end of a process (`ERR_EXIT`, SIGPIPE, kill): memory,
  connections and record locks are gone, the file stays. A write to a connection that
  its client has reset may raise SIGPIPE before or be ignored after the reset arrives, so
  both outcomes are there.
- Unlocking and closing at the end of a session are one step, `EndSession`: the process
  does nothing between them that another could tell apart.
- `temp` and the message buffers are filled and used inside one handler. `id` and
  `requestP.id - 902000` are the same user.
- `int` has `2 * IntHalf` values and wraps: the Makefile builds without optimisation.
- Reading and writing 16 bytes of a local file is taken to be whole.

### How ThreadLibrary corresponds to the C files

`pc` is where the one flow of control is: `"setup"`, `"yield"` and `"read"` are the
places behind the three `setjmp`s of a thread, the two windows are inside
`thread_yield`, `"sched"` is the scheduler entered with `cause`, `"idle"` its polling
loop. The queues are sequences, since entries beyond `rq_size` and `wq_size` are never
used; `cur` counts from 0 like `rq_current`. Code that runs with both signals blocked is
one action: `Schedule` (lines 32-119), `Iterate` and `ReadAndIterate` (a loop body up to
`thread_exit` or the first window), `AsyncRead`. `Sighandler` is the delivery of a
pending signal the mask admits: `signal()` also blocks the signal itself and `longjmp`
does not restore the mask. A jump to an empty entry ends in `pc = "crash"`.

The loops that wake readers (lines 48-56 and 103-110) move whoever sleeps on to the front
of `waiting_queue` and clear the entry he came from, also when that is the entry he was
moved to. A reader who sleeps in front of the first one woken is overwritten with NULL:
`Asleep` puts `Null` there, and the next call of the scheduler dereferences it and
crashes (`Schedule`). That takes two readers; `main` creates at most one.

Abstractions:

- `longjmp` into a function that has returned is undefined in C. The model takes it to
  resume that function's code with its stack variables lost, which is what the library
  relies on (`threadtools.h` 24) and what the build does: no thread keeps a local across
  a switch.
- A writer puts whole lines of five bytes, as `sample_execution.sh` does; `buf` holds
  the number of the last one. End of file is `writer = "closed"` with nothing left.
- Results are integers without a width. A loop whose argument is 0 never ends; its
  counter and results stop changing at `MaxLoops`.
- `sleep(1)` and time itself are left out: an alarm fires at any moment after it was set.

### How MovieServer corresponds to server.c

`build` says which program it is; both are in one module because they share `filter`,
the shape of the merge sort and all that must be true of it. A call of the merge sort is
named by its path in the recursion, so `call[r][p]` is the stack frame or the thread of
one range. In `tserver` a call goes start, room (line 174 saw room), more (the counter is
loaded), both (the thread is created, line 180, and the right half called), less (joined,
the counter is loaded), done; or start, first, second, done when line 174 saw no room.
In `pserver` it goes start, both (line 235), done. `main.pc` and `req[r]` say the same of
the main thread and of `handle_request`.

Abstractions:

- A title is its place in alphabetical order, plus how often `add_secret` was applied to
  it. The suffix that `add_secret` appends is the same for all titles, so the order of
  two titles that were both marked does not change; that every half is marked exactly
  once when it is merged is part of `HalvesWait`.
- The profiles are integers and are already multiplied in `score`, and each product is
  added to the score in one step, although the code adds them one component at a time.
- The Makefile builds without optimisation, so `num_of_threads++` is a load, an addition
  and a store. Other threads can run between the load and the store.
- `unsigned int` has `CountMod` values and wraps.
- `malloc` is what glibc does with blocks of this size: they are mapped and zero until
  the first is freed; from then on they come from the heap, where a block that was freed
  later may be handed out again with its old contents. `filter` adds to what it finds.
- No score is negative: `lib.c` 82 asserts it, so what `sort` does to a list with two
  negative scores (it aborts) is outside the models (`ScoresAssumption`).
- Code that touches only a call's own range is one step. `NoOverlap` is the justification:
  ranges of calls that run side by side are disjoint, so nobody can tell.
- A failing `fork`, `pthread_create` or `mmap` is left out; the code looks at none of them.

A request that matches nothing leaves the range 0..-1. It is not a leaf, its halves are
0..0 and 1..-1, and the library's `sort` exits on a null title (`lib.c` 56) or reads
a title in front of the range (line 26): `SortNothing` ends the process, with all other
requests. If the list stands in used memory, `title[0]` need not be null. `SortStale` goes
on then with the ranges that look at it alone, 0..0 and 1..0. The range 1..-1 looks in
front of the array and ends the process in any case, so no such request is answered.

### How Championship corresponds to battle.c and player.c

`pc[n]` is the call process `n` blocks in. In `battle.c`: `"first"` and `"second"` are the
two reads of a round (line 131), `"reap"` the first `wait(NULL)` (line 155), `"pass"` and
`"back"` the two reads of passing mode, `"last"` the second `wait(NULL)`. In `player.c`:
`"start"` reads the file or is about to open the FIFO, `"open"` is an `open` of a FIFO,
`"read"` the read from the battle above. Between two such calls a process touches nothing
that others see except the ends of its pipes, so everything up to the next one is one
step. `up[n]` and `down[n]` are the two pipes between `n` and its parent.

Abstractions:

- A status is written and read whole: `sizeof(Status)` is far below `PIPE_BUF`.
- Opening a FIFO is a rendezvous: `WriteFifo` needs the agent to have reached its `open`.
- `wait(NULL)` returns any child that has exited; which one is a choice.
- The log files are left out. An agent's `fclose` of a `FILE` pointer it never set is its
  last statement; its parent's `wait` returns whatever becomes of it.
- HP and ATK of the file are positive. With no ATK on either side a battle has no end.

## 3. Runs

`CsieBooking` (`MaxInbox = 1` everywhere: one line waits on a connection while another
is handled; a longer queue only repeats what a refill does).

| Run | Instance | Question |
|---|---|---|
| `booking_sessions` | one read and one write server, 2 descriptors each, 1 user, the write server may be killed, ids and commands only; 1.9 million states | do marks, locks, sessions and views agree on every path, and is a writer alone inside one process, where the kernel lock does not help? Two descriptors are what the count and the flag need |
| `booking_threeservers` | one read, two write servers, 1 descriptor each, every kind of line, kills; 849 000 states | do marks, locks and sessions agree through partial lines, `Exit` and Ctrl-C too, is a writer alone across processes, is every update made to the record as it is when it is written and lawful, is `BookingDesk` implemented? Two writers and a reader are all the pairs of builds that can meet on a record |
| `booking_liveness` | one write server, 2 descriptors, every kind of line, nobody killed, fair | does a session end after its client? does the file hold what clients were told when servers end by themselves only? |
| `booking_told_killed` | a write server that may be killed | violated: see findings |
| `booking_overflow` | amounts near `IntHalf` | violated |
| `booking_full_table` | one descriptor, a second client | violated |

Users are independent of each other except that they share descriptors, so one or two
suffice. The commands are chosen at the limits: from 1 item to 15, to below 0, and
from 15 over the limit.

Fairness of `FairSpec`: a server with an enabled handler goes on executing, as `select`
polls and no call blocks. The code serves new connections first and then the lowest
ready descriptor, so it justifies no fairness towards one connection; `Starved` names
those two excuses and the property has no other. That a session is not starved by the
loop is therefore not shown, and the code does not promise it.

`ThreadLibrary`:

| Run | Instance | Question |
|---|---|---|
| `threads_switching` | `./main 1 4 4 3`, numbers -2, 1, 3, SIGTSTP and alarms at any time, writers keep writing, fair; 84 000 states | do all threads exit, is nobody lost or resumed in the wrong place, are signals blocked, does a reader that is ready have its input, are alarms, input and results right? |
| `threads_fair` | `./main 1 0 4 2`: fibonacci never ends, writers may leave, fair | does the library implement `ThreadStates`: is no thread lost in a switch, is the processor idle only when nobody is ready, does every ready thread run again? Does a reader with input wake up? |

`main` creates at most one thread of each kind, so these are the whole library apart
from larger arguments; the arguments let every thread be preempted, woken and idle at
every position of the queues. `MaxNumbers` is the reader's argument: it reads no more.
Deadlock is not checked here, since the process returns, and a reader whose writer
stays silent polls for ever. With two readers `NoThreadLost`, `NoNullJump` and
`FairThreads` would not hold: a sleeper can be overwritten (see `Asleep` above),
`scheduler.c` 84-116 has no case for two waiting threads, and two readers can take
turns on one entry of the ready queue. `main` never creates them. `ReadyHasInput` is
asked while writers stay, since at end of file a reader is ready without input (see the
end of the findings); `ThreadStates` has no notion of input, so `FairThreads` can be asked
with writers that leave.

Fairness: the process runs whenever it can, an alarm that was set fires, and for
`Terminates` writers keep writing. SIGTSTP is not assumed to arrive.

`MovieServer`:

| Run | Instance | Question |
|---|---|---|
| `movies_sorts` | `tserver` with two requests and `pserver` with one; five movies, two pairs of equal titles; the first request matches any of four movies with any scores of 0 and 1, the second one movie, and one table where two longer requests meet; depth 2, at most 3 threads, `LeafSize` 2; 319 000 states | do calls keep apart, are halves complete when merged, is every answer right in every interleaving, does the server end? |
| `movies_threadlimit` | two longer requests, at most 3 threads | violated |
| `movies_stale` | three requests for two movies, depth 1 | violated |

Depth 2 has calls that are roots, inner and leaves, both of left and of right halves, and
ranges of length 1 that end before the last level; deeper levels repeat the middle one.
Four movies of two scores and three titles give every outcome of a comparison, ties of
score and of title included. With at most 3 threads the first request finds room, loses
it, and loses increments to the race. `Recommends` is checked with two requests:
a third one may be given used memory, as `movies_stale` shows.

Fairness: the main thread goes on when it can, and for each request some thread or
process that can go on does. That is less than a fair scheduler gives.

`Championship`:

| Run | Instance | Question |
|---|---|---|
| `championship_all` | four real players, battles A, B, C, G, H, M with three agents; 33 player files; 169 000 states | are statuses in one place and messages never lost, has a battle that passes messages waited for the loser's side alone, do results follow the rules, is `Tournament` implemented, do all processes end? |

The tree is the one of `battle.c` with a level less. It has every kind of battle: a root,
one of Zone A above two battles (B), two of Zone A above players (G, H), one of Zone B
between two agents (M) and one between a battle and an agent (C). A message passes up to two
battles in passing mode. The files give ties of HP, attacks that kill exactly or by more, doubled
attacks, odd differences that are halved, and losers who win in Zone B. Deadlock is
checked: the only state without a step of a process is the one where all have exited.

Fairness: every process that does not block goes on.

`ByTheRules` compares the processes with results computed by the same definition of one
round (`Round`). It shows that results depend on the file alone; that a round itself
follows `battle.c` 59-74 and 136 is a matter of reading the two beside each other.

### Findings

- `booking_told_killed`: the reply is sent before the file is written. A write server
  killed in between leaves a client with an update that does not exist.
- `booking_overflow`: the sum is an `int`, so huge amounts get past the limit of 15.
- `booking_full_table`: the code tests for `ENFILE` where a full table of its own gives
  `EMFILE`; one client too many ends the server.
- `movies_threadlimit`: main creates its request threads without looking at the counter,
  and two threads can see the same room before either takes it, so more than
  `MAX_THREAD` threads run. With four threads and a limit of three, an increment is lost
  between main and the first request.
- `movies_stale`: `filter` adds scores to memory that `malloc` does not clear. As soon as a
  request has freed its list, a later one may get the old scores as a start.

Two more things the models say and no run is spent on: after a writer has closed its
FIFO, end of file makes a reader of `thread-library` ready without input (`Readable`), and
it takes the number in `buf` once more, although that README calls a thread ready that
"has all the input it needs"; and a keyword that no title contains ends the whole movie
server (`SortNothing`).

## 4. Proofs

`CsieBookingProofs` proves, for any set of servers, users, descriptors, lines and
commands, with kills and restarts:

- `Invariance`: `Spec => []IInv`. `LocksMatchSessions` is not inductive. One needs to
  know that the kernel never grants conflicting locks (`KernelLocks`), that a writing
  process serves a user on one connection (`OneWriter`), that a session exists exactly
  between lock and release (`RequestsOK`), and what an interrupted handler has in hand
  (`HandlersOK`). `ShownIsCurrent` belongs to the invariant because the new booking is
  computed from the file and must be what the client saw.
- `TypeCorrect`, `LocksCorrect`, `Exclusion`, `Freshness`: parts or consequences of it.
- `UpdatesKept` (`NoLostUpdate`): only `Save` writes the file, and what it writes is the
  client's change applied to the record as the file has it at that moment. This needs
  `ShownIsCurrent`: between the check of a booking and its write nobody else changed it.
- `Legality` (`RecordsLegal`) and `Refinement` (`Spec => DeskSpec`): under the
  assumption `CommandsFit`, that no sum can leave an `int`. `booking_overflow` shows the
  assumption is needed. The refinement maps an open session to a visitor and the
  booking it was shown, or has just saved, to its view; `Save` is the desk's `Update`,
  every end of sessions, a crash too, is `EndAll`.

- `Honesty` (`ToldIsSaved`): when no write server may be killed. Between the reply and
  the write of the file a handler then has no way to end, and what it told is what it
  writes (`Announced`, in the proofs). `booking_told_killed` shows that the hypothesis is
  needed.

Each action has its own lemma; the steps of all are put together in `NextInv` and
`StepMaps`. The assumptions on the constants are the named `ASSUME`s of `CsieBooking`.

`ThreadLibraryProofs` proves, for any number of `fibonacci` and `collatz` threads and at
most one reader (`OneReader`, the hypothesis of every theorem: `main.c` 53-61 creates one
thread of each kind at most, and with two readers the code loses a sleeper), any order
of creation, arguments and timeslice:

- `Invariance`. That the queues hold every live thread once (`QueuesInv`) needs to be
  known together with where the process is: the thread that has called `thread_exit`
  stays in the ready queue until the scheduler has run (`Leaving`), `"idle"` has an
  empty ready queue, and `rq_current` is inside the queue wherever it is used
  (`EnvInv`). The lemmas about queues, `PickedFacts` (who is woken, in order; the n-th one
  exists because ranks are a bijection), `JoinFacts` and `FillHoleFacts`, say which
  threads each operation keeps and that none is doubled; `Rotated`, `Departed` and `Slept`
  put them together for the three ways through the scheduler.
- `TypeCorrect`, `Kept` (`NoThreadLost`), `InPlace` (`ResumesInPlace`), `Blocked`
  (`SignalsBlocked`), `Ticks` (`AlarmLives`): parts or consequences of it.
- `Landings` (`NoNullJump`): with a thread to start with, which `main` provides when an
  argument is not negative.
- `Implements`: every step is a `Switch` of `ThreadStates`, which loses nobody, or
  changes none of its sets. The fair share is left to TLC.
- `Supplied` (`ReadyHasInput`): if writers stay. Nobody but the reader takes from its FIFO,
  so what `select` saw is still there when it runs (`Served`).
- `InOrder` (`InputInOrder`): for readers whose argument is not 0 (the model stops
  counting the numbers of an endless one). If writers stay, a reader that was woken finds
  its FIFO as `select` saw it, since nobody else reads from it (`Served`), and its
  counter stays within its argument across switches (`Counted`).
- `Results` (`AnswersRight`): for any arguments and numbers. `ResultsInv` says that `x`
  and `y` of a Fibonacci thread are two neighbouring numbers of the sequence; of a
  subsequence thread, that `i` counts the numbers taken (with the one that `async_read`
  is to bring, before the jump back), that `y` is the best sum that ends with the last of
  them, and `x` the best of all.
  The reference values are recursive functions; that such functions exist, and so have
  the values their equations say, is `Recursion` of `RecursionProofs`, and `BestGoesOn`
  is the step of the algorithm: the best sum so far either grows by the next number or
  starts again.

`MovieServerProofs` proves, for both programs, any table of scores, any number of
requests, any depth, leaf size and limit of threads:

- `Invariance`: `Spec => []IInv`. The invariant says that the calls of a request form a
  tree: above a call at work are only calls that wait for their halves (`InnerCalls`),
  nothing starts below a call before it comes to that half (`LaterCalls`), and without a
  thread the right half comes after the left one (`HalvesOK`); a call's range lies inside
  its caller's (`RangesNested`), and ranges neither of which is inside the other are
  disjoint (`RangesApart`); `RequestsOK` and `MainOK` tie the root call to
  `handle_request` and each request thread to the `pthread_join` of main.
- `CallsApart` (`NoOverlap`): calls that work at the same time share no index. Two paths
  of which neither starts with the other part at some call; below that call they lie in
  different halves.
- `ListsLive` (`NoWorkAfterFree`).

`MovieListsProofs` proves of lists of any length, with any ties: a merge has every entry
of both sides exactly once (`MergeRearranges`), two lists in order give a list in order
(`MergeOrdered`), and the library's `sort` gives all entries in order, each marked once
more (`Sorted`). `Merge` and `InOrder` are recursive functions over the number of
entries; the lemmas go along the places an entry is taken from.

`MovieAnswersProofs` proves, for both programs and the same constants:

- `ListInvariance`: `Spec => []ListIInv`. To `IInv` it adds that the halves of a call are
  exactly the parts of its range (`HalvesExact`), that the first call has the whole list
  and a finished one a part that is not empty (`PartsOK`), that no title is marked before
  a call sorts its range (`UntouchedOK`), that sorted halves stay as they are until they
  are merged (`HalvesWait`), and that blocks return to the heap after answers only
  (`HeapOK`). Here `RangesApart` is used: a call that finishes changes nothing outside its
  range.
- `TypeCorrectness`, `HalvesKept` (`HalvesWait`).
- `AnswersFromCleared` (`Recommends`): `Spec /\ []Cleared => Recommends`. As long as nobody
  who still has to filter can be given used memory, every request is answered once, by
  the titles it matches in the right order.
- `Refinement` (`Recommends`) without that hypothesis, for `pserver` alone or at most two
  requests. The block freed first was mapped and is gone; a block of the heap is there to
  be reused only after a second request has been answered, and then nobody is left to
  filter. With a third request there is, as `movies_stale` shows, so the bound is sharp.
  `ListsMatch` is the rest of the argument: a list that is sorted has the movies its
  request matches, with their scores.

`ChampionshipProofs` proves, for any tree of battles in which a process has one parent,
any table with positive HP, and any wiring of agents:

- `Invariance`. A battle and a child take turns (`Edge`): whoever is not waiting has the
  only message, in the pipe or in hand, and a message that ends the child (`Leaves`) is
  sent exactly when the battle is done with that child. `StatusOK` adds that only the
  living go up and that who has no HP is told that the battle is over; it needs the
  lemmas about a round (`RoundFought`: the attacker of the last blow lives, the other
  does not) and about recovery (`RecoveredAlive`). `ReapedOK` says whom a battle has
  waited for, `BornOK` which calls a process can be in.
- `TypeCorrect`: in particular the champion is a real player.
- `Lockstep` (`NothingLost`), and `LoserFirst` (`ReapsLoserFirst`): a battle that passes
  messages has waited for the loser's side and for nobody else, and the winner's side has
  not exited. It says nothing of the root, which does not pass: after its last round both
  sides end, and its first `wait` may return either.

`ChampionshipPlacesProofs` goes on from there, for trees in which whoever can lose in
Zone A has an agent to go to (`ZoneAssumption`):

- `NobodyTwice` (`OnePlace`) needs `PlacesOK`. Every process speaks for one player
  (`Carried`), and what passes between a battle and a child is about that player
  (`NamesOK`). A status without HP names a battle that is over and that its player has
  lost (`FallenOK`); the agent who plays on stands in for the loser of *its* battle, who
  has exited (`AgentsOK`); and of the processes that wait for an answer about a player
  there is one highest, `Top`, as passing battles hand a message on and never copy it
  (`TopsOK`). Two agents for one loser would be agents of two battles, but the loser's
  own status names one.
- `Refinement` (`PlaysTournament`): a battle that ends is a `Fight` of `Tournament`, every
  other step a stutter. One needs that a battle over stays as it is (`Forever`, in the
  proofs), and that who passes messages below speaks for the winner seated (`WinnersOK`).
- `Rulebook` (`ByTheRules`): whatever the schedule, every battle has the winner that the
  numbers in the file determine. Two things have to be shown. First, that `Rules` and
  `Bout`, functions that refer to themselves, have the values their equations say.
  `TreeRecursion` of `RecursionProofs` gives such a function along a relation in which
  every nonempty set has a first element. For `Bout` the relation is "a round later the
  first seat has less HP, and both are alive" (`RoundsGrounded`), as every attack in
  `battle.c` 59-74 takes at least one HP. For `Rules` it is `Feeds`: who fights in a
  battle comes before its winner and before the agent that stands in for its loser.
  That this has no circle is `OrderAssumption`, which the constant tree of `battle.c`
  14-19 with the FIFOs of `player.c` 13 satisfies (a circle is a set of processes that
  wait for each other for ever), and TLC evaluates it on the instance.
  Second, that what is on its way is what `Rules` says (`RulesOK`). `Due` is what a
  battle is due from a child: its status by `Rules` before the first round, the seat
  during the battle, the recovered seat after it. Every message up is the one due, every
  message down is the seat (`MessagesOK`), the rounds still to be played from the seats
  end as `Rules` says the battle does (`Fighting`), and a battle that passes is due what
  the one above it waits for. `LosersOK` follows a loser of Zone A from the message that
  tells it so over its revival and the FIFO to its agent. TLC checked `RulesOK` on the
  instance of `championship_all` before it was proved.

Not proved, and left to TLC:

- Liveness: `AbandonedSessionEnds`, `Terminates`, `WakesUp`, `ServesAll`, `Ends`, and the
  fair share of `FairThreads`, whose steps are proved in `Implements`.

## 5. Not modelled

`sample_judge.py` and `sample_execution.sh` are drivers; the models take from them what
clients, operators and writers do. Parsing of numbers, formatting, logging and host
names are left out. `FD_SET` beyond `FD_SETSIZE` and stack layout under `longjmp`
are below the level of these models.

Of the movie server, `initialize` and `read_request` run before any thread exists and
parse text into vectors, which they normalise; the model starts from any scores. Equal
request ids (two requests that write one log file) do not occur in it. The log files of
the championship are only written, and its `main` arguments are those the code passes to
`execl`. System calls that no code path looks at the result of (`fork`,
`pthread_create`, `mmap`, `pipe`) do not fail.

## 6. Plan

Every safety property and every refinement that a passing run checks is a theorem now, but
for the fairness in `FairThreads`.
What could still be said for every value of the constants, though it is not an invariant
of the kind above:

1. That nobody waits for ever in a championship has a part without fairness: in every
   state either all have exited or the guard of some action holds. `OrderAssumption`
   orders the processes that wait for each other, and `IInv` and `PlacesOK` say what each
   of them waits for.
2. The same for `tserver`'s and `pserver`'s calls in the movie server, along the tree of
   ranges.
