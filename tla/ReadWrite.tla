------------------------------ MODULE ReadWrite ------------------------------
(***************************************************************************)
(* Prog4: reader and writer threads over one linked list, with the         *)
(* writer-preference locking of main.cpp, the thread that announces        *)
(* "Almost Done!", and the end of main.                                    *)
(*                                                                         *)
(* A pthread mutex is the thread that locked it, or Nobody.  Unlocking     *)
(* never asks who the owner is: the mutexes are the default kind, and the  *)
(* last reader (writer) releases what the first one locked.                *)
(***************************************************************************)
EXTENDS Integers, Sequences, FiniteSets

CONSTANTS
  NumReaders,   \* argv[2]
  NumWriters,   \* argv[3]
  NCount,       \* argv[1], reads or writes per thread
  Draws,        \* what rand() % 100 + 1 may give
  Leftover      \* what the unset next field of a fresh node may hold

NULL == 0
Wild == -1      \* a leftover pointer to no node at all

ASSUME ArgumentsAccepted ==
  /\ NCount \in 1..99
  /\ NumReaders \in 1..9
  /\ NumWriters \in 1..9

ASSUME EnvironmentAssumption ==
  /\ Draws \subseteq 1..100 /\ Draws # {}
  /\ Leftover \subseteq {NULL, Wild} /\ Leftover # {}

Readers == {"reader"} \X (1..NumReaders)
Writers == {"writer"} \X (1..NumWriters)
Checker == <<"check_almost_done", 0>>
Threads == Readers \cup Writers \cup {Checker}
Nobody  == <<"nobody", 0>>

Num(t) == t[2]

VARIABLES
  pc,           \* where each thread stands
  round,        \* y in reader, k in writer
  read_lock, write_lock, readTry, resource, cond_lock,
  read_count, write_count,
  nodes,        \* every node ever malloc'ed, in that order
  head, tail,   \* listr, as indices into nodes
  temp, retVal, \* locals of read()
  logged,       \* the count each reader last wrote to its file
  almost_done,
  process       \* whether the process still runs

locks  == <<read_lock, write_lock, readTry, resource>>
counts == <<read_count, write_count>>
list   == <<nodes, head, tail>>
locals == <<temp, retVal, logged>>
done   == <<cond_lock, almost_done>>
vars   == <<pc, round, locks, counts, list, locals, done, process>>

Running == process = "running"

At(t, label) == Running /\ pc[t] = label

GoTo(t, label) == pc' = [pc EXCEPT ![t] = label]

(* The end of one turn of the for loop of reader and writer. *)
EndRound(t, last) ==
  IF round[t] < NCount
    THEN GoTo(t, "start") /\ round' = [round EXCEPT ![t] = @ + 1]
    ELSE GoTo(t, last) /\ UNCHANGED round

Init ==
  /\ pc = [t \in Threads |-> IF t = Checker THEN "lock" ELSE "start"]
  /\ round = [t \in Readers \cup Writers |-> 1]
  /\ read_lock = Nobody /\ write_lock = Nobody
  /\ readTry = Nobody /\ resource = Nobody /\ cond_lock = Nobody
  /\ read_count = 0 /\ write_count = 0
  /\ nodes = << >> /\ head = NULL /\ tail = NULL
  /\ temp = [r \in Readers |-> NULL]
  /\ retVal = [r \in Readers |-> 0]
  /\ logged = [r \in Readers |-> 0]
  /\ almost_done = NumReaders
  /\ process = "running"

-----------------------------------------------------------------------------
(* reader *)

LockReadTry(r) ==
  /\ At(r, "start")
  /\ readTry = Nobody /\ readTry' = r
  /\ GoTo(r, "lock")
  /\ UNCHANGED <<round, read_lock, write_lock, resource, counts, list, locals,
                 done, process>>

LockToEnter(r) ==
  /\ At(r, "lock")
  /\ read_lock = Nobody /\ read_lock' = r
  /\ GoTo(r, "enter")
  /\ UNCHANGED <<round, write_lock, readTry, resource, counts, list, locals,
                 done, process>>

(* Mutants of ReaderEnter: the count is set, not incremented; the second   *)
(* reader claims the resource instead of the first.                        *)
ReaderEnterSetsCount(r) ==
  /\ At(r, "enter")
  /\ read_count' = 1
  /\ GoTo(r, IF read_count = 0 THEN "claim" ELSE "open")
  /\ UNCHANGED <<round, locks, write_count, list, locals, done, process>>

ReaderEnterClaimsSecond(r) ==
  /\ At(r, "enter")
  /\ read_count' = read_count + 1
  /\ GoTo(r, IF read_count' = 2 THEN "claim" ELSE "open")
  /\ UNCHANGED <<round, locks, write_count, list, locals, done, process>>

ReaderEnter(r) ==
  /\ At(r, "enter")
  /\ read_count' = read_count + 1
  /\ GoTo(r, IF read_count' = 1 THEN "claim" ELSE "open")
  /\ UNCHANGED <<round, locks, write_count, list, locals, done, process>>

ReaderClaim(r) ==
  /\ At(r, "claim")
  /\ resource = Nobody /\ resource' = r
  /\ GoTo(r, "open")
  /\ UNCHANGED <<round, read_lock, write_lock, readTry, counts, list, locals,
                 done, process>>

(* Both unlocks of the entry section, and the first line of read(). *)
ReaderOpen(r) ==
  /\ At(r, "open")
  /\ read_lock' = Nobody /\ readTry' = Nobody
  /\ temp' = [temp EXCEPT ![r] = head]
  /\ retVal' = [retVal EXCEPT ![r] = 0]
  /\ GoTo(r, "scan")
  /\ UNCHANGED <<round, write_lock, resource, counts, list, logged, done,
                 process>>

ScanNode(r) ==
  /\ At(r, "scan")
  /\ temp[r] \in DOMAIN nodes
  /\ retVal' = [retVal EXCEPT
       ![r] = IF nodes[temp[r]].value % 10 = Num(r) THEN @ + 1 ELSE @]
  /\ temp' = [temp EXCEPT ![r] = nodes[@].next]
  /\ UNCHANGED <<pc, round, locks, counts, list, logged, done, process>>

(* The last node's next was never set: following leftover bytes ends the   *)
(* process.                                                                *)
ScanWild(r) ==
  /\ At(r, "scan")
  /\ temp[r] = Wild
  /\ process' = "crashed"
  /\ UNCHANGED <<pc, round, locks, counts, list, locals, done>>

LogRead(r) ==
  /\ At(r, "scan")
  /\ temp[r] = NULL
  /\ logged' = [logged EXCEPT ![r] = retVal[r]]
  /\ GoTo(r, "leave")
  /\ UNCHANGED <<round, locks, counts, list, temp, retVal, done, process>>

LockToLeave(r) ==
  /\ At(r, "leave")
  /\ read_lock = Nobody /\ read_lock' = r
  /\ GoTo(r, "exit")
  /\ UNCHANGED <<round, write_lock, readTry, resource, counts, list, locals,
                 done, process>>

(* Mutant of ReaderExit: any reader that leaves unlocks the resource.      *)
ReaderExitUnlocks(r) ==
  /\ At(r, "exit")
  /\ read_count' = read_count - 1
  /\ resource' = Nobody
  /\ read_lock' = Nobody
  /\ EndRound(r, "finish")
  /\ UNCHANGED <<write_lock, readTry, write_count, list, locals, done,
                 process>>

ReaderExit(r) ==
  /\ At(r, "exit")
  /\ read_count' = read_count - 1
  /\ resource' = IF read_count' = 0 THEN Nobody ELSE resource
  /\ read_lock' = Nobody
  /\ EndRound(r, "finish")
  /\ UNCHANGED <<write_lock, readTry, write_count, list, locals, done,
                 process>>

LockToFinish(r) ==
  /\ At(r, "finish")
  /\ cond_lock = Nobody /\ cond_lock' = r
  /\ GoTo(r, "signal")
  /\ UNCHANGED <<round, locks, counts, list, locals, almost_done, process>>

(* Mutant of SignalDone: pthread_cond_signal is forgotten.                 *)
SignalDoneSilently(r) ==
  /\ At(r, "signal")
  /\ almost_done' = almost_done - 1
  /\ cond_lock' = Nobody
  /\ GoTo(r, "done")
  /\ UNCHANGED <<round, locks, counts, list, locals, process>>

(* A signalled checker leaves the wait and has to lock cond_lock again. *)
SignalDone(r) ==
  /\ At(r, "signal")
  /\ almost_done' = almost_done - 1
  /\ cond_lock' = Nobody
  /\ pc' = [pc EXCEPT ![r] = "done",
                      ![Checker] = IF @ = "wait" THEN "lock" ELSE @]
  /\ UNCHANGED <<round, locks, counts, list, locals, process>>

-----------------------------------------------------------------------------
(* writer *)

LockWrite(w) ==
  /\ At(w, "start")
  /\ write_lock = Nobody /\ write_lock' = w
  /\ GoTo(w, "enter")
  /\ UNCHANGED <<round, read_lock, readTry, resource, counts, list, locals,
                 done, process>>

WriterEnter(w) ==
  /\ At(w, "enter")
  /\ write_count' = write_count + 1
  /\ IF write_count' = 1
       THEN GoTo(w, "claim") /\ UNCHANGED write_lock
       ELSE GoTo(w, "await") /\ write_lock' = Nobody
  /\ UNCHANGED <<round, read_lock, readTry, resource, read_count, list,
                 locals, done, process>>

WriterClaim(w) ==
  /\ At(w, "claim")
  /\ readTry = Nobody /\ readTry' = w
  /\ write_lock' = Nobody
  /\ GoTo(w, "await")
  /\ UNCHANGED <<round, read_lock, resource, counts, list, locals, done,
                 process>>

(* Mutant of LockResource: the writer adds without waiting for it.         *)
LockResourceSkipped(w) ==
  /\ At(w, "await")
  /\ resource' = w
  /\ GoTo(w, "add")
  /\ UNCHANGED <<round, read_lock, write_lock, readTry, counts, list, locals,
                 done, process>>

LockResource(w) ==
  /\ At(w, "await")
  /\ resource = Nobody /\ resource' = w
  /\ GoTo(w, "add")
  /\ UNCHANGED <<round, read_lock, write_lock, readTry, counts, list, locals,
                 done, process>>

(* add(): the new node becomes the list, or hangs behind the tail. *)
AppendNode(w, draw, junk) ==
  LET new  == Len(nodes) + 1
      node == [value |-> draw * 10 + Num(w), next |-> junk]
  IN IF head = NULL
       THEN /\ nodes' = Append(nodes, node)
            /\ head' = new /\ tail' = new
            /\ GoTo(w, "free")
       ELSE /\ nodes' = Append([nodes EXCEPT ![tail].next = new], node)
            /\ GoTo(w, "advance")
            /\ UNCHANGED <<head, tail>>

Add(w) ==
  /\ At(w, "add")
  /\ \E draw \in Draws, junk \in Leftover : AppendNode(w, draw, junk)
  /\ UNCHANGED <<round, locks, counts, locals, done, process>>

AdvanceTail(w) ==
  /\ At(w, "advance")
  /\ tail' = nodes[tail].next
  /\ GoTo(w, "free")
  /\ UNCHANGED <<round, locks, counts, nodes, head, locals, done, process>>

UnlockResource(w) ==
  /\ At(w, "free")
  /\ resource' = Nobody
  /\ GoTo(w, "leave")
  /\ UNCHANGED <<round, read_lock, write_lock, readTry, counts, list, locals,
                 done, process>>

LockWriteToLeave(w) ==
  /\ At(w, "leave")
  /\ write_lock = Nobody /\ write_lock' = w
  /\ GoTo(w, "exit")
  /\ UNCHANGED <<round, read_lock, readTry, resource, counts, list, locals,
                 done, process>>

(* Mutant of WriterExit: any writer that leaves lets the readers in.       *)
WriterExitOpensGate(w) ==
  /\ At(w, "exit")
  /\ write_count' = write_count - 1
  /\ readTry' = Nobody
  /\ write_lock' = Nobody
  /\ EndRound(w, "done")
  /\ UNCHANGED <<read_lock, resource, read_count, list, locals, done, process>>

WriterExit(w) ==
  /\ At(w, "exit")
  /\ write_count' = write_count - 1
  /\ readTry' = IF write_count' = 0 THEN Nobody ELSE readTry
  /\ write_lock' = Nobody
  /\ EndRound(w, "done")
  /\ UNCHANGED <<read_lock, resource, read_count, list, locals, done, process>>

-----------------------------------------------------------------------------
(* check_almost_done *)

LockToCheck ==
  /\ At(Checker, "lock")
  /\ cond_lock = Nobody /\ cond_lock' = Checker
  /\ GoTo(Checker, "test")
  /\ UNCHANGED <<round, locks, counts, list, locals, almost_done, process>>

(* Mutant of TestAlmostDone: off by one.                                   *)
TestAlmostDoneEarly ==
  /\ At(Checker, "test")
  /\ GoTo(Checker, IF almost_done > 2 THEN "wait" ELSE "done")
  /\ cond_lock' = Nobody
  /\ UNCHANGED <<round, locks, counts, list, locals, almost_done, process>>

(* Either wait, which gives cond_lock back, or announce and unlock. *)
TestAlmostDone ==
  /\ At(Checker, "test")
  /\ GoTo(Checker, IF almost_done > 1 THEN "wait" ELSE "done")
  /\ cond_lock' = Nobody
  /\ UNCHANGED <<round, locks, counts, list, locals, almost_done, process>>

(* pthread_cond_wait may return with no signal. *)
WakeUnsignalled ==
  /\ At(Checker, "wait")
  /\ GoTo(Checker, "lock")
  /\ UNCHANGED <<round, locks, counts, list, locals, done, process>>

(* main joins the checker, then joins the thread ids it kept.  Those were  *)
(* overwritten by pthread_create's result, 0: the join fails at once or    *)
(* dereferences that id; main never waits for a reader or a writer.        *)
MainJoins ==
  /\ At(Checker, "done")
  /\ process' \in {"exited", "crashed"}
  /\ UNCHANGED <<pc, round, locks, counts, list, locals, done>>

Ended == ~Running /\ UNCHANGED vars

-----------------------------------------------------------------------------

Reader(r) ==
  \/ LockReadTry(r) \/ LockToEnter(r) \/ ReaderEnter(r) \/ ReaderClaim(r)
  \/ ReaderOpen(r) \/ ScanNode(r) \/ ScanWild(r) \/ LogRead(r)
  \/ LockToLeave(r) \/ ReaderExit(r) \/ LockToFinish(r) \/ SignalDone(r)

Writer(w) ==
  \/ LockWrite(w) \/ WriterEnter(w) \/ WriterClaim(w) \/ LockResource(w)
  \/ Add(w) \/ AdvanceTail(w) \/ UnlockResource(w)
  \/ LockWriteToLeave(w) \/ WriterExit(w)

CheckAlmostDone == LockToCheck \/ TestAlmostDone

Next ==
  \/ \E r \in Readers : Reader(r)
  \/ \E w \in Writers : Writer(w)
  \/ CheckAlmostDone
  \/ WakeUnsignalled
  \/ MainJoins
  \/ Ended

Spec == Init /\ [][Next]_vars

(* The scheduler runs every thread that can run; main is given none.  Only *)
(* finitely many waits return unsignalled: a checker woken for ever could  *)
(* keep cond_lock from the readers, which locks in no order of arrival.    *)
Fairness ==
  /\ \A r \in Readers : WF_vars(Reader(r))
  /\ \A w \in Writers : WF_vars(Writer(w))
  /\ WF_vars(CheckAlmostDone)
  /\ <>[][~WakeUnsignalled]_vars

FairSpec == Spec /\ Fairness

-----------------------------------------------------------------------------
(* Properties *)

ReaderLabels == {"start", "lock", "enter", "claim", "open", "scan", "leave",
                 "exit", "finish", "signal", "done"}
WriterLabels == {"start", "enter", "claim", "await", "add", "advance", "free",
                 "leave", "exit", "done"}
Node == [value : 11..1009, next : Nat \cup {Wild}]

(* Every variable stays in its range; the two unsigned counters never wrap *)
(* below zero and never count a thread twice.                              *)
TypeOK ==
  /\ DOMAIN pc = Threads
  /\ \A r \in Readers : pc[r] \in ReaderLabels
  /\ \A w \in Writers : pc[w] \in WriterLabels
  /\ pc[Checker] \in {"lock", "test", "wait", "done"}
  /\ round \in [Readers \cup Writers -> 1..NCount]
  /\ read_lock \in Readers \cup {Nobody}
  /\ write_lock \in Writers \cup {Nobody}
  /\ {readTry, resource} \subseteq Readers \cup Writers \cup {Nobody}
  /\ cond_lock \in Readers \cup {Checker, Nobody}
  /\ read_count \in 0..NumReaders /\ write_count \in 0..NumWriters
  /\ nodes \in Seq(Node) /\ {head, tail} \subseteq {NULL} \cup DOMAIN nodes
  /\ temp \in [Readers -> Nat \cup {Wild}]
  /\ retVal \in [Readers -> Nat] /\ logged \in [Readers -> Nat]
  /\ almost_done \in 0..NumReaders
  /\ process \in {"running", "exited", "crashed"}

Reading(r) == pc[r] = "scan"
Writing(w) == pc[w] \in {"add", "advance", "free"}

(* add() runs in one writer at a time and in none while a reader is in     *)
(* read(), although the resource lock is taken by the first reader and     *)
(* given back by the last, which need not be the same thread.              *)
MutualExclusion ==
  \A w \in Writers : Writing(w) =>
    /\ \A r \in Readers : ~Reading(r)
    /\ \A v \in Writers : Writing(v) => v = w

(* No add() is lost: every node ever malloc'ed is reached from head, in    *)
(* the order of the adds, and between two adds tail is the last of them.   *)
ListWhole ==
  /\ \A k \in 1..(Len(nodes) - 1) : nodes[k].next = k + 1
  /\ head = IF nodes = << >> THEN NULL ELSE 1
  /\ (\A w \in Writers : pc[w] # "advance") => tail = Len(nodes)

ValuesEndingIn(d) == {k \in DOMAIN nodes : nodes[k].value % 10 = d}

(* When read() reaches the end of the list, it returns the number of       *)
(* values of that digit the list holds at that very moment.                *)
ReadExact ==
  \A r \in Readers : Reading(r) /\ temp[r] = NULL =>
    retVal[r] = Cardinality(ValuesEndingIn(Num(r)))

(* The README's writer preference: from the moment a writer waits for the  *)
(* resource until it has left, no reader is let in.                        *)
WriterPreference ==
  [][(\E w \in Writers : pc[w] \in {"await", "leave"} \/ Writing(w))
       => read_count' <= read_count]_vars

(* "Almost Done!" is printed when one reader at most is still at work.     *)
AnnouncedLate ==
  pc[Checker] = "done" =>
    Cardinality({r \in Readers : pc[r] # "done"}) <= 1

(* No deadlock, no lost wakeup: as long as main leaves the process alive,  *)
(* every thread comes to its end.                                          *)
ThreadsTerminate == <>(~Running \/ \A t \in Threads : pc[t] = "done")

(* What the usage line of the README promises: each thread does its number *)
(* of reads or writes.  The process ends only after they all have.         *)
AllWorkDone ==
  ~Running => \A t \in Readers \cup Writers : pc[t] = "done"

=============================================================================
