--------------------------- MODULE ReadWriteProofs ---------------------------
(***************************************************************************)
(* Proofs about ReadWrite, for any number of readers, writers and rounds.  *)
(***************************************************************************)
EXTENDS ReadWrite, FiniteSetTheorems, TLAPS

-----------------------------------------------------------------------------
(* The threads: which identities differ, and how many there are.           *)

(* No thread is of two kinds, and none of them is Nobody.                  *)
LEMMA KindsDiffer ==
  /\ Readers \cap Writers = {}
  /\ Checker \notin Readers \cup Writers
  /\ Nobody \notin Threads
BY DEF Readers, Writers, Checker, Nobody, Threads

(* The digit a reader looks for, and a writer appends, is its number.      *)
LEMMA NumberOfThread ==
  /\ \A r \in Readers : Num(r) \in 1..9
  /\ \A w \in Writers : Num(w) \in 1..9
BY ArgumentsAccepted DEF ArgumentsAccepted, Readers, Writers, Num

(* There are as many readers as argv[2] says. *)
LEMMA CountReaders ==
  IsFiniteSet(Readers) /\ Cardinality(Readers) = NumReaders
<1> DEFINE f == [i \in 1..NumReaders |-> <<"reader", i>>]
<1>1. f \in Bijection(1..NumReaders, Readers)
  BY DEF Readers, Bijection, Injection, Surjection, IsInjective
<1>2. ExistsBijection(1..NumReaders, Readers)
  BY <1>1 DEF ExistsBijection
<1>3. NumReaders \in Nat
  BY ArgumentsAccepted DEF ArgumentsAccepted
<1>4. QED
  BY <1>2, <1>3, FS_NatBijection, FS_CountingElements

(* There are as many writers as argv[3] says. *)
LEMMA CountWriters ==
  IsFiniteSet(Writers) /\ Cardinality(Writers) = NumWriters
<1> DEFINE f == [i \in 1..NumWriters |-> <<"writer", i>>]
<1>1. f \in Bijection(1..NumWriters, Writers)
  BY DEF Writers, Bijection, Injection, Surjection, IsInjective
<1>2. ExistsBijection(1..NumWriters, Writers)
  BY <1>1 DEF ExistsBijection
<1>3. NumWriters \in Nat
  BY ArgumentsAccepted DEF ArgumentsAccepted
<1>4. QED
  BY <1>2, <1>3, FS_NatBijection, FS_CountingElements

-----------------------------------------------------------------------------
(* Types.  The part of TypeOK that is inductive on its own.                *)

CheckerLabels == {"lock", "test", "wait", "done"}

ControlTyped ==
  /\ pc \in [Threads -> ReaderLabels \cup WriterLabels \cup CheckerLabels]
  /\ \A r \in Readers : pc[r] \in ReaderLabels
  /\ \A w \in Writers : pc[w] \in WriterLabels
  /\ pc[Checker] \in CheckerLabels
  /\ round \in [Readers \cup Writers -> 1..NCount]

LocksTyped ==
  /\ read_lock \in Readers \cup {Nobody}
  /\ write_lock \in Writers \cup {Nobody}
  /\ readTry \in Readers \cup Writers \cup {Nobody}
  /\ resource \in Readers \cup Writers \cup {Nobody}
  /\ cond_lock \in Readers \cup {Checker, Nobody}
  /\ read_count \in Int /\ write_count \in Int /\ almost_done \in Int
  /\ process \in {"running", "exited", "crashed"}

ListTyped ==
  /\ nodes \in Seq(Node) /\ head \in Nat
  /\ temp \in [Readers -> Nat \cup {Wild}]
  /\ retVal \in [Readers -> Nat] /\ logged \in [Readers -> Nat]

TypeInv == ControlTyped /\ LocksTyped /\ ListTyped

(* Setting the next field of one node leaves a list of nodes, as long.     *)
LEMMA NextSet ==
  ASSUME NEW s \in Seq(Node), NEW i, NEW n \in Nat \cup {Wild}
  PROVE  /\ [s EXCEPT ![i].next = n] \in Seq(Node)
         /\ Len([s EXCEPT ![i].next = n]) = Len(s)
<1> DEFINE t == [s EXCEPT ![i].next = n]
<1>1. ASSUME NEW m \in Node PROVE [m EXCEPT !.next = n] \in Node
  BY ZenonT(40) DEF Node
<1>2. ASSUME NEW k \in 1..Len(s) PROVE s[k] \in Node
  OBVIOUS
<1>3. /\ DOMAIN t = 1..Len(s)
      /\ \A k \in 1..Len(s) :
           t[k] = IF k = i THEN [s[k] EXCEPT !.next = n] ELSE s[k]
  OBVIOUS
<1>4. \A k \in 1..Len(s) : t[k] \in Node
  BY <1>1, <1>2, <1>3
<1>5. t \in [1..Len(s) -> Node]
  BY <1>3, <1>4
<1>6. Len(s) \in Nat
  OBVIOUS
<1> HIDE DEF t
<1>7. t \in Seq(Node)
  BY <1>5, <1>6
<1>8. Len(t) = Len(s)
  BY <1>3, <1>6, <1>7
<1>9. QED
  BY <1>7, <1>8 DEF t

(* main starts every thread with typed variables. *)
LEMMA TypeInit == Init => TypeInv
BY ArgumentsAccepted, KindsDiffer
   DEF ArgumentsAccepted, Init, TypeInv, ControlTyped, LocksTyped, ListTyped,
       Threads, ReaderLabels, WriterLabels, CheckerLabels, NULL

(* No step of any thread leaves the types. *)
LEMMA TypeStep == TypeInv /\ [Next]_vars => TypeInv'
<1> SUFFICES ASSUME ControlTyped, LocksTyped, ListTyped, [Next]_vars
             PROVE  ControlTyped' /\ LocksTyped' /\ ListTyped'
  BY DEF TypeInv
<1>1. ASSUME NEW r \in Readers, Reader(r)
      PROVE  ControlTyped' /\ LocksTyped' /\ ListTyped'
  <2>1. CASE LockReadTry(r)
    BY <2>1, KindsDiffer
       DEF LockReadTry, ControlTyped, LocksTyped, ListTyped, At, GoTo,
           Threads, ReaderLabels, WriterLabels, CheckerLabels, locks, counts,
           list, locals, done
  <2>2. CASE LockToEnter(r)
    BY <2>2, KindsDiffer
       DEF LockToEnter, ControlTyped, LocksTyped, ListTyped, At, GoTo,
           Threads, ReaderLabels, WriterLabels, CheckerLabels, locks, counts,
           list, locals, done
  <2>3. CASE ReaderEnter(r)
    BY SMTT(30), <2>3, KindsDiffer
       DEF ReaderEnter, ControlTyped, LocksTyped, ListTyped, At, GoTo,
           Threads, ReaderLabels, WriterLabels, CheckerLabels, locks, counts,
           list, locals, done
  <2>4. CASE ReaderClaim(r)
    BY <2>4, KindsDiffer
       DEF ReaderClaim, ControlTyped, LocksTyped, ListTyped, At, GoTo,
           Threads, ReaderLabels, WriterLabels, CheckerLabels, locks, counts,
           list, locals, done
  <2>5. CASE ReaderOpen(r)
    BY <2>5, KindsDiffer
       DEF ReaderOpen, ControlTyped, LocksTyped, ListTyped, At, GoTo, Threads,
           ReaderLabels, WriterLabels, CheckerLabels, locks, counts, list,
           locals, done
  <2>6. CASE ScanNode(r)
    <3>1. nodes[temp[r]] \in Node
      BY <2>6 DEF ScanNode, ListTyped
    <3>2. nodes[temp[r]].next \in Nat \cup {Wild}
      BY <3>1 DEF Node
    <3>3. ListTyped'
      BY <2>6, <3>2 DEF ScanNode, ListTyped, list
    <3>4. ControlTyped' /\ LocksTyped'
      BY <2>6 DEF ScanNode, ControlTyped, LocksTyped, locks, counts, done
    <3>5. QED
      BY <3>3, <3>4
  <2>7. CASE ScanWild(r)
    BY <2>7, KindsDiffer
       DEF ScanWild, ControlTyped, LocksTyped, ListTyped, At, GoTo, Threads,
           ReaderLabels, WriterLabels, CheckerLabels, locks, counts, list,
           locals, done
  <2>8. CASE LogRead(r)
    BY <2>8, KindsDiffer
       DEF LogRead, ControlTyped, LocksTyped, ListTyped, At, GoTo, Threads,
           ReaderLabels, WriterLabels, CheckerLabels, locks, counts, list,
           locals, done
  <2>9. CASE LockToLeave(r)
    BY <2>9, KindsDiffer
       DEF LockToLeave, ControlTyped, LocksTyped, ListTyped, At, GoTo,
           Threads, ReaderLabels, WriterLabels, CheckerLabels, locks, counts,
           list, locals, done
  <2>10. CASE ReaderExit(r)
    <3>1. ControlTyped'
      BY <2>10, ArgumentsAccepted, KindsDiffer
         DEF ReaderExit, EndRound, ArgumentsAccepted, ControlTyped, At, GoTo,
             Threads, ReaderLabels, WriterLabels, CheckerLabels
    <3>2. LocksTyped'
      BY <2>10 DEF ReaderExit, LocksTyped, locks, counts, list, locals, done
    <3>3. ListTyped'
      BY <2>10 DEF ReaderExit, ListTyped, locks, counts, list, locals, done
    <3>4. QED
      BY <3>1, <3>2, <3>3
  <2>11. CASE LockToFinish(r)
    BY <2>11, KindsDiffer
       DEF LockToFinish, ControlTyped, LocksTyped, ListTyped, At, GoTo,
           Threads, ReaderLabels, WriterLabels, CheckerLabels, locks, counts,
           list, locals, done
  <2>12. CASE SignalDone(r)
    <3>1. ControlTyped'
      BY <2>12, KindsDiffer
         DEF SignalDone, ControlTyped, At, GoTo, Threads, ReaderLabels,
           WriterLabels, CheckerLabels
    <3>2. LocksTyped'
      BY <2>12 DEF SignalDone, LocksTyped, locks, counts, list, locals, done
    <3>3. ListTyped'
      BY <2>12 DEF SignalDone, ListTyped, locks, counts, list, locals, done
    <3>4. QED
      BY <3>1, <3>2, <3>3
  <2>13. QED
    BY <1>1, <2>1, <2>2, <2>3, <2>4, <2>5, <2>6, <2>7, <2>8, <2>9, <2>10,
       <2>11, <2>12
       DEF Reader
<1>2. ASSUME NEW w \in Writers, Writer(w)
      PROVE  ControlTyped' /\ LocksTyped' /\ ListTyped'
  <2>1. CASE LockWrite(w)
    BY <2>1, KindsDiffer
       DEF LockWrite, ControlTyped, LocksTyped, ListTyped, At, GoTo, Threads,
           ReaderLabels, WriterLabels, CheckerLabels, locks, counts, list,
           locals, done
  <2>2. CASE WriterEnter(w)
    <3>1. ControlTyped'
      BY <2>2, KindsDiffer
         DEF WriterEnter, ControlTyped, At, GoTo, Threads, ReaderLabels,
           WriterLabels, CheckerLabels
    <3>2. LocksTyped'
      BY <2>2 DEF WriterEnter, LocksTyped, locks, counts, list, locals, done
    <3>3. ListTyped'
      BY <2>2 DEF WriterEnter, ListTyped, locks, counts, list, locals, done
    <3>4. QED
      BY <3>1, <3>2, <3>3
  <2>3. CASE WriterClaim(w)
    BY <2>3, KindsDiffer
       DEF WriterClaim, ControlTyped, LocksTyped, ListTyped, At, GoTo,
           Threads, ReaderLabels, WriterLabels, CheckerLabels, locks, counts,
           list, locals, done
  <2>4. CASE LockResource(w)
    BY <2>4, KindsDiffer
       DEF LockResource, ControlTyped, LocksTyped, ListTyped, At, GoTo,
           Threads, ReaderLabels, WriterLabels, CheckerLabels, locks, counts,
           list, locals, done
  <2>5. CASE Add(w)
    <3>1. PICK draw \in Draws, junk \in Leftover : AppendNode(w, draw, junk)
      BY <2>5 DEF Add
    <3>2. draw * 10 + Num(w) \in 11..1009
      BY NumberOfThread, EnvironmentAssumption DEF EnvironmentAssumption
    <3>3. junk \in Nat \cup {Wild}
      BY EnvironmentAssumption DEF EnvironmentAssumption, NULL
    <3> DEFINE node == [value |-> draw * 10 + Num(w), next |-> junk]
    <3>4. node \in Node
      BY <3>2, <3>3 DEF Node
    <3>5. nodes \in Seq(Node) /\ Len(nodes) + 1 \in Nat
      BY DEF ListTyped
    <3>6. [nodes EXCEPT ![tail].next = Len(nodes) + 1] \in Seq(Node)
      BY <3>5, NextSet
    <3> HIDE DEF node
    <3>7. nodes' \in Seq(Node)
      <4>1. CASE head = NULL
        BY <3>1, <3>4, <3>5, <4>1 DEF AppendNode, node
      <4>2. CASE head # NULL
        BY <3>1, <3>4, <3>6, <4>2 DEF AppendNode, node
      <4>3. QED
        BY <4>1, <4>2
    <3>8. head' \in Nat
      BY <3>1, <3>5 DEF AppendNode, ListTyped
    <3>9. ListTyped'
      BY <2>5, <3>7, <3>8 DEF Add, ListTyped, locals
    <3>10. ControlTyped'
      <4>1. UNCHANGED round
        BY <2>5 DEF Add
      <4>2. GoTo(w, "free") \/ GoTo(w, "advance")
        BY <3>1 DEF AppendNode
      <4>3. QED
        BY <4>1, <4>2, KindsDiffer
           DEF ControlTyped, GoTo, Threads, ReaderLabels, WriterLabels,
               CheckerLabels
    <3>11. LocksTyped'
      BY <2>5 DEF Add, LocksTyped, locks, counts, done
    <3>12. QED
      BY <3>9, <3>10, <3>11
  <2>6. CASE AdvanceTail(w)
    BY <2>6, KindsDiffer
       DEF AdvanceTail, ControlTyped, LocksTyped, ListTyped, At, GoTo,
           Threads, ReaderLabels, WriterLabels, CheckerLabels, locks, counts,
           list, locals, done
  <2>7. CASE UnlockResource(w)
    BY <2>7, KindsDiffer
       DEF UnlockResource, ControlTyped, LocksTyped, ListTyped, At, GoTo,
           Threads, ReaderLabels, WriterLabels, CheckerLabels, locks, counts,
           list, locals, done
  <2>8. CASE LockWriteToLeave(w)
    BY <2>8, KindsDiffer
       DEF LockWriteToLeave, ControlTyped, LocksTyped, ListTyped, At, GoTo,
           Threads, ReaderLabels, WriterLabels, CheckerLabels, locks, counts,
           list, locals, done
  <2>9. CASE WriterExit(w)
    <3>1. ControlTyped'
      BY <2>9, ArgumentsAccepted, KindsDiffer
         DEF WriterExit, EndRound, ArgumentsAccepted, ControlTyped, At, GoTo,
             Threads, ReaderLabels, WriterLabels, CheckerLabels
    <3>2. LocksTyped'
      BY <2>9 DEF WriterExit, LocksTyped, locks, counts, list, locals, done
    <3>3. ListTyped'
      BY <2>9 DEF WriterExit, ListTyped, locks, counts, list, locals, done
    <3>4. QED
      BY <3>1, <3>2, <3>3
  <2>10. QED
    BY <1>2, <2>1, <2>2, <2>3, <2>4, <2>5, <2>6, <2>7, <2>8, <2>9
       DEF Writer
<1>3. CASE LockToCheck
  BY <1>3, KindsDiffer
     DEF LockToCheck, ControlTyped, LocksTyped, ListTyped, At, GoTo, Threads,
         ReaderLabels, WriterLabels, CheckerLabels, locks, counts, list,
         locals, done
<1>4. CASE TestAlmostDone
  BY <1>4, KindsDiffer
     DEF TestAlmostDone, ControlTyped, LocksTyped, ListTyped, At, GoTo,
         Threads, ReaderLabels, WriterLabels, CheckerLabels, locks, counts,
         list, locals, done
<1>5. CASE WakeUnsignalled
  BY <1>5, KindsDiffer
     DEF WakeUnsignalled, ControlTyped, LocksTyped, ListTyped, At, GoTo,
         Threads, ReaderLabels, WriterLabels, CheckerLabels, locks, counts,
         list, locals, done
<1>6. CASE MainJoins
  BY <1>6, KindsDiffer
     DEF MainJoins, ControlTyped, LocksTyped, ListTyped, At, GoTo, Threads,
         ReaderLabels, WriterLabels, CheckerLabels, locks, counts, list,
         locals, done
<1>7. CASE UNCHANGED vars
  BY <1>7
     DEF vars, ControlTyped, LocksTyped, ListTyped, locks, counts, list,
         locals, done
<1>8. QED
  BY <1>1, <1>2, <1>3, <1>4, <1>5, <1>6, <1>7
     DEF Next, CheckAlmostDone, Ended

(* The typing part of TypeOK holds in every state, for any number of       *)
(* threads, rounds and draws.                                              *)
THEOREM TypeInvariant == Spec => []TypeInv
<1>1. Init => TypeInv
  BY TypeInit
<1>2. TypeInv /\ [Next]_vars => TypeInv'
  BY TypeStep
<1>3. QED
  BY <1>1, <1>2, PTL DEF Spec

-----------------------------------------------------------------------------
(* Locks.  Who holds what can be read off the places where the threads     *)
(* stand: this is the invariant behind MutualExclusion.                    *)

(* The readers that read_count counts, the writers that write_count does.  *)
Entered == {r \in Readers : pc[r] \in {"claim", "open", "scan", "leave",
                                       "exit"}}
Joined == {w \in Writers : pc[w] \in {"claim", "await", "add", "advance",
                                      "free", "leave", "exit"}}

(* The locks that are unlocked by the thread that locked them. *)
OwnLocks ==
  /\ \A r \in Readers :
       /\ (read_lock = r) <=> (pc[r] \in {"enter", "claim", "open", "exit"})
       /\ (readTry = r) <=> (pc[r] \in {"lock", "enter", "claim", "open"})
  /\ \A w \in Writers :
       /\ (write_lock = w) <=> (pc[w] \in {"enter", "claim", "exit"})
       /\ (resource = w) <=> (pc[w] \in {"add", "advance", "free"})

(* A reader holds the resource for all that have entered, a writer holds   *)
(* readTry for all that have joined, unless the first is still locking it. *)
ResourceShared ==
  /\ read_count = Cardinality(Entered)
  /\ \A r \in Readers : pc[r] = "claim" => Entered = {r}
  /\ (resource \in Readers) <=>
       (Entered # {} /\ \A r \in Readers : pc[r] # "claim")

GateShared ==
  /\ write_count = Cardinality(Joined)
  /\ \A w \in Writers : pc[w] = "claim" => Joined = {w}
  /\ (readTry \in Writers) <=>
       (Joined # {} /\ \A w \in Writers : pc[w] # "claim")

LockInv == OwnLocks /\ ResourceShared /\ GateShared

(* read_count counts a finite set. *)
LEMMA EnteredFinite == IsFiniteSet(Entered) /\ Cardinality(Entered) \in Nat
<1>1. Entered \in SUBSET Readers
  BY DEF Entered
<1>2. QED
  BY <1>1, CountReaders, FS_Subset, FS_CardinalityType

(* write_count counts a finite set. *)
LEMMA JoinedFinite == IsFiniteSet(Joined) /\ Cardinality(Joined) \in Nat
<1>1. Joined \in SUBSET Writers
  BY DEF Joined
<1>2. QED
  BY <1>1, CountWriters, FS_Subset, FS_CardinalityType

(* At the start nobody holds a lock and nobody is counted. *)
LEMMA LockInit == Init => LockInv
<1> SUFFICES ASSUME Init PROVE LockInv
  OBVIOUS
<1>1. Entered = {} /\ Joined = {}
  BY KindsDiffer DEF Init, Threads, Entered, Joined
<1>2. Cardinality({}) = 0
  BY FS_EmptySet
<1>3. \A t \in Readers \cup Writers : pc[t] = "start" /\ t # Nobody
  BY KindsDiffer DEF Init, Threads
<1>4. QED
  BY <1>1, <1>2, <1>3, KindsDiffer
     DEF Init, LockInv, OwnLocks, ResourceShared, GateShared, Threads

(* Every lock, unlock and count keeps locks and places in agreement. *)
LEMMA LockStep == TypeInv /\ LockInv /\ [Next]_vars => LockInv'
<1> SUFFICES ASSUME ControlTyped, LocksTyped, OwnLocks, ResourceShared,
                    GateShared, [Next]_vars
             PROVE  OwnLocks' /\ ResourceShared' /\ GateShared'
  BY DEF TypeInv, LockInv
<1>1. ASSUME NEW r \in Readers, Reader(r)
      PROVE  OwnLocks' /\ ResourceShared' /\ GateShared'
  <2>1. CASE LockReadTry(r)
    <3>1. Entered' = Entered /\ Joined' = Joined
      BY <2>1, KindsDiffer
         DEF LockReadTry, At, GoTo, ControlTyped, Threads, Entered, Joined
    <3>2. QED
      BY <2>1, <3>1, KindsDiffer
         DEF LockReadTry, At, GoTo, ControlTyped, LocksTyped, Threads,
             OwnLocks, ResourceShared, GateShared, locks, counts
  <2>2. CASE LockToEnter(r)
    <3>1. Entered' = Entered /\ Joined' = Joined
      BY <2>2, KindsDiffer
         DEF LockToEnter, At, GoTo, ControlTyped, Threads, Entered, Joined
    <3>2. QED
      BY <2>2, <3>1, KindsDiffer
         DEF LockToEnter, At, GoTo, ControlTyped, LocksTyped, Threads,
             OwnLocks, ResourceShared, GateShared, locks, counts
  <2>3. CASE ReaderEnter(r)
    <3> DEFINE next == IF read_count' = 1 THEN "claim" ELSE "open"
    <3>1. pc' = [pc EXCEPT ![r] = next] /\ pc[r] = "enter"
      BY <2>3 DEF ReaderEnter, At, GoTo
    <3>2. Entered' = Entered \cup {r} /\ r \notin Entered /\ Joined' = Joined
      BY <3>1, KindsDiffer DEF ControlTyped, Threads, Entered, Joined
    <3>3. /\ Cardinality(Entered') = Cardinality(Entered) + 1
          /\ Cardinality(Entered) \in Nat
          /\ Cardinality(Entered) = 0 <=> Entered = {}
      BY <3>2, EnteredFinite, FS_AddElement, FS_EmptySet
    <3>4. read_count' = read_count + 1 /\ (read_count' = 1 <=> Entered = {})
      BY <2>3, <3>3 DEF ReaderEnter, ResourceShared
    <3>5. \A s \in Readers : pc[s] # "claim"
      BY <3>1 DEF OwnLocks
    <3>6. OwnLocks'
      BY <2>3, KindsDiffer
         DEF ReaderEnter, At, GoTo, ControlTyped, LocksTyped, Threads,
             OwnLocks, locks, counts
    <3>7. ResourceShared'
      <4>1. CASE Entered = {}
        BY <2>3, <3>1, <3>2, <3>3, <3>4, <3>5, <4>1
           DEF ReaderEnter, ResourceShared, ControlTyped, Threads, locks
      <4>2. CASE Entered # {}
        BY <2>3, <3>1, <3>2, <3>3, <3>4, <3>5, <4>2
           DEF ReaderEnter, ResourceShared, ControlTyped, Threads, locks
      <4>3. QED
        BY <4>1, <4>2
    <3>8. GateShared'
      BY <2>3, <3>1, <3>2, KindsDiffer
         DEF ReaderEnter, GateShared, ControlTyped, Threads, locks
    <3>9. QED
      BY <3>6, <3>7, <3>8
  <2>4. CASE ReaderClaim(r)
    <3>1. Entered' = Entered /\ Joined' = Joined
      BY <2>4, KindsDiffer
         DEF ReaderClaim, At, GoTo, ControlTyped, Threads, Entered, Joined
    <3>2. QED
      BY <2>4, <3>1, KindsDiffer
         DEF ReaderClaim, At, GoTo, ControlTyped, LocksTyped, Threads,
             OwnLocks, ResourceShared, GateShared, locks, counts
  <2>5. CASE ReaderOpen(r)
    <3>1. Entered' = Entered /\ Joined' = Joined
      BY <2>5, KindsDiffer
         DEF ReaderOpen, At, GoTo, ControlTyped, Threads, Entered, Joined
    <3>2. QED
      BY <2>5, <3>1, KindsDiffer
         DEF ReaderOpen, At, GoTo, ControlTyped, LocksTyped, Threads,
             OwnLocks, ResourceShared, GateShared, locks, counts
  <2>6. CASE ScanNode(r)
    <3>1. Entered' = Entered /\ Joined' = Joined
      BY <2>6, KindsDiffer
         DEF ScanNode, At, GoTo, ControlTyped, Threads, Entered, Joined
    <3>2. QED
      BY <2>6, <3>1, KindsDiffer
         DEF ScanNode, At, GoTo, ControlTyped, LocksTyped, Threads, OwnLocks,
             ResourceShared, GateShared, locks, counts
  <2>7. CASE ScanWild(r)
    <3>1. Entered' = Entered /\ Joined' = Joined
      BY <2>7, KindsDiffer
         DEF ScanWild, At, GoTo, ControlTyped, Threads, Entered, Joined
    <3>2. QED
      BY <2>7, <3>1, KindsDiffer
         DEF ScanWild, At, GoTo, ControlTyped, LocksTyped, Threads, OwnLocks,
             ResourceShared, GateShared, locks, counts
  <2>8. CASE LogRead(r)
    <3>1. Entered' = Entered /\ Joined' = Joined
      BY <2>8, KindsDiffer
         DEF LogRead, At, GoTo, ControlTyped, Threads, Entered, Joined
    <3>2. QED
      BY <2>8, <3>1, KindsDiffer
         DEF LogRead, At, GoTo, ControlTyped, LocksTyped, Threads, OwnLocks,
             ResourceShared, GateShared, locks, counts
  <2>9. CASE LockToLeave(r)
    <3>1. Entered' = Entered /\ Joined' = Joined
      BY <2>9, KindsDiffer
         DEF LockToLeave, At, GoTo, ControlTyped, Threads, Entered, Joined
    <3>2. QED
      BY <2>9, <3>1, KindsDiffer
         DEF LockToLeave, At, GoTo, ControlTyped, LocksTyped, Threads,
             OwnLocks, ResourceShared, GateShared, locks, counts
  <2>10. CASE ReaderExit(r)
    <3>1. PICK label \in {"start", "finish"} :
            pc' = [pc EXCEPT ![r] = label]
      BY <2>10 DEF ReaderExit, EndRound, GoTo
    <3>2. pc[r] = "exit" /\ read_lock = r /\ r \in Entered
      BY <2>10 DEF ReaderExit, At, OwnLocks, Entered
    <3>3. Entered' = Entered \ {r} /\ Joined' = Joined
      BY <3>1, <3>2, KindsDiffer DEF ControlTyped, Threads, Entered, Joined
    <3>4. /\ Cardinality(Entered') = Cardinality(Entered) - 1
          /\ Cardinality(Entered') = 0 <=> Entered' = {}
      BY <3>2, <3>3, EnteredFinite, FS_RemoveElement, FS_EmptySet
    <3>5. /\ read_count' = read_count - 1
          /\ read_count' = 0 <=> Entered' = {}
      BY <2>10, <3>4 DEF ReaderExit, ResourceShared
    <3>6. resource \in Readers /\ \A s \in Readers : pc[s] # "claim"
      BY <3>2 DEF ResourceShared
    <3>7. OwnLocks'
      BY <2>10, <3>1, <3>2, <3>6, KindsDiffer
         DEF ReaderExit, ControlTyped, LocksTyped, Threads, OwnLocks
    <3>8. ResourceShared'
      BY <2>10, <3>1, <3>3, <3>4, <3>5, <3>6, KindsDiffer
         DEF ReaderExit, ResourceShared, ControlTyped, Threads
    <3>9. GateShared'
      BY <2>10, <3>1, <3>3, KindsDiffer
         DEF ReaderExit, GateShared, ControlTyped, Threads
    <3>10. QED
      BY <3>7, <3>8, <3>9
  <2>11. CASE LockToFinish(r)
    <3>1. Entered' = Entered /\ Joined' = Joined
      BY <2>11, KindsDiffer
         DEF LockToFinish, At, GoTo, ControlTyped, Threads, Entered, Joined
    <3>2. QED
      BY <2>11, <3>1, KindsDiffer
         DEF LockToFinish, At, GoTo, ControlTyped, LocksTyped, Threads,
             OwnLocks, ResourceShared, GateShared, locks, counts
  <2>12. CASE SignalDone(r)
    <3>1. Entered' = Entered /\ Joined' = Joined
      BY <2>12, KindsDiffer
         DEF SignalDone, At, GoTo, ControlTyped, Threads, Entered, Joined
    <3>2. QED
      BY <2>12, <3>1, KindsDiffer
         DEF SignalDone, At, GoTo, ControlTyped, LocksTyped, Threads,
             OwnLocks, ResourceShared, GateShared, locks, counts
  <2>13. QED
    BY <1>1, <2>1, <2>2, <2>3, <2>4, <2>5, <2>6, <2>7, <2>8, <2>9, <2>10,
       <2>11, <2>12
       DEF Reader
<1>2. ASSUME NEW w \in Writers, Writer(w)
      PROVE  OwnLocks' /\ ResourceShared' /\ GateShared'
  <2>1. CASE LockWrite(w)
    <3>1. Entered' = Entered /\ Joined' = Joined
      BY <2>1, KindsDiffer
         DEF LockWrite, At, GoTo, ControlTyped, Threads, Entered, Joined
    <3>2. QED
      BY <2>1, <3>1, KindsDiffer
         DEF LockWrite, At, GoTo, ControlTyped, LocksTyped, Threads, OwnLocks,
             ResourceShared, GateShared, locks, counts
  <2>2. CASE WriterEnter(w)
    <3> DEFINE next == IF write_count' = 1 THEN "claim" ELSE "await"
    <3>1. pc' = [pc EXCEPT ![w] = next] /\ pc[w] = "enter"
      BY <2>2 DEF WriterEnter, At, GoTo
    <3>2. Joined' = Joined \cup {w} /\ w \notin Joined /\ Entered' = Entered
      BY <3>1, KindsDiffer DEF ControlTyped, Threads, Entered, Joined
    <3>3. /\ Cardinality(Joined') = Cardinality(Joined) + 1
          /\ Cardinality(Joined) \in Nat
          /\ Cardinality(Joined) = 0 <=> Joined = {}
      BY <3>2, JoinedFinite, FS_AddElement, FS_EmptySet
    <3>4. write_count' = write_count + 1 /\ (write_count' = 1 <=> Joined = {})
      BY <2>2, <3>3 DEF WriterEnter, GateShared
    <3>5. \A s \in Writers : pc[s] # "claim"
      BY <3>1 DEF OwnLocks
    <3>6. OwnLocks'
      BY <2>2, KindsDiffer
         DEF WriterEnter, At, GoTo, ControlTyped, LocksTyped, Threads,
             OwnLocks, locks, counts
    <3>7. GateShared'
      <4>1. CASE Joined = {}
        BY <2>2, <3>1, <3>2, <3>3, <3>4, <3>5, <4>1
           DEF WriterEnter, GateShared, ControlTyped, Threads, locks
      <4>2. CASE Joined # {}
        BY <2>2, <3>1, <3>2, <3>3, <3>4, <3>5, <4>2
           DEF WriterEnter, GateShared, ControlTyped, Threads, locks
      <4>3. QED
        BY <4>1, <4>2
    <3>8. ResourceShared'
      BY <2>2, <3>1, <3>2, KindsDiffer
         DEF WriterEnter, ResourceShared, ControlTyped, Threads, locks
    <3>9. QED
      BY <3>6, <3>7, <3>8
  <2>3. CASE WriterClaim(w)
    <3>1. Entered' = Entered /\ Joined' = Joined
      BY <2>3, KindsDiffer
         DEF WriterClaim, At, GoTo, ControlTyped, Threads, Entered, Joined
    <3>2. QED
      BY <2>3, <3>1, KindsDiffer
         DEF WriterClaim, At, GoTo, ControlTyped, LocksTyped, Threads,
             OwnLocks, ResourceShared, GateShared, locks, counts
  <2>4. CASE LockResource(w)
    <3>1. Entered' = Entered /\ Joined' = Joined
      BY <2>4, KindsDiffer
         DEF LockResource, At, GoTo, ControlTyped, Threads, Entered, Joined
    <3>2. QED
      BY <2>4, <3>1, KindsDiffer
         DEF LockResource, At, GoTo, ControlTyped, LocksTyped, Threads,
             OwnLocks, ResourceShared, GateShared, locks, counts
  <2>5. CASE Add(w)
    <3>1. Entered' = Entered /\ Joined' = Joined
      BY <2>5, KindsDiffer
         DEF Add, AppendNode, At, GoTo, ControlTyped, Threads, Entered, Joined
    <3>2. QED
      BY <2>5, <3>1, KindsDiffer
         DEF Add, AppendNode, At, GoTo, ControlTyped, LocksTyped, Threads,
             OwnLocks, ResourceShared, GateShared, locks, counts
  <2>6. CASE AdvanceTail(w)
    <3>1. Entered' = Entered /\ Joined' = Joined
      BY <2>6, KindsDiffer
         DEF AdvanceTail, At, GoTo, ControlTyped, Threads, Entered, Joined
    <3>2. QED
      BY <2>6, <3>1, KindsDiffer
         DEF AdvanceTail, At, GoTo, ControlTyped, LocksTyped, Threads,
             OwnLocks, ResourceShared, GateShared, locks, counts
  <2>7. CASE UnlockResource(w)
    <3>1. Entered' = Entered /\ Joined' = Joined
      BY <2>7, KindsDiffer
         DEF UnlockResource, At, GoTo, ControlTyped, Threads, Entered, Joined
    <3>2. QED
      BY <2>7, <3>1, KindsDiffer
         DEF UnlockResource, At, GoTo, ControlTyped, LocksTyped, Threads,
             OwnLocks, ResourceShared, GateShared, locks, counts
  <2>8. CASE LockWriteToLeave(w)
    <3>1. Entered' = Entered /\ Joined' = Joined
      BY <2>8, KindsDiffer
         DEF LockWriteToLeave, At, GoTo, ControlTyped, Threads, Entered,
             Joined
    <3>2. QED
      BY <2>8, <3>1, KindsDiffer
         DEF LockWriteToLeave, At, GoTo, ControlTyped, LocksTyped, Threads,
             OwnLocks, ResourceShared, GateShared, locks, counts
  <2>9. CASE WriterExit(w)
    <3>1. PICK label \in {"start", "done"} :
            pc' = [pc EXCEPT ![w] = label]
      BY <2>9 DEF WriterExit, EndRound, GoTo
    <3>2. pc[w] = "exit" /\ write_lock = w /\ w \in Joined
      BY <2>9 DEF WriterExit, At, OwnLocks, Joined
    <3>3. Joined' = Joined \ {w} /\ Entered' = Entered
      BY <3>1, <3>2, KindsDiffer DEF ControlTyped, Threads, Entered, Joined
    <3>4. /\ Cardinality(Joined') = Cardinality(Joined) - 1
          /\ Cardinality(Joined') = 0 <=> Joined' = {}
      BY <3>2, <3>3, JoinedFinite, FS_RemoveElement, FS_EmptySet
    <3>5. /\ write_count' = write_count - 1
          /\ write_count' = 0 <=> Joined' = {}
      BY <2>9, <3>4 DEF WriterExit, GateShared
    <3>6. readTry \in Writers /\ \A s \in Writers : pc[s] # "claim"
      BY <3>2 DEF GateShared
    <3>7. OwnLocks'
      BY <2>9, <3>1, <3>2, <3>6, KindsDiffer
         DEF WriterExit, ControlTyped, LocksTyped, Threads, OwnLocks
    <3>8. GateShared'
      BY <2>9, <3>1, <3>3, <3>4, <3>5, <3>6, KindsDiffer
         DEF WriterExit, GateShared, ControlTyped, Threads
    <3>9. ResourceShared'
      BY <2>9, <3>1, <3>3, KindsDiffer
         DEF WriterExit, ResourceShared, ControlTyped, Threads
    <3>10. QED
      BY <3>7, <3>8, <3>9
  <2>10. QED
    BY <1>2, <2>1, <2>2, <2>3, <2>4, <2>5, <2>6, <2>7, <2>8, <2>9
       DEF Writer
<1>3. CASE LockToCheck
  <2>1. Entered' = Entered /\ Joined' = Joined
    BY <1>3, KindsDiffer
       DEF LockToCheck, At, GoTo, ControlTyped, Threads, Entered, Joined
  <2>2. QED
    BY <1>3, <2>1, KindsDiffer
       DEF LockToCheck, At, GoTo, ControlTyped, LocksTyped, Threads, OwnLocks,
           ResourceShared, GateShared, locks, counts
<1>4. CASE TestAlmostDone
  <2>1. Entered' = Entered /\ Joined' = Joined
    BY <1>4, KindsDiffer
       DEF TestAlmostDone, At, GoTo, ControlTyped, Threads, Entered, Joined
  <2>2. QED
    BY <1>4, <2>1, KindsDiffer
       DEF TestAlmostDone, At, GoTo, ControlTyped, LocksTyped, Threads,
           OwnLocks, ResourceShared, GateShared, locks, counts
<1>5. CASE WakeUnsignalled
  <2>1. Entered' = Entered /\ Joined' = Joined
    BY <1>5, KindsDiffer
       DEF WakeUnsignalled, At, GoTo, ControlTyped, Threads, Entered, Joined
  <2>2. QED
    BY <1>5, <2>1, KindsDiffer
       DEF WakeUnsignalled, At, GoTo, ControlTyped, LocksTyped, Threads,
           OwnLocks, ResourceShared, GateShared, locks, counts
<1>6. CASE MainJoins
  <2>1. Entered' = Entered /\ Joined' = Joined
    BY <1>6, KindsDiffer
       DEF MainJoins, At, GoTo, ControlTyped, Threads, Entered, Joined
  <2>2. QED
    BY <1>6, <2>1, KindsDiffer
       DEF MainJoins, At, GoTo, ControlTyped, LocksTyped, Threads, OwnLocks,
           ResourceShared, GateShared, locks, counts
<1>7. CASE UNCHANGED vars
  BY <1>7
     DEF vars, OwnLocks, ResourceShared, GateShared, Entered, Joined, locks,
         counts, done
<1>8. QED
  BY <1>1, <1>2, <1>3, <1>4, <1>5, <1>6, <1>7
     DEF Next, CheckAlmostDone, Ended

(* The locking invariant holds in every state: read_count and write_count  *)
(* never miss a thread, and each shared lock is held exactly while some    *)
(* thread of its kind needs it.                                            *)
THEOREM LockInvariant == Spec => []LockInv
<1>1. Init => LockInv
  BY LockInit
<1>2. TypeInv /\ LockInv /\ [Next]_vars => LockInv'
  BY LockStep
<1>3. QED
  BY <1>1, <1>2, TypeInvariant, PTL DEF Spec

(* A reader at claim would be alone, so a reader in read() knows that the  *)
(* resource is locked for the readers; a writer in add() has locked it.    *)
LEMMA LockInvExcludes == LockInv => MutualExclusion
<1> SUFFICES ASSUME OwnLocks, ResourceShared, NEW w \in Writers, Writing(w)
             PROVE  /\ \A r \in Readers : ~Reading(r)
                    /\ \A v \in Writers : Writing(v) => v = w
  BY DEF LockInv, MutualExclusion
<1>1. resource = w
  BY DEF OwnLocks, Writing
<1>2. ASSUME NEW r \in Readers, Reading(r) PROVE FALSE
  <2>1. r \in Entered /\ pc[r] # "claim"
    BY <1>2 DEF Entered, Reading
  <2>2. \A s \in Readers : pc[s] # "claim"
    BY <2>1 DEF ResourceShared
  <2>3. resource \in Readers
    BY <2>1, <2>2 DEF ResourceShared
  <2>4. QED
    BY <1>1, <2>3, KindsDiffer
<1>3. \A v \in Writers : Writing(v) => v = w
  BY <1>1 DEF OwnLocks, Writing
<1>4. QED
  BY <1>2, <1>3

(* add() never runs beside another add() or a read(), however many readers *)
(* and writers there are.                                                  *)
THEOREM Exclusion == Spec => []MutualExclusion
BY LockInvariant, LockInvExcludes, PTL

(* Some writer stands between its two locks: the readers are shut out.     *)
WriterWaits == \E w \in Writers : pc[w] \in {"await", "leave"} \/ Writing(w)

(* A waiting writer has joined and is past its claim: readTry is locked    *)
(* for the writers, so no reader stands where it could add itself.         *)
LEMMA WaitingShutsReadersOut ==
  ASSUME OwnLocks, GateShared, WriterWaits
  PROVE  \A r \in Readers : pc[r] # "enter"
<1>1. PICK w \in Writers : pc[w] \in {"await", "leave"} \/ Writing(w)
  BY DEF WriterWaits
<1>2. w \in Joined /\ pc[w] # "claim"
  BY <1>1 DEF Joined, Writing
<1>3. \A v \in Writers : pc[v] # "claim"
  BY <1>2 DEF GateShared
<1>4. readTry \in Writers
  BY <1>2, <1>3 DEF GateShared
<1>5. QED
  BY <1>4, KindsDiffer DEF OwnLocks

(* Only ReaderEnter raises read_count. *)
LEMMA NoEntryNoRise ==
  ASSUME LocksTyped, [Next]_vars, \A r \in Readers : pc[r] # "enter"
  PROVE  read_count' <= read_count
<1>1. ASSUME NEW r \in Readers, Reader(r)
      PROVE  read_count' = read_count \/ read_count' = read_count - 1
  <2>1. ~ReaderEnter(r)
    BY DEF ReaderEnter, At
  <2>2. QED
    BY <1>1, <2>1
       DEF Reader, LockReadTry, LockToEnter, ReaderClaim, ReaderOpen,
           ScanNode, ScanWild, LogRead, LockToLeave, ReaderExit,
           LockToFinish, SignalDone, counts
<1>2. ASSUME NEW w \in Writers, Writer(w) PROVE read_count' = read_count
  BY <1>2
     DEF Writer, LockWrite, WriterEnter, WriterClaim, LockResource, Add,
         AdvanceTail, UnlockResource, LockWriteToLeave, WriterExit, counts
<1>3. CASE CheckAlmostDone \/ WakeUnsignalled \/ MainJoins
  BY <1>3 DEF CheckAlmostDone, LockToCheck, TestAlmostDone, WakeUnsignalled,
              MainJoins, counts, LocksTyped
<1>4. CASE UNCHANGED vars
  BY <1>4 DEF vars, counts, LocksTyped
<1>5. QED
  BY <1>1, <1>2, <1>3, <1>4 DEF Next, Ended, LocksTyped

(* The writer preference of the README: no reader is let in while a writer *)
(* waits for the resource or is at the list.                               *)
THEOREM WritersPreferred == Spec => WriterPreference
<1>1. TypeInv /\ LockInv /\ [Next]_vars
        => [WriterWaits => read_count' <= read_count]_vars
  BY WaitingShutsReadersOut, NoEntryNoRise DEF TypeInv, LockInv
<1>2. Spec => [][WriterWaits => read_count' <= read_count]_vars
  BY <1>1, TypeInvariant, LockInvariant, PTL DEF Spec
<1>3. QED
  BY <1>2 DEF WriterPreference, WriterWaits

-----------------------------------------------------------------------------
(* The announcement.                                                       *)

(* The readers almost_done still counts. *)
AtWork == {r \in Readers : pc[r] # "done"}

DoneInv ==
  /\ almost_done = Cardinality(AtWork)
  /\ pc[Checker] = "done" => almost_done <= 1

(* almost_done counts a finite set. *)
LEMMA AtWorkFinite == IsFiniteSet(AtWork) /\ Cardinality(AtWork) \in Nat
<1>1. AtWork \in SUBSET Readers
  BY DEF AtWork
<1>2. QED
  BY <1>1, CountReaders, FS_Subset, FS_CardinalityType

(* At the start every reader is at work. *)
LEMMA DoneInit == Init => DoneInv
<1> SUFFICES ASSUME Init PROVE DoneInv
  OBVIOUS
<1>1. AtWork = Readers /\ pc[Checker] = "lock"
  BY KindsDiffer DEF Init, Threads, AtWork
<1>2. QED
  BY <1>1, CountReaders DEF Init, DoneInv

(* Only SignalDone takes a reader out of AtWork, and counts it down. *)
LEMMA DoneStep == TypeInv /\ DoneInv /\ [Next]_vars => DoneInv'
<1> SUFFICES ASSUME ControlTyped, LocksTyped, DoneInv, [Next]_vars
             PROVE  DoneInv'
  BY DEF TypeInv
<1>1. ASSUME NEW r \in Readers, SignalDone(r) PROVE DoneInv'
  <2>1. pc[r] = "signal" /\ almost_done' = almost_done - 1
    BY <1>1 DEF SignalDone, At
  <2>2. pc' = [pc EXCEPT ![r] = "done",
                         ![Checker] = IF @ = "wait" THEN "lock" ELSE @]
    BY <1>1 DEF SignalDone
  <2>3. \A s \in Readers : pc'[s] = IF s = r THEN "done" ELSE pc[s]
    BY <2>2, KindsDiffer DEF ControlTyped, Threads
  <2>4. AtWork' = AtWork \ {r} /\ r \in AtWork
    BY <2>1, <2>3 DEF AtWork
  <2>5. Cardinality(AtWork') = Cardinality(AtWork) - 1
    BY <2>4, AtWorkFinite, FS_RemoveElement
  <2>6. pc'[Checker] = "done" => pc[Checker] = "done"
    BY <2>2, KindsDiffer DEF ControlTyped, Threads
  <2>7. QED
    BY <2>1, <2>5, <2>6 DEF DoneInv, LocksTyped
<1>2. ASSUME NEW r \in Readers, Reader(r), ~SignalDone(r) PROVE DoneInv'
  <2>1. PICK label \in ReaderLabels \ {"done"} :
           GoTo(r, label) \/ UNCHANGED pc
    BY <1>2
       DEF Reader, LockReadTry, LockToEnter, ReaderEnter, ReaderClaim,
           ReaderOpen, ScanNode, ScanWild, LogRead, LockToLeave, ReaderExit,
           LockToFinish, SignalDone, EndRound, ReaderLabels
  <2>2. UNCHANGED almost_done /\ pc[r] # "done"
    BY <1>2
       DEF Reader, LockReadTry, LockToEnter, ReaderEnter, ReaderClaim,
           ReaderOpen, ScanNode, ScanWild, LogRead, LockToLeave, ReaderExit,
           LockToFinish, SignalDone, At, done
  <2>3. AtWork' = AtWork /\ pc'[Checker] = pc[Checker]
    BY <2>1, <2>2, KindsDiffer DEF ControlTyped, Threads, GoTo, AtWork
  <2>4. QED
    BY <2>2, <2>3 DEF DoneInv
<1>3. ASSUME NEW w \in Writers, Writer(w) PROVE DoneInv'
  <2>1. UNCHANGED almost_done /\ \E label \in WriterLabels : GoTo(w, label)
    BY <1>3
       DEF Writer, LockWrite, WriterEnter, WriterClaim, LockResource, Add,
           AppendNode, AdvanceTail, UnlockResource, LockWriteToLeave,
           WriterExit, EndRound, WriterLabels, done
  <2>2. AtWork' = AtWork /\ pc'[Checker] = pc[Checker]
    BY <2>1, KindsDiffer DEF ControlTyped, Threads, GoTo, AtWork
  <2>3. QED
    BY <2>1, <2>2 DEF DoneInv
<1>4. CASE CheckAlmostDone \/ WakeUnsignalled \/ MainJoins
  <2>1. UNCHANGED almost_done /\ AtWork' = AtWork
    BY <1>4, KindsDiffer
       DEF CheckAlmostDone, LockToCheck, TestAlmostDone, WakeUnsignalled,
           MainJoins, GoTo, ControlTyped, Threads, AtWork, done
  <2>2. pc'[Checker] = "done" => pc[Checker] = "done" \/ almost_done <= 1
    BY <1>4
       DEF CheckAlmostDone, LockToCheck, TestAlmostDone, WakeUnsignalled,
           MainJoins, GoTo, ControlTyped, Threads, LocksTyped
  <2>3. QED
    BY <2>1, <2>2 DEF DoneInv
<1>5. CASE UNCHANGED vars
  BY <1>5 DEF vars, done, DoneInv, AtWork
<1>6. QED
  BY <1>1, <1>2, <1>3, <1>4, <1>5 DEF Next, Ended

(* "Almost Done!" is never printed while two readers are at work: no wait, *)
(* signal or unsignalled return lets the checker through too early.        *)
THEOREM Announcement == Spec => []AnnouncedLate
<1>1. Spec => []DoneInv
  BY DoneInit, DoneStep, TypeInvariant, PTL DEF Spec
<1>2. DoneInv => AnnouncedLate
  BY DEF DoneInv, AnnouncedLate, AtWork
<1>3. QED
  BY <1>1, <1>2, PTL

-----------------------------------------------------------------------------
(* The list.                                                               *)

Advancing == \E w \in Writers : pc[w] = "advance"

(* The nodes hang behind each other in the order of their malloc; tail is  *)
(* the last of them, or the last but one while a writer stands inside      *)
(* add(); what follows the last was never written.                         *)
Chained == \A k \in 1..(Len(nodes) - 1) : nodes[k].next = k + 1
HeadFirst == head = IF nodes = << >> THEN NULL ELSE 1
TailLast == IF Advancing THEN Len(nodes) >= 2 /\ tail = Len(nodes) - 1
                         ELSE tail = Len(nodes)
LastUnlinked ==
  nodes # << >> => nodes[Len(nodes)].next \in {NULL, Wild}

ListInv == Chained /\ HeadFirst /\ TailLast /\ LastUnlinked

(* The empty list is whole. *)
LEMMA ListInit == Init => ListInv
<1> SUFFICES ASSUME Init PROVE ListInv
  OBVIOUS
<1>1. nodes = << >> /\ head = NULL /\ tail = 0 /\ ~Advancing
  BY KindsDiffer DEF Init, Threads, Advancing, NULL
<1>2. Len(nodes) = 0
  BY <1>1
<1>3. QED
  BY <1>1, <1>2
     DEF ListInv, Chained, HeadFirst, TailLast, LastUnlinked

(* One add() behind the tail keeps the chain and leaves the new node last. *)
LEMMA AddBehindTail ==
  ASSUME nodes \in Seq(Node), nodes # << >>, Chained,
         NEW node \in Node, node.next \in {NULL, Wild},
         nodes' = Append([nodes EXCEPT ![Len(nodes)].next = Len(nodes) + 1],
                         node)
  PROVE  /\ Len(nodes') = Len(nodes) + 1 /\ Len(nodes) \in Nat \ {0}
         /\ Chained' /\ LastUnlinked'
<1> DEFINE n == Len(nodes)
           linked == [nodes EXCEPT ![n].next = n + 1]
<1>1. n \in Nat \ {0} /\ n + 1 \in Nat \cup {Wild}
  OBVIOUS
<1>2. linked \in Seq(Node) /\ Len(linked) = n
  BY <1>1, NextSet
<1>3. \A k \in 1..n : linked[k].next = IF k = n THEN n + 1 ELSE nodes[k].next
  <2>1. ASSUME NEW k \in 1..n PROVE nodes[k] \in Node
    OBVIOUS
  <2>2. nodes[n] \in Node
    BY <1>1, <2>1
  <2>3. [nodes[n] EXCEPT !.next = n + 1].next = n + 1
    BY <2>2 DEF Node
  <2>4. linked[n] = [nodes[n] EXCEPT !.next = n + 1]
    BY <1>1
  <2>5. \A k \in 1..n : k # n => linked[k] = nodes[k]
    OBVIOUS
  <2>6. QED
    BY <2>3, <2>4, <2>5
<1> HIDE DEF linked
<1>4. nodes' = Append(linked, node)
  BY DEF linked
<1>5. /\ Len(nodes') = n + 1
      /\ \A k \in 1..n : nodes'[k] = linked[k]
      /\ nodes'[n + 1] = node
  BY SMTT(30), <1>1, <1>2, <1>4
<1>6. \A k \in 1..n : nodes'[k].next = k + 1
  BY <1>1, <1>3, <1>5 DEF Chained
<1>7. QED
  BY <1>1, <1>5, <1>6 DEF Chained, LastUnlinked

(* add() is atomic for the list: the other steps leave it alone. *)
LEMMA ListStep == TypeInv /\ LockInv /\ ListInv /\ [Next]_vars => ListInv'
<1> SUFFICES ASSUME ControlTyped, ListTyped, OwnLocks, ListInv, [Next]_vars
             PROVE  ListInv'
  BY DEF TypeInv, LockInv
<1>1. ASSUME NEW w \in Writers, Add(w) PROVE ListInv'
  <2>1. pc[w] = "add" /\ \A v \in Writers : pc[v] = "advance" => v = w
    BY <1>1 DEF Add, At, OwnLocks
  <2>2. ~Advancing /\ tail = Len(nodes)
    BY <2>1 DEF Advancing, ListInv, TailLast
  <2>3. PICK draw \in Draws, junk \in Leftover : AppendNode(w, draw, junk)
    BY <1>1 DEF Add
  <2> DEFINE node == [value |-> draw * 10 + Num(w), next |-> junk]
  <2>4. junk \in {NULL, Wild}
    BY EnvironmentAssumption DEF EnvironmentAssumption
  <2>5. node \in Node /\ node.next \in {NULL, Wild}
    <3>1. draw * 10 + Num(w) \in 11..1009
      BY NumberOfThread, EnvironmentAssumption DEF EnvironmentAssumption
    <3>2. QED
      BY <2>4, <3>1 DEF Node, NULL
  <2>6. nodes \in Seq(Node)
    BY DEF ListTyped
  <2> HIDE DEF node
  <2>7. CASE head = NULL
    <3>1. nodes = << >> /\ Len(nodes) = 0
      BY <2>7 DEF ListInv, HeadFirst, NULL
    <3>2. /\ nodes' = Append(nodes, node) /\ head' = 1 /\ tail' = 1
          /\ GoTo(w, "free")
      BY <2>3, <2>7, <3>1 DEF AppendNode, node
    <3>3. nodes' # << >> /\ Len(nodes') = 1 /\ nodes'[1] = node
      BY <2>5, <2>6, <3>1, <3>2
    <3>4. ~Advancing'
      BY <2>2, <3>2 DEF GoTo, Advancing, ControlTyped, Threads
    <3>5. QED
      BY <2>5, <3>2, <3>3, <3>4
         DEF ListInv, Chained, HeadFirst, TailLast, LastUnlinked
  <2>8. CASE head # NULL
    <3>1. nodes # << >> /\ head = 1
      BY <2>8 DEF ListInv, HeadFirst
    <3>2. /\ nodes' = Append([nodes EXCEPT ![Len(nodes)].next
                                = Len(nodes) + 1], node)
          /\ head' = head /\ tail' = tail /\ GoTo(w, "advance")
      BY <2>2, <2>3, <2>8 DEF AppendNode, node
    <3>3. /\ Len(nodes') = Len(nodes) + 1 /\ Len(nodes) \in Nat \ {0}
          /\ Chained' /\ LastUnlinked'
      BY <2>5, <2>6, <3>1, <3>2, AddBehindTail DEF ListInv
    <3>4. Advancing'
      BY <3>2 DEF GoTo, Advancing, ControlTyped, Threads
    <3>5. nodes' # << >>
      BY <3>3
    <3>6. QED
      BY <2>2, <3>1, <3>2, <3>3, <3>4, <3>5
         DEF ListInv, HeadFirst, TailLast
  <2>9. QED
    BY <2>7, <2>8
<1>2. ASSUME NEW w \in Writers, AdvanceTail(w) PROVE ListInv'
  <2>1. pc[w] = "advance" /\ \A v \in Writers : pc[v] = "advance" => v = w
    BY <1>2 DEF AdvanceTail, At, OwnLocks
  <2>2. tail = Len(nodes) - 1 /\ Len(nodes) >= 2
    BY <2>1 DEF Advancing, ListInv, TailLast
  <2>3. Len(nodes) \in Nat
    BY DEF ListTyped
  <2>4. tail' = Len(nodes)
    BY <1>2, <2>2, <2>3 DEF AdvanceTail, ListInv, Chained
  <2>5. ~Advancing'
    BY <1>2, <2>1 DEF AdvanceTail, GoTo, Advancing, ControlTyped, Threads
  <2>6. QED
    BY <1>2, <2>4, <2>5
       DEF AdvanceTail, ListInv, Chained, HeadFirst, TailLast, LastUnlinked
<1>3. ASSUME UNCHANGED list, Advancing' <=> Advancing PROVE ListInv'
  BY <1>3 DEF list, ListInv, Chained, HeadFirst, TailLast, LastUnlinked
<1>4. ASSUME NEW r \in Readers, Reader(r) PROVE ListInv'
  <2>1. UNCHANGED list
    BY <1>4
       DEF Reader, LockReadTry, LockToEnter, ReaderEnter, ReaderClaim,
           ReaderOpen, ScanNode, ScanWild, LogRead, LockToLeave, ReaderExit,
           LockToFinish, SignalDone
  <2>2. \A w \in Writers : pc'[w] = pc[w]
    BY <1>4, KindsDiffer
       DEF Reader, LockReadTry, LockToEnter, ReaderEnter, ReaderClaim,
           ReaderOpen, ScanNode, ScanWild, LogRead, LockToLeave, ReaderExit,
           LockToFinish, SignalDone, EndRound, GoTo, ControlTyped, Threads
  <2>3. QED
    BY <1>3, <2>1, <2>2 DEF Advancing
<1>5. ASSUME NEW w \in Writers, Writer(w), ~Add(w), ~AdvanceTail(w)
      PROVE  ListInv'
  <2>1. UNCHANGED list
    BY <1>5
       DEF Writer, LockWrite, WriterEnter, WriterClaim, LockResource,
           UnlockResource, LockWriteToLeave, WriterExit
  <2>2. pc[w] # "advance" /\ \E label \in WriterLabels \ {"advance"} :
                                 GoTo(w, label)
    BY <1>5
       DEF Writer, LockWrite, WriterEnter, WriterClaim, LockResource,
           UnlockResource, LockWriteToLeave, WriterExit, EndRound, At,
           WriterLabels
  <2>3. Advancing' <=> Advancing
    BY <2>2 DEF Advancing, GoTo, ControlTyped, Threads
  <2>4. QED
    BY <1>3, <2>1, <2>3
<1>6. CASE CheckAlmostDone \/ WakeUnsignalled \/ MainJoins
  <2>1. UNCHANGED list /\ \A w \in Writers : pc'[w] = pc[w]
    BY <1>6, KindsDiffer
       DEF CheckAlmostDone, LockToCheck, TestAlmostDone, WakeUnsignalled,
           MainJoins, GoTo, ControlTyped, Threads
  <2>2. QED
    BY <1>3, <2>1 DEF Advancing
<1>7. CASE UNCHANGED vars
  BY <1>3, <1>7 DEF vars, Advancing
<1>8. QED
  BY <1>1, <1>2, <1>4, <1>5, <1>6, <1>7 DEF Next, Ended

(* No node is ever lost or linked twice, whatever the threads' order.      *)
THEOREM WholeList == Spec => []ListWhole
<1>1. Spec => []ListInv
  BY ListInit, ListStep, TypeInvariant, LockInvariant, PTL DEF Spec
<1>2. ListInv => ListWhole
  BY DEF ListInv, ListWhole, Chained, HeadFirst, TailLast, Advancing
<1>3. QED
  BY <1>1, <1>2, PTL

-----------------------------------------------------------------------------
(* What read() returns.                                                    *)

(* The values of its digit a reader has passed: all of them once it has    *)
(* run off the end of the list.                                            *)
Seen(r) == {k \in ValuesEndingIn(Num(r)) :
              temp[r] \in DOMAIN nodes => k < temp[r]}

ScanInv ==
  \A r \in Readers : Reading(r) =>
    /\ temp[r] \in {NULL, Wild} \cup DOMAIN nodes
    /\ retVal[r] = Cardinality(Seen(r))

(* A reader has seen finitely many nodes. *)
LEMMA SeenFinite ==
  ASSUME nodes \in Seq(Node), NEW r PROVE IsFiniteSet(Seen(r))
<1>1. Len(nodes) \in Nat /\ DOMAIN nodes = 1..Len(nodes)
  OBVIOUS
<1>2. IsFiniteSet(1..Len(nodes))
  BY <1>1, FS_Interval
<1>3. Seen(r) \in SUBSET (1..Len(nodes))
  BY <1>1 DEF Seen, ValuesEndingIn
<1>4. QED
  BY <1>2, <1>3, FS_Subset

(* At the start nobody reads. *)
LEMMA ScanInit == Init => ScanInv
BY KindsDiffer DEF Init, Threads, ScanInv, Reading

(* A reader that neither enters read() nor moves in it keeps what it saw,  *)
(* as long as the list is left alone.                                      *)
LEMMA SeenKept ==
  ASSUME NEW r \in Readers, UNCHANGED nodes, temp'[r] = temp[r],
         retVal'[r] = retVal[r], pc'[r] = "scan" => pc[r] = "scan", ScanInv
  PROVE  Reading(r)' =>
           /\ temp'[r] \in {NULL, Wild} \cup DOMAIN nodes'
           /\ retVal'[r] = Cardinality(Seen(r)')
<1>1. Seen(r)' = Seen(r)
  BY DEF Seen, ValuesEndingIn
<1>2. QED
  BY <1>1 DEF ScanInv, Reading

(* Each step of a scan counts the node it passes, and no add() runs beside. *)
LEMMA ScanStep ==
  TypeInv /\ LockInv /\ ListInv /\ ScanInv /\ [Next]_vars => ScanInv'
<1> SUFFICES ASSUME ControlTyped, ListTyped, LockInv, ListInv, ScanInv,
                    [Next]_vars,
                    NEW r \in Readers, Reading(r)'
             PROVE  /\ temp'[r] \in {NULL, Wild} \cup DOMAIN nodes'
                    /\ retVal'[r] = Cardinality(Seen(r)')
  BY DEF TypeInv, ScanInv
<1> DEFINE Goal == /\ temp'[r] \in {NULL, Wild} \cup DOMAIN nodes'
                   /\ retVal'[r] = Cardinality(Seen(r)')
<1>1. /\ nodes \in Seq(Node) /\ Len(nodes) \in Nat
      /\ DOMAIN nodes = 1..Len(nodes)
  BY DEF ListTyped
<1>2. CASE ReaderOpen(r)
  <2>1. temp'[r] = head /\ retVal'[r] = 0 /\ nodes' = nodes
    BY <1>2 DEF ReaderOpen, ListTyped, list
  <2>2. head \in {NULL} \cup DOMAIN nodes
    BY <1>1 DEF ListInv, HeadFirst
  <2>3. ASSUME NEW k \in DOMAIN nodes
        PROVE  head \in DOMAIN nodes /\ ~(k < head)
    BY <1>1 DEF ListInv, HeadFirst
  <2>4. Seen(r)' = {}
    BY <2>1, <2>3 DEF Seen, ValuesEndingIn
  <2>5. QED
    BY <2>1, <2>2, <2>4, FS_EmptySet
<1>3. CASE ScanNode(r)
  <2> DEFINE i == temp[r]
             hit == nodes[i].value % 10 = Num(r)
  <2>1. /\ Reading(r) /\ i \in DOMAIN nodes /\ nodes' = nodes
        /\ temp'[r] = nodes[i].next
        /\ retVal'[r] = IF hit THEN retVal[r] + 1 ELSE retVal[r]
    BY <1>3 DEF ScanNode, At, Reading, ListTyped, list
  <2>2. IF i = Len(nodes) THEN temp'[r] \in {NULL, Wild}
                          ELSE temp'[r] = i + 1 /\ i + 1 \in DOMAIN nodes
    <3>1. CASE i = Len(nodes)
      BY <1>1, <2>1, <3>1 DEF ListInv, LastUnlinked
    <3>2. CASE i # Len(nodes)
      BY <1>1, <2>1, <3>2 DEF ListInv, Chained
    <3>3. QED
      BY <3>1, <3>2
  <2>3. \A k \in DOMAIN nodes :
          (temp'[r] \in DOMAIN nodes => k < temp'[r]) <=> (k < i \/ k = i)
    <3>1. CASE i = Len(nodes)
      BY <1>1, <2>2, <3>1 DEF NULL, Wild
    <3>2. CASE i # Len(nodes)
      BY <1>1, <2>1, <2>2, <3>2
    <3>3. QED
      BY <3>1, <3>2
  <2>4. Seen(r)' = IF hit THEN Seen(r) \cup {i} ELSE Seen(r)
    BY <2>1, <2>3 DEF Seen, ValuesEndingIn
  <2>5. i \notin Seen(r)
    BY <1>1, <2>1 DEF Seen
  <2>6. Cardinality(Seen(r)')
          = IF hit THEN Cardinality(Seen(r)) + 1 ELSE Cardinality(Seen(r))
    BY <1>1, <2>4, <2>5, SeenFinite, FS_AddElement
  <2>7. retVal[r] = Cardinality(Seen(r))
    BY <2>1 DEF ScanInv
  <2>8. QED
    BY <2>1, <2>2, <2>6, <2>7
<1>4. ASSUME NEW s \in Readers, Reader(s), ~ReaderOpen(r), ~ScanNode(r)
      PROVE  Goal
  <2>1. UNCHANGED nodes
    BY <1>4
       DEF Reader, LockReadTry, LockToEnter, ReaderEnter, ReaderClaim,
           ReaderOpen, ScanNode, ScanWild, LogRead, LockToLeave, ReaderExit,
           LockToFinish, SignalDone, list
  <2>2. temp'[r] = temp[r] /\ retVal'[r] = retVal[r]
    BY <1>4
       DEF Reader, LockReadTry, LockToEnter, ReaderEnter, ReaderClaim,
           ReaderOpen, ScanNode, ScanWild, LogRead, LockToLeave, ReaderExit,
           LockToFinish, SignalDone, ListTyped, locals
  <2>3. pc'[r] = "scan" => pc[r] = "scan"
    BY <1>4, KindsDiffer
       DEF Reader, LockReadTry, LockToEnter, ReaderEnter, ReaderClaim,
           ReaderOpen, ScanNode, ScanWild, LogRead, LockToLeave, ReaderExit,
           LockToFinish, SignalDone, EndRound, GoTo, At, ControlTyped, Threads
  <2>4. QED
    BY <2>1, <2>2, <2>3, SeenKept DEF Reading
<1>5. ASSUME NEW w \in Writers, Writer(w) PROVE Goal
  <2>1. UNCHANGED locals /\ pc'[r] = pc[r]
    BY <1>5, KindsDiffer
       DEF Writer, LockWrite, WriterEnter, WriterClaim, LockResource, Add,
           AppendNode, AdvanceTail, UnlockResource, LockWriteToLeave,
           WriterExit, EndRound, GoTo, ControlTyped, Threads
  <2>2. CASE Add(w)
    <3>1. Writing(w)
      BY <2>2 DEF Add, At, Writing
    <3>2. ~Reading(r)
      BY <3>1, LockInvExcludes DEF MutualExclusion
    <3>3. QED
      BY <2>1, <3>2 DEF Reading
  <2>3. CASE ~Add(w)
    <3>1. UNCHANGED nodes
      BY <1>5, <2>3
         DEF Writer, LockWrite, WriterEnter, WriterClaim, LockResource,
             AdvanceTail, UnlockResource, LockWriteToLeave, WriterExit, list
    <3>2. QED
      BY <2>1, <3>1, SeenKept DEF locals, Reading
  <2>4. QED
    BY <2>2, <2>3
<1>6. CASE CheckAlmostDone \/ WakeUnsignalled \/ MainJoins
  <2>1. UNCHANGED <<list, locals>> /\ pc'[r] = pc[r]
    BY <1>6, KindsDiffer
       DEF CheckAlmostDone, LockToCheck, TestAlmostDone, WakeUnsignalled,
           MainJoins, GoTo, ControlTyped, Threads
  <2>2. QED
    BY <2>1, SeenKept DEF list, locals, Reading
<1>7. CASE UNCHANGED vars
  BY <1>7, SeenKept DEF vars, list, locals, Reading
<1>8. QED
  BY <1>2, <1>3, <1>4, <1>5, <1>6, <1>7 DEF Next, Ended

(* A read() that reaches the end of the list returns the number of values  *)
(* of its digit in the list of that moment, however the writers interleave.*)
THEOREM ReadsExact == Spec => []ReadExact
<1>1. Spec => []ListInv
  BY ListInit, ListStep, TypeInvariant, LockInvariant, PTL DEF Spec
<1>2. Spec => []ScanInv
  BY <1>1, ScanInit, ScanStep, TypeInvariant, LockInvariant, PTL DEF Spec
<1>3. TypeInv /\ ScanInv => ReadExact
  <2> SUFFICES ASSUME ListTyped, ScanInv, NEW r \in Readers, Reading(r),
                      temp[r] = NULL
               PROVE  retVal[r] = Cardinality(ValuesEndingIn(Num(r)))
    BY DEF TypeInv, ReadExact
  <2>1. temp[r] \notin DOMAIN nodes
    BY DEF ListTyped, NULL
  <2>2. Seen(r) = ValuesEndingIn(Num(r))
    BY <2>1 DEF Seen
  <2>3. QED
    BY <2>2 DEF ScanInv
<1>4. QED
  BY <1>2, <1>3, TypeInvariant, PTL

-----------------------------------------------------------------------------
(* All of TypeOK: the bounds of the counters, head and tail come from the  *)
(* other invariants.                                                       *)

(* The four invariants together bound every variable as TypeOK does. *)
LEMMA TypeOKFromParts == TypeInv /\ LockInv /\ DoneInv /\ ListInv => TypeOK
<1> SUFFICES ASSUME TypeInv, LockInv, DoneInv, ListInv PROVE TypeOK
  OBVIOUS
<1>1. read_count \in 0..NumReaders
  <2>1. Entered \in SUBSET Readers
    BY DEF Entered
  <2>2. Cardinality(Entered) \in Nat /\ Cardinality(Entered) <= NumReaders
    BY <2>1, EnteredFinite, CountReaders, FS_Subset
  <2>3. QED
    BY <2>2, ArgumentsAccepted DEF LockInv, ResourceShared, ArgumentsAccepted
<1>2. write_count \in 0..NumWriters
  <2>1. Joined \in SUBSET Writers
    BY DEF Joined
  <2>2. Cardinality(Joined) \in Nat /\ Cardinality(Joined) <= NumWriters
    BY <2>1, JoinedFinite, CountWriters, FS_Subset
  <2>3. QED
    BY <2>2, ArgumentsAccepted DEF LockInv, GateShared, ArgumentsAccepted
<1>3. almost_done \in 0..NumReaders
  <2>1. AtWork \in SUBSET Readers
    BY DEF AtWork
  <2>2. Cardinality(AtWork) \in Nat /\ Cardinality(AtWork) <= NumReaders
    BY <2>1, AtWorkFinite, CountReaders, FS_Subset
  <2>3. QED
    BY <2>2, ArgumentsAccepted DEF DoneInv, ArgumentsAccepted
<1>4. nodes \in Seq(Node) /\ {head, tail} \subseteq {NULL} \cup DOMAIN nodes
  <2>1. /\ nodes \in Seq(Node) /\ Len(nodes) \in Nat
        /\ DOMAIN nodes = 1..Len(nodes) /\ (nodes # << >> => Len(nodes) > 0)
    BY DEF TypeInv, ListTyped
  <2>2. head \in {NULL} \cup DOMAIN nodes
    BY <2>1 DEF ListInv, HeadFirst
  <2>3. tail \in {NULL} \cup DOMAIN nodes
    BY <2>1 DEF ListInv, TailLast, NULL
  <2>4. QED
    BY <2>1, <2>2, <2>3
<1>5. /\ DOMAIN pc = Threads
      /\ \A r \in Readers : pc[r] \in ReaderLabels
      /\ \A w \in Writers : pc[w] \in WriterLabels
      /\ pc[Checker] \in {"lock", "test", "wait", "done"}
      /\ round \in [Readers \cup Writers -> 1..NCount]
  BY DEF TypeInv, ControlTyped, CheckerLabels
<1>6. QED
  BY <1>1, <1>2, <1>3, <1>4, <1>5
     DEF TypeOK, TypeInv, LocksTyped, ListTyped

(* Every variable stays in its range for every number of threads: neither  *)
(* unsigned counter wraps, and head and tail point into the list.          *)
THEOREM TypeCorrect == Spec => []TypeOK
<1>1. Spec => []DoneInv
  BY DoneInit, DoneStep, TypeInvariant, PTL DEF Spec
<1>2. Spec => []ListInv
  BY ListInit, ListStep, TypeInvariant, LockInvariant, PTL DEF Spec
<1>3. QED
  BY <1>1, <1>2, TypeInvariant, LockInvariant, TypeOKFromParts, PTL

=============================================================================
