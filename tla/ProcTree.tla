------------------------------- MODULE ProcTree -------------------------------
(***************************************************************************)
(* Prog2: prog2tree, a program that forks children which execute the same  *)
(* program one level further down, and its command line (parser.c).  A     *)
(* process is named by its path from the root: the turns of the loops of   *)
(* main in which its ancestors and itself were forked.                     *)
(***************************************************************************)
EXTENDS Integers, Sequences, FiniteSets

CONSTANTS
  Lines,        \* the command lines the program is started with
  MaxFailures   \* bound: how many calls of fork and execvp may fail

(* What getopt returns, a question mark for any other option, comes with   *)
(* what atoi makes of the argument, if there is one.                       *)
Letters     == {"u", "N", "M", "p", "s", "?"}
Argument    == Letters \X Int
CommandLine == Seq(Argument)

ASSUME LineAssumption ==
  /\ Lines \subseteq CommandLine
  /\ MaxFailures \in Nat

VARIABLES
  procs,        \* the processes there are or have been, by path
  failures      \* how many calls have failed

vars == <<procs, failures>>

-----------------------------------------------------------------------------
(* c_parser.  nFlag and mFlag are chars; what atoi makes of an argument is *)
(* cut down to eight bits before it is compared.                           *)

Default == [n |-> 1, m |-> 1, p |-> FALSE, s |-> FALSE, time |-> 0, ok |-> TRUE]
Refused == [Default EXCEPT !.ok = FALSE]

Char(i) == ((i + 128) % 256) - 128

(* Mutant of Levels: one too many is let through. *)
LevelsTooMany == 1..5

Levels == 1..4

Option(f, o) ==
  LET c == Char(o[2])
  IN CASE o[1] = "N" /\ o[2] # 0 /\ c \in Levels -> [f EXCEPT !.n = c]
       [] o[1] = "M" /\ o[2] # 0 /\ c \in 1..3 -> [f EXCEPT !.m = c]
       [] o[1] = "p" -> [f EXCEPT !.p = TRUE]
       [] o[1] = "s" /\ o[2] # 0 -> [f EXCEPT !.s = TRUE, !.time = o[2]]
       [] OTHER -> Refused

Parsed(line) ==
  LET f[k \in 0..Len(line)] ==
        IF k = 0 THEN Default ELSE IF f[k - 1].ok THEN Option(f[k - 1], line[k]) ELSE f[k - 1]
  IN f[Len(line)]

ChildLine(f) ==
  <<<<"N", f.n - 1>>, <<"M", f.m>>>>
    \o (IF f.p THEN <<<<"p", 0>>>> ELSE IF f.s THEN <<<<"s", f.time>>>> ELSE << >>)

-----------------------------------------------------------------------------
(* Processes.  fell is set when an execvp came back; how says how a        *)
(* process ended: with the line EXITING, over its command line, a failed   *)
(* fork, or a signal.                                                      *)

Process(st, argv, flags, q) ==
  [st |-> st, argv |-> argv, flags |-> flags, q |-> q, fell |-> FALSE, how |-> "none"]

Children(x) == {y \in DOMAIN procs : Len(y) = Len(x) + 1 /\ SubSeq(y, 1, Len(x)) = x}
Below(x)    == {y \in DOMAIN procs : Len(y) > Len(x) /\ SubSeq(y, 1, Len(x)) = x}
Alive(x)    == procs[x].st \notin {"zombie", "reaped"}
Paused(x)   == procs[x].st = "leaf" /\ procs[x].flags.p

Become(x, r) == procs' = [procs EXCEPT ![x] = r]
End(x, how)  == Become(x, [procs[x] EXCEPT !.st = "zombie", !.how = how])

Init ==
  /\ \E line \in Lines :
       procs = [x \in {<< >>} |-> Process("start", line, Default, 0)]
  /\ failures = 0

(* Mutant of IsLeaf: level 1 is taken for an inner one. *)
IsLeafLate(f) == f.n < 1

IsLeaf(f) == f.n <= 1

(* main down to the line ALIVE, and the branch it takes then. *)
Start(x) ==
  /\ procs[x].st = "start"
  /\ LET f == Parsed(procs[x].argv)
     IN IF ~f.ok \/ (f.p /\ f.s)
        THEN End(x, "usage")
        ELSE Become(x, Process(IF IsLeaf(f) THEN "leaf" ELSE "fork", << >>, f, 0))
  /\ UNCHANGED failures

Fork(x) ==
  /\ procs[x].st = "fork" /\ procs[x].q < procs[x].flags.m
  /\ LET child == Append(x, procs[x].q)
     IN procs' = [y \in DOMAIN procs \cup {child} |->
                    IF y = child THEN Process("exec", << >>, procs[x].flags, procs[x].q)
                    ELSE IF y = x THEN [procs[x] EXCEPT !.q = @ + 1]
                    ELSE procs[y]]
  /\ UNCHANGED failures

ForkFails(x) ==
  /\ procs[x].st = "fork" /\ procs[x].q < procs[x].flags.m
  /\ failures < MaxFailures
  /\ failures' = failures + 1
  /\ End(x, "fork")

(* Mutant of ForksDone: one fork too few. *)
ForksDoneEarly(x) ==
  /\ procs[x].st = "fork" /\ procs[x].q + 1 >= procs[x].flags.m
  /\ Become(x, [procs[x] EXCEPT !.st = "wait", !.q = 0])
  /\ UNCHANGED failures

ForksDone(x) ==
  /\ procs[x].st = "fork" /\ procs[x].q >= procs[x].flags.m
  /\ Become(x, [procs[x] EXCEPT !.st = "wait", !.q = 0])
  /\ UNCHANGED failures

Exec(x) ==
  /\ procs[x].st = "exec"
  /\ Become(x, Process("start", ChildLine(procs[x].flags), Default, 0))
  /\ UNCHANGED failures

(* Mutant of ExecFails: the loop starts over. *)
ExecFailsRestarts(x) ==
  /\ procs[x].st = "exec" /\ failures < MaxFailures
  /\ failures' = failures + 1
  /\ Become(x, [procs[x] EXCEPT !.st = "fork", !.q = 0, !.fell = TRUE])

(* The child goes on with its parent's loop. *)
ExecFails(x) ==
  /\ procs[x].st = "exec" /\ failures < MaxFailures
  /\ failures' = failures + 1
  /\ Become(x, [procs[x] EXCEPT !.st = "fork", !.q = @ + 1, !.fell = TRUE])

(* Mutant of Wait: it does not return where there is no child. *)
WaitBlocks(x) ==
  /\ procs[x].st = "wait" /\ procs[x].q < procs[x].flags.m
  /\ \E y \in Children(x) :
       /\ procs[y].st = "zombie"
       /\ procs' = [procs EXCEPT ![y].st = "reaped", ![x].q = @ + 1]
  /\ UNCHANGED failures

(* wait takes any child that has ended, and returns at once when there is  *)
(* no child at all.                                                        *)
Wait(x) ==
  /\ procs[x].st = "wait" /\ procs[x].q < procs[x].flags.m
  /\ \/ \E y \in Children(x) :
          /\ procs[y].st = "zombie"
          /\ procs' = [procs EXCEPT ![y].st = "reaped", ![x].q = @ + 1]
     \/ /\ \A y \in Children(x) : procs[y].st = "reaped"
        /\ procs' = [procs EXCEPT ![x].q = @ + 1]
  /\ UNCHANGED failures

(* Mutant of WaitsDone: one wait too few. *)
WaitsDoneEarly(x) ==
  /\ procs[x].st = "wait" /\ procs[x].q + 1 >= procs[x].flags.m
  /\ End(x, "exiting")
  /\ UNCHANGED failures

WaitsDone(x) ==
  /\ procs[x].st = "wait" /\ procs[x].q >= procs[x].flags.m
  /\ End(x, "exiting")
  /\ UNCHANGED failures

(* A leaf sleeps, then exits; it has no child to wait for. *)
Wake(x) ==
  /\ procs[x].st = "leaf" /\ ~procs[x].flags.p
  /\ End(x, "exiting")
  /\ UNCHANGED failures

(* A paused leaf is ended by a signal from outside only. *)
Signal(x) ==
  /\ Paused(x)
  /\ End(x, "signal")
  /\ UNCHANGED failures

Step(x) ==
  \/ Start(x) \/ Fork(x) \/ ForkFails(x) \/ ForksDone(x)
  \/ Exec(x) \/ ExecFails(x) \/ Wait(x) \/ WaitsDone(x) \/ Wake(x)

Next == \E x \in DOMAIN procs : Step(x) \/ Signal(x)

Spec == Init /\ [][Next]_vars

(* The system goes on running some process that can run; nobody need send  *)
(* a signal.                                                               *)
FairSpec == Spec /\ WF_vars(\E x \in DOMAIN procs : Step(x))

-----------------------------------------------------------------------------
(* Properties *)

(* Types; the levels and the numbers of children that main works with are  *)
(* those the parser's comments allow, whatever char made of the arguments. *)
TypeOK ==
  /\ failures \in 0..MaxFailures
  /\ \A x \in DOMAIN procs :
       /\ procs[x].st \in {"start", "fork", "exec", "wait", "leaf", "zombie", "reaped"}
       /\ procs[x].how \in {"none", "exiting", "usage", "fork", "signal"}
       /\ procs[x].how = "none" <=> Alive(x)
       /\ procs[x].flags.n \in 1..4 /\ procs[x].flags.m \in 1..3
       /\ procs[x].q \in 0..procs[x].flags.m
       /\ x # << >> => SubSeq(x, 1, Len(x) - 1) \in DOMAIN procs

(* A process that says EXITING has taken leave of all its children, and    *)
(* nothing below it is alive, also where a child whose execvp failed went  *)
(* on as a second parent - but for what hangs from a process that a failed *)
(* fork ended without waiting.                                             *)
NoneLeftBelow ==
  \A x \in DOMAIN procs : procs[x].how = "exiting" =>
    /\ \A y \in Children(x) : procs[y].st = "reaped"
    /\ \A y \in Below(x) : Alive(y) =>
         \E z \in Below(x) : y \in Below(z) /\ procs[z].how = "fork"

(* When nothing failed, the tree that the root leaves behind is the one    *)
(* the command line asks for: all paths, one level less each step down.    *)
WholeTree ==
  LET f == procs[<< >>].flags
  IN procs[<< >>].how = "exiting" /\ failures = 0 =>
       /\ DOMAIN procs = UNION {[1..d -> 0..(f.m - 1)] : d \in 0..(f.n - 1)}
       /\ \A x \in DOMAIN procs : procs[x].flags.n = f.n - Len(x)

(* The command line a process makes for its children is never refused.     *)
ChildLineAccepted ==
  \A x \in DOMAIN procs : x # << >> => procs[x].how # "usage"

(* A child whose execvp failed forks what was left of its parent's loop:   *)
(* such children follow each other no more than m deep, and are no bomb.   *)
FallsEnd ==
  \A x \in DOMAIN procs : \A d \in 1..Len(x) :
    (\A e \in d..Len(x) : procs[SubSeq(x, 1, e)].fell)
      => Len(x) - d < procs[x].flags.m

(* In the end every process that is left is a paused leaf or waits for a   *)
(* child that is left; without -p, that is none.                           *)
Settles ==
  <>[](\A x \in DOMAIN procs : Alive(x) =>
         \/ Paused(x)
         \/ procs[x].st = "wait" /\ \E y \in Children(x) : Alive(y))

=============================================================================
