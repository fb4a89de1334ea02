------------------------------ MODULE NumberSort ------------------------------
(***************************************************************************)
(* Prog1: the generator of random numbers (generate.c) and the sorter      *)
(* (sort.c), which share their command line (parse.c), and the pipe or the *)
(* file between them.                                                      *)
(***************************************************************************)
EXTENDS Integers, Sequences, FiniteSets

CONSTANTS
  Word,         \* 2^32, the number of values of an unsigned int
  DefaultN, DefaultMax,   \* 100 and 255
  MaxMax,       \* 1000000, the largest -M
  GenLines, SortLines,    \* the command lines tried
  UserChars,    \* the codes of the letters of the user's name
  Leftovers     \* bound: what memory from malloc is taken to hold

Half    == Word \div 2
RandMax == Half - 1
Ints    == (-Half)..(Half - 1)

(* What getopt returns, a question mark for any other option, comes with   *)
(* what atoi makes of the argument, if there is one.                       *)
Letters     == {"u", "n", "m", "M", "i", "s", "o", "c", "?"}
Argument    == Letters \X Ints
CommandLine == Seq(Argument)

ASSUME WordAssumption ==
  /\ Half \in Nat \ {0} /\ Word = 2 * Half
  /\ {DefaultN, DefaultMax} \subseteq Nat /\ DefaultMax > 1
  /\ MaxMax \in DefaultMax..(Half - 1)
  /\ GenLines \cup SortLines \subseteq CommandLine
  /\ UserChars \subseteq Ints \ {0} /\ Leftovers \subseteq Ints

VARIABLES
  gen,          \* the generator: what it does, its flags, the numbers printed
  sorter        \* the sorter: what it does, its flags, what it read and prints

vars == <<gen, sorter>>

(* The conversions between int and unsigned int. *)
Unsigned(i) == i % Word

(* Mutant of Signed: nothing wraps. *)
SignedWide(u) == u

Signed(u) == ((u + Half) % Word) - Half

-----------------------------------------------------------------------------
(* c_parser.  The bounds are unsigned, and compared when they are met.     *)

Default == [ok |-> TRUE, n |-> DefaultN, min |-> 1, max |-> DefaultMax,
            i |-> FALSE, o |-> FALSE]
Refused == [Default EXCEPT !.ok = FALSE]

(* Mutant of MaxRefused: min is not looked at. *)
MaxRefusedAbove(f, max) == max > MaxMax

MaxRefused(f, max) == max <= f.min \/ max > MaxMax

Option(f, o) ==
  LET v == Unsigned(o[2])
  IN CASE o[1] = "n" -> [f EXCEPT !.n = v]
       [] o[1] = "m" -> IF v < 1 THEN Refused ELSE [f EXCEPT !.min = v]
       [] o[1] = "M" -> IF MaxRefused(f, v) THEN Refused ELSE [f EXCEPT !.max = v]
       [] o[1] = "i" -> [f EXCEPT !.i = TRUE]
       [] o[1] = "o" -> [f EXCEPT !.o = TRUE]
       [] o[1] \in {"s", "c"} -> f
       [] OTHER -> Refused

Parsed(line) ==
  LET f[k \in 0..Len(line)] ==
        IF k = 0 THEN Default ELSE IF f[k - 1].ok THEN Option(f[k - 1], line[k]) ELSE f[k - 1]
  IN f[Len(line)]

Init ==
  /\ \E line \in GenLines :
       gen = [st |-> IF Parsed(line).ok THEN "run" ELSE "refused",
              line |-> line, f |-> Parsed(line), out |-> << >>]
  /\ \E line \in SortLines :
       sorter = [st |-> IF Parsed(line).ok THEN "start" ELSE "refused",
                 f |-> Parsed(line), read |-> << >>, result |-> << >>]

-----------------------------------------------------------------------------
(* generate.c: min + rand() / (RAND_MAX / (max - min + 1) + 1)             *)

(* Mutant of Spread: one too many. *)
SpreadWide(f) == (f.max - f.min + 2) % Word

Spread(f) == (f.max - f.min + 1) % Word

Number(f, r) == Signed(f.min + (r \div (RandMax \div Spread(f) + 1)))

Generate ==
  /\ gen.st = "run" /\ Len(gen.out) < gen.f.n /\ Spread(gen.f) # 0
  /\ \E r \in 0..RandMax : gen' = [gen EXCEPT !.out = Append(@, Number(gen.f, r))]
  /\ UNCHANGED sorter

DivideByZero ==
  /\ gen.st = "run" /\ Len(gen.out) < gen.f.n /\ Spread(gen.f) = 0
  /\ gen' = [gen EXCEPT !.st = "crashed"]
  /\ UNCHANGED sorter

GeneratorEnds ==
  /\ gen.st = "run" /\ Len(gen.out) >= gen.f.n
  /\ gen' = [gen EXCEPT !.st = "done"]
  /\ UNCHANGED sorter

GeneratorOver == gen.st \in {"done", "crashed", "refused"}

-----------------------------------------------------------------------------
(* sort.c.  With -i it is run when the generator has written the file.     *)

Become(st) == sorter' = [sorter EXCEPT !.st = st] /\ UNCHANGED gen

(* It takes the tenth variable of the environment for USER, also when      *)
(* there are not so many.                                                  *)
NoUser == sorter.st = "start" /\ Become("crashed")

OpenFile ==
  /\ sorter.st = "start" /\ sorter.f.i /\ GeneratorOver
  /\ Become(IF gen.f.o /\ gen.st # "refused" THEN "file" ELSE "refused")

OpenStdin == sorter.st = "start" /\ ~sorter.f.i /\ Become("stdin")

(* Where the file ends, or a word of it is no number, fscanf leaves the 0. *)
NextInFile ==
  LET k == Len(sorter.read) + 1 IN IF k <= Len(gen.out) THEN gen.out[k] ELSE 0

ReadFile ==
  /\ sorter.st = "file" /\ Len(sorter.read) < sorter.f.n
  /\ NextInFile \notin UserChars
  /\ sorter' = [sorter EXCEPT !.read = Append(@, NextInFile)]
  /\ UNCHANGED gen

(* A letter of the user's name is printed as if it were a string.          *)
ReadLetter ==
  /\ sorter.st = "file" /\ Len(sorter.read) < sorter.f.n
  /\ NextInFile \in UserChars
  /\ Become("crashed")

FileRead == sorter.st = "file" /\ Len(sorter.read) >= sorter.f.n /\ Become("sort")

Piped == IF gen.f.o THEN << >> ELSE gen.out

(* All that is piped is stored: what is more than n overruns the array.    *)
ReadStdin ==
  /\ sorter.st = "stdin" /\ Len(sorter.read) < Len(Piped)
  /\ sorter' = [sorter EXCEPT !.read = Append(@, Piped[Len(@) + 1])]
  /\ UNCHANGED gen

Overrun == sorter.st = "stdin" /\ Len(sorter.read) > sorter.f.n /\ Become("crashed")

(* Mutant of StdinEnds: n numbers are waited for. *)
StdinEndsAtN ==
  /\ sorter.st = "stdin" /\ GeneratorOver /\ Len(sorter.read) >= sorter.f.n
  /\ Become("sort")

StdinEnds ==
  /\ sorter.st = "stdin" /\ GeneratorOver /\ Len(sorter.read) = Len(Piped)
  /\ Become("sort")

(* Mutant of Compare: the operands change places. *)
CompareSwapped(a, b) == Signed(b - a)

Compare(a, b) == Signed(a - b)

(* qsort puts in order what compare orders, and permutes anything else.    *)
Orders(s) ==
  \A i, j, k \in DOMAIN s :
    /\ Compare(s[i], s[j]) < 0 <=> Compare(s[j], s[i]) > 0
    /\ Compare(s[i], s[j]) <= 0 /\ Compare(s[j], s[k]) <= 0 => Compare(s[i], s[k]) <= 0

Qsorted(s) ==
  LET orders == {p \in [DOMAIN s -> DOMAIN s] : \A j, k \in DOMAIN s : p[j] = p[k] => j = k}
      all    == {[k \in DOMAIN s |-> s[p[k]]] : p \in orders}
  IN IF Orders(s)
     THEN {t \in all : \A j, k \in DOMAIN s : j < k => Compare(t[j], t[k]) <= 0}
     ELSE all

(* The part of the array that was not read holds what malloc left there.   *)
Sort ==
  /\ sorter.st = "sort"
  /\ \E rest \in [(Len(sorter.read) + 1)..sorter.f.n -> Leftovers] :
     \E t \in Qsorted([k \in 1..sorter.f.n |->
                         IF k <= Len(sorter.read) THEN sorter.read[k] ELSE rest[k]]) :
       sorter' = [sorter EXCEPT !.st = "done", !.result = t]
  /\ UNCHANGED gen

Next ==
  \/ Generate \/ DivideByZero \/ GeneratorEnds
  \/ NoUser \/ OpenFile \/ OpenStdin \/ ReadFile \/ ReadLetter \/ FileRead
  \/ ReadStdin \/ Overrun \/ StdinEnds \/ Sort

Spec == Init /\ [][Next]_vars

(* Both programs go on running; a read from the pipe waits for its writer. *)
FairSpec == Spec /\ WF_vars(Next)

-----------------------------------------------------------------------------
(* Properties *)

SorterOver == sorter.st \in {"done", "crashed", "refused"}

(* Types: the numbers are ints, whatever the arithmetic on unsigned made   *)
(* of the bounds.                                                          *)
TypeOK ==
  /\ gen.st \in {"run", "done", "crashed", "refused"}
  /\ gen.f.min \in 1..(Word - 1) /\ gen.f.max \in 1..MaxMax
  /\ gen.out \in Seq(Ints) /\ Len(gen.out) <= gen.f.n
  /\ SorterOver \/ sorter.st \in {"start", "file", "stdin", "sort"}
  /\ sorter.read \in Seq(Ints) /\ sorter.result \in Seq(Ints)

(* What is printed lies between the bounds, read as ints, whenever these   *)
(* are in order: also for a negative min, which passes as unsigned.        *)
GeneratedInRange ==
  Signed(gen.f.min) <= gen.f.max =>
    \A k \in DOMAIN gen.out : gen.out[k] \in Signed(gen.f.min)..gen.f.max

(* The bounds are out of order only if no -M follows the last -m: an -M    *)
(* checks the min before it, nothing checks a min that comes later.        *)
OrderedUnlessRaised ==
  gen.f.min >= gen.f.max /\ gen.st # "refused" =>
    \E k \in DOMAIN gen.line :
      gen.line[k][1] = "m" /\ \A j \in (k + 1)..Len(gen.line) : gen.line[j][1] # "M"

(* With bounds as parse.h has them, what the sorter prints when it ends is *)
(* the first n numbers in order, filled up with zeros if a file had fewer. *)
(* (A pipe must bring n at least: the rest of the array is arbitrary.)     *)
OutputSorted ==
  LET n    == sorter.f.n
      want == [k \in 1..n |-> IF k <= Len(gen.out) THEN gen.out[k] ELSE 0]
      Times(v, s) == Cardinality({k \in DOMAIN s : s[k] = v})
  IN /\ sorter.st = "done" /\ gen.f.min <= gen.f.max
     /\ sorter.f.i \/ Len(Piped) >= n
     => /\ \A v \in Ints : Times(v, sorter.result) = Times(v, want)
        /\ \A j, k \in 1..n : j <= k => sorter.result[j] <= sorter.result[k]

(* Both programs end. *)
BothEnd == <>[](GeneratorOver /\ SorterOver)

=============================================================================
