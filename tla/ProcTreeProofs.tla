---------------------------- MODULE ProcTreeProofs ----------------------------
(***************************************************************************)
(* Proofs about ProcTree: whatever the command line, however the processes *)
(* take turns, and whichever calls fail.                                   *)
(***************************************************************************)
EXTENDS ProcTree, CountingLemmas

-----------------------------------------------------------------------------
(* Paths.  The parent of a process is the path without its last step.      *)

Path      == Seq(Nat)
Parent(y) == SubSeq(y, 1, Len(y) - 1)
Latest(y) == y[Len(y)]

(* The path of a child is that of its parent and one step more.            *)
LEMMA ChildPath ==
  ASSUME NEW x \in Path, NEW i \in Nat
  PROVE  LET y == Append(x, i)
         IN /\ y \in Path /\ y # << >> /\ y # x /\ Len(y) = Len(x) + 1
            /\ Parent(y) = x /\ Latest(y) = i
<1> DEFINE y == Append(x, i)
<1>1. y \in Path /\ Len(y) = Len(x) + 1 /\ y[Len(x) + 1] = i /\ Len(x) \in Nat
  BY DEF Path
<1>2. \A k \in 1..Len(x) : y[k] = x[k]
  BY DEF Path
<1> HIDE DEF y
<1>3. Len(y) - 1 = Len(x)
  BY <1>1
<1>4. Parent(y) \in Path /\ Len(Parent(y)) = Len(x) /\ \A k \in 1..Len(x) : Parent(y)[k] = x[k]
  BY <1>1, <1>2, <1>3 DEF Parent, Path
<1>5. Parent(y) = x
  BY <1>4, SeqEqual DEF Path
<1>6. y # << >> /\ y # x
  BY <1>1
<1>7. QED
  BY <1>1, <1>5, <1>6 DEF y, Latest

(* Each process but the root is that child of its parent.                  *)
LEMMA PathOfChild ==
  ASSUME NEW y \in Path, y # << >>
  PROVE  /\ Parent(y) \in Path /\ Len(y) = Len(Parent(y)) + 1 /\ Parent(y) # y
         /\ Latest(y) \in Nat /\ y = Append(Parent(y), Latest(y))
<1>1. Len(y) \in Nat \ {0}
  BY DEF Path
<1>2. Parent(y) \in Path /\ Len(Parent(y)) = Len(y) - 1 /\ \A k \in 1..(Len(y) - 1) : Parent(y)[k] = y[k]
  <2> DEFINE m == Len(y) - 1
  <2>1. m \in Nat /\ m <= Len(y)
    BY <1>1
  <2> HIDE DEF m
  <2>2. /\ SubSeq(y, 1, m) \in Seq(Nat) /\ Len(SubSeq(y, 1, m)) = m
        /\ \A k \in 1..m : SubSeq(y, 1, m)[k] = y[k]
    BY <2>1 DEF Path
  <2>3. QED
    BY <2>2 DEF m, Parent, Path
<1>3. Latest(y) \in Nat
  BY <1>1 DEF Latest, Path
<1> DEFINE z == Append(Parent(y), Latest(y))
<1>4. /\ z \in Path /\ Len(z) = Len(y) /\ z[Len(y)] = y[Len(y)]
      /\ \A k \in 1..(Len(y) - 1) : z[k] = y[k]
  BY <1>1, <1>2, <1>3 DEF Path, Latest
<1> HIDE DEF z
<1>5. \A k \in 1..Len(y) : z[k] = y[k]
  <2>1. \A k \in 1..Len(y) : k \in 1..(Len(y) - 1) \/ k = Len(y)
    BY <1>1
  <2>2. QED
    BY <1>4, <2>1
<1>6. z = y
  BY <1>4, <1>5, SeqEqual DEF Path
<1>7. QED
  BY <1>1, <1>2, <1>3, <1>6 DEF z

(* How Children recognises a child, in these terms.                        *)
LEMMA IsChild ==
  ASSUME NEW x \in Path, NEW y \in Path
  PROVE  (Len(y) = Len(x) + 1 /\ SubSeq(y, 1, Len(x)) = x) <=> (y # << >> /\ Parent(y) = x)
<1>1. Len(y) \in Nat /\ Len(x) \in Nat
  BY DEF Path
<1>2. ASSUME Len(y) = Len(x) + 1, SubSeq(y, 1, Len(x)) = x
      PROVE  y # << >> /\ Parent(y) = x
  <2>1. Len(y) - 1 = Len(x) /\ Len(y) # 0
    BY <1>1, <1>2
  <2>2. QED
    BY <1>2, <2>1 DEF Parent
<1>3. ASSUME y # << >>, Parent(y) = x
      PROVE  Len(y) = Len(x) + 1 /\ SubSeq(y, 1, Len(x)) = x
  <2>1. Len(y) = Len(x) + 1
    BY <1>3, PathOfChild
  <2>2. Len(y) - 1 = Len(x)
    BY <1>1, <2>1
  <2>3. QED
    BY <1>3, <2>1, <2>2 DEF Parent
<1>4. QED
  BY <1>2, <1>3

(* So the children of a process are those it is the parent of.             *)
LEMMA ChildrenAre ==
  ASSUME DOMAIN procs \subseteq Path, NEW x \in Path
  PROVE  Children(x) = {y \in DOMAIN procs : y # << >> /\ Parent(y) = x}
<1>1. \A y \in DOMAIN procs :
        (Len(y) = Len(x) + 1 /\ SubSeq(y, 1, Len(x)) = x) <=> (y # << >> /\ Parent(y) = x)
  BY IsChild
<1>2. QED
  BY <1>1 DEF Children

(* The prefixes of a path: each is the parent of the next.                 *)
Prefix(y, k) == SubSeq(y, 1, k)

(* What a prefix consists of, and where it ends.                           *)
LEMMA PrefixIs ==
  ASSUME NEW y \in Path, NEW k \in 0..Len(y)
  PROVE  /\ Prefix(y, k) \in Path /\ Len(Prefix(y, k)) = k
         /\ \A i \in 1..k : Prefix(y, k)[i] = y[i]
         /\ k = Len(y) => Prefix(y, k) = y
         /\ k # 0 => /\ Prefix(y, k) # << >> /\ Parent(Prefix(y, k)) = Prefix(y, k - 1)
                     /\ Latest(Prefix(y, k)) = y[k]
<1>1. Len(y) \in Nat /\ k \in Nat /\ k <= Len(y)
  BY DEF Path
<1>2. /\ Prefix(y, k) \in Path /\ Len(Prefix(y, k)) = k
      /\ \A i \in 1..k : Prefix(y, k)[i] = y[i]
  BY <1>1 DEF Prefix, Path
<1>3. k = Len(y) => Prefix(y, k) = y
  BY SubSeqFull DEF Prefix, Path
<1>4. ASSUME k # 0
      PROVE  /\ Prefix(y, k) # << >> /\ Parent(Prefix(y, k)) = Prefix(y, k - 1)
             /\ Latest(Prefix(y, k)) = y[k]
  <2> DEFINE p == Prefix(y, k)
             q == Parent(p)
             r == Prefix(y, k - 1)
  <2>1. p # << >> /\ Latest(p) = y[k]
    BY <1>1, <1>2, <1>4 DEF Latest
  <2>2. k - 1 \in Nat /\ k - 1 <= Len(y) /\ k - 1 <= k
    BY <1>1, <1>4
  <2>3. r \in Path /\ Len(r) = k - 1 /\ \A i \in 1..(k - 1) : r[i] = y[i]
    BY <1>1, <2>2 DEF Prefix, Path
  <2>4. p \in Path /\ Len(p) - 1 = k - 1
    BY <1>2
  <2> HIDE DEF p
  <2>5. q \in Path /\ Len(q) = k - 1 /\ \A i \in 1..(k - 1) : q[i] = p[i]
    BY <2>2, <2>4 DEF Parent, Path
  <2>6. \A i \in 1..(k - 1) : q[i] = r[i]
    BY <1>1, <1>2, <2>3, <2>5 DEF p
  <2> HIDE DEF q, r
  <2>7. q = r
    BY <2>3, <2>5, <2>6, SeqEqual DEF Path
  <2>8. QED
    BY <2>1, <2>7 DEF p, q, r
<1>5. QED
  BY <1>2, <1>3, <1>4

-----------------------------------------------------------------------------
(* The parser.  Whatever it is given, the levels and children are in their *)
(* bounds, and a sleep is asked for only with a time.                      *)

AllFlags == {f \in [n : 1..4, m : 1..3, p : BOOLEAN, s : BOOLEAN, time : Int, ok : BOOLEAN] :
               f.s => f.time # 0}

(* The flags of a process that makes children.                             *)
Inner(f) == f \in AllFlags /\ f.n >= 2 /\ ~(f.p /\ f.s)

(* A char holds the numbers that are used here as they are.                *)
LEMMA CharIs ==
  /\ \A i \in Int : Char(i) \in Int
  /\ \A i \in 1..4 : Char(i) = i
BY DEF Char

(* No option takes the flags out of their types.                           *)
LEMMA OptionIs ==
  ASSUME NEW f \in AllFlags, NEW o \in Argument
  PROVE  Option(f, o) \in AllFlags
<1>1. Refused \in AllFlags
  <2>1. Default \in AllFlags
    BY DEF Default, AllFlags
  <2>2. \A d \in AllFlags : [d EXCEPT !.ok = FALSE] \in AllFlags
    BY DEF AllFlags
  <2>3. QED
    BY <2>1, <2>2 DEF Refused
<1>2. o[2] \in Int
  BY DEF Argument
<1> DEFINE c == Char(o[2])
<1>3. c \in 1..4 => [f EXCEPT !.n = c] \in AllFlags
  BY DEF AllFlags
<1>4. c \in 1..3 => [f EXCEPT !.m = c] \in AllFlags
  BY DEF AllFlags
<1>5. [f EXCEPT !.p = TRUE] \in AllFlags
  BY DEF AllFlags
<1>6. o[2] # 0 => [f EXCEPT !.s = TRUE, !.time = o[2]] \in AllFlags
  BY <1>2 DEF AllFlags
<1> HIDE DEF c
<1>7. CASE o[1] = "N" /\ o[2] # 0 /\ c \in Levels
  BY <1>3, <1>7 DEF Option, Levels, c
<1>8. CASE o[1] = "M" /\ o[2] # 0 /\ c \in 1..3
  BY <1>4, <1>8 DEF Option, c
<1>9. CASE o[1] = "p"
  BY <1>5, <1>9 DEF Option, c
<1>10. CASE o[1] = "s" /\ o[2] # 0
  BY <1>6, <1>10 DEF Option, c
<1>11. CASE /\ ~ (o[1] = "N" /\ o[2] # 0 /\ c \in Levels)
            /\ ~ (o[1] = "M" /\ o[2] # 0 /\ c \in 1..3)
            /\ ~ (o[1] = "p") /\ ~ (o[1] = "s" /\ o[2] # 0)
  <2>1. Option(f, o) = Refused
    BY <1>11 DEF Option, c
  <2>2. QED
    BY <1>1, <2>1
<1>12. QED
  BY <1>7, <1>8, <1>9, <1>10, <1>11

(* The parser goes through the options one by one.                         *)
Parses(g, line) ==
  /\ g[0] = Default
  /\ \A k \in 1..Len(line) :
       g[k] = IF g[k - 1].ok THEN Option(g[k - 1], line[k]) ELSE g[k - 1]

(* Its result is the last of the flags it goes through.                    *)
LEMMA ParsedIs ==
  ASSUME NEW line \in CommandLine
  PROVE  \E g \in [0..Len(line) -> AllFlags] : Parses(g, line) /\ Parsed(line) = g[Len(line)]
<1> DEFINE n == Len(line)
           T == [k \in 1..n |-> [f \in AllFlags |-> IF f.ok THEN Option(f, line[k]) ELSE f]]
           Is(f) == f = [k \in 0..n |->
                           IF k = 0 THEN Default
                           ELSE IF f[k - 1].ok THEN Option(f[k - 1], line[k]) ELSE f[k - 1]]
<1>1. n \in Nat /\ \A k \in 1..n : line[k] \in Argument
  BY DEF CommandLine
<1>2. Default \in AllFlags
  BY DEF Default, AllFlags
<1>3. T \in [1..n -> [AllFlags -> AllFlags]]
  BY <1>1, OptionIs
<1> HIDE DEF n
<1>4. PICK g \in [0..n -> AllFlags] : g[0] = Default /\ \A k \in 1..n : g[k] = T[k][g[k - 1]]
  <2> HIDE DEF T
  <2>1. Steps(n, AllFlags, Default, T)
    BY <1>1, <1>2, <1>3 DEF Steps
  <2>2. QED
    BY <2>1, RecursionExists
<1>5. \A k \in 1..n : k - 1 \in 0..n /\ g[k] = IF g[k - 1].ok THEN Option(g[k - 1], line[k]) ELSE g[k - 1]
  <2>1. \A k \in 1..n : k - 1 \in 0..n
    BY <1>1
  <2>2. \A k \in 1..n : g[k - 1] \in AllFlags
    BY <1>4, <2>1
  <2>3. QED
    BY <1>4, <2>1, <2>2
<1>6. Is(g)
  <2>1. \A k \in 0..n : k = 0 \/ k \in 1..n
    BY <1>1
  <2>2. QED
    BY <1>4, <1>5, <2>1
<1> DEFINE h == CHOOSE f : Is(f)
<1>7. Is(h)
  BY <1>6
<1>8. Parsed(line) = h[n]
  BY DEF Parsed, n
<1> HIDE DEF h
<1>9. h[0] = Default /\ \A k \in 1..n : h[k] = IF h[k - 1].ok THEN Option(h[k - 1], line[k]) ELSE h[k - 1]
  <2>1. \A k \in 1..n : k \in 0..n /\ k # 0
    BY <1>1
  <2>2. 0 \in 0..n
    BY <1>1
  <2>3. QED
    BY <1>7, <2>1, <2>2
<1>10. \A k \in 0..n : h[k] = g[k]
  <2> DEFINE Ks == {k \in 0..n : h[k] = g[k]}
  <2>1. 0 \in Ks
    BY <1>1, <1>4, <1>9
  <2>2. ASSUME NEW k \in 0..(n - 1), k \in Ks PROVE k + 1 \in Ks
    <3>1. k + 1 \in 1..n /\ (k + 1) - 1 = k /\ k + 1 \in 0..n
      BY <1>1
    <3>2. h[k] = g[k]
      BY <2>2
    <3>3. h[k + 1] = g[k + 1]
      BY <1>5, <1>9, <3>1, <3>2
    <3>4. QED
      BY <3>1, <3>3
  <2> HIDE DEF Ks
  <2>3. \A k \in 0..n : k \in Ks
    BY <1>1, <2>1, <2>2, UpTo
  <2>4. QED
    BY <2>3 DEF Ks
<1>11. Parsed(line) = g[n]
  BY <1>1, <1>8, <1>10
<1>12. QED
  BY <1>4, <1>5, <1>11 DEF n, Parses

(* So what main works with is in the bounds.                               *)
LEMMA ParsedFlags ==
  ASSUME NEW line \in CommandLine
  PROVE  Parsed(line) \in AllFlags
<1>1. PICK g \in [0..Len(line) -> AllFlags] : Parsed(line) = g[Len(line)]
  BY ParsedIs
<1>2. Len(line) \in Nat
  BY DEF CommandLine
<1>3. Len(line) \in 0..Len(line)
  BY <1>2
<1>4. QED
  BY <1>1, <1>3

(* What the options that a process writes for its children do.             *)
LEMMA LevelOption ==
  ASSUME NEW f \in AllFlags, NEW i \in 1..3
  PROVE  Option(f, <<"N", i>>) = [f EXCEPT !.n = i]
<1>1. Char(i) = i
  BY CharIs
<1>2. QED
  BY <1>1 DEF Option, Levels

(* What -M with a number of children does.                                 *)
LEMMA ChildrenOption ==
  ASSUME NEW f \in AllFlags, NEW i \in 1..3
  PROVE  Option(f, <<"M", i>>) = [f EXCEPT !.m = i]
<1>1. Char(i) = i
  BY CharIs
<1>2. QED
  BY <1>1 DEF Option

(* What -p does.                                                           *)
LEMMA PauseOption ==
  ASSUME NEW f \in AllFlags
  PROVE  Option(f, <<"p", 0>>) = [f EXCEPT !.p = TRUE]
BY DEF Option

(* What -s with a time does.                                               *)
LEMMA SleepOption ==
  ASSUME NEW f \in AllFlags, NEW i \in Int \ {0}
  PROVE  Option(f, <<"s", i>>) = [f EXCEPT !.s = TRUE, !.time = i]
BY DEF Option

(* A process with children writes them a command line of two options, or   *)
(* of three.                                                               *)
LEMMA ChildLineIs ==
  ASSUME NEW f, Inner(f)
  PROVE  LET line == ChildLine(f)
         IN /\ line \in CommandLine /\ Len(line) = IF f.p \/ f.s THEN 3 ELSE 2
            /\ line[1] = <<"N", f.n - 1>> /\ line[2] = <<"M", f.m>>
            /\ f.p => line[3] = <<"p", 0>>
            /\ f.s => line[3] = <<"s", f.time>>
<1>1. f.n \in Int /\ f.m \in Int /\ f.time \in Int /\ ~(f.p /\ f.s)
  BY DEF Inner, AllFlags
<1> DEFINE a == <<"N", f.n - 1>>
           b == <<"M", f.m>>
           c == IF f.p THEN <<"p", 0>> ELSE <<"s", f.time>>
           t == IF f.p \/ f.s THEN <<c>> ELSE << >>
<1>2. a \in Argument /\ b \in Argument /\ c \in Argument
  <2>1. f.n - 1 \in Int /\ "N" \in Letters /\ "M" \in Letters /\ "p" \in Letters /\ "s" \in Letters
    BY <1>1 DEF Letters
  <2>2. a \in Argument /\ b \in Argument
    BY <1>1, <2>1 DEF Argument
  <2>3. <<"p", 0>> \in Argument /\ <<"s", f.time>> \in Argument
    BY <1>1, <2>1 DEF Argument
  <2>4. QED
    BY <2>2, <2>3
<1>3. ChildLine(f) = <<a, b>> \o t
  BY DEF ChildLine
<1> HIDE DEF a, b, c
<1>4. <<a, b>> \in CommandLine /\ Len(<<a, b>>) = 2 /\ <<a, b>>[1] = a /\ <<a, b>>[2] = b
  BY <1>2 DEF CommandLine
<1>5. t \in CommandLine /\ Len(t) = (IF f.p \/ f.s THEN 1 ELSE 0) /\ (f.p \/ f.s => t[1] = c)
  BY <1>2 DEF CommandLine
<1> DEFINE h == <<a, b>>
           l == h \o t
<1> HIDE DEF h, t
<1>6. /\ l \in CommandLine /\ Len(l) = Len(h) + Len(t)
      /\ \A k \in 1..(Len(h) + Len(t)) : l[k] = IF k <= Len(h) THEN h[k] ELSE t[k - Len(h)]
  BY <1>4, <1>5, ConcatProperties DEF CommandLine, h
<1>7. l[1] = a /\ l[2] = b /\ Len(l) = (IF f.p \/ f.s THEN 3 ELSE 2)
  BY <1>4, <1>5, <1>6 DEF h
<1>8. f.p \/ f.s => l[3] = c
  <2>1. ASSUME f.p \/ f.s PROVE 3 \in 1..(Len(h) + Len(t)) /\ ~(3 <= Len(h)) /\ 3 - Len(h) = 1
    BY <1>4, <1>5, <2>1 DEF h
  <2>2. QED
    BY <1>5, <1>6, <2>1
<1>9. QED
  BY <1>1, <1>3, <1>6, <1>7, <1>8 DEF a, b, c, h, t

(* The child reads from it one level less, and the rest unchanged.         *)
LEMMA ChildLineParsed ==
  ASSUME NEW f, Inner(f)
  PROVE  LET g == Parsed(ChildLine(f))
         IN /\ g \in AllFlags /\ g.ok
            /\ g.n = f.n - 1 /\ g.m = f.m /\ g.p = f.p /\ g.s = f.s
<1> DEFINE line == ChildLine(f)
<1>1. /\ line \in CommandLine /\ Len(line) = (IF f.p \/ f.s THEN 3 ELSE 2)
      /\ line[1] = <<"N", f.n - 1>> /\ line[2] = <<"M", f.m>>
      /\ (f.p => line[3] = <<"p", 0>>) /\ (f.s => line[3] = <<"s", f.time>>)
  BY ChildLineIs
<1>2. /\ f.n - 1 \in 1..3 /\ f.m \in 1..3 /\ f.time \in Int /\ ~(f.p /\ f.s)
      /\ (f.s => f.time # 0) /\ f.p \in BOOLEAN /\ f.s \in BOOLEAN
  BY DEF Inner, AllFlags
<1> HIDE DEF line
<1>3. PICK g \in [0..Len(line) -> AllFlags] : Parses(g, line) /\ Parsed(line) = g[Len(line)]
  BY <1>1, ParsedIs
<1>4. g[0] = Default /\ Default \in AllFlags /\ Default.ok
  BY <1>3 DEF Parses, Default, AllFlags
<1>5. \A k \in 1..Len(line) : g[k] = IF g[k - 1].ok THEN Option(g[k - 1], line[k]) ELSE g[k - 1]
  BY <1>3 DEF Parses
<1> DEFINE f1 == [Default EXCEPT !.n = f.n - 1]
           f2 == [f1 EXCEPT !.m = f.m]
<1>6. g[1] = f1
  <2>1. 1 \in 1..Len(line) /\ 1 - 1 = 0
    BY <1>1
  <2>2. g[1] = Option(Default, <<"N", f.n - 1>>)
    BY <1>1, <1>4, <1>5, <2>1
  <2>3. QED
    BY <1>2, <1>4, <2>2, LevelOption
<1>7. /\ f1 \in AllFlags /\ f1.ok
      /\ f1.n = f.n - 1 /\ f1.p = FALSE /\ f1.s = FALSE
  BY <1>2 DEF Default, AllFlags
<1> HIDE DEF f1
<1>8. g[2] = f2
  <2>1. 2 \in 1..Len(line) /\ 2 - 1 = 1
    BY <1>1
  <2>2. g[2] = Option(f1, <<"M", f.m>>)
    BY <1>1, <1>5, <1>6, <1>7, <2>1
  <2>3. QED
    BY <1>2, <1>7, <2>2, ChildrenOption
<1>9. /\ f2 \in AllFlags /\ f2.ok
      /\ f2.n = f.n - 1 /\ f2.m = f.m /\ f2.p = FALSE /\ f2.s = FALSE
  BY <1>2, <1>7 DEF AllFlags
<1> HIDE DEF f2
<1>10. CASE f.p
  <2>1. Len(line) = 3 /\ 3 \in 1..Len(line) /\ 3 - 1 = 2 /\ f.s = FALSE
    BY <1>1, <1>2, <1>10
  <2>2. g[3] = Option(f2, <<"p", 0>>)
    BY <1>1, <1>5, <1>8, <1>9, <1>10, <2>1
  <2>3. g[3] = [f2 EXCEPT !.p = TRUE]
    BY <1>9, <2>2, PauseOption
  <2>4. /\ g[3] \in AllFlags /\ g[3].ok /\ g[3].n = f.n - 1 /\ g[3].m = f.m
        /\ g[3].p = TRUE /\ g[3].s = FALSE
    BY <1>9, <2>3 DEF AllFlags
  <2>5. f.p = TRUE
    BY <1>2, <1>10
  <2>6. QED
    BY <1>3, <2>1, <2>4, <2>5 DEF line
<1>11. CASE f.s
  <2>1. Len(line) = 3 /\ 3 \in 1..Len(line) /\ 3 - 1 = 2 /\ f.p = FALSE
    BY <1>1, <1>2, <1>11
  <2>2. g[3] = Option(f2, <<"s", f.time>>)
    BY <1>1, <1>5, <1>8, <1>9, <1>11, <2>1
  <2>3. g[3] = [f2 EXCEPT !.s = TRUE, !.time = f.time]
    BY <1>2, <1>9, <1>11, <2>2, SleepOption
  <2>4. /\ g[3] \in AllFlags /\ g[3].ok /\ g[3].n = f.n - 1 /\ g[3].m = f.m
        /\ g[3].p = FALSE /\ g[3].s = TRUE
    BY ZenonT(40), <1>2, <1>9, <1>11, <2>3 DEF AllFlags
  <2>5. f.s = TRUE
    BY <1>2, <1>11
  <2>6. QED
    BY <1>3, <2>1, <2>4, <2>5 DEF line
<1>12. CASE ~f.p /\ ~f.s
  <2>1. Len(line) = 2 /\ f.p = FALSE /\ f.s = FALSE
    BY <1>1, <1>2, <1>12
  <2>2. QED
    BY <1>3, <1>8, <1>9, <2>1 DEF line
<1>13. QED
  BY <1>10, <1>11, <1>12

-----------------------------------------------------------------------------
(* The inductive invariant.  First the paths: there is a root, and nobody  *)
(* is without a parent.                                                    *)
PathInv ==
  /\ DOMAIN procs \subseteq Path /\ << >> \in DOMAIN procs
  /\ \A x \in DOMAIN procs : x # << >> => Parent(x) \in DOMAIN procs

ProcRecord ==
  [st : {"start", "fork", "exec", "wait", "leaf", "zombie", "reaped"},
   argv : CommandLine, flags : AllFlags, q : Nat, fell : BOOLEAN,
   how : {"none", "exiting", "usage", "fork", "signal"}]

(* What the record r of the process x is like.  A child that fell through  *)
(* is behind its own number in the loop.                                   *)
Local(x, r) ==
  /\ r \in ProcRecord
  /\ r.how = "none" <=> r.st \notin {"zombie", "reaped"}
  /\ r.q <= r.flags.m
  /\ r.st \in {"exec", "fork", "wait"} => Inner(r.flags)
  /\ r.st = "exec" => x # << >> /\ r.q = Latest(x) /\ r.q < r.flags.m
  /\ r.how = "usage" => x = << >>
  /\ r.fell => x # << >> /\ Latest(x) < r.flags.m
  /\ r.fell /\ r.st = "fork" => Latest(x) < r.q

(* What the record s of the process y has to do with that of its parent, r.*)
(* Unless its execvp failed, it works one level below it, from the command *)
(* line that the parent wrote.                                             *)
Family(r, s, y) ==
  /\ r.st \in {"fork", "wait", "zombie", "reaped"}
  /\ r.how \in {"none", "exiting", "fork"}
  /\ Inner(r.flags)
  /\ s.st = "exec" => s.flags = r.flags
  /\ s.st = "start" => s.argv = ChildLine(r.flags)
  /\ s.st \notin {"exec", "start"} /\ ~s.fell =>
       s.flags.n = r.flags.n - 1 /\ s.flags.m = r.flags.m
  /\ r.st = "fork" => Latest(y) < r.q
  /\ Latest(y) < r.flags.m
  /\ r.how = "exiting" => s.st = "reaped"
  /\ r.fell => Latest(Parent(y)) < Latest(y)

LocalInv  == \A x \in DOMAIN procs : Local(x, procs[x])
FamilyInv == \A y \in DOMAIN procs : y # << >> => Family(procs[Parent(y)], procs[y], y)

TreeInv == PathInv /\ LocalInv /\ FamilyInv /\ failures \in 0..MaxFailures

(* A process that waits has no more children left than it will wait for.   *)
Unreaped(x) == {y \in Children(x) : procs[y].st # "reaped"}

WaitInv ==
  \A x \in DOMAIN procs :
    procs[x].st = "wait" => Cardinality(Unreaped(x)) <= procs[x].flags.m - procs[x].q

(* Only a process that is at its loops, or has ended, has children.        *)
LEMMA ChildrenOf ==
  ASSUME TreeInv, NEW x \in DOMAIN procs
  PROVE  /\ x \in Path
         /\ \A y \in Children(x) : /\ y \in DOMAIN procs /\ y \in Path /\ y # << >>
                                   /\ Parent(y) = x /\ y # x
                                   /\ Family(procs[x], procs[y], y)
<1>1. DOMAIN procs \subseteq Path /\ x \in Path
  BY DEF TreeInv, PathInv
<1>2. ASSUME NEW y \in Children(x)
      PROVE  y \in DOMAIN procs /\ y \in Path /\ y # << >> /\ Parent(y) = x
  BY <1>1, ChildrenAre
<1>3. ASSUME NEW y \in Children(x) PROVE y # x /\ Family(procs[x], procs[y], y)
  BY <1>2, PathOfChild DEF TreeInv, FamilyInv
<1>4. QED
  BY <1>1, <1>2, <1>3

(* It has m children at most, each of a turn of its own.                   *)
LEMMA ChildrenFew ==
  ASSUME TreeInv, NEW x \in DOMAIN procs
  PROVE  /\ IsFiniteSet(Children(x)) /\ Cardinality(Children(x)) <= procs[x].flags.m
         /\ IsFiniteSet(Unreaped(x)) /\ Cardinality(Unreaped(x)) \in Nat
         /\ Cardinality(Unreaped(x)) <= procs[x].flags.m
<1> DEFINE C == Children(x)
           T == 0..(procs[x].flags.m - 1)
           f == [y \in C |-> Latest(y)]
<1>1. procs[x].flags.m \in 1..3
  BY DEF TreeInv, LocalInv, Local, ProcRecord, AllFlags
<1>2. IsFiniteSet(T) /\ Cardinality(T) = procs[x].flags.m
  BY <1>1, FS_Interval
<1>3. ASSUME NEW y \in C PROVE Latest(y) \in T
  <2>1. Latest(y) \in Nat /\ Latest(y) < procs[x].flags.m
    BY ChildrenOf, PathOfChild DEF Family
  <2>2. QED
    BY <1>1, <2>1
<1>4. ASSUME NEW y \in C, NEW z \in C, Latest(y) = Latest(z) PROVE y = z
  <2>1. /\ y \in Path /\ y # << >> /\ Parent(y) = x
        /\ z \in Path /\ z # << >> /\ Parent(z) = x
    BY ChildrenOf
  <2>2. y = Append(x, Latest(y)) /\ z = Append(x, Latest(z))
    BY <2>1, PathOfChild
  <2>3. QED
    BY <1>4, <2>2
<1> HIDE DEF C, T
<1>5. f \in Injection(C, T)
  BY <1>3, <1>4 DEF Injection, IsInjective
<1> HIDE DEF f
<1>6. IsFiniteSet(C) /\ Cardinality(C) <= procs[x].flags.m
  BY <1>2, <1>5, FS_Injection
<1>7. Unreaped(x) \in SUBSET C
  BY DEF Unreaped, C
<1>8. /\ IsFiniteSet(Unreaped(x)) /\ Cardinality(Unreaped(x)) <= Cardinality(C)
      /\ Cardinality(Unreaped(x)) \in Nat /\ Cardinality(C) \in Nat
  BY <1>6, <1>7, FS_Subset, FS_CardinalityType
<1>9. QED
  BY <1>1, <1>6, <1>8 DEF C

-----------------------------------------------------------------------------
(* Steps that change one process, x, whose record becomes r.               *)
Fine(x, r) ==
  /\ Local(x, r)
  /\ x # << >> => Family(procs[Parent(x)], r, x)
  /\ \A y \in Children(x) : Family(r, procs[y], y)

(* They keep the invariant if the new record suits its relatives.          *)
LEMMA TreeBecome ==
  ASSUME TreeInv, NEW x \in DOMAIN procs, NEW r, Become(x, r), Fine(x, r),
         failures' \in 0..MaxFailures
  PROVE  TreeInv'
<1>1. /\ DOMAIN procs' = DOMAIN procs /\ procs'[x] = r
      /\ \A y \in DOMAIN procs : y # x => procs'[y] = procs[y]
  BY DEF Become
<1>2. PathInv'
  BY <1>1 DEF TreeInv, PathInv
<1>3. LocalInv'
  BY <1>1 DEF TreeInv, LocalInv, Fine
<1>4. ASSUME NEW y \in DOMAIN procs, y # << >>
      PROVE  Family(procs'[Parent(y)], procs'[y], y)
  <2>1. /\ y \in Path /\ Parent(y) \in DOMAIN procs /\ Parent(y) # y
        /\ Family(procs[Parent(y)], procs[y], y)
    BY <1>4, PathOfChild DEF TreeInv, PathInv, FamilyInv
  <2>2. CASE y = x
    BY <1>1, <1>4, <2>1, <2>2 DEF Fine
  <2>3. CASE Parent(y) = x
    <3>1. y \in Children(x)
      BY <1>4, <2>1, <2>3, ChildrenAre DEF TreeInv, PathInv
    <3>2. QED
      BY <1>1, <2>1, <2>3, <3>1 DEF Fine
  <2>4. CASE y # x /\ Parent(y) # x
    BY <1>1, <2>1, <2>4
  <2>5. QED
    BY <2>2, <2>3, <2>4
<1>5. FamilyInv'
  BY <1>1, <1>4 DEF FamilyInv
<1>6. QED
  BY <1>2, <1>3, <1>5 DEF TreeInv

(* What a process knows of itself and of its parent.                       *)
LEMMA Known ==
  ASSUME TreeInv, NEW x \in DOMAIN procs
  PROVE  /\ x \in Path /\ Local(x, procs[x]) /\ procs[x] \in ProcRecord
         /\ x # << >> => Family(procs[Parent(x)], procs[x], x) /\ Latest(x) \in Nat
         /\ \A y \in Children(x) : Family(procs[x], procs[y], y)
BY ChildrenOf, PathOfChild DEF TreeInv, PathInv, LocalInv, FamilyInv, Local

(* The record of a process that begins one of its parts.                   *)
LEMMA ProcessIs ==
  ASSUME NEW st \in {"start", "fork", "exec", "leaf"}, NEW argv \in CommandLine,
         NEW f \in AllFlags, NEW q \in Nat
  PROVE  LET r == Process(st, argv, f, q)
         IN /\ r \in ProcRecord /\ r.st = st /\ r.argv = argv /\ r.flags = f /\ r.q = q
            /\ ~r.fell /\ r.how = "none"
BY DEF Process, ProcRecord

(* A process that has only begun, or is a leaf, has no children.           *)
LEMMA Childless ==
  ASSUME TreeInv, NEW x \in DOMAIN procs, procs[x].st \in {"start", "exec", "leaf"}
  PROVE  Children(x) = {}
BY Known DEF Family

(* A process that the command line is refused to is the root.              *)
LEMMA StartKeepsTree ==
  ASSUME TreeInv, NEW x \in DOMAIN procs, Start(x)
  PROVE  TreeInv'
<1> DEFINE p == procs[x]
           f == Parsed(p.argv)
           r == IF ~f.ok \/ (f.p /\ f.s) THEN [p EXCEPT !.st = "zombie", !.how = "usage"]
                ELSE Process(IF IsLeaf(f) THEN "leaf" ELSE "fork", << >>, f, 0)
<1>1. p.st = "start" /\ Become(x, r) /\ failures' \in 0..MaxFailures
  BY DEF Start, End, TreeInv
<1>2. /\ p \in ProcRecord /\ Local(x, p) /\ Children(x) = {}
      /\ x # << >> => Family(procs[Parent(x)], p, x)
  BY <1>1, Known, Childless
<1>3. f \in AllFlags
  BY <1>2, ParsedFlags DEF ProcRecord
<1>4. ASSUME x # << >>
      PROVE  /\ f.ok /\ ~(f.p /\ f.s)
             /\ f.n = procs[Parent(x)].flags.n - 1 /\ f.m = procs[Parent(x)].flags.m
  <2>1. Inner(procs[Parent(x)].flags) /\ f = Parsed(ChildLine(procs[Parent(x)].flags))
    BY <1>1, <1>2, <1>4 DEF Family
  <2> HIDE DEF f
  <2>2. QED
    BY <2>1, ChildLineParsed DEF Inner
<1> HIDE DEF p, f
<1>5. CASE ~f.ok \/ (f.p /\ f.s)
  <2>1. x = << >> /\ r = [p EXCEPT !.st = "zombie", !.how = "usage"]
    BY <1>4, <1>5
  <2>2. Local(x, r)
    BY <1>1, <1>2, <2>1 DEF Local, ProcRecord
  <2>3. Fine(x, r)
    BY <1>2, <2>1, <2>2 DEF Fine
  <2> HIDE DEF r
  <2>4. QED
    BY <1>1, <2>3, TreeBecome
<1>6. CASE ~(~f.ok \/ (f.p /\ f.s))
  <2> DEFINE st == IF IsLeaf(f) THEN "leaf" ELSE "fork"
  <2>1. r = Process(st, << >>, f, 0)
    BY <1>6
  <2>2. st \in {"leaf", "fork"} /\ (st = "fork" => Inner(f))
    BY <1>3, <1>6 DEF IsLeaf, Inner, AllFlags
  <2> HIDE DEF st, r
  <2>3. << >> \in CommandLine /\ f.m \in 1..3
    BY <1>3 DEF CommandLine, AllFlags
  <2>4. /\ r \in ProcRecord /\ r.st = st /\ r.flags = f /\ r.q = 0
        /\ ~r.fell /\ r.how = "none"
    BY <1>3, <2>1, <2>2, <2>3, ProcessIs
  <2>5. Local(x, r)
    BY <2>2, <2>3, <2>4 DEF Local
  <2>6. x # << >> => Family(procs[Parent(x)], r, x)
    BY <1>1, <1>2, <1>4, <2>2, <2>4 DEF Family
  <2>7. Fine(x, r)
    BY <1>2, <2>5, <2>6 DEF Fine
  <2>8. QED
    BY <1>1, <2>7, TreeBecome
<1>7. QED
  BY <1>5, <1>6

(* A failed fork ends the process, whatever it leaves behind.              *)
LEMMA ForkFailsKeepsTree ==
  ASSUME TreeInv, NEW x \in DOMAIN procs, ForkFails(x)
  PROVE  TreeInv'
<1> DEFINE p == procs[x]
           r == [p EXCEPT !.st = "zombie", !.how = "fork"]
<1>1. p.st = "fork" /\ Become(x, r) /\ failures' \in 0..MaxFailures
  BY LineAssumption DEF ForkFails, End, TreeInv
<1>2. /\ p \in ProcRecord /\ Local(x, p)
      /\ x # << >> => Family(procs[Parent(x)], p, x)
      /\ \A y \in Children(x) : Family(p, procs[y], y)
  BY Known
<1> HIDE DEF p
<1>3. /\ r \in ProcRecord /\ r.st = "zombie" /\ r.how = "fork"
      /\ r.q = p.q /\ r.flags = p.flags /\ r.fell = p.fell
  BY <1>2 DEF ProcRecord
<1> HIDE DEF r
<1>4. Local(x, r)
  BY <1>1, <1>2, <1>3 DEF Local
<1>5. x # << >> => Family(procs[Parent(x)], r, x)
  BY <1>1, <1>2, <1>3 DEF Family
<1>6. \A y \in Children(x) : Family(r, procs[y], y)
  BY <1>1, <1>2, <1>3 DEF Family
<1>7. QED
  BY <1>1, <1>4, <1>5, <1>6, TreeBecome DEF Fine

(* The process goes from its first loop to its second.                     *)
LEMMA ForksDoneKeepsTree ==
  ASSUME TreeInv, NEW x \in DOMAIN procs, ForksDone(x)
  PROVE  TreeInv'
<1> DEFINE p == procs[x]
           r == [p EXCEPT !.st = "wait", !.q = 0]
<1>1. p.st = "fork" /\ Become(x, r) /\ failures' \in 0..MaxFailures
  BY DEF ForksDone, TreeInv
<1>2. /\ p \in ProcRecord /\ Local(x, p)
      /\ x # << >> => Family(procs[Parent(x)], p, x)
      /\ \A y \in Children(x) : Family(p, procs[y], y)
  BY Known
<1> HIDE DEF p
<1>3. /\ r \in ProcRecord /\ r.st = "wait" /\ r.how = p.how
      /\ r.q = 0 /\ r.flags = p.flags /\ r.fell = p.fell /\ p.flags.m \in 1..3
  <2>1. p.flags.m \in 1..3
    BY <1>2 DEF ProcRecord, AllFlags
  <2>2. r \in ProcRecord
    BY <1>2 DEF ProcRecord
  <2>3. r.st = "wait" /\ r.how = p.how /\ r.q = 0 /\ r.flags = p.flags /\ r.fell = p.fell
    BY <1>2 DEF ProcRecord
  <2>4. QED
    BY <2>1, <2>2, <2>3
<1> HIDE DEF r
<1>4. Local(x, r)
  BY <1>1, <1>2, <1>3 DEF Local
<1>5. x # << >> => Family(procs[Parent(x)], r, x)
  BY <1>1, <1>2, <1>3 DEF Family
<1>6. \A y \in Children(x) : Family(r, procs[y], y)
  BY <1>1, <1>2, <1>3 DEF Family
<1>7. QED
  BY <1>1, <1>4, <1>5, <1>6, TreeBecome DEF Fine

(* The child begins anew with the command line its parent wrote.           *)
LEMMA ExecKeepsTree ==
  ASSUME TreeInv, NEW x \in DOMAIN procs, Exec(x)
  PROVE  TreeInv'
<1> DEFINE p == procs[x]
           r == Process("start", ChildLine(p.flags), Default, 0)
<1>1. p.st = "exec" /\ Become(x, r) /\ failures' \in 0..MaxFailures
  BY DEF Exec, TreeInv
<1>2. /\ p \in ProcRecord /\ Local(x, p) /\ Children(x) = {}
      /\ x # << >> => Family(procs[Parent(x)], p, x)
  BY <1>1, Known, Childless
<1> HIDE DEF p
<1>3. Inner(p.flags) /\ ChildLine(p.flags) \in CommandLine
  BY <1>1, <1>2, ChildLineIs DEF Local
<1>4. Default \in AllFlags /\ Default.m = 1
  BY DEF Default, AllFlags
<1>5. /\ r \in ProcRecord /\ r.st = "start" /\ r.argv = ChildLine(p.flags)
      /\ r.flags = Default /\ r.q = 0 /\ ~r.fell /\ r.how = "none"
  BY <1>3, <1>4, ProcessIs
<1> HIDE DEF r
<1>6. Local(x, r)
  BY <1>4, <1>5 DEF Local
<1>7. x # << >> => Family(procs[Parent(x)], r, x)
  BY <1>1, <1>2, <1>5 DEF Family
<1>8. QED
  BY <1>1, <1>2, <1>6, <1>7, TreeBecome DEF Fine

(* The child takes the place of its parent in the loop, one turn on.       *)
LEMMA ExecFailsKeepsTree ==
  ASSUME TreeInv, NEW x \in DOMAIN procs, ExecFails(x)
  PROVE  TreeInv'
<1> DEFINE p == procs[x]
           r == [p EXCEPT !.st = "fork", !.q = @ + 1, !.fell = TRUE]
<1>1. p.st = "exec" /\ Become(x, r) /\ failures' \in 0..MaxFailures
  BY LineAssumption DEF ExecFails, TreeInv
<1>2. /\ p \in ProcRecord /\ Local(x, p) /\ Children(x) = {}
      /\ x # << >> => Family(procs[Parent(x)], p, x) /\ Latest(x) \in Nat
  BY <1>1, Known, Childless
<1> HIDE DEF p
<1>3. /\ r \in ProcRecord /\ r.st = "fork" /\ r.how = p.how
      /\ r.q = p.q + 1 /\ r.flags = p.flags /\ r.fell
  <2>1. r \in ProcRecord
    <3>1. \A k \in Nat, b \in BOOLEAN :
            [p EXCEPT !.st = "fork", !.q = k, !.fell = b] \in ProcRecord
      BY <1>2 DEF ProcRecord
    <3>2. p.q + 1 \in Nat /\ TRUE \in BOOLEAN
      BY <1>2 DEF ProcRecord
    <3>3. QED
      BY <3>1, <3>2
  <2>2. r.st = "fork" /\ r.how = p.how /\ r.q = p.q + 1 /\ r.flags = p.flags /\ r.fell
    BY <1>2 DEF ProcRecord
  <2>3. QED
    BY <2>1, <2>2
<1>4. p.q \in Nat /\ p.flags.m \in Nat
  BY <1>2 DEF ProcRecord, AllFlags
<1> HIDE DEF r
<1>5. Local(x, r)
  BY <1>1, <1>2, <1>3, <1>4 DEF Local
<1>6. x # << >> => Family(procs[Parent(x)], r, x)
  BY <1>1, <1>2, <1>3 DEF Family
<1>7. QED
  BY <1>1, <1>2, <1>5, <1>6, TreeBecome DEF Fine

(* All that is left of a process that has nothing below it may end.        *)
LEMMA EndKeepsTree ==
  ASSUME TreeInv, NEW x \in DOMAIN procs, NEW how \in {"exiting", "signal"}, End(x, how),
         procs[x].st \in {"wait", "leaf"}, failures' = failures,
         \A y \in Children(x) : how = "exiting" /\ procs[y].st = "reaped"
  PROVE  TreeInv'
<1> DEFINE p == procs[x]
           r == [p EXCEPT !.st = "zombie", !.how = how]
<1>1. Become(x, r) /\ failures' \in 0..MaxFailures
  BY DEF End, TreeInv
<1>2. /\ p \in ProcRecord /\ Local(x, p)
      /\ x # << >> => Family(procs[Parent(x)], p, x)
      /\ \A y \in Children(x) : Family(p, procs[y], y)
  BY Known
<1>3. p.st \in {"wait", "leaf"}
  OBVIOUS
<1> HIDE DEF p
<1>4. /\ r \in ProcRecord /\ r.st = "zombie" /\ r.how = how
      /\ r.q = p.q /\ r.flags = p.flags /\ r.fell = p.fell
  BY <1>2 DEF ProcRecord
<1> HIDE DEF r
<1>5. Local(x, r)
  BY <1>2, <1>3, <1>4 DEF Local
<1>6. x # << >> => Family(procs[Parent(x)], r, x)
  BY <1>2, <1>3, <1>4 DEF Family
<1>7. \A y \in Children(x) : Family(r, procs[y], y)
  BY <1>2, <1>3, <1>4 DEF Family
<1>8. QED
  BY <1>1, <1>5, <1>6, <1>7, TreeBecome DEF Fine

(* After the last wait no child is left.                                   *)
LEMMA WaitsDoneKeepsTree ==
  ASSUME TreeInv, WaitInv, NEW x \in DOMAIN procs, WaitsDone(x)
  PROVE  TreeInv'
<1>1. /\ procs[x].st = "wait" /\ procs[x].q >= procs[x].flags.m
      /\ End(x, "exiting") /\ failures' = failures
  BY DEF WaitsDone
<1>2. procs[x].q \in Nat /\ procs[x].flags.m \in Nat
  BY Known DEF ProcRecord, AllFlags
<1>3. /\ IsFiniteSet(Unreaped(x)) /\ Cardinality(Unreaped(x)) \in Nat
      /\ Cardinality(Unreaped(x)) <= procs[x].flags.m - procs[x].q
  BY <1>1, ChildrenFew DEF WaitInv
<1>4. Unreaped(x) = {}
  BY <1>1, <1>2, <1>3, FS_EmptySet
<1>5. \A y \in Children(x) : procs[y].st = "reaped"
  BY <1>4 DEF Unreaped
<1>6. QED
  BY <1>1, <1>5, EndKeepsTree

(* A leaf has no children.                                                 *)
LEMMA LeafKeepsTree ==
  ASSUME TreeInv, NEW x \in DOMAIN procs, Wake(x) \/ Signal(x)
  PROVE  TreeInv'
<1>1. /\ procs[x].st = "leaf" /\ failures' = failures
      /\ End(x, "exiting") \/ End(x, "signal")
  BY DEF Wake, Signal, Paused
<1>2. Children(x) = {}
  BY <1>1, Childless
<1>3. QED
  BY <1>1, <1>2, EndKeepsTree

(* The new child takes the next number of the loop.                        *)
LEMMA ForkKeepsTree ==
  ASSUME TreeInv, NEW x \in DOMAIN procs, Fork(x)
  PROVE  TreeInv'
<1> DEFINE p == procs[x]
           c == Append(x, p.q)
           r == [p EXCEPT !.q = @ + 1]
           s == Process("exec", << >>, p.flags, p.q)
<1>1. /\ p.st = "fork" /\ p.q < p.flags.m /\ failures' \in 0..MaxFailures
      /\ procs' = [y \in DOMAIN procs \cup {c} |->
                     IF y = c THEN s ELSE IF y = x THEN r ELSE procs[y]]
  BY DEF Fork, TreeInv
<1>2. /\ x \in Path /\ p \in ProcRecord /\ Local(x, p)
      /\ x # << >> => Family(procs[Parent(x)], p, x) /\ Latest(x) \in Nat
      /\ \A y \in Children(x) : Family(p, procs[y], y) /\ Latest(y) \in Nat
  BY Known, ChildrenOf, PathOfChild
<1>3. p.q \in Nat /\ p.flags \in AllFlags /\ p.flags.m \in Nat /\ Inner(p.flags)
  BY <1>1, <1>2 DEF Local, ProcRecord, AllFlags
<1>4. /\ c \in Path /\ c # << >> /\ c # x /\ Parent(c) = x /\ Latest(c) = p.q
  BY <1>2, <1>3, ChildPath
<1>5. c \notin DOMAIN procs
  <2>1. SUFFICES ASSUME c \in DOMAIN procs PROVE FALSE
    OBVIOUS
  <2>2. c \in Children(x)
    BY <1>2, <1>4, <2>1, ChildrenAre DEF TreeInv, PathInv
  <2>3. Latest(c) < p.q
    BY <1>1, <1>2, <2>2 DEF Family
  <2>4. QED
    BY <1>3, <1>4, <2>3
<1>6. << >> \in CommandLine
  BY DEF CommandLine
<1>7. /\ s \in ProcRecord /\ s.st = "exec" /\ s.flags = p.flags /\ s.q = p.q
      /\ ~s.fell /\ s.how = "none"
  BY <1>3, <1>6, ProcessIs
<1> HIDE DEF p, c, s
<1>8. /\ r \in ProcRecord /\ r.st = p.st /\ r.how = p.how /\ r.q = p.q + 1
      /\ r.flags = p.flags /\ r.fell = p.fell
  BY <1>2 DEF ProcRecord
<1> HIDE DEF r
<1>9. /\ DOMAIN procs' = DOMAIN procs \cup {c} /\ procs'[c] = s /\ procs'[x] = r
      /\ \A y \in DOMAIN procs : y # x => procs'[y] = procs[y]
  BY <1>1, <1>4, <1>5
<1>10. PathInv'
  BY <1>4, <1>9 DEF TreeInv, PathInv
<1>11. LocalInv'
  <2>1. Local(c, s)
    BY <1>1, <1>3, <1>4, <1>7 DEF Local
  <2>2. Local(x, r)
    BY <1>1, <1>2, <1>3, <1>8 DEF Local
  <2>3. QED
    BY <1>9, <2>1, <2>2 DEF TreeInv, LocalInv
<1>12. ASSUME NEW y \in DOMAIN procs \cup {c}, y # << >>
       PROVE  Family(procs'[Parent(y)], procs'[y], y)
  <2>1. CASE y = c
    <3>1. Family(r, s, c)
      BY <1>1, <1>2, <1>3, <1>4, <1>7, <1>8 DEF Family, Local
    <3>2. QED
      BY <1>4, <1>9, <2>1, <3>1
  <2>2. CASE y # c
    <3>1. /\ y \in DOMAIN procs /\ y \in Path /\ Parent(y) \in DOMAIN procs /\ Parent(y) # y
          /\ Family(procs[Parent(y)], procs[y], y)
      BY <1>12, <2>2, PathOfChild DEF TreeInv, PathInv, FamilyInv
    <3>2. CASE y = x
      <4>1. Family(procs[Parent(x)], r, x)
        BY <1>1, <1>2, <1>8, <1>12, <3>2 DEF Family
      <4>2. QED
        BY <1>9, <3>1, <3>2, <4>1
    <3>3. CASE Parent(y) = x
      <4>1. y \in Children(x)
        BY <1>12, <3>1, <3>3, ChildrenAre DEF TreeInv, PathInv
      <4>2. Family(p, procs[y], y) /\ Latest(y) \in Nat
        BY <1>2, <4>1
      <4>3. Family(r, procs[y], y)
        BY <1>3, <1>8, <4>2 DEF Family
      <4>4. QED
        BY <1>9, <3>1, <3>3, <4>3
    <3>4. CASE y # x /\ Parent(y) # x
      BY <1>9, <3>1, <3>4
    <3>5. QED
      BY <3>2, <3>3, <3>4
  <2>3. QED
    BY <2>1, <2>2
<1>13. FamilyInv'
  BY <1>9, <1>12 DEF FamilyInv
<1>14. QED
  BY <1>1, <1>10, <1>11, <1>13 DEF TreeInv

(* wait ends a child for good, or finds none that has not.                 *)
LEMMA WaitKeepsTree ==
  ASSUME TreeInv, NEW x \in DOMAIN procs, Wait(x)
  PROVE  TreeInv'
<1> DEFINE p == procs[x]
           r == [p EXCEPT !.q = @ + 1]
<1>1. p.st = "wait" /\ p.q < p.flags.m /\ failures' \in 0..MaxFailures
  BY DEF Wait, TreeInv
<1>2. /\ x \in Path /\ p \in ProcRecord /\ Local(x, p)
      /\ x # << >> => Family(procs[Parent(x)], p, x)
      /\ \A y \in Children(x) : Family(p, procs[y], y)
  BY Known
<1>3. p.q \in Nat /\ p.flags.m \in Nat
  BY <1>2 DEF ProcRecord, AllFlags
<1> HIDE DEF p
<1>4. /\ r \in ProcRecord /\ r.st = p.st /\ r.how = p.how /\ r.q = p.q + 1
      /\ r.flags = p.flags /\ r.fell = p.fell
  BY <1>2 DEF ProcRecord
<1> HIDE DEF r
<1>5. Fine(x, r)
  <2>1. Local(x, r)
    BY <1>1, <1>2, <1>3, <1>4 DEF Local
  <2>2. x # << >> => Family(procs[Parent(x)], r, x)
    BY <1>1, <1>2, <1>4 DEF Family
  <2>3. \A y \in Children(x) : Family(r, procs[y], y)
    BY <1>1, <1>2, <1>4 DEF Family
  <2>4. QED
    BY <2>1, <2>2, <2>3 DEF Fine
<1>6. CASE procs' = [procs EXCEPT ![x].q = @ + 1]
  <2>1. Become(x, r)
    BY <1>6 DEF Become, r, p
  <2>2. QED
    BY <1>1, <1>5, <2>1, TreeBecome
<1>7. ASSUME NEW z \in Children(x), procs[z].st = "zombie",
             procs' = [procs EXCEPT ![z].st = "reaped", ![x].q = @ + 1]
      PROVE  TreeInv'
  <2> DEFINE s == [procs[z] EXCEPT !.st = "reaped"]
  <2>1. /\ z \in DOMAIN procs /\ z \in Path /\ z # << >> /\ Parent(z) = x /\ z # x
        /\ Family(p, procs[z], z)
    BY ChildrenOf DEF p
  <2>2. /\ DOMAIN procs' = DOMAIN procs /\ procs'[x] = r /\ procs'[z] = s
        /\ \A y \in DOMAIN procs : y # x /\ y # z => procs'[y] = procs[y]
    BY <1>7, <2>1 DEF r, p
  <2>3. procs[z] \in ProcRecord /\ Local(z, procs[z])
    BY <2>1, Known
  <2>4. /\ s \in ProcRecord /\ s.st = "reaped" /\ s.how = procs[z].how /\ s.q = procs[z].q
        /\ s.flags = procs[z].flags /\ s.fell = procs[z].fell
    BY <2>3 DEF ProcRecord
  <2> HIDE DEF s
  <2>5. PathInv'
    BY <2>2 DEF TreeInv, PathInv
  <2>6. LocalInv'
    <3>1. Local(z, s)
      BY <1>7, <2>3, <2>4 DEF Local
    <3>2. QED
      BY <1>5, <2>2, <3>1 DEF TreeInv, LocalInv, Fine
  <2>7. ASSUME NEW y \in DOMAIN procs, y # << >>
        PROVE  Family(procs'[Parent(y)], procs'[y], y)
    <3>1. /\ y \in Path /\ Parent(y) \in DOMAIN procs /\ Parent(y) # y
          /\ Family(procs[Parent(y)], procs[y], y)
      BY <2>7, PathOfChild DEF TreeInv, PathInv, FamilyInv
    <3>2. CASE y = z
      <4>1. Family(r, s, z)
        BY <1>1, <1>4, <1>7, <2>1, <2>4 DEF Family
      <4>2. QED
        BY <2>1, <2>2, <3>2, <4>1
    <3>3. CASE y # z /\ Parent(y) = x
      <4>1. y \in Children(x)
        BY <1>2, <2>7, <3>3, ChildrenAre DEF TreeInv, PathInv
      <4>2. QED
        BY <1>5, <2>2, <3>1, <3>3, <4>1 DEF Fine
    <3>4. CASE Parent(y) = z
      <4>1. y # z
        BY <3>1, <3>4
      <4>2. Family(s, procs[y], y)
        BY <1>7, <2>4, <3>1, <3>4 DEF Family
      <4>3. CASE y = x
        <5>1. Len(z) = Len(x) + 1 /\ Len(x) = Len(z) + 1 /\ Len(x) \in Nat
          BY <1>2, <2>1, <2>7, <3>1, <3>4, <4>3, PathOfChild DEF Path
        <5>2. QED
          BY <5>1
      <4>4. QED
        BY <2>2, <3>4, <4>1, <4>2, <4>3
    <3>5. CASE y # z /\ Parent(y) # x /\ Parent(y) # z
      <4>1. CASE y = x
        BY <1>5, <2>2, <2>7, <3>1, <3>5, <4>1 DEF Fine
      <4>2. CASE y # x
        BY <2>2, <3>1, <3>5, <4>2
      <4>3. QED
        BY <4>1, <4>2
    <3>6. QED
      BY <3>2, <3>3, <3>4, <3>5
  <2>8. FamilyInv'
    BY <2>2, <2>7 DEF FamilyInv
  <2>9. QED
    BY <1>1, <2>5, <2>6, <2>8 DEF TreeInv
<1>8. QED
  BY <1>6, <1>7 DEF Wait

-----------------------------------------------------------------------------
(* The waits that are left are enough for the children that are left.      *)
LEMMA WaitBecome ==
  ASSUME WaitInv, NEW x \in DOMAIN procs, NEW r, Become(x, r),
         procs[x].st # "reaped", r.st # "reaped",
         r.st = "wait" => Cardinality(Unreaped(x)) <= r.flags.m - r.q
  PROVE  WaitInv'
<1>1. /\ DOMAIN procs' = DOMAIN procs /\ procs'[x] = r
      /\ \A y \in DOMAIN procs : y # x => procs'[y] = procs[y]
  BY DEF Become
<1>2. ASSUME NEW z \in DOMAIN procs PROVE Unreaped(z)' = Unreaped(z)
  <2>1. Children(z)' = Children(z) /\ Children(z) \subseteq DOMAIN procs
    BY <1>1 DEF Children
  <2>2. \A y \in DOMAIN procs : procs'[y].st # "reaped" <=> procs[y].st # "reaped"
    BY <1>1
  <2>3. QED
    BY <2>1, <2>2 DEF Unreaped
<1>3. ASSUME NEW z \in DOMAIN procs, procs'[z].st = "wait"
      PROVE  Cardinality(Unreaped(z)') <= procs'[z].flags.m - procs'[z].q
  <2>1. CASE z = x
    BY <1>1, <1>2, <1>3, <2>1
  <2>2. CASE z # x
    BY <1>1, <1>2, <1>3, <2>2 DEF WaitInv
  <2>3. QED
    BY <2>1, <2>2
<1>4. QED
  BY <1>1, <1>3 DEF WaitInv

(* A process that starts to wait has m children at most, and m waits.      *)
LEMMA ForksDoneKeepsWait ==
  ASSUME TreeInv, WaitInv, NEW x \in DOMAIN procs, ForksDone(x)
  PROVE  WaitInv'
<1> DEFINE p == procs[x]
           r == [p EXCEPT !.st = "wait", !.q = 0]
<1>1. p.st = "fork" /\ Become(x, r)
  BY DEF ForksDone
<1>2. p \in ProcRecord /\ Cardinality(Unreaped(x)) <= p.flags.m /\ p.flags.m \in Nat
  BY Known, ChildrenFew DEF ProcRecord, AllFlags
<1>3. r.st = "wait" /\ r.flags = p.flags /\ r.q = 0
  BY <1>2 DEF ProcRecord
<1> HIDE DEF r
<1>4. Cardinality(Unreaped(x)) <= r.flags.m - r.q
  BY <1>2, <1>3
<1>5. QED
  BY <1>1, <1>3, <1>4, WaitBecome

(* The other steps of one process do not make it wait.                     *)
LEMMA OthersKeepWait ==
  ASSUME TreeInv, WaitInv, NEW x \in DOMAIN procs,
         Start(x) \/ ForkFails(x) \/ Exec(x) \/ ExecFails(x)
           \/ WaitsDone(x) \/ Wake(x) \/ Signal(x)
  PROVE  WaitInv'
<1> DEFINE p == procs[x]
           f == Parsed(p.argv)
<1>1. p \in ProcRecord
  BY Known
<1>2. PICK r : Become(x, r) /\ p.st # "reaped" /\ r.st \in {"zombie", "leaf", "fork", "start"}
  <2>1. \A how : [p EXCEPT !.st = "zombie", !.how = how].st = "zombie"
    BY <1>1 DEF ProcRecord
  <2>2. CASE Start(x)
    <3>1. \/ End(x, "usage")
          \/ Become(x, Process(IF IsLeaf(f) THEN "leaf" ELSE "fork", << >>, f, 0))
      BY <2>2 DEF Start
    <3> HIDE DEF f
    <3>2. Process(IF IsLeaf(f) THEN "leaf" ELSE "fork", << >>, f, 0).st \in {"leaf", "fork"}
      BY DEF Process
    <3>3. p.st = "start"
      BY <2>2 DEF Start
    <3>4. QED
      BY <2>1, <3>1, <3>2, <3>3 DEF End
  <2>3. CASE Exec(x)
    <3>1. Process("start", ChildLine(p.flags), Default, 0).st = "start"
      BY DEF Process
    <3>2. QED
      BY <2>3, <3>1 DEF Exec
  <2>4. CASE ExecFails(x)
    <3>1. [p EXCEPT !.st = "fork", !.q = @ + 1, !.fell = TRUE].st = "fork"
      BY <1>1 DEF ProcRecord
    <3>2. QED
      BY <2>4, <3>1 DEF ExecFails
  <2>5. CASE ForkFails(x) \/ WaitsDone(x) \/ Wake(x) \/ Signal(x)
    <3>1. /\ End(x, "fork") \/ End(x, "exiting") \/ End(x, "signal")
          /\ p.st \in {"fork", "wait", "leaf"}
      BY <2>5 DEF ForkFails, WaitsDone, Wake, Signal, Paused
    <3>2. QED
      BY <2>1, <3>1 DEF End
  <2>6. QED
    BY <2>2, <2>3, <2>4, <2>5
<1>3. QED
  BY <1>2, WaitBecome

(* A process that forks does not wait yet.                                 *)
LEMMA ForkKeepsWait ==
  ASSUME TreeInv, WaitInv, NEW x \in DOMAIN procs, Fork(x)
  PROVE  WaitInv'
<1> DEFINE p == procs[x]
           c == Append(x, p.q)
           r == [p EXCEPT !.q = @ + 1]
           s == Process("exec", << >>, p.flags, p.q)
<1>1. /\ p.st = "fork"
      /\ procs' = [y \in DOMAIN procs \cup {c} |->
                     IF y = c THEN s ELSE IF y = x THEN r ELSE procs[y]]
  BY DEF Fork
<1>2. /\ x \in Path /\ p \in ProcRecord /\ p.q \in Nat
      /\ \A y \in Children(x) : Family(p, procs[y], y)
  BY Known DEF ProcRecord
<1>3. c \in Path /\ c # << >> /\ c # x /\ Parent(c) = x /\ Latest(c) = p.q
  BY <1>2, ChildPath
<1>4. c \notin DOMAIN procs
  <2>1. SUFFICES ASSUME c \in DOMAIN procs PROVE FALSE
    OBVIOUS
  <2>2. c \in Children(x)
    BY <1>2, <1>3, <2>1, ChildrenAre DEF TreeInv, PathInv
  <2>3. Latest(c) < p.q
    BY <1>1, <1>2, <2>2 DEF Family
  <2>4. QED
    BY <1>2, <1>3, <2>3
<1>5. s.st = "exec" /\ r.st = "fork"
  BY <1>1, <1>2 DEF Process, ProcRecord
<1> HIDE DEF p, c, r, s
<1>6. /\ DOMAIN procs' = DOMAIN procs \cup {c} /\ procs'[c] = s /\ procs'[x] = r
      /\ \A y \in DOMAIN procs : y # x => procs'[y] = procs[y]
  BY <1>1, <1>3, <1>4
<1>7. ASSUME NEW z \in DOMAIN procs, z # x PROVE Unreaped(z)' = Unreaped(z)
  <2>1. z \in Path /\ DOMAIN procs \subseteq Path /\ DOMAIN procs' \subseteq Path
    BY <1>3, <1>6 DEF TreeInv, PathInv
  <2>2. /\ Children(z) = {y \in DOMAIN procs : y # << >> /\ Parent(y) = z}
        /\ Children(z)' = {y \in DOMAIN procs' : y # << >> /\ Parent(y) = z}
    <3>1. Children(z) = {y \in DOMAIN procs : y # << >> /\ Parent(y) = z}
      BY <2>1, ChildrenAre
    <3>2. Children(z)' = {y \in DOMAIN procs' : y # << >> /\ Parent(y) = z}
      <4>1. \A y \in DOMAIN procs' :
              (Len(y) = Len(z) + 1 /\ SubSeq(y, 1, Len(z)) = z) <=> (y # << >> /\ Parent(y) = z)
        BY <2>1, IsChild
      <4>2. QED
        BY <4>1 DEF Children
    <3>3. QED
      BY <3>1, <3>2
  <2>3. Children(z)' = Children(z)
    BY <1>3, <1>6, <1>7, <2>2
  <2>4. \A y \in DOMAIN procs : procs'[y].st # "reaped" <=> procs[y].st # "reaped"
    BY <1>1, <1>5, <1>6 DEF p
  <2>5. QED
    BY <2>2, <2>3, <2>4 DEF Unreaped
<1>8. ASSUME NEW z \in DOMAIN procs', procs'[z].st = "wait"
      PROVE  Cardinality(Unreaped(z)') <= procs'[z].flags.m - procs'[z].q
  <2>1. z # c /\ z # x /\ z \in DOMAIN procs /\ procs'[z] = procs[z]
    BY <1>5, <1>6, <1>8
  <2>2. QED
    BY <1>7, <1>8, <2>1 DEF WaitInv
<1>9. QED
  BY <1>8 DEF WaitInv

(* A wait is spent on a child, or there is none.                           *)
LEMMA WaitKeepsWait ==
  ASSUME TreeInv, WaitInv, NEW x \in DOMAIN procs, Wait(x)
  PROVE  WaitInv'
<1> DEFINE p == procs[x]
           r == [p EXCEPT !.q = @ + 1]
<1>1. p.st = "wait" /\ p.q < p.flags.m
  BY DEF Wait
<1>2. /\ p \in ProcRecord /\ p.q \in Nat /\ p.flags.m \in Nat
      /\ IsFiniteSet(Unreaped(x)) /\ Cardinality(Unreaped(x)) \in Nat
      /\ Cardinality(Unreaped(x)) <= p.flags.m - p.q
  BY <1>1, Known, ChildrenFew DEF ProcRecord, AllFlags, WaitInv
<1>3. r.st = "wait" /\ r.flags = p.flags /\ r.q = p.q + 1
  BY <1>1, <1>2 DEF ProcRecord
<1> HIDE DEF p, r
<1>4. CASE /\ \A y \in Children(x) : procs[y].st = "reaped"
           /\ procs' = [procs EXCEPT ![x].q = @ + 1]
  <2>1. Become(x, r)
    BY <1>4 DEF Become, r, p
  <2>2. Unreaped(x) = {}
    BY <1>4 DEF Unreaped
  <2>3. Cardinality(Unreaped(x)) <= r.flags.m - r.q
    BY <1>1, <1>2, <1>3, <2>2, FS_EmptySet
  <2>4. procs[x].st # "reaped"
    BY <1>1 DEF p
  <2>5. QED
    BY <1>3, <2>1, <2>3, <2>4, WaitBecome
<1>5. ASSUME NEW z \in Children(x), procs[z].st = "zombie",
             procs' = [procs EXCEPT ![z].st = "reaped", ![x].q = @ + 1]
      PROVE  WaitInv'
  <2> DEFINE s == [procs[z] EXCEPT !.st = "reaped"]
  <2>1. z \in DOMAIN procs /\ z \in Path /\ z # << >> /\ Parent(z) = x /\ z # x
    BY ChildrenOf
  <2>2. /\ DOMAIN procs' = DOMAIN procs /\ procs'[x] = r /\ procs'[z] = s
        /\ \A y \in DOMAIN procs : y # x /\ y # z => procs'[y] = procs[y]
    BY <1>5, <2>1 DEF r, p
  <2>3. s.st = "reaped"
    BY <2>1, Known DEF ProcRecord
  <2> HIDE DEF s
  <2>4. \A y \in DOMAIN procs : Children(y)' = Children(y) /\ Children(y) \subseteq DOMAIN procs
    BY <2>2 DEF Children
  <2>5. \A y \in DOMAIN procs : y # z => (procs'[y].st # "reaped" <=> procs[y].st # "reaped")
    BY <1>1, <1>3, <2>2 DEF p
  <2>6. Unreaped(x)' = Unreaped(x) \ {z} /\ z \in Unreaped(x)
    BY <1>5, <2>2, <2>3, <2>4, <2>5 DEF Unreaped
  <2>7. Cardinality(Unreaped(x)') = Cardinality(Unreaped(x)) - 1
    BY <1>2, <2>6, FS_RemoveElement
  <2>8. ASSUME NEW y \in DOMAIN procs, y # x PROVE Unreaped(y)' = Unreaped(y)
    <3>1. z \notin Children(y)
      BY <2>1, <2>8, ChildrenOf
    <3>2. QED
      BY <2>4, <2>5, <3>1 DEF Unreaped
  <2>9. ASSUME NEW y \in DOMAIN procs, procs'[y].st = "wait"
        PROVE  Cardinality(Unreaped(y)') <= procs'[y].flags.m - procs'[y].q
    <3>1. CASE y = x
      BY <1>2, <1>3, <2>2, <2>7, <3>1
    <3>2. CASE y # x
      <4>1. y # z /\ procs'[y] = procs[y]
        BY <2>2, <2>3, <2>9, <3>2
      <4>2. QED
        BY <2>8, <2>9, <3>2, <4>1 DEF WaitInv
    <3>3. QED
      BY <3>1, <3>2
  <2>10. QED
    BY <2>2, <2>9 DEF WaitInv
<1>6. QED
  BY <1>4, <1>5 DEF Wait

(* The program is started as one process, the root.                        *)
LEMMA TreeInit ==
  Init => TreeInv /\ WaitInv
<1> SUFFICES ASSUME Init PROVE TreeInv /\ WaitInv
  OBVIOUS
<1>1. PICK line \in Lines : procs = [x \in {<< >>} |-> Process("start", line, Default, 0)]
  BY DEF Init
<1> DEFINE r == Process("start", line, Default, 0)
<1>2. DOMAIN procs = {<< >>} /\ procs[<< >>] = r
  BY <1>1
<1>3. Default \in AllFlags /\ Default.m = 1
  BY DEF Default, AllFlags
<1>4. /\ r \in ProcRecord /\ r.st = "start" /\ r.flags = Default /\ r.q = 0
      /\ ~r.fell /\ r.how = "none"
  BY <1>3, LineAssumption, ProcessIs
<1> HIDE DEF r
<1>5. Local(<< >>, r)
  BY <1>3, <1>4 DEF Local
<1>6. << >> \in Path
  BY DEF Path
<1>7. PathInv /\ LocalInv /\ FamilyInv /\ WaitInv
  BY <1>2, <1>4, <1>5, <1>6 DEF PathInv, LocalInv, FamilyInv, WaitInv
<1>8. failures \in 0..MaxFailures
  BY LineAssumption DEF Init
<1>9. QED
  BY <1>7, <1>8 DEF TreeInv

(* TreeInv and WaitInv are inductive together: only the waits that were    *)
(* counted let a process say EXITING with nobody left.                     *)
LEMMA TreeStep ==
  TreeInv /\ WaitInv /\ [Next]_vars => TreeInv' /\ WaitInv'
<1> SUFFICES ASSUME TreeInv, WaitInv, [Next]_vars PROVE TreeInv' /\ WaitInv'
  OBVIOUS
<1>1. ASSUME NEW x \in DOMAIN procs, Step(x) \/ Signal(x) PROVE TreeInv' /\ WaitInv'
  <2>1. CASE Start(x)
    BY <2>1, StartKeepsTree, OthersKeepWait
  <2>2. CASE Fork(x)
    BY <2>2, ForkKeepsTree, ForkKeepsWait
  <2>3. CASE ForkFails(x)
    BY <2>3, ForkFailsKeepsTree, OthersKeepWait
  <2>4. CASE ForksDone(x)
    BY <2>4, ForksDoneKeepsTree, ForksDoneKeepsWait
  <2>5. CASE Exec(x)
    BY <2>5, ExecKeepsTree, OthersKeepWait
  <2>6. CASE ExecFails(x)
    BY <2>6, ExecFailsKeepsTree, OthersKeepWait
  <2>7. CASE Wait(x)
    BY <2>7, WaitKeepsTree, WaitKeepsWait
  <2>8. CASE WaitsDone(x)
    BY <2>8, WaitsDoneKeepsTree, OthersKeepWait
  <2>9. CASE Wake(x) \/ Signal(x)
    BY <2>9, LeafKeepsTree, OthersKeepWait
  <2>10. QED
    BY <1>1, <2>1, <2>2, <2>3, <2>4, <2>5, <2>6, <2>7, <2>8, <2>9 DEF Step
<1>2. CASE UNCHANGED vars
  <2>1. procs' = procs /\ failures' = failures
    BY <1>2 DEF vars
  <2>2. \A x : Children(x)' = Children(x)
    BY <2>1 DEF Children
  <2>3. \A x : Unreaped(x)' = Unreaped(x)
    BY <2>1, <2>2 DEF Unreaped
  <2>4. QED
    BY <2>1, <2>3 DEF TreeInv, PathInv, LocalInv, FamilyInv, WaitInv
<1>3. QED
  BY <1>1, <1>2 DEF Next

(* The records of all processes stay in their types, and the levels and    *)
(* numbers of children in their bounds, whatever char makes of the         *)
(* arguments; no process is without a parent.                              *)
THEOREM TypeCorrect ==
  Spec => []TypeOK
<1>1. TreeInv => TypeOK
  <2> SUFFICES ASSUME TreeInv PROVE TypeOK
    OBVIOUS
  <2>1. failures \in 0..MaxFailures
    BY DEF TreeInv
  <2>2. ASSUME NEW x \in DOMAIN procs
        PROVE  /\ procs[x].st \in {"start", "fork", "exec", "wait", "leaf", "zombie", "reaped"}
               /\ procs[x].how \in {"none", "exiting", "usage", "fork", "signal"}
               /\ procs[x].how = "none" <=> Alive(x)
               /\ procs[x].flags.n \in 1..4 /\ procs[x].flags.m \in 1..3
               /\ procs[x].q \in 0..procs[x].flags.m
               /\ x # << >> => SubSeq(x, 1, Len(x) - 1) \in DOMAIN procs
    <3>1. Local(x, procs[x]) /\ procs[x] \in ProcRecord
      BY Known
    <3>2. /\ procs[x].st \in {"start", "fork", "exec", "wait", "leaf", "zombie", "reaped"}
          /\ procs[x].how \in {"none", "exiting", "usage", "fork", "signal"}
          /\ procs[x].q \in Nat /\ procs[x].flags.n \in 1..4 /\ procs[x].flags.m \in 1..3
      BY <3>1 DEF ProcRecord, AllFlags
    <3>3. procs[x].how = "none" <=> Alive(x)
      BY <3>1 DEF Local, Alive
    <3>4. procs[x].q \in 0..procs[x].flags.m
      BY <3>1, <3>2 DEF Local
    <3>5. x # << >> => SubSeq(x, 1, Len(x) - 1) \in DOMAIN procs
      BY DEF TreeInv, PathInv, Parent
    <3>6. QED
      BY <3>2, <3>3, <3>4, <3>5
  <2>3. QED
    BY <2>1, <2>2 DEF TypeOK
<1>2. QED
  BY <1>1, TreeInit, TreeStep, PTL DEF Spec

(* What a process writes on the command line of its children, they accept. *)
THEOREM ChildLineIsAccepted ==
  Spec => []ChildLineAccepted
<1>1. TreeInv => ChildLineAccepted
  BY DEF TreeInv, LocalInv, Local, ChildLineAccepted
<1>2. QED
  BY <1>1, TreeInit, TreeStep, PTL DEF Spec

-----------------------------------------------------------------------------
(* All processes on the way from the root to a process exist.              *)
LEMMA PrefixExists ==
  ASSUME TreeInv, NEW y \in DOMAIN procs
  PROVE  y \in Path /\ \A k \in 0..Len(y) : Prefix(y, k) \in DOMAIN procs
<1>1. y \in Path /\ Len(y) \in Nat
  BY DEF TreeInv, PathInv, Path
<1> DEFINE n == Len(y)
           Ks == {k \in 0..n : Prefix(y, n - k) \in DOMAIN procs}
<1>2. 0 \in Ks
  <2>1. n \in 0..Len(y) /\ n - 0 = n /\ 0 \in 0..n
    BY <1>1
  <2>2. Prefix(y, n) = y
    BY <1>1, <2>1, PrefixIs
  <2>3. QED
    BY <2>1, <2>2
<1>3. ASSUME NEW k \in 0..(n - 1), k \in Ks PROVE k + 1 \in Ks
  <2>1. /\ n - k \in 0..Len(y) /\ n - k # 0 /\ k + 1 \in 0..n
        /\ (n - k) - 1 = n - (k + 1)
    BY <1>1
  <2>2. Prefix(y, n - k) # << >> /\ Parent(Prefix(y, n - k)) = Prefix(y, (n - k) - 1)
    BY <1>1, <2>1, PrefixIs
  <2>3. Prefix(y, n - k) \in DOMAIN procs
    BY <1>3
  <2>4. QED
    BY <2>1, <2>2, <2>3 DEF TreeInv, PathInv
<1> HIDE DEF Ks
<1>4. \A k \in 0..n : k \in Ks
  BY <1>1, <1>2, <1>3, UpTo
<1>5. ASSUME NEW k \in 0..n PROVE Prefix(y, k) \in DOMAIN procs
  <2>1. n - k \in 0..n /\ n - (n - k) = k
    BY <1>1
  <2>2. n - k \in Ks
    BY <1>4, <2>1
  <2>3. QED
    BY <2>1, <2>2 DEF Ks
<1>6. QED
  BY <1>1, <1>5

(* What stands at a prefix of a path, seen from its parent.                *)
LEMMA PrefixFamily ==
  ASSUME TreeInv, NEW y \in DOMAIN procs, NEW k \in 1..Len(y)
  PROVE  /\ Family(procs[Prefix(y, k - 1)], procs[Prefix(y, k)], Prefix(y, k))
         /\ Latest(Prefix(y, k)) = y[k] /\ y[k] \in Nat
         /\ Prefix(y, k) \in Children(Prefix(y, k - 1))
<1>1. y \in Path /\ Len(y) \in Nat /\ k \in 0..Len(y) /\ k - 1 \in 0..Len(y) /\ k # 0
  BY PrefixExists DEF Path
<1>2. Prefix(y, k) \in DOMAIN procs /\ Prefix(y, k - 1) \in DOMAIN procs
  BY <1>1, PrefixExists
<1>3. /\ Prefix(y, k) # << >> /\ Parent(Prefix(y, k)) = Prefix(y, k - 1)
      /\ Latest(Prefix(y, k)) = y[k] /\ Prefix(y, k) \in Path /\ Prefix(y, k - 1) \in Path
  BY <1>1, PrefixIs
<1>4. y[k] \in Nat
  BY <1>1 DEF Path
<1>5. Prefix(y, k) \in Children(Prefix(y, k - 1))
  BY <1>2, <1>3, ChildrenAre DEF TreeInv, PathInv
<1>6. QED
  BY <1>2, <1>3, <1>4, <1>5 DEF TreeInv, FamilyInv

(* A prefix of a prefix.                                                   *)
LEMMA PrefixOfPrefix ==
  ASSUME NEW y \in Path, NEW k \in 0..Len(y), NEW j \in 0..k
  PROVE  Prefix(Prefix(y, k), j) = Prefix(y, j)
<1> DEFINE p == Prefix(y, k)
           a == Prefix(p, j)
           b == Prefix(y, j)
<1>1. Len(y) \in Nat /\ j \in 0..Len(y)
  BY DEF Path
<1>2. p \in Path /\ Len(p) = k /\ \A i \in 1..k : p[i] = y[i]
  BY PrefixIs
<1> HIDE DEF p
<1>3. a \in Path /\ Len(a) = j /\ \A i \in 1..j : a[i] = p[i]
  BY <1>2, PrefixIs
<1>4. b \in Path /\ Len(b) = j /\ \A i \in 1..j : b[i] = y[i]
  BY <1>1, PrefixIs
<1> HIDE DEF a, b
<1>5. \A i \in 1..j : a[i] = b[i]
  BY <1>1, <1>2, <1>3, <1>4
<1>6. a = b
  BY <1>3, <1>4, <1>5, SeqEqual DEF Path
<1>7. QED
  BY <1>6 DEF a, b, p

-----------------------------------------------------------------------------
(* Nothing alive is left below a process that says EXITING: on the way up  *)
(* from a living one, the first process that is not alive was ended by a   *)
(* failed fork, for the others have reaped all their children.             *)
LEMMA NoneLeft ==
  ASSUME TreeInv, NEW x \in DOMAIN procs, procs[x].how = "exiting",
         NEW y \in Below(x), Alive(y)
  PROVE  \E z \in Below(x) : y \in Below(z) /\ procs[z].how = "fork"
<1>1. /\ y \in DOMAIN procs /\ y \in Path /\ x \in Path /\ Len(x) \in Nat /\ Len(y) \in Nat
      /\ Len(x) < Len(y) /\ Prefix(y, Len(x)) = x
  BY DEF Below, TreeInv, PathInv, Path, Prefix
<1> DEFINE Ended(k) == ~Alive(Prefix(y, k))
           Ks == {k \in Len(x)..Len(y) : Ended(k)}
<1>2. ~Alive(x)
  BY Known DEF Local, Alive
<1>3. Len(x) \in Ks /\ Ks \in SUBSET Nat /\ \A k \in Ks : k <= Len(y)
  BY <1>1, <1>2
<1>4. PICK k \in Ks : \A j \in Ks : k >= j
  <2> HIDE DEF Ks
  <2>1. QED
    BY <1>1, <1>3, GreatestNumber
<1>5. k # Len(y) /\ k \in Nat /\ Len(x) <= k /\ k <= Len(y)
  <2>1. Prefix(y, Len(y)) = y
    BY <1>1, PrefixIs
  <2>2. QED
    BY <1>1, <1>4, <2>1
<1>6. k + 1 \in 1..Len(y) /\ k + 1 \notin Ks /\ k + 1 \in Len(x)..Len(y) /\ (k + 1) - 1 = k
  BY <1>1, <1>4, <1>5
<1> DEFINE z == Prefix(y, k)
           c == Prefix(y, k + 1)
<1>7. Alive(c) /\ ~Alive(z)
  BY <1>4, <1>6
<1>8. Family(procs[z], procs[c], c)
  BY <1>1, <1>6, PrefixFamily
<1>9. z \in DOMAIN procs /\ z \in Path /\ Len(z) = k
  BY <1>1, <1>5, PrefixExists, PrefixIs
<1>10. procs[z].how = "fork"
  <2>1. procs[z].how # "none"
    BY <1>7, <1>9, Known DEF Local, Alive
  <2>2. procs[z].how # "exiting"
    BY <1>7, <1>8 DEF Family, Alive
  <2>3. QED
    BY <1>8, <2>1, <2>2 DEF Family
<1>11. k # Len(x)
  BY <1>1, <1>10
<1>12. z \in Below(x)
  <2>1. Prefix(z, Len(x)) = x
    BY <1>1, <1>5, PrefixOfPrefix
  <2>2. Len(z) > Len(x)
    BY <1>1, <1>5, <1>9, <1>11
  <2>3. QED
    BY <1>9, <2>1, <2>2 DEF Below, Prefix
<1>13. y \in Below(z)
  <2>1. Len(y) > Len(z) /\ SubSeq(y, 1, Len(z)) = z
    BY <1>1, <1>5, <1>9 DEF Prefix
  <2>2. QED
    BY <1>1, <2>1 DEF Below
<1>14. QED
  BY <1>10, <1>12, <1>13

(* The property for all processes.                                         *)
LEMMA NoneLeftFollows ==
  TreeInv => NoneLeftBelow
<1> SUFFICES ASSUME TreeInv, NEW x \in DOMAIN procs, procs[x].how = "exiting"
             PROVE  /\ \A y \in Children(x) : procs[y].st = "reaped"
                    /\ \A y \in Below(x) : Alive(y) =>
                         \E z \in Below(x) : y \in Below(z) /\ procs[z].how = "fork"
  BY DEF NoneLeftBelow
<1>1. \A y \in Children(x) : procs[y].st = "reaped"
  BY Known DEF Family
<1>2. QED
  BY <1>1, NoneLeft

(* A process takes leave of all its children before it says EXITING, in    *)
(* whatever order they end and whoever falls through into a second parent. *)
THEOREM ExitingLeavesNone ==
  Spec => []NoneLeftBelow
BY TreeInit, TreeStep, NoneLeftFollows, PTL DEF Spec

-----------------------------------------------------------------------------
(* Children that fell through follow each other with growing numbers.      *)
LEMMA FallsGrow ==
  ASSUME TreeInv, NEW x \in DOMAIN procs, NEW d \in 1..Len(x),
         \A e \in d..Len(x) : procs[Prefix(x, e)].fell
  PROVE  Len(x) - d < procs[x].flags.m
<1>1. x \in Path /\ Len(x) \in Nat /\ d \in Nat /\ d >= 1 /\ d <= Len(x)
  BY PrefixExists DEF Path
<1> DEFINE Ks == {k \in 0..(Len(x) - d) : x[d + k] >= k}
<1>2. 0 \in Ks
  <2>1. d + 0 = d /\ x[d] \in Nat
    BY <1>1 DEF Path
  <2>2. QED
    BY <1>1, <2>1
<1>3. ASSUME NEW k \in 0..((Len(x) - d) - 1), k \in Ks PROVE k + 1 \in Ks
  <2> DEFINE e == d + k
  <2>1. /\ e \in 1..Len(x) /\ e \in d..Len(x) /\ e + 1 \in 1..Len(x) /\ (e + 1) - 1 = e
        /\ k + 1 \in 0..(Len(x) - d) /\ d + (k + 1) = e + 1
    BY <1>1
  <2> HIDE DEF e
  <2>2. /\ Family(procs[Prefix(x, e)], procs[Prefix(x, e + 1)], Prefix(x, e + 1))
        /\ Latest(Prefix(x, e + 1)) = x[e + 1] /\ x[e + 1] \in Nat
        /\ Latest(Prefix(x, e)) = x[e] /\ x[e] \in Nat
    BY <2>1, PrefixFamily
  <2>3. Parent(Prefix(x, e + 1)) = Prefix(x, e)
    <3>1. e + 1 \in 0..Len(x) /\ e + 1 # 0
      BY <2>1
    <3>2. QED
      BY <1>1, <2>1, <3>1, PrefixIs
  <2>4. x[e] < x[e + 1]
    BY <2>1, <2>2, <2>3 DEF Family
  <2>5. x[e] >= k
    BY <1>3 DEF e
  <2>6. QED
    BY <2>1, <2>2, <2>4, <2>5
<1> HIDE DEF Ks
<1>4. \A k \in 0..(Len(x) - d) : k \in Ks
  <2>1. Len(x) - d \in Nat
    BY <1>1
  <2>2. QED
    BY <1>2, <1>3, <2>1, UpTo
<1>5. x[Len(x)] >= Len(x) - d
  <2>1. Len(x) - d \in 0..(Len(x) - d) /\ d + (Len(x) - d) = Len(x)
    BY <1>1
  <2>2. Len(x) - d \in Ks
    BY <1>4, <2>1
  <2>3. QED
    BY <2>1, <2>2 DEF Ks
<1>6. procs[x].fell
  <2>1. Len(x) \in d..Len(x) /\ Prefix(x, Len(x)) = x
    BY <1>1, PrefixIs
  <2>2. QED
    BY <2>1
<1>7. x[Len(x)] < procs[x].flags.m /\ procs[x].flags.m \in Nat /\ x[Len(x)] \in Nat
  <2>1. Latest(x) < procs[x].flags.m /\ procs[x].flags.m \in Nat
    BY <1>6, Known DEF Local, ProcRecord, AllFlags
  <2>2. Len(x) \in 1..Len(x)
    BY <1>1
  <2>3. QED
    BY <1>1, <2>1, <2>2 DEF Latest, Path
<1>8. QED
  BY <1>1, <1>5, <1>7

(* A chain of children whose execvp failed is no longer than the loop they *)
(* all go on with.                                                         *)
THEOREM FallsComeToAnEnd ==
  Spec => []FallsEnd
<1>1. TreeInv => FallsEnd
  BY FallsGrow DEF FallsEnd, Prefix
<1>2. QED
  BY <1>1, TreeInit, TreeStep, PTL DEF Spec

-----------------------------------------------------------------------------
(* The whole tree.  A process that has not fallen through has made a child *)
(* in each turn of its loop so far, and only leaves get away without; D    *)
(* stands for the processes there are, r for what x is like.               *)
Grown(D, x, r) ==
  ~r.fell =>
    /\ r.st = "fork" => \A i \in 0..(r.q - 1) : Append(x, i) \in D
    /\ r.st = "wait" \/ (r.how = "exiting" /\ r.flags.n >= 2) =>
         \A i \in 0..(r.flags.m - 1) : Append(x, i) \in D
    /\ r.st = "leaf" \/ r.how = "signal" => r.flags.n <= 1

Unfailed(r) == ~r.fell /\ r.how # "fork"

GrownInv ==
  /\ \A x \in DOMAIN procs : Grown(DOMAIN procs, x, procs[x])
  /\ failures = 0 => \A x \in DOMAIN procs : Unfailed(procs[x])

(* A step of one process keeps that, if its new record does.               *)
LEMMA GrownBecome ==
  ASSUME GrownInv, NEW x \in DOMAIN procs, NEW r, Become(x, r),
         Grown(DOMAIN procs, x, r), failures' = 0 => failures = 0 /\ Unfailed(r)
  PROVE  GrownInv'
<1>1. /\ DOMAIN procs' = DOMAIN procs /\ procs'[x] = r
      /\ \A y \in DOMAIN procs : y # x => procs'[y] = procs[y]
  BY DEF Become
<1>2. ASSUME NEW y \in DOMAIN procs PROVE Grown(DOMAIN procs, y, procs'[y])
  <2>1. CASE y = x
    BY <1>1, <2>1
  <2>2. CASE y # x
    BY <1>1, <2>2 DEF GrownInv
  <2>3. QED
    BY <2>1, <2>2
<1>3. ASSUME failures' = 0, NEW y \in DOMAIN procs PROVE Unfailed(procs'[y])
  BY <1>1, <1>3 DEF GrownInv
<1>4. QED
  BY <1>1, <1>2, <1>3 DEF GrownInv

(* A process that begins has no turns behind it.                           *)
LEMMA BeginKeepsGrown ==
  ASSUME TreeInv, GrownInv, NEW x \in DOMAIN procs, Start(x) \/ Exec(x)
  PROVE  GrownInv'
<1> DEFINE p == procs[x]
           f == Parsed(p.argv)
<1>1. p \in ProcRecord /\ Local(x, p) /\ (failures = 0 => Unfailed(p)) /\ failures' = failures
  BY Known DEF GrownInv, Start, Exec
<1>2. CASE Start(x) /\ (~f.ok \/ (f.p /\ f.s))
  <2> DEFINE r == [p EXCEPT !.st = "zombie", !.how = "usage"]
  <2>1. Become(x, r)
    BY <1>2 DEF Start, End
  <2>2. r.st = "zombie" /\ r.how = "usage" /\ r.fell = p.fell
    BY <1>1 DEF ProcRecord
  <2> HIDE DEF r
  <2>3. Grown(DOMAIN procs, x, r) /\ (failures = 0 => Unfailed(r))
    BY <1>1, <2>2 DEF Grown, Unfailed
  <2>4. QED
    BY <1>1, <2>1, <2>3, GrownBecome
<1>3. CASE Start(x) /\ ~(~f.ok \/ (f.p /\ f.s))
  <2> DEFINE st == IF IsLeaf(f) THEN "leaf" ELSE "fork"
             r  == Process(st, << >>, f, 0)
  <2>1. Become(x, r) /\ f \in AllFlags /\ << >> \in CommandLine
    BY <1>1, <1>3, ParsedFlags DEF Start, ProcRecord, CommandLine
  <2>2. st \in {"leaf", "fork"} /\ (st = "leaf" => f.n <= 1)
    BY DEF IsLeaf
  <2> HIDE DEF st, f
  <2>3. r.st = st /\ r.flags = f /\ r.q = 0 /\ ~r.fell /\ r.how = "none"
    BY <2>1, <2>2, ProcessIs
  <2> HIDE DEF r
  <2>4. Grown(DOMAIN procs, x, r) /\ Unfailed(r)
    BY <2>2, <2>3 DEF Grown, Unfailed
  <2>5. QED
    BY <1>1, <2>1, <2>4, GrownBecome
<1>4. CASE Exec(x)
  <2> DEFINE r == Process("start", ChildLine(p.flags), Default, 0)
  <2>1. Become(x, r)
    BY <1>4 DEF Exec
  <2>2. r.st = "start" /\ ~r.fell /\ r.how = "none"
    BY DEF Process
  <2> HIDE DEF r
  <2>3. Grown(DOMAIN procs, x, r) /\ Unfailed(r)
    BY <2>2 DEF Grown, Unfailed
  <2>4. QED
    BY <1>1, <2>1, <2>3, GrownBecome
<1>5. QED
  BY <1>2, <1>3, <1>4

(* Once a call has failed, not everything is asked for any more.           *)
LEMMA FailKeepsGrown ==
  ASSUME TreeInv, GrownInv, NEW x \in DOMAIN procs, ForkFails(x) \/ ExecFails(x)
  PROVE  GrownInv'
<1> DEFINE p == procs[x]
<1>1. p \in ProcRecord /\ failures \in Nat /\ failures' = failures + 1
  BY Known, LineAssumption DEF ForkFails, ExecFails, TreeInv
<1>2. failures' # 0
  BY <1>1
<1>3. CASE ForkFails(x)
  <2> DEFINE r == [p EXCEPT !.st = "zombie", !.how = "fork"]
  <2>1. Become(x, r)
    BY <1>3 DEF ForkFails, End
  <2>2. r.st = "zombie" /\ r.how = "fork"
    BY <1>1 DEF ProcRecord
  <2> HIDE DEF r
  <2>3. Grown(DOMAIN procs, x, r)
    BY <2>2 DEF Grown
  <2>4. QED
    BY <1>2, <2>1, <2>3, GrownBecome
<1>4. CASE ExecFails(x)
  <2> DEFINE r == [p EXCEPT !.st = "fork", !.q = @ + 1, !.fell = TRUE]
  <2>1. Become(x, r)
    BY <1>4 DEF ExecFails
  <2>2. r.fell
    BY <1>1 DEF ProcRecord
  <2> HIDE DEF r
  <2>3. Grown(DOMAIN procs, x, r)
    BY <2>2 DEF Grown
  <2>4. QED
    BY <1>2, <2>1, <2>3, GrownBecome
<1>5. QED
  BY <1>3, <1>4

(* A process leaves its first loop with all its children made, and takes   *)
(* them along to its end; a leaf ends without.                             *)
LEMMA LoopKeepsGrown ==
  ASSUME TreeInv, GrownInv, NEW x \in DOMAIN procs,
         ForksDone(x) \/ WaitsDone(x) \/ Wake(x) \/ Signal(x)
  PROVE  GrownInv'
<1> DEFINE p == procs[x]
<1>1. /\ p \in ProcRecord /\ p.q \in Nat /\ p.flags.m \in Nat
      /\ Grown(DOMAIN procs, x, p) /\ (failures = 0 => Unfailed(p)) /\ failures' = failures
  BY Known DEF GrownInv, ForksDone, WaitsDone, Wake, Signal, ProcRecord, AllFlags
<1>2. CASE ForksDone(x)
  <2> DEFINE r == [p EXCEPT !.st = "wait", !.q = 0]
  <2>1. Become(x, r) /\ p.st = "fork" /\ p.q >= p.flags.m
    BY <1>2 DEF ForksDone
  <2>2. r.st = "wait" /\ r.how = p.how /\ r.flags = p.flags /\ r.fell = p.fell
    BY <1>1 DEF ProcRecord
  <2> HIDE DEF r, p
  <2>3. ~p.fell => \A i \in 0..(p.flags.m - 1) : Append(x, i) \in DOMAIN procs
    BY <1>1, <2>1 DEF Grown
  <2>4. r.how # "signal" /\ r.how # "exiting"
    BY <1>1, <2>1, <2>2, Known DEF Local, p
  <2>5. Grown(DOMAIN procs, x, r) /\ (failures = 0 => Unfailed(r))
    BY <1>1, <2>2, <2>3, <2>4 DEF Grown, Unfailed
  <2>6. QED
    BY <1>1, <2>1, <2>5, GrownBecome
<1>3. CASE WaitsDone(x) \/ Wake(x) \/ Signal(x)
  <2>1. PICK how \in {"exiting", "signal"} :
          /\ End(x, how) /\ p.st \in {"wait", "leaf"}
          /\ how = "signal" => p.st = "leaf"
    BY <1>3 DEF WaitsDone, Wake, Signal, Paused
  <2> DEFINE r == [p EXCEPT !.st = "zombie", !.how = how]
  <2>2. Become(x, r)
    BY <2>1 DEF End
  <2>3. r.st = "zombie" /\ r.how = how /\ r.flags = p.flags /\ r.fell = p.fell
    BY <1>1 DEF ProcRecord
  <2>4. p.flags.n \in Nat
    BY <1>1 DEF ProcRecord, AllFlags
  <2> HIDE DEF r, p
  <2>5. Grown(DOMAIN procs, x, r) /\ (failures = 0 => Unfailed(r))
    BY <1>1, <2>1, <2>3, <2>4 DEF Grown, Unfailed
  <2>6. QED
    BY <1>1, <2>2, <2>5, GrownBecome
<1>4. QED
  BY <1>2, <1>3

(* A turn of the first loop makes the next child.                          *)
LEMMA ForkKeepsGrown ==
  ASSUME TreeInv, GrownInv, NEW x \in DOMAIN procs, Fork(x)
  PROVE  GrownInv'
<1> DEFINE p == procs[x]
           c == Append(x, p.q)
           r == [p EXCEPT !.q = @ + 1]
           s == Process("exec", << >>, p.flags, p.q)
           D == DOMAIN procs \cup {c}
<1>1. /\ p.st = "fork" /\ failures' = failures
      /\ procs' = [y \in D |-> IF y = c THEN s ELSE IF y = x THEN r ELSE procs[y]]
  BY DEF Fork
<1>2. /\ x \in Path /\ p \in ProcRecord /\ p.q \in Nat
      /\ Grown(DOMAIN procs, x, p) /\ (failures = 0 => Unfailed(p))
  BY Known DEF GrownInv, ProcRecord
<1>3. c # x
  BY <1>2, ChildPath
<1>4. s.st = "exec" /\ ~s.fell /\ s.how = "none"
  BY DEF Process
<1>5. r.st = p.st /\ r.how = p.how /\ r.q = p.q + 1 /\ r.flags = p.flags /\ r.fell = p.fell
  BY <1>2 DEF ProcRecord
<1>6. DOMAIN procs \subseteq D /\ c \in D
  OBVIOUS
<1> HIDE DEF r, s
<1>7. Grown(D, c, s) /\ Unfailed(s)
  BY <1>4 DEF Grown, Unfailed
<1>8. Grown(D, x, r) /\ (failures = 0 => Unfailed(r))
  <2>1. \A i \in 0..(r.q - 1) : i = p.q \/ i \in 0..(p.q - 1)
    BY <1>2, <1>5
  <2>2. p.how = "none"
    BY <1>1, Known DEF Local
  <2> HIDE DEF p
  <2>3. ~p.fell => \A i \in 0..(r.q - 1) : Append(x, i) \in D
    BY <1>1, <1>2, <1>6, <2>1 DEF Grown, c
  <2> HIDE DEF c, D
  <2>4. QED
    BY <1>1, <1>2, <1>5, <2>2, <2>3 DEF Grown, Unfailed
<1>9. ASSUME NEW y \in DOMAIN procs
      PROVE  Grown(D, y, procs[y]) /\ (failures = 0 => Unfailed(procs[y]))
  <2>1. Grown(DOMAIN procs, y, procs[y]) /\ (failures = 0 => Unfailed(procs[y]))
    BY DEF GrownInv
  <2> HIDE DEF D
  <2>2. QED
    BY <1>6, <2>1 DEF Grown
<1>10. /\ DOMAIN procs' = D /\ procs'[c] = s /\ procs'[x] = r
       /\ \A y \in D : y # c /\ y # x => y \in DOMAIN procs /\ procs'[y] = procs[y]
  BY <1>1, <1>3
<1> HIDE DEF c, D, p
<1>11. ASSUME NEW y \in D
       PROVE  Grown(D, y, procs'[y]) /\ (failures = 0 => Unfailed(procs'[y]))
  <2>1. CASE y = c
    BY <1>7, <1>10, <2>1
  <2>2. CASE y = x
    BY <1>8, <1>10, <2>2
  <2>3. CASE y # c /\ y # x
    BY <1>9, <1>10, <2>3
  <2>4. QED
    BY <2>1, <2>2, <2>3
<1>12. QED
  BY <1>1, <1>10, <1>11 DEF GrownInv

(* A turn of the second loop makes and ends none.                          *)
LEMMA WaitKeepsGrown ==
  ASSUME TreeInv, GrownInv, NEW x \in DOMAIN procs, Wait(x)
  PROVE  GrownInv'
<1> DEFINE Same(y) ==
             /\ procs'[y].st = procs[y].st \/ (procs'[y].st = "reaped" /\ procs[y].st = "zombie")
             /\ procs'[y].st # "fork"
             /\ procs'[y].how = procs[y].how /\ procs'[y].flags = procs[y].flags
             /\ procs'[y].fell = procs[y].fell
<1>1. procs[x].st = "wait" /\ failures' = failures /\ procs[x] \in ProcRecord
  BY Known DEF Wait
<1>2. DOMAIN procs' = DOMAIN procs /\ \A y \in DOMAIN procs : procs'[y] = procs[y] \/ Same(y)
  <2>1. CASE procs' = [procs EXCEPT ![x].q = @ + 1]
    <3>1. /\ DOMAIN procs' = DOMAIN procs /\ procs'[x] = [procs[x] EXCEPT !.q = @ + 1]
          /\ \A y \in DOMAIN procs : y # x => procs'[y] = procs[y]
      BY <2>1
    <3>2. Same(x)
      BY <1>1, <3>1 DEF ProcRecord
    <3> HIDE DEF Same
    <3>3. QED
      BY <3>1, <3>2
  <2>2. ASSUME NEW y \in Children(x), procs[y].st = "zombie",
               procs' = [procs EXCEPT ![y].st = "reaped", ![x].q = @ + 1]
        PROVE  DOMAIN procs' = DOMAIN procs
               /\ \A z \in DOMAIN procs : procs'[z] = procs[z] \/ Same(z)
    <3>1. y \in DOMAIN procs /\ y # x /\ procs[y] \in ProcRecord
      BY ChildrenOf, Known
    <3>2. /\ DOMAIN procs' = DOMAIN procs
          /\ procs'[x] = [procs[x] EXCEPT !.q = @ + 1]
          /\ procs'[y] = [procs[y] EXCEPT !.st = "reaped"]
          /\ \A z \in DOMAIN procs : z # x /\ z # y => procs'[z] = procs[z]
      BY <2>2, <3>1
    <3>3. Same(x)
      BY <1>1, <3>2 DEF ProcRecord
    <3>4. Same(y)
      BY <2>2, <3>1, <3>2 DEF ProcRecord
    <3> HIDE DEF Same
    <3>5. QED
      BY <3>2, <3>3, <3>4
  <2>3. QED
    BY <2>1, <2>2 DEF Wait
<1>3. ASSUME NEW y \in DOMAIN procs
      PROVE  Grown(DOMAIN procs, y, procs'[y]) /\ (failures = 0 => Unfailed(procs'[y]))
  <2>1. Grown(DOMAIN procs, y, procs[y]) /\ (failures = 0 => Unfailed(procs[y]))
    BY DEF GrownInv
  <2>2. CASE Same(y)
    BY <2>1, <2>2 DEF Grown, Unfailed
  <2>3. CASE procs'[y] = procs[y]
    BY <2>1, <2>3
  <2>4. QED
    BY <1>2, <2>2, <2>3
<1>4. QED
  BY <1>1, <1>2, <1>3 DEF GrownInv

(* The three invariants together are inductive.                            *)
WholeInv == TreeInv /\ WaitInv /\ GrownInv

(* The root has not made any child yet.                                    *)
LEMMA WholeInit ==
  Init => WholeInv
<1> SUFFICES ASSUME Init PROVE GrownInv
  BY TreeInit DEF WholeInv
<1>1. PICK line \in Lines : procs = [x \in {<< >>} |-> Process("start", line, Default, 0)]
  BY DEF Init
<1> DEFINE r == Process("start", line, Default, 0)
<1>2. DOMAIN procs = {<< >>} /\ procs[<< >>] = r
  BY <1>1
<1>3. r.st = "start" /\ ~r.fell /\ r.how = "none"
  BY DEF Process
<1> HIDE DEF r
<1>4. QED
  BY <1>2, <1>3 DEF GrownInv, Grown, Unfailed

(* Every step keeps all three.                                             *)
LEMMA WholeStep ==
  WholeInv /\ [Next]_vars => WholeInv'
<1> SUFFICES ASSUME TreeInv, GrownInv, [Next]_vars PROVE GrownInv'
  BY TreeStep DEF WholeInv
<1>1. ASSUME NEW x \in DOMAIN procs, Step(x) \/ Signal(x) PROVE GrownInv'
  BY <1>1, BeginKeepsGrown, FailKeepsGrown, LoopKeepsGrown, ForkKeepsGrown, WaitKeepsGrown
     DEF Step
<1>2. CASE UNCHANGED vars
  BY <1>2 DEF vars, GrownInv
<1>3. QED
  BY <1>1, <1>2 DEF Next

(* When the root has said EXITING and nothing has failed, all have ended.  *)
Over == procs[<< >>].how = "exiting" /\ failures = 0

(* A process still alive would hang from a fork that failed.               *)
LEMMA AllEnded ==
  ASSUME WholeInv, Over, NEW y \in DOMAIN procs
  PROVE  ~Alive(y) /\ Unfailed(procs[y])
<1>1. \A z \in DOMAIN procs : Unfailed(procs[z])
  BY DEF WholeInv, GrownInv, Over
<1>2. << >> \in DOMAIN procs /\ y \in Path /\ Len(y) \in Nat
  BY DEF WholeInv, TreeInv, PathInv, Path
<1>3. CASE y = << >>
  BY <1>1, <1>2, <1>3, Known DEF WholeInv, Over, Local, Alive
<1>4. CASE y # << >>
  <2>1. Prefix(y, 0) = << >>
    <3>1. 0 \in 0..Len(y)
      BY <1>2
    <3>2. Prefix(y, 0) \in Path /\ Len(Prefix(y, 0)) = 0
      BY <1>2, <3>1, PrefixIs
    <3>3. QED
      BY <3>2 DEF Path
  <2>2. Len(y) > 0
    BY <1>2, <1>4 DEF Path
  <2>3. y \in Below(<< >>)
    BY <2>1, <2>2 DEF Below, Prefix
  <2>4. \A z \in Below(<< >>) : procs[z].how # "fork"
    BY <1>1 DEF Below, Unfailed
  <2>5. QED
    BY <1>1, <1>2, <2>3, <2>4, NoneLeft DEF WholeInv, Over
<1>5. QED
  BY <1>3, <1>4

(* From the root down each process has one level less, and as many turns.  *)
LEMMA LevelsFall ==
  ASSUME WholeInv, Over, NEW y \in DOMAIN procs
  PROVE  \A k \in 0..Len(y) :
           /\ procs[Prefix(y, k)].flags.n = procs[<< >>].flags.n - k
           /\ procs[Prefix(y, k)].flags.m = procs[<< >>].flags.m
<1> DEFINE f == procs[<< >>].flags
           Level(k) == /\ procs[Prefix(y, k)].flags.n = f.n - k
                       /\ procs[Prefix(y, k)].flags.m = f.m
           Ks == {k \in 0..Len(y) : Level(k)}
<1>1. /\ y \in Path /\ Len(y) \in Nat /\ TreeInv
      /\ f.n \in Nat
  <2>1. << >> \in DOMAIN procs /\ y \in Path /\ TreeInv
    BY DEF WholeInv, TreeInv, PathInv
  <2>2. f \in AllFlags
    BY <2>1, Known DEF ProcRecord
  <2>3. f.n \in Nat
    BY <2>2 DEF AllFlags
  <2>4. QED
    BY <2>1, <2>3 DEF Path
<1>2. 0 \in Ks
  <2>1. 0 \in 0..Len(y)
    BY <1>1
  <2>2. Prefix(y, 0) \in Path /\ Len(Prefix(y, 0)) = 0
    BY <1>1, <2>1, PrefixIs
  <2>3. Prefix(y, 0) = << >>
    BY <2>2 DEF Path
  <2>4. QED
    BY <1>1, <2>1, <2>3
<1>3. ASSUME NEW k \in 0..(Len(y) - 1), k \in Ks PROVE k + 1 \in Ks
  <2>1. k + 1 \in 1..Len(y) /\ k + 1 \in 0..Len(y) /\ (k + 1) - 1 = k /\ k \in Nat
    BY <1>1
  <2>2. Family(procs[Prefix(y, k)], procs[Prefix(y, k + 1)], Prefix(y, k + 1))
    BY <1>1, <2>1, PrefixFamily
  <2>3. Prefix(y, k + 1) \in DOMAIN procs
    BY <1>1, <2>1, PrefixExists
  <2>4. /\ procs[Prefix(y, k + 1)].st \notin {"exec", "start"}
        /\ ~procs[Prefix(y, k + 1)].fell
    BY <2>3, AllEnded DEF Alive, Unfailed
  <2>5. /\ procs[Prefix(y, k + 1)].flags.n = procs[Prefix(y, k)].flags.n - 1
        /\ procs[Prefix(y, k + 1)].flags.m = procs[Prefix(y, k)].flags.m
    BY <2>2, <2>4 DEF Family
  <2>6. Level(k)
    BY <1>3
  <2>7. Level(k + 1)
    BY <1>1, <2>1, <2>5, <2>6
  <2>8. QED
    BY <2>1, <2>7
<1> HIDE DEF Ks
<1>4. \A k \in 0..Len(y) : k \in Ks
  BY <1>1, <1>2, <1>3, UpTo
<1>5. QED
  BY <1>4 DEF Ks

(* What the process at the end of its path has of it.                      *)
LEMMA LevelOf ==
  ASSUME WholeInv, Over, NEW y \in DOMAIN procs
  PROVE  /\ procs[y].flags.n = procs[<< >>].flags.n - Len(y)
         /\ procs[y].flags.m = procs[<< >>].flags.m
         /\ y \in Path /\ Len(y) \in Nat
         /\ procs[y].flags.n \in 1..4 /\ procs[y].flags.m \in 1..3
<1>1. y \in Path /\ Len(y) \in Nat /\ TreeInv
  BY DEF WholeInv, TreeInv, PathInv, Path
<1>2. Len(y) \in 0..Len(y) /\ Prefix(y, Len(y)) = y
  BY <1>1, PrefixIs
<1>3. procs[y].flags.n \in 1..4 /\ procs[y].flags.m \in 1..3
  BY <1>1, Known DEF ProcRecord, AllFlags
<1>4. QED
  BY <1>1, <1>2, <1>3, LevelsFall

(* No process lies outside the tree that was asked for.                    *)
LEMMA TreeHasNoMore ==
  ASSUME WholeInv, Over, NEW y \in DOMAIN procs
  PROVE  /\ Len(y) \in 0..(procs[<< >>].flags.n - 1)
         /\ y \in [1..Len(y) -> 0..(procs[<< >>].flags.m - 1)]
<1> DEFINE f == procs[<< >>].flags
<1>0. << >> \in DOMAIN procs /\ TreeInv
  BY DEF WholeInv, TreeInv, PathInv
<1>1. f.n \in 1..4 /\ f.m \in 1..3
  BY <1>0, LevelOf
<1>2. y \in Path /\ Len(y) \in Nat /\ f.n - Len(y) \in 1..4
  BY LevelOf
<1>3. Len(y) \in 0..(f.n - 1)
  BY <1>1, <1>2
<1>4. ASSUME NEW k \in 1..Len(y) PROVE y[k] \in 0..(f.m - 1)
  <2>1. k - 1 \in 0..Len(y)
    BY <1>2
  <2>2. /\ Family(procs[Prefix(y, k - 1)], procs[Prefix(y, k)], Prefix(y, k))
        /\ Latest(Prefix(y, k)) = y[k] /\ y[k] \in Nat
    BY <1>0, PrefixFamily
  <2>3. procs[Prefix(y, k - 1)].flags.m = f.m
    BY <2>1, LevelsFall
  <2>4. y[k] < f.m
    BY <2>2, <2>3 DEF Family
  <2>5. QED
    BY <1>1, <2>2, <2>4
<1>5. DOMAIN y = 1..Len(y) /\ y = [k \in DOMAIN y |-> y[k]]
  BY <1>2 DEF Path
<1> HIDE DEF f
<1>6. y \in [1..Len(y) -> 0..(f.m - 1)]
  BY <1>4, <1>5
<1>7. QED
  BY <1>3, <1>6 DEF f

(* And none is missing from it.                                            *)
LEMMA TreeHasAll ==
  ASSUME WholeInv, Over, NEW d \in 0..(procs[<< >>].flags.n - 1),
         NEW x \in [1..d -> 0..(procs[<< >>].flags.m - 1)]
  PROVE  x \in DOMAIN procs
<1> DEFINE f == procs[<< >>].flags
           Ks == {k \in 0..d : Prefix(x, k) \in DOMAIN procs}
<1>0. << >> \in DOMAIN procs /\ TreeInv
  BY DEF WholeInv, TreeInv, PathInv
<1>1. f.n \in 1..4 /\ f.m \in 1..3
  BY <1>0, LevelOf
<1>2. d \in Nat /\ d <= f.n - 1
  BY <1>1
<1>3. x \in Path /\ Len(x) = d
  <2>1. \A k \in 1..d : x[k] \in Nat
    BY <1>1
  <2>2. x \in [1..d -> Nat]
    BY <2>1
  <2>3. QED
    BY <1>2, <2>2, IsASeq DEF Path
<1>4. 0 \in Ks
  <2>1. 0 \in 0..Len(x) /\ 0 \in 0..d
    BY <1>2, <1>3
  <2>2. Prefix(x, 0) \in Path /\ Len(Prefix(x, 0)) = 0
    BY <1>3, <2>1, PrefixIs
  <2>3. Prefix(x, 0) = << >>
    BY <2>2 DEF Path
  <2>4. QED
    BY <1>0, <2>1, <2>3
<1>5. ASSUME NEW k \in 0..(d - 1), k \in Ks PROVE k + 1 \in Ks
  <2> DEFINE y == Prefix(x, k)
             z == Prefix(x, k + 1)
  <2>1. /\ k \in 0..Len(x) /\ k + 1 \in 0..Len(x) /\ k + 1 # 0 /\ (k + 1) - 1 = k
        /\ k + 1 \in 0..d /\ k + 1 \in 1..d /\ k <= f.n - 2 /\ k \in Nat
    BY <1>1, <1>2, <1>3
  <2>2. y \in DOMAIN procs
    BY <1>5
  <2>3. Len(y) = k
    BY <1>3, <2>1, PrefixIs
  <2>4. procs[y].flags.n = f.n - k /\ procs[y].flags.m = f.m
    BY <2>2, <2>3, LevelOf
  <2>5. procs[y].flags.n >= 2
    BY SMTT(30), <1>1, <2>1, <2>4
  <2>6. /\ z \in Path /\ z # << >> /\ Parent(z) = y /\ Latest(z) = x[k + 1]
    BY <1>3, <2>1, PrefixIs
  <2>7. z = Append(y, x[k + 1])
    BY <2>6, PathOfChild
  <2> HIDE DEF y, z
  <2>8. procs[y].how = "exiting" /\ ~procs[y].fell
    <3>1. ~Alive(y) /\ Unfailed(procs[y])
      BY <2>2, AllEnded
    <3>2. Local(y, procs[y]) /\ procs[y] \in ProcRecord
      BY <1>0, <2>2, Known
    <3>3. procs[y].how \in {"exiting", "usage", "signal"}
      BY <3>1, <3>2 DEF Local, ProcRecord, Alive, Unfailed
    <3>4. procs[y].how # "usage"
      BY <3>2 DEF Local, Over
    <3>5. procs[y].how # "signal"
      <4>1. Grown(DOMAIN procs, y, procs[y])
        BY <2>2 DEF WholeInv, GrownInv
      <4>2. procs[y].flags.n \in Nat
        BY <3>2 DEF ProcRecord, AllFlags
      <4>3. QED
        BY <2>5, <3>1, <4>1, <4>2 DEF Grown, Unfailed
    <3>6. QED
      BY <3>1, <3>3, <3>4, <3>5 DEF Unfailed
  <2>9. \A i \in 0..(procs[y].flags.m - 1) : Append(y, i) \in DOMAIN procs
    BY <2>2, <2>5, <2>8 DEF WholeInv, GrownInv, Grown
  <2>10. x[k + 1] \in 0..(procs[y].flags.m - 1)
    BY <2>1, <2>4
  <2>11. QED
    BY <2>1, <2>7, <2>9, <2>10 DEF z
<1> HIDE DEF Ks
<1>6. \A k \in 0..d : k \in Ks
  BY <1>2, <1>4, <1>5, UpTo
<1>7. d \in Ks /\ Prefix(x, d) = x
  <2>1. d \in 0..d /\ d \in 0..Len(x)
    BY <1>2, <1>3
  <2>2. QED
    BY <1>3, <1>6, <2>1, PrefixIs
<1>8. QED
  BY <1>7 DEF Ks

(* If no call fails, the processes that there have been when the root says *)
(* EXITING are exactly those the command line asks for: none is forked     *)
(* twice, none is missing, and each is on its level.                       *)
THEOREM TreeIsWhole ==
  Spec => []WholeTree
<1>1. WholeInv => WholeTree
  <2> SUFFICES ASSUME WholeInv, Over
               PROVE  LET f == procs[<< >>].flags
                      IN /\ DOMAIN procs = UNION {[1..d -> 0..(f.m - 1)] : d \in 0..(f.n - 1)}
                         /\ \A x \in DOMAIN procs : procs[x].flags.n = f.n - Len(x)
    BY DEF WholeTree, Over
  <2> DEFINE f == procs[<< >>].flags
  <2>1. \A y \in DOMAIN procs : Len(y) \in 0..(f.n - 1) /\ y \in [1..Len(y) -> 0..(f.m - 1)]
    BY TreeHasNoMore
  <2>2. \A d \in 0..(f.n - 1) : \A x \in [1..d -> 0..(f.m - 1)] : x \in DOMAIN procs
    BY TreeHasAll
  <2>3. \A x \in DOMAIN procs : procs[x].flags.n = f.n - Len(x)
    BY LevelOf
  <2> HIDE DEF f
  <2>4. DOMAIN procs = UNION {[1..d -> 0..(f.m - 1)] : d \in 0..(f.n - 1)}
    BY <2>1, <2>2
  <2>5. QED
    BY <2>3, <2>4 DEF f
<1>2. QED
  BY <1>1, WholeInit, WholeStep, PTL DEF Spec

===============================================================================
