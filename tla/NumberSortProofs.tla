--------------------------- MODULE NumberSortProofs ---------------------------
(***************************************************************************)
(* Proofs about NumberSort: for every width of an int, every command line  *)
(* and all numbers that rand may return.                                   *)
(***************************************************************************)
EXTENDS NumberSort, CountingLemmas

-----------------------------------------------------------------------------
(* The arithmetic of ints.  An unsigned number and its int are congruent,  *)
(* and every int is its own.                                               *)
LEMMA WordIs ==
  /\ Half \in Nat /\ Half >= 1 /\ Word \in Nat \ {0} /\ Word = 2 * Half
  /\ RandMax \in Nat /\ RandMax = Half - 1
  /\ Ints \subseteq Int /\ \A i : i \in Ints <=> (i \in Int /\ -Half <= i /\ i < Half)
  /\ MaxMax \in Nat /\ MaxMax < Half /\ DefaultN \in Nat
  /\ DefaultMax \in Nat /\ DefaultMax > 1 /\ DefaultMax <= MaxMax
<1>1. Half \in Nat \ {0} /\ Word = 2 * Half /\ MaxMax \in DefaultMax..(Half - 1)
      /\ DefaultN \in Nat /\ DefaultMax \in Nat /\ DefaultMax > 1
  BY WordAssumption
<1>2. QED
  BY <1>1 DEF RandMax, Ints

(* What Signed makes of a number is an int.                                *)
LEMMA SignedType ==
  ASSUME NEW u \in Int
  PROVE  Signed(u) \in Ints
<1> DEFINE a == u + Half
<1>1. a \in Int
  BY WordIs
<1> HIDE DEF a
<1>2. a % Word \in 0..(Word - 1)
  BY <1>1, WordIs, Remainder
<1>3. a % Word \in Int /\ 0 <= a % Word /\ a % Word < 2 * Half
  BY <1>2, WordIs
<1>4. Signed(u) = (a % Word) - Half
  BY DEF Signed, a
<1> DEFINE b == a % Word
<1> HIDE DEF b
<1>5. b \in Int /\ 0 <= b /\ b < 2 * Half /\ Signed(u) = b - Half
  BY <1>3, <1>4 DEF b
<1>6. QED
  BY <1>5, WordIs

(* An int is what Signed leaves of it, also when a word was added.         *)
LEMMA SignedIs ==
  ASSUME NEW i \in Ints
  PROVE  Signed(i) = i /\ Signed(i + Word) = i
<1>1. i \in Int /\ -Half <= i /\ i < Half
  BY WordIs
<1>2. i + Half \in 0..(Word - 1) /\ (i + Half) + Word \in Word..(2 * Word - 1)
  BY <1>1, WordIs
<1>3. (i + Half) % Word = i + Half /\ ((i + Half) + Word) % Word = ((i + Half) + Word) - Word
  BY <1>2, WordIs, RemainderSmall, RemainderOver
<1>4. (i + Word) + Half = (i + Half) + Word
  BY <1>1, WordIs
<1>5. QED
  BY <1>1, <1>3, <1>4, WordIs DEF Signed

(* An unsigned number is its int, or that and a word.                      *)
LEMMA UnsignedIs ==
  ASSUME NEW u \in 0..(Word - 1)
  PROVE  Signed(u) \in Ints /\ (u = Signed(u) \/ u = Signed(u) + Word)
<1>1. u \in Int /\ 0 <= u /\ u < 2 * Half
  BY WordIs
<1>2. CASE u < Half
  <2>1. u \in Ints
    BY <1>1, <1>2, WordIs
  <2>2. QED
    BY <2>1, SignedIs
<1>3. CASE ~(u < Half)
  <2>1. u - Word \in Ints /\ (u - Word) + Word = u
    BY <1>1, <1>3, WordIs
  <2>2. QED
    BY <2>1, SignedIs
<1>4. QED
  BY <1>2, <1>3

(* rand() is divided so that fewer than s different numbers come out.      *)
LEMMA QuotientBelow ==
  ASSUME NEW s \in Nat \ {0}, NEW r \in 0..RandMax
  PROVE  /\ RandMax \div s + 1 \in Nat \ {0}
         /\ r \div (RandMax \div s + 1) \in 0..(s - 1)
<1> DEFINE e == RandMax \div s
           d == e + 1
           q == r \div d
<1>1. RandMax \in Nat /\ r \in Nat /\ r <= RandMax
  BY WordIs
<1>2. e \in Int /\ RandMax = s * e + (RandMax % s) /\ RandMax % s \in 0..(s - 1)
  BY <1>1, Remainder
<1>3. e >= 0
  BY <1>1
<1>4. d \in Nat \ {0}
  BY <1>2, <1>3
<1>5. s * d > RandMax
  <2>1. s * d = s * e + s
    BY <1>2
  <2>2. QED
    BY <1>1, <1>2, <2>1
<1> HIDE DEF e, d
<1>6. q \in Int /\ r = d * q + (r % d) /\ r % d \in 0..(d - 1)
  BY <1>1, <1>4, Remainder
<1>7. q >= 0
  BY <1>1, <1>4
<1> HIDE DEF q
<1>8. q < s
  <2>1. SUFFICES ASSUME q >= s PROVE FALSE
    BY <1>6
  <2>2. d * q >= d * s
    <3>1. PICK k \in Nat : q = s + k
      <4>1. q - s \in Nat /\ q = s + (q - s)
        BY <1>6, <2>1
      <4>2. QED
        BY <4>1
    <3>2. d * q = d * s + d * k /\ d * k \in Nat
      BY <1>4, <3>1
    <3>3. QED
      BY <1>4, <3>2
  <2>3. d * s = s * d
    BY <1>4
  <2>4. d * q <= r
    BY <1>1, <1>4, <1>6
  <2>5. d * q \in Int /\ d * s \in Int
    BY <1>4, <1>6
  <2>6. QED
    BY <1>1, <1>5, <2>2, <2>3, <2>4, <2>5
<1>9. QED
  BY <1>4, <1>6, <1>7, <1>8 DEF q, d, e

-----------------------------------------------------------------------------
(* The parser.  What it is asked for it checks; what it lets through is in *)
(* the bounds of its own checks.                                           *)
Flags == [ok : BOOLEAN, n : Nat, min : 1..(Word - 1), max : 1..MaxMax, i : BOOLEAN, o : BOOLEAN]

(* The flags before any option is read, and those of a refused line.       *)
LEMMA DefaultIs ==
  /\ Default \in Flags /\ Default.ok /\ Default.min < Default.max
  /\ Refused \in Flags /\ ~Refused.ok
<1>1. 1 \in 1..(Word - 1) /\ DefaultMax \in 1..MaxMax /\ DefaultN \in Nat /\ 1 < DefaultMax
  BY WordIs
<1>2. Default \in Flags /\ Default.ok /\ Default.min < Default.max
  BY <1>1 DEF Default, Flags
<1>3. Refused \in Flags /\ ~Refused.ok
  BY <1>2 DEF Refused, Flags
<1>4. QED
  BY <1>2, <1>3

(* An option changes the bounds only as -m and -M say, and after -M they   *)
(* are in order.                                                           *)
LEMMA OptionIs ==
  ASSUME NEW f \in Flags, NEW o \in Argument
  PROVE  LET g == Option(f, o)
         IN /\ g \in Flags
            /\ g.ok /\ o[1] = "M" => g.min < g.max
            /\ g.ok /\ o[1] \notin {"m", "M"} => g.min = f.min /\ g.max = f.max
<1> DEFINE v == Unsigned(o[2])
           g == Option(f, o)
<1>1. v \in 0..(Word - 1) /\ Word \in Nat
  <2>1. o[2] \in Int
    BY WordIs DEF Argument
  <2>2. QED
    BY <2>1, WordIs, Remainder DEF Unsigned
<1>2. f.min \in Nat /\ f.max \in Nat /\ MaxMax \in Nat
  BY WordIs DEF Flags
<1> HIDE DEF v
<1>3. CASE o[1] = "n"
  <2>1. g = [f EXCEPT !.n = v]
    BY <1>3 DEF Option, v
  <2>2. g \in Flags /\ g.min = f.min /\ g.max = f.max
    BY <1>1, <2>1 DEF Flags
  <2>3. QED
    BY <1>3, <2>2
<1>4. CASE o[1] = "m"
  <2>1. g = IF v < 1 THEN Refused ELSE [f EXCEPT !.min = v]
    BY <1>4 DEF Option, v
  <2>2. v >= 1 => [f EXCEPT !.min = v] \in Flags
    BY <1>1 DEF Flags
  <2>3. g \in Flags
    BY <1>1, <2>1, <2>2, DefaultIs
  <2>4. QED
    BY <1>4, <2>3
<1>5. CASE o[1] = "M"
  <2>1. g = IF MaxRefused(f, v) THEN Refused ELSE [f EXCEPT !.max = v]
    BY <1>5 DEF Option, v
  <2>2. CASE MaxRefused(f, v)
    BY <1>5, <2>1, <2>2, DefaultIs
  <2>3. CASE ~MaxRefused(f, v)
    <3>1. v > f.min /\ v <= MaxMax /\ v \in Nat /\ v \in 1..MaxMax
      BY <1>1, <1>2, <2>3 DEF MaxRefused
    <3>2. g = [f EXCEPT !.max = v]
      BY <2>1, <2>3
    <3>3. g \in Flags /\ g.min = f.min /\ g.max = v
      BY <3>1, <3>2 DEF Flags
    <3>4. QED
      BY <1>5, <3>1, <3>3
  <2>4. QED
    BY <2>2, <2>3
<1>6. CASE o[1] = "i"
  <2>1. g = [f EXCEPT !.i = TRUE]
    BY <1>6 DEF Option
  <2>2. g \in Flags /\ g.min = f.min /\ g.max = f.max
    BY <2>1 DEF Flags
  <2>3. QED
    BY <1>6, <2>2
<1>7. CASE o[1] = "o"
  <2>1. g = [f EXCEPT !.o = TRUE]
    BY <1>7 DEF Option
  <2>2. g \in Flags /\ g.min = f.min /\ g.max = f.max
    BY <2>1 DEF Flags
  <2>3. QED
    BY <1>7, <2>2
<1>8. CASE o[1] \in {"s", "c"}
  <2>1. g = f
    BY <1>8 DEF Option
  <2>2. QED
    BY <1>8, <2>1
<1>9. CASE o[1] \notin {"n", "m", "M", "i", "o", "s", "c"}
  <2>1. g = Refused
    BY <1>9 DEF Option
  <2>2. QED
    BY <1>9, <2>1, DefaultIs
<1>10. QED
  BY <1>3, <1>4, <1>5, <1>6, <1>7, <1>8, <1>9

(* The parser goes through the options one by one.                         *)
Parses(g, line) ==
  /\ g[0] = Default
  /\ \A k \in 1..Len(line) :
       g[k] = IF g[k - 1].ok THEN Option(g[k - 1], line[k]) ELSE g[k - 1]

(* Its result is the last of the flags it goes through.                    *)
LEMMA ParsedIs ==
  ASSUME NEW line \in CommandLine
  PROVE  \E g \in [0..Len(line) -> Flags] : Parses(g, line) /\ Parsed(line) = g[Len(line)]
<1> DEFINE n == Len(line)
           T == [k \in 1..n |-> [f \in Flags |-> IF f.ok THEN Option(f, line[k]) ELSE f]]
           Is(f) == f = [k \in 0..n |->
                           IF k = 0 THEN Default
                           ELSE IF f[k - 1].ok THEN Option(f[k - 1], line[k]) ELSE f[k - 1]]
<1>1. n \in Nat /\ \A k \in 1..n : line[k] \in Argument
  BY DEF CommandLine
<1>2. Default \in Flags
  BY DefaultIs
<1>3. T \in [1..n -> [Flags -> Flags]]
  BY <1>1, OptionIs
<1> HIDE DEF n
<1>4. PICK g \in [0..n -> Flags] : g[0] = Default /\ \A k \in 1..n : g[k] = T[k][g[k - 1]]
  <2> HIDE DEF T
  <2>1. Steps(n, Flags, Default, T)
    BY <1>1, <1>2, <1>3 DEF Steps
  <2>2. QED
    BY <2>1, RecursionExists
<1>5. \A k \in 1..n : k - 1 \in 0..n /\ g[k] = IF g[k - 1].ok THEN Option(g[k - 1], line[k]) ELSE g[k - 1]
  <2>1. \A k \in 1..n : k - 1 \in 0..n
    BY <1>1
  <2>2. \A k \in 1..n : g[k - 1] \in Flags
    BY <1>4, <2>1
  <2>3. QED
    BY <1>4, <2>1, <2>2
<1>6. Is(g)
  <2>1. \A k \in 0..n : k = 0 \/ k \in 1..n
    BY <1>1
  <2>2. QED
    BY <1>4, <1>5, <2>1
<1> DEFINE h == CHOOSE f : Is(f)
<1>7. Is(h)
  BY <1>6
<1>8. Parsed(line) = h[n]
  BY DEF Parsed, n
<1> HIDE DEF h
<1>9. h[0] = Default /\ \A k \in 1..n : h[k] = IF h[k - 1].ok THEN Option(h[k - 1], line[k]) ELSE h[k - 1]
  <2>1. \A k \in 1..n : k \in 0..n /\ k # 0
    BY <1>1
  <2>2. 0 \in 0..n
    BY <1>1
  <2>3. QED
    BY <1>7, <2>1, <2>2
<1>10. \A k \in 0..n : h[k] = g[k]
  <2> DEFINE Ks == {k \in 0..n : h[k] = g[k]}
  <2>1. 0 \in Ks
    BY <1>1, <1>4, <1>9
  <2>2. ASSUME NEW k \in 0..(n - 1), k \in Ks PROVE k + 1 \in Ks
    <3>1. k + 1 \in 1..n /\ (k + 1) - 1 = k /\ k + 1 \in 0..n
      BY <1>1
    <3>2. h[k] = g[k]
      BY <2>2
    <3>3. h[k + 1] = g[k + 1]
      BY <1>5, <1>9, <3>1, <3>2
    <3>4. QED
      BY <3>1, <3>3
  <2> HIDE DEF Ks
  <2>3. \A k \in 0..n : k \in Ks
    BY <1>1, <2>1, <2>2, UpTo
  <2>4. QED
    BY <2>3 DEF Ks
<1>11. Parsed(line) = g[n]
  BY <1>1, <1>8, <1>10
<1>12. QED
  BY <1>4, <1>5, <1>11 DEF n, Parses

(* Where the bounds of an accepted line are out of order, its last -m came *)
(* after its last -M.                                                      *)
Raised(line, k) ==
  \E j \in 1..k : line[j][1] = "m" /\ \A l \in (j + 1)..k : line[l][1] # "M"

(* By induction over the options: an -M that passes sets the order right,  *)
(* an -m that comes later is remembered.                                   *)
LEMMA ParsedOrder ==
  ASSUME NEW line \in CommandLine
  PROVE  LET f == Parsed(line)
         IN f \in Flags /\ (f.ok /\ f.min >= f.max => Raised(line, Len(line)))
<1>1. PICK g \in [0..Len(line) -> Flags] : Parses(g, line) /\ Parsed(line) = g[Len(line)]
  BY ParsedIs
<1> DEFINE n == Len(line)
           Fine(k) == g[k].ok /\ g[k].min >= g[k].max => Raised(line, k)
           Ks == {k \in 0..n : Fine(k)}
<1>2. n \in Nat /\ \A k \in 1..n : line[k] \in Argument
  BY DEF CommandLine
<1>3. \A f \in Flags : f.min \in Nat /\ f.max \in Nat
  BY WordIs DEF Flags
<1>4. 0 \in Ks
  <2>1. g[0] = Default
    BY <1>1 DEF Parses
  <2>2. Default.min < Default.max /\ Default.min \in Nat /\ Default.max \in Nat
    BY <1>3, DefaultIs
  <2>3. QED
    BY <1>2, <2>1, <2>2
<1>5. ASSUME NEW k \in 0..(n - 1), k \in Ks PROVE k + 1 \in Ks
  <2> DEFINE m == k + 1
             o == line[m]
  <2>1. m \in 1..n /\ m \in 0..n /\ m - 1 = k /\ k \in 0..n /\ k \in Nat
    BY <1>2
  <2>2. g[k] \in Flags /\ g[m] \in Flags /\ o \in Argument
    BY <1>1, <1>2, <2>1
  <2>3. g[m] = IF g[k].ok THEN Option(g[k], o) ELSE g[k]
    BY <1>1, <2>1 DEF Parses
  <2>4. Fine(k)
    BY <1>5
  <2>5. SUFFICES ASSUME g[m].ok, g[m].min >= g[m].max PROVE Raised(line, m)
    BY <2>1
  <2>6. g[k].ok /\ g[m] = Option(g[k], o)
    BY <2>3, <2>5
  <2>7. o[1] # "M"
    <3>1. g[m].min \in Nat /\ g[m].max \in Nat
      BY <1>3, <2>2
    <3>2. o[1] = "M" => g[m].min < g[m].max
      BY <2>2, <2>5, <2>6, OptionIs
    <3>3. QED
      BY <2>5, <3>1, <3>2
  <2>8. CASE o[1] = "m"
    <3>1. m \in 1..m /\ (m + 1)..m = {}
      BY <2>1
    <3>2. QED
      BY <2>8, <3>1 DEF Raised
  <2>9. CASE o[1] # "m"
    <3>1. g[m].min = g[k].min /\ g[m].max = g[k].max
      BY <2>2, <2>5, <2>6, <2>7, <2>9, OptionIs
    <3>2. Raised(line, k)
      BY <2>4, <2>5, <2>6, <3>1
    <3>3. PICK j \in 1..k : line[j][1] = "m" /\ \A l \in (j + 1)..k : line[l][1] # "M"
      BY <3>2 DEF Raised
    <3>4. j \in 1..m /\ \A l \in (j + 1)..m : l \in (j + 1)..k \/ l = m
      BY <2>1
    <3> HIDE DEF m
    <3>5. \A l \in (j + 1)..m : line[l][1] # "M"
      BY <2>7, <3>3, <3>4
    <3>6. QED
      BY <3>3, <3>4, <3>5 DEF Raised
  <2>10. QED
    BY <2>8, <2>9
<1> HIDE DEF Ks
<1>6. \A k \in 0..n : k \in Ks
  BY <1>2, <1>4, <1>5, UpTo
<1>7. n \in 0..n
  BY <1>2
<1>8. Fine(n)
  BY <1>6, <1>7 DEF Ks
<1>9. QED
  BY <1>1, <1>7, <1>8

-----------------------------------------------------------------------------
(* What is generated is an int; with bounds that are in order as ints it   *)
(* lies between them, for then the spread is what it should be.            *)
LEMMA NumberIs ==
  ASSUME NEW f \in Flags, NEW r \in 0..RandMax, Spread(f) # 0
  PROVE  /\ Number(f, r) \in Ints
         /\ Signed(f.min) <= f.max => Number(f, r) \in Signed(f.min)..f.max
<1> DEFINE i == Signed(f.min)
           s == Spread(f)
           q == r \div (RandMax \div s + 1)
<1>1. f.min \in 0..(Word - 1) /\ f.min \in Int /\ f.max \in Nat /\ f.max < Half
  BY WordIs DEF Flags
<1>2. i \in Ints /\ (f.min = i \/ f.min = i + Word)
  BY <1>1, UnsignedIs
<1>3. i \in Int /\ -Half <= i /\ i < Half
  BY <1>2, WordIs
<1>4. s \in Nat \ {0} /\ s < Word /\ s = (f.max - f.min + 1) % Word
  <2>1. f.max - f.min + 1 \in Int
    BY <1>1
  <2>2. s = (f.max - f.min + 1) % Word
    BY DEF Spread
  <2>3. (f.max - f.min + 1) % Word \in 0..(Word - 1)
    BY <2>1, WordIs, Remainder
  <2>4. s \in 0..(Word - 1) /\ s # 0
    BY <2>2, <2>3
  <2> HIDE DEF s
  <2>5. QED
    BY <2>2, <2>4, WordIs
<1>5. q \in 0..(s - 1)
  BY <1>4, QuotientBelow
<1>6. Number(f, r) = Signed(f.min + q)
  BY DEF Number
<1> HIDE DEF i, s, q
<1>7. Number(f, r) \in Ints
  BY <1>1, <1>5, <1>6, SignedType
<1>8. ASSUME i <= f.max PROVE Number(f, r) \in i..f.max
  <2> DEFINE t == f.max - i + 1
  <2>1. t \in Nat /\ t >= 1 /\ t <= Word
    BY <1>1, <1>3, <1>8, WordIs
  <2>2. t # Word /\ s = t
    <3>1. f.max - f.min + 1 = t \/ f.max - f.min + 1 = t - Word
      BY <1>1, <1>2, <1>3, WordIs
    <3> HIDE DEF t
    <3>2. t - Word <= 0 /\ t - Word > -Word
      BY <2>1, WordIs
    <3>3. CASE t = Word
      <4>1. 0 % Word = 0 /\ Word % Word = 0
        <5>1. 0 \in 0..(Word - 1) /\ Word \in Word..(2 * Word - 1) /\ Word - Word = 0
          BY WordIs
        <5>2. QED
          BY <5>1, WordIs, RemainderSmall, RemainderOver
      <4>2. t - Word = 0
        BY <3>3, WordIs
      <4>3. QED
        BY <1>4, <3>1, <3>3, <4>1, <4>2
    <3>4. CASE t # Word
      <4>1. t \in 0..(Word - 1)
        BY <2>1, <3>4, WordIs
      <4>2. t % Word = t
        BY <4>1, WordIs, RemainderSmall
      <4>3. (t - Word) % Word = t
        BY <2>1, <3>4, WordIs
      <4>4. QED
        BY <1>4, <3>1, <3>4, <4>2, <4>3
    <3>5. QED
      BY <3>3, <3>4
  <2>3. i + q \in i..f.max
    BY <1>1, <1>3, <1>5, <2>1, <2>2
  <2>4. i + q \in Ints
    BY <1>1, <1>3, <2>3, WordIs
  <2>5. f.min + q = i + q \/ f.min + q = (i + q) + Word
    BY <1>1, <1>2, <1>3, <1>4, <1>5, WordIs
  <2>6. Number(f, r) = i + q
    BY <1>6, <2>4, <2>5, SignedIs
  <2>7. QED
    BY <2>3, <2>6
<1>9. QED
  BY <1>7, <1>8 DEF i

-----------------------------------------------------------------------------
(* The generator.  Its flags are those of its line, and what it has        *)
(* printed so far lies between the bounds.                                 *)
GenRecord ==
  [st : {"run", "done", "crashed", "refused"}, line : CommandLine, f : Flags, out : Seq(Ints)]

GenInv ==
  /\ gen \in GenRecord
  /\ Len(gen.out) <= gen.f.n
  /\ gen.f = Parsed(gen.line)
  /\ gen.st # "refused" => gen.f.ok
  /\ GeneratedInRange

(* What starts and ends the generator.                                     *)
LEMMA GenInit ==
  Init => GenInv
<1> SUFFICES ASSUME Init PROVE GenInv
  OBVIOUS
<1>1. PICK line \in GenLines :
        gen = [st |-> IF Parsed(line).ok THEN "run" ELSE "refused",
               line |-> line, f |-> Parsed(line), out |-> << >>]
  BY DEF Init
<1>2. line \in CommandLine /\ Parsed(line) \in Flags
  BY WordAssumption, ParsedOrder
<1>3. << >> \in Seq(Ints) /\ Len(<< >>) = 0 /\ DOMAIN << >> = {}
  OBVIOUS
<1> DEFINE f == Parsed(line)
<1> HIDE DEF f
<1>4. f.n \in Nat
  BY <1>2 DEF Flags, f
<1>5. gen.f = f /\ gen.line = line /\ gen.out = << >> /\ gen.st \in {"run", "refused"}
      /\ (gen.st # "refused" => f.ok)
  BY <1>1 DEF f
<1>6. gen \in GenRecord
  BY <1>1, <1>2, <1>3 DEF GenRecord
<1>7. GeneratedInRange
  BY <1>3, <1>5 DEF GeneratedInRange
<1>8. QED
  BY <1>3, <1>4, <1>5, <1>6, <1>7 DEF GenInv, f

(* A step of the generator leaves its flags, and at most appends a number. *)
GenMoves ==
  /\ gen.st = "run" /\ UNCHANGED sorter
  /\ gen'.f = gen.f /\ gen'.line = gen.line /\ gen'.st # "refused"
  /\ \/ gen'.out = gen.out
     \/ \E v \in Ints : gen'.out = Append(gen.out, v)

(* All three steps are of this kind, and keep the invariant.               *)
LEMMA GenTurn ==
  ASSUME GenInv, Generate \/ DivideByZero \/ GeneratorEnds
  PROVE  GenMoves /\ GenInv'
<1>1. gen \in GenRecord /\ gen.st = "run" /\ UNCHANGED sorter /\ gen.f \in Flags
      /\ gen.out \in Seq(Ints) /\ gen.f.n \in Nat
  BY DEF GenInv, GenRecord, Generate, DivideByZero, GeneratorEnds, Flags
<1>2. CASE DivideByZero \/ GeneratorEnds
  <2>1. PICK st \in {"crashed", "done"} : gen' = [gen EXCEPT !.st = st]
    BY <1>2 DEF DivideByZero, GeneratorEnds
  <2>2. /\ gen' \in GenRecord /\ gen'.f = gen.f /\ gen'.line = gen.line
        /\ gen'.out = gen.out /\ gen'.st # "refused"
    BY <1>1, <2>1 DEF GenRecord
  <2>3. GeneratedInRange'
    BY <2>2 DEF GenInv, GeneratedInRange
  <2>4. QED
    BY <1>1, <2>2, <2>3 DEF GenInv, GenMoves
<1>3. CASE Generate
  <2>1. /\ Len(gen.out) < gen.f.n /\ Spread(gen.f) # 0
        /\ \E r \in 0..RandMax : gen' = [gen EXCEPT !.out = Append(@, Number(gen.f, r))]
    BY <1>3 DEF Generate
  <2>2. PICK r \in 0..RandMax : gen' = [gen EXCEPT !.out = Append(@, Number(gen.f, r))]
    BY <2>1
  <2> DEFINE v == Number(gen.f, r)
             i == Signed(gen.f.min)
  <2>3. v \in Ints /\ (i <= gen.f.max => v \in i..gen.f.max)
    BY <1>1, <2>1, NumberIs
  <2> HIDE DEF v, i
  <2>4. gen' = [gen EXCEPT !.out = Append(gen.out, v)]
    BY <1>1, <2>2 DEF v, GenRecord
  <2>5. /\ Append(gen.out, v) \in Seq(Ints) /\ Len(Append(gen.out, v)) = Len(gen.out) + 1
        /\ \A k \in 1..(Len(gen.out) + 1) :
             Append(gen.out, v)[k] = IF k <= Len(gen.out) THEN gen.out[k] ELSE v
        /\ Len(gen.out) \in Nat
    BY <1>1, <2>3
  <2>6. /\ gen' \in GenRecord /\ gen'.f = gen.f /\ gen'.line = gen.line
        /\ gen'.out = Append(gen.out, v) /\ gen'.st = "run"
    BY <1>1, <2>4, <2>5 DEF GenRecord
  <2>7. GeneratedInRange'
    <3>1. SUFFICES ASSUME i <= gen.f.max, NEW k \in DOMAIN gen'.out
                   PROVE  gen'.out[k] \in i..gen.f.max
      BY <2>6 DEF GeneratedInRange, i
    <3>2. k \in 1..(Len(gen.out) + 1)
      BY <2>5, <2>6, <3>1
    <3>3. \A l \in 1..Len(gen.out) : gen.out[l] \in i..gen.f.max
      BY <1>1, <3>1 DEF GenInv, GeneratedInRange, i
    <3>4. CASE k <= Len(gen.out)
      <4>1. k \in 1..Len(gen.out)
        BY <2>5, <3>2, <3>4
      <4>2. QED
        BY <2>5, <2>6, <3>2, <3>3, <3>4, <4>1
    <3>5. CASE ~(k <= Len(gen.out))
      BY <2>3, <2>5, <2>6, <3>1, <3>2, <3>5
    <3>6. QED
      BY <3>4, <3>5
  <2>8. Len(gen'.out) <= gen'.f.n
    BY <1>1, <2>1, <2>5, <2>6
  <2>9. gen'.f = Parsed(gen'.line) /\ (gen'.st # "refused" => gen'.f.ok)
    BY <1>1, <2>6 DEF GenInv
  <2>10. QED
    BY <1>1, <2>3, <2>6, <2>7, <2>8, <2>9 DEF GenInv, GenMoves
<1>4. QED
  BY <1>2, <1>3

(* The steps of the sorter do not touch the generator.                     *)
SorterTurn ==
  \/ NoUser \/ OpenFile \/ OpenStdin \/ ReadFile \/ ReadLetter \/ FileRead
  \/ ReadStdin \/ Overrun \/ StdinEnds \/ Sort

(* The generator's invariant is inductive by itself.                       *)
LEMMA GenStep ==
  GenInv /\ [Next]_vars => GenInv'
<1> SUFFICES ASSUME GenInv, [Next]_vars PROVE GenInv'
  OBVIOUS
<1>1. CASE Generate \/ DivideByZero \/ GeneratorEnds
  BY <1>1, GenTurn
<1>2. CASE UNCHANGED gen
  BY <1>2 DEF GenInv, GeneratedInRange
<1>3. QED
  BY <1>1, <1>2 DEF Next, vars, NoUser, OpenFile, OpenStdin, ReadFile, ReadLetter, FileRead,
     ReadStdin, Overrun, StdinEnds, Sort, Become

(* The numbers printed lie between the bounds, for all that rand returns   *)
(* and however the unsigned arithmetic on the bounds wraps.                *)
THEOREM NumbersLieInRange ==
  Spec => []GeneratedInRange
<1>1. GenInv => GeneratedInRange
  BY DEF GenInv
<1>2. QED
  BY <1>1, GenInit, GenStep, PTL DEF Spec

(* The parser lets bounds that are out of order through only when an -m    *)
(* comes after the last -M.                                                *)
THEOREM BoundsAreOrderedUnlessRaised ==
  Spec => []OrderedUnlessRaised
<1>1. GenInv => OrderedUnlessRaised
  <2> SUFFICES ASSUME GenInv, gen.f.min >= gen.f.max, gen.st # "refused"
               PROVE  \E k \in DOMAIN gen.line :
                        gen.line[k][1] = "m"
                        /\ \A j \in (k + 1)..Len(gen.line) : gen.line[j][1] # "M"
    BY DEF OrderedUnlessRaised
  <2>1. gen.line \in CommandLine /\ gen.f = Parsed(gen.line) /\ gen.f.ok
    BY DEF GenInv, GenRecord
  <2>2. Raised(gen.line, Len(gen.line))
    BY <2>1, ParsedOrder
  <2>3. DOMAIN gen.line = 1..Len(gen.line)
    BY <2>1 DEF CommandLine
  <2>4. QED
    BY <2>2, <2>3 DEF Raised
<1>2. QED
  BY <1>1, GenInit, GenStep, PTL DEF Spec

-----------------------------------------------------------------------------
(* Sorting.  qsort returns the numbers it was given, each as often, and    *)
(* those that compare can tell apart without overflow in their order.      *)
Permutations(n) == {p \in [1..n -> 1..n] : \A j, k \in 1..n : p[j] = p[k] => j = k}

Permutes(n, s, t) == \E p \in Permutations(n) : t = [k \in 1..n |-> s[p[k]]]
InOrder(n, t)     == \A j, k \in 1..n : j < k => Compare(t[j], t[k]) <= 0
Times(n, s, v)    == Cardinality({k \in 1..n : s[k] = v})

(* What Qsorted returns is a permutation, in order if compare orders.      *)
LEMMA QsortedIs ==
  ASSUME NEW n \in Nat, NEW S, NEW s, NEW t, s \in [1..n -> S], t \in Qsorted(s)
  PROVE  /\ t \in [1..n -> S] /\ Permutes(n, s, t)
         /\ Orders(s) => InOrder(n, t)
<1> DEFINE all == {[k \in 1..n |-> s[p[k]]] : p \in Permutations(n)}
<1>1. DOMAIN s = 1..n
  OBVIOUS
<1>2. \A u \in all : u \in [1..n -> S] /\ DOMAIN u = 1..n
  BY DEF Permutations
<1>3. Qsorted(s) = IF Orders(s)
                   THEN {u \in all : \A j, k \in 1..n : j < k => Compare(u[j], u[k]) <= 0}
                   ELSE all
  BY <1>1 DEF Qsorted, Permutations
<1>4. t \in all
  BY <1>3
<1>5. Orders(s) => InOrder(n, t)
  BY <1>3 DEF InOrder
<1>6. QED
  BY <1>2, <1>4, <1>5 DEF Permutes

(* A permutation leaves each value where it was or puts it elsewhere.      *)
LEMMA SameTimes ==
  ASSUME NEW n \in Nat, NEW s, NEW t, Permutes(n, s, t), NEW v
  PROVE  Times(n, t, v) = Times(n, s, v)
<1>0. PICK p \in Permutations(n) : t = [k \in 1..n |-> s[p[k]]]
  BY DEF Permutes
<1> DEFINE A == {k \in 1..n : t[k] = v}
           B == {k \in 1..n : s[k] = v}
           g == [k \in A |-> p[k]]
<1>1. p \in [1..n -> 1..n] /\ IsFiniteSet(1..n)
  <2>1. 1 \in Int /\ n \in Int
    OBVIOUS
  <2>2. IsFiniteSet(1..n)
    BY <2>1, FS_Interval
  <2>3. QED
    BY <2>2 DEF Permutations
<1>2. p \in Injection(1..n, 1..n)
  BY <1>1 DEF Permutations, Injection, IsInjective
<1>3. p \in Surjection(1..n, 1..n)
  BY <1>1, <1>2, FS_Injection
<1>4. \A l \in 1..n : \E k \in 1..n : p[k] = l
  BY <1>1, <1>3 DEF Surjection
<1>5. g \in Bijection(A, B)
  <2>1. g \in [A -> B] /\ \A j, k \in A : g[j] = g[k] => j = k
    BY <1>0, <1>1 DEF Permutations
  <2>2. \A l \in B : \E k \in A : g[k] = l
    BY <1>0, <1>1, <1>4
  <2> HIDE DEF A, B, g
  <2>3. g \in Injection(A, B)
    BY <2>1 DEF Injection, IsInjective
  <2>4. g \in Surjection(A, B)
    BY <2>1, <2>2 DEF Surjection
  <2>5. QED
    BY <2>3, <2>4 DEF Bijection
<1>6. IsFiniteSet(A)
  BY <1>1, FS_Subset
<1>7. Times(n, t, v) = Cardinality(A) /\ Times(n, s, v) = Cardinality(B)
  BY DEF Times
<1> HIDE DEF A, B, g
<1>8. Cardinality(B) = Cardinality(A)
  BY <1>5, <1>6, FS_Bijection DEF ExistsBijection
<1>9. QED
  BY <1>7, <1>8

(* Where no difference overflows, compare orders the numbers as they are.  *)
LEMMA CompareIs ==
  ASSUME NEW a \in 0..(Half - 1), NEW b \in 0..(Half - 1)
  PROVE  Compare(a, b) = a - b
<1>1. a - b \in Ints
  BY WordIs
<1>2. QED
  BY <1>1, SignedIs DEF Compare

(* Numbers that are not negative come out sorted, each as often as it went *)
(* in.                                                                     *)
LEMMA SortedIs ==
  ASSUME NEW n \in Nat, NEW s, NEW t, s \in [1..n -> 0..(Half - 1)], t \in Qsorted(s)
  PROVE  /\ DOMAIN t = 1..n
         /\ \A v : Times(n, t, v) = Times(n, s, v)
         /\ \A j, k \in 1..n : j <= k => t[j] <= t[k]
<1>1. Orders(s)
  <2> SUFFICES ASSUME NEW i \in 1..n, NEW j \in 1..n, NEW k \in 1..n
               PROVE  /\ Compare(s[i], s[j]) < 0 <=> Compare(s[j], s[i]) > 0
                      /\ Compare(s[i], s[j]) <= 0 /\ Compare(s[j], s[k]) <= 0
                           => Compare(s[i], s[k]) <= 0
    BY DEF Orders
  <2>1. /\ Compare(s[i], s[j]) = s[i] - s[j] /\ Compare(s[j], s[i]) = s[j] - s[i]
        /\ Compare(s[j], s[k]) = s[j] - s[k] /\ Compare(s[i], s[k]) = s[i] - s[k]
    BY CompareIs
  <2>2. s[i] \in Nat /\ s[j] \in Nat /\ s[k] \in Nat
    BY WordIs
  <2>3. QED
    BY <2>1, <2>2
<1>2. t \in [1..n -> 0..(Half - 1)] /\ Permutes(n, s, t) /\ InOrder(n, t)
  <2> DEFINE S == 0..(Half - 1)
  <2> HIDE DEF S
  <2>1. s \in [1..n -> S]
    BY DEF S
  <2>2. t \in [1..n -> S] /\ Permutes(n, s, t) /\ (Orders(s) => InOrder(n, t))
    BY <2>1, QsortedIs
  <2>3. QED
    BY <1>1, <2>2 DEF S
<1>3. \A v : Times(n, t, v) = Times(n, s, v)
  BY <1>2, SameTimes
<1>4. ASSUME NEW j \in 1..n, NEW k \in 1..n, j <= k PROVE t[j] <= t[k]
  <2>1. t[j] \in Nat /\ t[k] \in Nat /\ t[j] \in 0..(Half - 1) /\ t[k] \in 0..(Half - 1)
    BY <1>2, WordIs
  <2>2. CASE j = k
    BY <2>1, <2>2
  <2>3. CASE j < k
    <3>1. Compare(t[j], t[k]) <= 0
      BY <1>2, <2>3 DEF InOrder
    <3>2. QED
      BY <2>1, <3>1, CompareIs
  <2>4. QED
    BY <1>4, <2>2, <2>3
<1>5. QED
  BY <1>2, <1>3, <1>4

-----------------------------------------------------------------------------
(* The sorter.  What it has read so far is what the generator printed, and *)
(* zeros beyond that; it does not sort before the generator has ended.     *)
SortRecord ==
  [st : {"start", "file", "stdin", "sort", "done", "crashed", "refused"},
   f : Flags, read : Seq(Ints), result : Seq(Ints)]

FileOf(out, k) == IF k <= Len(out) THEN out[k] ELSE 0
Followed       == \A k \in 1..Len(sorter.read) : sorter.read[k] = FileOf(gen.out, k)
Enough         == sorter.f.i \/ Len(Piped) >= sorter.f.n

SortInv ==
  /\ sorter \in SortRecord
  /\ sorter.st = "start" => sorter.read = << >>
  /\ sorter.st = "file" =>
       GeneratorOver /\ sorter.f.i /\ Len(sorter.read) <= sorter.f.n /\ Followed
  /\ sorter.st = "stdin" =>
       ~sorter.f.i /\ Len(sorter.read) <= Len(Piped) /\ Followed
  /\ sorter.st = "sort" =>
       GeneratorOver /\ Followed /\ (Enough => Len(sorter.read) >= sorter.f.n)
  /\ sorter.st = "done" => GeneratorOver /\ OutputSorted

(* The sorter starts with nothing read.                                    *)
LEMMA SortInit ==
  Init => SortInv
<1> SUFFICES ASSUME Init PROVE SortInv
  OBVIOUS
<1>1. PICK line \in SortLines :
        sorter = [st |-> IF Parsed(line).ok THEN "start" ELSE "refused",
                  f |-> Parsed(line), read |-> << >>, result |-> << >>]
  BY DEF Init
<1>2. line \in CommandLine /\ Parsed(line) \in Flags
  BY WordAssumption, ParsedOrder
<1> DEFINE f == Parsed(line)
<1> HIDE DEF f
<1>3. << >> \in Seq(Ints)
  OBVIOUS
<1>4. sorter \in SortRecord /\ sorter.st \in {"start", "refused"} /\ sorter.read = << >>
  BY <1>1, <1>2, <1>3 DEF SortRecord
<1>5. QED
  BY <1>4 DEF SortInv

(* The types of both, in the forms the proofs below use.                   *)
LEMMA BothAre ==
  ASSUME GenInv, SortInv
  PROVE  /\ gen.f \in Flags /\ gen.out \in Seq(Ints) /\ Len(gen.out) \in Nat
         /\ gen.st \in {"run", "done", "crashed", "refused"}
         /\ sorter.f \in Flags /\ sorter.f.n \in Nat
         /\ sorter.read \in Seq(Ints) /\ Len(sorter.read) \in Nat
         /\ sorter.result \in Seq(Ints)
         /\ Piped \in Seq(Ints) /\ Len(Piped) \in Nat /\ Len(Piped) <= Len(gen.out)
         /\ \A k \in 1..Len(Piped) : Piped[k] = FileOf(gen.out, k)
         /\ \A k \in Nat \ {0} : FileOf(gen.out, k) \in Ints
<1>1. gen \in GenRecord /\ sorter \in SortRecord
  BY DEF GenInv, SortInv
<1>2. /\ gen.f \in Flags /\ gen.out \in Seq(Ints)
      /\ gen.st \in {"run", "done", "crashed", "refused"}
      /\ sorter.f \in Flags /\ sorter.read \in Seq(Ints) /\ sorter.result \in Seq(Ints)
  BY <1>1 DEF GenRecord, SortRecord
<1>3. sorter.f.n \in Nat
  BY <1>2 DEF Flags
<1>4. Len(gen.out) \in Nat /\ Len(sorter.read) \in Nat
  BY <1>2
<1>5. << >> \in Seq(Ints) /\ Len(<< >>) = 0
  OBVIOUS
<1>6. Piped \in Seq(Ints) /\ Len(Piped) \in Nat /\ Len(Piped) <= Len(gen.out)
  <2>1. CASE gen.f.o
    BY <1>4, <1>5, <2>1 DEF Piped
  <2>2. CASE ~gen.f.o
    BY <1>2, <1>4, <2>2 DEF Piped
  <2>3. QED
    BY <2>1, <2>2
<1>7. \A k \in 1..Len(Piped) : Piped[k] = FileOf(gen.out, k)
  <2>1. CASE gen.f.o
    BY <1>5, <2>1 DEF Piped
  <2>2. CASE ~gen.f.o
    BY <1>2, <1>4, <2>2 DEF Piped, FileOf
  <2>3. QED
    BY <2>1, <2>2
<1>8. \A k \in Nat \ {0} : FileOf(gen.out, k) \in Ints
  <2>1. 0 \in Ints
    BY WordIs
  <2>2. \A k \in Nat \ {0} : k <= Len(gen.out) => gen.out[k] \in Ints
    BY <1>2, <1>4
  <2>3. QED
    BY <2>1, <2>2 DEF FileOf
<1>9. QED
  BY <1>2, <1>3, <1>4, <1>6, <1>7, <1>8

(* While the generator runs, nothing that was read becomes wrong.          *)
LEMMA GenKeepsSort ==
  ASSUME GenInv, SortInv, Generate \/ DivideByZero \/ GeneratorEnds
  PROVE  SortInv'
<1>1. GenMoves
  BY GenTurn
<1>2. sorter' = sorter /\ gen.st = "run" /\ gen'.f = gen.f
  BY <1>1 DEF GenMoves
<1>3. ~GeneratorOver
  BY <1>2 DEF GeneratorOver
<1>4. \A k \in 1..Len(Piped) : FileOf(gen'.out, k) = FileOf(gen.out, k)
  <2>1. CASE gen'.out = gen.out
    BY <2>1
  <2>2. ASSUME NEW v \in Ints, gen'.out = Append(gen.out, v)
        PROVE  \A k \in 1..Len(Piped) : FileOf(gen'.out, k) = FileOf(gen.out, k)
    <3>1. /\ Len(gen'.out) = Len(gen.out) + 1
          /\ \A k \in 1..Len(gen.out) : gen'.out[k] = gen.out[k]
      BY <2>2, BothAre
    <3>2. QED
      BY <3>1, BothAre DEF FileOf
  <2>3. QED
    BY <1>1, <2>1, <2>2 DEF GenMoves
<1>5. Len(Piped) <= Len(Piped')
  <2>1. CASE gen'.out = gen.out
    BY <1>2, <2>1, BothAre DEF Piped
  <2>2. ASSUME NEW v \in Ints, gen'.out = Append(gen.out, v)
        PROVE  Len(Piped) <= Len(Piped')
    <3>1. Len(gen'.out) = Len(gen.out) + 1
      BY <2>2, BothAre
    <3>2. CASE gen.f.o
      BY <1>2, <3>2, BothAre DEF Piped
    <3>3. CASE ~gen.f.o
      BY <1>2, <3>1, <3>3, BothAre DEF Piped
    <3>4. QED
      BY <3>2, <3>3
  <2>3. QED
    BY <1>1, <2>1, <2>2 DEF GenMoves
<1>6. CASE sorter.st = "stdin"
  <2>1. ~sorter.f.i /\ Len(sorter.read) <= Len(Piped) /\ Followed
    BY <1>6 DEF SortInv
  <2>2. \A k \in 1..Len(sorter.read) : k \in 1..Len(Piped)
    BY <2>1, BothAre
  <2>3. Followed'
    BY <1>2, <1>4, <2>1, <2>2 DEF Followed
  <2>4. Len(Piped') \in Nat
    <3>1. GenInv'
      BY GenTurn
    <3>2. gen'.out \in Seq(Ints)
      BY <3>1 DEF GenInv, GenRecord
    <3>3. Piped' = << >> \/ Piped' = gen'.out
      BY DEF Piped
    <3>4. QED
      BY <3>2, <3>3
  <2>5. Len(sorter.read) <= Len(Piped')
    BY <1>5, <2>1, <2>4, BothAre
  <2>6. QED
    BY <1>2, <1>6, <2>1, <2>3, <2>5 DEF SortInv
<1>7. CASE sorter.st # "stdin"
  <2>1. sorter.st \notin {"file", "sort", "done"}
    BY <1>3 DEF SortInv
  <2>2. QED
    BY <1>2, <1>7, <2>1 DEF SortInv
<1>8. QED
  BY <1>6, <1>7

(* Steps of the sorter that only change what it does next.                 *)
LEMMA BecomeKeepsSort ==
  ASSUME GenInv, SortInv, NoUser \/ OpenFile \/ OpenStdin \/ ReadLetter \/ FileRead
                            \/ Overrun \/ StdinEnds
  PROVE  SortInv'
<1> DEFINE Sts == {"file", "stdin", "sort", "crashed", "refused"}
<1>1. PICK st \in Sts : Become(st)
                        /\ (st = "file" => OpenFile) /\ (st = "stdin" => OpenStdin)
                        /\ (st = "sort" => FileRead \/ StdinEnds)
  BY DEF NoUser, OpenFile, OpenStdin, ReadLetter, FileRead, Overrun, StdinEnds
<1>2. gen' = gen /\ sorter' = [sorter EXCEPT !.st = st] /\ sorter \in SortRecord
  BY <1>1 DEF Become, SortInv
<1>3. /\ sorter' \in SortRecord /\ sorter'.st = st /\ sorter'.f = sorter.f
      /\ sorter'.read = sorter.read
  BY <1>2 DEF SortRecord
<1>4. /\ GeneratorOver' <=> GeneratorOver
      /\ Followed' <=> Followed
      /\ Enough' <=> Enough
      /\ Piped' = Piped
  <2>1. Piped' = Piped
    BY <1>2 DEF Piped
  <2>2. QED
    BY <1>2, <1>3, <2>1 DEF GeneratorOver, Followed, Enough
<1>5. CASE st = "file"
  <2>1. GeneratorOver /\ sorter.f.i /\ sorter.st = "start"
    BY <1>1, <1>5 DEF OpenFile
  <2>2. sorter'.read = << >> /\ Len(sorter'.read) = 0
    BY <1>3, <2>1 DEF SortInv
  <2>3. Followed' /\ Len(sorter'.read) <= sorter'.f.n
    BY <1>3, <2>2, BothAre DEF Followed
  <2>4. QED
    BY <1>3, <1>4, <1>5, <2>1, <2>3 DEF SortInv
<1>6. CASE st = "stdin"
  <2>1. ~sorter.f.i /\ sorter.st = "start"
    BY <1>1, <1>6 DEF OpenStdin
  <2>2. sorter'.read = << >> /\ Len(sorter'.read) = 0
    BY <1>3, <2>1 DEF SortInv
  <2>3. Followed' /\ Len(sorter'.read) <= Len(Piped')
    BY <1>4, <2>2, BothAre DEF Followed
  <2>4. QED
    BY <1>3, <1>6, <2>1, <2>3 DEF SortInv
<1>7. CASE st = "sort"
  <2>1. CASE FileRead
    <3>1. sorter.st = "file" /\ Len(sorter.read) >= sorter.f.n
      BY <2>1 DEF FileRead
    <3>2. GeneratorOver /\ Followed
      BY <3>1 DEF SortInv
    <3>3. QED
      BY <1>3, <1>4, <1>7, <3>1, <3>2 DEF SortInv
  <2>2. CASE StdinEnds
    <3>1. sorter.st = "stdin" /\ GeneratorOver /\ Len(sorter.read) = Len(Piped)
      BY <2>2 DEF StdinEnds
    <3>2. Followed /\ ~sorter.f.i
      BY <3>1 DEF SortInv
    <3>3. Enough => Len(sorter.read) >= sorter.f.n
      BY <3>1, <3>2 DEF Enough
    <3>4. QED
      BY <1>3, <1>4, <1>7, <3>1, <3>2, <3>3 DEF SortInv
  <2>3. QED
    BY <1>1, <1>7, <2>1, <2>2
<1>8. CASE st \in {"crashed", "refused"}
  BY <1>3, <1>8 DEF SortInv
<1>9. QED
  BY <1>5, <1>6, <1>7, <1>8

(* A number that is read is the next of those printed, or a zero.          *)
LEMMA ReadKeepsSort ==
  ASSUME GenInv, SortInv, ReadFile \/ ReadStdin
  PROVE  SortInv'
<1> DEFINE m == Len(sorter.read) + 1
           v == FileOf(gen.out, m)
<1>1. m \in Nat \ {0} /\ v \in Ints /\ sorter.st \in {"file", "stdin"}
  BY BothAre DEF ReadFile, ReadStdin
<1>2. sorter' = [sorter EXCEPT !.read = Append(sorter.read, v)] /\ gen' = gen
  <2>1. CASE ReadFile
    BY <2>1 DEF ReadFile, NextInFile, FileOf, SortInv, SortRecord
  <2>2. CASE ReadStdin
    <3>1. /\ Len(sorter.read) < Len(Piped) /\ gen' = gen
          /\ sorter' = [sorter EXCEPT !.read = Append(@, Piped[Len(@) + 1])]
      BY <2>2 DEF ReadStdin
    <3>2. Piped[Len(sorter.read) + 1] = v
      <4>1. m \in 1..Len(Piped)
        BY <1>1, <3>1, BothAre
      <4>2. QED
        BY <4>1, BothAre
    <3>3. sorter' = [sorter EXCEPT !.read = Append(sorter.read, Piped[Len(sorter.read) + 1])]
      BY <3>1 DEF SortInv, SortRecord
    <3> HIDE DEF v
    <3>4. QED
      BY <3>1, <3>2, <3>3
  <2>3. QED
    BY <2>1, <2>2
<1> HIDE DEF v
<1>3. /\ Append(sorter.read, v) \in Seq(Ints) /\ Len(Append(sorter.read, v)) = m
      /\ \A k \in 1..m : Append(sorter.read, v)[k] = IF k <= Len(sorter.read) THEN sorter.read[k] ELSE v
  BY <1>1, BothAre
<1>4. /\ sorter' \in SortRecord /\ sorter'.st = sorter.st /\ sorter'.f = sorter.f
      /\ sorter'.read = Append(sorter.read, v)
  BY <1>2, <1>3 DEF SortInv, SortRecord
<1>5. Followed'
  <2>1. Followed
    BY <1>1 DEF SortInv
  <2>2. ASSUME NEW k \in 1..m PROVE sorter'.read[k] = FileOf(gen.out, k)
    <3>1. CASE k <= Len(sorter.read)
      <4>1. k \in 1..Len(sorter.read)
        BY <3>1, BothAre
      <4>2. QED
        BY <1>3, <1>4, <2>1, <3>1, <4>1 DEF Followed
    <3>2. CASE ~(k <= Len(sorter.read))
      <4>1. k = m
        BY <3>2, BothAre
      <4>2. sorter'.read[k] = v
        BY <1>3, <1>4, <3>2
      <4>3. QED
        BY <4>1, <4>2 DEF v
    <3>3. QED
      BY <3>1, <3>2
  <2>3. QED
    BY <1>2, <1>3, <1>4, <2>2 DEF Followed
<1>6. Piped' = Piped /\ (GeneratorOver' <=> GeneratorOver)
  BY <1>2 DEF Piped, GeneratorOver
<1>7. Len(sorter'.read) = m
  BY <1>3, <1>4
<1>8. CASE ReadFile
  <2>1. sorter.st = "file" /\ Len(sorter.read) < sorter.f.n
    BY <1>8 DEF ReadFile
  <2>2. Len(sorter'.read) <= sorter'.f.n
    BY <1>4, <1>7, <2>1, BothAre
  <2>3. QED
    BY <1>4, <1>5, <1>6, <2>1, <2>2 DEF SortInv
<1>9. CASE ReadStdin
  <2>1. sorter.st = "stdin" /\ Len(sorter.read) < Len(Piped)
    BY <1>9 DEF ReadStdin
  <2>2. Len(sorter'.read) <= Len(Piped')
    BY <1>6, <1>7, <2>1, BothAre
  <2>3. QED
    BY <1>4, <1>5, <1>6, <2>1, <2>2 DEF SortInv
<1>10. QED
  BY <1>8, <1>9

(* What the sorter should print, from the numbers and its n.               *)
Want(out, n) == [k \in 1..n |-> FileOf(out, k)]

(* With bounds in order as unsigned numbers, none of these is negative.    *)
LEMMA WantIs ==
  ASSUME GenInv, SortInv, gen.f.min <= gen.f.max, NEW n \in Nat
  PROVE  Want(gen.out, n) \in [1..n -> 0..(Half - 1)]
<1>1. gen.f.min \in Nat /\ gen.f.min >= 1 /\ gen.f.max \in Nat /\ gen.f.max < Half
  BY SMTT(30), WordIs, BothAre DEF Flags
<1>2. gen.f.min \in Ints
  BY <1>1, WordIs
<1>3. Signed(gen.f.min) = gen.f.min
  BY <1>2, SignedIs
<1>4. \A k \in DOMAIN gen.out : gen.out[k] \in gen.f.min..gen.f.max
  BY <1>3 DEF GenInv, GeneratedInRange
<1>5. ASSUME NEW k \in 1..n PROVE FileOf(gen.out, k) \in 0..(Half - 1)
  <2>1. CASE k <= Len(gen.out)
    <3>1. k \in DOMAIN gen.out
      BY <2>1, BothAre
    <3>2. gen.out[k] \in gen.f.min..gen.f.max
      BY <1>4, <3>1
    <3>3. QED
      BY <1>1, <2>1, <3>2, WordIs DEF FileOf
  <2>2. CASE ~(k <= Len(gen.out))
    BY <2>2, WordIs DEF FileOf
  <2>3. QED
    BY <2>1, <2>2
<1>6. QED
  BY <1>5 DEF Want

(* The property in these terms.                                            *)
Sorted(result, out, n) ==
  LET want == [k \in 1..n |-> IF k <= Len(out) THEN out[k] ELSE 0]
      Number0(v, s) == Cardinality({k \in DOMAIN s : s[k] = v})
  IN /\ \A v \in Ints : Number0(v, result) = Number0(v, want)
     /\ \A j, k \in 1..n : j <= k => result[j] <= result[k]

(* A permutation of what is wanted, in order, is as the property has it.   *)
LEMMA OutputIs ==
  ASSUME NEW result, NEW out, NEW n \in Nat, DOMAIN result = 1..n,
         \A v : Times(n, result, v) = Times(n, Want(out, n), v),
         \A j, k \in 1..n : j <= k => result[j] <= result[k]
  PROVE  Sorted(result, out, n)
<1> DEFINE want == [k \in 1..n |-> IF k <= Len(out) THEN out[k] ELSE 0]
<1>1. want = Want(out, n)
  BY DEF Want, FileOf
<1>2. DOMAIN want = 1..n
  OBVIOUS
<1> HIDE DEF want
<1>3. ASSUME NEW v
      PROVE  Cardinality({k \in DOMAIN result : result[k] = v}) =
             Cardinality({k \in DOMAIN want : want[k] = v})
  <2>1. Times(n, result, v) = Times(n, want, v)
    BY <1>1
  <2>2. QED
    BY <1>2, <2>1 DEF Times
<1>4. QED
  BY <1>3 DEF want, Sorted

(* What qsort makes of what was read, if that was enough.                  *)
LEMMA SortKeepsSort ==
  ASSUME GenInv, SortInv, Sort
  PROVE  SortInv'
<1> DEFINE n == sorter.f.n
           l == Len(sorter.read)
<1>1. sorter.st = "sort" /\ gen' = gen /\ n \in Nat /\ l \in Nat /\ sorter.read \in Seq(Ints)
  BY BothAre DEF Sort
<1>2. PICK rest \in [(l + 1)..n -> Leftovers] :
        \E t \in Qsorted([k \in 1..n |-> IF k <= l THEN sorter.read[k] ELSE rest[k]]) :
          sorter' = [sorter EXCEPT !.st = "done", !.result = t]
  BY DEF Sort
<1> DEFINE a == [k \in 1..n |-> IF k <= l THEN sorter.read[k] ELSE rest[k]]
<1>3. PICK t \in Qsorted(a) : sorter' = [sorter EXCEPT !.st = "done", !.result = t]
  BY <1>2
<1>4. a \in [1..n -> Ints]
  <2>1. ASSUME NEW k \in 1..n
        PROVE  (k <= l => sorter.read[k] \in Ints) /\ (~(k <= l) => rest[k] \in Ints)
    <3>1. k <= l => k \in 1..l
      BY <1>1
    <3>2. ~(k <= l) => k \in (l + 1)..n
      BY <1>1
    <3>3. Leftovers \subseteq Ints
      BY WordAssumption
    <3>4. QED
      BY <1>1, <3>1, <3>2, <3>3
  <2>2. QED
    BY <2>1
<1> HIDE DEF a
<1>5. t \in [1..n -> Ints]
  BY <1>1, <1>3, <1>4, QsortedIs
<1>6. t \in Seq(Ints) /\ DOMAIN t = 1..n
  BY <1>1, <1>5, IsASeq
<1>7. /\ sorter' \in SortRecord /\ sorter'.st = "done" /\ sorter'.f = sorter.f
      /\ sorter'.read = sorter.read /\ sorter'.result = t
  BY <1>3, <1>6 DEF SortInv, SortRecord
<1>8. GeneratorOver /\ Followed /\ (Enough => l >= n)
  BY <1>1 DEF SortInv
<1>9. GeneratorOver' /\ (Enough' <=> Enough)
  <2>1. Piped' = Piped
    BY <1>1 DEF Piped
  <2>2. QED
    BY <1>1, <1>7, <1>8, <2>1 DEF GeneratorOver, Enough
<1>10. ASSUME gen.f.min <= gen.f.max, Enough
       PROVE  /\ DOMAIN t = 1..n
              /\ \A v : Times(n, t, v) = Times(n, Want(gen.out, n), v)
              /\ \A j, k \in 1..n : j <= k => t[j] <= t[k]
  <2>1. l >= n
    BY <1>8, <1>10
  <2>2. \A k \in 1..n : k <= l /\ k \in 1..l
    BY <1>1, <2>1
  <2>3. a = Want(gen.out, n)
    BY <1>8, <2>2 DEF a, Want, Followed
  <2>4. a \in [1..n -> 0..(Half - 1)]
    BY <1>1, <1>10, <2>3, WantIs
  <2>5. /\ \A v : Times(n, t, v) = Times(n, a, v)
        /\ \A j, k \in 1..n : j <= k => t[j] <= t[k]
    BY <1>1, <1>3, <2>4, SortedIs
  <2>6. QED
    BY <1>6, <2>3, <2>5
<1>11. OutputSorted'
  <2>1. SUFFICES ASSUME gen.f.min <= gen.f.max, Enough PROVE Sorted(t, gen.out, n)
    BY <1>1, <1>7, <1>9 DEF OutputSorted, Enough, Sorted
  <2>2. QED
    BY <1>1, <1>10, <2>1, OutputIs
<1>12. QED
  BY <1>7, <1>9, <1>11 DEF SortInv

(* Both invariants together are inductive.                                 *)
LEMMA SortStep ==
  GenInv /\ SortInv /\ [Next]_vars => SortInv'
<1> SUFFICES ASSUME GenInv, SortInv, [Next]_vars PROVE SortInv'
  OBVIOUS
<1>1. CASE Generate \/ DivideByZero \/ GeneratorEnds
  BY <1>1, GenKeepsSort
<1>2. CASE NoUser \/ OpenFile \/ OpenStdin \/ ReadLetter \/ FileRead \/ Overrun \/ StdinEnds
  BY <1>2, BecomeKeepsSort
<1>3. CASE ReadFile \/ ReadStdin
  BY <1>3, ReadKeepsSort
<1>4. CASE Sort
  BY <1>4, SortKeepsSort
<1>5. CASE UNCHANGED vars
  <2>1. gen' = gen /\ sorter' = sorter
    BY <1>5 DEF vars
  <2>2. Piped' = Piped
    BY <2>1 DEF Piped
  <2>3. /\ GeneratorOver' <=> GeneratorOver
        /\ Followed' <=> Followed
        /\ Enough' <=> Enough
        /\ OutputSorted' <=> OutputSorted
    BY <2>1, <2>2 DEF GeneratorOver, Followed, Enough, OutputSorted
  <2>4. QED
    BY <2>1, <2>2, <2>3 DEF SortInv
<1>6. QED
  BY <1>1, <1>2, <1>3, <1>4, <1>5 DEF Next

(* Every number that is generated, read, or sorted is an int, whatever     *)
(* unsigned made of the bounds, and the parser's bounds hold.              *)
THEOREM TypeCorrect ==
  Spec => []TypeOK
<1>1. GenInv /\ SortInv => TypeOK
  <2> SUFFICES ASSUME GenInv, SortInv PROVE TypeOK
    OBVIOUS
  <2>1. gen.f.min \in 1..(Word - 1) /\ gen.f.max \in 1..MaxMax
    BY BothAre DEF Flags
  <2>2. SorterOver \/ sorter.st \in {"start", "file", "stdin", "sort"}
    BY DEF SortInv, SortRecord, SorterOver
  <2>3. QED
    BY <2>1, <2>2, BothAre DEF TypeOK, GenInv
<1>2. QED
  BY <1>1, GenInit, GenStep, SortInit, SortStep, PTL DEF Spec

(* What the sorter prints is the first n numbers of the generator in their *)
(* order, each as often, filled up with zeros from a file that had fewer.  *)
THEOREM OutputIsSorted ==
  Spec => []OutputSorted
<1>1. GenInv /\ SortInv => OutputSorted
  <2> SUFFICES ASSUME SortInv, sorter.st # "done" PROVE OutputSorted
    BY DEF SortInv
  <2>1. QED
    BY DEF OutputSorted
<1>2. QED
  BY <1>1, GenInit, GenStep, SortInit, SortStep, PTL DEF Spec

===============================================================================
