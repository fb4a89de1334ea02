------------------------ MODULE PageReplacementProofs ------------------------
(***************************************************************************)
(* Proofs about PageReplacement, for every number of pages and accesses,   *)
(* every workload and all sizes of caches: first what all five algorithms  *)
(* have in common, then which page each evicts - the order of LRU's list,  *)
(* the newest pages of FIFO and Rand, the clock that is FIFO until it has  *)
(* a hit, the loop that defeats all three, and OPT, which no choice of     *)
(* victims beats.                                                          *)
(***************************************************************************)
EXTENDS PageReplacement, CountingLemmas

Page == 1..Pages

-----------------------------------------------------------------------------
(* Least and greatest members, as the model chooses them.                  *)

(* The least of a set of numbers.                                          *)
LEMMA MinimumIs ==
  ASSUME NEW S \in SUBSET Nat, S # {}
  PROVE  Minimum(S) \in S /\ \A k \in S : Minimum(S) <= k
BY LeastNumber DEF Minimum

(* The greatest of a set of numbers that has a bound.                      *)
LEMMA MaximumIs ==
  ASSUME NEW S \in SUBSET Nat, S # {}, NEW b \in Nat, \A k \in S : k <= b
  PROVE  Maximum(S) \in S /\ \A k \in S : Maximum(S) >= k
BY GreatestNumber DEF Maximum

(* The greater of two numbers.                                             *)
LEMMA MaximumOfTwo ==
  ASSUME NEW p \in Nat, NEW q \in Nat
  PROVE  Maximum({p, q}) = IF p <= q THEN q ELSE p
<1>1. \A k \in {p, q} : k <= p + q
  OBVIOUS
<1>2. Maximum({p, q}) \in {p, q} /\ \A k \in {p, q} : Maximum({p, q}) >= k
  BY <1>1, MaximumIs
<1>3. QED
  BY <1>2

-----------------------------------------------------------------------------
(* What the operations on lists of pages do to the pages held.             *)

(* erase and push_back: the pages from the k-th on move up by one place.   *)
LEMMA ReplacedIs ==
  ASSUME NEW S, NEW s \in Seq(S), NEW k \in 1..Len(s), NEW x \in S
  PROVE  /\ Replaced(s, k, x) \in Seq(S)
         /\ Len(Replaced(s, k, x)) = Len(s)
         /\ \A i \in 1..Len(s) : Replaced(s, k, x)[i] =
              IF i < k THEN s[i] ELSE IF i < Len(s) THEN s[i + 1] ELSE x
<1> DEFINE a == SubSeq(s, 1, k - 1)
           b == SubSeq(s, k + 1, Len(s))
           c == a \o b
<1>1. /\ a \in Seq(S) /\ Len(a) = k - 1
      /\ \A i \in 1..(k - 1) : a[i] = s[i]
  OBVIOUS
<1>2. /\ b \in Seq(S) /\ Len(b) = Len(s) - k
      /\ \A i \in 1..(Len(s) - k) : b[i] = s[k + i]
  OBVIOUS
<1> HIDE DEF a, b
<1>3. /\ c \in Seq(S) /\ Len(c) = Len(a) + Len(b)
      /\ \A i \in 1..(Len(a) + Len(b)) :
           c[i] = IF i <= Len(a) THEN a[i] ELSE b[i - Len(a)]
  BY <1>1, <1>2, ConcatProperties
<1>4. Replaced(s, k, x) = c \o <<x>>
  BY DEF Replaced, a, b
<1> HIDE DEF c
<1>5. Len(s) \in Nat /\ k \in 1..Len(s)
  OBVIOUS
<1>6. /\ Len(c) = Len(s) - 1
      /\ \A i \in 1..(Len(s) - 1) : c[i] = IF i < k THEN s[i] ELSE s[i + 1]
  <2>1. Len(c) = Len(s) - 1
    BY <1>1, <1>2, <1>3, <1>5
  <2>2. ASSUME NEW i \in 1..(Len(s) - 1) PROVE c[i] = IF i < k THEN s[i] ELSE s[i + 1]
    <3>1. i \in 1..(Len(a) + Len(b)) /\ (i <= Len(a) <=> i < k)
      BY <1>1, <1>2, <1>5
    <3>2. c[i] = IF i < k THEN a[i] ELSE b[i - (k - 1)]
      BY <1>1, <1>3, <3>1
    <3>3. i < k => a[i] = s[i]
      BY <1>1, <1>5
    <3>4. i >= k => i - (k - 1) \in 1..(Len(s) - k) /\ k + (i - (k - 1)) = i + 1
      BY <1>5
    <3>5. i >= k => b[i - (k - 1)] = s[i + 1]
      BY <1>2, <3>4
    <3>6. QED
      BY <1>5, <3>2, <3>3, <3>5
  <2>3. QED
    BY <2>1, <2>2
<1>7. /\ c \o <<x>> \in Seq(S) /\ Len(c \o <<x>>) = Len(c) + 1
      /\ \A i \in 1..(Len(c) + 1) :
           (c \o <<x>>)[i] = IF i <= Len(c) THEN c[i] ELSE <<x>>[i - Len(c)]
  BY <1>3, ConcatProperties
<1>8. QED
  BY <1>4, <1>5, <1>6, <1>7

(* The new page takes the place of one that leaves.                        *)
LEMMA ReplacedHolds ==
  ASSUME NEW S, NEW s \in Seq(S), NEW k \in 1..Len(s), NEW x \in S,
         IsInjective(s), x \notin Range(s)
  PROVE  /\ IsInjective(Replaced(s, k, x))
         /\ Range(Replaced(s, k, x)) = (Range(s) \ {s[k]}) \cup {x}
<1> DEFINE t == Replaced(s, k, x)
<1>1. /\ DOMAIN t = 1..Len(s) /\ DOMAIN s = 1..Len(s) /\ Len(s) \in Nat
      /\ \A i \in 1..Len(s) : t[i] =
              IF i < k THEN s[i] ELSE IF i < Len(s) THEN s[i + 1] ELSE x
  BY ReplacedIs
<1>2. \A i \in 1..Len(s) : s[i] # x
  BY <1>1 DEF Range
<1>3. \A i, j \in 1..Len(s) : s[i] = s[j] => i = j
  BY <1>1 DEF IsInjective
<1> HIDE DEF t
<1>4. IsInjective(t)
  BY <1>1, <1>2, <1>3 DEF IsInjective
<1>5. \A y \in Range(t) : y \in (Range(s) \ {s[k]}) \cup {x}
  BY <1>1, <1>2, <1>3 DEF Range
<1>6. ASSUME NEW y \in (Range(s) \ {s[k]}) \cup {x} PROVE y \in Range(t)
  <2>1. CASE y = x
    <3>1. t[Len(s)] = x
      BY <1>1
    <3>2. QED
      BY <1>1, <2>1, <3>1 DEF Range
  <2>2. CASE y # x
    <3>1. PICK i \in 1..Len(s) : y = s[i]
      BY <1>1, <1>6, <2>2 DEF Range
    <3>2. i # k
      BY <1>6, <2>2, <3>1
    <3>3. t[IF i < k THEN i ELSE i - 1] = s[i] /\ (IF i < k THEN i ELSE i - 1) \in 1..Len(s)
      BY <1>1, <3>2
    <3>4. QED
      BY <1>1, <3>1, <3>3 DEF Range
  <2>3. QED
    BY <2>1, <2>2
<1>7. QED
  BY <1>4, <1>5, <1>6 DEF t

(* The new page comes to those that were there.                            *)
LEMMA AppendHolds ==
  ASSUME NEW S, NEW s \in Seq(S), NEW x \in S,
         IsInjective(s), x \notin Range(s)
  PROVE  /\ IsInjective(Append(s, x))
         /\ Range(Append(s, x)) = Range(s) \cup {x}
<1> DEFINE t == Append(s, x)
<1>1. /\ DOMAIN t = 1..(Len(s) + 1) /\ DOMAIN s = 1..Len(s) /\ Len(s) \in Nat
      /\ \A i \in 1..Len(s) : t[i] = s[i]
      /\ t[Len(s) + 1] = x
  OBVIOUS
<1> HIDE DEF t
<1>2. \A i \in 1..Len(s) : s[i] # x
  BY <1>1 DEF Range
<1>3. IsInjective(t)
  BY <1>1, <1>2 DEF IsInjective
<1>4. Range(t) = Range(s) \cup {x}
  BY <1>1 DEF Range
<1>5. QED
  BY <1>3, <1>4 DEF t

(* Bringing x to the head of s from its p-th place, or from behind.        *)
LEMMA MovedIs ==
  ASSUME NEW S, NEW s \in Seq(S), NEW p \in 1..(Len(s) + 1), NEW x \in S
  PROVE  /\ Moved(s, p, x) \in Seq(S)
         /\ Len(Moved(s, p, x)) = IF p <= Len(s) THEN Len(s) ELSE p
         /\ \A i \in 1..Len(Moved(s, p, x)) : Moved(s, p, x)[i] =
              IF i = 1 THEN x ELSE s[IF i <= p THEN i - 1 ELSE i]
<1> DEFINE n == IF p <= Len(s) THEN Len(s) ELSE p
           t == [k \in 1..n |-> IF k = 1 THEN x ELSE s[IF k <= p THEN k - 1 ELSE k]]
<1>1. n \in Nat /\ Maximum({p, Len(s)}) = n
  BY MaximumOfTwo
<1>2. \A k \in 1..n : (IF k = 1 THEN x ELSE s[IF k <= p THEN k - 1 ELSE k]) \in S
  OBVIOUS
<1>3. t \in Seq(S) /\ Len(t) = n
  <2> HIDE DEF n
  <2>1. t \in [1..n -> S]
    BY <1>2
  <2>2. QED
    BY <1>1, <2>1
<1>4. Moved(s, p, x) = t
  BY <1>1 DEF Moved
<1>5. QED
  BY <1>1, <1>3, <1>4

(* The page at the p-th place gives way to x, if there is one: s and t are *)
(* what the lists of l and m pages are before and after.                   *)
ShiftedBy(l, m, p, x, s, t) ==
  /\ m = (IF p <= l THEN l ELSE p)
  /\ DOMAIN s = 1..l /\ DOMAIN t = 1..m
  /\ \A i \in 1..m : t[i] = IF i = 1 THEN x ELSE s[IF i <= p THEN i - 1 ELSE i]
  /\ \A i, j \in 1..l : s[i] = s[j] => i = j
  /\ \A i \in 1..l : s[i] = x => i = p

(* No page comes twice in t, and it holds x and what remains of s.         *)
LEMMA ShiftedHolds ==
  ASSUME NEW l \in Nat, NEW m \in Nat, NEW p \in 1..(l + 1), NEW x, NEW s, NEW t,
         ShiftedBy(l, m, p, x, s, t)
  PROVE  /\ \A i, j \in 1..m : t[i] = t[j] => i = j
         /\ Range(t) = (IF p <= l THEN Range(s) \ {s[p]} ELSE Range(s)) \cup {x}
<1> USE DEF ShiftedBy
<1>1. ASSUME NEW i \in 2..m
      PROVE  \E j \in 1..l : j # p /\ t[i] = s[j] /\ j = IF i <= p THEN i - 1 ELSE i
  <2>1. CASE i <= p
    <3>1. i - 1 \in 1..l /\ t[i] = s[i - 1]
      BY <2>1
    <3>2. QED
      BY <2>1, <3>1
  <2>2. CASE i > p
    <3>1. i \in 1..l /\ t[i] = s[i]
      BY <2>2
    <3>2. QED
      BY <2>2, <3>1
  <2>3. QED
    BY <2>1, <2>2
<1>2. \A i \in 2..m : t[i] # x
  BY <1>1
<1>3. t[1] = x /\ 1 \in 1..m
  OBVIOUS
<1>4. ASSUME NEW i \in 1..m, NEW j \in 1..m, t[i] = t[j] PROVE i = j
  <2>1. CASE i = 1 \/ j = 1
    BY <1>2, <1>3, <1>4, <2>1
  <2>2. CASE i # 1 /\ j # 1
    BY <1>1, <1>4, <2>2
  <2>3. QED
    BY <2>1, <2>2
<1> DEFINE stay == IF p <= l THEN Range(s) \ {s[p]} ELSE Range(s)
<1>5. \A y \in Range(t) : y \in stay \cup {x}
  <2>1. ASSUME NEW i \in 2..m PROVE t[i] \in stay
    <3>1. PICK j \in 1..l : t[i] = s[j] /\ j # p
      BY <1>1
    <3>2. QED
      BY <3>1 DEF Range
  <2>2. QED
    BY <1>3, <2>1 DEF Range
<1>6. ASSUME NEW y \in stay \cup {x} PROVE y \in Range(t)
  <2>1. CASE y = x
    BY <1>3, <2>1 DEF Range
  <2>2. CASE y # x
    <3>1. PICK i \in 1..l : y = s[i] /\ i # p
      BY <1>6, <2>2 DEF Range
    <3>2. CASE i < p
      <4>1. i + 1 \in 1..m /\ t[i + 1] = s[i]
        BY <3>1, <3>2
      <4>2. QED
        BY <3>1, <4>1 DEF Range
    <3>3. CASE i > p
      <4>1. i \in 1..m /\ t[i] = s[i]
        BY <3>1, <3>3
      <4>2. QED
        BY <3>1, <4>1 DEF Range
    <3>4. QED
      BY <3>1, <3>2, <3>3
  <2>3. QED
    BY <2>1, <2>2
<1>7. QED
  BY <1>4, <1>5, <1>6

(* The page in place p leaves, unless it is the one that moves to the      *)
(* front.                                                                  *)
LEMMA MovedHolds ==
  ASSUME NEW S, NEW s \in Seq(S), NEW p \in 1..(Len(s) + 1), NEW x \in S,
         IsInjective(s),
         x \notin Range(s) \/ (p \in 1..Len(s) /\ s[p] = x)
  PROVE  /\ IsInjective(Moved(s, p, x))
         /\ Range(Moved(s, p, x)) =
              (IF p <= Len(s) THEN Range(s) \ {s[p]} ELSE Range(s)) \cup {x}
<1> DEFINE t == Moved(s, p, x)
<1>1. /\ Len(s) \in Nat /\ s \in [1..Len(s) -> S]
      /\ \A i, j \in 1..Len(s) : s[i] = s[j] => i = j
  BY DEF IsInjective
<1>2. /\ t \in Seq(S) /\ Len(t) = (IF p <= Len(s) THEN Len(s) ELSE p)
      /\ \A i \in 1..Len(t) : t[i] = IF i = 1 THEN x ELSE s[IF i <= p THEN i - 1 ELSE i]
  BY MovedIs
<1>3. \A i \in 1..Len(s) : s[i] = x => i = p
  BY <1>1 DEF Range
<1> HIDE DEF t
<1>4. Len(t) \in Nat /\ t \in [1..Len(t) -> S] /\ DOMAIN t = 1..Len(t)
  BY <1>2
<1>5. PICK l \in Nat, m \in Nat : l = Len(s) /\ m = Len(t)
  BY <1>1, <1>4
<1>6. ShiftedBy(l, m, p, x, s, t)
  BY <1>1, <1>2, <1>3, <1>4, <1>5 DEF ShiftedBy
<1>7. /\ \A i, j \in 1..m : t[i] = t[j] => i = j
      /\ Range(t) = (IF p <= l THEN Range(s) \ {s[p]} ELSE Range(s)) \cup {x}
  BY <1>5, <1>6, ShiftedHolds
<1>8. QED
  BY <1>4, <1>5, <1>7 DEF IsInjective, t

(* A list that holds no page twice is as long as the set of its pages.     *)
LEMMA LengthIsCardinality ==
  ASSUME NEW S, NEW s \in Seq(S), IsInjective(s)
  PROVE  IsFiniteSet(Range(s)) /\ Cardinality(Range(s)) = Len(s)
<1>1. Len(s) \in Nat /\ DOMAIN s = 1..Len(s) /\ s \in [1..Len(s) -> Range(s)]
  BY DEF Range
<1>2. s \in Bijection(1..Len(s), Range(s))
  BY <1>1 DEF Bijection, Injection, Surjection, Range
<1>3. ExistsBijection(1..Len(s), Range(s))
  BY <1>2 DEF ExistsBijection
<1>4. QED
  BY <1>1, <1>3, FS_NatBijection, FS_CountingElements

-----------------------------------------------------------------------------
(* One turn of an algorithm.  The records of the five are of these shapes, *)
(* and between two turns a cache of size n holds no page twice.            *)

PagedRecord == [cache : Seq(Page), hits : Nat]
LRURecord   == [cache : Seq(Page), keys : SUBSET Page, hits : Nat]
ClockRecord == [cache : Seq(Page), bits : UNION {[held -> BOOLEAN] : held \in SUBSET Page},
                hand : Nat, hits : Nat]

Fits(r, n) == r.cache \in Seq(Page) /\ Len(r.cache) <= n /\ IsInjective(r.cache)

(* What the turn with page x may do to the pages held by a cache of size   *)
(* n, r before and q after it: it hits, loads, replaces, or lets x pass.   *)
Hits(r, q, x)     == x \in Range(r.cache) /\ Range(q.cache) = Range(r.cache)
Loads(r, q, x, n) == Len(r.cache) < n /\ Range(q.cache) = Range(r.cache) \cup {x}
Replaces(r, q, x, n) ==
  Len(r.cache) = n /\ \E v \in Range(r.cache) : Range(q.cache) = (Range(r.cache) \ {v}) \cup {x}
Passes(r, q, n)   == Len(r.cache) = n /\ time + 1 = Accesses /\ q = r

DemandTurn(r, q, x, n) ==
  \/ Hits(r, q, x) /\ q.hits = r.hits + 1
  \/ /\ x \notin Range(r.cache) /\ q.hits = r.hits
     /\ Loads(r, q, x, n) \/ Replaces(r, q, x, n) \/ Passes(r, q, n)

(* The turn that FIFO, Rand and OPT have in common: page x takes the place *)
(* of the k-th page, whichever that is.                                    *)
Takes(r, q, x, n, k) ==
  /\ Full(r, n) => k \in 1..Len(r.cache)
  /\ q = IF Present(r, x) THEN Counted(r)
         ELSE [r EXCEPT !.cache = IF Full(r, n) THEN Replaced(@, k, x) ELSE Append(@, x)]

PagedFits(r, n) == r \in PagedRecord /\ Fits(r, n)

(* An algorithm that takes a page in this way keeps its cache in order,    *)
(* and pages on demand.                                                    *)
LEMMA PagedTurn ==
  ASSUME NEW n \in Nat \ {0}, NEW r, PagedFits(r, n), NEW x \in Page, NEW k, NEW q,
         Takes(r, q, x, n, k)
  PROVE  PagedFits(q, n) /\ DemandTurn(r, q, x, n)
<1> USE DEF Takes, PagedFits
<1>1. CASE Present(r, x)
  <2>1. q.cache = r.cache /\ q.hits = r.hits + 1 /\ q \in PagedRecord
    BY <1>1 DEF Counted, PagedRecord
  <2>2. QED
    BY <1>1, <2>1 DEF Fits, DemandTurn, Hits, Present
<1>2. CASE ~Present(r, x) /\ Full(r, n)
  <2> DEFINE c == Replaced(r.cache, k, x)
  <2>1. /\ r.cache \in Seq(Page) /\ k \in 1..Len(r.cache) /\ Len(r.cache) = n
        /\ IsInjective(r.cache) /\ x \notin Range(r.cache)
    BY <1>2 DEF Fits, Full, Present
  <2>2. c \in Seq(Page) /\ Len(c) = n
    BY <2>1, ReplacedIs
  <2>3. IsInjective(c) /\ Range(c) = (Range(r.cache) \ {r.cache[k]}) \cup {x}
    BY <2>1, ReplacedHolds
  <2>4. r.cache[k] \in Range(r.cache)
    BY <2>1 DEF Range
  <2>5. q = [r EXCEPT !.cache = c]
    BY <1>2
  <2> HIDE DEF c
  <2>6. q.cache = c /\ q.hits = r.hits /\ q \in PagedRecord
    BY <2>2, <2>5 DEF PagedRecord
  <2>7. QED
    BY <2>1, <2>2, <2>3, <2>4, <2>6 DEF Fits, DemandTurn, Replaces
<1>3. CASE ~Present(r, x) /\ ~Full(r, n)
  <2> DEFINE c == Append(r.cache, x)
  <2>1. /\ r.cache \in Seq(Page) /\ Len(r.cache) \in Nat /\ Len(r.cache) < n
        /\ IsInjective(r.cache) /\ x \notin Range(r.cache)
    BY <1>3 DEF Fits, Full, Present
  <2>2. c \in Seq(Page) /\ Len(c) = Len(r.cache) + 1
    BY <2>1
  <2>3. IsInjective(c) /\ Range(c) = Range(r.cache) \cup {x}
    BY <2>1, AppendHolds
  <2>4. q = [r EXCEPT !.cache = c]
    BY <1>3
  <2> HIDE DEF c
  <2>5. q.cache = c /\ q.hits = r.hits /\ q \in PagedRecord
    BY <2>2, <2>4 DEF PagedRecord
  <2>6. Len(c) <= n
    BY <2>1, <2>2
  <2>7. Fits(q, n)
    BY <2>2, <2>3, <2>5, <2>6 DEF Fits
  <2>8. Loads(r, q, x, n)
    BY <2>1, <2>3, <2>5 DEF Loads
  <2>9. QED
    BY <2>1, <2>5, <2>7, <2>8 DEF DemandTurn
<1>4. QED
  BY <1>1, <1>2, <1>3

(* LRU: the page used is brought to the head, from its place p or else     *)
(* from the last place, or from behind it when there is room.              *)
LRUPlace(r, x, n) ==
  IF x \in r.keys THEN CHOOSE k \in 1..Len(r.cache) : r.cache[k] = x
  ELSE IF Full(r, n) THEN Len(r.cache) ELSE Len(r.cache) + 1

LRUFits(r, n) == r \in LRURecord /\ Fits(r, n) /\ r.keys = Range(r.cache)

(* The place that LRU makes free: where the page is, or the last, or the   *)
(* next one that is empty.                                                 *)
LEMMA LRUPlaceIs ==
  ASSUME NEW n \in Nat \ {0}, NEW r, LRUFits(r, n), NEW x \in Page
  PROVE  LET p == LRUPlace(r, x, n)
         IN /\ p \in 1..(Len(r.cache) + 1)
            /\ p <= n
            /\ x \in r.keys => p \in 1..Len(r.cache) /\ r.cache[p] = x
            /\ x \notin r.keys => p = IF Full(r, n) THEN Len(r.cache) ELSE Len(r.cache) + 1
<1> DEFINE p == LRUPlace(r, x, n)
<1>1. Len(r.cache) \in 0..n /\ DOMAIN r.cache = 1..Len(r.cache)
  BY DEF LRUFits, Fits
<1>2. CASE x \in r.keys
  <2>1. \E k \in 1..Len(r.cache) : r.cache[k] = x
    BY <1>1, <1>2 DEF LRUFits, Range
  <2>2. p \in 1..Len(r.cache) /\ r.cache[p] = x
    BY <1>2, <2>1 DEF LRUPlace
  <2>3. QED
    BY <1>1, <1>2, <2>2
<1>3. CASE x \notin r.keys
  <2>1. p = IF Full(r, n) THEN Len(r.cache) ELSE Len(r.cache) + 1
    BY <1>3 DEF LRUPlace
  <2>2. QED
    BY <1>1, <1>3, <2>1 DEF Full
<1>4. QED
  BY <1>2, <1>3

(* LRU keeps its map and its list together, and pages on demand.           *)
LEMMA LRUTurn ==
  ASSUME NEW n \in Nat \ {0}, NEW r, LRUFits(r, n), NEW x \in Page
  PROVE  LET q == LRU(r, x, n)
         IN /\ LRUFits(q, n) /\ DemandTurn(r, q, x, n)
            /\ q.cache = Moved(r.cache, LRUPlace(r, x, n), x)
            /\ q.hits = IF x \in r.keys THEN r.hits + 1 ELSE r.hits
<1> DEFINE q == LRU(r, x, n)
           p == LRUPlace(r, x, n)
           c == Moved(r.cache, p, x)
<1>1. /\ r.cache \in Seq(Page) /\ Len(r.cache) \in 0..n /\ IsInjective(r.cache)
      /\ r.keys = Range(r.cache) /\ r.hits \in Nat /\ r.keys \in SUBSET Page
  BY DEF LRUFits, Fits, LRURecord
<1>2. /\ p \in 1..(Len(r.cache) + 1) /\ p <= n
      /\ x \in r.keys => p \in 1..Len(r.cache) /\ r.cache[p] = x
      /\ x \notin r.keys => p = IF Full(r, n) THEN Len(r.cache) ELSE Len(r.cache) + 1
  BY LRUPlaceIs
<1>3. /\ q.cache = c
      /\ q.hits = IF x \in r.keys THEN r.hits + 1 ELSE r.hits
      /\ q.keys = (r.keys \ (IF Full(r, n) /\ x \notin r.keys THEN {r.cache[Len(r.cache)]} ELSE {}))
                    \cup {x}
      /\ q = [cache |-> c, keys |-> q.keys, hits |-> q.hits]
  BY DEF LRU, LRUPlace
<1>4. /\ c \in Seq(Page)
      /\ Len(c) = IF p <= Len(r.cache) THEN Len(r.cache) ELSE p
  <2>1. \A k \in 1..(Len(r.cache) + 1) :
          /\ Moved(r.cache, k, x) \in Seq(Page)
          /\ Len(Moved(r.cache, k, x)) = IF k <= Len(r.cache) THEN Len(r.cache) ELSE k
    BY <1>1, MovedIs
  <2> HIDE DEF p
  <2>2. QED
    BY <1>2, <2>1
<1>5. /\ IsInjective(c)
      /\ Range(c) = (IF p <= Len(r.cache) THEN Range(r.cache) \ {r.cache[p]} ELSE Range(r.cache))
                      \cup {x}
  <2> HIDE DEF p
  <2>1. QED
    BY <1>1, <1>2, MovedHolds
<1> HIDE DEF q, p, c
<1>6. q.keys = Range(c)
  <2>1. CASE x \in r.keys
    BY <1>1, <1>2, <1>3, <1>5, <2>1
  <2>2. CASE x \notin r.keys /\ Full(r, n)
    BY <1>1, <1>2, <1>3, <1>5, <2>2
  <2>3. CASE x \notin r.keys /\ ~Full(r, n)
    BY <1>1, <1>2, <1>3, <1>5, <2>3
  <2>4. QED
    BY <2>1, <2>2, <2>3
<1>7. q \in LRURecord
  <2>1. q.keys \in SUBSET Page /\ q.hits \in Nat
    BY <1>1, <1>3
  <2>2. QED
    BY <1>3, <1>4, <2>1 DEF LRURecord
<1>8. LRUFits(q, n)
  <2>1. Len(c) <= n
    BY <1>1, <1>2, <1>4
  <2>2. QED
    BY <1>3, <1>4, <1>5, <1>6, <1>7, <2>1 DEF LRUFits, Fits
<1>9. DemandTurn(r, q, x, n)
  <2>1. CASE x \in r.keys
    <3>1. Range(q.cache) = Range(r.cache) /\ q.hits = r.hits + 1
      BY <1>1, <1>2, <1>3, <1>5, <2>1
    <3>2. QED
      BY <1>1, <2>1, <3>1 DEF DemandTurn, Hits
  <2>2. CASE x \notin r.keys /\ Full(r, n)
    <3>1. /\ Len(r.cache) = n /\ p = n /\ q.hits = r.hits
          /\ Range(q.cache) = (Range(r.cache) \ {r.cache[p]}) \cup {x}
      BY <1>1, <1>2, <1>3, <1>5, <2>2 DEF Full
    <3>2. r.cache[p] \in Range(r.cache)
      BY <1>1, <3>1 DEF Range
    <3>3. QED
      BY <1>1, <2>2, <3>1, <3>2 DEF DemandTurn, Replaces
  <2>3. CASE x \notin r.keys /\ ~Full(r, n)
    <3>1. /\ Len(r.cache) < n /\ q.hits = r.hits
          /\ Range(q.cache) = Range(r.cache) \cup {x}
      BY <1>1, <1>2, <1>3, <1>5, <2>3 DEF Full
    <3>2. QED
      BY <1>1, <2>3, <3>1 DEF DemandTurn, Loads
  <2>4. QED
    BY <2>1, <2>2, <2>3
<1>10. QED
  BY <1>3, <1>8, <1>9 DEF q, p, c

(* The next use of a page is an access to come, or the one after the last. *)
LEMMA NextUseIs ==
  ASSUME time \in Nat, NEW page
  PROVE  NextUse(page) \in Nat /\ NextUse(page) <= Accesses + 1
<1> DEFINE uses == {k \in (time + 1)..Accesses : workload[k] = page}
<1>1. Accesses \in Nat
  BY PagingAssumption
<1>2. uses \in SUBSET Nat /\ \A k \in uses : k <= Accesses
  BY <1>1
<1>3. NextUse(page) = IF uses = {} THEN Accesses + 1 ELSE Minimum(uses)
  BY DEF NextUse
<1> HIDE DEF uses
<1>4. CASE uses = {}
  BY <1>1, <1>3, <1>4
<1>5. CASE uses # {}
  <2>1. Minimum(uses) \in uses
    BY <1>2, <1>5, MinimumIs
  <2>2. NextUse(page) \in Nat /\ NextUse(page) <= Accesses
    BY <1>2, <1>3, <1>5, <2>1
  <2>3. QED
    BY <1>1, <2>2
<1>6. QED
  BY <1>4, <1>5

(* OPT finds a page to cross off last: no page it holds is used later.     *)
LEMMA FurthestOutIs ==
  ASSUME time \in Nat, NEW S, NEW s \in Seq(S), s # << >>
  PROVE  /\ FurthestOut(s) \in 1..Len(s)
         /\ \A j \in 1..Len(s) : NextUse(s[j]) <= NextUse(s[FurthestOut(s)])
<1>1. Len(s) \in Nat /\ DOMAIN s = 1..Len(s) /\ 1 \in DOMAIN s
  OBVIOUS
<1> DEFINE uses == {NextUse(s[k]) : k \in DOMAIN s}
<1>2. PICK u \in uses : \A v \in uses : u >= v
  <2>1. uses \in SUBSET Nat /\ \A v \in uses : v <= Accesses + 1
    BY NextUseIs
  <2>2. uses # {} /\ Accesses + 1 \in Nat
    BY <1>1, PagingAssumption
  <2> HIDE DEF uses
  <2>3. QED
    BY <2>1, <2>2, GreatestNumber
<1> DEFINE last == {k \in DOMAIN s : NextUse(s[k]) = u}
<1>3. PICK k \in last : \A j \in last : k <= j
  <2>1. last \in SUBSET Nat /\ last # {}
    BY <1>1, <1>2
  <2> HIDE DEF last
  <2>2. QED
    BY <2>1, LeastNumber
<1>4. k \in DOMAIN s /\ NextUse(s[k]) = u
  BY <1>3
<1>5. ASSUME NEW j \in DOMAIN s
      PROVE  NextUse(s[j]) < NextUse(s[k]) \/ (NextUse(s[j]) = NextUse(s[k]) /\ k <= j)
  <2>1. NextUse(s[j]) \in Nat /\ NextUse(s[k]) \in Nat
    BY NextUseIs
  <2>2. NextUse(s[k]) >= NextUse(s[j])
    BY <1>2, <1>4
  <2>3. NextUse(s[j]) = u => k <= j
    BY <1>3
  <2>4. QED
    BY <1>4, <2>1, <2>2, <2>3
<1> DEFINE f == FurthestOut(s)
<1>6. /\ f \in DOMAIN s
      /\ \A j \in DOMAIN s :
           NextUse(s[j]) < NextUse(s[f]) \/ (NextUse(s[j]) = NextUse(s[f]) /\ f <= j)
  BY <1>4, <1>5 DEF FurthestOut
<1> HIDE DEF f
<1>7. \A j \in DOMAIN s : NextUse(s[j]) \in Nat /\ NextUse(s[f]) \in Nat
  BY <1>6, NextUseIs
<1>8. \A j \in DOMAIN s : NextUse(s[j]) <= NextUse(s[f])
  BY <1>6, <1>7
<1>9. QED
  BY <1>1, <1>6, <1>8 DEF f

(* OPT: it may let the last page of the workload pass.                     *)
LEMMA OPTTurn ==
  ASSUME time \in Nat,
         NEW n \in Nat \ {0}, NEW r, PagedFits(r, n), NEW x \in Page
  PROVE  LET q == OPT(r, x, n)
         IN PagedFits(q, n) /\ DemandTurn(r, q, x, n)
<1> DEFINE q == OPT(r, x, n)
<1>1. CASE ~Present(r, x) /\ Full(r, n) /\ time + 1 = Accesses
  <2>1. q = r
    BY <1>1 DEF OPT
  <2>2. Passes(r, q, n) /\ x \notin Range(r.cache)
    BY <1>1, <2>1 DEF Full, Passes, Present
  <2>3. QED
    BY <2>1, <2>2 DEF DemandTurn
<1>2. CASE ~(~Present(r, x) /\ Full(r, n) /\ time + 1 = Accesses)
  <2> DEFINE k == FurthestOut(r.cache)
  <2>1. Full(r, n) => k \in 1..Len(r.cache)
    <3>1. r.cache \in Seq(Page) /\ (Full(r, n) => r.cache # << >>)
      BY DEF PagedFits, Fits, Full
    <3>2. QED
      BY <3>1, FurthestOutIs
  <2>2. q = IF Present(r, x) THEN Counted(r)
            ELSE [r EXCEPT !.cache = IF Full(r, n) THEN Replaced(@, k, x) ELSE Append(@, x)]
    BY <1>2 DEF OPT
  <2> HIDE DEF q, k
  <2>3. Takes(r, q, x, n, k)
    BY <2>1, <2>2 DEF Takes
  <2>4. QED
    BY <2>3, PagedTurn DEF q
<1>3. QED
  BY <1>1, <1>2

-----------------------------------------------------------------------------
(* The clock.                                                              *)

ClockFits(r, n) ==
  /\ r \in ClockRecord /\ Fits(r, n)
  /\ r.bits \in [Range(r.cache) -> BOOLEAN]
  /\ r.hand \in 0..(n - 1)

(* The hand goes once round at most, to a page of the cache.               *)
LEMMA TurnsIs ==
  ASSUME NEW n \in Nat \ {0}, NEW r, ClockFits(r, n), Len(r.cache) = n
  PROVE  /\ Turns(r) \in 0..n
         /\ \A k \in 0..(n - 1) : ~r.bits[At(r, k)] => Turns(r) <= k
         /\ Turns(r) < n => ~r.bits[At(r, Turns(r))]
<1> DEFINE stops == {n} \cup {k \in 0..(n - 1) : ~r.bits[At(r, k)]}
<1>1. Turns(r) = Minimum(stops)
  BY DEF Turns
<1>2. stops \in SUBSET Nat /\ n \in stops
  OBVIOUS
<1>3. Minimum(stops) \in stops /\ \A k \in stops : Minimum(stops) <= k
  <2> HIDE DEF stops
  <2>1. QED
    BY <1>2, MinimumIs
<1>4. QED
  BY <1>1, <1>2, <1>3

(* Clock keeps its hand on the ring, and pages on demand.                  *)
LEMMA ClockTurn ==
  ASSUME NEW n \in Nat \ {0}, NEW r, ClockFits(r, n), NEW x \in Page
  PROVE  LET q == Clock(r, x, n)
         IN ClockFits(q, n) /\ DemandTurn(r, q, x, n)
<1> DEFINE q == Clock(r, x, n)
<1>1. /\ r.cache \in Seq(Page) /\ Len(r.cache) \in 0..n /\ IsInjective(r.cache)
      /\ r.hits \in Nat /\ r.hand \in 0..(n - 1) /\ r.hand \in Nat
      /\ r.bits \in [Range(r.cache) -> BOOLEAN] /\ Range(r.cache) \in SUBSET Page
      /\ r = [cache |-> r.cache, bits |-> r.bits, hand |-> r.hand, hits |-> r.hits]
  BY DEF ClockFits, Fits, ClockRecord, Range
<1>2. CASE Present(r, x)
  <2> DEFINE bits == [r.bits EXCEPT ![x] = TRUE]
  <2>1. q = [[r EXCEPT !.hits = @ + 1] EXCEPT !.bits[x] = TRUE]
    BY <1>2 DEF Clock, Counted
  <2>2. bits \in [Range(r.cache) -> BOOLEAN]
    BY <1>1
  <2>3. q = [cache |-> r.cache, bits |-> bits, hand |-> r.hand, hits |-> r.hits + 1]
    BY <1>1, <2>1
  <2> HIDE DEF bits, q
  <2>4. ClockFits(q, n)
    BY <1>1, <2>2, <2>3 DEF ClockFits, Fits, ClockRecord
  <2>5. QED
    BY <1>2, <2>3, <2>4 DEF DemandTurn, Hits, Present, q
<1>3. CASE ~Present(r, x) /\ ~Full(r, n)
  <2> DEFINE c    == Append(r.cache, x)
             held == Range(r.cache) \cup {x}
             bits == [p \in held |-> p \in Range(r.cache) /\ r.bits[p]]
  <2>1. Len(r.cache) < n /\ x \notin Range(r.cache)
    BY <1>1, <1>3 DEF Full, Present
  <2>2. /\ c \in Seq(Page) /\ Len(c) = Len(r.cache) + 1 /\ Len(c) <= n
    BY <1>1, <2>1
  <2>3. IsInjective(c) /\ Range(c) = held
    BY <1>1, <2>1, AppendHolds
  <2>4. bits \in [held -> BOOLEAN]
    BY <1>1
  <2>5. q = [r EXCEPT !.cache = c, !.bits = bits]
    BY <1>1, <1>3 DEF Clock
  <2> HIDE DEF c, bits, held, q
  <2>6. q = [cache |-> c, bits |-> bits, hand |-> r.hand, hits |-> r.hits]
    BY <1>1, <2>5
  <2>7. ClockFits(q, n)
    <3>1. held \in SUBSET Page
      BY <1>1 DEF held
    <3>2. QED
      BY <1>1, <2>2, <2>3, <2>4, <2>6, <3>1 DEF ClockFits, Fits, ClockRecord
  <2>8. QED
    BY <2>1, <2>3, <2>6, <2>7 DEF DemandTurn, Loads, held, q
<1>4. CASE ~Present(r, x) /\ Full(r, n)
  <2> DEFINE turns  == Turns(r)
             hand   == (r.hand + turns) % n
             victim == At(r, turns)
             passed == {At(r, k) : k \in 0..(turns - 1)}
             c      == Replaced(r.cache, hand + 1, x)
             held   == (Range(r.cache) \ {victim}) \cup {x}
             bits   == [p \in held |-> p = x \/ (p \notin passed /\ r.bits[p])]
  <2>1. Len(r.cache) = n /\ x \notin Range(r.cache)
    BY <1>1, <1>4 DEF Full, Present
  <2>2. turns \in 0..n
    BY <2>1, TurnsIs
  <2>3. hand \in 0..(n - 1)
    <3> HIDE DEF turns
    <3>1. r.hand + turns \in Int
      BY <1>1, <2>2
    <3>2. QED
      BY <3>1, Remainder
  <2>4. victim = r.cache[hand + 1] /\ victim \in Range(r.cache)
    <3>1. victim = r.cache[hand + 1]
      BY <2>1 DEF At
    <3> HIDE DEF hand, victim
    <3>2. QED
      BY <1>1, <2>1, <2>3, <3>1 DEF Range
  <2>5. q = [r EXCEPT !.cache = c, !.bits = bits, !.hand = hand]
    BY <1>1, <1>4, <2>1 DEF Clock
  <2>6. bits \in [held -> BOOLEAN]
    <3> HIDE DEF turns, hand, victim, passed
    <3>1. QED
      BY <1>1
  <2> HIDE DEF turns, hand, passed
  <2>7. c \in Seq(Page) /\ Len(c) = n
    <3>1. hand + 1 \in 1..Len(r.cache)
      BY <2>1, <2>3
    <3>2. QED
      BY <1>1, <2>1, <3>1, ReplacedIs
  <2>8. IsInjective(c) /\ Range(c) = held
    <3>1. hand + 1 \in 1..Len(r.cache)
      BY <2>1, <2>3
    <3> HIDE DEF victim
    <3>2. IsInjective(c) /\ Range(c) = (Range(r.cache) \ {r.cache[hand + 1]}) \cup {x}
      BY <1>1, <2>1, <3>1, ReplacedHolds
    <3>3. QED
      BY <2>4, <3>2
  <2> HIDE DEF c, bits, held, victim, q
  <2>9. q = [cache |-> c, bits |-> bits, hand |-> hand, hits |-> r.hits]
    BY <1>1, <2>5
  <2>10. ClockFits(q, n)
    <3>1. held \in SUBSET Page
      BY <1>1 DEF held
    <3>2. QED
      BY <1>1, <2>3, <2>6, <2>7, <2>8, <2>9, <3>1 DEF ClockFits, Fits, ClockRecord
  <2>11. QED
    BY <2>1, <2>4, <2>8, <2>9, <2>10 DEF DemandTurn, Replaces, held, q
<1>5. QED
  BY <1>2, <1>3, <1>4

-----------------------------------------------------------------------------
(* FIFO and Rand.  The index that Rand draws is a place of a full cache.   *)

(* FIFO replaces the oldest page.                                          *)
LEMMA FIFOTurn ==
  ASSUME NEW n \in Nat \ {0}, NEW r, PagedFits(r, n), NEW x \in Page
  PROVE  LET q == FIFO(r, x, n)
         IN PagedFits(q, n) /\ DemandTurn(r, q, x, n)
<1> DEFINE q == FIFO(r, x, n)
<1>1. Takes(r, q, x, n, 1)
  BY DEF Takes, FIFO, Full
<1> HIDE DEF q
<1>2. QED
  BY <1>1, PagedTurn DEF q

(* The index that is drawn lies below the last place.                      *)
LEMMA IndexInRange ==
  ASSUME NEW pick \in Indexes, NEW n \in Sizes
  PROVE  pick[n] \in 0..(n - 2)
<1>1. n \in Nat /\ pick[n] <= n - 2 /\ pick[n] \in 0..(Maximum(Sizes) - 2)
  BY PagingAssumption DEF Indexes
<1>2. QED
  BY <1>1

(* Rand replaces the page at the index it draws.                           *)
LEMMA RandTurn ==
  ASSUME NEW n \in Nat \ {0}, NEW r, PagedFits(r, n), NEW x \in Page,
         NEW index \in 0..(n - 2)
  PROVE  LET q == Rand(r, x, n, index)
         IN PagedFits(q, n) /\ DemandTurn(r, q, x, n)
<1> DEFINE q == Rand(r, x, n, index)
<1>1. Takes(r, q, x, n, index + 1)
  BY DEF Takes, Rand, Full
<1> HIDE DEF q
<1>2. QED
  BY <1>1, PagedTurn DEF q

-----------------------------------------------------------------------------
(* The inductive invariant: TypeOK with the shapes of the records.         *)

WorkTyped == workload \in NoLocality /\ time \in 0..Accesses

CachesFit ==
  \A n \in Sizes :
    /\ PagedFits(fifo[n], n) /\ PagedFits(random[n], n) /\ PagedFits(opt[n], n)
    /\ LRUFits(lru[n], n) /\ ClockFits(clock[n], n)

HitsCounted ==
  \A n \in Sizes :
    /\ fifo[n].hits <= time /\ random[n].hits <= time /\ opt[n].hits <= time
    /\ lru[n].hits <= time /\ clock[n].hits <= time

TypeInv == WorkTyped /\ CachesFit /\ HitsCounted

(* Every generator of workloads makes a sequence of pages.                 *)
LEMMA WorkloadOfPages ==
  NoLocality \cup EightyTwenty \cup {Looping} \subseteq NoLocality
<1>1. /\ Pages \in Nat \ {0, 1} /\ Accesses \in Nat \ {0}
      /\ ColdFrom = (Pages - 1) \div 5 + 1
  BY PagingAssumption
<1>2. (Pages - 1) \div 5 \in 0..(Pages - 1)
  BY <1>1
<1>3. HotPages \cup ColdPages \subseteq Page
  BY <1>1, <1>2 DEF HotPages, ColdPages, Page
<1>4. EightyTwenty \subseteq NoLocality
  BY <1>3 DEF EightyTwenty, NoLocality, Page
<1>5. Looping \in NoLocality
  <2>1. PICK h \in Nat \ {0} : h = Pages \div 2 /\ h <= Pages
    BY <1>1
  <2>2. \A k \in 1..Accesses : (k - 1) % h \in 0..(h - 1)
    BY <1>1, Remainder
  <2>3. \A k \in 1..Accesses : ((k - 1) % h) + 1 \in 1..Pages
    BY <1>1, <2>1, <2>2
  <2>4. QED
    BY <2>1, <2>3 DEF Looping, NoLocality
<1>6. QED
  BY <1>4, <1>5

(* All caches are empty at the start.                                      *)
LEMMA TypeInvInit ==
  Init => TypeInv
<1> SUFFICES ASSUME Init PROVE TypeInv
  OBVIOUS
<1>1. WorkTyped
  BY WorkloadOfPages, PagingAssumption DEF Init, WorkTyped
<1>2. /\ << >> \in Seq(Page) /\ Len(<< >>) = 0 /\ IsInjective(<< >>) /\ Range(<< >>) = {}
  BY DEF IsInjective, Range
<1>3. ASSUME NEW n \in Sizes
      PROVE  /\ PagedFits(fifo[n], n) /\ PagedFits(random[n], n) /\ PagedFits(opt[n], n)
             /\ LRUFits(lru[n], n) /\ ClockFits(clock[n], n)
  <2>1. n \in Nat \ {0, 1}
    BY PagingAssumption
  <2>2. [cache |-> << >>, hits |-> 0] \in PagedRecord
    BY <1>2 DEF PagedRecord
  <2>3. PagedFits([cache |-> << >>, hits |-> 0], n)
    BY <1>2, <2>1, <2>2 DEF PagedFits, Fits
  <2>4. LRUFits([cache |-> << >>, keys |-> {}, hits |-> 0], n)
    BY <1>2, <2>1 DEF LRUFits, LRURecord, Fits
  <2>5. << >> \in [{} -> BOOLEAN]
    OBVIOUS
  <2>6. ClockFits([cache |-> << >>, bits |-> << >>, hand |-> 0, hits |-> 0], n)
    <3>1. << >> \in UNION {[held -> BOOLEAN] : held \in SUBSET Page}
      BY <2>5
    <3>2. QED
      BY <1>2, <2>1, <2>5, <3>1 DEF ClockFits, ClockRecord, Fits
  <2>7. QED
    BY <2>3, <2>4, <2>6 DEF Init
<1>4. HitsCounted
  BY DEF Init, HitsCounted
<1>5. QED
  BY <1>1, <1>3, <1>4 DEF TypeInv, CachesFit

(* Every algorithm makes a turn of demand paging at each access.           *)
LEMMA TurnsTaken ==
  ASSUME TypeInv, Access, NEW n \in Sizes
  PROVE  LET x == workload[time + 1]
         IN /\ n \in Nat \ {0, 1} /\ x \in Page /\ time' = time + 1 /\ time \in Nat
            /\ PagedFits(fifo'[n], n) /\ DemandTurn(fifo[n], fifo'[n], x, n)
            /\ LRUFits(lru'[n], n) /\ DemandTurn(lru[n], lru'[n], x, n)
            /\ PagedFits(random'[n], n) /\ DemandTurn(random[n], random'[n], x, n)
            /\ PagedFits(opt'[n], n) /\ DemandTurn(opt[n], opt'[n], x, n)
            /\ ClockFits(clock'[n], n) /\ DemandTurn(clock[n], clock'[n], x, n)
<1> DEFINE x == workload[time + 1]
<1>1. n \in Nat \ {0, 1} /\ n \in Nat \ {0}
  BY PagingAssumption
<1>2. x \in Page /\ time' = time + 1 /\ time \in Nat
  BY PagingAssumption DEF TypeInv, WorkTyped, Access, NoLocality, Page
<1>3. /\ PagedFits(fifo[n], n) /\ PagedFits(random[n], n) /\ PagedFits(opt[n], n)
      /\ LRUFits(lru[n], n) /\ ClockFits(clock[n], n)
  BY DEF TypeInv, CachesFit
<1>4. fifo'[n] = FIFO(fifo[n], x, n) /\ lru'[n] = LRU(lru[n], x, n)
      /\ opt'[n] = OPT(opt[n], x, n) /\ clock'[n] = Clock(clock[n], x, n)
  BY DEF Access
<1>5. PICK index \in 0..(n - 2) : random'[n] = Rand(random[n], x, n, index)
  <2>1. PICK pick \in Indexes : random' = [m \in Sizes |-> Rand(random[m], x, m, pick[m])]
    BY DEF Access
  <2>2. QED
    BY <2>1, IndexInRange
<1> HIDE DEF x
<1>6. PagedFits(fifo'[n], n) /\ DemandTurn(fifo[n], fifo'[n], x, n)
  BY <1>1, <1>2, <1>3, <1>4, FIFOTurn
<1>7. LRUFits(lru'[n], n) /\ DemandTurn(lru[n], lru'[n], x, n)
  BY <1>1, <1>2, <1>3, <1>4, LRUTurn
<1>8. PagedFits(random'[n], n) /\ DemandTurn(random[n], random'[n], x, n)
  BY <1>1, <1>2, <1>3, <1>5, RandTurn
<1>9. PagedFits(opt'[n], n) /\ DemandTurn(opt[n], opt'[n], x, n)
  BY <1>1, <1>2, <1>3, <1>4, OPTTurn
<1>10. ClockFits(clock'[n], n) /\ DemandTurn(clock[n], clock'[n], x, n)
  BY <1>1, <1>2, <1>3, <1>4, ClockTurn
<1>11. QED
  BY <1>1, <1>2, <1>6, <1>7, <1>8, <1>9, <1>10 DEF x

(* A turn adds one hit at most.                                            *)
LEMMA OneHit ==
  ASSUME NEW r, NEW q, NEW x, NEW n, r.hits \in Nat, DemandTurn(r, q, x, n)
  PROVE  q.hits \in {r.hits, r.hits + 1}
BY DEF DemandTurn

(* One access is a turn of each algorithm with each cache size.            *)
LEMMA TypeInvStep ==
  TypeInv /\ [Access]_vars => TypeInv'
<1> SUFFICES ASSUME TypeInv, [Access]_vars PROVE TypeInv'
  OBVIOUS
<1>1. CASE Access
  <2>1. WorkTyped'
    BY <1>1, PagingAssumption DEF Access, TypeInv, WorkTyped, NoLocality
  <2>2. CachesFit'
    BY <1>1, TurnsTaken DEF CachesFit
  <2>3. HitsCounted'
    <3>1. ASSUME NEW n \in Sizes
          PROVE  /\ fifo'[n].hits <= time' /\ random'[n].hits <= time' /\ opt'[n].hits <= time'
                 /\ lru'[n].hits <= time' /\ clock'[n].hits <= time'
      <4>1. /\ fifo[n].hits \in Nat /\ random[n].hits \in Nat /\ opt[n].hits \in Nat
            /\ lru[n].hits \in Nat /\ clock[n].hits \in Nat
        BY DEF TypeInv, CachesFit, PagedFits, PagedRecord, LRUFits, LRURecord,
               ClockFits, ClockRecord
      <4>2. time' = time + 1 /\ time \in Nat
        BY <1>1, TurnsTaken
      <4>3. /\ fifo'[n].hits \in {fifo[n].hits, fifo[n].hits + 1}
            /\ random'[n].hits \in {random[n].hits, random[n].hits + 1}
            /\ opt'[n].hits \in {opt[n].hits, opt[n].hits + 1}
            /\ lru'[n].hits \in {lru[n].hits, lru[n].hits + 1}
            /\ clock'[n].hits \in {clock[n].hits, clock[n].hits + 1}
        BY <1>1, <4>1, TurnsTaken, OneHit
      <4>4. /\ fifo[n].hits <= time /\ random[n].hits <= time /\ opt[n].hits <= time
            /\ lru[n].hits <= time /\ clock[n].hits <= time
        BY DEF TypeInv, HitsCounted
      <4>5. QED
        BY <4>1, <4>2, <4>3, <4>4
    <3>2. QED
      BY <3>1 DEF HitsCounted
  <2>4. QED
    BY <2>1, <2>2, <2>3 DEF TypeInv
<1>2. CASE UNCHANGED vars
  BY <1>2 DEF vars, caches, TypeInv, WorkTyped, CachesFit, HitsCounted
<1>3. QED
  BY <1>1, <1>2

(* The type invariant that is checked follows from the inductive one.      *)
LEMMA TypeInvIsTypeOK ==
  TypeInv => TypeOK
<1> SUFFICES ASSUME TypeInv PROVE TypeOK
  OBVIOUS
<1>1. workload \in NoLocality /\ time \in 0..Accesses
  BY DEF TypeInv, WorkTyped
<1>2. ASSUME NEW n \in Sizes, NEW a \in 1..5
      PROVE  LET r == States[n][a]
             IN /\ r.cache \in Seq(1..Pages) /\ Len(r.cache) <= n /\ IsInjective(r.cache)
                /\ r.hits \in 0..time
  <2>1. a = 1 \/ a = 2 \/ a = 3 \/ a = 4 \/ a = 5
    OBVIOUS
  <2>2. States[n] = <<fifo[n], lru[n], random[n], opt[n], clock[n]>>
    BY DEF States
  <2>3. \A r \in {fifo[n], lru[n], random[n], opt[n], clock[n]} :
          Fits(r, n) /\ r.hits \in Nat /\ r.hits <= time
    BY DEF TypeInv, CachesFit, HitsCounted, PagedFits, PagedRecord, LRUFits, LRURecord,
           ClockFits, ClockRecord
  <2>4. States[n][a] \in {fifo[n], lru[n], random[n], opt[n], clock[n]}
    BY <2>1, <2>2
  <2>5. Fits(States[n][a], n) /\ States[n][a].hits \in Nat /\ States[n][a].hits <= time
    BY <2>3, <2>4
  <2>6. QED
    BY <1>1, <2>5 DEF Fits, Page
<1>3. ASSUME NEW n \in Sizes
      PROVE  /\ lru[n].keys = Range(lru[n].cache)
             /\ clock[n].bits \in [Range(clock[n].cache) -> BOOLEAN]
             /\ clock[n].hand \in 0..(n - 1)
  BY DEF TypeInv, CachesFit, LRUFits, ClockFits
<1>4. QED
  BY <1>1, <1>2, <1>3 DEF TypeOK

(* The caches stay in their types: no algorithm ever holds a page twice or *)
(* more pages than its size, LRU's map has the keys of its list, and the   *)
(* clock has a use bit for just the pages it holds, whatever the workload. *)
THEOREM TypeCorrect ==
  Spec => []TypeOK
<1>1. Init => TypeInv
  BY TypeInvInit
<1>2. TypeInv /\ [Access]_vars => TypeInv'
  BY TypeInvStep
<1>3. TypeInv => TypeOK
  BY TypeInvIsTypeOK
<1>4. QED
  BY <1>1, <1>2, <1>3, PTL DEF Spec

-----------------------------------------------------------------------------
(* Demand paging: what DemandPaging promises of a step, each algorithm     *)
(* does.                                                                   *)

(* The cache of algorithm a of size n, before and after an access.         *)
LEMMA StatesTurn ==
  ASSUME TypeInv, Access, NEW n \in Sizes, NEW a \in 1..5
  PROVE  /\ Fits(States[n][a], n) /\ States[n][a].hits \in Nat
         /\ Fits((States[n][a])', n)
         /\ DemandTurn(States[n][a], (States[n][a])', workload[time + 1], n)
<1> DEFINE x == workload[time + 1]
<1>1. /\ States[n] = <<fifo[n], lru[n], random[n], opt[n], clock[n]>>
      /\ States'[n] = <<fifo'[n], lru'[n], random'[n], opt'[n], clock'[n]>>
  BY DEF States
<1>2. \A r \in {fifo[n], lru[n], random[n], opt[n], clock[n]} : Fits(r, n) /\ r.hits \in Nat
  BY DEF TypeInv, CachesFit, PagedFits, PagedRecord, LRUFits, LRURecord, ClockFits, ClockRecord
<1>3. /\ Fits(fifo'[n], n) /\ DemandTurn(fifo[n], fifo'[n], x, n)
      /\ Fits(lru'[n], n) /\ DemandTurn(lru[n], lru'[n], x, n)
      /\ Fits(random'[n], n) /\ DemandTurn(random[n], random'[n], x, n)
      /\ Fits(opt'[n], n) /\ DemandTurn(opt[n], opt'[n], x, n)
      /\ Fits(clock'[n], n) /\ DemandTurn(clock[n], clock'[n], x, n)
  BY TurnsTaken DEF PagedFits, LRUFits, ClockFits
<1> HIDE DEF x
<1>4. CASE a = 1
  BY <1>1, <1>2, <1>3, <1>4 DEF x
<1>5. CASE a = 2
  BY <1>1, <1>2, <1>3, <1>5 DEF x
<1>6. CASE a = 3
  BY <1>1, <1>2, <1>3, <1>6 DEF x
<1>7. CASE a = 4
  BY <1>1, <1>2, <1>3, <1>7 DEF x
<1>8. CASE a = 5
  BY <1>1, <1>2, <1>3, <1>8 DEF x
<1>9. QED
  BY <1>4, <1>5, <1>6, <1>7, <1>8

(* DemandPaging counts the pages held with a Cardinality of its own.       *)
LEMMA SameCardinality ==
  ASSUME NEW S
  PROVE  Demand!Cardinality(S) = Cardinality(S)
BY DEF Demand!Cardinality, Cardinality

(* The caches start as those of the abstract specification.                *)
LEMMA DemandInit ==
  Init => Demand!Init
<1> SUFFICES ASSUME Init PROVE Demand!Init
  OBVIOUS
<1>1. ASSUME NEW c \in AllCaches
      PROVE  Range(States[c[2]][c[1]].cache) = {} /\ States[c[2]][c[1]].hits = 0
  <2>1. c[2] \in Sizes /\ c[1] \in 1..5
    BY DEF AllCaches
  <2>2. PICK n \in Sizes, a \in 1..5 : n = c[2] /\ a = c[1]
    BY <2>1
  <2>3. /\ fifo[n].cache = << >> /\ lru[n].cache = << >> /\ random[n].cache = << >>
        /\ opt[n].cache = << >> /\ clock[n].cache = << >>
        /\ fifo[n].hits = 0 /\ lru[n].hits = 0 /\ random[n].hits = 0
        /\ opt[n].hits = 0 /\ clock[n].hits = 0
    BY DEF Init
  <2>4. States[n] = <<fifo[n], lru[n], random[n], opt[n], clock[n]>>
    BY DEF States
  <2>5. States[n][a].cache = << >> /\ States[n][a].hits = 0
    <3>1. a = 1 \/ a = 2 \/ a = 3 \/ a = 4 \/ a = 5
      OBVIOUS
    <3>2. QED
      BY <2>3, <2>4, <3>1
  <2>6. Range(<< >>) = {}
    BY DEF Range
  <2>7. QED
    BY <2>2, <2>5, <2>6
<1>2. time = 0
  BY DEF Init
<1>3. QED
  BY <1>1, <1>2 DEF Demand!Init

(* An access is one step of demand paging, for all algorithms and sizes at *)
(* once.                                                                   *)
LEMMA DemandStep ==
  TypeInv /\ [Access]_vars => [Demand!Access]_(Demand!vars)
<1> SUFFICES ASSUME TypeInv, [Access]_vars PROVE [Demand!Access]_(Demand!vars)
  OBVIOUS
<1> DEFINE x == workload[time + 1]
           held == [c \in AllCaches |-> Range(States[c[2]][c[1]].cache)]
           hits == [c \in AllCaches |-> States[c[2]][c[1]].hits]
<1>1. CASE Access
  <2>1. time < Accesses /\ time' = time + 1 /\ UNCHANGED workload
    BY <1>1 DEF Access
  <2>2. ASSUME NEW c \in AllCaches
        PROVE Demand!Hit(c, x) \/ Demand!Load(c, x) \/ Demand!Replace(c, x) \/ Demand!Bypass(c, x)
    <3>1. PICK n \in Sizes, a \in 1..5 : n = c[2] /\ a = c[1]
      BY DEF AllCaches
    <3> DEFINE r == States[n][a]
    <3>2. /\ held[c] = Range(r.cache) /\ hits[c] = r.hits
          /\ held'[c] = Range(r'.cache) /\ hits'[c] = r'.hits
      BY <3>1
    <3>3. Fits(r, n) /\ DemandTurn(r, r', x, n)
      BY <1>1, StatesTurn
    <3>4. Cardinality(held[c]) = Len(r.cache)
      BY <3>2, <3>3, LengthIsCardinality DEF Fits
    <3> HIDE DEF r, held, hits, x
    <3>5. CASE Hits(r, r', x) /\ r'.hits = r.hits + 1
      <4>1. x \in held[c] /\ held'[c] = held[c] /\ hits'[c] = hits[c] + 1
        BY <3>2, <3>5 DEF Hits
      <4>2. Demand!Hit(c, x)
        BY <4>1 DEF Demand!Hit, held, hits
      <4>3. QED
        BY <4>2
    <3>6. CASE x \notin Range(r.cache) /\ r'.hits = r.hits /\ Loads(r, r', x, n)
      <4>1. /\ x \notin held[c] /\ Cardinality(held[c]) < n
            /\ held'[c] = held[c] \cup {x} /\ hits'[c] = hits[c]
        BY <3>2, <3>4, <3>6 DEF Loads
      <4>2. Demand!Load(c, x)
        BY <3>1, <4>1, SameCardinality DEF Demand!Load, held, hits
      <4>3. QED
        BY <4>2
    <3>7. CASE x \notin Range(r.cache) /\ r'.hits = r.hits /\ Replaces(r, r', x, n)
      <4>1. /\ x \notin held[c] /\ Cardinality(held[c]) = n
            /\ \E victim \in held[c] : held'[c] = (held[c] \ {victim}) \cup {x}
            /\ hits'[c] = hits[c]
        BY <3>2, <3>4, <3>7 DEF Replaces
      <4>2. Demand!Replace(c, x)
        BY <3>1, <4>1, SameCardinality DEF Demand!Replace, held, hits
      <4>3. QED
        BY <4>2
    <3>8. CASE x \notin Range(r.cache) /\ r'.hits = r.hits /\ Passes(r, r', n)
      <4>1. /\ x \notin held[c] /\ Cardinality(held[c]) = n /\ time + 1 = Accesses
            /\ held'[c] = held[c] /\ hits'[c] = hits[c]
        BY <3>2, <3>4, <3>8 DEF Passes
      <4>2. Demand!Bypass(c, x)
        BY <3>1, <4>1, SameCardinality DEF Demand!Bypass, held, hits
      <4>3. QED
        BY <4>2
    <3>9. QED
      BY <3>3, <3>5, <3>6, <3>7, <3>8 DEF DemandTurn
  <2>3. QED
    BY <2>1, <2>2 DEF Demand!Access
<1>2. CASE UNCHANGED vars
  BY <1>2 DEF vars, caches, Demand!vars, States
<1>3. QED
  BY <1>1, <1>2

(* All five algorithms implement demand paging: a page is loaded only when *)
(* it is accessed and missing, at the cost of one page at most, and of     *)
(* none while there is room; only the last access may load nothing.        *)
THEOREM ImplementsDemandPaging ==
  Spec => DemandSpec
<1>1. Init => TypeInv /\ Demand!Init
  BY TypeInvInit, DemandInit
<1>2. TypeInv /\ [Access]_vars => TypeInv' /\ [Demand!Access]_(Demand!vars)
  BY TypeInvStep, DemandStep
<1>3. QED
  BY <1>1, <1>2, PTL DEF Spec, DemandSpec, Demand!Spec

-----------------------------------------------------------------------------
(* Caches that are large enough.  Until the pages seen are too many, each  *)
(* cache holds just these; that is what makes ColdMissesOnly inductive.    *)

Seen == {workload[k] : k \in 1..time}

Cold(r, seen, n, t) ==
  Cardinality(seen) <= n => Range(r.cache) = seen /\ r.hits = t - Cardinality(seen)

ColdInv == \A n \in Sizes, a \in 1..5 : Cold(States[n][a], Seen, n, time)

(* A miss while there is room is the first use of its page.                *)
LEMMA ColdTurn ==
  ASSUME NEW n \in Nat, NEW r, NEW q, NEW x, NEW seen, IsFiniteSet(seen), NEW t \in Nat,
         Fits(r, n), r.hits \in Nat, DemandTurn(r, q, x, n), Cold(r, seen, n, t)
  PROVE  Cold(q, seen \cup {x}, n, t + 1)
<1> DEFINE after == seen \cup {x}
<1>1. /\ Cardinality(seen) \in Nat
      /\ Cardinality(after) = IF x \in seen THEN Cardinality(seen) ELSE Cardinality(seen) + 1
  BY FS_CardinalityType, FS_AddElement
<1>2. x \in seen => after = seen
  OBVIOUS
<1> HIDE DEF after
<1>3. ASSUME Cardinality(after) <= n
      PROVE  Range(q.cache) = after /\ q.hits = (t + 1) - Cardinality(after)
  <2>1. Range(r.cache) = seen /\ r.hits = t - Cardinality(seen)
    BY <1>1, <1>3 DEF Cold
  <2>2. Len(r.cache) = Cardinality(seen)
    BY <2>1, LengthIsCardinality DEF Fits
  <2>3. CASE x \in seen
    <3>1. Range(q.cache) = Range(r.cache) /\ q.hits = r.hits + 1
      BY <2>1, <2>3 DEF DemandTurn, Hits
    <3>2. QED
      BY <1>1, <1>2, <2>1, <2>3, <3>1
  <2>4. CASE x \notin seen
    <3>1. Len(r.cache) < n
      BY <1>1, <1>3, <2>2, <2>4
    <3>2. Range(q.cache) = after /\ q.hits = r.hits
      BY <1>1, <2>1, <2>2, <2>4, <3>1 DEF DemandTurn, Hits, Loads, Replaces, Passes, after
    <3>3. QED
      BY <1>1, <2>1, <2>4, <3>2
  <2>5. QED
    BY <2>3, <2>4
<1>4. QED
  BY <1>3 DEF Cold, after

(* The pages seen grow by the one accessed.                                *)
LEMMA SeenIs ==
  ASSUME TypeInv
  PROVE  IsFiniteSet(Seen) /\ (Access => Seen' = Seen \cup {workload[time + 1]})
<1>1. time \in 0..Accesses /\ Accesses \in Nat /\ Pages \in Nat /\ workload \in [1..Accesses -> Page]
  BY PagingAssumption DEF TypeInv, WorkTyped, NoLocality, Page
<1>2. Seen \in SUBSET Page
  BY <1>1 DEF Seen
<1>3. IsFiniteSet(Page)
  BY <1>1, FS_Interval DEF Page
<1>4. ASSUME Access PROVE Seen' = Seen \cup {workload[time + 1]}
  <2>1. time' = time + 1 /\ workload' = workload
    BY <1>4 DEF Access
  <2>2. 1..(time + 1) = (1..time) \cup {time + 1}
    BY <1>1
  <2>3. QED
    BY <2>1, <2>2 DEF Seen
<1>5. QED
  BY <1>2, <1>3, <1>4, FS_Subset

(* Nothing is seen, and nothing missed, at the start.                      *)
LEMMA ColdInit ==
  Init => ColdInv
<1> SUFFICES ASSUME Init, NEW n \in Sizes, NEW a \in 1..5
             PROVE  Cold(States[n][a], Seen, n, time)
  BY DEF ColdInv
<1>1. time = 0 /\ Seen = {}
  BY DEF Init, Seen
<1>2. States[n][a].cache = << >> /\ States[n][a].hits = 0
  <2>1. /\ fifo[n].cache = << >> /\ lru[n].cache = << >> /\ random[n].cache = << >>
        /\ opt[n].cache = << >> /\ clock[n].cache = << >>
        /\ fifo[n].hits = 0 /\ lru[n].hits = 0 /\ random[n].hits = 0
        /\ opt[n].hits = 0 /\ clock[n].hits = 0
    BY DEF Init
  <2>2. States[n] = <<fifo[n], lru[n], random[n], opt[n], clock[n]>>
    BY DEF States
  <2>3. a = 1 \/ a = 2 \/ a = 3 \/ a = 4 \/ a = 5
    OBVIOUS
  <2>4. QED
    BY <2>1, <2>2, <2>3
<1>3. Range(<< >>) = {} /\ Cardinality({}) = 0
  BY FS_EmptySet DEF Range
<1>4. QED
  BY <1>1, <1>2, <1>3 DEF Cold

(* The accesses of each algorithm go on counting cold misses.              *)
LEMMA ColdStep ==
  TypeInv /\ ColdInv /\ [Access]_vars => ColdInv'
<1> SUFFICES ASSUME TypeInv, ColdInv, [Access]_vars PROVE ColdInv'
  OBVIOUS
<1>1. CASE Access
  <2>1. ASSUME NEW n \in Sizes, NEW a \in 1..5
        PROVE  Cold((States[n][a])', Seen', n, time')
    <3>1. n \in Nat /\ time' = time + 1 /\ time \in Nat
      BY <1>1, TurnsTaken
    <3>2. /\ Fits(States[n][a], n) /\ States[n][a].hits \in Nat
          /\ DemandTurn(States[n][a], (States[n][a])', workload[time + 1], n)
      BY <1>1, StatesTurn
    <3>3. IsFiniteSet(Seen) /\ Seen' = Seen \cup {workload[time + 1]}
      BY <1>1, SeenIs
    <3>4. Cold(States[n][a], Seen, n, time)
      BY DEF ColdInv
    <3>5. Cold((States[n][a])', Seen \cup {workload[time + 1]}, n, time + 1)
      BY <3>1, <3>2, <3>3, <3>4, ColdTurn
    <3>6. QED
      BY <3>1, <3>3, <3>5
  <2>2. QED
    BY <2>1 DEF ColdInv
<1>2. CASE UNCHANGED vars
  BY <1>2 DEF vars, caches, ColdInv, Cold, States, Seen
<1>3. QED
  BY <1>1, <1>2

(* As long as the pages of the workload fit the cache, every algorithm     *)
(* misses the first use of each and nothing else.                          *)
THEOREM OnlyColdMisses ==
  Spec => []ColdMissesOnly
<1>1. Init => TypeInv /\ ColdInv
  BY TypeInvInit, ColdInit
<1>2. TypeInv /\ ColdInv /\ [Access]_vars => TypeInv' /\ ColdInv'
  BY TypeInvStep, ColdStep
<1>3. ColdInv => ColdMissesOnly
  BY DEF ColdInv, Cold, ColdMissesOnly, Seen
<1>4. QED
  BY <1>1, <1>2, <1>3, PTL DEF Spec

-----------------------------------------------------------------------------
(* FIFO and Rand.                                                          *)

(* Replacing any page but the last one spares the last one.                *)
LEMMA NewestStays ==
  ASSUME NEW n \in Nat \ {0}, NEW r, PagedFits(r, n), r.cache # << >>,
         NEW x \in Page, NEW k, NEW q, Takes(r, q, x, n, k),
         Full(r, n) => k < n
  PROVE  r.cache[Len(r.cache)] \in Range(q.cache)
<1> DEFINE c == r.cache
           l == Len(c)
<1>1. /\ r \in PagedRecord /\ c \in Seq(Page) /\ l \in Nat \ {0} /\ l <= n
      /\ IsInjective(c) /\ DOMAIN c = 1..l
  BY DEF PagedFits, Fits
<1>2. c[l] \in Range(c)
  BY <1>1 DEF Range
<1>3. CASE Present(r, x)
  <2>1. q.cache = c
    BY <1>1, <1>3 DEF Takes, Counted, PagedRecord
  <2>2. QED
    BY <1>2, <2>1
<1>4. CASE ~Present(r, x) /\ Full(r, n)
  <2>1. k \in 1..l /\ l = n /\ k # l /\ x \notin Range(c)
    BY <1>1, <1>4 DEF Takes, Full, Present
  <2>2. q.cache = Replaced(c, k, x)
    BY <1>1, <1>4 DEF Takes, PagedRecord
  <2>3. Range(q.cache) = (Range(c) \ {c[k]}) \cup {x}
    BY <1>1, <2>1, <2>2, ReplacedHolds
  <2>4. c[k] # c[l]
    BY <1>1, <2>1 DEF IsInjective
  <2>5. QED
    BY <1>2, <2>3, <2>4
<1>5. CASE ~Present(r, x) /\ ~Full(r, n)
  <2>1. q.cache = Append(c, x) /\ x \notin Range(c)
    BY <1>1, <1>5 DEF Takes, PagedRecord, Present
  <2>2. Range(q.cache) = Range(c) \cup {x}
    BY <1>1, <2>1, AppendHolds
  <2>3. QED
    BY <1>2, <2>2
<1>6. QED
  BY <1>3, <1>4, <1>5

(* No step of FIFO or Rand evicts the page that was loaded last: FIFO      *)
(* takes the first of two or more, and Rand never draws the last index.    *)
THEOREM NewestIsSpared ==
  Spec => NewestSpared
<1> DEFINE Spared ==
      \A n \in Sizes :
        /\ fifo[n].cache # << >> =>
             fifo[n].cache[Len(fifo[n].cache)] \in Range(fifo'[n].cache)
        /\ random[n].cache # << >> =>
             random[n].cache[Len(random[n].cache)] \in Range(random'[n].cache)
<1>1. TypeInv /\ [Access]_vars => [Spared]_vars
  <2> SUFFICES ASSUME TypeInv, Access PROVE Spared
    OBVIOUS
  <2> SUFFICES ASSUME NEW n \in Sizes
               PROVE  /\ fifo[n].cache # << >> =>
                           fifo[n].cache[Len(fifo[n].cache)] \in Range(fifo'[n].cache)
                      /\ random[n].cache # << >> =>
                           random[n].cache[Len(random[n].cache)] \in Range(random'[n].cache)
    OBVIOUS
  <2> DEFINE x == workload[time + 1]
  <2>1. n \in Nat \ {0, 1} /\ n \in Nat \ {0} /\ x \in Page
    BY TurnsTaken
  <2>2. PagedFits(fifo[n], n) /\ PagedFits(random[n], n)
    BY DEF TypeInv, CachesFit
  <2>3. Takes(fifo[n], fifo'[n], x, n, 1)
    BY <2>1 DEF Access, FIFO, Takes, Full
  <2>4. PICK index \in 0..(n - 2) : Takes(random[n], random'[n], x, n, index + 1)
    <3>1. PICK pick \in Indexes : random' = [m \in Sizes |-> Rand(random[m], x, m, pick[m])]
      BY DEF Access
    <3>2. pick[n] \in 0..(n - 2)
      BY IndexInRange
    <3>3. random'[n] = Rand(random[n], x, n, pick[n])
      BY <3>1
    <3>4. Takes(random[n], random'[n], x, n, pick[n] + 1)
      BY <2>1, <3>2, <3>3 DEF Rand, Takes, Full
    <3>5. QED
      BY <3>2, <3>4
  <2> HIDE DEF x
  <2>5. 1 < n /\ index + 1 < n
    BY <2>1
  <2>6. QED
    BY <2>1, <2>2, <2>3, <2>4, <2>5, NewestStays
<1>2. Init => TypeInv
  BY TypeInvInit
<1>3. TypeInv /\ [Access]_vars => TypeInv'
  BY TypeInvStep
<1>4. QED
  BY <1>1, <1>2, <1>3, PTL DEF Spec, NewestSpared

-----------------------------------------------------------------------------
(* LRU.  How its list changes at an access of x: from s to t, with x       *)
(* coming from the p-th place of s, or else from the last place a list of  *)
(* n pages has or from behind.                                             *)

LRUShift(s, t, p, x, n) ==
  /\ Len(s) <= n /\ p <= n
  /\ IsInjective(s) /\ IsInjective(t)
  /\ Len(t) = (IF p <= Len(s) THEN Len(s) ELSE p)
  /\ t[1] = x
  /\ \A i \in 2..Len(t) : /\ i <= p => t[i] = s[i - 1]
                          /\ i > p => t[i] = s[i]
  /\ \/ x \in Range(s) /\ p <= Len(s) /\ s[p] = x
     \/ /\ x \notin Range(s)
        /\ (Len(s) = n => p = n) /\ (Len(s) # n => p = Len(s) + 1)

(* An access moves each LRU cache in this way, with p where the page was   *)
(* found, or where there was room for it or the oldest lay.                *)
LEMMA LRUShifts ==
  ASSUME TypeInv, Access, NEW n \in Sizes
  PROVE  /\ lru[n].cache \in Seq(Page) /\ lru'[n].cache \in Seq(Page)
         /\ lru[n].hits \in Nat
         /\ lru'[n].hits = IF workload[time + 1] \in Range(lru[n].cache)
                           THEN lru[n].hits + 1 ELSE lru[n].hits
         /\ \E p \in Nat \ {0} :
              LRUShift(lru[n].cache, lru'[n].cache, p, workload[time + 1], n)
<1> DEFINE x == workload[time + 1]
           r == lru[n]
           q == LRU(r, x, n)
           s == r.cache
           t == q.cache
           p == LRUPlace(r, x, n)
<1>1. n \in Nat \ {0} /\ x \in Page /\ lru'[n] = q
  BY TurnsTaken DEF Access
<1>2. LRUFits(r, n)
  BY DEF TypeInv, CachesFit
<1>3. /\ LRUFits(q, n) /\ t = Moved(s, p, x)
      /\ q.hits = IF x \in r.keys THEN r.hits + 1 ELSE r.hits
  <2> HIDE DEF x, r
  <2>1. QED
    BY <1>1, <1>2, LRUTurn
<1>4. /\ p \in 1..(Len(s) + 1) /\ p <= n
      /\ x \in r.keys => p \in 1..Len(s) /\ s[p] = x
      /\ x \notin r.keys => p = IF Full(r, n) THEN Len(s) ELSE Len(s) + 1
  <2> HIDE DEF x, r
  <2>1. QED
    BY <1>1, <1>2, LRUPlaceIs
<1>5. /\ s \in Seq(Page) /\ Len(s) \in 0..n /\ IsInjective(s) /\ r.keys = Range(s)
      /\ t \in Seq(Page) /\ IsInjective(t) /\ r.hits \in Nat
  BY <1>1, <1>2, <1>3 DEF LRUFits, LRURecord, Fits
<1> HIDE DEF x, r, q, p
<1>6. PICK k \in 1..(Len(s) + 1) : k = p
  BY <1>4
<1>7. /\ Len(t) = (IF k <= Len(s) THEN Len(s) ELSE k)
      /\ \A i \in 1..Len(t) : t[i] = IF i = 1 THEN x ELSE s[IF i <= k THEN i - 1 ELSE i]
  <2> HIDE DEF s, t
  <2>1. /\ Len(Moved(s, k, x)) = (IF k <= Len(s) THEN Len(s) ELSE k)
        /\ \A i \in 1..Len(Moved(s, k, x)) :
             Moved(s, k, x)[i] = IF i = 1 THEN x ELSE s[IF i <= k THEN i - 1 ELSE i]
    BY <1>1, <1>5, <1>6, MovedIs
  <2>2. t = Moved(s, k, x)
    BY <1>3, <1>6
  <2>3. QED
    BY <2>1, <2>2
<1>8. k \in Nat \ {0} /\ Len(t) \in Nat \ {0} /\ Len(s) \in Nat
  BY <1>5, <1>6, <1>7
<1>9. LRUShift(s, t, k, x, n)
  <2>1. \/ x \in Range(s) /\ k <= Len(s) /\ s[k] = x
        \/ /\ x \notin Range(s)
           /\ (Len(s) = n => k = n) /\ (Len(s) # n => k = Len(s) + 1)
    BY <1>4, <1>5, <1>6, <1>8 DEF Full
  <2>2. t[1] = x
    BY <1>7, <1>8
  <2>3. ASSUME NEW i \in 2..Len(t)
        PROVE  (i <= k => t[i] = s[i - 1]) /\ (i > k => t[i] = s[i])
    BY <1>7, <1>8
  <2>4. Len(s) <= n /\ k <= n
    BY <1>4, <1>5, <1>6
  <2> HIDE DEF s, t
  <2>5. QED
    BY <1>5, <1>7, <2>1, <2>2, <2>3, <2>4 DEF LRUShift
<1>10. QED
  BY <1>1, <1>3, <1>5, <1>8, <1>9 DEF x, r

-----------------------------------------------------------------------------
(* LRU in caches of several sizes.                                         *)

Prefix(s, t) == Len(s) <= Len(t) /\ \A k \in 1..Len(s) : s[k] = t[k]

(* The same access keeps the list of the smaller cache a prefix of the     *)
(* other: x never comes from further back in the smaller one.              *)
LEMMA PrefixKept ==
  ASSUME NEW m \in Nat, NEW n \in Nat, m <= n, NEW x \in Page,
         NEW s \in Seq(Page), NEW s2 \in Seq(Page), NEW t \in Seq(Page), NEW t2 \in Seq(Page),
         NEW p \in Nat \ {0}, NEW q \in Nat \ {0},
         Prefix(s, t), LRUShift(s, s2, p, x, m), LRUShift(t, t2, q, x, n)
  PROVE  Prefix(s2, t2) /\ (x \in Range(s) => x \in Range(t))
<1>1. DOMAIN s = 1..Len(s) /\ DOMAIN t = 1..Len(t)
  OBVIOUS
<1>2. Len(s) \in Nat /\ Len(t) \in Nat /\ Len(s2) \in Nat /\ Len(t2) \in Nat
  OBVIOUS
<1>3. /\ Len(s) <= Len(t) /\ Len(s) <= m /\ Len(t) <= n /\ p <= m /\ q <= n
      /\ \A k \in 1..Len(s) : s[k] = t[k]
  BY DEF Prefix, LRUShift
<1>4. x \in Range(s) => p <= Len(s) /\ s[p] = x
  BY DEF LRUShift
<1>5. x \in Range(t) => q <= Len(t) /\ t[q] = x
  BY DEF LRUShift
<1>6. x \notin Range(s) => (Len(s) = m => p = m) /\ (Len(s) # m => p = Len(s) + 1)
  BY DEF LRUShift
<1>7. x \notin Range(t) => (Len(t) = n => q = n) /\ (Len(t) # n => q = Len(t) + 1)
  BY DEF LRUShift
<1>8. ASSUME x \in Range(s) PROVE x \in Range(t) /\ q = p
  <2>1. p \in 1..Len(s) /\ p \in 1..Len(t) /\ t[p] = x
    BY <1>2, <1>3, <1>4, <1>8
  <2>2. x \in Range(t)
    BY <1>1, <1>2, <2>1 DEF Range
  <2>3. q \in 1..Len(t) /\ t[q] = x
    BY <1>2, <1>5, <2>2
  <2>4. IsInjective(t)
    BY DEF LRUShift
  <2>5. q = p
    BY <1>1, <1>2, <2>1, <2>3, <2>4 DEF IsInjective
  <2>6. QED
    BY <2>2, <2>5
<1>9. ASSUME x \notin Range(s) PROVE p <= q /\ p >= Len(s)
  <2>1. p >= Len(s) /\ p <= Len(s) + 1 /\ (Len(s) = m => p = m)
    <3>1. (Len(s) = m => p = m) /\ (Len(s) # m => p = Len(s) + 1)
      BY <1>6, <1>9
    <3>2. QED
      BY <1>2, <1>3, <3>1
  <2>2. CASE x \in Range(t)
    <3>1. q \in 1..Len(t) /\ t[q] = x
      BY <1>2, <1>5, <2>2
    <3>2. CASE q <= Len(s)
      <4>1. q \in 1..Len(s) /\ s[q] = x
        BY <1>2, <1>3, <3>1, <3>2
      <4>2. QED
        BY <1>1, <1>2, <1>9, <4>1 DEF Range
    <3>3. CASE q > Len(s)
      BY <1>2, <2>1, <3>1, <3>3
    <3>4. QED
      BY <1>2, <3>1, <3>2, <3>3
  <2>3. CASE x \notin Range(t)
    <3>1. CASE Len(t) = n
      <4>1. q = n
        BY <1>7, <2>3, <3>1
      <4>2. QED
        BY <1>3, <2>1, <4>1
    <3>2. CASE Len(t) # n
      <4>1. q = Len(t) + 1
        BY <1>7, <2>3, <3>2
      <4>2. QED
        BY <1>2, <1>3, <2>1, <4>1
    <3>3. QED
      BY <3>1, <3>2
  <2>4. QED
    BY <2>1, <2>2, <2>3
<1>10. p <= q /\ (p < q => p >= Len(s))
  <2>1. CASE x \in Range(s)
    BY <1>8, <2>1
  <2>2. QED
    BY <1>9, <2>1
<1>11. /\ Len(s2) = (IF p <= Len(s) THEN Len(s) ELSE p)
       /\ Len(t2) = (IF q <= Len(t) THEN Len(t) ELSE q)
  BY DEF LRUShift
<1>12. Len(s2) <= Len(t2) /\ p <= Len(s) + 1 /\ p <= Len(s2)
  <2>1. p <= Len(s) + 1
    BY <1>2, <1>4, <1>6
  <2>2. QED
    BY <1>2, <1>3, <1>10, <1>11, <2>1
<1>13. ASSUME NEW k \in 1..Len(s2) PROVE s2[k] = t2[k]
  <2>1. k \in Nat
    BY <1>2
  <2>2. CASE k = 1
    BY <2>2 DEF LRUShift
  <2>3. CASE k # 1 /\ k <= p
    <3>1. k \in 2..Len(s2) /\ k \in 2..Len(t2) /\ k <= q /\ k - 1 \in 1..Len(s)
      BY <1>2, <1>10, <1>12, <2>1, <2>3
    <3>2. s2[k] = s[k - 1] /\ t2[k] = t[k - 1]
      BY <2>3, <3>1 DEF LRUShift
    <3>3. QED
      BY <1>3, <3>1, <3>2
  <2>4. CASE k > p
    <3>1. k \in 2..Len(s2) /\ k \in 2..Len(t2) /\ k > q /\ k \in 1..Len(s)
      BY <1>2, <1>10, <1>11, <1>12, <2>1, <2>4
    <3>2. s2[k] = s[k] /\ t2[k] = t[k]
      BY <2>4, <3>1 DEF LRUShift
    <3>3. QED
      BY <1>3, <3>1, <3>2
  <2>5. QED
    BY <2>1, <2>2, <2>3, <2>4
<1>14. QED
  BY <1>8, <1>12, <1>13 DEF Prefix

(* A prefix, as LruInclusion has it.                                       *)
LEMMA PrefixIs ==
  ASSUME NEW s \in Seq(Page), NEW t \in Seq(Page)
  PROVE  Prefix(s, t) <=> \A k \in DOMAIN s : k \in DOMAIN t /\ s[k] = t[k]
<1>1. Len(s) \in Nat /\ Len(t) \in Nat /\ DOMAIN s = 1..Len(s) /\ DOMAIN t = 1..Len(t)
  OBVIOUS
<1>2. ASSUME \A k \in DOMAIN s : k \in DOMAIN t PROVE Len(s) <= Len(t)
  <2>1. CASE Len(s) = 0
    BY <1>1, <2>1
  <2>2. CASE Len(s) # 0
    BY <1>1, <1>2, <2>2
  <2>3. QED
    BY <2>1, <2>2
<1>3. Len(s) <= Len(t) => \A k \in DOMAIN s : k \in DOMAIN t
  BY <1>1
<1>4. QED
  BY <1>1, <1>2, <1>3 DEF Prefix

(* The smaller cache stays the front of the larger one in every step.      *)
LEMMA InclusionStep ==
  TypeInv /\ LruInclusion /\ [Access]_vars => LruInclusion'
<1> SUFFICES ASSUME TypeInv, LruInclusion, [Access]_vars PROVE LruInclusion'
  OBVIOUS
<1>1. CASE Access
  <2>1. ASSUME NEW m \in Sizes, NEW n \in Sizes, m <= n
        PROVE  /\ \A k \in DOMAIN lru'[m].cache :
                    k \in DOMAIN lru'[n].cache /\ lru'[m].cache[k] = lru'[n].cache[k]
               /\ lru'[m].hits <= lru'[n].hits
    <3> DEFINE x == workload[time + 1]
    <3>1. Prefix(lru[m].cache, lru[n].cache) /\ lru[m].hits <= lru[n].hits
      <4>1. lru[m].cache \in Seq(Page) /\ lru[n].cache \in Seq(Page)
        BY <1>1, LRUShifts
      <4>2. QED
        BY <2>1, <4>1, PrefixIs DEF LruInclusion
    <3>2. m \in Nat /\ n \in Nat /\ x \in Page
      BY <1>1, TurnsTaken
    <3>3. /\ lru[m].cache \in Seq(Page) /\ lru'[m].cache \in Seq(Page) /\ lru[m].hits \in Nat
          /\ lru'[m].hits = IF x \in Range(lru[m].cache) THEN lru[m].hits + 1 ELSE lru[m].hits
          /\ lru[n].cache \in Seq(Page) /\ lru'[n].cache \in Seq(Page) /\ lru[n].hits \in Nat
          /\ lru'[n].hits = IF x \in Range(lru[n].cache) THEN lru[n].hits + 1 ELSE lru[n].hits
      BY <1>1, LRUShifts
    <3>4. PICK p \in Nat \ {0} : LRUShift(lru[m].cache, lru'[m].cache, p, x, m)
      BY <1>1, LRUShifts
    <3>5. PICK q \in Nat \ {0} : LRUShift(lru[n].cache, lru'[n].cache, q, x, n)
      BY <1>1, LRUShifts
    <3> DEFINE s  == lru[m].cache
               s2 == lru'[m].cache
               t  == lru[n].cache
               t2 == lru'[n].cache
    <3> HIDE DEF x, s, s2, t, t2
    <3>6. /\ s \in Seq(Page) /\ s2 \in Seq(Page) /\ t \in Seq(Page) /\ t2 \in Seq(Page)
          /\ Prefix(s, t) /\ LRUShift(s, s2, p, x, m) /\ LRUShift(t, t2, q, x, n)
      BY <3>1, <3>3, <3>4, <3>5 DEF s, s2, t, t2
    <3>7. Prefix(s2, t2) /\ (x \in Range(s) => x \in Range(t))
      BY <2>1, <3>2, <3>4, <3>5, <3>6, PrefixKept
    <3>8. lru'[m].hits <= lru'[n].hits
      BY <3>1, <3>3, <3>7 DEF s, t
    <3>9. QED
      BY <3>6, <3>7, <3>8, PrefixIs DEF s2, t2
  <2>2. QED
    BY <2>1 DEF LruInclusion
<1>2. CASE UNCHANGED vars
  BY <1>2 DEF vars, caches, LruInclusion
<1>3. QED
  BY <1>1, <1>2

(* A larger LRU cache holds what a smaller one does, in the same order, at *)
(* every moment of every workload, and scores no fewer hits.               *)
THEOREM InclusionHolds ==
  Spec => []LruInclusion
<1>1. Init => TypeInv /\ LruInclusion
  <2>1. Init => LruInclusion
    BY DEF Init, LruInclusion
  <2>2. QED
    BY <2>1, TypeInvInit
<1>2. TypeInv /\ LruInclusion /\ [Access]_vars => TypeInv' /\ LruInclusion'
  BY TypeInvStep, InclusionStep
<1>3. QED
  BY <1>1, <1>2, PTL DEF Spec

-----------------------------------------------------------------------------
(* The order of LRU's list.                                                *)

(* An access makes x the page used last, and changes no other last use.    *)
LEMMA LastUseIs ==
  ASSUME TypeInv
  PROVE  /\ \A page \in Page : LastUse(page) \in 0..time
         /\ Access => \A page \in Page :
              (LastUse(page))' = IF page = workload[time + 1] THEN time + 1 ELSE LastUse(page)
<1>1. time \in Nat
  BY PagingAssumption DEF TypeInv, WorkTyped
<1> DEFINE uses(page)  == {0} \cup {k \in 1..time : workload[k] = page}
           uses2(page) == {0} \cup {k \in 1..(time + 1) : workload[k] = page}
<1>2. ASSUME NEW page \in Page PROVE LastUse(page) \in 0..time
  <2>1. uses(page) \in SUBSET Nat /\ 0 \in uses(page) /\ \A k \in uses(page) : k <= time
    BY <1>1
  <2>2. LastUse(page) = Maximum(uses(page))
    BY DEF LastUse
  <2> HIDE DEF uses
  <2>3. Maximum(uses(page)) \in uses(page)
    BY <1>1, <2>1, MaximumIs
  <2>4. QED
    BY <1>1, <2>1, <2>2, <2>3
<1>3. ASSUME Access, NEW page \in Page
      PROVE  (LastUse(page))' = IF page = workload[time + 1] THEN time + 1 ELSE LastUse(page)
  <2>1. (LastUse(page))' = Maximum(uses2(page))
    BY <1>3 DEF Access, LastUse
  <2>2. CASE page = workload[time + 1]
    <3>1. /\ uses2(page) \in SUBSET Nat /\ time + 1 \in uses2(page) /\ time + 1 \in Nat
          /\ \A k \in uses2(page) : k <= time + 1
      BY <1>1, <2>2
    <3> HIDE DEF uses2
    <3>2. /\ Maximum(uses2(page)) \in uses2(page)
          /\ \A k \in uses2(page) : Maximum(uses2(page)) >= k
      BY <3>1, MaximumIs
    <3>3. Maximum(uses2(page)) <= time + 1 /\ Maximum(uses2(page)) >= time + 1
      BY <3>1, <3>2
    <3>4. Maximum(uses2(page)) \in Nat
      BY <3>1, <3>2
    <3>5. Maximum(uses2(page)) = time + 1
      BY <3>1, <3>3, <3>4
    <3>6. QED
      BY <2>1, <2>2, <3>5
  <2>3. CASE page # workload[time + 1]
    <3>1. uses2(page) = uses(page)
      BY <1>1, <2>3
    <3>2. LastUse(page) = Maximum(uses(page))
      BY DEF LastUse
    <3>3. QED
      BY <2>1, <2>3, <3>1, <3>2
  <2>4. QED
    BY <2>2, <2>3
<1>4. QED
  BY <1>2, <1>3

(* The list s of a cache of n pages is in the order of the last uses u,    *)
(* and the pages that have left it were used before all in it.             *)
Newer(s, u) == \A j, k \in 1..Len(s) : j < k => u[s[j]] > u[s[k]]

LeftBefore(s, u, n) ==
  \A page \in Page \ Range(s) : u[page] > 0 => Len(s) = n /\ u[page] < u[s[n]]

(* A page that x displaces is the last one of a full list.                 *)
LEMMA DisplacedIsLast ==
  ASSUME NEW n \in Nat, NEW x \in Page, NEW s \in Seq(Page), NEW t \in Seq(Page),
         NEW p \in Nat \ {0}, LRUShift(s, t, p, x, n),
         NEW page \in Range(s), page \notin Range(t)
  PROVE  Len(s) = n /\ p = n /\ page = s[n] /\ x \notin Range(s)
<1>1. Len(s) \in Nat /\ Len(t) \in Nat
  OBVIOUS
<1>2. DOMAIN s = 1..Len(s) /\ DOMAIN t = 1..Len(t)
  OBVIOUS
<1>3. /\ Len(s) <= n /\ p <= n
      /\ Len(t) = (IF p <= Len(s) THEN Len(s) ELSE p)
      /\ t[1] = x
  BY DEF LRUShift
<1>4. \A k \in 2..Len(t) : (k <= p => t[k] = s[k - 1]) /\ (k > p => t[k] = s[k])
  BY DEF LRUShift
<1>5. PICK i \in 1..Len(s) : page = s[i]
  BY <1>2 DEF Range
<1>6. \A k \in 1..Len(t) : t[k] # page
  BY <1>2 DEF Range
<1>7. i \in Nat
  BY <1>1
<1>8. ~(i < p)
  <2>1. ASSUME i < p PROVE i + 1 \in 2..Len(t) /\ i + 1 <= p
    BY <1>1, <1>3, <1>7, <2>1
  <2>2. ASSUME i < p PROVE t[i + 1] = s[i] /\ i + 1 \in 1..Len(t)
    BY <1>1, <1>4, <1>7, <2>1, <2>2
  <2>3. QED
    BY <1>5, <1>6, <2>2
<1>9. ~(i > p)
  <2>1. ASSUME i > p PROVE i \in 2..Len(t) /\ i \in 1..Len(t)
    BY <1>1, <1>3, <1>7, <2>1
  <2>2. ASSUME i > p PROVE t[i] = s[i]
    BY <1>4, <2>1, <2>2
  <2>3. QED
    BY <1>5, <1>6, <2>1, <2>2
<1>10. i = p /\ page = s[p] /\ p <= Len(s)
  BY <1>1, <1>5, <1>7, <1>8, <1>9
<1>11. x \notin Range(s)
  <2>1. t[1] = x /\ 1 \in 1..Len(t)
    BY <1>1, <1>3, <1>10
  <2>2. x # page
    BY <1>6, <2>1
  <2>3. QED
    BY <1>10, <2>2 DEF LRUShift
<1>12. (Len(s) = n => p = n) /\ (Len(s) # n => p = Len(s) + 1)
  BY <1>11 DEF LRUShift
<1>13. Len(s) = n /\ p = n
  BY <1>1, <1>10, <1>12
<1>14. QED
  BY <1>10, <1>11, <1>13

(* Where the pages of t but the first were in s, and in which order.       *)
LEMMA ShiftedFrom ==
  ASSUME NEW n \in Nat, NEW x \in Page, NEW s \in Seq(Page), NEW t \in Seq(Page),
         NEW p \in Nat \ {0}, LRUShift(s, t, p, x, n), NEW k \in 2..Len(t)
  PROVE  /\ t[k] = s[IF k <= p THEN k - 1 ELSE k] /\ t[k] # x
         /\ (IF k <= p THEN k - 1 ELSE k) \in 1..Len(s)
<1>1. Len(s) \in Nat /\ Len(t) \in Nat
  OBVIOUS
<1>2. DOMAIN t = 1..Len(t)
  OBVIOUS
<1>3. /\ Len(t) = (IF p <= Len(s) THEN Len(s) ELSE p)
      /\ t[1] = x
  BY DEF LRUShift
<1>4. k \in Nat /\ k >= 2 /\ k <= Len(t)
  BY <1>1
<1>5. (k <= p => t[k] = s[k - 1]) /\ (k > p => t[k] = s[k])
  BY DEF LRUShift
<1>6. IsInjective(t)
  BY DEF LRUShift
<1>7. 1 \in 1..Len(t) /\ k \in 1..Len(t) /\ k # 1
  BY <1>1, <1>4
<1>8. t[k] # x
  BY <1>2, <1>3, <1>6, <1>7 DEF IsInjective
<1>9. p <= Len(s) + 1
  BY <1>1 DEF LRUShift
<1>10. (IF k <= p THEN k - 1 ELSE k) \in 1..Len(s)
  BY <1>1, <1>3, <1>4, <1>9
<1>11. QED
  BY <1>1, <1>4, <1>5, <1>8, <1>10

(* A cache in order of last use stays so: the page moved to the front is   *)
(* the one used now.                                                       *)
LEMMA RecencyTurn ==
  ASSUME NEW n \in Nat, n >= 2, NEW x \in Page,
         NEW s \in Seq(Page), NEW t \in Seq(Page),
         NEW p \in Nat \ {0}, LRUShift(s, t, p, x, n),
         NEW now \in Nat, NEW u \in [Page -> 0..now],
         Newer(s, u), LeftBefore(s, u, n)
  PROVE  LET u2 == [u EXCEPT ![x] = now + 1]
         IN Newer(t, u2) /\ LeftBefore(t, u2, n)
<1> DEFINE u2 == [u EXCEPT ![x] = now + 1]
           from(k) == IF k <= p THEN k - 1 ELSE k
<1>1. Len(s) \in Nat /\ Len(t) \in Nat
  OBVIOUS
<1>2. DOMAIN s = 1..Len(s) /\ DOMAIN t = 1..Len(t) /\ \A k \in 1..Len(s) : s[k] \in Page
  OBVIOUS
<1>3. /\ Len(t) = (IF p <= Len(s) THEN Len(s) ELSE p) /\ Len(s) <= n /\ p <= n
      /\ t[1] = x
  BY DEF LRUShift
<1>4. \A k \in 2..Len(t) : t[k] = s[from(k)] /\ t[k] # x /\ from(k) \in 1..Len(s)
  BY ShiftedFrom
<1>5. /\ u2[x] = now + 1
      /\ \A page \in Page : page # x => u2[page] = u[page]
      /\ \A page \in Page : u[page] \in Nat /\ u[page] <= now
  OBVIOUS
<1>6. \A k \in 2..Len(t) : u2[t[k]] = u[s[from(k)]] /\ u[s[from(k)]] <= now /\ u[s[from(k)]] \in Nat
  BY <1>2, <1>4, <1>5
<1> HIDE DEF u2
<1>7. ASSUME NEW j \in 1..Len(t), NEW k \in 1..Len(t), j < k PROVE u2[t[j]] > u2[t[k]]
  <2>1. j \in Nat /\ k \in Nat /\ k \in 2..Len(t)
    BY <1>1, <1>7
  <2>2. CASE j = 1
    <3>1. u2[t[j]] = now + 1
      BY <1>3, <1>5, <2>2
    <3>2. u2[t[k]] <= now /\ u2[t[k]] \in Nat
      BY <1>6, <2>1
    <3>3. QED
      BY <3>1, <3>2
  <2>3. CASE j # 1
    <3>1. j \in 2..Len(t)
      BY <1>1, <2>1, <2>3
    <3>2. from(j) < from(k)
      BY <1>7, <2>1
    <3>3. from(j) \in 1..Len(s) /\ from(k) \in 1..Len(s)
      BY <1>4, <2>1, <3>1
    <3> HIDE DEF from
    <3>4. u[s[from(j)]] > u[s[from(k)]]
      BY <3>2, <3>3 DEF Newer
    <3>5. u2[t[j]] = u[s[from(j)]] /\ u2[t[k]] = u[s[from(k)]]
      BY <1>6, <2>1, <3>1
    <3>6. QED
      BY <3>4, <3>5
  <2>4. QED
    BY <2>2, <2>3
<1>8. ASSUME NEW page \in Page \ Range(t), u2[page] > 0
      PROVE  Len(t) = n /\ u2[page] < u2[t[n]]
  <2>1. page # x
    <3>1. 1 \in 1..Len(t)
      BY <1>1, <1>3
    <3>2. QED
      BY <1>2, <1>3, <3>1 DEF Range
  <2>2. u2[page] = u[page] /\ u[page] > 0 /\ u[page] \in Nat
    BY <1>5, <1>8, <2>1
  <2>3. CASE page \in Range(s)
    <3>1. Len(s) = n /\ p = n /\ page = s[n]
      BY <2>3, DisplacedIsLast
    <3>2. Len(t) = n /\ n \in 2..Len(t) /\ from(n) = n - 1
      BY <1>1, <1>3, <3>1
    <3>3. u2[t[n]] = u[s[n - 1]]
      BY <1>6, <3>2
    <3>4. n - 1 \in 1..Len(s) /\ n \in 1..Len(s) /\ n - 1 < n
      BY <3>1
    <3>5. u[s[n - 1]] > u[s[n]]
      BY <3>4 DEF Newer
    <3>6. u[s[n - 1]] \in Nat /\ u[s[n]] \in Nat
      BY <1>2, <1>5, <3>4
    <3>7. QED
      BY <2>2, <3>1, <3>2, <3>3, <3>5, <3>6
  <2>4. CASE page \notin Range(s)
    <3>1. Len(s) = n /\ u[page] < u[s[n]]
      BY <2>2, <2>4 DEF LeftBefore
    <3>2. Len(t) = n /\ n \in 2..Len(t)
      BY <1>1, <1>3, <3>1
    <3>3. u2[t[n]] = u[s[from(n)]]
      BY <1>6, <3>2
    <3>4. n - 1 \in 1..Len(s) /\ n \in 1..Len(s) /\ n - 1 < n
      BY <3>1
    <3>5. u[s[n - 1]] > u[s[n]] /\ u[s[n - 1]] \in Nat /\ u[s[n]] \in Nat
      BY <1>2, <1>5, <3>4 DEF Newer
    <3>6. from(n) = n \/ from(n) = n - 1
      OBVIOUS
    <3>7. QED
      BY <2>2, <3>1, <3>2, <3>3, <3>5, <3>6
  <2>5. QED
    BY <2>3, <2>4
<1>9. QED
  BY <1>7, <1>8 DEF Newer, LeftBefore, u2

Uses == [page \in Page |-> LastUse(page)]

RecencyInv == \A n \in Sizes : Newer(lru[n].cache, Uses) /\ LeftBefore(lru[n].cache, Uses, n)

(* The caches are empty at the start.                                      *)
LEMMA RecencyInit ==
  Init => RecencyInv
<1> SUFFICES ASSUME Init, NEW n \in Sizes
             PROVE  Newer(<< >>, Uses) /\ LeftBefore(<< >>, Uses, n)
  BY DEF Init, RecencyInv
<1>1. Newer(<< >>, Uses)
  BY DEF Newer
<1>2. \A page \in Page : Uses[page] = 0
  <2>1. ASSUME NEW page \in Page PROVE LastUse(page) = 0
    <3>1. {0} \cup {k \in 1..time : workload[k] = page} = {0}
      BY DEF Init
    <3>2. Maximum({0}) = 0
      BY MaximumIs
    <3>3. QED
      BY <3>1, <3>2 DEF LastUse
  <2>2. QED
    BY <2>1 DEF Uses
<1>3. QED
  BY <1>1, <1>2 DEF LeftBefore

(* Each access moves every cache and the time of one page's last use.      *)
LEMMA RecencyStep ==
  TypeInv /\ RecencyInv /\ [Access]_vars => RecencyInv'
<1> SUFFICES ASSUME TypeInv, RecencyInv, [Access]_vars PROVE RecencyInv'
  OBVIOUS
<1>1. CASE Access
  <2> DEFINE x == workload[time + 1]
  <2>1. Uses \in [Page -> 0..time] /\ time \in Nat
    BY PagingAssumption, LastUseIs DEF Uses, TypeInv, WorkTyped
  <2>2. Uses' = [Uses EXCEPT ![x] = time + 1]
    <3>1. Uses' = [page \in Page |-> (LastUse(page))']
      BY DEF Uses
    <3>2. \A page \in Page : (LastUse(page))' = [Uses EXCEPT ![x] = time + 1][page]
      BY <1>1, LastUseIs DEF Uses
    <3>3. QED
      BY <3>1, <3>2 DEF Uses
  <2>3. ASSUME NEW n \in Sizes
        PROVE  Newer(lru'[n].cache, Uses') /\ LeftBefore(lru'[n].cache, Uses', n)
    <3> DEFINE s == lru[n].cache
               t == lru'[n].cache
    <3>1. n \in Nat /\ n >= 2 /\ x \in Page
      BY <1>1, TurnsTaken
    <3>2. s \in Seq(Page) /\ t \in Seq(Page)
      BY <1>1, LRUShifts
    <3>3. PICK p \in Nat \ {0} : LRUShift(s, t, p, x, n)
      BY <1>1, LRUShifts
    <3>4. Newer(s, Uses) /\ LeftBefore(s, Uses, n)
      BY DEF RecencyInv
    <3> DEFINE u == Uses
    <3> HIDE DEF x, s, t, u
    <3>5. /\ u \in [Page -> 0..time] /\ Newer(s, u) /\ LeftBefore(s, u, n)
      BY <2>1, <3>4 DEF u
    <3>6. Newer(t, [u EXCEPT ![x] = time + 1]) /\ LeftBefore(t, [u EXCEPT ![x] = time + 1], n)
      BY <2>1, <3>1, <3>2, <3>3, <3>5, RecencyTurn
    <3>7. QED
      BY <2>2, <3>6 DEF t, u
  <2>4. QED
    BY <2>3 DEF RecencyInv
<1>2. CASE UNCHANGED vars
  <2>1. lru' = lru /\ time' = time /\ workload' = workload
    BY <1>2 DEF vars, caches
  <2>2. Uses' = Uses
    BY <2>1 DEF Uses, LastUse
  <2>3. QED
    BY <2>1, <2>2 DEF RecencyInv
<1>3. QED
  BY <1>1, <1>2

(* A cache in that order holds the pages used last.                        *)
LEMMA RecencyIs ==
  TypeInv /\ RecencyInv => LruRecency
<1> SUFFICES ASSUME TypeInv, RecencyInv, NEW n \in Sizes
             PROVE  LET c == lru[n].cache
                    IN /\ \A j, k \in DOMAIN c : j < k => LastUse(c[j]) > LastUse(c[k])
                       /\ \A page \in (1..Pages) \ Range(c) :
                            LastUse(page) > 0 => Len(c) = n /\ LastUse(page) < LastUse(c[n])
  BY DEF LruRecency
<1> DEFINE c == lru[n].cache
<1>1. c \in Seq(Page) /\ Newer(c, Uses) /\ LeftBefore(c, Uses, n)
  BY DEF TypeInv, CachesFit, LRUFits, Fits, RecencyInv
<1>2. n \in Nat \ {0}
  BY PagingAssumption
<1> HIDE DEF c
<1>3. DOMAIN c = 1..Len(c) /\ \A k \in 1..Len(c) : c[k] \in Page /\ Uses[c[k]] = LastUse(c[k])
  BY <1>1 DEF Uses
<1>4. \A j, k \in DOMAIN c : j < k => LastUse(c[j]) > LastUse(c[k])
  BY <1>1, <1>3 DEF Newer
<1>5. ASSUME NEW page \in Page \ Range(c), LastUse(page) > 0
      PROVE  Len(c) = n /\ LastUse(page) < LastUse(c[n])
  <2>1. Uses[page] = LastUse(page)
    BY DEF Uses
  <2>2. Len(c) = n /\ Uses[page] < Uses[c[n]]
    BY <1>1, <1>5, <2>1 DEF LeftBefore
  <2>3. n \in 1..Len(c)
    BY <1>2, <2>2
  <2>4. QED
    BY <1>3, <2>1, <2>2, <2>3
<1>6. QED
  BY <1>4, <1>5 DEF c, Page

(* LRU's list is in the order of the last uses at every moment, and every  *)
(* page that was used and is not in it was used before all that are.       *)
THEOREM RecencyHolds ==
  Spec => []LruRecency
<1>1. Init => TypeInv /\ RecencyInv
  BY TypeInvInit, RecencyInit
<1>2. TypeInv /\ RecencyInv /\ [Access]_vars => TypeInv' /\ RecencyInv'
  BY TypeInvStep, RecencyStep
<1>3. TypeInv /\ RecencyInv => LruRecency
  BY RecencyIs
<1>4. QED
  BY <1>1, <1>2, <1>3, PTL DEF Spec

-----------------------------------------------------------------------------
(* The clock before its first hit.  Its hand has not moved; no bit is set  *)
(* before the cache is full; after that those of the last pages are.       *)

Ring(r, n) ==
  /\ r.hand = 0
  /\ Len(r.cache) < n => \A k \in 1..Len(r.cache) : ~r.bits[r.cache[k]]
  /\ \A j, k \in 1..Len(r.cache) : j < k /\ r.bits[r.cache[j]] => r.bits[r.cache[k]]

(* The hand stays where it is, or goes all the way round.                  *)
LEMMA RingTurns ==
  ASSUME NEW n \in Nat \ {0}, NEW r, ClockFits(r, n), Len(r.cache) = n, Ring(r, n)
  PROVE  /\ \A k \in 0..(n - 1) : At(r, k) = r.cache[k + 1]
         /\ At(r, n) = r.cache[1]
         /\ \/ Turns(r) = 0 /\ ~r.bits[r.cache[1]]
            \/ Turns(r) = n
<1>1. r.hand = 0
  BY DEF Ring
<1>2. ASSUME NEW k \in 0..(n - 1) PROVE At(r, k) = r.cache[k + 1]
  <2>1. r.hand + k = k /\ k % n = k
    BY <1>1, RemainderSmall
  <2>2. QED
    BY <2>1 DEF At
<1>3. At(r, n) = r.cache[1]
  <2>1. n \in n..(2 * n - 1) /\ r.hand + n = n
    BY <1>1
  <2>2. n % n = n - n
    BY <2>1, RemainderOver
  <2>3. n % n = 0
    BY <2>2
  <2>4. QED
    BY <2>1, <2>3 DEF At
<1>4. 0 \in 0..(n - 1) /\ 1 \in 1..n
  OBVIOUS
<1>5. CASE ~r.bits[r.cache[1]]
  <2>1. ~r.bits[At(r, 0)]
    BY <1>2, <1>4, <1>5
  <2>2. Turns(r) <= 0 /\ Turns(r) \in 0..n
    BY <1>4, <2>1, TurnsIs
  <2>3. QED
    BY <1>2, <1>3, <1>5, <2>2
<1>6. CASE r.bits[r.cache[1]]
  <2>1. \A k \in 1..n : r.bits[r.cache[k]]
    <3>1. \A k \in 1..n : k # 1 => 1 < k
      OBVIOUS
    <3>2. QED
      BY <1>4, <1>6, <3>1 DEF Ring
  <2>2. Turns(r) \in 0..n /\ (Turns(r) < n => ~r.bits[At(r, Turns(r))])
    BY TurnsIs
  <2>3. ASSUME Turns(r) < n PROVE FALSE
    <3>1. Turns(r) \in 0..(n - 1) /\ Turns(r) + 1 \in 1..n
      BY <2>2, <2>3
    <3>2. At(r, Turns(r)) = r.cache[Turns(r) + 1]
      BY <1>2, <3>1
    <3>3. QED
      BY <2>1, <2>2, <2>3, <3>1, <3>2
  <2>4. Turns(r) = n
    BY <2>2, <2>3
  <2>5. QED
    BY <1>2, <1>3, <2>4
<1>7. QED
  BY <1>5, <1>6

(* At a miss the clock and FIFO do the same.                               *)
LEMMA RingTurn ==
  ASSUME NEW n \in Nat \ {0}, NEW r, ClockFits(r, n), NEW f, PagedFits(f, n),
         NEW x \in Page, r.cache = f.cache, x \notin Range(r.cache), Ring(r, n)
  PROVE  Clock(r, x, n).cache = FIFO(f, x, n).cache /\ Ring(Clock(r, x, n), n)
<1> DEFINE q == Clock(r, x, n)
           g == FIFO(f, x, n)
           c == r.cache
<1>1. /\ c \in Seq(Page) /\ IsInjective(c) /\ Len(c) <= n
      /\ r = [cache |-> c, bits |-> r.bits, hand |-> r.hand, hits |-> r.hits]
      /\ f = [cache |-> c, hits |-> f.hits]
  BY DEF ClockFits, ClockRecord, PagedFits, PagedRecord, Fits
<1>2. DOMAIN c = 1..Len(c) /\ DOMAIN r.bits = Range(c)
  BY <1>1 DEF ClockFits
<1>3. Len(c) \in Nat
  BY <1>1
<1>4. ~Present(r, x) /\ ~Present(f, x)
  BY DEF Present
<1>5. CASE Len(c) # n
  <2> DEFINE t    == Append(c, x)
             bits == [p \in Range(c) \cup {x} |-> p \in Range(c) /\ r.bits[p]]
  <2>1. q.cache = t /\ q.bits = bits /\ q.hand = r.hand
    BY <1>1, <1>2, <1>4, <1>5 DEF Clock, Full
  <2>2. g.cache = t
    BY <1>1, <1>4, <1>5 DEF FIFO, Full
  <2>3. Len(t) = Len(c) + 1 /\ (\A k \in 1..Len(c) : t[k] = c[k]) /\ t[Len(c) + 1] = x
    BY <1>1
  <2>4. \A k \in 1..Len(c) : ~r.bits[c[k]]
    BY <1>1, <1>3, <1>5 DEF Ring
  <2>5. \A p \in Range(c) \cup {x} : ~bits[p]
    BY <1>2, <2>4 DEF Range
  <2> HIDE DEF t, bits, q, g, c
  <2>6. \A k \in 1..Len(t) : t[k] \in Range(c) \cup {x}
    <3>1. \A k \in 1..Len(t) : k \in 1..Len(c) \/ k = Len(c) + 1
      BY <1>3, <2>3
    <3>2. \A k \in 1..Len(c) : c[k] \in Range(c)
      BY <1>2 DEF Range
    <3>3. QED
      BY <2>3, <3>1, <3>2
  <2>7. \A k \in 1..Len(t) : ~q.bits[t[k]]
    BY <2>1, <2>5, <2>6
  <2>8. q.hand = 0
    BY <2>1 DEF Ring
  <2>9. QED
    BY <2>1, <2>2, <2>7, <2>8 DEF Ring, q, g
<1>6. CASE Len(c) = n
  <2> DEFINE turns == Turns(r)
             hand  == (r.hand + turns) % n
             passed == {At(r, k) : k \in 0..(turns - 1)}
             t     == Replaced(c, 1, x)
             held  == (Range(c) \ {At(r, turns)}) \cup {x}
             bits  == [p \in held |-> p = x \/ (p \notin passed /\ r.bits[p])]
  <2>1. /\ \A k \in 0..(n - 1) : At(r, k) = c[k + 1]
        /\ At(r, n) = c[1]
        /\ (turns = 0 /\ ~r.bits[c[1]]) \/ turns = n
    BY <1>6, RingTurns
  <2>2. r.hand = 0
    BY DEF Ring
  <2>3. hand = 0
    <3>1. 0 % n = 0
      BY RemainderSmall
    <3>2. n % n = n - n
      <4>1. n \in n..(2 * n - 1)
        OBVIOUS
      <4>2. QED
        BY <4>1, RemainderOver
    <3> HIDE DEF turns
    <3>3. CASE turns = 0
      BY <2>2, <3>1, <3>3
    <3>4. CASE turns = n
      BY <2>2, <3>2, <3>4
    <3>5. QED
      BY <2>1, <3>3, <3>4
  <2>4. q.cache = Replaced(c, hand + 1, x) /\ q.bits = bits /\ q.hand = hand
    BY <1>1, <1>2, <1>4, <1>6 DEF Clock, Full
  <2>5. hand + 1 = 1
    BY <2>3
  <2>6. q.cache = t /\ q.bits = bits /\ q.hand = 0
    BY <2>3, <2>4, <2>5
  <2>7. g.cache = t
    BY <1>1, <1>4, <1>6 DEF FIFO, Full
  <2>8. /\ Len(t) = n
        /\ \A i \in 1..n : t[i] = IF i < 1 THEN c[i] ELSE IF i < n THEN c[i + 1] ELSE x
    <3> HIDE DEF c
    <3>1. 1 \in 1..Len(c) /\ c \in Seq(Page)
      BY <1>1, <1>6
    <3>2. /\ Len(Replaced(c, 1, x)) = Len(c)
          /\ \A i \in 1..Len(c) : Replaced(c, 1, x)[i] = IF i < 1 THEN c[i] ELSE IF i < Len(c) THEN c[i + 1] ELSE x
      BY <3>1, ReplacedIs
    <3>3. QED
      BY <1>6, <3>2
  <2>9. t[n] = x /\ \A i \in 1..(n - 1) : t[i] = c[i + 1] /\ i + 1 \in 1..n
    BY <2>8
  <2>10. \A i \in 2..n : c[i] # c[1] /\ c[i] # x /\ c[i] \in Range(c)
    BY <1>2, <1>6 DEF IsInjective, Range, ClockFits, Fits
  <2>11. At(r, turns) = c[1]
    <3>1. At(r, 0) = c[0 + 1] /\ 0 + 1 = 1
      BY <2>1
    <3>2. QED
      BY <2>1, <3>1
  <2>12. \A i \in 2..n : c[i] \in held
    BY <2>10, <2>11
  <2>13. x \in held
    OBVIOUS
  <2>14. bits[x]
    BY <2>13
  <2>15. \A i \in 2..n : bits[c[i]] <=> c[i] \notin passed /\ r.bits[c[i]]
    BY <2>10, <2>12
  <2>16. turns = n => \A i \in 2..n : ~bits[c[i]]
    <3>1. ASSUME turns = n, NEW i \in 2..n PROVE c[i] \in passed
      <4>1. i - 1 \in 0..(turns - 1) /\ At(r, i - 1) = c[i]
        BY <2>1, <3>1
      <4>2. QED
        BY <4>1
    <3>2. QED
      BY <2>15, <3>1
  <2>17. turns = 0 => \A i \in 2..n : bits[c[i]] <=> r.bits[c[i]]
    <3>1. turns = 0 => passed = {}
      OBVIOUS
    <3>2. QED
      BY <2>15, <3>1
  <2> HIDE DEF turns, bits, t, c, hand, held, passed
  <2>18. ASSUME NEW j \in 1..n, NEW k \in 1..n, j < k, bits[t[j]] PROVE bits[t[k]]
    <3>1. j \in 1..(n - 1) /\ t[j] = c[j + 1] /\ j + 1 \in 2..n
      BY <2>9, <2>18
    <3>2. CASE k = n
      BY <2>9, <2>14, <3>2
    <3>3. CASE k # n
      <4>1. t[k] = c[k + 1] /\ k + 1 \in 2..n /\ j + 1 < k + 1
        BY <2>9, <2>18, <3>3
      <4>2. turns = 0
        BY <2>1, <2>16, <2>18, <3>1
      <4>3. r.bits[c[j + 1]]
        BY <2>17, <2>18, <3>1, <4>2
      <4>4. j + 1 \in 1..Len(c) /\ k + 1 \in 1..Len(c)
        BY <1>6, <3>1, <4>1
      <4>5. r.bits[c[k + 1]]
        BY <4>1, <4>3, <4>4 DEF Ring, c
      <4>6. QED
        BY <2>17, <4>1, <4>2, <4>5
    <3>4. QED
      BY <3>2, <3>3
  <2> HIDE DEF q, g
  <2>19. Ring(q, n)
    BY <2>6, <2>8, <2>18 DEF Ring
  <2>20. QED
    BY <2>6, <2>7, <2>19 DEF q, g
<1>7. QED
  BY <1>5, <1>6

(* Before its first hit the clock holds what FIFO does, in FIFO's order.   *)
RingInv ==
  \A n \in Sizes :
    clock[n].hits = 0 => clock[n].cache = fifo[n].cache /\ Ring(clock[n], n)

(* All caches are empty at first, and no hand has moved.                   *)
LEMMA RingInit ==
  Init => RingInv
<1> SUFFICES ASSUME Init, NEW n \in Sizes
             PROVE  clock[n].cache = fifo[n].cache /\ Ring(clock[n], n)
  BY DEF RingInv
<1>1. /\ clock[n].cache = << >> /\ clock[n].hand = 0 /\ fifo[n].cache = << >>
  BY DEF Init
<1>2. Len(<< >>) = 0 /\ 1..0 = {}
  OBVIOUS
<1>3. QED
  BY <1>1, <1>2 DEF Ring

(* A clock without a hit missed at this access too, and so did FIFO.       *)
LEMMA RingStep ==
  TypeInv /\ RingInv /\ [Access]_vars => RingInv'
<1> SUFFICES ASSUME TypeInv, RingInv, [Access]_vars PROVE RingInv'
  OBVIOUS
<1>1. CASE Access
  <2> DEFINE x == workload[time + 1]
  <2>1. ASSUME NEW n \in Sizes, clock'[n].hits = 0
        PROVE  clock'[n].cache = fifo'[n].cache /\ Ring(clock'[n], n)
    <3>1. /\ n \in Nat \ {0} /\ x \in Page
          /\ DemandTurn(clock[n], clock'[n], x, n)
      BY <1>1, TurnsTaken
    <3>2. ClockFits(clock[n], n) /\ PagedFits(fifo[n], n)
      BY DEF TypeInv, CachesFit
    <3>3. clock[n].hits \in Nat
      BY <3>2 DEF ClockFits, ClockRecord
    <3>4. clock[n].hits = 0 /\ x \notin Range(clock[n].cache)
      BY <2>1, <3>1, <3>3 DEF DemandTurn, Hits
    <3>5. clock[n].cache = fifo[n].cache /\ Ring(clock[n], n)
      BY <3>4 DEF RingInv
    <3>6. clock'[n] = Clock(clock[n], x, n) /\ fifo'[n] = FIFO(fifo[n], x, n)
      BY <1>1 DEF Access
    <3> HIDE DEF x
    <3>7. QED
      BY <3>1, <3>2, <3>4, <3>5, <3>6, RingTurn
  <2>2. QED
    BY <2>1 DEF RingInv
<1>2. CASE UNCHANGED vars
  BY <1>2 DEF vars, caches, RingInv, Ring
<1>3. QED
  BY <1>1, <1>2

(* The clock is FIFO until its first hit, whatever the workload.           *)
THEOREM ClockIsFifoUntilHit ==
  Spec => []ClockFifoUntilHit
<1>1. Init => TypeInv /\ RingInv
  BY TypeInvInit, RingInit
<1>2. TypeInv /\ RingInv /\ [Access]_vars => TypeInv' /\ RingInv'
  BY TypeInvStep, RingStep
<1>3. RingInv => ClockFifoUntilHit
  BY DEF RingInv, ClockFifoUntilHit
<1>4. QED
  BY <1>1, <1>2, <1>3, PTL DEF Spec

-----------------------------------------------------------------------------
(* The loop.  When it is longer than the cache, FIFO holds the last pages  *)
(* accessed, oldest first, and LRU the same pages, newest first; the next  *)
(* one of the loop is never among them.                                    *)

Trail(c, n, now) ==
  /\ Len(c) <= now /\ Len(c) <= n
  /\ \A k \in 1..Len(c) : c[k] = workload[(now - Len(c)) + k]

BackTrail(c, n, now) ==
  /\ Len(c) <= now /\ Len(c) <= n
  /\ \A k \in 1..Len(c) : c[k] = workload[(now + 1) - k]

Thrashed(n) ==
  /\ fifo[n].hits = 0 /\ Trail(fifo[n].cache, n, time)
  /\ lru[n].hits = 0 /\ BackTrail(lru[n].cache, n, time)
  /\ clock[n].hits = 0

LoopInv ==
  workload = Looping => \A n \in Sizes : n < Pages \div 2 => Thrashed(n)

(* A page of the loop differs from those of the n accesses before it.      *)
LEMMA NextOfLoop ==
  ASSUME workload = Looping, NEW n \in Nat, n < Pages \div 2,
         NEW now \in Nat, now < Accesses,
         NEW j \in 1..now, (now + 1) - j <= n
  PROVE  workload[j] # workload[now + 1]
<1>1. Pages \in Nat /\ Accesses \in Nat
  BY PagingAssumption
<1>2. PICK h \in Nat \ {0} : h = Pages \div 2
  BY <1>1
<1>3. j \in 1..Accesses /\ now + 1 \in 1..Accesses
  BY <1>1
<1>4. workload[j] = ((j - 1) % h) + 1 /\ workload[now + 1] = (((now + 1) - 1) % h) + 1
  BY <1>2, <1>3 DEF Looping
<1>5. (now + 1) - 1 = now /\ j - 1 \in Int /\ now \in Int /\ j - 1 < now /\ now - (j - 1) < h
  BY <1>2
<1>6. (j - 1) % h # now % h
  BY <1>2, <1>5, RemaindersDiffer
<1>7. (j - 1) % h \in Int /\ now % h \in Int
  <2>1. h \in Nat \ {0} /\ j - 1 \in Int /\ now \in Int
    BY <1>5
  <2>2. (j - 1) % h \in 0..(h - 1) /\ now % h \in 0..(h - 1)
    BY <2>1, Remainder
  <2>3. QED
    BY <2>2
<1>8. QED
  BY <1>4, <1>5, <1>6, <1>7

(* So neither cache holds the next page.                                   *)
LEMMA NextIsAbsent ==
  ASSUME workload = Looping, NEW n \in Nat, n < Pages \div 2,
         NEW now \in Nat, now < Accesses, NEW c \in Seq(Page),
         Trail(c, n, now) \/ BackTrail(c, n, now)
  PROVE  workload[now + 1] \notin Range(c)
<1>1. Len(c) \in Nat /\ Len(c) <= now /\ Len(c) <= n
  BY DEF Trail, BackTrail
<1>2. ASSUME NEW k \in 1..Len(c) PROVE c[k] # workload[now + 1]
  <2>1. PICK j \in 1..now : c[k] = workload[j] /\ (now + 1) - j <= n
    <3>1. (now - Len(c)) + k \in 1..now /\ (now + 1) - ((now - Len(c)) + k) <= n
      BY <1>1
    <3>2. (now + 1) - k \in 1..now /\ (now + 1) - ((now + 1) - k) <= n
      BY <1>1
    <3>3. QED
      BY <3>1, <3>2 DEF Trail, BackTrail
  <2>2. QED
    BY <2>1, NextOfLoop
<1>3. DOMAIN c = 1..Len(c)
  OBVIOUS
<1>4. QED
  BY <1>2, <1>3 DEF Range

(* A full FIFO moves up by one place.                                      *)
LEMMA FirstReplaced ==
  ASSUME NEW s \in Seq(Page), 1 \in 1..Len(s), NEW y \in Page
  PROVE  /\ Len(Replaced(s, 1, y)) = Len(s) /\ Replaced(s, 1, y)[Len(s)] = y
         /\ \A i \in 1..(Len(s) - 1) : Replaced(s, 1, y)[i] = s[i + 1]
<1>1. /\ Len(Replaced(s, 1, y)) = Len(s)
      /\ \A i \in 1..Len(s) : Replaced(s, 1, y)[i] =
           IF i < 1 THEN s[i] ELSE IF i < Len(s) THEN s[i + 1] ELSE y
  BY ReplacedIs
<1>2. QED
  BY <1>1

(* FIFO drops the oldest page and adds the new one at the end.             *)
LEMMA TrailKept ==
  ASSUME NEW n \in Nat \ {0}, NEW c, c \in Seq(Page), NEW x, x \in Page, NEW now \in Nat,
         Trail(c, n, now), x = workload[now + 1],
         NEW d, Len(c) # n => d = Append(c, x), Len(c) = n => d = Replaced(c, 1, x)
  PROVE  Trail(d, n, now + 1)
<1>1. PICK m \in Nat : m = Len(c) /\ m <= now /\ m <= n
  BY DEF Trail
<1>2. \A k \in 1..m : c[k] = workload[(now - m) + k]
  BY <1>1 DEF Trail
<1>3. CASE m # n
  <2>1. Len(d) = m + 1 /\ d[m + 1] = x /\ \A k \in 1..m : d[k] = c[k]
    <3>1. d = Append(c, x)
      BY <1>1, <1>3
    <3>2. Len(Append(c, x)) = Len(c) + 1 /\ Append(c, x)[Len(c) + 1] = x
          /\ \A k \in 1..Len(c) : Append(c, x)[k] = c[k]
      OBVIOUS
    <3>3. QED
      BY <1>1, <3>1, <3>2
  <2>2. ASSUME NEW k \in 1..(m + 1) PROVE d[k] = workload[((now + 1) - (m + 1)) + k]
    <3>1. CASE k = m + 1
      <4>1. ((now + 1) - (m + 1)) + k = now + 1
        BY <3>1
      <4>2. QED
        BY <2>1, <3>1, <4>1
    <3>2. CASE k # m + 1
      <4>1. k \in 1..m /\ ((now + 1) - (m + 1)) + k = (now - m) + k
        BY <3>2
      <4>2. QED
        BY <1>2, <2>1, <4>1
    <3>3. QED
      BY <3>1, <3>2
  <2>3. m + 1 <= now + 1 /\ m + 1 <= n
    BY <1>1, <1>3
  <2>4. QED
    BY <2>1, <2>2, <2>3 DEF Trail
<1>4. CASE m = n
  <2>1. 1 \in 1..Len(c) /\ c \in Seq(Page) /\ x \in Page
    BY <1>1, <1>4
  <2>2. /\ Len(Replaced(c, 1, x)) = Len(c) /\ Replaced(c, 1, x)[Len(c)] = x
        /\ \A i \in 1..(Len(c) - 1) : Replaced(c, 1, x)[i] = c[i + 1]
    BY <2>1, FirstReplaced
  <2>3. Len(d) = m /\ d[m] = x /\ \A k \in 1..(m - 1) : d[k] = c[k + 1] /\ k + 1 \in 1..m
    BY <1>1, <1>4, <2>2
  <2>4. ASSUME NEW k \in 1..m PROVE d[k] = workload[((now + 1) - m) + k]
    <3>1. CASE k = m
      <4>1. ((now + 1) - m) + k = now + 1
        BY <3>1
      <4>2. QED
        BY <2>3, <3>1, <4>1
    <3>2. CASE k # m
      <4>1. k \in 1..(m - 1) /\ ((now + 1) - m) + k = (now - m) + (k + 1)
        BY <3>2
      <4>2. QED
        BY <1>2, <2>3, <4>1
    <3>3. QED
      BY <3>1, <3>2
  <2>5. m <= now + 1 /\ m <= n
    BY <1>1
  <2>6. QED
    BY <2>3, <2>4, <2>5 DEF Trail
<1>5. QED
  BY <1>3, <1>4

(* LRU puts the new page in front and drops the last one.                  *)
LEMMA BackTrailKept ==
  ASSUME NEW n \in Nat \ {0}, NEW c \in Seq(Page), NEW x \in Page, NEW now \in Nat,
         BackTrail(c, n, now), x = workload[now + 1],
         x \notin Range(c), NEW d \in Seq(Page), NEW p \in Nat \ {0}, LRUShift(c, d, p, x, n)
  PROVE  BackTrail(d, n, now + 1)
<1>1. Len(c) \in Nat /\ Len(c) <= now /\ Len(c) <= n /\ Len(d) \in Nat
  BY DEF BackTrail
<1>2. \A k \in 1..Len(c) : c[k] = workload[(now + 1) - k]
  BY DEF BackTrail
<1>3. /\ (Len(c) = n => p = n) /\ (Len(c) # n => p = Len(c) + 1)
      /\ Len(d) = (IF p <= Len(c) THEN Len(c) ELSE p) /\ d[1] = x
      /\ \A i \in 2..Len(d) : i <= p => d[i] = c[i - 1]
  BY DEF LRUShift
<1>4. Len(d) <= now + 1 /\ Len(d) <= n /\ Len(d) = p
  BY <1>1, <1>3
<1>5. ASSUME NEW k \in 1..Len(d) PROVE d[k] = workload[((now + 1) + 1) - k]
  <2>1. CASE k = 1
    <3>1. ((now + 1) + 1) - k = now + 1
      BY <2>1
    <3>2. QED
      BY <1>3, <2>1, <3>1
  <2>2. CASE k # 1
    <3>1. k \in 2..Len(d) /\ k <= p /\ k - 1 \in 1..Len(c)
      BY <1>1, <1>3, <1>4, <2>2
    <3>2. (now + 1) - (k - 1) = ((now + 1) + 1) - k
      BY <3>1
    <3>3. d[k] = c[k - 1] /\ c[k - 1] = workload[(now + 1) - (k - 1)]
      BY <1>2, <1>3, <3>1
    <3>4. QED
      BY <3>2, <3>3
  <2>3. QED
    BY <2>1, <2>2
<1>6. QED
  BY <1>4, <1>5 DEF BackTrail

(* All caches are empty at first.                                          *)
LEMMA LoopInit ==
  Init => LoopInv
<1> SUFFICES ASSUME Init, NEW n \in Sizes PROVE Thrashed(n)
  BY DEF LoopInv
<1>1. /\ fifo[n].cache = << >> /\ lru[n].cache = << >> /\ time = 0
      /\ fifo[n].hits = 0 /\ lru[n].hits = 0 /\ clock[n].hits = 0
  BY DEF Init
<1>2. Len(<< >>) = 0 /\ 1..0 = {} /\ 0 <= n
  BY PagingAssumption
<1>3. QED
  BY <1>1, <1>2 DEF Thrashed, Trail, BackTrail

(* The next page is in none of the three caches, and each replaces its     *)
(* oldest one; the clock is FIFO, not having hit.                          *)
LEMMA LoopStep ==
  TypeInv /\ RingInv /\ LoopInv /\ [Access]_vars => LoopInv'
<1> SUFFICES ASSUME TypeInv, RingInv, LoopInv, [Access]_vars PROVE LoopInv'
  OBVIOUS
<1>1. CASE Access
  <2> DEFINE x == workload[time + 1]
  <2>1. workload' = workload /\ time < Accesses
    BY <1>1 DEF Access
  <2>2. ASSUME workload = Looping, NEW n \in Sizes, n < Pages \div 2
        PROVE  Thrashed(n)'
    <3>1. /\ n \in Nat \ {0} /\ x \in Page /\ time' = time + 1 /\ time \in Nat
          /\ DemandTurn(fifo[n], fifo'[n], x, n) /\ DemandTurn(clock[n], clock'[n], x, n)
      BY <1>1, TurnsTaken
    <3>2. Thrashed(n)
      BY <2>2 DEF LoopInv
    <3>3. fifo[n].cache \in Seq(Page) /\ lru[n].cache \in Seq(Page)
      BY DEF TypeInv, CachesFit, PagedFits, LRUFits, Fits
    <3>4. Trail(fifo[n].cache, n, time) /\ BackTrail(lru[n].cache, n, time)
      BY <3>2 DEF Thrashed
    <3>5. x \notin Range(fifo[n].cache) /\ x \notin Range(lru[n].cache)
      BY <2>1, <2>2, <3>1, <3>3, <3>4, NextIsAbsent
    <3>6. clock[n].cache = fifo[n].cache
      BY <3>2 DEF Thrashed, RingInv
    <3>7. fifo'[n].hits = 0 /\ clock'[n].hits = 0
      BY <3>1, <3>2, <3>5, <3>6 DEF DemandTurn, Hits, Thrashed
    <3>8. lru'[n].hits = 0 /\ lru'[n].cache \in Seq(Page)
      BY <1>1, <3>2, <3>5, LRUShifts DEF Thrashed
    <3>9. PICK p \in Nat \ {0} : LRUShift(lru[n].cache, lru'[n].cache, p, x, n)
      BY <1>1, LRUShifts
    <3>10. Trail(fifo'[n].cache, n, time + 1)
      <4> DEFINE c == fifo[n].cache
                 d == fifo'[n].cache
      <4>1. fifo'[n] = FIFO(fifo[n], x, n)
        BY <1>1 DEF Access
      <4>2. fifo[n] \in PagedRecord
        BY DEF TypeInv, CachesFit, PagedFits
      <4>3. (Len(c) # n => d = Append(c, x)) /\ (Len(c) = n => d = Replaced(c, 1, x))
        BY <3>5, <4>1, <4>2 DEF FIFO, Present, Full, PagedRecord
      <4>4. c \in Seq(Page) /\ Trail(c, n, time) /\ x = workload[time + 1]
        BY <3>3, <3>4
      <4> HIDE DEF c, d, x
      <4>5. QED
        BY <3>1, <4>3, <4>4, TrailKept DEF d
    <3>11. BackTrail(lru'[n].cache, n, time + 1)
      <4> DEFINE c == lru[n].cache
                 d == lru'[n].cache
      <4>1. /\ c \in Seq(Page) /\ BackTrail(c, n, time) /\ x = workload[time + 1]
            /\ d \in Seq(Page) /\ x \notin Range(c) /\ LRUShift(c, d, p, x, n)
        BY <3>3, <3>4, <3>5, <3>8, <3>9
      <4> HIDE DEF c, d, x
      <4>2. QED
        BY <3>1, <4>1, BackTrailKept DEF d
    <3>12. QED
      BY <2>1, <3>1, <3>7, <3>8, <3>10, <3>11 DEF Thrashed, Trail, BackTrail
  <2>3. QED
    BY <2>1, <2>2 DEF LoopInv, Looping
<1>2. CASE UNCHANGED vars
  BY <1>2 DEF vars, caches, LoopInv, Thrashed, Trail, BackTrail, Looping
<1>3. QED
  BY <1>1, <1>2

(* On a loop that is longer than the cache FIFO, LRU and the clock never   *)
(* hit, however long it is gone round.                                     *)
THEOREM LoopNeverHits ==
  Spec => []LoopThrashes
<1>1. Init => TypeInv /\ RingInv /\ LoopInv
  BY TypeInvInit, RingInit, LoopInit
<1>2. TypeInv /\ RingInv /\ LoopInv /\ [Access]_vars => TypeInv' /\ RingInv' /\ LoopInv'
  BY TypeInvStep, RingStep, LoopStep
<1>3. LoopInv => LoopThrashes
  BY DEF LoopInv, Thrashed, LoopThrashes
<1>4. QED
  BY <1>1, <1>2, <1>3, PTL DEF Spec

-----------------------------------------------------------------------------
(* OPT.  The best score from the k-th access on, for each set of pages     *)
(* held: a hit counts, a miss loads the page, and where there is no room   *)
(* the victim is the best one.                                             *)

Asked(w) == {w[k] : k \in 1..Accesses}

Played(next, x, in, n) ==
  IF x \in in THEN 1 + next[in]
  ELSE IF Cardinality(in) < n THEN next[in \cup {x}]
  ELSE Maximum({next[(in \ {v}) \cup {x}] : v \in in})

Scores(m, w, n) ==
  /\ m \in [1..(Accesses + 1) -> [SUBSET Asked(w) -> Nat]]
  /\ \A in \in SUBSET Asked(w) : m[Accesses + 1][in] = 0
  /\ \A k \in 1..Accesses : \A in \in SUBSET Asked(w) : m[k][in] = Played(m[k + 1], w[k], in, n)

(* What a score says of the one after the next access, that of page x.     *)
Plays(f, g, x, in, n) ==
  /\ x \in in => f[in] = 1 + g[in]
  /\ x \notin in /\ Cardinality(in) < n => f[in] = g[in \cup {x}]
  /\ x \notin in /\ Cardinality(in) >= n =>
       /\ \A v \in in : g[(in \ {v}) \cup {x}] <= f[in]
       /\ \E v \in in : f[in] = g[(in \ {v}) \cup {x}]

(* The pages of a workload are finitely many.                              *)
LEMMA AskedIs ==
  ASSUME NEW w \in NoLocality
  PROVE  /\ IsFiniteSet(Asked(w)) /\ Asked(w) \subseteq Page
         /\ \A k \in 1..Accesses : w[k] \in Asked(w)
<1>1. Pages \in Nat /\ Accesses \in Nat
  BY PagingAssumption
<1>2. Asked(w) \subseteq Page /\ \A k \in 1..Accesses : w[k] \in Asked(w)
  BY DEF Asked, NoLocality, Page
<1>3. IsFiniteSet(Page)
  BY <1>1, FS_Interval DEF Page
<1>4. QED
  BY <1>2, <1>3, FS_Subset

(* Among the victims of a full cache there is a best one.                  *)
LEMMA PlayedIs ==
  ASSUME NEW P, IsFiniteSet(P), NEW g \in [SUBSET P -> Nat], NEW x \in P,
         NEW n \in Nat \ {0}, NEW in \in SUBSET P
  PROVE  /\ Played(g, x, in, n) \in Nat
         /\ \A f : f[in] = Played(g, x, in, n) => Plays(f, g, x, in, n)
<1>1. IsFiniteSet(in) /\ Cardinality(in) \in Nat
  BY FS_Subset, FS_CardinalityType
<1>2. CASE x \in in \/ Cardinality(in) < n
  BY <1>1, <1>2 DEF Played, Plays
<1>3. CASE x \notin in /\ Cardinality(in) >= n
  <2> DEFINE after == {g[(in \ {v}) \cup {x}] : v \in in}
  <2>1. in # {}
    BY <1>1, <1>3, FS_EmptySet
  <2>2. after \in SUBSET Nat /\ after # {}
    <3>1. \A v \in in : g[(in \ {v}) \cup {x}] \in Nat
      <4>1. \A v \in in : (in \ {v}) \cup {x} \in SUBSET P
        OBVIOUS
      <4>2. QED
        BY <4>1
    <3>2. QED
      BY <2>1, <3>1
  <2>3. IsFiniteSet(after)
    <3> DEFINE h == [v \in in |-> g[(in \ {v}) \cup {x}]]
    <3>1. h \in Surjection(in, after)
      BY DEF Surjection
    <3> HIDE DEF h, after
    <3>2. QED
      BY <1>1, <3>1, FS_Surjection
  <2>4. PICK b \in Nat : \A a \in after : a <= b
    <3> HIDE DEF after
    <3>1. QED
      BY <2>2, <2>3, FiniteBound
  <2>5. Maximum(after) \in after /\ \A a \in after : Maximum(after) >= a
    <3> HIDE DEF after
    <3>1. QED
      BY <2>2, <2>4, MaximumIs
  <2>6. Played(g, x, in, n) = Maximum(after)
    BY <1>1, <1>3 DEF Played
  <2>7. PICK v \in in : Maximum(after) = g[(in \ {v}) \cup {x}]
    BY <2>5
  <2>8. \A a \in in : g[(in \ {a}) \cup {x}] <= Maximum(after)
    BY <2>2, <2>5
  <2>9. Maximum(after) \in Nat
    BY <2>2, <2>5
  <2> HIDE DEF after
  <2>10. ASSUME NEW f, f[in] = Played(g, x, in, n) PROVE Plays(f, g, x, in, n)
    <3>1. f[in] = Maximum(after)
      BY <2>6, <2>10
    <3>2. \A a \in in : g[(in \ {a}) \cup {x}] <= f[in]
      BY <2>8, <3>1
    <3>3. f[in] = g[(in \ {v}) \cup {x}]
      BY <2>7, <3>1
    <3>4. ~(Cardinality(in) < n)
      BY <1>1, <1>3
    <3>5. QED
      BY <1>3, <3>2, <3>3, <3>4 DEF Plays
  <2>11. QED
    BY <2>6, <2>9, <2>10
<1>4. QED
  BY <1>1, <1>2, <1>3

(* DemandPaging counts and compares with operators of its own.             *)
LEMMA SameMaximum ==
  ASSUME NEW T
  PROVE  Best!Max(T) = Maximum(T)
BY DEF Best!Max, Maximum

(* The same of the number of elements. *)
LEMMA SameCount ==
  ASSUME NEW T
  PROVE  Best!Cardinality(T) = Cardinality(T)
BY DEF Best!Cardinality, Cardinality

(* The best scores exist: they are made from the last access backwards,    *)
(* and DemandPaging's recursive function holds them.                       *)
LEMMA MostHitsIs ==
  ASSUME NEW w \in NoLocality, NEW n \in Nat \ {0}
  PROVE  \E m : Scores(m, w, n) /\ Best!MostHits(w, n) = m[1][{}]
<1> DEFINE P == Asked(w)
           S == [SUBSET P -> Nat]
           l == Accesses
           zero == [in \in SUBSET P |-> 0]
           T == [j \in 1..l |-> [g \in S |->
                   [in \in SUBSET P |-> Played(g, w[l + 1 - j], in, n)]]]
<1>1. l \in Nat \ {0} /\ \A j \in 1..l : l + 1 - j \in 1..l
  BY PagingAssumption
<1>2. IsFiniteSet(P) /\ \A k \in 1..l : w[k] \in P
  BY AskedIs
<1>3. ASSUME NEW g \in S, NEW k \in 1..l
      PROVE  [in \in SUBSET P |-> Played(g, w[k], in, n)] \in S
  <2>1. ASSUME NEW in \in SUBSET P PROVE Played(g, w[k], in, n) \in Nat
    BY <1>2, PlayedIs
  <2>2. QED
    BY <2>1
<1>4. T \in [1..l -> [S -> S]]
  BY <1>1, <1>3
<1>5. PICK a \in [0..l -> S] : a[0] = zero /\ \A j \in 1..l : a[j] = T[j][a[j - 1]]
  <2>1. zero \in S
    OBVIOUS
  <2> HIDE DEF S, l, zero, T
  <2>2. Steps(l, S, zero, T)
    BY <1>1, <1>4, <2>1 DEF Steps
  <2>3. QED
    BY <2>2, RecursionExists
<1>6. \A j \in 1..l : a[j] = [in \in SUBSET P |-> Played(a[j - 1], w[l + 1 - j], in, n)]
  <2>1. \A j \in 1..l : j - 1 \in 0..l
    BY <1>1
  <2>2. \A j \in 1..l : a[j - 1] \in S
    BY <1>5, <2>1
  <2>3. QED
    BY <1>5, <2>2
<1> DEFINE m == [k \in 1..(l + 1) |-> a[l + 1 - k]]
<1>7. Scores(m, w, n)
  <2>1. \A k \in 1..(l + 1) : l + 1 - k \in 0..l
    BY <1>1
  <2>2. m \in [1..(l + 1) -> S]
    BY <1>5, <2>1
  <2>3. \A in \in SUBSET P : m[l + 1][in] = 0
    <3>1. m[l + 1] = zero
      BY <1>1, <1>5
    <3>2. QED
      BY <3>1
  <2>4. ASSUME NEW k \in 1..l, NEW in \in SUBSET P
        PROVE  m[k][in] = Played(m[k + 1], w[k], in, n)
    <3>1. l + 1 - k \in 1..l /\ l + 1 - (l + 1 - k) = k /\ (l + 1 - k) - 1 = l + 1 - (k + 1)
      BY <1>1
    <3>2. m[k] = a[l + 1 - k] /\ m[k + 1] = a[(l + 1 - k) - 1]
      BY <1>1, <3>1
    <3>3. a[l + 1 - k] = [i \in SUBSET P |-> Played(a[(l + 1 - k) - 1], w[k], i, n)]
      BY <1>6, <3>1
    <3> HIDE DEF m
    <3>4. QED
      BY <3>2, <3>3
  <2> HIDE DEF m
  <2>5. QED
    BY <2>2, <2>3, <2>4 DEF Scores
<1> DEFINE Is(f) == f = [k \in 1..(l + 1) |->
                           [in \in SUBSET P |->
                              IF k > l THEN 0
                              ELSE IF w[k] \in in THEN 1 + f[k + 1][in]
                              ELSE IF Best!Cardinality(in) < n THEN f[k + 1][in \cup {w[k]}]
                              ELSE Best!Max({f[k + 1][(in \ {v}) \cup {w[k]}] : v \in in})]]
           h == CHOOSE f : Is(f)
<1>8. Best!MostHits(w, n) = h[1][{}]
  BY DEF Best!MostHits, Asked
<1>9. ASSUME NEW f
      PROVE  Is(f) <=> f = [k \in 1..(l + 1) |-> [in \in SUBSET P |->
                              IF k > l THEN 0 ELSE Played(f[k + 1], w[k], in, n)]]
  BY SameMaximum, SameCount DEF Played
<1> HIDE DEF Is
<1>10. Is(m)
  <2> DEFINE q == [k \in 1..(l + 1) |-> [in \in SUBSET P |->
                     IF k > l THEN 0 ELSE Played(m[k + 1], w[k], in, n)]]
  <2> HIDE DEF m
  <2>1. ASSUME NEW k \in 1..(l + 1) PROVE m[k] = q[k]
    <3>1. m[k] \in S
      BY <1>7 DEF Scores
    <3>2. ASSUME NEW in \in SUBSET P
          PROVE  m[k][in] = IF k > l THEN 0 ELSE Played(m[k + 1], w[k], in, n)
      <4>1. CASE k > l
        <5>1. k = l + 1
          BY <1>1, <4>1
        <5>2. QED
          BY <1>7, <4>1, <5>1 DEF Scores
      <4>2. CASE ~(k > l)
        <5>1. k \in 1..l
          BY <1>1, <4>2
        <5>2. QED
          BY <1>7, <4>2, <5>1 DEF Scores
      <4>3. QED
        BY <4>1, <4>2
    <3>3. QED
      BY <3>1, <3>2
  <2>2. m \in [1..(l + 1) -> S]
    BY <1>7 DEF Scores
  <2>3. m = q
    BY <2>1, <2>2
  <2>4. QED
    BY <1>9, <2>3
<1>11. h = [k \in 1..(l + 1) |-> [in \in SUBSET P |->
              IF k > l THEN 0 ELSE Played(h[k + 1], w[k], in, n)]]
  <2>1. Is(h)
    BY <1>10
  <2> HIDE DEF h
  <2>2. QED
    BY <1>9, <2>1
<1> HIDE DEF h, m
<1>12. \A in \in SUBSET P : h[l + 1][in] = 0
  <2>1. l + 1 \in 1..(l + 1) /\ l + 1 > l
    BY <1>1
  <2>2. h[l + 1] = [in \in SUBSET P |-> IF l + 1 > l THEN 0 ELSE Played(h[l + 1 + 1], w[l + 1], in, n)]
    BY <1>11, <2>1
  <2>3. QED
    BY <2>1, <2>2
<1>13. \A k \in 1..l : h[k] = [in \in SUBSET P |-> Played(h[k + 1], w[k], in, n)]
  <2>1. ASSUME NEW k \in 1..l
        PROVE  h[k] = [in \in SUBSET P |-> IF k > l THEN 0 ELSE Played(h[k + 1], w[k], in, n)]
    <3>1. k \in 1..(l + 1)
      BY <1>1
    <3>2. QED
      BY <1>11, <3>1
  <2>2. \A k \in 1..l : ~(k > l)
    BY <1>1
  <2>3. QED
    BY <2>1, <2>2
<1>14. h \in [1..(l + 1) -> S]
  <2> DEFINE Ks == {j \in 0..l : h[l + 1 - j] \in S}
  <2>1. 0 \in Ks
    <3>1. l + 1 - 0 = l + 1 /\ 0 \in 0..l /\ l + 1 \in 1..(l + 1)
      BY <1>1
    <3>2. h[l + 1] = [in \in SUBSET P |-> IF l + 1 > l THEN 0 ELSE Played(h[l + 1 + 1], w[l + 1], in, n)]
      BY <1>11, <3>1
    <3>3. h[l + 1] \in S
      BY <1>1, <1>12, <3>2
    <3>4. QED
      BY <3>1, <3>3
  <2>2. ASSUME NEW j \in 0..(l - 1), j \in Ks PROVE j + 1 \in Ks
    <3> DEFINE k == l + 1 - (j + 1)
    <3>1. k \in 1..l /\ k + 1 = l + 1 - j /\ j + 1 \in 0..l
      BY <1>1
    <3> HIDE DEF k
    <3>2. h[k + 1] \in S
      BY <2>2, <3>1
    <3>3. h[k] \in S
      BY <1>3, <1>13, <3>1, <3>2
    <3>4. QED
      BY <3>1, <3>3 DEF k
  <2> HIDE DEF Ks
  <2>3. \A j \in 0..l : j \in Ks
    <3>1. \A j \in 0..(l - 1) : j \in Ks => j + 1 \in Ks
      BY <2>2
    <3>2. l \in Nat
      BY <1>1
    <3> HIDE DEF l
    <3>3. QED
      BY <2>1, <3>1, <3>2, UpTo
  <2>4. ASSUME NEW k \in 1..(l + 1) PROVE h[k] \in S
    <3>1. l + 1 - k \in 0..l /\ l + 1 - (l + 1 - k) = k
      BY <1>1
    <3>2. l + 1 - k \in Ks
      BY <2>3, <3>1
    <3>3. QED
      BY <3>1, <3>2 DEF Ks
  <2>5. \E q : h = [k \in 1..(l + 1) |-> q[k]]
    <3> DEFINE q == [k \in 1..(l + 1) |-> [in \in SUBSET P |->
                      IF k > l THEN 0 ELSE Played(h[k + 1], w[k], in, n)]]
    <3>1. h = [k \in 1..(l + 1) |-> q[k]]
      BY <1>11
    <3> HIDE DEF q
    <3>2. QED
      BY <3>1
  <2>6. QED
    BY <2>4, <2>5
<1>15. \A k \in 1..l : \A in \in SUBSET P : h[k][in] = Played(h[k + 1], w[k], in, n)
  BY <1>13
<1>16. Scores(h, w, n)
  BY <1>12, <1>14, <1>15 DEF Scores
<1>17. QED
  BY <1>8, <1>16

(* From here on, what it costs to hold one page rather than another.  A    *)
(* set with room for page u:                                               *)
Spare(P, n, C, u) == C \in SUBSET P /\ u \in P \ C /\ Cardinality(C) < n

(* One page more scores no less, and one hit more at most.                 *)
More(f, P, n) ==
  \A C \in SUBSET P, u \in P :
    Spare(P, n, C, u) => f[C] <= f[C \cup {u}] /\ f[C \cup {u}] <= f[C] + 1

(* One page for another scores one hit more at most.                       *)
Other(f, P, n) ==
  \A C \in SUBSET P, u, v \in P :
    Spare(P, n, C, u) /\ Spare(P, n, C, v) => f[C \cup {u}] <= f[C \cup {v}] + 1

(* The sets that the next access makes of one with room.                   *)
LEMMA SpareIs ==
  ASSUME NEW P, IsFiniteSet(P), NEW n \in Nat \ {0},
         NEW C \in SUBSET P, NEW u \in P, Spare(P, n, C, u)
  PROVE  /\ Cardinality(C) \in Nat /\ Cardinality(C) < n
         /\ Cardinality(C \cup {u}) = Cardinality(C) + 1
         /\ \A z \in C, x \in P \ C :
              /\ (C \ {z}) \cup {x} \in SUBSET P
              /\ Cardinality((C \ {z}) \cup {x}) = Cardinality(C)
<1>1. IsFiniteSet(C) /\ Cardinality(C) \in Nat
  BY FS_Subset, FS_CardinalityType
<1>2. Cardinality(C \cup {u}) = Cardinality(C) + 1
  BY <1>1, FS_AddElement DEF Spare
<1>3. ASSUME NEW z \in C, NEW x \in P \ C
      PROVE  Cardinality((C \ {z}) \cup {x}) = Cardinality(C)
  <2>1. IsFiniteSet(C \ {z}) /\ Cardinality(C \ {z}) = Cardinality(C) - 1
    BY <1>1, FS_RemoveElement
  <2>2. x \notin C \ {z}
    OBVIOUS
  <2>3. Cardinality((C \ {z}) \cup {x}) = (Cardinality(C) - 1) + 1
    BY <2>1, <2>2, FS_AddElement
  <2>4. QED
    BY <1>1, <2>3
<1>4. QED
  BY <1>1, <1>2, <1>3 DEF Spare

(* The game at one access: f before it and g after it, with page x.        *)
Game(f, g, x, P, n) ==
  /\ f \in [SUBSET P -> Nat] /\ g \in [SUBSET P -> Nat] /\ x \in P
  /\ \A in \in SUBSET P : Plays(f, g, x, in, n)

(* A page more, at the access before.                                      *)
LEMMA MoreBefore ==
  ASSUME NEW P, IsFiniteSet(P), NEW n \in Nat \ {0}, NEW f, NEW g, NEW x,
         Game(f, g, x, P, n), More(g, P, n), Other(g, P, n),
         NEW C \in SUBSET P, NEW u \in P, Spare(P, n, C, u)
  PROVE  f[C] <= f[C \cup {u}] /\ f[C \cup {u}] <= f[C] + 1
<1> DEFINE D == C \cup {u}
<1>1. /\ Cardinality(C) \in Nat /\ Cardinality(C) < n /\ Cardinality(D) = Cardinality(C) + 1
      /\ \A z \in C, y \in P \ C : /\ (C \ {z}) \cup {y} \in SUBSET P
                                   /\ Cardinality((C \ {z}) \cup {y}) = Cardinality(C)
  BY SpareIs
<1>2. f \in [SUBSET P -> Nat] /\ g \in [SUBSET P -> Nat] /\ x \in P
      /\ Plays(f, g, x, C, n) /\ Plays(f, g, x, D, n)
  BY DEF Game
<1>3. u \notin C
  BY DEF Spare
<1>4. f[C] \in Nat /\ f[D] \in Nat /\ g[C] \in Nat /\ g[D] \in Nat
  BY <1>2
<1>5. CASE x \in C
  <2>1. g[C] <= g[D] /\ g[D] <= g[C] + 1
    BY DEF More
  <2>2. f[C] = 1 + g[C] /\ f[D] = 1 + g[D]
    BY <1>2, <1>5 DEF Plays
  <2>3. QED
    BY <1>4, <2>1, <2>2
<1>6. CASE x = u
  <2>1. f[C] = g[D] /\ f[D] = 1 + g[D]
    BY <1>1, <1>2, <1>3, <1>6 DEF Plays
  <2>2. QED
    BY <1>4, <2>1
<1>7. CASE x \notin D
  <2> DEFINE E == C \cup {x}
  <2>1. f[C] = g[E] /\ E \in SUBSET P /\ g[E] \in Nat
    BY <1>1, <1>2, <1>7 DEF Plays
  <2>2. CASE Cardinality(D) < n
    <3>1. f[D] = g[E \cup {u}]
      <4>1. D \cup {x} = E \cup {u}
        OBVIOUS
      <4>2. QED
        BY <1>2, <1>7, <2>2, <4>1 DEF Plays
    <3>2. Spare(P, n, C, x)
      BY <1>1, <1>2, <1>7 DEF Spare
    <3>3. Cardinality(E) = Cardinality(C) + 1
      BY <1>2, <3>2, SpareIs
    <3>4. Spare(P, n, E, u)
      BY <1>1, <1>2, <1>3, <1>7, <2>2, <3>3 DEF Spare
    <3> HIDE DEF E
    <3>5. g[E] <= g[E \cup {u}] /\ g[E \cup {u}] <= g[E] + 1
      BY <2>1, <3>4 DEF More
    <3>6. QED
      BY <2>1, <3>1, <3>5
  <2>3. CASE Cardinality(D) >= n
    <3>1. /\ \A v \in D : g[(D \ {v}) \cup {x}] <= f[D]
          /\ \E v \in D : f[D] = g[(D \ {v}) \cup {x}]
      BY <1>2, <1>7, <2>3 DEF Plays
    <3>2. f[C] <= f[D]
      <4>1. (D \ {u}) \cup {x} = E /\ u \in D
        BY <1>3
      <4>2. QED
        BY <2>1, <3>1, <4>1
    <3>3. PICK z \in D : f[D] = g[(D \ {z}) \cup {x}]
      BY <3>1
    <3>4. CASE z = u
      <4>1. (D \ {u}) \cup {x} = E
        BY <1>3
      <4>2. f[D] = f[C]
        BY <2>1, <3>3, <3>4, <4>1
      <4>3. QED
        BY <1>4, <3>2, <4>2
    <3>5. CASE z # u
      <4> DEFINE B == (C \ {z}) \cup {x}
      <4>1. z \in C /\ x \in P \ C
        BY <1>2, <1>7, <3>5
      <4>2. B \in SUBSET P /\ Cardinality(B) = Cardinality(C)
        BY <1>1, <4>1
      <4>3. (D \ {z}) \cup {x} = B \cup {u} /\ E = B \cup {z}
        BY <3>5, <4>1
      <4>4. Spare(P, n, B, u) /\ Spare(P, n, B, z)
        BY <1>1, <1>3, <1>7, <3>5, <4>1, <4>2 DEF Spare
      <4> HIDE DEF B, E, D
      <4>5. g[B \cup {u}] <= g[B \cup {z}] + 1
        BY <4>1, <4>2, <4>4 DEF Other
      <4>6. f[D] <= f[C] + 1
        BY <2>1, <3>3, <4>3, <4>5
      <4>7. QED
        BY <3>2, <4>6 DEF D
    <3>6. QED
      BY <3>4, <3>5
  <2>4. QED
    BY <1>1, <2>2, <2>3
<1>8. QED
  BY <1>5, <1>6, <1>7

(* Who misses page v, where another holds it in place of u, is one hit     *)
(* behind at most.                                                         *)
LEMMA MissOther ==
  ASSUME NEW P, IsFiniteSet(P), NEW n \in Nat \ {0}, NEW f, NEW g,
         NEW C \in SUBSET P, NEW u \in P, NEW v \in P, u # v,
         Game(f, g, v, P, n), More(g, P, n), Other(g, P, n),
         Spare(P, n, C, u), Spare(P, n, C, v)
  PROVE  f[C \cup {u}] <= g[C \cup {v}] + 1
<1> DEFINE B == C \cup {u}
           A == C \cup {v}
<1>1. /\ Cardinality(C) \in Nat /\ Cardinality(C) < n
      /\ Cardinality(A) = Cardinality(C) + 1 /\ Cardinality(B) = Cardinality(C) + 1
      /\ \A z \in C, y \in P \ C : /\ (C \ {z}) \cup {y} \in SUBSET P
                                   /\ Cardinality((C \ {z}) \cup {y}) = Cardinality(C)
  BY SpareIs
<1>2. f \in [SUBSET P -> Nat] /\ g \in [SUBSET P -> Nat] /\ Plays(f, g, v, B, n)
  BY DEF Game
<1>3. u \notin C /\ v \notin C /\ v \notin B /\ A \in SUBSET P
  BY DEF Spare
<1>4. CASE Cardinality(B) < n
  <2>1. f[B] = g[A \cup {u}]
    <3>1. B \cup {v} = A \cup {u}
      OBVIOUS
    <3>2. QED
      BY <1>2, <1>3, <1>4, <3>1 DEF Plays
  <2>2. Spare(P, n, A, u)
    BY <1>1, <1>3, <1>4 DEF Spare
  <2> HIDE DEF A, B
  <2>3. g[A \cup {u}] <= g[A] + 1
    BY <1>3, <2>2 DEF More
  <2>4. QED
    BY <2>1, <2>3 DEF A, B
<1>5. CASE Cardinality(B) >= n
  <2>1. PICK z \in B : f[B] = g[(B \ {z}) \cup {v}]
    BY <1>2, <1>3, <1>5 DEF Plays
  <2>2. CASE z = u
    <3>1. (B \ {u}) \cup {v} = A
      BY <1>3
    <3>2. f[B] = g[A] /\ g[A] \in Nat
      BY <1>2, <1>3, <2>1, <2>2, <3>1
    <3>3. QED
      BY <3>2
  <2>3. CASE z # u
    <3> DEFINE D == (C \ {z}) \cup {v}
    <3>1. z \in C
      BY <2>3
    <3>2. D \in SUBSET P /\ Cardinality(D) = Cardinality(C)
      BY <1>1, <1>3, <3>1
    <3>3. (B \ {z}) \cup {v} = D \cup {u} /\ A = D \cup {z}
      BY <2>3, <3>1
    <3>4. Spare(P, n, D, u) /\ Spare(P, n, D, z)
      BY <1>1, <1>3, <2>3, <3>1, <3>2 DEF Spare
    <3> HIDE DEF D, A, B
    <3>5. g[D \cup {u}] <= g[D \cup {z}] + 1
      BY <3>1, <3>2, <3>4 DEF Other
    <3>6. QED
      BY <2>1, <3>3, <3>5 DEF A, B
  <2>4. QED
    BY <2>2, <2>3
<1>6. QED
  BY <1>1, <1>4, <1>5

(* Another page, at the access before.                                     *)
LEMMA OtherBefore ==
  ASSUME NEW P, IsFiniteSet(P), NEW n \in Nat \ {0}, NEW f, NEW g, NEW x,
         Game(f, g, x, P, n), More(g, P, n), Other(g, P, n),
         NEW C \in SUBSET P, NEW u \in P, NEW v \in P,
         Spare(P, n, C, u), Spare(P, n, C, v)
  PROVE  f[C \cup {u}] <= f[C \cup {v}] + 1
<1> DEFINE B == C \cup {u}
           A == C \cup {v}
<1>1. /\ Cardinality(C) \in Nat /\ Cardinality(C) < n
      /\ Cardinality(A) = Cardinality(C) + 1 /\ Cardinality(B) = Cardinality(C) + 1
      /\ \A z \in C, y \in P \ C : /\ (C \ {z}) \cup {y} \in SUBSET P
                                   /\ Cardinality((C \ {z}) \cup {y}) = Cardinality(C)
  <2>1. Cardinality(A) = Cardinality(C) + 1
    BY SpareIs
  <2>2. QED
    BY <2>1, SpareIs
<1>2. f \in [SUBSET P -> Nat] /\ g \in [SUBSET P -> Nat] /\ x \in P
      /\ Plays(f, g, x, A, n) /\ Plays(f, g, x, B, n)
  BY DEF Game
<1>3. u \notin C /\ v \notin C
  BY DEF Spare
<1>4. f[A] \in Nat /\ f[B] \in Nat /\ g[A] \in Nat /\ g[B] \in Nat /\ g[B] <= g[A] + 1
  BY <1>2 DEF Other
<1>5. CASE u = v
  BY <1>4, <1>5
<1>6. CASE x \in C
  <2>1. f[A] = 1 + g[A] /\ f[B] = 1 + g[B]
    BY <1>2, <1>6 DEF Plays
  <2>2. QED
    BY <1>4, <2>1
<1>7. CASE u # v /\ x = v
  <2>1. f[A] = 1 + g[A]
    BY <1>2, <1>7 DEF Plays
  <2>2. f[B] <= g[A] + 1
    BY <1>7, MissOther
  <2>3. QED
    BY <1>4, <2>1, <2>2
<1>8. CASE u # v /\ x = u
  <2>1. f[B] = 1 + g[B] /\ x \notin A
    BY <1>2, <1>3, <1>8 DEF Plays
  <2>2. CASE Cardinality(A) < n
    <3>1. f[A] = g[B \cup {v}]
      <4>1. A \cup {x} = B \cup {v}
        BY <1>8
      <4>2. QED
        BY <1>2, <2>1, <2>2, <4>1 DEF Plays
    <3>2. Spare(P, n, B, v)
      BY <1>1, <1>3, <1>8, <2>2 DEF Spare
    <3> HIDE DEF B
    <3>3. g[B] <= g[B \cup {v}]
      BY <3>2 DEF More, Spare
    <3>4. g[B \cup {v}] \in Nat
      BY <1>2, <3>2 DEF Spare
    <3>5. QED
      BY <1>4, <2>1, <3>1, <3>3, <3>4 DEF B
  <2>3. CASE Cardinality(A) >= n
    <3>1. (A \ {v}) \cup {x} = B /\ v \in A
      BY <1>3, <1>8
    <3>2. g[(A \ {v}) \cup {x}] <= f[A]
      BY <1>2, <2>1, <2>3, <3>1 DEF Plays
    <3>3. QED
      BY <1>4, <2>1, <3>1, <3>2
  <2>4. QED
    BY <1>1, <2>2, <2>3
<1>9. CASE u # v /\ x \notin C \cup {u, v}
  <2> DEFINE E == C \cup {x}
  <2>1. x \notin A /\ x \notin B /\ x \in P \ C
    BY <1>2, <1>9
  <2>2. CASE Cardinality(A) < n
    <3>1. f[A] = g[E \cup {v}] /\ f[B] = g[E \cup {u}]
      <4>1. A \cup {x} = E \cup {v} /\ B \cup {x} = E \cup {u} /\ Cardinality(B) < n
        BY <1>1, <2>2
      <4>2. QED
        BY <1>2, <2>1, <2>2, <4>1 DEF Plays
    <3>2. Spare(P, n, C, x)
      BY <1>1, <2>1 DEF Spare
    <3>3. Cardinality(E) = Cardinality(C) + 1 /\ E \in SUBSET P
      BY <2>1, <3>2, SpareIs
    <3>4. Spare(P, n, E, u) /\ Spare(P, n, E, v)
      BY <1>1, <1>3, <1>9, <2>2, <3>3 DEF Spare
    <3> HIDE DEF E
    <3>5. g[E \cup {u}] <= g[E \cup {v}] + 1
      BY <3>3, <3>4 DEF Other
    <3>6. QED
      BY <3>1, <3>5
  <2>3. CASE Cardinality(A) >= n
    <3>1. /\ \A z \in A : g[(A \ {z}) \cup {x}] <= f[A]
          /\ \E z \in B : f[B] = g[(B \ {z}) \cup {x}]
      BY <1>1, <1>2, <2>1, <2>3 DEF Plays
    <3>2. PICK z \in B : f[B] = g[(B \ {z}) \cup {x}]
      BY <3>1
    <3>3. CASE z = u
      <4>1. (B \ {u}) \cup {x} = (A \ {v}) \cup {x} /\ v \in A
        BY <1>3
      <4>2. f[B] <= f[A]
        BY <3>1, <3>2, <3>3, <4>1
      <4>3. QED
        BY <1>4, <4>2
    <3>4. CASE z # u
      <4> DEFINE D == (C \ {z}) \cup {x}
      <4>1. z \in C
        BY <3>4
      <4>2. D \in SUBSET P /\ Cardinality(D) = Cardinality(C)
        BY <1>1, <2>1, <4>1
      <4>3. (B \ {z}) \cup {x} = D \cup {u} /\ (A \ {z}) \cup {x} = D \cup {v} /\ z \in A
        BY <1>3, <3>4, <4>1
      <4>4. Spare(P, n, D, u) /\ Spare(P, n, D, v)
        BY <1>1, <1>3, <1>9, <4>2 DEF Spare
      <4> HIDE DEF D
      <4>5. g[D \cup {u}] <= g[D \cup {v}] + 1
        BY <4>2, <4>4 DEF Other
      <4>6. g[D \cup {v}] <= f[A] /\ f[B] = g[D \cup {u}]
        BY <3>1, <3>2, <4>3
      <4>7. g[D \cup {u}] \in Nat /\ g[D \cup {v}] \in Nat
        BY <1>2, <4>2
      <4>8. QED
        BY <1>4, <4>5, <4>6, <4>7
    <3>5. QED
      BY <3>3, <3>4
  <2>4. QED
    BY <1>1, <2>2, <2>3
<1>10. QED
  BY <1>5, <1>6, <1>7, <1>8, <1>9

(* From the k-th access on, page v is asked for before page u, if u is.    *)
Sooner(w, k, v, u) == \A j \in k..Accesses : w[j] = u => \E i \in k..j : w[i] = v

(* The page that is asked for sooner scores no less.                       *)
Later(f, w, k, P, n) ==
  \A C \in SUBSET P, u, v \in P :
    u # v /\ Spare(P, n, C, u) /\ Spare(P, n, C, v) /\ Sooner(w, k, v, u)
      => f[C \cup {u}] <= f[C \cup {v}]

(* The page that is asked for sooner, at the access before.                *)
LEMMA LaterBefore ==
  ASSUME NEW P, IsFiniteSet(P), NEW n \in Nat \ {0}, NEW f, NEW g,
         NEW w, NEW k \in 1..Accesses,
         Game(f, g, w[k], P, n), More(g, P, n), Other(g, P, n), Later(g, w, k + 1, P, n),
         NEW C \in SUBSET P, NEW u \in P, NEW v \in P, u # v,
         Spare(P, n, C, u), Spare(P, n, C, v), Sooner(w, k, v, u)
  PROVE  f[C \cup {u}] <= f[C \cup {v}]
<1> DEFINE x == w[k]
           B == C \cup {u}
           A == C \cup {v}
<1>1. /\ Cardinality(C) \in Nat /\ Cardinality(C) < n
      /\ Cardinality(A) = Cardinality(C) + 1 /\ Cardinality(B) = Cardinality(C) + 1
      /\ \A z \in C, y \in P \ C : /\ (C \ {z}) \cup {y} \in SUBSET P
                                   /\ Cardinality((C \ {z}) \cup {y}) = Cardinality(C)
  <2>1. Cardinality(A) = Cardinality(C) + 1
    BY SpareIs
  <2>2. QED
    BY <2>1, SpareIs
<1>2. f \in [SUBSET P -> Nat] /\ g \in [SUBSET P -> Nat] /\ x \in P
      /\ Plays(f, g, x, A, n) /\ Plays(f, g, x, B, n)
  BY DEF Game
<1>3. u \notin C /\ v \notin C
  BY DEF Spare
<1>4. f[A] \in Nat /\ f[B] \in Nat /\ g[A] \in Nat /\ g[B] \in Nat
  BY <1>2
<1>5. k \in Nat /\ Accesses \in Nat /\ k <= Accesses
  BY PagingAssumption
<1>6. x # u
  <2>1. k \in k..Accesses /\ k..k = {k}
    BY <1>5
  <2>2. QED
    BY <2>1 DEF Sooner
<1>7. ASSUME x # v PROVE Sooner(w, k + 1, v, u)
  <2>1. ASSUME NEW j \in (k + 1)..Accesses, w[j] = u
        PROVE  \E i \in (k + 1)..j : w[i] = v
    <3>1. j \in k..Accesses
      BY <1>5
    <3>2. PICK i \in k..j : w[i] = v
      BY <2>1, <3>1 DEF Sooner
    <3>3. i # k
      BY <1>7, <3>2
    <3>4. i \in (k + 1)..j
      BY <1>5, <3>3
    <3>5. QED
      BY <3>2, <3>4
  <2>2. QED
    BY <2>1 DEF Sooner
<1>8. CASE x = v
  <2>1. f[B] <= g[A] + 1
    BY <1>8, MissOther
  <2>2. f[A] = 1 + g[A]
    BY <1>2, <1>8 DEF Plays
  <2>3. QED
    BY <1>4, <2>1, <2>2
<1>9. CASE x \in C
  <2>1. Sooner(w, k + 1, v, u)
    BY <1>3, <1>7, <1>9
  <2>2. g[B] <= g[A]
    BY <2>1 DEF Later
  <2>3. f[A] = 1 + g[A] /\ f[B] = 1 + g[B]
    BY <1>2, <1>9 DEF Plays
  <2>4. QED
    BY <1>4, <2>2, <2>3
<1>10. CASE x \notin C \cup {u, v}
  <2> DEFINE E == C \cup {x}
  <2>1. x \notin A /\ x \notin B /\ x \in P \ C /\ Sooner(w, k + 1, v, u)
    BY <1>2, <1>7, <1>10
  <2>2. CASE Cardinality(A) < n
    <3>1. f[A] = g[E \cup {v}] /\ f[B] = g[E \cup {u}]
      <4>1. A \cup {x} = E \cup {v} /\ B \cup {x} = E \cup {u} /\ Cardinality(B) < n
        BY <1>1, <2>2
      <4>2. QED
        BY <1>2, <2>1, <2>2, <4>1 DEF Plays
    <3>2. Spare(P, n, C, x)
      BY <1>1, <2>1 DEF Spare
    <3>3. Cardinality(E) = Cardinality(C) + 1 /\ E \in SUBSET P
      BY <2>1, <3>2, SpareIs
    <3>4. Spare(P, n, E, u) /\ Spare(P, n, E, v)
      BY <1>1, <1>3, <1>10, <2>2, <3>3 DEF Spare
    <3> HIDE DEF E, x
    <3>5. g[E \cup {u}] <= g[E \cup {v}]
      BY <2>1, <3>3, <3>4 DEF Later
    <3>6. QED
      BY <3>1, <3>5
  <2>3. CASE Cardinality(A) >= n
    <3>1. /\ \A z \in A : g[(A \ {z}) \cup {x}] <= f[A]
          /\ \E z \in B : f[B] = g[(B \ {z}) \cup {x}]
      BY <1>1, <1>2, <2>1, <2>3 DEF Plays
    <3>2. PICK z \in B : f[B] = g[(B \ {z}) \cup {x}]
      BY <3>1
    <3>3. CASE z = u
      <4>1. (B \ {u}) \cup {x} = (A \ {v}) \cup {x} /\ v \in A
        BY <1>3
      <4>2. f[B] <= f[A]
        BY <3>1, <3>2, <3>3, <4>1
      <4>3. QED
        BY <4>2
    <3>4. CASE z # u
      <4> DEFINE D == (C \ {z}) \cup {x}
      <4>1. z \in C
        BY <3>4
      <4>2. D \in SUBSET P /\ Cardinality(D) = Cardinality(C)
        BY <1>1, <2>1, <4>1
      <4>3. (B \ {z}) \cup {x} = D \cup {u} /\ (A \ {z}) \cup {x} = D \cup {v} /\ z \in A
        BY <1>3, <3>4, <4>1
      <4>4. Spare(P, n, D, u) /\ Spare(P, n, D, v)
        BY <1>1, <1>3, <1>10, <4>2 DEF Spare
      <4> HIDE DEF D, x
      <4>5. g[D \cup {u}] <= g[D \cup {v}]
        BY <2>1, <4>2, <4>4 DEF Later
      <4>6. g[D \cup {v}] <= f[A] /\ f[B] = g[D \cup {u}]
        BY <3>1, <3>2, <4>3
      <4>7. g[D \cup {u}] \in Nat /\ g[D \cup {v}] \in Nat
        BY <1>2, <4>2
      <4>8. QED
        BY <1>4, <4>5, <4>6, <4>7
    <3>5. QED
      BY <3>3, <3>4
  <2>4. QED
    BY <1>1, <2>2, <2>3
<1>11. QED
  BY <1>6, <1>8, <1>9, <1>10

(* By induction from the last access backwards, the three hold throughout. *)
LEMMA Exchange ==
  ASSUME NEW w \in NoLocality, NEW n \in Nat \ {0}, NEW m, Scores(m, w, n),
         NEW k \in 1..(Accesses + 1)
  PROVE  Later(m[k], w, k, Asked(w), n)
<1> DEFINE P == Asked(w)
           l == Accesses
           Good(i) == More(m[i], P, n) /\ Other(m[i], P, n) /\ Later(m[i], w, i, P, n)
<1>1. l \in Nat \ {0}
  BY PagingAssumption
<1>2. IsFiniteSet(P) /\ \A i \in 1..l : w[i] \in P
  BY AskedIs
<1>3. m \in [1..(l + 1) -> [SUBSET P -> Nat]] /\ \A in \in SUBSET P : m[l + 1][in] = 0
  BY DEF Scores
<1>4. ASSUME NEW i \in 1..l PROVE Game(m[i], m[i + 1], w[i], P, n)
  <2>1. i \in 1..(l + 1) /\ i + 1 \in 1..(l + 1)
    BY <1>1
  <2>2. m[i] \in [SUBSET P -> Nat] /\ m[i + 1] \in [SUBSET P -> Nat] /\ w[i] \in P
    BY <1>2, <1>3, <2>1
  <2>3. ASSUME NEW in \in SUBSET P PROVE Plays(m[i], m[i + 1], w[i], in, n)
    <3>1. m[i][in] = Played(m[i + 1], w[i], in, n)
      BY DEF Scores
    <3> HIDE DEF P
    <3>2. QED
      BY <1>2, <2>2, <3>1, PlayedIs
  <2>4. QED
    BY <2>2, <2>3 DEF Game
<1> HIDE DEF P
<1>5. Good(l + 1)
  <2>1. ASSUME NEW C \in SUBSET P, NEW u \in P PROVE m[l + 1][C] = 0 /\ m[l + 1][C \cup {u}] = 0
    BY <1>3
  <2>2. More(m[l + 1], P, n)
    BY <2>1 DEF More
  <2>3. Other(m[l + 1], P, n)
    <3>1. ASSUME NEW C \in SUBSET P, NEW u \in P, NEW v \in P
          PROVE  m[l + 1][C \cup {u}] <= m[l + 1][C \cup {v}] + 1
      <4>1. m[l + 1][C \cup {u}] = 0 /\ m[l + 1][C \cup {v}] = 0
        BY <2>1
      <4>2. QED
        BY <4>1
    <3>2. QED
      BY <3>1 DEF Other
  <2>4. Later(m[l + 1], w, l + 1, P, n)
    BY <2>1 DEF Later
  <2>5. QED
    BY <2>2, <2>3, <2>4
<1>6. ASSUME NEW i \in 1..l, Good(i + 1) PROVE Good(i)
  <2>1. Game(m[i], m[i + 1], w[i], P, n)
    BY <1>4
  <2>2. More(m[i], P, n)
    <3>1. ASSUME NEW C \in SUBSET P, NEW u \in P, Spare(P, n, C, u)
          PROVE  m[i][C] <= m[i][C \cup {u}] /\ m[i][C \cup {u}] <= m[i][C] + 1
      BY <1>2, <1>6, <2>1, <3>1, MoreBefore
    <3>2. QED
      BY <3>1 DEF More
  <2>3. Other(m[i], P, n)
    <3>1. ASSUME NEW C \in SUBSET P, NEW u \in P, NEW v \in P,
                 Spare(P, n, C, u), Spare(P, n, C, v)
          PROVE  m[i][C \cup {u}] <= m[i][C \cup {v}] + 1
      BY <1>2, <1>6, <2>1, <3>1, OtherBefore
    <3>2. QED
      BY <3>1 DEF Other
  <2>4. Later(m[i], w, i, P, n)
    <3>1. ASSUME NEW C \in SUBSET P, NEW u \in P, NEW v \in P, u # v,
                 Spare(P, n, C, u), Spare(P, n, C, v), Sooner(w, i, v, u)
          PROVE  m[i][C \cup {u}] <= m[i][C \cup {v}]
      BY <1>2, <1>6, <2>1, <3>1, LaterBefore
    <3>2. QED
      BY <3>1 DEF Later
  <2>5. QED
    BY <2>2, <2>3, <2>4
<1> DEFINE Ks == {j \in 0..l : Good(l + 1 - j)}
<1> HIDE DEF Good
<1>7. 0 \in Ks
  <2>1. l + 1 - 0 = l + 1 /\ 0 \in 0..l
    BY <1>1
  <2>2. QED
    BY <1>5, <2>1
<1>8. ASSUME NEW j \in 0..(l - 1), j \in Ks PROVE j + 1 \in Ks
  <2> DEFINE i == l + 1 - (j + 1)
  <2>1. i \in 1..l /\ i + 1 = l + 1 - j /\ j + 1 \in 0..l
    BY <1>1
  <2> HIDE DEF i
  <2>2. Good(i + 1)
    BY <1>8, <2>1
  <2>3. Good(i)
    BY <1>6, <2>1, <2>2
  <2>4. QED
    BY <2>1, <2>3 DEF i
<1> HIDE DEF Ks
<1>9. \A j \in 0..l : j \in Ks
  <2>1. \A j \in 0..(l - 1) : j \in Ks => j + 1 \in Ks
    BY <1>8
  <2>2. l \in Nat
    BY <1>1
  <2> HIDE DEF l
  <2>3. QED
    BY <1>7, <2>1, <2>2, UpTo
<1>10. l + 1 - k \in 0..l /\ l + 1 - (l + 1 - k) = k
  BY <1>1
<1>11. QED
  BY <1>9, <1>10 DEF Ks, Good, P

(* The next use of a page is the first one there is.                       *)
LEMMA NextUseAt ==
  ASSUME time \in Nat, NEW page
  PROVE  /\ \A i \in (time + 1)..Accesses : workload[i] = page => NextUse(page) <= i
         /\ NextUse(page) <= Accesses =>
              NextUse(page) \in (time + 1)..Accesses /\ workload[NextUse(page)] = page
<1> DEFINE uses == {k \in (time + 1)..Accesses : workload[k] = page}
<1>1. Accesses \in Nat
  BY PagingAssumption
<1>2. uses \in SUBSET Nat
  BY <1>1
<1>3. NextUse(page) = IF uses = {} THEN Accesses + 1 ELSE Minimum(uses)
  BY DEF NextUse
<1>4. CASE uses = {}
  BY <1>1, <1>3, <1>4
<1>5. CASE uses # {}
  <2>1. NextUse(page) \in uses /\ \A k \in uses : NextUse(page) <= k
    <3> HIDE DEF uses
    <3>1. QED
      BY <1>2, <1>3, <1>5, MinimumIs
  <2>2. QED
    BY <2>1
<1>6. QED
  BY <1>4, <1>5

(* OPT's victim is asked for last of all the pages it holds.               *)
LEMMA VictimIsLast ==
  ASSUME WorkTyped, time < Accesses, NEW s \in Seq(Page), s # << >>,
         workload[time + 1] \notin Range(s)
  PROVE  LET k == FurthestOut(s)
         IN /\ k \in 1..Len(s)
            /\ \A v \in Range(s) : v # s[k] => Sooner(workload, time + 2, v, s[k])
<1> DEFINE k == FurthestOut(s)
<1>1. time \in Nat /\ Accesses \in Nat
  BY PagingAssumption DEF WorkTyped
<1>2. k \in 1..Len(s) /\ DOMAIN s = 1..Len(s)
  BY <1>1, FurthestOutIs
<1>3. \A j \in DOMAIN s : NextUse(s[j]) <= NextUse(s[k])
  BY <1>1, <1>2, FurthestOutIs
<1> HIDE DEF k
<1>4. ASSUME NEW v \in Range(s), v # s[k] PROVE Sooner(workload, time + 2, v, s[k])
  <2>1. PICK j \in DOMAIN s : v = s[j]
    BY DEF Range
  <2>2. NextUse(v) <= NextUse(s[k])
    BY <1>3, <2>1
  <2>3. ASSUME NEW i \in (time + 2)..Accesses, workload[i] = s[k]
        PROVE  \E h \in (time + 2)..i : workload[h] = v
    <3>1. i \in (time + 1)..Accesses
      BY <1>1
    <3>2. NextUse(s[k]) <= i
      BY <1>1, <2>3, <3>1, NextUseAt
    <3>3. NextUse(v) \in (time + 1)..Accesses /\ workload[NextUse(v)] = v
      <4>1. NextUse(v) \in Nat /\ NextUse(s[k]) \in Nat
        BY <1>1, NextUseIs
      <4>2. NextUse(v) <= Accesses
        BY <1>1, <2>2, <3>1, <3>2, <4>1
      <4>3. QED
        BY <1>1, <4>1, <4>2, NextUseAt
    <3>4. NextUse(v) # time + 1
      BY <3>3
    <3>5. NextUse(v) <= i
      BY <1>1, <2>2, <3>1, <3>2, <3>3, NextUseIs
    <3>6. NextUse(v) \in (time + 2)..i
      BY <1>1, <3>3, <3>4, <3>5
    <3>7. QED
      BY <3>3, <3>6
  <2>4. QED
    BY <2>3 DEF Sooner
<1>5. QED
  BY <1>2, <1>4 DEF k

(* A page can be had for another of a full cache.                          *)
LEMMA TwoOut ==
  ASSUME NEW P, IsFiniteSet(P), NEW n \in Nat \ {0}, NEW C \in SUBSET P, Cardinality(C) = n,
         NEW x \in P \ C, NEW u \in C, NEW v \in C, u # v
  PROVE  LET D == (C \ {u, v}) \cup {x}
         IN /\ Spare(P, n, D, u) /\ Spare(P, n, D, v)
            /\ D \cup {u} = (C \ {v}) \cup {x} /\ D \cup {v} = (C \ {u}) \cup {x}
<1> DEFINE E == C \ {u}
           F == E \ {v}
<1>1. IsFiniteSet(C)
  BY FS_Subset
<1>2. IsFiniteSet(E) /\ Cardinality(E) = n - 1
  BY <1>1, FS_RemoveElement
<1>3. IsFiniteSet(F) /\ Cardinality(F) = n - 1 - 1
  <2>1. v \in E
    OBVIOUS
  <2> HIDE DEF E
  <2>2. QED
    BY <1>2, <2>1, FS_RemoveElement
<1>4. Cardinality(F \cup {x}) = n - 1
  <2>1. x \notin F
    OBVIOUS
  <2> HIDE DEF F
  <2>2. Cardinality(F \cup {x}) = (n - 1 - 1) + 1
    BY <1>3, <2>1, FS_AddElement
  <2>3. QED
    BY <2>2
<1>5. F \cup {x} = (C \ {u, v}) \cup {x}
  OBVIOUS
<1>6. Cardinality((C \ {u, v}) \cup {x}) < n
  BY <1>4, <1>5
<1>7. QED
  BY <1>6 DEF Spare

(* What OPT scores at an access is what the best choice does.              *)
LEMMA OPTPlays ==
  ASSUME WorkTyped, time < Accesses, NEW n \in Nat \ {0}, NEW r, PagedFits(r, n),
         NEW m, Scores(m, workload, n), Range(r.cache) \subseteq Asked(workload)
  PROVE  LET q == OPT(r, workload[time + 1], n)
         IN /\ Range(q.cache) \subseteq Asked(workload)
            /\ q.hits + m[time + 2][Range(q.cache)] = r.hits + m[time + 1][Range(r.cache)]
<1> DEFINE P == Asked(workload)
           x == workload[time + 1]
           q == OPT(r, x, n)
           s == r.cache
           C == Range(r.cache)
           f == m[time + 1]
           g == m[time + 2]
<1>1. /\ workload \in NoLocality /\ time \in Nat /\ Accesses \in Nat \ {0}
      /\ time + 1 \in 1..Accesses /\ (time + 1) + 1 = time + 2
      /\ time + 1 \in 1..(Accesses + 1) /\ time + 2 \in 1..(Accesses + 1)
  BY PagingAssumption DEF WorkTyped
<1>2. IsFiniteSet(P) /\ x \in P /\ P \subseteq Page
  BY <1>1, AskedIs
<1>3. /\ r \in PagedRecord /\ r.hits \in Nat /\ s \in Seq(Page) /\ IsInjective(s)
      /\ Len(s) \in Nat /\ Len(s) <= n
  BY DEF PagedFits, PagedRecord, Fits
<1>4. Cardinality(C) = Len(s) /\ C \in SUBSET P
  BY <1>3, LengthIsCardinality
<1>5. f \in [SUBSET P -> Nat] /\ g \in [SUBSET P -> Nat]
  BY <1>1 DEF Scores
<1>6. Plays(f, g, x, C, n)
  <2>1. f[C] = Played(g, x, C, n)
    BY <1>1, <1>4 DEF Scores
  <2> HIDE DEF P, x, C, f, g
  <2>2. QED
    BY <1>2, <1>4, <1>5, <2>1, PlayedIs
<1>7. time + 1 = Accesses => \A in \in SUBSET P : g[in] = 0
  <2>1. time + 1 = Accesses => time + 2 = Accesses + 1
    BY <1>1
  <2>2. QED
    BY <2>1 DEF Scores
<1>8. Later(g, workload, time + 2, P, n)
  BY <1>1, Exchange
<1>9. f[C] \in Nat /\ g[C] \in Nat
  BY <1>4, <1>5
<1>10. CASE Present(r, x)
  <2>1. q.cache = s /\ q.hits = r.hits + 1
    BY <1>3, <1>10 DEF OPT, Counted, PagedRecord
  <2>2. f[C] = 1 + g[C]
    BY <1>6, <1>10 DEF Plays, Present
  <2>3. Range(q.cache) = C
    BY <2>1
  <2> HIDE DEF q, x, f, g, C, P
  <2>4. Range(q.cache) \subseteq P /\ q.hits + g[Range(q.cache)] = r.hits + f[C]
    BY <1>3, <1>4, <1>9, <2>1, <2>2, <2>3
  <2>5. QED
    BY <2>4 DEF q, x, f, g, C, P
<1>11. CASE ~Present(r, x) /\ ~Full(r, n)
  <2>1. q.cache = Append(s, x) /\ q.hits = r.hits
    BY <1>3, <1>11 DEF OPT, PagedRecord
  <2>2. Range(Append(s, x)) = C \cup {x}
    BY <1>2, <1>3, <1>11, AppendHolds DEF Present
  <2>3. f[C] = g[C \cup {x}]
    <3>1. Cardinality(C) < n /\ x \notin C
      BY <1>3, <1>4, <1>11 DEF Full, Present
    <3>2. QED
      BY <1>6, <3>1 DEF Plays
  <2>4. QED
    BY <1>2, <1>4, <2>1, <2>2, <2>3
<1>12. CASE ~Present(r, x) /\ Full(r, n)
  <2>1. x \notin C /\ Cardinality(C) = n /\ Len(s) = n /\ s # << >>
    BY <1>3, <1>4, <1>12 DEF Present, Full
  <2>2. /\ \A v \in C : g[(C \ {v}) \cup {x}] <= f[C]
        /\ \E v \in C : f[C] = g[(C \ {v}) \cup {x}]
    BY <1>6, <2>1 DEF Plays
  <2>3. CASE time + 1 = Accesses
    <3>1. q = r
      BY <1>12, <2>3 DEF OPT
    <3>2. g[C] = 0
      BY <1>4, <1>7, <2>3
    <3>3. PICK v \in C : f[C] = g[(C \ {v}) \cup {x}]
      BY <2>2
    <3>4. (C \ {v}) \cup {x} \in SUBSET P
      BY <1>2, <1>4
    <3>5. f[C] = 0
      BY <1>7, <2>3, <3>3, <3>4
    <3>6. QED
      BY <1>3, <1>4, <3>1, <3>2, <3>5
  <2>4. CASE time + 1 # Accesses
    <3> DEFINE k == FurthestOut(s)
               u == s[k]
    <3>1. q.cache = Replaced(s, k, x) /\ q.hits = r.hits
      BY <1>3, <1>12, <2>4 DEF OPT, PagedRecord
    <3>2. k \in 1..Len(s) /\ \A v \in C : v # u => Sooner(workload, time + 2, v, u)
      BY <1>3, <2>1, VictimIsLast
    <3> HIDE DEF k
    <3>3. Range(Replaced(s, k, x)) = (C \ {u}) \cup {x}
      BY <1>2, <1>3, <2>1, <3>2, ReplacedHolds
    <3>4. u \in C
      BY <1>3, <3>2 DEF Range
    <3>5. PICK v \in C : f[C] = g[(C \ {v}) \cup {x}]
      BY <2>2
    <3> HIDE DEF u, x, f, g, C, P
    <3>6. g[(C \ {v}) \cup {x}] <= g[(C \ {u}) \cup {x}]
      <4>1. CASE v = u
        <5>1. (C \ {v}) \cup {x} \in SUBSET P
          BY <1>2, <1>4
        <5>2. g[(C \ {v}) \cup {x}] \in Nat
          BY <1>5, <5>1
        <5>3. QED
          BY <4>1, <5>2
      <4>2. CASE v # u
        <5> DEFINE D == (C \ {u, v}) \cup {x}
        <5>1. Sooner(workload, time + 2, v, u)
          BY <3>2, <4>2
        <5>2. /\ Spare(P, n, D, u) /\ Spare(P, n, D, v)
              /\ D \cup {u} = (C \ {v}) \cup {x} /\ D \cup {v} = (C \ {u}) \cup {x}
          BY <1>2, <1>4, <2>1, <3>4, <4>2, TwoOut
        <5> HIDE DEF D
        <5>3. g[D \cup {u}] <= g[D \cup {v}]
          BY <1>8, <4>2, <5>1, <5>2 DEF Later, Spare
        <5>4. QED
          BY <5>2, <5>3
      <4>3. QED
        BY <4>1, <4>2
    <3>7. g[(C \ {u}) \cup {x}] <= f[C]
      BY <2>2, <3>4
    <3>8. (C \ {u}) \cup {x} \in SUBSET P
      BY <1>2, <1>4
    <3>9. g[(C \ {u}) \cup {x}] \in Nat
      BY <1>5, <3>8
    <3>10. g[(C \ {u}) \cup {x}] = f[C]
      BY <1>9, <3>5, <3>6, <3>7, <3>9
    <3>11. Range(q.cache) = (C \ {u}) \cup {x}
      BY <3>1, <3>3
    <3> HIDE DEF q
    <3>12. Range(q.cache) \subseteq P /\ q.hits + g[Range(q.cache)] = r.hits + f[C]
      BY <3>1, <3>8, <3>10, <3>11
    <3>13. QED
      BY <3>12 DEF q, x, f, g, C, P
  <2>5. QED
    BY <2>3, <2>4
<1>13. QED
  BY <1>10, <1>11, <1>12

(* What OPT has scored and the best that can be scored from here on, with  *)
(* the pages it holds, are together the best that there is.                *)
OptOnCourse ==
  \A n \in Sizes :
    /\ Range(opt[n].cache) \subseteq Asked(workload)
    /\ \A m : Scores(m, workload, n) =>
         opt[n].hits + m[time + 1][Range(opt[n].cache)] = m[1][{}]

(* With no access made, all that can be scored lies ahead.                 *)
LEMMA OnCourseInit ==
  Init => OptOnCourse
<1> SUFFICES ASSUME Init PROVE OptOnCourse
  OBVIOUS
<1>1. workload \in NoLocality
  BY WorkloadOfPages DEF Init
<1>2. ASSUME NEW n \in Sizes
      PROVE  opt[n].cache = << >> /\ opt[n].hits = 0 /\ time = 0 /\ Range(<< >>) = {}
  BY DEF Init, Range
<1>3. ASSUME NEW n \in Sizes, NEW m, Scores(m, workload, n)
      PROVE  opt[n].hits + m[time + 1][Range(opt[n].cache)] = m[1][{}]
  <2>1. m[1] \in [SUBSET Asked(workload) -> Nat]
    <3>1. 1 \in 1..(Accesses + 1)
      BY PagingAssumption
    <3>2. QED
      BY <1>3, <3>1 DEF Scores
  <2>2. m[1][{}] \in Nat
    BY <2>1
  <2>3. time + 1 = 1 /\ Range(opt[n].cache) = {} /\ opt[n].hits = 0
    BY <1>2
  <2>4. m[time + 1][Range(opt[n].cache)] = m[1][{}]
    BY <2>3
  <2>5. QED
    BY <2>2, <2>3, <2>4
<1>4. QED
  BY <1>2, <1>3 DEF OptOnCourse

(* No access takes OPT off its course.                                     *)
LEMMA OnCourseStep ==
  TypeInv /\ OptOnCourse /\ [Access]_vars => OptOnCourse'
<1> SUFFICES ASSUME TypeInv, OptOnCourse, [Access]_vars PROVE OptOnCourse'
  OBVIOUS
<1>1. CASE Access
  <2>1. /\ WorkTyped /\ time < Accesses /\ time' = time + 1 /\ workload' = workload
        /\ time' + 1 = time + 2
    BY <1>1, PagingAssumption DEF TypeInv, WorkTyped, Access
  <2>2. ASSUME NEW n \in Sizes
        PROVE  /\ n \in Nat \ {0} /\ PagedFits(opt[n], n)
               /\ opt'[n] = OPT(opt[n], workload[time + 1], n)
               /\ Range(opt[n].cache) \subseteq Asked(workload)
    BY <1>1, PagingAssumption DEF TypeInv, CachesFit, Access, OptOnCourse
  <2>3. ASSUME NEW n \in Sizes, NEW m, Scores(m, workload, n)
        PROVE  opt'[n].hits + m[time + 2][Range(opt'[n].cache)] = m[1][{}]
    <3>1. opt'[n].hits + m[time + 2][Range(opt'[n].cache)]
            = opt[n].hits + m[time + 1][Range(opt[n].cache)]
      BY <2>1, <2>2, <2>3, OPTPlays
    <3>2. QED
      BY <2>3, <3>1 DEF OptOnCourse
  <2>4. ASSUME NEW n \in Sizes
        PROVE  Range(opt'[n].cache) \subseteq Asked(workload)
    <3>1. PICK m : Scores(m, workload, n)
      BY <2>1, <2>2, MostHitsIs DEF WorkTyped
    <3>2. QED
      BY <2>1, <2>2, <3>1, OPTPlays
  <2>5. ASSUME NEW n \in Sizes, NEW m, Scores(m, workload', n)
        PROVE  opt'[n].hits + m[time' + 1][Range(opt'[n].cache)] = m[1][{}]
    BY <2>1, <2>3, <2>5
  <2>6. QED
    BY <2>1, <2>4, <2>5 DEF OptOnCourse
<1>2. CASE UNCHANGED vars
  BY <1>2 DEF vars, caches, OptOnCourse
<1>3. QED
  BY <1>1, <1>2

(* When the workload is used up, nothing lies ahead.                       *)
LEMMA OnCourseIsOptimal ==
  TypeInv /\ OptOnCourse => OptOptimal
<1> SUFFICES ASSUME TypeInv, OptOnCourse, time = Accesses, NEW n \in Sizes
             PROVE  opt[n].hits = Best!MostHits(workload, n)
  BY DEF OptOptimal
<1>1. n \in Nat \ {0} /\ workload \in NoLocality /\ opt[n].hits \in Nat
  BY PagingAssumption DEF TypeInv, WorkTyped, CachesFit, PagedFits, PagedRecord
<1>2. PICK m : Scores(m, workload, n) /\ Best!MostHits(workload, n) = m[1][{}]
  BY <1>1, MostHitsIs
<1>3. m[time + 1][Range(opt[n].cache)] = 0
  BY <1>2 DEF OptOnCourse, Scores
<1>4. opt[n].hits + m[time + 1][Range(opt[n].cache)] = m[1][{}]
  BY <1>2 DEF OptOnCourse
<1>5. QED
  BY <1>1, <1>2, <1>3, <1>4

(* OPT is optimal: when it is through with a workload, whatever it is, no  *)
(* other choice of victims would have scored more hits than the code's     *)
(* crossing off of the pages that are used again soonest.                  *)
THEOREM OptIsOptimal ==
  Spec => []OptOptimal
<1>1. Init => TypeInv /\ OptOnCourse
  BY TypeInvInit, OnCourseInit
<1>2. TypeInv /\ OptOnCourse /\ [Access]_vars => TypeInv' /\ OptOnCourse'
  BY TypeInvStep, OnCourseStep
<1>3. TypeInv /\ OptOnCourse => OptOptimal
  BY OnCourseIsOptimal
<1>4. QED
  BY <1>1, <1>2, <1>3, PTL DEF Spec

=============================================================================
