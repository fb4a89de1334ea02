--------------------------- MODULE PageReplacement ---------------------------
(***************************************************************************)
(* Prog3: the workload generators of Helper and its five page replacement  *)
(* algorithms (helper.cpp).  main calls the algorithms one after another   *)
(* on the same workload, for caches of several sizes; they share nothing   *)
(* else, so one step here is the same turn of all their loops.             *)
(***************************************************************************)
EXTENDS Integers, Sequences, FiniteSets, Functions

CONSTANTS
  Pages,        \* Helper::pages
  Accesses,     \* Helper::accesses
  ColdFrom,     \* the 20 that generate_e_t adds to a cold page, of 100
  Sizes         \* the cache sizes main tries

(* main tries 5, 10, ..., 100: with a cache of one page Rand would divide  *)
(* by zero (its rand() % (cache_size - 1)), and with one page in all the   *)
(* loop would have none to go round.                                       *)
ASSUME PagingAssumption ==
  /\ Pages \in Nat \ {0, 1} /\ Accesses \in Nat \ {0}
  /\ ColdFrom = (Pages - 1) \div 5 + 1
  /\ Sizes \subseteq Nat \ {0, 1} /\ IsFiniteSet(Sizes)

VARIABLES
  workload,     \* the vector handed to the algorithms
  time,         \* i, the accesses made so far
  fifo, lru, random, opt, clock   \* the locals of each algorithm, by size

caches == <<fifo, lru, random, opt, clock>>
vars   == <<workload, time, caches>>

Minimum(S) == CHOOSE m \in S : \A k \in S : m <= k
Maximum(S) == CHOOSE m \in S : \A k \in S : m >= k

-----------------------------------------------------------------------------
(* Workloads: a sequence of pages, as long as there are accesses.          *)

NoLocality == [1..Accesses -> 1..Pages]

(* Four accesses of five go to the first fifth of the pages, the others    *)
(* beyond it; then all are shuffled.                                       *)
HotPages  == 1..((Pages - 1) \div 5 + 1)
ColdPages == {k + ColdFrom + 1 : k \in 0..(Pages - ColdFrom - 1)}
HotCount  == (4 * Accesses + 4) \div 5

EightyTwenty ==
  {w \in [1..Accesses -> HotPages \cup ColdPages] :
     Cardinality({k \in 1..Accesses : w[k] \in HotPages}) = HotCount}

Looping == [k \in 1..Accesses |-> ((k - 1) % (Pages \div 2)) + 1]

-----------------------------------------------------------------------------
(* The algorithms.  Each operator is one turn of its loop: with page x, in *)
(* a cache of n pages.                                                     *)

Present(r, x) == x \in Range(r.cache)
Counted(r)    == [r EXCEPT !.hits = @ + 1]

(* Mutants of Full: one page early, and one page late.                     *)
FullEarly(r, n) == Len(r.cache) + 1 = n
FullLate(r, n)  == Len(r.cache) > n

Full(r, n) == Len(r.cache) = n

(* erase the k-th page and push_back x *)
Replaced(s, k, x) == SubSeq(s, 1, k - 1) \o SubSeq(s, k + 1, Len(s)) \o <<x>>

(* Mutants of FIFO: the newest page goes first; room in the cache does not *)
(* matter.                                                                 *)
FIFOPopsBack(r, x, n) ==
  IF Present(r, x) THEN Counted(r)
  ELSE [r EXCEPT !.cache = IF Full(r, n) THEN Replaced(@, n, x) ELSE Append(@, x)]

FIFOAlwaysErases(r, x, n) ==
  IF Present(r, x) THEN Counted(r) ELSE [r EXCEPT !.cache = Replaced(@, 1, x)]

FIFO(r, x, n) ==
  IF Present(r, x) THEN Counted(r)
  ELSE [r EXCEPT !.cache = IF Full(r, n) THEN Replaced(@, 1, x) ELSE Append(@, x)]

(* Mutant of Moved: x changes places with the head.                        *)
MovedSwaps(s, p, x) ==
  [k \in 1..Maximum({p, Len(s)}) |-> IF k = 1 THEN x ELSE s[IF k = p THEN 1 ELSE k]]

(* x comes to the head of s, and what was before the p-th place shifts.    *)
Moved(s, p, x) ==
  [k \in 1..Maximum({p, Len(s)}) |-> IF k = 1 THEN x ELSE s[IF k <= p THEN k - 1 ELSE k]]

(* The head of the list is the page used last.  The code asks its map ma   *)
(* from pages to places in the list, here the set of its keys: a hit moves *)
(* the page from its place to the head, a miss shifts the last one out.    *)
LRU(r, x, n) ==
  LET hit  == x \in r.keys
      full == Full(r, n)
      p    == IF hit THEN CHOOSE k \in 1..Len(r.cache) : r.cache[k] = x
              ELSE IF full THEN Len(r.cache) ELSE Len(r.cache) + 1
      gone == IF full /\ ~hit THEN {r.cache[Len(r.cache)]} ELSE {}
  IN [cache |-> Moved(r.cache, p, x),
      keys  |-> (r.keys \ gone) \cup {x},
      hits  |-> IF hit THEN r.hits + 1 ELSE r.hits]

(* index is rand() % (cache_size - 1), counted from 0.                     *)
Rand(r, x, n, index) ==
  IF Present(r, x) THEN Counted(r)
  ELSE [r EXCEPT !.cache = IF Full(r, n) THEN Replaced(@, index + 1, x) ELSE Append(@, x)]

(* Mutant of Indexes: rand() % cache_size.                                *)
IndexesAll == {pick \in [Sizes -> 0..(Maximum(Sizes) - 1)] :
                 \A n \in Sizes : pick[n] <= n - 1}

Indexes == {pick \in [Sizes -> 0..(Maximum(Sizes) - 2)] :
              \A n \in Sizes : pick[n] <= n - 2}

(* Mutant of NextUse: the search begins at the start of the workload.      *)
NextUseFromStart(page) ==
  LET uses == {k \in 1..Accesses : workload[k] = page}
  IN IF uses = {} THEN Accesses + 1 ELSE Minimum(uses)

NextUse(page) ==
  LET uses == {k \in (time + 1)..Accesses : workload[k] = page}
  IN IF uses = {} THEN Accesses + 1 ELSE Minimum(uses)

(* OPT crosses the pages that are accessed from now on off its copy of the *)
(* cache, in the order of their first use, until one is left: the first of *)
(* those that are never used again, or else the one whose next use is last.*)
FurthestOut(s) ==
  CHOOSE k \in DOMAIN s :
    \A j \in DOMAIN s :
      \/ NextUse(s[j]) < NextUse(s[k])
      \/ NextUse(s[j]) = NextUse(s[k]) /\ k <= j

(* Nothing is loaded by a miss of the last access, if the cache is full.   *)
OPT(r, x, n) ==
  IF Present(r, x) THEN Counted(r)
  ELSE IF ~Full(r, n) THEN [r EXCEPT !.cache = Append(@, x)]
  ELSE IF time + 1 = Accesses THEN r
  ELSE [r EXCEPT !.cache = Replaced(@, FurthestOut(@), x)]

(* The hand, counted from 0, goes round from where it is to the first page *)
(* whose use bit is clear; when all are set, they are cleared on the way   *)
(* and it comes back to where it was.                                      *)
At(r, k) == r.cache[((r.hand + k) % Len(r.cache)) + 1]

(* Mutant of Turns: the page under the hand is not looked at.              *)
TurnsFromNext(r) ==
  LET n == Len(r.cache)
  IN Minimum({n} \cup {k \in 1..(n - 1) : ~r.bits[At(r, k)]})

Turns(r) ==
  LET n == Len(r.cache)
  IN Minimum({n} \cup {k \in 0..(n - 1) : ~r.bits[At(r, k)]})

(* A page loaded in place of another goes to the end with its bit set, one *)
(* loaded before the cache was full has it clear.                          *)
Clock(r, x, n) ==
  LET turns  == Turns(r)
      victim == At(r, turns)
      passed == {At(r, k) : k \in 0..(turns - 1)}
      hand   == (r.hand + turns) % Len(r.cache)
  IN IF Present(r, x) THEN [Counted(r) EXCEPT !.bits[x] = TRUE]
     ELSE IF ~Full(r, n)
     THEN [r EXCEPT !.cache = Append(@, x),
                    !.bits = [p \in DOMAIN @ \cup {x} |-> p \in DOMAIN @ /\ @[p]]]
     ELSE [r EXCEPT !.cache = Replaced(@, hand + 1, x),
                    !.bits = [p \in (DOMAIN @ \ {victim}) \cup {x} |->
                                p = x \/ (p \notin passed /\ @[p])],
                    !.hand = hand]

-----------------------------------------------------------------------------
Init ==
  /\ workload \in NoLocality \cup EightyTwenty \cup {Looping}
  /\ time = 0
  /\ fifo   = [n \in Sizes |-> [cache |-> << >>, hits |-> 0]]
  /\ lru    = [n \in Sizes |-> [cache |-> << >>, keys |-> {}, hits |-> 0]]
  /\ random = [n \in Sizes |-> [cache |-> << >>, hits |-> 0]]
  /\ opt    = [n \in Sizes |-> [cache |-> << >>, hits |-> 0]]
  /\ clock  = [n \in Sizes |-> [cache |-> << >>, bits |-> << >>, hand |-> 0, hits |-> 0]]

Access ==
  /\ time < Accesses
  /\ time' = time + 1
  /\ UNCHANGED workload
  /\ LET x == workload[time + 1] IN
       /\ fifo'  = [n \in Sizes |-> FIFO(fifo[n], x, n)]
       /\ lru'   = [n \in Sizes |-> LRU(lru[n], x, n)]
       /\ \E pick \in Indexes :
            random' = [n \in Sizes |-> Rand(random[n], x, n, pick[n])]
       /\ opt'   = [n \in Sizes |-> OPT(opt[n], x, n)]
       /\ clock' = [n \in Sizes |-> Clock(clock[n], x, n)]

(* The algorithms return when the workload is used up. *)
Spec == Init /\ [][Access]_vars

-----------------------------------------------------------------------------
(* Properties *)

States == [n \in Sizes |-> <<fifo[n], lru[n], random[n], opt[n], clock[n]>>]

(* Types, with what the algorithms rely on between two accesses: no page   *)
(* is held twice, the list of LRU and its map agree, and so do the pages   *)
(* of the clock and its use bits.                                          *)
TypeOK ==
  /\ workload \in NoLocality
  /\ time \in 0..Accesses
  /\ \A n \in Sizes :
       /\ \A a \in 1..5 :
            LET r == States[n][a]
            IN /\ r.cache \in Seq(1..Pages) /\ Len(r.cache) <= n /\ IsInjective(r.cache)
               /\ r.hits \in 0..time
       /\ lru[n].keys = Range(lru[n].cache)
       /\ clock[n].bits \in [Range(clock[n].cache) -> BOOLEAN]
       /\ clock[n].hand \in 0..(n - 1)

(* The list of LRU holds the pages used most recently, newest first: the   *)
(* order kept by moving pages to the head is that of their last uses.      *)
LastUse(page) == Maximum({0} \cup {k \in 1..time : workload[k] = page})

LruRecency ==
  \A n \in Sizes :
    LET c == lru[n].cache
    IN /\ \A j, k \in DOMAIN c : j < k => LastUse(c[j]) > LastUse(c[k])
       /\ \A page \in (1..Pages) \ Range(c) :
            LastUse(page) > 0 => Len(c) = n /\ LastUse(page) < LastUse(c[n])

(* A larger LRU cache holds what a smaller one holds, in the same order,   *)
(* and never scores fewer hits (which FIFO does not promise).              *)
LruInclusion ==
  \A m, n \in Sizes :
    m <= n => /\ \A k \in DOMAIN lru[m].cache :
                   k \in DOMAIN lru[n].cache /\ lru[m].cache[k] = lru[n].cache[k]
              /\ lru[m].hits <= lru[n].hits

(* No choice of victims scores more hits than OPT did when it is through   *)
(* with the workload.                                                      *)
Best == INSTANCE DemandPaging WITH
  Caches <- {}, SizeOf <- << >>, held <- << >>, hits <- << >>

OptOptimal ==
  time = Accesses => \A n \in Sizes : opt[n].hits = Best!MostHits(workload, n)

(* The page that FIFO or Rand loaded last is not the next one they evict:  *)
(* Rand never draws the last index.                                        *)
NewestSpared ==
  [][\A n \in Sizes :
       /\ fifo[n].cache # << >> =>
            fifo[n].cache[Len(fifo[n].cache)] \in Range(fifo'[n].cache)
       /\ random[n].cache # << >> =>
            random[n].cache[Len(random[n].cache)] \in Range(random'[n].cache)]_vars

(* As long as the clock has had no hit it is FIFO: although the hand stays *)
(* where the victim was and the new page goes to the end, the ring keeps   *)
(* the order in which the pages came.                                      *)
ClockFifoUntilHit ==
  \A n \in Sizes : clock[n].hits = 0 => clock[n].cache = fifo[n].cache

(* As long as the pages seen fit the cache, every algorithm hits all but   *)
(* the first use of each: nothing is evicted one page too early.           *)
ColdMissesOnly ==
  LET seen == {workload[k] : k \in 1..time}
  IN \A n \in Sizes, a \in 1..5 :
       Cardinality(seen) <= n => States[n][a].hits = time - Cardinality(seen)

(* A loop one page longer than the cache is the worst case of FIFO, LRU    *)
(* and the clock: they never hit, as the zeros of loop_data.csv record.    *)
LoopThrashes ==
  \A n \in Sizes :
    workload = Looping /\ n < Pages \div 2 =>
      fifo[n].hits = 0 /\ lru[n].hits = 0 /\ clock[n].hits = 0

(* Whatever they evict, all five implement demand paging.                  *)
AllCaches == (1..5) \X Sizes

Demand == INSTANCE DemandPaging WITH
  Caches <- AllCaches,
  SizeOf <- [c \in AllCaches |-> c[2]],
  held   <- [c \in AllCaches |-> Range(States[c[2]][c[1]].cache)],
  hits   <- [c \in AllCaches |-> States[c[2]][c[1]].hits]

DemandSpec == Demand!Spec

=============================================================================
