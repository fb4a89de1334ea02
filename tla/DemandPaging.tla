---------------------------- MODULE DemandPaging ----------------------------
(***************************************************************************)
(* What every replacement algorithm of Prog3 promises, whatever page it    *)
(* chooses to evict: demand paging.  A page is loaded only when it is      *)
(* accessed and missing, at the cost of one other page at most, and of     *)
(* none before the cache is full.                                          *)
(***************************************************************************)
EXTENDS Integers, FiniteSetsExt

CONSTANTS
  Caches,       \* the caches that are fed the same workload
  SizeOf,       \* how many pages each of them holds
  Accesses      \* the length of the workload

VARIABLES
  workload,     \* the pages accessed, in order
  time,         \* how many accesses have been made
  held,         \* the pages in each cache
  hits          \* the accesses that found their page, per cache

vars == <<workload, time, held, hits>>

Init ==
  /\ time = 0
  /\ held = [c \in Caches |-> {}]
  /\ hits = [c \in Caches |-> 0]

Hit(c, x) ==
  /\ x \in held[c]
  /\ held'[c] = held[c]
  /\ hits'[c] = hits[c] + 1

Load(c, x) ==
  /\ x \notin held[c] /\ Cardinality(held[c]) < SizeOf[c]
  /\ held'[c] = held[c] \cup {x}
  /\ hits'[c] = hits[c]

Replace(c, x) ==
  /\ x \notin held[c] /\ Cardinality(held[c]) = SizeOf[c]
  /\ \E victim \in held[c] : held'[c] = (held[c] \ {victim}) \cup {x}
  /\ hits'[c] = hits[c]

(* Nothing will be asked of the page loaded last, so it may be left out.   *)
Bypass(c, x) ==
  /\ x \notin held[c] /\ Cardinality(held[c]) = SizeOf[c]
  /\ time + 1 = Accesses
  /\ held'[c] = held[c]
  /\ hits'[c] = hits[c]

Access ==
  /\ time < Accesses
  /\ time' = time + 1
  /\ UNCHANGED workload
  /\ \A c \in Caches :
       LET x == workload[time + 1]
       IN Hit(c, x) \/ Load(c, x) \/ Replace(c, x) \/ Bypass(c, x)

Spec == Init /\ [][Access]_vars

(* The most hits that demand paging in a cache of the given size can score *)
(* on w, over every choice of victims.                                     *)
MostHits(w, size) ==
  LET asked == {w[k] : k \in 1..Accesses}
      most[k \in 1..(Accesses + 1)] ==
        [in \in SUBSET asked |->
           IF k > Accesses THEN 0
           ELSE IF w[k] \in in THEN 1 + most[k + 1][in]
           ELSE IF Cardinality(in) < size THEN most[k + 1][in \cup {w[k]}]
           ELSE Max({most[k + 1][(in \ {v}) \cup {w[k]}] : v \in in})]
  IN most[1][{}]

=============================================================================
