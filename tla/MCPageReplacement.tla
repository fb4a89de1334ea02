-------------------------- MODULE MCPageReplacement --------------------------
(* PageReplacement for TLC: caches of two and of three pages, fed every     *)
(* workload up to a renaming of its pages, and the 80/20 ones as they are.  *)
(* The algorithms compare pages for equality and nothing else, so of the    *)
(* workloads that differ by the names of their pages one is enough: the one *)
(* that uses the pages in the order 1, 2, ... .                             *)
EXTENDS PageReplacement

MCSizes == {2, 3}

InOrder[k \in 0..Accesses] ==
  IF k = 0 THEN {<< >>}
  ELSE UNION {{Append(w, page) : page \in 1..Minimum({Pages, Maximum({0} \cup Range(w)) + 1})} :
                w \in InOrder[k - 1]}

MCInit == workload \in InOrder[Accesses] \cup EightyTwenty /\ Init
MCSpec == MCInit /\ [][Access]_vars

=============================================================================
