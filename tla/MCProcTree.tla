------------------------------ MODULE MCProcTree ------------------------------
(* ProcTree for TLC: every command line of at most three of the options     *)
(* below, which ask for two levels of two processes at most, and trees of   *)
(* three levels and of three children.                                      *)
EXTENDS ProcTree

Options == {<<"N", 2>>, <<"N", 258>>, <<"N", 5>>, <<"M", 2>>, <<"M", 0>>,
            <<"p", 0>>, <<"s", 1>>, <<"u", 0>>}

MCLines ==
  UNION {[1..k -> Options] : k \in 0..3}
    \cup {<<<<"N", 3>>, <<"M", 2>>>>, <<<<"M", 2>>, <<"p", 0>>, <<"N", 3>>>>,
          <<<<"N", 2>>, <<"M", 3>>, <<"s", 1>>>>}

=============================================================================
