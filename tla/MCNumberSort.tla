----------------------------- MODULE MCNumberSort -----------------------------
(* NumberSort for TLC: ints of four bits, bounds on both sides of their      *)
(* defaults, as few numbers as the sorter wants, one less and one more.      *)
EXTENDS NumberSort

Bounds == {<<"m", 5>>, <<"m", -3>>, <<"m", 6>>, <<"M", 2>>, <<"M", 6>>}

MCGenLines ==
  UNION {[1..k -> Bounds] : k \in 0..2}
    \cup {Append(line, <<"o", 0>>) : line \in UNION {[1..k -> Bounds] : k \in 0..1}}
    \cup {<<<<"M", 7>>>>, <<<<"m", 0>>>>, <<<<"u", 0>>>>}

MCSortLines == {<< >>, <<<<"n", 2>>>>, <<<<"n", 4>>, <<"c", 0>>>>,
                <<<<"i", 0>>>>, <<<<"i", 0>>, <<"n", 2>>>>, <<<<"n", 4>>, <<"i", 0>>>>}

MCUserChars == {2}
MCLeftovers == {-8, 7}

=============================================================================
