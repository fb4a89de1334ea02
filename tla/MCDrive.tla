------------------------------- MODULE MCDrive -------------------------------
(* Drive for TLC: two files of one and of two blocks on a drive of a few    *)
(* segments of three blocks each.                                           *)
EXTENDS Drive

MCNameOrder == <<"", "0", "1", "2", "3", "a", "b">>
MCNumerals  == <<"0", "1", "2", "3">>
MCFileNames == {"a", "b"}
MCSources   == {<<1>>, <<2, 3, 4>>}
MCOverwrites == {<<3, 0, 7>>, <<2, 1, 8>>}

(* Files that end inside a block and with one, and one that is too long;    *)
(* overwriting that ends inside a block, and that is cut short.             *)
MCLogSources == {<<1>>, <<2, 3>>, <<4, 5, 6, 4, 5>>}
MCLogOverwrites == {<<3, 0, 8>>, <<9, 1, 9>>}

=============================================================================
