----------------------------- MODULE MCReadWrite -----------------------------
(* ReadWrite for TLC.  The numbers of threads and rounds are in the cfgs;   *)
(* one draw is enough, since only a value's last digit is ever looked at.   *)
EXTENDS ReadWrite

MCDraws    == {7}
AnyNext    == {NULL, Wild}
ZeroedNext == {NULL}

=============================================================================
