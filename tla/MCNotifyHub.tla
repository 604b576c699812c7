------------------------------ MODULE MCNotifyHub ------------------------------
(* Small instances of NotifyHub for TLC.                                   *)
EXTENDS NotifyHub, TLC

StreamSymmetry == Permutations(Streams)
=============================================================================
