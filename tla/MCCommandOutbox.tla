-------------------------- MODULE MCCommandOutbox --------------------------
(* A small instance of CommandOutbox: a command that may be repeated and   *)
(* one that may not, two tabs.                                             *)
EXTENDS CommandOutbox, TLC

CONSTANTS k1, k2, t1, t2

TabSymmetry == Permutations({t1, t2})
=============================================================================
