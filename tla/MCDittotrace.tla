---------------------------- MODULE MCDittotrace ----------------------------
(* Two threads sharing two descriptors.  Threads are told apart by their    *)
(* pid only, so they are interchangeable.                                   *)
EXTENDS Dittotrace, TLC

CONSTANTS p1, p2

PidSymmetry == Permutations({p1, p2})
=============================================================================
