--------------------------- MODULE MCMultithreading ---------------------------
(***************************************************************************)
(* Three threads and two rounds; the second child repeats twice, so that   *)
(* the threads of a round finish at different times.                       *)
(***************************************************************************)
EXTENDS Multithreading

MCChildRepeat == [w \in 1..N |-> IF w = 2 THEN 2 ELSE 1]
=============================================================================
