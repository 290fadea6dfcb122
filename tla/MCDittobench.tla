---------------------------- MODULE MCDittobench ----------------------------
(* All benchmarks whose phases fork at most 2 processes and repeat at most  *)
(* twice, with at most MaxProcesses processes in the end.                   *)
EXTENDS Dittobench

CONSTANT MaxProcesses

Phase == [forks : 0..2, repeat : 1..2]

Total(b) ==
  (b[1].forks + 1) ^ b[1].repeat * (b[2].forks + 1) ^ b[2].repeat * (b[3].forks + 1) ^ b[3].repeat

MCBenches == {b \in [Phases -> Phase] : Total(b) <= MaxProcesses}
=============================================================================
