-------------------------- MODULE MCFileInstructions --------------------------
(***************************************************************************)
(* Two threads, two paths and files of up to four bytes; transfers that    *)
(* cover, repeat, wrap and leave part of the file.                         *)
(***************************************************************************)
EXTENDS FileInstructions, TLC

Transfer(kind, total, block, start, order, repeat) ==
  [kind |-> kind, size |-> total, block_size |-> block, starting_offset |-> start,
   order |-> order, repeat |-> repeat]

MCTransfers ==
  {Transfer("read_file", -1, -1, 3, "sequential", 2),
   Transfer("read_file", -1, 2, 2, "sequential", 1),
   Transfer("write_file", 3, 2, 1, "sequential", 1),
   Transfer("write_file", -1, 3, 0, "random", 1)}

Symmetry == Permutations(Threads) \cup Permutations(Paths)
=============================================================================
