------------------------------ MODULE MCPeriodic ------------------------------
(***************************************************************************)
(* Four nanoseconds in a second, two in a microsecond: periods, offsets and *)
(* work shorter and longer than a second, on clocks that start just before *)
(* one.                                                                    *)
(***************************************************************************)
EXTENDS Periodic

Instruction(kind, period, offset, work) ==
  [kind |-> kind, period_us |-> period, offset_us |-> offset, work_us |-> work, repeat |-> 2]

MCInstructions ==
  {Instruction("cpu_work", 2, 0, 2), Instruction("cpu_work", 1, 1, 1),
   Instruction("other", 2, 3, 0), Instruction("other", 0, 0, 0),
   Instruction("read_write_file", 2, 1, 0)}

MCStarts == {Zero, [tv_sec |-> 0, tv_nsec |-> 3]}
=============================================================================
