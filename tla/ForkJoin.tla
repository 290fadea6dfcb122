------------------------------ MODULE ForkJoin ------------------------------
(***************************************************************************)
(* What a multithreading instruction promises: in each of its repetitions  *)
(* all its threads start their instruction at the same moment, each        *)
(* finishes it once, and the repetition ends when all have.  The program   *)
(* may stop at any point (LOGF exits the whole process).                   *)
(***************************************************************************)
EXTENDS Naturals

CONSTANTS Workers,      \* the threads of the instruction
          Rounds        \* its repeat count

VARIABLES round,        \* repetitions completed
          phase,        \* of each worker: "out", "in" or "done"
          status        \* "running", or "exited" after a fatal error

absVars == <<round, phase, status>>

AbsInit ==
  /\ round = 0
  /\ phase = [w \in Workers |-> "out"]
  /\ status = "running"

\* Everybody passes the barrier.
Release ==
  /\ status = "running"
  /\ round < Rounds
  /\ \A w \in Workers : phase[w] = "out"
  /\ phase' = [w \in Workers |-> "in"]
  /\ UNCHANGED <<round, status>>

\* One worker completes its instruction.
Finish(w) ==
  /\ status = "running"
  /\ phase[w] = "in"
  /\ phase' = [phase EXCEPT ![w] = "done"]
  /\ UNCHANGED <<round, status>>

\* The repetition ends.
EndRound ==
  /\ status = "running"
  /\ \A w \in Workers : phase[w] = "done"
  /\ round' = round + 1
  /\ phase' = [w \in Workers |-> "out"]
  /\ UNCHANGED status

\* Some thread meets a fatal error.
Stop ==
  /\ status = "running"
  /\ status' = "exited"
  /\ UNCHANGED <<round, phase>>

AbsNext == Release \/ (\E w \in Workers : Finish(w)) \/ EndRound \/ Stop

AbsSpec == AbsInit /\ [][AbsNext]_absVars
=============================================================================
