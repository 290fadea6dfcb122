----------------------------- MODULE Dittobench -----------------------------
(***************************************************************************)
(* The processes of a benchmark: dittobench's main runs init, main and     *)
(* clean_up, and each may be a Multiprocessing instruction whose children  *)
(* return from fork inside SetUpSingle and go on with the same program.    *)
(* Only CollectResults, which is called for main alone, stops them.        *)
(*                                                                         *)
(*   bench     of each phase, the processes it forks (0: none) and repeat_ *)
(*   proc      the processes, named by the sequence of fork numbers that   *)
(*             leads to them (the first one is <<>>); each has its phase,  *)
(*             the repetitions done, its position, whether it is a child   *)
(*             of the phase's instruction, the SetUpSingle it was forked   *)
(*             by, and where its environ is                                *)
(*   printed   the processes that have printed a report                    *)
(*                                                                         *)
(* Barriers and pipes are those of Multiprocessing, here in one step each. *)
(***************************************************************************)
EXTENDS Naturals, Sequences, FiniteSets, SequencesExt

CONSTANT Benches        \* the benchmarks

MainPhase == 2
Phases == 1..3          \* init, main, clean_up

\* Phases run at least once; a repeat_ of 0 is left out.
ASSUME DittobenchAssumption ==
  Benches \subseteq [Phases -> [forks : Nat, repeat : Nat \ {0}]]

VARIABLES bench, proc, printed

vars == <<bench, proc, printed>>

Start(phase, born, environ) ==
  [phase |-> phase, rep |-> 0, pos |-> "single", child |-> FALSE, born |-> born,
   environ |-> environ]

Init ==
  /\ bench \in Benches
  /\ proc = [p \in {<<>>} |-> Start(1, 0, "stack")]
  /\ printed = {}

At(p, pos) == proc[p].pos = pos
Forks(p) == bench[proc[p].phase].forks
Become(p, rec) == proc' = [proc EXCEPT ![p] = rec]

-----------------------------------------------------------------------------
\* SetUpSingle of an instruction that does not fork, and its RunSingle.
RunPlain(p) ==
  /\ At(p, "single")
  /\ Forks(p) = 0
  /\ Become(p, [proc[p] EXCEPT !.pos = "done"])
  /\ UNCHANGED <<bench, printed>>

\* The processes a process has forked.
Kids(p) == {q \in DOMAIN proc : Len(q) = Len(p) + 1 /\ SubSeq(q, 1, Len(p)) = p}

\* Mutant of SetUpSingle: the title is set before the fork.
SetUpSingleTitled(p) ==
  /\ At(p, "single")
  /\ Forks(p) > 0
  /\ LET first == Cardinality(Kids(p)) + 1
         new == {Append(p, k) : k \in first..(first + Forks(p) - 1)}
         newborn == [proc[p] EXCEPT !.pos = "title", !.child = TRUE, !.born = first,
                                    !.environ = "heap"]
     IN  proc' = [q \in DOMAIN proc \cup new |->
                    IF q \in new THEN newborn
                    ELSE IF q = p THEN [proc[p] EXCEPT !.pos = "done", !.environ = "heap"]
                    ELSE proc[q]]
  /\ UNCHANGED <<bench, printed>>

\* The children of this repetition; the process itself becomes (or stays)
\* the manager, also if it was a child before, and has nothing to run.
SetUpSingle(p) ==
  /\ At(p, "single")
  /\ Forks(p) > 0
  /\ LET first == Cardinality(Kids(p)) + 1
         new == {Append(p, k) : k \in first..(first + Forks(p) - 1)}
         newborn == [proc[p] EXCEPT !.pos = "title", !.child = TRUE, !.born = first]
     IN  proc' = [q \in DOMAIN proc \cup new |->
                    IF q \in new THEN newborn
                    ELSE IF q = p THEN [proc[p] EXCEPT !.pos = "done", !.child = FALSE]
                    ELSE proc[q]]
  /\ UNCHANGED <<bench, printed>>

\* setproctitle, in a program that has arguments: the first time in a line of
\* processes, move_environ copies the environment to the heap to make room
\* after argv.  The copy has no terminating null pointer and is not behind
\* argv any more: the second time is undefined behaviour, and the process may
\* crash.
SetTitle(p) ==
  /\ At(p, "title")
  /\ \/ /\ proc[p].environ = "stack"
        /\ Become(p, [proc[p] EXCEPT !.environ = "heap", !.pos = "ready"])
     \/ /\ proc[p].environ # "stack"
        /\ \E pos \in {"ready", "crashed"} :
             Become(p, [proc[p] EXCEPT !.environ = "undefined", !.pos = pos])
  /\ UNCHANGED <<bench, printed>>

\* The processes forked by the same SetUpSingle.
Siblings(p) == {q \in Kids(Front(p)) : proc[q].born = proc[p].born}

Together(p, from, to) ==
  /\ proc[p].child
  /\ \A q \in Siblings(p) : At(q, from)
  /\ proc' = [q \in DOMAIN proc |->
                IF q \in Siblings(p) THEN [proc[q] EXCEPT !.pos = to] ELSE proc[q]]
  /\ UNCHANGED <<bench, printed>>

\* RunSingle of the children: barrier_execution_, the instruction, and
\* barrier_execution_end_.
StartBarrier(p) == Together(p, "ready", "run")

Run(p) ==
  /\ At(p, "run")
  /\ Become(p, [proc[p] EXCEPT !.pos = "ran"])
  /\ UNCHANGED <<bench, printed>>

\* Mutant of EndBarrier: its count includes the manager.
EndBarrierOneMore(p) ==
  /\ proc[p].child /\ At(Front(p), "ran")
  /\ Together(p, "ran", "done")

EndBarrier(p) == Together(p, "ran", "done")

\* The loop of Instruction::Run, which a child continues like its parent.
Repeat(p) ==
  /\ At(p, "done")
  /\ LET again == proc[p].rep + 1 < bench[proc[p].phase].repeat
     IN  Become(p, [proc[p] EXCEPT !.rep = @ + 1, !.pos = IF again THEN "single" ELSE "over"])
  /\ UNCHANGED <<bench, printed>>

\* The record of a process that goes on to the next phase.
NextPhase(p) ==
  IF proc[p].phase = 3 THEN [proc[p] EXCEPT !.pos = "exited"]
  ELSE Start(proc[p].phase + 1, proc[p].born, proc[p].environ)

\* After init and clean_up nobody collects results, or stops.
LeavePhase(p) ==
  /\ At(p, "over")
  /\ proc[p].phase # MainPhase
  /\ Become(p, NextPhase(p))
  /\ UNCHANGED <<bench, printed>>

\* Mutant of ChildExit: the child returns its result.
ChildReturns(p) ==
  /\ At(p, "over")
  /\ proc[p].phase = MainPhase
  /\ proc[p].child
  /\ printed' = printed \cup {p}
  /\ Become(p, NextPhase(p))
  /\ UNCHANGED bench

\* CollectResults of main: a child writes its result and exits ...
ChildExit(p) ==
  /\ At(p, "over")
  /\ proc[p].phase = MainPhase
  /\ proc[p].child
  /\ Become(p, [proc[p] EXCEPT !.pos = "exited"])
  /\ UNCHANGED <<bench, printed>>

\* The children whose pipes a manager reads: those of its last repetition.
LastKids(p) ==
  {q \in Kids(p) : proc[q].born = 1 + Cardinality(Kids(p)) - Forks(p)}

\* Mutant of Report: the manager does not wait for the results.
ReportEarly(p) ==
  /\ At(p, "over")
  /\ proc[p].phase = MainPhase
  /\ ~proc[p].child
  /\ printed' = printed \cup {p}
  /\ Become(p, NextPhase(p))
  /\ UNCHANGED bench

\* ... and a manager reads its children's results to their end and prints.
Report(p) ==
  /\ At(p, "over")
  /\ proc[p].phase = MainPhase
  /\ ~proc[p].child
  /\ Forks(p) > 0 => \A q \in LastKids(p) : proc[q].pos \in {"exited", "crashed"}
  /\ printed' = printed \cup {p}
  /\ Become(p, NextPhase(p))
  /\ UNCHANGED bench

-----------------------------------------------------------------------------
Step(p) ==
  \/ RunPlain(p) \/ SetUpSingle(p) \/ SetTitle(p) \/ StartBarrier(p) \/ Run(p)
  \/ EndBarrier(p) \/ Repeat(p) \/ LeavePhase(p) \/ ChildExit(p) \/ Report(p)

Next == \E p \in DOMAIN proc : Step(p)

Spec == Init /\ [][Next]_vars

\* Every process that can take a step eventually does: as long as somebody
\* can, a step is taken, and the processes are finitely many.
FairSpec == Spec /\ WF_vars(Next)

-----------------------------------------------------------------------------
(* Properties *)

Forking(phase) == bench[phase].forks > 0
Crashed == {p \in DOMAIN proc : At(p, "crashed")}
Over == \A p \in DOMAIN proc : proc[p].pos \in {"exited", "crashed"}

\* a to the power of n.
Power(a, n) ==
  LET P[k \in Nat] == IF k = 0 THEN 1 ELSE a * P[k - 1]
  IN  P[n]

\* Each repetition of init, and each of main but the last, multiplies the
\* processes that run and report main.
Reports == Power(bench[1].forks + 1, bench[1].repeat)
             * Power(bench[MainPhase].forks + 1, bench[MainPhase].repeat - 1)

\* The report is printed once if init does not fork and a forking main has
\* repeat 1; in general exactly Reports processes print one.
ReportsPrinted ==
  /\ Cardinality(printed) <= Reports
  /\ Over /\ Crashed = {} => Cardinality(printed) = Reports

\* Only the first process gets to the end of main.
OneReport == ~Forking(1) /\ (Forking(MainPhase) => bench[MainPhase].repeat = 1)

\* When a process prints the report and cleans up, no other is still in main,
\* unless there are several reports: then a process waits only for the
\* children of its own last repetition.
CleanUpAfterMain ==
  printed # {} /\ OneReport =>
    \A p \in DOMAIN proc : proc[p].phase = MainPhase => proc[p].pos \in {"exited", "crashed"}

\* Only a benchmark in which a forked process forks again, because init forks
\* and something after it does or because a forking phase is repeated, moves
\* an environment twice.
TitleSafe ==
  (\E p \in DOMAIN proc : proc[p].environ = "undefined") =>
    \/ Forking(1) /\ (Forking(2) \/ Forking(3))
    \/ \E phase \in Phases : Forking(phase) /\ bench[phase].repeat > 1

\* All processes end, unless one crashed while its siblings waited for it.
AllEnd == <>(Over \/ Crashed # {})
=============================================================================
