-------------------------- MODULE DittobenchProofs --------------------------
(***************************************************************************)
(* What dittobench promises however many processes its phases fork and how *)
(* often they repeat: in which benchmarks an environment is moved twice,   *)
(* that with a single report clean_up follows main, and how many reports   *)
(* there are.                                                              *)
(*                                                                         *)
(* The first two rest on an invariant of each process by itself (Moved,    *)
(* Other), by whatever name, and clean_up on one of the first process too: *)
(* it alone prints, and the processes there are while it is in main are    *)
(* exactly those of one SetUpSingle, so that LastKids are all of them.     *)
(*                                                                         *)
(* The reports are counted by what each process still owes, itself and all *)
(* it will have forked (Owes): a SetUpSingle divides it among the process  *)
(* and its children, a report pays one, and nothing else changes it.       *)
(***************************************************************************)
EXTENDS Dittobench, FiniteSetTheorems, WellFoundedInduction, TLAPS

Root == <<>>

Positions == {"single", "title", "ready", "run", "ran", "done", "over", "exited", "crashed"}
Ended == {"exited", "crashed"}

Processes ==
  [phase : Phases, rep : Nat, pos : Positions, child : BOOLEAN, born : Nat,
   environ : {"stack", "heap", "undefined"}]

\* A forked process of the benchmark never forks again.
Simple ==
  /\ Forking(1) => ~Forking(2) /\ ~Forking(3)
  /\ \A phase \in Phases : Forking(phase) => ~(bench[phase].repeat > 1)

\* The functions of proc, and the first process among them.
Typed ==
  /\ bench \in [Phases -> [forks : Nat, repeat : Nat \ {0}]]
  /\ DOMAIN proc \subseteq Seq(Nat) /\ IsFiniteSet(DOMAIN proc)
  /\ proc = [p \in DOMAIN proc |-> proc[p]]
  /\ \A p \in DOMAIN proc : proc[p] \in Processes
  /\ Root \in DOMAIN proc

\* In a simple benchmark a process whose environment has been moved is past
\* the only SetUpSingle that forks in its life.
Moved(x) ==
  /\ x.environ \in {"stack", "heap"}
  /\ x.environ = "heap" =>
       \/ x.child /\ Forking(x.phase) /\ x.pos \notin {"single", "title"}
       \/ Forking(1) /\ x.phase # 1
  /\ x.pos = "title" => x.environ = "stack" /\ x.child
  /\ x.pos = "single" /\ Forking(x.phase) => x.environ = "stack"
  /\ x.child => Forking(x.phase)
  /\ Forking(x.phase) /\ x.pos \notin {"over", "exited", "crashed"} => x.rep = 0

MovedOnce == Simple => \A p \in DOMAIN proc : Moved(proc[p])

\* A process other than the first one: in main it is a child that has
\* nothing more to set up and, there being a single report, never leaves it.
Other(x) ==
  /\ x.phase # 1
  /\ x.phase = MainPhase =>
       /\ Forking(MainPhase) /\ x.child /\ x.born = 1 /\ x.pos # "single"
       /\ x.pos \in {"title", "ready", "run", "ran", "done"} => x.rep = 0
  /\ x.phase = 3 => proc[Root].phase = 3

\* The first process.
First(x) ==
  /\ ~x.child
  /\ x.pos \in {"single", "done", "over", "exited"}
  /\ x.phase # 3 => x.pos # "exited"
  /\ x.phase = MainPhase /\ Forking(MainPhase) /\ x.pos # "over" => x.rep = 0
  /\ printed = IF x.phase = 3 THEN {Root} ELSE {}

\* All processes while the first one is in init or main, and after main.
ForkedInMain == {<<k>> : k \in 1..bench[MainPhase].forks}

All(x) ==
  /\ x.phase = 1 => DOMAIN proc = {Root}
  /\ x.phase = MainPhase =>
       DOMAIN proc = IF Forking(MainPhase) /\ x.pos # "single" THEN {Root} \cup ForkedInMain
                     ELSE {Root}
  /\ x.phase = 3 =>
       \A p \in DOMAIN proc : proc[p].phase = MainPhase => proc[p].pos \in Ended

OnlyFirstLeaves ==
  OneReport =>
    /\ \A p \in DOMAIN proc \ {Root} : Other(proc[p])
    /\ First(proc[Root])
    /\ All(proc[Root])

IInv == Typed /\ MovedOnce /\ OnlyFirstLeaves

-----------------------------------------------------------------------------
\* Init: a single process, at the beginning of init.
LEMMA Initially ==
  ASSUME Init
  PROVE  IInv
<1>1. Start(1, 0, "stack") \in Processes
  BY DEF Start, Processes, Phases, Positions
<1>2. DOMAIN proc = {Root} /\ proc[Root] = Start(1, 0, "stack") /\ Root \in Seq(Nat)
  BY DEF Init, Root
<1>3. bench \in [Phases -> [forks : Nat, repeat : Nat \ {0}]]
  BY DittobenchAssumption DEF Init
<1>4. Typed
  BY <1>1, <1>2, <1>3, FS_Singleton DEF Typed, Init, Root
<1>5. MovedOnce
  BY <1>2 DEF MovedOnce, Moved, Start
<1>6. OnlyFirstLeaves
  BY <1>2 DEF OnlyFirstLeaves, First, All, Start, Init, MainPhase, Root
<1>. QED
  BY <1>4, <1>5, <1>6 DEF IInv

-----------------------------------------------------------------------------
(* One process *)

\* The record y that a process with the record x has after one of the steps
\* that change no other process, and whether that step prints.
ByItself(x, y, prints) ==
  \/ x.pos = "single" /\ ~Forking(x.phase) /\ ~prints /\ y = [x EXCEPT !.pos = "done"]
  \/ /\ x.pos = "title" /\ x.environ = "stack" /\ ~prints
     /\ y = [x EXCEPT !.environ = "heap", !.pos = "ready"]
  \/ /\ x.pos = "title" /\ x.environ # "stack" /\ ~prints
     /\ \E pos \in {"ready", "crashed"} : y = [x EXCEPT !.environ = "undefined", !.pos = pos]
  \/ x.pos = "run" /\ ~prints /\ y = [x EXCEPT !.pos = "ran"]
  \/ /\ x.pos = "done" /\ ~prints /\ x.rep + 1 < bench[x.phase].repeat
     /\ y = [x EXCEPT !.rep = x.rep + 1, !.pos = "single"]
  \/ /\ x.pos = "done" /\ ~prints /\ ~(x.rep + 1 < bench[x.phase].repeat)
     /\ y = [x EXCEPT !.rep = x.rep + 1, !.pos = "over"]
  \/ x.pos = "over" /\ x.phase = 3 /\ ~prints /\ y = [x EXCEPT !.pos = "exited"]
  \/ /\ x.pos = "over" /\ x.phase # 3 /\ (prints <=> x.phase = MainPhase)
     /\ ~(x.phase = MainPhase /\ x.child)
     /\ y = [phase |-> x.phase + 1, rep |-> 0, pos |-> "single", child |-> FALSE,
             born |-> x.born, environ |-> x.environ]
  \/ /\ x.pos = "over" /\ x.phase = MainPhase /\ x.child /\ ~prints
     /\ y = [x EXCEPT !.pos = "exited"]

\* Every action but SetUpSingle and the barriers is such a step.
LEMMA StepByItself ==
  ASSUME Typed, NEW p \in DOMAIN proc,
         RunPlain(p) \/ SetTitle(p) \/ Run(p) \/ Repeat(p) \/ LeavePhase(p)
           \/ ChildExit(p) \/ Report(p)
  PROVE  \E y : \E prints \in BOOLEAN :
           /\ ByItself(proc[p], y, prints)
           /\ proc' = [proc EXCEPT ![p] = y]
           /\ printed' = IF prints THEN printed \cup {p} ELSE printed
           /\ bench' = bench
           /\ prints /\ Forking(proc[p].phase) => \A q \in LastKids(p) : proc[q].pos \in Ended
<1>. DEFINE x == proc[p]
            Result(y, prints) ==
              /\ ByItself(x, y, prints)
              /\ proc' = [proc EXCEPT ![p] = y]
              /\ printed' = IF prints THEN printed \cup {p} ELSE printed
              /\ bench' = bench
              /\ prints /\ Forking(x.phase) => \A q \in LastKids(p) : proc[q].pos \in Ended
<1>0. x \in Processes /\ bench[x.phase].forks \in Nat
  BY DEF Typed, Processes
<1>. DEFINE next == [phase |-> x.phase + 1, rep |-> 0, pos |-> "single", child |-> FALSE,
                    born |-> x.born, environ |-> x.environ]
<1>a. x.phase # 3 => NextPhase(p) = next
  BY DEF NextPhase, Start
<1>1. CASE RunPlain(p)
  <2>1. Result([x EXCEPT !.pos = "done"], FALSE)
    BY <1>0, <1>1 DEF RunPlain, ByItself, Become, At, Forks, Forking
  <2>. QED
    BY <2>1
<1>2. CASE SetTitle(p)
  <2>1. CASE x.environ = "stack"
    <3>1. Result([x EXCEPT !.environ = "heap", !.pos = "ready"], FALSE)
      BY <1>2, <2>1 DEF SetTitle, ByItself, Become, At
    <3>. QED
      BY <3>1
  <2>2. CASE x.environ # "stack"
    <3>1. PICK pos \in {"ready", "crashed"} :
            proc' = [proc EXCEPT ![p] = [x EXCEPT !.environ = "undefined", !.pos = pos]]
      BY <1>2, <2>2 DEF SetTitle, Become
    <3>2. Result([x EXCEPT !.environ = "undefined", !.pos = pos], FALSE)
      BY <1>2, <2>2, <3>1 DEF SetTitle, ByItself, At
    <3>. QED
      BY <3>2
  <2>. QED
    BY <2>1, <2>2
<1>3. CASE Run(p)
  <2>1. Result([x EXCEPT !.pos = "ran"], FALSE)
    BY <1>3 DEF Run, ByItself, Become, At
  <2>. QED
    BY <2>1
<1>4. CASE Repeat(p)
  <2>1. CASE x.rep + 1 < bench[x.phase].repeat
    <3>1. Result([x EXCEPT !.rep = x.rep + 1, !.pos = "single"], FALSE)
      BY <1>0, <1>4, <2>1 DEF Repeat, ByItself, Become, At
    <3>. QED
      BY <3>1
  <2>2. CASE ~(x.rep + 1 < bench[x.phase].repeat)
    <3>1. Result([x EXCEPT !.rep = x.rep + 1, !.pos = "over"], FALSE)
      BY <1>0, <1>4, <2>2 DEF Repeat, ByItself, Become, At
    <3>. QED
      BY <3>1
  <2>. QED
    BY <2>1, <2>2
<1>5. CASE LeavePhase(p)
  <2>1. CASE x.phase = 3
    <3>1. Result([x EXCEPT !.pos = "exited"], FALSE)
      BY <1>5, <2>1 DEF LeavePhase, NextPhase, ByItself, Become, At
    <3>. QED
      BY <3>1
  <2>2. CASE x.phase # 3
    <3>1. Result(next, FALSE)
      BY <1>a, <1>5, <2>2 DEF LeavePhase, ByItself, Become, At
    <3>. QED
      BY <3>1
  <2>. QED
    BY <2>1, <2>2
<1>6. CASE ChildExit(p)
  <2>1. Result([x EXCEPT !.pos = "exited"], FALSE)
    BY <1>6 DEF ChildExit, ByItself, Become, At
  <2>. QED
    BY <2>1
<1>7. CASE Report(p)
  <2>1. Result(next, TRUE)
    <3>1. x.phase = 2 /\ ~x.child /\ x.pos = "over" /\ NextPhase(p) = next
      BY <1>a, <1>7 DEF Report, MainPhase, At
    <3>2. ByItself(x, next, TRUE)
      BY <3>1 DEF ByItself, MainPhase
    <3>. QED
      BY <1>7, <3>1, <3>2 DEF Report, Become, Forks, Forking, Ended
  <2>. QED
    BY <2>1
<1>. QED
  BY <1>1, <1>2, <1>3, <1>4, <1>5, <1>6, <1>7

\* What such a step makes of a record is a record, in a phase no earlier.
LEMMA ByItselfTyped ==
  ASSUME Typed, NEW x \in Processes, NEW y, NEW prints \in BOOLEAN, ByItself(x, y, prints)
  PROVE  y \in Processes
<1>1. x.rep + 1 \in Nat /\ (x.phase # 3 => x.phase + 1 \in Phases) /\ 0 \in Nat
  BY DEF Processes, Phases
<1>2. \A pos \in Positions : [x EXCEPT !.pos = pos] \in Processes
  BY DEF Processes
<1>3. \A pos \in Positions : \A e \in {"stack", "heap", "undefined"} :
        [x EXCEPT !.environ = e, !.pos = pos] \in Processes
  BY DEF Processes
<1>4. \A pos \in Positions : [x EXCEPT !.rep = x.rep + 1, !.pos = pos] \in Processes
  BY <1>1 DEF Processes
<1>5. x.phase # 3 =>
        [phase |-> x.phase + 1, rep |-> 0, pos |-> "single", child |-> FALSE,
         born |-> x.born, environ |-> x.environ] \in Processes
  BY <1>1 DEF Processes, Positions
<1>. QED
  BY <1>2, <1>3, <1>4, <1>5 DEF ByItself, Positions

\* In a simple benchmark such a step moves no environment a second time.
LEMMA ByItselfMoved ==
  ASSUME Typed, Simple, NEW x \in Processes, NEW y, NEW prints \in BOOLEAN,
         ByItself(x, y, prints), Moved(x)
  PROVE  Moved(y)
<1>1. x.phase \in Phases /\ x.rep \in Nat /\ bench[x.phase].repeat \in Nat
  BY DEF Typed, Processes
<1>2. CASE x.pos = "single" /\ ~Forking(x.phase) /\ y = [x EXCEPT !.pos = "done"]
  BY <1>2 DEF Moved, Processes
<1>3. CASE /\ x.pos = "title" /\ x.environ = "stack"
           /\ y = [x EXCEPT !.environ = "heap", !.pos = "ready"]
  BY <1>3 DEF Moved, Processes
<1>4. CASE x.pos = "title" /\ x.environ # "stack"
  BY <1>4 DEF Moved
<1>5. CASE x.pos = "run" /\ y = [x EXCEPT !.pos = "ran"]
  BY <1>5 DEF Moved, Processes
<1>6. CASE /\ x.pos = "done" /\ x.rep + 1 < bench[x.phase].repeat
           /\ y = [x EXCEPT !.rep = x.rep + 1, !.pos = "single"]
  <2>1. ~Forking(x.phase)
    BY <1>1, <1>6 DEF Moved, Simple
  <2>. QED
    BY <1>6, <2>1 DEF Moved, Processes
<1>7. CASE x.pos = "done" /\ y = [x EXCEPT !.rep = x.rep + 1, !.pos = "over"]
  BY <1>7 DEF Moved, Processes
<1>8. CASE x.pos = "over" /\ y = [x EXCEPT !.pos = "exited"]
  BY <1>8 DEF Moved, Processes
<1>9. CASE /\ x.pos = "over" /\ x.phase # 3 /\ ~(x.phase = MainPhase /\ x.child)
           /\ y = [phase |-> x.phase + 1, rep |-> 0, pos |-> "single", child |-> FALSE,
                   born |-> x.born, environ |-> x.environ]
  <2>1. y.phase \in {2, 3} /\ y.pos = "single" /\ y.rep = 0 /\ ~y.child /\ y.environ = x.environ
    BY <1>1, <1>9 DEF Phases
  <2>2. x.environ = "heap" => Forking(1)
    BY <1>1, <1>9 DEF Moved, Phases, MainPhase
  <2>3. x.environ = "heap" => ~Forking(y.phase)
    BY <2>1, <2>2 DEF Simple
  <2>. QED
    BY <2>1, <2>2, <2>3 DEF Moved
<1>. QED
  BY <1>2, <1>3, <1>4, <1>5, <1>6, <1>7, <1>8, <1>9 DEF ByItself

\* With a single report such a step of another process neither prints nor
\* leaves its phase, and it is not one of a process that has ended.
LEMMA ByItselfOther ==
  ASSUME Typed, OneReport, NEW x \in Processes, NEW y, NEW prints \in BOOLEAN,
         ByItself(x, y, prints), Other(x)
  PROVE  Other(y) /\ ~prints /\ y.phase = x.phase /\ x.pos \notin Ended
<1>1. /\ x.phase \in {2, 3} /\ x.rep \in Nat /\ bench[x.phase].repeat \in Nat
      /\ x.pos \in Positions /\ x.child \in BOOLEAN
  BY DEF Typed, Processes, Phases, Other
<1>2. x.pos \notin Ended
  BY DEF ByItself, Ended
<1>3. CASE x.phase = 3
  <2>1. ~prints /\ y.phase = 3
    BY <1>3 DEF ByItself, Processes, MainPhase
  <2>. QED
    BY <1>2, <1>3, <2>1 DEF Other, MainPhase
<1>4. CASE x.phase = 2
  <2>1. Forking(2) /\ x.child /\ x.born = 1 /\ x.pos # "single"
    BY <1>4 DEF Other, MainPhase
  <2>2. x.pos \in {"title", "ready", "run", "ran", "done"} => x.rep = 0
    BY <1>4 DEF Other, MainPhase
  <2>3. bench[2].repeat = 1
    BY <2>1 DEF OneReport, MainPhase
  <2>5. CASE x.pos = "title"
    BY <1>2, <1>4, <2>1, <2>2, <2>5, ZenonT(60) DEF ByItself, Other, Processes, MainPhase
  <2>6. CASE x.pos = "run" /\ y = [x EXCEPT !.pos = "ran"]
    BY <1>2, <1>4, <2>1, <2>2, <2>6 DEF ByItself, Other, Processes, MainPhase
  <2>7. CASE x.pos = "done"
    <3>1. ~(x.rep + 1 < bench[x.phase].repeat)
      BY <1>4, <2>2, <2>3, <2>7
    <3>2. y = [x EXCEPT !.rep = x.rep + 1, !.pos = "over"] /\ ~prints
      BY <1>4, <2>7, <3>1 DEF ByItself
    <3>3. x.rep + 1 \in Nat
      BY <1>1
    <3>. QED
      BY <1>2, <1>4, <2>1, <3>2, <3>3 DEF Other, Processes, MainPhase
  <2>8. CASE x.pos = "over" /\ y = [x EXCEPT !.pos = "exited"]
    BY <1>2, <1>4, <2>1, <2>2, <2>8 DEF ByItself, Other, Processes, MainPhase
  <2>. QED
    BY <1>4, <2>1, <2>5, <2>6, <2>7, <2>8 DEF ByItself, MainPhase
<1>. QED
  BY <1>1, <1>3, <1>4

\* Nor does such a step of the first process make it a child; it prints just
\* when it goes from main to clean_up.
LEMMA ByItselfFirst ==
  ASSUME Typed, OneReport, NEW x \in Processes, NEW y, NEW prints \in BOOLEAN,
         ByItself(x, y, prints), First(x)
  PROVE  /\ ~y.child
         /\ y.pos \in {"single", "done", "over", "exited"}
         /\ y.phase # 3 => y.pos # "exited"
         /\ y.phase = 2 /\ Forking(2) /\ y.pos # "over" => y.rep = 0
         /\ prints <=> x.phase # 3 /\ y.phase = 3
         /\ prints => x.phase = 2 /\ x.pos # "single"
         /\ x.phase = 3 => y.phase = 3
         /\ x.phase = 2 => y.phase \in {2, 3}
         /\ y.phase = 2 => x.phase = 2 \/ y.pos = "single"
         /\ y.phase = 1 => x.phase = 1
         /\ y.phase = 2 /\ x.phase = 2 /\ Forking(2) => x.pos # "single" /\ y.pos # "single"
<1>1. /\ x.phase \in {1, 2, 3} /\ x.rep \in Nat /\ bench[x.phase].repeat \in Nat
      /\ ~x.child /\ x.pos \in {"single", "done", "over", "exited"}
      /\ x.phase # 3 => x.pos # "exited"
      /\ x.phase = 2 /\ Forking(2) /\ x.pos # "over" => x.rep = 0
      /\ Forking(2) => bench[2].repeat = 1
  BY DEF Typed, Processes, Phases, First, OneReport, MainPhase
<1>2. CASE x.pos = "single"
  <2>1. ~Forking(x.phase) /\ ~prints /\ y = [x EXCEPT !.pos = "done"]
    BY <1>2 DEF ByItself
  <2>. QED
    BY <1>1, <1>2, <2>1 DEF Processes
<1>3. CASE x.pos = "done" /\ x.rep + 1 < bench[x.phase].repeat
  <2>1. ~prints /\ y = [x EXCEPT !.rep = x.rep + 1, !.pos = "single"]
    BY <1>3 DEF ByItself
  <2>2. x.phase = 2 => ~Forking(2)
    BY <1>1, <1>3
  <2>3. x.rep + 1 \in Nat
    BY <1>1
  <2>. QED
    BY <1>1, <1>3, <2>1, <2>2, <2>3 DEF Processes
<1>4. CASE x.pos = "done" /\ ~(x.rep + 1 < bench[x.phase].repeat)
  <2>1. ~prints /\ y = [x EXCEPT !.rep = x.rep + 1, !.pos = "over"]
    BY <1>4 DEF ByItself
  <2>2. x.rep + 1 \in Nat
    BY <1>1
  <2>. QED
    BY <1>1, <1>4, <2>1, <2>2 DEF Processes
<1>5. CASE x.pos = "over" /\ x.phase = 3
  <2>1. ~prints /\ y = [x EXCEPT !.pos = "exited"]
    BY <1>1, <1>5 DEF ByItself, MainPhase
  <2>. QED
    BY <1>1, <1>5, <2>1 DEF Processes
<1>6. CASE x.pos = "over" /\ x.phase # 3
  <2>1. /\ prints <=> x.phase = 2
        /\ y = [phase |-> x.phase + 1, rep |-> 0, pos |-> "single", child |-> FALSE,
                born |-> x.born, environ |-> x.environ]
    BY <1>1, <1>6 DEF ByItself, MainPhase
  <2>2. y.phase = x.phase + 1 /\ y.rep = 0 /\ y.pos = "single" /\ y.child = FALSE
    BY <2>1
  <2>. QED
    BY <1>1, <1>6, <2>1, <2>2
<1>. QED
  BY <1>1, <1>2, <1>3, <1>4, <1>5, <1>6 DEF ByItself

-----------------------------------------------------------------------------
(* All processes *)

\* The children of one SetUpSingle of the first process.
LEMMA CountForked ==
  ASSUME Typed
  PROVE  /\ Cardinality(ForkedInMain) = bench[MainPhase].forks
         /\ ForkedInMain \subseteq Seq(Nat)
         /\ Root \notin ForkedInMain
<1>. DEFINE n == bench[MainPhase].forks
            f == [k \in 1..n |-> <<k>>]
<1>1. n \in Nat
  BY DEF Typed, MainPhase, Phases
<1>2. IsFiniteSet(1..n) /\ Cardinality(1..n) = n
  <2>. HIDE DEF n
  <2>. QED
    BY <1>1, FS_Interval
<1>3. \A k \in 1..n : \A m \in 1..n : f[k] = f[m] => k = m
  <2>. SUFFICES ASSUME NEW k \in 1..n, NEW m \in 1..n, <<k>> = <<m>> PROVE k = m
    OBVIOUS
  <2>1. <<k>>[1] = k /\ <<m>>[1] = m
    OBVIOUS
  <2>. QED
    BY <2>1
<1>4. f \in Bijection(1..n, ForkedInMain)
  <2>1. f \in [1..n -> ForkedInMain]
    BY DEF ForkedInMain
  <2>2. f \in Injection(1..n, ForkedInMain)
    BY <1>3, <2>1 DEF Injection, IsInjective
  <2>3. \A t \in ForkedInMain : \E k \in 1..n : f[k] = t
    BY DEF ForkedInMain
  <2>4. f \in Surjection(1..n, ForkedInMain)
    BY <2>1, <2>3 DEF Surjection
  <2>. QED
    BY <2>2, <2>4 DEF Bijection
<1>5. Cardinality(ForkedInMain) = n
  BY <1>2, <1>4, FS_Bijection DEF ExistsBijection
<1>6. ForkedInMain \subseteq Seq(Nat)
  <2>1. \A k \in 1..n : <<k>> \in Seq(Nat)
    <3>. HIDE DEF n
    <3>. QED
      BY <1>1
  <2>. QED
    BY <2>1 DEF ForkedInMain
<1>7. Root \notin ForkedInMain
  <2>1. \A k \in 1..n : Len(<<k>>) = 1
    OBVIOUS
  <2>. QED
    BY <2>1 DEF ForkedInMain, Root
<1>. QED
  BY <1>5, <1>6, <1>7

\* While the first process is in main, the children forked there are the ones
\* whose results it waits for.
LEMMA WaitsForAll ==
  ASSUME Typed, DOMAIN proc = {Root} \cup ForkedInMain, Forks(Root) = bench[MainPhase].forks,
         \A q \in ForkedInMain : proc[q].born = 1
  PROVE  ForkedInMain \subseteq LastKids(Root)
<1>1. Len(Root) = 0
  BY DEF Root
<1>2. ASSUME NEW q \in ForkedInMain
      PROVE  Len(q) = 1 /\ SubSeq(q, 1, 0) = Root
  <2>1. q \in Seq(Nat) /\ Len(q) = 1
    BY CountForked DEF ForkedInMain
  <2>. QED
    BY <2>1 DEF Root
<1>3. Kids(Root) = ForkedInMain
  BY <1>1, <1>2, CountForked DEF Kids
<1>4. bench[MainPhase].forks \in Nat
  BY DEF Typed, MainPhase, Phases
<1>5. 1 + Cardinality(Kids(Root)) - Forks(Root) = 1
  BY <1>3, <1>4, CountForked
<1>. QED
  BY <1>3, <1>5 DEF LastKids

\* A benchmark is what it was.
LEMMA SameBench ==
  ASSUME bench' = bench
  PROVE  /\ Simple' = Simple /\ OneReport' = OneReport /\ ForkedInMain' = ForkedInMain
         /\ \A phase : Forking(phase)' = Forking(phase)
         /\ \A x : Moved(x)' = Moved(x)
  BY DEF Simple, OneReport, ForkedInMain, Forking, Moved

\* The actions that change one record preserve the invariant.
LEMMA AlonePreserves ==
  ASSUME IInv, NEW p \in DOMAIN proc, NEW y, NEW prints \in BOOLEAN,
         ByItself(proc[p], y, prints),
         proc' = [proc EXCEPT ![p] = y],
         printed' = (IF prints THEN printed \cup {p} ELSE printed),
         bench' = bench,
         prints /\ Forking(proc[p].phase) => \A q \in LastKids(p) : proc[q].pos \in Ended
  PROVE  IInv'
<1>. USE DEF IInv
<1>. DEFINE x == proc[p]
<1>1. x \in Processes /\ y \in Processes
  BY ByItselfTyped DEF Typed
<1>2. /\ DOMAIN proc' = DOMAIN proc
      /\ proc' = [q \in DOMAIN proc' |-> proc'[q]]
      /\ proc'[p] = y
      /\ \A q \in DOMAIN proc : q # p => proc'[q] = proc[q]
  BY DEF Typed
<1>3. Typed'
  BY <1>1, <1>2 DEF Typed
<1>4. MovedOnce'
  <2>. SUFFICES ASSUME Simple, NEW q \in DOMAIN proc
                PROVE  Moved(proc'[q])
    BY <1>2, SameBench DEF MovedOnce
  <2>1. Moved(proc[q])
    BY DEF MovedOnce
  <2>2. CASE q = p
    BY <1>1, <1>2, <2>1, <2>2, ByItselfMoved
  <2>. QED
    BY <1>2, <2>1, <2>2
<1>5. OnlyFirstLeaves'
  <2>. SUFFICES ASSUME OneReport
                PROVE  /\ \A q \in DOMAIN proc \ {Root} : Other(proc[q])'
                       /\ First(proc[Root])'
                       /\ All(proc[Root])'
    BY <1>2, SameBench DEF OnlyFirstLeaves, Root
  <2>1. /\ \A q \in DOMAIN proc \ {Root} : Other(proc[q])
        /\ First(proc[Root]) /\ All(proc[Root])
        /\ Root \in DOMAIN proc /\ proc[Root] \in Processes
    BY DEF OnlyFirstLeaves, Typed
  <2>2. CASE p # Root
    <3>1. Other(y) /\ ~prints /\ y.phase = x.phase /\ x.pos \notin Ended
      BY <1>1, <2>1, <2>2, ByItselfOther
    <3>2. proc'[Root] = proc[Root] /\ printed' = printed
      BY <1>2, <2>1, <2>2, <3>1
    <3>3. \A q \in DOMAIN proc \ {Root} : Other(proc'[q])
      BY <1>2, <2>1, <3>1
    <3>4. \A q \in DOMAIN proc \ {Root} : Other(proc[q])'
      BY <3>2, <3>3, SameBench DEF Other
    <3>5. First(proc[Root])'
      BY <2>1, <3>2, SameBench DEF First
    <3>6. proc[Root].phase = 3 => x.phase # MainPhase
      BY <2>1, <3>1 DEF All
    <3>7. All(proc[Root])'
      BY <1>2, <2>1, <3>1, <3>2, <3>6, SameBench DEF All
    <3>. QED
      BY <3>4, <3>5, <3>7
  <2>3. CASE p = Root
    <3>1. /\ ~y.child
          /\ y.pos \in {"single", "done", "over", "exited"}
          /\ y.phase # 3 => y.pos # "exited"
          /\ y.phase = 2 /\ Forking(2) /\ y.pos # "over" => y.rep = 0
          /\ prints <=> x.phase # 3 /\ y.phase = 3
          /\ prints => x.phase = 2 /\ x.pos # "single"
          /\ x.phase = 3 => y.phase = 3
          /\ x.phase = 2 => y.phase \in {2, 3}
          /\ y.phase = 2 => x.phase = 2 \/ y.pos = "single"
          /\ y.phase = 1 => x.phase = 1
          /\ y.phase = 2 /\ x.phase = 2 /\ Forking(2) => x.pos # "single" /\ y.pos # "single"
      BY <1>1, <2>1, <2>3, ByItselfFirst
    <3>2. proc'[Root] = y /\ x = proc[Root]
      BY <1>2, <2>3
    <3>3. \A q \in DOMAIN proc \ {Root} : Other(proc[q])'
      BY <1>2, <2>1, <2>3, <3>1, <3>2, SameBench DEF Other
    <3>4. First(proc[Root])'
      BY <2>1, <2>3, <3>1, <3>2, SameBench DEF First, MainPhase
    <3>5. ASSUME y.phase = 1
          PROVE  DOMAIN proc = {Root}
      BY <2>1, <3>1, <3>2, <3>5 DEF All
    <3>6. ASSUME y.phase = 2
          PROVE  DOMAIN proc = IF Forking(2) /\ y.pos # "single" THEN {Root} \cup ForkedInMain
                               ELSE {Root}
      <4>1. x.phase \in {1, 2}
        BY <1>1, <3>1, <3>6 DEF Processes, Phases
      <4>2. CASE x.phase = 1
        BY <2>1, <3>1, <3>2, <3>6, <4>2 DEF All
      <4>3. CASE x.phase = 2
        BY <2>1, <3>1, <3>2, <3>6, <4>3 DEF All, MainPhase
      <4>. QED
        BY <4>1, <4>2, <4>3
    <3>7. ASSUME y.phase = 3, NEW q \in DOMAIN proc, proc'[q].phase = 2
          PROVE  proc'[q].pos \in Ended
      <4>1. q # Root /\ proc'[q] = proc[q]
        BY <1>2, <2>3, <3>2, <3>7
      <4>2. CASE x.phase = 3
        BY <2>1, <3>2, <3>7, <4>1, <4>2 DEF All, MainPhase
      <4>3. CASE x.phase # 3
        <5>1. prints /\ x.phase = 2 /\ x.pos # "single"
          BY <3>1, <3>7, <4>3
        <5>2. DOMAIN proc = {Root} \cup ForkedInMain /\ Forking(2) /\ q \in ForkedInMain
          BY <2>1, <3>2, <4>1, <5>1 DEF All, MainPhase
        <5>3. Forks(Root) = bench[MainPhase].forks
          BY <3>2, <5>1 DEF Forks, MainPhase
        <5>4. ASSUME NEW c \in ForkedInMain
              PROVE  proc[c].born = 1
          <6>1. c # Root /\ c \in DOMAIN proc
            BY <5>2, CountForked
          <6>2. Other(proc[c]) /\ proc[c] \in Processes
            BY <2>1, <6>1 DEF Typed
          <6>3. proc[c].phase = 2
            BY <3>2, <5>1, <6>2 DEF Other, Processes, Phases
          <6>. QED
            BY <6>2, <6>3 DEF Other, MainPhase
        <5>5. q \in LastKids(Root)
          BY <5>2, <5>3, <5>4, WaitsForAll
        <5>. QED
          BY <2>3, <4>1, <5>1, <5>2, <5>5
      <4>. QED
        BY <4>2, <4>3
    <3>8. All(proc[Root])'
      BY <1>2, <3>2, <3>5, <3>6, <3>7, SameBench DEF All, MainPhase, Ended
    <3>. QED
      BY <3>3, <3>4, <3>8
  <2>. QED
    BY <2>2, <2>3
<1>. QED
  BY <1>3, <1>4, <1>5

\* A barrier moves children that are at it, and nothing but their positions.
LEMMA TogetherPreserves ==
  ASSUME IInv, NEW p \in DOMAIN proc, NEW from, NEW to,
         (from = "ready" /\ to = "run") \/ (from = "ran" /\ to = "done"),
         Together(p, from, to)
  PROVE  IInv'
<1>. USE DEF IInv
<1>1. bench' = bench /\ printed' = printed
  BY DEF Together
<1>2. /\ DOMAIN proc' = DOMAIN proc
      /\ proc' = [q \in DOMAIN proc' |-> proc'[q]]
  BY DEF Together
<1>3. ASSUME NEW q \in DOMAIN proc
      PROVE  \/ proc'[q] = proc[q]
             \/ proc[q].pos = from /\ proc'[q] = [proc[q] EXCEPT !.pos = to]
  BY DEF Together, At
<1>4. ASSUME NEW q \in DOMAIN proc
      PROVE  proc'[q] \in Processes
  <2>1. proc[q] \in Processes /\ to \in Positions
    BY DEF Typed, Positions
  <2>. QED
    BY <1>3, <2>1 DEF Processes
<1>5. Typed'
  BY <1>1, <1>2, <1>4 DEF Typed
<1>6. MovedOnce'
  <2>. SUFFICES ASSUME Simple, NEW q \in DOMAIN proc
                PROVE  Moved(proc'[q])
    BY <1>1, <1>2, SameBench DEF MovedOnce
  <2>1. Moved(proc[q]) /\ proc[q] \in Processes
    BY DEF MovedOnce, Typed
  <2>2. CASE proc[q].pos = from /\ proc'[q] = [proc[q] EXCEPT !.pos = to]
    <3>. DEFINE x == proc[q]
                y == proc'[q]
    <3>1. /\ y.environ = x.environ /\ y.child = x.child /\ y.phase = x.phase /\ y.rep = x.rep
          /\ y.pos = to /\ x.pos = from
      BY <2>1, <2>2 DEF Processes
    <3>2. Moved(x)
      BY <2>1
    <3>. HIDE DEF x, y
    <3>3. Moved(y)
      BY <3>1, <3>2 DEF Moved
    <3>. QED
      BY <3>3 DEF y
  <2>. QED
    BY <1>3, <2>1, <2>2
<1>7. OnlyFirstLeaves'
  <2>. SUFFICES ASSUME OneReport
                PROVE  /\ \A q \in DOMAIN proc \ {Root} : Other(proc[q])'
                       /\ First(proc[Root])'
                       /\ All(proc[Root])'
    BY <1>1, <1>2, SameBench DEF OnlyFirstLeaves, Root
  <2>1. /\ \A q \in DOMAIN proc \ {Root} : Other(proc[q])
        /\ First(proc[Root]) /\ All(proc[Root])
        /\ Root \in DOMAIN proc /\ proc[Root] \in Processes
    BY DEF OnlyFirstLeaves, Typed
  <2>2. proc'[Root] = proc[Root]
    BY <1>3, <2>1 DEF First
  <2>3. ASSUME NEW q \in DOMAIN proc \ {Root}
        PROVE  Other(proc'[q])
    <3>1. Other(proc[q]) /\ proc[q] \in Processes
      BY <2>1 DEF Typed
    <3>. QED
      BY <1>3, <3>1 DEF Other, Processes
  <2>4. \A q \in DOMAIN proc \ {Root} : Other(proc[q])'
    BY <1>1, <2>2, <2>3, SameBench DEF Other
  <2>5. First(proc[Root])'
    BY <1>1, <2>1, <2>2, SameBench DEF First
  <2>6. ASSUME NEW q \in DOMAIN proc, proc[Root].phase = 3, proc'[q].phase = MainPhase
        PROVE  proc'[q].pos \in Ended
    <3>1. proc[q] \in Processes
      BY DEF Typed
    <3>2. proc[q].phase = MainPhase
      BY <1>3, <2>6, <3>1 DEF Processes
    <3>3. proc[q].pos \in Ended
      BY <2>1, <2>6, <3>2 DEF All
    <3>. QED
      BY <1>3, <3>3 DEF Ended
  <2>7. All(proc[Root])'
    BY <1>1, <1>2, <2>1, <2>2, <2>6, SameBench DEF All, Ended
  <2>. QED
    BY <2>4, <2>5, <2>7
<1>. QED
  BY <1>5, <1>6, <1>7

\* SetUpSingle: a process and its new children.
LEMMA SetUpSinglePreserves ==
  ASSUME IInv, NEW p \in DOMAIN proc, SetUpSingle(p)
  PROVE  IInv'
<1>. USE DEF IInv
<1>. DEFINE x == proc[p]
            first == Cardinality(Kids(p)) + 1
            new == {Append(p, k) : k \in first..(first + Forks(p) - 1)}
            newborn == [x EXCEPT !.pos = "title", !.child = TRUE, !.born = first]
            manager == [x EXCEPT !.pos = "done", !.child = FALSE]
<1>1. /\ bench' = bench /\ printed' = printed
      /\ x.pos = "single" /\ Forks(p) > 0 /\ Forks(p) = bench[x.phase].forks
      /\ proc' = [q \in DOMAIN proc \cup new |->
                    IF q \in new THEN newborn ELSE IF q = p THEN manager ELSE proc[q]]
  BY DEF SetUpSingle, At, Forks
<1>2. x \in Processes /\ Forking(x.phase) /\ p \in Seq(Nat)
  BY <1>1 DEF Typed, Forking
<1>3. /\ DOMAIN proc' = DOMAIN proc \cup new
      /\ proc' = [q \in DOMAIN proc' |-> proc'[q]]
      /\ \A q \in new : proc'[q] = newborn
      /\ \A q \in DOMAIN proc \ new : proc'[q] = IF q = p THEN manager ELSE proc[q]
  BY <1>1
<1>4. first \in Nat /\ Forks(p) \in Nat
  <2>1. Kids(p) \in SUBSET DOMAIN proc
    BY DEF Kids
  <2>2. IsFiniteSet(Kids(p))
    BY <2>1, FS_Subset DEF Typed
  <2>3. Cardinality(Kids(p)) \in Nat
    BY <2>2, FS_CardinalityType
  <2>4. bench[x.phase].forks \in Nat
    BY <1>2 DEF Typed, Processes
  <2>. QED
    BY <1>1, <2>3, <2>4
<1>5. new \subseteq Seq(Nat) /\ Root \notin new /\ IsFiniteSet(new)
  <2>. DEFINE last == first + Forks(p) - 1
              f == [k \in first..last |-> Append(p, k)]
  <2>1. first \in Nat /\ last \in Int /\ first..last \subseteq Nat
    <3>. HIDE DEF first
    <3>. QED
      BY <1>4
  <2>. HIDE DEF first, last
  <2>2. \A k \in first..last : Append(p, k) \in Seq(Nat) /\ Len(Append(p, k)) = Len(p) + 1
    BY <1>2, <2>1
  <2>3. Len(p) \in Nat /\ Len(Root) = 0
    BY <1>2 DEF Root
  <2>4. new = {Append(p, k) : k \in first..last}
    BY DEF last, first
  <2>. HIDE DEF new
  <2>5. new \subseteq Seq(Nat) /\ Root \notin new
    BY <2>2, <2>3, <2>4, SMTT(40)
  <2>6. IsFiniteSet(first..last)
    BY <2>1, FS_Interval
  <2>7. f \in Surjection(first..last, {Append(p, k) : k \in first..last})
    BY DEF Surjection
  <2>8. IsFiniteSet(new)
    BY <2>4, <2>6, <2>7, FS_Surjection
  <2>. QED
    BY <2>5, <2>8
<1>6. /\ newborn \in Processes
      /\ newborn.phase = x.phase /\ newborn.rep = x.rep /\ newborn.environ = x.environ
      /\ newborn.pos = "title" /\ newborn.child = TRUE /\ newborn.born = first
  <2>1. first \in Nat
    BY <1>4
  <2>. HIDE DEF first
  <2>. QED
    BY <1>2, <2>1 DEF Processes, Positions
<1>7. /\ manager \in Processes
      /\ manager.phase = x.phase /\ manager.rep = x.rep /\ manager.environ = x.environ
      /\ manager.pos = "done" /\ manager.child = FALSE /\ manager.born = x.born
  BY <1>2 DEF Processes, Positions
<1>8. \A q \in DOMAIN proc' :
        \/ q \in new /\ proc'[q] = newborn
        \/ q = p /\ proc'[q] = manager
        \/ q \in DOMAIN proc /\ proc'[q] = proc[q]
  BY <1>3
<1>9. Root \in DOMAIN proc' /\ proc'[Root] = IF p = Root THEN manager ELSE proc[Root]
  BY <1>3, <1>5 DEF Typed
<1>. HIDE DEF newborn, manager, new, first
<1>10. Typed'
  <2>1. IsFiniteSet(DOMAIN proc \cup new)
    BY <1>5, FS_Union DEF Typed
  <2>2. \A q \in DOMAIN proc' : proc'[q] \in Processes
    BY <1>6, <1>7, <1>8 DEF Typed
  <2>3. DOMAIN proc' \subseteq Seq(Nat)
    BY <1>3, <1>5 DEF Typed
  <2>4. Root \in DOMAIN proc'
    BY <1>9
  <2>. QED
    BY <1>1, <1>3, <2>1, <2>2, <2>3, <2>4 DEF Typed, Root
<1>11. MovedOnce'
  <2>. SUFFICES ASSUME Simple, NEW q \in DOMAIN proc'
                PROVE  Moved(proc'[q])
    BY <1>1, SameBench DEF MovedOnce
  <2>1. Moved(x) /\ x.environ = "stack" /\ x.rep = 0
    BY <1>1, <1>2 DEF MovedOnce, Moved
  <2>2. Moved(newborn)
    BY <1>2, <1>6, <2>1 DEF Moved
  <2>3. Moved(manager)
    BY <1>2, <1>7, <2>1 DEF Moved
  <2>. QED
    BY <1>8, <2>2, <2>3 DEF MovedOnce
<1>12. OnlyFirstLeaves'
  <2>. SUFFICES ASSUME OneReport
                PROVE  /\ \A q \in DOMAIN proc' \ {Root} : Other(proc[q])'
                       /\ First(proc[Root])'
                       /\ All(proc[Root])'
    BY <1>1, SameBench DEF OnlyFirstLeaves, Root
  <2>1. /\ \A q \in DOMAIN proc \ {Root} : Other(proc[q])
        /\ First(proc[Root]) /\ All(proc[Root])
        /\ Root \in DOMAIN proc /\ proc[Root] \in Processes
    BY DEF OnlyFirstLeaves, Typed
  \* In main only the first process sets up, and only once.
  <2>2. x.phase # 1
    BY <1>2 DEF OneReport
  <2>3. x.phase = 2 => p = Root
    BY <1>1, <2>1 DEF Other, MainPhase
  <2>4. x.phase \in {2, 3}
    BY <1>2, <2>2 DEF Processes, Phases
  <2>5. proc'[Root].phase = proc[Root].phase
    BY <1>7, <1>9
  <2>6. x.phase = 3 => proc[Root].phase = 3
    BY <2>1 DEF Other
  <2>7. x.phase = 2 => x.rep = 0 /\ DOMAIN proc = {Root} /\ first = 1 /\ new = ForkedInMain
    <3>. SUFFICES ASSUME x.phase = 2
                  PROVE  x.rep = 0 /\ DOMAIN proc = {Root} /\ first = 1 /\ new = ForkedInMain
      OBVIOUS
    <3>1. p = Root /\ Forking(2)
      BY <1>2, <2>3
    <3>2. x.rep = 0 /\ DOMAIN proc = {Root}
      BY <1>1, <2>1, <3>1 DEF First, All, MainPhase
    <3>3. Kids(p) = {}
      <4>1. Len(p) = 0 /\ \A q \in DOMAIN proc : Len(q) = 0
        BY <3>1, <3>2 DEF Root
      <4>. QED
        BY <4>1 DEF Kids
    <3>4. first = 1
      BY <3>3, FS_EmptySet DEF first
    <3>5. Forks(p) = bench[2].forks /\ Forks(p) \in Nat
      BY <1>1, <1>4
    <3>6. first + Forks(p) - 1 = bench[2].forks
      BY <3>4, <3>5
    <3>7. \A k : Append(<<>>, k) = <<k>>
      OBVIOUS
    <3>8. new = {Append(<<>>, k) : k \in 1..bench[2].forks}
      BY <3>1, <3>4, <3>6 DEF new, Root
    <3>9. new = ForkedInMain
      BY <3>7, <3>8 DEF ForkedInMain, MainPhase
    <3>. QED
      BY <3>2, <3>4, <3>9
  <2>8. ASSUME NEW q \in DOMAIN proc' \ {Root}
        PROVE  Other(proc[q])'
    <3>1. CASE proc'[q] = newborn
      <4>1. Other(newborn)
        BY <1>2, <1>6, <2>4, <2>6, <2>7 DEF Other, MainPhase
      <4>. QED
        BY <1>1, <2>5, <3>1, <4>1, SameBench DEF Other
    <3>2. CASE q = p /\ proc'[q] = manager
      <4>1. x.phase = 3
        BY <2>3, <2>4, <3>2
      <4>2. Other(manager)
        BY <1>7, <2>6, <4>1 DEF Other, MainPhase
      <4>. QED
        BY <1>1, <2>5, <3>2, <4>2, SameBench DEF Other
    <3>3. CASE q \in DOMAIN proc /\ proc'[q] = proc[q]
      BY <1>1, <2>1, <2>5, <3>3, SameBench DEF Other
    <3>. QED
      BY <1>8, <3>1, <3>2, <3>3
  <2>9. First(proc[Root])'
    <3>1. CASE p = Root
      <4>1. proc'[Root] = manager /\ x = proc[Root]
        BY <1>9, <3>1
      <4>2. First(manager)
        BY <1>7, <2>1, <2>7, <4>1 DEF First, MainPhase
      <4>. QED
        BY <1>1, <4>1, <4>2, SameBench DEF First
    <3>2. CASE p # Root
      BY <1>1, <1>9, <2>1, <3>2, SameBench DEF First
    <3>. QED
      BY <3>1, <3>2
  <2>10. All(proc[Root])'
    <3>1. CASE x.phase = 2
      <4>1. /\ proc'[Root].phase = 2 /\ proc'[Root].pos = "done" /\ Forking(2)
        BY <1>2, <1>7, <1>9, <2>3, <3>1
      <4>2. DOMAIN proc' = {Root} \cup ForkedInMain
        BY <1>3, <2>7, <3>1
      <4>. QED
        BY <1>1, <4>1, <4>2, SameBench DEF All, MainPhase
    <3>2. CASE x.phase = 3
      <4>1. proc'[Root].phase = 3 /\ proc[Root].phase = 3
        BY <2>5, <2>6, <3>2
      <4>2. ASSUME NEW q \in DOMAIN proc', proc'[q].phase = 2
            PROVE  proc'[q].pos \in Ended
        <5>1. q \in DOMAIN proc /\ proc'[q] = proc[q]
          BY <1>6, <1>7, <1>8, <3>2, <4>2
        <5>. QED
          BY <2>1, <4>1, <4>2, <5>1 DEF All, MainPhase
      <4>. QED
        BY <4>1, <4>2 DEF All, MainPhase, Ended
    <3>. QED
      BY <2>4, <3>1, <3>2
  <2>. QED
    BY <2>8, <2>9, <2>10
<1>. QED
  BY <1>10, <1>11, <1>12

-----------------------------------------------------------------------------
(* Theorems *)

\* Every step preserves the invariant.
LEMMA NextPreserves ==
  ASSUME IInv, [Next]_vars
  PROVE  IInv'
<1>1. CASE UNCHANGED vars
  <2>1. bench' = bench /\ proc' = proc /\ printed' = printed
    BY <1>1 DEF vars
  <2>. QED
    BY <2>1 DEF IInv, Typed, MovedOnce, OnlyFirstLeaves, Simple, OneReport, Forking, Moved,
                Other, First, All, ForkedInMain
<1>2. ASSUME NEW p \in DOMAIN proc, Step(p)
      PROVE  IInv'
  <2>1. CASE SetUpSingle(p)
    BY <2>1, SetUpSinglePreserves
  <2>2. CASE StartBarrier(p)
    BY <2>2, TogetherPreserves DEF StartBarrier
  <2>3. CASE EndBarrier(p)
    BY <2>3, TogetherPreserves DEF EndBarrier
  <2>4. CASE RunPlain(p) \/ SetTitle(p) \/ Run(p) \/ Repeat(p) \/ LeavePhase(p)
               \/ ChildExit(p) \/ Report(p)
    <3>1. Typed
      BY DEF IInv
    <3>2. PICK y : \E prints \in BOOLEAN :
            /\ ByItself(proc[p], y, prints)
            /\ proc' = [proc EXCEPT ![p] = y]
            /\ printed' = IF prints THEN printed \cup {p} ELSE printed
            /\ bench' = bench
            /\ prints /\ Forking(proc[p].phase) => \A q \in LastKids(p) : proc[q].pos \in Ended
      BY <2>4, <3>1, StepByItself
    <3>. QED
      BY <3>2, AlonePreserves
  <2>. QED
    BY <1>2, <2>1, <2>2, <2>3, <2>4 DEF Step
<1>. QED
  BY <1>1, <1>2 DEF Next

\* The processes of every benchmark obey the invariant.
THEOREM Invariance == Spec => []IInv
<1>1. Init => IInv
  BY Initially
<1>2. IInv /\ [Next]_vars => IInv'
  BY NextPreserves
<1>. QED
  BY <1>1, <1>2, PTL DEF Spec

\* setproctitle: only where a forked process forks again, because init forks
\* and a later phase does, or because a forking phase is repeated, is an
\* environment moved twice, however many processes and repetitions there are.
THEOREM TitleAlwaysSafe == Spec => []TitleSafe
<1>1. IInv => TitleSafe
  <2>. SUFFICES ASSUME IInv, Simple, NEW p \in DOMAIN proc
                PROVE  proc[p].environ # "undefined"
    <3>1. ASSUME IInv, ~Simple
          PROVE  \/ Forking(1) /\ (Forking(2) \/ Forking(3))
                 \/ \E phase \in Phases : Forking(phase) /\ bench[phase].repeat > 1
      BY <3>1 DEF Simple
    <3>. QED
      BY <3>1 DEF TitleSafe
  <2>. QED
    BY DEF IInv, MovedOnce, Moved
<1>. QED
  BY <1>1, Invariance, PTL

\* CollectResults of main: with a single report, every process of main has
\* ended when it is printed and clean_up begins.
THEOREM CleanUpAlwaysAfterMain == Spec => []CleanUpAfterMain
<1>1. IInv => CleanUpAfterMain
  BY DEF IInv, OnlyFirstLeaves, First, All, CleanUpAfterMain, Ended
<1>. QED
  BY <1>1, Invariance, PTL

\* A benchmark prints at most one report, and the first process prints it, if
\* init does not fork and a forking main is not repeated.
THEOREM OnlyFirstReports == Spec => [](OneReport => printed \subseteq {<<>>})
<1>1. IInv => (OneReport => printed \subseteq {<<>>})
  BY DEF IInv, OnlyFirstLeaves, First, Root
<1>. QED
  BY <1>1, Invariance, PTL

-----------------------------------------------------------------------------
(* Powers *)

\* A non-empty set of natural numbers has a least element.
LEMMA LeastNatural ==
  ASSUME NEW T \in SUBSET Nat, T # {}
  PROVE  \E x \in T : \A y \in T : x <= y
<1> DEFINE R == OpToRel(<, Nat)
<1>1. IsWellFoundedOn(R, Nat)
  BY NatLessThanWellFounded
<1>2. PICK x \in T : \A y \in T : ~ (<<y, x>> \in R)
  BY <1>1, WFMin, Zenon
<1>3. ASSUME NEW y \in T PROVE x <= y
  <2>1. y < x => <<y, x>> \in R
    BY DEF OpToRel
  <2>2. ~ (y < x)
    BY <1>2, <2>1
  <2> QED
    BY <2>2
<1> QED
  BY <1>3

\* A set of natural numbers with 0 and every successor has them all.
LEMMA SetInduction ==
  ASSUME NEW S \in SUBSET Nat, 0 \in S, \A n \in S : n + 1 \in S
  PROVE  S = Nat
<1> SUFFICES ASSUME Nat \ S # {} PROVE FALSE
  OBVIOUS
<1>1. PICK x \in Nat \ S : \A y \in Nat \ S : x <= y
  BY LeastNatural
<1>2. x - 1 \in S
  BY <1>1
<1> QED
  BY <1>1, <1>2

\* The first powers of a.
Powers(g, a, m) ==
  /\ g \in [0..m -> Nat] /\ g[0] = 1
  /\ \A k \in 0..m - 1 : g[k + 1] = a * g[k]

\* There are as many as one wants ...
LEMMA PowersExist ==
  ASSUME NEW a \in Nat
  PROVE  \A m \in Nat : \E g : Powers(g, a, m)
<1>. DEFINE T == {m \in Nat : \E g : Powers(g, a, m)}
<1>1. 0 \in T
  <2>. DEFINE g == [k \in 0..0 |-> 1]
  <2>1. Powers(g, a, 0)
    BY DEF Powers
  <2>. QED
    BY <2>1
<1>2. ASSUME NEW m \in T PROVE m + 1 \in T
  <2>1. m \in Nat /\ m + 1 \in Nat /\ m \in 0..m
    OBVIOUS
  <2>2. PICK g : Powers(g, a, m)
    BY <1>2
  <2>. DEFINE h == [k \in 0..m + 1 |-> IF k = m + 1 THEN a * g[m] ELSE g[k]]
  <2>3. g[m] \in Nat /\ a * g[m] \in Nat
    BY <2>1, <2>2 DEF Powers
  <2>4. \A k \in 0..m : k \in 0..m + 1 /\ h[k] = g[k] /\ g[k] \in Nat
    BY <2>1, <2>2 DEF Powers
  <2>5. h[m + 1] = a * g[m] /\ m + 1 \in 0..m + 1
    BY <2>1
  <2>6. h \in [0..m + 1 -> Nat]
    <3>1. \A k \in 0..m + 1 : k = m + 1 \/ k \in 0..m
      BY <2>1
    <3>. QED
      BY <2>3, <2>4, <3>1
  <2>7. h[0] = 1
    BY <2>1, <2>2, <2>4 DEF Powers
  <2>. HIDE DEF h
  <2>8. ASSUME NEW k \in 0..(m + 1) - 1 PROVE h[k + 1] = a * h[k]
    <3>1. k = m \/ k \in 0..m - 1
      BY <2>1
    <3>2. CASE k = m
      BY <2>1, <2>4, <2>5, <3>2
    <3>3. CASE k \in 0..m - 1
      <4>1. k \in 0..m /\ k + 1 \in 0..m
        BY <2>1, <3>3
      <4>. QED
        BY <2>2, <2>4, <3>3, <4>1 DEF Powers
    <3>. QED
      BY <3>1, <3>2, <3>3
  <2>9. Powers(h, a, m + 1)
    BY <2>6, <2>7, <2>8 DEF Powers
  <2>. QED
    BY <2>1, <2>9
<1>3. T = Nat
  <2>. HIDE DEF T
  <2>1. T \in SUBSET Nat
    BY DEF T
  <2>. QED
    BY <1>1, <1>2, <2>1, SetInduction
<1>. QED
  BY <1>3

\* ... and they do not depend on how many.
LEMMA PowersAgree ==
  ASSUME NEW a \in Nat, NEW m \in Nat, NEW n \in Nat, NEW g, NEW h,
         Powers(g, a, m), Powers(h, a, n)
  PROVE  \A k \in Nat : k <= m /\ k <= n => g[k] = h[k]
<1>. DEFINE T == {k \in Nat : k <= m /\ k <= n => g[k] = h[k]}
<1>1. 0 \in T
  BY DEF Powers
<1>2. ASSUME NEW k \in T PROVE k + 1 \in T
  <2>1. k \in Nat /\ k + 1 \in Nat
    OBVIOUS
  <2>. SUFFICES ASSUME k + 1 <= m, k + 1 <= n PROVE g[k + 1] = h[k + 1]
    BY <2>1
  <2>2. k \in 0..m - 1 /\ k \in 0..n - 1 /\ k <= m /\ k <= n
    BY <2>1
  <2>3. g[k] = h[k]
    BY <1>2, <2>2
  <2>. QED
    BY <2>2, <2>3 DEF Powers
<1>3. T = Nat
  <2>. HIDE DEF T
  <2>1. T \in SUBSET Nat
    BY DEF T
  <2>. QED
    BY <1>1, <1>2, <2>1, SetInduction
<1>. QED
  BY <1>3

\* The powers by their recursive definition.
LEMMA PowerOf ==
  ASSUME NEW a \in Nat
  PROVE  /\ Power(a, 0) = 1
         /\ \A n \in Nat : Power(a, n) \in Nat /\ Power(a, n + 1) = a * Power(a, n)
<1>. DEFINE Rec(f) == f = [k \in Nat |-> IF k = 0 THEN 1 ELSE a * f[k - 1]]
            P == CHOOSE f : Rec(f)
            row(m) == CHOOSE g : Powers(g, a, m)
            f == [m \in Nat |-> row(m)[m]]
<1>1. \A n : Power(a, n) = P[n]
  BY DEF Power
<1>2. ASSUME NEW m \in Nat PROVE Powers(row(m), a, m)
  <2>1. \E g : Powers(g, a, m)
    BY PowersExist
  <2>. QED
    BY <2>1, Zenon
<1>. HIDE DEF row
<1>3. ASSUME NEW m \in Nat PROVE row(m)[m] \in Nat
  BY <1>2 DEF Powers
<1>4. row(0)[0] = 1
  BY <1>2 DEF Powers
<1>5. ASSUME NEW m \in Nat PROVE row(m + 1)[m + 1] = a * row(m)[m]
  <2>1. m + 1 \in Nat /\ m <= m /\ m <= m + 1 /\ m \in 0..(m + 1) - 1
    OBVIOUS
  <2>2. Powers(row(m), a, m) /\ Powers(row(m + 1), a, m + 1)
    BY <1>2, <2>1
  <2>3. row(m)[m] = row(m + 1)[m]
    BY <2>1, <2>2, PowersAgree
  <2>. QED
    BY <2>1, <2>2, <2>3 DEF Powers
<1>6. Rec(f)
  <2>1. ASSUME NEW k \in Nat PROVE row(k)[k] = IF k = 0 THEN 1 ELSE a * f[k - 1]
    <3>1. CASE k = 0
      BY <1>4, <3>1
    <3>2. CASE k # 0
      <4>1. k - 1 \in Nat /\ (k - 1) + 1 = k
        BY <3>2
      <4>2. row((k - 1) + 1)[(k - 1) + 1] = a * row(k - 1)[k - 1]
        BY <1>5, <4>1
      <4>. QED
        BY <3>2, <4>1, <4>2
    <3>. QED
      BY <3>1, <3>2
  <2>. QED
    BY <2>1
<1>7. Rec(P)
  <2>. HIDE DEF Rec, f
  <2>. QED
    BY <1>6, Zenon
<1>. HIDE DEF P
<1>8. P[0] = 1 /\ \A n \in Nat : P[n + 1] = a * P[n]
  <2>1. \A k \in Nat : P[k] = IF k = 0 THEN 1 ELSE a * P[k - 1]
    BY <1>7
  <2>2. ASSUME NEW n \in Nat PROVE P[n + 1] = a * P[n]
    <3>1. n + 1 \in Nat /\ n + 1 # 0 /\ (n + 1) - 1 = n
      OBVIOUS
    <3>. QED
      BY <2>1, <3>1
  <2>. QED
    BY <2>1, <2>2
<1>9. \A n \in Nat : P[n] \in Nat
  <2>. DEFINE T == {n \in Nat : P[n] \in Nat}
  <2>1. 0 \in T
    BY <1>8
  <2>2. ASSUME NEW n \in T PROVE n + 1 \in T
    <3>1. n \in Nat /\ n + 1 \in Nat /\ P[n] \in Nat
      OBVIOUS
    <3>2. P[n + 1] = a * P[n]
      BY <1>8, <3>1
    <3>. QED
      BY <3>1, <3>2
  <2>3. T = Nat
    <3>. HIDE DEF T
    <3>1. T \in SUBSET Nat
      BY DEF T
    <3>. QED
      BY <2>1, <2>2, <3>1, SetInduction
  <2>. QED
    BY <2>3
<1>. QED
  BY <1>1, <1>8, <1>9

-----------------------------------------------------------------------------
(* How many reports are still owed *)

\* As many slots for each process q as o[q] says.
Own(q, c) == {q} \X (1..c)
Slots(o) == UNION {Own(q, o[q]) : q \in DOMAIN o}

\* A slot belongs to one process.
LEMMA OwnSlots ==
  /\ \A q, r, c, d : q # r => Own(q, c) \cap Own(r, d) = {}
  /\ \A q : \A c \in Nat : IsFiniteSet(Own(q, c)) /\ Cardinality(Own(q, c)) = c
<1>1. ASSUME NEW q, NEW r, NEW c, NEW d, NEW w, w \in Own(q, c), w \in Own(r, d) PROVE q = r
  <2>1. w[1] = q /\ w[1] = r
    BY <1>1 DEF Own
  <2>. QED
    BY <2>1
<1>2. ASSUME NEW q, NEW c \in Nat PROVE IsFiniteSet(Own(q, c)) /\ Cardinality(Own(q, c)) = c
  <2>1. IsFiniteSet({q}) /\ Cardinality({q}) = 1
    BY FS_Singleton
  <2>2. 1 \in Int /\ c \in Int
    OBVIOUS
  <2>3. IsFiniteSet(1..c) /\ Cardinality(1..c) = IF 1 > c THEN 0 ELSE c - 1 + 1
    BY <2>2, FS_Interval
  <2>4. Cardinality(1..c) = c
    BY <2>3
  <2>5. IsFiniteSet(Own(q, c)) /\ Cardinality(Own(q, c)) = 1 * c
    <3>. DEFINE one == {q}
                all == 1..c
    <3>1. IsFiniteSet(one) /\ Cardinality(one) = 1 /\ IsFiniteSet(all) /\ Cardinality(all) = c
      BY <2>1, <2>3, <2>4
    <3>. HIDE DEF one, all
    <3>2. IsFiniteSet(one \X all) /\ Cardinality(one \X all) = 1 * c
      BY <3>1, FS_Product
    <3>. QED
      BY <3>2 DEF Own, one, all
  <2>. QED
    BY <2>5
<1>. QED
  BY <1>1, <1>2

\* From o to n the process p gets u slots, and the new ones get v each.
Change(o, n, p, new, u, v) ==
  /\ (\A q \in DOMAIN o : o[q] \in Nat) /\ IsFiniteSet(Slots(o)) /\ p \in DOMAIN o
  /\ IsFiniteSet(new) /\ new \cap DOMAIN o = {}
  /\ u \in Nat /\ v \in Nat
  /\ DOMAIN n = DOMAIN o \cup new
  /\ \A q \in DOMAIN o : n[q] = IF q = p THEN u ELSE o[q]
  /\ \A q \in new : n[q] = v

\* How many slots there are then.
LEMMA SlotsChange ==
  ASSUME NEW o, NEW n, NEW p, NEW new, NEW u, NEW v, Change(o, n, p, new, u, v)
  PROVE  /\ IsFiniteSet(Slots(n))
         /\ Cardinality(Slots(n)) + o[p] = Cardinality(Slots(o)) + u + Cardinality(new) * v
         /\ Cardinality(Slots(o)) \in Nat /\ Cardinality(Slots(n)) \in Nat
<1>. USE DEF Change
<1>. DEFINE rest == UNION {Own(q, o[q]) : q \in DOMAIN o \ {p}}
            old == Own(p, o[p])
            mine == Own(p, u)
            theirs == UNION {Own(q, v) : q \in new}
            both == rest \cup mine
<1>1. o[p] \in Nat
  OBVIOUS
<1>2. IsFiniteSet(theirs) /\ Cardinality(theirs) = Cardinality(new) * v
  <2>1. IsFiniteSet(1..v) /\ Cardinality(1..v) = v
    <3>1. 1 \in Int /\ v \in Int
      OBVIOUS
    <3>2. IsFiniteSet(1..v) /\ Cardinality(1..v) = IF 1 > v THEN 0 ELSE v - 1 + 1
      BY <3>1, FS_Interval
    <3>. QED
      BY <3>2
  <2>2. theirs = new \X (1..v)
    <3>1. theirs \subseteq new \X (1..v)
      BY DEF Own
    <3>2. ASSUME NEW w \in new \X (1..v) PROVE w \in theirs
      <4>1. PICK q \in new, k \in 1..v : w = <<q, k>>
        OBVIOUS
      <4>2. w \in Own(q, v)
        BY <4>1 DEF Own
      <4>. QED
        BY <4>2
    <3>. QED
      BY <3>1, <3>2
  <2>. DEFINE all == 1..v
  <2>3. IsFiniteSet(new) /\ IsFiniteSet(all) /\ Cardinality(all) = v /\ theirs = new \X all
    BY <2>1, <2>2
  <2>. HIDE DEF all, theirs, Change
  <2>4. IsFiniteSet(new \X all) /\ Cardinality(new \X all) = Cardinality(new) * Cardinality(all)
    BY <2>3, FS_Product
  <2>. QED
    BY <2>3, <2>4
<1>3. IsFiniteSet(old) /\ Cardinality(old) = o[p] /\ IsFiniteSet(mine) /\ Cardinality(mine) = u
  BY <1>1, OwnSlots
<1>4. Slots(o) = rest \cup old
  BY DEF Slots
<1>5. Slots(n) = both \cup theirs
  <2>1. ASSUME NEW w \in Slots(n) PROVE w \in both \cup theirs
    <3>1. PICK q \in DOMAIN o \cup new : w \in Own(q, n[q])
      BY DEF Slots
    <3>2. CASE q = p
      BY <3>1, <3>2
    <3>3. CASE q \in new
      BY <3>1, <3>3
    <3>4. CASE q \in DOMAIN o \ {p}
      <4>1. w \in Own(q, o[q])
        BY <3>1, <3>4
      <4>. QED
        BY <3>4, <4>1
    <3>. QED
      BY <3>2, <3>3, <3>4
  <2>2. ASSUME NEW w \in rest PROVE w \in Slots(n)
    <3>1. PICK q \in DOMAIN o \ {p} : w \in Own(q, o[q])
      OBVIOUS
    <3>2. n[q] = o[q] /\ q \in DOMAIN n
      OBVIOUS
    <3>. QED
      BY <3>1, <3>2 DEF Slots
  <2>3. ASSUME NEW w \in mine PROVE w \in Slots(n)
    <3>1. n[p] = u /\ p \in DOMAIN n
      OBVIOUS
    <3>. QED
      BY <3>1 DEF Slots
  <2>4. ASSUME NEW w \in theirs PROVE w \in Slots(n)
    <3>1. PICK q \in new : w \in Own(q, v)
      OBVIOUS
    <3>2. n[q] = v /\ q \in DOMAIN n
      OBVIOUS
    <3>. QED
      BY <3>1, <3>2 DEF Slots
  <2>. QED
    BY <2>1, <2>2, <2>3, <2>4
<1>6. rest \cap old = {} /\ rest \cap mine = {}
  <2>1. ASSUME NEW w \in rest PROVE w \notin old /\ w \notin mine
    <3>1. PICK q \in DOMAIN o \ {p} : w \in Own(q, o[q])
      OBVIOUS
    <3>. QED
      BY <3>1, OwnSlots
  <2>. QED
    BY <2>1
<1>7. both \cap theirs = {}
  <2>1. ASSUME NEW w \in both, w \in theirs PROVE FALSE
    <3>1. PICK q \in new : w \in Own(q, v)
      BY <2>1
    <3>2. PICK r \in DOMAIN o : \E c : w \in Own(r, c)
      <4>1. CASE w \in mine
        BY <4>1
      <4>2. CASE w \in rest
        BY <4>2
      <4>. QED
        BY <2>1, <4>1, <4>2
    <3>3. r # q
      OBVIOUS
    <3>. QED
      BY <3>1, <3>2, <3>3, OwnSlots
  <2>. QED
    BY <2>1
<1>8. IsFiniteSet(rest)
  <2>1. rest \in SUBSET Slots(o)
    BY <1>4
  <2>. QED
    BY <2>1, FS_Subset
<1>. HIDE DEF rest, mine, old, theirs
<1>9. Cardinality(Slots(o)) = Cardinality(rest) + Cardinality(old) - Cardinality({})
  BY <1>3, <1>4, <1>6, <1>8, FS_Union
<1>10. /\ IsFiniteSet(both)
       /\ Cardinality(both) = Cardinality(rest) + Cardinality(mine) - Cardinality({})
  BY <1>3, <1>6, <1>8, FS_Union
<1>. HIDE DEF both
<1>11. /\ IsFiniteSet(Slots(n))
       /\ Cardinality(Slots(n)) = Cardinality(both) + Cardinality(theirs) - Cardinality({})
  BY <1>2, <1>5, <1>7, <1>10, FS_Union
<1>12. Cardinality({}) = 0 /\ Cardinality(rest) \in Nat
  BY <1>8, FS_EmptySet, FS_CardinalityType
<1>13. /\ Cardinality(theirs) \in Nat /\ Cardinality(Slots(o)) \in Nat
       /\ Cardinality(Slots(n)) \in Nat
  BY <1>2, <1>11, FS_CardinalityType
<1>. QED
  BY <1>1, <1>2, <1>3, <1>9, <1>10, <1>11, <1>12, <1>13

-----------------------------------------------------------------------------
(* The names of the processes *)

\* Every process was forked by another, except the first one, and those that
\* a process has forked are numbered from 1.
Named(D) ==
  /\ \A p \in Seq(Nat) : \A k \in Nat : Append(p, k) \in D => p \in D
  /\ \A p \in D : \E c \in Nat : \A k \in Nat : Append(p, k) \in D <=> k \in 1..c

\* A name says which process it was forked by, and as which one.
LEMMA NamesDiffer ==
  \A p, q \in Seq(Nat) : \A k, m \in Nat : Append(p, k) = Append(q, m) => p = q /\ k = m
<1>. SUFFICES ASSUME NEW p \in Seq(Nat), NEW q \in Seq(Nat), NEW k \in Nat, NEW m \in Nat,
                     Append(p, k) = Append(q, m)
              PROVE  p = q /\ k = m
  OBVIOUS
<1>1. /\ Len(Append(p, k)) = Len(p) + 1 /\ Len(Append(q, m)) = Len(q) + 1
      /\ Len(p) \in Nat /\ Len(q) \in Nat
  OBVIOUS
<1>2. Len(p) = Len(q)
  BY <1>1
<1>3. Append(p, k)[Len(p) + 1] = k /\ Append(q, m)[Len(q) + 1] = m
  OBVIOUS
<1>4. k = m
  BY <1>2, <1>3
<1>5. ASSUME NEW i \in 1..Len(p) PROVE p[i] = q[i]
  <2>1. Append(p, k)[i] = p[i]
    BY SMTT(40)
  <2>2. Append(q, m)[i] = q[i]
    BY <1>2
  <2>. QED
    BY <2>1, <2>2
<1>6. p = q
  BY <1>2, <1>5, SMTT(40)
<1>. QED
  BY <1>4, <1>6

\* Sequences with the same elements are the same.
LEMMA SequencesEqual ==
  ASSUME NEW s \in Seq(Nat), NEW t \in Seq(Nat), Len(s) = Len(t),
         \A i \in 1..Len(t) : s[i] = t[i]
  PROVE  s = t
  BY SMTT(40)

\* There are as many names as numbers.
LEMMA AppendsCount ==
  ASSUME NEW p \in Seq(Nat), NEW S \in SUBSET Nat, IsFiniteSet(S)
  PROVE  /\ IsFiniteSet({Append(p, k) : k \in S})
         /\ Cardinality({Append(p, k) : k \in S}) = Cardinality(S)
<1>. DEFINE T == {Append(p, k) : k \in S}
            f == [k \in S |-> Append(p, k)]
<1>1. f \in [S -> T] /\ \A k \in S : f[k] = Append(p, k)
  OBVIOUS
<1>2. \A t \in T : \E k \in S : f[k] = t
  OBVIOUS
<1>3. ASSUME NEW k \in S, NEW m \in S, f[k] = f[m] PROVE k = m
  <2>1. Append(p, k) = Append(p, m) /\ k \in Nat /\ m \in Nat
    BY <1>1, <1>3
  <2>. QED
    BY <2>1, NamesDiffer
<1>. HIDE DEF f, T
<1>4. f \in Bijection(S, T)
  BY <1>1, <1>2, <1>3 DEF Bijection, Injection, IsInjective, Surjection
<1>5. ExistsBijection(S, T)
  BY <1>4 DEF ExistsBijection
<1>6. IsFiniteSet(T) /\ Cardinality(T) = Cardinality(S)
  BY <1>5, FS_Bijection
<1>. QED
  BY <1>6 DEF T

\* The new processes of a SetUpSingle that forks n of them, from the first on.
Numbered(p, n, first, new) ==
  /\ p \in DOMAIN proc /\ n \in Nat
  /\ first = Cardinality(Kids(p)) + 1
  /\ new = {Append(p, k) : k \in first..first + n - 1}

\* They are new, and numbered after those there were.
LEMMA NewNames ==
  ASSUME Typed, Named(DOMAIN proc), NEW p, NEW n, NEW first, NEW new, Numbered(p, n, first, new)
  PROVE  /\ new \cap DOMAIN proc = {} /\ IsFiniteSet(new) /\ Cardinality(new) = n
         /\ Named(DOMAIN proc \cup new)
<1>. USE DEF Numbered
<1>. DEFINE D == DOMAIN proc
<1>1. p \in Seq(Nat) /\ D \subseteq Seq(Nat)
  BY DEF Typed
<1>2. PICK c \in Nat : \A k \in Nat : Append(p, k) \in D <=> k \in 1..c
  BY DEF Named
<1>3. Kids(p) = {Append(p, k) : k \in 1..c}
  <2>1. ASSUME NEW q \in Kids(p) PROVE \E k \in 1..c : q = Append(p, k)
    <3>1. q \in Seq(Nat) /\ Len(q) = Len(p) + 1 /\ SubSeq(q, 1, Len(p)) = p /\ q \in D
      BY <1>1 DEF Kids
    <3>. DEFINE k == q[Len(q)]
    <3>2. Len(p) \in Nat /\ k \in Nat
      BY <1>1, <3>1
    <3>3. \A i \in 1..Len(p) : SubSeq(q, 1, Len(p))[i] = q[i]
      BY <3>1, <3>2
    <3>4. \A i \in 1..Len(p) : p[i] = q[i]
      BY <3>1, <3>3
    <3>5. /\ Append(p, k) \in Seq(Nat) /\ Len(Append(p, k)) = Len(q)
          /\ \A i \in 1..Len(q) : Append(p, k)[i] = q[i]
      BY <1>1, <3>1, <3>2, <3>4
    <3>6. q = Append(p, k)
      BY <3>1, <3>5
    <3>. HIDE DEF k
    <3>7. k \in 1..c
      BY <1>2, <3>1, <3>2, <3>6
    <3>. QED
      BY <3>6, <3>7
  <2>2. ASSUME NEW k \in 1..c PROVE Append(p, k) \in Kids(p)
    <3>1. k \in Nat /\ Append(p, k) \in D
      BY <1>2
    <3>. DEFINE q == Append(p, k)
                r == SubSeq(q, 1, Len(p))
    <3>2. /\ Len(p) \in Nat /\ q \in Seq(Nat) /\ Len(q) = Len(p) + 1
          /\ \A i \in 1..Len(p) : q[i] = p[i]
      BY <1>1, <3>1
    <3>. HIDE DEF q
    <3>3. r \in Seq(Nat) /\ Len(r) = Len(p) /\ \A i \in 1..Len(p) : r[i] = q[i]
      BY <3>2
    <3>. HIDE DEF r
    <3>4. r = p
      <4>1. p \in Seq(Nat) /\ \A i \in 1..Len(p) : r[i] = p[i]
        BY <1>1, <3>2, <3>3
      <4>. QED
        BY <3>3, <4>1, SequencesEqual
    <3>. QED
      BY <3>1, <3>2, <3>4 DEF Kids, q, r
  <2>. QED
    BY <2>1, <2>2
<1>4. first = c + 1
  <2>1. 1 \in Int /\ c \in Int
    OBVIOUS
  <2>2. IsFiniteSet(1..c) /\ Cardinality(1..c) = IF 1 > c THEN 0 ELSE c - 1 + 1
    BY <2>1, FS_Interval
  <2>3. 1..c \in SUBSET Nat /\ Cardinality(1..c) = c
    BY <2>2
  <2>4. Cardinality({Append(p, k) : k \in 1..c}) = Cardinality(1..c)
    BY <1>1, <2>2, <2>3, AppendsCount
  <2>. QED
    BY <1>3, <2>3, <2>4
<1>. DEFINE last == c + n
            S == first..last
<1>5. new = {Append(p, k) : k \in S} /\ S \in SUBSET Nat /\ last \in Nat /\ first \in Nat
  <2>1. first + n - 1 = last
    BY <1>4
  <2>. QED
    BY <1>4, <2>1
<1>6. IsFiniteSet(S) /\ Cardinality(S) = n
  <2>1. first \in Int /\ last \in Int
    BY <1>5
  <2>. HIDE DEF last
  <2>2. IsFiniteSet(S) /\ Cardinality(S) = IF first > last THEN 0 ELSE last - first + 1
    BY <2>1, FS_Interval
  <2>. QED
    BY <1>4, <2>2 DEF last
<1>7. \A k \in S : k \in Nat /\ k \notin 1..c
  BY <1>4
<1>8. \A k \in Nat : k \in 1..last <=> k \in 1..c \/ k \in S
  BY <1>4
<1>. HIDE DEF S, last
<1>9. IsFiniteSet(new) /\ Cardinality(new) = n
  BY <1>1, <1>5, <1>6, AppendsCount, ZenonT(60)
<1>10. new \cap D = {}
  BY <1>2, <1>5, <1>7
<1>11. Named(D \cup new)
  <2>1. ASSUME NEW q \in Seq(Nat), NEW k \in Nat PROVE Append(q, k) \in new => q = p /\ k \in S
    <3>. SUFFICES ASSUME Append(q, k) \in new PROVE q = p /\ k \in S
      OBVIOUS
    <3>1. PICK m \in S : Append(q, k) = Append(p, m)
      BY <1>5
    <3>2. m \in Nat
      BY <1>7
    <3>3. q = p /\ k = m
      BY <1>1, <3>1, <3>2, NamesDiffer
    <3>. QED
      BY <3>3
  <2>2. \A q \in Seq(Nat) : \A k \in Nat : Append(q, k) \in D \cup new => q \in D \cup new
    BY <2>1 DEF Named
  <2>3. ASSUME NEW q \in D \cup new
        PROVE  \E b \in Nat : \A k \in Nat : Append(q, k) \in D \cup new <=> k \in 1..b
    <3>0. new \subseteq Seq(Nat)
      <4>1. \A k \in Nat : Append(p, k) \in Seq(Nat)
        BY <1>1
      <4>. QED
        BY <1>5, <4>1
    <3>1. CASE q = p
      <4>1. \A k \in Nat : Append(p, k) \in new <=> k \in S
        BY <1>1, <1>5, <2>1
      <4>2. \A k \in Nat : Append(q, k) \in D \cup new <=> k \in 1..last
        BY <1>2, <1>8, <3>1, <4>1
      <4>. QED
        BY <1>5, <4>2
    <3>2. CASE q # p /\ q \in D
      <4>1. PICK b \in Nat : \A k \in Nat : Append(q, k) \in D <=> k \in 1..b
        BY <3>2 DEF Named
      <4>2. \A k \in Nat : Append(q, k) \in D \cup new <=> k \in 1..b
        BY <1>1, <2>1, <3>2, <4>1
      <4>. QED
        BY <4>2
    <3>3. CASE q # p /\ q \notin D
      <4>1. \A k \in Nat : Append(q, k) \notin D \cup new
        BY <2>1, <3>0, <3>3 DEF Named
      <4>2. \A k \in Nat : Append(q, k) \in D \cup new <=> k \in 1..0
        BY <4>1
      <4>3. 0 \in Nat
        OBVIOUS
      <4>. QED
        BY <4>2, <4>3, Zenon
    <3>. QED
      BY <3>1, <3>2, <3>3
  <2>. QED
    BY <2>2, <2>3 DEF Named
<1>. QED
  BY <1>9, <1>10, <1>11

-----------------------------------------------------------------------------
(* What a process owes *)

\* The SetUpSingles before a process: those of its phase that it still calls.
Left(b, x) ==
  IF x.pos = "single" THEN b[x.phase].repeat - x.rep
  ELSE IF x.pos \in {"over", "exited"} THEN 0
  ELSE b[x.phase].repeat - x.rep - 1

\* The reports of a process in the given phase, with left SetUpSingles before
\* it, and of all it will have forked: after its last one a child of main has
\* no report of its own.
Debt(b, phase, left, child) ==
  IF phase = 1
    THEN Power(b[1].forks + 1, left) * Power(b[MainPhase].forks + 1, b[MainPhase].repeat - 1)
  ELSE IF phase # MainPhase THEN 0
  ELSE IF left > 0 THEN Power(b[MainPhase].forks + 1, left - 1)
  ELSE IF child THEN 0
  ELSE 1

Owes(b, x) == Debt(b, x.phase, Left(b, x), x.child)

\* Of the loop of Instruction::Run, and of where a process exits.
Proper(b, x) ==
  /\ x.pos \notin {"over", "exited"} => x.rep < b[x.phase].repeat
  /\ x.pos = "exited" => x.phase # 1 /\ (x.phase = MainPhase => x.child)
  /\ x.child => b[x.phase].forks > 0

Debts(b, procs) == [p \in DOMAIN procs |-> Owes(b, procs[p])]

\* What has been printed and what is still owed add up to Reports.
Owing ==
  /\ Named(DOMAIN proc)
  /\ \A p \in DOMAIN proc : Proper(bench, proc[p])
  /\ IsFiniteSet(printed)
  /\ \A p \in printed : p \in DOMAIN proc /\ proc[p].phase = 3
  /\ IsFiniteSet(Slots(Debts(bench, proc)))
  /\ Cardinality(Slots(Debts(bench, proc))) + Cardinality(printed) = Reports

\* The benchmark's numbers.
LEMMA BenchNumbers ==
  ASSUME Typed
  PROVE  /\ \A i \in {1, 2, 3} : bench[i].forks \in Nat /\ bench[i].forks + 1 \in Nat
                                 /\ bench[i].repeat \in Nat /\ bench[i].repeat > 0
         /\ bench[2].repeat - 1 \in Nat
  BY SMTT(40) DEF Typed, Phases

\* What a process owes before a SetUpSingle is what it owes after it and what
\* the processes forked there do.
LEMMA DebtForks ==
  ASSUME Typed, NEW i \in {1, 2, 3}, NEW l \in Nat, NEW c \in BOOLEAN
  PROVE  /\ Debt(bench, i, l, c) \in Nat
         /\ Debt(bench, i, l + 1, c)
              = Debt(bench, i, l, FALSE) + bench[i].forks * Debt(bench, i, l, TRUE)
<1>. DEFINE n == bench[2].repeat - 1
            k == bench[1].forks
            f == bench[2].forks
<1>1. k \in Nat /\ f \in Nat /\ k + 1 \in Nat /\ f + 1 \in Nat /\ n \in Nat
  BY BenchNumbers
<1>. DEFINE R == Power(f + 1, n)
<1>2. CASE i = 1
  <2>. DEFINE P == Power(k + 1, l)
  <2>1. R \in Nat /\ P \in Nat /\ Power(k + 1, l + 1) = (k + 1) * P
    <3>. HIDE DEF n, k, f
    <3>. QED
      BY <1>1, PowerOf
  <2>2. /\ Debt(bench, i, l, c) = P * R /\ Debt(bench, i, l, FALSE) = P * R
        /\ Debt(bench, i, l, TRUE) = P * R
    BY <1>2 DEF Debt, MainPhase
  <2>3. Debt(bench, i, l + 1, c) = Power(k + 1, l + 1) * R
    BY <1>2 DEF Debt, MainPhase
  <2>4. bench[i].forks = k
    BY <1>2
  <2>. HIDE DEF R, P, k
  <2>5. ((k + 1) * P) * R = P * R + k * (P * R) /\ P * R \in Nat
    BY <1>1, <2>1
  <2>. QED
    BY <2>1, <2>2, <2>3, <2>4, <2>5
<1>3. CASE i = 2
  <2>1. l + 1 > 0 /\ (l + 1) - 1 = l /\ bench[i].forks = f
    BY <1>3
  <2>2. Debt(bench, i, l + 1, c) = Power(f + 1, l)
    BY <1>3, <2>1 DEF Debt, MainPhase
  <2>3. CASE l = 0
    <3>1. /\ Debt(bench, i, l, FALSE) = 1 /\ Debt(bench, i, l, TRUE) = 0
          /\ Debt(bench, i, l, c) \in {0, 1}
      BY <1>3, <2>3 DEF Debt, MainPhase
    <3>. HIDE DEF f
    <3>2. Power(f + 1, l) = 1
      <4>1. Power(f + 1, 0) = 1
        BY <1>1, PowerOf
      <4>. QED
        BY <2>3, <4>1
    <3>3. bench[i].forks * Debt(bench, i, l, TRUE) = f * 0
      BY <2>1, <3>1, Zenon
    <3>4. 1 + f * 0 = 1
      BY <1>1
    <3>5. Debt(bench, i, l, FALSE) + bench[i].forks * Debt(bench, i, l, TRUE) = 1 + f * 0
      BY <3>1, <3>3, Zenon
    <3>6. Debt(bench, i, l + 1, c) = 1 + f * 0
      BY <2>2, <3>2, <3>4, Zenon
    <3>7. Debt(bench, i, l, c) \in Nat
      BY <3>1
    <3>. QED
      BY <3>5, <3>6, <3>7, Zenon
  <2>4. CASE l # 0
    <3>1. l > 0 /\ l - 1 \in Nat /\ (l - 1) + 1 = l
      BY <2>4
    <3>. DEFINE m == l - 1
                P == Power(f + 1, m)
    <3>2. /\ Debt(bench, i, l, FALSE) = P /\ Debt(bench, i, l, TRUE) = P
          /\ Debt(bench, i, l, c) = P
      BY <1>3, <3>1 DEF Debt, MainPhase
    <3>3. m \in Nat /\ m + 1 = l
      BY <3>1
    <3>. HIDE DEF f, m
    <3>4. P \in Nat /\ Power(f + 1, m + 1) = (f + 1) * P
      BY <1>1, <3>3, PowerOf
    <3>. HIDE DEF P
    <3>5. (f + 1) * P = P + f * P
      BY <1>1, <3>4
    <3>. QED
      BY <2>1, <2>2, <3>2, <3>3, <3>4, <3>5
  <2>. QED
    BY <2>3, <2>4
<1>4. CASE i = 3
  <2>1. /\ Debt(bench, i, l, c) = 0 /\ Debt(bench, i, l, FALSE) = 0
        /\ Debt(bench, i, l, TRUE) = 0 /\ Debt(bench, i, l + 1, c) = 0
    BY <1>4 DEF Debt, MainPhase
  <2>. DEFINE g == bench[i].forks
  <2>2. g \in Nat
    BY <1>4, BenchNumbers
  <2>. HIDE DEF g
  <2>3. 0 = 0 + g * 0
    BY <2>2
  <2>4. bench[i].forks * Debt(bench, i, l, TRUE) = g * 0
    BY <2>1, Zenon DEF g
  <2>5. Debt(bench, i, l, FALSE) + bench[i].forks * Debt(bench, i, l, TRUE) = 0 + g * 0
    BY <2>1, <2>4, Zenon
  <2>6. Debt(bench, i, l, c) \in Nat
    BY <2>1
  <2>. QED
    BY <2>1, <2>3, <2>5, <2>6, Zenon
<1>. QED
  BY <1>2, <1>3, <1>4

\* A process of a benchmark owes a number of reports.
LEMMA OwesNumber ==
  ASSUME Typed, NEW x \in Processes, Proper(bench, x)
  PROVE  Left(bench, x) \in Nat /\ Owes(bench, x) \in Nat
<1>1. x.phase \in {1, 2, 3} /\ x.child \in BOOLEAN /\ x.rep \in Nat
  BY DEF Processes, Phases
<1>2. bench[x.phase].repeat \in Nat
  BY <1>1, BenchNumbers
<1>3. Left(bench, x) \in Nat
  BY <1>1, <1>2 DEF Left, Proper
<1>. QED
  BY <1>1, <1>3, DebtForks DEF Owes

\* A step of a process by itself pays what it prints, and nothing else.
LEMMA ByItselfPays ==
  ASSUME Typed, NEW x \in Processes, NEW y, NEW prints \in BOOLEAN, ByItself(x, y, prints),
         Proper(bench, x)
  PROVE  /\ Proper(bench, y)
         /\ Owes(bench, x) = Owes(bench, y) + (IF prints THEN 1 ELSE 0)
         /\ prints => x.phase # 3 /\ y.phase = 3
         /\ x.phase = 3 => y.phase = 3
<1>. DEFINE Goal ==
              /\ Proper(bench, y)
              /\ Owes(bench, x) = Owes(bench, y) + (IF prints THEN 1 ELSE 0)
              /\ prints => x.phase # 3 /\ y.phase = 3
              /\ x.phase = 3 => y.phase = 3
<1>. SUFFICES Goal
  OBVIOUS
<1>1. x.phase \in {1, 2, 3} /\ x.child \in BOOLEAN /\ x.rep \in Nat
  BY DEF Processes, Phases
<1>2. bench[x.phase].repeat \in Nat /\ bench[x.phase].forks \in Nat
  BY <1>1, BenchNumbers
<1>3. Left(bench, x) \in Nat /\ Owes(bench, x) \in Nat
  BY OwesNumber
<1>a. ASSUME ~prints, Proper(bench, y), Owes(bench, x) = Owes(bench, y), y.phase = x.phase
      PROVE  Goal
  BY <1>3, <1>a
<1>4. CASE x.pos = "single" /\ ~Forking(x.phase) /\ ~prints /\ y = [x EXCEPT !.pos = "done"]
  <2>1. y.phase = x.phase /\ y.rep = x.rep /\ y.pos = "done" /\ y.child = x.child
    BY <1>4 DEF Processes
  <2>2. ~x.child /\ bench[x.phase].forks = 0
    BY <1>2, <1>4 DEF Proper, Forking
  <2>3. Left(bench, y) \in Nat /\ Left(bench, x) = Left(bench, y) + 1
    BY <1>1, <1>2, <1>4, <2>1 DEF Left, Proper
  <2>4. /\ Debt(bench, x.phase, Left(bench, y), FALSE) \in Nat
        /\ Debt(bench, x.phase, Left(bench, y), TRUE) \in Nat
        /\ Debt(bench, x.phase, Left(bench, y) + 1, FALSE)
             = Debt(bench, x.phase, Left(bench, y), FALSE)
               + bench[x.phase].forks * Debt(bench, x.phase, Left(bench, y), TRUE)
    BY <1>1, <2>3, DebtForks
  <2>5. Owes(bench, x) = Owes(bench, y) /\ Owes(bench, y) \in Nat
    <3>. DEFINE before == Debt(bench, x.phase, Left(bench, y) + 1, FALSE)
                alone == Debt(bench, x.phase, Left(bench, y), FALSE)
                forked == Debt(bench, x.phase, Left(bench, y), TRUE)
    <3>1. x.child = FALSE /\ y.child = FALSE
      BY <1>1, <2>1, <2>2
    <3>2. Owes(bench, x) = before /\ Owes(bench, y) = alone
      BY <2>1, <2>3, <3>1 DEF Owes
    <3>3. alone \in Nat /\ forked \in Nat /\ before = alone + 0 * forked
      BY <2>2, <2>4
    <3>. HIDE DEF before, alone, forked
    <3>4. before = alone
      BY <3>3
    <3>. QED
      BY <3>2, <3>3, <3>4
  <2>6. Proper(bench, y)
    BY <1>4, <2>1 DEF Proper
  <2>. QED
    BY <1>4, <1>a, <2>1, <2>5, <2>6
<1>5. CASE /\ ~prints
           /\ \/ /\ x.pos = "title"
                 /\ \E pos \in {"ready", "crashed"} : \E e :
                      y = [x EXCEPT !.environ = e, !.pos = pos]
              \/ x.pos = "run" /\ y = [x EXCEPT !.pos = "ran"]
  <2>1. /\ y.phase = x.phase /\ y.rep = x.rep /\ y.pos \in {"ready", "crashed", "ran"}
        /\ y.child = x.child /\ x.pos \in {"title", "run"}
    BY <1>5 DEF Processes
  <2>2. Left(bench, y) = Left(bench, x)
    BY <2>1 DEF Left
  <2>3. Owes(bench, x) = Owes(bench, y)
    BY <2>1, <2>2 DEF Owes
  <2>4. Proper(bench, y)
    <3>1. x.rep < bench[x.phase].repeat /\ (x.child => bench[x.phase].forks > 0)
      BY <2>1 DEF Proper
    <3>. QED
      BY <2>1, <3>1 DEF Proper
  <2>. QED
    BY <1>5, <1>a, <2>1, <2>3, <2>4, Zenon
<1>6. CASE /\ x.pos = "done" /\ ~prints
           /\ \/ /\ x.rep + 1 < bench[x.phase].repeat
                 /\ y = [x EXCEPT !.rep = x.rep + 1, !.pos = "single"]
              \/ /\ ~(x.rep + 1 < bench[x.phase].repeat)
                 /\ y = [x EXCEPT !.rep = x.rep + 1, !.pos = "over"]
  <2>1. /\ y.phase = x.phase /\ y.rep = x.rep + 1 /\ y.child = x.child
        /\ y.pos = IF x.rep + 1 < bench[x.phase].repeat THEN "single" ELSE "over"
    BY <1>6 DEF Processes
  <2>2. Left(bench, y) = Left(bench, x)
    BY <1>1, <1>2, <1>6, <2>1 DEF Left, Proper
  <2>3. Owes(bench, x) = Owes(bench, y)
    BY <2>1, <2>2 DEF Owes
  <2>4. Proper(bench, y)
    BY <2>1 DEF Proper
  <2>. QED
    BY <1>6, <1>a, <2>1, <2>3, <2>4, Zenon
<1>7. CASE /\ x.pos = "over" /\ ~prints /\ y = [x EXCEPT !.pos = "exited"]
           /\ x.phase = 3 \/ (x.phase = MainPhase /\ x.child)
  <2>1. y.phase = x.phase /\ y.rep = x.rep /\ y.child = x.child /\ y.pos = "exited"
    BY <1>7 DEF Processes
  <2>2. Left(bench, y) = Left(bench, x)
    BY <1>7, <2>1 DEF Left
  <2>3. Owes(bench, x) = Owes(bench, y)
    BY <2>1, <2>2 DEF Owes
  <2>4. Proper(bench, y)
    BY <1>7, <2>1 DEF Proper, MainPhase
  <2>. QED
    BY <1>7, <1>a, <2>1, <2>3, <2>4, Zenon
<1>8. CASE /\ x.pos = "over" /\ x.phase # 3 /\ (prints <=> x.phase = MainPhase)
           /\ ~(x.phase = MainPhase /\ x.child)
           /\ y = [phase |-> x.phase + 1, rep |-> 0, pos |-> "single", child |-> FALSE,
                   born |-> x.born, environ |-> x.environ]
  <2>1. y.phase = x.phase + 1 /\ y.rep = 0 /\ y.child = FALSE /\ y.pos = "single"
    BY <1>8
  <2>2. y.phase \in {2, 3} /\ bench[y.phase].repeat \in Nat /\ bench[y.phase].repeat > 0
    BY <1>1, <1>8, <2>1, BenchNumbers
  <2>3. Left(bench, x) = 0 /\ Left(bench, y) = bench[y.phase].repeat
    BY <1>8, <2>1, <2>2 DEF Left
  <2>4. Proper(bench, y)
    BY <2>1, <2>2 DEF Proper
  <2>5. CASE x.phase = 1
    <3>. DEFINE P == Power(bench[2].forks + 1, bench[2].repeat - 1)
    <3>1. y.phase = 2 /\ ~prints
      BY <1>8, <2>1, <2>5 DEF MainPhase
    <3>2. Owes(bench, y) = P
      BY <2>2, <2>3, <3>1 DEF Owes, Debt, MainPhase
    <3>3. Power(bench[1].forks + 1, 0) = 1 /\ P \in Nat
      <4>. DEFINE k == bench[1].forks + 1
                  f == bench[2].forks + 1
                  n == bench[2].repeat - 1
      <4>1. k \in Nat /\ f \in Nat /\ n \in Nat
        BY BenchNumbers
      <4>. HIDE DEF k, f, n
      <4>2. Power(k, 0) = 1 /\ Power(f, n) \in Nat
        BY <4>1, PowerOf
      <4>. QED
        BY <4>2 DEF k, f, n
    <3>4. Owes(bench, x) = Power(bench[1].forks + 1, 0) * P
      BY <2>3, <2>5 DEF Owes, Debt, MainPhase
    <3>. HIDE DEF P
    <3>. QED
      BY <2>4, <2>5, <3>1, <3>2, <3>3, <3>4
  <2>6. CASE x.phase = 2
    <3>1. y.phase = 3 /\ prints /\ ~x.child
      BY <1>8, <2>1, <2>6 DEF MainPhase
    <3>2. Owes(bench, y) = 0 /\ Owes(bench, x) = 1
      BY <2>3, <2>6, <3>1 DEF Owes, Debt, MainPhase
    <3>. QED
      BY <2>4, <2>6, <3>1, <3>2
  <2>. QED
    BY <1>1, <1>8, <2>5, <2>6
<1>. HIDE DEF Goal
<1>9. ASSUME x.pos = "title", ~prints, NEW pos \in {"ready", "crashed"}, NEW e,
             y = [x EXCEPT !.environ = e, !.pos = pos]
      PROVE  Goal
  BY <1>5, <1>9, Zenon
<1>10. CASE x.pos = "title"
  BY <1>9, <1>10, ZenonT(60) DEF ByItself
<1>11. CASE x.pos = "over"
  <2>1. CASE x.phase = 3
    <3>1. ~prints /\ y = [x EXCEPT !.pos = "exited"]
      BY <1>11, <2>1 DEF ByItself, MainPhase
    <3>. QED
      BY <1>7, <1>11, <2>1, <3>1
  <2>2. CASE x.phase = MainPhase /\ x.child
    <3>1. ~prints /\ y = [x EXCEPT !.pos = "exited"]
      BY <1>11, <2>2 DEF ByItself, MainPhase
    <3>. QED
      BY <1>7, <1>11, <2>2, <3>1, Zenon
  <2>3. CASE x.phase # 3 /\ ~(x.phase = MainPhase /\ x.child)
    <3>1. /\ prints <=> x.phase = MainPhase
          /\ y = [phase |-> x.phase + 1, rep |-> 0, pos |-> "single", child |-> FALSE,
                  born |-> x.born, environ |-> x.environ]
      BY <1>11, <2>3 DEF ByItself
    <3>. QED
      BY <1>8, <1>11, <2>3, <3>1, Zenon
  <2>. QED
    BY <2>1, <2>2, <2>3
<1>12. CASE x.pos = "single"
  <2>1. ~Forking(x.phase) /\ ~prints /\ y = [x EXCEPT !.pos = "done"]
    BY <1>12 DEF ByItself
  <2>. QED
    BY <1>4, <1>12, <2>1, Zenon
<1>13. CASE x.pos = "run"
  BY <1>5, <1>13, ZenonT(60) DEF ByItself
<1>14. CASE x.pos = "done"
  BY <1>6, <1>14, ZenonT(60) DEF ByItself
<1>15. x.pos \in {"title", "over", "single", "run", "done"}
  BY DEF ByItself
<1>. QED
  BY <1>10, <1>11, <1>12, <1>13, <1>14, <1>15

-----------------------------------------------------------------------------
\* Init: the first process owes all reports.
LEMMA OwingInitially ==
  ASSUME Init
  PROVE  Owing
<1>. DEFINE x == Start(1, 0, "stack")
            o == Debts(bench, proc)
<1>1. Typed /\ DOMAIN proc = {Root} /\ proc[Root] = x /\ printed = {}
  BY Initially DEF IInv, Init, Root
<1>2. x.phase = 1 /\ x.rep = 0 /\ x.pos = "single" /\ x.child = FALSE
  BY DEF Start
<1>3. x \in Processes
  BY <1>1 DEF Typed
<1>. HIDE DEF x
<1>4. bench[1].repeat \in Nat /\ bench[1].repeat > 0
  BY <1>1, BenchNumbers
<1>5. Proper(bench, x)
  BY <1>2, <1>4 DEF Proper
<1>6. Owes(bench, x) = Reports
  <2>1. Left(bench, x) = bench[1].repeat
    BY <1>2, <1>4 DEF Left
  <2>. QED
    BY <1>2, <2>1 DEF Owes, Debt, Reports
<1>7. Reports \in Nat
  BY <1>1, <1>3, <1>5, <1>6, OwesNumber
<1>8. Slots(o) = Own(Root, Reports)
  <2>1. DOMAIN o = {Root} /\ o[Root] = Reports
    BY <1>1, <1>6 DEF Debts
  <2>. HIDE DEF o
  <2>. QED
    BY <2>1 DEF Slots
<1>9. IsFiniteSet(Slots(o)) /\ Cardinality(Slots(o)) = Reports
  BY <1>7, <1>8, OwnSlots
<1>10. IsFiniteSet(printed) /\ Cardinality(printed) = 0
  BY <1>1, FS_EmptySet
<1>11. Named(DOMAIN proc)
  <2>1. ASSUME NEW q \in Seq(Nat), NEW k \in Nat PROVE Append(q, k) # Root
    <3>1. Len(Append(q, k)) = Len(q) + 1 /\ Len(q) \in Nat /\ Len(Root) = 0
      BY DEF Root
    <3>. QED
      BY <3>1
  <2>2. Root \in Seq(Nat)
    BY DEF Root
  <2>3. \A k \in Nat : Append(Root, k) \in DOMAIN proc <=> k \in 1..0
    BY <1>1, <2>1, <2>2
  <2>4. \A q \in DOMAIN proc : \E c \in Nat : \A k \in Nat :
          Append(q, k) \in DOMAIN proc <=> k \in 1..c
    <3>1. 0 \in Nat
      OBVIOUS
    <3>. QED
      BY <1>1, <2>3, <3>1
  <2>. QED
    BY <1>1, <2>1, <2>4 DEF Named
<1>12. Cardinality(Slots(o)) + Cardinality(printed) = Reports
  BY <1>7, <1>9, <1>10
<1>. QED
  BY <1>1, <1>5, <1>9, <1>10, <1>11, <1>12 DEF Owing

\* The debts of the next state, by those of this one.
LEMMA DebtsOf ==
  ASSUME NEW b, NEW procs
  PROVE  /\ DOMAIN Debts(b, procs) = DOMAIN procs
         /\ \A q \in DOMAIN procs : Debts(b, procs)[q] = Owes(b, procs[q])
  BY DEF Debts

\* Every process of this state owes a number.
LEMMA DebtsNumbers ==
  ASSUME Typed, Owing
  PROVE  \A q \in DOMAIN proc : Owes(bench, proc[q]) \in Nat
  BY OwesNumber DEF Typed, Owing

\* The actions that change one record: what they print is no longer owed.
LEMMA AlonePays ==
  ASSUME Typed, Owing, NEW p \in DOMAIN proc, NEW y, NEW prints \in BOOLEAN,
         ByItself(proc[p], y, prints),
         proc' = [proc EXCEPT ![p] = y],
         printed' = (IF prints THEN printed \cup {p} ELSE printed),
         bench' = bench
  PROVE  Owing'
<1>. DEFINE x == proc[p]
            o == Debts(bench, proc)
            n == Debts(bench', proc')
            u == Owes(bench, y)
<1>1. x \in Processes /\ Proper(bench, x)
  BY DEF Typed, Owing
<1>2. y \in Processes
  BY <1>1, ByItselfTyped
<1>3. /\ Proper(bench, y) /\ Owes(bench, x) = u + (IF prints THEN 1 ELSE 0)
      /\ prints => x.phase # 3 /\ y.phase = 3
      /\ x.phase = 3 => y.phase = 3
  BY <1>1, ByItselfPays
<1>4. /\ DOMAIN proc' = DOMAIN proc
      /\ proc'[p] = y
      /\ \A q \in DOMAIN proc : q # p => proc'[q] = proc[q]
  BY DEF Typed
<1>5. u \in Nat
  BY <1>2, <1>3, OwesNumber
<1>6. /\ DOMAIN o = DOMAIN proc /\ \A q \in DOMAIN o : o[q] \in Nat
      /\ o[p] = u + (IF prints THEN 1 ELSE 0)
  BY <1>3, DebtsOf, DebtsNumbers
<1>7. /\ DOMAIN n = DOMAIN o \cup {}
      /\ \A q \in DOMAIN o : n[q] = IF q = p THEN u ELSE o[q]
  <2>1. DOMAIN n = DOMAIN proc /\ \A q \in DOMAIN proc : n[q] = Owes(bench, proc'[q])
    BY <1>4, DebtsOf
  <2>2. \A q \in DOMAIN proc : o[q] = Owes(bench, proc[q])
    BY DebtsOf
  <2>. HIDE DEF o, n
  <2>. QED
    BY <1>4, <1>6, <2>1, <2>2
<1>8. IsFiniteSet(Slots(o)) /\ IsFiniteSet({}) /\ Cardinality({}) = 0
  BY FS_EmptySet DEF Owing
<1>9. Cardinality(Slots(o)) + Cardinality(printed) = Reports /\ Reports' = Reports
  BY DEF Owing, Reports
<1>. HIDE DEF o, n, u
<1>10. /\ IsFiniteSet(Slots(n))
       /\ Cardinality(Slots(n)) + o[p] = Cardinality(Slots(o)) + u + Cardinality({}) * 0
       /\ Cardinality(Slots(o)) \in Nat /\ Cardinality(Slots(n)) \in Nat
  <2>1. {} \cap DOMAIN o = {} /\ (\A q \in {} : n[q] = 0) /\ 0 \in Nat /\ p \in DOMAIN o
    BY <1>6
  <2>. QED
    <3>1. Change(o, n, p, {}, u, 0)
      BY <1>5, <1>6, <1>7, <1>8, <2>1 DEF Change
    <3>. QED
      BY <3>1, SlotsChange
<1>11. Cardinality(Slots(n)) + (IF prints THEN 1 ELSE 0) = Cardinality(Slots(o))
  <2>1. Cardinality({}) * 0 = 0
    BY <1>8
  <2>. QED
    BY <1>5, <1>6, <1>10, <2>1
<1>12. IsFiniteSet(printed) /\ Cardinality(printed) \in Nat
  BY FS_CardinalityType DEF Owing
<1>13. /\ IsFiniteSet(printed')
       /\ Cardinality(printed') = Cardinality(printed) + (IF prints THEN 1 ELSE 0)
  <2>1. CASE prints
    <3>1. p \notin printed
      BY <1>3, <2>1 DEF Owing
    <3>2. /\ IsFiniteSet(printed \cup {p})
          /\ Cardinality(printed \cup {p}) = Cardinality(printed) + 1
      BY <1>12, <3>1, FS_AddElement
    <3>. QED
      BY <2>1, <3>2
  <2>2. CASE ~prints
    BY <1>12, <2>2
  <2>. QED
    BY <2>1, <2>2
<1>14. \A q \in printed' : q \in DOMAIN proc' /\ proc'[q].phase = 3
  <2>1. ASSUME NEW q \in printed PROVE q \in DOMAIN proc' /\ proc'[q].phase = 3
    <3>1. q \in DOMAIN proc /\ proc[q].phase = 3
      BY DEF Owing
    <3>. QED
      BY <1>3, <1>4, <3>1
  <2>2. prints => p \in DOMAIN proc' /\ proc'[p].phase = 3
    BY <1>3, <1>4
  <2>. QED
    BY <2>1, <2>2
<1>15. \A q \in DOMAIN proc' : Proper(bench', proc'[q])
  BY <1>3, <1>4 DEF Owing
<1>16. Named(DOMAIN proc')
  BY <1>4 DEF Owing
<1>17. Cardinality(Slots(n)) + Cardinality(printed') = Reports'
  BY <1>9, <1>10, <1>11, <1>12, <1>13
<1>. QED
  BY <1>10, <1>13, <1>14, <1>15, <1>16, <1>17 DEF Owing, n

\* A barrier: nobody owes more or less.
LEMMA TogetherPays ==
  ASSUME Typed, Owing, NEW p \in DOMAIN proc, NEW from, NEW to,
         (from = "ready" /\ to = "run") \/ (from = "ran" /\ to = "done"),
         Together(p, from, to)
  PROVE  Owing'
<1>1. bench' = bench /\ printed' = printed /\ DOMAIN proc' = DOMAIN proc
  BY DEF Together
<1>2. ASSUME NEW q \in DOMAIN proc
      PROVE  /\ proc'[q].phase = proc[q].phase
             /\ Proper(bench, proc'[q]) /\ Owes(bench, proc'[q]) = Owes(bench, proc[q])
  <2>. DEFINE x == proc[q]
              y == proc'[q]
  <2>1. x \in Processes /\ Proper(bench, x)
    BY DEF Typed, Owing
  <2>2. y = x \/ (x.pos = from /\ y = [x EXCEPT !.pos = to])
    BY DEF Together, At
  <2>3. CASE x.pos = from /\ y = [x EXCEPT !.pos = to]
    <3>1. /\ y.phase = x.phase /\ y.rep = x.rep /\ y.child = x.child
          /\ x.pos \in {"ready", "ran"} /\ y.pos \in {"run", "done"}
      BY <2>1, <2>3 DEF Processes
    <3>. HIDE DEF x, y
    <3>2. Left(bench, y) = Left(bench, x)
      BY <3>1 DEF Left
    <3>3. Owes(bench, y) = Owes(bench, x)
      BY <3>1, <3>2 DEF Owes
    <3>4. x.rep < bench[x.phase].repeat /\ (x.child => bench[x.phase].forks > 0)
      BY <2>1, <3>1 DEF Proper
    <3>5. Proper(bench, y)
      BY <3>1, <3>4 DEF Proper
    <3>. QED
      BY <3>1, <3>3, <3>5 DEF x, y
  <2>. QED
    BY <2>1, <2>2, <2>3
<1>3. Debts(bench', proc') = Debts(bench, proc)
  BY <1>1, <1>2 DEF Debts
<1>4. Reports' = Reports
  BY <1>1 DEF Reports
<1>5. \A q \in DOMAIN proc' : Proper(bench', proc'[q])
  BY <1>1, <1>2
<1>6. \A q \in printed' : q \in DOMAIN proc' /\ proc'[q].phase = 3
  BY <1>1, <1>2 DEF Owing
<1>. QED
  BY <1>1, <1>3, <1>4, <1>5, <1>6 DEF Owing

\* SetUpSingle: what the process owed, it and its children do.
LEMMA SetUpSinglePays ==
  ASSUME Typed, Owing, NEW p \in DOMAIN proc, SetUpSingle(p)
  PROVE  Owing'
<1>. DEFINE x == proc[p]
            first == Cardinality(Kids(p)) + 1
            forks == Forks(p)
            new == {Append(p, k) : k \in first..(first + forks - 1)}
            newborn == [x EXCEPT !.pos = "title", !.child = TRUE, !.born = first]
            manager == [x EXCEPT !.pos = "done", !.child = FALSE]
            o == Debts(bench, proc)
            n == Debts(bench', proc')
            u == Owes(bench, manager)
            v == Owes(bench, newborn)
<1>1. /\ bench' = bench /\ printed' = printed
      /\ x.pos = "single" /\ forks > 0 /\ forks = bench[x.phase].forks
      /\ proc' = [q \in DOMAIN proc \cup new |->
                    IF q \in new THEN newborn ELSE IF q = p THEN manager ELSE proc[q]]
  BY DEF SetUpSingle, At, Forks
<1>2. /\ x \in Processes /\ Proper(bench, x) /\ x.phase \in {1, 2, 3} /\ x.rep \in Nat
      /\ x.child \in BOOLEAN
  BY DEF Typed, Owing, Processes, Phases
<1>3. forks \in Nat /\ bench[x.phase].repeat \in Nat
  BY <1>1, <1>2, BenchNumbers
<1>4. /\ new \cap DOMAIN proc = {} /\ IsFiniteSet(new) /\ Cardinality(new) = forks
      /\ Named(DOMAIN proc \cup new)
  <2>. HIDE DEF forks, first, new
  <2>1. Named(DOMAIN proc)
    BY DEF Owing
  <2>2. first = Cardinality(Kids(p)) + 1 /\ new = {Append(p, k) : k \in first..first + forks - 1}
    BY DEF first, new
  <2>3. Numbered(p, forks, first, new)
    BY <1>3, <2>2 DEF Numbered
  <2>. QED
    BY <2>1, <2>3, NewNames
<1>5. /\ newborn.phase = x.phase /\ newborn.rep = x.rep
      /\ newborn.pos = "title" /\ newborn.child = TRUE
      /\ manager.phase = x.phase /\ manager.rep = x.rep
      /\ manager.pos = "done" /\ manager.child = FALSE
  <2>. HIDE DEF first
  <2>. QED
    BY <1>2 DEF Processes
<1>6. /\ DOMAIN proc' = DOMAIN proc \cup new
      /\ \A q \in new : proc'[q] = newborn
      /\ \A q \in DOMAIN proc : proc'[q] = IF q = p THEN manager ELSE proc[q]
  <2>. HIDE DEF new, newborn, manager
  <2>1. DOMAIN proc' = DOMAIN proc \cup new
    BY <1>1
  <2>2. \A q \in new : proc'[q] = newborn
    BY <1>1
  <2>3. \A q \in DOMAIN proc : q \notin new
    BY <1>4
  <2>4. \A q \in DOMAIN proc : proc'[q] = IF q = p THEN manager ELSE proc[q]
    BY <1>1, <2>3
  <2>. QED
    BY <2>1, <2>2, <2>4
<1>. HIDE DEF newborn, manager, new, first
<1>. DEFINE l == Left(bench, manager)
<1>7. l \in Nat /\ Left(bench, newborn) = l /\ Left(bench, x) = l + 1
  BY <1>1, <1>2, <1>3, <1>5 DEF Left, Proper
<1>8. /\ u = Debt(bench, x.phase, l, FALSE) /\ v = Debt(bench, x.phase, l, TRUE)
      /\ Owes(bench, x) = Debt(bench, x.phase, l + 1, x.child)
  BY <1>5, <1>7 DEF Owes
<1>9. Proper(bench, newborn) /\ Proper(bench, manager)
  BY <1>1, <1>2, <1>5 DEF Proper
<1>10. u \in Nat /\ v \in Nat /\ Owes(bench, x) = u + forks * v
  <2>. HIDE DEF l, u, v, x, forks
  <2>1. /\ Debt(bench, x.phase, l, FALSE) \in Nat /\ Debt(bench, x.phase, l, TRUE) \in Nat
        /\ Debt(bench, x.phase, l + 1, x.child)
             = Debt(bench, x.phase, l, FALSE)
                 + bench[x.phase].forks * Debt(bench, x.phase, l, TRUE)
    BY <1>2, <1>7, DebtForks, ZenonT(60)
  <2>. QED
    BY <1>1, <1>8, <2>1
<1>11. DOMAIN o = DOMAIN proc /\ (\A q \in DOMAIN o : o[q] \in Nat) /\ o[p] = u + forks * v
  BY <1>10, DebtsOf, DebtsNumbers
<1>12. /\ DOMAIN n = DOMAIN o \cup new
       /\ \A q \in DOMAIN o : n[q] = IF q = p THEN u ELSE o[q]
       /\ \A q \in new : n[q] = v
  <2>1. DOMAIN n = DOMAIN proc' /\ \A q \in DOMAIN proc' : n[q] = Owes(bench, proc'[q])
    BY <1>1, DebtsOf
  <2>2. \A q \in DOMAIN proc : o[q] = Owes(bench, proc[q])
    BY DebtsOf
  <2>. HIDE DEF o, n
  <2>. QED
    BY <1>6, <1>11, <2>1, <2>2
<1>13. /\ IsFiniteSet(Slots(o))
       /\ Cardinality(Slots(o)) + Cardinality(printed) = Reports /\ Reports' = Reports
  BY <1>1 DEF Owing, Reports
<1>. HIDE DEF o, n, u, v, forks
<1>14. /\ IsFiniteSet(Slots(n))
       /\ Cardinality(Slots(n)) + o[p] = Cardinality(Slots(o)) + u + Cardinality(new) * v
       /\ Cardinality(Slots(o)) \in Nat /\ Cardinality(Slots(n)) \in Nat
  <2>1. new \cap DOMAIN o = {} /\ p \in DOMAIN o /\ IsFiniteSet(new)
    BY <1>4, <1>11
  <2>. QED
    <3>1. Change(o, n, p, new, u, v)
      BY <1>10, <1>11, <1>12, <1>13, <2>1 DEF Change
    <3>. QED
      BY <3>1, SlotsChange
<1>15. Cardinality(Slots(n)) = Cardinality(Slots(o))
  <2>. DEFINE w == forks * v
  <2>1. w \in Nat /\ Cardinality(new) * v = w /\ o[p] = u + w
    BY <1>3, <1>4, <1>10, <1>11 DEF forks
  <2>. HIDE DEF w
  <2>. QED
    BY <1>10, <1>14, <2>1
<1>16. \A q \in DOMAIN proc' : Proper(bench', proc'[q])
  BY <1>1, <1>6, <1>9 DEF Owing
<1>17. \A q \in printed' : q \in DOMAIN proc' /\ proc'[q].phase = 3
  <2>1. ASSUME NEW q \in printed PROVE q \in DOMAIN proc' /\ proc'[q].phase = 3
    <3>1. q \in DOMAIN proc /\ proc[q].phase = 3
      BY DEF Owing
    <3>. QED
      BY <1>5, <1>6, <3>1
  <2>. QED
    BY <1>1, <2>1
<1>18. Named(DOMAIN proc') /\ IsFiniteSet(printed')
  BY <1>1, <1>4, <1>6 DEF Owing
<1>19. Cardinality(Slots(n)) + Cardinality(printed') = Reports'
  BY <1>1, <1>13, <1>15
<1>. QED
  BY <1>14, <1>16, <1>17, <1>18, <1>19 DEF Owing, n

\* Every step keeps what is printed and what is owed together.
LEMMA NextPays ==
  ASSUME IInv, Owing, [Next]_vars
  PROVE  Owing'
<1>0. Typed
  BY DEF IInv
<1>1. CASE UNCHANGED vars
  <2>1. bench' = bench /\ proc' = proc /\ printed' = printed
    BY <1>1 DEF vars
  <2>2. Reports' = Reports
    BY <2>1 DEF Reports
  <2>. QED
    BY <2>1, <2>2 DEF Owing
<1>2. ASSUME NEW p \in DOMAIN proc, Step(p)
      PROVE  Owing'
  <2>1. CASE SetUpSingle(p)
    BY <1>0, <2>1, SetUpSinglePays
  <2>2. CASE StartBarrier(p)
    BY <1>0, <2>2, TogetherPays DEF StartBarrier
  <2>3. CASE EndBarrier(p)
    BY <1>0, <2>3, TogetherPays DEF EndBarrier
  <2>4. CASE RunPlain(p) \/ SetTitle(p) \/ Run(p) \/ Repeat(p) \/ LeavePhase(p)
               \/ ChildExit(p) \/ Report(p)
    <3>1. PICK y : \E prints \in BOOLEAN :
            /\ ByItself(proc[p], y, prints)
            /\ proc' = [proc EXCEPT ![p] = y]
            /\ printed' = IF prints THEN printed \cup {p} ELSE printed
            /\ bench' = bench
            /\ prints /\ Forking(proc[p].phase) => \A q \in LastKids(p) : proc[q].pos \in Ended
      BY <1>0, <2>4, StepByItself
    <3>. QED
      BY <1>0, <3>1, AlonePays
  <2>. QED
    BY <1>2, <2>1, <2>2, <2>3, <2>4 DEF Step
<1>. QED
  BY <1>1, <1>2 DEF Next

\* The reports of main: however many processes init and main fork and however
\* often they repeat, at most Reports processes print one, and exactly that
\* many when all processes have ended and none crashed.
THEOREM ReportsAlwaysPrinted == Spec => []ReportsPrinted
<1>1. Init => IInv /\ Owing
  BY Initially, OwingInitially
<1>2. IInv /\ Owing /\ [Next]_vars => (IInv /\ Owing)'
  BY NextPreserves, NextPays
<1>3. IInv /\ Owing => ReportsPrinted
  <2>. SUFFICES ASSUME IInv, Owing PROVE ReportsPrinted
    OBVIOUS
  <2>. DEFINE o == Debts(bench, proc)
  <2>1. Cardinality(Slots(o)) \in Nat /\ Cardinality(printed) \in Nat
    BY FS_CardinalityType DEF Owing
  <2>2. Cardinality(Slots(o)) + Cardinality(printed) = Reports
    BY DEF Owing
  <2>3. ASSUME Over, Crashed = {} PROVE Slots(o) = {}
    <3>1. ASSUME NEW p \in DOMAIN proc PROVE Owes(bench, proc[p]) = 0
      <4>. DEFINE x == proc[p]
      <4>1. x.pos = "exited"
        BY <2>3 DEF Over, Crashed, At
      <4>2. x \in Processes /\ Proper(bench, x)
        BY DEF IInv, Typed, Owing
      <4>3. x.phase \in {2, 3} /\ (x.phase = 2 => x.child)
        BY <4>1, <4>2 DEF Proper, Processes, Phases, MainPhase
      <4>. HIDE DEF x
      <4>4. Left(bench, x) = 0
        BY <4>1 DEF Left
      <4>5. Owes(bench, x) = 0
        BY <4>3, <4>4 DEF Owes, Debt, MainPhase
      <4>. QED
        BY <4>5 DEF x
    <3>2. \A q \in DOMAIN o : o[q] = 0
      BY <3>1, DebtsOf
    <3>3. \A q : Own(q, 0) = {}
      BY DEF Own
    <3>. HIDE DEF o
    <3>. QED
      BY <3>2, <3>3 DEF Slots
  <2>4. Over /\ Crashed = {} => Cardinality(Slots(o)) = 0
    BY <2>3, FS_EmptySet
  <2>. HIDE DEF o
  <2>. QED
    BY <2>1, <2>2, <2>4 DEF ReportsPrinted
<1>. QED
  BY <1>1, <1>2, <1>3, PTL DEF Spec
=============================================================================
