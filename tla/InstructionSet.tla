---------------------------- MODULE InstructionSet ----------------------------
(***************************************************************************)
(* A tree of instructions run by one thread: the loop of Instruction::Run, *)
(* the iteration of InstructionSet over a list of the shared variables,    *)
(* the mappings MemoryAllocation keeps, and the results CollectResults     *)
(* computes from the samples when the tree has run.                        *)
(*                                                                         *)
(*   prog     the tree: a sequence of nodes, the root first, a node before *)
(*            the instructions it contains                                 *)
(*   stack    the calls in progress, the innermost last                    *)
(*   samples  samples_ of the time sampler of each instruction             *)
(*   gen      numbers drawn from gen_ since it was last seeded             *)
(*   rounds   how often SetUp of each instruction was called               *)
(*   items    what each iterating set stored in its item variable: the     *)
(*            index of the item or, for a random order, the position of    *)
(*            the number drawn in the sequence that starts at the seed     *)
(*   held     the size of allocated_addresses_                             *)
(*   report   the durations of the result of each instruction              *)
(*   slices   the slices begun in the kernel trace and not yet ended, the  *)
(*            innermost last                                               *)
(*   status   "running", "reported", "exited" (a fatal error) or           *)
(*            "undefined" (a write past the end of a vector)               *)
(*                                                                         *)
(* A leaf is an instruction whose RunSingle touches none of this state.    *)
(***************************************************************************)
EXTENDS Integers, Sequences, SequencesExt, FiniteSetsExt

CONSTANTS Programs,    \* the trees that are run
          Durations    \* how long RunSingle of a leaf may take

Kinds == {"leaf", "mem_alloc", "set", "iterate", "not_iterable"}

\* Every node has every field; the last four matter to one kind only.
NodeRecords ==
  [kind : Kinds, repeat : Nat, kids : Seq(Nat), list : Nat,
   order : {"sequential", "random"},
   reseeding : {"once", "each_round_of_cycles", "each_cycle"},
   free_policy : {"keep", "every_period", "last_period"}]

\* An instruction is owned by one vector instructions_, through a unique_ptr: it
\* is at one place of one set, unless it is the root.
IsProgram(p) ==
  /\ p \in Seq(NodeRecords)
  /\ \A n \in DOMAIN p :
       /\ p[n].kind \in {"leaf", "mem_alloc"} => p[n].kids = <<>>
       /\ \A k \in DOMAIN p[n].kids : p[n].kids[k] \in n + 1 .. Len(p)
  /\ \A kid \in 2 .. Len(p) : \E n \in DOMAIN p : \E k \in DOMAIN p[n].kids : p[n].kids[k] = kid
  /\ \A m, n \in DOMAIN p : \A j \in DOMAIN p[m].kids, k \in DOMAIN p[n].kids :
       p[m].kids[j] = p[n].kids[k] => m = n /\ j = k

ASSUME InstructionSetAssumption ==
  /\ \A p \in Programs : Len(p) > 0 /\ IsProgram(p)
  /\ Durations \subseteq Nat /\ Durations # {}

VARIABLES prog, stack, samples, gen, rounds, items, held, report, status, slices

vars == <<prog, stack, samples, gen, rounds, items, held, report, status, slices>>

Nodes == DOMAIN prog

\* A call of Run: its node, the repetition, the stage of the repetition, the
\* time it has taken, the items it has iterated over and the next instruction.
Frame(n) == [node |-> n, i |-> 0, stage |-> "loop", elapsed |-> 0, item |-> 0, next |-> 1]

top == Last(stack)
node == prog[top.node]

\* The stack with its last frame replaced.
Continue(frame) == Append(Front(stack), frame)

\* Mutant of Seeded: the generator is never seeded again.
SeededOnce(n, when) == gen[n]

\* The generator after "if (reseeding_ == when) gen_.seed(seed_)".
Seeded(n, when) == IF prog[n].kind = "iterate" /\ prog[n].reseeding = when THEN 0 ELSE gen[n]

Init ==
  /\ prog \in Programs
  /\ stack = <<Frame(1)>>
  /\ samples = [n \in Nodes |-> <<>>]
  /\ gen = [n \in Nodes |-> 0]
  /\ rounds = [n \in Nodes |-> IF n = 1 THEN 1 ELSE 0]
  /\ items = [n \in Nodes |-> <<>>]
  /\ held = [n \in Nodes |-> 0]
  /\ report = [n \in Nodes |-> <<>>]
  /\ status = "running"
  /\ slices = <<>>

-----------------------------------------------------------------------------
(* Instruction::Run *)

\* Tracer::Start and Tracer::End: an end mark names an instruction, but the
\* kernel's trace closes the innermost slice whatever its name.
TracerStart(n) == slices' = Append(slices, n)

TracerEnd == slices' = Front(slices)

At(stage) == status = "running" /\ stack # <<>> /\ top.stage = stage

\* One iteration of Run's loop starts.
SetUpSingle ==
  /\ At("loop")
  /\ top.i < node.repeat
  /\ gen' = [gen EXCEPT ![top.node] = Seeded(top.node, "each_cycle")]
  /\ stack' = Continue([top EXCEPT !.stage = "run", !.elapsed = 0, !.item = 0])
  /\ TracerStart(top.node)
  /\ UNCHANGED <<prog, samples, rounds, items, held, report, status>>

\* RunSingle of an instruction that contains no other: it takes some time,
\* and mem_alloc maps its memory.
RunSingle(d) ==
  /\ At("run")
  /\ node.kind \in {"leaf", "mem_alloc"}
  /\ stack' = [k \in DOMAIN stack |->
                 [stack[k] EXCEPT !.elapsed = @ + d,
                                  !.stage = IF k = Len(stack) THEN "teardown" ELSE @]]
  /\ held' = [held EXCEPT ![top.node] = IF node.kind = "mem_alloc" THEN @ + 1 ELSE @]
  /\ UNCHANGED <<prog, samples, gen, rounds, items, report, status, slices>>

\* RunSingle of a set that does not iterate.
RunOnce ==
  /\ At("run")
  /\ node.kind = "set"
  /\ stack' = Continue([top EXCEPT !.stage = "instructions", !.next = 1])
  /\ UNCHANGED <<prog, samples, gen, rounds, items, held, report, status, slices>>

\* An iteration over the list: the item is stored, then the instructions run.
NextItem ==
  /\ At("run")
  /\ node.kind = "iterate"
  /\ top.item < node.list
  /\ LET drawn == IF node.order = "random" THEN gen[top.node] + 1 ELSE gen[top.node]
         value == IF node.order = "random" THEN drawn ELSE top.item + 1
     IN  /\ gen' = [gen EXCEPT ![top.node] = drawn]
         /\ items' = [items EXCEPT ![top.node] = Append(@, value)]
  /\ stack' = Continue([top EXCEPT !.stage = "instructions", !.item = @ + 1, !.next = 1])
  /\ UNCHANGED <<prog, samples, rounds, held, report, status, slices>>

EndOfList ==
  /\ At("run")
  /\ node.kind = "iterate"
  /\ top.item = node.list
  /\ stack' = Continue([top EXCEPT !.stage = "teardown"])
  /\ UNCHANGED <<prog, samples, gen, rounds, items, held, report, status, slices>>

\* The list variable does not hold a list: exit(EXIT_FAILURE).
NotIterable ==
  /\ At("run")
  /\ node.kind = "not_iterable"
  /\ status' = "exited"
  /\ UNCHANGED <<prog, stack, samples, gen, rounds, items, held, report, slices>>

\* RunInstructions: SetUp of the next instruction and the call of its Run ...
CallInstruction ==
  /\ At("instructions")
  /\ top.next <= Len(node.kids)
  /\ LET kid == node.kids[top.next]
     IN  /\ gen' = [gen EXCEPT ![kid] = Seeded(kid, "each_round_of_cycles")]
         /\ rounds' = [rounds EXCEPT ![kid] = @ + 1]
         /\ stack' = Append(Continue([top EXCEPT !.next = @ + 1]), Frame(kid))
  /\ UNCHANGED <<prog, samples, items, held, report, status, slices>>

\* ... until all of them have run.
EndInstructions ==
  /\ At("instructions")
  /\ top.next > Len(node.kids)
  /\ stack' = Continue([top EXCEPT !.stage = IF node.kind = "iterate" THEN "run" ELSE "teardown"])
  /\ UNCHANGED <<prog, samples, gen, rounds, items, held, report, status, slices>>

\* Mutant of Freed: the last period is taken to be the one after the last.
FreedLate ==
  \/ node.free_policy = "every_period"
  \/ node.free_policy = "last_period" /\ top.i = node.repeat

\* Whether deallocate_memory is called at the end of the repetition.
Freed ==
  \/ node.free_policy = "every_period"
  \/ node.free_policy = "last_period" /\ top.i = node.repeat - 1

\* Mutant of TearDownSingle: a set overrides it without ending its slice.
TearDownSingleUnended ==
  /\ At("teardown")
  /\ samples' = [samples EXCEPT ![top.node] = Append(@, top.elapsed)]
  /\ IF node.kind = "set" THEN UNCHANGED slices ELSE TracerEnd
  /\ stack' = Continue([top EXCEPT !.stage = "loop", !.i = @ + 1])
  /\ UNCHANGED <<prog, gen, rounds, items, held, report, status>>

\* TearDownSingle records the interval; MemoryAllocation's only frees.
TearDownSingle ==
  /\ At("teardown")
  /\ IF node.kind = "mem_alloc"
       THEN /\ held' = [held EXCEPT ![top.node] = IF Freed THEN 0 ELSE @]
            /\ UNCHANGED <<samples, slices>>
       ELSE /\ samples' = [samples EXCEPT ![top.node] = Append(@, top.elapsed)]
            /\ TracerEnd
            /\ UNCHANGED held
  /\ stack' = Continue([top EXCEPT !.stage = "loop", !.i = @ + 1])
  /\ UNCHANGED <<prog, gen, rounds, items, report, status>>

\* Run and TearDown return to the caller.
Return ==
  /\ At("loop")
  /\ top.i >= node.repeat
  /\ stack' = Front(stack)
  /\ UNCHANGED <<prog, samples, gen, rounds, items, held, report, status, slices>>

-----------------------------------------------------------------------------
(* CollectResults *)

Total(s) == FoldLeft(LAMBDA x, y : x + y, 0, s)

\* Mutant of Grouped: the repetitions of a cycle are not added up.
GroupedFirst(s, repeat) ==
  [i \in 1 .. Len(s) \div repeat |-> s[(i - 1) * repeat + 1]]

\* Mutant of Grouped: rows and columns swapped.
GroupedStrided(s, repeat) ==
  LET n == Len(s) \div repeat
  IN  [i \in 1 .. n |-> Total([j \in 1 .. repeat |-> s[(j - 1) * n + i]])]

\* The samples of an instruction added up over the repetitions of each call.
Grouped(s, repeat) ==
  [i \in 1 .. Len(s) \div repeat |->
     Total(SubSeq(s, (i - 1) * repeat + 1, i * repeat))]

\* "duration[i] += ..." for the durations of one more instruction; the vector
\* is sized by the first one only.
Accumulate(duration, g) ==
  IF duration = <<>> THEN g
  ELSE [i \in DOMAIN duration |-> duration[i] + (IF i \in DOMAIN g THEN g[i] ELSE 0)]

\* Mutant of Overruns: the check is off by one.
OverrunsEarly(duration, g) == duration # <<>> /\ Len(g) >= Len(duration)

\* Whether the loop writes past the end of the vector.
Overruns(duration, g) == duration # <<>> /\ Len(g) > Len(duration)

\* The result of an instruction: whether the durations could be computed and
\* what they are.  AddMeasurement ends the process when there are none.
Measured(durations) ==
  [outcome |-> IF durations = <<>> THEN "exited" ELSE "reported", duration |-> durations]

\* One more instruction of a set: its result added to those before it.
Added(acc, result, repeat) ==
  IF acc.outcome # "reported" THEN acc
  ELSE IF result.outcome # "reported" THEN result
  ELSE LET g == Grouped(result.duration, repeat)
       IN  IF Overruns(acc.duration, g)
             THEN [outcome |-> "undefined", duration |-> <<>>]
             ELSE [acc EXCEPT !.duration = Accumulate(@, g)]

\* CollectResults of a node, from the results R of the nodes below it.
Collected(n, R) ==
  IF prog[n].kind \in {"leaf", "mem_alloc"} THEN Measured(samples[n])
  ELSE LET sum == FoldLeft(LAMBDA acc, kid : Added(acc, R[kid], prog[kid].repeat),
                           [outcome |-> "reported", duration |-> <<>>], prog[n].kids)
       IN  IF sum.outcome = "reported" THEN Measured(sum.duration) ELSE sum

Results ==
  LET R[n \in Nodes] == Collected(n, R)
  IN  R

CollectResults ==
  /\ status = "running"
  /\ stack = <<>>
  /\ status' = Results[1].outcome
  /\ report' = IF status' = "reported" THEN [n \in Nodes |-> Results[n].duration] ELSE report
  /\ UNCHANGED <<prog, stack, samples, gen, rounds, items, held, slices>>

-----------------------------------------------------------------------------
Next ==
  \/ SetUpSingle \/ RunOnce \/ NextItem \/ EndOfList \/ NotIterable
  \/ CallInstruction \/ EndInstructions \/ TearDownSingle \/ Return
  \/ CollectResults
  \/ \E d \in Durations : RunSingle(d)

Spec == Init /\ [][Next]_vars

-----------------------------------------------------------------------------
(* Properties *)

TypeOK ==
  /\ IsProgram(prog)
  /\ \A k \in DOMAIN stack :
       /\ stack[k].node \in Nodes
       /\ stack[k].i \in 0 .. prog[stack[k].node].repeat
       /\ stack[k].stage \in {"loop", "run", "instructions", "teardown"}
       /\ stack[k].item \in 0 .. prog[stack[k].node].list
       /\ stack[k].next \in 1 .. Len(prog[stack[k].node].kids) + 1
  /\ \A n \in Nodes :
       /\ gen[n] \in Nat /\ rounds[n] \in Nat /\ held[n] \in Nat
       /\ \A k \in DOMAIN samples[n] : samples[n][k] \in Nat
       /\ \A k \in DOMAIN report[n] : report[n][k] \in Nat
  /\ status \in {"running", "reported", "exited", "undefined"}

\* The leaves below a node, and whether a list is iterated at or below it.
Leaves ==
  LET L[n \in Nodes] == IF prog[n].kids = <<>> THEN {n}
                        ELSE UNION {L[prog[n].kids[k]] : k \in DOMAIN prog[n].kids}
  IN  L

Iterates ==
  LET I[n \in Nodes] == \/ prog[n].kind = "iterate"
                        \/ \E k \in DOMAIN prog[n].kids : I[prog[n].kids[k]]
  IN  I

\* The durations InstructionSet::CollectResults reports for a set add up to
\* the time measured by all the instructions below it, whatever the
\* repetitions and the lists the set and its contents iterate over.
DurationIsSum ==
  status = "reported" =>
    \A n \in Nodes :
      Total(report[n]) = MapThenSumSet(LAMBDA leaf : Total(samples[leaf]), Leaves[n])

\* Without iteration the durations line up with the cycles of the set: the
\* k-th one is the time the instructions of the set took in its k-th cycle,
\* although each child's samples were recorded in an order of its own.
DurationPerCycle ==
  status = "reported" => \A n \in Nodes : ~Iterates[n] => report[n] = samples[n]

\* How many durations a node contributes for each call of its Run.
Weight ==
  LET W[n \in Nodes] ==
        IF prog[n].kids = <<>> THEN 1
        ELSE (IF prog[n].kind = "iterate" THEN prog[n].list ELSE 1) * W[prog[n].kids[1]]
  IN  W

\* The first instruction of every set contributes the most.
FirstIsHeaviest ==
  \A n \in Nodes : \A k \in DOMAIN prog[n].kids :
    Weight[prog[n].kids[k]] <= Weight[prog[n].kids[1]]

\* CollectResults writes past the end of its duration vector exactly for the
\* trees in which a later instruction of a set contributes more durations
\* than the first one, which alone sizes the vector.
OverrunsExactly ==
  /\ status = "undefined" => ~FirstIsHeaviest
  /\ status = "reported" => FirstIsHeaviest

\* What the reseeding option promises: a generator seeded for each cycle gives
\* every cycle the same items, one seeded for each round gives every call of
\* Run the same items, and one seeded once never goes back to the start.
ItemsRepeatAsSeeded ==
  \A n \in Nodes : prog[n].kind = "iterate" =>
    LET p == prog[n]
        period == IF p.order = "sequential" \/ p.reseeding = "each_cycle" THEN p.list
                  ELSE IF p.reseeding = "each_round_of_cycles" THEN p.list * p.repeat
                  ELSE Len(items[n]) + 1
    IN  \A j \in DOMAIN items[n] : items[n][j] = ((j - 1) % period) + 1

\* The calls of Run of a node in progress, and the repetitions it has completed.
Calls(n) == {k \in DOMAIN stack : stack[k].node = n}

Completed(n) ==
  (rounds[n] - Cardinality(Calls(n))) * prog[n].repeat
    + MapThenSumSet(LAMBDA k : stack[k].i, Calls(n))

\* The mappings that stay locked are the ones the free policy allows: all of
\* them, those of the current call of Run, or that of the current repetition.
MappingsAsFreed ==
  \A n \in Nodes : prog[n].kind = "mem_alloc" =>
    LET ran == MapThenSumSet(LAMBDA k : stack[k].i, Calls(n))
        open == Cardinality({k \in Calls(n) : stack[k].stage = "teardown"})
    IN  held[n] = CASE prog[n].free_policy = "keep" -> Completed(n) + open
                    [] prog[n].free_policy = "every_period" -> open
                    [] prog[n].free_policy = "last_period" ->
                         IF ran = prog[n].repeat THEN 0 ELSE ran + open

\* The open slices of the trace nest like the calls in progress until a
\* mem_alloc completes, whose TearDownSingle ends neither its slice nor its
\* measurement.  From then on every such repetition leaves one slice open for
\* good, under which all later ones are drawn.
SlicesMatch ==
  LET open == {k \in DOMAIN stack : stack[k].stage # "loop"}
      unended == MapThenSumSet(Completed, {n \in Nodes : prog[n].kind = "mem_alloc"})
  IN  /\ Len(slices) = Cardinality(open) + unended
      /\ unended = 0 => slices = [k \in open |-> stack[k].node]

\* What the comment on InstructionSet::CollectResults says can be computed for
\* every tree: it never leaves the vector it adds the durations to.
DurationsFit == status # "undefined"

=============================================================================
