------------------------- MODULE InstructionSetProofs -------------------------
(***************************************************************************)
(* Any tree of instructions: the items of an iterating set repeat as its   *)
(* generator is seeded, a mem_alloc holds the mappings its free policy     *)
(* allows, and the open slices of the trace are those of the calls in      *)
(* progress and of the mem_allocs that have run.  Every instruction is     *)
(* called as often as the sets around it demand, the time of a set is that *)
(* of its instructions, in each of its cycles, and what CollectResults     *)
(* reports is that time, unless it writes past the end of its durations.   *)
(***************************************************************************)
EXTENDS InstructionSet, FiniteSetTheorems, SequenceTheorems, WellFoundedInduction, TLAPS

-----------------------------------------------------------------------------
(* The inductive invariant *)

Frames ==
  [node : Nat, i : Nat, stage : {"loop", "run", "instructions", "teardown"},
   elapsed : Nat, item : Nat, next : Nat \ {0}]

\* The types of what the properties are about.  IsProgram is not part of
\* the state: prog is one of Programs.
Typed ==
  /\ prog \in Programs
  /\ stack \in Seq(Frames)
  /\ gen \in [Nodes -> Nat]
  /\ rounds \in [Nodes -> Nat]
  /\ items \in [Nodes -> Seq(Nat)]
  /\ held \in [Nodes -> Nat]

\* A call in progress is within the bounds of its loop and of its list.  It is
\* inside a repetition unless it is between two, it contains other
\* instructions if it runs them, and it has used up its list at the end of
\* a repetition.
FrameOf(p, f) ==
  /\ f.i \in 0 .. p.repeat
  /\ f.stage # "loop" => f.i < p.repeat
  /\ f.item \in 0 .. p.list
  /\ f.stage = "instructions" => p.kind \in {"set", "iterate"}
  /\ f.stage = "teardown" /\ p.kind = "iterate" => f.item = p.list

FramesFit ==
  \A k \in DOMAIN stack : stack[k].node \in Nodes /\ FrameOf(prog[stack[k].node], stack[k])

\* The calls in progress go down the tree: no instruction is called while a
\* call of it is in progress.
Descending ==
  \A j, k \in DOMAIN stack : j < k => stack[j].node < stack[k].node

\* The items of an iterating set as the reseeding option promises them.
Repeats(p, s) ==
  LET period == IF p.order = "sequential" \/ p.reseeding = "each_cycle" THEN p.list
                ELSE IF p.reseeding = "each_round_of_cycles" THEN p.list * p.repeat
                ELSE Len(s) + 1
  IN  \A j \in DOMAIN s : s[j] = ((j - 1) % period) + 1

\* What is known of an instruction between two calls, from its node p: how
\* many items it has stored after r rounds, where its generator g is, and what
\* it holds.
Idle(p, g, r, s, h) ==
  /\ p.kind = "iterate" =>
       /\ Len(s) = (r * p.repeat) * p.list
       /\ Repeats(p, s)
       /\ p.order = "random" /\ p.reseeding = "once" => g = Len(s)
  /\ p.kind = "mem_alloc" =>
       h = IF p.free_policy = "keep" THEN r * p.repeat ELSE 0

\* The same during a call, in repetition i: the rounds before this one are
\* complete.
Busy(p, i, stage, item, g, r, s, h) ==
  /\ r >= 1
  /\ p.kind = "iterate" =>
       LET taken == IF stage = "loop" THEN 0 ELSE item
       IN  /\ Len(s) = ((r - 1) * p.repeat + i) * p.list + taken
           /\ Repeats(p, s)
           /\ p.order = "random" =>
                /\ p.reseeding = "each_cycle" /\ stage # "loop" => g = item
                /\ p.reseeding = "each_round_of_cycles" => g = i * p.list + taken
                /\ p.reseeding = "once" => g = Len(s)
  /\ p.kind = "mem_alloc" =>
       LET open == IF stage = "teardown" THEN 1 ELSE 0
       IN  h = CASE p.free_policy = "keep" -> (r - 1) * p.repeat + i + open
                 [] p.free_policy = "every_period" -> open
                 [] p.free_policy = "last_period" ->
                      IF i = p.repeat THEN 0 ELSE i + open

IdleKnown ==
  \A n \in Nodes :
    (\A k \in DOMAIN stack : stack[k].node # n) =>
      Idle(prog[n], gen[n], rounds[n], items[n], held[n])

BusyKnown ==
  \A k \in DOMAIN stack :
    LET f == stack[k]
        n == f.node
    IN  Busy(prog[n], f.i, f.stage, f.item, gen[n], rounds[n], items[n], held[n])

IInv == Typed /\ FramesFit /\ Descending /\ IdleKnown /\ BusyKnown

-----------------------------------------------------------------------------
(* Arithmetic *)

\* The remainder of a number written as a multiple and a rest.
LEMMA Remainder ==
  ASSUME NEW q \in Nat, NEW m \in Nat, NEW r \in 0 .. m - 1
  PROVE  (q * m + r) % m = r
OBVIOUS

\* The items taken in a round are fewer than the round has.
LEMMA InsideRound ==
  ASSUME NEW i \in Nat, NEW repeat \in Nat, NEW item \in Nat, NEW list \in Nat,
         i < repeat, item < list
  PROVE  i * list + item < list * repeat
<1>1. PICK d \in Nat : repeat = i + 1 + d
  <2>1. repeat - i - 1 \in Nat /\ repeat = i + 1 + (repeat - i - 1)
    OBVIOUS
  <2> QED
    BY <2>1
<1>2. list * repeat = i * list + list + d * list
  BY <1>1
<1>3. d * list \in Nat /\ i * list \in Nat
  OBVIOUS
<1> QED
  BY <1>2, <1>3

\* One more repetition of a round, and the round as repetitions.
LEMMA OneMore ==
  ASSUME NEW i \in Nat, NEW list \in Nat
  PROVE  (i + 1) * list = i * list + list
OBVIOUS

\* A product of natural numbers is one.
LEMMA Product ==
  ASSUME NEW a \in Nat, NEW b \in Nat
  PROVE  a * b \in Nat
OBVIOUS

\* Whole rounds and further cycles, multiplied out.
LEMMA Distribute ==
  ASSUME NEW a \in Nat, NEW b \in Nat, NEW c \in Nat, NEW d \in Nat
  PROVE  (a * b + c) * d = a * (d * b) + c * d
OBVIOUS

-----------------------------------------------------------------------------
(* What each step makes of one instruction *)

\* One more item keeps the promise if it is the one the period calls for.
LEMMA RepeatsAppend ==
  ASSUME NEW p \in NodeRecords, NEW s \in Seq(Nat), NEW v \in Nat, Repeats(p, s),
         p.order = "sequential" \/ p.reseeding = "each_cycle" =>
           v = (Len(s) % p.list) + 1,
         p.order = "random" /\ p.reseeding = "each_round_of_cycles" =>
           v = (Len(s) % (p.list * p.repeat)) + 1,
         p.order = "random" /\ p.reseeding = "once" => v = Len(s) + 1
  PROVE  Repeats(p, Append(s, v))
<1> DEFINE t == Append(s, v)
<1>1. /\ t \in Seq(Nat) /\ Len(t) = Len(s) + 1 /\ t[Len(s) + 1] = v
      /\ \A j \in 1 .. Len(s) : t[j] = s[j]
      /\ DOMAIN t = 1 .. Len(s) + 1 /\ DOMAIN s = 1 .. Len(s) /\ Len(s) \in Nat
  OBVIOUS
<1> HIDE DEF t
<1>2. p.order \in {"sequential", "random"}
      /\ p.reseeding \in {"once", "each_round_of_cycles", "each_cycle"}
  BY DEF NodeRecords
<1>3. CASE p.order = "sequential" \/ p.reseeding = "each_cycle"
  <2>1. \A j \in 1 .. Len(s) : s[j] = ((j - 1) % p.list) + 1
    BY <1>1, <1>3 DEF Repeats
  <2>2. ASSUME NEW j \in DOMAIN t PROVE t[j] = ((j - 1) % p.list) + 1
    <3>1. CASE j = Len(s) + 1
      <4>1. j - 1 = Len(s)
        BY <1>1, <3>1
      <4> QED
        BY <1>1, <1>3, <3>1, <4>1
    <3>2. CASE j # Len(s) + 1
      BY <1>1, <2>1, <3>2
    <3> QED
      BY <3>1, <3>2
  <2>3. Repeats(p, t)
    BY <1>3, <2>2 DEF Repeats
  <2> QED
    BY <2>3 DEF t
<1>4. CASE p.order = "random" /\ p.reseeding = "each_round_of_cycles"
  <2>1. \A j \in 1 .. Len(s) : s[j] = ((j - 1) % (p.list * p.repeat)) + 1
    BY <1>1, <1>4 DEF Repeats
  <2>2. ASSUME NEW j \in DOMAIN t PROVE t[j] = ((j - 1) % (p.list * p.repeat)) + 1
    <3>1. CASE j = Len(s) + 1
      <4>1. j - 1 = Len(s)
        BY <1>1, <3>1
      <4> QED
        BY <1>1, <1>4, <3>1, <4>1
    <3>2. CASE j # Len(s) + 1
      BY <1>1, <2>1, <3>2, SMTT(40)
    <3> QED
      BY <3>1, <3>2
  <2>3. Repeats(p, t)
    BY <1>4, <2>2 DEF Repeats
  <2> QED
    BY <2>3 DEF t
<1>5. CASE p.order = "random" /\ p.reseeding = "once"
  <2>1. \A j \in Nat, m \in Nat : j < m => j % m = j
    <3> SUFFICES ASSUME NEW j \in Nat, NEW m \in Nat, j < m PROVE j % m = j
      OBVIOUS
    <3>1. j \in 0 .. m - 1 /\ 0 * m + j = j
      OBVIOUS
    <3>2. (0 * m + j) % m = j
      BY <3>1, Remainder
    <3> QED
      BY <3>1, <3>2
  <2>2. \A j \in 1 .. Len(s) : s[j] = ((j - 1) % (Len(s) + 1)) + 1
    BY <1>1, <1>5 DEF Repeats
  <2>3. \A j \in 1 .. Len(s) : s[j] = j
    <3> SUFFICES ASSUME NEW j \in 1 .. Len(s) PROVE s[j] = j
      OBVIOUS
    <3>1. j - 1 \in Nat /\ Len(s) + 1 \in Nat /\ j - 1 < Len(s) + 1
      BY <1>1
    <3> QED
      BY <2>1, <2>2, <3>1
  <2>4. ASSUME NEW j \in DOMAIN t PROVE t[j] = ((j - 1) % (Len(t) + 1)) + 1
    <3>1. j - 1 \in Nat /\ Len(t) + 1 \in Nat /\ j - 1 < Len(t) + 1
      BY <1>1
    <3>2. (j - 1) % (Len(t) + 1) = j - 1
      BY <2>1, <3>1
    <3>3. t[j] = j
      BY <1>1, <1>5, <2>3
    <3> QED
      BY <1>1, <3>2, <3>3
  <2>5. Repeats(p, t)
    BY <1>5, <2>4 DEF Repeats
  <2> QED
    BY <2>5 DEF t
<1> QED
  BY <1>2, <1>3, <1>4, <1>5

\* The generator after "if (reseeding_ == when) gen_.seed(seed_)".
SeededGen(p, g, when) == IF p.kind = "iterate" /\ p.reseeding = when THEN 0 ELSE g

\* A call: SetUp begins a round.
LEMMA CallStep ==
  ASSUME NEW p \in NodeRecords, NEW g, NEW r \in Nat, NEW s \in Seq(Nat), NEW h,
         Idle(p, g, r, s, h)
  PROVE  Busy(p, 0, "loop", 0, SeededGen(p, g, "each_round_of_cycles"), r + 1, s, h)
<1>1. p.repeat \in Nat /\ p.list \in Nat /\ (r + 1) - 1 = r /\ r + 1 >= 1
      /\ p.free_policy \in {"keep", "every_period", "last_period"}
  BY DEF NodeRecords
<1> DEFINE m == r * p.repeat
<1>2. m \in Nat /\ ((r + 1) - 1) * p.repeat = m
  BY <1>1
<1>3. ((r + 1) - 1) * p.repeat + 0 = m /\ m * p.list + 0 = m * p.list /\ 0 * p.list + 0 = 0
  BY <1>1, <1>2
<1> HIDE DEF m
<1> QED
  BY <1>1, <1>2, <1>3 DEF Idle, Busy, SeededGen, m

\* The end of a call, when all the repetitions are done.
LEMMA ReturnStep ==
  ASSUME NEW p \in NodeRecords, NEW g, NEW r \in Nat, NEW s \in Seq(Nat), NEW h,
         NEW item, Busy(p, p.repeat, "loop", item, g, r, s, h)
  PROVE  Idle(p, g, r, s, h)
<1>1. p.repeat \in Nat /\ p.list \in Nat /\ r >= 1
      /\ p.free_policy \in {"keep", "every_period", "last_period"}
  BY DEF NodeRecords, Busy
<1>2. (r - 1) * p.repeat + p.repeat = r * p.repeat
  BY <1>1
<1>3. (r * p.repeat) * p.list + 0 = (r * p.repeat) * p.list /\ r * p.repeat + 0 = r * p.repeat
  BY <1>1
<1> QED
  BY <1>1, <1>2, <1>3 DEF Idle, Busy

\* The start of a repetition.
LEMMA SetUpSingleStep ==
  ASSUME NEW p \in NodeRecords, NEW g, NEW r \in Nat, NEW s \in Seq(Nat), NEW h,
         NEW i \in Nat, NEW item, Busy(p, i, "loop", item, g, r, s, h)
  PROVE  Busy(p, i, "run", 0, SeededGen(p, g, "each_cycle"), r, s, h)
BY DEF Busy, SeededGen

\* The stages inside a repetition of a set.
LEMMA InsideStep ==
  ASSUME NEW p, NEW g, NEW r, NEW s, NEW h, NEW i, NEW item, NEW stage, NEW to,
         stage # "loop", to # "loop", p.kind # "mem_alloc",
         Busy(p, i, stage, item, g, r, s, h)
  PROVE  Busy(p, i, to, item, g, r, s, h)
BY DEF Busy

\* RunSingle of an instruction that contains no other.
LEMMA RunSingleStep ==
  ASSUME NEW p \in NodeRecords, NEW g, NEW r \in Nat, NEW s, NEW h \in Nat,
         NEW i \in Nat, i < p.repeat, NEW item, p.kind \in {"leaf", "mem_alloc"},
         Busy(p, i, "run", item, g, r, s, h)
  PROVE  Busy(p, i, "teardown", item, g, r, s, IF p.kind = "mem_alloc" THEN h + 1 ELSE h)
<1>1. p.repeat \in Nat /\ p.free_policy \in {"keep", "every_period", "last_period"} /\ r >= 1
  BY DEF NodeRecords, Busy
<1> DEFINE m == (r - 1) * p.repeat
<1>2. m \in Nat
  BY <1>1
<1> HIDE DEF m
<1> QED
  BY <1>1, <1>2 DEF Busy, m

\* The end of a repetition.
LEMMA TearDownSingleStep ==
  ASSUME NEW p \in NodeRecords, NEW g, NEW r \in Nat, NEW s \in Seq(Nat), NEW h \in Nat,
         NEW i \in Nat, i < p.repeat, NEW item, p.kind = "iterate" => item = p.list,
         Busy(p, i, "teardown", item, g, r, s, h),
         NEW left,
         left = IF \/ p.free_policy = "every_period"
                   \/ p.free_policy = "last_period" /\ i = p.repeat - 1
                  THEN 0 ELSE h
  PROVE  Busy(p, i + 1, "loop", item, g, r, s, IF p.kind = "mem_alloc" THEN left ELSE h)
<1>1. p.repeat \in Nat /\ p.list \in Nat /\ r >= 1
      /\ p.free_policy \in {"keep", "every_period", "last_period"}
  BY DEF NodeRecords, Busy
<1> DEFINE m == (r - 1) * p.repeat
<1>2. m \in Nat
  BY <1>1, SMTT(40)
<1>3. (m + i) * p.list + p.list = (m + (i + 1)) * p.list + 0
  <2> HIDE DEF m
  <2> QED
    BY <1>1, <1>2
<1>4. i * p.list + p.list = (i + 1) * p.list + 0
  <2>1. (i + 1) * p.list = i * p.list + p.list /\ (i + 1) * p.list \in Nat
    BY <1>1, OneMore
  <2> QED
    BY <2>1
<1> HIDE DEF m
<1>5. ASSUME p.kind = "iterate"
      PROVE  Busy(p, i + 1, "loop", item, g, r, s, h)
  BY <1>1, <1>2, <1>3, <1>4, <1>5 DEF Busy, m
<1>6. ASSUME p.kind = "mem_alloc"
      PROVE  Busy(p, i + 1, "loop", item, g, r, s, left)
  <2>1. CASE p.free_policy = "keep"
    BY <1>1, <1>2, <1>6, <2>1 DEF Busy, m
  <2>2. CASE p.free_policy = "every_period"
    BY <1>1, <1>6, <2>2 DEF Busy
  <2>3. CASE p.free_policy = "last_period"
    BY <1>1, <1>6, <2>3 DEF Busy
  <2> QED
    BY <1>1, <2>1, <2>2, <2>3
<1> QED
  BY <1>1, <1>5, <1>6 DEF Busy

\* An iteration over the list: the item that is stored is the one the period
\* calls for.
LEMMA NextItemStep ==
  ASSUME NEW p \in NodeRecords, NEW g \in Nat, NEW r \in Nat, NEW s \in Seq(Nat), NEW h,
         NEW i \in Nat, i < p.repeat, NEW item \in Nat, item < p.list,
         p.kind = "iterate", Busy(p, i, "run", item, g, r, s, h),
         NEW drawn, drawn = IF p.order = "random" THEN g + 1 ELSE g,
         NEW value, value = IF p.order = "random" THEN drawn ELSE item + 1
  PROVE  Busy(p, i, "instructions", item + 1, drawn, r, Append(s, value), h)
<1> DEFINE t == Append(s, value)
           L == p.list
           R == p.repeat
           c == (r - 1) * R + i
<1>1. L \in Nat /\ R \in Nat /\ r >= 1
      /\ p.order \in {"sequential", "random"}
      /\ p.reseeding \in {"once", "each_round_of_cycles", "each_cycle"}
  BY DEF NodeRecords, Busy
<1>2. value \in Nat /\ drawn \in Nat
  OBVIOUS
<1>3. t \in Seq(Nat) /\ Len(t) = Len(s) + 1 /\ Len(s) \in Nat
  BY <1>2
<1>4. r - 1 \in Nat /\ (r - 1) * R \in Nat /\ c \in Nat
  <2>1. r - 1 \in Nat
    BY <1>1
  <2>2. (r - 1) * R \in Nat
    BY <1>1, <2>1, Product
  <2> QED
    BY <2>1, <2>2
<1>5. Len(s) = c * L + item
  BY DEF Busy
<1>6. c * L \in Nat
  BY <1>1, <1>4
<1>7. Repeats(p, s)
  BY DEF Busy
<1>8. p.order = "sequential" \/ p.reseeding = "each_cycle" => value = item + 1
  BY <1>1 DEF Busy
<1>9. Len(s) % L = item
  <2>1. item \in 0 .. L - 1
    BY <1>1
  <2> HIDE DEF c, L
  <2>2. (c * L + item) % L = item
    BY <1>1, <1>4, <2>1, Remainder
  <2> QED
    BY <1>5, <2>2
<1>10. p.order = "random" /\ p.reseeding = "each_round_of_cycles" =>
         value = (Len(s) % (L * R)) + 1
  <2> SUFFICES ASSUME p.order = "random" /\ p.reseeding = "each_round_of_cycles"
               PROVE  value = (Len(s) % (L * R)) + 1
    OBVIOUS
  <2>1. g = i * L + item /\ value = g + 1
    BY DEF Busy
  <2>2. g < L * R
    BY <1>1, <2>1, InsideRound
  <2>3. L * R \in Nat /\ g \in 0 .. L * R - 1 /\ r - 1 \in Nat
    BY <1>1, <2>2
  <2>4. Len(s) = (r - 1) * (L * R) + g
    <3>1. c * L = (r - 1) * (L * R) + i * L
      <4> HIDE DEF L, R
      <4>1. ((r - 1) * R + i) * L = (r - 1) * (L * R) + i * L
        BY <1>1, <1>4, Distribute
      <4> QED
        BY <4>1
    <3>2. i * L \in Nat /\ (r - 1) * (L * R) \in Nat
      <4> HIDE DEF L, R
      <4>1. i * L \in Nat
        BY <1>1, Product
      <4>2. (r - 1) * (L * R) \in Nat
        BY <2>3, Product
      <4> QED
        BY <4>1, <4>2
    <3> HIDE DEF c, L, R
    <3> QED
      BY <1>5, <2>1, <3>1, <3>2
  <2>5. Len(s) % (L * R) = g
    <3> HIDE DEF L, R
    <3> QED
      BY <2>3, <2>4, Remainder
  <2> QED
    BY <2>1, <2>5
<1>11. p.order = "random" /\ p.reseeding = "once" => value = Len(s) + 1
  BY DEF Busy
<1>12. Repeats(p, t)
  BY <1>2, <1>7, <1>8, <1>9, <1>10, <1>11, RepeatsAppend
<1>13. Len(t) = c * L + (item + 1)
  BY <1>3, <1>5, <1>6
<1>14. p.order = "random" /\ p.reseeding = "each_cycle" => drawn = item + 1
  BY DEF Busy
<1>15. p.order = "random" /\ p.reseeding = "each_round_of_cycles" =>
         drawn = i * L + (item + 1)
  <2>1. i * L \in Nat
    BY <1>1
  <2> QED
    BY <2>1 DEF Busy
<1>16. p.order = "random" /\ p.reseeding = "once" => drawn = Len(t)
  BY <1>3 DEF Busy
<1> HIDE DEF t
<1>17. Busy(p, i, "instructions", item + 1, drawn, r, t, h)
  BY <1>1, <1>12, <1>13, <1>14, <1>15, <1>16 DEF Busy
<1> QED
  BY <1>17 DEF t

-----------------------------------------------------------------------------
(* The stack *)

\* The nodes of a tree, and the instructions of a set, are where they should be.
LEMMA ProgramNodes ==
  ASSUME Typed
  PROVE  /\ prog \in Seq(NodeRecords) /\ Len(prog) \in Nat \ {0} /\ Nodes = 1 .. Len(prog)
         /\ \A n \in Nodes : prog[n] \in NodeRecords
         /\ \A n \in Nodes : \A k \in DOMAIN prog[n].kids :
              prog[n].kids[k] \in Nodes /\ prog[n].kids[k] > n
<1>1. IsProgram(prog) /\ Len(prog) > 0
  BY InstructionSetAssumption DEF Typed
<1>2. prog \in Seq(NodeRecords) /\ Len(prog) \in Nat \ {0} /\ Nodes = 1 .. Len(prog)
  BY <1>1 DEF IsProgram, Nodes
<1>3. \A n \in Nodes : prog[n] \in NodeRecords
  BY <1>2
<1>4. ASSUME NEW n \in Nodes, NEW k \in DOMAIN prog[n].kids
      PROVE  prog[n].kids[k] \in Nodes /\ prog[n].kids[k] > n
  <2>1. prog[n].kids[k] \in n + 1 .. Len(prog)
    BY <1>1 DEF IsProgram, Nodes
  <2> QED
    BY <1>2, <2>1
<1> QED
  BY <1>2, <1>3, <1>4

\* The innermost call is the last frame.
LEMMA StackTop ==
  ASSUME Typed, FramesFit, stack # <<>>
  PROVE  /\ Len(stack) \in Nat \ {0} /\ DOMAIN stack = 1 .. Len(stack)
         /\ top = stack[Len(stack)] /\ top \in Frames /\ top.node \in Nodes
         /\ node \in NodeRecords /\ FrameOf(node, top)
<1>1. Len(stack) \in Nat \ {0} /\ DOMAIN stack = 1 .. Len(stack)
  BY DEF Typed
<1>2. top = stack[Len(stack)] /\ Len(stack) \in DOMAIN stack
  BY <1>1 DEF top, Last
<1>3. top \in Frames
  BY <1>1, <1>2 DEF Typed
<1>4. top.node \in Nodes /\ FrameOf(node, top)
  BY <1>2 DEF FramesFit, node
<1> QED
  BY <1>1, <1>2, <1>3, <1>4, ProgramNodes DEF node

\* The stack without its last frame.
LEMMA Popped ==
  ASSUME Typed, stack # <<>>
  PROVE  /\ Front(stack) \in Seq(Frames) /\ Len(Front(stack)) = Len(stack) - 1
         /\ \A k \in 1 .. Len(stack) - 1 : Front(stack)[k] = stack[k]
<1> DEFINE l == Len(stack) - 1
<1>1. l \in Nat /\ 1 \in Int /\ l \in Int /\ l - 1 + 1 = l
  BY DEF Typed
<1>2. \A k \in 1 .. l : stack[k] \in Frames
  BY DEF Typed
<1> HIDE DEF l
<1>3. /\ SubSeq(stack, 1, l) \in Seq(Frames)
      /\ Len(SubSeq(stack, 1, l)) = IF 1 <= l THEN l - 1 + 1 ELSE 0
      /\ \A k \in 1 .. l - 1 + 1 : SubSeq(stack, 1, l)[k] = stack[1 + k - 1]
  BY <1>1, <1>2, SubSeqProperties
<1>4. Len(SubSeq(stack, 1, l)) = l /\ \A k \in 1 .. l : 1 + k - 1 = k
  BY <1>1, <1>3
<1>5. \A k \in 1 .. l : SubSeq(stack, 1, l)[k] = stack[k]
  BY <1>1, <1>3, <1>4
<1> QED
  BY <1>3, <1>4, <1>5 DEF l, Front

\* The stack with its last frame replaced.
LEMMA Replaced ==
  ASSUME Typed, stack # <<>>, NEW f \in Frames
  PROVE  /\ Continue(f) \in Seq(Frames) /\ Len(Continue(f)) = Len(stack)
         /\ Continue(f)[Len(stack)] = f
         /\ \A k \in 1 .. Len(stack) - 1 : Continue(f)[k] = stack[k]
<1>1. Len(stack) \in Nat \ {0}
  BY DEF Typed
<1> QED
  BY <1>1, Popped DEF Continue

\* A step of the innermost call keeps the invariant if it keeps what is known
\* of its instruction: the other calls are of other instructions.
LEMMA TopStep ==
  ASSUME IInv, stack # <<>>, prog' = prog, rounds' = rounds,
         NEW g \in Nat, NEW s \in Seq(Nat), NEW h \in Nat,
         gen' = [gen EXCEPT ![top.node] = g],
         items' = [items EXCEPT ![top.node] = s],
         held' = [held EXCEPT ![top.node] = h],
         stack' \in Seq(Frames), Len(stack') = Len(stack),
         \A k \in 1 .. Len(stack) - 1 :
           /\ stack'[k].node = stack[k].node /\ stack'[k].i = stack[k].i
           /\ stack'[k].stage = stack[k].stage /\ stack'[k].item = stack[k].item,
         NEW f \in Frames, stack'[Len(stack)] = f, f.node = top.node, FrameOf(node, f),
         Busy(node, f.i, f.stage, f.item, g, rounds[top.node], s, h)
  PROVE  IInv'
<1> DEFINE l == Len(stack)
           m == top.node
<1>1. /\ Typed /\ FramesFit /\ Descending /\ IdleKnown /\ BusyKnown
  BY DEF IInv
<1>2. /\ l \in Nat \ {0} /\ DOMAIN stack = 1 .. l /\ stack[l].node = m /\ m \in Nodes
  BY <1>1, StackTop
<1>3. DOMAIN stack' = 1 .. l /\ DOMAIN prog' = Nodes
  BY DEF Nodes
<1>4. Typed'
  BY <1>1, <1>2 DEF Typed, Nodes
<1>5. \A k \in 1 .. l : stack'[k].node = stack[k].node
  BY <1>2
<1>6. \A k \in 1 .. l : k # l => stack[k].node # m /\ stack[k].node \in Nodes
  <2> SUFFICES ASSUME NEW k \in 1 .. l, k # l PROVE stack[k].node # m /\ stack[k].node \in Nodes
    OBVIOUS
  <2>1. stack[k].node < stack[l].node /\ stack[k].node \in Nodes
    <3>1. k \in DOMAIN stack /\ l \in DOMAIN stack /\ k < l
      BY <1>2
    <3> QED
      BY <1>1, <3>1 DEF Descending, FramesFit
  <2>2. stack[k].node \in Nat /\ m \in Nat
    BY <1>1, <1>2, ProgramNodes, <2>1
  <2> QED
    BY <1>2, <2>1, <2>2
<1>7. \A n \in Nodes : n # m => gen'[n] = gen[n] /\ items'[n] = items[n] /\ held'[n] = held[n]
  BY <1>1 DEF Typed
<1>8. gen'[m] = g /\ items'[m] = s /\ held'[m] = h
  BY <1>1, <1>2 DEF Typed
<1>9. FramesFit'
  <2> SUFFICES ASSUME NEW k \in 1 .. l
               PROVE  stack'[k].node \in Nodes /\ FrameOf(prog[stack'[k].node], stack'[k])
    BY <1>3 DEF FramesFit, Nodes
  <2>1. CASE k = l
    BY <1>2, <2>1 DEF node
  <2>2. CASE k # l
    <3>1. stack[k].node \in Nodes /\ FrameOf(prog[stack[k].node], stack[k])
      BY <1>1, <1>2 DEF FramesFit
    <3>2. /\ stack'[k].node = stack[k].node /\ stack'[k].i = stack[k].i
          /\ stack'[k].stage = stack[k].stage /\ stack'[k].item = stack[k].item
      BY <1>2, <2>2
    <3> QED
      BY <3>1, <3>2 DEF FrameOf
  <2> QED
    BY <2>1, <2>2
<1>10. Descending'
  BY <1>1, <1>2, <1>3, <1>5 DEF Descending
<1>11. IdleKnown'
  <2> SUFFICES ASSUME NEW n \in Nodes, \A k \in 1 .. l : stack'[k].node # n
               PROVE  Idle(prog[n], gen'[n], rounds[n], items'[n], held'[n])
    BY <1>3 DEF IdleKnown, Nodes
  <2>1. \A k \in DOMAIN stack : stack[k].node # n
    BY <1>2, <1>5
  <2>2. n # m
    BY <1>2, <2>1
  <2> QED
    BY <1>1, <1>7, <2>1, <2>2 DEF IdleKnown
<1>12. BusyKnown'
  <2> SUFFICES ASSUME NEW k \in 1 .. l
               PROVE  LET e == stack'[k]
                          n == e.node
                      IN  Busy(prog[n], e.i, e.stage, e.item, gen'[n], rounds[n], items'[n], held'[n])
    BY <1>3 DEF BusyKnown
  <2>1. CASE k = l
    BY <1>2, <1>8, <2>1 DEF node
  <2>2. CASE k # l
    <3>1. LET e == stack[k]
              n == e.node
          IN  Busy(prog[n], e.i, e.stage, e.item, gen[n], rounds[n], items[n], held[n])
      BY <1>1, <1>2 DEF BusyKnown
    <3>2. /\ stack'[k].node = stack[k].node /\ stack'[k].i = stack[k].i
          /\ stack'[k].stage = stack[k].stage /\ stack'[k].item = stack[k].item
      BY <1>2, <2>2
    <3> QED
      BY <1>6, <1>7, <2>2, <3>1, <3>2
  <2> QED
    BY <2>1, <2>2
<1> QED
  BY <1>4, <1>9, <1>10, <1>11, <1>12 DEF IInv

-----------------------------------------------------------------------------
(* The steps *)

\* What the invariant knows of the innermost call.
LEMMA TopKnown ==
  ASSUME IInv, stack # <<>>
  PROVE  /\ top.node \in Nodes /\ node \in NodeRecords /\ top \in Frames
         /\ FrameOf(node, top)
         /\ gen[top.node] \in Nat /\ rounds[top.node] \in Nat
         /\ items[top.node] \in Seq(Nat) /\ held[top.node] \in Nat
         /\ Busy(node, top.i, top.stage, top.item, gen[top.node], rounds[top.node],
                 items[top.node], held[top.node])
<1>1. Typed /\ FramesFit /\ BusyKnown
  BY DEF IInv
<1>2. /\ Len(stack) \in DOMAIN stack /\ top = stack[Len(stack)] /\ top \in Frames
      /\ top.node \in Nodes /\ node \in NodeRecords /\ FrameOf(node, top)
  BY <1>1, StackTop
<1>3. /\ gen[top.node] \in Nat /\ rounds[top.node] \in Nat
      /\ items[top.node] \in Seq(Nat) /\ held[top.node] \in Nat
  BY <1>1, <1>2 DEF Typed
<1>4. Busy(node, top.i, top.stage, top.item, gen[top.node], rounds[top.node],
           items[top.node], held[top.node])
  BY <1>1, <1>2 DEF BusyKnown, node
<1> QED
  BY <1>2, <1>3, <1>4

\* A step that replaces the frame of the innermost call.
LEMMA ContinueStep ==
  ASSUME IInv, stack # <<>>, prog' = prog, rounds' = rounds,
         NEW g \in Nat, NEW s \in Seq(Nat), NEW h \in Nat,
         gen' = [gen EXCEPT ![top.node] = g],
         items' = [items EXCEPT ![top.node] = s],
         held' = [held EXCEPT ![top.node] = h],
         NEW f \in Frames, stack' = Continue(f), f.node = top.node, FrameOf(node, f),
         Busy(node, f.i, f.stage, f.item, g, rounds[top.node], s, h)
  PROVE  IInv'
<1>1. Typed
  BY DEF IInv
<1>2. /\ stack' \in Seq(Frames) /\ Len(stack') = Len(stack) /\ stack'[Len(stack)] = f
      /\ \A k \in 1 .. Len(stack) - 1 : stack'[k] = stack[k]
  BY <1>1, Replaced
<1>3. \A k \in 1 .. Len(stack) - 1 :
        /\ stack'[k].node = stack[k].node /\ stack'[k].i = stack[k].i
        /\ stack'[k].stage = stack[k].stage /\ stack'[k].item = stack[k].item
  BY <1>2
<1> QED
  BY <1>2, <1>3, TopStep

\* SetUpSingle seeds the generator of one instruction.
LEMMA SetUpSingleKeeps == IInv /\ SetUpSingle => IInv'
<1> SUFFICES ASSUME IInv, SetUpSingle PROVE IInv'
  OBVIOUS
<1> DEFINE n == top.node
           f == [top EXCEPT !.stage = "run", !.elapsed = 0, !.item = 0]
           g == SeededGen(node, gen[n], "each_cycle")
<1>1. stack # <<>> /\ top.stage = "loop" /\ top.i < node.repeat
  BY DEF SetUpSingle, At
<1>2. /\ n \in Nodes /\ node \in NodeRecords /\ top \in Frames /\ FrameOf(node, top)
      /\ gen[n] \in Nat /\ rounds[n] \in Nat /\ items[n] \in Seq(Nat) /\ held[n] \in Nat
      /\ Busy(node, top.i, top.stage, top.item, gen[n], rounds[n], items[n], held[n])
  BY <1>1, TopKnown
<1>3. /\ f \in Frames /\ f.node = n /\ f.i = top.i /\ f.stage = "run" /\ f.item = 0
      /\ top.i \in Nat
  BY <1>2 DEF Frames
<1>4. g \in Nat
  BY <1>2 DEF SeededGen
<1>5. /\ prog' = prog /\ rounds' = rounds /\ stack' = Continue(f)
      /\ gen' = [gen EXCEPT ![n] = g] /\ items' = items /\ held' = held
  BY DEF SetUpSingle, Seeded, SeededGen, node
<1>6. items' = [items EXCEPT ![n] = items[n]] /\ held' = [held EXCEPT ![n] = held[n]]
  BY <1>2, <1>5 DEF IInv, Typed
<1> HIDE DEF f, g
<1>7. FrameOf(node, f)
  BY <1>1, <1>2, <1>3 DEF FrameOf, NodeRecords
<1>8. Busy(node, f.i, f.stage, f.item, g, rounds[n], items[n], held[n])
  BY <1>1, <1>2, <1>3, SetUpSingleStep DEF g
<1> QED
  BY <1>1, <1>2, <1>3, <1>4, <1>5, <1>6, <1>7, <1>8, ContinueStep

\* The steps inside a repetition of a set, which store nothing.
LEMMA InsideKeeps ==
  IInv /\ (RunOnce \/ EndOfList \/ EndInstructions) => IInv'
<1> SUFFICES ASSUME IInv, RunOnce \/ EndOfList \/ EndInstructions PROVE IInv'
  OBVIOUS
<1> DEFINE n == top.node
           to == IF RunOnce THEN "instructions"
                 ELSE IF EndOfList THEN "teardown"
                 ELSE IF node.kind = "iterate" THEN "run" ELSE "teardown"
           next == IF RunOnce THEN 1 ELSE top.next
           f == [top EXCEPT !.stage = to, !.next = next]
<1>1. stack # <<>> /\ top.stage \in {"run", "instructions"}
  BY DEF RunOnce, EndOfList, EndInstructions, At
<1>2. /\ n \in Nodes /\ node \in NodeRecords /\ top \in Frames /\ FrameOf(node, top)
      /\ gen[n] \in Nat /\ rounds[n] \in Nat /\ items[n] \in Seq(Nat) /\ held[n] \in Nat
      /\ Busy(node, top.i, top.stage, top.item, gen[n], rounds[n], items[n], held[n])
  BY <1>1, TopKnown
<1>3. node.kind \in {"set", "iterate"}
  <2>1. RunOnce \/ EndOfList => node.kind \in {"set", "iterate"}
    BY DEF RunOnce, EndOfList
  <2>2. EndInstructions => top.stage = "instructions"
    BY DEF EndInstructions, At
  <2> QED
    BY <1>2, <2>1, <2>2 DEF FrameOf
<1>4. to \in {"run", "instructions", "teardown"} /\ next \in Nat \ {0}
  BY <1>2 DEF Frames
<1>5. to = "teardown" /\ node.kind = "iterate" => top.item = node.list
  BY DEF RunOnce, EndOfList
<1>6. stack' = Continue(f)
  <2>1. CASE RunOnce
    BY <2>1 DEF RunOnce
  <2>2. CASE EndOfList
    <3>1. ~RunOnce
      BY <2>2 DEF EndOfList, RunOnce
    <3>2. to = "teardown" /\ next = top.next
      BY <2>2, <3>1
    <3>3. f = [top EXCEPT !.stage = "teardown"]
      <4> HIDE DEF to, next
      <4> QED
        BY <1>2, <3>2 DEF Frames
    <3> QED
      BY <2>2, <3>3 DEF EndOfList
  <2>3. CASE EndInstructions
    <3>1. ~RunOnce /\ ~EndOfList
      BY <2>3 DEF EndOfList, RunOnce, EndInstructions, At
    <3>2. to = (IF node.kind = "iterate" THEN "run" ELSE "teardown") /\ next = top.next
      BY <3>1
    <3>3. f = [top EXCEPT !.stage = IF node.kind = "iterate" THEN "run" ELSE "teardown"]
      <4> HIDE DEF to, next
      <4> QED
        BY <1>2, <3>2 DEF Frames
    <3> QED
      BY <2>3, <3>3 DEF EndInstructions
  <2> QED
    BY <2>1, <2>2, <2>3
<1>7. /\ prog' = prog /\ rounds' = rounds /\ gen' = gen /\ items' = items /\ held' = held
  BY DEF RunOnce, EndOfList, EndInstructions
<1>8. /\ gen' = [gen EXCEPT ![n] = gen[n]] /\ items' = [items EXCEPT ![n] = items[n]]
      /\ held' = [held EXCEPT ![n] = held[n]]
  BY <1>2, <1>7 DEF IInv, Typed
<1> HIDE DEF to, next
<1>9. f \in Frames /\ f.node = n /\ f.i = top.i /\ f.stage = to /\ f.item = top.item
  BY <1>2, <1>4 DEF Frames
<1> HIDE DEF f
<1>10. FrameOf(node, f)
  BY <1>1, <1>2, <1>3, <1>4, <1>5, <1>9 DEF FrameOf
<1>11. Busy(node, f.i, f.stage, f.item, gen[n], rounds[n], items[n], held[n])
  BY <1>1, <1>2, <1>3, <1>4, <1>9, InsideStep
<1> QED
  BY <1>1, <1>2, <1>6, <1>7, <1>8, <1>9, <1>10, <1>11, ContinueStep

\* An iteration draws and stores one item.
LEMMA NextItemKeeps == IInv /\ NextItem => IInv'
<1> SUFFICES ASSUME IInv, NextItem PROVE IInv'
  OBVIOUS
<1> DEFINE n == top.node
           up == top.item + 1
           f == [top EXCEPT !.stage = "instructions", !.item = up, !.next = 1]
           drawn == IF node.order = "random" THEN gen[n] + 1 ELSE gen[n]
           value == IF node.order = "random" THEN drawn ELSE top.item + 1
           s == Append(items[n], value)
<1>1. stack # <<>> /\ top.stage = "run" /\ node.kind = "iterate" /\ top.item < node.list
  BY DEF NextItem, At
<1>2. /\ n \in Nodes /\ node \in NodeRecords /\ top \in Frames /\ FrameOf(node, top)
      /\ gen[n] \in Nat /\ rounds[n] \in Nat /\ items[n] \in Seq(Nat) /\ held[n] \in Nat
      /\ Busy(node, top.i, top.stage, top.item, gen[n], rounds[n], items[n], held[n])
  BY <1>1, TopKnown
<1>3. /\ f \in Frames /\ f.node = n /\ f.i = top.i /\ f.stage = "instructions"
      /\ f.item = top.item + 1 /\ top.i \in Nat /\ top.item \in Nat
  <2>1. top.i \in Nat /\ top.item \in Nat /\ up \in Nat
    BY <1>2 DEF Frames
  <2> HIDE DEF up
  <2>2. 1 \in Nat \ {0}
    OBVIOUS
  <2>3. f \in Frames
    BY <1>2, <2>1, <2>2 DEF Frames
  <2>4. f.node = n /\ f.i = top.i /\ f.stage = "instructions" /\ f.item = up
    BY <1>2, <2>1 DEF Frames
  <2> QED
    BY <2>1, <2>3, <2>4 DEF up
<1>4. drawn \in Nat /\ value \in Nat
  BY <1>2, <1>3
<1>5. /\ prog' = prog /\ rounds' = rounds /\ held' = held /\ stack' = Continue(f)
      /\ gen' = [gen EXCEPT ![n] = drawn]
  BY DEF NextItem
<1>6. items' = [items EXCEPT ![n] = s]
  BY <1>2 DEF NextItem, IInv, Typed
<1>7. held' = [held EXCEPT ![n] = held[n]]
  BY <1>2, <1>5 DEF IInv, Typed
<1>8. s \in Seq(Nat)
  BY <1>2, <1>4
<1>9. top.i < node.repeat
  BY <1>1, <1>2 DEF FrameOf
<1>10. Busy(node, top.i, "instructions", top.item + 1, drawn, rounds[n], s, held[n])
  <2> HIDE DEF drawn, n
  <2> DEFINE v == value
  <2>1. drawn = (IF node.order = "random" THEN gen[n] + 1 ELSE gen[n])
    BY DEF drawn, n
  <2>2. v = IF node.order = "random" THEN drawn ELSE top.item + 1
    OBVIOUS
  <2> HIDE DEF v
  <2>3. Busy(node, top.i, "run", top.item, gen[n], rounds[n], items[n], held[n])
    BY <1>1, <1>2
  <2>4. Busy(node, top.i, "instructions", top.item + 1, drawn, rounds[n],
             Append(items[n], v), held[n])
    <3> DEFINE p == node
               i == top.i
               e == top.item
               a == gen[n]
               b == rounds[n]
               c == items[n]
               d == held[n]
    <3>1. /\ p \in NodeRecords /\ a \in Nat /\ b \in Nat /\ c \in Seq(Nat) /\ i \in Nat
          /\ i < p.repeat /\ e \in Nat /\ e < p.list /\ p.kind = "iterate"
          /\ Busy(p, i, "run", e, a, b, c, d)
          /\ drawn = (IF p.order = "random" THEN a + 1 ELSE a)
          /\ v = IF p.order = "random" THEN drawn ELSE e + 1
      BY <1>1, <1>2, <1>3, <1>9, <2>1, <2>2, <2>3
    <3> HIDE DEF p, i, e, a, b, c, d
    <3>2. Busy(p, i, "instructions", e + 1, drawn, b, Append(c, v), d)
      BY <3>1, NextItemStep, Zenon
    <3> QED
      BY <3>2 DEF p, i, e, a, b, c, d
  <2> QED
    BY <2>4 DEF v
<1> HIDE DEF f, drawn, s
<1>11. FrameOf(node, f)
  BY <1>1, <1>2, <1>3 DEF FrameOf, NodeRecords
<1>12. Busy(node, f.i, f.stage, f.item, drawn, rounds[n], s, held[n])
  BY <1>3, <1>10
<1> QED
  BY <1>1, <1>2, <1>3, <1>4, <1>5, <1>6, <1>7, <1>8, <1>11, <1>12, ContinueStep

\* TearDownSingle ends a repetition and frees as the policy says.
LEMMA TearDownSingleKeeps == IInv /\ TearDownSingle => IInv'
<1> SUFFICES ASSUME IInv, TearDownSingle PROVE IInv'
  OBVIOUS
<1> DEFINE n == top.node
           up == top.i + 1
           f == [top EXCEPT !.stage = "loop", !.i = up]
           left == IF \/ node.free_policy = "every_period"
                      \/ node.free_policy = "last_period" /\ top.i = node.repeat - 1
                     THEN 0 ELSE held[n]
           h == IF node.kind = "mem_alloc" THEN left ELSE held[n]
<1>1. stack # <<>> /\ top.stage = "teardown"
  BY DEF TearDownSingle, At
<1>2. /\ n \in Nodes /\ node \in NodeRecords /\ top \in Frames /\ FrameOf(node, top)
      /\ gen[n] \in Nat /\ rounds[n] \in Nat /\ items[n] \in Seq(Nat) /\ held[n] \in Nat
      /\ Busy(node, top.i, top.stage, top.item, gen[n], rounds[n], items[n], held[n])
  BY <1>1, TopKnown
<1>3. /\ f \in Frames /\ f.node = n /\ f.i = top.i + 1 /\ f.stage = "loop"
      /\ f.item = top.item /\ top.i \in Nat /\ top.item \in Nat
  <2>1. top.i \in Nat /\ top.item \in Nat /\ up \in Nat
    BY <1>2 DEF Frames
  <2> HIDE DEF up
  <2>2. f \in Frames /\ f.node = n /\ f.i = up /\ f.stage = "loop" /\ f.item = top.item
    BY <1>2, <2>1 DEF Frames
  <2> QED
    BY <2>1, <2>2 DEF up
<1>4. /\ prog' = prog /\ rounds' = rounds /\ stack' = Continue(f)
      /\ gen' = gen /\ items' = items
  BY DEF TearDownSingle
<1>5. held' = [held EXCEPT ![n] = h]
  <2>1. CASE node.kind = "mem_alloc"
    BY <1>2, <2>1 DEF TearDownSingle, Freed, IInv, Typed
  <2>2. CASE node.kind # "mem_alloc"
    BY <1>2, <2>2 DEF TearDownSingle, IInv, Typed
  <2> QED
    BY <2>1, <2>2
<1>6. gen' = [gen EXCEPT ![n] = gen[n]] /\ items' = [items EXCEPT ![n] = items[n]]
  BY <1>2, <1>4 DEF IInv, Typed
<1>7. top.i < node.repeat /\ (node.kind = "iterate" => top.item = node.list)
  BY <1>1, <1>2 DEF FrameOf
<1>8. h \in Nat
  BY <1>2
<1>9. Busy(node, top.i + 1, "loop", top.item, gen[n], rounds[n], items[n], h)
  <2> DEFINE r == left
  <2>1. r = IF \/ node.free_policy = "every_period"
               \/ node.free_policy = "last_period" /\ top.i = node.repeat - 1
              THEN 0 ELSE held[n]
    OBVIOUS
  <2> HIDE DEF r, n
  <2>2. Busy(node, top.i + 1, "loop", top.item, gen[n], rounds[n], items[n],
             IF node.kind = "mem_alloc" THEN r ELSE held[n])
    BY <1>1, <1>2, <1>3, <1>7, <2>1, TearDownSingleStep
  <2> QED
    BY <2>2 DEF r, n
<1> HIDE DEF f, h
<1>10. FrameOf(node, f)
  BY <1>1, <1>2, <1>3, <1>7 DEF FrameOf, NodeRecords
<1> QED
  BY <1>1, <1>2, <1>3, <1>4, <1>5, <1>6, <1>8, <1>9, <1>10, ContinueStep, ZenonT(60)

\* RunSingle of a leaf maps memory, and time passes for all callers.
LEMMA RunSingleKeeps ==
  ASSUME IInv, NEW d \in Durations, RunSingle(d)
  PROVE  IInv'
<1> DEFINE n == top.node
           l == Len(stack)
           f == stack'[l]
           h == IF node.kind = "mem_alloc" THEN held[n] + 1 ELSE held[n]
<1>1. stack # <<>> /\ top.stage = "run" /\ node.kind \in {"leaf", "mem_alloc"}
  BY DEF RunSingle, At
<1>2. /\ n \in Nodes /\ node \in NodeRecords /\ top \in Frames /\ FrameOf(node, top)
      /\ gen[n] \in Nat /\ rounds[n] \in Nat /\ items[n] \in Seq(Nat) /\ held[n] \in Nat
      /\ Busy(node, top.i, top.stage, top.item, gen[n], rounds[n], items[n], held[n])
  BY <1>1, TopKnown
<1>3. l \in Nat \ {0} /\ DOMAIN stack = 1 .. l /\ top = stack[l] /\ stack \in Seq(Frames)
  BY <1>1, StackTop DEF IInv, Typed
<1>4. stack' = [k \in 1 .. l |->
                  [stack[k] EXCEPT !.elapsed = @ + d,
                                   !.stage = IF k = l THEN "teardown" ELSE @]]
  BY <1>3 DEF RunSingle
<1>5. ASSUME NEW k \in 1 .. l
      PROVE  /\ stack'[k] \in Frames
             /\ stack'[k].node = stack[k].node /\ stack'[k].i = stack[k].i
             /\ stack'[k].item = stack[k].item
             /\ stack'[k].stage = IF k = l THEN "teardown" ELSE stack[k].stage
  <2> DEFINE e == stack[k]
             t == e.elapsed + d
             to == IF k = l THEN "teardown" ELSE e.stage
  <2>1. e \in Frames
    BY <1>3
  <2>2. t \in Nat /\ to \in {"loop", "run", "instructions", "teardown"}
    BY <2>1, InstructionSetAssumption DEF Frames
  <2>3. stack'[k] = [e EXCEPT !.elapsed = t, !.stage = to]
    BY <1>4
  <2> HIDE DEF e, t, to
  <2>4. /\ stack'[k] \in Frames /\ stack'[k].node = e.node /\ stack'[k].i = e.i
        /\ stack'[k].item = e.item /\ stack'[k].stage = to
    BY <2>1, <2>2, <2>3 DEF Frames
  <2> QED
    BY <2>4 DEF e, to
<1>6. stack' \in Seq(Frames) /\ Len(stack') = l
  <2>1. DOMAIN stack' = 1 .. l /\ stack' = [k \in 1 .. l |-> stack'[k]]
    BY <1>4
  <2>2. stack' \in [1 .. l -> Frames]
    BY <1>5, <2>1, SMTT(40)
  <2> QED
    BY <1>3, <2>1, <2>2
<1>7. f \in Frames /\ f.node = n /\ f.i = top.i /\ f.item = top.item /\ f.stage = "teardown"
  <2>1. l \in 1 .. l
    BY <1>3
  <2> QED
    BY <1>3, <1>5, <2>1
<1>8. \A k \in 1 .. l - 1 :
        /\ stack'[k].node = stack[k].node /\ stack'[k].i = stack[k].i
        /\ stack'[k].stage = stack[k].stage /\ stack'[k].item = stack[k].item
  <2> SUFFICES ASSUME NEW k \in 1 .. l - 1
               PROVE  /\ stack'[k].node = stack[k].node /\ stack'[k].i = stack[k].i
                      /\ stack'[k].stage = stack[k].stage /\ stack'[k].item = stack[k].item
    OBVIOUS
  <2>1. k \in 1 .. l /\ k # l
    <3> HIDE DEF l
    <3> QED
      BY <1>3
  <2> QED
    BY <1>5, <2>1
<1>9. /\ prog' = prog /\ rounds' = rounds /\ gen' = gen /\ items' = items
      /\ held' = [held EXCEPT ![n] = h]
  BY DEF RunSingle
<1>10. gen' = [gen EXCEPT ![n] = gen[n]] /\ items' = [items EXCEPT ![n] = items[n]]
  BY <1>2, <1>9 DEF IInv, Typed
<1>11. top.i < node.repeat /\ top.i \in Nat /\ h \in Nat
  BY <1>1, <1>2 DEF FrameOf, NodeRecords
<1>12. Busy(node, top.i, "teardown", top.item, gen[n], rounds[n], items[n], h)
  BY <1>1, <1>2, <1>11, RunSingleStep
<1> HIDE DEF f, h
<1>13. FrameOf(node, f)
  BY <1>1, <1>2, <1>7 DEF FrameOf
<1>14. Busy(node, f.i, f.stage, f.item, gen[n], rounds[n], items[n], h)
  BY <1>7, <1>12
<1>15. stack'[Len(stack)] = f
  BY DEF f
<1> QED
  BY <1>1, <1>2, <1>6, <1>7, <1>8, <1>9, <1>10, <1>11, <1>13, <1>14, <1>15, TopStep

\* A call returns when its repetitions are done: its round is complete.
LEMMA ReturnKeeps == IInv /\ Return => IInv'
<1> SUFFICES ASSUME IInv, Return PROVE IInv'
  OBVIOUS
<1> DEFINE n == top.node
           l == Len(stack)
<1>1. stack # <<>> /\ top.stage = "loop" /\ top.i >= node.repeat
  BY DEF Return, At
<1>2. /\ n \in Nodes /\ node \in NodeRecords /\ top \in Frames /\ FrameOf(node, top)
      /\ gen[n] \in Nat /\ rounds[n] \in Nat /\ items[n] \in Seq(Nat) /\ held[n] \in Nat
      /\ Busy(node, top.i, top.stage, top.item, gen[n], rounds[n], items[n], held[n])
  BY <1>1, TopKnown
<1>3. l \in Nat \ {0} /\ DOMAIN stack = 1 .. l /\ top = stack[l]
  BY <1>1, StackTop DEF IInv
<1>4. stack' \in Seq(Frames) /\ Len(stack') = l - 1 /\ DOMAIN stack' = 1 .. l - 1
      /\ \A k \in 1 .. l - 1 : stack'[k] = stack[k]
  BY <1>1, Popped DEF Return, IInv
<1>5. /\ prog' = prog /\ rounds' = rounds /\ gen' = gen /\ items' = items /\ held' = held
  BY DEF Return
<1>6. top.i = node.repeat
  BY <1>1, <1>2 DEF FrameOf, NodeRecords
<1>7. Idle(node, gen[n], rounds[n], items[n], held[n])
  BY <1>1, <1>2, <1>6, ReturnStep
<1>8. Typed'
  BY <1>4, <1>5 DEF IInv, Typed, Nodes
<1>9. \A k \in 1 .. l - 1 : k \in 1 .. l
  BY <1>3
<1>10. FramesFit' /\ Descending' /\ BusyKnown'
  <2>1. FramesFit'
    BY <1>3, <1>4, <1>5, <1>9 DEF IInv, FramesFit, Nodes
  <2>2. Descending'
    BY <1>3, <1>4, <1>9 DEF IInv, Descending
  <2>3. BusyKnown'
    BY <1>3, <1>4, <1>5, <1>9 DEF IInv, BusyKnown
  <2> QED
    BY <2>1, <2>2, <2>3
<1>11. IdleKnown'
  <2> SUFFICES ASSUME NEW m \in Nodes, \A k \in 1 .. l - 1 : stack[k].node # m
               PROVE  Idle(prog[m], gen[m], rounds[m], items[m], held[m])
    BY <1>4, <1>5 DEF IdleKnown, Nodes
  <2>1. CASE m = n
    BY <1>7, <2>1 DEF node
  <2>2. CASE m # n
    <3>1. \A k \in 1 .. l : k # l => k \in 1 .. l - 1
      <4> HIDE DEF l
      <4> QED
        BY <1>3
    <3>2. \A k \in DOMAIN stack : stack[k].node # m
      <4> SUFFICES ASSUME NEW k \in 1 .. l PROVE stack[k].node # m
        BY <1>3
      <4>1. CASE k = l
        BY <1>3, <2>2, <4>1
      <4>2. CASE k # l
        BY <3>1, <4>2
      <4> QED
        BY <4>1, <4>2
    <3> QED
      BY <3>2 DEF IInv, IdleKnown
  <2> QED
    BY <2>1, <2>2
<1> QED
  BY <1>8, <1>10, <1>11 DEF IInv

\* A call begins a round of an instruction that is not running.
LEMMA CallInstructionKeeps == IInv /\ CallInstruction => IInv'
<1> SUFFICES ASSUME IInv, CallInstruction PROVE IInv'
  OBVIOUS
<1> DEFINE n == top.node
           l == Len(stack)
           kid == node.kids[top.next]
           up == top.next + 1
           f == [top EXCEPT !.next = up]
           g == SeededGen(prog[kid], gen[kid], "each_round_of_cycles")
<1>1. /\ stack # <<>> /\ top.stage = "instructions" /\ top.next <= Len(node.kids)
      /\ Typed /\ FramesFit /\ Descending /\ IdleKnown /\ BusyKnown
  BY DEF CallInstruction, At, IInv
<1>2. /\ n \in Nodes /\ node \in NodeRecords /\ top \in Frames /\ FrameOf(node, top)
      /\ l \in Nat \ {0} /\ DOMAIN stack = 1 .. l /\ top = stack[l]
  BY <1>1, StackTop
<1>3. f \in Frames /\ f.node = n /\ f.i = top.i /\ f.stage = top.stage /\ f.item = top.item
  <2>1. up \in Nat \ {0}
    BY <1>2 DEF Frames
  <2> HIDE DEF up
  <2> QED
    BY <1>2, <2>1 DEF Frames
<1>4. kid \in Nodes /\ kid > n /\ kid \in Nat /\ n \in Nat /\ prog[kid] \in NodeRecords
  <2>1. top.next \in DOMAIN node.kids
    BY <1>1, <1>2 DEF Frames, NodeRecords
  <2> QED
    BY <1>1, <1>2, <2>1, ProgramNodes DEF node
<1>5. /\ Continue(f) \in Seq(Frames) /\ Len(Continue(f)) = l /\ Continue(f)[l] = f
      /\ \A k \in 1 .. l - 1 : Continue(f)[k] = stack[k]
  BY <1>1, <1>3, Replaced
<1>6. Frame(kid) \in Frames
  BY <1>4 DEF Frame, Frames
<1>7. stack' = Append(Continue(f), Frame(kid))
  BY DEF CallInstruction
<1> HIDE DEF f
<1>8. /\ stack' \in Seq(Frames) /\ Len(stack') = l + 1 /\ DOMAIN stack' = 1 .. l + 1
      /\ \A k \in 1 .. l - 1 : stack'[k] = stack[k]
      /\ stack'[l] = f /\ stack'[l + 1] = Frame(kid)
  <2> DEFINE c == Continue(f)
             e == Frame(kid)
  <2>1. /\ c \in Seq(Frames) /\ Len(c) = l /\ l \in Nat \ {0} /\ e \in Frames
        /\ stack' = Append(c, e)
    BY <1>2, <1>5, <1>6, <1>7
  <2> HIDE DEF c, e, l
  <2>2. /\ stack' \in Seq(Frames) /\ Len(stack') = l + 1 /\ DOMAIN stack' = 1 .. l + 1
        /\ \A k \in 1 .. l : stack'[k] = c[k]
        /\ stack'[l + 1] = e
    BY <2>1
  <2>3. l \in 1 .. l /\ \A k \in 1 .. l - 1 : k \in 1 .. l
    BY <2>1
  <2> QED
    BY <1>5, <2>2, <2>3 DEF c, e
<1>9. \A k \in 1 .. l :
        /\ stack'[k].node = stack[k].node /\ stack'[k].i = stack[k].i
        /\ stack'[k].stage = stack[k].stage /\ stack'[k].item = stack[k].item
  <2> SUFFICES ASSUME NEW k \in 1 .. l
               PROVE  /\ stack'[k].node = stack[k].node /\ stack'[k].i = stack[k].i
                      /\ stack'[k].stage = stack[k].stage /\ stack'[k].item = stack[k].item
    OBVIOUS
  <2>1. CASE k = l
    BY <1>2, <1>3, <1>8, <2>1
  <2>2. CASE k # l
    <3>1. k \in 1 .. l - 1
      <4> HIDE DEF l
      <4> QED
        BY <1>2, <2>2
    <3> QED
      BY <1>8, <3>1
  <2> QED
    BY <2>1, <2>2
<1>10. /\ prog' = prog /\ items' = items /\ held' = held
       /\ rounds' = [rounds EXCEPT ![kid] = rounds[kid] + 1]
       /\ gen' = [gen EXCEPT ![kid] = g]
  BY <1>1, <1>4 DEF CallInstruction, Seeded, SeededGen, Typed
<1>11. gen[kid] \in Nat /\ rounds[kid] \in Nat /\ items[kid] \in Seq(Nat) /\ g \in Nat
  BY <1>1, <1>4 DEF Typed, SeededGen
<1>12. Typed'
  <2> HIDE DEF kid, g, l
  <2>1. rounds[kid] + 1 \in Nat
    BY <1>11
  <2>2. gen' \in [Nodes -> Nat] /\ rounds' \in [Nodes -> Nat]
    BY <1>1, <1>10, <1>11, <2>1 DEF Typed
  <2> QED
    BY <1>1, <1>8, <1>10, <2>2 DEF Typed, Nodes
<1>13. \A k \in 1 .. l : stack[k].node \in Nodes /\ stack[k].node < kid /\ stack[k].node # kid
  <2> SUFFICES ASSUME NEW k \in 1 .. l
               PROVE  stack[k].node \in Nodes /\ stack[k].node < kid /\ stack[k].node # kid
    OBVIOUS
  <2>1. stack[k].node \in Nodes /\ stack[k].node \in Nat
    BY <1>1, <1>2, ProgramNodes DEF FramesFit
  <2>2. k = l \/ stack[k].node < n
    <3>1. k = l \/ k < l
      <4> HIDE DEF l
      <4> QED
        BY <1>2
    <3>2. k \in DOMAIN stack /\ l \in DOMAIN stack
      BY <1>2
    <3> QED
      BY <1>1, <1>2, <3>1, <3>2 DEF Descending
  <2> HIDE DEF kid, n
  <2>3. k = l => stack[k].node = n
    BY <1>2 DEF n
  <2> QED
    BY <1>4, <2>1, <2>2, <2>3
<1>14. \A k \in 1 .. l + 1 : k = l + 1 \/ k \in 1 .. l
  <2> HIDE DEF l
  <2> QED
    BY <1>2
<1>15. FramesFit'
  <2> SUFFICES ASSUME NEW k \in 1 .. l + 1
               PROVE  stack'[k].node \in Nodes /\ FrameOf(prog[stack'[k].node], stack'[k])
    BY <1>8, <1>10 DEF FramesFit, Nodes
  <2>1. CASE k = l + 1
    BY <1>4, <1>8, <2>1 DEF Frame, FrameOf, NodeRecords
  <2>2. CASE k \in 1 .. l
    <3>1. stack[k].node \in Nodes /\ FrameOf(prog[stack[k].node], stack[k])
      BY <1>1, <1>2, <2>2 DEF FramesFit
    <3> QED
      BY <1>9, <2>2, <3>1 DEF FrameOf
  <2> QED
    BY <1>14, <2>1, <2>2
<1>16. Descending'
  <2> SUFFICES ASSUME NEW j \in 1 .. l + 1, NEW k \in 1 .. l + 1, j < k
               PROVE  stack'[j].node < stack'[k].node
    BY <1>8 DEF Descending
  <2>1. j \in 1 .. l
    <3> HIDE DEF l
    <3> QED
      BY <1>2
  <2>2. CASE k = l + 1
    BY <1>8, <1>9, <1>13, <2>1, <2>2 DEF Frame
  <2>3. CASE k \in 1 .. l
    BY <1>1, <1>2, <1>9, <2>1, <2>3 DEF Descending
  <2> QED
    BY <1>14, <2>2, <2>3
<1>17. \A m \in Nodes : m # kid => gen'[m] = gen[m] /\ rounds'[m] = rounds[m]
  BY <1>1, <1>10 DEF Typed
<1>18. gen'[kid] = g /\ rounds'[kid] = rounds[kid] + 1
  BY <1>1, <1>4, <1>10 DEF Typed
<1>19. IdleKnown'
  <2> SUFFICES ASSUME NEW m \in Nodes, \A k \in 1 .. l + 1 : stack'[k].node # m
               PROVE  Idle(prog[m], gen'[m], rounds'[m], items[m], held[m])
    BY <1>8, <1>10 DEF IdleKnown, Nodes
  <2>1. \A k \in 1 .. l : k \in 1 .. l + 1
    <3> HIDE DEF l
    <3> QED
      BY <1>2
  <2>2. l + 1 \in 1 .. l + 1
    <3> HIDE DEF l
    <3> QED
      BY <1>2
  <2>3. \A k \in DOMAIN stack : stack[k].node # m
    BY <1>2, <1>9, <2>1
  <2>4. m # kid
    BY <1>8, <2>2 DEF Frame
  <2> QED
    BY <1>1, <1>17, <2>3, <2>4 DEF IdleKnown
<1>20. BusyKnown'
  <2> SUFFICES ASSUME NEW k \in 1 .. l + 1
               PROVE  LET e == stack'[k]
                          m == e.node
                      IN  Busy(prog[m], e.i, e.stage, e.item, gen'[m], rounds'[m], items[m], held[m])
    BY <1>8, <1>10 DEF BusyKnown
  <2>1. CASE k = l + 1
    <3>1. Idle(prog[kid], gen[kid], rounds[kid], items[kid], held[kid])
      BY <1>1, <1>2, <1>4, <1>13 DEF IdleKnown
    <3>2. Busy(prog[kid], 0, "loop", 0, g, rounds[kid] + 1, items[kid], held[kid])
      BY <1>4, <1>11, <3>1, CallStep
    <3>3. stack'[k].node = kid /\ stack'[k].i = 0 /\ stack'[k].stage = "loop" /\ stack'[k].item = 0
      BY <1>8, <2>1 DEF Frame
    <3> QED
      BY <1>18, <3>2, <3>3
  <2>2. CASE k \in 1 .. l
    <3>1. LET e == stack[k]
              m == e.node
          IN  Busy(prog[m], e.i, e.stage, e.item, gen[m], rounds[m], items[m], held[m])
      BY <1>1, <1>2, <2>2 DEF BusyKnown
    <3>2. /\ stack'[k].node = stack[k].node /\ stack'[k].i = stack[k].i
          /\ stack'[k].stage = stack[k].stage /\ stack'[k].item = stack[k].item
      BY <1>9, <2>2
    <3> QED
      BY <1>13, <1>17, <2>2, <3>1, <3>2
  <2> QED
    BY <1>14, <2>1, <2>2
<1> QED
  BY <1>12, <1>15, <1>16, <1>19, <1>20 DEF IInv

\* Before the root runs, nothing is stored or held.
LEMMA InitIInv == Init => IInv
<1> SUFFICES ASSUME Init PROVE IInv
  OBVIOUS
<1>1. /\ prog \in Programs /\ stack = <<Frame(1)>> /\ gen = [n \in Nodes |-> 0]
      /\ rounds = [n \in Nodes |-> IF n = 1 THEN 1 ELSE 0]
      /\ items = [n \in Nodes |-> <<>>] /\ held = [n \in Nodes |-> 0]
  BY DEF Init
<1>2. Frame(1) \in Frames
  BY DEF Frame, Frames
<1>3. /\ stack \in Seq(Frames) /\ DOMAIN stack = {1} /\ stack[1] = Frame(1)
  BY <1>1, <1>2
<1>4. Typed
  BY <1>1, <1>3 DEF Typed
<1>5. 1 \in Nodes /\ \A n \in Nodes : prog[n] \in NodeRecords
  BY <1>4, ProgramNodes
<1>6. FramesFit
  BY <1>3, <1>5 DEF FramesFit, FrameOf, Frame, NodeRecords
<1>7. Descending
  BY <1>3 DEF Descending
<1>8. ASSUME NEW n \in Nodes PROVE Idle(prog[n], 0, 0, <<>>, 0)
  <2>1. prog[n].repeat \in Nat /\ prog[n].list \in Nat
    BY <1>5 DEF NodeRecords
  <2>2. 0 * prog[n].repeat = 0 /\ 0 * prog[n].list = 0
    BY <2>1
  <2>3. Repeats(prog[n], <<>>)
    BY DEF Repeats
  <2> QED
    BY <2>2, <2>3 DEF Idle
<1>9. IdleKnown
  <2> SUFFICES ASSUME NEW n \in Nodes, n # 1
               PROVE  Idle(prog[n], gen[n], rounds[n], items[n], held[n])
    BY <1>3 DEF IdleKnown, Frame
  <2> QED
    BY <1>1, <1>8
<1>10. BusyKnown
  <2>1. Busy(prog[1], 0, "loop", 0, SeededGen(prog[1], 0, "each_round_of_cycles"), 0 + 1, <<>>, 0)
    <3> DEFINE p == prog[1]
               s == <<>>
    <3>1. p \in NodeRecords /\ 0 \in Nat /\ s \in Seq(Nat) /\ Idle(p, 0, 0, s, 0)
      BY <1>5, <1>8
    <3> HIDE DEF p, s
    <3>2. Busy(p, 0, "loop", 0, SeededGen(p, 0, "each_round_of_cycles"), 0 + 1, s, 0)
      BY <3>1, CallStep
    <3> QED
      BY <3>2 DEF p, s
  <2>2. SeededGen(prog[1], 0, "each_round_of_cycles") = 0 /\ 0 + 1 = 1
    BY DEF SeededGen
  <2>3. gen[1] = 0 /\ rounds[1] = 1 /\ items[1] = <<>> /\ held[1] = 0
    BY <1>1, <1>5
  <2>4. Busy(prog[1], 0, "loop", 0, gen[1], rounds[1], items[1], held[1])
    BY <2>1, <2>2, <2>3
  <2> QED
    BY <1>3, <2>4 DEF BusyKnown, Frame
<1> QED
  BY <1>4, <1>6, <1>7, <1>9, <1>10 DEF IInv

\* Every step keeps the invariant.
LEMMA StepIInv == IInv /\ [Next]_vars => IInv'
<1> SUFFICES ASSUME IInv, [Next]_vars PROVE IInv'
  OBVIOUS
<1>1. CASE /\ prog' = prog /\ stack' = stack /\ gen' = gen /\ rounds' = rounds
           /\ items' = items /\ held' = held
  BY <1>1 DEF IInv, Typed, FramesFit, Descending, IdleKnown, BusyKnown, Nodes
<1>2. CASE SetUpSingle
  BY <1>2, SetUpSingleKeeps
<1>3. CASE RunOnce \/ EndOfList \/ EndInstructions
  BY <1>3, InsideKeeps
<1>4. CASE NextItem
  BY <1>4, NextItemKeeps
<1>5. CASE CallInstruction
  BY <1>5, CallInstructionKeeps
<1>6. CASE TearDownSingle
  BY <1>6, TearDownSingleKeeps
<1>7. CASE Return
  BY <1>7, ReturnKeeps
<1>8. CASE \E d \in Durations : RunSingle(d)
  BY <1>8, RunSingleKeeps
<1>9. CASE NotIterable
  BY <1>1, <1>9 DEF NotIterable
<1>10. CASE CollectResults
  BY <1>1, <1>10 DEF CollectResults
<1>11. CASE UNCHANGED vars
  BY <1>1, <1>11 DEF vars
<1> QED
  BY <1>2, <1>3, <1>4, <1>5, <1>6, <1>7, <1>8, <1>9, <1>10, <1>11 DEF Next

-----------------------------------------------------------------------------
(* Induction over the natural numbers, for sets of numbers *)

\* A non-empty set of natural numbers has a least element.
LEMMA LeastNatural ==
  ASSUME NEW T \in SUBSET Nat, T # {}
  PROVE  \E x \in T : \A y \in T : x <= y
<1> DEFINE R == OpToRel(<, Nat)
<1>1. IsWellFoundedOn(R, Nat)
  BY NatLessThanWellFounded
<1>2. PICK x \in T : \A y \in T : ~ (<<y, x>> \in R)
  BY <1>1, WFMin, Zenon
<1>3. ASSUME NEW y \in T PROVE x <= y
  <2>1. y < x => <<y, x>> \in R
    BY DEF OpToRel
  <2>2. ~ (y < x)
    BY <1>2, <2>1
  <2> QED
    BY <2>2
<1> QED
  BY <1>3

\* A set of natural numbers with 0 and every successor has them all.
LEMMA SetInduction ==
  ASSUME NEW S \in SUBSET Nat, 0 \in S, \A n \in S : n + 1 \in S
  PROVE  S = Nat
<1> SUFFICES ASSUME Nat \ S # {} PROVE FALSE
  OBVIOUS
<1>1. PICK x \in Nat \ S : \A y \in Nat \ S : x <= y
  BY LeastNatural
<1>2. x - 1 \in S
  BY <1>1
<1> QED
  BY <1>1, <1>2

-----------------------------------------------------------------------------
(* Sums over finite sets *)

\* f[s] is the sum of F over s, for the subsets s of S, added up in the order
\* in which MapThenSumSet takes the elements.
Pick(s) == CHOOSE x \in s : TRUE

Sums(f, F, S) ==
  f = [s \in SUBSET S |-> IF s = {} THEN 0 ELSE F[Pick(s)] + f[s \ {Pick(s)}]]

\* The sums exist, although the function that holds them is recursive.
LEMMA SumsExist ==
  ASSUME NEW S, IsFiniteSet(S), NEW F
  PROVE  \E f : Sums(f, F, S)
<1> DEFINE D(m) == {s \in SUBSET S : Cardinality(s) <= m}
           Good(g, m) == g = [s \in D(m) |-> IF s = {} THEN 0
                                             ELSE F[Pick(s)] + g[s \ {Pick(s)}]]
           T == {m \in Nat : \E g : Good(g, m)}
<1>1. \A s \in SUBSET S : IsFiniteSet(s) /\ Cardinality(s) \in Nat
  BY FS_Subset, FS_CardinalityType
<1>2. ASSUME NEW s \in SUBSET S, s # {}
      PROVE  /\ Pick(s) \in s /\ s \ {Pick(s)} \in SUBSET S
             /\ Cardinality(s \ {Pick(s)}) = Cardinality(s) - 1
  <2>1. Pick(s) \in s
    BY <1>2 DEF Pick
  <2> QED
    BY <1>1, <2>1, FS_RemoveElement
<1>3. 0 \in T
  <2> DEFINE g == [s \in D(0) |-> 0]
  <2>1. ASSUME NEW s \in D(0) PROVE s = {}
    BY <1>1, FS_EmptySet
  <2>2. Good(g, 0)
    BY <2>1
  <2> QED
    BY <2>2
<1>4. ASSUME NEW m \in T PROVE m + 1 \in T
  <2>1. PICK g : Good(g, m)
    BY <1>4
  <2> DEFINE h == [s \in D(m + 1) |-> IF s = {} THEN 0
                                      ELSE F[Pick(s)] + g[s \ {Pick(s)}]]
  <2>2. ASSUME NEW s \in D(m) PROVE s \in D(m + 1) /\ h[s] = g[s]
    <3>1. s \in D(m + 1)
      BY <1>1
    <3> QED
      BY <2>1, <3>1
  <2>3. ASSUME NEW s \in D(m + 1), s # {} PROVE s \ {Pick(s)} \in D(m)
    BY <1>1, <1>2, <2>3
  <2>4. ASSUME NEW s \in D(m + 1)
        PROVE  h[s] = IF s = {} THEN 0 ELSE F[Pick(s)] + h[s \ {Pick(s)}]
    BY <2>2, <2>3
  <2>5. Good(h, m + 1)
    <3> DEFINE E == D(m + 1)
               e == h
    <3>1. e = [s \in E |-> e[s]]
      OBVIOUS
    <3>2. \A s \in E : e[s] = IF s = {} THEN 0 ELSE F[Pick(s)] + e[s \ {Pick(s)}]
      BY <2>4
    <3> HIDE DEF e, E
    <3>3. e = [s \in E |-> IF s = {} THEN 0 ELSE F[Pick(s)] + e[s \ {Pick(s)}]]
      BY <3>1, <3>2
    <3> QED
      BY <3>3 DEF e, E
  <2>6. \E e : Good(e, m + 1)
    <3> HIDE DEF Good, h
    <3> QED
      BY <2>5
  <2>7. m + 1 \in Nat
    OBVIOUS
  <2> QED
    BY <2>6, <2>7
<1>5. T = Nat
  <2> HIDE DEF T
  <2>1. T \in SUBSET Nat
    BY DEF T
  <2> QED
    BY <1>3, <1>4, <2>1, SetInduction
<1>6. D(Cardinality(S)) = SUBSET S
  BY <1>1, FS_Subset
<1>7. Cardinality(S) \in T
  BY <1>1, <1>5
<1>8. PICK g : Good(g, Cardinality(S))
  BY <1>7
<1> QED
  BY <1>6, <1>8 DEF Sums

\* If F grows by d at x, so do the sums over the sets that x is in.
LEMMA SumsGrow ==
  ASSUME NEW S, IsFiniteSet(S), NEW F \in [S -> Nat], NEW G \in [S -> Nat],
         NEW x, NEW d \in Nat,
         \A y \in S : G[y] = IF y = x THEN F[y] + d ELSE F[y],
         NEW f, Sums(f, F, S), NEW g, Sums(g, G, S)
  PROVE  f[S] \in Nat /\ g[S] = f[S] + (IF x \in S THEN d ELSE 0)
<1> DEFINE P(s) == f[s] \in Nat /\ g[s] = f[s] + (IF x \in s THEN d ELSE 0)
           T == {m \in Nat : \A s \in SUBSET S : Cardinality(s) = m => P(s)}
<1>1. \A s \in SUBSET S : IsFiniteSet(s) /\ Cardinality(s) \in Nat
  BY FS_Subset, FS_CardinalityType
<1>2. ASSUME NEW s \in SUBSET S, s # {}
      PROVE  /\ Pick(s) \in s /\ s \ {Pick(s)} \in SUBSET S
             /\ Cardinality(s \ {Pick(s)}) = Cardinality(s) - 1
  <2>1. Pick(s) \in s
    BY <1>2 DEF Pick
  <2> QED
    BY <1>1, <2>1, FS_RemoveElement
<1>3. \A s \in SUBSET S :
        /\ f[s] = IF s = {} THEN 0 ELSE F[Pick(s)] + f[s \ {Pick(s)}]
        /\ g[s] = IF s = {} THEN 0 ELSE G[Pick(s)] + g[s \ {Pick(s)}]
  <2>1. \A s \in SUBSET S : f[s] = IF s = {} THEN 0 ELSE F[Pick(s)] + f[s \ {Pick(s)}]
    BY DEF Sums
  <2>2. \A s \in SUBSET S : g[s] = IF s = {} THEN 0 ELSE G[Pick(s)] + g[s \ {Pick(s)}]
    BY DEF Sums
  <2> QED
    BY <2>1, <2>2
<1>4. P({})
  <2>1. f[{}] = 0 /\ g[{}] = 0
    BY <1>3, Zenon
  <2>2. x \notin {}
    OBVIOUS
  <2> QED
    BY <2>1, <2>2
<1>5. 0 \in T
  <2>1. \A s \in SUBSET S : Cardinality(s) = 0 => s = {}
    BY <1>1, FS_EmptySet
  <2> QED
    BY <1>4, <2>1
<1>6. ASSUME NEW m \in T PROVE m + 1 \in T
  <2> SUFFICES ASSUME NEW s \in SUBSET S, Cardinality(s) = m + 1 PROVE P(s)
    OBVIOUS
  <2>0. m \in Nat
    OBVIOUS
  <2>1. s # {}
    <3>1. Cardinality({}) = 0
      BY FS_EmptySet
    <3>2. m + 1 # 0
      BY <2>0
    <3> QED
      BY <3>1, <3>2, Zenon
  <2> DEFINE y == Pick(s)
             r == s \ {y}
  <2>2. y \in s /\ y \in S /\ r \in SUBSET S /\ Cardinality(r) = m
    <3> HIDE DEF T
    <3>1. y \in s /\ r \in SUBSET S /\ Cardinality(r) = Cardinality(s) - 1
      BY <1>2, <2>1
    <3> QED
      BY <2>0, <3>1
  <2>3. P(r)
    BY <2>2
  <2>4. f[s] = F[y] + f[r] /\ g[s] = G[y] + g[r]
    <3>1. /\ f[s] = IF s = {} THEN 0 ELSE F[y] + f[r]
          /\ g[s] = IF s = {} THEN 0 ELSE G[y] + g[r]
      BY <1>3
    <3> HIDE DEF y, r
    <3> QED
      BY <2>1, <3>1
  <2>5. F[y] \in Nat /\ G[y] \in Nat /\ G[y] = IF y = x THEN F[y] + d ELSE F[y]
    BY <2>2
  <2>6. (x \in s <=> x = y \/ x \in r) /\ y \notin r
    BY <2>2
  <2> HIDE DEF y, r
  <2>7. CASE x = y
    BY <2>3, <2>4, <2>5, <2>6, <2>7
  <2>8. CASE x # y
    BY <2>3, <2>4, <2>5, <2>6, <2>8
  <2> QED
    BY <2>7, <2>8
<1>7. T = Nat
  <2> HIDE DEF T
  <2>1. T \in SUBSET Nat
    BY DEF T
  <2> QED
    BY <1>5, <1>6, <2>1, SetInduction
<1>8. P(S)
  <2>1. Cardinality(S) \in T /\ S \in SUBSET S
    BY <1>1, <1>7
  <2> QED
    BY <2>1
<1> QED
  BY <1>8

\* Sums of zeros.
LEMMA SumsOfZero ==
  ASSUME NEW S, IsFiniteSet(S), NEW F, \A n \in S : F[n] = 0, NEW f, Sums(f, F, S)
  PROVE  f[S] = 0
<1> DEFINE T == {m \in Nat : \A s \in SUBSET S : Cardinality(s) = m => f[s] = 0}
<1>1. \A s \in SUBSET S : IsFiniteSet(s) /\ Cardinality(s) \in Nat
  BY FS_Subset, FS_CardinalityType
<1>2. \A s \in SUBSET S : f[s] = IF s = {} THEN 0 ELSE F[Pick(s)] + f[s \ {Pick(s)}]
  BY DEF Sums
<1>3. 0 \in T
  <2>1. \A s \in SUBSET S : Cardinality(s) = 0 => s = {}
    BY <1>1, FS_EmptySet
  <2> QED
    BY <1>2, <2>1
<1>4. ASSUME NEW m \in T PROVE m + 1 \in T
  <2> SUFFICES ASSUME NEW s \in SUBSET S, Cardinality(s) = m + 1 PROVE f[s] = 0
    OBVIOUS
  <2>1. m \in Nat
    OBVIOUS
  <2>2. s # {}
    <3>1. Cardinality({}) = 0
      BY FS_EmptySet
    <3>2. m + 1 # 0
      BY <2>1
    <3> QED
      BY <3>1, <3>2, Zenon
  <2> DEFINE y == Pick(s)
             r == s \ {y}
  <2>3. y \in s /\ y \in S /\ r \in SUBSET S
    BY <2>2 DEF Pick
  <2>4. Cardinality(r) = m
    <3> HIDE DEF T, y
    <3>1. Cardinality(r) = Cardinality(s) - 1
      BY <1>1, <2>3, FS_RemoveElement
    <3> QED
      BY <2>1, <3>1
  <2>5. f[r] = 0
    BY <2>3, <2>4
  <2>6. f[s] = F[y] + f[r]
    <3>1. f[s] = IF s = {} THEN 0 ELSE F[y] + f[r]
      BY <1>2
    <3> HIDE DEF y, r
    <3> QED
      BY <2>2, <3>1
  <2> QED
    BY <2>3, <2>5, <2>6
<1>5. T = Nat
  <2> HIDE DEF T
  <2>1. T \in SUBSET Nat
    BY DEF T
  <2> QED
    BY <1>3, <1>4, <2>1, SetInduction
<1> QED
  BY <1>1, <1>5

\* MapThenSumSet of what the calls of an instruction have run ...
LEMMA RanSums ==
  ASSUME NEW n, IsFiniteSet(Calls(n))
  PROVE  \E f : /\ Sums(f, [k \in DOMAIN stack |-> stack[k].i], Calls(n))
                /\ MapThenSumSet(LAMBDA k : stack[k].i, Calls(n)) = f[Calls(n)]
<1> DEFINE S == Calls(n)
           F == [k \in DOMAIN stack |-> stack[k].i]
           Rec(g) == g = [s \in SUBSET S |-> IF s = {} THEN 0
                            ELSE LET x == CHOOSE x \in s : TRUE IN stack[x].i + g[s \ {x}]]
           f == CHOOSE g : Rec(g)
<1>1. MapThenSumSet(LAMBDA k : stack[k].i, S) = f[S]
  BY DEF MapThenSumSet, MapThenFoldSet
<1>2. ASSUME NEW g PROVE Sums(g, F, S) <=> Rec(g)
  <2>1. ASSUME NEW s \in SUBSET S, s # {} PROVE F[Pick(s)] = stack[CHOOSE x \in s : TRUE].i
    <3>1. Pick(s) \in s
      BY <2>1 DEF Pick
    <3>2. Pick(s) \in DOMAIN stack
      BY <3>1 DEF Calls
    <3> QED
      BY <3>2 DEF Pick
  <2>2. [s \in SUBSET S |-> IF s = {} THEN 0 ELSE F[Pick(s)] + g[s \ {Pick(s)}]]
          = [s \in SUBSET S |-> IF s = {} THEN 0
               ELSE LET x == CHOOSE x \in s : TRUE IN stack[x].i + g[s \ {x}]]
    <3> HIDE DEF F, S
    <3> QED
      BY <2>1 DEF Pick
  <2> QED
    BY <2>2 DEF Sums
<1>3. \E g : Rec(g)
  <2>1. \E g : Sums(g, F, S)
    BY SumsExist
  <2> HIDE DEF Rec
  <2> QED
    BY <1>2, <2>1
<1>4. Rec(f)
  <2> HIDE DEF Rec
  <2> QED
    BY <1>3, Zenon
<1>5. Sums(f, F, S)
  <2> HIDE DEF Rec, f, F
  <2> QED
    BY <1>2, <1>4
<1> HIDE DEF f
<1> QED
  BY <1>1, <1>5

\* ... which is what the only call in progress has run.
LEMMA RanOf ==
  ASSUME NEW n
  PROVE  /\ Calls(n) = {} => MapThenSumSet(LAMBDA k : stack[k].i, Calls(n)) = 0
         /\ \A k \in DOMAIN stack :
              Calls(n) = {k} /\ stack[k].i \in Nat =>
                MapThenSumSet(LAMBDA j : stack[j].i, Calls(n)) = stack[k].i
<1> DEFINE ran == MapThenSumSet(LAMBDA k : stack[k].i, Calls(n))
           F == [k \in DOMAIN stack |-> stack[k].i]
<1>1. CASE Calls(n) = {}
  <2>1. IsFiniteSet(Calls(n))
    BY <1>1, FS_EmptySet
  <2>2. PICK f : Sums(f, F, Calls(n)) /\ ran = f[Calls(n)]
    BY <2>1, RanSums
  <2> HIDE DEF ran, F
  <2>3. ran = 0
    BY <1>1, <2>2 DEF Sums
  <2> QED
    BY <1>1, <2>3 DEF ran
<1>2. ASSUME NEW k \in DOMAIN stack, Calls(n) = {k}, stack[k].i \in Nat
      PROVE  ran = stack[k].i
  <2>1. IsFiniteSet(Calls(n))
    BY <1>2, FS_Singleton
  <2>2. PICK f : Sums(f, F, Calls(n)) /\ ran = f[Calls(n)]
    BY <2>1, RanSums
  <2>3. F[k] = stack[k].i
    OBVIOUS
  <2> HIDE DEF ran, F
  <2>4. Pick({k}) = k
    BY DEF Pick
  <2>5. f[{}] = 0
    BY <1>2, <2>2 DEF Sums
  <2>6. f[{k}] = F[k] + f[{k} \ {k}]
    BY <1>2, <2>2, <2>4 DEF Sums
  <2>7. {k} \ {k} = {}
    OBVIOUS
  <2>8. f[{k}] = stack[k].i
    BY <1>2, <2>3, <2>5, <2>6, <2>7
  <2> QED
    BY <1>2, <2>2, <2>8
<1> HIDE DEF ran
<1>3. Calls(n) = {} => ran = 0
  BY <1>1 DEF ran
<1> QED
  BY <1>2, <1>3 DEF ran

-----------------------------------------------------------------------------
(* The theorems *)

\* Invariance: in every tree, while it runs, the calls in progress go down
\* the tree, and what each instruction has stored and holds follows from the
\* rounds and repetitions it has run.
THEOREM Invariance == Spec => []IInv
<1>1. Init => IInv
  BY InitIInv
<1>2. IInv /\ [Next]_vars => IInv'
  BY StepIInv
<1> QED
  BY <1>1, <1>2, PTL DEF Spec

\* Every instruction is idle or has one call in progress.
LEMMA AtMostOneCall ==
  ASSUME IInv, NEW n \in Nodes
  PROVE  \/ Calls(n) = {} /\ Idle(prog[n], gen[n], rounds[n], items[n], held[n])
         \/ \E k \in DOMAIN stack :
              /\ Calls(n) = {k}
              /\ stack[k] \in Frames /\ FrameOf(prog[n], stack[k])
              /\ Busy(prog[n], stack[k].i, stack[k].stage, stack[k].item,
                      gen[n], rounds[n], items[n], held[n])
<1>1. CASE Calls(n) = {}
  BY <1>1 DEF Calls, IInv, IdleKnown
<1>2. CASE Calls(n) # {}
  <2>1. PICK k \in DOMAIN stack : stack[k].node = n
    BY <1>2 DEF Calls
  <2>2. ASSUME NEW j \in DOMAIN stack, stack[j].node = n PROVE j = k
    <3>1. j \in Nat /\ k \in Nat /\ n \in Nat
      BY ProgramNodes DEF IInv, Typed
    <3>2. ~(j < k) /\ ~(k < j)
      BY <2>1, <2>2, <3>1 DEF IInv, Descending
    <3> QED
      BY <3>1, <3>2
  <2>3. Calls(n) = {k}
    BY <2>1, <2>2 DEF Calls
  <2>4. stack[k] \in Frames
    BY <2>1 DEF IInv, Typed
  <2> QED
    BY <2>1, <2>3, <2>4 DEF IInv, FramesFit, BusyKnown
<1> QED
  BY <1>1, <1>2

\* What InstructionSet stores in its item variable repeats with the period the
\* reseeding option promises, for every tree, list, order and repetition.
THEOREM ItemsAlwaysRepeat == Spec => []ItemsRepeatAsSeeded
<1>1. IInv => ItemsRepeatAsSeeded
  <2> SUFFICES ASSUME IInv, NEW n \in Nodes, prog[n].kind = "iterate"
               PROVE  Repeats(prog[n], items[n])
    BY Zenon DEF ItemsRepeatAsSeeded, Repeats
  <2>1. CASE Idle(prog[n], gen[n], rounds[n], items[n], held[n])
    BY <2>1 DEF Idle
  <2>2. ASSUME NEW k \in DOMAIN stack,
               Busy(prog[n], stack[k].i, stack[k].stage, stack[k].item,
                    gen[n], rounds[n], items[n], held[n])
        PROVE  Repeats(prog[n], items[n])
    BY <2>2 DEF Busy
  <2> QED
    BY AtMostOneCall, <2>1, <2>2
<1> QED
  BY <1>1, Invariance, PTL

\* The mappings a mem_alloc keeps locked are the ones its free policy allows,
\* for every tree and every number of repetitions.
THEOREM MappingsAlwaysAsFreed == Spec => []MappingsAsFreed
<1>1. IInv => MappingsAsFreed
  <2> SUFFICES ASSUME IInv, NEW n \in Nodes, prog[n].kind = "mem_alloc"
               PROVE  LET ran == MapThenSumSet(LAMBDA k : stack[k].i, Calls(n))
                          open == Cardinality({k \in Calls(n) : stack[k].stage = "teardown"})
                      IN  held[n] = CASE prog[n].free_policy = "keep" -> Completed(n) + open
                                      [] prog[n].free_policy = "every_period" -> open
                                      [] prog[n].free_policy = "last_period" ->
                                           IF ran = prog[n].repeat THEN 0 ELSE ran + open
    BY DEF MappingsAsFreed
  <2> DEFINE p == prog[n]
             r == rounds[n]
             ran == MapThenSumSet(LAMBDA k : stack[k].i, Calls(n))
             open == Cardinality({k \in Calls(n) : stack[k].stage = "teardown"})
             c == Cardinality(Calls(n))
  <2>1. p \in NodeRecords /\ r \in Nat
    BY ProgramNodes DEF IInv, Typed
  <2>2. p.repeat \in Nat /\ p.free_policy \in {"keep", "every_period", "last_period"}
    BY <2>1 DEF NodeRecords
  <2>3. Completed(n) = (r - c) * p.repeat + ran
    BY DEF Completed
  <2>4. CASE Calls(n) = {} /\ Idle(p, gen[n], r, items[n], held[n])
    <3>1. ran = 0
      BY <2>4, RanOf
    <3>2. c = 0 /\ open = 0
      <4>1. {k \in Calls(n) : stack[k].stage = "teardown"} = {}
        BY <2>4
      <4> QED
        BY <2>4, <4>1, FS_EmptySet
    <3> HIDE DEF ran, open, c, r, p
    <3>3. Completed(n) = r * p.repeat /\ r * p.repeat \in Nat
      BY <2>1, <2>2, <2>3, <3>1, <3>2
    <3>4. held[n] = CASE p.free_policy = "keep" -> Completed(n) + open
                      [] p.free_policy = "every_period" -> open
                      [] p.free_policy = "last_period" ->
                           IF ran = p.repeat THEN 0 ELSE ran + open
      BY <2>2, <2>4, <3>1, <3>2, <3>3 DEF Idle, p
    <3> QED
      BY <3>4 DEF p, ran, open
  <2>5. ASSUME NEW k \in DOMAIN stack, Calls(n) = {k}, stack[k] \in Frames,
               Busy(p, stack[k].i, stack[k].stage, stack[k].item, gen[n], r, items[n], held[n])
        PROVE  held[n] = CASE p.free_policy = "keep" -> Completed(n) + open
                           [] p.free_policy = "every_period" -> open
                           [] p.free_policy = "last_period" ->
                                IF ran = p.repeat THEN 0 ELSE ran + open
    <3> DEFINE i == stack[k].i
               stage == stack[k].stage
    <3>1. i \in Nat
      BY <2>5 DEF Frames
    <3>2. ran = i
      BY <2>5, <3>1, RanOf
    <3>3. c = 1
      BY <2>5, FS_Singleton
    <3>4. open = IF stage = "teardown" THEN 1 ELSE 0
      <4>1. CASE stage = "teardown"
        <5>1. {j \in Calls(n) : stack[j].stage = "teardown"} = {k}
          BY <2>5, <4>1
        <5> QED
          BY <4>1, <5>1, FS_Singleton
      <4>2. CASE stage # "teardown"
        <5>1. {j \in Calls(n) : stack[j].stage = "teardown"} = {}
          BY <2>5, <4>2
        <5> QED
          BY <4>2, <5>1, FS_EmptySet
      <4> QED
        BY <4>1, <4>2
    <3> HIDE DEF ran, open, c, r, p, i, stage
    <3>5. Busy(p, i, stage, stack[k].item, gen[n], r, items[n], held[n])
      BY <2>5 DEF i, stage
    <3>6. (r - 1) * p.repeat \in Nat
      BY <2>1, <2>2, <3>5, Product DEF Busy
    <3>7. Completed(n) = (r - 1) * p.repeat + i
      BY <2>3, <3>2, <3>3
    <3> QED
      BY <2>2, <3>1, <3>2, <3>4, <3>5, <3>6, <3>7 DEF Busy, p
  <2> QED
    BY <2>4, <2>5, AtMostOneCall
<1> QED
  BY <1>1, Invariance, PTL

-----------------------------------------------------------------------------
(* The slices of the trace *)

MemAllocs == {n \in Nodes : prog[n].kind = "mem_alloc"}

\* The slices that a mem_alloc has left open.
Unended == MapThenSumSet(Completed, MemAllocs)

\* A tree has finitely many mem_allocs.
LEMMA MemAllocsFinite == IInv => IsFiniteSet(MemAllocs)
<1> SUFFICES ASSUME IInv PROVE IsFiniteSet(MemAllocs)
  OBVIOUS
<1>1. Len(prog) \in Nat /\ Nodes = 1 .. Len(prog)
  BY ProgramNodes DEF IInv
<1>2. IsFiniteSet(1 .. Len(prog))
  BY <1>1, FS_Interval
<1>3. MemAllocs \in SUBSET (1 .. Len(prog))
  BY <1>1 DEF MemAllocs
<1> QED
  BY <1>2, <1>3, FS_Subset

\* They are a sum of the kind described above.
UnendedIsSum ==
  \E f : Sums(f, [n \in MemAllocs |-> Completed(n)], MemAllocs) /\ Unended = f[MemAllocs]

\* The repetitions that leave a slice open, as a recursive sum.
LEMMA CompletedSums == IInv => UnendedIsSum
<1> SUFFICES ASSUME IInv
             PROVE  \E f : /\ Sums(f, [n \in MemAllocs |-> Completed(n)], MemAllocs)
                           /\ Unended = f[MemAllocs]
  BY DEF UnendedIsSum
<1> DEFINE S == MemAllocs
           F == [n \in S |-> Completed(n)]
           Rec(g) == g = [s \in SUBSET S |-> IF s = {} THEN 0
                            ELSE LET x == CHOOSE x \in s : TRUE IN Completed(x) + g[s \ {x}]]
           f == CHOOSE g : Rec(g)
<1>1. Unended = f[S]
  BY DEF Unended, MapThenSumSet, MapThenFoldSet
<1>2. ASSUME NEW g PROVE Sums(g, F, S) <=> Rec(g)
  <2>1. ASSUME NEW s \in SUBSET S, s # {} PROVE F[Pick(s)] = Completed(CHOOSE x \in s : TRUE)
    <3>1. Pick(s) \in s
      BY <2>1 DEF Pick
    <3> QED
      BY <3>1 DEF Pick
  <2>2. [s \in SUBSET S |-> IF s = {} THEN 0 ELSE F[Pick(s)] + g[s \ {Pick(s)}]]
          = [s \in SUBSET S |-> IF s = {} THEN 0
               ELSE LET x == CHOOSE x \in s : TRUE IN Completed(x) + g[s \ {x}]]
    <3> HIDE DEF F, S
    <3> QED
      BY <2>1 DEF Pick
  <2> QED
    BY <2>2 DEF Sums
<1>3. \E g : Rec(g)
  <2>1. \E g : Sums(g, F, S)
    BY MemAllocsFinite, SumsExist
  <2> HIDE DEF Rec
  <2> QED
    BY <1>2, <2>1
<1>4. Rec(f)
  <2> HIDE DEF Rec
  <2> QED
    BY <1>3, Zenon
<1>5. Sums(f, F, S)
  <2> HIDE DEF Rec, f, F
  <2> QED
    BY <1>2, <1>4
<1> HIDE DEF f
<1> QED
  BY <1>1, <1>5

\* The repetitions an instruction has completed, whether it is idle or not.
CompletedIs(n) ==
  \/ Calls(n) = {} /\ Completed(n) = rounds[n] * prog[n].repeat
  \/ \E k \in DOMAIN stack :
       /\ Calls(n) = {k} /\ rounds[n] >= 1
       /\ Completed(n) = (rounds[n] - 1) * prog[n].repeat + stack[k].i

CompletedKnown == \A n \in Nodes : CompletedIs(n)

\* The repetitions an instruction has completed, from its own state.
LEMMA CompletedOf == IInv => CompletedKnown
<1> SUFFICES ASSUME IInv, NEW n \in Nodes
             PROVE  \/ Calls(n) = {} /\ Completed(n) = rounds[n] * prog[n].repeat
                    \/ \E k \in DOMAIN stack :
                         /\ Calls(n) = {k} /\ rounds[n] >= 1
                         /\ Completed(n) = (rounds[n] - 1) * prog[n].repeat + stack[k].i
  BY DEF CompletedKnown, CompletedIs
<1> DEFINE ran == MapThenSumSet(LAMBDA k : stack[k].i, Calls(n))
           c == Cardinality(Calls(n))
<1>1. prog[n].repeat \in Nat /\ rounds[n] \in Nat
  BY ProgramNodes DEF IInv, Typed, NodeRecords
<1>2. Completed(n) = (rounds[n] - c) * prog[n].repeat + ran
  BY DEF Completed
<1>3. CASE Calls(n) = {}
  <2>1. ran = 0
    BY <1>3, RanOf
  <2>2. c = 0
    BY <1>3, FS_EmptySet
  <2> HIDE DEF ran, c
  <2>3. Completed(n) = rounds[n] * prog[n].repeat
    BY <1>1, <1>2, <2>1, <2>2
  <2> QED
    BY <1>3, <2>3
<1>4. ASSUME NEW k \in DOMAIN stack, Calls(n) = {k}, stack[k] \in Frames,
             Busy(prog[n], stack[k].i, stack[k].stage, stack[k].item,
                  gen[n], rounds[n], items[n], held[n])
      PROVE  /\ Calls(n) = {k} /\ rounds[n] >= 1
             /\ Completed(n) = (rounds[n] - 1) * prog[n].repeat + stack[k].i
  <2>1. stack[k].i \in Nat
    BY <1>4 DEF Frames
  <2>2. ran = stack[k].i
    BY <1>4, <2>1, RanOf
  <2>3. c = 1
    BY <1>4, FS_Singleton
  <2> HIDE DEF ran, c
  <2> QED
    BY <1>2, <1>4, <2>2, <2>3 DEF Busy
<1> QED
  BY <1>3, <1>4, AtMostOneCall

\* They are a natural number.
LEMMA CompletedNat == IInv => \A n \in Nodes : Completed(n) \in Nat
<1> SUFFICES ASSUME IInv, NEW n \in Nodes PROVE Completed(n) \in Nat
  OBVIOUS
<1>1. prog[n].repeat \in Nat /\ rounds[n] \in Nat
  BY ProgramNodes DEF IInv, Typed, NodeRecords
<1>2. rounds[n] * prog[n].repeat \in Nat
  BY <1>1, Product
<1>3. \A k \in DOMAIN stack : stack[k].i \in Nat
  <2> SUFFICES ASSUME NEW k \in DOMAIN stack PROVE stack[k].i \in Nat
    OBVIOUS
  <2>1. stack[k] \in Frames
    BY DEF IInv, Typed
  <2> QED
    BY <2>1 DEF Frames
<1>4. rounds[n] >= 1 => (rounds[n] - 1) * prog[n].repeat \in Nat
  BY <1>1, Product
<1> QED
  BY <1>2, <1>3, <1>4, CompletedOf DEF CompletedKnown, CompletedIs

\* The slices left open, after a step that completes d repetitions of x.
LEMMA UnendedStep ==
  ASSUME IInv, IInv', prog' = prog, NEW x, NEW d \in Nat,
         \A n \in Nodes : Completed(n)' = IF n = x THEN Completed(n) + d ELSE Completed(n)
  PROVE  Unended \in Nat /\ Unended' = Unended + (IF x \in MemAllocs THEN d ELSE 0)
<1> DEFINE S == MemAllocs
           F == [n \in S |-> Completed(n)]
           G == [n \in S |-> Completed(n)']
<1>1. S' = S /\ S \in SUBSET Nodes /\ Nodes' = Nodes
  BY DEF MemAllocs, Nodes
<1>2. IsFiniteSet(S)
  BY MemAllocsFinite
<1>3. \A n \in Nodes : Completed(n) \in Nat
  BY CompletedNat
<1>4. \A n \in Nodes : Completed(n)' \in Nat
  <2> SUFFICES ASSUME NEW n \in Nodes PROVE Completed(n)' \in Nat
    OBVIOUS
  <2>1. Completed(n) \in Nat /\ Completed(n)' = IF n = x THEN Completed(n) + d ELSE Completed(n)
    BY <1>3
  <2> QED
    BY <2>1
<1>5. F \in [S -> Nat] /\ G \in [S -> Nat]
  BY <1>1, <1>3, <1>4
<1>6. \A y \in S : G[y] = IF y = x THEN F[y] + d ELSE F[y]
  BY <1>1
<1>7. PICK f : Sums(f, F, S) /\ Unended = f[S]
  BY CompletedSums DEF UnendedIsSum
<1>8. UnendedIsSum'
  BY CompletedSums, PTL
<1>9. PICK g : Sums(g, G, S) /\ Unended' = g[S]
  BY <1>1, <1>8, ZenonT(60) DEF Sums, UnendedIsSum
<1> HIDE DEF F, G, S
<1>10. f[S] \in Nat /\ g[S] = f[S] + (IF x \in S THEN d ELSE 0)
  BY <1>2, <1>5, <1>6, <1>7, <1>9, SumsGrow, SMTT(40)
<1> QED
  BY <1>7, <1>9, <1>10 DEF S

\* A step after which the call x has done d more repetitions and the others
\* as many as before.
LEMMA RepetitionsStep ==
  ASSUME IInv, IInv', prog' = prog, rounds' = rounds, DOMAIN stack' = DOMAIN stack,
         NEW x \in DOMAIN stack, NEW d \in Nat,
         \A k \in DOMAIN stack :
           /\ stack'[k].node = stack[k].node
           /\ stack'[k].i = IF k = x THEN stack[k].i + d ELSE stack[k].i
  PROVE  /\ Unended \in Nat
         /\ Unended' = Unended + (IF stack[x].node \in MemAllocs THEN d ELSE 0)
<1> SUFFICES ASSUME NEW n \in Nodes
             PROVE  Completed(n)' = IF n = stack[x].node THEN Completed(n) + d ELSE Completed(n)
  BY UnendedStep
<1>1. Calls(n)' = Calls(n)
  BY DEF Calls
<1>2. CompletedIs(n)
  BY CompletedOf DEF CompletedKnown
<1>3. CompletedIs(n)'
  <2>1. CompletedKnown'
    BY CompletedOf, PTL
  <2> QED
    BY <2>1 DEF CompletedKnown, Nodes
<1>4. x \in Calls(stack[x].node)
  BY DEF Calls
<1>5. CASE Calls(n) = {}
  <2>1. n # stack[x].node
    BY <1>4, <1>5
  <2> QED
    BY <1>1, <1>2, <1>3, <1>5, <2>1 DEF CompletedIs
<1>6. CASE Calls(n) # {}
  <2>1. PICK k \in DOMAIN stack :
          Calls(n) = {k} /\ Completed(n) = (rounds[n] - 1) * prog[n].repeat + stack[k].i
    BY <1>2, <1>6 DEF CompletedIs
  <2>2. PICK j \in DOMAIN stack :
          Calls(n) = {j} /\ Completed(n)' = (rounds[n] - 1) * prog[n].repeat + stack'[j].i
    BY <1>1, <1>3, <1>6 DEF CompletedIs
  <2>3. j = k /\ stack[k].node = n
    BY <2>1, <2>2 DEF Calls
  <2>4. n = stack[x].node <=> k = x
    BY <1>4, <2>1, <2>3 DEF Calls
  <2>5. rounds[n] \in Nat /\ prog[n].repeat \in Nat /\ stack[k].i \in Nat
    <3>1. stack[k] \in Frames
      BY DEF IInv, Typed
    <3> QED
      BY <3>1, ProgramNodes DEF IInv, Typed, NodeRecords, Frames
  <2> DEFINE m == (rounds[n] - 1) * prog[n].repeat
  <2>6. m \in Int
    BY <2>5
  <2> HIDE DEF m
  <2>7. Completed(n) = m + stack[k].i /\ Completed(n)' = m + stack'[k].i
    BY <2>1, <2>2, <2>3 DEF m
  <2>8. CASE k = x
    BY <2>4, <2>5, <2>6, <2>7, <2>8
  <2>9. CASE k # x
    BY <2>4, <2>5, <2>6, <2>7, <2>9
  <2> QED
    BY <2>8, <2>9
<1> QED
  BY <1>5, <1>6

\* The number of calls that are inside a repetition: all but the innermost
\* certainly are.
Depth ==
  IF stack = <<>> THEN 0 ELSE IF top.stage = "loop" THEN Len(stack) - 1 ELSE Len(stack)

\* The strengthening of SlicesMatch.
SlicesKnown ==
  /\ slices \in Seq(Nat)
  /\ \A k \in DOMAIN stack : k < Len(stack) => stack[k].stage = "instructions"
  /\ Len(slices) = Depth + Unended
  /\ Unended = 0 => \A k \in 1 .. Depth : slices[k] = stack[k].node

\* The repetitions in progress are at most the calls in progress.
LEMMA DepthRange ==
  IInv => Depth \in Nat /\ Len(stack) \in Nat /\ DOMAIN stack = 1 .. Len(stack) /\ Depth <= Len(stack)
<1> SUFFICES ASSUME IInv
             PROVE  /\ Depth \in Nat /\ Len(stack) \in Nat /\ DOMAIN stack = 1 .. Len(stack)
                    /\ Depth <= Len(stack)
  OBVIOUS
<1>1. Len(stack) \in Nat /\ DOMAIN stack = 1 .. Len(stack) /\ (stack # <<>> => Len(stack) > 0)
  BY DEF IInv, Typed
<1> QED
  BY <1>1 DEF Depth

\* A step that leaves the slices and the calls inside a repetition alone.
LEMMA SlicesKept ==
  ASSUME IInv, IInv', SlicesKnown, slices' = slices, Unended' = Unended, Depth' = Depth,
         \A k \in 1 .. Depth : stack'[k].node = stack[k].node,
         \A k \in DOMAIN stack' : k < Len(stack') => stack'[k].stage = "instructions"
  PROVE  SlicesKnown'
BY DEF SlicesKnown

\* A step inside a repetition.
LEMMA SlicesInside ==
  ASSUME IInv, IInv', SlicesKnown, prog' = prog, rounds' = rounds, slices' = slices,
         stack # <<>>, Len(stack') = Len(stack),
         top.stage # "loop", stack'[Len(stack)].stage # "loop",
         \A k \in 1 .. Len(stack) : stack'[k].node = stack[k].node /\ stack'[k].i = stack[k].i,
         \A k \in 1 .. Len(stack) - 1 : stack'[k].stage = stack[k].stage
  PROVE  SlicesKnown'
<1> DEFINE l == Len(stack)
<1>1. l \in Nat \ {0} /\ DOMAIN stack = 1 .. l
  BY StackTop DEF IInv
<1>2. stack' \in Seq(Frames) /\ DOMAIN stack' = 1 .. l /\ stack' # <<>>
  BY <1>1 DEF IInv, Typed
<1>3. Depth = l /\ Depth' = l
  <2>1. top' = stack'[l]
    BY DEF top, Last
  <2> QED
    BY <1>2, <2>1 DEF Depth
<1>4. Unended' = Unended
  <2>1. l \in DOMAIN stack
    BY <1>1
  <2>2. \A k \in DOMAIN stack :
          /\ stack'[k].node = stack[k].node
          /\ stack'[k].i = IF k = l THEN stack[k].i + 0 ELSE stack[k].i
    <3> SUFFICES ASSUME NEW k \in DOMAIN stack
                 PROVE  stack'[k].node = stack[k].node /\ stack'[k].i = stack[k].i
                        /\ stack[k].i + 0 = stack[k].i
      OBVIOUS
    <3>1. stack[k] \in Frames
      BY DEF IInv, Typed
    <3>2. stack[k].i + 0 = stack[k].i
      BY <3>1 DEF Frames
    <3> QED
      BY <1>1, <3>2
  <2>3. DOMAIN stack' = DOMAIN stack /\ 0 \in Nat
    BY <1>1, <1>2
  <2> HIDE DEF l
  <2>4. /\ Unended \in Nat
        /\ Unended' = Unended + (IF stack[l].node \in MemAllocs THEN 0 ELSE 0)
    BY <2>1, <2>2, <2>3, RepetitionsStep
  <2> QED
    BY <2>4
<1>5. \A k \in DOMAIN stack' : k < Len(stack') => stack'[k].stage = "instructions"
  <2> SUFFICES ASSUME NEW k \in 1 .. l, k < l PROVE stack'[k].stage = "instructions"
    BY <1>2
  <2>1. k \in 1 .. l - 1
    <3> HIDE DEF l
    <3> QED
      BY <1>1
  <2> QED
    BY <1>1, <2>1 DEF SlicesKnown
<1> QED
  BY <1>3, <1>4, <1>5, SlicesKept

\* A leaf begins and ends no slice while it runs.
LEMMA SlicesRunSingle ==
  ASSUME IInv, IInv', SlicesKnown, NEW d \in Durations, RunSingle(d)
  PROVE  SlicesKnown'
<1> DEFINE l == Len(stack)
<1>1. stack # <<>> /\ top.stage = "run" /\ prog' = prog /\ rounds' = rounds /\ slices' = slices
  BY DEF RunSingle, At
<1>2. l \in Nat \ {0} /\ DOMAIN stack = 1 .. l /\ stack \in Seq(Frames)
  BY <1>1, StackTop DEF IInv, Typed
<1>3. stack' = [k \in 1 .. l |->
                  [stack[k] EXCEPT !.elapsed = @ + d,
                                   !.stage = IF k = l THEN "teardown" ELSE @]]
  BY <1>2 DEF RunSingle
<1>4. ASSUME NEW k \in 1 .. l
      PROVE  /\ stack'[k].node = stack[k].node /\ stack'[k].i = stack[k].i
             /\ stack'[k].stage = IF k = l THEN "teardown" ELSE stack[k].stage
  <2>1. stack[k] \in Frames
    BY <1>2
  <2> QED
    BY <1>3, <2>1 DEF Frames
<1>5. Len(stack') = l
  <2>1. DOMAIN stack' = 1 .. l /\ stack' \in Seq(Frames)
    BY <1>3 DEF IInv, Typed
  <2>2. DOMAIN stack' = 1 .. Len(stack') /\ Len(stack') \in Nat
    BY <2>1
  <2> HIDE DEF l
  <2> QED
    BY <1>2, <2>1, <2>2
<1>6. l \in 1 .. l /\ \A k \in 1 .. l - 1 : k \in 1 .. l /\ k # l
  <2> HIDE DEF l
  <2> QED
    BY <1>2
<1>7. stack'[l].stage = "teardown" /\ \A k \in 1 .. l - 1 : stack'[k].stage = stack[k].stage
  BY <1>4, <1>6
<1> QED
  BY <1>1, <1>4, <1>5, <1>7, SlicesInside

\* Nor does a set between the calls of its instructions.
LEMMA SlicesInsideSet ==
  ASSUME IInv, IInv', SlicesKnown, RunOnce \/ NextItem \/ EndOfList \/ EndInstructions
  PROVE  SlicesKnown'
<1> DEFINE l == Len(stack)
<1>1. /\ stack # <<>> /\ top.stage # "loop"
      /\ prog' = prog /\ rounds' = rounds /\ slices' = slices
  BY DEF RunOnce, NextItem, EndOfList, EndInstructions, At
<1>2. l \in Nat \ {0} /\ top \in Frames /\ top = stack[l]
  BY <1>1, StackTop DEF IInv
<1>3. \E f : stack' = Continue(f) /\ f.node = top.node /\ f.i = top.i /\ f.stage # "loop"
  <2>1. CASE RunOnce
    <3> DEFINE f == [top EXCEPT !.stage = "instructions", !.next = 1]
    <3>1. stack' = Continue(f) /\ f.node = top.node /\ f.i = top.i /\ f.stage # "loop"
      BY <1>2, <2>1 DEF RunOnce, Frames
    <3> QED
      BY <3>1
  <2>2. CASE NextItem
    <3> DEFINE f == [top EXCEPT !.stage = "instructions", !.item = @ + 1, !.next = 1]
    <3>1. stack' = Continue(f) /\ f.node = top.node /\ f.i = top.i /\ f.stage # "loop"
      BY <1>2, <2>2 DEF NextItem, Frames
    <3> QED
      BY <3>1
  <2>3. CASE EndOfList
    <3> DEFINE f == [top EXCEPT !.stage = "teardown"]
    <3>1. stack' = Continue(f) /\ f.node = top.node /\ f.i = top.i /\ f.stage # "loop"
      BY <1>2, <2>3 DEF EndOfList, Frames
    <3> QED
      BY <3>1
  <2>4. CASE EndInstructions
    <3> DEFINE f == [top EXCEPT !.stage = IF node.kind = "iterate" THEN "run" ELSE "teardown"]
    <3>1. stack' = Continue(f) /\ f.node = top.node /\ f.i = top.i /\ f.stage # "loop"
      BY <1>2, <2>4 DEF EndInstructions, Frames
    <3> QED
      BY <3>1
  <2> QED
    BY <2>1, <2>2, <2>3, <2>4
<1>4. PICK f : stack' = Continue(f) /\ f.node = top.node /\ f.i = top.i /\ f.stage # "loop"
  BY <1>3
<1>5. /\ Len(stack') = l /\ stack'[l] = f
      /\ \A k \in 1 .. l - 1 : stack'[k] = stack[k]
  <2> DEFINE U == Frames \cup {f}
             rest == Front(stack)
  <2>1. /\ rest \in Seq(Frames) /\ Len(rest) = l - 1
        /\ \A k \in 1 .. l - 1 : rest[k] = stack[k]
    BY <1>1, Popped DEF IInv
  <2> HIDE DEF rest
  <2>2. rest \in Seq(U) /\ f \in U
    BY <2>1
  <2>3. stack' = Append(rest, f)
    BY <1>4 DEF Continue, rest
  <2> HIDE DEF U
  <2> QED
    BY <1>2, <2>1, <2>2, <2>3
<1>6. \A k \in 1 .. l : k = l \/ k \in 1 .. l - 1
  <2> HIDE DEF l
  <2> QED
    BY <1>2
<1>7. \A k \in 1 .. l : stack'[k].node = stack[k].node /\ stack'[k].i = stack[k].i
  BY <1>2, <1>4, <1>5, <1>6
<1> QED
  BY <1>1, <1>4, <1>5, <1>7, SlicesInside

\* The start of a repetition begins a slice ...
LEMMA SlicesSetUpSingle ==
  ASSUME IInv, IInv', SlicesKnown, SetUpSingle
  PROVE  SlicesKnown'
<1> DEFINE l == Len(stack)
           f == [top EXCEPT !.stage = "run", !.elapsed = 0, !.item = 0]
<1>1. /\ stack # <<>> /\ top.stage = "loop" /\ stack' = Continue(f)
      /\ prog' = prog /\ rounds' = rounds /\ slices' = Append(slices, top.node)
  BY DEF SetUpSingle, At, TracerStart
<1>2. l \in Nat \ {0} /\ DOMAIN stack = 1 .. l /\ top \in Frames /\ top = stack[l]
  BY <1>1, StackTop DEF IInv
<1>3. f \in Frames /\ f.node = top.node /\ f.i = top.i /\ f.stage = "run"
  BY <1>2 DEF Frames
<1> HIDE DEF f
<1>4. /\ Len(stack') = l /\ stack'[l] = f /\ stack' \in Seq(Frames)
      /\ \A k \in 1 .. l - 1 : stack'[k] = stack[k]
  BY <1>1, <1>3, Replaced, SMTT(40) DEF IInv
<1>5. DOMAIN stack' = 1 .. l /\ stack' # <<>> /\ top' = f
  BY <1>2, <1>4 DEF top, Last
<1>6. Depth = l - 1 /\ Depth' = l
  BY <1>1, <1>3, <1>4, <1>5 DEF Depth
<1>7. \A k \in 1 .. l : k = l \/ k \in 1 .. l - 1
  <2> HIDE DEF l
  <2> QED
    BY <1>2, SMTT(40)
<1>8. \A k \in 1 .. l : stack'[k].node = stack[k].node /\ stack'[k].i = stack[k].i
  BY <1>2, <1>3, <1>4, <1>7
<1>9. Unended \in Nat /\ Unended' = Unended
  <2>1. l \in DOMAIN stack /\ DOMAIN stack' = DOMAIN stack /\ 0 \in Nat
    BY <1>2, <1>5
  <2>2. \A k \in DOMAIN stack : stack[k].i + 0 = stack[k].i
    <3> SUFFICES ASSUME NEW k \in DOMAIN stack PROVE stack[k].i + 0 = stack[k].i
      OBVIOUS
    <3>1. stack[k] \in Frames
      BY DEF IInv, Typed
    <3> QED
      BY <3>1 DEF Frames
  <2>3. \A k \in DOMAIN stack :
          /\ stack'[k].node = stack[k].node
          /\ stack'[k].i = IF k = l THEN stack[k].i + 0 ELSE stack[k].i
    BY <1>2, <1>8, <2>2
  <2> HIDE DEF l
  <2>4. /\ Unended \in Nat
        /\ Unended' = Unended + (IF stack[l].node \in MemAllocs THEN 0 ELSE 0)
    BY <1>1, <2>1, <2>3, RepetitionsStep
  <2> QED
    BY <2>4
<1>10. /\ slices \in Seq(Nat) /\ Len(slices) = l - 1 + Unended
       /\ Unended = 0 => \A k \in 1 .. l - 1 : slices[k] = stack[k].node
  BY <1>6 DEF SlicesKnown
<1>11. top.node \in Nat
  BY <1>2 DEF Frames
<1>12. /\ slices' \in Seq(Nat) /\ Len(slices') = Len(slices) + 1
       /\ slices'[Len(slices) + 1] = top.node
       /\ \A k \in 1 .. Len(slices) : slices'[k] = slices[k]
  BY <1>1, <1>10, <1>11
<1>13. Len(slices') = Depth' + Unended'
  <2> HIDE DEF l
  <2> QED
    BY <1>2, <1>6, <1>9, <1>10, <1>12
<1>14. ASSUME Unended' = 0, NEW k \in 1 .. l PROVE slices'[k] = stack'[k].node
  <2>1. Len(slices) = l - 1
    <3> HIDE DEF l
    <3> QED
      BY <1>2, <1>9, <1>10, <1>14
  <2>2. CASE k = l
    <3>1. k = Len(slices) + 1
      <4> HIDE DEF l
      <4> QED
        BY <1>2, <2>1, <2>2
    <3> QED
      BY <1>2, <1>8, <1>12, <2>2, <3>1
  <2>3. CASE k \in 1 .. l - 1
    BY <1>8, <1>9, <1>10, <1>12, <1>14, <2>1, <2>3
  <2> QED
    BY <1>7, <2>2, <2>3
<1>15. \A k \in DOMAIN stack' : k < Len(stack') => stack'[k].stage = "instructions"
  <2> SUFFICES ASSUME NEW k \in 1 .. l, k < l PROVE stack'[k].stage = "instructions"
    BY <1>4, <1>5
  <2>1. k \in 1 .. l - 1
    <3> HIDE DEF l
    <3> QED
      BY <1>2
  <2> QED
    BY <1>2, <1>4, <2>1 DEF SlicesKnown
<1> QED
  BY <1>6, <1>12, <1>13, <1>14, <1>15 DEF SlicesKnown

\* ... and its end ends the innermost one, unless it is that of a mem_alloc.
LEMMA SlicesTearDownSingle ==
  ASSUME IInv, IInv', SlicesKnown, TearDownSingle
  PROVE  SlicesKnown'
<1> DEFINE l == Len(stack)
           up == top.i + 1
           f == [top EXCEPT !.stage = "loop", !.i = up]
           d == IF top.node \in MemAllocs THEN 1 ELSE 0
<1>1. /\ stack # <<>> /\ top.stage = "teardown" /\ stack' = Continue(f)
      /\ prog' = prog /\ rounds' = rounds
  BY DEF TearDownSingle, At
<1>2. l \in Nat \ {0} /\ DOMAIN stack = 1 .. l /\ top \in Frames /\ top = stack[l]
      /\ top.node \in Nodes
  BY <1>1, StackTop DEF IInv
<1>3. f \in Frames /\ f.node = top.node /\ f.i = top.i + 1 /\ f.stage = "loop"
  <2>1. up \in Nat
    BY <1>2 DEF Frames
  <2> HIDE DEF up
  <2>2. f \in Frames /\ f.node = top.node /\ f.i = up /\ f.stage = "loop"
    BY <1>2, <2>1 DEF Frames
  <2> QED
    BY <2>2 DEF up
<1> HIDE DEF f
<1>4. /\ Len(stack') = l /\ stack'[l] = f /\ stack' \in Seq(Frames)
      /\ \A k \in 1 .. l - 1 : stack'[k] = stack[k]
  BY <1>1, <1>3, Replaced DEF IInv
<1>5. DOMAIN stack' = 1 .. l /\ stack' # <<>> /\ top' = f
  BY <1>2, <1>4 DEF top, Last
<1>6. Depth = l /\ Depth' = l - 1
  BY <1>1, <1>3, <1>4, <1>5 DEF Depth
<1>7. \A k \in 1 .. l : k # l => k \in 1 .. l - 1
  <2> HIDE DEF l
  <2> QED
    BY <1>2
<1>8. Unended \in Nat /\ Unended' = Unended + d
  <2>1. l \in DOMAIN stack /\ DOMAIN stack' = DOMAIN stack /\ 1 \in Nat
    BY <1>2, <1>5, SMTT(40)
  <2>2. \A k \in DOMAIN stack :
          /\ stack'[k].node = stack[k].node
          /\ stack'[k].i = IF k = l THEN stack[k].i + 1 ELSE stack[k].i
    BY <1>2, <1>3, <1>4, <1>7
  <2> HIDE DEF l
  <2>3. /\ Unended \in Nat
        /\ Unended' = Unended + (IF stack[l].node \in MemAllocs THEN 1 ELSE 0)
    BY <1>1, <2>1, <2>2, RepetitionsStep
  <2> QED
    BY <1>2, <2>3
<1>9. /\ slices \in Seq(Nat) /\ Len(slices) = l + Unended
      /\ Unended = 0 => \A k \in 1 .. l : slices[k] = stack[k].node
  BY <1>6 DEF SlicesKnown
<1>10. \A k \in DOMAIN stack' : k < Len(stack') => stack'[k].stage = "instructions"
  <2> SUFFICES ASSUME NEW k \in 1 .. l, k < l PROVE stack'[k].stage = "instructions"
    BY <1>4, <1>5
  <2>1. k \in 1 .. l - 1
    <3> HIDE DEF l
    <3> QED
      BY <1>2
  <2> QED
    BY <1>2, <1>4, <2>1 DEF SlicesKnown
<1>11. CASE node.kind = "mem_alloc"
  <2>1. slices' = slices /\ d = 1
    BY <1>2, <1>11 DEF TearDownSingle, MemAllocs, node
  <2>2. Unended' = Unended + 1
    BY <1>8, <2>1
  <2> HIDE DEF l, d
  <2>3. Len(slices') = Depth' + Unended' /\ Unended' # 0
    BY <1>2, <1>6, <1>8, <1>9, <2>1, <2>2
  <2> QED
    BY <1>9, <1>10, <2>1, <2>3 DEF SlicesKnown
<1>12. CASE node.kind # "mem_alloc"
  <2>1. slices' = SubSeq(slices, 1, Len(slices) - 1) /\ d = 0
    BY <1>2, <1>12 DEF TearDownSingle, TracerEnd, Front, MemAllocs, node
  <2>2. Unended' = Unended
    BY <1>8, <2>1
  <2> DEFINE m == Len(slices) - 1
  <2>3. m \in Nat /\ m = l - 1 + Unended
    <3> HIDE DEF l
    <3> QED
      BY <1>2, <1>8, <1>9
  <2>4. /\ slices' \in Seq(Nat) /\ Len(slices') = m
        /\ \A k \in 1 .. m : slices'[k] = slices[k]
    <3>1. 1 \in Int /\ m \in Int /\ m - 1 + 1 = m
      BY <2>3
    <3>2. \A k \in 1 .. m : slices[k] \in Nat
      BY <1>9
    <3> HIDE DEF m, d
    <3>3. /\ SubSeq(slices, 1, m) \in Seq(Nat)
          /\ Len(SubSeq(slices, 1, m)) = IF 1 <= m THEN m - 1 + 1 ELSE 0
          /\ \A k \in 1 .. m - 1 + 1 : SubSeq(slices, 1, m)[k] = slices[1 + k - 1]
      BY <3>1, <3>2, SubSeqProperties
    <3>4. Len(SubSeq(slices, 1, m)) = m /\ \A k \in 1 .. m : 1 + k - 1 = k
      BY <2>3, <3>1, <3>3
    <3>5. \A k \in 1 .. m : SubSeq(slices, 1, m)[k] = slices[k]
      BY <3>1, <3>3, <3>4
    <3> QED
      BY <2>1, <3>3, <3>4, <3>5 DEF m
  <2> HIDE DEF l, d, m
  <2>5. Len(slices') = Depth' + Unended'
    BY <1>6, <2>2, <2>3, <2>4
  <2>6. ASSUME Unended' = 0, NEW k \in 1 .. l - 1 PROVE slices'[k] = stack'[k].node
    <3>1. k \in 1 .. m /\ k \in 1 .. l
      BY <1>2, <1>8, <2>2, <2>3, <2>6
    <3> QED
      BY <1>4, <1>9, <2>2, <2>4, <2>6, <3>1
  <2> QED
    BY <1>6, <1>10, <2>4, <2>5, <2>6 DEF SlicesKnown
<1> QED
  BY <1>11, <1>12

\* A call begins in its loop, outside any slice of its own.
LEMMA SlicesCall ==
  ASSUME IInv, IInv', SlicesKnown, CallInstruction
  PROVE  SlicesKnown'
<1> DEFINE l == Len(stack)
           kid == node.kids[top.next]
           up == top.next + 1
           f == [top EXCEPT !.next = up]
<1>1. /\ stack # <<>> /\ top.stage = "instructions" /\ top.next <= Len(node.kids)
      /\ stack' = Append(Continue(f), Frame(kid))
      /\ prog' = prog /\ slices' = slices /\ rounds' = [rounds EXCEPT ![kid] = @ + 1]
  BY DEF CallInstruction, At
<1>2. /\ l \in Nat \ {0} /\ DOMAIN stack = 1 .. l /\ top \in Frames /\ top = stack[l]
      /\ top.node \in Nodes /\ node \in NodeRecords
  BY <1>1, StackTop DEF IInv
<1>3. /\ f \in Frames /\ f.node = top.node /\ f.i = top.i /\ f.stage = "instructions"
  <2>1. up \in Nat \ {0}
    BY <1>2 DEF Frames
  <2> HIDE DEF up
  <2> QED
    BY <1>1, <1>2, <2>1 DEF Frames
<1>4. kid \in Nodes /\ kid \in Nat
  <2>1. top.next \in DOMAIN node.kids
    BY <1>1, <1>2 DEF Frames, NodeRecords
  <2> QED
    BY <1>2, <2>1, ProgramNodes DEF node, IInv
<1>5. Frame(kid) \in Frames
  BY <1>4 DEF Frame, Frames
<1> HIDE DEF f
<1>6. /\ Continue(f) \in Seq(Frames) /\ Len(Continue(f)) = l /\ Continue(f)[l] = f
      /\ \A k \in 1 .. l - 1 : Continue(f)[k] = stack[k]
  BY <1>1, <1>3, Replaced DEF IInv
<1>7. /\ Len(stack') = l + 1 /\ DOMAIN stack' = 1 .. l + 1
      /\ \A k \in 1 .. l - 1 : stack'[k] = stack[k]
      /\ stack'[l] = f /\ stack'[l + 1] = Frame(kid) /\ stack' # <<>>
  <2> DEFINE c == Continue(f)
             e == Frame(kid)
  <2>1. /\ c \in Seq(Frames) /\ Len(c) = l /\ l \in Nat \ {0} /\ e \in Frames
        /\ stack' = Append(c, e)
    BY <1>1, <1>2, <1>5, <1>6
  <2> HIDE DEF c, e, l
  <2>2. /\ Len(stack') = l + 1 /\ DOMAIN stack' = 1 .. l + 1 /\ stack' # <<>>
        /\ \A k \in 1 .. l : stack'[k] = c[k]
        /\ stack'[l + 1] = e
    BY <2>1
  <2>3. l \in 1 .. l /\ \A k \in 1 .. l - 1 : k \in 1 .. l
    BY <2>1
  <2> QED
    BY <1>6, <2>2, <2>3 DEF c, e
<1>8. Depth = l /\ Depth' = l
  <2>1. top'.stage = "loop"
    BY <1>7 DEF top, Last, Frame
  <2>2. Depth = l /\ Depth' = Len(stack') - 1
    BY <1>1, <1>7, <2>1 DEF Depth
  <2> HIDE DEF l
  <2> QED
    BY <1>2, <1>7, <2>2
<1>9. \A k \in 1 .. l : k # l => k \in 1 .. l - 1
  <2> HIDE DEF l
  <2> QED
    BY <1>2
<1>10. \A k \in 1 .. l :
         /\ stack'[k].node = stack[k].node /\ stack'[k].i = stack[k].i
         /\ stack'[k].stage = "instructions"
  <2> SUFFICES ASSUME NEW k \in 1 .. l
               PROVE  /\ stack'[k].node = stack[k].node /\ stack'[k].i = stack[k].i
                      /\ stack'[k].stage = "instructions"
    OBVIOUS
  <2>1. CASE k = l
    BY <1>2, <1>3, <1>7, <2>1
  <2>2. CASE k # l
    <3>1. k \in 1 .. l - 1 /\ k < l
      <4> HIDE DEF l
      <4> QED
        BY <1>2, <2>2
    <3> QED
      BY <1>2, <1>7, <3>1 DEF SlicesKnown
  <2> QED
    BY <2>1, <2>2
<1>11. \A k \in 1 .. l + 1 : k = l + 1 \/ k \in 1 .. l
  <2> HIDE DEF l
  <2> QED
    BY <1>2
<1>12. \A k \in DOMAIN stack' : k < Len(stack') => stack'[k].stage = "instructions"
  <2> SUFFICES ASSUME NEW k \in 1 .. l + 1, k < l + 1 PROVE stack'[k].stage = "instructions"
    BY <1>7
  <2>1. k \in 1 .. l
    <3> HIDE DEF l
    <3> QED
      BY <1>2
  <2> QED
    BY <1>10, <2>1
<1>13. \A n \in Nodes : CompletedIs(n) /\ CompletedIs(n)'
  <2>1. CompletedKnown'
    BY CompletedOf, PTL
  <2> QED
    BY <1>1, <2>1, CompletedOf DEF CompletedKnown, Nodes
<1>14. ASSUME NEW n \in Nodes PROVE Completed(n)' = Completed(n)
  <2>1. CompletedIs(n) /\ CompletedIs(n)'
    BY <1>13
  <2>2. rounds[n] \in Nat /\ prog[n].repeat \in Nat /\ rounds' \in [Nodes -> Nat]
    BY <1>1, ProgramNodes DEF IInv, Typed, NodeRecords, Nodes
  <2>3. l + 1 \in DOMAIN stack' /\ stack'[l + 1].node = kid /\ stack'[l + 1].i = 0
    <3>1. l + 1 \in 1 .. l + 1
      <4> HIDE DEF l
      <4> QED
        BY <1>2
    <3> QED
      BY <1>7, <3>1 DEF Frame
  <2>4. CASE n = kid
    <3>1. l + 1 \in Calls(n)'
      BY <2>3, <2>4 DEF Calls
    <3>2. Calls(n)' = {l + 1} /\ Completed(n)' = (rounds'[n] - 1) * prog[n].repeat + 0
      BY <1>1, <2>1, <2>3, <3>1 DEF CompletedIs
    <3>3. rounds'[n] = rounds[n] + 1
      BY <1>1, <2>4 DEF IInv, Typed
    <3>4. Calls(n) = {}
      <4> SUFFICES ASSUME NEW k \in 1 .. l, stack[k].node = n PROVE FALSE
        BY <1>2 DEF Calls
      <4>1. k \in DOMAIN stack' /\ k # l + 1
        <5> HIDE DEF l
        <5> QED
          BY <1>2, <1>7
      <4>2. k \in Calls(n)'
        BY <1>10, <4>1 DEF Calls
      <4> QED
        BY <3>2, <4>1, <4>2
    <3>5. Completed(n) = rounds[n] * prog[n].repeat
      BY <2>1, <3>4 DEF CompletedIs
    <3>6. rounds'[n] - 1 = rounds[n] /\ rounds[n] * prog[n].repeat \in Nat
      BY <2>2, <3>3, Product
    <3>7. Completed(n)' = rounds[n] * prog[n].repeat + 0
      BY <3>2, <3>6
    <3> QED
      BY <3>5, <3>6, <3>7
  <2>5. CASE n # kid
    <3>1. Calls(n)' = Calls(n)
      BY <1>2, <1>7, <1>10, <1>11, <2>3, <2>5 DEF Calls
    <3>2. rounds'[n] = rounds[n]
      BY <1>1, <2>5 DEF IInv, Typed
    <3>3. \A k \in DOMAIN stack : stack'[k].i = stack[k].i
      BY <1>2, <1>10
    <3>4. CASE Calls(n) = {}
      BY <1>1, <2>1, <3>1, <3>2, <3>4 DEF CompletedIs
    <3>5. CASE Calls(n) # {}
      <4>1. PICK k \in DOMAIN stack :
              Calls(n) = {k} /\ Completed(n) = (rounds[n] - 1) * prog[n].repeat + stack[k].i
        BY <2>1, <3>5 DEF CompletedIs
      <4>2. PICK j \in DOMAIN stack' :
              Calls(n) = {j} /\ Completed(n)' = (rounds[n] - 1) * prog[n].repeat + stack'[j].i
        BY <1>1, <2>1, <3>1, <3>2, <3>5 DEF CompletedIs
      <4>3. j = k
        BY <4>1, <4>2
      <4> QED
        BY <3>3, <4>1, <4>2, <4>3
    <3> QED
      BY <3>4, <3>5
  <2> QED
    BY <2>4, <2>5
<1>15. Unended' = Unended
  <2>1. \A n \in Nodes : Completed(n)' = IF n = kid THEN Completed(n) + 0 ELSE Completed(n)
    <3> SUFFICES ASSUME NEW n \in Nodes
                 PROVE  Completed(n)' = Completed(n) /\ Completed(n) + 0 = Completed(n)
      OBVIOUS
    <3>1. Completed(n) \in Nat
      BY CompletedNat
    <3>2. Completed(n) + 0 = Completed(n)
      BY <3>1
    <3> QED
      BY <1>14, <3>2
  <2> HIDE DEF kid
  <2>2. Unended \in Nat /\ Unended' = Unended + (IF kid \in MemAllocs THEN 0 ELSE 0)
    BY <1>1, <2>1, UnendedStep
  <2> QED
    BY <2>2
<1>16. \A k \in 1 .. Depth : stack'[k].node = stack[k].node
  BY <1>8, <1>10
<1> QED
  BY <1>1, <1>8, <1>12, <1>15, <1>16, SlicesKept

\* And it returns there.
LEMMA SlicesReturn ==
  ASSUME IInv, IInv', SlicesKnown, Return
  PROVE  SlicesKnown'
<1> DEFINE l == Len(stack)
           x == top.node
<1>1. /\ stack # <<>> /\ top.stage = "loop" /\ top.i >= node.repeat /\ stack' = Front(stack)
      /\ prog' = prog /\ slices' = slices /\ rounds' = rounds
  BY DEF Return, At
<1>2. /\ l \in Nat \ {0} /\ DOMAIN stack = 1 .. l /\ top \in Frames /\ top = stack[l]
      /\ x \in Nodes /\ node \in NodeRecords /\ FrameOf(node, top)
  BY <1>1, StackTop DEF IInv
<1>3. /\ stack' \in Seq(Frames) /\ Len(stack') = l - 1 /\ DOMAIN stack' = 1 .. l - 1
      /\ \A k \in 1 .. l - 1 : stack'[k] = stack[k]
  BY <1>1, Popped DEF IInv
<1>4. \A k \in 1 .. l - 1 : k \in 1 .. l /\ k < l /\ k # l
  <2> HIDE DEF l
  <2> QED
    BY <1>2
<1>5. \A k \in 1 .. l : k # l => k \in 1 .. l - 1
  <2> HIDE DEF l
  <2> QED
    BY <1>2, SMTT(40)
<1>6. \A k \in 1 .. l - 1 : stack'[k].stage = "instructions"
  BY <1>2, <1>3, <1>4 DEF SlicesKnown
<1>7. Depth = l - 1 /\ Depth' = l - 1
  <2>1. Depth = l - 1
    BY <1>1 DEF Depth
  <2>2. CASE stack' = <<>>
    <3>1. Len(stack') = 0
      BY <2>2
    <3>2. Depth' = 0
      BY <2>2 DEF Depth
    <3> QED
      BY <1>3, <2>1, <3>1, <3>2
  <2>3. CASE stack' # <<>>
    <3>1. Len(stack') \in 1 .. Len(stack')
      BY <1>3, <2>3
    <3>2. top' = stack'[Len(stack')]
      BY DEF top, Last
    <3>3. top'.stage = "instructions"
      BY <1>3, <1>6, <3>1, <3>2
    <3>4. Depth' = Len(stack')
      BY <2>3, <3>3 DEF Depth
    <3> QED
      BY <1>3, <2>1, <3>4
  <2> QED
    BY <2>2, <2>3
<1>8. \A n \in Nodes : CompletedIs(n) /\ CompletedIs(n)'
  <2>1. CompletedKnown'
    BY CompletedOf, PTL
  <2> QED
    BY <1>1, <2>1, CompletedOf DEF CompletedKnown, Nodes
<1>9. ASSUME NEW n \in Nodes PROVE Completed(n)' = Completed(n)
  <2>1. CompletedIs(n) /\ CompletedIs(n)'
    BY <1>8
  <2>2. rounds[n] \in Nat /\ prog[n].repeat \in Nat
    BY ProgramNodes DEF IInv, Typed, NodeRecords
  <2>3. CASE n = x
    <3>1. l \in DOMAIN stack /\ l \in Calls(n)
      BY <1>2, <2>3 DEF Calls
    <3>2. /\ Calls(n) = {l} /\ rounds[n] >= 1
          /\ Completed(n) = (rounds[n] - 1) * prog[n].repeat + stack[l].i
      BY <2>1, <3>1 DEF CompletedIs
    <3>3. Calls(n)' = {}
      <4> SUFFICES ASSUME NEW k \in 1 .. l - 1, stack'[k].node = n PROVE FALSE
        BY <1>3, SMTT(40) DEF Calls
      <4>1. k \in Calls(n) /\ k # l
        BY <1>2, <1>3, <1>4 DEF Calls
      <4> QED
        BY <3>2, <4>1
    <3>4. Completed(n)' = rounds[n] * prog[n].repeat
      BY <1>1, <2>1, <3>3 DEF CompletedIs
    <3>5. stack[l].i = prog[n].repeat
      <4>1. top.i = node.repeat
        BY <1>1, <1>2 DEF FrameOf, NodeRecords
      <4> QED
        BY <1>2, <2>3, <4>1 DEF node
    <3>6. (rounds[n] - 1) * prog[n].repeat + prog[n].repeat = rounds[n] * prog[n].repeat
      <4> DEFINE r == rounds[n] - 1
      <4>1. r \in Nat /\ rounds[n] = r + 1
        BY <2>2, <3>2
      <4> HIDE DEF r
      <4>2. (r + 1) * prog[n].repeat = r * prog[n].repeat + prog[n].repeat
        BY <2>2, <4>1, OneMore
      <4> QED
        BY <4>1, <4>2 DEF r
    <3> QED
      BY <3>2, <3>4, <3>5, <3>6
  <2>4. CASE n # x
    <3>1. Calls(n)' = Calls(n)
      <4>1. ASSUME NEW k \in Calls(n) PROVE k \in Calls(n)'
        <5>1. k \in 1 .. l /\ stack[k].node = n
          BY <1>2, SMTT(40) DEF Calls
        <5>2. k \in 1 .. l - 1
          BY <1>2, <1>5, <2>4, <5>1, ZenonT(60)
        <5> QED
          BY <1>3, <5>1, <5>2 DEF Calls
      <4>2. ASSUME NEW k \in Calls(n)' PROVE k \in Calls(n)
        <5>1. k \in 1 .. l - 1 /\ stack'[k].node = n
          BY <1>3 DEF Calls
        <5> QED
          BY <1>2, <1>3, <1>4, <5>1 DEF Calls
      <4> QED
        BY <4>1, <4>2
    <3>2. CASE Calls(n) = {}
      BY <1>1, <2>1, <3>1, <3>2 DEF CompletedIs
    <3>3. CASE Calls(n) # {}
      <4>1. PICK k \in DOMAIN stack :
              Calls(n) = {k} /\ Completed(n) = (rounds[n] - 1) * prog[n].repeat + stack[k].i
        BY <2>1, <3>3 DEF CompletedIs
      <4>2. PICK j \in DOMAIN stack' :
              Calls(n) = {j} /\ Completed(n)' = (rounds[n] - 1) * prog[n].repeat + stack'[j].i
        BY <1>1, <2>1, <3>1, <3>3 DEF CompletedIs
      <4>3. j = k /\ stack'[j] = stack[k]
        BY <1>3, <4>1, <4>2
      <4> QED
        BY <4>1, <4>2, <4>3
    <3> QED
      BY <3>2, <3>3
  <2> QED
    BY <2>3, <2>4
<1>10. Unended' = Unended
  <2>1. \A n \in Nodes : Completed(n)' = IF n = x THEN Completed(n) + 0 ELSE Completed(n)
    <3> SUFFICES ASSUME NEW n \in Nodes
                 PROVE  Completed(n)' = Completed(n) /\ Completed(n) + 0 = Completed(n)
      OBVIOUS
    <3>1. Completed(n) \in Nat
      BY CompletedNat
    <3>2. Completed(n) + 0 = Completed(n)
      BY <3>1
    <3> QED
      BY <1>9, <3>2
  <2> HIDE DEF x
  <2>2. Unended \in Nat /\ Unended' = Unended + (IF x \in MemAllocs THEN 0 ELSE 0)
    BY <1>1, <2>1, UnendedStep
  <2> QED
    BY <2>2
<1>11. \A k \in DOMAIN stack' : k < Len(stack') => stack'[k].stage = "instructions"
  BY <1>3, <1>6
<1>12. \A k \in 1 .. Depth : stack'[k].node = stack[k].node
  BY <1>3, <1>7
<1> QED
  BY <1>1, <1>7, <1>10, <1>11, <1>12, SlicesKept

\* Before the root runs no slice is open.
LEMMA SlicesInit == Init => SlicesKnown
<1> SUFFICES ASSUME Init PROVE SlicesKnown
  OBVIOUS
<1>1. IInv
  BY InitIInv
<1>2. /\ stack = <<Frame(1)>> /\ slices = <<>> /\ Len(stack) = 1 /\ DOMAIN stack = {1}
      /\ stack[1] = Frame(1)
  BY DEF Init
<1>3. Depth = 0
  BY <1>2 DEF Depth, top, Last, Frame
<1>4. ASSUME NEW n \in Nodes PROVE Completed(n) = 0
  <2>1. CompletedIs(n)
    BY <1>1, CompletedOf DEF CompletedKnown
  <2>2. prog[n].repeat \in Nat
    BY <1>1, ProgramNodes DEF IInv, NodeRecords
  <2>3. rounds[n] = IF n = 1 THEN 1 ELSE 0
    BY DEF Init
  <2>4. 0 * prog[n].repeat = 0 /\ (1 - 1) * prog[n].repeat + 0 = 0
    BY <2>2
  <2>5. Calls(n) = IF n = 1 THEN {1} ELSE {}
    BY <1>2 DEF Calls, Frame
  <2>6. CASE n = 1
    <3>1. rounds[n] = 1 /\ stack[1].i = 0
      BY <1>2, <2>3, <2>6 DEF Frame
    <3>2. Completed(n) = (rounds[n] - 1) * prog[n].repeat + stack[1].i
      BY <1>2, <2>1, <2>5, <2>6 DEF CompletedIs
    <3> QED
      BY <2>4, <3>1, <3>2
  <2>7. CASE n # 1
    BY <2>1, <2>3, <2>4, <2>5, <2>7 DEF CompletedIs
  <2> QED
    BY <2>6, <2>7
<1>5. Unended = 0
  <2> DEFINE S == MemAllocs
             F == [n \in S |-> Completed(n)]
  <2>1. PICK f : Sums(f, F, S) /\ Unended = f[S]
    BY <1>1, CompletedSums DEF UnendedIsSum
  <2>2. S \in SUBSET Nodes /\ IsFiniteSet(S)
    BY <1>1, MemAllocsFinite DEF MemAllocs
  <2>3. \A n \in S : F[n] = 0
    BY <1>4, <2>2
  <2> QED
    BY <2>1, <2>2, <2>3, SumsOfZero
<1> QED
  BY <1>2, <1>3, <1>5 DEF SlicesKnown

\* The steps that leave all calls alone.
LEMMA SlicesStutter ==
  ASSUME IInv, IInv', SlicesKnown, prog' = prog, rounds' = rounds, stack' = stack,
         slices' = slices
  PROVE  SlicesKnown'
<1>1. ASSUME NEW n \in Nodes PROVE Completed(n)' = Completed(n)
  <2>1. CompletedIs(n) /\ CompletedIs(n)'
    <3>1. CompletedKnown'
      BY CompletedOf, PTL
    <3> QED
      BY <3>1, CompletedOf DEF CompletedKnown, Nodes
  <2>2. Calls(n)' = Calls(n)
    BY DEF Calls
  <2> QED
    BY <2>1, <2>2 DEF CompletedIs
<1>2. Unended' = Unended
  <2>1. \A n \in Nodes : Completed(n)' = IF n = 0 THEN Completed(n) + 0 ELSE Completed(n)
    <3> SUFFICES ASSUME NEW n \in Nodes
                 PROVE  Completed(n)' = Completed(n) /\ Completed(n) + 0 = Completed(n)
      OBVIOUS
    <3>1. Completed(n) \in Nat
      BY CompletedNat
    <3>2. Completed(n) + 0 = Completed(n)
      BY <3>1
    <3> QED
      BY <1>1, <3>2
  <2>2. Unended \in Nat /\ Unended' = Unended + (IF 0 \in MemAllocs THEN 0 ELSE 0)
    BY <2>1, UnendedStep
  <2> QED
    BY <2>2
<1>3. Depth' = Depth
  BY DEF Depth, top, Last
<1> QED
  BY <1>2, <1>3, SlicesKept DEF SlicesKnown

\* Every step keeps the slices as the calls in progress say.
LEMMA SlicesStep == IInv /\ IInv' /\ SlicesKnown /\ [Next]_vars => SlicesKnown'
<1> SUFFICES ASSUME IInv, IInv', SlicesKnown, [Next]_vars PROVE SlicesKnown'
  OBVIOUS
<1>1. CASE SetUpSingle
  BY <1>1, SlicesSetUpSingle
<1>2. CASE RunOnce \/ NextItem \/ EndOfList \/ EndInstructions
  BY <1>2, SlicesInsideSet
<1>3. CASE CallInstruction
  BY <1>3, SlicesCall
<1>4. CASE TearDownSingle
  BY <1>4, SlicesTearDownSingle
<1>5. CASE Return
  BY <1>5, SlicesReturn
<1>6. CASE \E d \in Durations : RunSingle(d)
  BY <1>6, SlicesRunSingle
<1>7. CASE NotIterable \/ CollectResults \/ UNCHANGED vars
  <2>1. prog' = prog /\ rounds' = rounds /\ stack' = stack /\ slices' = slices
    BY <1>7 DEF NotIterable, CollectResults, vars
  <2> QED
    BY <2>1, SlicesStutter
<1> QED
  BY <1>1, <1>2, <1>3, <1>4, <1>5, <1>6, <1>7 DEF Next

\* The strengthened invariant says what SlicesMatch says.
LEMMA SlicesKnownMatch == IInv /\ SlicesKnown => SlicesMatch
<1> SUFFICES ASSUME IInv, SlicesKnown PROVE SlicesMatch
  OBVIOUS
<1> DEFINE open == {k \in DOMAIN stack : stack[k].stage # "loop"}
<1>1. /\ Depth \in Nat /\ Len(stack) \in Nat /\ DOMAIN stack = 1 .. Len(stack)
      /\ Depth <= Len(stack)
  BY DepthRange
<1>2. stack # <<>> => Len(stack) > 0 /\ top = stack[Len(stack)]
  BY <1>1 DEF top, Last, IInv, Typed
<1>3. open = 1 .. Depth
  <2>1. CASE stack = <<>>
    <3>1. Depth = 0 /\ DOMAIN stack = {}
      BY <1>1, <2>1 DEF Depth
    <3> QED
      BY <3>1
  <2>2. CASE stack # <<>> /\ top.stage = "loop"
    <3>1. Depth = Len(stack) - 1
      BY <2>2 DEF Depth
    <3>2. \A k \in 1 .. Len(stack) : k \in 1 .. Depth <=> k < Len(stack)
      BY <1>1, <1>2, <2>2, <3>1
    <3>3. \A k \in 1 .. Len(stack) : stack[k].stage # "loop" <=> k < Len(stack)
      <4> SUFFICES ASSUME NEW k \in 1 .. Len(stack)
                   PROVE  stack[k].stage # "loop" <=> k < Len(stack)
        OBVIOUS
      <4>1. CASE k < Len(stack)
        BY <1>1, <4>1 DEF SlicesKnown
      <4>2. CASE ~(k < Len(stack))
        <5>1. k = Len(stack)
          <6> DEFINE l == Len(stack)
          <6>1. l \in Nat /\ k \in 1 .. l /\ ~(k < l)
            BY <1>1, <4>2
          <6> HIDE DEF l
          <6>2. k = l
            BY <6>1
          <6> QED
            BY <6>2 DEF l
        <5> QED
          BY <1>2, <2>2, <4>2, <5>1
      <4> QED
        BY <4>1, <4>2
    <3>4. \A k \in 1 .. Depth : k \in 1 .. Len(stack)
      BY <1>1, <3>1
    <3> QED
      BY <1>1, <3>2, <3>3, <3>4
  <2>3. CASE stack # <<>> /\ top.stage # "loop"
    <3>1. Depth = Len(stack)
      BY <2>3 DEF Depth
    <3>2. \A k \in 1 .. Len(stack) : stack[k].stage # "loop"
      <4> SUFFICES ASSUME NEW k \in 1 .. Len(stack) PROVE stack[k].stage # "loop"
        OBVIOUS
      <4>1. CASE k < Len(stack)
        BY <1>1, <4>1 DEF SlicesKnown
      <4>2. CASE ~(k < Len(stack))
        <5>1. k = Len(stack)
          <6> DEFINE l == Len(stack)
          <6>1. l \in Nat /\ k \in 1 .. l /\ ~(k < l)
            BY <1>1, <4>2
          <6> HIDE DEF l
          <6>2. k = l
            BY <6>1
          <6> QED
            BY <6>2 DEF l
        <5> QED
          BY <1>2, <2>3, <5>1
      <4> QED
        BY <4>1, <4>2
    <3> QED
      BY <1>1, <3>1, <3>2
  <2> QED
    BY <2>1, <2>2, <2>3
<1> HIDE DEF open
<1>4. Cardinality(open) = Depth
  <2>1. Cardinality(1 .. Depth) = IF 1 > Depth THEN 0 ELSE Depth - 1 + 1
    BY <1>1, FS_Interval
  <2> QED
    BY <1>1, <1>3, <2>1
<1>5. Len(slices) = Cardinality(open) + Unended
  BY <1>4 DEF SlicesKnown
<1>6. ASSUME Unended = 0 PROVE slices = [k \in open |-> stack[k].node]
  <2>1. Len(slices) = Depth
    BY <1>1, <1>6 DEF SlicesKnown
  <2>2. slices = [k \in 1 .. Len(slices) |-> slices[k]]
    BY DEF SlicesKnown
  <2>3. \A k \in 1 .. Depth : slices[k] = stack[k].node
    BY <1>6 DEF SlicesKnown
  <2> QED
    BY <1>3, <2>1, <2>2, <2>3
<1>7. SlicesMatch = (/\ Len(slices) = Cardinality(open) + Unended
                     /\ Unended = 0 => slices = [k \in open |-> stack[k].node])
  BY DEF SlicesMatch, open, Unended, MemAllocs
<1> QED
  BY <1>5, <1>6, <1>7

\* The open slices of the trace nest like the calls in progress, one more
\* staying open for every repetition of a mem_alloc, in every tree.
THEOREM SlicesAlwaysMatch == Spec => []SlicesMatch
<1>1. Init => IInv /\ SlicesKnown
  BY InitIInv, SlicesInit
<1>2. IInv /\ SlicesKnown /\ [Next]_vars => (IInv /\ SlicesKnown)'
  BY StepIInv, SlicesStep
<1>3. IInv /\ SlicesKnown => SlicesMatch
  BY SlicesKnownMatch
<1> QED
  BY <1>1, <1>2, <1>3, PTL DEF Spec

-----------------------------------------------------------------------------
(* How often an instruction is called and how many samples it records *)

\* How often a repetition of a set runs its instructions.
Passes(p) == IF p.kind = "iterate" THEN p.list ELSE 1

\* How many samples there are after a number of repetitions.
Recorded(p, done) == IF p.kind = "mem_alloc" THEN 0 ELSE done

\* What is known of an instruction between two calls, from its node p: the
\* rounds c of the instructions it contains and the number s of its samples
\* after r rounds of its own.
Quiet(p, r, c, s) ==
  LET done == r * p.repeat
  IN  /\ \A j \in DOMAIN c : c[j] = done * Passes(p)
      /\ s = Recorded(p, done)

\* The same during a call: the instructions from the next one on have not
\* been called in this pass.
Calling(p, i, stage, item, next, r, c, s) ==
  LET done == (r - 1) * p.repeat + i
      begun == IF stage = "loop" THEN 0
               ELSE IF p.kind = "iterate" THEN item
               ELSE IF stage = "run" THEN 0 ELSE 1
  IN  /\ \A j \in DOMAIN c :
           c[j] = done * Passes(p) + begun - (IF stage = "instructions" /\ j >= next THEN 1 ELSE 0)
      /\ s = Recorded(p, done)

\* How often the instructions of n have been called.
KidRounds(r, n) == [j \in DOMAIN prog[n].kids |-> r[prog[n].kids[j]]]

\* Each call is made by the one below it on the stack.
Chained ==
  /\ stack # <<>> => stack[1].node = 1
  /\ \A k \in DOMAIN stack : stack[k].next \in 1 .. Len(prog[stack[k].node].kids) + 1
  /\ \A k \in DOMAIN stack : k + 1 \in DOMAIN stack =>
       /\ stack[k].stage = "instructions" /\ stack[k].next > 1
       /\ stack[k + 1].node = prog[stack[k].node].kids[stack[k].next - 1]

\* What is known of the instructions without a call in progress, of the calls,
\* and of both.
QuietKnown ==
  \A n \in Nodes :
    (\A k \in DOMAIN stack : stack[k].node # n) =>
      Quiet(prog[n], rounds[n], KidRounds(rounds, n), Len(samples[n]))

CallingKnown ==
  \A k \in DOMAIN stack :
    LET f == stack[k]
        n == f.node
    IN  Calling(prog[n], f.i, f.stage, f.item, f.next, rounds[n], KidRounds(rounds, n), Len(samples[n]))

Counted ==
  /\ samples \in [Nodes -> Seq(Nat)]
  /\ Chained /\ QuietKnown /\ CallingKnown

\* A tree: what contains an instruction is one set, at one place.
LEMMA ProgramTree ==
  ASSUME Typed
  PROVE  /\ \A n \in Nodes : prog[n].kind \in {"leaf", "mem_alloc"} => prog[n].kids = <<>>
         /\ \A n \in Nodes : n # 1 =>
              \E m \in Nodes : \E k \in DOMAIN prog[m].kids : prog[m].kids[k] = n
         /\ \A m, n \in Nodes : \A j \in DOMAIN prog[m].kids, k \in DOMAIN prog[n].kids :
              prog[m].kids[j] = prog[n].kids[k] => m = n /\ j = k
<1>1. IsProgram(prog) /\ Len(prog) > 0
  BY InstructionSetAssumption DEF Typed
<1>2. Nodes = 1 .. Len(prog) /\ Len(prog) \in Nat
  BY ProgramNodes
<1>3. \A n \in Nodes : n # 1 => n \in 2 .. Len(prog)
  BY <1>2
<1>4. /\ \A n \in Nodes : prog[n].kind \in {"leaf", "mem_alloc"} => prog[n].kids = <<>>
      /\ \A m, n \in Nodes : \A j \in DOMAIN prog[m].kids, k \in DOMAIN prog[n].kids :
              prog[m].kids[j] = prog[n].kids[k] => m = n /\ j = k
  BY <1>1 DEF IsProgram, Nodes
<1>5. \A n \in Nodes : n # 1 =>
        \E m \in Nodes : \E k \in DOMAIN prog[m].kids : prog[m].kids[k] = n
  BY <1>1, <1>3 DEF IsProgram, Nodes
<1> QED
  BY <1>4, <1>5

\* A step of the innermost call keeps the counts if it keeps those of its
\* instruction.
LEMMA CountsTop ==
  ASSUME IInv, Counted, stack # <<>>, prog' = prog, rounds' = rounds,
         NEW s \in Seq(Nat), samples' = [samples EXCEPT ![top.node] = s],
         stack' \in Seq(Frames), Len(stack') = Len(stack),
         \A k \in 1 .. Len(stack) - 1 :
           /\ stack'[k].node = stack[k].node /\ stack'[k].i = stack[k].i
           /\ stack'[k].stage = stack[k].stage /\ stack'[k].item = stack[k].item
           /\ stack'[k].next = stack[k].next,
         NEW f \in Frames, stack'[Len(stack)] = f, f.node = top.node,
         f.next \in 1 .. Len(node.kids) + 1,
         Calling(node, f.i, f.stage, f.item, f.next, rounds[top.node],
                 KidRounds(rounds, top.node), Len(s))
  PROVE  Counted'
<1> DEFINE l == Len(stack)
           m == top.node
<1>1. /\ Typed /\ FramesFit /\ Descending /\ samples \in [Nodes -> Seq(Nat)]
      /\ Chained /\ QuietKnown /\ CallingKnown
  BY DEF IInv, Counted
<1>2. /\ l \in Nat \ {0} /\ DOMAIN stack = 1 .. l /\ stack[l].node = m /\ m \in Nodes
  BY <1>1, StackTop
<1>3. DOMAIN stack' = 1 .. l /\ Nodes' = Nodes
  BY DEF Nodes
<1>4. samples' \in [Nodes -> Seq(Nat)] /\ samples'[m] = s
      /\ \A n \in Nodes : n # m => samples'[n] = samples[n]
  BY <1>1, <1>2
<1>5. \A k \in 1 .. l : stack'[k].node = stack[k].node
  BY <1>2
<1>6. \A k \in 1 .. l : k # l => stack[k].node # m /\ stack[k].node \in Nodes
  <2> SUFFICES ASSUME NEW k \in 1 .. l, k # l PROVE stack[k].node # m /\ stack[k].node \in Nodes
    OBVIOUS
  <2>1. stack[k].node < stack[l].node /\ stack[k].node \in Nodes
    <3>1. k \in DOMAIN stack /\ l \in DOMAIN stack /\ k < l
      BY <1>2
    <3> QED
      BY <1>1, <3>1 DEF Descending, FramesFit
  <2>2. stack[k].node \in Nat /\ m \in Nat
    BY <1>1, <1>2, ProgramNodes, <2>1
  <2> QED
    BY <1>2, <2>1, <2>2
<1>7. \A n : KidRounds(rounds, n)' = KidRounds(rounds, n)
  BY DEF KidRounds
<1> HIDE DEF l, m
<1>8. Chained'
  <2>1. stack' # <<>> => stack'[1].node = 1
    BY <1>1, <1>2, <1>5 DEF Chained
  <2>2. ASSUME NEW k \in 1 .. l
        PROVE  stack'[k].next \in 1 .. Len(prog[stack'[k].node].kids) + 1
    <3>1. CASE k = l
      BY <3>1 DEF l, node
    <3>2. CASE k # l
      <4>1. k \in 1 .. l - 1 /\ k \in DOMAIN stack
        BY <1>2, <3>2
      <4>2. stack[k].next \in 1 .. Len(prog[stack[k].node].kids) + 1
        BY <1>1, <4>1 DEF Chained
      <4>3. stack'[k].next = stack[k].next /\ stack'[k].node = stack[k].node
        BY <4>1 DEF l
      <4> QED
        BY <4>2, <4>3
    <3> QED
      BY <3>1, <3>2
  <2>3. ASSUME NEW k \in 1 .. l, k + 1 \in 1 .. l
        PROVE  /\ stack'[k].stage = "instructions" /\ stack'[k].next > 1
               /\ stack'[k + 1].node = prog[stack'[k].node].kids[stack'[k].next - 1]
    <3>1. k \in 1 .. l - 1
      BY <1>2, <2>3
    <3>2. /\ stack[k].stage = "instructions" /\ stack[k].next > 1
          /\ stack[k + 1].node = prog[stack[k].node].kids[stack[k].next - 1]
      BY <1>1, <1>2, <2>3 DEF Chained
    <3>3. stack'[k].stage = stack[k].stage /\ stack'[k].next = stack[k].next
      BY <3>1 DEF l
    <3> QED
      BY <1>5, <2>3, <3>2, <3>3
  <2> QED
    BY <1>3, <2>1, <2>2, <2>3 DEF Chained
<1>9. QuietKnown'
  <2> SUFFICES ASSUME NEW n \in Nodes, \A k \in 1 .. l : stack'[k].node # n
               PROVE  Quiet(prog[n], rounds[n], KidRounds(rounds, n), Len(samples'[n]))
    BY <1>3, <1>7, ZenonT(60) DEF QuietKnown
  <2>1. \A k \in DOMAIN stack : stack[k].node # n
    BY <1>2, <1>5
  <2>2. n # m
    BY <1>2, <2>1
  <2> QED
    BY <1>1, <1>4, <2>1, <2>2 DEF QuietKnown
<1>10. CallingKnown'
  <2> SUFFICES ASSUME NEW k \in 1 .. l
               PROVE  LET e == stack'[k]
                          n == e.node
                      IN  Calling(prog[n], e.i, e.stage, e.item, e.next, rounds[n],
                                  KidRounds(rounds, n), Len(samples'[n]))
    BY <1>3, <1>7 DEF CallingKnown
  <2>1. CASE k = l
    BY <1>2, <1>4, <2>1 DEF node, l, m
  <2>2. CASE k # l
    <3>1. LET e == stack[k]
              n == e.node
          IN  Calling(prog[n], e.i, e.stage, e.item, e.next, rounds[n],
                      KidRounds(rounds, n), Len(samples[n]))
      BY <1>1, <1>2 DEF CallingKnown
    <3>2. /\ stack'[k].node = stack[k].node /\ stack'[k].i = stack[k].i
          /\ stack'[k].stage = stack[k].stage /\ stack'[k].item = stack[k].item
          /\ stack'[k].next = stack[k].next
      BY <1>2, <2>2 DEF l
    <3> QED
      BY <1>4, <1>6, <2>2, <3>1, <3>2
  <2> QED
    BY <2>1, <2>2
<1> QED
  BY <1>3, <1>4, <1>8, <1>9, <1>10 DEF Counted

\* The start of a repetition.
LEMMA CallingSetUp ==
  ASSUME NEW p, NEW r, NEW c, NEW s, NEW i, NEW item, NEW next,
         Calling(p, i, "loop", item, next, r, c, s)
  PROVE  Calling(p, i, "run", 0, next, r, c, s)
BY DEF Calling

\* RunSingle of an instruction that contains no other.
LEMMA CallingRun ==
  ASSUME NEW p, NEW r, NEW c, NEW s, NEW i, NEW item, NEW next, DOMAIN c = {},
         Calling(p, i, "run", item, next, r, c, s)
  PROVE  Calling(p, i, "teardown", item, next, r, c, s)
BY DEF Calling

\* A pass through the instructions of a set begins.
LEMMA CallingPass ==
  ASSUME NEW p \in NodeRecords, NEW r \in Nat, r >= 1, NEW c, DOMAIN c \subseteq Nat \ {0}, NEW s,
         NEW i \in Nat, NEW item \in Nat, NEW next, NEW to,
         \/ p.kind = "set" /\ to = item
         \/ p.kind = "iterate" /\ to = item + 1,
         Calling(p, i, "run", item, next, r, c, s)
  PROVE  Calling(p, i, "instructions", to, 1, r, c, s)
<1> DEFINE d == ((r - 1) * p.repeat + i) * Passes(p)
<1>1. d \in Nat
  <2>1. p.repeat \in Nat /\ p.list \in Nat /\ r - 1 \in Nat
    BY DEF NodeRecords
  <2>2. (r - 1) * p.repeat \in Nat /\ Passes(p) \in Nat
    BY <2>1, Product DEF Passes
  <2>3. (r - 1) * p.repeat + i \in Nat
    BY <2>2
  <2> QED
    BY <2>2, <2>3, Product
<1>2. /\ s = Recorded(p, (r - 1) * p.repeat + i)
      /\ \A j \in DOMAIN c : c[j] = d + (IF p.kind = "iterate" THEN item ELSE 0) - 0
  BY DEF Calling
<1> HIDE DEF d
<1>3. \A j \in DOMAIN c : j >= 1
  OBVIOUS
<1>4. \A j \in DOMAIN c : c[j] = d + (IF p.kind = "iterate" THEN to ELSE 1) - 1
  BY <1>1, <1>2
<1> QED
  BY <1>2, <1>3, <1>4 DEF Calling, d

\* The end of a pass.
LEMMA CallingPassed ==
  ASSUME NEW p, NEW r, NEW c, NEW s, NEW i, NEW item, NEW next,
         \A j \in DOMAIN c : ~(j >= next),
         Calling(p, i, "instructions", item, next, r, c, s)
  PROVE  Calling(p, i, IF p.kind = "iterate" THEN "run" ELSE "teardown", item, next, r, c, s)
BY DEF Calling

\* The end of the list.
LEMMA CallingEnd ==
  ASSUME NEW p, NEW r, NEW c, NEW s, NEW i, NEW item, NEW next, p.kind = "iterate",
         Calling(p, i, "run", item, next, r, c, s)
  PROVE  Calling(p, i, "teardown", item, next, r, c, s)
BY DEF Calling

\* The end of a repetition.
LEMMA CallingTearDown ==
  ASSUME NEW p \in NodeRecords, NEW r \in Nat, r >= 1, NEW c, NEW s \in Nat,
         NEW i \in Nat, NEW item \in Nat, NEW next, p.kind = "iterate" => item = p.list,
         Calling(p, i, "teardown", item, next, r, c, s)
  PROVE  Calling(p, i + 1, "loop", item, next, r, c, IF p.kind = "mem_alloc" THEN s ELSE s + 1)
<1> DEFINE d == (r - 1) * p.repeat + i
<1>1. d \in Nat /\ (r - 1) * p.repeat + (i + 1) = d + 1 /\ Passes(p) \in Nat
  <2>1. p.repeat \in Nat /\ p.list \in Nat /\ r - 1 \in Nat
    BY DEF NodeRecords
  <2>2. (r - 1) * p.repeat \in Nat /\ Passes(p) \in Nat
    BY <2>1, Product DEF Passes
  <2> QED
    BY <2>2
<1>2. /\ s = Recorded(p, d)
      /\ \A j \in DOMAIN c : c[j] = d * Passes(p) + Passes(p) - 0
  BY DEF Calling, Passes
<1> HIDE DEF d
<1>3. d * Passes(p) + Passes(p) - 0 = (d + 1) * Passes(p) + 0 - 0
  <2>1. (d + 1) * Passes(p) = d * Passes(p) + Passes(p) /\ d * Passes(p) \in Nat
    BY <1>1, OneMore, Product
  <2> QED
    BY <1>1, <2>1
<1> QED
  BY <1>1, <1>2, <1>3 DEF Calling, Recorded

\* The end of a call.
LEMMA CallingReturn ==
  ASSUME NEW p \in NodeRecords, NEW r \in Nat, r >= 1, NEW c, NEW s, NEW item, NEW next,
         Calling(p, p.repeat, "loop", item, next, r, c, s)
  PROVE  Quiet(p, r, c, s)
<1>1. p.repeat \in Nat /\ p.list \in Nat
  BY DEF NodeRecords
<1>2. (r - 1) * p.repeat + p.repeat = r * p.repeat /\ r * p.repeat \in Nat /\ Passes(p) \in Nat
  BY <1>1 DEF Passes
<1>3. (r * p.repeat) * Passes(p) + 0 - 0 = (r * p.repeat) * Passes(p)
  <2>1. (r * p.repeat) * Passes(p) \in Nat
    BY <1>2, Product
  <2> QED
    BY <2>1
<1> QED
  BY <1>2, <1>3 DEF Quiet, Calling

\* A call begins.
LEMMA QuietCall ==
  ASSUME NEW p \in NodeRecords, NEW r \in Nat, NEW c, NEW s, Quiet(p, r, c, s)
  PROVE  Calling(p, 0, "loop", 0, 1, r + 1, c, s)
<1>1. p.repeat \in Nat /\ p.list \in Nat
  BY DEF NodeRecords
<1>2. ((r + 1) - 1) * p.repeat + 0 = r * p.repeat /\ r * p.repeat \in Nat /\ Passes(p) \in Nat
  BY <1>1 DEF Passes
<1>3. (r * p.repeat) * Passes(p) + 0 - 0 = (r * p.repeat) * Passes(p)
  <2>1. (r * p.repeat) * Passes(p) \in Nat
    BY <1>2, Product
  <2> QED
    BY <2>1
<1> QED
  BY <1>2, <1>3 DEF Quiet, Calling

\* The next instruction has been called.
LEMMA CallingNext ==
  ASSUME NEW p \in NodeRecords, NEW r \in Nat, r >= 1, NEW c, DOMAIN c \subseteq Nat \ {0},
         NEW s, NEW i \in Nat, NEW item \in Nat, NEW next \in Nat, NEW e, DOMAIN e = DOMAIN c,
         \A j \in DOMAIN c : e[j] = IF j = next THEN c[j] + 1 ELSE c[j],
         Calling(p, i, "instructions", item, next, r, c, s)
  PROVE  Calling(p, i, "instructions", item, next + 1, r, e, s)
<1> DEFINE d == ((r - 1) * p.repeat + i) * Passes(p)
           b == IF p.kind = "iterate" THEN item ELSE 1
<1>1. d \in Nat /\ b \in Nat
  <2>1. p.repeat \in Nat /\ p.list \in Nat /\ r - 1 \in Nat
    BY DEF NodeRecords
  <2>2. (r - 1) * p.repeat \in Nat /\ Passes(p) \in Nat
    BY <2>1, Product DEF Passes
  <2>3. (r - 1) * p.repeat + i \in Nat
    BY <2>2
  <2> QED
    BY <2>2, <2>3, Product
<1>2. /\ s = Recorded(p, (r - 1) * p.repeat + i)
      /\ \A j \in DOMAIN c : c[j] = d + b - (IF j >= next THEN 1 ELSE 0)
  BY DEF Calling
<1> HIDE DEF d, b
<1>3. \A j \in DOMAIN c : e[j] = d + b - (IF j >= next + 1 THEN 1 ELSE 0)
  BY <1>1, <1>2
<1> QED
  BY <1>2, <1>3 DEF Calling, d, b

\* What the counts know of the innermost call.
LEMMA TopCounted ==
  ASSUME IInv, Counted, stack # <<>>
  PROVE  /\ samples[top.node] \in Seq(Nat) /\ rounds[top.node] >= 1
         /\ top.next \in 1 .. Len(node.kids) + 1 /\ node.kids \in Seq(Nat)
         /\ DOMAIN KidRounds(rounds, top.node) = 1 .. Len(node.kids)
         /\ Calling(node, top.i, top.stage, top.item, top.next, rounds[top.node],
                    KidRounds(rounds, top.node), Len(samples[top.node]))
<1>1. /\ Len(stack) \in Nat \ {0} /\ DOMAIN stack = 1 .. Len(stack)
      /\ top = stack[Len(stack)] /\ top.node \in Nodes /\ node \in NodeRecords
  BY StackTop DEF IInv
<1>2. Len(stack) \in DOMAIN stack
  BY <1>1
<1>3. rounds[top.node] >= 1
  BY TopKnown DEF Busy
<1>4. node.kids \in Seq(Nat)
  BY <1>1 DEF NodeRecords
<1>5. DOMAIN KidRounds(rounds, top.node) = 1 .. Len(node.kids)
  BY <1>4 DEF KidRounds, node
<1>6. samples[top.node] \in Seq(Nat)
  BY <1>1 DEF Counted
<1>7. top.next \in 1 .. Len(node.kids) + 1
  BY <1>1, <1>2 DEF Counted, Chained, node
<1>8. Calling(node, top.i, top.stage, top.item, top.next, rounds[top.node],
              KidRounds(rounds, top.node), Len(samples[top.node]))
  BY <1>1, <1>2 DEF Counted, CallingKnown, node
<1> QED
  BY <1>3, <1>4, <1>5, <1>6, <1>7, <1>8

\* A step that replaces the frame of the innermost call.
LEMMA CountsContinue ==
  ASSUME IInv, Counted, stack # <<>>, prog' = prog, rounds' = rounds,
         NEW s \in Seq(Nat), samples' = [samples EXCEPT ![top.node] = s],
         NEW f \in Frames, stack' = Continue(f), f.node = top.node,
         f.next \in 1 .. Len(node.kids) + 1,
         Calling(node, f.i, f.stage, f.item, f.next, rounds[top.node],
                 KidRounds(rounds, top.node), Len(s))
  PROVE  Counted'
<1>1. Typed
  BY DEF IInv
<1>2. /\ stack' \in Seq(Frames) /\ Len(stack') = Len(stack) /\ stack'[Len(stack)] = f
      /\ \A k \in 1 .. Len(stack) - 1 : stack'[k] = stack[k]
  BY <1>1, Replaced
<1>3. \A k \in 1 .. Len(stack) - 1 :
        /\ stack'[k].node = stack[k].node /\ stack'[k].i = stack[k].i
        /\ stack'[k].stage = stack[k].stage /\ stack'[k].item = stack[k].item
        /\ stack'[k].next = stack[k].next
  BY <1>2
<1> QED
  BY <1>2, <1>3, CountsTop

\* The steps that record nothing and call nothing.
LEMMA CountsInside ==
  IInv /\ Counted /\ (SetUpSingle \/ RunOnce \/ NextItem \/ EndOfList \/ EndInstructions)
    => Counted'
<1> SUFFICES ASSUME IInv, Counted,
                    SetUpSingle \/ RunOnce \/ NextItem \/ EndOfList \/ EndInstructions
             PROVE  Counted'
  OBVIOUS
<1> DEFINE n == top.node
           c == KidRounds(rounds, n)
           s == samples[n]
           up == top.item + 1
<1>1. stack # <<>>
  BY DEF SetUpSingle, RunOnce, NextItem, EndOfList, EndInstructions, At
<1>2. /\ n \in Nodes /\ node \in NodeRecords /\ top \in Frames /\ FrameOf(node, top)
      /\ rounds[n] \in Nat
  BY <1>1, TopKnown
<1>3. /\ s \in Seq(Nat) /\ rounds[n] >= 1 /\ top.next \in 1 .. Len(node.kids) + 1
      /\ node.kids \in Seq(Nat) /\ DOMAIN c = 1 .. Len(node.kids)
      /\ Calling(node, top.i, top.stage, top.item, top.next, rounds[n], c, Len(s))
  BY <1>1, TopCounted
<1>4. /\ prog' = prog /\ rounds' = rounds /\ samples' = samples
      /\ samples \in [Nodes -> Seq(Nat)]
  BY DEF SetUpSingle, RunOnce, NextItem, EndOfList, EndInstructions, Counted
<1>5. samples' = [samples EXCEPT ![n] = s]
  BY <1>2, <1>4
<1>6. /\ top.i \in Nat /\ top.item \in Nat /\ up \in Nat /\ 1 \in 1 .. Len(node.kids) + 1
      /\ Len(node.kids) \in Nat /\ DOMAIN c \subseteq Nat \ {0} /\ 1 \in Nat \ {0}
  BY <1>2, <1>3, SMTT(40) DEF Frames
<1> HIDE DEF c, s, up
<1>7. ASSUME NEW f \in Frames, stack' = Continue(f), f.node = n,
             f.next \in 1 .. Len(node.kids) + 1,
             Calling(node, f.i, f.stage, f.item, f.next, rounds[n], c, Len(s))
      PROVE  Counted'
  BY <1>1, <1>3, <1>4, <1>5, <1>7, CountsContinue DEF c
<1>8. CASE SetUpSingle
  <2> DEFINE f == [top EXCEPT !.stage = "run", !.elapsed = 0, !.item = 0]
  <2>1. stack' = Continue(f) /\ top.stage = "loop"
    BY <1>8 DEF SetUpSingle, At
  <2>2. /\ f \in Frames /\ f.node = n /\ f.i = top.i /\ f.stage = "run" /\ f.item = 0
        /\ f.next = top.next
    BY <1>2 DEF Frames
  <2> HIDE DEF f
  <2>3. Calling(node, f.i, f.stage, f.item, f.next, rounds[n], c, Len(s))
    BY <1>3, <2>1, <2>2, CallingSetUp
  <2> QED
    BY <1>3, <1>7, <2>1, <2>2, <2>3
<1>9. CASE RunOnce
  <2> DEFINE f == [top EXCEPT !.stage = "instructions", !.next = 1]
  <2>1. stack' = Continue(f) /\ top.stage = "run" /\ node.kind = "set"
    BY <1>9 DEF RunOnce, At
  <2>2. /\ f \in Frames /\ f.node = n /\ f.i = top.i /\ f.stage = "instructions"
        /\ f.item = top.item /\ f.next = 1
    BY <1>2, <1>6, Zenon DEF Frames
  <2> HIDE DEF f
  <2>3. Calling(node, top.i, "run", top.item, top.next, rounds[n], c, Len(s))
    BY <1>3, <2>1
  <2>4. Calling(node, top.i, "instructions", top.item, 1, rounds[n], c, Len(s))
    BY <1>2, <1>3, <1>6, <2>1, <2>3, CallingPass
  <2>5. Calling(node, f.i, f.stage, f.item, f.next, rounds[n], c, Len(s))
    BY <2>2, <2>4
  <2> QED
    BY <1>6, <1>7, <2>1, <2>2, <2>5
<1>10. CASE NextItem
  <2> DEFINE f == [top EXCEPT !.stage = "instructions", !.item = up, !.next = 1]
  <2>1. stack' = Continue(f) /\ top.stage = "run" /\ node.kind = "iterate"
    BY <1>10 DEF NextItem, At, up
  <2>2. /\ f \in Frames /\ f.node = n /\ f.i = top.i /\ f.stage = "instructions"
        /\ f.item = up /\ f.next = 1
    BY <1>2, <1>6, Zenon DEF Frames
  <2> HIDE DEF f
  <2>3. Calling(node, top.i, "run", top.item, top.next, rounds[n], c, Len(s))
    BY <1>3, <2>1
  <2>4. Calling(node, top.i, "instructions", up, 1, rounds[n], c, Len(s))
    BY <1>2, <1>3, <1>6, <2>1, <2>3, CallingPass DEF up
  <2>5. Calling(node, f.i, f.stage, f.item, f.next, rounds[n], c, Len(s))
    BY <2>2, <2>4
  <2> QED
    BY <1>6, <1>7, <2>1, <2>2, <2>5
<1>11. CASE EndOfList
  <2> DEFINE f == [top EXCEPT !.stage = "teardown"]
  <2>1. stack' = Continue(f) /\ top.stage = "run" /\ node.kind = "iterate"
    BY <1>11 DEF EndOfList, At
  <2>2. /\ f \in Frames /\ f.node = n /\ f.i = top.i /\ f.stage = "teardown"
        /\ f.item = top.item /\ f.next = top.next
    BY <1>2 DEF Frames
  <2> HIDE DEF f
  <2>3. Calling(node, f.i, f.stage, f.item, f.next, rounds[n], c, Len(s))
    BY <1>3, <2>1, <2>2, CallingEnd
  <2> QED
    BY <1>3, <1>7, <2>1, <2>2, <2>3
<1>12. CASE EndInstructions
  <2> DEFINE to == IF node.kind = "iterate" THEN "run" ELSE "teardown"
             f == [top EXCEPT !.stage = to]
  <2>1. stack' = Continue(f) /\ top.stage = "instructions" /\ top.next > Len(node.kids)
    BY <1>12 DEF EndInstructions, At
  <2>2. /\ f \in Frames /\ f.node = n /\ f.i = top.i /\ f.stage = to
        /\ f.item = top.item /\ f.next = top.next
    BY <1>2 DEF Frames
  <2>3. \A j \in DOMAIN c : ~(j >= top.next)
    BY <1>3, <1>6, <2>1, SMTT(40)
  <2> HIDE DEF f
  <2>4. Calling(node, f.i, f.stage, f.item, f.next, rounds[n], c, Len(s))
    BY <1>3, <2>1, <2>2, <2>3, CallingPassed
  <2> QED
    BY <1>3, <1>7, <2>1, <2>2, <2>4
<1> QED
  BY <1>8, <1>9, <1>10, <1>11, <1>12

\* RunSingle of an instruction that contains no other.
LEMMA CountsRunSingle ==
  ASSUME IInv, Counted, NEW d \in Durations, RunSingle(d)
  PROVE  Counted'
<1> DEFINE n == top.node
           l == Len(stack)
           f == stack'[l]
<1>1. stack # <<>> /\ top.stage = "run" /\ node.kind \in {"leaf", "mem_alloc"}
  BY DEF RunSingle, At
<1>2. /\ n \in Nodes /\ node \in NodeRecords /\ top \in Frames /\ d \in Nat
      /\ l \in Nat \ {0} /\ DOMAIN stack = 1 .. l /\ top = stack[l]
      /\ stack \in Seq(Frames)
  BY <1>1, StackTop, InstructionSetAssumption DEF IInv, Typed
<1>3. /\ samples[n] \in Seq(Nat) /\ top.next \in 1 .. Len(node.kids) + 1
      /\ DOMAIN KidRounds(rounds, n) = 1 .. Len(node.kids)
      /\ Calling(node, top.i, top.stage, top.item, top.next, rounds[n],
                 KidRounds(rounds, n), Len(samples[n]))
  BY <1>1, TopCounted
<1>4. node.kids = <<>>
  BY <1>1, <1>2, ProgramTree DEF IInv, node
<1>5. /\ prog' = prog /\ rounds' = rounds /\ samples' = samples
      /\ samples \in [Nodes -> Seq(Nat)]
      /\ stack' = [k \in 1 .. l |->
                     [stack[k] EXCEPT !.elapsed = @ + d,
                                      !.stage = IF k = l THEN "teardown" ELSE @]]
  BY <1>2 DEF RunSingle, Counted
<1>6. samples' = [samples EXCEPT ![n] = samples[n]]
  BY <1>2, <1>5
<1> HIDE DEF l
<1>7. ASSUME NEW k \in 1 .. l
      PROVE  /\ stack'[k] \in Frames /\ stack'[k].node = stack[k].node
             /\ stack'[k].i = stack[k].i /\ stack'[k].item = stack[k].item
             /\ stack'[k].next = stack[k].next
             /\ stack'[k].stage = IF k = l THEN "teardown" ELSE stack[k].stage
             /\ stack'[k].elapsed = stack[k].elapsed + d
  <2>1. stack[k] \in Frames
    BY <1>2
  <2>2. stack[k].elapsed + d \in Nat
    BY <1>2, <2>1, SMTT(40) DEF Frames
  <2> QED
    BY <1>5, <2>1, <2>2 DEF Frames
<1>8. stack' \in Seq(Frames) /\ Len(stack') = l
  <2>1. stack' \in [1 .. l -> Frames]
    BY <1>5, <1>7
  <2> QED
    BY <1>2, <2>1
<1>9. \A k \in 1 .. l - 1 :
        /\ stack'[k].node = stack[k].node /\ stack'[k].i = stack[k].i
        /\ stack'[k].stage = stack[k].stage /\ stack'[k].item = stack[k].item
        /\ stack'[k].next = stack[k].next
  <2>1. \A k \in 1 .. l - 1 : k \in 1 .. l /\ k # l
    BY <1>2
  <2> QED
    BY <1>7, <2>1
<1>10. /\ f \in Frames /\ f.node = n /\ f.i = top.i /\ f.item = top.item
       /\ f.next = top.next /\ f.stage = "teardown"
  <2>1. l \in 1 .. l
    BY <1>2
  <2> QED
    BY <1>2, <1>7, <2>1
<1>11. DOMAIN KidRounds(rounds, n) = {}
  BY <1>4 DEF KidRounds, node
<1>12. Calling(node, f.i, f.stage, f.item, f.next, rounds[n], KidRounds(rounds, n), Len(samples[n]))
  BY <1>1, <1>3, <1>10, <1>11, CallingRun
<1> HIDE DEF f
<1> QED
  BY <1>1, <1>3, <1>5, <1>6, <1>8, <1>9, <1>10, <1>12, CountsTop DEF f, l

\* TearDownSingle records a sample, except that of mem_alloc.
LEMMA CountsTearDownSingle == IInv /\ Counted /\ TearDownSingle => Counted'
<1> SUFFICES ASSUME IInv, Counted, TearDownSingle PROVE Counted'
  OBVIOUS
<1> DEFINE n == top.node
           up == top.i + 1
           f == [top EXCEPT !.stage = "loop", !.i = up]
           s == IF node.kind = "mem_alloc" THEN samples[n] ELSE Append(samples[n], top.elapsed)
<1>1. stack # <<>> /\ top.stage = "teardown"
  BY DEF TearDownSingle, At
<1>2. /\ n \in Nodes /\ node \in NodeRecords /\ top \in Frames /\ FrameOf(node, top)
      /\ rounds[n] \in Nat
  BY <1>1, TopKnown
<1>3. /\ samples[n] \in Seq(Nat) /\ rounds[n] >= 1 /\ top.next \in 1 .. Len(node.kids) + 1
      /\ Calling(node, top.i, top.stage, top.item, top.next, rounds[n],
                 KidRounds(rounds, n), Len(samples[n]))
  BY <1>1, TopCounted
<1>4. prog' = prog /\ rounds' = rounds /\ samples \in [Nodes -> Seq(Nat)]
  BY DEF TearDownSingle, Counted
<1>5. samples' = [samples EXCEPT ![n] = s]
  BY <1>2, <1>4 DEF TearDownSingle
<1>6. top.i \in Nat /\ top.item \in Nat /\ up \in Nat /\ top.elapsed \in Nat
  BY <1>2 DEF Frames
<1>7. s \in Seq(Nat) /\ Len(s) = IF node.kind = "mem_alloc" THEN Len(samples[n]) ELSE Len(samples[n]) + 1
  BY <1>3, <1>6
<1>8. stack' = Continue(f)
  BY DEF TearDownSingle
<1>9. /\ f \in Frames /\ f.node = n /\ f.i = top.i + 1 /\ f.stage = "loop"
      /\ f.item = top.item /\ f.next = top.next
  <2> HIDE DEF up
  <2>1. /\ f \in Frames /\ f.node = n /\ f.i = up /\ f.stage = "loop"
        /\ f.item = top.item /\ f.next = top.next
    BY <1>2, <1>6 DEF Frames
  <2> QED
    BY <2>1 DEF up
<1>10. node.kind = "iterate" => top.item = node.list
  BY <1>1, <1>2 DEF FrameOf
<1>11. Len(samples[n]) \in Nat
  BY <1>3
<1> HIDE DEF f, s, up
<1>12. Calling(node, f.i, f.stage, f.item, f.next, rounds[n], KidRounds(rounds, n), Len(s))
  BY <1>1, <1>2, <1>3, <1>6, <1>7, <1>9, <1>10, <1>11, CallingTearDown, SMTT(40)
<1> QED
  BY <1>1, <1>3, <1>4, <1>5, <1>7, <1>8, <1>9, <1>12, CountsContinue

\* What a call makes of the stack: a frame more, for an instruction that is
\* not running.
LEMMA CallShape ==
  ASSUME IInv, CallInstruction
  PROVE  LET l == Len(stack)
             kid == node.kids[top.next]
         IN  /\ l \in Nat \ {0} /\ DOMAIN stack = 1 .. l /\ DOMAIN stack' = 1 .. l + 1
             /\ top = stack[l] /\ top.node \in Nodes /\ top.stage = "instructions"
             /\ top.next \in DOMAIN node.kids /\ kid \in Nodes /\ kid # 1
             /\ stack'[l + 1] = Frame(kid) /\ stack'[l].next = top.next + 1
             /\ \A k \in 1 .. l - 1 : stack'[k] = stack[k]
             /\ \A k \in 1 .. l :
                  /\ stack'[k].node = stack[k].node /\ stack'[k].i = stack[k].i
                  /\ stack'[k].stage = stack[k].stage /\ stack'[k].item = stack[k].item
                  /\ stack'[k].elapsed = stack[k].elapsed
                  /\ stack[k].node \in Nodes /\ stack[k].node # kid
             /\ prog' = prog /\ samples' = samples
             /\ rounds[kid] \in Nat /\ rounds'[kid] = rounds[kid] + 1
             /\ \A m \in Nodes : m # kid => rounds'[m] = rounds[m]
<1> DEFINE n == top.node
           l == Len(stack)
           kid == node.kids[top.next]
           up == top.next + 1
           f == [top EXCEPT !.next = up]
<1>1. /\ stack # <<>> /\ top.stage = "instructions" /\ top.next <= Len(node.kids)
      /\ Typed /\ FramesFit /\ Descending
  BY DEF CallInstruction, At, IInv
<1>2. /\ n \in Nodes /\ node \in NodeRecords /\ top \in Frames
      /\ l \in Nat \ {0} /\ DOMAIN stack = 1 .. l /\ top = stack[l]
  BY <1>1, StackTop
<1>3. /\ f \in Frames /\ f.node = n /\ f.i = top.i /\ f.stage = top.stage /\ f.item = top.item
      /\ f.elapsed = top.elapsed /\ f.next = up
  <2>1. up \in Nat \ {0}
    BY <1>2 DEF Frames
  <2> HIDE DEF up
  <2> QED
    BY <1>2, <2>1 DEF Frames
<1>4. /\ kid \in Nodes /\ kid > n /\ kid \in Nat /\ n \in Nat /\ n >= 1
      /\ top.next \in DOMAIN node.kids
  <2>1. top.next \in DOMAIN node.kids
    BY <1>1, <1>2 DEF Frames, NodeRecords
  <2> QED
    BY <1>1, <1>2, <2>1, ProgramNodes DEF node
<1>5. /\ Continue(f) \in Seq(Frames) /\ Len(Continue(f)) = l /\ Continue(f)[l] = f
      /\ \A k \in 1 .. l - 1 : Continue(f)[k] = stack[k]
  BY <1>1, <1>3, Replaced
<1>6. Frame(kid) \in Frames
  BY <1>4 DEF Frame, Frames
<1>7. stack' = Append(Continue(f), Frame(kid))
  BY DEF CallInstruction
<1> HIDE DEF f
<1>8. /\ DOMAIN stack' = 1 .. l + 1
      /\ \A k \in 1 .. l - 1 : stack'[k] = stack[k]
      /\ stack'[l] = f /\ stack'[l + 1] = Frame(kid)
  <2> DEFINE c == Continue(f)
             e == Frame(kid)
  <2>1. /\ c \in Seq(Frames) /\ Len(c) = l /\ l \in Nat \ {0} /\ e \in Frames
        /\ stack' = Append(c, e)
    BY <1>2, <1>5, <1>6, <1>7
  <2> HIDE DEF c, e, l
  <2>2. /\ DOMAIN stack' = 1 .. l + 1
        /\ \A k \in 1 .. l : stack'[k] = c[k]
        /\ stack'[l + 1] = e
    BY <2>1
  <2>3. l \in 1 .. l /\ \A k \in 1 .. l - 1 : k \in 1 .. l
    BY <2>1
  <2> QED
    BY <1>5, <2>2, <2>3 DEF c, e
<1>9. \A k \in 1 .. l :
        /\ stack'[k].node = stack[k].node /\ stack'[k].i = stack[k].i
        /\ stack'[k].stage = stack[k].stage /\ stack'[k].item = stack[k].item
        /\ stack'[k].elapsed = stack[k].elapsed
  <2> SUFFICES ASSUME NEW k \in 1 .. l
               PROVE  /\ stack'[k].node = stack[k].node /\ stack'[k].i = stack[k].i
                      /\ stack'[k].stage = stack[k].stage /\ stack'[k].item = stack[k].item
                      /\ stack'[k].elapsed = stack[k].elapsed
    OBVIOUS
  <2>1. CASE k = l
    BY <1>2, <1>3, <1>8, <2>1
  <2>2. CASE k # l
    <3>1. k \in 1 .. l - 1
      <4> HIDE DEF l
      <4> QED
        BY <1>2, <2>2
    <3> QED
      BY <1>8, <3>1
  <2> QED
    BY <2>1, <2>2
<1>10. \A k \in 1 .. l : stack[k].node \in Nodes /\ stack[k].node # kid
  <2> SUFFICES ASSUME NEW k \in 1 .. l PROVE stack[k].node \in Nodes /\ stack[k].node # kid
    OBVIOUS
  <2>1. stack[k].node \in Nodes /\ stack[k].node \in Nat
    BY <1>1, <1>2, ProgramNodes DEF FramesFit
  <2>2. k = l \/ stack[k].node < n
    <3>1. k = l \/ k < l
      <4> HIDE DEF l
      <4> QED
        BY <1>2
    <3>2. k \in DOMAIN stack /\ l \in DOMAIN stack
      BY <1>2
    <3> QED
      BY <1>1, <1>2, <3>1, <3>2 DEF Descending
  <2> HIDE DEF kid, n
  <2>3. k = l => stack[k].node = n
    BY <1>2 DEF n
  <2> QED
    BY <1>4, <2>1, <2>2, <2>3
<1>11. rounds \in [Nodes -> Nat] /\ prog' = prog /\ samples' = samples
       /\ rounds' = [rounds EXCEPT ![kid] = rounds[kid] + 1]
  BY <1>1, <1>4 DEF CallInstruction, Typed
<1>12. /\ rounds[kid] \in Nat /\ rounds'[kid] = rounds[kid] + 1
       /\ \A m \in Nodes : m # kid => rounds'[m] = rounds[m]
  BY <1>4, <1>11
<1>13. kid # 1
  <2> HIDE DEF kid, n
  <2> QED
    BY <1>4
<1> QED
  BY <1>1, <1>2, <1>3, <1>4, <1>8, <1>9, <1>10, <1>11, <1>12, <1>13

\* A call: the rounds of the instruction called change for the set that
\* contains it only.
LEMMA CountsCall == IInv /\ Counted /\ CallInstruction => Counted'
<1> SUFFICES ASSUME IInv, Counted, CallInstruction PROVE Counted'
  OBVIOUS
<1> DEFINE n == top.node
           l == Len(stack)
           kid == node.kids[top.next]
<1>1. /\ l \in Nat \ {0} /\ DOMAIN stack = 1 .. l /\ DOMAIN stack' = 1 .. l + 1
      /\ top = stack[l] /\ n \in Nodes /\ top.stage = "instructions"
      /\ top.next \in DOMAIN node.kids /\ kid \in Nodes /\ kid # 1
  BY CallShape
<1>2. /\ stack'[l + 1] = Frame(kid) /\ stack'[l].next = top.next + 1
      /\ \A k \in 1 .. l - 1 : stack'[k] = stack[k]
      /\ \A k \in 1 .. l :
           /\ stack'[k].node = stack[k].node /\ stack'[k].i = stack[k].i
           /\ stack'[k].stage = stack[k].stage /\ stack'[k].item = stack[k].item
  BY CallShape
<1>3. \A k \in 1 .. l : stack[k].node \in Nodes /\ stack[k].node # kid
  BY CallShape
<1>4. /\ prog' = prog /\ samples' = samples
      /\ rounds[kid] \in Nat /\ rounds'[kid] = rounds[kid] + 1
      /\ \A m \in Nodes : m # kid => rounds'[m] = rounds[m]
  BY CallShape
<1>5. stack # <<>> /\ Typed /\ Descending /\ samples \in [Nodes -> Seq(Nat)]
  BY DEF IInv, Counted, CallInstruction, At
<1>6. Chained /\ QuietKnown /\ CallingKnown
  BY DEF Counted
<1>7. Nodes' = Nodes
  BY <1>4 DEF Nodes
<1>8. /\ node \in NodeRecords /\ node = prog[n] /\ top \in Frames /\ rounds[n] \in Nat
      /\ rounds[n] >= 1 /\ node.kids \in Seq(Nat)
      /\ Calling(node, top.i, top.stage, top.item, top.next, rounds[n],
                 KidRounds(rounds, n), Len(samples[n]))
  BY <1>5, TopKnown, TopCounted DEF node
<1>9. top.next \in Nat \ {0} /\ DOMAIN node.kids = 1 .. Len(node.kids) /\ Len(node.kids) \in Nat
  BY <1>8 DEF Frames
<1>10. \A k \in 1 .. l + 1 : k = l + 1 \/ k \in 1 .. l
  <2> HIDE DEF l
  <2> QED
    BY <1>1
<1>11. l \in 1 .. l
  <2> HIDE DEF l
  <2> QED
    BY <1>1
<1>12. \A k \in 1 .. l : k # l => k \in 1 .. l - 1 /\ stack[k].node # n
  <2> SUFFICES ASSUME NEW k \in 1 .. l, k # l PROVE k \in 1 .. l - 1 /\ stack[k].node # n
    OBVIOUS
  <2>1. k \in 1 .. l - 1 /\ k < l
    <3> HIDE DEF l
    <3> QED
      BY <1>1, SMTT(40)
  <2>2. stack[k].node < stack[l].node
    BY <1>1, <1>5, <1>11, <2>1, ZenonT(60) DEF Descending
  <2>3. stack[k].node \in Nat /\ n \in Nat /\ stack[l].node = n
    <3>1. \A x \in Nodes : x \in Nat
      BY <1>5, ProgramNodes
    <3> QED
      BY <1>1, <1>3, <3>1
  <2> HIDE DEF n, l
  <2> QED
    BY <2>1, <2>2, <2>3
<1> HIDE DEF l
<1>13. kid # n
  BY <1>1, <1>3, <1>11
<1>14. \A m \in Nodes : \A j \in DOMAIN prog[m].kids :
         /\ prog[m].kids[j] \in Nodes
         /\ prog[m].kids[j] = kid => m = n /\ j = top.next
  <2> SUFFICES ASSUME NEW m \in Nodes, NEW j \in DOMAIN prog[m].kids
               PROVE  /\ prog[m].kids[j] \in Nodes
                      /\ prog[m].kids[j] = kid => m = n /\ j = top.next
    OBVIOUS
  <2>1. prog[m].kids[j] \in Nodes
    BY <1>5, ProgramNodes
  <2>2. top.next \in DOMAIN prog[n].kids /\ kid = prog[n].kids[top.next]
    BY <1>1, <1>8
  <2>3. prog[m].kids[j] = prog[n].kids[top.next] => m = n /\ j = top.next
    BY <1>1, <1>5, <2>2, ProgramTree
  <2> QED
    BY <2>1, <2>2, <2>3
<1> HIDE DEF kid
<1>15. \A m \in Nodes : m # n => KidRounds(rounds', m) = KidRounds(rounds, m)
  <2> SUFFICES ASSUME NEW m \in Nodes, m # n PROVE KidRounds(rounds', m) = KidRounds(rounds, m)
    OBVIOUS
  <2>1. \A j \in DOMAIN prog[m].kids : rounds'[prog[m].kids[j]] = rounds[prog[m].kids[j]]
    BY <1>4, <1>14
  <2> QED
    BY <1>4, <2>1 DEF KidRounds
<1>16. /\ DOMAIN KidRounds(rounds', n) = DOMAIN KidRounds(rounds, n)
       /\ DOMAIN KidRounds(rounds, n) = DOMAIN node.kids
       /\ \A j \in DOMAIN KidRounds(rounds, n) :
            KidRounds(rounds', n)[j] = IF j = top.next THEN KidRounds(rounds, n)[j] + 1 ELSE KidRounds(rounds, n)[j]
  <2>1. DOMAIN KidRounds(rounds', n) = DOMAIN prog[n].kids /\ DOMAIN KidRounds(rounds, n) = DOMAIN prog[n].kids
    BY <1>4 DEF KidRounds
  <2>2. ASSUME NEW j \in DOMAIN prog[n].kids
        PROVE  KidRounds(rounds', n)[j] = IF j = top.next THEN KidRounds(rounds, n)[j] + 1 ELSE KidRounds(rounds, n)[j]
    <3>1. KidRounds(rounds', n)[j] = rounds'[prog[n].kids[j]] /\ KidRounds(rounds, n)[j] = rounds[prog[n].kids[j]]
      BY <1>4 DEF KidRounds
    <3>2. prog[n].kids[j] \in Nodes /\ (prog[n].kids[j] = kid <=> j = top.next)
      BY <1>1, <1>8, <1>14 DEF kid
    <3> QED
      BY <1>4, <3>1, <3>2
  <2> QED
    BY <1>8, <2>1, <2>2
<1>17. Chained'
  <2>1. stack'[1].node = 1
    <3>1. 1 \in 1 .. l
      BY <1>1
    <3> QED
      BY <1>2, <1>5, <1>6, <3>1 DEF Chained
  <2>2. ASSUME NEW k \in 1 .. l + 1
        PROVE  stack'[k].next \in 1 .. Len(prog[stack'[k].node].kids) + 1
    <3>1. CASE k = l + 1
      <4>1. stack'[k].next = 1 /\ stack'[k].node = kid
        BY <1>2, <3>1 DEF Frame
      <4>2. prog[kid] \in NodeRecords
        BY <1>1, <1>5, ProgramNodes
      <4>3. Len(prog[kid].kids) \in Nat
        BY <4>2 DEF NodeRecords
      <4> QED
        BY <4>1, <4>3
    <3>2. CASE k = l
      <4>1. stack'[k].next = top.next + 1 /\ stack'[k].node = n
        BY <1>1, <1>2, <1>11, <3>2
      <4> QED
        BY <1>1, <1>8, <1>9, <4>1, SMTT(40)
    <3>3. CASE k \in 1 .. l /\ k # l
      <4>1. stack[k].next \in 1 .. Len(prog[stack[k].node].kids) + 1
        BY <1>1, <1>6, <3>3 DEF Chained
      <4> QED
        BY <1>2, <1>12, <3>3, <4>1
    <3> QED
      BY <1>10, <3>1, <3>2, <3>3
  <2>3. ASSUME NEW k \in 1 .. l + 1, k + 1 \in 1 .. l + 1
        PROVE  /\ stack'[k].stage = "instructions" /\ stack'[k].next > 1
               /\ stack'[k + 1].node = prog[stack'[k].node].kids[stack'[k].next - 1]
    <3>1. k \in 1 .. l
      BY <1>1, <2>3
    <3>2. CASE k = l
      <4>1. stack'[k].stage = "instructions" /\ stack'[k].node = n
        BY <1>1, <1>2, <1>11, <3>2
      <4>2. stack'[k].next = top.next + 1
        BY <1>2, <3>2
      <4>3. stack'[k + 1].node = kid
        BY <1>2, <3>2 DEF Frame
      <4>4. (top.next + 1) - 1 = top.next /\ top.next + 1 > 1
        BY <1>9
      <4> QED
        BY <1>8, <4>1, <4>2, <4>3, <4>4 DEF kid
    <3>3. CASE k # l
      <4>1. k + 1 \in 1 .. l
        BY <1>1, <3>1, <3>3
      <4>2. /\ stack[k].stage = "instructions" /\ stack[k].next > 1
            /\ stack[k + 1].node = prog[stack[k].node].kids[stack[k].next - 1]
        BY <1>1, <1>6, <3>1, <4>1 DEF Chained
      <4>3. stack'[k] = stack[k] /\ stack'[k + 1].node = stack[k + 1].node
        BY <1>2, <1>12, <3>1, <3>3, <4>1
      <4> QED
        BY <4>2, <4>3
    <3> QED
      BY <3>2, <3>3
  <2> QED
    BY <1>1, <1>4, <2>1, <2>2, <2>3 DEF Chained
<1>18. \A m : KidRounds(rounds, m)' = KidRounds(rounds', m)
  BY <1>4 DEF KidRounds
<1>19. QuietKnown'
  <2> SUFFICES ASSUME NEW m \in Nodes, \A k \in 1 .. l + 1 : stack'[k].node # m
               PROVE  Quiet(prog[m], rounds'[m], KidRounds(rounds', m), Len(samples[m]))
    BY <1>1, <1>4, <1>7, <1>18 DEF QuietKnown
  <2>1. (\A k \in 1 .. l : k \in 1 .. l + 1) /\ l + 1 \in 1 .. l + 1
    BY <1>1
  <2>2. \A k \in DOMAIN stack : stack[k].node # m
    BY <1>1, <1>2, <2>1
  <2>3. m # n
    BY <1>1, <1>11, <2>2
  <2>4. m # kid
    <3>1. stack'[l + 1].node = kid
      BY <1>2 DEF Frame
    <3> QED
      BY <2>1, <3>1
  <2>5. Quiet(prog[m], rounds[m], KidRounds(rounds, m), Len(samples[m]))
    BY <1>6, <2>2 DEF QuietKnown
  <2> QED
    BY <1>4, <1>15, <2>3, <2>4, <2>5
<1>20. CallingKnown'
  <2> SUFFICES ASSUME NEW k \in 1 .. l + 1
               PROVE  LET e == stack'[k]
                          m == e.node
                      IN  Calling(prog[m], e.i, e.stage, e.item, e.next, rounds'[m],
                                  KidRounds(rounds', m), Len(samples[m]))
    BY <1>1, <1>4, <1>18 DEF CallingKnown
  <2>1. CASE k = l + 1
    <3>1. Quiet(prog[kid], rounds[kid], KidRounds(rounds, kid), Len(samples[kid]))
      BY <1>1, <1>3, <1>6 DEF QuietKnown
    <3>2. prog[kid] \in NodeRecords
      BY <1>1, <1>5, ProgramNodes
    <3>3. Calling(prog[kid], 0, "loop", 0, 1, rounds[kid] + 1, KidRounds(rounds, kid), Len(samples[kid]))
      BY <1>4, <3>1, <3>2, QuietCall
    <3>4. /\ stack'[k].node = kid /\ stack'[k].i = 0 /\ stack'[k].stage = "loop"
          /\ stack'[k].item = 0 /\ stack'[k].next = 1
      BY <1>2, <2>1 DEF Frame
    <3>5. KidRounds(rounds', kid) = KidRounds(rounds, kid)
      BY <1>1, <1>13, <1>15
    <3> QED
      BY <1>4, <3>3, <3>4, <3>5
  <2>2. CASE k = l
    <3>1. /\ stack'[k].node = n /\ stack'[k].i = top.i /\ stack'[k].stage = "instructions"
          /\ stack'[k].item = top.item /\ stack'[k].next = top.next + 1
      BY <1>1, <1>2, <1>11, <2>2
    <3>2. rounds'[n] = rounds[n]
      BY <1>1, <1>4, <1>13
    <3>3. top.i \in Nat /\ top.item \in Nat /\ DOMAIN KidRounds(rounds, n) \subseteq Nat \ {0}
      BY <1>8, <1>9, <1>16 DEF Frames
    <3>4. Calling(node, top.i, "instructions", top.item, top.next, rounds[n],
                  KidRounds(rounds, n), Len(samples[n]))
      BY <1>1, <1>8
    <3>5. Calling(node, top.i, "instructions", top.item, top.next + 1, rounds[n],
                  KidRounds(rounds', n), Len(samples[n]))
      BY <1>8, <1>9, <1>16, <3>3, <3>4, CallingNext
    <3> QED
      BY <1>8, <3>1, <3>2, <3>5
  <2>3. CASE k \in 1 .. l /\ k # l
    <3>1. LET e == stack[k]
              m == e.node
          IN  Calling(prog[m], e.i, e.stage, e.item, e.next, rounds[m],
                      KidRounds(rounds, m), Len(samples[m]))
      BY <1>1, <1>6, <2>3 DEF CallingKnown
    <3>2. stack'[k] = stack[k]
      BY <1>2, <1>12, <2>3
    <3>3. /\ rounds'[stack[k].node] = rounds[stack[k].node]
          /\ KidRounds(rounds', stack[k].node) = KidRounds(rounds, stack[k].node)
      BY <1>3, <1>4, <1>12, <1>15, <2>3
    <3> QED
      BY <3>1, <3>2, <3>3
  <2> QED
    BY <1>10, <2>1, <2>2, <2>3
<1> QED
  BY <1>4, <1>5, <1>7, <1>17, <1>19, <1>20 DEF Counted

\* The end of a call.
LEMMA CountsReturn == IInv /\ Counted /\ Return => Counted'
<1> SUFFICES ASSUME IInv, Counted, Return PROVE Counted'
  OBVIOUS
<1> DEFINE n == top.node
           l == Len(stack)
<1>1. stack # <<>> /\ top.stage = "loop" /\ top.i >= node.repeat
  BY DEF Return, At
<1>2. /\ n \in Nodes /\ node \in NodeRecords /\ top \in Frames /\ FrameOf(node, top)
      /\ l \in Nat \ {0} /\ DOMAIN stack = 1 .. l /\ top = stack[l] /\ rounds[n] \in Nat
  BY <1>1, StackTop, TopKnown DEF IInv
<1>3. DOMAIN stack' = 1 .. l - 1 /\ \A k \in 1 .. l - 1 : stack'[k] = stack[k]
  BY <1>1, <1>2, Popped DEF Return, IInv
<1>4. prog' = prog /\ rounds' = rounds /\ samples' = samples
  BY DEF Return
<1>5. top.i = node.repeat
  BY <1>1, <1>2 DEF FrameOf, NodeRecords
<1>6. Quiet(node, rounds[n], KidRounds(rounds, n), Len(samples[n]))
  BY <1>1, <1>2, <1>5, TopCounted, CallingReturn
<1>7. Nodes' = Nodes /\ samples \in [Nodes -> Seq(Nat)] /\ Chained /\ QuietKnown /\ CallingKnown
  BY <1>4 DEF Nodes, Counted
<1>8. \A m : KidRounds(rounds, m)' = KidRounds(rounds, m)
  BY <1>4 DEF KidRounds
<1>9. \A k \in 1 .. l - 1 : k \in 1 .. l
  <2> HIDE DEF l
  <2> QED
    BY <1>2
<1> HIDE DEF l, n
<1>10. Chained'
  <2>1. stack' # <<>> => stack'[1].node = 1
    <3>1. ASSUME stack' # <<>> PROVE 1 \in 1 .. l - 1
      <4>1. stack' = Front(stack) /\ Front(stack) \in Seq(Frames)
        BY <1>1, Popped DEF Return, IInv
      <4>2. DOMAIN stack' = 1 .. Len(stack') /\ Len(stack') \in Nat \ {0}
        BY <3>1, <4>1
      <4> QED
        BY <1>2, <1>3, <4>2
    <3> QED
      BY <1>1, <1>3, <1>7, <3>1 DEF Chained
  <2>2. \A k \in 1 .. l - 1 : stack'[k].next \in 1 .. Len(prog[stack'[k].node].kids) + 1
    BY <1>2, <1>3, <1>7, <1>9 DEF Chained
  <2>3. ASSUME NEW k \in 1 .. l - 1, k + 1 \in 1 .. l - 1
        PROVE  /\ stack'[k].stage = "instructions" /\ stack'[k].next > 1
               /\ stack'[k + 1].node = prog[stack'[k].node].kids[stack'[k].next - 1]
    <3>1. /\ stack[k].stage = "instructions" /\ stack[k].next > 1
          /\ stack[k + 1].node = prog[stack[k].node].kids[stack[k].next - 1]
      BY <1>2, <1>7, <1>9, <2>3 DEF Chained
    <3> QED
      BY <1>3, <2>3, <3>1
  <2> QED
    BY <1>3, <1>4, <2>1, <2>2, <2>3 DEF Chained
<1>11. QuietKnown'
  <2> SUFFICES ASSUME NEW m \in Nodes, \A k \in 1 .. l - 1 : stack[k].node # m
               PROVE  Quiet(prog[m], rounds[m], KidRounds(rounds, m), Len(samples[m]))
    BY <1>3, <1>4, <1>7, <1>8 DEF QuietKnown
  <2>1. CASE m = n
    BY <1>6, <2>1 DEF node, n
  <2>2. CASE m # n
    <3>1. \A k \in DOMAIN stack : stack[k].node # m
      <4> SUFFICES ASSUME NEW k \in 1 .. l PROVE stack[k].node # m
        BY <1>2
      <4>1. CASE k = l
        BY <1>2, <2>2, <4>1 DEF n
      <4>2. CASE k # l
        <5>1. k \in 1 .. l - 1
          BY <1>2, <4>2
        <5> QED
          BY <5>1
      <4> QED
        BY <4>1, <4>2
    <3> QED
      BY <1>7, <3>1 DEF QuietKnown
  <2> QED
    BY <2>1, <2>2
<1>12. CallingKnown'
  <2> SUFFICES ASSUME NEW k \in 1 .. l - 1
               PROVE  LET e == stack[k]
                          m == e.node
                      IN  Calling(prog[m], e.i, e.stage, e.item, e.next, rounds[m],
                                  KidRounds(rounds, m), Len(samples[m]))
    BY <1>3, <1>4, <1>8 DEF CallingKnown
  <2> QED
    BY <1>2, <1>7, <1>9 DEF CallingKnown
<1> QED
  BY <1>4, <1>7, <1>10, <1>11, <1>12 DEF Counted

\* Before the root runs, only it has been called.
LEMMA CountsInit == Init => Counted
<1> SUFFICES ASSUME Init PROVE Counted
  OBVIOUS
<1>1. /\ prog \in Programs /\ stack = <<Frame(1)>> /\ samples = [n \in Nodes |-> <<>>]
      /\ rounds = [n \in Nodes |-> IF n = 1 THEN 1 ELSE 0]
  BY DEF Init
<1>2. Typed
  BY InitIInv DEF IInv
<1>3. DOMAIN stack = {1} /\ stack[1] = Frame(1)
  BY <1>1
<1>4. stack[1].node = 1 /\ stack[1].i = 0 /\ stack[1].stage = "loop" /\ stack[1].item = 0
      /\ stack[1].next = 1
  BY <1>3 DEF Frame
<1>5. 1 \in Nodes /\ Nodes \subseteq Nat
  BY <1>2, ProgramNodes
<1>6. samples \in [Nodes -> Seq(Nat)] /\ \A n \in Nodes : Len(samples[n]) = 0
  BY <1>1
<1>7. \A n \in Nodes : /\ prog[n] \in NodeRecords /\ prog[n].repeat \in Nat /\ prog[n].list \in Nat
                       /\ Len(prog[n].kids) \in Nat /\ prog[n].kids \in Seq(Nat)
  BY <1>2, ProgramNodes DEF NodeRecords
<1>8. \A n \in Nodes : \A j \in DOMAIN KidRounds(rounds, n) : KidRounds(rounds, n)[j] = 0
  <2> SUFFICES ASSUME NEW n \in Nodes, NEW j \in DOMAIN prog[n].kids
               PROVE  rounds[prog[n].kids[j]] = 0
    BY DEF KidRounds
  <2>1. prog[n].kids[j] \in Nodes /\ prog[n].kids[j] > n /\ n >= 1
    BY <1>2, ProgramNodes
  <2>2. prog[n].kids[j] # 1
    BY <1>5, <2>1
  <2> QED
    BY <1>1, <2>1, <2>2
<1>9. \A n \in Nodes : Quiet(prog[n], 0, KidRounds(rounds, n), Len(samples[n]))
  <2> SUFFICES ASSUME NEW n \in Nodes PROVE Quiet(prog[n], 0, KidRounds(rounds, n), Len(samples[n]))
    OBVIOUS
  <2>1. Passes(prog[n]) \in Nat
    BY <1>7 DEF Passes
  <2>2. 0 * prog[n].repeat = 0 /\ 0 * Passes(prog[n]) = 0
    BY <1>7, <2>1
  <2> QED
    BY <1>6, <1>8, <2>2 DEF Quiet, Recorded
<1>10. Chained
  <2>1. ~(1 + 1 \in {1})
    OBVIOUS
  <2> QED
    BY <1>3, <1>4, <1>5, <1>7, <2>1 DEF Chained
<1>11. QuietKnown
  <2> SUFFICES ASSUME NEW n \in Nodes, n # 1
               PROVE  Quiet(prog[n], rounds[n], KidRounds(rounds, n), Len(samples[n]))
    BY <1>3, <1>4 DEF QuietKnown
  <2>1. rounds[n] = 0
    BY <1>1
  <2> QED
    BY <1>9, <2>1
<1>12. CallingKnown
  <2>1. rounds[1] = 0 + 1
    BY <1>1, <1>5
  <2>2. Calling(prog[1], 0, "loop", 0, 1, 0 + 1, KidRounds(rounds, 1), Len(samples[1]))
    BY <1>5, <1>7, <1>9, QuietCall
  <2> QED
    BY <1>3, <1>4, <2>1, <2>2 DEF CallingKnown
<1> QED
  BY <1>6, <1>10, <1>11, <1>12 DEF Counted

\* The steps that touch neither the stack nor the samples.
LEMMA CountsStutter ==
  ASSUME Counted, prog' = prog, stack' = stack, samples' = samples, rounds' = rounds
  PROVE  Counted'
<1>1. Nodes' = Nodes
  BY DEF Nodes
<1>2. \A m : KidRounds(rounds, m)' = KidRounds(rounds, m)
  BY DEF KidRounds
<1>3. Chained'
  BY DEF Counted, Chained
<1>4. QuietKnown'
  BY <1>1, <1>2 DEF Counted, QuietKnown
<1>5. CallingKnown'
  BY <1>2 DEF Counted, CallingKnown
<1> QED
  BY <1>1, <1>3, <1>4, <1>5 DEF Counted

\* Every step keeps the counts.
LEMMA CountsStep == IInv /\ Counted /\ [Next]_vars => Counted'
<1> SUFFICES ASSUME IInv, Counted, [Next]_vars PROVE Counted'
  OBVIOUS
<1>1. CASE SetUpSingle \/ RunOnce \/ NextItem \/ EndOfList \/ EndInstructions
  BY <1>1, CountsInside
<1>2. CASE NotIterable \/ CollectResults \/ UNCHANGED vars
  BY <1>2, CountsStutter DEF NotIterable, CollectResults, vars
<1>3. CASE CallInstruction
  BY <1>3, CountsCall
<1>4. CASE TearDownSingle
  BY <1>4, CountsTearDownSingle
<1>5. CASE Return
  BY <1>5, CountsReturn
<1>6. CASE \E d \in Durations : RunSingle(d)
  BY <1>6, CountsRunSingle
<1> QED
  BY <1>1, <1>2, <1>3, <1>4, <1>5, <1>6 DEF Next

\* Every instruction is called as often as the repetitions of the set that
\* contains it, and the items it iterates over, ask for, and records a sample
\* for each repetition: InstructionSet::RunInstructions and the loop of
\* Instruction::Run.
THEOREM CallsAlwaysCounted == Spec => []Counted
<1>1. Init => Counted
  BY CountsInit
<1>2. IInv /\ Counted /\ [Next]_vars => Counted'
  BY CountsStep
<1> QED
  BY <1>1, <1>2, Invariance, PTL DEF Spec

-----------------------------------------------------------------------------
(* Folds over sequences *)

\* Induction up to a bound: a set of numbers with 0 and, below the bound,
\* every successor has all of them.
LEMMA BoundedInduction ==
  ASSUME NEW N \in Nat, NEW S, 0 \in S, \A m \in 0 .. N - 1 : m \in S => m + 1 \in S
  PROVE  \A m \in 0 .. N : m \in S
<1> DEFINE T == {m \in Nat : m <= N => m \in S}
<1>1. T \in SUBSET Nat /\ 0 \in T
  OBVIOUS
<1>2. ASSUME NEW m \in T PROVE m + 1 \in T
  OBVIOUS
<1>3. T = Nat
  <2> HIDE DEF T
  <2> QED
    BY <1>1, <1>2, SetInduction
<1> QED
  BY <1>3

\* The largest element of a set of positions.
LEMMA MaxIn ==
  ASSUME NEW N \in Nat, NEW t \in SUBSET (1 .. N), t # {}
  PROVE  Max(t) \in t
<1> DEFINE T == {y \in Nat : \E x \in t : y = N - x}
<1>1. T \in SUBSET Nat /\ T # {}
  <2>1. PICK x \in t : TRUE
    OBVIOUS
  <2>2. N - x \in T
    BY <2>1
  <2> QED
    BY <2>2
<1>2. PICK y \in T : \A z \in T : y <= z
  <2> HIDE DEF T
  <2> QED
    BY <1>1, LeastNatural
<1>3. PICK x \in t : y = N - x
  BY <1>2
<1>4. \A z \in t : x >= z
  <2> SUFFICES ASSUME NEW z \in t PROVE x >= z
    OBVIOUS
  <2>1. N - z \in T
    OBVIOUS
  <2>2. N - x <= N - z
    BY <1>2, <1>3, <2>1
  <2>3. x \in Int /\ z \in Int
    OBVIOUS
  <2> QED
    BY <2>2, <2>3
<1>5. \E u \in t : \A z \in t : u >= z
  BY <1>4
<1> QED
  BY <1>5, Zenon DEF Max

\* The largest of the first positions, and the positions before it.
LEMMA MaxFirst ==
  ASSUME NEW m \in Nat
  PROVE  Max(1 .. m + 1) = m + 1 /\ (1 .. m + 1) \ {m + 1} = 1 .. m
<1> DEFINE x == Max(1 .. m + 1)
<1>1. \E u \in 1 .. m + 1 : \A z \in 1 .. m + 1 : u >= z
  <2>1. m + 1 \in 1 .. m + 1 /\ \A z \in 1 .. m + 1 : m + 1 >= z
    OBVIOUS
  <2> QED
    BY <2>1
<1>2. x \in 1 .. m + 1 /\ \A z \in 1 .. m + 1 : x >= z
  BY <1>1, Zenon DEF Max
<1>3. x >= m + 1 /\ x <= m + 1 /\ x \in Int
  <2> HIDE DEF x
  <2> QED
    BY <1>2
<1>4. x = m + 1
  <2> HIDE DEF x
  <2> QED
    BY <1>3
<1>5. (1 .. m + 1) \ {m + 1} = 1 .. m
  OBVIOUS
<1> QED
  BY <1>4, <1>5

\* The recursive function of a fold over N positions, from b: A adds a position
\* to a value in V.
FoldOf(f, N, V, b, A) ==
  /\ f \in [SUBSET (1 .. N) -> V]
  /\ \A t \in SUBSET (1 .. N) :
       f[t] = IF t = {} THEN b ELSE A[<<Max(t), f[t \ {Max(t)}]>>]

\* It exists.
LEMMA FoldExists ==
  ASSUME NEW N \in Nat, NEW V, NEW b \in V, NEW A \in [(1 .. N) \X V -> V]
  PROVE  \E f : FoldOf(f, N, V, b, A)
<1> DEFINE S == 1 .. N
           D(m) == {s \in SUBSET S : Cardinality(s) <= m}
           Good(g, m) == /\ g \in [D(m) -> V]
                         /\ \A t \in D(m) :
                              g[t] = IF t = {} THEN b ELSE A[<<Max(t), g[t \ {Max(t)}]>>]
           T == {m \in Nat : \E g : Good(g, m)}
<1>0. IsFiniteSet(S) /\ Cardinality(S) \in Nat
  BY FS_Interval, FS_CardinalityType
<1>1. \A s \in SUBSET S : IsFiniteSet(s) /\ Cardinality(s) \in Nat
  BY <1>0, FS_Subset, FS_CardinalityType
<1>2. ASSUME NEW s \in SUBSET S, s # {}
      PROVE  /\ Max(s) \in s /\ Max(s) \in S /\ s \ {Max(s)} \in SUBSET S
             /\ Cardinality(s \ {Max(s)}) = Cardinality(s) - 1
  <2>1. Max(s) \in s
    BY <1>2, MaxIn
  <2> QED
    BY <1>1, <2>1, FS_RemoveElement
<1>3. 0 \in T
  <2> DEFINE g == [s \in D(0) |-> b]
  <2>1. ASSUME NEW s \in D(0) PROVE s = {}
    BY <1>1, FS_EmptySet
  <2>2. Good(g, 0)
    BY <2>1
  <2> QED
    BY <2>2
<1>4. ASSUME NEW m \in T PROVE m + 1 \in T
  <2>0. m \in Nat
    BY <1>4
  <2>1. PICK g : Good(g, m)
    BY <1>4
  <2> DEFINE h == [s \in D(m + 1) |-> IF s = {} THEN b
                                      ELSE A[<<Max(s), g[s \ {Max(s)}]>>]]
  <2>2. ASSUME NEW s \in D(m) PROVE s \in D(m + 1) /\ h[s] = g[s]
    <3>1. s \in D(m + 1)
      BY <1>1, <2>0
    <3> QED
      BY <2>1, <3>1
  <2>3. ASSUME NEW s \in D(m + 1), s # {} PROVE s \ {Max(s)} \in D(m)
    BY <1>1, <1>2, <2>0, <2>3
  <2>4. ASSUME NEW s \in D(m + 1)
        PROVE  h[s] = IF s = {} THEN b ELSE A[<<Max(s), h[s \ {Max(s)}]>>]
    BY <2>2, <2>3
  <2>5. ASSUME NEW s \in D(m + 1) PROVE h[s] \in V
    <3>1. CASE s = {}
      BY <3>1
    <3>2. CASE s # {}
      <4>1. g[s \ {Max(s)}] \in V
        BY <2>1, <2>3, <3>2
      <4>2. Max(s) \in S
        BY <1>2, <3>2
      <4>3. A[<<Max(s), g[s \ {Max(s)}]>>] \in V
        BY <4>1, <4>2
      <4> QED
        BY <3>2, <4>3
    <3> QED
      BY <3>1, <3>2
  <2>6. h \in [D(m + 1) -> V]
    BY <2>5
  <2> HIDE DEF h, D
  <2>7. Good(h, m + 1)
    BY <2>4, <2>6
  <2> HIDE DEF Good
  <2>8. m + 1 \in Nat
    BY <2>0
  <2> QED
    BY <2>7, <2>8
<1>5. T = Nat
  <2> HIDE DEF T
  <2>1. T \in SUBSET Nat
    BY DEF T
  <2> QED
    BY <1>3, <1>4, <2>1, SetInduction
<1>6. D(Cardinality(S)) = SUBSET S
  BY <1>0, <1>1, FS_Subset
<1>7. PICK g : Good(g, Cardinality(S))
  BY <1>0, <1>5
<1> HIDE DEF D
<1> QED
  BY <1>6, <1>7 DEF FoldOf

\* The sums of the first elements of s, up to N of them.
Chain(h, s, N) == h[0] = 0 /\ \A m \in 0 .. N - 1 : h[m + 1] = h[m] + s[m + 1]

\* Total adds up a sequence from its first element.
LEMMA TotalChain ==
  ASSUME NEW s \in Seq(Nat)
  PROVE  \E h : Chain(h, s, Len(s)) /\ Total(s) = h[Len(s)]
<1> DEFINE N == Len(s)
           S == DOMAIN s
           Rec(g) == g = [t \in SUBSET S |-> IF t = {} THEN 0
                            ELSE LET x == Max(t) IN g[t \ {x}] + s[x]]
           f == CHOOSE g : Rec(g)
           A == [p \in (1 .. N) \X Nat |-> p[2] + s[p[1]]]
<1>1. N \in Nat /\ S = 1 .. N /\ \A x \in S : s[x] \in Nat
  OBVIOUS
<1>2. Total(s) = f[S]
  BY DEF Total, FoldLeft, MapThenFoldSet
<1>3. A \in [(1 .. N) \X Nat -> Nat]
  <2>1. ASSUME NEW p \in (1 .. N) \X Nat PROVE p[2] + s[p[1]] \in Nat
    <3>1. p[1] \in 1 .. N /\ p[2] \in Nat
      OBVIOUS
    <3>2. s[p[1]] \in Nat
      BY <1>1, <3>1
    <3> QED
      BY <3>1, <3>2
  <2> HIDE DEF N
  <2> QED
    BY <2>1
<1> HIDE DEF N
<1>4. PICK g : FoldOf(g, N, Nat, 0, A)
  <2>1. 0 \in Nat /\ N \in Nat
    BY <1>1
  <2> HIDE DEF A
  <2> QED
    BY <1>3, <2>1, FoldExists
<1>5. Rec(g)
  <2>1. ASSUME NEW t \in SUBSET S
        PROVE  g[t] = IF t = {} THEN 0 ELSE LET x == Max(t) IN g[t \ {x}] + s[x]
    <3>0. g[t] = IF t = {} THEN 0 ELSE A[<<Max(t), g[t \ {Max(t)}]>>]
      BY <1>1, <1>4 DEF FoldOf
    <3>1. CASE t = {}
      BY <3>0, <3>1
    <3>2. CASE t # {}
      <4>1. Max(t) \in 1 .. N
        BY <1>1, <3>2, MaxIn
      <4>2. g[t \ {Max(t)}] \in Nat
        BY <1>1, <1>4 DEF FoldOf
      <4>3. <<Max(t), g[t \ {Max(t)}]>> \in (1 .. N) \X Nat
        BY <4>1, <4>2
      <4>4. A[<<Max(t), g[t \ {Max(t)}]>>] = g[t \ {Max(t)}] + s[Max(t)]
        BY <4>3
      <4> QED
        BY <3>0, <3>2, <4>4
    <3> QED
      BY <3>1, <3>2
  <2>2. g = [t \in SUBSET S |-> g[t]]
    BY <1>1, <1>4 DEF FoldOf
  <2> QED
    BY <2>1, <2>2
<1>6. Rec(f)
  <2> HIDE DEF Rec
  <2> QED
    BY <1>5, Zenon
<1>7. \A t \in SUBSET S : f[t] = IF t = {} THEN 0 ELSE LET x == Max(t) IN f[t \ {x}] + s[x]
  <2> HIDE DEF f
  <2> QED
    BY <1>6
<1> HIDE DEF f, A, Rec
<1> DEFINE h == [m \in 0 .. N |-> f[1 .. m]]
<1>8. h[0] = 0
  <2>1. 1 .. 0 = {} /\ {} \in SUBSET S /\ 0 \in 0 .. N
    BY <1>1
  <2>2. f[{}] = 0
    BY <1>7, <2>1
  <2> QED
    BY <2>1, <2>2
<1>9. ASSUME NEW m \in 0 .. N - 1 PROVE h[m + 1] = h[m] + s[m + 1]
  <2>1. m \in Nat /\ m \in 0 .. N /\ m + 1 \in 0 .. N /\ 1 .. m + 1 \in SUBSET S /\ 1 .. m + 1 # {}
    BY <1>1
  <2>2. Max(1 .. m + 1) = m + 1 /\ (1 .. m + 1) \ {m + 1} = 1 .. m
    BY <2>1, MaxFirst
  <2>3. f[1 .. m + 1] = f[(1 .. m + 1) \ {Max(1 .. m + 1)}] + s[Max(1 .. m + 1)]
    BY <1>7, <2>1
  <2> QED
    BY <2>1, <2>2, <2>3
<1>10. Total(s) = h[N]
  <2>1. N \in 0 .. N
    BY <1>1
  <2> QED
    BY <1>1, <1>2, <2>1
<1>11. Chain(h, s, N)
  BY <1>8, <1>9 DEF Chain
<1> QED
  BY <1>10, <1>11 DEF N

\* The sum of the first elements.
Prefix(s, m) == Total([i \in 1 .. m |-> s[i]])

\* Two sums of the same elements.
LEMMA ChainUnique ==
  ASSUME NEW N \in Nat, NEW s, \A i \in 1 .. N : s[i] \in Nat,
         NEW g, NEW h, Chain(g, s, N), Chain(h, s, N)
  PROVE  \A m \in 0 .. N : g[m] \in Nat /\ h[m] = g[m]
<1> DEFINE T == {m \in Nat : g[m] \in Nat /\ h[m] = g[m]}
<1>1. 0 \in T
  BY DEF Chain
<1>2. ASSUME NEW m \in 0 .. N - 1, m \in T PROVE m + 1 \in T
  <2>1. m + 1 \in 1 .. N /\ m + 1 \in Nat
    OBVIOUS
  <2>2. s[m + 1] \in Nat /\ g[m] \in Nat /\ h[m] = g[m]
    BY <1>2, <2>1
  <2>3. g[m + 1] = g[m] + s[m + 1] /\ h[m + 1] = h[m] + s[m + 1]
    BY DEF Chain
  <2>4. g[m + 1] \in Nat
    BY <2>2, <2>3
  <2> QED
    BY <2>1, <2>2, <2>3, <2>4
<1>3. \A m \in 0 .. N : m \in T
  <2> HIDE DEF T
  <2> QED
    BY <1>1, <1>2, BoundedInduction
<1> QED
  BY <1>3

\* The sums of the first elements, one by one.
LEMMA PrefixSums ==
  ASSUME NEW s \in Seq(Nat)
  PROVE  /\ Prefix(s, 0) = 0 /\ Prefix(s, Len(s)) = Total(s)
         /\ \A m \in 0 .. Len(s) : Prefix(s, m) \in Nat
         /\ \A m \in 0 .. Len(s) - 1 : Prefix(s, m + 1) = Prefix(s, m) + s[m + 1]
<1>0. Len(s) \in Nat /\ \A i \in 1 .. Len(s) : s[i] \in Nat
  OBVIOUS
<1>1. PICK h : Chain(h, s, Len(s)) /\ Total(s) = h[Len(s)]
  BY TotalChain
<1>2. ASSUME NEW m \in 0 .. Len(s) PROVE Prefix(s, m) = h[m] /\ h[m] \in Nat
  <2> DEFINE p == [i \in 1 .. m |-> s[i]]
  <2>1. m \in Nat /\ \A i \in 1 .. m : p[i] = s[i] /\ s[i] \in Nat
    BY <1>0
  <2>2. p \in Seq(Nat) /\ Len(p) = m
    <3>1. p \in [1 .. m -> Nat]
      BY <2>1
    <3> HIDE DEF p
    <3> QED
      BY <2>1, <3>1
  <2> HIDE DEF p
  <2>3. PICK g : Chain(g, p, m) /\ Total(p) = g[m]
    BY <2>2, TotalChain
  <2>4. Chain(g, s, m)
    <3>1. \A j \in 0 .. m - 1 : j + 1 \in 1 .. m
      BY <2>1
    <3> QED
      BY <2>1, <2>3, <3>1 DEF Chain
  <2>5. Chain(h, s, m)
    <3>1. \A j \in 0 .. m - 1 : j \in 0 .. Len(s) - 1
      BY <1>0
    <3> QED
      BY <1>1, <3>1 DEF Chain
  <2>6. \A j \in 0 .. m : g[j] \in Nat /\ h[j] = g[j]
    BY <2>1, <2>4, <2>5, ChainUnique
  <2>7. m \in 0 .. m
    BY <2>1
  <2> QED
    BY <2>3, <2>6, <2>7 DEF Prefix, p
<1>3. /\ 0 \in 0 .. Len(s) /\ Len(s) \in 0 .. Len(s)
      /\ \A m \in 0 .. Len(s) - 1 : m \in 0 .. Len(s) /\ m + 1 \in 0 .. Len(s)
  BY <1>0
<1>4. Prefix(s, 0) = 0 /\ Prefix(s, Len(s)) = Total(s)
  BY <1>1, <1>2, <1>3 DEF Chain
<1>5. \A m \in 0 .. Len(s) : Prefix(s, m) \in Nat
  BY <1>2
<1>6. ASSUME NEW m \in 0 .. Len(s) - 1 PROVE Prefix(s, m + 1) = Prefix(s, m) + s[m + 1]
  <2>1. Prefix(s, m) = h[m] /\ Prefix(s, m + 1) = h[m + 1]
    BY <1>2, <1>3
  <2> QED
    BY <1>1, <2>1 DEF Chain
<1> QED
  BY <1>4, <1>5, <1>6

-----------------------------------------------------------------------------
(* Recursion down the tree *)

\* Induction from the last node of a tree to the root.
LEMMA DownInduction ==
  ASSUME NEW N \in Nat, NEW S,
         \A n \in 1 .. N : (\A m \in 1 .. N : m > n => m \in S) => n \in S
  PROVE  \A n \in 1 .. N : n \in S
<1> DEFINE T == {k \in Nat : \A m \in 1 .. N : m > N - k => m \in S}
<1>1. 0 \in T
  OBVIOUS
<1>2. ASSUME NEW k \in 0 .. N - 1, k \in T PROVE k + 1 \in T
  <2> SUFFICES ASSUME NEW m \in 1 .. N, m > N - (k + 1) PROVE m \in S
    OBVIOUS
  <2>1. CASE m > N - k
    BY <1>2, <2>1
  <2>2. CASE ~(m > N - k)
    <3>1. m = N - k
      BY <2>2
    <3>2. \A j \in 1 .. N : j > m => j \in S
      BY <1>2, <3>1
    <3> QED
      BY <3>2
  <2> QED
    BY <2>1, <2>2
<1>3. N \in T
  <2> HIDE DEF T
  <2>1. \A k \in 0 .. N : k \in T
    BY <1>1, <1>2, BoundedInduction
  <2> QED
    BY <2>1
<1>4. \A m \in 1 .. N : m > N - N
  OBVIOUS
<1> QED
  BY <1>3, <1>4

\* A function whose value at n is given by A from its values above n.
DownOf(f, N, V, A) == f \in [1 .. N -> V] /\ \A n \in 1 .. N : f[n] = A[<<n, f>>]

\* What A makes of a function at n depends on its values above n only.
Looks(N, V, A) ==
  \A n \in 1 .. N : \A f, g \in [1 .. N -> V] :
    (\A m \in 1 .. N : m > n => f[m] = g[m]) => A[<<n, f>>] = A[<<n, g>>]

\* There is one.
LEMMA DownExists ==
  ASSUME NEW N \in Nat, NEW V, NEW v \in V, NEW A \in [(1 .. N) \X [1 .. N -> V] -> V],
         Looks(N, V, A)
  PROVE  \E f : DownOf(f, N, V, A)
<1> DEFINE Good(f, k) == /\ f \in [1 .. N -> V]
                         /\ \A n \in 1 .. N : n > N - k => f[n] = A[<<n, f>>]
           T == {k \in Nat : \E f : Good(f, k)}
<1>1. 0 \in T
  <2> DEFINE f == [n \in 1 .. N |-> v]
  <2>1. Good(f, 0)
    OBVIOUS
  <2> QED
    BY <2>1
<1>2. ASSUME NEW k \in 0 .. N - 1, k \in T PROVE k + 1 \in T
  <2>1. PICK f : Good(f, k)
    BY <1>2
  <2> DEFINE x == N - k
             y == A[<<x, f>>]
             g == [f EXCEPT ![x] = y]
  <2>2. x \in 1 .. N /\ f \in [1 .. N -> V]
    BY <2>1
  <2> HIDE DEF x
  <2>3. y \in V
    BY <2>2
  <2> HIDE DEF y
  <2>4. g \in [1 .. N -> V] /\ g[x] = y /\ \A m \in 1 .. N : m # x => g[m] = f[m]
    BY <2>2, <2>3
  <2> HIDE DEF g
  <2>5. \A n \in 1 .. N : n >= x => \A m \in 1 .. N : m > n => g[m] = f[m]
    BY <2>2, <2>4
  <2>6. \A n \in 1 .. N : n >= x => A[<<n, g>>] = A[<<n, f>>]
    <3> SUFFICES ASSUME NEW n \in 1 .. N, n >= x PROVE A[<<n, g>>] = A[<<n, f>>]
      OBVIOUS
    <3>1. \A m \in 1 .. N : m > n => g[m] = f[m]
      BY <2>5
    <3> QED
      BY <2>2, <2>4, <3>1 DEF Looks
  <2>7. ASSUME NEW n \in 1 .. N, n > N - (k + 1) PROVE g[n] = A[<<n, g>>]
    <3>1. n = x \/ (n > N - k /\ n # x)
      BY <2>7 DEF x
    <3>2. n >= x
      BY <3>1 DEF x
    <3>3. CASE n = x
      BY <2>4, <2>6, <3>2, <3>3 DEF y
    <3>4. CASE n > N - k /\ n # x
      BY <2>1, <2>4, <2>6, <3>2, <3>4
    <3> QED
      BY <3>1, <3>3, <3>4
  <2>8. Good(g, k + 1)
    BY <2>4, <2>7
  <2> HIDE DEF Good
  <2> QED
    BY <2>8
<1>3. N \in T
  <2> HIDE DEF T
  <2>1. \A k \in 0 .. N : k \in T
    BY <1>1, <1>2, BoundedInduction
  <2> QED
    BY <2>1
<1>4. PICK f : Good(f, N)
  BY <1>3
<1>5. \A n \in 1 .. N : n > N - N
  OBVIOUS
<1>6. DownOf(f, N, V, A)
  BY <1>4, <1>5 DEF DownOf
<1> QED
  BY <1>6

-----------------------------------------------------------------------------
(* How many durations an instruction contributes *)

\* What the number of durations of an instruction is made of.
LEMMA WeightOf ==
  ASSUME Typed
  PROVE  /\ Weight \in [Nodes -> Nat]
         /\ \A n \in Nodes :
              Weight[n] = IF prog[n].kids = <<>> THEN 1 ELSE Passes(prog[n]) * Weight[prog[n].kids[1]]
<1> DEFINE N == Len(prog)
           kids(n) == prog[n].kids
           Rec(g) == g = [n \in Nodes |->
                            IF prog[n].kids = <<>> THEN 1
                            ELSE (IF prog[n].kind = "iterate" THEN prog[n].list ELSE 1)
                                   * g[prog[n].kids[1]]]
           f == CHOOSE g : Rec(g)
           A == [p \in (1 .. N) \X [1 .. N -> Nat] |->
                   IF kids(p[1]) = <<>> THEN 1 ELSE Passes(prog[p[1]]) * p[2][kids(p[1])[1]]]
<1>1. N \in Nat /\ Nodes = 1 .. N
  BY ProgramNodes
<1>2. \A n \in Nodes : Passes(prog[n]) \in Nat
  BY ProgramNodes DEF Passes, NodeRecords
<1>3. \A n \in Nodes : kids(n) # <<>> => kids(n)[1] \in Nodes /\ kids(n)[1] > n
  <2> SUFFICES ASSUME NEW n \in Nodes, kids(n) # <<>> PROVE 1 \in DOMAIN kids(n)
    BY ProgramNodes
  <2>1. kids(n) \in Seq(Nat)
    BY ProgramNodes DEF NodeRecords
  <2> HIDE DEF kids
  <2> QED
    BY <2>1
<1>4. Weight = f
  BY DEF Weight
<1> HIDE DEF N, kids
<1>5. A \in [(1 .. N) \X [1 .. N -> Nat] -> Nat]
  <2>1. ASSUME NEW p \in (1 .. N) \X [1 .. N -> Nat]
        PROVE  (IF kids(p[1]) = <<>> THEN 1 ELSE Passes(prog[p[1]]) * p[2][kids(p[1])[1]]) \in Nat
    <3>1. p[1] \in Nodes /\ p[2] \in [Nodes -> Nat]
      BY <1>1
    <3>2. CASE kids(p[1]) # <<>>
      <4>1. Passes(prog[p[1]]) \in Nat /\ p[2][kids(p[1])[1]] \in Nat
        BY <1>2, <1>3, <3>1, <3>2
      <4> QED
        BY <3>2, <4>1
    <3> QED
      BY <3>2
  <2> QED
    BY <2>1
<1>6. \A n \in 1 .. N : \A g \in [1 .. N -> Nat] :
        A[<<n, g>>] = IF kids(n) = <<>> THEN 1 ELSE Passes(prog[n]) * g[kids(n)[1]]
  OBVIOUS
<1> HIDE DEF A
<1>7. Looks(N, Nat, A)
  <2> SUFFICES ASSUME NEW n \in 1 .. N, NEW g \in [1 .. N -> Nat], NEW h \in [1 .. N -> Nat],
                      \A m \in 1 .. N : m > n => g[m] = h[m]
               PROVE  A[<<n, g>>] = A[<<n, h>>]
    BY DEF Looks
  <2>1. kids(n) # <<>> => g[kids(n)[1]] = h[kids(n)[1]]
    BY <1>1, <1>3
  <2>2. A[<<n, g>>] = IF kids(n) = <<>> THEN 1 ELSE Passes(prog[n]) * g[kids(n)[1]]
    BY <1>6
  <2>3. A[<<n, h>>] = IF kids(n) = <<>> THEN 1 ELSE Passes(prog[n]) * h[kids(n)[1]]
    BY <1>6
  <2> QED
    BY <2>1, <2>2, <2>3
<1>8. PICK g : DownOf(g, N, Nat, A)
  <2>1. 0 \in Nat
    OBVIOUS
  <2> QED
    BY <1>1, <1>5, <1>7, <2>1, DownExists
<1>9. g \in [Nodes -> Nat] /\ \A n \in Nodes :
        g[n] = IF kids(n) = <<>> THEN 1 ELSE Passes(prog[n]) * g[kids(n)[1]]
  BY <1>1, <1>6, <1>8 DEF DownOf
<1>10. Rec(g)
  BY <1>9 DEF kids, Passes
<1>11. Rec(f)
  <2> HIDE DEF Rec
  <2> QED
    BY <1>10, Zenon
<1> HIDE DEF f
<1>12. \A n \in Nodes : f[n] = IF kids(n) = <<>> THEN 1 ELSE Passes(prog[n]) * f[kids(n)[1]]
  BY <1>11 DEF kids, Passes
<1>13. f = [n \in Nodes |-> f[n]]
  BY <1>11
<1> HIDE DEF Rec
<1>14. \A n \in 1 .. N : n \in {m \in Nodes : f[m] \in Nat}
  <2> DEFINE S == {m \in Nodes : f[m] \in Nat}
  <2>1. ASSUME NEW n \in 1 .. N, \A m \in 1 .. N : m > n => m \in S PROVE n \in S
    <3>1. CASE kids(n) = <<>>
      BY <1>1, <1>12, <3>1
    <3>2. CASE kids(n) # <<>>
      <4>1. f[kids(n)[1]] \in Nat
        BY <1>1, <1>3, <2>1, <3>2
      <4>2. f[n] = Passes(prog[n]) * f[kids(n)[1]] /\ Passes(prog[n]) \in Nat
        BY <1>1, <1>2, <1>12, <3>2
      <4> QED
        BY <1>1, <4>1, <4>2
    <3> QED
      BY <3>1, <3>2
  <2> HIDE DEF S
  <2>2. \A n \in 1 .. N : n \in S
    BY <1>1, <2>1, DownInduction
  <2> QED
    BY <2>2 DEF S
<1>15. f \in [Nodes -> Nat]
  BY <1>1, <1>13, <1>14
<1> QED
  BY <1>4, <1>12, <1>15 DEF kids

-----------------------------------------------------------------------------
(* The results of the instructions of a set added up *)

\* What CollectResults of an instruction comes to.
Outcomes == [outcome : {"reported", "exited", "undefined"}, duration : Seq(Nat)]

\* The sum of a sequence of numbers is one.
LEMMA TotalNat ==
  ASSUME NEW s \in Seq(Nat)
  PROVE  Total(s) \in Nat
<1>1. Len(s) \in 0 .. Len(s)
  OBVIOUS
<1> QED
  BY <1>1, PrefixSums

\* The groups of a sequence lie inside it.
LEMMA GroupInside ==
  ASSUME NEW l \in Nat, NEW r \in Nat \ {0}
  PROVE  /\ l \div r \in Nat /\ (l \div r) * r <= l
         /\ \A i \in 1 .. l \div r : (i - 1) * r \in Nat /\ i * r = (i - 1) * r + r /\ i * r <= l
<1> DEFINE q == l \div r
<1>1. q \in Nat
  OBVIOUS
<1>2. q * r <= l
  OBVIOUS
<1> HIDE DEF q
<1>3. ASSUME NEW i \in 1 .. q PROVE (i - 1) * r \in Nat /\ i * r = (i - 1) * r + r /\ i * r <= l
  <2>1. i - 1 \in Nat /\ q - i \in Nat /\ i \in Nat
    BY <1>1
  <2>2. (i - 1) * r \in Nat /\ (q - i) * r \in Nat
    BY <2>1
  <2>3. i * r = (i - 1) * r + r /\ q * r = i * r + (q - i) * r
    BY <1>1, <2>1
  <2> QED
    BY <1>2, <2>2, <2>3
<1> QED
  BY <1>1, <1>2, <1>3 DEF q

\* One group of samples.
LEMMA GroupShape ==
  ASSUME NEW s \in Seq(Nat), NEW a \in Nat, NEW r \in Nat, a + r <= Len(s)
  PROVE  /\ SubSeq(s, a + 1, a + r) \in Seq(Nat) /\ Len(SubSeq(s, a + 1, a + r)) = r
         /\ \A j \in 1 .. r : SubSeq(s, a + 1, a + r)[j] = s[a + j]
<1> DEFINE b == a + 1
           c == a + r
<1>1. b \in Int /\ c \in Int /\ c - b + 1 = r /\ \A j \in 1 .. r : b + j - 1 = a + j
  OBVIOUS
<1>2. \A j \in b .. c : s[j] \in Nat
  OBVIOUS
<1>3. IF b <= c THEN c - b + 1 = r ELSE 0 = r
  OBVIOUS
<1> HIDE DEF b, c
<1>4. /\ SubSeq(s, b, c) \in Seq(Nat)
      /\ Len(SubSeq(s, b, c)) = IF b <= c THEN c - b + 1 ELSE 0
      /\ \A j \in 1 .. c - b + 1 : SubSeq(s, b, c)[j] = s[b + j - 1]
  BY <1>1, <1>2, SubSeqProperties
<1>5. Len(SubSeq(s, b, c)) = r
  BY <1>3, <1>4
<1>6. \A j \in 1 .. r : SubSeq(s, b, c)[j] = s[a + j]
  BY <1>1, <1>4
<1> QED
  BY <1>4, <1>5, <1>6 DEF b, c

\* The samples of an instruction added up are numbers, one for each group.
LEMMA GroupedShape ==
  ASSUME NEW s \in Seq(Nat), NEW r \in Nat \ {0}
  PROVE  Grouped(s, r) \in Seq(Nat) /\ Len(Grouped(s, r)) = Len(s) \div r
<1> DEFINE q == Len(s) \div r
           Sum(i) == Total(SubSeq(s, (i - 1) * r + 1, i * r))
<1>1. Len(s) \in Nat
  OBVIOUS
<1>2. /\ q \in Nat
      /\ \A i \in 1 .. q : (i - 1) * r \in Nat /\ i * r = (i - 1) * r + r /\ i * r <= Len(s)
  BY <1>1, GroupInside
<1>3. Grouped(s, r) = [i \in 1 .. q |-> Sum(i)]
  BY DEF Grouped
<1> HIDE DEF q
<1>4. ASSUME NEW i \in 1 .. q PROVE Sum(i) \in Nat
  <2> DEFINE a == (i - 1) * r
  <2>1. a \in Nat /\ i * r = a + r /\ a + r <= Len(s)
    BY <1>2
  <2> HIDE DEF a
  <2>2. SubSeq(s, a + 1, a + r) \in Seq(Nat)
    BY <2>1, GroupShape
  <2>3. Total(SubSeq(s, a + 1, a + r)) \in Nat
    BY <2>2, TotalNat
  <2> QED
    BY <2>1, <2>3 DEF a
<1> HIDE DEF Sum
<1>5. [i \in 1 .. q |-> Sum(i)] \in [1 .. q -> Nat]
  BY <1>4
<1> DEFINE p == Grouped(s, r)
<1>6. p \in [1 .. q -> Nat]
  BY <1>3, <1>5
<1> HIDE DEF p
<1>7. p \in Seq(Nat) /\ Len(p) = q
  BY <1>2, <1>6
<1> QED
  BY <1>7 DEF p, q

\* Adding keeps the number of durations.
LEMMA AccumulateShape ==
  ASSUME NEW d \in Seq(Nat), NEW g \in Seq(Nat)
  PROVE  /\ Accumulate(d, g) \in Seq(Nat)
         /\ Len(Accumulate(d, g)) = IF d = <<>> THEN Len(g) ELSE Len(d)
<1>1. CASE d = <<>>
  BY <1>1 DEF Accumulate
<1>2. CASE d # <<>>
  <2> DEFINE Sum(i) == d[i] + (IF i \in DOMAIN g THEN g[i] ELSE 0)
  <2>1. \A i \in 1 .. Len(d) : Sum(i) \in Nat
    OBVIOUS
  <2>2. Accumulate(d, g) = [i \in 1 .. Len(d) |-> Sum(i)]
    BY <1>2 DEF Accumulate
  <2> HIDE DEF Sum
  <2> DEFINE p == Accumulate(d, g)
             N == Len(d)
  <2>3. N \in Nat /\ p \in [1 .. N -> Nat]
    BY <2>1, <2>2
  <2> HIDE DEF p, N
  <2>4. p \in Seq(Nat) /\ Len(p) = N
    BY <2>3
  <2> QED
    BY <1>2, <2>4 DEF p, N
<1> QED
  BY <1>1, <1>2

\* What adding a result to those before it gives.
LEMMA AddedShape ==
  ASSUME NEW acc \in Outcomes, NEW result \in Outcomes, NEW repeat \in Nat,
         result.outcome = "reported" => repeat > 0
  PROVE  Added(acc, result, repeat) \in Outcomes
<1>1. CASE acc.outcome # "reported" \/ result.outcome # "reported"
  BY <1>1 DEF Added
<1>2. CASE acc.outcome = "reported" /\ result.outcome = "reported"
  <2> DEFINE g == Grouped(result.duration, repeat)
  <2>1. g \in Seq(Nat)
    BY <1>2, GroupedShape DEF Outcomes
  <2> HIDE DEF g
  <2>2. Accumulate(acc.duration, g) \in Seq(Nat)
    BY <2>1, AccumulateShape DEF Outcomes
  <2>3. Added(acc, result, repeat) = IF Overruns(acc.duration, g)
                                       THEN [outcome |-> "undefined", duration |-> <<>>]
                                       ELSE [acc EXCEPT !.duration = Accumulate(@, g)]
    BY <1>2 DEF Added, g
  <2>4. [outcome |-> "undefined", duration |-> <<>>] \in Outcomes
    BY DEF Outcomes
  <2>5. [acc EXCEPT !.duration = Accumulate(@, g)] \in Outcomes
    BY <2>2 DEF Outcomes
  <2> QED
    BY <2>3, <2>4, <2>5
<1> QED
  BY <1>1, <1>2

\* The results R of the instructions of n can be added up.
Addable(R, n) ==
  \A j \in DOMAIN prog[n].kids :
    LET kid == prog[n].kids[j]
    IN  R[kid] \in Outcomes /\ (R[kid].outcome = "reported" => prog[kid].repeat > 0)

\* What CollectResults of n holds after the first instructions of n.
AddChain(h, R, n) ==
  /\ h \in [0 .. Len(prog[n].kids) -> Outcomes]
  /\ h[0] = [outcome |-> "reported", duration |-> <<>>]
  /\ \A j \in 0 .. Len(prog[n].kids) - 1 :
       h[j + 1] = Added(h[j], R[prog[n].kids[j + 1]], prog[prog[n].kids[j + 1]].repeat)

\* What it returns in the end.
Closed(sum) == IF sum.outcome = "reported" THEN Measured(sum.duration) ELSE sum

\* CollectResults takes the instructions of a set in their order.
LEMMA CollectedInOrder ==
  ASSUME Typed, NEW n \in Nodes, prog[n].kind \notin {"leaf", "mem_alloc"}, NEW R, Addable(R, n)
  PROVE  \E h : AddChain(h, R, n) /\ Collected(n, R) = Closed(h[Len(prog[n].kids)])
<1> DEFINE kids == prog[n].kids
           N == Len(kids)
           S == DOMAIN kids
           b == [outcome |-> "reported", duration |-> <<>>]
           Plus(acc, j) == Added(acc, R[kids[j]], prog[kids[j]].repeat)
           Rec(g) == g = [t \in SUBSET S |-> IF t = {} THEN b
                            ELSE LET x == Max(t) IN Plus(g[t \ {x}], x)]
           f == CHOOSE g : Rec(g)
           A == [p \in (1 .. N) \X Outcomes |-> Plus(p[2], p[1])]
<1>1. kids \in Seq(Nat) /\ N \in Nat /\ S = 1 .. N
  BY ProgramNodes, SMTT(40) DEF NodeRecords
<1>2. Collected(n, R) = Closed(f[S])
  BY DEF Collected, FoldLeft, MapThenFoldSet, Closed
<1>3. b \in Outcomes
  BY DEF Outcomes
<1>4. ASSUME NEW j \in 1 .. N, NEW acc \in Outcomes PROVE Plus(acc, j) \in Outcomes
  <2>1. j \in DOMAIN kids
    BY <1>1
  <2>2. R[kids[j]] \in Outcomes /\ (R[kids[j]].outcome = "reported" => prog[kids[j]].repeat > 0)
    BY <2>1 DEF Addable
  <2>3. prog[kids[j]].repeat \in Nat
    BY <2>1, ProgramNodes DEF NodeRecords
  <2> HIDE DEF kids
  <2> QED
    BY <2>2, <2>3, AddedShape
<1> HIDE DEF kids, N, b, Plus
<1>5. A \in [(1 .. N) \X Outcomes -> Outcomes]
  <2>1. ASSUME NEW p \in (1 .. N) \X Outcomes PROVE Plus(p[2], p[1]) \in Outcomes
    <3>1. p[1] \in 1 .. N /\ p[2] \in Outcomes
      OBVIOUS
    <3> QED
      BY <1>4, <3>1
  <2> QED
    BY <2>1
<1>6. \A j \in 1 .. N : \A acc \in Outcomes : A[<<j, acc>>] = Plus(acc, j)
  OBVIOUS
<1> HIDE DEF A
<1>7. PICK g : FoldOf(g, N, Outcomes, b, A)
  BY <1>1, <1>3, <1>5, FoldExists
<1>8. Rec(g)
  <2>1. ASSUME NEW t \in SUBSET S
        PROVE  g[t] = IF t = {} THEN b ELSE LET x == Max(t) IN Plus(g[t \ {x}], x)
    <3>0. g[t] = IF t = {} THEN b ELSE A[<<Max(t), g[t \ {Max(t)}]>>]
      BY <1>1, <1>7 DEF FoldOf
    <3>1. CASE t = {}
      BY <3>0, <3>1
    <3>2. CASE t # {}
      <4>1. Max(t) \in 1 .. N
        BY <1>1, <3>2, MaxIn
      <4>2. g[t \ {Max(t)}] \in Outcomes
        BY <1>1, <1>7 DEF FoldOf
      <4>3. A[<<Max(t), g[t \ {Max(t)}]>>] = Plus(g[t \ {Max(t)}], Max(t))
        BY <1>6, <4>1, <4>2
      <4> QED
        BY <3>0, <3>2, <4>3
    <3> QED
      BY <3>1, <3>2
  <2>2. g = [t \in SUBSET S |-> g[t]]
    BY <1>1, <1>7 DEF FoldOf
  <2> QED
    BY <2>1, <2>2
<1>9. Rec(f)
  <2> HIDE DEF Rec
  <2> QED
    BY <1>8, Zenon
<1> HIDE DEF f
<1>10. \A t \in SUBSET S : f[t] = IF t = {} THEN b ELSE LET x == Max(t) IN Plus(f[t \ {x}], x)
  BY <1>9
<1> HIDE DEF Rec
<1> DEFINE h == [m \in 0 .. N |-> f[1 .. m]]
<1>11. h[0] = b
  <2>1. 1 .. 0 = {} /\ {} \in SUBSET S /\ 0 \in 0 .. N
    BY <1>1
  <2>2. f[{}] = b
    BY <1>10, <2>1
  <2> QED
    BY <2>1, <2>2
<1>12. ASSUME NEW m \in 0 .. N - 1 PROVE h[m + 1] = Plus(h[m], m + 1)
  <2>0. m \in Nat /\ m \in 0 .. N /\ m + 1 \in 0 .. N
    BY <1>1
  <2>1. 1 .. m + 1 \in SUBSET S /\ 1 .. m + 1 # {}
    <3>1. \A j \in 1 .. m + 1 : j \in 1 .. N
      BY <1>1, <2>0
    <3>2. 1 \in 1 .. m + 1
      BY <2>0
    <3> QED
      BY <1>1, <3>1, <3>2
  <2>2. Max(1 .. m + 1) = m + 1 /\ (1 .. m + 1) \ {m + 1} = 1 .. m
    BY <2>0, MaxFirst
  <2>3. f[1 .. m + 1] = Plus(f[(1 .. m + 1) \ {Max(1 .. m + 1)}], Max(1 .. m + 1))
    BY <1>10, <2>1
  <2>4. f[1 .. m + 1] = Plus(f[1 .. m], m + 1)
    BY <2>2, <2>3
  <2>5. h[m + 1] = f[1 .. m + 1] /\ h[m] = f[1 .. m]
    BY <2>0
  <2> QED
    BY <2>4, <2>5
<1>13. f[S] = h[N]
  BY <1>1
<1>14. h = [m \in 0 .. N |-> h[m]]
  OBVIOUS
<1> HIDE DEF h
<1>15. \A m \in 0 .. N : m \in {j \in 0 .. N : h[j] \in Outcomes}
  <2> DEFINE T == {j \in 0 .. N : h[j] \in Outcomes}
  <2>1. 0 \in T
    BY <1>1, <1>3, <1>11
  <2>2. ASSUME NEW m \in 0 .. N - 1, m \in T PROVE m + 1 \in T
    <3>1. m + 1 \in 1 .. N /\ m + 1 \in 0 .. N
      BY <1>1
    <3> QED
      BY <1>4, <1>12, <2>2, <3>1
  <2> HIDE DEF T
  <2>3. \A m \in 0 .. N : m \in T
    BY <1>1, <2>1, <2>2, BoundedInduction
  <2> QED
    BY <2>3 DEF T
<1>16. h \in [0 .. N -> Outcomes]
  BY <1>14, <1>15
<1>17. AddChain(h, R, n)
  BY <1>11, <1>12, <1>16 DEF AddChain, N, kids, Plus, b
<1> QED
  BY <1>2, <1>13, <1>17 DEF N, kids

\* What it holds depends on those results only.
LEMMA AddChainUnique ==
  ASSUME NEW n, NEW R, NEW Q, Len(prog[n].kids) \in Nat,
         \A j \in 1 .. Len(prog[n].kids) : R[prog[n].kids[j]] = Q[prog[n].kids[j]],
         NEW g, NEW h, AddChain(g, R, n), AddChain(h, Q, n)
  PROVE  g[Len(prog[n].kids)] = h[Len(prog[n].kids)]
<1> DEFINE N == Len(prog[n].kids)
           T == {m \in Nat : g[m] = h[m]}
<1>1. 0 \in T
  BY DEF AddChain
<1>2. ASSUME NEW m \in 0 .. N - 1, m \in T PROVE m + 1 \in T
  <2>1. m + 1 \in 1 .. N /\ m + 1 \in Nat
    OBVIOUS
  <2>2. R[prog[n].kids[m + 1]] = Q[prog[n].kids[m + 1]]
    BY <2>1
  <2> QED
    BY <1>2, <2>1, <2>2 DEF AddChain
<1>3. \A m \in 0 .. N : m \in T
  <2> HIDE DEF T, N
  <2>1. N \in Nat
    BY DEF N
  <2> QED
    BY <1>1, <1>2, <2>1, BoundedInduction
<1> QED
  BY <1>3

-----------------------------------------------------------------------------
(* How many durations are reported *)

\* All the calls have returned.
Done ==
  /\ Typed /\ samples \in [Nodes -> Seq(Nat)]
  /\ \A n \in Nodes : Quiet(prog[n], rounds[n], KidRounds(rounds, n), Len(samples[n]))

\* A result with as many durations as the instruction contributes in each of
\* its repetitions.
Sound(v, n) ==
  /\ v \in Outcomes
  /\ v.outcome = "reported" =>
       Len(v.duration) > 0 /\ Len(v.duration) = (rounds[n] * prog[n].repeat) * Weight[n]

\* Without a call in progress they are all quiet.
LEMMA DoneWhenEmpty == IInv /\ Counted /\ stack = <<>> => Done
<1> SUFFICES ASSUME IInv, Counted, stack = <<>> PROVE Done
  OBVIOUS
<1>1. DOMAIN stack = {}
  OBVIOUS
<1> QED
  BY <1>1 DEF Done, IInv, Counted, QuietKnown

\* A product that is not zero has no factor zero.
LEMMA Factors ==
  ASSUME NEW c \in Nat, NEW r \in Nat, NEW w \in Nat, (c * r) * w > 0
  PROVE  c > 0 /\ r > 0 /\ w > 0 /\ c * w > 0
<1>1. CASE c = 0
  BY <1>1
<1>2. CASE r = 0
  BY <1>2
<1>3. CASE w = 0
  BY <1>3
<1>4. CASE c # 0 /\ r # 0 /\ w # 0
  <2>1. c - 1 \in Nat /\ w - 1 \in Nat
    BY <1>4
  <2>2. c * w = (c - 1) * (w - 1) + c + w - 1
    OBVIOUS
  <2>3. (c - 1) * (w - 1) \in Nat
    BY <2>1
  <2> QED
    BY <1>4, <2>2, <2>3
<1> QED
  BY <1>1, <1>2, <1>3, <1>4

\* The calls of an instruction are those of the set that contains it.
LEMMA KidCalls ==
  ASSUME Done, NEW n \in Nodes, NEW j \in DOMAIN prog[n].kids
  PROVE  /\ prog[n].kids[j] \in Nodes /\ prog[n].kids[j] > n
         /\ rounds[prog[n].kids[j]] = (rounds[n] * prog[n].repeat) * Passes(prog[n])
         /\ rounds[prog[n].kids[j]] \in Nat /\ prog[prog[n].kids[j]].repeat \in Nat
         /\ Weight[prog[n].kids[j]] \in Nat
<1> DEFINE kid == prog[n].kids[j]
<1>1. Typed
  BY DEF Done
<1>2. kid \in Nodes /\ kid > n
  BY <1>1, ProgramNodes
<1>3. rounds[kid] \in Nat /\ prog[kid].repeat \in Nat
  BY <1>1, <1>2, ProgramNodes DEF Typed, NodeRecords
<1>4. Weight[kid] \in Nat
  BY <1>1, <1>2, WeightOf
<1>5. KidRounds(rounds, n)[j] = rounds[kid] /\ j \in DOMAIN KidRounds(rounds, n)
  BY DEF KidRounds
<1>6. KidRounds(rounds, n)[j] = (rounds[n] * prog[n].repeat) * Passes(prog[n])
  BY <1>5 DEF Done, Quiet
<1> QED
  BY <1>2, <1>3, <1>4, <1>5, <1>6

\* Results with as many durations as expected can be added up.
LEMMA SoundAddable ==
  ASSUME Done, NEW n \in Nodes, NEW R,
         \A j \in DOMAIN prog[n].kids : Sound(R[prog[n].kids[j]], prog[n].kids[j])
  PROVE  Addable(R, n)
<1> SUFFICES ASSUME NEW j \in DOMAIN prog[n].kids
             PROVE  LET kid == prog[n].kids[j]
                    IN  R[kid] \in Outcomes /\ (R[kid].outcome = "reported" => prog[kid].repeat > 0)
  BY DEF Addable
<1> DEFINE kid == prog[n].kids[j]
           c == rounds[kid]
           r == prog[kid].repeat
           w == Weight[kid]
<1>1. c \in Nat /\ r \in Nat /\ w \in Nat
  BY KidCalls
<1>2. Sound(R[kid], kid)
  OBVIOUS
<1>3. R[kid] \in Outcomes /\ (R[kid].outcome = "reported" => (c * r) * w > 0)
  BY <1>2 DEF Sound
<1> HIDE DEF c, r, w
<1>4. (c * r) * w > 0 => r > 0
  BY <1>1, Factors
<1> QED
  BY <1>3, <1>4 DEF r

\* A result of c * r repetitions, w durations in each, added to those before
\* it: the vector is sized by the first.
AddedIs(acc, result, c, r, w) ==
  LET g == Grouped(result.duration, r)
  IN  /\ g \in Seq(Nat) /\ Len(g) = c * w /\ c * w > 0 /\ r > 0
      /\ Added(acc, result, r) =
           IF acc.duration # <<>> /\ c * w > Len(acc.duration)
             THEN [outcome |-> "undefined", duration |-> <<>>]
             ELSE [outcome |-> "reported", duration |-> Accumulate(acc.duration, g)]

\* What adding such a result gives.
LEMMA AddedReported ==
  ASSUME NEW acc \in Outcomes, NEW result \in Outcomes, acc.outcome = "reported",
         result.outcome = "reported", NEW c \in Nat, NEW r \in Nat, NEW w \in Nat,
         Len(result.duration) = (c * r) * w, Len(result.duration) > 0
  PROVE  AddedIs(acc, result, c, r, w)
<1> DEFINE g == Grouped(result.duration, r)
<1>1. c > 0 /\ r > 0 /\ w > 0 /\ c * w > 0
  BY Factors
<1>2. result.duration \in Seq(Nat) /\ r \in Nat \ {0}
  BY <1>1 DEF Outcomes
<1>3. g \in Seq(Nat) /\ Len(g) = Len(result.duration) \div r
  BY <1>2, GroupedShape
<1>4. Len(g) = c * w
  <2> DEFINE q == c * w
  <2>1. q \in Nat
    OBVIOUS
  <2>2. (c * r) * w = q * r
    OBVIOUS
  <2> HIDE DEF q, g
  <2>3. (q * r) \div r = q
    BY <1>1, <2>1
  <2> QED
    BY <1>3, <2>2, <2>3 DEF q
<1>5. Added(acc, result, r) = IF Overruns(acc.duration, g)
                                THEN [outcome |-> "undefined", duration |-> <<>>]
                                ELSE [acc EXCEPT !.duration = Accumulate(@, g)]
  BY DEF Added
<1>6. [acc EXCEPT !.duration = Accumulate(@, g)] =
        [outcome |-> "reported", duration |-> Accumulate(acc.duration, g)]
  <2> DEFINE x == Accumulate(acc.duration, g)
  <2>1. acc = [outcome |-> acc.outcome, duration |-> acc.duration]
    BY DEF Outcomes
  <2>2. [acc EXCEPT !.duration = Accumulate(@, g)] = [acc EXCEPT !.duration = x]
    BY <2>1
  <2> HIDE DEF x, g
  <2>3. [acc EXCEPT !.duration = x] = [outcome |-> acc.outcome, duration |-> x]
    BY <2>1
  <2> QED
    BY <2>2, <2>3 DEF x
<1> HIDE DEF g
<1>7. Overruns(acc.duration, g) <=> acc.duration # <<>> /\ c * w > Len(acc.duration)
  BY <1>4 DEF Overruns
<1> QED
  BY <1>1, <1>3, <1>4, <1>5, <1>6, <1>7 DEF g, AddedIs

\* What is known of the sum after the first j instructions of n.
SumKnown(acc, R, n, j) ==
  LET kids == prog[n].kids
  IN  /\ acc.outcome = "reported" =>
           /\ \A i \in 1 .. j : R[kids[i]].outcome = "reported" /\ Weight[kids[i]] <= Weight[kids[1]]
           /\ IF j = 0 THEN acc.duration = <<>>
              ELSE Len(acc.duration) > 0 /\ Len(acc.duration) = rounds[kids[1]] * Weight[kids[1]]
      /\ acc.outcome = "undefined" =>
           \E i \in 1 .. j : R[kids[i]].outcome = "undefined" \/ Weight[kids[i]] > Weight[kids[1]]

\* Comparing multiples.
LEMMA Multiples ==
  ASSUME NEW c \in Nat, NEW u \in Nat, NEW w \in Nat, c > 0
  PROVE  c * u > c * w <=> u > w
<1>1. ASSUME NEW a \in Nat, NEW b \in Nat, a > b PROVE c * a > c * b
  <2>1. a - b \in Nat /\ c * a = c * b + c * (a - b)
    BY <1>1
  <2>2. c * (a - b) = c + c * (a - b - 1) /\ a - b - 1 \in Nat
    BY <1>1
  <2>3. c * (a - b - 1) \in Nat /\ c * b \in Nat
    BY <2>2
  <2> QED
    BY <2>1, <2>2, <2>3
<1>2. u > w => c * u > c * w
  BY <1>1
<1>3. w > u => c * w > c * u
  BY <1>1
<1>4. c * u \in Nat /\ c * w \in Nat
  OBVIOUS
<1>5. u = w \/ u > w \/ w > u
  OBVIOUS
<1> QED
  BY <1>2, <1>3, <1>4, <1>5

\* One more instruction of the set.
LEMMA SumStep ==
  ASSUME Done, NEW n \in Nodes, NEW R, NEW j \in Nat, j + 1 \in DOMAIN prog[n].kids,
         Sound(R[prog[n].kids[j + 1]], prog[n].kids[j + 1]),
         NEW acc \in Outcomes, SumKnown(acc, R, n, j)
  PROVE  SumKnown(Added(acc, R[prog[n].kids[j + 1]], prog[prog[n].kids[j + 1]].repeat), R, n, j + 1)
<1> DEFINE kids == prog[n].kids
           m == j + 1
           kid == kids[m]
           result == R[kid]
           c == rounds[kid]
           r == prog[kid].repeat
           w == Weight[kid]
           v == Weight[kids[1]]
           new == Added(acc, result, r)
<1>1. Typed /\ kids \in Seq(Nat)
  BY ProgramNodes DEF Done, NodeRecords
<1>2. 1 \in DOMAIN kids /\ j + 1 \in Nat /\ \A i \in 1 .. j + 1 : i \in 1 .. j \/ i = j + 1
  BY <1>1
<1>3. c \in Nat /\ r \in Nat /\ w \in Nat /\ v \in Nat
  BY <1>2, KidCalls
<1>4. rounds[kids[1]] = c
  BY <1>2, KidCalls
<1>5. result \in Outcomes
  BY DEF Sound
<1> SUFFICES SumKnown(new, R, n, m)
  OBVIOUS
<1>6. \A i \in 1 .. j : i \in 1 .. m /\ m \in 1 .. m /\ m # 0
  OBVIOUS
<1>7. m \in 1 .. m /\ m # 0
  BY <1>1
<1>8. CASE acc.outcome # "reported"
  <2>1. new = acc
    BY <1>8 DEF Added
  <2> QED
    BY <1>6, <1>8, <2>1 DEF SumKnown
<1>9. CASE acc.outcome = "reported" /\ result.outcome # "reported"
  <2>1. new = result
    BY <1>9 DEF Added
  <2> QED
    BY <1>7, <1>9, <2>1 DEF SumKnown
<1>10. CASE acc.outcome = "reported" /\ result.outcome = "reported"
  <2> DEFINE g == Grouped(result.duration, r)
  <2>1. Len(result.duration) > 0 /\ Len(result.duration) = (c * r) * w
    BY <1>10 DEF Sound
  <2> HIDE DEF kids, m, c, r, w, v
  <2>2. /\ g \in Seq(Nat) /\ Len(g) = c * w /\ c * w > 0
        /\ new = IF acc.duration # <<>> /\ c * w > Len(acc.duration)
                   THEN [outcome |-> "undefined", duration |-> <<>>]
                   ELSE [outcome |-> "reported", duration |-> Accumulate(acc.duration, g)]
    <3> HIDE DEF result, new
    <3>1. new = Added(acc, result, r)
      BY DEF new
    <3> HIDE DEF g
    <3>2. AddedIs(acc, result, c, r, w)
      <4>1. acc.outcome = "reported" /\ result.outcome = "reported"
        BY <1>10
      <4>2. Len(result.duration) = (c * r) * w /\ Len(result.duration) > 0
        BY <2>1
      <4>3. c \in Nat /\ r \in Nat /\ w \in Nat /\ result \in Outcomes
        BY <1>3, <1>5
      <4> HIDE DEF kid
      <4> QED
        BY <4>1, <4>2, <4>3, AddedReported
    <3> QED
      BY <3>1, <3>2 DEF g, AddedIs
  <2>3. c > 0
    BY <1>3, <2>1, Factors
  <2>4. c * w > c * v <=> w > v
    BY <1>3, <2>3, Multiples
  <2> HIDE DEF g, new, result, kid
  <2>5. CASE j = 0
    <3>1. acc.duration = <<>> /\ kid = kids[1] /\ v = w
      BY <1>10, <2>5 DEF SumKnown, kid, m, v, w
    <3>2. new = [outcome |-> "reported", duration |-> g]
      BY <2>2, <3>1 DEF Accumulate
    <3>3. \A i \in 1 .. m : i = m
      BY <2>5 DEF m
    <3>4. \A i \in 1 .. m : R[kids[i]].outcome = "reported" /\ Weight[kids[i]] <= Weight[kids[1]]
      BY <1>3, <1>10, <3>1, <3>3 DEF kid, result, w, v
    <3>5. Len(new.duration) > 0 /\ Len(new.duration) = rounds[kids[1]] * Weight[kids[1]]
      BY <1>4, <2>2, <3>1, <3>2 DEF v
    <3>6. new.outcome = "reported"
      BY <3>2
    <3> QED
      BY <1>7, <3>4, <3>5, <3>6 DEF SumKnown, kids
  <2>6. CASE j # 0
    <3>1. Len(acc.duration) > 0 /\ Len(acc.duration) = c * v
      BY <1>4, <1>10, <2>6 DEF SumKnown, kids, v
    <3>2. acc.duration # <<>> /\ acc.duration \in Seq(Nat)
      BY <3>1 DEF Outcomes
    <3>3. CASE w > v
      <4>1. new = [outcome |-> "undefined", duration |-> <<>>]
        BY <2>2, <2>4, <3>1, <3>2, <3>3
      <4>2. new.outcome = "undefined"
        BY <4>1
      <4>3. Weight[kids[m]] > Weight[kids[1]]
        BY <3>3 DEF w, v, kid
      <4>4. \E i \in 1 .. m : R[kids[i]].outcome = "undefined" \/ Weight[kids[i]] > Weight[kids[1]]
        BY <1>7, <4>3
      <4> QED
        BY <4>2, <4>4 DEF SumKnown, kids
    <3>4. CASE ~(w > v)
      <4>1. new = [outcome |-> "reported", duration |-> Accumulate(acc.duration, g)]
        BY <2>2, <2>4, <3>1, <3>2, <3>4
      <4>2. new.outcome = "reported" /\ Len(new.duration) = Len(acc.duration)
        <5>1. Len(Accumulate(acc.duration, g)) = Len(acc.duration)
          BY <2>2, <3>2, AccumulateShape
        <5> QED
          BY <4>1, <5>1
      <4>3. w <= v
        BY <1>3, <3>4
      <4>4. \A i \in 1 .. j : R[kids[i]].outcome = "reported" /\ Weight[kids[i]] <= Weight[kids[1]]
        BY <1>10 DEF SumKnown, kids
      <4>5. ASSUME NEW i \in 1 .. m
            PROVE  R[kids[i]].outcome = "reported" /\ Weight[kids[i]] <= Weight[kids[1]]
        <5>1. i \in 1 .. j \/ i = m
          BY <1>2 DEF m
        <5> QED
          BY <1>10, <4>3, <4>4, <5>1 DEF w, v, kid, result
      <4> QED
        BY <1>4, <1>7, <3>1, <4>2, <4>5 DEF SumKnown, kids, v
    <3> QED
      BY <3>3, <3>4
  <2> QED
    BY <2>5, <2>6
<1> QED
  BY <1>8, <1>9, <1>10

\* The results of all the instructions of n have the durations they should.
AllSound(R, n) == \A j \in DOMAIN prog[n].kids : Sound(R[prog[n].kids[j]], prog[n].kids[j])

\* What the result v of n says of the results R of its instructions.
ResultKnown(v, R, n) ==
  LET kids == prog[n].kids
  IN  /\ Sound(v, n)
      /\ v.outcome = "reported" =>
           \A j \in DOMAIN kids : R[kids[j]].outcome = "reported" /\ Weight[kids[j]] <= Weight[kids[1]]
      /\ v.outcome = "undefined" =>
           \E j \in DOMAIN kids : R[kids[j]].outcome = "undefined" \/ Weight[kids[j]] > Weight[kids[1]]

\* A result with the durations that were computed.
LEMMA MeasuredShape ==
  ASSUME NEW d \in Seq(Nat)
  PROVE  /\ Measured(d) \in Outcomes /\ Measured(d).duration = d
         /\ Measured(d).outcome = IF d = <<>> THEN "exited" ELSE "reported"
BY DEF Measured, Outcomes

\* The sum over the instructions of a set.
LEMMA SumOfAll ==
  ASSUME Done, NEW n \in Nodes, NEW R, AllSound(R, n), NEW h, AddChain(h, R, n)
  PROVE  \A j \in 0 .. Len(prog[n].kids) : h[j] \in Outcomes /\ SumKnown(h[j], R, n, j)
<1> DEFINE N == Len(prog[n].kids)
           T == {j \in Nat : h[j] \in Outcomes /\ SumKnown(h[j], R, n, j)}
<1>1. prog[n].kids \in Seq(Nat)
  BY ProgramNodes DEF Done, NodeRecords
<1>2. N \in Nat /\ DOMAIN prog[n].kids = 1 .. N
  BY <1>1
<1>3. 0 \in T
  <2>1. h[0] \in Outcomes
    BY <1>2 DEF AddChain
  <2>2. h[0].outcome = "reported" /\ h[0].duration = <<>>
    BY DEF AddChain
  <2>3. 1 .. 0 = {}
    OBVIOUS
  <2>4. SumKnown(h[0], R, n, 0)
    BY <2>2, <2>3 DEF SumKnown
  <2> QED
    BY <2>1, <2>4
<1>4. ASSUME NEW j \in 0 .. N - 1, j \in T PROVE j + 1 \in T
  <2>1. j \in Nat /\ j + 1 \in Nat /\ j + 1 \in 0 .. N /\ j + 1 \in DOMAIN prog[n].kids
    BY <1>2
  <2>2. Sound(R[prog[n].kids[j + 1]], prog[n].kids[j + 1])
    BY <2>1 DEF AllSound
  <2>3. h[j] \in Outcomes /\ SumKnown(h[j], R, n, j)
    BY <1>4
  <2>4. SumKnown(Added(h[j], R[prog[n].kids[j + 1]], prog[prog[n].kids[j + 1]].repeat), R, n, j + 1)
    BY <2>1, <2>2, <2>3, SumStep
  <2>5. h[j + 1] = Added(h[j], R[prog[n].kids[j + 1]], prog[prog[n].kids[j + 1]].repeat)
    BY DEF AddChain
  <2>6. h[j + 1] \in Outcomes
    BY <2>1 DEF AddChain
  <2> QED
    BY <2>1, <2>4, <2>5, <2>6
<1>5. \A j \in 0 .. N : j \in T
  <2> HIDE DEF T, N
  <2> QED
    BY <1>2, <1>3, <1>4, BoundedInduction
<1> QED
  BY <1>5

\* The samples of an instruction without others.
LEMMA CollectedLeaf ==
  ASSUME Done, NEW n \in Nodes, prog[n].kind \in {"leaf", "mem_alloc"}, NEW R
  PROVE  Collected(n, R) = Measured(samples[n]) /\ ResultKnown(Collected(n, R), R, n)
<1> DEFINE v == Measured(samples[n])
           done == rounds[n] * prog[n].repeat
<1>1. Typed /\ samples[n] \in Seq(Nat)
  BY DEF Done
<1>2. prog[n].kids = <<>>
  BY <1>1, ProgramTree
<1>3. Collected(n, R) = v
  BY DEF Collected
<1>4. v \in Outcomes /\ v.duration = samples[n] /\ v.outcome = IF samples[n] = <<>> THEN "exited" ELSE "reported"
  BY <1>1, MeasuredShape
<1>5. done \in Nat
  <2>1. rounds[n] \in Nat /\ prog[n].repeat \in Nat
    BY <1>1, ProgramNodes DEF Typed, NodeRecords
  <2> QED
    BY <2>1
<1>6. Weight[n] = 1
  BY <1>1, <1>2, WeightOf
<1>7. Len(samples[n]) = Recorded(prog[n], done)
  BY DEF Done, Quiet
<1> HIDE DEF v
<1>8. v.outcome = "reported" => Len(v.duration) > 0 /\ Len(v.duration) = done * Weight[n]
  <2> HIDE DEF done
  <2>1. Len(samples[n]) # 0 => Len(samples[n]) = done
    BY <1>7 DEF Recorded
  <2>2. done * 1 = done
    BY <1>5
  <2> QED
    BY <1>1, <1>4, <1>6, <2>1, <2>2
<1>9. Sound(v, n)
  BY <1>4, <1>8 DEF Sound
<1>10. v.outcome # "undefined" /\ DOMAIN prog[n].kids = {}
  BY <1>2, <1>4
<1> QED
  BY <1>3, <1>9, <1>10 DEF ResultKnown, v

\* CollectResults of an instruction with the right number of durations in the
\* results of those it contains.
LEMMA CollectedKnown ==
  ASSUME Done, NEW n \in Nodes, NEW R, AllSound(R, n)
  PROVE  ResultKnown(Collected(n, R), R, n)
<1> DEFINE kids == prog[n].kids
           N == Len(kids)
<1>1. CASE prog[n].kind \in {"leaf", "mem_alloc"}
  BY <1>1, CollectedLeaf
<1>2. CASE prog[n].kind \notin {"leaf", "mem_alloc"}
  <2>1. Typed
    BY DEF Done
  <2>2. Addable(R, n)
    BY SoundAddable DEF AllSound
  <2>3. PICK h : AddChain(h, R, n) /\ Collected(n, R) = Closed(h[N])
    BY <1>2, <2>1, <2>2, CollectedInOrder
  <2> DEFINE sum == h[N]
             v == Closed(sum)
  <2>4. kids \in Seq(Nat)
    BY <2>1, ProgramNodes DEF NodeRecords
  <2>5. N \in Nat /\ N \in 0 .. N /\ DOMAIN kids = 1 .. N
    BY <2>4
  <2>6. sum \in Outcomes /\ SumKnown(sum, R, n, N)
    BY <2>3, <2>5, SumOfAll
  <2> SUFFICES ResultKnown(v, R, n)
    BY <2>3
  <2> HIDE DEF sum
  <2>7. CASE sum.outcome # "reported"
    <3>1. v = sum
      BY <2>7 DEF Closed
    <3>2. Sound(sum, n)
      BY <2>6, <2>7 DEF Sound
    <3> QED
      BY <2>5, <2>6, <2>7, <3>1, <3>2 DEF ResultKnown, SumKnown
  <2>8. CASE sum.outcome = "reported"
    <3>1. v = Measured(sum.duration) /\ sum.duration \in Seq(Nat)
      BY <2>6, <2>8 DEF Closed, Outcomes
    <3>2. v \in Outcomes /\ v.duration = sum.duration
          /\ v.outcome = IF sum.duration = <<>> THEN "exited" ELSE "reported"
      BY <3>1, MeasuredShape
    <3> HIDE DEF v
    <3>3. CASE N = 0
      <4>1. sum.duration = <<>>
        BY <2>6, <2>8, <3>3 DEF SumKnown
      <4>2. v.outcome = "exited"
        BY <3>2, <4>1
      <4> QED
        BY <3>2, <4>2 DEF ResultKnown, Sound
    <3>4. CASE N # 0
      <4> DEFINE a == rounds[n] * prog[n].repeat
                 b == Passes(prog[n])
                 w == Weight[kids[1]]
      <4>1. Len(sum.duration) > 0 /\ Len(sum.duration) = rounds[kids[1]] * w
        BY <2>6, <2>8, <3>4 DEF SumKnown
      <4>2. 1 \in DOMAIN kids /\ kids # <<>>
        BY <2>5, <3>4
      <4>3. rounds[kids[1]] = a * b /\ w \in Nat
        BY <4>2, KidCalls
      <4>4. Weight[n] = b * w
        BY <2>1, <4>2, WeightOf
      <4>5. rounds[n] \in Nat /\ prog[n].repeat \in Nat /\ b \in Nat
        BY <2>1, ProgramNodes DEF Typed, NodeRecords, Passes
      <4>6. a \in Nat
        BY <4>5
      <4> HIDE DEF a, b, w
      <4>7. (a * b) * w = a * (b * w)
        BY <4>3, <4>5, <4>6
      <4>8. Len(v.duration) > 0 /\ Len(v.duration) = a * Weight[n]
        BY <3>2, <4>1, <4>3, <4>4, <4>7
      <4>9. Sound(v, n)
        BY <3>2, <4>8 DEF Sound, a
      <4>10. v.outcome # "undefined"
        BY <3>2
      <4>11. \A j \in DOMAIN kids : R[kids[j]].outcome = "reported" /\ Weight[kids[j]] <= Weight[kids[1]]
        BY <2>5, <2>6, <2>8 DEF SumKnown
      <4> QED
        BY <4>9, <4>10, <4>11 DEF ResultKnown
    <3> QED
      BY <3>3, <3>4
  <2> QED
    BY <2>7, <2>8
<1> QED
  BY <1>1, <1>2

\* CollectResults depends on the results of the instructions of n only.
LEMMA CollectedSame ==
  ASSUME Done, NEW n \in Nodes, NEW R, NEW Q, AllSound(R, n),
         \A j \in DOMAIN prog[n].kids : R[prog[n].kids[j]] = Q[prog[n].kids[j]]
  PROVE  Collected(n, R) = Collected(n, Q)
<1> DEFINE N == Len(prog[n].kids)
<1>0. AllSound(Q, n)
  BY DEF AllSound
<1>1. CASE prog[n].kind \in {"leaf", "mem_alloc"}
  BY <1>1, CollectedLeaf
<1>2. CASE prog[n].kind \notin {"leaf", "mem_alloc"}
  <2>1. Typed
    BY DEF Done
  <2>2. Addable(R, n) /\ Addable(Q, n)
    BY <1>0, SoundAddable DEF AllSound
  <2>3. PICK g : AddChain(g, R, n) /\ Collected(n, R) = Closed(g[N])
    BY <1>2, <2>1, <2>2, CollectedInOrder
  <2>4. PICK h : AddChain(h, Q, n) /\ Collected(n, Q) = Closed(h[N])
    BY <1>2, <2>1, <2>2, CollectedInOrder
  <2>5. prog[n].kids \in Seq(Nat)
    BY <2>1, ProgramNodes DEF NodeRecords
  <2>6. N \in Nat /\ DOMAIN prog[n].kids = 1 .. N
    BY <2>5
  <2>7. g[N] = h[N]
    <3>1. \A j \in 1 .. N : R[prog[n].kids[j]] = Q[prog[n].kids[j]]
      BY <2>6
    <3>2. AddChain(g, R, n) /\ AddChain(h, Q, n)
      BY <2>3, <2>4
    <3> QED
      BY <2>6, <3>1, <3>2, AddChainUnique
  <2> QED
    BY <2>3, <2>4, <2>7
<1> QED
  BY <1>1, <1>2

\* The results of all the instructions: those CollectResults returns from the
\* leaves up.
LEMMA ResultsOf ==
  ASSUME Done
  PROVE  \A n \in Nodes : /\ Results[n] = Collected(n, Results)
                          /\ AllSound(Results, n)
                          /\ ResultKnown(Results[n], Results, n)
<1> DEFINE N == Len(prog)
           Rec(g) == g = [n \in Nodes |-> Collected(n, g)]
           f == CHOOSE g : Rec(g)
           bad == [outcome |-> "exited", duration |-> <<>>]
           F == [1 .. N -> Outcomes]
           A == [p \in (1 .. N) \X F |-> IF AllSound(p[2], p[1]) THEN Collected(p[1], p[2]) ELSE bad]
<1>1. Typed
  BY DEF Done
<1>2. N \in Nat /\ Nodes = 1 .. N
  BY <1>1, ProgramNodes
<1>3. Results = f
  BY DEF Results
<1>4. bad \in Outcomes
  BY DEF Outcomes
<1>5. \A n \in Nodes : \A j \in DOMAIN prog[n].kids : prog[n].kids[j] \in Nodes /\ prog[n].kids[j] > n
  BY <1>1, ProgramNodes
<1> HIDE DEF N, bad
<1>6. ASSUME NEW n \in 1 .. N, NEW g
      PROVE  (IF AllSound(g, n) THEN Collected(n, g) ELSE bad) \in Outcomes
  <2>1. AllSound(g, n) => ResultKnown(Collected(n, g), g, n)
    BY <1>2, CollectedKnown
  <2> QED
    BY <1>4, <2>1 DEF ResultKnown, Sound
<1>7. A \in [(1 .. N) \X F -> Outcomes]
  <2>1. ASSUME NEW p \in (1 .. N) \X F
        PROVE  (IF AllSound(p[2], p[1]) THEN Collected(p[1], p[2]) ELSE bad) \in Outcomes
    <3>1. p[1] \in 1 .. N
      OBVIOUS
    <3> QED
      BY <1>6, <3>1
  <2> QED
    BY <2>1
<1>8. \A n \in 1 .. N : \A g \in F :
        A[<<n, g>>] = IF AllSound(g, n) THEN Collected(n, g) ELSE bad
  OBVIOUS
<1> HIDE DEF A
<1>9. Looks(N, Outcomes, A)
  <2> SUFFICES ASSUME NEW n \in 1 .. N, NEW g \in F, NEW h \in F,
                      \A m \in 1 .. N : m > n => g[m] = h[m]
               PROVE  A[<<n, g>>] = A[<<n, h>>]
    BY DEF Looks
  <2>1. \A j \in DOMAIN prog[n].kids : g[prog[n].kids[j]] = h[prog[n].kids[j]]
    BY <1>2, <1>5
  <2>2. AllSound(g, n) <=> AllSound(h, n)
    BY <2>1 DEF AllSound
  <2>3. AllSound(g, n) => Collected(n, g) = Collected(n, h)
    BY <1>2, <2>1, CollectedSame
  <2>4. A[<<n, g>>] = IF AllSound(g, n) THEN Collected(n, g) ELSE bad
    BY <1>8
  <2>5. A[<<n, h>>] = IF AllSound(h, n) THEN Collected(n, h) ELSE bad
    BY <1>8
  <2> QED
    BY <2>2, <2>3, <2>4, <2>5
<1>10. PICK g : DownOf(g, N, Outcomes, A)
  BY <1>2, <1>4, <1>7, <1>9, DownExists
<1>11. g \in [Nodes -> Outcomes] /\ \A n \in Nodes :
         g[n] = IF AllSound(g, n) THEN Collected(n, g) ELSE bad
  BY <1>2, <1>8, <1>10 DEF DownOf
<1>12. \A n \in 1 .. N : n \in {m \in Nodes : Sound(g[m], m)}
  <2> DEFINE S == {m \in Nodes : Sound(g[m], m)}
  <2>1. ASSUME NEW n \in 1 .. N, \A m \in 1 .. N : m > n => m \in S PROVE n \in S
    <3>1. AllSound(g, n)
      BY <1>2, <1>5, <2>1 DEF AllSound
    <3>2. ResultKnown(Collected(n, g), g, n)
      BY <1>2, <3>1, CollectedKnown
    <3> QED
      BY <1>2, <1>11, <3>1, <3>2 DEF ResultKnown
  <2> HIDE DEF S
  <2>2. \A n \in 1 .. N : n \in S
    BY <1>2, <2>1, DownInduction
  <2> QED
    BY <2>2 DEF S
<1>13. \A n \in Nodes : AllSound(g, n)
  BY <1>2, <1>5, <1>12 DEF AllSound
<1>14. \A n \in Nodes : g[n] = Collected(n, g)
  BY <1>11, <1>13
<1>15. g = [n \in Nodes |-> g[n]]
  BY <1>11
<1>16. Rec(g)
  BY <1>14, <1>15
<1>17. Rec(f)
  <2> HIDE DEF Rec
  <2> QED
    BY <1>16, Zenon
<1> HIDE DEF f
<1>18. \A n \in Nodes : f[n] = Collected(n, f)
  BY <1>17
<1> HIDE DEF Rec
<1>19. \A n \in 1 .. N : n \in {m \in Nodes : AllSound(f, m) /\ ResultKnown(f[m], f, m)}
  <2> DEFINE S == {m \in Nodes : AllSound(f, m) /\ ResultKnown(f[m], f, m)}
  <2>1. ASSUME NEW n \in 1 .. N, \A m \in 1 .. N : m > n => m \in S PROVE n \in S
    <3>1. AllSound(f, n)
      BY <1>2, <1>5, <2>1 DEF AllSound, ResultKnown
    <3>2. ResultKnown(Collected(n, f), f, n)
      BY <1>2, <3>1, CollectedKnown
    <3> QED
      BY <1>2, <1>18, <3>1, <3>2
  <2> HIDE DEF S
  <2>2. \A n \in 1 .. N : n \in S
    BY <1>2, <2>1, DownInduction
  <2> QED
    BY <2>2 DEF S
<1> QED
  BY <1>2, <1>3, <1>18, <1>19

\* The result of the root says which instruction of each set contributes the
\* most durations.
LEMMA OutcomeOf ==
  ASSUME Done
  PROVE  /\ Results[1].outcome = "undefined" => ~FirstIsHeaviest
         /\ Results[1].outcome = "reported" =>
              FirstIsHeaviest /\ \A n \in Nodes : Results[n].outcome = "reported"
<1> DEFINE N == Len(prog)
           R == Results
<1>1. Typed
  BY DEF Done
<1>2. N \in Nat \ {0} /\ Nodes = 1 .. N /\ 1 \in Nodes
  BY <1>1, ProgramNodes
<1>3. \A n \in Nodes : \A j \in DOMAIN prog[n].kids :
        prog[n].kids[j] \in Nodes /\ prog[n].kids[j] > n /\ Weight[prog[n].kids[j]] \in Nat
  BY KidCalls
<1>4. \A n \in Nodes : ResultKnown(R[n], R, n)
  BY ResultsOf
<1>0. \A n \in Nodes : prog[n].kids \in Seq(Nat)
  BY <1>1, ProgramNodes DEF NodeRecords
<1> HIDE DEF N, R
<1>5. ASSUME FirstIsHeaviest PROVE R[1].outcome # "undefined"
  <2> DEFINE S == {n \in Nodes : R[n].outcome # "undefined"}
  <2>1. ASSUME NEW n \in 1 .. N, \A m \in 1 .. N : m > n => m \in S PROVE n \in S
    <3>1. ASSUME NEW j \in DOMAIN prog[n].kids
          PROVE  /\ R[prog[n].kids[j]].outcome # "undefined"
                 /\ ~(Weight[prog[n].kids[j]] > Weight[prog[n].kids[1]])
      <4>1. R[prog[n].kids[j]].outcome # "undefined"
        BY <1>2, <1>3, <2>1
      <4>2. Weight[prog[n].kids[j]] <= Weight[prog[n].kids[1]]
        BY <1>2, <1>5 DEF FirstIsHeaviest
      <4>3. 1 \in DOMAIN prog[n].kids
        BY <1>0, <1>2
      <4>4. Weight[prog[n].kids[j]] \in Nat /\ Weight[prog[n].kids[1]] \in Nat
        BY <1>2, <1>3, <4>3
      <4> QED
        BY <4>1, <4>2, <4>4
    <3> QED
      BY <1>2, <1>4, <3>1 DEF ResultKnown
  <2> HIDE DEF S
  <2>2. \A n \in 1 .. N : n \in S
    BY <1>2, <2>1, DownInduction
  <2>3. 1 \in S
    BY <1>2, <2>2
  <2> QED
    BY <2>3 DEF S
<1>6. ASSUME R[1].outcome = "reported" PROVE \A n \in Nodes : R[n].outcome = "reported"
  <2> DEFINE S == {k \in Nat : \A n \in 1 .. k : R[n].outcome = "reported"}
  <2>1. 0 \in S
    OBVIOUS
  <2>2. ASSUME NEW k \in 0 .. N - 1, k \in S PROVE k + 1 \in S
    <3>1. k + 1 \in Nodes /\ k \in Nat /\ k + 1 \in Nat
      BY <1>2
    <3>2. R[k + 1].outcome = "reported"
      <4>1. CASE k + 1 = 1
        BY <1>6, <4>1
      <4>2. CASE k + 1 # 1
        <5>1. PICK m \in Nodes : \E j \in DOMAIN prog[m].kids : prog[m].kids[j] = k + 1
          BY <1>1, <3>1, <4>2, ProgramTree
        <5>2. PICK j \in DOMAIN prog[m].kids : prog[m].kids[j] = k + 1
          BY <5>1
        <5>3. m \in 1 .. k
          BY <1>2, <1>3, <3>1, <5>2
        <5>4. R[m].outcome = "reported"
          BY <2>2, <5>3
        <5> QED
          BY <1>4, <5>2, <5>4 DEF ResultKnown
      <4> QED
        BY <4>1, <4>2
    <3>3. \A n \in 1 .. k + 1 : n \in 1 .. k \/ n = k + 1
      BY <3>1
    <3> QED
      BY <2>2, <3>1, <3>2, <3>3
  <2> HIDE DEF S
  <2>3. \A k \in 0 .. N : k \in S
    BY <1>2, <2>1, <2>2, BoundedInduction
  <2>4. N \in S
    BY <1>2, <2>3
  <2> QED
    BY <1>2, <2>4 DEF S
<1>7. ASSUME \A n \in Nodes : R[n].outcome = "reported" PROVE FirstIsHeaviest
  BY <1>4, <1>7 DEF FirstIsHeaviest, ResultKnown
<1> QED
  BY <1>5, <1>6, <1>7 DEF R

\* Nothing happens after the end of the run, and only CollectResults ends it
\* with a result.
LEMMA EndOfRun ==
  ASSUME [Next]_vars
  PROVE  /\ prog' = prog
         /\ UNCHANGED vars \/ (status = "running" /\ status' \in {"running", "exited"})
              \/ CollectResults
<1>1. CASE SetUpSingle
  BY <1>1 DEF SetUpSingle, At
<1>2. CASE RunOnce \/ EndOfList \/ EndInstructions
  BY <1>2 DEF RunOnce, EndOfList, EndInstructions, At
<1>3. CASE NextItem
  BY <1>3 DEF NextItem, At
<1>4. CASE NotIterable
  BY <1>4 DEF NotIterable, At
<1>5. CASE CallInstruction
  BY <1>5 DEF CallInstruction, At
<1>6. CASE TearDownSingle
  BY <1>6 DEF TearDownSingle, At
<1>7. CASE Return
  BY <1>7 DEF Return, At
<1>8. CASE CollectResults
  BY <1>8 DEF CollectResults
<1>9. ASSUME NEW d \in Durations, RunSingle(d) PROVE prog' = prog /\ status = "running" /\ status' = "running"
  BY <1>9 DEF RunSingle, At
<1>10. CASE UNCHANGED vars
  BY <1>10 DEF vars
<1> QED
  BY <1>1, <1>2, <1>3, <1>4, <1>5, <1>6, <1>7, <1>8, <1>9, <1>10 DEF Next

\* The weights are those of the tree.
LEMMA HeaviestStays ==
  ASSUME prog' = prog
  PROVE  FirstIsHeaviest' <=> FirstIsHeaviest
BY DEF FirstIsHeaviest, Weight, Nodes

\* The way a run ends says whether a set holds an instruction that contributes
\* more durations than its first one.
LEMMA OverrunsStep == IInv /\ Counted /\ OverrunsExactly /\ [Next]_vars => OverrunsExactly'
<1> SUFFICES ASSUME IInv, Counted, OverrunsExactly, [Next]_vars PROVE OverrunsExactly'
  OBVIOUS
<1>1. prog' = prog
  BY EndOfRun
<1>2. FirstIsHeaviest' <=> FirstIsHeaviest
  BY <1>1, HeaviestStays
<1>3. CASE UNCHANGED vars
  BY <1>2, <1>3 DEF OverrunsExactly, vars
<1>4. CASE status' \in {"running", "exited"}
  BY <1>4 DEF OverrunsExactly
<1>5. CASE CollectResults
  <2>1. Done /\ status' = Results[1].outcome
    BY <1>5, DoneWhenEmpty DEF CollectResults
  <2> QED
    BY <1>2, <2>1, OutcomeOf DEF OverrunsExactly
<1> QED
  BY <1>3, <1>4, <1>5, EndOfRun

\* CollectResults writes past the end of its duration vector exactly for the
\* trees in which a later instruction of a set contributes more durations than
\* the first one, for any tree and any time the instructions take.
THEOREM OverrunsAlwaysExactly == Spec => []OverrunsExactly
<1>1. Init => OverrunsExactly
  BY DEF Init, OverrunsExactly
<1>2. IInv /\ Counted /\ OverrunsExactly /\ [Next]_vars => OverrunsExactly'
  BY OverrunsStep
<1> QED
  BY <1>1, <1>2, Invariance, CallsAlwaysCounted, PTL DEF Spec

-----------------------------------------------------------------------------
(* Sums of sequences *)

\* One element more.
LEMMA TotalOne ==
  ASSUME NEW s \in Seq(Nat), NEW t \in Seq(Nat), Len(t) = Len(s), NEW k \in 1 .. Len(s),
         NEW d \in Nat, t[k] = s[k] + d, \A j \in 1 .. Len(s) : j # k => t[j] = s[j]
  PROVE  Total(t) = Total(s) + d
<1> DEFINE N == Len(s)
           T == {m \in 0 .. N : Prefix(t, m) = Prefix(s, m) + (IF m >= k THEN d ELSE 0)}
<1>1. N \in Nat /\ k \in Nat /\ k # 0 /\ N >= k /\ N \in 0 .. N
  OBVIOUS
<1>2. /\ Prefix(s, 0) = 0 /\ Prefix(s, N) = Total(s)
      /\ \A m \in 0 .. N : Prefix(s, m) \in Nat
      /\ \A m \in 0 .. N - 1 : Prefix(s, m + 1) = Prefix(s, m) + s[m + 1]
  BY PrefixSums
<1>3. /\ Prefix(t, 0) = 0 /\ Prefix(t, N) = Total(t)
      /\ \A m \in 0 .. N - 1 : Prefix(t, m + 1) = Prefix(t, m) + t[m + 1]
  BY PrefixSums
<1>4. 0 \in T
  BY <1>1, <1>2, <1>3
<1>5. ASSUME NEW m \in 0 .. N - 1, m \in T PROVE m + 1 \in T
  <2>1. m \in Nat /\ m + 1 \in 1 .. N /\ m + 1 \in 0 .. N
    BY <1>1
  <2>2. s[m + 1] \in Nat /\ t[m + 1] = s[m + 1] + (IF m + 1 = k THEN d ELSE 0)
    BY <2>1, SMTT(40)
  <2>3. Prefix(t, m) = Prefix(s, m) + (IF m >= k THEN d ELSE 0) /\ Prefix(s, m) \in Nat
    BY <1>2, <1>5
  <2>4. Prefix(t, m + 1) = Prefix(t, m) + t[m + 1] /\ Prefix(s, m + 1) = Prefix(s, m) + s[m + 1]
    BY <1>2, <1>3
  <2>5. Prefix(t, m + 1) = Prefix(s, m + 1) + (IF m + 1 >= k THEN d ELSE 0)
    <3>1. m + 1 < k \/ m + 1 = k \/ m >= k
      BY <1>1, <2>1
    <3>2. CASE m + 1 < k
      BY <1>1, <2>1, <2>2, <2>3, <2>4, <3>2
    <3>3. CASE m + 1 = k
      <4>1. ~(m >= k) /\ m + 1 >= k
        BY <2>1, <3>3
      <4> QED
        BY <2>2, <2>3, <2>4, <3>3, <4>1
    <3>4. CASE m >= k
      <4>1. m + 1 # k /\ m + 1 >= k
        BY <1>1, <2>1, <3>4
      <4> QED
        BY <2>2, <2>3, <2>4, <3>4, <4>1, SMTT(40)
    <3> QED
      BY <3>1, <3>2, <3>3, <3>4
  <2> QED
    BY <2>1, <2>5
<1>6. \A m \in 0 .. N : m \in T
  <2> HIDE DEF T, N
  <2> QED
    BY <1>1, <1>4, <1>5, BoundedInduction
<1> QED
  BY <1>1, <1>2, <1>3, <1>6

\* Sums added element by element.
LEMMA TotalSum ==
  ASSUME NEW s \in Seq(Nat), NEW t \in Seq(Nat), NEW u \in Seq(Nat), Len(t) = Len(s),
         Len(u) = Len(s), \A j \in 1 .. Len(s) : t[j] = s[j] + u[j]
  PROVE  Total(t) = Total(s) + Total(u)
<1> DEFINE N == Len(s)
           T == {m \in 0 .. N : Prefix(t, m) = Prefix(s, m) + Prefix(u, m)}
<1>1. N \in Nat /\ N \in 0 .. N
  OBVIOUS
<1>2. /\ Prefix(s, 0) = 0 /\ Prefix(s, N) = Total(s)
      /\ \A m \in 0 .. N : Prefix(s, m) \in Nat
      /\ \A m \in 0 .. N - 1 : Prefix(s, m + 1) = Prefix(s, m) + s[m + 1]
  BY PrefixSums
<1>3. /\ Prefix(t, 0) = 0 /\ Prefix(t, N) = Total(t)
      /\ \A m \in 0 .. N - 1 : Prefix(t, m + 1) = Prefix(t, m) + t[m + 1]
  BY PrefixSums
<1>4. /\ Prefix(u, 0) = 0 /\ Prefix(u, N) = Total(u)
      /\ \A m \in 0 .. N : Prefix(u, m) \in Nat
      /\ \A m \in 0 .. N - 1 : Prefix(u, m + 1) = Prefix(u, m) + u[m + 1]
  BY PrefixSums
<1>5. 0 \in T
  BY <1>1, <1>2, <1>3, <1>4
<1>6. ASSUME NEW m \in 0 .. N - 1, m \in T PROVE m + 1 \in T
  <2>1. m + 1 \in 1 .. N /\ m + 1 \in 0 .. N /\ m \in 0 .. N
    BY <1>1
  <2>2. s[m + 1] \in Nat /\ u[m + 1] \in Nat /\ t[m + 1] = s[m + 1] + u[m + 1]
    BY <2>1, SMTT(40)
  <2>3. Prefix(t, m) = Prefix(s, m) + Prefix(u, m) /\ Prefix(s, m) \in Nat /\ Prefix(u, m) \in Nat
    BY <1>2, <1>4, <1>6
  <2>4. /\ Prefix(t, m + 1) = Prefix(t, m) + t[m + 1]
        /\ Prefix(s, m + 1) = Prefix(s, m) + s[m + 1]
        /\ Prefix(u, m + 1) = Prefix(u, m) + u[m + 1]
    BY <1>2, <1>3, <1>4
  <2>5. Prefix(t, m + 1) = Prefix(s, m + 1) + Prefix(u, m + 1)
    BY <2>2, <2>3, <2>4, SMTT(40)
  <2> QED
    BY <2>1, <2>5
<1>7. \A m \in 0 .. N : m \in T
  <2> HIDE DEF T, N
  <2> QED
    BY <1>1, <1>5, <1>6, BoundedInduction
<1> QED
  BY <1>1, <1>2, <1>3, <1>4, <1>7

\* A sample more.
LEMMA TotalAppend ==
  ASSUME NEW s \in Seq(Nat), NEW x \in Nat
  PROVE  /\ Total(Append(s, x)) = Total(s) + x
         /\ \A m \in 0 .. Len(s) : Prefix(Append(s, x), m) = Prefix(s, m)
<1> DEFINE t == Append(s, x)
           N == Len(s)
<1>1. t \in Seq(Nat) /\ Len(t) = N + 1 /\ t[N + 1] = x /\ \A j \in 1 .. N : t[j] = s[j]
  OBVIOUS
<1>2. N \in Nat /\ N \in 0 .. N /\ N \in 0 .. N + 1 - 1
  OBVIOUS
<1> HIDE DEF t
<1>3. ASSUME NEW m \in 0 .. N PROVE Prefix(t, m) = Prefix(s, m)
  <2>1. \A i \in 1 .. m : t[i] = s[i]
    BY <1>1, <1>2
  <2>2. [i \in 1 .. m |-> t[i]] = [i \in 1 .. m |-> s[i]]
    BY <2>1
  <2> QED
    BY <2>2 DEF Prefix
<1>4. Prefix(t, N + 1) = Prefix(t, N) + t[N + 1] /\ Prefix(t, N + 1) = Total(t)
  BY <1>1, <1>2, PrefixSums, SMTT(40)
<1>5. Prefix(s, N) = Total(s)
  BY PrefixSums
<1>6. Total(t) = Total(s) + x
  BY <1>1, <1>2, <1>3, <1>4, <1>5
<1> QED
  BY <1>3, <1>6 DEF t

\* The sum of a group.
LEMMA TotalGroup ==
  ASSUME NEW s \in Seq(Nat), NEW a \in Nat, NEW r \in Nat, a + r <= Len(s)
  PROVE  Prefix(s, a + r) = Prefix(s, a) + Total(SubSeq(s, a + 1, a + r))
<1> DEFINE u == SubSeq(s, a + 1, a + r)
           T == {m \in 0 .. r : Prefix(s, a + m) = Prefix(s, a) + Prefix(u, m)}
<1>1. u \in Seq(Nat) /\ Len(u) = r /\ \A j \in 1 .. r : u[j] = s[a + j]
  BY GroupShape
<1> HIDE DEF u
<1>2. /\ Prefix(u, 0) = 0 /\ Prefix(u, r) = Total(u)
      /\ \A m \in 0 .. r : Prefix(u, m) \in Nat
      /\ \A m \in 0 .. r - 1 : Prefix(u, m + 1) = Prefix(u, m) + u[m + 1]
  BY <1>1, PrefixSums
<1>3. /\ \A m \in 0 .. Len(s) : Prefix(s, m) \in Nat
      /\ \A m \in 0 .. Len(s) - 1 : Prefix(s, m + 1) = Prefix(s, m) + s[m + 1]
  BY PrefixSums
<1>4. a \in 0 .. Len(s) /\ 0 \in 0 .. r /\ a + 0 = a /\ r \in 0 .. r
  OBVIOUS
<1>5. 0 \in T
  BY <1>2, <1>3, <1>4
<1>6. ASSUME NEW m \in 0 .. r - 1, m \in T PROVE m + 1 \in T
  <2>1. /\ m \in Nat /\ m + 1 \in 0 .. r /\ m + 1 \in 1 .. r /\ a + m \in 0 .. Len(s) - 1 /\ m \in 0 .. r
        /\ a + (m + 1) = (a + m) + 1
    OBVIOUS
  <2>2. Prefix(s, a + m) = Prefix(s, a) + Prefix(u, m) /\ Prefix(s, a) \in Nat /\ Prefix(u, m) \in Nat
    BY <1>2, <1>3, <1>4, <1>6, <2>1
  <2>3. Prefix(s, (a + m) + 1) = Prefix(s, a + m) + s[(a + m) + 1]
    BY <1>3, <2>1
  <2>4. Prefix(u, m + 1) = Prefix(u, m) + u[m + 1] /\ u[m + 1] = s[a + (m + 1)] /\ u[m + 1] \in Nat
    <3>1. Prefix(u, m + 1) = Prefix(u, m) + u[m + 1]
      BY <1>2
    <3>2. u[m + 1] = s[a + (m + 1)]
      BY <1>1, <2>1
    <3>3. u[m + 1] \in Nat
      BY <1>1, <2>1
    <3> QED
      BY <3>1, <3>2, <3>3
  <2>5. Prefix(s, a + (m + 1)) = Prefix(s, a) + Prefix(u, m + 1)
    BY <2>1, <2>2, <2>3, <2>4, SMTT(40)
  <2> QED
    BY <2>1, <2>5
<1>7. \A m \in 0 .. r : m \in T
  <2> HIDE DEF T
  <2> QED
    BY <1>5, <1>6, BoundedInduction
<1>8. Prefix(s, a + r) = Prefix(s, a) + Total(u)
  BY <1>2, <1>4, <1>7
<1> QED
  BY <1>8 DEF u

\* Samples added up in groups that take all of them have the same sum.
LEMMA TotalGrouped ==
  ASSUME NEW s \in Seq(Nat), NEW r \in Nat \ {0}, NEW q \in Nat, Len(s) = q * r
  PROVE  /\ Grouped(s, r) \in Seq(Nat) /\ Len(Grouped(s, r)) = q
         /\ \A i \in 1 .. q : /\ (i - 1) * r \in 0 .. Len(s) /\ i * r \in 0 .. Len(s)
                              /\ Prefix(s, i * r) = Prefix(s, (i - 1) * r) + Grouped(s, r)[i]
         /\ Total(Grouped(s, r)) = Total(s)
<1> DEFINE g == Grouped(s, r)
           T == {m \in 0 .. q : Prefix(g, m) = Prefix(s, m * r)}
<1>0. Len(s) \in Nat /\ (q * r) \div r = q
  OBVIOUS
<1>1. g \in Seq(Nat) /\ Len(g) = q
  BY <1>0, GroupedShape
<1>2. \A i \in 1 .. q : (i - 1) * r \in Nat /\ i * r = (i - 1) * r + r /\ i * r <= Len(s)
  BY <1>0, GroupInside
<1>3. \A i \in 1 .. q : g[i] = Total(SubSeq(s, (i - 1) * r + 1, i * r))
  BY <1>0 DEF Grouped
<1> HIDE DEF g
<1>4. ASSUME NEW i \in 1 .. q
      PROVE  /\ (i - 1) * r \in 0 .. Len(s) /\ i * r \in 0 .. Len(s)
             /\ Prefix(s, i * r) = Prefix(s, (i - 1) * r) + g[i]
  <2> DEFINE a == (i - 1) * r
  <2>1. a \in Nat /\ i * r = a + r /\ a + r <= Len(s)
    BY <1>2
  <2> HIDE DEF a
  <2>2. Prefix(s, a + r) = Prefix(s, a) + Total(SubSeq(s, a + 1, a + r))
    BY <2>1, TotalGroup
  <2>3. Prefix(s, i * r) = Prefix(s, a) + g[i]
    BY <1>3, <2>1, <2>2 DEF a
  <2>4. a \in 0 .. Len(s) /\ a + r \in 0 .. Len(s)
    BY <1>0, <2>1
  <2> QED
    BY <2>1, <2>3, <2>4 DEF a
<1>5. /\ Prefix(g, 0) = 0 /\ Prefix(g, q) = Total(g)
      /\ \A m \in 0 .. q - 1 : Prefix(g, m + 1) = Prefix(g, m) + g[m + 1]
  BY <1>1, PrefixSums
<1>6. Prefix(s, 0) = 0 /\ Prefix(s, Len(s)) = Total(s)
  BY PrefixSums
<1>7. 0 \in T
  <2>1. 0 * r = 0 /\ 0 \in 0 .. q
    OBVIOUS
  <2> QED
    BY <1>5, <1>6, <2>1
<1>8. ASSUME NEW m \in 0 .. q - 1, m \in T PROVE m + 1 \in T
  <2>1. m + 1 \in 1 .. q /\ m + 1 \in 0 .. q /\ m + 1 - 1 = m
    OBVIOUS
  <2>2. Prefix(s, (m + 1) * r) = Prefix(s, m * r) + g[m + 1]
    BY <1>4, <2>1
  <2>3. Prefix(g, m) = Prefix(s, m * r)
    BY <1>8
  <2>4. Prefix(g, m + 1) = Prefix(g, m) + g[m + 1]
    BY <1>5
  <2> QED
    BY <2>1, <2>2, <2>3, <2>4
<1>9. \A m \in 0 .. q : m \in T
  <2> HIDE DEF T
  <2> QED
    BY <1>7, <1>8, BoundedInduction
<1>10. q \in 0 .. q
  OBVIOUS
<1>11. Total(g) = Total(s)
  BY <1>5, <1>6, <1>9, <1>10
<1> QED
  BY <1>1, <1>4, <1>11 DEF g

-----------------------------------------------------------------------------
(* The time instructions take *)

\* The time a call has measured in the repetition it is in.
Time(f) == IF f.stage = "loop" THEN 0 ELSE f.elapsed

\* No two calls are of one instruction.
Distinct(calls) == \A j, k \in DOMAIN calls : calls[j].node = calls[k].node => j = k

\* The time measured in the repetition of n in progress, if there is one.
Open(calls, n) ==
  IF \E k \in DOMAIN calls : calls[k].node = n
    THEN Time(calls[CHOOSE k \in DOMAIN calls : calls[k].node = n])
    ELSE 0

\* All the time n has measured.
Spent(calls, record, n) == Total(record[n]) + Open(calls, n)

\* The same for its instructions.
KidsSpent(calls, record, n) ==
  [j \in DOMAIN prog[n].kids |-> Spent(calls, record, prog[n].kids[j])]

\* No instruction loses its measurement.
AllMeasured == \A n \in Nodes : prog[n].kind # "mem_alloc"

\* A set measures the time of its instructions, no more and no less, at every
\* moment.
AddUp(calls, record) ==
  \A n \in Nodes :
    prog[n].kind # "leaf" => Spent(calls, record, n) = Total(KidsSpent(calls, record, n))

\* A mem_alloc, which never ends its measurement, is out of this.
SpentKnown == AllMeasured => AddUp(stack, samples)

\* The time of an instruction with a call is that of the call ...
LEMMA OpenOf ==
  ASSUME NEW calls, Distinct(calls), NEW k \in DOMAIN calls
  PROVE  Open(calls, calls[k].node) = Time(calls[k])
<1> DEFINE j == CHOOSE i \in DOMAIN calls : calls[i].node = calls[k].node
<1>1. j \in DOMAIN calls /\ calls[j].node = calls[k].node
  BY Zenon
<1> HIDE DEF j
<1>2. j = k
  BY <1>1 DEF Distinct
<1>3. Open(calls, calls[k].node) = Time(calls[j])
  BY Zenon DEF Open, j
<1> QED
  BY <1>2, <1>3

\* ... and there is none without one.
LEMMA OpenNone ==
  ASSUME NEW calls, NEW n, \A k \in DOMAIN calls : calls[k].node # n
  PROVE  Open(calls, n) = 0
BY DEF Open

\* Calls of the same instructions for the same time.
LEMMA OpenSame ==
  ASSUME NEW old, NEW new, Distinct(old), Distinct(new), DOMAIN new = DOMAIN old,
         \A k \in DOMAIN old : new[k].node = old[k].node /\ Time(new[k]) = Time(old[k])
  PROVE  \A n : Open(new, n) = Open(old, n)
<1> SUFFICES ASSUME NEW n PROVE Open(new, n) = Open(old, n)
  OBVIOUS
<1>1. CASE \E k \in DOMAIN old : old[k].node = n
  <2>1. PICK k \in DOMAIN old : old[k].node = n
    BY <1>1
  <2>2. Open(old, old[k].node) = Time(old[k]) /\ Open(new, new[k].node) = Time(new[k])
    BY OpenOf
  <2> QED
    BY <2>1, <2>2
<1>2. CASE ~\E k \in DOMAIN old : old[k].node = n
  <2>1. Open(old, n) = 0
    BY <1>2, OpenNone
  <2>2. Open(new, n) = 0
    BY <1>2, OpenNone
  <2> QED
    BY <2>1, <2>2
<1> QED
  BY <1>1, <1>2

\* One more call, which has measured nothing.
LEMMA OpenMore ==
  ASSUME NEW old, NEW new, NEW l \in Nat, DOMAIN old = 1 .. l, DOMAIN new = 1 .. l + 1,
         Distinct(old), Distinct(new), Time(new[l + 1]) = 0,
         \A k \in 1 .. l : new[k].node = old[k].node /\ Time(new[k]) = Time(old[k])
  PROVE  \A n : Open(new, n) = Open(old, n)
<1> SUFFICES ASSUME NEW n PROVE Open(new, n) = Open(old, n)
  OBVIOUS
<1>0. l + 1 \in DOMAIN new /\ \A k \in 1 .. l + 1 : k \in 1 .. l \/ k = l + 1
  OBVIOUS
<1>9. \A k \in 1 .. l : k \in 1 .. l + 1 /\ k # l + 1
  OBVIOUS
<1>1. CASE \E k \in DOMAIN old : old[k].node = n
  <2>1. PICK k \in DOMAIN old : old[k].node = n
    BY <1>1
  <2>2. k \in DOMAIN new
    BY <1>9
  <2>3. Open(old, old[k].node) = Time(old[k]) /\ Open(new, new[k].node) = Time(new[k])
    BY <2>2, OpenOf
  <2> QED
    BY <2>1, <2>3
<1>2. CASE ~\E k \in DOMAIN old : old[k].node = n
  <2>1. Open(old, n) = 0
    BY <1>2, OpenNone
  <2>2. CASE new[l + 1].node = n
    BY <1>0, <2>1, <2>2, OpenOf
  <2>3. CASE new[l + 1].node # n
    <3>1. \A k \in DOMAIN new : new[k].node # n
      BY <1>0, <1>2, <2>3
    <3> QED
      BY <2>1, <3>1, OpenNone
  <2> QED
    BY <2>2, <2>3
<1> QED
  BY <1>1, <1>2

\* A tree has no recursion.
LEMMA StackDistinct == IInv => Distinct(stack)
<1> SUFFICES ASSUME IInv, NEW j \in DOMAIN stack, NEW k \in DOMAIN stack,
                    stack[j].node = stack[k].node
             PROVE  j = k
  BY DEF Distinct
<1>0. j \in Nat /\ k \in Nat /\ stack[j] \in Frames
  BY DEF IInv, Typed
<1>1. j \in Nat /\ k \in Nat /\ stack[j].node \in Nat
  BY <1>0 DEF Frames
<1>2. ~(j < k) /\ ~(k < j)
  BY <1>1 DEF IInv, Descending
<1> QED
  BY <1>1, <1>2

\* The same after a step.
LEMMA NextDistinct == ASSUME IInv' PROVE Distinct(stack')
<1>1. IInv' => Distinct(stack)'
  BY StackDistinct, PTL
<1>2. Distinct(stack)'
  BY <1>1
<1> QED
  BY <1>2 DEF Distinct

\* The times are numbers.
LEMMA OpenNat ==
  ASSUME IInv, NEW n
  PROVE  Open(stack, n) \in Nat
<1>1. CASE \E k \in DOMAIN stack : stack[k].node = n
  <2>1. PICK k \in DOMAIN stack : stack[k].node = n
    BY <1>1
  <2>2. Open(stack, n) = Time(stack[k])
    BY <2>1, StackDistinct, OpenOf
  <2>3. stack[k] \in Frames
    BY <2>1 DEF IInv, Typed
  <2>4. stack[k].elapsed \in Nat
    BY <2>3 DEF Frames
  <2> QED
    BY <2>2, <2>4 DEF Time
<1>2. CASE ~\E k \in DOMAIN stack : stack[k].node = n
  BY <1>2, OpenNone
<1> QED
  BY <1>1, <1>2

\* The stack keeps the times when nothing runs and nothing is recorded.
LEMMA OpenInside ==
  ASSUME IInv, IInv',
         SetUpSingle \/ RunOnce \/ NextItem \/ EndOfList \/ EndInstructions
  PROVE  \A n : Open(stack', n) = Open(stack, n)
<1> DEFINE l == Len(stack)
           f == stack'[l]
<1>1. stack # <<>> /\ Typed
  BY DEF SetUpSingle, RunOnce, NextItem, EndOfList, EndInstructions, At, IInv
<1>2. l \in Nat \ {0} /\ DOMAIN stack = 1 .. l /\ top = stack[l] /\ top \in Frames
  BY <1>1, StackTop DEF IInv
<1>3. Distinct(stack) /\ Distinct(stack')
  BY StackDistinct, NextDistinct
<1>4. \E e \in Frames : stack' = Continue(e) /\ e.node = top.node /\ Time(e) = Time(top)
  <2>1. CASE SetUpSingle
    <3> DEFINE e == [top EXCEPT !.stage = "run", !.elapsed = 0, !.item = 0]
    <3>1. e \in Frames /\ e.node = top.node /\ e.stage = "run" /\ e.elapsed = 0
      BY <1>2 DEF Frames
    <3>2. stack' = Continue(e) /\ top.stage = "loop"
      BY <2>1 DEF SetUpSingle, At
    <3> HIDE DEF e
    <3>3. Time(e) = Time(top)
      BY <3>1, <3>2 DEF Time
    <3> QED
      BY <3>1, <3>2, <3>3
  <2>2. CASE RunOnce
    <3> DEFINE e == [top EXCEPT !.stage = "instructions", !.next = 1]
    <3>0. 1 \in Nat \ {0}
      OBVIOUS
    <3>8. e \in Frames
      BY <1>2, <3>0 DEF Frames
    <3>1. e \in Frames /\ e.node = top.node /\ e.stage = "instructions" /\ e.elapsed = top.elapsed
      BY <1>2, <3>8 DEF Frames
    <3>2. stack' = Continue(e) /\ top.stage = "run"
      BY <2>2 DEF RunOnce, At
    <3> HIDE DEF e
    <3>3. Time(e) = Time(top)
      BY <3>1, <3>2 DEF Time
    <3> QED
      BY <3>1, <3>2, <3>3
  <2>3. CASE NextItem
    <3> DEFINE up == top.item + 1
               e == [top EXCEPT !.stage = "instructions", !.item = up, !.next = 1]
    <3>0. up \in Nat
      BY <1>2 DEF Frames
    <3>1. stack' = Continue(e) /\ top.stage = "run"
      BY <2>3 DEF NextItem, At
    <3> HIDE DEF up
    <3>8. 1 \in Nat \ {0}
      OBVIOUS
    <3>9. e \in Frames
      BY <1>2, <3>0, <3>8 DEF Frames
    <3>2. e \in Frames /\ e.node = top.node /\ e.stage = "instructions" /\ e.elapsed = top.elapsed
      BY <1>2, <3>0, <3>9 DEF Frames
    <3> HIDE DEF e
    <3>3. Time(e) = Time(top)
      BY <3>1, <3>2 DEF Time
    <3> QED
      BY <3>1, <3>2, <3>3
  <2>4. CASE EndOfList \/ EndInstructions
    <3> DEFINE to == IF EndOfList THEN "teardown"
                     ELSE IF node.kind = "iterate" THEN "run" ELSE "teardown"
               e == [top EXCEPT !.stage = to]
    <3>0. to \in {"run", "teardown"}
      OBVIOUS
    <3>1. stack' = Continue(e) /\ top.stage \in {"run", "instructions"}
      BY <2>4 DEF EndOfList, EndInstructions, At
    <3> HIDE DEF to
    <3>2. e \in Frames /\ e.node = top.node /\ e.stage = to /\ e.elapsed = top.elapsed
      BY <1>2, <3>0 DEF Frames
    <3> HIDE DEF e
    <3>3. Time(e) = Time(top)
      BY <3>0, <3>1, <3>2 DEF Time
    <3> QED
      BY <3>1, <3>2, <3>3
  <2> QED
    BY <2>1, <2>2, <2>3, <2>4
<1>5. PICK e \in Frames : stack' = Continue(e) /\ e.node = top.node /\ Time(e) = Time(top)
  BY <1>4
<1>6. /\ stack' \in Seq(Frames) /\ Len(stack') = l /\ stack'[l] = e
      /\ \A k \in 1 .. l - 1 : stack'[k] = stack[k]
  BY <1>1, <1>5, Replaced
<1>7. DOMAIN stack' = DOMAIN stack
  BY <1>2, <1>6
<1>8. \A k \in DOMAIN stack : stack'[k].node = stack[k].node /\ Time(stack'[k]) = Time(stack[k])
  <2> SUFFICES ASSUME NEW k \in 1 .. l
               PROVE  stack'[k].node = stack[k].node /\ Time(stack'[k]) = Time(stack[k])
    BY <1>2
  <2>1. k = l \/ k \in 1 .. l - 1
    <3>1. l \in Nat
      BY <1>2
    <3> HIDE DEF l
    <3> QED
      BY <3>1
  <2>2. CASE k = l
    BY <1>2, <1>5, <1>6, <2>2
  <2>3. CASE k \in 1 .. l - 1
    BY <1>6, <2>3
  <2> QED
    BY <2>1, <2>2, <2>3
<1> QED
  BY <1>3, <1>7, <1>8, OpenSame

\* A step that changes no instruction's time.
LEMMA SpentStays ==
  ASSUME Typed, SpentKnown, prog' = prog,
         \A n \in Nodes : Spent(stack', samples', n) = Spent(stack, samples, n)
  PROVE  SpentKnown'
<1> SUFFICES ASSUME AllMeasured PROVE AddUp(stack', samples')
  <2>1. AllMeasured' <=> AllMeasured
    BY DEF AllMeasured, Nodes
  <2>2. AddUp(stack, samples)' <=> AddUp(stack', samples')
    BY DEF AddUp, KidsSpent, Spent, Open, Time, Nodes
  <2> QED
    BY <2>1, <2>2 DEF SpentKnown
<1>1. AddUp(stack, samples)
  BY DEF SpentKnown
<1> SUFFICES ASSUME NEW n \in Nodes, prog[n].kind # "leaf"
             PROVE  Spent(stack', samples', n) = Total(KidsSpent(stack', samples', n))
  BY DEF AddUp
<1>2. Spent(stack, samples, n) = Total(KidsSpent(stack, samples, n))
  BY <1>1 DEF AddUp
<1>3. \A j \in DOMAIN prog[n].kids : prog[n].kids[j] \in Nodes
  BY ProgramNodes
<1>4. KidsSpent(stack', samples', n) = KidsSpent(stack, samples, n)
  BY <1>3 DEF KidsSpent
<1> QED
  BY <1>2, <1>4

\* CallInstruction and Return.
LEMMA SpentCall ==
  ASSUME IInv, IInv', SpentKnown, CallInstruction
  PROVE  SpentKnown'
<1> DEFINE l == Len(stack)
           kid == node.kids[top.next]
<1>1. /\ l \in Nat /\ DOMAIN stack = 1 .. l /\ DOMAIN stack' = 1 .. l + 1
      /\ stack'[l + 1] = Frame(kid)
      /\ \A k \in 1 .. l : /\ stack'[k].node = stack[k].node /\ stack'[k].stage = stack[k].stage
                           /\ stack'[k].elapsed = stack[k].elapsed
      /\ prog' = prog /\ samples' = samples
  BY CallShape
<1> HIDE DEF l, kid
<1>2. \A k \in 1 .. l : stack'[k].node = stack[k].node /\ Time(stack'[k]) = Time(stack[k])
  BY <1>1 DEF Time
<1>3. Time(stack'[l + 1]) = 0
  BY <1>1 DEF Time, Frame
<1>4. \A n : Open(stack', n) = Open(stack, n)
  BY <1>1, <1>2, <1>3, StackDistinct, NextDistinct, OpenMore
<1>5. \A n \in Nodes : Spent(stack', samples', n) = Spent(stack, samples, n)
  BY <1>1, <1>4 DEF Spent
<1> QED
  BY <1>1, <1>5, SpentStays DEF IInv

\* Return drops a call whose time is recorded.
LEMMA SpentReturn ==
  ASSUME IInv, IInv', SpentKnown, Return
  PROVE  SpentKnown'
<1> DEFINE l == Len(stack) - 1
<1>1. stack # <<>> /\ top.stage = "loop" /\ prog' = prog /\ samples' = samples /\ stack' = Front(stack)
  BY DEF Return, At
<1>2. Len(stack) \in Nat \ {0} /\ DOMAIN stack = 1 .. Len(stack) /\ top = stack[Len(stack)]
  BY <1>1, StackTop DEF IInv
<1>3. /\ Front(stack) \in Seq(Frames) /\ Len(Front(stack)) = Len(stack) - 1
      /\ \A k \in 1 .. Len(stack) - 1 : Front(stack)[k] = stack[k]
  BY <1>1, Popped DEF IInv
<1>4. l \in Nat /\ Len(stack) = l + 1
  BY <1>2
<1>5. DOMAIN stack' = 1 .. l
  BY <1>1, <1>3
<1>6. DOMAIN stack = 1 .. l + 1
  BY <1>2, <1>4
<1>7. \A k \in 1 .. l : stack[k].node = stack'[k].node /\ Time(stack[k]) = Time(stack'[k])
  BY <1>1, <1>3
<1>8. Time(stack[l + 1]) = 0
  BY <1>1, <1>2, <1>4 DEF Time
<1> HIDE DEF l
<1>9. \A n : Open(stack, n) = Open(stack', n)
  BY <1>4, <1>5, <1>6, <1>7, <1>8, StackDistinct, NextDistinct, OpenMore
<1>10. \A n \in Nodes : Spent(stack', samples', n) = Spent(stack, samples, n)
  BY <1>1, <1>9 DEF Spent
<1> QED
  BY <1>1, <1>10, SpentStays DEF IInv

\* TearDownSingle turns the time of the repetition into a sample.
LEMMA TearDownShape ==
  ASSUME IInv, Counted, TearDownSingle, AllMeasured
  PROVE  LET l == Len(stack)
         IN  /\ l \in Nat \ {0} /\ DOMAIN stack = 1 .. l /\ DOMAIN stack' = 1 .. l
             /\ top = stack[l] /\ top.node \in Nodes /\ top.stage = "teardown"
             /\ stack'[l].node = top.node /\ stack'[l].stage = "loop"
             /\ \A k \in 1 .. l - 1 : stack'[k] = stack[k]
             /\ prog' = prog /\ rounds' = rounds /\ top.elapsed \in Nat /\ samples[top.node] \in Seq(Nat)
             /\ samples'[top.node] = Append(samples[top.node], top.elapsed)
             /\ \A m \in Nodes : m # top.node => samples'[m] = samples[m]
<1> DEFINE n == top.node
           l == Len(stack)
           up == top.i + 1
           f == [top EXCEPT !.stage = "loop", !.i = up]
<1>1. stack # <<>> /\ top.stage = "teardown" /\ Typed
  BY DEF TearDownSingle, At, IInv
<1>2. /\ l \in Nat \ {0} /\ DOMAIN stack = 1 .. l /\ top = stack[l] /\ top \in Frames /\ n \in Nodes
      /\ node.kind # "mem_alloc"
  BY <1>1, StackTop DEF IInv, AllMeasured, node
<1>3. top.elapsed \in Nat /\ samples[n] \in Seq(Nat) /\ up \in Nat
  BY <1>2 DEF Frames, Counted
<1>4. stack' = Continue(f) /\ prog' = prog /\ rounds' = rounds
  BY DEF TearDownSingle
<1>5. samples' = [samples EXCEPT ![n] = Append(samples[n], top.elapsed)]
  BY <1>2 DEF TearDownSingle, Counted
<1> HIDE DEF up
<1>6. f \in Frames
  BY <1>2, <1>3 DEF Frames
<1>7. f.node = n /\ f.stage = "loop"
  BY <1>2, <1>3 DEF Frames
<1> HIDE DEF f
<1>8. /\ stack' \in Seq(Frames) /\ Len(stack') = l /\ stack'[l] = f
      /\ \A k \in 1 .. l - 1 : stack'[k] = stack[k]
  BY <1>1, <1>4, <1>6, Replaced
<1>9. DOMAIN stack' = 1 .. l
  BY <1>8
<1>10. /\ samples'[n] = Append(samples[n], top.elapsed)
       /\ \A m \in Nodes : m # n => samples'[m] = samples[m]
  <2>1. samples \in [Nodes -> Seq(Nat)]
    BY DEF Counted
  <2> QED
    BY <1>2, <1>5, <2>1
<1> QED
  BY <1>1, <1>2, <1>3, <1>4, <1>7, <1>8, <1>9, <1>10

\* TearDownSingle records the time of a repetition.
LEMMA SpentTearDown ==
  ASSUME IInv, IInv', Counted, SpentKnown, TearDownSingle
  PROVE  SpentKnown'
<1>0. CASE ~AllMeasured
  <2>1. prog' = prog
    BY DEF TearDownSingle
  <2>2. AllMeasured' <=> AllMeasured
    BY <2>1 DEF AllMeasured, Nodes
  <2> QED
    BY <1>0, <2>2 DEF SpentKnown
<1>1. CASE AllMeasured
  <2> DEFINE l == Len(stack)
             n == top.node
             x == top.elapsed
  <2>1. /\ l \in Nat \ {0} /\ DOMAIN stack = 1 .. l /\ DOMAIN stack' = 1 .. l
        /\ top = stack[l] /\ n \in Nodes /\ top.stage = "teardown"
        /\ stack'[l].node = n /\ stack'[l].stage = "loop"
    BY <1>1, TearDownShape
  <2>2. /\ \A k \in 1 .. l - 1 : stack'[k] = stack[k]
        /\ prog' = prog /\ x \in Nat /\ samples[n] \in Seq(Nat)
        /\ samples'[n] = Append(samples[n], x)
        /\ \A m \in Nodes : m # n => samples'[m] = samples[m]
    BY <1>1, TearDownShape
  <2>3. l \in DOMAIN stack /\ l \in DOMAIN stack'
    BY <2>1
  <2>4. Open(stack, n) = x /\ Open(stack', n) = 0
    <3>1. Open(stack, stack[l].node) = Time(stack[l])
      BY <2>3, StackDistinct, OpenOf
    <3>2. Open(stack', stack'[l].node) = Time(stack'[l])
      BY <2>3, NextDistinct, OpenOf
    <3> QED
      BY <2>1, <3>1, <3>2 DEF Time
  <2>5. Spent(stack', samples', n) = Spent(stack, samples, n)
    <3>1. Total(Append(samples[n], x)) = Total(samples[n]) + x
      BY <2>2, TotalAppend
    <3>2. Total(samples[n]) \in Nat
      BY <2>2, TotalNat
    <3> HIDE DEF x, n
    <3> QED
      BY <2>2, <2>4, <3>1, <3>2 DEF Spent
  <2>6. ASSUME NEW m \in Nodes, m # n PROVE Spent(stack', samples', m) = Spent(stack, samples, m)
    <3>1. Open(stack', m) = Open(stack, m)
      <4>1. CASE \E k \in DOMAIN stack : stack[k].node = m
        <5>1. PICK k \in DOMAIN stack : stack[k].node = m
          BY <4>1
        <5>2. k \in 1 .. l - 1
          <6>1. k \in 1 .. l /\ k # l
            BY <2>1, <2>6, <5>1
          <6>2. l \in Nat
            BY <2>1
          <6> HIDE DEF l
          <6> QED
            BY <6>1, <6>2
        <5>3. stack'[k] = stack[k] /\ k \in DOMAIN stack'
          BY <2>1, <2>2, <5>2
        <5>4. Open(stack, stack[k].node) = Time(stack[k]) /\ Open(stack', stack'[k].node) = Time(stack'[k])
          BY <5>3, StackDistinct, NextDistinct, OpenOf
        <5> QED
          BY <5>1, <5>3, <5>4
      <4>2. CASE ~\E k \in DOMAIN stack : stack[k].node = m
        <5>1. ASSUME NEW k \in 1 .. l PROVE stack'[k].node # m
          <6>1. k = l \/ k \in 1 .. l - 1
            <7>1. l \in Nat
              BY <2>1
            <7> HIDE DEF l
            <7> QED
              BY <7>1
          <6> QED
            BY <2>1, <2>2, <2>6, <4>2, <6>1
        <5>2. Open(stack', m) = 0
          BY <2>1, <5>1, OpenNone
        <5>3. Open(stack, m) = 0
          BY <4>2, OpenNone
        <5> QED
          BY <5>2, <5>3, SMTT(40)
      <4> QED
        BY <4>1, <4>2
    <3> QED
      BY <2>2, <2>6, <3>1 DEF Spent
  <2>7. \A m \in Nodes : Spent(stack', samples', m) = Spent(stack, samples, m)
    BY <2>5, <2>6
  <2> QED
    BY <2>2, <2>7, SpentStays DEF IInv
<1> QED
  BY <1>0, <1>1

\* An instruction is called by the set that contains it.
LEMMA CalledBySet ==
  ASSUME IInv, Counted, NEW n \in Nodes, NEW j \in DOMAIN prog[n].kids,
         NEW m \in DOMAIN stack, stack[m].node = prog[n].kids[j]
  PROVE  m - 1 \in DOMAIN stack /\ stack[m - 1].node = n /\ stack[m - 1].next - 1 = j
<1> DEFINE k == m - 1
<1>1. Typed /\ Chained /\ FramesFit
  BY DEF IInv, Counted
<1>2. stack \in Seq(Frames) /\ DOMAIN stack = 1 .. Len(stack) /\ Len(stack) \in Nat /\ stack # <<>>
  BY <1>1 DEF Typed
<1>3. prog[n].kids[j] > n /\ prog[n].kids[j] \in Nodes /\ Nodes = 1 .. Len(prog) /\ Len(prog) \in Nat
  BY <1>1, ProgramNodes
<1>4. prog[n].kids[j] # 1
  BY <1>3
<1>5. m # 1
  BY <1>1, <1>2, <1>4 DEF Chained
<1>6. k \in DOMAIN stack /\ k + 1 = m
  BY <1>2, <1>5
<1> HIDE DEF k
<1>7. /\ stack[k].next > 1 /\ stack[k].next \in 1 .. Len(prog[stack[k].node].kids) + 1
      /\ stack[m].node = prog[stack[k].node].kids[stack[k].next - 1]
  BY <1>1, <1>6 DEF Chained
<1>8. stack[k].node \in Nodes
  BY <1>1, <1>6 DEF FramesFit
<1>9. stack[k].next - 1 \in DOMAIN prog[stack[k].node].kids
  <2> DEFINE kids == prog[stack[k].node].kids
             x == stack[k].next
  <2>1. kids \in Seq(Nat)
    BY <1>1, <1>8, ProgramNodes DEF NodeRecords
  <2>2. x > 1 /\ x \in 1 .. Len(kids) + 1
    BY <1>7
  <2> HIDE DEF kids, x
  <2>3. x - 1 \in DOMAIN kids
    BY <2>1, <2>2
  <2> QED
    BY <2>3 DEF kids, x
<1>10. n = stack[k].node /\ j = stack[k].next - 1
  <2> DEFINE p == stack[k].node
             x == stack[k].next - 1
  <2>1. p \in Nodes /\ x \in DOMAIN prog[p].kids /\ prog[p].kids[x] = prog[n].kids[j]
    BY <1>7, <1>8, <1>9
  <2> HIDE DEF p, x
  <2>2. n = p /\ j = x
    BY <1>1, <2>1, ProgramTree
  <2> QED
    BY <2>2 DEF p, x
<1> QED
  BY <1>6, <1>10 DEF k

\* RunSingle of an instruction without others adds its time to every call in
\* progress.
LEMMA RunSingleTimes ==
  ASSUME IInv, IInv', Counted, NEW d \in Durations, RunSingle(d)
  PROVE  /\ d \in Nat /\ prog' = prog /\ samples' = samples
         /\ \A k \in DOMAIN stack : Open(stack', stack[k].node) = Open(stack, stack[k].node) + d
         /\ \A n : (\A k \in DOMAIN stack : stack[k].node # n) => Open(stack', n) = Open(stack, n)
<1> DEFINE l == Len(stack)
<1>1. stack # <<>> /\ top.stage = "run" /\ prog' = prog /\ samples' = samples /\ d \in Nat
  BY InstructionSetAssumption DEF RunSingle, At
<1>2. l \in Nat \ {0} /\ DOMAIN stack = 1 .. l /\ top = stack[l] /\ stack \in Seq(Frames)
  BY <1>1, StackTop DEF IInv, Typed
<1>3. stack' = [k \in 1 .. l |->
                  [stack[k] EXCEPT !.elapsed = @ + d, !.stage = IF k = l THEN "teardown" ELSE @]]
  BY <1>2 DEF RunSingle
<1> HIDE DEF l
<1>4. DOMAIN stack' = 1 .. l
  BY <1>3
<1>5. ASSUME NEW k \in 1 .. l
      PROVE  stack'[k].node = stack[k].node /\ Time(stack'[k]) = Time(stack[k]) + d
  <2> DEFINE f == stack[k]
             e == f.elapsed + d
             to == IF k = l THEN "teardown" ELSE f.stage
  <2>1. f \in Frames
    BY <1>2
  <2>2. f.elapsed \in Nat /\ e \in Nat /\ e = f.elapsed + d
    BY <1>1, <2>1 DEF Frames
  <2>3. stack'[k] = [f EXCEPT !.elapsed = e, !.stage = to]
    BY <1>3
  <2>4. f.stage # "loop"
    <3>1. CASE k = l
      BY <1>1, <1>2, <3>1
    <3>2. CASE k # l
      <4>1. k \in DOMAIN stack /\ k + 1 \in DOMAIN stack
        BY <1>2, <3>2
      <4>2. f.stage = "instructions"
        BY <4>1 DEF Counted, Chained
      <4> QED
        BY <4>2
    <3> QED
      BY <3>1, <3>2
  <2>5. to # "loop"
    BY <2>4
  <2> HIDE DEF e, to, f
  <2>6. stack'[k].node = f.node /\ stack'[k].stage = to /\ stack'[k].elapsed = e
    BY <2>1, <2>2, <2>3 DEF Frames
  <2> QED
    BY <2>2, <2>4, <2>5, <2>6 DEF Time, f
<1>6. ASSUME NEW k \in DOMAIN stack
      PROVE  Open(stack', stack[k].node) = Open(stack, stack[k].node) + d
  <2>1. k \in DOMAIN stack'
    BY <1>2, <1>4
  <2>2. Open(stack, stack[k].node) = Time(stack[k]) /\ Open(stack', stack'[k].node) = Time(stack'[k])
    BY <2>1, StackDistinct, NextDistinct, OpenOf
  <2>3. k \in 1 .. l
    BY <1>2
  <2> QED
    BY <1>5, <2>2, <2>3
<1>7. ASSUME NEW n, \A k \in DOMAIN stack : stack[k].node # n
      PROVE  Open(stack', n) = Open(stack, n)
  <2>1. Open(stack, n) = 0
    BY <1>7, OpenNone
  <2>2. \A k \in DOMAIN stack' : stack'[k].node # n
    BY <1>2, <1>4, <1>5, <1>7
  <2> QED
    BY <2>1, <2>2, OpenNone
<1> QED
  BY <1>1, <1>6, <1>7

\* The times of the instructions of a set are a sequence of numbers.
LEMMA KidsSpentSeq ==
  ASSUME IInv, Counted, NEW n \in Nodes
  PROVE  /\ KidsSpent(stack, samples, n) \in Seq(Nat)
         /\ Len(KidsSpent(stack, samples, n)) = Len(prog[n].kids)
         /\ prog[n].kids \in Seq(Nat)
<1> DEFINE kids == prog[n].kids
           s == KidsSpent(stack, samples, n)
<1>1. Typed /\ kids \in Seq(Nat) /\ \A j \in DOMAIN kids : kids[j] \in Nodes
  BY ProgramNodes DEF IInv, NodeRecords
<1>2. ASSUME NEW m \in Nodes PROVE Spent(stack, samples, m) \in Nat
  <2>1. samples[m] \in Seq(Nat)
    BY DEF Counted
  <2>2. Total(samples[m]) \in Nat
    BY <2>1, TotalNat
  <2>3. Open(stack, m) \in Nat
    BY OpenNat
  <2> QED
    BY <2>2, <2>3 DEF Spent
<1>3. s \in [DOMAIN kids -> Nat]
  BY <1>1, <1>2 DEF KidsSpent
<1> DEFINE N == Len(kids)
<1>4. N \in Nat /\ DOMAIN kids = 1 .. N
  BY <1>1
<1> HIDE DEF s, N
<1>5. s \in [1 .. N -> Nat]
  BY <1>3, <1>4
<1>6. s \in Seq(Nat) /\ Len(s) = N
  BY <1>4, <1>5
<1> QED
  BY <1>1, <1>6 DEF s, N

\* RunSingle adds its duration to every call in progress, the sets included.
LEMMA SpentRunSingle ==
  ASSUME IInv, IInv', Counted, SpentKnown, NEW d \in Durations, RunSingle(d)
  PROVE  SpentKnown'
<1>1. /\ d \in Nat /\ prog' = prog /\ samples' = samples
      /\ \A k \in DOMAIN stack : Open(stack', stack[k].node) = Open(stack, stack[k].node) + d
      /\ \A n : (\A k \in DOMAIN stack : stack[k].node # n) => Open(stack', n) = Open(stack, n)
  BY RunSingleTimes
<1> SUFFICES ASSUME AllMeasured PROVE AddUp(stack', samples')
  <2>1. AllMeasured' <=> AllMeasured
    BY <1>1 DEF AllMeasured, Nodes
  <2>2. AddUp(stack, samples)' <=> AddUp(stack', samples')
    BY <1>1 DEF AddUp, KidsSpent, Spent, Open, Time, Nodes
  <2> QED
    BY <2>1, <2>2 DEF SpentKnown
<1>2. AddUp(stack, samples)
  BY DEF SpentKnown
<1> SUFFICES ASSUME NEW n \in Nodes, prog[n].kind # "leaf"
             PROVE  Spent(stack', samples', n) = Total(KidsSpent(stack', samples', n))
  BY DEF AddUp
<1> DEFINE kids == prog[n].kids
           s == KidsSpent(stack, samples, n)
           t == KidsSpent(stack', samples', n)
<1>3. Spent(stack, samples, n) = Total(s)
  BY <1>2 DEF AddUp
<1>4. s \in Seq(Nat) /\ Len(s) = Len(kids) /\ kids \in Seq(Nat)
  BY KidsSpentSeq
<1>5. \A m \in Nodes : Total(samples[m]) \in Nat /\ Open(stack, m) \in Nat
  <2> SUFFICES ASSUME NEW m \in Nodes PROVE Total(samples[m]) \in Nat /\ Open(stack, m) \in Nat
    OBVIOUS
  <2>1. samples[m] \in Seq(Nat)
    BY DEF Counted
  <2> QED
    BY <2>1, TotalNat, OpenNat
<1>6. \A k \in DOMAIN stack : stack[k].node \in Nodes
  BY DEF IInv, FramesFit
<1>7. \A k \in DOMAIN stack :
        Spent(stack', samples', stack[k].node) = Spent(stack, samples, stack[k].node) + d
  BY <1>1, <1>5, <1>6 DEF Spent
<1>8. \A m : (\A k \in DOMAIN stack : stack[k].node # m) =>
        Spent(stack', samples', m) = Spent(stack, samples, m)
  BY <1>1 DEF Spent
<1>9. \A j \in DOMAIN kids : /\ s[j] = Spent(stack, samples, kids[j])
                             /\ t[j] = Spent(stack', samples', kids[j])
  BY DEF KidsSpent
<1>10. CASE \A k \in DOMAIN stack : stack[k].node # n
  <2>1. ASSUME NEW j \in DOMAIN kids PROVE \A k \in DOMAIN stack : stack[k].node # kids[j]
    BY <1>10, CalledBySet
  <2>2. t = s
    BY <1>8, <2>1 DEF KidsSpent
  <2> QED
    BY <1>3, <1>8, <1>10, <2>2
<1>11. CASE \E k \in DOMAIN stack : stack[k].node = n
  <2>1. PICK k \in DOMAIN stack : stack[k].node = n
    BY <1>11
  <2> DEFINE x == stack[k].next - 1
  <2>2. k + 1 \in DOMAIN stack
    <3>1. stack # <<>> /\ node.kind \in {"leaf", "mem_alloc"}
      BY DEF RunSingle, At
    <3>2. Len(stack) \in Nat \ {0} /\ DOMAIN stack = 1 .. Len(stack) /\ top = stack[Len(stack)]
      BY <3>1, StackTop DEF IInv
    <3>3. prog[n].kind \notin {"leaf", "mem_alloc"}
      BY DEF AllMeasured
    <3>4. k # Len(stack)
      BY <2>1, <3>1, <3>2, <3>3 DEF node
    <3> QED
      BY <3>2, <3>4
  <2>3. stack[k].next > 1 /\ stack[k + 1].node = kids[x] /\ stack[k].next \in 1 .. Len(kids) + 1
    BY <2>1, <2>2 DEF Counted, Chained
  <2>4. x \in 1 .. Len(kids) /\ DOMAIN kids = 1 .. Len(kids)
    <3>1. Len(kids) \in Nat /\ DOMAIN kids = 1 .. Len(kids)
      BY <1>4
    <3> HIDE DEF kids
    <3> QED
      BY <2>3, <3>1
  <2>5. ASSUME NEW j \in 1 .. Len(kids), j # x PROVE \A m \in DOMAIN stack : stack[m].node # kids[j]
    <3> SUFFICES ASSUME NEW m \in DOMAIN stack, stack[m].node = kids[j] PROVE FALSE
      OBVIOUS
    <3>1. m - 1 \in DOMAIN stack /\ stack[m - 1].node = n /\ stack[m - 1].next - 1 = j
      BY <2>4, CalledBySet
    <3>2. m - 1 = k
      BY <2>1, <3>1, StackDistinct DEF Distinct
    <3> QED
      BY <2>5, <3>1, <3>2
  <2> HIDE DEF x, kids
  <2>6. s[x] \in Nat /\ t[x] = s[x] + d
    <3>1. Spent(stack', samples', stack[k + 1].node) = Spent(stack, samples, stack[k + 1].node) + d
      BY <1>7, <2>2
    <3>2. s[x] \in Nat
      BY <1>4, <2>4
    <3> HIDE DEF s, t
    <3> QED
      BY <1>9, <2>3, <2>4, <3>1, <3>2
  <2>7. \A j \in 1 .. Len(kids) : j # x => t[j] = s[j]
    BY <1>8, <1>9, <2>4, <2>5
  <2>8. t \in Seq(Nat) /\ Len(t) = Len(kids)
    <3> DEFINE N == Len(kids)
    <3>1. N \in Nat /\ DOMAIN kids = 1 .. N
      BY <1>4
    <3>2. ASSUME NEW j \in 1 .. N PROVE t[j] \in Nat
      <4>1. s[j] \in Nat
        BY <1>4
      <4>2. CASE j = x
        BY <1>1, <2>6, <4>2
      <4>3. CASE j # x
        BY <2>7, <4>1, <4>3
      <4> QED
        BY <4>2, <4>3
    <3>3. t = [j \in 1 .. N |-> t[j]]
      BY <3>1 DEF KidsSpent, kids
    <3> HIDE DEF t, N
    <3>4. t \in [1 .. N -> Nat]
      BY <3>2, <3>3
    <3>5. t \in Seq(Nat) /\ Len(t) = N
      BY <3>1, <3>4
    <3> QED
      BY <3>5 DEF N
  <2> HIDE DEF s, t
  <2>9. Total(t) = Total(s) + d
    BY <1>1, <1>4, <2>4, <2>6, <2>7, <2>8, TotalOne
  <2> QED
    BY <1>3, <1>7, <2>1, <2>9 DEF t
<1> QED
  BY <1>10, <1>11

\* Nothing adds up to nothing.
LEMMA TotalZeros ==
  ASSUME NEW s \in Seq(Nat), \A j \in 1 .. Len(s) : s[j] = 0
  PROVE  Total(s) = 0
<1>1. \A j \in 1 .. Len(s) : s[j] = s[j] + s[j]
  OBVIOUS
<1>2. Total(s) = Total(s) + Total(s)
  BY <1>1, TotalSum
<1>3. Total(s) \in Nat
  BY TotalNat
<1> QED
  BY <1>2, <1>3

\* Nothing is spent before the first call ...
LEMMA SpentInit == Init => SpentKnown
<1> SUFFICES ASSUME Init, NEW n \in Nodes
             PROVE  Spent(stack, samples, n) = Total(KidsSpent(stack, samples, n))
  BY DEF SpentKnown, AddUp
<1> DEFINE s == KidsSpent(stack, samples, n)
<1>1. IInv /\ Counted
  BY InitIInv, CountsInit
<1>2. \A m : Open(stack, m) = 0
  <2> SUFFICES ASSUME NEW m PROVE Open(stack, m) = 0
    OBVIOUS
  <2>1. stack = <<Frame(1)>>
    BY DEF Init
  <2>2. DOMAIN stack = {1} /\ stack[1].stage = "loop"
    BY <2>1 DEF Frame
  <2>3. CASE \E k \in DOMAIN stack : stack[k].node = m
    <3>1. 1 \in DOMAIN stack /\ stack[1].node = m
      BY <2>2, <2>3
    <3>2. Open(stack, m) = Time(stack[1])
      BY <1>1, <3>1, StackDistinct, OpenOf
    <3> QED
      BY <2>2, <3>2 DEF Time
  <2>4. CASE ~\E k \in DOMAIN stack : stack[k].node = m
    BY <2>4, OpenNone
  <2> QED
    BY <2>3, <2>4
<1>3. Total(<<>>) = 0
  <2>1. <<>> \in Seq(Nat) /\ Len(<<>>) = 0
    OBVIOUS
  <2>2. \A j \in 1 .. Len(<<>>) : <<>>[j] = 0
    BY <2>1
  <2> QED
    BY <2>1, <2>2, TotalZeros
<1>4. \A m \in Nodes : samples[m] = <<>>
  BY DEF Init
<1>5. \A m \in Nodes : Spent(stack, samples, m) = 0
  BY <1>2, <1>3, <1>4 DEF Spent
<1>6. s \in Seq(Nat) /\ Len(s) = Len(prog[n].kids) /\ prog[n].kids \in Seq(Nat)
  BY <1>1, KidsSpentSeq
<1>7. \A j \in DOMAIN prog[n].kids : prog[n].kids[j] \in Nodes
  BY <1>1, ProgramNodes DEF IInv
<1>8. \A j \in DOMAIN prog[n].kids : s[j] = 0
  BY <1>5, <1>7 DEF KidsSpent
<1>9. \A j \in 1 .. Len(s) : s[j] = 0
  BY <1>6, <1>8
<1>10. Total(s) = 0
  BY <1>6, <1>9, TotalZeros
<1> QED
  BY <1>5, <1>10

\* ... and every step keeps the times together.
LEMMA SpentStep == IInv /\ IInv' /\ Counted /\ SpentKnown /\ [Next]_vars => SpentKnown'
<1> SUFFICES ASSUME IInv, IInv', Counted, SpentKnown, [Next]_vars PROVE SpentKnown'
  OBVIOUS
<1>1. CASE SetUpSingle \/ RunOnce \/ NextItem \/ EndOfList \/ EndInstructions
  <2>1. \A n : Open(stack', n) = Open(stack, n)
    BY <1>1, OpenInside
  <2>2. prog' = prog /\ samples' = samples
    BY <1>1 DEF SetUpSingle, RunOnce, NextItem, EndOfList, EndInstructions
  <2>3. \A n \in Nodes : Spent(stack', samples', n) = Spent(stack, samples, n)
    BY <2>1, <2>2 DEF Spent
  <2> QED
    BY <2>2, <2>3, SpentStays DEF IInv
<1>2. CASE NotIterable \/ CollectResults \/ UNCHANGED vars
  <2>1. prog' = prog /\ samples' = samples /\ stack' = stack
    BY <1>2 DEF NotIterable, CollectResults, vars
  <2>2. \A n \in Nodes : Spent(stack', samples', n) = Spent(stack, samples, n)
    BY <2>1
  <2> QED
    BY <2>1, <2>2, SpentStays DEF IInv
<1>3. CASE CallInstruction
  BY <1>3, SpentCall
<1>4. CASE TearDownSingle
  BY <1>4, SpentTearDown
<1>5. CASE Return
  BY <1>5, SpentReturn
<1>6. CASE \E d \in Durations : RunSingle(d)
  BY <1>6, SpentRunSingle
<1> QED
  BY <1>1, <1>2, <1>3, <1>4, <1>5, <1>6 DEF Next

\* A set measures the time its instructions measure, no more and no less, at
\* every moment of a run in which every instruction keeps its measurement.
THEOREM TimesAlwaysAddUp == Spec => []SpentKnown
<1>1. Init => SpentKnown
  BY SpentInit
<1>2. IInv /\ IInv' /\ Counted /\ SpentKnown /\ [Next]_vars => SpentKnown'
  BY SpentStep
<1> QED
  BY <1>1, <1>2, Invariance, CallsAlwaysCounted, PTL DEF Spec

-----------------------------------------------------------------------------
(* The time of each cycle *)

\* The time the instructions of n measured in the first c cycles of n.
KidPrefixes(record, n, c) ==
  [j \in DOMAIN prog[n].kids |->
     Prefix(record[prog[n].kids[j]], (c * Passes(prog[n])) * prog[prog[n].kids[j]].repeat)]

\* The first c cycles of n took the time its instructions measured in them.
CyclesAddUp(record, n, c) ==
  /\ \A j \in DOMAIN prog[n].kids :
       (c * Passes(prog[n])) * prog[prog[n].kids[j]].repeat <= Len(record[prog[n].kids[j]])
  /\ Prefix(record[n], c) = Total(KidPrefixes(record, n, c))

\* This holds for every cycle that has ended.
CyclesKnown ==
  AllMeasured =>
    \A n \in Nodes : prog[n].kind # "leaf" =>
      \A c \in 0 .. Len(samples[n]) : CyclesAddUp(samples, n, c)

\* No cycle has ended before the first call ...
LEMMA CyclesInit == Init => CyclesKnown
<1> SUFFICES ASSUME Init, NEW n \in Nodes, NEW c \in 0 .. Len(samples[n])
             PROVE  CyclesAddUp(samples, n, c)
  BY DEF CyclesKnown
<1> DEFINE kids == prog[n].kids
           s == KidPrefixes(samples, n, c)
<1>1. Typed
  BY InitIInv DEF IInv
<1>2. \A m \in Nodes : samples[m] = <<>>
  BY DEF Init
<1>3. c = 0
  BY <1>2
<1>4. kids \in Seq(Nat) /\ \A j \in DOMAIN kids : kids[j] \in Nodes
  BY <1>1, ProgramNodes DEF NodeRecords
<1>5. Prefix(<<>>, 0) = 0
  <2>1. <<>> \in Seq(Nat)
    OBVIOUS
  <2> QED
    BY <2>1, PrefixSums
<1>6. \A j \in DOMAIN kids : (c * Passes(prog[n])) * prog[kids[j]].repeat = 0
  <2> SUFFICES ASSUME NEW j \in DOMAIN kids PROVE (c * Passes(prog[n])) * prog[kids[j]].repeat = 0
    OBVIOUS
  <2>1. Passes(prog[n]) \in Nat
    BY <1>1, ProgramNodes DEF Passes, NodeRecords
  <2>2. prog[kids[j]].repeat \in Nat
    BY <1>1, <1>4, ProgramNodes DEF NodeRecords
  <2> QED
    BY <1>3, <2>1, <2>2
<1>7. s = [j \in DOMAIN kids |-> 0]
  BY <1>2, <1>4, <1>5, <1>6 DEF KidPrefixes
<1>8. Total(s) = 0
  <2> DEFINE N == Len(kids)
  <2>1. N \in Nat /\ s = [j \in 1 .. N |-> 0]
    BY <1>4, <1>7
  <2> HIDE DEF s, N
  <2>2. s \in Seq(Nat) /\ Len(s) = N /\ \A j \in 1 .. N : s[j] = 0
    BY <2>1
  <2> QED
    BY <2>2, TotalZeros
<1>9. \A j \in DOMAIN kids : (c * Passes(prog[n])) * prog[kids[j]].repeat <= Len(samples[kids[j]])
  BY <1>2, <1>4, <1>6
<1> QED
  BY <1>2, <1>3, <1>5, <1>8, <1>9 DEF CyclesAddUp

\* A record that extends another has the same sums of first samples.
Extends(new, old) ==
  \A m \in Nodes : /\ Len(new[m]) >= Len(old[m])
                   /\ \A i \in 0 .. Len(old[m]) : Prefix(new[m], i) = Prefix(old[m], i)

\* The cycles that are complete stay as they are.
LEMMA CyclesStay ==
  ASSUME Typed, samples \in [Nodes -> Seq(Nat)], NEW new \in [Nodes -> Seq(Nat)], Extends(new, samples),
         NEW n \in Nodes, NEW c \in 0 .. Len(samples[n]), CyclesAddUp(samples, n, c)
  PROVE  CyclesAddUp(new, n, c)
<1> DEFINE kids == prog[n].kids
           Upto(j) == (c * Passes(prog[n])) * prog[kids[j]].repeat
<1>1. kids \in Seq(Nat) /\ \A j \in DOMAIN kids : kids[j] \in Nodes
  BY ProgramNodes DEF NodeRecords
<1>2. ASSUME NEW j \in DOMAIN kids PROVE Upto(j) \in Nat
  <2>1. Passes(prog[n]) \in Nat /\ prog[kids[j]].repeat \in Nat
    BY <1>1, ProgramNodes DEF Passes, NodeRecords
  <2>2. c * Passes(prog[n]) \in Nat
    BY <2>1
  <2> QED
    BY <2>1, <2>2, SMTT(40)
<1> HIDE DEF Upto
<1>3. ASSUME NEW j \in DOMAIN kids
      PROVE  /\ Prefix(new[kids[j]], Upto(j)) = Prefix(samples[kids[j]], Upto(j))
             /\ Upto(j) <= Len(new[kids[j]])
  <2>1. Upto(j) <= Len(samples[kids[j]])
    BY DEF CyclesAddUp, Upto
  <2>2. Len(samples[kids[j]]) \in Nat /\ Len(new[kids[j]]) \in Nat
    BY <1>1
  <2>3. Upto(j) \in 0 .. Len(samples[kids[j]])
    BY <1>2, <2>1, <2>2
  <2>4. Len(new[kids[j]]) >= Len(samples[kids[j]])
    BY <1>1 DEF Extends
  <2>5. Prefix(new[kids[j]], Upto(j)) = Prefix(samples[kids[j]], Upto(j))
    BY <1>1, <2>3 DEF Extends
  <2>6. Upto(j) <= Len(new[kids[j]])
    BY <1>2, <2>1, <2>2, <2>4
  <2> QED
    BY <2>5, <2>6
<1>4. KidPrefixes(new, n, c) = KidPrefixes(samples, n, c)
  BY <1>3 DEF KidPrefixes, Upto
<1>5. Prefix(new[n], c) = Prefix(samples[n], c)
  BY SMTT(40) DEF Extends
<1> QED
  BY <1>3, <1>4, <1>5 DEF CyclesAddUp, Upto

\* A cycle of the innermost call is complete.
LEMMA CycleEnds ==
  ASSUME IInv, Counted, SpentKnown, AllMeasured, stack # <<>>, top.stage = "teardown",
         node.kind # "leaf"
  PROVE  LET n == top.node
             c == Len(samples[n]) + 1
         IN  /\ \A j \in DOMAIN prog[n].kids :
                  /\ (c * Passes(prog[n])) * prog[prog[n].kids[j]].repeat = Len(samples[prog[n].kids[j]])
                  /\ prog[n].kids[j] # n
             /\ Total(samples[n]) + top.elapsed = Total(KidPrefixes(samples, n, c))
<1> DEFINE n == top.node
           l == Len(stack)
           kids == prog[n].kids
           c == Len(samples[n]) + 1
<1>1. /\ Typed /\ l \in Nat \ {0} /\ DOMAIN stack = 1 .. l /\ top = stack[l] /\ top \in Frames
      /\ n \in Nodes /\ node \in NodeRecords /\ FrameOf(node, top) /\ node = prog[n]
  BY StackTop DEF IInv, node
<1>2. kids \in Seq(Nat) /\ \A j \in DOMAIN kids : kids[j] \in Nodes /\ kids[j] > n
  BY <1>1, ProgramNodes DEF NodeRecords
<1>3. samples \in [Nodes -> Seq(Nat)] /\ samples[n] \in Seq(Nat)
  BY <1>1 DEF Counted
<1>4. ASSUME NEW j \in DOMAIN kids PROVE \A k \in DOMAIN stack : stack[k].node # kids[j]
  <2> SUFFICES ASSUME NEW k \in DOMAIN stack, stack[k].node = kids[j] PROVE FALSE
    OBVIOUS
  <2>1. k \in 1 .. l /\ n \in Nat /\ kids[j] \in Nat
    <3>1. n \in Nat
      BY <1>1 DEF Frames
    <3> QED
      BY <1>1, <1>2, <3>1
  <2>2. k < l => stack[k].node < n
    BY <1>1 DEF IInv, Descending
  <2>3. k = l => stack[k].node = n
    BY <1>1
  <2>4. k < l \/ k = l
    <3>1. l \in Nat
      BY <1>1
    <3> HIDE DEF l
    <3> QED
      BY <2>1, <3>1
  <2>5. kids[j] > n
    BY <1>2
  <2> HIDE DEF n, l, kids
  <2> QED
    BY <2>1, <2>2, <2>3, <2>4, <2>5
<1>5. /\ Calling(node, top.i, top.stage, top.item, top.next, rounds[n],
                 KidRounds(rounds, n), Len(samples[n]))
      /\ DOMAIN KidRounds(rounds, n) = 1 .. Len(kids) /\ rounds[n] >= 1
  BY TopCounted DEF node
<1> DEFINE done == (rounds[n] - 1) * node.repeat + top.i
           P == Passes(node)
<1>6. /\ rounds[n] - 1 \in Nat /\ node.repeat \in Nat /\ top.i \in Nat /\ node.list \in Nat
      /\ P \in Nat
  BY <1>1, <1>5, SMTT(40) DEF Typed, NodeRecords, Frames, Passes
<1>7. done \in Nat
  <2> DEFINE a == rounds[n] - 1
             b == node.repeat
  <2>1. a \in Nat /\ b \in Nat
    BY <1>6
  <2> HIDE DEF a, b
  <2>2. a * b \in Nat
    BY <2>1
  <2>3. a * b + top.i \in Nat
    BY <1>6, <2>2
  <2> QED
    BY <2>3 DEF a, b
<1>8. Len(samples[n]) = done
  BY <1>1, <1>5 DEF Calling, Recorded, AllMeasured
<1>9. ASSUME NEW j \in DOMAIN kids PROVE rounds[kids[j]] = done * P + P
  <2>1. KidRounds(rounds, n)[j] = rounds[kids[j]] /\ j \in DOMAIN KidRounds(rounds, n)
    BY DEF KidRounds
  <2> DEFINE begun == IF node.kind = "iterate" THEN top.item ELSE 1
  <2>2. KidRounds(rounds, n)[j] = done * P + begun - 0
    BY <1>5, <2>1 DEF Calling
  <2>3. begun = P
    BY <1>1 DEF FrameOf, Passes
  <2> HIDE DEF begun, done, P
  <2>4. done * P \in Nat
    BY <1>6, <1>7
  <2> QED
    BY <1>6, <2>1, <2>2, <2>3, <2>4
<1> HIDE DEF done, P
<1>10. c \in Nat /\ c * P = done * P + P
  <2>1. c = done + 1
    BY <1>8
  <2> HIDE DEF c
  <2> QED
    BY <1>6, <1>7, <2>1
<1>11. ASSUME NEW j \in DOMAIN kids
       PROVE  /\ (c * P) * prog[kids[j]].repeat = Len(samples[kids[j]])
              /\ kids[j] # n
  <2>1. Len(samples[kids[j]]) = rounds[kids[j]] * prog[kids[j]].repeat
    BY <1>2, <1>4 DEF Counted, QuietKnown, Quiet, Recorded, AllMeasured
  <2>2. kids[j] # n
    <3>1. n \in Nat
      BY <1>1 DEF Frames
    <3> HIDE DEF n, kids
    <3> QED
      BY <1>2, <3>1
  <2> QED
    BY <1>9, <1>10, <2>1, <2>2
<1>12. \A j \in DOMAIN kids : Prefix(samples[kids[j]], (c * P) * prog[kids[j]].repeat) = Spent(stack, samples, kids[j])
  <2> SUFFICES ASSUME NEW j \in DOMAIN kids
               PROVE  Prefix(samples[kids[j]], Len(samples[kids[j]])) = Spent(stack, samples, kids[j])
    BY <1>11
  <2>1. samples[kids[j]] \in Seq(Nat)
    BY <1>2, <1>3
  <2>2. Prefix(samples[kids[j]], Len(samples[kids[j]])) = Total(samples[kids[j]])
    BY <2>1, PrefixSums
  <2>3. Open(stack, kids[j]) = 0
    BY <1>4, OpenNone
  <2>4. Total(samples[kids[j]]) \in Nat
    BY <2>1, TotalNat, SMTT(40)
  <2> HIDE DEF kids
  <2> QED
    BY <2>2, <2>3, <2>4 DEF Spent
<1>13. KidPrefixes(samples, n, c) = KidsSpent(stack, samples, n)
  BY <1>1, <1>12 DEF KidPrefixes, KidsSpent, P
<1>14. Spent(stack, samples, n) = Total(KidsSpent(stack, samples, n))
  BY <1>1 DEF SpentKnown, AddUp
<1>15. Spent(stack, samples, n) = Total(samples[n]) + top.elapsed
  <2>1. l \in DOMAIN stack
    BY <1>1
  <2>2. Open(stack, stack[l].node) = Time(stack[l])
    BY <2>1, StackDistinct, OpenOf
  <2>3. Open(stack, n) = top.elapsed
    BY <1>1, <2>2 DEF Time
  <2> QED
    BY <2>3 DEF Spent
<1> QED
  BY <1>1, <1>11, <1>13, <1>14, <1>15 DEF P

\* ... TearDownSingle ends one ...
LEMMA CyclesTearDown ==
  ASSUME IInv, Counted, Counted', SpentKnown, CyclesKnown, TearDownSingle, AllMeasured
  PROVE  \A n \in Nodes : prog[n].kind # "leaf" =>
           \A c \in 0 .. Len(samples'[n]) : CyclesAddUp(samples', n, c)
<1> DEFINE t == top.node
           x == top.elapsed
<1>1. /\ t \in Nodes /\ stack # <<>> /\ top.stage = "teardown" /\ x \in Nat /\ samples[t] \in Seq(Nat)
      /\ prog' = prog
  BY TearDownShape DEF TearDownSingle, At
<1>2. /\ samples'[t] = Append(samples[t], x)
      /\ \A m \in Nodes : m # t => samples'[m] = samples[m]
  BY TearDownShape
<1>3. samples \in [Nodes -> Seq(Nat)] /\ samples' \in [Nodes -> Seq(Nat)] /\ Typed
  BY <1>1 DEF Counted, IInv, Nodes
<1> HIDE DEF t, x
<1>4. Extends(samples', samples)
  <2> SUFFICES ASSUME NEW m \in Nodes
               PROVE  /\ Len(samples'[m]) >= Len(samples[m])
                      /\ \A i \in 0 .. Len(samples[m]) : Prefix(samples'[m], i) = Prefix(samples[m], i)
    BY DEF Extends
  <2>1. CASE m = t
    <3>1. Len(samples'[t]) = Len(samples[t]) + 1
      BY <1>1, <1>2
    <3>2. \A i \in 0 .. Len(samples[t]) : Prefix(samples'[t], i) = Prefix(samples[t], i)
      BY <1>1, <1>2, TotalAppend
    <3>3. Len(samples[t]) \in Nat
      BY <1>1
    <3> QED
      BY <2>1, <3>1, <3>2, <3>3
  <2>2. CASE m # t
    <3>1. Len(samples[m]) \in Nat
      BY <1>3
    <3> QED
      BY <1>2, <2>2, <3>1
  <2> QED
    BY <2>1, <2>2
<1> SUFFICES ASSUME NEW n \in Nodes, prog[n].kind # "leaf", NEW c \in 0 .. Len(samples'[n])
             PROVE  CyclesAddUp(samples', n, c)
  OBVIOUS
<1>5. CASE c \in 0 .. Len(samples[n])
  <2>1. CyclesAddUp(samples, n, c)
    BY <1>5 DEF CyclesKnown
  <2> QED
    BY <1>3, <1>4, <1>5, <2>1, CyclesStay
<1>6. CASE c \notin 0 .. Len(samples[n])
  <2>1. n = t
    BY <1>2, <1>6
  <2>2. c = Len(samples[t]) + 1 /\ Len(samples'[t]) = c
    <3>1. Len(samples'[t]) = Len(samples[t]) + 1 /\ Len(samples[t]) \in Nat
      BY <1>1, <1>2
    <3> QED
      BY <1>6, <2>1, <3>1
  <2>3. node.kind # "leaf"
    BY <2>1 DEF node, t
  <2>4. /\ \A j \in DOMAIN prog[t].kids :
             /\ (c * Passes(prog[t])) * prog[prog[t].kids[j]].repeat = Len(samples[prog[t].kids[j]])
             /\ prog[t].kids[j] # t
        /\ Total(samples[t]) + x = Total(KidPrefixes(samples, t, c))
    BY <1>1, <2>2, <2>3, CycleEnds DEF t, x
  <2>5. \A j \in DOMAIN prog[t].kids : prog[t].kids[j] \in Nodes
    BY <1>1, <1>3, ProgramNodes
  <2>6. \A j \in DOMAIN prog[t].kids : samples'[prog[t].kids[j]] = samples[prog[t].kids[j]]
    BY <1>2, <2>4, <2>5
  <2>7. KidPrefixes(samples', t, c) = KidPrefixes(samples, t, c)
    BY <2>6 DEF KidPrefixes
  <2>8. Prefix(samples'[t], c) = Total(samples[t]) + x
    <3>1. samples'[t] \in Seq(Nat)
      BY <1>1, <1>3
    <3>2. Prefix(samples'[t], c) = Total(samples'[t])
      BY <2>2, <3>1, PrefixSums
    <3> QED
      BY <1>1, <1>2, <3>2, TotalAppend
  <2>9. \A j \in DOMAIN prog[t].kids :
          (c * Passes(prog[t])) * prog[prog[t].kids[j]].repeat <= Len(samples'[prog[t].kids[j]])
    <3> SUFFICES ASSUME NEW j \in DOMAIN prog[t].kids
                 PROVE  Len(samples[prog[t].kids[j]]) <= Len(samples'[prog[t].kids[j]])
      BY <2>4
    <3>1. Len(samples[prog[t].kids[j]]) \in Nat
      BY <1>3, <2>5
    <3> QED
      BY <2>6, <3>1
  <2> QED
    BY <2>1, <2>4, <2>7, <2>8, <2>9 DEF CyclesAddUp
<1> QED
  BY <1>5, <1>6

\* ... and the other steps end none.
LEMMA CyclesStep ==
  IInv /\ Counted /\ Counted' /\ SpentKnown /\ CyclesKnown /\ [Next]_vars => CyclesKnown'
<1> SUFFICES ASSUME IInv, Counted, Counted', SpentKnown, CyclesKnown, [Next]_vars PROVE CyclesKnown'
  OBVIOUS
<1>1. prog' = prog
  BY EndOfRun
<1>2. AllMeasured' <=> AllMeasured
  BY <1>1 DEF AllMeasured, Nodes
<1>3. SUFFICES ASSUME AllMeasured
               PROVE  \A n \in Nodes : prog[n].kind # "leaf" =>
                        \A c \in 0 .. Len(samples'[n]) : CyclesAddUp(samples', n, c)
  <2>1. ASSUME NEW n, NEW c PROVE CyclesAddUp(samples, n, c)' <=> CyclesAddUp(samples', n, c)
    BY <1>1 DEF CyclesAddUp, KidPrefixes
  <2> QED
    BY <1>1, <1>2, <2>1 DEF CyclesKnown, Nodes
<1>4. CASE TearDownSingle
  BY <1>4, <1>3, CyclesTearDown
<1>5. CASE ~TearDownSingle
  <2>1. samples' = samples
    BY <1>5 DEF Next, vars, SetUpSingle, RunOnce, NextItem, EndOfList, NotIterable,
                CallInstruction, EndInstructions, Return, CollectResults, RunSingle
  <2> QED
    BY <1>3, <2>1, SMTT(40) DEF CyclesKnown
<1> QED
  BY <1>4, <1>5

\* The samples of a set line up with those of its instructions: its first c
\* cycles took the time they measured in the repetitions of those cycles.
THEOREM CyclesAlwaysAddUp == Spec => []CyclesKnown
<1>1. Init => CyclesKnown
  BY CyclesInit
<1>2. IInv /\ Counted /\ Counted' /\ SpentKnown /\ CyclesKnown /\ [Next]_vars => CyclesKnown'
  BY CyclesStep
<1> QED
  BY <1>1, <1>2, Invariance, CallsAlwaysCounted, TimesAlwaysAddUp, PTL DEF Spec

-----------------------------------------------------------------------------
(* What is reported *)

\* All the calls have returned and every instruction has a result.
Reported ==
  /\ IInv /\ Done /\ SpentKnown /\ CyclesKnown /\ AllMeasured /\ stack = <<>>
  /\ \A n \in Nodes : Results[n].outcome = "reported"

\* A mem_alloc has no samples to report.
LEMMA ReportedWhenCollected ==
  ASSUME IInv, Counted, SpentKnown, CyclesKnown, stack = <<>>, Results[1].outcome = "reported"
  PROVE  Reported
<1>1. Done
  BY DoneWhenEmpty
<1>2. \A n \in Nodes : Results[n].outcome = "reported"
  BY <1>1, OutcomeOf
<1>3. ASSUME NEW n \in Nodes, prog[n].kind = "mem_alloc" PROVE FALSE
  <2>1. Len(samples[n]) = 0 /\ samples[n] \in Seq(Nat)
    BY <1>1, <1>3 DEF Done, Quiet, Recorded
  <2>2. samples[n] = <<>>
    BY <2>1
  <2>3. Results[n] = Collected(n, Results) /\ Collected(n, Results) = Measured(samples[n])
    BY <1>1, <1>3, ResultsOf, CollectedLeaf
  <2>4. Results[n].outcome = "exited"
    BY <2>1, <2>2, <2>3, MeasuredShape
  <2> QED
    BY <1>2, <2>4
<1> QED
  BY <1>1, <1>2, <1>3 DEF Reported, AllMeasured

\* Zeros after a sequence add nothing.
LEMMA TotalPadded ==
  ASSUME NEW g \in Seq(Nat), NEW u \in Seq(Nat), Len(g) <= Len(u),
         \A i \in 1 .. Len(u) : u[i] = IF i \in DOMAIN g THEN g[i] ELSE 0
  PROVE  Total(u) = Total(g)
<1> DEFINE N == Len(u) - Len(g)
           T == {m \in 0 .. N : Prefix(u, Len(g) + m) = Total(g)}
<1>1. N \in Nat /\ Len(g) \in Nat /\ Len(u) \in Nat /\ Len(g) + N = Len(u) /\ N \in 0 .. N
  OBVIOUS
<1>2. 0 \in T
  <2>1. [i \in 1 .. Len(g) |-> u[i]] = [i \in 1 .. Len(g) |-> g[i]]
    <3>1. ASSUME NEW i \in 1 .. Len(g) PROVE u[i] = g[i]
      <4>1. i \in DOMAIN g /\ i \in 1 .. Len(u)
        BY <1>1
      <4> QED
        BY <4>1
    <3> QED
      BY <3>1
  <2>2. Prefix(u, Len(g)) = Prefix(g, Len(g))
    BY <2>1 DEF Prefix
  <2>3. Prefix(g, Len(g)) = Total(g)
    BY PrefixSums
  <2>4. Len(g) + 0 = Len(g) /\ 0 \in 0 .. N
    BY <1>1
  <2> QED
    BY <2>2, <2>3, <2>4
<1>3. ASSUME NEW m \in 0 .. N - 1, m \in T PROVE m + 1 \in T
  <2> DEFINE k == Len(g) + m
  <2>1. k \in 0 .. Len(u) - 1 /\ k + 1 \in 1 .. Len(u) /\ k + 1 \notin 1 .. Len(g)
        /\ m + 1 \in 0 .. N /\ Len(g) + (m + 1) = k + 1
    BY <1>1
  <2>2. Prefix(u, k) = Total(g)
    BY <1>3
  <2> HIDE DEF k
  <2>3. Prefix(u, k + 1) = Prefix(u, k) + u[k + 1]
    BY <2>1, PrefixSums
  <2>4. u[k + 1] = 0
    BY <2>1
  <2>5. Total(g) \in Nat
    BY TotalNat
  <2>6. Prefix(u, k + 1) = Total(g)
    BY <2>2, <2>3, <2>4, <2>5
  <2> QED
    BY <2>1, <2>6
<1>4. \A m \in 0 .. N : m \in T
  <2> HIDE DEF T, N
  <2> QED
    BY <1>1, <1>2, <1>3, BoundedInduction
<1>5. Prefix(u, Len(u)) = Total(g)
  BY <1>1, <1>4
<1> QED
  BY <1>5, PrefixSums

\* What is added to the durations is added to their sum.
LEMMA TotalAccumulate ==
  ASSUME NEW d \in Seq(Nat), NEW g \in Seq(Nat), d = <<>> \/ Len(g) <= Len(d)
  PROVE  Total(Accumulate(d, g)) = Total(d) + Total(g)
<1>0. Total(g) \in Nat
  BY TotalNat
<1>1. CASE d = <<>>
  <2>1. Accumulate(d, g) = g
    BY <1>1 DEF Accumulate
  <2>2. Total(d) = 0
    <3>1. \A j \in 1 .. Len(d) : d[j] = 0
      BY <1>1
    <3> QED
      BY <3>1, TotalZeros
  <2> QED
    BY <1>0, <2>1, <2>2
<1>2. CASE d # <<>>
  <2> DEFINE N == Len(d)
             u == [i \in 1 .. N |-> IF i \in DOMAIN g THEN g[i] ELSE 0]
             t == Accumulate(d, g)
  <2>1. N \in Nat
    OBVIOUS
  <2>2. t \in Seq(Nat) /\ Len(t) = N
    BY <1>2, AccumulateShape
  <2>3. u \in Seq(Nat) /\ Len(u) = N
    <3>1. \A i \in 1 .. N : (IF i \in DOMAIN g THEN g[i] ELSE 0) \in Nat
      OBVIOUS
    <3>2. u \in [1 .. N -> Nat]
      BY <3>1
    <3> HIDE DEF u, N
    <3> QED
      BY <2>1, <3>2
  <2>4. \A i \in 1 .. N : t[i] = d[i] + u[i] /\ u[i] = IF i \in DOMAIN g THEN g[i] ELSE 0
    BY <1>2 DEF Accumulate
  <2> HIDE DEF u, t
  <2>5. Total(t) = Total(d) + Total(u)
    BY <2>2, <2>3, <2>4, TotalSum, ZenonT(60)
  <2>6. Total(u) = Total(g)
    BY <1>2, <2>3, <2>4, TotalPadded
  <2> QED
    BY <2>5, <2>6 DEF t
<1> QED
  BY <1>1, <1>2

\* What a reported sum was made from.
LEMMA AddedWhenReported ==
  ASSUME NEW acc \in Outcomes, NEW result \in Outcomes, NEW c \in Nat, NEW r \in Nat, NEW w \in Nat,
         result.outcome = "reported", Len(result.duration) = (c * r) * w, Len(result.duration) > 0,
         Added(acc, result, r).outcome = "reported"
  PROVE  LET g == Grouped(result.duration, r)
         IN  /\ acc.outcome = "reported" /\ r > 0 /\ c * w > 0
             /\ acc.duration \in Seq(Nat) /\ result.duration \in Seq(Nat)
             /\ g \in Seq(Nat) /\ Len(g) = c * w
             /\ acc.duration = <<>> \/ Len(g) <= Len(acc.duration)
             /\ Added(acc, result, r).duration = Accumulate(acc.duration, g)
<1> DEFINE g == Grouped(result.duration, r)
<1>1. acc.outcome = "reported"
  BY DEF Added
<1>2. AddedIs(acc, result, c, r, w)
  BY <1>1, AddedReported
<1>3. /\ g \in Seq(Nat) /\ Len(g) = c * w /\ c * w > 0 /\ r > 0
      /\ Added(acc, result, r) =
           IF acc.duration # <<>> /\ c * w > Len(acc.duration)
             THEN [outcome |-> "undefined", duration |-> <<>>]
             ELSE [outcome |-> "reported", duration |-> Accumulate(acc.duration, g)]
  BY <1>2 DEF AddedIs
<1> HIDE DEF g
<1>4. acc.duration \in Seq(Nat) /\ result.duration \in Seq(Nat)
  BY DEF Outcomes
<1>5. ~(acc.duration # <<>> /\ c * w > Len(acc.duration))
  BY <1>3
<1>6. Added(acc, result, r) = [outcome |-> "reported", duration |-> Accumulate(acc.duration, g)]
  BY <1>3, <1>5
<1>7. Added(acc, result, r).duration = Accumulate(acc.duration, g)
  BY <1>6
<1>8. acc.duration = <<>> \/ Len(g) <= Len(acc.duration)
  <2>1. Len(acc.duration) \in Nat /\ Len(g) \in Nat
    BY <1>3, <1>4
  <2> QED
    BY <1>3, <1>5, <2>1
<1> QED
  BY <1>1, <1>3, <1>4, <1>7, <1>8 DEF g

\* The steps by which the durations of a set were added up.
AddedUp(h, n) ==
  /\ AddChain(h, Results, n) /\ h[Len(prog[n].kids)].outcome = "reported"
  /\ Results[n].duration = h[Len(prog[n].kids)].duration
  /\ prog[n].kids \in Seq(Nat) /\ Len(prog[n].kids) > 0

\* A set with a result has one from the sum of its instructions.
LEMMA ReportedSet ==
  ASSUME Reported, NEW n \in Nodes, prog[n].kind # "leaf"
  PROVE  \E h : AddedUp(h, n)
<1> DEFINE N == Len(prog[n].kids)
<1>1. Done /\ Typed /\ prog[n].kind \notin {"leaf", "mem_alloc"}
  BY DEF Reported, Done, AllMeasured
<1>2. Results[n] = Collected(n, Results) /\ AllSound(Results, n) /\ Results[n].outcome = "reported"
  BY <1>1, ResultsOf DEF Reported
<1>3. Addable(Results, n)
  BY <1>1, <1>2, SoundAddable DEF AllSound
<1>4. PICK h : AddChain(h, Results, n) /\ Collected(n, Results) = Closed(h[N])
  BY <1>1, <1>3, CollectedInOrder
<1>5. prog[n].kids \in Seq(Nat) /\ N \in Nat /\ N \in 0 .. N
  BY <1>1, ProgramNodes DEF NodeRecords
<1>6. h[N] \in Outcomes
  BY <1>4, <1>5 DEF AddChain
<1>7. h[N].outcome = "reported"
  BY <1>2, <1>4, <1>6 DEF Closed
<1>8. Results[n] = Measured(h[N].duration) /\ h[N].duration \in Seq(Nat)
  BY <1>2, <1>4, <1>6, <1>7 DEF Closed, Outcomes
<1>9. Results[n].duration = h[N].duration /\ h[N].duration # <<>>
  BY <1>2, <1>8, MeasuredShape
<1>10. N # 0
  <2>1. h[0].duration = <<>>
    BY <1>4 DEF AddChain
  <2> QED
    BY <1>9, <2>1
<1> QED
  BY <1>4, <1>5, <1>7, <1>9, <1>10 DEF AddedUp

\* One of these steps: the durations of one more instruction.
LEMMA AddedUpStep ==
  ASSUME Reported, NEW n \in Nodes, NEW h, AddedUp(h, n), NEW j \in 0 .. Len(prog[n].kids) - 1,
         h[j + 1].outcome = "reported"
  PROVE  LET kid == prog[n].kids[j + 1]
             v == Results[kid]
             r == prog[kid].repeat
             g == Grouped(v.duration, r)
         IN  /\ h[j].outcome = "reported" /\ h[j].duration \in Seq(Nat) /\ v.duration \in Seq(Nat)
             /\ kid \in Nodes /\ kid > n /\ r \in Nat \ {0}
             /\ g \in Seq(Nat) /\ Len(g) = rounds[kid] * Weight[kid]
             /\ rounds[kid] * Weight[kid] \in Nat /\ rounds[kid] * Weight[kid] > 0
             /\ Len(v.duration) = (rounds[kid] * Weight[kid]) * r
             /\ h[j].duration = <<>> \/ Len(g) <= Len(h[j].duration)
             /\ h[j + 1].duration = Accumulate(h[j].duration, g)
<1> DEFINE kids == prog[n].kids
           kid == kids[j + 1]
           v == Results[kid]
           r == prog[kid].repeat
           c == rounds[kid]
           w == Weight[kid]
           g == Grouped(v.duration, r)
<1>1. Done /\ kids \in Seq(Nat) /\ AddChain(h, Results, n)
  BY DEF Reported, AddedUp
<1>2. j + 1 \in DOMAIN kids /\ j \in 0 .. Len(kids) /\ j \in Nat
  BY <1>1
<1>3. kid \in Nodes /\ kid > n /\ c \in Nat /\ r \in Nat /\ w \in Nat
  BY <1>1, <1>2, KidCalls
<1>4. Sound(v, kid) /\ v.outcome = "reported"
  BY <1>1, <1>2, <1>3, ResultsOf DEF AllSound, Reported
<1>5. v \in Outcomes /\ Len(v.duration) > 0 /\ Len(v.duration) = (c * r) * w
  BY <1>4 DEF Sound
<1>6. h[j] \in Outcomes /\ h[j + 1] = Added(h[j], v, r)
  BY <1>1, <1>2 DEF AddChain
<1> HIDE DEF kids, kid, v, r, c, w
<1>7. Added(h[j], v, r).outcome = "reported"
  BY <1>6
<1>8. /\ h[j].outcome = "reported" /\ r > 0 /\ c * w > 0
      /\ h[j].duration \in Seq(Nat) /\ v.duration \in Seq(Nat)
      /\ g \in Seq(Nat) /\ Len(g) = c * w
      /\ h[j].duration = <<>> \/ Len(g) <= Len(h[j].duration)
      /\ Added(h[j], v, r).duration = Accumulate(h[j].duration, g)
  BY <1>3, <1>4, <1>5, <1>6, <1>7, AddedWhenReported, ZenonT(60)
<1>9. c * w \in Nat /\ (c * r) * w = (c * w) * r
  BY <1>3
<1> HIDE DEF g
<1>10. r \in Nat \ {0} /\ Len(v.duration) = (c * w) * r
  BY <1>3, <1>5, <1>8, <1>9
<1>11. h[j + 1].duration = Accumulate(h[j].duration, g)
  BY <1>6, <1>8
<1> QED
  BY <1>3, <1>8, <1>9, <1>10, <1>11 DEF g, kids, kid, v, r, c, w

\* The durations of an instruction add up to its samples.
LEMMA ReportedTotals ==
  ASSUME Reported
  PROVE  \A n \in Nodes : Total(Results[n].duration) = Total(samples[n])
<1> DEFINE R == Results
           M == Len(prog)
           S == {n \in Nodes : Total(R[n].duration) = Total(samples[n])}
<1>1. IInv /\ Done /\ Typed /\ stack = <<>> /\ AllMeasured /\ AddUp(stack, samples)
  BY DEF Reported, Done, SpentKnown
<1>2. M \in Nat /\ Nodes = 1 .. M
  BY <1>1, ProgramNodes
<1>3. \A n \in Nodes : samples[n] \in Seq(Nat)
  BY <1>1 DEF Done
<1>4. ASSUME NEW n \in 1 .. M, \A m \in 1 .. M : m > n => m \in S PROVE n \in S
  <2>0. n \in Nodes
    BY <1>2
  <2>1. CASE prog[n].kind = "leaf"
    <3>1. R[n] = Measured(samples[n])
      BY <1>1, <2>0, <2>1, ResultsOf, CollectedLeaf
    <3>2. R[n].duration = samples[n]
      BY <1>3, <2>0, <3>1, MeasuredShape
    <3> QED
      BY <2>0, <3>2
  <2>2. CASE prog[n].kind # "leaf"
    <3> DEFINE kids == prog[n].kids
               N == Len(kids)
               s == [j \in DOMAIN kids |-> Total(samples[kids[j]])]
    <3>1. PICK h : AddedUp(h, n)
      BY <2>0, <2>2, ReportedSet
    <3>2. kids \in Seq(Nat) /\ N \in Nat /\ DOMAIN kids = 1 .. N /\ N \in 0 .. N
      BY <3>1 DEF AddedUp
    <3>3. \A j \in DOMAIN kids : kids[j] \in Nodes /\ kids[j] > n
      BY <1>1, <2>0, ProgramNodes
    <3>4. s = KidsSpent(stack, samples, n) /\ Spent(stack, samples, n) = Total(samples[n])
      <4>1. ASSUME NEW m \in Nodes PROVE Spent(stack, samples, m) = Total(samples[m])
        <5>1. Open(stack, m) = 0
          BY <1>1, OpenNone
        <5>2. Total(samples[m]) \in Nat
          BY <1>3, TotalNat
        <5> QED
          BY <5>1, <5>2 DEF Spent
      <4>2. \A j \in DOMAIN kids : Spent(stack, samples, kids[j]) = Total(samples[kids[j]])
        BY <3>3, <4>1
      <4> QED
        BY <2>0, <4>1, <4>2 DEF KidsSpent
    <3>5. Total(samples[n]) = Total(s)
      BY <1>1, <2>0, <2>2, <3>4 DEF AddUp
    <3>6. s \in Seq(Nat) /\ Len(s) = N
      <4>1. \A j \in 1 .. N : Total(samples[kids[j]]) \in Nat
        BY <1>3, <3>2, <3>3, TotalNat
      <4>2. s \in [1 .. N -> Nat]
        BY <3>2, <4>1
      <4> HIDE DEF s, N
      <4> QED
        BY <3>2, <4>2
    <3>7. \A j \in 1 .. N : s[j] = Total(samples[kids[j]])
      BY <3>2
    <3> HIDE DEF s, kids, N
    <3> DEFINE T == {j \in 0 .. N : h[j].outcome = "reported" => Total(h[j].duration) = Prefix(s, j)}
    <3>8. 0 \in T
      <4>1. h[0].duration = <<>>
        BY <3>1 DEF AddedUp, AddChain
      <4>2. Total(<<>>) = 0
        <5>1. <<>> \in Seq(Nat) /\ Len(<<>>) = 0 /\ \A j \in 1 .. Len(<<>>) : <<>>[j] = 0
          OBVIOUS
        <5> QED
          BY <5>1, TotalZeros
      <4>3. Prefix(s, 0) = 0
        BY <3>6, PrefixSums
      <4>4. 0 \in 0 .. N
        BY <3>2
      <4> QED
        BY <4>1, <4>2, <4>3, <4>4
    <3>9. ASSUME NEW j \in 0 .. N - 1, j \in T PROVE j + 1 \in T
      <4>0. j + 1 \in 0 .. N /\ j + 1 \in 1 .. N /\ j \in 0 .. Len(s) - 1
        BY <3>2, <3>6
      <4>1. SUFFICES ASSUME h[j + 1].outcome = "reported" PROVE Total(h[j + 1].duration) = Prefix(s, j + 1)
        BY <4>0
      <4> DEFINE kid == kids[j + 1]
                 v == R[kid]
                 r == prog[kid].repeat
                 g == Grouped(v.duration, r)
                 q == rounds[kid] * Weight[kid]
      <4>2. /\ h[j].outcome = "reported" /\ h[j].duration \in Seq(Nat) /\ v.duration \in Seq(Nat)
            /\ kid \in Nodes /\ kid > n /\ r \in Nat \ {0}
            /\ g \in Seq(Nat) /\ q \in Nat /\ Len(v.duration) = q * r
            /\ h[j].duration = <<>> \/ Len(g) <= Len(h[j].duration)
            /\ h[j + 1].duration = Accumulate(h[j].duration, g)
        BY <2>0, <3>1, <4>1, AddedUpStep DEF N, kids
      <4> HIDE DEF q, r, v
      <4>3. Total(g) = Total(v.duration)
        BY <4>2, TotalGrouped
      <4> HIDE DEF g
      <4>4. Total(v.duration) = Total(samples[kid])
        BY <1>2, <1>4, <4>2 DEF v
      <4>5. Total(h[j + 1].duration) = Total(h[j].duration) + Total(g)
        BY <4>2, TotalAccumulate
      <4>6. Total(h[j].duration) = Prefix(s, j)
        BY <3>9, <4>2
      <4>7. Prefix(s, j + 1) = Prefix(s, j) + s[j + 1]
        BY <3>6, <4>0, PrefixSums
      <4>8. s[j + 1] = Total(samples[kid])
        BY <3>7, <4>0
      <4> QED
        BY <4>3, <4>4, <4>5, <4>6, <4>7, <4>8
    <3>10. \A j \in 0 .. N : j \in T
      <4> HIDE DEF T
      <4> QED
        BY <3>2, <3>8, <3>9, BoundedInduction
    <3>11. Total(h[N].duration) = Prefix(s, N)
      BY <3>1, <3>2, <3>10 DEF AddedUp, N, kids
    <3>12. Prefix(s, N) = Total(s)
      BY <3>6, PrefixSums
    <3>13. R[n].duration = h[N].duration
      BY <3>1 DEF AddedUp, N, kids
    <3> QED
      BY <2>0, <3>5, <3>11, <3>12, <3>13
  <2> QED
    BY <2>1, <2>2
<1>5. \A n \in 1 .. M : n \in S
  <2> HIDE DEF S, M
  <2> QED
    BY <1>2, <1>4, DownInduction
<1> QED
  BY <1>2, <1>5

\* Where a list is iterated.
LEMMA IteratesOf ==
  ASSUME Typed
  PROVE  \A n \in Nodes :
           Iterates[n] = (\/ prog[n].kind = "iterate"
                          \/ \E k \in DOMAIN prog[n].kids : Iterates[prog[n].kids[k]])
<1> DEFINE N == Len(prog)
           Def(n, g) == \/ prog[n].kind = "iterate"
                        \/ \E k \in DOMAIN prog[n].kids : g[prog[n].kids[k]]
           Rec(g) == g = [n \in Nodes |-> Def(n, g)]
           f == CHOOSE g : Rec(g)
           F == [1 .. N -> BOOLEAN]
           A == [p \in (1 .. N) \X F |-> Def(p[1], p[2])]
<1>1. N \in Nat /\ Nodes = 1 .. N
  BY ProgramNodes
<1>2. \A n \in Nodes : \A j \in DOMAIN prog[n].kids : prog[n].kids[j] \in Nodes /\ prog[n].kids[j] > n
  BY ProgramNodes
<1>3. Iterates = f
  BY DEF Iterates
<1>4. \A n \in 1 .. N : \A g : Def(n, g) \in BOOLEAN
  OBVIOUS
<1>5. \A n \in 1 .. N : \A g \in F : \A h \in F :
        (\A m \in 1 .. N : m > n => g[m] = h[m]) => Def(n, g) = Def(n, h)
  <2> SUFFICES ASSUME NEW n \in 1 .. N, NEW g \in F, NEW h \in F,
                      \A m \in 1 .. N : m > n => g[m] = h[m]
               PROVE  Def(n, g) = Def(n, h)
    OBVIOUS
  <2>1. \A j \in DOMAIN prog[n].kids : g[prog[n].kids[j]] = h[prog[n].kids[j]]
    BY <1>1, <1>2
  <2>2. Def(n, g) <=> Def(n, h)
    BY <2>1, Zenon
  <2> QED
    BY <2>2
<1> HIDE DEF N, Def
<1>6. A \in [(1 .. N) \X F -> BOOLEAN]
  <2>1. ASSUME NEW p \in (1 .. N) \X F PROVE Def(p[1], p[2]) \in BOOLEAN
    <3>1. p[1] \in 1 .. N
      OBVIOUS
    <3> QED
      BY <1>4, <3>1
  <2> QED
    BY <2>1
<1>7. \A n \in 1 .. N : \A g \in F : A[<<n, g>>] = Def(n, g)
  OBVIOUS
<1> HIDE DEF A
<1>8. Looks(N, BOOLEAN, A)
  <2> SUFFICES ASSUME NEW n \in 1 .. N, NEW g \in F, NEW h \in F,
                      \A m \in 1 .. N : m > n => g[m] = h[m]
               PROVE  A[<<n, g>>] = A[<<n, h>>]
    BY DEF Looks
  <2>1. Def(n, g) = Def(n, h)
    BY <1>5
  <2> QED
    BY <1>7, <2>1
<1>9. PICK g : DownOf(g, N, BOOLEAN, A)
  <2>1. TRUE \in BOOLEAN
    OBVIOUS
  <2> QED
    BY <1>1, <1>6, <1>8, <2>1, DownExists
<1>10. g \in [Nodes -> BOOLEAN] /\ \A n \in Nodes : g[n] = Def(n, g)
  BY <1>1, <1>7, <1>9 DEF DownOf
<1>11. Rec(g)
  <2>1. g = [n \in Nodes |-> g[n]]
    BY <1>10
  <2> QED
    BY <1>10, <2>1
<1>12. Rec(f)
  <2> HIDE DEF Rec
  <2> QED
    BY <1>11, Zenon
<1> HIDE DEF f
<1>13. \A n \in Nodes : f[n] = Def(n, f)
  BY <1>12
<1> QED
  BY <1>3, <1>13, Zenon DEF Def

\* Without iteration each duration of a set is the time of one of its cycles.
LEMMA ReportedCycles ==
  ASSUME Reported
  PROVE  \A n \in Nodes : ~Iterates[n] => Results[n].duration = samples[n]
<1> DEFINE R == Results
           M == Len(prog)
           S == {n \in Nodes : ~Iterates[n] => R[n].duration = samples[n]}
<1>1. Done /\ Typed /\ AllMeasured /\ CyclesKnown
  BY DEF Reported, Done
<1>2. M \in Nat /\ Nodes = 1 .. M
  BY <1>1, ProgramNodes
<1>3. \A n \in Nodes : samples[n] \in Seq(Nat)
  BY <1>1 DEF Done
<1>4. ASSUME NEW n \in 1 .. M, \A m \in 1 .. M : m > n => m \in S PROVE n \in S
  <2>0. n \in Nodes
    BY <1>2
  <2>1. CASE prog[n].kind = "leaf"
    <3>1. R[n] = Measured(samples[n])
      BY <1>1, <2>0, <2>1, ResultsOf, CollectedLeaf
    <3>2. R[n].duration = samples[n]
      BY <1>3, <2>0, <3>1, MeasuredShape
    <3> QED
      BY <2>0, <3>2
  <2>2. CASE prog[n].kind # "leaf"
    <3> SUFFICES ASSUME ~Iterates[n] PROVE R[n].duration = samples[n]
      BY <2>0
    <3> DEFINE kids == prog[n].kids
               N == Len(kids)
               L == Len(samples[n])
               rep(j) == prog[kids[j]].repeat
               G(j) == Grouped(samples[kids[j]], rep(j))
    <3>1. PICK h : AddedUp(h, n)
      BY <2>0, <2>2, ReportedSet
    <3>2. kids \in Seq(Nat) /\ N \in Nat /\ DOMAIN kids = 1 .. N /\ N \in 0 .. N /\ N > 0
      BY <3>1 DEF AddedUp
    <3>3. \A j \in 1 .. N : kids[j] \in Nodes /\ kids[j] > n
      BY <1>1, <2>0, <3>2, ProgramNodes
    <3>4. prog[n].kind # "iterate" /\ \A j \in 1 .. N : ~Iterates[kids[j]]
      BY <1>1, <2>0, <3>2, IteratesOf
    <3>5. Passes(prog[n]) = 1
      BY <3>4 DEF Passes
    <3>6. \A j \in 1 .. N : R[kids[j]].duration = samples[kids[j]]
      BY <1>2, <1>4, <3>3, <3>4
    <3>7. L = rounds[n] * prog[n].repeat /\ L \in Nat
      <4>1. L \in Nat
        BY <1>3, <2>0
      <4>2. L = rounds[n] * prog[n].repeat
        BY <1>1, <2>0 DEF Done, Quiet, Recorded, AllMeasured
      <4> QED
        BY <4>1, <4>2
    <3>8. ASSUME NEW j \in 1 .. N PROVE Len(samples[kids[j]]) = L * rep(j) /\ rep(j) \in Nat
      <4>1. rounds[kids[j]] = (rounds[n] * prog[n].repeat) * Passes(prog[n]) /\ rep(j) \in Nat
        BY <1>1, <2>0, <3>2, KidCalls
      <4>2. Len(samples[kids[j]]) = rounds[kids[j]] * rep(j)
        BY <1>1, <3>3 DEF Done, Quiet, Recorded, AllMeasured
      <4> HIDE DEF L
      <4>3. rounds[kids[j]] = L * 1
        BY <3>5, <3>7, <4>1
      <4>4. rounds[kids[j]] = L
        BY <3>7, <4>3
      <4> QED
        BY <4>1, <4>2, <4>4
    <3> HIDE DEF kids, N, L, rep
    <3>9. \A j \in 1 .. N : rep(j) \in Nat \ {0}
      <4>1. Addable(Results, n)
        BY <1>1, <2>0, ResultsOf, SoundAddable DEF AllSound
      <4> SUFFICES ASSUME NEW j \in 1 .. N PROVE rep(j) \in Nat \ {0}
        OBVIOUS
      <4>2. Results[kids[j]].outcome = "reported"
        BY <3>3 DEF Reported
      <4>3. Results[kids[j]].outcome = "reported" => rep(j) > 0
        BY <3>2, <4>1 DEF Addable, kids, rep, N
      <4> QED
        BY <3>8, <4>2, <4>3
    <3>10. ASSUME NEW j \in 1 .. N
           PROVE  /\ G(j) \in Seq(Nat) /\ Len(G(j)) = L
                  /\ \A i \in 1 .. L :
                       /\ (i - 1) * rep(j) \in 0 .. Len(samples[kids[j]])
                       /\ i * rep(j) \in 0 .. Len(samples[kids[j]])
                       /\ Prefix(samples[kids[j]], i * rep(j)) =
                            Prefix(samples[kids[j]], (i - 1) * rep(j)) + G(j)[i]
      <4>1. samples[kids[j]] \in Seq(Nat) /\ Len(samples[kids[j]]) = L * rep(j)
        BY <1>3, <3>3, <3>8
      <4> QED
        BY <3>7, <3>9, <4>1, TotalGrouped, ZenonT(60)
    <3> HIDE DEF G
    <3>11. ASSUME NEW j \in 0 .. N - 1, h[j + 1].outcome = "reported"
           PROVE  /\ h[j].outcome = "reported" /\ h[j].duration \in Seq(Nat)
                  /\ h[j + 1].duration = Accumulate(h[j].duration, G(j + 1))
      <4>1. R[kids[j + 1]].duration = samples[kids[j + 1]]
        BY <3>2, <3>6
      <4> DEFINE v == R[kids[j + 1]]
      <4>2. /\ h[j].outcome = "reported" /\ h[j].duration \in Seq(Nat)
            /\ h[j + 1].duration = Accumulate(h[j].duration, Grouped(v.duration, rep(j + 1)))
        BY <2>0, <3>1, <3>11, AddedUpStep DEF N, kids, rep
      <4> QED
        BY <4>1, <4>2 DEF G
    <3> DEFINE row(i) == [j \in 1 .. N |-> G(j)[i]]
    <3>12. ASSUME NEW i \in 1 .. L
           PROVE  row(i) \in Seq(Nat) /\ Len(row(i)) = N /\ \A j \in 1 .. N : row(i)[j] = G(j)[i]
      <4>1. \A j \in 1 .. N : G(j)[i] \in Nat
        BY <3>10
      <4> DEFINE x == row(i)
      <4>2. x \in [1 .. N -> Nat] /\ \A j \in 1 .. N : x[j] = G(j)[i]
        BY <4>1
      <4> HIDE DEF x
      <4>3. x \in Seq(Nat) /\ Len(x) = N
        BY <3>2, <4>2
      <4> QED
        BY <4>2, <4>3 DEF x
    <3> HIDE DEF row
    <3> DEFINE Good(j) == h[j].outcome = "reported" =>
                            IF j = 0 THEN h[j].duration = <<>>
                            ELSE /\ h[j].duration \in Seq(Nat) /\ Len(h[j].duration) = L
                                 /\ \A i \in 1 .. L : h[j].duration[i] = Prefix(row(i), j)
               T == {j \in 0 .. N : Good(j)}
    <3>13. 0 \in T
      <4>1. h[0].duration = <<>>
        BY <3>1 DEF AddedUp, AddChain
      <4> QED
        BY <3>2, <4>1
    <3>14. ASSUME NEW j \in 0 .. N - 1, j \in T PROVE j + 1 \in T
      <4>0. j \in Nat /\ j + 1 \in 0 .. N /\ j + 1 \in 1 .. N /\ j + 1 # 0
        BY <3>2
      <4>1. SUFFICES ASSUME h[j + 1].outcome = "reported"
                     PROVE  /\ h[j + 1].duration \in Seq(Nat) /\ Len(h[j + 1].duration) = L
                            /\ \A i \in 1 .. L : h[j + 1].duration[i] = Prefix(row(i), j + 1)
        BY <4>0
      <4> DEFINE d == h[j].duration
                 g == G(j + 1)
                 e == h[j + 1].duration
      <4>2. h[j].outcome = "reported" /\ d \in Seq(Nat) /\ e = Accumulate(d, g)
        BY <3>11, <4>1
      <4>3. g \in Seq(Nat) /\ Len(g) = L
        BY <3>10, <4>0
      <4>4. IF j = 0 THEN d = <<>>
            ELSE Len(d) = L /\ \A i \in 1 .. L : d[i] = Prefix(row(i), j)
        BY <3>14, <4>2
      <4>5. \A i \in 1 .. L : /\ Prefix(row(i), 0) = 0 /\ Prefix(row(i), j) \in Nat
                              /\ Prefix(row(i), j + 1) = Prefix(row(i), j) + g[i]
        <5> SUFFICES ASSUME NEW i \in 1 .. L
                     PROVE  /\ Prefix(row(i), 0) = 0 /\ Prefix(row(i), j) \in Nat
                            /\ Prefix(row(i), j + 1) = Prefix(row(i), j) + g[i]
          OBVIOUS
        <5>1. row(i) \in Seq(Nat) /\ Len(row(i)) = N /\ row(i)[j + 1] = g[i]
          BY <3>12, <4>0
        <5>2. j \in 0 .. N
          BY <3>2
        <5> QED
          BY <5>1, <5>2, PrefixSums
      <4> HIDE DEF d, g, e
      <4>6. e \in Seq(Nat) /\ Len(e) = L
        <5>1. e \in Seq(Nat) /\ Len(e) = IF d = <<>> THEN Len(g) ELSE Len(d)
          BY <4>2, <4>3, AccumulateShape
        <5> QED
          BY <4>3, <4>4, <5>1
      <4>7. ASSUME NEW i \in 1 .. L PROVE e[i] = Prefix(row(i), j + 1)
        <5>0. g[i] \in Nat /\ i \in DOMAIN g
          BY <4>3
        <5>1. CASE j = 0
          <6>1. e[i] = g[i]
            BY <4>2, <4>4, <5>1 DEF Accumulate
          <6>2. Prefix(row(i), j) = 0
            BY <4>5, <5>1
          <6> QED
            BY <4>5, <5>0, <6>1, <6>2
        <5>2. CASE j # 0
          <6>1. d # <<>> /\ i \in DOMAIN d /\ d[i] = Prefix(row(i), j)
            BY <3>7, <4>2, <4>4, <5>2
          <6>2. e[i] = d[i] + g[i]
            BY <4>2, <5>0, <6>1 DEF Accumulate
          <6> QED
            BY <4>5, <6>1, <6>2
        <5> QED
          BY <5>1, <5>2
      <4> QED
        BY <4>6, <4>7 DEF e
    <3>15. \A j \in 0 .. N : j \in T
      <4> HIDE DEF T
      <4> QED
        BY <3>2, <3>13, <3>14, BoundedInduction
    <3>16. h[N].outcome = "reported" /\ R[n].duration = h[N].duration
      BY <3>1 DEF AddedUp, N, kids
    <3>17. /\ R[n].duration \in Seq(Nat) /\ Len(R[n].duration) = L
           /\ \A i \in 1 .. L : R[n].duration[i] = Prefix(row(i), N)
      BY <3>2, <3>15, <3>16
    <3> HIDE DEF Good, T
    <3>18. ASSUME NEW i \in 1 .. L PROVE samples[n][i] = Prefix(row(i), N)
      <4> DEFINE b == i - 1
                 s == KidPrefixes(samples, n, b)
                 t == KidPrefixes(samples, n, i)
      <4>1. i \in 0 .. L /\ b \in 0 .. L /\ b \in 0 .. L - 1 /\ b + 1 = i /\ i \in Nat /\ b \in Nat
        BY <3>7
      <4> HIDE DEF b
      <4>2. CyclesAddUp(samples, n, i) /\ CyclesAddUp(samples, n, b)
        BY <1>1, <2>0, <2>2, <4>1 DEF CyclesKnown, L
      <4>3. Prefix(samples[n], i) = Total(t) /\ Prefix(samples[n], b) = Total(s)
        BY <4>2 DEF CyclesAddUp
      <4>4. ASSUME NEW j \in 1 .. N
            PROVE  /\ t[j] = Prefix(samples[kids[j]], i * rep(j))
                   /\ s[j] = Prefix(samples[kids[j]], b * rep(j))
        <5>1. i * 1 = i /\ b * 1 = b
          BY <4>1
        <5> QED
          BY <3>2, <3>5, <5>1 DEF KidPrefixes, kids, rep
      <4>5. s = [j \in 1 .. N |-> s[j]] /\ t = [j \in 1 .. N |-> t[j]]
        BY <3>2 DEF KidPrefixes, kids
      <4>6. ASSUME NEW j \in 1 .. N PROVE s[j] \in Nat /\ t[j] \in Nat /\ t[j] = s[j] + row(i)[j]
        <5>1. /\ b * rep(j) \in 0 .. Len(samples[kids[j]]) /\ i * rep(j) \in 0 .. Len(samples[kids[j]])
              /\ Prefix(samples[kids[j]], i * rep(j)) = Prefix(samples[kids[j]], b * rep(j)) + G(j)[i]
          BY <3>10 DEF b
        <5>2. samples[kids[j]] \in Seq(Nat)
          BY <1>3, <3>3
        <5>3. Prefix(samples[kids[j]], b * rep(j)) \in Nat /\ Prefix(samples[kids[j]], i * rep(j)) \in Nat
          BY <5>1, <5>2, PrefixSums
        <5>4. row(i)[j] = G(j)[i]
          BY <3>12
        <5> HIDE DEF s, t
        <5> QED
          BY <4>4, <5>1, <5>3, <5>4
      <4> HIDE DEF s, t
      <4>7. s \in [1 .. N -> Nat] /\ t \in [1 .. N -> Nat]
        BY <4>5, <4>6
      <4>8. s \in Seq(Nat) /\ t \in Seq(Nat) /\ Len(s) = N /\ Len(t) = N
        BY <3>2, <4>7
      <4>9. row(i) \in Seq(Nat) /\ Len(row(i)) = N
        BY <3>12
      <4>10. Total(t) = Total(s) + Total(row(i))
        <5> DEFINE u == row(i)
        <5>1. u \in Seq(Nat) /\ Len(u) = Len(s) /\ Len(t) = Len(s)
          BY <4>8, <4>9
        <5>2. \A j \in 1 .. Len(s) : t[j] = s[j] + u[j]
          BY <4>6, <4>8
        <5> HIDE DEF u
        <5>3. Total(t) = Total(s) + Total(u)
          BY <4>8, <5>1, <5>2, TotalSum
        <5> QED
          BY <5>3 DEF u
      <4>11. Total(s) \in Nat /\ Total(row(i)) \in Nat /\ Prefix(row(i), N) = Total(row(i))
        BY <4>8, <4>9, TotalNat, PrefixSums
      <4>12. Prefix(samples[n], b + 1) = Prefix(samples[n], b) + samples[n][b + 1]
        BY <1>3, <2>0, <4>1, PrefixSums DEF L
      <4>13. samples[n][i] \in Nat
        BY <1>3, <2>0 DEF L
      <4> QED
        BY <4>1, <4>3, <4>10, <4>11, <4>12, <4>13
    <3>19. samples[n] \in Seq(Nat) /\ Len(samples[n]) = L
      BY <1>3, <2>0 DEF L
    <3> DEFINE x == R[n].duration
               y == samples[n]
    <3>20. x \in Seq(Nat) /\ y \in Seq(Nat) /\ Len(x) = L /\ Len(y) = L /\ \A i \in 1 .. L : x[i] = y[i]
      BY <3>17, <3>18, <3>19
    <3> HIDE DEF x, y
    <3>21. x = y
      BY <3>20
    <3> QED
      BY <3>21 DEF x, y
  <2> QED
    BY <2>1, <2>2
<1>5. \A n \in 1 .. M : n \in S
  <2> HIDE DEF S, M
  <2> QED
    BY <1>2, <1>4, DownInduction
<1> QED
  BY <1>2, <1>5

\* Which instructions iterate depends on the tree alone.
LEMMA IteratesStays ==
  ASSUME prog' = prog
  PROVE  Iterates' = Iterates /\ Nodes' = Nodes
BY DEF Iterates, Nodes

\* What the last step of a run reports.
LEMMA CollectedReport ==
  ASSUME IInv, Counted, SpentKnown, CyclesKnown, CollectResults, status' = "reported"
  PROVE  /\ Reported /\ samples' = samples /\ prog' = prog
         /\ \A n \in Nodes : report'[n] = Results[n].duration
<1>1. stack = <<>> /\ Results[1].outcome = "reported" /\ samples' = samples /\ prog' = prog
  BY DEF CollectResults
<1>2. report' = [n \in Nodes |-> Results[n].duration]
  BY <1>1 DEF CollectResults
<1>3. Reported
  BY <1>1, ReportedWhenCollected
<1> QED
  BY <1>1, <1>2, <1>3

\* One step keeps the durations of a set without iteration in line.
LEMMA PerCycleStep ==
  IInv /\ Counted /\ SpentKnown /\ CyclesKnown /\ DurationPerCycle /\ [Next]_vars => DurationPerCycle'
<1> SUFFICES ASSUME IInv, Counted, SpentKnown, CyclesKnown, DurationPerCycle, [Next]_vars
             PROVE  DurationPerCycle'
  OBVIOUS
<1>1. prog' = prog
  BY EndOfRun
<1>2. Iterates' = Iterates /\ Nodes' = Nodes
  BY <1>1, IteratesStays
<1>3. CASE UNCHANGED vars
  BY <1>2, <1>3 DEF DurationPerCycle, vars
<1>4. CASE status' \in {"running", "exited"}
  BY <1>4 DEF DurationPerCycle
<1>5. CASE CollectResults
  <2> SUFFICES ASSUME status' = "reported", NEW n \in Nodes, ~Iterates[n]
               PROVE  report'[n] = samples'[n]
    BY <1>2 DEF DurationPerCycle
  <2>1. Reported /\ samples' = samples /\ report'[n] = Results[n].duration
    BY <1>5, CollectedReport
  <2>2. Results[n].duration = samples[n]
    BY <2>1, ReportedCycles
  <2> QED
    BY <2>1, <2>2
<1> QED
  BY <1>3, <1>4, <1>5, EndOfRun

\* Without iteration the k-th duration of a set is the time the instructions
\* of the set took in its k-th cycle, for any tree and any times.
THEOREM DurationAlwaysPerCycle == Spec => []DurationPerCycle
<1>1. Init => DurationPerCycle
  BY DEF Init, DurationPerCycle
<1>2. IInv /\ Counted /\ SpentKnown /\ CyclesKnown /\ DurationPerCycle /\ [Next]_vars => DurationPerCycle'
  BY PerCycleStep
<1> QED
  BY <1>1, <1>2, Invariance, CallsAlwaysCounted, TimesAlwaysAddUp, CyclesAlwaysAddUp, PTL DEF Spec

-----------------------------------------------------------------------------
(* Sums over disjoint sets *)

\* A sum of natural numbers is one.
LEMMA SumsNat ==
  ASSUME NEW S, IsFiniteSet(S), NEW F \in [S -> Nat], NEW f, Sums(f, F, S)
  PROVE  \A s \in SUBSET S : f[s] \in Nat
<1> DEFINE T == {m \in Nat : \A s \in SUBSET S : Cardinality(s) = m => f[s] \in Nat}
<1>1. \A s \in SUBSET S : IsFiniteSet(s) /\ Cardinality(s) \in Nat
  BY FS_Subset, FS_CardinalityType
<1>2. \A s \in SUBSET S : f[s] = IF s = {} THEN 0 ELSE F[Pick(s)] + f[s \ {Pick(s)}]
  BY DEF Sums
<1>3. f[{}] = 0
  BY <1>2, Zenon
<1>4. 0 \in T
  <2>1. \A s \in SUBSET S : Cardinality(s) = 0 => s = {}
    BY <1>1, FS_EmptySet
  <2> QED
    BY <1>3, <2>1
<1>5. ASSUME NEW m \in T PROVE m + 1 \in T
  <2> SUFFICES ASSUME NEW s \in SUBSET S, Cardinality(s) = m + 1 PROVE f[s] \in Nat
    OBVIOUS
  <2>1. m \in Nat
    OBVIOUS
  <2>0. s # {}
    <3>1. Cardinality({}) = 0
      BY FS_EmptySet
    <3>2. m + 1 # 0
      BY <2>1
    <3> QED
      BY <3>1, <3>2, Zenon
  <2> DEFINE y == Pick(s)
             r == s \ {y}
  <2>2. y \in s /\ F[y] \in Nat /\ r \in SUBSET S
    BY <2>0 DEF Pick
  <2>3. f[s] = F[y] + f[r]
    <3>1. f[s] = IF s = {} THEN 0 ELSE F[y] + f[r]
      BY <1>2
    <3> HIDE DEF y, r
    <3> QED
      BY <2>0, <3>1
  <2>4. Cardinality(r) = m
    <3> HIDE DEF T, y
    <3>1. Cardinality(r) = Cardinality(s) - 1
      BY <1>1, <2>2, FS_RemoveElement
    <3> QED
      BY <2>1, <3>1
  <2>5. f[r] \in Nat
    BY <2>2, <2>4
  <2> HIDE DEF y, r
  <2> QED
    BY <2>2, <2>3, <2>5
<1>6. T = Nat
  <2> HIDE DEF T
  <2>1. T \in SUBSET Nat
    BY DEF T
  <2> QED
    BY <1>4, <1>5, <2>1, SetInduction
<1> QED
  BY <1>1, <1>6

\* A sum can be added up in any order.
LEMMA SumsRemove ==
  ASSUME NEW S, IsFiniteSet(S), NEW F \in [S -> Nat], NEW f, Sums(f, F, S)
  PROVE  /\ f[{}] = 0
         /\ \A s \in SUBSET S : f[s] \in Nat /\ \A x \in s : f[s] = F[x] + f[s \ {x}]
<1> DEFINE P(s) == f[s] \in Nat /\ \A x \in s : f[s] = F[x] + f[s \ {x}]
           T == {m \in Nat : \A s \in SUBSET S : Cardinality(s) = m => P(s)}
<1>1. \A s \in SUBSET S : IsFiniteSet(s) /\ Cardinality(s) \in Nat
  BY FS_Subset, FS_CardinalityType
<1>2. ASSUME NEW s \in SUBSET S, NEW x \in s
      PROVE  s \ {x} \in SUBSET S /\ Cardinality(s \ {x}) = Cardinality(s) - 1
  BY <1>1, FS_RemoveElement
<1>3. \A s \in SUBSET S : f[s] = IF s = {} THEN 0 ELSE F[Pick(s)] + f[s \ {Pick(s)}]
  BY DEF Sums
<1>0. \A s \in SUBSET S : f[s] \in Nat
  BY SumsNat
<1>4. f[{}] = 0
  BY <1>3, Zenon
<1>5. 0 \in T
  <2>1. \A s \in SUBSET S : Cardinality(s) = 0 => s = {}
    BY <1>1, FS_EmptySet
  <2> QED
    BY <1>4, <2>1
<1>6. ASSUME NEW m \in T PROVE m + 1 \in T
  <2> SUFFICES ASSUME NEW s \in SUBSET S, Cardinality(s) = m + 1 PROVE P(s)
    OBVIOUS
  <2>0. m \in Nat
    OBVIOUS
  <2>1. s # {}
    <3>1. Cardinality({}) = 0
      BY FS_EmptySet
    <3>2. m + 1 # 0
      BY <2>0
    <3> QED
      BY <3>1, <3>2, Zenon
  <2>2. ASSUME NEW x \in s
        PROVE  s \ {x} \in SUBSET S /\ P(s \ {x})
    <3>1. s \ {x} \in SUBSET S /\ Cardinality(s \ {x}) = m
      <4> HIDE DEF T
      <4>1. s \ {x} \in SUBSET S /\ Cardinality(s \ {x}) = Cardinality(s) - 1
        BY <1>2
      <4> QED
        BY <2>0, <4>1
    <3> QED
      BY <3>1
  <2> DEFINE y == Pick(s)
             r == s \ {y}
  <2>3. y \in s /\ F[y] \in Nat
    BY <2>1 DEF Pick
  <2>4. f[s] = F[y] + f[r]
    <3>1. f[s] = IF s = {} THEN 0 ELSE F[y] + f[r]
      BY <1>3
    <3> HIDE DEF y, r
    <3> QED
      BY <2>1, <3>1
  <2>5. f[r] \in Nat /\ \A x \in r : f[r] = F[x] + f[r \ {x}]
    BY <2>2, <2>3
  <2> HIDE DEF y, r
  <2>6. ASSUME NEW x \in s PROVE f[s] = F[x] + f[s \ {x}]
    <3>1. CASE x = y
      BY <2>4, <3>1 DEF r
    <3>2. CASE x # y
      <4> DEFINE q == s \ {x}
                 z == r \ {x}
      <4>1. f[r] = F[x] + f[z]
        BY <2>5, <3>2 DEF r
      <4>2. f[q] \in Nat /\ f[q] = F[y] + f[q \ {y}]
        BY <2>2, <2>3, <3>2
      <4>3. q \ {y} = z
        BY DEF r
      <4>4. x \in r /\ F[x] \in Nat
        BY <3>2 DEF r
      <4>5. f[z] \in Nat
        <5>1. z \in SUBSET S
          BY DEF r
        <5> QED
          BY <1>0, <5>1
      <4> HIDE DEF q, z
      <4> QED
        <5>1. f[q] = F[y] + f[z]
          BY <4>2, <4>3
        <5>2. f[s] = F[x] + f[q]
          BY <2>3, <2>4, <4>1, <4>4, <4>5, <5>1
        <5> QED
          BY <5>2 DEF q
    <3> QED
      BY <3>1, <3>2
  <2>7. f[s] \in Nat
    BY <2>3, <2>4, <2>5
  <2> QED
    BY <2>6, <2>7
<1>7. T = Nat
  <2> HIDE DEF T
  <2>1. T \in SUBSET Nat
    BY DEF T
  <2> QED
    BY <1>5, <1>6, <2>1, SetInduction
<1>8. ASSUME NEW s \in SUBSET S PROVE P(s)
  <2> DEFINE m == Cardinality(s)
  <2>1. m \in T
    <3> HIDE DEF T
    <3> QED
      BY <1>1, <1>7
  <2> HIDE DEF P
  <2> QED
    BY <2>1
<1> QED
  BY <1>4, <1>8

\* The sum over two disjoint sets.
LEMMA SumsUnion ==
  ASSUME NEW S, IsFiniteSet(S), NEW F \in [S -> Nat], NEW f, Sums(f, F, S)
  PROVE  \A a, b \in SUBSET S : a \cap b = {} => f[a \cup b] = f[a] + f[b]
<1> DEFINE T == {m \in Nat : \A a, b \in SUBSET S :
                              Cardinality(b) = m /\ a \cap b = {} => f[a \cup b] = f[a] + f[b]}
<1>1. \A s \in SUBSET S : IsFiniteSet(s) /\ Cardinality(s) \in Nat
  BY FS_Subset, FS_CardinalityType
<1>2. \A s \in SUBSET S : f[s] \in Nat
  BY SumsNat
<1>3. f[{}] = 0 /\ \A s \in SUBSET S : f[s] \in Nat /\ \A x \in s : f[s] = F[x] + f[s \ {x}]
  BY SumsRemove
<1>4. ASSUME NEW a \in SUBSET S PROVE f[a \cup {}] = f[a] + f[{}]
  <2>1. a \cup {} = a
    OBVIOUS
  <2> QED
    BY <1>2, <1>3, <2>1
<1>5. 0 \in T
  <2>1. \A s \in SUBSET S : Cardinality(s) = 0 => s = {}
    BY <1>1, FS_EmptySet
  <2> QED
    BY <1>4, <2>1
<1>6. ASSUME NEW m \in T PROVE m + 1 \in T
  <2> SUFFICES ASSUME NEW a \in SUBSET S, NEW b \in SUBSET S, Cardinality(b) = m + 1,
                      a \cap b = {}
               PROVE  f[a \cup b] = f[a] + f[b]
    <3>1. m + 1 \in Nat
      OBVIOUS
    <3> QED
      BY <3>1, Zenon
  <2>1. m \in Nat
    OBVIOUS
  <2>0. b # {}
    <3>1. Cardinality({}) = 0
      BY FS_EmptySet
    <3>2. m + 1 # 0
      BY <2>1
    <3> QED
      BY <3>1, <3>2, Zenon
  <2>2. PICK x \in b : TRUE
    BY <2>0
  <2> DEFINE r == b \ {x}
             c == a \cup b
             d == a \cup r
  <2>3. r \in SUBSET S /\ c \in SUBSET S /\ a \cap r = {} /\ x \in c /\ F[x] \in Nat /\ c \ {x} = d
    BY <2>2
  <2>4. Cardinality(r) = m
    <3> HIDE DEF T
    <3>1. Cardinality(r) = Cardinality(b) - 1
      BY <1>1, <2>2, FS_RemoveElement
    <3> QED
      BY <2>1, <3>1
  <2>5. f[d] = f[a] + f[r]
    BY <2>3, <2>4
  <2>6. f[c] = F[x] + f[d] /\ f[b] = F[x] + f[r]
    <3> HIDE DEF c, d, T
    <3>1. f[c] = F[x] + f[c \ {x}]
      BY <1>3, <2>3
    <3>2. f[b] = F[x] + f[b \ {x}]
      BY <1>3, <2>2
    <3> QED
      BY <2>3, <3>1, <3>2
  <2>7. f[a] \in Nat /\ f[r] \in Nat
    BY <1>2, <2>3
  <2> HIDE DEF T, r, d
  <2>8. f[c] = f[a] + f[b]
    BY <2>3, <2>5, <2>6, <2>7
  <2> QED
    BY <2>8
<1>7. T = Nat
  <2> HIDE DEF T
  <2>1. T \in SUBSET Nat
    BY DEF T
  <2> QED
    BY <1>5, <1>6, <2>1, SetInduction
<1> QED
  BY <1>1, <1>7

\* A sum over a smaller set, taken by itself.
LEMMA SumsWithin ==
  ASSUME NEW S, IsFiniteSet(S), NEW F \in [S -> Nat], NEW f, Sums(f, F, S),
         NEW U \in SUBSET S, NEW g, Sums(g, F, U)
  PROVE  g[U] = f[U]
<1> DEFINE T == {m \in Nat : \A s \in SUBSET U : Cardinality(s) = m => g[s] = f[s]}
<1>1. \A s \in SUBSET U : s \in SUBSET S /\ IsFiniteSet(s) /\ Cardinality(s) \in Nat
  BY FS_Subset, FS_CardinalityType
<1>2. \A s \in SUBSET U : g[s] = IF s = {} THEN 0 ELSE F[Pick(s)] + g[s \ {Pick(s)}]
  BY DEF Sums
<1>3. \A s \in SUBSET S : f[s] = IF s = {} THEN 0 ELSE F[Pick(s)] + f[s \ {Pick(s)}]
  BY DEF Sums
<1>4. f[{}] = 0 /\ g[{}] = 0
  BY <1>2, <1>3, Zenon
<1>5. 0 \in T
  <2>1. \A s \in SUBSET U : Cardinality(s) = 0 => s = {}
    BY <1>1, FS_EmptySet
  <2> QED
    BY <1>4, <2>1
<1>6. ASSUME NEW m \in T PROVE m + 1 \in T
  <2> SUFFICES ASSUME NEW s \in SUBSET U, Cardinality(s) = m + 1 PROVE g[s] = f[s]
    OBVIOUS
  <2>1. m \in Nat
    OBVIOUS
  <2>0. s # {}
    <3>1. Cardinality({}) = 0
      BY FS_EmptySet
    <3>2. m + 1 # 0
      BY <2>1
    <3> QED
      BY <3>1, <3>2, Zenon
  <2> DEFINE y == Pick(s)
             r == s \ {y}
  <2>2. y \in s /\ r \in SUBSET U /\ s \in SUBSET S
    BY <2>0 DEF Pick
  <2>3. Cardinality(r) = m
    <3> HIDE DEF T, y
    <3>1. Cardinality(r) = Cardinality(s) - 1
      BY <1>1, <2>2, FS_RemoveElement
    <3> QED
      BY <2>1, <3>1
  <2>4. g[r] = f[r]
    BY <2>2, <2>3
  <2>5. /\ g[s] = IF s = {} THEN 0 ELSE F[y] + g[r]
        /\ f[s] = IF s = {} THEN 0 ELSE F[y] + f[r]
    BY <1>2, <1>3, <2>2
  <2> HIDE DEF y, r
  <2> QED
    BY <2>0, <2>4, <2>5
<1>7. T = Nat
  <2> HIDE DEF T
  <2>1. T \in SUBSET Nat
    BY DEF T
  <2> QED
    BY <1>5, <1>6, <2>1, SetInduction
<1> QED
  BY <1>1, <1>7

-----------------------------------------------------------------------------
(* The leaves below a set *)

\* The leaves of n are those of its instructions.
LEMMA LeavesOf ==
  ASSUME Typed
  PROVE  /\ Leaves \in [Nodes -> SUBSET Nodes]
         /\ \A n \in Nodes :
              Leaves[n] = IF prog[n].kids = <<>> THEN {n}
                          ELSE UNION {Leaves[prog[n].kids[k]] : k \in DOMAIN prog[n].kids}
<1> DEFINE N == Len(prog)
           V == SUBSET Nodes
           Def(n, g) == IF prog[n].kids = <<>> THEN {n}
                        ELSE UNION {g[prog[n].kids[k]] : k \in DOMAIN prog[n].kids}
           Rec(g) == g = [n \in Nodes |-> Def(n, g)]
           f == CHOOSE g : Rec(g)
           F == [1 .. N -> V]
           A == [p \in (1 .. N) \X F |-> Def(p[1], p[2])]
<1>1. N \in Nat /\ Nodes = 1 .. N
  BY ProgramNodes
<1>2. \A n \in Nodes : \A j \in DOMAIN prog[n].kids : prog[n].kids[j] \in Nodes /\ prog[n].kids[j] > n
  BY ProgramNodes
<1>3. Leaves = f
  BY DEF Leaves
<1>4. ASSUME NEW n \in 1 .. N, NEW g \in F PROVE Def(n, g) \in V
  <2>1. CASE prog[n].kids = <<>>
    BY <1>1, <2>1
  <2>2. CASE prog[n].kids # <<>>
    <3>1. \A k \in DOMAIN prog[n].kids : g[prog[n].kids[k]] \in SUBSET Nodes
      BY <1>1, <1>2
    <3>2. UNION {g[prog[n].kids[k]] : k \in DOMAIN prog[n].kids} \in SUBSET Nodes
      BY <3>1
    <3> QED
      BY <2>2, <3>2
  <2> QED
    BY <2>1, <2>2
<1>5. \A n \in 1 .. N : \A g \in F : \A h \in F :
        (\A m \in 1 .. N : m > n => g[m] = h[m]) => Def(n, g) = Def(n, h)
  <2> SUFFICES ASSUME NEW n \in 1 .. N, NEW g \in F, NEW h \in F,
                      \A m \in 1 .. N : m > n => g[m] = h[m]
               PROVE  Def(n, g) = Def(n, h)
    OBVIOUS
  <2>1. \A j \in DOMAIN prog[n].kids : g[prog[n].kids[j]] = h[prog[n].kids[j]]
    BY <1>1, <1>2
  <2>2. {g[prog[n].kids[k]] : k \in DOMAIN prog[n].kids} = {h[prog[n].kids[k]] : k \in DOMAIN prog[n].kids}
    BY <2>1
  <2> QED
    BY <2>2, Zenon
<1> HIDE DEF N, Def, V
<1>6. A \in [(1 .. N) \X F -> V]
  <2>1. ASSUME NEW p \in (1 .. N) \X F PROVE Def(p[1], p[2]) \in V
    <3>1. p[1] \in 1 .. N /\ p[2] \in F
      OBVIOUS
    <3> QED
      BY <1>4, <3>1
  <2> QED
    BY <2>1
<1>7. \A n \in 1 .. N : \A g \in F : A[<<n, g>>] = Def(n, g)
  OBVIOUS
<1> HIDE DEF A
<1>8. Looks(N, V, A)
  <2> SUFFICES ASSUME NEW n \in 1 .. N, NEW g \in F, NEW h \in F,
                      \A m \in 1 .. N : m > n => g[m] = h[m]
               PROVE  A[<<n, g>>] = A[<<n, h>>]
    BY DEF Looks
  <2>1. Def(n, g) = Def(n, h)
    BY <1>5
  <2> QED
    BY <1>7, <2>1
<1>9. PICK g : DownOf(g, N, V, A)
  <2>1. {} \in V
    BY DEF V
  <2> QED
    BY <1>1, <1>6, <1>8, <2>1, DownExists
<1>10. g \in [Nodes -> V] /\ \A n \in Nodes : g[n] = Def(n, g)
  BY <1>1, <1>7, <1>9 DEF DownOf
<1>11. Rec(g)
  <2>1. g = [n \in Nodes |-> g[n]]
    BY <1>10
  <2> QED
    BY <1>10, <2>1
<1>12. Rec(f)
  <2> HIDE DEF Rec
  <2> QED
    BY <1>11, Zenon
<1> HIDE DEF f
<1>13. \A n \in Nodes : f[n] = Def(n, f)
  BY <1>12
<1>14. f \in [Nodes -> V]
  <2> DEFINE S == {n \in Nodes : f[n] \in V}
  <2>1. ASSUME NEW n \in 1 .. N, \A m \in 1 .. N : m > n => m \in S PROVE n \in S
    <3>1. \A k \in DOMAIN prog[n].kids : f[prog[n].kids[k]] \in V
      BY <1>1, <1>2, <2>1
    <3>2. Def(n, f) \in V
      <4>1. CASE prog[n].kids = <<>>
        BY <1>1, <4>1 DEF Def, V
      <4>2. CASE prog[n].kids # <<>>
        <5>1. UNION {f[prog[n].kids[k]] : k \in DOMAIN prog[n].kids} \in SUBSET Nodes
          BY <3>1 DEF V
        <5> QED
          BY <4>2, <5>1 DEF Def, V
      <4> QED
        BY <4>1, <4>2
    <3> QED
      BY <1>1, <1>13, <3>2
  <2> HIDE DEF S
  <2>2. \A n \in 1 .. N : n \in S
    BY <1>1, <2>1, DownInduction
  <2>3. \A n \in Nodes : f[n] \in V
    BY <1>1, <2>2 DEF S
  <2>4. f = [n \in Nodes |-> Def(n, f)]
    BY <1>12
  <2>5. f = [n \in Nodes |-> f[n]]
    BY <1>13, <2>4
  <2> QED
    BY <2>3, <2>5
<1> QED
  BY <1>3, <1>13, <1>14 DEF Def, V

\* Instructions have the numbers above that of their set.
LEMMA LeavesAbove ==
  ASSUME Typed
  PROVE  \A n \in Nodes : \A x \in Leaves[n] : x \in Nodes /\ x >= n
<1> DEFINE N == Len(prog)
           S == {n \in Nodes : \A x \in Leaves[n] : x \in Nodes /\ x >= n}
<1>1. N \in Nat /\ Nodes = 1 .. N
  BY ProgramNodes
<1>2. ASSUME NEW n \in 1 .. N, \A m \in 1 .. N : m > n => m \in S PROVE n \in S
  <2>1. n \in Nodes
    BY <1>1
  <2> SUFFICES ASSUME NEW x \in Leaves[n] PROVE x \in Nodes /\ x >= n
    BY <2>1
  <2>2. CASE prog[n].kids = <<>>
    <3>1. x = n
      BY <2>1, <2>2, LeavesOf
    <3> QED
      BY <1>1, <3>1
  <2>3. CASE prog[n].kids # <<>>
    <3>1. PICK k \in DOMAIN prog[n].kids : x \in Leaves[prog[n].kids[k]]
      BY <2>1, <2>3, LeavesOf
    <3> DEFINE c == prog[n].kids[k]
    <3>2. c \in Nodes /\ c > n
      BY <2>1, ProgramNodes
    <3>3. c \in S /\ x \in Leaves[c]
      BY <1>1, <1>2, <3>1, <3>2
    <3> HIDE DEF c
    <3>4. x \in Nodes /\ x >= c
      BY <3>3
    <3> QED
      BY <1>1, <3>2, <3>4
  <2> QED
    BY <2>2, <2>3
<1>3. \A n \in 1 .. N : n \in S
  <2> HIDE DEF S, N
  <2> QED
    BY <1>1, <1>2, DownInduction
<1> QED
  BY <1>1, <1>3

\* Only the instructions below a share a leaf with a: one that does hangs from
\* a or from an instruction after it.
LEMMA SharedLeaf ==
  ASSUME Typed
  PROVE  \A a, b, m \in Nodes : \A j \in DOMAIN prog[m].kids :
           prog[m].kids[j] = b /\ b > a /\ Leaves[a] \cap Leaves[b] # {} => m >= a
<1> DEFINE N == Len(prog)
           Hangs(b, m) == \E j \in DOMAIN prog[m].kids : prog[m].kids[j] = b
           S == {a \in Nodes : \A b, m \in Nodes : \A x \in Leaves[a] :
                   Hangs(b, m) /\ b > a /\ x \in Leaves[b] => m >= a}
<1>1. N \in Nat /\ Nodes = 1 .. N
  BY ProgramNodes
<1>2. ASSUME NEW a \in 1 .. N, \A c \in 1 .. N : c > a => c \in S PROVE a \in S
  <2>1. a \in Nodes
    BY <1>1
  <2> SUFFICES ASSUME NEW b \in Nodes, NEW m \in Nodes, NEW x \in Leaves[a],
                      Hangs(b, m), b > a, x \in Leaves[b]
               PROVE  m >= a
    BY <2>1
  <2>2. CASE prog[a].kids = <<>>
    <3>1. x = a
      BY <2>1, <2>2, LeavesOf
    <3>2. x >= b
      BY LeavesAbove
    <3> QED
      BY <1>1, <3>1, <3>2
  <2>3. CASE prog[a].kids # <<>>
    <3>1. PICK k \in DOMAIN prog[a].kids : x \in Leaves[prog[a].kids[k]]
      BY <2>1, <2>3, LeavesOf
    <3> DEFINE c == prog[a].kids[k]
    <3>2. c \in Nodes /\ c > a
      BY <2>1, ProgramNodes
    <3>3. Hangs(c, a) /\ x \in Leaves[c]
      BY <3>1
    <3>4. c \in S /\ b \in S
      BY <1>1, <1>2, <3>2
    <3>5. CASE c = b
      <4>1. PICK j \in DOMAIN prog[m].kids : prog[m].kids[j] = prog[a].kids[k]
        BY <3>5
      <4>2. m = a
        BY <2>1, <4>1, ProgramTree
      <4> QED
        BY <1>1, <4>2
    <3> HIDE DEF c, Hangs
    <3>6. CASE b > c
      <4>1. m >= c
        BY <3>3, <3>4, <3>6
      <4> QED
        BY <1>1, <3>2, <4>1
    <3>7. CASE c > b
      <4>1. a >= b
        BY <2>1, <3>2, <3>3, <3>4, <3>7
      <4> QED
        BY <1>1, <4>1
    <3> QED
      BY <1>1, <3>2, <3>5, <3>6, <3>7
  <2> QED
    BY <2>2, <2>3
<1>3. \A n \in 1 .. N : n \in S
  <2> HIDE DEF S, N
  <2> QED
    BY <1>1, <1>2, DownInduction
<1>4. \A a \in Nodes : a \in S
  BY <1>1, <1>3
<1> SUFFICES ASSUME NEW a \in Nodes, NEW b \in Nodes, NEW m \in Nodes,
                    NEW j \in DOMAIN prog[m].kids, prog[m].kids[j] = b, b > a,
                    NEW x \in Leaves[a] \cap Leaves[b]
             PROVE  m >= a
  OBVIOUS
<1>5. Hangs(b, m)
  OBVIOUS
<1> QED
  BY <1>4, <1>5

\* The instructions of a set share no leaf.
LEMMA LeavesDisjoint ==
  ASSUME Typed, NEW n \in Nodes, NEW i \in DOMAIN prog[n].kids, NEW j \in DOMAIN prog[n].kids, i # j
  PROVE  Leaves[prog[n].kids[i]] \cap Leaves[prog[n].kids[j]] = {}
<1> DEFINE a == prog[n].kids[i]
           b == prog[n].kids[j]
<1>1. a \in Nodes /\ b \in Nodes /\ a > n /\ b > n /\ Nodes \in SUBSET Nat
  BY ProgramNodes
<1>2. a # b
  BY ProgramTree
<1>3. b > a /\ Leaves[a] \cap Leaves[b] # {} => n >= a
  BY <1>1, SharedLeaf
<1>4. a > b /\ Leaves[b] \cap Leaves[a] # {} => n >= b
  BY <1>1, SharedLeaf
<1> HIDE DEF a, b
<1>5. Leaves[a] \cap Leaves[b] = {}
  <2>1. Leaves[a] \cap Leaves[b] = Leaves[b] \cap Leaves[a]
    OBVIOUS
  <2>2. n \in Nat /\ a \in Nat /\ b \in Nat
    BY <1>1
  <2> DEFINE common == Leaves[a] \cap Leaves[b]
  <2>3. /\ b > a /\ common # {} => n >= a
        /\ a > b /\ common # {} => n >= b
    BY <1>3, <1>4, <2>1
  <2> HIDE DEF common
  <2>4. common = {}
    BY <1>1, <1>2, <2>2, <2>3
  <2> QED
    BY <2>4 DEF common
<1> QED
  BY <1>5 DEF a, b

\* MapThenSumSet of the times of some instructions.
LEMMA LeafSums ==
  ASSUME NEW S \in SUBSET Nodes, IsFiniteSet(S)
  PROVE  \E f : /\ Sums(f, [n \in Nodes |-> Total(samples[n])], S)
                /\ MapThenSumSet(LAMBDA leaf : Total(samples[leaf]), S) = f[S]
<1> DEFINE F == [n \in Nodes |-> Total(samples[n])]
           Rec(g) == g = [s \in SUBSET S |-> IF s = {} THEN 0
                            ELSE LET x == CHOOSE x \in s : TRUE IN Total(samples[x]) + g[s \ {x}]]
           f == CHOOSE g : Rec(g)
<1>1. MapThenSumSet(LAMBDA leaf : Total(samples[leaf]), S) = f[S]
  BY DEF MapThenSumSet, MapThenFoldSet
<1>2. ASSUME NEW g PROVE Sums(g, F, S) <=> Rec(g)
  <2>1. ASSUME NEW s \in SUBSET S, s # {} PROVE F[Pick(s)] = Total(samples[CHOOSE x \in s : TRUE])
    <3>1. Pick(s) \in s
      BY <2>1 DEF Pick
    <3>2. Pick(s) \in Nodes
      BY <3>1
    <3> QED
      BY <3>2 DEF Pick
  <2>2. [s \in SUBSET S |-> IF s = {} THEN 0 ELSE F[Pick(s)] + g[s \ {Pick(s)}]]
          = [s \in SUBSET S |-> IF s = {} THEN 0
               ELSE LET x == CHOOSE x \in s : TRUE IN Total(samples[x]) + g[s \ {x}]]
    <3> HIDE DEF F
    <3> QED
      BY <2>1 DEF Pick
  <2> QED
    BY <2>2 DEF Sums
<1>3. \E g : Rec(g)
  <2>1. \E g : Sums(g, F, S)
    BY SumsExist
  <2> HIDE DEF Rec
  <2> QED
    BY <1>2, <2>1
<1>4. Rec(f)
  <2> HIDE DEF Rec
  <2> QED
    BY <1>3, Zenon
<1>5. Sums(f, F, S)
  <2> HIDE DEF Rec, f, F
  <2> QED
    BY <1>2, <1>4
<1> HIDE DEF f
<1> QED
  BY <1>1, <1>5

\* No set is empty: CollectResults exits for one that is.
NoneEmpty == \A n \in Nodes : prog[n].kind # "leaf" => prog[n].kids # <<>>

\* In the end the time of a set is that of the leaves below it.
LEMMA ReportedLeaves ==
  ASSUME IInv, Counted, SpentKnown, stack = <<>>, AllMeasured, NoneEmpty
  PROVE  \A n \in Nodes :
           MapThenSumSet(LAMBDA leaf : Total(samples[leaf]), Leaves[n]) = Total(samples[n])
<1> DEFINE M == Len(prog)
           F == [n \in Nodes |-> Total(samples[n])]
<1>1. IInv /\ Counted /\ Done /\ Typed /\ stack = <<>> /\ AddUp(stack, samples)
  BY DoneWhenEmpty DEF Done, SpentKnown
<1>2. M \in Nat /\ Nodes = 1 .. M
  BY <1>1, ProgramNodes
<1>3. \A n \in Nodes : samples[n] \in Seq(Nat) /\ Total(samples[n]) \in Nat
  BY <1>1, TotalNat DEF Done
<1>4. F \in [Nodes -> Nat] /\ \A n \in Nodes : F[n] = Total(samples[n])
  BY <1>3
<1>5. IsFiniteSet(Nodes)
  BY <1>2, FS_Interval
<1>6. PICK f : Sums(f, F, Nodes)
  BY <1>5, SumsExist
<1>7. \A n \in Nodes : Leaves[n] \in SUBSET Nodes
  BY <1>1, LeavesOf
<1> DEFINE S == {n \in Nodes : f[Leaves[n]] = Total(samples[n])}
<1> HIDE DEF F, M
<1>8. f[{}] = 0 /\ \A s \in SUBSET Nodes : f[s] \in Nat /\ \A x \in s : f[s] = F[x] + f[s \ {x}]
  <2>1. F \in [Nodes -> Nat]
    BY <1>4
  <2> QED
    BY <1>5, <1>6, <2>1, SumsRemove
<1>9. ASSUME NEW n \in 1 .. M, \A m \in 1 .. M : m > n => m \in S PROVE n \in S
  <2>0. n \in Nodes
    BY <1>2
  <2>1. CASE prog[n].kind = "leaf"
    <3>1. prog[n].kids = <<>>
      BY <1>1, <2>0, <2>1, ProgramTree
    <3>2. Leaves[n] = {n}
      BY <1>1, <2>0, <3>1, LeavesOf
    <3>3. f[{n}] = F[n] + f[{n} \ {n}]
      <4>1. {n} \in SUBSET Nodes /\ n \in {n}
        BY <2>0
      <4> QED
        BY <1>8, <4>1
    <3>4. {n} \ {n} = {}
      OBVIOUS
    <3>5. f[{n}] = F[n]
      <4>1. f[{n}] = F[n] + f[{}] /\ f[{}] = 0
        BY <1>8, <3>3, <3>4
      <4>2. F[n] \in Nat
        BY <1>4, <2>0
      <4> QED
        BY <4>1, <4>2
    <3> QED
      BY <1>4, <2>0, <3>2, <3>5
  <2>2. CASE prog[n].kind # "leaf"
    <3> DEFINE kids == prog[n].kids
               N == Len(kids)
               s == KidsSpent(stack, samples, n)
               below(j) == UNION {Leaves[kids[k]] : k \in 1 .. j}
               T == {j \in 0 .. N : f[below(j)] = Prefix(s, j)}
    <3>1. kids \in Seq(Nat) /\ kids # <<>>
      BY <1>1, <2>0, <2>2, ProgramNodes DEF NoneEmpty, NodeRecords
    <3>2. N \in Nat /\ DOMAIN kids = 1 .. N /\ N \in 0 .. N
      BY <3>1
    <3>3. \A j \in 1 .. N : kids[j] \in Nodes /\ kids[j] > n
      BY <1>1, <2>0, <3>2, ProgramNodes
    <3>4. Leaves[n] = below(N)
      <4>1. Leaves[n] = UNION {Leaves[kids[k]] : k \in DOMAIN kids}
        BY <1>1, <2>0, <3>1, LeavesOf
      <4> QED
        BY <3>2, <4>1
    <3>5. Total(samples[n]) = Total(s)
      <4>1. Spent(stack, samples, n) = Total(s)
        BY <1>1, <2>0, <2>2 DEF AddUp
      <4>2. Spent(stack, samples, n) = Total(samples[n])
        BY <1>1, <1>3, <2>0 DEF Spent, Open
      <4> QED
        BY <4>1, <4>2
    <3>6. ASSUME NEW j \in 1 .. N PROVE s[j] = f[Leaves[kids[j]]]
      <4>1. s[j] = Spent(stack, samples, kids[j])
        BY <3>2 DEF KidsSpent
      <4>2. Spent(stack, samples, kids[j]) = Total(samples[kids[j]])
        BY <1>1, <1>3, <3>3 DEF Spent, Open
      <4>3. kids[j] \in S
        BY <1>2, <1>9, <3>3
      <4> QED
        BY <4>1, <4>2, <4>3
    <3>7. s \in Seq(Nat) /\ Len(s) = N
      BY <1>1, <2>0, KidsSpentSeq
    <3>8. \A i, j \in 1 .. N : i # j => Leaves[kids[i]] \cap Leaves[kids[j]] = {}
      BY <1>1, <2>0, <3>2, LeavesDisjoint
    <3> HIDE DEF kids, N, s, S
    <3>9. ASSUME NEW j \in 0 .. N PROVE below(j) \in SUBSET Nodes
      <4>1. \A k \in 1 .. j : k \in 1 .. N
        BY <3>2
      <4>2. \A k \in 1 .. j : Leaves[kids[k]] \in SUBSET Nodes
        BY <1>7, <3>3, <4>1
      <4> QED
        BY <4>2
    <3>10. 0 \in T
      <4>1. below(0) = {}
        <5>1. 1 .. 0 = {}
          OBVIOUS
        <5>2. ASSUME NEW x \in below(0) PROVE FALSE
          <6>1. PICK k \in 1 .. 0 : x \in Leaves[kids[k]]
            OBVIOUS
          <6> QED
            BY <5>1
        <5> QED
          BY <5>2
      <4>2. Prefix(s, 0) = 0
        BY <3>7, PrefixSums
      <4>3. f[below(0)] = Prefix(s, 0) /\ 0 \in 0 .. N
        <5> HIDE DEF below
        <5>1. f[below(0)] = f[{}]
          BY <4>1, Zenon
        <5>2. f[{}] = 0
          BY <1>8
        <5>3. 0 \in 0 .. N
          BY <3>2
        <5> QED
          BY <4>2, <5>1, <5>2, <5>3
      <4> QED
        BY <4>3
    <3>11. ASSUME NEW j \in 0 .. N - 1, j \in T PROVE j + 1 \in T
      <4> DEFINE a == below(j)
                 b == Leaves[kids[j + 1]]
                 c == below(j + 1)
      <4>0. j \in Nat /\ j \in 0 .. N /\ j + 1 \in 0 .. N /\ j + 1 \in 1 .. N
        BY <3>2
      <4>1. a \in SUBSET Nodes /\ b \in SUBSET Nodes
        BY <1>7, <3>3, <3>9, <4>0
      <4>2. c = a \cup b
        <5>1. 1 .. j + 1 = (1 .. j) \cup {j + 1}
          BY <4>0
        <5> QED
          BY <5>1
      <4>3. a \cap b = {}
        <5>1. ASSUME NEW k \in 1 .. j PROVE Leaves[kids[k]] \cap Leaves[kids[j + 1]] = {}
          <6>1. k \in 1 .. N /\ k # j + 1
            BY <3>2, <4>0
          <6> QED
            BY <3>8, <4>0, <6>1
        <5> QED
          BY <5>1
      <4>4. f[a] = Prefix(s, j)
        BY <3>11
      <4>5. s[j + 1] = f[b]
        BY <3>6, <4>0
      <4> HIDE DEF a, b, c, T
      <4>6. f[a \cup b] = f[a] + f[b]
        BY <1>4, <1>5, <1>6, <4>1, <4>3, SumsUnion
      <4>7. Prefix(s, j + 1) = Prefix(s, j) + s[j + 1]
        BY <3>7, PrefixSums
      <4>8. f[c] = Prefix(s, j + 1)
        BY <4>2, <4>4, <4>5, <4>6, <4>7
      <4> QED
        BY <4>0, <4>8 DEF T, c
    <3>12. \A j \in 0 .. N : j \in T
      <4> HIDE DEF T
      <4> QED
        BY <3>2, <3>10, <3>11, BoundedInduction
    <3>13. f[below(N)] = Prefix(s, N)
      BY <3>2, <3>12
    <3>14. Prefix(s, N) = Total(s)
      BY <3>7, PrefixSums
    <3> HIDE DEF below
    <3> QED
      BY <2>0, <3>4, <3>5, <3>13, <3>14 DEF S
  <2> QED
    BY <2>1, <2>2
<1>10. \A n \in 1 .. M : n \in S
  <2> HIDE DEF S
  <2> QED
    BY <1>2, <1>9, DownInduction
<1> SUFFICES ASSUME NEW n \in Nodes
             PROVE  MapThenSumSet(LAMBDA leaf : Total(samples[leaf]), Leaves[n]) = Total(samples[n])
  OBVIOUS
<1>11. IsFiniteSet(Leaves[n])
  BY <1>5, <1>7, FS_Subset
<1>12. PICK g : /\ Sums(g, F, Leaves[n])
                /\ MapThenSumSet(LAMBDA leaf : Total(samples[leaf]), Leaves[n]) = g[Leaves[n]]
  BY <1>7, <1>11, LeafSums DEF F
<1>13. g[Leaves[n]] = f[Leaves[n]]
  BY <1>4, <1>5, <1>6, <1>7, <1>12, SumsWithin
<1>14. f[Leaves[n]] = Total(samples[n])
  BY <1>2, <1>10
<1> QED
  BY <1>12, <1>13, <1>14

\* What a run that ends with a report has left.
ReportKept ==
  status = "reported" =>
    /\ stack = <<>> /\ AllMeasured /\ NoneEmpty
    /\ \A n \in Nodes : Total(report[n]) = Total(samples[n])

\* It is left by the last step.
LEMMA KeptStep ==
  IInv /\ Counted /\ SpentKnown /\ CyclesKnown /\ ReportKept /\ [Next]_vars => ReportKept'
<1> SUFFICES ASSUME IInv, Counted, SpentKnown, CyclesKnown, ReportKept, [Next]_vars
             PROVE  ReportKept'
  OBVIOUS
<1> SUFFICES ASSUME status' = "reported"
             PROVE  /\ stack' = <<>> /\ AllMeasured /\ NoneEmpty
                    /\ \A n \in Nodes : Total(report'[n]) = Total(samples'[n])
  <2>1. prog' = prog
    BY EndOfRun
  <2> QED
    BY <2>1 DEF ReportKept, AllMeasured, NoneEmpty, Nodes
<1>1. CASE UNCHANGED vars
  BY <1>1 DEF ReportKept, vars
<1>2. CASE CollectResults
  <2>1. Reported /\ samples' = samples /\ stack = <<>> /\ stack' = stack
        /\ \A n \in Nodes : report'[n] = Results[n].duration
    BY <1>2, CollectedReport DEF CollectResults
  <2>2. \A n \in Nodes : Total(Results[n].duration) = Total(samples[n])
    BY <2>1, ReportedTotals
  <2>3. NoneEmpty
    <3> SUFFICES ASSUME NEW n \in Nodes, prog[n].kind # "leaf" PROVE prog[n].kids # <<>>
      BY DEF NoneEmpty
    <3>1. PICK h : AddedUp(h, n)
      BY <2>1, ReportedSet
    <3>2. Len(prog[n].kids) > 0
      BY <3>1 DEF AddedUp
    <3> QED
      BY <3>2
  <2> QED
    BY <2>1, <2>2, <2>3 DEF Reported
<1> QED
  BY <1>1, <1>2, EndOfRun

\* The durations CollectResults reports for a set add up to the time measured
\* by all the instructions below it, whatever the repetitions and the lists,
\* for any tree and any times.
THEOREM DurationIsAlwaysSum == Spec => []DurationIsSum
<1>1. Init => ReportKept
  BY DEF Init, ReportKept
<1>2. IInv /\ Counted /\ SpentKnown /\ CyclesKnown /\ ReportKept /\ [Next]_vars => ReportKept'
  BY KeptStep
<1>3. IInv /\ Counted /\ SpentKnown /\ ReportKept => DurationIsSum
  <2> SUFFICES ASSUME IInv, Counted, SpentKnown, ReportKept, status = "reported", NEW n \in Nodes
               PROVE  Total(report[n]) = MapThenSumSet(LAMBDA leaf : Total(samples[leaf]), Leaves[n])
    BY DEF DurationIsSum
  <2>1. stack = <<>> /\ AllMeasured /\ NoneEmpty /\ Total(report[n]) = Total(samples[n])
    BY DEF ReportKept
  <2>2. MapThenSumSet(LAMBDA leaf : Total(samples[leaf]), Leaves[n]) = Total(samples[n])
    BY <2>1, ReportedLeaves
  <2> QED
    BY <2>1, <2>2
<1> QED
  BY <1>1, <1>2, <1>3, Invariance, CallsAlwaysCounted, TimesAlwaysAddUp, CyclesAlwaysAddUp, PTL DEF Spec

-----------------------------------------------------------------------------
(* Type correctness *)

\* The durations are natural numbers.
ReportTyped ==
  /\ status \in {"running", "reported", "exited", "undefined"}
  /\ \A n \in Nodes : \A k \in DOMAIN report[n] : report[n][k] \in Nat

\* Only CollectResults reports.
LEMMA ReportStays ==
  ASSUME [Next]_vars
  PROVE  (report' = report /\ status' \in {status, "exited"}) \/ CollectResults
<1>1. CASE SetUpSingle
  BY <1>1 DEF SetUpSingle
<1>2. CASE RunOnce \/ EndOfList \/ EndInstructions
  BY <1>2 DEF RunOnce, EndOfList, EndInstructions
<1>3. CASE NextItem
  BY <1>3 DEF NextItem
<1>4. CASE NotIterable
  BY <1>4 DEF NotIterable
<1>5. CASE CallInstruction
  BY <1>5 DEF CallInstruction
<1>6. CASE TearDownSingle
  BY <1>6 DEF TearDownSingle
<1>7. CASE Return
  BY <1>7 DEF Return
<1>8. ASSUME NEW d \in Durations, RunSingle(d) PROVE report' = report /\ status' = status
  BY <1>8 DEF RunSingle
<1>9. CASE UNCHANGED vars
  BY <1>9 DEF vars
<1> QED
  BY <1>1, <1>2, <1>3, <1>4, <1>5, <1>6, <1>7, <1>8, <1>9 DEF Next

\* One step keeps the report well typed.
LEMMA ReportTypedStep == IInv /\ Counted /\ ReportTyped /\ [Next]_vars => ReportTyped'
<1> SUFFICES ASSUME IInv, Counted, ReportTyped, [Next]_vars PROVE ReportTyped'
  OBVIOUS
<1>1. Nodes' = Nodes
  BY EndOfRun DEF Nodes
<1>2. CASE report' = report /\ status' \in {status, "exited"}
  BY <1>1, <1>2 DEF ReportTyped
<1>3. CASE CollectResults
  <2>1. Done /\ status' = Results[1].outcome /\ Typed
    BY <1>3, DoneWhenEmpty DEF CollectResults, IInv
  <2>2. report' = report \/ report' = [n \in Nodes |-> Results[n].duration]
    BY <1>3 DEF CollectResults
  <2>3. \A n \in Nodes : Results[n] \in Outcomes
    BY <2>1, ResultsOf DEF ResultKnown, Sound
  <2>4. \A n \in Nodes : Results[n].duration \in Seq(Nat) /\ Results[n].outcome \in {"reported", "exited", "undefined"}
    BY <2>3 DEF Outcomes
  <2>5. 1 \in Nodes
    BY <2>1, ProgramNodes
  <2>6. status' \in {"running", "reported", "exited", "undefined"}
    BY <2>1, <2>4, <2>5
  <2>7. ASSUME NEW n \in Nodes, NEW k \in DOMAIN report'[n] PROVE report'[n][k] \in Nat
    <3>1. CASE report' = report
      BY <2>7, <3>1 DEF ReportTyped
    <3>2. CASE report' = [m \in Nodes |-> Results[m].duration]
      <4> DEFINE s == Results[n].duration
      <4>1. s \in Seq(Nat) /\ report'[n] = s
        BY <2>4, <3>2
      <4> HIDE DEF s
      <4> QED
        BY <4>1
    <3> QED
      BY <2>2, <3>1, <3>2
  <2> QED
    BY <1>1, <2>6, <2>7 DEF ReportTyped
<1> QED
  BY <1>2, <1>3, ReportStays

\* Type correctness for every tree and all durations.
THEOREM TypeCorrect == Spec => []TypeOK
<1>1. Init => ReportTyped
  BY DEF Init, ReportTyped
<1>2. IInv /\ Counted /\ ReportTyped /\ [Next]_vars => ReportTyped'
  BY ReportTypedStep
<1>3. IInv /\ Counted /\ ReportTyped => TypeOK
  <2> SUFFICES ASSUME IInv, Counted, ReportTyped PROVE TypeOK
    OBVIOUS
  <2>1. Typed /\ IsProgram(prog)
    BY InstructionSetAssumption DEF IInv, Typed
  <2>2. ASSUME NEW k \in DOMAIN stack
        PROVE  /\ stack[k].node \in Nodes
               /\ stack[k].i \in 0 .. prog[stack[k].node].repeat
               /\ stack[k].stage \in {"loop", "run", "instructions", "teardown"}
               /\ stack[k].item \in 0 .. prog[stack[k].node].list
               /\ stack[k].next \in 1 .. Len(prog[stack[k].node].kids) + 1
    <3>1. stack[k] \in Frames
      BY <2>1 DEF Typed
    <3>2. stack[k].stage \in {"loop", "run", "instructions", "teardown"}
      BY <3>1 DEF Frames
    <3>3. stack[k].node \in Nodes /\ stack[k].i \in 0 .. prog[stack[k].node].repeat
          /\ stack[k].item \in 0 .. prog[stack[k].node].list
      BY DEF IInv, FramesFit, FrameOf
    <3>4. stack[k].next \in 1 .. Len(prog[stack[k].node].kids) + 1
      BY DEF Counted, Chained
    <3> QED
      BY <3>2, <3>3, <3>4
  <2>3. ASSUME NEW n \in Nodes
        PROVE  /\ gen[n] \in Nat /\ rounds[n] \in Nat /\ held[n] \in Nat
               /\ \A k \in DOMAIN samples[n] : samples[n][k] \in Nat
    <3>1. gen[n] \in Nat /\ rounds[n] \in Nat /\ held[n] \in Nat
      BY <2>1 DEF Typed
    <3> DEFINE s == samples[n]
    <3>2. s \in Seq(Nat)
      BY DEF Counted
    <3> HIDE DEF s
    <3>3. \A k \in DOMAIN s : s[k] \in Nat
      BY <3>2
    <3> QED
      BY <3>1, <3>3 DEF s
  <2> QED
    BY <2>1, <2>2, <2>3 DEF TypeOK, ReportTyped
<1> QED
  BY <1>1, <1>2, <1>3, Invariance, CallsAlwaysCounted, PTL DEF Spec
=============================================================================
