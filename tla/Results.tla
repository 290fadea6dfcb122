------------------------------- MODULE Results -------------------------------
(***************************************************************************)
(* From the samples of a tree of instructions to what is printed: the      *)
(* CollectResults of every instruction, the statistics, the way of a       *)
(* forked child's result through its protocol buffer, and Result::Print.   *)
(*                                                                         *)
(*   program   the tree: each instruction's kind, samples and children.    *)
(*             Kinds are "leaf", "rw" (which also measures bandwidth),     *)
(*             "group" (instruction set or threads) and "fork"             *)
(*   pc        "collect", "print", "done", or "fatal" after a LOGF         *)
(*   result    the Result of the root                                      *)
(*   mode, out the results_output, and what was printed                    *)
(*                                                                         *)
(* An instruction is identified by its path of child indices.  Samples are *)
(* integers; a mean is kept as sum and number, a median as its double.     *)
(***************************************************************************)
EXTENDS Histogram, SequencesExt

CONSTANT Programs       \* the trees

VARIABLES program, pc, result, mode, out

vars == <<program, pc, result, mode, out>>

Names == <<"bandwidth", "duration">>    \* in the order of a std::map

-----------------------------------------------------------------------------
(* statistics.h; none of the functions accepts an empty vector *)

Sum(v) == FoldSeq(LAMBDA x, y : x + y, 0, v)

\* Twice the median: the middle sample, or the mean of the two in the middle.
Median2(v) ==
  LET s == SortSeq(v, <)
      n == Len(v)
  IN  IF n % 2 = 1 THEN 2 * s[n \div 2 + 1]
      ELSE s[n \div 2 + 1] + s[(n - 1) \div 2 + 1]

\* AnalyseMeasurement; the deviation as n^3 times its square.
Statistics(v) ==
  LET n == Len(v)
      sum == Sum(v)
  IN  [min |-> Min(Range(v)), max |-> Max(Range(v)), n |-> n, sum |-> sum,
       median2 |-> Median2(v),
       sd |-> Sum([i \in 1..n |-> (n * v[i] - sum) * (n * v[i] - sum)])]

-----------------------------------------------------------------------------
(* CollectResults *)

Fatal == [ok |-> FALSE]

EmptyPb == [metrics |-> <<>>, subs |-> <<>>]

\* ToPb and __ToPb: the statistics only.
RECURSIVE ToPb(_)
ToPb(r) == [metrics |-> r.stats, subs |-> [i \in DOMAIN r.subs |-> ToPb(r.subs[i])]]

\* Mutant of FromPb: only the first level is read back.
FromPbFlat(pb) ==
  [ok |-> TRUE, samples |-> <<>>, stats |-> pb.metrics, subs |-> <<>>]

RECURSIVE FromPb(_)
FromPb(pb) ==
  [ok |-> TRUE, samples |-> <<>>, stats |-> pb.metrics,
   subs |-> [i \in DOMAIN pb.subs |-> FromPb(pb.subs[i])]]

\* AddMeasurement of every sampler finds samples.
Measured(p) == \A m \in DOMAIN p.samples : p.samples[m] # <<>>

\* What the manager reads from a child's pipe: nothing if the child ended in
\* a LOGF, and zero bytes are a valid message.
Received(r) == FromPb(IF r.ok THEN ToPb(r) ELSE EmptyPb)

\* A LOGF in a forked child ends that child only.
RECURSIVE CollectResults(_)
CollectResults(p) ==
  LET subs == [i \in DOMAIN p.subs |->
                 LET r == CollectResults(p.subs[i])
                 IN  IF p.kind = "fork" THEN Received(r) ELSE r]
  IN  IF Measured(p) /\ \A i \in DOMAIN subs : subs[i].ok
        THEN [ok |-> TRUE, samples |-> p.samples,
              stats |-> [m \in DOMAIN p.samples |-> Statistics(p.samples[m])],
              subs |-> subs]
        ELSE Fatal

-----------------------------------------------------------------------------
(* Print *)

\* The measurements with samples here, in their order.
Local(r) == SelectSeq(Names, LAMBDA m : m \in DOMAIN r.samples)

Histogram(r, path, m) ==
  LET st == r.stats[m]
      v == r.samples[m]
      defined == Defined(m, v, st.min, st.max)
  IN  [path |-> path, name |-> m, defined |-> defined,
       freq |-> IF defined THEN Frequencies(m, v, st.min, st.max) ELSE <<>>]

\* PrintHistograms: the sub-results are printed after each measurement.
RECURSIVE PrintHistograms(_, _)
PrintHistograms(r, path) ==
  LET below == FlattenSeq([i \in DOMAIN r.subs |-> PrintHistograms(r.subs[i], Append(path, i))])
      names == Local(r)
  IN  FlattenSeq([k \in DOMAIN names |-> <<Histogram(r, path, names[k])>> \o below])

\* Mutant of GetMeasurementsNames: the names of this node only.
OwnNames(r) == DOMAIN r.samples

RECURSIVE GetMeasurementsNames(_)
GetMeasurementsNames(r) ==
  DOMAIN r.samples \cup UNION {GetMeasurementsNames(r.subs[i]) : i \in DOMAIN r.subs}

\* Mutant of TableRows: the rows of the sub-results are left out.
TableRowsFlat(r, path, m) ==
  IF m \in DOMAIN r.samples THEN <<[path |-> path, name |-> m, stats |-> r.stats[m]]>> ELSE <<>>

\* PrintStatisticsTableContent: a row for every node that has samples.
RECURSIVE TableRows(_, _, _)
TableRows(r, path, m) ==
  (IF m \in DOMAIN r.samples THEN <<[path |-> path, name |-> m, stats |-> r.stats[m]]>> ELSE <<>>)
  \o FlattenSeq([i \in DOMAIN r.subs |-> TableRows(r.subs[i], Append(path, i), m)])

PrintStatisticsTables(r) ==
  LET names == SelectSeq(Names, LAMBDA m : m \in GetMeasurementsNames(r))
  IN  FlattenSeq([k \in DOMAIN names |-> TableRows(r, <<>>, names[k])])

\* PrintStatisticInCsv: one row for every node, a cell for every name in the
\* header, empty where the node has no such statistic.
Blank == [n |-> 0]
RECURSIVE CsvRows(_, _, _)
CsvRows(r, path, names) ==
  <<[path |-> path, cells |-> [m \in names |-> IF m \in DOMAIN r.stats THEN r.stats[m] ELSE Blank]]>>
  \o FlattenSeq([i \in DOMAIN r.subs |-> CsvRows(r.subs[i], Append(path, i), names)])

MakeStatisticsCsv(r) == CsvRows(r, <<>>, GetMeasurementsNames(r))

-----------------------------------------------------------------------------
Init ==
  /\ program \in Programs
  /\ pc = "collect"
  /\ result = Fatal
  /\ mode \in {"report", "csv", "pb", "null"}
  /\ out = <<>>

Collect ==
  /\ pc = "collect"
  /\ result' = CollectResults(program)
  /\ pc' = IF result'.ok THEN "print" ELSE "fatal"
  /\ UNCHANGED <<program, mode, out>>

PrintResult ==
  /\ pc = "print"
  /\ out' = CASE mode = "report" -> [histograms |-> PrintHistograms(result, <<>>),
                                     rows |-> PrintStatisticsTables(result)]
              [] mode = "csv"    -> MakeStatisticsCsv(result)
              [] mode = "pb"     -> ToPb(result)
              [] mode = "null"   -> <<>>
  /\ pc' = "done"
  /\ UNCHANGED <<program, mode, result>>

Next == Collect \/ PrintResult

Spec == Init /\ [][Next]_vars

-----------------------------------------------------------------------------
(* Properties *)

\* The paths of a tree, and the node at a path.
RECURSIVE Paths(_)
Paths(p) ==
  {<<>>} \cup UNION {{<<i>> \o q : q \in Paths(p.subs[i])} : i \in DOMAIN p.subs}
RECURSIVE At(_, _)
At(p, path) == IF path = <<>> THEN p ELSE At(p.subs[Head(path)], Tail(path))

\* The first instruction of the process that measures the one at path: the
\* last one on the way to it that was forked, or the root.
ProcessOf(path) ==
  LET forked(k) == k > 0 /\ At(program, SubSeq(path, 1, k - 1)).kind = "fork"
  IN  SubSeq(path, 1, Max({0} \cup {k \in 0..Len(path) : forked(k)}))

Remote(path) == ProcessOf(path) # <<>>

\* A process that collects results of an instruction without samples fails,
\* and with it everything its result holds is lost.
Fails(process) ==
  \E q \in Paths(program) : ProcessOf(q) = process /\ ~Measured(At(program, q))
Lost(path) == \E k \in 0..Len(path) : Fails(ProcessOf(SubSeq(path, 1, k)))

\* Every instruction of this process that was measured has exactly one
\* histogram and one table row for each of its measurements, although
\* sub-results are printed inside the loop over the measurements (only what
\* has no sub-results, read_file and write_file, measures two things); those of
\* forked processes have none.
PrintedOnce ==
  pc = "done" /\ mode = "report" =>
    \A path \in Paths(program) : \A m \in Range(Names) :
      LET printed(s) == Cardinality({k \in DOMAIN s : s[k].path = path /\ s[k].name = m})
          expected == IF m \in DOMAIN At(program, path).samples /\ ~Remote(path) THEN 1 ELSE 0
      IN  printed(out.histograms) = expected /\ printed(out.rows) = expected

\* Every sample lands in a bin of the vector, and none is lost or counted
\* twice, except where the bin size does not fit in an int.
BinsHold ==
  pc = "done" /\ mode = "report" =>
    \A k \in DOMAIN out.histograms :
      LET h == out.histograms[k]
          v == At(program, h.path).samples[h.name]
          f == Factor(h.name, Min(Range(v)))
          size == (Max(Range(v)) \div f - Min(Range(v)) \div f) \div Height + 1
      IN  /\ size <= IntMax => h.defined
          /\ h.defined => Len(v) = Sum([b \in 1..Height |-> h.freq[b - 1]])

\* The median splits the samples in half.
Halves(v, median2) ==
  /\ 2 * Cardinality({i \in DOMAIN v : 2 * v[i] < median2}) <= Len(v)
  /\ 2 * Cardinality({i \in DOMAIN v : 2 * v[i] > median2}) <= Len(v)

\* What every process measured is in the result of the root, unchanged by
\* however many protocol buffers it went through, except for the processes
\* that ended in a LOGF because an instruction of theirs never ran: these are
\* lost as a whole, silently unless it is the manager itself.
StatisticsSurvive ==
  pc # "collect" =>
    /\ pc = "fatal" <=> Lost(<<>>)
    /\ pc # "fatal" => \A path \in Paths(program) :
         IF Lost(path)
           THEN path \in Paths(result) => At(result, path).stats = <<>>
           ELSE LET v == At(program, path).samples
                    st == At(result, path).stats
                IN  /\ path \in Paths(result) /\ DOMAIN st = DOMAIN v
                    /\ \A m \in DOMAIN v : st[m] = Statistics(v[m]) /\ Halves(v[m], st[m].median2)

\* The CSV has every statistic of every instruction, except a measurement
\* that no process but forked ones has taken: its columns are missing.
CsvLosesOnlyRemote ==
  pc = "done" /\ mode = "csv" =>
    \A path \in Paths(result) : \A m \in DOMAIN At(result, path).stats :
      \/ \E k \in DOMAIN out :
           out[k].path = path /\ m \in DOMAIN out[k].cells
             /\ out[k].cells[m] = At(result, path).stats[m]
      \/ \A q \in Paths(program) : m \in DOMAIN At(program, q).samples => Remote(q)
=============================================================================
