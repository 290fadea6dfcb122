------------------------------ MODULE Histogram ------------------------------
(***************************************************************************)
(* The arithmetic of the histograms of a Result: the unit chosen from the  *)
(* smallest sample, the size of a bin, and the bin of every sample.        *)
(***************************************************************************)
EXTENDS Integers, Sequences, FiniteSets

CONSTANTS Height,       \* kMaxHistogramHeight
          IntMax,       \* the largest int
          Units         \* measurement -> its units, smallest first: an upper
                        \* bound of the smallest sample, and dividing_factor

ASSUME HistogramAssumption ==
  /\ Height \in Nat \ {0}
  /\ IntMax \in Nat \ {0}
  /\ \A m \in DOMAIN Units :
       /\ DOMAIN Units[m] = 1..Len(Units[m]) /\ Len(Units[m]) \in Nat \ {0}
       /\ \A u \in 1..Len(Units[m]) :
            Units[m][u].upTo \in Int /\ Units[m][u].factor \in Nat \ {0}

\* GetTimeUnit, GetBandwidthUnit: the first unit whose bound is not exceeded,
\* or the last one.
UnitOf(m, min) ==
  LET last == Len(Units[m])
      fits(u) == u = last \/ min <= Units[m][u].upTo
  IN  CHOOSE u \in 1..last : fits(u) /\ \A v \in 1..(u - 1) : ~fits(v)

Factor(m, min) == Units[m][UnitOf(m, min)].factor

\* A conversion from int64_t to int.
ToInt(x) == ((x + IntMax + 1) % (2 * (IntMax + 1))) - (IntMax + 1)

\* Mutant of BinSize: the last bin is left out.
BinSizeFlat(min, max) == ToInt((max - min) \div Height)

\* The static bin_size, for samples between min and max in the chosen unit.
BinSize(min, max) == ToInt((max - min) \div Height + 1)

\* ComputeNormalizedFrequencyVector: the bin of a sample.
Bin(s, min, size) == (s - min) \div size

\* The bin size of samples v of measurement m, whose extremes are min, max.
SizeFor(m, min, max) ==
  LET f == Factor(m, min) IN BinSize(min \div f, max \div f)

\* The bin of sample s, after both have been converted to the unit.
SampleBin(m, s, min, max) ==
  LET f == Factor(m, min) IN Bin(s \div f, min \div f, SizeFor(m, min, max))

\* A division by zero or a bin beyond the vector ends or corrupts the program.
Defined(m, v, min, max) ==
  /\ SizeFor(m, min, max) > 0
  /\ \A i \in DOMAIN v : SampleBin(m, v[i], min, max) \in 0..(Height - 1)

\* The frequency vector.
Frequencies(m, v, min, max) ==
  [b \in 0..(Height - 1) |->
     Cardinality({i \in DOMAIN v : SampleBin(m, v[i], min, max) = b})]
=============================================================================
