------------------------ MODULE FileInstructionsProofs ------------------------
(***************************************************************************)
(* The file instructions for any number of threads and paths, any options  *)
(* and any descriptor limit: descriptors stay with the thread that opened  *)
(* them, the units of a transfer lie inside the file and cover it once,    *)
(* and a transfer is short only after a cut.                               *)
(***************************************************************************)
EXTENDS FileInstructions, FiniteSetTheorems, SequenceTheorems, WellFoundedInduction, TLAPS

-----------------------------------------------------------------------------
(* Induction over the natural numbers, for sets of numbers *)

\* A non-empty set of natural numbers has a least element.
LEMMA LeastNatural ==
  ASSUME NEW T \in SUBSET Nat, T # {}
  PROVE  \E x \in T : \A y \in T : x <= y
<1> DEFINE R == OpToRel(<, Nat)
<1>1. IsWellFoundedOn(R, Nat)
  BY NatLessThanWellFounded
<1>2. PICK x \in T : \A y \in T : ~ (<<y, x>> \in R)
  BY <1>1, WFMin, Zenon
<1>3. ASSUME NEW y \in T PROVE x <= y
  <2>1. y < x => <<y, x>> \in R
    BY DEF OpToRel
  <2>2. ~ (y < x)
    BY <1>2, <2>1
  <2> QED
    BY <2>2
<1> QED
  BY <1>3

\* A set of natural numbers with 0 and every successor has them all.
LEMMA SetInduction ==
  ASSUME NEW S \in SUBSET Nat, 0 \in S, \A n \in S : n + 1 \in S
  PROVE  S = Nat
<1> SUFFICES ASSUME Nat \ S # {} PROVE FALSE
  OBVIOUS
<1>1. PICK x \in Nat \ S : \A y \in Nat \ S : x <= y
  BY LeastNatural
<1>2. x - 1 \in S
  BY <1>1
<1> QED
  BY <1>1, <1>2

-----------------------------------------------------------------------------
(* The kernel *)

\* The lowest of some descriptors is one of them.
LEMMA LowestIn ==
  ASSUME NEW S \in SUBSET Fds, S # {}
  PROVE  Lowest(S) \in S
<1>1. S \in SUBSET Nat
  BY FileInstructionsAssumption DEF Fds
<1>2. \E d \in S : \A e \in S : d <= e
  BY <1>1, LeastNatural
<1> QED
  BY <1>2, Zenon DEF Lowest

\* A function takes at most as many values as it has arguments.
LEMMA ImageCardinality ==
  ASSUME NEW S, IsFiniteSet(S), NEW f
  PROVE  LET T == {f[x] : x \in S}
         IN  IsFiniteSet(T) /\ Cardinality(T) <= Cardinality(S)
<1> DEFINE T == {f[x] : x \in S}
           g == [x \in S |-> f[x]]
<1>1. g \in Surjection(S, T)
  BY DEF Surjection
<1> HIDE DEF T, g
<1>2. IsFiniteSet(T) /\ Cardinality(T) <= Cardinality(S)
  BY <1>1, FS_Surjection
<1> QED
  BY <1>2 DEF T

\* There are enough files for open() to create one while a name is without a
\* file and a descriptor is free.
LEMMA UnusedExists ==
  ASSUME NEW q \in Paths, dir[q] = NoFile,
         NEW e \in Fds, fds[e] = Closed
  PROVE  /\ Unused \in Files
         /\ \A p \in Paths : dir[p] # Unused
         /\ \A d \in Fds : fds[d] # Unused
<1> DEFINE P == Paths \ {q}
           D == Fds \ {e}
           Named == {dir[p] : p \in P}
           Opened == {fds[d] : d \in D}
<1>1. /\ IsFiniteSet(Paths) /\ Cardinality(Paths) \in Nat /\ MaxFd \in Nat
      /\ IsFiniteSet(P) /\ Cardinality(P) = Cardinality(Paths) - 1
  BY FileInstructionsAssumption, FS_CardinalityType, FS_RemoveElement
<1>2. IsFiniteSet(Fds) /\ Cardinality(Fds) = MaxFd + 1
  <2>1. IsFiniteSet(0 .. MaxFd) /\ Cardinality(0 .. MaxFd) = IF 0 > MaxFd THEN 0 ELSE MaxFd - 0 + 1
    BY <1>1, FS_Interval, SMTT(40)
  <2> QED
    BY <2>1, <1>1 DEF Fds
<1>3. IsFiniteSet(D) /\ Cardinality(D) = MaxFd
  <2>1. /\ IsFiniteSet(Fds \ {e})
        /\ Cardinality(Fds \ {e}) = IF e \in Fds THEN Cardinality(Fds) - 1 ELSE Cardinality(Fds)
    BY <1>2, FS_RemoveElement, Zenon
  <2> QED
    BY <1>1, <1>2, <2>1
<1>4. IsFiniteSet(Files) /\ Cardinality(Files) = Cardinality(Paths) + MaxFd
  <2> DEFINE n == Cardinality(Paths) + MaxFd
  <2>1. n \in Nat
    BY <1>1
  <2> HIDE DEF n
  <2>2. IsFiniteSet(1 .. n) /\ Cardinality(1 .. n) = IF 1 > n THEN 0 ELSE n - 1 + 1
    BY <2>1, FS_Interval
  <2>3. Cardinality(1 .. n) = n
    BY <2>1, <2>2
  <2> QED
    BY <2>2, <2>3 DEF Files, n
<1>5. IsFiniteSet(Named) /\ Cardinality(Named) <= Cardinality(Paths) - 1
  BY <1>1, ImageCardinality
<1>6. IsFiniteSet(Opened) /\ Cardinality(Opened) <= MaxFd
  BY <1>3, ImageCardinality
<1> HIDE DEF Named, Opened
<1>7. /\ IsFiniteSet(Named \cup Opened)
      /\ Cardinality(Named \cup Opened) <= Cardinality(Named) + Cardinality(Opened)
  <2>1. /\ IsFiniteSet(Named \cup Opened) /\ IsFiniteSet(Named \cap Opened)
        /\ Cardinality(Named \cup Opened)
             = Cardinality(Named) + Cardinality(Opened) - Cardinality(Named \cap Opened)
    BY <1>5, <1>6, FS_Union, FS_Intersection
  <2>2. Cardinality(Named \cap Opened) \in Nat /\ Cardinality(Named) \in Nat /\ Cardinality(Opened) \in Nat
    BY <1>5, <1>6, <2>1, FS_CardinalityType
  <2> QED
    BY <2>1, <2>2
<1>8. ~ (Files \subseteq Named \cup Opened)
  <2> SUFFICES ASSUME Files \subseteq Named \cup Opened PROVE FALSE
    OBVIOUS
  <2>1. Cardinality(Files) <= Cardinality(Named \cup Opened)
    BY <1>7, FS_Subset
  <2>2. Cardinality(Named \cup Opened) \in Nat /\ Cardinality(Named) \in Nat /\ Cardinality(Opened) \in Nat
    BY <1>5, <1>6, <1>7, FS_CardinalityType
  <2> QED
    BY <2>1, <2>2, <1>1, <1>4, <1>5, <1>6, <1>7
<1>9. NoFile \notin Files /\ Closed \notin Files
  BY <1>1 DEF NoFile, Closed, Files
<1>10. \E f \in Files : (\A p \in Paths : dir[p] # f) /\ (\A d \in Fds : fds[d] # f)
  BY <1>8, <1>9 DEF Named, Opened
<1> QED
  BY <1>10, Zenon DEF Unused

-----------------------------------------------------------------------------
(* The units of a sequential access *)

\* f lays out n units the way Sequential says.
LaysOut(f, n, start, block, file_size) ==
  f = [i \in 1..n |-> Wrapped(IF i = 1 THEN start ELSE f[i - 1] + block, block, file_size)]

\* There is such a layout, so that Sequential is one.
LEMMA SequentialLaysOut ==
  ASSUME NEW start, NEW block, NEW file_size, NEW n \in Nat
  PROVE  LaysOut(Sequential(n, start, block, file_size), n, start, block, file_size)
<1> DEFINE Is(f, m) == LaysOut(f, m, start, block, file_size)
           S == {m \in Nat : \E f : Is(f, m)}
<1>1. 0 \in S
  <2> DEFINE g == [i \in 1..0 |-> 0]
  <2>1. Is(g, 0)
    BY DEF LaysOut
  <2> QED
    BY <2>1
<1>2. ASSUME NEW m \in S PROVE m + 1 \in S
  <2>1. PICK f : Is(f, m)
    OBVIOUS
  <2> DEFINE last == Wrapped(IF m + 1 = 1 THEN start ELSE f[m] + block, block, file_size)
             g == [i \in 1..(m + 1) |-> IF i = m + 1 THEN last ELSE f[i]]
  <2>2. ASSUME NEW i \in 1..(m + 1)
        PROVE  g[i] = Wrapped(IF i = 1 THEN start ELSE g[i - 1] + block, block, file_size)
    <3>1. CASE i = m + 1
      BY <3>1
    <3>2. CASE i # m + 1
      <4>1. i \in 1..m /\ g[i] = f[i] /\ (i # 1 => g[i - 1] = f[i - 1])
        BY <3>2
      <4>2. f[i] = Wrapped(IF i = 1 THEN start ELSE f[i - 1] + block, block, file_size)
        BY <2>1, <4>1 DEF LaysOut
      <4> QED
        BY <4>1, <4>2
    <3> QED
      BY <3>1, <3>2
  <2>3. Is(g, m + 1)
    BY <2>2 DEF LaysOut
  <2> HIDE DEF g
  <2> QED
    BY <2>3
<1> HIDE DEF S
<1>3. S = Nat
  BY <1>1, <1>2, SetInduction DEF S
<1>4. \E f : LaysOut(f, n, start, block, file_size)
  BY <1>3 DEF S
<1>5. Sequential(n, start, block, file_size) =
        CHOOSE f : LaysOut(f, n, start, block, file_size)
  BY Zenon DEF Sequential, LaysOut
<1> QED
  BY <1>4, <1>5, Zenon

\* Its values, one by one.
LEMMA SequentialUnits ==
  ASSUME NEW start, NEW block, NEW file_size, NEW n \in Nat
  PROVE  LET f == Sequential(n, start, block, file_size)
         IN  /\ DOMAIN f = 1..n
             /\ f = [i \in 1..n |-> f[i]]
             /\ n > 0 => f[1] = Wrapped(start, block, file_size)
             /\ \A i \in 1..n : i + 1 \in 1..n =>
                  f[i + 1] = Wrapped(f[i] + block, block, file_size)
<1> DEFINE f == Sequential(n, start, block, file_size)
<1>1. LaysOut(f, n, start, block, file_size)
  BY SequentialLaysOut
<1> HIDE DEF f
<1>2. DOMAIN f = 1..n /\ f = [i \in 1..n |-> f[i]]
  BY <1>1 DEF LaysOut
<1>3. \A i \in 1..n : f[i] = Wrapped(IF i = 1 THEN start ELSE f[i - 1] + block, block, file_size)
  BY <1>1, Zenon DEF LaysOut
<1>4. n > 0 => f[1] = Wrapped(start, block, file_size)
  BY <1>3
<1>5. ASSUME NEW i \in 1..n, i + 1 \in 1..n
      PROVE  f[i + 1] = Wrapped(f[i] + block, block, file_size)
  <2>1. f[i + 1] = Wrapped(IF i + 1 = 1 THEN start ELSE f[i + 1 - 1] + block, block, file_size)
    BY <1>3, <1>5
  <2>2. i + 1 # 1 /\ i + 1 - 1 = i
    OBVIOUS
  <2> QED
    BY <2>1, <2>2
<1> QED
  BY <1>2, <1>4, <1>5 DEF f

\* Every unit lies inside the file.
LEMMA SequentialInside ==
  ASSUME NEW start \in Nat, NEW block \in Nat, NEW file_size \in Nat,
         block <= file_size, NEW n \in Nat
  PROVE  Sequential(n, start, block, file_size) \in [1..n -> 0 .. file_size - block]
<1> DEFINE f == Sequential(n, start, block, file_size)
           S == {m \in Nat : m + 1 \in 1..n => f[m + 1] \in 0 .. file_size - block}
<1> HIDE DEF f
<1>1. /\ DOMAIN f = 1..n
      /\ f = [i \in 1..n |-> f[i]]
      /\ n > 0 => f[1] = Wrapped(start, block, file_size)
      /\ \A i \in 1..n : i + 1 \in 1..n => f[i + 1] = Wrapped(f[i] + block, block, file_size)
  BY SequentialUnits DEF f
<1>2. 0 \in S
  BY <1>1 DEF Wrapped
<1>3. ASSUME NEW m \in S PROVE m + 1 \in S
  <2>1. SUFFICES ASSUME m + 1 + 1 \in 1..n
                 PROVE  f[m + 1 + 1] \in 0 .. file_size - block
    OBVIOUS
  <2>2. m + 1 \in 1..n /\ f[m + 1] \in 0 .. file_size - block
    BY <2>1
  <2>3. f[m + 1 + 1] = Wrapped(f[m + 1] + block, block, file_size)
    BY <1>1, <2>1, <2>2
  <2> QED
    BY <2>2, <2>3 DEF Wrapped
<1> HIDE DEF S
<1>4. S = Nat
  BY <1>2, <1>3, SetInduction DEF S
<1>5. ASSUME NEW i \in 1..n PROVE f[i] \in 0 .. file_size - block
  <2>1. i - 1 \in S /\ i - 1 + 1 = i
    BY <1>4
  <2> QED
    BY <2>1 DEF S
<1> QED
  BY <1>1, <1>5 DEF f

\* The whole file, from any block on, in blocks that divide it: every block is
\* a unit, and no two units are the same.
LEMMA SequentialOnce ==
  ASSUME NEW start \in Nat, NEW block \in Nat, NEW file_size \in Nat,
         0 < block, block <= file_size,
         file_size % block = 0, start % block = 0
  PROVE  LET n == Blocks(file_size, block)
             f == Sequential(n, start, block, file_size)
         IN  /\ n \in Nat /\ n * block = file_size
             /\ \A j, k \in 1..n : f[j] = f[k] => j = k
<1> DEFINE n == Blocks(file_size, block)
           f == Sequential(n, start, block, file_size)
           s == start \div block
<1> HIDE DEF f, s, n
<1>1. n \in Nat /\ s \in Nat /\ file_size = block * n /\ start = block * s
  BY DEF n, s, Blocks
<1>2. n > 0
  BY <1>1
<1>3. /\ f[1] = Wrapped(start, block, file_size)
      /\ \A i \in 1..n : i + 1 \in 1..n => f[i + 1] = Wrapped(f[i] + block, block, file_size)
  BY <1>1, <1>2, SequentialUnits, SMTT(40) DEF f
<1>4. /\ \A a, b \in Nat : a <= b => block * a <= block * b
      /\ \A a, b \in Nat : a < b => block * a < block * b
      /\ \A a \in Nat : block * (a + 1) = block * a + block
  <2>1. ASSUME NEW a \in Nat, NEW b \in Nat
        PROVE  (a <= b => block * a <= block * b) /\ (a < b => block * a < block * b)
    BY SMT
  <2>2. \A a \in Nat : block * (a + 1) = block * a + block
    BY SMT
  <2> QED
    BY <2>1, <2>2
<1> DEFINE k0 == IF s < n THEN s ELSE 0
           At_(i) == IF k0 + i < n THEN k0 + i ELSE k0 + i - n
           S == {m \in Nat : m < n => f[m + 1] = block * At_(m)}
<1>5. k0 \in 0 .. n - 1
  BY <1>1, <1>2
<1>6. file_size - block = block * (n - 1)
  <2>1. n - 1 \in Nat /\ block * (n - 1 + 1) = block * (n - 1) + block
    BY <1>1, <1>2, <1>4
  <2> QED
    BY <1>1, <1>2, <2>1
<1>7. 0 \in S
  <2>1. CASE s < n
    <3>1. s <= n - 1
      BY <2>1, <1>1
    <3>2. block * s <= block * (n - 1)
      BY <3>1, <1>1, <1>2, <1>4
    <3> QED
      BY <3>2, <1>1, <1>3, <1>6, <2>1 DEF Wrapped
  <2>2. CASE ~(s < n)
    <3>1. n - 1 < s
      BY <2>2, <1>1
    <3>2. block * (n - 1) < block * s
      BY <3>1, <1>1, <1>2, <1>4
    <3> QED
      BY <3>2, <1>1, <1>2, <1>3, <1>6, <2>2 DEF Wrapped
  <2> QED
    BY <2>1, <2>2
<1> HIDE DEF k0
<1>8. ASSUME NEW m \in S PROVE m + 1 \in S
  <2> SUFFICES ASSUME m + 1 < n PROVE f[m + 1 + 1] = block * At_(m + 1)
    OBVIOUS
  <2>1. m \in Nat /\ f[m + 1] = block * At_(m)
    BY <1>1
  <2>2. f[m + 1 + 1] = Wrapped(f[m + 1] + block, block, file_size)
    BY <1>1, <1>3, <2>1
  <2>3. At_(m) \in 0 .. n - 1
    BY <1>1, <1>5, <2>1
  <2>4. CASE At_(m) = n - 1
    <3>1. f[m + 1] + block > file_size - block
      BY <1>6, <2>1, <2>4
    <3>2. At_(m + 1) = 0
      BY <1>1, <1>5, <2>1, <2>4
    <3> QED
      BY <2>2, <3>1, <3>2 DEF Wrapped
  <2>5. CASE At_(m) # n - 1
    <3>1. At_(m + 1) = At_(m) + 1 /\ At_(m) + 1 <= n - 1
      BY <1>1, <1>5, <2>1, <2>3, <2>5
    <3> HIDE DEF At_
    <3>2. block * (At_(m) + 1) = f[m + 1] + block
      BY <1>4, <2>1, <2>3
    <3>3. block * (At_(m) + 1) <= block * (n - 1)
      BY <1>1, <1>2, <1>4, <2>3, <3>1
    <3>4. block * (At_(m) + 1) \in Nat /\ file_size - block \in Int
      BY <2>3
    <3>5. ~(f[m + 1] + block > file_size - block)
      BY <1>6, <3>2, <3>3, <3>4
    <3>6. f[m + 1 + 1] = block * (At_(m) + 1)
      BY <2>2, <3>2, <3>5 DEF Wrapped
    <3> QED
      BY <3>1, <3>6
  <2> QED
    BY <2>4, <2>5
<1>9. S = Nat
  <2> HIDE DEF S
  <2> QED
    BY <1>7, <1>8, SetInduction DEF S
<1>10. ASSUME NEW i \in 1..n
       PROVE  f[i] = block * At_(i - 1) /\ At_(i - 1) \in 0 .. n - 1
  <2>1. i - 1 \in S /\ i - 1 + 1 = i
    BY <1>1, <1>9
  <2> QED
    BY <1>1, <1>5, <2>1
<1>11. ASSUME NEW j \in 1..n, NEW k \in 1..n, f[j] = f[k]
       PROVE  j = k
  <2>1. At_(j - 1) = At_(k - 1)
    <3>1. block * At_(j - 1) = block * At_(k - 1)
      BY <1>10, <1>11
    <3>2. At_(j - 1) \in Nat /\ At_(k - 1) \in Nat
      BY <1>10
    <3> HIDE DEF At_
    <3>3. ~(At_(j - 1) < At_(k - 1)) /\ ~(At_(k - 1) < At_(j - 1))
      BY <1>4, <3>1, <3>2
    <3> QED
      BY <3>2, <3>3
  <2> QED
    BY <1>1, <1>5, <2>1
<1>12. n * block = file_size
  BY <1>1
<1> QED
  BY <1>1, <1>11, <1>12 DEF f, n

-----------------------------------------------------------------------------
(* The inductive invariant *)

ThreadRecords ==
  [stage : Stages, left : 0 .. MaxInstructions, file : Files \cup {NoFile},
   path : Paths \cup {NoFile}, fd : Fds, i : Nat, options : Transfers \cup {NoFile},
   size_ : Nat \cup {-1}, block_size_ : Nat \cup {-1}, file_size : Nat,
   units_ : Seq(Nat), moved : Nat, shrunk : BOOLEAN, short : BOOLEAN]

\* TypeOK, with a thread's record as a whole.
Typed ==
  /\ dir \in [Paths -> Files \cup {NoFile}]
  /\ size \in [Files -> Nat]
  /\ fds \in [Fds -> Files \cup {Other, Closed}]
  /\ var \in [Threads -> Fds]
  /\ th \in [Threads -> ThreadRecords]
  /\ status \in {"running", "exited", "crashed"}

\* No two threads have the same descriptor, be it in their variable or the one
\* invalidate_cache works with.
Owned ==
  \A t, u \in Threads : t # u =>
    /\ HasFile(t) /\ HasFile(u) => var[t] # var[u]
    /\ th[t].stage = "invalidate" /\ th[u].stage = "invalidate" => th[t].fd # th[u].fd

\* What a thread in the middle of an instruction has read before.
Staged ==
  \A t \in Threads :
    /\ th[t].stage = "open" => th[t].path \in Paths
    /\ th[t].stage = "invalidate" => fds[th[t].fd] = Other
    /\ th[t].stage \in {"close", "resize", "transfer", "units"} => HasFile(t)
    /\ th[t].stage \in {"close", "resize", "units"} => th[t].fd = var[t]
    /\ th[t].stage \in {"transfer", "units"} => th[t].options \in Transfers
    /\ th[t].stage = "units" => th[t].block_size_ \in Nat

\* WholeFileOnce, for the record r of one thread.
WholeOnce(r) ==
  /\ r.stage = "units" /\ r.moved = 0
  /\ r.options.order = "sequential" /\ r.options.size = -1
  /\ Divides(r.block_size_, r.file_size)
  /\ Divides(r.block_size_, r.options.starting_offset)
  => /\ Len(r.units_) * r.block_size_ = r.file_size
     /\ \A j, k \in DOMAIN r.units_ : r.units_[j] = r.units_[k] => j = k

\* A file is at least as large as a transfer measured it, unless it was cut.
SizeKept ==
  \A t \in Threads :
    th[t].stage = "units" /\ ~th[t].shrunk => th[t].file_size <= size[th[t].file]

Descriptors == Typed /\ Owned /\ Staged /\ DescriptorsOwned

Units == UnitsInside /\ SizeKept /\ WholeFileOnce /\ ShortOnlyIfCut

IInv == Descriptors /\ Units

-----------------------------------------------------------------------------
(* Descriptors *)

\* A thread that has run nothing yet is well typed.
LEMMA ThreadTyped == Thread \in ThreadRecords
BY FileInstructionsAssumption DEF Thread, ThreadRecords, Stages, Fds, NoFile

\* The proof's type invariant is no weaker than the one the run checks.
LEMMA TypedImpliesTypeOK == Typed => TypeOK
<1> SUFFICES ASSUME Typed, NEW t \in Threads
             PROVE  /\ th[t].stage \in Stages
                    /\ th[t].left \in 0 .. MaxInstructions
                    /\ th[t].file \in Files \cup {NoFile}
                    /\ th[t].fd \in Fds
                    /\ th[t].file_size \in Nat /\ th[t].moved \in Nat
                    /\ \A k \in DOMAIN th[t].units_ : th[t].units_[k] \in Nat
  BY DEF Typed, TypeOK
<1>1. th[t] \in ThreadRecords
  BY DEF Typed
<1>2. \A k \in DOMAIN th[t].units_ : th[t].units_[k] \in Nat
  <2>1. th[t].units_ \in Seq(Nat)
    BY <1>1 DEF ThreadRecords
  <2> QED
    BY <2>1
<1> QED
  BY <1>1, <1>2 DEF ThreadRecords

\* A thread that rests after an instruction.
LEMMA RestTyped ==
  ASSUME Typed, NEW t \in Threads, NEW f \in Files \cup {NoFile}
  PROVE  /\ Rest(t, f) \in ThreadRecords
         /\ Rest(t, f).stage = "idle" /\ Rest(t, f).file = f
         /\ Rest(t, f).short = FALSE
<1>1. th[t].left \in 0 .. MaxInstructions
  BY DEF Typed, ThreadRecords
<1> QED
  BY <1>1, ThreadTyped DEF Rest, Thread, ThreadRecords

\* Before the first instruction only the standard descriptors are open.
LEMMA DescriptorsInit == Init => Descriptors
<1> SUFFICES ASSUME Init PROVE Descriptors
  OBVIOUS
<1>1. Typed
  BY ThreadTyped, FileInstructionsAssumption DEF Init, Typed, Fds, NoFile, Files
<1>2. Owned /\ Staged /\ DescriptorsOwned
  BY DEF Init, Owned, Staged, DescriptorsOwned, HasFile, Thread
<1> QED
  BY <1>1, <1>2 DEF Descriptors

\* A step of t that neither opens nor closes a descriptor, given what its new
\* record r has to say.
LEMMA OwnStep ==
  ASSUME Descriptors, NEW t \in Threads, NEW r \in ThreadRecords,
         th' = [th EXCEPT ![t] = r], fds' = fds, var' = var,
         dir' \in [Paths -> Files \cup {NoFile}], size' \in [Files -> Nat],
         status' = status,
         r.file = th[t].file,
         r.stage # "invalidate",
         r.stage = "open" => r.path \in Paths,
         r.stage \in {"close", "resize", "transfer", "units"} => r.file # NoFile,
         r.stage \in {"close", "resize", "units"} => r.fd = var[t],
         r.stage \in {"transfer", "units"} => r.options \in Transfers,
         r.stage = "units" => r.block_size_ \in Nat
  PROVE  Descriptors'
<1> USE DEF Descriptors
<1>1. /\ th'[t] = r
      /\ \A u \in Threads : u # t => th'[u] = th[u]
  BY DEF Typed
<1>2. Typed'
  BY DEF Typed
<1>3. Owned'
  BY <1>1 DEF Owned, HasFile
<1>4. Staged'
  BY <1>1 DEF Staged, HasFile
<1>5. DescriptorsOwned'
  BY <1>1 DEF DescriptorsOwned, HasFile
<1> QED
  BY <1>2, <1>3, <1>4, <1>5

\* LOGF and a crash change nothing but the status.
LEMMA FatalStep ==
  ASSUME Descriptors, status' \in {"exited", "crashed"},
         UNCHANGED <<dir, size, fds, var, th>>
  PROVE  Descriptors'
BY DEF Descriptors, Typed, Owned, Staged, DescriptorsOwned, HasFile

\* open() takes a free descriptor, so nobody's.
LEMMA OpenRunStep ==
  ASSUME Descriptors, NEW t \in Threads, OpenRun(t)
  PROVE  Descriptors'
<1> DEFINE p == th[t].path
           f == IF dir[p] = NoFile THEN Unused ELSE dir[p]
           d == Lowest(FreeFds)
<1> USE DEF Descriptors
<1>1. p \in Paths
  BY DEF OpenRun, At, Staged
<1>2. d \in Fds /\ fds[d] = Closed
  <2>1. FreeFds \in SUBSET Fds /\ FreeFds # {}
    BY DEF OpenRun, FreeFds
  <2>2. d \in FreeFds
    BY <2>1, LowestIn
  <2> QED
    BY <2>2 DEF FreeFds
<1>3. f \in Files
  <2>1. CASE dir[p] = NoFile
    BY <2>1, <1>1, <1>2, UnusedExists
  <2>2. CASE dir[p] # NoFile
    BY <2>2, <1>1 DEF Typed
  <2> QED
    BY <2>1, <2>2
<1>4. /\ dir' = [dir EXCEPT ![p] = f]
      /\ size' = IF dir[p] = NoFile THEN [size EXCEPT ![f] = 0] ELSE size
      /\ fds' = [fds EXCEPT ![d] = f]
      /\ var' = [var EXCEPT ![t] = d]
      /\ th' = [th EXCEPT ![t] = Rest(t, f)]
      /\ status' = status
  BY DEF OpenRun
<1> HIDE DEF p, f, d
<1>5. /\ Rest(t, f) \in ThreadRecords
      /\ Rest(t, f).stage = "idle" /\ Rest(t, f).file = f
  BY <1>3, RestTyped
<1>6. /\ th'[t].stage = "idle" /\ th'[t].file = f /\ var'[t] = d
      /\ \A u \in Threads : u # t => th'[u] = th[u] /\ var'[u] = var[u]
      /\ fds'[d] = f
      /\ \A e \in Fds : e # d => fds'[e] = fds[e]
  BY <1>2, <1>4, <1>5 DEF Typed
<1>7. Typed'
  BY <1>1, <1>2, <1>3, <1>4, <1>5 DEF Typed
<1>8. ASSUME NEW u \in Threads, u # t
      PROVE  /\ HasFile(u) => var[u] # d
             /\ th[u].stage = "invalidate" => th[u].fd # d
  <2>1. th[u] \in ThreadRecords
    BY DEF Typed
  <2>2. Closed # Other /\ Closed # NoFile /\ Closed \notin Files
    BY FileInstructionsAssumption, FS_CardinalityType DEF Closed, Other, NoFile, Files
  <2> QED
    BY <1>2, <2>1, <2>2 DEF Staged, DescriptorsOwned, HasFile, ThreadRecords
<1>9. Owned'
  BY <1>6, <1>8 DEF Owned, HasFile
<1>10. Staged'
  <2> SUFFICES ASSUME NEW u \in Threads, u # t
               PROVE  /\ (th[u].stage = "open" => th[u].path \in Paths)
                      /\ (th[u].stage = "invalidate" => fds'[th[u].fd] = Other)
                      /\ (th[u].stage \in {"close", "resize", "transfer", "units"} => HasFile(u))
                      /\ (th[u].stage \in {"close", "resize", "units"} => th[u].fd = var[u])
                      /\ (th[u].stage \in {"transfer", "units"} => th[u].options \in Transfers)
                      /\ (th[u].stage = "units" => th[u].block_size_ \in Nat)
    BY <1>6 DEF Staged, HasFile
  <2>1. th[u].fd \in Fds
    BY DEF Typed, ThreadRecords
  <2> QED
    BY <2>1, <1>6, <1>8 DEF Staged
<1>11. DescriptorsOwned'
  <2> SUFFICES ASSUME NEW u \in Threads, HasFile(u)'
               PROVE  fds'[var'[u]] = th'[u].file
    BY DEF DescriptorsOwned
  <2>1. var[u] \in Fds
    BY DEF Typed
  <2> QED
    BY <2>1, <1>6, <1>8 DEF DescriptorsOwned, HasFile
<1> QED
  BY <1>7, <1>9, <1>10, <1>11

\* close() takes the thread's own descriptor.
LEMMA CloseRunStep ==
  ASSUME Descriptors, NEW t \in Threads, CloseRun(t)
  PROVE  Descriptors'
<1> USE DEF Descriptors
<1> DEFINE d == th[t].fd
<1>1. CASE fds[d] = Closed
  BY <1>1, FatalStep DEF CloseRun, Fatal
<1>2. CASE fds[d] # Closed
  <2>1. /\ fds' = [fds EXCEPT ![d] = Closed]
        /\ th' = [th EXCEPT ![t] = Rest(t, NoFile)]
        /\ UNCHANGED <<dir, size, var, status>>
    BY <1>2 DEF CloseRun
  <2>2. d \in Fds /\ d = var[t] /\ HasFile(t) /\ th[t].file \in Files
    BY DEF CloseRun, At, Staged, Typed, ThreadRecords, HasFile
  <2>3. /\ Rest(t, NoFile) \in ThreadRecords
        /\ Rest(t, NoFile).stage = "idle" /\ Rest(t, NoFile).file = NoFile
    BY RestTyped
  <2> HIDE DEF d
  <2>4. /\ th'[t].stage = "idle" /\ th'[t].file = NoFile
        /\ \A u \in Threads : u # t => th'[u] = th[u]
        /\ \A e \in Fds : e # d => fds'[e] = fds[e]
    BY <2>1, <2>2, <2>3 DEF Typed
  <2>5. Typed'
    BY <2>1, <2>2, <2>3 DEF Typed
  <2>6. ASSUME NEW u \in Threads, u # t
        PROVE  /\ HasFile(u) => var[u] # d
               /\ th[u].stage = "invalidate" => th[u].fd # d
    <3>1. Other \notin Files
      BY FileInstructionsAssumption, FS_CardinalityType DEF Other, Files
    <3> QED
      BY <2>2, <2>6, <3>1 DEF Owned, Staged, DescriptorsOwned
  <2>7. Owned'
    BY <2>1, <2>4 DEF Owned, HasFile
  <2>8. ASSUME NEW u \in Threads, u # t, th[u].stage = "invalidate"
        PROVE  fds'[th[u].fd] = Other
    <3>1. th[u].fd \in Fds
      BY DEF Typed, ThreadRecords
    <3> QED
      BY <2>4, <2>6, <2>8, <3>1 DEF Staged
  <2>9. Staged'
    BY <2>1, <2>4, <2>8 DEF Staged, HasFile
  <2>10. DescriptorsOwned'
    <3> SUFFICES ASSUME NEW u \in Threads, u # t, HasFile(u)
                 PROVE  fds'[var[u]] = th[u].file
      BY <2>1, <2>4 DEF DescriptorsOwned, HasFile
    <3>1. var[u] \in Fds
      BY DEF Typed
    <3> QED
      BY <3>1, <2>4, <2>6 DEF DescriptorsOwned
  <2> QED
    BY <2>5, <2>7, <2>9, <2>10
<1> QED
  BY <1>1, <1>2

\* fallocate() and ftruncate() take the thread's own descriptor, so a file.
LEMMA ResizeRunFile ==
  ASSUME Descriptors, NEW t \in Threads, At(t, "resize")
  PROVE  fds[th[t].fd] = th[t].file /\ th[t].file \in Files
BY DEF Descriptors, Typed, ThreadRecords, Staged, DescriptorsOwned, HasFile, At

\* ftruncate of resize_file and resize_file_random changes one size.
LEMMA ResizeRunStep ==
  ASSUME Descriptors, NEW t \in Threads, NEW s \in Sizes, ResizeRun(t, s)
  PROVE  Descriptors'
<1> DEFINE f   == fds[th[t].fd]
           new == IF s > th[t].file_size
                    THEN (IF s > size[f] THEN s ELSE size[f])
                    ELSE IF s < th[t].file_size THEN s ELSE size[f]
           cut(u) == th[u].file = f /\ new < size[f]
<1> USE DEF Descriptors
<1>1. /\ size' = [size EXCEPT ![f] = new]
      /\ th' = [u \in Threads |->
                  IF u = t THEN Rest(t, th[t].file)
                  ELSE [th[u] EXCEPT !.shrunk = @ \/ cut(u)]]
      /\ UNCHANGED <<dir, fds, var, status>>
  BY DEF ResizeRun
<1>2. f = th[t].file /\ f \in Files
  BY ResizeRunFile DEF ResizeRun
<1>3. new \in Nat
  BY <1>2, FileInstructionsAssumption DEF Typed
<1> HIDE DEF f, new
<1>4. /\ Rest(t, f) \in ThreadRecords
      /\ Rest(t, f).stage = "idle" /\ Rest(t, f).file = f
  BY <1>2, RestTyped
<1>5. ASSUME NEW u \in Threads, u # t
      PROVE  /\ th'[u] = [th[u] EXCEPT !.shrunk = @ \/ cut(u)]
             /\ th'[u] \in ThreadRecords
             /\ th'[u].stage = th[u].stage /\ th'[u].path = th[u].path
             /\ th'[u].fd = th[u].fd /\ th'[u].file = th[u].file
             /\ th'[u].options = th[u].options /\ th'[u].block_size_ = th[u].block_size_
  <2>1. th'[u] = [th[u] EXCEPT !.shrunk = @ \/ cut(u)]
    BY <1>1, <1>5
  <2>2. th[u] \in ThreadRecords
    BY DEF Typed
  <2>3. (th[u].shrunk \/ cut(u)) \in BOOLEAN
    OBVIOUS
  <2> HIDE DEF cut
  <2> QED
    BY <2>1, <2>2, <2>3, ZenonT(60) DEF ThreadRecords
<1> HIDE DEF cut
<1>6. th'[t] = Rest(t, f)
  BY <1>1, <1>2
<1>7. Typed'
  <2>1. th' \in [Threads -> ThreadRecords]
    BY <1>1, <1>4, <1>5, <1>6
  <2>2. size' \in [Files -> Nat]
    BY <1>1, <1>2, <1>3 DEF Typed
  <2> QED
    BY <1>1, <2>1, <2>2 DEF Typed
<1>8. Owned'
  BY <1>1, <1>2, <1>4, <1>5, <1>6 DEF Owned, HasFile
<1>9. Staged'
  BY <1>1, <1>4, <1>5, <1>6 DEF Staged, HasFile
<1>10. DescriptorsOwned'
  BY <1>1, <1>2, <1>4, <1>5, <1>6 DEF DescriptorsOwned, HasFile
<1> QED
  BY <1>7, <1>8, <1>9, <1>10

\* invalidate_cache opens a free descriptor ...
LEMMA InvalidateOpenStep ==
  ASSUME Descriptors, NEW t \in Threads, InvalidateOpen(t)
  PROVE  Descriptors'
<1> USE DEF Descriptors
<1>1. CASE FreeFds = {}
  BY <1>1, FatalStep DEF InvalidateOpen, Fatal
<1>2. CASE FreeFds # {}
  <2> DEFINE d == Lowest(FreeFds)
             r == [th[t] EXCEPT !.stage = "invalidate", !.left = @ - 1, !.fd = d]
  <2>1. d \in Fds /\ fds[d] = Closed
    <3>1. FreeFds \in SUBSET Fds
      BY DEF FreeFds
    <3>2. d \in FreeFds
      BY <1>2, <3>1, LowestIn
    <3> QED
      BY <3>2 DEF FreeFds
  <2>2. /\ fds' = [fds EXCEPT ![d] = Other]
        /\ th' = [th EXCEPT ![t].stage = "invalidate", ![t].left = @ - 1, ![t].fd = d]
        /\ UNCHANGED <<dir, size, var, status>>
    BY <1>2 DEF InvalidateOpen
  <2> HIDE DEF d
  <2>3. th[t] \in ThreadRecords /\ th[t].left > 0 /\ th[t].stage = "idle"
    BY DEF InvalidateOpen, Starts, At, Typed
  <2>4. r \in ThreadRecords /\ r.stage = "invalidate" /\ r.fd = d /\ r.file = th[t].file
    <3>1. th[t].left - 1 \in 0 .. MaxInstructions /\ "invalidate" \in Stages
      BY <2>3, FileInstructionsAssumption DEF ThreadRecords, Stages
    <3> HIDE DEF Stages
    <3> QED
      BY <2>1, <2>3, <3>1 DEF ThreadRecords
  <2>5. th' = [th EXCEPT ![t] = r]
    BY <2>2, <2>3 DEF Typed, ThreadRecords
  <2> HIDE DEF r
  <2>6. /\ th'[t] = r
        /\ \A u \in Threads : u # t => th'[u] = th[u]
        /\ fds'[d] = Other
        /\ \A e \in Fds : e # d => fds'[e] = fds[e]
    BY <2>1, <2>2, <2>5 DEF Typed
  <2>7. Typed'
    BY <2>1, <2>2, <2>4, <2>5, ZenonT(60) DEF Typed
  <2>8. ASSUME NEW u \in Threads
        PROVE  /\ HasFile(u) => var[u] # d
               /\ th[u].stage = "invalidate" => th[u].fd # d
    <3>1. th[u] \in ThreadRecords
      BY DEF Typed
    <3>2. Closed # Other /\ Closed # NoFile /\ Closed \notin Files
      BY FileInstructionsAssumption, FS_CardinalityType DEF Closed, Other, NoFile, Files
    <3> QED
      BY <2>1, <3>1, <3>2 DEF Staged, DescriptorsOwned, HasFile, ThreadRecords
  <2>9. Owned'
    <3> SUFFICES ASSUME NEW u \in Threads, NEW v \in Threads, u # v
                 PROVE  /\ th'[u].file # NoFile /\ th'[v].file # NoFile => var[u] # var[v]
                        /\ th'[u].stage = "invalidate" /\ th'[v].stage = "invalidate"
                             => th'[u].fd # th'[v].fd
      BY <2>2 DEF Owned, HasFile
    <3>1. CASE u # t /\ v # t
      BY <3>1, <2>6 DEF Owned, HasFile
    <3>2. CASE u = t
      BY <3>2, <2>4, <2>6, <2>8 DEF Owned, HasFile
    <3>3. CASE v = t
      BY <3>3, <2>4, <2>6, <2>8 DEF Owned, HasFile
    <3> QED
      BY <3>1, <3>2, <3>3
  <2>10. ASSUME NEW u \in Threads, th'[u].stage = "invalidate"
         PROVE  fds'[th'[u].fd] = Other
    <3>1. th[u].fd \in Fds
      BY DEF Typed, ThreadRecords
    <3> QED
      BY <2>4, <2>6, <2>8, <2>10, <3>1 DEF Staged
  <2>11. Staged'
    BY <2>2, <2>4, <2>6, <2>10, ZenonT(60) DEF Staged, HasFile
  <2>12. DescriptorsOwned'
    <3> SUFFICES ASSUME NEW u \in Threads, HasFile(u)
                 PROVE  fds'[var[u]] = th[u].file
      BY <2>2, <2>4, <2>6, ZenonT(60) DEF DescriptorsOwned, HasFile
    <3>1. var[u] \in Fds
      BY DEF Typed
    <3> QED
      BY <3>1, <2>6, <2>8 DEF DescriptorsOwned
  <2> QED
    BY <2>7, <2>9, <2>11, <2>12
<1> QED
  BY <1>1, <1>2

\* ... and closes that one.
LEMMA InvalidateCloseStep ==
  ASSUME Descriptors, NEW t \in Threads, InvalidateClose(t)
  PROVE  Descriptors'
<1> DEFINE d == th[t].fd
           f == th[t].file
<1> USE DEF Descriptors
<1>1. /\ fds' = [fds EXCEPT ![d] = Closed]
      /\ th' = [th EXCEPT ![t] = Rest(t, f)]
      /\ UNCHANGED <<dir, size, var, status>>
  BY DEF InvalidateClose
<1>2. /\ d \in Fds /\ fds[d] = Other /\ f \in Files \cup {NoFile}
      /\ th[t].stage = "invalidate"
  BY DEF InvalidateClose, At, Staged, Typed, ThreadRecords
<1>3. /\ Rest(t, f) \in ThreadRecords
      /\ Rest(t, f).stage = "idle" /\ Rest(t, f).file = f
  BY <1>2, RestTyped
<1>4. /\ th'[t] = Rest(t, f)
      /\ \A u \in Threads : u # t => th'[u] = th[u]
      /\ \A e \in Fds : e # d => fds'[e] = fds[e]
  BY <1>1, <1>2 DEF Typed
<1>5. Typed'
  BY <1>1, <1>2, <1>3 DEF Typed
<1>6. ASSUME NEW u \in Threads
      PROVE  /\ HasFile(u) => var[u] # d
             /\ u # t /\ th[u].stage = "invalidate" => th[u].fd # d
  <2>1. th[u] \in ThreadRecords
    BY DEF Typed
  <2>2. Other # NoFile /\ Other \notin Files
    BY FileInstructionsAssumption, FS_CardinalityType DEF Other, NoFile, Files
  <2> QED
    BY <1>2, <2>1, <2>2 DEF Owned, DescriptorsOwned, HasFile, ThreadRecords
<1>7. Owned'
  BY <1>1, <1>3, <1>4 DEF Owned, HasFile
<1>8. ASSUME NEW u \in Threads, u # t, th[u].stage = "invalidate"
      PROVE  fds'[th[u].fd] = Other
  <2>1. th[u].fd \in Fds
    BY DEF Typed, ThreadRecords
  <2> QED
    BY <1>4, <1>6, <1>8, <2>1 DEF Staged
<1>9. Staged'
  BY <1>1, <1>3, <1>4, <1>8 DEF Staged, HasFile
<1>10. DescriptorsOwned'
  <2> SUFFICES ASSUME NEW u \in Threads, HasFile(u)
               PROVE  fds'[var[u]] = th[u].file
    BY <1>1, <1>3, <1>4 DEF DescriptorsOwned, HasFile
  <2>1. var[u] \in Fds
    BY DEF Typed
  <2> QED
    BY <2>1, <1>4, <1>6 DEF DescriptorsOwned
<1> QED
  BY <1>5, <1>7, <1>9, <1>10

\* What the units of a transfer are to satisfy when they are laid out.
LaidOut(units, x, block, fsize) ==
  /\ units \in Seq(Nat) /\ block \in Nat
  /\ \A k \in DOMAIN units : units[k] + block <= fsize
  /\ /\ x.order = "sequential" /\ x.size = -1
     /\ Divides(block, fsize) /\ Divides(block, x.starting_offset)
     => /\ Len(units) * block = fsize
        /\ \A j, k \in DOMAIN units : units[j] = units[k] => j = k

\* A transfer uses the thread's own descriptor, so a file.
LEMMA TransferFile ==
  ASSUME Descriptors, NEW t \in Threads, At(t, "transfer") \/ At(t, "units")
  PROVE  /\ fds[var[t]] = th[t].file /\ th[t].file \in Files
         /\ th[t].options \in Transfers
         /\ th[t].stage = "units" => th[t].fd = var[t]
BY SMTT(40) DEF Descriptors, Typed, ThreadRecords, Staged, DescriptorsOwned, HasFile, At

\* A step of SetUpSingle that does not end the process lays out the units.
LEMMA TransferSetUpReady ==
  ASSUME Descriptors, NEW t \in Threads, TransferSetUp(t), status' = status
  PROVE  LET x     == th[t].options
             fsize == size[th[t].file]
             total == Updated(x.size, fsize)
             block == Updated(x.block_size, fsize)
         IN  /\ UNCHANGED <<dir, size, fds, var>>
             /\ fsize \in Nat /\ total \in Nat
             /\ \E units : /\ LaidOut(units, x, block, fsize)
                           /\ th' = [th EXCEPT ![t].stage = "units", ![t].fd = var[t],
                                 ![t].size_ = total, ![t].block_size_ = block,
                                 ![t].file_size = fsize, ![t].units_ = units, ![t].moved = 0,
                                 ![t].shrunk = FALSE, ![t].short = FALSE]
<1> DEFINE x     == th[t].options
           fsize == size[th[t].file]
           total == Updated(x.size, fsize)
           block == Updated(x.block_size, fsize)
           ready(units) ==
             /\ th' = [th EXCEPT ![t].stage = "units", ![t].fd = var[t], ![t].size_ = total,
                                 ![t].block_size_ = block, ![t].file_size = fsize,
                                 ![t].units_ = units, ![t].moved = 0,
                                 ![t].shrunk = FALSE, ![t].short = FALSE]
             /\ UNCHANGED <<dir, size, fds, var, status>>
<1>1. /\ fds[var[t]] = th[t].file /\ th[t].file \in Files
      /\ x \in Transfers
  BY TransferFile, ZenonT(60) DEF TransferSetUp
<1>2. fsize \in Nat /\ status = "running"
  BY <1>1 DEF Descriptors, Typed, TransferSetUp, At
<1>3. total \in Nat /\ block \in Nat /\ x.starting_offset \in Nat
  BY <1>1, <1>2, FileInstructionsAssumption DEF Updated
<1>4. \/ block = 0 /\ ready(<< >>)
      \/ /\ 0 < block /\ block <= fsize
         /\ ready(Sequential(Blocks(total, block), x.starting_offset, block, fsize))
      \/ /\ 0 < block /\ block <= fsize
         /\ x.order = "random"
         /\ \E units \in [1 .. Blocks(total, block) -> 0 .. fsize - block] : ready(units)
  BY <1>1, <1>2, ZenonT(60) DEF TransferSetUp, Fatal
<1> HIDE DEF x, fsize, total, block, ready
<1>5. ASSUME 0 < block, block <= fsize
      PROVE  Blocks(total, block) \in Nat
  BY <1>3, <1>5 DEF Blocks
<1>6. ASSUME NEW n \in Nat, NEW units \in [1..n -> 0 .. fsize - block], 0 < block
      PROVE  /\ units \in Seq(Nat) /\ Len(units) = n /\ DOMAIN units = 1..n
             /\ \A k \in DOMAIN units : units[k] + block <= fsize
  <2>1. \A k \in 1..n : units[k] \in Nat /\ units[k] + block <= fsize
    BY <1>2, <1>3
  <2>2. units \in [1..n -> Nat]
    BY <2>1
  <2>3. units \in Seq(Nat)
    BY <2>2, SeqDef
  <2> QED
    BY <2>1, <2>2, <2>3
<1>7. CASE block = 0 /\ ready(<< >>)
  <2>1. LaidOut(<< >>, x, block, fsize)
    BY <1>3, <1>7, SMTT(40) DEF LaidOut, Divides
  <2> QED
    BY <1>2, <1>3, <1>7, <2>1 DEF ready, x, fsize, total, block
<1>8. CASE /\ 0 < block /\ block <= fsize
           /\ ready(Sequential(Blocks(total, block), x.starting_offset, block, fsize))
  <2> DEFINE n == Blocks(total, block)
             units == Sequential(n, x.starting_offset, block, fsize)
  <2>1. n \in Nat
    BY <1>5, <1>8
  <2>2. units \in [1..n -> 0 .. fsize - block]
    BY <1>2, <1>3, <1>8, <2>1, SequentialInside
  <2>3. ASSUME x.size = -1, Divides(block, fsize), Divides(block, x.starting_offset)
        PROVE  n * block = fsize /\ \A j, k \in 1..n : units[j] = units[k] => j = k
    <3>1. total = fsize /\ fsize % block = 0 /\ x.starting_offset % block = 0
      BY <2>3 DEF Updated, Divides, total
    <3> QED
      BY <1>2, <1>3, <1>8, <3>1, SequentialOnce, ZenonT(60)
  <2> HIDE DEF n, units
  <2>4. LaidOut(units, x, block, fsize)
    BY <1>3, <1>6, <1>8, <2>1, <2>2, <2>3 DEF LaidOut
  <2> QED
    BY <1>2, <1>3, <1>8, <2>4 DEF ready, x, fsize, total, block, n, units
<1>9. CASE /\ 0 < block /\ block <= fsize
           /\ x.order = "random"
           /\ \E units \in [1 .. Blocks(total, block) -> 0 .. fsize - block] : ready(units)
  <2>1. PICK units \in [1 .. Blocks(total, block) -> 0 .. fsize - block] : ready(units)
    BY <1>9
  <2>2. LaidOut(units, x, block, fsize)
    BY <1>3, <1>5, <1>6, <1>9 DEF LaidOut
  <2> QED
    BY <1>2, <1>3, <2>1, <2>2 DEF ready, x, fsize, total, block
<1> QED
  BY <1>4, <1>7, <1>8, <1>9, ZenonT(60)

\* The record of a thread that starts an instruction.
LEMMA StartedTyped ==
  ASSUME Typed, NEW t \in Threads, Starts(t), NEW stage \in Stages
  PROVE  /\ th[t] \in ThreadRecords
         /\ [th[t] EXCEPT !.stage = stage, !.left = @ - 1] \in ThreadRecords
<1>1. th[t] \in ThreadRecords
  BY DEF Typed
<1>2. th[t].left - 1 \in 0 .. MaxInstructions
  BY <1>1, FileInstructionsAssumption DEF Starts, ThreadRecords
<1> QED
  BY <1>1, <1>2 DEF ThreadRecords

\* The steps that leave the descriptor table and the variables alone.
LEMMA OwnSteps ==
  ASSUME Descriptors, NEW t \in Threads,
         \/ \E p \in Paths : OpenGiven(t, p) \/ OpenRandom(t, p) \/ Delete(t, p)
         \/ CloseFetch(t) \/ ResizeStat(t)
         \/ \E x \in Transfers : TransferBegin(t, x)
         \/ TransferSetUp(t) \/ TransferUnit(t) \/ TransferTearDown(t) \/ TransferEnd(t)
  PROVE  Descriptors'
<1>1. /\ Typed /\ Staged /\ DescriptorsOwned
      /\ th \in [Threads -> ThreadRecords] /\ th[t] \in ThreadRecords
  BY DEF Descriptors, Typed
<1>2. {"idle", "open", "close", "resize", "invalidate", "transfer", "units"} = Stages
  BY DEF Stages
<1>3. ASSUME NEW p \in Paths, OpenGiven(t, p) \/ OpenRandom(t, p)
      PROVE  Descriptors'
  <2> DEFINE r == [th[t] EXCEPT !.stage = "open", !.left = @ - 1, !.path = p]
  <2>1. /\ th' = [th EXCEPT ![t].stage = "open", ![t].left = @ - 1, ![t].path = p]
        /\ Starts(t) /\ UNCHANGED <<dir, size, fds, var, status>>
    BY <1>3 DEF OpenGiven, OpenRandom
  <2>2. th' = [th EXCEPT ![t] = r]
    BY <1>1, <2>1 DEF ThreadRecords
  <2>3. [th[t] EXCEPT !.stage = "open", !.left = @ - 1] \in ThreadRecords
    BY <1>1, <1>2, <2>1, StartedTyped
  <2>4. r \in ThreadRecords /\ r.stage = "open" /\ r.path = p /\ r.file = th[t].file
    BY <1>1, <2>3 DEF ThreadRecords
  <2> HIDE DEF r
  <2> QED
    BY <1>1, <2>1, <2>2, <2>4, OwnStep DEF Typed
<1>4. ASSUME NEW p \in Paths, Delete(t, p)
      PROVE  Descriptors'
  <2>1. CASE dir[p] = NoFile
    BY <1>4, <2>1, FatalStep DEF Delete, Fatal
  <2>2. CASE dir[p] # NoFile
    <3> DEFINE r == [th[t] EXCEPT !.left = @ - 1]
    <3>1. /\ dir' = [dir EXCEPT ![p] = NoFile]
          /\ th' = [th EXCEPT ![t].left = @ - 1]
          /\ Starts(t) /\ UNCHANGED <<size, fds, var, status>>
      BY <1>4, <2>2 DEF Delete
    <3>2. th' = [th EXCEPT ![t] = r]
      BY <1>1, <3>1 DEF ThreadRecords
    <3>3. [th[t] EXCEPT !.stage = "idle", !.left = @ - 1] \in ThreadRecords
      BY <1>1, <1>2, <3>1, StartedTyped
    <3>4. r \in ThreadRecords /\ r.stage = "idle" /\ r.file = th[t].file
      BY <1>1, <3>1, <3>3 DEF ThreadRecords, Starts, At
    <3>5. dir' \in [Paths -> Files \cup {NoFile}]
      BY <1>1, <3>1 DEF Typed
    <3> HIDE DEF r
    <3> QED
      BY <1>1, <3>1, <3>2, <3>4, <3>5, OwnStep DEF Typed
  <2> QED
    BY <2>1, <2>2
<1>5. ASSUME CloseFetch(t)
      PROVE  Descriptors'
  <2> DEFINE r == [th[t] EXCEPT !.stage = "close", !.left = @ - 1, !.fd = var[t]]
  <2>1. /\ th' = [th EXCEPT ![t].stage = "close", ![t].left = @ - 1, ![t].fd = var[t]]
        /\ HasFile(t) /\ Starts(t) /\ UNCHANGED <<dir, size, fds, var, status>>
    BY <1>5 DEF CloseFetch
  <2>2. th' = [th EXCEPT ![t] = r]
    BY <1>1, <2>1 DEF ThreadRecords
  <2>3. [th[t] EXCEPT !.stage = "close", !.left = @ - 1] \in ThreadRecords
    BY <1>1, <1>2, <2>1, StartedTyped
  <2>4. /\ r \in ThreadRecords /\ r.stage = "close" /\ r.fd = var[t]
        /\ r.file = th[t].file /\ r.file # NoFile
    BY <1>1, <2>1, <2>3 DEF ThreadRecords, Typed, HasFile
  <2> HIDE DEF r
  <2> QED
    BY <1>1, <2>1, <2>2, <2>4, OwnStep DEF Typed
<1>6. ASSUME ResizeStat(t)
      PROVE  Descriptors'
  <2> DEFINE z == size[fds[var[t]]]
             r == [th[t] EXCEPT !.stage = "resize", !.left = @ - 1, !.fd = var[t], !.file_size = z]
  <2>1. /\ th' = [th EXCEPT ![t].stage = "resize", ![t].left = @ - 1, ![t].fd = var[t],
                            ![t].file_size = z]
        /\ HasFile(t) /\ Starts(t) /\ UNCHANGED <<dir, size, fds, var, status>>
    BY <1>6 DEF ResizeStat
  <2>2. z \in Nat
    BY <1>1, <2>1 DEF Typed, ThreadRecords, DescriptorsOwned, HasFile
  <2> HIDE DEF z
  <2>3. th' = [th EXCEPT ![t] = r]
    BY <1>1, <2>1 DEF ThreadRecords
  <2>4. [th[t] EXCEPT !.stage = "resize", !.left = @ - 1] \in ThreadRecords
    BY <1>1, <1>2, <2>1, StartedTyped
  <2>5. /\ r \in ThreadRecords /\ r.stage = "resize" /\ r.fd = var[t]
        /\ r.file = th[t].file /\ r.file # NoFile
    BY <1>1, <2>1, <2>2, <2>4 DEF ThreadRecords, Typed, HasFile
  <2> HIDE DEF r
  <2> QED
    BY <1>1, <2>1, <2>3, <2>5, OwnStep DEF Typed
<1>7. ASSUME NEW x \in Transfers, TransferBegin(t, x)
      PROVE  Descriptors'
  <2> DEFINE r == [th[t] EXCEPT !.stage = "transfer", !.left = @ - 1, !.i = 0, !.options = x,
                                !.size_ = x.size, !.block_size_ = x.block_size]
  <2>1. /\ th' = [th EXCEPT ![t].stage = "transfer", ![t].left = @ - 1, ![t].i = 0,
                            ![t].options = x, ![t].size_ = x.size, ![t].block_size_ = x.block_size]
        /\ HasFile(t) /\ Starts(t) /\ UNCHANGED <<dir, size, fds, var, status>>
    BY <1>7 DEF TransferBegin
  <2>2. x.size \in Nat \cup {-1} /\ x.block_size \in Nat \cup {-1}
    BY FileInstructionsAssumption
  <2>3. th' = [th EXCEPT ![t] = r]
    BY <1>1, <2>1 DEF ThreadRecords
  <2>4. [th[t] EXCEPT !.stage = "transfer", !.left = @ - 1] \in ThreadRecords
    BY <1>1, <1>2, <2>1, StartedTyped
  <2>5. /\ r \in ThreadRecords /\ r.stage = "transfer" /\ r.options = x
        /\ r.file = th[t].file /\ r.file # NoFile
    BY <1>1, <2>1, <2>2, <2>4, SMTT(40) DEF ThreadRecords, HasFile
  <2> HIDE DEF r
  <2> QED
    BY <1>1, <2>1, <2>3, <2>5, OwnStep DEF Typed
<1>8. ASSUME TransferSetUp(t)
      PROVE  Descriptors'
  <2>1. CASE status' # status
    <3>1. status' \in {"exited", "crashed"} /\ UNCHANGED <<dir, size, fds, var, th>>
      BY <1>8, <2>1, ZenonT(60) DEF TransferSetUp, Fatal
    <3> QED
      BY <3>1, FatalStep
  <2>2. CASE status' = status
    <3> DEFINE x     == th[t].options
               fsize == size[th[t].file]
               total == Updated(x.size, fsize)
               block == Updated(x.block_size, fsize)
    <3>1. /\ UNCHANGED <<dir, size, fds, var>>
          /\ fsize \in Nat /\ total \in Nat
          /\ \E units : /\ LaidOut(units, x, block, fsize)
                        /\ th' = [th EXCEPT ![t].stage = "units", ![t].fd = var[t],
                              ![t].size_ = total, ![t].block_size_ = block,
                              ![t].file_size = fsize, ![t].units_ = units, ![t].moved = 0,
                              ![t].shrunk = FALSE, ![t].short = FALSE]
      BY <1>8, <2>2, TransferSetUpReady, ZenonT(60)
    <3>2. x \in Transfers /\ th[t].file \in Files
      BY <1>8, TransferFile, ZenonT(60) DEF TransferSetUp
    <3> HIDE DEF fsize, total, block, x
    <3>3. PICK units : /\ LaidOut(units, x, block, fsize)
                       /\ th' = [th EXCEPT ![t].stage = "units", ![t].fd = var[t],
                              ![t].size_ = total, ![t].block_size_ = block,
                              ![t].file_size = fsize, ![t].units_ = units, ![t].moved = 0,
                              ![t].shrunk = FALSE, ![t].short = FALSE]
      BY <3>1, ZenonT(60)
    <3> DEFINE r == [th[t] EXCEPT !.stage = "units", !.fd = var[t], !.size_ = total,
                       !.block_size_ = block, !.file_size = fsize, !.units_ = units, !.moved = 0,
                       !.shrunk = FALSE, !.short = FALSE]
    <3>4. block \in Nat /\ units \in Seq(Nat)
      BY <3>3 DEF LaidOut
    <3>5. th' = [th EXCEPT ![t] = r]
      BY <1>1, <3>3, ZenonT(60) DEF ThreadRecords
    <3>6. /\ r \in ThreadRecords /\ r.stage = "units" /\ r.fd = var[t]
          /\ r.file = th[t].file /\ r.options = th[t].options /\ r.block_size_ = block
      BY <1>1, <1>2, <3>1, <3>4, ZenonT(60) DEF ThreadRecords, Typed
    <3>7. th[t].file # NoFile
      BY <3>2, FileInstructionsAssumption, FS_CardinalityType DEF NoFile, Files
    <3> HIDE DEF r
    <3> QED
      BY <1>1, <2>2, <3>1, <3>2, <3>4, <3>5, <3>6, <3>7, OwnStep DEF Typed, x
  <2> QED
    BY <2>1, <2>2
<1>9. ASSUME TransferUnit(t)
      PROVE  Descriptors'
  <2> DEFINE offset == Head(th[t].units_)
             block  == th[t].block_size_
             f      == fds[th[t].fd]
             past   == offset + block > size[f]
             r == [th[t] EXCEPT !.units_ = Tail(@), !.moved = @ + block, !.short = @ \/ past]
  <2>1. /\ th' = [th EXCEPT ![t].units_ = Tail(@), ![t].moved = @ + block, ![t].short = @ \/ past]
        /\ size' = IF past /\ th[t].options.kind = "write_file"
                     THEN [size EXCEPT ![f] = offset + block] ELSE size
        /\ At(t, "units") /\ th[t].units_ # << >>
        /\ UNCHANGED <<dir, fds, var, status>>
    BY <1>9 DEF TransferUnit
  <2>2. block \in Nat /\ th[t].units_ \in Seq(Nat) /\ f \in Files /\ th[t].fd = var[t]
        /\ th[t].options \in Transfers /\ th[t].file # NoFile
    BY <1>1, <2>1, TransferFile DEF Staged, HasFile, At, ThreadRecords
  <2>3. offset \in Nat /\ Tail(th[t].units_) \in Seq(Nat)
    BY <2>1, <2>2, HeadTailProperties
  <2>4. offset + block \in Nat /\ past \in BOOLEAN
    BY <2>2, <2>3
  <2> HIDE DEF offset, block, f, past
  <2>5. th' = [th EXCEPT ![t] = r]
    BY <1>1, <2>1 DEF ThreadRecords
  <2>6. th[t].moved + block \in Nat
    BY <1>1, <2>2 DEF ThreadRecords
  <2>7. (th[t].short \/ past) \in BOOLEAN
    OBVIOUS
  <2>8. /\ r \in ThreadRecords /\ r.stage = "units" /\ r.file = th[t].file /\ r.fd = th[t].fd
        /\ r.options = th[t].options /\ r.block_size_ = th[t].block_size_
    BY <1>1, <2>1, <2>3, <2>6, <2>7, ZenonT(60) DEF ThreadRecords, At
  <2>9. size' \in [Files -> Nat]
    BY <1>1, <2>1, <2>2, <2>4 DEF Typed
  <2> HIDE DEF r
  <2> QED
    BY <1>1, <2>1, <2>2, <2>5, <2>8, <2>9, OwnStep, ZenonT(60) DEF Typed, block
<1>10. ASSUME TransferTearDown(t)
       PROVE  Descriptors'
  <2> DEFINE r == [th[t] EXCEPT !.stage = "transfer", !.i = @ + 1]
  <2>1. /\ th' = [th EXCEPT ![t].stage = "transfer", ![t].i = @ + 1]
        /\ At(t, "units") /\ UNCHANGED <<dir, size, fds, var, status>>
    BY <1>10 DEF TransferTearDown
  <2>2. th[t].options \in Transfers /\ th[t].file # NoFile
    BY <1>1, <2>1 DEF Staged, HasFile, At
  <2>3. th' = [th EXCEPT ![t] = r]
    BY <1>1, <2>1 DEF ThreadRecords
  <2>4. /\ r \in ThreadRecords /\ r.stage = "transfer" /\ r.file = th[t].file
        /\ r.options = th[t].options
    <3>1. th[t].i + 1 \in Nat
      BY <1>1 DEF ThreadRecords
    <3>2. "transfer" \in Stages
      BY <1>2
    <3> QED
      BY <1>1, <3>1, <3>2 DEF ThreadRecords
  <2> HIDE DEF r
  <2> QED
    BY <1>1, <2>1, <2>2, <2>3, <2>4, OwnStep DEF Typed
<1>11. ASSUME TransferEnd(t)
       PROVE  Descriptors'
  <2> DEFINE r == Rest(t, th[t].file)
  <2>1. th' = [th EXCEPT ![t] = r] /\ UNCHANGED <<dir, size, fds, var, status>>
    BY <1>11 DEF TransferEnd
  <2>2. th[t].file \in Files \cup {NoFile}
    BY <1>1 DEF ThreadRecords
  <2>3. r \in ThreadRecords /\ r.stage = "idle" /\ r.file = th[t].file
    BY <1>1, <2>2, RestTyped
  <2> HIDE DEF r
  <2> QED
    BY <1>1, <2>1, <2>3, OwnStep DEF Typed
<1> QED
  BY <1>3, <1>4, <1>5, <1>6, <1>7, <1>8, <1>9, <1>10, <1>11

\* Every step keeps the descriptors with their owners.
LEMMA DescriptorsNext == Descriptors /\ [Next]_vars => Descriptors'
<1> SUFFICES ASSUME Descriptors, [Next]_vars PROVE Descriptors'
  OBVIOUS
<1>1. CASE UNCHANGED vars
  BY <1>1 DEF vars, Descriptors, Typed, Owned, Staged, DescriptorsOwned, HasFile
<1>2. ASSUME NEW t \in Threads, OpenFails(t) \/ CallFails(t) PROVE Descriptors'
  BY <1>2, FatalStep DEF OpenFails, CallFails, Fatal
<1>3. ASSUME NEW t \in Threads, Step(t) PROVE Descriptors'
  BY <1>2, <1>3, OwnSteps, OpenRunStep, CloseRunStep, ResizeRunStep, InvalidateOpenStep,
     InvalidateCloseStep DEF Step
<1> QED
  BY <1>1, <1>3 DEF Next

-----------------------------------------------------------------------------
(* The units of a transfer *)

\* A step of a thread that does not end up between two units, and in which no
\* file that is read or written shrinks.
LEMMA UnitsKept ==
  ASSUME Descriptors, Units, NEW t \in Threads,
         th'[t].stage # "units", th'[t].short => th'[t].shrunk,
         \A u \in Threads : u # t => th'[u] = th[u],
         \A u \in Threads : u # t /\ th[u].stage = "units" =>
           size[th[u].file] = size'[th[u].file]
  PROVE  Units'
<1>1. UnitsInside'
  BY DEF Units, UnitsInside
<1>2. SizeKept'
  BY DEF Units, SizeKept
<1>3. WholeFileOnce'
  <2> SUFFICES ASSUME NEW u \in Threads, u # t
               PROVE  WholeOnce(th[u])
    BY DEF WholeFileOnce, WholeOnce
  <2> QED
    BY DEF Units, WholeFileOnce, WholeOnce
<1>4. ShortOnlyIfCut'
  BY DEF Units, ShortOnlyIfCut
<1> QED
  BY <1>1, <1>2, <1>3, <1>4 DEF Units

\* Only the status changes.
LEMMA UnitsFatal ==
  ASSUME Units, UNCHANGED <<dir, size, fds, var, th>>
  PROVE  Units'
BY DEF Units, UnitsInside, SizeKept, WholeFileOnce, ShortOnlyIfCut

\* The steps of a thread that has nothing laid out afterwards.
LEMMA UnitsOtherSteps ==
  ASSUME Descriptors, Units, NEW t \in Threads,
         \/ \E p \in Paths : OpenGiven(t, p) \/ OpenRandom(t, p) \/ Delete(t, p)
         \/ OpenFails(t) \/ CallFails(t) \/ CloseFetch(t) \/ CloseRun(t) \/ ResizeStat(t)
         \/ InvalidateOpen(t) \/ InvalidateClose(t)
         \/ \E x \in Transfers : TransferBegin(t, x)
         \/ TransferTearDown(t) \/ TransferEnd(t)
  PROVE  Units'
<1>1. /\ th \in [Threads -> ThreadRecords] /\ th[t] \in ThreadRecords
      /\ th[t].short => th[t].shrunk
      /\ th[t].file \in Files \cup {NoFile}
  BY DEF Descriptors, Typed, Units, ShortOnlyIfCut, ThreadRecords
<1>2. ASSUME NEW f \in Files \cup {NoFile}
      PROVE  Rest(t, f).stage # "units" /\ Rest(t, f).short = FALSE
  BY RestTyped DEF Descriptors
<1>3. CASE UNCHANGED <<dir, size, fds, var, th>>
  BY <1>3, UnitsFatal
<1>4. ASSUME size' = size,
             \/ \E p \in Paths : OpenGiven(t, p) \/ OpenRandom(t, p)
             \/ CloseFetch(t) \/ ResizeStat(t)
             \/ \E x \in Transfers : TransferBegin(t, x)
             \/ TransferTearDown(t)
      PROVE  Units'
  <2>1. /\ th'[t].stage # "units" /\ th'[t].short = th[t].short /\ th'[t].shrunk = th[t].shrunk
        /\ \A u \in Threads : u # t => th'[u] = th[u]
    <3>1. ASSUME NEW p \in Paths, OpenGiven(t, p) \/ OpenRandom(t, p)
          PROVE  /\ th'[t].stage # "units" /\ th'[t].short = th[t].short
                 /\ th'[t].shrunk = th[t].shrunk /\ \A u \in Threads : u # t => th'[u] = th[u]
      BY <1>1, <3>1 DEF ThreadRecords, OpenGiven, OpenRandom
    <3>2. ASSUME CloseFetch(t) \/ ResizeStat(t)
          PROVE  /\ th'[t].stage # "units" /\ th'[t].short = th[t].short
                 /\ th'[t].shrunk = th[t].shrunk /\ \A u \in Threads : u # t => th'[u] = th[u]
      BY <1>1, <3>2 DEF ThreadRecords, CloseFetch, ResizeStat
    <3>3. ASSUME NEW x \in Transfers, TransferBegin(t, x)
          PROVE  /\ th'[t].stage # "units" /\ th'[t].short = th[t].short
                 /\ th'[t].shrunk = th[t].shrunk /\ \A u \in Threads : u # t => th'[u] = th[u]
      BY <1>1, <3>3 DEF ThreadRecords, TransferBegin
    <3>4. ASSUME TransferTearDown(t)
          PROVE  /\ th'[t].stage # "units" /\ th'[t].short = th[t].short
                 /\ th'[t].shrunk = th[t].shrunk /\ \A u \in Threads : u # t => th'[u] = th[u]
      BY <1>1, <3>4 DEF ThreadRecords, TransferTearDown
    <3> QED
      BY <1>4, <3>1, <3>2, <3>3, <3>4
  <2> QED
    BY <1>1, <1>4, <2>1, UnitsKept
<1>5. ASSUME NEW p \in Paths, Delete(t, p), dir[p] # NoFile
      PROVE  Units'
  <2>1. /\ th'[t].stage # "units" /\ th'[t].short = th[t].short /\ th'[t].shrunk = th[t].shrunk
        /\ \A u \in Threads : u # t => th'[u] = th[u]
        /\ size' = size
    BY <1>1, <1>5, ZenonT(60) DEF ThreadRecords, Delete, Starts, At
  <2> QED
    BY <1>1, <2>1, UnitsKept
<1>6. ASSUME InvalidateOpen(t), FreeFds # {}
      PROVE  Units'
  <2>1. /\ th'[t].stage # "units" /\ th'[t].short = th[t].short /\ th'[t].shrunk = th[t].shrunk
        /\ \A u \in Threads : u # t => th'[u] = th[u]
        /\ size' = size
    BY <1>1, <1>6 DEF ThreadRecords, InvalidateOpen
  <2> QED
    BY <1>1, <2>1, UnitsKept
<1>7. ASSUME NEW f \in Files \cup {NoFile}, th' = [th EXCEPT ![t] = Rest(t, f)], size' = size
      PROVE  Units'
  <2>1. /\ th'[t].stage # "units" /\ th'[t].short = FALSE
        /\ \A u \in Threads : u # t => th'[u] = th[u]
    BY <1>1, <1>2, <1>7
  <2> QED
    BY <1>7, <2>1, UnitsKept
<1>8. ASSUME CloseRun(t) \/ InvalidateClose(t) \/ TransferEnd(t) PROVE Units'
  BY <1>1, <1>3, <1>7, <1>8 DEF CloseRun, InvalidateClose, TransferEnd, Fatal
<1>9. ASSUME NEW p \in Paths, Delete(t, p), dir[p] = NoFile PROVE Units'
  BY <1>3, <1>9 DEF Delete, Fatal
<1>10. ASSUME OpenFails(t) \/ CallFails(t) \/ (InvalidateOpen(t) /\ FreeFds = {})
       PROVE  Units'
  BY <1>3, <1>10 DEF OpenFails, CallFails, InvalidateOpen, Fatal
<1>11. ASSUME \/ \E p \in Paths : OpenGiven(t, p) \/ OpenRandom(t, p)
              \/ CloseFetch(t) \/ ResizeStat(t)
              \/ \E x \in Transfers : TransferBegin(t, x)
              \/ TransferTearDown(t)
       PROVE  Units'
  BY <1>4, <1>11 DEF OpenGiven, OpenRandom, CloseFetch, ResizeStat, TransferBegin, TransferTearDown
<1> QED
  BY <1>5, <1>6, <1>8, <1>9, <1>10, <1>11

\* open() may empty a file, but one that nobody has open.
LEMMA UnitsOpenRun ==
  ASSUME Descriptors, Units, NEW t \in Threads, OpenRun(t)
  PROVE  Units'
<1> DEFINE p == th[t].path
           f == IF dir[p] = NoFile THEN Unused ELSE dir[p]
           d == Lowest(FreeFds)
<1>1. p \in Paths
  BY DEF OpenRun, At, Staged, Descriptors
<1>2. d \in Fds /\ fds[d] = Closed
  <2>1. FreeFds \in SUBSET Fds /\ FreeFds # {}
    BY DEF OpenRun, FreeFds
  <2>2. d \in FreeFds
    BY <2>1, LowestIn
  <2> QED
    BY <2>2 DEF FreeFds
<1>3. dir[p] = NoFile => f \in Files /\ \A e \in Fds : fds[e] # f
  BY <1>1, <1>2, UnusedExists
<1>4. f \in Files \cup {NoFile}
  BY <1>1, <1>3 DEF Descriptors, Typed
<1>5. /\ size' = IF dir[p] = NoFile THEN [size EXCEPT ![f] = 0] ELSE size
      /\ th' = [th EXCEPT ![t] = Rest(t, f)]
  BY DEF OpenRun
<1> HIDE DEF p, f, d
<1>6. Rest(t, f).stage = "idle" /\ Rest(t, f).short = FALSE
  BY <1>4, RestTyped DEF Descriptors
<1>7. /\ th'[t].stage # "units" /\ th'[t].short = FALSE
      /\ \A u \in Threads : u # t => th'[u] = th[u]
  BY <1>5, <1>6 DEF Descriptors, Typed
<1>8. ASSUME NEW u \in Threads, u # t, th[u].stage = "units"
      PROVE  size[th[u].file] = size'[th[u].file]
  <2>1. var[u] \in Fds /\ th[u].file \in Files /\ fds[var[u]] = th[u].file
    BY <1>8 DEF Descriptors, Typed, ThreadRecords, Staged, DescriptorsOwned, HasFile
  <2> QED
    BY <1>3, <1>5, <2>1 DEF Descriptors, Typed
<1> QED
  BY <1>7, <1>8, UnitsKept

\* A cut is noticed by everybody who reads or writes the file.
LEMMA UnitsResizeRun ==
  ASSUME Descriptors, Units, NEW t \in Threads, NEW s \in Sizes, ResizeRun(t, s)
  PROVE  Units'
<1> DEFINE f   == fds[th[t].fd]
           new == IF s > th[t].file_size
                    THEN (IF s > size[f] THEN s ELSE size[f])
                    ELSE IF s < th[t].file_size THEN s ELSE size[f]
           cut(u) == th[u].file = f /\ new < size[f]
<1>1. /\ size' = [size EXCEPT ![f] = new]
      /\ th' = [u \in Threads |->
                  IF u = t THEN Rest(t, th[t].file)
                  ELSE [th[u] EXCEPT !.shrunk = @ \/ cut(u)]]
  BY DEF ResizeRun
<1>2. f = th[t].file /\ f \in Files
  BY ResizeRunFile DEF ResizeRun
<1>3. new \in Nat /\ size \in [Files -> Nat]
  BY <1>2, FileInstructionsAssumption DEF Descriptors, Typed
<1> HIDE DEF f, new
<1>4. th'[t].stage = "idle" /\ th'[t].short = FALSE
  BY <1>1, <1>2, RestTyped, ZenonT(60) DEF Descriptors
<1>5. ASSUME NEW u \in Threads, u # t
      PROVE  /\ th[u] \in ThreadRecords
             /\ th'[u].stage = th[u].stage /\ th'[u].file = th[u].file
             /\ th'[u].options = th[u].options /\ th'[u].block_size_ = th[u].block_size_
             /\ th'[u].file_size = th[u].file_size /\ th'[u].units_ = th[u].units_
             /\ th'[u].moved = th[u].moved /\ th'[u].short = th[u].short
             /\ th'[u].shrunk = (th[u].shrunk \/ cut(u))
  <2>1. th'[u] = [th[u] EXCEPT !.shrunk = @ \/ cut(u)]
    BY <1>1, <1>5
  <2>2. th[u] \in ThreadRecords
    BY DEF Descriptors, Typed
  <2> HIDE DEF cut
  <2> QED
    BY <2>1, <2>2 DEF ThreadRecords
<1>6. UnitsInside'
  BY <1>4, <1>5 DEF Units, UnitsInside
<1>7. SizeKept'
  <2> SUFFICES ASSUME NEW u \in Threads, u # t, th[u].stage = "units", ~th[u].shrunk, ~cut(u)
               PROVE  th[u].file_size <= size'[th[u].file]
    BY <1>4, <1>5 DEF SizeKept
  <2>1. th[u].file \in Files /\ th[u].file_size \in Nat /\ th[u].file_size <= size[th[u].file]
    BY <1>5 DEF Units, SizeKept, Descriptors, Staged, HasFile, ThreadRecords
  <2> QED
    BY <1>1, <1>2, <1>3, <2>1
<1> HIDE DEF cut
<1>8. WholeFileOnce'
  <2> SUFFICES ASSUME NEW u \in Threads, u # t
               PROVE  WholeOnce(th[u])
    BY <1>4, <1>5 DEF WholeFileOnce, WholeOnce
  <2> QED
    BY DEF Units, WholeFileOnce, WholeOnce
<1>9. ShortOnlyIfCut'
  BY <1>4, <1>5 DEF Units, ShortOnlyIfCut
<1> QED
  BY <1>6, <1>7, <1>8, <1>9 DEF Units

\* SetUpSingle lays the units out inside the file as it is.
LEMMA UnitsSetUp ==
  ASSUME Descriptors, Units, NEW t \in Threads, TransferSetUp(t)
  PROVE  Units'
<1>1. CASE status' # status
  <2>1. UNCHANGED <<dir, size, fds, var, th>>
    BY <1>1, ZenonT(60) DEF TransferSetUp, Fatal
  <2> QED
    BY <2>1, UnitsFatal
<1>2. CASE status' = status
  <2> DEFINE x     == th[t].options
             fsize == size[th[t].file]
             total == Updated(x.size, fsize)
             block == Updated(x.block_size, fsize)
  <2>1. /\ UNCHANGED <<dir, size, fds, var>>
        /\ fsize \in Nat /\ total \in Nat
        /\ \E units : /\ LaidOut(units, x, block, fsize)
                      /\ th' = [th EXCEPT ![t].stage = "units", ![t].fd = var[t],
                            ![t].size_ = total, ![t].block_size_ = block,
                            ![t].file_size = fsize, ![t].units_ = units, ![t].moved = 0,
                            ![t].shrunk = FALSE, ![t].short = FALSE]
    BY <1>2, TransferSetUpReady, ZenonT(60)
  <2> HIDE DEF fsize, total, block, x
  <2>2. PICK units : /\ LaidOut(units, x, block, fsize)
                     /\ th' = [th EXCEPT ![t].stage = "units", ![t].fd = var[t],
                            ![t].size_ = total, ![t].block_size_ = block,
                            ![t].file_size = fsize, ![t].units_ = units, ![t].moved = 0,
                            ![t].shrunk = FALSE, ![t].short = FALSE]
    BY <2>1, ZenonT(60)
  <2>3. /\ th'[t].units_ = units /\ th'[t].block_size_ = block /\ th'[t].file_size = fsize
        /\ th'[t].options = x /\ th'[t].file = th[t].file /\ th'[t].short = FALSE
        /\ \A u \in Threads : u # t => th'[u] = th[u]
    BY <2>2, SMTT(40) DEF Descriptors, Typed, ThreadRecords, x
  <2>4. LaidOut(units, x, block, fsize)
    BY <2>2
  <2>5. UnitsInside'
    <3> SUFFICES ASSUME NEW u \in Threads, th'[u].stage = "units",
                        NEW k \in DOMAIN th'[u].units_
                 PROVE  th'[u].units_[k] + th'[u].block_size_ <= th'[u].file_size
      BY DEF UnitsInside
    <3>1. CASE u = t
      BY <3>1, <2>3, <2>4 DEF LaidOut
    <3>2. CASE u # t
      BY <3>2, <2>3 DEF Units, UnitsInside
    <3> QED
      BY <3>1, <3>2
  <2>6. SizeKept'
    <3> SUFFICES ASSUME NEW u \in Threads, th'[u].stage = "units", ~th'[u].shrunk
                 PROVE  th'[u].file_size <= size[th'[u].file]
      BY <2>1 DEF SizeKept
    <3>1. CASE u = t
      <4>1. th'[u].file_size = fsize /\ size[th'[u].file] = fsize
        BY <3>1, <2>3, SMTT(40) DEF fsize
      <4>2. fsize \in Nat
        BY <2>1
      <4> QED
        BY <4>1, <4>2
    <3>2. CASE u # t
      BY <3>2, <2>3 DEF Units, SizeKept
    <3> QED
      BY <3>1, <3>2, SMTT(40)
  <2>7. WholeFileOnce'
    <3> SUFFICES ASSUME NEW u \in Threads
                 PROVE  WholeOnce(th'[u])
      BY DEF WholeFileOnce, WholeOnce
    <3>1. CASE u = t
      BY <3>1, <2>3, <2>4 DEF LaidOut, WholeOnce
    <3>2. CASE u # t
      BY <3>2, <2>3 DEF Units, WholeFileOnce, WholeOnce
    <3> QED
      BY <3>1, <3>2
  <2>8. ShortOnlyIfCut'
    BY <2>3 DEF Units, ShortOnlyIfCut
  <2> QED
    BY <2>5, <2>6, <2>7, <2>8 DEF Units
<1> QED
  BY <1>1, <1>2

\* A write only grows the file; a unit inside the file as it was measured is
\* inside it as it is, unless it was cut.
LEMMA UnitsUnit ==
  ASSUME Descriptors, Units, NEW t \in Threads, TransferUnit(t)
  PROVE  Units'
<1> DEFINE offset == Head(th[t].units_)
           block  == th[t].block_size_
           f      == fds[th[t].fd]
           past   == offset + block > size[f]
<1>1. /\ th' = [th EXCEPT ![t].units_ = Tail(@), ![t].moved = @ + block, ![t].short = @ \/ past]
      /\ size' = IF past /\ th[t].options.kind = "write_file"
                   THEN [size EXCEPT ![f] = offset + block] ELSE size
      /\ At(t, "units") /\ th[t].units_ # << >>
  BY DEF TransferUnit
<1>2. /\ th[t] \in ThreadRecords /\ th[t].stage = "units"
      /\ block \in Nat /\ th[t].units_ \in Seq(Nat) /\ f \in Files /\ f = th[t].file
      /\ size \in [Files -> Nat] /\ th[t].file_size \in Nat /\ th[t].moved \in Nat
  <2>1. th[t] \in ThreadRecords /\ size \in [Files -> Nat]
    BY DEF Descriptors, Typed
  <2>2. th[t].stage = "units"
    BY <1>1 DEF At
  <2>3. block \in Nat
    BY <2>2 DEF Descriptors, Staged
  <2>4. th[t].units_ \in Seq(Nat) /\ th[t].file_size \in Nat /\ th[t].moved \in Nat
    BY <2>1 DEF ThreadRecords
  <2>5. f \in Files /\ f = th[t].file
    BY <1>1, <2>2, TransferFile
  <2> QED
    BY <2>1, <2>2, <2>3, <2>4, <2>5
<1>3. /\ offset \in Nat /\ Tail(th[t].units_) \in Seq(Nat)
      /\ Len(Tail(th[t].units_)) = Len(th[t].units_) - 1
      /\ \A i \in 1 .. Len(Tail(th[t].units_)) : Tail(th[t].units_)[i] = th[t].units_[i + 1]
      /\ offset = th[t].units_[1] /\ 1 \in DOMAIN th[t].units_
  <2> DEFINE q == th[t].units_
  <2>1. q \in Seq(Nat) /\ q # << >>
    BY <1>1, <1>2
  <2> HIDE DEF q
  <2>2. /\ Head(q) \in Nat /\ Tail(q) \in Seq(Nat) /\ Len(Tail(q)) = Len(q) - 1
        /\ \A i \in 1 .. Len(Tail(q)) : Tail(q)[i] = q[i + 1]
        /\ Head(q) = q[1] /\ 1 \in DOMAIN q
    BY <2>1, HeadTailProperties
  <2> QED
    BY <2>2 DEF q
<1>4. offset + block <= th[t].file_size
  BY <1>2, <1>3 DEF Units, UnitsInside
<1>5. past => th[t].shrunk
  BY <1>2, <1>3, <1>4, SMTT(40) DEF Units, SizeKept
<1>6. \A g \in Files : size[g] <= size'[g] /\ size'[g] \in Nat
  <2>1. CASE past /\ th[t].options.kind = "write_file"
    <3>1. size' = [size EXCEPT ![f] = offset + block] /\ offset + block \in Nat
      BY <1>1, <1>2, <1>3, <2>1, SMTT(40)
    <3>2. size[f] <= offset + block
      BY <1>2, <1>3, <2>1
    <3> HIDE DEF f, offset, block
    <3> QED
      BY <1>2, <3>1, <3>2
  <2>2. CASE ~ (past /\ th[t].options.kind = "write_file")
    <3>1. size' = size
      BY <1>1, <2>2
    <3> QED
      BY <1>2, <3>1
  <2> QED
    BY <2>1, <2>2
<1> HIDE DEF past
<1>7. /\ th'[t].units_ = Tail(th[t].units_) /\ th'[t].moved = th[t].moved + block
      /\ th'[t].stage = "units" /\ th'[t].block_size_ = block
      /\ th'[t].file_size = th[t].file_size /\ th'[t].file = th[t].file
      /\ th'[t].options = th[t].options /\ th'[t].shrunk = th[t].shrunk
      /\ th'[t].short = (th[t].short \/ past)
      /\ \A u \in Threads : u # t => th'[u] = th[u]
  <2> HIDE DEF offset, f
  <2>1. th \in [Threads -> ThreadRecords]
    BY DEF Descriptors, Typed
  <2> QED
    BY <1>1, <1>2, <2>1 DEF ThreadRecords
<1>8. UnitsInside'
  <2>1. ASSUME NEW k \in DOMAIN Tail(th[t].units_)
        PROVE  Tail(th[t].units_)[k] + block <= th[t].file_size
    <3>1. k \in 1 .. Len(Tail(th[t].units_)) /\ k + 1 \in DOMAIN th[t].units_
      BY <1>2, <1>3
    <3> QED
      BY <1>2, <1>3, <3>1 DEF Units, UnitsInside
  <2> QED
    BY <1>7, <2>1, ZenonT(60) DEF Units, UnitsInside
<1>9. SizeKept'
  <2> SUFFICES ASSUME NEW u \in Threads, th[u].stage = "units", ~th[u].shrunk
               PROVE  th[u].file_size <= size'[th[u].file]
    BY <1>2, <1>7 DEF SizeKept
  <2>1. th[u].file \in Files /\ th[u].file_size \in Nat /\ th[u].file_size <= size[th[u].file]
    BY DEF Units, SizeKept, Descriptors, Typed, Staged, HasFile, ThreadRecords
  <2> QED
    BY <1>2, <1>6, <2>1
<1>10. WholeFileOnce'
  <2> SUFFICES ASSUME NEW u \in Threads
               PROVE  WholeOnce(th'[u])
    BY DEF WholeFileOnce, WholeOnce
  <2>1. CASE u = t
    <3>1. block > 0 => th'[u].moved # 0
      BY <1>2, <1>7, <2>1
    <3> QED
      BY <1>2, <1>7, <2>1, <3>1 DEF Divides, WholeOnce
  <2>2. CASE u # t
    BY <2>2, <1>7 DEF Units, WholeFileOnce, WholeOnce
  <2> QED
    BY <2>1, <2>2
<1>11. ShortOnlyIfCut'
  BY <1>5, <1>7 DEF Units, ShortOnlyIfCut
<1> QED
  BY <1>8, <1>9, <1>10, <1>11 DEF Units

-----------------------------------------------------------------------------
(* Theorems *)

\* Before the first instruction there are no units.
LEMMA UnitsInit == Init => Units
BY DEF Init, Thread, Units, UnitsInside, SizeKept, WholeFileOnce, ShortOnlyIfCut

\* Every system call of every thread keeps what is known of the units.
LEMMA UnitsNext == Descriptors /\ Units /\ [Next]_vars => Units'
<1> SUFFICES ASSUME Descriptors, Units, [Next]_vars PROVE Units'
  OBVIOUS
<1>1. CASE UNCHANGED vars
  BY <1>1, UnitsFatal DEF vars
<1>2. ASSUME NEW t \in Threads, Step(t) PROVE Units'
  BY <1>2, UnitsOtherSteps, UnitsOpenRun, UnitsResizeRun, UnitsSetUp, UnitsUnit DEF Step
<1> QED
  BY <1>1, <1>2 DEF Next

\* The inductive invariant holds of every run of the instructions.
THEOREM Invariance == Spec => []IInv
<1>1. Init => IInv
  BY DescriptorsInit, UnitsInit DEF IInv
<1>2. IInv /\ [Next]_vars => IInv'
  BY DescriptorsNext, UnitsNext DEF IInv
<1> QED
  BY <1>1, <1>2, PTL DEF Spec

\* The descriptor table, the variables and the threads keep their types, for
\* any number of threads and any descriptor limit: open() always finds a file
\* to create, and a size is only read or changed through an open file.
THEOREM TypeCorrect == Spec => []TypeOK
<1>1. IInv => TypeOK
  BY TypedImpliesTypeOK DEF IInv, Descriptors
<1> QED
  BY <1>1, Invariance, PTL

\* A thread's variable names the file it opened until it closes it.
THEOREM OwnersKeepDescriptors == Spec => []DescriptorsOwned
<1>1. IInv => DescriptorsOwned
  BY DEF IInv, Descriptors
<1> QED
  BY <1>1, Invariance, PTL

\* Every unit of ReadWriteFile lies inside the file as SetUpSingle measured
\* it, for every size, block size, starting offset and order.
THEOREM UnitsAreInside == Spec => []UnitsInside
<1>1. IInv => UnitsInside
  BY DEF IInv, Units
<1> QED
  BY <1>1, Invariance, PTL

\* A sequential access to the whole file visits every block exactly once, from
\* any block on and for any file size that is a multiple of the block size.
THEOREM WholeFileVisitedOnce == Spec => []WholeFileOnce
<1>1. IInv => WholeFileOnce
  BY DEF IInv, Units
<1> QED
  BY <1>1, Invariance, PTL

\* A read or write is short only if the file was cut since SetUpSingle.
THEOREM ShortOnlyAfterCut == Spec => []ShortOnlyIfCut
<1>1. IInv => ShortOnlyIfCut
  BY DEF IInv, Units
<1> QED
  BY <1>1, Invariance, PTL
=============================================================================
