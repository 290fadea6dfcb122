---------------------------- MODULE PeriodicProofs ----------------------------
(***************************************************************************)
(* Theorems about Timespec and Periodic, for every radix, instruction and  *)
(* number of rounds.                                                       *)
(***************************************************************************)
EXTENDS Periodic, TLAPS

-----------------------------------------------------------------------------
(* Arithmetic *)

\* There is more than one nanosecond in a second.
LEMMA NanosPerSecPositive == NanosPerSec \in Nat /\ NanosPerSec > 1
BY RadixAssumption DEF NanosPerSec

\* The number of nanoseconds of a timespec is a natural number.
LEMMA NanosType ==
  ASSUME NEW t \in Timespecs
  PROVE  TimespecToNanos(t) \in Nat
<1>1. t.tv_sec \in Nat /\ t.tv_nsec \in Nat /\ NanosPerSec \in Nat
  BY NanosPerSecPositive DEF Timespecs
<1>2. t.tv_sec * NanosPerSec \in Nat
  BY <1>1
<1> QED
  BY <1>1, <1>2 DEF TimespecToNanos

\* The sum of two timespecs is normalised and is the sum of their nanoseconds:
\* operator+ carries exactly when it must.
THEOREM PlusCorrect ==
  ASSUME NEW t1 \in Timespecs, NEW t2 \in Timespecs
  PROVE  /\ Plus(t1, t2) \in Timespecs
         /\ TimespecToNanos(Plus(t1, t2)) = TimespecToNanos(t1) + TimespecToNanos(t2)
<1> DEFINE N == NanosPerSec
<1>1. N \in Nat /\ N > 0
  BY NanosPerSecPositive
<1>2. /\ t1.tv_sec \in Nat /\ t1.tv_nsec \in 0 .. N - 1
      /\ t2.tv_sec \in Nat /\ t2.tv_nsec \in 0 .. N - 1
  BY DEF Timespecs
<1>3. (t1.tv_sec + t2.tv_sec) * N = t1.tv_sec * N + t2.tv_sec * N
  BY <1>1, <1>2
<1>4. (t1.tv_sec + t2.tv_sec + 1) * N = t1.tv_sec * N + t2.tv_sec * N + N
  BY <1>1, <1>2
<1>5. t1.tv_sec * N \in Int /\ t2.tv_sec * N \in Int
  BY <1>1, <1>2
<1>6. CASE t1.tv_nsec + t2.tv_nsec >= N
  <2>1. Plus(t1, t2) = [tv_sec  |-> t1.tv_sec + t2.tv_sec + 1,
                        tv_nsec |-> t1.tv_nsec + t2.tv_nsec - N]
    BY <1>6 DEF Plus
  <2>2. Plus(t1, t2) \in Timespecs
    BY <1>1, <1>2, <1>6, <2>1 DEF Timespecs
  <2> HIDE DEF N
  <2>3. TimespecToNanos(Plus(t1, t2)) =
          (t1.tv_sec + t2.tv_sec + 1) * N + (t1.tv_nsec + t2.tv_nsec - N)
    BY <2>1 DEF TimespecToNanos, N
  <2>4. (t1.tv_sec + t2.tv_sec + 1) * N + (t1.tv_nsec + t2.tv_nsec - N)
          = (t1.tv_sec * N + t1.tv_nsec) + (t2.tv_sec * N + t2.tv_nsec)
    BY <1>1, <1>2, <1>4, <1>5
  <2> QED
    BY <2>2, <2>3, <2>4 DEF TimespecToNanos, N
<1>7. CASE ~(t1.tv_nsec + t2.tv_nsec >= N)
  <2>1. Plus(t1, t2) = [tv_sec  |-> t1.tv_sec + t2.tv_sec,
                        tv_nsec |-> t1.tv_nsec + t2.tv_nsec]
    BY <1>7 DEF Plus
  <2>2. Plus(t1, t2) \in Timespecs
    BY <1>1, <1>2, <1>7, <2>1 DEF Timespecs
  <2> HIDE DEF N
  <2>3. TimespecToNanos(Plus(t1, t2)) =
          (t1.tv_sec + t2.tv_sec) * N + (t1.tv_nsec + t2.tv_nsec)
    BY <2>1 DEF TimespecToNanos, N
  <2>4. (t1.tv_sec + t2.tv_sec) * N + (t1.tv_nsec + t2.tv_nsec)
          = (t1.tv_sec * N + t1.tv_nsec) + (t2.tv_sec * N + t2.tv_nsec)
    BY <1>1, <1>2, <1>3, <1>5
  <2> QED
    BY <2>2, <2>3, <2>4 DEF TimespecToNanos, N
<1> QED
  BY <1>6, <1>7

\* operator< orders timespecs as their nanoseconds are ordered.
THEOREM LessCorrect ==
  ASSUME NEW t1 \in Timespecs, NEW t2 \in Timespecs
  PROVE  Less(t1, t2) <=> TimespecToNanos(t1) < TimespecToNanos(t2)
<1> DEFINE N == NanosPerSec
<1>1. N \in Nat /\ N > 0
  BY NanosPerSecPositive
<1>2. /\ t1.tv_sec \in Nat /\ t1.tv_nsec \in 0 .. N - 1
      /\ t2.tv_sec \in Nat /\ t2.tv_nsec \in 0 .. N - 1
  BY DEF Timespecs
<1>3. ASSUME NEW a \in Nat, NEW b \in Nat, a < b
      PROVE  a * N + N <= b * N
  <2> HIDE DEF N
  <2>1. PICK d \in Nat : b = a + 1 + d
    <3>1. b - a - 1 \in Nat /\ b = a + 1 + (b - a - 1)
      BY <1>3
    <3> QED
      BY <3>1
  <2>2. (a + 1 + d) * N = a * N + N + d * N
    BY <1>1
  <2>3. d * N \in Nat
    BY <1>1
  <2>4. a * N \in Nat
    BY <1>1
  <2> QED
    BY <1>1, <2>1, <2>2, <2>3, <2>4
<1>4. t1.tv_sec * N \in Int /\ t2.tv_sec * N \in Int
  BY <1>1, <1>2
<1>5. CASE t1.tv_sec < t2.tv_sec
  <2>1. t1.tv_sec * N + N <= t2.tv_sec * N
    BY <1>2, <1>3, <1>5
  <2> QED
    BY <1>1, <1>2, <1>4, <1>5, <2>1 DEF Less, TimespecToNanos
<1>6. CASE t2.tv_sec < t1.tv_sec
  <2>1. t2.tv_sec * N + N <= t1.tv_sec * N
    BY <1>2, <1>3, <1>6
  <2> QED
    BY <1>1, <1>2, <1>4, <1>6, <2>1 DEF Less, TimespecToNanos
<1>7. CASE t1.tv_sec = t2.tv_sec
  BY <1>1, <1>2, <1>4, <1>7 DEF Less, TimespecToNanos
<1> QED
  BY <1>2, <1>5, <1>6, <1>7

\* The difference of two timespecs in order is normalised and is the difference
\* of their nanoseconds: operator- borrows exactly when it must.
THEOREM MinusCorrect ==
  ASSUME NEW t1 \in Timespecs, NEW t2 \in Timespecs, ~Less(t1, t2)
  PROVE  /\ Minus(t1, t2) \in Timespecs
         /\ TimespecToNanos(Minus(t1, t2)) = TimespecToNanos(t1) - TimespecToNanos(t2)
<1> DEFINE N == NanosPerSec
<1>1. N \in Nat /\ N > 0
  BY NanosPerSecPositive
<1>2. /\ t1.tv_sec \in Nat /\ t1.tv_nsec \in 0 .. N - 1
      /\ t2.tv_sec \in Nat /\ t2.tv_nsec \in 0 .. N - 1
  BY DEF Timespecs
<1>3. (t1.tv_sec - t2.tv_sec) * N = t1.tv_sec * N - t2.tv_sec * N
  BY <1>1, <1>2
<1>4. (t1.tv_sec - t2.tv_sec - 1) * N = t1.tv_sec * N - t2.tv_sec * N - N
  BY <1>1, <1>2
<1>5. t1.tv_sec * N \in Int /\ t2.tv_sec * N \in Int
  BY <1>1, <1>2
<1>6. CASE t1.tv_nsec < t2.tv_nsec
  <2>1. Minus(t1, t2) = [tv_sec  |-> t1.tv_sec - t2.tv_sec - 1,
                         tv_nsec |-> N - t2.tv_nsec + t1.tv_nsec]
    BY <1>6 DEF Minus
  <2>2. Minus(t1, t2) \in Timespecs
    BY <1>1, <1>2, <1>6, <2>1 DEF Timespecs, Less
  <2> HIDE DEF N
  <2>3. TimespecToNanos(Minus(t1, t2)) =
          (t1.tv_sec - t2.tv_sec - 1) * N + (N - t2.tv_nsec + t1.tv_nsec)
    BY <2>1 DEF TimespecToNanos, N
  <2>4. (t1.tv_sec - t2.tv_sec - 1) * N + (N - t2.tv_nsec + t1.tv_nsec)
          = (t1.tv_sec * N + t1.tv_nsec) - (t2.tv_sec * N + t2.tv_nsec)
    BY <1>1, <1>2, <1>4, <1>5
  <2> QED
    BY <2>2, <2>3, <2>4 DEF TimespecToNanos, N
<1>7. CASE ~(t1.tv_nsec < t2.tv_nsec)
  <2>1. Minus(t1, t2) = [tv_sec  |-> t1.tv_sec - t2.tv_sec,
                         tv_nsec |-> t1.tv_nsec - t2.tv_nsec]
    BY <1>7 DEF Minus
  <2>2. Minus(t1, t2) \in Timespecs
    BY <1>1, <1>2, <1>7, <2>1 DEF Timespecs, Less
  <2> HIDE DEF N
  <2>3. TimespecToNanos(Minus(t1, t2)) =
          (t1.tv_sec - t2.tv_sec) * N + (t1.tv_nsec - t2.tv_nsec)
    BY <2>1 DEF TimespecToNanos, N
  <2>4. (t1.tv_sec - t2.tv_sec) * N + (t1.tv_nsec - t2.tv_nsec)
          = (t1.tv_sec * N + t1.tv_nsec) - (t2.tv_sec * N + t2.tv_nsec)
    BY <1>1, <1>2, <1>3, <1>5
  <2> QED
    BY <2>2, <2>3, <2>4 DEF TimespecToNanos, N
<1> QED
  BY <1>6, <1>7

\* A timespec that comes from microseconds is normalised and stands for that
\* many microseconds.
THEOREM MicrosCorrect ==
  ASSUME NEW t_us \in Nat
  PROVE  /\ MicrosToTimespec(t_us) \in Timespecs
         /\ TimespecToNanos(MicrosToTimespec(t_us)) = Nanos(t_us)
<1> DEFINE M == MicrosPerSec
           K == NanosPerMicro
           q == t_us \div M
           r == t_us % M
<1>1. M \in Nat /\ M > 0 /\ K \in Nat /\ K > 0
  BY RadixAssumption
<1>2. q \in Nat /\ r \in 0 .. M - 1 /\ t_us = q * M + r
  BY <1>1
<1> HIDE DEF M, K, q, r
<1>3. r * K \in Nat /\ r * K <= (M - 1) * K
  BY <1>1, <1>2
<1>4. (M - 1) * K = M * K - K /\ M * K \in Nat
  BY <1>1
<1>5. r * K \in 0 .. M * K - 1
  BY <1>1, <1>3, <1>4
<1>6. MicrosToTimespec(t_us) = [tv_sec |-> q, tv_nsec |-> r * K]
  BY DEF MicrosToTimespec, q, r, M, K
<1>7. NanosPerSec = M * K
  BY DEF NanosPerSec, M, K
<1>8. q * (M * K) + r * K = (q * M + r) * K
  BY <1>1, <1>2
<1>9. Nanos(t_us) = (q * M + r) * K
  BY <1>2 DEF Nanos, K
<1> QED
  BY <1>2, <1>5, <1>6, <1>7, <1>8, <1>9 DEF Timespecs, TimespecToNanos

\* Nanoseconds survive the way there and back, so that division, which goes
\* through nanoseconds, does not change the value it divides.
THEOREM RoundTrip ==
  ASSUME NEW t \in Timespecs
  PROVE  NanosToTimespec(TimespecToNanos(t)) = t
<1> DEFINE N == NanosPerSec
           x == TimespecToNanos(t)
<1>1. N \in Nat /\ N > 0
  BY NanosPerSecPositive
<1>2. t.tv_sec \in Nat /\ t.tv_nsec \in 0 .. N - 1 /\ t = [tv_sec |-> t.tv_sec, tv_nsec |-> t.tv_nsec]
  BY DEF Timespecs
<1>3. ASSUME NEW a \in Nat, NEW b \in 0 .. N - 1
      PROVE  (a * N + b) \div N = a /\ (a * N + b) % N = b
  <2> HIDE DEF N
  <2> QED
    BY <1>1
<1>4. x \div N = t.tv_sec /\ x % N = t.tv_nsec
  BY <1>2, <1>3 DEF TimespecToNanos
<1> QED
  BY <1>2, <1>4 DEF NanosToTimespec

-----------------------------------------------------------------------------
(* The inductive invariant of Periodic *)

NanosOf(t) == TimespecToNanos(t)
Work == Nanos(options.work_us)

\* A round is only run while rounds are left, and the process never exits.
RoundLeft == (stage # "created" => round < MaxRounds) /\ stage # "exited"

\* The round was set up in the past, and a repetition that is awake was due
\* in the past.
PastDue ==
  /\ stage # "created" => base <= NanosOf(clock)
  /\ SetsWakeup /\ stage = "woken" => NanosOf(clock) >= Due(i)

\* The open interval began in the past, in this round.
StartInRound ==
  stage \in {"started", "run", "teardown"} =>
    base <= NanosOf(start_) /\ NanosOf(start_) <= NanosOf(clock)

\* CPU time has advanced by no more than the clock, and work that is done
\* took its time.
CpuBehindClock ==
  options.kind = "cpu_work" =>
    /\ stage = "run" =>
         NanosOf(clock) + NanosOf(time_end) >= NanosOf(start_) + NanosOf(cpu) + Work
    /\ stage = "teardown" => NanosOf(clock) >= NanosOf(start_) + Work

IInv ==
  /\ TypeOK /\ RoundLeft /\ PastDue /\ StartInRound /\ CpuBehindClock
  /\ NoDrift /\ NeverEarly /\ WorkMeasured /\ SampleInRound

\* The options of an instruction are natural numbers.
LEMMA OptionsType ==
  ASSUME TypeOK
  PROVE  /\ options.period_us \in Nat /\ options.offset_us \in Nat
         /\ options.work_us \in Nat /\ options.repeat \in Nat
         /\ Nanos(options.period_us) \in Nat /\ Nanos(options.offset_us) \in Nat
         /\ Work \in Nat
BY PeriodicAssumption, RadixAssumption DEF TypeOK, Nanos, Work

\* Every clock reading and wake-up is a natural number of nanoseconds.
LEMMA StateNanos ==
  ASSUME TypeOK
  PROVE  /\ NanosOf(clock) \in Nat /\ NanosOf(cpu) \in Nat
         /\ NanosOf(start_) \in Nat /\ NanosOf(time_end) \in Nat
         /\ NanosOf(next_wakeup_) \in Nat /\ base \in Nat
BY NanosType DEF TypeOK, NanosOf

\* The first repetition is due after the offset, each other one a period after
\* the one before.
LEMMA DueStep ==
  ASSUME TypeOK
  PROVE  /\ Due(0) = base + Nanos(options.offset_us)
         /\ \A k \in Nat : Due(k) \in Nat /\ Due(k + 1) = Due(k) + Nanos(options.period_us)
<1>1. base \in Nat /\ Nanos(options.period_us) \in Nat /\ Nanos(options.offset_us) \in Nat
  BY OptionsType DEF TypeOK
<1>2. ASSUME NEW p \in Nat, NEW k \in Nat
      PROVE  0 * p = 0 /\ k * p \in Nat /\ (k + 1) * p = k * p + p
  OBVIOUS
<1> QED
  BY <1>1, <1>2 DEF Due

\* Zero and the smallest step of a clock.
LEMMA Constants ==
  /\ Zero \in Timespecs /\ NanosOf(Zero) = 0
  /\ Instant \in Timespecs /\ NanosOf(Instant) = 1
BY NanosPerSecPositive DEF Zero, Instant, Timespecs, NanosOf, TimespecToNanos

\* Every step keeps the state well typed.
LEMMA TypeStep ==
  ASSUME TypeOK, RoundLeft, [Next]_vars
  PROVE  TypeOK'
<1> USE DEF TypeOK, Stages
<1>1. CASE Tick
  BY <1>1, Constants, PlusCorrect DEF Tick
<1>2. CASE SetUp
  <2>1. FirstWakeup(clock) \in Timespecs
    BY OptionsType, MicrosCorrect, PlusCorrect DEF FirstWakeup
  <2> QED
    BY <1>2, <2>1, NanosType DEF SetUp
<1>3. CASE Wake
  <2>1. Following(clock) \in Timespecs
    BY OptionsType, MicrosCorrect, PlusCorrect DEF Following
  <2> QED
    BY <1>3, <2>1 DEF Wake
<1>4. CASE MeasureStart
  BY <1>4 DEF MeasureStart
<1>5. CASE RunSingle
  BY <1>5, OptionsType, MicrosCorrect, PlusCorrect DEF RunSingle
<1>6. CASE RunEnds
  BY <1>6 DEF RunEnds
<1>7. CASE MeasureEnd
  BY <1>7, MinusCorrect DEF MeasureEnd
<1>8. CASE RunReturns
  BY <1>8, PeriodicAssumption DEF RunReturns, RoundLeft
<1>9. CASE UNCHANGED vars
  BY <1>9 DEF vars
<1> QED
  BY <1>1, <1>2, <1>3, <1>4, <1>5, <1>6, <1>7, <1>8, <1>9 DEF Next

\* Time passing preserves the invariant.
LEMMA TickStep ==
  ASSUME IInv, Tick, TypeOK'
  PROVE  IInv'
<1>1. /\ NanosOf(clock)' = NanosOf(clock) + 1
      /\ NanosOf(cpu)' \in {NanosOf(cpu), NanosOf(cpu) + 1}
  BY Constants, PlusCorrect DEF Tick, IInv, TypeOK, NanosOf
<1>2. /\ UNCHANGED <<options, stage, i, round, next_wakeup_, start_, samples_, time_end, base>>
      /\ NanosOf(start_)' = NanosOf(start_) /\ NanosOf(time_end)' = NanosOf(time_end)
  BY DEF Tick, NanosOf
<1>3. Wakeups' = Wakeups
  BY <1>2 DEF Wakeups
<1>4. /\ Due(i)' = Due(i) /\ Due(i - 1)' = Due(i - 1) /\ Due(Wakeups)' = Due(Wakeups)
      /\ SetsWakeup' = SetsWakeup /\ Work' = Work
  BY <1>2, <1>3 DEF Due, SetsWakeup, Timed, Work
<1>5. NanosOf(clock) \in Nat /\ NanosOf(cpu) \in Nat /\ NanosOf(start_) \in Nat
      /\ NanosOf(time_end) \in Nat /\ base \in Nat /\ Work \in Nat
  BY StateNanos, OptionsType DEF IInv
<1>6. Due(i) \in Nat
  BY DueStep DEF IInv, TypeOK
<1>7. RoundLeft' /\ WorkMeasured' /\ NoDrift' /\ NeverEarly'
  BY <1>2, <1>4 DEF IInv, RoundLeft, WorkMeasured, NoDrift, NeverEarly
<1>8. PastDue'
  BY <1>1, <1>2, <1>4, <1>5, <1>6 DEF IInv, PastDue
<1>9. StartInRound'
  BY <1>1, <1>2, <1>5 DEF IInv, StartInRound
<1>10. CpuBehindClock'
  BY <1>1, <1>2, <1>4, <1>5 DEF IInv, CpuBehindClock
<1>11. SampleInRound'
  <2>1. SUFFICES ASSUME stage = "loop", i > 0
                 PROVE  SampleInRound'
    BY <1>2 DEF SampleInRound
  <2> DEFINE s == TimespecToNanos(samples_[Len(samples_)])
  <2>2. s \in Nat /\ Due(i - 1) \in Nat
    <3>1. i - 1 \in Nat
      BY <2>1 DEF IInv, TypeOK
    <3>2. samples_[Len(samples_)] \in Timespecs
      BY <2>1 DEF IInv, TypeOK, SampleInRound
    <3> QED
      BY <3>1, <3>2, NanosType, DueStep DEF IInv
  <2>3. s' = s
    BY <1>2
  <2> QED
    BY <1>1, <1>2, <1>4, <1>5, <2>1, <2>2, <2>3 DEF IInv, SampleInRound, NanosOf
<1> QED
  BY <1>7, <1>8, <1>9, <1>10, <1>11 DEF IInv

\* SetUp starts a round: nothing is due before the offset has passed.
LEMMA SetUpStep ==
  ASSUME IInv, SetUp, TypeOK'
  PROVE  IInv'
<1>1. /\ stage' = "loop" /\ i' = 0 /\ base' = NanosOf(clock) /\ round < MaxRounds
      /\ UNCHANGED <<options, clock, round, start_, samples_, time_end>>
      /\ next_wakeup_' = FirstWakeup(clock)
  BY DEF SetUp, NanosOf
<1>2. NanosOf(clock) \in Nat /\ NanosOf(clock)' = NanosOf(clock)
  BY <1>1, StateNanos DEF IInv, NanosOf
<1>3. NoDrift'
  <2>1. SUFFICES ASSUME SetsWakeup
                 PROVE  TimespecToNanos(next_wakeup_)' = Due(Wakeups)'
    BY <1>1 DEF NoDrift, SetsWakeup, Timed
  <2>2. next_wakeup_' = Plus(clock, MicrosToTimespec(options.offset_us))
    BY <1>1, <2>1 DEF FirstWakeup, SetsWakeup
  <2>3. TimespecToNanos(next_wakeup_)' = NanosOf(clock) + Nanos(options.offset_us)
    BY <2>2, PlusCorrect, MicrosCorrect, OptionsType DEF IInv, TypeOK, NanosOf
  <2>4. Wakeups' = 0
    BY <1>1 DEF Wakeups
  <2>5. Nanos(options.period_us) \in Nat /\ Nanos(options.offset_us) \in Nat
    BY OptionsType DEF IInv
  <2>6. Due(0)' = NanosOf(clock) + Nanos(options.offset_us)
    BY <1>1, <1>2, <2>5 DEF Due
  <2> QED
    BY <2>3, <2>4, <2>6
<1>4. RoundLeft' /\ PastDue'
  BY <1>1, <1>2 DEF RoundLeft, PastDue
<1>5. StartInRound' /\ CpuBehindClock' /\ NeverEarly' /\ SampleInRound'
  BY <1>1 DEF StartInRound, CpuBehindClock, NeverEarly, SampleInRound
<1>6. WorkMeasured'
  BY <1>1 DEF IInv, WorkMeasured
<1> QED
  BY <1>3, <1>4, <1>5, <1>6 DEF IInv

\* A thread that wakes up does so when it is due, and moves the next wake-up on
\* by one period, however late it is.
LEMMA WakeStep ==
  ASSUME IInv, Wake, TypeOK'
  PROVE  IInv'
<1>1. /\ stage = "loop" /\ stage' = "woken" /\ next_wakeup_' = Following(clock)
      /\ UNCHANGED <<options, clock, i, round, start_, samples_, time_end, base>>
      /\ Timed => GreaterOrEqual(clock, next_wakeup_)
  BY DEF Wake
<1>2. NanosOf(clock)' = NanosOf(clock) /\ Due(i)' = Due(i) /\ SetsWakeup' = SetsWakeup
  BY <1>1 DEF NanosOf, Due, SetsWakeup, Timed
<1>3. i \in Nat /\ Wakeups = i /\ Wakeups' = i + 1
  BY <1>1 DEF Wakeups, IInv, TypeOK
<1>4. NoDrift'
  <2>1. SUFFICES ASSUME SetsWakeup
                 PROVE  TimespecToNanos(next_wakeup_)' = Due(Wakeups)'
    BY <1>2 DEF NoDrift
  <2>2. next_wakeup_' = Plus(next_wakeup_, MicrosToTimespec(options.period_us))
    BY <1>1, <2>1 DEF Following, SetsWakeup
  <2>3. TimespecToNanos(next_wakeup_)' = TimespecToNanos(next_wakeup_) + Nanos(options.period_us)
    BY <2>2, PlusCorrect, MicrosCorrect, OptionsType DEF IInv, TypeOK
  <2>4. TimespecToNanos(next_wakeup_) = Due(i)
    BY <1>1, <1>3, <2>1 DEF IInv, NoDrift
  <2>5. Due(i + 1) = Due(i) + Nanos(options.period_us)
    BY <1>3, DueStep DEF IInv
  <2>6. Due(Wakeups)' = Due(i + 1)
    BY <1>1, <1>3 DEF Due
  <2> QED
    BY <2>3, <2>4, <2>5, <2>6
<1>5. PastDue'
  <2>1. ASSUME SetsWakeup
        PROVE  NanosOf(clock) >= Due(i)
    <3>1. TimespecToNanos(next_wakeup_) = Due(i)
      BY <1>1, <1>3, <2>1 DEF IInv, NoDrift
    <3>2. clock = next_wakeup_ \/ Less(next_wakeup_, clock)
      <4>1. clock \in Timespecs /\ next_wakeup_ \in Timespecs
        BY DEF IInv, TypeOK
      <4>2. ~Less(clock, next_wakeup_)
        BY <1>1, <2>1, <4>1, NanosPerSecPositive
        DEF SetsWakeup, GreaterOrEqual, Greater, LessOrEqual, Less, Timespecs
      <4> QED
        BY <4>1, <4>2, NanosPerSecPositive DEF Less, Timespecs
    <3>3. NanosOf(clock) \in Nat /\ NanosOf(next_wakeup_) \in Nat
      BY StateNanos DEF IInv
    <3> QED
      BY <3>1, <3>2, <3>3, LessCorrect DEF IInv, TypeOK, NanosOf
  <2>2. base <= NanosOf(clock)
    BY <1>1 DEF IInv, PastDue
  <2> QED
    BY <1>1, <1>2, <2>1, <2>2 DEF PastDue
<1>6. RoundLeft' /\ StartInRound' /\ CpuBehindClock' /\ NeverEarly' /\ SampleInRound'
  BY <1>1 DEF IInv, RoundLeft, StartInRound, CpuBehindClock, NeverEarly, SampleInRound
<1>7. WorkMeasured'
  BY <1>1 DEF IInv, WorkMeasured
<1> QED
  BY <1>4, <1>5, <1>6, <1>7 DEF IInv

\* The measured interval opens after the wake-up.
LEMMA MeasureStartStep ==
  ASSUME IInv, MeasureStart, TypeOK'
  PROVE  IInv'
<1>1. /\ stage = "woken" /\ stage' = "started" /\ start_' = clock
      /\ UNCHANGED <<options, clock, i, round, next_wakeup_, samples_, time_end, base>>
  BY DEF MeasureStart
<1>2. /\ NanosOf(clock)' = NanosOf(clock) /\ NanosOf(start_)' = NanosOf(clock)
      /\ TimespecToNanos(start_)' = NanosOf(clock)
      /\ Due(i)' = Due(i) /\ SetsWakeup' = SetsWakeup
      /\ Wakeups' = Wakeups
  BY <1>1 DEF NanosOf, Due, SetsWakeup, Timed, Wakeups
<1>3. NanosOf(clock) \in Nat /\ base \in Nat
  BY StateNanos DEF IInv
<1>4. StartInRound' /\ PastDue'
  BY <1>1, <1>2, <1>3 DEF IInv, StartInRound, PastDue
<1>5. NeverEarly'
  BY <1>1, <1>2 DEF IInv, PastDue, NeverEarly
<1>6. NoDrift'
  BY <1>1, <1>2 DEF IInv, NoDrift, Due
<1>7. RoundLeft' /\ CpuBehindClock' /\ SampleInRound'
  BY <1>1 DEF IInv, RoundLeft, CpuBehindClock, SampleInRound
<1>8. WorkMeasured'
  BY <1>1 DEF IInv, WorkMeasured
<1> QED
  BY <1>4, <1>5, <1>6, <1>7, <1>8 DEF IInv

\* CPU work ends its work time after the CPU time it starts at.
LEMMA RunSingleStep ==
  ASSUME IInv, RunSingle, TypeOK'
  PROVE  IInv'
<1>1. /\ stage = "started" /\ stage' = "run"
      /\ UNCHANGED <<options, clock, cpu, i, round, next_wakeup_, start_, samples_, base>>
      /\ options.kind = "cpu_work" => time_end' = Plus(cpu, MicrosToTimespec(options.work_us))
  BY DEF RunSingle
<1>2. /\ NanosOf(clock)' = NanosOf(clock) /\ NanosOf(start_)' = NanosOf(start_)
      /\ NanosOf(cpu)' = NanosOf(cpu) /\ Work' = Work
      /\ Due(i)' = Due(i) /\ SetsWakeup' = SetsWakeup
      /\ Wakeups' = Wakeups
  BY <1>1 DEF NanosOf, Work, Due, SetsWakeup, Timed, Wakeups
<1>3. /\ NanosOf(clock) \in Nat /\ NanosOf(start_) \in Nat /\ NanosOf(cpu) \in Nat
      /\ Work \in Nat
  BY StateNanos, OptionsType DEF IInv
<1>4. CpuBehindClock'
  <2>1. SUFFICES ASSUME options.kind = "cpu_work"
                 PROVE  NanosOf(clock) + NanosOf(time_end)'
                          >= NanosOf(start_) + NanosOf(cpu) + Work
    BY <1>1, <1>2 DEF CpuBehindClock
  <2>2. NanosOf(time_end)' = NanosOf(cpu) + Work
    BY <1>1, <2>1, PlusCorrect, MicrosCorrect, OptionsType DEF IInv, TypeOK, NanosOf, Work
  <2>3. NanosOf(start_) <= NanosOf(clock)
    BY <1>1 DEF IInv, StartInRound
  <2> QED
    BY <1>3, <2>2, <2>3
<1>5. StartInRound' /\ PastDue'
  BY <1>1, <1>2 DEF IInv, StartInRound, PastDue
<1>6. NeverEarly'
  BY <1>1, <1>2 DEF IInv, NeverEarly
<1>7. NoDrift'
  BY <1>1, <1>2 DEF IInv, NoDrift, Due
<1>8. RoundLeft' /\ SampleInRound'
  BY <1>1 DEF IInv, RoundLeft, SampleInRound
<1>9. WorkMeasured'
  BY <1>1 DEF IInv, WorkMeasured
<1> QED
  BY <1>4, <1>5, <1>6, <1>7, <1>8, <1>9 DEF IInv

\* CPU work that ends has taken its work time.
LEMMA RunEndsStep ==
  ASSUME IInv, RunEnds, TypeOK'
  PROVE  IInv'
<1>1. /\ stage = "run" /\ stage' = "teardown"
      /\ UNCHANGED <<options, clock, i, round, next_wakeup_, start_, samples_, base>>
      /\ options.kind = "cpu_work" => ~Less(cpu, time_end)
  BY DEF RunEnds
<1>2. /\ NanosOf(clock)' = NanosOf(clock) /\ NanosOf(start_)' = NanosOf(start_)
      /\ Work' = Work
      /\ Due(i)' = Due(i) /\ SetsWakeup' = SetsWakeup
      /\ Wakeups' = Wakeups
  BY <1>1 DEF NanosOf, Work, Due, SetsWakeup, Timed, Wakeups
<1>3. CpuBehindClock'
  <2>1. SUFFICES ASSUME options.kind = "cpu_work"
                 PROVE  NanosOf(clock) >= NanosOf(start_) + Work
    BY <1>1, <1>2 DEF CpuBehindClock
  <2>2. ~(NanosOf(cpu) < NanosOf(time_end))
    BY <1>1, <2>1, LessCorrect DEF IInv, TypeOK, NanosOf
  <2>3. NanosOf(clock) + NanosOf(time_end) >= NanosOf(start_) + NanosOf(cpu) + Work
    BY <1>1, <2>1 DEF IInv, CpuBehindClock
  <2>4. /\ NanosOf(clock) \in Nat /\ NanosOf(start_) \in Nat /\ NanosOf(cpu) \in Nat
        /\ NanosOf(time_end) \in Nat /\ Work \in Nat
    BY StateNanos, OptionsType DEF IInv
  <2> QED
    BY <2>2, <2>3, <2>4
<1>4. StartInRound' /\ PastDue'
  BY <1>1, <1>2 DEF IInv, StartInRound, PastDue
<1>5. NeverEarly'
  BY <1>1, <1>2 DEF IInv, NeverEarly
<1>6. NoDrift'
  BY <1>1, <1>2 DEF IInv, NoDrift, Due
<1>7. RoundLeft' /\ SampleInRound'
  BY <1>1 DEF IInv, RoundLeft, SampleInRound
<1>8. WorkMeasured'
  BY <1>1 DEF IInv, WorkMeasured
<1> QED
  BY <1>3, <1>4, <1>5, <1>6, <1>7, <1>8 DEF IInv

\* The sample is the time since the interval was opened; the subtraction never
\* fails.
LEMMA MeasureEndStep ==
  ASSUME IInv, MeasureEnd, TypeOK'
  PROVE  IInv'
<1>1. /\ stage = "teardown"
      /\ UNCHANGED <<options, clock, round, next_wakeup_, base>>
  BY DEF MeasureEnd
<1>2. /\ clock \in Timespecs /\ start_ \in Timespecs /\ i \in Nat
      /\ NanosOf(clock) \in Nat /\ NanosOf(start_) \in Nat /\ base \in Nat /\ Work \in Nat
      /\ samples_ \in Seq(Timespecs)
  BY StateNanos, OptionsType DEF IInv, TypeOK
<1>3. base <= NanosOf(start_) /\ NanosOf(start_) <= NanosOf(clock)
  BY <1>1 DEF IInv, StartInRound
<1>4. ~Less(clock, start_)
  BY <1>2, <1>3, LessCorrect DEF NanosOf
<1> DEFINE s == Minus(clock, start_)
<1>5. /\ stage' = "loop" /\ i' = i + 1 /\ samples_' = Append(samples_, s)
  BY <1>4 DEF MeasureEnd
<1>6. s \in Timespecs /\ TimespecToNanos(s) = NanosOf(clock) - NanosOf(start_)
  BY <1>2, <1>4, MinusCorrect DEF NanosOf
<1> HIDE DEF s
<1>7. /\ NanosOf(clock)' = NanosOf(clock) /\ TimespecToNanos(clock)' = NanosOf(clock)
      /\ Due(i)' = Due(i + 1) /\ Due(i - 1)' = Due(i)
      /\ SetsWakeup' = SetsWakeup /\ Work' = Work
  BY <1>1, <1>2, <1>5 DEF NanosOf, Due, SetsWakeup, Timed, Work
<1>8. NoDrift'
  <2>1. Wakeups = i + 1 /\ Wakeups' = i + 1
    BY <1>1, <1>2, <1>5 DEF Wakeups
  <2>2. Due(Wakeups)' = Due(Wakeups)
    BY <1>1, <2>1 DEF Due
  <2> QED
    BY <1>1, <1>5, <1>7, <2>2 DEF IInv, NoDrift
<1>9. samples_' # << >> /\ Len(samples_') = Len(samples_) + 1 /\ samples_'[Len(samples_')] = s
      /\ \A k \in DOMAIN samples_' : samples_'[k] = s \/ (k \in DOMAIN samples_ /\ samples_'[k] = samples_[k])
  BY <1>2, <1>5, <1>6
<1>10. SampleInRound'
  <2>1. TimespecToNanos(s) + base <= NanosOf(clock)
    BY <1>2, <1>3, <1>6
  <2>2. ASSUME SetsWakeup
        PROVE  TimespecToNanos(s) + Due(i) <= NanosOf(clock)
    <3>1. NanosOf(start_) >= Due(i)
      BY <1>1, <2>2 DEF IInv, NeverEarly, NanosOf
    <3>2. Due(i) \in Nat
      BY <1>2, DueStep DEF IInv
    <3> QED
      BY <1>2, <1>6, <3>1, <3>2
  <2> QED
    BY <1>1, <1>7, <1>9, <2>1, <2>2 DEF SampleInRound
<1>11. WorkMeasured'
  <2>1. ASSUME options.kind = "cpu_work"
        PROVE  TimespecToNanos(s) >= Work
    <3>1. NanosOf(clock) >= NanosOf(start_) + Work
      BY <1>1, <2>1 DEF IInv, CpuBehindClock
    <3> QED
      BY <1>2, <1>6, <3>1
  <2> QED
    BY <1>1, <1>9, <2>1 DEF IInv, WorkMeasured, Work
<1>12. RoundLeft' /\ PastDue'
  BY <1>1, <1>5, <1>7 DEF IInv, RoundLeft, PastDue
<1>13. StartInRound' /\ CpuBehindClock' /\ NeverEarly'
  BY <1>5 DEF StartInRound, CpuBehindClock, NeverEarly
<1> QED
  BY <1>8, <1>10, <1>11, <1>12, <1>13 DEF IInv

\* Between rounds nothing is claimed of the wake-up.
LEMMA RunReturnsStep ==
  ASSUME IInv, RunReturns, TypeOK'
  PROVE  IInv'
<1>1. stage' = "created" /\ UNCHANGED <<options, samples_>>
  BY DEF RunReturns
<1>2. WorkMeasured'
  BY <1>1 DEF IInv, WorkMeasured
<1>3. RoundLeft' /\ PastDue' /\ StartInRound' /\ CpuBehindClock'
  BY <1>1 DEF RoundLeft, PastDue, StartInRound, CpuBehindClock
<1>4. NoDrift' /\ NeverEarly' /\ SampleInRound'
  BY <1>1 DEF NoDrift, NeverEarly, SampleInRound
<1> QED
  BY <1>2, <1>3, <1>4 DEF IInv

\* IInv holds initially.
LEMMA InitIInv == Init => IInv
<1> SUFFICES ASSUME Init PROVE IInv
  OBVIOUS
<1>1. TypeOK
  BY Constants, PeriodicAssumption DEF Init, TypeOK, Stages
<1>2. RoundLeft /\ PastDue /\ StartInRound /\ CpuBehindClock
  BY DEF Init, RoundLeft, PastDue, StartInRound, CpuBehindClock
<1>3. NoDrift /\ NeverEarly /\ WorkMeasured /\ SampleInRound
  BY DEF Init, NoDrift, NeverEarly, WorkMeasured, SampleInRound
<1> QED
  BY <1>1, <1>2, <1>3 DEF IInv

\* A stuttering step changes nothing IInv speaks of.
LEMMA StutterStep ==
  ASSUME IInv, UNCHANGED vars
  PROVE  IInv'
<1> USE DEF vars
<1>1. TypeOK' /\ RoundLeft' /\ WorkMeasured'
  BY DEF IInv, TypeOK, RoundLeft, WorkMeasured
<1>2. PastDue' /\ StartInRound' /\ CpuBehindClock'
  BY DEF IInv, PastDue, StartInRound, CpuBehindClock, NanosOf, Due, SetsWakeup, Timed, Work
<1>3. NoDrift' /\ NeverEarly' /\ SampleInRound'
  BY DEF IInv, NoDrift, NeverEarly, SampleInRound, Due, SetsWakeup, Timed, Wakeups
<1> QED
  BY <1>1, <1>2, <1>3 DEF IInv

\* IInv is an invariant.
LEMMA Invariance == Spec => []IInv
<1>1. ASSUME IInv, [Next]_vars
      PROVE  IInv'
  <2>1. TypeOK'
    BY <1>1, TypeStep DEF IInv
  <2> QED
    BY <1>1, <2>1, TickStep, SetUpStep, WakeStep, MeasureStartStep, RunSingleStep, RunEndsStep,
       MeasureEndStep, RunReturnsStep, StutterStep DEF Next
<1> QED
  BY <1>1, InitIInv, PTL DEF Spec

-----------------------------------------------------------------------------
(* Theorems *)

\* Every timespec of a periodic instruction stays normalised.
THEOREM TypeCorrect == Spec => []TypeOK
<1>1. IInv => TypeOK
  BY DEF IInv
<1> QED
  BY <1>1, Invariance, PTL

\* The wake-ups of a round are a whole number of periods apart, however late a
\* repetition was.
THEOREM WakeupsNeverDrift == Spec => []NoDrift
<1>1. IInv => NoDrift
  BY DEF IInv
<1> QED
  BY <1>1, Invariance, PTL

\* No repetition is measured from before it is due.
THEOREM RepetitionsNeverEarly == Spec => []NeverEarly
<1>1. IInv => NeverEarly
  BY DEF IInv
<1> QED
  BY <1>1, Invariance, PTL

\* The samples of CPU work are at least the work time.
THEOREM WorkIsMeasured == Spec => []WorkMeasured
<1>1. IInv => WorkMeasured
  BY DEF IInv
<1> QED
  BY <1>1, Invariance, PTL

\* A sample covers no time before its repetition was due.
THEOREM SamplesStayInRound == Spec => []SampleInRound
<1>1. IInv => SampleInRound
  BY DEF IInv
<1> QED
  BY <1>1, Invariance, PTL
=============================================================================
