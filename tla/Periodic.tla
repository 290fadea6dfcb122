------------------------------- MODULE Periodic -------------------------------
(***************************************************************************)
(* One instruction with a period and an offset, run round after round by   *)
(* the set that contains it: SetUp takes the time, each repetition sleeps  *)
(* until next_wakeup_ and moves it on by the period, runs and is measured. *)
(* Between any two reads of a clock time may pass, so a repetition may     *)
(* start late and may last longer than its period.                         *)
(*                                                                         *)
(*   options  the instruction: its kind, period_us_, offset_us_, repeat_   *)
(*            and, for CPU work of a given time, that time in microseconds *)
(*   clock    CLOCK_MONOTONIC                                              *)
(*   cpu      CLOCK_THREAD_CPUTIME_ID                                      *)
(*   stage    where the thread is                                          *)
(*   i        the repetition of this round                                 *)
(*   round    rounds completed                                             *)
(*   next_wakeup_, start_, samples_, time_end   the variables of the code  *)
(*   base     the time, in nanoseconds, at which this round was set up     *)
(***************************************************************************)
EXTENDS Timespec, Sequences

CONSTANTS Instructions,
          Starts,      \* times at which the program may start
          MaxRounds,   \* bound: rounds run
          MaxSecs      \* bound: seconds the clocks may show

\* CPU work of a given time, instructions that run for any time, and those
\* whose SetUp does not call Instruction::SetUp (ReadWriteFile,
\* GenericBinderRequest).
Kinds == {"cpu_work", "other", "read_write_file"}

ASSUME PeriodicAssumption ==
  /\ \A x \in Instructions :
       /\ x.kind \in Kinds
       /\ x.period_us \in Nat /\ x.offset_us \in Nat
       /\ x.work_us \in Nat /\ x.repeat \in Nat
  /\ Starts \subseteq Timespecs
  /\ MaxRounds \in Nat /\ MaxSecs \in Nat

VARIABLES options, clock, cpu, stage, i, round, next_wakeup_, start_, samples_, time_end, base

vars == <<options, clock, cpu, stage, i, round, next_wakeup_, start_, samples_, time_end, base>>

Init ==
  /\ options \in Instructions
  /\ clock \in Starts
  /\ cpu \in Starts
  /\ stage = "created"
  /\ i = 0 /\ round = 0
  /\ next_wakeup_ = Zero /\ start_ = Zero /\ time_end = Zero
  /\ samples_ = << >>
  /\ base = 0

-----------------------------------------------------------------------------
(* The clocks *)

Instant == [tv_sec |-> 0, tv_nsec |-> 1]

\* Time passes; the thread has the processor, or another thread has.
Tick ==
  /\ clock.tv_sec < MaxSecs
  /\ clock' = Plus(clock, Instant)
  /\ cpu' \in {cpu} \cup (IF stage = "run" THEN {Plus(cpu, Instant)} ELSE {})
  /\ UNCHANGED <<options, stage, i, round, next_wakeup_, start_, samples_, time_end, base>>

-----------------------------------------------------------------------------
(* The instruction *)

Timed == options.period_us # 0 \/ options.offset_us # 0

\* next_wakeup_ after SetUp at the time now.
FirstWakeup(now) ==
  IF Timed /\ options.kind # "read_write_file"
    THEN Plus(now, MicrosToTimespec(options.offset_us))
    ELSE next_wakeup_

\* The set calls SetUp, and then Run.
SetUp ==
  /\ stage = "created"
  /\ round < MaxRounds
  /\ next_wakeup_' = FirstWakeup(clock)
  /\ base' = TimespecToNanos(clock)
  /\ i' = 0
  /\ stage' = "loop"
  /\ UNCHANGED <<options, clock, cpu, round, start_, samples_, time_end>>

\* Mutant of Following: the period starts when the thread wakes up.
FollowingFromNow(now) == IF Timed THEN Plus(now, MicrosToTimespec(options.period_us)) ELSE next_wakeup_

\* next_wakeup_ after a repetition that wakes up at the time now.
Following(now) ==
  IF Timed THEN Plus(next_wakeup_, MicrosToTimespec(options.period_us)) ELSE next_wakeup_

\* SetUpSingle: clock_nanosleep() returns.
Wake ==
  /\ stage = "loop"
  /\ i < options.repeat
  /\ Timed => GreaterOrEqual(clock, next_wakeup_)
  /\ next_wakeup_' = Following(clock)
  /\ stage' = "woken"
  /\ UNCHANGED <<options, clock, cpu, i, round, start_, samples_, time_end, base>>

MeasureStart ==
  /\ stage = "woken"
  /\ start_' = clock
  /\ stage' = "started"
  /\ UNCHANGED <<options, clock, cpu, i, round, next_wakeup_, samples_, time_end, base>>

\* RunSingle; CPU work computes when it will be done ...
RunSingle ==
  /\ stage = "started"
  /\ time_end' = IF options.kind = "cpu_work"
                   THEN Plus(cpu, MicrosToTimespec(options.work_us)) ELSE time_end
  /\ stage' = "run"
  /\ UNCHANGED <<options, clock, cpu, i, round, next_wakeup_, start_, samples_, base>>

\* ... and spins until then.
RunEnds ==
  /\ stage = "run"
  /\ options.kind = "cpu_work" => ~Less(cpu, time_end)
  /\ stage' = "teardown"
  /\ UNCHANGED <<options, clock, cpu, i, round, next_wakeup_, start_, samples_, time_end, base>>

\* TearDownSingle; a clock that ran backwards would end the process.
MeasureEnd ==
  /\ stage = "teardown"
  /\ IF Less(clock, start_)
       THEN stage' = "exited" /\ UNCHANGED <<samples_, i>>
       ELSE /\ samples_' = Append(samples_, Minus(clock, start_))
            /\ i' = i + 1
            /\ stage' = "loop"
  /\ UNCHANGED <<options, clock, cpu, round, next_wakeup_, start_, time_end, base>>

\* Run returns.
RunReturns ==
  /\ stage = "loop"
  /\ i >= options.repeat
  /\ round' = round + 1
  /\ stage' = "created"
  /\ UNCHANGED <<options, clock, cpu, i, next_wakeup_, start_, samples_, time_end, base>>

Next ==
  \/ Tick
  \/ SetUp
  \/ Wake
  \/ MeasureStart
  \/ RunSingle
  \/ RunEnds
  \/ MeasureEnd
  \/ RunReturns

Spec == Init /\ [][Next]_vars

-----------------------------------------------------------------------------
(* Properties *)

Stages == {"created", "loop", "woken", "started", "run", "teardown", "exited"}

\* Every timespec is normalised: no addition or subtraction leaves a whole
\* second, or a negative number, in the nanoseconds.
TypeOK ==
  /\ options \in Instructions
  /\ clock \in Timespecs /\ cpu \in Timespecs
  /\ stage \in Stages
  /\ i \in Nat /\ round \in 0 .. MaxRounds
  /\ next_wakeup_ \in Timespecs /\ start_ \in Timespecs /\ time_end \in Timespecs
  /\ samples_ \in Seq(Timespecs)
  /\ base \in Nat

Nanos(t_us) == t_us * NanosPerMicro

\* Instruction::SetUp has set the first wake-up of this round.
SetsWakeup == Timed /\ options.kind # "read_write_file"

\* Repetitions of this round that have been woken up.
Wakeups == i + (IF stage \in {"woken", "started", "run", "teardown"} THEN 1 ELSE 0)

\* When repetition k of this round is due, in nanoseconds.
Due(k) == base + Nanos(options.offset_us) + k * Nanos(options.period_us)

\* However late a repetition woke up and however long it ran, the next one is
\* due a whole number of periods after the offset: lateness does not add up.
NoDrift ==
  SetsWakeup /\ stage \notin {"created", "exited"} =>
    TimespecToNanos(next_wakeup_) = Due(Wakeups)

\* No repetition's measured interval starts before the repetition is due.
NeverEarly ==
  SetsWakeup /\ stage \in {"started", "run", "teardown"} =>
    TimespecToNanos(start_) >= Due(i)

\* CPU work of a given time is measured with at least that time, whatever
\* seconds the CPU clock and the monotonic clock go through meanwhile.
WorkMeasured ==
  options.kind = "cpu_work" =>
    \A k \in DOMAIN samples_ : TimespecToNanos(samples_[k]) >= Nanos(options.work_us)

\* A sample is no longer than the time since its round was set up: the
\* duration of a repetition never includes its sleep or an earlier one.
SampleInRound ==
  stage = "loop" /\ i > 0 =>
    /\ samples_ # << >>
    /\ TimespecToNanos(samples_[Len(samples_)]) + base <= TimespecToNanos(clock)
    /\ SetsWakeup => TimespecToNanos(samples_[Len(samples_)]) + Due(i - 1) <= TimespecToNanos(clock)
=============================================================================
