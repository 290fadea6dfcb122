------------------------------- MODULE Timespec -------------------------------
(***************************************************************************)
(* Arithmetic on struct timespec, as in timespec_utils.cpp: seconds and    *)
(* nanoseconds, with a carry in additions and a borrow in subtractions.    *)
(* The radices 1e9, 1e6 and 1e3 of the code are parameters, so that TLC    *)
(* can use small ones.  The code computes some products and quotients in   *)
(* double, which is exact below 2^53 nanoseconds (104 days).               *)
(***************************************************************************)
EXTENDS Integers

CONSTANTS MicrosPerSec,    \* 1e6
          NanosPerMicro    \* 1e3

ASSUME RadixAssumption ==
  /\ MicrosPerSec \in Nat \ {0}
  /\ NanosPerMicro \in Nat \ {0, 1}

NanosPerSec == MicrosPerSec * NanosPerMicro    \* 1e9

\* A timespec of a system call, and of every result here, is normalised.
Timespecs == [tv_sec : Nat, tv_nsec : 0 .. NanosPerSec - 1]

Zero == [tv_sec |-> 0, tv_nsec |-> 0]

TimespecToNanos(t) == t.tv_sec * NanosPerSec + t.tv_nsec

NanosToTimespec(t_ns) ==
  [tv_sec |-> t_ns \div NanosPerSec, tv_nsec |-> t_ns % NanosPerSec]

MicrosToTimespec(t_us) ==
  [tv_sec  |-> t_us \div MicrosPerSec,
   tv_nsec |-> (t_us % MicrosPerSec) * NanosPerMicro]

\* Mutant of Less: the nanoseconds are compared whatever the seconds are.
LessBoth(t1, t2) == t1.tv_sec <= t2.tv_sec /\ t1.tv_nsec < t2.tv_nsec

Less(t1, t2) ==
  \/ t1.tv_sec < t2.tv_sec
  \/ t1.tv_sec = t2.tv_sec /\ t1.tv_nsec < t2.tv_nsec

LessOrEqual(t1, t2) == t1 = t2 \/ Less(t1, t2)

Greater(t1, t2) == ~LessOrEqual(t1, t2)

GreaterOrEqual(t1, t2) == t1 = t2 \/ Greater(t1, t2)

\* Mutant of Minus: the borrow is not taken from the seconds.
MinusNoBorrow(t1, t2) ==
  [tv_sec  |-> t1.tv_sec - t2.tv_sec,
   tv_nsec |-> IF t1.tv_nsec < t2.tv_nsec THEN NanosPerSec - t2.tv_nsec + t1.tv_nsec
                                          ELSE t1.tv_nsec - t2.tv_nsec]

\* t1 - t2, called with t1 >= t2: anything else ends the process.
Minus(t1, t2) ==
  IF t1.tv_nsec < t2.tv_nsec
    THEN [tv_sec  |-> t1.tv_sec - t2.tv_sec - 1,
          tv_nsec |-> NanosPerSec - t2.tv_nsec + t1.tv_nsec]
    ELSE [tv_sec  |-> t1.tv_sec - t2.tv_sec,
          tv_nsec |-> t1.tv_nsec - t2.tv_nsec]

Plus(t1, t2) ==
  IF t1.tv_nsec + t2.tv_nsec >= NanosPerSec
    THEN [tv_sec  |-> t1.tv_sec + t2.tv_sec + 1,
          tv_nsec |-> t1.tv_nsec + t2.tv_nsec - NanosPerSec]
    ELSE [tv_sec  |-> t1.tv_sec + t2.tv_sec,
          tv_nsec |-> t1.tv_nsec + t2.tv_nsec]

\* Called with t2_ns > 0: a division by zero ends the process.
Divide(t1, t2_ns) == NanosToTimespec(TimespecToNanos(t1) \div t2_ns)
=============================================================================
