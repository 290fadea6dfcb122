------------------------- MODULE MultithreadingProofs -------------------------
(***************************************************************************)
(* Multithreading for any number of threads, rounds and child repetitions: *)
(* the safety properties, and that it implements ForkJoin.                 *)
(***************************************************************************)
EXTENDS Multithreading, FiniteSetTheorems, TLAPS

\* What the main thread's position says about the threads.
MainShape ==
  /\ mpc \in {"setup", "init", "collect", "reported"} =>
       \A w \in Workers : wpc[w] = "none"
  /\ mpc = "init" => spawned = 0 /\ joined = 0
  /\ mpc = "spawn" =>
       /\ spawned < N /\ joined = 0
       /\ \A w \in Workers : IF w > spawned THEN wpc[w] = "none"
                                            ELSE wpc[w] \in {"start", "waiting"}
  /\ mpc = "join" =>
       /\ joined < N
       /\ \A w \in Workers : IF w > joined THEN wpc[w] \notin {"none", "joined"}
                                           ELSE wpc[w] = "joined"
  /\ mpc = "destroy" => \A w \in Workers : wpc[w] = "joined"
  /\ mpc \in {"setup", "init", "spawn", "join", "destroy"} => round < Repeat

\* barrier_ exists while threads may use it, and knows who waits.
BarrierShape ==
  /\ mpc \in {"spawn", "join"} => barrier.state = "ready" /\ barrier.count = N
  /\ barrier.waiting = {w \in Workers : wpc[w] = "waiting"}

TimingShape == mpc \in {"init", "spawn", "join", "destroy"} => timer = "started"

\* Repetitions of w measured in the current round.
Measured(w) ==
  IF wpc[w] \in {"loop", "measuring"} THEN iter[w]
  ELSE IF wpc[w] \in {"finished", "joined"} THEN ChildRepeat[w]
  ELSE 0

SampleShape ==
  /\ mainSamples = round
  /\ \A w \in Workers :
       /\ samples[w] = round * ChildRepeat[w] + Measured(w)
       /\ wpc[w] = "loop" => iter[w] <= ChildRepeat[w]
       /\ wpc[w] = "measuring" => iter[w] < ChildRepeat[w]

IInv ==
  TypeOK /\ MainShape /\ BarrierShape /\ StartTogether /\ TimingShape /\ SampleShape

-----------------------------------------------------------------------------
\* A set of threads as large as the barrier's count is the set of all threads.
LEMMA FullBarrier ==
  ASSUME NEW S \in SUBSET Workers, Cardinality(S) = N
  PROVE  S = Workers
<1>1. IsFiniteSet(Workers) /\ Cardinality(Workers) = N
  BY MultithreadingAssumption, FS_Interval DEF Workers
<1> QED
  BY <1>1, FS_Subset

\* All threads together reach the barrier's count.
LEMMA FullCardinality == Cardinality(Workers) = N
  BY MultithreadingAssumption, FS_Interval DEF Workers

\* The invariant holds before the first round.
LEMMA InitIInv == Init => IInv
<1> SUFFICES ASSUME Init PROVE IInv
  OBVIOUS
<1> USE MultithreadingAssumption DEF Init
<1>1. TypeOK
  BY DEF TypeOK, MainStates, WorkerStates
<1>2. MainShape
  BY DEF MainShape
<1>3. BarrierShape /\ StartTogether /\ TimingShape
  BY DEF BarrierShape, StartTogether, TimingShape
<1>4. SampleShape
  <2> SUFFICES ASSUME NEW w \in Workers
               PROVE  samples[w] = round * ChildRepeat[w] + Measured(w)
    BY DEF SampleShape
  <2>1. ChildRepeat[w] \in Nat /\ Measured(w) = 0
    BY DEF Measured
  <2> QED
    BY <2>1
<1> QED
  BY <1>1, <1>2, <1>3, <1>4 DEF IInv

-----------------------------------------------------------------------------
\* Every step of the main thread and of a thread keeps the invariant.
LEMMA StepIInv == IInv /\ [Next]_vars => IInv'
<1> SUFFICES ASSUME IInv, [Next]_vars PROVE IInv'
  OBVIOUS
<1> USE MultithreadingAssumption DEF IInv
<1>1. CASE SetUpSingle
  <2> USE <1>1 DEF SetUpSingle, mainVars, workerVars
  <2>1. TypeOK'
    BY DEF TypeOK, MainStates, WorkerStates, MainShape
  <2>2. MainShape'
    BY DEF MainShape, TypeOK
  <2>3. BarrierShape'
    BY DEF BarrierShape, TypeOK, MainShape
  <2>4. StartTogether'
    BY DEF StartTogether, TypeOK, MainShape
  <2>5. TimingShape'
    BY DEF TimingShape
  <2>6. SampleShape'
    BY DEF SampleShape, Measured, TypeOK, MainShape
  <2> QED
    BY <2>1, <2>2, <2>3, <2>4, <2>5, <2>6
<1>2. CASE BarrierInit
  <2> USE <1>2 DEF BarrierInit, mainVars, workerVars
  <2>1. TypeOK'
    BY DEF TypeOK, MainStates, WorkerStates, MainShape
  <2>2. MainShape'
    BY DEF MainShape, TypeOK, Workers
  <2>3. BarrierShape'
    BY DEF BarrierShape, TypeOK, MainShape
  <2>4. StartTogether'
    BY DEF StartTogether, TypeOK, MainShape
  <2>5. TimingShape'
    BY DEF TimingShape
  <2>6. SampleShape'
    BY DEF SampleShape, Measured, TypeOK, MainShape
  <2> QED
    BY <2>1, <2>2, <2>3, <2>4, <2>5, <2>6
<1>3. CASE Spawn
  <2> USE <1>3 DEF Spawn, mainVars, workerVars
  <2>1. TypeOK'
    BY SMTT(40) DEF TypeOK, MainStates, WorkerStates, MainShape, Workers
  <2>2. MainShape'
    <3>1. spawned \in Nat /\ spawned < N /\ joined = 0 /\ N \in Nat /\ spawned + 1 \in Workers
      BY DEF MainShape, TypeOK, Workers
    <3>2. \A v \in Workers : /\ v \in Nat /\ v > 0
                             /\ wpc'[v] = IF v = spawned + 1 THEN "start" ELSE wpc[v]
      BY DEF TypeOK, Workers
    <3>3. \A v \in Workers : IF v > spawned + 1 THEN wpc'[v] = "none"
                                                ELSE wpc'[v] \in {"start", "waiting"}
      BY <3>1, <3>2 DEF MainShape
    <3>4. CASE spawned + 1 = N
      <4>1. mpc' = "join" /\ joined' = 0 /\ round' = round
        BY <3>1, <3>4
      <4>2. \A v \in Workers : v > 0 /\ wpc'[v] \in {"start", "waiting"}
        BY <3>1, <3>2, <3>3, <3>4 DEF Workers
      <4> QED
        BY <3>1, <4>1, <4>2 DEF MainShape
    <3>5. CASE spawned + 1 # N
      <4>1. mpc' = "spawn" /\ joined' = 0 /\ round' = round /\ spawned' = spawned + 1
        BY <3>1, <3>5
      <4> QED
        BY <3>1, <3>3, <3>5, <4>1 DEF MainShape
    <3> QED
      BY <3>4, <3>5
  <2>3. BarrierShape'
    BY DEF BarrierShape, TypeOK, MainShape
  <2>4. StartTogether'
    BY DEF StartTogether, TypeOK, MainShape
  <2>5. TimingShape'
    BY DEF TimingShape
  <2>6. SampleShape'
    BY DEF SampleShape, Measured, TypeOK, MainShape
  <2> QED
    BY <2>1, <2>2, <2>3, <2>4, <2>5, <2>6
<1>4. CASE SpawnFails
  <2> USE <1>4 DEF SpawnFails, mainVars, workerVars
  <2>1. TypeOK'
    BY DEF TypeOK, MainStates, WorkerStates, MainShape
  <2>2. MainShape'
    BY DEF MainShape, TypeOK
  <2>3. BarrierShape'
    BY DEF BarrierShape, TypeOK, MainShape
  <2>4. StartTogether'
    BY DEF StartTogether, TypeOK, MainShape
  <2>5. TimingShape'
    BY DEF TimingShape
  <2>6. SampleShape'
    BY DEF SampleShape, Measured, TypeOK, MainShape
  <2> QED
    BY <2>1, <2>2, <2>3, <2>4, <2>5, <2>6
<1>5. CASE Join
  <2> USE <1>5 DEF Join, mainVars, workerVars
  <2>1. TypeOK'
    BY SMTT(40) DEF TypeOK, MainStates, WorkerStates, MainShape, Workers
  <2>2. MainShape'
    BY DEF MainShape, TypeOK, Workers
  <2>3. BarrierShape'
    BY DEF BarrierShape, TypeOK, MainShape
  <2>4. StartTogether'
    BY DEF StartTogether, TypeOK, MainShape
  <2>5. TimingShape'
    BY DEF TimingShape
  <2>6. SampleShape'
    BY DEF SampleShape, Measured, TypeOK, MainShape
  <2> QED
    BY <2>1, <2>2, <2>3, <2>4, <2>5, <2>6
<1>6. CASE TearDownSingle
  <2> USE <1>6 DEF TearDownSingle, mainVars, workerVars
  <2>1. TypeOK'
    BY DEF TypeOK, MainStates, WorkerStates, MainShape
  <2>2. MainShape'
    BY DEF MainShape, TypeOK
  <2>3. BarrierShape'
    BY DEF BarrierShape, TypeOK, MainShape
  <2>4. StartTogether'
    BY DEF StartTogether, TypeOK, MainShape
  <2>5. TimingShape'
    BY DEF TimingShape
  <2>6. SampleShape'
    BY DEF SampleShape, Measured, TypeOK, MainShape
  <2> QED
    BY <2>1, <2>2, <2>3, <2>4, <2>5, <2>6
<1>7. CASE CollectResults
  <2> USE <1>7 DEF CollectResults, mainVars, workerVars
  <2>1. TypeOK'
    BY DEF TypeOK, MainStates, WorkerStates, MainShape
  <2>2. MainShape'
    BY DEF MainShape, TypeOK
  <2>3. BarrierShape'
    BY DEF BarrierShape, TypeOK, MainShape
  <2>4. StartTogether'
    BY DEF StartTogether, TypeOK, MainShape
  <2>5. TimingShape'
    BY DEF TimingShape
  <2>6. SampleShape'
    BY DEF SampleShape, Measured, TypeOK, MainShape
  <2> QED
    BY <2>1, <2>2, <2>3, <2>4, <2>5, <2>6
<1>8. ASSUME NEW w \in Workers, Arrive(w) PROVE IInv'
  <2> DEFINE inside == barrier.waiting \cup {w}
  <2>1. wpc[w] = "start" /\ mpc \in {"spawn", "join"} /\ UNCHANGED <<mainVars, workerVars, status>>
    BY <1>8 DEF Arrive, MainShape, TypeOK, MainStates
  <2>2. barrier.count = N /\ barrier.state = "ready" /\ inside \in SUBSET Workers
    BY <2>1 DEF BarrierShape
  <2>3. CASE Cardinality(inside) = N
    <3>1. inside = Workers
      BY <2>2, <2>3, FullBarrier
    <3>2. wpc' = [v \in Workers |-> "released"] /\ barrier' = [barrier EXCEPT !.waiting = {}]
      BY <1>8, <2>2, <2>3, <3>1 DEF Arrive
    <3>3. \A v \in Workers : wpc[v] \in {"start", "waiting"}
      BY <2>1, <3>1 DEF BarrierShape
    <3>4. mpc = "join"
      <4>1. N \in Workers /\ N \in Nat
        BY DEF Workers
      <4>2. wpc[N] # "none"
        BY <3>3, <4>1
      <4> QED
        BY <2>1, <4>1, <4>2 DEF MainShape, TypeOK
    <3>5. TypeOK'
      BY <2>1, <3>2 DEF TypeOK, WorkerStates, mainVars, workerVars
    <3>6. MainShape'
      BY <2>1, <3>2, <3>3, <3>4 DEF MainShape, mainVars
    <3>7. BarrierShape'
      BY <2>1, <3>2 DEF BarrierShape, TypeOK, mainVars
    <3>8. StartTogether' /\ TimingShape'
      BY <2>1, <3>2 DEF StartTogether, TimingShape, mainVars
    <3>9. SampleShape'
      BY <2>1, <3>2, <3>3 DEF SampleShape, Measured, mainVars, workerVars
    <3> QED
      BY <3>5, <3>6, <3>7, <3>8, <3>9
  <2>4. CASE Cardinality(inside) # N
    <3>1. /\ wpc' = [wpc EXCEPT ![w] = "waiting"]
          /\ barrier' = [barrier EXCEPT !.waiting = inside]
      BY <1>8, <2>2, <2>4 DEF Arrive
    <3>2. TypeOK'
      BY <2>1, <2>2, <3>1 DEF TypeOK, WorkerStates, mainVars, workerVars
    <3>3. MainShape'
      BY <2>1, <3>1 DEF MainShape, TypeOK, mainVars
    <3>4. BarrierShape'
      BY <2>1, <2>2, <3>1 DEF BarrierShape, TypeOK, mainVars
    <3>5. StartTogether' /\ TimingShape'
      BY <2>1, <3>1 DEF StartTogether, TimingShape, TypeOK, mainVars
    <3>6. SampleShape'
      BY <2>1, <3>1 DEF SampleShape, Measured, TypeOK, mainVars, workerVars
    <3> QED
      BY <3>2, <3>3, <3>4, <3>5, <3>6
  <2> QED
    BY <2>3, <2>4
<1>9. ASSUME NEW w \in Workers, Leave(w) PROVE IInv'
  <2> USE <1>9 DEF Leave, mainVars, workerVars
  <2>1. TypeOK'
    BY DEF TypeOK, MainStates, WorkerStates, MainShape
  <2>2. MainShape'
    BY DEF MainShape, TypeOK
  <2>3. BarrierShape'
    BY DEF BarrierShape, TypeOK, MainShape
  <2>4. StartTogether'
    BY DEF StartTogether, TypeOK, MainShape
  <2>5. TimingShape'
    BY DEF TimingShape
  <2>6. SampleShape'
    BY DEF SampleShape, Measured, TypeOK, MainShape
  <2> QED
    BY <2>1, <2>2, <2>3, <2>4, <2>5, <2>6
<1>10. ASSUME NEW w \in Workers, MeasureStart(w) PROVE IInv'
  <2> USE <1>10 DEF MeasureStart, mainVars, workerVars
  <2>1. TypeOK'
    BY DEF TypeOK, MainStates, WorkerStates, MainShape
  <2>2. MainShape'
    BY DEF MainShape, TypeOK
  <2>3. BarrierShape'
    BY DEF BarrierShape, TypeOK, MainShape
  <2>4. StartTogether'
    BY DEF StartTogether, TypeOK, MainShape
  <2>5. TimingShape'
    BY DEF TimingShape
  <2>6. SampleShape'
    BY DEF SampleShape, Measured, TypeOK, MainShape
  <2> QED
    BY <2>1, <2>2, <2>3, <2>4, <2>5, <2>6
<1>11. ASSUME NEW w \in Workers, MeasureEnd(w) PROVE IInv'
  <2> USE <1>11 DEF MeasureEnd, mainVars, workerVars
  <2>1. TypeOK'
    BY DEF TypeOK, MainStates, WorkerStates, MainShape
  <2>2. MainShape'
    BY DEF MainShape, TypeOK
  <2>3. BarrierShape'
    BY DEF BarrierShape, TypeOK, MainShape
  <2>4. StartTogether'
    BY DEF StartTogether, TypeOK, MainShape
  <2>5. TimingShape'
    BY DEF TimingShape
  <2>6. SampleShape'
    BY DEF SampleShape, Measured, TypeOK, MainShape
  <2> QED
    BY <2>1, <2>2, <2>3, <2>4, <2>5, <2>6
<1>12. ASSUME NEW w \in Workers, Return(w) PROVE IInv'
  <2> USE <1>12 DEF Return, mainVars, workerVars
  <2>1. TypeOK'
    BY DEF TypeOK, MainStates, WorkerStates, MainShape
  <2>2. MainShape'
    BY DEF MainShape, TypeOK
  <2>3. BarrierShape'
    BY DEF BarrierShape, TypeOK, MainShape
  <2>4. StartTogether'
    BY DEF StartTogether, TypeOK, MainShape
  <2>5. TimingShape'
    BY DEF TimingShape
  <2>6. SampleShape'
    BY DEF SampleShape, Measured, TypeOK, MainShape
  <2> QED
    BY <2>1, <2>2, <2>3, <2>4, <2>5, <2>6
<1>13. ASSUME NEW w \in Workers, Fail(w) PROVE IInv'
  <2> USE <1>13 DEF Fail, mainVars, workerVars
  <2>1. TypeOK'
    BY DEF TypeOK, MainStates, WorkerStates, MainShape
  <2>2. MainShape'
    BY DEF MainShape, TypeOK
  <2>3. BarrierShape'
    BY DEF BarrierShape, TypeOK, MainShape
  <2>4. StartTogether'
    BY DEF StartTogether, TypeOK, MainShape
  <2>5. TimingShape'
    BY DEF TimingShape
  <2>6. SampleShape'
    BY DEF SampleShape, Measured, TypeOK, MainShape
  <2> QED
    BY <2>1, <2>2, <2>3, <2>4, <2>5, <2>6
<1>14. CASE UNCHANGED vars
  BY <1>14 DEF vars, mainVars, workerVars, TypeOK, MainShape, BarrierShape, StartTogether,
              TimingShape, SampleShape, Measured
<1> QED
  BY <1>1, <1>2, <1>3, <1>4, <1>5, <1>6, <1>7, <1>8, <1>9, <1>10, <1>11, <1>12, <1>13, <1>14
     DEF Next, MainNext, WorkerNext

\* The inductive invariant holds in every state.
THEOREM Invariance == Spec => []IInv
  BY InitIInv, StepIInv, PTL DEF Spec

-----------------------------------------------------------------------------
(* The properties *)

\* The state of the main thread, of its threads and of the barrier is typed.
THEOREM TypeCorrect == Spec => []TypeOK
<1>1. IInv => TypeOK
  BY DEF IInv
<1> QED
  BY Invariance, <1>1, PTL

\* For any number of threads, none runs before all have reached the barrier.
THEOREM ThreadsStartTogether == Spec => []StartTogether
<1>1. IInv => StartTogether
  BY DEF IInv
<1> QED
  BY Invariance, <1>1, PTL

\* barrier_ is neither used before it is initialised nor destroyed in use.
THEOREM BarrierOutlivesThreads == Spec => []BarrierLive
<1>1. IInv => BarrierLive
  BY DEF IInv, BarrierLive, BarrierShape, MainShape, TypeOK, MainStates
<1> QED
  BY Invariance, <1>1, PTL

\* The instruction's duration covers those of its threads.
THEOREM DurationCovers == Spec => []DurationCoversThreads
<1>1. IInv => DurationCoversThreads
  BY DEF IInv, DurationCoversThreads, TimingShape, MainShape, TypeOK, MainStates
<1> QED
  BY Invariance, <1>1, PTL

\* Every repetition of every child is measured exactly once per round.
THEOREM SamplesAreComplete == Spec => []SamplesComplete
<1>1. IInv => SamplesComplete
  <2> SUFFICES ASSUME IInv, mpc \in {"setup", "collect", "reported"}, NEW w \in Workers
               PROVE  samples[w] = round * ChildRepeat[w]
    BY DEF IInv, SampleShape, SamplesComplete
  <2>1. Measured(w) = 0
    BY DEF IInv, MainShape, Measured
  <2>2. round \in Nat /\ ChildRepeat[w] \in Nat /\ round * ChildRepeat[w] \in Nat
    BY MultithreadingAssumption DEF IInv, TypeOK
  <2> QED
    BY <2>1, <2>2 DEF IInv, SampleShape
<1> QED
  BY Invariance, <1>1, PTL

\* The main thread and a spawned thread never work on one child instruction
\* at the same time.
THEOREM ChildrenIdleBetweenRounds == Spec => []ChildrenIdle
<1>1. IInv => ChildrenIdle
  BY DEF IInv, ChildrenIdle, MainShape
<1> QED
  BY Invariance, <1>1, PTL

-----------------------------------------------------------------------------
(* Refinement *)

\* A step that leaves every thread in its phase is invisible.
LEMMA SamePhase ==
  ASSUME IInv, IInv', UNCHANGED <<round, status>>,
         \A v \in Workers : phaseBar'[v] = phaseBar[v]
  PROVE  UNCHANGED FJ!absVars
<1>1. phaseBar' = phaseBar
  BY DEF phaseBar
<1> QED
  BY <1>1 DEF FJ!absVars

\* A LOGF of any thread is the abstract Stop.
LEMMA ExitIsStop ==
  ASSUME status = "running", status' = "exited", UNCHANGED <<round, wpc>>
  PROVE  FJ!AbsNext
  BY DEF FJ!AbsNext, FJ!Stop, phaseBar

\* Every step of the threads is a step of the fork/join or invisible.
LEMMA StepRefines ==
  ASSUME IInv, IInv', [Next]_vars
  PROVE  [FJ!AbsNext]_(FJ!absVars)
<1> USE DEF mainVars, workerVars
<1>1. TypeOK /\ TypeOK'
  BY DEF IInv
<1>2. CASE SetUpSingle \/ BarrierInit
  BY <1>2, SamePhase DEF SetUpSingle, BarrierInit, phaseBar
<1>3. CASE Spawn
  <2>1. spawned + 1 \in Workers /\ wpc[spawned + 1] = "none"
    BY <1>3, MultithreadingAssumption DEF Spawn, IInv, MainShape, TypeOK, Workers
  <2> QED
    BY <1>1, <1>3, <2>1, SamePhase DEF Spawn, phaseBar, TypeOK
<1>4. CASE SpawnFails
  BY <1>4, ExitIsStop DEF SpawnFails
<1>5. CASE Join
  BY <1>1, <1>5, SamePhase DEF Join, phaseBar, TypeOK
<1>6. CASE TearDownSingle
  <2>1. \A v \in Workers : wpc[v] = "joined" /\ wpc'[v] = "none"
    BY <1>6 DEF TearDownSingle, IInv, MainShape
  <2>2. phaseBar = [v \in Workers |-> "done"] /\ phaseBar' = [v \in Workers |-> "out"]
    BY <2>1 DEF phaseBar
  <2>3. FJ!EndRound
    BY <1>6, <2>2 DEF FJ!EndRound, TearDownSingle
  <2> QED
    BY <2>3 DEF FJ!AbsNext
<1>7. CASE CollectResults
  <2>1. CASE status' = "exited"
    BY <1>7, <2>1, ExitIsStop DEF CollectResults
  <2>2. CASE status' # "exited"
    BY <1>7, <2>2, SamePhase DEF CollectResults, phaseBar
  <2> QED
    BY <2>1, <2>2
<1>8. ASSUME NEW w \in Workers, Arrive(w) PROVE [FJ!AbsNext]_(FJ!absVars)
  <2> DEFINE inside == barrier.waiting \cup {w}
  <2>1. wpc[w] = "start" /\ mpc \in {"spawn", "join"} /\ round < Repeat
    BY <1>8 DEF Arrive, IInv, MainShape, TypeOK, MainStates
  <2>2. barrier.count = N /\ inside \in SUBSET Workers
    BY <2>1 DEF IInv, BarrierShape
  <2>3. CASE Cardinality(inside) = N
    <3>1. inside = Workers
      BY <2>2, <2>3, FullBarrier
    <3>2. \A v \in Workers : wpc[v] \in {"start", "waiting"} /\ wpc'[v] = "released"
      BY <1>8, <2>1, <2>2, <2>3, <3>1 DEF Arrive, IInv, BarrierShape
    <3>3. phaseBar = [v \in Workers |-> "out"] /\ phaseBar' = [v \in Workers |-> "in"]
      BY <3>2 DEF phaseBar
    <3>4. FJ!Release
      BY <1>8, <2>1, <3>3 DEF FJ!Release, Arrive
    <3> QED
      BY <3>4 DEF FJ!AbsNext
  <2>4. CASE Cardinality(inside) # N
    <3>1. wpc' = [wpc EXCEPT ![w] = "waiting"]
      BY <1>8, <2>2, <2>4 DEF Arrive
    <3> QED
      BY <1>1, <1>8, <2>1, <3>1, SamePhase DEF Arrive, phaseBar, TypeOK
  <2> QED
    BY <2>3, <2>4
<1>9. ASSUME NEW w \in Workers, Leave(w) \/ MeasureStart(w) \/ MeasureEnd(w)
      PROVE  [FJ!AbsNext]_(FJ!absVars)
  BY <1>1, <1>9, SamePhase DEF Leave, MeasureStart, MeasureEnd, phaseBar, TypeOK
<1>10. ASSUME NEW w \in Workers, Return(w) PROVE [FJ!AbsNext]_(FJ!absVars)
  <2>1. /\ phaseBar[w] = "in"
        /\ phaseBar' = [phaseBar EXCEPT ![w] = "done"]
    BY <1>1, <1>10 DEF Return, phaseBar, TypeOK
  <2>2. FJ!Finish(w)
    BY <1>10, <2>1 DEF FJ!Finish, Return
  <2> QED
    BY <2>2 DEF FJ!AbsNext
<1>11. ASSUME NEW w \in Workers, Fail(w) PROVE [FJ!AbsNext]_(FJ!absVars)
  BY <1>11, ExitIsStop DEF Fail
<1>12. CASE UNCHANGED vars
  BY <1>12, SamePhase DEF vars, phaseBar
<1> QED
  BY <1>2, <1>3, <1>4, <1>5, <1>6, <1>7, <1>8, <1>9, <1>10, <1>11, <1>12
     DEF Next, MainNext, WorkerNext

\* Multithreading implements ForkJoin.
THEOREM RefinesForkJoin == Spec => ImplementsForkJoin
<1>1. Init => FJ!AbsInit
  BY DEF Init, FJ!AbsInit, phaseBar
<1>2. IInv /\ IInv' /\ [Next]_vars => [FJ!AbsNext]_(FJ!absVars)
  BY StepRefines
<1> QED
  BY Invariance, <1>1, <1>2, PTL DEF Spec, ImplementsForkJoin, FJ!AbsSpec
=============================================================================
