---------------------------- MODULE Multithreading ----------------------------
(***************************************************************************)
(* The Multithreading instruction: one Run of it, executed by the thread   *)
(* that owns it (the "main" thread here), and the threads it spawns with   *)
(* Instruction::SpawnThread, which synchronise on barrier_ before running  *)
(* their own instruction.                                                  *)
(*                                                                         *)
(*   mpc        where the main thread is in Run / CollectResults           *)
(*   round      repetitions completed by Run's loop                        *)
(*   spawned, joined   progress of the loops over threads_                 *)
(*   barrier    barrier_: initialised or not, its count, who waits on it   *)
(*   wpc        where each spawned thread is in RunSynchronized            *)
(*   iter       i of the loop in the thread's Instruction::Run             *)
(*   timer      whether an interval of the main sampler is open             *)
(*   mainSamples, samples   intervals recorded by the main time sampler    *)
(*              and by the sampler of each child instruction               *)
(*   status     "running", or "exited" once a LOGF has ended the process   *)
(*                                                                         *)
(* The child instructions are opaque: an iteration opens an interval in    *)
(* SetUpSingle and closes it in TearDownSingle.                            *)
(***************************************************************************)
EXTENDS Naturals, FiniteSets

CONSTANTS N,             \* instructions_.size()
          Repeat,        \* repeat_ of the multithreading instruction
          ChildRepeat    \* repeat_ of each child instruction

Workers == 1..N

ASSUME MultithreadingAssumption ==
  /\ N \in Nat \ {0}
  /\ Repeat \in Nat
  /\ ChildRepeat \in [Workers -> Nat]

VARIABLES mpc, round, spawned, joined, barrier, wpc, iter, timer, mainSamples,
          samples, status

mainVars == <<mpc, round, spawned, joined, timer, mainSamples>>
workerVars == <<iter, samples>>
vars == <<mainVars, barrier, wpc, workerVars, status>>

MainStates == {"setup", "init", "spawn", "join", "destroy", "collect", "reported"}
WorkerStates ==
  {"none", "start", "waiting", "released", "loop", "measuring", "finished", "joined"}

Init ==
  /\ mpc = IF Repeat = 0 THEN "collect" ELSE "setup"
  /\ round = 0
  /\ spawned = 0
  /\ joined = 0
  /\ barrier = [state |-> "unset", count |-> 0, waiting |-> {}]
  /\ wpc = [w \in Workers |-> "none"]
  /\ iter = [w \in Workers |-> 0]
  /\ timer = "stopped"
  /\ mainSamples = 0
  /\ samples = [w \in Workers |-> 0]
  /\ status = "running"

-----------------------------------------------------------------------------
(* The main thread *)

\* Multithreading::SetUpSingle: the children's SetUp, threads_.clear() and
\* the start of the measured interval.
SetUpSingle ==
  /\ status = "running"
  /\ mpc = "setup"
  /\ mpc' = "init"
  /\ spawned' = 0
  /\ joined' = 0
  /\ timer' = "started"
  /\ UNCHANGED <<round, mainSamples, barrier, wpc, workerVars, status>>

\* Mutant of BarrierInit: the barrier leaves out one thread.
BarrierInitShort ==
  /\ status = "running"
  /\ mpc = "init"
  /\ mpc' = "spawn"
  /\ barrier' = [state |-> "ready", count |-> N - 1, waiting |-> {}]
  /\ UNCHANGED <<round, spawned, joined, timer, mainSamples, wpc, workerVars, status>>

\* Mutant of BarrierInit: the barrier also counts the main thread.
BarrierInitMain ==
  /\ status = "running"
  /\ mpc = "init"
  /\ mpc' = "spawn"
  /\ barrier' = [state |-> "ready", count |-> N + 1, waiting |-> {}]
  /\ UNCHANGED <<round, spawned, joined, timer, mainSamples, wpc, workerVars, status>>

\* RunSingle: pthread_barrier_init with one count per instruction ...
BarrierInit ==
  /\ status = "running"
  /\ mpc = "init"
  /\ mpc' = "spawn"
  /\ barrier' = [state |-> "ready", count |-> N, waiting |-> {}]
  /\ UNCHANGED <<round, spawned, joined, timer, mainSamples, wpc, workerVars, status>>

\* ... and the loop that spawns a thread per instruction.
Spawn ==
  /\ status = "running"
  /\ mpc = "spawn"
  /\ wpc' = [wpc EXCEPT ![spawned + 1] = "start"]
  /\ spawned' = spawned + 1
  /\ mpc' = IF spawned' = N THEN "join" ELSE mpc
  /\ UNCHANGED <<round, joined, timer, mainSamples, barrier, workerVars, status>>

\* std::thread's constructor throws and nobody catches.
SpawnFails ==
  /\ status = "running"
  /\ mpc = "spawn"
  /\ status' = "exited"
  /\ UNCHANGED <<mainVars, barrier, wpc, workerVars>>

\* Mutant of Join: the last thread of threads_ is not joined.
JoinAllButLast ==
  /\ status = "running"
  /\ mpc = "join"
  /\ wpc[joined + 1] = "finished"
  /\ wpc' = [wpc EXCEPT ![joined + 1] = "joined"]
  /\ joined' = joined + 1
  /\ mpc' = IF joined' >= N - 1 THEN "destroy" ELSE mpc
  /\ UNCHANGED <<round, spawned, timer, mainSamples, barrier, workerVars, status>>

\* TearDownSingle: the loop that joins every thread ...
Join ==
  /\ status = "running"
  /\ mpc = "join"
  /\ wpc[joined + 1] = "finished"
  /\ wpc' = [wpc EXCEPT ![joined + 1] = "joined"]
  /\ joined' = joined + 1
  /\ mpc' = IF joined' = N THEN "destroy" ELSE mpc
  /\ UNCHANGED <<round, spawned, timer, mainSamples, barrier, workerVars, status>>

\* ... and what follows it: the end of the measured interval,
\* pthread_barrier_destroy, the children's TearDown and i++ of Run's loop.
TearDownSingle ==
  /\ status = "running"
  /\ mpc = "destroy"
  /\ timer' = "stopped"
  /\ mainSamples' = mainSamples + 1
  /\ barrier' = [barrier EXCEPT !.state = "destroyed"]
  /\ wpc' = [w \in Workers |-> IF wpc[w] = "joined" THEN "none" ELSE wpc[w]]
  /\ round' = round + 1
  /\ mpc' = IF round' < Repeat THEN "setup" ELSE "collect"
  /\ UNCHANGED <<spawned, joined, workerVars, status>>

\* CollectResults: a duration without samples is fatal (the statistics of an
\* empty vector), otherwise every child is reported.
CollectResults ==
  /\ status = "running"
  /\ mpc = "collect"
  /\ IF mainSamples = 0 \/ \E w \in Workers : samples[w] = 0
       THEN status' = "exited" /\ UNCHANGED mpc
       ELSE mpc' = "reported" /\ UNCHANGED status
  /\ UNCHANGED <<round, spawned, joined, timer, mainSamples, barrier, wpc, workerVars>>

-----------------------------------------------------------------------------
(* The spawned threads *)

\* RunSynchronized up to pthread_barrier_wait: the thread that completes the
\* count releases the ones that wait.
Arrive(w) ==
  /\ status = "running"
  /\ wpc[w] = "start"
  /\ LET inside == barrier.waiting \cup {w}
     IN  IF Cardinality(inside) = barrier.count
           THEN /\ wpc' = [v \in Workers |-> IF v \in inside THEN "released" ELSE wpc[v]]
                /\ barrier' = [barrier EXCEPT !.waiting = {}]
           ELSE /\ wpc' = [wpc EXCEPT ![w] = "waiting"]
                /\ barrier' = [barrier EXCEPT !.waiting = inside]
  /\ UNCHANGED <<mainVars, workerVars, status>>

\* pthread_barrier_wait returns and Run starts.
Leave(w) ==
  /\ status = "running"
  /\ wpc[w] = "released"
  /\ wpc' = [wpc EXCEPT ![w] = "loop"]
  /\ iter' = [iter EXCEPT ![w] = 0]
  /\ UNCHANGED <<mainVars, barrier, samples, status>>

\* An iteration of Run: SetUpSingle opens an interval ...
MeasureStart(w) ==
  /\ status = "running"
  /\ wpc[w] = "loop"
  /\ iter[w] < ChildRepeat[w]
  /\ wpc' = [wpc EXCEPT ![w] = "measuring"]
  /\ UNCHANGED <<mainVars, barrier, workerVars, status>>

\* ... and TearDownSingle, after RunSingle, records it.
MeasureEnd(w) ==
  /\ status = "running"
  /\ wpc[w] = "measuring"
  /\ wpc' = [wpc EXCEPT ![w] = "loop"]
  /\ iter' = [iter EXCEPT ![w] = @ + 1]
  /\ samples' = [samples EXCEPT ![w] = @ + 1]
  /\ UNCHANGED <<mainVars, barrier, status>>

\* Mutant of Return: Run's loop ends one iteration early.
ReturnEarly(w) ==
  /\ status = "running"
  /\ wpc[w] = "loop"
  /\ iter[w] + 1 >= ChildRepeat[w]
  /\ wpc' = [wpc EXCEPT ![w] = "finished"]
  /\ UNCHANGED <<mainVars, barrier, workerVars, status>>

\* The thread's function returns.
Return(w) ==
  /\ status = "running"
  /\ wpc[w] = "loop"
  /\ iter[w] >= ChildRepeat[w]
  /\ wpc' = [wpc EXCEPT ![w] = "finished"]
  /\ UNCHANGED <<mainVars, barrier, workerVars, status>>

\* A LOGF or PLOGF of the thread: its name, its scheduling attributes or its
\* affinity cannot be set, or its instruction fails.
Fail(w) ==
  /\ status = "running"
  /\ wpc[w] \in {"start", "measuring"}
  /\ status' = "exited"
  /\ UNCHANGED <<mainVars, barrier, wpc, workerVars>>

-----------------------------------------------------------------------------
MainNext ==
  \/ SetUpSingle \/ BarrierInit \/ Spawn \/ SpawnFails
  \/ Join \/ TearDownSingle \/ CollectResults

WorkerNext(w) ==
  Arrive(w) \/ Leave(w) \/ MeasureStart(w) \/ MeasureEnd(w) \/ Return(w) \/ Fail(w)

Next == MainNext \/ \E w \in Workers : WorkerNext(w)

Spec == Init /\ [][Next]_vars

\* Every thread that can take a step eventually does: the threads are
\* scheduled by the kernel independently of one another.
Fairness == WF_vars(MainNext) /\ \A w \in Workers : WF_vars(WorkerNext(w))

FairSpec == Spec /\ Fairness

-----------------------------------------------------------------------------
(* Properties *)

TypeOK ==
  /\ mpc \in MainStates
  /\ round \in 0..Repeat
  /\ spawned \in 0..N
  /\ joined \in 0..N
  /\ barrier \in [state : {"unset", "ready", "destroyed"}, count : Nat, waiting : SUBSET Workers]
  /\ wpc \in [Workers -> WorkerStates]
  /\ iter \in [Workers -> Nat]
  /\ timer \in {"stopped", "started"}
  /\ mainSamples \in Nat
  /\ samples \in [Workers -> Nat]
  /\ status \in {"running", "exited"}

\* No thread is past the barrier while another one of the round has not
\* reached it, in any round and for any order in which the threads are
\* spawned and scheduled (barrier_wait in RunSynchronized).
StartTogether ==
  \A v, w \in Workers :
    wpc[v] \in {"released", "loop", "measuring", "finished", "joined"}
      => wpc[w] \notin {"none", "start", "waiting"}

\* The barrier outlives its users: it is initialised before the first thread
\* can wait on it and not destroyed while a thread still has to enter it or
\* to return from it (pthread_barrier_destroy in TearDownSingle).
BarrierLive ==
  \A w \in Workers : wpc[w] \in {"start", "waiting", "released"} => barrier.state = "ready"

\* The instruction's own duration covers the work of its threads: no interval
\* of a child is open outside an interval of the main sampler.
DurationCoversThreads ==
  \A w \in Workers : wpc[w] \in {"measuring", "loop"} => timer = "started"

\* Between two rounds, and when the results are collected, every repetition
\* of every child has been measured: nothing is lost or counted twice.
SamplesComplete ==
  mpc \in {"setup", "collect", "reported"} =>
    /\ mainSamples = round
    /\ \A w \in Workers : samples[w] = round * ChildRepeat[w]

\* The main thread touches a child instruction (SetUp, TearDown,
\* CollectResults) only while no thread runs it.
ChildrenIdle ==
  mpc \in {"setup", "collect", "reported"} => \A w \in Workers : wpc[w] = "none"

\* The instruction ends: its results are reported, or a fatal error has ended
\* the process.  No failure of a thread leaves the others waiting for ever.
Termination == <>(mpc = "reported" \/ status = "exited")

\* How far the barrier and its instruction have taken each thread.
phaseBar ==
  [w \in Workers |->
     IF wpc[w] \in {"none", "start", "waiting"} THEN "out"
     ELSE IF wpc[w] \in {"released", "loop", "measuring"} THEN "in"
     ELSE "done"]

FJ == INSTANCE ForkJoin WITH Rounds <- Repeat, phase <- phaseBar

\* The instruction is the fork/join its users count on: the steps of the main
\* thread and of the spawned threads, in any order, only ever start all the
\* threads together, finish them one by one and then end the repetition.
ImplementsForkJoin == FJ!AbsSpec
=============================================================================
