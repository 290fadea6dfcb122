# Dittosuite: a TLA+ verification project

Dittosuite runs benchmarks. A `.ditto` file describes a tree of instructions
(open, read and write files, allocate memory, burn CPU, lock, talk over Binder);
`dittobench` parses the file, runs its `init`, `main` and `clean_up` trees in threads
or forked processes, samples how long every instruction took and prints statistics.
This directory models that program in TLA+, checks it with TLC and proves the
properties that matter most with TLAPS.

## Inventory

| component (source) | state | operations | what makes it correct |
|---|---|---|---|
| shared variables (`shared_variables.cpp`) | `variables_`, `keys_` (static) | `Exists`, `GetKey`, `Get`, `GetPointer`, `Set`, `ClearKeys` | keys stay valid, names resolve to the variable of the nearest enclosing thread, strangers never share, pointers stay live |
| parser and factory (`parser.cpp`, `instruction_factory.cpp`) | `current_thread_id_`, the list of enclosing thread ids | `__Parse`, one case per instruction | every name is resolved before anything runs; mutexes are mutexes |
| `Instruction` (`instruction.cpp`) | `time_sampler_`, `next_wakeup_` | `SetUp`, `Run`, `RunSynchronized`, `TearDown`, `CollectResults` | one sample for each repetition |
| `InstructionSet`, `MemoryAllocation` | `gen_`, the item variable, `allocated_addresses_` | run the contained instructions, iterate a list, map and free | durations add up, seeds reproduce, memory is freed by policy |
| `Multithreading` | `threads_`, `barrier_` | spawn, join | threads start together, the barrier outlives them, samples are complete |
| `Multiprocessing` | shared mutex and two barriers, pipes, `is_manager_` | fork, synchronise, serialise, read | start and finish together, results arrive whole, nobody waits for ever |
| `multithreading_utils.cpp` | the process title, the environment block | scheduling attributes, affinity, `setproctitle` | fail before the barrier or not at all |
| `Result`, statistics | `samples_`, `statistics_`, sub-results, the static `bin_size` | measure, print, (de)serialise | every measurement is reported once, bins hold every sample, statistics survive the pipes |
| timespec, samplers | `start_`, `end_`, `samples_` | arithmetic with carry | normalised results |
| file instructions, `ReadWriteFile` | descriptor variables, `units_`, `gen_` | open, close, delete, resize, read, write | units stay inside the file, descriptors are open when used |
| Binder service and requests | `client_cnt_`, a condition variable | `start`, `end`, `sync`, wait | the server stops after its last client and not before |
| `dittobench` | the phase, the processes | run `init`, `main`, `clean_up`; collect and print | one report, clean-up after everything has run |
| tracer | the slices open in the kernel's trace | begin, end | slices nest like the instructions |
| `dittotrace` | lines by thread, instruction sets by descriptor | split, merge, convert an strace log | each file is replayed once with its own accesses |
| arguments, logger, system call wrappers | files and streams | formatting and I/O | |

How they interact. `Parser` calls the factory, which resolves every variable name to an
integer key through `SharedVariables`; running instructions use only keys (and, for
locks, raw addresses). `Instruction::Run` calls the virtual `SetUpSingle`, `RunSingle`
and `TearDownSingle`; sets, `Multithreading` and `Multiprocessing` call the same
interface of the instructions they contain. Threads share everything; forked processes
share only the barriers, the mutex and the pipes made before the fork. `LOGF` ends the
process that calls it, which is harmless among threads and is the hard case among
processes.

The hard behaviours are therefore: names and pointers across parses and threads; the
life time of a barrier under every interleaving; end of file on pipes that many
processes inherited; processes that die at each point, and processes that do not stop
where one expects; oneway Binder calls and a condition variable without a predicate; and
the regrouping of samples taken in one order and reported in another. `PROJECT.json` lists them as hazards, each
with its line.

## Modules

| module | models | state and actions |
|---|---|---|
| `SharedVariables` | `shared_variables.cpp` | pure operators on a store: `GetKey` returns the key and `AfterGetKey` the store after the call; the capacity and heap block of the vector are kept, because addresses escape |
| `Parser` | `parser.cpp`, `instruction_factory.cpp` | one action per construct the factory may meet; the file is the behaviour, so every file is covered, and parses follow one another as in `dittobench_benchmark` |
| `ForkJoin` | (abstract) | what users count on: all workers are released together, finish one by one, then the round ends |
| `Multithreading` | `multithreading.cpp`, `RunSynchronized`, `Run` | the main thread's steps and each thread's, with the barrier's count and waiters |
| `Multiprocessing` | `multiprocessing.cpp` | the manager's steps and each child's, the mutex, the barriers, who holds which write end, and pipes with a capacity |
| `InstructionSet` | `instruction_set.cpp`, `instruction.cpp`, `memory_allocation.cpp`, `tracer.cpp` | a stack of calls over a tree, the samples and the durations computed from them, the mappings held and the trace slices open |
| `FileInstructions` | `open_file.cpp`, `close_file.cpp`, `delete_file.cpp`, `resize_file.cpp`, `read_write_file.cpp`, `invalidate_cache.cpp` | threads that run any sequence of these instructions and interleave at each system call, over the kernel's descriptors, paths and file sizes |
| `Timespec` | `timespec_utils.cpp` | pure operators on seconds and nanoseconds, with the radices as parameters |
| `Periodic` | `instruction.cpp` (period and offset), `sampler.cpp`, `cpu_work.cpp` | one instruction set up and run round after round against two clocks that move between any two reads |
| `Binder` | `binder.cpp`, `binder_service.cpp`, `binder_request.cpp` | the processes of one service and its clients, the queue of oneway calls, the pool thread that handles them, and the condition variable |
| `Dittobench` | `dittobench.cpp`, `multiprocessing.cpp`, `setproctitle` | every process that `init`, `main` and `clean_up` fork, named by its line of descent, each going on with the program; a barrier and a pipe are one step here |
| `Histogram`, `Results` | `result.cpp`, `statistics.h`, the `CollectResults` functions | pure operators from the samples of a tree to what is printed; two steps, collect and print |
| `Dittotrace` | `dittotrace.cpp` | the converter as one operator per function; the log is written by actions of the traced threads |
| `ParserProofs`, `MultithreadingProofs`, `MultiprocessingProofs`, `PeriodicProofs`, `InstructionSetProofs`, `FileInstructionsProofs`, `BinderProofs`, `DittobenchProofs` | | theorems about these eight state machines |
| `MC*` | | instances for TLC |

Actions are as large as the code allows without hiding an interleaving: everything the
main thread does between two points where another thread can notice is one action.
`PROJECT.json` maps each definition to its lines.

Abstractions. A shared variable's value is the alternative of the variant it holds. A
serialised result is a number of chunks, a pipe a bounded counter of chunks, because
only lengths and end of file matter. A leaf instruction takes an arbitrary time out of
`Durations`. A random generator is the number of draws since it was seeded, which is
all that reproducibility depends on; where only the offsets matter, as in a random read,
any draw is allowed. A file is its size. A mean is kept as a sum and a number, a
median as its double and a deviation as a multiple of its square, so that integers are
exact. A line of an strace log is its thread, its tag and its call, and a call is what
the converter looks at; the file it is really about is carried along for the properties.
In `FileInstructions` every thread has a
descriptor variable of its own and uses it only while it has the file open: using a
descriptor that another thread closes is a mistake of the benchmark, not of the program.
Paths are shared, and random names of two threads do collide, because every generator of
`OpenFile` is seeded with the second it was built in and the name is checked before it is
opened without `O_EXCL`. Definitions commented "Mutant of X" are
plausible mistakes in X; they take no part in the specifications and document what the
properties would catch.

## Runs

| run | instance | shows |
|---|---|---|
| `parser` | two names, up to four thread ids over any number of parses | threads share a variable only through one that encloses them, names keep their variable |
| `lock_dangling` | violated | a variable named after a lock moves the mutex away from its pointer |
| `multithreading` | three threads, two rounds, one child repeating twice | the barrier outlives its users, samples are complete, children are idle when touched, refinement of `ForkJoin`, termination |
| `multiprocessing` | four processes, results of three chunks, pipes of one, failures anywhere | shared objects outlive their users, results are whole, refinement of `ForkJoin`, completion without failures, and with them the manager ends but for the named ways of being left waiting |
| `instruction_set` | 705 trees | durations, overruns, seeds, mappings and trace slices |
| `durations_overrun` | violated | `example/iterate_read_files.ditto` overruns a vector |
| `file_instructions` | two threads of four instructions each, two paths, four descriptors | descriptors stay with the thread that opened them, units lie inside the file and cover it once, and only a concurrent cut makes a transfer short |
| `periodic` | five instructions, two rounds of two repetitions, twelve ticks | wake-ups do not drift, CPU work takes its time, samples cover their repetition only |
| `binder` | a service, two counting clients, a generic one and one of the mount service, 0 to 2 repetitions | the service outlives its clients, its condition variable is not signalled when destroyed, and it stops but for four named hangs |
| `dittotrace` | two threads, two descriptors, logs of five lines | own files are replayed once and in order, mix-ups need a close by another thread, aborts need a kill inside a call, and a call broken off by one is not replayed |
| `results` | 399 vectors for one instruction, all trees of two levels from a menu | each measurement printed once, bins hold all samples unless the bin size overflows, statistics survive, what the CSV loses |
| `dittobench` | phases of up to two forks and two repetitions, at most six processes | the number of reports, clean-up after main, the second move of an environment, all processes end |

Each module's `TypeOK`, where there is one, says what its variables hold; where the module
has proofs it is a theorem.

Bounds. Two names and four thread ids let siblings, nested threads and a second parse
meet; a name that is never `absolute_path` and one that is are both there, and the
proofs remove the bound. Three threads are the least with one waiting, one arriving and
one not yet spawned; two rounds the least in which a barrier is initialised again. Four
processes with results larger than the pipes let the manager be at one pipe while two
others are blocked. The trees have a root and two instructions, each of which may be a
set of its own: the first sizes the vector and the second may overrun it, below and
within an iteration; `MaxExecutions` bounds how often leaves run. Four file instructions
let a thread open, resize, read or write and close while another does the same to the
same file; four descriptors, one of them standard input, can be used up; files of three
and four bytes are multiples of some of the blocks and not of others. A second of four
nanoseconds makes every carry, borrow and comparison across seconds happen within the
twelve ticks of `periodic`, which the proofs extend to any radix. Two counting clients
are the least of which one can leave while the other is still to be counted in; two
repetitions the least in which a wait follows a signal. Five lines are the least in which
a thread opens a file, another closes it and opens its own at the same descriptor, and
the first accesses and closes that. Histograms of three bins, units that change at 4 and
12 and an `int` of at most 7 stand for 20 bins, 10^7 ns and 2^31. Six processes let a
child fork again, in the same phase and in a later one. In the state machines that stop
(a process exits, a run is reported, a log ends) deadlock is not checked.

Fairness. Each thread and each process is weakly fair, as the kernel's scheduler
provides, and a barrier that is full opens; failures and spurious wake-ups are never
assumed to happen. Weak fairness is enough for the mutex because each child takes it
once. In `Dittobench` one weak fairness for all processes is enough: there are finitely
many and each takes finitely many steps. Liveness is stated under `FairSpec` only.

## What the runs say about the code

Where they disagree with the code's own words is in `PROJECT.json` under `findings`. The
exact conditions in the properties show more, on which the repository says nothing or
only in passing:

* A child that ends in a `LOGF` while it is set up keeps the mutex, and one that dies
  before a barrier is missed there: its siblings wait, keep their pipes open, and the
  manager waits in `read()` for ever, although a comment says "Stop every child"
  (`multiprocessing.cpp:207`). `ManagerEnds` says that nothing else blocks the manager.
* A child that died before writing leaves zero bytes, which decode as an empty result
  (`multiprocessing.cpp:167`); `ResultsFaithful` and `StatisticsSurvive` say that only
  such children are lost, each with everything below it.
* `MemoryAllocation::TearDownSingle` does not call the one it overrides: no interval is
  recorded, so `CollectResults` of a benchmark with `mem_alloc` ends in the `LOGF` for
  empty vectors, and every repetition leaves a slice open in the trace (`SlicesMatch`).
* A Binder client set up before the service holds the initialisation mutex and waits for a
  service whose set-up needs it; a last `END` handled before the service waits is lost; a
  client with `repeat: 0` is counted in and not out; a generic client set up too early
  crashes (`ServiceStops`, `HangsForGood`). A client in the process of its service gets the
  local object, whose `end()` does not signal at all, so the service never stops; this is
  not modelled, nor that `client_cnt_` has no initial value before C++20.
* A forking `main` with `repeat` above one, or a forking `init`, prints several reports
  and runs `clean_up` while others still run `main` (`ReportsPrinted`, `CleanUpAfterMain`);
  a process forked by a forked process moves an environment that has no end any more
  (`TitleSafe`).
* `dittotrace` keeps descriptors by thread, so a file closed by another thread is lost or
  mixed up with the next one at its descriptor (`FaithfulUnlessShared`); only a kill
  inside a call ends the conversion with an exception, and not always: if a path, the data
  or "(core dumped)" has a closing parenthesis, `ProcessLine` takes that for the end of the
  arguments and the broken call is converted. It is lost again, because its set is never
  closed, unless it is itself the `close` (`BrokenCallsLost`).
* What came from forked processes has no samples: it is in no histogram and no table, and
  a measurement that only they took has no CSV column (`PrintedOnce`,
  `CsvLosesOnlyRemote`). A bin size beyond an `int` wraps (`BinsHold`).
* A lock on a name that exists but holds no mutex gets a null pointer
  (`instruction_factory.cpp:318-326`); such a file is itself wrong.
* `ReadWriteFile::SetUp` and `GenericBinderRequest::SetUp` do not call
  `Instruction::SetUp`, so their `period_us` and `offset_us` never make them wait:
  `NoDrift` speaks of the others.
* Outside the models: a table path of many components is meant to show "only the last 2"
  (`result.cpp:133`), but only its first component is cut; and the second `nth_element` of
  an even median (`statistics.h:67`) may by the standard move what the first one placed,
  which the usual libraries do not do.

## Proofs

For every value of the constants, not only the instances above:

* `ParserProofs`: `TypeOK`, `KeysValid`, `NoAliasing`, `NoShadowing` and
  `InnerSeesOuter`. The inductive invariant adds what the code relies on silently:
  every entry of `keys_` belongs to a thread id already handed out, a (thread, name)
  pair has one entry, keys are never reused, every use is still explained by an entry
  or belongs to an earlier parse, a thread has one list of enclosing threads, and all
  who hold a key are inside the thread that first used it (`Homes`, `Paths`), which is
  what `NoAliasing` needs to tell siblings apart. `InnerSeesOuter` is an action property and follows
  from the same invariant.
* `MultithreadingProofs`: all six invariants and the refinement of `ForkJoin`. The
  inductive invariant ties the position of the main thread to that of each spawned
  thread, and the set of waiters to the threads that wait, so that the count can only
  be reached by all of them.
* `MultiprocessingProofs`: all five invariants and the refinement. The invariant says
  who holds each write end at every position of the manager and of its owner, that the
  chunks sent are those in the pipe and those received, and that a barrier with a count
  of N opens only when every child waits in it, which holds although any child may die
  and any fork may fail.
* `PeriodicProofs`: that `+`, `-` and `<` on timespecs are exact and keep them normalised,
  whatever the radix, that microseconds convert exactly and nanoseconds survive the way
  there and back; and from these all five invariants of `Periodic`. The inductive
  invariant adds that a round was set up and an open interval begun in the past, that a
  thread which is awake was due, and that CPU time advances no faster than the clock.
* `InstructionSetProofs`: `TypeOK` and all six invariants, for every tree and all times the
  instructions may take. The first invariant says that the calls in progress go strictly
  down the tree, so that an instruction has at most one; and it gives the items stored,
  the position of the generator and the mappings held as functions of the rounds and
  repetitions done, once for an instruction that is idle (`IdleKnown`) and once for each
  stage of one that runs (`BusyKnown`). `SlicesMatch` is proved on top of it: all calls but
  the innermost are inside their slice, and a step changes the sum over all `mem_alloc`s
  in one summand. `OverrunsExactly` needs how often each instruction has been called and
  how many samples it has (`Counted`); that `CollectResults` groups as many of them as the
  set ran cycles then follows by induction over the tree. The durations need what the
  samples hold: the time of a set is that of its instructions at every moment of the run,
  the calls in progress included and but for a `mem_alloc`, which never ends its
  measurement (`SpentKnown`), and that of its first cycles is theirs in
  those cycles (`CyclesKnown`); adding groups of samples element by element preserves both
  sums, so that `DurationPerCycle` follows for a set and, down to the leaves of the tree,
  which siblings do not share, `DurationIsSum`.
* `FileInstructionsProofs`: `TypeOK` and all four invariants, for any number of threads
  and paths, any options and any limit on descriptors, whichever calls fail. One half of
  the invariant is about descriptors: what a thread has read at each stage of an
  instruction, and that no two threads own the same one, neither through their variables
  nor while they drop the caches. The other is about units: a file is at least as long as
  it was measured unless somebody cut it. That a whole sequential transfer visits each
  block once rests on lemmas about `Sequential`: the offsets go up by a block, wrap once,
  and so are distinct and as many as the blocks.
* `BinderProofs`: `TypeOK`, `OutlivesClients`, `SignalWhileLive` and the action property
  `HangsForGood`, for any clients of the three kinds and any repetitions. The invariant
  counts: `client_cnt_` is the number of clients that have sent `START` but for the
  `START`s in the queue, less the same for `END`; and no `START` is queued behind an
  `END`, because of the barrier. Without that order the count reaches zero too early.
* `DittobenchProofs`: `TitleSafe`, `CleanUpAfterMain` and `ReportsPrinted`, and that where
  one report is expected only the first process prints, for any number of forks and
  repetitions in any phase. One part of the invariant follows a single process through
  its phases, whatever its name; the other says which processes there are while the first
  one is in `main`, so that the children it waits for are all of them. The number of reports is an
  invariant of its own, `Owing`: each process owes the reports that it and all it will
  have forked are going to print, a power or a product of two by its phase and the
  repetitions left; `SetUpSingle` divides what the process owed among it and its new
  children, `Report` pays one, no other step changes what anyone owes, and what is owed
  and what is printed always add up to `Reports`. The names of the processes matter here:
  those a process forks are numbered on from the ones it has, so that each is new.

The assumptions are only those of the modules (at least one thread or process, positive
lengths, `absolute_path` among the names, finitely many threads, paths and clients, trees
in which a node comes before its instructions and every instruction is owned by one set,
as the `unique_ptr`s of `instruction_set.h:44` make it, phases that run at least once), and
TLC evaluates them in the runs.

Induction. The library's induction theorems have an operator as a parameter, which the
provers cannot instantiate, but the existence of a least element (`WFMin`) has not. From
it `FileInstructionsProofs`, `InstructionSetProofs` and `DittobenchProofs` derive induction
for a *set* of numbers. That is enough for the recursive functions: `Sequential`, which
lists the units of a transfer, `Power`, and the function over the nodes of a tree by which
`CollectResults` is defined, which exists and is unique because instructions come after
their set. The folds that add up samples are unrolled along the chain of their partial
results.

Only model-checked:

* liveness (`Termination`, `Completes`, `ManagerEnds`, `ServiceStops`, `AllEnd`), which is
  out of the prover's reach;
* `PrintedOnce`, `BinsHold`, `StatisticsSurvive` and `CsvLosesOnlyRemote`: `Results` is
  made of `RECURSIVE` operators, as the code is, and no module that uses one can be proved
  about;
* `OwnFilesReplayed`, `FaithfulUnlessShared` and `BrokenCallsLost`: they are about the
  result of two folds, one that joins the parts of a call and one that builds the
  instruction sets by descriptor, over the lines of one thread selected from the log. An invariant would have to say what both have done with every prefix of it.

Steps on which the provers take longer than a second or two have a time limit of their
own (`SMTT`, `ZenonT`), so that the proofs do not depend on the speed of the machine.

## Not modelled

* The text of paths and of printed data in an strace log, beyond whether it ends the
  arguments early: a path with a parenthesis is replayed under a shorter name, and an
  `openat` of `absolute_path` itself is undefined (`dittotrace.cpp:156`).
* That `bin_size` is a static variable: each measurement sets it before it is used, and
  sub-results overwrite it only after that, so it is a function of the measurement.
* The length of process titles: a second `setproctitle` in a process with a moved
  environment is always undefined in `Dittobench`, in the program only if the title it
  has is shorter than its arguments were (`multithreading_utils.cpp:212`).
* Parcels of generic Binder requests, and clients in the process of their service.
* Locks at run time: which thread waits for which mutex depends on the benchmark alone.
* `read_directory`, descriptors shared by threads, and sizes beyond 2 GiB.
* A multiprocessing instruction inside another, or inside threads: `Dittobench` has forks at
  the top of each phase only.
* Scheduling attributes and affinity beyond their failing; the session mark of the trace.
* The text of logs, tables and CSV files, option parsing, the protobuf text format with
  its `$PARAMETER_n$`, the wrappers of system calls, and generated code: no state that a
  property could be about.
