--------------------------- MODULE Multiprocessing ---------------------------
(***************************************************************************)
(* The Multiprocessing instruction (a multithreading instruction with      *)
(* fork: true): one repetition, from the creation of the shared barriers,  *)
(* mutex and pipes in SetUpSingle to the results the manager collects.     *)
(*                                                                         *)
(*   mpc         where the manager is                                      *)
(*   next        the child the manager's fork or read loop is at           *)
(*   cpc         where each child process is; a child that ends in a LOGF  *)
(*               keeps its position and joins dead                         *)
(*   mutex       initialization_mutex_: its owner, or Free                 *)
(*   waiting, waitingEnd   who waits on barrier_execution_ and on          *)
(*               barrier_execution_end_, both of count N                   *)
(*   writers     for each pipe, the processes that hold its write end open *)
(*   pipe        bytes (in chunks) buffered in each pipe                   *)
(*   sent, received   chunks written by the child, read by the manager     *)
(*   results     what the manager decoded for each child                   *)
(*                                                                         *)
(* LOGF and PLOGF end one process only: the kernel closes its file         *)
(* descriptors, but a shared mutex it holds stays locked.                  *)
(***************************************************************************)
EXTENDS Naturals, FiniteSets

CONSTANTS N,            \* instructions_.size()
          MsgLen,       \* chunks in a serialised result
          Capacity,     \* chunks a pipe can hold
          FailPoints    \* where a process may meet a fatal error

Children == 1..N
Manager == 0           \* the process that forks
Free == 0              \* no owner of the mutex
Processes == 0..N

ASSUME MultiprocessingAssumption ==
  /\ N \in Nat \ {0}
  /\ MsgLen \in Nat \ {0}
  /\ Capacity \in Nat \ {0}
  /\ FailPoints \subseteq {"fork", "init", "ready", "run", "report", "write"}

VARIABLES mpc, next, cpc, dead, mutex, waiting, waitingEnd, writers, pipe, sent,
          received, results

managerVars == <<mpc, next, received, results>>
syncVars == <<mutex, waiting, waitingEnd>>
pipeVars == <<writers, pipe, sent>>
vars == <<managerVars, cpc, dead, syncVars, pipeVars>>

ManagerStates == {"fork", "close", "read", "destroy", "done", "exited"}

\* In the order a child goes through them.
ChildStates == {"unborn", "close", "lock", "init", "ready", "waiting", "run", "ran",
                "waitingEnd", "report", "write", "closed", "exited"}

\* SetUpSingle up to the fork loop: the manager creates the shared objects
\* and opens every pipe.
Init ==
  /\ mpc = "fork"
  /\ next = 1
  /\ cpc = [c \in Children |-> "unborn"]
  /\ dead = {}
  /\ mutex = Free
  /\ waiting = {}
  /\ waitingEnd = {}
  /\ writers = [p \in Children |-> {Manager}]
  /\ pipe = [p \in Children |-> 0]
  /\ sent = [c \in Children |-> 0]
  /\ received = [c \in Children |-> 0]
  /\ results = [c \in Children |-> "none"]

-----------------------------------------------------------------------------
(* The manager *)

\* The index of a loop over the children, after one more iteration.
Advance(following) ==
  /\ next' = IF next = N THEN 1 ELSE next + 1
  /\ mpc' = IF next = N THEN following ELSE mpc

\* fork() creates the child, which inherits every write end still open here.
Fork ==
  /\ mpc = "fork"
  /\ cpc' = [cpc EXCEPT ![next] = "close"]
  /\ writers' = [p \in Children |-> writers[p] \cup {next}]
  /\ Advance("close")
  /\ UNCHANGED <<dead, syncVars, pipe, sent, received, results>>

\* fork() returns -1: the loop goes on as after a successful one.
ForkFails ==
  /\ "fork" \in FailPoints
  /\ mpc = "fork"
  /\ Advance("close")
  /\ UNCHANGED <<cpc, dead, syncVars, pipeVars, received, results>>

\* Mutant of CloseWriteEnds: the manager keeps the write ends.
KeepWriteEnds ==
  /\ mpc = "close"
  /\ mpc' = "read"
  /\ UNCHANGED <<next, received, results, cpc, dead, syncVars, pipeVars>>

\* The manager closes all write ends; its Run and TearDown do nothing more.
CloseWriteEnds ==
  /\ mpc = "close"
  /\ writers' = [p \in Children |-> writers[p] \ {Manager}]
  /\ mpc' = "read"
  /\ UNCHANGED <<next, received, results, cpc, dead, syncVars, pipe, sent>>

\* CollectResults: read() from the pipe of child next returns some bytes ...
Read ==
  /\ mpc = "read"
  /\ pipe[next] > 0
  /\ pipe' = [pipe EXCEPT ![next] = @ - 1]
  /\ received' = [received EXCEPT ![next] = @ + 1]
  /\ UNCHANGED <<mpc, next, results, cpc, dead, syncVars, writers, sent>>

\* What parsing the bytes of child c gives: zero bytes are a valid empty
\* message, and a truncated one may be refused or lose its tail.
Decoded(c) ==
  CASE received[c] = 0      -> "empty"
    [] received[c] = MsgLen -> "full"
    [] OTHER                -> "partial"

\* Mutant of Eof: an empty pipe ends the loop, whoever may still write.
EofWhenEmpty ==
  /\ mpc = "read"
  /\ pipe[next] = 0
  /\ results' = [results EXCEPT ![next] = Decoded(next)]
  /\ Advance("destroy")
  /\ UNCHANGED <<received, cpc, dead, syncVars, pipeVars>>

\* ... or 0, once the pipe is empty and nobody holds its write end: the
\* result is decoded and added.
Eof ==
  /\ mpc = "read"
  /\ pipe[next] = 0
  /\ writers[next] = {}
  /\ results' = [results EXCEPT ![next] = Decoded(next)]
  /\ Advance("destroy")
  /\ UNCHANGED <<received, cpc, dead, syncVars, pipeVars>>

\* "Failed decoding PB from pipe".
DecodeFails ==
  /\ mpc = "read"
  /\ pipe[next] = 0
  /\ writers[next] = {}
  /\ Decoded(next) = "partial"
  /\ mpc' = "exited"
  /\ UNCHANGED <<next, received, results, cpc, dead, syncVars, pipeVars>>

\* The mutex and the barriers are destroyed and the result is returned.
Destroy ==
  /\ mpc = "destroy"
  /\ mpc' = "done"
  /\ UNCHANGED <<next, received, results, cpc, dead, syncVars, pipeVars>>

-----------------------------------------------------------------------------
(* A child *)

At(c, place) == c \notin dead /\ cpc[c] = place

Go(c, place) == cpc' = [cpc EXCEPT ![c] = place]

\* Mutant of CloseOthers: the child keeps the write ends of its siblings.
KeepOthers(c) ==
  /\ At(c, "close")
  /\ Go(c, "lock")
  /\ UNCHANGED <<managerVars, dead, syncVars, pipeVars>>

\* The write pipes that do not belong to the child are closed.
CloseOthers(c) ==
  /\ At(c, "close")
  /\ writers' = [p \in Children |-> IF p = c THEN writers[p] ELSE writers[p] \ {c}]
  /\ Go(c, "lock")
  /\ UNCHANGED <<managerVars, dead, syncVars, pipe, sent>>

Lock(c) ==
  /\ At(c, "lock")
  /\ mutex = Free
  /\ mutex' = c
  /\ Go(c, "init")
  /\ UNCHANGED <<managerVars, dead, waiting, waitingEnd, pipeVars>>

\* The process title, scheduling attributes, affinity and the instruction's
\* SetUp are done under the mutex.
Unlock(c) ==
  /\ At(c, "init")
  /\ mutex' = Free
  /\ Go(c, "ready")
  /\ UNCHANGED <<managerVars, dead, waiting, waitingEnd, pipeVars>>

\* Mutant of ArriveStart: the barrier lets one process through early.
ArriveStartShort(c) ==
  /\ At(c, "ready")
  /\ LET inside == waiting \cup {c}
     IN  IF Cardinality(inside) >= N - 1
           THEN /\ cpc' = [d \in Children |-> IF d \in inside THEN "run" ELSE cpc[d]]
                /\ waiting' = {}
           ELSE /\ Go(c, "waiting")
                /\ waiting' = inside
  /\ UNCHANGED <<managerVars, dead, mutex, waitingEnd, pipeVars>>

\* barrier_execution_
ArriveStart(c) ==
  /\ At(c, "ready")
  /\ LET inside == waiting \cup {c}
     IN  IF Cardinality(inside) = N
           THEN /\ cpc' = [d \in Children |-> IF d \in inside THEN "run" ELSE cpc[d]]
                /\ waiting' = {}
           ELSE /\ Go(c, "waiting")
                /\ waiting' = inside
  /\ UNCHANGED <<managerVars, dead, mutex, waitingEnd, pipeVars>>

\* The child's Run returns.
FinishRun(c) ==
  /\ At(c, "run")
  /\ Go(c, "ran")
  /\ UNCHANGED <<managerVars, dead, syncVars, pipeVars>>

\* barrier_execution_end_
ArriveEnd(c) ==
  /\ At(c, "ran")
  /\ LET inside == waitingEnd \cup {c}
     IN  IF Cardinality(inside) = N
           THEN /\ cpc' = [d \in Children |-> IF d \in inside THEN "report" ELSE cpc[d]]
                /\ waitingEnd' = {}
           ELSE /\ Go(c, "waitingEnd")
                /\ waitingEnd' = inside
  /\ UNCHANGED <<managerVars, dead, mutex, waiting, pipeVars>>

\* TearDownSingle, and CollectResults up to the serialised result.
Serialize(c) ==
  /\ At(c, "report")
  /\ Go(c, "write")
  /\ UNCHANGED <<managerVars, dead, syncVars, pipeVars>>

\* The write loop: write() blocks while the pipe is full.
Write(c) ==
  /\ At(c, "write")
  /\ sent[c] < MsgLen
  /\ pipe[c] < Capacity
  /\ sent' = [sent EXCEPT ![c] = @ + 1]
  /\ pipe' = [pipe EXCEPT ![c] = @ + 1]
  /\ UNCHANGED <<managerVars, cpc, dead, syncVars, writers>>

\* Mutant of ClosePipe: the child stops after the first write.
ClosePipeEarly(c) ==
  /\ At(c, "write")
  /\ sent[c] > 0
  /\ writers' = [writers EXCEPT ![c] = @ \ {c}]
  /\ Go(c, "closed")
  /\ UNCHANGED <<managerVars, dead, syncVars, pipe, sent>>

\* Everything is written: the child closes its pipe ...
ClosePipe(c) ==
  /\ At(c, "write")
  /\ sent[c] = MsgLen
  /\ writers' = [writers EXCEPT ![c] = @ \ {c}]
  /\ Go(c, "closed")
  /\ UNCHANGED <<managerVars, dead, syncVars, pipe, sent>>

\* ... and stops with exit(0).
Exit(c) ==
  /\ At(c, "closed")
  /\ Go(c, "exited")
  /\ UNCHANGED <<managerVars, dead, syncVars, pipeVars>>

\* A LOGF in the child, while it holds the mutex ("init"), sleeps until its
\* offset ("ready"), runs its instruction, collects results or writes them.
Fail(c) ==
  /\ c \notin dead
  /\ cpc[c] \in FailPoints
  /\ dead' = dead \cup {c}
  /\ writers' = [p \in Children |-> writers[p] \ {c}]
  /\ UNCHANGED <<managerVars, cpc, syncVars, pipe, sent>>

-----------------------------------------------------------------------------
ManagerNext ==
  Fork \/ ForkFails \/ CloseWriteEnds \/ Read \/ Eof \/ DecodeFails \/ Destroy

ChildStep(c) ==
  \/ CloseOthers(c) \/ Lock(c) \/ Unlock(c) \/ ArriveStart(c) \/ FinishRun(c)
  \/ ArriveEnd(c) \/ Serialize(c) \/ Write(c) \/ ClosePipe(c) \/ Exit(c)

Next == ManagerNext \/ \E c \in Children : ChildStep(c) \/ Fail(c)

Spec == Init /\ [][Next]_vars

\* Every process that can take a step eventually does; nothing is assumed
\* about failures.  Each child takes the mutex at most once, so weak fairness
\* is enough for it.
Fairness == WF_vars(ManagerNext) /\ \A c \in Children : WF_vars(ChildStep(c))

FairSpec == Spec /\ Fairness

-----------------------------------------------------------------------------
(* Properties *)

TypeOK ==
  /\ mpc \in ManagerStates
  /\ next \in Children
  /\ cpc \in [Children -> ChildStates]
  /\ dead \in SUBSET Children
  /\ mutex \in Processes
  /\ waiting \in SUBSET Children
  /\ waitingEnd \in SUBSET Children
  /\ writers \in [Children -> SUBSET Processes]
  /\ pipe \in [Children -> 0..Capacity]
  /\ sent \in [Children -> 0..MsgLen]
  /\ received \in [Children -> 0..MsgLen]
  /\ results \in [Children -> {"none", "empty", "partial", "full"}]

Finished == {"report", "write", "closed", "exited"}
Started == {"run", "ran", "waitingEnd"} \cup Finished

\* No process runs its instruction before all N have been set up, whatever
\* failures occur (barrier_execution_).
StartTogether == \A c, d \in Children : cpc[c] \in Started => cpc[d] \in Started

\* No process tears its instruction down or reports while a sibling still
\* runs (barrier_execution_end_).
FinishTogether == \A c, d \in Children : cpc[c] \in Finished => cpc[d] \in Finished

\* The manager destroys the barriers and the mutex, and goes on to print and
\* clean up, only when no child can touch them or run its instruction again.
DestroyAfterUse ==
  mpc \in {"destroy", "done"} =>
    \A c \in Children : c \in dead \/ cpc[c] \in {"unborn", "closed", "exited"}

\* The end of file the manager sees on a pipe is the end of the child's
\* result: less than the whole message is taken for a result only of a child
\* that could not be forked or died.  This rests on who holds the write ends.
ResultsFaithful ==
  \A c \in Children :
    results[c] \in {"empty", "partial"} => c \in dead \/ cpc[c] = "unborn"

\* A child that never gets to the end of the second barrier, because it was not
\* forked or died on the way, and one that waits for the others.
Lost(c) == (mpc # "fork" /\ cpc[c] = "unborn") \/ (c \in dead /\ cpc[c] \notin Finished)

Waits(c) == c \notin dead /\ cpc[c] \in {"lock", "waiting", "waitingEnd"}

\* Unless a fork fails or a child dies the instruction completes, however small
\* the pipes are compared with the results: the manager has every result and
\* every child has stopped.
Completes ==
  <>(\/ dead # {} \/ \E c \in Children : Lost(c)
     \/ mpc = "done" /\ \A c \in Children : cpc[c] = "exited" /\ results[c] = "full")

\* The manager is left waiting for a result only when a child was lost and a
\* sibling, which waits for it at the mutex or at a barrier, keeps its pipe
\* open for ever.  A child that dies after the barriers does not block it, nor
\* do any failures that leave nobody waiting.
ManagerEnds ==
  <>[](\/ mpc \in {"done", "exited"}
       \/ (\E c \in Children : Lost(c)) /\ \E c \in Children : Waits(c))

\* How far the two barriers have taken each child.
phaseBar ==
  [c \in Children |->
     IF cpc[c] = "run" THEN "in"
     ELSE IF cpc[c] \in {"ran", "waitingEnd"} THEN "done"
     ELSE "out"]

\* The repetition is over when the second barrier opens, for all at once.
roundBar == IF \E c \in Children : cpc[c] \in Finished THEN 1 ELSE 0

FJ == INSTANCE ForkJoin
        WITH Workers <- Children, Rounds <- 1, round <- roundBar, phase <- phaseBar,
             status <- "running"

\* The processes are the same fork/join as the threads of Multithreading, but
\* for one repetition and with no process stopping another.
ImplementsForkJoin == FJ!AbsSpec
=============================================================================
