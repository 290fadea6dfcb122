------------------------ MODULE MultiprocessingProofs ------------------------
(***************************************************************************)
(* Multiprocessing for any number of processes, any result and pipe size   *)
(* and any set of failures: the safety properties, and that it implements  *)
(* ForkJoin.                                                               *)
(***************************************************************************)
EXTENDS Multiprocessing, FiniteSetTheorems, TLAPS

\* A child that will not use the shared objects or its pipe any more.
Ended(c) == c \in dead \/ cpc[c] \in {"unborn", "closed", "exited"}

\* Where the manager is says which children exist and which have ended.
ManagerShape ==
  /\ mpc = "fork" => \A c \in Children : c >= next => cpc[c] = "unborn"
  /\ mpc = "close" => next = 1
  /\ mpc \in {"fork", "close"} => \A c \in Children : results[c] = "none"
  /\ mpc = "read" => \A c \in Children : c < next => Ended(c)
  /\ mpc \in {"destroy", "done"} => \A c \in Children : Ended(c)

\* Each barrier knows who waits on it.
BarrierShape ==
  /\ waiting = {c \in Children : cpc[c] = "waiting"}
  /\ waitingEnd = {c \in Children : cpc[c] = "waitingEnd"}

\* A child that has not ended holds the write end of its own pipe.
WriterShape == \A c \in Children : Ended(c) \/ c \in writers[c]

\* A pipe loses nothing, and a child closes it after its last chunk.
PipeShape ==
  \A c \in Children :
    /\ received[c] + pipe[c] = sent[c]
    /\ cpc[c] \in {"closed", "exited"} => sent[c] = MsgLen

IInv ==
  /\ TypeOK /\ ManagerShape /\ BarrierShape /\ WriterShape /\ PipeShape
  /\ StartTogether /\ FinishTogether /\ ResultsFaithful

-----------------------------------------------------------------------------
\* A set of children as large as the barriers' count is the set of all.
LEMMA FullBarrier ==
  ASSUME NEW S \in SUBSET Children, Cardinality(S) = N
  PROVE  S = Children
<1>1. IsFiniteSet(Children) /\ Cardinality(Children) = N
  BY MultiprocessingAssumption, FS_Interval DEF Children
<1> QED
  BY <1>1, FS_Subset

\* The state before the first fork.
LEMMA InitIInv == Init => IInv
<1> SUFFICES ASSUME Init PROVE IInv
  OBVIOUS
<1> USE MultiprocessingAssumption DEF Init
<1>1. TypeOK
  BY DEF TypeOK, ManagerStates, ChildStates, Manager, Free, Processes, Children
<1>2. ManagerShape /\ BarrierShape
  BY DEF ManagerShape, BarrierShape
<1>3. WriterShape /\ PipeShape
  BY DEF WriterShape, PipeShape, Ended
<1>4. StartTogether /\ FinishTogether /\ ResultsFaithful
  BY DEF StartTogether, FinishTogether, ResultsFaithful, Started, Finished
<1> QED
  BY <1>1, <1>2, <1>3, <1>4 DEF IInv

\* The loop index stays a child.
LEMMA AdvanceType ==
  ASSUME IInv, NEW following, Advance(following)
  PROVE  /\ next' \in Children
         /\ next = N => next' = 1 /\ mpc' = following
         /\ next # N => next' = next + 1 /\ mpc' = mpc
  BY MultiprocessingAssumption DEF IInv, TypeOK, Advance, Children

-----------------------------------------------------------------------------
\* Every step of the manager and of the children keeps IInv.
LEMMA StepIInv == IInv /\ [Next]_vars => IInv'
<1> SUFFICES ASSUME IInv, [Next]_vars PROVE IInv'
  OBVIOUS
<1> USE MultiprocessingAssumption DEF IInv
<1>1. CASE Fork
  <2> USE <1>1 DEF Fork, managerVars, syncVars, pipeVars, At, Go
  <2>9. /\ next' \in Children /\ next \in Children /\ next \in Processes
        /\ next = N => next' = 1 /\ mpc' = "close"
        /\ next # N => next' = next + 1 /\ mpc' = mpc
    <3>1. next \in Children
      BY DEF TypeOK
    <3>2. next \in Processes
      BY <3>1 DEF Children, Processes
    <3> QED
      BY <3>1, <3>2, AdvanceType
  <2>10. /\ cpc[next] = "unborn"
         /\ \A d \in Children : cpc'[d] = IF d = next THEN "close" ELSE cpc[d]
    BY <2>9 DEF ManagerShape, TypeOK, Children
  <2>1. TypeOK'
    <3>1. cpc' \in [Children -> ChildStates]
      BY DEF TypeOK, ChildStates
    <3>2. writers' \in [Children -> SUBSET Processes]
      BY <2>9 DEF TypeOK
    <3>3. mpc' \in ManagerStates
      BY <2>9 DEF ManagerStates
    <3> QED
      BY <2>9, <3>1, <3>2, <3>3 DEF TypeOK
  <2>2. ManagerShape'
    <3>1. \A d \in Children : d \in Nat /\ d <= N
      BY DEF Children
    <3>2. CASE next = N
      BY <2>9, <3>2 DEF ManagerShape
    <3>3. CASE next # N
      BY <2>9, <2>10, <3>1, <3>3 DEF ManagerShape
    <3> QED
      BY <3>2, <3>3
  <2>3. BarrierShape'
    BY <2>10 DEF BarrierShape
  <2>4. WriterShape'
    BY DEF WriterShape, TypeOK, Ended, Manager, Children
  <2>5. PipeShape'
    BY DEF PipeShape, TypeOK
  <2>6. StartTogether'
    BY <2>9, <2>10 DEF StartTogether, Started, Finished
  <2>7. FinishTogether'
    BY <2>9, <2>10 DEF FinishTogether, Finished
  <2>8. ResultsFaithful'
    BY DEF ResultsFaithful, ManagerShape, TypeOK
  <2> QED
    BY <2>1, <2>2, <2>3, <2>4, <2>5, <2>6, <2>7, <2>8
<1>2. CASE ForkFails
  <2> USE <1>2 DEF ForkFails, managerVars, syncVars, pipeVars, At, Go
  <2>9. /\ next' \in Children /\ next \in Children
        /\ next = N => next' = 1 /\ mpc' = "close"
        /\ next # N => next' = next + 1 /\ mpc' = mpc
    BY AdvanceType DEF TypeOK
  <2>1. TypeOK'
    BY <2>9 DEF TypeOK, ManagerStates
  <2>2. ManagerShape'
    <3>1. \A d \in Children : d \in Nat /\ d <= N
      BY DEF Children
    <3>2. CASE next = N
      BY <2>9, <3>2 DEF ManagerShape
    <3>3. CASE next # N
      BY <2>9, <3>1, <3>3 DEF ManagerShape
    <3> QED
      BY <3>2, <3>3
  <2>3. BarrierShape'
    BY DEF BarrierShape, TypeOK
  <2>4. WriterShape'
    BY DEF WriterShape, TypeOK, Ended, Manager, Children
  <2>5. PipeShape'
    BY DEF PipeShape, TypeOK
  <2>6. StartTogether'
    BY DEF StartTogether, TypeOK, Started, Finished
  <2>7. FinishTogether'
    BY DEF FinishTogether, TypeOK, Finished
  <2>8. ResultsFaithful'
    BY DEF ResultsFaithful, ManagerShape, TypeOK
  <2> QED
    BY <2>1, <2>2, <2>3, <2>4, <2>5, <2>6, <2>7, <2>8
<1>3. CASE CloseWriteEnds
  <2> USE <1>3 DEF CloseWriteEnds, managerVars, syncVars, pipeVars, At, Go
  <2>1. TypeOK'
    BY DEF TypeOK, ManagerStates, ChildStates, Processes, Manager, Free, Children
  <2>2. ManagerShape'
    <3>1. \A d \in Children : ~(d < 1)
      BY DEF Children
    <3> QED
      BY <3>1 DEF ManagerShape
  <2>3. BarrierShape'
    BY DEF BarrierShape, TypeOK
  <2>4. WriterShape'
    BY DEF WriterShape, TypeOK, Ended, Manager, Children
  <2>5. PipeShape'
    BY DEF PipeShape, TypeOK
  <2>6. StartTogether'
    BY DEF StartTogether, TypeOK, Started, Finished
  <2>7. FinishTogether'
    BY DEF FinishTogether, TypeOK, Finished
  <2>8. ResultsFaithful'
    BY DEF ResultsFaithful, ManagerShape, TypeOK
  <2> QED
    BY <2>1, <2>2, <2>3, <2>4, <2>5, <2>6, <2>7, <2>8
<1>4. CASE Read
  <2> USE <1>4 DEF Read, managerVars, syncVars, pipeVars, At, Go
  <2>1. TypeOK'
    <3>1. pipe[next] \in 0..Capacity /\ received[next] \in 0..MsgLen /\ sent[next] \in 0..MsgLen
      BY DEF TypeOK
    <3>2. pipe[next] - 1 \in 0..Capacity /\ received[next] + 1 \in 0..MsgLen
      BY <3>1 DEF PipeShape, TypeOK
    <3> QED
      BY <3>2 DEF TypeOK
  <2>2. ManagerShape'
    BY DEF ManagerShape, TypeOK, Ended
  <2>3. BarrierShape'
    BY DEF BarrierShape, TypeOK
  <2>4. WriterShape'
    BY DEF WriterShape, TypeOK, Ended, Manager, Children
  <2>5. PipeShape'
    BY DEF PipeShape, TypeOK
  <2>6. StartTogether'
    BY DEF StartTogether, TypeOK, Started, Finished
  <2>7. FinishTogether'
    BY DEF FinishTogether, TypeOK, Finished
  <2>8. ResultsFaithful'
    BY DEF ResultsFaithful, ManagerShape, TypeOK
  <2> QED
    BY <2>1, <2>2, <2>3, <2>4, <2>5, <2>6, <2>7, <2>8
<1>5. CASE Eof
  <2> USE <1>5 DEF Eof, managerVars, syncVars, pipeVars, At, Go
  <2>9. /\ next' \in Children /\ next \in Children
        /\ next = N => next' = 1 /\ mpc' = "destroy"
        /\ next # N => next' = next + 1 /\ mpc' = mpc
    BY AdvanceType DEF TypeOK
  <2>10. Ended(next)
    BY <2>9 DEF WriterShape
  <2>11. Decoded(next) \in {"empty", "partial", "full"}
    BY DEF Decoded
  <2>12. \A d \in Children : results'[d] = IF d = next THEN Decoded(next) ELSE results[d]
    BY DEF TypeOK
  <2>1. TypeOK'
    <3>1. results' \in [Children -> {"none", "empty", "partial", "full"}]
      BY <2>11 DEF TypeOK
    <3> QED
      BY <2>9, <3>1 DEF TypeOK, ManagerStates
  <2>2. ManagerShape'
    <3>1. \A d \in Children : d \in Nat /\ d <= N /\ (d < next \/ d = next \/ d > next)
      BY <2>9 DEF Children
    <3>2. \A d \in Children : Ended(d)' <=> Ended(d)
      BY DEF Ended
    <3>3. CASE next = N
      BY <2>9, <2>10, <3>1, <3>2, <3>3 DEF ManagerShape
    <3>4. CASE next # N
      BY <2>9, <2>10, <3>1, <3>2, <3>4 DEF ManagerShape
    <3> QED
      BY <3>3, <3>4
  <2>3. BarrierShape'
    BY DEF BarrierShape, TypeOK
  <2>4. WriterShape'
    BY DEF WriterShape, TypeOK, Ended, Manager, Children
  <2>5. PipeShape'
    BY DEF PipeShape, TypeOK
  <2>6. StartTogether'
    BY DEF StartTogether, TypeOK, Started, Finished
  <2>7. FinishTogether'
    BY DEF FinishTogether, TypeOK, Finished
  <2>8. ResultsFaithful'
    <3>1. next \in dead \/ cpc[next] = "unborn" \/ Decoded(next) = "full"
      <4>1. SUFFICES ASSUME cpc[next] \in {"closed", "exited"} PROVE Decoded(next) = "full"
        BY <2>10 DEF Ended
      <4>2. received[next] = MsgLen
        BY <2>9, <4>1 DEF PipeShape, TypeOK
      <4> QED
        BY <4>2 DEF Decoded
    <3> QED
      BY <2>12, <3>1 DEF ResultsFaithful
  <2> QED
    BY <2>1, <2>2, <2>3, <2>4, <2>5, <2>6, <2>7, <2>8
<1>6. CASE DecodeFails
  <2> USE <1>6 DEF DecodeFails, managerVars, syncVars, pipeVars, At, Go
  <2>1. TypeOK'
    BY DEF TypeOK, ManagerStates, ChildStates, Processes, Manager, Free, Children
  <2>2. ManagerShape'
    BY DEF ManagerShape, TypeOK, Ended
  <2>3. BarrierShape'
    BY DEF BarrierShape, TypeOK
  <2>4. WriterShape'
    BY DEF WriterShape, TypeOK, Ended, Manager, Children
  <2>5. PipeShape'
    BY DEF PipeShape, TypeOK
  <2>6. StartTogether'
    BY DEF StartTogether, TypeOK, Started, Finished
  <2>7. FinishTogether'
    BY DEF FinishTogether, TypeOK, Finished
  <2>8. ResultsFaithful'
    BY DEF ResultsFaithful, ManagerShape, TypeOK
  <2> QED
    BY <2>1, <2>2, <2>3, <2>4, <2>5, <2>6, <2>7, <2>8
<1>7. CASE Destroy
  <2> USE <1>7 DEF Destroy, managerVars, syncVars, pipeVars, At, Go
  <2>1. TypeOK'
    BY DEF TypeOK, ManagerStates, ChildStates, Processes, Manager, Free, Children
  <2>2. ManagerShape'
    BY DEF ManagerShape, TypeOK, Ended
  <2>3. BarrierShape'
    BY DEF BarrierShape, TypeOK
  <2>4. WriterShape'
    BY DEF WriterShape, TypeOK, Ended, Manager, Children
  <2>5. PipeShape'
    BY DEF PipeShape, TypeOK
  <2>6. StartTogether'
    BY DEF StartTogether, TypeOK, Started, Finished
  <2>7. FinishTogether'
    BY DEF FinishTogether, TypeOK, Finished
  <2>8. ResultsFaithful'
    BY DEF ResultsFaithful, ManagerShape, TypeOK
  <2> QED
    BY <2>1, <2>2, <2>3, <2>4, <2>5, <2>6, <2>7, <2>8
<1>8. ASSUME NEW c \in Children, CloseOthers(c) PROVE IInv'
  <2> USE <1>8 DEF CloseOthers, managerVars, syncVars, pipeVars, At, Go
  <2>1. TypeOK'
    BY DEF TypeOK, ManagerStates, ChildStates, Processes, Manager, Free, Children
  <2>2. ManagerShape'
    BY DEF ManagerShape, TypeOK, Ended
  <2>3. BarrierShape'
    BY DEF BarrierShape, TypeOK
  <2>4. WriterShape'
    BY DEF WriterShape, TypeOK, Ended, Manager, Children
  <2>5. PipeShape'
    BY DEF PipeShape, TypeOK
  <2>6. StartTogether'
    BY DEF StartTogether, TypeOK, Started, Finished
  <2>7. FinishTogether'
    BY DEF FinishTogether, TypeOK, Finished
  <2>8. ResultsFaithful'
    BY DEF ResultsFaithful, ManagerShape, TypeOK
  <2> QED
    BY <2>1, <2>2, <2>3, <2>4, <2>5, <2>6, <2>7, <2>8
<1>9. ASSUME NEW c \in Children, Lock(c) PROVE IInv'
  <2> USE <1>9 DEF Lock, managerVars, syncVars, pipeVars, At, Go
  <2>1. TypeOK'
    <3>1. c \in Processes /\ "init" \in ChildStates
      BY DEF Children, Processes, ChildStates
    <3> QED
      BY <3>1 DEF TypeOK
  <2>2. ManagerShape'
    BY DEF ManagerShape, TypeOK, Ended
  <2>3. BarrierShape'
    BY DEF BarrierShape, TypeOK
  <2>4. WriterShape'
    BY DEF WriterShape, TypeOK, Ended, Manager, Children
  <2>5. PipeShape'
    BY DEF PipeShape, TypeOK
  <2>6. StartTogether'
    BY DEF StartTogether, TypeOK, Started, Finished
  <2>7. FinishTogether'
    BY DEF FinishTogether, TypeOK, Finished
  <2>8. ResultsFaithful'
    BY DEF ResultsFaithful, ManagerShape, TypeOK
  <2> QED
    BY <2>1, <2>2, <2>3, <2>4, <2>5, <2>6, <2>7, <2>8
<1>10. ASSUME NEW c \in Children, Unlock(c) PROVE IInv'
  <2> USE <1>10 DEF Unlock, managerVars, syncVars, pipeVars, At, Go
  <2>1. TypeOK'
    <3>1. Free \in Processes /\ "ready" \in ChildStates
      BY DEF Free, Processes, ChildStates
    <3> QED
      BY <3>1 DEF TypeOK
  <2>2. ManagerShape'
    BY DEF ManagerShape, TypeOK, Ended
  <2>3. BarrierShape'
    BY DEF BarrierShape, TypeOK
  <2>4. WriterShape'
    BY DEF WriterShape, TypeOK, Ended, Manager, Children
  <2>5. PipeShape'
    BY DEF PipeShape, TypeOK
  <2>6. StartTogether'
    BY DEF StartTogether, TypeOK, Started, Finished
  <2>7. FinishTogether'
    BY DEF FinishTogether, TypeOK, Finished
  <2>8. ResultsFaithful'
    BY DEF ResultsFaithful, ManagerShape, TypeOK
  <2> QED
    BY <2>1, <2>2, <2>3, <2>4, <2>5, <2>6, <2>7, <2>8
<1>11. ASSUME NEW c \in Children, ArriveStart(c) PROVE IInv'
  <2> DEFINE inside == waiting \cup {c}
  <2>1. /\ c \notin dead /\ cpc[c] = "ready" /\ inside \in SUBSET Children
        /\ UNCHANGED <<managerVars, dead, mutex, waitingEnd, pipeVars>>
    BY <1>11 DEF ArriveStart, At, TypeOK
  <2>2. CASE Cardinality(inside) = N
    <3>1. inside = Children
      BY <2>1, <2>2, FullBarrier
    <3>2. cpc' = [d \in Children |-> "run"] /\ waiting' = {}
      BY <1>11, <2>2, <3>1 DEF ArriveStart
    <3>3. \A d \in Children : cpc[d] \in {"ready", "waiting"}
      BY <2>1, <3>1 DEF BarrierShape
    <3>4. TypeOK'
      BY <2>1, <3>2 DEF TypeOK, ChildStates, managerVars, pipeVars
    <3>5. ManagerShape'
      BY <2>1, <3>2, <3>3 DEF ManagerShape, Ended, TypeOK, managerVars
    <3>6. BarrierShape'
      BY <2>1, <3>2, <3>3 DEF BarrierShape
    <3>7. WriterShape'
      BY <2>1, <3>2, <3>3 DEF WriterShape, Ended, pipeVars
    <3>8. PipeShape' /\ ResultsFaithful'
      BY <2>1, <3>2, <3>3 DEF PipeShape, ResultsFaithful, managerVars, pipeVars
    <3>9. StartTogether' /\ FinishTogether'
      BY <3>2 DEF StartTogether, FinishTogether, Started, Finished
    <3> QED
      BY <3>4, <3>5, <3>6, <3>7, <3>8, <3>9
  <2>3. CASE Cardinality(inside) # N
    <3>1. cpc' = [cpc EXCEPT ![c] = "waiting"] /\ waiting' = inside
      BY <1>11, <2>3 DEF ArriveStart, Go
    <3>2. \A d \in Children : cpc'[d] = IF d = c THEN "waiting" ELSE cpc[d]
      BY <3>1 DEF TypeOK
    <3>3. TypeOK'
      BY <2>1, <3>1 DEF TypeOK, ChildStates, managerVars, pipeVars
    <3>4. ManagerShape'
      BY <2>1, <3>2 DEF ManagerShape, Ended, managerVars
    <3>5. BarrierShape'
      BY <2>1, <3>1, <3>2 DEF BarrierShape
    <3>6. WriterShape'
      BY <2>1, <3>2 DEF WriterShape, Ended, pipeVars
    <3>7. PipeShape' /\ ResultsFaithful'
      BY <2>1, <3>2 DEF PipeShape, ResultsFaithful, managerVars, pipeVars
    <3>8. StartTogether' /\ FinishTogether'
      BY <2>1, <3>2 DEF StartTogether, FinishTogether, Started, Finished
    <3> QED
      BY <3>3, <3>4, <3>5, <3>6, <3>7, <3>8
  <2> QED
    BY <2>2, <2>3
<1>12. ASSUME NEW c \in Children, FinishRun(c) PROVE IInv'
  <2> USE <1>12 DEF FinishRun, managerVars, syncVars, pipeVars, At, Go
  <2>1. TypeOK'
    BY DEF TypeOK, ManagerStates, ChildStates, Processes, Manager, Free, Children
  <2>2. ManagerShape'
    BY DEF ManagerShape, TypeOK, Ended
  <2>3. BarrierShape'
    BY DEF BarrierShape, TypeOK
  <2>4. WriterShape'
    BY DEF WriterShape, TypeOK, Ended, Manager, Children
  <2>5. PipeShape'
    BY DEF PipeShape, TypeOK
  <2>6. StartTogether'
    BY DEF StartTogether, TypeOK, Started, Finished
  <2>7. FinishTogether'
    BY DEF FinishTogether, TypeOK, Finished
  <2>8. ResultsFaithful'
    BY DEF ResultsFaithful, ManagerShape, TypeOK
  <2> QED
    BY <2>1, <2>2, <2>3, <2>4, <2>5, <2>6, <2>7, <2>8
<1>13. ASSUME NEW c \in Children, ArriveEnd(c) PROVE IInv'
  <2> DEFINE inside == waitingEnd \cup {c}
  <2>1. /\ c \notin dead /\ cpc[c] = "ran" /\ inside \in SUBSET Children
        /\ UNCHANGED <<managerVars, dead, mutex, waiting, pipeVars>>
    BY <1>13 DEF ArriveEnd, At, TypeOK
  <2>2. CASE Cardinality(inside) = N
    <3>1. inside = Children
      BY <2>1, <2>2, FullBarrier
    <3>2. cpc' = [d \in Children |-> "report"] /\ waitingEnd' = {}
      BY <1>13, <2>2, <3>1 DEF ArriveEnd
    <3>3. \A d \in Children : cpc[d] \in {"ran", "waitingEnd"}
      BY <2>1, <3>1 DEF BarrierShape
    <3>4. TypeOK'
      BY <2>1, <3>2 DEF TypeOK, ChildStates, managerVars, pipeVars
    <3>5. ManagerShape'
      BY <2>1, <3>2, <3>3 DEF ManagerShape, Ended, TypeOK, managerVars
    <3>6. BarrierShape'
      BY <2>1, <3>2, <3>3 DEF BarrierShape
    <3>7. WriterShape'
      BY <2>1, <3>2, <3>3 DEF WriterShape, Ended, pipeVars
    <3>8. PipeShape' /\ ResultsFaithful'
      BY <2>1, <3>2, <3>3 DEF PipeShape, ResultsFaithful, managerVars, pipeVars
    <3>9. StartTogether' /\ FinishTogether'
      BY <3>2 DEF StartTogether, FinishTogether, Started, Finished
    <3> QED
      BY <3>4, <3>5, <3>6, <3>7, <3>8, <3>9
  <2>3. CASE Cardinality(inside) # N
    <3>1. cpc' = [cpc EXCEPT ![c] = "waitingEnd"] /\ waitingEnd' = inside
      BY <1>13, <2>3 DEF ArriveEnd, Go
    <3>2. \A d \in Children : cpc'[d] = IF d = c THEN "waitingEnd" ELSE cpc[d]
      BY <3>1 DEF TypeOK
    <3>3. TypeOK'
      BY <2>1, <3>1 DEF TypeOK, ChildStates, managerVars, pipeVars
    <3>4. ManagerShape'
      BY <2>1, <3>2 DEF ManagerShape, Ended, managerVars
    <3>5. BarrierShape'
      BY <2>1, <3>1, <3>2 DEF BarrierShape
    <3>6. WriterShape'
      BY <2>1, <3>2 DEF WriterShape, Ended, pipeVars
    <3>7. PipeShape' /\ ResultsFaithful'
      BY <2>1, <3>2 DEF PipeShape, ResultsFaithful, managerVars, pipeVars
    <3>8. StartTogether' /\ FinishTogether'
      BY <2>1, <3>2 DEF StartTogether, FinishTogether, Started, Finished
    <3> QED
      BY <3>3, <3>4, <3>5, <3>6, <3>7, <3>8
  <2> QED
    BY <2>2, <2>3
<1>14. ASSUME NEW c \in Children, Serialize(c) PROVE IInv'
  <2> USE <1>14 DEF Serialize, managerVars, syncVars, pipeVars, At, Go
  <2>1. TypeOK'
    BY DEF TypeOK, ManagerStates, ChildStates, Processes, Manager, Free, Children
  <2>2. ManagerShape'
    BY DEF ManagerShape, TypeOK, Ended
  <2>3. BarrierShape'
    BY DEF BarrierShape, TypeOK
  <2>4. WriterShape'
    BY DEF WriterShape, TypeOK, Ended, Manager, Children
  <2>5. PipeShape'
    BY DEF PipeShape, TypeOK
  <2>6. StartTogether'
    BY DEF StartTogether, TypeOK, Started, Finished
  <2>7. FinishTogether'
    BY DEF FinishTogether, TypeOK, Finished
  <2>8. ResultsFaithful'
    BY DEF ResultsFaithful, ManagerShape, TypeOK
  <2> QED
    BY <2>1, <2>2, <2>3, <2>4, <2>5, <2>6, <2>7, <2>8
<1>15. ASSUME NEW c \in Children, Write(c) PROVE IInv'
  <2> USE <1>15 DEF Write, managerVars, syncVars, pipeVars, At, Go
  <2>1. TypeOK'
    <3>1. pipe[c] \in 0..Capacity /\ sent[c] \in 0..MsgLen
      BY DEF TypeOK
    <3>2. pipe[c] + 1 \in 0..Capacity /\ sent[c] + 1 \in 0..MsgLen
      BY <3>1
    <3> QED
      BY <3>2 DEF TypeOK
  <2>2. ManagerShape'
    BY DEF ManagerShape, TypeOK, Ended
  <2>3. BarrierShape'
    BY DEF BarrierShape, TypeOK
  <2>4. WriterShape'
    BY DEF WriterShape, TypeOK, Ended, Manager, Children
  <2>5. PipeShape'
    BY DEF PipeShape, TypeOK
  <2>6. StartTogether'
    BY DEF StartTogether, TypeOK, Started, Finished
  <2>7. FinishTogether'
    BY DEF FinishTogether, TypeOK, Finished
  <2>8. ResultsFaithful'
    BY DEF ResultsFaithful, ManagerShape, TypeOK
  <2> QED
    BY <2>1, <2>2, <2>3, <2>4, <2>5, <2>6, <2>7, <2>8
<1>16. ASSUME NEW c \in Children, ClosePipe(c) PROVE IInv'
  <2> USE <1>16 DEF ClosePipe, managerVars, syncVars, pipeVars, At, Go
  <2>1. TypeOK'
    BY DEF TypeOK, ManagerStates, ChildStates, Processes, Manager, Free, Children
  <2>2. ManagerShape'
    BY DEF ManagerShape, TypeOK, Ended
  <2>3. BarrierShape'
    BY DEF BarrierShape, TypeOK
  <2>4. WriterShape'
    BY DEF WriterShape, TypeOK, Ended, Manager, Children
  <2>5. PipeShape'
    BY DEF PipeShape, TypeOK
  <2>6. StartTogether'
    BY DEF StartTogether, TypeOK, Started, Finished
  <2>7. FinishTogether'
    BY DEF FinishTogether, TypeOK, Finished
  <2>8. ResultsFaithful'
    BY DEF ResultsFaithful, ManagerShape, TypeOK
  <2> QED
    BY <2>1, <2>2, <2>3, <2>4, <2>5, <2>6, <2>7, <2>8
<1>17. ASSUME NEW c \in Children, Exit(c) PROVE IInv'
  <2> USE <1>17 DEF Exit, managerVars, syncVars, pipeVars, At, Go
  <2>1. TypeOK'
    BY DEF TypeOK, ManagerStates, ChildStates, Processes, Manager, Free, Children
  <2>2. ManagerShape'
    BY DEF ManagerShape, TypeOK, Ended
  <2>3. BarrierShape'
    BY DEF BarrierShape, TypeOK
  <2>4. WriterShape'
    BY DEF WriterShape, TypeOK, Ended, Manager, Children
  <2>5. PipeShape'
    BY DEF PipeShape, TypeOK
  <2>6. StartTogether'
    BY DEF StartTogether, TypeOK, Started, Finished
  <2>7. FinishTogether'
    BY DEF FinishTogether, TypeOK, Finished
  <2>8. ResultsFaithful'
    BY DEF ResultsFaithful, ManagerShape, TypeOK
  <2> QED
    BY <2>1, <2>2, <2>3, <2>4, <2>5, <2>6, <2>7, <2>8
<1>18. ASSUME NEW c \in Children, Fail(c) PROVE IInv'
  <2> USE <1>18 DEF Fail, managerVars, syncVars, pipeVars, At, Go
  <2>1. TypeOK'
    BY DEF TypeOK, ManagerStates, ChildStates, Processes, Manager, Free, Children
  <2>2. ManagerShape'
    BY DEF ManagerShape, TypeOK, Ended
  <2>3. BarrierShape'
    BY DEF BarrierShape, TypeOK
  <2>4. WriterShape'
    BY DEF WriterShape, TypeOK, Ended, Manager, Children
  <2>5. PipeShape'
    BY DEF PipeShape, TypeOK
  <2>6. StartTogether'
    BY DEF StartTogether, TypeOK, Started, Finished
  <2>7. FinishTogether'
    BY DEF FinishTogether, TypeOK, Finished
  <2>8. ResultsFaithful'
    BY DEF ResultsFaithful, ManagerShape, TypeOK
  <2> QED
    BY <2>1, <2>2, <2>3, <2>4, <2>5, <2>6, <2>7, <2>8
<1>19. CASE UNCHANGED vars
  BY <1>19 DEF vars, managerVars, syncVars, pipeVars, TypeOK, ManagerShape, BarrierShape,
    WriterShape, PipeShape, StartTogether, FinishTogether, ResultsFaithful, Ended
<1> QED
  BY <1>1, <1>2, <1>3, <1>4, <1>5, <1>6, <1>7, <1>8, <1>9, <1>10, <1>11, <1>12, <1>13, <1>14, <1>15, <1>16, <1>17, <1>18, <1>19
     DEF Next, ManagerNext, ChildStep

\* The inductive invariant holds in every state.
THEOREM Invariance == Spec => []IInv
  BY InitIInv, StepIInv, PTL DEF Spec

-----------------------------------------------------------------------------
(* The properties *)

\* The state of every process and of what they share is typed.
THEOREM TypeCorrect == Spec => []TypeOK
<1>1. IInv => TypeOK
  BY DEF IInv
<1> QED
  BY Invariance, <1>1, PTL

\* For any number of processes and whatever fails, none runs before all are
\* set up.
THEOREM ProcessesStartTogether == Spec => []StartTogether
<1>1. IInv => StartTogether
  BY DEF IInv
<1> QED
  BY Invariance, <1>1, PTL

\* None tears down or reports before all have run.
THEOREM ProcessesFinishTogether == Spec => []FinishTogether
<1>1. IInv => FinishTogether
  BY DEF IInv
<1> QED
  BY Invariance, <1>1, PTL

\* The barriers and the mutex are destroyed after their last use.
THEOREM SharedObjectsOutliveChildren == Spec => []DestroyAfterUse
<1>1. IInv => DestroyAfterUse
  BY DEF IInv, DestroyAfterUse, ManagerShape, Ended
<1> QED
  BY Invariance, <1>1, PTL

\* A result shorter than the child's message comes from a child that died or
\* was never forked.
THEOREM PipesAreFaithful == Spec => []ResultsFaithful
<1>1. IInv => ResultsFaithful
  BY DEF IInv
<1> QED
  BY Invariance, <1>1, PTL

-----------------------------------------------------------------------------
(* Refinement *)

\* A step that moves no child across a barrier or out of its Run is invisible.
LEMMA SamePhase ==
  ASSUME \A d \in Children :
           \/ cpc'[d] = cpc[d]
           \/ cpc[d] \notin Started /\ cpc'[d] \notin Started
           \/ cpc[d] \in {"ran", "waitingEnd"} /\ cpc'[d] \in {"ran", "waitingEnd"}
           \/ cpc[d] \in Finished /\ cpc'[d] \in Finished
  PROVE  UNCHANGED FJ!absVars
<1>1. phaseBar' = phaseBar
  BY DEF phaseBar, Started, Finished
<1>2. roundBar' = roundBar
  BY DEF roundBar, Started, Finished
<1> QED
  BY <1>1, <1>2 DEF FJ!absVars

\* Every step of the processes is a step of the fork/join or invisible.
LEMMA StepRefines ==
  ASSUME IInv, [Next]_vars
  PROVE  [FJ!AbsNext]_(FJ!absVars)
<1> USE DEF managerVars, syncVars, pipeVars, At, Go
<1>1. TypeOK
  BY DEF IInv
<1>2. CASE Fork
  <2>1. next \in Children /\ cpc[next] = "unborn"
    BY <1>1, <1>2 DEF IInv, ManagerShape, TypeOK, Fork, Children
  <2>2. \A d \in Children : cpc'[d] = IF d = next THEN "close" ELSE cpc[d]
    BY <1>1, <1>2 DEF TypeOK, Fork
  <2> QED
    BY <2>1, <2>2, SamePhase DEF Started, Finished
<1>3. CASE ForkFails \/ CloseWriteEnds \/ Read \/ Eof \/ DecodeFails \/ Destroy
  BY <1>3, SamePhase DEF ForkFails, CloseWriteEnds, Read, Eof, DecodeFails, Destroy
<1>4. ASSUME NEW c \in Children,
             CloseOthers(c) \/ Lock(c) \/ Unlock(c) \/ Serialize(c) \/ ClosePipe(c) \/ Exit(c)
      PROVE  [FJ!AbsNext]_(FJ!absVars)
  BY <1>1, <1>4, SamePhase
     DEF TypeOK, CloseOthers, Lock, Unlock, Serialize, ClosePipe, Exit, Started, Finished
<1>5. ASSUME NEW c \in Children, Write(c) \/ Fail(c) PROVE [FJ!AbsNext]_(FJ!absVars)
  BY <1>5, SamePhase DEF Write, Fail
<1>6. ASSUME NEW c \in Children, ArriveStart(c) PROVE [FJ!AbsNext]_(FJ!absVars)
  <2> DEFINE inside == waiting \cup {c}
  <2>1. cpc[c] = "ready" /\ inside \in SUBSET Children
    BY <1>1, <1>6 DEF ArriveStart, TypeOK
  <2>2. CASE Cardinality(inside) = N
    <3>1. inside = Children
      BY <2>1, <2>2, FullBarrier
    <3>2. \A d \in Children : cpc[d] \in {"ready", "waiting"} /\ cpc'[d] = "run"
      BY <1>6, <2>1, <2>2, <3>1 DEF ArriveStart, IInv, BarrierShape
    <3>3. phaseBar = [d \in Children |-> "out"] /\ phaseBar' = [d \in Children |-> "in"]
      BY <3>2 DEF phaseBar
    <3>4. roundBar = 0 /\ roundBar' = 0
      BY <3>2 DEF roundBar, Finished
    <3>5. FJ!Release
      BY <3>3, <3>4 DEF FJ!Release
    <3> QED
      BY <3>5 DEF FJ!AbsNext
  <2>3. CASE Cardinality(inside) # N
    <3>1. cpc' = [cpc EXCEPT ![c] = "waiting"]
      BY <1>6, <2>3 DEF ArriveStart
    <3> QED
      BY <1>1, <2>1, <3>1, SamePhase DEF TypeOK, Started, Finished
  <2> QED
    BY <2>2, <2>3
<1>7. ASSUME NEW c \in Children, FinishRun(c) PROVE [FJ!AbsNext]_(FJ!absVars)
  <2>1. \A d \in Children : cpc'[d] = IF d = c THEN "ran" ELSE cpc[d]
    BY <1>1, <1>7 DEF TypeOK, FinishRun
  <2>2. phaseBar[c] = "in" /\ phaseBar' = [phaseBar EXCEPT ![c] = "done"]
    <3>1. phaseBar[c] = "in"
      BY <1>7 DEF phaseBar, FinishRun
    <3>2. \A d \in Children : phaseBar'[d] = IF d = c THEN "done" ELSE phaseBar[d]
      BY <2>1 DEF phaseBar
    <3>3. phaseBar' = [phaseBar EXCEPT ![c] = "done"]
      <4> DEFINE f == phaseBar'
                 g == phaseBar
      <4>1. f = [d \in Children |-> f[d]] /\ g = [d \in Children |-> g[d]]
        BY DEF phaseBar
      <4>2. \A d \in Children : f[d] = IF d = c THEN "done" ELSE g[d]
        BY <3>2
      <4> HIDE DEF f, g
      <4>3. f = [g EXCEPT ![c] = "done"]
        BY <4>1, <4>2
      <4> QED
        BY <4>3 DEF f, g
    <3> QED
      BY <3>1, <3>3
  <2>3. roundBar' = roundBar
    BY <1>7, <2>1 DEF roundBar, Finished, FinishRun
  <2>4. FJ!Finish(c)
    BY <2>2, <2>3 DEF FJ!Finish
  <2> QED
    BY <2>4 DEF FJ!AbsNext
<1>8. ASSUME NEW c \in Children, ArriveEnd(c) PROVE [FJ!AbsNext]_(FJ!absVars)
  <2> DEFINE inside == waitingEnd \cup {c}
  <2>1. cpc[c] = "ran" /\ inside \in SUBSET Children
    BY <1>1, <1>8 DEF ArriveEnd, TypeOK
  <2>2. CASE Cardinality(inside) = N
    <3>1. inside = Children
      BY <2>1, <2>2, FullBarrier
    <3>2. \A d \in Children : cpc[d] \in {"ran", "waitingEnd"} /\ cpc'[d] = "report"
      BY <1>8, <2>1, <2>2, <3>1 DEF ArriveEnd, IInv, BarrierShape
    <3>3. phaseBar = [d \in Children |-> "done"] /\ phaseBar' = [d \in Children |-> "out"]
      BY <3>2 DEF phaseBar
    <3>4. roundBar = 0 /\ roundBar' = 1
      BY <1>8, <3>2 DEF roundBar, Finished
    <3>5. FJ!EndRound
      BY <3>3, <3>4 DEF FJ!EndRound
    <3> QED
      BY <3>5 DEF FJ!AbsNext
  <2>3. CASE Cardinality(inside) # N
    <3>1. cpc' = [cpc EXCEPT ![c] = "waitingEnd"]
      BY <1>8, <2>3 DEF ArriveEnd
    <3> QED
      BY <1>1, <2>1, <3>1, SamePhase DEF TypeOK
  <2> QED
    BY <2>2, <2>3
<1>9. CASE UNCHANGED vars
  BY <1>9, SamePhase DEF vars
<1> QED
  BY <1>2, <1>3, <1>4, <1>5, <1>6, <1>7, <1>8, <1>9 DEF Next, ManagerNext, ChildStep

\* Multiprocessing implements ForkJoin, whatever fails.
THEOREM RefinesForkJoin == Spec => ImplementsForkJoin
<1>1. Init => FJ!AbsInit
  BY DEF Init, FJ!AbsInit, phaseBar, roundBar, Finished
<1>2. IInv /\ [Next]_vars => [FJ!AbsNext]_(FJ!absVars)
  BY StepRefines
<1> QED
  BY Invariance, <1>1, <1>2, PTL DEF Spec, ImplementsForkJoin, FJ!AbsSpec
=============================================================================
