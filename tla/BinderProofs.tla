----------------------------- MODULE BinderProofs -----------------------------
(***************************************************************************)
(* The Binder service for any number of clients of any kind and any number *)
(* of repetitions: it outlives the clients it counts, signals only a live  *)
(* condition variable, and its two hangs are for good.                     *)
(***************************************************************************)
EXTENDS Binder, FiniteSetTheorems, SequenceTheorems, TLAPS

\* How many calls m are in the queue q.
Count(q, m) == Cardinality({i \in 1 .. Len(q) : q[i] = m})

\* The clients that have sent START, and those that have sent END.
Started == {c \in Dittos : cpc[c] \notin {"lock", "waitForService"}}
Ended == {c \in Dittos : cpc[c] = "done" /\ repeat[c] > 0}

\* The starting barrier has not opened yet.
Before == spc \in {"lock", "ready"}

\* TypeOK but for the bounds of the reference count.
Typed ==
  /\ repeat \in [Clients -> 0..MaxRepeat]
  /\ waits \in 0..MaxRepeat
  /\ mutex \in Clients \cup {Free}
  /\ spc \in ServerStates
  /\ cpc \in [Clients -> ClientStates]
  /\ registered \in BOOLEAN
  /\ service \in [Clients -> BOOLEAN]
  /\ queue \in Seq(Calls)
  /\ handler \in {"idle", "check"}
  /\ client_cnt_ \in Int
  /\ waited \in 0..MaxRepeat
  /\ calls \in [Clients -> 0..MaxRepeat]
  /\ spurious \in BOOLEAN
  /\ badSignal \in BOOLEAN

\* What the position of the service's process says.
ServiceShape ==
  /\ registered <=> spc # "lock"
  /\ waited <= waits
  /\ spc = "waiting" => waited < waits
  /\ spc \in {"ran", "tearDown", "stopped", "exited"} => waited = waits

\* The starting barrier separates the clients' set-up from their calls.
ClientShape ==
  \A c \in Clients :
    /\ Before <=> cpc[c] \in {"lock", "waitForService", "ready"}
    /\ cpc[c] = "waitForService" => c \in Dittos
    /\ cpc[c] = "calling" => calls[c] < repeat[c]

\* Every START was sent before every END.
Sorted == \A i, j \in 1 .. Len(queue) : i < j /\ queue[i] = "END" => queue[j] = "END"

\* The reference count: the clients whose START was handled but for those whose
\* END was.  An END is handled only when no START is left.
Counted ==
  /\ Count(queue, "START") <= Cardinality(Started)
  /\ Count(queue, "END") <= Cardinality(Ended)
  /\ client_cnt_ = (Cardinality(Started) - Count(queue, "START"))
                     - (Cardinality(Ended) - Count(queue, "END"))
  /\ Count(queue, "END") < Cardinality(Ended) => Count(queue, "START") = 0
  /\ handler = "check" => Count(queue, "END") < Cardinality(Ended)

IInv ==
  /\ Typed /\ ServiceShape /\ ClientShape /\ Sorted /\ Counted
  /\ OutlivesClients /\ SignalWhileLive

-----------------------------------------------------------------------------
(* Counting calls *)

\* The number of calls in a queue is a number.
LEMMA CountType ==
  ASSUME NEW S, NEW q \in Seq(S), NEW m
  PROVE  Count(q, m) \in Nat
<1>1. Len(q) \in Nat
  OBVIOUS
<1>2. IsFiniteSet(1 .. Len(q))
  BY <1>1, FS_Interval
<1>3. IsFiniteSet({i \in 1 .. Len(q) : q[i] = m})
  BY <1>2, FS_Subset
<1> QED
  BY <1>3, FS_CardinalityType DEF Count

\* An empty queue holds no calls.
LEMMA CountEmpty ==
  ASSUME NEW m
  PROVE  Count(<< >>, m) = 0
<1>1. {i \in 1 .. Len(<< >>) : << >>[i] = m} = {}
  OBVIOUS
<1> QED
  BY <1>1, FS_EmptySet DEF Count

\* Sending a call.
LEMMA CountAppend ==
  ASSUME NEW S, NEW q \in Seq(S), NEW e \in S, NEW m
  PROVE  Count(Append(q, e), m) = IF e = m THEN Count(q, m) + 1 ELSE Count(q, m)
<1> DEFINE n == Len(q)
           A == {i \in 1 .. n : q[i] = m}
           r == Append(q, e)
           B == {i \in 1 .. Len(r) : r[i] = m}
<1>1. /\ n \in Nat /\ Len(r) = n + 1 /\ r[n + 1] = e
      /\ \A i \in 1 .. n : r[i] = q[i]
  OBVIOUS
<1>2. IsFiniteSet(A) /\ n + 1 \notin A
  <2>1. IsFiniteSet(1 .. n)
    BY <1>1, FS_Interval
  <2> QED
    BY <1>1, <2>1, FS_Subset
<1> HIDE DEF n, r
<1>3. B = IF e = m THEN A \cup {n + 1} ELSE A
  BY <1>1
<1> HIDE DEF A, B
<1>4. Cardinality(A \cup {n + 1}) = Cardinality(A) + 1
  BY <1>2, FS_AddElement
<1> QED
  BY <1>3, <1>4 DEF Count, A, B, r, n

\* Handling the first call.
LEMMA CountTail ==
  ASSUME NEW S, NEW q \in Seq(S), q # << >>, NEW m
  PROVE  Count(Tail(q), m) = IF Head(q) = m THEN Count(q, m) - 1 ELSE Count(q, m)
<1> DEFINE n == Len(q)
           r == Tail(q)
           A == {i \in 1 .. n : q[i] = m}
           B == {i \in 1 .. Len(r) : r[i] = m}
           C == A \ {1}
           f == [i \in B |-> i + 1]
<1>1. /\ n \in Nat /\ n > 0 /\ Len(r) = n - 1 /\ Head(q) = q[1]
      /\ \A i \in 1 .. n - 1 : r[i] = q[i + 1]
  BY HeadTailProperties
<1>2. IsFiniteSet(A) /\ IsFiniteSet(B)
  <2>1. IsFiniteSet(1 .. n) /\ IsFiniteSet(1 .. Len(r))
    BY <1>1, FS_Interval
  <2> QED
    BY <2>1, FS_Subset
<1> HIDE DEF n, r
<1>3. f \in Bijection(B, C)
  <2>1. \A i \in B : i + 1 \in C
    BY <1>1
  <2>2. \A j \in C : j - 1 \in B /\ (j - 1) + 1 = j
    BY <1>1
  <2>3. f \in Injection(B, C)
    BY <2>1 DEF Injection, IsInjective
  <2>4. f \in Surjection(B, C)
    BY <2>1, <2>2 DEF Surjection
  <2> QED
    BY <2>3, <2>4 DEF Bijection
<1>4. 1 \in A <=> Head(q) = m
  BY <1>1
<1> HIDE DEF A, B, f
<1>5. Cardinality(C) = IF 1 \in A THEN Cardinality(A) - 1 ELSE Cardinality(A)
  BY <1>2, FS_RemoveElement
<1> HIDE DEF C
<1>6. Cardinality(B) = Cardinality(C)
  BY <1>2, <1>3, FS_Bijection DEF ExistsBijection
<1> QED
  BY <1>4, <1>5, <1>6 DEF Count, A, B, r, n

\* A call that is in the queue counts.
LEMMA CountPositive ==
  ASSUME NEW S, NEW q \in Seq(S), NEW i \in 1 .. Len(q)
  PROVE  Count(q, q[i]) > 0
<1> DEFINE A == {j \in 1 .. Len(q) : q[j] = q[i]}
<1>1. IsFiniteSet(1 .. Len(q))
  BY FS_Interval
<1>2. IsFiniteSet(A) /\ i \in A
  BY <1>1, FS_Subset
<1>3. Cardinality(A) \in Nat /\ Cardinality(A) # 0
  BY <1>2, FS_EmptySet, FS_CardinalityType
<1> QED
  BY <1>3 DEF Count

-----------------------------------------------------------------------------
(* The positions *)

\* The sets of clients that are counted are finite.
LEMMA FiniteClients ==
  /\ IsFiniteSet(Dittos) /\ Cardinality(Dittos) \in Nat
  /\ IsFiniteSet(Started) /\ Cardinality(Started) \in Nat
  /\ IsFiniteSet(Ended) /\ Cardinality(Ended) \in Nat
  /\ Cardinality(Started) <= Cardinality(Dittos)
  /\ Cardinality(Ended) <= Cardinality(Dittos)
<1>1. IsFiniteSet(Dittos)
  BY BinderAssumption, FS_Subset DEF Dittos
<1>2. Started \in SUBSET Dittos /\ Ended \in SUBSET Dittos
  BY DEF Started, Ended
<1>3. /\ IsFiniteSet(Started) /\ Cardinality(Started) <= Cardinality(Dittos)
      /\ IsFiniteSet(Ended) /\ Cardinality(Ended) <= Cardinality(Dittos)
  BY <1>1, <1>2, FS_Subset
<1> QED
  BY <1>1, <1>3, FS_CardinalityType

\* The invariant holds before anything is set up.
LEMMA InitIInv == Init => IInv
<1> SUFFICES ASSUME Init PROVE IInv
  OBVIOUS
<1>1. Typed
  <2>1. << >> \in Seq(Calls)
    OBVIOUS
  <2>2. 0 \in 0..MaxRepeat
    BY BinderAssumption
  <2>3. /\ registered \in BOOLEAN /\ spurious \in BOOLEAN /\ badSignal \in BOOLEAN
        /\ service \in [Clients -> BOOLEAN]
    BY DEF Init
  <2>4. /\ queue \in Seq(Calls) /\ spc \in ServerStates
        /\ cpc \in [Clients -> ClientStates] /\ calls \in [Clients -> 0..MaxRepeat]
    BY <2>1, <2>2 DEF Init, ServerStates, ClientStates
  <2>5. waited \in 0..MaxRepeat /\ client_cnt_ \in Int
    BY <2>2 DEF Init
  <2> QED
    BY <2>3, <2>4, <2>5 DEF Init, Typed
<1>2. ServiceShape /\ ClientShape
  BY BinderAssumption DEF Init, ServiceShape, ClientShape, Before
<1>3. Sorted
  BY DEF Init, Sorted
<1>4. Counted
  <2>1. Started = {} /\ Ended = {}
    BY DEF Init, Started, Ended, Dittos
  <2>2. Cardinality(Started) = 0 /\ Cardinality(Ended) = 0
    BY <2>1, FS_EmptySet
  <2>3. Count(queue, "START") = 0 /\ Count(queue, "END") = 0
    BY CountEmpty DEF Init
  <2> QED
    BY <2>2, <2>3 DEF Counted, Init
<1>5. OutlivesClients /\ SignalWhileLive
  BY DEF Init, OutlivesClients, SignalWhileLive
<1> QED
  BY <1>1, <1>2, <1>3, <1>4, <1>5 DEF IInv

\* Every step of the service, a client or the pool thread keeps the types.
LEMMA TypedNext == IInv /\ [Next]_vars => Typed'
<1> SUFFICES ASSUME IInv, [Next]_vars PROVE Typed'
  OBVIOUS
<1> USE DEF IInv, Typed, Go
<1>1. ASSUME NEW c \in Clients, DittoSetUp(c) PROVE Typed'
  BY <1>1 DEF DittoSetUp, ClientStates, params, serverVars, serviceVars
<1>2. ASSUME NEW c \in Clients, Start(c) PROVE Typed'
  BY <1>2 DEF Start, ClientStates, Calls, params, serverVars, serviceVars
<1>3. ASSUME NEW c \in Clients, MountSetUp(c) \/ GenericSetUp(c) PROVE Typed'
  BY <1>3 DEF MountSetUp, GenericSetUp, ClientStates, params, serverVars, serviceVars
<1>4. ASSUME NEW c \in Clients, Call(c) \/ CallNull(c) \/ RunNothing(c) PROVE Typed'
  BY <1>4 DEF Call, CallNull, RunNothing, ClientStates, params, serverVars, serviceVars
<1>5. ASSUME NEW c \in Clients, Reply(c) PROVE Typed'
  <2>1. calls[c] + 1 \in 0..MaxRepeat
    BY <1>5, BinderAssumption DEF Reply, ClientShape
  <2> QED
    BY <1>5, <2>1 DEF Reply, ClientStates, Calls, params, serverVars, serviceVars
<1>6. ASSUME ServiceSetUp \/ Wait \/ RunOver \/ TearDown \/ Exit PROVE Typed'
  BY <1>6 DEF ServiceSetUp, Wait, RunOver, TearDown, Exit, ServerStates, params, clientVars, serverVars
<1>7. ASSUME WakeUp PROVE Typed'
  <2>1. waited + 1 \in 0..MaxRepeat
    BY <1>7, BinderAssumption DEF WakeUp, ServiceShape
  <2> QED
    BY <1>7, <2>1 DEF WakeUp, ServerStates, params, clientVars, serverVars
<1>8. ASSUME HandleStart \/ HandleEnd PROVE Typed'
  <2>1. Tail(queue) \in Seq(Calls)
    BY <1>8, HeadTailProperties DEF HandleStart, HandleEnd
  <2>2. client_cnt_ + 1 \in Int /\ client_cnt_ - 1 \in Int
    OBVIOUS
  <2>3. CASE HandleStart
    BY <2>1, <2>2, <2>3 DEF HandleStart, params, clientVars, serviceVars
  <2>4. CASE HandleEnd
    BY <2>1, <2>2, <2>4 DEF HandleEnd, params, clientVars, serviceVars
  <2> QED
    BY <1>8, <2>3, <2>4
<1>9. ASSUME CheckCount PROVE Typed'
  <2>1. spc = "waiting" => waited + 1 \in 0..MaxRepeat
    BY BinderAssumption DEF ServiceShape
  <2> QED
    BY <1>9, <2>1 DEF CheckCount, Signal, ServerStates, params, clientVars
<1>10. ASSUME BarrierNext PROVE Typed'
  BY <1>10 DEF BarrierNext, StartBarrier, EndBarrier, ServerStates, ClientStates, params, clientVars,
     serverVars
<1>11. CASE UNCHANGED vars
  BY <1>11 DEF vars, params, clientVars, serverVars, serviceVars
<1> QED
  BY <1>1, <1>2, <1>3, <1>4, <1>5, <1>6, <1>7, <1>8, <1>9, <1>10, <1>11
     DEF Next, ClientNext, ServiceNext, HandlerNext

\* Every step keeps what the position of the service says.
LEMMA ServiceShapeNext == IInv /\ [Next]_vars => ServiceShape'
<1> SUFFICES ASSUME IInv, [Next]_vars PROVE ServiceShape'
  OBVIOUS
<1> USE DEF IInv, Typed, ServiceShape
<1>1. ASSUME NEW c \in Clients, ClientNext(c) PROVE ServiceShape'
  BY <1>1 DEF ClientNext, DittoSetUp, Start, MountSetUp, GenericSetUp, Call, CallNull, Reply, RunNothing,
     params, serverVars, serviceVars
<1>2. ASSUME ServiceNext \/ WakeUp PROVE ServiceShape'
  BY <1>2 DEF ServiceNext, ServiceSetUp, Wait, WakeUp, RunOver, TearDown, Exit, params, serverVars
<1>3. ASSUME HandlerNext PROVE ServiceShape'
  BY <1>3 DEF HandlerNext, HandleStart, HandleEnd, CheckCount, Signal, params, serviceVars
<1>4. ASSUME BarrierNext PROVE ServiceShape'
  BY <1>4 DEF BarrierNext, StartBarrier, EndBarrier, params, serverVars
<1>5. CASE UNCHANGED vars
  BY <1>5 DEF vars, params, serverVars, serviceVars
<1> QED
  BY <1>1, <1>2, <1>3, <1>4, <1>5 DEF Next

\* Every step keeps what the position of each client says.
LEMMA ClientShapeNext == IInv /\ [Next]_vars => ClientShape'
<1> SUFFICES ASSUME IInv, [Next]_vars PROVE ClientShape'
  OBVIOUS
<1> USE DEF IInv, Typed, ClientShape, Before
<1>1. ASSUME NEW c \in Clients, DittoSetUp(c) \/ Start(c) \/ MountSetUp(c) \/ GenericSetUp(c)
      PROVE  ClientShape'
  BY <1>1 DEF DittoSetUp, Start, MountSetUp, GenericSetUp, Go, params, serviceVars
<1>2. ASSUME NEW c \in Clients, Call(c) \/ CallNull(c) \/ Reply(c) \/ RunNothing(c)
      PROVE  ClientShape'
  BY <1>2 DEF Call, CallNull, Reply, RunNothing, Go, params, serviceVars
<1>3. ASSUME ServiceNext \/ WakeUp PROVE ClientShape'
  BY <1>3 DEF ServiceNext, ServiceSetUp, Wait, WakeUp, RunOver, TearDown, Exit, params, clientVars
<1>4. ASSUME HandlerNext PROVE ClientShape'
  BY <1>4 DEF HandlerNext, HandleStart, HandleEnd, CheckCount, Signal, params, clientVars, serviceVars
<1>5. ASSUME BarrierNext PROVE ClientShape'
  BY <1>5 DEF BarrierNext, StartBarrier, EndBarrier, params, clientVars
<1>6. CASE UNCHANGED vars
  BY <1>6 DEF vars, params, clientVars, serviceVars
<1> QED
  BY <1>1, <1>2, <1>3, <1>4, <1>5, <1>6 DEF Next, ClientNext

-----------------------------------------------------------------------------
(* The queue and the count *)

\* Until the starting barrier opens nobody has sent END.
LEMMA BeforeNoEnd ==
  ASSUME IInv, Before
  PROVE  Ended = {} /\ Cardinality(Ended) = 0 /\ Count(queue, "END") = 0
<1>1. Ended = {}
  BY DEF IInv, ClientShape, Ended, Dittos
<1>2. Cardinality(Ended) = 0
  BY <1>1, FS_EmptySet
<1>3. Count(queue, "END") \in Nat
  BY CountType DEF IInv, Typed
<1> QED
  BY <1>1, <1>2, <1>3 DEF IInv, Counted

\* A call that is not in the queue.
LEMMA CountZero ==
  ASSUME IInv, NEW m, Count(queue, m) = 0
  PROVE  \A i \in 1 .. Len(queue) : queue[i] # m
<1> SUFFICES ASSUME NEW i \in 1 .. Len(queue), queue[i] = m PROVE FALSE
  OBVIOUS
<1>1. Count(queue, queue[i]) > 0
  BY CountPositive DEF IInv, Typed
<1> QED
  BY <1>1

\* Every step leaves the STARTs before the ENDs in the queue.
LEMMA SortedNext == IInv /\ [Next]_vars => Sorted'
<1> SUFFICES ASSUME IInv, [Next]_vars PROVE Sorted'
  OBVIOUS
<1>1. queue \in Seq(Calls) /\ Len(queue) \in Nat
  BY DEF IInv, Typed
<1>2. CASE UNCHANGED queue
  BY <1>2 DEF IInv, Sorted
<1>3. ASSUME NEW e \in Calls, queue' = Append(queue, e),
             e = "START" => \A i \in 1 .. Len(queue) : queue[i] # "END"
      PROVE  Sorted'
  <2>1. /\ Len(queue') = Len(queue) + 1 /\ queue'[Len(queue) + 1] = e
        /\ \A i \in 1 .. Len(queue) : queue'[i] = queue[i]
    BY <1>1, <1>3
  <2>2. e \in {"START", "END"}
    BY DEF Calls
  <2> QED
    BY <1>1, <1>3, <2>1, <2>2 DEF IInv, Sorted
<1>4. ASSUME queue # << >>, queue' = Tail(queue) PROVE Sorted'
  <2>1. /\ Len(queue') = Len(queue) - 1
        /\ \A i \in 1 .. Len(queue') : queue'[i] = queue[i + 1]
    BY <1>1, <1>4, HeadTailProperties
  <2> SUFFICES ASSUME NEW i \in 1 .. Len(queue'), NEW j \in 1 .. Len(queue'), i < j,
                      queue'[i] = "END"
               PROVE  queue'[j] = "END"
    BY DEF Sorted
  <2>2. i + 1 \in 1 .. Len(queue) /\ j + 1 \in 1 .. Len(queue) /\ i + 1 < j + 1
    BY <1>1, <2>1
  <2> QED
    BY <2>1, <2>2 DEF IInv, Sorted
<1>5. ASSUME NEW c \in Clients, Start(c) PROVE Sorted'
  <2>1. Before
    BY <1>5 DEF Start, IInv, ClientShape
  <2>2. \A i \in 1 .. Len(queue) : queue[i] # "END"
    BY <2>1, BeforeNoEnd, CountZero
  <2> QED
    BY <1>3, <1>5, <2>2 DEF Start, Calls
<1>6. ASSUME NEW c \in Clients, Reply(c) PROVE Sorted'
  BY <1>2, <1>3, <1>6 DEF Reply, Calls
<1>7. ASSUME HandleStart \/ HandleEnd PROVE Sorted'
  BY <1>4, <1>7 DEF HandleStart, HandleEnd
<1>8. ASSUME NEW c \in Clients, ClientNext(c), ~Start(c), ~Reply(c) PROVE UNCHANGED queue
  BY <1>8 DEF ClientNext, DittoSetUp, MountSetUp, GenericSetUp, Call, CallNull, RunNothing
<1>9. ASSUME ServiceNext \/ WakeUp \/ CheckCount \/ BarrierNext PROVE UNCHANGED queue
  BY <1>9 DEF ServiceNext, ServiceSetUp, Wait, WakeUp, RunOver, TearDown, Exit, CheckCount, BarrierNext,
     StartBarrier, EndBarrier
<1>10. CASE UNCHANGED vars
  BY <1>2, <1>10 DEF vars
<1> QED
  BY <1>2, <1>5, <1>6, <1>7, <1>8, <1>9, <1>10 DEF Next, HandlerNext

\* A step that neither sends nor handles a call.
LEMMA CountedKept ==
  ASSUME IInv, UNCHANGED <<queue, client_cnt_>>, handler' \in {handler, "idle"},
         Started' = Started, Ended' = Ended
  PROVE  Counted'
BY DEF IInv, Counted

\* START and END count once for every client, and no END is handled before a
\* START.
LEMMA CountedNext == IInv /\ [Next]_vars => Counted'
<1> SUFFICES ASSUME IInv, [Next]_vars PROVE Counted'
  OBVIOUS
<1>1. /\ queue \in Seq(Calls) /\ client_cnt_ \in Int
      /\ Count(queue, "START") \in Nat /\ Count(queue, "END") \in Nat
      /\ IsFiniteSet(Started) /\ Cardinality(Started) \in Nat
      /\ IsFiniteSet(Ended) /\ Cardinality(Ended) \in Nat
      /\ cpc \in [Clients -> ClientStates] /\ repeat \in [Clients -> 0..MaxRepeat]
  BY CountType, FiniteClients DEF IInv, Typed
<1>2. Dittos \subseteq Clients /\ Dittos \cap Mounts = {} /\ Dittos \cap Generics = {}
  BY DEF Dittos
<1>3. ASSUME NEW c \in Clients, DittoSetUp(c) \/ MountSetUp(c) \/ GenericSetUp(c)
      PROVE  Counted'
  <2>1. Started' = Started /\ Ended' = Ended
    BY <1>1, <1>2, <1>3 DEF DittoSetUp, MountSetUp, GenericSetUp, Go, Started, Ended, params
  <2> QED
    BY <1>3, <2>1, CountedKept DEF DittoSetUp, MountSetUp, GenericSetUp, serverVars
<1>4. ASSUME NEW c \in Clients, Call(c) \/ CallNull(c) \/ RunNothing(c)
      PROVE  Counted'
  <2>1. Started' = Started /\ Ended' = Ended
    BY <1>1, <1>2, <1>4 DEF Call, CallNull, RunNothing, Go, Started, Ended, params
  <2> QED
    BY <1>4, <2>1, CountedKept DEF Call, CallNull, RunNothing, serverVars
<1>5. ASSUME NEW c \in Clients, Start(c)
      PROVE  Counted'
  <2>1. Before /\ c \in Dittos
    BY <1>5 DEF Start, IInv, ClientShape
  <2>2. Ended = {} /\ Cardinality(Ended) = 0 /\ Count(queue, "END") = 0
    BY <2>1, BeforeNoEnd
  <2>3. Started' = Started \cup {c} /\ c \notin Started /\ Ended' = Ended
    BY <1>1, <1>2, <1>5, <2>1, <2>2 DEF Start, Go, Started, Ended, params
  <2>4. Cardinality(Started') = Cardinality(Started) + 1
    BY <1>1, <2>3, FS_AddElement
  <2>5. Count(queue', "START") = Count(queue, "START") + 1 /\ Count(queue', "END") = Count(queue, "END")
    <3>1. queue' = Append(queue, "START") /\ "START" \in Calls
      BY <1>5 DEF Start, Calls
    <3> QED
      BY <1>1, <3>1, CountAppend
  <2>6. Cardinality(Ended') = Cardinality(Ended) /\ UNCHANGED <<handler, client_cnt_>>
    BY <1>5, <2>3 DEF Start, serverVars
  <2>7. /\ Count(queue, "START") <= Cardinality(Started)
        /\ client_cnt_ = Cardinality(Started) - Count(queue, "START")
        /\ handler # "check"
    BY <1>1, <2>2 DEF IInv, Counted
  <2>8. /\ Count(queue', "START") <= Cardinality(Started')
        /\ client_cnt_' = Cardinality(Started') - Count(queue', "START")
        /\ handler' # "check" /\ Cardinality(Ended') = 0 /\ Count(queue', "END") = 0
    BY <1>1, <2>2, <2>4, <2>5, <2>6, <2>7
  <2>9. client_cnt_' \in Int
    BY <1>1, <2>6
  <2> QED
    BY <2>8, <2>9 DEF Counted
<1>6. ASSUME NEW c \in Clients, Reply(c)
      PROVE  Counted'
  <2>1. CASE ~(c \in Dittos /\ calls'[c] = repeat[c])
    <3>1. Started' = Started /\ Ended' = Ended
      BY <1>1, <1>2, <1>6, <2>1 DEF Reply, Go, Started, Ended, params
    <3> QED
      BY <1>6, <2>1, <3>1, CountedKept DEF Reply, serverVars
  <2>2. CASE c \in Dittos /\ calls'[c] = repeat[c]
    <3>1. repeat[c] > 0
      BY <1>6, <2>2 DEF Reply, IInv, Typed
    <3>2. Started' = Started /\ Ended' = Ended \cup {c} /\ c \notin Ended
      BY <1>1, <1>2, <1>6, <2>2, <3>1 DEF Reply, Go, Started, Ended, params
    <3>3. Cardinality(Ended') = Cardinality(Ended) + 1
      BY <1>1, <3>2, FS_AddElement
    <3>4. queue' = Append(queue, "END")
      BY <1>6, <2>2 DEF Reply
    <3>5. Count(queue', "START") = Count(queue, "START") /\ Count(queue', "END") = Count(queue, "END") + 1
      BY <1>1, <3>4, CountAppend DEF Calls
    <3>6. Cardinality(Started') = Cardinality(Started) /\ UNCHANGED <<handler, client_cnt_>>
      BY <1>6, <3>2 DEF Reply, serverVars
    <3> QED
      BY <1>1, <3>3, <3>5, <3>6, SMTT(40) DEF IInv, Counted
  <2> QED
    BY <2>1, <2>2
<1>7. ASSUME HandleStart
      PROVE  Counted'
  <2>1. Started' = Started /\ Ended' = Ended
    BY <1>7 DEF HandleStart, clientVars, params, Started, Ended
  <2>2. Count(queue', "START") = Count(queue, "START") - 1 /\ Count(queue', "END") = Count(queue, "END")
    BY <1>1, <1>7, CountTail DEF HandleStart
  <2>3. Count(queue, "START") > 0
    <3>1. Count(queue', "START") \in Nat
      BY TypedNext, CountType DEF Typed
    <3> QED
      BY <1>1, <2>2, <3>1
  <2> QED
    BY <1>1, <1>7, <2>1, <2>2, <2>3, SMTT(40) DEF HandleStart, IInv, Counted
<1>8. ASSUME HandleEnd
      PROVE  Counted'
  <2>1. Started' = Started /\ Ended' = Ended
    BY <1>8 DEF HandleEnd, clientVars, params, Started, Ended
  <2>2. Count(queue', "START") = Count(queue, "START") /\ Count(queue', "END") = Count(queue, "END") - 1
    BY <1>1, <1>8, CountTail DEF HandleEnd
  <2>3. Count(queue, "START") = 0
    <3>1. Len(queue) \in Nat /\ Len(queue) > 0 /\ queue[1] = "END"
      BY <1>1, <1>8 DEF HandleEnd
    <3>2. \A i \in 1 .. Len(queue) : queue[i] # "START"
      BY <3>1 DEF IInv, Sorted
    <3>3. {i \in 1 .. Len(queue) : queue[i] = "START"} = {}
      BY <3>2
    <3> QED
      BY <3>3, FS_EmptySet DEF Count
  <2>4. /\ Cardinality(Started') = Cardinality(Started) /\ Cardinality(Ended') = Cardinality(Ended)
        /\ client_cnt_' = client_cnt_ - 1
    BY <1>8, <2>1 DEF HandleEnd
  <2> QED
    BY <1>1, <2>2, <2>3, <2>4, SMTT(40) DEF IInv, Counted
<1>9. ASSUME ServiceNext \/ WakeUp \/ CheckCount \/ EndBarrier
      PROVE  Counted'
  <2>1. UNCHANGED <<cpc, repeat, queue, client_cnt_>> /\ handler' \in {handler, "idle"}
    BY <1>9 DEF ServiceNext, ServiceSetUp, Wait, WakeUp, RunOver, TearDown, Exit, CheckCount, EndBarrier,
       params, clientVars, serverVars
  <2>2. Started' = Started /\ Ended' = Ended
    BY <2>1 DEF Started, Ended
  <2> QED
    BY <2>1, <2>2, CountedKept
<1>10. ASSUME StartBarrier
       PROVE  Counted'
  <2>1. Started' = Started /\ Ended' = Ended
    BY <1>2, <1>10 DEF StartBarrier, params, Started, Ended
  <2> QED
    BY <1>10, <2>1, CountedKept DEF StartBarrier, serverVars
<1>11. CASE UNCHANGED vars
  <2>1. Started' = Started /\ Ended' = Ended
    BY <1>11 DEF vars, params, clientVars, Started, Ended
  <2> QED
    BY <1>11, <2>1, CountedKept DEF vars, serverVars
<1> QED
  BY <1>3, <1>4, <1>5, <1>6, <1>7, <1>8, <1>9, <1>10, <1>11
     DEF Next, ClientNext, HandlerNext, BarrierNext

-----------------------------------------------------------------------------
(* The properties *)

\* The count is not negative, and not larger than the number of clients.
LEMMA CountBounds == IInv => TypeOK
<1> SUFFICES ASSUME IInv PROVE client_cnt_ \in 0 .. Cardinality(Dittos)
  BY DEF IInv, Typed, TypeOK
<1>1. /\ Count(queue, "START") \in Nat /\ Count(queue, "END") \in Nat
      /\ Cardinality(Dittos) \in Nat /\ Cardinality(Started) \in Nat /\ Cardinality(Ended) \in Nat
      /\ Cardinality(Started) <= Cardinality(Dittos)
      /\ Cardinality(Ended) <= Cardinality(Dittos)
  BY CountType, FiniteClients DEF IInv, Typed
<1>2. CASE Count(queue, "END") = Cardinality(Ended)
  BY <1>1, <1>2 DEF IInv, Counted
<1>3. CASE Count(queue, "END") # Cardinality(Ended)
  <2>1. Count(queue, "END") < Cardinality(Ended) /\ Count(queue, "START") = 0
    BY <1>1, <1>3 DEF IInv, Counted
  <2>2. ~Before
    BY <1>1, <2>1, BeforeNoEnd
  <2>3. Started = Dittos
    BY <2>2 DEF IInv, ClientShape, Started, Dittos
  <2> QED
    BY <1>1, <2>1, <2>3 DEF IInv, Counted
<1> QED
  BY <1>2, <1>3

\* When a client that counted itself out leaves no client behind, all have
\* finished and no call is left.
LEMMA LastOut ==
  ASSUME IInv, handler = "check", client_cnt_ <= 0
  PROVE  queue = << >> /\ \A c \in Dittos : cpc[c] = "done"
<1>1. /\ Count(queue, "START") \in Nat /\ Count(queue, "END") \in Nat
      /\ Cardinality(Ended) \in Nat /\ Cardinality(Dittos) \in Nat
      /\ Cardinality(Ended) <= Cardinality(Dittos)
      /\ queue \in Seq(Calls) /\ client_cnt_ \in Int
  BY CountType, FiniteClients DEF IInv, Typed
<1>2. Count(queue, "END") < Cardinality(Ended) /\ Count(queue, "START") = 0
  BY DEF IInv, Counted
<1>3. Started = Dittos
  <2>1. ~Before
    BY <1>1, <1>2, BeforeNoEnd
  <2> QED
    BY <2>1 DEF IInv, ClientShape, Started, Dittos
<1>4. Count(queue, "END") = 0 /\ Cardinality(Ended) = Cardinality(Dittos)
  BY <1>1, <1>2, <1>3 DEF IInv, Counted
<1>5. Ended = Dittos
  <2>1. IsFiniteSet(Dittos) /\ Ended \in SUBSET Dittos
    BY FiniteClients DEF Ended
  <2> QED
    BY <1>4, <2>1, FS_Subset
<1>6. \A i \in 1 .. Len(queue) : queue[i] # "START" /\ queue[i] # "END"
  BY <1>2, <1>4, CountZero
<1>7. queue = << >>
  BY <1>1, <1>6 DEF Calls
<1> QED
  BY <1>5, <1>7 DEF Ended

\* What has ended stays ended.
LEMMA AllOutStable == IInv /\ AllOut /\ [Next]_vars => AllOut'
<1> SUFFICES ASSUME IInv, AllOut, [Next]_vars PROVE AllOut'
  OBVIOUS
<1> USE DEF AllOut
<1>1. Dittos \subseteq Clients /\ cpc \in [Clients -> ClientStates]
  BY DEF Dittos, IInv, Typed
<1>2. ASSUME NEW c \in Clients, ClientNext(c) PROVE AllOut'
  <2>1. ~Start(c)
    BY DEF Start, IInv, ClientShape
  <2>2. c \in Dittos => cpc[c] = "done"
    OBVIOUS
  <2>3. queue' = queue /\ handler' = handler
    BY <1>2, <2>1, <2>2 DEF ClientNext, DittoSetUp, MountSetUp, GenericSetUp, Call, CallNull, Reply,
       RunNothing, serverVars
  <2>4. \A b \in Clients : b # c => cpc'[b] = cpc[b]
    BY <1>1, <1>2 DEF ClientNext, DittoSetUp, Start, MountSetUp, GenericSetUp, Call, CallNull, Reply,
       RunNothing, Go
  <2>5. cpc[c] # "done"
    BY <1>2 DEF ClientNext, DittoSetUp, Start, MountSetUp, GenericSetUp, Call, CallNull, Reply, RunNothing
  <2> QED
    BY <1>1, <2>2, <2>3, <2>4, <2>5
<1>3. ASSUME ServiceNext \/ WakeUp \/ EndBarrier PROVE AllOut'
  BY <1>3 DEF ServiceNext, ServiceSetUp, Wait, WakeUp, RunOver, TearDown, Exit, EndBarrier, clientVars,
     serverVars
<1>4. ~HandlerNext
  BY DEF HandlerNext, HandleStart, HandleEnd, CheckCount
<1>5. ASSUME StartBarrier PROVE AllOut'
  <2>1. Dittos = {}
    BY <1>1, <1>5 DEF StartBarrier
  <2> QED
    BY <1>5, <2>1 DEF StartBarrier, serverVars
<1>6. CASE UNCHANGED vars
  BY <1>6 DEF vars, clientVars, serverVars
<1> QED
  BY <1>2, <1>3, <1>4, <1>5, <1>6 DEF Next, BarrierNext

\* A wait that ends, other than by itself, ends when the last client is out.
LEMMA OutlivesNext == IInv /\ [Next]_vars => OutlivesClients'
<1> SUFFICES ASSUME IInv, [Next]_vars, waited' > 0, ~spurious' PROVE AllOut'
  BY DEF OutlivesClients
<1>1. ~spurious
  BY DEF Next, ClientNext, ServiceNext, HandlerNext, BarrierNext, DittoSetUp, Start, MountSetUp,
     GenericSetUp, Call, CallNull, Reply, RunNothing, ServiceSetUp, Wait, WakeUp, RunOver, TearDown,
     Exit, HandleStart, HandleEnd, CheckCount, StartBarrier, EndBarrier, vars, serviceVars
<1>2. CASE waited' = waited
  BY <1>1, <1>2, AllOutStable DEF IInv, OutlivesClients
<1>3. CASE waited' # waited
  <2>1. CheckCount /\ client_cnt_ <= 0
    BY <1>1, <1>3 DEF Next, ClientNext, ServiceNext, HandlerNext, BarrierNext, DittoSetUp, Start,
       MountSetUp, GenericSetUp, Call, CallNull, Reply, RunNothing, ServiceSetUp, Wait, WakeUp,
       RunOver, TearDown, Exit, HandleStart, HandleEnd, CheckCount, Signal, StartBarrier,
       EndBarrier, vars, serviceVars
  <2>2. queue = << >> /\ \A c \in Dittos : cpc[c] = "done"
    BY <2>1, LastOut DEF CheckCount
  <2> QED
    BY <2>1, <2>2 DEF CheckCount, clientVars, AllOut
<1> QED
  BY <1>2, <1>3

\* The condition variable is signalled after TearDown only if nobody waited.
LEMMA SignalNext == IInv /\ [Next]_vars => SignalWhileLive'
<1> SUFFICES ASSUME IInv, [Next]_vars, badSignal' PROVE spurious' \/ waits' = 0
  BY DEF SignalWhileLive
<1>1. waits' = waits /\ (spurious => spurious')
  <2>1. ASSUME NEW c \in Clients, ClientNext(c) PROVE waits' = waits /\ spurious' = spurious
    BY <2>1 DEF ClientNext, DittoSetUp, Start, MountSetUp, GenericSetUp, Call, CallNull, Reply, RunNothing,
       params, serviceVars
  <2>2. ASSUME ServiceNext \/ BarrierNext PROVE waits' = waits /\ spurious' = spurious
    BY <2>2 DEF ServiceNext, BarrierNext, ServiceSetUp, Wait, RunOver, TearDown, Exit, StartBarrier,
       EndBarrier, params
  <2>3. ASSUME HandlerNext PROVE waits' = waits /\ spurious' = spurious
    BY <2>3 DEF HandlerNext, HandleStart, HandleEnd, CheckCount, params, serviceVars
  <2>4. ASSUME WakeUp PROVE waits' = waits /\ spurious'
    BY <2>4 DEF WakeUp, params
  <2>5. ASSUME UNCHANGED vars PROVE waits' = waits /\ spurious' = spurious
    BY <2>5 DEF vars, params, serviceVars
  <2> QED
    BY <2>1, <2>2, <2>3, <2>4, <2>5 DEF Next
<1>2. CASE badSignal
  BY <1>1, <1>2 DEF IInv, SignalWhileLive
<1>3. CASE ~badSignal
  <2>1. handler = "check" /\ spc = "stopped"
    BY <1>3 DEF Next, ClientNext, ServiceNext, HandlerNext, BarrierNext, DittoSetUp, Start,
       MountSetUp, GenericSetUp, Call, CallNull, Reply, RunNothing, ServiceSetUp, Wait, WakeUp,
       RunOver, TearDown, Exit, HandleStart, HandleEnd, CheckCount, Signal, StartBarrier,
       EndBarrier, vars, serverVars
  <2>2. waited = waits /\ waits \in Nat
    BY <2>1 DEF IInv, Typed, ServiceShape
  <2>3. ~AllOut
    BY <2>1 DEF AllOut
  <2> QED
    BY <1>1, <2>2, <2>3 DEF IInv, OutlivesClients
<1> QED
  BY <1>2, <1>3

-----------------------------------------------------------------------------
(* Theorems *)

\* The inductive invariant holds of every run of the service and its clients.
THEOREM Invariance == Spec => []IInv
<1>1. IInv /\ [Next]_vars => IInv'
  BY TypedNext, ServiceShapeNext, ClientShapeNext, SortedNext, CountedNext, OutlivesNext, SignalNext
     DEF IInv
<1> QED
  BY <1>1, InitIInv, PTL DEF Spec

\* The reference count of the service never becomes negative and never exceeds
\* the number of its clients, for any number of clients and repetitions.
THEOREM TypeCorrect == Spec => []TypeOK
BY Invariance, CountBounds, PTL

\* The service outlives its clients unless it wakes up by itself.
THEOREM ServiceOutlivesClients == Spec => []OutlivesClients
<1>1. IInv => OutlivesClients
  BY DEF IInv
<1> QED
  BY <1>1, Invariance, PTL

\* A destroyed condition variable is signalled only if the service did not
\* wait for its clients.
THEOREM SignalsLiveCondition == Spec => []SignalWhileLive
<1>1. IInv => SignalWhileLive
  BY DEF IInv
<1> QED
  BY <1>1, Invariance, PTL

\* A set-up in which a client holds the mutex the service needs, and a wait
\* that begins after the last END was handled, never end.
THEOREM BothHangsForGood == Spec => HangsForGood
<1>1. IInv /\ [Next]_vars => (SetUpStuck => SetUpStuck')
  <2> SUFFICES ASSUME IInv, [Next]_vars, NEW c \in Dittos, mutex = c, spc = "lock"
               PROVE  mutex' = c /\ spc' = "lock"
    BY DEF SetUpStuck
  <2>1. mutex # Free /\ ~registered
    BY BinderAssumption DEF IInv, ServiceShape, Dittos
  <2> QED
    BY <2>1 DEF Next, ClientNext, ServiceNext, HandlerNext, BarrierNext, DittoSetUp, Start, MountSetUp,
       GenericSetUp, Call, CallNull, Reply, RunNothing, ServiceSetUp, Wait, WakeUp, RunOver, TearDown,
       Exit, HandleStart, HandleEnd, CheckCount, Signal, StartBarrier, EndBarrier, vars, serviceVars
<1>2. IInv /\ [Next]_vars => (MissedWait => MissedWait' \/ WakeUp)
  <2> SUFFICES ASSUME IInv, [Next]_vars, MissedWait, ~WakeUp PROVE MissedWait'
    OBVIOUS
  <2>1. AllOut' /\ handler = "idle" /\ queue = << >>
    BY AllOutStable DEF MissedWait, AllOut
  <2>2. spc' \in {"run", "waiting"} /\ waited' = waited /\ waits' = waits
    <3>1. ASSUME NEW c \in Clients, ClientNext(c) PROVE UNCHANGED <<spc, waited, waits>>
      BY <3>1 DEF ClientNext, DittoSetUp, Start, MountSetUp, GenericSetUp, Call, CallNull, Reply,
         RunNothing, params, serviceVars
    <3>2. ASSUME ServiceNext PROVE spc' \in {spc, "waiting"} /\ UNCHANGED <<waited, waits>>
      BY <3>2 DEF MissedWait, IInv, Typed, ServiceNext, ServiceSetUp, Wait, RunOver, TearDown, Exit, params
    <3>3. ~HandlerNext /\ ~BarrierNext
      BY <2>1 DEF MissedWait, HandlerNext, HandleStart, HandleEnd, CheckCount, BarrierNext,
         StartBarrier, EndBarrier
    <3>4. ASSUME UNCHANGED vars PROVE UNCHANGED <<spc, waited, waits>>
      BY <3>4 DEF vars, params, serviceVars
    <3> QED
      BY <3>1, <3>2, <3>3, <3>4 DEF MissedWait, Next
  <2> QED
    BY <2>1, <2>2 DEF MissedWait
<1>3. IInv /\ [Next]_vars =>
        [/\ SetUpStuck => SetUpStuck'
         /\ MissedWait => MissedWait' \/ WakeUp]_vars
  BY <1>1, <1>2
<1> QED
  BY <1>3, Invariance, PTL DEF Spec, HangsForGood
=============================================================================
