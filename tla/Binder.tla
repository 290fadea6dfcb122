------------------------------- MODULE Binder -------------------------------
(***************************************************************************)
(* A Binder service and its clients, forked by one multithreading          *)
(* instruction with fork: true (example/android/binder.ditto), each client *)
(* in a process of its own.  The clients count themselves in and out at    *)
(* the service; the service's instruction waits on a condition variable    *)
(* that the last client is to signal.                                      *)
(*                                                                         *)
(*   repeat, waits   repeat_ of each client and of the service instruction *)
(*   mutex           initialization_mutex_ of Multiprocessing              *)
(*   spc, cpc        where the service's and each client's process is      *)
(*   registered      addService has been called                            *)
(*   service         service_ of each client is not null                   *)
(*   queue           oneway calls sent to the service and not handled yet  *)
(*   handler         the pool thread that handles oneway calls             *)
(*   client_cnt_     the reference count of the service                    *)
(*   waited, calls   repetitions done                                      *)
(*   spurious        pthread_cond_wait returned without a signal           *)
(*   badSignal       the condition variable was signalled when destroyed   *)
(*                                                                         *)
(* External: the Binder driver delivers the oneway calls to one service in *)
(* the order they were sent and one at a time, and serves synchronous      *)
(* calls beside them; waitForService blocks until the name is registered.  *)
(* The two barriers and the mutex are those of Multiprocessing.            *)
(***************************************************************************)
EXTENDS Integers, Sequences, FiniteSets

CONSTANTS Clients,      \* the client processes
          Generics,     \* those whose request is a GenericBinderRequest
          Mounts,       \* those whose request is a BinderRequestMountService
          MaxRepeat,    \* bound on repeat_
          Spurious      \* may pthread_cond_wait wake up by itself?

Dittos == Clients \ (Generics \cup Mounts)   \* those with a BinderRequestDitto
Free == "free"                             \* no owner of the mutex

ASSUME BinderAssumption ==
  /\ IsFiniteSet(Clients)
  /\ Generics \subseteq Clients /\ Mounts \subseteq Clients \ Generics
  /\ MaxRepeat \in Nat
  /\ Spurious \in BOOLEAN
  /\ Free \notin Clients

VARIABLES repeat, waits, mutex, spc, cpc, registered, service, queue, handler,
          client_cnt_, waited, calls, spurious, badSignal

params == <<repeat, waits>>
clientVars == <<cpc, calls, service>>
serverVars == <<registered, handler, client_cnt_, badSignal>>
serviceVars == <<spc, waited, spurious>>
vars == <<params, mutex, clientVars, queue, serverVars, serviceVars>>

ServerStates == {"lock", "ready", "run", "waiting", "ran", "tearDown", "stopped", "exited"}
ClientStates == {"lock", "waitForService", "ready", "run", "calling", "done", "crashed"}
Calls == {"START", "END"}

Init ==
  /\ repeat \in [Clients -> 0..MaxRepeat]
  /\ waits \in 0..MaxRepeat
  /\ mutex = Free
  /\ spc = "lock"
  /\ cpc = [c \in Clients |-> "lock"]
  /\ registered = FALSE
  /\ service = [c \in Clients |-> FALSE]
  /\ queue = <<>>
  /\ handler = "idle"
  /\ client_cnt_ = 0
  /\ waited = 0
  /\ calls = [c \in Clients |-> 0]
  /\ spurious = FALSE
  /\ badSignal = FALSE

Go(c, place) == cpc' = [cpc EXCEPT ![c] = place]

-----------------------------------------------------------------------------
(* A client *)

\* BinderRequestDitto::SetUp, under the mutex: getBinderService ...
DittoSetUp(c) ==
  /\ c \in Dittos
  /\ cpc[c] = "lock"
  /\ mutex = Free
  /\ mutex' = c
  /\ Go(c, "waitForService")
  /\ UNCHANGED <<params, calls, service, queue, serverVars, serviceVars>>

\* Mutant of Start: the client does not wait for the service.
StartNoWait(c) ==
  /\ cpc[c] = "waitForService"
  /\ service' = [service EXCEPT ![c] = registered]
  /\ queue' = IF registered THEN Append(queue, "START") ELSE queue
  /\ mutex' = Free
  /\ Go(c, "ready")
  /\ UNCHANGED <<params, calls, serverVars, serviceVars>>

\* Mutant of Start: a new client does not count itself in.
StartUncounted(c) ==
  /\ cpc[c] = "waitForService"
  /\ registered
  /\ service' = [service EXCEPT ![c] = TRUE]
  /\ mutex' = Free
  /\ Go(c, "ready")
  /\ UNCHANGED <<params, calls, queue, serverVars, serviceVars>>

\* ... returns once the service is registered, and start() is a oneway call.
Start(c) ==
  /\ cpc[c] = "waitForService"
  /\ registered
  /\ service' = [service EXCEPT ![c] = TRUE]
  /\ queue' = Append(queue, "START")
  /\ mutex' = Free
  /\ Go(c, "ready")
  /\ UNCHANGED <<params, calls, serverVars, serviceVars>>

\* BinderRequestMountService::SetUp: the system's own service is there, and
\* does not count its clients.
MountSetUp(c) ==
  /\ c \in Mounts
  /\ cpc[c] = "lock"
  /\ mutex = Free
  /\ service' = [service EXCEPT ![c] = TRUE]
  /\ Go(c, "ready")
  /\ UNCHANGED <<params, mutex, calls, queue, serverVars, serviceVars>>

\* GenericBinderRequest::SetUp: checkService does not wait, and gives null
\* for a name that is not registered.
GenericSetUp(c) ==
  /\ c \in Generics
  /\ cpc[c] = "lock"
  /\ mutex = Free
  /\ service' = [service EXCEPT ![c] = registered]
  /\ Go(c, "ready")
  /\ UNCHANGED <<params, mutex, calls, queue, serverVars, serviceVars>>

\* RunSingle: the client makes a synchronous call and waits for its reply.
Call(c) ==
  /\ cpc[c] = "run"
  /\ calls[c] < repeat[c]
  /\ service[c]
  /\ Go(c, "calling")
  /\ UNCHANGED <<params, mutex, calls, service, queue, serverVars, serviceVars>>

\* transact() of a null service_.
CallNull(c) ==
  /\ cpc[c] = "run"
  /\ calls[c] < repeat[c]
  /\ ~service[c]
  /\ Go(c, "crashed")
  /\ UNCHANGED <<params, mutex, calls, service, queue, serverVars, serviceVars>>

\* The reply arrives; after the last repetition TearDownSingle sends end().
Reply(c) ==
  /\ cpc[c] = "calling"
  /\ calls' = [calls EXCEPT ![c] = @ + 1]
  /\ queue' = IF c \in Dittos /\ calls'[c] = repeat[c] THEN Append(queue, "END") ELSE queue
  /\ Go(c, IF calls'[c] = repeat[c] THEN "done" ELSE "run")
  /\ UNCHANGED <<params, mutex, service, serverVars, serviceVars>>

\* Run with repeat 0 does nothing at all.
RunNothing(c) ==
  /\ cpc[c] = "run"
  /\ repeat[c] = 0
  /\ Go(c, "done")
  /\ UNCHANGED <<params, mutex, calls, service, queue, serverVars, serviceVars>>

-----------------------------------------------------------------------------
(* The service's instruction *)

\* BinderService::SetUp, under the mutex: the service is registered and its
\* thread pool started.
ServiceSetUp ==
  /\ spc = "lock"
  /\ mutex = Free
  /\ registered' = TRUE
  /\ spc' = "ready"
  /\ UNCHANGED <<params, mutex, clientVars, queue, handler, client_cnt_, badSignal,
                 waited, spurious>>

\* RunSingle: pthread_cond_wait, whatever has been signalled before.
Wait ==
  /\ spc = "run"
  /\ waited < waits
  /\ spc' = "waiting"
  /\ UNCHANGED <<params, mutex, clientVars, queue, serverVars, waited, spurious>>

WakeUp ==
  /\ Spurious
  /\ spc = "waiting"
  /\ spc' = "run"
  /\ waited' = waited + 1
  /\ spurious' = TRUE
  /\ UNCHANGED <<params, mutex, clientVars, queue, serverVars>>

RunOver ==
  /\ spc = "run"
  /\ waited = waits
  /\ spc' = "ran"
  /\ UNCHANGED <<params, mutex, clientVars, queue, serverVars, waited, spurious>>

\* TearDown destroys the condition variable; afterwards the process writes
\* its result and exits.
TearDown ==
  /\ spc = "tearDown"
  /\ spc' = "stopped"
  /\ UNCHANGED <<params, mutex, clientVars, queue, serverVars, waited, spurious>>

Exit ==
  /\ spc = "stopped"
  /\ spc' = "exited"
  /\ UNCHANGED <<params, mutex, clientVars, queue, serverVars, waited, spurious>>

-----------------------------------------------------------------------------
(* The service's pool thread: onTransact *)

HandleStart ==
  /\ spc # "exited"
  /\ handler = "idle"
  /\ queue # <<>> /\ Head(queue) = "START"
  /\ client_cnt_' = client_cnt_ + 1
  /\ queue' = Tail(queue)
  /\ UNCHANGED <<params, mutex, clientVars, registered, handler, badSignal, serviceVars>>

\* end() ...
HandleEnd ==
  /\ spc # "exited"
  /\ handler = "idle"
  /\ queue # <<>> /\ Head(queue) = "END"
  /\ client_cnt_' = client_cnt_ - 1
  /\ queue' = Tail(queue)
  /\ handler' = "check"
  /\ UNCHANGED <<params, mutex, clientVars, registered, badSignal, serviceVars>>

\* What pthread_cond_signal does to a service at spc.
Signal ==
  /\ badSignal' = (badSignal \/ spc = "stopped")
  /\ spc' = IF spc = "waiting" THEN "run" ELSE spc
  /\ waited' = IF spc = "waiting" THEN waited + 1 ELSE waited

\* Mutant of CheckCount: the last client is not told from the others.
CheckCountOff ==
  /\ spc # "exited"
  /\ handler = "check"
  /\ handler' = "idle"
  /\ IF client_cnt_ <= 1 THEN Signal ELSE UNCHANGED <<badSignal, spc, waited>>
  /\ UNCHANGED <<params, mutex, clientVars, queue, registered, client_cnt_, spurious>>

\* Mutant of CheckCount: nobody is signalled.
CheckCountSilent ==
  /\ spc # "exited"
  /\ handler = "check"
  /\ handler' = "idle"
  /\ UNCHANGED <<params, mutex, clientVars, queue, registered, client_cnt_, badSignal,
                 serviceVars>>

\* ... and the signal when the count is not positive any more.
CheckCount ==
  /\ spc # "exited"
  /\ handler = "check"
  /\ handler' = "idle"
  /\ IF client_cnt_ <= 0 THEN Signal ELSE UNCHANGED <<badSignal, spc, waited>>
  /\ UNCHANGED <<params, mutex, clientVars, queue, registered, client_cnt_, spurious>>

-----------------------------------------------------------------------------
(* The barriers of Multiprocessing::RunSingle *)

\* barrier_execution_: all processes are set up.
StartBarrier ==
  /\ spc = "ready"
  /\ \A c \in Clients : cpc[c] = "ready"
  /\ spc' = "run"
  /\ cpc' = [c \in Clients |-> "run"]
  /\ UNCHANGED <<params, mutex, calls, service, queue, serverVars, waited, spurious>>

\* barrier_execution_end_: all have run, and the service is torn down.
EndBarrier ==
  /\ spc = "ran"
  /\ \A c \in Clients : cpc[c] = "done"
  /\ spc' = "tearDown"
  /\ UNCHANGED <<params, mutex, clientVars, queue, serverVars, waited, spurious>>

-----------------------------------------------------------------------------
ClientNext(c) ==
  \/ DittoSetUp(c) \/ Start(c) \/ MountSetUp(c) \/ GenericSetUp(c)
  \/ Call(c) \/ CallNull(c) \/ Reply(c) \/ RunNothing(c)

ServiceNext == ServiceSetUp \/ Wait \/ RunOver \/ TearDown \/ Exit

HandlerNext == HandleStart \/ HandleEnd \/ CheckCount

BarrierNext == StartBarrier \/ EndBarrier

Next ==
  \/ \E c \in Clients : ClientNext(c)
  \/ ServiceNext \/ WakeUp \/ HandlerNext \/ BarrierNext

Spec == Init /\ [][Next]_vars

\* The scheduler runs every process and thread that can take a step, and an
\* open barrier lets everybody through; nothing makes spurious wake-ups
\* happen.  Every process takes the mutex once, so weak fairness suffices.
Fairness ==
  /\ \A c \in Clients : WF_vars(ClientNext(c))
  /\ WF_vars(ServiceNext) /\ WF_vars(HandlerNext) /\ WF_vars(BarrierNext)

FairSpec == Spec /\ Fairness

-----------------------------------------------------------------------------
(* Properties *)

\* The types; the reference count never becomes negative.
TypeOK ==
  /\ repeat \in [Clients -> 0..MaxRepeat]
  /\ waits \in 0..MaxRepeat
  /\ mutex \in Clients \cup {Free}
  /\ spc \in ServerStates
  /\ cpc \in [Clients -> ClientStates]
  /\ registered \in BOOLEAN
  /\ service \in [Clients -> BOOLEAN]
  /\ queue \in Seq(Calls)
  /\ handler \in {"idle", "check"}
  /\ client_cnt_ \in 0..Cardinality(Dittos)
  /\ waited \in 0..MaxRepeat
  /\ calls \in [Clients -> 0..MaxRepeat]
  /\ spurious \in BOOLEAN
  /\ badSignal \in BOOLEAN

\* Every client has been counted out: nothing will signal the service again.
AllOut ==
  /\ \A c \in Dittos : cpc[c] = "done"
  /\ queue = <<>>
  /\ handler = "idle"

\* The service outlives its clients: unless it wakes up by itself, its wait
\* ends only when every client has finished and its END has been handled,
\* although START and END are oneway calls nobody waits for.  It rests on
\* the starting barrier and on the order of the oneway calls.
OutlivesClients == waited > 0 /\ ~spurious => AllOut

\* The handler never signals a condition variable that TearDown destroyed,
\* unless the service did not wait for its clients: it ran zero times or was
\* woken up by itself.
SignalWhileLive == badSignal => spurious \/ waits = 0

\* A client waits for a service whose set-up needs the mutex it holds.
SetUpStuck == \E c \in Dittos : mutex = c /\ spc = "lock"

\* The last END has been handled and the service still is to wait.
SignalMissed == spc = "run" /\ waited < waits /\ AllOut

\* A client that runs zero times has sent START and will not send END.
EndNeverSent == waited < waits /\ \E c \in Dittos : repeat[c] = 0

ClientCrashes == \E c \in Clients : cpc[c] = "crashed"

\* The service stops and its process ends, except where it hangs: a client
\* took the initialisation mutex first, the signal came before the (last)
\* wait, a client with repeat 0 never counts itself out, or a generic client
\* found no service and crashed before the last barrier.
ServiceStops ==
  <>(spc = "exited" \/ SetUpStuck \/ SignalMissed \/ EndNeverSent \/ ClientCrashes)

\* A wait that nobody will end.
MissedWait == spc \in {"run", "waiting"} /\ waited < waits /\ AllOut

\* Both hangs are for good: a deadlocked set-up never ends, and a service
\* that missed the signal only goes on if it is woken up by itself.
HangsForGood ==
  [][/\ SetUpStuck => SetUpStuck'
     /\ MissedWait => MissedWait' \/ WakeUp]_vars
=============================================================================
