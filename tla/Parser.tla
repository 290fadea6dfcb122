------------------------------- MODULE Parser -------------------------------
(***************************************************************************)
(* Parser::__Parse and InstructionFactory: the static pass that turns a    *)
(* .ditto file into an instruction tree and resolves every variable name   *)
(* to a key of SharedVariables.  The file is not fixed: each step is the   *)
(* next construct the factory may meet, so a behaviour is the parse of     *)
(* some benchmark, followed by further parses in the same process          *)
(* (dittobench_benchmark parses once per iteration).                       *)
(*                                                                         *)
(*   store               SharedVariables' static members                   *)
(*   thread_ids          the list passed down the recursion, outermost     *)
(*                       thread first; empty between two parses            *)
(*   current_thread_id_  InstructionFactory's static counter               *)
(*   uses                (thread_ids, name, key) of every resolved name    *)
(*   locks               the mutex pointer of every Lock and Unlock built  *)
(*   status              "idle", "parsing" or "exited" (after a LOGF)      *)
(***************************************************************************)
EXTENDS SharedVariables, FiniteSets

CONSTANTS AbsolutePath,    \* the name "absolute_path"
          MutexNames,      \* the names a mutex of the global section may have
          NoName,          \* an optional name the file does not give
          MaxThreadId      \* bound: thread ids handed out by the process

ASSUME NamesAssumption ==
  AbsolutePath \in Names /\ MutexNames \subseteq Names /\ NoName \notin Names

ASSUME BoundAssumption == MaxThreadId \in Nat

VARIABLES store, thread_ids, current_thread_id_, uses, locks, status

vars == <<store, thread_ids, current_thread_id_, uses, locks, status>>

Uses == [ids : Seq(Nat), name : Names, key : Nat]
Locks == [ptr : [block : Nat, key : Nat], null : BOOLEAN]

-----------------------------------------------------------------------------
(* The calls of GetKey the factory makes for one instruction, in order.    *)

Use(s, ids, name) == [ids |-> ids, name |-> name, key |-> GetKey(s, ids, name)]

\* One optional name: without it the key stays -1 and nothing is looked up.
StoreAfter(s, ids, name) ==
  IF name = NoName THEN s ELSE AfterGetKey(s, ids, name)

UseOf(s, ids, name) == IF name = NoName THEN {} ELSE {Use(s, ids, name)}

\* A first and then a second name, the second looked up in the store the
\* first lookup has left.
Resolve(first, second) ==
  LET middle == StoreAfter(store, thread_ids, first)
  IN  /\ store' = StoreAfter(middle, thread_ids, second)
      /\ uses' = uses \cup UseOf(store, thread_ids, first)
                      \cup UseOf(middle, thread_ids, second)

-----------------------------------------------------------------------------
Init ==
  /\ store = EmptyStore
  /\ thread_ids = << >>
  /\ current_thread_id_ = 0
  /\ uses = {}
  /\ locks = {}
  /\ status = "idle"

\* absolute_path gets its key and its value.
WithAbsolutePath(s, ids) ==
  Set(AfterGetKey(s, ids, AbsolutePath), GetKey(s, ids, AbsolutePath), "string")

\* The mutex of the global section, if there is one, likewise.
WithMutex(s, ids, mutex) ==
  IF mutex = NoName
    THEN s
    ELSE Set(AfterGetKey(s, ids, mutex), GetKey(s, ids, mutex), "mutex")

\* The head of __Parse: the benchmark's own thread id and its globals.
BeginParse(mutex) ==
  LET ids  == <<current_thread_id_>>
      path == WithAbsolutePath(store, ids)
  IN  /\ status = "idle"
      /\ current_thread_id_ < MaxThreadId
      /\ thread_ids' = ids
      /\ current_thread_id_' = current_thread_id_ + 1
      /\ store' = WithMutex(path, ids, mutex)
      /\ uses' = uses \cup {Use(store, ids, AbsolutePath)}
                      \cup UseOf(path, ids, mutex)
      /\ status' = "parsing"
      /\ UNCHANGED locks

\* One iteration of the spawn loop of a multithreading instruction: a copy
\* of thread_ids with a new id at its back.
EnterThread ==
  /\ status = "parsing"
  /\ current_thread_id_ < MaxThreadId
  /\ thread_ids' = Append(thread_ids, current_thread_id_)
  /\ current_thread_id_' = current_thread_id_ + 1
  /\ UNCHANGED <<store, uses, locks, status>>

\* The end of that iteration: the caller's list is used again.
LeaveThread ==
  /\ status = "parsing"
  /\ Len(thread_ids) > 1
  /\ thread_ids' = SubSeq(thread_ids, 1, Len(thread_ids) - 1)
  /\ UNCHANGED <<store, current_thread_id_, uses, locks, status>>

\* delete_file by variable, close_file, resize_file, resize_file_random,
\* write_file, read_file and read_directory resolve one name.
CreateFileInstruction(name) ==
  /\ status = "parsing"
  /\ Resolve(name, NoName)
  /\ UNCHANGED <<thread_ids, current_thread_id_, locks, status>>

\* open_file resolves its optional output first, then its optional input.
CreateOpenFile(output_fd, input) ==
  /\ status = "parsing"
  /\ Resolve(output_fd, input)
  /\ UNCHANGED <<thread_ids, current_thread_id_, locks, status>>

\* An iterating instruction_set resolves list and item after its children.
CreateIteratingSet(list_name, item_name) ==
  /\ status = "parsing"
  /\ Resolve(list_name, item_name)
  /\ UNCHANGED <<thread_ids, current_thread_id_, locks, status>>

\* lock and unlock: the name must exist; the instruction keeps the address
\* get_if finds in the Variant, null when it does not hold a mutex.
CreateLock(name) ==
  /\ status = "parsing"
  /\ Exists(store, thread_ids, name)
  /\ Resolve(name, NoName)
  /\ LET key == GetKey(store, thread_ids, name)
     IN  locks' = locks \cup {[ptr  |-> GetPointer(store, key),
                               null |-> Get(store, key) # "mutex"]}
  /\ UNCHANGED <<thread_ids, current_thread_id_, status>>

\* "Could not find mutex declaration."
UnknownLock(name) ==
  /\ status = "parsing"
  /\ ~Exists(store, thread_ids, name)
  /\ status' = "exited"
  /\ UNCHANGED <<store, thread_ids, current_thread_id_, uses, locks>>

\* Every other LOGF: the file is missing or is no benchmark, an instruction
\* is unset or invalid.
InvalidInstruction ==
  /\ status # "exited"
  /\ status' = "exited"
  /\ UNCHANGED <<store, thread_ids, current_thread_id_, uses, locks>>

\* The end of __Parse.
EndParse ==
  /\ status = "parsing"
  /\ Len(thread_ids) = 1
  /\ store' = ClearKeys(store)
  /\ thread_ids' = << >>
  /\ status' = "idle"
  /\ UNCHANGED <<current_thread_id_, uses, locks>>

Next ==
  \/ \E mutex \in MutexNames \cup {NoName} : BeginParse(mutex)
  \/ EnterThread
  \/ LeaveThread
  \/ \E name \in Names : CreateFileInstruction(name)
  \/ \E output_fd, input \in Names \cup {NoName} : CreateOpenFile(output_fd, input)
  \/ \E list_name, item_name \in Names : CreateIteratingSet(list_name, item_name)
  \/ \E name \in Names : CreateLock(name) \/ UnknownLock(name)
  \/ InvalidInstruction
  \/ EndParse

Spec == Init /\ [][Next]_vars

-----------------------------------------------------------------------------
(* Properties *)

TypeOK ==
  /\ store \in Stores
  /\ thread_ids \in Seq(Nat)
  /\ current_thread_id_ \in Nat
  /\ uses \in SUBSET Uses
  /\ locks \in SUBSET Locks
  /\ status \in {"idle", "parsing", "exited"}

\* The threads of one list are those of the other, or enclose them.
Encloses(outer, inner) ==
  /\ Len(outer) <= Len(inner)
  /\ \A i \in DOMAIN outer : outer[i] = inner[i]

\* Every key an instruction was built with is an index of variables_, also
\* after later parses, so that no instruction ever stops the program with
\* "Shared variable with the provided key does not exist" (GetPointer, Get, Set).
KeysValid == \A u \in uses : u.key < Len(store.variables)

\* Two threads share a variable only by its name and only if a thread that
\* encloses both has used it: neither siblings, nor a thread and one below its
\* sibling, nor two parses (keys_ is cleared after a parse, variables_ is not)
\* share what they name alike.  DifferentKeyForDifferentThread tests this for
\* two fixed lists.
NoAliasing ==
  \A u, v \in uses : u.key = v.key =>
    /\ u.name = v.name
    /\ \E w \in uses : w.key = u.key /\ Encloses(w.ids, u.ids) /\ Encloses(w.ids, v.ids)

\* Along the threads being parsed a name is never entered twice, whatever
\* siblings were parsed before, so the direction in which GetKey walks
\* thread_ids cannot matter.
NoShadowing ==
  \A e, f \in store.keys :
    /\ e.name = f.name
    /\ \E i \in DOMAIN thread_ids : thread_ids[i] = e.tid
    /\ \E i \in DOMAIN thread_ids : thread_ids[i] = f.tid
    => e = f

\* A name already used in a thread or in one that encloses it keeps meaning
\* the same variable: what SharedVariablesTestSetMultipleSameNames and
\* SameKeyForGrandchildThread test, for every order of instructions.
InnerSeesOuter ==
  [][\A u \in uses, v \in uses' \ uses :
       Encloses(u.ids, v.ids) /\ u.name = v.name => u.key = v.key]_vars

\* Once the file is parsed, every Lock and Unlock on a declared mutex works
\* on that mutex: the address GetPointer returned is still the address of
\* the element of variables_ that holds it.
LockPointersLive ==
  status = "idle" =>
    \A l \in locks : ~l.null => l.ptr = GetPointer(store, l.ptr.key)
=============================================================================
