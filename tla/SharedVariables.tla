--------------------------- MODULE SharedVariables ---------------------------
(***************************************************************************)
(* The static class SharedVariables: the vector variables_ that every      *)
(* instruction reads and writes through an integer key, and the map keys_  *)
(* that gives a name its key inside a thread.  The operators are pure:     *)
(* they take the store and return a value or the store after the call.     *)
(*                                                                         *)
(*   store.keys       keys_: one entry per (thread id, variable name)      *)
(*   store.variables  variables_: the alternative each Variant holds       *)
(*   store.capacity   capacity of the vector                               *)
(*   store.block      which heap block the vector's elements live in       *)
(*                                                                         *)
(* A key is the 0-based index of the code; a thread id list (std::list)    *)
(* is a sequence, outermost thread first.                                  *)
(***************************************************************************)
EXTENDS Naturals, Sequences

CONSTANT Names          \* the variable names a .ditto file may use

\* The alternatives of SharedVariables::Variant; "int" is what a value-
\* initialised Variant holds.
Variants == {"int", "string", "mutex", "list"}

Entries == [tid : Nat, name : Names, key : Nat]

Stores == [keys : SUBSET Entries, variables : Seq(Variants),
           capacity : Nat, block : Nat]

EmptyStore == [keys |-> {}, variables |-> << >>, capacity |-> 0, block |-> 0]

\* Mutant of Owners: only the innermost thread is asked.
OwnersInnermost(s, thread_ids, name) ==
  {i \in {Len(thread_ids)} :
     \E e \in s.keys : e.tid = thread_ids[i] /\ e.name = name}

\* The positions of thread_ids whose thread has variable_name.
Owners(s, thread_ids, name) ==
  {i \in DOMAIN thread_ids :
     \E e \in s.keys : e.tid = thread_ids[i] /\ e.name = name}

Exists(s, thread_ids, name) == Owners(s, thread_ids, name) # {}

\* The first entry the reverse iteration over thread_ids meets.
Closest(s, thread_ids, name) ==
  LET owner == CHOOSE i \in Owners(s, thread_ids, name) :
                 \A j \in Owners(s, thread_ids, name) : j <= i
  IN  CHOOSE e \in s.keys : e.tid = thread_ids[owner] /\ e.name = name

\* The value GetKey returns.
GetKey(s, thread_ids, name) ==
  IF Exists(s, thread_ids, name)
    THEN Closest(s, thread_ids, name).key
    ELSE Len(s.variables)

\* variables_.resize(variables_.size() + 1) and the entry of the new element:
\* at full capacity the elements move to a new block of twice the capacity.
Enter(s, tid, name) ==
  LET size == Len(s.variables)
      full == size = s.capacity
  IN  [keys      |-> s.keys \cup {[tid |-> tid, name |-> name, key |-> size]},
       variables |-> Append(s.variables, "int"),
       capacity  |-> IF ~full THEN s.capacity
                     ELSE IF size = 0 THEN 1 ELSE 2 * size,
       block     |-> IF full THEN s.block + 1 ELSE s.block]

\* Mutant of AfterGetKey: an unknown name is entered for the outermost thread.
AfterGetKeyOutermost(s, thread_ids, name) ==
  IF Exists(s, thread_ids, name)
    THEN s
    ELSE Enter(s, thread_ids[1], name)

\* The store after GetKey: an unknown name is entered for the innermost thread.
AfterGetKey(s, thread_ids, name) ==
  IF Exists(s, thread_ids, name)
    THEN s
    ELSE Enter(s, thread_ids[Len(thread_ids)], name)

\* GetPointer: an address is a block and an offset into it.
GetPointer(s, key) == [block |-> s.block, key |-> key]

Get(s, key) == s.variables[key + 1]

Set(s, key, value) == [s EXCEPT !.variables[key + 1] = value]

ClearKeys(s) == [s EXCEPT !.keys = {}]
=============================================================================
