----------------------------- MODULE ParserProofs -----------------------------
(***************************************************************************)
(* Scoping of variable names, for any set of names, any nesting of         *)
(* threads and any number of parses: proofs about Parser.                  *)
(*                                                                         *)
(* The inductive invariant is Coherent, which relates the entries of       *)
(* keys_, the thread ids being parsed and the keys already handed out.  It *)
(* is stated for any store, so that the lemma about one GetKey             *)
(* (GetKeyCoherent) can be applied twice to an instruction that resolves   *)
(* two names.                                                              *)
(***************************************************************************)
EXTENDS Parser, TLAPS

In(tid, ids) == \E i \in DOMAIN ids : ids[i] = tid

NoRepeat(ids) == \A i, j \in DOMAIN ids : ids[i] = ids[j] => i = j

\* The ids in use were handed out by GenerateThreadId.
OldIds(s, ids, cur, us) ==
  /\ \A i \in DOMAIN ids : ids[i] < cur
  /\ \A e \in s.keys : e.tid < cur
  /\ \A u \in us : Len(u.ids) > 0 /\ \A i \in DOMAIN u.ids : u.ids[i] < cur

KeysInRange(s, us) ==
  /\ \A e \in s.keys : e.key < Len(s.variables)
  /\ \A u \in us : u.key < Len(s.variables)

UniqueKeys(s) == \A e, f \in s.keys : e.key = f.key => e = f

Unshadowed(s, ids) ==
  \A e, f \in s.keys :
    e.name = f.name /\ In(e.tid, ids) /\ In(f.tid, ids) => e = f

\* Whoever holds the key of an entry resolved its name below its thread.
EntriesOfUses(s, us) ==
  \A e \in s.keys, u \in us : u.key = e.key => u.name = e.name /\ In(e.tid, u.ids)

\* A name resolved in a thread that is still being parsed has an entry there.
UsesHaveEntries(s, ids, us) ==
  \A u \in us : Encloses(u.ids, ids) =>
    \E e \in s.keys : e.name = u.name /\ e.key = u.key /\ In(e.tid, u.ids)

Innermost(ids) == ids[Len(ids)]

\* The thread of an entry is the innermost one of its first use, and all who
\* hold its key are inside that.
Homes(s, us) ==
  \A e \in s.keys : \E w \in us :
    /\ w.key = e.key /\ Innermost(w.ids) = e.tid
    /\ \A u \in us : u.key = e.key => Encloses(w.ids, u.ids)

\* A thread has one list of enclosing threads.
Paths(ids, us) == \A u \in us : In(Innermost(u.ids), ids) => Encloses(u.ids, ids)

Distinct(us) ==
  \A u, v \in us : u.key = v.key =>
    /\ u.name = v.name
    /\ \E w \in us : w.key = u.key /\ Encloses(w.ids, u.ids) /\ Encloses(w.ids, v.ids)

Typed(s, ids, cur, us) ==
  s \in Stores /\ ids \in Seq(Nat) /\ cur \in Nat /\ us \in SUBSET Uses

Coherent(s, ids, cur, us) ==
  /\ Typed(s, ids, cur, us)
  /\ OldIds(s, ids, cur, us)
  /\ NoRepeat(ids)
  /\ KeysInRange(s, us)
  /\ UniqueKeys(s)
  /\ Unshadowed(s, ids)
  /\ EntriesOfUses(s, us)
  /\ UsesHaveEntries(s, ids, us)
  /\ Homes(s, us)
  /\ Paths(ids, us)
  /\ Distinct(us)

\* What InnerSeesOuter says of the uses before and after some lookups.
Agree(old, new) ==
  \A u \in old, v \in new : Encloses(u.ids, v.ids) /\ u.name = v.name => u.key = v.key

PathShape ==
  /\ status = "parsing" => Len(thread_ids) > 0
  /\ status = "idle" => thread_ids = << >>
  /\ status \in {"idle", "parsing", "exited"}

IInv ==
  /\ Coherent(store, thread_ids, current_thread_id_, uses)
  /\ PathShape
  /\ locks \in SUBSET Locks

-----------------------------------------------------------------------------
(* GetKey *)

\* If one entry is visible, it is the one GetKey finds: the walk over
\* thread_ids meets at most one entry for the name.
LEMMA ClosestIsVisible ==
  ASSUME NEW s \in Stores, NEW ids \in Seq(Nat), NEW name \in Names,
         Exists(s, ids, name), Unshadowed(s, ids), NoRepeat(ids)
  PROVE  /\ Closest(s, ids, name) \in s.keys
         /\ Closest(s, ids, name).name = name
         /\ In(Closest(s, ids, name).tid, ids)
<1> DEFINE O == Owners(s, ids, name)
           top == CHOOSE i \in O : \A j \in O : j <= i
<1>1. PICK i \in O : TRUE
  BY DEF Exists
<1>2. PICK e \in s.keys : e.tid = ids[i] /\ e.name = name
  BY <1>1 DEF Owners
<1>3. i \in DOMAIN ids /\ i \in Nat
  BY <1>1 DEF Owners
<1>4. ASSUME NEW j \in O PROVE j = i
  <2>1. PICK f \in s.keys : f.tid = ids[j] /\ f.name = name
    BY DEF Owners
  <2>2. j \in DOMAIN ids
    BY DEF Owners
  <2>3. e = f
    BY <1>2, <1>3, <2>1, <2>2 DEF Unshadowed, In
  <2> QED
    BY <1>2, <1>3, <2>1, <2>2, <2>3 DEF NoRepeat
<1>5. top \in O
  <2>1. \E k \in O : \A j \in O : j <= k
    BY <1>1, <1>3, <1>4
  <2> QED
    BY <2>1
<1>6. top = i
  BY <1>4, <1>5
<1>7. Closest(s, ids, name) = CHOOSE f \in s.keys : f.tid = ids[top] /\ f.name = name
  BY DEF Closest
<1>8. /\ Closest(s, ids, name) \in s.keys
      /\ Closest(s, ids, name).tid = ids[i]
      /\ Closest(s, ids, name).name = name
  BY <1>2, <1>6, <1>7
<1> QED
  BY <1>3, <1>8 DEF In

\* When the name is not visible, GetKey enters it: what the store becomes.
LEMMA NewEntry ==
  ASSUME NEW s \in Stores, NEW ids \in Seq(Nat), Len(ids) > 0,
         NEW name \in Names, ~Exists(s, ids, name)
  PROVE  LET t == AfterGetKey(s, ids, name)
             e == [tid |-> ids[Len(ids)], name |-> name, key |-> Len(s.variables)]
         IN  /\ t \in Stores
             /\ t.keys = s.keys \cup {e}
             /\ e \in Entries
             /\ Len(t.variables) = Len(s.variables) + 1
<1> DEFINE e == [tid |-> ids[Len(ids)], name |-> name, key |-> Len(s.variables)]
           t == AfterGetKey(s, ids, name)
<1>1. e \in Entries
  BY DEF Entries, Stores
<1>2. t = Enter(s, ids[Len(ids)], name)
  BY DEF AfterGetKey
<1>3. t.keys = s.keys \cup {e} /\ t.variables = Append(s.variables, "int")
  BY <1>2 DEF Enter
<1>4. t \in Stores
  <2>1. Append(s.variables, "int") \in Seq(Variants) /\ Len(s.variables) \in Nat
    BY DEF Stores, Variants
  <2>2. s.keys \cup {e} \in SUBSET Entries
    BY <1>1 DEF Stores
  <2>3. s.capacity \in Nat /\ s.block \in Nat
    BY DEF Stores
  <2> QED
    BY <1>2, <2>1, <2>2, <2>3 DEF Stores, Enter
<1>5. s.variables \in Seq(Variants)
  BY DEF Stores
<1>6. Len(t.variables) = Len(s.variables) + 1
  BY <1>3, <1>5
<1> QED
  BY <1>1, <1>3, <1>4, <1>6

\* A thread of an enclosing list is a thread of the inner one.
LEMMA EnclosesIn ==
  ASSUME NEW outer \in Seq(Nat), NEW inner \in Seq(Nat), NEW tid,
         Encloses(outer, inner), In(tid, outer)
  PROVE  In(tid, inner)
<1>1. PICK i \in DOMAIN outer : outer[i] = tid
  BY DEF In
<1>2. i \in DOMAIN inner /\ inner[i] = tid
  BY <1>1 DEF Encloses
<1> QED
  BY <1>2 DEF In

\* A use may share a key that one use has brought to all who hold it.
LEMMA DistinctAdd ==
  ASSUME NEW us, NEW new, Distinct(us), NEW w \in us \cup {new}, w.key = new.key,
         \A u \in us \cup {new} :
           u.key = new.key => u.name = new.name /\ Encloses(w.ids, u.ids)
  PROVE  Distinct(us \cup {new})
<1> SUFFICES ASSUME NEW u \in us \cup {new}, NEW v \in us \cup {new}, u.key = v.key
             PROVE  /\ u.name = v.name
                    /\ \E x \in us \cup {new} :
                         /\ x.key = u.key
                         /\ Encloses(x.ids, u.ids) /\ Encloses(x.ids, v.ids)
  BY ZenonT(60) DEF Distinct
<1>1. CASE u.key = new.key
  BY <1>1
<1>2. CASE u.key # new.key
  BY <1>2 DEF Distinct
<1> QED
  BY <1>1, <1>2

\* One GetKey keeps the store coherent, and gives a name that the same or an
\* enclosing thread resolved before the key it had then.
LEMMA GetKeyCoherent ==
  ASSUME NEW s, NEW ids, NEW cur, NEW us, NEW name \in Names,
         Coherent(s, ids, cur, us), Len(ids) > 0
  PROVE  /\ Coherent(AfterGetKey(s, ids, name), ids, cur, us \cup {Use(s, ids, name)})
         /\ GetKey(s, ids, name) < Len(AfterGetKey(s, ids, name).variables)
         /\ GetKey(s, ids, name) \in Nat
         /\ Agree(us, {Use(s, ids, name)})
<1> DEFINE new == Use(s, ids, name)
           t == AfterGetKey(s, ids, name)
           k == GetKey(s, ids, name)
<1> USE DEF Coherent
<1>1. s \in Stores /\ ids \in Seq(Nat) /\ cur \in Nat /\ us \subseteq Uses
  BY DEF Typed
<1>2. /\ Len(s.variables) \in Nat /\ Len(ids) \in Nat
      /\ DOMAIN ids = 1..Len(ids) /\ Len(ids) \in DOMAIN ids
  BY <1>1 DEF Stores
<1>3. new = [ids |-> ids, name |-> name, key |-> k]
  BY DEF Use
<1>4. Encloses(ids, ids)
  BY <1>2 DEF Encloses
<1>5. CASE Exists(s, ids, name)
  <2> DEFINE c == Closest(s, ids, name)
  <2>1. c \in s.keys /\ c.name = name /\ In(c.tid, ids)
    BY <1>1, <1>5, ClosestIsVisible
  <2>2. t = s /\ k = c.key
    BY <1>5 DEF AfterGetKey, GetKey
  <2>3. c.key \in Nat /\ c.key < Len(s.variables)
    BY <1>1, <2>1 DEF Stores, Entries, KeysInRange
  <2>4. Typed(s, ids, cur, us \cup {new})
    BY <1>1, <1>3, <2>2, <2>3 DEF Typed, Uses
  <2>5. OldIds(s, ids, cur, us \cup {new})
    BY <1>1, <1>3 DEF OldIds
  <2>6. KeysInRange(s, us \cup {new})
    BY <1>3, <2>2, <2>3 DEF KeysInRange
  <2>7. EntriesOfUses(s, us \cup {new})
    BY <1>3, <2>1, <2>2 DEF EntriesOfUses, UniqueKeys
  <2>8. UsesHaveEntries(s, ids, us \cup {new})
    BY <1>3, <2>1, <2>2 DEF UsesHaveEntries
  <2>9. Distinct(us \cup {new})
    <3>1. \A u \in us : u.key = k => u.name = name
      BY <2>1, <2>2 DEF EntriesOfUses
    <3>2. PICK w \in us : /\ w.key = k /\ Innermost(w.ids) = c.tid
                          /\ \A u \in us : u.key = k => Encloses(w.ids, u.ids)
      BY <2>1, <2>2 DEF Homes
    <3>3. Encloses(w.ids, ids)
      BY <2>1, <3>2 DEF Paths
    <3>4. /\ new.key = k /\ new.name = name /\ new.ids = ids
          /\ \A u \in us \cup {new} : u.key = k =>
               u.name = name /\ Encloses(w.ids, u.ids)
      BY <1>3, <3>1, <3>2, <3>3
    <3> HIDE DEF new, k
    <3> QED
      BY <3>2, <3>4, DistinctAdd
  <2>10. \A u \in us : Encloses(u.ids, ids) /\ u.name = name => u.key = k
    <3> SUFFICES ASSUME NEW u \in us, Encloses(u.ids, ids), u.name = name
                 PROVE  u.key = c.key
      BY <2>2
    <3>1. PICK e \in s.keys : e.name = name /\ e.key = u.key /\ In(e.tid, u.ids)
      BY DEF UsesHaveEntries
    <3>2. u.ids \in Seq(Nat)
      BY <1>1 DEF Uses
    <3>3. In(e.tid, ids)
      BY <1>1, <3>1, <3>2, EnclosesIn
    <3>4. e = c
      BY <2>1, <3>1, <3>3 DEF Unshadowed
    <3> QED
      BY <3>1, <3>4
  <2>11. Homes(s, us \cup {new})
    <3> SUFFICES ASSUME NEW e \in s.keys
                 PROVE  \E w \in us \cup {new} :
                          /\ w.key = e.key /\ Innermost(w.ids) = e.tid
                          /\ \A u \in us \cup {new} : u.key = e.key => Encloses(w.ids, u.ids)
      BY DEF Homes
    <3>1. PICK w \in us : /\ w.key = e.key /\ Innermost(w.ids) = e.tid
                          /\ \A u \in us : u.key = e.key => Encloses(w.ids, u.ids)
      BY DEF Homes
    <3>2. ASSUME k = e.key PROVE Encloses(w.ids, ids)
      BY <2>1, <2>2, <3>1, <3>2 DEF UniqueKeys, Paths
    <3> QED
      BY <1>3, <3>1, <3>2
  <2>12. Paths(ids, us \cup {new})
    BY <1>3, <1>4 DEF Paths
  <2> QED
    BY <1>3, <2>2, <2>3, <2>4, <2>5, <2>6, <2>7, <2>8, <2>9, <2>10, <2>11, <2>12 DEF Agree
<1>6. CASE ~Exists(s, ids, name)
  <2> DEFINE e == [tid |-> ids[Len(ids)], name |-> name, key |-> Len(s.variables)]
  <2>1. /\ t \in Stores /\ t.keys = s.keys \cup {e} /\ e \in Entries
        /\ Len(t.variables) = Len(s.variables) + 1
    BY <1>1, <1>6, NewEntry
  <2>2. k = Len(s.variables) /\ k \in Nat /\ k < Len(t.variables)
    BY <1>2, <1>6, <2>1 DEF GetKey
  <2>3. e.tid = ids[Len(ids)] /\ e.name = name /\ e.key = k
    BY <2>2
  <2>4. \A f \in s.keys : f.name = name => ~In(f.tid, ids)
    BY <1>6 DEF Exists, Owners, In
  <2>5. In(e.tid, ids)
    BY <1>2, <2>3 DEF In
  <2>6. Typed(t, ids, cur, us \cup {new})
    BY <1>1, <1>3, <2>1, <2>2 DEF Typed, Uses
  <2>7. OldIds(t, ids, cur, us \cup {new})
    BY <1>1, <1>2, <1>3, <2>1, <2>3, SMTT(40) DEF OldIds
  <2>8. KeysInRange(t, us \cup {new})
    <3>1. \A f \in s.keys : f.key \in Nat /\ f.key < Len(s.variables)
      BY <1>1 DEF KeysInRange, Stores, Entries
    <3>2. \A u \in us : u.key \in Nat /\ u.key < Len(s.variables)
      BY <1>1 DEF KeysInRange, Uses
    <3> QED
      BY <1>2, <1>3, <2>1, <2>2, <2>3, <3>1, <3>2 DEF KeysInRange
  <2>9. UniqueKeys(t)
    <3>1. \A f \in s.keys : f.key # k
      BY <1>1, <1>2, <2>2 DEF KeysInRange, Stores, Entries
    <3> QED
      BY <2>1, <2>3, <3>1 DEF UniqueKeys
  <2>10. Unshadowed(t, ids)
    BY <2>1, <2>3, <2>4 DEF Unshadowed
  <2>11. \A u \in us : u.key # k
    BY <1>1, <1>2, <2>2 DEF KeysInRange, Uses
  <2>12. \A f \in s.keys : f.key # k
    BY <1>1, <1>2, <2>2 DEF KeysInRange, Stores, Entries
  <2>13. EntriesOfUses(t, us \cup {new})
    BY <1>3, <2>1, <2>3, <2>5, <2>11, <2>12 DEF EntriesOfUses
  <2>14. UsesHaveEntries(t, ids, us \cup {new})
    BY <1>3, <2>1, <2>3, <2>5 DEF UsesHaveEntries
  <2>15. Distinct(us \cup {new})
    <3>1. /\ new.key = k /\ new.name = name /\ new.ids = ids
          /\ \A u \in us \cup {new} : u.key = k =>
               u.name = name /\ Encloses(new.ids, u.ids)
      BY <1>3, <1>4, <2>11
    <3> HIDE DEF new, k
    <3> QED
      BY <3>1, DistinctAdd
  <2>16. \A u \in us : Encloses(u.ids, ids) => u.name # name
    <3> SUFFICES ASSUME NEW u \in us, Encloses(u.ids, ids), u.name = name
                 PROVE  FALSE
      OBVIOUS
    <3>1. PICK f \in s.keys : f.name = name /\ In(f.tid, u.ids)
      BY DEF UsesHaveEntries
    <3>2. u.ids \in Seq(Nat)
      BY <1>1 DEF Uses
    <3>3. In(f.tid, ids)
      BY <1>1, <3>1, <3>2, EnclosesIn
    <3> QED
      BY <2>4, <3>1, <3>3
  <2>17. Homes(t, us \cup {new})
    <3>1. new.key = e.key /\ Innermost(new.ids) = e.tid
      BY <1>3, <2>3 DEF Innermost
    <3>2. \A u \in us \cup {new} : u.key = e.key => Encloses(new.ids, u.ids)
      BY <1>3, <1>4, <2>3, <2>11
    <3>3. \A f \in s.keys : \E w \in us :
            /\ w.key = f.key /\ Innermost(w.ids) = f.tid
            /\ \A u \in us \cup {new} : u.key = f.key => Encloses(w.ids, u.ids)
      BY <1>3, <2>12 DEF Homes
    <3>4. t.keys = s.keys \cup {e}
      BY <2>1
    <3> HIDE DEF new, e, t
    <3> QED
      BY <3>1, <3>2, <3>3, <3>4 DEF Homes
  <2>18. Paths(ids, us \cup {new})
    BY <1>3, <1>4 DEF Paths
  <2> QED
    BY <1>3, <2>2, <2>6, <2>7, <2>8, <2>9, <2>10, <2>13, <2>14, <2>15, <2>16, <2>17, <2>18
       DEF Agree
<1> QED
  BY <1>5, <1>6

\* Updating an element keeps a sequence's type and length.
LEMMA UpdateSeq ==
  ASSUME NEW S, NEW q \in Seq(S), NEW i \in Nat, NEW v \in S
  PROVE  [q EXCEPT ![i] = v] \in Seq(S) /\ Len([q EXCEPT ![i] = v]) = Len(q)
<1> DEFINE r == [q EXCEPT ![i] = v]
<1>1. Len(q) \in Nat /\ q \in [1..Len(q) -> S]
  OBVIOUS
<1>2. r \in [1..Len(q) -> S]
  BY <1>1
<1> HIDE DEF r
<1>3. r \in Seq(S) /\ Len(r) = Len(q)
  BY <1>1, <1>2
<1> QED
  BY <1>3 DEF r

\* Writing a value to a variable moves no key.
LEMMA SetCoherent ==
  ASSUME NEW s, NEW ids, NEW cur, NEW us, NEW key \in Nat, NEW value \in Variants,
         Coherent(s, ids, cur, us)
  PROVE  Coherent(Set(s, key, value), ids, cur, us)
<1> DEFINE t == Set(s, key, value)
<1>1. s \in Stores
  BY DEF Coherent, Typed
<1>2. /\ t = [s EXCEPT !.variables = [s.variables EXCEPT ![key + 1] = value]]
  BY DEF Set
<1>3. t.keys = s.keys /\ t.variables = [s.variables EXCEPT ![key + 1] = value]
  BY <1>1, <1>2 DEF Stores
<1>4. t \in Stores /\ Len(t.variables) = Len(s.variables)
  <2> DEFINE values == [s.variables EXCEPT ![key + 1] = value]
  <2>1. s.variables \in Seq(Variants)
    BY <1>1 DEF Stores
  <2>2. values \in Seq(Variants) /\ Len(values) = Len(s.variables)
    <3> DEFINE q == s.variables
               i == key + 1
    <3>1. q \in Seq(Variants) /\ i \in Nat
      BY <2>1
    <3> HIDE DEF q, i
    <3>2. [q EXCEPT ![i] = value] \in Seq(Variants) /\ Len([q EXCEPT ![i] = value]) = Len(q)
      BY <3>1, UpdateSeq
    <3> QED
      BY <3>2 DEF q, i
  <2> HIDE DEF values
  <2>3. [s EXCEPT !.variables = values] \in Stores
    BY <1>1, <2>2 DEF Stores
  <2> QED
    BY <1>2, <1>3, <2>2, <2>3 DEF values
<1> QED
  BY <1>3, <1>4 DEF Coherent, Typed, OldIds, KeysInRange, UniqueKeys, Unshadowed,
                    EntriesOfUses, UsesHaveEntries, Homes

\* A fresh thread id has no entry and belongs to no earlier use.
LEMMA PushCoherent ==
  ASSUME NEW s, NEW ids, NEW cur, NEW us, Coherent(s, ids, cur, us)
  PROVE  Coherent(s, Append(ids, cur), cur + 1, us)
<1> DEFINE new == Append(ids, cur)
<1> USE DEF Coherent
<1>1. s \in Stores /\ ids \in Seq(Nat) /\ cur \in Nat /\ us \subseteq Uses
  BY DEF Typed
<1>2. /\ new \in Seq(Nat) /\ Len(new) = Len(ids) + 1 /\ Len(ids) \in Nat
      /\ new[Len(ids) + 1] = cur
      /\ \A i \in DOMAIN ids : new[i] = ids[i]
      /\ DOMAIN ids = 1..Len(ids) /\ DOMAIN new = 1..(Len(ids) + 1)
  BY <1>1
<1> HIDE DEF new
<1>3. Typed(s, new, cur + 1, us)
  BY <1>1, <1>2 DEF Typed
<1>4. \A u \in us : u.ids \in Seq(Nat) /\ Len(u.ids) \in Nat
  BY <1>1 DEF Uses
<1>5. \A e \in s.keys : e.tid \in Nat
  BY <1>1 DEF Stores, Entries
<1>6. \A i \in DOMAIN ids : ids[i] \in Nat /\ ids[i] < cur
  BY <1>1 DEF OldIds
<1>7. OldIds(s, new, cur + 1, us)
  <2>1. \A i \in DOMAIN new : new[i] < cur + 1
    BY <1>1, <1>2, <1>6, SMTT(40)
  <2>2. \A e \in s.keys : e.tid < cur + 1
    BY <1>1, <1>5 DEF OldIds
  <2>3. ASSUME NEW u \in us
        PROVE  Len(u.ids) > 0 /\ \A i \in DOMAIN u.ids : u.ids[i] < cur + 1
    BY <1>1, <1>4 DEF OldIds
  <2> QED
    BY <2>1, <2>2, <2>3 DEF OldIds
<1>8. NoRepeat(new)
  BY <1>1, <1>2, <1>6, SMTT(40) DEF NoRepeat
<1>9. \A e \in s.keys : In(e.tid, new) => In(e.tid, ids)
  BY <1>1, <1>2, <1>5 DEF In, OldIds
<1>10. Unshadowed(s, new)
  BY <1>9 DEF Unshadowed
<1>11. ASSUME NEW u \in us, Encloses(u.ids, new) PROVE Encloses(u.ids, ids)
  <2>1. /\ Len(u.ids) \in Nat /\ DOMAIN u.ids = 1..Len(u.ids)
        /\ \A i \in DOMAIN u.ids : u.ids[i] \in Nat /\ u.ids[i] < cur
    BY <1>4 DEF OldIds
  <2>2. Len(u.ids) # Len(ids) + 1
    BY <1>1, <1>2, <1>11, <2>1 DEF Encloses
  <2>3. Len(u.ids) <= Len(ids)
    BY <1>2, <1>11, <2>1, <2>2 DEF Encloses
  <2> QED
    BY <1>2, <1>11, <2>1, <2>3 DEF Encloses
<1>12. UsesHaveEntries(s, new, us)
  BY <1>11 DEF UsesHaveEntries
<1>13. Paths(new, us)
  <2> SUFFICES ASSUME NEW u \in us, In(Innermost(u.ids), new) PROVE Encloses(u.ids, new)
    BY DEF Paths
  <2>1. /\ Len(u.ids) \in Nat /\ Len(u.ids) > 0 /\ DOMAIN u.ids = 1..Len(u.ids)
        /\ Innermost(u.ids) \in Nat /\ Innermost(u.ids) < cur
    BY <1>4 DEF OldIds, Innermost
  <2>2. In(Innermost(u.ids), ids)
    BY <1>1, <1>2, <2>1, SMTT(40) DEF In
  <2>3. Encloses(u.ids, ids)
    BY <2>2 DEF Paths
  <2> QED
    BY <1>2, <2>1, <2>3 DEF Encloses
<1> QED
  BY <1>3, <1>7, <1>8, <1>10, <1>12, <1>13 DEF new

\* Back in the enclosing thread nothing new is visible.
LEMMA PopCoherent ==
  ASSUME NEW s, NEW ids, NEW cur, NEW us, Coherent(s, ids, cur, us), Len(ids) > 1
  PROVE  /\ Coherent(s, SubSeq(ids, 1, Len(ids) - 1), cur, us)
         /\ Len(SubSeq(ids, 1, Len(ids) - 1)) > 0
<1> DEFINE outer == SubSeq(ids, 1, Len(ids) - 1)
<1> USE DEF Coherent
<1>1. ids \in Seq(Nat) /\ us \subseteq Uses
  BY DEF Typed
<1>2. /\ outer \in Seq(Nat) /\ Len(outer) = Len(ids) - 1 /\ Len(ids) \in Nat
      /\ DOMAIN outer = 1..(Len(ids) - 1) /\ DOMAIN ids = 1..Len(ids)
      /\ \A i \in DOMAIN outer : outer[i] = ids[i]
  BY <1>1
<1> HIDE DEF outer
<1>3. Typed(s, outer, cur, us) /\ OldIds(s, outer, cur, us) /\ NoRepeat(outer)
  BY <1>2 DEF Typed, OldIds, NoRepeat
<1>4. Unshadowed(s, outer)
  BY <1>2 DEF Unshadowed, In
<1>5. ASSUME NEW u \in us, Encloses(u.ids, outer) PROVE Encloses(u.ids, ids)
  <2>1. Len(u.ids) \in Nat /\ DOMAIN u.ids = 1..Len(u.ids)
    BY <1>1 DEF Uses
  <2> QED
    BY <1>2, <1>5, <2>1 DEF Encloses
<1>6. UsesHaveEntries(s, outer, us)
  BY <1>5 DEF UsesHaveEntries
<1>7. Paths(outer, us)
  <2> SUFFICES ASSUME NEW u \in us, In(Innermost(u.ids), outer) PROVE Encloses(u.ids, outer)
    BY DEF Paths
  <2>1. Len(u.ids) \in Nat /\ Len(u.ids) > 0 /\ DOMAIN u.ids = 1..Len(u.ids)
    BY <1>1 DEF OldIds, Uses
  <2>2. PICK i \in DOMAIN outer : outer[i] = Innermost(u.ids)
    BY DEF In
  <2>3. i \in DOMAIN ids /\ ids[i] = Innermost(u.ids)
    BY <1>2, <2>2
  <2>4. Encloses(u.ids, ids)
    BY <2>3 DEF Paths, In
  <2>5. Len(u.ids) \in DOMAIN ids /\ ids[Len(u.ids)] = ids[i]
    BY <1>2, <2>1, <2>3, <2>4, SMTT(40) DEF Encloses, Innermost
  <2>6. Len(u.ids) = i
    BY <2>3, <2>5 DEF NoRepeat
  <2> QED
    BY <1>2, <2>1, <2>2, <2>4, <2>6 DEF Encloses
<1> QED
  BY <1>2, <1>3, <1>4, <1>6, <1>7 DEF outer

\* ClearKeys between two parses forgets the names and keeps the variables.
LEMMA ClearCoherent ==
  ASSUME NEW s, NEW ids, NEW cur, NEW us, Coherent(s, ids, cur, us)
  PROVE  Coherent(ClearKeys(s), << >>, cur, us)
<1> USE DEF Coherent
<1>1. s \in Stores /\ us \subseteq Uses
  BY DEF Typed
<1>2. /\ ClearKeys(s) \in Stores /\ ClearKeys(s).keys = {}
      /\ ClearKeys(s).variables = s.variables
  BY <1>1 DEF ClearKeys, Stores
<1>3. ASSUME NEW u \in us PROVE ~Encloses(u.ids, << >>)
  <2>1. Len(u.ids) \in Nat /\ Len(u.ids) > 0
    BY <1>1 DEF OldIds, Uses
  <2> QED
    BY <2>1 DEF Encloses
<1>4. Typed(ClearKeys(s), << >>, cur, us) /\ OldIds(ClearKeys(s), << >>, cur, us)
  BY <1>2 DEF Typed, OldIds
<1>5. NoRepeat(<< >>)
  BY DEF NoRepeat
<1> QED
  BY <1>2, <1>3, <1>4, <1>5 DEF KeysInRange, UniqueKeys, Unshadowed, EntriesOfUses,
                                UsesHaveEntries, Homes, Paths, In

\* An optional name.
LEMMA OptionalCoherent ==
  ASSUME NEW s, NEW ids, NEW cur, NEW us, NEW name \in Names \cup {NoName},
         Coherent(s, ids, cur, us), Len(ids) > 0
  PROVE  /\ Coherent(StoreAfter(s, ids, name), ids, cur, us \cup UseOf(s, ids, name))
         /\ Agree(us, UseOf(s, ids, name))
<1>1. CASE name = NoName
  BY <1>1 DEF StoreAfter, UseOf, Agree
<1>2. CASE name # NoName
  <2>1. name \in Names
    BY <1>2
  <2>2. /\ StoreAfter(s, ids, name) = AfterGetKey(s, ids, name)
        /\ UseOf(s, ids, name) = {Use(s, ids, name)}
    BY <1>2 DEF StoreAfter, UseOf
  <2> QED
    BY <2>1, <2>2, GetKeyCoherent
<1> QED
  BY <1>1, <1>2

\* All the names one instruction resolves.
LEMMA ResolveCoherent ==
  ASSUME NEW first \in Names \cup {NoName}, NEW second \in Names \cup {NoName},
         IInv, status = "parsing", Resolve(first, second)
  PROVE  /\ Coherent(store', thread_ids, current_thread_id_, uses')
         /\ Agree(uses, uses' \ uses)
<1> DEFINE middle == StoreAfter(store, thread_ids, first)
           mid    == uses \cup UseOf(store, thread_ids, first)
<1>1. Coherent(store, thread_ids, current_thread_id_, uses) /\ Len(thread_ids) > 0
  BY DEF IInv, PathShape
<1>2. /\ Coherent(middle, thread_ids, current_thread_id_, mid)
      /\ Agree(uses, UseOf(store, thread_ids, first))
  BY <1>1, OptionalCoherent
<1>3. /\ store' = StoreAfter(middle, thread_ids, second)
      /\ uses' = mid \cup UseOf(middle, thread_ids, second)
  BY DEF Resolve
<1>4. /\ Coherent(store', thread_ids, current_thread_id_, uses')
      /\ Agree(mid, UseOf(middle, thread_ids, second))
  <2> HIDE DEF middle, mid
  <2> QED
    BY <1>1, <1>2, <1>3, OptionalCoherent
<1> QED
  BY <1>2, <1>3, <1>4 DEF Agree

\* The globals at the head of a parse.
LEMMA BeginCoherent ==
  ASSUME NEW mutex \in MutexNames \cup {NoName}, IInv, BeginParse(mutex)
  PROVE  /\ Coherent(store', thread_ids', current_thread_id_', uses')
         /\ Agree(uses, uses' \ uses)
         /\ Len(thread_ids') > 0
<1> DEFINE cur  == current_thread_id_
           ids  == <<cur>>
           s1   == AfterGetKey(store, ids, AbsolutePath)
           u1   == uses \cup {Use(store, ids, AbsolutePath)}
           path == WithAbsolutePath(store, ids)
<1>1. ids = Append(<< >>, cur) /\ Len(ids) = 1 /\ thread_ids = << >>
  BY DEF BeginParse, IInv, PathShape
<1>2. Coherent(store, ids, cur + 1, uses)
  BY <1>1, PushCoherent DEF IInv
<1>3. /\ Coherent(s1, ids, cur + 1, u1)
      /\ GetKey(store, ids, AbsolutePath) \in Nat
      /\ Agree(uses, {Use(store, ids, AbsolutePath)})
  <2>1. AbsolutePath \in Names /\ Len(ids) > 0
    BY <1>1, NamesAssumption
  <2> HIDE DEF ids
  <2> QED
    BY <1>2, <2>1, GetKeyCoherent
<1>4. Coherent(path, ids, cur + 1, u1)
  <2>1. "string" \in Variants
    BY DEF Variants
  <2>2. path = Set(s1, GetKey(store, ids, AbsolutePath), "string")
    BY DEF WithAbsolutePath
  <2> HIDE DEF s1, u1, path
  <2> QED
    BY <1>3, <2>1, <2>2, SetCoherent
<1>5. /\ store' = WithMutex(path, ids, mutex) /\ thread_ids' = ids
      /\ current_thread_id_' = cur + 1
      /\ uses' = u1 \cup UseOf(path, ids, mutex)
  BY DEF BeginParse
<1>6. mutex \in Names \cup {NoName}
  BY NamesAssumption
<1>7. /\ Coherent(StoreAfter(path, ids, mutex), ids, cur + 1, uses')
      /\ Agree(u1, UseOf(path, ids, mutex))
  <2> HIDE DEF path, u1
  <2> QED
    BY <1>1, <1>4, <1>5, <1>6, OptionalCoherent
<1>8. Coherent(store', ids, cur + 1, uses')
  <2> HIDE DEF path, u1
  <2>1. CASE mutex = NoName
    BY <1>5, <1>7, <2>1 DEF WithMutex, StoreAfter
  <2>2. CASE mutex # NoName
    <3>1. mutex \in Names /\ StoreAfter(path, ids, mutex) = AfterGetKey(path, ids, mutex)
      BY <1>6, <2>2 DEF StoreAfter
    <3>2. GetKey(path, ids, mutex) \in Nat
      <4>1. Len(ids) > 0
        BY <1>1
      <4> HIDE DEF ids
      <4> QED
        BY <1>4, <3>1, <4>1, GetKeyCoherent
    <3>3. "mutex" \in Variants
      BY DEF Variants
    <3>4. store' = Set(AfterGetKey(path, ids, mutex), GetKey(path, ids, mutex), "mutex")
      BY <1>5, <2>2 DEF WithMutex
    <3> QED
      BY <1>7, <3>1, <3>2, <3>3, <3>4, SetCoherent
  <2> QED
    BY <2>1, <2>2
<1>9. Agree(uses, uses' \ uses)
  BY <1>3, <1>5, <1>7 DEF Agree
<1> QED
  BY <1>1, <1>5, <1>8, <1>9

-----------------------------------------------------------------------------
(* The invariant *)

\* Nothing is entered before the first parse.
LEMMA InitIInv == Init => IInv
<1> SUFFICES ASSUME Init PROVE IInv
  OBVIOUS
<1>1. /\ EmptyStore \in Stores /\ EmptyStore.keys = {}
  BY DEF EmptyStore, Stores
<1>2. Coherent(EmptyStore, << >>, 0, {})
  BY <1>1 DEF Coherent, Typed, OldIds, NoRepeat, KeysInRange, UniqueKeys, Unshadowed,
              EntriesOfUses, UsesHaveEntries, Homes, Paths, Distinct
<1> QED
  BY <1>2 DEF Init, IInv, PathShape

\* Every step of the parser keeps IInv, and the names it resolves agree with
\* the ones resolved before.
LEMMA StepIInv ==
  ASSUME IInv, [Next]_vars
  PROVE  IInv' /\ Agree(uses, uses' \ uses)
<1> USE DEF PathShape
<1>1. ASSUME NEW mutex \in MutexNames \cup {NoName}, BeginParse(mutex)
      PROVE  IInv' /\ Agree(uses, uses' \ uses)
  BY <1>1, BeginCoherent DEF IInv, BeginParse
<1>2. CASE EnterThread
  <2>1. Coherent(store', thread_ids', current_thread_id_', uses')
    BY <1>2, PushCoherent DEF IInv, EnterThread
  <2>2. Len(thread_ids') > 0
    BY <1>2 DEF IInv, EnterThread, Coherent, Typed
  <2> QED
    BY <1>2, <2>1, <2>2 DEF IInv, EnterThread, Agree
<1>3. CASE LeaveThread
  <2>1. Coherent(store', thread_ids', current_thread_id_', uses') /\ Len(thread_ids') > 0
    BY <1>3, PopCoherent DEF IInv, LeaveThread
  <2> QED
    BY <1>3, <2>1 DEF IInv, LeaveThread, Agree
<1>4. ASSUME NEW first \in Names \cup {NoName}, NEW second \in Names \cup {NoName},
             status = "parsing", Resolve(first, second), locks' \in SUBSET Locks,
             UNCHANGED <<thread_ids, current_thread_id_, status>>
      PROVE  IInv' /\ Agree(uses, uses' \ uses)
  BY <1>4, ResolveCoherent DEF IInv
<1>5. ASSUME NEW name \in Names, CreateFileInstruction(name)
      PROVE  IInv' /\ Agree(uses, uses' \ uses)
  BY <1>4, <1>5 DEF CreateFileInstruction, IInv
<1>6. ASSUME NEW output_fd \in Names \cup {NoName}, NEW input \in Names \cup {NoName},
             CreateOpenFile(output_fd, input)
      PROVE  IInv' /\ Agree(uses, uses' \ uses)
  BY <1>4, <1>6 DEF CreateOpenFile, IInv
<1>7. ASSUME NEW list_name \in Names, NEW item_name \in Names,
             CreateIteratingSet(list_name, item_name)
      PROVE  IInv' /\ Agree(uses, uses' \ uses)
  BY <1>4, <1>7 DEF CreateIteratingSet, IInv
<1>8. ASSUME NEW name \in Names, CreateLock(name)
      PROVE  IInv' /\ Agree(uses, uses' \ uses)
  <2> DEFINE key == GetKey(store, thread_ids, name)
             l == [ptr |-> GetPointer(store, key), null |-> Get(store, key) # "mutex"]
  <2>1. key \in Nat
    BY <1>8, GetKeyCoherent DEF CreateLock, IInv
  <2>2. store.block \in Nat
    BY DEF IInv, Coherent, Typed, Stores
  <2> HIDE DEF key
  <2>3. l \in Locks
    BY <2>1, <2>2 DEF Locks, GetPointer
  <2>4. locks' \in SUBSET Locks
    BY <1>8, <2>3 DEF CreateLock, IInv, key
  <2> QED
    BY <1>4, <1>8, <2>4 DEF CreateLock
<1>9. ASSUME NEW name \in Names, UnknownLock(name)
      PROVE  IInv' /\ Agree(uses, uses' \ uses)
  BY <1>9 DEF UnknownLock, IInv, Agree
<1>10. CASE InvalidInstruction
  BY <1>10 DEF InvalidInstruction, IInv, Agree
<1>11. CASE EndParse
  BY <1>11, ClearCoherent DEF EndParse, IInv, Agree
<1>12. CASE UNCHANGED vars
  BY <1>12 DEF vars, IInv, Agree
<1> QED
  BY <1>1, <1>2, <1>3, <1>5, <1>6, <1>7, <1>8, <1>9, <1>10, <1>11, <1>12 DEF Next

\* The whole coherence of names, threads and keys holds in every state.
THEOREM Coherence == Spec => []IInv
<1>1. IInv /\ [Next]_vars => IInv'
  BY StepIInv
<1> QED
  BY InitIInv, <1>1, PTL DEF Spec

-----------------------------------------------------------------------------
(* The properties *)

\* Every static member keeps its type.
THEOREM TypeCorrect == Spec => []TypeOK
<1>1. IInv => TypeOK
  BY DEF IInv, Coherent, Typed, PathShape, TypeOK
<1> QED
  BY Coherence, <1>1, PTL

\* No instruction is ever left with a key outside variables_.
THEOREM KeysAlwaysValid == Spec => []KeysValid
<1>1. IInv => KeysValid
  BY DEF IInv, Coherent, KeysInRange, KeysValid
<1> QED
  BY Coherence, <1>1, PTL

\* Different names and different parses never share a variable, and threads
\* do only through one that encloses them and has used it.
THEOREM VariablesNeverAlias == Spec => []NoAliasing
<1>1. IInv => NoAliasing
  BY DEF IInv, Coherent, Distinct, NoAliasing
<1> QED
  BY Coherence, <1>1, PTL

\* A name has at most one entry along the threads being parsed.
THEOREM NamesNeverShadowed == Spec => []NoShadowing
<1>1. IInv => NoShadowing
  BY DEF IInv, Coherent, Unshadowed, In, NoShadowing
<1> QED
  BY Coherence, <1>1, PTL

\* A name keeps its variable in its thread and in every thread below it.
THEOREM NamesKeepTheirVariable == Spec => InnerSeesOuter
<1>1. IInv /\ [Next]_vars =>
        [\A u \in uses, v \in uses' \ uses :
           Encloses(u.ids, v.ids) /\ u.name = v.name => u.key = v.key]_vars
  BY StepIInv DEF Agree
<1> QED
  BY Coherence, <1>1, PTL DEF Spec, InnerSeesOuter
=============================================================================
