--------------------------- MODULE MCInstructionSet ---------------------------
(***************************************************************************)
(* Trees for TLC: a root with two instructions from a menu, each with at   *)
(* most one instruction below it.                                          *)
(***************************************************************************)
EXTENDS InstructionSet

Default == [kind |-> "leaf", repeat |-> 1, kids |-> <<>>, list |-> 0,
            order |-> "sequential", reseeding |-> "once", free_policy |-> "keep"]

Leaf(r) == <<[Default EXCEPT !.repeat = r]>>
MemAlloc(f) == <<[Default EXCEPT !.kind = "mem_alloc", !.repeat = 2, !.free_policy = f]>>
Set(r) == <<[Default EXCEPT !.kind = "set", !.repeat = r, !.kids = <<2>>], Default>>
Iterate(r, l) == <<[Default EXCEPT !.kind = "iterate", !.repeat = r, !.list = l, !.kids = <<2>>], Default>>
Random(r, s) == <<[Iterate(r, 2)[1] EXCEPT !.order = "random", !.reseeding = s], Default>>

Menu ==
  {Leaf(r) : r \in 0..2}
    \cup {MemAlloc(f) : f \in {"keep", "every_period", "last_period"}}
    \cup {Set(2), <<[Default EXCEPT !.kind = "not_iterable", !.kids = <<2>>], Default>>}
    \cup {Iterate(1, l) : l \in 0..2}
    \cup {Random(r, s) : r \in 1..2, s \in {"once", "each_round_of_cycles", "each_cycle"}}

Roots ==
  {[Default EXCEPT !.kind = "set", !.repeat = r] : r \in 1..2}
    \cup {[Default EXCEPT !.kind = "iterate", !.list = 2]}

\* The instructions below a node moved to their place in the tree.
Shifted(t, by) ==
  [n \in DOMAIN t |-> [t[n] EXCEPT !.kids = [k \in DOMAIN @ |-> @[k] + by]]]

Tree(root, a, b) ==
  <<[root EXCEPT !.kids = <<2, Len(a) + 2>>]>> \o Shifted(a, 1) \o Shifted(b, Len(a) + 1)

\* How often RunSingle of a leaf is called: the bound on the length of a run.
Executions(p) ==
  LET E[n \in DOMAIN p] ==
        p[n].repeat * (IF p[n].kind = "iterate" THEN p[n].list ELSE 1)
          * (IF p[n].kids = <<>> THEN 1
             ELSE FoldLeft(LAMBDA x, kid : x + E[kid], 0, p[n].kids))
  IN  E[1]

MaxExecutions == 8

MCPrograms ==
  {p \in {Tree(r, a, b) : r \in Roots, a \in Menu, b \in Menu} : Executions(p) <= MaxExecutions}

\* example/iterate_read_files.ditto on a directory of two files, with the
\* three instructions on each file as one.
IterateReadFiles == {Tree([Default EXCEPT !.kind = "set"], Leaf(1), Random(1, "once"))}
=============================================================================
