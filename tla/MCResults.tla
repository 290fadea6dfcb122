------------------------------ MODULE MCResults ------------------------------
(***************************************************************************)
(* Histograms of 3 bins with an int of at most 7, and units that change at *)
(* 4 and 12 (duration) or 6 (bandwidth): small stand-ins for 20 bins, 2^31 *)
(* and 10^7 ns, so that every unit, and a bin size that does not fit, are  *)
(* met.  One instruction with all vectors of up to 3 samples, and all      *)
(* trees of two levels below a root, of at most two children each, with a  *)
(* few vectors, the empty one of an instruction that never ran included.   *)
(***************************************************************************)
EXTENDS Results

MCUnits ==
  [duration  |-> <<[upTo |-> 4, factor |-> 1], [upTo |-> 12, factor |-> 3],
                   [upTo |-> 0, factor |-> 5]>>,
   bandwidth |-> <<[upTo |-> 6, factor |-> 1], [upTo |-> 0, factor |-> 4]>>]

Leaf(d) == [kind |-> "leaf", samples |-> [duration |-> d], subs |-> <<>>]
ReadWrite(d, b) ==
  [kind |-> "rw", samples |-> [duration |-> d, bandwidth |-> b], subs |-> <<>>]
Node(k, d, subs) == [kind |-> k, samples |-> [duration |-> d], subs |-> subs]

Vectors == UNION {[1..n -> {0, 2, 5, 8, 11, 14, 30}] : n \in 1..3}

Leaves == {Leaf(<<>>), Leaf(<<1, 5, 2>>), ReadWrite(<<4, 1>>, <<9, 7>>)}
Inner(children) ==
  {Node(k, <<6>>, s) : k \in {"group", "fork"}, s \in children}
Level1 == Leaves \cup Inner({<<a>> : a \in Leaves} \cup {<<a, b>> : a, b \in Leaves})
Trees == Level1 \cup Inner({<<a, b>> : a, b \in Level1})

MCPrograms == {ReadWrite(v, v) : v \in Vectors} \cup Trees
=============================================================================
