-------------------------------- MODULE Lists --------------------------------
(***************************************************************************)
(* What the loops leave that walk a list and take elements off it          *)
(* (list_for_each_safe and list_remove, std::list::erase).                 *)
(***************************************************************************)
EXTENDS Naturals, Sequences, FiniteSets

(* What is left of a list when only the places in I stay on it.            *)
Kept(q, I) ==
  [j \in 1..Cardinality(I) |-> q[CHOOSE i \in I : Cardinality({k \in I : k <= i}) = j]]

=============================================================================
