------------------------------- MODULE Tables --------------------------------
(***************************************************************************)
(* A table that is given in parts.                                         *)
(***************************************************************************)
EXTENDS Naturals, Sequences

(* The entry of a name is that of the part that has it; no two have.       *)
Join(parts) ==
  [c \in UNION {DOMAIN parts[i] : i \in DOMAIN parts} |->
     parts[CHOOSE i \in DOMAIN parts : c \in DOMAIN parts[i]][c]]

=============================================================================
