----------------------------- MODULE MCCatalog -----------------------------
(***************************************************************************)
(* Catalog for TLC: one brand, one fitment, a category with a child, and   *)
(* the definition of a product that refers to all of them.                 *)
(***************************************************************************)
EXTENDS Catalog

CONSTANTS b1, f1, c1, c2, g1

MCBelow == [c \in Categories |-> IF c = c1 THEN {c2} ELSE {}]

MCDefinitions ==
  {[good |-> g1, brand |-> b1, fits |-> {f1}, cats |-> {c1, c2}]}

=============================================================================
