--------------------------- MODULE MCChildManager ---------------------------
(***************************************************************************)
(* The instance of ChildManager for TLC: one permanent and one transient   *)
(* child.                                                                  *)
(***************************************************************************)
EXTENDS ChildManager

TwoKinds == [c \in Children |-> IF c = "store" THEN "permanent" ELSE "transient"]
=============================================================================
