--------------------------- MODULE MCFamilyCache ----------------------------
(* Two caches and three families, two of them of the same name. *)
EXTENDS FamilyCache

CONSTANTS a1, a2, b, c1, c2

MCNameOf == [o \in Objects |-> IF o = b THEN "b" ELSE "a"]
=============================================================================
