---------------------------- MODULE MCPageCache -----------------------------
(* PageCache on two pages, with fewer pages than are wanted. *)
EXTENDS PageCache

AllModes == {"NL", "PR", "EX"}

Symmetry == Permutations(Users) \cup Permutations(Pages) \cup Permutations(Keys)
=============================================================================
