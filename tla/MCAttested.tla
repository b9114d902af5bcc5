----------------------------- MODULE MCAttested -----------------------------
(* Instances of Attested for TLC: tasks are interchangeable model values      *)
(* unless some of them list the catalogue.                                    *)
EXTENDS AttestedRefinement, TLC

Symmetry == Permutations(Requests)

=============================================================================
