--------------------------- MODULE MCRegressions ---------------------------
(* TLC instance of Regressions: two interchangeable regressions. *)
EXTENDS Regressions, TLC

KeySymmetry == Permutations(Keys)

=============================================================================
