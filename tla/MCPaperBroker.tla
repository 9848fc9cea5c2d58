--------------------------- MODULE MCPaperBroker ---------------------------
(* TLC instance of PaperBroker: two interchangeable threads. *)
EXTENDS PaperBroker, TLC

CallerSymmetry == Permutations(Callers)
=============================================================================
