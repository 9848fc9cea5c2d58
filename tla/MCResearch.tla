----------------------------- MODULE MCResearch -----------------------------
(* A book of two chunks, which can be left between two backtests and can answer    *)
(* twice under one name, with more parameters or fewer, beside a book of one chunk. *)
EXTENDS Research

MCChunks == <<2, 1>>
MCParameters == <<{1, 2}, {1}>>

=============================================================================
