---------------------------- MODULE MCAlgorithms ----------------------------
(* A small instance of Algorithms: letters of two cases, words of 16. *)
EXTENDS Algorithms

LowerCase == [c \in Letters |-> IF c = "A" THEN "a" ELSE c]
=============================================================================
