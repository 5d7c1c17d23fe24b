----------------------------- MODULE MCRestrack -----------------------------
(* A small instance of Restrack. *)
EXTENDS Restrack

CONSTANTS t1, t2, b1, b2
=============================================================================
