----------------------------- MODULE MCTracing -----------------------------
(* Small instances of Tracing. *)
EXTENDS Tracing

CONSTANTS m, t2, t3, s1, s2
=============================================================================
