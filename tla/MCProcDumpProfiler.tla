------------------------- MODULE MCProcDumpProfiler -------------------------
(* Small instances of ProcDumpProfiler. *)
EXTENDS ProcDumpProfiler

CONSTANTS a, b, o1
=============================================================================
