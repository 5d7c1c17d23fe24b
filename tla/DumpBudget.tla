----------------------------- MODULE DumpBudget -----------------------------
(***************************************************************************)
(* What one monitoring session promises about the dumps it takes, with no  *)
(* threads, locks or flags: at most one dump is being taken at a time, a   *)
(* dump is begun only while the session is not stopped and its budget of   *)
(* Limit dumps (-n) is not used up, and a stop lets at most the dump that  *)
(* is already under way be counted.                                        *)
(***************************************************************************)
EXTENDS Naturals

CONSTANT Limit          \* Config::dump_count, at least 1

VARIABLES
  collected,            \* dumps counted so far
  writing,              \* a dump is being taken
  stopped               \* the session was asked to stop

budgetVars == <<collected, writing, stopped>>

Init ==
  /\ collected = 0
  /\ writing = FALSE
  /\ stopped = FALSE

\* A trigger obtains the right to take the next dump.
Begin ==
  /\ ~writing
  /\ ~stopped
  /\ collected < Limit
  /\ writing' = TRUE
  /\ UNCHANGED <<collected, stopped>>

\* The dump under way is complete and counted.
Commit ==
  /\ writing
  /\ collected' = collected + 1
  /\ writing' = FALSE
  /\ UNCHANGED stopped

\* The dump under way failed, was cancelled or was found superfluous.
Abandon ==
  /\ writing
  /\ writing' = FALSE
  /\ UNCHANGED <<collected, stopped>>

Stop ==
  /\ ~stopped
  /\ stopped' = TRUE
  /\ UNCHANGED <<collected, writing>>

Next == Begin \/ Commit \/ Abandon \/ Stop

Spec == Init /\ [][Next]_budgetVars
=============================================================================
