---------------------------- MODULE MCDumpEngine ----------------------------
(* Small instances of DumpEngine: three calls on two processes. *)
EXTENDS DumpEngine, TLC

CONSTANTS r1, r2, r3, m1, m2

\* r1 and r2 dump the same process; r3 another one.
TwoAndOne == r1 :> 1 @@ r2 :> 1 @@ r3 :> 2
OnePerProcess == r1 :> 1 @@ r2 :> 2 @@ r3 :> 3
SamePid == [r \in {r1, r2, r3} |-> 1]
\* The processes share a stripe of the lock, or do not.
OwnStripes == [p \in {1, 2, 3} |-> p]
SharedStripe == [p \in {1, 2, 3} |-> 1]
\* Backends.
NativeBackends == r1 :> "corex" @@ r2 :> "corex" @@ r3 :> "gcore"
DotNetBackends == [r \in {r1, r2, r3} |-> "dotnet"]
\* One call without a mask between two with different ones.
MixedMasks == r1 :> m1 @@ r2 :> NoMask @@ r3 :> m2
TwoMasks == r1 :> m1 @@ r2 :> m2 @@ r3 :> m2
NoMasks == [r \in {r1, r2, r3} |-> NoMask]
Yes == [r \in {r1, r2, r3} |-> TRUE]
No == [r \in {r1, r2, r3} |-> FALSE]
OnlyThird == r1 :> FALSE @@ r2 :> FALSE @@ r3 :> TRUE
MixedNames == r1 :> TRUE @@ r2 :> TRUE @@ r3 :> FALSE
=============================================================================
