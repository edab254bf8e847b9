-------------------------- MODULE MCProgramRunner --------------------------
(* Instances of ProgramRunner for TLC. *)
EXTENDS ProgramRunner, TLC

CONSTANTS a, b, z

\* Two independent milestones and the task that integrates them.
Fork == (a :> {}) @@ (b :> {}) @@ (z :> {a, b})
\* One milestone after the other.
Chain == (a :> {}) @@ (b :> {a}) @@ (z :> {b})
Pair == (a :> {}) @@ (z :> {a})
=============================================================================
