----------------------------- MODULE MCServices -----------------------------
(***************************************************************************)
(* What must keep moving (the credential pool, the Telegram operator, the  *)
(* senders of model requests, a program whose supervisor is killed and     *)
(* replaced), which share no variable here, checked by one run with their  *)
(* fairness: an initial state picks the one that moves, the others stay as *)
(* they begin.                                                             *)
(***************************************************************************)
EXTENDS MCCredentialPool, TelegramControl, ModelRequests

CONSTANTS c1, m1, m2, z, Supervisors, Mortal, NoOne
VARIABLES
  part,
  fstate, owner, lapsed, jstate, settled, made, merged, left, locks, chained,
  taken, lease, doing, stage, listed, verdict, failed, pending, orders

MCForeign == {2}
MCKinds == {[c \in Callers |-> IF c = c1 THEN "gateway" ELSE "bash"]}

\* Two milestones and the task that integrates them; no other runner, no command.
Tasks == {m1, m2, z}
Program == INSTANCE ProgramRunner WITH
  Terminal <- z, Deps <- (m1 :> {}) @@ (m2 :> {}) @@ (z :> {m1, m2}),
  Outsiders <- {}, Workers <- 2, Killable <- Mortal, Commands <- {}, MaxAsks <- 0,
  finished <- settled, built <- made, pc <- stage, asks <- orders
programVars ==
  <<fstate, owner, lapsed, jstate, settled, made, merged, left, locks, chained,
    taken, lease, doing, stage, listed, verdict, failed, pending, orders>>

Init ==
  /\ part \in {"pool", "poll", "requests", "program"}
  /\ PoolInit /\ PollInit /\ RequestInit /\ Program!Init
Next ==
  /\ UNCHANGED part
  /\ \/ part = "pool" /\ PoolNext /\ UNCHANGED <<pollVars, requestVars, programVars>>
     \/ part = "poll" /\ PollNext /\ UNCHANGED <<poolVars, requestVars, programVars>>
     \/ part = "requests" /\ RequestNext /\ UNCHANGED <<poolVars, pollVars, programVars>>
     \/ part = "program" /\ Program!Next /\ UNCHANGED <<poolVars, pollVars, requestVars>>
\* The fairness of each module, for the part that moves.
ProgramFairness ==
  LET Of(A) == part = "program" /\ A
  IN /\ \A s \in Supervisors :
          /\ WF_programVars(Of(Program!Turn(s)))
          /\ WF_programVars(Of(\E t \in Tasks : Program!Work(s, t)))
     /\ WF_programVars(Of(\E t \in Tasks : Program!LapseJob(t)))
     /\ WF_programVars(Of(Program!LapseRun))
     /\ WF_programVars(Of(\E s \in Supervisors : Program!Claim(s)))
Fairness ==
  /\ \A u \in Clients : WF_poolVars(part = "pool" /\ Serve(u))
  /\ \A p \in Probers : WF_poolVars(part = "pool" /\ CheckLane(p))
  /\ \A l \in Lanes : /\ WF_poolVars(part = "pool" /\ CooldownEnds(l))
                      /\ WF_poolVars(part = "pool" /\ TokensReset(l))
  /\ \A h \in Hosts : /\ WF_pollVars(part = "poll" /\ Steps(h))
                      /\ WF_pollVars(part = "poll" /\ Restart(h))
  /\ \A c \in Callers : /\ WF_requestVars(part = "requests" /\ Handling(c))
                        /\ WF_requestVars(part = "requests" /\ Close(c))
  /\ ProgramFairness
Spec == Init /\ [][Next]_<<part, poolVars, pollVars, requestVars, programVars>> /\ Fairness

\* A running program does not poll for ever (ProgramSettles of ProgramRunner;
\* program.py:104-207).
ProgramSettles == Program!ProgramSettles
=============================================================================
