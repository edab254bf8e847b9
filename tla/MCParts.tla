------------------------------ MODULE MCParts ------------------------------
(***************************************************************************)
(* The modules whose state no other module shares, checked by one run: an  *)
(* initial state picks the part that moves, the others stay as they begin. *)
(***************************************************************************)
EXTENDS Kanban, TelegramControl, ModelRequests, Admission, TaskTree, AgentLoop

CONSTANTS c1, w3, j1, j2, ca, k1, k2

VARIABLE part

Parts == {"board", "poll", "requests", "admission", "tree", "loop"}

MCForeign == {2}
MCKinds == {[c \in Callers |-> IF c = c1 THEN "gateway" ELSE "bash"]}
MCDuty == [w \in Workers |-> IF w = w3 THEN j2 ELSE j1]
MCKeyOf == [c \in Candidates |-> IF c = ca THEN k1 ELSE k2]
MCNeed == [c \in Candidates |-> IF c = ca THEN 0 ELSE 1]
MCConcurrent == [c \in Candidates |-> 1]
MCMakes == [a \in Numbers |-> Makers]

Init ==
  /\ part \in Parts
  /\ BoardInit /\ PollInit /\ RequestInit /\ AdmissionInit /\ TreeInit /\ LoopInit
  /\ part # "tree" => published      \* what is left open matters to its own part
  /\ part # "loop" => diff = 0

Next ==
  /\ UNCHANGED part
  /\ \/ /\ part = "board" /\ BoardNext
        /\ UNCHANGED <<pollVars, requestVars, admissionVars, treeVars, loopVars>>
     \/ /\ part = "poll" /\ PollNext
        /\ UNCHANGED <<boardVars, requestVars, admissionVars, treeVars, loopVars>>
     \/ /\ part = "requests" /\ RequestNext
        /\ UNCHANGED <<boardVars, pollVars, admissionVars, treeVars, loopVars>>
     \/ /\ part = "admission" /\ AdmissionNext
        /\ UNCHANGED <<boardVars, pollVars, requestVars, treeVars, loopVars>>
     \/ /\ part = "tree" /\ TreeNext
        /\ UNCHANGED <<boardVars, pollVars, requestVars, admissionVars, loopVars>>
     \/ /\ part = "loop" /\ LoopNext
        /\ UNCHANGED <<boardVars, pollVars, requestVars, admissionVars, treeVars>>

Spec ==
  Init /\ [][Next]_<<part, boardVars, pollVars, requestVars, admissionVars, treeVars, loopVars>>
=============================================================================
