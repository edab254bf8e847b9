---------------------------- MODULE ProgramOrder ----------------------------
(***************************************************************************)
(* What an autonomous program promises: a task is started, once, when the  *)
(* work of all the tasks it depends on has been verified.                  *)
(***************************************************************************)
CONSTANTS Tasks, Deps

VARIABLE status

Init == status = [t \in Tasks |-> "waiting"]

Start(t) ==
  /\ status[t] = "waiting"
  /\ \A d \in Deps[t] : status[d] = "verified"
  /\ status' = [status EXCEPT ![t] = "started"]

Verify(t) ==
  /\ status[t] = "started"
  /\ status' = [status EXCEPT ![t] = "verified"]

Next == \E t \in Tasks : Start(t) \/ Verify(t)

Spec == Init /\ [][Next]_status
=============================================================================
