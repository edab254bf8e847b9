------------------------ MODULE JobLifecycle_proofs ------------------------
(***************************************************************************)
(* Proofs about JobLifecycle, for any number of controllers, any budget    *)
(* and any bounds.                                                         *)
(***************************************************************************)
EXTENDS JobLifecycle, SequenceTheorems, WellFoundedInduction, TLAPS

-----------------------------------------------------------------------------
(* Helpers *)

\* Overwriting an entry of a sequence keeps it a sequence of the same length.
LEMMA OverwriteSeq ==
  ASSUME NEW S, NEW s \in Seq(S), NEW i, NEW e \in S
  PROVE  [s EXCEPT ![i] = e] \in Seq(S) /\ Len([s EXCEPT ![i] = e]) = Len(s)
<1>1. s \in [1..Len(s) -> S] /\ Len(s) \in Nat
  BY LenProperties
<1>2. CASE i \in 1..Len(s)
  BY <1>2, ExceptSeq
<1>3. CASE i \notin 1..Len(s)
  <2>1. [s EXCEPT ![i] = e] = s
    BY <1>1, <1>3
  <2> QED BY <2>1
<1> QED BY <1>2, <1>3

\* CloseRunning changes statuses only: no attempt appears or disappears.
LEMMA CloseRunningLength ==
  ASSUME attempts \in Seq(AttemptStatus), NEW status \in AttemptStatus
  PROVE  /\ CloseRunning(status) \in Seq(AttemptStatus)
         /\ Len(CloseRunning(status)) = Len(attempts)
  BY LenProperties DEF CloseRunning

\* latest_ready_attempt_id finds the last READY attempt when there is one.
LEMMA LatestReadyFinds ==
  ASSUME attempts \in Seq(AttemptStatus)
  PROVE  /\ LatestReady \in Nat
         /\ LatestReady # 0 => /\ LatestReady \in ReadyAttempts
                               /\ \A m \in ReadyAttempts : m <= LatestReady
<1>1. DOMAIN attempts = 1..Len(attempts) /\ Len(attempts) \in Nat
  BY LenProperties
<1>2. ReadyAttempts \subseteq 1..Len(attempts)
  BY <1>1 DEF ReadyAttempts
<1>3. CASE ReadyAttempts = {}
  BY <1>3 DEF LatestReady
<1>4. CASE ReadyAttempts # {}
  <2>1. \E n \in ReadyAttempts : \A m \in ReadyAttempts : m <= n
    <3> DEFINE D == {Len(attempts) - n : n \in ReadyAttempts}
    <3>1. D \subseteq Nat /\ D # {}
      BY <1>1, <1>2, <1>4
    <3>2. PICK x \in D : \A y \in D : <<y, x>> \notin OpToRel(<, Nat)
      BY <3>1, NatLessThanWellFounded, WFMin
    <3>3. PICK n \in ReadyAttempts : x = Len(attempts) - n
      OBVIOUS
    <3>4. ASSUME NEW m \in ReadyAttempts PROVE m <= n
      <4>1. Len(attempts) - m \in D
        OBVIOUS
      <4>2. ~(Len(attempts) - m < x)
        BY <4>1, <3>1, <3>2 DEF OpToRel
      <4> QED BY <4>2, <3>3, <1>1, <1>2
    <3> QED BY <3>4
  <2>2. /\ LatestReady \in ReadyAttempts
        /\ \A m \in ReadyAttempts : m <= LatestReady
    BY <2>1, <1>4 DEF LatestReady
  <2> QED BY <2>2, <1>1, <1>2
<1> QED BY <1>3, <1>4
-----------------------------------------------------------------------------
(* Typing *)

\* Every step of the system keeps every variable in its state space.
LEMMA TypeStep ==
  ASSUME IInv, [Next]_vars
  PROVE  TypeOK'
<1> USE ControllersAssumption, ModesAssumption, BudgetAssumption,
        BoundsAssumption DEF IInv
<1>n. CASE UNCHANGED vars
  BY <1>n DEF TypeOK, vars, jobVars, treeVars, leaseVars, ctlVars, opVars, bounds
<1>1. ASSUME NEW c \in Controllers, RecoverList(c) PROVE TypeOK'
  BY <1>1 DEF TypeOK, JobState, Stages, Leased, Attempting, OpStages,
       RecoverList, Goto, Recoverable, LeaseLapsed, Others, jobVars,
       treeVars, leaseVars, opVars, bounds
<1>2. ASSUME NEW c \in Controllers, RecoverJob(c) PROVE TypeOK'
  <2>1. attempts' \in Seq(AttemptStatus)
    BY <1>2, CloseRunningLength DEF TypeOK, AttemptStatus, RecoverJob
  <2>2. lapsed' \in BOOLEAN
    BY <1>2, Zenon DEF TypeOK, RecoverJob, leaseVars, treeVars
  <2> QED BY <1>2, <2>1, <2>2 DEF TypeOK, JobState, Stages, Leased,
       Attempting, OpStages, RecoverJob, Goto, RecoveredState, treeVars,
       opVars, bounds
<1>3. ASSUME NEW c \in Controllers, RecoverRest(c) PROVE TypeOK'
  <2>1. lapsed' \in BOOLEAN
    BY <1>3, Zenon DEF TypeOK, RecoverRest, leaseVars, treeVars
  <2> QED BY <1>3, <2>1 DEF TypeOK, JobState, Stages, Leased, Attempting,
       OpStages, RecoverRest, Goto, LeaseLapsed, jobVars, treeVars,
       leaseVars, opVars, bounds
<1>4. ASSUME NEW c \in Controllers, Acquire(c) PROVE TypeOK'
  <2>1. lapsed' \in BOOLEAN
    BY <1>4, Zenon DEF TypeOK, Acquire, leaseVars, treeVars
  <2> QED BY <1>4, <2>1 DEF TypeOK, JobState, Stages, Leased, Attempting,
       OpStages, Acquire, Goto, jobVars, treeVars, opVars, bounds
<1>5. ASSUME NEW c \in Controllers, Busy(c) PROVE TypeOK'
  BY <1>5 DEF TypeOK, JobState, Stages, Leased, Attempting, OpStages, Busy,
       Goto, treeVars, leaseVars, opVars, bounds
<1>6. ASSUME NEW c \in Controllers, Load(c) PROVE TypeOK'
  BY <1>6 DEF TypeOK, JobState, Stages, Leased, Attempting, OpStages, Load,
       Goto, jobVars, treeVars, leaseVars, opVars, bounds
<1>7. ASSUME NEW c \in Controllers, Prepare(c) PROVE TypeOK'
  <2>1. prepared' \in BOOLEAN /\ sound' \in BOOLEAN
    BY <1>7, Zenon DEF TypeOK, Prepare
  <2>2. state' \in JobState
    BY <1>7 DEF TypeOK, Prepare
  <2>3. CycleAttempts \in Nat /\ Len(attempts) \in Nat
    BY LenProperties DEF TypeOK, CycleAttempts
  <2>4. /\ total' \in [Controllers -> Nat] /\ cycle' \in [Controllers -> Nat]
        /\ pc' \in [Controllers -> Stages]
    <3>1. CASE memo[c] \in {"ACCEPTED", "CANCELLED"}
      BY <1>7, <3>1 DEF TypeOK, Prepare, Goto, Stages, Leased
    <3>2. CASE memo[c] \notin {"ACCEPTED", "CANCELLED"}
      <4>1. /\ total' = [total EXCEPT ![c] = Len(attempts)]
            /\ cycle' = [cycle EXCEPT ![c] = CycleAttempts]
            /\ pc' = [pc EXCEPT ![c] = "loop"]
        BY <1>7, <3>2 DEF Prepare, Goto
      <4> QED BY <4>1, <2>3 DEF TypeOK, Stages, Leased
    <3> QED BY <3>1, <3>2
  <2>5. memo' \in [Controllers -> JobState]
    BY <1>7 DEF TypeOK, Prepare, JobState
  <2> QED
    BY <1>7, <2>1, <2>2, <2>4, <2>5
    DEF TypeOK, Prepare, leaseVars, opVars, bounds
<1>8. ASSUME NEW c \in Controllers, GiveUp(c) PROVE TypeOK'
  BY <1>8 DEF TypeOK, JobState, Stages, Leased, Attempting, OpStages,
       GiveUp, Goto, treeVars, leaseVars, opVars, bounds
<1>9. ASSUME NEW c \in Controllers, BlockCapability(c) PROVE TypeOK'
  BY <1>9 DEF TypeOK, JobState, Stages, Leased, Attempting, OpStages,
       BlockCapability, Goto, treeVars, leaseVars, opVars, bounds
<1>10. ASSUME NEW c \in Controllers, Dispatch(c) PROVE TypeOK'
  BY <1>10 DEF TypeOK, JobState, Stages, Leased, Attempting, OpStages,
       Dispatch, Goto, treeVars, leaseVars, opVars, bounds
<1>11. ASSUME NEW c \in Controllers, BeginAttempt(c) PROVE TypeOK'
  BY <1>11 DEF TypeOK, JobState, Stages, Leased, Attempting, OpStages,
       AttemptStatus, BeginAttempt, Goto, treeVars, leaseVars, opVars,
       bounds
<1>12. ASSUME NEW c \in Controllers, DuplicateAttempt(c) PROVE TypeOK'
  BY <1>12 DEF TypeOK, JobState, Stages, Leased, Attempting, OpStages,
       DuplicateAttempt, Goto, jobVars, treeVars, leaseVars, opVars, bounds
<1>13. ASSUME NEW c \in Controllers, ResourceBusy(c) PROVE TypeOK'
  <2>1. attempts' \in Seq(AttemptStatus)
    BY <1>13, OverwriteSeq DEF TypeOK, AttemptStatus, ResourceBusy,
         FinishAttempt
  <2> QED BY <1>13, <2>1 DEF TypeOK, JobState, Stages, Leased, Attempting,
       OpStages, ResourceBusy, Goto, treeVars, leaseVars, opVars, bounds
<1>14. ASSUME NEW c \in Controllers, Execute(c) PROVE TypeOK'
  <2>1. sound' \in BOOLEAN
    BY <1>14, Zenon DEF TypeOK, Execute, leaseVars, treeVars
  <2> QED BY <1>14, <2>1 DEF TypeOK, JobState, Stages, Leased, Attempting,
       OpStages, Execute, Goto, jobVars, leaseVars, opVars, bounds
<1>15. ASSUME NEW c \in Controllers, ExecutorFails(c) PROVE TypeOK'
  <2>1. attempts' \in Seq(AttemptStatus)
    BY <1>15, OverwriteSeq DEF TypeOK, AttemptStatus, ExecutorFails,
         FinishAttempt
  <2>2. sound' \in BOOLEAN
    BY <1>15, Zenon DEF TypeOK, ExecutorFails, leaseVars, treeVars
  <2> QED BY <1>15, <2>1, <2>2 DEF TypeOK, JobState, Stages, Leased,
       Attempting, OpStages, ExecutorFails, Goto, leaseVars, opVars, bounds
<1>16. ASSUME NEW c \in Controllers, ExecutorSucceeds(c) PROVE TypeOK'
  BY <1>16 DEF TypeOK, JobState, Stages, Leased, Attempting, OpStages,
       ExecutorSucceeds, Goto, treeVars, leaseVars, opVars, bounds
<1>17. ASSUME NEW c \in Controllers, VerifyPasses(c) PROVE TypeOK'
  <2>1. sound' \in BOOLEAN
    BY <1>17, Zenon DEF TypeOK, VerifyPasses, leaseVars, treeVars
  <2> QED BY <1>17, <2>1 DEF TypeOK, JobState, Stages, Leased, Attempting,
       OpStages, VerifyPasses, Goto, jobVars, leaseVars, opVars, bounds
<1>18. ASSUME NEW c \in Controllers, VerifyFails(c) PROVE TypeOK'
  <2>1. attempts' \in Seq(AttemptStatus)
    BY <1>18, OverwriteSeq DEF TypeOK, AttemptStatus, VerifyFails,
         FinishAttempt
  <2>2. sound' \in BOOLEAN
    BY <1>18, Zenon DEF TypeOK, VerifyFails, leaseVars, treeVars
  <2> QED BY <1>18, <2>1, <2>2 DEF TypeOK, JobState, Stages, Leased,
       Attempting, OpStages, VerifyFails, Goto, leaseVars, opVars, bounds
<1>19. ASSUME NEW c \in Controllers, StartReview(c) PROVE TypeOK'
  BY <1>19 DEF TypeOK, JobState, Stages, Leased, Attempting, OpStages,
       StartReview, Goto, treeVars, leaseVars, opVars, bounds
<1>20. ASSUME NEW c \in Controllers, ReviewRejects(c) PROVE TypeOK'
  <2>1. attempts' \in Seq(AttemptStatus)
    BY <1>20, OverwriteSeq DEF TypeOK, AttemptStatus, ReviewRejects,
         FinishAttempt
  <2> QED BY <1>20, <2>1 DEF TypeOK, JobState, Stages, Leased, Attempting,
       OpStages, ReviewRejects, Goto, treeVars, leaseVars, opVars, bounds
<1>21. ASSUME NEW c \in Controllers, FinishReady(c) PROVE TypeOK'
  <2>1. attempts' \in Seq(AttemptStatus)
    BY <1>21, OverwriteSeq DEF TypeOK, AttemptStatus, FinishReady,
         FinishAttempt
  <2> QED BY <1>21, <2>1 DEF TypeOK, JobState, Stages, Leased, Attempting,
       OpStages, FinishReady, Goto, treeVars, leaseVars, opVars, bounds
<1>22. ASSUME NEW c \in Controllers, Settle(c) PROVE TypeOK'
  BY <1>22 DEF TypeOK, JobState, Stages, Leased, Attempting, OpStages,
       Settle, Goto, treeVars, leaseVars, opVars, bounds
<1>23. ASSUME NEW c \in Controllers, Raise(c) PROVE TypeOK'
  BY <1>23 DEF TypeOK, JobState, Stages, Leased, Attempting, OpStages,
       Raise, Goto, jobVars, treeVars, leaseVars, opVars, bounds
<1>24. ASSUME NEW c \in Controllers, Release(c) PROVE TypeOK'
  <2>1. lapsed' \in BOOLEAN
    BY <1>24, Zenon DEF TypeOK, Release, leaseVars, treeVars
  <2> QED BY <1>24, <2>1 DEF TypeOK, JobState, Stages, Leased, Attempting,
       OpStages, Release, Goto, jobVars, treeVars, leaseVars, opVars, bounds
<1>25. ASSUME NEW c \in Controllers, Escape(c) PROVE TypeOK'
  BY <1>25 DEF TypeOK, JobState, Stages, Leased, Attempting, OpStages,
       Escape, Goto, treeVars, leaseVars, opVars, bounds
<1>26. ASSUME NEW c \in Controllers, Renew(c) PROVE TypeOK'
  <2>1. lapsed' \in BOOLEAN
    BY <1>26, Zenon DEF TypeOK, Renew, leaseVars, treeVars
  <2> QED BY <1>26, <2>1 DEF TypeOK, JobState, Stages, Leased, Attempting,
       OpStages, Renew, jobVars, treeVars, ctlVars, opVars, bounds
<1>27. ASSUME NEW c \in Controllers, Kill(c) PROVE TypeOK'
  BY <1>27 DEF TypeOK, JobState, Stages, Leased, Attempting, OpStages, Kill,
       Goto, jobVars, treeVars, leaseVars, opVars, bounds
<1>28. ASSUME NEW c \in Controllers, NEW m \in Modes, Pick(c, m) PROVE TypeOK'
  BY <1>28 DEF TypeOK, JobState, Stages, Leased, Attempting, OpStages, Pick,
       Goto, jobVars, treeVars, leaseVars, opVars, bounds
<1>29. ASSUME NEW text \in Texts, RejectRecord(text) PROVE TypeOK'
  <2>1. feedback' \in SUBSET (Nat \X (Texts \cup {"ACCEPT"})) /\ cycleStart' \in Nat
    BY <1>29, LatestReadyFinds, LenProperties DEF TypeOK, RecordFeedback,
         RejectRecord
  <2> QED BY <1>29, <2>1 DEF TypeOK, JobState, Stages, Leased, Attempting,
       OpStages, RejectRecord, Asks, treeVars, leaseVars, ctlVars
<1>30. CASE AcceptCheck
  BY <1>30 DEF TypeOK, JobState, Stages, Leased, Attempting, OpStages,
       AcceptCheck, Asks, jobVars, treeVars, leaseVars, ctlVars, bounds
<1>31. CASE AcceptCommit
  <2>1. built' \in BOOLEAN
    BY <1>31, Zenon DEF TypeOK, AcceptCommit, leaseVars, treeVars
  <2> QED BY <1>31, <2>1 DEF TypeOK, JobState, Stages, Leased, Attempting,
       OpStages, AcceptCommit, jobVars, treeVars, leaseVars, ctlVars, bounds
<1>32. CASE AcceptComplete
  <2>1. feedback' \in SUBSET (Nat \X (Texts \cup {"ACCEPT"})) /\ cycleStart' \in Nat /\ accepted' \in Nat
    BY <1>32, LatestReadyFinds, LenProperties DEF TypeOK, RecordFeedback,
         AcceptComplete
  <2> QED BY <1>32, <2>1 DEF TypeOK, JobState, Stages, Leased, Attempting,
       OpStages, AcceptComplete, EndOp, treeVars, leaseVars, ctlVars, bounds
<1>33. CASE RejectStore
  BY <1>33 DEF TypeOK, JobState, Stages, Leased, Attempting, OpStages,
       RejectStore, EndOp, treeVars, leaseVars, ctlVars, bounds
<1>34. CASE CancelAttempts
  <2>1. attempts' \in Seq(AttemptStatus)
    BY <1>34, CloseRunningLength DEF TypeOK, AttemptStatus, CancelAttempts
  <2> QED BY <1>34, <2>1 DEF TypeOK, JobState, Stages, Leased, Attempting,
       OpStages, CancelAttempts, Asks, treeVars, leaseVars, ctlVars, bounds
<1>35. CASE CancelStore
  BY <1>35 DEF TypeOK, JobState, Stages, Leased, Attempting, OpStages,
       CancelStore, EndOp, treeVars, leaseVars, ctlVars, bounds
<1>36. CASE ReverifyLoad
  BY <1>36 DEF TypeOK, JobState, Stages, Leased, Attempting, OpStages,
       ReverifyLoad, Asks, jobVars, treeVars, leaseVars, ctlVars, bounds
<1>37. CASE ReverifyVerify
  <2>1. sound' \in BOOLEAN
    BY <1>37, Zenon DEF TypeOK, ReverifyVerify, leaseVars, treeVars
  <2> QED BY <1>37, <2>1 DEF TypeOK, JobState, Stages, Leased, Attempting,
       OpStages, ReverifyVerify, jobVars, leaseVars, ctlVars, bounds
<1>38. CASE ReverifyMark
  <2>1. attempts' \in Seq(AttemptStatus)
    BY <1>38, OverwriteSeq DEF TypeOK, AttemptStatus, ReverifyMark
  <2> QED BY <1>38, <2>1 DEF TypeOK, JobState, Stages, Leased, Attempting,
       OpStages, ReverifyMark, treeVars, leaseVars, ctlVars, bounds
<1>39. CASE ReverifyStore
  BY <1>39 DEF TypeOK, JobState, Stages, Leased, Attempting, OpStages,
       ReverifyStore, EndOp, treeVars, leaseVars, ctlVars, bounds
<1>40. CASE CleanupLoad
  BY <1>40 DEF TypeOK, JobState, Stages, Leased, Attempting, OpStages,
       CleanupLoad, Asks, jobVars, treeVars, leaseVars, ctlVars, bounds
<1>41. CASE CleanupStore
  <2>1. prepared' \in BOOLEAN
    BY <1>41, Zenon DEF TypeOK, CleanupStore, leaseVars, treeVars
  <2>2. sound' \in BOOLEAN
    BY <1>41, Zenon DEF TypeOK, CleanupStore, leaseVars, treeVars
  <2> QED BY <1>41, <2>1, <2>2 DEF TypeOK, JobState, Stages, Leased,
       Attempting, OpStages, CleanupStore, EndOp, leaseVars, ctlVars, bounds
<1>42. CASE AbortOp
  BY <1>42 DEF TypeOK, JobState, Stages, Leased, Attempting, OpStages,
       AbortOp, EndOp, jobVars, treeVars, leaseVars, ctlVars, bounds
<1>43. CASE LapseDead
  <2>1. lapsed' \in BOOLEAN
    BY <1>43, Zenon DEF TypeOK, LapseDead, leaseVars, treeVars
  <2> QED BY <1>43, <2>1 DEF TypeOK, JobState, Stages, Leased, Attempting,
       OpStages, LapseDead, jobVars, treeVars, ctlVars, opVars, bounds
<1>44. CASE LapseStalled
  <2>1. lapsed' \in BOOLEAN
    BY <1>44, Zenon DEF TypeOK, LapseStalled, leaseVars, treeVars
  <2> QED BY <1>44, <2>1 DEF TypeOK, JobState, Stages, Leased, Attempting,
       OpStages, LapseStalled, jobVars, treeVars, ctlVars, opVars
<1> QED BY <1>n, <1>1, <1>2, <1>3, <1>4, <1>5, <1>6, <1>7, <1>8, <1>9,
     <1>10, <1>11, <1>12, <1>13, <1>14, <1>15, <1>16, <1>17, <1>18, <1>19,
     <1>20, <1>21, <1>22, <1>23, <1>24, <1>25, <1>26, <1>27, <1>28, <1>29,
     <1>30, <1>31, <1>32, <1>33, <1>34, <1>35, <1>36, <1>37, <1>38, <1>39,
     <1>40, <1>41, <1>42, <1>43, <1>44
     DEF Next, Recover, Take, Work, Attempt, Operator
-----------------------------------------------------------------------------
(* Counting attempts *)

\* What IInv says beyond types.
Counts == /\ cycleStart <= Len(attempts) /\ RetryBudget
          /\ CountersBehind /\ AttemptHasOneOwner

\* A step that starts no attempt: statuses may change, a cycle may begin, and
\* no controller enters the loop or an attempt with other counters.
Quiet ==
  /\ Len(attempts') = Len(attempts)
  /\ cycleStart' \in {cycleStart, Len(attempts)}
  /\ \A c \in Controllers : pc'[c] \in Counting =>
       /\ pc[c] \in Counting /\ total'[c] = total[c] /\ cycle'[c] = cycle[c]
       /\ pc'[c] = "dispatched" => cycle[c] < Budget
       /\ pc'[c] \in Attempting => pc[c] \in Attempting

\* Such a step keeps the counters behind the rows, whoever else is running.
LEMMA QuietKeepsCounts ==
  ASSUME IInv, TypeOK', Quiet
  PROVE  Counts'
<1> USE BudgetAssumption
<1>1. /\ Len(attempts) \in Nat /\ cycleStart \in Nat /\ cycleStart' \in Nat
      /\ total \in [Controllers -> Nat] /\ cycle \in [Controllers -> Nat]
  BY LenProperties DEF IInv, TypeOK
<1>2. cycleStart <= cycleStart' /\ cycleStart' <= Len(attempts')
  BY <1>1 DEF IInv, Quiet
<1>3. RetryBudget'
  BY <1>1, <1>2 DEF IInv, Quiet, RetryBudget
<1>4. CountersBehind'
  <2> SUFFICES ASSUME NEW c \in Controllers, pc'[c] \in Counting
               PROVE  /\ total'[c] <= Len(attempts')
                      /\ total'[c] <= cycleStart' + cycle'[c]
                      /\ pc'[c] = "dispatched" => cycle'[c] < Budget
    BY DEF CountersBehind
  <2>1. total[c] <= Len(attempts) /\ total[c] <= cycleStart + cycle[c]
    BY DEF IInv, CountersBehind, Quiet
  <2> QED BY <1>1, <1>2, <2>1 DEF Quiet
<1>5. AttemptHasOneOwner'
  <2> SUFFICES ASSUME NEW c \in Controllers, NEW d \in Controllers, c # d,
                      pc'[c] \in Attempting, pc'[d] \in Attempting
               PROVE  total'[c] # total'[d]
    BY DEF AttemptHasOneOwner
  <2> QED BY DEF IInv, AttemptHasOneOwner, Quiet, Counting
<1> QED BY <1>2, <1>3, <1>4, <1>5 DEF Counts

\* Only Prepare, which reads the counters, and BeginAttempt, which uses them,
\* need an argument of their own.
LEMMA CountsStep ==
  ASSUME IInv, TypeOK', [Next]_vars
  PROVE  Counts'
<1> USE DEF IInv
<1>n. CASE UNCHANGED vars
  BY <1>n DEF Counts, vars, jobVars, ctlVars, RetryBudget, CountersBehind,
     AttemptHasOneOwner
<1>1. ASSUME NEW c \in Controllers, RecoverList(c) PROVE Quiet
  BY <1>1 DEF Quiet, TypeOK, CountersBehind, Counting, Attempting,
       RecoverList, Goto, jobVars
<1>2. ASSUME NEW c \in Controllers, RecoverJob(c) PROVE Quiet
  <2>1. Len(attempts') = Len(attempts)
    BY <1>2, CloseRunningLength DEF TypeOK, AttemptStatus, RecoverJob
  <2>2. /\ pc[c] = "scanned" /\ pc' = [pc EXCEPT ![c] = "idle"]
        /\ UNCHANGED <<cycleStart, total, cycle>>
    BY <1>2 DEF RecoverJob, Goto, ctlVars
  <2> QED BY <2>1, <2>2 DEF Quiet, TypeOK, Counting, Attempting,
       CountersBehind
<1>3. ASSUME NEW c \in Controllers, RecoverRest(c) PROVE Quiet
  BY <1>3 DEF Quiet, TypeOK, CountersBehind, Counting, Attempting,
       RecoverRest, Goto, jobVars
<1>4. ASSUME NEW c \in Controllers, Acquire(c) PROVE Quiet
  BY <1>4 DEF Quiet, TypeOK, CountersBehind, Counting, Attempting, Acquire,
       Goto, jobVars
<1>5. ASSUME NEW c \in Controllers, Busy(c) PROVE Quiet
  BY <1>5 DEF Quiet, TypeOK, CountersBehind, Counting, Attempting, Busy,
       Goto
<1>6. ASSUME NEW c \in Controllers, Load(c) PROVE Quiet
  BY <1>6 DEF Quiet, TypeOK, CountersBehind, Counting, Attempting, Load,
       Goto, jobVars
<1>7. ASSUME NEW c \in Controllers, GiveUp(c) PROVE Quiet
  BY <1>7 DEF Quiet, TypeOK, CountersBehind, Counting, Attempting, GiveUp,
       Goto
<1>8. ASSUME NEW c \in Controllers, BlockCapability(c) PROVE Quiet
  BY <1>8 DEF Quiet, TypeOK, CountersBehind, Counting, Attempting,
       BlockCapability, Goto
<1>9. ASSUME NEW c \in Controllers, Dispatch(c) PROVE Quiet
  BY <1>9 DEF Quiet, TypeOK, CountersBehind, Counting, Attempting, Dispatch,
       Goto
<1>10. ASSUME NEW c \in Controllers, DuplicateAttempt(c) PROVE Quiet
  BY <1>10 DEF Quiet, TypeOK, CountersBehind, Counting, Attempting,
       DuplicateAttempt, Goto, jobVars
<1>11. ASSUME NEW c \in Controllers, ResourceBusy(c) PROVE Quiet
  <2>1. Len(attempts') = Len(attempts)
    BY <1>11, OverwriteSeq DEF TypeOK, AttemptStatus, ResourceBusy,
         FinishAttempt
  <2>2. /\ pc[c] = "executing" /\ pc' = [pc EXCEPT ![c] = "settling"]
        /\ UNCHANGED <<cycleStart, total, cycle>>
    BY <1>11 DEF ResourceBusy, Goto, ctlVars
  <2> QED BY <2>1, <2>2 DEF Quiet, TypeOK, Counting, Attempting,
       CountersBehind
<1>12. ASSUME NEW c \in Controllers, Execute(c) PROVE Quiet
  BY <1>12 DEF Quiet, TypeOK, CountersBehind, Counting, Attempting, Execute,
       Goto, jobVars
<1>13. ASSUME NEW c \in Controllers, ExecutorFails(c) PROVE Quiet
  <2>1. Len(attempts') = Len(attempts)
    BY <1>13, OverwriteSeq DEF TypeOK, AttemptStatus, ExecutorFails,
         FinishAttempt
  <2>2. /\ pc[c] = "executed" /\ pc' = [pc EXCEPT ![c] = "settling"]
        /\ UNCHANGED <<cycleStart, total, cycle>>
    BY <1>13 DEF ExecutorFails, Goto, ctlVars
  <2> QED BY <2>1, <2>2 DEF Quiet, TypeOK, Counting, Attempting,
       CountersBehind
<1>14. ASSUME NEW c \in Controllers, ExecutorSucceeds(c) PROVE Quiet
  BY <1>14 DEF Quiet, TypeOK, CountersBehind, Counting, Attempting,
       ExecutorSucceeds, Goto
<1>15. ASSUME NEW c \in Controllers, VerifyPasses(c) PROVE Quiet
  BY <1>15 DEF Quiet, TypeOK, CountersBehind, Counting, Attempting,
       VerifyPasses, Goto, jobVars
<1>16. ASSUME NEW c \in Controllers, VerifyFails(c) PROVE Quiet
  <2>1. Len(attempts') = Len(attempts)
    BY <1>16, OverwriteSeq DEF TypeOK, AttemptStatus, VerifyFails,
         FinishAttempt
  <2>2. /\ pc[c] = "verifying" /\ pc' = [pc EXCEPT ![c] = "settling"]
        /\ UNCHANGED <<cycleStart, total, cycle>>
    BY <1>16 DEF VerifyFails, Goto, ctlVars
  <2> QED BY <2>1, <2>2 DEF Quiet, TypeOK, Counting, Attempting,
       CountersBehind
<1>17. ASSUME NEW c \in Controllers, StartReview(c) PROVE Quiet
  BY <1>17 DEF Quiet, TypeOK, CountersBehind, Counting, Attempting,
       StartReview, Goto
<1>18. ASSUME NEW c \in Controllers, ReviewRejects(c) PROVE Quiet
  <2>1. Len(attempts') = Len(attempts)
    BY <1>18, OverwriteSeq DEF TypeOK, AttemptStatus, ReviewRejects,
         FinishAttempt
  <2>2. /\ pc[c] = "reviewing" /\ pc' = [pc EXCEPT ![c] = "settling"]
        /\ UNCHANGED <<cycleStart, total, cycle>>
    BY <1>18 DEF ReviewRejects, Goto, ctlVars
  <2> QED BY <2>1, <2>2 DEF Quiet, TypeOK, Counting, Attempting,
       CountersBehind
<1>19. ASSUME NEW c \in Controllers, FinishReady(c) PROVE Quiet
  <2>1. Len(attempts') = Len(attempts)
    BY <1>19, OverwriteSeq DEF TypeOK, AttemptStatus, FinishReady,
         FinishAttempt
  <2>2. /\ pc[c] \in {"verified", "reviewing"} /\ pc' = [pc EXCEPT ![c] = "settling"]
        /\ UNCHANGED <<cycleStart, total, cycle>>
    BY <1>19 DEF FinishReady, Goto, ctlVars
  <2> QED BY <2>1, <2>2 DEF Quiet, TypeOK, Counting, Attempting,
       CountersBehind
<1>20. ASSUME NEW c \in Controllers, Settle(c) PROVE Quiet
  BY <1>20 DEF Quiet, TypeOK, CountersBehind, Counting, Attempting, Settle,
       Goto
<1>21. ASSUME NEW c \in Controllers, Raise(c) PROVE Quiet
  BY <1>21 DEF Quiet, TypeOK, CountersBehind, Counting, Attempting, Raise,
       Goto, jobVars
<1>22. ASSUME NEW c \in Controllers, Release(c) PROVE Quiet
  BY <1>22 DEF Quiet, TypeOK, CountersBehind, Counting, Attempting, Release,
       Goto, jobVars
<1>23. ASSUME NEW c \in Controllers, Escape(c) PROVE Quiet
  BY <1>23 DEF Quiet, TypeOK, CountersBehind, Counting, Attempting, Escape,
       Goto
<1>24. ASSUME NEW c \in Controllers, Renew(c) PROVE Quiet
  BY <1>24 DEF Quiet, TypeOK, CountersBehind, Counting, Attempting, Renew,
       jobVars, ctlVars
<1>25. ASSUME NEW c \in Controllers, Kill(c) PROVE Quiet
  BY <1>25 DEF Quiet, TypeOK, CountersBehind, Counting, Attempting, Kill,
       Goto, jobVars
<1>26. ASSUME NEW c \in Controllers, NEW m \in Modes, Pick(c, m) PROVE Quiet
  BY <1>26 DEF Quiet, TypeOK, CountersBehind, Counting, Attempting, Pick,
       Goto, jobVars
<1>27. ASSUME NEW text \in Texts, RejectRecord(text) PROVE Quiet
  BY <1>27 DEF Quiet, TypeOK, CountersBehind, Counting, Attempting,
       RejectRecord, RecordFeedback, ctlVars
<1>28. ASSUME AcceptCheck PROVE Quiet
  BY <1>28 DEF Quiet, TypeOK, CountersBehind, Counting, Attempting,
       AcceptCheck, jobVars, ctlVars
<1>29. ASSUME AcceptCommit PROVE Quiet
  BY <1>29 DEF Quiet, TypeOK, CountersBehind, Counting, Attempting,
       AcceptCommit, jobVars, ctlVars
<1>30. ASSUME AcceptComplete PROVE Quiet
  BY <1>30 DEF Quiet, TypeOK, CountersBehind, Counting, Attempting,
       AcceptComplete, RecordFeedback, ctlVars
<1>31. ASSUME RejectStore PROVE Quiet
  BY <1>31 DEF Quiet, TypeOK, CountersBehind, Counting, Attempting,
       RejectStore, ctlVars
<1>32. ASSUME CancelAttempts PROVE Quiet
  <2>1. Len(attempts') = Len(attempts)
    BY <1>32, CloseRunningLength DEF TypeOK, AttemptStatus, CancelAttempts
  <2>2. UNCHANGED <<cycleStart, pc, total, cycle>>
    BY <1>32 DEF CancelAttempts, ctlVars, ctlVars
  <2> QED BY <2>1, <2>2 DEF Quiet, TypeOK, Counting, Attempting,
       CountersBehind
<1>33. ASSUME CancelStore PROVE Quiet
  BY <1>33 DEF Quiet, TypeOK, CountersBehind, Counting, Attempting,
       CancelStore, ctlVars
<1>34. ASSUME ReverifyLoad PROVE Quiet
  BY <1>34 DEF Quiet, TypeOK, CountersBehind, Counting, Attempting,
       ReverifyLoad, jobVars, ctlVars
<1>35. ASSUME ReverifyVerify PROVE Quiet
  BY <1>35 DEF Quiet, TypeOK, CountersBehind, Counting, Attempting,
       ReverifyVerify, jobVars, ctlVars
<1>36. ASSUME ReverifyMark PROVE Quiet
  <2>1. Len(attempts') = Len(attempts)
    BY <1>36, OverwriteSeq DEF TypeOK, AttemptStatus, ReverifyMark
  <2>2. UNCHANGED <<cycleStart, pc, total, cycle>>
    BY <1>36 DEF ReverifyMark, ctlVars, ctlVars
  <2> QED BY <2>1, <2>2 DEF Quiet, TypeOK, Counting, Attempting,
       CountersBehind
<1>37. ASSUME ReverifyStore PROVE Quiet
  BY <1>37 DEF Quiet, TypeOK, CountersBehind, Counting, Attempting,
       ReverifyStore, ctlVars
<1>38. ASSUME CleanupLoad PROVE Quiet
  BY <1>38 DEF Quiet, TypeOK, CountersBehind, Counting, Attempting,
       CleanupLoad, jobVars, ctlVars
<1>39. ASSUME CleanupStore PROVE Quiet
  BY <1>39 DEF Quiet, TypeOK, CountersBehind, Counting, Attempting,
       CleanupStore, ctlVars
<1>40. ASSUME AbortOp PROVE Quiet
  BY <1>40 DEF Quiet, TypeOK, CountersBehind, Counting, Attempting, AbortOp,
       jobVars, ctlVars
<1>41. ASSUME LapseDead PROVE Quiet
  BY <1>41 DEF Quiet, TypeOK, CountersBehind, Counting, Attempting,
       LapseDead, jobVars, ctlVars
<1>42. ASSUME LapseStalled PROVE Quiet
  BY <1>42 DEF Quiet, TypeOK, CountersBehind, Counting, Attempting,
       LapseStalled, jobVars, ctlVars
<1>l. Len(attempts) \in Nat /\ cycleStart \in Nat
  BY LenProperties DEF TypeOK
<1>p. ASSUME NEW c \in Controllers, Prepare(c) PROVE Counts'
  <2>1. UNCHANGED <<attempts, cycleStart>>
    BY <1>p DEF Prepare
  <2>2. ASSUME NEW d \in Controllers, d # c
        PROVE  pc'[d] = pc[d] /\ total'[d] = total[d] /\ cycle'[d] = cycle[d]
    BY <1>p, <2>2 DEF Prepare, Goto, TypeOK
  <2>3. pc'[c] \notin Attempting /\ pc'[c] # "dispatched"
    BY <1>p DEF Prepare, Goto, TypeOK, Attempting
  <2>4. pc'[c] \in Counting => /\ total'[c] = Len(attempts)
                               /\ cycle'[c] = Len(attempts) - cycleStart
    BY <1>p DEF Prepare, Goto, TypeOK, Counting, Attempting, CycleAttempts
  <2>5. CountersBehind'
    <3> SUFFICES ASSUME NEW d \in Controllers, pc'[d] \in Counting
                 PROVE  /\ total'[d] <= Len(attempts')
                        /\ total'[d] <= cycleStart' + cycle'[d]
                        /\ pc'[d] = "dispatched" => cycle'[d] < Budget
      BY DEF CountersBehind
    <3>1. CASE d = c
      BY <3>1, <2>1, <2>3, <2>4, <1>l
    <3>2. CASE d # c
      BY <3>2, <2>1, <2>2 DEF CountersBehind
    <3> QED BY <3>1, <3>2
  <2>6. AttemptHasOneOwner'
    BY <2>2, <2>3 DEF AttemptHasOneOwner
  <2> QED BY <2>1, <2>5, <2>6 DEF Counts, RetryBudget
<1>b. ASSUME NEW c \in Controllers, BeginAttempt(c) PROVE Counts'
  <2>1. Len(attempts') = Len(attempts) + 1 /\ cycleStart' = cycleStart
    BY <1>b DEF BeginAttempt, TypeOK
  <2>2. ASSUME NEW d \in Controllers, d # c
        PROVE  pc'[d] = pc[d] /\ total'[d] = total[d] /\ cycle'[d] = cycle[d]
    BY <1>b, <2>2 DEF BeginAttempt, Goto, TypeOK
  <2>3. /\ pc'[c] = "executing" /\ total'[c] = Len(attempts) + 1
        /\ cycle'[c] = cycle[c] + 1
    BY <1>b DEF BeginAttempt, Goto, TypeOK
  <2>4. Len(attempts) <= cycleStart + cycle[c] /\ cycle[c] < Budget
    BY <1>b DEF BeginAttempt, CountersBehind, Counting
  <2>5. cycle \in [Controllers -> Nat] /\ total \in [Controllers -> Nat]
    BY DEF TypeOK
  <2>6. cycleStart' <= Len(attempts') /\ RetryBudget'
    BY <1>l, <2>1, <2>4, <2>5, BudgetAssumption DEF RetryBudget
  <2>7. CountersBehind'
    <3> SUFFICES ASSUME NEW d \in Controllers, pc'[d] \in Counting
                 PROVE  /\ total'[d] <= Len(attempts')
                        /\ total'[d] <= cycleStart' + cycle'[d]
                        /\ pc'[d] = "dispatched" => cycle'[d] < Budget
      BY DEF CountersBehind
    <3>1. CASE d = c
      BY <3>1, <2>1, <2>3, <2>4, <2>5, <1>l
    <3>2. CASE d # c
      BY <3>2, <2>1, <2>2, <2>5, <1>l DEF CountersBehind
    <3> QED BY <3>1, <3>2
  <2>8. AttemptHasOneOwner'
    <3>1. ASSUME NEW d \in Controllers, d # c, pc'[d] \in Attempting
          PROVE  total'[d] # total'[c]
      BY <3>1, <2>2, <2>3, <2>5, <1>l DEF CountersBehind, Counting
    <3> QED BY <3>1, <2>2 DEF AttemptHasOneOwner
  <2> QED BY <2>6, <2>7, <2>8 DEF Counts
<1> QED BY <1>n, <1>p, <1>b, QuietKeepsCounts, <1>1, <1>2, <1>3, <1>4, <1>5,
     <1>6, <1>7, <1>8, <1>9, <1>10, <1>11, <1>12, <1>13, <1>14, <1>15,
     <1>16, <1>17, <1>18, <1>19, <1>20, <1>21, <1>22, <1>23, <1>24, <1>25,
     <1>26, <1>27, <1>28, <1>29, <1>30, <1>31, <1>32, <1>33, <1>34, <1>35,
     <1>36, <1>37, <1>38, <1>39, <1>40, <1>41, <1>42
     DEF Next, Recover, Take, Work, Attempt, Operator
-----------------------------------------------------------------------------
(* Theorems *)

\* IInv holds initially, and each step preserves it.
LEMMA Invariance == Spec => []IInv
<1>1. Init => IInv
  <2> SUFFICES ASSUME Init PROVE IInv
    OBVIOUS
  <2>1. TypeOK
    <3>1. attempts \in Seq(AttemptStatus) /\ feedback \in SUBSET
            (Nat \X (Texts \cup {"ACCEPT"}))
      BY EmptySeq DEF Init
    <3>2. /\ prepared \in BOOLEAN /\ sound \in BOOLEAN
          /\ lapsed \in BOOLEAN /\ built \in BOOLEAN
      BY Zenon DEF Init
    <3>3. /\ state \in JobState /\ opState \in JobState /\ op \in OpStages
          /\ memo \in [Controllers -> JobState]
          /\ pc \in [Controllers -> Stages]
      BY DEF Init, JobState, OpStages, Stages
    <3> QED BY <3>1, <3>2, <3>3, BoundsAssumption DEF Init, TypeOK
  <2>2. Len(attempts) = 0 /\ cycleStart = 0
    BY EmptySeq DEF Init
  <2>3. \A c \in Controllers : pc[c] \notin Counting /\ pc[c] \notin Attempting
    BY DEF Init, Counting, Attempting
  <2> QED
    BY <2>1, <2>2, <2>3, BudgetAssumption
    DEF IInv, RetryBudget, CountersBehind, AttemptHasOneOwner
<1>2. IInv /\ [Next]_vars => IInv'
  <2> SUFFICES ASSUME IInv, [Next]_vars PROVE IInv'
    OBVIOUS
  <2>1. TypeOK'
    BY TypeStep
  <2>2. Counts'
    BY <2>1, CountsStep
  <2> QED BY <2>1, <2>2 DEF IInv, Counts
<1> QED BY <1>1, <1>2, PTL DEF Spec

\* Every variable stays in its state space: the rows of the database and the
\* controllers' places in the code, for any number of controllers.
THEOREM TypeCorrect == Spec => []TypeOK
<1>1. IInv => TypeOK
  BY DEF IInv
<1> QED BY <1>1, Invariance, PTL

\* However many controllers run, die and take over, a repair cycle never
\* starts more attempts than the job's budget (controller.py, the loop guard;
\* db.py, UNIQUE(job_id, attempt_no)).
THEOREM BudgetRespected == Spec => []RetryBudget
<1>1. IInv => RetryBudget
  BY DEF IInv
<1> QED BY <1>1, Invariance, PTL

\* Two controllers never work on one attempt row, leases or not.
THEOREM AttemptsSeparate == Spec => []AttemptHasOneOwner
<1>1. IInv => AttemptHasOneOwner
  BY DEF IInv
<1> QED BY <1>1, Invariance, PTL

\* A lease leaves its owner only after it lapsed, when the owner gives it up,
\* or through a recovery that had listed the job.
THEOREM LeaseKeptByOwner == Spec => LeaseKept
<1>1. TypeOK /\ [Next]_vars => [LeaseFate]_vars
  <2> SUFFICES ASSUME TypeOK, Next, holder # NoOne, holder' # holder
               PROVE  LeaseFate
    BY DEF LeaseFate
  <2>1. ASSUME NEW c \in Controllers, Acquire(c) PROVE LeaseFate
    BY <2>1 DEF Acquire, LeaseFate
  <2>2. ASSUME NEW c \in Controllers, RecoverJob(c) PROVE LeaseFate
    BY <2>2 DEF RecoverJob, LeaseFate
  <2>3. ASSUME NEW c \in Controllers, RecoverRest(c) PROVE LeaseFate
    BY <2>3 DEF RecoverRest, LeaseFate, LeaseLapsed, leaseVars
  <2>4. ASSUME NEW c \in Controllers, Release(c) PROVE LeaseFate
    <3>1. holder = c /\ pc[c] \in {"release", "raised"}
      BY <2>4 DEF Release, leaseVars
    <3>2. pc'[c] \in {"escaped", "idle"}
      BY <2>4 DEF Release, Goto, TypeOK
    <3> QED BY <3>1, <3>2 DEF LeaseFate
  <2>5. ASSUME NEW c \in Controllers, RecoverList(c) PROVE FALSE
    BY <2>5 DEF RecoverList, leaseVars
  <2>6. ASSUME NEW c \in Controllers, Busy(c) PROVE FALSE
    BY <2>6 DEF Busy, leaseVars
  <2>7. ASSUME NEW c \in Controllers, Load(c) PROVE FALSE
    BY <2>7 DEF Load, leaseVars
  <2>8. ASSUME NEW c \in Controllers, Prepare(c) PROVE FALSE
    BY <2>8 DEF Prepare, leaseVars
  <2>9. ASSUME NEW c \in Controllers, GiveUp(c) PROVE FALSE
    BY <2>9 DEF GiveUp, leaseVars
  <2>10. ASSUME NEW c \in Controllers, BlockCapability(c) PROVE FALSE
    BY <2>10 DEF BlockCapability, leaseVars
  <2>11. ASSUME NEW c \in Controllers, Dispatch(c) PROVE FALSE
    BY <2>11 DEF Dispatch, leaseVars
  <2>12. ASSUME NEW c \in Controllers, BeginAttempt(c) PROVE FALSE
    BY <2>12 DEF BeginAttempt, leaseVars
  <2>13. ASSUME NEW c \in Controllers, DuplicateAttempt(c) PROVE FALSE
    BY <2>13 DEF DuplicateAttempt, leaseVars
  <2>14. ASSUME NEW c \in Controllers, ResourceBusy(c) PROVE FALSE
    BY <2>14 DEF ResourceBusy, leaseVars
  <2>15. ASSUME NEW c \in Controllers, Execute(c) PROVE FALSE
    BY <2>15 DEF Execute, leaseVars
  <2>16. ASSUME NEW c \in Controllers, ExecutorFails(c) PROVE FALSE
    BY <2>16 DEF ExecutorFails, leaseVars
  <2>17. ASSUME NEW c \in Controllers, ExecutorSucceeds(c) PROVE FALSE
    BY <2>17 DEF ExecutorSucceeds, leaseVars
  <2>18. ASSUME NEW c \in Controllers, VerifyPasses(c) PROVE FALSE
    BY <2>18 DEF VerifyPasses, leaseVars
  <2>19. ASSUME NEW c \in Controllers, VerifyFails(c) PROVE FALSE
    BY <2>19 DEF VerifyFails, leaseVars
  <2>20. ASSUME NEW c \in Controllers, StartReview(c) PROVE FALSE
    BY <2>20 DEF StartReview, leaseVars
  <2>21. ASSUME NEW c \in Controllers, ReviewRejects(c) PROVE FALSE
    BY <2>21 DEF ReviewRejects, leaseVars
  <2>22. ASSUME NEW c \in Controllers, FinishReady(c) PROVE FALSE
    BY <2>22 DEF FinishReady, leaseVars
  <2>23. ASSUME NEW c \in Controllers, Settle(c) PROVE FALSE
    BY <2>23 DEF Settle, leaseVars
  <2>24. ASSUME NEW c \in Controllers, Raise(c) PROVE FALSE
    BY <2>24 DEF Raise, leaseVars
  <2>25. ASSUME NEW c \in Controllers, Escape(c) PROVE FALSE
    BY <2>25 DEF Escape, leaseVars
  <2>26. ASSUME NEW c \in Controllers, Renew(c) PROVE FALSE
    BY <2>26 DEF Renew
  <2>27. ASSUME NEW c \in Controllers, Kill(c) PROVE FALSE
    BY <2>27 DEF Kill, leaseVars
  <2>28. ASSUME NEW c \in Controllers, NEW m \in Modes, Pick(c, m) PROVE FALSE
    BY <2>28 DEF Pick, leaseVars
  <2>29. ASSUME NEW text \in Texts, RejectRecord(text) PROVE FALSE
    BY <2>29 DEF RejectRecord, leaseVars
  <2>30. CASE AcceptCheck
    BY <2>30 DEF AcceptCheck, leaseVars
  <2>31. CASE AcceptCommit
    BY <2>31 DEF AcceptCommit, leaseVars
  <2>32. CASE AcceptComplete
    BY <2>32 DEF AcceptComplete, leaseVars
  <2>33. CASE RejectStore
    BY <2>33 DEF RejectStore, leaseVars
  <2>34. CASE CancelAttempts
    BY <2>34 DEF CancelAttempts, leaseVars
  <2>35. CASE CancelStore
    BY <2>35 DEF CancelStore, leaseVars
  <2>36. CASE ReverifyLoad
    BY <2>36 DEF ReverifyLoad, leaseVars
  <2>37. CASE ReverifyVerify
    BY <2>37 DEF ReverifyVerify, leaseVars
  <2>38. CASE ReverifyMark
    BY <2>38 DEF ReverifyMark, leaseVars
  <2>39. CASE ReverifyStore
    BY <2>39 DEF ReverifyStore, leaseVars
  <2>40. CASE CleanupLoad
    BY <2>40 DEF CleanupLoad, leaseVars
  <2>41. CASE CleanupStore
    BY <2>41 DEF CleanupStore, leaseVars
  <2>42. CASE AbortOp
    BY <2>42 DEF AbortOp, leaseVars
  <2>43. CASE LapseDead
    BY <2>43 DEF LapseDead
  <2>44. CASE LapseStalled
    BY <2>44 DEF LapseStalled
  <2> QED BY <2>1, <2>2, <2>3, <2>4, <2>5, <2>6, <2>7, <2>8, <2>9, <2>10,
       <2>11, <2>12, <2>13, <2>14, <2>15, <2>16, <2>17, <2>18, <2>19, <2>20,
       <2>21, <2>22, <2>23, <2>24, <2>25, <2>26, <2>27, <2>28, <2>29, <2>30,
       <2>31, <2>32, <2>33, <2>34, <2>35, <2>36, <2>37, <2>38, <2>39, <2>40,
       <2>41, <2>42, <2>43, <2>44
     DEF Next, Recover, Take, Work, Attempt, Operator
<1> QED BY <1>1, TypeCorrect, PTL DEF Spec, LeaseKept
-----------------------------------------------------------------------------
(* READY is final *)

\* A step that writes no attempt row leaves the READY attempts as they were.
LEMMA SameRows ==
  ASSUME UNCHANGED attempts
  PROVE  ReadyAttempts' = ReadyAttempts
  BY DEF ReadyAttempts

\* Closing the RUNNING attempts, with any status but READY, neither makes nor
\* unmakes a READY attempt.
LEMMA CloseRunningReady ==
  ASSUME attempts \in Seq(AttemptStatus), NEW status \in AttemptStatus,
         status # "READY", attempts' = CloseRunning(status)
  PROVE  ReadyAttempts' = ReadyAttempts
<1>1. DOMAIN attempts' = DOMAIN attempts
  BY DEF CloseRunning
<1> QED BY <1>1 DEF ReadyAttempts, CloseRunning

\* An attempt that ends with another status than READY makes none READY.
LEMMA FinishUnready ==
  ASSUME TypeOK, NEW c \in Controllers, NEW status \in AttemptStatus,
         status # "READY", FinishAttempt(c, status), ReadyAttempts = {}
  PROVE  /\ ReadyAttempts' = {} /\ attempts' \in Seq(AttemptStatus)
         /\ Len(attempts') = Len(attempts)
<1>1. attempts' \in Seq(AttemptStatus) /\ Len(attempts') = Len(attempts)
  BY OverwriteSeq DEF TypeOK, FinishAttempt
<1>2. DOMAIN attempts' = DOMAIN attempts
  BY DEF FinishAttempt
<1>3. \A n \in DOMAIN attempts : attempts'[n] # "READY"
  BY DEF FinishAttempt, ReadyAttempts
<1> QED BY <1>1, <1>2, <1>3 DEF ReadyAttempts

\* A sequence is empty exactly when its length is zero.
LEMMA EmptyRows ==
  ASSUME attempts \in Seq(AttemptStatus)
  PROVE  Len(attempts) \in Nat /\ (attempts = <<>> <=> Len(attempts) = 0)
  BY EmptySeq

\* Without a READY attempt nothing has been accepted.
LEMMA UnreadyUndecided ==
  ASSUME TypeOK, DecisionExact, ReadyAttempts = {}
  PROVE  accepted = 0
<1>1. DOMAIN attempts = 1..Len(attempts) /\ accepted \in Nat
  BY LenProperties DEF TypeOK
<1>2. accepted # 0 => accepted \in DOMAIN attempts
  BY <1>1 DEF DecisionExact
<1>3. accepted # 0 => accepted \in ReadyAttempts
  BY <1>2 DEF DecisionExact, ReadyAttempts
<1> QED BY <1>3

\* Each step keeps SInv: once an attempt is READY, no step that could change
\* the rows, the worktree or the job back is enabled.
LEMMA SoundStep ==
  ASSUME Undisturbed, IInv, TypeOK', SInv, Next
  PROVE  SInv'
<1> USE DEF Undisturbed, SInv, Alone, ReadyIsFinal, Finished, WorkFollowsRows,
        DecisionFollowsRows, DecisionExact, IInv, TypeOK, Attempting,
        Dispatchable, InFlightState, Stages, Leased, Goto
<1>1. ASSUME NEW c \in Controllers, RecoverList(c) PROVE SInv'
  <2>1. UNCHANGED attempts
    BY <1>1 DEF RecoverList, jobVars
  <2> QED BY <1>1, <2>1, SameRows DEF RecoverList, jobVars, treeVars, opVars,
       Others
<1>2. ASSUME NEW c \in Controllers, RecoverRest(c) PROVE SInv'
  <2>1. UNCHANGED attempts
    BY <1>2 DEF RecoverRest, jobVars
  <2> QED BY <1>2, <2>1, SameRows DEF RecoverRest, jobVars, treeVars, opVars
<1>3. ASSUME NEW c \in Controllers, Acquire(c) PROVE SInv'
  <2>1. UNCHANGED attempts
    BY <1>3 DEF Acquire, jobVars
  <2> QED BY <1>3, <2>1, SameRows DEF Acquire, jobVars, treeVars, opVars
<1>4. ASSUME NEW c \in Controllers, Busy(c) PROVE SInv'
  <2>1. UNCHANGED attempts
    BY <1>4 DEF Busy
  <2> QED BY <1>4, <2>1, SameRows DEF Busy, treeVars, opVars
<1>5. ASSUME NEW c \in Controllers, Load(c) PROVE SInv'
  <2>1. UNCHANGED attempts
    BY <1>5 DEF Load, jobVars
  <2>2. ReadyAttempts = {} /\ state # "READY"
    BY <1>5 DEF Load
  <2> QED BY <1>5, <2>1, <2>2, SameRows, UnreadyUndecided DEF Load, jobVars,
       treeVars, opVars
<1>6. ASSUME NEW c \in Controllers, GiveUp(c) PROVE SInv'
  <2>1. UNCHANGED attempts
    BY <1>6 DEF GiveUp
  <2> QED BY <1>6, <2>1, SameRows DEF GiveUp, treeVars, opVars
<1>7. ASSUME NEW c \in Controllers, BlockCapability(c) PROVE SInv'
  <2>1. UNCHANGED attempts
    BY <1>7 DEF BlockCapability
  <2> QED BY <1>7, <2>1, SameRows DEF BlockCapability, treeVars, opVars
<1>8. ASSUME NEW c \in Controllers, Dispatch(c) PROVE SInv'
  <2>1. UNCHANGED attempts
    BY <1>8 DEF Dispatch
  <2> QED BY <1>8, <2>1, SameRows DEF Dispatch, treeVars, opVars
<1>9. ASSUME NEW c \in Controllers, DuplicateAttempt(c) PROVE SInv'
  <2>1. UNCHANGED attempts
    BY <1>9 DEF DuplicateAttempt, jobVars
  <2> QED BY <1>9, <2>1, SameRows DEF DuplicateAttempt, jobVars, treeVars,
       opVars
<1>10. ASSUME NEW c \in Controllers, Execute(c) PROVE SInv'
  <2>1. UNCHANGED attempts
    BY <1>10 DEF Execute, jobVars
  <2>2. ReadyAttempts = {} /\ ReadyAttempts' = {}
    BY <1>10, <2>1, SameRows DEF Execute
  <2> QED BY <1>10, <2>1, <2>2, UnreadyUndecided DEF Execute, jobVars, opVars
<1>11. ASSUME NEW c \in Controllers, ExecutorSucceeds(c) PROVE SInv'
  <2>1. UNCHANGED attempts
    BY <1>11 DEF ExecutorSucceeds
  <2> QED BY <1>11, <2>1, SameRows DEF ExecutorSucceeds, treeVars, opVars
<1>12. ASSUME NEW c \in Controllers, VerifyPasses(c) PROVE SInv'
  <2>1. UNCHANGED attempts
    BY <1>12 DEF VerifyPasses, jobVars
  <2> QED BY <1>12, <2>1, SameRows DEF VerifyPasses, jobVars, opVars
<1>13. ASSUME NEW c \in Controllers, StartReview(c) PROVE SInv'
  <2>1. UNCHANGED attempts
    BY <1>13 DEF StartReview
  <2> QED BY <1>13, <2>1, SameRows DEF StartReview, treeVars, opVars
<1>14. ASSUME NEW c \in Controllers, Raise(c) PROVE SInv'
  <2>1. UNCHANGED attempts
    BY <1>14 DEF Raise, jobVars
  <2> QED BY <1>14, <2>1, SameRows DEF Raise, jobVars, treeVars, opVars
<1>15. ASSUME NEW c \in Controllers, Release(c) PROVE SInv'
  <2>1. UNCHANGED attempts
    BY <1>15 DEF Release, jobVars
  <2> QED BY <1>15, <2>1, SameRows DEF Release, jobVars, treeVars, opVars
<1>16. ASSUME NEW c \in Controllers, Escape(c) PROVE SInv'
  <2>1. UNCHANGED attempts
    BY <1>16 DEF Escape
  <2> QED BY <1>16, <2>1, SameRows DEF Escape, treeVars, opVars
<1>17. ASSUME NEW c \in Controllers, Renew(c) PROVE SInv'
  <2>1. UNCHANGED attempts
    BY <1>17 DEF Renew, jobVars
  <2> QED BY <1>17, <2>1, SameRows DEF Renew, jobVars, treeVars, opVars,
       ctlVars
<1>18. ASSUME NEW c \in Controllers, Kill(c) PROVE SInv'
  <2>1. UNCHANGED attempts
    BY <1>18 DEF Kill, jobVars
  <2> QED BY <1>18, <2>1, SameRows DEF Kill, jobVars, treeVars, opVars
<1>19. CASE AcceptCheck
  <2>1. UNCHANGED attempts
    BY <1>19 DEF AcceptCheck, jobVars
  <2> QED BY <1>19, <2>1, SameRows DEF AcceptCheck, jobVars, treeVars, ctlVars,
       Asks
<1>20. CASE AcceptCommit
  <2>1. UNCHANGED attempts
    BY <1>20 DEF AcceptCommit, jobVars
  <2> QED BY <1>20, <2>1, SameRows DEF AcceptCommit, jobVars, treeVars, ctlVars
<1>21. CASE CancelStore
  <2>1. UNCHANGED attempts
    BY <1>21 DEF CancelStore
  <2> QED BY <1>21, <2>1, SameRows DEF CancelStore, treeVars, ctlVars, EndOp
<1>22. CASE RejectStore
  <2>1. UNCHANGED attempts
    BY <1>22 DEF RejectStore
  <2> QED BY <1>22, <2>1, SameRows DEF RejectStore, treeVars, ctlVars, EndOp
<1>23. CASE ReverifyLoad
  <2>1. UNCHANGED attempts
    BY <1>23 DEF ReverifyLoad, jobVars
  <2> QED BY <1>23, <2>1, SameRows DEF ReverifyLoad, jobVars, treeVars,
       ctlVars, Asks
<1>24. CASE ReverifyVerify
  <2>1. UNCHANGED attempts
    BY <1>24 DEF ReverifyVerify, jobVars
  <2> QED BY <1>24, <2>1, SameRows DEF ReverifyVerify, jobVars, ctlVars
<1>25. CASE ReverifyStore
  <2>1. UNCHANGED attempts
    BY <1>25 DEF ReverifyStore
  <2> QED BY <1>25, <2>1, SameRows DEF ReverifyStore, treeVars, ctlVars, EndOp
<1>26. CASE CleanupLoad
  <2>1. UNCHANGED attempts
    BY <1>26 DEF CleanupLoad, jobVars
  <2> QED BY <1>26, <2>1, SameRows DEF CleanupLoad, jobVars, treeVars, ctlVars,
       Asks
<1>27. CASE CleanupStore
  <2>1. UNCHANGED attempts
    BY <1>27 DEF CleanupStore
  <2> QED BY <1>27, <2>1, SameRows DEF CleanupStore, ctlVars, EndOp
<1>28. CASE AbortOp
  <2>1. UNCHANGED attempts
    BY <1>28 DEF AbortOp, jobVars
  <2> QED BY <1>28, <2>1, SameRows DEF AbortOp, jobVars, treeVars, ctlVars,
       EndOp
<1>29. CASE LapseDead
  <2>1. UNCHANGED attempts
    BY <1>29 DEF LapseDead, jobVars
  <2> QED BY <1>29, <2>1, SameRows DEF LapseDead, jobVars, treeVars, opVars,
       ctlVars
<1>30. CASE LapseStalled
  <2>1. UNCHANGED attempts
    BY <1>30 DEF LapseStalled, jobVars
  <2> QED BY <1>30, <2>1, SameRows DEF LapseStalled, jobVars, treeVars, opVars,
       ctlVars
<1>31. ASSUME NEW c \in Controllers, NEW m \in Modes, Pick(c, m) PROVE SInv'
  <2>1. UNCHANGED attempts
    BY <1>31 DEF Pick, jobVars
  <2> QED BY <1>31, <2>1, SameRows DEF Pick, jobVars, treeVars, opVars
<1>32. ASSUME NEW text \in Texts, RejectRecord(text) PROVE SInv'
  <2> QED BY SMTT(30), <1>32 DEF RejectRecord, Asks
<1>33. CASE CancelAttempts
  <2>1. /\ ReadyAttempts' = ReadyAttempts
        /\ Len(attempts') = Len(attempts)
    BY <1>33, CloseRunningLength, CloseRunningReady
    DEF CancelAttempts, AttemptStatus
  <2>2. attempts # <<>> => attempts' # <<>>
    BY <2>1, EmptyRows, EmptySeq
  <2>3. DecisionExact'
    BY SMTT(30), <1>33, <2>1 DEF CancelAttempts, ReadyAttempts
  <2> QED BY <1>33, <2>1, <2>2, <2>3 DEF CancelAttempts, Asks, treeVars, ctlVars
<1>34. CASE ReverifyMark
  BY <1>34 DEF ReverifyMark
<1>35. CASE AcceptComplete
  <2>1. UNCHANGED attempts
    BY <1>35 DEF AcceptComplete
  <2>2. LatestReady = Len(attempts) /\ Len(attempts) \in ReadyAttempts
    BY <1>35, LatestReadyFinds DEF AcceptComplete
  <2>3. built /\ op = "committed"
    BY <1>35 DEF AcceptComplete
  <2>4. DecisionExact'
    <3>1. attempts[Len(attempts)] = "READY"
      BY <2>2 DEF ReadyAttempts
    <3>2. accepted' = Len(attempts) /\ commit' = "sound"
      BY <1>35, <2>2, <2>3 DEF AcceptComplete
    <3> QED BY <2>1, <3>1, <3>2
  <2> QED BY SMTT(30), <1>35, <2>1, <2>2, <2>4, SameRows
       DEF AcceptComplete, EndOp, treeVars, ctlVars
<1>36. ASSUME NEW c \in Controllers, Prepare(c) PROVE SInv'
  <2>1. UNCHANGED attempts
    BY <1>36 DEF Prepare
  <2>2. ReadyAttempts = {} /\ ReadyAttempts' = {}
    BY <1>36, <2>1, SameRows DEF Prepare
  <2>3. state' # "READY" /\ accepted = 0
    BY <1>36, <2>2, <2>1, UnreadyUndecided DEF Prepare
  <2> QED BY <1>36, <2>1, <2>2, <2>3 DEF Prepare, opVars
<1>37. ASSUME NEW c \in Controllers, Settle(c) PROVE SInv'
  <2>1. UNCHANGED attempts
    BY <1>37 DEF Settle
  <2>2. CASE memo[c] = "READY"
    BY <1>37, <2>1, <2>2, SameRows DEF Settle, treeVars, opVars
  <2>3. CASE memo[c] # "READY"
    <3>1. ReadyAttempts = {} /\ ReadyAttempts' = {}
      BY <1>37, <2>1, <2>3, SameRows DEF Settle
    <3> QED BY <1>37, <2>1, <2>3, <3>1, UnreadyUndecided DEF Settle, treeVars, opVars
  <2> QED BY <2>2, <2>3
<1>38. ASSUME NEW c \in Controllers, RecoverJob(c) PROVE SInv'
  <2>1. /\ ReadyAttempts' = ReadyAttempts
        /\ Len(attempts') = Len(attempts)
    BY <1>38, CloseRunningLength, CloseRunningReady
    DEF RecoverJob, AttemptStatus
  <2>2. DecisionExact'
    BY <1>38, <2>1 DEF RecoverJob, ReadyAttempts
  <2> QED BY <1>38, <2>1, <2>2 DEF RecoverJob, RecoveredState, treeVars, opVars
<1>39. ASSUME NEW c \in Controllers, BeginAttempt(c) PROVE SInv'
  <2>1. ReadyAttempts = {}
    BY <1>39 DEF BeginAttempt
  <2>2. /\ Len(attempts') = Len(attempts) + 1
        /\ \A n \in DOMAIN attempts' : attempts'[n] # "READY"
    BY <1>39, <2>1 DEF BeginAttempt, ReadyAttempts
  <2>3. ReadyAttempts' = {} /\ attempts' # <<>>
    BY <2>2, EmptyRows, EmptySeq DEF ReadyAttempts
  <2>4. accepted = 0
    BY <2>1, UnreadyUndecided
  <2> QED BY <1>39, <2>1, <2>2, <2>3, <2>4 DEF BeginAttempt, treeVars, opVars
<1>40. ASSUME NEW c \in Controllers, ResourceBusy(c) PROVE SInv'
  <2>1. ReadyAttempts = {} /\ accepted = 0
    BY <1>40, UnreadyUndecided DEF ResourceBusy
  <2>2. ReadyAttempts' = {} /\ Len(attempts') = Len(attempts)
    BY <1>40, <2>1, FinishUnready DEF ResourceBusy, AttemptStatus
  <2> QED BY <1>40, <2>1, <2>2 DEF ResourceBusy, treeVars, opVars
<1>41. ASSUME NEW c \in Controllers, ExecutorFails(c) PROVE SInv'
  <2>1. ReadyAttempts = {} /\ accepted = 0
    BY <1>41, UnreadyUndecided DEF ExecutorFails
  <2>2. ReadyAttempts' = {} /\ Len(attempts') = Len(attempts)
    BY <1>41, <2>1, FinishUnready DEF ExecutorFails, AttemptStatus
  <2> QED BY <1>41, <2>1, <2>2 DEF ExecutorFails, treeVars, opVars
<1>42. ASSUME NEW c \in Controllers, VerifyFails(c) PROVE SInv'
  <2>1. ReadyAttempts = {} /\ accepted = 0
    BY <1>42, UnreadyUndecided DEF VerifyFails
  <2>2. ReadyAttempts' = {} /\ Len(attempts') = Len(attempts)
    BY <1>42, <2>1, FinishUnready DEF VerifyFails, AttemptStatus
  <2> QED BY <1>42, <2>1, <2>2 DEF VerifyFails, treeVars, opVars
<1>43. ASSUME NEW c \in Controllers, ReviewRejects(c) PROVE SInv'
  <2>1. ReadyAttempts = {} /\ accepted = 0
    BY <1>43, UnreadyUndecided DEF ReviewRejects
  <2>2. ReadyAttempts' = {} /\ Len(attempts') = Len(attempts)
    BY <1>43, <2>1, FinishUnready DEF ReviewRejects, AttemptStatus
  <2> QED BY <1>43, <2>1, <2>2 DEF ReviewRejects, treeVars, opVars
<1>44. ASSUME NEW c \in Controllers, FinishReady(c) PROVE SInv'
  <2>0. /\ ReadyAttempts = {} /\ accepted = 0
        /\ total[c] = Len(attempts) /\ attempts # <<>>
    BY <1>44, UnreadyUndecided DEF FinishReady
  <2>1. Len(attempts) \in DOMAIN attempts
    BY SMTT(30), <2>0, EmptyRows, LenProperties
  <2>2. /\ Len(attempts') = Len(attempts)
        /\ attempts' = [attempts EXCEPT ![Len(attempts)] = "READY"]
    BY <1>44, <2>0, OverwriteSeq DEF FinishReady, FinishAttempt, AttemptStatus
  <2>3. ReadyAttempts' = {Len(attempts)}
    BY SMTT(30), <2>0, <2>1, <2>2 DEF ReadyAttempts
  <2>4. attempts' # <<>>
    BY <2>0, <2>2, EmptyRows, EmptySeq
  <2> QED BY <1>44, <2>0, <2>2, <2>3, <2>4 DEF FinishReady, treeVars, opVars
<1> QED BY <1>1, <1>2, <1>3, <1>4, <1>5, <1>6, <1>7, <1>8, <1>9, <1>10, <1>11,
     <1>12, <1>13, <1>14, <1>15, <1>16, <1>17, <1>18, <1>19, <1>20, <1>21,
     <1>22, <1>23, <1>24, <1>25, <1>26, <1>27, <1>28, <1>29, <1>30, <1>31,
     <1>32, <1>33, <1>34, <1>35, <1>36, <1>37, <1>38, <1>39, <1>40, <1>41,
     <1>42, <1>43, <1>44
     DEF Next, Recover, Take, Work, Attempt, Operator

\* From the first state on, whatever is READY stays what was verified.
LEMMA SoundInvariance ==
  ASSUME Undisturbed
  PROVE  Spec => []SInv
<1>1. Init => SInv
  <2> SUFFICES ASSUME Init PROVE SInv
    OBVIOUS
  <2>1. ReadyAttempts = {}
    BY DEF Init, ReadyAttempts
  <2> QED BY <2>1 DEF Init, SInv, Alone, ReadyIsFinal, WorkFollowsRows,
       DecisionFollowsRows, DecisionExact, Attempting
<1>2. IInv /\ TypeOK' /\ SInv /\ [Next]_vars => SInv'
  <2>1. CASE UNCHANGED vars
    BY <2>1 DEF vars, jobVars, treeVars, leaseVars, ctlVars, opVars, SInv,
       Alone, ReadyIsFinal, Finished, WorkFollowsRows, DecisionFollowsRows,
       DecisionExact, ReadyAttempts
  <2> QED BY <2>1, SoundStep
<1>3. IInv => TypeOK
  BY DEF IInv
<1> QED BY <1>1, <1>2, <1>3, Invariance, PTL DEF Spec

\* A job offered for review holds exactly the content the verifier passed,
\* wherever its controllers were killed and recovered, as long as controllers
\* do not overlap and a READY job is neither rerun nor rejected.
THEOREM ReadyIsSound ==
  ASSUME Undisturbed
  PROVE  Spec => []SoundReady
<1>1. SInv => SoundReady
  BY DEF SInv, DecisionFollowsRows, ReadyIsFinal, SoundReady
<1> QED BY <1>1, SoundInvariance, PTL

\* The recorded decision names the last attempt, which is READY, and the
\* accepted commit holds what was verified, under the same conditions.
THEOREM DecisionNamesEvidence ==
  ASSUME Undisturbed
  PROVE  Spec => []DecisionExact
<1>1. SInv => DecisionExact
  BY DEF SInv
<1> QED BY <1>1, SoundInvariance, PTL
=============================================================================
