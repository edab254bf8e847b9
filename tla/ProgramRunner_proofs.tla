----------------------- MODULE ProgramRunner_proofs -----------------------
(***************************************************************************)
(* Proofs about ProgramRunner, for any plan, any supervisors and daemons,  *)
(* any number of workers, kills and commands.                              *)
(***************************************************************************)
EXTENDS ProgramRunner, TLAPS

-----------------------------------------------------------------------------
(* Typing *)

\* A recovery keeps every job in a state it knows.
LEMMA RecoverAllType ==
  ASSUME TypeOK, RecoverAll PROVE jstate' \in [Tasks -> JobState]
  BY DEF TypeOK, RecoverAll, JobState

\* A thread that goes on to another stage leaves the other threads alone.
Doings == {"none", "raised"} \cup Busy \cup Result
LEMMA DoingType ==
  ASSUME TypeOK, NEW r \in Runners, NEW t \in Tasks, NEW v \in Doings
  PROVE  [doing EXCEPT ![r][t] = v] \in [Runners -> [Tasks -> Doings]]
  BY DEF TypeOK, Doings

\* Every step keeps every variable in its state space.
LEMMA TypeStep == ASSUME TypeOK, [Next]_vars PROVE TypeOK'
<1> USE TasksAssumption, RunnersAssumption, NumbersAssumption
    DEF TypeOK, ProgramState, JobState, Result, Busy, Stages, Runners,
        programVars, treeVars, taskVars, turnVars, opVars
<1>1. ASSUME NEW s \in Supervisors, Claim(s) PROVE TypeOK'
  BY <1>1 DEF Claim, At
<1>2. ASSUME NEW s \in Supervisors, Recover(s) PROVE TypeOK'
  <2>1. jstate' \in [Tasks -> JobState]
    BY <1>2, RecoverAllType DEF Recover
  <2>2. /\ verdict' \in [Supervisors -> ProgramState]
        /\ pc' \in [Supervisors -> Stages]
    BY <1>2 DEF Recover, Leave, At
  <2>3. lapsed' \in BOOLEAN
    BY <1>2, Zenon DEF Recover
  <2> QED BY <1>2, <2>1, <2>2, <2>3 DEF Recover
<1>3. ASSUME NEW s \in Supervisors, Beat(s) PROVE TypeOK'
  BY <1>3 DEF Beat, At
<1>4. ASSUME NEW s \in Supervisors, LeaseLost(s) PROVE TypeOK'
  BY <1>4 DEF LeaseLost, Leave, At
<1>5. ASSUME NEW s \in Supervisors, NEW t \in Tasks, Promote(s, t) PROVE TypeOK'
  BY <1>5 DEF Promote
<1>6. ASSUME NEW s \in Supervisors, PromoteFails(s) PROVE TypeOK'
  BY <1>6 DEF PromoteFails, Leave, At
<1>7. ASSUME NEW s \in Supervisors, Conclude(s) PROVE TypeOK'
  BY <1>7 DEF Conclude, Leave, At
<1>8. ASSUME NEW s \in Supervisors, Dispatch(s) PROVE TypeOK'
  BY <1>8 DEF Dispatch, At
<1>9. ASSUME NEW s \in Supervisors, NEW t \in Tasks, Collect(s, t) PROVE TypeOK'
  BY <1>9 DEF Collect
<1>10. ASSUME NEW s \in Supervisors, EndTurn(s) PROVE TypeOK'
  BY <1>10 DEF EndTurn, Leave, At
<1>11. ASSUME NEW s \in Supervisors, Poll(s) PROVE TypeOK'
  BY <1>11 DEF Poll, Leave, At
<1>12. ASSUME NEW s \in Supervisors, Release(s) PROVE TypeOK'
  BY <1>12 DEF Release, At, Forget, Nothing
<1>13. ASSUME NEW r \in Runners, NEW t \in Tasks, Begin(r, t) PROVE TypeOK'
  <2>1. jstate' \in [Tasks -> JobState]
    BY <1>13, RecoverAllType DEF Begin
  <2>2. lease' \in [Tasks -> Runners \cup {NoOne}]
    BY <1>13 DEF Begin
  <2>3. doing' \in [Runners -> [Tasks -> Doings]]
    <3>1. PICK v \in Doings : doing' = [doing EXCEPT ![r][t] = v]
      BY <1>13, Zenon DEF Begin, Doings
    <3> QED BY <3>1, DoingType
  <2>4. lapsed' \in BOOLEAN
    BY <1>13, Zenon DEF Begin
  <2> QED BY <1>13, <2>1, <2>2, <2>3, <2>4 DEF Begin, Doings
<1>14. ASSUME NEW r \in Runners, NEW t \in Tasks, Prepare(r, t) PROVE TypeOK'
  <2>1. /\ merged' \subseteq built' /\ built' \subseteq Tasks
        /\ left' \subseteq Tasks /\ locks' \subseteq Tasks
    BY <1>14 DEF Prepare, HasWorktree
  <2>2. /\ jstate' \in [Tasks -> JobState]
        /\ lease' \in [Tasks -> Runners \cup {NoOne}]
    BY <1>14 DEF Prepare, End
  <2>3. doing' \in [Runners -> [Tasks -> Doings]]
    <3>1. PICK v \in Doings : doing' = [doing EXCEPT ![r][t] = v]
      BY <1>14, Zenon DEF Prepare, End, Doings
    <3> QED BY <3>1, DoingType
  <2>4. lapsed' \in BOOLEAN
    BY <1>14, Zenon DEF Prepare
  <2> QED BY <1>14, <2>1, <2>2, <2>3, <2>4 DEF Prepare, Doings
<1>15. ASSUME NEW r \in Runners, NEW t \in Tasks, PrepareFails(r, t) PROVE TypeOK'
  BY <1>15 DEF PrepareFails, End
<1>16. ASSUME NEW r \in Runners, NEW t \in Tasks, Retry(r, t) PROVE TypeOK'
  BY <1>16 DEF Retry
<1>17. ASSUME NEW r \in Runners, NEW t \in Tasks, NEW result \in Result, Finish(r, t, result)
       PROVE TypeOK'
  BY <1>17 DEF Finish, End
<1>18. ASSUME NEW r \in Runners, NEW t \in Tasks, Raise(r, t) PROVE TypeOK'
  BY <1>18 DEF Raise, End
<1>19. ASSUME NEW r \in Runners, NEW t \in Tasks, StartOutside(r, t) PROVE TypeOK'
  BY <1>19 DEF StartOutside, Ask
<1>20. ASSUME NEW r \in Runners, NEW t \in Tasks, EndOutside(r, t) PROVE TypeOK'
  BY <1>20 DEF EndOutside
<1>21. ASSUME Pause PROVE TypeOK'
  <2>1. lapsed' \in BOOLEAN
    BY <1>21, Zenon DEF Pause, SetProgramState
  <2> QED BY <1>21, <2>1 DEF Pause, Command, SetProgramState, Ask
<1>22. ASSUME Resume PROVE TypeOK'
  <2>1. lapsed' \in BOOLEAN
    BY <1>22, Zenon DEF Resume, SetProgramState
  <2> QED BY <1>22, <2>1 DEF Resume, Command, SetProgramState, Ask
<1>23. ASSUME Cancel PROVE TypeOK'
  <2>1. lapsed' \in BOOLEAN
    BY <1>23, Zenon DEF Cancel, SetProgramState
  <2> QED BY <1>23, <2>1 DEF Cancel, Command, SetProgramState, Ask
<1>24. ASSUME NEW t \in Tasks, CancelJob(t) PROVE TypeOK'
  BY <1>24 DEF CancelJob
<1>25. ASSUME NEW t \in Tasks, Accept(t) PROVE TypeOK'
  BY <1>25 DEF Accept, Command, Ask, AcceptedState
<1>26. ASSUME NEW t \in Tasks, Reject(t) PROVE TypeOK'
  BY <1>26 DEF Reject, Command, Ask
<1>27. ASSUME Status PROVE TypeOK'
  BY <1>27 DEF Status, Command, Ask, Refreshed
<1>28. ASSUME NEW s \in Supervisors, Kill(s) PROVE TypeOK'
  BY <1>28 DEF Kill, At, Forget, Nothing, Making
<1>29. ASSUME NEW t \in Tasks, LapseJob(t) PROVE TypeOK'
  BY <1>29 DEF LapseJob
<1>30. ASSUME LapseRun PROVE TypeOK'
  BY <1>30 DEF LapseRun
<1>n. CASE UNCHANGED vars
  BY <1>n DEF vars
<1> HIDE DEF TypeOK, ProgramState, JobState, Result, Busy, Stages, Runners
<1> QED
  BY <1>n, <1>1, <1>2, <1>3, <1>4, <1>5, <1>6, <1>7, <1>8, <1>9, <1>10, <1>11,
     <1>12, <1>13, <1>14, <1>15, <1>16, <1>17, <1>18, <1>19, <1>20, <1>21,
     <1>22, <1>23, <1>24, <1>25, <1>26, <1>27, <1>28, <1>29, <1>30
  DEF Next, Turn, Work, Operator

-----------------------------------------------------------------------------
(* The order of the tasks *)

\* The actions that change neither work nor threads
QuietNext ==
  \/ \E s \in Supervisors : \/ Claim(s) \/ Beat(s) \/ LeaseLost(s) \/ PromoteFails(s)
                             \/ Conclude(s) \/ EndTurn(s) \/ Poll(s)
  \/ Pause \/ Resume \/ Cancel \/ Status
  \/ LapseRun \/ \E t \in Tasks : LapseJob(t)
Quiet == UNCHANGED <<jstate, finished, built, chained, taken, doing>>

LEMMA QuietActions ==
  ASSUME QuietNext PROVE Quiet
  BY DEF QuietNext, Quiet, Claim, Beat, LeaseLost, PromoteFails, Conclude, EndTurn,
         Poll, Pause, Resume, Cancel, Status, LapseJob, LapseRun, taskVars, treeVars

\* A recovery offers only work that was finished, and accepts none.
LEMMA RecoverAllWork ==
  ASSUME TypeOK, WorkExists, RecoverAll, NEW t \in Tasks
  PROVE  /\ jstate'[t] = "READY" => t \in built
         /\ jstate'[t] = "ACCEPTED" => t \in taken
  BY DEF TypeOK, WorkExists, RecoverAll

\* A thread that begins is not at work yet, and began as one that was submitted.
LEMMA BeginThreads ==
  ASSUME TypeOK, NEW r \in Runners, NEW t \in Tasks, Begin(r, t),
         NEW q \in Runners, NEW u \in Tasks
  PROVE  /\ doing'[q][u] = "running" => doing[q][u] = "running"
         /\ doing'[q][u] \in {"submitted", "leased", "refused"} =>
              doing[q][u] \in {"submitted", "leased", "refused"}
<1>1. PICK v \in {"leased", "refused", "none", "raised"} :
        doing' = [doing EXCEPT ![r][t] = v] /\ doing[r][t] = "submitted"
  BY Zenon DEF Begin
<1> QED BY <1>1 DEF TypeOK

\* What is offered, or READY, was made by somebody.
LEMMA WorkStep ==
  ASSUME TypeOK, WorkExists, [Next]_vars
  PROVE  WorkExists'
<1> USE TasksAssumption DEF TypeOK, WorkExists, Offered, Busy, Result, Runners, programVars, treeVars,
        taskVars, turnVars, opVars
<1>1. ASSUME NEW s \in Supervisors, Recover(s) PROVE WorkExists'
  BY <1>1 DEF Recover, RecoverAll
<1>2. ASSUME NEW s \in Supervisors, NEW t \in Tasks, Promote(s, t) PROVE WorkExists'
  BY <1>2 DEF Promote
<1>3. ASSUME NEW s \in Supervisors, Dispatch(s) PROVE WorkExists'
  BY <1>3 DEF Dispatch, At, Selections, Eligible, Met
<1>4. ASSUME NEW s \in Supervisors, NEW t \in Tasks, Collect(s, t) PROVE WorkExists'
  BY <1>4 DEF Collect
<1>5. ASSUME NEW s \in Supervisors, Release(s) PROVE WorkExists'
  BY <1>5 DEF Release, At, Forget, Nothing
<1>6. ASSUME NEW r \in Runners, NEW t \in Tasks, Begin(r, t) PROVE WorkExists'
  <2>1. UNCHANGED <<finished, built, chained, taken>>
    BY <1>6 DEF Begin
  <2>2. \A u \in Tasks : /\ jstate'[u] = "READY" => u \in built
                         /\ jstate'[u] = "ACCEPTED" => u \in taken
    BY <1>6, RecoverAllWork DEF Begin
  <2>3. \A q \in Runners, u \in Tasks : doing'[q][u] = "running" => doing[q][u] = "running"
    BY <1>6, BeginThreads
  <2> QED BY <2>1, <2>2, <2>3
<1>7. ASSUME NEW r \in Runners, NEW t \in Tasks, Prepare(r, t) PROVE WorkExists'
  BY <1>7 DEF Prepare, HasWorktree, End
<1>8. ASSUME NEW r \in Runners, NEW t \in Tasks, PrepareFails(r, t)
      PROVE WorkExists'
  BY <1>8 DEF PrepareFails, End
<1>9. ASSUME NEW r \in Runners, NEW t \in Tasks, Retry(r, t) PROVE WorkExists'
  BY <1>9 DEF Retry
<1>10. ASSUME NEW r \in Runners, NEW t \in Tasks, NEW result \in Result, Finish(r, t, result)
       PROVE WorkExists'
  BY <1>10 DEF Finish, End
<1>11. ASSUME NEW r \in Runners, NEW t \in Tasks, Raise(r, t) PROVE WorkExists'
  BY <1>11 DEF Raise, End
<1>12. ASSUME NEW r \in Runners, NEW t \in Tasks, StartOutside(r, t)
       PROVE WorkExists'
  BY <1>12 DEF StartOutside, Ask, Eligible, Met
<1>13. ASSUME NEW r \in Runners, NEW t \in Tasks, EndOutside(r, t) PROVE WorkExists'
  BY <1>13 DEF EndOutside
<1>14. ASSUME NEW t \in Tasks, CancelJob(t) PROVE WorkExists'
  BY <1>14 DEF CancelJob
<1>15. ASSUME NEW t \in Tasks, Accept(t) PROVE WorkExists'
  BY <1>15 DEF Accept, Command, Ask, AcceptedState
<1>16. ASSUME NEW t \in Tasks, Reject(t) PROVE WorkExists'
  BY <1>16 DEF Reject, Command, Ask
<1>17. ASSUME NEW s \in Supervisors, Kill(s) PROVE WorkExists'
  BY <1>17 DEF Kill, At, Forget, Nothing, Making
<1>q. ASSUME QuietNext PROVE WorkExists'
  BY <1>q, QuietActions DEF Quiet
<1>n. CASE UNCHANGED vars
  BY <1>n DEF vars
<1> HIDE DEF TypeOK, WorkExists, Offered, Busy, Result, Runners, programVars, treeVars,
        taskVars, turnVars, opVars
<1> QED
  BY <1>q, <1>n, <1>1, <1>2, <1>3, <1>4, <1>5, <1>6, <1>7, <1>8, <1>9, <1>10,
     <1>11, <1>12, <1>13, <1>14, <1>15, <1>16, <1>17
  DEF Next, Turn, Work, Operator, QuietNext

\* Nothing starts, or is about to, before its dependencies are offered.
LEMMA DepsStep ==
  ASSUME TypeOK, WorkExists, DepsOffered, "run" \notin Commands, [Next]_vars
  PROVE  DepsOffered'
<1> USE TasksAssumption DEF TypeOK, WorkExists, Offered, Busy, Result, Runners, programVars, treeVars,
        taskVars, turnVars, opVars, DepsOffered
<1>1. ASSUME NEW s \in Supervisors, Recover(s) PROVE DepsOffered'
  BY <1>1 DEF Recover, RecoverAll
<1>2. ASSUME NEW s \in Supervisors, NEW t \in Tasks, Promote(s, t)
      PROVE DepsOffered'
  BY <1>2 DEF Promote
<1>3. ASSUME NEW s \in Supervisors, Dispatch(s) PROVE DepsOffered'
  BY <1>3 DEF Dispatch, At, Selections, Eligible, Met
<1>4. ASSUME NEW s \in Supervisors, NEW t \in Tasks, Collect(s, t)
      PROVE DepsOffered'
  BY <1>4 DEF Collect
<1>5. ASSUME NEW s \in Supervisors, Release(s) PROVE DepsOffered'
  BY <1>5 DEF Release, At, Forget, Nothing
<1>6. ASSUME NEW r \in Runners, NEW t \in Tasks, Begin(r, t) PROVE DepsOffered'
  <2>1. UNCHANGED <<built, chained, taken>>
    BY <1>6 DEF Begin
  <2>2. \A q \in Runners, u \in Tasks :
          doing'[q][u] \in {"submitted", "leased", "refused"} =>
            doing[q][u] \in {"submitted", "leased", "refused"}
    BY <1>6, BeginThreads
  <2> QED BY <2>1, <2>2
<1>7. ASSUME NEW r \in Runners, NEW t \in Tasks, Prepare(r, t) PROVE DepsOffered'
  <2>1. UNCHANGED <<chained, taken>> /\ built' \subseteq built \cup {t}
    BY <1>7 DEF Prepare, HasWorktree
  <2>2. Deps[t] \subseteq Offered
    BY <1>7 DEF Prepare
  <2>3. \A q \in Runners, u \in Tasks :
          doing'[q][u] \in {"submitted", "leased", "refused"} => doing'[q][u] = doing[q][u]
    <3>1. PICK v \in {"raised", "running"} : doing' = [doing EXCEPT ![r][t] = v]
      BY <1>7, Zenon DEF Prepare, End
    <3> QED BY <3>1
  <2> QED BY <2>1, <2>2, <2>3
<1>8. ASSUME NEW r \in Runners, NEW t \in Tasks, PrepareFails(r, t)
      PROVE DepsOffered'
  BY <1>8 DEF PrepareFails, End
<1>9. ASSUME NEW r \in Runners, NEW t \in Tasks, Retry(r, t) PROVE DepsOffered'
  BY <1>9 DEF Retry
<1>10. ASSUME NEW r \in Runners, NEW t \in Tasks, NEW result \in Result, Finish(r, t, result)
       PROVE DepsOffered'
  BY <1>10 DEF Finish, End
<1>11. ASSUME NEW r \in Runners, NEW t \in Tasks, Raise(r, t) PROVE DepsOffered'
  BY <1>11 DEF Raise, End
<1>12. ASSUME NEW r \in Runners, NEW t \in Tasks, StartOutside(r, t)
       PROVE DepsOffered'
  BY <1>12 DEF StartOutside, Ask, Eligible, Met
<1>13. ASSUME NEW r \in Runners, NEW t \in Tasks, EndOutside(r, t)
       PROVE DepsOffered'
  BY <1>13 DEF EndOutside
<1>14. ASSUME NEW t \in Tasks, CancelJob(t) PROVE DepsOffered'
  BY <1>14 DEF CancelJob
<1>15. ASSUME NEW t \in Tasks, Accept(t) PROVE DepsOffered'
  BY <1>15 DEF Accept, Command, Ask, AcceptedState
<1>16. ASSUME NEW t \in Tasks, Reject(t) PROVE DepsOffered'
  BY <1>16 DEF Reject, Command, Ask
<1>17. ASSUME NEW s \in Supervisors, Kill(s) PROVE DepsOffered'
  BY <1>17 DEF Kill, At, Forget, Nothing, Making
<1>q. ASSUME QuietNext PROVE DepsOffered'
  BY <1>q, QuietActions DEF Quiet
<1>n. CASE UNCHANGED vars
  BY <1>n DEF vars
<1> HIDE DEF TypeOK, WorkExists, Offered, Busy, Result, Runners, programVars, treeVars,
        taskVars, turnVars, opVars, DepsOffered
<1> QED
  BY <1>q, <1>n, <1>1, <1>2, <1>3, <1>4, <1>5, <1>6, <1>7, <1>8, <1>9, <1>10,
     <1>11, <1>12, <1>13, <1>14, <1>15, <1>16, <1>17
  DEF Next, Turn, Work, Operator, QuietNext

-----------------------------------------------------------------------------
(* What the program's state claims *)

\* The actions that change neither what a program claims nor what backs it
StillNext ==
  \/ \E s \in Supervisors : Dispatch(s) \/ \E t \in Tasks : Collect(s, t)
  \/ \E r \in Runners, t \in Tasks :
       \/ Begin(r, t) \/ PrepareFails(r, t) \/ Raise(r, t) \/ Retry(r, t)
       \/ StartOutside(r, t) \/ EndOutside(r, t)
       \/ \E result \in Result : Finish(r, t, result)
  \/ \E t \in Tasks : CancelJob(t) \/ Reject(t) \/ LapseJob(t)
  \/ LapseRun
Still == UNCHANGED <<fstate, verdict, listed, chained, taken, built>>

LEMMA StillActions ==
  ASSUME StillNext PROVE Still
  BY DEF StillNext, Still, Dispatch, Collect, Begin, PrepareFails, Raise, Retry,
         StartOutside, EndOutside, Finish, CancelJob, Reject, LapseJob, LapseRun,
         programVars, turnVars, treeVars, taskVars

\* A program, or the verdict of a supervisor, claims only what the rows back.
LEMMA ClaimsStep ==
  ASSUME TypeOK, WorkExists, ClaimsBacked, [Next]_vars
  PROVE  ClaimsBacked'
<1> USE TasksAssumption DEF TypeOK, WorkExists, Offered, Busy, Result, Runners, programVars, treeVars,
        taskVars, turnVars, opVars, ClaimsBacked
<1>1. ASSUME NEW s \in Supervisors, Claim(s) PROVE ClaimsBacked'
  BY <1>1 DEF Claim, At
<1>2. ASSUME NEW s \in Supervisors, Recover(s) PROVE ClaimsBacked'
  BY <1>2 DEF Recover, Leave
<1>3. ASSUME NEW s \in Supervisors, Beat(s) PROVE ClaimsBacked'
  BY <1>3 DEF Beat, At
<1>4. ASSUME NEW s \in Supervisors, LeaseLost(s) PROVE ClaimsBacked'
  BY <1>4 DEF LeaseLost, Leave, At
<1>5. ASSUME NEW s \in Supervisors, NEW t \in Tasks, Promote(s, t)
      PROVE ClaimsBacked'
  BY <1>5 DEF Promote
<1>6. ASSUME NEW s \in Supervisors, PromoteFails(s) PROVE ClaimsBacked'
  BY <1>6 DEF PromoteFails, Leave, At
<1>7. ASSUME NEW s \in Supervisors, Conclude(s) PROVE ClaimsBacked'
  BY <1>7 DEF Conclude, Leave, At
<1>8. ASSUME NEW s \in Supervisors, EndTurn(s) PROVE ClaimsBacked'
  BY <1>8 DEF EndTurn, Leave, At
<1>9. ASSUME NEW s \in Supervisors, Poll(s) PROVE ClaimsBacked'
  BY <1>9 DEF Poll, Leave, At
<1>10. ASSUME NEW s \in Supervisors, Release(s) PROVE ClaimsBacked'
  BY <1>10 DEF Release, At, Forget, Nothing
<1>11. ASSUME NEW r \in Runners, NEW t \in Tasks, Prepare(r, t) PROVE ClaimsBacked'
  BY <1>11 DEF Prepare, HasWorktree, End
<1>12. ASSUME Pause PROVE ClaimsBacked'
  BY <1>12 DEF Pause, Command, SetProgramState, Ask
<1>13. ASSUME Resume PROVE ClaimsBacked'
  BY <1>13 DEF Resume, Command, SetProgramState, Ask
<1>14. ASSUME Cancel PROVE ClaimsBacked'
  BY <1>14 DEF Cancel, Command, SetProgramState, Ask
<1>15. ASSUME NEW t \in Tasks, Accept(t) PROVE ClaimsBacked'
  BY <1>15 DEF Accept, Command, Ask, AcceptedState
<1>16. ASSUME Status PROVE ClaimsBacked'
  BY <1>16 DEF Status, Command, Ask, Refreshed
<1>17. ASSUME NEW s \in Supervisors, Kill(s) PROVE ClaimsBacked'
  BY <1>17 DEF Kill, At, Forget, Nothing, Making
<1>q. ASSUME StillNext PROVE ClaimsBacked'
  BY <1>q, StillActions DEF Still
<1>n. CASE UNCHANGED vars
  BY <1>n DEF vars
<1> HIDE DEF TypeOK, WorkExists, Offered, Busy, Result, Runners, programVars, treeVars,
        taskVars, turnVars, opVars, ClaimsBacked
<1> QED
  BY <1>q, <1>n, <1>1, <1>2, <1>3, <1>4, <1>5, <1>6, <1>7, <1>8, <1>9, <1>10,
     <1>11, <1>12, <1>13, <1>14, <1>15, <1>16, <1>17
  DEF Next, Turn, Work, Operator, StillNext

\* In a plan with one sink and no cycle, a set of tasks that holds the terminal
\* one and the dependencies of its members holds all.
LEMMA SinkNeedsAll ==
  ASSUME NEW S \in SUBSET Tasks, Terminal \in S, \A t \in S : Deps[t] \subseteq S
  PROVE  S = Tasks
<1> DEFINE U == Tasks \ S
<1>1. SUFFICES ASSUME U # {} PROVE FALSE
  OBVIOUS
<1>2. PICK u \in U : \A v \in U : u \notin Deps[v]
  BY <1>1, PlanAssumption DEF ValidPlan
<1>3. \A t \in Tasks : u \notin Deps[t]
  BY <1>2
<1>4. u = Terminal
  BY <1>2, <1>3, PlanAssumption DEF ValidPlan
<1> QED BY <1>2, <1>4

\* Once the terminal task was started, every milestone is offered.
LEMMA StartedMeansOffered ==
  ASSUME TypeOK, WorkExists, DepsOffered, Terminal \in built
  PROVE  Tasks \ {Terminal} \subseteq Offered
<1> DEFINE S == Offered \cup {Terminal}
<1>1. S \subseteq built /\ S \subseteq Tasks
  BY TasksAssumption DEF TypeOK, WorkExists, Offered
<1>2. \A t \in S : Deps[t] \subseteq S
  BY <1>1 DEF DepsOffered
<1>3. S = Tasks
  BY <1>1, <1>2, SinkNeedsAll
<1> QED BY <1>3

-----------------------------------------------------------------------------
(* The theorems *)

LEMMA InitHolds == ASSUME Init PROVE IInv
<1>1. TypeOK
  <2>1. /\ lapsed \in BOOLEAN /\ failed \in [Supervisors -> BOOLEAN]
        /\ listed \in [Supervisors -> SUBSET Tasks]
    BY DEF Init
  <2> QED
    BY <2>1, TasksAssumption, RunnersAssumption, NumbersAssumption
    DEF Init, TypeOK, ProgramState, JobState, Stages, Nothing
<1>2. WorkExists /\ DepsOffered /\ ClaimsBacked
  BY TasksAssumption DEF Init, WorkExists, DepsOffered, ClaimsBacked, Offered, Nothing
<1> QED BY <1>1, <1>2 DEF IInv

\* Type correctness, for every plan and every set of runners.
THEOREM ProgramTypeCorrect == Spec => []TypeOK
<1>1. Init => TypeOK
  BY InitHolds DEF IInv
<1>2. TypeOK /\ [Next]_vars => TypeOK'
  BY TypeStep
<1> QED BY <1>1, <1>2, PTL DEF Spec

\* The invariant that the two results below rest on, where nobody names a job
\* that is not to be run yet (`pmc run`).
THEOREM ProgramInvariant ==
  ASSUME "run" \notin Commands PROVE Spec => []IInv
<1>1. Init => IInv
  BY InitHolds
<1>2. IInv /\ [Next]_vars => IInv'
  BY TypeStep, WorkStep, DepsStep, ClaimsStep DEF IInv
<1> QED BY <1>1, <1>2, PTL DEF Spec

\* A program offered for review, or accepted, has a commit for every milestone,
\* and none is accepted but by a human: whatever was killed, paused or restarted.
THEOREM ReviewIsBacked ==
  ASSUME "run" \notin Commands PROVE Spec => []ReviewMeansDone
<1>1. IInv => ReviewMeansDone
  BY StartedMeansOffered DEF IInv, ClaimsBacked, ReviewMeansDone
<1> QED BY <1>1, ProgramInvariant, PTL

\* Every step is a start or a verification of the abstract order, or changes
\* nothing of it.
LEMMA OrderStep ==
  ASSUME IInv, IInv', [Next]_vars PROVE [Order!Next]_OrderStatus
<1>1. CASE UNCHANGED <<built, chained, taken>>
  BY <1>1 DEF OrderStatus, Offered
<1>2. ASSUME NEW r \in Runners, NEW t \in Tasks, Prepare(r, t)
      PROVE  [Order!Next]_OrderStatus
  <2>1. /\ UNCHANGED <<chained, taken>>
        /\ \/ built' = built
           \/ built' = built \cup {t} /\ t \notin built
    <3>1. UNCHANGED <<chained, taken>> /\ HasWorktree(t)
      BY <1>2 DEF Prepare
    <3>2. CASE t \in built /\ UNCHANGED treeVars
      <4>1. built' = built
        BY <3>2 DEF treeVars
      <4> QED BY <3>1, <4>1
    <3>3. CASE t \notin built /\ built' = built \cup {t}
      BY <3>1, <3>3
    <3> QED BY <3>1, <3>2, <3>3 DEF HasWorktree
  <2>2. CASE built' = built
    BY <2>1, <2>2, <1>1
  <2>3. CASE built' = built \cup {t} /\ t \notin built
    <3>1. t \notin Offered /\ Deps[t] \subseteq Offered
      BY <1>2, <2>3 DEF IInv, WorkExists, DepsOffered, Prepare
    <3>2. OrderStatus[t] = "waiting" /\ \A d \in Deps[t] : OrderStatus[d] = "verified"
      BY <3>1, <2>3, TasksAssumption DEF OrderStatus
    <3>3. OrderStatus' = [OrderStatus EXCEPT ![t] = "started"]
      BY <2>1, <2>3, <3>1 DEF OrderStatus, Offered
    <3> QED BY <3>2, <3>3 DEF Order!Next, Order!Start
  <2> QED BY <2>1, <2>2, <2>3
<1>3. ASSUME NEW t \in Tasks, jstate[t] = "READY", UNCHANGED built,
             (chained \cup taken)' = chained \cup taken \cup {t}
      PROVE  [Order!Next]_OrderStatus
  <2>1. t \in built
    BY <1>3 DEF IInv, WorkExists
  <2>2. CASE t \in Offered
    BY <1>3, <2>2 DEF OrderStatus, Offered
  <2>3. CASE t \notin Offered
    <3>1. OrderStatus[t] = "started"
      BY <2>1, <2>3 DEF OrderStatus
    <3>2. OrderStatus' = [OrderStatus EXCEPT ![t] = "verified"]
      BY <1>3 DEF OrderStatus, Offered
    <3> QED BY <3>1, <3>2 DEF Order!Next, Order!Verify
  <2> QED BY <2>2, <2>3
<1>4. ASSUME NEW s \in Supervisors, NEW t \in Tasks, Promote(s, t)
      PROVE  [Order!Next]_OrderStatus
  BY <1>4, <1>3 DEF Promote, treeVars
<1>5. ASSUME NEW t \in Tasks, Accept(t) PROVE [Order!Next]_OrderStatus
  BY <1>5, <1>3 DEF Accept, treeVars
<1>6. ASSUME QuietNext PROVE UNCHANGED <<built, chained, taken>>
  BY <1>6, QuietActions DEF Quiet
<1>7. ASSUME NEW s \in Supervisors, NEW t \in Tasks,
             \/ Recover(s) \/ Dispatch(s) \/ Release(s) \/ Collect(s, t) \/ Kill(s)
      PROVE  UNCHANGED <<built, chained, taken>>
  BY <1>7 DEF Recover, Dispatch, Release, Collect, Kill, taskVars, treeVars
<1>8. ASSUME NEW r \in Runners, NEW t \in Tasks, NEW result \in Result,
             \/ Begin(r, t) \/ PrepareFails(r, t) \/ Raise(r, t) \/ Retry(r, t)
             \/ Finish(r, t, result) \/ StartOutside(r, t) \/ EndOutside(r, t)
      PROVE  UNCHANGED <<built, chained, taken>>
  BY <1>8 DEF Begin, PrepareFails, Raise, Retry, Finish, StartOutside, EndOutside,
              taskVars, treeVars
<1>9. ASSUME NEW t \in Tasks, CancelJob(t) \/ Reject(t)
      PROVE  UNCHANGED <<built, chained, taken>>
  BY <1>9 DEF CancelJob, Reject, treeVars
<1>10. CASE UNCHANGED vars
  BY <1>10, <1>1 DEF vars, taskVars, treeVars
<1> QED
  BY <1>1, <1>2, <1>4, <1>5, <1>6, <1>7, <1>8, <1>9, <1>10, TasksAssumption
  DEF Next, Turn, Work, Operator, QuietNext, Result

\* Program runs keep the order of their plan: the supervisors, daemons, kills and
\* commands of this module implement ProgramOrder.
THEOREM OrderImplemented ==
  ASSUME "run" \notin Commands PROVE Spec => KeepsOrder
<1>1. Init => Order!Init
  BY DEF Init, Order!Init, OrderStatus, Offered
<1>2. IInv /\ IInv' /\ [Next]_vars => [Order!Next]_OrderStatus
  BY OrderStep
<1> QED BY <1>1, <1>2, ProgramInvariant, PTL DEF Spec, KeepsOrder, Order!Spec

=============================================================================
