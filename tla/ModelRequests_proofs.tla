------------------------- MODULE ModelRequests_proofs -------------------------
(***************************************************************************)
(* The model requests of a job, for any callers, limits and answers: the   *)
(* budget, the number of physical requests, what stays open, and what is   *)
(* reported.                                                               *)
(***************************************************************************)
EXTENDS ModelRequests, FiniteSetTheorems, TLAPS

\* RequestTypeOK, the variables of a caller's thread apart from the rest.
ThreadType ==
  /\ kind \in [Callers -> Kind]
  /\ main \in [Callers -> {"off", "on", "ending", "reported", "over", "dead"}]
  /\ step \in [Callers -> Step] /\ answer \in [Callers -> Answer]
  /\ waited \in [Callers -> BOOLEAN]
TriesType == tries \in [Callers -> [Class -> Nat]]
TicketType ==
  /\ lane \in [Callers -> BOOLEAN]
  /\ quota \in [Callers -> {"none", "RESERVED", "RECONCILED"}]
  /\ row \in [Callers -> {"none", "RESERVED", "STARTED", "closed"}]
  /\ leftLanes \in [Callers -> Nat] /\ leftQuotas \in [Callers -> Nat]
  /\ leftRows \in [Callers -> Nat]
CountType ==
  /\ started \in Nat /\ recorded \in [Callers -> Nat] /\ summed \in [Callers -> Nat]
  /\ reported \in [Callers -> Nat] /\ sends \in [Callers -> Nat]
  /\ asks \in [Callers -> 0..MaxAsks] /\ waiting \in [Callers -> Nat]
  /\ behind \in [Callers -> Nat]
SetType == kind \in Kinds /\ lost \subseteq Callers /\ recovered \subseteq Callers
Typed == ThreadType /\ TriesType /\ TicketType /\ CountType /\ SetType

\* The begin, the middle and the end of what an action does to a thread.
LEMMA LimitsAre ==
  /\ Budget \in Nat /\ Failovers \in Nat /\ Retries \in Nat /\ MaxAsks \in Nat
  /\ Kinds \subseteq [Callers -> Kind] /\ Answers \subseteq Answer
BY LimitsAssumption

LEMMA AnsweredType ==
  ASSUME Typed, NEW c \in Callers, NEW ok \in BOOLEAN, Answered(c, ok)
  PROVE  /\ main' \in [Callers -> {"off", "on", "ending", "reported", "over", "dead"}]
         /\ step' = [step EXCEPT ![c] = "idle"] /\ step' \in [Callers -> Step]
         /\ answer' \in [Callers -> Answer] /\ waited' \in [Callers -> BOOLEAN]
         /\ TriesType' /\ sends' \in [Callers -> Nat]
<1>1. None \in [Class -> Nat]
  BY DEF None
<1>2. TriesType'
  BY <1>1 DEF Typed, TriesType, Answered, Forgets
<1>3. main' \in [Callers -> {"off", "on", "ending", "reported", "over", "dead"}]
  BY DEF Typed, ThreadType, Answered
<1>4. step' = [step EXCEPT ![c] = "idle"] /\ step' \in [Callers -> Step]
  BY DEF Typed, ThreadType, Answered, Forgets, To, Step
<1>5. answer' \in [Callers -> Answer] /\ waited' \in [Callers -> BOOLEAN]
  BY DEF Typed, ThreadType, Answered, Forgets, Answer
<1>6. sends' \in [Callers -> Nat]
  BY DEF Typed, CountType, Answered, Forgets
<1> QED BY <1>2, <1>3, <1>4, <1>5, <1>6

LEMMA WaitsType ==
  ASSUME Typed, NEW c \in Callers, Waits(c)
  PROVE  /\ main' = main /\ answer' = answer /\ sends' = sends
         /\ step' = [step EXCEPT ![c] = "reserve"] /\ step' \in [Callers -> Step]
         /\ waited' \in [Callers -> BOOLEAN] /\ TriesType'
<1>1. None \in [Class -> Nat]
  BY DEF None
<1>2. TriesType'
  BY <1>1 DEF Typed, TriesType, Waits
<1> QED BY <1>2 DEF Typed, ThreadType, Waits, Again, To, Step

LEMMA TypeInitially == RequestInit => Typed
<1> SUFFICES ASSUME RequestInit PROVE Typed
  OBVIOUS
<1>1. None \in [Class -> Nat]
  BY DEF None
<1>2. TriesType
  BY <1>1 DEF RequestInit, TriesType
<1>3. ThreadType
  BY LimitsAre DEF RequestInit, ThreadType, Step, Answer
<1>4. TicketType /\ CountType /\ SetType
  BY LimitsAre DEF RequestInit, TicketType, CountType, SetType
<1> QED BY <1>2, <1>3, <1>4 DEF Typed

\* The steps that leave the tries and the wait of the request as they are.
LEMMA OnwardTypes ==
  ASSUME Typed, NEW c \in Callers,
         \/ CheckBudget(c) \/ TakeLane(c) \/ BookQuota(c) \/ EnterRow(c) \/ StartRow(c)
         \/ CloseRow(c) \/ CloseQuota(c) \/ NextWaiting(c)
  PROVE  Typed'
<1>1. ThreadType' /\ TriesType'
  BY DEF Typed, ThreadType, TriesType, CheckBudget, TakeLane, BookQuota, EnterRow, StartRow,
         CloseRow, CloseQuota, NextWaiting, Onward, To, Step
<1>2. TicketType'
  BY DEF Typed, TicketType, CheckBudget, TakeLane, BookQuota, EnterRow, StartRow, CloseRow,
         CloseQuota, NextWaiting, ticketVars, leftVars
<1>3. CountType'
  BY DEF Typed, CountType, CheckBudget, TakeLane, BookQuota, EnterRow, StartRow, CloseRow,
         CloseQuota, NextWaiting, Onward, countVars, historyVars, askVars
<1>4. SetType'
  BY DEF Typed, SetType, CheckBudget, TakeLane, BookQuota, EnterRow, StartRow, CloseRow,
         CloseQuota, NextWaiting, Onward, leaseVars
<1> QED BY <1>1, <1>2, <1>3, <1>4 DEF Typed

LEMMA RefusedTypes == ASSUME Typed, NEW c \in Callers, Refused(c) PROVE Typed'
<1>1. ThreadType' /\ TriesType' /\ sends' \in [Callers -> Nat]
  <2>1. CASE Waits(c)
    BY <2>1, WaitsType DEF Typed, ThreadType, CountType, Refused
  <2>2. CASE Answered(c, FALSE)
    BY <2>2, AnsweredType DEF Typed, ThreadType, Refused
  <2> QED BY <2>1, <2>2 DEF Refused
<1>2. TicketType' /\ CountType' /\ SetType'
  BY <1>1 DEF Typed, TicketType, CountType, SetType, Refused, ticketVars, leftVars, countVars,
              leaseVars, askVars
<1> QED BY <1>1, <1>2 DEF Typed

LEMMA SendTypes ==
  ASSUME Typed, NEW c \in Callers, NEW a \in Answers, Send(c, a) PROVE Typed'
<1>1. ThreadType' /\ TriesType'
  BY LimitsAre DEF Typed, ThreadType, TriesType, Send, To, Step
<1>2. TicketType' /\ CountType' /\ SetType'
  BY DEF Typed, TicketType, CountType, SetType, Send, ticketVars, leftVars, countVars, leaseVars,
         askVars
<1> QED BY <1>1, <1>2 DEF Typed

LEMMA TripTypes == ASSUME Typed, NEW c \in Callers, Trip(c) PROVE Typed'
<1>0. Answered(c, FALSE) /\ FALSE \in BOOLEAN
  BY DEF Trip
<1>1. ThreadType' /\ TriesType' /\ sends' \in [Callers -> Nat]
  BY <1>0, AnsweredType DEF Typed, ThreadType, Trip
<1>2. TicketType'
  BY DEF Typed, TicketType, Trip
<1>3. CountType' /\ SetType'
  BY <1>1 DEF Typed, CountType, SetType, Trip, countVars, leaseVars, askVars
<1> QED BY <1>1, <1>2, <1>3 DEF Typed

LEMMA ClassOfType ==
  ASSUME Typed, NEW c \in Callers, More(c, answer[c]) PROVE ClassOf(c, answer[c]) \in Class
BY DEF Typed, ThreadType, Kind, More, Retried, ClassOf, Class

LEMMA CloseLaneTypes == ASSUME Typed, NEW c \in Callers, CloseLane(c) PROVE Typed'
<1>1. ThreadType' /\ TriesType' /\ sends' \in [Callers -> Nat]
  <2>1. ASSUME NEW ok \in BOOLEAN, Answered(c, ok)
        PROVE  ThreadType' /\ TriesType' /\ sends' \in [Callers -> Nat]
    BY <2>1, AnsweredType DEF Typed, ThreadType, CloseLane
  <2>2. CASE Waits(c)
    BY <2>2, WaitsType DEF Typed, ThreadType, CountType, CloseLane
  <2>3. CASE /\ More(c, answer[c]) /\ Again(c) /\ UNCHANGED waited
             /\ tries' = [tries EXCEPT ![c][ClassOf(c, answer[c])] = @ + 1]
    <3>1. TriesType'
      BY <2>3, ClassOfType DEF Typed, TriesType
    <3>2. ThreadType' /\ sends' \in [Callers -> Nat]
      BY <2>3 DEF Typed, ThreadType, CountType, Again, To, Step, CloseLane
    <3> QED BY <3>1, <3>2
  <2> QED BY <2>1, <2>2, <2>3 DEF CloseLane
<1>2. TicketType' /\ SetType'
  BY DEF Typed, TicketType, SetType, CloseLane, leftVars, leaseVars
<1>3. summed' \in [Callers -> Nat]
  BY DEF Typed, CountType, CloseLane, Tally
<1>4. CountType'
  BY <1>1, <1>3 DEF Typed, CountType, CloseLane, askVars
<1> QED BY <1>1, <1>2, <1>4 DEF Typed

LEMMA MainTypes ==
  ASSUME Typed, NEW c \in Callers,
         BeginAttempt(c) \/ Ask(c) \/ Report(c) \/ Close(c) \/ Lose(c)
  PROVE  Typed'
<1>1. ThreadType' /\ TriesType'
  BY DEF Typed, ThreadType, TriesType, BeginAttempt, Ask, Report, Close, Lose, To, Step
<1>2. TicketType'
  BY DEF Typed, TicketType, BeginAttempt, Ask, Report, Close, Lose, ticketVars, leftVars
<1>3. CountType'
  <2>1. CASE Report(c)
    <3>1. NotDone(c) \in Nat
      BY DEF NotDone, Typed, CountType
    <3> QED BY <2>1, <3>1 DEF Typed, CountType, Report, askVars
  <2>2. CASE BeginAttempt(c) \/ Ask(c) \/ Close(c) \/ Lose(c)
    BY <2>2, LimitsAre DEF Typed, CountType, BeginAttempt, Ask, Close, Lose, countVars,
                           historyVars, askVars
  <2> QED BY <2>1, <2>2
<1>4. SetType'
  BY DEF Typed, SetType, BeginAttempt, Ask, Report, Close, Lose, leaseVars
<1> QED BY <1>1, <1>2, <1>3, <1>4 DEF Typed

LEMMA KillTypes == ASSUME Typed, NEW c \in Callers, KillCaller(c) PROVE Typed'
<1>1. None \in [Class -> Nat]
  BY DEF None
<1>2. TriesType'
  BY <1>1 DEF Typed, TriesType, KillCaller, Forgets
<1>3. ThreadType'
  BY DEF Typed, ThreadType, KillCaller, Forgets, To, Step, Answer
<1>4. TicketType' /\ CountType' /\ SetType'
  BY DEF Typed, TicketType, CountType, SetType, KillCaller, Forgets, ticketVars, leftVars,
         countVars, leaseVars
<1> QED BY <1>2, <1>3, <1>4 DEF Typed

LEMMA RecoverTypes == ASSUME Typed, Recover PROVE Typed'
<1>1. ThreadType' /\ TriesType'
  BY DEF Typed, ThreadType, TriesType, Recover
<1>2. TicketType'
  BY DEF Typed, TicketType, Recover
<1>3. CountType'
  BY DEF Typed, CountType, Recover, countVars, historyVars, askVars
<1>4. SetType'
  BY DEF Typed, SetType, Recover, Running
<1> QED BY <1>1, <1>2, <1>3, <1>4 DEF Typed

LEMMA TypeStep == Typed /\ [RequestNext]_requestVars => Typed'
<1> SUFFICES ASSUME Typed, [RequestNext]_requestVars PROVE Typed'
  OBVIOUS
<1>1. ASSUME NEW c \in Callers, Handling(c) PROVE Typed'
  BY <1>1, OnwardTypes, RefusedTypes, TripTypes, CloseLaneTypes, SendTypes DEF Handling
<1>2. ASSUME NEW c \in Callers,
             BeginAttempt(c) \/ Ask(c) \/ Report(c) \/ Close(c) \/ KillCaller(c) \/ Lose(c)
      PROVE  Typed'
  BY <1>2, MainTypes, KillTypes
<1>3. CASE UNCHANGED requestVars
  <2>1. ThreadType' /\ TriesType' /\ TicketType'
    BY <1>3 DEF Typed, requestVars, ticketVars, leftVars, ThreadType, TriesType, TicketType
  <2>2. CountType' /\ SetType'
    BY <1>3 DEF Typed, requestVars, countVars, leaseVars, askVars, historyVars, CountType, SetType
  <2> QED BY <2>1, <2>2 DEF Typed
<1> QED BY <1>1, <1>2, <1>3, RecoverTypes DEF RequestNext

\* A request that was started has been counted.
Counted == \A c \in Callers : row[c] = "STARTED" => started > 0

LEMMA CountedStep == Typed /\ Counted /\ [RequestNext]_requestVars => Counted'
<1> SUFFICES ASSUME Typed, Counted, [RequestNext]_requestVars PROVE Counted'
  OBVIOUS
<1>0. started \in Nat
      /\ row \in [Callers -> {"none", "RESERVED", "STARTED", "closed"}]
  BY DEF Typed, CountType, TicketType
<1>1. ASSUME NEW c \in Callers, StartRow(c) PROVE Counted'
  BY <1>0, <1>1 DEF StartRow, Counted
<1>2. ASSUME NEW c \in Callers, Handling(c), ~StartRow(c) PROVE Counted'
  <2>1. started' = started
    BY <1>2 DEF Handling, NextWaiting, CheckBudget, TakeLane, BookQuota, EnterRow, Refused, Trip, CloseRow,
                CloseQuota, CloseLane, Send, countVars
  <2>2. \A d \in Callers : row'[d] = "STARTED" => row[d] = "STARTED"
    BY <1>0, <1>2 DEF Handling, NextWaiting, CheckBudget, TakeLane, BookQuota, EnterRow, Refused, Trip,
                CloseRow, CloseQuota, CloseLane, Send, ticketVars
  <2> QED BY <2>1, <2>2 DEF Counted
<1>3. ASSUME NEW c \in Callers,
             BeginAttempt(c) \/ Ask(c) \/ Report(c) \/ Close(c) \/ KillCaller(c) \/ Lose(c)
      PROVE  Counted'
  BY <1>3 DEF BeginAttempt, Ask, Report, Close, KillCaller, Lose, ticketVars, countVars, Counted
<1>4. CASE Recover \/ UNCHANGED requestVars
  BY <1>0, <1>4 DEF Recover, requestVars, ticketVars, countVars, Counted
<1> QED BY <1>1, <1>2, <1>3, <1>4 DEF RequestNext

(* The variables keep their types, for any callers and limits                *)
(* (accounting.py:48-231, provider_gateway.py:88-318).                       *)
THEOREM RequestTypeCorrect == RequestSpec => []RequestTypeOK
<1>1. RequestInit => Counted
  BY DEF RequestInit, Counted
<1>2. Typed /\ Counted => RequestTypeOK
  BY DEF Typed, Counted, RequestTypeOK, ThreadType, TriesType, TicketType, CountType, SetType
<1> QED BY <1>1, <1>2, TypeInitially, TypeStep, CountedStep, PTL DEF RequestSpec

-----------------------------------------------------------------------------
(* Who is at work: one caller, and those that lost their lease.             *)

Owner ==
  /\ \A c, d \in Callers : Alive(c) /\ Alive(d) /\ c \notin lost /\ d \notin lost => c = d
  /\ \A c \in recovered : main[c] = "dead" \/ c \in lost
  /\ \A c \in Callers : ~Alive(c) => step[c] = "idle"

\* What a step of a thread does to its executor.
Still(c) ==
  /\ Alive(c) /\ (main' = main \/ main' = [main EXCEPT ![c] = "ending"])
  /\ \E s \in Step : step' = [step EXCEPT ![c] = s]

LEMMA HandlingStill ==
  ASSUME NEW c \in Callers, Handling(c)
  PROVE  Still(c) /\ lost' = lost /\ recovered' = recovered /\ reported' = reported
<1>1. Alive(c)
  BY DEF Handling, NextWaiting, CheckBudget, TakeLane, BookQuota, EnterRow, StartRow, Refused, Trip, CloseRow,
         CloseQuota, CloseLane, Send, At
<1>2. main' = main \/ main' = [main EXCEPT ![c] = "ending"]
  BY DEF Handling, NextWaiting, CheckBudget, TakeLane, BookQuota, EnterRow, StartRow, Refused, Trip, CloseRow,
         CloseQuota, CloseLane, Send, Onward, Waits, Again, Answered
<1>3. lost' = lost /\ recovered' = recovered /\ reported' = reported
  BY DEF Handling, NextWaiting, CheckBudget, TakeLane, BookQuota, EnterRow, StartRow, Refused, Trip, CloseRow,
         CloseQuota, CloseLane, Send, Onward, leaseVars, historyVars, countVars
<1>4. \E s \in Step : step' = [step EXCEPT ![c] = s]
  BY DEF Handling, NextWaiting, CheckBudget, TakeLane, BookQuota, EnterRow, StartRow, Refused, Trip, CloseRow,
         CloseQuota, CloseLane, Send, Onward, Waits, Again, Answered, Forgets, To, Step
<1> QED BY <1>1, <1>2, <1>3, <1>4 DEF Still

LEMMA OwnerStep == Typed /\ Owner /\ [RequestNext]_requestVars => Owner'
<1> SUFFICES ASSUME Typed, Owner, [RequestNext]_requestVars PROVE Owner'
  OBVIOUS
<1>0. main \in [Callers -> {"off", "on", "ending", "reported", "over", "dead"}]
      /\ recovered \subseteq Callers /\ lost \subseteq Callers /\ step \in [Callers -> Step]
  BY DEF Typed, ThreadType, SetType
<1>1. ASSUME NEW c \in Callers, Handling(c) PROVE Owner'
  BY <1>0, <1>1, HandlingStill DEF Owner, Still, Alive
<1>2. ASSUME NEW c \in Callers, BeginAttempt(c) PROVE Owner'
  BY <1>0, <1>2 DEF Owner, Alive, BeginAttempt, leaseVars
<1>3. ASSUME NEW c \in Callers, Ask(c) \/ Report(c) \/ Close(c) PROVE Owner'
  BY <1>0, <1>3 DEF Owner, Alive, Ask, Report, Close, To, leaseVars
<1>4. ASSUME NEW c \in Callers, KillCaller(c) \/ Lose(c) PROVE Owner'
  BY <1>0, <1>4 DEF Owner, Alive, KillCaller, Lose, Forgets, To, leaseVars
<1>5. CASE Recover
  BY <1>0, <1>5 DEF Owner, Alive, Recover, Running
<1>6. CASE UNCHANGED requestVars
  BY <1>6 DEF Owner, Alive, requestVars, leaseVars
<1> QED BY <1>1, <1>2, <1>3, <1>4, <1>5, <1>6 DEF RequestNext

-----------------------------------------------------------------------------
(* The budget: requests that were checked and are not counted yet.          *)

Charging == {c \in Callers : Alive(c) /\ step[c] \in {"lane", "quota", "row", "start"}}
BudgetInv == started + Cardinality(Charging) <= Budget + Cardinality(lost)

\* At work are those that lost their lease, and one more.
LEMMA FewAtWork ==
  ASSUME NEW L \in SUBSET Callers, NEW S \in SUBSET Callers,
         \A c, d \in S : c \notin L /\ d \notin L => c = d
  PROVE  /\ IsFiniteSet(S) /\ IsFiniteSet(L)
         /\ Cardinality(S) \in Nat /\ Cardinality(L) \in Nat
         /\ Cardinality(S) <= Cardinality(L) + 1
<1>1. IsFiniteSet(S) /\ IsFiniteSet(L)
  BY CallersAssumption, FS_Subset
<1>2. Cardinality(S) \in Nat /\ Cardinality(L) \in Nat
  BY <1>1, FS_CardinalityType
<1>3. CASE S \subseteq L
  BY <1>1, <1>2, <1>3, FS_Subset
<1>4. CASE ~(S \subseteq L)
  <2>1. PICK c \in S : c \notin L
    BY <1>4
  <2>2. S \subseteq L \cup {c}
    BY <2>1
  <2>3. IsFiniteSet(L \cup {c}) /\ Cardinality(L \cup {c}) = Cardinality(L) + 1
    BY <1>1, <2>1, FS_AddElement
  <2>4. Cardinality(S) <= Cardinality(L \cup {c})
    BY <2>2, <2>3, FS_Subset
  <2> QED BY <1>1, <1>2, <2>3, <2>4
<1> QED BY <1>3, <1>4

LEMMA ChargingFew ==
  ASSUME Typed, Owner
  PROVE  /\ IsFiniteSet(Charging) /\ IsFiniteSet(lost)
         /\ Cardinality(Charging) \in Nat /\ Cardinality(lost) \in Nat
         /\ Cardinality(Charging) <= Cardinality(lost) + 1
<1>1. lost \in SUBSET Callers /\ Charging \in SUBSET Callers
  BY DEF Typed, SetType, Charging
<1>2. \A c, d \in Charging : c \notin lost /\ d \notin lost => c = d
  BY DEF Owner, Charging
<1> QED BY <1>1, <1>2, FewAtWork

\* A step that adds no request between its check and its count.
LEMMA NoCharge ==
  ASSUME Typed, Owner, BudgetInv, started' = started, lost \subseteq lost', SetType',
         Charging' \subseteq Charging
  PROVE  BudgetInv'
<1>2. IsFiniteSet(Charging) /\ Cardinality(Charging) \in Nat /\ Cardinality(lost) \in Nat
  BY ChargingFew
<1>3. Cardinality(Charging') <= Cardinality(Charging) /\ IsFiniteSet(Charging')
  BY <1>2, FS_Subset
<1>4. IsFiniteSet(lost')
  BY CallersAssumption, FS_Subset DEF SetType
<1>5. Cardinality(lost) <= Cardinality(lost')
  BY <1>4, FS_Subset
<1>6. Cardinality(Charging') \in Nat /\ Cardinality(lost') \in Nat /\ started \in Nat /\ Budget \in Nat
  BY <1>3, <1>4, FS_CardinalityType, LimitsAre DEF Typed, CountType
<1> QED BY <1>2, <1>3, <1>5, <1>6 DEF BudgetInv

LEMMA BudgetStep ==
  Typed /\ Owner /\ BudgetInv /\ Typed' /\ Owner' /\ [RequestNext]_requestVars => BudgetInv'
<1> SUFFICES ASSUME Typed, Owner, BudgetInv, Typed', Owner', [RequestNext]_requestVars
             PROVE  BudgetInv'
  OBVIOUS
<1>0. /\ step \in [Callers -> Step] /\ started \in Nat /\ Budget \in Nat
      /\ main \in [Callers -> {"off", "on", "ending", "reported", "over", "dead"}]
  BY LimitsAre DEF Typed, ThreadType, CountType
<1>1. ASSUME NEW c \in Callers, CheckBudget(c) PROVE BudgetInv'
  <2>1. started' = started /\ started < Budget /\ lost' = lost
    BY <1>1 DEF CheckBudget, Onward, countVars, leaseVars
  <2>2. lost' \in SUBSET Callers /\ Charging' \in SUBSET Callers
    BY DEF Typed, SetType, Charging
  <2>3. \A d, e \in Charging' : d \notin lost' /\ e \notin lost' => d = e
    BY DEF Owner, Charging
  <2>4. Cardinality(Charging') \in Nat /\ Cardinality(lost') \in Nat
        /\ Cardinality(Charging') <= Cardinality(lost') + 1
    BY <2>2, <2>3, FewAtWork
  <2> QED BY <1>0, <2>1, <2>4 DEF BudgetInv
<1>2. ASSUME NEW c \in Callers, StartRow(c) PROVE BudgetInv'
  <2>1. started' = started + 1 /\ lost' = lost /\ c \in Charging
    BY <1>2 DEF StartRow, Onward, leaseVars, Charging, At
  <2>2. Charging' = Charging \ {c}
    BY <1>0, <1>2 DEF StartRow, Onward, To, Charging, Alive
  <2>4. IsFiniteSet(Charging) /\ Cardinality(Charging) \in Nat /\ Cardinality(lost) \in Nat
    BY ChargingFew
  <2>5. Cardinality(Charging') = Cardinality(Charging) - 1
    BY <2>1, <2>2, <2>4, FS_RemoveElement
  <2> QED BY <1>0, <2>1, <2>4, <2>5 DEF BudgetInv
<1>3. ASSUME NEW c \in Callers, Handling(c), ~CheckBudget(c), ~StartRow(c) PROVE BudgetInv'
  <2>1. started' = started
    BY <1>3 DEF Handling, NextWaiting, TakeLane, BookQuota, EnterRow, Refused, Trip, CloseRow, CloseQuota,
                CloseLane, Send, countVars
  <2>2. \A d \in Callers : Alive(d)' => Alive(d)
    BY <1>0, <1>3, HandlingStill DEF Still, Alive
  <2>3. \E s \in Step : step' = [step EXCEPT ![c] = s]
                        /\ (s \in {"lane", "quota", "row", "start"} =>
                              step[c] \in {"lane", "quota", "row", "start"})
    BY <1>3 DEF Handling, NextWaiting, TakeLane, BookQuota, EnterRow, Refused, Trip, CloseRow, CloseQuota,
                CloseLane, Send, Onward, Waits, Again, Answered, Forgets, To, At, Step
  <2>4. Charging' \subseteq Charging
    BY <1>0, <2>2, <2>3 DEF Charging
  <2> QED BY <1>3, <2>1, <2>4, HandlingStill, NoCharge DEF Typed
<1>4. ASSUME NEW c \in Callers,
             BeginAttempt(c) \/ Ask(c) \/ Report(c) \/ Close(c) \/ KillCaller(c) \/ Lose(c)
      PROVE  BudgetInv'
  <2>1. started' = started /\ lost \subseteq lost'
    BY <1>4 DEF BeginAttempt, Ask, Report, Close, KillCaller, Lose, countVars, leaseVars
  <2>2. CASE BeginAttempt(c)
    <3>1. \A d \in Callers \ {c} : Alive(d)' = Alive(d)
      BY <1>0, <2>2 DEF BeginAttempt, Alive
    <3>2. step' = step /\ step[c] = "idle"
      BY <2>2 DEF BeginAttempt, Owner, Alive
    <3>3. Charging' \subseteq Charging
      BY <3>1, <3>2 DEF Charging
    <3> QED BY <2>1, <3>3, NoCharge DEF Typed
  <2>3. CASE ~BeginAttempt(c)
    <3>1. \A d \in Callers : Alive(d)' => Alive(d)
      BY <1>0, <1>4, <2>3 DEF Ask, Report, Close, KillCaller, Lose, Alive
    <3>2. step' = step \/ \E s \in {"idle", "reserve"} : step' = [step EXCEPT ![c] = s]
      BY <1>4, <2>3 DEF Ask, Report, Close, KillCaller, Lose, Forgets, To
    <3>3. Charging' \subseteq Charging
      BY <1>0, <3>1, <3>2 DEF Charging
    <3> QED BY <2>1, <3>3, NoCharge DEF Typed
  <2> QED BY <2>2, <2>3
<1>5. CASE Recover \/ UNCHANGED requestVars
  <2>1. started' = started /\ lost' = lost /\ main' = main /\ step' = step
    BY <1>5 DEF Recover, requestVars, countVars, leaseVars
  <2>2. Charging' = Charging
    BY <2>1 DEF Charging, Alive
  <2> QED BY <2>1, <2>2, NoCharge DEF Typed
<1> QED BY <1>1, <1>2, <1>3, <1>4, <1>5 DEF RequestNext

-----------------------------------------------------------------------------
(* Tickets: what the step of a living thread says of its rows, and what a    *)
(* recovery leaves of a dead one.                                            *)

RowOpen(c) == row[c] \in {"RESERVED", "STARTED"}
Ticket(c) ==
  /\ main[c] # "dead" =>
       /\ step[c] \in {"idle", "reserve", "lane"} => ~Open(c) /\ ~lane[c]
       /\ step[c] \in {"quota", "closeLane"} => ~Open(c)
       /\ step[c] \in {"row", "closeQuota"} => ~RowOpen(c)
  /\ c \in recovered \ lost => main[c] = "dead" /\ ~Open(c)
Tickets == \A c \in Callers : Ticket(c)

LEMMA TicketStep == Typed /\ Owner /\ Tickets /\ [RequestNext]_requestVars => Tickets'
<1> SUFFICES ASSUME Typed, Owner, Tickets, [RequestNext]_requestVars, NEW d \in Callers
             PROVE  Ticket(d)'
  BY DEF Tickets
<1>0. /\ main \in [Callers -> {"off", "on", "ending", "reported", "over", "dead"}]
      /\ step \in [Callers -> Step] /\ lane \in [Callers -> BOOLEAN]
      /\ quota \in [Callers -> {"none", "RESERVED", "RECONCILED"}]
      /\ row \in [Callers -> {"none", "RESERVED", "STARTED", "closed"}]
      /\ recovered \subseteq Callers /\ Ticket(d)
  BY DEF Typed, ThreadType, TicketType, SetType, Tickets
<1> USE DEF Ticket, Open, RowOpen
<1>1. ASSUME NEW c \in Callers, Handling(c) PROVE Ticket(d)'
  <2>0. /\ Alive(c) /\ lost' = lost /\ recovered' = recovered
        /\ main' = main \/ main' = [main EXCEPT ![c] = "ending"]
    BY <1>1, HandlingStill DEF Still
  <2>1. CASE d # c
    <3>1. main'[d] = main[d] /\ step'[d] = step[d]
      BY <1>0, <1>1, <2>1, HandlingStill DEF Still
    <3>2. lane'[d] = lane[d] /\ quota'[d] = quota[d] /\ row'[d] = row[d]
      BY <1>0, <1>1, <2>1 DEF Handling, NextWaiting, CheckBudget, TakeLane, BookQuota, EnterRow, StartRow, Refused,
           Trip, CloseRow, CloseQuota, CloseLane, Send, ticketVars
    <3> QED BY <1>0, <2>0, <3>1, <3>2
  <2>2. CASE d = c
    <3>0. main[c] # "dead" /\ c \notin recovered \ lost
      BY <1>0, <2>0, <2>2 DEF Alive
    <3>1. CASE CheckBudget(c)
      BY <1>0, <2>0, <2>2, <3>0, <3>1 DEF CheckBudget, Onward, To, At, ticketVars
    <3>2. CASE TakeLane(c)
      BY <1>0, <2>0, <2>2, <3>0, <3>2 DEF TakeLane, Onward, To, At
    <3>3. CASE BookQuota(c)
      BY <1>0, <2>0, <2>2, <3>0, <3>3 DEF BookQuota, Onward, To, At
    <3>4. CASE EnterRow(c)
      BY <1>0, <2>0, <2>2, <3>0, <3>4 DEF EnterRow, Onward, To, At
    <3>5. CASE StartRow(c)
      BY <1>0, <2>0, <2>2, <3>0, <3>5 DEF StartRow, Onward, To, At
    <3>6. CASE Refused(c)
      <4>1. step'[c] \in {"idle", "reserve"} /\ step[c] \in {"reserve", "lane"}
        BY <1>0, <3>6 DEF Refused, Waits, Again, Answered, Forgets, To, At
      <4>2. UNCHANGED ticketVars
        BY <3>6 DEF Refused
      <4> QED BY <1>0, <2>0, <2>2, <3>0, <4>1, <4>2 DEF ticketVars
    <3>7. CASE Trip(c)
      <4>1. lane'[c] = FALSE /\ quota'[c] = "none" /\ row'[c] = "none"
        BY <1>0, <3>7 DEF Trip
      <4> QED BY <2>0, <2>2, <3>0, <4>1
    <3>8. CASE CloseRow(c)
      BY <1>0, <2>0, <2>2, <3>0, <3>8 DEF CloseRow, Onward, To, At
    <3>9. CASE CloseQuota(c)
      BY <1>0, <2>0, <2>2, <3>0, <3>9 DEF CloseQuota, Onward, To, At
    <3>10. CASE CloseLane(c)
      <4>1. step'[c] \in {"idle", "reserve"} /\ step[c] = "closeLane"
        BY <1>0, <3>10 DEF CloseLane, Waits, Again, Answered, Forgets, To, At
      <4>2. lane'[c] = FALSE /\ quota' = quota /\ row' = row
        BY <1>0, <3>10 DEF CloseLane
      <4> QED BY <1>0, <2>0, <2>2, <3>0, <4>1, <4>2
    <3>11. CASE \E a \in Answers : Send(c, a)
      <4>1. step'[c] = "closeRow"
        BY <1>0, <3>11 DEF Send, To
      <4> QED BY <2>0, <2>2, <3>0, <4>1
    <3>12. CASE NextWaiting(c)
      BY <1>0, <2>0, <2>2, <3>0, <3>12 DEF NextWaiting, To, At, ticketVars
    <3> QED BY <1>1, <3>1, <3>2, <3>3, <3>4, <3>5, <3>6, <3>7, <3>8, <3>9, <3>10, <3>11, <3>12
            DEF Handling
  <2> QED BY <2>1, <2>2
<1>2. ASSUME NEW c \in Callers,
             BeginAttempt(c) \/ Ask(c) \/ Report(c) \/ Close(c) \/ KillCaller(c) \/ Lose(c)
      PROVE  Ticket(d)'
  <2>1. UNCHANGED ticketVars /\ recovered' = recovered /\ lost \subseteq lost'
    BY <1>2 DEF BeginAttempt, Ask, Report, Close, KillCaller, Lose, leaseVars
  <2>2. main[d] # "dead" \/ main'[d] = "dead"
    BY <1>0, <1>2 DEF BeginAttempt, Ask, Report, Close, KillCaller, Lose, Alive
  <2>3. main[d] = "dead" => main'[d] = "dead"
    BY <2>2
  <2>4. step'[d] = step[d] \/ main'[d] = "dead" \/ (step[d] = "idle" /\ step'[d] = "reserve")
    BY <1>0, <1>2 DEF BeginAttempt, Ask, Report, Close, KillCaller, Lose, Forgets, To
  <2> QED BY <1>0, <2>1, <2>3, <2>4 DEF ticketVars
<1>3. CASE Recover
  <2>1. main' = main /\ step' = step /\ lane' = lane /\ lost' = lost
    BY <1>3 DEF Recover
  <2>2. ~(quota'[d] = "RESERVED") /\ (RowOpen(d)' => RowOpen(d))
    BY <1>0, <1>3 DEF Recover
  <2>3. ASSUME d \in recovered' \ lost' PROVE main'[d] = "dead" /\ ~Open(d)'
    <3>1. CASE d \in recovered
      BY <1>0, <2>1, <2>2, <2>3, <3>1
    <3>2. CASE d \notin recovered
      <4>1. d \in Running /\ main[d] = "dead"
        BY <1>3, <2>1, <2>3, <3>2 DEF Recover
      <4>2. ~RowOpen(d)'
        BY <1>3, <4>1 DEF Recover
      <4> QED BY <2>1, <2>2, <4>1, <4>2
    <3> QED BY <3>1, <3>2
  <2> QED BY <1>0, <2>1, <2>2, <2>3
<1>4. CASE UNCHANGED requestVars
  BY <1>0, <1>4 DEF requestVars, ticketVars, leaseVars
<1> QED BY <1>1, <1>2, <1>3, <1>4 DEF RequestNext

-----------------------------------------------------------------------------
(* What is left open: by gateways only, at most once for each request they   *)
(* are done with, and the rows of an attempt until its recovery.             *)

Left(c) ==
  /\ leftQuotas[c] <= leftLanes[c] /\ leftRows[c] <= leftLanes[c]
  /\ c \notin recovered => leftRows[c] = leftLanes[c]
  /\ leftLanes[c] # 0 => Shared(c)
  /\ leftLanes[c] + NotDone(c) <= asks[c]
  /\ c \in recovered \ lost => main[c] = "dead" /\ leftQuotas[c] = 0 /\ leftRows[c] = 0
  /\ main[c] # "dead" /\ step[c] = "send" /\ c \notin recovered => row[c] = "STARTED"
Lefts == \A c \in Callers : Left(c)

\* What an action of one caller leaves of another.
LEMMA OthersKept ==
  ASSUME Typed, NEW c \in Callers, NEW d \in Callers, d # c,
         \/ Handling(c) \/ BeginAttempt(c) \/ Ask(c) \/ Report(c) \/ Close(c)
         \/ KillCaller(c) \/ Lose(c)
  PROVE  /\ kind' = kind /\ main'[d] = main[d] /\ step'[d] = step[d] /\ answer'[d] = answer[d]
         /\ row'[d] = row[d] /\ leftLanes'[d] = leftLanes[d] /\ leftQuotas'[d] = leftQuotas[d]
         /\ leftRows'[d] = leftRows[d] /\ recorded'[d] = recorded[d] /\ summed'[d] = summed[d]
         /\ reported'[d] = reported[d] /\ asks'[d] = asks[d] /\ waiting'[d] = waiting[d]
         /\ behind'[d] = behind[d] /\ recovered' = recovered /\ lost \subseteq lost'
         /\ (d \in lost' => d \in lost)
<1>1. CASE \/ CheckBudget(c) \/ TakeLane(c) \/ BookQuota(c) \/ EnterRow(c) \/ StartRow(c)
           \/ CloseRow(c) \/ CloseQuota(c) \/ NextWaiting(c)
  BY <1>1 DEF Typed, ThreadType, TicketType, CountType, CheckBudget, TakeLane, BookQuota, EnterRow,
              StartRow, CloseRow, CloseQuota, NextWaiting, Onward, To, ticketVars, leftVars,
              countVars, leaseVars, askVars, historyVars
<1>2. CASE Refused(c) \/ Trip(c) \/ CloseLane(c) \/ \E a \in Answers : Send(c, a)
  BY <1>2 DEF Typed, ThreadType, TicketType, CountType, Refused, Trip, CloseLane, Tally, Send, Waits,
              Again, Answered, Forgets, To, ticketVars, leftVars, countVars, leaseVars, askVars
<1>3. CASE BeginAttempt(c) \/ Ask(c) \/ Report(c) \/ Close(c)
  BY <1>3 DEF Typed, ThreadType, TicketType, CountType, BeginAttempt, Ask, Report, Close, To,
              ticketVars, leftVars, countVars, leaseVars, askVars, historyVars
<1>4. CASE KillCaller(c) \/ Lose(c)
  BY <1>4 DEF Typed, ThreadType, TicketType, CountType, KillCaller, Lose, Forgets, To, ticketVars,
              leftVars, countVars, leaseVars, askVars, historyVars
<1> QED BY <1>1, <1>2, <1>3, <1>4 DEF Handling

\* The numbers the two invariants below relate.
LEMMA CallerFacts ==
  ASSUME Typed, NEW c \in Callers
  PROVE  /\ leftLanes[c] \in Nat /\ leftQuotas[c] \in Nat /\ leftRows[c] \in Nat
         /\ recorded[c] \in Nat /\ summed[c] \in Nat /\ reported[c] \in Nat
         /\ asks[c] \in Nat /\ waiting[c] \in Nat /\ behind[c] \in Nat /\ kind[c] \in Kind
         /\ step[c] \in Step /\ NotDone(c) \in Nat
BY LimitsAre DEF Typed, ThreadType, TicketType, CountType, NotDone

LEMMA LeftStep == Typed /\ Typed' /\ Owner /\ Lefts /\ [RequestNext]_requestVars => Lefts'
<1> SUFFICES ASSUME Typed, Typed', Owner, Lefts, [RequestNext]_requestVars, NEW d \in Callers
             PROVE  Left(d)'
  BY DEF Lefts
<1>0. Left(d) /\ (~Alive(d) => step[d] = "idle") /\ (d \in recovered => main[d] = "dead" \/ d \in lost)
  BY DEF Lefts, Owner
<1>a. /\ leftLanes[d] \in Nat /\ leftQuotas[d] \in Nat /\ leftRows[d] \in Nat
      /\ asks[d] \in Nat /\ waiting[d] \in Nat
  BY CallerFacts
<1>b. /\ main \in [Callers -> {"off", "on", "ending", "reported", "over", "dead"}]
      /\ step \in [Callers -> Step] /\ row \in [Callers -> {"none", "RESERVED", "STARTED", "closed"}]
      /\ leftLanes \in [Callers -> Nat] /\ leftQuotas \in [Callers -> Nat]
      /\ leftRows \in [Callers -> Nat] /\ asks \in [Callers -> 0..MaxAsks]
      /\ waiting \in [Callers -> Nat]
  BY DEF Typed, ThreadType, TicketType, CountType
\* The thread's own steps; only Trip leaves anything.
<1>1. ASSUME NEW c \in Callers, Handling(c) PROVE Left(d)'
  <2>1. CASE d # c
    BY <1>0, <1>1, <2>1, OthersKept DEF Left, NotDone, Shared
  <2>2. CASE d = c
    <3>0. /\ Alive(c) /\ main'[c] # "dead" /\ kind' = kind /\ recovered' = recovered /\ lost' = lost
      <4>1. kind' = kind
        BY <1>1 DEF Handling, NextWaiting, CheckBudget, TakeLane, BookQuota, EnterRow, StartRow,
             Refused, Trip, CloseRow, CloseQuota, CloseLane, Send, Onward
      <4> QED BY <1>1, <1>b, <4>1, HandlingStill DEF Still, Alive
    <3>1. CASE Trip(c)
      <4>1. /\ leftLanes'[c] = leftLanes[c] + 1 /\ step'[c] = "idle" /\ step[c] = "send"
            /\ waiting' = waiting /\ asks' = asks /\ Shared(c)
        BY <1>b, <3>1 DEF Trip, Answered, Forgets, To, At, askVars
      <4>2. leftQuotas'[c] \in {leftQuotas[c], leftQuotas[c] + 1}
            /\ leftRows'[c] \in {leftRows[c], leftRows[c] + 1}
            /\ (row[c] = "STARTED" => leftRows'[c] = leftRows[c] + 1)
        BY <1>b, <3>1 DEF Trip
      <4>3. main[c] # "dead" /\ c \notin recovered \ lost
        BY <1>0, <2>2, <3>0 DEF Alive
      <4> QED BY <1>0, <1>a, <2>2, <3>0, <4>1, <4>2, <4>3 DEF Left, NotDone, Shared
    <3>2. CASE NextWaiting(c)
      <4>1. /\ step[c] = "idle" /\ step'[c] = "reserve" /\ waiting'[c] = waiting[c] - 1
            /\ asks' = asks /\ UNCHANGED leftVars /\ UNCHANGED row
        BY <1>b, <3>2 DEF NextWaiting, To, At, ticketVars
      <4> QED BY <1>0, <1>a, <2>2, <3>0, <4>1 DEF Left, NotDone, Shared, leftVars, Alive
    <3>3. CASE ~Trip(c) /\ ~NextWaiting(c)
      <4>1. UNCHANGED leftVars /\ UNCHANGED askVars
        BY <1>1, <3>3 DEF Handling, CheckBudget, TakeLane, BookQuota, EnterRow, StartRow, Refused,
             CloseRow, CloseQuota, CloseLane, Send, Onward, ticketVars
      <4>2. step[c] # "idle"
        BY <1>1, <3>3 DEF Handling, CheckBudget, TakeLane, BookQuota, EnterRow, StartRow, Refused,
             CloseRow, CloseQuota, CloseLane, Send, At
      <4>3. step'[c] = "send" => row'[c] = "STARTED"
        BY <1>1, <1>b, <3>3 DEF Handling, CheckBudget, TakeLane, BookQuota, EnterRow, StartRow,
             Refused, CloseRow, CloseQuota, CloseLane, Send, Onward, Waits, Again, Answered,
             Forgets, To
      <4>4. NotDone(c)' <= NotDone(c)
        BY <1>a, <2>2, <4>1, <4>2 DEF NotDone, askVars
      <4>5. NotDone(c)' \in Nat /\ NotDone(c) \in Nat
        BY <1>a, <2>2, <4>1 DEF NotDone, askVars
      <4> QED BY <1>0, <1>a, <2>2, <3>0, <4>1, <4>3, <4>4, <4>5 DEF Left, Shared, leftVars, askVars,
                 Alive
    <3> QED BY <3>1, <3>2, <3>3
  <2> QED BY <2>1, <2>2
<1>2. ASSUME NEW c \in Callers,
             BeginAttempt(c) \/ Ask(c) \/ Report(c) \/ Close(c) \/ KillCaller(c) \/ Lose(c)
      PROVE  Left(d)'
  <2>1. CASE d # c
    BY <1>0, <1>2, <2>1, OthersKept DEF Left, NotDone, Shared
  <2>2. CASE d = c
    <3>1. kind' = kind /\ UNCHANGED leftVars /\ row' = row /\ recovered' = recovered
          /\ lost \subseteq lost'
      BY <1>2 DEF BeginAttempt, Ask, Report, Close, KillCaller, Lose, ticketVars, leaseVars
    <3>2. NotDone(c)' - asks'[c] <= NotDone(c) - asks[c] /\ asks'[c] \in Nat
      <4>1. CASE Ask(c)
        BY <1>a, <1>b, <2>2, <4>1 DEF Ask, To, NotDone
      <4>2. CASE Report(c) \/ Lose(c) \/ BeginAttempt(c)
        BY <1>a, <2>2, <4>2 DEF Report, Lose, BeginAttempt, NotDone, askVars
      <4>3. CASE Close(c) \/ KillCaller(c)
        BY <1>a, <1>b, <2>2, <4>3 DEF Close, KillCaller, Forgets, To, NotDone
      <4> QED BY <1>2, <4>1, <4>2, <4>3
    <3>3. NotDone(c)' \in Nat /\ NotDone(c) \in Nat
      BY DEF Typed, CountType, NotDone
    <3>4. main[c] = "dead" => main'[c] = "dead"
      BY <1>b, <1>2 DEF BeginAttempt, Ask, Report, Close, KillCaller, Lose, Alive
    <3>5. main'[c] # "dead" /\ step'[c] = "send" => main[c] # "dead" /\ step[c] = "send"
      BY <1>b, <1>2 DEF BeginAttempt, Ask, Report, Close, KillCaller, Lose, Forgets, To
    <3> QED BY <1>0, <1>a, <2>2, <3>1, <3>2, <3>3, <3>4, <3>5 DEF Left, Shared, leftVars
  <2> QED BY <2>1, <2>2
<1>3. CASE Recover
  <2>1. /\ main' = main /\ step' = step /\ leftLanes' = leftLanes /\ lost' = lost /\ kind' = kind
        /\ asks' = asks /\ waiting' = waiting /\ leftQuotas'[d] = 0
        /\ leftRows'[d] = (IF d \in Running THEN 0 ELSE leftRows[d])
        /\ recovered' = recovered \cup Running
        /\ (d \notin Running => row'[d] = row[d])
    BY <1>3 DEF Recover, askVars
  <2>2. d \in Running /\ d \notin lost => main[d] = "dead"
    BY <1>3 DEF Recover
  <2>3. NotDone(d)' = NotDone(d)
    BY <2>1 DEF NotDone
  <2> QED BY <1>0, <1>a, <2>1, <2>2, <2>3 DEF Left, Shared
<1>4. CASE UNCHANGED requestVars
  BY <1>0, <1>4 DEF Left, NotDone, Shared, requestVars, ticketVars, leftVars, leaseVars, askVars
<1> QED BY <1>1, <1>2, <1>3, <1>4 DEF RequestNext

-----------------------------------------------------------------------------
(* Reports: a reply is added up, reported or still due, and never twice.     *)

\* Recorded, and not added up by bash; asked for, and not recorded.
Adding(c) == step[c] \in {"closeQuota", "closeLane"} /\ answer[c] = "ok"
Due(c) == waiting[c] + (IF step[c] = "idle" \/ Adding(c) THEN 0 ELSE 1)
Rep(c) ==
  /\ kind[c] # "gateway" => waiting[c] = 0
  /\ main[c] # "dead" =>
       /\ kind[c] = "bash" => recorded[c] = summed[c] + (IF Adding(c) THEN 1 ELSE 0)
       /\ main[c] \in {"off", "on", "ending"} => reported[c] = 0
       /\ main[c] \in {"reported", "over"} =>
            /\ kind[c] # "gateway" => step[c] = "idle"
            /\ kind[c] = "bash" => reported[c] \in {0, recorded[c]}
            /\ kind[c] = "pooled" => reported[c] = recorded[c]
            /\ kind[c] = "gateway" => /\ reported[c] <= recorded[c]
                                      /\ recorded[c] + Due(c) <= reported[c] + behind[c]
Reports == \A c \in Callers : Rep(c)

\* A step of a thread, by what it does to the numbers.
LEMMA RepKept ==
  ASSUME Typed, Typed', NEW c \in Callers, Rep(c), Handling(c), kind' = kind, reported' = reported,
         behind'[c] = behind[c], Due(c)' + recorded'[c] <= Due(c) + recorded[c],
         recorded[c] <= recorded'[c], kind[c] # "gateway" => waiting'[c] = 0,
         kind[c] = "bash" => recorded'[c] = summed'[c] + (IF Adding(c)' THEN 1 ELSE 0)
  PROVE  Rep(c)'
<1>1. Still(c) /\ main \in [Callers -> {"off", "on", "ending", "reported", "over", "dead"}]
  BY HandlingStill DEF Typed, ThreadType
<1>2. step[c] # "idle" \/ waiting[c] > 0
  BY DEF Handling, CheckBudget, TakeLane, BookQuota, EnterRow, StartRow, Refused, Trip, CloseRow,
         CloseQuota, CloseLane, Send, NextWaiting, At
<1>3. kind[c] # "gateway" => main[c] \in {"on", "ending"} /\ main'[c] \in {"on", "ending"}
  BY <1>1, <1>2 DEF Rep, Still, Alive
<1>4. kind[c] = "gateway" => main' = main
  <2>1. ASSUME kind[c] = "gateway" PROVE main' = main
    BY <2>1 DEF Handling, CheckBudget, TakeLane, BookQuota, EnterRow, StartRow, Refused, Trip,
         CloseRow, CloseQuota, CloseLane, Send, NextWaiting, Onward, Waits, Again, Answered, Shared
  <2> QED BY <2>1
<1>5. /\ recorded[c] \in Nat /\ recorded'[c] \in Nat /\ reported[c] \in Nat /\ behind[c] \in Nat
      /\ Due(c) \in Nat /\ Due(c)' \in Nat
  BY CallerFacts DEF Typed, CountType, Due
<1>6. main[c] # "dead"
  BY <1>1 DEF Still, Alive
<1>7. CASE kind[c] = "gateway"
  BY <1>4, <1>5, <1>6, <1>7 DEF Rep
<1>8. CASE kind[c] # "gateway"
  BY <1>3, <1>6, <1>8 DEF Rep
<1> QED BY <1>7, <1>8

LEMMA ReportStep ==
  Typed /\ Typed' /\ Owner /\ Reports /\ [RequestNext]_requestVars => Reports'
<1> SUFFICES ASSUME Typed, Typed', Owner, Reports, [RequestNext]_requestVars, NEW d \in Callers
             PROVE  Rep(d)'
  BY DEF Reports
<1>0. Rep(d) /\ (~Alive(d) => step[d] = "idle")
  BY DEF Reports, Owner
<1>a. /\ recorded[d] \in Nat /\ summed[d] \in Nat /\ reported[d] \in Nat /\ waiting[d] \in Nat
      /\ behind[d] \in Nat /\ kind[d] \in {"bash", "pooled", "gateway"}
  BY CallerFacts DEF Kind
<1>b. /\ main \in [Callers -> {"off", "on", "ending", "reported", "over", "dead"}]
      /\ step \in [Callers -> Step] /\ answer \in [Callers -> Answer]
      /\ recorded \in [Callers -> Nat] /\ summed \in [Callers -> Nat]
      /\ waiting \in [Callers -> Nat] /\ reported \in [Callers -> Nat] /\ behind \in [Callers -> Nat]
  BY DEF Typed, ThreadType, CountType
<1>1. ASSUME NEW c \in Callers, Handling(c) PROVE Rep(d)'
  <2>1. CASE d # c
    BY <1>0, <1>1, <2>1, OthersKept DEF Rep, Due, Adding
  <2>2. CASE d = c
    <3>0. /\ kind' = kind /\ behind' = behind /\ reported' = reported /\ main[c] # "dead"
          /\ (~NextWaiting(c) => waiting' = waiting)
      <4>1. kind' = kind /\ behind' = behind /\ (~NextWaiting(c) => waiting' = waiting)
        BY <1>1 DEF Handling, CheckBudget, TakeLane, BookQuota, EnterRow, StartRow, Refused, Trip,
             CloseRow, CloseQuota, CloseLane, Send, NextWaiting, Onward, historyVars, askVars
      <4> QED BY <1>1, <4>1, HandlingStill DEF Still, Alive
    <3>1. ASSUME recorded' = recorded, summed' = summed, ~Adding(c), ~Adding(c)',
                 step[c] # "idle", waiting' = waiting
          PROVE  Rep(d)'
      <4>1. Due(c)' + recorded'[c] <= Due(c) + recorded[c] /\ recorded[c] <= recorded'[c]
        BY <1>a, <2>2, <3>1 DEF Due
      <4>2. kind[c] = "bash" => recorded'[c] = summed'[c] + (IF Adding(c)' THEN 1 ELSE 0)
        BY <1>0, <2>2, <3>0, <3>1 DEF Rep
      <4>3. kind[c] # "gateway" => waiting'[c] = 0
        BY <1>0, <2>2, <3>1 DEF Rep
      <4> QED BY <1>0, <1>1, <2>2, <3>0, <4>1, <4>2, <4>3, RepKept
    <3>2. CASE CheckBudget(c) \/ TakeLane(c) \/ BookQuota(c) \/ EnterRow(c) \/ StartRow(c)
      <4>1. recorded' = recorded /\ summed' = summed
        BY <3>2 DEF CheckBudget, TakeLane, BookQuota, EnterRow, StartRow, countVars
      <4>2. ~Adding(c) /\ ~Adding(c)' /\ step[c] # "idle" /\ waiting' = waiting
        BY <1>b, <3>2 DEF CheckBudget, TakeLane, BookQuota, EnterRow, StartRow, Onward, To, At,
                          Adding, askVars
      <4> QED BY <3>1, <4>1, <4>2
    <3>3. CASE Refused(c) \/ Trip(c) \/ \E a \in Answers : Send(c, a)
      <4>1. recorded' = recorded /\ summed' = summed
        BY <3>3 DEF Refused, Trip, Send, countVars
      <4>2. ~Adding(c) /\ ~Adding(c)' /\ step[c] # "idle" /\ waiting' = waiting
        BY <1>b, <3>3 DEF Refused, Trip, Send, Waits, Again, Answered, Forgets, To, At, Adding,
                          askVars
      <4> QED BY <3>1, <4>1, <4>2
    <3>4. CASE CloseRow(c)
      <4>1. /\ step[c] = "closeRow" /\ step'[c] = "closeQuota" /\ answer' = answer
            /\ summed' = summed /\ waiting' = waiting
            /\ recorded'[c] = (IF answer[c] = "ok" THEN recorded[c] + 1 ELSE recorded[c])
        BY <1>b, <3>4 DEF CloseRow, Onward, To, At, askVars
      <4>2. ~Adding(c) /\ (Adding(c)' <=> answer[c] = "ok")
        BY <4>1 DEF Adding
      <4>3. Due(c)' + recorded'[c] <= Due(c) + recorded[c] /\ recorded[c] <= recorded'[c]
        BY <1>a, <2>2, <4>1, <4>2 DEF Due
      <4>4. kind[c] = "bash" => recorded'[c] = summed'[c] + (IF Adding(c)' THEN 1 ELSE 0)
        BY <1>0, <1>a, <2>2, <3>0, <4>1, <4>2 DEF Rep
      <4>5. kind[c] # "gateway" => waiting'[c] = 0
        BY <1>0, <2>2, <4>1 DEF Rep
      <4> QED BY <1>0, <1>1, <2>2, <3>0, <4>3, <4>4, <4>5, RepKept
    <3>5. CASE CloseQuota(c)
      <4>1. /\ step[c] = "closeQuota" /\ step'[c] = "closeLane" /\ answer' = answer
            /\ summed' = summed /\ waiting' = waiting /\ recorded' = recorded
        BY <1>b, <3>5 DEF CloseQuota, Onward, To, At, askVars, countVars
      <4>2. Adding(c)' <=> Adding(c)
        BY <4>1 DEF Adding
      <4>3. Due(c)' + recorded'[c] <= Due(c) + recorded[c] /\ recorded[c] <= recorded'[c]
        BY <1>a, <2>2, <4>1, <4>2 DEF Due
      <4>4. kind[c] = "bash" => recorded'[c] = summed'[c] + (IF Adding(c)' THEN 1 ELSE 0)
        BY <1>0, <2>2, <3>0, <4>1, <4>2 DEF Rep
      <4>5. kind[c] # "gateway" => waiting'[c] = 0
        BY <1>0, <2>2, <4>1 DEF Rep
      <4> QED BY <1>0, <1>1, <2>2, <3>0, <4>3, <4>4, <4>5, RepKept
    <3>6. CASE CloseLane(c)
      <4>1. /\ step[c] = "closeLane" /\ waiting' = waiting /\ recorded' = recorded
            /\ step'[c] \in {"idle", "reserve"}
            /\ (answer[c] = "ok" => step'[c] = "idle")
        BY <1>b, <3>6 DEF CloseLane, More, Retried, Waits, Again, Answered, Forgets, To, At, askVars
      <4>2. kind[c] = "bash" => summed'[c] = IF answer[c] = "ok" THEN summed[c] + 1 ELSE summed[c]
        BY <1>b, <3>6 DEF CloseLane, Tally
      <4>3. ~Adding(c)' /\ (Adding(c) <=> answer[c] = "ok")
        BY <4>1 DEF Adding
      <4>4. Due(c)' + recorded'[c] <= Due(c) + recorded[c]
        BY <1>a, <2>2, <4>1, <4>3 DEF Due
      <4>5. kind[c] = "bash" => recorded'[c] = summed'[c]
        BY <1>0, <1>a, <2>2, <3>0, <4>1, <4>2, <4>3 DEF Rep
      <4>6. kind[c] # "gateway" => waiting'[c] = 0
        BY <1>0, <2>2, <4>1 DEF Rep
      <4>7. recorded'[c] = recorded[c] /\ recorded[c] \in Nat /\ summed'[c] \in Nat
        BY <4>1 DEF Typed, CountType
      <4> QED BY <1>0, <1>1, <2>2, <3>0, <4>3, <4>4, <4>5, <4>6, <4>7, RepKept
    <3>7. CASE NextWaiting(c)
      <4>1. /\ step[c] = "idle" /\ step'[c] = "reserve" /\ waiting'[c] = waiting[c] - 1
            /\ waiting[c] > 0 /\ recorded' = recorded /\ summed' = summed
        BY <1>b, <3>7 DEF NextWaiting, To, At, countVars
      <4>2. ~Adding(c) /\ ~Adding(c)'
        BY <4>1 DEF Adding
      <4>3. Due(c)' + recorded'[c] <= Due(c) + recorded[c] /\ recorded[c] <= recorded'[c]
        BY <1>a, <2>2, <4>1, <4>2 DEF Due
      <4>4. kind[c] = "bash" => recorded'[c] = summed'[c] + (IF Adding(c)' THEN 1 ELSE 0)
        BY <1>0, <2>2, <3>0, <4>1, <4>2 DEF Rep
      <4>5. kind[c] = "gateway"
        BY <1>0, <1>a, <2>2, <4>1 DEF Rep
      <4> QED BY <1>0, <1>1, <2>2, <3>0, <4>3, <4>4, <4>5, RepKept
    <3> QED BY <1>1, <3>2, <3>3, <3>4, <3>5, <3>6, <3>7 DEF Handling
  <2> QED BY <2>1, <2>2
<1>2. ASSUME NEW c \in Callers,
             BeginAttempt(c) \/ Ask(c) \/ Report(c) \/ Close(c) \/ KillCaller(c) \/ Lose(c)
      PROVE  Rep(d)'
  <2>1. CASE d # c
    BY <1>0, <1>2, <2>1, OthersKept DEF Rep, Due, Adding
  <2>2. CASE d = c
    <3>1. kind' = kind /\ recorded' = recorded /\ summed' = summed
      BY <1>2 DEF BeginAttempt, Ask, Report, Close, KillCaller, Lose, countVars
    <3>2. CASE BeginAttempt(c) \/ Lose(c)
      <4>1. /\ step' = step /\ answer' = answer /\ waiting' = waiting /\ reported' = reported
            /\ behind' = behind
        BY <3>2 DEF BeginAttempt, Lose, countVars, askVars, historyVars
      <4>2. main'[c] = main[c] \/ (main'[c] = "on" /\ main[c] = "off")
        BY <1>b, <3>2 DEF BeginAttempt, Lose
      <4> QED BY <4>2, <1>0, <2>2, <3>1, <4>1 DEF Rep, Due, Adding
    <3>3. CASE Ask(c)
      <4>1. /\ main' = main /\ main[c] = "on" /\ reported' = reported /\ answer' = answer
            /\ (kind[c] # "gateway" => waiting' = waiting)
        BY <3>3 DEF Ask, countVars, Shared
      <4>2. Adding(c)' = Adding(c)
        BY <1>b, <3>3 DEF Ask, To, Adding
      <4> QED BY <1>0, <2>2, <3>1, <4>1, <4>2 DEF Rep
    <3>4. CASE Report(c)
      <4>1. /\ step' = step /\ answer' = answer /\ waiting' = waiting /\ main'[c] = "reported"
            /\ main[c] \in {"on", "ending"} /\ behind'[c] = NotDone(c)
            /\ kind[c] # "gateway" => step[c] = "idle"
        BY <1>b, <3>4 DEF Report, askVars, Shared
      <4>2. \/ reported'[c] = IF kind[c] = "bash" THEN summed[c] ELSE recorded[c]
            \/ kind[c] = "bash" /\ reported'[c] = reported[c]
        BY <1>b, <3>4 DEF Report
      <4>3. Adding(c)' = Adding(c) /\ Due(c)' = Due(c) /\ Due(c) <= NotDone(c)
        BY <1>a, <2>2, <4>1 DEF Adding, Due, NotDone
      <4>4. step[c] = "idle" => ~Adding(c)
        BY DEF Adding
      <4>5. NotDone(c) \in Nat /\ Due(c) \in Nat
        BY <1>a, <2>2 DEF NotDone, Due
      <4>6. CASE kind[c] = "bash"
        BY <1>0, <1>a, <2>2, <3>1, <4>1, <4>2, <4>3, <4>4, <4>6 DEF Rep
      <4>7. CASE kind[c] # "bash"
        BY <1>0, <1>a, <2>2, <3>1, <4>1, <4>2, <4>3, <4>5, <4>7 DEF Rep
      <4> QED BY <4>6, <4>7
    <3>5. CASE Close(c)
      <4>1. /\ step' = step /\ answer' = answer /\ waiting'[c] = 0 /\ main[c] = "reported"
            /\ main'[c] = "over" /\ reported' = reported /\ behind' = behind
        BY <1>b, <3>5 DEF Close, countVars, historyVars
      <4>2. Adding(c)' = Adding(c) /\ Due(c)' <= Due(c) /\ Due(c) \in Nat /\ Due(c)' \in Nat
        BY <1>a, <2>2, <4>1 DEF Adding, Due
      <4> QED BY <1>0, <1>a, <2>2, <3>1, <4>1, <4>2 DEF Rep
    <3>6. CASE KillCaller(c)
      BY <1>b, <2>2, <3>6 DEF KillCaller, Rep
    <3> QED BY <1>2, <3>2, <3>3, <3>4, <3>5, <3>6
  <2> QED BY <2>1, <2>2
<1>3. CASE Recover
  BY <1>0, <1>3 DEF Rep, Due, Adding, Recover, countVars, askVars, historyVars
<1>4. CASE UNCHANGED requestVars
  BY <1>0, <1>4 DEF Rep, Due, Adding, requestVars, countVars, askVars, historyVars
<1> QED BY <1>1, <1>2, <1>3, <1>4 DEF RequestNext

-----------------------------------------------------------------------------
(* Physical requests: each is the one in hand, or one that was retried since *)
(* the last wait, or one from before it.                                     *)

Weight(c) == IF kind[c] = "bash"
             THEN tries[c]["limited"] + tries[c]["error"] + tries[c]["toolfail"]
             ELSE tries[c]["any"]
Cap(c) == IF kind[c] = "bash" THEN Retries ELSE Failovers
InHand(c) == IF step[c] \in {"closeRow", "closeQuota", "closeLane"} THEN 1 ELSE 0
Before(c) == IF waited[c] THEN Failovers + 1 ELSE 0
Sent(c) ==
  /\ sends[c] <= Weight(c) + InHand(c) + Before(c)
  /\ \A k \in Class : tries[c][k] <= Cap(c)
  /\ waited[c] => Shared(c)
Sents == \A c \in Callers : Sent(c)

LEMMA ThreadFacts ==
  ASSUME Typed, NEW c \in Callers
  PROVE  /\ kind[c] \in Kind /\ waited[c] \in BOOLEAN /\ sends[c] \in Nat /\ step[c] \in Step
         /\ tries[c] \in [Class -> Nat] /\ Weight(c) \in Nat
<1>1. tries[c] \in [Class -> Nat]
  BY DEF Typed, TriesType
<1>2. Weight(c) \in Nat
  BY <1>1 DEF Weight, Class
<1> QED BY <1>1, <1>2 DEF Typed, ThreadType, CountType

LEMMA ForgetsSent == ASSUME Typed, NEW c \in Callers, Forgets(c), kind' = kind PROVE Sent(c)'
<1>1. sends'[c] = 0 /\ tries'[c] = None /\ waited'[c] = FALSE /\ step'[c] = "idle"
  BY DEF Typed, TriesType, CountType, ThreadType, Forgets, To
<1>2. Weight(c)' = 0
  BY <1>1 DEF Weight, None, Class
<1>3. \A k \in Class : tries'[c][k] <= Cap(c)'
  BY <1>1, LimitsAre DEF None, Cap
<1> QED BY <1>1, <1>2, <1>3 DEF Sent, InHand, Before

LEMMA WaitsSent ==
  ASSUME Typed, NEW c \in Callers, Sent(c), Waits(c), kind' = kind
  PROVE  Sent(c)'
<1>1. /\ sends' = sends /\ tries'[c] = None /\ waited'[c] = TRUE /\ ~waited[c] /\ Shared(c)
  BY DEF Typed, TriesType, ThreadType, Waits, Again
<1>2. Weight(c)' = 0
  BY <1>1 DEF Weight, None, Class, Shared
<1>3. \A k \in Class : tries'[c][k] <= Cap(c)'
  BY <1>1, LimitsAre DEF None, Cap
<1>4. Weight(c) <= Failovers /\ InHand(c) <= 1 /\ InHand(c) \in Nat
  BY <1>1, ThreadFacts DEF Sent, Weight, Cap, InHand, Class, Shared
<1>5. sends[c] <= Failovers + 1
  BY <1>1, <1>4, ThreadFacts, LimitsAre DEF Sent, Before
<1>6. InHand(c)' \in Nat
  BY DEF InHand
<1> QED BY <1>1, <1>2, <1>3, <1>5, <1>6, ThreadFacts, LimitsAre DEF Sent, Before, Shared

LEMMA MoreSent ==
  ASSUME Typed, NEW c \in Callers, Sent(c), step[c] = "closeLane", kind' = kind,
         More(c, answer[c]), Again(c), waited' = waited,
         tries' = [tries EXCEPT ![c][ClassOf(c, answer[c])] = @ + 1]
  PROVE  Sent(c)'
<1> DEFINE k == ClassOf(c, answer[c])
<1>1. k \in Class /\ tries[c][k] < Cap(c)
      /\ k \in (IF kind[c] = "bash" THEN {"limited", "error", "toolfail"} ELSE {"any"})
  BY ThreadFacts DEF More, Retried, ClassOf, Cap, Class, Kind
<1>2. tries'[c] = [tries[c] EXCEPT ![k] = @ + 1]
  BY DEF Typed, TriesType
<1>3. Weight(c)' = Weight(c) + 1
  <2>1. CASE kind[c] = "bash"
    BY <1>1, <1>2, <2>1, ThreadFacts DEF Weight, Class
  <2>2. CASE kind[c] # "bash"
    BY <1>1, <1>2, <2>2, ThreadFacts DEF Weight, Class
  <2> QED BY <2>1, <2>2
<1>4. \A j \in Class : tries'[c][j] <= Cap(c)'
  <2> SUFFICES ASSUME NEW j \in Class PROVE tries'[c][j] <= Cap(c)
    BY DEF Cap
  <2>1. tries'[c][j] = IF j = k THEN tries[c][j] + 1 ELSE tries[c][j]
    BY <1>2, ThreadFacts
  <2>2. tries[c][j] \in Nat /\ Cap(c) \in Nat /\ tries[c][j] <= Cap(c)
    BY ThreadFacts, LimitsAre DEF Sent, Cap
  <2> QED BY <1>1, <2>1, <2>2
<1>5. step'[c] = "reserve" /\ sends' = sends
  BY DEF Typed, ThreadType, Again, To
<1>6. InHand(c) = 1 /\ InHand(c)' = 0 /\ Before(c)' = Before(c) /\ Before(c) \in Nat
  BY <1>5, LimitsAre DEF InHand, Before
<1> QED BY <1>3, <1>4, <1>5, <1>6, ThreadFacts DEF Sent, Shared

LEMMA SentStep == Typed /\ Typed' /\ Sents /\ [RequestNext]_requestVars => Sents'
<1> SUFFICES ASSUME Typed, Typed', Sents, [RequestNext]_requestVars, NEW d \in Callers
             PROVE  Sent(d)'
  BY DEF Sents
<1>0. Sent(d) /\ kind' = kind
  <2>1. kind' = kind
    BY DEF RequestNext, BeginAttempt, Ask, Handling, NextWaiting, Report, Close, KillCaller, Lose, Recover,
           CheckBudget, TakeLane, BookQuota, EnterRow, StartRow, Refused, Trip, CloseRow,
           CloseQuota, CloseLane, Send, Onward, requestVars
  <2> QED BY <2>1 DEF Sents
<1>a. Weight(d) \in Nat /\ sends[d] \in Nat /\ Before(d) \in Nat
  BY ThreadFacts, LimitsAre DEF Before
\* Steps that leave the tries, and put no request in hand.
<1>b. ASSUME tries'[d] = tries[d], waited'[d] = waited[d],
             sends'[d] + InHand(d) <= sends[d] + InHand(d)', sends'[d] \in Nat
      PROVE  Sent(d)'
  <2>1. Weight(d)' = Weight(d) /\ Before(d)' = Before(d) /\ Cap(d)' = Cap(d)
    BY <1>0, <1>b DEF Weight, Before, Cap
  <2>2. InHand(d) \in Nat /\ InHand(d)' \in Nat
    BY DEF InHand
  <2> QED BY <1>0, <1>a, <1>b, <2>1, <2>2 DEF Sent, Shared
<1>1. ASSUME NEW c \in Callers,
             \/ CheckBudget(c) \/ TakeLane(c) \/ BookQuota(c) \/ EnterRow(c) \/ StartRow(c)
             \/ CloseRow(c) \/ CloseQuota(c) \/ NextWaiting(c)
      PROVE  Sent(d)'
  <2>1. tries' = tries /\ waited' = waited /\ sends' = sends
    BY <1>1 DEF CheckBudget, TakeLane, BookQuota, EnterRow, StartRow, CloseRow, CloseQuota,
                NextWaiting, Onward, historyVars
  <2>2. InHand(d)' = InHand(d)
    BY <1>1 DEF CheckBudget, TakeLane, BookQuota, EnterRow, StartRow, CloseRow, CloseQuota,
                NextWaiting, Onward, To, At, InHand, Typed, ThreadType
  <2>3. InHand(d) \in Nat
    BY DEF InHand
  <2> QED BY <1>a, <1>b, <2>1, <2>2, <2>3
<1>2. ASSUME NEW c \in Callers, NEW a \in Answers, Send(c, a) PROVE Sent(d)'
  <2>1. tries' = tries /\ waited' = waited
    BY <1>2 DEF Send
  <2>2. CASE d # c
    <3>1. sends'[d] = sends[d] /\ step'[d] = step[d]
      BY <1>2, <2>2 DEF Send, To, Typed, CountType, ThreadType
    <3>2. InHand(d)' = InHand(d) /\ InHand(d) \in Nat
      BY <3>1 DEF InHand
    <3> QED BY <1>a, <1>b, <2>1, <3>1, <3>2
  <2>3. CASE d = c
    <3>1. sends'[d] = sends[d] \/ sends'[d] = sends[d] + 1
      BY <1>2, <2>3 DEF Send, Typed, CountType
    <3>2. InHand(d) = 0 /\ InHand(d)' = 1
      BY <1>2, <2>3 DEF Send, To, At, InHand, Typed, ThreadType
    <3> QED BY <1>a, <1>b, <2>1, <3>1, <3>2
  <2> QED BY <2>2, <2>3
<1>3. ASSUME NEW c \in Callers, Refused(c) \/ Trip(c) \/ CloseLane(c) PROVE Sent(d)'
  <2>1. \/ Waits(c) \/ \E ok \in BOOLEAN : Answered(c, ok)
        \/ /\ More(c, answer[c]) /\ Again(c) /\ waited' = waited /\ step[c] = "closeLane"
           /\ tries' = [tries EXCEPT ![c][ClassOf(c, answer[c])] = @ + 1]
    BY <1>3 DEF Refused, Trip, CloseLane, At
  <2>2. CASE d = c
    BY <1>0, <2>1, <2>2, WaitsSent, ForgetsSent, MoreSent DEF Answered
  <2>3. CASE d # c
    <3>1. waited'[d] = waited[d] /\ step'[d] = step[d] /\ sends'[d] = sends[d]
      BY <2>1, <2>3 DEF Waits, Again, Answered, Forgets, To, Typed, ThreadType, CountType
    <3>2. tries'[d] = tries[d]
      BY <2>1, <2>3 DEF Waits, Answered, Forgets, Typed, TriesType
    <3>3. InHand(d)' = InHand(d) /\ InHand(d) \in Nat
      BY <3>1 DEF InHand
    <3> QED BY <1>a, <1>b, <3>1, <3>2, <3>3
  <2> QED BY <2>2, <2>3
<1>4. ASSUME NEW c \in Callers, BeginAttempt(c) \/ Ask(c) \/ Report(c) \/ Close(c) \/ Lose(c)
      PROVE  Sent(d)'
  <2>1. tries' = tries /\ waited' = waited /\ sends' = sends
    BY <1>4 DEF BeginAttempt, Ask, Report, Close, Lose, historyVars
  <2>2. InHand(d)' = InHand(d) /\ InHand(d) \in Nat
    BY <1>4 DEF BeginAttempt, Ask, Report, Close, Lose, To, InHand, Typed, ThreadType
  <2> QED BY <1>a, <1>b, <2>1, <2>2
<1>5. ASSUME NEW c \in Callers, KillCaller(c) PROVE Sent(d)'
  <2>1. CASE d = c
    BY <1>0, <1>5, <2>1, ForgetsSent DEF KillCaller
  <2>2. CASE d # c
    <3>1. waited'[d] = waited[d] /\ step'[d] = step[d] /\ sends'[d] = sends[d]
      BY <1>5, <2>2 DEF KillCaller, Forgets, To, Typed, ThreadType, CountType
    <3>2. tries'[d] = tries[d]
      BY <1>5, <2>2 DEF KillCaller, Forgets, Typed, TriesType
    <3>3. InHand(d)' = InHand(d) /\ InHand(d) \in Nat
      BY <3>1 DEF InHand
    <3> QED BY <1>a, <1>b, <3>1, <3>2, <3>3
  <2> QED BY <2>1, <2>2
<1>6. CASE Recover \/ UNCHANGED requestVars
  <2>1. tries' = tries /\ waited' = waited /\ sends' = sends /\ step' = step
    BY <1>6 DEF Recover, requestVars, historyVars
  <2>2. InHand(d)' = InHand(d) /\ InHand(d) \in Nat
    BY <2>1 DEF InHand
  <2> QED BY <1>a, <1>b, <2>1, <2>2
<1>7. ASSUME NEW c \in Callers, Handling(c) PROVE Sent(d)'
  BY <1>1, <1>2, <1>3, <1>7 DEF Handling
<1> QED BY <1>4, <1>5, <1>6, <1>7 DEF RequestNext

-----------------------------------------------------------------------------

RequestIInv == Typed /\ Owner /\ BudgetInv /\ Tickets /\ Lefts /\ Reports /\ Sents

LEMMA RequestInitially == RequestInit => RequestIInv
<1> SUFFICES ASSUME RequestInit PROVE RequestIInv
  OBVIOUS
<1>1. Typed
  BY TypeInitially
<1>2. Owner /\ Tickets
  BY DEF RequestInit, Owner, Alive, Tickets, Ticket, Open, RowOpen
<1>5. Lefts /\ Reports
  BY DEF RequestInit, Lefts, Left, Reports, Rep, Due, Adding, NotDone
<1>3. BudgetInv
  <2>1. Charging = {} /\ lost = {} /\ started = 0
    BY DEF RequestInit, Charging, Alive
  <2>2. Cardinality({}) = 0
    BY FS_EmptySet
  <2> QED BY <2>1, <2>2, LimitsAre DEF BudgetInv
<1>4. Sents
  <2> SUFFICES ASSUME NEW c \in Callers PROVE Sent(c)
    BY DEF Sents
  <2>1. sends[c] = 0 /\ tries[c] = None /\ waited[c] = FALSE /\ step[c] = "idle"
    BY DEF RequestInit
  <2>2. Weight(c) = 0
    BY <2>1 DEF Weight, None, Class
  <2>3. \A k \in Class : tries[c][k] <= Cap(c)
    BY <2>1, LimitsAre DEF None, Cap
  <2> QED BY <2>1, <2>2, <2>3 DEF Sent, InHand, Before
<1> QED BY <1>1, <1>2, <1>3, <1>4, <1>5 DEF RequestIInv

LEMMA RequestInvariant == RequestSpec => []RequestIInv
<1>1. RequestIInv /\ [RequestNext]_requestVars => RequestIInv'
  BY TypeStep, OwnerStep, BudgetStep, TicketStep, LeftStep, ReportStep, SentStep DEF RequestIInv
<1> QED BY <1>1, RequestInitially, PTL DEF RequestSpec

(* The requests counted exceed the budget by no more than the controllers    *)
(* that lost their lease, however many there are (accounting.py:101-105,     *)
(* db.py:1531).                                                              *)
THEOREM BudgetIsKept == RequestSpec => []BudgetKept
<1>1. RequestIInv => BudgetKept
  <2> SUFFICES ASSUME RequestIInv PROVE BudgetKept
    OBVIOUS
  <2>1. Cardinality(Charging) \in Nat /\ Cardinality(lost) \in Nat
    BY ChargingFew DEF RequestIInv
  <2>2. started \in Nat /\ Budget \in Nat
    BY LimitsAre DEF RequestIInv, Typed, CountType
  <2> QED BY <2>1, <2>2 DEF RequestIInv, BudgetInv, BudgetKept
<1> QED BY <1>1, RequestInvariant, PTL

(* A request of the agent costs no more physical requests than its retries   *)
(* allow, in any order of answers (provider_gateway.py:131-275,              *)
(* bash.py:185-262).                                                         *)
THEOREM SendsAreBounded == RequestSpec => []SendsBounded
<1>1. RequestIInv => SendsBounded
  <2> SUFFICES ASSUME RequestIInv, NEW c \in Callers PROVE sends[c] <= Allowance(c)
    BY DEF SendsBounded
  <2>1. Sent(c) /\ Typed
    BY DEF RequestIInv, Sents
  <2>2. InHand(c) \in 0..1 /\ Before(c) \in Nat
    BY LimitsAre DEF InHand, Before
  <2>3. CASE kind[c] = "bash"
    <3>1. Weight(c) <= 3 * Retries /\ Before(c) = 0
      BY <2>1, <2>3, ThreadFacts, LimitsAre DEF Sent, Weight, Cap, Before, Shared, Class
    <3> QED BY <2>1, <2>2, <2>3, <3>1, ThreadFacts, LimitsAre DEF Sent, Allowance
  <2>4. CASE kind[c] = "pooled"
    <3>1. Weight(c) <= Failovers /\ Before(c) = 0
      BY <2>1, <2>4, ThreadFacts DEF Sent, Weight, Cap, Before, Shared, Class
    <3> QED BY <2>1, <2>2, <2>4, <3>1, ThreadFacts, LimitsAre DEF Sent, Allowance
  <2>5. CASE kind[c] = "gateway"
    <3>1. Weight(c) <= Failovers /\ Before(c) <= Failovers + 1
      BY <2>1, <2>5, ThreadFacts, LimitsAre DEF Sent, Weight, Cap, Before, Class
    <3> QED BY <2>1, <2>2, <2>5, <3>1, ThreadFacts, LimitsAre DEF Sent, Allowance
  <2>6. kind[c] \in Kind
    BY <2>1, ThreadFacts
  <2> QED BY <2>3, <2>4, <2>5, <2>6 DEF Kind
<1> QED BY <1>1, RequestInvariant, PTL

(* A caller at rest, or at its end, has closed the ticket it knows of, and a *)
(* recovery closes the rows of the dead; a gateway drops at most one lane,   *)
(* quota row and request row for each request of its agent, and only a       *)
(* recovery closes the latter two (accounting.py:158-231,                    *)
(* provider_gateway.py:263, db.py:1863-1876).                                *)
THEOREM TicketsSettle == RequestSpec => []Settled
<1>1. RequestIInv => Settled
  <2> SUFFICES ASSUME RequestIInv, NEW c \in Callers
               PROVE  /\ main[c] # "dead" /\ (main[c] = "over" \/ step[c] = "idle") =>
                           ~Open(c) /\ ~lane[c]
                      /\ main[c] = "dead" /\ c \in recovered \ lost =>
                           ~Open(c) /\ leftQuotas[c] = 0 /\ leftRows[c] = 0
                      /\ leftLanes[c] # 0 => Shared(c) /\ leftLanes[c] <= asks[c]
                      /\ leftQuotas[c] <= leftLanes[c] /\ leftRows[c] <= leftLanes[c]
                      /\ c \notin recovered => leftRows[c] = leftLanes[c]
    BY DEF Settled
  <2>1. Ticket(c) /\ Left(c) /\ (~Alive(c) => step[c] = "idle")
    BY DEF RequestIInv, Tickets, Lefts, Owner
  <2>2. waiting[c] \in Nat /\ leftLanes[c] \in Nat /\ asks[c] \in Nat
    BY LimitsAre DEF RequestIInv, Typed, CountType, TicketType
  <2>3. leftLanes[c] <= asks[c]
    BY <2>1, <2>2 DEF Left, NotDone
  <2> QED BY <2>1, <2>3 DEF Ticket, Left, Alive
<1> QED BY <1>1, RequestInvariant, PTL

(* An executor reports what its requests recorded: exactly for a pooled LLM, *)
(* all or nothing for bash, and for a gateway all but the requests it had    *)
(* not done with, whatever the order in which they are answered              *)
(* (controller.py:893-910, openhands.py:643-717, bash.py:299-337).           *)
THEOREM ReportsAreExact == RequestSpec => []ReportExact
<1>1. RequestIInv => ReportExact
  <2> SUFFICES ASSUME RequestIInv, NEW c \in Callers, main[c] = "over"
               PROVE  /\ kind[c] = "pooled" => reported[c] = recorded[c]
                      /\ kind[c] = "bash" => reported[c] \in {0, recorded[c]}
                      /\ kind[c] = "gateway" =>
                           recorded[c] \in reported[c]..(reported[c] + behind[c])
    BY DEF ReportExact
  <2>1. Rep(c) /\ Typed
    BY DEF RequestIInv, Reports
  <2>2. /\ recorded[c] \in Nat /\ reported[c] \in Nat /\ behind[c] \in Nat
        /\ Due(c) \in Nat
    BY <2>1 DEF Typed, CountType, Due, Adding, NotDone
  <2> QED BY <2>1, <2>2 DEF Rep
<1> QED BY <1>1, RequestInvariant, PTL
=============================================================================
