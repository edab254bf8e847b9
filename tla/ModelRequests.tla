---------------------------- MODULE ModelRequests ----------------------------
(***************************************************************************)
(* The model requests of one job.  A caller is the executor of one attempt *)
(* and whoever sends its requests: the bash loop, a pooled OpenHands LLM,  *)
(* or the gateway of a remote OpenHands agent, a thread of its own that    *)
(* serves one request at a time.  A request of the agent becomes one or    *)
(* more physical requests; each has a credential lane (CredentialPool), a  *)
(* row in quota_reservations and a row in model_requests, every one        *)
(* committed by itself.  Attempts follow one another, but a controller     *)
(* that lost its lease goes on beside its successor.  Token and cost       *)
(* budgets, which are checked like the number of requests, are left out.   *)
(***************************************************************************)
EXTENDS Naturals, FiniteSets

CONSTANTS
  Callers,
  Kinds,       \* the kinds of caller of each instance: of [Callers -> Kind]
  Budget,      \* max_model_requests
  Failovers,   \* provider_request_failovers
  Retries,     \* rate_limit_, server_error_ and tool_protocol_retries
  Losable,     \* the callers whose controller may lose its lease
  Answers,     \* the answers a provider may give: a subset of Answer
  MaxAsks      \* bound: requests of one agent

Kind == {"bash", "pooled", "gateway"}
\* 429, 401 or 403, 5xx, 400 tool_use_failed, any other (not JSON, too), none in
\* time; or there is no key to send a request with.
Answer == {"ok", "limited", "denied", "error", "toolfail", "fatal", "silent", "nokey"}
ASSUME CallersAssumption == IsFiniteSet(Callers) /\ Losable \subseteq Callers
ASSUME LimitsAssumption == Budget \in Nat /\ Failovers \in Nat /\ Retries \in Nat
                           /\ MaxAsks \in Nat /\ Kinds \subseteq [Callers -> Kind]
                           /\ Answers \subseteq Answer

VARIABLES
  kind,      \* the kind of each caller
  main,      \* the executor: "off", "on", "ending", "reported", "over", "dead"
  step,      \* the request in hand: "idle" or the commit it comes to next
  answer,    \* the provider's answer to the physical request in hand
  tries,     \* the answers of each class retried, since the last wait
  waited,    \* the gateway has waited for a reset in this request
  lane,      \* the caller holds a RESERVED credential reservation
  quota,     \* its quota_reservations row: "none", "RESERVED", "RECONCILED"
  row,       \* its model_requests row: "none", "RESERVED", "STARTED", "closed"
  leftLanes, \* lanes, quota rows and request rows that were dropped while open,
  leftQuotas,   \* besides the one in hand: the thread does not know of them
  leftRows,
  started,   \* model_requests rows of the cycle with a started_at
  recorded,  \* successful replies in the caller's model_requests rows
  summed,    \* those the bash loop has added up
  reported,  \* those its ExecutionResult accounts for
  lost,      \* the callers whose controller lost its lease
  recovered, \* the callers whose attempt a recovery has closed
  asks,      \* requests of the agent
  waiting,   \* those that wait at the gateway for it to be done with another
  sends,     \* history: physical requests sent for the request in hand
  behind     \* history: requests not done when the caller's result was made

leftVars == <<leftLanes, leftQuotas, leftRows>>
ticketVars == <<lane, quota, row, leftVars>>
countVars == <<started, recorded, summed, reported>>
leaseVars == <<lost, recovered>>
askVars == <<asks, waiting>>
historyVars == <<sends, behind>>
requestVars == <<kind, main, step, answer, tries, waited, ticketVars, countVars,
                 leaseVars, askVars, historyVars>>

Class == {"limited", "error", "toolfail", "any"}
Step == {"idle", "reserve", "lane", "quota", "row", "start", "send",
         "closeRow", "closeQuota", "closeLane"}
None == [k \in Class |-> 0]

RequestTypeOK ==
  /\ kind \in Kinds
  /\ main \in [Callers -> {"off", "on", "ending", "reported", "over", "dead"}]
  /\ step \in [Callers -> Step] /\ answer \in [Callers -> Answer]
  /\ tries \in [Callers -> [Class -> Nat]] /\ waited \in [Callers -> BOOLEAN]
  /\ lane \in [Callers -> BOOLEAN]
  /\ quota \in [Callers -> {"none", "RESERVED", "RECONCILED"}]
  /\ row \in [Callers -> {"none", "RESERVED", "STARTED", "closed"}]
  /\ leftLanes \in [Callers -> Nat] /\ leftQuotas \in [Callers -> Nat]
  /\ leftRows \in [Callers -> Nat]
  /\ started \in Nat /\ recorded \in [Callers -> Nat] /\ summed \in [Callers -> Nat]
  /\ reported \in [Callers -> Nat]
  /\ lost \subseteq Callers /\ recovered \subseteq Callers
  /\ asks \in [Callers -> 0..MaxAsks] /\ waiting \in [Callers -> Nat]
  /\ sends \in [Callers -> Nat] /\ behind \in [Callers -> Nat]
  /\ \A c \in Callers : row[c] = "STARTED" => started > 0

RequestInit ==
  /\ kind \in Kinds
  /\ main = [c \in Callers |-> "off"] /\ step = [c \in Callers |-> "idle"]
  /\ answer = [c \in Callers |-> "ok"] /\ tries = [c \in Callers |-> None]
  /\ waited = [c \in Callers |-> FALSE] /\ lane = [c \in Callers |-> FALSE]
  /\ quota = [c \in Callers |-> "none"] /\ row = [c \in Callers |-> "none"]
  /\ leftLanes = [c \in Callers |-> 0] /\ leftQuotas = [c \in Callers |-> 0]
  /\ leftRows = [c \in Callers |-> 0]
  /\ started = 0 /\ recorded = [c \in Callers |-> 0]
  /\ summed = [c \in Callers |-> 0] /\ reported = [c \in Callers |-> 0]
  /\ lost = {} /\ recovered = {}
  /\ asks = [c \in Callers |-> 0] /\ waiting = [c \in Callers |-> 0]
  /\ sends = [c \in Callers |-> 0] /\ behind = [c \in Callers |-> 0]

Alive(c) == main[c] \in {"on", "ending", "reported"}
To(c, s) == step' = [step EXCEPT ![c] = s]
At(c, s) == Alive(c) /\ step[c] = s
Shared(c) == kind[c] = "gateway"   \* the gateway goes on without the agent

-----------------------------------------------------------------------------
(* The executor of an attempt.                                              *)

BeginAttempt(c) ==
  /\ main[c] = "off"
  /\ \A d \in Callers \ {c} : main[d] \in {"off", "over"} \/ d \in recovered
  /\ main' = [main EXCEPT ![c] = "on"]
  /\ UNCHANGED <<kind, step, answer, tries, waited, ticketVars, countVars,
                 leaseVars, askVars, historyVars>>

\* The agent of a gateway may have given up on a request, and asks again while
\* the gateway, which is serial, still works on it: the new one waits its turn.
Ask(c) ==
  /\ main[c] = "on" /\ (Shared(c) \/ step[c] = "idle") /\ asks[c] < MaxAsks
  /\ asks' = [asks EXCEPT ![c] = @ + 1]
  /\ IF step[c] = "idle" THEN To(c, "reserve") /\ UNCHANGED waiting
     ELSE waiting' = [waiting EXCEPT ![c] = @ + 1] /\ UNCHANGED step
  /\ UNCHANGED <<kind, main, answer, tries, waited, ticketVars, countVars, leaseVars,
                 historyVars>>
NextWaiting(c) ==
  /\ At(c, "idle") /\ waiting[c] > 0
  /\ waiting' = [waiting EXCEPT ![c] = @ - 1]
  /\ To(c, "reserve")
  /\ UNCHANGED <<kind, main, answer, tries, waited, ticketVars, countVars, leaseVars,
                 asks, historyVars>>

\* The result.  bash reports what it has added up, and nothing for an invalid
\* tool call; the others read the rows, a remote agent's run whether its gateway
\* is done or not.
NotDone(c) == waiting[c] + (IF step[c] = "idle" THEN 0 ELSE 1)
Report(c) ==
  /\ main[c] \in {"on", "ending"} /\ (Shared(c) \/ step[c] = "idle")
  /\ \/ reported' = [reported EXCEPT ![c] =
                       IF kind[c] = "bash" THEN summed[c] ELSE recorded[c]]
     \/ kind[c] = "bash" /\ main[c] = "on" /\ UNCHANGED reported
  /\ behind' = [behind EXCEPT ![c] = NotDone(c)]
  /\ main' = [main EXCEPT ![c] = "reported"]
  /\ UNCHANGED <<kind, step, answer, tries, waited, ticketVars, started, recorded,
                 summed, leaseVars, askVars, sends>>

\* gateway.close() waits for the request being served and drops those that wait;
\* the controller compares the result with the rows after it.
Close(c) ==
  /\ main[c] = "reported" /\ step[c] = "idle"
  /\ main' = [main EXCEPT ![c] = "over"]
  /\ waiting' = [waiting EXCEPT ![c] = 0]
  /\ UNCHANGED <<kind, step, answer, tries, waited, ticketVars, countVars,
                 leaseVars, asks, historyVars>>

-----------------------------------------------------------------------------
(* ModelRequestAccounting.reserve, commit by commit.                        *)

Onward(c, s) ==
  /\ To(c, s)
  /\ UNCHANGED <<kind, main, answer, tries, waited, leaseVars, askVars, historyVars>>

MutantCheckBudget(c) ==   \* > for >=
  /\ At(c, "reserve") /\ started <= Budget
  /\ Onward(c, "lane") /\ UNCHANGED <<ticketVars, countVars>>
CheckBudget(c) ==
  /\ At(c, "reserve") /\ started < Budget
  /\ Onward(c, "lane") /\ UNCHANGED <<ticketVars, countVars>>
TakeLane(c) ==
  /\ At(c, "lane") /\ lane' = [lane EXCEPT ![c] = TRUE]
  /\ Onward(c, "quota") /\ UNCHANGED <<quota, row, leftVars, countVars>>
BookQuota(c) ==
  /\ At(c, "quota") /\ quota' = [quota EXCEPT ![c] = "RESERVED"]
  /\ Onward(c, "row") /\ UNCHANGED <<lane, row, leftVars, countVars>>
EnterRow(c) ==
  /\ At(c, "row") /\ row' = [row EXCEPT ![c] = "RESERVED"]
  /\ Onward(c, "start") /\ UNCHANGED <<lane, quota, leftVars, countVars>>
MutantStartRow(c) ==   \* without started_at
  /\ At(c, "start") /\ row' = [row EXCEPT ![c] = "STARTED"]
  /\ Onward(c, "send") /\ UNCHANGED <<lane, quota, leftVars, countVars>>
StartRow(c) ==
  /\ At(c, "start") /\ row' = [row EXCEPT ![c] = "STARTED"]
  /\ started' = started + 1
  /\ Onward(c, "send") /\ UNCHANGED <<lane, quota, leftVars, recorded, summed, reported>>

-----------------------------------------------------------------------------
(* What the caller does with an answer, or with a refusal: the budget, a    *)
(* request too long for the lane's model, or no lane.                       *)

Again(c) ==      \* the next physical request of this request
  To(c, "reserve") /\ UNCHANGED <<main, answer, sends>>
Forgets(c) ==  \* what the thread knew of the request
  /\ To(c, "idle")
  /\ answer' = [answer EXCEPT ![c] = "ok"] /\ sends' = [sends EXCEPT ![c] = 0]
  /\ tries' = [tries EXCEPT ![c] = None] /\ waited' = [waited EXCEPT ![c] = FALSE]
Answered(c, ok) ==   \* bash and the run of a pooled LLM end on a failure
  /\ Forgets(c)
  /\ main' = IF ok \/ Shared(c) THEN main ELSE [main EXCEPT ![c] = "ending"]
MutantWaits(c) ==   \* a reset is waited for again and again
  /\ Shared(c)
  /\ tries' = [tries EXCEPT ![c] = None]
  /\ Again(c) /\ UNCHANGED waited
Waits(c) ==      \* a known reset, once, and the tries begin anew
  /\ Shared(c) /\ ~waited[c]
  /\ waited' = [waited EXCEPT ![c] = TRUE] /\ tries' = [tries EXCEPT ![c] = None]
  /\ Again(c)

Refused(c) ==
  /\ \/ At(c, "reserve")   \* budget or context: the latter is seen first
     \/ At(c, "lane")
  /\ Waits(c) \/ Answered(c, FALSE)
  /\ UNCHANGED <<kind, ticketVars, countVars, leaseVars, askVars, behind>>

Retried(c) ==    \* the answers after which there is another try
  CASE kind[c] = "gateway" -> {"limited", "denied", "error", "silent"}
    [] kind[c] = "pooled"  -> {"limited", "denied", "error"}
    [] OTHER               -> {"limited", "error", "toolfail"}
ClassOf(c, a) == IF kind[c] = "bash" THEN a ELSE "any"
MutantMore(c, a) ==   \* one more than configured
  /\ a \in Retried(c)
  /\ tries[c][ClassOf(c, a)] <= (IF kind[c] = "bash" THEN Retries ELSE Failovers)
More(c, a) ==
  /\ a \in Retried(c)
  /\ tries[c][ClassOf(c, a)] < (IF kind[c] = "bash" THEN Retries ELSE Failovers)

-----------------------------------------------------------------------------
(* The physical request, and succeed() or fail().                           *)

Send(c, a) ==
  /\ At(c, "send")
  /\ answer' = [answer EXCEPT ![c] = a]
  /\ sends' = IF a = "nokey" THEN sends ELSE [sends EXCEPT ![c] = @ + 1]
  /\ To(c, "closeRow")
  /\ UNCHANGED <<kind, main, tries, waited, ticketVars, countVars, leaseVars, askVars,
                 behind>>
\* JSON that is not an object: the gateway's handler dies of an AttributeError,
\* and with it all knowledge of the ticket, whose lane and rows stay open; the
\* server goes on.
Trip(c) ==
  /\ At(c, "send") /\ Shared(c)
  /\ leftLanes' = [leftLanes EXCEPT ![c] = @ + 1]
  /\ leftQuotas' = [leftQuotas EXCEPT ![c] = IF quota[c] = "RESERVED" THEN @ + 1 ELSE @]
  /\ leftRows' = [leftRows EXCEPT ![c] = IF row[c] = "STARTED" THEN @ + 1 ELSE @]
  /\ lane' = [lane EXCEPT ![c] = FALSE] /\ quota' = [quota EXCEPT ![c] = "none"]
  /\ row' = [row EXCEPT ![c] = "none"]
  /\ Answered(c, FALSE)
  /\ UNCHANGED <<kind, countVars, leaseVars, askVars, behind>>

CloseRow(c) ==
  /\ At(c, "closeRow") /\ row' = [row EXCEPT ![c] = "closed"]
  /\ recorded' = [recorded EXCEPT ![c] = IF answer[c] = "ok" THEN @ + 1 ELSE @]
  /\ Onward(c, "closeQuota") /\ UNCHANGED <<lane, quota, leftVars, started, summed, reported>>
CloseQuota(c) ==
  /\ At(c, "closeQuota") /\ quota' = [quota EXCEPT ![c] = "RECONCILED"]
  /\ Onward(c, "closeLane") /\ UNCHANGED <<lane, row, leftVars, countVars>>
MutantTally(c) ==   \* a reply counts whatever it was
  summed' = [summed EXCEPT ![c] = IF kind[c] = "bash" THEN @ + 1 ELSE @]
Tally(c) ==      \* the tokens of a reply that was recorded
  summed' = [summed EXCEPT ![c] = IF kind[c] = "bash" /\ answer[c] = "ok" THEN @ + 1 ELSE @]
CloseLane(c) ==
  /\ At(c, "closeLane") /\ lane' = [lane EXCEPT ![c] = FALSE] /\ Tally(c)
  /\ LET a == answer[c]
     IN \/ a = "ok" /\ Answered(c, TRUE)
        \/ /\ More(c, a) /\ Again(c) /\ UNCHANGED waited
           /\ tries' = [tries EXCEPT ![c][ClassOf(c, a)] = @ + 1]
        \/ a = "limited" /\ ~More(c, a) /\ Waits(c)
        \/ a # "ok" /\ ~More(c, a) /\ Answered(c, FALSE)
  /\ UNCHANGED <<kind, quota, row, leftVars, started, recorded, reported, leaseVars,
                 askVars, behind>>

-----------------------------------------------------------------------------
(* Kills, lost leases and the recovery of the job by another process: it    *)
(* closes the RUNNING attempts, their open rows and every open quota row,   *)
(* and leaves the lanes.                                                    *)

KillCaller(c) ==
  /\ Alive(c) /\ main' = [main EXCEPT ![c] = "dead"] /\ Forgets(c)
  /\ waiting' = [waiting EXCEPT ![c] = 0]
  /\ UNCHANGED <<kind, ticketVars, countVars, leaseVars, asks, behind>>
Lose(c) ==
  /\ Alive(c) /\ c \in Losable \ lost /\ lost' = lost \cup {c}
  /\ UNCHANGED <<kind, main, step, answer, tries, waited, ticketVars, countVars,
                 recovered, askVars, historyVars>>
Running == {c \in Callers : main[c] \notin {"off", "over"}} \ recovered
MutantRecover ==   \* the quota rows of the RUNNING attempts are left open
  /\ Running # {} /\ \A c \in Running : main[c] = "dead" \/ c \in lost
  /\ recovered' = recovered \cup Running
  /\ row' = [c \in Callers |-> IF c \in Running /\ row[c] \in {"RESERVED", "STARTED"}
                               THEN "closed" ELSE row[c]]
  /\ leftRows' = [c \in Callers |-> IF c \in Running THEN 0 ELSE leftRows[c]]
  /\ UNCHANGED <<kind, main, step, answer, tries, waited, lane, quota, leftLanes,
                 leftQuotas, countVars, lost, askVars, historyVars>>
Recover ==
  /\ Running # {} /\ \A c \in Running : main[c] = "dead" \/ c \in lost
  /\ recovered' = recovered \cup Running
  /\ quota' = [c \in Callers |-> IF quota[c] = "RESERVED" THEN "RECONCILED" ELSE quota[c]]
  /\ leftQuotas' = [c \in Callers |-> 0]
  /\ row' = [c \in Callers |-> IF c \in Running /\ row[c] \in {"RESERVED", "STARTED"}
                               THEN "closed" ELSE row[c]]
  /\ leftRows' = [c \in Callers |-> IF c \in Running THEN 0 ELSE leftRows[c]]
  /\ UNCHANGED <<kind, main, step, answer, tries, waited, lane, leftLanes, countVars,
                 lost, askVars, historyVars>>

Handling(c) ==   \* what a request in hand comes to by itself
  \/ CheckBudget(c) \/ TakeLane(c) \/ BookQuota(c) \/ EnterRow(c) \/ StartRow(c)
  \/ Refused(c) \/ Trip(c) \/ CloseRow(c) \/ CloseQuota(c) \/ CloseLane(c)
  \/ NextWaiting(c) \/ \E a \in Answers : Send(c, a)
RequestNext ==
  \/ Recover
  \/ \E c \in Callers :
       \/ BeginAttempt(c) \/ Ask(c) \/ Handling(c) \/ Report(c) \/ Close(c)
       \/ KillCaller(c) \/ Lose(c)
\* Threads run, and a provider that does not answer ends in a timeout.
RequestFairness ==
  \A c \in Callers : WF_requestVars(Handling(c)) /\ WF_requestVars(Close(c))
RequestSpec == RequestInit /\ [][RequestNext]_requestVars
FairRequestSpec == RequestSpec /\ RequestFairness

-----------------------------------------------------------------------------
(* The budget read in one transaction and counted up in another is exceeded  *)
(* by at most one request for each controller that goes on without its lease *)
(* (accounting.py:101-105, db.py:1531).                                      *)
BudgetKept == started <= Budget + Cardinality(lost)

(* One request of the agent never costs more physical requests than its      *)
(* retries allow, twice that with a wait for a reset, whatever the order of  *)
(* the answers (provider_gateway.py:131-275, bash.py:185-262).               *)
Allowance(c) ==
  CASE kind[c] = "gateway" -> 2 * (Failovers + 1)
    [] kind[c] = "pooled"  -> Failovers + 1
    [] OTHER               -> 3 * Retries + 1
SendsBounded == \A c \in Callers : sends[c] <= Allowance(c)

(* What stays open.  A caller between requests or at its end has closed the  *)
(* ticket it knows of, and a recovery closes the rows of a dead one.  What    *)
(* stays is what a gateway dropped: a lane, a quota row and a request row for *)
(* a reply it tripped over, at most one per request of the agent; a recovery  *)
(* closes the quota rows of the job, the request rows only of attempts that   *)
(* are RUNNING, and no lane (accounting.py:158-231, provider_gateway.py:263,  *)
(* db.py:1863-1874).                                                          *)
Open(c) == quota[c] = "RESERVED" \/ row[c] \in {"RESERVED", "STARTED"}
Settled ==
  \A c \in Callers :
    /\ main[c] # "dead" /\ (main[c] = "over" \/ step[c] = "idle") =>
         ~Open(c) /\ ~lane[c]
    /\ main[c] = "dead" /\ c \in recovered \ lost =>
         ~Open(c) /\ leftQuotas[c] = 0 /\ leftRows[c] = 0
    /\ leftLanes[c] # 0 => Shared(c) /\ leftLanes[c] <= asks[c]
    /\ leftQuotas[c] <= leftLanes[c] /\ leftRows[c] <= leftLanes[c]
    /\ c \notin recovered => leftRows[c] = leftLanes[c]

(* The controller compares what an executor reports with what its requests   *)
(* recorded, and takes a good attempt for a policy failure when they differ. *)
(* They agree for a pooled LLM; bash reports all of it, or nothing for an     *)
(* invalid tool call; the result of a remote agent lacks at most the requests *)
(* its gateway had not done with, and counts none twice                       *)
(* (controller.py:893-910, openhands.py:643-717, bash.py:299-337).            *)
ReportExact ==
  \A c \in Callers :
    main[c] = "over" =>
      /\ kind[c] = "pooled" => reported[c] = recorded[c]
      /\ kind[c] = "bash" => reported[c] \in {0, recorded[c]}
      /\ kind[c] = "gateway" => recorded[c] \in reported[c]..(reported[c] + behind[c])

(* Every request of an agent is answered, those that wait at the gateway too, *)
(* or its controller is killed (provider_gateway.py:131-303).                 *)
AlwaysAnswered == \A c \in Callers : []<>(step[c] = "idle" /\ waiting[c] = 0)
=============================================================================
