--------------------------- MODULE JobLifecycle ---------------------------
(***************************************************************************)
(* The life of one PMC job as its rows in the SQLite control plane see it: *)
(* controllers that lease the job, dispatch attempts, verify and review    *)
(* them; the recovery every new controller performs; the operator commands *)
(* accept, reject, cancel, reverify and cleanup; processes that are killed *)
(* and leases that lapse.  Jobs share no row of this module, so one job    *)
(* with any number of controllers stands for all of them.                  *)
(*                                                                         *)
(* One action is one database commit (or one external effect such as the  *)
(* executor writing the worktree): a process can be killed, and another    *)
(* can run, between any two of them.  An Accept, for example, is three     *)
(* actions, because the code reads, commits in Git and commits in SQLite.  *)
(* A guard read just before a commit is part of its action.  A command's   *)
(* process also recovers lapsed jobs when it starts: a controller that     *)
(* recovers and never picks the job.                                       *)
(***************************************************************************)
EXTENDS Naturals, Sequences

CONSTANTS
  Controllers,    \* Controller instances; a killed one never comes back
  NoOne,          \* the owner of a lease row that does not exist
  Modes,          \* which loops run jobs: "run", "daemon", "program"
  HumanOps,       \* the operator commands in use
  Texts,          \* feedback texts of rejections
  Budget,         \* min(budget.max_attempts, 1 + budget.max_repairs)
  RecoveryLimit,  \* cfg.max_attempts, the limit recovery applies
  Killable,       \* the controllers that may be killed (bounds the kills)
  Overlap,        \* may a controller start while another one is alive?
  MaxStalls,      \* bound: lapses of the lease of a controller still alive
  MaxRejects      \* bound: rejections by the operator

ASSUME ControllersAssumption == NoOne \notin Controllers
ASSUME ModesAssumption == Modes \subseteq {"run", "daemon", "program"}
ASSUME BudgetAssumption == Budget \in Nat /\ RecoveryLimit \in Nat
ASSUME BoundsAssumption == MaxStalls \in Nat /\ MaxRejects \in Nat

VARIABLES
  state,       \* jobs.state
  attempts,    \* attempts.status, by attempt_no
  feedback,    \* human_feedback rows: <<attempt_no or 0, text>>
  cycleStart,  \* number of attempts started when feedback was last inserted
  accepted,    \* the attempt the ACCEPT feedback names, 0 before
  commit,      \* jobs.accepted_commit: what the worktree held when it was made
  prepared,    \* jobs.worktree is set and the directory exists
  sound,       \* the verifier passed on exactly what the worktree holds now
  holder,      \* leases.owner, NoOne when there is no row
  lapsed,      \* leases.expires_at is in the past
  pc,          \* where each controller is
  mode,        \* the loop a controller runs the job for
  memo,        \* the job state a controller read and may write back
               \* ("QUEUED" while that no longer matters)
  total,       \* local total_attempts, counting the attempt in hand
  cycle,       \* local cycle_attempts, counting the attempt in hand
  seen,        \* what the SELECT and the clock of a recovery found
  op,          \* where the operator's command is
  opState,     \* the job state that command read
  opAttempt,   \* the attempt that command read
  built,       \* whether the Git commit the command made holds sound content
  stalls, rejects

jobVars   == <<state, attempts, feedback, cycleStart, accepted, commit>>
treeVars  == <<prepared, sound>>
leaseVars == <<holder, lapsed>>
ctlVars   == <<pc, mode, memo, total, cycle, seen>>
opVars    == <<op, opState, opAttempt, built>>
bounds    == <<stalls, rejects>>
vars == <<jobVars, treeVars, leaseVars, ctlVars, opVars, bounds>>

-----------------------------------------------------------------------------
(* State spaces *)

JobState == {"QUEUED", "RUNNING", "VERIFYING", "REVIEWING", "READY", "RETRY",
             "BLOCKED", "FAILED", "CANCELLED", "ACCEPTED"}
AttemptStatus == {"RUNNING", "EXECUTOR_FAILED", "VERIFY_FAILED",
                  "REVIEW_FAILED", "READY", "CANCELLED"}
InFlightState == {"RUNNING", "VERIFYING", "REVIEWING"}
Dispatchable  == {"QUEUED", "RETRY"}
Rejectable    == {"READY", "FAILED", "RETRY", "BLOCKED"}

\* Between begin_attempt and finish_attempt, and inside the lease.
Attempting == {"executing", "executed", "verifying", "verified", "reviewing"}
Leased == Attempting \cup {"acquired", "loaded", "loop", "dispatched",
                           "settling", "release", "raised"}
Stages == Leased \cup {"off", "scanned", "idle", "picked", "escaped", "dead"}
OpStages == {"none", "accept", "committed", "reject", "cancel",
             "reverify", "reverified", "unverified", "promoted", "cleanup"}

TypeOK ==
  /\ state \in JobState
  /\ attempts \in Seq(AttemptStatus)
  /\ feedback \in SUBSET (Nat \X (Texts \cup {"ACCEPT"}))
  /\ cycleStart \in Nat /\ accepted \in Nat
  /\ commit \in {"none", "sound", "unsound"}
  /\ prepared \in BOOLEAN /\ sound \in BOOLEAN
  /\ holder \in Controllers \cup {NoOne} /\ lapsed \in BOOLEAN
  /\ pc \in [Controllers -> Stages]
  /\ mode \in [Controllers -> {"run", "daemon", "program"}]
  /\ memo \in [Controllers -> JobState]
  /\ total \in [Controllers -> Nat] /\ cycle \in [Controllers -> Nat]
  /\ seen \in [Controllers -> SUBSET {"job", "lease"}]
  /\ op \in OpStages /\ opState \in JobState /\ opAttempt \in Nat
  /\ built \in BOOLEAN
  /\ stalls \in 0..MaxStalls /\ rejects \in 0..MaxRejects

Init ==
  /\ state = "QUEUED" /\ attempts = <<>> /\ feedback = {} /\ cycleStart = 0
  /\ accepted = 0 /\ commit = "none"
  /\ prepared = FALSE /\ sound = FALSE
  /\ holder = NoOne /\ lapsed = FALSE
  /\ pc = [c \in Controllers |-> "off"]
  /\ mode = [c \in Controllers |-> "run"]
  /\ memo = [c \in Controllers |-> "QUEUED"]
  /\ total = [c \in Controllers |-> 0] /\ cycle = [c \in Controllers |-> 0]
  /\ seen = [c \in Controllers |-> {}]
  /\ op = "none" /\ opState = "QUEUED" /\ opAttempt = 0 /\ built = FALSE
  /\ stalls = 0 /\ rejects = 0

-----------------------------------------------------------------------------
(* Helpers.  A definition whose name begins with Mutant is a deliberately   *)
(* wrong variant of the one after it, for showing that a property can fail. *)

Goto(c, stage) == pc' = [pc EXCEPT ![c] = stage]
ReadyAttempts  == {n \in DOMAIN attempts : attempts[n] = "READY"}
\* attempt_count_since_latest_feedback
MutantCycleAttempts == 0   \* a restart forgets the attempts of this cycle
CycleAttempts == Len(attempts) - cycleStart
\* Every attempt still RUNNING is closed with the given status.
MutantCloseRunning(status) ==   \* the rows are deleted instead
  [n \in {m \in DOMAIN attempts : attempts[m] # "RUNNING"} |-> attempts[n]]
CloseRunning(status) ==
  [n \in DOMAIN attempts |->
     IF attempts[n] = "RUNNING" THEN status ELSE attempts[n]]
\* latest_ready_attempt_id: the highest READY attempt, 0 when there is none.
LatestReady ==
  IF ReadyAttempts = {} THEN 0
  ELSE CHOOSE n \in ReadyAttempts : \A m \in ReadyAttempts : m <= n
\* A row is added unless the same row exists; its created_at opens a cycle.
RecordFeedback(row) ==
  IF row \in feedback THEN UNCHANGED <<feedback, cycleStart>>
  ELSE /\ feedback' = feedback \cup {row}
       /\ cycleStart' = Len(attempts)
\* The attempt in hand of controller c gets its final status.
FinishAttempt(c, status) ==
  attempts' = [attempts EXCEPT ![total[c]] = status]

-----------------------------------------------------------------------------
(* Recovery of lapsed jobs, run by every new Controller and by every turn   *)
(* of a program supervisor.  The SELECT runs outside the transaction that   *)
(* the first UPDATE opens, so what it listed may be out of date by then.    *)

Others(c) == Controllers \ {c}
LeaseLapsed == holder # NoOne /\ lapsed

MutantRecoverable ==   \* INNER JOIN leases: jobs without a lease row are missed
  state \in InFlightState /\ LeaseLapsed
Recoverable == state \in InFlightState /\ (holder = NoOne \/ lapsed)

RecoverList(c) ==
  /\ \/ /\ pc[c] = "off"
        /\ Overlap \/ \A d \in Others(c) : pc[d] \in {"off", "dead"}
     \/ pc[c] = "idle" /\ "program" \in Modes
  /\ seen' = [seen EXCEPT ![c] =
       {x \in {"job", "lease"} : \/ x = "job" /\ Recoverable
                                 \/ x = "lease" /\ LeaseLapsed}]
  /\ Goto(c, "scanned")
  /\ UNCHANGED <<jobVars, treeVars, leaseVars, mode, memo, total, cycle,
                 opVars, bounds>>

\* Recovery of a listed job: its state is set from its attempts, whatever it
\* has become since; its RUNNING attempts fail; its lease row goes.
MutantRecoveredState ==   \* any attempt counts as finished work
  IF attempts # <<>> THEN "READY" ELSE "RETRY"
RecoveredState ==
  IF ReadyAttempts # {} THEN "READY"
  ELSE IF Len(attempts) >= RecoveryLimit THEN "FAILED" ELSE "RETRY"

RecoverJob(c) ==
  /\ pc[c] = "scanned" /\ "job" \in seen[c]
  /\ state' = RecoveredState
  /\ attempts' = CloseRunning("EXECUTOR_FAILED")
  /\ holder' = NoOne /\ lapsed' = FALSE
  /\ seen' = [seen EXCEPT ![c] = {}]
  /\ Goto(c, "idle")
  /\ UNCHANGED <<feedback, cycleStart, accepted, commit, treeVars, mode, memo,
                 total, cycle, opVars, bounds>>

\* Recovery of a job that was not listed only drops a lease that had lapsed.
RecoverRest(c) ==
  /\ pc[c] = "scanned" /\ "job" \notin seen[c]
  /\ IF "lease" \in seen[c] /\ LeaseLapsed
     THEN holder' = NoOne /\ lapsed' = FALSE
     ELSE UNCHANGED leaseVars
  /\ seen' = [seen EXCEPT ![c] = {}]
  /\ Goto(c, "idle")
  /\ UNCHANGED <<jobVars, treeVars, mode, memo, total, cycle, opVars, bounds>>

-----------------------------------------------------------------------------
(* Taking the job and its lease *)

\* queued_jobs or program_ready_jobs lists the job; `pmc run` names any job.
Pick(c, m) ==
  /\ pc[c] = "idle"
  /\ m = "run" \/ state \in Dispatchable
  /\ mode' = [mode EXCEPT ![c] = m]
  /\ Goto(c, "picked")
  /\ UNCHANGED <<jobVars, treeVars, leaseVars, memo, total, cycle, seen,
                 opVars, bounds>>

Acquire(c) ==
  /\ pc[c] = "picked"
  /\ holder \in {NoOne, c} \/ lapsed
  /\ holder' = c /\ lapsed' = FALSE
  /\ Goto(c, "acquired")
  /\ UNCHANGED <<jobVars, treeVars, mode, memo, total, cycle, seen, opVars,
                 bounds>>

\* LeaseBusy: a program supervisor takes it for a crashed worker and blocks
\* the job; the other loops only report it.
Busy(c) ==
  /\ pc[c] = "picked"
  /\ holder \notin {NoOne, c} /\ ~lapsed
  /\ state' = IF mode[c] = "program" THEN "BLOCKED" ELSE state
  /\ mode' = [mode EXCEPT ![c] = "run"]
  /\ Goto(c, "idle")
  /\ UNCHANGED <<attempts, feedback, cycleStart, accepted, commit, treeVars,
                 leaseVars, memo, total, cycle, seen, opVars, bounds>>

\* The row with inferred capabilities is written back as it was just read.
Load(c) ==
  /\ pc[c] = "acquired"
  /\ memo' = [memo EXCEPT ![c] = state]
  /\ Goto(c, "loaded")
  /\ UNCHANGED <<jobVars, treeVars, leaseVars, mode, total, cycle, seen,
                 opVars, bounds>>

\* ensure_worktree writes the whole job row back when it creates a worktree,
\* the state as loaded included; then the attempts so far are counted.
Prepare(c) ==
  /\ pc[c] = "loaded"
  /\ prepared' = TRUE
  /\ sound' = (prepared /\ sound)
  /\ state' = IF prepared THEN state ELSE memo[c]
  /\ memo' = [memo EXCEPT ![c] = "QUEUED"]
  /\ IF memo[c] \in {"ACCEPTED", "CANCELLED"}
     THEN /\ Goto(c, "raised")
          /\ UNCHANGED <<total, cycle>>
     ELSE /\ Goto(c, "loop")
          /\ total' = [total EXCEPT ![c] = Len(attempts)]
          /\ cycle' = [cycle EXCEPT ![c] = CycleAttempts]
  /\ UNCHANGED <<attempts, feedback, cycleStart, accepted, commit, leaseVars,
                 mode, seen, opVars, bounds>>

\* The heartbeat thread.  It stops at its first renewal that finds the row
\* gone or taken, and nobody tells the thread that runs the job.
Renew(c) ==
  /\ pc[c] \in Leased
  /\ holder = c /\ lapsed
  /\ lapsed' = FALSE
  /\ UNCHANGED <<jobVars, treeVars, holder, ctlVars, opVars, bounds>>
-----------------------------------------------------------------------------
(* The attempt loop of _run_job_locked *)

\* The budget of the cycle, or the wall clock, is exhausted.
GiveUp(c) ==
  /\ pc[c] = "loop"
  /\ state' = "FAILED"
  /\ Goto(c, "release")
  /\ UNCHANGED <<attempts, feedback, cycleStart, accepted, commit, treeVars,
                 leaseVars, mode, memo, total, cycle, seen, opVars, bounds>>

\* No candidate has the capabilities the job requires.
BlockCapability(c) ==
  /\ pc[c] = "loop" /\ cycle[c] < Budget
  /\ state' = "BLOCKED"
  /\ Goto(c, "release")
  /\ UNCHANGED <<attempts, feedback, cycleStart, accepted, commit, treeVars,
                 leaseVars, mode, memo, total, cycle, seen, opVars, bounds>>

Dispatch(c) ==
  /\ pc[c] = "loop" /\ cycle[c] < Budget
  /\ state' = "RUNNING"
  /\ Goto(c, "dispatched")
  /\ UNCHANGED <<attempts, feedback, cycleStart, accepted, commit, treeVars,
                 leaseVars, mode, memo, total, cycle, seen, opVars, bounds>>

\* UNIQUE(job_id, attempt_no): the INSERT succeeds for the next number only.
MutantBeginAttempt(c) ==   \* INSERT OR REPLACE
  /\ pc[c] = "dispatched"
  /\ attempts' = [n \in DOMAIN attempts \cup {total[c] + 1} |->
       IF n = total[c] + 1 THEN "RUNNING" ELSE attempts[n]]
  /\ total' = [total EXCEPT ![c] = @ + 1]
  /\ cycle' = [cycle EXCEPT ![c] = @ + 1]
  /\ Goto(c, "executing")
  /\ UNCHANGED <<state, feedback, cycleStart, accepted, commit, treeVars,
                 leaseVars, mode, memo, seen, opVars, bounds>>
BeginAttempt(c) ==
  /\ pc[c] = "dispatched"
  /\ total[c] = Len(attempts)
  /\ attempts' = Append(attempts, "RUNNING")
  /\ total' = [total EXCEPT ![c] = @ + 1]
  /\ cycle' = [cycle EXCEPT ![c] = @ + 1]
  /\ Goto(c, "executing")
  /\ UNCHANGED <<state, feedback, cycleStart, accepted, commit, treeVars,
                 leaseVars, mode, memo, seen, opVars, bounds>>

\* Another controller began that attempt: IntegrityError.
DuplicateAttempt(c) ==
  /\ pc[c] = "dispatched"
  /\ total[c] # Len(attempts)
  /\ Goto(c, "raised")
  /\ UNCHANGED <<jobVars, treeVars, leaseVars, mode, memo, total, cycle, seen,
                 opVars, bounds>>

\* reserve_resource refused: an attempt is spent without an executor.
ResourceBusy(c) ==
  /\ pc[c] = "executing"
  /\ FinishAttempt(c, "EXECUTOR_FAILED")
  /\ memo' = [memo EXCEPT ![c] = "RETRY"]
  /\ Goto(c, "settling")
  /\ UNCHANGED <<state, feedback, cycleStart, accepted, commit, treeVars,
                 leaseVars, mode, total, cycle, seen, opVars, bounds>>

\* The executor changes the worktree.
Execute(c) ==
  /\ pc[c] = "executing"
  /\ sound' = FALSE
  /\ Goto(c, "executed")
  /\ UNCHANGED <<jobVars, prepared, leaseVars, mode, memo, total, cycle, seen,
                 opVars, bounds>>

\* The outcome's policy decides: retry, block, or end (Outcome.CANCELLED).
\* A resource failure also resets the worktree to the baseline.
ExecutorFails(c) ==
  /\ pc[c] = "executed"
  /\ FinishAttempt(c, "EXECUTOR_FAILED")
  /\ \E outcome \in {"RETRY", "BLOCKED", "FAILED"} :
       memo' = [memo EXCEPT ![c] = outcome]
  /\ sound' \in {sound, FALSE}
  /\ Goto(c, "settling")
  /\ UNCHANGED <<state, feedback, cycleStart, accepted, commit, prepared,
                 leaseVars, mode, total, cycle, seen, opVars, bounds>>

ExecutorSucceeds(c) ==
  /\ pc[c] = "executed" /\ prepared
  /\ state' = "VERIFYING"
  /\ Goto(c, "verifying")
  /\ UNCHANGED <<attempts, feedback, cycleStart, accepted, commit, treeVars,
                 leaseVars, mode, memo, total, cycle, seen, opVars, bounds>>

VerifyPasses(c) ==
  /\ pc[c] = "verifying" /\ prepared
  /\ sound' = TRUE
  /\ Goto(c, "verified")
  /\ UNCHANGED <<jobVars, prepared, leaseVars, mode, memo, total, cycle, seen,
                 opVars, bounds>>

\* A security or policy failure blocks; a scope failure resets the worktree.
VerifyFails(c) ==
  /\ pc[c] = "verifying" /\ prepared
  /\ FinishAttempt(c, "VERIFY_FAILED")
  /\ \E outcome \in {"RETRY", "BLOCKED"} :
       memo' = [memo EXCEPT ![c] = outcome]
  /\ sound' \in {sound, FALSE}
  /\ Goto(c, "settling")
  /\ UNCHANGED <<state, feedback, cycleStart, accepted, commit, prepared,
                 leaseVars, mode, total, cycle, seen, opVars, bounds>>

StartReview(c) ==
  /\ pc[c] = "verified"
  /\ state' = "REVIEWING"
  /\ Goto(c, "reviewing")
  /\ UNCHANGED <<attempts, feedback, cycleStart, accepted, commit, treeVars,
                 leaseVars, mode, memo, total, cycle, seen, opVars, bounds>>

ReviewRejects(c) ==
  /\ pc[c] = "reviewing"
  /\ FinishAttempt(c, "REVIEW_FAILED")
  /\ memo' = [memo EXCEPT ![c] = "RETRY"]
  /\ Goto(c, "settling")
  /\ UNCHANGED <<state, feedback, cycleStart, accepted, commit, treeVars,
                 leaseVars, mode, total, cycle, seen, opVars, bounds>>

\* No review is due, or every reviewer approved.
FinishReady(c) ==
  /\ pc[c] \in {"verified", "reviewing"}
  /\ FinishAttempt(c, "READY")
  /\ memo' = [memo EXCEPT ![c] = "READY"]
  /\ Goto(c, "settling")
  /\ UNCHANGED <<state, feedback, cycleStart, accepted, commit, treeVars,
                 leaseVars, mode, total, cycle, seen, opVars, bounds>>

\* set_state after finish_attempt: a second commit, and unconditional.
Settle(c) ==
  /\ pc[c] = "settling"
  /\ state' = memo[c]
  /\ memo' = [memo EXCEPT ![c] = "QUEUED"]
  /\ Goto(c, IF memo[c] = "RETRY" THEN "loop" ELSE "release")
  /\ UNCHANGED <<attempts, feedback, cycleStart, accepted, commit, treeVars,
                 leaseVars, mode, total, cycle, seen, opVars, bounds>>

\* An exception anywhere inside the lease: dependency conflict, no available
\* candidate or reviewer, no credential, a Git, verifier or database error.
\* The attempt in hand keeps its status, RUNNING for most of the loop.
Raise(c) ==
  /\ pc[c] \in Leased \ {"raised"}
  /\ Goto(c, "raised")
  /\ UNCHANGED <<jobVars, treeVars, leaseVars, mode, memo, total, cycle, seen,
                 opVars, bounds>>

\* The lease is given up, by its owner only; the locals are gone.
MutantRelease(c) ==   \* DELETE FROM leases WHERE job_id=?
  /\ pc[c] \in {"release", "raised"}
  /\ holder' = NoOne /\ lapsed' = FALSE
  /\ Goto(c, IF pc[c] = "raised" THEN "escaped" ELSE "idle")
  /\ memo' = [memo EXCEPT ![c] = "QUEUED"]
  /\ total' = [total EXCEPT ![c] = 0] /\ cycle' = [cycle EXCEPT ![c] = 0]
  /\ mode' = IF pc[c] = "raised" THEN mode ELSE [mode EXCEPT ![c] = "run"]
  /\ UNCHANGED <<jobVars, treeVars, seen, opVars, bounds>>
Release(c) ==
  /\ pc[c] \in {"release", "raised"}
  /\ IF holder = c THEN holder' = NoOne /\ lapsed' = FALSE
                   ELSE UNCHANGED leaseVars
  /\ Goto(c, IF pc[c] = "raised" THEN "escaped" ELSE "idle")
  /\ memo' = [memo EXCEPT ![c] = "QUEUED"]
  /\ total' = [total EXCEPT ![c] = 0] /\ cycle' = [cycle EXCEPT ![c] = 0]
  /\ mode' = IF pc[c] = "raised" THEN mode ELSE [mode EXCEPT ![c] = "run"]
  /\ UNCHANGED <<jobVars, treeVars, seen, opVars, bounds>>

\* The exception reaches the loop: a daemon and a program block the job.
Escape(c) ==
  /\ pc[c] = "escaped"
  /\ state' = IF mode[c] = "run" THEN state ELSE "BLOCKED"
  /\ mode' = [mode EXCEPT ![c] = "run"]
  /\ Goto(c, "idle")
  /\ UNCHANGED <<attempts, feedback, cycleStart, accepted, commit, treeVars,
                 leaseVars, memo, total, cycle, seen, opVars, bounds>>

-----------------------------------------------------------------------------
(* Operator commands.  They take no lease; one command runs at a time. *)

EndOp == op' = "none" /\ opState' = "QUEUED" /\ opAttempt' = 0 /\ built' = FALSE
Asks(command) == op = "none" /\ command \in HumanOps

\* accept: the job is read ...
MutantAcceptCheck ==   \* the state of the job is not asked for
  /\ Asks("accept") /\ prepared
  /\ op' = "accept"
  /\ UNCHANGED <<jobVars, treeVars, leaseVars, ctlVars, opState, opAttempt,
                 built, bounds>>
AcceptCheck ==
  /\ Asks("accept") /\ state = "READY" /\ prepared
  /\ op' = "accept"
  /\ UNCHANGED <<jobVars, treeVars, leaseVars, ctlVars, opState, opAttempt,
                 built, bounds>>

\* ... the worktree is committed, or an earlier commit of a clean tree found ...
AcceptCommit ==
  /\ op = "accept" /\ prepared
  /\ op' = "committed" /\ built' = sound
  /\ UNCHANGED <<jobVars, treeVars, leaseVars, ctlVars, opState, opAttempt,
                 bounds>>

\* ... and one transaction records decision, commit and state.
AcceptComplete ==
  /\ op = "committed" /\ LatestReady # 0
  /\ RecordFeedback(<<LatestReady, "ACCEPT">>)
  /\ accepted' = LatestReady
  /\ commit' = IF built THEN "sound" ELSE "unsound"
  /\ state' = "ACCEPTED"
  /\ EndOp
  /\ UNCHANGED <<attempts, treeVars, leaseVars, ctlVars, bounds>>

\* reject: the feedback is inserted unless the same text was given before for
\* the same attempt; the job is set to RETRY in a second commit.
RejectRecord(text) ==
  /\ Asks("reject") /\ state \in Rejectable
  /\ rejects < MaxRejects /\ rejects' = rejects + 1
  /\ RecordFeedback(<<LatestReady, text>>)
  /\ op' = "reject"
  /\ UNCHANGED <<state, attempts, accepted, commit, treeVars, leaseVars,
                 ctlVars, opState, opAttempt, built, stalls>>

RejectStore ==
  /\ op = "reject"
  /\ state' = "RETRY"
  /\ EndOp
  /\ UNCHANGED <<attempts, feedback, cycleStart, accepted, commit, treeVars,
                 leaseVars, ctlVars, bounds>>

\* cancel: RUNNING attempts first, the job after; no controller is stopped.
CancelAttempts ==
  /\ Asks("cancel") /\ state # "ACCEPTED"
  /\ attempts' = CloseRunning("CANCELLED")
  /\ op' = "cancel"
  /\ UNCHANGED <<state, feedback, cycleStart, accepted, commit, treeVars,
                 leaseVars, ctlVars, opState, opAttempt, built, bounds>>

CancelStore ==
  /\ op = "cancel"
  /\ state' = "CANCELLED"
  /\ EndOp
  /\ UNCHANGED <<attempts, feedback, cycleStart, accepted, commit, treeVars,
                 leaseVars, ctlVars, bounds>>

\* reverify, in any state of the job: the last attempt is looked up, the
\* verifier runs on whatever the worktree holds by then, and that attempt and
\* then the job are marked.
ReverifyLoad ==
  /\ Asks("reverify") /\ prepared /\ attempts # <<>>
  /\ op' = "reverify" /\ opAttempt' = Len(attempts)
  /\ UNCHANGED <<jobVars, treeVars, leaseVars, ctlVars, opState, built, bounds>>

ReverifyVerify ==
  /\ op = "reverify" /\ prepared
  /\ \/ op' = "reverified" /\ sound' = TRUE
     \/ op' = "unverified" /\ sound' = sound
  /\ UNCHANGED <<jobVars, prepared, leaseVars, ctlVars, opState, opAttempt,
                 built, bounds>>

ReverifyMark ==
  /\ op = "reverified"
  /\ attempts' = [attempts EXCEPT ![opAttempt] = "READY"]
  /\ op' = "promoted"
  /\ UNCHANGED <<state, feedback, cycleStart, accepted, commit, treeVars,
                 leaseVars, ctlVars, opState, opAttempt, built, bounds>>

ReverifyStore ==
  /\ op \in {"promoted", "unverified"}
  /\ state' = IF op = "promoted" THEN "READY" ELSE "BLOCKED"
  /\ EndOp
  /\ UNCHANGED <<attempts, feedback, cycleStart, accepted, commit, treeVars,
                 leaseVars, ctlVars, bounds>>

\* cleanup (in any state with --force): the worktree is removed and the job
\* row, as it was read, is written back without it, unless a kill comes between.
CleanupLoad ==
  /\ Asks("cleanup") /\ prepared
  /\ op' = "cleanup" /\ opState' = state
  /\ UNCHANGED <<jobVars, treeVars, leaseVars, ctlVars, opAttempt, built,
                 bounds>>

CleanupStore ==
  /\ op = "cleanup"
  /\ prepared' = FALSE /\ sound' = FALSE
  /\ state' \in {opState, state}
  /\ EndOp
  /\ UNCHANGED <<attempts, feedback, cycleStart, accepted, commit, leaseVars,
                 ctlVars, bounds>>

\* A command is killed between two of its steps, or raises.
AbortOp ==
  /\ op # "none"
  /\ EndOp
  /\ UNCHANGED <<jobVars, treeVars, leaseVars, ctlVars, bounds>>

-----------------------------------------------------------------------------
(* Kills and time *)

Kill(c) ==
  /\ c \in Killable /\ pc[c] \notin {"off", "dead"}
  /\ Goto(c, "dead")
  /\ mode' = [mode EXCEPT ![c] = "run"]
  /\ memo' = [memo EXCEPT ![c] = "QUEUED"]
  /\ total' = [total EXCEPT ![c] = 0] /\ cycle' = [cycle EXCEPT ![c] = 0]
  /\ seen' = [seen EXCEPT ![c] = {}]
  /\ UNCHANGED <<jobVars, treeVars, leaseVars, opVars, bounds>>

\* Nobody renews the lease of a killed controller.
LapseDead ==
  /\ holder # NoOne /\ ~lapsed /\ pc[holder] = "dead"
  /\ lapsed' = TRUE
  /\ UNCHANGED <<jobVars, treeVars, holder, ctlVars, opVars, bounds>>

\* A controller that is alive renews three times per TTL, unless the process
\* or the database stalls for that long.
LapseStalled ==
  /\ holder # NoOne /\ ~lapsed /\ pc[holder] # "dead"
  /\ stalls < MaxStalls /\ stalls' = stalls + 1
  /\ lapsed' = TRUE
  /\ UNCHANGED <<jobVars, treeVars, holder, ctlVars, opVars, rejects>>

Recover(c) == RecoverList(c) \/ RecoverJob(c) \/ RecoverRest(c)
Take(c) == \E m \in Modes : Pick(c, m)
Attempt(c) ==
  \/ BeginAttempt(c) \/ DuplicateAttempt(c) \/ ResourceBusy(c) \/ Execute(c)
  \/ ExecutorFails(c) \/ ExecutorSucceeds(c) \/ VerifyPasses(c)
  \/ VerifyFails(c) \/ StartReview(c) \/ ReviewRejects(c) \/ FinishReady(c)
Work(c) ==
  \/ Acquire(c) \/ Busy(c) \/ Load(c) \/ Prepare(c) \/ GiveUp(c) \/ BlockCapability(c) \/ Dispatch(c)
  \/ Attempt(c) \/ Settle(c) \/ Raise(c) \/ Release(c) \/ Escape(c)
Operator ==
  \/ AcceptCheck \/ AcceptCommit \/ AcceptComplete
  \/ (\E text \in Texts : RejectRecord(text)) \/ RejectStore
  \/ CancelAttempts \/ CancelStore
  \/ ReverifyLoad \/ ReverifyVerify \/ ReverifyMark \/ ReverifyStore
  \/ CleanupLoad \/ CleanupStore \/ AbortOp

Next ==
  \/ \E c \in Controllers : Recover(c) \/ Take(c) \/ Work(c) \/ Renew(c)
                            \/ Kill(c)
  \/ Operator
  \/ LapseDead \/ LapseStalled

Spec == Init /\ [][Next]_vars

\* A live controller keeps running, a killed one is replaced as long as one is
\* left (systemd, or the next command), and time passes.
Fairness ==
  /\ \A c \in Controllers : WF_vars(Recover(c)) /\ WF_vars(Work(c))
  /\ WF_vars(LapseDead)

FairSpec == Spec /\ Fairness

-----------------------------------------------------------------------------
(* What must hold, whatever the interleaving *)

\* No repair cycle, from one human decision to the next, starts more attempts
\* than the job's budget allows, however many controllers are killed, restart
\* or run the job at once: each counts the attempts on record when it begins
\* and no attempt number can be inserted twice.
RetryBudget == Len(attempts) <= cycleStart + Budget

\* Two controllers that run the job at once, which a lost lease permits, never
\* work on the same attempt row, so neither overwrites the other's evidence.
AttemptHasOneOwner ==
  \A c, d \in Controllers :
    c # d /\ pc[c] \in Attempting /\ pc[d] \in Attempting
      => total[c] # total[d]

\* A controller that runs the job is robbed of its lease only after the lease
\* lapsed, or by a recovery that had listed the job earlier; in particular a
\* controller that lost its lease never releases its successor's.
LeaseFate ==
  holder # NoOne /\ holder' # holder
    => \/ lapsed
       \/ pc[holder] \in {"release", "raised"} /\ pc'[holder] # pc[holder]
       \/ \E c \in Controllers : "job" \in seen[c] /\ pc[c] = "scanned"
LeaseKept == [][LeaseFate]_vars

\* Why RetryBudget and AttemptHasOneOwner hold: the local counters of a
\* controller never run ahead of the rows they were read from, and what they
\* leave to the cycle's budget is never more than what the rows leave.
Counting == {"loop", "dispatched", "settling"} \cup Attempting
CountersBehind ==
  \A c \in Controllers : pc[c] \in Counting =>
    /\ total[c] <= Len(attempts) /\ total[c] <= cycleStart + cycle[c]
    /\ pc[c] = "dispatched" => cycle[c] < Budget
IInv ==
  /\ TypeOK /\ cycleStart <= Len(attempts) /\ RetryBudget
  /\ CountersBehind /\ AttemptHasOneOwner

(* What must hold when controllers never overlap and no READY job is rerun *)

\* A job offered for review holds exactly the content the verifier passed, at
\* whatever step its controller was killed and however it was recovered.
SoundReady == state = "READY" /\ prepared => sound

\* The human decision names the attempt that produced the accepted commit: the
\* last one, which is READY, and the commit holds verified content.
DecisionExact ==
  accepted # 0 => /\ accepted = Len(attempts) /\ attempts[accepted] = "READY"
                  /\ commit = "sound"

\* Where SoundReady and DecisionExact are promised: one controller at a time, no
\* `pmc run` of a job that is READY, and only accept and cancel as commands.
Undisturbed ==
  ~Overlap /\ "run" \notin Modes /\ HumanOps \subseteq {"accept", "cancel"}

\* Why they hold there: once an attempt is READY it is the last one, nothing
\* runs the job any more, and every state written after that comes from it.
Alone ==
  \A c, d \in Controllers : c # d => {pc[c], pc[d]} \cap {"off", "dead"} # {}
Finished(c) ==
  \/ pc[c] \in {"off", "dead", "scanned", "idle", "release", "raised", "escaped"}
  \/ pc[c] = "settling" /\ memo[c] = "READY"
ReadyIsFinal ==
  ReadyAttempts # {} =>
    /\ ReadyAttempts = {Len(attempts)} /\ sound /\ prepared
    /\ state \notin Dispatchable
    /\ \A c \in Controllers : Finished(c)
WorkFollowsRows ==
  \A c \in Controllers :
    /\ pc[c] \in Attempting => total[c] = Len(attempts) /\ attempts # <<>>
    /\ pc[c] \in Attempting \cup {"dispatched"} =>
         state \in InFlightState \cup {"CANCELLED"}
    /\ pc[c] \in {"verified", "reviewing"} => sound /\ prepared
    /\ pc[c] = "loaded" => memo[c] # "READY"
    /\ pc[c] = "settling" /\ memo[c] = "READY" => ReadyAttempts # {}
DecisionFollowsRows ==
  /\ op \in {"none", "accept", "committed", "cancel"}
  /\ op \in {"accept", "committed"} \/ state = "READY" => ReadyAttempts # {}
  /\ op = "committed" => built
SInv == /\ Alone /\ ReadyIsFinal /\ WorkFollowsRows
        /\ DecisionFollowsRows /\ DecisionExact

\* A job in flight does not stay in flight: its controller finishes the step or
\* a recovery takes the job over.
Resumed == state \in InFlightState ~> state \notin InFlightState

(* What the documentation says, and the code does not keep *)

\* FOREMAN.md: leases prevent duplicate execution.
Exclusive ==
  \A c, d \in Controllers :
    pc[c] \in Attempting /\ pc[d] \in Attempting => c = d
=============================================================================
