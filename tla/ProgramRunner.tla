--------------------------- MODULE ProgramRunner ---------------------------
(***************************************************************************)
(* One autonomous program: its features row, its tasks, the supervisors    *)
(* that run it one after the other or, after a pause or a slow drain, side *)
(* by side, the worker threads that run its jobs, outside runners of the   *)
(* same jobs (`pmc run`, `pmc daemon`) and the operator's commands.        *)
(*                                                                         *)
(* A job is reduced to what a program sees of it.  "RUNNING" stands for    *)
(* RUNNING, VERIFYING and REVIEWING, "BLOCKED" for BLOCKED and FAILED,     *)
(* which no program tells apart; that READY work was verified and that     *)
(* retries are bounded is the subject of JobLifecycle.  The lease of a job *)
(* goes with the last state its runner writes, and lapses for the dead     *)
(* only.  One action is one commit, with the reads that directly precede   *)
(* it.                                                                     *)
(***************************************************************************)
EXTENDS Naturals, FiniteSets

CONSTANTS
  Tasks, Terminal,
  Deps,         \* feature_tasks.depends_json
  Supervisors,  \* ProgramRunner instances; one that ended does not come back
  Outsiders,    \* other processes that run jobs of the program
  NoOne,
  Workers,      \* the program's worker ceiling
  Killable,     \* the supervisors that may be killed
  Commands,     \* the operator commands in use
  MaxAsks       \* bound: operator commands and outside runs

ASSUME TasksAssumption ==
  Terminal \in Tasks /\ IsFiniteSet(Tasks) /\ Deps \in [Tasks -> SUBSET Tasks]
\* validate_program_plan: no cycle, and the terminal task is the only one that
\* no other depends on.
ValidPlan ==
  /\ \A U \in SUBSET Tasks \ {{}} : \E u \in U : \A v \in U : u \notin Deps[v]
  /\ \A t \in Tasks : t = Terminal <=> \A u \in Tasks : t \notin Deps[u]
ASSUME PlanAssumption == ValidPlan
ASSUME RunnersAssumption ==
  Supervisors \cap Outsiders = {} /\ NoOne \notin Supervisors \cup Outsiders
ASSUME NumbersAssumption == Workers \in Nat \ {0} /\ MaxAsks \in Nat

Runners == Supervisors \cup Outsiders

VARIABLES
  fstate,    \* features.state
  owner,     \* features.run_owner
  lapsed,    \* features.run_lease_expires is in the past
  jstate,    \* jobs.state
  finished,  \* the tasks with a READY attempt
  built,     \* the tasks with jobs.worktree set
  merged,    \* those of them surely made on their dependencies' commits
  left,      \* the tasks with a clean worktree directory no row knows of
  locks,     \* the tasks whose worktree lock a kill has left
  chained,   \* promotion_state = VERIFIED_FOR_CHAINING
  taken,     \* the tasks with an accepted_commit
  lease,     \* the runner whose job lease is valid
  doing,     \* what a runner's thread for a task is at
  pc,        \* where a supervisor is in its turn
  listed,    \* the tasks its _promote_ready has still to promote
  verdict,   \* its final_state
  failed,    \* its final_error is set
  pending,   \* the tasks a program-cancel has still to cancel
  asks

programVars == <<fstate, owner, lapsed>>
treeVars    == <<built, merged, left, locks>>
taskVars    == <<jstate, finished, treeVars, chained, taken, lease>>
turnVars    == <<pc, listed, verdict, failed>>
opVars      == <<pending, asks>>
vars == <<programVars, taskVars, doing, turnVars, opVars>>

-----------------------------------------------------------------------------

ProgramState == {"APPROVED", "RUNNING", "PAUSED", "BLOCKED", "CANCELLED",
                 "READY_FOR_REVIEW", "ACCEPTED"}
JobState == {"QUEUED", "RUNNING", "RETRY", "READY", "BLOCKED", "CANCELLED",
             "ACCEPTED"}
Result == {"READY", "BLOCKED"}
Busy == {"submitted", "leased", "refused", "running"}
Stages == {"off", "recover", "beat", "promote", "collect", "idle", "drain",
           "ended", "dead"}

TypeOK ==
  /\ fstate \in ProgramState /\ owner \in Supervisors \cup {NoOne}
  /\ lapsed \in BOOLEAN
  /\ jstate \in [Tasks -> JobState]
  /\ finished \subseteq Tasks
  /\ merged \subseteq built /\ built \subseteq Tasks
  /\ left \subseteq Tasks /\ locks \subseteq Tasks
  /\ chained \subseteq Tasks /\ taken \subseteq Tasks
  /\ lease \in [Tasks -> Runners \cup {NoOne}]
  /\ doing \in [Runners -> [Tasks -> {"none", "raised"} \cup Busy \cup Result]]
  /\ pc \in [Supervisors -> Stages]
  /\ listed \in [Supervisors -> SUBSET Tasks]
  /\ verdict \in [Supervisors -> ProgramState]
  /\ failed \in [Supervisors -> BOOLEAN]
  /\ pending \subseteq Tasks /\ asks \in 0..MaxAsks

Nothing == [t \in Tasks |-> "none"]

Init ==
  /\ fstate = "APPROVED" /\ owner = NoOne /\ lapsed = FALSE
  /\ jstate = [t \in Tasks |-> "QUEUED"]
  /\ finished = {} /\ chained = {} /\ taken = {}
  /\ built = {} /\ merged = {} /\ left = {} /\ locks = {}
  /\ lease = [t \in Tasks |-> NoOne]
  /\ doing = [r \in Runners |-> Nothing]
  /\ pc = [s \in Supervisors |-> "off"]
  /\ listed = [s \in Supervisors |-> {}]
  /\ verdict = [s \in Supervisors |-> "BLOCKED"]
  /\ failed = [s \in Supervisors |-> FALSE]
  /\ pending = {} /\ asks = 0

-----------------------------------------------------------------------------
(* Helpers.  A definition whose name begins with Mutant is a deliberately   *)
(* wrong variant of the one after it, for showing that a property can fail. *)

Offered == chained \cup taken
Active(s) == {t \in Tasks : doing[s][t] # "none"}
At(s, stage) == pc' = [pc EXCEPT ![s] = stage]
\* The locals of a supervisor that is gone
Forget(s) ==
  /\ doing' = [doing EXCEPT ![s] = Nothing]
  /\ listed' = [listed EXCEPT ![s] = {}]
  /\ verdict' = [verdict EXCEPT ![s] = "BLOCKED"]
  /\ failed' = [failed EXCEPT ![s] = FALSE]
Least(m, n) == IF m <= n THEN m ELSE n

\* dependency_commits visits all that t depends on, and raises for one that has
\* no commit.
Integrable(t) ==
  \E visited \in SUBSET Offered : /\ Deps[t] \subseteq visited
                                  /\ \A d \in visited : Deps[d] \subseteq visited

\* program_ready_jobs, by any priority; queued_jobs has the same condition.
MutantMet(t) == TRUE   \* dependencies are not asked for
Met(t) == \A d \in Deps[t] : jstate[d] = "ACCEPTED" \/ d \in chained
Eligible ==
  {t \in Tasks : /\ fstate \in {"APPROVED", "RUNNING"}
                 /\ jstate[t] \in {"QUEUED", "RETRY"} /\ Met(t)}
Selections(limit) ==
  {ready \in SUBSET Eligible :
     Cardinality(ready) = Least(limit, Cardinality(Eligible))}

\* recover_expired_leases: a turn of the supervisor, or a new Controller.
MutantStranded == {}   \* the loop relies on the controllers it starts
Stranded == {t \in Tasks : jstate[t] = "RUNNING" /\ lease[t] = NoOne}
RecoverAll ==
  \E failing \in SUBSET (Stranded \ finished) :
    jstate' = [t \in Tasks |->
      IF t \notin Stranded THEN jstate[t]
      ELSE IF t \in finished THEN "READY"
      ELSE IF t \in failing THEN "BLOCKED" ELSE "RETRY"]

-----------------------------------------------------------------------------
(* The supervisor's turn: ProgramRunner.run *)

Claim(s) ==
  /\ pc[s] = "off"
  /\ fstate \in {"APPROVED", "RUNNING"} /\ (owner = NoOne \/ lapsed)
  /\ fstate' = "RUNNING" /\ owner' = s /\ lapsed' = FALSE
  /\ At(s, "recover")
  /\ UNCHANGED <<taskVars, doing, listed, verdict, failed, opVars>>

\* The pool is left, by a break or an exception, with a verdict.
Leave(s, state) ==
  /\ verdict' = [verdict EXCEPT ![s] = state]
  /\ At(s, "drain")

Recover(s) ==
  /\ pc[s] = "recover"
  /\ RecoverAll
  /\ IF fstate \in {"PAUSED", "CANCELLED"}
     THEN Leave(s, fstate)
     ELSE At(s, "beat") /\ UNCHANGED verdict
  /\ UNCHANGED <<programVars, finished, treeVars, chained, taken, lease, doing,
                 listed, failed, opVars>>

\* heartbeat_program_run; then _promote_ready lists what is to be promoted.
Beat(s) ==
  /\ pc[s] = "beat" /\ owner = s /\ fstate = "RUNNING"
  /\ lapsed' = FALSE
  /\ listed' = [listed EXCEPT ![s] =
       {t \in Tasks \ (chained \cup {Terminal} \cup Active(s)) :
          jstate[t] = "READY"}]
  /\ At(s, "promote")
  /\ UNCHANGED <<fstate, owner, taskVars, doing, verdict, failed, opVars>>

LeaseLost(s) ==
  /\ pc[s] = "beat" /\ ~(owner = s /\ fstate = "RUNNING")
  /\ Leave(s, "BLOCKED")
  /\ UNCHANGED <<programVars, taskVars, doing, listed, failed, opVars>>

\* promote_program_task: the program is RUNNING afterwards, whatever it was.
Promote(s, t) ==
  /\ pc[s] = "promote" /\ t \in listed[s] /\ jstate[t] = "READY"
  /\ chained' = chained \cup {t}
  /\ fstate' = IF t \in chained THEN fstate ELSE "RUNNING"
  /\ listed' = [listed EXCEPT ![s] = @ \ {t}]
  /\ UNCHANGED <<owner, lapsed, jstate, finished, treeVars, taken, lease, doing,
                 pc, verdict, failed, opVars>>

\* A Git error, nothing to commit, or a task that is READY no longer.
PromoteFails(s) ==
  /\ pc[s] = "promote" /\ listed[s] # {}
  /\ listed' = [listed EXCEPT ![s] = {}]
  /\ Leave(s, "BLOCKED")
  /\ UNCHANGED <<programVars, taskVars, doing, failed, opVars>>

Conclude(s) ==
  /\ pc[s] = "promote" /\ listed[s] = {}
  /\ Terminal \notin Active(s)
  /\ \/ jstate[Terminal] = "READY" /\ Leave(s, "READY_FOR_REVIEW")
     \/ jstate[Terminal] = "ACCEPTED" /\ Leave(s, "ACCEPTED")
  /\ UNCHANGED <<programVars, taskVars, doing, listed, failed, opVars>>

\* The limit is applied before the jobs already active are left out.
Dispatch(s) ==
  /\ pc[s] = "promote" /\ listed[s] = {}
  /\ Terminal \in Active(s) \/ jstate[Terminal] \notin {"READY", "ACCEPTED"}
  /\ \E ready \in Selections(IF failed[s] THEN 0
                             ELSE Workers - Cardinality(Active(s))) :
       LET chosen == ready \ Active(s)
       IN /\ doing' = [doing EXCEPT ![s] = [t \in Tasks |->
                         IF t \in chosen THEN "submitted" ELSE @[t]]]
          /\ At(s, IF Active(s) \cup chosen = {} THEN "idle" ELSE "collect")
  /\ UNCHANGED <<programVars, taskVars, listed, verdict, failed, opVars>>

\* A future is done.  An exception, LeaseBusy included, blocks the job.
Collect(s, t) ==
  /\ pc[s] = "collect" /\ doing[s][t] \in Result \cup {"raised"}
  /\ doing' = [doing EXCEPT ![s][t] = "none"]
  /\ jstate' = IF doing[s][t] = "raised" THEN [jstate EXCEPT ![t] = "BLOCKED"]
                                         ELSE jstate
  /\ failed' = [failed EXCEPT ![s] = @ \/ doing[s][t] # "READY"]
  /\ UNCHANGED <<programVars, finished, treeVars, chained, taken, lease, pc,
                 listed, verdict, opVars>>

EndTurn(s) ==
  /\ pc[s] = "collect" /\ \A t \in Active(s) : doing[s][t] \in Busy
  /\ IF failed[s] /\ Active(s) = {}
     THEN Leave(s, "BLOCKED")
     ELSE At(s, "recover") /\ UNCHANGED verdict
  /\ UNCHANGED <<programVars, taskVars, doing, listed, failed, opVars>>

\* Nothing is active and nothing could be dispatched.
Poll(s) ==
  /\ pc[s] = "idle"
  /\ IF \/ \E t \in Tasks : jstate[t] \in {"BLOCKED", "CANCELLED"}
        \/ \A t \in Tasks : jstate[t] # "RUNNING"
     THEN Leave(s, "BLOCKED")
     ELSE At(s, "recover") /\ UNCHANGED verdict
  /\ UNCHANGED <<programVars, taskVars, doing, listed, failed, opVars>>

\* The pool waits for its threads; release_program_run checks the owner.
Release(s) ==
  /\ pc[s] = "drain" /\ \A t \in Tasks : doing[s][t] \notin Busy
  /\ IF owner = s
     THEN fstate' = verdict[s] /\ owner' = NoOne /\ lapsed' = FALSE
     ELSE UNCHANGED programVars
  /\ At(s, "ended") /\ Forget(s)
  /\ UNCHANGED <<taskVars, opVars>>

-----------------------------------------------------------------------------
(* A thread that runs a job: Controller(cfg).run_job *)

\* The new controller recovers, takes the lease of the job and loads it.
Begin(r, t) ==
  /\ doing[r][t] = "submitted"
  /\ RecoverAll
  /\ IF lease[t] = NoOne
     THEN /\ lease' = [lease EXCEPT ![t] = r]
          /\ doing' = [doing EXCEPT ![r][t] =
               IF jstate'[t] \in {"ACCEPTED", "CANCELLED"} THEN "refused"
                                                          ELSE "leased"]
     ELSE /\ doing' = [doing EXCEPT ![r][t] =
                         IF r \in Outsiders THEN "none" ELSE "raised"]
          /\ UNCHANGED lease
  /\ UNCHANGED <<programVars, finished, treeVars, chained, taken, turnVars, opVars>>

End(r, t, how) ==
  /\ doing' = [doing EXCEPT ![r][t] = how]
  /\ lease' = [lease EXCEPT ![t] = NoOne]

\* ensure_worktree: a recorded worktree is used as it is, a clean directory is
\* adopted as it is, and a new worktree gets the dependencies' commits.
HasWorktree(t) ==
  \/ t \in built /\ UNCHANGED treeVars
  \/ /\ t \notin built \cup locks
     /\ built' = built \cup {t} /\ left' = left \ {t} /\ UNCHANGED locks
     /\ \/ t \in left /\ UNCHANGED merged
        \/ Integrable(t) /\ merged' = merged \cup {t}

Prepare(r, t) ==
  /\ doing[r][t] \in {"leased", "refused"} /\ HasWorktree(t)
  /\ IF doing[r][t] = "refused"
     THEN End(r, t, "raised") /\ UNCHANGED jstate
     ELSE /\ doing' = [doing EXCEPT ![r][t] = "running"]
          /\ jstate' = [jstate EXCEPT ![t] = "RUNNING"]
          /\ UNCHANGED lease
  /\ UNCHANGED <<programVars, finished, chained, taken, turnVars, opVars>>

\* A dependency without a commit, a conflict in Git: the worktree stays, clean.
PrepareFails(r, t) ==
  /\ doing[r][t] \in {"leased", "refused"} /\ t \notin built \cup locks
  /\ left' = left \cup {t}
  /\ End(r, t, "raised")
  /\ UNCHANGED <<programVars, jstate, finished, built, merged, locks, chained,
                 taken, turnVars, opVars>>

Retry(r, t) ==
  /\ doing[r][t] = "running"
  /\ jstate' = [jstate EXCEPT ![t] = IF @ = "RETRY" THEN "RUNNING" ELSE "RETRY"]
  /\ UNCHANGED <<programVars, finished, treeVars, chained, taken, lease, doing,
                 turnVars, opVars>>

Finish(r, t, result) ==
  /\ doing[r][t] = "running"
  /\ jstate' = [jstate EXCEPT ![t] = result]
  /\ finished' = IF result = "READY" THEN finished \cup {t} ELSE finished
  /\ End(r, t, result)
  /\ UNCHANGED <<programVars, treeVars, chained, taken, turnVars, opVars>>

\* An exception: the state stays what it was.
Raise(r, t) ==
  /\ doing[r][t] = "running" \/ (doing[r][t] = "leased" /\ t \in built)
  /\ End(r, t, "raised")
  /\ UNCHANGED <<programVars, jstate, finished, treeVars, chained, taken, turnVars,
                 opVars>>

\* A daemon takes a job that queued_jobs lists, `pmc run` names any job; a
\* daemon blocks a job that raised.
Ask == asks < MaxAsks /\ asks' = asks + 1
StartOutside(r, t) ==
  /\ r \in Outsiders /\ doing[r][t] = "none" /\ Ask
  /\ t \in Eligible \/ "run" \in Commands
  /\ doing' = [doing EXCEPT ![r][t] = "submitted"]
  /\ UNCHANGED <<programVars, taskVars, turnVars, pending>>

EndOutside(r, t) ==
  /\ r \in Outsiders /\ doing[r][t] \in Result \cup {"raised"}
  /\ \/ UNCHANGED jstate
     \/ doing[r][t] = "raised" /\ jstate' = [jstate EXCEPT ![t] = "BLOCKED"]
  /\ doing' = [doing EXCEPT ![r][t] = "none"]
  /\ UNCHANGED <<programVars, finished, treeVars, chained, taken, lease, turnVars,
                 opVars>>

-----------------------------------------------------------------------------
(* Operator commands *)

Command(name) == name \in Commands /\ Ask

SetProgramState(state) == fstate' = state /\ owner' = NoOne /\ lapsed' = FALSE

Pause ==
  /\ Command("pause")
  /\ SetProgramState("PAUSED")
  /\ UNCHANGED <<taskVars, doing, turnVars, pending>>

Resume ==
  /\ Command("resume") /\ fstate \in {"PAUSED", "BLOCKED"}
  /\ \A t \in Tasks : jstate[t] # "BLOCKED"
  /\ SetProgramState("APPROVED")
  /\ UNCHANGED <<taskVars, doing, turnVars, pending>>

\* The jobs to cancel are listed once; VERIFYING and REVIEWING ones are not.
Cancel ==
  /\ Command("cancel") /\ pending = {}
  /\ SetProgramState("CANCELLED")
  /\ \E running \in SUBSET {t \in Tasks : jstate[t] = "RUNNING"} :
       pending' = running \cup {t \in Tasks : jstate[t] \in {"QUEUED", "RETRY"}}
  /\ UNCHANGED <<taskVars, doing, turnVars>>

CancelJob(t) ==
  /\ t \in pending
  /\ IF jstate[t] = "ACCEPTED"
     THEN pending' = {} /\ UNCHANGED jstate
     ELSE /\ pending' = pending \ {t}
          /\ jstate' = [jstate EXCEPT ![t] = "CANCELLED"]
  /\ UNCHANGED <<programVars, finished, treeVars, chained, taken, lease, doing,
                 turnVars, asks>>

\* complete_acceptance, of the terminal task or of any other
MutantAcceptedState(t) == "ACCEPTED"   \* the terminal task is not asked for
AcceptedState(t) == IF t = Terminal THEN "ACCEPTED" ELSE "RUNNING"
Accept(t) ==
  /\ Command("accept") /\ jstate[t] = "READY" /\ t \in finished
  /\ jstate' = [jstate EXCEPT ![t] = "ACCEPTED"]
  /\ taken' = taken \cup {t}
  /\ fstate' = AcceptedState(t)
  /\ UNCHANGED <<owner, lapsed, finished, treeVars, chained, lease, doing, turnVars,
                 pending>>

Reject(t) ==
  /\ Command("reject") /\ jstate[t] \in {"READY", "RETRY", "BLOCKED"}
  /\ jstate' = [jstate EXCEPT ![t] = "RETRY"]
  /\ UNCHANGED <<programVars, finished, treeVars, chained, taken, lease, doing,
                 turnVars, pending>>

\* refresh_program_state
MutantRefreshed ==   \* the terminal task's state is taken for the program's
  IF jstate[Terminal] \in {"READY", "ACCEPTED"} THEN jstate[Terminal] ELSE fstate
Refreshed ==
  CASE jstate[Terminal] = "ACCEPTED" -> "ACCEPTED"
    [] jstate[Terminal] = "READY" -> "READY_FOR_REVIEW"
    [] OTHER ->
       IF \E t \in Tasks : jstate[t] = "BLOCKED" THEN "BLOCKED"
       ELSE IF fstate \in {"PAUSED", "CANCELLED", "APPROVED"} THEN fstate
       ELSE "RUNNING"
Status ==
  /\ Command("status")
  /\ fstate' = Refreshed
  /\ UNCHANGED <<owner, lapsed, taskVars, doing, turnVars, pending>>

-----------------------------------------------------------------------------
(* Kills and time *)

\* Where a thread was making a worktree it may leave the lock, or a clean
\* directory without the dependencies or without a row.
Making(s) == {t \in Tasks \ (built \cup locks) : doing[s][t] \in {"leased", "refused"}}
Kill(s) ==
  /\ s \in Killable /\ pc[s] \notin {"off", "ended", "dead"}
  /\ \E locking, bare \in SUBSET Making(s) :
       locks' = locks \cup locking /\ left' = left \cup bare
  /\ At(s, "dead") /\ Forget(s)
  /\ UNCHANGED <<programVars, jstate, finished, built, merged, chained, taken,
                 lease, opVars>>

LapseJob(t) ==
  /\ lease[t] \in Supervisors /\ pc[lease[t]] = "dead"
  /\ lease' = [lease EXCEPT ![t] = NoOne]
  /\ UNCHANGED <<programVars, jstate, finished, treeVars, chained, taken, doing,
                 turnVars, opVars>>

\* A supervisor that drains its pool no longer renews.
LapseRun ==
  /\ owner # NoOne /\ ~lapsed /\ pc[owner] \in {"dead", "drain"}
  /\ lapsed' = TRUE
  /\ UNCHANGED <<fstate, owner, taskVars, doing, turnVars, opVars>>

Turn(s) ==
  \/ Recover(s) \/ Beat(s) \/ LeaseLost(s) \/ PromoteFails(s) \/ Conclude(s)
  \/ Dispatch(s) \/ EndTurn(s) \/ Poll(s) \/ Release(s)
  \/ \E t \in Tasks : Promote(s, t) \/ Collect(s, t)
Work(r, t) ==
  \/ Begin(r, t) \/ Prepare(r, t) \/ PrepareFails(r, t) \/ Raise(r, t)
  \/ \E result \in Result : Finish(r, t, result)
Operator ==
  \/ Pause \/ Resume \/ Cancel \/ Status
  \/ \E t \in Tasks : CancelJob(t) \/ Accept(t) \/ Reject(t)

Next ==
  \/ \E s \in Supervisors : Claim(s) \/ Turn(s) \/ Kill(s)
  \/ \E r \in Runners, t \in Tasks :
       Work(r, t) \/ Retry(r, t) \/ StartOutside(r, t) \/ EndOutside(r, t)
  \/ Operator
  \/ LapseRun \/ \E t \in Tasks : LapseJob(t)

Spec == Init /\ [][Next]_vars

\* A live supervisor and its threads go on, an attempt loop ends (RetryBudget
\* of JobLifecycle), time passes, and a program that may be run is claimed as
\* long as a supervisor is left (systemd restarts one that failed).
Fairness ==
  /\ \A s \in Supervisors : WF_vars(Turn(s))
  /\ \A r \in Runners : WF_vars(\E t \in Tasks : Work(r, t))
  /\ \A r \in Outsiders : WF_vars(\E t \in Tasks : EndOutside(r, t))
  /\ WF_vars(\E t \in Tasks : LapseJob(t)) /\ WF_vars(LapseRun)
  /\ WF_vars(\E s \in Supervisors : Claim(s))
FairSpec == Spec /\ Fairness

-----------------------------------------------------------------------------
(* What must hold *)

\* No job of a program has a worktree before the work of every dependency has a
\* commit that was verified or accepted, whichever supervisor or daemon runs it,
\* in whatever state another one, a kill or a command left the program; nor is
\* work offered to dependents that was never started.
OrderStatus ==
  [t \in Tasks |-> IF t \in Offered THEN "verified"
                   ELSE IF t \in built THEN "started" ELSE "waiting"]
Order == INSTANCE ProgramOrder WITH status <- OrderStatus
KeepsOrder == Order!Spec

\* A program is offered for review, or accepted, only when every milestone has
\* a commit; it is ACCEPTED only when a human accepted its terminal task, which
\* no promotion stands in for.
ReviewMeansDone ==
  /\ fstate \in {"READY_FOR_REVIEW", "ACCEPTED"} => Tasks \ {Terminal} \subseteq Offered
  /\ fstate = "ACCEPTED" => Terminal \in taken
  /\ Terminal \notin chained

\* What holds at every step and implies KeepsOrder and ReviewMeansDone: work
\* exists for whatever is offered or offered for review, ...
WorkExists ==
  /\ finished \cup Offered \subseteq built
  /\ \A t \in Tasks : /\ jstate[t] = "READY" => t \in built
                      /\ jstate[t] = "ACCEPTED" => t \in taken
  /\ \A r \in Runners, t \in Tasks : doing[r][t] = "running" => t \in built
\* ... dependencies come before whatever was started or is about to be, ...
DepsOffered ==
  /\ \A t \in built : Deps[t] \subseteq Offered
  /\ \A r \in Runners, t \in Tasks :
       doing[r][t] \in {"submitted", "leased", "refused"} => Deps[t] \subseteq Offered
\* ... and no state of the program claims more than the terminal task's rows.
ClaimsBacked ==
  /\ fstate \in {"READY_FOR_REVIEW", "ACCEPTED"} => Terminal \in built
  /\ fstate = "ACCEPTED" => Terminal \in taken
  /\ Terminal \notin chained
  /\ \A s \in Supervisors :
       /\ verdict[s] \in {"READY_FOR_REVIEW", "ACCEPTED"} => Terminal \in built
       /\ verdict[s] = "ACCEPTED" => Terminal \in taken
       /\ Terminal \notin listed[s]
IInv == TypeOK /\ WorkExists /\ DepsOffered /\ ClaimsBacked

\* A running program does not poll for ever: it comes to rest in a state for
\* the operator, unless no supervisor is left, or a kill has left the lock that
\* ensure_worktree waits for without end.
ProgramSettles ==
  []<>(\/ fstate # "RUNNING"
       \/ \A s \in Supervisors : pc[s] \in {"ended", "dead"}
       \/ locks # {})

(* What the documentation says, and the code does not keep *)

\* PROGRAMS.md: dependency commits are applied, and a conflict blocks the job;
\* no work is done on a worktree that was not made from all dependencies.
Integrated == \A t \in built : t \in merged \/ Deps[t] = {}
=============================================================================
