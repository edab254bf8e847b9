# Verification of PMC (Poor Man's Code)

PMC runs coding jobs: it leases a job, lets an executor (a local loop around a
model, OpenHands, Jules) change a Git worktree, runs the verifier and reviewers
on the result, and offers verified work to a human who accepts or rejects it.
All state that survives a process is in one SQLite database (`src/pmc/db.py`)
and in Git worktrees. Several processes share both: daemons, program
supervisors with worker threads, operator commands, a model gateway, a Telegram
operator. Any of them may be killed. This directory holds TLA+ models of that
system, the TLC configurations that check them and TLAPS proofs about them.

## Inventory

| Part | Source | State | Operations | What is hard |
|---|---|---|---|---|
| Job lifecycle | `controller.py`, `db.py`, `domain.py` | `jobs`, `attempts`, `leases`, `human_feedback` rows; the worktree | run, recover, accept, reject, cancel, reverify, cleanup | lapsing leases, kills between commits, operator commands without a lease |
| Credential pool | `db.py`, `credentials.py`, `accounting.py` | `provider_credentials`, `credential_reservations` | reserve, probe, reconcile | concurrent reservation, late answers, shared quotas, kills |
| Program runner | `program.py`, `db.py` | `features`, `feature_tasks`, the run lease | claim, heartbeat, promote, dispatch, release, pause, cancel | restart, stale snapshots, pause racing promotion, deadlocked graphs |
| Feature plans | `foreman.py`, `db.py`, `cli.py` | `features.plan_json`, dependency lists | plan, approve, order dependencies | approval racing a new plan, cycles |
| Model requests, gateway | `accounting.py`, `provider_gateway.py`, `budget.py` | `model_requests`, `quota_reservations` | reserve, start, succeed, fail, failover, recover | budget check against a late successor, bounded failover, tickets that stay open |
| Worktrees and Git | `controller.py`, `gitops.py` | worktree directories, lock files, HEAD, the branch at the origin | ensure, snapshot, patch, publish, adopt, reset, undo, commit | kills inside creation, orphans, a patch for another base, executors that outlive their lease |
| Resource leases | `db.py`, `controller.py` | `resource_leases` | reserve, renew, release | capacity, expiry, release by key and not by owner |
| Kanban | `kanban.py` | `kanban_projects`, `kanban_tasks`, a worktree and its branch | init, add, start, checkpoint, smoke, warning, block, done, diagnose | reads and writes in two transactions, a single writer, pushes that fail |
| Telegram operator | `telegram_control.py`, the failover scripts | update log and offset of each host | poll, record, handle, finish, advance; failover | redelivery after a crash, two hosts on one queue |
| Scheduler, retry policy | `scheduler.py`, `retry.py` | `scheduler_decisions` | available, choose, policy | choice and attempt in two transactions; learned scores are statistics |
| Executors | `executors/` | the conversation; the worktree | a loop of model and commands, a remote run, a Jules session | limits, replies that break the protocol, results that leave something out |
| Verifier, reviewer, sandbox | `verifier.py`, `reviewer.py`, `sandbox.py` | none shared | run a command or a model | operating-system I/O |

How they interact: a program supervisor or a daemon picks jobs and calls
`Controller.run_job`, which takes the job lease and a resource lease, reserves
a credential lane per model request, and writes job and attempt rows. The
supervisor reads the job rows to promote verified work and to dispatch its
dependents. The operator commands read and write the same job rows without a
lease. The database makes one `with connect()` block one transaction, but a
`SELECT` before its first write is not part of it, except where the code says
`BEGIN IMMEDIATE`.

What makes each part correct:

* Job lifecycle: bounded attempts per repair cycle; one writer per attempt row;
  a lease lost only by lapse or release; what is offered for review is what the
  verifier passed; a decision names the attempt and content it is about; no job
  is left in flight.
* Credential pool: limits per lane and per shared quota; a rejected key stays
  out; the pool opens again.
* Program runner: no task runs before its dependencies are verified; pause and
  cancel hold; every program ends or waits for a human.
* Model requests: the budget holds but for controllers that lost their lease; a
  bounded number of physical requests per logical one; a ticket is closed by
  whoever knows of it; a result accounts for what was recorded; every request
  answered.
* Candidates and resources: executors that run at once fit their resource;
  `max_concurrency` is passed only by a decision nobody checked.
* Worktree: a patch meets its base, work goes only by a reset, what is accepted
  was verified in the attempt it names.
* Executor loop: every call of a conversation is answered, tokens are told.
* Kanban: no more WORKING cards than users (the documentation promises one),
  DONE only with evidence, checkpoints on origin, no card lost. Telegram:
  handled once by a host, nothing forgotten, a queue that drains.

`PROJECT.json` lists every hazard at its line with the properties that cover it.

## Plan

1. `JobLifecycle`, `CredentialPool`, `ProgramRunner` (with its abstract
   specification `ProgramOrder`) and their proofs: done.
2. `ModelRequests`, `Admission`, `TaskTree`, `AgentLoop`, `Kanban`,
   `TelegramControl`, composed into the runs `Parts` and `Services`, and their
   proofs: done.
3. Proofs of `SoundReady` and `DecisionExact`, of `Admission`, and of the action
   properties of `Kanban`, so that every invariant and every action property a
   passing run checks is a theorem: done.
4. Next: plan validation and the approval of plans (`foreman.py`,
   `db.py:1912-2010`).

## Modules

| Module | Holds |
|---|---|
| `JobLifecycle` | one job, its controllers, its operator |
| `MCJobLifecycle` | its instances for TLC |
| `JobLifecycle_proofs` | its theorems |
| `CredentialPool` | the lanes of one provider, their clients and probers |
| `MCCredentialPool` | its instances for TLC |
| `CredentialPool_proofs` | its theorems |
| `ProgramOrder` | what a program promises: a task starts when its dependencies are verified |
| `ProgramRunner` | one program, its supervisors, daemons and operator |
| `MCProgramRunner` | its instances for TLC |
| `ProgramRunner_proofs` | its theorems, the refinement of `ProgramOrder` among them |
| `ModelRequests`, `ModelRequests_proofs` | the model requests of one job, and their theorems |
| `Admission` | the candidate of an attempt and the resource it runs on |
| `AgentLoop` | the turns of the bash executor |
| `Attempts_proofs` | the theorems of these two, which are about what one attempt does |
| `TaskTree`, `TaskTree_proofs` | the worktree of one job, and its theorems |
| `Kanban`, `Kanban_proofs` | one Kanban board, and its theorems |
| `TelegramControl`, `TelegramControl_proofs` | the update queue on two hosts, and its theorems |
| `MCParts` | six of these modules in one run |
| `MCServices` | the pool, the queue, the requests and a program in one run, with fairness |

### JobLifecycle

Jobs share no row of this model, so it has one. Variables are the columns:
`state`, `attempts` (statuses by `attempt_no`), `feedback`, `accepted`,
`commit`, the lease (`holder`, `lapsed`), the worktree (`prepared`, and
`sound`: the verifier passed on exactly what it holds). Each controller has a
program counter and the locals that outlive a commit (`total`, `cycle`, `memo`,
what its recovery listed). One action is one commit or one external effect, so
a kill, a lapse or another process fits between any two.

| Code | Actions |
|---|---|
| `recover_expired_leases`, from `Controller.__init__` and the supervisor's loop | `RecoverList`, `RecoverJob`, `RecoverRest` |
| `run_job`, `_LeaseHeartbeat` | `Pick`, `Acquire`, `Busy`, `Load`, `Renew`, `Release`, `Escape` |
| `ensure_worktree` | `Prepare` |
| `_run_job_locked` | `GiveUp`, `BlockCapability`, `Dispatch`, `BeginAttempt`, `DuplicateAttempt`, `ResourceBusy`, `Execute`, `ExecutorFails`, `ExecutorSucceeds`, `VerifyPasses`, `VerifyFails`, `StartReview`, `ReviewRejects`, `FinishReady`, `Settle`, `Raise` |
| `accept` | `AcceptCheck`, `AcceptCommit`, `AcceptComplete` |
| `reject`, `cancel`, `reverify_job`, `cleanup` | `RejectRecord`, `RejectStore`, `CancelAttempts`, `CancelStore`, `ReverifyLoad` to `ReverifyStore`, `CleanupLoad`, `CleanupStore` |
| SIGKILL, time | `Kill`, `AbortOp`, `LapseDead`, `LapseStalled` |

Choices of abstraction: the scheduler's choice, the executor's outcome, the
verdicts of verifier and reviewers are nondeterministic. A read just before a
commit that it guards is part of that commit's action, with the exceptions that
matter modelled apart: recovery's list, the loaded job row of `ensure_worktree`
and `cleanup`, the attempt looked up by `reverify`, the state read by `accept`.
Recovery of a listed job merges that job's own reads with its UPDATE, which is
exact for all but the first job listed. An operator command builds a controller
too; its recovery is that of a controller that recovers and never picks. A
reset of the worktree leaves it unverified or as it was. The `program` mode
has the supervisor's effects on a job (rescan every turn, BLOCKED on any
exception, `LeaseBusy` included), not its program.

### CredentialPool

A lane has its `health`, whether it is `cooling`, and its token counter against
what a request needs (`enough`, `short` until a known reset, `stuck` without a
known one). `held[u]` is the lane a user's RESERVED row names. `Reserve` is
`reserve_provider_credential`: filter, order and insert in one `BEGIN
IMMEDIATE`. `Probe` is `reserve_specific_credential_probe`, which ignores
health, cooldown and limits. `Reconcile` is `reconcile_provider_credential` with
its effect on the scope. `CooldownEnds` and `TokensReset` are time. `Kill`
also stands for an exception between reservation and reconciliation. Left
out: the `quota_reservations` and `model_requests` rows, requests_remaining,
failure counts; ties that `used` and the id would break are left open.

### ProgramRunner

Variables are the program's row (`fstate`, `owner`, `lapsed`), the tasks' rows
(`jstate`, `finished`, `chained`, `taken`, `lease`), the worktrees (`built`:
recorded in the row; `left`: a clean directory no row knows; `locks`: lock files
of the dead) and, per supervisor, its place in the loop, what it has listed and
its verdict. `doing[r][t]` is where a thread of runner `r` is with task `t`.

| Code | Actions |
|---|---|
| `ProgramRunner.run` | `Claim`, then per turn `Recover`, `Beat` or `LeaseLost`, `Promote` or `PromoteFails`, `Conclude` or `Dispatch`, `Collect`, `EndTurn`, `Poll`; at the end `Release` |
| `Controller.run_job` in a thread | `Begin`, `Prepare` or `PrepareFails`, `Retry`, `Finish`, `Raise` |
| `pmc run`, `pmc daemon` | `StartOutside`, `EndOutside` |
| operator commands | `Pause`, `Resume`, `Cancel`, `CancelJob`, `Accept`, `Reject`, `Status` |
| SIGKILL, time | `Kill`, `LapseJob`, `LapseRun` |

A job is what a program sees of it: RUNNING stands for RUNNING, VERIFYING and
REVIEWING, BLOCKED for BLOCKED and FAILED, and an attempt loop ends as it likes.
That READY work was verified, and the recovery list that may be stale, are in
`JobLifecycle`; here a recovery is one step. `ensure_worktree` is one action, and
`Kill` has the remains of its middle: a lock, or a clean directory. A directory
left dirty is renamed and made anew, which is the action from scratch. A live
runner's job lease does not lapse here. Priorities are open: any dependency-ready
tasks may be selected. Each supervisor runs once; a restart is another supervisor.

`OrderStatus` maps a state to `ProgramOrder`: a task is verified when it has an
internal or accepted commit, started when it has a worktree, and waiting before.

### ModelRequests

A caller is the executor of one attempt with whatever sends its requests; the
three kinds (`bash`, `pooled`, `gateway`) differ in what they retry, in who goes
on when the agent ends, and in how the result is counted. `CheckBudget` to
`StartRow` are the commits of `ModelRequestAccounting.reserve` and `start`,
`Send` the physical request with one of the answers the code tells apart,
`CloseRow`, `CloseQuota`, `CloseLane` those of `succeed` and `fail`; `Refused` is
an exception of the reservation, `Waits` the gateway's sleep until a reset.
`Trip` is a reply that is JSON and no object: the handler dies of an
`AttributeError` (`provider_gateway.py:263`), its lane, quota row and request row
stay as they are with nobody who knows of them (`leftLanes`, `leftQuotas`,
`leftRows`), and the gateway goes on. `Recover` is the part of
`recover_expired_leases` about requests: it closes the rows of running attempts
and every open quota row of the job, and no lane.

The gateway serves one request at a time; an agent that gave up on one may ask
again, and the new request is among those `waiting` until `NextWaiting`. A
result is made by `Report`: `bash` reports what it has added up reply by reply
(`summed`, by `Tally`), or nothing after an invalid tool call; a pooled LLM and a
remote agent's run read the request rows, the latter whether its gateway is done
or not. `behind` is the number of requests not done with at that moment: `Settled`
and `ReportExact` say what is left open and what a result may lack, and neither
excludes a case. Left out: token and cost budgets; which lane it is
(`CredentialPool`).

### Admission

A worker is a controller with one job. `Choose`, `RetrySame`, `Follow` and
`NobodyAvailable` are `Scheduler.choose` and what `_run_job_locked` does with a
persisted decision and `retry_same`; `BeginRow` inserts the attempt, `Reserve`,
`Refuse` and `RowStays` are `reserve_resource` (it sweeps expired rows, then
looks for room, then inserts; the primary key may refuse), `RenewResource` the
heartbeat, `ReleaseResource` the release by key and job, `Settle` the retry policy.
The job's lease is reduced to its owner. History variables (`deposed`, `late`,
`robbed`, `unchecked`) record how a worker came to be where it is.

### TaskTree

An attempt's work is one edit named by its number, a commit is a sequence of
edits, the origin has at most one branch of the job. The actions follow the three
executors: `StartLocal` to `EndLocal` in place; `Upload`, then `ApplyWork`,
`RefuseWork` or `BringNothing` for a remote agent; `JulesChecks`, `Look`, `Adopt`,
`Publish`, `CreateSession` and the same returns for Jules. `FailKept` and
`FailReset` are what the controller does with a failure; a success goes through
`Normalize` (`normalize_worker_commits`), then `PassWork` (the attempt's row) and
`ConcludeWork` (the job's), or `RejectWork`. `LoseLease` lets an attempt's executor
go on as a ghost; `LanePushes` is another Jules lane. `crossed` records the
attempts something came between.

`KillAttempt` leaves the job as it is, its edits in the worktree; `RecoverWork`
is `db.py:1829-1848`, which makes the job READY from any attempt's READY row, a
rejected one's, too. `accept` is `AcceptCheck`, `AcceptCommit` and
`AcceptComplete` (or `AcceptAborts`), `reject` is `RejectCheck` and
`RejectStore`, one of each at a time, with anything between. `VerifiedKept`
therefore speaks of an acceptance that names the last attempt, with none begun
since its check and no lease lost. Each condition is needed: recovery offers the
row of an earlier attempt for the work of a killed one (the run `JobRevived`);
`complete_acceptance` does not ask for the job's state again, so that work begun
after the check may be under way; and a ghost may still be writing. Cancel,
reverify and cleanup are in `JobLifecycle` only.

### AgentLoop

One turn is `AskModel` (with its retries, which are in `ModelRequests`), one action
for what the reply said, and one for what the command came to. The conversation
is two counters: `open` calls nobody answered, `stray` answers to no call of
their own. `Conclude` is the controller's comparison of tokens and the policy of
the outcome. A reply is worth at most one token.

### Kanban

A command reads the board (`Begin`) and writes it (`Write`, `Ends`) in two
transactions; `checkpoint` has its commit, push and update apart, `init` its row
and its worktree. `start` looks at one WORKING card, the one first updated; the
model has no such order, and when the card is itself WORKING either answer is
possible. Two starts of different cards that overlap both find none WORKING, and
a smoke run may write back a WORKING it read before, so that the documented
single writer does not hold (`OneCardWorking`, run `KanbanWriters`). What holds
is `WorkingBounded`: all overlaps together make no more cards WORKING than there
are users. `stale` records the users whose `init` or `done` read the board
before somebody else changed it: `DoneIsSmoked` and `CardsKept` allow those what
the code does not prevent.

### TelegramControl

`Poll`, `Pass`, `RecordUpdate`, `Handle`, `FinishUpdate`, `Advance` and `Reply` are
`poll_once`, one commit or call each. The bot API is modelled from its use: it
forgets the updates below the offset it is asked with. `Check` is one successful
turn of the standby's supervisor script with `pmc-telegram-sync-offset`; the
threshold of failed checks is one `Outage`, in which the primary's service may go
on (`apart`) or be off (`down`). `cut` records the updates in hand at a kill.

## Runs

| Run | Instance | Shows |
|---|---|---|
| `JobRaces` | 2 controllers that overlap, 1 lapse of a live lease, budget 1, 1 rejection, `run` mode | `RetryBudget`, `AttemptHasOneOwner`, `LeaseKept` with two controllers in the job at once |
| `JobRestart` | 3 supervisors in turn, 2 kills, budget 2, accept and cancel | `SoundReady`, `DecisionExact`: whatever commit the kill comes after |
| `JobOperator` | 2 supervisors in turn, 1 kill, cancel, reverify and cleanup, fairness | `Resumed`: no job stays in flight |
| `JobDuplicate` | 3 daemons, 1 kill | violated `Exclusive`: two daemons execute the job |
| `JobRevived` | 2 supervisors, 1 kill, 1 rejection | violated `SoundReady`: rejected work comes back READY |
| `JobStranded` | 2 daemons in turn, 1 kill, fairness | violated `Resumed`: the job stays RUNNING |
| `Parts` | six parts side by side, instances below | 18 invariants and 4 action properties, named in `PROJECT.json` |
| `Services` | the pool (3 lanes, 2 sharing a quota, limits 1, 2 clients, 1 probe, 1 kill), the queue, the requests, and the plan of `ProgramRuns` with 2 workers, 2 supervisors and 1 kill; fairness | `LimitKept`, `ScopeKept`, `ReportExact`; `PoolOpens`, `Drains`, `AlwaysAnswered`, `ProgramSettles` (no endless polling) |
| `KanbanWriters` | 2 cards, 2 users, 5 commands | violated `OneCardWorking`: two overlapping starts |
| `PoolLeak` | 1 lane, 2 clients, 1 kill, fairness | violated `PoolSurvives`: a kill shuts the pool |
| `ProgramRuns` | 2 independent tasks and their integration, 2 supervisors, 1 kill, 1 daemon, 1 worker each, 1 command or daemon job | `ReviewMeansDone`; `KeepsOrder`, the refinement of `ProgramOrder` |
| `ProgramAdopted` | 2 tasks in a chain, a rejection and a resume | violated `Integrated`: after a conflict a task runs without its dependency |

Bounds. Two controllers are enough for every race here, because a race is
between a controller and its successor; `JobRestart` and `JobDuplicate` take a
third because a recovery must follow a recovery, or two must list what a third
left. Budget 1 with a rejection gives two cycles of one attempt, budget 2 a
repair inside a cycle. `MaxStalls`, `MaxRejects`, `Killable` and `MaxProbes`
bound what would otherwise repeat without new behaviour; attempts are bounded by
the budget itself. Deadlock is checked in the three passing job runs. It is not
checked where the system really stops: idle daemons with a finished or stranded
job, a pool whose lanes are all rejected or leaked, a program that has ended.
`JobRaces` uses symmetry on controllers; no property of it is a liveness
property.

A plan of three tasks is the least in which siblings run side by side and an
integration waits for both. Two supervisors are needed for a restart and for a
second one that starts while the first still drains; `MaxAsks` bounds commands
and daemon jobs to one, so a command cannot follow another (a job accepted in
the midst of a cancel is not reached). `pmc run` on a job of a program is left
out of `ProgramRuns`: it may name a task whose dependencies are not done, fails,
and the second time adopts the directory of the first, so that `KeepsOrder` fails
for the reason that `ProgramAdopted` shows.

`Parts` and `Services` put modules side by side that share no variable. The
initial state picks the `part` that moves; the others stay as they begin, so the
state space is the sum of the parts' and each part is checked as if alone. Their
instances, with the reason for each bound:

| Part | Instance |
|---|---|
| board | 3 cards, 2 users, 7 commands: a race needs two users, a race on evidence a project, a card, its start, a smoke run, a finish and a second smoke run; 7 commands are the least that could make three cards WORKING: a project, three adds and three starts |
| queue | 2 updates, one of another chat; 2 hosts; 2 kills, 1 outage: a kill on each host or twice on one |
| requests | a gateway that may lose its lease and a bash caller; budget 5 (`Services`: 4); 1 failover, 1 retry, 1 request each (`Services`: 2); answers ok, 429, `tool_use_failed`, no key (`Services`: ok, 429). A gateway can then use its whole allowance of 4. The other answers, and a pooled caller, take the same branches; the theorems cover them |
| admission | 3 workers, 2 of them on one job, of which one may lose its lease, be killed or stall; 2 candidates, one exclusive and single in its group, one quantitative; 2 attempts; outcomes that retry the same or another candidate (READY ones are left to the theorems) |
| tree | 2 attempts, each with any of the 3 executors, 1 ghost, 1 foreign push, branch published or not; kills and recoveries at any step, one accept and one reject under way at a time: a rejection, its rework, a kill and a recovery need the second attempt |
| loop | 3 turns, 1 command, limits 2: each limit strikes within them |

Deadlock is not checked there either: updates, commands, turns and attempts end.

Fairness. A live process goes on (`WF` of `Recover`, `Work`, `Serve`, `Check`):
the code has no step that waits on another process, apart from the answer of an
agent or a provider, which have timeouts. Time passes (`WF` of `LapseDead`,
`CooldownEnds`, `TokensReset`). Nobody is bound to pick a job, to issue a
command, to reserve or to probe. A killed supervisor is replaced while
controllers are left, and a supervisor scans again at each turn; a daemon does
not, which is `JobStranded`. In the program of `Services` live supervisors and their
threads go on, attempt loops end (`RetryBudget`), leases of the dead lapse, and
a program that may be claimed is claimed while a supervisor is left: a detached
run is a systemd unit with `Restart=on-failure` (`cli.py:303-316`). The one
exception in `ProgramSettles` beside that is the worktree lock a kill leaves
(`controller.py:154-160`): the thread waits for it without end, and the supervisor
for the thread. In `Services` the thread of a running Telegram service goes on
and a wanted service is started again (`Restart=always`); outages need not end
and nobody need post. `Drains` says that then some host's offset passes every
update posted, again and again. A caller's thread goes on and a provider
that stays silent ends in a timeout (`RequestFairness`), and the gateway's
shutdown is carried out; nothing else about requests is assumed. In `MCServices`
each condition is that of its module, restricted to the part that moves.

`SoundReady` and `DecisionExact` are checked where controllers do not overlap
and no READY job is rejected or reverified: with overlap two executors write one
worktree, and with a rejection `JobRevived` shows what happens. A probe is not
counted in `LimitKept` and `ScopeKept`, since it ignores the limits by design;
`PoolOpens` needs probes to be bounded, since an endless sequence of
rate-limited probes can keep a lane cooling.

## Proofs

`JobLifecycle_proofs` proves for every set of controllers, texts, modes,
commands and kills, and every budget:

* `TypeCorrect`: `Spec => []TypeOK`, from `TypeStep` (one step per action);
* `BudgetRespected`, `AttemptsSeparate`: `RetryBudget` and `AttemptHasOneOwner`.
  Neither is inductive. A controller decides on counters it read when it began,
  so the invariant `IInv` adds `CountersBehind`: a local `total` is never ahead
  of the rows, `total <= cycleStart + cycle`, and a dispatched controller still
  has budget. An insertion succeeds only for the next attempt number, so a
  controller that inserts has counted all rows, and then its own budget check
  bounds the cycle. `QuietKeepsCounts` disposes of the actions that touch
  neither rows nor counters;
* `LeaseKeptByOwner`: the action property `LeaseKept`;
* `ReadyIsSound`, `DecisionNamesEvidence`: `SoundReady` and `DecisionExact`,
  where `Undisturbed` holds: controllers do not overlap, `pmc run` is not given
  a job that is READY, and the operator only accepts and cancels. This is what
  `JobRestart` checks them under, with kills and recoveries at every step.
  Nothing less will do: with overlapping controllers, with `run` of a READY job,
  or with `reject`, `reverify` or `cleanup` as a command, TLC finds `SoundReady`
  violated on two controllers and one kill (for `reject` this is the run
  `JobRevived`). The invariant is `SInv`. Its core is `ReadyIsFinal`: a READY
  attempt is the last, and nothing runs the job any more. `WorkFollowsRows` and
  `DecisionFollowsRows` say for each place of a controller and of a command what
  it has seen and what the rows and the worktree therefore hold, so that every
  step that writes READY or a decision starts from verified content.

`CredentialPool_proofs` proves `PoolTypeCorrect`, `LaneLimitHolds` and
`ScopeLimitHolds` for every set of lanes and scopes, every limit and every finite
set of clients and probers. `PoolTypeOK /\ LimitKept /\ ScopeKept` is inductive:
only `Reserve` adds a client to a lane, its guard counts all users, and adding
one element raises a cardinality by one (`TakingAddsOne`).

`ProgramRunner_proofs` proves for every valid plan and every set of supervisors,
daemons, workers, commands and kills:

* `ProgramTypeCorrect`: types;
* `OrderImplemented`: `Spec => KeepsOrder`, that is the refinement of
  `ProgramOrder`; `OrderStep` maps `Prepare` to `Start`, `Promote` and `Accept` to
  `Verify` and the rest to stuttering;
* `ReviewIsBacked`: `ReviewMeansDone`.

The last two assume that `pmc run` is not used on the program's jobs, for the
reason given under Bounds. Their invariant `IInv` has three parts: `WorkExists`
(what is READY, promoted or accepted has a worktree), `DepsOffered` (the
dependencies of whatever has a worktree or has been submitted have commits; this
is what survives a kill, a pause or a second supervisor, because commits are
never taken back) and `ClaimsBacked` (neither the program's state nor the verdict
a supervisor is about to write claims more than the rows hold). That the terminal
task's start implies all milestones is `SinkNeedsAll`: in an acyclic plan with one
sink, a set with the terminal task that is closed under dependencies is the
whole plan.

`ModelRequests_proofs` holds for every set of callers, kinds, limits, answers
and kills. `RequestIInv` is the conjunction of the types; `Owner` (at most one
caller works without having lost its lease or been recovered: this is what makes
the budget's excess countable); `BudgetInv` (started requests plus those between
check and start stay within the budget plus the lost leases); `Tickets` (what
the step of a living thread says of its three rows); `Lefts` (what a gateway
dropped, and that drops and requests not done with are together no more than the
agent asked, which bounds it); `Reports` (a result plus the requests not done
when it was made covers all that is recorded, minus what is still due; `bash`
has added up all but the reply in hand); and `Sents` (each physical request is
the one in hand, one retried since the last wait, or one from before it). From
them `BudgetIsKept`, `SendsAreBounded`, `TicketsSettle` and `ReportsAreExact`.

`TaskTree_proofs` holds for any number of attempts, executors, ghosts and
pushes. The argument is that an attempt nothing has crossed is the only one at
work (`Alone`), so that what it saw of the worktree still holds at its next step
(`Sound`, stage by stage). `Owned` is about the time before a lease is lost: one
attempt is at work, the last begun (`Numbered`); if the last is READY, the
worktree holds what it passed, whatever was killed and recovered before; a job
offered for review, or whose accept has seen all attempts, has nobody at work;
and what such an accept has committed is what the last attempt passed.
`PatchMeetsBase` and `AcceptedIsVerified` follow. The invariant is proved
jointly with `SeqInv`, that HEAD and the branch are sequences of edits: that a
commit holds the whole worktree needs it, and so does `WorkIsKept`, for what a
prefix contains.

`TreeTypeOK` is not inductive: that no commit holds an edit twice needs `Tidy`
(all edits come from an attempt or a push so far, HEAD is within the worktree, and
the published commit is one, too) and `Settled` (what a settling attempt returned,
that READY rows are of attempts begun, and that at most one attempt that is not a
ghost is alive). With them `TreeTyped` follows.

`Attempts_proofs` is about what one attempt does. Of `AgentLoop`, `LoopInv` says
what a turn may still use (`Counted`), what a result tells (`Told`) and which calls
are open at each place (`Paired`). Of `Admission`, for every finite set of jobs and
every set of workers, candidates and keys with any limits and needs, it proves
`AdmissionTyped`, `ResourcesFit` and `ConcurrencyHeld` from `AInv`:

* `Recorded`: a worker's attempt is on record and no two workers of a job have
  the same one;
* `Leased`: all rows of a resource fit it together, the expired ones as well,
  because their holders may still renew them; a worker that is neither late nor
  robbed has its row;
* `Owned`: a worker never deposed owns its job, and as long as none is deposed no
  worker finds another's row under its job;
* `Vetted`: what `available` found still holds when the attempt begins, but for
  the workers in `unchecked`.

The sum of `quantitative_resource_available` is stated as the number of units
under the graph of the needs (`SumOf`): a cardinality, so that its laws
(`SumOfInjects`, `SumOfAdds`) follow from those of finite sets, where a fold would
need an induction over data.

`Kanban_proofs`: `BoardTypeOK /\ CheckpointsPushed` needs `Carried`, that a
command about to record a commit has pushed it. `WritersBounded` proves
`WorkingBounded` from `CrowdFits`: the cards that are WORKING and those that a
start or a smoke run in flight will make so (`Crowd`) are together no more than
the users. While no card is WORKING they are one card a user at most; while one
is, nothing joins them, because a start goes on only with a card that is WORKING
itself and a smoke run writes back only a WORKING that it found.
`DoneHasEvidence` and `CardsStay` prove the action properties from `Looked`:
what an `init` or a `done` read of the board still holds when it writes, unless
a write of another user came between and put it in `stale` (`Current`), and a
command that makes a card WORKING is about one card (`Single`).
`TelegramControl_proofs`: `PollIInv` adds to the types that an update in hand
has its row and has not been handed over (`Handed`), and that all that offsets
and batches have passed is dealt with (`Passed`, `Logged`); two services and the
copied offset make it necessary to say this of every host.

The assumptions are the named ASSUMEs of the modules; TLC evaluates them in every
run that extends them. Only model-checked: `Resumed`, `PoolOpens`, `ProgramSettles`,
`Drains` and `AlwaysAnswered`, which are liveness under fairness and beyond this
prover.

## Findings

The six violated runs are disagreements between the code and what the
repository says of it; `PROJECT.json` quotes the lines. In short: recovery acts
on a list that may be stale (`db.py:1821`); recovery takes a rejected attempt
for finished work (`db.py:1829`); a daemon recovers only when it starts
(`controller.py:142`); recovery does not clear credential reservations
(`db.py:1863`); two starts that overlap make two cards WORKING (`kanban.py:183`); a
worktree without its dependencies is adopted
(`controller.py:163`).

Other disagreements met while modelling, which no run is spent on:

* `docs/CANONICAL_PLAN.md:11-12` promises authentication quarantine; a 429 on a
  sibling lane or a late answer overwrites a rejected key's health (`db.py:761`,
  `db.py:734`), and the lane is used again.
* The comment at `telegram_control.py:247-248` has a process death before the
  offset re-deliver the update; it is delivered again, found in the log and
  skipped (`telegram_control.py:238`). `NothingForgotten` names these updates
  (`cut`).
* `docs/ARCHITECTURE.md:71` has a candidate's `max_concurrency` permit a fixed
  number of sessions; without a resource group the lease key is the candidate
  itself and exclusive (`controller.py:791`), and the second session's attempts
  are refused.
* `docs/PROGRAMS.md:103-104` has a task blocked on a conflict; the squashed
  commits of its dependencies are picked with `-X ours` when the plain pick
  conflicts (`controller.py:231`), which drops the conflicting hunks of the
  commit silently. The content of files is not modelled.
* A JSON reply that is no object ends the gateway's handler after the request
  has started (`provider_gateway.py:263`): its lane stays RESERVED for ever.
  `Settled` counts these.
* A research request in the text of a reply uses the call of an earlier reply or
  an unbound variable (`executors/bash.py:390`); `CallsAnswered` excludes it by
  `odd`.
* An invalid tool call after earlier turns is taken for a policy failure of the
  accounting (`executors/bash.py:337`, `controller.py:893-910`); `TokensTold`
  names it.

## Not modelled

* Sandbox: process isolation; what it does to a command is a choice in `AgentLoop`.
* Verifier and reviewer: they run commands and models without state; their
  verdicts are choices. Their scope checks match text over diffs.
* Configuration, prompts, context, reports, canaries: parsing, layout, statistics.
* The program operator script: a loop around commands that `ProgramRunner` has.
* Of the scheduler, tiers, capabilities and scores: they choose among the
  candidates that fit, and the model lets every choice happen.
* Of the executors, the polling of a Jules session, the OpenHands event stream
  and the Unity toolchain; of Telegram, what the agent does with a message.
* Of plans, their validation and approval.
