------------------------------ MODULE TaskTree ------------------------------
(***************************************************************************)
(* The worktree of one job under its attempts.  A local executor edits it  *)
(* in place; remote OpenHands ships a snapshot of it and applies the diff  *)
(* that comes back; Jules starts from the job's branch at the origin, which *)
(* the executor publishes first, and hands over a patch.  The controller   *)
(* undoes commits after a success and resets the worktree after some of    *)
(* the failures; a recovery decides about the job of a killed one, and     *)
(* humans accept and reject beside all that.  A controller that lost its    *)
(* lease lets its executor go on (a ghost), and other Jules lanes push to   *)
(* the branch.  Cancel, reverify and cleanup are in JobLifecycle only.      *)
(* An attempt's work is one edit, named by its number; a commit is the      *)
(* sequence of the edits since the baseline.  build_work_state makes new    *)
(* files visible to git diff before every attempt, so edits are tracked.    *)
(***************************************************************************)
EXTENDS Naturals, Sequences, FiniteSets, SequencesExt

CONSTANTS
  MaxNumber,    \* attempts
  Makes,        \* bound: the executors each attempt may have
  MaxGhosts,    \* bound: leases lost while an executor runs
  MaxPushes     \* bound: pushes by other lanes

Numbers == 1..MaxNumber
Makers == {"local", "remote", "jules"}
ASSUME TreeAssumption ==
  /\ {MaxNumber, MaxGhosts, MaxPushes} \subseteq Nat /\ Makes \in [Numbers -> SUBSET Makers]

Pushed(n) == MaxNumber + n    \* the edit of the n-th push
Edits == 1..(MaxNumber + MaxPushes)

VARIABLES
  tree,       \* the edits in the worktree
  HEAD,       \* its HEAD
  origin,     \* the job's branch at the origin: at most one commit
  published,  \* constraint jules_require_published_branch
  task,       \* the job: "idle" (QUEUED, RETRY, FAILED or BLOCKED), "running",
              \* "READY", "COMMITTED"
  ready,      \* the attempts whose row is READY
  verified,   \* what each attempt's verification passed
  stage,      \* where an attempt is
  maker,      \* its executor
  base,       \* what its remote copy started from
  lsRemote,   \* what ls-remote said
  returned,   \* what its executor returned
  acceptor,   \* pmc accept: "none", "checked", "committed"
  asked,      \* the attempts begun when it checked the job
  built,      \* what it committed
  accepted,   \* the attempt the latest acceptance names
  rejecting,  \* pmc reject has checked the job
  pushes,
  ghosts,     \* history: attempts that lost their lease
  crossed     \* history: attempts during which another executor was at work,
              \* or another lane pushed

gitVars == <<tree, HEAD, origin>>
jobVars == <<task, ready, verified>>
copyVars == <<base, lsRemote, returned>>
humanVars == <<acceptor, asked, built, accepted, rejecting>>
rest == <<published, maker, jobVars, humanVars, pushes, ghosts, crossed>>
treeVars == <<gitVars, stage, copyVars, rest>>

Stages == {"new", "start", "look", "adopt", "push", "create", "work", "settle", "verify",
           "passed", "over"}
Failing == {"failed", "resource"}
Begun == {a \in Numbers : stage[a] # "new"}
Live == {a \in Numbers : stage[a] \notin {"new", "over"}}

TreeTypeOK ==
  /\ tree \subseteq Edits /\ ToSet(HEAD) \subseteq tree /\ IsInjective(HEAD)
  /\ Len(origin) <= 1 /\ \A c \in ToSet(origin) : ToSet(c) \subseteq Edits
  /\ task \in {"idle", "running", "READY", "COMMITTED"}
  /\ ready \subseteq Begun /\ verified \in [Numbers -> SUBSET Edits]
  /\ stage \in [Numbers -> Stages] /\ maker \in [Numbers -> Makers]
  /\ \A a \in Numbers : stage[a] = "settle" => returned[a] \in Failing \cup {"ok"}
  /\ Cardinality(Live \ ghosts) <= 1
  /\ acceptor \in {"none", "checked", "committed"} /\ built \subseteq Edits /\ accepted \in 0..MaxNumber
  /\ rejecting \in BOOLEAN

TreeInit ==
  /\ tree = {} /\ HEAD = <<>> /\ origin = <<>> /\ published \in BOOLEAN
  /\ task = "idle" /\ ready = {} /\ verified = [a \in Numbers |-> {}]
  /\ stage = [a \in Numbers |-> "new"] /\ maker = [a \in Numbers |-> "local"]
  /\ base = [a \in Numbers |-> {}] /\ lsRemote = [a \in Numbers |-> <<>>]
  /\ returned = [a \in Numbers |-> "none"]
  /\ acceptor = "none" /\ asked = {} /\ built = {} /\ accepted = 0 /\ rejecting = FALSE
  /\ pushes = 0 /\ ghosts = {} /\ crossed = {}

Enters(a, s) == stage' = [stage EXCEPT ![a] = s]
Returns(a, r) == /\ Enters(a, "settle") /\ returned' = [returned EXCEPT ![a] = r]

-----------------------------------------------------------------------------
(* An attempt begins when the last one is over, or has lost its lease.  Any *)
(* state but ACCEPTED lets pmc run begin one (controller.py:405); a          *)
(* controller between two attempts does not look again, as it does here.     *)

MutantBeginNext(a, m) ==   \* beside the last one
  /\ task # "COMMITTED" /\ stage[a] = "new" /\ 1..(a - 1) \subseteq Begun
  /\ m \in Makes[a] /\ maker' = [maker EXCEPT ![a] = m] /\ Enters(a, "start")
  /\ task' = "running"
  /\ crossed' = IF Live = {} THEN crossed ELSE crossed \cup Live \cup {a}
  /\ UNCHANGED <<gitVars, copyVars, published, ready, verified, humanVars, pushes, ghosts>>
BeginNext(a, m) ==
  /\ task # "COMMITTED" /\ stage[a] = "new" /\ 1..(a - 1) \subseteq Begun
  /\ Live \subseteq ghosts
  /\ m \in Makes[a] /\ maker' = [maker EXCEPT ![a] = m] /\ Enters(a, "start")
  /\ task' = "running"
  /\ crossed' = IF Live = {} THEN crossed ELSE crossed \cup Live \cup {a}
  /\ UNCHANGED <<gitVars, copyVars, published, ready, verified, humanVars, pushes, ghosts>>

\* Local: edits and, against its instructions, commits in the worktree.
StartLocal(a) ==
  /\ stage[a] = "start" /\ maker[a] = "local" /\ Enters(a, "work")
  /\ UNCHANGED <<tree, HEAD, origin, base, lsRemote, returned, rest>>
WriteEdit(a) ==
  /\ stage[a] = "work" /\ maker[a] = "local" /\ a \notin tree
  /\ tree' = tree \cup {a}
  /\ UNCHANGED <<HEAD, origin, stage, base, lsRemote, returned, rest>>
CommitEdits(a) ==
  /\ stage[a] = "work" /\ maker[a] = "local" /\ tree # ToSet(HEAD)
  /\ HEAD' = HEAD \o SetToSeq(tree \ ToSet(HEAD))
  /\ UNCHANGED <<tree, origin, stage, base, lsRemote, returned, rest>>
EndLocal(a) ==
  /\ stage[a] = "work" /\ maker[a] = "local"
  /\ \E r \in {"ok", "failed", "resource"} : Returns(a, r)
  /\ UNCHANGED <<tree, HEAD, origin, base, lsRemote, rest>>

\* Remote OpenHands: a snapshot of the worktree, committed or not.
Upload(a) ==
  /\ stage[a] = "start" /\ maker[a] = "remote"
  /\ base' = [base EXCEPT ![a] = tree] /\ Enters(a, "work")
  /\ UNCHANGED <<tree, HEAD, origin, lsRemote, returned, rest>>

-----------------------------------------------------------------------------
(* Jules: the branch is published, adopting what another lane pushed ahead. *)

JulesChecks(a) ==
  /\ stage[a] = "start" /\ maker[a] = "jules"
  /\ IF a > 1 /\ tree # {}
     THEN Returns(a, "failed")
     ELSE Enters(a, IF published THEN "look" ELSE "create") /\ UNCHANGED returned
  /\ UNCHANGED <<tree, HEAD, origin, base, lsRemote, rest>>

MutantLook(a) ==   \* a branch that exists is taken for published
  /\ stage[a] = "look" /\ tree = ToSet(HEAD)
  /\ lsRemote' = [lsRemote EXCEPT ![a] = origin]
  /\ Enters(a, IF origin = <<>> THEN "push" ELSE "create")
  /\ UNCHANGED <<tree, HEAD, origin, base, returned, rest>>
Look(a) ==      \* git status, rev-parse, ls-remote
  /\ stage[a] = "look" /\ tree = ToSet(HEAD)
  /\ lsRemote' = [lsRemote EXCEPT ![a] = origin]
  /\ Enters(a, IF origin = <<>> THEN "push" ELSE IF origin = <<HEAD>> THEN "create" ELSE "adopt")
  /\ UNCHANGED <<tree, HEAD, origin, base, returned, rest>>
Uncommitted(a) ==
  /\ stage[a] = "look" /\ tree # ToSet(HEAD) /\ Returns(a, "failed")
  /\ UNCHANGED <<tree, HEAD, origin, base, lsRemote, rest>>
Adopt(a) ==     \* fetch, merge-base, reset --hard
  /\ stage[a] = "adopt" /\ IsPrefix(HEAD, origin[1])
  /\ HEAD' = origin[1] /\ tree' = ToSet(origin[1]) /\ Enters(a, "push")
  /\ UNCHANGED <<origin, base, lsRemote, returned, rest>>
Ahead(a) ==
  /\ stage[a] = "adopt" /\ ~IsPrefix(HEAD, origin[1])
  /\ IF IsPrefix(lsRemote[a][1], HEAD) THEN Enters(a, "push") /\ UNCHANGED returned
                                       ELSE Returns(a, "failed")
  /\ UNCHANGED <<tree, HEAD, origin, base, lsRemote, rest>>
Publish(a) ==
  /\ stage[a] = "push"
  /\ IF origin = <<>> \/ IsPrefix(origin[1], HEAD)
     THEN origin' = <<HEAD>> /\ Enters(a, "create") /\ UNCHANGED returned
     ELSE Returns(a, "failed") /\ UNCHANGED origin
  /\ UNCHANGED <<tree, HEAD, base, lsRemote, rest>>
\* A session starts from the branch as it is at the origin by then; without a
\* published branch, from the base branch.
CreateSession(a) ==
  /\ stage[a] = "create"
  /\ base' = [base EXCEPT ![a] = IF origin = <<>> THEN {} ELSE ToSet(origin[1])]
  /\ Enters(a, "work")
  /\ UNCHANGED <<tree, HEAD, origin, lsRemote, returned, rest>>
RefuseSession(a) ==
  /\ stage[a] = "create" /\ Returns(a, "failed")
  /\ UNCHANGED <<tree, HEAD, origin, base, lsRemote, rest>>

-----------------------------------------------------------------------------
(* What comes back from a remote executor.                                  *)

Away(a) == stage[a] = "work" /\ maker[a] # "local"
ApplyWork(a) ==   \* OpenHands may still report the error of its run
  /\ Away(a)
  /\ tree' = tree \cup {a}
  /\ \E r \in IF maker[a] = "remote" THEN {"ok", "failed", "resource"} ELSE {"ok"} : Returns(a, r)
  /\ UNCHANGED <<HEAD, origin, base, lsRemote, rest>>
RefuseWork(a) ==  \* the patch does not fit: git apply --3way may leave a part of it
  /\ Away(a) /\ (tree # base[a] \/ (maker[a] = "jules" /\ ~published))
  /\ Returns(a, "failed") /\ tree' \in {tree, tree \cup {a}}
  /\ UNCHANGED <<HEAD, origin, base, lsRemote, rest>>
\* A lost diff counts as none, and as success; Jules without a patch, a failed
\* session, a timeout or an HTTP error fails.
BringNothing(a) ==
  /\ Away(a)
  /\ \E r \in IF maker[a] = "remote" THEN {"ok", "failed", "resource"} ELSE {"failed"} : Returns(a, r)
  /\ UNCHANGED <<tree, HEAD, origin, base, lsRemote, rest>>

-----------------------------------------------------------------------------
(* The controller settles the attempt; set_state asks for no earlier state. *)

Leaves(a) ==        \* what was known of an attempt while it was at work
  /\ Enters(a, "over") /\ maker' = [maker EXCEPT ![a] = "local"]
  /\ base' = [base EXCEPT ![a] = {}] /\ lsRemote' = [lsRemote EXCEPT ![a] = <<>>]
  /\ returned' = [returned EXCEPT ![a] = "none"] /\ crossed' = crossed \ {a}
Finishes(a, state) ==
  /\ Leaves(a) /\ task' = state
  /\ UNCHANGED <<origin, published, ready, verified, humanVars, pushes, ghosts>>
FailKept(a) ==      \* the work stays for the next attempt
  /\ stage[a] = "settle" /\ returned[a] = "failed" /\ Finishes(a, "idle")
  /\ UNCHANGED <<tree, HEAD>>
FailReset(a) ==     \* reset_attempt
  /\ stage[a] = "settle" /\ returned[a] = "resource" /\ Finishes(a, "idle")
  /\ tree' = {} /\ HEAD' = <<>>
MutantNormalize(a) ==   \* reset --hard for --mixed
  /\ stage[a] = "settle" /\ returned[a] = "ok" /\ Enters(a, "verify")
  /\ HEAD' = <<>> /\ tree' = {} /\ task' = "running"
  /\ UNCHANGED <<origin, copyVars, published, maker, ready, verified, humanVars, pushes,
                 ghosts, crossed>>
Normalize(a) ==     \* normalize_worker_commits; VERIFYING
  /\ stage[a] = "settle" /\ returned[a] = "ok" /\ Enters(a, "verify")
  /\ HEAD' = <<>> /\ task' = "running"
  /\ UNCHANGED <<tree, origin, copyVars, published, maker, ready, verified, humanVars, pushes,
                 ghosts, crossed>>
PassWork(a) ==      \* verified and reviewed; the attempt's row
  /\ stage[a] = "verify" /\ Enters(a, "passed")
  /\ ready' = ready \cup {a} /\ verified' = [verified EXCEPT ![a] = tree]
  /\ UNCHANGED <<gitVars, copyVars, published, maker, task, humanVars, pushes, ghosts, crossed>>
ConcludeWork(a) ==  \* the job's row
  /\ stage[a] = "passed" /\ Finishes(a, "READY")
  /\ UNCHANGED <<tree, HEAD>>
RejectWork(a, verdict) ==   \* by the verifier or the reviewer
  /\ stage[a] = "verify" /\ Finishes(a, "idle")
  /\ IF verdict = "scope" THEN tree' = {} /\ HEAD' = <<>> ELSE UNCHANGED <<tree, HEAD>>

-----------------------------------------------------------------------------
(* Kills, lost leases, recovery and other lanes.                            *)

LoseLease(a) ==
  /\ a \in Live \ ghosts /\ Cardinality(ghosts) < MaxGhosts
  /\ ghosts' = ghosts \cup {a}
  /\ UNCHANGED <<gitVars, stage, copyVars, published, maker, jobVars, humanVars, pushes, crossed>>
KillAttempt(a) ==
  /\ a \in Live /\ Leaves(a)
  /\ UNCHANGED <<gitVars, published, jobVars, humanVars, pushes, ghosts>>
RecoverWork ==      \* any READY row of the job makes it READY
  /\ task = "running" /\ Live \subseteq ghosts
  /\ task' = IF ready # {} THEN "READY" ELSE "idle"
  /\ UNCHANGED <<gitVars, stage, copyVars, published, maker, ready, verified, humanVars, pushes,
                 ghosts, crossed>>
LanePushes ==
  /\ pushes < MaxPushes /\ pushes' = pushes + 1
  /\ origin' = <<Append(IF origin = <<>> THEN <<>> ELSE origin[1], Pushed(pushes + 1))>>
  /\ crossed' = crossed \cup Live
  /\ UNCHANGED <<tree, HEAD, stage, copyVars, published, maker, jobVars, humanVars, ghosts>>

-----------------------------------------------------------------------------
(* pmc accept and pmc reject take no lease: what they write rests on a look *)
(* at the job that others may overtake.  One of each at a time.             *)

others == <<origin, stage, copyVars, published, maker, ready, verified, pushes, ghosts, crossed>>
MutantAcceptCheck ==    \* whatever the job's state
  /\ acceptor = "none" /\ acceptor' = "checked" /\ asked' = Begun
  /\ UNCHANGED <<tree, HEAD, task, built, accepted, rejecting, others>>
AcceptCheck ==
  /\ acceptor = "none" /\ task = "READY" /\ acceptor' = "checked" /\ asked' = Begun
  /\ UNCHANGED <<tree, HEAD, task, built, accepted, rejecting, others>>
AcceptCommit ==         \* commit_idempotent
  /\ acceptor = "checked" /\ acceptor' = "committed" /\ built' = tree
  /\ HEAD' = HEAD \o SetToSeq(tree \ ToSet(HEAD))
  /\ UNCHANGED <<tree, task, asked, accepted, rejecting, others>>
\* The acceptance names the latest READY attempt there is by now.
AcceptComplete ==
  /\ acceptor = "committed" /\ acceptor' = "none" /\ asked' = {} /\ built' = {}
  /\ task' = "COMMITTED"
  /\ \E a \in ready :
       /\ \A b \in ready : b <= a
       /\ accepted' = a
  /\ UNCHANGED <<tree, HEAD, rejecting, others>>
AcceptAborts ==         \* a kill, a failing commit, no READY attempt
  /\ acceptor # "none" /\ acceptor' = "none" /\ asked' = {} /\ built' = {}
  /\ UNCHANGED <<tree, HEAD, task, accepted, rejecting, others>>
RejectCheck ==
  /\ ~rejecting /\ task \in {"READY", "idle"} /\ rejecting' = TRUE
  /\ UNCHANGED <<tree, HEAD, task, acceptor, asked, built, accepted, others>>
RejectStore ==          \* RETRY, or nothing when it is killed
  /\ rejecting /\ rejecting' = FALSE /\ task' \in {task, "idle"}
  /\ UNCHANGED <<tree, HEAD, acceptor, asked, built, accepted, others>>

TreeNext ==
  \/ \E a \in Numbers :
       \/ (\E m \in Makers : BeginNext(a, m)) \/ StartLocal(a) \/ WriteEdit(a) \/ CommitEdits(a) \/ EndLocal(a)
       \/ Upload(a) \/ JulesChecks(a) \/ Look(a) \/ Uncommitted(a) \/ Adopt(a) \/ Ahead(a)
       \/ Publish(a) \/ CreateSession(a) \/ RefuseSession(a)
       \/ ApplyWork(a) \/ RefuseWork(a) \/ BringNothing(a)
       \/ FailKept(a) \/ FailReset(a) \/ Normalize(a) \/ PassWork(a) \/ ConcludeWork(a)
       \/ (\E v \in {"wrong", "scope"} : RejectWork(a, v)) \/ LoseLease(a) \/ KillAttempt(a)
  \/ RecoverWork \/ LanePushes \/ AcceptCheck \/ AcceptCommit \/ AcceptComplete \/ AcceptAborts
  \/ RejectCheck \/ RejectStore
TreeSpec == TreeInit /\ [][TreeNext]_treeVars

-----------------------------------------------------------------------------
(* Work leaves the worktree only when the controller resets it after an     *)
(* attempt that ran out of a resource or left its scope; adopting a branch  *)
(* that is ahead takes none, unless another executor is at work beside it   *)
(* (controller.py:959-967, 981-982, 1060-1061, jules.py:168-187).           *)
ResetAfter(a) ==
  /\ stage'[a] = "over" /\ tree' = {}
  /\ stage[a] = "verify" \/ (stage[a] = "settle" /\ returned[a] = "resource")
NothingSwept ==
  [][tree \subseteq tree' \/ (\E a \in Numbers : ResetAfter(a))
     \/ (\E a \in crossed : stage[a] = "adopt" /\ stage'[a] = "push")]_treeVars

(* When a remote executor's patch arrives, the worktree is what its copy    *)
(* started from, unless another executor or lane came between; a Jules      *)
(* session of a job that is not published may start from less or more, but  *)
(* never meets another attempt's work (openhands.py:513-545, 609-615,       *)
(* jules.py:135-203, 209-222).                                              *)
PatchBase ==
  \A a \in Numbers \ crossed :
    stage[a] = "work" =>
      CASE maker[a] = "remote" -> tree = base[a]
        [] maker[a] = "jules"  -> IF published THEN tree = base[a] ELSE tree \subseteq base[a]
        [] OTHER -> TRUE

(* What a human accepts is what the verifier passed in the attempt the      *)
(* acceptance names, whatever was killed, recovered or rejected before, when *)
(* that attempt is the last and none began since accept looked at the job.   *)
(* Neither may be dropped: recovery offers an earlier attempt's row for the  *)
(* work of a killed one (run JobRevived), and complete_acceptance does not   *)
(* ask for the job's state again.  An executor without a lease may still be  *)
(* writing (controller.py:1226-1292, db.py:1829-1848, 2421-2436).            *)
VerifiedKept ==
  [][task # "COMMITTED" /\ task' = "COMMITTED" /\ ghosts = {}
     /\ asked = Begun /\ Begun \subseteq 1..accepted' => built = verified[accepted']]_treeVars
=============================================================================
