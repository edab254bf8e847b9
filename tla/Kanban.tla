------------------------------- MODULE Kanban -------------------------------
(***************************************************************************)
(* The board of one Kanban project: its row and persistent worktree, its   *)
(* cards, and the branch its checkpoints are pushed to.  Users (agents,    *)
(* operators, a watchdog) run one command at a time each; a command reads  *)
(* the board in one transaction and writes it in another, so that commands *)
(* of two users interleave between the two, and a user may be killed in    *)
(* between.  The work_state_json column, which nothing reads, is left out. *)
(***************************************************************************)
EXTENDS Naturals, FiniteSets

CONSTANTS
  Tasks, Users,
  MaxCommands   \* bound: commands begun

ASSUME BoardAssumption == MaxCommands \in Nat /\ IsFiniteSet(Users)

VARIABLES
  project,   \* the kanban_projects row exists
  worktree,  \* the project's worktree exists, on its branch
  card,      \* kanban_tasks.state, "absent" without a row
  smoked,    \* kanban_tasks.smoke_status
  saved,     \* last_checkpoint_commit: the commit's place on the branch, or 0
  dirty,     \* the worktree has changes no commit has
  head,      \* commits on the branch since the project began
  pushed,    \* how many of them origin has
  op,        \* what is left of the command a user is in, "none" if there is none
  on,        \* the cards it is about
  seen,      \* the card's state it is to write, as it read the row
  commit,    \* the commit it is to record
  stale,     \* history: the users whose init or done read the board before a change
  commands   \* commands begun

boardVars == <<project, worktree, card, smoked, saved, dirty, head, pushed,
               op, on, seen, commit, stale, commands>>

CardState == {"READY", "WORKING", "CHECKPOINTED", "NEEDS_REPAIR", "BLOCKED", "DONE"}
Evidence == {"PASS", "WARNING"}
Ops == {"init", "start", "commit", "push", "record", "refused", "smoke",
        "done", "diagnose"}

BoardTypeOK ==
  /\ project \in BOOLEAN /\ worktree \in BOOLEAN /\ dirty \in BOOLEAN
  /\ card \in [Tasks -> CardState \cup {"absent"}]
  /\ smoked \in [Tasks -> Evidence \cup {"none", "FATAL"}]
  /\ head \in Nat /\ pushed \in 0..head /\ saved \in [Tasks -> 0..head]
  /\ op \in [Users -> Ops \cup {"none"}] /\ on \in [Users -> SUBSET Tasks]
  /\ seen \in [Users -> CardState] /\ commit \in [Users -> 0..head]
  /\ stale \subseteq Users /\ commands \in 0..MaxCommands
  /\ project \/ card = [t \in Tasks |-> "absent"]   \* REFERENCES kanban_projects

BoardInit ==
  /\ project = FALSE /\ worktree = FALSE
  /\ card = [t \in Tasks |-> "absent"] /\ smoked = [t \in Tasks |-> "none"]
  /\ saved = [t \in Tasks |-> 0] /\ head = 0 /\ pushed = 0 /\ dirty = FALSE
  /\ op = [u \in Users |-> "none"] /\ on = [u \in Users |-> {}]
  /\ seen = [u \in Users |-> "READY"] /\ commit = [u \in Users |-> 0]
  /\ stale = {} /\ commands = 0

-----------------------------------------------------------------------------
(* Steps of a command.  Begin is its look at the board, Write a change of   *)
(* the rows and the end of the command, which makes stale what others read. *)

Working == {t \in Tasks : card[t] = "WORKING"}
Idle(u) == op[u] = "none" /\ commands < MaxCommands
Started == commands' = commands + 1
Git == <<dirty, head, pushed>>

Begin(u, what, cards) ==
  /\ Idle(u) /\ Started
  /\ op' = [op EXCEPT ![u] = what] /\ on' = [on EXCEPT ![u] = cards]
  /\ UNCHANGED <<card, smoked, saved, commit, stale>>
Ends(u) ==
  /\ op' = [op EXCEPT ![u] = "none"] /\ on' = [on EXCEPT ![u] = {}]
  /\ seen' = [seen EXCEPT ![u] = "READY"] /\ commit' = [commit EXCEPT ![u] = 0]
Rows(u) == {t \in on[u] : card[t] # "absent"}   \* those an UPDATE finds
Noticed(u) ==  \* an init or a done of the others has not seen this change
  stale' = (stale \ {u}) \cup {v \in Users \ {u} : op[v] \in {"init", "done"}}
Write(u, cards, state) ==
  /\ card' = [t \in Tasks |-> IF t \in cards THEN state ELSE card[t]]
  /\ Noticed(u)

\* A command of one transaction: it reads nothing that it writes by.
AtOnce(u) == Idle(u) /\ Started /\ UNCHANGED <<op, on, seen, commit>>

-----------------------------------------------------------------------------
(* The project and its cards.                                               *)

\* create_project: the row is committed before the worktree is made.
MutantInitProject(u) ==   \* INSERT OR REPLACE: the cascade takes the cards
  /\ Idle(u) /\ Started
  /\ project' = TRUE
  /\ op' = [op EXCEPT ![u] = "init"] /\ Write(u, Tasks, "absent")
  /\ smoked' = [t \in Tasks |-> "none"] /\ saved' = [t \in Tasks |-> 0]
  /\ UNCHANGED <<worktree, Git, on, seen, commit>>
InitProject(u) ==
  /\ Idle(u) /\ ~project /\ Started
  /\ project' = TRUE
  /\ op' = [op EXCEPT ![u] = "init"] /\ Noticed(u)
  /\ UNCHANGED <<worktree, card, smoked, saved, Git, on, seen, commit>>
InitWorktree(u) ==
  /\ op[u] = "init" /\ Ends(u)
  /\ worktree' = TRUE /\ stale' = stale \ {u}
  /\ UNCHANGED <<project, card, smoked, saved, Git, commands>>
\* The row goes, and by ON DELETE CASCADE the project's cards.  The worktree
\* may be there all the same, made by another user in the meantime.
MutantInitFails(u) ==   \* without foreign keys
  /\ op[u] = "init" /\ Ends(u)
  /\ project' = FALSE /\ stale' = stale \ {u}
  /\ UNCHANGED <<worktree, card, smoked, saved, Git, commands>>
InitFails(u) ==
  /\ op[u] = "init" /\ Ends(u)
  /\ project' = FALSE
  /\ Write(u, Tasks, "absent")
  /\ smoked' = [t \in Tasks |-> "none"] /\ saved' = [t \in Tasks |-> 0]
  /\ UNCHANGED <<worktree, Git, commands>>

AddTask(u, t) ==
  /\ AtOnce(u) /\ project /\ card[t] = "absent"
  /\ Write(u, {t}, "READY")
  /\ UNCHANGED <<project, worktree, smoked, saved, Git>>

Edit(t) ==   \* the executor of a card works in the worktree
  /\ t \in Working /\ worktree /\ ~dirty
  /\ dirty' = TRUE
  /\ UNCHANGED <<project, worktree, card, smoked, saved, head, pushed, op, on,
                 seen, commit, stale, commands>>

-----------------------------------------------------------------------------
(* Commands on a card.                                                      *)

Startable == {"READY", "CHECKPOINTED", "NEEDS_REPAIR", "WORKING"}

\* Of the WORKING cards the code looks at one, the first that was updated; when
\* the command is about a WORKING card, either answer is possible here.
MutantStart(u, t) ==   \* the other cards are not looked at
  /\ Begin(u, "start", {t}) /\ card[t] \in Startable
  /\ UNCHANGED <<project, worktree, Git, seen>>
Start(u, t) ==
  /\ Begin(u, "start", {t}) /\ card[t] \in Startable
  /\ Working = {} \/ t \in Working
  /\ UNCHANGED <<project, worktree, Git, seen>>
StartWorking(u) ==
  /\ op[u] = "start" /\ project /\ Ends(u)
  /\ worktree' = TRUE
  /\ Write(u, Rows(u), "WORKING")
  /\ UNCHANGED <<project, smoked, saved, Git, commands>>

\* checkpoint: `git add`, `git commit` and the commit's name ...
Checkpoint(u, t) ==
  /\ card[t] = "WORKING"
  /\ Begin(u, "commit", {t})
  /\ UNCHANGED <<project, worktree, Git, seen>>
NothingToCommit(u) ==
  /\ op[u] = "commit" /\ ~dirty /\ Ends(u) /\ stale' = stale \ {u}
  /\ UNCHANGED <<project, worktree, card, smoked, saved, Git, commands>>
Commit(u) ==
  /\ op[u] = "commit" /\ dirty
  /\ dirty' = FALSE /\ head' = head + 1
  /\ commit' = [commit EXCEPT ![u] = head + 1]
  /\ op' = [op EXCEPT ![u] = "push"]
  /\ UNCHANGED <<project, worktree, card, smoked, saved, pushed, on, seen, stale,
                 commands>>
\* ... one push of HEAD ...
MutantPush(u) ==   \* a push that fails is not noticed
  /\ op[u] = "push" /\ project
  /\ op' = [op EXCEPT ![u] = "record"] /\ pushed' \in {pushed, head}
  /\ UNCHANGED <<project, worktree, card, smoked, saved, dirty, head, on, seen,
                 commit, stale, commands>>
Push(u) ==
  /\ op[u] = "push" /\ project
  /\ \/ op' = [op EXCEPT ![u] = "record"] /\ pushed' = head
     \/ op' = [op EXCEPT ![u] = "refused"] /\ UNCHANGED pushed
  /\ UNCHANGED <<project, worktree, card, smoked, saved, dirty, head, on, seen,
                 commit, stale, commands>>
\* ... and the row.
Record(u) ==
  /\ op[u] = "record" /\ Ends(u)
  /\ Write(u, Rows(u), "CHECKPOINTED")
  /\ saved' = [t \in Tasks |-> IF t \in Rows(u) THEN commit[u] ELSE saved[t]]
  /\ UNCHANGED <<project, worktree, smoked, Git, commands>>
PushFailed(u) ==
  /\ op[u] = "refused" /\ Ends(u)
  /\ Write(u, Rows(u), "BLOCKED")
  /\ UNCHANGED <<project, worktree, smoked, saved, Git, commands>>

\* smoke: the state a PASS leads to is decided by the row as it was read.
Smoke(u, t) ==
  /\ card[t] # "absent"
  /\ Begin(u, "smoke", {t}) /\ worktree' = TRUE
  /\ seen' = [seen EXCEPT ![u] = IF saved[t] # 0 THEN "CHECKPOINTED" ELSE card[t]]
  /\ UNCHANGED <<project, Git>>
MutantSmokeEnds(u, result) ==   \* a failure does not send the card to repair
  /\ op[u] = "smoke" /\ Ends(u)
  /\ Write(u, Rows(u), seen[u])
  /\ smoked' = [t \in Tasks |-> IF t \in Rows(u) THEN result ELSE smoked[t]]
  /\ UNCHANGED <<project, worktree, saved, Git, commands>>
SmokeEnds(u, result) ==
  /\ op[u] = "smoke" /\ Ends(u)
  /\ Write(u, Rows(u), IF result = "FATAL" THEN "NEEDS_REPAIR" ELSE seen[u])
  /\ smoked' = [t \in Tasks |-> IF t \in Rows(u) THEN result ELSE smoked[t]]
  /\ UNCHANGED <<project, worktree, saved, Git, commands>>

Warning(u, t) ==
  /\ AtOnce(u) /\ card[t] # "absent"
  /\ smoked' = [smoked EXCEPT ![t] = "WARNING"] /\ Noticed(u)
  /\ UNCHANGED <<project, worktree, card, saved, Git>>
Block(u, t) ==
  /\ AtOnce(u) /\ card[t] # "absent"
  /\ Write(u, {t}, "BLOCKED") /\ worktree' = TRUE
  /\ UNCHANGED <<project, smoked, saved, Git>>

Finish(u, t) ==   \* whatever the card's state
  /\ card[t] # "absent" /\ smoked[t] \in Evidence
  /\ Begin(u, "done", {t})
  /\ UNCHANGED <<project, worktree, Git, seen>>
Done(u) ==
  /\ op[u] = "done" /\ Ends(u)
  /\ Write(u, Rows(u), "DONE")
  /\ UNCHANGED <<project, worktree, smoked, saved, Git, commands>>

\* diagnose_working: the cards WORKING on the board and not known to be alive
\* are released one by one.
Diagnose(u, phantoms) ==
  /\ phantoms # {} /\ phantoms \subseteq Working
  /\ Begin(u, "diagnose", phantoms)
  /\ UNCHANGED <<project, worktree, Git, seen>>
Release(u, t) ==
  /\ op[u] = "diagnose" /\ t \in Rows(u)
  /\ IF on[u] = {t} THEN Ends(u)
                    ELSE on' = [on EXCEPT ![u] = @ \ {t}] /\ UNCHANGED <<op, seen, commit>>
  /\ Write(u, {t}, "NEEDS_REPAIR") /\ worktree' = TRUE
  /\ UNCHANGED <<project, smoked, saved, Git, commands>>

\* Killed, or ended by an error of Git or of a row that is gone.
Killed(u) ==
  /\ op[u] # "none" /\ Ends(u) /\ stale' = stale \ {u}
  /\ UNCHANGED <<project, worktree, card, smoked, saved, Git, commands>>

Command(u) ==
  \/ InitProject(u) \/ InitWorktree(u) \/ InitFails(u)
  \/ StartWorking(u) \/ NothingToCommit(u) \/ Commit(u) \/ Push(u) \/ Record(u)
  \/ PushFailed(u) \/ Done(u) \/ Killed(u)
  \/ \E result \in {"PASS", "FATAL"} : SmokeEnds(u, result)
  \/ \E phantoms \in SUBSET Tasks : Diagnose(u, phantoms)
  \/ \E t \in Tasks :
       \/ AddTask(u, t) \/ Start(u, t) \/ Checkpoint(u, t) \/ Smoke(u, t)
       \/ Warning(u, t) \/ Block(u, t) \/ Finish(u, t) \/ Release(u, t)
BoardNext == (\E u \in Users : Command(u)) \/ (\E t \in Tasks : Edit(t))
BoardSpec == BoardInit /\ [][BoardNext]_boardVars

-----------------------------------------------------------------------------
(* Each checkpoint on the board is on origin, whatever order the commits,   *)
(* pushes and updates of two users and their kills come in (kanban.py:241).  *)
CheckpointsPushed == \A t \in Tasks : saved[t] <= pushed

(* What overlapping starts and smoke runs, commands and kills can add up to  *)
(* is one WORKING card a user, however many cards there are: a look at the   *)
(* board that finds a WORKING card adds none (kanban.py:173-194, 257-264).   *)
WorkingBounded == Cardinality(Working) <= Cardinality(Users)

(* A card becomes DONE only with evidence of a smoke run, or by a command    *)
(* that looked before a later run took the evidence away; and it never stays *)
(* DONE over a failed run otherwise (kanban.py:257-283).                     *)
DoneIsSmoked ==
  [][\A t \in Tasks : card'[t] = "DONE" /\ smoked'[t] \notin Evidence
       => \/ card[t] = "DONE" /\ smoked[t] \notin Evidence
          \/ \E u \in stale : op[u] = "done" /\ op'[u] = "none"]_boardVars

(* Cards leave the board only with a project whose worktree could not be     *)
(* made while another user already took it for usable (kanban.py:97-105).    *)
CardsKept ==
  [][(\E t \in Tasks : card[t] # "absent" /\ card'[t] = "absent")
       => \E u \in stale : op[u] = "init" /\ op'[u] = "none"]_boardVars

(* What the documentation says, and the code does not keep *)

(* KANBAN_MODE.md: only one task can be WORKING in a project at a time. *)
OneCardWorking == Cardinality(Working) <= 1
=============================================================================
