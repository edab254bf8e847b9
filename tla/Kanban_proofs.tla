--------------------------- MODULE Kanban_proofs ---------------------------
(* The board's types and its checkpoints, for any cards, users and number  *)
(* of commands.  That a checkpoint on the board is on origin needs what a  *)
(* command carries between its steps: a commit it has pushed (Carried).    *)
(* What its steps may never do needs what it found on the board when it    *)
(* began, which holds unless it was overtaken (Current); and how many      *)
(* cards can be WORKING, the cards that commands are still to make so      *)
(* (Crowd).                                                                *)
EXTENDS Kanban, FiniteSetTheorems, TLAPS

\* A command about to record a commit has pushed it.
Carried == \A u \in Users : op[u] = "record" => commit[u] <= pushed
BoardInv == BoardTypeOK /\ CheckpointsPushed /\ Carried

LEMMA BoardBegins == BoardInit => BoardInv
<1> SUFFICES ASSUME BoardInit PROVE BoardInv
  OBVIOUS
<1>1. BoardTypeOK
  <2>1. /\ head \in Nat /\ pushed \in 0..head /\ saved \in [Tasks -> 0..head]
        /\ stale \subseteq Users /\ commands \in 0..MaxCommands
    BY BoardAssumption DEF BoardInit
  <2>5. project \in BOOLEAN /\ worktree \in BOOLEAN /\ dirty \in BOOLEAN
    BY Zenon DEF BoardInit
  <2>2. card \in [Tasks -> CardState \cup {"absent"}] /\ card = [t \in Tasks |-> "absent"]
    BY DEF BoardInit
  <2>3. smoked \in [Tasks -> Evidence \cup {"none", "FATAL"}]
    BY DEF BoardInit
  <2>4. /\ op \in [Users -> Ops \cup {"none"}] /\ on \in [Users -> SUBSET Tasks]
        /\ seen \in [Users -> CardState] /\ commit \in [Users -> 0..head]
    BY DEF BoardInit, CardState
  <2> QED
    BY <2>1, <2>2, <2>3, <2>4, <2>5 DEF BoardTypeOK
<1>2. CheckpointsPushed /\ Carried
  BY DEF BoardInit, CheckpointsPushed, Carried
<1> QED
  BY <1>1, <1>2 DEF BoardInv

\* The part of the type invariant about the cards.
Cards ==
  /\ card \in [Tasks -> CardState \cup {"absent"}]
  /\ project \/ card = [t \in Tasks |-> "absent"]

\* The rows of a command are written only where there are rows.
LEMMA RowsKeep ==
  ASSUME BoardTypeOK, NEW u \in Users, NEW state \in CardState, Write(u, Rows(u), state),
         project' = project
  PROVE  Cards'
<1>1. Rows(u) \subseteq Tasks /\ \A t \in Rows(u) : card[t] # "absent"
  BY DEF Rows, BoardTypeOK
<1>2. card' \in [Tasks -> CardState \cup {"absent"}]
  BY DEF Write, BoardTypeOK
<1>3. ~project => card' = [t \in Tasks |-> "absent"]
  BY <1>1 DEF Write, BoardTypeOK
<1> QED
  BY <1>2, <1>3 DEF Cards

\* A write leaves who has read before it a subset of the users.
LEMMA StaleKept ==
  ASSUME BoardTypeOK, NEW u \in Users, Noticed(u) \/ stale' = stale \ {u} \/ stale' = stale
  PROVE  stale' \subseteq Users
BY DEF Noticed, BoardTypeOK

\* What a command that ends keeps for itself.
LEMMA EndsTyped ==
  ASSUME BoardTypeOK, Carried, NEW u \in Users, Ends(u), head' = head, pushed' = pushed
  PROVE  /\ op' \in [Users -> Ops \cup {"none"}] /\ on' \in [Users -> SUBSET Tasks]
         /\ seen' \in [Users -> CardState] /\ commit' \in [Users -> 0..head']
         /\ Carried'
<1>1. "READY" \in CardState /\ 0 \in 0..head
  BY DEF CardState, BoardTypeOK
<1>2. /\ op' \in [Users -> Ops \cup {"none"}] /\ on' \in [Users -> SUBSET Tasks]
      /\ seen' \in [Users -> CardState] /\ commit' \in [Users -> 0..head']
  BY <1>1 DEF Ends, BoardTypeOK
<1>3. Carried'
  BY DEF Ends, BoardTypeOK, Carried
<1> QED
  BY <1>2, <1>3

\* What a command that begins keeps for itself.
LEMMA BeginTyped ==
  ASSUME BoardInv, NEW u \in Users, NEW what \in Ops \ {"record"}, NEW cards \in SUBSET Tasks,
         Begin(u, what, cards), UNCHANGED <<project, dirty, head, pushed>>,
         worktree' \in BOOLEAN, seen' \in [Users -> CardState]
  PROVE  BoardInv'
<1> USE BoardAssumption DEF BoardInv, Begin, Idle, Started
<1>1. /\ op' \in [Users -> Ops \cup {"none"}] /\ on' \in [Users -> SUBSET Tasks]
      /\ commands' \in 0..MaxCommands
      /\ UNCHANGED <<card, smoked, saved, commit, stale>>
  BY DEF BoardTypeOK
<1>2. BoardTypeOK'
  BY <1>1 DEF BoardTypeOK
<1>3. CheckpointsPushed' /\ Carried'
  BY DEF CheckpointsPushed, Carried, BoardTypeOK
<1> QED
  BY <1>2, <1>3

\* A command that ends, having changed nothing but some rows: not the
\* checkpoints, unless to a commit that is on origin.
LEMMA EndingKeeps ==
  ASSUME BoardInv, NEW u \in Users, Ends(u), Cards',
         UNCHANGED <<dirty, head, pushed, commands>>,
         project' \in BOOLEAN, worktree' \in BOOLEAN, stale' \subseteq Users,
         smoked' \in [Tasks -> Evidence \cup {"none", "FATAL"}],
         saved' \in [Tasks -> 0..head],
         \A t \in Tasks : saved'[t] <= pushed
  PROVE  BoardInv'
<1>1. BoardTypeOK'
  BY EndsTyped DEF BoardInv, BoardTypeOK, Cards
<1>2. CheckpointsPushed'
  BY DEF CheckpointsPushed
<1>3. Carried'
  BY EndsTyped DEF BoardInv
<1> QED
  BY <1>1, <1>2, <1>3 DEF BoardInv

\* The commands that end: by the rows they write ...
LEMMA WritersKeep ==
  ASSUME BoardInv, NEW u \in Users,
         \/ StartWorking(u) \/ Record(u) \/ PushFailed(u) \/ Done(u) \/ InitFails(u)
         \/ \E result \in {"PASS", "FATAL"} : SmokeEnds(u, result)
  PROVE  BoardInv'
<1>1. /\ BoardTypeOK /\ Carried /\ project \in BOOLEAN /\ worktree \in BOOLEAN
      /\ smoked \in [Tasks -> Evidence \cup {"none", "FATAL"}]
      /\ saved \in [Tasks -> 0..head] /\ \A t \in Tasks : saved[t] <= pushed
      /\ head \in Nat /\ pushed \in 0..head
      /\ {"WORKING", "CHECKPOINTED", "BLOCKED", "DONE", "NEEDS_REPAIR"} \subseteq CardState
      /\ seen[u] \in CardState /\ commit[u] \in 0..head
  BY DEF BoardInv, BoardTypeOK, CheckpointsPushed, CardState
<1>2. ASSUME NEW state, Write(u, Rows(u), state) PROVE stale' \subseteq Users
  BY <1>1, <1>2, StaleKept DEF Write
<1>3. ASSUME StartWorking(u) PROVE BoardInv'
  <2>1. Cards' /\ stale' \subseteq Users
    BY <1>1, <1>2, <1>3, RowsKeep DEF StartWorking
  <2> QED
    BY <1>1, <1>3, <2>1, EndingKeeps DEF StartWorking, Git
<1>4. ASSUME PushFailed(u) PROVE BoardInv'
  <2>1. Cards' /\ stale' \subseteq Users
    BY <1>1, <1>2, <1>4, RowsKeep DEF PushFailed
  <2> QED
    BY <1>1, <1>4, <2>1, EndingKeeps DEF PushFailed, Git
<1>5. ASSUME Done(u) PROVE BoardInv'
  <2>1. Cards' /\ stale' \subseteq Users
    BY <1>1, <1>2, <1>5, RowsKeep DEF Done
  <2> QED
    BY <1>1, <1>5, <2>1, EndingKeeps DEF Done, Git
<1>6. ASSUME Record(u) PROVE BoardInv'
  <2>1. Cards' /\ stale' \subseteq Users
    BY <1>1, <1>2, <1>6, RowsKeep DEF Record
  <2>2. commit[u] <= pushed
    BY <1>1, <1>6 DEF Record, Carried
  <2>3. saved' = [t \in Tasks |-> IF t \in Rows(u) THEN commit[u] ELSE saved[t]]
    BY <1>6 DEF Record
  <2>4. saved' \in [Tasks -> 0..head] /\ \A t \in Tasks : saved'[t] <= pushed
    BY <1>1, <2>2, <2>3
  <2> QED
    BY <1>1, <1>6, <2>1, <2>4, EndingKeeps DEF Record, Git
<1>7. ASSUME NEW result \in {"PASS", "FATAL"}, SmokeEnds(u, result) PROVE BoardInv'
  <2>1. (IF result = "FATAL" THEN "NEEDS_REPAIR" ELSE seen[u]) \in CardState
    BY <1>1
  <2>2. Cards' /\ stale' \subseteq Users
    BY <1>1, <1>2, <1>7, <2>1, RowsKeep DEF SmokeEnds
  <2>3. smoked' \in [Tasks -> Evidence \cup {"none", "FATAL"}]
    BY <1>1, <1>7 DEF SmokeEnds, Evidence
  <2> QED
    BY <1>1, <1>7, <2>2, <2>3, EndingKeeps DEF SmokeEnds, Git
<1>8. ASSUME InitFails(u) PROVE BoardInv'
  <2>1. card' = [t \in Tasks |-> "absent"] /\ Noticed(u)
    BY <1>1, <1>8 DEF InitFails, Write, BoardTypeOK
  <2>2. Cards' /\ stale' \subseteq Users
    BY <1>1, <2>1, StaleKept DEF Cards
  <2>3. /\ smoked' \in [Tasks -> Evidence \cup {"none", "FATAL"}]
        /\ saved' \in [Tasks -> 0..head] /\ \A t \in Tasks : saved'[t] <= pushed
    BY <1>1, <1>8 DEF InitFails
  <2> QED
    BY <1>1, <1>8, <2>2, <2>3, EndingKeeps DEF InitFails, Git
<1> QED
  BY <1>3, <1>4, <1>5, <1>6, <1>7, <1>8

\* ... and those that write none.
LEMMA OthersEnd ==
  ASSUME BoardInv, NEW u \in Users, InitWorktree(u) \/ NothingToCommit(u) \/ Killed(u)
  PROVE  BoardInv'
<1>1. /\ BoardTypeOK /\ Cards /\ stale \subseteq Users
      /\ smoked \in [Tasks -> Evidence \cup {"none", "FATAL"}]
      /\ saved \in [Tasks -> 0..head] /\ \A t \in Tasks : saved[t] <= pushed
  BY DEF BoardInv, BoardTypeOK, CheckpointsPushed, Cards
<1>2. /\ Ends(u) /\ UNCHANGED <<project, card, smoked, saved, dirty, head, pushed, commands>>
      /\ stale' = stale \ {u} /\ worktree' \in BOOLEAN
  BY <1>1 DEF InitWorktree, NothingToCommit, Killed, Git, BoardTypeOK
<1>3. Cards'
  BY <1>1, <1>2 DEF Cards
<1> QED
  BY <1>1, <1>2, <1>3, EndingKeeps DEF BoardTypeOK

\* The commands that begin.
LEMMA BeginnersKeep ==
  ASSUME BoardInv, NEW u \in Users,
         \/ \E phantoms \in SUBSET Tasks : Diagnose(u, phantoms)
         \/ \E t \in Tasks : Start(u, t) \/ Checkpoint(u, t) \/ Smoke(u, t) \/ Finish(u, t)
  PROVE  BoardInv'
<1>1. /\ {"start", "commit", "smoke", "done", "diagnose"} \subseteq Ops \ {"record"}
      /\ worktree \in BOOLEAN /\ seen \in [Users -> CardState]
      /\ card \in [Tasks -> CardState \cup {"absent"}] /\ "CHECKPOINTED" \in CardState
  BY DEF Ops, BoardInv, BoardTypeOK, CardState
<1>2. ASSUME NEW phantoms \in SUBSET Tasks, Diagnose(u, phantoms) PROVE BoardInv'
  BY <1>1, <1>2, BeginTyped DEF Diagnose, Git
<1>3. ASSUME NEW t \in Tasks, Start(u, t) PROVE BoardInv'
  BY <1>1, <1>3, BeginTyped DEF Start, Git
<1>4. ASSUME NEW t \in Tasks, Checkpoint(u, t) PROVE BoardInv'
  BY <1>1, <1>4, BeginTyped DEF Checkpoint, Git
<1>5. ASSUME NEW t \in Tasks, Smoke(u, t) PROVE BoardInv'
  BY <1>1, <1>5, BeginTyped DEF Smoke, Git
<1>6. ASSUME NEW t \in Tasks, Finish(u, t) PROVE BoardInv'
  BY <1>1, <1>6, BeginTyped DEF Finish, Git
<1> QED
  BY <1>2, <1>3, <1>4, <1>5, <1>6

\* The steps of a checkpoint that change the branch or origin.
LEMMA GitKeeps == ASSUME BoardInv, NEW u \in Users, Commit(u) \/ Push(u) PROVE BoardInv'
<1>1. BoardTypeOK /\ CheckpointsPushed /\ Carried
  BY DEF BoardInv
<1>2. ASSUME Commit(u) PROVE BoardInv'
  <2>1. /\ head' = head + 1 /\ pushed' = pushed /\ head \in Nat /\ pushed \in 0..head
        /\ commit' = [commit EXCEPT ![u] = head + 1] /\ op' = [op EXCEPT ![u] = "push"]
    BY <1>1, <1>2 DEF Commit, BoardTypeOK
  <2>2. saved' \in [Tasks -> 0..head'] /\ commit' \in [Users -> 0..head'] /\ pushed' \in 0..head'
    BY <1>1, <1>2, <2>1 DEF Commit, BoardTypeOK
  <2>3. BoardTypeOK'
    <3>1. /\ UNCHANGED <<project, worktree, card, smoked, saved, on, seen, stale, commands>>
          /\ dirty' = FALSE
      BY <1>2 DEF Commit
    <3>2. dirty' \in BOOLEAN
      BY <3>1, Zenon
    <3>3. op' \in [Users -> Ops \cup {"none"}]
      BY <1>1, <2>1 DEF BoardTypeOK, Ops
    <3> QED
      BY <1>1, <2>1, <2>2, <3>1, <3>2, <3>3 DEF BoardTypeOK
  <2>4. CheckpointsPushed' /\ Carried'
    BY <1>1, <1>2, <2>1 DEF Commit, BoardTypeOK, CheckpointsPushed, Carried
  <2> QED
    BY <2>3, <2>4 DEF BoardInv
<1>3. ASSUME Push(u) PROVE BoardInv'
  <2>1. /\ pushed' \in 0..head /\ pushed <= pushed' /\ head' = head
        /\ UNCHANGED <<project, worktree, card, smoked, saved, dirty, on, seen, commit, stale, commands>>
        /\ \/ op' = [op EXCEPT ![u] = "record"] /\ pushed' = head
           \/ op' = [op EXCEPT ![u] = "refused"]
    BY <1>1, <1>3 DEF Push, BoardTypeOK
  <2>2. BoardTypeOK'
    BY <1>1, <2>1 DEF BoardTypeOK, Ops
  <2>3. CheckpointsPushed'
    BY <1>1, <2>1 DEF BoardTypeOK, CheckpointsPushed
  <2>4. Carried'
    BY <1>1, <2>1 DEF BoardTypeOK, Carried
  <2> QED
    BY <2>2, <2>3, <2>4 DEF BoardInv
<1> QED
  BY <1>2, <1>3

\* The commands of one transaction, and the release of one phantom card.
LEMMA AtOnceKeeps ==
  ASSUME BoardInv, NEW u \in Users,
         \/ InitProject(u)
         \/ \E t \in Tasks : AddTask(u, t) \/ Warning(u, t) \/ Block(u, t) \/ Release(u, t)
  PROVE  BoardInv'
<1>1. BoardTypeOK /\ CheckpointsPushed /\ Carried /\ Cards
  BY DEF BoardInv, BoardTypeOK, Cards
<1>2. ASSUME InitProject(u) PROVE BoardInv'
  <2>1. stale' \subseteq Users /\ commands' \in 0..MaxCommands
    BY <1>1, <1>2, StaleKept, BoardAssumption DEF InitProject, Idle, Started, BoardTypeOK
  <2>2. op' = [op EXCEPT ![u] = "init"]
        /\ UNCHANGED <<worktree, card, smoked, saved, dirty, head, pushed, on, seen, commit>>
        /\ project' = TRUE
    BY <1>2 DEF InitProject, Git
  <2>3. BoardTypeOK'
    BY <1>1, <2>1, <2>2 DEF BoardTypeOK, Ops
  <2>4. CheckpointsPushed' /\ Carried'
    BY <1>1, <2>2 DEF CheckpointsPushed, Carried, BoardTypeOK
  <2> QED
    BY <2>3, <2>4 DEF BoardInv
<1>3. ASSUME NEW t \in Tasks, AddTask(u, t) \/ Warning(u, t) \/ Block(u, t) PROVE BoardInv'
  <2>1. /\ stale' \subseteq Users /\ commands' \in 0..MaxCommands /\ worktree' \in BOOLEAN
        /\ UNCHANGED <<project, saved, dirty, head, pushed, op, on, seen, commit>>
    <3>1. AtOnce(u) /\ Noticed(u) /\ UNCHANGED <<project, saved, dirty, head, pushed>>
          /\ (worktree' = worktree \/ worktree' = TRUE)
      BY <1>3 DEF AddTask, Warning, Block, Write, Git
    <3>2. stale' \subseteq Users
      BY <1>1, <3>1, StaleKept
    <3>3. commands' \in 0..MaxCommands
      BY <1>1, <3>1, BoardAssumption DEF AtOnce, Idle, Started, BoardTypeOK
    <3> QED
      BY <1>1, <3>1, <3>2, <3>3 DEF AtOnce, BoardTypeOK
  <2>2. smoked' \in [Tasks -> Evidence \cup {"none", "FATAL"}]
    BY <1>1, <1>3 DEF AddTask, Warning, Block, BoardTypeOK, Evidence
  <2>3. project \/ Warning(u, t) \/ card[t] # "absent"
    BY <1>3 DEF AddTask, Block
  <2>4. card' \in [Tasks -> CardState \cup {"absent"}]
    BY <1>1, <1>3 DEF AddTask, Warning, Block, Write, BoardTypeOK, CardState
  <2>5. project' \/ card' = [s \in Tasks |-> "absent"]
    BY <1>1, <1>3, <2>1, <2>3 DEF Warning, BoardTypeOK
  <2>6. BoardTypeOK'
    BY <1>1, <2>1, <2>2, <2>4, <2>5 DEF BoardTypeOK
  <2>7. CheckpointsPushed' /\ Carried'
    BY <1>1, <2>1 DEF CheckpointsPushed, Carried
  <2> QED
    BY <2>6, <2>7 DEF BoardInv
<1>4. ASSUME NEW t \in Tasks, Release(u, t) PROVE BoardInv'
  <2>1. /\ t \in Rows(u) /\ Write(u, {t}, "NEEDS_REPAIR") /\ op[u] = "diagnose"
        /\ UNCHANGED <<project, smoked, saved, dirty, head, pushed, commands>> /\ worktree' = TRUE
    BY <1>4 DEF Release, Git
  <2>2. stale' \subseteq Users
    BY <1>1, <2>1, StaleKept DEF Write
  <2>3. Cards'
    BY <1>1, <2>1 DEF Cards, Write, Rows, BoardTypeOK, CardState
  <2>4. CASE Ends(u)
    BY <1>1, <2>1, <2>2, <2>3, <2>4, EndingKeeps DEF BoardTypeOK, CheckpointsPushed
  <2>5. CASE on' = [on EXCEPT ![u] = @ \ {t}] /\ UNCHANGED <<op, seen, commit>>
    <3>1. on' \in [Users -> SUBSET Tasks]
      BY <1>1, <2>5 DEF BoardTypeOK
    <3>2. BoardTypeOK'
      BY <1>1, <2>1, <2>2, <2>3, <2>5, <3>1 DEF BoardTypeOK, Cards
    <3>3. CheckpointsPushed' /\ Carried'
      BY <1>1, <2>1, <2>5 DEF CheckpointsPushed, Carried
    <3> QED
      BY <3>2, <3>3 DEF BoardInv
  <2> QED
    BY <1>4, <2>4, <2>5 DEF Release
<1> QED
  BY <1>2, <1>3, <1>4

\* Every step keeps the invariant.
LEMMA BoardStep == BoardInv /\ [BoardNext]_boardVars => BoardInv'
<1> SUFFICES ASSUME BoardInv, [BoardNext]_boardVars PROVE BoardInv'
  OBVIOUS
<1>1. ASSUME NEW u \in Users, Command(u) PROVE BoardInv'
  BY <1>1, WritersKeep, OthersEnd, BeginnersKeep, GitKeeps, AtOnceKeeps DEF Command
<1>2. ASSUME NEW t \in Tasks, Edit(t) PROVE BoardInv'
  BY <1>2 DEF Edit, BoardInv, BoardTypeOK, CheckpointsPushed, Carried
<1>3. CASE UNCHANGED boardVars
  BY <1>3 DEF boardVars, BoardInv, BoardTypeOK, CheckpointsPushed, Carried
<1> QED
  BY <1>1, <1>2, <1>3 DEF BoardNext

\* For any cards and users the board's rows are well typed; in particular no card
\* is left without its project.
THEOREM BoardTypeCorrect == BoardSpec => []BoardTypeOK
<1>1. BoardInv => BoardTypeOK
  BY DEF BoardInv
<1> QED
  BY <1>1, BoardBegins, BoardStep, PTL DEF BoardSpec

\* Whatever commands interleave, fail or are killed, a checkpoint the board has
\* is on origin.
THEOREM CheckpointsAreOnOrigin == BoardSpec => []CheckpointsPushed
<1>1. BoardInv => CheckpointsPushed
  BY DEF BoardInv
<1> QED
  BY <1>1, BoardBegins, BoardStep, PTL DEF BoardSpec

-----------------------------------------------------------------------------
(* What a command found on the board still holds when it writes, unless the *)
(* board changed in between (stale); on that rest the action properties.    *)

\* A command that nobody overtook ...
Current(u) ==
  u \notin stale =>
    /\ op[u] = "init" => \A t \in Tasks : card[t] = "absent"
    /\ op[u] = "done" => \A t \in on[u] : smoked[t] \in Evidence
\* ... and any command that may make a card WORKING, which is about one card.
Single(u) == op[u] \in {"start", "smoke"} => \E t \in Tasks : on[u] = {t}
Looked == \A u \in Users : Current(u) /\ Single(u)

\* What a step leaves of the commands of the others.
Apart(v) ==
  /\ \A u \in Users \ {v} : op'[u] = op[u] /\ on'[u] = on[u] /\ seen'[u] = seen[u]
  /\ \/ Noticed(v)
     \/ UNCHANGED <<card, smoked>> /\ (stale' = stale \/ stale' = stale \ {v})

\* A change of the cards makes an init or a done of the others stale, and only a
\* change could take from them what they found.
LEMMA ApartKeeps ==
  ASSUME BoardTypeOK, NEW v \in Users, Apart(v), NEW u \in Users \ {v},
         Current(u), Single(u)
  PROVE  Current(u)' /\ Single(u)'
<1>1. op'[u] = op[u] /\ on'[u] = on[u] /\ seen'[u] = seen[u]
  BY DEF Apart
<1>2. Single(u)'
  BY <1>1 DEF Single
<1>3. CASE Noticed(v)
  <2>1. u \in stale' \/ op[u] \notin {"init", "done"}
    BY <1>3 DEF Noticed
  <2> QED BY <1>1, <1>2, <2>1 DEF Current
<1>4. CASE UNCHANGED <<card, smoked>> /\ (stale' = stale \/ stale' = stale \ {v})
  <2>1. u \notin stale' => u \notin stale
    BY <1>4
  <2> QED BY <1>1, <1>2, <1>4, <2>1 DEF Current
<1> QED BY <1>3, <1>4 DEF Apart

\* The steps of a command, as those of one user among the others.
LEMMA StepsApart ==
  ASSUME BoardTypeOK, NEW v \in Users, Command(v)
  PROVE  Apart(v)
<1> USE DEF BoardTypeOK, Apart, Ends, Begin, AtOnce, Write
<1>1. ASSUME \/ InitProject(v) \/ InitWorktree(v) \/ InitFails(v) \/ StartWorking(v)
             \/ NothingToCommit(v)
      PROVE  Apart(v)
  BY <1>1 DEF InitProject, InitWorktree, InitFails, StartWorking, NothingToCommit
<1>2. ASSUME Commit(v) \/ Push(v) \/ Record(v) \/ PushFailed(v) \/ Done(v) \/ Killed(v)
      PROVE  Apart(v)
  BY <1>2 DEF Commit, Push, Record, PushFailed, Done, Killed
<1>3. ASSUME NEW result \in {"PASS", "FATAL"}, SmokeEnds(v, result) PROVE Apart(v)
  BY <1>3 DEF SmokeEnds
<1>4. ASSUME NEW phantoms \in SUBSET Tasks, Diagnose(v, phantoms) PROVE Apart(v)
  BY <1>4 DEF Diagnose
<1>5. ASSUME NEW t \in Tasks, Start(v, t) \/ Checkpoint(v, t) \/ Smoke(v, t) \/ Finish(v, t)
      PROVE  Apart(v)
  BY <1>5 DEF Start, Checkpoint, Smoke, Finish
<1>6. ASSUME NEW t \in Tasks, AddTask(v, t) \/ Warning(v, t) \/ Block(v, t) PROVE Apart(v)
  BY <1>6 DEF AddTask, Warning, Block
<1>7. ASSUME NEW t \in Tasks, Release(v, t) PROVE Apart(v)
  <2>1. Noticed(v)
    BY <1>7 DEF Release
  <2>2. \A u \in Users \ {v} : op'[u] = op[u] /\ on'[u] = on[u] /\ seen'[u] = seen[u]
    BY <1>7 DEF Release
  <2> QED BY <2>1, <2>2
<1> QED BY <1>1, <1>2, <1>3, <1>4, <1>5, <1>6, <1>7 DEF Command

\* A command begins with what it found.
LEMMA OwnCurrent ==
  ASSUME BoardTypeOK, NEW v \in Users, Command(v)
  PROVE  Current(v)' /\ Single(v)'
<1> USE DEF BoardTypeOK
<1>1. ASSUME op'[v] \notin {"init", "start", "smoke", "done"} PROVE Current(v)' /\ Single(v)'
  BY <1>1 DEF Current, Single
<1>2. ASSUME InitProject(v) PROVE Current(v)' /\ Single(v)'
  <2>1. op'[v] = "init" /\ card' = card /\ ~project
    BY <1>2 DEF InitProject
  <2>2. card = [t \in Tasks |-> "absent"]
    BY <2>1
  <2> QED BY <2>1, <2>2 DEF Current, Single
<1>3. ASSUME NEW t \in Tasks, Start(v, t) \/ Smoke(v, t) PROVE Current(v)' /\ Single(v)'
  <2>1. op'[v] \in {"start", "smoke"} /\ on'[v] = {t}
    BY <1>3 DEF Start, Smoke, Begin
  <2> QED BY <2>1 DEF Current, Single
<1>5. ASSUME NEW t \in Tasks, Finish(v, t) PROVE Current(v)' /\ Single(v)'
  <2>1. op'[v] = "done" /\ on'[v] = {t} /\ smoked' = smoked /\ smoked[t] \in Evidence
    BY <1>5 DEF Finish, Begin
  <2> QED BY <2>1 DEF Current, Single, Evidence
<1>6. ASSUME \/ InitWorktree(v) \/ InitFails(v) \/ StartWorking(v) \/ NothingToCommit(v)
             \/ Record(v) \/ PushFailed(v) \/ Done(v) \/ Killed(v)
             \/ \E result \in {"PASS", "FATAL"} : SmokeEnds(v, result)
      PROVE  op'[v] = "none"
  BY <1>6 DEF InitWorktree, InitFails, StartWorking, NothingToCommit, Record, PushFailed, Done,
     Killed, SmokeEnds, Ends
<1>7. ASSUME \/ Commit(v) \/ Push(v) \/ \E phantoms \in SUBSET Tasks : Diagnose(v, phantoms)
             \/ \E t \in Tasks : Checkpoint(v, t)
      PROVE  op'[v] \in {"push", "record", "refused", "diagnose", "commit"}
  BY <1>7 DEF Commit, Push, Diagnose, Checkpoint, Begin
<1>8. ASSUME NEW t \in Tasks, AddTask(v, t) \/ Warning(v, t) \/ Block(v, t) \/ Release(v, t)
      PROVE  op'[v] \in {"none", "diagnose"}
  BY <1>8 DEF AddTask, Warning, Block, Release, AtOnce, Idle, Ends
<1> QED BY <1>1, <1>2, <1>3, <1>5, <1>6, <1>7, <1>8 DEF Command

LEMMA LookedStep == BoardInv /\ Looked /\ [BoardNext]_boardVars => Looked'
<1> SUFFICES ASSUME BoardTypeOK, Looked, [BoardNext]_boardVars PROVE Looked'
  BY DEF BoardInv
<1>1. CASE UNCHANGED <<card, smoked, op, on, seen, stale>>
  BY <1>1 DEF Looked, Current, Single
<1>2. ASSUME NEW v \in Users, Command(v) PROVE Looked'
  <2>1. \A u \in Users : Current(u)' /\ Single(u)'
    <3> SUFFICES ASSUME NEW u \in Users PROVE Current(u)' /\ Single(u)'
      OBVIOUS
    <3>1. Apart(v) /\ Current(u) /\ Single(u)
      BY <1>2, StepsApart DEF Looked
    <3>2. CASE u = v
      BY <1>2, <3>2, OwnCurrent
    <3>3. CASE u # v
      BY <3>1, <3>3, ApartKeeps
    <3> QED BY <3>2, <3>3
  <2> QED BY <2>1 DEF Looked
<1> QED BY <1>1, <1>2 DEF BoardNext, Edit, boardVars

LEMMA BoardLooked == BoardSpec => [](BoardInv /\ Looked)
<1>1. BoardInit => Looked
  BY DEF BoardInit, Looked, Current, Single
<1> QED BY <1>1, BoardBegins, BoardStep, LookedStep, PTL DEF BoardSpec

-----------------------------------------------------------------------------
(* How many cards can be WORKING: those that are and those that a command   *)
(* in progress may still make so are never more than the users.             *)

\* A command that may make the card it is about WORKING.
Aims(u) == op[u] = "start" \/ (op[u] = "smoke" /\ seen[u] = "WORKING")
Targets == {t \in Tasks : \E u \in Users : Aims(u) /\ on[u] = {t}}
Crowd == Working \cup Targets
CrowdFits == IsFiniteSet(Crowd) /\ Cardinality(Crowd) <= Cardinality(Users)

\* Users that are about one card each are about no more cards than they are.
LEMMA OneCardEach ==
  ASSUME NEW cards, NEW about, \A t \in cards : \E u \in Users : about[u] = {t}
  PROVE  IsFiniteSet(cards) /\ Cardinality(cards) <= Cardinality(Users)
<1> DEFINE by == [t \in cards |-> CHOOSE u \in Users : about[u] = {t}]
<1>1. by \in [cards -> Users] /\ \A t \in cards : about[by[t]] = {t}
  OBVIOUS
<1>2. \A s, t \in cards : by[s] = by[t] => s = t
  <2> SUFFICES ASSUME NEW s \in cards, NEW t \in cards, by[s] = by[t] PROVE s = t
    OBVIOUS
  <2>1. {s} = {t}
    BY <1>1
  <2> QED BY <2>1
<1>3. by \in Injection(cards, Users)
  <2> HIDE DEF by
  <2> QED BY <1>1, <1>2 DEF Injection, IsInjective
<1> QED BY <1>3, FS_Injection, BoardAssumption

\* How cards become WORKING: by a command that aims at them.
LEMMA WorkingGrows ==
  ASSUME BoardTypeOK, NEW v \in Users, Single(v), Command(v)
  PROVE  \/ Working' \subseteq Working
         \/ Aims(v) /\ \E t \in Tasks : on[v] = {t} /\ Working' \subseteq Working \cup {t}
<1> USE DEF BoardTypeOK
<1>1. ASSUME NEW cards \in SUBSET Tasks, NEW state, Write(v, cards, state), state # "WORKING"
      PROVE  Working' \subseteq Working
  BY <1>1 DEF Write, Working
<1>2. Rows(v) \in SUBSET Tasks
  BY DEF Rows
<1>3. CASE StartWorking(v)
  <2>1. op[v] = "start" /\ Write(v, Rows(v), "WORKING")
    BY <1>3 DEF StartWorking
  <2>2. PICK t \in Tasks : on[v] = {t}
    BY <2>1 DEF Single
  <2>3. Working' \subseteq Working \cup {t}
    BY <2>1, <2>2 DEF Write, Rows, Working
  <2> QED BY <2>1, <2>2, <2>3 DEF Aims
<1>4. CASE \E result \in {"PASS", "FATAL"} : SmokeEnds(v, result)
  <2>1. PICK state : Write(v, Rows(v), state) /\ state \in {"NEEDS_REPAIR", seen[v]}
    BY <1>4 DEF SmokeEnds
  <2>2. op[v] = "smoke"
    BY <1>4 DEF SmokeEnds
  <2>3. PICK t \in Tasks : on[v] = {t}
    BY <2>2 DEF Single
  <2>4. Working' \subseteq Working \cup {t}
    BY <2>1, <2>3 DEF Write, Rows, Working
  <2>5. CASE state = "WORKING"
    BY <2>1, <2>2, <2>3, <2>4, <2>5 DEF Aims
  <2>6. CASE state # "WORKING"
    BY <1>1, <1>2, <2>1, <2>6
  <2> QED BY <2>5, <2>6
<1>5. CASE \/ InitFails(v) \/ Record(v) \/ PushFailed(v) \/ Done(v)
           \/ \E t \in Tasks : AddTask(v, t) \/ Block(v, t) \/ Release(v, t)
  <2>1. \/ Write(v, Tasks, "absent")
        \/ Write(v, Rows(v), "CHECKPOINTED") \/ Write(v, Rows(v), "BLOCKED")
        \/ Write(v, Rows(v), "DONE")
        \/ \E t \in Tasks : \/ Write(v, {t}, "READY") \/ Write(v, {t}, "BLOCKED")
                            \/ Write(v, {t}, "NEEDS_REPAIR")
    BY <1>5 DEF InitFails, Record, PushFailed, Done, AddTask, Block, Release
  <2>2. Tasks \in SUBSET Tasks /\ \A t \in Tasks : {t} \in SUBSET Tasks
    OBVIOUS
  <2> QED BY <1>1, <1>2, <2>1, <2>2
<1>6. CASE UNCHANGED card
  BY <1>6 DEF Working
<1>7. \/ InitProject(v) \/ InitWorktree(v) \/ NothingToCommit(v) \/ Commit(v) \/ Push(v)
      \/ Killed(v) \/ (\E phantoms \in SUBSET Tasks : Diagnose(v, phantoms))
      \/ (\E t \in Tasks : Start(v, t) \/ Checkpoint(v, t) \/ Smoke(v, t) \/ Warning(v, t)
                           \/ Finish(v, t))
      => UNCHANGED card
  BY DEF InitProject, InitWorktree, NothingToCommit, Commit, Push, Killed, Diagnose, Start,
     Checkpoint, Smoke, Warning, Finish, Begin
<1> QED BY <1>3, <1>4, <1>5, <1>6, <1>7 DEF Command

\* What a command aims at it saw WORKING, unless it is a start that saw none.
LEMMA AimsSeen ==
  ASSUME BoardTypeOK, NEW v \in Users, Command(v), Aims(v)', NEW t \in Tasks, on'[v] = {t}
  PROVE  t \in Working \/ Working' = {}
<1> USE DEF BoardTypeOK, Aims
<1>1. ASSUME NEW s \in Tasks, Start(v, s) PROVE t \in Working \/ Working' = {}
  <2>1. on'[v] = {s} /\ card' = card /\ (Working = {} \/ s \in Working)
    BY <1>1 DEF Start, Begin
  <2> QED BY <2>1 DEF Working
<1>2. ASSUME NEW s \in Tasks, Smoke(v, s) PROVE t \in Working
  <2>1. /\ op'[v] = "smoke" /\ on'[v] = {s}
        /\ seen'[v] = IF saved[s] # 0 THEN "CHECKPOINTED" ELSE card[s]
    BY <1>2 DEF Smoke, Begin
  <2>2. s = t /\ seen'[v] = "WORKING"
    BY <2>1
  <2> QED BY <2>1, <2>2 DEF Working
<1>3. ASSUME \/ InitProject(v) \/ Commit(v) \/ Push(v)
             \/ (\E phantoms \in SUBSET Tasks : Diagnose(v, phantoms))
             \/ (\E s \in Tasks : Checkpoint(v, s) \/ Finish(v, s))
      PROVE  op'[v] \in {"init", "push", "record", "refused", "diagnose", "commit", "done"}
  BY <1>3 DEF InitProject, Commit, Push, Diagnose, Checkpoint, Finish, Begin
<1>4. ASSUME \/ InitWorktree(v) \/ InitFails(v) \/ StartWorking(v) \/ NothingToCommit(v)
             \/ Record(v) \/ PushFailed(v) \/ Done(v) \/ Killed(v)
             \/ \E result \in {"PASS", "FATAL"} : SmokeEnds(v, result)
      PROVE  op'[v] = "none"
  BY <1>4 DEF InitWorktree, InitFails, StartWorking, NothingToCommit, Record, PushFailed, Done,
     Killed, SmokeEnds, Ends
<1>5. ASSUME NEW s \in Tasks, AddTask(v, s) \/ Warning(v, s) \/ Block(v, s) \/ Release(v, s)
      PROVE  op'[v] \in {"none", "diagnose"}
  BY <1>5 DEF AddTask, Warning, Block, Release, AtOnce, Idle, Ends
<1> QED BY <1>1, <1>2, <1>3, <1>4, <1>5 DEF Command

LEMMA CrowdStep ==
  ASSUME BoardTypeOK, Looked, CrowdFits, [BoardNext]_boardVars
  PROVE  CrowdFits'
<1>1. ASSUME Crowd' \subseteq Crowd PROVE CrowdFits'
  <2>1. IsFiniteSet(Crowd') /\ Cardinality(Crowd') <= Cardinality(Crowd)
    BY <1>1, FS_Subset DEF CrowdFits
  <2>2. Cardinality(Crowd') \in Nat /\ Cardinality(Crowd) \in Nat /\ Cardinality(Users) \in Nat
    BY <2>1, FS_CardinalityType, BoardAssumption DEF CrowdFits
  <2> QED BY <2>1, <2>2 DEF CrowdFits
<1>2. ASSUME Working' = {} PROVE CrowdFits'
  <2>1. \A t \in Crowd' : \E u \in Users : on'[u] = {t}
    BY <1>2 DEF Crowd, Targets
  <2> QED BY <2>1, OneCardEach DEF CrowdFits
<1>3. ASSUME NEW v \in Users, Command(v), Working' # {} PROVE Crowd' \subseteq Crowd
  <2>1. Working' \subseteq Crowd
    BY <1>3, WorkingGrows DEF Looked, Crowd, Targets
  <2>2. ASSUME NEW t \in Tasks, NEW u \in Users, Aims(u)', on'[u] = {t} PROVE t \in Crowd
    <3>1. CASE u = v
      BY <1>3, <2>2, <3>1, AimsSeen DEF Crowd
    <3>2. CASE u # v
      <4>1. op'[u] = op[u] /\ on'[u] = on[u] /\ seen'[u] = seen[u]
        BY <1>3, <3>2, StepsApart DEF Apart
      <4> QED BY <2>2, <4>1 DEF Aims, Crowd, Targets
    <3> QED BY <3>1, <3>2
  <2> QED BY <2>1, <2>2 DEF Crowd, Targets
<1>4. ASSUME UNCHANGED <<card, op, on, seen>> PROVE Crowd' = Crowd
  BY <1>4 DEF Crowd, Targets, Working, Aims
<1> QED BY <1>1, <1>2, <1>3, <1>4 DEF BoardNext, Edit, boardVars

(* For any cards and any finite number of users, overlapping commands and kills make *)
(* no more cards WORKING than there are users (kanban.py:173-194, 257-264).          *)
THEOREM WritersBounded == BoardSpec => []WorkingBounded
<1>1. BoardInit => CrowdFits
  <2>1. BoardInit => Crowd = {}
    BY DEF BoardInit, Crowd, Targets, Working, Aims
  <2>2. IsFiniteSet({}) /\ Cardinality({}) = 0 /\ Cardinality(Users) \in Nat
    BY FS_EmptySet, FS_CardinalityType, BoardAssumption
  <2> QED BY <2>1, <2>2 DEF CrowdFits
<1>2. CrowdFits => WorkingBounded
  <2> SUFFICES ASSUME CrowdFits PROVE WorkingBounded
    OBVIOUS
  <2>1. IsFiniteSet(Working) /\ Cardinality(Working) <= Cardinality(Crowd)
    BY FS_Subset DEF CrowdFits, Crowd
  <2>2. /\ Cardinality(Working) \in Nat /\ Cardinality(Crowd) \in Nat
        /\ Cardinality(Users) \in Nat
    BY <2>1, FS_CardinalityType, BoardAssumption DEF CrowdFits
  <2> QED BY <2>1, <2>2 DEF CrowdFits, WorkingBounded
<1>3. BoardInv /\ Looked /\ CrowdFits /\ [BoardNext]_boardVars => CrowdFits'
  BY CrowdStep DEF BoardInv
<1> QED BY <1>1, <1>2, <1>3, BoardLooked, PTL DEF BoardSpec

-----------------------------------------------------------------------------
(* A card becomes DONE over missing evidence only by a command that was overtaken *)
(* (kanban.py:257-283).                                                           *)
THEOREM DoneHasEvidence == BoardSpec => DoneIsSmoked
<1> DEFINE Backed == \A t \in Tasks : card'[t] = "DONE" /\ smoked'[t] \notin Evidence
                       => \/ card[t] = "DONE" /\ smoked[t] \notin Evidence
                          \/ \E u \in stale : op[u] = "done" /\ op'[u] = "none"
<1>1. BoardInv /\ Looked /\ [BoardNext]_boardVars => [Backed]_boardVars
  <2> SUFFICES ASSUME BoardTypeOK, Looked, BoardNext PROVE Backed
    BY DEF BoardInv, boardVars
  <2>1. ASSUME NEW v \in Users, Done(v) PROVE Backed
    <3>1. /\ op[v] = "done" /\ op'[v] = "none" /\ smoked' = smoked
          /\ card' = [t \in Tasks |-> IF t \in Rows(v) THEN "DONE" ELSE card[t]]
      BY <2>1 DEF Done, Ends, Write, BoardTypeOK
    <3>2. v \notin stale => \A t \in on[v] : smoked[t] \in Evidence
      BY <3>1 DEF Looked, Current
    <3> QED BY <3>1, <3>2 DEF Rows
  <2>2. ASSUME NEW v \in Users, NEW result \in {"PASS", "FATAL"}, SmokeEnds(v, result)
        PROVE  Backed
    <3>1. /\ smoked' = [t \in Tasks |-> IF t \in Rows(v) THEN result ELSE smoked[t]]
          /\ card' = [t \in Tasks |-> IF t \in Rows(v)
                        THEN (IF result = "FATAL" THEN "NEEDS_REPAIR" ELSE seen[v])
                        ELSE card[t]]
      BY <2>2 DEF SmokeEnds, Write
    <3> QED BY <3>1 DEF Evidence
  <2>3. ASSUME NEW v \in Users, NEW t \in Tasks, Warning(v, t) PROVE Backed
    BY <2>3 DEF Warning, Evidence, BoardTypeOK
  <2>4. ASSUME NEW v \in Users, InitFails(v) PROVE Backed
    BY <2>4 DEF InitFails, Write
  <2>5. ASSUME NEW v \in Users, NEW cards, NEW state, Write(v, cards, state), state # "DONE",
               smoked' = smoked
        PROVE  Backed
    BY <2>5 DEF Write
  <2>6. ASSUME NEW v \in Users,
               \/ StartWorking(v) \/ Record(v) \/ PushFailed(v)
               \/ \E t \in Tasks : AddTask(v, t) \/ Block(v, t) \/ Release(v, t)
        PROVE  Backed
    <3>1. \/ Write(v, Rows(v), "WORKING") \/ Write(v, Rows(v), "CHECKPOINTED")
          \/ Write(v, Rows(v), "BLOCKED")
          \/ \E t \in Tasks : \/ Write(v, {t}, "READY") \/ Write(v, {t}, "BLOCKED")
                              \/ Write(v, {t}, "NEEDS_REPAIR")
      BY <2>6 DEF StartWorking, Record, PushFailed, AddTask, Block, Release
    <3>2. smoked' = smoked
      BY <2>6 DEF StartWorking, Record, PushFailed, AddTask, Block, Release
    <3> QED BY <2>5, <3>1, <3>2
  <2>7. ASSUME UNCHANGED <<card, smoked>> PROVE Backed
    BY <2>7
  <2>8. ASSUME NEW v \in Users,
               \/ InitProject(v) \/ InitWorktree(v) \/ NothingToCommit(v) \/ Commit(v) \/ Push(v)
               \/ Killed(v) \/ (\E phantoms \in SUBSET Tasks : Diagnose(v, phantoms))
               \/ (\E t \in Tasks : Start(v, t) \/ Checkpoint(v, t) \/ Smoke(v, t)
                                    \/ Finish(v, t))
        PROVE  UNCHANGED <<card, smoked>>
    BY <2>8 DEF InitProject, InitWorktree, NothingToCommit, Commit, Push, Killed, Diagnose, Start,
       Checkpoint, Smoke, Finish, Begin
  <2> HIDE DEF Backed
  <2> QED BY <2>1, <2>2, <2>3, <2>4, <2>6, <2>7, <2>8 DEF BoardNext, Command, Edit
<1> QED BY <1>1, BoardLooked, PTL DEF BoardSpec, DoneIsSmoked

(* Cards go only with a project whose worktree could not be made, under a command *)
(* that others had overtaken (kanban.py:97-105).                                  *)
THEOREM CardsStay == BoardSpec => CardsKept
<1> DEFINE Stays == (\E t \in Tasks : card[t] # "absent" /\ card'[t] = "absent")
                      => \E u \in stale : op[u] = "init" /\ op'[u] = "none"
<1>1. BoardInv /\ Looked /\ [BoardNext]_boardVars => [Stays]_boardVars
  <2> SUFFICES ASSUME BoardTypeOK, Looked, BoardNext PROVE Stays
    BY DEF BoardInv, boardVars
  <2>1. ASSUME NEW v \in Users, InitFails(v) PROVE Stays
    <3>1. op[v] = "init" /\ op'[v] = "none"
      BY <2>1 DEF InitFails, Ends, BoardTypeOK
    <3>2. v \notin stale => \A t \in Tasks : card[t] = "absent"
      BY <3>1 DEF Looked, Current
    <3> QED BY <3>1, <3>2
  <2>2. ASSUME NEW v \in Users, NEW cards, NEW state, Write(v, cards, state), state # "absent"
        PROVE  Stays
    BY <2>2 DEF Write
  <2>3. ASSUME NEW v \in Users,
               \/ StartWorking(v) \/ Record(v) \/ PushFailed(v) \/ Done(v)
               \/ (\E result \in {"PASS", "FATAL"} : SmokeEnds(v, result))
               \/ (\E t \in Tasks : AddTask(v, t) \/ Block(v, t) \/ Release(v, t))
        PROVE  Stays
    <3>1. "absent" \notin CardState /\ seen[v] \in CardState
      BY DEF BoardTypeOK, CardState
    <3>2. \/ Write(v, Rows(v), "WORKING") \/ Write(v, Rows(v), "CHECKPOINTED")
          \/ Write(v, Rows(v), "BLOCKED") \/ Write(v, Rows(v), "DONE")
          \/ Write(v, Rows(v), "NEEDS_REPAIR") \/ Write(v, Rows(v), seen[v])
          \/ \E t \in Tasks : \/ Write(v, {t}, "READY") \/ Write(v, {t}, "BLOCKED")
                              \/ Write(v, {t}, "NEEDS_REPAIR")
      BY <2>3 DEF StartWorking, Record, PushFailed, Done, SmokeEnds, AddTask, Block, Release
    <3>3. seen[v] # "absent"
      BY <3>1
    <3> QED BY <2>2, <3>2, <3>3
  <2>4. ASSUME UNCHANGED card PROVE Stays
    BY <2>4
  <2>5. ASSUME NEW v \in Users,
               \/ InitProject(v) \/ InitWorktree(v) \/ NothingToCommit(v) \/ Commit(v) \/ Push(v)
               \/ Killed(v) \/ (\E phantoms \in SUBSET Tasks : Diagnose(v, phantoms))
               \/ (\E t \in Tasks : Start(v, t) \/ Checkpoint(v, t) \/ Smoke(v, t)
                                    \/ Finish(v, t) \/ Warning(v, t))
        PROVE  UNCHANGED card
    BY <2>5 DEF InitProject, InitWorktree, NothingToCommit, Commit, Push, Killed, Diagnose, Start,
       Checkpoint, Smoke, Finish, Warning, Begin
  <2> HIDE DEF Stays
  <2> QED BY <2>1, <2>3, <2>4, <2>5 DEF BoardNext, Command, Edit
<1> QED BY <1>1, BoardLooked, PTL DEF BoardSpec, CardsKept
=============================================================================
