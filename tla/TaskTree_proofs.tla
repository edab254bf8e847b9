--------------------------- MODULE TaskTree_proofs ---------------------------
(***************************************************************************)
(* What holds of the worktree for any number of attempts, executors, lost  *)
(* leases and pushes.  The argument: an attempt that no other executor and *)
(* no push has crossed is the only one at work, so what it saw of the      *)
(* worktree at one step still holds at its next; and without a lost lease  *)
(* the attempt at work is the last one begun, so what the verifier passed  *)
(* in it stays in the worktree until the next one begins.                  *)
(***************************************************************************)
EXTENDS TaskTree, FiniteSetTheorems, TLAPS

\* What the stage of an attempt says of the worktree, if nothing crossed it.
Sound(a) ==
  /\ stage[a] = "start" /\ a = 1 => tree = {}
  /\ stage[a] \in {"look", "adopt", "push", "create"} => maker[a] = "jules"
  /\ stage[a] \in {"look", "adopt", "push"} => published
  /\ stage[a] \in {"adopt", "push"} => tree = ToSet(HEAD)
  /\ stage[a] = "create" => IF published THEN origin = <<HEAD>> /\ tree = ToSet(HEAD)
                                         ELSE tree = {}
  /\ stage[a] = "work" =>
       /\ maker[a] = "remote" => tree = base[a]
       /\ maker[a] = "jules" => IF published THEN tree = base[a] ELSE tree \subseteq base[a]

Shape ==
  /\ stage \in [Numbers -> Stages] /\ maker \in [Numbers -> Makers]
  /\ DOMAIN base = Numbers /\ DOMAIN returned = Numbers /\ DOMAIN verified = Numbers
First == 1 \in Numbers /\ stage[1] = "new" =>
           tree = {} /\ \A b \in Numbers : stage[b] = "new"
Alone == \A a \in Live \ crossed : Live = {a} /\ Sound(a)
Numbered ==
  /\ \A b \in Begun : 1..b \subseteq Begun
  /\ asked \subseteq Begun
  /\ \A a \in ready : a \in Numbers /\ stage[a] \in {"passed", "over"}
\* An attempt after which none began; accept has seen all there are.
IsLast(a) == Begun \subseteq 1..a
UpToDate == acceptor # "none" /\ asked = Begun
\* Without a lost lease one attempt is at work, the last one; what it passed is
\* in the worktree; a job offered for review has nobody at work; and accept, as
\* long as no attempt has begun since its check, commits what was passed.
Owned ==
  ghosts = {} =>
    /\ \A a, b \in Live : a = b
    /\ \A a \in Live : IsLast(a)
    /\ \A a \in ready : IsLast(a) => tree = verified[a]
    /\ task = "READY" \/ UpToDate => Live = {}
    /\ UpToDate /\ acceptor = "committed" =>
         \A a \in ready : IsLast(a) => built = verified[a]
TreeIInv == Shape /\ First /\ Alone /\ Numbered /\ Owned

\* At most one attempt is at work that nothing crossed.
LEMMA Own ==
  ASSUME TreeIInv, NEW a \in Live \ crossed
  PROVE  Sound(a) /\ Live = {a}
BY DEF TreeIInv, Alone

\* While an attempt that has not passed is at work, the last one is not READY.
LEMMA LastAtWork ==
  ASSUME TreeIInv, ghosts = {}, NEW a \in Live \ ready
  PROVE  \A r \in ready : ~IsLast(r)
<1> SUFFICES ASSUME NEW r \in ready, IsLast(r) PROVE FALSE
  OBVIOUS
<1>1. IsLast(a) /\ a \in Begun /\ r \in Begun /\ a \in Nat /\ r \in Nat
  BY DEF TreeIInv, Owned, Numbered, Live, Begun, Numbers
<1>2. a <= r /\ r <= a
  BY <1>1 DEF IsLast
<1> QED BY <1>1, <1>2

-----------------------------------------------------------------------------
(* What the steps of an attempt between its begin and its verification share. *)

Frame(a) ==
  /\ a \in Live /\ stage[a] # "passed" /\ stage' \in [Numbers -> Stages]
  /\ stage'[a] \notin {"new", "over"}
  /\ \A b \in Numbers \ {a} : stage'[b] = stage[b]
  /\ Shape'
  /\ task' \in {task, "running"} /\ UNCHANGED <<ready, verified, acceptor, asked, built>>
  /\ ghosts' = ghosts /\ crossed' = crossed /\ published' = published /\ maker' = maker

\* Such a step leaves Sound and the rest of the invariant to its own attempt.
LEMMA FrameKeeps ==
  ASSUME TreeIInv, NEW a \in Numbers, Frame(a),
         a \in Live' \ crossed => Sound(a)'
  PROVE  TreeIInv'
<1>1. Live' = Live
  BY DEF Live, Frame
<1>2. Begun' = Begun
  BY DEF Live, Begun, Frame
<1>3. a \notin ready
  BY DEF TreeIInv, Numbered, Frame, Live
<1>4. First'
  BY DEF First, TreeIInv, Frame, Live
<1>5. Alone'
  <2> SUFFICES ASSUME NEW c \in Live' \ crossed'
               PROVE  Live' = {c} /\ Sound(c)'
    BY DEF Alone
  <2>1. c \in Live \ crossed /\ Live = {c}
    BY <1>1 DEF TreeIInv, Alone, Frame
  <2>2. c = a
    BY <2>1 DEF Frame
  <2> QED BY <1>1, <2>1, <2>2 DEF Frame
<1>6. Numbered'
  BY <1>2, <1>3 DEF TreeIInv, Numbered, Frame
<1>7. Owned'
  <2> SUFFICES ASSUME ghosts = {} PROVE Owned'
    BY DEF Owned, Frame
  <2>1. \A r \in ready : ~IsLast(r)
    BY <1>3, LastAtWork DEF Frame
  <2>2. \A r : IsLast(r)' <=> IsLast(r)
    BY <1>2 DEF IsLast
  <2>3. UpToDate' <=> UpToDate
    BY <1>2 DEF UpToDate, Frame
  <2> QED BY <1>1, <2>1, <2>2, <2>3 DEF Owned, TreeIInv, Frame
<1> QED BY <1>4, <1>5, <1>6, <1>7 DEF TreeIInv, Frame

LEMMA LocalFrames ==
  ASSUME TreeIInv, NEW a \in Numbers,
         StartLocal(a) \/ WriteEdit(a) \/ CommitEdits(a) \/ EndLocal(a) \/ Normalize(a)
  PROVE  Frame(a) /\ (a \in Live' \ crossed => Sound(a)')
<1> USE DEF Frame, Shape, Live, rest, jobVars, humanVars, Enters, Returns, Stages, Sound
<1>1. CASE StartLocal(a)
  BY <1>1 DEF TreeIInv, StartLocal
<1>2. CASE WriteEdit(a)
  BY <1>2 DEF TreeIInv, WriteEdit
<1>3. CASE CommitEdits(a)
  BY <1>3 DEF TreeIInv, CommitEdits
<1>4. CASE EndLocal(a)
  BY <1>4 DEF TreeIInv, EndLocal
<1>5. CASE Normalize(a)
  BY <1>5 DEF TreeIInv, Normalize, copyVars
<1> QED BY <1>1, <1>2, <1>3, <1>4, <1>5

LEMMA RemoteFrames ==
  ASSUME TreeIInv, NEW a \in Numbers,
         Upload(a) \/ ApplyWork(a) \/ RefuseWork(a) \/ BringNothing(a)
  PROVE  Frame(a) /\ (a \in Live' \ crossed => Sound(a)')
<1> USE DEF Frame, Shape, Live, rest, jobVars, humanVars, Enters, Returns, Stages, Sound
<1>1. CASE Upload(a)
  BY <1>1 DEF TreeIInv, Upload
<1>2. CASE ApplyWork(a)
  BY <1>2 DEF TreeIInv, ApplyWork, Away
<1>3. CASE RefuseWork(a)
  BY <1>3 DEF TreeIInv, RefuseWork, Away
<1>4. CASE BringNothing(a)
  BY <1>4 DEF TreeIInv, BringNothing, Away
<1> QED BY <1>1, <1>2, <1>3, <1>4

LEMMA JulesFrames ==
  ASSUME TreeIInv, NEW a \in Numbers,
         \/ JulesChecks(a) \/ Look(a) \/ Uncommitted(a) \/ Adopt(a) \/ Ahead(a)
         \/ Publish(a) \/ CreateSession(a) \/ RefuseSession(a)
  PROVE  Frame(a) /\ (a \in Live' \ crossed => Sound(a)')
<1>0. a \in Live => a \in Numbers
  BY DEF Live
<1>a. a \in Live /\ a \notin crossed => Sound(a)
  BY Own
<1> USE DEF Frame, Shape, Live, rest, jobVars, humanVars, Enters, Returns, Stages
<1>1. CASE JulesChecks(a)
  <2>1. Frame(a)
    BY <1>1 DEF TreeIInv, JulesChecks
  <2>2. ASSUME a \in Live' \ crossed PROVE Sound(a)'
    <3>1. Sound(a) /\ stage[a] = "start"
      BY <1>1, <2>2, <1>a, <2>1 DEF JulesChecks
    <3>2. CASE stage'[a] = "settle"
      BY <3>2 DEF Sound
    <3>3. CASE stage'[a] # "settle"
      <4>0. a = 1 \/ a > 1
        BY DEF Numbers
      <4>1. tree = {} /\ tree' = tree /\ published' = published
        <5>1. CASE a = 1
          BY <1>1, <3>1, <5>1 DEF JulesChecks, Sound
        <5>2. CASE a > 1
          BY <1>1, <3>3, <5>2 DEF JulesChecks, TreeIInv
        <5> QED BY <4>0, <5>1, <5>2
      <4>2. stage'[a] = (IF published THEN "look" ELSE "create") /\ maker'[a] = "jules"
        BY <1>1, <3>3 DEF JulesChecks, TreeIInv
      <4> QED BY <4>1, <4>2 DEF Sound
    <3> QED BY <3>2, <3>3
  <2> QED BY <2>1, <2>2
<1>2. CASE Look(a)
  BY <1>2, <1>a DEF TreeIInv, Look, Sound
<1>3. CASE Uncommitted(a)
  BY <1>3 DEF TreeIInv, Uncommitted, Sound
<1>4. CASE Adopt(a)
  BY <1>4, <1>a DEF TreeIInv, Adopt, Sound
<1>5. CASE Ahead(a)
  BY <1>5, <1>a DEF TreeIInv, Ahead, Sound
<1>6. CASE Publish(a)
  BY <1>6, <1>a DEF TreeIInv, Publish, Sound
<1>7. CASE CreateSession(a)
  <2>1. Frame(a) /\ stage[a] = "create" /\ stage'[a] = "work"
    BY <1>7 DEF TreeIInv, CreateSession
  <2>2. base'[a] = IF origin = <<>> THEN {} ELSE ToSet(origin[1])
    BY <1>7 DEF TreeIInv, CreateSession
  <2>3. tree' = tree
    BY <1>7 DEF CreateSession
  <2>4. ASSUME a \in Live' \ crossed PROVE Sound(a)'
    <3>1. /\ IF published THEN origin = <<HEAD>> /\ tree = ToSet(HEAD) ELSE tree = {}
          /\ maker[a] = "jules"
      BY <1>a, <2>1, <2>4 DEF Sound
    <3>2. published => base'[a] = tree
      BY <2>2, <3>1
    <3>3. ~published => tree \subseteq base'[a]
      BY <3>1
    <3>4. stage'[a] = "work" /\ maker'[a] = "jules" /\ published' = published
      BY <2>1, <3>1
    <3> QED BY <2>3, <3>2, <3>3, <3>4 DEF Sound
  <2> QED BY <2>1, <2>4
<1>8. CASE RefuseSession(a)
  BY <1>8 DEF TreeIInv, RefuseSession, Sound
<1> QED BY <1>1, <1>2, <1>3, <1>4, <1>5, <1>6, <1>7, <1>8

-----------------------------------------------------------------------------
(* The steps that begin, pass and end attempts.                             *)

LEMMA BeginKeeps ==
  ASSUME TreeIInv, NEW a \in Numbers, NEW m \in Makers, BeginNext(a, m)
  PROVE  TreeIInv'
<1> USE DEF BeginNext, Enters, copyVars, gitVars, humanVars
<1>1. stage[a] = "new" /\ stage' = [stage EXCEPT ![a] = "start"]
  OBVIOUS
<1>2. stage' \in [Numbers -> Stages]
  BY DEF TreeIInv, Shape, Stages
<1>3. maker' \in [Numbers -> Makers]
  BY DEF TreeIInv, Shape
<1>4. Shape'
  BY <1>2, <1>3 DEF TreeIInv, Shape
<1>5. Live' = Live \cup {a} /\ Live \subseteq Numbers /\ a \notin Live
  BY <1>1 DEF TreeIInv, Shape, Live
<1>a. Begun' = Begun \cup {a} /\ a \notin Begun
  BY <1>1 DEF TreeIInv, Shape, Begun
<1>6. First'
  <2> SUFFICES ASSUME 1 \in Numbers, stage'[1] = "new" PROVE FALSE
    BY DEF First
  <2>1. a # 1 /\ a \in Nat /\ stage[1] = "new"
    BY <1>1 DEF Numbers, TreeIInv, Shape
  <2>2. 1 \in 1..(a - 1)
    BY <2>1 DEF Numbers
  <2> QED BY <2>1, <2>2 DEF Begun
<1>7. Alone'
  <2> SUFFICES ASSUME NEW c \in Live' \ crossed'
               PROVE  Live' = {c} /\ Sound(c)'
    BY DEF Alone
  <2>1. Live = {} /\ c = a
    BY <1>5
  <2>2. stage'[c] = "start"
    BY <1>1, <2>1 DEF TreeIInv, Shape
  <2>3. c = 1 => tree' = {}
    BY <1>1, <2>1 DEF TreeIInv, First
  <2>4. Sound(c)'
    BY <2>2, <2>3 DEF Sound
  <2> QED BY <1>5, <2>1, <2>4
<1>8. Numbered'
  <2>1. \A b \in Begun' : 1..b \subseteq Begun'
    <3>1. 1..(a - 1) \subseteq Begun /\ a \in Nat
      BY DEF Numbers
    <3>2. 1..a \subseteq Begun'
      BY <1>a, <3>1
    <3> QED BY <1>a, <3>2 DEF TreeIInv, Numbered
  <2>2. \A r \in ready : stage'[r] = stage[r]
    BY <1>1 DEF TreeIInv, Numbered, Shape
  <2> QED BY <1>a, <2>1, <2>2 DEF TreeIInv, Numbered
<1>9. Owned'
  <2> SUFFICES ASSUME ghosts = {} PROVE Owned'
    BY DEF Owned
  <2>1. Live' = {a}
    BY <1>5
  <2>2. IsLast(a)'
    <3>1. \A b \in Begun : b \in Nat /\ b < a
      <4> SUFFICES ASSUME NEW b \in Begun, ~(b < a) PROVE FALSE
        BY DEF Begun, Numbers
      <4>1. a \in 1..b
        BY DEF Begun, Numbers
      <4> QED BY <1>a, <4>1 DEF TreeIInv, Numbered
    <3>2. a \in Nat /\ 1 <= a /\ \A b \in Begun : 1 <= b
      BY DEF Numbers, Begun
    <3> QED BY <1>a, <3>1, <3>2 DEF IsLast
  <2>3. \A r \in ready : ~IsLast(r)'
    <3> SUFFICES ASSUME NEW r \in ready, IsLast(r)' PROVE FALSE
      OBVIOUS
    <3>1. r \in Begun /\ r \in Nat /\ a \in Nat
      BY DEF TreeIInv, Numbered, Begun, Numbers
    <3>2. a <= r
      BY <1>a, <3>1 DEF IsLast
    <3>3. a \in 1..r
      BY <3>1, <3>2 DEF Numbers
    <3> QED BY <1>a, <3>1, <3>3 DEF TreeIInv, Numbered
  <2>4. ~UpToDate'
    BY <1>a DEF TreeIInv, Numbered, UpToDate
  <2> QED BY <2>1, <2>2, <2>3, <2>4 DEF Owned
<1> QED BY <1>4, <1>6, <1>7, <1>8, <1>9 DEF TreeIInv

LEMMA PassKeeps ==
  ASSUME TreeIInv, NEW a \in Numbers, PassWork(a)
  PROVE  TreeIInv'
<1> USE DEF PassWork, Enters, copyVars, gitVars, humanVars
<1>1. a \in Live \ ready
  BY DEF TreeIInv, Numbered, Live
<1>2. stage' = [stage EXCEPT ![a] = "passed"] /\ stage' \in [Numbers -> Stages]
  BY DEF TreeIInv, Shape, Stages
<1>3. Live' = Live /\ Begun' = Begun
  BY <1>1, <1>2 DEF TreeIInv, Shape, Live, Begun
<1>4. Shape' /\ First'
  BY <1>1, <1>2 DEF TreeIInv, Shape, First, Live
<1>5. Alone'
  <2> SUFFICES ASSUME NEW c \in Live' \ crossed'
               PROVE  Live' = {c} /\ Sound(c)'
    BY DEF Alone
  <2>1. Live = {c} /\ c = a
    BY <1>1, <1>3, Own
  <2>2. stage'[c] = "passed"
    BY <1>2, <2>1 DEF TreeIInv, Shape
  <2> QED BY <1>3, <2>1, <2>2 DEF Sound
<1>6. Numbered'
  BY <1>2, <1>3 DEF TreeIInv, Numbered, Shape
<1>7. Owned'
  <2> SUFFICES ASSUME ghosts = {} PROVE Owned'
    BY DEF Owned
  <2>1. \A r : IsLast(r)' <=> IsLast(r)
    BY <1>3 DEF IsLast
  <2>2. \A r \in ready : ~IsLast(r)
    BY <1>1, LastAtWork
  <2>3. verified'[a] = tree' /\ ready' = ready \cup {a}
    BY DEF TreeIInv, Shape
  <2>4. ~UpToDate /\ task # "READY"
    BY <1>1 DEF TreeIInv, Owned
  <2>5. ~UpToDate'
    BY <1>3, <2>4 DEF UpToDate
  <2> QED BY <1>3, <2>1, <2>2, <2>3, <2>4, <2>5 DEF TreeIInv, Owned
<1> QED BY <1>4, <1>5, <1>6, <1>7 DEF TreeIInv

\* An attempt that ends leaves the others what crossed them; it resets the
\* worktree only before it has passed.
LEMMA EndKeeps ==
  ASSUME TreeIInv, NEW a \in Live, Leaves(a),
         UNCHANGED <<published, ready, verified, acceptor, asked, built, ghosts>>,
         tree' = tree \/ a \notin ready,
         ghosts = {} /\ task' = "READY" => task = "READY" \/ Live = {a}
  PROVE  TreeIInv'
<1> USE DEF Leaves, Enters
<1>0. a \in Numbers /\ stage[a] # "new"
  BY DEF Live
<1>1. stage' = [stage EXCEPT ![a] = "over"] /\ stage' \in [Numbers -> Stages]
  BY DEF TreeIInv, Shape, Stages
<1>2. Live' = Live \ {a} /\ Begun' = Begun
  BY <1>0, <1>1 DEF TreeIInv, Shape, Live, Begun
<1>3. Shape'
  BY <1>1 DEF TreeIInv, Shape, Makers
<1>4. First'
  BY <1>0, <1>1 DEF First, TreeIInv, Shape
<1>5. Alone'
  <2> SUFFICES ASSUME NEW c \in Live' \ crossed' PROVE FALSE
    BY DEF Alone
  <2>1. c \in Live \ crossed
    BY <1>2
  <2>2. Live = {c}
    BY <2>1, Own
  <2> QED BY <1>2, <2>2
<1>6. Numbered'
  BY <1>0, <1>1, <1>2 DEF TreeIInv, Numbered, Shape
<1>7. Owned'
  <2> SUFFICES ASSUME ghosts = {} PROVE Owned'
    BY DEF Owned
  <2>1. \A r : IsLast(r)' <=> IsLast(r)
    BY <1>2 DEF IsLast
  <2>2. UpToDate' <=> UpToDate
    BY <1>2 DEF UpToDate
  <2>3. \A r \in ready : IsLast(r) => tree' = verified[r]
    <3>1. CASE tree' = tree
      BY <3>1 DEF TreeIInv, Owned
    <3>2. CASE a \notin ready
      BY <3>2, LastAtWork
    <3> QED BY <3>1, <3>2
  <2>4. task' = "READY" \/ UpToDate' => Live' = {}
    BY <1>2, <2>2 DEF TreeIInv, Owned
  <2> QED BY <1>2, <2>1, <2>2, <2>3, <2>4 DEF TreeIInv, Owned
<1> QED BY <1>3, <1>4, <1>5, <1>6, <1>7 DEF TreeIInv

Ending(a) ==
  \/ FailKept(a) \/ FailReset(a) \/ ConcludeWork(a) \/ KillAttempt(a)
  \/ \E v \in {"wrong", "scope"} : RejectWork(a, v)

LEMMA SettleKeeps ==
  ASSUME TreeIInv, NEW a \in Numbers, Ending(a)
  PROVE  TreeIInv'
<1>1. a \in Live
  BY DEF Ending, FailKept, FailReset, ConcludeWork, KillAttempt, RejectWork, Live
<1>2. /\ Leaves(a)
      /\ UNCHANGED <<published, ready, verified, acceptor, asked, built, ghosts>>
  BY DEF Ending, FailKept, FailReset, ConcludeWork, KillAttempt, RejectWork, Finishes,
         jobVars, humanVars
<1>3. tree' = tree \/ a \notin ready
  BY DEF Ending, FailKept, FailReset, ConcludeWork, KillAttempt, RejectWork, Finishes,
         gitVars, TreeIInv, Numbered
<1>4. ghosts = {} => Live = {a}
  BY <1>1 DEF TreeIInv, Owned
<1> QED BY <1>1, <1>2, <1>3, <1>4, EndKeeps

-----------------------------------------------------------------------------
(* The steps of the others.                                                 *)

Elsewhere ==
  \/ RecoverWork \/ LanePushes \/ AcceptCheck \/ AcceptComplete \/ AcceptAborts
  \/ RejectCheck \/ RejectStore \/ \E a \in Numbers : LoseLease(a)

LEMMA OthersKeep ==
  ASSUME TreeIInv, Elsewhere
  PROVE  TreeIInv'
<1> USE DEF others, gitVars, copyVars, jobVars, humanVars
<1>1. UNCHANGED <<stage, maker, base, returned, tree, HEAD, published, ready, verified>>
  BY DEF Elsewhere, RecoverWork, LanePushes, AcceptCheck, AcceptComplete, AcceptAborts,
         RejectCheck, RejectStore, LoseLease
<1>2. Live' = Live /\ Begun' = Begun
  BY <1>1 DEF Live, Begun
<1>3. Shape' /\ First'
  BY <1>1 DEF TreeIInv, Shape, First
<1>4. Alone'
  <2>1. CASE LanePushes
    BY <1>2, <2>1 DEF LanePushes, Alone
  <2>2. CASE ~LanePushes
    <3>1. origin' = origin /\ crossed' = crossed
      BY <2>2 DEF Elsewhere, RecoverWork, AcceptCheck, AcceptComplete, AcceptAborts,
                  RejectCheck, RejectStore, LoseLease
    <3>2. \A c : Sound(c)' <=> Sound(c)
      BY <1>1, <3>1 DEF Sound
    <3> QED BY <1>2, <3>1, <3>2 DEF TreeIInv, Alone
  <2> QED BY <2>1, <2>2
<1>5. Numbered'
  <2>1. asked' \subseteq Begun
    BY DEF Elsewhere, RecoverWork, LanePushes, AcceptCheck, AcceptComplete, AcceptAborts,
           RejectCheck, RejectStore, LoseLease, TreeIInv, Numbered
  <2> QED BY <1>1, <1>2, <2>1 DEF TreeIInv, Numbered
<1>6. Owned'
  <2> SUFFICES ASSUME ghosts' = {} PROVE Owned'
    BY DEF Owned
  <2>1. ghosts = {}
    BY DEF Elsewhere, RecoverWork, LanePushes, AcceptCheck, AcceptComplete, AcceptAborts,
           RejectCheck, RejectStore, LoseLease
  <2>2. \A r : IsLast(r)' <=> IsLast(r)
    BY <1>2 DEF IsLast
  <2>3. CASE RecoverWork
    <3>1. Live = {}
      BY <2>1, <2>3 DEF RecoverWork
    <3>2. UpToDate' <=> UpToDate /\ UNCHANGED <<acceptor, built>>
      BY <1>2, <2>3 DEF UpToDate, RecoverWork
    <3> QED BY <1>1, <1>2, <2>1, <2>2, <2>3, <3>1, <3>2 DEF TreeIInv, Owned, RecoverWork, UpToDate
  <2>4. CASE AcceptCheck
    <3>1. Live = {} /\ acceptor' = "checked"
      BY <2>1, <2>4 DEF AcceptCheck, TreeIInv, Owned
    <3> QED BY <1>1, <1>2, <2>1, <2>2, <3>1 DEF TreeIInv, Owned
  <2>5. CASE AcceptComplete \/ AcceptAborts
    <3>1. ~UpToDate' /\ (task' = task \/ task' = "COMMITTED")
      BY <2>5 DEF AcceptComplete, AcceptAborts, UpToDate
    <3> QED BY <1>1, <1>2, <2>1, <2>2, <3>1 DEF TreeIInv, Owned
  <2>6. CASE LanePushes \/ RejectCheck \/ RejectStore \/ \E a \in Numbers : LoseLease(a)
    <3>1. UNCHANGED <<acceptor, asked, built>> /\ (task' = task \/ task' = "idle")
      BY <2>6 DEF LanePushes, RejectCheck, RejectStore, LoseLease
    <3>2. UpToDate' <=> UpToDate
      BY <1>2, <3>1 DEF UpToDate
    <3> QED BY <1>1, <1>2, <2>1, <2>2, <3>1, <3>2 DEF TreeIInv, Owned
  <2> QED BY <2>3, <2>4, <2>5, <2>6 DEF Elsewhere
<1> QED BY <1>3, <1>4, <1>5, <1>6 DEF TreeIInv

-----------------------------------------------------------------------------
(* The sequences: HEAD and the commits of the origin.                      *)

\* SetToSeq of a finite set is a sequence over it.
LEMMA SetToSeqType ==
  ASSUME NEW S, IsFiniteSet(S)
  PROVE  SetToSeq(S) \in Seq(S)
<1>1. Cardinality(S) \in Nat /\ ExistsBijection(1..Cardinality(S), S)
  BY FS_CardinalityType
<1>2. \E f \in [1..Cardinality(S) -> S] : IsInjective(f)
  BY <1>1 DEF ExistsBijection, Bijection, Injection
<1>3. SetToSeq(S) \in [1..Cardinality(S) -> S]
  BY <1>2 DEF SetToSeq
<1> QED BY <1>1, <1>3

\* A sequence that continues another one has all its members.
LEMMA PrefixMembers ==
  ASSUME NEW S, NEW s \in Seq(S), NEW t \in Seq(S), IsPrefix(s, t)
  PROVE  ToSet(s) \subseteq ToSet(t)
<1> SUFFICES ASSUME NEW i \in 1..Len(s) PROVE i \in 1..Len(t) /\ s[i] = t[i]
  BY DEF ToSet
<1>1. Len(s) <= Len(t) /\ SubSeq(s, 1, Len(s)) = SubSeq(t, 1, Len(s))
  BY DEF IsPrefix
<1>2. SubSeq(s, 1, Len(s))[i] = s[i] /\ SubSeq(t, 1, Len(s))[i] = t[i]
  BY <1>1
<1> QED BY <1>1, <1>2

Commits == Seq(Edits)
SeqInv ==
  /\ tree \subseteq Edits /\ HEAD \in Commits
  /\ origin \in Seq(Commits) /\ Len(origin) <= 1 /\ pushes \in Nat
  /\ \A a \in Numbers : stage[a] = "adopt" => origin # <<>>

LEMMA SeqInitially == TreeInit => SeqInv
BY DEF TreeInit, SeqInv, Commits

\* The commit that git makes of everything in the worktree.
LEMMA CommitType ==
  ASSUME SeqInv
  PROVE  HEAD \o SetToSeq(tree \ ToSet(HEAD)) \in Commits
<1>1. IsFiniteSet(Edits)
  BY FS_Interval, TreeAssumption DEF Edits
<1>2. IsFiniteSet(tree \ ToSet(HEAD)) /\ tree \ ToSet(HEAD) \subseteq Edits
  BY <1>1, FS_Subset DEF SeqInv
<1>3. SetToSeq(tree \ ToSet(HEAD)) \in Seq(Edits)
  BY <1>2, SetToSeqType
<1> QED BY <1>3 DEF SeqInv, Commits

\* When everything is committed, the commit adds nothing.
LEMMA NothingToCommit ==
  ASSUME SeqInv, tree = ToSet(HEAD)
  PROVE  HEAD \o SetToSeq(tree \ ToSet(HEAD)) = HEAD
<1>1. tree \ ToSet(HEAD) = {}
  OBVIOUS
<1>2. SetToSeq({}) \in Seq({})
  BY SetToSeqType, FS_EmptySet
<1>3. SetToSeq({}) = <<>>
  BY <1>2
<1>4. HEAD \o <<>> = HEAD
  BY DEF SeqInv, Commits
<1> QED BY <1>1, <1>3, <1>4

\* accept commits what is in the worktree: what was passed, if it is up to date.
LEMMA CommitKeeps ==
  ASSUME TreeIInv, SeqInv, AcceptCommit
  PROVE  TreeIInv'
<1>1. /\ UNCHANGED <<stage, maker, base, returned, tree, origin, published, ready, verified>>
      /\ UNCHANGED <<task, asked, ghosts, crossed>>
  BY DEF AcceptCommit, others, copyVars
<1>a. acceptor = "checked" /\ built' = tree
  BY DEF AcceptCommit
<1>2. Live' = Live /\ Begun' = Begun
  BY <1>1 DEF Live, Begun
<1>3. Shape' /\ First'
  BY <1>1 DEF TreeIInv, Shape, First
<1>4. Alone'
  <2>1. tree = ToSet(HEAD) => HEAD' = HEAD
    BY NothingToCommit DEF AcceptCommit
  <2>2. \A c : Sound(c) => Sound(c)'
    BY <1>1, <2>1 DEF Sound
  <2> QED BY <1>1, <1>2, <2>2 DEF TreeIInv, Alone
<1>5. Numbered'
  BY <1>1, <1>2 DEF TreeIInv, Numbered
<1>6. Owned'
  <2> SUFFICES ASSUME ghosts = {} PROVE Owned'
    BY <1>1 DEF Owned
  <2>1. \A r : IsLast(r)' <=> IsLast(r)
    BY <1>2 DEF IsLast
  <2>2. UpToDate' => UpToDate
    BY <1>1, <1>2, <1>a DEF UpToDate
  <2>3. \A r \in ready' : IsLast(r)' => tree' = verified'[r] /\ built' = verified'[r]
    BY <1>1, <1>a, <2>1 DEF TreeIInv, Owned
  <2>4. task' = "READY" \/ UpToDate' => Live' = {}
    BY <1>1, <1>2, <2>2 DEF TreeIInv, Owned
  <2> QED BY <1>1, <1>2, <2>1, <2>3, <2>4 DEF TreeIInv, Owned
<1> QED BY <1>3, <1>4, <1>5, <1>6 DEF TreeIInv

LEMMA TreeInitially == TreeInit => TreeIInv
<1> SUFFICES ASSUME TreeInit PROVE TreeIInv
  OBVIOUS
<1>1. stage \in [Numbers -> Stages] /\ maker \in [Numbers -> Makers]
  BY DEF TreeInit, Stages, Makers
<1>2. Live = {} /\ Begun = {}
  BY DEF TreeInit, Live, Begun
<1> QED BY <1>1, <1>2 DEF TreeInit, TreeIInv, Shape, First, Alone, Numbered, Owned, UpToDate

LEMMA TreeStep == TreeIInv /\ SeqInv /\ [TreeNext]_treeVars => TreeIInv'
<1> SUFFICES ASSUME TreeIInv, SeqInv, [TreeNext]_treeVars PROVE TreeIInv'
  OBVIOUS
<1>1. CASE \E a \in Numbers, m \in Makers : BeginNext(a, m)
  BY <1>1, BeginKeeps
<1>2. CASE \E a \in Numbers :
             \/ StartLocal(a) \/ WriteEdit(a) \/ CommitEdits(a) \/ EndLocal(a) \/ Normalize(a)
  BY <1>2, LocalFrames, FrameKeeps
<1>3. CASE \E a \in Numbers : Upload(a) \/ ApplyWork(a) \/ RefuseWork(a) \/ BringNothing(a)
  BY <1>3, RemoteFrames, FrameKeeps
<1>4. CASE \E a \in Numbers :
             \/ JulesChecks(a) \/ Look(a) \/ Uncommitted(a) \/ Adopt(a) \/ Ahead(a)
             \/ Publish(a) \/ CreateSession(a) \/ RefuseSession(a)
  BY <1>4, JulesFrames, FrameKeeps
<1>5. CASE \E a \in Numbers : Ending(a)
  BY <1>5, SettleKeeps
<1>6. CASE \E a \in Numbers : PassWork(a)
  BY <1>6, PassKeeps
<1>7. CASE Elsewhere
  BY <1>7, OthersKeep
<1>8. CASE AcceptCommit
  BY <1>8, CommitKeeps
<1>9. CASE UNCHANGED treeVars
  BY <1>9 DEF treeVars, gitVars, copyVars, jobVars, humanVars, rest, TreeIInv, Shape, First,
     Alone, Numbered, Owned, UpToDate, IsLast, Sound, Live, Begun
<1> QED BY <1>1, <1>2, <1>3, <1>4, <1>5, <1>6, <1>7, <1>8, <1>9 DEF TreeNext, Ending, Elsewhere

LEMMA OriginHead ==
  ASSUME SeqInv, origin # <<>>
  PROVE  origin[1] \in Commits /\ ToSet(origin[1]) \subseteq Edits
<1>1. origin[1] \in Commits
  BY DEF SeqInv
<1>2. \A c \in Commits : ToSet(c) \subseteq Edits
  BY DEF Commits, ToSet
<1> QED BY <1>1, <1>2

\* The steps that change neither HEAD nor the origin.
LEMMA SeqStays ==
  ASSUME SeqInv, HEAD' = HEAD, origin' = origin, pushes' = pushes,
         tree' \subseteq Edits,
         \A a \in Numbers : stage'[a] = "adopt" => stage[a] = "adopt" \/ origin # <<>>
  PROVE  SeqInv'
BY DEF SeqInv

LEMMA SeqStep == TreeIInv /\ SeqInv /\ [TreeNext]_treeVars => SeqInv'
<1> SUFFICES ASSUME TreeIInv, SeqInv, [TreeNext]_treeVars PROVE SeqInv'
  OBVIOUS
<1>0. stage \in [Numbers -> Stages] /\ Numbers \subseteq Edits
  BY TreeAssumption DEF TreeIInv, Shape, Numbers, Edits
<1> DEFINE NoAdopt == \A a \in Numbers : stage'[a] = "adopt" => stage[a] = "adopt"
           Stay == HEAD' = HEAD /\ origin' = origin /\ pushes' = pushes
<1>1. ASSUME NEW a \in Numbers, NEW m \in Makers, BeginNext(a, m) PROVE SeqInv'
  <2>1. Stay /\ tree' = tree /\ NoAdopt
    BY <1>0, <1>1 DEF BeginNext, Enters, gitVars
  <2> QED BY <2>1, SeqStays DEF SeqInv
<1>2. ASSUME NEW a \in Numbers,
             \/ StartLocal(a) \/ EndLocal(a) \/ Upload(a) \/ JulesChecks(a) \/ Uncommitted(a)
             \/ Ahead(a) \/ CreateSession(a) \/ RefuseSession(a) \/ BringNothing(a)
      PROVE  SeqInv'
  <2>1. Stay /\ tree' = tree
    BY <1>2 DEF StartLocal, EndLocal, Upload, JulesChecks, Uncommitted, Ahead, CreateSession,
                RefuseSession, BringNothing, rest
  <2>2. \E s \in {"work", "settle", "look", "create", "push"} : stage' = [stage EXCEPT ![a] = s]
    BY <1>2 DEF StartLocal, EndLocal, Upload, JulesChecks, Uncommitted, Ahead, CreateSession,
                RefuseSession, BringNothing, Enters, Returns
  <2>3. NoAdopt
    BY <1>0, <2>2
  <2> QED BY <2>1, <2>3, SeqStays DEF SeqInv
<1>3. ASSUME NEW a \in Numbers, WriteEdit(a) \/ ApplyWork(a) \/ RefuseWork(a)
      PROVE  SeqInv'
  <2>1. Stay /\ tree' \subseteq tree \cup {a}
    BY <1>3 DEF WriteEdit, ApplyWork, RefuseWork, rest
  <2>2. stage' = stage \/ stage' = [stage EXCEPT ![a] = "settle"]
    BY <1>3 DEF WriteEdit, ApplyWork, RefuseWork, Returns, Enters
  <2>3. NoAdopt
    BY <1>0, <2>2
  <2> QED BY <1>0, <2>1, <2>3, SeqStays DEF SeqInv
<1>4. ASSUME NEW a \in Numbers, CommitEdits(a) PROVE SeqInv'
  BY <1>4, CommitType DEF CommitEdits, SeqInv, rest
<1>5. ASSUME NEW a \in Numbers, Look(a) PROVE SeqInv'
  <2>1. Stay /\ tree' = tree
    BY <1>5 DEF Look, rest
  <2>2. \A b \in Numbers : stage'[b] = "adopt" => stage[b] = "adopt" \/ origin # <<>>
    BY <1>0, <1>5 DEF Look, Enters
  <2> QED BY <2>1, <2>2, SeqStays DEF SeqInv
<1>6. ASSUME NEW a \in Numbers, Adopt(a) PROVE SeqInv'
  <2>1. origin # <<>>
    BY <1>6 DEF Adopt, SeqInv
  <2>2. NoAdopt /\ origin' = origin /\ pushes' = pushes
    BY <1>0, <1>6 DEF Adopt, Enters, rest
  <2>3. HEAD' \in Commits /\ tree' \subseteq Edits
    BY <1>6, <2>1, OriginHead DEF Adopt
  <2> QED BY <2>1, <2>2, <2>3 DEF SeqInv
<1>7. ASSUME NEW a \in Numbers, Publish(a) PROVE SeqInv'
  <2>1. NoAdopt /\ HEAD' = HEAD /\ tree' = tree /\ pushes' = pushes
    BY <1>0, <1>7 DEF Publish, Enters, Returns, rest
  <2>2. origin' = origin \/ origin' = <<HEAD>>
    BY <1>7 DEF Publish
  <2>3. HEAD \in Commits
    BY DEF SeqInv
  <2>4. <<HEAD>> \in Seq(Commits) /\ Len(<<HEAD>>) = 1 /\ <<HEAD>> # <<>>
    BY <2>3
  <2>5. origin' \in Seq(Commits) /\ Len(origin') <= 1 /\ (origin # <<>> => origin' # <<>>)
    <3>1. origin \in Seq(Commits) /\ Len(origin) <= 1
      BY DEF SeqInv
    <3>2. CASE origin' = origin
      BY <3>1, <3>2
    <3>3. CASE origin' = <<HEAD>>
      BY <2>4, <3>3
    <3> QED BY <2>2, <3>2, <3>3
  <2> QED BY <2>1, <2>5 DEF SeqInv
<1>8. ASSUME NEW a \in Numbers,
             Ending(a) \/ Normalize(a) \/ PassWork(a)
      PROVE  SeqInv'
  <2> USE DEF Ending, FailKept, FailReset, ConcludeWork, KillAttempt, RejectWork, Normalize,
              PassWork
  <2>1. NoAdopt
    <3>1. \E s \in {"over", "verify", "passed"} : stage' = [stage EXCEPT ![a] = s]
      BY <1>8 DEF Finishes, Leaves, Enters
    <3> QED BY <1>0, <3>1
  <2>2. origin' = origin /\ pushes' = pushes
    BY <1>8 DEF Finishes, gitVars
  <2>3. (HEAD' = HEAD \/ HEAD' = <<>>) /\ (tree' = tree \/ tree' = {})
    BY <1>8 DEF gitVars
  <2>4. HEAD \in Commits /\ <<>> \in Commits
    BY DEF SeqInv, Commits
  <2>5. HEAD' \in Commits
    BY <2>3, <2>4
  <2> QED BY <2>1, <2>2, <2>3, <2>5 DEF SeqInv
<1>9. ASSUME AcceptCommit PROVE SeqInv'
  BY <1>9, CommitType DEF AcceptCommit, others, SeqInv
<1>10. ASSUME Elsewhere, ~LanePushes PROVE SeqInv'
  BY <1>10, SeqStays DEF Elsewhere, RecoverWork, AcceptCheck, AcceptComplete, AcceptAborts,
     RejectCheck, RejectStore, LoseLease, gitVars, others, SeqInv
<1>11. ASSUME LanePushes PROVE SeqInv'
  <2>1. pushes \in Nat /\ pushes < MaxPushes /\ pushes' = pushes + 1
        /\ HEAD' = HEAD /\ tree' = tree /\ stage' = stage
    BY <1>11 DEF LanePushes, SeqInv
  <2>2. Pushed(pushes + 1) \in Edits
    BY <2>1, TreeAssumption DEF Pushed, Edits
  <2>3. (IF origin = <<>> THEN <<>> ELSE origin[1]) \in Commits
    BY OriginHead DEF Commits
  <2>4. Append(IF origin = <<>> THEN <<>> ELSE origin[1], Pushed(pushes + 1)) \in Commits
    BY <2>2, <2>3 DEF Commits
  <2>5. origin' \in Seq(Commits) /\ Len(origin') = 1 /\ origin' # <<>>
    BY <1>11, <2>4 DEF LanePushes
  <2> QED BY <2>1, <2>5 DEF SeqInv
<1>12. CASE UNCHANGED treeVars
  BY <1>12 DEF treeVars, gitVars, rest, SeqInv
<1> QED BY <1>1, <1>2, <1>3, <1>4, <1>5, <1>6, <1>7, <1>8, <1>9, <1>10, <1>11, <1>12
           DEF TreeNext, Ending, Elsewhere

LEMMA TreeInvariant == TreeSpec => [](TreeIInv /\ SeqInv)
BY TreeInitially, TreeStep, SeqInitially, SeqStep, PTL DEF TreeSpec

-----------------------------------------------------------------------------

(* What a human accepts is what was verified in the last attempt, with any      *)
(* number of attempts, kills, recoveries and rejections between accept's steps, *)
(* as long as no controller lost its lease (controller.py:1226-1292,            *)
(* db.py:1829-1848, 2421-2436).                                                 *)
THEOREM AcceptedIsVerified == TreeSpec => VerifiedKept
<1> DEFINE Kept == task # "COMMITTED" /\ task' = "COMMITTED" /\ ghosts = {} /\ asked = Begun
                     /\ Begun \subseteq 1..accepted' => built = verified[accepted']
<1>1. TreeIInv /\ SeqInv /\ [TreeNext]_treeVars => [Kept]_treeVars
  <2> SUFFICES ASSUME TreeIInv, TreeNext, task # "COMMITTED", task' = "COMMITTED",
                      ghosts = {}, asked = Begun, Begun \subseteq 1..accepted'
               PROVE  built = verified[accepted']
    OBVIOUS
  <2>1. CASE AcceptComplete
    <3>1. accepted' \in ready /\ IsLast(accepted')
      BY <2>1 DEF AcceptComplete, IsLast
    <3>2. UpToDate /\ acceptor = "committed"
      BY <2>1 DEF AcceptComplete, UpToDate
    <3> QED BY <3>1, <3>2 DEF TreeIInv, Owned
  <2>2. CASE \E a \in Numbers, m \in Makers : BeginNext(a, m)
    BY <2>2 DEF BeginNext
  <2>3. CASE \E a \in Numbers :
               \/ StartLocal(a) \/ WriteEdit(a) \/ CommitEdits(a) \/ EndLocal(a) \/ Normalize(a)
    BY <2>3, LocalFrames DEF Frame
  <2>4. CASE \E a \in Numbers : Upload(a) \/ ApplyWork(a) \/ RefuseWork(a) \/ BringNothing(a)
    BY <2>4, RemoteFrames DEF Frame
  <2>5. CASE \E a \in Numbers :
               \/ JulesChecks(a) \/ Look(a) \/ Uncommitted(a) \/ Adopt(a) \/ Ahead(a)
               \/ Publish(a) \/ CreateSession(a) \/ RefuseSession(a)
    BY <2>5, JulesFrames DEF Frame
  <2>6. CASE \E a \in Numbers : Ending(a) \/ PassWork(a)
    BY <2>6 DEF Ending, FailKept, FailReset, ConcludeWork, KillAttempt, RejectWork, Finishes,
       PassWork, jobVars
  <2>7. CASE AcceptCommit \/ (Elsewhere /\ ~AcceptComplete)
    BY <2>7 DEF AcceptCommit, Elsewhere, RecoverWork, LanePushes, AcceptCheck, AcceptAborts,
       RejectCheck, RejectStore, LoseLease, jobVars
  <2> QED BY <2>1, <2>2, <2>3, <2>4, <2>5, <2>6, <2>7 DEF TreeNext, Ending, Elsewhere
<1> QED BY <1>1, TreeInvariant, PTL DEF TreeSpec, VerifiedKept

(* A remote executor's patch meets the worktree its copy started from, unless *)
(* something crossed the attempt (openhands.py:513-615, jules.py:135-222).    *)
THEOREM PatchMeetsBase == TreeSpec => []PatchBase
<1>1. TreeIInv => PatchBase
  <2> SUFFICES ASSUME TreeIInv, NEW a \in Numbers \ crossed, stage[a] = "work"
               PROVE  CASE maker[a] = "remote" -> tree = base[a]
                        [] maker[a] = "jules"  ->
                             IF published THEN tree = base[a] ELSE tree \subseteq base[a]
                        [] OTHER -> TRUE
    BY DEF PatchBase
  <2>1. a \in Live
    BY DEF Live
  <2>2. Sound(a)
    BY <2>1, Own
  <2> QED BY <2>2 DEF Sound
<1> QED BY <1>1, TreeInvariant, PTL

(* Work leaves the worktree only by a reset after an attempt, or by an adoption *)
(* that something crossed, for any number of attempts, lost leases and pushes   *)
(* (controller.py:959-967, 981-982, 1060-1061, jules.py:168-187).                *)
THEOREM WorkIsKept == TreeSpec => NothingSwept
<1> DEFINE Kept == tree \subseteq tree' \/ (\E a \in Numbers : ResetAfter(a))
                     \/ (\E a \in crossed : stage[a] = "adopt" /\ stage'[a] = "push")
<1>1. TreeIInv /\ SeqInv /\ [TreeNext]_treeVars => [Kept]_treeVars
  <2> SUFFICES ASSUME TreeIInv, SeqInv, TreeNext PROVE Kept
    BY DEF treeVars
  <2>0. stage \in [Numbers -> Stages]
    BY DEF TreeIInv, Shape
  <2>1. ASSUME NEW a \in Numbers, NEW m \in Makers, BeginNext(a, m) PROVE Kept
    BY <2>1 DEF BeginNext, gitVars
  <2>2. ASSUME NEW a \in Numbers,
               \/ StartLocal(a) \/ WriteEdit(a) \/ CommitEdits(a) \/ EndLocal(a)
               \/ Upload(a) \/ JulesChecks(a) \/ Look(a) \/ Uncommitted(a) \/ Ahead(a)
               \/ Publish(a) \/ CreateSession(a) \/ RefuseSession(a)
               \/ ApplyWork(a) \/ RefuseWork(a) \/ BringNothing(a)
               \/ FailKept(a) \/ Normalize(a) \/ PassWork(a) \/ ConcludeWork(a)
               \/ LoseLease(a) \/ KillAttempt(a)
        PROVE  Kept
    <3>1. tree \subseteq tree'
      BY <2>2 DEF gitVars, StartLocal, WriteEdit, CommitEdits, EndLocal, Upload, JulesChecks, Look,
           Uncommitted, Ahead, Publish, CreateSession, RefuseSession, ApplyWork, RefuseWork,
           BringNothing, FailKept, Normalize, PassWork, ConcludeWork, LoseLease, KillAttempt
    <3> QED BY <3>1
  <2>3. ASSUME NEW a \in Numbers, Adopt(a) PROVE Kept
    <3>1. stage[a] = "adopt" /\ stage'[a] = "push" /\ a \in Live
      BY <2>0, <2>3 DEF Adopt, Enters, Live
    <3>2. CASE a \in crossed
      BY <3>1, <3>2
    <3>3. CASE a \notin crossed
      <4>1. tree = ToSet(HEAD)
        BY <3>1, <3>3, Own DEF Sound
      <4>2. origin # <<>>
        BY <3>1 DEF SeqInv
      <4>3. HEAD \in Seq(Edits) /\ origin[1] \in Seq(Edits)
        BY <4>2, OriginHead DEF SeqInv, Commits
      <4>4. ToSet(HEAD) \subseteq ToSet(origin[1])
        BY <2>3, <4>3, PrefixMembers DEF Adopt
      <4> QED BY <2>3, <4>1, <4>4 DEF Adopt
    <3> QED BY <3>2, <3>3
  <2>4. ASSUME NEW a \in Numbers,
               FailReset(a) \/ \E v \in {"wrong", "scope"} : RejectWork(a, v)
        PROVE  Kept
    <3>1. stage'[a] = "over"
      BY <2>0, <2>4 DEF FailReset, RejectWork, Finishes, Leaves, Enters
    <3>2. tree' = tree \/ (tree' = {} /\ (stage[a] = "verify"
                                        \/ (stage[a] = "settle" /\ returned[a] = "resource")))
      BY <2>4 DEF FailReset, RejectWork
    <3> QED BY <3>1, <3>2 DEF ResetAfter
  <2>5. ASSUME RecoverWork \/ LanePushes \/ AcceptCheck \/ AcceptCommit \/ AcceptComplete
               \/ AcceptAborts \/ RejectCheck \/ RejectStore
        PROVE  Kept
    BY <2>5 DEF RecoverWork, LanePushes, AcceptCheck, AcceptCommit, AcceptComplete, AcceptAborts,
       RejectCheck, RejectStore, gitVars
  <2> QED BY <2>1, <2>2, <2>3, <2>4, <2>5 DEF TreeNext
<1> QED BY <1>1, TreeInvariant, PTL DEF TreeSpec, NothingSwept

-----------------------------------------------------------------------------
(* The shape of the tree: every edit is one an attempt or a push made, a    *)
(* commit has none twice, and HEAD has none that the worktree has not.      *)

Used == 1..(MaxNumber + pushes)
Commit(c) == c \in Commits /\ IsInjective(c) /\ ToSet(c) \subseteq Used
Tidy ==
  /\ pushes <= MaxPushes /\ tree \subseteq Used
  /\ IsInjective(HEAD) /\ ToSet(HEAD) \subseteq tree
  /\ origin # <<>> => Commit(origin[1])
Settled ==
  /\ task \in {"idle", "running", "READY", "COMMITTED"}
  /\ ready \subseteq Begun /\ verified \in [Numbers -> SUBSET Edits]
  /\ acceptor \in {"none", "checked", "committed"} /\ built \subseteq Edits
  /\ accepted \in 0..MaxNumber /\ rejecting \in BOOLEAN
  /\ \A a \in Numbers : stage[a] = "settle" => returned[a] \in Failing \cup {"ok"}
  /\ \A a, b \in Live \ ghosts : a = b

\* A commit that continues another one with new edits has none twice.
LEMMA JoinInjective ==
  ASSUME NEW S, NEW s \in Seq(S), NEW t \in Seq(S), IsInjective(s), IsInjective(t),
         ToSet(s) \cap ToSet(t) = {}
  PROVE  IsInjective(s \o t) /\ ToSet(s \o t) = ToSet(s) \cup ToSet(t)
<1>1. /\ s \o t \in Seq(S) /\ Len(s \o t) = Len(s) + Len(t)
      /\ Len(s) \in Nat /\ Len(t) \in Nat
      /\ \A i \in 1..Len(s) : (s \o t)[i] = s[i]
      /\ \A i \in 1..Len(t) : (s \o t)[Len(s) + i] = t[i]
  OBVIOUS
<1>2. \A i \in 1..Len(s \o t) : i \in 1..Len(s) \/ i - Len(s) \in 1..Len(t)
  BY <1>1
<1>3. \A i \in 1..Len(s \o t) :
        \/ i \in 1..Len(s) /\ (s \o t)[i] = s[i]
        \/ i - Len(s) \in 1..Len(t) /\ (s \o t)[i] = t[i - Len(s)]
  <2> SUFFICES ASSUME NEW i \in 1..Len(s \o t)
               PROVE  \/ i \in 1..Len(s) /\ (s \o t)[i] = s[i]
                      \/ i - Len(s) \in 1..Len(t) /\ (s \o t)[i] = t[i - Len(s)]
    OBVIOUS
  <2>1. i - Len(s) \in 1..Len(t) => (s \o t)[Len(s) + (i - Len(s))] = t[i - Len(s)]
    BY <1>1
  <2>2. Len(s) + (i - Len(s)) = i
    BY <1>1
  <2> QED BY <1>1, <1>2, <2>1, <2>2
<1>4. ASSUME NEW i \in 1..Len(s \o t), NEW j \in 1..Len(s \o t), (s \o t)[i] = (s \o t)[j]
      PROVE  i = j
  <2>1. CASE i \in 1..Len(s) /\ j \in 1..Len(s)
    BY <1>1, <1>4, <2>1 DEF IsInjective
  <2>2. CASE i - Len(s) \in 1..Len(t) /\ j - Len(s) \in 1..Len(t)
    <3>1. t[i - Len(s)] = t[j - Len(s)]
      BY <1>1, <1>3, <1>4, <2>2
    <3>2. i - Len(s) = j - Len(s)
      BY <2>2, <3>1 DEF IsInjective
    <3> QED BY <1>1, <3>2
  <2>3. CASE i \in 1..Len(s) /\ j - Len(s) \in 1..Len(t)
    <3>1. (s \o t)[i] = s[i] /\ (s \o t)[j] = t[j - Len(s)]
      BY <1>1, <1>3, <2>3
    <3>2. s[i] \in ToSet(s) /\ t[j - Len(s)] \in ToSet(t)
      BY <2>3 DEF ToSet
    <3> QED BY <1>4, <3>1, <3>2
  <2>4. CASE j \in 1..Len(s) /\ i - Len(s) \in 1..Len(t)
    <3>1. (s \o t)[j] = s[j] /\ (s \o t)[i] = t[i - Len(s)]
      BY <1>1, <1>3, <2>4
    <3>2. s[j] \in ToSet(s) /\ t[i - Len(s)] \in ToSet(t)
      BY <2>4 DEF ToSet
    <3> QED BY <1>4, <3>1, <3>2
  <2> QED BY <1>2, <2>1, <2>2, <2>3, <2>4
<1>5. DOMAIN (s \o t) = 1..Len(s \o t)
  BY <1>1
<1>6. IsInjective(s \o t)
  BY <1>4, <1>5 DEF IsInjective
<1>7. ToSet(s \o t) \subseteq ToSet(s) \cup ToSet(t)
  BY <1>3, <1>5 DEF ToSet
<1>8. ToSet(s) \subseteq ToSet(s \o t)
  <2> SUFFICES ASSUME NEW i \in 1..Len(s) PROVE s[i] \in ToSet(s \o t)
    <3>1. DOMAIN s = 1..Len(s)
      OBVIOUS
    <3>2. ToSet(s) = {s[i] : i \in 1..Len(s)}
      BY <3>1 DEF ToSet
    <3> QED BY <3>2
  <2>1. i \in 1..Len(s \o t) /\ (s \o t)[i] = s[i]
    BY <1>1
  <2> QED BY <1>5, <2>1 DEF ToSet
<1>9. ToSet(t) \subseteq ToSet(s \o t)
  <2> SUFFICES ASSUME NEW i \in 1..Len(t) PROVE t[i] \in ToSet(s \o t)
    <3>1. DOMAIN t = 1..Len(t)
      OBVIOUS
    <3>2. ToSet(t) = {t[i] : i \in 1..Len(t)}
      BY <3>1 DEF ToSet
    <3> QED BY <3>2
  <2>1. Len(s) + i \in 1..Len(s \o t) /\ (s \o t)[Len(s) + i] = t[i]
    BY <1>1
  <2> QED BY <1>5, <2>1 DEF ToSet
<1> QED BY <1>6, <1>7, <1>8, <1>9

\* The commit that git makes of everything in the worktree has just that, once.
LEMMA CommitTidy ==
  ASSUME SeqInv, Tidy
  PROVE  LET c == HEAD \o SetToSeq(tree \ ToSet(HEAD))
         IN  IsInjective(c) /\ ToSet(c) \subseteq tree
<1> DEFINE S == tree \ ToSet(HEAD)
<1>1. IsFiniteSet(S) /\ S \subseteq Edits
  <2>1. IsFiniteSet(Edits)
    BY FS_Interval, TreeAssumption DEF Edits
  <2> QED BY <2>1, FS_Subset DEF SeqInv
<1>2. SetToSeq(S) \in Seq(S) /\ IsInjective(SetToSeq(S))
  <2> HIDE DEF S
  <2>1. SetToSeq(S) \in Seq(S)
    BY <1>1, SetToSeqType
  <2>2. \E f \in [1..Cardinality(S) -> S] : IsInjective(f)
    BY <1>1, FS_CardinalityType DEF ExistsBijection, Bijection, Injection
  <2>3. IsInjective(SetToSeq(S))
    BY <2>2 DEF SetToSeq
  <2> QED BY <2>1, <2>3
<1>3. ToSet(SetToSeq(S)) \subseteq S
  <2> HIDE DEF S
  <2> QED BY <1>2 DEF ToSet
<1>4. HEAD \in Seq(Edits) /\ SetToSeq(S) \in Seq(Edits)
  BY <1>1, <1>2 DEF SeqInv, Commits
<1>5. IsInjective(HEAD) /\ ToSet(HEAD) \subseteq tree
  BY DEF Tidy
<1>6. ToSet(HEAD) \cap ToSet(SetToSeq(S)) = {}
  BY <1>3
<1> HIDE DEF S
<1>7. IsInjective(HEAD \o SetToSeq(S))
      /\ ToSet(HEAD \o SetToSeq(S)) = ToSet(HEAD) \cup ToSet(SetToSeq(S))
  BY <1>2, <1>4, <1>5, <1>6, JoinInjective
<1> QED BY <1>3, <1>5, <1>7 DEF S

LEMMA EmptyCommit == <<>> \in Commits /\ IsInjective(<<>>) /\ ToSet(<<>>) = {}
BY DEF Commits, IsInjective, ToSet

LEMMA TidyStep ==
  ASSUME SeqInv, Tidy, TreeNext
  PROVE  Tidy'
<1>0. /\ MaxNumber \in Nat /\ MaxPushes \in Nat /\ pushes \in Nat /\ HEAD \in Commits
      /\ Numbers \subseteq Used
  BY TreeAssumption DEF SeqInv, Numbers, Used
<1>1. ASSUME NEW a \in Numbers,
             \/ (\E m \in Makers : BeginNext(a, m)) \/ StartLocal(a) \/ EndLocal(a) \/ Upload(a)
             \/ JulesChecks(a) \/ Look(a) \/ Uncommitted(a) \/ Ahead(a) \/ CreateSession(a)
             \/ RefuseSession(a) \/ BringNothing(a) \/ FailKept(a) \/ PassWork(a)
             \/ ConcludeWork(a) \/ LoseLease(a) \/ KillAttempt(a)
      PROVE  Tidy'
  <2>1. UNCHANGED <<tree, HEAD, origin, pushes>>
    BY <1>1 DEF BeginNext, StartLocal, EndLocal, Upload, JulesChecks, Look, Uncommitted, Ahead,
                CreateSession, RefuseSession, BringNothing, FailKept, PassWork, ConcludeWork,
                LoseLease, KillAttempt, Finishes, gitVars, rest
  <2> QED BY <2>1 DEF Tidy, Commit, Used
<1>2. ASSUME NEW a \in Numbers, WriteEdit(a) \/ ApplyWork(a) \/ RefuseWork(a)
      PROVE  Tidy'
  <2>1. UNCHANGED <<HEAD, origin, pushes>> /\ (tree' = tree \/ tree' = tree \cup {a})
    BY <1>2 DEF WriteEdit, ApplyWork, RefuseWork, rest
  <2>2. tree' \subseteq Used /\ tree \subseteq tree'
    BY <1>0, <2>1 DEF Tidy
  <2> QED BY <2>1, <2>2 DEF Tidy, Commit, Used
<1>3. ASSUME NEW a \in Numbers, CommitEdits(a) PROVE Tidy'
  <2>1. /\ UNCHANGED <<tree, origin, pushes>>
        /\ HEAD' = HEAD \o SetToSeq(tree \ ToSet(HEAD))
    BY <1>3 DEF CommitEdits, rest
  <2>2. IsInjective(HEAD') /\ ToSet(HEAD') \subseteq tree
    BY <2>1, CommitTidy
  <2> QED BY <2>1, <2>2 DEF Tidy, Commit, Used
<1>4. ASSUME AcceptCommit PROVE Tidy'
  <2>1. /\ UNCHANGED <<tree, origin, pushes>>
        /\ HEAD' = HEAD \o SetToSeq(tree \ ToSet(HEAD))
    BY <1>4 DEF AcceptCommit, others
  <2>2. IsInjective(HEAD') /\ ToSet(HEAD') \subseteq tree
    BY <2>1, CommitTidy
  <2> QED BY <2>1, <2>2 DEF Tidy, Commit, Used
<1>5. ASSUME NEW a \in Numbers, Adopt(a) PROVE Tidy'
  <2>1. /\ UNCHANGED <<origin, pushes>> /\ HEAD' = origin[1] /\ tree' = ToSet(origin[1])
        /\ origin # <<>>
    BY <1>5 DEF Adopt, rest, SeqInv
  <2> QED BY <2>1 DEF Tidy, Commit, Used
<1>6. ASSUME NEW a \in Numbers, Publish(a) PROVE Tidy'
  <2>1. UNCHANGED <<tree, HEAD, pushes>> /\ (origin' = origin \/ origin' = <<HEAD>>)
    BY <1>6 DEF Publish, rest
  <2>2. Commit(HEAD)
    BY <1>0 DEF Tidy, Commit
  <2>3. CASE origin' = <<HEAD>>
    <3>1. origin'[1] = HEAD /\ HEAD' = HEAD
      BY <2>1, <2>3
    <3>2. Commit(origin[1])'
      BY <2>1, <2>2, <3>1 DEF Commit, Used
    <3> QED BY <2>1, <3>2 DEF Tidy, Used
  <2>4. CASE origin' = origin
    BY <2>1, <2>4 DEF Tidy, Commit, Used
  <2> QED BY <2>1, <2>3, <2>4
<1>7. ASSUME NEW a \in Numbers,
             FailReset(a) \/ Normalize(a) \/ \E v \in {"wrong", "scope"} : RejectWork(a, v)
      PROVE  Tidy'
  <2>1. /\ UNCHANGED <<origin, pushes>> /\ (tree' = tree \/ tree' = {})
        /\ HEAD' = <<>> \/ UNCHANGED <<tree, HEAD>>
    BY <1>7 DEF FailReset, Normalize, RejectWork, Finishes
  <2>2. IsInjective(HEAD') /\ ToSet(HEAD') \subseteq tree'
    BY <2>1, EmptyCommit DEF Tidy
  <2> QED BY <2>1, <2>2 DEF Tidy, Commit, Used
<1>8. ASSUME \/ RecoverWork \/ AcceptCheck \/ AcceptComplete \/ AcceptAborts
             \/ RejectCheck \/ RejectStore
      PROVE  Tidy'
  <2>1. UNCHANGED <<tree, HEAD, origin, pushes>>
    BY <1>8 DEF RecoverWork, AcceptCheck, AcceptComplete, AcceptAborts, RejectCheck,
                RejectStore, gitVars, others
  <2> QED BY <2>1 DEF Tidy, Commit, Used
<1>9. ASSUME LanePushes PROVE Tidy'
  <2> DEFINE c == IF origin = <<>> THEN <<>> ELSE origin[1]
             e == MaxNumber + (pushes + 1)
  <2>1. /\ UNCHANGED <<tree, HEAD>> /\ pushes < MaxPushes /\ pushes' = pushes + 1
        /\ origin' = <<Append(c, e)>>
    BY <1>9 DEF LanePushes, Pushed
  <2>2. Used \subseteq Used' /\ e \in Used' /\ e \notin Used /\ e \in Edits
    BY <1>0, <2>1 DEF Used, Edits
  <2>3. Commit(c)
    BY EmptyCommit DEF Tidy, Commit
  <2> HIDE DEF c, e
  <2>4. Append(c, e) = c \o <<e>> /\ Append(c, e) \in Commits
    BY <2>2, <2>3 DEF Commit, Commits
  <2>5. IsInjective(<<e>>) /\ ToSet(<<e>>) = {e} /\ <<e>> \in Seq(Edits)
    BY <2>2 DEF IsInjective, ToSet
  <2>6. ToSet(c) \cap ToSet(<<e>>) = {}
    BY <2>2, <2>3, <2>5 DEF Commit
  <2>7. IsInjective(c \o <<e>>) /\ ToSet(c \o <<e>>) = ToSet(c) \cup ToSet(<<e>>)
    <3>1. c \in Seq(Edits) /\ IsInjective(c)
      BY <2>3 DEF Commit, Commits
    <3>2. ASSUME NEW r \in Seq(Edits), NEW t \in Seq(Edits),
                 IsInjective(r), IsInjective(t), ToSet(r) \cap ToSet(t) = {}
          PROVE  IsInjective(r \o t) /\ ToSet(r \o t) = ToSet(r) \cup ToSet(t)
      BY <3>2, JoinInjective
    <3> DEFINE d == <<e>>
    <3>3. d \in Seq(Edits) /\ IsInjective(d) /\ ToSet(c) \cap ToSet(d) = {}
      BY <2>5, <2>6
    <3> HIDE DEF d
    <3>4. IsInjective(c \o d) /\ ToSet(c \o d) = ToSet(c) \cup ToSet(d)
      BY <3>1, <3>2, <3>3, Zenon
    <3> QED BY <3>4 DEF d
  <2>8. ToSet(c) \cup ToSet(<<e>>) \subseteq Used'
    BY <2>2, <2>3, <2>5 DEF Commit
  <2>9. Commit(origin[1])'
    <3>1. origin'[1] = c \o <<e>>
      BY <2>1, <2>4
    <3> QED BY <2>4, <2>7, <2>8, <3>1 DEF Commit
  <2>10. pushes' <= MaxPushes /\ tree' \subseteq Used'
    BY <1>0, <2>1, <2>2 DEF Tidy
  <2> QED BY <2>1, <2>9, <2>10 DEF Tidy
<1> QED BY <1>1, <1>2, <1>3, <1>4, <1>5, <1>6, <1>7, <1>8, <1>9 DEF TreeNext

LEMMA SettledStep ==
  ASSUME TreeIInv, SeqInv, Settled, TreeNext
  PROVE  Settled'
<1>0. /\ stage \in [Numbers -> Stages] /\ DOMAIN returned = Numbers
      /\ tree \subseteq Edits /\ ready \subseteq Begun /\ verified \in [Numbers -> SUBSET Edits]
  BY DEF TreeIInv, Shape, SeqInv, Settled
<1>1. ASSUME NEW a \in Numbers, NEW m \in Makers, BeginNext(a, m) PROVE Settled'
  BY <1>0, <1>1 DEF BeginNext, Enters, Settled, Live, Begun, copyVars, humanVars
<1>2. ASSUME NEW a \in Numbers, Frame(a),
             UNCHANGED <<accepted, rejecting>>,
             \/ returned' = returned /\ stage'[a] # "settle"
             \/ \E r \in Failing \cup {"ok"} : returned' = [returned EXCEPT ![a] = r]
      PROVE  Settled'
  <2>1. Live' = Live /\ Begun' = Begun
    BY <1>2 DEF Live, Begun, Frame
  <2>2. \A b \in Numbers : stage'[b] = "settle" => returned'[b] \in Failing \cup {"ok"}
    BY <1>0, <1>2 DEF Settled, Frame
  <2> QED BY <1>2, <2>1, <2>2 DEF Settled, Frame
<1>3. ASSUME NEW a \in Numbers,
             \/ StartLocal(a) \/ WriteEdit(a) \/ CommitEdits(a) \/ EndLocal(a) \/ Normalize(a)
      PROVE  Settled'
  <2>1. Frame(a)
    BY <1>3, LocalFrames
  <2>2. /\ UNCHANGED <<accepted, rejecting>>
        /\ \/ returned' = returned /\ stage'[a] # "settle"
           \/ \E r \in Failing \cup {"ok"} : returned' = [returned EXCEPT ![a] = r]
    BY <1>0, <1>3 DEF StartLocal, WriteEdit, CommitEdits, EndLocal, Normalize, Enters, Returns,
       Failing, rest, humanVars, copyVars
  <2> QED BY <1>2, <2>1, <2>2
<1>4. ASSUME NEW a \in Numbers, Upload(a) \/ ApplyWork(a) \/ RefuseWork(a) \/ BringNothing(a)
      PROVE  Settled'
  <2>1. Frame(a)
    BY <1>4, RemoteFrames
  <2>2. /\ UNCHANGED <<accepted, rejecting>>
        /\ \/ returned' = returned /\ stage'[a] # "settle"
           \/ \E r \in Failing \cup {"ok"} : returned' = [returned EXCEPT ![a] = r]
    BY <1>0, <1>4 DEF Upload, ApplyWork, RefuseWork, BringNothing, Away, Enters, Returns,
       Failing, rest, humanVars
  <2> QED BY <1>2, <2>1, <2>2
<1>5. ASSUME NEW a \in Numbers,
             \/ JulesChecks(a) \/ Look(a) \/ Uncommitted(a) \/ Adopt(a) \/ Ahead(a)
             \/ Publish(a) \/ CreateSession(a) \/ RefuseSession(a)
      PROVE  Settled'
  <2>1. Frame(a)
    BY <1>5, JulesFrames
  <2>2. /\ UNCHANGED <<accepted, rejecting>>
        /\ \/ returned' = returned /\ stage'[a] # "settle"
           \/ \E r \in Failing \cup {"ok"} : returned' = [returned EXCEPT ![a] = r]
    <3> USE <1>0 DEF Enters, Returns, Failing, rest, humanVars
    <3>1. CASE JulesChecks(a) \/ Look(a) \/ Uncommitted(a) \/ Adopt(a)
      BY <3>1 DEF JulesChecks, Look, Uncommitted, Adopt
    <3>2. CASE Ahead(a) \/ Publish(a) \/ CreateSession(a) \/ RefuseSession(a)
      BY <3>2 DEF Ahead, Publish, CreateSession, RefuseSession
    <3> QED BY <1>5, <3>1, <3>2
  <2> QED BY <1>2, <2>1, <2>2
<1>6. ASSUME NEW a \in Numbers, PassWork(a) PROVE Settled'
  BY <1>0, <1>6 DEF PassWork, Enters, Settled, Live, Begun, copyVars, humanVars
<1>7. ASSUME NEW a \in Numbers, Ending(a) PROVE Settled'
  <2> USE DEF Ending, FailKept, FailReset, ConcludeWork, KillAttempt, RejectWork, Finishes
  <2>1. /\ stage' = [stage EXCEPT ![a] = "over"] /\ returned' = [returned EXCEPT ![a] = "none"]
        /\ UNCHANGED <<ready, verified, humanVars, ghosts>> /\ stage[a] # "new"
    BY <1>7 DEF Leaves, Enters, jobVars, Live
  <2>2. task' \in {task, "idle", "READY"}
    BY <1>7 DEF jobVars
  <2>3. Live' \subseteq Live /\ Begun' = Begun
    BY <1>0, <2>1 DEF Live, Begun
  <2>4. \A b \in Numbers : stage'[b] = "settle" => returned'[b] \in Failing \cup {"ok"}
    BY <1>0, <2>1 DEF Settled
  <2> QED BY <2>1, <2>2, <2>3, <2>4 DEF Settled, humanVars
<1>8. ASSUME Elsewhere \/ AcceptCommit PROVE Settled'
  <2> USE DEF Elsewhere, RecoverWork, LanePushes, AcceptCheck, AcceptCommit, AcceptComplete,
              AcceptAborts, RejectCheck, RejectStore, LoseLease
  <2>1. UNCHANGED <<stage, returned, ready, verified>> /\ ghosts \subseteq ghosts'
    BY <1>8 DEF copyVars, jobVars, others
  <2>2. task' \in {task, "idle", "READY", "COMMITTED"}
    BY <1>8 DEF jobVars
  <2>3. /\ acceptor' \in {acceptor, "none", "checked", "committed"} /\ built' \in {built, tree, {}}
        /\ accepted' = accepted \/ accepted' \in ready
        /\ rejecting' \in {rejecting, TRUE, FALSE}
    BY <1>8 DEF humanVars
  <2>4. accepted' \in 0..MaxNumber
    <3>1. ready \subseteq 1..MaxNumber /\ MaxNumber \in Nat
      BY <1>0, TreeAssumption DEF Begun, Numbers
    <3>2. accepted \in 0..MaxNumber
      BY DEF Settled
    <3>3. 1..MaxNumber \subseteq 0..MaxNumber
      BY <3>1
    <3>4. accepted' = accepted \/ accepted' \in ready
      BY <2>3
    <3> QED BY <3>1, <3>2, <3>3, <3>4
  <2>5. Live' = Live /\ Begun' = Begun
    BY <2>1 DEF Live, Begun
  <2> QED BY <1>0, <2>1, <2>2, <2>3, <2>4, <2>5 DEF Settled
<1> QED BY <1>1, <1>3, <1>4, <1>5, <1>6, <1>7, <1>8 DEF TreeNext, Ending, Elsewhere

LEMMA ShapeInvariant == TreeSpec => [](TreeIInv /\ SeqInv /\ Tidy /\ Settled)
<1>1. TreeInit => Tidy /\ Settled
  <2>1. TreeInit => Live = {} /\ Begun = {}
    BY DEF TreeInit, Live, Begun
  <2>2. TreeInit => Tidy
    BY EmptyCommit, TreeAssumption DEF TreeInit, Tidy, Used
  <2>3. 0 \in 0..MaxNumber
    BY TreeAssumption
  <2>4. TreeInit => Settled
    BY <2>1, <2>3 DEF TreeInit, Settled
  <2> QED BY <2>2, <2>4
<1>2. TreeIInv /\ SeqInv /\ Tidy /\ Settled /\ [TreeNext]_treeVars => (Tidy /\ Settled)'
  <2>1. CASE TreeNext
    BY <2>1, TidyStep, SettledStep
  <2>2. CASE UNCHANGED treeVars
    BY <2>2 DEF treeVars, gitVars, copyVars, jobVars, humanVars, rest, Tidy, Settled, Commit,
       Used, Live, Begun
  <2> QED BY <2>1, <2>2
<1> QED BY <1>1, <1>2, TreeInitially, TreeStep, SeqInitially, SeqStep, PTL DEF TreeSpec

(* The worktree and the commits have only edits somebody made, none twice; one  *)
(* attempt that holds the lease is at work at a time; and only an attempt that   *)
(* was begun has a READY row (controller.py:940-1240, jules.py:135-203).         *)
THEOREM TreeTyped == TreeSpec => []TreeTypeOK
<1>1. TreeIInv /\ SeqInv /\ Tidy /\ Settled => TreeTypeOK
  <2> SUFFICES ASSUME TreeIInv, SeqInv, Tidy, Settled PROVE TreeTypeOK
    OBVIOUS
  <2>1. \A c \in ToSet(origin) : ToSet(c) \subseteq Edits
    <3> SUFFICES ASSUME NEW c \in ToSet(origin) PROVE ToSet(c) \subseteq Edits
      OBVIOUS
    <3>1. c \in Commits
      BY DEF ToSet, SeqInv
    <3> QED BY <3>1 DEF Commits, ToSet
  <2>2. Cardinality(Live \ ghosts) <= 1
    <3> DEFINE S == Live \ ghosts
    <3>1. \A a, b \in S : a = b
      BY DEF Settled
    <3> HIDE DEF S
    <3>2. S = {} => Cardinality(S) <= 1
      BY FS_EmptySet
    <3>3. ASSUME S # {} PROVE Cardinality(S) <= 1
      <4>1. PICK x : S = {x}
        BY <3>1, <3>3
      <4>2. Cardinality({x}) = 1
        BY FS_Singleton
      <4> QED BY <4>1, <4>2
    <3> QED BY <3>2, <3>3 DEF S
  <2> QED BY <2>1, <2>2 DEF TreeTypeOK, TreeIInv, Shape, SeqInv, Tidy, Settled
<1> QED BY <1>1, ShapeInvariant, PTL
=============================================================================
