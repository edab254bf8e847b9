-------------------------- MODULE Attempts_proofs --------------------------
(***************************************************************************)
(* One attempt, for any limits: how it is admitted (Admission) and how the *)
(* bash executor's loop runs it (AgentLoop).  The two share no state; each *)
(* has an invariant of its own, AInv and LoopInv, that carries all of its  *)
(* theorems: AInv, which attempt a worker is on, that the rows of a        *)
(* resource fit it, and what a decision was vetted for; LoopInv, what a    *)
(* turn may still use, what a result tells, and which calls are open.      *)
(***************************************************************************)
EXTENDS AgentLoop, Admission, FiniteSetTheorems, FunctionTheorems, SequenceTheorems, TLAPS

-----------------------------------------------------------------------------
(* AgentLoop *)

InTurn == doing \in {"reply", "run"}

\* The types, with what a turn that is under way may still use.
Counted ==
  /\ doing \in {"ask", "reply", "run", "return", "ended"}
  /\ turn \in 0..MaxTurns /\ (InTurn => turn < MaxTurns)
  /\ reply \in [says : Says, call : BOOLEAN]
  /\ bound \in {"none", "now", "old"}
  /\ counts \in [Commands -> Nat]
  /\ \A c \in Commands :
       counts[c] <= (IF doing \in {"return", "ended"} THEN RepeatLimit + 1 ELSE RepeatLimit)
  /\ doing = "run" => command \in Commands /\ counts[command] >= 1
  /\ idle \in Nat /\ idle <= (IF doing \in {"return", "ended"} THEN turn + 1 ELSE turn)
  /\ tokens \in Nat /\ accounted \in Nat /\ open \in Nat /\ stray \in Nat
  /\ result \in Reports
  /\ action \in {"none", "verify", "same", "alternate", "requeue", "block"}

\* What a result tells: all tokens, or none after a call that could not be used.
Silent ==
  /\ result.told = 0 /\ result.outcome \in {"PROTOCOL", "CRASH"}
  /\ reply.says \in {"invalid", "crashing", "research"}
Told ==
  /\ tokens = accounted
  /\ doing \in {"return", "ended"} => result.told = tokens \/ Silent

\* Between requests no call is open; within a turn at most the reply's own.
Paired ==
  /\ reply.says = "noise" => ~reply.call
  /\ InTurn => (bound = "now" <=> reply.call) /\ (reply.call => open >= 1)
  /\ ~odd => /\ stray = 0
             /\ doing = "ask" => open = 0
             /\ InTurn => open = (IF reply.call THEN 1 ELSE 0)

LoopInv == Counted /\ Told /\ Paired

LEMMA LimitsAreNumbers ==
  MaxTurns \in Nat /\ RepeatLimit \in Nat /\ IdleLimit \in Nat /\ TokenLimit \in Nat
BY LoopAssumption

\* Whatever the model says is one of the replies the loop tells apart.
LEMMA SpokenIsReply ==
  \A r \in Spoken : r \in [says : Says, call : BOOLEAN] /\ (r.says = "noise" => ~r.call)
<1>1. NoReply \in [says : Says, call : BOOLEAN]
  BY DEF NoReply, Says
<1>2. [says : Says \ {"invalid", "crashing", "noise"}, call : BOOLEAN]
        \subseteq [says : Says, call : BOOLEAN]
  OBVIOUS
<1>3. [says : {"invalid", "crashing"}, call : {TRUE}] \subseteq [says : Says, call : BOOLEAN]
  BY DEF Says
<1>4. ASSUME NEW r \in Spoken, r # NoReply PROVE r.says = "noise" => ~r.call
  BY <1>4 DEF Spoken
<1> QED
  BY <1>1, <1>2, <1>3, <1>4 DEF Spoken, NoReply

\* The invariant gives the type invariant and the pairing of calls.
LEMMA LoopInvImplies == LoopInv => LoopTypeOK /\ CallsAnswered
BY LimitsAreNumbers DEF LoopInv, Counted, Told, Paired, LoopTypeOK, CallsAnswered, InTurn

-----------------------------------------------------------------------------

\* The loop starts in it.
LEMMA LoopBegins == LoopInit => LoopInv
<1> SUFFICES ASSUME LoopInit PROVE LoopInv
  OBVIOUS
<1> USE LimitsAreNumbers DEF LoopInit, InTurn
<1>1. reply \in [says : Says, call : BOOLEAN]
  BY DEF NoReply, Says
<1>2. result \in Reports
  BY DEF NoResult, Reports, Outcomes
<1>3. Counted
  <2>1. /\ counts \in [Commands -> Nat] /\ \A c \in Commands : counts[c] = 0
        /\ doing = "ask" /\ turn = 0 /\ idle = 0
    OBVIOUS
  <2>2. action = "none" /\ bound = "none"
    OBVIOUS
  <2>3. tokens = 0 /\ accounted = 0 /\ open = 0 /\ stray = 0
    OBVIOUS
  <2> QED
    BY <1>1, <1>2, <2>1, <2>2, <2>3, LimitsAreNumbers DEF Counted
<1>4. Told
  BY DEF Told
<1>5. Paired
  BY DEF Paired, NoReply
<1> QED
  BY <1>3, <1>4, <1>5 DEF LoopInv

\* A request that is answered.
LEMMA AskKeeps ==
  ASSUME LoopInv, NEW r \in Spoken, NEW n \in 0..1, AskModel(r, n)
  PROVE  LoopInv'
<1>1. r \in [says : Says, call : BOOLEAN] /\ (r.says = "noise" => ~r.call)
  BY SpokenIsReply
<1> USE LimitsAreNumbers DEF LoopInv, AskModel, InTurn
<1>2. Counted'
  BY <1>1 DEF Counted, limits
<1>3. Told'
  BY DEF Told, Counted
<1>4. Paired'
  <2>1. PICK several \in (IF r.call THEN BOOLEAN ELSE {FALSE}) :
          /\ open' = open + (IF several THEN 2 ELSE IF r.call THEN 1 ELSE 0)
          /\ odd' = (odd \/ several)
    OBVIOUS
  <2>2. doing' = "reply" /\ reply' = r /\ stray' = stray /\ r.call \in BOOLEAN
    BY <1>1
  <2>3. bound' = "now" <=> r.call
    BY <2>2
  <2>4. ASSUME ~odd' PROVE stray' = 0 /\ open' = (IF r.call THEN 1 ELSE 0)
    <3>1. ~odd /\ ~several
      BY <2>1, <2>4, Zenon
    <3>2. doing = "ask" /\ stray = 0 /\ open = 0
      BY <3>1 DEF Paired
    <3> QED
      BY <2>1, <2>2, <3>1, <3>2
  <2>5. r.call => open' >= 1
    BY <2>1, <2>2 DEF Counted
  <2> QED
    BY <1>1, <2>2, <2>3, <2>4, <2>5 DEF Paired
<1> QED
  BY <1>2, <1>3, <1>4

\* A step that returns a result keeps it, if what it tells is right.
LEMMA ReturnKeeps ==
  ASSUME LoopInv, NEW o \in Outcomes, NEW told \in Nat, ReturnWith(o, told),
         reply' = reply, bound' = bound, tokens' = tokens, action' = action,
         accounted' = accounted, open' = open, stray' = stray, odd' = odd,
         idle' \in Nat, idle' <= turn + 1,
         counts' \in [Commands -> Nat],
         \A c \in Commands : counts'[c] <= RepeatLimit + 1,
         \/ told = tokens
         \/ told = 0 /\ o \in {"PROTOCOL", "CRASH"}
                     /\ reply.says \in {"invalid", "crashing", "research"}
  PROVE  LoopInv'
<1> USE LimitsAreNumbers DEF LoopInv, ReturnWith, InTurn
<1>1. Counted'
  BY DEF Counted, Reports
<1>2. Told'
  BY DEF Told, Silent, Counted
<1>3. Paired'
  BY DEF Paired
<1> QED
  BY <1>1, <1>2, <1>3

\* A turn that ends with the next one ahead keeps it, if no call is left open.
LEMMA TurnKeeps ==
  ASSUME LoopInv, InTurn, NextTurn,
         reply' = reply, bound' = bound, counts' = counts, tokens' = tokens,
         action' = action, accounted' = accounted, idle' \in Nat, idle' <= turn + 1, open' \in Nat, stray' \in Nat,
         ~odd' => open' = 0 /\ stray' = 0
  PROVE  LoopInv'
<1> USE LimitsAreNumbers DEF LoopInv, NextTurn, InTurn
<1>1. Counted'
  BY DEF Counted
<1>2. Told'
  BY DEF Told
<1>3. Paired'
  BY DEF Paired
<1> QED
  BY <1>1, <1>2, <1>3

\* What the loop makes of a reply.
LEMMA ReplyKeeps ==
  ASSUME LoopInv,
         \/ InvalidCall \/ CrashingCall \/ Noise \/ SaysDone \/ Research
         \/ ResearchCrash \/ OddAction \/ \E c \in Commands : Count(c)
  PROVE  LoopInv'
<1>1. /\ doing = "reply" /\ InTurn /\ tokens \in Nat /\ idle \in Nat /\ idle <= turn
      /\ turn \in Nat /\ open \in Nat /\ stray \in Nat
      /\ counts \in [Commands -> Nat] /\ \A c \in Commands : counts[c] <= RepeatLimit
  BY LimitsAreNumbers DEF InvalidCall, CrashingCall, Noise, SaysDone, Research, ResearchCrash,
     OddAction, Count, Said, LoopInv, Counted, InTurn
<1>2. {"PROTOCOL", "CRASH", "SUCCESS", "EXECUTOR"} \subseteq Outcomes
  BY DEF Outcomes
<1>3. /\ reply.call \in BOOLEAN /\ (bound = "now" <=> reply.call)
      /\ reply.call => open >= 1
      /\ ~odd => stray = 0 /\ open = (IF reply.call THEN 1 ELSE 0)
  BY <1>1 DEF LoopInv, Counted, Paired
<1>4. \A c \in Commands : counts[c] <= RepeatLimit + 1
  BY <1>1, LimitsAreNumbers
<1>5. ASSUME InvalidCall PROVE LoopInv'
  BY <1>1, <1>2, <1>4, <1>5, ReturnKeeps DEF InvalidCall, Said, limits, talk
<1>6. ASSUME CrashingCall PROVE LoopInv'
  BY <1>1, <1>2, <1>4, <1>6, ReturnKeeps DEF CrashingCall, Said, limits, talk
<1>7. ASSUME Noise PROVE LoopInv'
  <2>1. ~reply.call
    BY <1>7 DEF Noise, Said, LoopInv, Paired
  <2>2. odd' = odd /\ open' = open /\ stray' = stray
    BY <1>7 DEF Noise, talk
  <2>3. ~odd' => open' = 0 /\ stray' = 0
    BY <1>3, <2>1, <2>2
  <2> QED
    BY <1>1, <1>7, <2>2, <2>3, TurnKeeps DEF Noise, limits
<1>8. ASSUME SaysDone PROVE LoopInv'
  BY <1>1, <1>2, <1>4, <1>8, ReturnKeeps DEF SaysDone, limits, talk
<1>9. ASSUME Research PROVE LoopInv'
  <2>1. CASE bound = "now"
    <3>1. odd' = odd /\ open' = open - 1 /\ stray' = stray
      BY <1>9, <2>1 DEF Research
    <3>2. ~odd' => open' = 0 /\ stray' = 0
      BY <1>3, <2>1, <3>1
    <3>3. open' \in Nat
      BY <1>1, <1>3, <2>1, <3>1
    <3> QED
      BY <1>1, <1>9, <3>1, <3>2, <3>3, TurnKeeps DEF Research, limits
  <2>2. CASE bound # "now"
    <3>1. odd' /\ open' = open /\ stray' = stray + 1
      BY <1>9, <2>2 DEF Research
    <3> QED
      BY <1>1, <1>9, <3>1, TurnKeeps DEF Research, limits
  <2> QED
    BY <2>1, <2>2
<1>10. ASSUME ResearchCrash PROVE LoopInv'
  BY <1>1, <1>2, <1>4, <1>10, ReturnKeeps DEF ResearchCrash, Said, limits, talk
<1>11. ASSUME OddAction PROVE LoopInv'
  <2>1. ~odd' => ~odd /\ ~reply.call
    BY <1>11, Zenon DEF OddAction
  <2> QED
    BY <1>1, <1>3, <1>11, <2>1, TurnKeeps DEF OddAction, limits, talk
<1>12. ASSUME NEW c \in Commands, Count(c) PROVE LoopInv'
  <2>1. counts' \in [Commands -> Nat] /\ \A d \in Commands : counts'[d] <= RepeatLimit + 1
    BY <1>1, <1>4, <1>12, LimitsAreNumbers DEF Count
  <2>2. CASE counts[c] + 1 > RepeatLimit
    BY <1>1, <1>2, <1>12, <2>1, <2>2, ReturnKeeps DEF Count, talk
  <2>3. CASE ~(counts[c] + 1 > RepeatLimit)
    <3>1. /\ doing' = "run" /\ command' = c /\ turn' = turn /\ result' = result
          /\ UNCHANGED <<reply, bound, idle, tokens, action, accounted, open, stray, odd>>
      BY <1>12, <2>3 DEF Count, talk
    <3>2. \A d \in Commands : counts'[d] <= RepeatLimit
      BY <1>1, <1>12, <2>3, LimitsAreNumbers DEF Count
    <3>3. counts'[c] >= 1
      BY <1>1, <1>12 DEF Count
    <3>4. Counted'
      BY <1>1, <2>1, <3>1, <3>2, <3>3 DEF LoopInv, Counted, InTurn
    <3>5. Told' /\ Paired'
      BY <1>1, <3>1 DEF LoopInv, Told, Paired, InTurn
    <3> QED
      BY <3>4, <3>5 DEF LoopInv
  <2> QED
    BY <2>2, <2>3
<1> QED
  BY <1>5, <1>6, <1>7, <1>8, <1>9, <1>10, <1>11, <1>12

\* What comes of a command.
LEMMA CommandKeeps ==
  ASSUME LoopInv,
         ToolError \/ (\E d \in 0..1 : Observe(d)) \/ (\E o \in Outcomes : Stopped(o))
  PROVE  LoopInv'
<1>1. /\ doing = "run" /\ InTurn /\ tokens \in Nat /\ idle \in Nat /\ idle <= turn
      /\ turn \in Nat /\ open \in Nat /\ stray \in Nat
      /\ counts \in [Commands -> Nat] /\ \A c \in Commands : counts[c] <= RepeatLimit + 1
  BY LimitsAreNumbers DEF ToolError, Observe, Stopped, LoopInv, Counted, InTurn
<1>2. {"EXECUTOR", "TIMEOUT", "RESOURCE", "POLICY", "SECURITY"} \subseteq Outcomes
  BY DEF Outcomes
<1>3. /\ reply.call \in BOOLEAN /\ (reply.call => open >= 1)
      /\ ~odd => stray = 0 /\ open = (IF reply.call THEN 1 ELSE 0)
  BY <1>1 DEF LoopInv, Counted, Paired
<1>4. ASSUME AnswersCall, odd' = odd, stray' = stray
      PROVE  open' \in Nat /\ stray' \in Nat /\ (~odd' => open' = 0 /\ stray' = 0)
  BY <1>1, <1>3, <1>4 DEF AnswersCall
<1>5. ASSUME ToolError PROVE LoopInv'
  BY <1>1, <1>4, <1>5, TurnKeeps DEF ToolError, limits
<1>6. ASSUME NEW d \in 0..1, Observe(d) PROVE LoopInv'
  <2>1. /\ idle' \in Nat /\ idle' <= turn + 1
        /\ UNCHANGED <<reply, bound, counts, tokens, action, accounted, stray, odd>>
    BY <1>1, <1>6 DEF Observe
  <2>2. CASE ReturnWith("EXECUTOR", tokens) /\ UNCHANGED open
    BY <1>1, <1>2, <2>1, <2>2, ReturnKeeps
  <2>3. CASE NextTurn /\ AnswersCall
    BY <1>1, <1>4, <2>1, <2>3, TurnKeeps
  <2> QED
    BY <1>6, <2>2, <2>3 DEF Observe
<1>7. ASSUME NEW o \in Outcomes, Stopped(o) PROVE LoopInv'
  BY <1>1, <1>7, ReturnKeeps DEF Stopped, limits, talk
<1> QED
  BY <1>5, <1>6, <1>7

\* Every step keeps the invariant.
LEMMA LoopStep == LoopInv /\ [LoopNext]_loopVars => LoopInv'
<1> SUFFICES ASSUME LoopInv, [LoopNext]_loopVars PROVE LoopInv'
  OBVIOUS
<1>1. /\ tokens \in Nat /\ idle \in Nat /\ idle <= (IF doing \in {"return", "ended"} THEN turn + 1 ELSE turn)
      /\ turn \in Nat /\ counts \in [Commands -> Nat]
      /\ \A c \in Commands : counts[c] <= RepeatLimit + 1
  BY LimitsAreNumbers DEF LoopInv, Counted
<1>2. ASSUME NEW o \in {"PROVIDER", "RATE_LIMIT", "TIMEOUT", "PROTOCOL", "POLICY"}, AskFails(o)
      PROVE  LoopInv'
  <2>1. o \in Outcomes /\ doing = "ask"
    BY <1>2 DEF AskFails, Outcomes
  <2> QED
    BY <1>1, <1>2, <2>1, ReturnKeeps DEF AskFails, limits, talk
<1>3. ASSUME TurnsOver PROVE LoopInv'
  <2>1. PICK o \in Outcomes : ReturnWith(o, tokens)
    BY <1>3 DEF TurnsOver, Outcomes
  <2> QED
    BY <1>1, <1>3, <2>1, ReturnKeeps DEF TurnsOver, limits, talk
<1>4. ASSUME Conclude PROVE LoopInv'
  <2>1. Policy(result.outcome) \in {"verify", "same", "requeue", "block", "alternate"}
    BY DEF Policy
  <2>2. Counted'
    BY <1>4, <2>1 DEF Conclude, limits, talk, LoopInv, Counted, InTurn
  <2>3. Told' /\ Paired'
    BY <1>4 DEF Conclude, limits, talk, LoopInv, Told, Silent, Paired, InTurn
  <2> QED
    BY <2>2, <2>3 DEF LoopInv
<1>5. CASE UNCHANGED loopVars
  BY <1>5 DEF loopVars, LoopInv, Counted, Told, Silent, Paired, InTurn
<1> QED
  BY <1>2, <1>3, <1>4, <1>5, AskKeeps, ReplyKeeps, CommandKeeps DEF LoopNext

\* For any limits and commands the loop's counters stay within them.
THEOREM LoopTypeCorrect == LoopSpec => []LoopTypeOK
<1>1. LoopInv => LoopTypeOK
  BY LoopInvImplies
<1> QED
  BY <1>1, LoopBegins, LoopStep, PTL DEF LoopSpec

\* For any limits and commands, every request's conversation answers each call
\* once, as long as replies keep to one call with an action.
THEOREM EveryCallAnswered == LoopSpec => []CallsAnswered
<1>1. LoopInv => CallsAnswered
  BY LoopInvImplies
<1> QED
  BY <1>1, LoopBegins, LoopStep, PTL DEF LoopSpec

-----------------------------------------------------------------------------

\* What the controller has decided follows from the result it was told.
Concluded ==
  doing = "ended" =>
    action = (IF accounted # result.told THEN "block" ELSE Policy(result.outcome))

\* Only the controller ends the loop, by that rule.
LEMMA ConcludedStep == Concluded /\ [LoopNext]_loopVars => Concluded'
<1> SUFFICES ASSUME Concluded, [LoopNext]_loopVars PROVE Concluded'
  OBVIOUS
<1>1. ASSUME NEW o, NEW told, ReturnWith(o, told) PROVE doing' # "ended"
  BY <1>1 DEF ReturnWith
<1>2. ASSUME NextTurn PROVE doing' # "ended"
  BY <1>2 DEF NextTurn
<1>3. ASSUME NEW r, NEW n, AskModel(r, n) PROVE doing' # "ended"
  BY <1>3 DEF AskModel
<1>4. ASSUME Conclude PROVE Concluded'
  BY <1>4 DEF Conclude, Concluded
<1>5. CASE UNCHANGED loopVars
  BY <1>5 DEF loopVars, Concluded
<1>6. ASSUME NEW o, AskFails(o) \/ TurnsOver \/ Stopped(o) PROVE doing' # "ended"
  BY <1>1, <1>6 DEF AskFails, TurnsOver, Stopped
<1>7. ASSUME InvalidCall \/ CrashingCall \/ Noise \/ SaysDone \/ Research \/ ResearchCrash
             \/ OddAction \/ ToolError
      PROVE  doing' # "ended"
  BY <1>1, <1>2, <1>7
     DEF InvalidCall, CrashingCall, Noise, SaysDone, Research, ResearchCrash, OddAction, ToolError
<1>8. ASSUME NEW c, Count(c) PROVE doing' # "ended"
  BY <1>1, <1>8 DEF Count
<1>9. ASSUME NEW d, Observe(d) PROVE doing' # "ended"
  BY <1>1, <1>2, <1>9 DEF Observe
<1> QED
  BY <1>3, <1>4, <1>5, <1>6, <1>7, <1>8, <1>9 DEF LoopNext, Concluded

\* For any limits and commands, a job is blocked for its tokens only by a call
\* that could not be used, and a success tells them all.
THEOREM TokensAreTold == LoopSpec => []TokensTold
<1>1. LoopInit => Concluded
  BY DEF LoopInit, Concluded
<1>2. LoopInv /\ Concluded => TokensTold
  <2> SUFFICES ASSUME LoopInv, Concluded, doing = "ended"
               PROVE  /\ action = "verify" => result.told = accounted
                      /\ action = "block" /\ Policy(result.outcome) # "block" =>
                           /\ result.outcome \in {"PROTOCOL", "CRASH"} /\ accounted > 0
                           /\ reply.says \in {"invalid", "crashing", "research"}
    BY DEF TokensTold
  <2>1. action = (IF accounted # result.told THEN "block" ELSE Policy(result.outcome))
    BY DEF Concluded
  <2>2. accounted # result.told => Silent /\ accounted > 0
    BY DEF LoopInv, Told, Counted, Silent
  <2> QED
    BY <2>1, <2>2 DEF Silent
<1> QED
  BY <1>1, <1>2, LoopBegins, LoopStep, ConcludedStep, PTL DEF LoopSpec

-----------------------------------------------------------------------------
(* Admission: its invariant *)

Begun(w) == place[w] \in {"reserve", "run", "settle"}

\* The types AdmissionTypeOK leaves out.
Row == [by : Workers \cup {NoOne}, fresh : BOOLEAN, need : 0..Capacity]
Typed ==
  /\ given \in [Jobs -> Seq(Candidates)] /\ running \in [Jobs -> SUBSET Nat]
  /\ candidate \in [Workers -> Candidates \cup {NoCandidate}]
  /\ same \in [Workers -> Candidates \cup {NoCandidate}]
  /\ total \in [Workers -> Nat]
  /\ resource \in [Keys -> [Jobs -> Row]]

\* A worker's attempt is on record, and no two workers of a job work on the
\* same one.
Recorded ==
  /\ \A w \in Workers : Begun(w) => total[w] < Len(given[Duty[w]])
  /\ \A v, w \in Workers :
       v # w /\ Duty[v] = Duty[w] /\ Begun(v) /\ Begun(w) => total[v] # total[w]

\* All rows of a resource fit it together, those that have expired, too, for
\* these may be renewed; and a worker that kept its lease has its row.
Leased ==
  /\ \A w \in Workers \ (late \cup robbed) :
       place[w] = "run" =>
         Own(w) = [by |-> w, fresh |-> TRUE, need |-> Need[candidate[w]]]
  /\ \A k \in Keys :
       /\ Booked(k, Leases(k)) <= Capacity
       /\ \A i, j \in Leases(k) :
            resource[k][i].need = 0 /\ resource[k][j].need = 0 => i = j

\* A worker that was never deposed owns its job, and until one is deposed no
\* worker finds another's row in the place of its own.
Owned ==
  /\ \A w \in Workers :
       place[w] \notin {"idle", "dead"} => owner[Duty[w]] = w \/ w \in deposed
  /\ deposed = {} =>
       /\ robbed = {}
       /\ \A w \in Workers : place[w] = "run" => Own(w).by \in {w, NoOne}

\* What Available found holds until the attempt begins, but for the workers in
\* unchecked; an attempt of a job's owner is among the RUNNING rows.
Checked(w) ==
  /\ Cardinality(Attempts(candidate[w])) < Concurrent[candidate[w]]
  /\ candidate[w] \in Single =>
       \A d \in Candidates : KeyOf[d] = KeyOf[candidate[w]] => Attempts(d) = {}
Vetted ==
  /\ \A w \in Workers :
       /\ Begun(w) /\ owner[Duty[w]] = w => total[w] + 1 \in running[Duty[w]]
       /\ place[w] = "begin" /\ w \notin unchecked => Checked(w)
  /\ \A c \in Candidates :
       /\ Cardinality(Active({c}) \ unchecked) <= Concurrent[c]
       /\ \A v, w \in Active({d \in Single : KeyOf[d] = KeyOf[c]}) \ unchecked :
            v = w

AInv == AdmissionTypeOK /\ Typed /\ Recorded /\ Leased /\ Owned /\ Vetted

-----------------------------------------------------------------------------
(* Sums: the units under the graph of a function of numbers *)

Units(amount) == UNION {{x} \X (1..amount[x]) : x \in DOMAIN amount}

\* What SumOf counts: a pair for each unit of each element.
LEMMA UnitsOf ==
  ASSUME NEW S, NEW f, DOMAIN f = S
  PROVE  /\ SumOf(f) = Cardinality(Units(f))
         /\ \A u : u \in Units(f) <=>
                  u = <<u[1], u[2]>> /\ u[1] \in S /\ u[2] \in 1..f[u[1]]
  BY DEF Units, SumOf

\* A sum over a finite set is a number.
LEMMA SumOfNat ==
  ASSUME NEW S, IsFiniteSet(S), NEW N \in Nat, NEW f \in [S -> 0..N]
  PROVE  IsFiniteSet(Units(f)) /\ SumOf(f) \in Nat
<1>0. IsFiniteSet(1..N)
  BY FS_Interval
<1>1. IsFiniteSet(S \X (1..N))
  BY <1>0, FS_Product, Zenon
<1>2. Units(f) \subseteq S \X (1..N)
  <2> SUFFICES ASSUME NEW u \in Units(f) PROVE u \in S \X (1..N)
    OBVIOUS
  <2>1. u = <<u[1], u[2]>> /\ u[1] \in S /\ u[2] \in 1..f[u[1]]
    BY UnitsOf
  <2> QED BY <2>1
<1>3. IsFiniteSet(Units(f))
  BY <1>1, <1>2, FS_Subset
<1> QED BY <1>3, FS_CardinalityType DEF Units, SumOf

\* Elements that stand for different elements with at least as much sum up to
\* at most as much.
LEMMA SumOfInjects ==
  ASSUME NEW S, NEW T, IsFiniteSet(T), NEW N \in Nat,
         NEW f \in [S -> Nat], NEW g \in [T -> 0..N], NEW h \in [S -> T],
         \A x, y \in S : h[x] = h[y] => x = y,
         \A x \in S : f[x] <= g[h[x]]
  PROVE  SumOf(f) <= SumOf(g)
<1> DEFINE m == [u \in Units(f) |-> <<h[u[1]], u[2]>>]
<1>1. m \in [Units(f) -> Units(g)]
  <2> SUFFICES ASSUME NEW u \in Units(f) PROVE <<h[u[1]], u[2]>> \in Units(g)
    OBVIOUS
  <2>1. u[1] \in S /\ u[2] \in 1..f[u[1]]
    BY UnitsOf
  <2>2. h[u[1]] \in T /\ u[2] \in 1..g[h[u[1]]]
    BY <2>1
  <2> QED BY <2>2, UnitsOf
<1>2. ASSUME NEW u \in Units(f), NEW v \in Units(f), m[u] = m[v]
      PROVE  u = v
  <2>1. u = <<u[1], u[2]>> /\ u[1] \in S
    BY UnitsOf
  <2>2. v = <<v[1], v[2]>> /\ v[1] \in S
    BY UnitsOf
  <2>3. h[u[1]] = h[v[1]] /\ u[2] = v[2]
    BY <1>2
  <2> QED BY <2>1, <2>2, <2>3
<1>3. m \in Injection(Units(f), Units(g))
  <2> HIDE DEF m
  <2> QED BY <1>1, <1>2, Fun_IsInj
<1> QED BY <1>3, SumOfNat, FS_Injection DEF Units, SumOf

\* One more element adds its amount.
LEMMA SumOfAdds ==
  ASSUME NEW T, IsFiniteSet(T), NEW N \in Nat, NEW g \in [T -> 0..N],
         NEW x \in T, NEW f \in [T \ {x} -> 0..N], \A y \in T \ {x} : f[y] = g[y]
  PROVE  SumOf(g) = SumOf(f) + g[x]
<1> DEFINE n == g[x]
           S == T \ {x}
<1>1. /\ DOMAIN g = S \cup {x} /\ g[x] = n /\ n \in Nat /\ \A y \in S : g[y] = f[y]
      /\ f \in [S -> 0..N] /\ x \notin S
  OBVIOUS
<1>0. IsFiniteSet(S)
  BY FS_Subset
<1> HIDE DEF n, S
<1>2. Units(g) = Units(f) \cup ({x} \X (1..n))
  <2>1. ASSUME NEW u PROVE u \in Units(g) <=> u \in Units(f) \cup ({x} \X (1..n))
    <3>1. u \in Units(g) <=> u = <<u[1], u[2]>> /\ u[1] \in S \cup {x} /\ u[2] \in 1..g[u[1]]
      BY <1>1, UnitsOf
    <3>2. u \in Units(f) <=> u = <<u[1], u[2]>> /\ u[1] \in S /\ u[2] \in 1..f[u[1]]
      BY <1>1, UnitsOf
    <3>3. u \in {x} \X (1..n) <=> u = <<u[1], u[2]>> /\ u[1] = x /\ u[2] \in 1..n
      OBVIOUS
    <3> QED BY <3>1, <3>2, <3>3, <1>1
  <2> QED BY <2>1
<1>3. Units(f) \cap ({x} \X (1..n)) = {}
  <2> SUFFICES ASSUME NEW u \in Units(f), u \in {x} \X (1..n) PROVE FALSE
    OBVIOUS
  <2>1. u[1] \in S /\ u[1] = x
    BY <1>1, UnitsOf
  <2> QED BY <1>1, <2>1
<1>4. IsFiniteSet({x} \X (1..n)) /\ Cardinality({x} \X (1..n)) = n
  <2>1. /\ IsFiniteSet({x}) /\ Cardinality({x}) = 1
        /\ IsFiniteSet(1..n) /\ Cardinality(1..n) = n
    <3>1. IsFiniteSet({x}) /\ Cardinality({x}) = 1
      BY FS_Singleton, Zenon
    <3>2. /\ IsFiniteSet(1..n)
          /\ Cardinality(1..n) = IF 1 > n THEN 0 ELSE n - 1 + 1
      BY <1>1, FS_Interval
    <3> QED BY <1>1, <3>1, <3>2
  <2>2. /\ IsFiniteSet({x} \X (1..n))
        /\ Cardinality({x} \X (1..n)) = Cardinality({x}) * Cardinality(1..n)
    BY <2>1, FS_Product, Zenon
  <2> QED BY <1>1, <2>1, <2>2
<1>5. IsFiniteSet(Units(f)) /\ Cardinality(Units(f)) \in Nat
  BY <1>0, <1>1, SumOfNat, UnitsOf
<1>6. Cardinality(Units(g)) = Cardinality(Units(f)) + n
  <2>1. Cardinality(Units(g)) = Cardinality(Units(f)) + Cardinality({x} \X (1..n))
                               - Cardinality(Units(f) \cap ({x} \X (1..n)))
    <3> DEFINE P == {x} \X (1..n)
    <3>1. IsFiniteSet(P) /\ IsFiniteSet(Units(f)) /\ Units(g) = Units(f) \cup P
      BY <1>2, <1>4, <1>5
    <3> HIDE DEF P
    <3>2. Cardinality(Units(f) \cup P) =
            Cardinality(Units(f)) + Cardinality(P) - Cardinality(Units(f) \cap P)
      BY <3>1, FS_Union
    <3> QED BY <3>1, <3>2 DEF P
  <2>2. Cardinality(Units(f) \cap ({x} \X (1..n))) = 0
    BY <1>3, FS_EmptySet
  <2>3. Cardinality({x} \X (1..n)) = n /\ Cardinality(Units(f)) \in Nat
    BY <1>4, <1>5
  <2> QED BY <1>1, <2>1, <2>2, <2>3
<1>7. SumOf(g) = Cardinality(Units(g)) /\ SumOf(f) = Cardinality(Units(f))
  BY DEF Units, SumOf
<1> QED BY <1>1, <1>6, <1>7

\* Overwriting one row of the leases leaves all the others.
LEMMA RowWritten ==
  ASSUME NEW R \in [Keys -> [Jobs -> Row]], NEW k \in Keys, NEW j \in Jobs,
         NEW r \in Row, NEW S, S = [R EXCEPT ![k][j] = r]
  PROVE  /\ S \in [Keys -> [Jobs -> Row]]
         /\ \A h \in Keys, i \in Jobs :
              S[h][i] = IF h = k /\ i = j THEN r ELSE R[h][i]
  OBVIOUS

\* The sweep keeps what is unexpired and clears the rest.
LEMMA SweptRows ==
  ASSUME resource \in [Keys -> [Jobs -> Row]]
  PROVE  /\ Swept \in [Keys -> [Jobs -> Row]]
         /\ \A h \in Keys, i \in Jobs :
              Swept[h][i] = IF resource[h][i].fresh THEN resource[h][i] ELSE NoLease
<1>1. NoLease \in Row
  BY AdmissionAssumption DEF Row, NoLease
<1>2. \A h \in Keys, i \in Jobs : resource[h][i] \in Row
  OBVIOUS
<1> QED BY <1>1, <1>2 DEF Swept

\* What a worker may do.
Acts(w) ==
  \/ TakeJob(w) \/ LeaveJob(w) \/ Exhausted(w) \/ Follow(w) \/ RetrySame(w) \/ NobodyAvailable(w)
  \/ BeginRow(w) \/ RowTaken(w) \/ Reserve(w) \/ RowStays(w) \/ Refuse(w)
  \/ RenewResource(w) \/ Settle(w) \/ KillWorker(w) \/ LoseJob(w) \/ ExpireResource(w)
  \/ \E c \in Candidates : Choose(w, c)
  \/ \E f \in Fates : ReleaseResource(w, f)

\* The lease a worker looks at is that of a key and a job.
LEMMA OwnInRange ==
  ASSUME AdmissionTypeOK, Typed, NEW w \in Workers,
         Begun(w) \/ candidate[w] # NoCandidate
  PROVE  /\ candidate[w] \in Candidates /\ KeyOf[candidate[w]] \in Keys
         /\ Duty[w] \in Jobs /\ Own(w) \in Row
         /\ Need[candidate[w]] \in Nat
<1>1. candidate[w] \in Candidates
  BY DEF AdmissionTypeOK, Typed, Begun
<1> QED BY <1>1, AdmissionAssumption DEF Typed, Own

\* The units booked on a key are a number.
LEMMA BookedNat ==
  ASSUME Typed, NEW k \in Keys, NEW rows \in SUBSET Jobs
  PROVE  /\ IsFiniteSet(rows) /\ Booked(k, rows) \in Nat
         /\ [j \in rows |-> resource[k][j].need] \in [rows -> 0..Capacity]
<1>1. IsFiniteSet(rows)
  BY AdmissionAssumption, FS_Subset
<1>2. [j \in rows |-> resource[k][j].need] \in [rows -> 0..Capacity]
  BY DEF Typed, Row
<1> QED BY <1>1, <1>2, AdmissionAssumption, SumOfNat DEF Booked

\* Who finds room needs no more than there is.
LEMMA RoomFits ==
  ASSUME AdmissionTypeOK, Typed, NEW w \in Workers, place[w] = "reserve", Room(w)
  PROVE  Need[candidate[w]] \in 0..Capacity
<1>1. KeyOf[candidate[w]] \in Keys /\ Need[candidate[w]] \in Nat
  BY OwnInRange DEF Begun
<1>2. Booked(KeyOf[candidate[w]], Unexpired(KeyOf[candidate[w]])) \in Nat
  BY <1>1, BookedNat DEF Unexpired, Leases
<1> QED BY <1>1, <1>2, AdmissionAssumption DEF Room

\* What a reservation leaves of the leases, row by row.
LEMMA ReserveRows ==
  ASSUME AdmissionTypeOK, Typed, NEW w \in Workers, Reserve(w)
  PROVE  /\ resource' \in [Keys -> [Jobs -> Row]]
         /\ \A h \in Keys, i \in Jobs :
              resource'[h][i] =
                IF h = KeyOf[candidate[w]] /\ i = Duty[w]
                THEN [by |-> w, fresh |-> TRUE, need |-> Need[candidate[w]]]
                ELSE IF resource[h][i].fresh THEN resource[h][i] ELSE NoLease
<1> DEFINE new == [by |-> w, fresh |-> TRUE, need |-> Need[candidate[w]]]
<1>1. KeyOf[candidate[w]] \in Keys /\ Duty[w] \in Jobs
  BY OwnInRange DEF Reserve, Begun
<1>2. new \in Row
  BY RoomFits DEF Reserve, Row
<1>3. resource' = [Swept EXCEPT ![KeyOf[candidate[w]]][Duty[w]] = new]
  BY DEF Reserve
<1> HIDE DEF new
<1>4. /\ Swept \in [Keys -> [Jobs -> Row]]
      /\ \A h \in Keys, i \in Jobs :
           Swept[h][i] = IF resource[h][i].fresh THEN resource[h][i] ELSE NoLease
  BY SweptRows DEF Typed
<1>5. /\ resource' \in [Keys -> [Jobs -> Row]]
      /\ \A h \in Keys, i \in Jobs :
           resource'[h][i] = IF h = KeyOf[candidate[w]] /\ i = Duty[w]
                             THEN new ELSE Swept[h][i]
  BY <1>1, <1>2, <1>3, <1>4, RowWritten
<1>6. ASSUME NEW h \in Keys, NEW i \in Jobs
      PROVE  resource'[h][i] = IF h = KeyOf[candidate[w]] /\ i = Duty[w] THEN new
                               ELSE IF resource[h][i].fresh THEN resource[h][i]
                               ELSE NoLease
  BY <1>4, <1>5
<1> QED BY <1>5, <1>6 DEF new

\* What a release leaves of them.
LEMMA ReleaseRows ==
  ASSUME AdmissionTypeOK, Typed, NEW w \in Workers, NEW f \in Fates,
         ReleaseResource(w, f)
  PROVE  /\ resource' \in [Keys -> [Jobs -> Row]]
         /\ \A h \in Keys, i \in Jobs :
              resource'[h][i] =
                IF h = KeyOf[candidate[w]] /\ i = Duty[w]
                THEN NoLease ELSE resource[h][i]
<1>1. KeyOf[candidate[w]] \in Keys /\ Duty[w] \in Jobs
  BY OwnInRange DEF ReleaseResource, Begun
<1>2. NoLease \in Row
  BY AdmissionAssumption DEF Row, NoLease
<1>3. resource' = [resource EXCEPT ![KeyOf[candidate[w]]][Duty[w]] = NoLease]
  BY DEF ReleaseResource
<1> QED BY <1>1, <1>2, <1>3, RowWritten DEF Typed

\* A renewal, and an expiry, changes only whether the worker's own row is fresh.
LEMMA TouchRows ==
  ASSUME AdmissionTypeOK, Typed, NEW w \in Workers,
         RenewResource(w) \/ ExpireResource(w)
  PROVE  LET k == KeyOf[candidate[w]]
             j == Duty[w]
         IN  /\ k \in Keys /\ j \in Jobs
             /\ resource' \in [Keys -> [Jobs -> Row]]
             /\ Own(w) = resource[k][j] /\ Own(w).by = w
             /\ resource'[k][j].by = w /\ resource'[k][j].need = Own(w).need
             /\ \A h \in Keys, i \in Jobs :
                  h # k \/ i # j => resource'[h][i] = resource[h][i]
<1>1. KeyOf[candidate[w]] \in Keys /\ Duty[w] \in Jobs
  BY OwnInRange DEF RenewResource, ExpireResource, Begun
<1>2. PICK b \in BOOLEAN :
        resource' = [resource EXCEPT ![KeyOf[candidate[w]]][Duty[w]].fresh = b]
  BY DEF RenewResource, ExpireResource
<1>3. Own(w) = resource[KeyOf[candidate[w]]][Duty[w]] /\ Own(w).by = w
  BY SMTT(30) DEF Own, RenewResource, ExpireResource
<1>4. resource \in [Keys -> [Jobs -> Row]]
  BY DEF Typed
<1>5. resource[KeyOf[candidate[w]]][Duty[w]] \in Row
  BY <1>1, <1>4
<1>6. resource' = [resource EXCEPT ![KeyOf[candidate[w]]][Duty[w]] =
                     [resource[KeyOf[candidate[w]]][Duty[w]] EXCEPT !.fresh = b]]
  BY <1>1, <1>2, <1>4
<1> DEFINE new == [by |-> Own(w).by, fresh |-> b, need |-> Own(w).need]
<1>7. [resource[KeyOf[candidate[w]]][Duty[w]] EXCEPT !.fresh = b] = new
  BY <1>3, <1>5 DEF Row
<1>8. new \in Row /\ new.by = Own(w).by /\ new.need = Own(w).need
  BY <1>3, <1>5 DEF Row
<1> DEFINE k == KeyOf[candidate[w]]
           j == Duty[w]
<1>9. resource' = [resource EXCEPT ![k][j] = new] /\ k \in Keys /\ j \in Jobs
  BY <1>1, <1>6, <1>7
<1>10. /\ resource' \in [Keys -> [Jobs -> Row]]
       /\ \A h \in Keys, i \in Jobs :
            resource'[h][i] = IF h = k /\ i = j THEN new ELSE resource[h][i]
  <2> HIDE DEF new, k, j
  <2> QED BY <1>4, <1>8, <1>9, RowWritten
<1> HIDE DEF new
<1> QED BY <1>1, <1>3, <1>8, <1>10

\* The leases keep their shape.
LEMMA LeaseTypes ==
  ASSUME AdmissionTypeOK, Typed, NEW w \in Workers, Acts(w)
  PROVE  /\ resource' \in [Keys -> [Jobs -> Row]]
         /\ \A k \in Keys, j \in Jobs :
              resource'[k][j].by = NoOne => resource'[k][j] = NoLease
<1> DEFINE Kept == /\ resource' \in [Keys -> [Jobs -> Row]]
                   /\ \A k \in Keys, j \in Jobs :
                        resource'[k][j].by = NoOne => resource'[k][j] = NoLease
<1>0. NoOne # w
  BY AdmissionAssumption
<1>1. ASSUME Reserve(w) PROVE Kept
  <2>1. resource' \in [Keys -> [Jobs -> Row]]
    BY <1>1, ReserveRows
  <2>2. ASSUME NEW k \in Keys, NEW j \in Jobs, resource'[k][j].by = NoOne
        PROVE  resource'[k][j] = NoLease
    <3>1. \/ resource'[k][j] = [by |-> w, fresh |-> TRUE, need |-> Need[candidate[w]]]
          \/ resource'[k][j] = resource[k][j]
          \/ resource'[k][j] = NoLease
      BY <1>1, ReserveRows
    <3> QED BY <1>0, <2>2, <3>1 DEF AdmissionTypeOK
  <2> QED BY <2>1, <2>2
<1>2. ASSUME NEW f \in Fates, ReleaseResource(w, f) PROVE Kept
  BY <1>2, ReleaseRows DEF AdmissionTypeOK
<1>3. ASSUME RenewResource(w) \/ ExpireResource(w) PROVE Kept
  <2>1. /\ resource' \in [Keys -> [Jobs -> Row]]
        /\ resource'[KeyOf[candidate[w]]][Duty[w]].by = w
        /\ \A h \in Keys, i \in Jobs :
             h # KeyOf[candidate[w]] \/ i # Duty[w] =>
               resource'[h][i] = resource[h][i]
    BY <1>3, TouchRows
  <2>2. ASSUME NEW k \in Keys, NEW j \in Jobs, resource'[k][j].by = NoOne
        PROVE  resource'[k][j] = NoLease
    <3>1. k # KeyOf[candidate[w]] \/ j # Duty[w]
      BY <1>0, <2>1, <2>2
    <3>2. resource'[k][j] = resource[k][j]
      BY <2>1, <3>1
    <3> QED BY <2>2, <3>2 DEF AdmissionTypeOK
  <2> QED BY <2>1, <2>2
<1>4. ASSUME Refuse(w) PROVE Kept
  <2>1. resource' = Swept
    BY <1>4 DEF Refuse
  <2> QED BY <2>1, SweptRows DEF Typed, AdmissionTypeOK
<1>5. ASSUME UNCHANGED resource PROVE Kept
  BY <1>5 DEF Typed, AdmissionTypeOK
<1>6. \/ TakeJob(w) \/ LeaveJob(w) \/ Exhausted(w) \/ Follow(w) \/ RetrySame(w)
      \/ NobodyAvailable(w) \/ BeginRow(w) \/ RowTaken(w) \/ RowStays(w)
      \/ Settle(w) \/ KillWorker(w) \/ LoseJob(w) \/ \E c \in Candidates : Choose(w, c)
      => UNCHANGED resource
  BY DEF TakeJob, LeaveJob, Exhausted, Follow, RetrySame, NobodyAvailable, BeginRow, RowTaken,
     RowStays, Settle, KillWorker, LoseJob, Choose, Decides, rowVars
<1> QED BY <1>1, <1>2, <1>3, <1>4, <1>5, <1>6 DEF Acts

\* Every step writes rows and values of their types.
RowsTyped ==
  /\ given \in [Jobs -> Seq(Candidates)] /\ running \in [Jobs -> SUBSET Nat]
  /\ \A j \in Jobs : Len(given[j]) <= MaxAttempts /\ running[j] \subseteq DOMAIN given[j]
DecisionsTyped ==
  decided \in [Jobs -> [1..MaxAttempts -> Candidates \cup {NoCandidate}]]
ValuesTyped ==
  /\ owner \in [Jobs -> Workers \cup {NoOne}]
  /\ jobState \in [Jobs -> {"open", "READY", "BLOCKED", "FAILED"}]
  /\ place \in [Workers -> Places] /\ exclude \in [Workers -> SUBSET Candidates]
  /\ candidate \in [Workers -> Candidates \cup {NoCandidate}]
  /\ same \in [Workers -> Candidates \cup {NoCandidate}]
  /\ total \in [Workers -> Nat]

LEMMA TypesStep ==
  ASSUME AdmissionTypeOK, Typed, Recorded, NEW w \in Workers, Acts(w)
  PROVE  RowsTyped' /\ DecisionsTyped' /\ ValuesTyped'
<1>0. Duty[w] \in Jobs /\ place[w] \in Places
  BY AdmissionAssumption DEF AdmissionTypeOK
<1> DEFINE AllTyped == RowsTyped /\ DecisionsTyped /\ ValuesTyped
<1> USE AdmissionAssumption, <1>0
    DEF AdmissionTypeOK, Typed, Places, RowsTyped, DecisionsTyped, ValuesTyped
<1>1. ASSUME TakeJob(w) PROVE AllTyped'
  BY <1>1 DEF TakeJob, Moves
<1>2. ASSUME LeaveJob(w) PROVE AllTyped'
  BY <1>2 DEF LeaveJob, Moves, Lets, Disown
<1>3. ASSUME Exhausted(w) PROVE AllTyped'
  BY <1>3 DEF Exhausted, Moves, localVars
<1>4. ASSUME Follow(w) PROVE AllTyped'
  BY <1>4 DEF Follow, Deciding, Persisted, Decides, Moves
<1>5. ASSUME RetrySame(w) PROVE AllTyped'
  BY <1>5 DEF RetrySame, Deciding, Persisted, Decides, Records, Moves
<1>6. ASSUME NobodyAvailable(w) PROVE AllTyped'
  BY <1>6 DEF NobodyAvailable, Moves, rowVars, localVars, Deciding, Persisted, Options, Wanted,
     Pool
<1>7. ASSUME BeginRow(w) PROVE AllTyped'
  BY <1>7 DEF BeginRow, Moves, localVars
<1>8. ASSUME RowTaken(w) PROVE AllTyped'
  BY <1>8 DEF RowTaken, Moves, rowVars, localVars
<1>9. ASSUME Reserve(w) PROVE AllTyped'
  BY <1>9 DEF Reserve, Moves, localVars
<1>10. ASSUME RowStays(w) PROVE AllTyped'
  BY <1>10 DEF RowStays, Moves, rowVars, localVars
<1>11. ASSUME Refuse(w) PROVE AllTyped'
  BY <1>11 DEF Refuse, Moves
<1>12. ASSUME RenewResource(w) PROVE AllTyped'
  BY <1>12 DEF RenewResource, localVars
<1>13. ASSUME Settle(w) PROVE AllTyped'
  <2>1. RowsTyped'
    BY <1>13 DEF Settle
  <2>2. DecisionsTyped'
    BY <1>13 DEF Settle
  <2>3. ValuesTyped'
    BY <1>13 DEF Settle, Moves
  <2> QED BY <2>1, <2>2, <2>3
<1>14. ASSUME KillWorker(w) PROVE AllTyped'
  BY <1>14 DEF KillWorker, Moves, rowVars
<1>15. ASSUME LoseJob(w) PROVE AllTyped'
  BY <1>15 DEF LoseJob, localVars, Disown
<1>16. ASSUME ExpireResource(w) PROVE AllTyped'
  BY <1>16 DEF ExpireResource, localVars
<1>17. ASSUME NEW c \in Candidates, Choose(w, c) PROVE AllTyped'
  BY <1>17 DEF Choose, Deciding, Persisted, Decides, Records, Options, Moves, Wanted, Pool
<1>18. ASSUME NEW f \in Fates, ReleaseResource(w, f) PROVE AllTyped'
  BY <1>18 DEF ReleaseResource, Moves
<1> QED BY <1>1, <1>2, <1>3, <1>4, <1>5, <1>6, <1>7, <1>8, <1>9, <1>10, <1>11, <1>12, <1>13,
   <1>14, <1>15, <1>16, <1>17, <1>18 DEF Acts

\* An attempt under way is on record with its candidate, under a number of its
\* own among the workers of the job.
Candid ==
  \A v \in Workers : place[v] \in {"begin", "reserve", "run", "settle"} =>
    candidate[v] \in Candidates /\ total[v] < MaxAttempts
OnRecord ==
  \A v \in Workers : Begun(v) =>
    given[Duty[v]][total[v] + 1] = candidate[v] /\ total[v] < Len(given[Duty[v]])
Apart ==
  \A u, v \in Workers :
    u # v /\ Duty[u] = Duty[v] /\ Begun(u) /\ Begun(v) => total[u] # total[v]

LEMMA NumbersStep ==
  ASSUME AdmissionTypeOK, Typed, Recorded, NEW w \in Workers, Acts(w)
  PROVE  Candid' /\ OnRecord' /\ Apart'
<1>0. Duty[w] \in Jobs /\ place[w] \in Places
  BY AdmissionAssumption DEF AdmissionTypeOK
<1> DEFINE Numbered == Candid /\ OnRecord /\ Apart
<1> USE AdmissionAssumption, <1>0
    DEF AdmissionTypeOK, Typed, Recorded, Begun, Candid, OnRecord, Apart
<1>1. ASSUME TakeJob(w) PROVE Numbered'
  BY <1>1 DEF TakeJob, Moves
<1>2. ASSUME LeaveJob(w) PROVE Numbered'
  BY <1>2 DEF LeaveJob, Moves, Lets, Disown
<1>3. ASSUME Exhausted(w) PROVE Numbered'
  BY <1>3 DEF Exhausted, Moves, localVars
<1>4. ASSUME Follow(w) PROVE Numbered'
  <2>0. total[w] + 1 \in 1..MaxAttempts /\ total[w] < MaxAttempts
    BY <1>4 DEF Follow, Deciding
  <2>1. Persisted(w) \in Candidates /\ total[w] < MaxAttempts
    BY <1>4, <2>0 DEF Follow, Persisted
  <2> QED BY <1>4, <2>1 DEF Follow, Decides, Moves
<1>5. ASSUME RetrySame(w) PROVE Numbered'
  BY SMTT(30), <1>5 DEF RetrySame, Deciding, Persisted, Decides, Records, Moves
<1>6. ASSUME NobodyAvailable(w) PROVE Numbered'
  BY <1>6 DEF NobodyAvailable, Moves, rowVars, localVars, Deciding, Persisted, Options, Wanted,
     Pool
<1>7. ASSUME BeginRow(w) PROVE Numbered'
  <2>1. Candid'
    BY <1>7 DEF BeginRow, Moves, localVars
  <2>2. OnRecord'
    BY SMTT(30), <1>7 DEF BeginRow, Moves, localVars
  <2>3. Apart'
    BY <1>7 DEF BeginRow, Moves, localVars
  <2> QED BY <2>1, <2>2, <2>3
<1>8. ASSUME RowTaken(w) PROVE Numbered'
  BY <1>8 DEF RowTaken, Moves, rowVars, localVars
<1>9. ASSUME Reserve(w) PROVE Numbered'
  <2>1. Candid'
    BY <1>9 DEF Reserve, Moves, localVars
  <2>2. OnRecord'
    BY <1>9 DEF Reserve, Moves, localVars
  <2>3. Apart'
    BY <1>9 DEF Reserve, Moves, localVars
  <2> QED BY <2>1, <2>2, <2>3
<1>10. ASSUME RowStays(w) PROVE Numbered'
  BY <1>10 DEF RowStays, Moves, rowVars, localVars
<1>11. ASSUME Refuse(w) PROVE Numbered'
  BY <1>11 DEF Refuse, Moves
<1>12. ASSUME RenewResource(w) PROVE Numbered'
  BY <1>12 DEF RenewResource, localVars
<1>13. ASSUME Settle(w) PROVE Numbered'
  BY <1>13 DEF Settle, Moves
<1>14. ASSUME KillWorker(w) PROVE Numbered'
  BY <1>14 DEF KillWorker, Moves, rowVars
<1>15. ASSUME LoseJob(w) PROVE Numbered'
  BY <1>15 DEF LoseJob, localVars, Disown
<1>16. ASSUME ExpireResource(w) PROVE Numbered'
  BY <1>16 DEF ExpireResource, localVars
<1>17. ASSUME NEW c \in Candidates, Choose(w, c) PROVE Numbered'
  BY <1>17 DEF Choose, Deciding, Persisted, Decides, Records, Options, Moves, Wanted, Pool
<1>18. ASSUME NEW f \in Fates, ReleaseResource(w, f) PROVE Numbered'
  BY SMTT(30), <1>18 DEF ReleaseResource, Moves
<1> QED BY <1>1, <1>2, <1>3, <1>4, <1>5, <1>6, <1>7, <1>8, <1>9, <1>10, <1>11, <1>12, <1>13,
   <1>14, <1>15, <1>16, <1>17, <1>18 DEF Acts

\* So every step keeps the types and the numbers.
LEMMA RecordStep ==
  ASSUME AdmissionTypeOK, Typed, Recorded, NEW w \in Workers, Acts(w)
  PROVE  (AdmissionTypeOK /\ Typed /\ Recorded)'
<1>1. RowsTyped' /\ DecisionsTyped' /\ ValuesTyped'
  BY TypesStep
<1>2. Candid' /\ OnRecord' /\ Apart'
  BY NumbersStep
<1>3. /\ resource' \in [Keys -> [Jobs -> Row]]
      /\ \A h \in Keys, j \in Jobs : resource'[h][j].by = NoOne => resource'[h][j] = NoLease
  BY LeaseTypes
<1>4. Typed'
  BY <1>1, <1>3 DEF Typed, RowsTyped, ValuesTyped
<1>5. Recorded'
  BY <1>2 DEF Recorded, OnRecord, Apart
<1>6. AdmissionTypeOK'
  BY <1>1, <1>2, <1>3
  DEF AdmissionTypeOK, RowsTyped, DecisionsTyped, ValuesTyped, Candid, OnRecord, Begun
<1> QED BY <1>4, <1>5, <1>6

-----------------------------------------------------------------------------
(* The leases *)

\* Steps that are not about resources leave the leases as they were, bring nobody
\* to where one is held, and forget of nobody who is there that it lost its own.
LEMMA LeasesUntouched ==
  ASSUME AdmissionTypeOK, Typed, NEW w \in Workers,
         \/ TakeJob(w) \/ LeaveJob(w) \/ Exhausted(w) \/ Follow(w) \/ RetrySame(w)
         \/ NobodyAvailable(w) \/ BeginRow(w) \/ RowTaken(w) \/ RowStays(w) \/ Settle(w)
         \/ KillWorker(w) \/ LoseJob(w) \/ \E c \in Candidates : Choose(w, c)
  PROVE  /\ UNCHANGED resource /\ robbed' \subseteq robbed /\ deposed \subseteq deposed'
         /\ \A v \in Workers : place'[v] = "run" =>
              /\ place[v] = "run" /\ candidate'[v] = candidate[v]
              /\ v \in late \cup robbed => v \in late' \cup robbed'
<1> DEFINE Aside == /\ UNCHANGED resource /\ robbed' \subseteq robbed /\ deposed \subseteq deposed'
                    /\ \A v \in Workers : place'[v] = "run" =>
                         /\ place[v] = "run" /\ candidate'[v] = candidate[v]
                         /\ v \in late \cup robbed => v \in late' \cup robbed'
<1> USE DEF AdmissionTypeOK, Typed, rowVars, localVars, fateVars, Moves, Lets
<1>1. TakeJob(w) => Aside
  BY DEF TakeJob
<1>2. LeaveJob(w) => Aside
  BY DEF LeaveJob
<1>3. Exhausted(w) \/ NobodyAvailable(w) \/ RowTaken(w) \/ RowStays(w) => Aside
  BY DEF Exhausted, NobodyAvailable, RowTaken, RowStays
<1>4. Follow(w) \/ RetrySame(w) \/ (\E c \in Candidates : Choose(w, c)) => Aside
  BY DEF Follow, RetrySame, Choose, Decides
<1>5. BeginRow(w) => Aside
  BY DEF BeginRow
<1>6. Settle(w) => Aside
  BY DEF Settle
<1>7. KillWorker(w) => Aside
  BY DEF KillWorker
<1>8. LoseJob(w) => Aside
  BY DEF LoseJob
<1> QED BY <1>1, <1>2, <1>3, <1>4, <1>5, <1>6, <1>7, <1>8

\* Steps about resources move nobody else and depose nobody.
LEMMA LeasesOnly ==
  ASSUME AdmissionTypeOK, Typed, NEW w \in Workers,
         \/ Reserve(w) \/ Refuse(w) \/ RenewResource(w) \/ ExpireResource(w)
         \/ \E f \in Fates : ReleaseResource(w, f)
  PROVE  /\ UNCHANGED <<candidate, deposed, owner>>
         /\ \A v \in Workers : v # w => place'[v] = place[v]
         /\ place'[w] # "run" \/ place[w] = "run" \/ Reserve(w)
  BY SMTT(30) DEF AdmissionTypeOK, Reserve, Refuse, RenewResource, ExpireResource, ReleaseResource,
         Moves, localVars, fateVars

\* The sweep leaves only rows that were there.
LEMMA RefuseRows ==
  ASSUME AdmissionTypeOK, Typed, NEW w \in Workers, Refuse(w)
  PROVE  /\ resource' \in [Keys -> [Jobs -> Row]]
         /\ \A h \in Keys, i \in Jobs :
              resource'[h][i] = IF resource[h][i].fresh THEN resource[h][i] ELSE NoLease
  BY SweptRows DEF Refuse, Typed

\* A worker that was not deposed owns its job; until one is, no worker's row is
\* another's.
LEMMA OwnedStep ==
  ASSUME AdmissionTypeOK, Typed, Owned, NEW w \in Workers, Acts(w)
  PROVE  Owned'
<1>0. NoOne \notin Workers /\ Duty \in [Workers -> Jobs]
  BY AdmissionAssumption
<1>1. ASSUME NEW v \in Workers, place'[v] \notin {"idle", "dead"}
      PROVE  owner'[Duty[v]] = v \/ v \in deposed'
  <2> USE <1>0, <1>1 DEF AdmissionTypeOK, Typed, Owned, Moves
  <2>1. CASE TakeJob(w)
    BY <2>1 DEF TakeJob, fateVars
  <2>2. CASE LeaveJob(w)
    BY <2>2 DEF LeaveJob, Disown, fateVars
  <2>3. CASE LoseJob(w)
    BY <2>3 DEF LoseJob, Disown
  <2>4. CASE ~(TakeJob(w) \/ LeaveJob(w) \/ LoseJob(w))
    <3>1. UNCHANGED <<owner, deposed>>
      BY <2>4 DEF Acts, Exhausted, Follow, RetrySame, NobodyAvailable, BeginRow, RowTaken,
         Reserve, RowStays, Refuse, RenewResource, Settle, KillWorker, ExpireResource,
         Choose, ReleaseResource, Decides, rowVars, fateVars
    <3>2. CASE v # w
      <4>1. place'[v] = place[v]
        BY SMTT(30), <2>4, <3>2 DEF Acts, Exhausted, Follow, RetrySame, NobodyAvailable, BeginRow,
           RowTaken, Reserve, RowStays, Refuse, RenewResource, Settle, KillWorker,
           ExpireResource, Choose, ReleaseResource, Decides
      <4> QED BY <3>1, <4>1
    <3>3. CASE v = w
      <4>1. place[w] \notin {"idle", "dead"}
        BY <2>4, <3>3 DEF Acts, Exhausted, Follow, RetrySame, NobodyAvailable, BeginRow,
           RowTaken, Reserve, RowStays, Refuse, RenewResource, Settle, KillWorker,
           ExpireResource, Choose, ReleaseResource, Deciding
      <4> QED BY <3>1, <3>3, <4>1
    <3> QED BY <3>2, <3>3
  <2> QED BY <2>1, <2>2, <2>3, <2>4
<1>2. ASSUME deposed' = {}
      PROVE  /\ robbed' = {}
             /\ \A v \in Workers : place'[v] = "run" => Own(v)'.by \in {v, NoOne}
  <2>1. CASE \/ TakeJob(w) \/ LeaveJob(w) \/ Exhausted(w) \/ Follow(w) \/ RetrySame(w)
             \/ NobodyAvailable(w) \/ BeginRow(w) \/ RowTaken(w) \/ RowStays(w) \/ Settle(w)
             \/ KillWorker(w) \/ LoseJob(w) \/ \E c \in Candidates : Choose(w, c)
    BY <1>2, <2>1, LeasesUntouched DEF Owned, Own
  <2>2. CASE \/ Reserve(w) \/ Refuse(w) \/ RenewResource(w) \/ ExpireResource(w)
             \/ \E f \in Fates : ReleaseResource(w, f)
    <3>1. /\ deposed = {} /\ robbed = {}
          /\ \A v \in Workers : place[v] = "run" => Own(v).by \in {v, NoOne}
          /\ UNCHANGED candidate
      BY <1>2, <2>2, LeasesOnly DEF Owned
    <3>2. robbed' = {}
      <4>1. CASE \/ Reserve(w) \/ Refuse(w) \/ RenewResource(w) \/ ExpireResource(w)
        BY <3>1, <4>1 DEF Reserve, Refuse, RenewResource, ExpireResource, fateVars
      <4>2. CASE \E f \in Fates : ReleaseResource(w, f)
        <5>1. Own(w).by \in {w, NoOne}
          BY <3>1, <4>2 DEF ReleaseResource
        <5>2. robbed' = (robbed \ {w}) \cup {v \in Workers \ {w} : Own(w).by = v}
          BY <4>2 DEF ReleaseResource
        <5> QED BY <1>0, <3>1, <5>1, <5>2
      <4> QED BY <2>2, <4>1, <4>2
    <3>3. ASSUME NEW v \in Workers, place'[v] = "run" PROVE Own(v)'.by \in {v, NoOne}
      <4> DEFINE k == KeyOf[candidate[v]]
                 j == Duty[v]
      <4>1. v # w => place[v] = "run"
        BY <2>2, <3>3, LeasesOnly
      <4>2. k \in Keys /\ j \in Jobs /\ Own(v)' = resource'[k][j] /\ Own(v) = resource[k][j]
        <5>1. Begun(v)
          BY <2>2, <3>3, <4>1, LeasesOnly DEF Begun, Reserve
        <5> QED BY <3>1, <5>1, OwnInRange DEF Own
      <4>3. NoLease.by = NoOne
        BY DEF NoLease
      <4>4. CASE Reserve(w)
        <5>1. v # w => Duty[v] # Duty[w]
          BY <3>1, <4>1, <4>4 DEF Owned, Reserve
        <5>2. \/ v = w /\ resource'[k][j].by = w
              \/ v # w /\ resource'[k][j] \in {resource[k][j], NoLease}
          <6>1. CASE v = w
            <7>1. resource'[k][j] = [by |-> w, fresh |-> TRUE, need |-> Need[candidate[w]]]
              BY <4>2, <4>4, <6>1, ReserveRows
            <7> QED BY <6>1, <7>1
          <6>2. CASE v # w
            <7>1. j # Duty[w]
              BY <5>1, <6>2
            <7>2. resource'[k][j] =
                    IF k = KeyOf[candidate[w]] /\ j = Duty[w]
                    THEN [by |-> w, fresh |-> TRUE, need |-> Need[candidate[w]]]
                    ELSE IF resource[k][j].fresh THEN resource[k][j] ELSE NoLease
              <8> HIDE DEF k, j
              <8> QED BY <4>2, <4>4, ReserveRows
            <7> QED BY <6>2, <7>1, <7>2
          <6> QED BY <6>1, <6>2
        <5> QED BY <3>1, <4>1, <4>2, <4>3, <5>2
      <4>5. CASE Refuse(w)
        <5>1. place[v] = "run"
          BY <3>3, <4>1, <4>5 DEF Refuse, Moves, AdmissionTypeOK
        <5> QED BY <3>1, <4>2, <4>3, <4>5, <5>1, RefuseRows
      <4>6. CASE RenewResource(w) \/ ExpireResource(w)
        <5>1. place[v] = "run"
          BY <3>3, <4>6 DEF RenewResource, ExpireResource
        <5>2. resource'[k][j].by = resource[k][j].by
          <6>1. CASE k = KeyOf[candidate[w]] /\ j = Duty[w]
            BY <4>6, <6>1, TouchRows
          <6>2. CASE k # KeyOf[candidate[w]] \/ j # Duty[w]
            BY <4>2, <4>6, <6>2, TouchRows
          <6> QED BY <6>1, <6>2
        <5> QED BY <3>1, <4>2, <5>1, <5>2
      <4>7. CASE \E f \in Fates : ReleaseResource(w, f)
        <5>1. place[v] = "run"
          BY <4>1, <4>7 DEF ReleaseResource
        <5> QED BY <3>1, <4>2, <4>3, <4>7, <5>1, ReleaseRows
      <4> QED BY <2>2, <4>4, <4>5, <4>6, <4>7
    <3> QED BY <3>2, <3>3
  <2> QED BY <2>1, <2>2 DEF Acts
<1> QED BY <1>1, <1>2 DEF Owned

\* Where every row that is left was there with the same need, the rows still fit
\* the resource.
LEMMA FewerRows ==
  ASSUME AdmissionTypeOK, Typed, Leased, resource' \in [Keys -> [Jobs -> Row]],
         NEW k \in Keys,
         \A i \in Jobs : resource'[k][i].by # NoOne =>
           resource[k][i].by # NoOne /\ resource'[k][i].need = resource[k][i].need
  PROVE  /\ Booked(k, Leases(k))' <= Capacity
         /\ \A i, j \in Leases(k)' :
              resource'[k][i].need = 0 /\ resource'[k][j].need = 0 => i = j
<1> DEFINE f == [j \in Leases(k)' |-> resource'[k][j].need]
           g == [j \in Leases(k) |-> resource[k][j].need]
<1>1. /\ Leases(k)' \subseteq Leases(k) /\ Leases(k) \subseteq Jobs
      /\ \A j \in Leases(k)' : resource'[k][j].need = resource[k][j].need
  BY DEF Leases
<1>2. g \in [Leases(k) -> 0..Capacity] /\ IsFiniteSet(Leases(k))
  BY <1>1, BookedNat
<1>3. f \in [Leases(k)' -> Nat] /\ \A j \in Leases(k)' : f[j] <= g[j]
  <2>1. ASSUME NEW j \in Leases(k)' PROVE f[j] = g[j] /\ g[j] \in 0..Capacity
    BY <1>1, <1>2
  <2>2. DOMAIN f = Leases(k)' /\ f = [j \in Leases(k)' |-> f[j]] /\ Capacity \in Nat
    BY AdmissionAssumption
  <2> HIDE DEF f, g
  <2>3. \A j \in Leases(k)' : f[j] \in Nat /\ f[j] <= g[j]
    BY <2>1, <2>2
  <2> QED BY <2>2, <2>3
<1>4. SumOf(f) <= SumOf(g)
  <2> DEFINE h == [j \in Leases(k)' |-> j]
  <2>1. /\ h \in [Leases(k)' -> Leases(k)]
        /\ \A i, j \in Leases(k)' : h[i] = h[j] => i = j
        /\ \A j \in Leases(k)' : f[j] <= g[h[j]]
    BY <1>1, <1>3
  <2>2. Capacity \in Nat
    BY AdmissionAssumption
  <2> HIDE DEF f, g, h
  <2> QED BY <1>2, <1>3, <2>1, <2>2, SumOfInjects
<1>5. Booked(k, Leases(k)) = SumOf(g) /\ Booked(k, Leases(k))' = SumOf(f)
  BY DEF Booked
<1>6. SumOf(g) <= Capacity /\ SumOf(g) \in Nat
  <2>1. Booked(k, Leases(k)) \in Nat
    BY <1>1, BookedNat
  <2> QED BY <1>5, <2>1 DEF Leased
<1>7. SumOf(f) \in Nat
  <2>1. IsFiniteSet(Leases(k)') /\ f \in [Leases(k)' -> 0..Capacity]
    <3>1. IsFiniteSet(Leases(k)')
      BY <1>1, <1>2, FS_Subset
    <3>2. \A j \in Leases(k)' : f[j] \in 0..Capacity
      BY <1>1, <1>2
    <3> QED BY <3>1, <3>2
  <2>2. Capacity \in Nat
    BY AdmissionAssumption
  <2> HIDE DEF f
  <2> QED BY <2>1, <2>2, SumOfNat
<1>8. Booked(k, Leases(k))' <= Capacity
  BY <1>4, <1>5, <1>6, <1>7, AdmissionAssumption
<1>9. \A i, j \in Leases(k)' :
        resource'[k][i].need = 0 /\ resource'[k][j].need = 0 => i = j
  BY <1>1 DEF Leased
<1> QED BY <1>8, <1>9

\* The key a worker reserves: what is unexpired and its own row.
LEMMA ReservedKey ==
  ASSUME AdmissionTypeOK, Typed, Leased, NEW w \in Workers, Reserve(w),
         NEW k, k = KeyOf[candidate[w]]
  PROVE  /\ Booked(k, Leases(k))' <= Capacity
         /\ \A i, j \in Leases(k)' :
              resource'[k][i].need = 0 /\ resource'[k][j].need = 0 => i = j
<1> DEFINE n == Need[candidate[w]]
           f == [j \in Unexpired(k) |-> resource[k][j].need]
           g == [j \in Leases(k)' |-> resource'[k][j].need]
<1>1. /\ k \in Keys /\ Duty[w] \in Jobs /\ n \in Nat /\ NoOne # w /\ Capacity \in Nat
      /\ ~resource[k][Duty[w]].fresh /\ Room(w)
  BY OwnInRange, AdmissionAssumption DEF Reserve, Begun, Own
<1>2. /\ Unexpired(k) \subseteq Leases(k) /\ Unexpired(k) \subseteq Jobs
      /\ Duty[w] \notin Unexpired(k)
  BY <1>1 DEF Unexpired, Leases
<1>3. /\ resource'[k][Duty[w]] = [by |-> w, fresh |-> TRUE, need |-> n]
      /\ \A j \in Jobs \ {Duty[w]} :
           resource'[k][j] = IF resource[k][j].fresh THEN resource[k][j] ELSE NoLease
  BY <1>1, ReserveRows
<1>4. Leases(k)' = Unexpired(k) \cup {Duty[w]}
  <2>1. ASSUME NEW j \in Jobs PROVE j \in Leases(k)' <=> j \in Unexpired(k) \cup {Duty[w]}
    <3>1. CASE j = Duty[w]
      BY <1>1, <1>3, <3>1 DEF Leases
    <3>2. CASE j # Duty[w]
      <4>1. resource'[k][j] = IF resource[k][j].fresh THEN resource[k][j] ELSE NoLease
        BY <1>3, <3>2
      <4> QED BY <3>2, <4>1 DEF Leases, Unexpired, NoLease
    <3> QED BY <3>1, <3>2
  <2> QED BY <1>1, <1>2, <2>1 DEF Leases
<1>5. /\ DOMAIN g = Unexpired(k) \cup {Duty[w]} /\ g[Duty[w]] = n
      /\ \A j \in Unexpired(k) : g[j] = f[j]
  <2>1. resource'[k][Duty[w]].need = n
    BY <1>3
  <2>2. ASSUME NEW j \in Unexpired(k) PROVE resource'[k][j].need = resource[k][j].need
    BY <1>2, <1>3 DEF Unexpired
  <2> QED BY <1>4, <2>1, <2>2
<1>6. /\ IsFiniteSet(Unexpired(k)) /\ f \in [Unexpired(k) -> 0..Capacity]
      /\ SumOf(f) \in Nat /\ Booked(k, Unexpired(k)) = SumOf(f)
  BY <1>1, <1>2, BookedNat DEF Booked
<1>7. SumOf(g) = SumOf(f) + n
  <2>1. /\ IsFiniteSet(Leases(k)') /\ Duty[w] \in Leases(k)'
        /\ Leases(k)' \ {Duty[w]} = Unexpired(k)
    <3>1. Leases(k)' \in SUBSET Jobs
      BY <1>1, <1>2, <1>4
    <3>2. IsFiniteSet(Leases(k)')
      BY <3>1, AdmissionAssumption, FS_Subset
    <3> QED BY <1>2, <1>4, <3>2
  <2>2. n \in 0..Capacity /\ g[Duty[w]] = n /\ g = [j \in Leases(k)' |-> g[j]]
    BY SMTT(30), <1>1, <1>5, RoomFits DEF Reserve
  <2> HIDE DEF f, g, n
  <2>3. g \in [Leases(k)' -> 0..Capacity]
    BY <1>4, <1>5, <1>6, <2>2
  <2>4. SumOf(g) = SumOf(f) + g[Duty[w]]
    <3>1. /\ f \in [Leases(k)' \ {Duty[w]} -> 0..Capacity]
          /\ \A y \in Leases(k)' \ {Duty[w]} : f[y] = g[y]
      BY <1>5, <1>6, <2>1
    <3>2. Capacity \in Nat
      BY <1>1
    <3> QED BY <2>1, <2>3, <3>1, <3>2, SumOfAdds
  <2> QED BY <2>2, <2>4
<1>8. Booked(k, Leases(k))' = SumOf(g)
  BY DEF Booked
<1>9. CASE n > 0
  <2>1. SumOf(f) + n <= Capacity
    BY <1>1, <1>6, <1>9 DEF Room
  <2>2. ASSUME NEW i \in Leases(k)', resource'[k][i].need = 0
        PROVE  i \in Leases(k) /\ resource[k][i].need = 0
    <3>1. i # Duty[w]
      BY <1>3, <1>9, <2>2
    <3>2. i \in Unexpired(k)
      BY <1>4, <3>1
    <3> QED BY <1>2, <1>3, <2>2, <3>1, <3>2 DEF Unexpired
  <2> QED BY SMTT(30), <1>1, <1>7, <1>8, <2>1, <2>2 DEF Leased
<1>10. CASE n = 0
  <2>1. Unexpired(k) = {}
    BY <1>1, <1>10 DEF Room
  <2>2. SumOf(f) = 0
    <3>1. Units(f) = {}
      BY <2>1, UnitsOf
    <3> QED BY <3>1, FS_EmptySet DEF SumOf, Units
  <2>3. Leases(k)' = {Duty[w]}
    BY <1>4, <2>1
  <2> QED BY <1>1, <1>7, <1>8, <1>10, <2>2, <2>3
<1> QED BY <1>1, <1>9, <1>10

\* A worker that kept its lease keeps its row: only expiry and another worker of
\* its job can take that, and both are on the record.
LEMMA RowsKept ==
  ASSUME AdmissionTypeOK, Typed, Leased, NEW w \in Workers, Acts(w),
         NEW v \in Workers \ (late' \cup robbed'), place'[v] = "run"
  PROVE  Own(v)' = [by |-> v, fresh |-> TRUE, need |-> Need[candidate'[v]]]
<1> DEFINE k == KeyOf[candidate[v]]
           j == Duty[v]
           held == [by |-> v, fresh |-> TRUE, need |-> Need[candidate[v]]]
<1>1. CASE \/ TakeJob(w) \/ LeaveJob(w) \/ Exhausted(w) \/ Follow(w) \/ RetrySame(w)
           \/ NobodyAvailable(w) \/ BeginRow(w) \/ RowTaken(w) \/ RowStays(w) \/ Settle(w)
           \/ KillWorker(w) \/ LoseJob(w) \/ \E c \in Candidates : Choose(w, c)
  <2>1. /\ UNCHANGED resource /\ v \notin late \cup robbed
        /\ place[v] = "run" /\ candidate'[v] = candidate[v]
    BY <1>1, LeasesUntouched
  <2>2. Own(v) = held
    BY <2>1 DEF Leased
  <2> QED BY <2>1, <2>2 DEF Own
<1>2. CASE \/ Reserve(w) \/ Refuse(w) \/ RenewResource(w) \/ ExpireResource(w)
           \/ \E f \in Fates : ReleaseResource(w, f)
  <2>1. UNCHANGED candidate /\ (v # w => place[v] = "run")
    BY <1>2, LeasesOnly
  <2>2. (place[v] = "run" /\ v \notin late \cup robbed) => Own(v) = held
    BY DEF Leased
  <2>3. k \in Keys /\ j \in Jobs /\ Own(v)' = resource'[k][j] /\ Own(v) = resource[k][j]
    <3>1. Begun(v)
      BY <1>2, <2>1, LeasesOnly DEF Begun, Reserve
    <3> QED BY <2>1, <3>1, OwnInRange DEF Own
  <2>4. held.by = v /\ held.fresh
    OBVIOUS
  <2>5. Own(w) = resource[KeyOf[candidate[w]]][Duty[w]]
    BY DEF Own
  <2> SUFFICES resource'[k][j] = held
    BY <2>1, <2>3
  <2> HIDE DEF k, j, held
  <2>6. CASE Reserve(w)
    <3>1. CASE v = w
      BY <2>3, <2>6, <3>1, ReserveRows DEF k, j, held
    <3>2. CASE v # w
      <4>1. Own(v) = held
        BY <2>1, <2>2, <2>6, <3>2 DEF Reserve
      <4>2. k # KeyOf[candidate[w]] \/ j # Duty[w]
        BY <2>3, <2>4, <2>5, <2>6, <4>1 DEF Reserve
      <4>3. resource'[k][j] =
              IF k = KeyOf[candidate[w]] /\ j = Duty[w]
              THEN [by |-> w, fresh |-> TRUE, need |-> Need[candidate[w]]]
              ELSE IF resource[k][j].fresh THEN resource[k][j] ELSE NoLease
        BY <2>3, <2>6, ReserveRows
      <4> QED BY <2>3, <2>4, <4>1, <4>2, <4>3
    <3> QED BY <3>1, <3>2
  <2>7. CASE Refuse(w)
    <3>1. place[v] = "run" /\ v \notin late \cup robbed
      BY <2>1, <2>7 DEF Refuse, Moves, AdmissionTypeOK, fateVars
    <3> QED BY <2>2, <2>3, <2>4, <2>7, <3>1, RefuseRows
  <2>8. CASE RenewResource(w) \/ ExpireResource(w)
    <3>1. v # w /\ place[v] = "run" /\ v \notin late \cup robbed
      <4>1. CASE RenewResource(w)
        <5>1. place[v] = "run" /\ v \notin late \cup robbed
          BY <4>1 DEF RenewResource, fateVars
        <5> QED BY <2>2, <2>4, <4>1, <5>1 DEF RenewResource
      <4>2. CASE ExpireResource(w)
        BY <2>1, <4>2 DEF ExpireResource
      <4> QED BY <2>8, <4>1, <4>2
    <3>2. k # KeyOf[candidate[w]] \/ j # Duty[w]
      BY SMTT(30), <2>2, <2>3, <2>4, <2>5, <2>8, <3>1 DEF RenewResource, ExpireResource
    <3> QED BY <2>2, <2>3, <2>8, <3>1, <3>2, TouchRows
  <2>9. CASE \E f \in Fates : ReleaseResource(w, f)
    <3>1. place[v] = "run" /\ v # w /\ v \notin late \cup robbed /\ Own(w).by # v
      BY <2>1, <2>9 DEF ReleaseResource, Moves, AdmissionTypeOK
    <3>2. k # KeyOf[candidate[w]] \/ j # Duty[w]
      BY <2>2, <2>3, <2>4, <2>5, <3>1
    <3> QED BY <2>2, <2>3, <2>9, <3>1, <3>2, ReleaseRows
  <2> QED BY <1>2, <2>6, <2>7, <2>8, <2>9
<1> QED BY <1>1, <1>2 DEF Acts

\* The rows of a resource go on fitting it.
LEMMA LeasedStep ==
  ASSUME AdmissionTypeOK, Typed, Leased, NEW w \in Workers, Acts(w)
  PROVE  Leased'
<1> DEFINE Fits(k) == /\ Booked(k, Leases(k)) <= Capacity
                      /\ \A i, j \in Leases(k) :
                           resource[k][i].need = 0 /\ resource[k][j].need = 0 => i = j
<1>1. resource' \in [Keys -> [Jobs -> Row]] /\ NoLease.by = NoOne
  BY LeaseTypes DEF NoLease
<1>2. ASSUME NEW k \in Keys PROVE Fits(k)'
  <2>1. CASE UNCHANGED resource
    BY <2>1 DEF Leased, Leases, Booked
  <2>2. CASE Reserve(w)
    <3>1. CASE k = KeyOf[candidate[w]]
      BY <2>2, <3>1, ReservedKey
    <3>2. CASE k # KeyOf[candidate[w]]
      <4>1. \A i \in Jobs : resource'[k][i] = IF resource[k][i].fresh THEN resource[k][i]
                                              ELSE NoLease
        <5>1. \A i \in Jobs : resource'[k][i] =
                IF k = KeyOf[candidate[w]] /\ i = Duty[w]
                THEN [by |-> w, fresh |-> TRUE, need |-> Need[candidate[w]]]
                ELSE IF resource[k][i].fresh THEN resource[k][i] ELSE NoLease
          BY <2>2, ReserveRows
        <5> QED BY <3>2, <5>1
      <4> QED BY <1>1, <4>1, FewerRows
    <3> QED BY <3>1, <3>2
  <2>3. CASE Refuse(w)
    <3>1. \A i \in Jobs : resource'[k][i] = IF resource[k][i].fresh THEN resource[k][i]
                                            ELSE NoLease
      BY <2>3, RefuseRows
    <3> QED BY <1>1, <3>1, FewerRows
  <2>4. CASE RenewResource(w) \/ ExpireResource(w)
    <3>1. \A i \in Jobs : resource'[k][i].by = resource[k][i].by
                          /\ resource'[k][i].need = resource[k][i].need
      <4>1. /\ Own(w) = resource[KeyOf[candidate[w]]][Duty[w]] /\ Own(w).by = w
            /\ resource'[KeyOf[candidate[w]]][Duty[w]].by = w
            /\ resource'[KeyOf[candidate[w]]][Duty[w]].need = Own(w).need
            /\ \A h \in Keys, i \in Jobs :
                 h # KeyOf[candidate[w]] \/ i # Duty[w] => resource'[h][i] = resource[h][i]
        BY <2>4, TouchRows
      <4> QED BY <4>1
    <3> QED BY <1>1, <3>1, FewerRows
  <2>5. CASE \E f \in Fates : ReleaseResource(w, f)
    <3>1. \A i \in Jobs : resource'[k][i] \in {resource[k][i], NoLease}
      BY <2>5, ReleaseRows
    <3> QED BY <1>1, <3>1, FewerRows
  <2> QED BY <2>1, <2>2, <2>3, <2>4, <2>5, LeasesUntouched DEF Acts
<1>3. \A v \in Workers \ (late' \cup robbed') :
        place'[v] = "run" =>
          Own(v)' = [by |-> v, fresh |-> TRUE, need |-> Need[candidate'[v]]]
  BY RowsKept
<1> QED BY <1>2, <1>3 DEF Leased

-----------------------------------------------------------------------------
(* The attempts that run *)

\* A candidate's RUNNING attempts are finitely many.
LEMMA AttemptsFinite ==
  ASSUME NEW c
  PROVE  IsFiniteSet(Attempts(c)) /\ Cardinality(Attempts(c)) \in Nat
<1>1. IsFiniteSet(Jobs) /\ IsFiniteSet(1..MaxAttempts)
  BY AdmissionAssumption, FS_Interval
<1>2. IsFiniteSet(Jobs \X (1..MaxAttempts))
  BY <1>1, FS_Product, Zenon
<1>3. Attempts(c) \in SUBSET (Jobs \X (1..MaxAttempts))
  BY DEF Attempts
<1>4. IsFiniteSet(Attempts(c))
  BY <1>2, <1>3, FS_Subset, Zenon
<1> QED BY <1>4, FS_CardinalityType

\* Only the start of an attempt with the candidate adds to them.
LEMMA AttemptsFewer ==
  ASSUME AdmissionTypeOK, Typed, NEW w \in Workers, Acts(w), NEW c,
         ~(BeginRow(w) /\ c = candidate[w])
  PROVE  Attempts(c)' \subseteq Attempts(c)
<1>0. Duty[w] \in Jobs
  BY AdmissionAssumption
<1> SUFFICES ASSUME NEW j \in Jobs, NEW n \in 1..MaxAttempts,
                    n \in running'[j], given'[j][n] = c
             PROVE  n \in running[j] /\ given[j][n] = c
  BY DEF Attempts
<1>1. CASE BeginRow(w)
  <2>1. /\ running' = [running EXCEPT ![Duty[w]] = running[Duty[w]] \cup {total[w] + 1}]
        /\ given' = [given EXCEPT ![Duty[w]] = Append(given[Duty[w]], candidate[w])]
        /\ Len(given[Duty[w]]) = total[w] /\ c # candidate[w]
    BY <1>1 DEF BeginRow
  <2>2. /\ given[j] \in Seq(Candidates) /\ running[j] \subseteq DOMAIN given[j]
        /\ total[w] \in Nat
    BY DEF AdmissionTypeOK, Typed
  <2>3. CASE j # Duty[w]
    BY <1>0, <2>1, <2>3 DEF Typed
  <2>4. CASE j = Duty[w]
    <3>1. running'[j] = running[j] \cup {total[w] + 1}
      BY <2>1, <2>4 DEF Typed
    <3>2. given'[j] = Append(given[j], candidate[w])
      BY <2>1, <2>4 DEF Typed
    <3>3. n # total[w] + 1
      BY <2>1, <2>2, <2>4, <3>2
    <3>4. n \in running[j] /\ n \in 1..Len(given[j])
      BY <2>2, <3>1, <3>3
    <3> QED BY <2>2, <3>2, <3>4
  <2> QED BY <2>3, <2>4
<1>2. CASE ~BeginRow(w)
  <2>1. UNCHANGED given
    BY ZenonT(60), <1>2 DEF Acts, TakeJob, LeaveJob, Exhausted, Follow, RetrySame, NobodyAvailable,
       RowTaken, Reserve, RowStays, Refuse, RenewResource, Settle, KillWorker, LoseJob,
       ExpireResource, Choose, ReleaseResource, Decides, rowVars
  <2>2. \/ UNCHANGED running
        \/ running' = [running EXCEPT ![Duty[w]] = {}]
        \/ running' = [running EXCEPT ![Duty[w]] = running[Duty[w]] \ {total[w] + 1}]
    BY <1>2 DEF Acts, TakeJob, LeaveJob, Exhausted, Follow, RetrySame, NobodyAvailable,
       RowTaken, Reserve, RowStays, Refuse, RenewResource, Settle, KillWorker, LoseJob,
       ExpireResource, Choose, ReleaseResource, Decides, rowVars
  <2> QED BY <1>0, <2>1, <2>2 DEF Typed
<1> QED BY <1>1, <1>2

\* The workers active with a candidate have one RUNNING attempt each.
LEMMA ActiveOnRecord ==
  ASSUME AdmissionTypeOK, Typed, Recorded, Vetted, NEW c
  PROVE  /\ IsFiniteSet(Active({c}))
         /\ Cardinality(Active({c})) <= Cardinality(Attempts(c))
         /\ Attempts(c) = {} => Active({c}) = {}
<1> DEFINE m == [v \in Active({c}) |-> <<Duty[v], total[v] + 1>>]
<1>1. ASSUME NEW v \in Active({c}) PROVE <<Duty[v], total[v] + 1>> \in Attempts(c)
  <2>1. v \in Workers /\ Begun(v) /\ candidate[v] = c /\ owner[Duty[v]] = v
    BY DEF Active, Begun
  <2>2. total[v] + 1 \in running[Duty[v]]
    BY <2>1 DEF Vetted
  <2>3. given[Duty[v]][total[v] + 1] = c /\ total[v] \in Nat /\ total[v] < MaxAttempts
    BY <2>1 DEF AdmissionTypeOK, Typed, Begun
  <2>4. Duty[v] \in Jobs /\ total[v] + 1 \in 1..MaxAttempts
    BY <2>1, <2>3, AdmissionAssumption
  <2> QED BY <2>2, <2>3, <2>4 DEF Attempts
<1>2. ASSUME NEW u \in Active({c}), NEW v \in Active({c}), m[u] = m[v] PROVE u = v
  <2>1. Duty[u] = Duty[v] /\ total[u] + 1 = total[v] + 1
    BY <1>2
  <2>2. u \in Workers /\ v \in Workers /\ Begun(u) /\ Begun(v)
    BY DEF Active, Begun
  <2>3. total[u] = total[v]
    BY <2>1, <2>2 DEF Typed
  <2> QED BY <2>1, <2>2, <2>3 DEF Recorded
<1>3. m \in [Active({c}) -> Attempts(c)]
  BY <1>1
<1>4. m \in Injection(Active({c}), Attempts(c))
  <2> HIDE DEF m
  <2> QED BY <1>2, <1>3, Fun_IsInj
<1>5. IsFiniteSet(Active({c})) /\ Cardinality(Active({c})) <= Cardinality(Attempts(c))
  BY <1>4, AttemptsFinite, FS_Injection
<1> QED BY <1>1, <1>5

\* A worker gets active by the start of its attempt only.
LEMMA ActiveFewer ==
  ASSUME AdmissionTypeOK, Typed, NEW w \in Workers, Acts(w), NEW cs
  PROVE  \A v \in Active(cs)' \ unchecked' :
           \/ v \in Active(cs) \ unchecked
           \/ v = w /\ BeginRow(w) /\ candidate[w] \in cs /\ w \notin unchecked
<1>0. NoOne \notin Workers /\ Duty \in [Workers -> Jobs]
  BY AdmissionAssumption
<1> SUFFICES ASSUME NEW v \in Workers, Begun(v)', candidate'[v] \in cs,
                    owner'[Duty[v]] = v, v \notin unchecked'
             PROVE  \/ /\ Begun(v) /\ candidate[v] \in cs
                       /\ owner[Duty[v]] = v /\ v \notin unchecked
                    \/ v = w /\ BeginRow(w) /\ candidate[w] \in cs /\ w \notin unchecked
  BY DEF Active, Begun
<1> DEFINE Was == /\ Begun(v) /\ candidate[v] \in cs
                  /\ owner[Duty[v]] = v /\ v \notin unchecked
<1> USE <1>0 DEF AdmissionTypeOK, Typed, Begun, Moves, rowVars, localVars, fateVars
<1>1. ASSUME TakeJob(w) PROVE Was
  BY <1>1 DEF TakeJob
<1>2. ASSUME LeaveJob(w) PROVE Was
  BY <1>2 DEF LeaveJob, Lets, Disown
<1>3. ASSUME Exhausted(w) \/ NobodyAvailable(w) \/ RowTaken(w) \/ RowStays(w) PROVE Was
  BY <1>3 DEF Exhausted, NobodyAvailable, RowTaken, RowStays
<1>4. ASSUME Follow(w) \/ RetrySame(w) \/ (\E c \in Candidates : Choose(w, c)) PROVE Was
  BY <1>4 DEF Follow, RetrySame, Choose, Decides
<1>5. ASSUME BeginRow(w)
      PROVE  Was \/ (v = w /\ BeginRow(w) /\ candidate[w] \in cs /\ w \notin unchecked)
  <2>1. UNCHANGED <<candidate, owner>> /\ unchecked \subseteq unchecked'
    BY <1>5 DEF BeginRow
  <2>2. CASE v = w
    BY <1>5, <2>1, <2>2
  <2>3. CASE v # w
    <3>1. place'[v] = place[v]
      BY <1>5, <2>3 DEF BeginRow
    <3> QED BY <2>1, <3>1
  <2> QED BY <2>2, <2>3
<1>6. ASSUME Reserve(w) \/ Refuse(w) PROVE Was
  BY <1>6 DEF Reserve, Refuse
<1>7. ASSUME RenewResource(w) \/ ExpireResource(w) PROVE Was
  BY <1>7 DEF RenewResource, ExpireResource
<1>8. ASSUME NEW f \in Fates, ReleaseResource(w, f) PROVE Was
  BY <1>8 DEF ReleaseResource
<1>9. ASSUME Settle(w) PROVE Was
  BY <1>9 DEF Settle
<1>10. ASSUME KillWorker(w) PROVE Was
  BY <1>10 DEF KillWorker
<1>11. ASSUME LoseJob(w) PROVE Was
  BY <1>11 DEF LoseJob, Disown
<1> QED BY <1>1, <1>2, <1>3, <1>4, <1>5, <1>6, <1>7, <1>8, <1>9, <1>10, <1>11 DEF Acts

\* The attempt of a job's owner stays RUNNING until the owner settles it.
LEMMA RunningStep ==
  ASSUME AdmissionTypeOK, Typed, Recorded, Vetted, NEW w \in Workers, Acts(w),
         NEW v \in Workers, Begun(v)', owner'[Duty[v]] = v
  PROVE  total'[v] + 1 \in running'[Duty[v]]
<1>0. NoOne \notin Workers /\ Duty \in [Workers -> Jobs]
  BY AdmissionAssumption
<1> USE <1>0 DEF AdmissionTypeOK, Typed, Begun, Moves, rowVars, localVars, fateVars
<1>1. (Begun(v) /\ owner[Duty[v]] = v) => total[v] + 1 \in running[Duty[v]]
  BY DEF Vetted
<1>2. CASE TakeJob(w)
  <2>1. v # w /\ Begun(v) /\ total'[v] = total[v]
    BY <1>2 DEF TakeJob
  <2>2. Duty[v] # Duty[w]
    BY <1>2, <2>1 DEF TakeJob
  <2>3. owner[Duty[v]] = v /\ running'[Duty[v]] = running[Duty[v]]
    BY <1>2, <2>1, <2>2 DEF TakeJob
  <2> QED BY <1>1, <2>1, <2>3
<1>3. CASE LeaveJob(w)
  BY <1>1, <1>3 DEF LeaveJob, Lets, Disown
<1>4. CASE Exhausted(w) \/ NobodyAvailable(w) \/ RowTaken(w) \/ RowStays(w)
  BY <1>1, <1>4 DEF Exhausted, NobodyAvailable, RowTaken, RowStays
<1>5. CASE Follow(w) \/ RetrySame(w) \/ \E c \in Candidates : Choose(w, c)
  BY <1>1, <1>5 DEF Follow, RetrySame, Choose, Decides
<1>6. CASE BeginRow(w)
  <2>1. /\ UNCHANGED <<owner, total>>
        /\ running' = [running EXCEPT ![Duty[w]] = running[Duty[w]] \cup {total[w] + 1}]
    BY <1>6 DEF BeginRow
  <2>2. CASE v = w
    BY <2>1, <2>2
  <2>3. CASE v # w
    <3>1. Begun(v)
      BY <1>6, <2>3 DEF BeginRow
    <3> QED BY <1>1, <2>1, <3>1
  <2> QED BY <2>2, <2>3
<1>7. CASE Reserve(w) \/ RenewResource(w) \/ ExpireResource(w)
  BY <1>1, <1>7 DEF Reserve, RenewResource, ExpireResource
<1>8. CASE \E f \in Fates : ReleaseResource(w, f)
  BY <1>1, <1>8 DEF ReleaseResource
<1>9. CASE Refuse(w) \/ Settle(w)
  <2>1. /\ running' = [running EXCEPT ![Duty[w]] = running[Duty[w]] \ {total[w] + 1}]
        /\ Begun(w) /\ UNCHANGED owner
    BY <1>9 DEF Refuse, Settle
  <2>2. v # w /\ Begun(v) /\ total'[v] = total[v]
    <3>1. CASE Refuse(w)
      BY <3>1 DEF Refuse
    <3>2. CASE Settle(w)
      BY <3>2 DEF Settle
    <3> QED BY <1>9, <3>1, <3>2
  <2>3. total[v] \in Nat /\ total[w] \in Nat /\ (Duty[v] = Duty[w] => total[v] # total[w])
    BY <2>1, <2>2 DEF Recorded
  <2>4. total[v] + 1 \in running[Duty[v]]
    BY <1>1, <2>1, <2>2
  <2> QED BY <2>1, <2>2, <2>3, <2>4
<1>10. CASE KillWorker(w)
  BY <1>1, <1>10 DEF KillWorker
<1>11. CASE LoseJob(w)
  BY <1>1, <1>11 DEF LoseJob, Disown
<1> QED BY <1>2, <1>3, <1>4, <1>5, <1>6, <1>7, <1>8, <1>9, <1>10, <1>11 DEF Acts

\* What a candidate was vetted for holds until the attempt begins: whoever begins
\* one of its key meanwhile takes that back.
LEMMA CheckedStep ==
  ASSUME AdmissionTypeOK, Typed, Vetted, NEW w \in Workers, Acts(w),
         NEW v \in Workers, place'[v] = "begin", v \notin unchecked'
  PROVE  Checked(v)'
<1>1. \A c : IsFiniteSet(Attempts(c)) /\ Cardinality(Attempts(c)) \in Nat
  BY AttemptsFinite
<1>2. ASSUME place[v] = "begin", v \notin unchecked, candidate'[v] = candidate[v],
             ~(BeginRow(w) /\ KeyOf[candidate[w]] = KeyOf[candidate[v]]),
             NEW c, c = candidate[v]
      PROVE  Checked(v)'
  <2>1. Checked(v) /\ c \in Candidates
    BY <1>2 DEF Vetted, AdmissionTypeOK
  <2>2. \A d : KeyOf[d] = KeyOf[c] => Attempts(d)' \subseteq Attempts(d)
    BY <1>2, AttemptsFewer
  <2>3. Cardinality(Attempts(c)') <= Cardinality(Attempts(c))
        /\ Cardinality(Attempts(c)') \in Nat
    <3>1. Attempts(c)' \subseteq Attempts(c)
      BY <2>2
    <3>2. IsFiniteSet(Attempts(c)') /\ Cardinality(Attempts(c)') <= Cardinality(Attempts(c))
      BY <1>1, <3>1, FS_Subset
    <3> QED BY <3>2, FS_CardinalityType
  <2>4. Concurrent[c] \in Nat
    BY <2>1, AdmissionAssumption
  <2>5. Cardinality(Attempts(c)') < Concurrent[c]
    <3>1. Cardinality(Attempts(c)) < Concurrent[c]
      BY <1>2, <2>1 DEF Checked
    <3> QED BY <1>1, <2>3, <2>4, <3>1
  <2>6. ASSUME c \in Single, NEW d \in Candidates, KeyOf[d] = KeyOf[c]
        PROVE  Attempts(d)' = {}
    BY <1>2, <2>1, <2>2, <2>6 DEF Checked
  <2>7. c = candidate'[v]
    BY <1>2
  <2> QED BY <2>5, <2>6, <2>7 DEF Checked
<1>3. ASSUME NEW c \in Candidates, Choose(w, c), v = w PROVE Checked(v)'
  <2>1. /\ c \in Pool /\ candidate'[v] = c /\ UNCHANGED <<given, running>>
    BY <1>3 DEF Choose, Options, Wanted, Decides, Typed
  <2>2. \A d : Attempts(d)' = Attempts(d)
    BY <2>1 DEF Attempts
  <2> QED BY <2>1, <2>2 DEF Pool, Available, Checked
<1>4. \/ v = w /\ \E c \in Candidates : Choose(w, c)
      \/ /\ place[v] = "begin" /\ v \notin unchecked /\ candidate'[v] = candidate[v]
         /\ ~(BeginRow(w) /\ KeyOf[candidate[w]] = KeyOf[candidate[v]])
  <2> USE DEF AdmissionTypeOK, Typed, Moves, rowVars, localVars, fateVars
  <2> DEFINE Waits == /\ place[v] = "begin" /\ v \notin unchecked
                      /\ candidate'[v] = candidate[v]
  <2>1. TakeJob(w) => Waits
    BY DEF TakeJob
  <2>2. LeaveJob(w) => Waits
    BY DEF LeaveJob, Lets
  <2>3. Exhausted(w) \/ NobodyAvailable(w) \/ RowTaken(w) \/ RowStays(w) => Waits
    BY DEF Exhausted, NobodyAvailable, RowTaken, RowStays
  <2>4. Follow(w) \/ RetrySame(w) => Waits
    BY DEF Follow, RetrySame, Decides
  <2>5. (\E c \in Candidates : Choose(w, c)) => Waits \/ v = w
    BY DEF Choose, Decides
  <2>6. BeginRow(w) => Waits /\ KeyOf[candidate[w]] # KeyOf[candidate[v]]
    <3> SUFFICES ASSUME BeginRow(w) PROVE Waits /\ KeyOf[candidate[w]] # KeyOf[candidate[v]]
      OBVIOUS
    <3>1. v # w /\ UNCHANGED candidate
      BY DEF BeginRow
    <3>2. place[v] = "begin"
      BY <3>1 DEF BeginRow
    <3>3. unchecked' = unchecked \cup {u \in Workers \ {w} : place[u] = "begin"
                                         /\ KeyOf[candidate[u]] = KeyOf[candidate[w]]}
      BY DEF BeginRow
    <3> QED BY <3>1, <3>2, <3>3
  <2>7. Reserve(w) \/ Refuse(w) => Waits
    BY DEF Reserve, Refuse
  <2>8. RenewResource(w) \/ ExpireResource(w) => Waits
    BY DEF RenewResource, ExpireResource
  <2>9. (\E f \in Fates : ReleaseResource(w, f)) => Waits
    BY DEF ReleaseResource
  <2>10. Settle(w) => Waits
    BY DEF Settle
  <2>11. KillWorker(w) => Waits
    BY DEF KillWorker
  <2>12. LoseJob(w) => Waits
    BY DEF LoseJob
  <2>13. BeginRow(w) => Waits /\ KeyOf[candidate[w]] # KeyOf[candidate[v]]
    BY <2>6
  <2>14. BeginRow(w) => place[w] = "begin"
    BY DEF BeginRow
  <2>15. Waits \/ (v = w /\ \E c \in Candidates : Choose(w, c))
    BY <2>1, <2>2, <2>3, <2>4, <2>5, <2>6, <2>7, <2>8, <2>9, <2>10, <2>11, <2>12 DEF Acts
  <2> QED BY <2>13, <2>15
<1> QED BY <1>2, <1>3, <1>4

\* No more attempts run of a candidate, or in a group of one, than may, but for
\* those that were not vetted.
LEMMA VettedStep ==
  ASSUME AdmissionTypeOK, Typed, Recorded, Vetted, NEW w \in Workers, Acts(w)
  PROVE  Vetted'
<1>1. ASSUME NEW v \in Workers, Begun(v)', owner'[Duty[v]] = v
      PROVE  total'[v] + 1 \in running'[Duty[v]]
  BY <1>1, RunningStep
<1>2. ASSUME NEW v \in Workers, place'[v] = "begin", v \notin unchecked' PROVE Checked(v)'
  BY <1>2, CheckedStep
<1>3. ASSUME NEW c \in Candidates
      PROVE  Cardinality((Active({c}) \ unchecked)') <= Concurrent[c]
  <2> DEFINE old == Active({c}) \ unchecked
             new == (Active({c}) \ unchecked)'
  <2>1. IsFiniteSet(Active({c})) /\ Cardinality(Active({c})) \in Nat
    BY ActiveOnRecord, FS_CardinalityType
  <2>2. old \in SUBSET Active({c})
    OBVIOUS
  <2>3. /\ IsFiniteSet(old) /\ Cardinality(old) \in Nat
        /\ Cardinality(old) <= Concurrent[c] /\ Concurrent[c] \in Nat
    <3>1. IsFiniteSet(old)
      BY <2>1, <2>2, FS_Subset
    <3>2. Cardinality(old) <= Concurrent[c] /\ Concurrent[c] \in Nat
      BY AdmissionAssumption DEF Vetted
    <3> QED BY <3>1, <3>2, FS_CardinalityType
  <2>4. new \subseteq old \/ (new \subseteq old \cup {w} /\ BeginRow(w)
                              /\ candidate[w] = c /\ w \notin unchecked)
    <3>1. \A v \in new : \/ v \in old
                         \/ v = w /\ BeginRow(w) /\ candidate[w] \in {c} /\ w \notin unchecked
      BY ActiveFewer
    <3> QED BY <3>1
  <2>5. CASE new \subseteq old
    <3> HIDE DEF old, new
    <3>1. IsFiniteSet(new) /\ Cardinality(new) <= Cardinality(old)
      BY <2>3, <2>5, FS_Subset
    <3>2. Cardinality(new) \in Nat
      BY <3>1, FS_CardinalityType
    <3>3. Cardinality(new) <= Concurrent[c]
      BY <2>3, <3>1, <3>2
    <3> QED BY <3>3 DEF new
  <2>6. CASE new \subseteq old \cup {w} /\ BeginRow(w) /\ candidate[w] = c /\ w \notin unchecked
    <3>1. Cardinality(Attempts(c)) < Concurrent[c] /\ Cardinality(Attempts(c)) \in Nat
      BY <2>6, AttemptsFinite DEF Vetted, Checked, BeginRow
    <3>2. Cardinality(Active({c})) <= Cardinality(Attempts(c))
      BY ActiveOnRecord
    <3>3. /\ IsFiniteSet(Active({c}) \cup {w})
          /\ Cardinality(Active({c}) \cup {w}) <= Cardinality(Active({c})) + 1
          /\ Cardinality(Active({c}) \cup {w}) \in Nat
      <4>1. /\ IsFiniteSet(Active({c}) \cup {w})
            /\ Cardinality(Active({c}) \cup {w}) =
                 IF w \in Active({c}) THEN Cardinality(Active({c}))
                                      ELSE Cardinality(Active({c})) + 1
        BY <2>1, FS_AddElement
      <4> QED BY <2>1, <4>1
    <3>4. new \in SUBSET (Active({c}) \cup {w})
      BY <2>2, <2>6
    <3>5. Cardinality(new) <= Cardinality(Active({c}) \cup {w}) /\ Cardinality(new) \in Nat
      <4> HIDE DEF new
      <4>1. Cardinality(new) <= Cardinality(Active({c}) \cup {w}) /\ IsFiniteSet(new)
        BY <3>3, <3>4, FS_Subset
      <4> QED BY <4>1, FS_CardinalityType
    <3> HIDE DEF new
    <3>6. Cardinality(new) <= Concurrent[c]
      BY <2>1, <2>3, <3>1, <3>2, <3>3, <3>5
    <3> QED BY <3>6 DEF new
  <2> QED BY <2>4, <2>5, <2>6
<1>4. ASSUME NEW c \in Candidates,
             NEW u \in (Active({d \in Single : KeyOf[d] = KeyOf[c]}) \ unchecked)',
             NEW v \in (Active({d \in Single : KeyOf[d] = KeyOf[c]}) \ unchecked)'
      PROVE  u = v
  <2> DEFINE group == {d \in Single : KeyOf[d] = KeyOf[c]}
  <2>1. ASSUME NEW x \in (Active(group) \ unchecked)'
        PROVE  \/ x \in Active(group) \ unchecked
               \/ x = w /\ BeginRow(w) /\ candidate[w] \in group /\ w \notin unchecked
    <3>1. x \in Active(group)' \ unchecked'
      OBVIOUS
    <3> HIDE DEF group
    <3> QED BY <3>1, ActiveFewer
  <2>2. CASE BeginRow(w) /\ candidate[w] \in group /\ w \notin unchecked
    <3>1. Checked(w)
      BY <2>2 DEF Vetted, BeginRow
    <3>2. \A d \in Candidates : KeyOf[d] = KeyOf[c] => Attempts(d) = {}
      BY <2>2, <3>1 DEF Checked
    <3>3. ASSUME NEW x \in Active(group) PROVE FALSE
      <4>1. x \in Workers /\ candidate[x] \in group /\ x \in Active({candidate[x]})
            /\ Begun(x)
        BY DEF Active, Begun
      <4>2. candidate[x] \in Candidates
        BY <4>1 DEF AdmissionTypeOK, Begun
      <4>3. Attempts(candidate[x]) = {}
        BY <3>2, <4>1, <4>2
      <4> QED BY <4>1, <4>3, ActiveOnRecord
    <3> QED BY <2>1, <3>3
  <2>3. CASE ~(BeginRow(w) /\ candidate[w] \in group /\ w \notin unchecked)
    <3>1. u \in Active(group) \ unchecked /\ v \in Active(group) \ unchecked
      BY <2>1, <2>3
    <3> QED BY <3>1 DEF Vetted
  <2> QED BY <2>2, <2>3
<1>5. ASSUME NEW v \in Workers
      PROVE  /\ (Begun(v) /\ owner[Duty[v]] = v)' => total'[v] + 1 \in running'[Duty[v]]
             /\ (place[v] = "begin" /\ v \notin unchecked)' => Checked(v)'
  BY <1>1, <1>2
<1>6. ASSUME NEW c \in Candidates
      PROVE  /\ Cardinality((Active({c}) \ unchecked)') <= Concurrent[c]
             /\ \A u, v \in (Active({d \in Single : KeyOf[d] = KeyOf[c]}) \ unchecked)' :
                  u = v
  BY <1>3, <1>4
<1> QED BY <1>5, <1>6 DEF Vetted

-----------------------------------------------------------------------------
(* The theorems about Admission *)

\* A set whose elements are all the same has at most one.
LEMMA AtMostOne ==
  ASSUME NEW S, \A x, y \in S : x = y
  PROVE  IsFiniteSet(S) /\ Cardinality(S) \in Nat /\ Cardinality(S) <= 1
<1>1. CASE S = {}
  BY <1>1, FS_EmptySet
<1>2. CASE S # {}
  <2>1. PICK x : S = {x}
    BY <1>2
  <2>2. IsFiniteSet({x}) /\ Cardinality({x}) = 1
    BY FS_Singleton
  <2> QED BY <2>1, <2>2
<1> QED BY <1>1, <1>2

\* An empty system satisfies the invariant.
LEMMA AdmissionStarts ==
  ASSUME AdmissionInit
  PROVE  AInv
<1> USE AdmissionAssumption DEF AdmissionInit
<1>1. AdmissionTypeOK
  BY DEF AdmissionTypeOK, Places, NoLease
<1>2. Typed
  <2>1. NoLease \in Row
    BY DEF NoLease, Row
  <2> QED BY <2>1 DEF Typed
<1>3. Recorded
  BY DEF Recorded, Begun
<1>4. Leased
  <2>1. ASSUME NEW k \in Keys
        PROVE  Leases(k) = {} /\ Booked(k, Leases(k)) = 0
    <3>1. Leases(k) = {}
      BY DEF Leases, NoLease
    <3>2. Units([j \in Leases(k) |-> resource[k][j].need]) = {}
      BY <3>1 DEF Units
    <3>3. SumOf([j \in Leases(k) |-> resource[k][j].need]) = Cardinality({})
      BY <3>2 DEF Units, SumOf
    <3> QED BY <3>1, <3>3, FS_EmptySet DEF Booked
  <2>2. \A w \in Workers : place[w] # "run"
    OBVIOUS
  <2> QED BY <2>1, <2>2 DEF Leased
<1>5. Owned
  BY DEF Owned
<1>6. Vetted
  <2>1. \A w \in Workers : ~Begun(w) /\ place[w] # "begin"
    BY DEF Begun
  <2>2. \A cs : Active(cs) \ unchecked = {}
    BY <2>1 DEF Active, Begun
  <2>3. ASSUME NEW c \in Candidates PROVE Cardinality(Active({c}) \ unchecked) <= Concurrent[c]
    <3>1. Active({c}) \ unchecked = {}
      BY <2>2
    <3>2. Cardinality({}) = 0 /\ Concurrent[c] \in Nat
      BY FS_EmptySet
    <3>3. 0 <= Concurrent[c]
      BY <3>2
    <3> QED BY <3>1, <3>2, <3>3
  <2> QED BY <2>1, <2>2, <2>3 DEF Vetted
<1> QED BY <1>1, <1>2, <1>3, <1>4, <1>5, <1>6 DEF AInv

\* Every step keeps it.
LEMMA AdmissionSteps ==
  ASSUME AInv, AdmissionNext
  PROVE  AInv'
<1>1. PICK w \in Workers : Acts(w)
  BY DEF AdmissionNext, Acts
<1> QED BY <1>1, RecordStep, LeasedStep, OwnedStep, VettedStep DEF AInv

LEMMA AdmissionRests ==
  ASSUME AInv, UNCHANGED admissionVars
  PROVE  AInv'
<1> USE DEF AInv, admissionVars, rowVars, localVars, fateVars
<1>1. AdmissionTypeOK'
  BY DEF AdmissionTypeOK
<1>2. Typed'
  BY DEF Typed
<1>3. Recorded'
  BY DEF Recorded, Begun
<1>4. Leased'
  BY DEF Leased, Own, Booked, Leases
<1>5. Owned'
  BY DEF Owned, Own
<1>6. Vetted'
  <2>1. \A c : Attempts(c)' = Attempts(c)
    BY DEF Attempts
  <2>2. \A cs : Active(cs)' = Active(cs)
    BY DEF Active
  <2>3. UNCHANGED <<place, candidate, owner, running, total, unchecked>>
    OBVIOUS
  <2>4. \A w \in Workers : Checked(w)' <=> Checked(w)
    BY <2>1, <2>3 DEF Checked
  <2>5. \A w \in Workers : Begun(w)' <=> Begun(w)
    BY <2>3 DEF Begun
  <2> QED BY <2>2, <2>3, <2>4, <2>5 DEF Vetted
<1> QED BY <1>1, <1>2, <1>3, <1>4, <1>5, <1>6

LEMMA AdmissionInvariance == AdmissionSpec => []AInv
<1>1. AdmissionInit => AInv
  BY AdmissionStarts
<1>2. AInv /\ [AdmissionNext]_admissionVars => AInv'
  BY AdmissionSteps, AdmissionRests
<1> QED BY <1>1, <1>2, PTL DEF AdmissionSpec

(* What choose, begin_attempt, reserve_resource and the retry policy write is  *)
(* of the types their readers expect, and a worker's attempt is the one of its  *)
(* number and its candidate (scheduler.py, controller.py:420-740).              *)
THEOREM AdmissionTyped == AdmissionSpec => []AdmissionTypeOK
<1>1. AInv => AdmissionTypeOK
  BY DEF AInv
<1> QED BY <1>1, AdmissionInvariance, PTL

\* Workers that kept their lease have a row each, so that together they need no
\* more than the rows book.
LEMMA RowsCover ==
  ASSUME AInv
  PROVE  ResourceKept
<1>0. Capacity \in Nat /\ Duty \in [Workers -> Jobs]
  BY AdmissionAssumption
<1>1. ASSUME NEW k \in Keys, NEW w \in Honest(k)
      PROVE  /\ w \in Workers /\ Duty[w] \in Leases(k) /\ candidate[w] \in Candidates
             /\ resource[k][Duty[w]].by = w
             /\ resource[k][Duty[w]].need = Need[candidate[w]]
             /\ Need[candidate[w]] \in 0..Capacity
  <2>1. /\ w \in Workers \ (late \cup robbed) /\ place[w] = "run"
        /\ KeyOf[candidate[w]] = k /\ Begun(w)
    BY DEF Honest, Begun
  <2>2. candidate[w] \in Candidates /\ Duty[w] \in Jobs
    BY <1>0, <2>1 DEF AInv, AdmissionTypeOK
  <2>3. resource[k][Duty[w]] = [by |-> w, fresh |-> TRUE, need |-> Need[candidate[w]]]
    BY <2>1 DEF AInv, Leased, Own
  <2>4. resource[k][Duty[w]] \in Row
    BY <2>2 DEF AInv, Typed
  <2>5. Need[candidate[w]] \in 0..Capacity
    BY <2>3, <2>4 DEF Row
  <2> QED BY <2>1, <2>2, <2>3, <2>5, AdmissionAssumption DEF Leases
<1>2. ASSUME NEW k \in Keys, NEW v \in Honest(k), NEW w \in Honest(k), Duty[v] = Duty[w]
      PROVE  v = w
  <2>1. /\ resource[k][Duty[v]].by = v
        /\ resource[k][Duty[w]].by = w
    BY <1>1
  <2> QED BY <1>2, <2>1
<1>3. ASSUME NEW k \in Keys
      PROVE  Cardinality({w \in Honest(k) : Need[candidate[w]] = 0}) <= 1
  <2>1. ASSUME NEW v \in Honest(k), NEW w \in Honest(k),
               Need[candidate[v]] = 0, Need[candidate[w]] = 0
        PROVE  v = w
    <3>1. /\ Duty[v] \in Leases(k) /\ resource[k][Duty[v]].need = 0
          /\ Duty[w] \in Leases(k) /\ resource[k][Duty[w]].need = 0
      BY <1>1, <2>1
    <3>2. Duty[v] = Duty[w]
      BY <3>1 DEF AInv, Leased
    <3> QED BY <1>2, <3>2
  <2> QED BY <2>1, AtMostOne
<1>4. ASSUME NEW k \in Keys
      PROVE  SumOf([w \in Honest(k) |-> Need[candidate[w]]]) <= Capacity
  <2> DEFINE f == [w \in Honest(k) |-> Need[candidate[w]]]
             g == [j \in Leases(k) |-> resource[k][j].need]
             h == [w \in Honest(k) |-> Duty[w]]
  <2>1. /\ IsFiniteSet(Leases(k)) /\ g \in [Leases(k) -> 0..Capacity]
        /\ Booked(k, Leases(k)) = SumOf(g) /\ SumOf(g) \in Nat
    <3>1. Leases(k) \in SUBSET Jobs
      BY DEF Leases
    <3> QED BY <3>1, BookedNat DEF AInv, Booked
  <2>2. h \in [Honest(k) -> Leases(k)] /\ f \in [Honest(k) -> 0..Capacity]
    BY <1>1
  <2>3. /\ \A v, w \in Honest(k) : h[v] = h[w] => v = w
        /\ \A w \in Honest(k) : f[w] <= g[h[w]]
    <3>1. \A v, w \in Honest(k) : h[v] = h[w] => v = w
      BY <1>2
    <3>2. ASSUME NEW w \in Honest(k) PROVE f[w] = g[h[w]] /\ f[w] \in Nat
      <4>1. /\ Duty[w] \in Leases(k) /\ resource[k][Duty[w]].need = Need[candidate[w]]
            /\ Need[candidate[w]] \in Nat
        BY <1>0, <1>1
      <4> QED BY <4>1
    <3>3. ASSUME NEW w \in Honest(k) PROVE f[w] <= g[h[w]]
      <4> HIDE DEF f, g, h
      <4> QED BY <3>2
    <3> QED BY <3>1, <3>3
  <2>4. f \in [Honest(k) -> Nat]
    BY <1>0, <2>2
  <2> HIDE DEF f, g, h
  <2>5. IsFiniteSet(Honest(k))
    <3>1. h \in Injection(Honest(k), Leases(k))
      BY <2>2, <2>3, Fun_IsInj
    <3> QED BY <2>1, <3>1, FS_Injection
  <2>6. SumOf(f) <= SumOf(g)
    BY <1>0, <2>1, <2>2, <2>3, <2>4, SumOfInjects
  <2>7. SumOf(f) \in Nat
    BY <1>0, <2>2, <2>5, SumOfNat
  <2>8. SumOf(g) <= Capacity
    BY <2>1 DEF AInv, Leased
  <2>9. SumOf(f) <= Capacity
    BY <1>0, <2>1, <2>6, <2>7, <2>8
  <2> QED BY <2>9 DEF f
<1>5. robbed # {} => deposed # {}
  BY DEF AInv, Owned
<1> QED BY <1>3, <1>4, <1>5 DEF ResourceKept

(* The executors that run on a resource at once fit it, for every number of     *)
(* jobs, workers, candidates and units, as long as their leases did not expire  *)
(* and their jobs were not taken (db.py:1660-1739).                             *)
THEOREM ResourcesFit == AdmissionSpec => []ResourceKept
<1>1. AInv => ResourceKept
  BY RowsCover
<1> QED BY <1>1, AdmissionInvariance, PTL

LEMMA VettedFew ==
  ASSUME AInv
  PROVE  ConcurrencyKept
<1>1. ASSUME NEW c \in Candidates, Active({c}) \cap unchecked = {}
      PROVE  ~(Cardinality(Active({c})) > Concurrent[c])
  <2>1. Active({c}) \ unchecked = Active({c})
    BY <1>1
  <2>2. Cardinality(Active({c})) \in Nat /\ Concurrent[c] \in Nat
    BY ActiveOnRecord, FS_CardinalityType, AdmissionAssumption DEF AInv
  <2>3. Cardinality(Active({c})) <= Concurrent[c]
    BY <2>1 DEF AInv, Vetted
  <2> QED BY <2>2, <2>3
<1>2. ASSUME NEW c \in Candidates, NEW group, group = {d \in Single : KeyOf[d] = KeyOf[c]},
             Active(group) \cap unchecked = {}
      PROVE  ~(Cardinality(Active(group)) > 1)
  <2>1. Active(group) \ unchecked = Active(group)
    BY <1>2
  <2>2. \A v, w \in Active(group) : v = w
    BY <1>2, <2>1 DEF AInv, Vetted
  <2> QED BY <2>2, AtMostOne
<1> QED BY <1>1, <1>2 DEF ConcurrencyKept

(* Of a candidate run no more attempts than max_concurrency, and one in a group *)
(* of resource_concurrency 1, but for decisions that were not checked, or were  *)
(* overtaken (scheduler.py:144-152, controller.py:440-480).                     *)
THEOREM ConcurrencyHeld == AdmissionSpec => []ConcurrencyKept
<1>1. AInv => ConcurrencyKept
  BY VettedFew
<1> QED BY <1>1, AdmissionInvariance, PTL
=============================================================================
