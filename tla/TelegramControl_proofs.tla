----------------------- MODULE TelegramControl_proofs -----------------------
(***************************************************************************)
(* The Telegram operator, for any number of updates, kills and outages: an *)
(* update is handed over at most once by a host, and none is forgotten by  *)
(* the bot API before it is dealt with.                                    *)
(***************************************************************************)
EXTENDS TelegramControl, TLAPS

LEMMA Limits == Updates \in Nat /\ MaxKills \in Nat /\ MaxOutages \in Nat
BY QueueAssumption

Threads ==
  /\ at \in [Hosts -> {"poll", "next", "handle", "finish", "advance", "reply"}]
  /\ next \in [Hosts -> 0..posted] /\ final \in [Hosts -> 0..posted]
  /\ \A h \in Hosts : IF at[h] = "poll" THEN final[h] = 0 ELSE next[h] \in 1..final[h]
Tables ==
  /\ log \in [Hosts -> SUBSET (1..posted)] /\ finished \in [Hosts -> SUBSET (1..posted)]
  /\ \A h \in Hosts : finished[h] \subseteq log[h]
  /\ offset \in [Hosts -> 0..(posted + 1)]
Bounds ==
  /\ posted \in 0..Updates /\ kept \in 1..(posted + 1)
  /\ primary \in {"up", "apart", "down"} /\ cut \subseteq Ids
  /\ kills \in 0..MaxKills /\ outages \in 0..MaxOutages
RunsType == runs \in [Hosts -> [Ids -> Nat]]
Counts == Bounds /\ RunsType /\ service \in [Hosts -> BOOLEAN]
PollShape == Threads /\ Tables /\ Counts

\* An update in hand has its row; one that was handed over had it before.
Handed ==
  \A h \in Hosts :
    /\ at[h] \in {"handle", "finish"} => next[h] \in log[h]
    /\ at[h] = "handle" => runs[h][next[h]] = 0
    /\ at[h] \in {"advance", "reply"} => next[h] \in finished[h]

\* What the offsets and the batches have passed is dealt with; so is all that
\* is in a log, but for the update in hand.
Done(u) == u \in Foreign \cup cut \/ \E h \in Hosts : u \in finished[h]
Passed ==
  /\ \A u \in 1..posted : u < kept => Done(u)
  /\ \A h \in Hosts, u \in 1..posted : u < offset[h] => Done(u)
  /\ \A h \in Hosts, u \in 1..posted : at[h] # "poll" /\ u < next[h] => Done(u)
Logged ==
  \A h \in Hosts : \A u \in log[h] :
    u \in finished[h] \cup cut \/ (at[h] \in {"handle", "finish"} /\ u = next[h])

PollIInv == PollShape /\ Handed /\ OncePerHost /\ Passed /\ Logged

-----------------------------------------------------------------------------
(* The parts of the actions.                                                *)

LEMMA ShapeIsType == PollShape => PollTypeOK
BY DEF PollShape, Threads, Tables, Counts, Bounds, RunsType, PollTypeOK

LEMMA NextUpdateMoves ==
  ASSUME PollShape, NEW h \in Hosts, at[h] # "poll", NextUpdate(h), posted' = posted
  PROVE  /\ Threads' /\ at'[h] \in {"next", "poll"}
         /\ at'[h] = "next" => next'[h] = next[h] + 1
         /\ \A g \in Hosts \ {h} : at'[g] = at[g] /\ next'[g] = next[g]
<1>1. next[h] \in 1..final[h] /\ final[h] \in 0..posted /\ posted \in Nat
  BY Limits DEF PollShape, Threads, Counts, Bounds
<1> USE DEF PollShape, Threads, NextUpdate, Goes
<1>2. CASE next[h] < final[h]
  BY <1>1, <1>2
<1>3. CASE ~(next[h] < final[h])
  BY <1>1, <1>3
<1> QED BY <1>2, <1>3

LEMMA FetchMoves ==
  ASSUME PollShape, NEW h \in Hosts, Fetch(h), at[h] = "poll", posted' = posted
  PROVE  /\ Threads' /\ at'[h] \in {"next", "poll"}
         /\ at'[h] = "next" => next'[h] = Forgotten(h)
         /\ \A g \in Hosts \ {h} : at'[g] = at[g] /\ next'[g] = next[g]
<1>1. Forgotten(h) \in 1..(posted + 1) /\ posted \in Nat
  BY Limits DEF Forgotten, PollShape, Tables, Counts, Bounds
<1> USE DEF PollShape, Threads, Fetch, Goes
<1>2. CASE Forgotten(h) <= posted
  BY <1>1, <1>2
<1>3. CASE ~(Forgotten(h) <= posted)
  BY <1>1, <1>3
<1> QED BY <1>2, <1>3

LEMMA DiesMoves ==
  ASSUME PollShape, NEW h \in Hosts, Dies(h), posted' = posted
  PROVE  /\ Threads' /\ at'[h] = "poll" /\ service' \in [Hosts -> BOOLEAN]
         /\ \A g \in Hosts \ {h} : at'[g] = at[g] /\ next'[g] = next[g]
         /\ cut \subseteq cut' /\ cut' \subseteq Ids
         /\ at[h] \in {"handle", "finish"} => next[h] \in cut'
<1>1. next[h] \in Ids \/ next[h] = 0
  BY Limits DEF PollShape, Threads, Counts, Bounds, Ids
<1>2. posted \in Nat
  BY Limits DEF PollShape, Counts, Bounds
<1>3. at[h] # "poll" => next[h] \in Ids
  BY <1>1, <1>2 DEF PollShape, Threads
<1>4. Threads' /\ at'[h] = "poll"
  BY <1>2 DEF PollShape, Threads, Dies
<1>5. service' \in [Hosts -> BOOLEAN]
  BY DEF PollShape, Counts, Bounds, RunsType, Dies
<1>6. cut' \subseteq Ids
  BY <1>3 DEF PollShape, Counts, Bounds, RunsType, Dies
<1>7. \A g \in Hosts \ {h} : at'[g] = at[g] /\ next'[g] = next[g]
  BY DEF PollShape, Threads, Dies
<1> QED BY <1>4, <1>5, <1>6, <1>7 DEF Dies

\* A thread that dies, or does nothing, leaves what was dealt with as it was.
LEMMA CutKeeps ==
  ASSUME PollIInv, NEW h \in Hosts, Dies(h) \/ UNCHANGED <<serviceVars, cut>>,
         UNCHANGED <<posted, kept, log, finished, runs>>,
         \A g \in Hosts : offset'[g] = offset[g] \/ \E f \in Hosts : offset'[g] = offset[f]
  PROVE  Handed' /\ OncePerHost' /\ Passed' /\ Logged'
<1>1. cut \subseteq cut' /\ \A g \in Hosts : at'[g] = "poll" \/ (at'[g] = at[g] /\ next'[g] = next[g])
  BY DiesMoves DEF PollIInv, serviceVars
<1>2. \A u : Done(u) => Done(u)'
  BY <1>1 DEF Done
<1>3. Handed' /\ OncePerHost'
  BY <1>1 DEF PollIInv, Handed, OncePerHost
<1>4. Passed'
  BY <1>1, <1>2 DEF PollIInv, Passed
<1>5. Logged'
  <2>1. CASE Dies(h)
    BY <1>1, <2>1, DiesMoves DEF PollIInv, Logged
  <2>2. CASE UNCHANGED <<serviceVars, cut>>
    BY <2>2 DEF PollIInv, Logged, serviceVars
  <2> QED BY <2>1, <2>2
<1> QED BY <1>3, <1>4, <1>5

-----------------------------------------------------------------------------
(* The steps of a thread.                                                   *)

LEMMA PollKeeps == ASSUME PollIInv, NEW h \in Hosts, Poll(h) PROVE PollIInv'
<1>1. Threads' /\ at'[h] \in {"next", "poll"} /\ (at'[h] = "next" => next'[h] = Forgotten(h))
      /\ \A g \in Hosts \ {h} : at'[g] = at[g] /\ next'[g] = next[g]
  BY FetchMoves DEF PollIInv, Poll
<1>2. Forgotten(h) \in 1..(posted + 1) /\ posted \in Nat
      /\ (Forgotten(h) = kept \/ Forgotten(h) = offset[h])
  BY Limits DEF Forgotten, PollIInv, PollShape, Tables, Counts, Bounds
<1>3. PollShape'
  BY <1>1, <1>2 DEF PollIInv, PollShape, Tables, Counts, Bounds, RunsType, Poll
<1>4. Handed' /\ OncePerHost'
  BY <1>1 DEF PollIInv, Handed, OncePerHost, Poll
<1>5. Passed'
  <2>1. \A u \in 1..posted : u < Forgotten(h) => Done(u)
    BY <1>2 DEF PollIInv, Passed
  <2>2. \A u : Done(u)' = Done(u)
    BY DEF Done, Poll
  <2> QED BY <1>1, <2>1, <2>2 DEF PollIInv, Passed, Poll
<1>6. Logged'
  BY <1>1 DEF PollIInv, Logged, Poll
<1> QED BY <1>3, <1>4, <1>5, <1>6 DEF PollIInv

LEMMA AdvancedType ==
  ASSUME PollShape, NEW h \in Hosts, Advanced(h), at[h] # "poll"
  PROVE  offset' \in [Hosts -> 0..(posted + 1)]
<1>1. next[h] \in 0..posted /\ posted \in Nat
  BY Limits DEF PollShape, Threads, Counts, Bounds
<1> QED BY <1>1 DEF PollShape, Tables, Advanced

LEMMA PassKeeps == ASSUME PollIInv, NEW h \in Hosts, Pass(h) PROVE PollIInv'
<1>1. Threads' /\ at'[h] \in {"next", "poll"} /\ (at'[h] = "next" => next'[h] = next[h] + 1)
      /\ \A g \in Hosts \ {h} : at'[g] = at[g] /\ next'[g] = next[g]
  BY NextUpdateMoves DEF PollIInv, Pass
<1>2. offset' \in [Hosts -> 0..(posted + 1)]
  BY AdvancedType DEF PollIInv, Pass
<1>3. PollShape'
  BY <1>1, <1>2 DEF PollIInv, PollShape, Tables, Counts, Bounds, RunsType, Pass
<1>4. Handed' /\ OncePerHost' /\ Logged'
  BY <1>1 DEF PollIInv, Handed, OncePerHost, Logged, Pass
<1>5. Passed'
  <2>1. Done(next[h])
    BY DEF Pass, Seen, PollIInv, Logged, Done
  <2>2. next[h] \in Nat /\ posted \in Nat
    BY Limits DEF PollIInv, PollShape, Threads, Counts, Bounds
  <2>3. \A u \in 1..posted : u < next[h] + 1 => Done(u)
    BY <2>1, <2>2 DEF PollIInv, Passed, Pass
  <2>4. \A u : Done(u)' = Done(u)
    BY DEF Done, Pass
  <2>5. offset'[h] = next[h] + 1 /\ \A g \in Hosts \ {h} : offset'[g] = offset[g]
    BY DEF Pass, Advanced, PollIInv, PollShape, Tables
  <2> QED BY <1>1, <2>3, <2>4, <2>5 DEF PollIInv, Passed, Pass
<1> QED BY <1>3, <1>4, <1>5 DEF PollIInv

LEMMA RecordKeeps == ASSUME PollIInv, NEW h \in Hosts, RecordUpdate(h) PROVE PollIInv'
<1>0. next[h] \in 1..posted /\ posted \in Nat /\ Ids = 1..Updates /\ posted <= Updates /\ Updates \in Nat
  BY Limits DEF PollIInv, PollShape, Threads, Counts, Bounds, RecordUpdate, Ids
<1>1. Threads'
  BY DEF PollIInv, PollShape, Threads, RecordUpdate, Goes
<1>2. log' \in [Hosts -> SUBSET (1..posted)] /\ log'[h] = log[h] \cup {next[h]}
      /\ \A g \in Hosts \ {h} : log'[g] = log[g]
  BY <1>0 DEF PollIInv, PollShape, Tables, RecordUpdate
<1>3. at'[h] = "handle" /\ \A g \in Hosts \ {h} : at'[g] = at[g]
  BY DEF PollIInv, PollShape, Threads, RecordUpdate, Goes
<1>4. PollShape'
  BY <1>1, <1>2 DEF PollIInv, PollShape, Tables, Counts, Bounds, RunsType, RecordUpdate
<1>5. runs[h][next[h]] = 0
  <2>1. next[h] \in Ids
    BY <1>0
  <2>2. runs[h][next[h]] \in Nat
    BY <2>1 DEF PollIInv, PollShape, Counts, RunsType
  <2>3. next[h] \notin log[h]
    BY DEF RecordUpdate, Seen
  <2>4. runs[h][next[h]] <= (IF next[h] \in log[h] THEN 1 ELSE 0)
    BY <2>1 DEF PollIInv, OncePerHost
  <2> QED BY <2>2, <2>3, <2>4
<1>6. Handed'
  BY <1>2, <1>3, <1>5 DEF PollIInv, Handed, RecordUpdate
<1>7. OncePerHost'
  <2> SUFFICES ASSUME NEW g \in Hosts, NEW u \in Ids
               PROVE  runs[g][u] <= (IF u \in log'[g] THEN 1 ELSE 0)
    BY DEF OncePerHost, RecordUpdate
  <2>1. runs[g][u] <= (IF u \in log[g] THEN 1 ELSE 0) /\ runs[g][u] \in Nat
    BY DEF PollIInv, OncePerHost, PollShape, Counts, Bounds, RunsType
  <2>2. log[g] \subseteq log'[g]
    BY <1>2
  <2> QED BY <2>1, <2>2
<1>8. Passed'
  BY <1>3 DEF PollIInv, Passed, Done, RecordUpdate
<1>9. Logged'
  BY <1>2, <1>3 DEF PollIInv, Logged, RecordUpdate
<1> QED BY <1>4, <1>6, <1>7, <1>8, <1>9 DEF PollIInv

LEMMA HandleKeeps == ASSUME PollIInv, NEW h \in Hosts, Handle(h) PROVE PollIInv'
<1>0. next[h] \in Ids /\ next[h] \in log[h] /\ runs[h][next[h]] = 0
  <2>1. next[h] \in 1..posted /\ posted \in Nat /\ posted <= Updates /\ Updates \in Nat
    BY Limits DEF PollIInv, PollShape, Threads, Counts, Bounds, Handle
  <2> QED BY <2>1 DEF PollIInv, Handed, Handle, Ids
<1>1. Threads' /\ at'[h] = "finish" /\ \A g \in Hosts \ {h} : at'[g] = at[g]
  BY DEF PollIInv, PollShape, Threads, Handle, Goes
<1>2. /\ runs' \in [Hosts -> [Ids -> Nat]] /\ runs'[h][next[h]] = 1
      /\ \A g \in Hosts, u \in Ids : g # h \/ u # next[h] => runs'[g][u] = runs[g][u]
  BY <1>0 DEF PollIInv, PollShape, Counts, Bounds, RunsType, Handle
<1>3. PollShape'
  BY <1>1, <1>2 DEF PollIInv, PollShape, Tables, Counts, Bounds, RunsType, Handle
<1>4. Handed'
  <2> SUFFICES ASSUME NEW g \in Hosts, at'[g] = "handle" PROVE runs'[g][next[g]] = 0
    BY <1>0, <1>1 DEF PollIInv, Handed, Handle
  <2>1. g # h /\ at[g] = "handle"
    BY <1>1
  <2>2. runs'[g] = runs[g]
    BY <2>1 DEF Handle, PollIInv, PollShape, Counts, Bounds, RunsType
  <2> QED BY <2>1, <2>2 DEF PollIInv, Handed
<1>5. OncePerHost'
  BY <1>0, <1>2 DEF PollIInv, OncePerHost, Handle
<1>6. Passed'
  BY <1>1 DEF PollIInv, Passed, Done, Handle
<1>7. Logged'
  BY <1>1 DEF PollIInv, Logged, Handle
<1> QED BY <1>3, <1>4, <1>5, <1>6, <1>7 DEF PollIInv

LEMMA FinishKeeps == ASSUME PollIInv, NEW h \in Hosts, FinishUpdate(h) PROVE PollIInv'
<1>0. next[h] \in log[h] /\ log[h] \subseteq 1..posted
  BY DEF PollIInv, Handed, FinishUpdate, PollShape, Tables
<1>1. Threads' /\ at'[h] = "advance" /\ \A g \in Hosts \ {h} : at'[g] = at[g]
  BY DEF PollIInv, PollShape, Threads, FinishUpdate, Goes
<1>2. /\ finished' \in [Hosts -> SUBSET (1..posted)]
      /\ finished'[h] = finished[h] \cup {next[h]}
      /\ \A g \in Hosts \ {h} : finished'[g] = finished[g]
  BY <1>0 DEF PollIInv, PollShape, Tables, FinishUpdate
<1>3. PollShape'
  BY <1>0, <1>1, <1>2 DEF PollIInv, PollShape, Tables, Counts, Bounds, RunsType, FinishUpdate
<1>4. Handed' /\ OncePerHost'
  BY <1>1, <1>2 DEF PollIInv, Handed, OncePerHost, FinishUpdate
<1>5. Passed'
  <2>1. \A u : Done(u) => Done(u)'
    BY <1>2 DEF Done, FinishUpdate
  <2> QED BY <1>1, <2>1 DEF PollIInv, Passed, FinishUpdate
<1>6. Logged'
  BY <1>1, <1>2 DEF PollIInv, Logged, FinishUpdate
<1> QED BY <1>3, <1>4, <1>5, <1>6 DEF PollIInv

LEMMA AdvanceKeeps == ASSUME PollIInv, NEW h \in Hosts, Advance(h) PROVE PollIInv'
<1>1. Threads' /\ at'[h] = "reply" /\ \A g \in Hosts \ {h} : at'[g] = at[g]
  BY DEF PollIInv, PollShape, Threads, Advance, Goes
<1>2. offset' \in [Hosts -> 0..(posted + 1)]
  BY AdvancedType DEF PollIInv, Advance
<1>3. PollShape'
  BY <1>1, <1>2 DEF PollIInv, PollShape, Tables, Counts, Bounds, RunsType, Advance
<1>4. Handed' /\ OncePerHost' /\ Logged'
  BY <1>1 DEF PollIInv, Handed, OncePerHost, Logged, Advance
<1>5. Passed'
  <2>1. Done(next[h])
    BY DEF Advance, PollIInv, Handed, Done
  <2>2. next[h] \in Nat /\ posted \in Nat
    BY Limits DEF PollIInv, PollShape, Threads, Counts, Bounds
  <2>3. \A u \in 1..posted : u < next[h] + 1 => Done(u)
    BY <2>1, <2>2 DEF PollIInv, Passed, Advance
  <2>4. \A u : Done(u)' = Done(u)
    BY DEF Done, Advance
  <2>5. offset'[h] = next[h] + 1 /\ \A g \in Hosts \ {h} : offset'[g] = offset[g]
    BY DEF Advance, Advanced, PollIInv, PollShape, Tables
  <2> QED BY <1>1, <2>3, <2>4, <2>5 DEF PollIInv, Passed, Advance
<1> QED BY <1>3, <1>4, <1>5 DEF PollIInv

LEMMA ReplyKeeps == ASSUME PollIInv, NEW h \in Hosts, Reply(h) PROVE PollIInv'
<1>1. Threads' /\ at'[h] \in {"next", "poll"} /\ (at'[h] = "next" => next'[h] = next[h] + 1)
      /\ \A g \in Hosts \ {h} : at'[g] = at[g] /\ next'[g] = next[g]
  BY NextUpdateMoves DEF PollIInv, Reply
<1>3. PollShape'
  BY <1>1 DEF PollIInv, PollShape, Tables, Counts, Bounds, RunsType, Reply
<1>4. Handed' /\ OncePerHost' /\ Logged'
  BY <1>1 DEF PollIInv, Handed, OncePerHost, Logged, Reply
<1>5. Passed'
  <2>1. Done(next[h])
    BY DEF Reply, PollIInv, Handed, Done
  <2>2. next[h] \in Nat /\ posted \in Nat
    BY Limits DEF PollIInv, PollShape, Threads, Counts, Bounds
  <2>3. \A u \in 1..posted : u < next[h] + 1 => Done(u)
    BY <2>1, <2>2 DEF PollIInv, Passed, Reply
  <2>4. \A u : Done(u)' = Done(u)
    BY DEF Done, Reply
  <2> QED BY <1>1, <2>3, <2>4 DEF PollIInv, Passed, Reply
<1> QED BY <1>3, <1>4, <1>5 DEF PollIInv

-----------------------------------------------------------------------------
(* The others.                                                              *)

LEMMA PostKeeps == ASSUME PollIInv, Post PROVE PollIInv'
<1>0. posted \in Nat /\ posted' = posted + 1 /\ posted < Updates /\ Updates \in Nat
  BY Limits DEF PollIInv, PollShape, Counts, Bounds, Post
<1>1. Threads'
  BY <1>0 DEF PollIInv, PollShape, Threads, Post, serviceVars
<1>2. Tables'
  BY <1>0 DEF PollIInv, PollShape, Tables, Post
<1>3. Counts'
  BY <1>0 DEF PollIInv, PollShape, Counts, Bounds, RunsType, Post, serviceVars
<1>4. Handed' /\ OncePerHost' /\ Logged'
  BY DEF PollIInv, Handed, OncePerHost, Logged, Post, serviceVars
<1>5. Passed'
  <2>1. \A u : Done(u)' = Done(u)
    BY DEF Done, Post
  <2>2. kept <= posted + 1 /\ kept \in Nat
        /\ \A h \in Hosts : /\ offset[h] \in 0..(posted + 1)
                            /\ next[h] \in 0..posted
    BY <1>0 DEF PollIInv, PollShape, Tables, Threads, Counts, Bounds
  <2>3. \A u \in 1..posted' : u < kept \/ (\E h \in Hosts : u < offset[h] \/ u < next[h])
          => u \in 1..posted
    BY <1>0, <2>2
  <2>4. kept' = kept /\ offset' = offset /\ at' = at /\ next' = next
    BY DEF Post, serviceVars
  <2> QED BY <2>1, <2>3, <2>4 DEF PollIInv, Passed
<1> QED BY <1>1, <1>2, <1>3, <1>4, <1>5 DEF PollIInv, PollShape

LEMMA KillKeeps == ASSUME PollIInv, NEW h \in Hosts, KillService(h) PROVE PollIInv'
<1>1. Threads' /\ service' \in [Hosts -> BOOLEAN] /\ cut' \subseteq Ids
  BY DiesMoves DEF PollIInv, KillService
<1>2. kills' \in 0..MaxKills
  BY Limits DEF PollIInv, PollShape, Counts, Bounds, KillService
<1>3. PollShape'
  BY <1>1, <1>2 DEF PollIInv, PollShape, Tables, Counts, Bounds, RunsType, KillService
<1>4. Handed' /\ OncePerHost' /\ Passed' /\ Logged'
  BY CutKeeps DEF KillService
<1> QED BY <1>3, <1>4 DEF PollIInv

LEMMA RestartKeeps == ASSUME PollIInv, NEW h \in Hosts, Restart(h) PROVE PollIInv'
<1>1. service' \in [Hosts -> BOOLEAN]
  BY DEF PollIInv, PollShape, Counts, Bounds, RunsType, Restart
<1>2. PollShape'
  BY <1>1 DEF PollIInv, PollShape, Threads, Tables, Counts, Bounds, RunsType, Restart
<1>3. Handed' /\ OncePerHost' /\ Logged'
  BY DEF PollIInv, Handed, OncePerHost, Logged, Restart
<1>4. Passed'
  BY DEF PollIInv, Passed, Done, Restart
<1> QED BY <1>2, <1>3, <1>4 DEF PollIInv

LEMMA OutageKeeps == ASSUME PollIInv, Outage PROVE PollIInv'
<1>0. "primary" \in Hosts
  BY DEF Hosts
<1>1. Threads' /\ service' \in [Hosts -> BOOLEAN] /\ cut' \subseteq Ids
  <2>1. CASE Dies("primary")
    BY <1>0, <2>1, DiesMoves DEF PollIInv, Outage
  <2>2. CASE UNCHANGED <<serviceVars, cut>>
    BY <2>2 DEF PollIInv, PollShape, Threads, Counts, Bounds, RunsType, serviceVars, Outage
  <2> QED BY <2>1, <2>2 DEF Outage
<1>2. outages' \in 0..MaxOutages /\ primary' \in {"up", "apart", "down"}
  BY Limits DEF PollIInv, PollShape, Counts, Bounds, Outage
<1>3. PollShape'
  BY <1>1, <1>2 DEF PollIInv, PollShape, Tables, Counts, Bounds, RunsType, Outage
<1>4. Handed' /\ OncePerHost' /\ Passed' /\ Logged'
  BY <1>0, CutKeeps DEF Outage
<1> QED BY <1>3, <1>4 DEF PollIInv

LEMMA RecoversKeeps == ASSUME PollIInv, Recovers PROVE PollIInv'
<1>1. PollShape'
  BY DEF PollIInv, PollShape, Threads, Tables, Counts, Bounds, RunsType, Recovers, serviceVars
<1>2. Handed' /\ OncePerHost' /\ Logged'
  BY DEF PollIInv, Handed, OncePerHost, Logged, Recovers, serviceVars
<1>3. Passed'
  BY DEF PollIInv, Passed, Done, Recovers, serviceVars
<1> QED BY <1>1, <1>2, <1>3 DEF PollIInv

LEMMA CheckKeeps == ASSUME PollIInv, Check PROVE PollIInv'
<1>0. "primary" \in Hosts /\ "standby" \in Hosts
  BY DEF Hosts
<1>1. Threads' /\ service' \in [Hosts -> BOOLEAN] /\ cut' \subseteq Ids
  <2>1. CASE Dies("standby")
    BY <1>0, <2>1, DiesMoves DEF PollIInv, Check
  <2>2. CASE UNCHANGED <<serviceVars, cut>>
    BY <2>2 DEF PollIInv, PollShape, Threads, Counts, Bounds, RunsType, serviceVars, Check
  <2> QED BY <2>1, <2>2 DEF Check
<1>2. offset' \in [Hosts -> 0..(posted + 1)]
  BY <1>0 DEF PollIInv, PollShape, Tables, Check
<1>3. PollShape'
  BY <1>1, <1>2 DEF PollIInv, PollShape, Tables, Counts, Bounds, RunsType, Check
<1>4. \A g \in Hosts : offset'[g] = offset[g] \/ \E f \in Hosts : offset'[g] = offset[f]
  BY <1>0 DEF PollIInv, PollShape, Tables, Check
<1>5. Dies("standby") \/ UNCHANGED <<serviceVars, cut>>
  BY DEF Check
<1>6. UNCHANGED <<posted, kept, log, finished, runs>>
  BY DEF Check
<1>7. Handed' /\ OncePerHost' /\ Passed' /\ Logged'
  BY <1>0, <1>4, <1>5, <1>6, CutKeeps
<1> QED BY <1>3, <1>7 DEF PollIInv

-----------------------------------------------------------------------------

LEMMA PollInitially == PollInit => PollIInv
<1> SUFFICES ASSUME PollInit PROVE PollIInv
  OBVIOUS
<1>1. Threads /\ Tables
  BY DEF PollInit, Threads, Tables
<1>2. Counts
  BY Limits DEF PollInit, Counts, Bounds, RunsType, Ids
<1>3. Handed /\ OncePerHost /\ Logged
  BY DEF PollInit, Handed, OncePerHost, Logged
<1>4. Passed
  BY DEF PollInit, Passed
<1> QED BY <1>1, <1>2, <1>3, <1>4 DEF PollIInv, PollShape

LEMMA PollStep == PollIInv /\ [PollNext]_pollVars => PollIInv'
<1> SUFFICES ASSUME PollIInv, [PollNext]_pollVars PROVE PollIInv'
  OBVIOUS
<1>1. ASSUME NEW h \in Hosts, Steps(h) PROVE PollIInv'
  BY <1>1, PollKeeps, PassKeeps, RecordKeeps, HandleKeeps, FinishKeeps, AdvanceKeeps, ReplyKeeps
     DEF Steps
<1>2. ASSUME NEW h \in Hosts, KillService(h) \/ Restart(h) PROVE PollIInv'
  BY <1>2, KillKeeps, RestartKeeps
<1>3. CASE Post \/ Outage \/ Recovers \/ Check
  BY <1>3, PostKeeps, OutageKeeps, RecoversKeeps, CheckKeeps
<1>4. CASE UNCHANGED pollVars
  <2>1. PollShape'
    BY <1>4 DEF pollVars, serviceVars, PollIInv, PollShape, Threads, Tables, Counts, Bounds, RunsType
  <2>2. Handed' /\ OncePerHost' /\ Logged'
    BY <1>4 DEF pollVars, serviceVars, PollIInv, Handed, OncePerHost, Logged
  <2>3. Passed'
    BY <1>4 DEF pollVars, serviceVars, PollIInv, Passed, Done
  <2> QED BY <2>1, <2>2, <2>3 DEF PollIInv
<1> QED BY <1>1, <1>2, <1>3, <1>4 DEF PollNext

LEMMA PollInvariant == PollSpec => []PollIInv
BY PollInitially, PollStep, PTL DEF PollSpec

(* The variables of the operator keep their types for any number of updates, *)
(* kills and outages (telegram_control.py:85-262).                           *)
THEOREM PollTypeCorrect == PollSpec => []PollTypeOK
<1>1. PollIInv => PollTypeOK
  BY ShapeIsType DEF PollIInv
<1> QED BY <1>1, PollInvariant, PTL

(* A host hands an update to the agent at most once, however often it is      *)
(* delivered again (telegram_control.py:241-247).                             *)
THEOREM HandledOnce == PollSpec => []OncePerHost
<1>1. PollIInv => OncePerHost
  BY DEF PollIInv
<1> QED BY <1>1, PollInvariant, PTL

(* The bot API forgets no update that was for us and that no host finished,   *)
(* but those a kill cut short (telegram_control.py:234-256, the sync script). *)
THEOREM NothingIsForgotten == PollSpec => []NothingForgotten
<1>1. PollIInv => NothingForgotten
  BY DEF PollIInv, Passed, Done, NothingForgotten
<1> QED BY <1>1, PollInvariant, PTL
=============================================================================
