--------------------------- MODULE TelegramControl ---------------------------
(***************************************************************************)
(* The Telegram operator: a bot's update queue, the primary host whose     *)
(* service polls it, and the standby host whose supervisor script starts   *)
(* the same service when the primary does not answer and stops it again    *)
(* when it does.  Each host has its own SQLite file: the log of updates    *)
(* and the offset.  The service is one thread; between any two of its      *)
(* commits it may be killed, by an error of the network too (poll_once     *)
(* lets it out), and systemd starts it again.  What an agent does with a   *)
(* message, and which conversation is selected, is left out.               *)
(***************************************************************************)
EXTENDS Naturals, FiniteSets

CONSTANTS
  Updates,       \* bound: the updates posted are 1..Updates
  Foreign,       \* those of another chat or without a text
  MaxKills,      \* bound: services killed
  MaxOutages     \* bound: times the primary does not answer

ASSUME QueueAssumption == {Updates, MaxKills, MaxOutages} \subseteq Nat

Ids == 1..Updates
Hosts == {"primary", "standby"}

VARIABLES
  posted,    \* updates posted so far
  kept,      \* the first update the bot API has not forgotten
  log,       \* telegram_updates: the updates recorded on a host
  finished,  \* those of them with handled_at
  offset,    \* metadata.telegram_offset, 0 if absent
  service,   \* the host's pmc-telegram-control service is active
  at,        \* where its thread is in poll_once
  next, final, \* the update in hand and the last of its batch, 0 while it polls
  primary,   \* the primary as the standby's checks find it: "up", "apart"
             \* (its service goes on) or "down" (the machine is off)
  runs,      \* history: how often an update was handed to handle() on a host
  cut,       \* history: the updates a killed thread had recorded, not finished
  kills, outages

serviceVars == <<service, at, next, final>>
pollVars == <<posted, kept, log, finished, offset, serviceVars, primary, runs,
              cut, kills, outages>>

PollTypeOK ==
  /\ posted \in 0..Updates /\ kept \in 1..(posted + 1)
  /\ \A h \in Hosts : finished[h] \subseteq log[h] /\ log[h] \subseteq 1..posted
  /\ offset \in [Hosts -> 0..(posted + 1)]
  /\ service \in [Hosts -> BOOLEAN] /\ primary \in {"up", "apart", "down"}
  /\ at \in [Hosts -> {"poll", "next", "handle", "finish", "advance", "reply"}]
  /\ next \in [Hosts -> 0..posted] /\ final \in [Hosts -> 0..posted]
  /\ \A h \in Hosts : IF at[h] = "poll" THEN final[h] = 0 ELSE next[h] \in 1..final[h]
  /\ runs \in [Hosts -> [Ids -> Nat]] /\ cut \subseteq Ids
  /\ kills \in 0..MaxKills /\ outages \in 0..MaxOutages

PollInit ==
  /\ posted = 0 /\ kept = 1 /\ primary = "up"
  /\ log = [h \in Hosts |-> {}] /\ finished = [h \in Hosts |-> {}]
  /\ offset = [h \in Hosts |-> 0]
  /\ service = [h \in Hosts |-> h = "primary"]
  /\ at = [h \in Hosts |-> "poll"]
  /\ next = [h \in Hosts |-> 0] /\ final = [h \in Hosts |-> 0]
  /\ runs = [h \in Hosts |-> [u \in Ids |-> 0]] /\ cut = {} /\ kills = 0 /\ outages = 0

-----------------------------------------------------------------------------
(* The bot API, as the code uses it: getUpdates returns the updates from    *)
(* the offset on and forgets those before it.                               *)

Post ==
  /\ posted < Updates /\ posted' = posted + 1
  /\ UNCHANGED <<kept, log, finished, offset, serviceVars, primary, runs, cut,
                 kills, outages>>

Forgotten(h) == IF offset[h] > kept THEN offset[h] ELSE kept

-----------------------------------------------------------------------------
(* poll_once: one batch, update by update.                                  *)

Goes(h, step) == at' = [at EXCEPT ![h] = step]
NextUpdate(h) ==    \* on to the next update of the batch, or to the next poll
  LET more == next[h] < final[h] IN
  /\ next' = [next EXCEPT ![h] = IF more THEN @ + 1 ELSE 0]
  /\ final' = [final EXCEPT ![h] = IF more THEN @ ELSE 0]
  /\ Goes(h, IF more THEN "next" ELSE "poll")
Fetch(h) ==   \* the updates from the offset on, if any
  LET any == Forgotten(h) <= posted IN
  /\ next' = [next EXCEPT ![h] = IF any THEN Forgotten(h) ELSE 0]
  /\ final' = [final EXCEPT ![h] = IF any THEN posted ELSE 0]
  /\ Goes(h, IF any THEN "next" ELSE "poll")

MutantPoll(h) ==   \* the offset is stored as soon as a batch is there
  /\ service[h] /\ at[h] = "poll"
  /\ kept' = Forgotten(h)
  /\ Fetch(h)
  /\ offset' = [offset EXCEPT ![h] = IF Forgotten(h) <= posted THEN posted + 1 ELSE @]
  /\ UNCHANGED <<posted, log, finished, service, primary, runs, cut, kills, outages>>
Poll(h) ==
  /\ service[h] /\ at[h] = "poll"
  /\ kept' = Forgotten(h)
  /\ Fetch(h)
  /\ UNCHANGED <<posted, log, finished, offset, service, primary, runs, cut,
                 kills, outages>>

MutantSeen(h) == next[h] \in finished[h]   \* only what was finished
Seen(h) == next[h] \in log[h]
MutantAdvanced(h) == offset' = [offset EXCEPT ![h] = next[h] + 2]   \* off by one
Advanced(h) == offset' = [offset EXCEPT ![h] = next[h] + 1]

\* An update for somebody else, or one that is in the log, is passed over.
MutantPass(h) ==   \* without the offset
  /\ service[h] /\ at[h] = "next"
  /\ next[h] \in Foreign \/ Seen(h)
  /\ NextUpdate(h)
  /\ UNCHANGED <<posted, kept, log, finished, offset, service, primary, runs,
                 cut, kills, outages>>
Pass(h) ==
  /\ service[h] /\ at[h] = "next"
  /\ next[h] \in Foreign \/ Seen(h)
  /\ Advanced(h) /\ NextUpdate(h)
  /\ UNCHANGED <<posted, kept, log, finished, service, primary, runs, cut,
                 kills, outages>>
RecordUpdate(h) ==
  /\ service[h] /\ at[h] = "next"
  /\ next[h] \notin Foreign /\ ~Seen(h)
  /\ log' = [log EXCEPT ![h] = @ \cup {next[h]}]
  /\ Goes(h, "handle")
  /\ UNCHANGED <<posted, kept, finished, offset, service, next, final, primary, runs,
                 cut, kills, outages>>
Handle(h) ==    \* an exception becomes a result
  /\ service[h] /\ at[h] = "handle"
  /\ runs' = [runs EXCEPT ![h][next[h]] = @ + 1]
  /\ Goes(h, "finish")
  /\ UNCHANGED <<posted, kept, log, finished, offset, service, next, final, primary,
                 cut, kills, outages>>
FinishUpdate(h) ==
  /\ service[h] /\ at[h] = "finish"
  /\ finished' = [finished EXCEPT ![h] = @ \cup {next[h]}]
  /\ Goes(h, "advance")
  /\ UNCHANGED <<posted, kept, log, offset, service, next, final, primary, runs, cut,
                 kills, outages>>
Advance(h) ==
  /\ service[h] /\ at[h] = "advance"
  /\ Advanced(h) /\ Goes(h, "reply")
  /\ UNCHANGED <<posted, kept, log, finished, service, next, final, primary, runs, cut,
                 kills, outages>>
Reply(h) ==
  /\ service[h] /\ at[h] = "reply"
  /\ NextUpdate(h)
  /\ UNCHANGED <<posted, kept, log, finished, offset, service, primary, runs, cut,
                 kills, outages>>

-----------------------------------------------------------------------------
(* Kills, and the standby's supervisor.  Failing checks are counted up to   *)
(* FAILURES_REQUIRED: here an outage is one that lasts that long.           *)

Dies(h) ==
  /\ service' = [service EXCEPT ![h] = FALSE]
  /\ at' = [at EXCEPT ![h] = "poll"]
  /\ next' = [next EXCEPT ![h] = 0] /\ final' = [final EXCEPT ![h] = 0]
  /\ cut' = IF at[h] \in {"handle", "finish"} THEN cut \cup {next[h]} ELSE cut
KillService(h) ==
  /\ service[h] /\ kills < MaxKills /\ kills' = kills + 1
  /\ Dies(h)
  /\ UNCHANGED <<posted, kept, log, finished, offset, primary, runs, outages>>
Restart(h) ==   \* Restart=always; the standby's while it is wanted
  /\ ~service[h] /\ (IF h = "primary" THEN primary # "down" ELSE primary # "up")
  /\ service' = [service EXCEPT ![h] = TRUE]
  /\ UNCHANGED <<posted, kept, log, finished, offset, at, next, final, primary, runs,
                 cut, kills, outages>>
Outage ==
  /\ primary = "up" /\ outages < MaxOutages /\ outages' = outages + 1
  /\ \/ primary' = "apart" /\ UNCHANGED <<serviceVars, cut>>
     \/ primary' = "down" /\ Dies("primary")
  /\ UNCHANGED <<posted, kept, log, finished, offset, runs, kills>>
Recovers ==
  /\ primary # "up" /\ primary' = "up"
  /\ UNCHANGED <<posted, kept, log, finished, offset, serviceVars, runs, cut,
                 kills, outages>>
\* A check that succeeds stops the standby's service and copies the offset.
Check ==
  /\ primary = "up" /\ service["primary"]
  /\ IF service["standby"] THEN Dies("standby") ELSE UNCHANGED <<serviceVars, cut>>
  /\ offset' = [offset EXCEPT !["standby"] =
                  IF offset["primary"] > @ THEN offset["primary"] ELSE @]
  /\ UNCHANGED <<posted, kept, log, finished, primary, runs, kills, outages>>

Steps(h) ==
  Poll(h) \/ Pass(h) \/ RecordUpdate(h) \/ Handle(h) \/ FinishUpdate(h)
    \/ Advance(h) \/ Reply(h)
PollNext ==
  \/ Post \/ Outage \/ Recovers \/ Check
  \/ \E h \in Hosts : Steps(h) \/ KillService(h) \/ Restart(h)
\* systemd (and the standby's supervisor) start a service that is wanted, and
\* its thread runs; outages need not end.
PollFairness ==
  \A h \in Hosts : WF_pollVars(Steps(h)) /\ WF_pollVars(Restart(h))
PollSpec == PollInit /\ [][PollNext]_pollVars
FairPollSpec == PollSpec /\ PollFairness

-----------------------------------------------------------------------------
(* A host hands an update to the agent at most once, and not without a row,  *)
(* whatever is killed and delivered again (telegram_control.py:241-247).     *)
OncePerHost ==
  \A h \in Hosts, u \in Ids : runs[h][u] <= (IF u \in log[h] THEN 1 ELSE 0)

(* What the bot API has forgotten was for somebody else, or was finished on  *)
(* a host, or was in the hands of a service when it was killed: the commits, *)
(* the offset and the copy of it never lose an update otherwise              *)
(* (telegram_control.py:234-256, scripts/pmc-telegram-sync-offset).          *)
NothingForgotten ==
  \A u \in 1..posted : u < kept =>
    u \in Foreign \cup cut \/ \E h \in Hosts : u \in finished[h]

(* The queue keeps moving: every update posted is passed by some host's      *)
(* offset in the end, whatever it contains (telegram_control.py:244-252).    *)
Drains == []<>(posted = 0 \/ \E h \in Hosts : offset[h] > posted)
=============================================================================
