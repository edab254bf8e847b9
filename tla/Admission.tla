----------------------------- MODULE Admission -----------------------------
(***************************************************************************)
(* Which candidate an attempt gets, and the resource lease it runs under.  *)
(* Workers are controllers that each run one job: they choose a candidate, *)
(* begin an attempt, lease its resource, run the executor with a heartbeat *)
(* on the lease, release it and settle the attempt by the retry policy of  *)
(* its outcome; each of these is a commit of its own, and what choose read *)
(* may have changed by the next one.  The lease of a job (JobLifecycle) is *)
(* reduced to its owner.  Which of the candidates that fit is chosen, by   *)
(* order, by cold start, by score or at random, is left open.              *)
(***************************************************************************)
EXTENDS Naturals, Sequences, FiniteSets

CONSTANTS
  Jobs, Workers, NoOne,
  Duty,            \* bound: the job each worker is there for
  Candidates, NoCandidate,
  Keys, KeyOf,     \* resource_group, or the candidate's own key
  Need, Capacity,  \* resource_requirements of a candidate (0: none), of a key
  Single,          \* the candidates of a group with resource_concurrency = 1
  Concurrent,      \* max_concurrency
  MaxAttempts,     \* min(budget.max_attempts, 1 + budget.max_repairs)
  SameRetries,     \* same_candidate_retries
  Fates,           \* what attempts end in: a subset of Fate
  Losers,          \* bound: the workers that may lose their job's lease
  Stalling,        \* bound: those whose resource heartbeat may come too late
  Mortal           \* bound: those that may be killed

Fate == {"ready", "same", "alternate", "requeue", "block"}
ASSUME AdmissionAssumption ==
  /\ NoOne \notin Workers /\ NoCandidate \notin Candidates /\ IsFiniteSet(Jobs)
  /\ KeyOf \in [Candidates -> Keys] /\ Need \in [Candidates -> Nat] /\ Capacity \in Nat
  /\ Duty \in [Workers -> Jobs] /\ Concurrent \in [Candidates -> Nat] /\ MaxAttempts \in Nat /\ SameRetries \in Nat
  /\ Fates \subseteq Fate

VARIABLES
  owner,      \* the worker that has the job's lease
  jobState,   \* "open" is QUEUED, RUNNING or RETRY
  decided,    \* scheduler_decisions.candidate, by attempt number
  given,      \* attempts: their candidate, by attempt number
  running,    \* those RUNNING
  resource,   \* resource_leases: by key and job, the holder, and if unexpired
  place,      \* where a worker is
  candidate,  \* the candidate of its attempt
  total,      \* total_attempts
  used, exclude, same, fate,
  deposed,    \* history: workers that lost the lease of their job
  late,       \* history: workers whose resource lease expired under them
  robbed,     \* history: workers whose resource lease another one released
  unchecked   \* history: workers whose candidate was not found available, or
              \* was begun by another since

rowVars == <<owner, jobState, decided, given, running, resource>>
localVars == <<candidate, total, used, exclude, same, fate>>
fateVars == <<deposed, late, robbed>>
admissionVars == <<rowVars, place, localVars, fateVars, unchecked>>

NoLease == [by |-> NoOne, fresh |-> FALSE, need |-> 0]
Places == {"idle", "loop", "begin", "reserve", "run", "settle", "raise", "dead"}

AdmissionTypeOK ==
  /\ owner \in [Jobs -> Workers \cup {NoOne}]
  /\ jobState \in [Jobs -> {"open", "READY", "BLOCKED", "FAILED"}]
  /\ decided \in [Jobs -> [1..MaxAttempts -> Candidates \cup {NoCandidate}]]
  /\ \A j \in Jobs : given[j] \in Seq(Candidates) /\ Len(given[j]) <= MaxAttempts
                     /\ running[j] \subseteq DOMAIN given[j]
  /\ \A k \in Keys, j \in Jobs : resource[k][j].by = NoOne => resource[k][j] = NoLease
  /\ place \in [Workers -> Places] /\ exclude \in [Workers -> SUBSET Candidates]
  /\ \A w \in Workers : place[w] \in {"begin", "reserve", "run", "settle"} =>
       candidate[w] \in Candidates /\ total[w] < MaxAttempts
  /\ \A w \in Workers : place[w] \in {"reserve", "run", "settle"} =>
       given[Duty[w]][total[w] + 1] = candidate[w]

AdmissionInit ==
  /\ owner = [j \in Jobs |-> NoOne] /\ jobState = [j \in Jobs |-> "open"]
  /\ decided = [j \in Jobs |-> [n \in 1..MaxAttempts |-> NoCandidate]]
  /\ given = [j \in Jobs |-> <<>>] /\ running = [j \in Jobs |-> {}]
  /\ resource = [k \in Keys |-> [j \in Jobs |-> NoLease]]
  /\ place = [w \in Workers |-> "idle"]
  /\ candidate = [w \in Workers |-> NoCandidate] /\ total = [w \in Workers |-> 0]
  /\ used = [w \in Workers |-> <<>>] /\ exclude = [w \in Workers |-> {}]
  /\ same = [w \in Workers |-> NoCandidate] /\ fate = [w \in Workers |-> "ready"]
  /\ deposed = {} /\ late = {} /\ robbed = {} /\ unchecked = {}

Moves(w, to) == place' = [place EXCEPT ![w] = to]
Lets(w) ==    \* what a worker forgets on its way out of a job
  /\ candidate' = [candidate EXCEPT ![w] = NoCandidate]
  /\ total' = [total EXCEPT ![w] = 0] /\ used' = [used EXCEPT ![w] = <<>>]
  /\ exclude' = [exclude EXCEPT ![w] = {}] /\ same' = [same EXCEPT ![w] = NoCandidate]
  /\ fate' = [fate EXCEPT ![w] = "ready"] /\ unchecked' = unchecked \ {w}

-----------------------------------------------------------------------------
(* A worker takes a job: its recovery closes the attempts left RUNNING.     *)

TakeJob(w) ==
  LET j == Duty[w] IN
  /\ place[w] = "idle" /\ owner[j] = NoOne /\ jobState[j] = "open"
  /\ owner' = [owner EXCEPT ![j] = w] /\ running' = [running EXCEPT ![j] = {}]
  /\ total' = [total EXCEPT ![w] = Len(given[j])] /\ Moves(w, "loop")
  /\ UNCHANGED <<jobState, decided, given, resource, candidate, used, exclude, same,
                 fate, fateVars, unchecked>>
Disown(w) == owner' = [j \in Jobs |-> IF owner[j] = w THEN NoOne ELSE owner[j]]
\* An exception, and the end of the run: the job's lease is released.
LeaveJob(w) ==
  /\ place[w] = "raise"
  /\ Disown(w) /\ Moves(w, "idle") /\ Lets(w)
  /\ UNCHANGED <<jobState, decided, given, running, resource, fateVars>>
Exhausted(w) ==
  /\ place[w] = "loop" /\ total[w] >= MaxAttempts
  /\ jobState' = [jobState EXCEPT ![Duty[w]] = "FAILED"] /\ Moves(w, "raise")
  /\ UNCHANGED <<owner, decided, given, running, resource, localVars, fateVars,
                 unchecked>>

-----------------------------------------------------------------------------
(* Scheduler.available and choose.                                          *)

Attempts(c) ==
  {a \in Jobs \X (1..MaxAttempts) : a[2] \in running[a[1]] /\ given[a[1]][a[2]] = c}
Leases(k) == {j \in Jobs : resource[k][j].by # NoOne}
Unexpired(k) == {j \in Leases(k) : resource[k][j].fresh}
\* The sum of a function of numbers: how many units there are under its graph.
SumOf(amount) ==
  Cardinality(UNION {{x} \X (1..amount[x]) : x \in DOMAIN amount})
Booked(k, rows) == SumOf([j \in rows |-> resource[k][j].need])

MutantAvailable(c) ==   \* > for >=
  /\ Cardinality(Attempts(c)) <= Concurrent[c]
  /\ c \in Single => Unexpired(KeyOf[c]) = {}
Available(c) ==
  /\ Cardinality(Attempts(c)) < Concurrent[c]
  /\ c \in Single =>
       /\ Unexpired(KeyOf[c]) = {}
       /\ \A d \in Candidates : KeyOf[d] = KeyOf[c] => Attempts(d) = {}
  /\ Need[c] > 0 => Booked(KeyOf[c], Unexpired(KeyOf[c])) + Need[c] <= Capacity
Pool == {c \in Candidates : Available(c)}
\* After enough attempts the last candidate is avoided, too; with nobody left
\* the exclusions are lifted.
Wanted(w) ==
  Pool \ (exclude[w] \cup (IF used[w] # <<>> /\ Len(used[w]) >= SameRetries
                           THEN {used[w][Len(used[w])]} ELSE {}))
Options(w) == IF Wanted(w) # {} THEN Wanted(w) ELSE Pool

Decides(w, c) ==
  /\ candidate' = [candidate EXCEPT ![w] = c]
  /\ used' = [used EXCEPT ![w] = Append(@, c)]
  /\ exclude' = [exclude EXCEPT ![w] = {}]
  /\ Moves(w, "begin")
  /\ UNCHANGED <<owner, jobState, given, running, resource, total, fate,
                 fateVars>>
Deciding(w) == place[w] = "loop" /\ total[w] < MaxAttempts
Persisted(w) == decided[Duty[w]][total[w] + 1]
Records(w, c) == decided' = [decided EXCEPT ![Duty[w]][total[w] + 1] = c]

\* A decision a killed worker left is followed, whatever became of the candidate.
Follow(w) ==
  /\ Deciding(w) /\ Persisted(w) # NoCandidate
  /\ Decides(w, Persisted(w)) /\ unchecked' = unchecked \cup {w}
  /\ UNCHANGED <<decided, same>>
RetrySame(w) ==
  /\ Deciding(w) /\ Persisted(w) = NoCandidate /\ same[w] # NoCandidate
  /\ Decides(w, same[w]) /\ Records(w, same[w])
  /\ same' = [same EXCEPT ![w] = NoCandidate]
  /\ unchecked' = unchecked \cup {w}
Choose(w, c) ==
  /\ Deciding(w) /\ Persisted(w) = NoCandidate /\ same[w] = NoCandidate
  /\ c \in Options(w)
  /\ Decides(w, c) /\ Records(w, c) /\ unchecked' = unchecked \ {w}
  /\ UNCHANGED same
NobodyAvailable(w) ==
  /\ Deciding(w) /\ Persisted(w) = NoCandidate /\ same[w] = NoCandidate
  /\ Options(w) = {} /\ Moves(w, "raise")
  /\ UNCHANGED <<rowVars, localVars, fateVars, unchecked>>

-----------------------------------------------------------------------------
(* The attempt, its resource and its outcome.                               *)

MutantBeginRow(w) ==   \* without UNIQUE(job_id, attempt_no)
  LET j == Duty[w] IN
  /\ place[w] = "begin"
  /\ given' = [given EXCEPT ![j] = Append(@, candidate[w])]
  /\ running' = [running EXCEPT ![j] = @ \cup {total[w] + 1}]
  /\ unchecked' = unchecked \cup {v \in Workers \ {w} : place[v] = "begin"
                                    /\ KeyOf[candidate[v]] = KeyOf[candidate[w]]}
  /\ Moves(w, "reserve")
  /\ UNCHANGED <<owner, jobState, decided, resource, localVars, fateVars>>
BeginRow(w) ==
  LET j == Duty[w] IN
  /\ place[w] = "begin" /\ Len(given[j]) = total[w]
  /\ given' = [given EXCEPT ![j] = Append(@, candidate[w])]
  /\ running' = [running EXCEPT ![j] = @ \cup {total[w] + 1}]
  /\ unchecked' = unchecked \cup {v \in Workers \ {w} : place[v] = "begin"
                                    /\ KeyOf[candidate[v]] = KeyOf[candidate[w]]}
  /\ Moves(w, "reserve")
  /\ UNCHANGED <<owner, jobState, decided, resource, localVars, fateVars>>
RowTaken(w) ==   \* UNIQUE(job_id, attempt_no): another worker began it
  /\ place[w] = "begin" /\ Len(given[Duty[w]]) # total[w] /\ Moves(w, "raise")
  /\ UNCHANGED <<rowVars, localVars, fateVars, unchecked>>

\* reserve_resource deletes what has expired before it looks.
Swept == [k \in Keys |-> [j \in Jobs |->
            IF resource[k][j].fresh THEN resource[k][j] ELSE NoLease]]
Room(w) ==
  LET k == KeyOf[candidate[w]] IN
  IF Need[candidate[w]] > 0
  THEN Booked(k, Unexpired(k)) + Need[candidate[w]] <= Capacity
  ELSE Unexpired(k) = {}
Own(w) == resource[KeyOf[candidate[w]]][Duty[w]]
Reserve(w) ==
  /\ place[w] = "reserve" /\ Room(w) /\ ~Own(w).fresh
  /\ resource' = [Swept EXCEPT ![KeyOf[candidate[w]]][Duty[w]] =
                    [by |-> w, fresh |-> TRUE, need |-> Need[candidate[w]]]]
  /\ Moves(w, "run") /\ late' = late \ {w} /\ robbed' = robbed \ {w}
  /\ UNCHANGED <<owner, jobState, decided, given, running, localVars, deposed, unchecked>>
RowStays(w) ==   \* PRIMARY KEY(resource_key, job_id): a predecessor's, rolled back
  /\ place[w] = "reserve" /\ Room(w) /\ Own(w).fresh /\ Moves(w, "raise")
  /\ UNCHANGED <<rowVars, localVars, fateVars, unchecked>>
\* No room: the attempt is over and counts, and the next one is begun at once.
Refuse(w) ==
  /\ place[w] = "reserve" /\ ~Room(w)
  /\ resource' = Swept
  /\ running' = [running EXCEPT ![Duty[w]] = @ \ {total[w] + 1}]
  /\ total' = [total EXCEPT ![w] = @ + 1] /\ Moves(w, "loop")
  /\ UNCHANGED <<owner, jobState, decided, given, candidate, used, exclude,
                 same, fate, fateVars, unchecked>>

RenewResource(w) ==   \* an expired row that nobody swept is as good as new
  /\ place[w] = "run" /\ Own(w).by = w /\ ~Own(w).fresh
  /\ resource' = [resource EXCEPT ![KeyOf[candidate[w]]][Duty[w]].fresh = TRUE]
  /\ UNCHANGED <<owner, jobState, decided, given, running, place, localVars, fateVars,
                 unchecked>>
MutantReleaseResource(w, f) ==   \* WHERE resource_key=?
  /\ place[w] = "run" /\ f \in Fates
  /\ resource' = [resource EXCEPT ![KeyOf[candidate[w]]] = [j \in Jobs |-> NoLease]]
  /\ robbed' = (robbed \ {w}) \cup {v \in Workers \ {w} : Own(w).by = v}
  /\ late' = late \ {w}
  /\ fate' = [fate EXCEPT ![w] = f] /\ Moves(w, "settle")
  /\ UNCHANGED <<owner, jobState, decided, given, running, candidate, total,
                 used, exclude, same, deposed, unchecked>>
ReleaseResource(w, f) ==   \* by key and job, whoever holds it
  /\ place[w] = "run" /\ f \in Fates
  /\ resource' = [resource EXCEPT ![KeyOf[candidate[w]]][Duty[w]] = NoLease]
  /\ robbed' = (robbed \ {w}) \cup {v \in Workers \ {w} : Own(w).by = v}
  /\ late' = late \ {w}
  /\ fate' = [fate EXCEPT ![w] = f] /\ Moves(w, "settle")
  /\ UNCHANGED <<owner, jobState, decided, given, running, candidate, total,
                 used, exclude, same, deposed, unchecked>>

Times(w, c) == Cardinality({i \in DOMAIN used[w] : used[w][i] = c})
Settle(w) ==
  LET j == Duty[w]  c == candidate[w]
      again == fate[w] = "same" /\ Times(w, c) <= SameRetries
  IN
  /\ place[w] = "settle"
  /\ running' = [running EXCEPT ![j] = @ \ {total[w] + 1}]
  /\ total' = [total EXCEPT ![w] = @ + 1]
  /\ jobState' = [jobState EXCEPT ![j] = CASE fate[w] = "ready" -> "READY"
                                           [] fate[w] = "block" -> "BLOCKED"
                                           [] OTHER -> "open"]
  /\ Moves(w, IF fate[w] \in {"ready", "block"} THEN "raise" ELSE "loop")
  /\ same' = [same EXCEPT ![w] = IF again THEN c ELSE @]
  /\ exclude' = [exclude EXCEPT ![w] =
       IF fate[w] = "alternate" \/ (fate[w] = "same" /\ ~again) THEN @ \cup {c} ELSE @]
  /\ fate' = [fate EXCEPT ![w] = "ready"]
  /\ UNCHANGED <<owner, decided, given, resource, candidate, used, fateVars,
                 unchecked>>

-----------------------------------------------------------------------------
(* Kills and leases that lapse.                                             *)

KillWorker(w) ==   \* its rows stay
  /\ w \in Mortal /\ place[w] \notin {"idle", "dead"} /\ Moves(w, "dead")
  /\ late' = late \ {w} /\ robbed' = robbed \ {w}
  /\ total' = [total EXCEPT ![w] = 0] /\ used' = [used EXCEPT ![w] = <<>>]
  /\ exclude' = [exclude EXCEPT ![w] = {}] /\ same' = [same EXCEPT ![w] = NoCandidate]
  /\ fate' = [fate EXCEPT ![w] = "ready"] /\ unchecked' = unchecked \ {w}
  /\ UNCHANGED <<rowVars, candidate, deposed>>
LoseJob(w) ==
  /\ owner[Duty[w]] = w
  /\ place[w] = "dead" \/ w \in Losers
  /\ Disown(w) /\ deposed' = IF place[w] = "dead" THEN deposed ELSE deposed \cup {w}
  /\ UNCHANGED <<jobState, decided, given, running, resource, place, localVars, late,
                 robbed, unchecked>>
ExpireResource(w) ==
  /\ candidate[w] # NoCandidate /\ Own(w).by = w /\ Own(w).fresh
  /\ \/ place[w] = "dead"
     \/ place[w] = "run" /\ w \in Stalling \ late
  /\ resource' = [resource EXCEPT ![KeyOf[candidate[w]]][Duty[w]].fresh = FALSE]
  /\ late' = IF place[w] = "dead" THEN late ELSE late \cup {w}
  /\ UNCHANGED <<owner, jobState, decided, given, running, place, localVars, deposed,
                 robbed, unchecked>>

AdmissionNext ==
  \E w \in Workers :
    \/ TakeJob(w) \/ LeaveJob(w) \/ Exhausted(w) \/ Follow(w) \/ RetrySame(w) \/ NobodyAvailable(w)
    \/ BeginRow(w) \/ RowTaken(w) \/ Reserve(w) \/ RowStays(w) \/ Refuse(w)
    \/ RenewResource(w) \/ Settle(w) \/ KillWorker(w) \/ LoseJob(w) \/ ExpireResource(w)
    \/ \E c \in Candidates : Choose(w, c)
    \/ \E f \in Fates : ReleaseResource(w, f)
AdmissionSpec == AdmissionInit /\ [][AdmissionNext]_admissionVars

-----------------------------------------------------------------------------
(* The executors that run on a resource at once fit it, but for a worker    *)
(* whose lease expired under it, or was released by another worker of its   *)
(* job, which needs a worker that lost its job's lease (db.py:1660-1739).    *)
Honest(k) == {w \in Workers \ (late \cup robbed) :
                place[w] = "run" /\ KeyOf[candidate[w]] = k}
ResourceKept ==
  /\ \A k \in Keys :
       /\ Cardinality({w \in Honest(k) : Need[candidate[w]] = 0}) <= 1
       /\ SumOf([w \in Honest(k) |-> Need[candidate[w]]]) <= Capacity
  /\ robbed # {} => deposed # {}

(* More attempts than max_concurrency, or than one in a group of            *)
(* resource_concurrency 1, run only by a decision that was not checked: one *)
(* made at the same time, a retry of the same candidate, or a decision left *)
(* by a killed worker (scheduler.py:144-152, controller.py:440-480).         *)
Active(cs) == {w \in Workers : place[w] \in {"reserve", "run", "settle"}
                               /\ candidate[w] \in cs /\ owner[Duty[w]] = w}
ConcurrencyKept ==
  \A c \in Candidates :
    /\ Cardinality(Active({c})) > Concurrent[c] => Active({c}) \cap unchecked # {}
    /\ LET group == {d \in Single : KeyOf[d] = KeyOf[c]}
       IN Cardinality(Active(group)) > 1 => Active(group) \cap unchecked # {}
=============================================================================
