-------------------------- MODULE CredentialPool --------------------------
(***************************************************************************)
(* The credential lanes of one provider and the reservations on them.      *)
(* Clients are the users of ModelRequestAccounting (bash loop, gateway,    *)
(* planner, reviewer calls): each reserves a lane for one physical model   *)
(* request, sends it, and reconciles the reservation with the answer.      *)
(* Probers are the threads of `pmc credentials probe`.  Every lane is      *)
(* enabled and has its secret in the environment.  The quota_reservations  *)
(* and model_requests rows written beside these are left out.              *)
(***************************************************************************)
EXTENDS Naturals, FiniteSets

CONSTANTS
  Lanes,       \* provider_credentials rows of the provider
  NoLane,
  Scopes,      \* quota_scope_id values
  ScopeOf,     \* the scope of each lane that has one: a partial function
  Confirmed,   \* the lanes whose quota_scope_confidence is not UNKNOWN
  Limit,       \* concurrency_limit of each lane
  Clients, Probers,
  LaneAnswers, \* the answers a client may get: a subset of LaneAnswer
  Shortages,   \* the token counters a reply may report: of Shortage
  Killable,    \* the clients that may be killed
  MaxProbes    \* bound: probes started

LaneAnswer == {"ok", "silent", "rejected", "limited", "error"}
Shortage == {"short", "stuck"}
Users == Clients \cup Probers

ASSUME LanesAssumption == NoLane \notin Lanes
ASSUME ScopesAssumption ==
  /\ DOMAIN ScopeOf \subseteq Lanes
  /\ \A l \in DOMAIN ScopeOf : ScopeOf[l] \in Scopes
  /\ Confirmed \subseteq Lanes
ASSUME LimitAssumption == Limit \in [Lanes -> Nat]
ASSUME UsersAssumption ==
  /\ IsFiniteSet(Clients) /\ IsFiniteSet(Probers)
  /\ Clients \cap Probers = {} /\ Killable \subseteq Clients
ASSUME InputsAssumption ==
  LaneAnswers \subseteq LaneAnswer /\ Shortages \subseteq Shortage /\ MaxProbes \in Nat

VARIABLES
  health,   \* provider_credentials.health
  cooling,  \* cooldown_until is ahead
  tokens,   \* the token counter against what a request needs: "enough" (or
            \* unknown), "short" until a known reset, "stuck" with none known
  held,     \* the lane a user's RESERVED credential_reservations row names
  dead,     \* the clients that were killed
  probes    \* probes started so far

laneVars == <<health, cooling, tokens>>
poolVars == <<laneVars, held, dead, probes>>

-----------------------------------------------------------------------------
(* What the rows can hold.  DISABLED and QUOTA_EXHAUSTED, which the code    *)
(* asks for, are written nowhere.                                           *)

Health == {"UNKNOWN", "AVAILABLE", "RATE_LIMITED", "AUTH_FAILED", "DEGRADED"}

PoolTypeOK ==
  /\ health \in [Lanes -> Health] /\ cooling \in [Lanes -> BOOLEAN]
  /\ tokens \in [Lanes -> {"enough"} \cup Shortage]
  /\ held \in [Users -> Lanes \cup {NoLane}]
  /\ dead \subseteq Clients
  /\ probes \in 0..MaxProbes

PoolInit ==
  /\ health = [l \in Lanes |-> "UNKNOWN"]
  /\ cooling = [l \in Lanes |-> FALSE]
  /\ tokens = [l \in Lanes |-> "enough"]
  /\ held = [u \in Users |-> NoLane]
  /\ dead = {} /\ probes = 0

-----------------------------------------------------------------------------
(* Choosing a lane.  The SELECT and the INSERT are one BEGIN IMMEDIATE      *)
(* transaction.                                                             *)

SameScope(l) == {m \in DOMAIN ScopeOf : l \in DOMAIN ScopeOf /\ ScopeOf[m] = ScopeOf[l]}
On(lanes) == {u \in Users : held[u] \in lanes}
Active(l) == Cardinality(On({l}))

MutantLimited(l) ==   \* <= instead of <, for the lane alone
  /\ Active(l) <= Limit[l]
  /\ l \in Confirmed => Cardinality(On(SameScope(l))) < Limit[l]
MutantUnscoped(l) ==  \* the reservations of sibling lanes are not counted
  Active(l) < Limit[l]
Spare(l) ==
  /\ Active(l) < Limit[l]
  /\ l \in Confirmed => Cardinality(On(SameScope(l))) < Limit[l]
MutantEligible(l) ==  \* a lane that was rate limited is not tried again
  /\ health[l] \notin {"AUTH_FAILED", "RATE_LIMITED"} /\ ~cooling[l]
  /\ tokens[l] = "enough" /\ Spare(l)
Eligible(l) ==
  /\ health[l] # "AUTH_FAILED" /\ ~cooling[l] /\ tokens[l] = "enough"
  /\ Spare(l)

\* ORDER BY active, health; `used` and the id, which break ties, are left open.
Rank(l) == IF health[l] = "AVAILABLE" THEN 0
           ELSE IF health[l] = "UNKNOWN" THEN 1 ELSE 2
Before(l, m) == \/ Active(l) < Active(m)
                \/ Active(l) = Active(m) /\ Rank(l) < Rank(m)

Reserve(c, l) ==
  /\ held[c] = NoLane /\ c \notin dead
  /\ Eligible(l) /\ \A m \in Lanes : Eligible(m) => ~Before(m, l)
  /\ held' = [held EXCEPT ![c] = l]
  /\ UNCHANGED <<laneVars, dead, probes>>

\* A probe takes its lane whatever its health, cooldown and limit.
Probe(p, l) ==
  /\ held[p] = NoLane /\ probes < MaxProbes
  /\ probes' = probes + 1
  /\ held' = [held EXCEPT ![p] = l]
  /\ UNCHANGED <<laneVars, dead>>

-----------------------------------------------------------------------------
(* The answer: the provider's, or "silent" when there is none in time.  No  *)
(* status at all, be it a success or a timeout, makes the lane AVAILABLE.   *)

MutantHealthAfter(a) ==   \* the exhausted quota the code asks for elsewhere
  CASE a = "rejected" -> "AUTH_FAILED"  [] a = "limited" -> "QUOTA_EXHAUSTED"
    [] a = "error"    -> "DEGRADED"     [] OTHER         -> "AVAILABLE"
HealthAfter(a) ==
  CASE a = "rejected" -> "AUTH_FAILED"  [] a = "limited" -> "RATE_LIMITED"
    [] a = "error"    -> "DEGRADED"     [] OTHER         -> "AVAILABLE"

\* A 429 is known to hold for every lane of a confirmed scope.
Informed(l, a) ==
  {l} \cup IF a = "limited" /\ l \in Confirmed THEN SameScope(l) ELSE {}

\* A 429 always cools the lane (60 s unless Retry-After says otherwise); any
\* other response may, and clears the cooldown when it does not.
Reconcile(u, a, cools, left) ==
  /\ held[u] # NoLane /\ u \notin dead
  /\ a = "limited" => cools
  /\ a = "silent" => ~cools /\ left = "enough"
  /\ LET informed == Informed(held[u], a)
     IN /\ health' = [l \in Lanes |-> IF l \in informed THEN HealthAfter(a)
                                                         ELSE health[l]]
        /\ cooling' = [l \in Lanes |-> IF l \in informed THEN cools
                                                          ELSE cooling[l]]
  /\ tokens' = [tokens EXCEPT ![held[u]] = left]
  /\ held' = [held EXCEPT ![u] = NoLane]
  /\ UNCHANGED <<dead, probes>>

ReplyTo(u, answers) ==
  \E a \in answers, cools \in BOOLEAN, left \in {"enough"} \cup Shortages :
    Reconcile(u, a, cools, left)
Serve(c) == ReplyTo(c, LaneAnswers)
\* A probe reports every network failure as a 503.
CheckLane(p) == ReplyTo(p, LaneAnswers \ {"silent"})

-----------------------------------------------------------------------------
(* Kills and time.  A killed client leaves its reservation behind, and the  *)
(* recovery of its job does not look at these rows.                         *)

Kill(c) ==
  /\ c \in Killable \ dead
  /\ dead' = dead \cup {c}
  /\ UNCHANGED <<laneVars, held, probes>>

CooldownEnds(l) ==
  /\ cooling[l]
  /\ cooling' = [cooling EXCEPT ![l] = FALSE]
  /\ UNCHANGED <<health, tokens, held, dead, probes>>

TokensReset(l) ==
  /\ tokens[l] = "short"
  /\ tokens' = [tokens EXCEPT ![l] = "enough"]
  /\ UNCHANGED <<health, cooling, held, dead, probes>>

PoolNext ==
  \/ \E c \in Clients : (\E l \in Lanes : Reserve(c, l)) \/ Serve(c) \/ Kill(c)
  \/ \E p \in Probers : (\E l \in Lanes : Probe(p, l)) \/ CheckLane(p)
  \/ \E l \in Lanes : CooldownEnds(l) \/ TokensReset(l)

PoolSpec == PoolInit /\ [][PoolNext]_poolVars

\* A request is answered or times out and its process goes on; time passes.
\* Nobody is bound to reserve a lane or to probe one.
PoolFairness ==
  /\ \A c \in Clients : WF_poolVars(Serve(c))
  /\ \A p \in Probers : WF_poolVars(CheckLane(p))
  /\ \A l \in Lanes : WF_poolVars(CooldownEnds(l)) /\ WF_poolVars(TokensReset(l))
PoolFairSpec == PoolSpec /\ PoolFairness

-----------------------------------------------------------------------------
(* What must hold *)

ClientsOn(lanes) == {c \in Clients : held[c] \in lanes}

\* The requests in flight on a lane never exceed its concurrency limit, with
\* any number of processes reserving at once, probing and being killed.
LimitKept == \A l \in Lanes : Cardinality(ClientsOn({l})) <= Limit[l]

\* The lanes of a quota scope known to be shared do not add up: the requests
\* in flight on all of them are within the limit of one of them.
InScope(s) == {l \in DOMAIN ScopeOf : ScopeOf[l] = s}
ScopeKept ==
  \A s \in Scopes : InScope(s) # {} /\ InScope(s) \subseteq Confirmed =>
    \E l \in InScope(s) : Cardinality(ClientsOn(InScope(s))) <= Limit[l]

\* The pool never stays shut: again and again a lane can be reserved, unless
\* every lane had its key rejected, reports too few tokens and no reset time,
\* or is filled by the reservations of killed clients.
Shut(l) == health[l] = "AUTH_FAILED" \/ tokens[l] = "stuck"
Leaked(l) ==
  LET left(lanes) == Cardinality({c \in dead : held[c] \in lanes})
  IN \/ left({l}) >= Limit[l]
     \/ l \in Confirmed /\ left(SameScope(l)) >= Limit[l]
PoolOpens ==
  []<>((\E l \in Lanes : Eligible(l)) \/ \A l \in Lanes : Shut(l) \/ Leaked(l))

(* What the documentation says, and the code does not keep *)

\* test_crash_recovery.py: recovery after SIGKILL leaves no leak, so kills do
\* not close the pool.
PoolSurvives ==
  []<>((\E l \in Lanes : Eligible(l)) \/ \A l \in Lanes : Shut(l))
=============================================================================
