----------------------- MODULE CredentialPool_proofs -----------------------
(* The limits of CredentialPool, for any number of lanes, scopes, clients  *)
(* and probers.  TypeOK /\ LimitKept /\ ScopeKept is inductive: a client's *)
(* reservation is the only step that adds a client to a lane, and it finds *)
(* the count of all users below the limit in the same transaction.         *)
EXTENDS CredentialPool, FiniteSetTheorems, TLAPS

\* The clients that hold one of these lanes when the reservations are h.
Carrying(h, lanes) == {c \in Clients : h[c] \in lanes}

\* Every set of users is finite, so counting them makes sense, and the clients
\* on some lanes are no more than all the users on them.
LEMMA UsersCounted ==
  ASSUME NEW h, NEW lanes
  PROVE  /\ IsFiniteSet(Carrying(h, lanes))
         /\ Cardinality(Carrying(h, lanes)) \in Nat
         /\ Cardinality({u \in Users : h[u] \in lanes}) \in Nat
         /\ Cardinality(Carrying(h, lanes))
              <= Cardinality({u \in Users : h[u] \in lanes})
<1> DEFINE all == {u \in Users : h[u] \in lanes}
<1>1. IsFiniteSet(Users)
  BY UsersAssumption, FS_Union DEF Users
<1>2. all \in SUBSET Users
  OBVIOUS
<1>3. IsFiniteSet(all)
  BY <1>1, <1>2, FS_Subset
<1>4. Carrying(h, lanes) \in SUBSET all
  BY DEF Carrying, Users
<1>5. IsFiniteSet(Carrying(h, lanes)) /\ Cardinality(Carrying(h, lanes)) <= Cardinality(all)
  BY <1>3, <1>4, FS_Subset
<1> QED
  BY <1>3, <1>5, FS_CardinalityType

\* A user that moves to a lane outside a set of lanes adds no client to it.
LEMMA ElsewhereAddsNone ==
  ASSUME NEW h \in [Users -> Lanes \cup {NoLane}], NEW u \in Users,
         NEW lanes, NEW l, l \notin lanes
  PROVE  Cardinality(Carrying([h EXCEPT ![u] = l], lanes))
           <= Cardinality(Carrying(h, lanes))
<1>1. Carrying([h EXCEPT ![u] = l], lanes) \in SUBSET Carrying(h, lanes)
  BY DEF Carrying, Users
<1>2. IsFiniteSet(Carrying(h, lanes))
  BY UsersCounted
<1> QED
  BY <1>1, <1>2, FS_Subset

\* A client that takes a lane adds at most itself.
LEMMA TakingAddsOne ==
  ASSUME NEW h \in [Users -> Lanes \cup {NoLane}], NEW c \in Clients,
         NEW lanes, NEW l
  PROVE  Cardinality(Carrying([h EXCEPT ![c] = l], lanes))
           <= Cardinality({u \in Users : h[u] \in lanes}) + 1
<1> DEFINE old == Carrying(h, lanes)
           new == Carrying([h EXCEPT ![c] = l], lanes)
<1>1. new \in SUBSET (old \cup {c})
  BY DEF Carrying, Users
<1>2. /\ IsFiniteSet(old) /\ Cardinality(old) \in Nat
      /\ Cardinality({u \in Users : h[u] \in lanes}) \in Nat
      /\ Cardinality(old) <= Cardinality({u \in Users : h[u] \in lanes})
  BY UsersCounted
<1> HIDE DEF old, new
<1>3. IsFiniteSet(old \cup {c}) /\ Cardinality(old \cup {c}) <= Cardinality(old) + 1
  <2>1. /\ IsFiniteSet(old \cup {c})
        /\ Cardinality(old \cup {c})
             = IF c \in old THEN Cardinality(old) ELSE Cardinality(old) + 1
    BY <1>2, FS_AddElement
  <2> QED
    BY <1>2, <2>1
<1>4. Cardinality(new) <= Cardinality(old \cup {c})
  BY <1>1, <1>3, FS_Subset
<1>5. Cardinality(new) \in Nat /\ Cardinality(old \cup {c}) \in Nat
  BY <1>3, UsersCounted, FS_CardinalityType DEF new
<1> QED
  BY <1>2, <1>3, <1>4, <1>5 DEF new

\* A probe is no client.
LEMMA ProbingAddsNone ==
  ASSUME NEW h \in [Users -> Lanes \cup {NoLane}], NEW p \in Probers,
         NEW lanes, NEW l
  PROVE  Carrying([h EXCEPT ![p] = l], lanes) = Carrying(h, lanes)
BY UsersAssumption DEF Carrying, Users

-----------------------------------------------------------------------------

\* Every step keeps the type invariant.
LEMMA TypeStep == PoolTypeOK /\ [PoolNext]_poolVars => PoolTypeOK'
<1> SUFFICES ASSUME PoolTypeOK, [PoolNext]_poolVars PROVE PoolTypeOK'
  OBVIOUS
<1> USE DEF PoolTypeOK
<1>1. ASSUME NEW c \in Clients, NEW l \in Lanes, Reserve(c, l) PROVE PoolTypeOK'
  BY <1>1 DEF Reserve, laneVars, Users
<1>2. ASSUME NEW p \in Probers, NEW l \in Lanes, Probe(p, l) PROVE PoolTypeOK'
  BY <1>2, InputsAssumption DEF Probe, laneVars, Users
<1>3. ASSUME NEW u \in Users, NEW a \in LaneAnswer, NEW cools \in BOOLEAN,
             NEW left \in {"enough"} \cup Shortages, Reconcile(u, a, cools, left)
      PROVE  PoolTypeOK'
  <2>1. HealthAfter(a) \in Health
    BY DEF HealthAfter, Health
  <2>2. health' \in [Lanes -> Health] /\ cooling' \in [Lanes -> BOOLEAN]
    BY <1>3, <2>1 DEF Reconcile
  <2>3. tokens' \in [Lanes -> {"enough"} \cup Shortage]
    BY <1>3, InputsAssumption DEF Reconcile
  <2>4. held' \in [Users -> Lanes \cup {NoLane}]
    BY <1>3 DEF Reconcile
  <2> QED
    BY <1>3, <2>2, <2>3, <2>4 DEF Reconcile
<1>4. ASSUME NEW u \in Users, NEW answers, answers \subseteq LaneAnswer, ReplyTo(u, answers)
      PROVE  PoolTypeOK'
  BY <1>3, <1>4 DEF ReplyTo
<1>5. ASSUME NEW c \in Clients, Kill(c) PROVE PoolTypeOK'
  BY <1>5 DEF Kill, laneVars
<1>6. ASSUME NEW l \in Lanes, CooldownEnds(l) PROVE PoolTypeOK'
  BY <1>6 DEF CooldownEnds
<1>7. ASSUME NEW l \in Lanes, TokensReset(l) PROVE PoolTypeOK'
  BY <1>7 DEF TokensReset
<1>8. CASE UNCHANGED poolVars
  BY <1>8 DEF poolVars, laneVars
<1>9. ASSUME NEW c \in Clients, Serve(c) PROVE PoolTypeOK'
  BY <1>4, <1>9, InputsAssumption DEF Serve, Users
<1>10. ASSUME NEW p \in Probers, CheckLane(p) PROVE PoolTypeOK'
  BY <1>4, <1>10, InputsAssumption DEF CheckLane, Users
<1> QED
  BY <1>1, <1>2, <1>5, <1>6, <1>7, <1>8, <1>9, <1>10 DEF PoolNext

-----------------------------------------------------------------------------

\* What one step does to the clients on any set of lanes: it adds none, or it
\* is the reservation of a lane with room to spare.
LEMMA OnlyReserveAdds ==
  ASSUME PoolTypeOK, [PoolNext]_poolVars
  PROVE  \/ \E c \in Clients, l \in Lanes : Reserve(c, l)
         \/ \A lanes \in SUBSET Lanes :
              Cardinality(Carrying(held', lanes)) <= Cardinality(Carrying(held, lanes))
<1> DEFINE NoMore == \A lanes \in SUBSET Lanes :
      Cardinality(Carrying(held', lanes)) <= Cardinality(Carrying(held, lanes))
<1>1. held \in [Users -> Lanes \cup {NoLane}]
  BY DEF PoolTypeOK
<1>2. ASSUME held' = held PROVE NoMore
  <2>1. TAKE lanes \in SUBSET Lanes
  <2>2. Carrying(held', lanes) = Carrying(held, lanes)
    BY <1>2
  <2>3. Cardinality(Carrying(held, lanes)) \in Nat
    BY UsersCounted
  <2> QED
    BY <2>2, <2>3
<1>3. ASSUME NEW u \in Users, NEW a, NEW cools, NEW left, Reconcile(u, a, cools, left)
      PROVE  NoMore
  BY <1>1, <1>3, LanesAssumption, ElsewhereAddsNone DEF Reconcile
<1>4. ASSUME NEW p \in Probers, NEW l \in Lanes, Probe(p, l) PROVE NoMore
  <2>1. TAKE lanes \in SUBSET Lanes
  <2>2. Carrying(held', lanes) = Carrying(held, lanes)
    BY <1>1, <1>4, ProbingAddsNone DEF Probe
  <2>3. Cardinality(Carrying(held, lanes)) \in Nat
    BY UsersCounted
  <2> QED
    BY <2>2, <2>3
<1>5. ASSUME NEW c \in Clients, Serve(c) PROVE NoMore
  BY <1>3, <1>5 DEF Serve, ReplyTo, Users
<1>6. ASSUME NEW p \in Probers, CheckLane(p) PROVE NoMore
  BY <1>3, <1>6 DEF CheckLane, ReplyTo, Users
<1>7. ASSUME NEW c \in Clients, Kill(c) PROVE NoMore
  BY <1>2, <1>7 DEF Kill
<1>8. ASSUME NEW l \in Lanes, CooldownEnds(l) \/ TokensReset(l) PROVE NoMore
  BY <1>2, <1>8 DEF CooldownEnds, TokensReset
<1>9. CASE UNCHANGED poolVars
  BY <1>2, <1>9 DEF poolVars
<1> QED
  BY <1>4, <1>5, <1>6, <1>7, <1>8, <1>9 DEF PoolNext

\* Every step keeps the lane limits.
LEMMA LimitStep == PoolTypeOK /\ LimitKept /\ [PoolNext]_poolVars => LimitKept'
<1> SUFFICES ASSUME PoolTypeOK, LimitKept, [PoolNext]_poolVars, NEW m \in Lanes
             PROVE  Cardinality(Carrying(held', {m})) <= Limit[m]
  BY DEF LimitKept, ClientsOn, Carrying
<1>1. Limit[m] \in Nat /\ Cardinality(Carrying(held, {m})) <= Limit[m]
  BY LimitAssumption DEF LimitKept, ClientsOn, Carrying
<1>2. held \in [Users -> Lanes \cup {NoLane}]
  BY DEF PoolTypeOK
<1>3. /\ Cardinality(Carrying(held', {m})) \in Nat
      /\ Cardinality(Carrying(held, {m})) \in Nat
  BY UsersCounted
<1>4. ASSUME NEW c \in Clients, NEW l \in Lanes, Reserve(c, l)
      PROVE  Cardinality(Carrying(held', {m})) <= Limit[m]
  <2>1. held' = [held EXCEPT ![c] = l] /\ Active(l) < Limit[l]
    BY <1>4 DEF Reserve, Eligible, Spare
  <2>2. CASE l = m
    <3>1. Cardinality(Carrying(held', {m})) <= Active(m) + 1
      BY <1>2, <2>1, TakingAddsOne DEF Active, On
    <3>2. Active(m) \in Nat
      BY UsersCounted DEF Active, On
    <3> QED
      BY <1>1, <1>3, <2>1, <2>2, <3>1, <3>2
  <2>3. CASE l # m
    <3>1. Cardinality(Carrying(held', {m})) <= Cardinality(Carrying(held, {m}))
      BY <1>2, <2>1, <2>3, ElsewhereAddsNone DEF Users
    <3> QED
      BY <1>1, <1>3, <3>1
  <2> QED
    BY <2>2, <2>3
<1>5. CASE \A lanes \in SUBSET Lanes :
             Cardinality(Carrying(held', lanes)) <= Cardinality(Carrying(held, lanes))
  <2>1. Cardinality(Carrying(held', {m})) <= Cardinality(Carrying(held, {m}))
    BY <1>5
  <2> QED
    BY <1>1, <1>3, <2>1
<1> QED
  BY <1>4, <1>5, OnlyReserveAdds

\* Every step keeps the limits of the shared scopes.
LEMMA ScopeStep == PoolTypeOK /\ ScopeKept /\ [PoolNext]_poolVars => ScopeKept'
<1> SUFFICES ASSUME PoolTypeOK, ScopeKept, [PoolNext]_poolVars, NEW s \in Scopes,
                    InScope(s) # {}, InScope(s) \subseteq Confirmed
             PROVE  \E m \in InScope(s) :
                      Cardinality(Carrying(held', InScope(s))) <= Limit[m]
  BY DEF ScopeKept, ClientsOn, Carrying
<1>1. InScope(s) \subseteq Lanes
  BY ScopesAssumption DEF InScope
<1>2. held \in [Users -> Lanes \cup {NoLane}]
  BY DEF PoolTypeOK
<1>3. /\ Cardinality(Carrying(held', InScope(s))) \in Nat
      /\ Cardinality(Carrying(held, InScope(s))) \in Nat
  BY UsersCounted
<1>4. PICK m \in InScope(s) : Cardinality(Carrying(held, InScope(s))) <= Limit[m]
  BY DEF ScopeKept, ClientsOn, Carrying
<1>5. Limit[m] \in Nat
  BY <1>1, <1>4, LimitAssumption
<1>6. ASSUME Cardinality(Carrying(held', InScope(s)))
               <= Cardinality(Carrying(held, InScope(s)))
      PROVE  Cardinality(Carrying(held', InScope(s))) <= Limit[m]
  BY <1>3, <1>4, <1>5, <1>6
<1>7. ASSUME NEW c \in Clients, NEW l \in Lanes, Reserve(c, l)
      PROVE  \E n \in InScope(s) :
               Cardinality(Carrying(held', InScope(s))) <= Limit[n]
  <2>1. held' = [held EXCEPT ![c] = l]
    BY <1>7 DEF Reserve
  <2>2. CASE l \in InScope(s)
    <3>1. SameScope(l) = InScope(s)
      BY <2>2 DEF SameScope, InScope
    <3>2. Cardinality(On(InScope(s))) < Limit[l]
      BY <1>7, <2>2, <3>1 DEF Reserve, Eligible, Spare
    <3>3. /\ Cardinality(Carrying(held', InScope(s))) <= Cardinality(On(InScope(s))) + 1
          /\ Cardinality(On(InScope(s))) \in Nat
      BY <1>2, <2>1, TakingAddsOne, UsersCounted DEF On
    <3>4. Limit[l] \in Nat
      BY LimitAssumption
    <3>5. Cardinality(Carrying(held', InScope(s))) <= Limit[l]
      BY <1>3, <3>2, <3>3, <3>4
    <3> QED
      BY <2>2, <3>5
  <2>3. CASE l \notin InScope(s)
    <3>1. Cardinality(Carrying(held', InScope(s)))
            <= Cardinality(Carrying(held, InScope(s)))
      BY <1>2, <2>1, <2>3, ElsewhereAddsNone DEF Users
    <3> QED
      BY <1>4, <1>6, <3>1
  <2> QED
    BY <2>2, <2>3
<1>8. CASE \A lanes \in SUBSET Lanes :
             Cardinality(Carrying(held', lanes)) <= Cardinality(Carrying(held, lanes))
  BY <1>1, <1>4, <1>6, <1>8
<1> QED
  BY <1>7, <1>8, OnlyReserveAdds

-----------------------------------------------------------------------------

\* At the start nobody holds a lane.
LEMMA NoneAtFirst == ASSUME PoolInit PROVE PoolTypeOK /\ LimitKept /\ ScopeKept
<1>1. PoolTypeOK
  BY InputsAssumption DEF PoolInit, PoolTypeOK, Health
<1>2. \A lanes \in SUBSET Lanes : ClientsOn(lanes) = {}
  BY LanesAssumption DEF PoolInit, ClientsOn, Users
<1>3. \A lanes \in SUBSET Lanes : Cardinality(ClientsOn(lanes)) = 0
  BY <1>2, FS_EmptySet
<1>4. LimitKept
  BY <1>3, LimitAssumption DEF LimitKept
<1>5. ASSUME NEW s \in Scopes, NEW l \in InScope(s)
      PROVE  Cardinality(ClientsOn(InScope(s))) <= Limit[l]
  BY <1>3, ScopesAssumption, LimitAssumption DEF InScope
<1>6. ScopeKept
  BY <1>5 DEF ScopeKept
<1> QED
  BY <1>1, <1>4, <1>6

\* The rows of the pool always hold values of their types; in particular no
\* lane is ever marked QUOTA_EXHAUSTED or DISABLED.
THEOREM PoolTypeCorrect == PoolSpec => []PoolTypeOK
<1>1. PoolInit => PoolTypeOK
  BY NoneAtFirst
<1> QED
  BY <1>1, TypeStep, PTL DEF PoolSpec

\* No lane ever carries more requests than its concurrency limit, whatever the
\* number of lanes, clients, probes and kills.
THEOREM LaneLimitHolds == PoolSpec => []LimitKept
<1>1. PoolInit => LimitKept
  BY NoneAtFirst
<1> QED
  BY <1>1, PoolTypeCorrect, LimitStep, PTL DEF PoolSpec

\* The lanes of a confirmed quota scope together never carry more requests than
\* the limit of one of them.
THEOREM ScopeLimitHolds == PoolSpec => []ScopeKept
<1>1. PoolInit => ScopeKept
  BY NoneAtFirst
<1> QED
  BY <1>1, PoolTypeCorrect, ScopeStep, PTL DEF PoolSpec
=============================================================================
