------------------------ MODULE KeyRotation_safety ------------------------
(* Keys are counted exactly and lent as KeyPool promises, for any number of  *)
(* requests, keys, models and sessions.                                      *)
EXTENDS KeyRotation_proofs, FiniteSetTheorems, WellFoundedInduction

LEMMA UsersFinite ==
  ASSUME RotationAssumption, NEW k, NEW m
  PROVE  IsFiniteSet(Users(k, m))
BY FS_Subset DEF Users, RotationAssumption

(* Every step takes a key, gives one back, or leaves both keys and counters. *)
Returns(r) ==
  /\ pc[r] \in Holding
  /\ \E next \in {"loop", "served", "failed"} : Release(r, next)

LEMMA Steps ==
  ASSUME [Next]_vars
  PROVE  \/ \E r \in Requests : Take(r)
         \/ \E r \in Requests : Returns(r)
         \/ UNCHANGED <<key, inUse>>
<1>1. ASSUME NEW r \in Requests, Serve(r) \/ StreamEnds(r) \/ Disconnect(r)
             \/ Close(r) \/ GiveUp(r) \/ QuotaExceeded(r) \/ RateLimited(r)
             \/ AuthFailed(r) \/ BacksOff(r)
      PROVE  Returns(r)
  BY <1>1 DEF Returns, Holding, Serve, StreamEnds, Disconnect, Close, GiveUp,
     QuotaExceeded, RateLimited, AuthFailed, BacksOff, Rotate
<1>2. ASSUME NEW r \in Requests, Loop(r) \/ Start(r) \/ Queue(r) \/ NoneEligible(r)
             \/ OutOfTime(r) \/ Wake(r) \/ CancelWaiting(r) \/ Connect(r)
             \/ Abandon(r) \/ RetrySameKey(r)
      PROVE  UNCHANGED <<key, inUse>>
  BY <1>2 DEF Loop, Start, Queue, NoneEligible, OutOfTime, Wake, CancelWaiting,
     Connect, Abandon, RetrySameKey
<1>3. ASSUME Elapse \/ (\E k \in Keys : AddKey(k) \/ RemoveKey(k))
               \/ \E s \in Sessions : Evict(s)
      PROVE  UNCHANGED <<key, inUse>>
  BY <1>3 DEF Elapse, AddKey, RemoveKey, Evict
<1> QED  BY <1>1, <1>2, <1>3 DEF Next, Proceed, Answer, vars

LEMMA TakeExact ==
  ASSUME RotationAssumption, TypeOK, InUseExact, NEW r \in Requests, Take(r)
  PROVE  InUseExact'
<1>1. PICK k \in Choice(r) : /\ inUse' = [inUse EXCEPT ![k][ModelOf[r]] = @ + 1]
                             /\ key' = [key EXCEPT ![r] = k]
  BY DEF Take
<1>2. k \in Keys /\ ModelOf[r] \in Models /\ key[r] = None /\ None \notin Keys
  BY ChoiceType DEF Take, TypeOK, Holding, RotationAssumption
<1>3. ASSUME NEW j \in Keys, NEW m \in Models
      PROVE  inUse'[j][m] = Cardinality(Users(j, m)')
  <2>1. inUse[j][m] = Cardinality(Users(j, m)) /\ r \notin Users(j, m)
    BY <1>2 DEF InUseExact, Users
  <2>2. CASE j = k /\ m = ModelOf[r]
    <3>1. Users(j, m)' = Users(j, m) \union {r}
      BY <1>1, <1>2, <2>2 DEF Users, TypeOK
    <3>2. Cardinality(Users(j, m)') = Cardinality(Users(j, m)) + 1
      BY <2>1, <3>1, UsersFinite, FS_AddElement
    <3>3. inUse'[j][m] = inUse[j][m] + 1
      BY <1>1, <1>2, <2>2 DEF TypeOK
    <3> QED  BY <2>1, <3>2, <3>3
  <2>3. CASE ~(j = k /\ m = ModelOf[r])
    <3>1. Users(j, m)' = Users(j, m)
      BY <1>1, <1>2, <2>3 DEF Users, TypeOK
    <3>2. inUse'[j][m] = inUse[j][m]
      BY <1>1, <1>2, <2>3 DEF TypeOK
    <3> QED  BY <2>1, <3>1, <3>2
  <2> QED  BY <2>2, <2>3
<1> QED  BY <1>3 DEF InUseExact

LEMMA ReturnExact ==
  ASSUME RotationAssumption, TypeOK, InUseExact, NEW r \in Requests, Returns(r)
  PROVE  InUseExact'
<1> DEFINE k == key[r]
<1>1. /\ inUse' = [inUse EXCEPT ![k][ModelOf[r]] = @ - 1]
      /\ key' = [key EXCEPT ![r] = None]
  BY DEF Returns, Release
<1>2. k \in Keys /\ ModelOf[r] \in Models /\ None \notin Keys
  BY HeldKey DEF Returns, RotationAssumption
<1>3. ASSUME NEW j \in Keys, NEW m \in Models
      PROVE  inUse'[j][m] = Cardinality(Users(j, m)')
  <2>1. inUse[j][m] = Cardinality(Users(j, m))
    BY DEF InUseExact
  <2>2. CASE j = k /\ m = ModelOf[r]
    <3>1. Users(j, m)' = Users(j, m) \ {r} /\ r \in Users(j, m)
      BY <1>1, <1>2, <2>2 DEF Users, TypeOK
    <3>2. Cardinality(Users(j, m)') = Cardinality(Users(j, m)) - 1
      <4>1. IsFiniteSet(Users(j, m))
        BY UsersFinite
      <4> HIDE DEF k
      <4> QED  BY ONLY <3>1, <4>1, FS_RemoveElement
    <3>3. inUse'[j][m] = inUse[j][m] - 1
      BY <1>1, <1>2, <2>2 DEF TypeOK
    <3> QED  BY <2>1, <3>2, <3>3
  <2>3. CASE ~(j = k /\ m = ModelOf[r])
    <3>1. Users(j, m)' = Users(j, m)
      BY <1>1, <1>2, <2>3 DEF Users, TypeOK
    <3>2. inUse'[j][m] = inUse[j][m]
      BY <1>1, <1>2, <2>3 DEF TypeOK
    <3> QED  BY <2>1, <3>1, <3>2
  <2> QED  BY <2>2, <2>3
<1> QED  BY <1>3 DEF InUseExact

LEMMA Exact == Spec => [](TypeOK /\ AttemptsLeft /\ InUseExact)
<1>1. Init => InUseExact
  <2> SUFFICES ASSUME Init, NEW k \in Keys, NEW m \in Models
               PROVE  inUse[k][m] = Cardinality(Users(k, m))
    BY DEF InUseExact
  <2>1. Users(k, m) = {}
    BY RotationAssumption DEF Init, Users, RotationAssumption
  <2> QED  BY <2>1, FS_EmptySet DEF Init
<1>2. TypeOK /\ InUseExact /\ [Next]_vars => InUseExact'
  <2> SUFFICES ASSUME TypeOK, InUseExact, [Next]_vars PROVE InUseExact'
    OBVIOUS
  <2>1. CASE UNCHANGED <<key, inUse>>
    BY <2>1 DEF InUseExact, Users
  <2> QED  BY <2>1, Steps, TakeExact, ReturnExact, RotationAssumption
<1> QED  BY <1>1, <1>2, Typed, PTL DEF Spec

(* models_in_use counts the requests that hold the key for the model: no     *)
(* success, failure, cancellation or abandoned stream leaks a slot or gives  *)
(* one back twice.                                                           *)
THEOREM CountedExactly == Spec => []InUseExact
BY Exact, PTL

-----------------------------------------------------------------------------
LEMMA TakeHasRoom ==
  ASSUME RotationAssumption, TypeOK, NEW r \in Requests, NEW k \in Choice(r)
  PROVE  inUse[k][ModelOf[r]] < MaxConcurrent
<1>1. MaxConcurrent \in Nat /\ MaxConcurrent > 0 /\ ModelOf[r] \in Models
  BY DEF RotationAssumption
<1>2. CASE Room(r, k)
  BY <1>2 DEF Room
<1>3. CASE Idle(k)
  BY <1>1, <1>3 DEF Idle
<1> QED  BY <1>2, <1>3, ChoiceType

LEMMA LimitStep ==
  ASSUME RotationAssumption, TypeOK, WithinLimit, [Next]_vars
  PROVE  WithinLimit'
<1>0. inUse \in [Keys -> [Models -> Int]] /\ MaxConcurrent \in Nat
  BY DEF TypeOK, RotationAssumption
<1>1. ASSUME NEW r \in Requests, Take(r)
      PROVE  WithinLimit'
  <2>1. PICK k \in Choice(r) : inUse' = [inUse EXCEPT ![k][ModelOf[r]] = @ + 1]
    BY <1>1 DEF Take
  <2>2. inUse[k][ModelOf[r]] < MaxConcurrent
    BY TakeHasRoom
  <2>3. ModelOf[r] \in Models /\ k \in Keys
    BY ChoiceType DEF RotationAssumption
  <2> QED  BY <1>0, <2>1, <2>2, <2>3 DEF WithinLimit
<1>2. ASSUME NEW r \in Requests, Returns(r)
      PROVE  WithinLimit'
  <2>1. inUse' = [inUse EXCEPT ![key[r]][ModelOf[r]] = @ - 1]
    BY <1>2 DEF Returns, Release
  <2>2. ModelOf[r] \in Models /\ key[r] \in Keys
    BY <1>2, HeldKey DEF Returns, RotationAssumption
  <2> QED  BY <1>0, <2>1, <2>2 DEF WithinLimit
<1>3. CASE UNCHANGED <<key, inUse>>
  BY <1>3 DEF WithinLimit
<1> QED  BY <1>1, <1>2, <1>3, Steps

(* A key serves no more requests for a model at once than its limit.         *)
THEOREM LimitKept == Spec => []WithinLimit
<1>1. Init => WithinLimit
  BY RotationAssumption DEF Init, WithinLimit, RotationAssumption
<1>2. TypeOK /\ WithinLimit /\ [Next]_vars => WithinLimit'
  BY LimitStep, RotationAssumption
<1> QED  BY <1>1, <1>2, Typed, PTL DEF Spec

-----------------------------------------------------------------------------
(* What a request was offered is written by Start alone.                     *)
Kept(q) ==
  \/ loc'[q] = Fresh
  \/ loc'[q].creds = loc[q].creds /\ loc'[q].pref = loc[q].pref

LEMMA FailKept ==
  ASSUME TypeOK, NEW r \in Requests, Fail(r)
  PROVE  \A q \in Requests : Kept(q)
BY DEF Kept, Fail, TypeOK

LEMMA SleepKept ==
  ASSUME TypeOK, NEW r \in Requests, NEW time, loc' = [loc EXCEPT ![r].timer = time]
  PROVE  \A q \in Requests : Kept(q)
<1>1. loc \in [Requests -> Locals]
  BY DEF TypeOK
<1> QED  BY <1>1 DEF Kept, Locals

LEMMA TakeKept ==
  ASSUME TypeOK, NEW r \in Requests, Take(r)
  PROVE  \A q \in Requests : Kept(q)
<1>1. loc \in [Requests -> Locals]
  BY DEF TypeOK
<1>2. PICK k : loc' = [loc EXCEPT ![r].tried = @ \union {k}, ![r].attempt = 1]
  BY DEF Take
<1> QED  BY ONLY <1>1, <1>2, r \in Requests DEF Kept, Locals

LEMMA QueueKept ==
  ASSUME TypeOK, NEW r \in Requests, Queue(r)
  PROVE  \A q \in Requests : Kept(q)
<1>1. loc \in [Requests -> Locals]
  BY DEF TypeOK
<1>2. PICK k : loc' = [loc EXCEPT ![r].timer = 1, ![r].waits = k]
  BY DEF Queue
<1> QED  BY ONLY <1>1, <1>2, r \in Requests DEF Kept, Locals

LEMMA WakeKept ==
  ASSUME TypeOK, NEW r \in Requests, Wake(r)
  PROVE  \A q \in Requests : Kept(q)
<1>1. loc \in [Requests -> Locals]
  BY DEF TypeOK
<1>2. PICK n : loc' = [loc EXCEPT ![r].waits = None, ![r].attempt = n]
  BY <1>1 DEF Wake, Locals
<1> QED  BY ONLY <1>1, <1>2, r \in Requests DEF Kept, Locals

LEMMA ReturnKept ==
  ASSUME TypeOK, NEW r \in Requests, Returns(r)
  PROVE  \A q \in Requests : Kept(q)
<1>1. loc \in [Requests -> Locals]
  BY DEF TypeOK
<1>2. PICK next \in {"loop", "served", "failed"} : Release(r, next)
  BY DEF Returns
<1>3. ASSUME NEW q \in Requests
      PROVE  \/ loc'[q] = Fresh \/ loc'[q] = loc[q]
             \/ loc'[q] = [loc[q] EXCEPT !.timer = 0, !.waits = None]
  BY <1>2 DEF Release
<1> QED  BY ONLY <1>1, <1>3 DEF Kept, Locals

LEMMA ElapseKept ==
  ASSUME TypeOK, Elapse
  PROVE  \A q \in Requests : Kept(q)
<1>1. loc \in [Requests -> Locals]
  BY DEF TypeOK
<1> QED  BY <1>1 DEF Elapse, Kept, Locals

LEMMA AllKept ==
  ASSUME TypeOK, [Next]_vars
  PROVE  (\A q \in Requests : Kept(q)) \/ \E r \in Requests : Start(r)
<1>1. CASE UNCHANGED loc
  BY <1>1 DEF Kept
<1>2. ASSUME NEW r \in Requests, Serve(r) \/ StreamEnds(r) \/ Disconnect(r)
             \/ Close(r) \/ GiveUp(r) \/ QuotaExceeded(r) \/ RateLimited(r)
             \/ AuthFailed(r) \/ BacksOff(r)
      PROVE  Returns(r)
  BY <1>2 DEF Returns, Holding, Serve, StreamEnds, Disconnect, Close, GiveUp,
     QuotaExceeded, RateLimited, AuthFailed, BacksOff, Rotate
<1>3. ASSUME NEW r \in Requests, Loop(r) \/ NoneEligible(r) \/ OutOfTime(r)
             \/ CancelWaiting(r) \/ RetrySameKey(r)
      PROVE  \/ Fail(r) \/ UNCHANGED loc
             \/ \E time : loc' = [loc EXCEPT ![r].timer = time]
  BY <1>3 DEF Loop, NoneEligible, OutOfTime, CancelWaiting, RetrySameKey, Sleep
<1>4. ASSUME NEW r \in Requests, Connect(r) \/ Abandon(r)
      PROVE  UNCHANGED loc
  BY <1>4 DEF Connect, Abandon
<1>5. ASSUME (\E k \in Keys : AddKey(k) \/ RemoveKey(k)) \/ \E s \in Sessions : Evict(s)
      PROVE  UNCHANGED loc
  BY <1>5 DEF AddKey, RemoveKey, Evict
<1> QED  BY <1>1, <1>2, <1>3, <1>4, <1>5, FailKept, SleepKept, TakeKept, QueueKept,
         WakeKept, ReturnKept, ElapseKept DEF Next, Proceed, Answer, vars

LEMMA OfferedStep ==
  ASSUME RotationAssumption, TypeOK, PreferredIsOffered, [Next]_vars
  PROVE  PreferredIsOffered'
<1>0. loc \in [Requests -> Locals]
  BY DEF TypeOK
<1>1. ASSUME NEW r \in Requests, Start(r)
      PROVE  PreferredIsOffered'
  <2>1. Preferred(r) \in configured \union {None}
    BY DEF Preferred
  <2>2. /\ loc'[r].creds = configured /\ loc'[r].pref = Preferred(r)
        /\ \A q \in Requests \ {r} : loc'[q] = loc[q]
    BY <1>0, <1>1 DEF Start, Locals
  <2> QED  BY <2>1, <2>2 DEF PreferredIsOffered
<1>2. ASSUME \A q \in Requests : Kept(q)
      PROVE  PreferredIsOffered'
  BY <1>2 DEF PreferredIsOffered, Fresh, Kept
<1> QED  BY <1>1, <1>2, AllKept

(* The key a session is bound to is given the best priority only if it is    *)
(* one of the request's own.                                                 *)
THEOREM OfferedOnly == Spec => []PreferredIsOffered
<1>1. Init => PreferredIsOffered
  BY DEF Init, PreferredIsOffered, Fresh
<1>2. TypeOK /\ PreferredIsOffered /\ [Next]_vars => PreferredIsOffered'
  BY OfferedStep, RotationAssumption
<1> QED  BY <1>1, <1>2, Typed, PTL DEF Spec

-----------------------------------------------------------------------------
(* Who is passed over.                                                       *)
LEMMA Smallest ==
  ASSUME NEW S \in SUBSET Nat, S # {}
  PROVE  \E x \in S : \A y \in S : x <= y
<1>1. PICK x \in S : \A y \in S : <<y, x>> \notin OpToRel(<, Nat)
  BY NatLessThanWellFounded, WFMin
<1>2. \A y \in S : ~(y < x)
  BY <1>1, Zenon DEF OpToRel
<1> QED  BY <1>2

(* The session's key ranks one better than the best; all others rank by tier.*)
LEMMA RankCases ==
  ASSUME RotationAssumption, TypeOK, NEW r \in Requests
  PROVE  \E best \in 1..DefaultTier :
           /\ \A k \in DOMAIN Priority \intersect loc[r].creds : Priority[k] >= best
           /\ \A k \in loc[r].creds :
                Rank(r, k) = IF k = loc[r].pref THEN best - 1 ELSE Tier(k)
<1> DEFINE known == DOMAIN Priority \intersect loc[r].creds
           values == {Priority[k] : k \in known}
           best == IF known = {} THEN 1 ELSE Min(values)
<1>1. loc[r].creds \subseteq Keys /\ None \notin Keys
  BY DEF TypeOK, Locals, RotationAssumption
<1>2. best \in 1..DefaultTier /\ \A k \in known : Priority[k] >= best
  <2>1. CASE known = {}
    BY <2>1 DEF DefaultTier
  <2>2. CASE known # {}
    <3>1. values \in SUBSET (1..DefaultTier) /\ values # {}
      BY <2>2 DEF RotationAssumption
    <3>2. \E x \in values : \A y \in values : x <= y
      <4> HIDE DEF values
      <4>1. values \in SUBSET Nat
        BY <3>1 DEF DefaultTier
      <4> QED  BY <3>1, <4>1, Smallest
    <3>3. Min(values) \in values /\ \A y \in values : Min(values) <= y
      <4> HIDE DEF values
      <4> QED  BY <3>2 DEF Min
    <3>4. \A k \in known : Priority[k] \in values
      OBVIOUS
    <3>5. best \in values /\ \A y \in values : best <= y
      BY <2>2, <3>3
    <3>6. best \in 1..DefaultTier /\ \A y \in values : y \in 1..DefaultTier
      BY <3>1, <3>5
    <3>7. \A y \in values : y >= best
      <4> HIDE DEF best, values
      <4> QED  BY <3>5, <3>6 DEF DefaultTier
    <3> QED  BY <3>4, <3>6, <3>7
  <2> QED  BY <2>1, <2>2
<1>3. Given(r) = [k \in known \union ({loc[r].pref} \ {None}) |->
                    IF k = loc[r].pref THEN best - 1 ELSE Priority[k]]
  BY DEF Given
<1>4. ASSUME NEW k \in loc[r].creds
      PROVE  Rank(r, k) = IF k = loc[r].pref THEN best - 1 ELSE Tier(k)
  <2>1. k # None
    BY <1>1
  <2> HIDE DEF best
  <2> QED  BY <1>3, <2>1 DEF Rank, Tier
<1> HIDE DEF best
<1> QED  BY <1>2, <1>4

LEMMA LevelsType ==
  ASSUME RotationAssumption, TypeOK, NEW r \in Requests
  PROVE  Levels(r) \in SUBSET Nat
<1>1. PICK best \in 1..DefaultTier : \A k \in loc[r].creds :
        Rank(r, k) = IF k = loc[r].pref THEN best - 1 ELSE Tier(k)
  BY RankCases
<1>2. \A k \in loc[r].creds : Tier(k) \in Nat
  BY DEF RotationAssumption, Tier, DefaultTier
<1>3. best - 1 \in Nat
  BY DEF DefaultTier
<1>4. \A k \in Warm(r) : Rank(r, k) \in Nat
  BY <1>1, <1>2, <1>3 DEF Warm, Untried
<1> QED  BY <1>4 DEF Levels, DefaultTier

(* No level is left unlooked at when no key is chosen.                       *)
LEMMA AllLooked ==
  ASSUME RotationAssumption, TypeOK, NEW r \in Requests, Choice(r) = {},
         NEW p \in Levels(r)
  PROVE  Takeable(r, p) = {}
<1> SUFFICES ASSUME Takeable(r, p) # {} PROVE FALSE
  OBVIOUS
<1> DEFINE T == {q \in Levels(r) : Takeable(r, q) # {}}
<1>1. T \in SUBSET Nat /\ T # {} /\ Levels(r) \in SUBSET Nat
  BY LevelsType
<1>2. PICK m \in T : \A q \in T : m <= q
  <2> HIDE DEF T
  <2> QED  BY <1>1, Smallest
<1>3. m \in Visited(r)
  BY <1>1, <1>2 DEF Visited
<1> QED  BY <1>2, <1>3 DEF Choice

LEMMA OnlyPassedOver ==
  ASSUME RotationAssumption, TypeOK, NEW r \in Requests, Choice(r) = {},
         NEW k \in Warm(r), Room(r, k)
  PROVE  PassedOver(r, k)
<1> DEFINE p == Rank(r, k)
           turn == exhausted[GroupOf[ModelOf[r]]]
<1>1. k \in Level(r, p) /\ p \in Levels(r) /\ Warm(r) \subseteq loc[r].creds
  BY DEF Level, Levels, Candidates, Prioritised, Rank, Warm, Untried
<1>2. k \notin Usable(r, p)
  BY <1>1, AllLooked DEF Takeable
<1>3. /\ Usable(r, p) = Level(r, p) \ HadTurn(r, p)
      /\ k \in HadTurn(r, p) /\ ~(Level(r, p) \subseteq HadTurn(r, p))
  BY <1>1, <1>2 DEF Usable, CycleOver
<1>4. PICK other \in Usable(r, p) : other \notin HadTurn(r, p) /\ other \in Level(r, p)
  BY <1>3
<1>5. other \in Warm(r) /\ Rank(r, other) = p
  BY <1>4 DEF Level, Candidates
<1>6. ~Room(r, other)
  BY <1>1, <1>4, AllLooked DEF Takeable
<1>7. Tier(k) = p
  BY <1>3 DEF HadTurn
<1>8. other \notin turn
  <2>1. PICK best \in 1..DefaultTier :
          /\ \A j \in DOMAIN Priority \intersect loc[r].creds : Priority[j] >= best
          /\ \A j \in loc[r].creds :
               Rank(r, j) = IF j = loc[r].pref THEN best - 1 ELSE Tier(j)
    BY RankCases
  <2>2. Tier(k) >= best
    BY <1>1, <2>1 DEF Tier, DefaultTier
  <2>3. p # best - 1
    <3>1. Tier(k) \in Int
      BY DEF Tier, DefaultTier, RotationAssumption
    <3> HIDE DEF p
    <3> QED  BY <1>7, <2>2, <3>1 DEF DefaultTier
  <2>4. other # loc[r].pref
    BY <1>1, <1>5, <2>1, <2>3
  <2>5. Tier(other) = p
    BY <1>1, <1>5, <2>1, <2>4
  <2> QED  BY <1>4, <2>5 DEF HadTurn
<1> QED  BY <1>5, <1>6, <1>8 DEF PassedOver

LEMMA StopsUnchosen ==
  ASSUME TypeOK, Next, NEW r \in Requests, pc[r] = "acquire", loc[r].left > 0,
         pc'[r] \in {"asleep", "queued", "failed"}
  PROVE  Choice(r) = {}
<1>0. pc \in [Requests -> Pcs] /\ loc[r].left # 0
  BY DEF TypeOK, Locals
<1>1. ASSUME NEW q \in Requests, Returns(q)
      PROVE  FALSE
  <2>1. q # r
    BY <1>1 DEF Returns, Holding
  <2>2. pc'[r] \in {"acquire", pc[r]}
    BY <1>1, <2>1 DEF Returns, Release
  <2> QED  BY <2>2
<1>2. ASSUME NEW q \in Requests, q # r, NEW next, Go(q, next)
      PROVE  FALSE
  BY <1>0, <1>2 DEF Go
<1>3. ASSUME NEW q \in Requests, Serve(q) \/ StreamEnds(q) \/ Disconnect(q)
             \/ Close(q) \/ GiveUp(q) \/ QuotaExceeded(q) \/ RateLimited(q)
             \/ AuthFailed(q) \/ BacksOff(q)
      PROVE  FALSE
  <2>1. Returns(q)
    BY <1>3 DEF Returns, Holding, Serve, StreamEnds, Disconnect, Close, GiveUp,
       QuotaExceeded, RateLimited, AuthFailed, BacksOff, Rotate
  <2> QED  BY <1>1, <2>1
<1>4. ASSUME NEW q \in Requests, Loop(q) \/ Start(q) \/ OutOfTime(q) \/ Wake(q)
             \/ CancelWaiting(q) \/ Connect(q) \/ Abandon(q) \/ RetrySameKey(q)
      PROVE  FALSE
  <2>1. q # r
    BY <1>0, <1>4 DEF Loop, Start, OutOfTime, Wake, CancelWaiting, Connect, Abandon,
       RetrySameKey, Asleep
  <2>2. (\E next : Go(q, next)) \/ UNCHANGED pc
    BY <1>4 DEF Loop, Start, OutOfTime, Wake, CancelWaiting, Connect, Abandon,
       RetrySameKey, Sleep, Fail
  <2> QED  BY <1>2, <2>1, <2>2
<1>5. ASSUME NEW q \in Requests, Take(q)
      PROVE  FALSE
  <2>1. Go(q, "calling")
    BY <1>5 DEF Take
  <2>2. q = r
    BY <1>2, <2>1
  <2> QED  BY <1>0, <2>1, <2>2 DEF Go
<1>6. ASSUME NEW q \in Requests, Queue(q) \/ NoneEligible(q)
      PROVE  Choice(r) = {}
  <2>1. (\E next : Go(q, next)) /\ Choice(q) = {}
    BY <1>6 DEF Queue, NoneEligible, Sleep, Fail
  <2> QED  BY <1>2, <2>1
<1>7. ASSUME Elapse \/ (\E k \in Keys : AddKey(k) \/ RemoveKey(k))
               \/ \E s \in Sessions : Evict(s)
      PROVE  FALSE
  BY <1>7 DEF Elapse, AddKey, RemoveKey, Evict
<1> QED  BY <1>3, <1>4, <1>5, <1>6, <1>7 DEF Next, Proceed, Answer

(* A request sleeps or fails although a key is warm and has room only for    *)
(* the sake of another warm key that the fair cycle still owes its turn.     *)
THEOREM NoneStarved == Spec => NotStarved
<1> DEFINE Fair ==
      \A r \in Requests :
        (pc[r] = "acquire" /\ loc[r].left > 0
           /\ pc'[r] \in {"asleep", "queued", "failed"})
          => \A k \in Warm(r) : Room(r, k) => PassedOver(r, k)
<1>1. TypeOK /\ [Next]_vars => [Fair]_vars
  BY StopsUnchosen, OnlyPassedOver, RotationAssumption
<1> QED  BY <1>1, Typed, PTL DEF Spec, NotStarved

-----------------------------------------------------------------------------
(* The refinement: who has a key, and which keys a request has had.          *)
Had == [r \in Requests |-> loc[r].tried]

LEMMA SameCardinality == \A S : Pool!Cardinality(S) = Cardinality(S)
BY Zenon DEF Pool!Cardinality, Cardinality

LEMMA TakeLends ==
  ASSUME RotationAssumption, TypeOK, InUseExact, NEW r \in Requests, Take(r)
  PROVE  \E k \in Keys : Pool!Lend(r, k)
<1>1. PICK k \in Choice(r) :
        /\ key' = [key EXCEPT ![r] = k]
        /\ loc' = [loc EXCEPT ![r].tried = @ \union {k}, ![r].attempt = 1]
  BY DEF Take
<1>2. k \in Keys /\ k \notin loc[r].tried /\ ModelOf[r] \in Models
  BY ChoiceType DEF Warm, Untried, RotationAssumption
<1>3. key[r] = None
  BY DEF Take, TypeOK, Holding
<1>4. Cardinality(Users(k, ModelOf[r])) < MaxConcurrent
  BY <1>2, TakeHasRoom DEF InUseExact
<1>5. loc \in [Requests -> Locals]
  BY DEF TypeOK
<1>6. \A q \in Requests :
        loc'[q].tried = IF q = r THEN loc[r].tried \union {k} ELSE loc[q].tried
  BY ONLY <1>1, <1>5, r \in Requests DEF Locals
<1>7. Had' = [Had EXCEPT ![r] = @ \union {k}]
  BY <1>6 DEF Had
<1>8. Had[r] = loc[r].tried
  BY DEF Had
<1>9. Pool!Users(k, ModelOf[r]) = Users(k, ModelOf[r])
  BY DEF Pool!Users, Users
<1>10. Pool!Lend(r, k)
  <2>1. k \notin Had[r]
    BY <1>2, <1>8
  <2>2. Pool!Cardinality(Pool!Users(k, ModelOf[r])) < MaxConcurrent
    BY <1>4, <1>9, SameCardinality
  <2>3. key' = [key EXCEPT ![r] = k]
    BY <1>1
  <2>4. Had' = [Had EXCEPT ![r] = Had[r] \union {k}]
    BY <1>7
  <2> QED  BY ONLY <1>3, <2>1, <2>2, <2>3, <2>4 DEF Pool!Lend, Had
<1> QED  BY <1>2, <1>10

LEMMA ReturnReturns ==
  ASSUME RotationAssumption, TypeOK, NEW r \in Requests, Returns(r)
  PROVE  Pool!Return(r)
<1>1. PICK next \in {"loop", "served", "failed"} : Release(r, next)
  BY DEF Returns
<1>2. key[r] # None /\ key' = [key EXCEPT ![r] = None]
  BY <1>1, HeldKey DEF Returns, Release, RotationAssumption
<1>3. loc \in [Requests -> Locals]
  BY DEF TypeOK
<1>4. ASSUME NEW q \in Requests
      PROVE  \/ loc'[q] = loc[q]
             \/ loc'[q] = [loc[q] EXCEPT !.timer = 0, !.waits = None]
             \/ q = r /\ next # "loop" /\ loc'[q] = Fresh
  BY <1>1 DEF Release
<1>5. loc'[r] = IF next # "loop" THEN Fresh ELSE loc[r]
  BY <1>1 DEF Release
<1>6. \A q \in Requests \ {r} : loc'[q].tried = loc[q].tried
  BY ONLY <1>3, <1>4 DEF Locals
<1>7. Had' = Had \/ Had' = [Had EXCEPT ![r] = {}]
  <2>1. CASE next = "loop"
    <3>1. \A q \in Requests : loc'[q].tried = loc[q].tried
      BY <1>5, <1>6, <2>1
    <3> QED  BY <3>1 DEF Had
  <2>2. CASE next # "loop"
    <3>1. \A q \in Requests :
            loc'[q].tried = IF q = r THEN {} ELSE loc[q].tried
      <4>1. loc'[r].tried = {}
        BY <1>5, <2>2 DEF Fresh
      <4> QED  BY ONLY <1>6, <4>1
    <3>2. Had' = [q \in Requests |-> IF q = r THEN {} ELSE loc[q].tried]
      BY <3>1 DEF Had
    <3>3. [Had EXCEPT ![r] = {}]
            = [q \in Requests |-> IF q = r THEN {} ELSE loc[q].tried]
      BY DEF Had
    <3> QED  BY <3>2, <3>3
  <2> QED  BY <2>1, <2>2
<1> QED  BY <1>2, <1>7 DEF Pool!Return, Had

LEMMA FailLeaves ==
  ASSUME TypeOK, NEW r \in Requests, key[r] = None, Fail(r), UNCHANGED key
  PROVE  Pool!Leave(r)
<1>1. Had' = [Had EXCEPT ![r] = {}]
  BY DEF Fail, TypeOK, Had, Fresh
<1> QED  BY <1>1 DEF Pool!Leave, Had

LEMMA Stutters ==
  ASSUME TypeOK, UNCHANGED key, \A q \in Requests : loc'[q].tried = loc[q].tried
  PROVE  UNCHANGED <<key, Had>>
BY DEF Had

LEMMA KeepsTried ==
  ASSUME TypeOK, NEW r \in Requests,
         \/ \E time : loc' = [loc EXCEPT ![r].timer = time]
         \/ \E time, k : loc' = [loc EXCEPT ![r].timer = time, ![r].waits = k]
         \/ \E n : loc' = [loc EXCEPT ![r].waits = None, ![r].attempt = n]
         \/ \E c, p, n : loc' = [loc EXCEPT ![r].creds = c, ![r].pref = p, ![r].left = n]
  PROVE  \A q \in Requests : loc'[q].tried = loc[q].tried
<1>1. loc \in [Requests -> Locals]
  BY DEF TypeOK
<1>2. CASE \E time : loc' = [loc EXCEPT ![r].timer = time]
  BY ONLY <1>1, <1>2, r \in Requests DEF Locals
<1>3. CASE \E time, k : loc' = [loc EXCEPT ![r].timer = time, ![r].waits = k]
  BY ONLY <1>1, <1>3, r \in Requests DEF Locals
<1>4. CASE \E n : loc' = [loc EXCEPT ![r].waits = None, ![r].attempt = n]
  BY ONLY <1>1, <1>4, r \in Requests DEF Locals
<1>5. CASE \E c, p, n :
             loc' = [loc EXCEPT ![r].creds = c, ![r].pref = p, ![r].left = n]
  BY ONLY <1>1, <1>5, r \in Requests DEF Locals
<1> QED  BY <1>2, <1>3, <1>4, <1>5

LEMMA PoolStep ==
  ASSUME RotationAssumption, TypeOK, InUseExact, [Next]_vars
  PROVE  Pool!Next \/ UNCHANGED <<key, Had>>
<1>0. loc \in [Requests -> Locals]
  BY DEF TypeOK
<1>1. ASSUME UNCHANGED <<key, loc>>
      PROVE  UNCHANGED <<key, Had>>
  BY <1>1 DEF Had
<1>2. ASSUME NEW r \in Requests, Take(r)
      PROVE  Pool!Next
  BY <1>2, TakeLends DEF Pool!Next
<1>3. ASSUME NEW r \in Requests, Serve(r) \/ StreamEnds(r) \/ Disconnect(r)
             \/ Close(r) \/ GiveUp(r) \/ QuotaExceeded(r) \/ RateLimited(r)
             \/ AuthFailed(r) \/ BacksOff(r)
      PROVE  Pool!Next
  <2>1. Returns(r)
    BY <1>3 DEF Returns, Holding, Serve, StreamEnds, Disconnect, Close, GiveUp,
       QuotaExceeded, RateLimited, AuthFailed, BacksOff, Rotate
  <2> QED  BY <2>1, ReturnReturns DEF Pool!Next
<1>4. ASSUME NEW r \in Requests, Loop(r) \/ NoneEligible(r) \/ OutOfTime(r)
             \/ CancelWaiting(r)
      PROVE  Pool!Next \/ UNCHANGED <<key, Had>>
  <2>1. key[r] = None /\ UNCHANGED key
    BY <1>4 DEF Loop, NoneEligible, OutOfTime, CancelWaiting, TypeOK, Holding
  <2>2. \/ Fail(r) \/ UNCHANGED loc
        \/ \E time : loc' = [loc EXCEPT ![r].timer = time]
    BY <1>4 DEF Loop, NoneEligible, OutOfTime, CancelWaiting, Sleep
  <2>3. CASE Fail(r)
    BY <2>1, <2>3, FailLeaves DEF Pool!Next
  <2>4. CASE \E time : loc' = [loc EXCEPT ![r].timer = time]
    BY <2>1, <2>4, KeepsTried, Stutters
  <2> QED  BY <1>1, <2>1, <2>2, <2>3, <2>4
<1>5. ASSUME NEW r \in Requests,
             Start(r) \/ Queue(r) \/ Wake(r) \/ RetrySameKey(r)
      PROVE  UNCHANGED <<key, Had>>
  <2>1. UNCHANGED key
    BY <1>5 DEF Start, Queue, Wake, RetrySameKey
  <2>2. \/ \E time : loc' = [loc EXCEPT ![r].timer = time]
        \/ \E time, k : loc' = [loc EXCEPT ![r].timer = time, ![r].waits = k]
        \/ \E n : loc' = [loc EXCEPT ![r].waits = None, ![r].attempt = n]
        \/ \E c, p, n :
             loc' = [loc EXCEPT ![r].creds = c, ![r].pref = p, ![r].left = n]
    BY <1>0, <1>5 DEF Start, Queue, Wake, RetrySameKey, Locals
  <2> QED  BY <2>1, <2>2, KeepsTried, Stutters
<1>6. ASSUME NEW r \in Requests, Connect(r) \/ Abandon(r)
      PROVE  UNCHANGED <<key, Had>>
  BY <1>1, <1>6 DEF Connect, Abandon
<1>7. CASE Elapse
  <2>1. \A q \in Requests : loc'[q].tried = loc[q].tried
    BY <1>0, <1>7 DEF Elapse, Locals
  <2> QED  BY <1>7, <2>1, Stutters DEF Elapse
<1>8. ASSUME (\E k \in Keys : AddKey(k) \/ RemoveKey(k)) \/ \E s \in Sessions : Evict(s)
      PROVE  UNCHANGED <<key, Had>>
  BY <1>1, <1>8 DEF AddKey, RemoveKey, Evict
<1> QED  BY <1>1, <1>2, <1>3, <1>4, <1>5, <1>6, <1>7, <1>8
         DEF Next, Proceed, Answer, vars

(* The counters and the lists of tried keys lend keys as KeyPool does: to so *)
(* many requests at a time, and to no request twice.                         *)
THEOREM Implements == Spec => LendsAsPromised
<1>1. Init => Pool!Init
  BY DEF Init, Pool!Init, Fresh
<1>2. TypeOK /\ InUseExact /\ [Next]_vars
        => [Pool!Next]_<<key, [r \in Requests |-> loc[r].tried]>>
  BY PoolStep, RotationAssumption DEF Had
<1> QED  BY <1>1, <1>2, Exact, PTL DEF Spec, LendsAsPromised, Pool!Spec
=============================================================================
