------------------------ MODULE KeyRotation_proofs ------------------------
(* The types of the credential pool, for any number of requests, keys and    *)
(* models.                                                                   *)
EXTENDS KeyRotation, TLAPS

LEMMA Sizes ==
  ASSUME RotationAssumption
  PROVE  /\ Long \in Nat /\ MaxRetries \in Nat /\ Timeout \in Nat /\ Window \in Nat
         /\ Long >= 1 /\ MaxRetries >= 1 /\ Window >= 1 /\ Cap \in Nat
BY DEF RotationAssumption

(* What the actions write to a request's locals is a record of locals.       *)
LEMMA FreshType ==
  ASSUME RotationAssumption
  PROVE  Fresh \in Locals
BY DEF RotationAssumption, Fresh, Locals

LEMMA Written ==
  ASSUME loc \in [Requests -> Locals], NEW r \in Requests, NEW l \in Locals
  PROVE  [loc EXCEPT ![r] = l] \in [Requests -> Locals]
OBVIOUS

LEMMA StartWrites ==
  ASSUME loc \in [Requests -> Locals], NEW r \in Requests,
         NEW c \in SUBSET Keys, NEW p \in Keys \union {None}, NEW n \in Nat
  PROVE  [loc EXCEPT ![r].creds = c, ![r].pref = p, ![r].left = n]
           \in [Requests -> Locals]
<1>1. [loc[r] EXCEPT !.creds = c, !.pref = p, !.left = n] \in Locals
  BY DEF Locals
<1>2. [loc EXCEPT ![r].creds = c, ![r].pref = p, ![r].left = n]
        = [loc EXCEPT ![r] = [loc[r] EXCEPT !.creds = c, !.pref = p, !.left = n]]
  OBVIOUS
<1> QED  BY <1>1, <1>2

LEMMA SleepWrites ==
  ASSUME loc \in [Requests -> Locals], NEW r \in Requests, NEW n \in Nat
  PROVE  [loc EXCEPT ![r].timer = n] \in [Requests -> Locals]
BY DEF Locals

LEMMA QueueWrites ==
  ASSUME loc \in [Requests -> Locals], NEW r \in Requests, NEW n \in Nat,
         NEW k \in Keys
  PROVE  [loc EXCEPT ![r].timer = n, ![r].waits = k] \in [Requests -> Locals]
<1>1. [loc[r] EXCEPT !.timer = n, !.waits = k] \in Locals
  BY DEF Locals
<1>2. [loc EXCEPT ![r].timer = n, ![r].waits = k]
        = [loc EXCEPT ![r] = [loc[r] EXCEPT !.timer = n, !.waits = k]]
  OBVIOUS
<1> QED  BY <1>1, <1>2

LEMMA TakeWrites ==
  ASSUME loc \in [Requests -> Locals], NEW r \in Requests, NEW k \in Keys,
         NEW n \in 0..MaxRetries
  PROVE  [loc EXCEPT ![r].tried = @ \union {k}, ![r].attempt = n]
           \in [Requests -> Locals]
<1>1. loc[r].tried \union {k} \in SUBSET Keys
  BY DEF Locals
<1>2. [loc[r] EXCEPT !.tried = loc[r].tried \union {k}, !.attempt = n] \in Locals
  BY <1>1 DEF Locals
<1>3. [loc EXCEPT ![r].tried = @ \union {k}, ![r].attempt = n]
        = [loc EXCEPT ![r] = [loc[r] EXCEPT !.tried = loc[r].tried \union {k},
                                            !.attempt = n]]
  OBVIOUS
<1> QED  BY <1>2, <1>3

LEMMA WakeWrites ==
  ASSUME loc \in [Requests -> Locals], NEW r \in Requests, NEW n \in 0..MaxRetries
  PROVE  [loc EXCEPT ![r].waits = None, ![r].attempt = n] \in [Requests -> Locals]
<1>1. [loc[r] EXCEPT !.waits = None, !.attempt = n] \in Locals
  BY DEF Locals
<1>2. [loc EXCEPT ![r].waits = None, ![r].attempt = n]
        = [loc EXCEPT ![r] = [loc[r] EXCEPT !.waits = None, !.attempt = n]]
  OBVIOUS
<1> QED  BY <1>1, <1>2

LEMMA WokenLocals ==
  ASSUME NEW l \in Locals
  PROVE  [l EXCEPT !.timer = 0, !.waits = None] \in Locals
BY DEF Locals

LEMMA ElapsedLocals ==
  ASSUME NEW l \in Locals
  PROVE  [l EXCEPT !.left = Less(@), !.timer = Less(@)] \in Locals
<1>1. l.left \in Nat /\ l.timer \in Nat
  BY DEF Locals
<1>2. Less(l.left) \in Nat /\ Less(l.timer) \in Nat
  BY <1>1 DEF Less
<1> QED  BY <1>2 DEF Locals

(* The requests that do not end keep a key while they call, retry or stream. *)
LEMMA GoType ==
  ASSUME TypeOK, NEW r \in Requests, NEW next \in Pcs, Go(r, next),
         next \in Holding <=> pc[r] \in Holding, UNCHANGED key
  PROVE  /\ pc' \in [Requests -> Pcs]
         /\ \A q \in Requests : key'[q] # None <=> pc'[q] \in Holding
BY DEF TypeOK, Go

(* Everything but a request's own state is left alone or is written below.   *)
PoolType ==
  /\ cooling \in [Keys -> [Models -> Nat]] /\ lockout \in [Keys -> Nat]
  /\ exhausted \in [Models -> SUBSET Keys]
  /\ count \in [Keys -> [Models -> 0..Cap]]
  /\ window \in [Keys -> [Models -> 0..Window]]
RequestType ==
  /\ pc \in [Requests -> Pcs]
  /\ key \in [Requests -> Keys \union {None}]
  /\ loc \in [Requests -> Locals]
  /\ \A r \in Requests : key[r] # None <=> pc[r] \in Holding
SharedType ==
  /\ configured \subseteq Keys
  /\ inUse \in [Keys -> [Models -> Int]]
  /\ paused \in Nat
  /\ affinity \in [Sessions -> Keys \union {None}]
LEMMA TypeParts == TypeOK <=> PoolType /\ RequestType /\ SharedType
BY DEF TypeOK, PoolType, RequestType, SharedType
LEMMA TypePartsNext == TypeOK' <=> PoolType' /\ RequestType' /\ SharedType'
BY DEF TypeOK, PoolType, RequestType, SharedType
LEMMA PoolKept ==
  ASSUME TypeOK, UNCHANGED pool PROVE PoolType'
BY DEF TypeOK, PoolType, pool

LEMMA PreferredType ==
  ASSUME RotationAssumption, TypeOK, NEW r \in Requests
  PROVE  Preferred(r) \in Keys \union {None}
BY DEF TypeOK, Preferred, RotationAssumption

LEMMA StartType ==
  ASSUME RotationAssumption, TypeOK, NEW r \in Requests, Start(r)
  PROVE  TypeOK'
<1>1. loc' \in [Requests -> Locals]
  <2>1. /\ loc \in [Requests -> Locals] /\ configured \in SUBSET Keys
        /\ Timeout \in Nat
    BY Sizes DEF TypeOK
  <2>2. loc' = [loc EXCEPT ![r].creds = configured, ![r].pref = Preferred(r),
                           ![r].left = Timeout]
    BY DEF Start
  <2> QED  BY ONLY <2>1, <2>2, PreferredType, StartWrites, TypeOK, RotationAssumption,
                   r \in Requests
<1>2. affinity' \in [Sessions -> Keys \union {None}]
  BY DEF Start, TypeOK
<1>3. /\ pc' \in [Requests -> Pcs]
      /\ \A q \in Requests : key'[q] # None <=> pc'[q] \in Holding
  BY GoType DEF Start, Pcs, Holding
<1>4. PoolType'
  BY PoolKept DEF Start
<1> QED  BY <1>1, <1>2, <1>3, <1>4, TypePartsNext
         DEF Start, TypeOK, RequestType, SharedType

LEMMA LoopType ==
  ASSUME RotationAssumption, TypeOK, NEW r \in Requests, Loop(r)
  PROVE  TypeOK'
<1>1. loc \in [Requests -> Locals] /\ paused \in Nat
  BY DEF TypeOK
<1>2. loc' \in [Requests -> Locals]
  BY <1>1, FreshType, Written, SleepWrites DEF Loop, Fail, Sleep
<1>3. /\ pc' \in [Requests -> Pcs]
      /\ \A q \in Requests : key'[q] # None <=> pc'[q] \in Holding
  BY GoType DEF Loop, Pcs, Holding, Asleep, Fail, Sleep
<1>4. PoolType'
  BY PoolKept DEF Loop
<1> QED  BY <1>2, <1>3, <1>4, TypePartsNext
         DEF Loop, TypeOK, RequestType, SharedType

(* A request looks for a key.                                                *)
LEMMA CandidatesType ==
  ASSUME NEW r \in Requests, NEW p
  PROVE  Level(r, p) \subseteq Warm(r) /\ Usable(r, p) \subseteq Warm(r)
BY DEF Level, Candidates, Usable

LEMMA ChoiceType ==
  ASSUME NEW r \in Requests, TypeOK
  PROVE  /\ Warm(r) \subseteq Keys
         /\ Untried(r) \subseteq Keys
         /\ Choice(r) \subseteq Warm(r)
         /\ \A k \in Choice(r) : Room(r, k) \/ Idle(k)
<1>1. Untried(r) \subseteq Keys
  <2>1. loc[r] \in Locals
    BY DEF TypeOK
  <2> QED  BY <2>1 DEF Untried, Locals
<1>2. \A p : /\ Takeable(r, p) \subseteq Warm(r)
             /\ \A k \in Takeable(r, p) : Room(r, k) \/ Idle(k)
  BY CandidatesType DEF Takeable
<1> QED  BY <1>1, <1>2 DEF Warm, Choice

LEMMA ResetType ==
  ASSUME RotationAssumption, TypeOK, NEW r \in Requests,
         exhausted' = CyclesReset(r), UNCHANGED <<cooling, lockout, count, window>>
  PROVE  PoolType'
<1>1. exhausted \in [Models -> SUBSET Keys]
  BY DEF TypeOK
<1>2. exhausted' \in [Models -> SUBSET Keys]
  BY <1>1 DEF CyclesReset
<1> QED  BY <1>2 DEF PoolType, TypeOK

LEMMA TakeType ==
  ASSUME RotationAssumption, TypeOK, NEW r \in Requests, Take(r)
  PROVE  TypeOK'
<1>1. PICK k \in Choice(r) :
        /\ inUse' = [inUse EXCEPT ![k][ModelOf[r]] = @ + 1]
        /\ key' = [key EXCEPT ![r] = k]
        /\ loc' = [loc EXCEPT ![r].tried = @ \union {k}, ![r].attempt = 1]
  BY DEF Take
<1>2. k \in Keys
  BY ChoiceType
<1>8. 1 \in 0..MaxRetries /\ loc \in [Requests -> Locals]
  BY Sizes DEF TypeOK
<1>3. loc' \in [Requests -> Locals]
  BY <1>1, <1>2, <1>8, TakeWrites
<1>4. key' \in [Requests -> Keys \union {None}] /\ key'[r] # None
  BY <1>1, <1>2 DEF TypeOK, RotationAssumption
<1>5. inUse' \in [Keys -> [Models -> Int]]
  BY <1>1, <1>2 DEF TypeOK, RotationAssumption
<1>6. /\ pc' \in [Requests -> Pcs]
      /\ \A q \in Requests : key'[q] # None <=> pc'[q] \in Holding
  BY <1>1, <1>4 DEF Take, Go, TypeOK, Pcs, Holding
<1>7. PoolType'
  BY ResetType DEF Take
<1> QED  BY <1>3, <1>4, <1>5, <1>6, <1>7, TypePartsNext
         DEF Take, TypeOK, RequestType, SharedType

LEMMA QueueType ==
  ASSUME RotationAssumption, TypeOK, NEW r \in Requests, Queue(r)
  PROVE  TypeOK'
<1>1. PICK k \in Level(r, Min(Levels(r))) :
        loc' = [loc EXCEPT ![r].timer = 1, ![r].waits = k]
  BY DEF Queue
<1>2. k \in Keys
  BY ChoiceType, CandidatesType
<1>6. loc \in [Requests -> Locals]
  BY DEF TypeOK
<1>3. loc' \in [Requests -> Locals]
  BY <1>1, <1>2, <1>6, QueueWrites
<1>4. /\ pc' \in [Requests -> Pcs]
      /\ \A q \in Requests : key'[q] # None <=> pc'[q] \in Holding
  BY GoType DEF Queue, Pcs, Holding, Asleep
<1>5. PoolType'
  BY ResetType DEF Queue
<1> QED  BY <1>3, <1>4, <1>5, TypePartsNext
         DEF Queue, TypeOK, RequestType, SharedType

LEMMA NoneEligibleType ==
  ASSUME RotationAssumption, TypeOK, NEW r \in Requests, NoneEligible(r)
  PROVE  TypeOK'
<1>1. /\ loc \in [Requests -> Locals]
      /\ \A time \in CooldownEnds(r) : time \in Nat
  <2>1. \A k \in Untried(r) : lockout[k] \in Nat /\ cooling[k][ModelOf[r]] \in Nat
    <3>1. Untried(r) \subseteq Keys /\ ModelOf[r] \in Models
      BY ChoiceType DEF RotationAssumption
    <3>2. lockout \in [Keys -> Nat] /\ cooling \in [Keys -> [Models -> Nat]]
      BY DEF TypeOK
    <3> QED  BY ONLY <3>1, <3>2
  <2> QED  BY <2>1 DEF CooldownEnds, TypeOK
<1>2. \/ Fail(r) \/ \E time \in Nat : Sleep(r, time)
  BY <1>1 DEF NoneEligible
<1>3. loc' \in [Requests -> Locals]
  BY <1>1, <1>2, FreshType, Written, SleepWrites DEF Fail, Sleep
<1>4. /\ pc' \in [Requests -> Pcs]
      /\ \A q \in Requests : key'[q] # None <=> pc'[q] \in Holding
  BY <1>2, GoType DEF NoneEligible, Pcs, Holding, Asleep, Fail, Sleep
<1>5. PoolType'
  BY ResetType DEF NoneEligible
<1> QED  BY <1>3, <1>4, <1>5, TypePartsNext
         DEF NoneEligible, TypeOK, RequestType, SharedType

LEMMA OutOfTimeType ==
  ASSUME RotationAssumption, TypeOK, NEW r \in Requests, OutOfTime(r)
  PROVE  TypeOK'
<1>1. loc' \in [Requests -> Locals]
  BY FreshType, Written DEF OutOfTime, Fail, TypeOK
<1>2. /\ pc' \in [Requests -> Pcs]
      /\ \A q \in Requests : key'[q] # None <=> pc'[q] \in Holding
  BY GoType DEF OutOfTime, Pcs, Holding, Asleep, Fail
<1>3. PoolType'
  BY PoolKept DEF OutOfTime
<1> QED  BY <1>1, <1>2, <1>3, TypePartsNext
         DEF OutOfTime, TypeOK, RequestType, SharedType

LEMMA WakeType ==
  ASSUME RotationAssumption, TypeOK, NEW r \in Requests, Wake(r),
         loc[r].attempt < MaxRetries \/ pc[r] # "retry"
  PROVE  TypeOK'
<1>1. loc \in [Requests -> Locals]
  BY DEF TypeOK
<1>2. loc[r].attempt \in 0..MaxRetries
  BY <1>1 DEF Locals
<1> DEFINE attempt == IF pc[r] = "retry" THEN loc[r].attempt + 1 ELSE loc[r].attempt
<1>3. attempt \in 0..MaxRetries
  BY <1>2, Sizes
<1>4. loc' = [loc EXCEPT ![r].waits = None, ![r].attempt = attempt]
  BY <1>1 DEF Wake, Locals
<1> HIDE DEF attempt
<1>5. loc' \in [Requests -> Locals]
  BY <1>1, <1>3, <1>4, WakeWrites
<1>6. /\ pc' \in [Requests -> Pcs]
      /\ \A q \in Requests : key'[q] # None <=> pc'[q] \in Holding
  BY GoType DEF Wake, Pcs, Holding, Asleep
<1>7. PoolType'
  BY PoolKept DEF Wake
<1> QED  BY <1>5, <1>6, <1>7, TypePartsNext
         DEF Wake, TypeOK, RequestType, SharedType

LEMMA HeldKey ==
  ASSUME TypeOK, NEW r \in Requests, pc[r] \in Holding
  PROVE  key[r] \in Keys
BY DEF TypeOK

(* A request gives its key back.                                             *)
LEMMA ReleaseType ==
  ASSUME RotationAssumption, TypeOK, NEW r \in Requests, pc[r] \in Holding,
         NEW next \in {"loop", "served", "failed"}, Release(r, next)
  PROVE  RequestType' /\ inUse' \in [Keys -> [Models -> Int]]
<1>1. loc \in [Requests -> Locals] /\ Fresh \in Locals
  BY FreshType DEF TypeOK
<1>2. loc' \in [Requests -> Locals]
  BY <1>1, WokenLocals DEF Release
<1>3. inUse' \in [Keys -> [Models -> Int]]
  <2>1. inUse \in [Keys -> [Models -> Int]]
    BY DEF TypeOK
  <2>2. inUse' = [inUse EXCEPT ![key[r]][ModelOf[r]] = @ - 1]
    BY DEF Release
  <2>3. key[r] \in Keys /\ ModelOf[r] \in Models
    BY HeldKey DEF RotationAssumption
  <2> QED  BY ONLY <2>1, <2>2, <2>3
<1>4. /\ pc' \in [Requests -> Pcs]
      /\ key' \in [Requests -> Keys \union {None}]
      /\ \A q \in Requests : key'[q] # None <=> pc'[q] \in Holding
  BY DEF Release, TypeOK, Pcs, Holding, Asleep
<1> QED  BY <1>2, <1>3, <1>4 DEF RequestType

(* What an answer writes to the key.                                         *)
LEMMA CountedType ==
  ASSUME RotationAssumption, TypeOK, NEW r \in Requests, Counted(r)
  PROVE  count' \in [Keys -> [Models -> 0..Cap]]
<1>1. count \in [Keys -> [Models -> 0..Cap]]
  BY DEF TypeOK
<1> DEFINE new == [m \in Models |->
                     IF m \in Group(ModelOf[r]) /\ count[key[r]][m] < Cap
                     THEN count[key[r]][m] + 1 ELSE count[key[r]][m]]
<1>2. count' = count \/ count' = [count EXCEPT ![key[r]] = new]
  BY DEF Counted
<1>3. key[r] \in Keys => new \in [Models -> 0..Cap]
  BY <1>1, Sizes
<1> HIDE DEF new
<1> QED  BY <1>1, <1>2, <1>3

LEMMA MarkType ==
  ASSUME RotationAssumption, TypeOK, NEW r \in Requests, key[r] \in Keys, Mark(r)
  PROVE  exhausted' \in [Models -> SUBSET Keys]
BY DEF TypeOK, Mark, RotationAssumption

LEMMA CoolType ==
  ASSUME RotationAssumption, TypeOK, NEW r \in Requests, NEW ms, NEW time \in Nat,
         Cool(r, ms, time)
  PROVE  cooling' \in [Keys -> [Models -> Nat]]
<1>1. cooling \in [Keys -> [Models -> Nat]]
  BY DEF TypeOK
<1> DEFINE new == [m \in Models |-> IF m \in ms THEN time ELSE cooling[key[r]][m]]
<1>2. cooling' = [cooling EXCEPT ![key[r]] = new]
  BY DEF Cool
<1>3. key[r] \in Keys => new \in [Models -> Nat]
  BY <1>1
<1> HIDE DEF new
<1> QED  BY <1>1, <1>2, <1>3

LEMMA RecordSuccessType ==
  ASSUME RotationAssumption, TypeOK, NEW r \in Requests, key[r] \in Keys,
         RecordSuccess(r)
  PROVE  PoolType'
<1> DEFINE k == key[r]
           m == ModelOf[r]
           win == IF window[k][m] = 0 THEN Window ELSE window[k][m]
           capped == Cap > 0 /\ count[k][m] + 1 >= Cap
           wins == [n \in Models |-> IF n \in Group(m) THEN win ELSE window[k][n]]
           cools == [n \in Models |->
                       IF n = m THEN 0
                       ELSE IF capped /\ n \in Group(m) THEN win ELSE cooling[k][n]]
<1>1. /\ window \in [Keys -> [Models -> 0..Window]] /\ m \in Models
      /\ cooling \in [Keys -> [Models -> Nat]]
  BY DEF TypeOK, RotationAssumption
<1>2. win \in 0..Window
  BY <1>1, Sizes
<1>3. /\ window' = window \/ window' = [window EXCEPT ![k] = wins]
      /\ cooling' = [cooling EXCEPT ![k] = cools]
      /\ Mark(r) \/ UNCHANGED exhausted
      /\ Counted(r) /\ UNCHANGED lockout
  BY DEF RecordSuccess
<1>4. wins \in [Models -> 0..Window] /\ cools \in [Models -> Nat]
  <2> HIDE DEF win, capped
  <2> QED  BY <1>1, <1>2, Sizes
<1> HIDE DEF wins, cools
<1>5. /\ window' \in [Keys -> [Models -> 0..Window]]
      /\ cooling' \in [Keys -> [Models -> Nat]]
  BY <1>1, <1>3, <1>4
<1> QED  BY <1>3, <1>5, CountedType, MarkType DEF PoolType, TypeOK

LEMMA BindType ==
  ASSUME RotationAssumption, TypeOK, NEW r \in Requests, Bind(r) \/ Unbind(r)
  PROVE  affinity' \in [Sessions -> Keys \union {None}]
BY DEF Bind, Unbind, TypeOK

LEMMA ServeType ==
  ASSUME RotationAssumption, TypeOK, NEW r \in Requests,
         Serve(r) \/ StreamEnds(r)
  PROVE  TypeOK'
<1>1. /\ pc[r] \in Holding /\ RecordSuccess(r) /\ Release(r, "served")
      /\ UNCHANGED <<configured, paused>>
      /\ (Bind(r) \/ UNCHANGED affinity)
  BY DEF Serve, StreamEnds, Holding
<1>2. PoolType'
  BY <1>1, RecordSuccessType, HeldKey
<1>3. RequestType' /\ inUse' \in [Keys -> [Models -> Int]]
  BY <1>1, ReleaseType
<1>4. affinity' \in [Sessions -> Keys \union {None}]
  BY <1>1, BindType DEF TypeOK
<1>5. configured' \subseteq Keys /\ paused' \in Nat
  BY <1>1 DEF TypeOK
<1>6. SharedType'
  BY <1>3, <1>4, <1>5 DEF SharedType
<1> QED  BY <1>2, <1>3, <1>6, TypePartsNext

LEMMA EndType ==
  ASSUME RotationAssumption, TypeOK, NEW r \in Requests,
         Disconnect(r) \/ Close(r) \/ GiveUp(r)
  PROVE  TypeOK'
<1>1. /\ pc[r] \in Holding /\ Release(r, "failed")
      /\ UNCHANGED <<configured, paused, affinity, pool>>
  BY DEF Disconnect, Close, GiveUp, Holding
<1>2. RequestType' /\ inUse' \in [Keys -> [Models -> Int]]
  BY <1>1, ReleaseType
<1> QED  BY <1>1, <1>2, PoolKept, TypePartsNext DEF TypeOK, SharedType

LEMMA ConnectType ==
  ASSUME RotationAssumption, TypeOK, NEW r \in Requests, Connect(r) \/ Abandon(r)
  PROVE  TypeOK'
<1>1. affinity' \in [Sessions -> Keys \union {None}]
  BY BindType DEF Connect, Abandon, TypeOK
<1>2. /\ pc' \in [Requests -> Pcs]
      /\ \A q \in Requests : key'[q] # None <=> pc'[q] \in Holding
  BY GoType DEF Connect, Abandon, Pcs, Holding
<1>3. PoolType'
  BY PoolKept DEF Connect, Abandon
<1>4. UNCHANGED <<configured, inUse, paused, key, loc>>
  BY DEF Connect, Abandon
<1>5. RequestType'
  BY <1>2, <1>4 DEF RequestType, TypeOK
<1>6. SharedType'
  BY <1>1, <1>4 DEF SharedType, TypeOK
<1> QED  BY <1>3, <1>5, <1>6, TypePartsNext

LEMMA RotateType ==
  ASSUME RotationAssumption, TypeOK, NEW r \in Requests, Rotate(r), paused' \in Nat
  PROVE  /\ key[r] \in Keys /\ RequestType' /\ SharedType'
         /\ window' \in [Keys -> [Models -> 0..Window]]
<1>1. pc[r] \in Holding
  BY DEF Rotate, Holding
<1>2. \E next \in {"loop", "served", "failed"} : Release(r, next)
  BY DEF Rotate
<1> QED  BY <1>1, <1>2, HeldKey, ReleaseType, BindType
         DEF Rotate, TypeOK, SharedType

LEMMA ShortType ==
  ASSUME RotationAssumption, NEW time \in Short PROVE time \in Nat
BY DEF RotationAssumption

LEMMA FailureType ==
  ASSUME RotationAssumption, TypeOK, NEW r \in Requests,
         QuotaExceeded(r) \/ RateLimited(r) \/ AuthFailed(r) \/ BacksOff(r)
  PROVE  TypeOK'
<1>1. Rotate(r) /\ Long \in Nat
  BY Sizes DEF QuotaExceeded, RateLimited, AuthFailed, BacksOff
<1>2. paused' \in Nat /\ \E ms, time : time \in Nat /\ Cool(r, ms, time)
  BY <1>1, ShortType DEF QuotaExceeded, RateLimited, AuthFailed, BacksOff, TypeOK
<1>3. cooling' \in [Keys -> [Models -> Nat]]
  BY <1>2, CoolType
<1>4. lockout' \in [Keys -> Nat]
  BY <1>1 DEF QuotaExceeded, RateLimited, AuthFailed, BacksOff, TypeOK
<1>5. exhausted' \in [Models -> SUBSET Keys]
  BY <1>1, <1>2, RotateType, MarkType
  DEF QuotaExceeded, RateLimited, AuthFailed, BacksOff, TypeOK
<1>6. count' \in [Keys -> [Models -> 0..Cap]]
  BY CountedType DEF QuotaExceeded, RateLimited, AuthFailed, BacksOff, TypeOK
<1> QED  BY <1>1, <1>2, <1>3, <1>4, <1>5, <1>6, RotateType, TypePartsNext DEF PoolType

LEMMA RetryType ==
  ASSUME RotationAssumption, TypeOK, NEW r \in Requests, RetrySameKey(r)
  PROVE  TypeOK'
<1>1. PICK wait \in Short : loc' = [loc EXCEPT ![r].timer = wait]
  BY DEF RetrySameKey
<1>2. wait \in Nat
  BY ShortType
<1>3. loc' \in [Requests -> Locals]
  BY <1>1, <1>2, SleepWrites DEF TypeOK
<1>4. /\ pc' \in [Requests -> Pcs]
      /\ \A q \in Requests : key'[q] # None <=> pc'[q] \in Holding
  BY GoType DEF RetrySameKey, Pcs, Holding, Asleep
<1>5. cooling' \in [Keys -> [Models -> Nat]] /\ count' \in [Keys -> [Models -> 0..Cap]]
  BY ShortType, CoolType, CountedType DEF RetrySameKey, TypeOK
<1>6. PoolType'
  BY <1>5 DEF RetrySameKey, PoolType, TypeOK
<1> QED  BY <1>3, <1>4, <1>6, TypePartsNext
         DEF RetrySameKey, TypeOK, RequestType, SharedType

LEMMA CancelType ==
  ASSUME RotationAssumption, TypeOK, NEW r \in Requests, CancelWaiting(r)
  PROVE  TypeOK'
<1>1. loc' \in [Requests -> Locals]
  BY FreshType, Written DEF CancelWaiting, Fail, TypeOK
<1>2. /\ pc' \in [Requests -> Pcs]
      /\ \A q \in Requests : key'[q] # None <=> pc'[q] \in Holding
  BY GoType DEF CancelWaiting, Pcs, Holding, Asleep, Fail
<1>3. PoolType'
  BY PoolKept DEF CancelWaiting
<1> QED  BY <1>1, <1>2, <1>3, TypePartsNext
         DEF CancelWaiting, TypeOK, RequestType, SharedType

(* The administrator, the affinity cache and time.                           *)
LEMMA AdminType ==
  ASSUME RotationAssumption, TypeOK,
         \/ \E k \in Keys : AddKey(k) \/ RemoveKey(k)
         \/ \E s \in Sessions : Evict(s)
  PROVE  TypeOK'
<1>1. PoolType'
  BY PoolKept DEF AddKey, RemoveKey, Evict
<1>2. SharedType'
  BY DEF AddKey, RemoveKey, Evict, SharedType, TypeOK, RotationAssumption
<1> QED  BY <1>1, <1>2, TypePartsNext
         DEF AddKey, RemoveKey, Evict, RequestType, TypeOK

LEMMA ElapseType ==
  ASSUME RotationAssumption, TypeOK, Elapse
  PROVE  TypeOK'
<1>1. \A n \in Nat : Less(n) \in Nat
  BY DEF Less
<1>2. \A n \in 0..Window : Less(n) \in 0..Window
  BY Sizes DEF Less
<1>3. loc' \in [Requests -> Locals]
  BY ElapsedLocals DEF Elapse, TypeOK
<1>4. /\ cooling \in [Keys -> [Models -> Nat]] /\ lockout \in [Keys -> Nat]
      /\ paused \in Nat
      /\ window \in [Keys -> [Models -> 0..Window]]
      /\ count \in [Keys -> [Models -> 0..Cap]] /\ 0 \in 0..Cap
  BY Sizes DEF TypeOK
<1>5. /\ cooling' = [k \in Keys |-> [m \in Models |-> Less(cooling[k][m])]]
      /\ lockout' = [k \in Keys |-> Less(lockout[k])]
      /\ paused' = Less(paused)
      /\ window' = [k \in Keys |-> [m \in Models |-> Less(window[k][m])]]
      /\ count' = [k \in Keys |-> [m \in Models |->
                     IF window[k][m] = 1 THEN 0 ELSE count[k][m]]]
      /\ UNCHANGED <<configured, inUse, exhausted, affinity, pc, key>>
  BY DEF Elapse
<1>6. cooling' \in [Keys -> [Models -> Nat]]
  BY ONLY <1>1, <1>4, <1>5
<1>7. lockout' \in [Keys -> Nat] /\ paused' \in Nat
  BY ONLY <1>1, <1>4, <1>5
<1>8. window' \in [Keys -> [Models -> 0..Window]]
  BY ONLY <1>2, <1>4, <1>5
<1>9. count' \in [Keys -> [Models -> 0..Cap]]
  BY ONLY <1>4, <1>5
<1> QED  BY <1>3, <1>5, <1>6, <1>7, <1>8, <1>9 DEF TypeOK

(* A request that waits to retry has an attempt left.                        *)
AttemptsLeft == \A r \in Requests : pc[r] = "retry" => loc[r].attempt < MaxRetries

LEMMA ReleaseAttempts ==
  ASSUME TypeOK, AttemptsLeft, NEW r \in Requests,
         NEW next \in {"loop", "served", "failed"}, Release(r, next)
  PROVE  AttemptsLeft'
<1>1. ASSUME NEW q \in Requests, pc'[q] = "retry"
      PROVE  q # r /\ pc[q] = "retry" /\ loc'[q] = loc[q]
  BY <1>1 DEF Release, TypeOK
<1> QED  BY <1>1 DEF AttemptsLeft

LEMMA GoAttempts ==
  ASSUME TypeOK, AttemptsLeft, NEW r \in Requests, NEW next \in Pcs,
         Go(r, next), next # "retry" \/ loc'[r].attempt < MaxRetries,
         \A q \in Requests \ {r} : loc'[q] = loc[q]
  PROVE  AttemptsLeft'
BY DEF AttemptsLeft, Go, TypeOK

LEMMA AttemptsStep ==
  ASSUME RotationAssumption, TypeOK, AttemptsLeft, [Next]_vars
  PROVE  AttemptsLeft'
<1>0. loc \in [Requests -> Locals]
  BY DEF TypeOK
<1>1. CASE UNCHANGED <<pc, loc>>
  BY <1>1 DEF AttemptsLeft
<1>2. ASSUME NEW r \in Requests, Loop(r) \/ Start(r) \/ Take(r) \/ Queue(r)
             \/ NoneEligible(r) \/ OutOfTime(r) \/ Wake(r) \/ CancelWaiting(r)
             \/ Connect(r) \/ Abandon(r)
      PROVE  AttemptsLeft'
  <2>1. /\ \A q \in Requests \ {r} : loc'[q] = loc[q]
        /\ \E next \in Pcs \ {"retry"} : Go(r, next)
    BY <1>0, <1>2 DEF Loop, Start, Take, Queue, NoneEligible, OutOfTime, Wake,
       CancelWaiting, Connect, Abandon, Fail, Sleep, Pcs, Asleep, Holding
  <2> QED  BY <2>1, GoAttempts
<1>3. ASSUME NEW r \in Requests, Serve(r) \/ StreamEnds(r) \/ Disconnect(r)
             \/ Close(r) \/ GiveUp(r) \/ QuotaExceeded(r) \/ RateLimited(r)
             \/ AuthFailed(r) \/ BacksOff(r)
      PROVE  AttemptsLeft'
  <2>1. \E next \in {"loop", "served", "failed"} : Release(r, next)
    BY <1>3 DEF Serve, StreamEnds, Disconnect, Close, GiveUp, QuotaExceeded,
       RateLimited, AuthFailed, BacksOff, Rotate
  <2> QED  BY <2>1, ReleaseAttempts
<1>4. ASSUME NEW r \in Requests, RetrySameKey(r)
      PROVE  AttemptsLeft'
  <2>1. /\ \A q \in Requests \ {r} : loc'[q] = loc[q]
        /\ loc'[r].attempt = loc[r].attempt
    BY <1>0, <1>4 DEF RetrySameKey, Locals
  <2> QED  BY <1>4, <2>1, GoAttempts DEF RetrySameKey, Pcs, Holding
<1>5. CASE Elapse
  <2>1. \A q \in Requests : loc'[q].attempt = loc[q].attempt
    BY <1>0, <1>5 DEF Elapse, Locals
  <2> QED  BY <1>5, <2>1 DEF AttemptsLeft, Elapse
<1>6. CASE \/ \E k \in Keys : AddKey(k) \/ RemoveKey(k)
           \/ \E s \in Sessions : Evict(s)
  BY <1>6, <1>1 DEF AddKey, RemoveKey, Evict
<1> QED  BY <1>1, <1>2, <1>3, <1>4, <1>5, <1>6 DEF Next, Proceed, Answer, vars

LEMMA TypeStep ==
  ASSUME RotationAssumption, TypeOK, AttemptsLeft, [Next]_vars
  PROVE  TypeOK'
<1>1. CASE UNCHANGED vars
  BY <1>1 DEF TypeOK, vars
<1>2. ASSUME NEW r \in Requests, Wake(r)
      PROVE  TypeOK'
  BY <1>2, WakeType DEF AttemptsLeft
<1> QED  BY <1>1, <1>2, StartType, LoopType, TakeType, QueueType, NoneEligibleType,
         OutOfTimeType, ServeType, EndType, ConnectType, FailureType, RetryType,
         CancelType, AdminType, ElapseType DEF Next, Proceed, Answer

LEMMA TypeInit ==
  ASSUME RotationAssumption, Init
  PROVE  TypeOK /\ AttemptsLeft
<1>1. Fresh \in Locals /\ Cap \in Nat /\ Window \in Nat
  BY FreshType, Sizes
<1> QED  BY <1>1 DEF Init, TypeOK, AttemptsLeft, Pcs, Holding, RotationAssumption

LEMMA Typed == Spec => [](TypeOK /\ AttemptsLeft)
<1>1. Init => TypeOK /\ AttemptsLeft
  BY RotationAssumption, TypeInit
<1>2. TypeOK /\ AttemptsLeft /\ [Next]_vars => TypeOK' /\ AttemptsLeft'
  BY RotationAssumption, TypeStep, AttemptsStep
<1> QED  BY <1>1, <1>2, PTL DEF Spec

(* Every variable keeps its type, and a request has a key exactly while it   *)
(* calls, retries or streams.                                                *)
THEOREM TypeCorrect == Spec => []TypeOK
BY Typed, PTL
=============================================================================
