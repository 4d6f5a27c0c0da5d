---------------------------- MODULE KeyRotation ----------------------------
(* The credential pool of the LLM proxy: concurrent requests to one          *)
(* provider acquire keys, call it, cool keys down, rotate and release.       *)
(* An asyncio lock that is free does not suspend its taker, so a step is the *)
(* code between two suspensions: a call, a sleep, a wait.  Every deadline is *)
(* kept as what remains of it, in seconds.                                   *)
EXTENDS Integers, FiniteSets, FiniteSetsExt

CONSTANTS
  Requests, Streams, Keys, Models, Sessions, None,
  ModelOf, SessionOf,       \* per request; SessionOf may be None
  GroupOf,                  \* a representative of the model's quota group
  Priority,                 \* what the provider's plugin says of some keys
  Removable,                \* keys that are added and removed while running
  MaxConcurrent,            \* max_concurrent times the priority's multiplier
  MaxRetries,
  FairCycle,
  Cap, Window,              \* a custom cap (0: none) and the quota's window
  Timeout,                  \* global_timeout
  Short, Long               \* cooldowns: transient, quota or lockout

DefaultTier == 999

(* The plugins' tier tables give priorities from 1 to 10.                    *)
ASSUME RotationAssumption ==
  /\ IsFiniteSet(Requests) /\ Streams \subseteq Requests /\ Removable \subseteq Keys
  /\ ModelOf \in [Requests -> Models]
  /\ SessionOf \in [Requests -> Sessions \union {None}]
  /\ GroupOf \in [Models -> Models]
  /\ None \notin Keys \union Sessions
  /\ DOMAIN Priority \subseteq Keys
  /\ \A k \in DOMAIN Priority : Priority[k] \in 1..DefaultTier
  /\ FairCycle \in BOOLEAN
  /\ {MaxConcurrent, MaxRetries, Window, Timeout, Long} \subseteq Nat \ {0}
  /\ Short \subseteq 1..Long /\ Short # {} /\ Cap \in Nat

VARIABLES
  configured,   \* all_credentials of the provider
  inUse,        \* key_states[k]["models_in_use"]
  cooling,      \* model_cooldowns
  lockout,      \* key_cooldown_until
  exhausted,    \* the fair cycle's keys; their tier is that of the key
  paused,       \* the provider's cooldown
  affinity,     \* the key a session is bound to
  count, window,\* request_count and what remains of its window
  pc, key,      \* per request: where it is, the key it holds
  loc           \* its other locals

pool == <<cooling, lockout, exhausted, count, window>>
vars == <<configured, inUse, cooling, lockout, exhausted, paused, affinity,
          count, window, pc, key, loc>>

Asleep == {"asleep", "queued", "retry"}
Holding == {"calling", "retry", "streaming", "closing"}
Pcs == {"new", "loop", "acquire", "served", "failed"} \union Asleep \union Holding

Locals == [creds : SUBSET Keys, tried : SUBSET Keys, pref : Keys \union {None},
           attempt : 0..MaxRetries, left : Nat, timer : Nat,
           waits : Keys \union {None}]

Fresh == [creds |-> {}, tried |-> {}, pref |-> None, attempt |-> 0, left |-> 0,
          timer |-> 0, waits |-> None]

Init ==
  /\ configured = Keys
  /\ inUse = [k \in Keys |-> [m \in Models |-> 0]]
  /\ cooling = [k \in Keys |-> [m \in Models |-> 0]]
  /\ lockout = [k \in Keys |-> 0]
  /\ exhausted = [m \in Models |-> {}]
  /\ paused = 0
  /\ affinity = [s \in Sessions |-> None]
  /\ count = [k \in Keys |-> [m \in Models |-> 0]]
  /\ window = [k \in Keys |-> [m \in Models |-> 0]]
  /\ pc = [r \in Requests |-> "new"]
  /\ key = [r \in Requests |-> None]
  /\ loc = [r \in Requests |-> Fresh]

-----------------------------------------------------------------------------
(* Which keys a request may take.                                            *)

(* Faulty: the keys a request has tried are forgotten.                       *)
UntriedEver(r) == loc[r].creds

Untried(r) == loc[r].creds \ loc[r].tried
Warm(r) == {k \in Untried(r) : lockout[k] = 0 /\ cooling[k][ModelOf[r]] = 0}
Idle(k) == \A m \in Models : inUse[k][m] = 0
Room(r, k) == inUse[k][ModelOf[r]] < MaxConcurrent

Tier(k) == IF k \in DOMAIN Priority THEN Priority[k] ELSE DefaultTier

(* The session's key comes before all others.                                *)
Given(r) ==
  LET known == DOMAIN Priority \intersect loc[r].creds
      best == IF known = {} THEN 1 ELSE Min({Priority[k] : k \in known})
  IN  [k \in known \union ({loc[r].pref} \ {None}) |->
         IF k = loc[r].pref THEN best - 1 ELSE Priority[k]]
Prioritised(r) == DOMAIN Given(r) # {}
Rank(r, k) == IF k \in DOMAIN Given(r) THEN Given(r)[k] ELSE DefaultTier

(* Without priorities, keys that are busy are dropped at once.               *)
Candidates(r) ==
  IF Prioritised(r) THEN Warm(r) ELSE {k \in Warm(r) : Idle(k) \/ Room(r, k)}
Level(r, p) == {k \in Candidates(r) : Rank(r, k) = p}
Levels(r) ==
  IF Prioritised(r) THEN {Rank(r, k) : k \in Warm(r)} ELSE {DefaultTier}

HadTurn(r, p) == {k \in exhausted[GroupOf[ModelOf[r]]] : Tier(k) = p}
(* Faulty: the cycle ends only by the count of keys that had their turn.     *)
CycleOverByCount(r, p) ==
  Cardinality(HadTurn(r, p)) >= Cardinality({k \in loc[r].creds : Rank(r, k) = p})

CycleOver(r, p) ==
  \/ Level(r, p) \subseteq HadTurn(r, p)
  \/ Cardinality(HadTurn(r, p))
       >= Cardinality({k \in loc[r].creds : Rank(r, k) = p})
Usable(r, p) ==
  IF ~FairCycle \/ CycleOver(r, p) THEN Level(r, p)
                                   ELSE Level(r, p) \ HadTurn(r, p)
(* Faulty: a busy key of the best rank is taken without looking at its limit.*)
UnlimitedTakeable(r, p) ==
  LET idle == {k \in Usable(r, p) : Idle(k)}
  IN  IF idle # {} THEN idle ELSE Usable(r, p)

Takeable(r, p) ==
  LET idle == {k \in Usable(r, p) : Idle(k)}
  IN  IF idle # {} THEN idle ELSE {k \in Usable(r, p) : Room(r, k)}

(* The levels looked at: up to the first that has a key to take.             *)
Visited(r) ==
  {p \in Levels(r) : \A q \in Levels(r) : q < p => Takeable(r, q) = {}}
Choice(r) == UNION {Takeable(r, p) : p \in Visited(r)}
CyclesReset(r) ==
  [exhausted EXCEPT ![GroupOf[ModelOf[r]]] =
     @ \ UNION {HadTurn(r, p) :
                  p \in {q \in Visited(r) : FairCycle /\ CycleOver(r, q)}}]

(* When the untried keys that are cooling come back.                         *)
CooldownEnds(r) ==
  ({lockout[k] : k \in Untried(r)}
     \union {cooling[k][ModelOf[r]] : k \in Untried(r)}) \ {0}

-----------------------------------------------------------------------------
(* The life of a request.                                                    *)

Go(r, next) == pc' = [pc EXCEPT ![r] = next]
Sleep(r, time) == Go(r, "asleep") /\ loc' = [loc EXCEPT ![r].timer = time]
Fail(r) == Go(r, "failed") /\ loc' = [loc EXCEPT ![r] = Fresh]

(* Faulty: the binding is used as it was stored.                             *)
StoredPreferred(r) == IF SessionOf[r] # None THEN affinity[SessionOf[r]] ELSE None

(* The session's key, unless it has been removed since.                      *)
Preferred(r) ==
  LET session == SessionOf[r]
  IN  IF session # None /\ affinity[session] \in configured
      THEN affinity[session] ELSE None

Start(r) ==
  /\ pc[r] = "new" /\ configured # {}
  /\ loc' = [loc EXCEPT ![r].creds = configured, ![r].pref = Preferred(r),
                        ![r].left = Timeout]
  /\ affinity' = [s \in Sessions |->
                    IF s = SessionOf[r] /\ affinity[s] \notin configured
                    THEN None ELSE affinity[s]]
  /\ Go(r, "loop")
  /\ UNCHANGED <<configured, inUse, paused, key, pool>>

Loop(r) ==
  /\ pc[r] = "loop"
  /\ IF Untried(r) = {} \/ loc[r].left < paused \/ loc[r].left = 0
     THEN Fail(r)
     ELSE IF paused > 0 THEN Sleep(r, paused)
                        ELSE Go(r, "acquire") /\ UNCHANGED loc
  /\ UNCHANGED <<configured, inUse, paused, affinity, key, pool>>

Take(r) ==
  /\ pc[r] = "acquire" /\ loc[r].left > 0
  /\ \E k \in Choice(r) :
       /\ inUse' = [inUse EXCEPT ![k][ModelOf[r]] = @ + 1]
       /\ key' = [key EXCEPT ![r] = k]
       /\ loc' = [loc EXCEPT ![r].tried = @ \union {k}, ![r].attempt = 1]
  /\ exhausted' = CyclesReset(r)
  /\ Go(r, "calling")
  /\ UNCHANGED <<configured, paused, affinity, cooling, lockout, count, window>>

(* Keys of the best priority are only busy: wait for one to be released.     *)
Queue(r) ==
  /\ pc[r] = "acquire" /\ loc[r].left > 0 /\ Choice(r) = {}
  /\ Prioritised(r) /\ Warm(r) # {}
  /\ \E k \in Level(r, Min(Levels(r))) :
       loc' = [loc EXCEPT ![r].timer = 1, ![r].waits = k]
  /\ Go(r, "queued")
  /\ exhausted' = CyclesReset(r)
  /\ UNCHANGED <<configured, inUse, paused, affinity, key, cooling, lockout,
                 count, window>>

(* No key was found eligible: wait for a cooldown to end, or fail.           *)
NoneEligible(r) ==
  /\ pc[r] = "acquire" /\ loc[r].left > 0 /\ Choice(r) = {}
  /\ ~(Prioritised(r) /\ Warm(r) # {})
  /\ \/ CooldownEnds(r) = {} /\ Sleep(r, 1)
     \/ \E time \in CooldownEnds(r) :
          /\ \A other \in CooldownEnds(r) : time <= other
          /\ IF time > loc[r].left THEN Fail(r) ELSE Sleep(r, time)
  /\ exhausted' = CyclesReset(r)
  /\ UNCHANGED <<configured, inUse, paused, affinity, key, cooling, lockout,
                 count, window>>

(* Faulty: the loop of acquire_key does not look at the deadline.            *)
PollingOutOfTime(r) ==
  /\ pc[r] = "acquire" /\ loc[r].left = 0
  /\ Sleep(r, 1)
  /\ UNCHANGED <<configured, inUse, paused, affinity, key, pool>>

OutOfTime(r) ==
  /\ pc[r] = "acquire" /\ loc[r].left = 0
  /\ Fail(r)
  /\ UNCHANGED <<configured, inUse, paused, affinity, key, pool>>

Wake(r) ==
  /\ pc[r] \in Asleep /\ loc[r].timer = 0
  /\ Go(r, IF pc[r] = "retry" THEN "calling" ELSE "acquire")
  /\ loc' = [loc EXCEPT ![r].waits = None,
                        ![r].attempt = IF pc[r] = "retry" THEN @ + 1 ELSE @]
  /\ UNCHANGED <<configured, inUse, paused, affinity, key, pool>>

(* release_key: whoever waits for the key looks again.                       *)
Release(r, next) ==
  LET woken == {q \in Requests \ {r} : pc[q] = "queued" /\ loc[q].waits = key[r]}
  IN  /\ inUse' = [inUse EXCEPT ![key[r]][ModelOf[r]] = @ - 1]
      /\ key' = [key EXCEPT ![r] = None]
      /\ pc' = [q \in Requests |-> IF q = r THEN next
                                   ELSE IF q \in woken THEN "acquire" ELSE pc[q]]
      /\ loc' = [q \in Requests |->
                   IF q \in woken
                   THEN [loc[q] EXCEPT !.timer = 0, !.waits = None]
                   ELSE IF q = r /\ next # "loop" THEN Fresh ELSE loc[q]]

-----------------------------------------------------------------------------
(* What an answer does to the key.                                           *)

Group(m) == {n \in Models : GroupOf[n] = GroupOf[m]}

(* Every answer counts for the whole quota group.                            *)
Counted(r) ==
  count' = IF Cap = 0 THEN count
           ELSE [count EXCEPT ![key[r]] =
                   [m \in Models |-> IF m \in Group(ModelOf[r]) /\ @[m] < Cap
                                     THEN @[m] + 1 ELSE @[m]]]
Mark(r) ==
  exhausted' = IF FairCycle
               THEN [exhausted EXCEPT ![GroupOf[ModelOf[r]]] = @ \union {key[r]}]
               ELSE exhausted
Cool(r, ms, time) ==
  cooling' = [cooling EXCEPT ![key[r]] =
                [m \in Models |-> IF m \in ms THEN time ELSE @[m]]]

(* record_success: a custom cap that is reached cools the quota group, and   *)
(* then the cooldown of the model itself is cleared.                         *)
RecordSuccess(r) ==
  LET k == key[r]
      m == ModelOf[r]
      win == IF window[k][m] = 0 THEN Window ELSE window[k][m]
      capped == Cap > 0 /\ count[k][m] + 1 >= Cap
  IN  /\ Counted(r)
      /\ window' = IF Cap = 0 THEN window
                   ELSE [window EXCEPT ![k] =
                           [n \in Models |-> IF n \in Group(m) THEN win ELSE @[n]]]
      /\ cooling' = [cooling EXCEPT ![k] =
                       [n \in Models |->
                          IF n = m THEN 0
                          ELSE IF capped /\ n \in Group(m) THEN win ELSE @[n]]]
      /\ IF capped /\ win >= Long THEN Mark(r) ELSE UNCHANGED exhausted
      /\ UNCHANGED lockout

Bind(r) ==
  affinity' = [s \in Sessions |->
                 IF s = SessionOf[r] THEN key[r] ELSE affinity[s]]
Unbind(r) ==
  affinity' = [s \in Sessions |-> IF s = SessionOf[r] /\ affinity[s] = key[r]
                                  THEN None ELSE affinity[s]]

Serve(r) ==
  /\ pc[r] = "calling" /\ r \notin Streams
  /\ RecordSuccess(r) /\ Bind(r) /\ Release(r, "served")
  /\ UNCHANGED <<configured, paused>>

(* The key goes over to the generator that reads the stream.                 *)
Connect(r) ==
  /\ pc[r] = "calling" /\ r \in Streams
  /\ Bind(r) /\ Go(r, "streaming")
  /\ UNCHANGED <<configured, inUse, paused, key, loc, pool>>

StreamEnds(r) ==
  /\ pc[r] = "streaming"
  /\ RecordSuccess(r) /\ Release(r, "served")
  /\ UNCHANGED <<configured, paused, affinity>>

(* The client is gone: found by the generator, or by its own consumer, whose *)
(* generators are closed later by the event loop.                            *)
Disconnect(r) ==
  /\ pc[r] = "streaming" /\ Release(r, "failed")
  /\ UNCHANGED <<configured, paused, affinity, pool>>
Abandon(r) ==
  /\ pc[r] = "streaming" /\ Go(r, "closing")
  /\ UNCHANGED <<configured, inUse, paused, affinity, key, loc, pool>>
(* Faulty: the wrapper has no finally clause.                                *)
UnreleasedClose(r) ==
  /\ pc[r] = "closing" /\ Fail(r)
  /\ key' = [key EXCEPT ![r] = None]
  /\ UNCHANGED <<configured, paused, affinity, inUse, pool>>
Close(r) ==
  /\ pc[r] = "closing" /\ Release(r, "failed")
  /\ UNCHANGED <<configured, paused, affinity, pool>>

(* A failure that makes the request try another key.                         *)
Rotate(r) ==
  /\ pc[r] \in {"calling", "streaming"}
  /\ Unbind(r)
  /\ \E next \in {"loop"} \union
        (IF Cardinality(loc[r].tried) >= 3 THEN {"failed"} ELSE {}) :
       Release(r, next)
  /\ UNCHANGED <<configured, window>>

(* An answer that tells when the quota resets counts and is the group's.     *)
QuotaExceeded(r) ==
  /\ Rotate(r)
  /\ \/ Cool(r, Group(ModelOf[r]), Long) /\ Counted(r)
     \/ Cool(r, {ModelOf[r]}, Long) /\ UNCHANGED count
  /\ IF cooling[key[r]][ModelOf[r]] = 0 THEN Mark(r) ELSE UNCHANGED exhausted
  /\ UNCHANGED <<lockout, paused>>

(* The provider's cooldown is set, not extended.                             *)
RateLimited(r) ==
  /\ Rotate(r) /\ Counted(r)
  /\ \E time \in Short : Cool(r, {ModelOf[r]}, time) /\ paused' = time
  /\ UNCHANGED <<lockout, exhausted>>

AuthFailed(r) ==
  /\ Rotate(r) /\ Counted(r)
  /\ Cool(r, {ModelOf[r]}, Long)
  /\ lockout' = [lockout EXCEPT ![key[r]] = Long]
  /\ UNCHANGED <<paused, exhausted>>

(* Any other failure, a server error too once it is not retried.             *)
BacksOff(r) ==
  /\ Rotate(r) /\ Counted(r)
  /\ \E time \in Short : Cool(r, {ModelOf[r]}, time)
  /\ UNCHANGED <<lockout, paused, exhausted>>

(* Faulty: one attempt more than max_retries.                                *)
EagerRetrySameKey(r) ==
  /\ pc[r] = "calling" /\ loc[r].attempt <= MaxRetries
  /\ \E wait \in Short : loc' = [loc EXCEPT ![r].timer = wait]
  /\ \E time \in Short : Cool(r, {ModelOf[r]}, time)
  /\ Go(r, "retry")
  /\ Counted(r)
  /\ UNCHANGED <<configured, inUse, paused, affinity, key, lockout, exhausted,
                 window>>

(* A server error is tried again with the same key, if there is time; one    *)
(* that is told by the HTTP status alone is not recorded before.             *)
RetrySameKey(r) ==
  /\ pc[r] = "calling" /\ loc[r].attempt < MaxRetries
  /\ \E wait \in Short :
       wait <= loc[r].left /\ loc' = [loc EXCEPT ![r].timer = wait]
  /\ \/ Counted(r) /\ \E time \in Short : Cool(r, {ModelOf[r]}, time)
     \/ UNCHANGED <<cooling, count>>
  /\ Go(r, "retry")
  /\ UNCHANGED <<configured, inUse, paused, affinity, key, lockout, exhausted,
                 window>>

(* An error that no other key would cure, and a cancelled task.              *)
GiveUp(r) ==
  /\ pc[r] \in {"calling", "retry", "streaming"}
  /\ Release(r, "failed")
  /\ UNCHANGED <<configured, paused, affinity, pool>>
CancelWaiting(r) ==
  /\ pc[r] \in {"asleep", "queued"} /\ Fail(r)
  /\ UNCHANGED <<configured, inUse, paused, affinity, key, pool>>

-----------------------------------------------------------------------------
(* The administrator's calls, the affinity cache's limits, and time.         *)

AddKey(k) ==
  /\ k \in Removable \ configured
  /\ configured' = configured \union {k}
  /\ UNCHANGED <<inUse, paused, affinity, pc, key, loc, pool>>
RemoveKey(k) ==
  /\ k \in Removable \intersect configured
  /\ configured' = configured \ {k}
  /\ affinity' = [s \in Sessions |-> IF affinity[s] = k THEN None ELSE affinity[s]]
  /\ UNCHANGED <<inUse, paused, pc, key, loc, pool>>
Evict(s) ==
  /\ affinity[s] # None
  /\ affinity' = [affinity EXCEPT ![s] = None]
  /\ UNCHANGED <<configured, inUse, paused, pc, key, loc, pool>>

Less(n) == IF n > 0 THEN n - 1 ELSE 0
Running(r) == pc[r] \notin {"new", "served", "failed"}
Ready(r) == pc[r] = "acquire" \/ (pc[r] \in Asleep /\ loc[r].timer = 0)
Elapse ==
  /\ \A r \in Requests : ~Ready(r)
  /\ \/ paused > 0
     \/ \E k \in Keys : lockout[k] > 0 \/ \E m \in Models : cooling[k][m] > 0
     \/ \E r \in Requests : Running(r) /\ loc[r].left + loc[r].timer > 0
  /\ paused' = Less(paused)
  /\ lockout' = [k \in Keys |-> Less(lockout[k])]
  /\ cooling' = [k \in Keys |-> [m \in Models |-> Less(cooling[k][m])]]
  /\ window' = [k \in Keys |-> [m \in Models |-> Less(window[k][m])]]
  /\ count' = [k \in Keys |-> [m \in Models |->
                 IF window[k][m] = 1 THEN 0 ELSE count[k][m]]]
  /\ loc' = [r \in Requests |-> [loc[r] EXCEPT !.left = Less(@), !.timer = Less(@)]]
  /\ UNCHANGED <<configured, inUse, exhausted, affinity, pc, key>>

Proceed(r) ==
  \/ Take(r) \/ Queue(r) \/ NoneEligible(r) \/ OutOfTime(r) \/ Wake(r)
  \/ Close(r)
Answer(r) ==
  \/ Serve(r) \/ Connect(r) \/ StreamEnds(r)
  \/ QuotaExceeded(r) \/ RateLimited(r) \/ AuthFailed(r) \/ BacksOff(r)
  \/ RetrySameKey(r) \/ GiveUp(r)

(* "loop" is inside a turn of the event loop: nothing comes between.         *)
Next ==
  \/ \E r \in Requests : Loop(r)
  \/ /\ \A r \in Requests : pc[r] # "loop"
     /\ \/ \E r \in Requests :
             Start(r) \/ Proceed(r) \/ Answer(r) \/ Disconnect(r) \/ Abandon(r)
               \/ CancelWaiting(r)
        \/ \E k \in Keys : AddKey(k) \/ RemoveKey(k)
        \/ \E s \in Sessions : Evict(s)
        \/ Elapse

Spec == Init /\ [][Next]_vars

(* The event loop runs what is ready, time passes, and the provider answers, *)
(* or the HTTP client's own timeouts do.                                     *)
Fairness ==
  /\ \A r \in Requests : WF_vars(Loop(r) \/ Proceed(r)) /\ WF_vars(Answer(r))
  /\ WF_vars(Elapse)
FairSpec == Spec /\ Fairness

-----------------------------------------------------------------------------
(* Properties.                                                               *)

(* Every variable keeps its type, and a request has a key exactly while it   *)
(* calls, retries or streams.                                                *)
TypeOK ==
  /\ configured \subseteq Keys
  /\ inUse \in [Keys -> [Models -> Int]]
  /\ cooling \in [Keys -> [Models -> Nat]] /\ lockout \in [Keys -> Nat]
  /\ exhausted \in [Models -> SUBSET Keys]
  /\ paused \in Nat
  /\ affinity \in [Sessions -> Keys \union {None}]
  /\ count \in [Keys -> [Models -> 0..Cap]]
  /\ window \in [Keys -> [Models -> 0..Window]]
  /\ pc \in [Requests -> Pcs]
  /\ key \in [Requests -> Keys \union {None}]
  /\ loc \in [Requests -> Locals]
  /\ \A r \in Requests : key[r] # None <=> pc[r] \in Holding

(* models_in_use counts the requests that hold the key for the model: no     *)
(* success, failure, cancellation or abandoned stream leaks a slot or gives  *)
(* one back twice.                                                           *)
Users(k, m) == {r \in Requests : key[r] = k /\ ModelOf[r] = m}
InUseExact == \A k \in Keys, m \in Models : inUse[k][m] = Cardinality(Users(k, m))

(* A key serves no more requests for a model at once than its limit.         *)
WithinLimit == \A k \in Keys, m \in Models : inUse[k][m] <= MaxConcurrent

(* The key a session is bound to is given the best priority only if it is    *)
(* one of the request's own: never a key that was removed and bound again by *)
(* a request still on its way.                                               *)
PreferredIsOffered ==
  \A r \in Requests : loc[r].pref \in loc[r].creds \union {None}

(* A request sleeps or fails although a key is warm and has room only for    *)
(* the sake of another warm key that the fair cycle still owes its turn.     *)
PassedOver(r, k) ==
  \E other \in Warm(r) :
    /\ Rank(r, other) = Rank(r, k) /\ ~Room(r, other)
    /\ other \notin exhausted[GroupOf[ModelOf[r]]]
NotStarved ==
  [][\A r \in Requests :
       (pc[r] = "acquire" /\ loc[r].left > 0 /\ pc'[r] \in {"asleep", "queued", "failed"})
         => \A k \in Warm(r) : Room(r, k) => PassedOver(r, k)]_vars

(* The counters and the lists of tried keys lend keys as KeyPool does: to so *)
(* many requests at a time, and to no request twice.                         *)
Pool == INSTANCE KeyPool
          WITH lent <- key, had <- [r \in Requests |-> loc[r].tried]
LendsAsPromised == Pool!Spec

(* Every request is served or fails, whatever the keys are doing.            *)
RequestsEnd ==
  \A r \in Requests : pc[r] # "new" ~> pc[r] \in {"served", "failed"}

(* The docs: a key whose custom cap is reached is on cooldown.               *)
CapCools ==
  \A k \in Keys, m \in Models : Cap > 0 /\ count[k][m] = Cap => cooling[k][m] > 0
=============================================================================
