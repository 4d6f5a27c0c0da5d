------------------------ MODULE SimulationHttp_proofs ------------------------
(* Proofs about the requests for the simulation and the snapshot of the      *)
(* containers that they share with other callers, for any number of both.    *)
EXTENDS SimulationHttp, TLAPS

Callers == Requests \cup OtherCallers
Steps == {"idle", "waiting", "reading", "storing", "closing"}
Places == {"idle", "lookup", "disk", "backoff", "trying", "polling", "blocked",
           "locked", "building", "saving", "failed"}
Building == {"locked", "building", "saving"}

-----------------------------------------------------------------------------
(* The server uses the snapshot as DockerSnapshot says                       *)

LEMMA HttpStep == ASSUME Next PROVE UNCHANGED docker \/ Docker!Next
  <1>1. ASSUME NEW r \in Requests, Arrive(r) \/ Handle(r)
        PROVE  UNCHANGED docker \/ Docker!Next
    <2>1. CASE Recheck(r)
      BY <2>1 DEF Recheck, Docker!Next
    <2> QED
      BY <1>1, <2>1
      DEF Handle, Arrive, Lookup, FromDisk, Backoff, TryLock, Poll, PollEnds, Acquire,
          Built, Save, BuildFails, Fail
  <1>2. CASE CallDocker \/ GrowOld \/ \E t \in Callers : WorkOnDocker(t)
    BY <1>2 DEF CallDocker, GrowOld, WorkOnDocker, Callers, Docker!Next
  <1>3. CASE Invalidate \/ AgeBody \/ AgeFile \/ BackoffEnds
    BY <1>3 DEF Invalidate, AgeBody, AgeFile, BackoffEnds
  <1> QED
    BY <1>1, <1>2, <1>3 DEF Next, Callers

\* Requests, the WebSocket loop and the endpoints that control containers, with
\* whatever they do between their calls, are callers of collect_docker_simulation
\* _snapshot and nothing else changes its cache, flag or condition.
THEOREM SharesDocker == Spec => Docker!Spec
  <1>1. Init => Docker!Init
    BY DEF Init
  <1>2. [Next]_vars => [Docker!Next]_(Docker!vars)
    BY HttpStep DEF vars, docker, Docker!vars
  <1> QED
    BY <1>1, <1>2, PTL DEF Spec, Docker!Spec

-----------------------------------------------------------------------------
(* The snapshot                                                              *)

\* Snapshots are numbered as they are read: what was given is not newer than what
\* is cached, and what a reader has built is the last one read, until it closes.
InOrder ==
  /\ given <= payload /\ payload <= reads
  /\ \A t \in Callers :
       /\ got[t] > 0 => at[t] \in {"storing", "closing"} /\ got[t] = reads
       /\ at[t] = "storing" => got[t] > 0
       /\ at[t] = "closing" /\ got[t] > 0 => payload = got[t]

Snapshots == Docker!TypeOK /\ OneReader /\ InOrder

LEMMA DockerInit == Docker!Init => Snapshots
  <1> SUFFICES ASSUME Docker!Init PROVE Snapshots
    OBVIOUS
  <1>1. Docker!TypeOK
    <2>1. /\ payload \in 0..MaxReads /\ reads \in 0..MaxReads /\ given \in 0..MaxReads
          /\ age \in 0..2
      <3>1. payload = 0 /\ reads = 0 /\ given = 0 /\ age = 2
        BY DEF Docker!Init
      <3>2. 0 \in 0..MaxReads
        BY HttpAssumption
      <3> QED
        BY <3>1, <3>2
    <2>2. /\ at \in [Callers -> Steps] /\ forced \in [Callers -> BOOLEAN]
          /\ inFlight \in BOOLEAN
      BY DEF Docker!Init, Callers, Steps
    <2>3. got \in [Callers -> 0..MaxReads]
      BY HttpAssumption DEF Docker!Init, Callers
    <2> QED
      BY <2>1, <2>2, <2>3 DEF Docker!TypeOK, Callers, Steps
  <1>2. OneReader
    BY DEF Docker!Init, OneReader, Docker!OneReader, Docker!Reading
  <1>3. InOrder
    BY DEF Docker!Init, InOrder, Callers
  <1> QED
    BY <1>1, <1>2, <1>3 DEF Snapshots

LEMMA DockerTypes == ASSUME Docker!TypeOK, Docker!Next PROVE Docker!TypeOK'
  <1> USE HttpAssumption DEF Docker!TypeOK
  <1>1. ASSUME NEW t \in Callers, Docker!Work(t) PROVE Docker!TypeOK'
    <2>1. CASE Docker!StopWaiting(t)
      BY <2>1 DEF Docker!StopWaiting, Docker!Answer, Docker!Refresh, Docker!Go, Docker!Forget
    <2>2. CASE Docker!Read(t)
      <3>1. reads' \in 0..MaxReads
        BY <2>2 DEF Docker!Read
      <3> QED
        BY <2>2, <3>1 DEF Docker!Read, Docker!Go, Callers
    <2>3. CASE Docker!Store(t)
      BY <2>3 DEF Docker!Store, Docker!Go, Callers
    <2>4. CASE Docker!ReadFails(t)
      BY <2>4 DEF Docker!ReadFails, Docker!Go
    <2>5. CASE Docker!Close(t)
      <3>1. given' \in 0..MaxReads /\ got' \in [Callers -> 0..MaxReads]
        BY <2>5 DEF Docker!Close, Docker!Answer, Callers
      <3>2. at' \in [Callers -> Steps]
        BY <2>5 DEF Docker!Close, Docker!Answer, Docker!Go, Callers, Steps
      <3> QED
        BY <2>5, <3>1, <3>2 DEF Docker!Close, Callers, Steps
    <2> QED
      BY <1>1, <2>1, <2>2, <2>3, <2>4, <2>5 DEF Docker!Work
  <1>2. ASSUME NEW t \in Callers, NEW force \in BOOLEAN, Docker!Call(t, force)
        PROVE  Docker!TypeOK'
    <2>1. given' \in 0..MaxReads /\ inFlight' \in BOOLEAN
      BY <1>2 DEF Docker!Call, Docker!Answer, Docker!Refresh
    <2>2. at' \in [Callers -> Steps]
      BY <1>2 DEF Docker!Call, Docker!Answer, Docker!Refresh, Docker!Go, Steps, Callers
    <2>3. forced' \in [Callers -> BOOLEAN]
      BY <1>2 DEF Docker!Call, Callers
    <2> QED
      BY <1>2, <2>1, <2>2, <2>3 DEF Docker!Call, Steps, Callers
  <1>3. CASE Docker!Grow
    BY <1>3 DEF Docker!Grow
  <1> QED
    BY <1>1, <1>2, <1>3 DEF Docker!Next, Callers

LEMMA DockerReader == ASSUME Docker!TypeOK, OneReader, Docker!Next PROVE OneReader'
  <1> USE DEF OneReader, Docker!OneReader, Docker!Reading
  <1>0. at \in [Callers -> Steps] /\ inFlight \in BOOLEAN
    BY DEF Docker!TypeOK, Callers, Steps
  <1>1. ASSUME NEW t \in Callers, Docker!Work(t) PROVE OneReader'
    <2>1. CASE Docker!StopWaiting(t)
      BY <1>0, <2>1
      DEF Docker!StopWaiting, Docker!Answer, Docker!Refresh, Docker!Go, Callers
    <2>2. CASE Docker!Read(t) \/ Docker!Store(t) \/ Docker!ReadFails(t)
      BY <1>0, <2>2 DEF Docker!Read, Docker!Store, Docker!ReadFails, Docker!Go, Callers
    <2>3. CASE Docker!Close(t)
      BY <1>0, <2>3 DEF Docker!Close, Docker!Answer, Docker!Go, Callers
    <2> QED
      BY <1>1, <2>1, <2>2, <2>3 DEF Docker!Work
  <1>2. ASSUME NEW t \in Callers, NEW force \in BOOLEAN, Docker!Call(t, force)
        PROVE  OneReader'
    BY <1>0, <1>2 DEF Docker!Call, Docker!Answer, Docker!Refresh, Docker!Go, Callers
  <1>3. CASE Docker!Grow
    BY <1>3 DEF Docker!Grow
  <1> QED
    BY <1>1, <1>2, <1>3 DEF Docker!Next, Callers

\* The one reader stores the snapshot it has built and is answered with it before
\* another reader reads.
LEMMA DockerOrder == ASSUME Snapshots, Docker!Next PROVE InOrder' /\ given' >= given
  <1>0. /\ at \in [Callers -> Steps] /\ got \in [Callers -> Nat]
        /\ payload \in Nat /\ given \in Nat /\ reads \in Nat
        /\ InOrder
        /\ \A s, t \in Callers : at[s] \in {"reading", "storing", "closing"}
              /\ at[t] \in {"reading", "storing", "closing"} => s = t
    BY HttpAssumption
    DEF Snapshots, Docker!TypeOK, OneReader, Docker!OneReader, Docker!Reading, Callers, Steps
  <1> USE DEF InOrder
  <1>1. ASSUME NEW t \in Callers, Docker!StopWaiting(t) PROVE InOrder' /\ given' >= given
    BY <1>0, <1>1 DEF Docker!StopWaiting, Docker!Answer, Docker!Refresh, Docker!Go
  <1>2. ASSUME NEW t \in Callers, Docker!Read(t) PROVE InOrder' /\ given' >= given
    <2>1. \A s \in Callers : got[s] = 0
      BY <1>0, <1>2 DEF Docker!Read
    <2>2. \A s \in Callers : got'[s] = IF s = t THEN reads' ELSE 0
      BY <1>0, <1>2, <2>1 DEF Docker!Read
    <2>3. \A s \in Callers : at'[s] = IF s = t THEN "storing" ELSE at[s]
      BY <1>0, <1>2 DEF Docker!Read, Docker!Go
    <2>4. \A s \in Callers \ {t} : at[s] # "storing"
      BY <1>0, <1>2 DEF Docker!Read
    <2> QED
      BY <1>0, <1>2, <2>2, <2>3, <2>4 DEF Docker!Read
  <1>3. ASSUME NEW t \in Callers, Docker!Store(t) PROVE InOrder' /\ given' >= given
    BY <1>0, <1>3 DEF Docker!Store, Docker!Go
  <1>4. ASSUME NEW t \in Callers, Docker!ReadFails(t) PROVE InOrder' /\ given' >= given
    BY <1>0, <1>4 DEF Docker!ReadFails, Docker!Go
  <1>5. ASSUME NEW t \in Callers, Docker!Close(t) PROVE InOrder' /\ given' >= given
    BY <1>0, <1>5 DEF Docker!Close, Docker!Answer, Docker!Go
  <1>6. ASSUME NEW t \in Callers, NEW force \in BOOLEAN, Docker!Call(t, force)
        PROVE  InOrder' /\ given' >= given
    BY <1>0, <1>6 DEF Docker!Call, Docker!Answer, Docker!Refresh, Docker!Go
  <1>7. CASE Docker!Grow
    BY <1>0, <1>7 DEF Docker!Grow
  <1> QED
    BY <1>1, <1>2, <1>3, <1>4, <1>5, <1>6, <1>7 DEF Docker!Next, Docker!Work, Callers

LEMMA DockerStep == ASSUME Snapshots, [Next]_vars PROVE Snapshots' /\ given' >= given
  <1>1. CASE Docker!Next
    BY <1>1, DockerTypes, DockerReader, DockerOrder DEF Snapshots
  <1>2. CASE UNCHANGED docker
    BY <1>2, HttpAssumption
    DEF docker, Snapshots, Docker!TypeOK, OneReader, Docker!OneReader, Docker!Reading, InOrder
  <1> QED
    BY <1>1, <1>2, HttpStep DEF vars

LEMMA AlwaysSnapshots == Spec => []Snapshots
  <1>1. Init => Snapshots
    BY DockerInit DEF Init
  <1>2. Snapshots /\ [Next]_vars => Snapshots'
    BY DockerStep
  <1> QED
    BY <1>1, <1>2, PTL DEF Spec

\* One thread reads the Docker API at a time, and the flag is set exactly while
\* one does, however its call ended: a caller can always become the next reader.
THEOREM SingleReader == Spec => []OneReader
  <1>1. Snapshots => OneReader
    BY DEF Snapshots
  <1> QED
    BY <1>1, AlwaysSnapshots, PTL

\* No caller is answered with an older snapshot than a caller before it, whoever
\* waits, gives up, forces a refresh or fails.
THEOREM SnapshotsForward == Spec => AnswersForward
  <1>1. Snapshots /\ [Next]_vars => [given' >= given]_(Docker!vars)
    BY DockerStep
  <1> QED
    BY <1>1, AlwaysSnapshots, PTL DEF Spec, AnswersForward, Docker!AnswersForward

-----------------------------------------------------------------------------
(* The build lock                                                            *)

LEMMA HttpInit == Init => TypeOK
  <1> SUFFICES ASSUME Init PROVE TypeOK
    OBVIOUS
  <1>1. Docker!TypeOK
    BY DockerInit DEF Init, Snapshots
  <1>2. body \in [key: Keys \cup {NoKey, StartKey}, age: 0..2]
    <2>1. NoKey \in Keys \cup {NoKey, StartKey} /\ 2 \in 0..2
      OBVIOUS
    <2>2. body = [key |-> NoKey, age |-> 2]
      BY DEF Init, NoBody
    <2> QED
      BY <2>1, <2>2
  <1>3. \A r \in Requests :
           (builder = r) = (web[r] \in {"locked", "building", "saving"})
    <2> TAKE r \in Requests
    <2>1. builder = NoOne /\ web[r] = "idle"
      BY DEF Init
    <2>2. NoOne # r
      BY HttpAssumption
    <2> QED
      BY <2>1, <2>2
  <1>4. /\ file \in {"recent", "old", "none"} /\ backoff \in BOOLEAN
        /\ builder \in Requests \cup {NoOne} /\ key \in [Requests -> Keys \cup {NoKey}]
        /\ web \in [Requests -> Places]
    BY DEF Init, Places
  <1> QED
    BY <1>1, <1>2, <1>3, <1>4 DEF TypeOK, Places

\* Where a request goes, and whether it holds the lock there.
LockStep(r) ==
  /\ \E p \in Places : web' = [web EXCEPT ![r] = p]
  /\ \/ builder' = builder /\ (web'[r] \in Building <=> web[r] \in Building)
     \/ builder = NoOne /\ builder' = r /\ web'[r] \in Building
     \/ builder = r /\ builder' = NoOne /\ web'[r] \notin Building

LEMMA OneBuilder ==
  ASSUME TypeOK, NEW r \in Requests, LockStep(r)
  PROVE  /\ builder' \in Requests \cup {NoOne} /\ web' \in [Requests -> Places]
         /\ \A s \in Requests : (builder' = s) = (web'[s] \in Building)
  <1>1. /\ web \in [Requests -> Places] /\ builder \in Requests \cup {NoOne}
        /\ \A s \in Requests : (builder = s) = (web[s] \in Building)
    BY DEF TypeOK, Places, Building
  <1>2. web' \in [Requests -> Places] /\ \A s \in Requests \ {r} : web'[s] = web[s]
    BY <1>1 DEF LockStep
  <1> QED
    BY <1>1, <1>2, HttpAssumption DEF LockStep

\* What a request does to the lock.
LEMMA HandleLock ==
  ASSUME TypeOK, NEW r \in Requests, Arrive(r) \/ Handle(r) PROVE LockStep(r)
  <1>0. /\ web \in [Requests -> Places] /\ builder \in Requests \cup {NoOne}
        /\ \A s \in Requests : (builder = s) = (web[s] \in Building)
    BY DEF TypeOK, Places, Building
  <1> USE DEF Go, Reply, LockStep, Places, Building, Store
  <1>1. ASSUME NEW p \in Places, web' = [web EXCEPT ![r] = p] PROVE web'[r] = p
    BY <1>0, <1>1
  <1>2. CASE Arrive(r)
    BY <1>0, <1>2 DEF Arrive
  <1>3. CASE Lookup(r) \/ FromDisk(r)
    BY <1>0, <1>3 DEF Lookup, FromDisk, Answer
  <1>4. CASE Backoff(r)
    BY <1>0, <1>4 DEF Backoff, Answer
  <1>5. CASE TryLock(r) \/ Acquire(r)
    BY <1>0, <1>5 DEF TryLock, Acquire
  <1>6. CASE Poll(r) \/ PollEnds(r)
    BY <1>0, <1>6 DEF Poll, PollEnds, Answer
  <1>7. CASE Recheck(r)
    BY <1>0, <1>7 DEF Recheck, Answer
  <1>8. CASE Built(r) \/ BuildFails(r)
    BY <1>0, <1>8 DEF Built, BuildFails
  <1>9. CASE Save(r)
    BY <1>0, <1>9 DEF Save, Answer
  <1>10. CASE Fail(r)
    BY <1>0, <1>10 DEF Fail, Answer
  <1> QED
    BY <1>2, <1>3, <1>4, <1>5, <1>6, <1>7, <1>8, <1>9, <1>10 DEF Handle

\* The caches and the keys of the requests.
CacheTypes ==
  /\ body \in [key: Keys \cup {NoKey, StartKey}, age: 0..2]
  /\ file \in {"recent", "old", "none"} /\ backoff \in BOOLEAN
  /\ key \in [Requests -> Keys \cup {NoKey}]

LEMMA HandleCaches ==
  ASSUME CacheTypes, NEW r \in Requests, Arrive(r) \/ Handle(r) PROVE CacheTypes'
  <1> USE DEF CacheTypes
  <1>1. ASSUME NEW k \in Keys \cup {NoKey, StartKey}, Store(k)
        PROVE  body' \in [key: Keys \cup {NoKey, StartKey}, age: 0..2]
    BY <1>1 DEF Store
  <1>2. /\ \/ body' = body
           \/ \E k \in Keys \cup {NoKey, StartKey} : Store(k)
        /\ \/ key' = key
           \/ \E k \in Keys \cup {NoKey} : key' = [key EXCEPT ![r] = k]
    <2> USE DEF Reply, Answer
    <2>1. key[r] \in Keys \cup {NoKey, StartKey}
      OBVIOUS
    <2>2. CASE Arrive(r)
      BY <2>2 DEF Arrive
    <2>3. CASE Lookup(r) \/ FromDisk(r) \/ Backoff(r)
      BY <2>1, <2>3 DEF Lookup, FromDisk, Backoff
    <2>4. CASE TryLock(r) \/ Acquire(r) \/ Poll(r) \/ PollEnds(r)
      BY <2>4 DEF TryLock, Acquire, Poll, PollEnds
    <2>5. CASE Recheck(r) \/ Built(r) \/ Save(r) \/ BuildFails(r) \/ Fail(r)
      BY <2>1, <2>5 DEF Recheck, Built, Save, BuildFails, Fail
    <2> QED
      BY <2>2, <2>3, <2>4, <2>5 DEF Handle
  <1>3. file' \in {"recent", "old", "none"} /\ backoff' \in BOOLEAN
    BY DEF Handle, Arrive, Lookup, FromDisk, Backoff, TryLock, Poll, PollEnds, Acquire,
           Recheck, Built, Save, BuildFails, Fail
  <1> QED
    BY <1>1, <1>2, <1>3

\* Time, a change of the configuration and the other callers.
LEMMA OthersHttp ==
  ASSUME CacheTypes, \/ CallDocker \/ GrowOld \/ (\E t \in Callers : WorkOnDocker(t))
                     \/ Invalidate \/ AgeBody \/ AgeFile \/ BackoffEnds
  PROVE  CacheTypes' /\ UNCHANGED <<builder, web>>
  <1>1. CASE CallDocker \/ GrowOld \/ (\E t \in Callers : WorkOnDocker(t))
    BY <1>1 DEF CallDocker, GrowOld, WorkOnDocker, http, CacheTypes
  <1>2. CASE Invalidate \/ AgeFile \/ BackoffEnds
    <2>1. NoBody \in [key: Keys \cup {NoKey, StartKey}, age: 0..2]
      BY DEF NoBody
    <2> QED
      BY <1>2, <2>1 DEF Invalidate, AgeFile, BackoffEnds, CacheTypes
  <1>3. CASE AgeBody
    <2>1. CASE body.age = 0
      <3>1. body' = [body EXCEPT !.age = 1]
        BY <1>3, <2>1 DEF AgeBody
      <3>2. body' \in [key: Keys \cup {NoKey, StartKey}, age: 0..2]
        BY <3>1 DEF CacheTypes
      <3> QED
        BY <1>3, <3>2 DEF AgeBody, CacheTypes
    <2>2. CASE body.age # 0
      BY <1>3, <2>2 DEF AgeBody, NoBody, CacheTypes
    <2> QED
      BY <2>1, <2>2
  <1> QED
    BY <1>1, <1>2, <1>3

LEMMA HttpTypes == ASSUME TypeOK, [Next]_vars PROVE TypeOK'
  <1>0. CacheTypes /\ Docker!TypeOK
    BY DEF TypeOK, CacheTypes
  <1>1. Docker!TypeOK'
    <2>1. CASE UNCHANGED docker
      BY <1>0, <2>1 DEF docker, Docker!TypeOK
    <2> QED
      BY <1>0, <2>1, HttpStep, DockerTypes DEF vars
  <1>2. ASSUME NEW r \in Requests, Arrive(r) \/ Handle(r) PROVE TypeOK'
    BY <1>0, <1>1, <1>2, HandleLock, HandleCaches, OneBuilder
    DEF TypeOK, CacheTypes, Places, Building
  <1>3. ASSUME CacheTypes', UNCHANGED <<builder, web>> PROVE TypeOK'
    BY <1>1, <1>3 DEF TypeOK, CacheTypes
  <1>4. CASE UNCHANGED vars
    BY <1>0, <1>3, <1>4 DEF vars, http, CacheTypes
  <1> QED
    BY <1>0, <1>2, <1>3, <1>4, OthersHttp DEF Next, Callers

\* Whoever builds the simulation holds the build lock and nobody else does: a
\* request that was answered from the memory, from the disk or by another's build,
\* that failed or whose client has gone has released it.
THEOREM BuilderHoldsLock == Spec => []TypeOK
  BY HttpInit, HttpTypes, PTL DEF Spec
=============================================================================
