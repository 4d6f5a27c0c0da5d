-------------------------- MODULE SimulationHttp --------------------------
(* GET /api/simulation: requests that share a body in memory, a body on      *)
(* disk, a pause after a failed build and one build at a time.  The builder  *)
(* takes the snapshot of the containers (DockerSnapshot), which other        *)
(* callers take without holding the build lock.  A key stands for what the   *)
(* key of the cache is made of: the perspective, the catalog, the user's     *)
(* inputs and the version of the configuration.                              *)
EXTENDS Naturals

CONSTANTS Requests, OtherCallers, Keys, MaxReads  \* MaxReads bounds the calls of Docker

NoOne == "no one"

ASSUME HttpAssumption == MaxReads \in Nat /\ NoOne \notin Requests

VARIABLES
  body,      \* the one body in memory: its key, its age; 0: within the cache's
             \* seconds, 1: good as a stale answer, 2: too old, or none
  file,      \* the body on disk: "recent", "old" or "none"
  backoff,   \* a build has failed within the cooldown
  builder,   \* who holds the build lock, or NoOne
  web, key,  \* per request: where it is, the key it has computed
  payload, age, inFlight, reads, at, forced, got, given

http == <<body, file, backoff, builder, web, key>>
docker == <<payload, age, inFlight, reads, at, forced, got, given>>
vars == <<http, docker>>

Docker == INSTANCE DockerSnapshot WITH Threads <- Requests \cup OtherCallers

NoKey == "none"
StartKey == "disk-cold-start"
NoBody == [key |-> NoKey, age |-> 2]

(* Besides the types: whoever is building holds the lock, and nobody else.    *)
TypeOK ==
  /\ body \in [key: Keys \cup {NoKey, StartKey}, age: 0..2]
  /\ file \in {"recent", "old", "none"}
  /\ backoff \in BOOLEAN
  /\ builder \in Requests \cup {NoOne}
  /\ web \in [Requests -> {"idle", "lookup", "disk", "backoff", "trying", "polling", "blocked",
                           "locked", "building", "saving", "failed"}]
  /\ key \in [Requests -> Keys \cup {NoKey}]
  /\ Docker!TypeOK
  /\ \A r \in Requests : (builder = r) = (web[r] \in {"locked", "building", "saving"})

Init ==
  /\ body = NoBody /\ file \in {"recent", "old", "none"}
  /\ backoff = FALSE /\ builder = NoOne
  /\ web = [r \in Requests |-> "idle"] /\ key = [r \in Requests |-> NoKey]
  /\ Docker!Init

Go(r, next) == web' = [web EXCEPT ![r] = next]
Answer(r) == Go(r, "idle") /\ key' = [key EXCEPT ![r] = NoKey]
(* When the client has gone, sending fails, and that counts as a failed build. *)
Reply(r) ==
  \/ Answer(r)
  \/ Go(r, "failed") /\ UNCHANGED key
Store(k) == body' = [key |-> k, age |-> 0]
Exact(r, limit) == body.key = key[r] /\ body.age <= limit
Usable == body.key # NoKey /\ body.age < 2

-----------------------------------------------------------------------------
(* A server just started (here: at any time) answers from disk, under a key   *)
(* of its own that no request computes.                                      *)
Arrive(r) ==
  /\ web[r] = "idle"
  /\ \/ /\ file = "recent" /\ Store(StartKey)
        /\ UNCHANGED web \/ Go(r, "failed")
        /\ UNCHANGED key
     \/ /\ \E k \in Keys : key' = [key EXCEPT ![r] = k]
        /\ Go(r, "lookup")
        /\ UNCHANGED body
  /\ UNCHANGED <<file, backoff, builder, docker>>

Lookup(r) ==
  /\ web[r] = "lookup"
  /\ IF Exact(r, 0) THEN Reply(r)
     ELSE \E inputs \in BOOLEAN : Go(r, IF inputs THEN "backoff" ELSE "disk") /\ UNCHANGED key
  /\ UNCHANGED <<body, file, backoff, builder, docker>>

FromDisk(r) ==
  /\ web[r] = "disk"
  /\ IF file = "recent" THEN Store(key[r]) /\ Reply(r)
                        ELSE Go(r, "backoff") /\ UNCHANGED <<body, key>>
  /\ UNCHANGED <<file, backoff, builder, docker>>

(* After a failed build anything that is not too old is an answer.           *)
Backoff(r) ==
  /\ web[r] = "backoff"
  /\ IF backoff /\ (Usable \/ file # "none")
     THEN Reply(r) /\ IF Usable THEN UNCHANGED body ELSE Store(key[r])
     ELSE Go(r, "trying") /\ UNCHANGED <<body, key>>
  /\ UNCHANGED <<file, backoff, builder, docker>>

TryLock(r) ==
  /\ web[r] = "trying"
  /\ IF builder = NoOne THEN builder' = r /\ Go(r, "locked")
                        ELSE Go(r, "polling") /\ UNCHANGED builder
  /\ UNCHANGED <<body, file, backoff, key, docker>>

Poll(r) ==
  /\ web[r] = "polling" /\ Exact(r, 1)
  /\ Reply(r)
  /\ UNCHANGED <<body, file, backoff, builder, docker>>

(* Faulty: who has waited long enough builds too.                            *)
UnlockedPollEnds(r) ==
  /\ web[r] = "polling"
  /\ IF Usable THEN Reply(r) ELSE Go(r, "locked") /\ UNCHANGED key
  /\ UNCHANGED <<body, file, backoff, builder, docker>>

PollEnds(r) ==
  /\ web[r] = "polling"
  /\ IF Usable THEN Reply(r) ELSE Go(r, "blocked") /\ UNCHANGED key
  /\ UNCHANGED <<body, file, backoff, builder, docker>>

Acquire(r) ==
  /\ web[r] = "blocked" /\ builder = NoOne
  /\ builder' = r /\ Go(r, "locked")
  /\ UNCHANGED <<body, file, backoff, key, docker>>

Recheck(r) ==
  /\ web[r] = "locked"
  /\ IF Exact(r, 0)
     THEN builder' = NoOne /\ Reply(r) /\ UNCHANGED docker
     ELSE Go(r, "building") /\ Docker!Call(r, FALSE) /\ UNCHANGED <<builder, key>>
  /\ UNCHANGED <<body, file, backoff>>

Built(r) ==
  /\ web[r] = "building" /\ at[r] = "idle"
  /\ Store(key[r]) /\ Go(r, "saving")
  /\ UNCHANGED <<file, backoff, builder, key, docker>>

(* A file that cannot be written is passed over.                             *)
Save(r) ==
  /\ web[r] = "saving"
  /\ file' \in {"recent", file} /\ backoff' = FALSE
  /\ builder' = NoOne /\ Reply(r)
  /\ UNCHANGED <<body, docker>>

(* Faulty: the lock is released by a build that succeeds.                    *)
LockedBuildFails(r) ==
  /\ web[r] = "building" /\ at[r] = "idle"
  /\ Go(r, "failed")
  /\ UNCHANGED <<body, file, backoff, builder, key, docker>>

BuildFails(r) ==
  /\ web[r] = "building" /\ at[r] = "idle"
  /\ builder' = NoOne /\ Go(r, "failed")
  /\ UNCHANGED <<body, file, backoff, key, docker>>

(* Answered with what there is, or that there is none.                       *)
Fail(r) ==
  /\ web[r] = "failed"
  /\ backoff' = TRUE
  /\ IF ~Usable /\ file # "none" /\ key[r] # NoKey THEN Store(key[r]) ELSE UNCHANGED body
  /\ Answer(r)
  /\ UNCHANGED <<file, builder, docker>>

-----------------------------------------------------------------------------
(* A change of the configuration empties both caches.                        *)
Invalidate ==
  /\ body' = NoBody /\ file' = "none"
  /\ UNCHANGED <<backoff, builder, web, key, docker>>

(* Time.                                                                     *)
AgeBody ==
  /\ body # NoBody
  /\ body' = IF body.age = 0 THEN [body EXCEPT !.age = 1] ELSE NoBody
  /\ UNCHANGED <<file, backoff, builder, web, key, docker>>

AgeFile ==
  /\ file # "none"
  /\ file' = IF file = "recent" THEN "old" ELSE "none"
  /\ UNCHANGED <<body, backoff, builder, web, key, docker>>

BackoffEnds ==
  /\ backoff /\ backoff' = FALSE
  /\ UNCHANGED <<body, file, builder, web, key, docker>>

-----------------------------------------------------------------------------
Handle(r) ==
  Lookup(r) \/ FromDisk(r) \/ Backoff(r) \/ TryLock(r) \/ Poll(r) \/ PollEnds(r)
  \/ Acquire(r) \/ Recheck(r) \/ Built(r) \/ Save(r) \/ BuildFails(r) \/ Fail(r)

(* Others are the WebSocket loop and the endpoints that list and control     *)
(* containers, which force a refresh.                                        *)
CallDocker ==
  \E c \in OtherCallers, force \in BOOLEAN : Docker!Call(c, force) /\ UNCHANGED http
WorkOnDocker(t) == Docker!Work(t) /\ UNCHANGED http
GrowOld == Docker!Grow /\ UNCHANGED http

Next ==
  \/ \E r \in Requests : Arrive(r) \/ Handle(r)
  \/ CallDocker \/ GrowOld
  \/ \E t \in Requests \cup OtherCallers : WorkOnDocker(t)
  \/ Invalidate \/ AgeBody \/ AgeFile \/ BackoffEnds

Spec == Init /\ [][Next]_vars

(* Threads go on; the calls of Docker have timeouts and the wait for the body *)
(* a deadline.  The build lock is not fair, but who keeps trying gets it.     *)
FairSpec ==
  /\ Spec
  /\ \A r \in Requests : WF_vars(Handle(r)) /\ SF_vars(Acquire(r))
  /\ \A t \in Requests \cup OtherCallers : WF_vars(WorkOnDocker(t))

-----------------------------------------------------------------------------
(* Every request is answered: whatever fails, the build lock is released and *)
(* nobody waits for a body, a lock or a snapshot that never comes.           *)
RequestsEnd == \A r \in Requests : (web[r] # "idle") ~> (web[r] = "idle")

(* One thread reads Docker at a time, and the flag is free when none does,    *)
(* however the call ended: another reader can then be chosen.                *)
OneReader == Docker!OneReader

(* No caller is answered with an older snapshot of the containers than a      *)
(* caller before it: no slow reader stores over a later one.                  *)
AnswersForward == Docker!AnswersForward
=============================================================================
