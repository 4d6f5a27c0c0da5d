-------------------------- MODULE DockerSnapshot --------------------------
(* The snapshot of the simulation containers: one thread at a time reads the *)
(* Docker API, the others wait for it under a condition.  A snapshot is the  *)
(* number of the read it came from.                                          *)
EXTENDS Naturals

CONSTANTS Threads, MaxReads  \* MaxReads bounds the calls of the Docker API

VARIABLES
  payload,   \* the cached snapshot, 0 for none
  age,       \* 0: within the cache's seconds, 1: within the wait's, 2: older
  inFlight,
  reads,
  at, forced,\* per thread: where it is, force_refresh
  got,       \* the snapshot a thread has built and not stored yet
  given      \* the last snapshot a caller was answered with

vars == <<payload, age, inFlight, reads, at, forced, got, given>>

TypeOK ==
  /\ payload \in 0..MaxReads /\ age \in 0..2 /\ inFlight \in BOOLEAN
  /\ reads \in 0..MaxReads /\ given \in 0..MaxReads
  /\ at \in [Threads -> {"idle", "waiting", "reading", "storing", "closing"}]
  /\ forced \in [Threads -> BOOLEAN] /\ got \in [Threads -> 0..MaxReads]

Init ==
  /\ payload = 0 /\ age = 2 /\ inFlight = FALSE /\ reads = 0
  /\ at = [t \in Threads |-> "idle"] /\ forced = [t \in Threads |-> FALSE]
  /\ got = [t \in Threads |-> 0] /\ given = 0

Go(t, next) == at' = [at EXCEPT ![t] = next]
Answer(t, n) == Go(t, "idle") /\ given' = n
Forget(t) == forced' = [forced EXCEPT ![t] = FALSE]

(* The reader is chosen under the lock.                                      *)
Refresh(t) ==
  /\ inFlight' = TRUE /\ Go(t, "reading")
  /\ UNCHANGED given

Call(t, force) ==
  /\ at[t] = "idle"
  /\ \/ payload > 0 /\ ~force /\ age = 0 /\ Answer(t, payload) /\ UNCHANGED inFlight
     \/ /\ ~(payload > 0 /\ ~force /\ age = 0)
        /\ IF inFlight THEN Go(t, "waiting") /\ UNCHANGED <<inFlight, given>>
                       ELSE Refresh(t)
  /\ forced' = [forced EXCEPT ![t] = force /\ at'[t] = "waiting"]
  /\ UNCHANGED <<payload, age, reads, got>>

(* Faulty: whoever has waited long enough reads too.                         *)
ImpatientStopWaiting(t) ==
  /\ at[t] = "waiting"
  /\ IF payload > 0 /\ (age < 2 \/ ~forced[t])
     THEN Answer(t, payload) /\ UNCHANGED inFlight
     ELSE Refresh(t)
  /\ Forget(t) /\ UNCHANGED <<payload, age, reads, got>>

(* Notified, or the wait's deadline is over.                                 *)
StopWaiting(t) ==
  /\ at[t] = "waiting"
  /\ IF payload > 0 /\ (age < 2 \/ ~forced[t])
     THEN Answer(t, payload) /\ UNCHANGED inFlight
     ELSE IF inFlight THEN Go(t, "idle") /\ UNCHANGED <<inFlight, given>>
                      ELSE Refresh(t)
  /\ Forget(t) /\ UNCHANGED <<payload, age, reads, got>>

Read(t) ==
  /\ at[t] = "reading" /\ reads < MaxReads
  /\ reads' = reads + 1
  /\ got' = [got EXCEPT ![t] = reads']
  /\ Go(t, "storing")
  /\ UNCHANGED <<payload, age, inFlight, forced, given>>

(* The cache's time is that of the call, before any wait.                    *)
Store(t) ==
  /\ at[t] = "storing"
  /\ payload' = got[t] /\ age' \in 0..2
  /\ Go(t, "closing")
  /\ UNCHANGED <<inFlight, reads, forced, got, given>>

(* Faulty: an error leaves before the finally clause.                        *)
UnclosedReadFails(t) ==
  /\ at[t] = "reading"
  /\ Go(t, "idle")
  /\ UNCHANGED <<payload, age, inFlight, reads, forced, got, given>>

(* The answer is then a copy of the cache that is marked stale, or an error. *)
ReadFails(t) ==
  /\ at[t] = "reading"
  /\ Go(t, "closing")
  /\ UNCHANGED <<payload, age, inFlight, reads, forced, got, given>>

Close(t) ==
  /\ at[t] = "closing"
  /\ inFlight' = FALSE
  /\ IF got[t] > 0 THEN Answer(t, got[t]) ELSE Go(t, "idle") /\ UNCHANGED given
  /\ got' = [got EXCEPT ![t] = 0]
  /\ UNCHANGED <<payload, age, reads, forced>>

Grow ==
  /\ payload > 0 /\ age < 2
  /\ age' = age + 1
  /\ UNCHANGED <<payload, inFlight, reads, at, forced, got, given>>

Work(t) == StopWaiting(t) \/ Read(t) \/ Store(t) \/ ReadFails(t) \/ Close(t)

Next ==
  \/ \E t \in Threads : Work(t) \/ \E force \in BOOLEAN : Call(t, force)
  \/ Grow

Spec == Init /\ [][Next]_vars

(* One reader at a time, and the flag is set for as long as there is one,    *)
(* whoever waits, gives up or fails.                                         *)
Reading == {t \in Threads : at[t] \in {"reading", "storing", "closing"}}
OneReader ==
  /\ inFlight = (Reading # {})
  /\ \A s, t \in Reading : s = t

(* No caller is answered with an older snapshot than a caller before it: no  *)
(* slow reader stores over a later one.                                      *)
AnswersForward == [][given' >= given]_vars
===========================================================================
