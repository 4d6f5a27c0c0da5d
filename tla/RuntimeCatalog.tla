-------------------------- MODULE RuntimeCatalog --------------------------
(* The catalog the server keeps for its requests.  A request that finds one  *)
(* takes it and, when it has expired, starts a refresh; one that finds none  *)
(* collects it itself or stores a fallback.  The inbox is synchronised by a  *)
(* thread of its own and by the endpoint that asks for it.  The inbox is the *)
(* number of the documents dropped into it.                                  *)
EXTENDS Naturals

CONSTANTS Requests, MaxDrops, MaxFaults  \* the bounds of the inbox, and of the
  \* failing collections and resets by a bootstrap together

ASSUME CatalogAssumption ==
  MaxDrops \in Nat /\ MaxFaults \in Nat

VARIABLES
  drops,       \* what is in the inbox, outside the server
  kind, inbox, \* the cached catalog: "none", "fallback" or "full", its inbox
  expired,     \* refreshed_monotonic is older than the cache's seconds
  snapshot,    \* inbox_sync_snapshot, 0 for none or an empty one
  due,         \* inbox_sync_monotonic is older than the seconds between syncs
  refresher,   \* the refresh thread: where it is, the snapshot it has read,
               \* whether it is to start a sync
  syncer, asker, \* the sync thread, and who syncs itself: where, what it read
  at, seen,    \* per request: where it is, the snapshot it has read
  fails, resets,
  collects     \* how many times a request has collected the catalog

vars == <<drops, kind, inbox, expired, snapshot, due, refresher, syncer,
          asker, at, seen, fails, resets, collects>>

Askers == {"endpoint", "bootstrap"}
Drops == 0..MaxDrops
Resting == [at |-> "off", read |-> 0]

(* Besides the types: where there is no catalog, none is shown an inbox and  *)
(* none counts as fresh.                                                     *)
TypeOK ==
  /\ drops \in Drops /\ snapshot \in Drops /\ inbox \in Drops
  /\ kind \in {"none", "fallback", "full"}
  /\ kind = "none" => inbox = 0 /\ expired
  /\ expired \in BOOLEAN /\ due \in BOOLEAN
  /\ refresher \in [at: {"off", "started", "collecting", "stored"},
                    read: Drops, sync: BOOLEAN]
  /\ syncer \in [at: {"off", "reading", "storing"}, read: Drops]
  /\ asker \in [Askers -> [at: {"off", "reading", "storing"}, read: Drops]]
  /\ at \in [Requests -> {"idle", "cold", "collecting", "fallback"}]
  /\ seen \in [Requests -> Drops]
  /\ fails \in 0..MaxFaults /\ resets \in 0..MaxFaults /\ collects \in Nat

Init ==
  /\ drops = 0 /\ kind = "none" /\ inbox = 0 /\ expired = TRUE
  /\ snapshot = 0 /\ due = TRUE
  /\ refresher = [at |-> "off", read |-> 0, sync |-> FALSE]
  /\ syncer = Resting /\ asker = [a \in Askers |-> Resting]
  /\ at = [r \in Requests |-> "idle"] /\ seen = [r \in Requests |-> 0]
  /\ fails = 0 /\ resets = 0 /\ collects = 0

outside == <<drops, fails, resets, collects>>

Go(r, next) == at' = [at EXCEPT ![r] = next]
Keep(k, i) == kind' = k /\ inbox' = i /\ expired' = FALSE

(* One refresh and one sync at a time: the lock is tried, not waited for.    *)
ScheduleRefresh ==
  refresher' = IF refresher.at = "off" THEN [refresher EXCEPT !.at = "started"] ELSE refresher
ScheduleSync ==
  syncer' = IF syncer.at = "off" THEN [syncer EXCEPT !.at = "reading"] ELSE syncer

-----------------------------------------------------------------------------
(* A request.                                                                *)
Enter(r) ==
  /\ at[r] = "idle"
  /\ IF kind = "none" THEN Go(r, "cold") /\ UNCHANGED refresher
     ELSE /\ IF expired THEN ScheduleRefresh ELSE UNCHANGED refresher
          /\ UNCHANGED at
  /\ UNCHANGED <<kind, inbox, expired, snapshot, due, syncer, asker, seen, outside>>

(* Faulty: the cache is not looked at again once the lock is held.           *)
UncheckedRecheck(r) ==
  /\ at[r] = "cold" /\ \A o \in Requests : at[o] # "collecting"
  /\ Go(r, "collecting") /\ seen' = [seen EXCEPT ![r] = snapshot]
  /\ UNCHANGED <<kind, inbox, expired, snapshot, due, refresher, syncer, asker, outside>>

Recheck(r) ==
  /\ at[r] = "cold" /\ \A o \in Requests : at[o] # "collecting"
  /\ IF kind # "none" THEN Go(r, "idle") /\ UNCHANGED seen
     ELSE Go(r, "collecting") /\ seen' = [seen EXCEPT ![r] = snapshot]
  /\ UNCHANGED <<kind, inbox, expired, snapshot, due, refresher, syncer, asker, outside>>

Collected(r) ==
  /\ at[r] = "collecting"
  /\ Keep("full", seen[r])
  /\ ScheduleSync
  /\ collects' = collects + 1
  /\ Go(r, "idle") /\ seen' = [seen EXCEPT ![r] = 0]
  /\ UNCHANGED <<drops, snapshot, due, refresher, asker, fails, resets>>

(* Neither the process nor the request itself could collect.                 *)
CollectFails(r) ==
  /\ at[r] = "collecting" /\ fails + resets < MaxFaults
  /\ fails' = fails + 1
  /\ ScheduleRefresh
  /\ Go(r, "fallback")
  /\ UNCHANGED <<drops, kind, inbox, expired, snapshot, due, syncer, asker, seen, resets, collects>>

(* A strict caller is not given a fallback; the bootstrap then asks again.   *)
StrictFails(r) ==
  /\ at[r] = "collecting" /\ fails + resets < MaxFaults
  /\ fails' = fails + 1
  /\ Go(r, "idle") /\ seen' = [seen EXCEPT ![r] = 0]
  /\ UNCHANGED <<drops, kind, inbox, expired, snapshot, due, refresher, syncer, asker, resets, collects>>

(* It replaces whatever is cached by now.                                    *)
StoreFallback(r) ==
  /\ at[r] = "fallback"
  /\ Keep("fallback", seen[r])
  /\ Go(r, "idle") /\ seen' = [seen EXCEPT ![r] = 0]
  /\ UNCHANGED <<snapshot, due, refresher, syncer, asker, outside>>

-----------------------------------------------------------------------------
(* The refresh thread.                                                       *)
RefreshReads ==
  /\ refresher.at = "started"
  /\ refresher' = [at |-> "collecting", read |-> snapshot, sync |-> due]
  /\ UNCHANGED <<kind, inbox, expired, snapshot, due, syncer, asker, at, seen, outside>>

RefreshStores ==
  /\ refresher.at = "collecting"
  /\ Keep("full", refresher.read)
  /\ refresher' = [refresher EXCEPT !.at = "stored", !.read = 0]
  /\ UNCHANGED <<snapshot, due, syncer, asker, at, seen, outside>>

(* Faulty: no sync is started by a refresh.                                  *)
LoneRefreshEnds ==
  /\ refresher.at = "stored"
  /\ refresher' = [refresher EXCEPT !.at = "off", !.sync = FALSE]
  /\ UNCHANGED <<kind, inbox, expired, snapshot, due, syncer, asker, at, seen, outside>>

RefreshEnds ==
  /\ refresher.at = "stored"
  /\ IF refresher.sync THEN ScheduleSync ELSE UNCHANGED syncer
  /\ refresher' = [refresher EXCEPT !.at = "off", !.sync = FALSE]
  /\ UNCHANGED <<kind, inbox, expired, snapshot, due, asker, at, seen, outside>>

RefreshFails ==
  /\ refresher.at = "collecting" /\ fails + resets < MaxFaults
  /\ fails' = fails + 1
  /\ refresher' = [at |-> "off", read |-> 0, sync |-> FALSE]
  /\ UNCHANGED <<drops, kind, inbox, expired, snapshot, due, syncer, asker, at, seen, resets, collects>>

(* The sync thread.                                                          *)
SyncReads ==
  /\ syncer.at = "reading"
  /\ syncer' = [at |-> "storing", read |-> drops]
  /\ UNCHANGED <<kind, inbox, expired, snapshot, due, refresher, asker, at, seen, outside>>

(* Faulty: what is synced is stored in the catalog, if there is one or not.  *)
BlindSyncStores ==
  /\ syncer.at = "storing"
  /\ snapshot' = syncer.read /\ due' = FALSE
  /\ inbox' = syncer.read
  /\ syncer' = Resting
  /\ UNCHANGED <<kind, expired, refresher, asker, at, seen, outside>>

SyncStores ==
  /\ syncer.at = "storing"
  /\ snapshot' = syncer.read /\ due' = FALSE
  /\ inbox' = IF kind # "none" THEN syncer.read ELSE inbox
  /\ syncer' = Resting
  /\ UNCHANGED <<kind, expired, refresher, asker, at, seen, outside>>

SyncFails ==
  /\ syncer.at = "reading" /\ fails + resets < MaxFaults
  /\ fails' = fails + 1 /\ due' = FALSE
  /\ syncer' = Resting
  /\ UNCHANGED <<drops, kind, inbox, expired, snapshot, refresher, asker, at, seen, resets, collects>>

(* POST /api/eta-mu/sync.  With force the next refresh is to sync.  Without  *)
(* wait it starts a refresh; with it, it syncs itself and starts one then.   *)
AskSync(force) ==
  /\ due' = (due \/ force)
  /\ ScheduleRefresh
  /\ UNCHANGED <<kind, inbox, expired, snapshot, syncer, asker, at, seen, outside>>

AskSyncAndWait(force) ==
  /\ asker["endpoint"].at = "off"
  /\ due' = (due \/ force)
  /\ asker' = [asker EXCEPT !["endpoint"].at = "reading"]
  /\ UNCHANGED <<kind, inbox, expired, snapshot, refresher, syncer, at, seen, outside>>

(* A bootstrap forgets the catalog and, when it is to sync, the snapshot; it *)
(* then syncs and asks for the catalog as any request does.                  *)
Bootstrap(sync) ==
  /\ asker["bootstrap"].at = "off" /\ fails + resets < MaxFaults
  /\ resets' = resets + 1
  /\ kind' = "none" /\ inbox' = 0 /\ expired' = TRUE
  /\ snapshot' = (IF sync THEN 0 ELSE snapshot) /\ due' = (due \/ sync)
  /\ asker' = IF sync THEN [asker EXCEPT !["bootstrap"].at = "reading"] ELSE asker
  /\ UNCHANGED <<drops, refresher, syncer, at, seen, fails, collects>>

AskerReads(a) ==
  /\ asker[a].at = "reading"
  /\ asker' = [asker EXCEPT ![a] = [at |-> "storing", read |-> drops]]
  /\ UNCHANGED <<kind, inbox, expired, snapshot, due, refresher, syncer, at, seen, outside>>

(* Only the endpoint has the catalog collected again.                        *)
AskerStores(a) ==
  /\ asker[a].at = "storing"
  /\ snapshot' = asker[a].read /\ due' = FALSE
  /\ IF a = "endpoint" THEN expired' = TRUE /\ ScheduleRefresh
                       ELSE UNCHANGED <<expired, refresher>>
  /\ asker' = [asker EXCEPT ![a] = Resting]
  /\ UNCHANGED <<kind, inbox, syncer, at, seen, outside>>

AskerFails(a) ==
  /\ asker[a].at = "reading" /\ fails + resets < MaxFaults
  /\ fails' = fails + 1
  /\ asker' = [asker EXCEPT ![a] = Resting]
  /\ UNCHANGED <<drops, kind, inbox, expired, snapshot, due, refresher, syncer, at, seen, resets, collects>>

-----------------------------------------------------------------------------
(* Time, and whoever drops documents into the inbox.                         *)
Drop ==
  /\ drops < MaxDrops
  /\ drops' = drops + 1
  /\ UNCHANGED <<kind, inbox, expired, snapshot, due, refresher, syncer, asker,
                 at, seen, fails, resets, collects>>

Expire ==
  /\ kind # "none" /\ ~expired
  /\ expired' = TRUE
  /\ UNCHANGED <<kind, inbox, snapshot, due, refresher, syncer, asker, at, seen, outside>>

SyncDue ==
  /\ ~due
  /\ due' = TRUE
  /\ UNCHANGED <<kind, inbox, expired, snapshot, refresher, syncer, asker, at, seen, outside>>

-----------------------------------------------------------------------------
Serve(r) ==
  Enter(r) \/ Recheck(r) \/ Collected(r) \/ CollectFails(r) \/ StrictFails(r)
  \/ StoreFallback(r)
Refresh == RefreshReads \/ RefreshStores \/ RefreshEnds \/ RefreshFails
Sync == SyncReads \/ SyncStores \/ SyncFails
Ask(a) == AskerReads(a) \/ AskerStores(a) \/ AskerFails(a)

Next ==
  \/ \E r \in Requests : Serve(r)
  \/ Refresh \/ Sync \/ \E a \in Askers : Ask(a)
  \/ \E force \in BOOLEAN : AskSync(force) \/ AskSyncAndWait(force)
  \/ \E sync \in BOOLEAN : Bootstrap(sync)
  \/ Drop \/ Expire \/ SyncDue

Spec == Init /\ [][Next]_vars

(* Threads go on, time passes, and requests keep coming: the page polls and  *)
(* the WebSocket loop asks at every turn.  The collect lock is not fair, but *)
(* a request that tries again and again gets it.                             *)
FairSpec ==
  /\ Spec
  /\ \A r \in Requests : WF_vars(Serve(r)) /\ SF_vars(Recheck(r))
  /\ WF_vars(Refresh) /\ WF_vars(Sync) /\ \A a \in Askers : WF_vars(Ask(a))
  /\ WF_vars(Expire) /\ WF_vars(SyncDue)

-----------------------------------------------------------------------------
(* Requests that find no catalog collect it once between them: a collection  *)
(* is repeated only after one failed or a bootstrap forgot the catalog.      *)
CollectsOnce == collects <= 1 + fails + resets

(* Once documents stop arriving, and collections failing, the catalog is a   *)
(* full one that shows the inbox as it is: a fallback or an old inbox that   *)
(* was stored over a newer one does not stay.                                *)
CatchesUp == <>[](kind = "full" /\ inbox = drops)
=============================================================================
