---------------------- MODULE RuntimeCatalog_proofs ----------------------
(* For any requests and any number of documents and faults: the types, and *)
(* that the catalog is collected once.                                     *)
EXTENDS RuntimeCatalog, TLAPS

(* The collect lock.                                                       *)
Collecting == \E r \in Requests : at[r] = "collecting"
OneCollects ==
  \A r, o \in Requests : at[r] = "collecting" /\ at[o] = "collecting" => r = o

(* While a collection is missing or under way, each one so far has been    *)
(* followed by a fault.                                                    *)
Paid ==
  /\ kind = "none" \/ Collecting => collects <= fails + resets
  /\ collects <= fails + resets + 1

IInv == TypeOK /\ OneCollects /\ Paid

LEMMA InitFits == Init => IInv
<1> SUFFICES ASSUME Init PROVE IInv
  OBVIOUS
<1> USE CatalogAssumption DEF Init
<1>1. TypeOK
  <2>1. Resting \in [at: {"off", "reading", "storing"}, read: Drops]
    BY DEF Resting, Drops
  <2>2. asker \in [Askers -> [at: {"off", "reading", "storing"}, read: Drops]]
    BY <2>1
  <2>3. refresher \in [at: {"off", "started", "collecting", "stored"},
                       read: Drops, sync: BOOLEAN]
    BY DEF Drops
  <2>4. seen \in [Requests -> Drops] /\ drops \in Drops
    BY DEF Drops
  <2> QED BY <2>1, <2>2, <2>3, <2>4 DEF TypeOK, Drops
<1>2. OneCollects /\ Paid
  BY DEF OneCollects, Paid, Collecting
<1> QED BY <1>1, <1>2 DEF IInv

LEMMA StepTypes == ASSUME TypeOK, [Next]_vars PROVE TypeOK'
<1> DEFINE Places == {"idle", "cold", "collecting", "fallback"}
<1> DEFINE Reader == [at: {"off", "reading", "storing"}, read: Drops]
<1> DEFINE Refresher == [at: {"off", "started", "collecting", "stored"},
                         read: Drops, sync: BOOLEAN]
<1>1. /\ \A r \in Requests, p \in Places : [at EXCEPT ![r] = p] \in [Requests -> Places]
      /\ \A r \in Requests, n \in Drops : [seen EXCEPT ![r] = n] \in [Requests -> Drops]
      /\ at \in [Requests -> Places]
  BY DEF TypeOK
<1>2. /\ \A p \in {"off", "started", "collecting", "stored"} :
              [refresher EXCEPT !.at = p] \in Refresher
      /\ ScheduleRefresh => refresher' \in Refresher
      /\ [refresher EXCEPT !.at = "stored", !.read = 0] \in Refresher
      /\ [refresher EXCEPT !.at = "off", !.sync = FALSE] \in Refresher
      /\ refresher \in Refresher /\ refresher.read \in Drops
  <2>1. refresher \in Refresher /\ 0 \in Drops
    BY CatalogAssumption DEF TypeOK, Drops
  <2>2. refresher.read \in Drops
    BY <2>1
  <2>3. \A p \in {"off", "started", "collecting", "stored"} :
          [refresher EXCEPT !.at = p] \in Refresher
    BY ONLY <2>1
  <2>4. /\ [refresher EXCEPT !.at = "stored", !.read = 0] \in Refresher
        /\ [refresher EXCEPT !.at = "off", !.sync = FALSE] \in Refresher
    BY ONLY <2>1
  <2>5. ScheduleRefresh => refresher' \in Refresher
    <3> HIDE DEF Refresher
    <3> QED BY <2>1, <2>3 DEF ScheduleRefresh
  <2> QED BY <2>1, <2>2, <2>3, <2>4, <2>5
<1>3. /\ [syncer EXCEPT !.at = "reading"] \in Reader /\ Resting \in Reader
      /\ ScheduleSync => syncer' \in Reader
      /\ syncer \in Reader /\ syncer.read \in Drops
  BY CatalogAssumption DEF TypeOK, Drops, ScheduleSync, Resting
<1>4. \A a \in Askers : /\ asker[a] \in Reader /\ asker[a].read \in Drops
                        /\ [asker[a] EXCEPT !.at = "reading"] \in Reader
                        /\ [asker EXCEPT ![a].at = "reading"] \in [Askers -> Reader]
  <2> TAKE a \in Askers
  <2>1. asker \in [Askers -> Reader]
    BY DEF TypeOK
  <2>2. asker[a] \in Reader /\ [asker[a] EXCEPT !.at = "reading"] \in Reader
    BY <2>1
  <2> HIDE DEF Reader
  <2>3. [asker EXCEPT ![a].at = "reading"] \in [Askers -> Reader]
    BY <2>1, <2>2
  <2> QED BY <2>2, <2>3 DEF Reader
<1>5. \A a \in Askers, x \in Reader : [asker EXCEPT ![a] = x] \in [Askers -> Reader]
  BY DEF TypeOK
<1>6. /\ drops \in Drops /\ snapshot \in Drops /\ inbox \in Drops /\ seen \in [Requests -> Drops]
      /\ 0 \in Drops /\ asker \in [Askers -> Reader]
      /\ drops < MaxDrops => drops + 1 \in Drops
      /\ [at |-> "storing", read |-> drops] \in Reader
      /\ [at |-> "collecting", read |-> snapshot, sync |-> due] \in Refresher
      /\ [at |-> "off", read |-> 0, sync |-> FALSE] \in Refresher
      /\ \A r \in Requests : seen[r] \in Drops
  BY CatalogAssumption DEF TypeOK, Drops
<1>7. /\ fails \in Nat /\ resets \in Nat /\ collects \in Nat /\ collects + 1 \in Nat
      /\ fails \in 0..MaxFaults /\ resets \in 0..MaxFaults
      /\ fails + resets < MaxFaults => fails + 1 \in 0..MaxFaults /\ resets + 1 \in 0..MaxFaults
  BY CatalogAssumption DEF TypeOK
<1> DEFINE Cached == /\ kind \in {"none", "fallback", "full"} /\ expired \in BOOLEAN
                     /\ inbox \in Drops /\ (kind = "none" => inbox = 0 /\ expired)
<1> DEFINE Synced == snapshot \in Drops /\ due \in BOOLEAN /\ drops \in Drops
<1> DEFINE Served == at \in [Requests -> Places] /\ seen \in [Requests -> Drops]
<1> DEFINE Threads == refresher \in Refresher /\ syncer \in Reader /\ asker \in [Askers -> Reader]
<1> DEFINE Counts == fails \in 0..MaxFaults /\ resets \in 0..MaxFaults /\ collects \in Nat
<1>8. TypeOK = (Cached /\ Synced /\ Served /\ Threads /\ Counts)
  BY DEF TypeOK
<1>9. TypeOK' = (Cached' /\ Synced' /\ Served' /\ Threads' /\ Counts')
  BY DEF TypeOK
<1> HIDE DEF Reader, Refresher, Places
<1>10. Cached /\ Synced /\ Served /\ Threads /\ Counts
  BY <1>8
<1> SUFFICES Cached' /\ Synced' /\ Served' /\ Threads' /\ Counts'
  BY <1>9
<1> USE DEF outside, Keep, Go
<1>11. ASSUME NEW r \in Requests, Enter(r) PROVE Cached' /\ Synced' /\ Served' /\ Threads' /\ Counts'
  BY <1>1, <1>2, <1>3, <1>4, <1>5, <1>6, <1>7, <1>10, <1>11 DEF Enter, Places
<1>12. ASSUME NEW r \in Requests, Recheck(r) PROVE Cached' /\ Synced' /\ Served' /\ Threads' /\ Counts'
  BY <1>1, <1>2, <1>3, <1>4, <1>5, <1>6, <1>7, <1>10, <1>12 DEF Recheck, Places
<1>13. ASSUME NEW r \in Requests, Collected(r) PROVE Cached' /\ Synced' /\ Served' /\ Threads' /\ Counts'
  BY <1>1, <1>2, <1>3, <1>4, <1>5, <1>6, <1>7, <1>10, <1>13 DEF Collected, Places
<1>14. ASSUME NEW r \in Requests, CollectFails(r) PROVE Cached' /\ Synced' /\ Served' /\ Threads' /\ Counts'
  BY <1>1, <1>2, <1>3, <1>4, <1>5, <1>6, <1>7, <1>10, <1>14 DEF CollectFails, Places
<1>15. ASSUME NEW r \in Requests, StrictFails(r) PROVE Cached' /\ Synced' /\ Served' /\ Threads' /\ Counts'
  BY <1>1, <1>2, <1>3, <1>4, <1>5, <1>6, <1>7, <1>10, <1>15 DEF StrictFails, Places
<1>16. ASSUME NEW r \in Requests, StoreFallback(r) PROVE Cached' /\ Synced' /\ Served' /\ Threads' /\ Counts'
  BY <1>1, <1>2, <1>3, <1>4, <1>5, <1>6, <1>7, <1>10, <1>16 DEF StoreFallback, Places
<1>17. CASE RefreshReads
  BY <1>1, <1>2, <1>3, <1>4, <1>5, <1>6, <1>7, <1>10, <1>17 DEF RefreshReads
<1>18. CASE RefreshStores
  BY <1>1, <1>2, <1>3, <1>4, <1>5, <1>6, <1>7, <1>10, <1>18 DEF RefreshStores
<1>19. CASE RefreshEnds
  BY <1>1, <1>2, <1>3, <1>4, <1>5, <1>6, <1>7, <1>10, <1>19 DEF RefreshEnds
<1>20. CASE RefreshFails
  BY <1>1, <1>2, <1>3, <1>4, <1>5, <1>6, <1>7, <1>10, <1>20 DEF RefreshFails
<1>21. CASE SyncReads
  BY <1>1, <1>2, <1>3, <1>4, <1>5, <1>6, <1>7, <1>10, <1>21 DEF SyncReads
<1>22. CASE SyncStores
  BY <1>1, <1>2, <1>3, <1>4, <1>5, <1>6, <1>7, <1>10, <1>22 DEF SyncStores
<1>23. CASE SyncFails
  BY <1>1, <1>2, <1>3, <1>4, <1>5, <1>6, <1>7, <1>10, <1>23 DEF SyncFails
<1>24. ASSUME NEW a \in Askers, AskerReads(a) PROVE Cached' /\ Synced' /\ Served' /\ Threads' /\ Counts'
  BY <1>1, <1>2, <1>3, <1>4, <1>5, <1>6, <1>7, <1>10, <1>24 DEF AskerReads
<1>25. ASSUME NEW a \in Askers, AskerStores(a) PROVE Cached' /\ Synced' /\ Served' /\ Threads' /\ Counts'
  BY <1>1, <1>2, <1>3, <1>4, <1>5, <1>6, <1>7, <1>10, <1>25 DEF AskerStores
<1>26. ASSUME NEW a \in Askers, AskerFails(a) PROVE Cached' /\ Synced' /\ Served' /\ Threads' /\ Counts'
  BY <1>1, <1>2, <1>3, <1>4, <1>5, <1>6, <1>7, <1>10, <1>26 DEF AskerFails
<1>27. ASSUME NEW force \in BOOLEAN, AskSync(force) PROVE Cached' /\ Synced' /\ Served' /\ Threads' /\ Counts'
  BY <1>1, <1>2, <1>3, <1>4, <1>5, <1>6, <1>7, <1>10, <1>27 DEF AskSync
<1>28. ASSUME NEW force \in BOOLEAN, AskSyncAndWait(force) PROVE Cached' /\ Synced' /\ Served' /\ Threads' /\ Counts'
  BY <1>1, <1>2, <1>3, <1>4, <1>5, <1>6, <1>7, <1>10, <1>28 DEF AskSyncAndWait, Askers
<1>29. ASSUME NEW sync \in BOOLEAN, Bootstrap(sync) PROVE Cached' /\ Synced' /\ Served' /\ Threads' /\ Counts'
  BY <1>1, <1>2, <1>3, <1>4, <1>5, <1>6, <1>7, <1>10, <1>29 DEF Bootstrap, Askers
<1>30. CASE Drop
  BY <1>1, <1>2, <1>3, <1>4, <1>5, <1>6, <1>7, <1>10, <1>30 DEF Drop
<1>31. CASE Expire
  BY <1>1, <1>2, <1>3, <1>4, <1>5, <1>6, <1>7, <1>10, <1>31 DEF Expire
<1>32. CASE SyncDue
  BY <1>1, <1>2, <1>3, <1>4, <1>5, <1>6, <1>7, <1>10, <1>32 DEF SyncDue
<1>33. CASE UNCHANGED vars
  BY <1>1, <1>2, <1>3, <1>4, <1>5, <1>6, <1>7, <1>10, <1>33 DEF vars
<1> QED BY <1>11, <1>12, <1>13, <1>14, <1>15, <1>16, <1>17, <1>18, <1>19, <1>20, <1>21, <1>22, <1>23, <1>24, <1>25, <1>26, <1>27, <1>28, <1>29, <1>30, <1>31, <1>32, <1>33
         DEF Next, Serve, Refresh, Sync, Ask

LEMMA StepPaid == ASSUME IInv, [Next]_vars PROVE (OneCollects /\ Paid)'
<1> USE DEF outside, Keep, Go
<1>1. /\ fails \in Nat /\ resets \in Nat /\ collects \in Nat
      /\ at \in [Requests -> {"idle", "cold", "collecting", "fallback"}]
      /\ OneCollects /\ Paid
  BY CatalogAssumption DEF IInv, TypeOK
<1>2. ASSUME UNCHANGED <<at, collects, fails, resets>>, kind' = "none" => kind = "none"
      PROVE (OneCollects /\ Paid)'
  BY <1>1, <1>2 DEF OneCollects, Paid, Collecting
<1>3. ASSUME UNCHANGED <<at, collects, resets>>, fails' = fails + 1, UNCHANGED kind
      PROVE (OneCollects /\ Paid)'
  BY <1>1, <1>3 DEF OneCollects, Paid, Collecting
<1>4. ASSUME NEW r \in Requests, Serve(r) PROVE (OneCollects /\ Paid)'
  <2>1. CASE Enter(r)
    BY <1>1, <2>1 DEF Enter, OneCollects, Paid, Collecting
  <2>2. CASE Recheck(r)
    BY <1>1, <2>2 DEF Recheck, OneCollects, Paid, Collecting
  <2>3. CASE Collected(r)
    <3>1. ~Collecting' /\ OneCollects'
      BY <1>1, <2>3 DEF Collected, OneCollects, Collecting
    <3>2. collects <= fails + resets /\ collects' = collects + 1 /\ kind' = "full"
      BY <1>1, <2>3 DEF Collected, Paid, Collecting
    <3> QED BY <1>1, <2>3, <3>1, <3>2 DEF Collected, Paid
  <2>4. CASE CollectFails(r)
    BY <1>1, <2>4 DEF CollectFails, OneCollects, Paid, Collecting
  <2>5. CASE StrictFails(r)
    BY <1>1, <2>5 DEF StrictFails, OneCollects, Paid, Collecting
  <2>6. CASE StoreFallback(r)
    BY <1>1, <2>6 DEF StoreFallback, OneCollects, Paid, Collecting
  <2> QED BY <1>4, <2>1, <2>2, <2>3, <2>4, <2>5, <2>6 DEF Serve
<1>5. CASE Refresh
  <2>1. CASE RefreshFails
    BY <1>3, <2>1 DEF RefreshFails
  <2>2. CASE RefreshReads \/ RefreshStores \/ RefreshEnds
    BY <1>2, <2>2 DEF RefreshReads, RefreshStores, RefreshEnds
  <2> QED BY <1>5, <2>1, <2>2 DEF Refresh
<1>6. CASE Sync
  BY <1>2, <1>3, <1>6 DEF Sync, SyncReads, SyncStores, SyncFails
<1>7. ASSUME NEW a \in Askers, Ask(a) PROVE (OneCollects /\ Paid)'
  BY <1>2, <1>3, <1>7 DEF Ask, AskerReads, AskerStores, AskerFails
<1>8. ASSUME NEW force \in BOOLEAN, AskSync(force) \/ AskSyncAndWait(force)
      PROVE (OneCollects /\ Paid)'
  BY <1>2, <1>8 DEF AskSync, AskSyncAndWait
<1>9. ASSUME NEW sync \in BOOLEAN, Bootstrap(sync) PROVE (OneCollects /\ Paid)'
  BY <1>1, <1>9 DEF Bootstrap, OneCollects, Paid, Collecting
<1>10. CASE Drop \/ Expire \/ SyncDue \/ UNCHANGED vars
  BY <1>2, <1>10 DEF Drop, Expire, SyncDue, vars
<1> QED BY <1>4, <1>5, <1>6, <1>7, <1>8, <1>9, <1>10 DEF Next

LEMMA Inductive == Spec => []IInv
<1>1. IInv /\ [Next]_vars => IInv'
  BY StepTypes, StepPaid DEF IInv
<1> QED BY InitFits, <1>1, PTL DEF Spec

(* The cached catalog, the snapshot and the threads keep their types, and a *)
(* missing catalog shows no inbox and is never fresh.                       *)
THEOREM TypeCorrect == Spec => []TypeOK
<1>1. IInv => TypeOK
  BY DEF IInv
<1> QED BY Inductive, <1>1, PTL

(* However many requests find no catalog, they collect it once between      *)
(* them, and again only after a fault.                                      *)
THEOREM CollectedOnce == Spec => []CollectsOnce
<1>1. IInv => CollectsOnce
  <2> SUFFICES ASSUME IInv PROVE CollectsOnce
    OBVIOUS
  <2>1. fails \in Nat /\ resets \in Nat /\ collects \in Nat
    BY CatalogAssumption DEF IInv, TypeOK
  <2> QED BY <2>1 DEF IInv, Paid, CollectsOnce
<1> QED BY Inductive, <1>1, PTL
=============================================================================
