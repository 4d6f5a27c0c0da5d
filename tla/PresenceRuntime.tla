------------------------- MODULE PresenceRuntime --------------------------
(* PresenceRuntimeManager.sync over Redis: several servers share the       *)
(* leases, variables and particles of the presences.  A sync takes or      *)
(* renews a lease on each presence, and then, for each lease it got,       *)
(* writes the variables by compare-and-set and the particles under an      *)
(* owner and version check, handing over the ones another presence owns.   *)
(* Each Lua script is one step, as Redis runs it; everything between two   *)
(* scripts can be interleaved, and a call can fail.                        *)
(*                                                                         *)
(* A version is only ever compared for equality with one read before, and  *)
(* never repeats: `fresh' says whether the version a sync read is still    *)
(* the current one.                                                        *)
EXTENDS Integers, FiniteSets

CONSTANTS
  Instances,     \* server processes
  Threads,       \* threads that build simulations
  Host,          \* the process of each thread
  NumPresences,  \* presences are 1..NumPresences: sync visits them sorted
  Particles, Positions,
  LeaseTtl,      \* lease_ttl_ms, in steps of time
  MaxWrites,     \* max_writes_per_presence
  CallsFail,     \* a Redis call may raise an error
  RepliesLost,   \* a Redis call may raise after its script has run
  None

ASSUME PresenceAssumption ==
  /\ Host \in [Threads -> Instances]
  /\ NumPresences \in Nat /\ LeaseTtl \in Nat \ {0} /\ MaxWrites \in Nat \ {0}
  /\ CallsFail \in BOOLEAN /\ RepliesLost \in BOOLEAN

Presences == 1..NumPresences
States == Presences \X Positions
ASSUME NoneIsApart == None \notin Presences \union States \union Instances \union Particles

VARIABLES
  lease,     \* Redis p:{pid}:lease: its holder, and the time it has left
  owner,     \* Redis d:{id}:state, field owner
  content,   \* the other fields of that hash
  members,   \* Redis p:{pid}:particles
  inbox,     \* Redis p:{pid}:inbox
  alive,     \* the processes that run
  paused,    \* _presence_paused of each process
  print,     \* _particle_fingerprint of each process
  thread,    \* the sync of each thread
  granted,   \* history: what is left of the leases a thread was granted
  lastBy     \* history: the process that last wrote a particle

storage == <<lease, owner, content, members, inbox>>
particles == <<owner, content, members, inbox, lastBy>>
local == <<alive, paused, print>>
vars == <<storage, local, thread, granted, lastBy>>

ScriptPcs == {"lease", "ver", "cas", "reget", "recas", "owner", "handoff",
              "upsert", "reowner", "reupsert"}
Idle == [pc |-> "idle", todo |-> {}, active |-> {}, view |-> [d \in Particles |-> None],
         pending |-> {}, wrote |-> 0, row |-> None, seen |-> None,
         fresh |-> FALSE]
NoLease == [holder |-> None, left |-> 0]

Init ==
  /\ lease = [p \in Presences |-> NoLease]
  /\ owner = [d \in Particles |-> None]
  /\ content = [d \in Particles |-> None]
  /\ members = [p \in Presences |-> {}]
  /\ inbox = [p \in Presences |-> {}]
  /\ alive = Instances
  /\ paused = [i \in Instances |-> {}]
  /\ print = [i \in Instances |-> [d \in Particles |-> None]]
  /\ thread = [t \in Threads |-> Idle]
  /\ granted = [t \in Threads |-> [p \in Presences |-> 0]]
  /\ lastBy = [d \in Particles |-> None]

Least(S) == CHOOSE x \in S : \A y \in S : x <= y
Current(t) == Least(thread[t].todo)
At(t, pc) == thread[t].pc = pc
Goto(t, pc) == thread' = [thread EXCEPT ![t].pc = pc]
---------------------------------------------------------------------------
(* build_simulation_state reads the wallets, moves the particles, and      *)
(* calls sync with a row for each particle it has.                         *)
Begin(t) ==
  /\ At(t, "idle") /\ Host[t] \in alive /\ Presences # {}
  /\ \E view \in [Particles -> States \union {None}] :
       thread' = [thread EXCEPT ![t] = [Idle EXCEPT !.pc = "lease", !.todo = Presences,
                                                    !.view = view]]
  /\ UNCHANGED <<storage, local, granted, lastBy>>

(* Faulty: a lease about to expire may be taken from its holder.           *)
EarlyMayTake(i, p) == lease[p].holder \in {None, i} \/ lease[p].left <= 1
(* Faulty: a process that has paused a presence does not try it again.     *)
PausingMayTake(i, p) == lease[p].holder = i \/ (lease[p].holder = None /\ p \notin paused[i])
(* _LEASE_SCRIPT.                                                          *)
MayTake(i, p) == lease[p].holder \in {None, i}

(* Faulty: the time that was left is added to.                             *)
AddingTake(t, p) ==
  /\ lease' = [lease EXCEPT ![p] = [holder |-> Host[t], left |-> @.left + LeaseTtl]]
  /\ granted' = [granted EXCEPT ![t][p] = LeaseTtl]

Take(t, p) ==
  /\ lease' = [lease EXCEPT ![p] = [holder |-> Host[t], left |-> LeaseTtl]]
  /\ granted' = [granted EXCEPT ![t][p] = LeaseTtl]

(* The state of a sync that has got (or not) the lease of Current(t).  *)
AfterLease(t, active) ==
  LET rest == thread[t].todo \ {Current(t)}
      this == [thread[t] EXCEPT !.active = active]
  IN  IF rest # {} THEN [this EXCEPT !.todo = rest]
      ELSE IF active = {} THEN Idle
      ELSE [this EXCEPT !.pc = "ver", !.todo = active, !.active = {},
              !.view = [d \in Particles |-> IF @[d] # None /\ @[d][1] \in active
                                            THEN @[d] ELSE None]]

Lease(t) ==
  /\ At(t, "lease")
  /\ LET p == Current(t)
         i == Host[t]
     IN  \/ /\ MayTake(i, p)
            /\ Take(t, p)
            /\ paused' = [paused EXCEPT ![i] = @ \ {p}]
            /\ thread' = [thread EXCEPT ![t] = AfterLease(t, @.active \union {p})]
         \/ /\ ~MayTake(i, p)
            /\ paused' = [paused EXCEPT ![i] = @ \union {p}]
            /\ thread' = [thread EXCEPT ![t] = AfterLease(t, @.active)]
            /\ UNCHANGED <<lease, granted>>
  /\ UNCHANGED <<particles, alive, print>>

(* get_presence_ver, before the first and before the second attempt.       *)
GetVer(t) ==
  /\ \/ At(t, "ver") /\ thread' = [thread EXCEPT ![t].pc = "cas", ![t].fresh = TRUE]
     \/ At(t, "reget") /\ thread' = [thread EXCEPT ![t].pc = "recas", ![t].fresh = TRUE]
  /\ UNCHANGED <<storage, local, granted, lastBy>>

(* The rows of the presence, once its variables are dealt with.            *)
Rows(t) ==
  [thread[t] EXCEPT !.pc = "rows", !.fresh = FALSE, !.wrote = 0,
     !.pending = {d \in Particles : /\ thread[t].view[d] # None
                                    /\ thread[t].view[d][1] = Current(t)}]

(* Another sync overwrites the variables of p, which u may still write.    *)
LoseVars(u, p) ==
  [thread[u] EXCEPT !.fresh = @ /\ ~(thread[u].pc \in {"cas", "recas"} /\ Current(u) = p)]

(* _PRESENCE_CAS_SCRIPT: the second failure is reported and given up.      *)
CasVars(t) ==
  /\ thread[t].pc \in {"cas", "recas"}
  /\ \/ /\ thread[t].fresh
        /\ thread' = [u \in Threads |-> IF u = t THEN Rows(t) ELSE LoseVars(u, Current(t))]
     \/ /\ ~thread[t].fresh
        /\ thread' = [thread EXCEPT ![t] = IF At(t, "cas") THEN [@ EXCEPT !.pc = "reget"]
                                           ELSE Rows(t)]
  /\ UNCHANGED <<storage, local, granted, lastBy>>
---------------------------------------------------------------------------
(* Faulty: the row is remembered before it is written.                     *)
EagerMark(t, d) ==
  /\ print' = [print EXCEPT ![Host[t]][d] = thread[t].view[d]]
  /\ thread' = [thread EXCEPT ![t].pending = @ \ {d}, ![t].row = d, ![t].pc = "owner"]
  /\ UNCHANGED <<storage, alive, paused, granted, lastBy>>

(* One row: over the limit, unchanged since this process wrote it, or to   *)
(* be written.                                                             *)
Dropped(t, d) ==
  thread[t].wrote >= MaxWrites \/ print[Host[t]][d] = thread[t].view[d]

EagerRow(t) ==
  /\ At(t, "rows")
  /\ \E d \in thread[t].pending : ~Dropped(t, d) /\ EagerMark(t, d)

Row(t) ==
  /\ At(t, "rows")
  /\ \E d \in thread[t].pending :
       \/ /\ Dropped(t, d)
          /\ thread' = [thread EXCEPT ![t].pending = @ \ {d}, ![t].view[d] = None]
       \/ /\ ~Dropped(t, d)
          /\ thread' = [thread EXCEPT ![t].pending = @ \ {d}, ![t].row = d, ![t].pc = "owner"]
  /\ UNCHANGED <<storage, local, granted, lastBy>>

RowsDone(t) ==
  /\ At(t, "rows") /\ thread[t].pending = {}
  /\ LET rest == thread[t].todo \ {Current(t)}
     IN  thread' = [thread EXCEPT ![t] = IF rest = {} THEN Idle
                                         ELSE [@ EXCEPT !.pc = "ver", !.todo = rest]]
  /\ UNCHANGED <<storage, local, granted, lastBy>>

(* get_particle_owner_ver, before the first attempt.                       *)
GetOwner(t) ==
  /\ At(t, "owner")
  /\ LET seen == owner[thread[t].row]
     IN  thread' = [thread EXCEPT ![t].seen = seen, ![t].fresh = TRUE,
                      ![t].pc = IF seen \in {None, Current(t)} THEN "upsert" ELSE "handoff"]
  /\ UNCHANGED <<storage, local, granted, lastBy>>

(* Whatever is done to the state of d makes the version others read old.   *)
LoseRow(u, d) == [thread[u] EXCEPT !.fresh = @ /\ thread[u].row # d]
NextRow(t) == [thread[t] EXCEPT !.pc = "rows", !.row = None, !.seen = None, !.fresh = FALSE,
                                !.view[thread[t].row] = None]

(* Faulty: the former owner's index, or the announcement, is forgotten.    *)
HandingOver(t, froms, tells) ==
  LET d == thread[t].row
      p == Current(t)
      from == thread[t].seen
  IN  /\ At(t, "handoff") /\ owner[d] = from
      /\ owner' = [owner EXCEPT ![d] = p]
      /\ members' = [members EXCEPT ![from] = @ \ froms, ![p] = @ \union {d}]
      /\ inbox' = [inbox EXCEPT ![p] = @ \union tells]
      /\ thread' = [u \in Threads |->
                      IF u = t THEN [thread[t] EXCEPT !.pc = "upsert", !.fresh = TRUE]
                      ELSE LoseRow(u, d)]
      /\ UNCHANGED <<lease, content, local, granted, lastBy>>
KeepingHandoff(t) == HandingOver(t, {}, {thread[t].row})
SilentHandoff(t) == HandingOver(t, {thread[t].row}, {})

(* _PARTICLE_HANDOFF_SCRIPT: only from the owner the sync has seen.        *)
Handoff(t) ==
  LET d == thread[t].row
      p == Current(t)
      from == thread[t].seen
  IN  /\ At(t, "handoff")
      /\ \/ /\ owner[d] = from
            /\ owner' = [owner EXCEPT ![d] = p]
            /\ members' = [members EXCEPT ![from] = @ \ {d}, ![p] = @ \union {d}]
            /\ inbox' = [inbox EXCEPT ![p] = @ \union {d}]
            /\ thread' = [u \in Threads |->
                            IF u = t THEN [thread[t] EXCEPT !.pc = "upsert", !.fresh = TRUE]
                            ELSE LoseRow(u, d)]
         \/ /\ owner[d] # from
            /\ thread' = [thread EXCEPT ![t] = NextRow(t)]
            /\ UNCHANGED <<owner, members, inbox>>
      /\ UNCHANGED <<lease, content, local, granted, lastBy>>

(* Faulty: neither owner nor version is looked at.                         *)
GrabbingUpsert(t) ==
  LET d == thread[t].row
      p == Current(t)
  IN  /\ thread[t].pc \in {"upsert", "reupsert"}
      /\ owner' = [owner EXCEPT ![d] = p]
      /\ content' = [content EXCEPT ![d] = thread[t].view[d]]
      /\ members' = [members EXCEPT ![p] = @ \union {d}]
      /\ lastBy' = [lastBy EXCEPT ![d] = Host[t]]
      /\ thread' = [u \in Threads |-> IF u = t THEN [thread[t] EXCEPT !.pc = "mark"]
                                      ELSE LoseRow(u, d)]
      /\ UNCHANGED <<lease, inbox, local, granted>>

(* _PARTICLE_UPSERT_SCRIPT: an owner conflict is given up at once, a       *)
(* version conflict is tried once more.                                    *)
Upsert(t) ==
  LET d == thread[t].row
      p == Current(t)
  IN  /\ thread[t].pc \in {"upsert", "reupsert"}
      /\ \/ /\ owner[d] \in {None, p} /\ thread[t].fresh
            /\ owner' = [owner EXCEPT ![d] = p]
            /\ content' = [content EXCEPT ![d] = thread[t].view[d]]
            /\ members' = [members EXCEPT ![p] = @ \union {d}]
            /\ lastBy' = [lastBy EXCEPT ![d] = Host[t]]
            /\ thread' = [u \in Threads |-> IF u = t THEN [thread[t] EXCEPT !.pc = "mark"]
                                            ELSE LoseRow(u, d)]
         \/ /\ owner[d] \notin {None, p} \/ (~thread[t].fresh /\ At(t, "reupsert"))
            /\ thread' = [thread EXCEPT ![t] = NextRow(t)]
            /\ UNCHANGED <<owner, content, members, lastBy>>
         \/ /\ owner[d] \in {None, p} /\ ~thread[t].fresh /\ At(t, "upsert")
            /\ Goto(t, "reowner")
            /\ UNCHANGED <<owner, content, members, lastBy>>
      /\ UNCHANGED <<lease, inbox, local, granted>>

(* get_particle_owner_ver again: only the version is used.                 *)
RegetOwner(t) ==
  /\ At(t, "reowner")
  /\ thread' = [thread EXCEPT ![t].pc = "reupsert", ![t].fresh = TRUE]
  /\ UNCHANGED <<storage, local, granted, lastBy>>

(* The reply of a write: the process remembers what it wrote.              *)
Mark(t) ==
  /\ At(t, "mark")
  /\ print' = [print EXCEPT ![Host[t]][thread[t].row] = thread[t].view[thread[t].row]]
  /\ thread' = [thread EXCEPT ![t] = [NextRow(t) EXCEPT !.wrote = @ + 1]]
  /\ UNCHANGED <<storage, alive, paused, granted, lastBy>>
---------------------------------------------------------------------------
(* A call that raises leaves sync at once, what it did stays done.         *)
Raise(t) ==
  /\ CallsFail /\ thread[t].pc \in ScriptPcs
  /\ thread' = [thread EXCEPT ![t] = Idle]
  /\ UNCHANGED <<storage, local, granted, lastBy>>

(* The script has run and its reply is lost.                               *)
LoseReply(t) ==
  /\ RepliesLost
  /\ \/ At(t, "mark") /\ UNCHANGED <<lease, granted>>
     \/ At(t, "lease") /\ MayTake(Host[t], Current(t)) /\ Take(t, Current(t))
  /\ thread' = [thread EXCEPT ![t] = Idle]
  /\ UNCHANGED <<particles, local>>

(* PSETEX: a lease that is not renewed expires.                            *)
Elapse ==
  /\ \E p \in Presences : lease[p].left > 0
  /\ lease' = [p \in Presences |-> IF lease[p].left <= 1 THEN NoLease
                                   ELSE [lease[p] EXCEPT !.left = @ - 1]]
  /\ granted' = [t \in Threads |-> [p \in Presences |->
                   IF granted[t][p] = 0 THEN 0 ELSE granted[t][p] - 1]]
  /\ UNCHANGED <<particles, local, thread>>

(* A process ends; its instance id may be configured, and come back.       *)
Crash(i) ==
  /\ i \in alive
  /\ alive' = alive \ {i}
  /\ paused' = [paused EXCEPT ![i] = {}]
  /\ print' = [print EXCEPT ![i] = [d \in Particles |-> None]]
  /\ thread' = [t \in Threads |-> IF Host[t] = i THEN Idle ELSE thread[t]]
  /\ UNCHANGED <<storage, granted, lastBy>>

Restart(i) ==
  /\ i \in Instances \ alive
  /\ alive' = alive \union {i}
  /\ UNCHANGED <<storage, paused, print, thread, granted, lastBy>>

Sync(t) ==
  \/ Lease(t) \/ GetVer(t) \/ CasVars(t) \/ Row(t) \/ RowsDone(t)
  \/ GetOwner(t) \/ Handoff(t) \/ Upsert(t) \/ RegetOwner(t) \/ Mark(t)

Next ==
  \/ \E t \in Threads : Begin(t) \/ Sync(t) \/ Raise(t) \/ LoseReply(t)
  \/ Elapse
  \/ \E i \in Instances : Crash(i) \/ Restart(i)

Spec == Init /\ [][Next]_vars

(* Simulations are built again and again while a process runs, calls       *)
(* return, the storage does not fail every one of them, and time passes.   *)
Fairness ==
  /\ \A t \in Threads : WF_vars(Begin(t)) /\ WF_vars(Sync(t)) /\ SF_vars(Lease(t))
  /\ WF_vars(Elapse)
FairSpec == Spec /\ Fairness
---------------------------------------------------------------------------
ThreadState ==
  [pc: ScriptPcs \union {"idle", "rows", "mark"}, todo: SUBSET Presences,
   active: SUBSET Presences, view: [Particles -> States \union {None}],
   pending: SUBSET Particles, wrote: 0..MaxWrites, row: Particles \union {None},
   seen: Presences \union {None}, fresh: BOOLEAN]

(* The type of the storage, of the processes and of their syncs.           *)
TypeOK ==
  /\ lease \in [Presences -> [holder: Instances \union {None}, left: 0..LeaseTtl]]
  /\ owner \in [Particles -> Presences \union {None}]
  /\ content \in [Particles -> States \union {None}]
  /\ members \in [Presences -> SUBSET Particles]
  /\ inbox \in [Presences -> SUBSET Particles]
  /\ alive \subseteq Instances
  /\ paused \in [Instances -> SUBSET Presences]
  /\ print \in [Instances -> [Particles -> States \union {None}]]
  /\ thread \in [Threads -> ThreadState]
  /\ granted \in [Threads -> [Presences -> 0..LeaseTtl]]
  /\ lastBy \in [Particles -> Instances \union {None}]

(* Until the time it was granted for is over, a lease is its taker's: no   *)
(* other process is granted it, whoever renews, crashes or restarts.       *)
LeaseHonoured ==
  \A t \in Threads, p \in Presences :
    granted[t][p] > 0 => /\ lease[p].holder = Host[t]
                         /\ lease[p].left >= granted[t][p]

(* The index of a presence's particles and the owner each particle names   *)
(* never disagree, though they are different keys.                         *)
IndexAgrees == \A p \in Presences : members[p] = {d \in Particles : owner[d] = p}

(* A particle whose stored state is not its owner's was handed to the      *)
(* owner, who has been told, and waits for the owner's first write.        *)
StateFollowsOwner ==
  \A d \in Particles :
    content[d] # None /\ content[d][1] # owner[d] => d \in inbox[owner[d]]

(* A row is dropped as already written only if the storage has it so, or   *)
(* another process has written the particle since.  Assumes one thread per *)
(* process and no reply lost.                                              *)
DedupeSound ==
  \A i \in Instances, d \in Particles :
    print[i][d] = None \/ print[i][d] = content[d] \/ lastBy[d] # i
      \/ \E t \in Threads : Host[t] = i /\ At(t, "mark") /\ thread[t].row = d

(* The storage implements the registry.                                    *)
Registry == INSTANCE ParticleRegistry
              WITH owner <- owner, content <- content, inbox <- inbox
RegistrySpec == Registry!Spec

(* A presence paused because of a process that ended is taken over: a      *)
(* paused writer resumes, or stops, or the other comes back.               *)
Failover ==
  \A i \in Instances, p \in Presences :
    (p \in paused[i] /\ alive = {i}) ~> (p \notin paused[i] \/ alive # {i})
===========================================================================
