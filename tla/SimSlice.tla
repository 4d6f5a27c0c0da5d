----------------------------- MODULE SimSlice -----------------------------
(* resolve_sim_point_budget_slice: a caller asks a C worker, over a Redis  *)
(* stream, how many points a simulation may have.  With SIM_SLICE_ASYNC a  *)
(* bridge thread asks for it: callers leave their newest request in a      *)
(* one-place mailbox and read the newest answer from a double buffer       *)
(* without a lock.  Requests are numbered in the order they are made, jobs *)
(* by their place in the stream.  Whether an answer is the worker's or the *)
(* local fallback is not told apart, nor how old it may be to be used.     *)
EXTENDS Integers

CONSTANTS
  Callers,       \* threads that build simulations
  Bridge,        \* the thread sim-slice-async-worker
  MaxRequests    \* bound: the requests that are made

ASSUME SliceAssumption == Bridge \notin Callers /\ MaxRequests \in Nat

Clients == Callers \union {Bridge}
Requests == 1..MaxRequests
Dollar == -1     \* the stream id "$": what is added from now on

VARIABLES
  async,      \* SIM_SLICE_ASYNC
  requests,   \* requests made so far
  pending,    \* _pending_request, 0 for None
  event,      \* _request_event
  slots,      \* _slots: the request each snapshot answers, 0 for the initial one
  active,     \* _active_index
  pc,         \* where each client is
  current,    \* the request the bridge serves
  index,      \* the slot a caller is about to read
  job,        \* the job each client waits for, 0 for none
  added,      \* length of the jobs stream, which is never trimmed
  replies,    \* jobs whose reply key is set
  worker,     \* the C worker: where it is, its last_id, where its XREAD starts
  published,  \* history: the last request whose answer publish has returned for
  floor,      \* history: `published' when the caller began to read
  taken       \* history: the last job the worker took

mailbox == <<pending, event>>
buffer == <<slots, active, published>>
redis == <<added, replies>>
vars == <<async, requests, mailbox, buffer, pc, current, index, job, redis, worker,
          floor, taken>>

Init ==
  /\ async \in BOOLEAN
  /\ requests = 0 /\ pending = 0 /\ event = FALSE
  /\ slots = [k \in {0, 1} |-> 0] /\ active = 0 /\ published = 0
  /\ pc = [x \in Clients |-> IF x = Bridge THEN "absent" ELSE "idle"]
  /\ current = 0
  /\ index = [c \in Callers |-> 0] /\ floor = [c \in Callers |-> 0]
  /\ job = [x \in Clients |-> 0]
  /\ added = 0 /\ replies = {}
  /\ worker = [pc |-> "down", last |-> Dollar, from |-> 0]
  /\ taken = 0

At(x, place) == pc[x] = place
Goto(x, place) == pc' = [pc EXCEPT ![x] = place]
---------------------------------------------------------------------------
(* A call begins; _ensure_thread starts the bridge.  When no thread can be *)
(* created the call raises and nothing has changed.                        *)
Begin(c) ==
  /\ At(c, "idle")
  /\ \/ /\ async
        /\ pc' = [pc EXCEPT ![c] = "store", ![Bridge] = IF @ = "absent" THEN "wait" ELSE @]
        /\ UNCHANGED requests
     \/ /\ ~async /\ requests < MaxRequests
        /\ Goto(c, "ask")
        /\ requests' = requests + 1
  /\ UNCHANGED <<async, mailbox, buffer, current, index, job, redis, worker, floor, taken>>

(* Faulty: the request is left without taking _request_lock.               *)
UnlockedStore(c) ==
  /\ At(c, "store") /\ requests < MaxRequests
  /\ requests' = requests + 1
  /\ pending' = requests + 1
  /\ Goto(c, "set")
  /\ UNCHANGED <<async, event, buffer, current, index, job, redis, worker, floor, taken>>

(* submit: _request_lock is the bridge's from the taking to the clearing.  *)
Store(c) ==
  /\ At(c, "store") /\ ~At(Bridge, "clear") /\ requests < MaxRequests
  /\ requests' = requests + 1
  /\ pending' = requests + 1
  /\ Goto(c, "set")
  /\ UNCHANGED <<async, event, buffer, current, index, job, redis, worker, floor, taken>>

SetEvent(c) ==
  /\ At(c, "set")
  /\ event' = TRUE
  /\ Goto(c, "index")
  /\ UNCHANGED <<async, requests, pending, buffer, current, index, job, redis, worker,
                 floor, taken>>

(* latest: self._slots[self._active_index] is two loads.                   *)
LoadIndex(c) ==
  /\ At(c, "index")
  /\ index' = [index EXCEPT ![c] = active]
  /\ floor' = [floor EXCEPT ![c] = published]
  /\ Goto(c, "slot")
  /\ UNCHANGED <<async, requests, mailbox, buffer, current, job, redis, worker, taken>>

(* What is read is slots[index[c]].                                        *)
LoadSlot(c) ==
  /\ At(c, "slot")
  /\ index' = [index EXCEPT ![c] = 0]
  /\ floor' = [floor EXCEPT ![c] = 0]
  /\ Goto(c, "idle")
  /\ UNCHANGED <<async, requests, mailbox, buffer, current, job, redis, worker, taken>>
---------------------------------------------------------------------------
(* The bridge thread: it takes the request and clears the event under the  *)
(* lock, and then serves the request, if there was one.                    *)
Take ==
  /\ At(Bridge, "wait") /\ event
  /\ current' = pending
  /\ pending' = 0
  /\ Goto(Bridge, "clear")
  /\ UNCHANGED <<async, requests, event, buffer, index, job, redis, worker, floor, taken>>

Clear ==
  /\ At(Bridge, "clear")
  /\ event' = FALSE
  /\ Goto(Bridge, IF current = 0 THEN "wait" ELSE "ask")
  /\ UNCHANGED <<async, requests, pending, buffer, current, index, job, redis, worker,
                 floor, taken>>

(* Faulty: the answer goes to the slot that is being read.                 *)
WriteActive ==
  /\ At(Bridge, "publish")
  /\ slots' = [slots EXCEPT ![active] = current]
  /\ Goto(Bridge, "flip")
  /\ UNCHANGED <<async, requests, mailbox, active, published, current, index, job, redis,
                 worker, floor, taken>>

(* publish: the answer goes to the slot that is not active, ...            *)
WriteSlot ==
  /\ At(Bridge, "publish")
  /\ slots' = [slots EXCEPT ![1 - active] = current]
  /\ Goto(Bridge, "flip")
  /\ UNCHANGED <<async, requests, mailbox, active, published, current, index, job, redis,
                 worker, floor, taken>>

(* Faulty: the index goes past the second slot.                            *)
UnwrappedFlip ==
  /\ At(Bridge, "flip")
  /\ active' = active + 1
  /\ published' = current
  /\ current' = 0
  /\ Goto(Bridge, "wait")
  /\ UNCHANGED <<async, requests, mailbox, slots, index, job, redis, worker, floor, taken>>

(* ... which then becomes the active one.                                  *)
Flip ==
  /\ At(Bridge, "flip")
  /\ active' = 1 - active
  /\ published' = current
  /\ current' = 0
  /\ Goto(Bridge, "wait")
  /\ UNCHANGED <<async, requests, mailbox, slots, index, job, redis, worker, floor, taken>>
---------------------------------------------------------------------------
(* _request_sim_point_budget_via_redis, of the bridge and of callers       *)
(* without one.                                                            *)
Answered(x) == IF x = Bridge THEN "publish" ELSE "idle"

(* XADD, which may fail, or be applied and time out.  The Unix socket is   *)
(* asked instead in the other mode: then no job is added.                  *)
Ask(x) ==
  /\ At(x, "ask")
  /\ \/ /\ added' = added + 1
        /\ job' = [job EXCEPT ![x] = added + 1]
        /\ Goto(x, "poll")
     \/ /\ added' \in {added, added + 1}
        /\ Goto(x, Answered(x))
        /\ UNCHANGED job
  /\ UNCHANGED <<async, requests, mailbox, buffer, current, index, replies, worker, floor,
                 taken>>

(* Faulty: a client waits for its answer however long that takes.          *)
PatientPoll(x) ==
  /\ At(x, "poll") /\ job[x] \in replies
  /\ Goto(x, "del")
  /\ UNCHANGED <<async, requests, mailbox, buffer, current, index, job, redis, worker,
                 floor, taken>>

(* GET until the reply is there, the deadline has passed or Redis fails.   *)
Poll(x) ==
  /\ At(x, "poll")
  /\ \/ Goto(x, "del") /\ UNCHANGED job
     \/ Goto(x, Answered(x)) /\ job' = [job EXCEPT ![x] = 0]
  /\ UNCHANGED <<async, requests, mailbox, buffer, current, index, redis, worker, floor,
                 taken>>

(* DEL, whose failure is ignored.                                          *)
Del(x) ==
  /\ At(x, "del")
  /\ replies' \in {replies, replies \ {job[x]}}
  /\ job' = [job EXCEPT ![x] = 0]
  /\ Goto(x, Answered(x))
  /\ UNCHANGED <<async, requests, mailbox, buffer, current, index, added, worker, floor,
                 taken>>

(* A reply that nobody waits for is gone after SIM_SLICE_REPLY_TTL_SECONDS,*)
(* which is far longer than a client waits.                                *)
Expire(j) ==
  /\ \A x \in Clients : job[x] # j
  /\ replies' = replies \ {j}
  /\ UNCHANGED <<async, requests, mailbox, buffer, pc, current, index, job, added, worker,
                 floor, taken>>
---------------------------------------------------------------------------
(* The C worker.                                                           *)
Work(place, last, from) ==
  /\ worker' = [pc |-> place, last |-> last, from |-> from]
  /\ UNCHANGED <<async, requests, mailbox, buffer, pc, current, index, job, added, floor>>

Connect ==
  /\ worker.pc = "down"
  /\ Work("ready", worker.last, 0)
  /\ UNCHANGED <<replies, taken>>

(* XREAD BLOCK: Redis resolves "$" when the command arrives.               *)
Read ==
  /\ worker.pc = "ready"
  /\ Work("blocked", worker.last, IF worker.last = Dollar THEN added ELSE worker.last)
  /\ UNCHANGED <<replies, taken>>

(* COUNT 1: the next entry, or nil after 1500 ms.                          *)
Deliver ==
  /\ worker.pc = "blocked"
  /\ \/ /\ added > worker.from
        /\ Work("job", worker.from + 1, 0)
        /\ taken' = worker.from + 1
     \/ /\ added = worker.from
        /\ Work("ready", worker.last, 0)
        /\ UNCHANGED taken
  /\ UNCHANGED replies

(* SETEX, whose failure is not looked at.                                  *)
Reply ==
  /\ worker.pc = "job"
  /\ Work("ready", worker.last, 0)
  /\ replies' \in {replies, replies \union {worker.last}}
  /\ UNCHANGED taken

(* The connection breaks; last_id is kept.                                 *)
Break ==
  /\ worker.pc \in {"ready", "blocked"}
  /\ Work("down", worker.last, 0)
  /\ UNCHANGED <<replies, taken>>

(* Faulty: a worker that starts again reads the stream from its beginning. *)
RereadingRestart ==
  /\ Work("down", 0, 0)
  /\ UNCHANGED <<replies, taken>>

(* The process ends and is started again.                                  *)
Restart ==
  /\ Work("down", Dollar, 0)
  /\ UNCHANGED <<replies, taken>>
---------------------------------------------------------------------------
Call(c) == Store(c) \/ SetEvent(c) \/ LoadIndex(c) \/ LoadSlot(c)
Serve == Take \/ Clear \/ WriteSlot \/ Flip
Request(x) == Ask(x) \/ Poll(x) \/ Del(x)

Next ==
  \/ \E c \in Callers : Begin(c) \/ Call(c)
  \/ Serve
  \/ \E x \in Clients : Request(x)
  \/ \E j \in replies : Expire(j)
  \/ Connect \/ Read \/ Deliver \/ Reply \/ Break \/ Restart

Spec == Init /\ [][Next]_vars

(* Threads run and calls to Redis return or time out.  Nothing is assumed  *)
(* of the C worker.                                                        *)
Fairness ==
  /\ \A c \in Callers : WF_vars(Call(c))
  /\ \A x \in Clients : WF_vars(Request(x))
  /\ WF_vars(Serve)
FairSpec == Spec /\ Fairness
---------------------------------------------------------------------------
Places == {"absent", "wait", "clear", "publish", "flip", "idle", "store", "set",
           "index", "slot", "ask", "poll", "del"}

(* The types, with the bounds that the numbers of requests and jobs have.  *)
TypeOK ==
  /\ async \in BOOLEAN
  /\ requests \in 0..MaxRequests
  /\ pending \in 0..requests /\ current \in 0..requests /\ published \in 0..requests
  /\ event \in BOOLEAN
  /\ slots \in [{0, 1} -> 0..requests] /\ active \in {0, 1}
  /\ pc \in [Clients -> Places]
  /\ index \in [Callers -> {0, 1}] /\ floor \in [Callers -> 0..requests]
  /\ job \in [Clients -> 0..added]
  /\ added \in Nat
  /\ replies \subseteq 1..added
  /\ worker \in [pc: {"down", "ready", "blocked", "job"}, last: {Dollar} \union 0..added,
                 from: 0..added]
  /\ taken \in 0..added

(* A request in the mailbox is noticed: the event is set, or its caller,   *)
(* or another, is about to set it.  The event is set outside the lock and  *)
(* cleared inside it.                                                      *)
NoLostWakeup == pending # 0 => event \/ \E c \in Callers : At(c, "set")

(* A caller between its two loads will not read an answer older than the   *)
(* one that was published when it began, however often the buffer flips.   *)
ReadsNotOlder == \A c \in Callers : At(c, "slot") => slots[index[c]] >= floor[c]

(* A request that is left with the bridge is answered, by itself or by a   *)
(* newer one, and a caller that asks without a bridge returns, even when   *)
(* no worker ever replies.                                                 *)
RequestServed ==
  /\ \A n \in Requests : (pending = n) ~> (published >= n)
  /\ \A c \in Callers : At(c, "ask") ~> At(c, "idle")

(* The worker takes jobs in the order they were added and none twice,      *)
(* through lost connections and restarts.                                  *)
JobsInOrder == [][taken' # taken => taken' > taken]_vars
===========================================================================
