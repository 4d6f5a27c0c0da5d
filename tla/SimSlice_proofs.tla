-------------------------- MODULE SimSlice_proofs -------------------------
(* The safety of SimSlice for any callers and any number of requests.      *)
EXTENDS SimSlice, TLAPS

(* Where the bridge is tells whether it has a request.                     *)
Busy == {"ask", "poll", "del", "publish", "flip"}
BridgeAt ==
  /\ pc[Bridge] \in Busy \union {"absent", "wait", "clear"}
  /\ \A c \in Callers : pc[c] \in {"idle", "store", "set", "index", "slot", "ask", "poll",
                                   "del"}
  /\ At(Bridge, "clear") => pending = 0
  /\ pc[Bridge] \in Busy => current # 0
  /\ pc[Bridge] \in {"absent", "wait"} => current = 0

(* The answer under way is newer than the published one, which is in the   *)
(* active slot, and the waiting request is newer than both.                *)
Newer ==
  /\ published = slots[active]
  /\ current # 0 => current > published
  /\ pending # 0 => pending > published /\ pending > current
  /\ At(Bridge, "flip") => slots[1 - active] = current
  /\ \A c \in Callers : floor[c] <= published

(* The worker's last_id is the last job it took, unless it is "$".         *)
InTurn ==
  /\ worker.last \in {Dollar, taken}
  /\ worker.pc = "blocked" => worker.from >= taken
  /\ worker.pc = "job" => worker.last = taken /\ taken # 0

IInv == TypeOK /\ BridgeAt /\ Newer /\ InTurn

LEMMA InitFits == Init => IInv /\ NoLostWakeup /\ ReadsNotOlder
<1> SUFFICES ASSUME Init PROVE IInv /\ NoLostWakeup /\ ReadsNotOlder
  OBVIOUS
<1> USE SliceAssumption
<1>1. TypeOK
  <2>1. pc \in [Clients -> Places] /\ job \in [Clients -> 0..added]
    BY DEF Init, Places, Clients
  <2>2. worker \in [pc: {"down", "ready", "blocked", "job"}, last: {Dollar} \union 0..added,
                    from: 0..added]
    BY DEF Init, Dollar
  <2>3. /\ slots \in [{0, 1} -> 0..requests] /\ active \in {0, 1}
        /\ index \in [Callers -> {0, 1}] /\ floor \in [Callers -> 0..requests]
    BY DEF Init
  <2>4. async \in BOOLEAN /\ event \in BOOLEAN
    BY DEF Init
  <2>5. /\ added \in Nat /\ replies \subseteq 1..added
        /\ requests \in 0..MaxRequests /\ taken \in 0..added
        /\ pending \in 0..requests /\ current \in 0..requests /\ published \in 0..requests
    BY DEF Init
  <2> QED BY <2>1, <2>2, <2>3, <2>4, <2>5 DEF TypeOK
<1>2. BridgeAt /\ Newer /\ InTurn
  BY DEF Init, BridgeAt, Newer, InTurn, Busy, At, Clients
<1>3. NoLostWakeup /\ ReadsNotOlder
  BY DEF Init, NoLostWakeup, ReadsNotOlder, At, Clients
<1> QED BY <1>1, <1>2, <1>3 DEF IInv

LEMMA StepTypes == ASSUME TypeOK, InTurn, [Next]_vars PROVE TypeOK'
<1> USE SliceAssumption DEF TypeOK, At, Goto
<1>1. /\ \A x \in Clients, p \in Places : [pc EXCEPT ![x] = p] \in [Clients -> Places]
      /\ Callers \subseteq Clients /\ Bridge \in Clients
      /\ \A x \in Clients : Answered(x) \in Places
  BY DEF Places, Clients, Answered
<1>2. ASSUME NEW c \in Callers, Begin(c) PROVE TypeOK'
  BY <1>1, <1>2 DEF Begin, Places, mailbox, buffer, redis
<1>3. ASSUME NEW c \in Callers, Call(c) PROVE TypeOK'
  <2>1. CASE Store(c)
    BY <1>1, <2>1 DEF Store, Places, buffer, redis
  <2>2. CASE SetEvent(c)
    BY <1>1, <2>2 DEF SetEvent, Places, buffer, redis
  <2>3. CASE LoadIndex(c)
    BY <1>1, <2>3 DEF LoadIndex, Places, mailbox, buffer, redis
  <2>4. CASE LoadSlot(c)
    BY <1>1, <2>4 DEF LoadSlot, Places, mailbox, buffer, redis
  <2> QED BY <1>3, <2>1, <2>2, <2>3, <2>4 DEF Call
<1>4. CASE Serve
  <2>1. CASE Take
    BY <1>1, <2>1 DEF Take, Places, buffer, redis
  <2>2. CASE Clear
    BY <1>1, <2>2 DEF Clear, Places, buffer, redis
  <2>3. CASE WriteSlot
    BY <1>1, <2>3 DEF WriteSlot, Places, mailbox, redis
  <2>4. CASE Flip
    BY <1>1, <2>4 DEF Flip, Places, mailbox, redis
  <2> QED BY <1>4, <2>1, <2>2, <2>3, <2>4 DEF Serve
<1>5. ASSUME NEW x \in Clients, Request(x) PROVE TypeOK'
  <2>1. CASE Ask(x)
    BY <1>1, <2>1 DEF Ask, Places, mailbox, buffer, redis
  <2>2. CASE Poll(x)
    BY <1>1, <2>2 DEF Poll, Places, mailbox, buffer, redis
  <2>3. CASE Del(x)
    BY <1>1, <2>3 DEF Del, Places, mailbox, buffer, redis
  <2> QED BY <1>5, <2>1, <2>2, <2>3 DEF Request
<1>6. ASSUME NEW j \in replies, Expire(j) PROVE TypeOK'
  BY <1>6 DEF Expire, mailbox, buffer
<1>7. CASE Connect \/ Read \/ Deliver \/ Reply \/ Break \/ Restart
  <2>0. /\ worker.last \in {Dollar} \union 0..added /\ worker.from \in 0..added
        /\ added \in Nat
    OBVIOUS
  <2>1. worker' \in [pc: {"down", "ready", "blocked", "job"},
                     last: {Dollar} \union 0..added, from: 0..added]
    <3>1. CASE Connect \/ Reply
      BY <2>0, <3>1 DEF Connect, Reply, Work
    <3>2. CASE Read
      BY <2>0, <3>2 DEF Read, Work, Dollar
    <3>3. CASE Deliver
      BY <2>0, <3>3 DEF Deliver, Work
    <3>4. CASE Break \/ Restart
      BY <2>0, <3>4 DEF Break, Restart, Work
    <3> QED BY <1>7, <3>1, <3>2, <3>3, <3>4
  <2>2. taken' \in 0..added /\ replies' \subseteq 1..added
    <3>1. CASE Reply
      BY <3>1 DEF Reply, Work, InTurn, Dollar
    <3>2. CASE Deliver
      BY <3>2 DEF Deliver, Work
    <3>3. CASE Connect \/ Read \/ Break \/ Restart
      BY <3>3 DEF Connect, Read, Break, Restart
    <3> QED BY <1>7, <3>1, <3>2, <3>3
  <2>3. UNCHANGED <<async, requests, mailbox, buffer, pc, current, index, job, added, floor>>
    BY <1>7 DEF Connect, Read, Deliver, Reply, Break, Restart, Work
  <2> QED BY <2>1, <2>2, <2>3 DEF mailbox, buffer
<1>8. CASE UNCHANGED vars
  BY <1>8 DEF vars, mailbox, buffer, redis
<1> QED BY <1>2, <1>3, <1>4, <1>5, <1>6, <1>7, <1>8 DEF Next

(* What a client that asks Redis can do to the others: nothing.            *)
LEMMA RequestMoves ==
  ASSUME TypeOK, NEW x \in Clients, Request(x)
  PROVE  /\ \E p \in {"poll", "del", Answered(x)} : Goto(x, p)
         /\ pc[x] \in {"ask", "poll", "del"}
         /\ UNCHANGED <<async, requests, mailbox, buffer, current, index, worker, floor, taken>>
BY DEF Request, Ask, Poll, Del, At, Goto

LEMMA StepBridge == ASSUME TypeOK, BridgeAt, [Next]_vars PROVE BridgeAt'
<1> USE SliceAssumption DEF At, Goto, Busy
<1>1. pc \in [Clients -> Places] /\ Callers \subseteq Clients /\ Bridge \in Clients
  BY DEF TypeOK, Clients
<1>2. ASSUME NEW c \in Callers, Begin(c) PROVE BridgeAt'
  BY <1>1, <1>2 DEF Begin, BridgeAt, mailbox
<1>3. ASSUME NEW c \in Callers, Call(c) PROVE BridgeAt'
  BY <1>1, <1>3 DEF Call, Store, SetEvent, LoadIndex, LoadSlot, BridgeAt, mailbox
<1>4. CASE Serve
  BY <1>1, <1>4 DEF Serve, Take, Clear, WriteSlot, Flip, BridgeAt, mailbox
<1>5. ASSUME NEW x \in Clients, Request(x) PROVE BridgeAt'
  BY <1>1, <1>5, RequestMoves DEF Answered, BridgeAt, mailbox, Clients
<1>6. ASSUME NEW j \in replies, Expire(j) PROVE BridgeAt'
  BY <1>6 DEF Expire, BridgeAt, mailbox
<1>7. CASE Connect \/ Read \/ Deliver \/ Reply \/ Break \/ Restart
  BY <1>7 DEF Connect, Read, Deliver, Reply, Break, Restart, Work, BridgeAt, mailbox
<1>8. CASE UNCHANGED vars
  BY <1>8 DEF vars, BridgeAt, mailbox
<1> QED BY <1>2, <1>3, <1>4, <1>5, <1>6, <1>7, <1>8 DEF Next

(* Requests are numbered as they are left, and served in that order.       *)
LEMMA StepNewer == ASSUME TypeOK, BridgeAt, Newer, [Next]_vars PROVE Newer'
<1> USE SliceAssumption DEF At, Goto, Busy
<1>1. /\ pc \in [Clients -> Places] /\ Callers \subseteq Clients /\ Bridge \in Clients
      /\ requests \in Nat /\ pending \in 0..requests /\ current \in 0..requests
      /\ published \in 0..requests /\ slots \in [{0, 1} -> 0..requests]
      /\ active \in {0, 1} /\ floor \in [Callers -> 0..requests]
  BY DEF TypeOK, Clients
<1>2. ASSUME NEW c \in Callers, Begin(c) PROVE Newer'
  BY <1>1, <1>2 DEF Begin, Newer, mailbox, buffer
<1>3. ASSUME NEW c \in Callers, Call(c) PROVE Newer'
  <2>1. CASE Store(c)
    BY <1>1, <2>1 DEF Store, Newer, buffer
  <2>2. CASE SetEvent(c)
    BY <1>1, <2>2 DEF SetEvent, Newer, buffer
  <2>3. CASE LoadIndex(c) \/ LoadSlot(c)
    BY <1>1, <2>3 DEF LoadIndex, LoadSlot, Newer, mailbox, buffer
  <2> QED BY <1>3, <2>1, <2>2, <2>3 DEF Call
<1>4. CASE Serve
  <2>1. CASE Take
    BY <1>1, <2>1 DEF Take, Newer, BridgeAt, buffer
  <2>2. CASE Clear
    BY <1>1, <2>2 DEF Clear, Newer, buffer
  <2>3. CASE WriteSlot
    BY <1>1, <2>3 DEF WriteSlot, Newer, mailbox
  <2>4. CASE Flip
    BY <1>1, <2>4 DEF Flip, Newer, BridgeAt, mailbox
  <2> QED BY <1>4, <2>1, <2>2, <2>3, <2>4 DEF Serve
<1>5. ASSUME NEW x \in Clients, Request(x) PROVE Newer'
  BY <1>1, <1>5, RequestMoves DEF Answered, Newer, mailbox, buffer, Clients
<1>6. ASSUME NEW j \in replies, Expire(j) PROVE Newer'
  BY <1>6 DEF Expire, Newer, mailbox, buffer
<1>7. CASE Connect \/ Read \/ Deliver \/ Reply \/ Break \/ Restart
  BY <1>7 DEF Connect, Read, Deliver, Reply, Break, Restart, Work, Newer, mailbox, buffer
<1>8. CASE UNCHANGED vars
  BY <1>8 DEF vars, Newer, mailbox, buffer
<1> QED BY <1>2, <1>3, <1>4, <1>5, <1>6, <1>7, <1>8 DEF Next

(* The worker's place in the stream, and that it never goes back.          *)
LEMMA StepTurn ==
  ASSUME TypeOK, InTurn, [Next]_vars
  PROVE  InTurn' /\ (taken' # taken => taken' > taken)
<1>1. /\ worker.last \in {Dollar} \union 0..added /\ worker.from \in 0..added
      /\ added \in Nat /\ taken \in 0..added
  BY DEF TypeOK
<1>2. CASE UNCHANGED <<worker, taken>>
  BY <1>2 DEF InTurn
<1>3. CASE Connect \/ Reply \/ Break \/ Restart
  BY <1>1, <1>3 DEF Connect, Reply, Break, Restart, Work, InTurn, Dollar
<1>4. CASE Read
  BY <1>1, <1>4 DEF Read, Work, InTurn, Dollar
<1>5. CASE Deliver
  BY <1>1, <1>5 DEF Deliver, Work, InTurn, Dollar
<1>6. ASSUME NEW x \in Clients, Request(x) PROVE UNCHANGED <<worker, taken>>
  BY <1>6, RequestMoves
<1> QED BY <1>2, <1>3, <1>4, <1>5, <1>6
  DEF Next, vars, Begin, Call, Store, SetEvent, LoadIndex, LoadSlot, Serve, Take, Clear,
      WriteSlot, Flip, Expire

LEMMA StepFits == IInv /\ [Next]_vars => IInv'
BY StepTypes, StepBridge, StepNewer, StepTurn DEF IInv

LEMMA AlwaysFit == Spec => []IInv
BY InitFits, StepFits, PTL DEF Spec

(* The mailbox, the double buffer and the stream keep their types.         *)
THEOREM TypeCorrect == Spec => []TypeOK
<1>1. IInv => TypeOK
  BY DEF IInv
<1> QED BY <1>1, AlwaysFit, PTL

(* A request that waits in the mailbox has its event set, or about to be:  *)
(* the lock keeps requests out while the bridge clears the event.          *)
LEMMA StepNoticed == ASSUME IInv, NoLostWakeup, [Next]_vars PROVE NoLostWakeup'
<1> USE SliceAssumption DEF NoLostWakeup, At, Goto
<1>1. /\ pc \in [Clients -> Places] /\ Callers \subseteq Clients /\ Bridge \in Clients
      /\ requests \in Nat
  BY DEF IInv, TypeOK, Clients
<1>2. ASSUME NEW c \in Callers, Begin(c) PROVE NoLostWakeup'
  BY <1>1, <1>2 DEF Begin, mailbox
<1>3. ASSUME NEW c \in Callers, Call(c) PROVE NoLostWakeup'
  <2>1. CASE Store(c)
    BY <1>1, <2>1 DEF Store
  <2>2. CASE SetEvent(c)
    BY <1>1, <2>2 DEF SetEvent
  <2>3. CASE LoadIndex(c) \/ LoadSlot(c)
    BY <1>1, <2>3 DEF LoadIndex, LoadSlot, mailbox
  <2> QED BY <1>3, <2>1, <2>2, <2>3 DEF Call
<1>4. CASE Serve
  BY <1>1, <1>4 DEF Serve, Take, Clear, WriteSlot, Flip, IInv, BridgeAt, mailbox
<1>5. ASSUME NEW x \in Clients, Request(x) PROVE NoLostWakeup'
  <2>1. TypeOK
    BY DEF IInv
  <2> QED BY <1>1, <1>5, <2>1, RequestMoves DEF mailbox
<1>6. ASSUME NEW j \in replies, Expire(j) PROVE NoLostWakeup'
  BY <1>6 DEF Expire, mailbox
<1>7. CASE Connect \/ Read \/ Deliver \/ Reply \/ Break \/ Restart
  BY <1>7 DEF Connect, Read, Deliver, Reply, Break, Restart, Work, mailbox
<1>8. CASE UNCHANGED vars
  BY <1>8 DEF vars, mailbox
<1> QED BY <1>2, <1>3, <1>4, <1>5, <1>6, <1>7, <1>8 DEF Next

(* No request of a caller is left in the mailbox unnoticed, for any number *)
(* of callers that submit at any moment.                                   *)
THEOREM Noticed == Spec => []NoLostWakeup
BY InitFits, StepNoticed, AlwaysFit, PTL DEF Spec

(* A slot is only ever given a newer answer than it has, and the slot a    *)
(* caller holds had the published answer when the caller began.            *)
LEMMA StepReads == ASSUME IInv, ReadsNotOlder, [Next]_vars PROVE ReadsNotOlder'
<1> USE SliceAssumption DEF ReadsNotOlder, At, Goto
<1>1. /\ pc \in [Clients -> Places] /\ Callers \subseteq Clients /\ Bridge \in Clients
      /\ current \in Nat /\ published \in Nat /\ slots \in [{0, 1} -> Nat]
      /\ active \in {0, 1} /\ floor \in [Callers -> Nat] /\ index \in [Callers -> {0, 1}]
  BY DEF IInv, TypeOK, Clients
<1>2. /\ published = slots[active] /\ \A c \in Callers : floor[c] <= published
      /\ At(Bridge, "publish") => current > published
  BY DEF IInv, Newer, BridgeAt, Busy
<1>3. ASSUME NEW c \in Callers, Begin(c) \/ Call(c) PROVE ReadsNotOlder'
  <2>1. CASE Begin(c) \/ Store(c) \/ SetEvent(c)
    BY <1>1, <2>1 DEF Begin, Store, SetEvent, buffer
  <2>2. CASE LoadIndex(c)
    BY <1>1, <1>2, <2>2 DEF LoadIndex, buffer
  <2>3. CASE LoadSlot(c)
    BY <1>1, <2>3 DEF LoadSlot, buffer
  <2> QED BY <1>3, <2>1, <2>2, <2>3 DEF Call
<1>4. CASE Serve
  <2>1. CASE Take \/ Clear
    BY <1>1, <2>1 DEF Take, Clear, buffer
  <2>2. CASE WriteSlot
    <3> SUFFICES ASSUME NEW c \in Callers, pc'[c] = "slot"
                 PROVE  slots'[index'[c]] >= floor'[c]
      OBVIOUS
    <3>1. pc[c] = "slot" /\ index' = index /\ floor' = floor
      BY <1>1, <2>2 DEF WriteSlot
    <3>2. current >= floor[c] /\ slots' = [slots EXCEPT ![1 - active] = current]
      BY <1>1, <1>2, <2>2 DEF WriteSlot
    <3>3. index[c] \in {0, 1} /\ floor[c] \in Nat /\ 1 - active \in {0, 1}
      BY <1>1
    <3>4. slots'[index[c]] \in {current, slots[index[c]]}
      BY <1>1, <3>2, <3>3
    <3> QED BY <1>1, <3>1, <3>2, <3>3, <3>4
  <2>3. CASE Flip
    <3>1. index' = index /\ floor' = floor /\ slots' = slots
      BY <2>3 DEF Flip
    <3>2. \A c \in Callers : pc'[c] = "slot" => pc[c] = "slot"
      BY <1>1, <2>3 DEF Flip
    <3> QED BY <3>1, <3>2
  <2> QED BY <1>4, <2>1, <2>2, <2>3 DEF Serve
<1>5. ASSUME NEW x \in Clients, Request(x) PROVE ReadsNotOlder'
  <2>1. TypeOK
    BY DEF IInv
  <2> QED BY <1>1, <1>5, <2>1, RequestMoves DEF Answered, buffer
<1>6. ASSUME NEW j \in replies, Expire(j) PROVE ReadsNotOlder'
  BY <1>6 DEF Expire, buffer
<1>7. CASE Connect \/ Read \/ Deliver \/ Reply \/ Break \/ Restart
  BY <1>7 DEF Connect, Read, Deliver, Reply, Break, Restart, Work, buffer
<1>8. CASE UNCHANGED vars
  BY <1>8 DEF vars, buffer
<1> QED BY <1>3, <1>4, <1>5, <1>6, <1>7, <1>8 DEF Next

(* Reading the double buffer without a lock never goes behind the answer   *)
(* that was published when the read began.                                 *)
THEOREM ReadsCurrent == Spec => []ReadsNotOlder
BY InitFits, StepReads, AlwaysFit, PTL DEF Spec

(* Lost connections and restarts do not make the worker take a job again.  *)
THEOREM TakenInOrder == Spec => JobsInOrder
<1>1. IInv /\ [Next]_vars => [taken' # taken => taken' > taken]_vars
  BY StepTurn DEF IInv
<1> QED BY <1>1, AlwaysFit, PTL DEF Spec, JobsInOrder
===========================================================================
