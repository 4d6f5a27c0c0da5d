---------------------- MODULE PresenceRuntime_proofs ----------------------
(* Proofs about PresenceRuntime, for every number of processes, threads,   *)
(* presences and particles, whatever calls fail.                           *)
EXTENDS PresenceRuntime, TLAPS, WellFoundedInduction

RowPcs == {"owner", "handoff", "upsert", "reowner", "reupsert", "mark"}

(* What the position of a sync says of its record: it has a presence to    *)
(* deal with; the rows left are that presence's; so is the row at hand,    *)
(* which is not over the limit; and what is handed over has another owner. *)
Shape(r) ==
  /\ r.pc # "idle" => r.todo # {}
  /\ r.pc \in RowPcs \union {"rows"} =>
       \A d \in r.pending : r.view[d] \in States /\ r.view[d][1] = Least(r.todo)
  /\ r.pc \in RowPcs =>
       /\ r.row \in Particles /\ r.row \notin r.pending /\ r.wrote < MaxWrites
       /\ r.view[r.row] \in States /\ r.view[r.row][1] = Least(r.todo)
  /\ r.pc = "handoff" => r.seen \in Presences \ {Least(r.todo)}

IInv == TypeOK /\ \A t \in Threads : Shape(thread[t])

(* A sync visits the least of the presences it has left.                   *)
LEMMA LeastIn ==
  ASSUME NEW S \in SUBSET Presences, S # {}
  PROVE  Least(S) \in S
<1> DEFINE R == {ss \in Nat \X Nat : ss[1] < ss[2]}
<1>1. S \subseteq Nat
  BY PresenceAssumption DEF Presences
<1>2. IsWellFoundedOn(R, Nat)
  <2>1. R = OpToRel(<, Nat)
    BY Zenon DEF OpToRel
  <2> QED BY <2>1, NatLessThanWellFounded, Zenon
<1>0. \A x, y \in Nat : <<y, x>> \in R <=> y < x
  OBVIOUS
<1> HIDE DEF R
<1>3. PICK x \in S : \A y \in S : ~ (<<y, x>> \in R)
  BY <1>1, <1>2, WFMin
<1>4. \A y \in S : x <= y
  <2> TAKE y \in S
  <2>1. x \in Nat /\ y \in Nat
    BY <1>1
  <2>2. ~ (y < x)
    BY <1>0, <1>3, <2>1, Zenon
  <2> QED BY <2>1, <2>2
<1> QED BY <1>4 DEF Least

(* The record of a thread that builds nothing.                             *)
LEMMA IdleFits == Idle \in ThreadState /\ Shape(Idle)
BY PresenceAssumption DEF Idle, ThreadState, Shape, RowPcs

(* A step that changes one thread's record is as good as the new record.   *)
LEMMA OneThread ==
  ASSUME IInv, NEW t \in Threads, NEW r \in ThreadState, Shape(r),
         thread' = [thread EXCEPT ![t] = r]
  PROVE  thread' \in [Threads -> ThreadState] /\ \A u \in Threads : Shape(thread[u])'
BY DEF IInv, TypeOK, Shape, RowPcs, Least

(* The other threads lose the version they read, no more.                  *)
LEMMA Losing ==
  ASSUME NEW r \in ThreadState, Shape(r), NEW f \in BOOLEAN
  PROVE  [r EXCEPT !.fresh = f] \in ThreadState /\ Shape([r EXCEPT !.fresh = f])
BY DEF ThreadState, Shape

Threaded == thread' \in [Threads -> ThreadState] /\ \A u \in Threads : Shape(thread[u])'
StorageTyped ==
  /\ lease \in [Presences -> [holder: Instances \union {None}, left: 0..LeaseTtl]]
  /\ owner \in [Particles -> Presences \union {None}]
  /\ content \in [Particles -> States \union {None}]
  /\ members \in [Presences -> SUBSET Particles]
  /\ inbox \in [Presences -> SUBSET Particles]
  /\ alive \subseteq Instances
  /\ paused \in [Instances -> SUBSET Presences]
  /\ print \in [Instances -> [Particles -> States \union {None}]]
  /\ granted \in [Threads -> [Presences -> 0..LeaseTtl]]
  /\ lastBy \in [Particles -> Instances \union {None}]

(* The presence of a thread at work is one of its presences.               *)
LEMMA CurrentIn ==
  ASSUME IInv, NEW t \in Threads, thread[t].pc # "idle"
  PROVE  /\ Current(t) \in thread[t].todo /\ Current(t) \in Presences
         /\ Current(t) = Least(thread[t].todo)
         /\ thread[t] \in ThreadState /\ Shape(thread[t])
<1>1. thread[t] \in ThreadState /\ Shape(thread[t])
  BY DEF IInv, TypeOK
<1>2. thread[t].todo \in SUBSET Presences /\ thread[t].todo # {}
  BY <1>1 DEF ThreadState, Shape
<1> QED BY <1>1, <1>2, LeastIn DEF Current

(* The record after the last lease, or before the next.                    *)
LEMMA AfterLeaseFits ==
  ASSUME IInv, NEW t \in Threads, At(t, "lease"), NEW A \in SUBSET Presences
  PROVE  AfterLease(t, A) \in ThreadState /\ Shape(AfterLease(t, A))
<1>1. thread[t].pc = "lease" /\ thread[t] \in ThreadState /\ Shape(thread[t])
  BY CurrentIn DEF At
<1> DEFINE rest == thread[t].todo \ {Current(t)}
           this == [thread[t] EXCEPT !.active = A]
<1>2. this \in ThreadState /\ this.pc = "lease"
  BY <1>1 DEF ThreadState
<1>3. CASE rest # {}
  <2>1. AfterLease(t, A) = [this EXCEPT !.todo = rest]
    BY <1>3 DEF AfterLease
  <2> QED BY <1>1, <1>2, <1>3, <2>1 DEF ThreadState, Shape, RowPcs
<1>4. CASE rest = {} /\ A = {}
  BY <1>4, IdleFits DEF AfterLease
<1>5. CASE rest = {} /\ A # {}
  <2> DEFINE v == [d \in Particles |-> IF this.view[d] # None /\ this.view[d][1] \in A
                                       THEN this.view[d] ELSE None]
  <2>1. AfterLease(t, A) = [this EXCEPT !.pc = "ver", !.todo = A, !.active = {}, !.view = v]
    BY <1>5 DEF AfterLease
  <2>2. v \in [Particles -> States \union {None}]
    BY <1>2 DEF ThreadState
  <2> HIDE DEF v
  <2> QED BY <1>2, <1>5, <2>1, <2>2 DEF ThreadState, Shape, RowPcs, ScriptPcs
<1> QED BY <1>3, <1>4, <1>5

(* The record of a sync that comes to the rows of a presence.              *)
LEMMA RowsFits ==
  ASSUME IInv, NEW t \in Threads, thread[t].pc \in {"cas", "recas"}
  PROVE  Rows(t) \in ThreadState /\ Shape(Rows(t))
<1>1. /\ Current(t) \in Presences /\ Current(t) = Least(thread[t].todo)
      /\ thread[t] \in ThreadState /\ Shape(thread[t]) /\ thread[t].pc # "idle"
  BY CurrentIn
<1>2. thread[t].view \in [Particles -> States \union {None}]
  BY <1>1 DEF ThreadState
<1> DEFINE P == {d \in Particles : thread[t].view[d] # None /\ thread[t].view[d][1] = Current(t)}
<1>3. Rows(t) = [thread[t] EXCEPT !.pc = "rows", !.fresh = FALSE, !.wrote = 0,
                   !.pending = P]
  BY DEF Rows
<1>4. P \subseteq Particles /\ \A d \in P : thread[t].view[d] \in States /\ thread[t].view[d][1] = Current(t)
  BY <1>2
<1> HIDE DEF P
<1>5. 0 \in 0..MaxWrites
  BY PresenceAssumption
<1> DEFINE r == Rows(t)
<1>6. /\ r \in ThreadState
      /\ r.pc = "rows" /\ r.todo = thread[t].todo /\ r.pending = P /\ r.view = thread[t].view
  BY <1>1, <1>3, <1>4, <1>5 DEF ThreadState
<1>7. r.todo # {}
  BY <1>1, <1>6 DEF Shape
<1> HIDE DEF r
<1>8. Shape(r)
  BY <1>1, <1>4, <1>6, <1>7 DEF Shape, RowPcs
<1> QED BY <1>6, <1>8 DEF r

(* The record of a sync that goes on with the next row.                    *)
LEMMA NextRowFits ==
  ASSUME IInv, NEW t \in Threads, thread[t].pc \in RowPcs
  PROVE  /\ NextRow(t) \in ThreadState /\ Shape(NextRow(t))
         /\ [NextRow(t) EXCEPT !.wrote = @ + 1] \in ThreadState
         /\ Shape([NextRow(t) EXCEPT !.wrote = @ + 1])
<1> DEFINE d == thread[t].row
           v == [thread[t].view EXCEPT ![d] = None]
<1>1. thread[t] \in ThreadState /\ Shape(thread[t]) /\ thread[t].pc # "idle"
  BY CurrentIn DEF RowPcs
<1>2. NextRow(t) = [thread[t] EXCEPT !.pc = "rows", !.row = None, !.seen = None,
                                     !.fresh = FALSE, !.view = v]
  BY <1>1 DEF NextRow, ThreadState
<1>3. /\ v \in [Particles -> States \union {None}]
      /\ \A e \in thread[t].pending : v[e] = thread[t].view[e]
  BY <1>1 DEF ThreadState, Shape
<1>4. thread[t].wrote + 1 \in 0..MaxWrites
  BY <1>1, PresenceAssumption DEF ThreadState, Shape
<1> DEFINE w == thread[t].wrote + 1
<1> HIDE DEF v, w
<1>5. ASSUME NEW r, r = NextRow(t) \/ r = [NextRow(t) EXCEPT !.wrote = w]
      PROVE  r \in ThreadState /\ Shape(r)
  <2>1. /\ r \in ThreadState
        /\ r.pc = "rows" /\ r.todo = thread[t].todo /\ r.view = v
        /\ r.pending = thread[t].pending
    <3>1. w \in 0..MaxWrites /\ thread[t].wrote \in 0..MaxWrites
      BY <1>1, <1>4 DEF ThreadState, w
    <3> DEFINE n == NextRow(t)
    <3>2. /\ n \in ThreadState
          /\ n.pc = "rows" /\ n.todo = thread[t].todo /\ n.view = v
          /\ n.pending = thread[t].pending
      BY <1>1, <1>2, <1>3 DEF ThreadState
    <3>3. r = n \/ r = [n EXCEPT !.wrote = w]
      BY <1>5
    <3> HIDE DEF n
    <3>4. CASE r = n
      BY <3>2, <3>4
    <3>5. CASE r = [n EXCEPT !.wrote = w]
      BY <3>1, <3>2, <3>5 DEF ThreadState
    <3> QED BY <3>3, <3>4, <3>5
  <2>2. /\ r.todo # {}
        /\ \A e \in r.pending : r.view[e] \in States /\ r.view[e][1] = Least(r.todo)
    BY <1>1, <1>3, <2>1 DEF Shape
  <2> QED BY <2>1, <2>2 DEF Shape, RowPcs
<1>6. NextRow(t).wrote = thread[t].wrote
  BY <1>1, <1>2 DEF ThreadState
<1> QED BY <1>5, <1>6 DEF w

(* What the other threads lose to a write leaves their records fit.        *)
LEMMA LosingFits ==
  ASSUME IInv, NEW u \in Threads, NEW p, NEW d
  PROVE  /\ LoseVars(u, p) \in ThreadState /\ Shape(LoseVars(u, p))
         /\ LoseRow(u, d) \in ThreadState /\ Shape(LoseRow(u, d))
<1>1. thread[u] \in ThreadState /\ Shape(thread[u])
  BY DEF IInv, TypeOK
<1>2. LoseVars(u, p) = [thread[u] EXCEPT
          !.fresh = thread[u].fresh /\ ~(thread[u].pc \in {"cas", "recas"} /\ Current(u) = p)]
  BY <1>1 DEF LoseVars, ThreadState
<1>3. thread[u].fresh \in BOOLEAN
  BY <1>1 DEF ThreadState
<1>4. LoseRow(u, d) = [thread[u] EXCEPT !.fresh = thread[u].fresh /\ thread[u].row # d]
  BY <1>1 DEF LoseRow, ThreadState
<1>5. LoseVars(u, p) \in ThreadState /\ Shape(LoseVars(u, p))
  BY <1>1, <1>2, <1>3, Losing
<1>6. LoseRow(u, d) \in ThreadState /\ Shape(LoseRow(u, d))
  BY <1>1, <1>3, <1>4, Losing
<1> QED BY <1>5, <1>6

(* A write puts in one record and takes from the others.                   *)
LEMMA Writes ==
  ASSUME IInv, NEW t \in Threads, NEW r \in ThreadState, Shape(r),
         \/ \E p \in Presences : thread' = [u \in Threads |-> IF u = t THEN r ELSE LoseVars(u, p)]
         \/ \E d \in Particles : thread' = [u \in Threads |-> IF u = t THEN r ELSE LoseRow(u, d)]
  PROVE  Threaded
<1>1. CASE \E p \in Presences : thread' = [u \in Threads |-> IF u = t THEN r ELSE LoseVars(u, p)]
  <2>1. PICK p \in Presences : thread' = [u \in Threads |-> IF u = t THEN r ELSE LoseVars(u, p)]
    BY <1>1
  <2>2. \A u \in Threads : LoseVars(u, p) \in ThreadState /\ Shape(LoseVars(u, p))
    BY LosingFits
  <2>3. \A u \in Threads : thread'[u] \in ThreadState /\ Shape(thread'[u])
    BY <2>1, <2>2
  <2> QED BY <2>1, <2>3 DEF Threaded, Shape, RowPcs, Least
<1>2. CASE \E d \in Particles : thread' = [u \in Threads |-> IF u = t THEN r ELSE LoseRow(u, d)]
  <2>1. PICK d \in Particles : thread' = [u \in Threads |-> IF u = t THEN r ELSE LoseRow(u, d)]
    BY <1>2
  <2>3. \A u \in Threads : LoseRow(u, d) \in ThreadState /\ Shape(LoseRow(u, d))
    BY LosingFits
  <2>4. \A u \in Threads : thread'[u] \in ThreadState /\ Shape(thread'[u])
    BY <2>1, <2>3
  <2> QED BY <2>1, <2>4 DEF Threaded, Shape, RowPcs, Least
<1> QED BY <1>1, <1>2

(* Every step of a thread leaves the records of all threads fit.           *)
LEMMA BeginThreads == ASSUME IInv, NEW t \in Threads, Begin(t) PROVE Threaded
<1>1. PICK v \in [Particles -> States \union {None}] :
        thread' = [thread EXCEPT ![t] = [Idle EXCEPT !.pc = "lease", !.todo = Presences,
                                                     !.view = v]]
  BY DEF Begin
<1> DEFINE r == [Idle EXCEPT !.pc = "lease", !.todo = Presences, !.view = v]
<1>2. r \in ThreadState /\ Shape(r)
  BY IdleFits DEF Begin, ThreadState, Shape, ScriptPcs, RowPcs, Idle
<1> HIDE DEF r
<1>3. thread' = [thread EXCEPT ![t] = r]
  BY <1>1 DEF r
<1> QED BY <1>2, <1>3, OneThread DEF Threaded

LEMMA LeaseThreads == ASSUME IInv, NEW t \in Threads, Lease(t) PROVE Threaded
<1>1. At(t, "lease") /\ thread[t] \in ThreadState /\ Current(t) \in Presences
  BY CurrentIn DEF Lease, At
<1>2. PICK A \in SUBSET Presences : thread' = [thread EXCEPT ![t] = AfterLease(t, A)]
  <2>1. /\ thread[t].active \in SUBSET Presences
        /\ thread[t].active \union {Current(t)} \in SUBSET Presences
    BY <1>1 DEF ThreadState
  <2> QED BY <2>1 DEF Lease
<1> QED BY <1>1, <1>2, AfterLeaseFits, OneThread DEF Threaded

LEMMA GetVerThreads == ASSUME IInv, NEW t \in Threads, GetVer(t) PROVE Threaded
<1>1. thread[t] \in ThreadState /\ Shape(thread[t])
  BY DEF IInv, TypeOK
<1>2. PICK c \in {"cas", "recas"} :
        /\ thread' = [thread EXCEPT ![t] = [thread[t] EXCEPT !.pc = c, !.fresh = TRUE]]
        /\ thread[t].pc # "idle"
  BY <1>1 DEF GetVer, At, ThreadState
<1> DEFINE r == [thread[t] EXCEPT !.pc = c, !.fresh = TRUE]
<1>3. r \in ThreadState /\ Shape(r)
  BY <1>1, <1>2 DEF ThreadState, Shape, RowPcs, ScriptPcs
<1> QED BY <1>2, <1>3, OneThread DEF Threaded

LEMMA CasVarsThreads == ASSUME IInv, NEW t \in Threads, CasVars(t) PROVE Threaded
<1>1. /\ thread[t].pc \in {"cas", "recas"} /\ thread[t] \in ThreadState /\ Shape(thread[t])
      /\ Current(t) \in Presences
  BY CurrentIn DEF CasVars
<1>2. Rows(t) \in ThreadState /\ Shape(Rows(t))
  BY <1>1, RowsFits
<1>3. CASE thread[t].fresh
  <2>1. thread' = [u \in Threads |-> IF u = t THEN Rows(t) ELSE LoseVars(u, Current(t))]
    BY <1>3 DEF CasVars
  <2> QED BY <1>1, <1>2, <2>1, Writes
<1>4. CASE ~thread[t].fresh
  <2> DEFINE r == [thread[t] EXCEPT !.pc = "reget"]
  <2>1. thread' = [thread EXCEPT ![t] = r] \/ thread' = [thread EXCEPT ![t] = Rows(t)]
    BY <1>4 DEF CasVars
  <2>2. r \in ThreadState /\ Shape(r)
    BY <1>1 DEF ThreadState, Shape, RowPcs, ScriptPcs
  <2> HIDE DEF r
  <2> QED BY <1>2, <2>1, <2>2, OneThread DEF Threaded
<1> QED BY <1>3, <1>4

LEMMA RowThreads == ASSUME IInv, NEW t \in Threads, Row(t) PROVE Threaded
<1>1. thread[t] \in ThreadState /\ Shape(thread[t]) /\ thread[t].pc = "rows"
  BY DEF IInv, TypeOK, Row, At
<1>2. PICK d \in thread[t].pending :
        \/ thread' = [thread EXCEPT ![t].pending = @ \ {d}, ![t].view[d] = None]
        \/ /\ ~Dropped(t, d)
           /\ thread' = [thread EXCEPT ![t].pending = @ \ {d}, ![t].row = d, ![t].pc = "owner"]
  BY DEF Row
<1>3. /\ d \in Particles /\ thread[t].view[d] \in States
      /\ thread[t].view[d][1] = Least(thread[t].todo)
  BY <1>1, <1>2 DEF ThreadState, Shape
<1>4. CASE thread' = [thread EXCEPT ![t].pending = @ \ {d}, ![t].view[d] = None]
  <2> DEFINE v == [thread[t].view EXCEPT ![d] = None]
             P == thread[t].pending \ {d}
             r == [thread[t] EXCEPT !.pending = P, !.view = v]
  <2>1. thread' = [thread EXCEPT ![t] = r]
    BY <1>1, <1>4 DEF IInv, TypeOK, ThreadState
  <2>2. /\ v \in [Particles -> States \union {None}] /\ P \in SUBSET Particles
        /\ \A e \in P : v[e] = thread[t].view[e]
    BY <1>1, <1>3 DEF ThreadState
  <2>3. \A e \in P : v[e] \in States /\ v[e][1] = Least(thread[t].todo)
    BY <1>1, <2>2 DEF Shape
  <2> HIDE DEF v, P
  <2>4. r \in ThreadState /\ Shape(r)
    BY <1>1, <2>2, <2>3 DEF ThreadState, Shape, RowPcs
  <2> HIDE DEF r
  <2> QED BY <2>1, <2>4, OneThread DEF Threaded
<1>5. CASE ~Dropped(t, d) /\ thread' = [thread EXCEPT ![t].pending = @ \ {d}, ![t].row = d,
                                                       ![t].pc = "owner"]
  <2> DEFINE P == thread[t].pending \ {d}
             r == [thread[t] EXCEPT !.pending = P, !.row = d, !.pc = "owner"]
  <2>1. thread' = [thread EXCEPT ![t] = r]
    BY <1>1, <1>5 DEF IInv, TypeOK, ThreadState
  <2>2. thread[t].wrote < MaxWrites
    BY <1>1, <1>5, PresenceAssumption DEF Dropped, ThreadState
  <2>3. r \in ThreadState /\ Shape(r)
    BY <1>1, <1>3, <2>2 DEF ThreadState, Shape, RowPcs, ScriptPcs
  <2> HIDE DEF r
  <2> QED BY <2>1, <2>3, OneThread DEF Threaded
<1> QED BY <1>2, <1>4, <1>5

LEMMA RowsDoneThreads == ASSUME IInv, NEW t \in Threads, RowsDone(t) PROVE Threaded
<1> DEFINE rest == thread[t].todo \ {Current(t)}
           r == [thread[t] EXCEPT !.pc = "ver", !.todo = rest]
<1>1. thread[t] \in ThreadState /\ Shape(thread[t])
  BY DEF IInv, TypeOK
<1>2. \/ rest = {} /\ thread' = [thread EXCEPT ![t] = Idle]
      \/ rest # {} /\ thread' = [thread EXCEPT ![t] = r]
  BY DEF RowsDone
<1>3. rest # {} => r \in ThreadState /\ Shape(r)
  BY <1>1 DEF ThreadState, Shape, RowPcs, ScriptPcs
<1> HIDE DEF r
<1> QED BY <1>2, <1>3, IdleFits, OneThread DEF Threaded

LEMMA GetOwnerThreads == ASSUME IInv, NEW t \in Threads, GetOwner(t) PROVE Threaded
<1>1. /\ thread[t].pc = "owner" /\ thread[t] \in ThreadState /\ Shape(thread[t])
      /\ Current(t) = Least(thread[t].todo)
  BY CurrentIn DEF GetOwner, At
<1> DEFINE o == owner[thread[t].row]
           c == IF o \in {None, Current(t)} THEN "upsert" ELSE "handoff"
           r == [thread[t] EXCEPT !.seen = o, !.fresh = TRUE, !.pc = c]
<1>2. o \in Presences \union {None}
  BY <1>1 DEF IInv, TypeOK, Shape, RowPcs
<1>3. thread' = [thread EXCEPT ![t] = r]
  BY <1>1 DEF GetOwner, IInv, TypeOK, ThreadState
<1>4. c \in {"upsert", "handoff"} /\ (c = "handoff" => o \in Presences \ {Current(t)})
  BY <1>2
<1> HIDE DEF o, c
<1>5. r \in ThreadState /\ Shape(r)
  BY <1>1, <1>2, <1>4 DEF ThreadState, Shape, RowPcs, ScriptPcs
<1> QED BY <1>3, <1>5, OneThread DEF Threaded

(* The record of a thread whose row has come to another call.              *)
LEMMA RowMoves ==
  ASSUME IInv, NEW t \in Threads, thread[t].pc \in RowPcs,
         NEW c \in {"upsert", "reowner", "reupsert", "mark"}, NEW f \in BOOLEAN
  PROVE  /\ [thread[t] EXCEPT !.pc = c, !.fresh = f] \in ThreadState
         /\ Shape([thread[t] EXCEPT !.pc = c, !.fresh = f])
<1> DEFINE r == [thread[t] EXCEPT !.pc = c, !.fresh = f]
<1>1. thread[t] \in ThreadState /\ Shape(thread[t])
  BY DEF IInv, TypeOK
<1>2. /\ r \in ThreadState /\ r.pc = c /\ r.todo = thread[t].todo /\ r.row = thread[t].row
      /\ r.view = thread[t].view /\ r.pending = thread[t].pending /\ r.wrote = thread[t].wrote
  BY <1>1 DEF ThreadState, RowPcs, ScriptPcs
<1>3. /\ r.todo # {} /\ c \in RowPcs /\ c # "handoff"
      /\ \A d \in r.pending : r.view[d] \in States /\ r.view[d][1] = Least(r.todo)
      /\ r.row \in Particles /\ r.row \notin r.pending /\ r.wrote < MaxWrites
      /\ r.view[r.row] \in States /\ r.view[r.row][1] = Least(r.todo)
  BY <1>1, <1>2 DEF Shape, RowPcs
<1> HIDE DEF r
<1>4. Shape(r)
  BY <1>2, <1>3 DEF Shape
<1> QED BY <1>2, <1>4 DEF r

LEMMA HandoffThreads == ASSUME IInv, NEW t \in Threads, Handoff(t) PROVE Threaded
<1>1. thread[t].pc = "handoff" /\ thread[t] \in ThreadState /\ Shape(thread[t])
  BY DEF IInv, TypeOK, Handoff, At
<1> DEFINE r == [thread[t] EXCEPT !.pc = "upsert", !.fresh = TRUE]
<1>2. r \in ThreadState /\ Shape(r) /\ NextRow(t) \in ThreadState /\ Shape(NextRow(t))
      /\ thread[t].row \in Particles
  BY <1>1, RowMoves, NextRowFits DEF RowPcs, Shape
<1>3. \/ thread' = [u \in Threads |-> IF u = t THEN r ELSE LoseRow(u, thread[t].row)]
      \/ thread' = [thread EXCEPT ![t] = NextRow(t)]
  BY DEF Handoff
<1> HIDE DEF r
<1> QED BY <1>2, <1>3, OneThread, Writes DEF Threaded

LEMMA UpsertThreads == ASSUME IInv, NEW t \in Threads, Upsert(t) PROVE Threaded
<1>1. thread[t].pc \in {"upsert", "reupsert"} /\ thread[t] \in ThreadState /\ Shape(thread[t])
  BY DEF IInv, TypeOK, Upsert
<1> DEFINE r == [thread[t] EXCEPT !.pc = "mark"]
           q == [thread[t] EXCEPT !.pc = "reowner"]
<1>2. /\ r = [thread[t] EXCEPT !.pc = "mark", !.fresh = thread[t].fresh]
      /\ q = [thread[t] EXCEPT !.pc = "reowner", !.fresh = thread[t].fresh]
      /\ thread[t].fresh \in BOOLEAN
  BY <1>1 DEF ThreadState
<1>3. /\ r \in ThreadState /\ Shape(r) /\ q \in ThreadState /\ Shape(q)
      /\ NextRow(t) \in ThreadState /\ Shape(NextRow(t)) /\ thread[t].row \in Particles
  <2>1. thread[t].pc \in RowPcs /\ thread[t].row \in Particles
    BY <1>1 DEF RowPcs, Shape
  <2>2. r \in ThreadState /\ Shape(r)
    BY <1>2, <2>1, RowMoves
  <2>3. q \in ThreadState /\ Shape(q)
    BY <1>2, <2>1, RowMoves
  <2> QED BY <2>1, <2>2, <2>3, NextRowFits
<1>4. \/ thread' = [u \in Threads |-> IF u = t THEN r ELSE LoseRow(u, thread[t].row)]
      \/ thread' = [thread EXCEPT ![t] = NextRow(t)]
      \/ thread' = [thread EXCEPT ![t] = q]
  BY DEF Upsert, Goto
<1> HIDE DEF r, q
<1> QED BY <1>3, <1>4, OneThread, Writes DEF Threaded

LEMMA RegetOwnerThreads == ASSUME IInv, NEW t \in Threads, RegetOwner(t) PROVE Threaded
<1>1. thread[t].pc = "reowner" /\ thread[t] \in ThreadState
  BY DEF IInv, TypeOK, RegetOwner, At
<1> DEFINE r == [thread[t] EXCEPT !.pc = "reupsert", !.fresh = TRUE]
<1>2. r \in ThreadState /\ Shape(r)
  BY <1>1, RowMoves DEF RowPcs
<1>3. thread' = [thread EXCEPT ![t] = r]
  BY <1>1 DEF RegetOwner, IInv, TypeOK, ThreadState
<1> HIDE DEF r
<1> QED BY <1>2, <1>3, OneThread DEF Threaded

LEMMA MarkThreads == ASSUME IInv, NEW t \in Threads, Mark(t) PROVE Threaded
<1> DEFINE r == [NextRow(t) EXCEPT !.wrote = @ + 1]
<1>1. r \in ThreadState /\ Shape(r)
  BY NextRowFits DEF Mark, At, RowPcs
<1>2. thread' = [thread EXCEPT ![t] = r]
  BY DEF Mark
<1> HIDE DEF r
<1> QED BY <1>1, <1>2, OneThread DEF Threaded

LEMMA CrashThreads == ASSUME IInv, NEW i, Crash(i) PROVE Threaded
<1>1. thread' = [t \in Threads |-> IF Host[t] = i THEN Idle ELSE thread[t]]
  BY DEF Crash
<1>2. \A t \in Threads : thread'[t] \in ThreadState /\ Shape(thread'[t])
  BY <1>1, IdleFits DEF IInv, TypeOK
<1> QED BY <1>1, <1>2 DEF Threaded, Shape, Least, RowPcs

LEMMA NextThreads == ASSUME IInv, [Next]_vars PROVE Threaded
<1>1. CASE thread' = thread
  BY <1>1 DEF IInv, TypeOK, Threaded, Shape, Least, RowPcs
<1>2. ASSUME NEW t \in Threads, thread' = [thread EXCEPT ![t] = Idle]
      PROVE  Threaded
  BY <1>2, IdleFits, OneThread DEF Threaded
<1>3. ASSUME NEW t \in Threads, Begin(t) \/ Sync(t) \/ Raise(t) \/ LoseReply(t)
      PROVE  Threaded
  BY <1>2, <1>3, BeginThreads, LeaseThreads, GetVerThreads, CasVarsThreads, RowThreads,
     RowsDoneThreads, GetOwnerThreads, HandoffThreads, UpsertThreads, RegetOwnerThreads,
     MarkThreads DEF Sync, Raise, LoseReply
<1>4. ASSUME NEW i \in Instances, Crash(i) \/ Restart(i)
      PROVE  Threaded
  BY <1>1, <1>4, CrashThreads DEF Restart
<1> QED BY <1>1, <1>3, <1>4 DEF Next, Elapse, vars

---------------------------------------------------------------------------
(* The rest of the state, action by action.                                *)
LEMMA TakeTyped ==
  ASSUME StorageTyped, NEW t \in Threads, NEW p \in Presences, Take(t, p)
  PROVE  /\ lease' \in [Presences -> [holder: Instances \union {None}, left: 0..LeaseTtl]]
         /\ granted' \in [Threads -> [Presences -> 0..LeaseTtl]]
<1>1. Host[t] \in Instances /\ LeaseTtl \in 0..LeaseTtl
  BY PresenceAssumption
<1> QED BY <1>1 DEF StorageTyped, Take

LEMMA ElapseTyped == ASSUME StorageTyped, Elapse PROVE StorageTyped'
<1>1. \A n \in 1..LeaseTtl : n - 1 \in 0..LeaseTtl
  BY PresenceAssumption
<1>2. lease' \in [Presences -> [holder: Instances \union {None}, left: 0..LeaseTtl]]
  <2>1. ASSUME NEW p \in Presences
        PROVE  (IF lease[p].left <= 1 THEN NoLease ELSE [lease[p] EXCEPT !.left = @ - 1])
                 \in [holder: Instances \union {None}, left: 0..LeaseTtl]
    <3>1. lease[p] \in [holder: Instances \union {None}, left: 0..LeaseTtl]
      BY DEF StorageTyped
    <3>2. ~(lease[p].left <= 1) => lease[p].left - 1 \in 0..LeaseTtl
      BY <3>1, PresenceAssumption
    <3>3. NoLease \in [holder: Instances \union {None}, left: 0..LeaseTtl]
      BY PresenceAssumption DEF NoLease
    <3> QED BY <3>1, <3>2, <3>3
  <2> QED BY <2>1 DEF Elapse
<1>3. granted' \in [Threads -> [Presences -> 0..LeaseTtl]]
  BY <1>1 DEF StorageTyped, Elapse
<1> QED BY <1>2, <1>3 DEF StorageTyped, Elapse, particles, local

LEMMA NextStorage == ASSUME IInv, [Next]_vars PROVE StorageTyped'
<1> USE DEF storage, particles, local
<1>0. StorageTyped
  BY DEF IInv, TypeOK, StorageTyped
<1>1. CASE UNCHANGED <<storage, local, granted, lastBy>>
  BY <1>0, <1>1 DEF StorageTyped
<1>2. ASSUME NEW t \in Threads, Lease(t) PROVE StorageTyped'
  <2>1. Current(t) \in Presences /\ Host[t] \in Instances
    BY <1>2, CurrentIn, PresenceAssumption DEF Lease, At
  <2>2. paused' \in [Instances -> SUBSET Presences]
    BY <1>0, <1>2, <2>1 DEF Lease, StorageTyped
  <2>3. /\ lease' \in [Presences -> [holder: Instances \union {None}, left: 0..LeaseTtl]]
        /\ granted' \in [Threads -> [Presences -> 0..LeaseTtl]]
    <3>1. CASE Take(t, Current(t))
      BY <1>0, <2>1, <3>1, TakeTyped
    <3>2. CASE UNCHANGED <<lease, granted>>
      BY <1>0, <3>2 DEF StorageTyped
    <3> QED BY <1>2, <3>1, <3>2 DEF Lease
  <2> QED BY <1>0, <1>2, <2>2, <2>3 DEF Lease, StorageTyped
<1>3. ASSUME NEW t \in Threads, LoseReply(t) PROVE StorageTyped'
  <2>1. At(t, "lease") => Current(t) \in Presences
    BY CurrentIn DEF At
  <2> QED BY <1>0, <1>3, <2>1, TakeTyped DEF LoseReply, StorageTyped
<1>4. ASSUME NEW t \in Threads, thread[t].pc \in RowPcs
      PROVE  /\ thread[t].row \in Particles /\ thread[t].view[thread[t].row] \in States
             /\ Current(t) \in Presences /\ Host[t] \in Instances
  BY <1>4, CurrentIn, PresenceAssumption DEF Shape, RowPcs
<1>5. ASSUME NEW t \in Threads, Handoff(t) PROVE StorageTyped'
  <2>1. /\ thread[t].row \in Particles /\ Current(t) \in Presences
        /\ owner \in [Particles -> Presences \union {None}]
        /\ members \in [Presences -> SUBSET Particles]
        /\ inbox \in [Presences -> SUBSET Particles]
    BY <1>0, <1>4, <1>5 DEF Handoff, At, RowPcs, StorageTyped
  <2>2. owner' \in [Particles -> Presences \union {None}]
    BY <1>5, <2>1 DEF Handoff
  <2>3. inbox' \in [Presences -> SUBSET Particles]
    BY <1>5, <2>1 DEF Handoff
  <2>4. members' \in [Presences -> SUBSET Particles]
    BY <1>5, <2>1 DEF Handoff
  <2> QED BY <1>0, <1>5, <2>2, <2>3, <2>4 DEF Handoff, StorageTyped
<1>6. ASSUME NEW t \in Threads, Upsert(t) PROVE StorageTyped'
  <2>1. /\ thread[t].row \in Particles /\ thread[t].view[thread[t].row] \in States
        /\ Current(t) \in Presences /\ Host[t] \in Instances
    BY <1>4, <1>6 DEF Upsert, RowPcs
  <2>2. owner' \in [Particles -> Presences \union {None}]
    BY <1>0, <1>6, <2>1 DEF Upsert, StorageTyped
  <2>3. content' \in [Particles -> States \union {None}]
    BY <1>0, <1>6, <2>1 DEF Upsert, StorageTyped
  <2>4. members' \in [Presences -> SUBSET Particles]
    <3>1. members \in [Presences -> SUBSET Particles]
      BY <1>0 DEF StorageTyped
    <3>2. \/ members' = members
          \/ members' = [members EXCEPT ![Current(t)] = @ \union {thread[t].row}]
      BY <1>6 DEF Upsert
    <3> QED BY <2>1, <3>1, <3>2
  <2>5. lastBy' \in [Particles -> Instances \union {None}]
    BY <1>0, <1>6, <2>1 DEF Upsert, StorageTyped
  <2> QED BY <1>0, <1>6, <2>2, <2>3, <2>4, <2>5 DEF Upsert, StorageTyped
<1>7. ASSUME NEW t \in Threads, Mark(t) PROVE StorageTyped'
  BY <1>0, <1>4, <1>7 DEF Mark, At, RowPcs, StorageTyped
<1>8. ASSUME NEW i \in Instances, Crash(i) \/ Restart(i) PROVE StorageTyped'
  <2>1. CASE Crash(i)
    <3>1. [d \in Particles |-> None] \in [Particles -> States \union {None}]
      OBVIOUS
    <3>2. print' \in [Instances -> [Particles -> States \union {None}]]
      BY <1>0, <2>1, <3>1 DEF Crash, StorageTyped
    <3>3. paused' \in [Instances -> SUBSET Presences]
      BY <1>0, <2>1 DEF Crash, StorageTyped
    <3> QED BY <1>0, <2>1, <3>2, <3>3 DEF Crash, StorageTyped
  <2>2. CASE Restart(i)
    BY <1>0, <2>2 DEF Restart, StorageTyped
  <2> QED BY <1>8, <2>1, <2>2
<1>9. ASSUME NEW t \in Threads, Begin(t) \/ Sync(t) \/ Raise(t) \/ LoseReply(t)
      PROVE  StorageTyped'
  BY <1>1, <1>2, <1>3, <1>5, <1>6, <1>7, <1>9
     DEF Begin, Sync, GetVer, CasVars, Row, RowsDone, GetOwner, RegetOwner, Raise
<1> QED BY <1>0, <1>1, <1>8, <1>9, ElapseTyped DEF Next, vars

(* The type of the storage, of the processes and of their syncs, kept by   *)
(* every step of sync, every failed call, crash and restart.               *)
LEMMA InitFits == Init => IInv
BY IdleFits, PresenceAssumption DEF Init, IInv, TypeOK, NoLease

LEMMA NextFits == IInv /\ [Next]_vars => IInv'
<1> SUFFICES ASSUME IInv, [Next]_vars PROVE IInv'
  OBVIOUS
<1>1. Threaded /\ StorageTyped'
  BY NextThreads, NextStorage
<1> QED BY <1>1 DEF Threaded, StorageTyped, IInv, TypeOK

(* The storage, the processes and their syncs keep their types, and a sync *)
(* is never past its limit of writes, through failures, crashes, restarts. *)
THEOREM TypeCorrect == Spec => []TypeOK
<1>1. Spec => []IInv
  BY InitFits, NextFits, PTL DEF Spec
<1>2. IInv => TypeOK
  BY DEF IInv
<1> QED BY <1>1, <1>2, PTL

-----------------------------------------------------------------------------
(* The safety of PresenceRuntime, from the typing of its steps: leases     *)
(* hold, the index of particles agrees with their owners, a state that is  *)
(* not the owner's was handed over, and the storage is a registry.         *)

(* The fit state holds in every reachable state.                           *)
LEMMA AlwaysFit == Spec => []IInv
BY InitFits, NextFits, PTL DEF Spec

(* Only a lease script and time change leases.                             *)
LEMMA LeasesElsewhere ==
  ASSUME [Next]_vars
  PROVE  \/ UNCHANGED <<lease, granted>>
         \/ \E t \in Threads : /\ At(t, "lease") /\ MayTake(Host[t], Current(t))
                               /\ Take(t, Current(t))
         \/ Elapse
BY DEF Next, vars, storage, particles, local, Begin, Sync, Lease, GetVer, CasVars, Row,
       RowsDone, GetOwner, Handoff, Upsert, RegetOwner, Mark, Raise, LoseReply, Crash, Restart

(* A lease is granted only where no time granted to another is left, and   *)
(* both clocks run alike.                                                  *)
LEMMA LeasesHold == ASSUME IInv, LeaseHonoured, [Next]_vars PROVE LeaseHonoured'
<1>1. /\ lease \in [Presences -> [holder: Instances \union {None}, left: 0..LeaseTtl]]
      /\ granted \in [Threads -> [Presences -> 0..LeaseTtl]]
  BY DEF IInv, TypeOK
<1>2. CASE UNCHANGED <<lease, granted>>
  BY <1>2 DEF LeaseHonoured
<1>3. ASSUME NEW t \in Threads, At(t, "lease"), MayTake(Host[t], Current(t)), Take(t, Current(t))
      PROVE  LeaseHonoured'
  <2>1. PICK q \in Presences : q = Current(t)
    BY <1>3, CurrentIn DEF At
  <2>2. /\ lease' = [lease EXCEPT ![q] = [holder |-> Host[t], left |-> LeaseTtl]]
        /\ granted' = [granted EXCEPT ![t][q] = LeaseTtl]
        /\ lease[q].holder \in {None, Host[t]}
    BY <1>3, <2>1 DEF Take, MayTake
  <2>3. ASSUME NEW u \in Threads, NEW p \in Presences, granted'[u][p] > 0
        PROVE  lease'[p].holder = Host[u] /\ lease'[p].left >= granted'[u][p]
    <3>1. CASE p # q
      <4>1. granted'[u][p] = granted[u][p] /\ lease'[p] = lease[p]
        BY <1>1, <2>2, <3>1
      <4> QED BY <2>3, <4>1 DEF LeaseHonoured
    <3>2. CASE p = q /\ u = t
      BY <1>1, <2>2, <3>2, PresenceAssumption
    <3>3. CASE p = q /\ u # t
      <4>1. granted'[u][p] = granted[u][p] /\ granted[u][p] \in 0..LeaseTtl
        BY <1>1, <2>2, <3>3
      <4>2. lease[q].holder = Host[u]
        BY <2>3, <3>3, <4>1 DEF LeaseHonoured
      <4>3. Host[u] = Host[t]
        BY <2>2, <4>2, NoneIsApart, PresenceAssumption
      <4> QED BY <1>1, <2>2, <3>3, <4>1, <4>3, PresenceAssumption
    <3> QED BY <3>1, <3>2, <3>3
  <2> QED BY <2>3 DEF LeaseHonoured
<1>4. CASE Elapse
  <2>1. ASSUME NEW u \in Threads, NEW p \in Presences, granted'[u][p] > 0
        PROVE  lease'[p].holder = Host[u] /\ lease'[p].left >= granted'[u][p]
    <3>1. granted'[u][p] = IF granted[u][p] = 0 THEN 0 ELSE granted[u][p] - 1
      BY <1>4 DEF Elapse
    <3>2. granted[u][p] \in 0..LeaseTtl /\ lease[p].left \in 0..LeaseTtl
      BY <1>1
    <3>3. granted[u][p] > 1 /\ granted'[u][p] = granted[u][p] - 1
      BY <2>1, <3>1, <3>2
    <3>4. lease[p].holder = Host[u] /\ lease[p].left >= granted[u][p]
      BY <3>2, <3>3 DEF LeaseHonoured
    <3>5. lease[p].left > 1
      BY <3>2, <3>3, <3>4
    <3>6. lease'[p] = [lease[p] EXCEPT !.left = @ - 1]
      BY <1>4, <3>2, <3>5 DEF Elapse
    <3> QED BY <1>1, <3>2, <3>3, <3>4, <3>6
  <2> QED BY <2>1 DEF LeaseHonoured
<1> QED BY <1>2, <1>3, <1>4, LeasesElsewhere

(* A process that was granted a lease is its only holder until the time it *)
(* was granted for is over, whatever crashes, fails or is answered late.   *)
THEOREM LeaseSafe == Spec => []LeaseHonoured
<1>1. Init => LeaseHonoured
  BY DEF Init, LeaseHonoured
<1>2. IInv /\ LeaseHonoured /\ [Next]_vars => LeaseHonoured'
  BY LeasesHold
<1> QED BY <1>1, <1>2, AlwaysFit, PTL DEF Spec

---------------------------------------------------------------------------
Handed(d, p, q) ==
  /\ owner[d] = p /\ owner' = [owner EXCEPT ![d] = q]
  /\ members' = [members EXCEPT ![p] = @ \ {d}, ![q] = @ \union {d}]
  /\ inbox' = [inbox EXCEPT ![q] = @ \union {d}]
  /\ UNCHANGED content
Written(d, p, v) ==
  /\ owner[d] \in {None, p} /\ owner' = [owner EXCEPT ![d] = p]
  /\ members' = [members EXCEPT ![p] = @ \union {d}]
  /\ content' = [content EXCEPT ![d] = v]
  /\ UNCHANGED inbox

(* What any step does to particles is a hand-over, a write, or nothing.    *)
LEMMA ParticleSteps ==
  ASSUME IInv, [Next]_vars
  PROVE  \/ UNCHANGED <<owner, content, members, inbox>>
         \/ \E d \in Particles, p \in Presences : \E q \in Presences \ {p} : Handed(d, p, q)
         \/ \E d \in Particles, p \in Presences, pos \in Positions : Written(d, p, <<p, pos>>)
<1>1. ASSUME NEW t \in Threads, thread[t].pc \in RowPcs
      PROVE  /\ Current(t) \in Presences /\ thread[t].row \in Particles
             /\ \E pos \in Positions : thread[t].view[thread[t].row] = <<Current(t), pos>>
             /\ At(t, "handoff") => thread[t].seen \in Presences \ {Current(t)}
  <2>1. Shape(thread[t]) /\ Current(t) \in Presences /\ Current(t) = Least(thread[t].todo)
    BY <1>1, CurrentIn DEF RowPcs
  <2>2. /\ thread[t].row \in Particles /\ thread[t].view[thread[t].row] \in Presences \X Positions
        /\ thread[t].view[thread[t].row][1] = Current(t)
    BY <1>1, <2>1 DEF Shape, RowPcs, States
  <2> QED BY <2>1, <2>2 DEF Shape, At
<1>2. ASSUME NEW t \in Threads, Handoff(t)
      PROVE  \/ UNCHANGED <<owner, content, members, inbox>>
             \/ \E d \in Particles, p \in Presences : \E q \in Presences \ {p} : Handed(d, p, q)
  <2>1. /\ Current(t) \in Presences /\ thread[t].row \in Particles
        /\ thread[t].seen \in Presences /\ Current(t) \in Presences \ {thread[t].seen}
    BY <1>1, <1>2 DEF Handoff, At, RowPcs
  <2>2. \/ UNCHANGED <<owner, content, members, inbox>>
        \/ Handed(thread[t].row, thread[t].seen, Current(t))
    BY <1>2 DEF Handoff, Handed
  <2> QED BY <2>1, <2>2
<1>3. ASSUME NEW t \in Threads, Upsert(t)
      PROVE  \/ UNCHANGED <<owner, content, members, inbox>>
             \/ \E d \in Particles, p \in Presences, pos \in Positions : Written(d, p, <<p, pos>>)
  <2>1. /\ Current(t) \in Presences /\ thread[t].row \in Particles
        /\ \E pos \in Positions : thread[t].view[thread[t].row] = <<Current(t), pos>>
    BY <1>1, <1>3 DEF Upsert, RowPcs
  <2>2. \/ UNCHANGED <<owner, content, members, inbox>>
        \/ Written(thread[t].row, Current(t), thread[t].view[thread[t].row])
    BY <1>3 DEF Upsert, Written
  <2> QED BY <2>1, <2>2
<1> QED BY <1>2, <1>3
        DEF Next, vars, storage, particles, local, Begin, Sync, Lease, GetVer, CasVars, Row,
            RowsDone, GetOwner, RegetOwner, Mark, Raise, LoseReply, Crash, Restart, Elapse

(* Two keys, changed by one script, never disagree.                        *)
THEOREM IndexSafe == Spec => []IndexAgrees
<1>1. Init => IndexAgrees
  BY NoneIsApart DEF Init, IndexAgrees
<1>2. IInv /\ IndexAgrees /\ [Next]_vars => IndexAgrees'
  <2> SUFFICES ASSUME IInv, IndexAgrees, [Next]_vars PROVE IndexAgrees'
    OBVIOUS
  <2>1. /\ members \in [Presences -> SUBSET Particles]
        /\ owner \in [Particles -> Presences \union {None}]
    BY DEF IInv, TypeOK
  <2>2. CASE UNCHANGED <<owner, members>>
    BY <2>2 DEF IndexAgrees
  <2>3. ASSUME NEW d \in Particles, NEW p \in Presences, NEW q \in Presences \ {p}, Handed(d, p, q)
        PROVE  IndexAgrees'
    <3>1. ASSUME NEW x \in Presences
          PROVE  members'[x] = {e \in Particles : owner'[e] = x}
      <4>1. members[x] = {e \in Particles : owner[e] = x}
        BY DEF IndexAgrees
      <4>2. members'[x] = IF x = q THEN members[x] \union {d}
                          ELSE IF x = p THEN members[x] \ {d} ELSE members[x]
        BY <2>1, <2>3 DEF Handed
      <4>3. \A e \in Particles : owner'[e] = IF e = d THEN q ELSE owner[e]
        BY <2>1, <2>3 DEF Handed
      <4> QED BY <2>3, <4>1, <4>2, <4>3 DEF Handed
    <3> QED BY <3>1 DEF IndexAgrees
  <2>4. ASSUME NEW d \in Particles, NEW p \in Presences, NEW v, Written(d, p, v)
        PROVE  IndexAgrees'
    <3>1. ASSUME NEW x \in Presences
          PROVE  members'[x] = {e \in Particles : owner'[e] = x}
      <4>1. members[x] = {e \in Particles : owner[e] = x}
        BY DEF IndexAgrees
      <4>2. members'[x] = IF x = p THEN members[x] \union {d} ELSE members[x]
        BY <2>1, <2>4 DEF Written
      <4>3. \A e \in Particles : owner'[e] = IF e = d THEN p ELSE owner[e]
        BY <2>1, <2>4 DEF Written
      <4>4. owner[d] \in {None, p} /\ None \notin Presences
        BY <2>4, NoneIsApart DEF Written
      <4> QED BY <4>1, <4>2, <4>3, <4>4
    <3> QED BY <3>1 DEF IndexAgrees
  <2> QED BY <2>2, <2>3, <2>4, ParticleSteps
<1> QED BY <1>1, <1>2, AlwaysFit, PTL DEF Spec

(* A state that names another presence than the owner is one the owner was *)
(* told of and has yet to write.                                           *)
THEOREM StateSafe == Spec => []StateFollowsOwner
<1>1. Init => StateFollowsOwner
  BY DEF Init, StateFollowsOwner
<1>2. IInv /\ StateFollowsOwner /\ [Next]_vars => StateFollowsOwner'
  <2> SUFFICES ASSUME IInv, StateFollowsOwner, [Next]_vars, NEW e \in Particles,
                      content'[e] # None, content'[e][1] # owner'[e]
               PROVE  e \in inbox'[owner'[e]]
    BY DEF StateFollowsOwner
  <2>1. /\ owner \in [Particles -> Presences \union {None}]
        /\ content \in [Particles -> States \union {None}]
        /\ inbox \in [Presences -> SUBSET Particles]
    BY DEF IInv, TypeOK
  <2>2. CASE UNCHANGED <<owner, content, inbox>>
    BY <2>2 DEF StateFollowsOwner
  <2>3. ASSUME NEW d \in Particles, NEW p \in Presences, NEW q \in Presences \ {p}, Handed(d, p, q)
        PROVE  e \in inbox'[owner'[e]]
    <3>1. CASE e = d
      BY <2>1, <2>3, <3>1 DEF Handed
    <3>2. CASE e # d
      <4>1. owner'[e] = owner[e] /\ content'[e] = content[e]
        BY <2>1, <2>3, <3>2 DEF Handed
      <4>2. e \in inbox[owner[e]]
        BY <4>1 DEF StateFollowsOwner
      <4>3. inbox' = [inbox EXCEPT ![q] = @ \union {d}]
        BY <2>3 DEF Handed
      <4>4. CASE owner[e] = q
        BY <2>1, <4>1, <4>2, <4>3, <4>4
      <4>5. CASE owner[e] # q
        BY <2>1, <4>1, <4>2, <4>3, <4>5
      <4> QED BY <4>4, <4>5
    <3> QED BY <3>1, <3>2
  <2>4. ASSUME NEW d \in Particles, NEW p \in Presences, NEW pos \in Positions,
               Written(d, p, <<p, pos>>)
        PROVE  e \in inbox'[owner'[e]]
    <3>1. CASE e = d
      BY <2>1, <2>4, <3>1 DEF Written
    <3>2. CASE e # d
      <4>1. owner'[e] = owner[e] /\ content'[e] = content[e] /\ inbox' = inbox
        BY <2>1, <2>4, <3>2 DEF Written
      <4> QED BY <4>1 DEF StateFollowsOwner
    <3> QED BY <3>1, <3>2
  <2> QED BY <2>2, <2>3, <2>4, ParticleSteps
<1> QED BY <1>1, <1>2, AlwaysFit, PTL DEF Spec

(* Every step of every sync is a step of the registry, or none.            *)
THEOREM Implements == Spec => RegistrySpec
<1>1. Init => Registry!Init
  BY DEF Init, Registry!Init
<1>2. IInv /\ [Next]_vars => [Registry!Next]_<<owner, content, inbox>>
  <2> SUFFICES ASSUME IInv, [Next]_vars
               PROVE  [Registry!Next]_<<owner, content, inbox>>
    OBVIOUS
  <2>1. CASE UNCHANGED <<owner, content, members, inbox>>
    BY <2>1
  <2>2. ASSUME NEW d \in Particles, NEW p \in Presences, NEW q \in Presences \ {p}, Handed(d, p, q)
        PROVE  Registry!Next
    BY <2>2 DEF Handed, Registry!Next, Registry!HandOver
  <2>3. ASSUME NEW d \in Particles, NEW p \in Presences, NEW pos \in Positions,
               Written(d, p, <<p, pos>>)
        PROVE  Registry!Next
    BY <2>3 DEF Written, Registry!Next, Registry!Write
  <2> QED BY <2>1, <2>2, <2>3, ParticleSteps
<1> QED BY <1>1, <1>2, AlwaysFit, PTL DEF Spec, RegistrySpec, Registry!Spec

---------------------------------------------------------------------------
(* What a process remembers of its writes                                  *)

(* The threads of S that have a write to remember are the same, with the   *)
(* same row.                                                               *)
SameMarks(S) ==
  \A u \in S : /\ At(u, "mark")' <=> At(u, "mark")
               /\ At(u, "mark") => /\ thread'[u].row = thread[u].row
                                   /\ thread'[u].view = thread[u].view

Stores(t) ==
  /\ ~At(t, "mark") /\ At(t, "mark")'
  /\ thread'[t].row = thread[t].row /\ thread'[t].view = thread[t].view
  /\ thread[t].row \in Particles
  /\ content' = [content EXCEPT ![thread[t].row] = thread[t].view[thread[t].row]]
  /\ lastBy' = [lastBy EXCEPT ![thread[t].row] = Host[t]]
  /\ SameMarks(Threads \ {t}) /\ UNCHANGED print

Remembers(t) ==
  /\ At(t, "mark") /\ ~At(t, "mark")'
  /\ thread[t].row \in Particles
  /\ print' = [print EXCEPT ![Host[t]][thread[t].row] = thread[t].view[thread[t].row]]
  /\ SameMarks(Threads \ {t}) /\ UNCHANGED <<content, lastBy>>

Forgets(i) ==
  /\ print' = [print EXCEPT ![i] = [d \in Particles |-> None]]
  /\ \A u \in Threads : Host[u] = i => ~At(u, "mark")'
  /\ SameMarks({u \in Threads : Host[u] # i}) /\ UNCHANGED <<content, lastBy>>

(* One thread goes from a place to another, neither of which is the reply  *)
(* of a write.                                                             *)
LEMMA MovesOn ==
  ASSUME IInv, NEW t \in Threads, NEW r, r.pc # "mark",
         thread' = [thread EXCEPT ![t] = r]
  PROVE  SameMarks(Threads \ {t}) /\ ~At(t, "mark")'
BY DEF IInv, TypeOK, SameMarks, At

(* Losing a version is no other change.                                    *)
LEMMA LosingMarks ==
  ASSUME IInv, NEW t \in Threads, NEW r,
         \/ \E p : thread' = [u \in Threads |-> IF u = t THEN r ELSE LoseVars(u, p)]
         \/ \E d : thread' = [u \in Threads |-> IF u = t THEN r ELSE LoseRow(u, d)]
  PROVE  SameMarks(Threads \ {t}) /\ thread'[t] = r
<1>1. ASSUME NEW u \in Threads, NEW f, NEW n, n = [thread[u] EXCEPT !.fresh = f]
      PROVE  n.pc = thread[u].pc /\ n.row = thread[u].row /\ n.view = thread[u].view
  BY <1>1 DEF IInv, TypeOK, ThreadState
<1>2. \A u \in Threads \ {t} : \E f : thread'[u] = [thread[u] EXCEPT !.fresh = f]
  BY DEF LoseVars, LoseRow
<1>3. \A u \in Threads \ {t} : /\ thread'[u].pc = thread[u].pc
                               /\ thread'[u].row = thread[u].row
                               /\ thread'[u].view = thread[u].view
  <2> TAKE u \in Threads \ {t}
  <2>1. PICK f : thread'[u] = [thread[u] EXCEPT !.fresh = f]
    BY <1>2
  <2> QED BY <1>1, <2>1
<1>4. thread'[t] = r
  OBVIOUS
<1> QED BY <1>3, <1>4 DEF SameMarks, At

(* What any step does to the writes remembered, and to those to be.        *)
LEMMA MarkSteps ==
  ASSUME IInv, ~RepliesLost, [Next]_vars
  PROVE  \/ SameMarks(Threads) /\ UNCHANGED <<print, content, lastBy>>
         \/ \E t \in Threads : Stores(t) \/ Remembers(t)
         \/ \E i \in Instances : Forgets(i)
<1> DEFINE Same == SameMarks(Threads) /\ UNCHANGED <<print, content, lastBy>>
<1>0. /\ \A t \in Threads : thread[t] \in ThreadState
      /\ thread \in [Threads -> ThreadState]
  BY DEF IInv, TypeOK
<1>1. ASSUME NEW t \in Threads, ~At(t, "mark"), NEW r, r.pc # "mark",
             \/ thread' = [thread EXCEPT ![t] = r]
             \/ \E p : thread' = [u \in Threads |-> IF u = t THEN r ELSE LoseVars(u, p)]
             \/ \E d : thread' = [u \in Threads |-> IF u = t THEN r ELSE LoseRow(u, d)]
      PROVE  SameMarks(Threads)
  <2>1. SameMarks(Threads \ {t}) /\ ~At(t, "mark")'
    BY <1>1, MovesOn, LosingMarks DEF At
  <2> QED BY <1>1, <2>1 DEF SameMarks
<1>2. ASSUME NEW t \in Threads,
             Begin(t) \/ Lease(t) \/ GetVer(t) \/ CasVars(t) \/ Row(t) \/ RowsDone(t)
             \/ GetOwner(t) \/ Handoff(t) \/ RegetOwner(t) \/ Raise(t)
      PROVE  Same
  <2>1. ~At(t, "mark") /\ UNCHANGED <<print, content, lastBy>>
    BY <1>2 DEF Begin, Lease, GetVer, CasVars, Row, RowsDone, GetOwner, Handoff, RegetOwner,
                Raise, At, ScriptPcs, storage, local, particles
  <2>2. \E r : /\ r.pc # "mark"
               /\ \/ thread' = [thread EXCEPT ![t] = r]
                  \/ \E p : thread' = [u \in Threads |-> IF u = t THEN r ELSE LoseVars(u, p)]
                  \/ \E d : thread' = [u \in Threads |-> IF u = t THEN r ELSE LoseRow(u, d)]
    <3>1. CASE Begin(t) \/ Raise(t)
      BY <3>1 DEF Begin, Raise, Idle
    <3>2. CASE Lease(t)
      <4>1. PICK A : thread' = [thread EXCEPT ![t] = AfterLease(t, A)]
        BY <3>2 DEF Lease
      <4>2. AfterLease(t, A).pc # "mark"
        BY <1>0, <3>2 DEF Lease, At, AfterLease, Idle, ThreadState
      <4> QED BY <4>1, <4>2
    <3>3. CASE GetVer(t) \/ RegetOwner(t) \/ RowsDone(t)
      BY <1>0, <3>3 DEF GetVer, RegetOwner, RowsDone, ThreadState, Idle, At
    <3>4. CASE CasVars(t)
      <4>1. Rows(t).pc # "mark" /\ [thread[t] EXCEPT !.pc = "reget"].pc # "mark"
        BY <1>0 DEF Rows, ThreadState
      <4> QED BY <3>4, <4>1 DEF CasVars
    <3>5. CASE Row(t)
      BY <1>0, <3>5 DEF Row, ThreadState, At
    <3>6. CASE GetOwner(t)
      <4>1. PICK seen, c : /\ thread' = [thread EXCEPT ![t].seen = seen, ![t].fresh = TRUE,
                                                       ![t].pc = c]
                           /\ c \in {"upsert", "handoff"}
        BY <3>6 DEF GetOwner
      <4> DEFINE r == [thread[t] EXCEPT !.seen = seen, !.fresh = TRUE, !.pc = c]
      <4>2. thread' = [thread EXCEPT ![t] = r] /\ r.pc = c
        BY <1>0, <4>1 DEF ThreadState
      <4> QED BY <4>1, <4>2
    <3>7. CASE Handoff(t)
      <4>1. /\ NextRow(t).pc # "mark"
            /\ [thread[t] EXCEPT !.pc = "upsert", !.fresh = TRUE].pc # "mark"
        BY <1>0 DEF NextRow, ThreadState
      <4>2. \/ thread' = [thread EXCEPT ![t] = NextRow(t)]
            \/ thread' = [u \in Threads |->
                             IF u = t THEN [thread[t] EXCEPT !.pc = "upsert", !.fresh = TRUE]
                             ELSE LoseRow(u, thread[t].row)]
        BY <3>7 DEF Handoff
      <4> QED BY <4>1, <4>2
    <3> QED BY <1>2, <3>1, <3>2, <3>3, <3>4, <3>5, <3>6, <3>7
  <2> QED BY <1>1, <2>1, <2>2
<1>3. ASSUME NEW t \in Threads, Upsert(t) PROVE Same \/ Stores(t)
  <2>1. ~At(t, "mark") /\ UNCHANGED print /\ thread[t].row \in Particles
    BY <1>3, CurrentIn DEF Upsert, At, local, Shape, RowPcs
  <2>2. CASE /\ UNCHANGED <<content, lastBy>>
             /\ thread' = [thread EXCEPT ![t] = NextRow(t)] \/ Goto(t, "reowner")
    <3>1. NextRow(t).pc # "mark" /\ [thread[t] EXCEPT !.pc = "reowner"].pc # "mark"
      BY <1>0 DEF NextRow, ThreadState
    <3>2. \/ thread' = [thread EXCEPT ![t] = NextRow(t)]
          \/ thread' = [thread EXCEPT ![t] = [thread[t] EXCEPT !.pc = "reowner"]]
      BY <1>0, <2>2 DEF Goto
    <3>3. SameMarks(Threads)
      BY <1>1, <2>1, <3>1, <3>2
    <3>4. UNCHANGED <<print, content, lastBy>>
      BY <2>1, <2>2
    <3> QED BY <3>3, <3>4
  <2>3. ASSUME content' = [content EXCEPT ![thread[t].row] = thread[t].view[thread[t].row]],
               lastBy' = [lastBy EXCEPT ![thread[t].row] = Host[t]],
               thread' = [u \in Threads |-> IF u = t THEN [thread[t] EXCEPT !.pc = "mark"]
                                            ELSE LoseRow(u, thread[t].row)]
        PROVE  Stores(t)
    <3>1. SameMarks(Threads \ {t}) /\ thread'[t] = [thread[t] EXCEPT !.pc = "mark"]
      BY <2>3, LosingMarks
    <3>2. At(t, "mark")' /\ thread'[t].row = thread[t].row /\ thread'[t].view = thread[t].view
      BY <1>0, <3>1 DEF At, ThreadState
    <3> QED BY <2>1, <2>3, <3>1, <3>2 DEF Stores
  <2> QED BY <1>3, <2>2, <2>3 DEF Upsert
<1>4. ASSUME NEW t \in Threads, Mark(t) PROVE Remembers(t)
  <2>1. [NextRow(t) EXCEPT !.wrote = @ + 1].pc # "mark"
    BY <1>0 DEF NextRow, ThreadState
  <2>2. SameMarks(Threads \ {t}) /\ ~At(t, "mark")'
    BY <1>4, <2>1, MovesOn DEF Mark
  <2>3. thread[t].row \in Particles
    BY <1>4, CurrentIn DEF Mark, At, Shape, RowPcs
  <2> QED BY <1>4, <2>2, <2>3 DEF Mark, Remembers, storage
<1>5. ASSUME NEW i \in Instances, Crash(i) PROVE Forgets(i)
  BY <1>0, <1>5 DEF Crash, Forgets, SameMarks, At, Idle, storage
<1>6. CASE Elapse \/ (\E i \in Instances : Restart(i)) \/ UNCHANGED vars
  BY <1>6 DEF Elapse, Restart, vars, storage, particles, local, SameMarks, At
<1>7. \A t \in Threads : ~LoseReply(t)
  BY DEF LoseReply
<1> QED BY <1>2, <1>3, <1>4, <1>5, <1>6, <1>7 DEF Next, Sync

(* A reply on its way back is of a write that the storage still has, or    *)
(* that another process has written over.                                  *)
MarksMeant ==
  \A t \in Threads : At(t, "mark") =>
    /\ thread[t].row \in Particles
    /\ \/ content[thread[t].row] = thread[t].view[thread[t].row]
       \/ lastBy[thread[t].row] # Host[t]

(* A process drops a row as written only if the storage has it so, or      *)
(* another process has written the particle since, provided that one of    *)
(* its threads builds simulations and that no reply is lost.               *)
THEOREM DedupeSafe ==
  ASSUME ~RepliesLost, \A t, u \in Threads : Host[t] = Host[u] => t = u
  PROVE  Spec => []DedupeSound
<1>1. Init => MarksMeant /\ DedupeSound
  BY DEF Init, MarksMeant, DedupeSound, At, Idle
<1>2. IInv /\ MarksMeant /\ DedupeSound /\ [Next]_vars => MarksMeant' /\ DedupeSound'
  <2> SUFFICES ASSUME IInv, MarksMeant, DedupeSound, [Next]_vars
               PROVE  MarksMeant' /\ DedupeSound'
    OBVIOUS
  <2>0. /\ content \in [Particles -> States \union {None}]
        /\ lastBy \in [Particles -> Instances \union {None}]
        /\ print \in [Instances -> [Particles -> States \union {None}]]
        /\ Host \in [Threads -> Instances]
    BY PresenceAssumption DEF IInv, TypeOK
  <2>1. CASE SameMarks(Threads) /\ UNCHANGED <<print, content, lastBy>>
    <3>1. MarksMeant'
      BY <2>1 DEF SameMarks, MarksMeant, At
    <3>2. DedupeSound'
      BY <2>1 DEF SameMarks, DedupeSound, At
    <3> QED BY <3>1, <3>2
  <2>2. ASSUME NEW t \in Threads, Stores(t) PROVE MarksMeant' /\ DedupeSound'
    <3> DEFINE d == thread[t].row
    <3>1. /\ content' = [content EXCEPT ![d] = thread[t].view[d]] /\ d \in Particles
          /\ lastBy' = [lastBy EXCEPT ![d] = Host[t]] /\ print' = print
          /\ At(t, "mark")' /\ thread'[t].row = d /\ thread'[t].view = thread[t].view
      BY <2>2 DEF Stores
    <3>2. \A u \in Threads \ {t} : /\ At(u, "mark")' <=> At(u, "mark")
                                   /\ At(u, "mark") => /\ thread'[u].row = thread[u].row
                                                       /\ thread'[u].view = thread[u].view
      BY <2>2 DEF Stores, SameMarks
    <3> HIDE DEF d
    <3>3. ASSUME NEW u \in Threads, At(u, "mark")'
          PROVE  /\ thread'[u].row \in Particles
                 /\ \/ content'[thread'[u].row] = thread'[u].view[thread'[u].row]
                    \/ lastBy'[thread'[u].row] # Host[u]
      <4>1. CASE u = t
        BY <2>0, <3>1, <4>1
      <4>2. CASE u # t
        <5>1. /\ At(u, "mark") /\ thread'[u].row = thread[u].row
              /\ thread'[u].view = thread[u].view /\ Host[u] # Host[t]
          BY <3>2, <3>3, <4>2 DEF At
        <5>2. /\ thread[u].row \in Particles
              /\ \/ content[thread[u].row] = thread[u].view[thread[u].row]
                 \/ lastBy[thread[u].row] # Host[u]
          BY <5>1 DEF MarksMeant
        <5> QED BY <2>0, <3>1, <5>1, <5>2
      <4> QED BY <4>1, <4>2
    <3>4. ASSUME NEW i \in Instances, NEW e \in Particles
          PROVE  \/ print'[i][e] = None \/ print'[i][e] = content'[e] \/ lastBy'[e] # i
                 \/ \E u \in Threads : Host[u] = i /\ At(u, "mark")' /\ thread'[u].row = e
      <4>1. CASE e = d
        BY <2>0, <3>1, <4>1
      <4>2. CASE e # d
        <5>1. print'[i][e] = print[i][e] /\ content'[e] = content[e] /\ lastBy'[e] = lastBy[e]
          BY <2>0, <3>1, <4>2
        <5>2. ~At(t, "mark")
          BY <2>2 DEF Stores
        <5> QED BY <3>2, <5>1, <5>2 DEF DedupeSound, At
      <4> QED BY <4>1, <4>2
    <3> QED BY <3>3, <3>4 DEF MarksMeant, DedupeSound, At
  <2>3. ASSUME NEW t \in Threads, Remembers(t) PROVE MarksMeant' /\ DedupeSound'
    <3> DEFINE d == thread[t].row
    <3>1. /\ print' = [print EXCEPT ![Host[t]][d] = thread[t].view[d]] /\ d \in Particles
          /\ content' = content /\ lastBy' = lastBy /\ At(t, "mark") /\ ~At(t, "mark")'
      BY <2>3 DEF Remembers
    <3>2. \A u \in Threads \ {t} : /\ At(u, "mark")' <=> At(u, "mark")
                                   /\ At(u, "mark") => /\ thread'[u].row = thread[u].row
                                                       /\ thread'[u].view = thread[u].view
      BY <2>3 DEF Remembers, SameMarks
    <3>3. content[d] = thread[t].view[d] \/ lastBy[d] # Host[t]
      BY <3>1 DEF MarksMeant
    <3>4. MarksMeant'
      <4>1. \A u \in Threads : At(u, "mark")' =>
               /\ u # t /\ At(u, "mark")
               /\ thread'[u].row = thread[u].row /\ thread'[u].view = thread[u].view
        BY <3>1, <3>2 DEF At
      <4> QED BY <3>1, <4>1 DEF MarksMeant, At
    <3> HIDE DEF d
    <3>5. ASSUME NEW i \in Instances, NEW e \in Particles
          PROVE  \/ print'[i][e] = None \/ print'[i][e] = content'[e] \/ lastBy'[e] # i
                 \/ \E u \in Threads : Host[u] = i /\ At(u, "mark")' /\ thread'[u].row = e
      <4>1. CASE i = Host[t] /\ e = d
        BY <2>0, <3>1, <3>3, <4>1
      <4>2. CASE ~(i = Host[t] /\ e = d)
        <5>1. print'[i][e] = print[i][e]
          BY <2>0, <3>1, <4>2
        <5>2. \A u \in Threads : Host[u] = i /\ At(u, "mark") /\ thread[u].row = e => u # t
          BY <4>2 DEF d
        <5> QED BY <3>1, <3>2, <5>1, <5>2 DEF DedupeSound, At
      <4> QED BY <4>1, <4>2
    <3> QED BY <3>4, <3>5 DEF DedupeSound, At
  <2>4. ASSUME NEW i \in Instances, Forgets(i) PROVE MarksMeant' /\ DedupeSound'
    <3>1. \A u \in Threads : At(u, "mark")' =>
             /\ Host[u] # i /\ At(u, "mark")
             /\ thread'[u].row = thread[u].row /\ thread'[u].view = thread[u].view
      BY <2>4 DEF Forgets, SameMarks
    <3>2. MarksMeant'
      BY <2>4, <3>1 DEF MarksMeant, At, Forgets
    <3>3. \A j \in Instances, e \in Particles :
             print'[j][e] = IF j = i THEN None ELSE print[j][e]
      BY <2>0, <2>4 DEF Forgets
    <3>4. ASSUME NEW j \in Instances, NEW e \in Particles
          PROVE  \/ print'[j][e] = None \/ print'[j][e] = content'[e] \/ lastBy'[e] # j
                 \/ \E u \in Threads : Host[u] = j /\ At(u, "mark")' /\ thread'[u].row = e
      <4>1. CASE j # i
        <5>1. \A u \in Threads : Host[u] = j /\ At(u, "mark") =>
                 At(u, "mark")' /\ thread'[u].row = thread[u].row
          BY <2>4, <4>1 DEF Forgets, SameMarks
        <5> QED BY <2>4, <3>3, <4>1, <5>1 DEF DedupeSound, Forgets
      <4> QED BY <3>3, <4>1
    <3> QED BY <3>2, <3>4 DEF DedupeSound, At
  <2> QED BY <2>1, <2>2, <2>3, <2>4, MarkSteps
<1> QED BY <1>1, <1>2, AlwaysFit, PTL DEF Spec
===========================================================================
