--------------------------- MODULE CDBEngine_proofs ---------------------------
(* The safety of the engine, for any choice and any order of its systems.      *)
EXTENDS CDBEngine, TLAPS

-----------------------------------------------------------------------------
(* The tables of what a task loads and flips                                   *)

LEMMA LoadsTable ==
    ASSUME NEW t \in Tasks
    PROVE  /\ Len(Loads[t]) \in 0..4
           /\ t # "update_nooi" => Len(Loads[t]) > 0
           /\ \A i \in 1..Len(Loads[t]) : Loads[t][i] \in Buffers
  <1> USE DEF Buffers
  <1>1. CASE t = "force"
    <2>1. Loads[t] = <<"position", "nooi">>
      BY <1>1 DEF Loads
    <2> QED  BY <2>1
  <1>2. CASE t = "chaos"
    <2>1. Loads[t] = <<"position">>
      BY <1>2 DEF Loads
    <2> QED  BY <2>1
  <1>3. CASE t = "semantic"
    <2>1. Loads[t] = <<"position", "velocity", "noise">>
      BY <1>3 DEF Loads
    <2> QED  BY <2>1
  <1>4. CASE t = "integrate"
    <2>1. Loads[t] = <<"position", "velocity", "acceleration", "noise">>
      BY <1>4 DEF Loads
    <2> QED  BY <2>1
  <1>5. CASE t = "snapshot"
    <2>1. Loads[t] = <<"position", "velocity", "action_prob", "particle_metrics">>
      BY <1>5 DEF Loads
    <2> QED  BY <2>1
  <1>6. CASE t = "update_nooi"
    <2>1. Loads[t] = <<>>
      BY <1>6 DEF Loads
    <2> QED  BY <1>6, <2>1
  <1> QED  BY <1>1, <1>2, <1>3, <1>4, <1>5, <1>6 DEF Tasks, Systems, Calls

LEMMA WritesTable ==
    ASSUME NEW t \in Tasks
    PROVE  /\ Len(Writes[t]) \in 0..2 /\ DOMAIN Writes[t] = 1..Len(Writes[t])
           /\ (Writes[t] = <<>>) = (t = "snapshot")
           /\ t # "snapshot" => Len(Writes[t]) > 0 /\ Head(Writes[t]) = Writes[t][1]
           /\ \A i \in 1..Len(Writes[t]) : Writes[t][i] \in Buffers
  <1>1. /\ Len(Writes[t]) \in 0..2 /\ DOMAIN Writes[t] = 1..Len(Writes[t])
        /\ t # "snapshot" => Len(Writes[t]) > 0 /\ Head(Writes[t]) = Writes[t][1]
    BY DEF Tasks, Systems, Calls, Writes
  <1>2. (Writes[t] = <<>>) = (t = "snapshot")
    BY DEF Tasks, Systems, Calls, Writes
  <1>3. \A i \in 1..Len(Writes[t]) : Writes[t][i] \in Buffers
    BY DEF Tasks, Systems, Calls, Writes, Buffers
  <1> QED  BY <1>1, <1>2, <1>3

\* Every buffer is flipped by one task, at one place.
LEMMA OneOwner ==
    ASSUME NEW s \in Tasks, NEW t \in Tasks,
           NEW i \in 1..Len(Writes[s]), NEW j \in 1..Len(Writes[t]),
           Writes[s][i] = Writes[t][j]
    PROVE  s = t /\ i = j
  BY DEF Tasks, Systems, Calls, Writes

LEMMA TasksSplit ==
    /\ Tasks = Systems \cup Calls /\ Systems \cap Calls = {}
    /\ "snapshot" \in Calls /\ "update_nooi" \in Calls
    /\ {"none", "starting", "idle", "ending"} \cap Calls = {}
    /\ \A c \in Calls : c \in {"snapshot", "update_nooi"}
  BY DEF Tasks, Systems, Calls

\* The systems that start, each at its place.
LEMMA Order ==
    /\ Len(StartOrder) \in Nat \ {0}
    /\ \A i \in 1..Len(StartOrder) : StartOrder[i] \in Systems
    /\ \A i, j \in 1..Len(StartOrder) : StartOrder[i] = StartOrder[j] => i = j
    /\ DOMAIN StartOrder = 1..Len(StartOrder)
  BY StartOrderAssumption DEF IsInjective

-----------------------------------------------------------------------------
(* The inductive invariant                                                     *)

\* A counter of loads or flips stays inside its table.
InRange ==
    \A t \in Tasks :
        /\ pc[t] = "load" => at[t] \in 1..Len(Loads[t])
        /\ pc[t] = "flip" => at[t] \in 1..Len(Writes[t])

\* The body of an API call runs exactly during the call.
CallsAt ==
    /\ \A c \in Calls : (call = c) = (pc[c] # "off")
    /\ pc["snapshot"] \in {"off", "load", "pass"}
    /\ pc["update_nooi"] \in {"off", "pass", "flip"}

\* The systems that run are those made and not joined, which the call tells.
Live == {StartOrder[i] : i \in (joined + 1)..made}
ThreadsAt ==
    /\ call = "none" => made = 0
    /\ call = "starting" => made < Len(StartOrder)
    /\ call # "ending" => joined = 0
    /\ joined <= made
    /\ \A t \in Systems : (pc[t] # "off") = (t \in Live)

\* The slots of one owner: all hidden from the start of a pass to its first flip,
\* then flipped one by one, and otherwise alike.
HalfFlipped ==
    \A t \in Tasks : \A i, j \in 1..Len(Writes[t]) :
        /\ pc[t] \in {"load", "pass"} => readable[Writes[t][i]] # wslot[t]
        /\ pc[t] = "flip" => (readable[Writes[t][i]] = wslot[t]) = (i < at[t])
        /\ pc[t] # "flip" => readable[Writes[t][i]] = readable[Writes[t][j]]

IInv == TypeOK /\ InRange /\ CallsAt /\ ThreadsAt /\ HalfFlipped

LEMMA InitFits == Init => IInv
  <1> SUFFICES ASSUME Init PROVE IInv
    OBVIOUS
  <1> USE DEF Init
  <1>1. TypeOK
    <2>1. /\ "off" \in Phases /\ 0 \in Slots /\ 1 \in 1..4
          /\ 0 \in 0..Len(StartOrder)
      BY Order DEF Slots, Phases
    <2> QED
      BY <2>1 DEF TypeOK
  <1>2. InRange /\ CallsAt /\ HalfFlipped
    <2>1. \A t \in Tasks : \A i \in 1..Len(Writes[t]) : readable[Writes[t][i]] = 0
      BY WritesTable
    <2> QED
      BY <2>1, TasksSplit DEF InRange, CallsAt, HalfFlipped
  <1>3. ThreadsAt
    <2>1. Live = {}
      BY DEF Live
    <2> QED
      BY <2>1, TasksSplit DEF ThreadsAt
  <1> QED
    BY <1>1, <1>2, <1>3 DEF IInv

\* The system that is made or joined next.
LEMMA NextSystem ==
    ASSUME IInv
    PROVE  /\ made \in 0..Len(StartOrder) /\ joined \in 0..made
           /\ call = "starting" =>
                 /\ made + 1 \in 1..Len(StartOrder) /\ joined = 0
                 /\ StartOrder[made + 1] \in Systems /\ StartOrder[made + 1] \in Tasks
           /\ joined < made =>
                 /\ joined + 1 \in 1..Len(StartOrder)
                 /\ StartOrder[joined + 1] \in Systems /\ StartOrder[joined + 1] \in Tasks
  <1>1. /\ made \in 0..Len(StartOrder) /\ joined \in 0..Len(StartOrder) /\ joined <= made
        /\ call = "starting" => made < Len(StartOrder) /\ joined = 0
        /\ Len(StartOrder) \in Nat
    BY Order DEF IInv, TypeOK, ThreadsAt
  <1>2. /\ joined \in 0..made
        /\ call = "starting" => made + 1 \in 1..Len(StartOrder)
        /\ joined < made => joined + 1 \in 1..Len(StartOrder)
    BY <1>1
  <1> QED
    BY <1>1, <1>2, Order, TasksSplit

-----------------------------------------------------------------------------
(* Types                                                                       *)

LEMMA HiddenType == ASSUME TypeOK, NEW t \in Tasks PROVE Hidden(t) \in Slots
  BY WritesTable DEF TypeOK, Hidden, Slots

LEMMA EnterType ==
    ASSUME TypeOK, NEW t \in Tasks, NEW phase \in Phases, Enter(t, phase)
    PROVE  pc' \in [Tasks -> Phases] /\ at' \in [Tasks -> 1..4]
  BY DEF TypeOK, Enter

LEMMA StepTypes == ASSUME IInv, [Next]_vars PROVE TypeOK'
  <1> USE DEF IInv
  <1>1. /\ "check" \in Phases /\ "load" \in Phases /\ "pass" \in Phases
        /\ "flip" \in Phases /\ "off" \in Phases /\ "exited" \in Phases
    BY DEF Phases
  <1>2. ASSUME NEW t \in Tasks, Check(t) PROVE TypeOK'
    <2>1. wslot' \in [Tasks -> Slots]
      BY <1>2, HiddenType DEF Check, TypeOK, Slots
    <2>2. pc' \in [Tasks -> Phases] /\ at' \in [Tasks -> 1..4]
      BY <1>1, <1>2, EnterType DEF Check
    <2> QED
      BY <1>2, <2>1, <2>2 DEF Check, TypeOK
  <1>3. ASSUME NEW t \in Tasks, Load(t) PROVE TypeOK'
    <2>1. at[t] \in 1..Len(Loads[t]) /\ Len(Loads[t]) \in 0..4
      BY <1>3, LoadsTable DEF Load, InRange
    <2>2. Loads[t][at[t]] \in Buffers
      BY <2>1, LoadsTable
    <2>3. held' \in [Tasks -> SUBSET (Buffers \X Slots)]
      BY <1>3, <2>2 DEF Load, TypeOK
    <2>4. pc' \in [Tasks -> Phases] /\ at' \in [Tasks -> 1..4]
      <3>1. CASE at[t] < Len(Loads[t])
        <4>1. at \in [Tasks -> 1..4] /\ pc \in [Tasks -> Phases]
          BY DEF TypeOK
        <4>2. at[t] + 1 \in 1..4
          <5>1. \A n \in 0..4 : \A k \in 1..n : k < n => k + 1 \in 1..4
            OBVIOUS
          <5> QED
            BY <2>1, <3>1, <5>1
        <4>3. at' = [at EXCEPT ![t] = at[t] + 1] /\ UNCHANGED pc
          BY <1>3, <3>1 DEF Load
        <4> QED
          BY <4>1, <4>2, <4>3
      <3>2. CASE ~(at[t] < Len(Loads[t]))
        BY <1>1, <1>3, <3>2, EnterType DEF Load
      <3> QED
        BY <3>1, <3>2
    <2> QED
      BY <1>3, <2>3, <2>4 DEF Load, TypeOK
  <1>4. ASSUME NEW t \in Tasks, EndPass(t) PROVE TypeOK'
    BY <1>1, <1>4, EnterType DEF EndPass, TypeOK
  <1>5. ASSUME NEW t \in Tasks, Flip(t) PROVE TypeOK'
    <2>1. at[t] \in 1..Len(Writes[t]) /\ Len(Writes[t]) \in 0..2
      BY <1>5, WritesTable DEF Flip, InRange
    <2>2. readable' \in [Buffers -> Slots]
      BY <1>5, <2>1, WritesTable DEF Flip, TypeOK
    <2>3. pc' \in [Tasks -> Phases] /\ at' \in [Tasks -> 1..4]
      <3>1. CASE at[t] = Len(Writes[t])
        BY <1>1, <1>5, <3>1, EnterType DEF Flip
      <3>2. CASE at[t] # Len(Writes[t])
        BY <1>5, <2>1, <3>2 DEF Flip, TypeOK
      <3> QED
        BY <3>1, <3>2
    <2> QED
      BY <1>5, <2>2, <2>3 DEF Flip, TypeOK
  <1>6. CASE Ensure \/ MakeThreadFails \/ Stop
    BY <1>6 DEF Ensure, MakeThreadFails, Stop, TypeOK, Slots
  <1>7. CASE MakeThread
    <2>1. made + 1 \in 1..Len(StartOrder) /\ StartOrder[made + 1] \in Tasks
      BY <1>7, NextSystem DEF MakeThread
    <2>2. made' \in 0..Len(StartOrder)
      BY <1>7, <2>1, Order DEF MakeThread
    <2> QED
      BY <1>1, <1>7, <2>1, <2>2, EnterType DEF MakeThread, TypeOK
  <1>8. CASE Join
    <2>1. joined + 1 \in 1..Len(StartOrder) /\ StartOrder[joined + 1] \in Tasks
      BY <1>8, NextSystem DEF Join
    <2>2. joined' \in 0..Len(StartOrder)
      BY <1>8, <2>1, Order DEF Join
    <2> QED
      BY <1>1, <1>8, <2>1, <2>2, EnterType DEF Join, TypeOK
  <1>9. CASE Destroy
    BY <1>9, Order DEF Destroy, TypeOK
  <1>10. CASE Snapshot \/ SnapshotReturns \/ UpdateNooi
    BY <1>1, <1>10, EnterType, TasksSplit, HiddenType
    DEF Snapshot, SnapshotReturns, UpdateNooi, TypeOK
  <1>11. CASE UNCHANGED vars
    BY <1>11 DEF vars, TypeOK
  <1> QED
    BY <1>2, <1>3, <1>4, <1>5, <1>6, <1>7, <1>8, <1>9, <1>10, <1>11
    DEF Next, Step, Return

-----------------------------------------------------------------------------
(* Places in the tables, and the body of an API call                           *)

LEMMA StepRange == ASSUME IInv, [Next]_vars PROVE InRange'
  <1> USE DEF IInv
  <1>1. ASSUME NEW t \in Tasks, Step(t) PROVE InRange'
    <2>1. /\ Len(Loads[t]) \in 0..4 /\ Len(Writes[t]) \in 0..2
          /\ Writes[t] # <<>> => Len(Writes[t]) > 0
          /\ pc[t] = "check" => Len(Loads[t]) > 0
      BY LoadsTable, WritesTable DEF CallsAt
    <2>2. at \in [Tasks -> 1..4] /\ pc \in [Tasks -> Phases]
      BY DEF TypeOK
    <2>3. CASE Check(t)
      BY <2>1, <2>2, <2>3 DEF Check, Enter, InRange
    <2>4. CASE Load(t)
      <3>1. at[t] \in 1..Len(Loads[t])
        BY <2>4 DEF Load, InRange
      <3>2. CASE at[t] < Len(Loads[t])
        BY <2>1, <2>2, <2>4, <3>1, <3>2 DEF Load, InRange
      <3>3. CASE ~(at[t] < Len(Loads[t]))
        BY <2>2, <2>4, <3>3 DEF Load, Enter, InRange
      <3> QED
        BY <3>2, <3>3
    <2>5. CASE EndPass(t)
      BY <2>1, <2>2, <2>5 DEF EndPass, Enter, InRange
    <2>6. CASE Flip(t)
      <3>1. at[t] \in 1..Len(Writes[t])
        BY <2>6 DEF Flip, InRange
      <3>2. CASE at[t] = Len(Writes[t])
        BY <2>2, <2>6, <3>2 DEF Flip, Enter, InRange
      <3>3. CASE at[t] # Len(Writes[t])
        BY <2>1, <2>2, <2>6, <3>1, <3>3 DEF Flip, InRange
      <3> QED
        BY <3>2, <3>3
    <2> QED
      BY <1>1, <2>3, <2>4, <2>5, <2>6 DEF Step
  <1>2. CASE Ensure \/ MakeThreadFails \/ Stop \/ Destroy \/ UNCHANGED vars
    BY <1>2 DEF Ensure, MakeThreadFails, Stop, Destroy, vars, InRange
  <1>3. CASE MakeThread \/ Join
    <2>1. PICK t \in Tasks, phase \in {"check", "off"} : Enter(t, phase)
      BY <1>3, NextSystem DEF MakeThread, Join
    <2> QED
      BY <2>1 DEF Enter, InRange, TypeOK
  <1>4. CASE Snapshot \/ SnapshotReturns \/ UpdateNooi
    <2>1. at \in [Tasks -> 1..4] /\ pc \in [Tasks -> Phases]
      BY DEF TypeOK
    <2>2. CASE Snapshot
      <3>1. Len(Loads["snapshot"]) \in 0..4 /\ Len(Loads["snapshot"]) > 0
        BY LoadsTable, TasksSplit
      <3>2. 1 \in 1..Len(Loads["snapshot"])
        BY <3>1
      <3> QED
        BY <2>1, <2>2, <3>2 DEF Snapshot, Enter, InRange
    <2>3. CASE SnapshotReturns \/ UpdateNooi
      BY <2>1, <2>3 DEF SnapshotReturns, UpdateNooi, Enter, InRange
    <2> QED
      BY <1>4, <2>2, <2>3
  <1> QED
    BY <1>1, <1>2, <1>3, <1>4 DEF Next, Return

\* A system's thread is between its start and its join, and leaves calls alone.
LEMMA SystemStep ==
    ASSUME IInv, NEW t \in Systems, Step(t)
    PROVE  /\ pc[t] # "off" /\ pc'[t] # "off"
           /\ \A s \in Tasks \ {t} : pc'[s] = pc[s]
           /\ UNCHANGED <<running, call, made, joined>>
  BY TasksSplit DEF IInv, TypeOK, Step, Check, Load, EndPass, Flip, Enter

LEMMA StepCalls == ASSUME IInv, [Next]_vars PROVE CallsAt'
  <1> USE TasksSplit DEF IInv, CallsAt, TypeOK
  <1>1. ASSUME NEW t \in Systems, Step(t) PROVE CallsAt'
    BY <1>1, SystemStep
  <1>2. ASSUME Step("snapshot") PROVE CallsAt'
    BY <1>2, WritesTable DEF Step, Check, Load, EndPass, Flip, Enter
  <1>3. ASSUME Step("update_nooi") PROVE CallsAt'
    BY <1>3 DEF Step, Check, Load, EndPass, Flip, Enter
  <1>4. CASE Ensure \/ MakeThreadFails \/ Stop \/ Destroy \/ UNCHANGED vars
    BY <1>4 DEF Ensure, MakeThreadFails, Stop, Destroy, vars
  <1>5. CASE MakeThread
    <2>1. StartOrder[made + 1] \in Systems
      BY <1>5, NextSystem DEF MakeThread
    <2> QED
      BY <1>5, <2>1 DEF MakeThread, Enter
  <1>6. CASE Join
    <2>1. StartOrder[joined + 1] \in Systems
      BY <1>6, NextSystem DEF Join
    <2> QED
      BY <1>6, <2>1 DEF Join, Enter
  <1>7. CASE Snapshot \/ SnapshotReturns \/ UpdateNooi
    BY <1>7 DEF Snapshot, SnapshotReturns, UpdateNooi, Enter
  <1> QED
    BY <1>1, <1>2, <1>3, <1>4, <1>5, <1>6, <1>7 DEF Next, Return

-----------------------------------------------------------------------------
(* The systems that run                                                        *)

\* A step of an API call leaves the systems alone.
LEMMA CallStep ==
    ASSUME IInv, \/ \E c \in Calls : Step(c)
                 \/ Snapshot \/ SnapshotReturns \/ UpdateNooi
    PROVE  /\ \A t \in Systems : pc'[t] = pc[t]
           /\ UNCHANGED <<made, joined>>
           /\ call \notin {"none", "starting", "ending"}
           /\ call' \notin {"none", "starting", "ending"}
  <1> USE TasksSplit DEF IInv, CallsAt, TypeOK
  <1>1. ASSUME Step("snapshot") PROVE call = "snapshot" /\ call' = "snapshot"
    BY <1>1, WritesTable DEF Step, Check, Load, EndPass, Flip, Enter
  <1>2. ASSUME Step("update_nooi")
        PROVE call = "update_nooi" /\ call' \in {"update_nooi", "idle"}
    BY <1>2 DEF Step, Check, Load, EndPass, Flip, Enter
  <1>3. ASSUME NEW c \in Calls, Step(c)
        PROVE (\A t \in Systems : pc'[t] = pc[t]) /\ UNCHANGED <<made, joined>>
    BY <1>3 DEF Step, Check, Load, EndPass, Flip, Enter
  <1>4. CASE Snapshot \/ UpdateNooi
    BY <1>4 DEF Snapshot, UpdateNooi, Enter
  <1>5. CASE SnapshotReturns
    BY <1>5 DEF SnapshotReturns, Enter
  <1> QED
    BY <1>1, <1>2, <1>3, <1>4, <1>5

LEMMA StepThreads == ASSUME IInv, [Next]_vars PROVE ThreadsAt'
  <1>0. /\ ThreadsAt /\ made \in 0..Len(StartOrder) /\ joined \in 0..made
        /\ pc \in [Tasks -> Phases] /\ Len(StartOrder) \in Nat
    BY NextSystem, Order DEF IInv, TypeOK
  <1>1. ASSUME UNCHANGED <<call, made, joined>>, \A t \in Systems : (pc'[t] # "off") = (pc[t] # "off")
        PROVE ThreadsAt'
    <2>1. Live' = Live
      BY <1>1 DEF Live
    <2> QED
      BY <1>0, <1>1, <2>1 DEF ThreadsAt
  <1>2. ASSUME NEW t \in Systems, Step(t) PROVE ThreadsAt'
    BY <1>1, <1>2, SystemStep, TasksSplit
  <1>3. CASE \/ \E c \in Calls : Step(c)
             \/ Snapshot \/ SnapshotReturns \/ UpdateNooi
    <2>1. Live' = Live
      BY <1>3, CallStep DEF Live
    <2> QED
      BY <1>0, <1>3, <2>1, CallStep DEF ThreadsAt
  <1>4. CASE Ensure \/ MakeThreadFails \/ Stop
    <2>1. UNCHANGED <<pc, made, joined>> /\ call' \in {"starting", "ending"}
      BY <1>4 DEF Ensure, MakeThreadFails, Stop
    <2>2. Live' = Live
      BY <2>1 DEF Live
    <2>3. call' = "starting" => made = 0 /\ joined = 0
      BY <1>0, <1>4 DEF Ensure, MakeThreadFails, Stop, ThreadsAt
    <2> QED
      BY <1>0, <2>1, <2>2, <2>3, Order DEF ThreadsAt
  <1>5. CASE MakeThread
    <2> DEFINE s == StartOrder[made + 1]
    <2>1. /\ call = "starting" /\ joined = 0 /\ made' = made + 1 /\ joined' = 0
          /\ made + 1 \in 1..Len(StartOrder) /\ s \in Systems
          /\ call' = IF made + 1 = Len(StartOrder) THEN "idle" ELSE "starting"
          /\ pc' = [pc EXCEPT ![s] = "check"]
      BY <1>5, NextSystem DEF MakeThread, Enter
    <2>2. Live' = Live \cup {s}
      <3>1. (joined' + 1)..made' = ((joined + 1)..made) \cup {made + 1}
        BY <1>0, <2>1
      <3> QED
        BY <2>1, <3>1 DEF Live
    <2>3. \A t \in Systems : (pc'[t] # "off") = (t \in Live')
      BY <1>0, <2>1, <2>2, TasksSplit DEF ThreadsAt
    <2> QED
      BY <1>0, <2>1, <2>3 DEF ThreadsAt
  <1>6. CASE Join
    <2> DEFINE s == StartOrder[joined + 1]
    <2>1. /\ call = "ending" /\ call' = call /\ made' = made /\ joined' = joined + 1
          /\ joined < made /\ joined + 1 \in 1..Len(StartOrder) /\ s \in Systems
          /\ pc' = [pc EXCEPT ![s] = "off"]
      BY <1>6, NextSystem DEF Join, Enter
    <2>2. Live' = Live \ {s}
      <3>1. (joined' + 1)..made' = ((joined + 1)..made) \ {joined + 1}
        BY <1>0, <2>1
      <3>2. \A i \in (joined + 1)..made : StartOrder[i] = s => i = joined + 1
        BY <1>0, <2>1, Order
      <3> QED
        BY <2>1, <3>1, <3>2 DEF Live
    <2>3. \A t \in Systems : (pc'[t] # "off") = (t \in Live')
      BY <1>0, <2>1, <2>2, TasksSplit DEF ThreadsAt
    <2> QED
      BY <1>0, <2>1, <2>3 DEF ThreadsAt
  <1>7. CASE Destroy
    <2>1. joined = made /\ made' = 0 /\ joined' = 0 /\ call' = "none" /\ pc' = pc
      BY <1>7 DEF Destroy
    <2>2. Live = {} /\ Live' = {}
      BY <1>0, <2>1 DEF Live
    <2> QED
      BY <1>0, <2>1, <2>2 DEF ThreadsAt
  <1>8. CASE UNCHANGED vars
    BY <1>1, <1>8 DEF vars
  <1> QED
    BY <1>2, <1>3, <1>4, <1>5, <1>6, <1>7, <1>8, TasksSplit DEF Next, Return

-----------------------------------------------------------------------------
(* The two flips of an owner                                                   *)

\* HalfFlipped of a task whose slots and phase a step leaves alone.
LEMMA Untouched ==
    ASSUME IInv, NEW t \in Tasks,
           \A i \in 1..Len(Writes[t]) : readable'[Writes[t][i]] = readable[Writes[t][i]],
           UNCHANGED <<pc[t], at[t], wslot[t]>>,
           NEW i \in 1..Len(Writes[t]), NEW j \in 1..Len(Writes[t])
    PROVE  /\ pc'[t] \in {"load", "pass"} => readable'[Writes[t][i]] # wslot'[t]
           /\ pc'[t] = "flip" => (readable'[Writes[t][i]] = wslot'[t]) = (i < at'[t])
           /\ pc'[t] # "flip" => readable'[Writes[t][i]] = readable'[Writes[t][j]]
  BY DEF IInv, HalfFlipped

\* A step that flips nothing and changes the phase of one task at most.
LEMMA NoFlip ==
    ASSUME IInv, UNCHANGED readable, NEW t \in Tasks,
           \A s \in Tasks \ {t} : UNCHANGED <<pc[s], at[s], wslot[s]>>,
           pc[t] # "flip",
           \/ pc'[t] \in {"off", "check", "exited"}
           \/ /\ pc'[t] \in {"load", "pass"}
              /\ Writes[t] # <<>> => wslot'[t] = 1 - readable[Writes[t][1]]
           \/ pc[t] \in {"load", "pass"} /\ pc'[t] \in {"load", "pass"} /\ UNCHANGED wslot[t]
           \/ pc[t] = "pass" /\ pc'[t] = "flip" /\ at'[t] = 1 /\ UNCHANGED wslot[t]
    PROVE  HalfFlipped'
  <1>1. \A s \in Tasks \ {t} : \A i, j \in 1..Len(Writes[s]) :
           /\ pc'[s] \in {"load", "pass"} => readable'[Writes[s][i]] # wslot'[s]
           /\ pc'[s] = "flip" => (readable'[Writes[s][i]] = wslot'[s]) = (i < at'[s])
           /\ pc'[s] # "flip" => readable'[Writes[s][i]] = readable'[Writes[s][j]]
    BY Untouched
  <1>2. SUFFICES ASSUME NEW i \in 1..Len(Writes[t]), NEW j \in 1..Len(Writes[t])
        PROVE  /\ pc'[t] \in {"load", "pass"} => readable'[Writes[t][i]] # wslot'[t]
               /\ pc'[t] = "flip" => (readable'[Writes[t][i]] = wslot'[t]) = (i < at'[t])
               /\ pc'[t] # "flip" => readable'[Writes[t][i]] = readable'[Writes[t][j]]
    BY <1>1 DEF HalfFlipped
  <1>3. /\ Writes[t] # <<>> /\ 1 \in 1..Len(Writes[t]) /\ Len(Writes[t]) \in 0..2
        /\ readable[Writes[t][i]] \in Slots /\ readable[Writes[t][1]] \in Slots
    <2>1. Writes[t] # <<>> /\ Len(Writes[t]) \in 0..2 /\ 1 \in 1..Len(Writes[t])
      BY WritesTable
    <2> QED
      BY <2>1, WritesTable DEF IInv, TypeOK
  <1>4. /\ readable[Writes[t][i]] = readable[Writes[t][j]]
        /\ readable[Writes[t][i]] = readable[Writes[t][1]]
        /\ pc[t] \in {"load", "pass"} => readable[Writes[t][i]] # wslot[t]
    BY <1>3 DEF IInv, HalfFlipped
  <1>5. ~(i < 1)
    BY <1>3
  <1>6. \A b \in Slots : b # 1 - b
    BY DEF Slots
  <1> QED
    BY <1>3, <1>4, <1>5, <1>6

LEMMA StepHalves == ASSUME IInv, [Next]_vars PROVE HalfFlipped'
  <1>0. /\ pc \in [Tasks -> Phases] /\ at \in [Tasks -> 1..4] /\ wslot \in [Tasks -> Slots]
        /\ readable \in [Buffers -> Slots] /\ HalfFlipped
    BY DEF IInv, TypeOK
  <1>1. ASSUME NEW t \in Tasks, Check(t) PROVE HalfFlipped'
    <2>1. Writes[t] # <<>> => Hidden(t) = 1 - readable[Writes[t][1]]
      BY WritesTable DEF Hidden
    <2> QED
      BY <1>0, <1>1, <2>1, NoFlip DEF Check, Enter
  <1>2. ASSUME NEW t \in Tasks, Load(t) PROVE HalfFlipped'
    BY <1>0, <1>2, NoFlip DEF Load, Enter
  <1>3. ASSUME NEW t \in Tasks, EndPass(t) PROVE HalfFlipped'
    BY <1>0, <1>3, NoFlip DEF EndPass, Enter
  <1>4. ASSUME NEW t \in Tasks, Flip(t) PROVE HalfFlipped'
    <2>1. /\ at[t] \in 1..Len(Writes[t]) /\ Len(Writes[t]) \in 0..2
          /\ Writes[t][at[t]] \in Buffers
      BY <1>4, WritesTable DEF Flip, InRange, IInv
    <2>2. SUFFICES ASSUME NEW s \in Tasks,
                          NEW i \in 1..Len(Writes[s]), NEW j \in 1..Len(Writes[s])
          PROVE  /\ pc'[s] \in {"load", "pass"} => readable'[Writes[s][i]] # wslot'[s]
                 /\ pc'[s] = "flip" => (readable'[Writes[s][i]] = wslot'[s]) = (i < at'[s])
                 /\ pc'[s] # "flip" => readable'[Writes[s][i]] = readable'[Writes[s][j]]
      BY DEF HalfFlipped
    <2>3. CASE s # t
      <3>1. \A k \in 1..Len(Writes[s]) : readable'[Writes[s][k]] = readable[Writes[s][k]]
        BY <1>4, <2>1, <2>3, OneOwner DEF Flip
      <3>2. UNCHANGED <<pc[s], at[s], wslot[s]>>
        BY <1>0, <1>4, <2>3 DEF Flip, Enter
      <3> QED
        BY <3>1, <3>2, Untouched
    <2>4. CASE s = t
      <3>1. \A k \in 1..Len(Writes[t]) : readable'[Writes[t][k]]
               = IF k = at[t] THEN wslot[t] ELSE readable[Writes[t][k]]
        <4>1. \A k \in 1..Len(Writes[t]) : Writes[t][k] \in Buffers
          BY WritesTable
        <4> QED
          BY <1>0, <1>4, <2>1, <4>1, OneOwner DEF Flip
      <3>2. \A k \in 1..Len(Writes[t]) : (readable[Writes[t][k]] = wslot[t]) = (k < at[t])
        BY <1>4, <1>0 DEF Flip, HalfFlipped
      <3>3. \A k \in 1..Len(Writes[t]) : (readable'[Writes[t][k]] = wslot[t]) = (k <= at[t])
        BY <2>1, <3>1, <3>2
      <3>4. wslot' = wslot
        BY <1>4 DEF Flip
      <3>5. CASE at[t] = Len(Writes[t])
        <4>1. pc'[t] \in {"off", "check"}
          BY <1>0, <1>4, <3>5 DEF Flip, Enter
        <4>2. \A k \in 1..Len(Writes[t]) : readable'[Writes[t][k]] = wslot[t]
          BY <2>1, <3>3, <3>5
        <4> QED
          BY <2>4, <4>1, <4>2
      <3>6. CASE at[t] # Len(Writes[t])
        <4>1. pc'[t] = "flip" /\ at'[t] = at[t] + 1
          BY <1>0, <1>4, <3>6 DEF Flip
        <4>2. (i <= at[t]) = (i < at[t] + 1)
          BY <2>1, <2>4
        <4> QED
          BY <2>4, <3>3, <3>4, <4>1, <4>2
      <3> QED
        BY <3>5, <3>6
    <2> QED
      BY <2>3, <2>4
  <1>5. CASE Ensure
    <2>1. \A t \in Tasks : pc'[t] = "off"
      BY <1>5, TasksSplit DEF Ensure, IInv, CallsAt, ThreadsAt, Live
    <2>2. \A t \in Tasks : \A i \in 1..Len(Writes[t]) : readable'[Writes[t][i]] = 0
      BY <1>5, WritesTable DEF Ensure
    <2> QED
      BY <2>1, <2>2 DEF HalfFlipped
  <1>6. CASE MakeThreadFails \/ Stop \/ Destroy \/ UNCHANGED vars
    <2>1. UNCHANGED <<readable, pc, at, wslot>>
      BY <1>6 DEF MakeThreadFails, Stop, Destroy, vars
    <2> QED
      BY <1>0, <2>1 DEF HalfFlipped
  <1>7. CASE MakeThread
    <2>1. StartOrder[made + 1] \in Tasks /\ StartOrder[made + 1] \in Systems
      BY <1>7, NextSystem DEF MakeThread
    <2>2. pc[StartOrder[made + 1]] = "off"
      <3>1. /\ made + 1 \in 1..Len(StartOrder) /\ joined = 0 /\ made \in 0..Len(StartOrder)
        BY <1>7, NextSystem DEF MakeThread
      <3>2. StartOrder[made + 1] \notin Live
        BY <3>1, Order DEF Live
      <3> QED
        BY <2>1, <3>2 DEF IInv, ThreadsAt
    <2> QED
      BY <1>0, <1>7, <2>1, <2>2, NoFlip DEF MakeThread, Enter
  <1>8. CASE Join
    <2>1. StartOrder[joined + 1] \in Tasks
      BY <1>8, NextSystem DEF Join
    <2> QED
      BY <1>0, <1>8, <2>1, NoFlip DEF Join, Enter
  <1>9. CASE Snapshot \/ SnapshotReturns
    <2>1. "snapshot" \in Tasks /\ Writes["snapshot"] = <<>> /\ pc["snapshot"] # "flip"
      BY TasksSplit, WritesTable DEF IInv, CallsAt
    <2> QED
      BY <1>0, <1>9, <2>1, NoFlip DEF Snapshot, SnapshotReturns, Enter
  <1>10. CASE UpdateNooi
    <2>1. /\ "update_nooi" \in Tasks /\ pc["update_nooi"] = "off"
          /\ Hidden("update_nooi") = 1 - readable[Writes["update_nooi"][1]]
      BY <1>10, TasksSplit, WritesTable DEF UpdateNooi, IInv, CallsAt, Hidden
    <2> QED
      BY <1>0, <1>10, <2>1, NoFlip DEF UpdateNooi, Enter
  <1> QED
    BY <1>1, <1>2, <1>3, <1>4, <1>5, <1>6, <1>7, <1>8, <1>9, <1>10 DEF Next, Step, Return

-----------------------------------------------------------------------------
(* The theorems                                                                *)

LEMMA Inductive == Spec => []IInv
  <1>1. IInv /\ [Next]_vars => IInv'
    BY StepTypes, StepRange, StepCalls, StepThreads, StepHalves DEF IInv
  <1> QED
    BY InitFits, <1>1, PTL DEF Spec

\* The indices, the slots in use and the counts of threads of
\* c_double_buffer_sim.c keep their types.
THEOREM Types == Spec => []TypeOK
  <1>1. IInv => TypeOK
    BY DEF IInv
  <1> QED
    BY <1>1, Inductive, PTL

\* A pass never writes a slot that a reader arriving now would be given: the
\* write_index that integrate_system and semantic_system take from their first
\* buffer is hidden in their second one too, and in no buffer did another flip it.
THEOREM HiddenWrites == Spec => []WritesHidden
  <1>1. IInv => WritesHidden
    <2> SUFFICES ASSUME IInv, NEW t \in Tasks, NEW w \in Writing(t)
                 PROVE  readable[w[1]] # w[2]
      BY DEF WritesHidden
    <2>1. pc[t] = "pass" /\ w \in ToSet(Writes[t]) \X {wslot[t]}
      BY DEF Writing
    <2>2. PICK i \in 1..Len(Writes[t]) : w[1] = Writes[t][i] /\ w[2] = wslot[t]
      BY <2>1, WritesTable DEF ToSet
    <2> QED
      BY <2>1, <2>2 DEF IInv, HalfFlipped
  <1> QED
    BY <1>1, Inductive, PTL

\* Position and velocity, and the two outputs of the semantic pass, come from one
\* slot except between the two stores of their owner.
THEOREM AlignedPairs == Spec => []PairsAligned
  <1>1. IInv => PairsAligned
    BY WritesTable, TasksSplit DEF IInv, HalfFlipped, PairsAligned
  <1> QED
    BY <1>1, Inductive, PTL

\* cdb_engine_destroy frees the buffers when no thread is left, also after a
\* cdb_engine_start that failed half way, and joins every thread once.
THEOREM EngineOutlives == Spec => []NothingOutlivesEngine
  <1>1. IInv => NothingOutlivesEngine
    <2> SUFFICES ASSUME IInv PROVE NothingOutlivesEngine
      OBVIOUS
    <2>1. made \in 0..Len(StartOrder) /\ joined \in 0..made /\ Len(StartOrder) \in Nat
      BY NextSystem, Order
    <2>2. ASSUME call = "none", NEW t \in Tasks PROVE pc[t] = "off"
      <3>1. Live = {}
        BY <2>1, <2>2 DEF IInv, ThreadsAt, Live
      <3> QED
        BY <2>2, <3>1, TasksSplit DEF IInv, ThreadsAt, CallsAt
    <2>3. ASSUME NEW i \in DOMAIN StartOrder
          PROVE  pc[StartOrder[i]] # "off" <=> joined < i /\ i <= made
      <3>1. i \in 1..Len(StartOrder) /\ StartOrder[i] \in Systems
        BY Order
      <3>2. StartOrder[i] \in Live <=> i \in (joined + 1)..made
        BY <2>1, <3>1, Order DEF Live
      <3>3. i \in (joined + 1)..made <=> joined < i /\ i <= made
        BY <2>1, <3>1
      <3> QED
        BY <3>1, <3>2, <3>3 DEF IInv, ThreadsAt
    <2> QED
      BY <2>2, <2>3 DEF NothingOutlivesEngine
  <1> QED
    BY <1>1, Inductive, PTL
=============================================================================
