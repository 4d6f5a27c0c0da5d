------------------------------ MODULE CDBEngine ------------------------------
(* The threads and double buffers of native/c_double_buffer_sim.c, driven by   *)
(* the Python handle _CDBEngine, whose lock lets one API call run at a time.   *)
(*                                                                             *)
(* An atomic load or store of a `readable` index is one step; a pass over the  *)
(* particles is the interval between two steps, in which the slots that the    *)
(* thread reads and the slots that it writes are in use.                       *)
EXTENDS Integers, Sequences, SequencesExt

CONSTANT StartOrder     \* the system threads, in the order cdb_engine_start makes them

Systems == {"force", "chaos", "semantic", "integrate"}
ASSUME StartOrderAssumption ==
    /\ StartOrder \in Seq(Systems) /\ IsInjective(StartOrder) /\ StartOrder # <<>>

Buffers == {"position", "velocity", "acceleration", "noise", "action_prob",
            "particle_metrics", "nooi"}
Calls   == {"snapshot", "update_nooi"}
Tasks   == Systems \cup Calls

\* The readable indices a task loads, in order, before its pass.
Loads == [force       |-> <<"position", "nooi">>,
          chaos       |-> <<"position">>,
          semantic    |-> <<"position", "velocity", "noise">>,
          integrate   |-> <<"position", "velocity", "acceleration", "noise">>,
          snapshot    |-> <<"position", "velocity", "action_prob", "particle_metrics">>,
          update_nooi |-> <<>>]

\* The buffers it owns, in the order it flips them after its pass.
Writes == [force       |-> <<"acceleration">>,
           chaos       |-> <<"noise">>,
           semantic    |-> <<"action_prob", "particle_metrics">>,
           integrate   |-> <<"position", "velocity">>,
           snapshot    |-> <<>>,
           update_nooi |-> <<"nooi">>]

VARIABLES
    running,    \* engine->running
    readable,   \* [Buffers -> {0, 1}]
    pc, at,     \* where a task is, and at which load or flip
    held,       \* the slots it loaded: a set of <<buffer, slot>>
    wslot,      \* its write_index
    call,       \* the API call under way
    made,       \* how many system threads exist that have not been joined
    joined      \* how many of them the call under way has joined

vars == <<running, readable, pc, at, held, wslot, call, made, joined>>

Slots  == {0, 1}
Phases == {"off", "check", "load", "pass", "flip", "exited"}

TypeOK ==
    /\ running \in BOOLEAN /\ readable \in [Buffers -> Slots]
    /\ pc \in [Tasks -> Phases] /\ at \in [Tasks -> 1..4]
    /\ held \in [Tasks -> SUBSET (Buffers \X Slots)] /\ wslot \in [Tasks -> Slots]
    /\ call \in {"none", "starting", "idle", "ending"} \cup Calls
    /\ made \in 0..Len(StartOrder) /\ joined \in 0..Len(StartOrder)

Init ==
    /\ running = FALSE /\ readable = [b \in Buffers |-> 0]
    /\ pc = [t \in Tasks |-> "off"] /\ at = [t \in Tasks |-> 1]
    /\ held = [t \in Tasks |-> {}] /\ wslot = [t \in Tasks |-> 0]
    /\ call = "none" /\ made = 0 /\ joined = 0

-----------------------------------------------------------------------------
(* One pass of a system thread, or of the body of an API call                  *)

\* Faulty: the slot after the readable one, without the wrap to the other.
UnwrappedHidden(t) == IF Writes[t] = <<>> THEN 0 ELSE readable[Head(Writes[t])] + 1

\* The slot that is not readable of the buffer t flips first; t alone flips it.
Hidden(t) == IF Writes[t] = <<>> THEN 0 ELSE 1 - readable[Head(Writes[t])]

Enter(t, phase) ==
    /\ pc' = [pc EXCEPT ![t] = phase]
    /\ at' = [at EXCEPT ![t] = 1]

\* while (running): the thread starts another pass or returns.
Check(t) ==
    /\ pc[t] = "check"
    /\ Enter(t, IF running THEN "load" ELSE "exited")
    /\ wslot' = [wslot EXCEPT ![t] = IF running THEN Hidden(t) ELSE 0]
    /\ UNCHANGED <<running, readable, held, call, made, joined>>

Load(t) ==
    LET b == Loads[t][at[t]]
    IN  /\ pc[t] = "load"
        /\ held' = [held EXCEPT ![t] = @ \cup {<<b, readable[b]>>}]
        /\ IF at[t] < Len(Loads[t])
           THEN at' = [at EXCEPT ![t] = @ + 1] /\ UNCHANGED pc
           ELSE Enter(t, "pass")
        /\ UNCHANGED <<running, readable, wslot, call, made, joined>>

\* The end of the pass of a task that owns buffers.
EndPass(t) ==
    /\ pc[t] = "pass" /\ Writes[t] # <<>>
    /\ Enter(t, "flip")
    /\ held' = [held EXCEPT ![t] = {}]
    /\ UNCHANGED <<running, readable, wslot, call, made, joined>>

\* Faulty: the thread stores only the index of its first buffer.
LoneFlip(t) ==
    /\ pc[t] = "flip"
    /\ readable' = [readable EXCEPT ![Head(Writes[t])] = wslot[t]]
    /\ Enter(t, IF t \in Calls THEN "off" ELSE "check")
    /\ call' = IF t \in Calls THEN "idle" ELSE call
    /\ UNCHANGED <<running, held, wslot, made, joined>>

Flip(t) ==
    LET b == Writes[t][at[t]]
        last == at[t] = Len(Writes[t])
    IN  /\ pc[t] = "flip"
        /\ readable' = [readable EXCEPT ![b] = wslot[t]]
        /\ IF last THEN Enter(t, IF t \in Calls THEN "off" ELSE "check")
                   ELSE at' = [at EXCEPT ![t] = @ + 1] /\ UNCHANGED pc
        /\ call' = IF last /\ t \in Calls THEN "idle" ELSE call
        /\ UNCHANGED <<running, held, wslot, made, joined>>

-----------------------------------------------------------------------------
(* The API calls                                                               *)

\* ensure(): cdb_engine_create, then cdb_engine_start sets running.
Ensure ==
    /\ call = "none"
    /\ call' = "starting" /\ running' = TRUE
    /\ readable' = [b \in Buffers |-> 0]
    /\ UNCHANGED <<pc, at, held, wslot, made, joined>>

\* pthread_create of the next system.
MakeThread ==
    /\ call = "starting"
    /\ made' = made + 1
    /\ Enter(StartOrder[made + 1], "check")
    /\ call' = IF made + 1 = Len(StartOrder) THEN "idle" ELSE "starting"
    /\ UNCHANGED <<running, readable, held, wslot, joined>>

\* Faulty: the systems made so far are left running.
AbandoningFails ==
    /\ call = "starting"
    /\ call' = "none" /\ running' = FALSE /\ made' = 0
    /\ UNCHANGED <<readable, pc, at, held, wslot, joined>>

\* Faulty: joins the systems made so far without telling them to end.
RunningFails ==
    /\ call = "starting"
    /\ call' = "ending"
    /\ UNCHANGED <<running, readable, pc, at, held, wslot, made, joined>>

\* pthread_create fails: running is cleared and the systems made so far joined.
MakeThreadFails ==
    /\ call = "starting"
    /\ call' = "ending" /\ running' = FALSE
    /\ UNCHANGED <<readable, pc, at, held, wslot, made, joined>>

\* close(), or ensure() for another particle count: cdb_engine_stop.
Stop ==
    /\ call = "idle"
    /\ call' = "ending" /\ running' = FALSE
    /\ UNCHANGED <<readable, pc, at, held, wslot, made, joined>>

Join ==
    LET t == StartOrder[joined + 1]
    IN  /\ call = "ending" /\ joined < made /\ pc[t] = "exited"
        /\ joined' = joined + 1
        /\ Enter(t, "off")
        /\ UNCHANGED <<running, readable, held, wslot, call, made>>

\* cdb_engine_destroy: every system is joined, the buffers are freed.
Destroy ==
    /\ call = "ending" /\ joined = made
    /\ call' = "none" /\ made' = 0 /\ joined' = 0
    /\ UNCHANGED <<running, readable, pc, at, held, wslot>>

Snapshot ==
    /\ call = "idle"
    /\ call' = "snapshot"
    /\ Enter("snapshot", "load")
    /\ UNCHANGED <<running, readable, held, wslot, made, joined>>

SnapshotReturns ==
    /\ pc["snapshot"] = "pass"
    /\ call' = "idle"
    /\ Enter("snapshot", "off")
    /\ held' = [held EXCEPT !["snapshot"] = {}]
    /\ UNCHANGED <<running, readable, wslot, made, joined>>

UpdateNooi ==
    /\ call = "idle"
    /\ call' = "update_nooi"
    /\ Enter("update_nooi", "pass")
    /\ wslot' = [wslot EXCEPT !["update_nooi"] = Hidden("update_nooi")]
    /\ UNCHANGED <<running, readable, held, made, joined>>

Step(t) == Check(t) \/ Load(t) \/ EndPass(t) \/ Flip(t)

Return == Join \/ Destroy \/ SnapshotReturns

Next ==
    \/ \E t \in Tasks : Step(t)
    \/ Ensure \/ MakeThread \/ MakeThreadFails \/ Stop \/ Snapshot \/ UpdateNooi
    \/ Return

Spec == Init /\ [][Next]_vars

\* The operating system runs every thread, and the API call under way goes on.
FairSpec == Spec /\ (\A t \in Tasks : WF_vars(Step(t))) /\ WF_vars(Return) /\ WF_vars(MakeThread)

-----------------------------------------------------------------------------
(* Properties                                                                  *)

Writing(t)  == IF pc[t] = "pass" THEN ToSet(Writes[t]) \X {wslot[t]} ELSE {}
Reading(t)  == IF pc[t] = "pass" THEN held[t] ELSE {}

\* A pass never writes a slot that a reader arriving now would be given, although
\* integrate and semantic compute one write_index for two buffers from the
\* readable index of the first.
WritesHidden ==
    \A t \in Tasks : \A w \in Writing(t) : readable[w[1]] # w[2]

\* Two buffers of one owner name the same slot except between its two flips.
PairsAligned ==
    \A t \in Systems : pc[t] # "flip" =>
        \A i, j \in DOMAIN Writes[t] : readable[Writes[t][i]] = readable[Writes[t][j]]

\* When the engine is freed no thread of it is left, and a system that was made
\* has exactly one join to come, also when cdb_engine_start failed half way.
NothingOutlivesEngine ==
    /\ call = "none" => \A t \in Tasks : pc[t] = "off"
    /\ \A i \in DOMAIN StartOrder :
          pc[StartOrder[i]] # "off" <=> joined < i /\ i <= made

\* A stop, or a start that failed, frees the engine in the end.
EndingEnds == call = "ending" ~> call = "none"

\* "Each system reads only readable buffers and writes only its owned writable
\* buffer": no slot is read by one task while another writes it.
NoSharedSlot ==
    \A r, w \in Systems : r # w => Reading(r) \cap Writing(w) = {}
=============================================================================
