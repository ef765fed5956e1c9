--------------------------- MODULE AcquisitionSession ---------------------------
(****************************************************************************)
(* The data of a Stage 7C measurement acquisition and the pure functions on *)
(* it: plans, slots, sessions, measurement records, the measurement store,  *)
(* and what MeasurementAcquisitionSession computes from them                *)
(* (agentir-policy-eval/src/acquisition.rs).  No state of its own: the      *)
(* modules Acquisition and Recovery put these values in variables.          *)
(*                                                                          *)
(* A content hash is modelled by the content itself, so two records have    *)
(* the same measurement hash exactly when they are equal.  As in            *)
(* measurement_hash, the identity of a record is not part of its hash.      *)
(****************************************************************************)
EXTENDS Naturals, Sequences, FiniteSets

CONSTANTS
    Plans,           \* plans; a plan's hash determines its session_id
    Artifacts,       \* artifact hashes of the server-owned catalog
    PlanArtifacts,   \* plan -> its sorted, duplicate-free artifact hashes
    PlanRounds,      \* plan -> records_per_artifact
    PlanConfig,      \* plan -> benchmark_config
    Configs,         \* benchmark configurations
    Devices,         \* device fingerprint hashes
    Builds,          \* compiler build hashes
    PlanBuild,       \* the build every plan of the catalog was made with
    Timings,         \* what a benchmark may measure
    NoHash           \* an absent measurement_hash

ASSUME PlansAssumption ==
    /\ PlanArtifacts \in [Plans -> Seq(Artifacts)]
    /\ \A p \in Plans : Len(PlanArtifacts[p]) > 0
    /\ PlanRounds \in [Plans -> Nat \ {0}]
    /\ PlanConfig \in [Plans -> Configs]
    /\ PlanBuild \in Builds

\* Slots a plan has, and their zero-based indices.
TotalSlots(p) == Len(PlanArtifacts[p]) * PlanRounds[p]
SlotIndices(p) == 0 .. TotalSlots(p) - 1

\* Round robin: every round visits the artifacts in their sorted order.
PlannedArtifact(p, i) == PlanArtifacts[p][(i % Len(PlanArtifacts[p])) + 1]

\* What the executor's preflight reports of the machine.  The runtime version is
\* a constant of the binary, as the build hash is, and goes with it.
Anchors == [device : Devices, build : Builds]

Records == [artifact : Artifacts, anchor : Anchors, config : Configs, timing : Timings]

SlotStatuses == {"Pending", "Complete", "BenchmarkFailed", "DeviceUnavailable",
                 "IndeterminateAfterCrash"}

SessionStatuses == {"Running", "Complete", "Cancelled", "DeviceUnavailable",
                    "BenchmarkFailed", "Failed"}

\* id 0 is an absent measurement_id.
PendingSlot == [status |-> "Pending", id |-> 0, hash |-> NoHash]

SlotRecords == [status : SlotStatuses, id : Nat, hash : Records \cup {NoHash}]

---------------------------------------------------------------------------
\* A session just started: every slot pending, anchored to one preflight.
NewSession(p, anchor) ==
    [plan |-> p, anchor |-> anchor, status |-> "Running", next |-> 0,
     slots |-> [i \in SlotIndices(p) |-> PendingSlot]]

CompletedSlots(s) == {i \in DOMAIN s.slots : s.slots[i].status = "Complete"}

\* The record a successful benchmark of slot i of session s returns, as
\* validate_record accepts it.
BenchmarkRecord(s, i, timing) ==
    [artifact |-> PlannedArtifact(s.plan, i), anchor |-> s.anchor,
     config |-> PlanConfig[s.plan], timing |-> timing]

\* What verify checks of a session against a store.  It counts the complete
\* slots; it does not look at where they are.
SessionVerifies(s, store) ==
    /\ \A i \in DOMAIN s.slots :
          IF s.slots[i].status = "Complete"
          THEN /\ s.slots[i].id \in DOMAIN store
               /\ store[s.slots[i].id] = s.slots[i].hash
          ELSE s.slots[i].id = 0 /\ s.slots[i].hash = NoHash
    /\ \A i, j \in CompletedSlots(s) : s.slots[i].hash = s.slots[j].hash => i = j
    /\ s.next = Cardinality(CompletedSlots(s))

\* The session whose slots next .. next + Len(recs) - 1 were completed by recs,
\* published under consecutive identities from firstId on.
CompleteSlots(s, firstId, recs) ==
    [s EXCEPT
        !.slots = [i \in DOMAIN s.slots |->
                     IF s.next <= i /\ i < s.next + Len(recs)
                     THEN [status |-> "Complete", id |-> firstId + (i - s.next),
                           hash |-> recs[i - s.next + 1]]
                     ELSE s.slots[i]],
        !.next = s.next + Len(recs),
        !.status = IF s.next + Len(recs) = TotalSlots(s.plan) THEN "Complete" ELSE s.status]

\* Mutant: a failed slot is passed over.
FailSlot_Skips(s, slotStatus, sessionStatus) ==
    [s EXCEPT !.slots[s.next].status = slotStatus, !.status = sessionStatus, !.next = @ + 1]

\* The session stopped by an unsuccessful benchmark of its next slot.
FailSlot(s, slotStatus, sessionStatus) ==
    [s EXCEPT !.slots[s.next].status = slotStatus, !.status = sessionStatus]

\* The slot Stage 7D may prepare or attach a record to exists and is pristine.
RecoveryPending(s) ==
    /\ s.status = "Running"
    /\ s.next < TotalSlots(s.plan)
    /\ s.slots[s.next] = PendingSlot

\* One server-verified publication attached to the current slot.
AttachRecovered(s, id, record) == CompleteSlots(s, id, <<record>>)
=============================================================================
