------------------------------- MODULE Acquisition -------------------------------
(****************************************************************************)
(* Stage 7C: the registry of measurement acquisition sessions that the      *)
(* evaluation protocol keeps (agentir-policy-eval/src/protocol.rs), with    *)
(* one action per request that changes it, and the machine it runs on.      *)
(*                                                                          *)
(* An advance works on copies of the session and of the store and commits   *)
(* both at its end; the protocol is served one request at a time, so each   *)
(* request is one step.  A request the code rejects changes nothing and is  *)
(* the stuttering step.                                                     *)
(****************************************************************************)
EXTENDS AcquisitionSession

CONSTANTS
    MaxRecords,      \* bound: records the store may hold
    MaxCheckpoints,  \* bound: checkpoints retained
    MaxSlots,        \* bound: the largest maximum_slots a client asks for
    NoSession        \* the plan has not been started

ASSUME BoundsAssumption == {MaxRecords, MaxCheckpoints, MaxSlots} \subseteq Nat

VARIABLES
    machine,         \* the device and build a preflight would report now
    store,           \* the measurement store; a record's identity is its position
    sessions,        \* acquisition_sessions, by plan
    checkpoints      \* acquisition_checkpoints; a checkpoint is the session it froze

vars == <<machine, store, sessions, checkpoints>>

SessionsOf(p) ==
    [plan : {p}, anchor : Anchors, status : SessionStatuses,
     next : 0 .. TotalSlots(p), slots : [SlotIndices(p) -> SlotRecords]]

\* The sign of absence is no session.
ASSUME NoSessionAssumption == \A p \in Plans : NoSession \notin SessionsOf(p)

TypeOK ==
    /\ machine \in Anchors
    /\ store \in Seq(Records)
    /\ DOMAIN sessions = Plans
    /\ \A p \in Plans : sessions[p] = NoSession \/ sessions[p] \in SessionsOf(p)
    /\ \A c \in checkpoints : \E p \in Plans : c \in SessionsOf(p)

Init ==
    /\ machine \in {a \in Anchors : a.build = PlanBuild}
    /\ store = <<>>
    /\ sessions = [p \in Plans |-> NoSession]
    /\ checkpoints = {}

Started(p) == sessions[p] # NoSession

---------------------------------------------------------------------------
\* MeasurementAcquisitionStart.  The session is filed under a name derived from
\* the plan, whatever is already there.
Start(p) ==
    /\ machine.build = PlanBuild
    /\ sessions' = [sessions EXCEPT ![p] = NewSession(p, machine)]
    /\ UNCHANGED <<machine, store, checkpoints>>

\* An advance of at most n slots completes k of them and then stops: because n or
\* the plan is exhausted ("limit"), or because the next benchmark did not succeed.
\* The executor refuses to measure on another device than the session's.
AdvanceOutcome(s, n, k, stop) ==
    LET left == TotalSlots(s.plan) - s.next
        allowed == IF n < left THEN n ELSE left
    IN  /\ IF stop = "limit" THEN k = allowed ELSE k < allowed
        /\ k > 0 => machine.device = s.anchor.device

\* Mutants: identities start one too low; identities are local to the session; a
\* failure discards the slots completed before it, though their records are kept.
AdvancedSession_IdOff(s, recs, stop) ==
    IF stop = "limit" THEN CompleteSlots(s, Len(store), recs)
    ELSE FailSlot(CompleteSlots(s, Len(store), recs), "BenchmarkFailed", "BenchmarkFailed")
AdvancedSession_IdLocal(s, recs, stop) ==
    IF stop = "limit" THEN CompleteSlots(s, s.next + 1, recs)
    ELSE FailSlot(CompleteSlots(s, s.next + 1, recs), "BenchmarkFailed", "BenchmarkFailed")

AdvancedSession(s, recs, stop) ==
    LET done == CompleteSlots(s, Len(store) + 1, recs)
    IN  CASE stop = "limit"       -> done
          [] stop = "unavailable" -> FailSlot(done, "DeviceUnavailable", "DeviceUnavailable")
          [] stop = "failed"      -> FailSlot(done, "BenchmarkFailed", "BenchmarkFailed")

\* Mutant: the session's status is not looked at.
Advance_Stopped(p, n) ==
    /\ Started(p)
    /\ SessionVerifies(sessions[p], store)
    /\ sessions[p].next < TotalSlots(p) /\ Len(store) < MaxRecords
    /\ \E time \in Timings :
          LET recs == <<BenchmarkRecord(sessions[p], sessions[p].next, time)>>
          IN  /\ store' = store \o recs
              /\ sessions' = [sessions EXCEPT ![p] = AdvancedSession(@, recs, "limit")]
    /\ UNCHANGED <<machine, checkpoints>>

\* MeasurementAcquisitionAdvance with maximum_slots = n > 0.
Advance(p, n) ==
    /\ Started(p)
    /\ SessionVerifies(sessions[p], store)
    /\ sessions[p].status = "Running"
    /\ \E k \in 0 .. n : \E times \in [1 .. k -> Timings] :
       \E stop \in {"limit", "unavailable", "failed"} :
          LET recs == [j \in 1 .. k |->
                          BenchmarkRecord(sessions[p], sessions[p].next + j - 1, times[j])]
          IN  /\ Len(store) + k <= MaxRecords
              /\ AdvanceOutcome(sessions[p], n, k, stop)
              /\ store' = store \o recs
              /\ sessions' = [sessions EXCEPT ![p] = AdvancedSession(@, recs, stop)]
    /\ UNCHANGED <<machine, checkpoints>>

\* MeasurementAcquisitionCancel, observed at once: no benchmark is in flight
\* between two requests.
Cancel(p) ==
    /\ Started(p)
    /\ sessions[p].status = "Running"
    /\ sessions' = [sessions EXCEPT ![p].status = "Cancelled"]
    /\ UNCHANGED <<machine, store, checkpoints>>

\* mark_indeterminate_after_crash
MarkIndeterminate(p) ==
    /\ Started(p)
    /\ sessions[p].status = "Running"
    /\ sessions[p].next < TotalSlots(p)
    /\ sessions' = [sessions EXCEPT ![p] = FailSlot(@, "IndeterminateAfterCrash", "Failed")]
    /\ UNCHANGED <<machine, store, checkpoints>>

\* MeasurementAcquisitionCheckpoint: any session, running or not.
Checkpoint(p) ==
    /\ Started(p)
    /\ Cardinality(checkpoints \cup {sessions[p]}) <= MaxCheckpoints
    /\ checkpoints' = checkpoints \cup {sessions[p]}
    /\ UNCHANGED <<machine, store, sessions>>

\* MeasurementAcquisitionResume: the frozen session, running again, replaces the
\* one retained for its plan.
Resume(c) ==
    /\ SessionVerifies(c, store)
    /\ c.anchor = machine
    /\ sessions' = [sessions EXCEPT ![c.plan] = [c EXCEPT !.status = "Running"]]
    /\ UNCHANGED <<machine, store, checkpoints>>

\* The machine is given another device, or the process another build.
ChangeMachine ==
    /\ machine' \in Anchors \ {machine}
    /\ UNCHANGED <<store, sessions, checkpoints>>

Next ==
    \/ \E p \in Plans : \/ Start(p) \/ Cancel(p) \/ MarkIndeterminate(p) \/ Checkpoint(p)
                        \/ \E n \in 1 .. MaxSlots : Advance(p, n)
    \/ \E c \in checkpoints : Resume(c)
    \/ ChangeMachine

Spec == Init /\ [][Next]_vars

---------------------------------------------------------------------------
Retained == {sessions[p] : p \in {q \in Plans : Started(q)}} \cup checkpoints

\* verify only counts the complete slots.  Whatever was cancelled, failed, resumed
\* from an older checkpoint or restarted, the complete slots are exactly those
\* below next, and everything above next is untouched.
CompletedPrefix ==
    \A s \in Retained : \A i \in DOMAIN s.slots :
        /\ s.slots[i].status = "Complete" <=> i < s.next
        /\ i > s.next => s.slots[i] = PendingSlot

\* Every complete slot is backed by a record the store still holds, and the record
\* is of that slot's artifact, measured under the session's own device, build and
\* configuration, even when the machine changed meanwhile.
EvidenceRetained ==
    \A s \in Retained : \A i \in CompletedSlots(s) :
        /\ s.slots[i].id \in DOMAIN store
        /\ store[s.slots[i].id] = s.slots[i].hash
        /\ \E t \in Timings : s.slots[i].hash = BenchmarkRecord(s, i, t)

\* A published record backs one slot of one plan: no other session, and no
\* checkpoint of any session, counts it for another slot.
OneSlotPerRecord ==
    \A s, u \in Retained : \A i \in CompletedSlots(s), j \in CompletedSlots(u) :
        s.slots[i].id = u.slots[j].id => s.plan = u.plan /\ i = j

\* A session that was cancelled, failed or finished publishes nothing more until a
\* client resumes it or starts the plan anew.
StoppedStaysStopped ==
    [][ \A p \in Plans :
          (Started(p) /\ sessions[p].status # "Running" /\ sessions'[p] # sessions[p])
             => sessions'[p].status = "Running" /\ store' = store ]_vars

=============================================================================
