----------------------------- MODULE BackendsProofs -----------------------------
(***************************************************************************)
(* Theorems about Backends for every limit of the workspace, every clock   *)
(* and every timing: a measurement names one retained artifact, every      *)
(* cursor covers what its event was made from, and a snapshot of the logs  *)
(* replays to the stores it was taken of.                                  *)
(*                                                                         *)
(* The invariant says of each store what its log says of it: entry by      *)
(* entry what the event made is still there, and everything there was made *)
(* by an entry.  Identities are dense, so the allocator is a length.       *)
(*                                                                         *)
(* The last part is about NativeExecution, which takes its packages and    *)
(* programs from where the backends plan them: the result of a call comes  *)
(* from a verified artifact, is whole, and leaves no process behind.       *)
(***************************************************************************)
EXTENDS Backends, NativeWorker, TLAPS, FiniteSetTheorems, SequenceTheorems

IsLog(log) == \E S : log \in Seq(S)

\* A log another log has as its beginning.
Longer(old, new) ==
    /\ IsLog(old) /\ IsLog(new) /\ Len(old) <= Len(new)
    /\ \A k \in 1..Len(old) : new[k] = old[k]

\* Within the first n events of a log one made this.
OfTarget(target, n) == \E k \in 1..n : targets.events[k].hash = target
OfSchedule(plan, revision, n) ==
    \E k \in 1..n : schedules.events[k].plan = plan /\ schedules.events[k].revision = revision
OfBackend(plan, revision, n) == \E k \in 1..n : MadeBackend(backends.events[k], plan, revision)
OfArtifact(hash, n) == \E k \in 1..n : ArtifactHash(artifacts.events[k].package) = hash
OfCpuArtifact(id, n) == \E k \in 1..n : cpuArtifacts.events[k].package.id = id

\* The loader's two folds.
TargetOp(env, store, event) == WithTarget(store, event.profile)
BackendOp(env, made, event) == BackendStep(made, event)
Anything(about, n, r) == TRUE
TargetFold == INSTANCE FoldFacts WITH Op <- TargetOp, Holds <- Anything
BackendFold == INSTANCE FoldFacts WITH Op <- BackendOp, Holds <- Anything

\* The manifests and the log of target events.
TInv ==
    /\ IsLog(targets.events) /\ upstream \in Nat
    /\ \A id \in DOMAIN targets.manifests : OfTarget(targets.manifests[id], Len(targets.events))

IsScheduled(plan) ==
    plan = [target |-> plan.target, head |-> plan.head, revisions |-> plan.revisions]

SoundSchedule(p) ==
    /\ IsScheduled(schedules.plans[p])
    /\ OfTarget(schedules.plans[p].target, Len(targets.events))
    /\ \A r \in schedules.plans[p].revisions : OfSchedule(p, r, Len(schedules.events))

SoundScheduleEvent(i) ==
    LET event == schedules.events[i]
    IN  /\ event.upstream \in 0..upstream /\ event.targets \in 0..Len(targets.events)
        /\ i > 1 => schedules.events[i - 1].targets <= event.targets
        /\ OfTarget(event.target, event.targets)

SInv ==
    /\ IsLog(schedules.events)
    /\ \E n \in Nat : DOMAIN schedules.plans = 1..n
    /\ \A p \in DOMAIN schedules.plans : SoundSchedule(p)
    /\ \A i \in 1..Len(schedules.events) : SoundScheduleEvent(i)

IsAllocator(a) ==
    /\ a = [plan |-> a.plan, revision |-> a.revision, kernel |-> a.kernel,
            artifact |-> a.artifact, module |-> a.module, measurement |-> a.measurement]
    /\ {a.plan, a.revision, a.kernel, a.artifact, a.module, a.measurement} \subseteq Nat

IsBackend(plan) == plan = [anchor |-> plan.anchor, head |-> plan.head, revisions |-> plan.revisions]

IsRevision(r) == r = [id |-> r.id, parents |-> r.parents, program |-> r.program,
                      status |-> r.status, hash |-> r.hash]

SoundRevision(p, r) ==
    LET revision == backends.plans[p].revisions[r]
    IN  /\ IsRevision(revision) /\ BackendIsValid(p, revision)
        /\ revision.program \in 1..backends.allocator.kernel
        /\ r \in 1..backends.allocator.revision
        /\ OfBackend(p, r, Len(backends.events))

SoundBackend(p) ==
    /\ IsBackend(backends.plans[p])
    /\ backends.plans[p].head \in DOMAIN backends.plans[p].revisions
    /\ \A r \in DOMAIN backends.plans[p].revisions : SoundRevision(p, r)

Lowered(event) ==
    event.kind = "lowered" =>
        /\ event.schedules \in 0..Len(schedules.events) /\ event.targets \in 0..Len(targets.events)
        /\ \E k \in 1..event.schedules :
              schedules.events[k].revision = event.plan.anchor.revision
        /\ OfTarget(event.plan.anchor.target, event.targets)

IsProgram(k) == \E p \in DOMAIN backends.plans : \E r \in DOMAIN backends.plans[p].revisions :
                    backends.plans[p].revisions[r].program = k

BInv ==
    /\ backends = [plans |-> backends.plans, allocator |-> backends.allocator,
                   events |-> backends.events]
    /\ IsLog(backends.events) /\ IsAllocator(backends.allocator)
    /\ DOMAIN backends.plans = 1..backends.allocator.plan
    /\ \A p \in DOMAIN backends.plans : SoundBackend(p)
    /\ \A r \in 1..backends.allocator.revision : r \in Revisions(backends)
    /\ \A k \in 1..backends.allocator.kernel : IsProgram(k)
    /\ \A i \in 1..Len(backends.events) : Lowered(backends.events[i])

\* The i-th emission made the package i, with modules of its own.
SoundEmission(i) ==
    LET event == artifacts.events[i]
    IN  /\ artifacts.packages[i] = event.package
        /\ event.package.id = i /\ event.package.modules = i
        /\ event.plan \in DOMAIN backends.plans
        /\ event.revision \in DOMAIN backends.plans[event.plan].revisions
        /\ event.package.backend = backends.plans[event.plan].revisions[event.revision].hash
        /\ event.backends \in 0..Len(backends.events)
        /\ i > 1 => artifacts.events[i - 1].backends <= event.backends
        /\ OfBackend(event.plan, event.revision, event.backends)

AInv ==
    /\ IsLog(artifacts.events)
    /\ DOMAIN artifacts.packages = 1..Len(artifacts.events)
    /\ backends.allocator.artifact = Len(artifacts.events)
    /\ backends.allocator.module = Len(artifacts.events)
    /\ \A i \in 1..Len(artifacts.events) : SoundEmission(i)

SoundRecord(i) ==
    LET event == measurements.events[i]
    IN  /\ event.id = i /\ measurements.records[i] = event.record
        /\ event.artifacts \in 0..Len(artifacts.events)
        /\ i > 1 => measurements.events[i - 1].artifacts <= event.artifacts
        /\ OfArtifact(event.record.artifact, event.artifacts)

MInv ==
    /\ IsLog(measurements.events)
    /\ DOMAIN measurements.records = 1..Len(measurements.events)
    /\ backends.allocator.measurement = Len(measurements.events)
    /\ \A i \in 1..Len(measurements.events) : SoundRecord(i)

SoundCpuEmission(i) ==
    LET event == cpuArtifacts.events[i]
    IN  /\ event.plan \in DOMAIN schedules.plans
        /\ event.package.target = schedules.plans[event.plan].target
        /\ event.package.id \in DOMAIN cpuArtifacts.packages
        /\ cpuArtifacts.packages[event.package.id] = event.package
        /\ event.schedules \in 0..Len(schedules.events)
        /\ i > 1 => cpuArtifacts.events[i - 1].schedules <= event.schedules
        /\ OfSchedule(event.plan, event.revision, event.schedules)

CInv ==
    /\ IsLog(cpuArtifacts.events)
    /\ \A id \in DOMAIN cpuArtifacts.packages : OfCpuArtifact(id, Len(cpuArtifacts.events))
    /\ \A i, j \in 1..Len(cpuArtifacts.events) :
          cpuArtifacts.events[i].package.id = cpuArtifacts.events[j].package.id => i = j
    /\ \A i \in 1..Len(cpuArtifacts.events) : SoundCpuEmission(i)

SoundCpuRecord(i) ==
    LET event == cpuMeasurements.events[i]
    IN  /\ cpuMeasurements.records[i] = event.record /\ event.record.id = i
        /\ event.record.clock = cpuMeasurements.events[1].record.clock
        /\ event.cpuArtifacts \in 0..Len(cpuArtifacts.events)
        /\ i > 1 => cpuMeasurements.events[i - 1].cpuArtifacts <= event.cpuArtifacts
        /\ OfCpuArtifact(event.record.artifact, event.cpuArtifacts)

DInv ==
    /\ IsLog(cpuMeasurements.events)
    /\ cpuMeasurements.next = Len(cpuMeasurements.events)
    /\ DOMAIN cpuMeasurements.records = 1..cpuMeasurements.next
    /\ \A i \in 1..Len(cpuMeasurements.events) : SoundCpuRecord(i)

IInv == TInv /\ SInv /\ BInv /\ AInv /\ MInv /\ CInv /\ DInv
---------------------------------------------------------------------------
LEMMA LogFacts == ASSUME NEW log, IsLog(log) PROVE Len(log) \in Nat /\ DOMAIN log = 1..Len(log)
  BY DEF IsLog

\* The empty log, and one event more.
LEMMA EmptyLog == IsLog(<<>>) /\ Len(<<>>) = 0
  BY DEF IsLog

LEMMA AppendFacts ==
    ASSUME NEW log, IsLog(log), NEW event
    PROVE  /\ Longer(log, Append(log, event)) /\ Len(Append(log, event)) = Len(log) + 1
           /\ Append(log, event)[Len(log) + 1] = event
<1>1. PICK S : log \in Seq(S)
  BY DEF IsLog
<1>2. log \in Seq(S \cup {event}) /\ event \in S \cup {event}
  BY <1>1
<1>3. /\ Append(log, event) \in Seq(S \cup {event}) /\ Len(Append(log, event)) = Len(log) + 1
      /\ Append(log, event)[Len(log) + 1] = event
      /\ \A k \in 1..Len(log) : Append(log, event)[k] = log[k]
  BY <1>2
<1> QED
  BY <1>1, <1>3 DEF Longer, IsLog

LEMMA SameIsLonger == ASSUME NEW log, IsLog(log) PROVE Longer(log, log)
  BY LogFacts DEF Longer

\* One entry more in a store.
LEMMA EntryFacts ==
    ASSUME NEW f, NEW id, NEW x
    PROVE  /\ DOMAIN With(f, id, x) = DOMAIN f \cup {id} /\ With(f, id, x)[id] = x
           /\ \A n \in DOMAIN f : n # id => With(f, id, x)[n] = f[n]
  BY DEF With

\* What a log made stays made when it grows.
LEMMA TargetsGrow ==
    ASSUME Longer(targets.events, targets'.events),
           NEW target, NEW n \in 0..Len(targets.events), OfTarget(target, n)
    PROVE  OfTarget(target, n)'
  BY DEF OfTarget, Longer

LEMMA SchedulesGrow ==
    ASSUME Longer(schedules.events, schedules'.events),
           NEW p, NEW r, NEW n \in 0..Len(schedules.events), OfSchedule(p, r, n)
    PROVE  OfSchedule(p, r, n)'
  BY DEF OfSchedule, Longer

LEMMA BackendsGrow ==
    ASSUME Longer(backends.events, backends'.events),
           NEW p, NEW r, NEW n \in 0..Len(backends.events), OfBackend(p, r, n)
    PROVE  OfBackend(p, r, n)'
  BY DEF OfBackend, Longer, MadeBackend

LEMMA ArtifactsGrow ==
    ASSUME Longer(artifacts.events, artifacts'.events),
           NEW hash, NEW n \in 0..Len(artifacts.events), OfArtifact(hash, n)
    PROVE  OfArtifact(hash, n)'
  BY DEF OfArtifact, Longer, ArtifactHash

LEMMA CpuArtifactsGrow ==
    ASSUME Longer(cpuArtifacts.events, cpuArtifacts'.events),
           NEW id, NEW n \in 0..Len(cpuArtifacts.events), OfCpuArtifact(id, n)
    PROVE  OfCpuArtifact(id, n)'
  BY DEF OfCpuArtifact, Longer
---------------------------------------------------------------------------
\* A store that is left alone stays sound while the logs it points into grow.
LEMMA SchedulesStay ==
    ASSUME SInv, UNCHANGED schedules, Longer(targets.events, targets'.events),
           upstream \in Nat, upstream' \in Nat, upstream <= upstream'
    PROVE  SInv'
<1>1. Len(targets.events) \in Nat /\ Len(targets'.events) \in Nat /\ Len(schedules.events) \in Nat
  BY LogFacts DEF Longer, SInv
<1>2. ASSUME NEW p \in DOMAIN schedules'.plans PROVE SoundSchedule(p)'
  <2>1. SoundSchedule(p)
    BY DEF SInv
  <2>2. \E k \in 1..Len(targets'.events) : targets'.events[k].hash = schedules.plans[p].target
    BY <1>1, <2>1 DEF SoundSchedule, OfTarget, Longer
  <2> QED
    BY <2>1, <2>2 DEF SoundSchedule, OfTarget, OfSchedule
<1>3. ASSUME NEW i \in 1..Len(schedules'.events) PROVE SoundScheduleEvent(i)'
  <2>1. PICK event : event = schedules.events[i]
    OBVIOUS
  <2>2. /\ event.upstream \in 0..upstream /\ event.targets \in 0..Len(targets.events)
        /\ i > 1 => schedules.events[i - 1].targets <= event.targets
        /\ OfTarget(event.target, event.targets)
    BY <2>1 DEF SInv, SoundScheduleEvent
  <2>3. OfTarget(event.target, event.targets)'
    BY <2>2, TargetsGrow
  <2>4. event.upstream \in 0..upstream' /\ event.targets \in 0..Len(targets'.events)
    BY <1>1, <2>2 DEF Longer
  <2> QED
    BY <2>1, <2>2, <2>3, <2>4 DEF SoundScheduleEvent
<1> QED
  BY <1>2, <1>3 DEF SInv

\* Identities of artifacts and measurements are handed out without touching a plan.
LEMMA PlansStay ==
    ASSUME BInv, Longer(targets.events, targets'.events), Longer(schedules.events, schedules'.events),
           backends'.plans = backends.plans, backends'.events = backends.events,
           backends'.allocator.plan = backends.allocator.plan,
           backends'.allocator.revision = backends.allocator.revision,
           backends'.allocator.kernel = backends.allocator.kernel,
           IsAllocator(backends'.allocator),
           backends' = [plans |-> backends'.plans, allocator |-> backends'.allocator,
                        events |-> backends'.events]
    PROVE  BInv'
<1>1. /\ Len(targets.events) \in Nat /\ Len(targets'.events) \in Nat
      /\ Len(schedules.events) \in Nat /\ Len(schedules'.events) \in Nat
  BY LogFacts DEF Longer
<1>2. ASSUME NEW p \in DOMAIN backends'.plans PROVE SoundBackend(p)'
  <2>1. SoundBackend(p)
    BY DEF BInv
  <2>2. ASSUME NEW r \in DOMAIN backends'.plans[p].revisions PROVE SoundRevision(p, r)'
    BY <2>1 DEF SoundBackend, SoundRevision, BackendIsValid, OfBackend
  <2> QED
    BY <2>1, <2>2 DEF SoundBackend
<1>3. ASSUME NEW i \in 1..Len(backends'.events) PROVE Lowered(backends.events[i])'
  <2>1. PICK event : event = backends.events[i]
    OBVIOUS
  <2>2. Lowered(event) /\ backends'.events[i] = event
    BY <2>1 DEF BInv
  <2> SUFFICES ASSUME event.kind = "lowered" PROVE Lowered(event)'
    BY <2>2 DEF Lowered
  <2>3. OfTarget(event.plan.anchor.target, event.targets)'
    BY <1>1, <2>2, TargetsGrow DEF Lowered
  <2>4. /\ event.schedules \in 0..Len(schedules'.events) /\ event.targets \in 0..Len(targets'.events)
    BY <1>1, <2>2 DEF Lowered, Longer
  <2>5. \E k \in 1..event.schedules : schedules'.events[k].revision = event.plan.anchor.revision
    BY <1>1, <2>2 DEF Lowered, Longer
  <2> QED
    BY <2>3, <2>4, <2>5 DEF Lowered, OfTarget
<1>4. Revisions(backends)' = Revisions(backends) /\ \A k : IsProgram(k) => IsProgram(k)'
  BY DEF Revisions, IsProgram
<1>5. /\ \A r \in 1..backends'.allocator.revision : r \in Revisions(backends)'
      /\ \A k \in 1..backends'.allocator.kernel : IsProgram(k)'
  BY <1>4 DEF BInv
<1>6. IsLog(backends'.events) /\ DOMAIN backends'.plans = 1..backends'.allocator.plan
  BY DEF BInv
<1> QED
  BY <1>2, <1>3, <1>5, <1>6 DEF BInv

\* Plans and revisions are only added.
PlansGrow ==
    \A p \in DOMAIN backends.plans :
        /\ p \in DOMAIN backends'.plans
        /\ \A r \in DOMAIN backends.plans[p].revisions :
              /\ r \in DOMAIN backends'.plans[p].revisions
              /\ backends'.plans[p].revisions[r] = backends.plans[p].revisions[r]

LEMMA ArtifactsStay ==
    ASSUME AInv, UNCHANGED artifacts, Longer(backends.events, backends'.events), PlansGrow,
           backends'.allocator.artifact = backends.allocator.artifact,
           backends'.allocator.module = backends.allocator.module
    PROVE  AInv'
<1>1. Len(backends.events) \in Nat /\ Len(backends'.events) \in Nat
  BY LogFacts DEF Longer
<1>2. ASSUME NEW i \in 1..Len(artifacts'.events) PROVE SoundEmission(i)'
  <2>1. PICK event : event = artifacts.events[i]
    OBVIOUS
  <2>2. SoundEmission(i) /\ artifacts'.events[i] = event
    BY <2>1 DEF AInv
  <2>3. OfBackend(event.plan, event.revision, event.backends)'
    BY <1>1, <2>1, <2>2, BackendsGrow DEF SoundEmission
  <2>4. event.backends \in 0..Len(backends'.events)
    BY <1>1, <2>1, <2>2 DEF SoundEmission, Longer
  <2>5. /\ event.plan \in DOMAIN backends'.plans
        /\ event.revision \in DOMAIN backends'.plans[event.plan].revisions
        /\ event.package.backend = backends'.plans[event.plan].revisions[event.revision].hash
    BY <2>1, <2>2 DEF SoundEmission, PlansGrow
  <2> QED
    BY <2>1, <2>2, <2>3, <2>4, <2>5 DEF SoundEmission
<1> QED
  BY <1>2 DEF AInv

LEMMA RecordsStay ==
    ASSUME MInv, UNCHANGED measurements, Longer(artifacts.events, artifacts'.events),
           backends'.allocator.measurement = backends.allocator.measurement
    PROVE  MInv'
<1>1. Len(artifacts.events) \in Nat /\ Len(artifacts'.events) \in Nat
  BY LogFacts DEF Longer
<1>2. ASSUME NEW i \in 1..Len(measurements'.events) PROVE SoundRecord(i)'
  <2>1. SoundRecord(i)
    BY DEF MInv
  <2>2. OfArtifact(measurements.events[i].record.artifact, measurements.events[i].artifacts)'
    BY <1>1, <2>1, ArtifactsGrow DEF SoundRecord
  <2>3. measurements.events[i].artifacts \in 0..Len(artifacts'.events)
    BY <1>1, <2>1 DEF SoundRecord, Longer
  <2> QED
    BY <2>1, <2>2, <2>3 DEF SoundRecord
<1> QED
  BY <1>2 DEF MInv

\* A schedule plan keeps its target.
TargetsStay ==
    \A p \in DOMAIN schedules.plans :
        p \in DOMAIN schedules'.plans /\ schedules'.plans[p].target = schedules.plans[p].target

LEMMA CpuArtifactsStay ==
    ASSUME CInv, UNCHANGED cpuArtifacts, Longer(schedules.events, schedules'.events), TargetsStay
    PROVE  CInv'
<1>1. Len(schedules.events) \in Nat /\ Len(schedules'.events) \in Nat
  BY LogFacts DEF Longer
<1>2. ASSUME NEW i \in 1..Len(cpuArtifacts'.events) PROVE SoundCpuEmission(i)'
  <2>1. PICK event : event = cpuArtifacts.events[i]
    OBVIOUS
  <2>2. SoundCpuEmission(i) /\ cpuArtifacts'.events[i] = event
    BY <2>1 DEF CInv
  <2>3. OfSchedule(event.plan, event.revision, event.schedules)'
    BY <1>1, <2>1, <2>2, SchedulesGrow DEF SoundCpuEmission
  <2>4. event.plan \in DOMAIN schedules'.plans /\ event.package.target = schedules'.plans[event.plan].target
    BY <2>1, <2>2 DEF SoundCpuEmission, TargetsStay
  <2>5. event.schedules \in 0..Len(schedules'.events)
    BY <1>1, <2>1, <2>2 DEF SoundCpuEmission, Longer
  <2> QED
    BY <2>1, <2>2, <2>3, <2>4, <2>5 DEF SoundCpuEmission, OfSchedule
<1> QED
  BY <1>2 DEF CInv, OfCpuArtifact

LEMMA CpuRecordsStay ==
    ASSUME DInv, UNCHANGED cpuMeasurements, Longer(cpuArtifacts.events, cpuArtifacts'.events)
    PROVE  DInv'
<1>1. Len(cpuArtifacts.events) \in Nat /\ Len(cpuArtifacts'.events) \in Nat
  BY LogFacts DEF Longer
<1>2. ASSUME NEW i \in 1..Len(cpuMeasurements'.events) PROVE SoundCpuRecord(i)'
  <2> DEFINE event == cpuMeasurements.events[i]
  <2>1. SoundCpuRecord(i) /\ cpuMeasurements'.events[i] = event
    BY DEF DInv
  <2>2. OfCpuArtifact(event.record.artifact, event.cpuArtifacts)'
    BY <1>1, <2>1, CpuArtifactsGrow DEF SoundCpuRecord
  <2> QED
    BY <1>1, <2>1, <2>2 DEF SoundCpuRecord, Longer, OfCpuArtifact
<1> QED
  BY <1>2 DEF DInv
---------------------------------------------------------------------------
\* Every log is one.
LEMMA LogsAreLogs ==
    ASSUME IInv
    PROVE  /\ IsLog(targets.events) /\ IsLog(schedules.events) /\ IsLog(backends.events)
           /\ IsLog(artifacts.events) /\ IsLog(measurements.events)
           /\ IsLog(cpuArtifacts.events) /\ IsLog(cpuMeasurements.events)
           /\ upstream \in Nat
  BY DEF IInv, TInv, SInv, BInv, AInv, MInv, CInv, DInv

LEMMA UpstreamKeeps == ASSUME IInv, Upstream PROVE IInv'
<1>1. /\ upstream' = upstream + 1
      /\ UNCHANGED <<targets, schedules, backends, artifacts, measurements,
                     cpuArtifacts, cpuMeasurements>>
  BY DEF Upstream
<1>2. TInv'
  BY <1>1 DEF IInv, TInv, OfTarget
<1>3. SInv'
  BY <1>1, LogsAreLogs, SameIsLonger, SchedulesStay DEF IInv
<1>4. BInv' /\ PlansGrow /\ TargetsStay
  BY <1>1, LogsAreLogs, SameIsLonger, PlansStay DEF IInv, BInv, PlansGrow, TargetsStay
<1>5. AInv' /\ MInv'
  BY <1>1, <1>4, LogsAreLogs, SameIsLonger, ArtifactsStay, RecordsStay DEF IInv
<1>6. CInv' /\ DInv'
  BY <1>1, <1>4, LogsAreLogs, SameIsLonger, CpuArtifactsStay, CpuRecordsStay DEF IInv
<1> QED
  BY <1>2, <1>3, <1>4, <1>5, <1>6 DEF IInv

LEMMA TargetKeeps == ASSUME IInv, TargetCreate PROVE IInv'
<1>1. PICK profile \in DOMAIN Profiles : targets' = WithTarget(targets, profile)
  BY DEF TargetCreate
<1>2. UNCHANGED <<upstream, schedules, backends, artifacts, measurements,
                  cpuArtifacts, cpuMeasurements>>
  BY DEF TargetCreate
<1>3. \E manifest, event :
         /\ targets'.manifests = With(targets.manifests, manifest.id, manifest)
         /\ targets'.events = Append(targets.events, event) /\ event.hash = manifest
  BY <1>1 DEF WithTarget
<1>4. PICK manifest, event :
         /\ targets'.manifests = With(targets.manifests, manifest.id, manifest)
         /\ targets'.events = Append(targets.events, event) /\ event.hash = manifest
  BY <1>3
<1>5. /\ Longer(targets.events, targets'.events) /\ Len(targets'.events) = Len(targets.events) + 1
      /\ targets'.events[Len(targets.events) + 1] = event
      /\ Len(targets.events) \in Nat
  BY <1>4, LogsAreLogs, LogFacts, AppendFacts
<1>6. TInv'
  <2>1. ASSUME NEW id \in DOMAIN targets'.manifests
        PROVE  OfTarget(targets.manifests[id], Len(targets.events))'
    <3>1. CASE id = manifest.id
      BY <1>4, <1>5, <3>1, EntryFacts DEF With, OfTarget
    <3>2. CASE id # manifest.id
      <4>1. id \in DOMAIN targets.manifests /\ targets'.manifests[id] = targets.manifests[id]
        BY <1>4, <3>2, EntryFacts DEF With
      <4>2. OfTarget(targets.manifests[id], Len(targets.events))
        BY <4>1 DEF IInv, TInv
      <4> QED
        BY <1>5, <4>1, <4>2 DEF OfTarget, Longer
    <3> QED
      BY <3>1, <3>2
  <2> QED
    BY <1>2, <1>5, <2>1 DEF IInv, TInv, Longer
<1>7. SInv'
  BY <1>2, <1>5, LogsAreLogs, SchedulesStay DEF IInv
<1>8. BInv' /\ PlansGrow /\ TargetsStay
  BY <1>2, <1>5, LogsAreLogs, SameIsLonger, PlansStay DEF IInv, BInv, PlansGrow, TargetsStay
<1>9. AInv' /\ MInv'
  BY <1>2, <1>8, LogsAreLogs, SameIsLonger, ArtifactsStay, RecordsStay DEF IInv
<1>10. CInv' /\ DInv'
  BY <1>2, <1>8, LogsAreLogs, SameIsLonger, CpuArtifactsStay, CpuRecordsStay DEF IInv
<1> QED
  BY <1>6, <1>7, <1>8, <1>9, <1>10 DEF IInv

\* An event of a plan or a revision, which the store of schedules then has.
ScheduleStep(p, target) ==
    LET event == ScheduleEvent(p, target, Len(schedules.events) + 1)
    IN  /\ schedules'.events = Append(schedules.events, event)
        /\ OfTarget(target, Len(targets.events))
        /\ DOMAIN schedules'.plans = DOMAIN schedules.plans \cup {p}
        /\ \A q \in DOMAIN schedules.plans : q # p => schedules'.plans[q] = schedules.plans[q]
        /\ IsScheduled(schedules'.plans[p]) /\ schedules'.plans[p].target = target
        /\ \A r \in schedules'.plans[p].revisions :
              \/ r = Len(schedules.events) + 1
              \/ p \in DOMAIN schedules.plans /\ r \in schedules.plans[p].revisions
        /\ p \in DOMAIN schedules.plans => schedules.plans[p].target = target
        /\ \E n \in Nat : DOMAIN schedules'.plans = 1..n
        /\ UNCHANGED <<upstream, targets, backends, artifacts, measurements,
                       cpuArtifacts, cpuMeasurements>>

LEMMA ScheduleKeeps == ASSUME IInv, NEW p, NEW target, ScheduleStep(p, target) PROVE IInv'
<1> DEFINE event == ScheduleEvent(p, target, Len(schedules.events) + 1)
           n == Len(schedules.events)
<1>1. /\ UNCHANGED <<upstream, targets, backends, artifacts, measurements,
                     cpuArtifacts, cpuMeasurements>>
      /\ schedules'.events = Append(schedules.events, event)
      /\ OfTarget(target, Len(targets.events))
  BY DEF ScheduleStep
<1>2. /\ event.plan = p /\ event.revision = n + 1 /\ event.target = target
      /\ event.upstream = upstream /\ event.targets = Len(targets.events)
  BY DEF ScheduleEvent
<1> HIDE DEF event
<1>3. /\ Longer(schedules.events, schedules'.events) /\ Len(schedules'.events) = n + 1
      /\ schedules'.events[n + 1] = event /\ n \in Nat /\ Len(targets.events) \in Nat
  BY <1>1, LogsAreLogs, LogFacts, AppendFacts
<1>4. ASSUME NEW q \in DOMAIN schedules'.plans PROVE SoundSchedule(q)'
  <2>1. q \in DOMAIN schedules.plans => SoundSchedule(q)
    BY DEF IInv, SInv
  <2>2. ASSUME NEW r \in schedules'.plans[q].revisions
        PROVE  \E k \in 1..Len(schedules'.events) :
                   schedules'.events[k].plan = q /\ schedules'.events[k].revision = r
    <3>1. CASE q = p /\ r = n + 1
      BY <1>2, <1>3, <3>1
    <3>2. CASE ~(q = p /\ r = n + 1)
      <4>1. q \in DOMAIN schedules.plans /\ r \in schedules.plans[q].revisions
        BY <3>2 DEF ScheduleStep
      <4>2. OfSchedule(q, r, n)
        BY <2>1, <4>1 DEF SoundSchedule
      <4> QED
        BY <1>3, <4>2 DEF OfSchedule, Longer
    <3> QED
      BY <3>1, <3>2
  <2>3. IsScheduled(schedules'.plans[q]) /\ OfTarget(schedules'.plans[q].target, Len(targets.events))
    BY <1>1, <2>1 DEF ScheduleStep, SoundSchedule
  <2> QED
    BY <1>1, <2>2, <2>3 DEF SoundSchedule, OfSchedule, OfTarget
<1>5. ASSUME NEW i \in 1..Len(schedules'.events) PROVE SoundScheduleEvent(i)'
  <2>1. CASE i = n + 1
    <3>1. i > 1 => schedules'.events[i - 1].targets <= Len(targets.events)
      <4> SUFFICES ASSUME i > 1 PROVE schedules'.events[n].targets <= Len(targets.events)
        BY <1>3, <2>1
      <4>1. n \in 1..Len(schedules.events) /\ schedules'.events[n] = schedules.events[n]
        BY <1>3, <2>1 DEF Longer
      <4> QED
        BY <1>3, <4>1 DEF IInv, SInv, SoundScheduleEvent
    <3> QED
      BY <1>1, <1>2, <1>3, <2>1, <3>1, LogsAreLogs DEF SoundScheduleEvent, OfTarget
  <2>2. CASE i # n + 1
    <3>1. i \in 1..n /\ schedules'.events[i] = schedules.events[i]
      BY <1>3, <2>2 DEF Longer
    <3>2. i > 1 => schedules'.events[i - 1] = schedules.events[i - 1]
      BY <1>3, <3>1 DEF Longer
    <3>3. SoundScheduleEvent(i)
      BY <3>1 DEF IInv, SInv
    <3> QED
      BY <1>1, <3>1, <3>2, <3>3 DEF SoundScheduleEvent, OfTarget
  <2> QED
    BY <2>1, <2>2
<1>6. SInv'
  BY <1>3, <1>4, <1>5 DEF SInv, ScheduleStep, Longer
<1>7. TInv'
  BY <1>1 DEF IInv, TInv, OfTarget
<1>8. BInv' /\ PlansGrow /\ TargetsStay
  BY <1>1, <1>3, LogsAreLogs, SameIsLonger, PlansStay
     DEF IInv, BInv, PlansGrow, TargetsStay, ScheduleStep
<1>9. AInv' /\ MInv'
  BY <1>1, <1>8, LogsAreLogs, SameIsLonger, ArtifactsStay, RecordsStay DEF IInv
<1>10. CInv' /\ DInv'
  BY <1>1, <1>3, <1>8, LogsAreLogs, SameIsLonger, CpuArtifactsStay, CpuRecordsStay DEF IInv
<1> QED
  BY <1>6, <1>7, <1>8, <1>9, <1>10 DEF IInv

LEMMA ScheduleCreateKeeps == ASSUME IInv, ScheduleCreate PROVE IInv'
<1>1. PICK id \in DOMAIN targets.manifests :
         LET plan == Cardinality(DOMAIN schedules.plans) + 1
             revision == Len(schedules.events) + 1
             target == targets.manifests[id]
         IN  schedules' =
                [plans |-> With(schedules.plans, plan,
                                [target |-> target, head |-> revision, revisions |-> {revision}]),
                 events |-> Append(schedules.events, ScheduleEvent(plan, target, revision))]
  BY DEF ScheduleCreate
<1> DEFINE p == Cardinality(DOMAIN schedules.plans) + 1
           target == targets.manifests[id]
           r == Len(schedules.events) + 1
           plan == [target |-> target, head |-> r, revisions |-> {r}]
<1>2. PICK n \in Nat : DOMAIN schedules.plans = 1..n
  BY DEF IInv, SInv
<1>3. p = n + 1
  <2>1. Cardinality(1..n) = n
    BY FS_Interval
  <2> QED
    BY <1>2, <2>1
<1>4. /\ schedules'.plans = With(schedules.plans, p, plan)
      /\ schedules'.events = Append(schedules.events, ScheduleEvent(p, target, r))
  BY <1>1
<1>5. OfTarget(target, Len(targets.events))
  BY DEF IInv, TInv
<1>6. IsScheduled(plan) /\ plan.target = target /\ plan.revisions = {r}
  BY DEF IsScheduled
<1> HIDE DEF p, target, plan
<1>7. /\ DOMAIN schedules'.plans = DOMAIN schedules.plans \cup {p} /\ schedules'.plans[p] = plan
      /\ \A q \in DOMAIN schedules.plans : q # p => schedules'.plans[q] = schedules.plans[q]
  BY <1>4 DEF With
<1>8. DOMAIN schedules'.plans = 1..(n + 1) /\ p \notin DOMAIN schedules.plans
  BY <1>2, <1>3, <1>7
<1>9. UNCHANGED <<upstream, targets, backends, artifacts, measurements,
                  cpuArtifacts, cpuMeasurements>>
  BY DEF ScheduleCreate
<1>10. ScheduleStep(p, target)
  <2>1. \A q \in schedules'.plans[p].revisions : q = Len(schedules.events) + 1
    BY <1>6, <1>7
  <2>2. IsScheduled(schedules'.plans[p]) /\ schedules'.plans[p].target = target
    BY <1>6, <1>7
  <2>3. schedules'.events =
            Append(schedules.events, ScheduleEvent(p, target, Len(schedules.events) + 1))
    BY <1>4
  <2>4. \E k \in Nat : DOMAIN schedules'.plans = 1..k
    BY <1>8
  <2> QED
    BY <1>5, <1>7, <1>8, <1>9, <2>1, <2>2, <2>3, <2>4 DEF ScheduleStep
<1> QED
  BY <1>10, ScheduleKeeps

LEMMA ScheduleExtendKeeps == ASSUME IInv, ScheduleExtend PROVE IInv'
<1>1. PICK p \in DOMAIN schedules.plans :
         LET revision == Len(schedules.events) + 1
             target == schedules.plans[p].target
         IN  schedules' =
                [plans |-> [schedules.plans EXCEPT ![p].head = revision,
                                                   ![p].revisions = @ \union {revision}],
                 events |-> Append(schedules.events, ScheduleEvent(p, target, revision))]
  BY DEF ScheduleExtend
<1> DEFINE plan == schedules.plans[p]
           r == Len(schedules.events) + 1
           moved == [plan EXCEPT !.head = r]
           revisions == moved.revisions \cup {r}
           next == [moved EXCEPT !.revisions = revisions]
<1>2. /\ IsScheduled(plan) /\ OfTarget(plan.target, Len(targets.events))
      /\ \E n \in Nat : DOMAIN schedules.plans = 1..n
  BY DEF IInv, SInv, SoundSchedule
<1>3. /\ schedules'.plans = [schedules.plans EXCEPT ![p] = next]
      /\ schedules'.events = Append(schedules.events, ScheduleEvent(p, plan.target, r))
  BY <1>1
<1> HIDE DEF plan
<1>4. IsScheduled(moved) /\ moved.target = plan.target /\ moved.revisions = plan.revisions
  BY <1>2 DEF IsScheduled
<1>5. revisions = plan.revisions \cup {r}
  BY <1>4
<1> HIDE DEF moved, revisions
<1>6. IsScheduled(next) /\ next.target = plan.target /\ next.revisions = revisions
  BY <1>4 DEF IsScheduled
<1> HIDE DEF next
<1>7. /\ DOMAIN schedules'.plans = DOMAIN schedules.plans /\ schedules'.plans[p] = next
      /\ \A q \in DOMAIN schedules.plans : q # p => schedules'.plans[q] = schedules.plans[q]
  BY <1>3
<1>8. UNCHANGED <<upstream, targets, backends, artifacts, measurements,
                  cpuArtifacts, cpuMeasurements>>
  BY DEF ScheduleExtend
<1>9. ScheduleStep(p, plan.target)
  BY <1>2, <1>3, <1>5, <1>6, <1>7, <1>8 DEF ScheduleStep, plan
<1> QED
  BY <1>9, ScheduleKeeps
---------------------------------------------------------------------------
\* A lowering stamps its event with the logs it read, as they are.
LoweredNow(event) ==
    event.kind = "lowered" =>
        /\ event.upstream = upstream /\ event.targets = Len(targets.events)
        /\ event.schedules = Len(schedules.events)

\* The event is logged, and what the loader's fold makes of it is what the call left.
GainLogged(event) ==
    /\ backends' = [plans |-> backends'.plans, allocator |-> backends'.allocator,
                    events |-> Append(backends.events, event)]
    /\ BackendFits(backends.plans, event)
    /\ backends'.plans = BackendMade(backends.plans, event)

\* The revision r has the next number, and no package or record is numbered.
GainNumbered(r) ==
    LET last == backends.allocator
        next == backends'.allocator
    IN  /\ r = last.revision + 1 /\ next.revision = r /\ IsAllocator(next)
        /\ next.artifact = last.artifact /\ next.module = last.module
        /\ next.measurement = last.measurement

\* Of the plans only p is new or other than it was.
GainPlans(p) ==
    /\ DOMAIN backends'.plans = 1..backends'.allocator.plan
    /\ DOMAIN backends'.plans = DOMAIN backends.plans \cup {p}
    /\ \A q \in DOMAIN backends.plans : q # p => backends'.plans[q] = backends.plans[q]

\* Of the revisions of p only r is new.
GainRevision(p, r) ==
    LET plan == backends'.plans[p]
    IN  /\ IsBackend(plan) /\ plan.head \in DOMAIN plan.revisions /\ r \in DOMAIN plan.revisions
        /\ \A q \in DOMAIN plan.revisions : q # r =>
              p \in DOMAIN backends.plans /\ q \in DOMAIN backends.plans[p].revisions
        /\ p \in DOMAIN backends.plans =>
              /\ plan.anchor = backends.plans[p].anchor
              /\ \A q \in DOMAIN backends.plans[p].revisions :
                    /\ q \in DOMAIN plan.revisions
                    /\ plan.revisions[q] = backends.plans[p].revisions[q]
        /\ IsRevision(plan.revisions[r])
        /\ plan.revisions[r].hash = BackendHash(p, plan.anchor, plan.revisions[r])

\* Its kernel is one that there was, or the next.
GainKernel(p, r) ==
    LET last == backends.allocator.kernel
        next == backends'.allocator.kernel
        program == backends'.plans[p].revisions[r].program
    IN  /\ program \in 1..next
        /\ \/ next = last
           \/ next = last + 1 /\ program = next

\* The event of a plan p that has a revision r more, of a plan of its own or not.
BackendGain(p, r, event) ==
    /\ GainLogged(event) /\ GainNumbered(r) /\ GainPlans(p) /\ GainRevision(p, r) /\ GainKernel(p, r)
    /\ MadeBackend(event, p, r) /\ Lowered(event) /\ LoweredNow(event)
    /\ UNCHANGED <<upstream, targets, schedules, artifacts, measurements,
                   cpuArtifacts, cpuMeasurements>>

LEMMA GainKeeps == ASSUME IInv, NEW p, NEW r, NEW event, BackendGain(p, r, event) PROVE IInv'
<1> DEFINE n == Len(backends.events)
<1>1. UNCHANGED <<upstream, targets, schedules, artifacts, measurements,
                  cpuArtifacts, cpuMeasurements>>
  BY DEF BackendGain
<1>2. backends'.events = Append(backends.events, event)
  BY DEF BackendGain, GainLogged
<1>3. /\ Longer(backends.events, backends'.events) /\ Len(backends'.events) = n + 1
      /\ backends'.events[n + 1] = event /\ n \in Nat
  BY <1>2, LogsAreLogs, LogFacts, AppendFacts
<1>4. /\ IsAllocator(backends.allocator) /\ IsAllocator(backends'.allocator)
      /\ backends.allocator.revision \in Nat /\ r = backends.allocator.revision + 1
      /\ backends'.allocator.revision = r
      /\ backends.allocator.kernel \in Nat /\ backends'.allocator.kernel \in Nat
      /\ backends.allocator.kernel <= backends'.allocator.kernel
  BY DEF IInv, BInv, BackendGain, GainNumbered, GainKernel, IsAllocator
<1>5. \A q \in DOMAIN backends.plans : SoundBackend(q)
  BY DEF IInv, BInv
<1>6. PlansGrow
  <2>1. ASSUME NEW q \in DOMAIN backends.plans
        PROVE  /\ q \in DOMAIN backends'.plans
               /\ \A s \in DOMAIN backends.plans[q].revisions :
                     /\ s \in DOMAIN backends'.plans[q].revisions
                     /\ backends'.plans[q].revisions[s] = backends.plans[q].revisions[s]
    BY DEF BackendGain, GainPlans, GainRevision
  <2> QED
    BY <2>1 DEF PlansGrow
<1>7. ASSUME NEW q \in DOMAIN backends'.plans, NEW s \in DOMAIN backends'.plans[q].revisions
      PROVE  SoundRevision(q, s)'
  <2>1. CASE q = p /\ s = r
    <3>1. MadeBackend(backends'.events[n + 1], p, r)
      BY <1>3 DEF BackendGain
    <3>2. OfBackend(p, r, Len(backends.events))'
      BY <1>3, <3>1 DEF OfBackend
    <3>3. r \in 1..backends'.allocator.revision
      BY <1>4
    <3> QED
      BY <2>1, <3>2, <3>3 DEF SoundRevision, BackendGain, GainRevision, GainKernel, BackendIsValid
  <2>2. CASE ~(q = p /\ s = r)
    <3>1. /\ q \in DOMAIN backends.plans /\ s \in DOMAIN backends.plans[q].revisions
          /\ backends'.plans[q].revisions[s] = backends.plans[q].revisions[s]
          /\ backends'.plans[q].anchor = backends.plans[q].anchor
      BY <2>2 DEF BackendGain, GainPlans, GainRevision
    <3>2. SoundRevision(q, s)
      BY <1>5, <3>1 DEF SoundBackend
    <3>3. OfBackend(q, s, Len(backends.events))'
      BY <1>3, <3>2 DEF SoundRevision, OfBackend, Longer, MadeBackend
    <3>4. s \in 1..backends'.allocator.revision
      BY <1>4, <3>2 DEF SoundRevision
    <3>5. backends'.plans[q].revisions[s].program \in 1..backends'.allocator.kernel
      BY <1>4, <3>1, <3>2 DEF SoundRevision
    <3> QED
      BY <3>1, <3>2, <3>3, <3>4, <3>5 DEF SoundRevision, BackendIsValid
  <2> QED
    BY <2>1, <2>2
<1>8. ASSUME NEW q \in DOMAIN backends'.plans PROVE SoundBackend(q)'
  <2>1. CASE q = p
    BY <1>7, <2>1 DEF SoundBackend, BackendGain, GainRevision
  <2>2. CASE q # p
    BY <1>5, <1>7, <2>2 DEF SoundBackend, BackendGain, GainPlans
  <2> QED
    BY <2>1, <2>2
<1>9. ASSUME NEW s \in 1..backends'.allocator.revision PROVE s \in Revisions(backends)'
  <2>1. CASE s = r
    BY <2>1 DEF Revisions, BackendGain, GainPlans, GainRevision
  <2>2. CASE s # r
    <3>1. s \in Revisions(backends)
      BY <1>4, <2>2 DEF IInv, BInv
    <3> QED
      BY <1>6, <3>1 DEF Revisions, PlansGrow
  <2> QED
    BY <2>1, <2>2
<1>10. ASSUME NEW k \in 1..backends'.allocator.kernel PROVE IsProgram(k)'
  <2>1. CASE k \in 1..backends.allocator.kernel
    <3>1. IsProgram(k)
      BY <2>1 DEF IInv, BInv
    <3> QED
      BY <1>6, <3>1 DEF IsProgram, PlansGrow
  <2>2. CASE k \notin 1..backends.allocator.kernel
    <3>1. k = backends'.allocator.kernel /\ backends'.plans[p].revisions[r].program = k
      BY <1>4, <2>2 DEF BackendGain, GainKernel
    <3> QED
      BY <3>1 DEF IsProgram, BackendGain, GainPlans, GainRevision
  <2> QED
    BY <2>1, <2>2
<1>11. ASSUME NEW i \in 1..Len(backends'.events) PROVE Lowered(backends.events[i])'
  <2>1. PICK e : e = backends'.events[i]
    OBVIOUS
  <2>2. Lowered(e)
    <3>1. CASE i = n + 1
      BY <1>3, <2>1, <3>1 DEF BackendGain
    <3>2. CASE i # n + 1
      BY <1>3, <2>1, <3>2 DEF Longer, IInv, BInv
    <3> QED
      BY <3>1, <3>2
  <2> QED
    BY <1>1, <2>1, <2>2 DEF Lowered, OfTarget
<1>12. BInv'
  BY <1>3, <1>4, <1>8, <1>9, <1>10, <1>11 DEF BInv, BackendGain, GainLogged, GainPlans, Longer
<1>13. TInv' /\ SInv' /\ TargetsStay
  BY <1>1, LogsAreLogs, SameIsLonger, SchedulesStay DEF IInv, TInv, OfTarget, TargetsStay
<1>14. AInv' /\ MInv'
  BY <1>1, <1>3, <1>6, LogsAreLogs, SameIsLonger, ArtifactsStay, RecordsStay DEF IInv, BackendGain, GainNumbered
<1>15. CInv' /\ DInv'
  BY <1>1, <1>13, LogsAreLogs, SameIsLonger, CpuArtifactsStay, CpuRecordsStay DEF IInv
<1> QED
  BY <1>12, <1>13, <1>14, <1>15 DEF IInv
---------------------------------------------------------------------------
LEMMA HashedFacts ==
    ASSUME NEW p, NEW anchor, NEW x
    PROVE  /\ IsRevision(Hashed(p, anchor, x))
           /\ Hashed(p, anchor, x).hash = BackendHash(p, anchor, Hashed(p, anchor, x))
           /\ Hashed(p, anchor, x).id = x.id /\ Hashed(p, anchor, x).program = x.program
           /\ Hashed(p, anchor, x).parents = x.parents
  BY DEF Hashed, IsRevision, BackendHash

\* An allocator that handed out a revision, and a plan.
LEMMA RevisionTaken ==
    ASSUME NEW a, IsAllocator(a), NEW r \in Nat
    PROVE  /\ IsAllocator([a EXCEPT !.revision = r]) /\ [a EXCEPT !.revision = r].revision = r
           /\ [a EXCEPT !.revision = r].plan = a.plan
           /\ [a EXCEPT !.revision = r].kernel = a.kernel
           /\ [a EXCEPT !.revision = r].artifact = a.artifact
           /\ [a EXCEPT !.revision = r].module = a.module
           /\ [a EXCEPT !.revision = r].measurement = a.measurement
  BY DEF IsAllocator

LEMMA PlanTaken ==
    ASSUME NEW a, IsAllocator(a), NEW p \in Nat
    PROVE  /\ IsAllocator([a EXCEPT !.plan = p]) /\ [a EXCEPT !.plan = p].plan = p
           /\ [a EXCEPT !.plan = p].revision = a.revision
           /\ [a EXCEPT !.plan = p].kernel = a.kernel
           /\ [a EXCEPT !.plan = p].artifact = a.artifact
           /\ [a EXCEPT !.plan = p].module = a.module
           /\ [a EXCEPT !.plan = p].measurement = a.measurement
  BY DEF IsAllocator

LEMMA KernelTaken ==
    ASSUME NEW a, IsAllocator(a), NEW k \in Nat
    PROVE  /\ IsAllocator([a EXCEPT !.kernel = k]) /\ [a EXCEPT !.kernel = k].kernel = k
           /\ [a EXCEPT !.kernel = k].revision = a.revision
           /\ [a EXCEPT !.kernel = k].plan = a.plan
           /\ [a EXCEPT !.kernel = k].artifact = a.artifact
           /\ [a EXCEPT !.kernel = k].module = a.module
           /\ [a EXCEPT !.kernel = k].measurement = a.measurement
  BY DEF IsAllocator

\* A plan of its own, with one revision.
NewBackend(id, plan, event, next) ==
    LET last == backends.allocator
    IN  /\ backends' = [plans |-> With(backends.plans, id, plan), allocator |-> next,
                        events |-> Append(backends.events, event)]
        /\ id = last.plan + 1 /\ plan.head = last.revision + 1
        /\ IsBackend(plan) /\ DOMAIN plan.revisions = {plan.head}
        /\ event.kind # "sealed" /\ event.id = id /\ event.plan = plan
        /\ Lowered(event) /\ LoweredNow(event)
        /\ event.kind = "forked" =>
              /\ event.source \in DOMAIN backends.plans
              /\ event.base \in DOMAIN backends.plans[event.source].revisions
              /\ backends.plans[event.source].revisions[event.base].hash = event.expected
        /\ IsAllocator(next) /\ next.plan = id /\ next.revision = plan.head
        /\ next.artifact = last.artifact /\ next.module = last.module
        /\ next.measurement = last.measurement
        /\ IsRevision(plan.revisions[plan.head])
        /\ plan.revisions[plan.head].hash = BackendHash(id, plan.anchor, plan.revisions[plan.head])
        /\ plan.revisions[plan.head].program \in 1..next.kernel
        /\ \/ next.kernel = last.kernel
           \/ next.kernel = last.kernel + 1 /\ plan.revisions[plan.head].program = next.kernel
        /\ UNCHANGED <<upstream, targets, schedules, artifacts, measurements,
                       cpuArtifacts, cpuMeasurements>>

LEMMA NewBackendGains ==
    ASSUME IInv, NEW id, NEW plan, NEW event, NEW next, NewBackend(id, plan, event, next)
    PROVE  BackendGain(id, plan.head, event)
<1>1. /\ backends'.plans = With(backends.plans, id, plan) /\ backends'.allocator = next
      /\ backends'.events = Append(backends.events, event)
      /\ id = backends.allocator.plan + 1 /\ next.plan = id
      /\ MadeBackend(event, id, plan.head)
  BY DEF NewBackend, MadeBackend
<1>2. /\ DOMAIN backends'.plans = DOMAIN backends.plans \cup {id} /\ backends'.plans[id] = plan
      /\ \A q \in DOMAIN backends.plans : q # id => backends'.plans[q] = backends.plans[q]
  BY <1>1, EntryFacts DEF With
<1>3. DOMAIN backends.plans = 1..backends.allocator.plan /\ backends.allocator.plan \in Nat
  BY DEF IInv, BInv, IsAllocator
<1>4. id \notin DOMAIN backends.plans /\ DOMAIN backends'.plans = 1..next.plan
  <2>1. PICK n \in Nat : n = backends.allocator.plan
    BY <1>3
  <2>2. id = n + 1 /\ next.plan = n + 1 /\ DOMAIN backends.plans = 1..n
    BY <1>1, <1>3, <2>1
  <2>3. DOMAIN backends'.plans = 1..(n + 1)
    BY <1>2, <2>2
  <2> QED
    BY <2>2, <2>3
<1>5. backends' = [plans |-> backends'.plans, allocator |-> backends'.allocator,
                   events |-> Append(backends.events, event)]
  BY <1>1 DEF NewBackend
<1>6. /\ BackendFits(backends.plans, event)
      /\ backends'.plans = BackendMade(backends.plans, event)
  BY <1>1, <1>4 DEF NewBackend, BackendFits, BackendMade
<1>7. GainLogged(event) /\ GainPlans(id)
  BY <1>1, <1>2, <1>4, <1>5, <1>6 DEF GainLogged, GainPlans
<1>8. GainNumbered(plan.head)
  BY <1>1 DEF NewBackend, GainNumbered
<1>9. GainRevision(id, plan.head)
  BY <1>2, <1>4 DEF NewBackend, GainRevision
<1>10. GainKernel(id, plan.head)
  BY <1>1, <1>2 DEF NewBackend, GainKernel
<1> QED
  BY <1>1, <1>7, <1>8, <1>9, <1>10 DEF NewBackend, BackendGain

LEMMA LowerGains == ASSUME IInv, BackendLower PROVE \E p, r, event : BackendGain(p, r, event)
<1> DEFINE last == backends.allocator
           id == last.plan + 1
           Anchor(p, s) == [schedule |-> p, revision |-> s, target |-> schedules.plans[p].target]
           Revision(anchor) == Hashed(id, anchor, [id |-> last.revision + 1, parents |-> <<>>,
                                                   program |-> last.kernel + 1, status |-> "proved"])
           Plan(anchor, revision) == [anchor |-> anchor, head |-> revision.id,
                                      revisions |-> With(Nothing, revision.id, revision)]
           Event(plan) == [kind |-> "lowered", id |-> id, plan |-> plan, upstream |-> upstream,
                           targets |-> Len(targets.events), schedules |-> Len(schedules.events)]
<1>1. PICK p \in DOMAIN schedules.plans : \E s \in schedules.plans[p].revisions :
         LET anchor == Anchor(p, s)
             revision == Revision(anchor)
             plan == Plan(anchor, revision)
         IN  backends' = [plans |-> With(backends.plans, id, plan),
                          allocator |-> [last EXCEPT !.plan = id, !.revision = revision.id,
                                                     !.kernel = revision.program],
                          events |-> Append(backends.events, Event(plan))]
  BY ZenonT(60) DEF BackendLower
<1>2. PICK s \in schedules.plans[p].revisions :
         LET anchor == Anchor(p, s)
             revision == Revision(anchor)
             plan == Plan(anchor, revision)
         IN  backends' = [plans |-> With(backends.plans, id, plan),
                          allocator |-> [last EXCEPT !.plan = id, !.revision = revision.id,
                                                     !.kernel = revision.program],
                          events |-> Append(backends.events, Event(plan))]
  BY <1>1
<1> DEFINE anchor == Anchor(p, s)
           revision == Revision(anchor)
           plan == Plan(anchor, revision)
           event == Event(plan)
           planned == [last EXCEPT !.plan = id]
           numbered == [planned EXCEPT !.revision = revision.id]
           next == [numbered EXCEPT !.kernel = revision.program]
<1>3. backends' = [plans |-> With(backends.plans, id, plan), allocator |-> next,
                   events |-> Append(backends.events, event)]
  BY <1>2
<1>4. IsAllocator(last) /\ last.plan \in Nat /\ last.revision \in Nat /\ last.kernel \in Nat
  BY DEF IInv, BInv, IsAllocator
<1>5. /\ IsRevision(revision) /\ revision.hash = BackendHash(id, anchor, revision)
      /\ revision.id = last.revision + 1 /\ revision.program = last.kernel + 1
  BY HashedFacts
<1>6. anchor.revision = s /\ anchor.target = schedules.plans[p].target
  OBVIOUS
<1>7. Len(targets.events) \in Nat /\ Len(schedules.events) \in Nat
  BY LogsAreLogs, LogFacts
<1>8. SoundSchedule(p)
  BY DEF IInv, SInv
<1>9. /\ event.kind = "lowered" /\ event.id = id /\ event.plan = plan
      /\ event.upstream = upstream /\ event.targets = Len(targets.events)
      /\ event.schedules = Len(schedules.events)
  OBVIOUS
<1>10. /\ IsBackend(plan) /\ plan.anchor = anchor /\ plan.head = revision.id
       /\ plan.revisions = With(Nothing, revision.id, revision)
  BY DEF IsBackend
<1> HIDE DEF revision, anchor, plan, event
<1>11. /\ id \in Nat /\ revision.id \in Nat /\ revision.program \in Nat
  BY <1>4, <1>5
<1>12. /\ IsAllocator(planned) /\ planned.plan = id /\ planned.kernel = last.kernel
       /\ planned.artifact = last.artifact /\ planned.module = last.module
       /\ planned.measurement = last.measurement
  BY <1>4, <1>11, PlanTaken
<1> HIDE DEF planned
<1>13. /\ IsAllocator(numbered) /\ numbered.plan = id /\ numbered.revision = revision.id
       /\ numbered.artifact = last.artifact /\ numbered.module = last.module
       /\ numbered.measurement = last.measurement
  BY <1>11, <1>12, RevisionTaken
<1> HIDE DEF numbered
<1>14. /\ IsAllocator(next) /\ next.plan = id /\ next.revision = revision.id
       /\ next.kernel = revision.program
       /\ next.artifact = last.artifact /\ next.module = last.module
       /\ next.measurement = last.measurement
  BY <1>11, <1>13, KernelTaken
<1> HIDE DEF next
<1>15. DOMAIN plan.revisions = {plan.head} /\ plan.revisions[plan.head] = revision
  BY <1>10 DEF With, Nothing
<1>16. Lowered(event) /\ LoweredNow(event)
  <2>1. Lowered(event)
    BY <1>6, <1>7, <1>8, <1>9, <1>10 DEF Lowered, SoundSchedule, OfSchedule
  <2>2. LoweredNow(event)
    BY <1>9 DEF LoweredNow
  <2> QED
    BY <2>1, <2>2
<1>17. next.kernel = last.kernel + 1 /\ revision.program \in 1..next.kernel
  BY <1>4, <1>5, <1>14
<1>18. UNCHANGED <<upstream, targets, schedules, artifacts, measurements,
                   cpuArtifacts, cpuMeasurements>>
  BY DEF BackendLower
<1>19. NewBackend(id, plan, event, next)
  BY <1>3, <1>5, <1>9, <1>10, <1>14, <1>15, <1>16, <1>17, <1>18 DEF NewBackend
<1> QED
  BY <1>19, NewBackendGains

LEMMA ForkGains == ASSUME IInv, BackendFork PROVE \E p, r, event : BackendGain(p, r, event)
<1> DEFINE last == backends.allocator
           id == last.plan + 1
           Revision(source, base) ==
               Hashed(id, backends.plans[source].anchor,
                      [backends.plans[source].revisions[base] EXCEPT !.id = last.revision + 1,
                                                                     !.parents = <<base>>])
           Plan(source, revision) ==
               [anchor |-> backends.plans[source].anchor, head |-> revision.id,
                revisions |-> With(Nothing, revision.id, revision)]
           Event(source, base, plan) ==
               [kind |-> "forked", id |-> id, plan |-> plan, source |-> source, base |-> base,
                expected |-> backends.plans[source].revisions[base].hash]
<1>1. PICK source \in DOMAIN backends.plans : \E base \in DOMAIN backends.plans[source].revisions :
         LET revision == Revision(source, base)
             plan == Plan(source, revision)
         IN  backends' = [plans |-> With(backends.plans, id, plan),
                          allocator |-> [last EXCEPT !.plan = id, !.revision = revision.id],
                          events |-> Append(backends.events, Event(source, base, plan))]
  BY ZenonT(60) DEF BackendFork
<1>2. PICK base \in DOMAIN backends.plans[source].revisions :
         LET revision == Revision(source, base)
             plan == Plan(source, revision)
         IN  backends' = [plans |-> With(backends.plans, id, plan),
                          allocator |-> [last EXCEPT !.plan = id, !.revision = revision.id],
                          events |-> Append(backends.events, Event(source, base, plan))]
  BY <1>1
<1> DEFINE former == backends.plans[source].revisions[base]
           anchor == backends.plans[source].anchor
           renamed == [former EXCEPT !.id = last.revision + 1]
           copy == [renamed EXCEPT !.parents = <<base>>]
           revision == Hashed(id, anchor, copy)
           plan == Plan(source, revision)
           event == Event(source, base, plan)
           planned == [last EXCEPT !.plan = id]
           next == [planned EXCEPT !.revision = revision.id]
<1>3. backends' = [plans |-> With(backends.plans, id, plan), allocator |-> next,
                   events |-> Append(backends.events, event)]
  BY <1>2
<1>4. IsAllocator(last) /\ last.plan \in Nat /\ last.revision \in Nat /\ last.kernel \in Nat
  BY DEF IInv, BInv, IsAllocator
<1>5. IsRevision(former) /\ former.program \in 1..last.kernel
  BY DEF IInv, BInv, SoundBackend, SoundRevision
<1>6. /\ event.kind = "forked" /\ event.id = id /\ event.plan = plan
      /\ event.source = source /\ event.base = base
      /\ event.expected = backends.plans[source].revisions[base].hash
  OBVIOUS
<1>7. /\ IsBackend(plan) /\ plan.anchor = anchor /\ plan.head = revision.id
      /\ plan.revisions = With(Nothing, revision.id, revision)
  BY DEF IsBackend
<1> HIDE DEF former, anchor, plan, event
<1>8. IsRevision(renamed) /\ renamed.id = last.revision + 1 /\ renamed.program = former.program
  BY <1>5 DEF IsRevision
<1> HIDE DEF renamed
<1>9. copy.id = last.revision + 1 /\ copy.program = former.program
  BY <1>8 DEF IsRevision
<1> HIDE DEF copy
<1>10. /\ IsRevision(revision) /\ revision.hash = BackendHash(id, anchor, revision)
      /\ revision.id = copy.id /\ revision.program = copy.program
  BY HashedFacts
<1> HIDE DEF revision
<1>11. id \in Nat /\ revision.id \in Nat /\ revision.id = last.revision + 1
  BY <1>4, <1>10, <1>9
<1>12. /\ IsAllocator(planned) /\ planned.plan = id /\ planned.kernel = last.kernel
       /\ planned.artifact = last.artifact /\ planned.module = last.module
       /\ planned.measurement = last.measurement
  BY <1>4, <1>11, PlanTaken
<1> HIDE DEF planned
<1>13. /\ IsAllocator(next) /\ next.plan = id /\ next.revision = revision.id
       /\ next.kernel = last.kernel
       /\ next.artifact = last.artifact /\ next.module = last.module
       /\ next.measurement = last.measurement
  BY <1>11, <1>12, RevisionTaken
<1> HIDE DEF next
<1>14. DOMAIN plan.revisions = {plan.head} /\ plan.revisions[plan.head] = revision
  BY <1>7 DEF With, Nothing
<1>15. Lowered(event) /\ LoweredNow(event)
  BY <1>6 DEF Lowered, LoweredNow
<1>16. revision.program \in 1..next.kernel
  BY <1>5, <1>10, <1>9, <1>13
<1>17. UNCHANGED <<upstream, targets, schedules, artifacts, measurements,
                   cpuArtifacts, cpuMeasurements>>
  BY DEF BackendFork
<1>18. NewBackend(id, plan, event, next)
  BY <1>3, <1>10, <1>6, <1>7, <1>11, <1>13, <1>14, <1>15, <1>16, <1>17 DEF NewBackend
<1> QED
  BY <1>18, NewBackendGains

LEMMA SealGains == ASSUME IInv, BackendSeal PROVE \E p, r, event : BackendGain(p, r, event)
<1> DEFINE last == backends.allocator
           Revision(id, base) ==
               Hashed(id, backends.plans[id].anchor,
                      [backends.plans[id].revisions[base] EXCEPT
                           !.id = last.revision + 1, !.parents = <<base>>, !.status = "sealed"])
           Event(id, base, revision) ==
               [kind |-> "sealed", id |-> id, base |-> base,
                expected |-> backends.plans[id].revisions[base].hash, revision |-> revision]
<1>1. PICK id \in DOMAIN backends.plans :
         LET base == backends.plans[id].head
             revision == Revision(id, base)
         IN  backends' =
                [plans |-> [backends.plans EXCEPT
                                ![id].head = revision.id,
                                ![id].revisions = With(@, revision.id, revision)],
                 allocator |-> [last EXCEPT !.revision = revision.id],
                 events |-> Append(backends.events, Event(id, base, revision))]
  BY DEF BackendSeal
<1> DEFINE plan == backends.plans[id]
           base == plan.head
           anchor == plan.anchor
           former == plan.revisions[base]
           renamed == [former EXCEPT !.id = last.revision + 1]
           child == [renamed EXCEPT !.parents = <<base>>]
           sealed == [child EXCEPT !.status = "sealed"]
           revision == Hashed(id, anchor, sealed)
           revisions == With(plan.revisions, revision.id, revision)
           moved == [plan EXCEPT !.head = revision.id]
           grown == [moved EXCEPT !.revisions = revisions]
           event == Event(id, base, revision)
           next == [last EXCEPT !.revision = revision.id]
<1>2. SoundBackend(id)
  BY DEF IInv, BInv
<1>3. IsBackend(plan) /\ base \in DOMAIN plan.revisions
  BY <1>2 DEF SoundBackend
<1>4. backends' = [plans |-> [backends.plans EXCEPT ![id] = grown], allocator |-> next,
                   events |-> Append(backends.events, event)]
  BY <1>1, <1>3 DEF IsBackend
<1>5. backends'.plans = [backends.plans EXCEPT ![id].head = revision.id,
                                                ![id].revisions = With(@, revision.id, revision)]
  BY <1>1
<1>6. IsAllocator(last) /\ last.plan \in Nat /\ last.revision \in Nat /\ last.kernel \in Nat
  BY DEF IInv, BInv, IsAllocator
<1>7. /\ IsRevision(former) /\ former.program \in 1..last.kernel
      /\ \A r \in DOMAIN plan.revisions : r \in 1..last.revision
  BY <1>2, <1>3 DEF SoundBackend, SoundRevision
<1>8. /\ event.kind = "sealed" /\ event.id = id /\ event.revision = revision
      /\ event.base = base /\ event.expected = plan.revisions[base].hash
  OBVIOUS
<1> HIDE DEF former, event
<1>9. IsRevision(renamed) /\ renamed.id = last.revision + 1 /\ renamed.program = former.program
  BY <1>7 DEF IsRevision
<1> HIDE DEF renamed
<1>10. /\ IsRevision(child) /\ child.id = last.revision + 1 /\ child.program = former.program
       /\ child.parents = <<base>>
  BY <1>9 DEF IsRevision
<1> HIDE DEF child
<1>11. /\ sealed.id = last.revision + 1 /\ sealed.program = former.program
       /\ sealed.parents = <<base>>
  BY <1>10 DEF IsRevision
<1> HIDE DEF sealed
<1>12. /\ IsRevision(revision) /\ revision.hash = BackendHash(id, anchor, revision)
      /\ revision.id = sealed.id /\ revision.program = sealed.program
      /\ revision.parents = sealed.parents
  BY HashedFacts
<1> HIDE DEF revision
<1>13. revision.id \in Nat /\ revision.id = last.revision + 1
  BY <1>6, <1>12, <1>11
<1>14. /\ IsAllocator(next) /\ next.plan = last.plan /\ next.revision = revision.id
       /\ next.kernel = last.kernel
       /\ next.artifact = last.artifact /\ next.module = last.module
       /\ next.measurement = last.measurement
  BY <1>6, <1>13, RevisionTaken
<1> HIDE DEF next
<1>15. /\ DOMAIN revisions = DOMAIN plan.revisions \cup {revision.id}
       /\ revisions[revision.id] = revision
       /\ \A r \in DOMAIN plan.revisions : r # revision.id => revisions[r] = plan.revisions[r]
  BY DEF With
<1>16. revision.id \notin DOMAIN plan.revisions
  BY <1>6, <1>7, <1>13
<1>17. anchor = plan.anchor
  OBVIOUS
<1> HIDE DEF plan, anchor, revisions
<1>18. IsBackend(moved) /\ moved.anchor = anchor /\ moved.head = revision.id
  BY <1>3, <1>17 DEF IsBackend
<1> HIDE DEF moved
<1>19. IsBackend(grown) /\ grown.anchor = anchor /\ grown.head = revision.id
       /\ grown.revisions = revisions
  BY <1>18 DEF IsBackend
<1> HIDE DEF grown
<1>20. /\ backends'.plans = [backends.plans EXCEPT ![id] = grown] /\ backends'.allocator = next
       /\ DOMAIN backends'.plans = DOMAIN backends.plans /\ backends'.plans[id] = grown
       /\ \A q \in DOMAIN backends.plans : q # id => backends'.plans[q] = backends.plans[q]
       /\ DOMAIN backends.plans = 1..last.plan
  BY <1>4 DEF IInv, BInv
<1>21. backends' = [plans |-> backends'.plans, allocator |-> backends'.allocator,
                    events |-> Append(backends.events, event)]
  BY <1>4
<1>22. Lowered(event) /\ LoweredNow(event) /\ MadeBackend(event, id, revision.id)
  BY <1>8 DEF Lowered, LoweredNow, MadeBackend
<1>23. revision.program \in 1..next.kernel
  BY <1>7, <1>12, <1>11, <1>14
<1>24. UNCHANGED <<upstream, targets, schedules, artifacts, measurements,
                   cpuArtifacts, cpuMeasurements>>
  BY DEF BackendSeal
<1>25. plan = backends.plans[id]
  BY DEF plan
<1>26. BackendFits(backends.plans, event)
  BY <1>12, <1>8, <1>11, <1>16, <1>25 DEF BackendFits
<1>27. backends'.plans = BackendMade(backends.plans, event)
  <2>1. [backends.plans EXCEPT ![id].head = revision.id,
                               ![id].revisions = With(@, revision.id, revision)]
            = BackendMade(backends.plans, event)
    BY <1>8 DEF BackendMade
  <2> QED
    BY <1>5, <2>1
<1>28. GainLogged(event) /\ GainNumbered(revision.id) /\ GainPlans(id)
  <2>1. GainLogged(event)
    BY <1>21, <1>26, <1>27 DEF GainLogged
  <2>2. GainNumbered(revision.id)
    BY <1>13, <1>14, <1>20 DEF GainNumbered
  <2>3. GainPlans(id)
    BY <1>14, <1>20 DEF GainPlans
  <2> QED
    BY <2>1, <2>2, <2>3
<1>29. GainRevision(id, revision.id)
  BY <1>12, <1>15, <1>16, <1>17, <1>19, <1>20, <1>25 DEF GainRevision
<1>30. GainKernel(id, revision.id)
  BY <1>14, <1>15, <1>19, <1>20, <1>23 DEF GainKernel
<1> QED
  BY <1>22, <1>24, <1>28, <1>29, <1>30 DEF BackendGain
---------------------------------------------------------------------------
\* An allocator that handed out an artifact and its modules, or a measurement.
LEMMA ArtifactTaken ==
    ASSUME NEW a, IsAllocator(a), NEW n \in Nat
    PROVE  /\ IsAllocator([a EXCEPT !.artifact = n]) /\ [a EXCEPT !.artifact = n].artifact = n
           /\ [a EXCEPT !.artifact = n].plan = a.plan
           /\ [a EXCEPT !.artifact = n].revision = a.revision
           /\ [a EXCEPT !.artifact = n].kernel = a.kernel
           /\ [a EXCEPT !.artifact = n].measurement = a.measurement
  BY DEF IsAllocator

LEMMA ModuleTaken ==
    ASSUME NEW a, IsAllocator(a), NEW n \in Nat
    PROVE  /\ IsAllocator([a EXCEPT !.module = n]) /\ [a EXCEPT !.module = n].module = n
           /\ [a EXCEPT !.module = n].plan = a.plan
           /\ [a EXCEPT !.module = n].revision = a.revision
           /\ [a EXCEPT !.module = n].kernel = a.kernel
           /\ [a EXCEPT !.module = n].artifact = a.artifact
           /\ [a EXCEPT !.module = n].measurement = a.measurement
  BY DEF IsAllocator

LEMMA MeasurementTaken ==
    ASSUME NEW a, IsAllocator(a), NEW n \in Nat
    PROVE  /\ IsAllocator([a EXCEPT !.measurement = n])
           /\ [a EXCEPT !.measurement = n].measurement = n
           /\ [a EXCEPT !.measurement = n].plan = a.plan
           /\ [a EXCEPT !.measurement = n].revision = a.revision
           /\ [a EXCEPT !.measurement = n].kernel = a.kernel
           /\ [a EXCEPT !.measurement = n].artifact = a.artifact
           /\ [a EXCEPT !.measurement = n].module = a.module
  BY DEF IsAllocator

\* The rest of the store of plans when the allocator moves on.
LEMMA AllocatorSet ==
    ASSUME IInv, NEW next, IsAllocator(next),
           backends' = [backends EXCEPT !.allocator = next],
           next.plan = backends.allocator.plan, next.revision = backends.allocator.revision,
           next.kernel = backends.allocator.kernel,
           UNCHANGED <<upstream, targets, schedules>>
    PROVE  /\ TInv' /\ SInv' /\ BInv' /\ PlansGrow /\ TargetsStay
           /\ backends'.allocator = next /\ backends'.plans = backends.plans
           /\ backends'.events = backends.events
<1>1. backends = [plans |-> backends.plans, allocator |-> backends.allocator,
                  events |-> backends.events]
  BY DEF IInv, BInv
<1>2. /\ backends'.allocator = next /\ backends'.plans = backends.plans
      /\ backends'.events = backends.events
      /\ backends' = [plans |-> backends'.plans, allocator |-> backends'.allocator,
                      events |-> backends'.events]
  BY <1>1
<1>3. BInv'
  BY <1>2, LogsAreLogs, SameIsLonger, PlansStay DEF IInv
<1>4. PlansGrow /\ TargetsStay
  BY <1>2 DEF PlansGrow, TargetsStay
<1> QED
  BY <1>2, <1>3, <1>4, LogsAreLogs, SameIsLonger, SchedulesStay DEF IInv, TInv, OfTarget

LEMMA ArtifactKeeps == ASSUME IInv, ArtifactEmit PROVE IInv'
<1> DEFINE last == backends.allocator
           id == last.artifact + 1
           Package(p, r) == [id |-> id, backend |-> backends.plans[p].revisions[r].hash,
                             modules |-> last.module + 1]
           Event(p, r) == [plan |-> p, revision |-> r, package |-> Package(p, r),
                           backends |-> Len(backends.events)]
<1>1. PICK p \in DOMAIN backends.plans : \E r \in DOMAIN backends.plans[p].revisions :
         /\ artifacts' = [packages |-> With(artifacts.packages, id, Package(p, r)),
                          events |-> Append(artifacts.events, Event(p, r))]
         /\ backends' = [backends EXCEPT !.allocator.artifact = id,
                                         !.allocator.module = Package(p, r).modules]
  BY DEF ArtifactEmit
<1>2. PICK r \in DOMAIN backends.plans[p].revisions :
         /\ artifacts' = [packages |-> With(artifacts.packages, id, Package(p, r)),
                          events |-> Append(artifacts.events, Event(p, r))]
         /\ backends' = [backends EXCEPT !.allocator.artifact = id,
                                         !.allocator.module = Package(p, r).modules]
  BY <1>1
<1> DEFINE package == Package(p, r)
           event == Event(p, r)
           named == [last EXCEPT !.artifact = id]
           next == [named EXCEPT !.module = package.modules]
           n == Len(artifacts.events)
<1>3. UNCHANGED <<upstream, targets, schedules, measurements, cpuArtifacts, cpuMeasurements>>
  BY DEF ArtifactEmit
<1>4. backends = [plans |-> backends.plans, allocator |-> backends.allocator,
                  events |-> backends.events]
  BY DEF IInv, BInv
<1>5. backends' = [backends EXCEPT !.allocator = next]
  BY <1>2, <1>4
<1>6. IsAllocator(last) /\ last.artifact = n /\ last.module = n /\ n \in Nat
  BY LogsAreLogs, LogFacts DEF IInv, BInv, AInv
<1>7. /\ package.id = n + 1 /\ package.modules = n + 1 /\ id = n + 1
      /\ package.backend = backends.plans[p].revisions[r].hash
      /\ event.plan = p /\ event.revision = r /\ event.package = package
      /\ event.backends = Len(backends.events)
  BY <1>6
<1>8. /\ artifacts'.packages = With(artifacts.packages, id, package)
      /\ artifacts'.events = Append(artifacts.events, event)
  BY <1>2
<1> HIDE DEF package, event
<1>9. id \in Nat /\ package.modules \in Nat
  BY <1>6, <1>7
<1>10. /\ IsAllocator(named) /\ named.artifact = id /\ named.plan = last.plan
      /\ named.revision = last.revision /\ named.kernel = last.kernel
      /\ named.measurement = last.measurement
  BY <1>6, <1>9, ArtifactTaken
<1> HIDE DEF named
<1>11. /\ IsAllocator(next) /\ next.artifact = id /\ next.module = package.modules
       /\ next.plan = last.plan /\ next.revision = last.revision /\ next.kernel = last.kernel
       /\ next.measurement = last.measurement
  BY <1>9, <1>10, ModuleTaken
<1>12. /\ IsAllocator(next) /\ next.artifact = n + 1 /\ next.module = n + 1
       /\ next.plan = last.plan /\ next.revision = last.revision /\ next.kernel = last.kernel
       /\ next.measurement = last.measurement
  BY <1>7, <1>11
<1> HIDE DEF next
<1>13. /\ TInv' /\ SInv' /\ BInv' /\ PlansGrow /\ TargetsStay
       /\ backends'.allocator = next /\ backends'.plans = backends.plans
       /\ backends'.events = backends.events
  BY <1>3, <1>5, <1>12, AllocatorSet
<1>14. /\ Longer(artifacts.events, artifacts'.events) /\ Len(artifacts'.events) = n + 1
       /\ artifacts'.events[n + 1] = event
  BY <1>8, LogsAreLogs, AppendFacts
<1>15. /\ DOMAIN artifacts.packages = 1..n
       /\ DOMAIN artifacts'.packages = 1..(n + 1) /\ artifacts'.packages[n + 1] = package
       /\ \A i \in 1..n : artifacts'.packages[i] = artifacts.packages[i]
  BY <1>6, <1>7, <1>8 DEF IInv, AInv, With
<1>16. OfBackend(p, r, Len(backends.events)) /\ Len(backends.events) \in Nat
  BY LogsAreLogs, LogFacts DEF IInv, BInv, SoundBackend, SoundRevision
<1>17. ASSUME NEW i \in 1..Len(artifacts'.events) PROVE SoundEmission(i)'
  <2>1. CASE i = n + 1
    <3>1. i > 1 => artifacts'.events[i - 1].backends <= Len(backends.events)
      <4> SUFFICES ASSUME i > 1 PROVE artifacts'.events[n].backends <= Len(backends.events)
        BY <1>6, <2>1
      <4>1. n \in 1..n /\ artifacts'.events[n] = artifacts.events[n]
        BY <1>6, <1>14, <2>1 DEF Longer
      <4>2. SoundEmission(n)
        BY <4>1 DEF IInv, AInv
      <4>3. artifacts.events[n].backends \in 0..Len(backends.events)
        BY <4>2 DEF SoundEmission
      <4> QED
        BY <1>16, <4>1, <4>3
    <3>2. /\ event.backends \in 0..Len(backends'.events)
          /\ OfBackend(p, r, Len(backends.events))'
      BY <1>7, <1>13, <1>16 DEF OfBackend
    <3> QED
      BY <1>7, <1>13, <1>14, <1>15, <2>1, <3>1, <3>2 DEF SoundEmission, OfBackend
  <2>2. CASE i # n + 1
    <3>1. i \in 1..n /\ artifacts'.events[i] = artifacts.events[i]
      BY <1>6, <1>14, <2>2 DEF Longer
    <3>2. i > 1 => artifacts'.events[i - 1] = artifacts.events[i - 1]
      BY <1>6, <1>14, <3>1 DEF Longer
    <3>3. SoundEmission(i)
      BY <3>1 DEF IInv, AInv
    <3> QED
      BY <1>13, <1>15, <3>1, <3>2, <3>3 DEF SoundEmission, OfBackend
  <2> QED
    BY <2>1, <2>2
<1>18. AInv'
  BY <1>12, <1>13, <1>14, <1>15, <1>17 DEF AInv, Longer
<1>19. MInv'
  BY <1>3, <1>12, <1>13, <1>14, RecordsStay DEF IInv
<1>20. CInv' /\ DInv'
  BY <1>3, <1>13, LogsAreLogs, SameIsLonger, CpuArtifactsStay, CpuRecordsStay DEF IInv
<1> QED
  BY <1>13, <1>18, <1>19, <1>20 DEF IInv

LEMMA MeasurementKeeps == ASSUME IInv, MeasurementPublish PROVE IInv'
<1> DEFINE last == backends.allocator
           id == last.measurement + 1
           Record(a, timing) == [artifact |-> ArtifactHash(artifacts.packages[a]), timing |-> timing]
           Event(a, timing) == [id |-> id, record |-> Record(a, timing),
                                artifacts |-> Len(artifacts.events)]
<1>1. PICK a \in DOMAIN artifacts.packages, timing \in Timings :
         /\ measurements' = [records |-> With(measurements.records, id, Record(a, timing)),
                             events |-> Append(measurements.events, Event(a, timing))]
         /\ backends' = [backends EXCEPT !.allocator.measurement = id]
  BY DEF MeasurementPublish
<1> DEFINE record == Record(a, timing)
           event == Event(a, timing)
           next == [last EXCEPT !.measurement = id]
           n == Len(measurements.events)
<1>2. UNCHANGED <<upstream, targets, schedules, artifacts, cpuArtifacts, cpuMeasurements>>
  BY DEF MeasurementPublish
<1>3. backends = [plans |-> backends.plans, allocator |-> backends.allocator,
                  events |-> backends.events]
  BY DEF IInv, BInv
<1>4. backends' = [backends EXCEPT !.allocator = next]
  BY <1>1, <1>3
<1>5. /\ IsAllocator(last) /\ last.measurement = n /\ n \in Nat /\ id \in Nat
      /\ Len(artifacts.events) \in Nat
  BY LogsAreLogs, LogFacts DEF IInv, BInv, MInv
<1>6. /\ id = n + 1 /\ event.id = id /\ event.record = record
      /\ event.artifacts = Len(artifacts.events)
      /\ record.artifact = ArtifactHash(artifacts.packages[a])
  BY <1>5
<1>7. /\ measurements'.records = With(measurements.records, id, record)
      /\ measurements'.events = Append(measurements.events, event)
  BY <1>1
<1> HIDE DEF record, event
<1>8. /\ IsAllocator(next) /\ next.measurement = id
      /\ next.plan = last.plan /\ next.revision = last.revision /\ next.kernel = last.kernel
      /\ next.artifact = last.artifact /\ next.module = last.module
  BY <1>5, MeasurementTaken
<1> HIDE DEF next
<1>9. /\ TInv' /\ SInv' /\ BInv' /\ PlansGrow /\ TargetsStay
      /\ backends'.allocator = next /\ backends'.plans = backends.plans
      /\ backends'.events = backends.events
  BY <1>2, <1>4, <1>8, AllocatorSet
<1>10. /\ Longer(measurements.events, measurements'.events) /\ Len(measurements'.events) = n + 1
       /\ measurements'.events[n + 1] = event
  BY <1>7, LogsAreLogs, AppendFacts
<1>11. /\ DOMAIN measurements'.records = 1..(n + 1) /\ measurements'.records[n + 1] = record
       /\ \A i \in 1..n : measurements'.records[i] = measurements.records[i]
  BY <1>5, <1>6, <1>7 DEF IInv, MInv, With
<1>12. OfArtifact(record.artifact, Len(artifacts.events))
  <2>1. a \in 1..Len(artifacts.events) /\ SoundEmission(a)
    BY DEF IInv, AInv
  <2> QED
    BY <1>6, <2>1 DEF SoundEmission, OfArtifact, ArtifactHash
<1>13. ASSUME NEW i \in 1..Len(measurements'.events) PROVE SoundRecord(i)'
  <2>1. CASE i = n + 1
    <3>1. i > 1 => measurements'.events[i - 1].artifacts <= Len(artifacts.events)
      <4> SUFFICES ASSUME i > 1 PROVE measurements'.events[n].artifacts <= Len(artifacts.events)
        BY <1>5, <2>1
      <4>1. n \in 1..n /\ measurements'.events[n] = measurements.events[n]
        BY <1>5, <1>10, <2>1 DEF Longer
      <4>2. SoundRecord(n)
        BY <4>1 DEF IInv, MInv
      <4> QED
        BY <1>5, <4>1, <4>2 DEF SoundRecord
    <3> QED
      <4>1. /\ measurements'.events[i] = event /\ measurements'.records[i] = event.record
            /\ event.id = i /\ event.artifacts \in 0..Len(artifacts'.events)
            /\ i > 1 => measurements'.events[i - 1].artifacts <= event.artifacts
        BY <1>2, <1>5, <1>6, <1>10, <1>11, <2>1, <3>1
      <4>2. \E k \in 1..event.artifacts :
               ArtifactHash(artifacts'.events[k].package) = event.record.artifact
        BY <1>2, <1>6, <1>12 DEF OfArtifact
      <4> QED
        BY <4>1, <4>2 DEF SoundRecord, OfArtifact
  <2>2. CASE i # n + 1
    <3>1. i \in 1..n /\ measurements'.events[i] = measurements.events[i]
      BY <1>5, <1>10, <2>2 DEF Longer
    <3>2. i > 1 => measurements'.events[i - 1] = measurements.events[i - 1]
      BY <1>5, <1>10, <3>1 DEF Longer
    <3>3. SoundRecord(i)
      BY <3>1 DEF IInv, MInv
    <3> QED
      BY <1>2, <1>11, <3>1, <3>2, <3>3 DEF SoundRecord, OfArtifact
  <2> QED
    BY <2>1, <2>2
<1>14. MInv'
  BY <1>6, <1>8, <1>9, <1>10, <1>11, <1>13 DEF MInv, Longer
<1>15. AInv'
  BY <1>2, <1>8, <1>9, LogsAreLogs, SameIsLonger, ArtifactsStay DEF IInv
<1>16. CInv' /\ DInv'
  BY <1>2, <1>9, LogsAreLogs, SameIsLonger, CpuArtifactsStay, CpuRecordsStay DEF IInv
<1> QED
  BY <1>9, <1>14, <1>15, <1>16 DEF IInv
---------------------------------------------------------------------------
\* What no CPU call touches.
LEMMA RestStays ==
    ASSUME IInv, UNCHANGED <<upstream, targets, schedules, backends, artifacts, measurements>>
    PROVE  TInv' /\ SInv' /\ BInv' /\ AInv' /\ MInv' /\ TargetsStay
<1>1. PlansGrow /\ TargetsStay
  BY DEF PlansGrow, TargetsStay
<1>2. TInv' /\ SInv'
  BY LogsAreLogs, SameIsLonger, SchedulesStay DEF IInv, TInv, OfTarget
<1>3. BInv'
  BY LogsAreLogs, SameIsLonger, PlansStay DEF IInv, BInv
<1>4. AInv' /\ MInv'
  BY <1>1, LogsAreLogs, SameIsLonger, ArtifactsStay, RecordsStay DEF IInv
<1> QED
  BY <1>1, <1>2, <1>3, <1>4

LEMMA CpuArtifactKeeps == ASSUME IInv, CpuArtifactEmit PROVE IInv'
<1> DEFINE Package(p, r) == [id |-> <<p, r>>, target |-> schedules.plans[p].target]
           Event(p, r) == [plan |-> p, revision |-> r, package |-> Package(p, r),
                           schedules |-> Len(schedules.events)]
<1>1. PICK p \in DOMAIN schedules.plans : \E r \in schedules.plans[p].revisions :
         /\ <<p, r>> \notin DOMAIN cpuArtifacts.packages
         /\ cpuArtifacts' = [packages |-> With(cpuArtifacts.packages, <<p, r>>, Package(p, r)),
                             events |-> Append(cpuArtifacts.events, Event(p, r))]
  BY DEF CpuArtifactEmit
<1>2. PICK r \in schedules.plans[p].revisions :
         /\ <<p, r>> \notin DOMAIN cpuArtifacts.packages
         /\ cpuArtifacts' = [packages |-> With(cpuArtifacts.packages, <<p, r>>, Package(p, r)),
                             events |-> Append(cpuArtifacts.events, Event(p, r))]
  BY <1>1
<1> DEFINE id == <<p, r>>
           package == Package(p, r)
           event == Event(p, r)
           n == Len(cpuArtifacts.events)
<1>3. UNCHANGED <<upstream, targets, schedules, backends, artifacts, measurements, cpuMeasurements>>
  BY DEF CpuArtifactEmit
<1>4. /\ cpuArtifacts'.packages = With(cpuArtifacts.packages, id, package)
      /\ cpuArtifacts'.events = Append(cpuArtifacts.events, event)
      /\ id \notin DOMAIN cpuArtifacts.packages
  BY <1>2
<1>5. /\ package.id = id /\ package.target = schedules.plans[p].target
      /\ event.plan = p /\ event.revision = r /\ event.package = package
      /\ event.schedules = Len(schedules.events)
  OBVIOUS
<1> HIDE DEF id, package, event
<1>6. /\ Longer(cpuArtifacts.events, cpuArtifacts'.events) /\ Len(cpuArtifacts'.events) = n + 1
      /\ cpuArtifacts'.events[n + 1] = event /\ n \in Nat /\ Len(schedules.events) \in Nat
  BY <1>4, LogsAreLogs, LogFacts, AppendFacts
<1>7. /\ DOMAIN cpuArtifacts'.packages = DOMAIN cpuArtifacts.packages \cup {id}
      /\ cpuArtifacts'.packages[id] = package
      /\ \A q \in DOMAIN cpuArtifacts.packages : cpuArtifacts'.packages[q] = cpuArtifacts.packages[q]
  BY <1>4 DEF With
<1>8. \A i \in 1..n : /\ SoundCpuEmission(i) /\ cpuArtifacts'.events[i] = cpuArtifacts.events[i]
                      /\ cpuArtifacts.events[i].package.id \in DOMAIN cpuArtifacts.packages
  BY <1>6 DEF IInv, CInv, SoundCpuEmission, Longer
<1>9. ASSUME NEW i \in 1..Len(cpuArtifacts'.events) PROVE SoundCpuEmission(i)'
  <2>1. CASE i = n + 1
    <3>1. i > 1 => cpuArtifacts'.events[i - 1].schedules <= Len(schedules.events)
      BY <1>6, <1>8, <2>1 DEF SoundCpuEmission
    <3>2. OfSchedule(p, r, Len(schedules.events))
      BY DEF IInv, SInv, SoundSchedule
    <3>3. /\ cpuArtifacts'.events[i] = event
          /\ i > 1 => cpuArtifacts'.events[i - 1].schedules <= event.schedules
          /\ event.schedules \in 0..Len(schedules.events)
      BY <1>5, <1>6, <2>1, <3>1
    <3>4. /\ event.plan \in DOMAIN schedules.plans
          /\ event.package.target = schedules.plans[event.plan].target
          /\ event.package.id \in DOMAIN cpuArtifacts'.packages
          /\ cpuArtifacts'.packages[event.package.id] = event.package
      BY <1>5, <1>7
    <3>5. \E k \in 1..event.schedules : /\ schedules'.events[k].plan = event.plan
                                         /\ schedules'.events[k].revision = event.revision
      BY <1>3, <1>5, <3>2 DEF OfSchedule
    <3> QED
      BY <1>3, <3>3, <3>4, <3>5 DEF SoundCpuEmission, OfSchedule
  <2>2. CASE i # n + 1
    <3>1. i \in 1..n
      BY <1>6, <2>2
    <3>2. i > 1 => cpuArtifacts'.events[i - 1] = cpuArtifacts.events[i - 1]
      BY <1>6, <1>8, <3>1
    <3>3. PICK e : e = cpuArtifacts.events[i]
      OBVIOUS
    <3>4. /\ e.package.id \in DOMAIN cpuArtifacts'.packages
          /\ cpuArtifacts'.packages[e.package.id] = e.package
      BY <1>7, <1>8, <3>1, <3>3 DEF SoundCpuEmission
    <3> QED
      <4>1. /\ e.plan \in DOMAIN schedules.plans
            /\ e.package.target = schedules.plans[e.plan].target
            /\ e.schedules \in 0..Len(schedules.events)
            /\ i > 1 => cpuArtifacts.events[i - 1].schedules <= e.schedules
            /\ OfSchedule(e.plan, e.revision, e.schedules)
        BY <1>8, <3>1, <3>3 DEF SoundCpuEmission
      <4>2. \E k \in 1..e.schedules : /\ schedules'.events[k].plan = e.plan
                                     /\ schedules'.events[k].revision = e.revision
        BY <1>3, <4>1 DEF OfSchedule
      <4>3. cpuArtifacts'.events[i] = e
        BY <1>8, <3>1, <3>3
      <4> QED
        BY <1>3, <3>2, <3>4, <4>1, <4>2, <4>3 DEF SoundCpuEmission, OfSchedule
  <2> QED
    BY <2>1, <2>2
<1>10. ASSUME NEW q \in DOMAIN cpuArtifacts'.packages
       PROVE  OfCpuArtifact(q, Len(cpuArtifacts.events))'
  <2>1. CASE q = id
    BY <1>5, <1>6, <2>1 DEF OfCpuArtifact
  <2>2. CASE q # id
    <3>1. OfCpuArtifact(q, Len(cpuArtifacts.events))
      BY <1>7, <2>2 DEF IInv, CInv
    <3> QED
      BY <1>6, <3>1 DEF OfCpuArtifact, Longer
  <2> QED
    BY <2>1, <2>2
<1>11. ASSUME NEW i \in 1..Len(cpuArtifacts'.events), NEW j \in 1..Len(cpuArtifacts'.events),
              cpuArtifacts'.events[i].package.id = cpuArtifacts'.events[j].package.id
       PROVE  i = j
  <2>1. CASE i \in 1..n /\ j \in 1..n
    BY <1>8, <1>11, <2>1 DEF IInv, CInv
  <2>2. CASE ~(i \in 1..n /\ j \in 1..n)
    BY <1>4, <1>5, <1>6, <1>8, <1>11, <2>2
  <2> QED
    BY <2>1, <2>2
<1>12. CInv'
  BY <1>6, <1>9, <1>10, <1>11 DEF CInv, Longer
<1>13. DInv'
  BY <1>3, <1>6, CpuRecordsStay DEF IInv
<1> QED
  BY <1>3, <1>12, <1>13, RestStays DEF IInv

LEMMA CpuMeasurementKeeps == ASSUME IInv, CpuMeasurementPublish PROVE IInv'
<1> DEFINE id == cpuMeasurements.next + 1
           Record(a, clock, timing) ==
               [id |-> id, artifact |-> a, clock |-> clock, timing |-> timing]
           Event(record) == [record |-> record, cpuArtifacts |-> Len(cpuArtifacts.events)]
<1>1. PICK a \in DOMAIN cpuArtifacts.packages, clock \in Clocks, timing \in Timings :
         LET record == Record(a, clock, timing)
         IN  /\ SameClock(cpuMeasurements, clock)
             /\ cpuMeasurements' = [records |-> With(cpuMeasurements.records, id, record),
                                    next |-> id,
                                    events |-> Append(cpuMeasurements.events, Event(record))]
  BY DEF CpuMeasurementPublish
<1> DEFINE record == Record(a, clock, timing)
           event == Event(record)
           n == Len(cpuMeasurements.events)
<1>2. UNCHANGED <<upstream, targets, schedules, backends, artifacts, measurements, cpuArtifacts>>
  BY DEF CpuMeasurementPublish
<1>3. /\ n \in Nat /\ id = n + 1 /\ Len(cpuArtifacts.events) \in Nat
      /\ DOMAIN cpuMeasurements.records = 1..n
  BY LogsAreLogs, LogFacts DEF IInv, DInv
<1>4. /\ cpuMeasurements'.records = With(cpuMeasurements.records, id, record)
      /\ cpuMeasurements'.next = id
      /\ cpuMeasurements'.events = Append(cpuMeasurements.events, event)
      /\ SameClock(cpuMeasurements, clock)
  BY <1>1
<1>5. /\ record.id = n + 1 /\ record.artifact = a /\ record.clock = clock
      /\ event.record = record /\ event.cpuArtifacts = Len(cpuArtifacts.events)
  BY <1>3
<1> HIDE DEF record, event
<1>6. /\ Longer(cpuMeasurements.events, cpuMeasurements'.events)
      /\ Len(cpuMeasurements'.events) = n + 1 /\ cpuMeasurements'.events[n + 1] = event
  BY <1>4, LogsAreLogs, AppendFacts
<1>7. /\ DOMAIN cpuMeasurements'.records = 1..(n + 1) /\ cpuMeasurements'.records[n + 1] = record
      /\ \A i \in 1..n : cpuMeasurements'.records[i] = cpuMeasurements.records[i]
  BY <1>3, <1>4 DEF With
<1>8. \A i \in 1..n : SoundCpuRecord(i) /\ cpuMeasurements'.events[i] = cpuMeasurements.events[i]
  BY <1>6 DEF IInv, DInv, Longer
\* The first record decides the clock, its own too.
<1>9. cpuMeasurements'.events[1].record.clock = clock
  <2>1. CASE n = 0
    BY <1>5, <1>6, <2>1
  <2>2. CASE n # 0
    <3>1. 1 \in 1..n
      BY <1>3, <2>2
    <3>2. cpuMeasurements.records[1].clock = clock
      BY <1>3, <1>4, <3>1 DEF SameClock
    <3> QED
      BY <1>8, <3>1, <3>2 DEF SoundCpuRecord
  <2> QED
    BY <2>1, <2>2
<1>10. ASSUME NEW i \in 1..Len(cpuMeasurements'.events) PROVE SoundCpuRecord(i)'
  <2>1. CASE i = n + 1
    <3>1. i > 1 => cpuMeasurements'.events[i - 1].cpuArtifacts <= Len(cpuArtifacts.events)
      BY <1>3, <1>6, <1>8, <2>1 DEF SoundCpuRecord
    <3>2. OfCpuArtifact(a, Len(cpuArtifacts.events))
      BY DEF IInv, CInv
    <3>3. OfCpuArtifact(a, Len(cpuArtifacts.events))'
      BY <1>2, <3>2 DEF OfCpuArtifact
    <3>4. cpuMeasurements'.events[i] = event /\ cpuMeasurements'.records[i] = record
      BY <1>6, <1>7, <2>1
    <3>5. event.cpuArtifacts \in 0..Len(cpuArtifacts'.events)
      BY <1>2, <1>3, <1>5
    <3>6. OfCpuArtifact(cpuMeasurements.events[i].record.artifact,
                        cpuMeasurements.events[i].cpuArtifacts)'
      BY <1>2, <1>5, <3>3, <3>4
    <3> QED
      BY <1>2, <1>5, <1>9, <2>1, <3>1, <3>4, <3>5, <3>6 DEF SoundCpuRecord
  <2>2. CASE i # n + 1
    <3>1. i \in 1..n /\ 1 \in 1..n
      BY <1>3, <1>6, <2>2
    <3>2. i > 1 => cpuMeasurements'.events[i - 1] = cpuMeasurements.events[i - 1]
      BY <1>3, <1>8, <3>1
    <3>3. PICK e : e = cpuMeasurements.events[i]
      OBVIOUS
    <3>4. cpuMeasurements'.events[i] = e /\ cpuMeasurements'.events[1] = cpuMeasurements.events[1]
      BY <1>8, <3>1, <3>3
    <3>5. /\ cpuMeasurements'.records[i] = e.record /\ e.record.id = i
          /\ e.record.clock = cpuMeasurements'.events[1].record.clock
          /\ e.cpuArtifacts \in 0..Len(cpuArtifacts.events)
          /\ OfCpuArtifact(e.record.artifact, e.cpuArtifacts)
      BY <1>7, <1>8, <3>1, <3>3, <3>4 DEF SoundCpuRecord
    <3>6. OfCpuArtifact(e.record.artifact, e.cpuArtifacts)'
      BY <1>2, <3>5 DEF OfCpuArtifact
    <3>7. i > 1 => cpuMeasurements'.events[i - 1].cpuArtifacts <= e.cpuArtifacts
      BY <1>8, <3>1, <3>2, <3>3 DEF SoundCpuRecord
    <3> QED
      BY <1>2, <3>4, <3>5, <3>6, <3>7 DEF SoundCpuRecord
  <2> QED
    BY <2>1, <2>2
<1>11. DInv'
  BY <1>3, <1>4, <1>6, <1>7, <1>10 DEF DInv, Longer
<1>12. CInv'
  BY <1>2, LogsAreLogs, SameIsLonger, RestStays, CpuArtifactsStay DEF IInv
<1> QED
  BY <1>2, <1>11, <1>12, RestStays DEF IInv
---------------------------------------------------------------------------
LEMMA InitKeeps == Init => IInv
<1> SUFFICES ASSUME Init PROVE IInv
  OBVIOUS
<1>1. DOMAIN Nothing = {}
  BY DEF Nothing
<1>2. TInv
  BY <1>1, EmptyLog DEF Init, NoTargets, TInv
<1>3. SInv
  <2>1. DOMAIN schedules.plans = 1..0
    BY <1>1 DEF Init
  <2> QED
    BY <1>1, <2>1, EmptyLog DEF Init, SInv
<1>4. BInv
  BY <1>1, EmptyLog DEF Init, BInv, IsAllocator
<1>5. AInv /\ MInv
  BY <1>1, EmptyLog DEF Init, AInv, MInv
<1>6. CInv /\ DInv
  BY <1>1, EmptyLog DEF Init, CInv, DInv
<1> QED
  BY <1>2, <1>3, <1>4, <1>5, <1>6 DEF IInv

LEMMA UnchangedKeeps == ASSUME IInv, UNCHANGED vars PROVE IInv'
<1>1. UNCHANGED <<upstream, targets, schedules, backends, artifacts, measurements,
                  cpuArtifacts, cpuMeasurements>>
  BY DEF vars
<1>2. CInv' /\ DInv'
  BY <1>1, LogsAreLogs, SameIsLonger, RestStays, CpuArtifactsStay, CpuRecordsStay DEF IInv
<1> QED
  BY <1>1, <1>2, RestStays DEF IInv

(***************************************************************************)
(* Every store agrees with its log, whatever is called in whatever order.  *)
(***************************************************************************)
THEOREM BackendsInductive == Spec => []IInv
<1>1. Init => IInv
  BY InitKeeps
<1>2. IInv /\ [Next]_vars => IInv'
  BY UpstreamKeeps, TargetKeeps, ScheduleCreateKeeps, ScheduleExtendKeeps, LowerGains, ForkGains,
     SealGains, GainKeeps, ArtifactKeeps, MeasurementKeeps, CpuArtifactKeeps, CpuMeasurementKeeps,
     UnchangedKeeps DEF Next
<1> QED
  BY <1>1, <1>2, PTL DEF Spec

(***************************************************************************)
(* A WGSL measurement names one retained artifact (backend.rs,             *)
(* artifact_hash), since no two emissions share their modules.             *)
(***************************************************************************)
THEOREM RecordsNameArtifacts == Spec => []RecordsNameOneArtifact
<1>1. IInv => RecordsNameOneArtifact
  <2> SUFFICES ASSUME IInv, NEW m \in DOMAIN measurements.records
               PROVE  Cardinality({a \in DOMAIN artifacts.packages :
                          ArtifactHash(artifacts.packages[a]) = measurements.records[m].artifact}) = 1
    BY DEF RecordsNameOneArtifact
  <2> DEFINE hash == measurements.records[m].artifact
             named == {a \in DOMAIN artifacts.packages : ArtifactHash(artifacts.packages[a]) = hash}
  <2>1. \A a \in DOMAIN artifacts.packages :
           /\ a \in 1..Len(artifacts.events) /\ artifacts.packages[a] = artifacts.events[a].package
           /\ artifacts.packages[a].modules = a
    BY DEF IInv, AInv, SoundEmission
  <2>2. m \in 1..Len(measurements.events) /\ SoundRecord(m)
    BY DEF IInv, MInv
  <2>3. PICK k \in 1..measurements.events[m].artifacts :
           ArtifactHash(artifacts.events[k].package) = hash
    BY <2>2 DEF SoundRecord, OfArtifact
  <2>4. k \in 1..Len(artifacts.events)
    BY <2>2, LogsAreLogs, LogFacts DEF SoundRecord
  <2>5. k \in DOMAIN artifacts.packages /\ ArtifactHash(artifacts.packages[k]) = hash
    BY <2>1, <2>3, <2>4 DEF IInv, AInv
  <2>6. \A a \in named : a = k
    BY <2>1, <2>5 DEF ArtifactHash
  <2>7. named = {k}
    BY <2>5, <2>6
  <2> HIDE DEF named
  <2>8. Cardinality(named) = 1
    BY <2>7, FS_Singleton
  <2> QED
    BY <2>8 DEF named
<1> QED
  BY <1>1, BackendsInductive, PTL

(***************************************************************************)
(* What an event was made from was there before its cursor                 *)
(* (workspace.rs, replay_optimization_state).                              *)
(***************************************************************************)
THEOREM CursorsCover == Spec => []CursorsCoverSources
<1>1. IInv => CursorsCoverSources
  <2> SUFFICES ASSUME IInv PROVE CursorsCoverSources
    OBVIOUS
  <2>1. /\ DOMAIN artifacts.events = 1..Len(artifacts.events)
        /\ DOMAIN measurements.events = 1..Len(measurements.events)
        /\ DOMAIN backends.events = 1..Len(backends.events)
    BY LogsAreLogs, LogFacts
  <2>2. \A i \in DOMAIN artifacts.events : SoundEmission(i)
    BY <2>1 DEF IInv, AInv
  <2>3. \A i \in DOMAIN measurements.events : SoundRecord(i)
    BY <2>1 DEF IInv, MInv
  <2>4. \A i \in DOMAIN backends.events : Lowered(backends.events[i])
    BY <2>1 DEF IInv, BInv
  <2>5. \A i \in DOMAIN artifacts.events : \E k \in 1..artifacts.events[i].backends :
            MadeBackend(backends.events[k], artifacts.events[i].plan, artifacts.events[i].revision)
    BY <2>2 DEF SoundEmission, OfBackend
  <2>6. \A i \in DOMAIN measurements.events : \E k \in 1..measurements.events[i].artifacts :
            ArtifactHash(artifacts.events[k].package) = measurements.events[i].record.artifact
    BY <2>3 DEF SoundRecord, OfArtifact
  <2> QED
    BY <2>4, <2>5, <2>6 DEF CursorsCoverSources, Lowered, OfTarget
<1> QED
  BY <1>1, BackendsInductive, PTL

\* What the loader checks of the logs it does not fold, and of the allocator.
LogsReplay ==
    /\ SchedulesReplay /\ ArtifactsReplay /\ MeasurementsReplay /\ AllocatorResumes
    /\ CpuArtifactsReplay /\ CpuMeasurementsReplay

\* The greatest identity handed out, of identities that have no gap.
LEMMA LastIdentity == ASSUME NEW ids, NEW n \in Nat, ids = 1..n PROVE Max(ids \union {0}) = n
<1>1. ids \union {0} = 0..n
  OBVIOUS
<1>2. n \in 0..n /\ \A x \in 0..n : n >= x
  OBVIOUS
<1>3. \A x \in 0..n : (\A y \in 0..n : x >= y) => x = n
  BY <1>2
<1> QED
  BY <1>1, <1>2, <1>3 DEF Max

LEMMA AllocatorIsLast == ASSUME IInv PROVE AllocatorResumes
<1> DEFINE a == backends.allocator
           packages == {artifacts.packages[i] : i \in DOMAIN artifacts.packages}
           programs == UNION {{backends.plans[p].revisions[r].program :
                                   r \in DOMAIN backends.plans[p].revisions} :
                              p \in DOMAIN backends.plans}
           modules == {package.modules : package \in packages}
<1>1. /\ a = [plan |-> a.plan, revision |-> a.revision, kernel |-> a.kernel,
              artifact |-> a.artifact, module |-> a.module, measurement |-> a.measurement]
      /\ a.plan \in Nat /\ a.revision \in Nat /\ a.kernel \in Nat
      /\ a.artifact \in Nat /\ a.module \in Nat /\ a.measurement \in Nat
  BY DEF IInv, BInv, IsAllocator
<1>2. /\ DOMAIN backends.plans = 1..a.plan /\ DOMAIN artifacts.packages = 1..a.artifact
      /\ DOMAIN measurements.records = 1..a.measurement
  BY DEF IInv, BInv, AInv, MInv
<1>3. Revisions(backends) = 1..a.revision
  <2>1. \A p \in DOMAIN backends.plans : DOMAIN backends.plans[p].revisions \subseteq 1..a.revision
    BY DEF IInv, BInv, SoundBackend, SoundRevision
  <2> QED
    BY <2>1 DEF IInv, BInv, Revisions
<1>4. programs = 1..a.kernel
  <2>1. \A p \in DOMAIN backends.plans : \A r \in DOMAIN backends.plans[p].revisions :
            backends.plans[p].revisions[r].program \in 1..a.kernel
    BY DEF IInv, BInv, SoundBackend, SoundRevision
  <2>2. \A k \in 1..a.kernel : IsProgram(k)
    BY DEF IInv, BInv
  <2> QED
    BY <2>1, <2>2 DEF IsProgram
<1>5. modules = 1..a.module
  <2>1. \A i \in DOMAIN artifacts.packages : artifacts.packages[i].modules = i
    BY DEF IInv, AInv, SoundEmission
  <2>2. DOMAIN artifacts.packages = 1..a.module
    BY DEF IInv, AInv
  <2> QED
    BY <2>1, <2>2
<1> HIDE DEF a, packages, programs, modules
<1>6. /\ Max(DOMAIN backends.plans \union {0}) = a.plan
      /\ Max(Revisions(backends) \union {0}) = a.revision
      /\ Max(programs \union {0}) = a.kernel
      /\ Max(DOMAIN artifacts.packages \union {0}) = a.artifact
      /\ Max(modules \union {0}) = a.module
      /\ Max(DOMAIN measurements.records \union {0}) = a.measurement
  BY <1>1, <1>2, <1>3, <1>4, <1>5, LastIdentity
<1> QED
  BY <1>1, <1>6 DEF AllocatorResumes, a, programs, modules, packages

\* What the invariant says of each of them.
LEMMA LogsFollow == ASSUME IInv PROVE LogsReplay
<1>1. /\ DOMAIN schedules.events = 1..Len(schedules.events)
      /\ DOMAIN artifacts.events = 1..Len(artifacts.events)
      /\ DOMAIN measurements.events = 1..Len(measurements.events)
      /\ DOMAIN cpuArtifacts.events = 1..Len(cpuArtifacts.events)
      /\ DOMAIN cpuMeasurements.events = 1..Len(cpuMeasurements.events)
      /\ Len(targets.events) \in Nat /\ Len(schedules.events) \in Nat
      /\ Len(backends.events) \in Nat /\ Len(artifacts.events) \in Nat
      /\ Len(measurements.events) \in Nat
      /\ Len(cpuArtifacts.events) \in Nat /\ Len(cpuMeasurements.events) \in Nat
  BY LogsAreLogs, LogFacts
<1>2. SchedulesReplay
  <2>1. \A i \in DOMAIN schedules.events : SoundScheduleEvent(i)
    BY <1>1 DEF IInv, SInv
  <2>2. \A i \in DOMAIN schedules.events :
           /\ schedules.events[i].upstream <= upstream
           /\ schedules.events[i].targets <= Len(targets.events)
           /\ i > 1 => schedules.events[i - 1].targets <= schedules.events[i].targets
           /\ OfTarget(schedules.events[i].target, schedules.events[i].targets)
    BY <1>1, <2>1, LogsAreLogs DEF SoundScheduleEvent
  <2>3. \A i \in DOMAIN schedules.events : i > 1 => i - 1 \in DOMAIN schedules.events
    BY <1>1
  <2> QED
    BY <2>2, <2>3 DEF SchedulesReplay, Ordered, Cursors, OfTarget
<1>3. ArtifactsReplay
  <2>1. \A i \in DOMAIN artifacts.events : SoundEmission(i)
    BY <1>1 DEF IInv, AInv
  <2>2. \A i \in DOMAIN artifacts.events :
           /\ artifacts.events[i].backends <= Len(backends.events)
           /\ i > 1 => artifacts.events[i - 1].backends <= artifacts.events[i].backends
    BY <1>1, <2>1 DEF SoundEmission
  <2>3. \A i \in DOMAIN artifacts.events : i > 1 => i - 1 \in DOMAIN artifacts.events
    BY <1>1
  <2>4. Cardinality(DOMAIN artifacts.packages) = Len(artifacts.events)
    <3>1. PICK n \in Nat : n = Len(artifacts.events)
      BY <1>1
    <3>2. Cardinality(1..n) = n
      BY FS_Interval
    <3> QED
      BY <3>1, <3>2 DEF IInv, AInv
  <2>5. Ordered(Cursors(artifacts.events, LAMBDA event : event.backends), backends.events)
    BY <2>2, <2>3 DEF Ordered, Cursors
  <2> QED
    BY <2>1, <2>4, <2>5 DEF ArtifactsReplay, SoundEmission
<1>4. MeasurementsReplay
  <2>1. \A i \in DOMAIN measurements.events : SoundRecord(i)
    BY <1>1 DEF IInv, MInv
  <2>2. \A i \in DOMAIN measurements.events :
           /\ measurements.events[i].artifacts <= Len(artifacts.events)
           /\ i > 1 => measurements.events[i - 1].artifacts <= measurements.events[i].artifacts
    BY <1>1, <2>1 DEF SoundRecord
  <2>3. \A i \in DOMAIN measurements.events : i > 1 => i - 1 \in DOMAIN measurements.events
    BY <1>1
  <2>4. Ordered(Cursors(measurements.events, LAMBDA event : event.artifacts), artifacts.events)
    BY <2>2, <2>3 DEF Ordered, Cursors
  <2> QED
    BY <2>1, <2>4 DEF MeasurementsReplay, SoundRecord
<1>5. CpuArtifactsReplay
  <2>1. \A i \in DOMAIN cpuArtifacts.events : SoundCpuEmission(i)
    BY <1>1 DEF IInv, CInv
  <2>2. \A i \in DOMAIN cpuArtifacts.events :
           /\ cpuArtifacts.events[i].schedules <= Len(schedules.events)
           /\ i > 1 => cpuArtifacts.events[i - 1].schedules <= cpuArtifacts.events[i].schedules
    BY <1>1, <2>1 DEF SoundCpuEmission
  <2>3. \A i \in DOMAIN cpuArtifacts.events : i > 1 => i - 1 \in DOMAIN cpuArtifacts.events
    BY <1>1
  <2>4. Ordered(Cursors(cpuArtifacts.events, LAMBDA event : event.schedules), schedules.events)
    BY <2>2, <2>3 DEF Ordered, Cursors
  <2>5. \A i \in DOMAIN cpuArtifacts.events : \A j \in 1..(i - 1) :
            cpuArtifacts.events[j].package.id # cpuArtifacts.events[i].package.id
    BY <1>1 DEF IInv, CInv
  <2>6. DOMAIN cpuArtifacts.packages =
            {cpuArtifacts.events[i].package.id : i \in DOMAIN cpuArtifacts.events}
    <3> DEFINE made == {cpuArtifacts.events[i].package.id : i \in DOMAIN cpuArtifacts.events}
    <3>1. \A id \in made : id \in DOMAIN cpuArtifacts.packages
      BY <2>1 DEF SoundCpuEmission
    <3>2. ASSUME NEW id \in DOMAIN cpuArtifacts.packages PROVE id \in made
      <4>1. PICK k \in 1..Len(cpuArtifacts.events) : cpuArtifacts.events[k].package.id = id
        BY DEF IInv, CInv, OfCpuArtifact
      <4> QED
        BY <1>1, <4>1
    <3> HIDE DEF made
    <3>3. DOMAIN cpuArtifacts.packages = made
      BY <3>1, <3>2
    <3> QED
      BY <3>3 DEF made
  <2> QED
    BY <2>1, <2>4, <2>5, <2>6 DEF CpuArtifactsReplay, SoundCpuEmission, OfSchedule
<1>6. CpuMeasurementsReplay
  <2>1. \A i \in DOMAIN cpuMeasurements.events : SoundCpuRecord(i)
    BY <1>1 DEF IInv, DInv
  <2>2. \A i \in DOMAIN cpuMeasurements.events :
           /\ cpuMeasurements.events[i].cpuArtifacts <= Len(cpuArtifacts.events)
           /\ i > 1 => cpuMeasurements.events[i - 1].cpuArtifacts
                           <= cpuMeasurements.events[i].cpuArtifacts
    BY <1>1, <2>1 DEF SoundCpuRecord
  <2>3. \A i \in DOMAIN cpuMeasurements.events : i > 1 => i - 1 \in DOMAIN cpuMeasurements.events
    BY <1>1
  <2>4. Ordered(Cursors(cpuMeasurements.events, LAMBDA event : event.cpuArtifacts),
                cpuArtifacts.events)
    BY <2>2, <2>3 DEF Ordered, Cursors
  <2> QED
    BY <2>1, <2>4 DEF CpuMeasurementsReplay, SoundCpuRecord, OfCpuArtifact, IInv, DInv
<1> QED
  BY <1>2, <1>3, <1>4, <1>5, <1>6, AllocatorIsLast DEF LogsReplay

(***************************************************************************)
(* The logs that are checked event by event are accepted by the loader,    *)
(* and the allocator it makes from what is retained is the one the         *)
(* workspace has (workspace.rs, replay_optimization_state).                *)
(***************************************************************************)
THEOREM LogsAlwaysReplay == Spec => []LogsReplay
  BY LogsFollow, BackendsInductive, PTL

\* What the loader's folds do with the event of a call, if it has one.
EventsReplay ==
    /\ \/ UNCHANGED targets
       \/ \E event : /\ targets'.events = Append(targets.events, event)
                     /\ targets' = WithTarget(targets, event.profile)
    /\ \/ backends'.plans = backends.plans /\ backends'.events = backends.events
       \/ \E event : /\ backends'.events = Append(backends.events, event)
                     /\ BackendFits(backends.plans, event)
                     /\ backends'.plans = BackendMade(backends.plans, event)

LEMMA EventReplays == ASSUME IInv, Next PROVE EventsReplay
<1>1. \/ UNCHANGED targets
      \/ \E event : /\ targets'.events = Append(targets.events, event)
                    /\ targets' = WithTarget(targets, event.profile)
  <2>1. CASE TargetCreate
    <3>1. PICK profile \in DOMAIN Profiles : targets' = WithTarget(targets, profile)
      BY <2>1 DEF TargetCreate
    <3>2. \E event : targets'.events = Append(targets.events, event) /\ event.profile = profile
      BY <3>1 DEF WithTarget
    <3> QED
      BY <3>1, <3>2
  <2>2. CASE ~TargetCreate
    BY <2>2 DEF Next, Upstream, ScheduleCreate, ScheduleExtend, BackendLower, BackendFork,
       BackendSeal, ArtifactEmit, MeasurementPublish, CpuArtifactEmit, CpuMeasurementPublish
  <2> QED
    BY <2>1, <2>2
<1>2. CASE BackendLower \/ BackendFork \/ BackendSeal
  <2>1. PICK p, r, event : BackendGain(p, r, event)
    BY <1>2, LowerGains, ForkGains, SealGains
  <2>2. /\ backends'.events = Append(backends.events, event)
        /\ BackendFits(backends.plans, event)
        /\ backends'.plans = BackendMade(backends.plans, event)
    BY <2>1 DEF BackendGain, GainLogged
  <2> QED
    BY <1>1, <2>2 DEF EventsReplay
<1>3. CASE ArtifactEmit \/ MeasurementPublish
  <2>1. backends = [plans |-> backends.plans, allocator |-> backends.allocator,
                    events |-> backends.events]
    BY DEF IInv, BInv
  <2>2. \E a : backends' = [backends EXCEPT !.allocator = a]
    <3>1. CASE ArtifactEmit
      <4>1. \E n, m : backends' = [backends EXCEPT !.allocator.artifact = n, !.allocator.module = m]
        BY <3>1 DEF ArtifactEmit
      <4> QED
        BY <2>1, <4>1
    <3>2. CASE MeasurementPublish
      BY <3>2 DEF MeasurementPublish
    <3> QED
      BY <1>3, <3>1, <3>2
  <2>3. backends'.plans = backends.plans /\ backends'.events = backends.events
    BY <2>1, <2>2
  <2> QED
    BY <1>1, <2>3 DEF EventsReplay
<1>4. CASE UNCHANGED backends
  BY <1>1, <1>4 DEF EventsReplay
<1> QED
  BY <1>2, <1>3, <1>4 DEF Next, Upstream, TargetCreate, ScheduleCreate, ScheduleExtend,
     CpuArtifactEmit, CpuMeasurementPublish

(***************************************************************************)
(* A step of the logs that are folded: the event that a call appends fits  *)
(* what its log made before, and what it makes of that is what the call    *)
(* left (workspace.rs, replay_optimization_state).                         *)
(***************************************************************************)
THEOREM EventsAlwaysReplay == Spec => [][EventsReplay]_vars
<1>1. IInv /\ [Next]_vars => [EventsReplay]_vars
  BY EventReplays
<1> QED
  BY <1>1, BackendsInductive, PTL DEF Spec

\* What the loader makes of the logs it folds.
Folded ==
    /\ TargetFold!Fold(0, NoTargets, targets.events) = targets
    /\ BackendFold!Fold(0, {Nothing}, backends.events) = {backends.plans}

LEMMA FoldedIsReplay ==
    Folded <=> /\ TargetsReplay
               /\ FoldLeft(BackendStep, {Nothing}, backends.events) = {backends.plans}
<1>1. TargetsReplay <=> TargetFold!Fold(0, NoTargets, targets.events) = targets
  BY DEF TargetsReplay, TargetOp, TargetFold!Fold, TargetFold!FoldLeft, FoldLeft,
     TargetFold!MapThenFoldSet, MapThenFoldSet, TargetFold!Max, Max
<1>2. FoldLeft(BackendStep, {Nothing}, backends.events)
        = BackendFold!Fold(0, {Nothing}, backends.events)
  BY DEF BackendOp, BackendFold!Fold, BackendFold!FoldLeft, FoldLeft,
     BackendFold!MapThenFoldSet, MapThenFoldSet, BackendFold!Max, Max
<1> QED
  BY <1>1, <1>2 DEF Folded

LEMMA LoweringsAreNow ==
    ASSUME IInv, Next
    PROVE  \/ backends'.events = backends.events
           \/ \E event : backends'.events = Append(backends.events, event) /\ LoweredNow(event)
<1>1. CASE BackendLower \/ BackendFork \/ BackendSeal
  <2>1. PICK p, r, event : BackendGain(p, r, event)
    BY <1>1, LowerGains, ForkGains, SealGains
  <2> QED
    BY <2>1 DEF BackendGain, GainLogged
<1>2. CASE ArtifactEmit \/ MeasurementPublish
  <2>1. backends = [plans |-> backends.plans, allocator |-> backends.allocator,
                    events |-> backends.events]
    BY DEF IInv, BInv
  <2> QED
    BY <1>2, <2>1 DEF ArtifactEmit, MeasurementPublish
<1>3. CASE UNCHANGED backends
  BY <1>3
<1> QED
  BY <1>1, <1>2, <1>3 DEF Next, Upstream, TargetCreate, ScheduleCreate, ScheduleExtend,
     CpuArtifactEmit, CpuMeasurementPublish

\* The logs that cursors point into never get shorter.
LEMMA LogsGrow ==
    ASSUME IInv, Next
    PROVE  /\ upstream \in Nat /\ upstream' \in Nat /\ upstream <= upstream'
           /\ Longer(targets.events, targets'.events)
           /\ Longer(schedules.events, schedules'.events)
<1>1. targets'.events = targets.events \/ \E e : targets'.events = Append(targets.events, e)
  BY EventReplays DEF EventsReplay
<1>2. schedules'.events = schedules.events \/ \E e : schedules'.events = Append(schedules.events, e)
  <2>1. CASE ScheduleCreate
    BY <2>1 DEF ScheduleCreate
  <2>2. CASE ScheduleExtend
    BY <2>2 DEF ScheduleExtend
  <2>3. CASE UNCHANGED schedules
    BY <2>3
  <2>4. CASE BackendLower \/ BackendFork \/ BackendSeal
    BY <2>4 DEF BackendLower, BackendFork, BackendSeal
  <2> QED
    BY <2>1, <2>2, <2>3, <2>4 DEF Next, Upstream, TargetCreate, ArtifactEmit, MeasurementPublish,
       CpuArtifactEmit, CpuMeasurementPublish
<1>3. upstream' = upstream \/ upstream' = upstream + 1
  BY DEF Next, Upstream, TargetCreate, ScheduleCreate, ScheduleExtend, BackendLower, BackendFork,
     BackendSeal, ArtifactEmit, MeasurementPublish, CpuArtifactEmit, CpuMeasurementPublish
<1>4. upstream \in Nat /\ upstream' \in Nat /\ upstream <= upstream'
  BY <1>3, LogsAreLogs
<1>5. Longer(targets.events, targets'.events)
  BY <1>1, LogsAreLogs, AppendFacts, SameIsLonger
<1>6. Longer(schedules.events, schedules'.events)
  BY <1>2, LogsAreLogs, AppendFacts, SameIsLonger
<1> QED
  BY <1>4, <1>5, <1>6

\* Cursors of lowerings are lengths the logs had, one after the other.
Within(event, n, t, s) ==
    event.kind = "lowered" =>
        event.upstream \in 0..n /\ event.targets \in 0..t /\ event.schedules \in 0..s

NotAfter(earlier, event) ==
    earlier.kind = "lowered" /\ event.kind = "lowered" =>
        /\ earlier.upstream <= event.upstream /\ earlier.targets <= event.targets
        /\ earlier.schedules <= event.schedules

KInv ==
    \A i \in 1..Len(backends.events) :
        /\ Within(backends.events[i], upstream, Len(targets.events), Len(schedules.events))
        /\ \A j \in 1..(i - 1) : NotAfter(backends.events[j], backends.events[i])

LEMMA InOrder == ASSUME IInv, KInv PROVE LoweringsInOrder
<1>1. DOMAIN backends.events = 1..Len(backends.events) /\ Len(backends.events) \in Nat
  BY LogsAreLogs, LogFacts
<1>2. upstream \in Nat /\ Len(targets.events) \in Nat /\ Len(schedules.events) \in Nat
  BY LogsAreLogs, LogFacts
<1> QED
  BY <1>1, <1>2 DEF LoweringsInOrder, KInv, Within, NotAfter

LEMMA OrderKept ==
    ASSUME IInv, KInv, Next
    PROVE  KInv'
<1> DEFINE n == Len(backends.events)
           t == Len(targets.events)
           s == Len(schedules.events)
<1>1. /\ upstream \in Nat /\ upstream' \in Nat /\ upstream <= upstream'
      /\ t \in Nat /\ t' \in Nat /\ t <= t' /\ s \in Nat /\ s' \in Nat /\ s <= s'
  BY LogsGrow, LogFacts DEF Longer
<1>2. n \in Nat
  BY LogsAreLogs, LogFacts
<1>3. \A i \in 1..n : /\ Within(backends.events[i], upstream, t, s)
                       /\ \A j \in 1..(i - 1) : NotAfter(backends.events[j], backends.events[i])
  BY DEF KInv
<1> HIDE DEF n, t, s
<1>4. \A i \in 1..n : Within(backends.events[i], upstream', t', s')
  BY <1>1, <1>3 DEF Within
<1>5. CASE backends'.events = backends.events
  BY <1>3, <1>4, <1>5 DEF KInv, n, t, s
<1>6. ASSUME NEW event, backends'.events = Append(backends.events, event), LoweredNow(event)
      PROVE  KInv'
  <2> DEFINE log == Append(backends.events, event)
  <2>1. Len(log) = n + 1 /\ log[n + 1] = event /\ \A i \in 1..n : log[i] = backends.events[i]
    BY LogsAreLogs, AppendFacts DEF Longer, n
  <2>2. Within(event, upstream', t', s')
    BY <1>1, <1>6 DEF Within, LoweredNow, t, s
  <2>3. ASSUME NEW j \in 1..n PROVE NotAfter(backends.events[j], event)
    BY <1>1, <1>3, <1>6 DEF Within, NotAfter, LoweredNow, t, s
  <2> HIDE DEF log
  <2>4. ASSUME NEW i \in 1..(n + 1)
        PROVE  Within(log[i], upstream', t', s') /\ \A j \in 1..(i - 1) : NotAfter(log[j], log[i])
    <3>1. CASE i = n + 1
      BY <1>2, <2>1, <2>2, <2>3, <3>1
    <3>2. CASE i # n + 1
      <4>1. i \in 1..n /\ \A j \in 1..(i - 1) : j \in 1..n
        BY <1>2, <3>2
      <4> QED
        BY <1>3, <1>4, <2>1, <4>1
    <3> QED
      BY <3>1, <3>2
  <2>5. backends'.events = log
    BY <1>6 DEF log
  <2> QED
    BY <2>1, <2>4, <2>5 DEF KInv, t, s
<1> QED
  BY <1>5, <1>6, LoweringsAreNow

\* A call leaves what the loader makes of the log with the call's event.
LEMMA FoldKept == ASSUME IInv, Folded, Next PROVE Folded'
<1>1. TargetFold!Fold(0, NoTargets, targets'.events) = targets'
  <2>1. CASE UNCHANGED targets
    BY <2>1 DEF Folded
  <2>2. ASSUME NEW event, targets'.events = Append(targets.events, event),
               targets' = WithTarget(targets, event.profile)
        PROVE  TargetFold!Fold(0, NoTargets, targets'.events) = targets'
    <3>1. PICK S : targets.events \in Seq(S)
      BY LogsAreLogs DEF IsLog
    <3>2. TargetFold!Fold(0, NoTargets, Append(targets.events, event))
            = TargetOp(0, TargetFold!Fold(0, NoTargets, targets.events), event)
      BY <3>1, TargetFold!FoldAppend
    <3> QED
      BY <2>2, <3>2 DEF Folded, TargetOp
  <2> QED
    BY <2>1, <2>2, EventReplays DEF EventsReplay
<1>2. BackendFold!Fold(0, {Nothing}, backends'.events) = {backends'.plans}
  <2>1. CASE backends'.plans = backends.plans /\ backends'.events = backends.events
    BY <2>1 DEF Folded
  <2>2. ASSUME NEW event, backends'.events = Append(backends.events, event),
               BackendFits(backends.plans, event),
               backends'.plans = BackendMade(backends.plans, event)
        PROVE  BackendFold!Fold(0, {Nothing}, backends'.events) = {backends'.plans}
    <3>1. PICK S : backends.events \in Seq(S)
      BY LogsAreLogs DEF IsLog
    <3>2. BackendFold!Fold(0, {Nothing}, Append(backends.events, event))
            = BackendOp(0, BackendFold!Fold(0, {Nothing}, backends.events), event)
      BY <3>1, BackendFold!FoldAppend
    <3>3. BackendStep({backends.plans}, event) = {BackendMade(backends.plans, event)}
      BY <2>2 DEF BackendStep
    <3> QED
      BY <2>2, <3>2, <3>3 DEF Folded, BackendOp
  <2> QED
    BY <2>1, <2>2, EventReplays DEF EventsReplay
<1> QED
  BY <1>1, <1>2 DEF Folded

(***************************************************************************)
(* The loader (workspace.rs, replay_optimization_state) accepts the        *)
(* snapshot of every workspace and makes of it the stores it was taken of. *)
(***************************************************************************)
THEOREM SnapshotsReplay == Spec => []SnapshotReplays
<1>1. Init => KInv /\ Folded
  <2> SUFFICES ASSUME Init PROVE KInv /\ Folded
    OBVIOUS
  <2>1. backends.events = <<>> /\ backends.plans = Nothing /\ targets.events = <<>>
        /\ targets = NoTargets
    BY DEF Init, NoTargets
  <2>2. TargetFold!Fold(0, NoTargets, <<>>) = NoTargets
    BY TargetFold!FoldEmpty
  <2>3. BackendFold!Fold(0, {Nothing}, <<>>) = {Nothing}
    BY BackendFold!FoldEmpty
  <2>4. KInv
    BY <2>1, EmptyLog DEF KInv
  <2>5. Folded
    BY <2>1, <2>2, <2>3 DEF Folded
  <2> QED
    BY <2>4, <2>5
<1>2. IInv /\ KInv /\ Folded /\ [Next]_vars => KInv' /\ Folded'
  <2>1. ASSUME KInv, Folded, UNCHANGED vars PROVE KInv' /\ Folded'
    BY <2>1 DEF vars, KInv, Folded
  <2> QED
    BY <2>1, OrderKept, FoldKept
<1>3. IInv /\ KInv /\ Folded => SnapshotReplays
  <2> SUFFICES ASSUME IInv, KInv, Folded PROVE SnapshotReplays
    OBVIOUS
  <2>1. \A p \in DOMAIN backends.plans : SoundBackend(p)
    BY DEF IInv, BInv
  <2>2. BackendsReplay
    BY <2>1, InOrder, FoldedIsReplay DEF BackendsReplay, SoundBackend, SoundRevision
  <2>3. LogsReplay
    BY LogsFollow
  <2> QED
    BY <2>2, <2>3, FoldedIsReplay DEF SnapshotReplays, LogsReplay
<1> QED
  BY <1>1, <1>2, <1>3, BackendsInductive, PTL DEF Spec

-----------------------------------------------------------------------------
(***************************************************************************)
(* What an artifact's launch answers: theorems about NativeExecution, for  *)
(* every set of programs, inputs, limits and executables and every length  *)
(* of request, pipe and frame.                                             *)
(*                                                                         *)
(* AnswerIsWhole is not inductive: that an answer's streams were read to   *)
(* their end follows from what each thread and pipe holds at every point   *)
(* before.  CallInv says so, chunk by chunk: what was sent is what was     *)
(* taken and what is in the pipe, what was written is what was got and     *)
(* what is in the pipe, and a process that ended in success wrote and read *)
(* it all.                                                                 *)
(***************************************************************************)
CONSTANTS Programs, Inputs, Limits, Executables, DefaultLimits, WorkerCaps, Runtime

VARIABLE call

Native == INSTANCE NativeExecution

\* What NativeExecution assumes of its constants.
NativeConstants == Native!ChunksAssumption /\ Native!ExecutablesAssumption

CallPhases == {"ready", "polling", "looked", "killing", "draining", "joining", "collecting",
           "collected", "returned"}

CallTypes ==
    /\ phase \in CallPhases /\ late \in BOOLEAN
    /\ worker \in {"none", "running", "exited", "reaped"}
    /\ stdin \in Nat /\ sent \in Nat /\ taken \in Nat
    /\ writer \in {"none", "writing", "done", "failed"}
    /\ pipe \in [Native!Streams -> Nat] /\ written \in [Native!Streams -> Nat]
    /\ got \in [Native!Streams -> Nat]
    /\ reader \in [Native!Streams -> {"none", "reading", "done", "failed"}]

\* Where the process is while the parent is at each point.
ProcessFollows ==
    /\ phase = "ready" => worker = "none"
    /\ worker = "none" => phase \in {"ready", "returned"}
    /\ worker # "none" => executable \in Executables
    /\ phase \in {"polling", "looked", "killing"} => worker \in {"running", "exited"}
    /\ phase \in {"draining", "joining", "collecting", "collected", "returned"} =>
          worker \in {"none", "reaped"}
    /\ phase = "collected" => reader["stdout"] = "done"

\* A result is decided once, and what is drained or killed for is no answer.
FailuresStay ==
    /\ phase \in {"ready", "polling", "looked", "joining", "collecting", "collected"} =>
          result = Native!NotYet
    /\ phase \in {"killing", "draining"} => result.code \in {"Crashed", "Timeout"}
    /\ result.code = "Timeout" => late

\* What the request's chunks are accounted by.
RequestConserved ==
    /\ sent = taken + stdin
    /\ writer = "done" => sent = RequestChunks
    /\ worker = "none" => writer = "none" /\ sent = 0

\* What a stream's chunks are accounted by, while it is read and once it was read to its end.
StreamsConserved ==
    \A s \in Native!Streams :
        /\ worker = "none" <=> reader[s] = "none"
        /\ reader[s] \in {"none", "reading"} => written[s] = got[s] + pipe[s]
        /\ reader[s] = "done" /\ got[s] <= FrameChunks => got[s] = written[s] /\ worker # "running"

\* A success is that of a process which wrote all it had to and, if it serves, read all of its input.
SuccessIsWhole ==
    worker \in {"exited", "reaped"} /\ status = "success" =>
        /\ written = executable.writes
        /\ executable.serves => writer = "done" /\ stdin = 0

\* What a call that was answered can rely on: the parent admitted it, the worker was built with the
\* parent's runtime, it admitted the call under its own limits too, and the outputs are those of the
\* parent's own artifact on the parent's own inputs, finite and of the shapes the parent derived.
AnsweredIsTrusted ==
    result.code = "Answered" =>
        /\ Native!Prepared /\ Native!PrepareNative(call.package, call.inputs, DefaultLimits)
        /\ executable.runtime = Runtime
        /\ result.outputs = Native!NativeOutputs(call.package, call.inputs)
        /\ Native!CanonicalOutputs(result.outputs, Native!OutputShapes(call.package, call.inputs))

\* A call is launched only once it was admitted.
CallAdmitted == call \in Native!Calls /\ (worker # "none" => Native!Prepared)

CallInv == /\ CallTypes /\ ProcessFollows /\ FailuresStay /\ RequestConserved /\ StreamsConserved
        /\ SuccessIsWhole /\ AnswerIsWhole /\ CallAdmitted /\ AnsweredIsTrusted

-----------------------------------------------------------------------------

\* The answer of a launched call is what the parent makes of what its worker makes of it.
LEMMA AnswerFacts ==
    ASSUME call \in Native!Calls, executable \in Executables
    PROVE  Native!Answer = Native!Trusted(call, Native!Executed(call, executable.runtime))
<1> DEFINE P(a) == a[1] = call /\ a[2] = executable.runtime
           chosen == CHOOSE a \in Native!Answers : P(a)
<1>1. <<call, executable.runtime, Native!Trusted(call, Native!Executed(call, executable.runtime))>>
        \in Native!Answers
  BY DEF Native!Answers
<1>2. \E a \in Native!Answers : P(a)
  BY <1>1
<1>3. chosen \in Native!Answers /\ P(chosen)
  BY <1>2
<1> HIDE DEF chosen
<1>4. PICK c \in Native!Calls, r \in {e.runtime : e \in Executables} :
         chosen = <<c, r, Native!Trusted(c, Native!Executed(c, r))>>
  BY <1>3 DEF Native!Answers
<1>5. c = call /\ r = executable.runtime
  BY <1>3, <1>4
<1>6. chosen[3] = Native!Trusted(c, Native!Executed(c, r))
  BY <1>4
<1> QED
  BY <1>5, <1>6 DEF Native!Answer, chosen

\* It is an answer, a rejection or a mismatch; and an answer is the parent's own.
LEMMA TrustedFacts ==
    ASSUME NEW c, NEW runtime
    PROVE  LET t == Native!Trusted(c, Native!Executed(c, runtime)) IN
           /\ t.code \in {"Answered", "Rejected", "Mismatch"}
           /\ t.code = "Answered" =>
                 /\ Native!PrepareNative(c.package, c.inputs, DefaultLimits)
                 /\ runtime = Runtime
                 /\ t.outputs = Native!NativeOutputs(c.package, c.inputs)
                 /\ Native!CanonicalOutputs(t.outputs, Native!OutputShapes(c.package, c.inputs))
<1> DEFINE e == Native!Executed(c, runtime)
           t == Native!Trusted(c, e)
<1>1. CASE e.code # "Ok"
  <2>1. e = Native!Failed("Rejected")
    BY <1>1 DEF Native!Executed
  <2>2. t = e
    BY <1>1 DEF Native!Trusted
  <2> QED
    BY <2>1, <2>2 DEF Native!Failed
<1>2. CASE e.code = "Ok"
  <2>1. /\ Native!PrepareNative(c.package, c.inputs, DefaultLimits)
        /\ e.runtime = runtime /\ e.outputs = Native!NativeOutputs(c.package, c.inputs)
    BY <1>2 DEF Native!Executed, Native!Failed
  <2>2. \/ t = Native!Failed("Mismatch")
        \/ /\ t = [code |-> "Answered", outputs |-> e.outputs]
           /\ Native!ValidRuntime(e.runtime)
           /\ Native!CanonicalOutputs(e.outputs, Native!OutputShapes(c.package, c.inputs))
    BY <1>2 DEF Native!Trusted
  <2> QED
    BY <2>1, <2>2 DEF Native!Failed, Native!ValidRuntime
<1> QED
  BY <1>1, <1>2

-----------------------------------------------------------------------------

\* The parts of the invariant, the groups of variables an action leaves alone, and what returns.
USE DEF CallInv, CallTypes, CallPhases, ProcessFollows, FailuresStay, RequestConserved,
        StreamsConserved,
        SuccessIsWhole, CallAdmitted, Native!Prepared, Native!NotYet, Native!Failed, Native!Return,
        Native!parentVars, Native!processVars, Native!inputVars, Native!outputVars

LEMMA InitIInv == Native!Init => CallInv
<1> SUFFICES ASSUME Native!Init PROVE CallInv
  OBVIOUS
<1>1. CallTypes
  BY DEF Native!Init, Native!WorkerInit
<1>2. ProcessFollows /\ CallAdmitted
  BY DEF Native!Init, Native!WorkerInit
<1>3. RequestConserved
  BY DEF Native!Init, Native!WorkerInit
<1>4. result.code = "none"
  BY DEF Native!Init, Native!WorkerInit
<1>5. FailuresStay /\ AnswerIsWhole /\ AnsweredIsTrusted
  BY <1>4 DEF Native!Init, Native!WorkerInit, AnswerIsWhole, AnsweredIsTrusted
<1>6. StreamsConserved /\ SuccessIsWhole
  BY DEF Native!Init, Native!WorkerInit
<1> QED
  BY <1>1, <1>5, <1>6, <1>2, <1>3

\* A call is refused, cannot be launched, or is.
LEMMA ExecuteKeeps == ASSUME CallInv, Native!Execute PROVE CallInv'
<1>1. CASE Native!Refuse
  BY <1>1 DEF Native!Refuse, AnswerIsWhole, AnsweredIsTrusted
<1>2. CASE Native!Launch /\ Native!SpawnFails
  BY <1>2 DEF Native!Launch, Native!SpawnFails, AnswerIsWhole, AnsweredIsTrusted
<1>3. ASSUME NEW e \in Executables, Native!Launch, Native!Spawn(e) PROVE CallInv'
  <2>1. CallTypes' /\ ProcessFollows' /\ FailuresStay' /\ RequestConserved' /\ CallAdmitted'
    BY <1>3 DEF Native!Launch, Native!Spawn
  <2>2. StreamsConserved'
    BY <1>3 DEF Native!Launch, Native!Spawn
  <2>3. SuccessIsWhole' /\ AnswerIsWhole' /\ AnsweredIsTrusted'
    BY <1>3 DEF Native!Launch, Native!Spawn, AnswerIsWhole, AnsweredIsTrusted
  <2> QED
    BY <2>1, <2>2, <2>3
<1> QED
  BY <1>1, <1>2, <1>3 DEF Native!Execute, Native!Launch

\* The parent looks at its process and at the clock.
LEMMA PollsKeeps == ASSUME CallInv, Native!Polls, UNCHANGED call PROVE CallInv'
<1>1. CASE Native!PollExited
  BY <1>1 DEF Native!PollExited, AnswerIsWhole, AnsweredIsTrusted
<1>2. CASE Native!PollRunning
  BY <1>2 DEF Native!PollRunning, AnswerIsWhole, AnsweredIsTrusted
<1>3. CASE Native!PollFails
  BY <1>3 DEF Native!PollFails, AnswerIsWhole, AnsweredIsTrusted
<1>4. CASE Native!SleepOn
  BY <1>4 DEF Native!SleepOn, AnswerIsWhole, AnsweredIsTrusted
<1>5. CASE Native!Expire
  BY <1>5 DEF Native!Expire, AnswerIsWhole, AnsweredIsTrusted
<1> QED
  BY <1>1, <1>2, <1>3, <1>4, <1>5 DEF Native!Polls

\* It ends the process and joins the threads of a launch that failed.
LEMMA FailureKeeps ==
    ASSUME CallInv, Native!TerminateAndReap \/ Native!Drain, UNCHANGED call
    PROVE  CallInv'
<1>1. CASE Native!TerminateAndReap
  BY <1>1 DEF Native!TerminateAndReap, AnswerIsWhole, AnsweredIsTrusted
<1>2. CASE Native!Drain
  BY <1>2 DEF Native!Drain, AnswerIsWhole, AnsweredIsTrusted
<1> QED
  BY <1>1, <1>2

\* It joins the threads of a launch whose process ended by itself.
LEMMA JoinKeeps ==
    ASSUME CallInv, Native!JoinWriter \/ Native!CollectOutput, UNCHANGED call
    PROVE  CallInv'
<1>1. CASE Native!JoinWriter
  BY <1>1 DEF Native!JoinWriter, Native!Ended, AnswerIsWhole, AnsweredIsTrusted
<1>2. CASE Native!CollectOutput
  BY <1>2 DEF Native!CollectOutput, Native!Ended, AnswerIsWhole, AnsweredIsTrusted
<1> QED
  BY <1>1, <1>2

\* It makes a result of what its process wrote: an answer only if all went well, and then the streams
\* were read to their end.
LEMMA CollectKeeps ==
    ASSUME NativeConstants, CallInv, Native!Collect(Native!Answer), UNCHANGED call
    PROVE  CallInv'
<1> DEFINE r == Native!CheckedOutput(Native!Answer)
<1>1. /\ phase = "collected" /\ phase' = "returned" /\ result' = r
      /\ worker = "reaped" /\ executable \in Executables /\ call \in Native!Calls /\ Native!Prepared
      /\ Native!Ended(reader["stderr"]) /\ reader["stdout"] = "done"
      /\ UNCHANGED <<call, late, Native!processVars, Native!inputVars, Native!outputVars>>
  BY DEF Native!Collect
<1>2. \/ r = Native!Failed("Malformed") \/ r = Native!Failed("Crashed")
      \/ /\ r = Native!Answer /\ reader["stderr"] = "done" /\ status = "success"
         /\ got["stdout"] <= FrameChunks /\ got["stderr"] = 0 /\ executable.response
  BY <1>1 DEF NativeConstants, Native!ChunksAssumption, Native!CheckedOutput, Native!Ended,
     Native!Streams
<1>3. CallTypes' /\ ProcessFollows' /\ RequestConserved' /\ StreamsConserved' /\ CallAdmitted'
  BY <1>1
<1>4. SuccessIsWhole'
  BY <1>1
<1>5. CASE r = Native!Failed("Malformed") \/ r = Native!Failed("Crashed")
  <2>1. FailuresStay' /\ AnswerIsWhole' /\ AnsweredIsTrusted'
    BY <1>1, <1>5 DEF AnswerIsWhole, AnsweredIsTrusted
  <2> QED
    BY <1>3, <1>4, <2>1
<1>6. CASE /\ r = Native!Answer /\ reader["stderr"] = "done" /\ status = "success"
           /\ got["stdout"] <= FrameChunks /\ got["stderr"] = 0 /\ executable.response
  <2>1. Native!Answer = Native!Trusted(call, Native!Executed(call, executable.runtime))
    BY <1>1, AnswerFacts
  <2>2. /\ result'.code \in {"Answered", "Rejected", "Mismatch"}
        /\ AnsweredIsTrusted'
    BY <1>1, <1>6, <2>1, TrustedFacts DEF AnsweredIsTrusted
  <2>3. /\ executable.serves /\ executable.writes \in [Native!Streams -> Nat]
        /\ written = executable.writes /\ writer = "done" /\ stdin = 0
    BY <1>1, <1>6 DEF NativeConstants, Native!ExecutablesAssumption
  <2>4. taken = RequestChunks
    BY <2>3
  <2>5. \A s \in Native!Streams : got[s] = written[s]
    BY <1>1, <1>6 DEF NativeConstants, Native!ChunksAssumption, Native!Streams
  <2>6. got = executable.writes
    BY <2>3, <2>5
  <2>7. FailuresStay' /\ AnswerIsWhole'
    BY <1>1, <1>6, <2>2, <2>3, <2>4, <2>6 DEF AnswerIsWhole
  <2> QED
    BY <1>3, <1>4, <2>2, <2>7
<1> QED
  BY <1>2, <1>5, <1>6

\* The worker reads, writes and ends.
LEMMA WorksKeeps == ASSUME NativeConstants, CallInv, Native!Works, UNCHANGED call PROVE CallInv'
<1>1. CASE Native!WorkerReads
  BY <1>1 DEF Native!WorkerReads, AnswerIsWhole, AnsweredIsTrusted
<1>2. CASE Native!WorkerExits
  BY <1>2 DEF Native!WorkerExits, Native!Informed, AnswerIsWhole, AnsweredIsTrusted
<1>3. CASE Native!WorkerDies
  BY <1>3 DEF Native!WorkerDies, AnswerIsWhole, AnsweredIsTrusted
<1>4. ASSUME NEW s \in Native!Streams, Native!WorkerWrites(s) PROVE CallInv'
  <2>1. CallTypes'
    BY <1>4 DEF NativeConstants, Native!ExecutablesAssumption, Native!WorkerWrites
  <2>2. StreamsConserved'
    BY <1>4 DEF Native!WorkerWrites
  <2> QED
    BY <1>4, <2>1, <2>2 DEF Native!WorkerWrites, AnswerIsWhole, AnsweredIsTrusted
<1> QED
  BY <1>1, <1>2, <1>3, <1>4 DEF Native!Works

\* The writer and the readers move chunks and end, and time passes.
LEMMA ThreadsKeep ==
    ASSUME NativeConstants, CallInv, UNCHANGED call,
           Native!Tick \/ Native!Writes \/ \E s \in Native!Streams : Native!Gathers(s)
    PROVE  CallInv'
<1>1. CASE Native!Tick
  BY <1>1 DEF Native!Tick, AnswerIsWhole, AnsweredIsTrusted
<1>2. CASE Native!WriterWrites
  BY <1>2 DEF NativeConstants, Native!ChunksAssumption, Native!WriterWrites, AnswerIsWhole,
     AnsweredIsTrusted
<1>3. CASE Native!WriterEnds
  BY <1>3 DEF Native!WriterEnds, AnswerIsWhole, AnsweredIsTrusted
<1>4. ASSUME NEW s \in Native!Streams, Native!ReaderReads(s) PROVE CallInv'
  BY <1>4 DEF Native!ReaderReads, AnswerIsWhole, AnsweredIsTrusted
<1>5. ASSUME NEW s \in Native!Streams, Native!ReaderEnds(s) PROVE CallInv'
  <2>1. CallTypes' /\ (phase = "collected" => reader'["stdout"] = "done")
    BY <1>5 DEF Native!ReaderEnds
  <2>2. StreamsConserved'
    <3> SUFFICES ASSUME NEW t \in Native!Streams
                 PROVE  /\ worker = "none" <=> reader'[t] = "none"
                        /\ reader'[t] \in {"none", "reading"} => written[t] = got[t] + pipe[t]
                        /\ reader'[t] = "done" /\ got[t] <= FrameChunks =>
                              got[t] = written[t] /\ worker # "running"
      BY <1>5 DEF Native!ReaderEnds
    <3>1. CASE t = s
      BY <1>5, <3>1 DEF NativeConstants, Native!ChunksAssumption, Native!ReaderEnds
    <3>2. CASE t # s
      BY <1>5, <3>2 DEF Native!ReaderEnds
    <3> QED
      BY <3>1, <3>2
  <2> QED
    BY <1>5, <2>1, <2>2 DEF Native!ReaderEnds, AnswerIsWhole, AnsweredIsTrusted
<1>6. ASSUME NEW s \in Native!Streams, Native!ReaderFails(s) PROVE CallInv'
  BY <1>6 DEF Native!ReaderFails, AnswerIsWhole, AnsweredIsTrusted
<1> QED
  BY <1>1, <1>2, <1>3, <1>4, <1>5, <1>6 DEF Native!Writes, Native!Gathers

\* A step that changes nothing.
LEMMA StutterKeeps == ASSUME CallInv, UNCHANGED Native!vars PROVE CallInv'
  BY DEF Native!vars, AnswerIsWhole, AnsweredIsTrusted

LEMMA CallNextKeeps == ASSUME NativeConstants, CallInv, [Native!Next]_(Native!vars) PROVE CallInv'
<1>1. CASE Native!Execute
  BY <1>1, ExecuteKeeps
<1>2. CASE Native!Parent
  BY <1>2, PollsKeeps, FailureKeeps, JoinKeeps, CollectKeeps DEF Native!Parent, Native!Ends
<1>3. CASE Native!Worker
  BY <1>3, WorksKeeps DEF Native!Worker
<1>4. CASE Native!Clock \/ Native!Writer \/ \E s \in Native!Streams : Native!Reader(s)
  BY <1>4, ThreadsKeep DEF Native!Clock, Native!Writer, Native!Reader
<1>5. CASE UNCHANGED Native!vars
  BY <1>5, StutterKeeps
<1> QED
  BY <1>1, <1>2, <1>3, <1>4, <1>5 DEF Native!Next

-----------------------------------------------------------------------------

HIDE DEF CallInv, ProcessFollows, FailuresStay

\* The invariant the other theorems rest on (launch_process_once).
THEOREM CallInductive == ASSUME NativeConstants PROVE Native!Spec => []CallInv
<1>1. Native!Init => CallInv
  BY InitIInv
<1>2. CallInv /\ [Native!Next]_(Native!vars) => CallInv'
  BY CallNextKeeps
<1> QED
  BY <1>1, <1>2, PTL DEF Native!Spec

\* An answer is only ever that of a worker which read the whole request, ended by itself and without
\* complaint, and whose whole output was read, for every length of request, pipe and frame.
THEOREM AnswerWhole == ASSUME NativeConstants PROVE Native!Spec => []AnswerIsWhole
<1>1. CallInv => AnswerIsWhole
  BY DEF CallInv
<1> QED
  BY <1>1, CallInductive, PTL

\* Outputs are given to a caller only if they are those of the artifact on its own inputs, under
\* the limits of the parent and of the worker, by a worker of the parent's runtime.
THEOREM AnswerTrusted == ASSUME NativeConstants PROVE Native!Spec => []AnsweredIsTrusted
<1>1. CallInv => AnsweredIsTrusted
  BY DEF CallInv
<1> QED
  BY <1>1, CallInductive, PTL

\* A call that returned has no process, and one that timed out did so after the deadline: the safe
\* half of EveryCallCleansUp (the other half, that it returns, is liveness).
ReturnedIsReaped ==
    /\ phase = "returned" => worker \in {"none", "reaped"}
    /\ result.code = "Timeout" => late

THEOREM ReturnLeavesNoProcess == ASSUME NativeConstants PROVE Native!Spec => []ReturnedIsReaped
<1>1. CallInv => ReturnedIsReaped
  BY DEF CallInv, ProcessFollows, FailuresStay, ReturnedIsReaped
<1> QED
  BY <1>1, CallInductive, PTL
=============================================================================
