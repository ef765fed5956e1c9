------------------------------ MODULE Backends ------------------------------
(***************************************************************************)
(* What a workspace keeps from its target manifests downwards: manifests,  *)
(* schedules (the Schedules module has their contents), backend plans, the *)
(* WGSL and CPU artifacts emitted from them, and the measurements of both. *)
(* Every store is a state and the log of the events that made it; an event *)
(* carries cursors, the lengths that the logs it depends on had.           *)
(*                                                                         *)
(* A hash is the value it covers, and the events of candidates, equality   *)
(* spaces and memory plans count as one log.                               *)
(***************************************************************************)
EXTENDS Integers, FiniteSets, SequencesExt

CONSTANTS
    Clocks,         \* sources of CPU durations
    Timings,        \* what a benchmark may measure
    None,
    \* limits of the workspace:
    MaxTargets, MaxPlans, MaxRevisions, MaxArtifacts, MaxRecords,
    \* bounds:
    MaxUpstream, MaxSchedules

ASSUME BackendConstants ==
    {MaxTargets, MaxPlans, MaxRevisions, MaxArtifacts, MaxRecords,
     MaxUpstream, MaxSchedules} \subseteq Nat

VARIABLES
    upstream,         \* events of candidates, equality spaces and memory plans
    targets,          \* [manifests, allocator, events]
    schedules,        \* [plans, events]
    backends,         \* [plans, allocator, events]
    artifacts,        \* [packages, events]
    measurements,     \* [records, events]
    cpuArtifacts,     \* [packages, events]
    cpuMeasurements   \* [records, next, events]

vars == <<upstream, targets, schedules, backends, artifacts, measurements,
          cpuArtifacts, cpuMeasurements>>

Nothing == [i \in {} |-> None]
With(f, id, x) == [i \in DOMAIN f \union {id} |-> IF i = id THEN x ELSE f[i]]

NoTargets == [manifests |-> Nothing, events |-> <<>>,
              allocator |-> [manifest |-> 0, revision |-> 0, capability |-> 0]]

Init ==
    /\ upstream = 0
    /\ targets = NoTargets
    /\ schedules = [plans |-> Nothing, events |-> <<>>]
    /\ backends = [plans |-> Nothing, events |-> <<>>,
                   allocator |-> [plan |-> 0, revision |-> 0, kernel |-> 0,
                                  artifact |-> 0, module |-> 0, measurement |-> 0]]
    /\ artifacts = [packages |-> Nothing, events |-> <<>>]
    /\ measurements = [records |-> Nothing, events |-> <<>>]
    /\ cpuArtifacts = [packages |-> Nothing, events |-> <<>>]
    /\ cpuMeasurements = [records |-> Nothing, next |-> 0, events |-> <<>>]

-----------------------------------------------------------------------------
\* Targets and schedules.

\* An event of a candidate, an equality space or a memory plan.
Upstream ==
    /\ upstream < MaxUpstream
    /\ upstream' = upstream + 1
    /\ UNCHANGED <<targets, schedules, backends, artifacts, measurements,
                   cpuArtifacts, cpuMeasurements>>

\* The compiler's own manifests: all of one depends on its profile and its
\* identities only, and each capability takes an identity.
GenericGpuV1 ==
    <<"serial_execution", "grid_block_binding", "workgroup_binding", "subgroup_lane_binding",
      "compiler_remainder", "exact_vectorization">>
WebgpuWgslV1 ==
    <<"webgpu_compute", "wgsl_v1_source", "serial_execution", "grid_workgroup_binding",
      "global_storage_buffers", "uniform_parameter_block", "compiler_bounds_checks",
      "compiler_remainder", "exact_vectorization_1_2_4", "ordered_dispatch_graph">>
CpuScalarV1 ==
    <<"deterministic_serial_execution", "portable_scalar_bytecode_v1", "scalar_f32",
      "one_dimensional_f32_tensors", "compiler_bounds_validation",
      "checked_size_and_index_arithmetic">>
Profiles == [generic |-> GenericGpuV1, webgpu |-> WebgpuWgslV1, cpu |-> CpuScalarV1]

\* The manifest covers its own identities, so that no two have one hash.
WithTarget(store, profile) ==
    LET last == store.allocator
        allocator == [manifest |-> last.manifest + 1, revision |-> last.revision + 1,
                      capability |-> last.capability + Len(Profiles[profile])]
        manifest == [id |-> allocator.manifest, revision |-> allocator.revision,
                     profile |-> profile,
                     capabilities |-> [i \in DOMAIN Profiles[profile] |->
                                         [id |-> last.capability + i, name |-> Profiles[profile][i]]]]
    IN  [manifests |-> With(store.manifests, manifest.id, manifest),
         allocator |-> allocator,
         events |-> Append(store.events, [profile |-> profile, hash |-> manifest])]

TargetCreate ==
    \E profile \in DOMAIN Profiles :
        /\ Len(targets.events) < MaxTargets
        /\ targets' = WithTarget(targets, profile)
        /\ UNCHANGED <<upstream, schedules, backends, artifacts, measurements,
                       cpuArtifacts, cpuMeasurements>>

\* Revision `revision` of a plan, which becomes its head.
ScheduleEvent(plan, target, revision) ==
    [plan |-> plan, revision |-> revision, target |-> target,
     upstream |-> upstream, targets |-> Len(targets.events)]

\* A new plan, for a memory plan that some event already made.
ScheduleCreate ==
    \E id \in DOMAIN targets.manifests :
        LET plan == Cardinality(DOMAIN schedules.plans) + 1
            revision == Len(schedules.events) + 1
            target == targets.manifests[id]
        IN  /\ upstream > 0
            /\ revision <= MaxSchedules
            /\ schedules' =
                   [plans |-> With(schedules.plans, plan,
                                   [target |-> target, head |-> revision, revisions |-> {revision}]),
                    events |-> Append(schedules.events, ScheduleEvent(plan, target, revision))]
            /\ UNCHANGED <<upstream, targets, backends, artifacts, measurements,
                           cpuArtifacts, cpuMeasurements>>

\* A transaction or a seal: the head gets a child.
ScheduleExtend ==
    \E plan \in DOMAIN schedules.plans :
        LET revision == Len(schedules.events) + 1
            target == schedules.plans[plan].target
        IN  /\ revision <= MaxSchedules
            /\ schedules' =
                   [plans |-> [schedules.plans EXCEPT
                                   ![plan].head = revision,
                                   ![plan].revisions = @ \union {revision}],
                    events |-> Append(schedules.events, ScheduleEvent(plan, target, revision))]
            /\ UNCHANGED <<upstream, targets, backends, artifacts, measurements,
                           cpuArtifacts, cpuMeasurements>>

-----------------------------------------------------------------------------
\* Backend plans.

\* backend_hash covers the plan, its anchor and all of the revision.
BackendHash(plan, anchor, revision) ==
    [plan |-> plan, anchor |-> anchor, id |-> revision.id, parents |-> revision.parents,
     program |-> revision.program, status |-> revision.status]

Hashed(plan, anchor, revision) ==
    [id |-> revision.id, parents |-> revision.parents, program |-> revision.program,
     status |-> revision.status, hash |-> BackendHash(plan, anchor, revision)]

Revisions(store) == UNION {DOMAIN store.plans[p].revisions : p \in DOMAIN store.plans}

\* One kernel per schedule revision stands for any number of them.
BackendLower ==
    \E plan \in DOMAIN schedules.plans : \E scheduled \in schedules.plans[plan].revisions :
        LET last == backends.allocator
            id == last.plan + 1
            anchor == [schedule |-> plan, revision |-> scheduled,
                       target |-> schedules.plans[plan].target]
            revision == Hashed(id, anchor,
                               [id |-> last.revision + 1, parents |-> <<>>,
                                program |-> last.kernel + 1, status |-> "proved"])
            lowered == [anchor |-> anchor, head |-> revision.id,
                        revisions |-> With(Nothing, revision.id, revision)]
        IN  /\ anchor.target.profile = "webgpu"
            /\ Cardinality(DOMAIN backends.plans) < MaxPlans
            /\ Cardinality(Revisions(backends)) < MaxRevisions
            /\ backends' =
                   [plans |-> With(backends.plans, id, lowered),
                    allocator |-> [last EXCEPT !.plan = id, !.revision = revision.id,
                                               !.kernel = revision.program],
                    events |-> Append(backends.events,
                        [kind |-> "lowered", id |-> id, plan |-> lowered, upstream |-> upstream,
                         targets |-> Len(targets.events), schedules |-> Len(schedules.events)])]
            /\ UNCHANGED <<upstream, targets, schedules, artifacts, measurements,
                           cpuArtifacts, cpuMeasurements>>

\* Any revision of a plan is copied into a plan of its own.
BackendFork ==
    \E source \in DOMAIN backends.plans : \E base \in DOMAIN backends.plans[source].revisions :
        LET last == backends.allocator
            id == last.plan + 1
            plan == backends.plans[source]
            revision == Hashed(id, plan.anchor,
                               [plan.revisions[base] EXCEPT !.id = last.revision + 1,
                                                            !.parents = <<base>>])
            fork == [anchor |-> plan.anchor, head |-> revision.id,
                     revisions |-> With(Nothing, revision.id, revision)]
        IN  /\ Cardinality(DOMAIN backends.plans) < MaxPlans
            /\ Cardinality(Revisions(backends)) < MaxRevisions
            /\ backends' =
                   [plans |-> With(backends.plans, id, fork),
                    allocator |-> [last EXCEPT !.plan = id, !.revision = revision.id],
                    events |-> Append(backends.events,
                        [kind |-> "forked", id |-> id, plan |-> fork, source |-> source,
                         base |-> base, expected |-> plan.revisions[base].hash])]
            /\ UNCHANGED <<upstream, targets, schedules, artifacts, measurements,
                           cpuArtifacts, cpuMeasurements>>

\* The head gets a sealed child, even when it is sealed itself.
BackendSeal ==
    \E id \in DOMAIN backends.plans :
        LET plan == backends.plans[id]
            base == plan.head
            revision == Hashed(id, plan.anchor,
                               [plan.revisions[base] EXCEPT
                                    !.id = backends.allocator.revision + 1,
                                    !.parents = <<base>>, !.status = "sealed"])
        IN  /\ Cardinality(Revisions(backends)) < MaxRevisions
            /\ backends' =
                   [plans |-> [backends.plans EXCEPT
                                   ![id].head = revision.id,
                                   ![id].revisions = With(@, revision.id, revision)],
                    allocator |-> [backends.allocator EXCEPT !.revision = revision.id],
                    events |-> Append(backends.events,
                        [kind |-> "sealed", id |-> id, base |-> base,
                         expected |-> plan.revisions[base].hash, revision |-> revision])]
            /\ UNCHANGED <<upstream, targets, schedules, artifacts, measurements,
                           cpuArtifacts, cpuMeasurements>>

-----------------------------------------------------------------------------
\* WGSL artifacts and their measurements.

\* Mutant: the hash of a package does not cover its modules.
X_ArtifactHash_WithoutModules(package) == [backend |-> package.backend]

\* artifact_hash covers everything but the identity of the package.
ArtifactHash(package) == [backend |-> package.backend, modules |-> package.modules]

\* Mutant: the cursor counts the wrong log.
X_ArtifactEmit_CountsArtifacts ==
    \E plan \in DOMAIN backends.plans : \E revision \in DOMAIN backends.plans[plan].revisions :
        LET last == backends.allocator
            id == last.artifact + 1
            package == [id |-> id, backend |-> backends.plans[plan].revisions[revision].hash,
                        modules |-> last.module + 1]
        IN  /\ Cardinality(DOMAIN artifacts.packages) < MaxArtifacts
            /\ artifacts' = [packages |-> With(artifacts.packages, id, package),
                             events |-> Append(artifacts.events,
                                 [plan |-> plan, revision |-> revision, package |-> package,
                                  backends |-> Len(artifacts.events)])]
            /\ backends' = [backends EXCEPT !.allocator.artifact = id,
                                            !.allocator.module = package.modules]
            /\ UNCHANGED <<upstream, targets, schedules, measurements,
                           cpuArtifacts, cpuMeasurements>>

\* Every emission makes a package of its own, of the same revision too.
ArtifactEmit ==
    \E plan \in DOMAIN backends.plans : \E revision \in DOMAIN backends.plans[plan].revisions :
        LET last == backends.allocator
            id == last.artifact + 1
            package == [id |-> id, backend |-> backends.plans[plan].revisions[revision].hash,
                        modules |-> last.module + 1]
        IN  /\ Cardinality(DOMAIN artifacts.packages) < MaxArtifacts
            /\ artifacts' = [packages |-> With(artifacts.packages, id, package),
                             events |-> Append(artifacts.events,
                                 [plan |-> plan, revision |-> revision, package |-> package,
                                  backends |-> Len(backends.events)])]
            /\ backends' = [backends EXCEPT !.allocator.artifact = id,
                                            !.allocator.module = package.modules]
            /\ UNCHANGED <<upstream, targets, schedules, measurements,
                           cpuArtifacts, cpuMeasurements>>

\* Mutant: the identity comes from a copy of the allocator that is not kept.
X_MeasurementPublish_LosesIdentity ==
    \E artifact \in DOMAIN artifacts.packages, timing \in Timings :
        LET id == backends.allocator.measurement + 1
            record == [artifact |-> ArtifactHash(artifacts.packages[artifact]), timing |-> timing]
        IN  /\ Cardinality(DOMAIN measurements.records) < MaxRecords
            /\ measurements' = [records |-> With(measurements.records, id, record),
                                events |-> Append(measurements.events,
                                    [id |-> id, record |-> record,
                                     artifacts |-> Len(artifacts.events)])]
            /\ UNCHANGED <<upstream, targets, schedules, backends, artifacts,
                           cpuArtifacts, cpuMeasurements>>

\* A record names its artifact by hash only.
MeasurementPublish ==
    \E artifact \in DOMAIN artifacts.packages, timing \in Timings :
        LET id == backends.allocator.measurement + 1
            record == [artifact |-> ArtifactHash(artifacts.packages[artifact]), timing |-> timing]
        IN  /\ Cardinality(DOMAIN measurements.records) < MaxRecords
            /\ measurements' = [records |-> With(measurements.records, id, record),
                                events |-> Append(measurements.events,
                                    [id |-> id, record |-> record,
                                     artifacts |-> Len(artifacts.events)])]
            /\ backends' = [backends EXCEPT !.allocator.measurement = id]
            /\ UNCHANGED <<upstream, targets, schedules, artifacts,
                           cpuArtifacts, cpuMeasurements>>

-----------------------------------------------------------------------------
\* CPU artifacts and their measurements.

\* A package is named after its content, which its schedule determines: the
\* second emission checks the first and records nothing.
CpuArtifactEmit ==
    \E plan \in DOMAIN schedules.plans : \E revision \in schedules.plans[plan].revisions :
        LET id == <<plan, revision>>
            package == [id |-> id, target |-> schedules.plans[plan].target]
        IN  /\ package.target.profile = "cpu"
            /\ id \notin DOMAIN cpuArtifacts.packages
            /\ Cardinality(DOMAIN cpuArtifacts.packages) < MaxArtifacts
            /\ cpuArtifacts' = [packages |-> With(cpuArtifacts.packages, id, package),
                                events |-> Append(cpuArtifacts.events,
                                    [plan |-> plan, revision |-> revision, package |-> package,
                                     schedules |-> Len(schedules.events)])]
            /\ UNCHANGED <<upstream, targets, schedules, backends, artifacts, measurements,
                           cpuMeasurements>>

\* Production and fixture durations never share a store: the first record decides.
SameClock(store, clock) ==
    \A first \in DOMAIN store.records : first = 1 => store.records[first].clock = clock

CpuMeasurementPublish ==
    \E artifact \in DOMAIN cpuArtifacts.packages, clock \in Clocks, timing \in Timings :
        LET id == cpuMeasurements.next + 1
            record == [id |-> id, artifact |-> artifact, clock |-> clock, timing |-> timing]
        IN  /\ SameClock(cpuMeasurements, clock)
            /\ Cardinality(DOMAIN cpuMeasurements.records) < MaxRecords
            /\ cpuMeasurements' =
                   [records |-> With(cpuMeasurements.records, id, record), next |-> id,
                    events |-> Append(cpuMeasurements.events,
                                   [record |-> record,
                                    cpuArtifacts |-> Len(cpuArtifacts.events)])]
            /\ UNCHANGED <<upstream, targets, schedules, backends, artifacts, measurements,
                           cpuArtifacts>>

-----------------------------------------------------------------------------
Next ==
    \/ Upstream \/ TargetCreate \/ ScheduleCreate \/ ScheduleExtend
    \/ BackendLower \/ BackendFork \/ BackendSeal
    \/ ArtifactEmit \/ MeasurementPublish
    \/ CpuArtifactEmit \/ CpuMeasurementPublish

Spec == Init /\ [][Next]_vars
-----------------------------------------------------------------------------
\* Loading a snapshot replays or checks every log.

\* Cursors never go back and never exceed the log they point into.
Ordered(cursors, log) ==
    \A i \in DOMAIN cursors :
        /\ cursors[i] <= Len(log)
        /\ i > 1 => cursors[i - 1] <= cursors[i]

Cursors(events, Cursor(_)) == [i \in DOMAIN events |-> Cursor(events[i])]

\* Every manifest is made again, with the identities and hashes of the first time.
TargetsReplay ==
    FoldLeft(LAMBDA store, event : WithTarget(store, event.profile), NoTargets, targets.events)
        = targets

\* Targets are replayed up to an event's cursor before the event itself.
SchedulesReplay ==
    /\ Ordered(Cursors(schedules.events, LAMBDA event : event.targets), targets.events)
    /\ \A i \in DOMAIN schedules.events :
          LET event == schedules.events[i] IN
          /\ event.upstream <= upstream
          /\ \E t \in 1..event.targets : targets.events[t].hash = event.target

BackendIsValid(plan, revision) ==
    revision.hash = BackendHash(plan, backends.plans[plan].anchor, revision)

\* An event that fits the plans that the events before it made.
BackendFits(plans, event) ==
    /\ event.kind # "sealed" => event.id \notin DOMAIN plans
    /\ event.kind = "forked" =>
          /\ event.source \in DOMAIN plans
          /\ event.base \in DOMAIN plans[event.source].revisions
          /\ plans[event.source].revisions[event.base].hash = event.expected
    /\ event.kind = "sealed" =>
          /\ event.id \in DOMAIN plans
          /\ plans[event.id].head = event.base
          /\ plans[event.id].revisions[event.base].hash = event.expected
          /\ event.revision.parents = <<event.base>>
          /\ event.revision.id \notin DOMAIN plans[event.id].revisions

BackendMade(plans, event) ==
    IF event.kind # "sealed" THEN With(plans, event.id, event.plan)
    ELSE [plans EXCEPT ![event.id].head = event.revision.id,
                       ![event.id].revisions = With(@, event.revision.id, event.revision)]

\* What the log of backend events makes of the plans; nothing when one does not fit.
BackendStep(made, event) ==
    UNION {IF BackendFits(plans, event) THEN {BackendMade(plans, event)} ELSE {} : plans \in made}

\* The cursors of lowerings never go back either, whatever is logged between them.
LoweringsInOrder ==
    \A i \in DOMAIN backends.events :
        LET event == backends.events[i] IN
        event.kind = "lowered" =>
            /\ event.upstream <= upstream /\ event.targets <= Len(targets.events)
            /\ event.schedules <= Len(schedules.events)
            /\ \A j \in 1..(i - 1) :
                  LET earlier == backends.events[j] IN
                  earlier.kind = "lowered" =>
                      /\ earlier.upstream <= event.upstream /\ earlier.targets <= event.targets
                      /\ earlier.schedules <= event.schedules

BackendsReplay ==
    /\ \A p \in DOMAIN backends.plans :
          /\ backends.plans[p].head \in DOMAIN backends.plans[p].revisions
          /\ \A r \in DOMAIN backends.plans[p].revisions :
                BackendIsValid(p, backends.plans[p].revisions[r])
    /\ LoweringsInOrder
    /\ FoldLeft(BackendStep, {Nothing}, backends.events) = {backends.plans}

ArtifactsReplay ==
    /\ Ordered(Cursors(artifacts.events, LAMBDA event : event.backends), backends.events)
    /\ \A i \in DOMAIN artifacts.events :
          LET event == artifacts.events[i] IN
          /\ event.package.backend = backends.plans[event.plan].revisions[event.revision].hash
          /\ artifacts.packages[event.package.id] = event.package
    /\ Len(artifacts.events) = Cardinality(DOMAIN artifacts.packages)

MeasurementsReplay ==
    /\ Ordered(Cursors(measurements.events, LAMBDA event : event.artifacts), artifacts.events)
    /\ \A i \in DOMAIN measurements.events :
          measurements.records[measurements.events[i].id] = measurements.events[i].record

\* The allocator goes on exactly where the retained identities end.
AllocatorResumes ==
    LET packages == {artifacts.packages[a] : a \in DOMAIN artifacts.packages}
        programs == UNION {{backends.plans[p].revisions[r].program :
                                r \in DOMAIN backends.plans[p].revisions} :
                           p \in DOMAIN backends.plans}
        Last0(ids) == Max(ids \union {0})
    IN  backends.allocator =
            [plan |-> Last0(DOMAIN backends.plans), revision |-> Last0(Revisions(backends)),
             kernel |-> Last0(programs), artifact |-> Last0(DOMAIN artifacts.packages),
             module |-> Last0({package.modules : package \in packages}),
             measurement |-> Last0(DOMAIN measurements.records)]

CpuArtifactsReplay ==
    /\ Ordered(Cursors(cpuArtifacts.events, LAMBDA event : event.schedules), schedules.events)
    /\ \A i \in DOMAIN cpuArtifacts.events :
          LET event == cpuArtifacts.events[i] IN
          /\ \E k \in 1..event.schedules :
                /\ schedules.events[k].plan = event.plan
                /\ schedules.events[k].revision = event.revision
          /\ event.package.target = schedules.plans[event.plan].target
          /\ cpuArtifacts.packages[event.package.id] = event.package
          /\ \A j \in 1..(i - 1) : cpuArtifacts.events[j].package.id # event.package.id
    /\ DOMAIN cpuArtifacts.packages =
          {cpuArtifacts.events[i].package.id : i \in DOMAIN cpuArtifacts.events}

CpuMeasurementsReplay ==
    LET Cursor(event) == event.cpuArtifacts
        events == cpuMeasurements.events
    IN  /\ Ordered(Cursors(events, Cursor), cpuArtifacts.events)
        /\ \A i \in DOMAIN events :
              LET record == events[i].record IN
              /\ record.id = i
              /\ record.clock = events[1].record.clock
              /\ cpuMeasurements.records[i] = record
              /\ \E k \in 1..events[i].cpuArtifacts :
                    cpuArtifacts.events[k].package.id = record.artifact
        /\ Len(events) = cpuMeasurements.next
        /\ DOMAIN cpuMeasurements.records = 1..cpuMeasurements.next

-----------------------------------------------------------------------------
\* Properties.

\* Whatever was called in whatever order, the snapshot of the workspace can be
\* loaded again: replay_optimization_state accepts the logs that the live calls
\* wrote, and the allocators it recomputes are those the workspace has.
SnapshotReplays ==
    /\ TargetsReplay /\ SchedulesReplay /\ BackendsReplay
    /\ ArtifactsReplay /\ MeasurementsReplay /\ AllocatorResumes
    /\ CpuArtifactsReplay /\ CpuMeasurementsReplay

\* A WGSL measurement names its artifact by hash, and that hash is the hash of
\* one retained artifact only, although a revision may be emitted many times.
RecordsNameOneArtifact ==
    \A m \in DOMAIN measurements.records :
        Cardinality({a \in DOMAIN artifacts.packages :
                        ArtifactHash(artifacts.packages[a]) = measurements.records[m].artifact}) = 1

MadeBackend(event, plan, revision) ==
    /\ event.id = plan
    /\ IF event.kind = "sealed" THEN event.revision.id = revision
       ELSE revision \in DOMAIN event.plan.revisions

\* What an event is made from was there before its cursor.  The loader asks this
\* of CPU artifacts only; of an emitted WGSL artifact, a lowering and a GPU
\* measurement it only asks that the cursor lies within the log.
CursorsCoverSources ==
    /\ \A i \in DOMAIN artifacts.events :
          LET event == artifacts.events[i] IN
          \E k \in 1..event.backends :
              MadeBackend(backends.events[k], event.plan, event.revision)
    /\ \A i \in DOMAIN measurements.events :
          \E k \in 1..measurements.events[i].artifacts :
              ArtifactHash(artifacts.events[k].package) = measurements.events[i].record.artifact
    /\ \A i \in DOMAIN backends.events :
          LET event == backends.events[i] IN
          event.kind = "lowered" =>
              /\ \E k \in 1..event.schedules :
                    schedules.events[k].revision = event.plan.anchor.revision
              /\ \E k \in 1..event.targets : targets.events[k].hash = event.plan.anchor.target
=============================================================================
