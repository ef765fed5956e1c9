# A TLA+ development of AgentIR

AgentIR is a compiler for tensor programs that are written by agents. A program is not a text: it is a typed graph that a
client changes by small atomic transactions; every accepted state is an immutable revision; a frozen revision is lowered
through candidates, equality spaces, memory plans and schedules to artifacts that are executed and measured. Around the
compiler stands an evaluation layer that searches, measures artifacts on hardware, survives crashes while doing so, and
recommends a measured one.

This directory holds TLA+ models of that code, their model checking and their proofs. Paths below are relative to
`src/`; `core` is `crates/agentir-core/src`, `pe` is `crates/agentir-policy-eval/src`. `PROJECT.json` lists, for every
definition that models code, the lines it stands for.

Contents

1. [The system](#1-the-system): its components, their state, what is hard about them
2. [The modules](#2-the-modules): what each models and how it abstracts the code
3. [The runs](#3-the-runs): what is checked, with which bounds, and why they are enough
4. [The proofs](#4-the-proofs)
5. [Observations about the code](#5-observations-about-the-code)
6. [What is not modelled](#6-what-is-not-modelled), and [the plan](#7-the-plan)

How to run it, in this directory:

    tlc -workers 2 -config Workspace.cfg MCWorkspace
    tlapm OptimizationProofs.tla

## 1. The system

One process serves one JSON request per line, in order (`crates/agentir-protocol`, `crates/agentir-cli`; the evaluation
layer has its own loop, `crates/agentir-eval-cli`). There is no shared-memory concurrency in the compiler: a handler
clones the part of the state it changes, works on the clone, and publishes it at its end. What is concurrent is above and
below: several clients and branches build on one workspace, several acquisitions publish into one measurement store, the
process may die between any two requests (and, while it measures, at marked boundaries inside one), and a native worker
runs beside its parent under a deadline.

    clients --JSONL--> protocol --> Workspace --------------------------------.
                          |           revisions (SpecIR)                      |
                          |             |  frozen revision                    |
                          |           CandidateForest <-> EqualityStore       | snapshot, event logs,
                          |             |  proved candidate                   | dependency cursors
                          |           MemoryPlanStore                         |
                          |             |                                     v
                          |           SchedulePlanStore (TargetManifests)   agentir-store: archive file
                          |             |
                          |           BackendStore -> ArtifactStore, CpuArtifactStore
                          |             |                        |
                          |             |                 native worker process
                          |           MeasurementStore  <----------------.
                          |                                              | publishes
    operators -JSONL-> EvaluationRegistry                                |
                          episodes, search sessions (7A)                 |
                          acquisition sessions (7C) ---------------------+
                          recovery journals (7D) ------------------------'
                          campaigns (7E): 7A + 7C + 7D + recommendation (7B)
                          evaluation archive file

| Component | State | Operations that change it | What is hard | Correct when |
|---|---|---|---|---|
| Constraint facts, `core/constraints.rs` | union-find over dimension symbols, one extent per class, accepted equalities | declare, insert | facts in any order; a later class contradicts an earlier affine equality; a half-applied shape equality | what is proved or refused is so in every model; order does not matter; answers are never taken back |
| Workspace, `core/workspace.rs` | revision DAG, head, id allocator, event log | apply (ten actions), fork, restore from snapshot | partial failure inside a transaction; branches that share an allocator; debt opened and closed by different requests | revisions immutable; nothing leaks from a rejected request; a frozen program is closed and its shape relations hold; replay is exact |
| Candidate forest, `core/candidate.rs` | candidates, their revision DAGs, proposals, ordered proof debt, guards | create, apply, propose, translation check, discharge, fork, seal | debt may only be closed in order; forks share proposals; fallbacks must not form a cycle | the proof frontier is a proved prefix; a sealed or exact candidate has no open debt |
| Equality spaces, `core/equality.rs` | nodes hash-consed by program, proof edges, worklist | create, expand, saturate, discharge, materialize | expansion in chunks of fuel; budget failure in the middle; materialization by replay of a path | chunked expansion reaches the one-shot state; failure consumes nothing; every member is reachable by proved edges |
| Memory plans, `core/memory.rs`, `core/memory_ir.rs` | buffers, layouts, lifetimes, alias facts | create, reuse, guarded reuse, fork, seal | reuse of a buffer whose value is still read, or escapes | no operation reads a buffer after another value was written to it |
| Targets and schedules, `core/schedule.rs` | axes, bindings, equivalence steps | create, split, tile, remainder, fuse, bind, seal | index arithmetic with non-dividing factors | every point of the iteration domain is executed exactly once |
| Backend, artifacts, measurements, `core/backend.rs`, `core/cpu*.rs` | lowered plans, packages, measurement records | lower, emit, publish | identities allocated by a store others publish into | a record names an artifact that exists; ids are never reused |
| Snapshots and archives, `core/persistence.rs`, `crates/agentir-store` | event logs with dependency cursors; a file | save, load, migrate | crash while writing; logs of seven stores interleaved by cursors | what is loaded is what was saved, or the older file |
| Native execution, `crates/agentir-runtime-native-cpu` | child process, three pipes, a deadline | execute | answer, crash and deadline race; pipes fill | one outcome; the child is always reaped; a late answer is never taken |
| Acquisition (7C), `pe/acquisition.rs` | sessions of round-robin slots, checkpoints | start, advance, cancel, mark, checkpoint, resume | failure after several slots of an advance; resume from an old checkpoint on another device; sessions that share artifacts | completed slots are a prefix, each with its own retained record |
| Recovery (7D), `pe/recovery.rs` | journals of prepared attempts | prepare, execute with a fault at each boundary, reconcile, authorize retry, abandon, checkpoint, archive | death between benchmark, publication and progress; retry of what was done | no record lost or counted twice; an uncertain attempt can be told |
| Campaign (7E), `pe/campaign.rs` | the stages of one autotuning run | nine transitions | a stage is staged with the store and a journal together | the lifecycle only moves forward; execution only after preparation |
| Search (7A), `pe/search.rs` | nodes, edges, a layered frontier | start, advance by units, cancel, checkpoint, resume | interruption between any two units | any chunking reaches the one-shot result |
| Episodes, `pe/engine.rs` | observation, budget, transcript | next, submit, rank | stale observations; budget at its limit | a decision is matched with the observation it was made for |
| Ranking, learning, recommendation, `pe/ranking.rs`, `learned.rs`, `measured.rs` | none | none | ties, indifference bands | deterministic |
| Authoring, `crates/agentir-authoring` | an incremental session of bindings | apply, finish | several surfaces for one graph | a rejected payload publishes nothing |
| Reference evaluator, interpreters, WGSL and CPU emission | none | none | numeric | agreement with the reference |

## 2. The modules

Arrows read "is extended by" unless they say otherwise; a module `MCx` gives the constants of `x` small values for TLC,
a module `xProofs` holds the theorems about `x`.

    ShapeFacts --> FactTable --> MCFactTable, FactTableProofs
         '-------> Workspace --> MCWorkspace, WorkspaceProofs;  Workspace --refines (INSTANCE ... WITH)--> RevisionHistory

    CandidateForest --> EqualitySpaces --> Optimization --> MCOptimization, OptimizationProofs
    MemoryPrograms --> MemoryPlans --> MCMemoryPlans
    SchedulePrograms --> Schedules --> MCSchedules
    Backends --> BackendsProofs
    Snapshots --> Archives --> MCArchives, ArchivesProofs

    ReferencePrograms --> CpuPrograms --.
                         NativeWorker --+--> NativeExecution --> MCNativeExecution, BackendsProofs

    AcquisitionSession --> Acquisition --> Recovery --> MCRecovery
                    |              '--> MCAcquisition  '--------> RecoveryProofs
                    '--is instantiated by--.
    Episodes --> SearchSessions --> CampaignStages --> Campaigns --> MCCampaigns, CampaignsProofs
                         '--> Evaluation --> MCEvaluation

    FoldFacts  is instantiated by the modules of proofs that fold (section 4)

In all modules a request the code rejects changes nothing and is the stuttering step; a content hash is the content it
is computed from, so two hashes are equal exactly when what they cover is; logging, messages, work counters and traces,
which only derive from the modelled steps, are left out. Operators whose names begin with `X_` stand just before the
definition they vary: each is a plausible bug (a dropped guard, a missing reset), kept to show that a property notices it.

### ShapeFacts and FactTable (`core/constraints.rs`)

A fact table is a record: `parent` and `bound` are the union-find, `accepted` the equalities, `conflict` what the Rust
functions return as an error while a staged copy is changed. `InsertOk` and `Extended` are `insert`: contradiction
against the present facts, a staged copy, one union or binding per dimension, verification of every accepted equality,
and only then the copy replaces the table. Symbols are positive numbers in the order of their names, because the smaller
name becomes the representative. The loop over the dimensions of a shape is unrolled to rank two. `union` redirects
every link that ended at the replaced representative, so links have length one; that is why `Root` is not a loop, and
`FlatForest`, proved below, is what justifies it. Extents are integers: the code computes in `i128`, which the product of
an `i64` and a `u64` plus an `i64` fits. `NonNegative` constraints are read by no query and are left out.

`Query` gives the code's three answers. The reference they are judged by is the meaning of an equality: a valuation
gives every symbol an extent, and `Satisfies` says it makes the accepted equalities true.

### Workspace and RevisionHistory (`core/workspace.rs` and the modules it calls)

`revisions`, `head`, `allocator` and `events` are the fields of the struct. A transaction is a base, a script and
`allow_branch`. `Applied` is `apply`: `Admitted` is the preflight; `Ran` folds `Step`, one alternative per action, over
the staged program, its facts, the staged allocator and the local bindings; `Outcome` canonicalizes a frozen program and
publishes, or the whole run is dropped. `Fork` is `fork`. `Replayed` is `from_snapshot`: the log folded over an empty
workspace under the hard limits.

A value is a parameter, an operation's result or a hole's placeholder, with its shape; the shape is all that the
conditional part of type inference looks at. Debts are the open `ShapeCompatible` obligations. `Sources` is what the
canonicalizer follows; `Canonical` is what it accepts (it refuses a cycle through an operation; a cycle of holes alone it
follows without end, and in neither case anything is committed). References are by binding, by id or by position in the
table of live values. Ids are numbers; the code orders them as strings, which is the same below ten values.

`RevisionHistory` is the promise to a client: one child per step, nothing ever changed, and the children of a frozen
revision equal it. `Workspace` implements it under the mapping that forgets facts, ids and logs.

### CandidateForest, EqualitySpaces and Optimization (`core/candidate.rs`, `core/equality.rs`, `core/workspace.rs`)

An implementation is a model value with a `Meaning`, a function of the inputs; the production rewrites (`Matches`), the
fragments a proposal may insert and the guarded division rule are relations on implementations. What the code takes on
trust of them is the named assumption `RulesAreExact`: production rewrites preserve the meaning, and `x / x --> 1` does
where `x` is not zero. A debt item names its proposal, the program before and after it, and a status; a revision has a
status, a state, a frontier, a fallback and its debt. Each operation of `CandidateForest` is a condition (`CanApply`,
`CanTranslate`, ...) on a forest and the forest it stages; `Verified` is the verifier a staged revision has to pass.
`EqualitySpaces` adds the spaces: `Match`, `ExpandNode` and `Expanded` are the worklist loop under a fuel, `Explanation`
the shortest proof path, `DischargedForest` and `MaterializedForest` what a member does to the forest. `Optimization` puts
both in variables, one action per request, and defines `Replayed`, the loader's interleaving of the two logs by the
cursors of the store's events.

### MemoryPrograms and MemoryPlans (`core/memory.rs`, `core/memory_ir.rs`)

A memory program gives every operation's result a decision: a fresh buffer, an operand's buffer, or an operand's buffer
under a guard. `ReuseProved`, `DecisionVerified` and `Verified` are the verifier's; `Evaluated` runs a program with every
outcome of its guards, buffer by buffer, and is what the plans are judged by. `MemoryPlans` has create, transactions of up
to two actions, fork and seal.

### SchedulePrograms and Schedules (`core/schedule.rs`, `crates/agentir-backend-wgsl`)

Axes with their extent, parent, factor and level; the requests split, tile, fuse, bind, vectorize, unroll, leave serial
and set the launch shape; `Lowered` derives the kernels, and `TimesComputed` how often a dispatch computes an element.
`Schedules` has the plans, their forks and seals, and the backend plans lowered from them.

### Backends (`core/backend.rs`, `core/cpu.rs`, `core/schedule.rs`, `core/workspace.rs`)

Eight stores, each a state and the log of the events that made it. An event carries cursors, the lengths that the logs it
depends on had. `SnapshotReplays` uses the loader itself: some logs are rebuilt entry by entry and compared, the targets'
and the backends' are folded. Candidates, equality spaces and memory plans count as one upstream log, because nothing
here reads more of them than a cursor.

### Snapshots and Archives (`core/persistence.rs`, `crates/agentir-store`, the protocol engine)

`Snapshots` has the formats 1 to 11, the stepwise migrations, and loading. A program is the events that made it with the
semantics they were inferred under. `Archives` has processes that open, extend, load, save and migrate in one directory;
a save is five steps (look, create the temporary file, write, sync, rename), a process may die and an I/O call may fail
between any two, and a loss of power tears what was not synced and may undo renames, because the code does not sync the
directory (`docs/persistence.md` says so). Torn bytes decode to nothing.

### ReferencePrograms, CpuPrograms, NativeWorker and NativeExecution

`ReferencePrograms` is the reference evaluator and identity lowering, over numbers with a two-bit significand, so that a
fused multiply-add differs from two roundings, and one value for everything beyond. `CpuPrograms` is CPU lowering and
verification, the scalar interpreter, and the worker's packed execution. `NativeWorker` is one launch: the parent, the
thread that writes, the two that read, the process and the pipes, in chunks. `NativeExecution` is the whole call: the
parent prepares, launches, and trusts an answer only if every identity in it is what it derives itself. The worker always
has the default limits, the parent may have others. It also has caps of its own, whatever the limits are
(`WorkerPrepares`: the values of its buffer and the steps of its code, a million each in the code where the default limit
is a hundred million), and a request or response has to fit a frame (`Carried` counts the values of a message; the rest of
its length is left out). So the native engine rejects calls that the interpreter computes: `EnginesAgree` says that these
are the only ones on which they differ.

### AcquisitionSession, Acquisition, Recovery (`pe/acquisition.rs`, `pe/recovery.rs`, `pe/protocol.rs`)

`AcquisitionSession` has the values and the pure functions of a session: its slots, `CompleteSlots`, `FailSlot`,
`SessionVerifies`. `Acquisition` has the registry. `machine` is what the executor's preflight would report. `store` is the
workspace's measurement store, a sequence whose positions are the measurement ids. `sessions` is keyed by plan, because
a session's name is derived from its plan's hash: starting a plan again replaces its session. `Advance` is the whole
request: k slots complete under consecutive ids and then the maximum is reached, the device is unavailable or a benchmark
fails; the session and the store are committed together. The stopping reason and failure code are determined by the
status up to wording.

`Recovery` adds `journals` (by plan and slot, which is how their ids are derived), their exact checkpoints and the archive
on disk. `execute` is three actions, by where it stops: before anything was published, after publication, at its end.
`Crash` empties what the process held; whether it empties the store too depends on `Synthetic`. `ImportArchive` inserts
sessions in the order of their checkpoints' hashes, which is an arbitrary order. `CarefulSpec` is a client that follows
`docs/measurement-acquisition-recovery.md`: it measures only through journals, starts a plan once, prepares each slot
once and saves an archive when every journal is checkpointed. `RestartSpec` adds crashes, archives and a new process that
loads the archive before anything else.

### Episodes, SearchSessions, Evaluation (`pe/engine.rs`, `pe/search.rs`, `pe/protocol.rs`)

The compiler is a deterministic function `Respond` of the actions an episode submitted. `Episodes` has observation,
decision, rejection with its repairs, budgets and the transcript; `SearchSessions` the beam search, which rebuilds a
branch in a fresh engine for every node; `Evaluation` the registry with runs, the archive, restarts and search sessions.
A ranked step records the descriptor of its ranker: a scripted one, which every replay knows, or one that was registered
in the process, of which an archive keeps those its runs used. `ArchiveRuns` saves a list that may repeat a run;
`Loads` is what loading checks of the result; an import adds the runs and registers nothing.

### CampaignStages and Campaigns (`pe/campaign.rs`)

A campaign is a search, the artifacts its terminals published, an acquisition measured slot by slot through journals, a
cohort and a recommendation. The rules of the stages are those of `SearchSessions` and an instance of
`AcquisitionSession`. Modelled in hardware mode, on one device, by a host that keeps its workspace over restarts.
An aggregate is the lower median; a recommendation has an indifference band.

### FoldFacts

Not a model: lemmas. See section 4.

## 3. The runs

Deadlock checking is off in every run: counters are capped by bounds in the guards, a full store or a returned call has
no further step; liveness is stated separately.

| Run | Question | Bounds | States |
|---|---|---|---|
| `Acquisition` | Two plans that share an artifact publish into one store: is what is complete a prefix, backed by its own records? | 3 records, 1 checkpoint, advances of at most 2 slots; devices and timings symmetric | 1.75 M |
| `Recovery` | At every place an execute may stop, over deaths and archives: is anything lost or counted twice, and does what was published reach its slot? | two slots of one artifact, 2 records, 2 attempts | 166 k |
| `Campaigns` | Do the stages of a campaign agree through stopped executions, retries, sharing, checkpoints and restarts? | 6 plans, 2 campaigns, 3 records, 2 attempts, 1 checkpoint | 107 k |
| `Evaluation` | Does what ended replay, do repairs explain rejections, is a search that was cut up the search of its plan? | 2 runs, 1 search, units of 1 and 2 nodes, archives of 2 entries | 215 k |
| `Optimization` | Does what is sealed compute the specification; do the logs replay? | 5 programs, 5 revisions, 2 branches, debt of 2, one space of 2 chunks | 365 k |
| `MemoryPlans` | Can storage decisions lose a value? | 5 operations, 2 plans, 3 revisions, 2 actions each | 77 k |
| `Schedules` | Is every element computed, however its axes were split, fused and bound? | 3 operations, 2 plans, 3 revisions, 1 request each, sizes 3 and 4 | 213 k |
| `Backends` | Does the loader accept what the calls leave, and give it back? | 2 of everything, 3 backend revisions | 755 k |
| `Archives` | Can a path lose its archive; is what is loaded what was saved? | 2 processes, 2 paths, 2 events, 1 fault, archives of formats 1, 2, 4 and 9 | 410 k |
| `NativeExecution` | Is an answer the artifact's, does every call clean up, do the three engines agree? | 14 programs, 7 executables, 2 limits, 2 chunks | 366 k |
| `FactTable` | Are answers and refusals sound, whatever the order? | three symbols, thirteen equalities of every form, extents 0..3 | 516 |
| `Workspace` | Do revisions, debts, freezes, ids and the log keep their promises? | twelve scripts, five revisions, one direct fork, five values per program | 134 k |

Why the bounds are enough. *Acquisition*: two plans and one shared artifact are what an interleaving of publications
needs; a plan of two rounds over two artifacts and one of a single slot make every boundary (first, last, only slot)
occur; two devices let a session be resumed on the wrong one. *Recovery*: both slots accept the same records, which is
what makes counting twice possible; a retry needs two attempts; ambiguity takes two records after one snapshot.
*Campaigns*: the plans are one that measures both artifacts, one that measures one of them once, one that does so twice,
one of depth zero, whose search is over before it starts, one whose search reaches no end and one with too many nodes;
104 is within the band of 100 and 130 is not; the constraints `SecondOnlyMeasures`, `ThirdRecord`, `SlowIsRare` and
`OneCheckpoint` cut off repetitions that touch nothing new. *Evaluation*: runs and searches share no state
(`OneKindAtATime`), runs do not affect each other (`OneRunMoves`), archives are verified run by run, and one that
repeats a short run is enough (`SmallArchive`); learned rankings are made in one run of short episodes
(`ShortLearning`). *Optimization*: a rewrite, a proposal that is right, one that is wrong and one that needs a guard
exist; two debt items let them be settled in either order; five revisions let a discharged fork be materialized or
sealed. *MemoryPlans*: one operand is read twice, and of four results in a chain each can take the storage of the one
before, so that a buffer has several values and a guard can stand on what another decision reused; a guard names the
parameter's buffer (`Others`). *Schedules*: the extent 3 and the sizes 3 and 4 of the symbolic one are divided by one of
the factors 2 and 3 and not by the other; one request per transaction suffices because each request of a transaction is
verified separately. *Backends*: cursors can disagree as soon as two logs have two entries. *Archives*: two saves over
an archive that can be extended, one over the others; a second process runs over the format 2 archive only.
*NativeExecution*: a pipe of one chunk fills; a frame of two is exceeded by one fixture; each program makes one
difference between the engines visible; the worker's caps and the frame are each exceeded by calls that exceed nothing
else. *FactTable*: three symbols give every shape of a class merge in each order of names. *Workspace*: five revisions
are enough to declare, build, owe, constrain and freeze on one branch, or three of these on one and two on another; the
value limit is reached, and the hard cap above it lets replay be compared.

What the properties say.

- `CompletedPrefix`, `EvidenceRetained`, `OneSlotPerRecord`, `StoppedStaysStopped` (Acquisition): the session's own
  `verify` only counts complete slots. These say which ones they are, that each has its own record, still there and of the
  right artifact and device, and that a stopped session publishes nothing.
- `RecordCountedOnce`, `NoRecordLost`, `ResolvedAgrees`, `PublishedIsRecovered` (Recovery): at every fault boundary the
  published records and the session's slots can be brought together again, exactly once, by a client that measures
  through journals only. What others bring about (an ordinary advance beside a journal, a slot prepared twice, an archive of
  diverging checkpoints) is in section 5.
- `StagesAgree`, `FinalCampaignReplays`, `RecommendationIsFastest`, `SharedOnlyByReconciling` (Campaigns): what a
  campaign's status claims of its search, session, journals and cohort is so; a final campaign can be replayed; the
  recommended artifact is within the band of the fastest; a record is in two campaigns only because a reconcile took it.
- `EndedReplays`, `RepairsExplainRejections`, `SearchIsBeam`, `RetainedStays` (Evaluation): what has ended is reproduced
  from its record and its root, a run given the descriptors it was ranked with, and an archive loads if it kept these and
  repeats no run. Neither condition can be left out: a repeated run is saved and not loaded, and `replay_run`, which is
  given no descriptors, fails on runs ranked with a registered one (section 5). Further, every rejection lies in one
  repair cycle; a search cut into advances and checkpoints is the beam search of its plan; a run id names one run, whose
  finished episodes never change.
- `SealedIsExact`, `MembersAreExact`, `FrontierIsProvedPrefix`, `ChunksAreInvisible`, `HistoryReplays` (Optimization). A space
  has three members at most here and the node limit is four: a request refused by that budget, which stages nothing, does
  not occur.
- `ReuseLosesNothing` (MemoryPlans): by evaluation, not by the verifier's rules. It excepts chained guards:
  reuse of a result that is itself under a guard, and of the buffer that such a result falls back to. With either TLC finds
  plans whose evaluation fails (section 5).
- `CoveredExactlyOnce`, `EveryElementReached` (Schedules): iteration spaces, and then the elements the lowered kernels
  compute. Binding the same dimension twice computes an element in several invocations, so the second asks for at least
  one. That an invocation computes no other's elements is not asserted.
- `SnapshotReplays`, `RecordsNameOneArtifact`, `CursorsCoverSources` (Backends).
- `PathsHoldSaves`, `SavedIsLoaded`, `MigrationsAgree` (Archives).
- `AnswerIsWhole`, `EnginesAgree`, `EveryCallCleansUp` (NativeExecution).
- `QuerySound`, `RefusalSound`, `OrderIndependent` (FactTable): the contract of `docs/constraint-solving.md`, judged by
  enumeration of extents.
- `FrozenIsSound`, `IdsNameOneThing`, `HistoryReplays`, `ImplementsHistory` (Workspace): a frozen program is closed,
  acyclic, and every comparison its operations need holds under every assignment its constraints admit; a reference by id
  never means two things; rejected requests leave no trace that replay would show; and the refinement of RevisionHistory.

Liveness and fairness. `PublishedIsRecovered` assumes weak fairness of `Reconcile`: an operator who finds an
indeterminate journal sees to it, which is what `docs/measurement-acquisition-crash-semantics.md` asks. A process that
loaded an archive older than its predecessor's last publication may end ambiguous or blocked, and the property allows it.
`EveryCallCleansUp` assumes weak fairness of the parent, the clock and the three threads, which the operating system's
scheduler gives, and none of the worker, which may hang. No fairness is put on benchmarks succeeding, devices returning
or clients asking.

## 4. The proofs

`tlapm` checks every step of the eight proof modules, for all values of the constants that satisfy the named assumptions;
the runs evaluate those on their instances.

**Induction over data** (FoldFacts). The models fold over logs, matches, paths and scripts. A fold is a recursive
function on the sets of positions; that such a function exists, agrees on equal prefixes, makes one step per element
(`FoldAppend`) and keeps what every step keeps (`FoldKeeps`, `FoldIgnores`) is proved from well-foundedness of the natural
numbers, stated about a set and not about a predicate. The operator and the predicate are constants of the module, so a
proof module takes an instance for each fold it reasons about.

**RecoveryProofs, of Acquisition** (`PlansAssumption`, `BoundsAssumption`, `NoSessionAssumption`). `IInv == TypeOK /\
CompletedPrefix /\ EvidenceRetained /\ OneSlotPerRecord`. None of its parts is inductive by itself: that a record backs
one slot only is preserved by an advance because the ids it uses are new, which needs that every older id is in the
store (`EvidenceRetained`); that evidence is kept needs that an advance overwrites no complete slot (`CompletedPrefix`);
and that a resume keeps all of it needs the invariant of checkpoints as well as of sessions, which is why the properties
speak of `Retained`.

**RecoveryProofs, of Recovery** (with `RecoveryAssumption`, `NoJournalAssumption`; client of `RestartSpec`).
`Consistent` is one predicate of sessions, journals and a store; the invariant states it of the process and of the
archive against the store that a loading process will have. Every attempt froze the records of all earlier slots, so
`reconcile` cannot attach one of them again (`RecordsCountOnce`); the statuses in which an attempt may have published
carry the candidates (`RecordsAreKept`). It holds whether the store lives in the process or not. For clients that do not
measure through journals only, these fail (section 5).

**WorkspaceProofs** (`ScriptsAssumption`: a script is a sequence of well-formed actions of the language, which says what
operands, shapes and references look like and nothing of whether they resolve or agree; `LimitsAssumption`: the hard cap
is no lower than the interactive limit). `IInv` is `Sound` of the workspace: revisions are numbered without gaps up to
the allocator's counter, the values of a revision are among the ids given out, and an id has one definition in all
revisions. `IdsNameOneThing` is not inductive without the second: a fresh id is fresh only because no branch is ahead of
the counter. A transaction is a fold over its script, so what it may do is an invariant of the fold (`Grown`: a value is
the base's, with the base's definition, or newer than all that was given out; `Closes`: a frozen program leaves a run as
it entered it), kept by every action (`StepGrows`) and lifted by an instance of FoldFacts (`RanGrows`). Every step then
adds one `Child` of a base or changes nothing (`StepAdds`); from that follow `IInv` (`ChildKeeps`), the refinement
(`WorkspaceImplementsHistory`, by `AddsChild`) and, with a second instance of FoldFacts for the log and `AdmittedAgain`
(what the interactive limit admits the hard cap admits), `HistoryAlwaysReplays`.

`FrozenAlwaysSound` has an invariant of its own, `FInv`, proved beside `IInv`: whatever an operation or a plain fill of any
revision compares is owed as a debt or holds under every assignment the revision's constraints admit (`Owes`), sources and
output are values or absent, and a frozen revision is complete and canonical. It is not inductive over a transaction
without the facts: `GoodRun` adds that the facts of a run accept only constraints of its program and that every assignment
the constraints admit respects their classes (`GoodFacts`). That is the invariant of FactTableProofs, taken as an instance
whose requests are all equalities of shapes; its assumptions are proved here (`EngineFits`), and so is that its operators
are those of the workspace (`EngineShape` to `EngineStaged`). So a comparison answered "proved" holds (`ProvedHolds`), an
accepted constraint keeps the facts good (`LearnedGood`), and discharging drops only what was proved (`DischargedGood`);
`Settles` is why a later constraint, fill or declaration never unsettles an earlier comparison. Each action is one lemma,
`StepGood` joins them, and a fold carries it through the script (`RanGood`), as another does from a program to its facts
(`StartedGood`). Acyclicity is not derived: `Canonical` is checked when a frozen program is published.

**FactTableProofs** (`SymbolsAssumption`, `QueriesAssumption`, `RequestsAssumption`, `ValuationsAssumption`). `IInv`
says that the table is well formed, that no conflict is kept, and, the heart of it, that every assignment satisfying the
accepted equalities respects the classes. A normal form then has the dimension's extent (`QueriesSound`). A refusal has
two causes, a contradiction with the facts or a conflict in the staged copy; `RefusalsSound` shows for both that no
assignment satisfies old and new equalities together, the second by applying the invariant to the staged copy.
`AnswersOrderIndependent` orders tables by what they know (`Below`: every class and every extent). Staging an equality
yields the least table above the old one that has learnt it (`StagedAbove`, `StagedBelow`), a contradiction survives
every further equality (`ContradictionKept`), and tables below one another are the same, as a class is named by its
smallest symbol (`SameTable`). So the table after c and d accepts d and c in the other order too (`InsertBelow`) and
bounds the result from both sides (`NewSwap`). It needs one more inductive fact: only representatives carry an extent
(`Tidy`).

**OptimizationProofs** (`ImplAssumption`, `RulesAreExact`, the limits). `IInv` has two parts. Of the forest: each
revision's debt is a chain of exact links unless it is guarded or refuted; status and state agree with the debt; items
name their proposals; a guarded item is first and alone until it is settled with its proved fallback; the frontier follows
the first unsettled item; every revision is verified. Of the store: a space grows from a proved anchor, its members are
exact, and each but the root is reached by a rewrite from an earlier one, so that every member has a shortest path. The
two are tied by `Carries`: no request changes what the other store may name. `SealedAreExact`, `MembersExact` and
`FrontierIsProved` follow. `LogsReplay` adds `RInv`: folding the store's log gives the store and the forest as it was at
the last event's cursor, and the remaining forest events give the forest. Every request is the replay of the event it
appends (`StepIsLogged`), to one log (`ForestReplays`, where the store's fold must not notice that the forest's log grew)
or to the other (`StoreReplays`).
`ChunksInvisible` assumes further that the implementations are finitely many (`ImplsAreFinite`: the code tells them apart by
SHA-256 hashes). Expansion is breadth first: after n steps from the root the worklist holds exactly the nodes numbered from
n + 1 on, and no implementation has two numbers (`RootProgresses`), so as many steps as there are implementations empty it
(`AllStepsSuffice`), and further steps change nothing. Requests add up (`IteratedAdds`) and a step does not look at the
status (`IteratedSame`), so a request between the root and that end does not move the end (`ChunkReachesSame`).

**BackendsProofs** (`BackendConstants`). The invariant says of each store what its log says of it: entry by entry, what
the event made is still there, and everything there was made by an entry; cursors run in order and within the logs they
point into; identities are dense, so the allocator is a length. `LogsAlwaysReplay` is about the logs the loader rebuilds
entry by entry; `EventsAlwaysReplay` is the step, and `SnapshotsReplay` the induction, for the two it folds.

**ArchivesProofs** (`NamesAssumption`: no client names an archive like a temporary file; `CodecsAssumption`: new
candidates have a codec the loader knows; `OldArchivesAssumption`: each old archive is one that a build of its format, 1 to
10, could have written, `WrittenEarlier`: its revisions and event hashes are those its events replay to, each under the
semantics that build inferred it with, its cache and its candidates' hashes are right, and it has the fields its format
has). For `PathsKeepArchives`: at a rename the temporary file must still be there, whole and synced (`SoundJob`), and what
a loss of power may bring back must have been published once and synced then (`SoundPath`).
`SavesLoad` rests on it and on `LInv`: a workspace is `Good` when it is what its events replay to. A good workspace saved
and loaded is itself (`GoodLoads`); new events and candidates keep it good (`AppliedIsGood`, `WithCandidateIsGood`), for
which replaying one event more must only add a revision (`ContentsAppend`, a fold); an old archive opens as the good
workspace of its events (`OldOpens`), for which the migrations up to any format are told field by field (`AtFormat`,
`UpToDateIs`). That what is at a path was published there is the first theorem. `MigrationsGiveTheSame`: an archive of
format 1 is cut back to one that a build of format 2 could have written and that opens as the same workspace
(`CutBackOpens`), and from format 2 on both ways apply the same steps (`NextStepped`, `StepByStepIs`).

**BackendsProofs, of NativeExecution**, taken as the instance `Native` (`NativeConstants`: what that module assumes of its
constants, `ChunksAssumption` and `ExecutablesAssumption`). `CallInv` conserves chunks: what was sent is what was taken and
what is in the pipe, what was written is what was got and what is in the pipe, a reader that is done within a frame has got
all of a process that no longer runs, and success means that all was read and written. `AnswerTrusted`: outputs reach a
caller only if parent and worker both admitted the call, their runtimes agree and the outputs are those of the parent's
artifact. `ReturnLeavesNoProcess` is the safe half of `EveryCallCleansUp`.

**CampaignsProofs** (`StagesAssumption`: hashes of artifacts differ, a plan asks for at least one record of each, one
artifact and one child; `NoneAssumption`; `SearchAssumption`; `CampaignBounds`). No property of Campaigns is inductive: each is of a campaign as
it is, and a campaign may be a checkpoint or in the archive while the store goes on. `IInv` says of every campaign that is
known (`Sound`) what its status stands for, against the store:
- `SearchSound`: its search is what n units from the root make, for some n. Advances add up however they are cut
  (`AdvancedTwice`), a stopped search stays as it is (`StoppedStays`), and the safety limit bounds the units that do
  anything (`UnitKeeps`), so a replay, which runs to that limit, reaches the same search (`StoppedReplays`). That is an
  induction over units and, in a unit, over the children of a node: two instances of FoldFacts.
- `SessionSound`, `JournalSound`: a slot before the next one holds a record of the store that was planned for it, in no
  other slot; an undecided journal is the last one, of the next slot, and its attempt saw every record used before, so
  that what reconcile finds beyond it is new to the campaign (`TakenSound`).
- `ResultSound`: cohort and recommendation are what the slots and the search make, and a result goes with a final status.
All of it survives a longer store (`SoundGrows`) and one record put into the next slot (`AttachedSound`), and hence
resuming anything that was ever kept. Across campaigns, what two have both used one of them took over (`Apart`): an execution attaches
the record it appended itself, which nobody has used (`UsedStored`). `AlwaysFinalCampaignReplays` and
`AlwaysRecommendationIsFastest` are then facts about a sound campaign: a record fills one slot, so the cohort counts as many
records of every artifact as there are rounds (`CohortCounts`), and the choice among the candidates exists, because artifact
and node tell them apart (`FirstIs`), and no artifact of a smaller hash is within the band (`BelowIs`).

**CampaignsProofs, of Evaluation** (`TasksAssumption`: a task's requests are a sequence; `SearchAssumption`;
`EvaluationBounds`: scripts run over tasks of the corpus, and a plan's widths are positive). `HarnessInv` is
- `RunsSound`: run ids are at most the last one given out, which is what an import must restore for an id to name one run;
  every step of every episode has the answer the compiler gives to the steps before it (`Answered`), an episode with its
  result is no longer active, is hashed with it, and its repairs explain its steps (`EpisodeSound`); an engine was given
  exactly what its episode records, so that the next answer is the one a replay gives (`StepAnswered`). A ranking marks a
  step with its descriptor without touching what answers depend on (`RankedSound`), a cancellation changes only what has no result
  (`CancelRunKeeps`), and a script is a fold of submissions (`PlayedSound`);
- `ArchiveSound`: what is archived is a list of finished runs, sound by themselves and not by what the process holds;
- `SearchesSound`: a session or checkpoint is n units from the root or the cancellation of these (`ReachedFurther`). The
  replay of a cancelled one makes its n units, cancels there and then stays (`CancelledReplays`, a fold).
`RetainedStays` says how a step treats every run it finds (`RunGrows`). `AlwaysRepairsExplain` is an induction over the steps
of a transcript: `Scanned` says what the scan has found of n steps, in particular that cycles do not overlap (`Apiece`), so
that a rejection is in one only.

Only model-checked. Liveness and `ENABLED` are out of the prover's reach: `PublishedIsRecovered`, `EveryCallCleansUp`.
Not proved so far: `EnginesAgree`, `ReuseLosesNothing`, `CoveredExactlyOnce` and `EveryElementReached` (each compares two
evaluations, by several nested folds), and `SearchIsBeam` (a sort and a choice by rank, both recursive, give one order).

## 5. Observations about the code

Met while modelling. Where a document says otherwise it is named; the models follow the code. No run asserts
these.

*Acquisition, recovery, campaigns.* The hash of a measurement leaves its id out, so two slots that measure equal timings
have one hash: `advance` accepts both and `verify`, with which replay begins, rejects the session (`pe/acquisition.rs:1725`,
`docs/measurement-acquisition-replay.md:11`); in a campaign only cancel remains. `reconcile` attaches to the session's
current slot, not to the journal's (`pe/recovery.rs:1063`), so an ordinary advance competing with a journal lets a record
be attached twice. A second `prepare` of a slot is refused after it replaced the journal (`pe/protocol.rs:1498`,
`docs/measurement-acquisition-recovery.md:18`). Two journals of one acquisition are imported in hash order, so the older
session may win (`pe/protocol.rs:892`). Two acquisitions that share artifact, device and configuration can each reconcile
the other's record (`pe/recovery.rs:1407`; the documents assume one writer). Campaigns that are cancelled, failed or
unfinished can never be replayed and block every save of the archive. Resume of an older checkpoint after later
publications ends blocked; resume rolls a complete campaign back. A terminal path with two artifacts makes prepare refused
forever, though `pe/measured.rs:802` says such paths give none. Replay does not recheck the terminal's materialization
(`docs/evaluation-replay.md:13`).

*Workspace.* A hole's own constraints are never stated of the program, so a frozen fill may be unsound outside them
(`core/workspace.rs:1395`). Holes that fill each other make the canonicalizer recurse without end
(`core/semantic.rs:469`). The evaluator and identity lowering follow one hole link only (`core/ir.rs:283`), so some frozen
programs cannot be evaluated, or can but never become a candidate. `memory_create` accepts roots that no event before its
cursors names (`core/workspace.rs:4005`). Resource limits are not part of a snapshot.

*Candidates.* A refutation marks only some of the revisions it affects (`core/candidate.rs`, `docs/proof-debt.md:15`). A
fork of a materialized or a sealed guarded revision is always refused (`docs/candidate-forest.md:9`). A translation check
after an equality discharge, an equality discharge with remaining debt in a fork, and propose-prove-apply-propose are
refused. A guarded head with an open item behind it can never be sealed.

*Memory, schedules.* A guarded reuse whose input is later guarded onto another buffer writes to a buffer that is not
allocated (`core/memory_ir.rs:1355`, `docs/guarded-memory-reuse.md:5`): an in-place decision is verified
to find its input in the buffer it takes, a guarded one is not. A later transaction resets the status to proved
though guards remain (`core/memory.rs:121`). The WGSL lowering keeps only the first guarded decision. A serial kernel of a
symbolic extent dispatches n invocations that each run the whole loop (`backend-wgsl/src/lib.rs:691`,
`docs/schedule-ir.md:5`). Overlapping fusion groups are accepted and can never be lowered; fused members can be split
apart; a bound axis can never be split.

*Backends, archives, native.* The loader compares some cursors with log lengths only; the calls satisfy the stronger
`CursorsCoverSources`. Archives holding artifacts do not load in another compiler build, whose version is hashed. Two
migrations to one destination may overwrite (the documents disclaim locks). A stale temporary file of a dead process
with the same pid makes the first save fail and removes it. CPU packages carry no constraints, so an artifact may run on
inputs the reference refuses. The worker checks with the default limits, whatever the parent's are, and with caps a
hundred times lower that no document names (`lowering.rs:27-28`): a call of 1.2 million values is admitted by the
parent, launched, and rejected. A failed read of standard output returns without joining the thread that reads the
errors.

*Evaluation.* `save_archive` with a repeated run id writes an archive that `verify_archive` refuses. A failed search drops
the node it was expanding. Cancelled runs and episodes stuck by a budget count as active forever, and 32 of them block
`start_run` (`docs/evaluation-episodes.md:3`). `replay_run` has no retained policies, so learned and externally ranked runs
cannot be replayed in memory (`pe/engine.rs:1648`, `docs/evaluation-replay.md:7`). An import does not
register the descriptors of the runs it adds, so saving an imported learned run again in a new process writes an archive
that cannot be loaded. A failed import leaves the runs it had imported (`docs/evaluation-archive-v3.md:7`).

## 6. What is not modelled

Element types other than f32, broadcasting, the text of WGSL and of Cranelift code, GPU execution, code generation and
devices. Encodings, canonical JSON and hashes are conversions; what they mean here is that distinct contents have distinct
names. The JSON protocol is a sequential dispatcher; that requests are served one at a time is an assumption of every
module. In Workspace: constants, regions, scalars, attributes, the legacy semantics v1, and all budgets but the one on
values. In the forest and the spaces: the rewrite engine itself, budgets, continuation records and diffs. In the archives:
caps on counts, which the byte cap precedes. In Evaluation: corpora, comparison reports and the learning of a model. In
Campaigns: traces, stopping reasons and work counters. `PROJECT.json` says for each component what is left out.

## 7. The plan

1. `ReuseLosesNothing`: an invariant of the evaluator's fold that says which value each buffer holds.
