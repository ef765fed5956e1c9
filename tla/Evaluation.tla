------------------------------ MODULE Evaluation ------------------------------
(***************************************************************************)
(* The evaluation engine: runs whose episodes external policies play step  *)
(* by step, the archive that keeps finished runs, and searches over the    *)
(* same tasks.  Clients' requests arrive in any order; the process may     *)
(* restart, which loses everything but the archive and the checkpoints     *)
(* the clients hold.                                                       *)
(***************************************************************************)
EXTENDS SearchSessions

CONSTANTS
    TaskLists,      \* the sequences of tasks a run may be started over
    ScriptLists,    \* the sequences of tasks a script may be run over
    Policies,       \* the external policies
    ScriptedRankers,\* the ranking descriptors a run's own seed gives
    Scripts,        \* the scripted policies
    Free,           \* the actions a policy may make up itself
    Plans,          \* the search plans
    MaxRuns,        \* limit: retained runs
    MaxActive,      \* limit: runs with an unfinished episode
    MaxStarted,     \* bound: runs started since the last restart
    MaxListed,      \* bound: runs a request to save names
    MaxSearches     \* bound: searches started

ASSUME EvaluationBounds ==
    /\ {MaxRuns, MaxActive, MaxStarted, MaxListed, MaxSearches} \subseteq Nat
    /\ ScriptLists \subseteq Seq(DOMAIN Tasks)
    /\ \A plan \in Plans : {plan.beam, plan.children, plan.cadence} \subseteq Nat \ {0}

VARIABLES
    runs,       \* run id -> run
    engines,    \* run id -> the calls each episode's engine was given
    nextRun,    \* the last run id given out
    registered, \* the ranking descriptors registered with the harness
    runArchive, \* the archive on disk, None before the first save
    searches,   \* plan -> its search session
    held        \* the checkpoint a client keeps, None before the first

runVars == <<runs, engines, nextRun>>
archiveVars == <<registered, runArchive>>
searchVars == <<searches, held>>
harnessVars == <<runs, engines, nextRun, registered, runArchive, searches, held>>

Nothing == [i \in {} |-> None]

\* `map` with one entry put into it, and with the entries of `other` put into it.
With(map, id, value) ==
    [x \in DOMAIN map \union {id} |-> IF x = id THEN value ELSE map[x]]
Merged(map, other) ==
    [x \in DOMAIN map \union DOMAIN other |-> IF x \in DOMAIN other THEN other[x] ELSE map[x]]

HarnessInit ==
    /\ runs = Nothing /\ engines = Nothing /\ nextRun = 0
    /\ registered = {} /\ runArchive = None
    /\ searches = Nothing /\ held = None

-----------------------------------------------------------------------------
\* Runs.

\* evaluation_hash covers the policy and the episodes, not the cancellation.
RunContent(run) == [policy |-> run.policy, episodes |-> run.episodes]
Concluded(run) == \A e \in DOMAIN run.episodes : run.episodes[e].result # None

\* The run is hashed when its last episode ends.
RunHashed(run) == [run EXCEPT !.hash = IF Concluded(run) THEN RunContent(run) ELSE None]

CanStart ==
    /\ Cardinality(DOMAIN runs) < MaxRuns
    /\ Cardinality({r \in DOMAIN runs : ~Concluded(runs[r])}) < MaxActive
    /\ nextRun < MaxStarted

\* Publishes run `nextRun + 1` with the calls its engines were given.
Publish(policy, episodes, calls) ==
    LET run == [policy |-> policy, episodes |-> episodes, cancelled |-> FALSE, hash |-> None]
    IN  /\ nextRun' = nextRun + 1
        /\ runs' = With(runs, nextRun + 1, RunHashed(run))
        /\ engines' = With(engines, nextRun + 1, calls)

StartRun ==
    \E policy \in Policies, tasks \in TaskLists :
        /\ CanStart
        /\ Publish(policy, [e \in DOMAIN tasks |-> FreshEpisode(tasks[e])],
                   [e \in DOMAIN tasks |-> <<>>])
        /\ UNCHANGED <<archiveVars, searchVars>>

\* What a script decides: the task's request, the first choice of the menu,
\* or, every third step of a hybrid script with an escape, that choice as an
\* action of its own.
ScriptDecision(script, episode) ==
    LET first == ContinuationFrame(script.policy, episode)[1]
    IN  IF script.policy.kind = "free" THEN Action(NextRequest(episode))
        ELSE IF script.bounded /\ Len(episode.steps) % 3 = 2 THEN Escape(first)
        ELSE MenuChoice(1)

\* The script plays an episode to its end, or to its first error.
Played(script, task) ==
    LET Step(episode, request) ==
            LET decision == ScriptDecision(script, episode) IN
            IF episode.result = None /\ CanSubmit(script.policy, episode, decision)
            THEN Submitted(script.policy, episode, Calls(episode.steps), decision)
            ELSE episode
    IN  FoldLeft(Step, FreshEpisode(task), Tasks[task].requests)

\* An error ends the request, but the run it started stays.
RunScripted ==
    \E script \in Scripts, tasks \in ScriptLists :
        LET episodes ==
                [e \in DOMAIN tasks |->
                    IF \A f \in 1..(e - 1) : Played(script, tasks[f]).result # None
                    THEN Played(script, tasks[e]) ELSE FreshEpisode(tasks[e])]
        IN  /\ CanStart
            /\ Publish(script.policy, episodes, [e \in DOMAIN tasks |-> Calls(episodes[e].steps)])
            /\ UNCHANGED <<archiveVars, searchVars>>

Decisions(policy, episode) ==
    {MenuChoice(i) : i \in DOMAIN ContinuationFrame(policy, episode)}
        \union {Action(a) : a \in Free} \union {Escape(a) : a \in Free}

\* The episodes that next_observation still answers.
Observable(r) == {e \in DOMAIN runs[r].episodes : CanObserve(runs[r].episodes[e])}

\* The engine of the episode executes the decision, which `after` records.
Decide(r, e, decision, after) ==
    /\ CanSubmit(runs[r].policy, runs[r].episodes[e], decision)
    /\ runs' = [runs EXCEPT ![r] = RunHashed([@ EXCEPT !.episodes[e] = after])]
    /\ engines' = [engines EXCEPT ![r][e] = Append(@, Resolved(Last(after.steps)))]
    /\ UNCHANGED <<nextRun, archiveVars, searchVars>>

\* A decision on an observation of `seen` steps is stale once more were made.
Submit ==
    \E r \in DOMAIN engines : \E e \in Observable(r) :
        LET policy == runs[r].policy
            episode == runs[r].episodes[e]
        IN  \E decision \in Decisions(policy, episode),
               seen \in 0..Len(episode.steps) :
                /\ seen = Len(episode.steps)
                /\ Decide(r, e, decision, Submitted(policy, episode, engines[r][e], decision))

Rank ==
    \E r \in DOMAIN engines : \E e \in Observable(r) :
        LET policy == runs[r].policy
            episode == runs[r].episodes[e]
        IN  /\ policy.ranker # None
            /\ \E decision \in Decisions(policy, episode) :
                   Decide(r, e, decision, Ranked(policy, episode, engines[r][e], decision))

\* An episode without a result ends; a finished one keeps its status.
EpisodeCancelled(episode) ==
    IF episode.result = None THEN [episode EXCEPT !.status = "cancelled"] ELSE episode

RunCancelled(run) ==
    [run EXCEPT !.cancelled = TRUE,
                !.episodes = [e \in DOMAIN @ |-> EpisodeCancelled(@[e])]]

CancelRun ==
    \E r \in DOMAIN runs :
        /\ runs' = [runs EXCEPT ![r] = RunCancelled(@)]
        /\ UNCHANGED <<engines, nextRun, archiveVars, searchVars>>

-----------------------------------------------------------------------------
\* The archive.

RegisterRanker ==
    \E policy \in Policies :
        /\ policy.ranker # None
        /\ registered' = registered \union {policy.ranker}
        /\ UNCHANGED <<runVars, runArchive, searchVars>>

\* The descriptors a run was ranked with.
RankersOf(run) ==
    (UNION {{run.episodes[e].steps[i].ranker : i \in DOMAIN run.episodes[e].steps} :
            e \in DOMAIN run.episodes}) \ {None}

\* A run's hash is that of its content, and every episode replays in a fresh
\* engine, given the descriptors that no seed gives.
Verifies(run, rankers) ==
    /\ run.hash = RunContent(run)
    /\ \A e \in DOMAIN run.episodes : Replays(run.episodes[e], ScriptedRankers \union rankers)

\* The runs of a list, which may name one twice.  Every run needs its
\* aggregate, so every episode its result; of the descriptors the harness
\* knows, those the runs were ranked with are kept.
ArchiveRuns ==
    \E n \in 0..MaxListed : \E ids \in [1..n -> DOMAIN runs] :
        /\ \A i \in 1..n : Concluded(runs[ids[i]])
        /\ runArchive' =
              [runs |-> [i \in 1..n |-> [id |-> ids[i], run |-> runs[ids[i]]]],
               rankers |-> {k \in ScriptedRankers \union registered :
                               \E i \in 1..n : k \in RankersOf(runs[ids[i]])}]
        /\ UNCHANGED <<registered, runVars, searchVars>>

\* No episode, so no run, occurs twice.
ListedOnce(saved) ==
    \A i, j \in DOMAIN saved.runs : saved.runs[i].id = saved.runs[j].id => i = j

\* Loading verifies every hash, finds every descriptor among those kept, and
\* replays every episode.
Loads(saved) ==
    /\ ListedOnce(saved)
    /\ \A i \in DOMAIN saved.runs :
          /\ RankersOf(saved.runs[i].run) \subseteq saved.rankers
          /\ Verifies(saved.runs[i].run, saved.rankers)

Archived(saved) == {saved.runs[i].id : i \in DOMAIN saved.runs}
RunsIn(saved) ==
    [r \in Archived(saved) |->
        saved.runs[CHOOSE i \in DOMAIN saved.runs : saved.runs[i].id = r].run]

\* Verified runs with new ids can be retained; their descriptors are not.
CanImport ==
    /\ runArchive # None /\ Loads(runArchive)
    /\ Archived(runArchive) \intersect DOMAIN runs = {}
    /\ Cardinality(Archived(runArchive) \union DOMAIN runs) <= MaxRuns

\* Mutant: run ids go on from where they were, whatever was imported.
X_ImportRuns_KeepsCounter ==
    /\ CanImport
    /\ runs' = Merged(runs, RunsIn(runArchive))
    /\ UNCHANGED <<engines, nextRun, archiveVars, searchVars>>

ImportRuns ==
    /\ CanImport
    /\ runs' = Merged(runs, RunsIn(runArchive))
    /\ nextRun' = Max(DOMAIN runs' \union {nextRun})
    /\ UNCHANGED <<engines, archiveVars, searchVars>>

RestartHarness ==
    /\ runs' = Nothing /\ engines' = Nothing /\ nextRun' = 0 /\ searches' = Nothing
    /\ registered' = {}
    /\ UNCHANGED <<runArchive, held>>

-----------------------------------------------------------------------------
\* Searches.

\* The same plan gives the same search: starting it again starts it over.
SearchStart ==
    \E plan \in Plans :
        /\ Cardinality(DOMAIN searches \union {plan}) <= MaxSearches
        /\ searches' = With(searches, plan, StartSearch(plan))
        /\ UNCHANGED <<runVars, archiveVars, held>>

SearchAdvance ==
    \E plan \in DOMAIN searches, units \in Units :
        /\ searches' = [searches EXCEPT ![plan] = Advanced(@, units)]
        /\ UNCHANGED <<runVars, archiveVars, held>>

SearchCancel ==
    \E plan \in DOMAIN searches :
        /\ searches' = [searches EXCEPT ![plan] = Cancelled(@)]
        /\ UNCHANGED <<runVars, archiveVars, held>>

SearchCheckpoint ==
    \E plan \in DOMAIN searches :
        /\ ValidStructure(searches[plan])
        /\ held' = searches[plan]
        /\ UNCHANGED <<runVars, archiveVars, searches>>

\* Mutant: only the frontier is restored, not the next layer's candidates.
X_SearchResume_DropsCandidates ==
    /\ held # None
    /\ Cardinality(DOMAIN searches \union {held.plan}) <= MaxSearches
    /\ ValidStructure(held)
    /\ searches' = With(searches, held.plan, [held EXCEPT !.next = <<>>])
    /\ UNCHANGED <<runVars, archiveVars, held>>

\* The session becomes the checkpoint's, whatever it is by now.
SearchResume ==
    /\ held # None
    /\ Cardinality(DOMAIN searches \union {held.plan}) <= MaxSearches
    /\ ValidStructure(held)
    /\ searches' = With(searches, held.plan, held)
    /\ UNCHANGED <<runVars, archiveVars, held>>

-----------------------------------------------------------------------------
HarnessNext ==
    \/ StartRun \/ RunScripted \/ Submit \/ Rank \/ CancelRun
    \/ RegisterRanker \/ ArchiveRuns \/ ImportRuns \/ RestartHarness
    \/ SearchStart \/ SearchAdvance \/ SearchCancel \/ SearchCheckpoint \/ SearchResume

HarnessSpec == HarnessInit /\ [][HarnessNext]_harnessVars

-----------------------------------------------------------------------------
\* Properties.

Episodes(run) == {run.episodes[e] : e \in DOMAIN run.episodes}
Sessions == {searches[plan] : plan \in DOMAIN searches} \union ({held} \ {None})

(***************************************************************************)
(* A run that has its result replays, at once and whatever is requested of *)
(* it afterwards (a ranking written to its last step, a cancellation, an   *)
(* import), given the descriptors it was ranked with that no seed gives:   *)
(* where there are none, replay_run, which is given none, reproduces it.   *)
(* An archive that names no run twice can be loaded if it kept those       *)
(* descriptors, that is, if they were registered when it was saved         *)
(* (engine.rs:2025).  A stopped search, cancelled and failed ones          *)
(* included, is reproduced from its root (search.rs:2019).                 *)
(***************************************************************************)
EndedReplays ==
    /\ \A r \in DOMAIN runs :
          Concluded(runs[r]) => Verifies(runs[r], RankersOf(runs[r]) \ ScriptedRankers)
    /\ /\ runArchive # None /\ ListedOnce(runArchive)
       /\ \A i \in DOMAIN runArchive.runs :
             RankersOf(runArchive.runs[i].run) \ ScriptedRankers \subseteq runArchive.rankers
       => Loads(runArchive)
    /\ \A session \in Sessions : Stopped(session) => ReplaysSearch(session)

(***************************************************************************)
(* While the process lives a run id names one run, whatever is started or  *)
(* imported: its policy stays, its transcripts only grow, and an episode   *)
(* that has its result never changes (engine.rs:1123, 2078).               *)
(***************************************************************************)
RetainedStays ==
    [][\A r \in DOMAIN runs \intersect DOMAIN runs' :
          LET old == runs[r]  new == runs'[r] IN
          /\ new.policy = old.policy /\ DOMAIN new.episodes = DOMAIN old.episodes
          /\ \A e \in DOMAIN old.episodes :
                /\ IsPrefix(old.episodes[e].steps, new.episodes[e].steps)
                /\ old.episodes[e].result # None => new.episodes[e] = old.episodes[e]
      ]_runs

(***************************************************************************)
(* docs/evaluation-episodes.md:11: a repair cycle begins at a rejection    *)
(* and closes on the next accepted progress-producing action or the end.   *)
(* So every rejection lies in one cycle, a cycle holds progress only where *)
(* it closes, and begins with a rejection (engine.rs:2324).                *)
(***************************************************************************)
RepairsExplainRejections ==
    \A r \in DOMAIN runs : \A episode \in Episodes(runs[r]) : episode.result # None =>
        LET steps == episode.steps
            cycles == episode.result.repairs
            Span(c) == c.start .. c.end
            Progress(i) == steps[i].outcome.accepted /\ steps[i].outcome.progress
        IN /\ \A i \in DOMAIN steps : ~steps[i].outcome.accepted =>
                 Cardinality({k \in DOMAIN cycles : i \in Span(cycles[k])}) = 1
           /\ \A k \in DOMAIN cycles :
                 /\ ~steps[cycles[k].start].outcome.accepted
                 /\ \A i \in Span(cycles[k]) : Progress(i) => i = cycles[k].end
                 /\ Progress(cycles[k].end) \/ cycles[k].end = Len(steps)

\* The beam search a plan describes, without sessions: a path of choices, the
\* episode it produces, and its place in the order of preference.
PathStats(path, episode) ==
    [ZeroStats EXCEPT !.length = Len(path),
        !.terminal_success = One(episode.result # None /\ episode.result.success),
        !.task_success = One(episode.result # None /\ episode.result.satisfied)]

Reached(plan, path) == [path |-> path, episode |-> Branch(plan.task, path), points |-> 0]

Extended(plan, from, order) ==
    [Reached(plan, Append(from.path, order)) EXCEPT
        !.points = from.points + ScoreOf(from.episode, order)]

PathKey(reached) ==
    SortKey([value |-> ObjectiveValue(PathStats(reached.path, reached.episode)),
             score |-> reached.points, state |-> StateHash(Calls(reached.episode.steps))], 0)

Best(n, reached) ==
    {p \in reached : Cardinality({q \in reached : Before(PathKey(q), PathKey(p))}) < n}

\* The accepted children of a layer's paths, by the best choices of each.
Offered(plan, layer) ==
    {child \in UNION {{Extended(plan, from, order) :
                          order \in ToSet(FirstOf(plan.children, Ranking(from.episode)))} :
                      from \in layer} :
        Last(child.episode.steps).outcome.accepted}

Unfinished(reached) == {p \in reached : p.episode.result = None}

\* Layer[d] is the best `beam` of the unfinished children of the layer before.
BeamLayers(plan) ==
    LET layer[d \in 0 .. plan.depth] ==
            IF d = 0 THEN {Reached(plan, <<>>)}
            ELSE Best(plan.beam, Unfinished(Offered(plan, layer[d - 1])))
    IN  layer

Paths(reached) == {p.path : p \in reached}

Recommendable(terminals, last) == Best(1, IF terminals # {} THEN terminals ELSE last)

BeamResult(plan, layers, terminals) ==
    [layers |-> [d \in DOMAIN layers |-> Paths(layers[d])], terminals |-> Paths(terminals),
     best |-> Paths(Recommendable(terminals, layers[plan.depth]))]

FromLayers(plan, layers) ==
    BeamResult(plan, layers,
        UNION {Offered(plan, layers[d]) \ Unfinished(Offered(plan, layers[d])) :
                  d \in 0 .. plan.depth - 1})

BeamOf == [plan \in Plans |-> FromLayers(plan, BeamLayers(plan))]

PathsOf(session, ids) == {Path(session, ids[i]) : i \in DOMAIN ids}

KeptTo(session, beam) ==
    /\ \A d \in 1 .. session.plan.depth :
          beam.layers[d] = IF d \in DOMAIN session.layers
                           THEN PathsOf(session, session.layers[d]) ELSE {}
    /\ PathsOf(session, session.terminals) = beam.terminals
    /\ session.result.recommended # 0 =>
          beam.best = {Path(session, session.result.recommended)}

(***************************************************************************)
(* A search that ends by itself, in units of any size and over any number  *)
(* of checkpoints, has kept exactly the layers and found exactly the       *)
(* terminals of the beam search its plan describes, and recommends the     *)
(* best of them (search.rs:1632).                                          *)
(***************************************************************************)
SearchIsBeam ==
    \A session \in Sessions : session.status \in {"complete", "bounded"} =>
        KeptTo(session, BeamOf[session.plan])
=============================================================================
