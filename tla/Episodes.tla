------------------------------- MODULE Episodes -------------------------------
(***************************************************************************)
(* An evaluation episode: a policy is shown what the compiler answered and *)
(* what it may choose, decides, and the compiler executes the decision.    *)
(* The compiler is a deterministic function of the actions it was given.   *)
(***************************************************************************)
EXTENDS Integers, FiniteSets, SequencesExt

CONSTANTS
    Tasks,           \* the corpus: task name -> its definition
    Respond(_, _),   \* calls so far, action -> the compiler's outcome
    Continues(_, _), \* calls so far, next request -> generated continuations
    None             \* "no result", "no hash"

ASSUME TasksAssumption ==
    \A t \in DOMAIN Tasks : Tasks[t].requests \in Seq(ToSet(Tasks[t].requests))

Active == {"ready", "running"}

\* A policy descriptor: the surface it acts on, the ranking descriptor it is
\* bound to or None, and whether a hybrid one may leave the menu.
Policy(kind, ranker) == [kind |-> kind, ranker |-> ranker, escape |-> kind = "hybrid"]

FreshEpisode(task) ==
    [task |-> task, status |-> "ready", steps |-> <<>>, result |-> None, hash |-> None]

-----------------------------------------------------------------------------
\* Observations.

\* The production action a recorded step stands for.
Resolved(step) ==
    IF step.decision.surface = "menu" THEN step.frame[step.decision.choice]
                                      ELSE step.decision.action

Calls(steps) == [i \in DOMAIN steps |-> Resolved(steps[i])]

Requests(episode) == Tasks[episode.task].requests
NextRequest(episode) == Requests(episode)[Len(episode.steps) + 1]

\* What a policy may choose from: the compiler's continuations of its last
\* response when the policy ranks, else the task's own next request.
ContinuationFrame(policy, episode) ==
    LET generated == IF policy.ranker # None /\ episode.steps # <<>>
                     THEN Continues(Calls(episode.steps), NextRequest(episode)) ELSE <<>>
    IN  IF policy.kind = "free" THEN <<>>
        ELSE IF generated = <<>> THEN <<NextRequest(episode)>> ELSE generated

\* An observation repeats the last response, and its diagnostic if rejected.
ObservationBytes(steps) ==
    IF steps = <<>> \/ Last(steps).outcome.accepted THEN 1 ELSE 2

UsedContext(steps) == FoldLeft(LAMBDA total, step : total + step.bytes, 0, steps)

\* next_observation answers only an active episode whose context is not spent.
CanObserve(episode) ==
    /\ episode.status \in Active
    /\ Len(episode.steps) < Len(Requests(episode))
    /\ UsedContext(episode.steps) + ObservationBytes(episode.steps)
         <= Tasks[episode.task].maxContext

-----------------------------------------------------------------------------
\* Decisions.

MenuChoice(choice) == [surface |-> "menu", choice |-> choice, action |-> None]
Action(action) == [surface |-> "action", choice |-> 0, action |-> action]
Escape(action) == [surface |-> "escape", choice |-> 0, action |-> action]

\* The decision stays on the policy's action surface.
OnSurface(policy, episode, decision) ==
    \/ /\ decision.surface = "menu" /\ policy.kind # "free"
       /\ decision.choice \in DOMAIN ContinuationFrame(policy, episode)
    \/ decision.surface = "action" /\ policy.kind = "free"
    \/ decision.surface = "escape" /\ policy.kind = "hybrid" /\ policy.escape

CanSubmit(policy, episode, decision) ==
    /\ CanObserve(episode)
    /\ OnSurface(policy, episode, decision)
    /\ Len(episode.steps) + 1 <= Tasks[episode.task].maxActions

Rejections(steps) == Cardinality({i \in DOMAIN steps : ~steps[i].outcome.accepted})

-----------------------------------------------------------------------------
\* Results.

Satisfied(criterion, steps) ==
    CASE criterion.kind = "all_accepted" -> Rejections(steps) = 0
      [] criterion.kind = "answer" -> Last(steps).outcome.answer = criterion.answer
      [] criterion.kind = "repaired" ->
            \E i, j \in DOMAIN steps :
                /\ i < j /\ steps[j].outcome.accepted
                /\ ~steps[i].outcome.accepted /\ steps[i].outcome.answer = criterion.answer

\* A repair cycle opens at a rejection and closes at the next accepted step
\* that makes progress, or at the end of the episode.
NoCycle == [open |-> 0, code |-> None, again |-> FALSE]

\* Mutant: an accepted step closes the cycle even when it makes no progress
\* and the cycle open at the end of the episode is forgotten.
X_RepairCycles_ForgetsOpen(steps) ==
    LET Scan(acc, i) ==
            IF ~steps[i].outcome.accepted
            THEN IF acc.open = 0 THEN [acc EXCEPT !.open = i] ELSE acc
            ELSE IF acc.open # 0
            THEN [open |-> 0, cycles |-> Append(acc.cycles,
                    [start |-> acc.open, end |-> i, length |-> i - acc.open, repeated |-> FALSE])]
            ELSE acc
    IN  FoldLeftDomain(Scan, [open |-> 0, cycles |-> <<>>], steps).cycles

RepairCycle(scan, end, length) ==
    [start |-> scan.open, end |-> end, length |-> length, repeated |-> scan.again]

RepairScan(steps, acc, i) ==
    LET scan == acc.scan  outcome == steps[i].outcome IN
    IF ~outcome.accepted
    THEN [acc EXCEPT !.scan = IF scan.open = 0
                              THEN [open |-> i, code |-> outcome.answer, again |-> FALSE]
                              ELSE [scan EXCEPT !.again = @ \/ outcome.answer = scan.code]]
    ELSE IF outcome.progress /\ scan.open # 0
    THEN [scan |-> NoCycle, cycles |-> Append(acc.cycles, RepairCycle(scan, i, i - scan.open))]
    ELSE acc

RepairCycles(steps) ==
    LET read == FoldLeft(LAMBDA acc, i : RepairScan(steps, acc, i),
                         [scan |-> NoCycle, cycles |-> <<>>], [i \in DOMAIN steps |-> i])
    IN  IF read.scan.open = 0 THEN read.cycles
        ELSE Append(read.cycles,
                    RepairCycle(read.scan, Len(steps), Len(steps) + 1 - read.scan.open))

\* What episode_hash covers: everything but the hash.
EpisodeContent(episode) ==
    [task |-> episode.task, status |-> episode.status, steps |-> episode.steps,
     result |-> episode.result]

Hashed(episode) == [episode EXCEPT !.hash = EpisodeContent(episode)]

\* finalize_episode: the compiler's own verdict, never the policy's.
Finalized(episode) ==
    LET steps == episode.steps
        exhausted == episode.status = "budget_exhausted"
        satisfied == Satisfied(Tasks[episode.task].criterion, steps)
        result == [success |-> satisfied /\ ~exhausted, satisfied |-> satisfied,
                   decisions |-> Len(steps), rejected |-> Rejections(steps),
                   noOps |-> Cardinality({i \in DOMAIN steps : steps[i].outcome.accepted
                                                            /\ ~steps[i].outcome.progress}),
                   repairs |-> RepairCycles(steps), context |-> UsedContext(steps),
                   exhausted |-> exhausted]
        status == IF exhausted THEN "budget_exhausted"
                  ELSE IF satisfied THEN "succeeded" ELSE "failed"
    IN  Hashed([episode EXCEPT !.result = result, !.status = status])

\* The engine, given `calls` so far, executes the action; the step is recorded
\* whatever it answers.
RecordedStep(policy, episode, calls, decision) ==
    LET frame == ContinuationFrame(policy, episode)
    IN  [frame |-> frame, decision |-> decision, ranker |-> None,
         outcome |-> Respond(calls, Resolved([frame |-> frame, decision |-> decision])),
         bytes |-> ObservationBytes(episode.steps)]

\* A rejection beyond the budget ends the episode, and so does its last step.
AfterStep(episode, steps) ==
    LET exhausted == Rejections(steps) > Tasks[episode.task].maxRejections
        running == [episode EXCEPT !.steps = steps,
                       !.status = IF exhausted THEN "budget_exhausted" ELSE "running"]
    IN  IF exhausted \/ Len(steps) = Len(Requests(episode)) THEN Finalized(running) ELSE running

Submitted(policy, episode, calls, decision) ==
    AfterStep(episode, Append(episode.steps, RecordedStep(policy, episode, calls, decision)))

Marked(policy, episode) == [episode EXCEPT !.steps[Len(episode.steps)].ranker = policy.ranker]

\* Mutant: the finished episode keeps the hash it had before the ranking.
X_Ranked_KeepsHash(policy, episode, calls, decision) ==
    Marked(policy, Submitted(policy, episode, calls, decision))

HashedWhenEnded(episode) == IF episode.result # None THEN Hashed(episode) ELSE episode

\* rank_episode: the ranked choice is submitted, then its trace and selection
\* are written to the step it made, and the finished episode is hashed again.
Ranked(policy, episode, calls, decision) ==
    HashedWhenEnded(Marked(policy, Submitted(policy, episode, calls, decision)))

\* Replay of an episode in a fresh engine from its recorded decisions; the descriptor of every ranking
\* must be at hand.
Replays(episode, rankers) ==
    /\ \A i \in DOMAIN episode.steps : episode.steps[i].ranker \in rankers \union {None}
    /\ \A i \in DOMAIN episode.steps :
          episode.steps[i].outcome
            = Respond(Calls(SubSeq(episode.steps, 1, i - 1)), Resolved(episode.steps[i]))
    /\ episode.hash = EpisodeContent(episode)
=============================================================================
