---------------------------- MODULE SearchSessions ----------------------------
(***************************************************************************)
(* A deterministic beam search over the menu choices of one task.  A node  *)
(* is what a branch of choices led to; expanding it rebuilds the branch in *)
(* a fresh engine, ranks the choices the compiler offers there and creates *)
(* a child for each of the best.  A layer is expanded node by node; of its *)
(* children the best `beam` are the next layer.                            *)
(***************************************************************************)
EXTENDS Episodes

CONSTANTS
    Score(_, _),   \* calls so far, action -> the ranker's score
    StateHash(_),  \* accepted calls -> hash: injective, of no useful order
    Objective,     \* sequence of [kind, maximize]: the objective's components
    SearchLimits,  \* [expansions, nodes, engines, requests]: safety limits
    Units          \* how many units one advance may ask for

ASSUME SearchAssumption == Units \subseteq Nat /\ SearchLimits.expansions \in Nat

SearchPolicy == Policy("menu", "search")

\* A plan: the task, the envelope, and how often a checkpoint is taken.
SearchPlan(task, beam, depth, children, cadence) ==
    [task |-> task, beam |-> beam, depth |-> depth, children |-> children,
     cadence |-> cadence]

-----------------------------------------------------------------------------
\* Nodes.

ObjectiveValue(stats) == [i \in DOMAIN Objective |-> stats[Objective[i].kind]]

\* Nodes in order of preference: the objective's components, the score of
\* the branch, then the hash of its state and the node's own number.
SortKey(node, id) ==
    [i \in DOMAIN Objective |-> IF Objective[i].maximize THEN - node.value[i] ELSE node.value[i]]
        \o <<- node.score, node.state, id>>

Before(left, right) ==
    \E k \in DOMAIN left : left[k] < right[k] /\ \A j \in 1..(k - 1) : left[j] = right[j]

Precedes(session, a, b) == Before(SortKey(session.nodes[a], a), SortKey(session.nodes[b], b))

Sorted(session, ids) == SortSeq(ids, LAMBDA a, b : Precedes(session, a, b))

HighestOrdered(session, ids) == IF ids = <<>> THEN 0 ELSE Sorted(session, ids)[1]

\* path_edges: the choices that lead from the root to a node.
Path(session, n) ==
    LET path[i \in DOMAIN session.nodes] ==
            IF session.nodes[i].parent = 0 THEN <<>>
            ELSE Append(path[session.nodes[i].parent], session.nodes[i].order)
    IN  path[n]

\* The episode a branch of choices produces in a fresh engine.
Branch(task, path) ==
    LET Choose(episode, order) ==
            Submitted(SearchPolicy, episode, Calls(episode.steps), MenuChoice(order))
    IN  FoldLeft(Choose, FreshEpisode(task), path)

ScoreOf(episode, order) ==
    Score(Calls(episode.steps), ContinuationFrame(SearchPolicy, episode)[order])

\* rank_choices: by score, highest first, then in the compiler's order.
Ranking(episode) ==
    SetToSortSeq(DOMAIN ContinuationFrame(SearchPolicy, episode),
                 LAMBDA a, b : Before(<<- ScoreOf(episode, a), a>>, <<- ScoreOf(episode, b), b>>))

FirstOf(n, sequence) == SubSeq(sequence, 1, Min({n, Len(sequence)}))

AcceptedCalls(steps) == Calls(SelectSeq(steps, LAMBDA step : step.outcome.accepted))

-----------------------------------------------------------------------------
\* Starting and stopping.

Stopped(session) == session.status # "running"

\* What remains: the nodes still to expand, then the next layer's candidates.
Remaining(session) == session.pending \o session.next

Finish(session, status, reason) ==
    LET selected == HighestOrdered(session, session.terminals)
    IN  [session EXCEPT !.status = status,
            !.result = [reason |-> reason, selected |-> selected,
                        recommended |-> IF selected # 0 THEN selected
                                        ELSE HighestOrdered(session, Remaining(session)),
                        frontier |-> Remaining(session)]]

Fail(session) == Finish(session, "failed", "structured_failure")
Rejected(session) == [session EXCEPT !.rejected = TRUE]

ZeroStats ==
    [terminal_success |-> 0, task_success |-> 0, progress |-> 0, rejections |-> 0,
     repairs |-> 0, score |-> 0, length |-> 0]

Root == [parent |-> 0, order |-> 0, depth |-> 0, accepted |-> TRUE, state |-> StateHash(<<>>),
         stats |-> ZeroStats, value |-> ObjectiveValue(ZeroStats), score |-> 0,
         terminal |-> FALSE, duplicate |-> 0]

StartSearch(plan) ==
    LET session == [plan |-> plan, nodes |-> <<Root>>, pending |-> <<1>>, next |-> <<>>,
                    depth |-> 0, terminals |-> <<>>, layers |-> <<>>, expansions |-> 0,
                    engines |-> 0, requests |-> 0, checkpoints |-> 0, status |-> "running",
                    cancel |-> FALSE, rejected |-> FALSE, result |-> None]
    IN  IF plan.depth = 0 THEN Finish(session, "bounded", "semantic_depth_horizon") ELSE session

-----------------------------------------------------------------------------
\* Expanding a node.

\* rebuild_branch: a fresh engine, and every choice of the branch again.
Rebuilt(session, n) ==
    LET length == Len(Path(session, n))
        started == [session EXCEPT !.engines = @ + 1]
    IN  IF session.engines >= SearchLimits.engines THEN Rejected(session)
        ELSE IF session.requests + length > SearchLimits.requests THEN Rejected(started)
        ELSE [started EXCEPT !.requests = @ + length]

Observed(session, n) == Branch(session.plan.task, Path(session, n))

\* The first node that showed this state, 0 when there is none.
Representative(session, state) ==
    LET same == {n \in DOMAIN session.nodes : session.nodes[n].state = state}
    IN  IF same = {} THEN 0 ELSE Min(same)

One(condition) == IF condition THEN 1 ELSE 0

\* The node a choice of score `points` makes of its parent, given its episode.
ChildNode(session, parent, order, points, episode) ==
    LET outcome == Last(episode.steps).outcome
        from == session.nodes[parent]
        finished == episode.result # None
        state == StateHash(AcceptedCalls(episode.steps))
        stats == [terminal_success |-> One(finished /\ episode.result.success),
                  task_success |-> One(finished /\ episode.result.satisfied),
                  progress |-> from.stats.progress + One(outcome.accepted /\ outcome.progress),
                  rejections |-> from.stats.rejections + One(~outcome.accepted),
                  repairs |-> IF finished THEN Len(episode.result.repairs)
                              ELSE from.stats.repairs,
                  score |-> from.score + points, length |-> from.depth + 1]
    IN  [parent |-> parent, order |-> order, depth |-> from.depth + 1,
         accepted |-> outcome.accepted, state |-> state, stats |-> stats,
         value |-> ObjectiveValue(stats), score |-> from.score + points,
         terminal |-> finished, duplicate |-> Representative(session, state)]

Chosen(session, parent, order, branch) ==
    ChildNode(session, parent, order, ScoreOf(branch, order),
              Submitted(SearchPolicy, branch, Calls(branch.steps), MenuChoice(order)))

\* An accepted child that ends the task is a terminal, another that shows a
\* new state competes for the next layer, a rejected one is a leaf.
Adopted(session, child) ==
    LET id == Len(session.nodes) + 1
        created == [session EXCEPT !.requests = @ + 1, !.nodes = Append(@, child)]
    IN  IF child.accepted /\ child.terminal THEN [created EXCEPT !.terminals = Append(@, id)]
        ELSE IF child.accepted /\ child.duplicate = 0 THEN [created EXCEPT !.next = Append(@, id)]
        ELSE created

WithChild(rebuilt, parent, order) ==
    IF rebuilt.rejected \/ rebuilt.requests + 1 > SearchLimits.requests THEN Rejected(rebuilt)
    ELSE Adopted(rebuilt, Chosen(rebuilt, parent, order, Observed(rebuilt, parent)))

\* create_child: the branch is rebuilt once more, and the choice executed.
CreateChild(session, parent, order) ==
    IF session.rejected THEN session
    ELSE IF Len(session.nodes) >= SearchLimits.nodes THEN Rejected(session)
    ELSE WithChild(Rebuilt(session, parent), parent, order)

\* The best choices of the ranking, up to the plan's width, are executed.
WithChildren(rebuilt, n, episode) ==
    LET ranking == Ranking(episode)
        Child(s, k) == IF k \in DOMAIN ranking THEN CreateChild(s, n, ranking[k]) ELSE s
    IN  IF rebuilt.rejected \/ ~CanObserve(episode) THEN Rejected(rebuilt)
        ELSE FoldLeft(Child, rebuilt, [k \in 1..rebuilt.plan.children |-> k])

\* expand_node
ExpandNode(session, n) == WithChildren(Rebuilt(session, n), n, Observed(session, n))

-----------------------------------------------------------------------------
\* Layers and units of work.

\* The next layer, once the beam is chosen.
Layered(session, retained) ==
    LET layer == [session EXCEPT !.depth = @ + 1, !.pending = retained, !.next = <<>>,
                                 !.layers = Append(@, retained)]
    IN  IF session.pending # <<>> THEN session
        ELSE IF session.next = <<>> THEN Finish(session, "complete", "envelope_exhausted")
        ELSE IF layer.depth >= session.plan.depth
             THEN Finish(layer, "bounded", "semantic_depth_horizon")
        ELSE layer

\* Mutant: the beam is cut before the candidates are put in order.
X_FinishLayer_CutsUnsorted(session) ==
    Layered(session, Sorted(session, FirstOf(session.plan.beam, session.next)))

\* finish_layer: of the candidates the best `beam` become the next layer.
FinishLayer(session) ==
    Layered(session, FirstOf(session.plan.beam, Sorted(session, session.next)))

\* The checks of a checkpoint: one root, parents before their children, a
\* frontier of known nodes, in order.
ValidStructure(session) ==
    /\ \A n \in DOMAIN session.nodes : session.nodes[n].parent \in 0..(n - 1)
    /\ {n \in DOMAIN session.nodes : session.nodes[n].parent = 0} = {1}
    /\ ToSet(Remaining(session)) \subseteq DOMAIN session.nodes
    /\ session.pending = Sorted(session, session.pending)

\* After an expansion: a checkpoint when it is due, then the layer's end.
Expanded(session) ==
    LET due == session.expansions % session.plan.cadence = 0
    IN  IF due /\ ~ValidStructure(session) THEN Fail(Rejected(session))
        ELSE FinishLayer([session EXCEPT !.checkpoints = IF due THEN @ + 1 ELSE @])

AfterExpansion(session) ==
    IF session.rejected THEN Fail(session) ELSE Expanded([session EXCEPT !.expansions = @ + 1])

\* One unit: cancellation is looked at between units only; the node leaves
\* the frontier before it is expanded.
Unit(session) ==
    IF Stopped(session) THEN session
    ELSE IF session.cancel THEN Finish(session, "cancelled", "cooperative_cancellation")
    ELSE IF session.expansions >= SearchLimits.expansions THEN Fail(Rejected(session))
    ELSE AfterExpansion(ExpandNode([session EXCEPT !.pending = Tail(@)], Head(session.pending)))

Advanced(session, units) == FoldLeft(LAMBDA s, i : Unit(s), session, [i \in 1..units |-> i])

RequestCancellation(session) == [session EXCEPT !.cancel = @ \/ ~Stopped(session)]
Cancelled(session) == Advanced(RequestCancellation(session), 1)

\* Mutant: the replay never cancels, and runs on to the end.
X_Rerun_NeverCancels(session) ==
    Advanced(StartSearch(session.plan), SearchLimits.expansions + 1)

\* replay_search: from the root again, one unit at a time, cancelled where
\* the retained search was.
Rerun(session) ==
    LET Again(s, i) ==
            IF session.status = "cancelled" /\ s.expansions = session.expansions
            THEN Cancelled(s) ELSE Unit(s)
    IN  FoldLeft(Again, StartSearch(session.plan), [i \in 1..(SearchLimits.expansions + 1) |-> i])

Semantic(session) ==
    [nodes |-> session.nodes, pending |-> session.pending, next |-> session.next,
     layers |-> session.layers, result |-> session.result, status |-> session.status]

ReplaysSearch(session) == Stopped(session) /\ Semantic(Rerun(session)) = Semantic(session)
=============================================================================
