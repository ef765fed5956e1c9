----------------------------- MODULE MCEvaluation -----------------------------
(***************************************************************************)
(* A compiler of five requests: nothing works before "open", a fusion must *)
(* come before a tiling, and sealing needs one of them.  Policies play     *)
(* "mend", scripts a long task and one whose context runs out; "deep" is   *)
(* searched.                                                               *)
(***************************************************************************)
EXTENDS Evaluation

CONSTANT none

Has(calls, action) == \E i \in DOMAIN calls : calls[i] = action
Accepted(progress, answer) == [accepted |-> TRUE, progress |-> progress, answer |-> answer]
Refused(code) == [accepted |-> FALSE, progress |-> FALSE, answer |-> code]

MCRespond(calls, action) ==
    IF action = "open" THEN Accepted(TRUE, "opened")
    ELSE IF ~Has(calls, "open") THEN Refused("closed")
    ELSE CASE action = "look" -> Accepted(FALSE, "seen")
           [] action = "fuse" -> IF Has(calls, "tile") THEN Refused("tiled")
                                 ELSE Accepted(TRUE, "fused")
           [] action = "tile" -> Accepted(TRUE, "tiled")
           [] action = "seal" -> IF Has(calls, "tile") THEN Accepted(TRUE, "sealed")
                                 ELSE IF Has(calls, "fuse") THEN Accepted(TRUE, "flat")
                                 ELSE Refused("open_hole")

MCContinues(calls, next) ==
    IF Has(calls, "open") /\ next \in {"tile", "fuse"} THEN <<"look", "fuse", "tile">> ELSE <<>>

MCScore(calls, action) ==
    CASE action = "look" -> 1
      [] action = "fuse" -> 2
      [] action = "tile" -> IF Has(calls, "fuse") THEN 0 ELSE 2
      [] OTHER -> 0

\* The digits of the calls, last first: an order unlike that of creation.
MCStateHash(calls) ==
    LET digit == [open |-> 1, look |-> 4, fuse |-> 3, tile |-> 2, seal |-> 5]
    IN  FoldRight(LAMBDA call, sum : 6 * sum + digit[call], calls, 0)

Task(requests, criterion, rejections, context) ==
    [requests |-> requests, criterion |-> criterion, maxRejections |-> rejections,
     maxActions |-> Len(requests) + 4, maxContext |-> context]

MCTasks ==
    [one |-> Task(<<"open">>, [kind |-> "all_accepted"], 0, 9),
     mend |-> Task(<<"tile", "open">>, [kind |-> "repaired", answer |-> "closed"], 1, 3),
     long |-> Task(<<"tile", "look", "open", "look", "tile", "fuse", "look", "fuse">>,
                   [kind |-> "all_accepted"], 4, 20),
     dear |-> Task(<<"tile", "tile">>, [kind |-> "all_accepted"], 4, 2),
     deep |-> Task(<<"open", "tile", "fuse", "seal">>, [kind |-> "answer", answer |-> "sealed"], 1, 9)]

MCTaskLists == {<<"mend">>, <<"one", "one">>}
MCScriptLists == {<<"long">>, <<"dear", "one">>}
MCPolicies == {Policy("menu", "goal"), Policy("menu", "learned"), Policy("hybrid", None)}
MCScripts == {[policy |-> Policy("free", None), bounded |-> FALSE],
              [policy |-> Policy("hybrid", None), bounded |-> TRUE]}

MCPlans == {SearchPlan("deep", 2, 4, 2, 1), SearchPlan("deep", 1, 4, 3, 2),
            SearchPlan("deep", 2, 2, 3, 1), SearchPlan("deep", 3, 4, 3, 3)}
MCObjective == <<[kind |-> "task_success", maximize |-> TRUE],
                 [kind |-> "terminal_success", maximize |-> TRUE],
                 [kind |-> "rejections", maximize |-> FALSE],
                 [kind |-> "length", maximize |-> FALSE]>>
MCSearchLimits == [expansions |-> 8, nodes |-> 16, engines |-> 40, requests |-> 60]

\* Runs and searches share no state: it is enough to look at either.
OneKindAtATime ==
    (DOMAIN runs = {} /\ runArchive = None) \/ (DOMAIN searches = {} /\ held = None)

\* Runs are verified one by one, so an archive of one run shows as much, also
\* when a short one is named twice.
SmallArchive ==
    runArchive = None \/
    /\ Cardinality(Archived(runArchive)) = 1
    /\ \/ Len(runArchive.runs) = 1
       \/ Len(runArchive.runs[1].run.episodes) = 2 /\ Cardinality(DOMAIN runs) <= 1

\* Learned rankings of one run of short episodes do, and what registering shows
\* needs a run that was ranked so.
ShortLearning ==
    /\ \A r \in DOMAIN runs : runs[r].policy.ranker = "learned" =>
          /\ DOMAIN runs = {r}
          /\ \A e \in DOMAIN runs[r].episodes : runs[r].episodes[e].task = "one"
    /\ \A ranker \in registered :
          ranker = "learned" /\ \E r \in DOMAIN runs : ranker \in RankersOf(runs[r])

\* Runs do not affect one another: of two, one ran a script or waits.
OneRunMoves ==
    \A r, s \in DOMAIN runs : r # s =>
        \E run \in {runs[r], runs[s]} :
            \A e \in DOMAIN run.episodes :
                run.episodes[e].steps = <<>> \/ run.episodes[e].task \in {"long", "dear"}
=============================================================================
