----------------------------- MODULE Optimization -----------------------------
(***************************************************************************)
(* The optimization state of a workspace: the candidate forest and the     *)
(* equality store, changed by the requests of clients in any order.  Each  *)
(* keeps its own log of accepted requests; an event of the store records   *)
(* how far the forest's log had come, and an archive is replayed from the  *)
(* two logs by those cursors.                                              *)
(***************************************************************************)
EXTENDS EqualitySpaces

CONSTANTS
    MaxRevisions,   \* bound: candidate revisions in the forest
    MaxCandidates,  \* limit: candidate branches in a workspace
    MaxSpaces,      \* limit: equality spaces in a workspace
    MaxChunks       \* bound: revisions of a space

ASSUME OptimizationBounds ==
    {MaxRevisions, MaxCandidates, MaxSpaces, MaxChunks} \subseteq Nat
\* An implementation is identified by a hash of 32 bytes.
ASSUME ImplsAreFinite == IsFiniteSet(Impls)

VARIABLES
    forest,    \* the candidate forest and its log
    equality   \* the equality store and its log

vars == <<forest, equality>>

Init == forest = EmptyForest /\ equality = EmptyStore

\* A staged forest replaces the forest only when the new revision is verified.
Publish(staged) ==
    /\ Len(staged.revisions) <= MaxRevisions
    /\ Checks(staged)
    /\ forest' = staged

CreateCandidate ==
    /\ Len(forest.candidates) < MaxCandidates
    /\ Publish(Created(forest))
    /\ UNCHANGED equality

ApplyRewrite ==
    \E c \in Candidates(forest) : \E after \in Rewrites(HeadOf(forest, c).impl) :
        /\ CanApply(forest, c, after)
        /\ Publish(Applied(forest, c, after))
        /\ UNCHANGED equality

Propose ==
    \E c \in Candidates(forest) : \E after \in Fragments[HeadOf(forest, c).impl] :
        /\ CanPropose(forest, c, after)
        /\ Publish(Proposed(forest, c, after))
        /\ UNCHANGED equality

CheckTranslation ==
    \E c \in Candidates(forest) : \E i \in DOMAIN HeadOf(forest, c).debt :
        /\ CanTranslate(forest, c, i)
        /\ Publish(Translated(forest, c, i))
        /\ UNCHANGED equality

Fork ==
    \E r \in Revisions(forest) :
        /\ Len(forest.candidates) < MaxCandidates
        /\ CanFork(forest, r)
        /\ Publish(Forked(forest, r))
        /\ UNCHANGED equality

Validate ==
    \E c \in Candidates(forest), passed \in BOOLEAN :
        /\ CanValidate(forest, c, passed)
        /\ Publish(Validated(forest, c, passed))
        /\ UNCHANGED equality

Seal ==
    \E c \in Candidates(forest) :
        /\ CanSeal(forest, c)
        /\ Publish(Sealed(forest, c))
        /\ UNCHANGED equality

CreateSpace ==
    \E r \in Revisions(forest) :
        /\ Len(equality.spaces) < MaxSpaces
        /\ CanAnchor(forest, r)
        /\ equality' = SpaceCreated(equality, forest, r)
        /\ UNCHANGED forest

\* equality.expand and equality.saturate: they differ in the fuel limit only.
Expand ==
    \E s \in DOMAIN equality.spaces, fuel \in 1 .. FuelLimit :
        /\ Len(equality.spaces[s].revisions) < MaxChunks
        /\ CanExpand(equality, s, fuel)
        /\ equality' = SpaceExpanded(equality, forest, s, fuel)
        /\ UNCHANGED forest

Discharge ==
    \E c \in Candidates(forest), s \in DOMAIN equality.spaces :
    \E i \in DOMAIN HeadOf(forest, c).debt, v \in DOMAIN equality.spaces[s].revisions :
    \E node \in DOMAIN equality.spaces[s].revisions[v].nodes :
        /\ CanDischarge(equality, forest, c, i, s, v, node)
        /\ Publish(DischargedForest(forest, c, i))
        /\ equality' = DischargedStore(equality, forest, c, i, s, v, node)

Materialize ==
    \E s \in DOMAIN equality.spaces : \E v \in DOMAIN equality.spaces[s].revisions :
    \E node \in DOMAIN equality.spaces[s].revisions[v].nodes :
        /\ Len(forest.candidates) < MaxCandidates
        /\ CanMaterialize(equality, forest, s, v, node)
        /\ Publish(MaterializedForest(equality, forest, s, v, node))
        /\ equality' = MaterializedStore(equality, forest, s, v, node)

Next ==
    \/ CreateCandidate \/ ApplyRewrite \/ Propose \/ CheckTranslation \/ Fork \/ Validate
    \/ Seal \/ CreateSpace \/ Expand \/ Discharge \/ Materialize

Spec == Init /\ [][Next]_vars

---------------------------------------------------------------------------
\* Replaying an archive: the requests of the logs, interleaved by the cursors.
Replay(f, event) ==
    LET a == event.args
    IN CASE event.kind = "create" -> Created(f)
         [] event.kind = "apply" -> Applied(f, a[1], a[3])
         [] event.kind = "propose" -> Proposed(f, a[1], a[3])
         [] event.kind = "translate" -> Translated(f, a[1], a[3])
         [] event.kind = "fork" -> Forked(f, a[1])
         [] event.kind = "validate" -> Validated(f, a[1], a[3])
         [] event.kind = "seal" -> Sealed(f, a[1])

ReplayEquality(w, event) ==
    LET a == event.args
        e == w.equality
        f == w.forest
    IN CASE event.kind = "create" -> [w EXCEPT !.equality = SpaceCreated(e, f, a[1])]
         [] event.kind = "expand" -> [w EXCEPT !.equality = SpaceExpanded(e, f, a[1], a[2])]
         [] event.kind = "discharge" ->
                [w EXCEPT !.forest = DischargedForest(f, a[1], a[3]),
                          !.equality = DischargedStore(e, f, a[1], a[3], a[4], a[5], a[6])]
         [] event.kind = "materialize" ->
                [w EXCEPT !.forest = MaterializedForest(e, f, a[1], a[2], a[3]),
                          !.equality = MaterializedStore(e, f, a[1], a[2], a[3])]

\* The forest's events from the last cursor to the next one.
ReplayForestTo(w, log, cursor) ==
    [w EXCEPT !.forest = FoldLeft(Replay, @, SubSeq(log, w.at + 1, cursor)), !.at = cursor]

Replayed(f, e) ==
    LET step(w, event) == ReplayEquality(ReplayForestTo(w, f.events, event.cursor), event)
        before == FoldLeft(step, [forest |-> EmptyForest, equality |-> EmptyStore, at |-> 0], e.events)
        after == ReplayForestTo(before, f.events, Len(f.events))
    IN [forest |-> after.forest, equality |-> after.equality]

---------------------------------------------------------------------------
\* Correctness.
Exact(r) == \A i \in Inputs : Evaluated(forest, r, i) = Meaning[Identity][i]
Sealable(rev) ==
    /\ rev.status \in {"Proved", "Guarded"}
    /\ rev.state \notin {"Rejected", "Sealed"}
    /\ \A i \in DOMAIN rev.debt : rev.debt[i].status \in {"Proved", "Guarded"}

\* A candidate that is sealed, or that check reports sealable, computes what
\* the specification computes on every input, its guard's fallback included.
SealedIsExact ==
    \A r \in Revisions(forest) :
        forest.revisions[r].state = "Sealed" \/ Sealable(forest.revisions[r]) => Exact(r)

\* The members of every space, and so the candidates and the debts they
\* prove, compute what the specification computes.
MembersAreExact ==
    \A s \in DOMAIN equality.spaces : \A v \in DOMAIN equality.spaces[s].revisions :
        \A p \in ToSet(equality.spaces[s].revisions[v].nodes) : Meaning[p] = Meaning[Identity]

\* The proof frontier of a live revision is its last proved program: where
\* the first unsettled debt starts, and its own program when there is none.
FrontierIsProvedPrefix ==
    \A r \in Revisions(forest) :
        LET rev == forest.revisions[r]
            unsettled == {i \in DOMAIN rev.debt : rev.debt[i].status \notin {"Proved", "Guarded"}}
        IN rev.frontier.revision # None /\ rev.state # "Rejected" =>
              rev.frontier.terminal =
                  IF unsettled = {} THEN rev.impl
                  ELSE rev.debt[CHOOSE i \in unsettled : \A j \in unsettled : i <= j].before

\* Expanding in chunks of any fuel reaches what one unbounded request reaches
\* from the root: nothing is skipped, expanded twice or numbered differently.
ChunksAreInvisible ==
    \A s \in DOMAIN equality.spaces : \A v \in DOMAIN equality.spaces[s].revisions :
        LET revisions == equality.spaces[s].revisions
            all == Cardinality(Impls)
        IN Expanded(revisions[v], all) = Expanded(revisions[1], all)

\* The logs of the forest and of the store, interleaved by the cursors,
\* reproduce both, every id included, and what they reproduce is verified.
HistoryReplays ==
    /\ Replayed(forest, equality) = [forest |-> forest, equality |-> equality]
    /\ \A r \in Revisions(forest) : Verified(forest, r)
=============================================================================
