---------------------------- MODULE EqualitySpaces ----------------------------
(***************************************************************************)
(* The equality store of agentir-core: spaces of implementations connected *)
(* to a proved candidate revision by production rewrites.  A space grows   *)
(* by expansion requests, each with a fuel; a member of a space proves an  *)
(* item of a candidate's debt, or becomes a candidate of its own.          *)
(*                                                                         *)
(* A node's id is its position, and the worklist is ordered by id: the     *)
(* code orders the ids as strings, which is the same below ten nodes.  A   *)
(* proof edge is its source, its target and the index of its match.        *)
(***************************************************************************)
EXTENDS CandidateForest

CONSTANTS
    NodeLimit,    \* EqualityNodesPerSpace
    FuelLimit     \* EqualityExpansionStepsPerRequest

ASSUME EqualityLimitsAssumption == {NodeLimit, FuelLimit} \subseteq Nat \ {0}

EmptyStore == [spaces |-> <<>>, events |-> <<>>]

\* A revision of a space as it is created: the anchor's program, to be expanded.
Root(p) == [nodes |-> <<p>>, edges |-> {}, work |-> {1}, status |-> "Open"]

Least(work) == CHOOSE n \in work : \A m \in work : n <= m
NodeOf(rev, p) == CHOOSE n \in DOMAIN rev.nodes : rev.nodes[n] = p

\* One match of the node being expanded: a new node, a known one, or itself.
Match(rev, node, i) ==
    LET p == Matches[rev.nodes[node]][i]
    IN IF p = rev.nodes[node] THEN rev
       ELSE IF p \in ToSet(rev.nodes)
       THEN [rev EXCEPT !.edges = @ \cup {<<node, NodeOf(rev, p), i>>}]
       ELSE [rev EXCEPT !.nodes = Append(@, p),
                        !.edges = @ \cup {<<node, Len(rev.nodes) + 1, i>>},
                        !.work = @ \cup {Len(rev.nodes) + 1}]

ExpandNode(rev, node) ==
    FoldLeft(LAMBDA r, i : Match(r, node, i),
             [rev EXCEPT !.work = @ \ {node}],
             [i \in DOMAIN Matches[rev.nodes[node]] |-> i])

ExpandNext(rev) == IF rev.work = {} THEN rev ELSE ExpandNode(rev, Least(rev.work))

X_Expanded_DropsWork(rev, fuel) ==
    [FoldLeft(LAMBDA r, n : ExpandNext(r), rev, [n \in 1 .. fuel |-> n]) EXCEPT
        !.work = {}, !.status = "FixedPoint"]

Expanded(rev, fuel) ==
    LET last == FoldLeft(LAMBDA r, n : ExpandNext(r), rev, [n \in 1 .. fuel |-> n])
    IN [last EXCEPT !.status = IF last.work = {} THEN "FixedPoint" ELSE "FuelExhausted"]

---------------------------------------------------------------------------
SpaceHead(e, s) == e.spaces[s].revisions[Len(e.spaces[s].revisions)]

Logged(e, f, kind, arguments, revision) ==
    [e EXCEPT !.events = Append(@, [cursor |-> Len(f.events), kind |-> kind, args |-> arguments,
                                    revision |-> revision])]

X_CanAnchor_GuardIsProof(f, r) ==
    LET rev == f.revisions[r]
    IN /\ Verified(f, r)
       /\ rev.status \in {"Proved", "Guarded"}
       /\ rev.state \notin {"Speculative", "Rejected"}

\* An exact root: proved, and never because of a guard.
CanAnchor(f, r) ==
    LET rev == f.revisions[r]
    IN /\ Verified(f, r)
       /\ ~HasGuard(rev)
       /\ rev.status = "Proved"
       /\ rev.state \notin {"Speculative", "Rejected", "Guarded"}
       /\ AllProved(rev.debt)

SpaceCreated(e, f, r) ==
    Logged([e EXCEPT !.spaces = Append(@, [anchor |-> r, revisions |-> <<Root(f.revisions[r].impl)>>])],
           f, "create", <<r>>, None)

\* A failed request stages nothing: neither its revision nor its nodes' ids stay.
CanExpand(e, s, fuel) ==
    /\ fuel \in 1 .. FuelLimit
    /\ Len(Expanded(SpaceHead(e, s), fuel).nodes) <= NodeLimit

SpaceExpanded(e, f, s, fuel) ==
    Logged([e EXCEPT !.spaces[s].revisions = Append(@, Expanded(SpaceHead(e, s), fuel))],
           f, "expand", <<s, fuel>>, None)

---------------------------------------------------------------------------
\* The explanation of a member: a shortest path of proof edges from the root.
Edges(rev) == {<<edge[1], edge[2]>> : edge \in rev.edges}
Paths(rev, node) ==
    {p \in UNION {[1 .. n -> DOMAIN rev.nodes] : n \in 1 .. Len(rev.nodes)} :
        /\ p[1] = 1 /\ p[Len(p)] = node
        /\ \A i \in 2 .. Len(p) : <<p[i - 1], p[i]>> \in Edges(rev)}
Explanation(rev, node) ==
    LET path == CHOOSE p \in Paths(rev, node) : \A q \in Paths(rev, node) : Len(p) <= Len(q)
    IN [i \in 1 .. Len(path) - 1 |-> rev.nodes[path[i + 1]]]

\* An anchor that is used again: still verified, proved and unguarded.
AnchorHolds(f, r) ==
    /\ Verified(f, r)
    /\ f.revisions[r].status = "Proved"
    /\ ~HasGuard(f.revisions[r])

\* Discharge the next item of a branch's debt by membership.
CanDischarge(e, f, c, i, s, v, node) ==
    LET base == HeadOf(f, c)
        space == e.spaces[s]
    IN /\ HeadVerified(f, c)
       /\ base.debt[i].status \in {"Open", "Unsupported"}
       /\ IsNext(base.debt, i)
       /\ f.revisions[space.anchor].impl = base.debt[i].before
       /\ node \in DOMAIN space.revisions[v].nodes
       /\ space.revisions[v].nodes[node] = base.debt[i].after
       /\ AnchorHolds(f, space.anchor)

ByMembership(f, c, i) ==
    LET rev == Discharged(HeadOf(f, c), i, "membership")
        proposal == f.proposals[rev.debt[i].proposal]
    IN [rev EXCEPT
           !.base = f.candidates[c].head,
           !.version = 3,
           !.byEquality = @ \cup {rev.debt[i].proposal},
           !.frontier = [candidate |-> c,
                         revision |-> IF AllProved(rev.debt) THEN NextId(f.revisions)
                                      ELSE proposal.accepted,
                         terminal |-> rev.debt[i].after]]

\* The discharge is an event of the store's log; the forest's does not move.
DischargedForest(f, c, i) ==
    [WithRevision(f, c, ByMembership(f, c, i), Event("discharge", <<>>)) EXCEPT !.events = f.events]

DischargedStore(e, f, c, i, s, v, node) ==
    Logged(e, f, "discharge", <<c, f.candidates[c].head, i, s, v, node>>, NextId(f.revisions))

\* Make a member a branch of its own: a fork of the anchor and the path's rewrites.
CanMaterialize(e, f, s, v, node) ==
    /\ node \in DOMAIN e.spaces[s].revisions[v].nodes
    /\ AnchorHolds(f, e.spaces[s].anchor)
    /\ Checks(Forked(f, e.spaces[s].anchor))

Rewritten(e, f, s, v, node) ==
    LET branch == Forked(f, e.spaces[s].anchor)
    IN FoldLeft(LAMBDA g, p : Applied(g, Len(branch.candidates), p), branch,
                Explanation(e.spaces[s].revisions[v], node))

X_MaterializedForest_KeepsEvents(e, f, s, v, node) ==
    LET g == Rewritten(e, f, s, v, node)
        provenance == [candidate |-> Len(g.candidates), revision |-> Len(g.revisions)]
    IN [g EXCEPT !.revisions[Len(g.revisions)] =
                     [@ EXCEPT !.state = "Equivalent", !.version = 3, !.materialized = provenance]]

MaterializedForest(e, f, s, v, node) ==
    LET g == Rewritten(e, f, s, v, node)
        provenance == [candidate |-> Len(g.candidates), revision |-> Len(g.revisions)]
    IN [g EXCEPT !.events = f.events,
                 !.revisions[Len(g.revisions)] =
                     [@ EXCEPT !.state = "Equivalent", !.version = 3, !.materialized = provenance]]

MaterializedStore(e, f, s, v, node) ==
    Logged(e, f, "materialize", <<s, v, node>>, Len(Rewritten(e, f, s, v, node).revisions))
=============================================================================
