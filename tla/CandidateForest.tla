---------------------------- MODULE CandidateForest ----------------------------
(***************************************************************************)
(* The candidate forest of agentir-core: branches of implementations of    *)
(* one frozen specification.  An exact branch grows by known rewrites; a   *)
(* speculative one by proposals, each of which adds an item of proof debt  *)
(* that a translation validator, or an equality proof (EqualityStore),     *)
(* must discharge in order.  One rule, x / x --> 1, is exact only under a  *)
(* guard, with the revision before it as fallback.                         *)
(*                                                                         *)
(* Every operation is a condition on a forest and the forest it stages;    *)
(* Staged accepts it only when the new revision passes the verifier, as    *)
(* the code's final check does.  Revision and candidate ids are positions. *)
(*                                                                         *)
(* Abstractions.  An implementation is a model value, equal when the       *)
(* hashes are; the production rewrites and the fragments a proposal may    *)
(* insert are relations on them.  Evidence is left out: each certificate   *)
(* and each validator record is created together with its own.  Of the     *)
(* hashes, only those of other revisions that a revision stores matter,    *)
(* and a revision never changes once published.                            *)
(***************************************************************************)
EXTENDS Naturals, FiniteSets, SequencesExt

CONSTANTS
    Impls,        \* implementations of the specification's interface
    Identity,     \* its identity lowering
    Matches,      \* the results of the production rewrites, in (rule, target) order
    Fragments,    \* the implementations a typed replacement can give
    Divisions,    \* guarded self-divisions: [before, after, nonZero]
    Inputs,       \* inputs a program may be run on
    Meaning,      \* what each implementation computes
    DebtLimit     \* open_proof_debt_obligations

Rewrites(p) == ToSet(Matches[p])

ASSUME ImplAssumption ==
    /\ Identity \in Impls
    /\ Matches \in [Impls -> Seq(Impls)]
    /\ Fragments \in [Impls -> SUBSET Impls]
    /\ DebtLimit \in Nat
\* The production rules are exact; the guarded rule is, where its guard holds.
ASSUME RulesAreExact ==
    /\ \A p \in Impls : \A q \in Rewrites(p) : Meaning[p] = Meaning[q]
    /\ \A d \in Divisions : \A i \in d.nonZero : Meaning[d.before][i] = Meaning[d.after][i]

None == 0

NoFrontier == [candidate |-> None, revision |-> None, terminal |-> Identity]
NoFallback == [revision |-> None, nonZero |-> {}]
NoMaterialization == [candidate |-> None, revision |-> None]

EmptyForest == [candidates |-> <<>>, revisions |-> <<>>, proposals |-> <<>>, events |-> <<>>]

Revisions(f) == DOMAIN f.revisions
Candidates(f) == DOMAIN f.candidates
NextId(s) == Len(s) + 1

---------------------------------------------------------------------------
\* The verifier.
AllProved(debt) == \A i \in DOMAIN debt : debt[i].status = "Proved"
HasGuard(rev) == rev.fallback.revision # None

Terminal(rev) == IF rev.frontier.revision = None THEN rev.impl ELSE rev.frontier.terminal

ChainVerified(rev) ==
    /\ rev.chain # <<>>
    /\ rev.chain[1] = [rule |-> "identity", before |-> Identity, after |-> Identity]
    /\ \A i \in 2 .. Len(rev.chain) : rev.chain[i].before = rev.chain[i - 1].after
    /\ rev.chain[Len(rev.chain)].after = Terminal(rev)

\* No item is proved or guarded behind one that is not proved.
InOrder(debt) ==
    \A i, j \in DOMAIN debt :
        i < j /\ debt[i].status # "Proved" => debt[j].status \notin {"Proved", "Guarded"}

Continuous(debt) == \A i \in 2 .. Len(debt) : debt[i].before = debt[i - 1].after

FallbackVerified(f, r, rev) ==
    /\ rev.fallback.revision # r
    /\ rev.fallback.revision \in Revisions(f)
    /\ LET fallback == f.revisions[rev.fallback.revision]
       IN /\ fallback.status = "Proved"
          /\ fallback.state # "Rejected"
          /\ ~HasGuard(fallback)

Guards(debt) == \E i \in DOMAIN debt : debt[i].status = "Guarded"
Refutes(debt) == \E i \in DOMAIN debt : debt[i].status = "Refuted"

DebtVerified(f, r, rev) ==
    \/ rev.version = 1
    \* a materialized equality member, whose branch must be the one it was made on
    \/ /\ rev.version = 3 /\ rev.debt = <<>>
       /\ rev.materialized.candidate = rev.candidate
    \/ /\ ~(rev.version = 3 /\ rev.debt = <<>>) /\ rev.version # 1
       /\ rev.frontier.revision \in Revisions(f)
       /\ f.revisions[rev.frontier.revision].candidate = rev.frontier.candidate
       /\ rev.debt # <<>>
       /\ Continuous(rev.debt)
       /\ InOrder(rev.debt)
       /\ Guards(rev.debt) = HasGuard(rev)
       /\ Guards(rev.debt) => rev.state \in {"Guarded", "Sealed"}
       /\ HasGuard(rev) => FallbackVerified(f, r, rev)
       \* only a version 3 revision may carry the equality validator's records
       /\ rev.byEquality # {} => rev.version = 3
       /\ rev.version = 3 => rev.byEquality # {} \/ rev.materialized # NoMaterialization
       /\ AllProved(rev.debt) => rev.status = "Proved"
       /\ Guards(rev.debt) => rev.status = "Guarded"
       /\ Refutes(rev.debt) => rev.status = "Refuted" /\ rev.state = "Rejected"

Verified(f, r) == ChainVerified(f.revisions[r]) /\ DebtVerified(f, r, f.revisions[r])

---------------------------------------------------------------------------
\* What every operation on a branch's head starts from, and how it ends.
HeadOf(f, c) == f.revisions[f.candidates[c].head]
HeadVerified(f, c) == Verified(f, f.candidates[c].head)

WithRevision(f, c, rev, event) ==
    [f EXCEPT !.revisions = Append(@, rev),
              !.candidates[c].head = NextId(f.revisions),
              !.events = Append(@, [event EXCEPT !.revision = NextId(f.revisions)])]

WithCandidate(f, rev, event) ==
    [f EXCEPT !.revisions = Append(@, [rev EXCEPT !.candidate = NextId(f.candidates)]),
              !.candidates = Append(@, [root |-> NextId(f.revisions), head |-> NextId(f.revisions)]),
              !.events = Append(@, [event EXCEPT !.revision = NextId(f.revisions)])]

\* The check that ends every operation: nothing is published otherwise.
Checks(f) == Verified(f, Len(f.revisions))

Event(kind, arguments) == [kind |-> kind, args |-> arguments, revision |-> None]

---------------------------------------------------------------------------
\* Exact branches.
IdentityRevision(c) ==
    [candidate |-> c, base |-> None, impl |-> Identity, version |-> 1, state |-> "Equivalent",
     status |-> "Proved", chain |-> <<[rule |-> "identity", before |-> Identity, after |-> Identity]>>,
     frontier |-> NoFrontier,
     debt |-> <<>>, fallback |-> NoFallback, byEquality |-> {},
     materialized |-> NoMaterialization]

Created(f) == WithCandidate(f, IdentityRevision(None), Event("create", <<>>))

CanApply(f, c, after) ==
    /\ HeadOf(f, c).state # "Sealed"
    /\ HeadOf(f, c).status = "Proved"
    /\ AllProved(HeadOf(f, c).debt)
    /\ HeadVerified(f, c)
    /\ after \in Rewrites(HeadOf(f, c).impl)

Applied(f, c, after) ==
    LET base == HeadOf(f, c)
        moved == [candidate |-> c, revision |-> NextId(f.revisions), terminal |-> after]
    IN WithRevision(f, c,
          [base EXCEPT !.base = f.candidates[c].head,
                       !.impl = after,
                       !.state = "Equivalent",
                       !.chain = Append(@, [rule |-> "known", before |-> base.impl, after |-> after]),
                       !.frontier = IF base.version # 1 /\ @.revision # None THEN moved ELSE @],
          Event("apply", <<c, f.candidates[c].head, after>>))

CanFork(f, r) == Verified(f, r)

Forked(f, r) ==
    WithCandidate(f,
        [f.revisions[r] EXCEPT !.base = None,
                               !.state = IF @ = "Sealed" THEN "Draft" ELSE @],
        Event("fork", <<r>>))

---------------------------------------------------------------------------
\* Speculation: a proposal adds debt, and the frontier stays behind.
Classification(before, after) ==
    IF before = after \/ after \in Rewrites(before) THEN "Legal"
    ELSE IF \E d \in Divisions : d.before = before /\ d.after = after THEN "Conditional"
    ELSE "Unknown"

\* The client opted in to speculation: the others but Legal are refused otherwise.
CanPropose(f, c, after) ==
    LET base == HeadOf(f, c)
    IN /\ base.state \notin {"Sealed", "Rejected"}
       /\ HeadVerified(f, c)
       /\ after \in Fragments[base.impl]
       /\ Len(base.debt) < DebtLimit
       /\ Classification(base.impl, after) = "Conditional" =>
              base.debt = <<>> /\ base.status = "Proved"

Debt(proposal, before, after) ==
    [proposal |-> proposal, before |-> before, after |-> after, status |-> "Open"]

Proposed(f, c, after) ==
    LET base == HeadOf(f, c)
        origin == [candidate |-> c, base |-> f.candidates[c].head,
                   accepted |-> NextId(f.revisions), before |-> base.impl, after |-> after]
        behind == [candidate |-> c, revision |-> f.candidates[c].head, terminal |-> base.impl]
    IN WithRevision([f EXCEPT !.proposals = Append(@, origin)], c,
          [base EXCEPT !.base = f.candidates[c].head,
                       !.impl = after,
                       !.version = 2,
                       !.state = "Speculative",
                       !.status = "Open",
                       !.frontier = IF @.revision = None THEN behind ELSE @,
                       !.debt = Append(@, Debt(NextId(f.proposals), base.impl, after))],
          Event("propose", <<c, f.candidates[c].head, after>>))

\* The debt a validator may look at: everything before it is proved.
IsNext(debt, i) == i \in DOMAIN debt /\ \A j \in 1 .. i - 1 : debt[j].status = "Proved"
Settled(debt, i, status) == [debt EXCEPT ![i].status = status]

\* What one more proved item makes of the revision, the frontier apart.
Discharged(rev, i, rule) ==
    LET debt == Settled(rev.debt, i, "Proved")
    IN [rev EXCEPT !.debt = debt,
                   !.chain = Append(@, [rule |-> rule, before |-> debt[i].before, after |-> debt[i].after]),
                   !.status = IF AllProved(debt) THEN "Proved" ELSE "Open",
                   !.state = IF AllProved(debt) THEN "Equivalent" ELSE "Speculative"]

ByRule(f, c, i) ==
    LET rev == Discharged(HeadOf(f, c), i, "known")
        proposal == f.proposals[rev.debt[i].proposal]
    IN [rev EXCEPT !.frontier =
           IF AllProved(rev.debt)
           THEN [candidate |-> c, revision |-> NextId(f.revisions), terminal |-> proposal.after]
           ELSE [candidate |-> proposal.candidate, revision |-> proposal.accepted,
                 terminal |-> proposal.after]]

\* The fallback is the revision the proposal was made on.
ByGuard(f, c, i) ==
    LET rev == HeadOf(f, c)
        proposal == f.proposals[rev.debt[i].proposal]
        division == CHOOSE d \in Divisions : d.before = proposal.before /\ d.after = proposal.after
    IN [rev EXCEPT !.debt = Settled(@, i, "Guarded"),
                   !.chain = Append(@, [rule |-> "guarded", before |-> proposal.before,
                                        after |-> proposal.after]),
                   !.fallback = [revision |-> proposal.base, nonZero |-> division.nonZero],
                   !.frontier = [candidate |-> c, revision |-> NextId(f.revisions),
                                 terminal |-> proposal.after],
                   !.status = "Guarded",
                   !.state = "Guarded"]

X_Unsupported_CountsAsProved(f, c, i) ==
    [HeadOf(f, c) EXCEPT !.debt = Settled(@, i, "Proved"),
                         !.status = "Unsupported",
                         !.state = "Speculative"]

Unsupported(f, c, i) ==
    [HeadOf(f, c) EXCEPT !.debt = Settled(@, i, "Unsupported"),
                       !.status = "Unsupported",
                       !.state = "Speculative"]

CanTranslate(f, c, i) ==
    LET base == HeadOf(f, c)
        proposal == f.proposals[base.debt[i].proposal]
        fallback == f.revisions[proposal.base]
    IN /\ base.state # "Sealed"
       /\ HeadVerified(f, c)
       /\ base.debt[i].status = "Open"
       /\ IsNext(base.debt, i)
       /\ Classification(proposal.before, proposal.after) = "Conditional" =>
              /\ fallback.status = "Proved"
              /\ fallback.state # "Rejected"
              /\ AllProved(fallback.debt)

Translated(f, c, i) ==
    LET proposal == f.proposals[HeadOf(f, c).debt[i].proposal]
        class == Classification(proposal.before, proposal.after)
        rev == CASE class = "Legal" -> ByRule(f, c, i)
                 [] class = "Conditional" -> ByGuard(f, c, i)
                 [] OTHER -> Unsupported(f, c, i)
    IN WithRevision(f, c,
          [rev EXCEPT !.base = f.candidates[c].head,
                      !.version = 2],
          Event("translate", <<c, f.candidates[c].head, i>>))

---------------------------------------------------------------------------
\* Running a candidate, and what differential tests and seals make of it.
Evaluated(f, r, input) ==
    LET rev == f.revisions[r]
    IN IF HasGuard(rev) /\ input \notin rev.fallback.nonZero
       THEN Meaning[f.revisions[rev.fallback.revision].impl][input]
       ELSE Meaning[rev.impl][input]

Differs(f, r) == \E i \in Inputs : Evaluated(f, r, i) # Meaning[Identity][i]
Agrees(f, r) == \E i \in Inputs : Evaluated(f, r, i) = Meaning[Identity][i]

Unresolved(debt) == {i \in DOMAIN debt : debt[i].status \in {"Open", "Unsupported", "Guarded"}}
FirstUnresolved(debt) == CHOOSE i \in Unresolved(debt) : \A j \in Unresolved(debt) : i <= j

CanValidate(f, c, passed) ==
    LET base == HeadOf(f, c)
    IN /\ base.state # "Sealed"
       /\ HeadVerified(f, c)
       /\ IF passed THEN Agrees(f, f.candidates[c].head) ELSE Differs(f, f.candidates[c].head)
       /\ ~passed /\ base.version # 1 => Unresolved(base.debt) # {}

\* A version 1 revision has no debt to refute: its obligation stays proved.
Refuted(rev) ==
    IF rev.version = 1 THEN [rev EXCEPT !.state = "Rejected"]
    ELSE [rev EXCEPT !.state = "Rejected",
                     !.status = "Refuted",
                     !.fallback = NoFallback,
                     !.debt = Settled(@, FirstUnresolved(@), "Refuted")]

Validated(f, c, passed) ==
    LET rev == IF passed THEN HeadOf(f, c) ELSE Refuted(HeadOf(f, c))
    IN WithRevision(f, c, [rev EXCEPT !.base = f.candidates[c].head],
          Event("validate", <<c, f.candidates[c].head, passed>>))

X_CanSeal_StatusOnly(f, c) ==
    LET base == HeadOf(f, c)
    IN /\ HeadVerified(f, c)
       /\ base.state \notin {"Sealed", "Rejected"}
       /\ base.status \in {"Proved", "Guarded"}

\* Sealing a sealed candidate answers with its head and changes nothing.
CanSeal(f, c) ==
    LET base == HeadOf(f, c)
    IN /\ HeadVerified(f, c)
       /\ base.state \notin {"Sealed", "Rejected"}
       /\ base.status \in {"Proved", "Guarded"}
       /\ \A i \in DOMAIN base.debt : base.debt[i].status \in {"Proved", "Guarded"}

Sealed(f, c) ==
    WithRevision(f, c, [HeadOf(f, c) EXCEPT !.base = f.candidates[c].head,
                                          !.state = "Sealed"],
        Event("seal", <<c, f.candidates[c].head>>))
=============================================================================
