-------------------------- MODULE OptimizationProofs --------------------------
(***************************************************************************)
(* Proofs about Optimization.  What is proved of the state is IInv: every  *)
(* revision's debt is a chain of exact links unless a guard stands first   *)
(* and alone, its status, state and frontier follow its debt, and every    *)
(* space grows from a proved revision by rewrites.  Nothing another store  *)
(* names ever changes (Carries).  RInv says how far the two logs have been *)
(* replayed at the cursor of the store's last event.  CInv says that every *)
(* space grows from its root, by chunks that all the steps are blind to.   *)
(* The folds of the model (matches, expansions, the rewrites of a path,    *)
(* replays) are taken apart by instances of FoldFacts.                     *)
(***************************************************************************)
EXTENDS Optimization, FiniteSetTheorems, WellFoundedInduction, TLAPS

\* A revision of a space whose members all compute the specification, each but
\* the first, the root, reached by a rewrite from one before it.
Good == {p \in Impls : Meaning[p] = Meaning[Identity]}
SpaceFields == {"nodes", "edges", "work", "status"}
SoundSpace(root, rev) ==
    /\ rev = [x \in SpaceFields |-> rev[x]]
    /\ rev.nodes \in Seq(Good) /\ rev.nodes # <<>> /\ rev.nodes[1] = root
    /\ rev.work \subseteq DOMAIN rev.nodes
    /\ \A e \in rev.edges :
          /\ e[1] \in DOMAIN rev.nodes /\ e[2] \in DOMAIN rev.nodes
          /\ rev.nodes[e[2]] \in Rewrites(rev.nodes[e[1]])
    /\ \A m \in DOMAIN rev.nodes : m # 1 => \E e \in rev.edges : e[2] = m /\ e[1] < m

\* The matches of a node are added one by one.
MatchOp(node, rev, i) == Match(rev, node, i)
MatchHolds(about, n, rev) ==
    /\ SoundSpace(about.root, rev)
    /\ about.node \in DOMAIN rev.nodes /\ rev.nodes[about.node] = about.program
Matching == INSTANCE FoldFacts WITH Op <- MatchOp, Holds <- MatchHolds

\* A request expands a node after another.
ExpandOp(env, rev, n) == ExpandNext(rev)
ExpandHolds(root, n, rev) == SoundSpace(root, rev)
Expanding == INSTANCE FoldFacts WITH Op <- ExpandOp, Holds <- ExpandHolds

IsLog(log) == \E S : log \in Seq(S)

Rules == {"identity", "known", "guarded", "membership"}
Statuses == {"Open", "Proved", "Guarded", "Unsupported", "Refuted"}
Links == [rule : Rules, before : Impls, after : Impls]
Items == [proposal : Nat, before : Impls, after : Impls, status : Statuses]

RevisionFields ==
    {"candidate", "base", "impl", "version", "state", "status", "chain", "frontier", "debt",
     "fallback", "byEquality", "materialized"}

IsRevision(rev) ==
    /\ rev = [x \in RevisionFields |-> rev[x]]
    /\ rev.impl \in Impls /\ rev.chain \in Seq(Links) /\ rev.debt \in Seq(Items)

\* Every item names the proposal that made it; a guarded one comes first.
DebtAgrees(f, rev) ==
    \A i \in DOMAIN rev.debt :
        LET p == rev.debt[i].proposal
        IN /\ p \in DOMAIN f.proposals
           /\ f.proposals[p].before = rev.debt[i].before
           /\ f.proposals[p].after = rev.debt[i].after
           /\ Classification(rev.debt[i].before, rev.debt[i].after) = "Conditional" => i = 1

IsSettled(debt) == \A i \in DOMAIN debt : debt[i].status \in {"Proved", "Guarded"}

\* What the status and the state of a revision say of its debt.
StatusAgrees(rev) ==
    /\ rev.version = 1 => rev.debt = <<>> /\ rev.frontier.revision = None
    /\ rev.status = "Proved" => AllProved(rev.debt)
    /\ rev.version # 1 /\ rev.state = "Rejected" => Refutes(rev.debt)
    /\ rev.state = "Sealed" => IsSettled(rev.debt)
    /\ rev.debt # <<>> /\ ~AllProved(rev.debt) => rev.debt[Len(rev.debt)].after = rev.impl

\* A link of the chain is exact, unless it is the guarded one.
ChainIsExact(rev) ==
    \A k \in 2 .. Len(rev.chain) :
        \/ Meaning[rev.chain[k].before] = Meaning[rev.chain[k].after]
        \/ Guards(rev.debt) \/ Refutes(rev.debt)

\* The guarded item divides, and its fallback is the proved program it was made on.
GuardIsExact(f, rev) ==
    HasGuard(rev) =>
        /\ rev.debt # <<>> /\ rev.debt[1].status = "Guarded"
        /\ rev.fallback.revision \in Revisions(f)
        /\ AllProved(f.revisions[rev.fallback.revision].debt)
        /\ f.revisions[rev.fallback.revision].impl = rev.debt[1].before
        /\ \A i \in rev.fallback.nonZero :
               Meaning[rev.debt[1].before][i] = Meaning[rev.debt[1].after][i]

Unsettled(debt) == {i \in DOMAIN debt : debt[i].status \notin {"Proved", "Guarded"}}

FrontierFollows(rev) ==
    rev.frontier.revision # None /\ rev.state # "Rejected" =>
        /\ Unsettled(rev.debt) = {} => rev.frontier.terminal = rev.impl
        /\ \A i \in Unsettled(rev.debt) :
               (\A j \in Unsettled(rev.debt) : i <= j) => rev.frontier.terminal = rev.debt[i].before

SoundRevision(f, rev) ==
    /\ IsRevision(rev) /\ DebtAgrees(f, rev) /\ StatusAgrees(rev) /\ ChainIsExact(rev)
    /\ GuardIsExact(f, rev) /\ FrontierFollows(rev)

SoundProposal(f, p) ==
    /\ p.base \in Revisions(f) /\ p.before \in Impls /\ p.after \in Impls
    /\ f.revisions[p.base].impl = p.before

ForestFields == {"candidates", "revisions", "proposals", "events"}

FInv(f) ==
    /\ f = [x \in ForestFields |-> f[x]]
    /\ IsLog(f.revisions) /\ IsLog(f.proposals) /\ IsLog(f.events)
    /\ f.candidates \in Seq([root : Nat, head : Nat])
    /\ \A r \in Revisions(f) : SoundRevision(f, f.revisions[r]) /\ Verified(f, r)
    /\ \A p \in DOMAIN f.proposals : SoundProposal(f, f.proposals[p])
    /\ \A c \in Candidates(f) : f.candidates[c].head \in Revisions(f) /\ HeadOf(f, c).candidate = c

\* A forest that keeps what others may name of an earlier one.
Carries(f, g) ==
    /\ \A r \in Revisions(f) :
          /\ r \in Revisions(g)
          /\ g.revisions[r].candidate = f.revisions[r].candidate
          /\ g.revisions[r].impl = f.revisions[r].impl
          /\ g.revisions[r].debt = f.revisions[r].debt
          /\ g.revisions[r].status = f.revisions[r].status
          /\ g.revisions[r].fallback = f.revisions[r].fallback
          /\ f.revisions[r].state # "Rejected" => g.revisions[r].state # "Rejected"
    /\ \A p \in DOMAIN f.proposals : p \in DOMAIN g.proposals /\ g.proposals[p] = f.proposals[p]

\* A materialization rewrites a fork of the anchor along a path.
ApplyOp(c, g, p) == Applied(g, c, p)
ApplyHolds(about, n, g) ==
    /\ FInv(g) /\ Carries(about.forest, g)
    /\ about.candidate \in Candidates(g) /\ Len(g.candidates) = about.candidate
    /\ g.candidates[about.candidate].head = Len(g.revisions)
    /\ AllProved(HeadOf(g, about.candidate).debt)
    /\ HeadOf(g, about.candidate).impl = about.space.nodes[about.path[n + 1]]
Applying == INSTANCE FoldFacts WITH Op <- ApplyOp, Holds <- ApplyHolds

\* The equality store: every space grows from a proved revision.
SoundEntry(f, space) ==
    /\ space = [x \in {"anchor", "revisions"} |-> space[x]]
    /\ space.anchor \in Revisions(f) /\ AllProved(f.revisions[space.anchor].debt)
    /\ IsLog(space.revisions) /\ space.revisions # <<>>
    /\ \A v \in DOMAIN space.revisions :
           SoundSpace(f.revisions[space.anchor].impl, space.revisions[v])

EInv(e, f) ==
    /\ e = [x \in {"spaces", "events"} |-> e[x]] /\ IsLog(e.spaces) /\ IsLog(e.events)
    /\ \A s \in DOMAIN e.spaces : SoundEntry(f, e.spaces[s])

\* An archive's two logs: the forest's requests, and the store's between them.
ReplayOp(env, f, event) == Replay(f, event)
ReplayHolds(about, n, f) == TRUE
Replaying == INSTANCE FoldFacts WITH Op <- ReplayOp, Holds <- ReplayHolds

StepOp(log, w, event) == ReplayEquality(ReplayForestTo(w, log, event.cursor), event)
StepHolds(log, n, w) == w = [x \in {"forest", "equality", "at"} |-> w[x]] /\ w.at \in Nat
Stepping == INSTANCE FoldFacts WITH Op <- StepOp, Holds <- StepHolds

Start == [forest |-> EmptyForest, equality |-> EmptyStore, at |-> 0]

\* What the logs make of nothing, up to the last event of the store and after it.
Cursored(f, e) ==
    \A i \in DOMAIN e.events :
        /\ e.events[i].cursor \in 0 .. Len(f.events)
        /\ e.events[i].kind \in {"create", "expand", "discharge", "materialize"}
Replays(f, e) ==
    LET w == Stepping!Fold(f.events, Start, e.events)
    IN /\ StepHolds(f.events, 0, w) /\ w.at \in 0 .. Len(f.events) /\ w.equality = e
       /\ Replaying!Fold(0, w.forest, SubSeq(f.events, w.at + 1, Len(f.events))) = f

---------------------------------------------------------------------------
\* Sequences.
LEMMA LogFacts ==
    ASSUME NEW log, IsLog(log)
    PROVE  Len(log) \in Nat /\ DOMAIN log = 1 .. Len(log)
  BY DEF IsLog

\* A log with one element more.
Extends(old, new, x) ==
    /\ IsLog(new) /\ Len(new) = Len(old) + 1 /\ DOMAIN new = DOMAIN old \cup {Len(old) + 1}
    /\ new[Len(old) + 1] = x /\ \A i \in DOMAIN old : new[i] = old[i]

LEMMA AppendFacts ==
    ASSUME NEW old, IsLog(old), NEW new, NEW x, new = Append(old, x)
    PROVE  Extends(old, new, x)
<1>1. PICK S : old \in Seq(S)
  BY DEF IsLog
<1>2. old \in Seq(S \cup {x}) /\ x \in S \cup {x}
  BY <1>1
<1>3. /\ new \in Seq(S \cup {x}) /\ Len(new) = Len(old) + 1
      /\ new[Len(old) + 1] = x
      /\ \A k \in 1..Len(old) : new[k] = old[k]
  BY <1>2
<1>4. DOMAIN new = 1 .. Len(old) + 1 /\ DOMAIN old = 1 .. Len(old) /\ Len(old) \in Nat
  BY <1>2, <1>3
<1> QED
  BY <1>3, <1>4 DEF IsLog, Extends

\* The same of a sequence whose elements are known.
LEMMA SeqFacts ==
    ASSUME NEW S, NEW seq \in Seq(S)
    PROVE  /\ Len(seq) \in Nat /\ DOMAIN seq = 1 .. Len(seq)
           /\ \A i \in DOMAIN seq : seq[i] \in S
           /\ \A x \in S :
                 /\ Append(seq, x) \in Seq(S) /\ Len(Append(seq, x)) = Len(seq) + 1
                 /\ DOMAIN Append(seq, x) = DOMAIN seq \cup {Len(seq) + 1}
                 /\ Append(seq, x)[Len(seq) + 1] = x
                 /\ \A i \in DOMAIN seq : Append(seq, x)[i] = seq[i] /\ i # Len(seq) + 1
           /\ \A i \in DOMAIN seq, x \in S :
                 /\ [seq EXCEPT ![i] = x] \in Seq(S)
                 /\ Len([seq EXCEPT ![i] = x]) = Len(seq)
                 /\ DOMAIN [seq EXCEPT ![i] = x] = DOMAIN seq
                 /\ [seq EXCEPT ![i] = x][i] = x
                 /\ \A j \in DOMAIN seq : j # i => [seq EXCEPT ![i] = x][j] = seq[j]
  OBVIOUS

\* A set of numbers that is not empty has a least one.
LEMMA LeastIs ==
    ASSUME NEW S, S \subseteq Nat, S # {}
    PROVE  \E m \in S : \A n \in S : m <= n
<1>1. IsWellFoundedOn(OpToRel(<, Nat), Nat)
  BY NatLessThanWellFounded
<1>2. PICK m \in S : \A n \in S : ~ (<<n, m>> \in OpToRel(<, Nat))
  BY <1>1, WFMin
<1>3. \A n \in S : ~ (n < m)
  BY <1>2 DEF OpToRel
<1> QED
  BY <1>3

LEMMA SettledFacts ==
    ASSUME NEW debt \in Seq(Items), NEW i \in DOMAIN debt, NEW status \in Statuses
    PROVE  /\ Settled(debt, i, status) \in Seq(Items)
           /\ Len(Settled(debt, i, status)) = Len(debt)
           /\ DOMAIN Settled(debt, i, status) = DOMAIN debt
           /\ \A j \in DOMAIN debt :
                 /\ Settled(debt, i, status)[j].proposal = debt[j].proposal
                 /\ Settled(debt, i, status)[j].before = debt[j].before
                 /\ Settled(debt, i, status)[j].after = debt[j].after
                 /\ Settled(debt, i, status)[j].status = IF j = i THEN status ELSE debt[j].status
<1> DEFINE item == [debt[i] EXCEPT !.status = status]
<1>1. debt[i] \in Items
  OBVIOUS
<1>2. /\ item \in Items /\ item.proposal = debt[i].proposal /\ item.before = debt[i].before
      /\ item.after = debt[i].after /\ item.status = status
  BY <1>1 DEF Items
<1>3. Settled(debt, i, status) = [debt EXCEPT ![i] = item]
  BY DEF Settled
<1> QED
  BY <1>2, <1>3

---------------------------------------------------------------------------
\* What stays true of a revision while the forest grows.
LEMMA SoundStays ==
    ASSUME NEW f, NEW g, Carries(f, g), NEW rev, SoundRevision(f, rev)
    PROVE  SoundRevision(g, rev)
<1>1. DebtAgrees(g, rev)
  BY DEF SoundRevision, DebtAgrees, Carries
<1>2. GuardIsExact(g, rev)
  BY DEF SoundRevision, GuardIsExact, Carries
<1> QED
  BY <1>1, <1>2 DEF SoundRevision

LEMMA VerifiedStays ==
    ASSUME NEW f, NEW g, Carries(f, g), NEW r \in Revisions(f),
           g.revisions[r] = f.revisions[r], Verified(f, r)
    PROVE  Verified(g, r)
<1> DEFINE rev == f.revisions[r]
<1>1. HasGuard(rev) /\ FallbackVerified(f, r, rev) => FallbackVerified(g, r, rev)
  BY DEF FallbackVerified, Carries, HasGuard
<1> HIDE DEF rev
<1>2. rev.frontier.revision \in Revisions(f) =>
         /\ rev.frontier.revision \in Revisions(g)
         /\ g.revisions[rev.frontier.revision].candidate = f.revisions[rev.frontier.revision].candidate
  BY DEF Carries
<1>3. DebtVerified(f, r, rev) => DebtVerified(g, r, rev)
  BY <1>1, <1>2 DEF DebtVerified
<1> QED
  BY <1>3 DEF Verified, rev

LEMMA ProposalStays ==
    ASSUME NEW f, NEW g, Carries(f, g), NEW p, SoundProposal(f, p)
    PROVE  SoundProposal(g, p)
  BY DEF SoundProposal, Carries

LEMMA CarriesOn ==
    ASSUME NEW f, NEW g, NEW h, Carries(f, g), Carries(g, h)
    PROVE  Carries(f, h)
  BY DEF Carries

LEMMA CarriesItself ==
    ASSUME NEW f
    PROVE  Carries(f, f)
  BY DEF Carries

---------------------------------------------------------------------------
\* A branch that grew by one revision.
LEMMA RevisionAdded ==
    ASSUME NEW f, FInv(f), NEW c \in Candidates(f), NEW rev, NEW event
    PROVE  LET g == WithRevision(f, c, rev, event)
           IN /\ g = [x \in ForestFields |-> g[x]]
              /\ g.revisions = Append(f.revisions, rev) /\ g.proposals = f.proposals
              /\ IsLog(g.revisions) /\ IsLog(g.proposals) /\ IsLog(g.events)
              /\ g.candidates \in Seq([root : Nat, head : Nat]) /\ Candidates(g) = Candidates(f)
              /\ Len(g.candidates) = Len(f.candidates)
              /\ g.candidates[c].head = Len(f.revisions) + 1
              /\ \A d \in Candidates(f) : d # c => g.candidates[d] = f.candidates[d]
              /\ Revisions(g) = Revisions(f) \cup {Len(f.revisions) + 1}
              /\ g.revisions[Len(f.revisions) + 1] = rev
              /\ Len(g.revisions) = Len(f.revisions) + 1
              /\ \A r \in Revisions(f) : g.revisions[r] = f.revisions[r]
              /\ Carries(f, g)
<1> DEFINE g == WithRevision(f, c, rev, event)
<1>1. /\ g = [x \in ForestFields |-> g[x]]
      /\ g.revisions = Append(f.revisions, rev) /\ g.proposals = f.proposals
      /\ g.events = Append(f.events, [event EXCEPT !.revision = NextId(f.revisions)])
      /\ g.candidates = [f.candidates EXCEPT ![c].head = NextId(f.revisions)]
  BY DEF FInv, WithRevision, ForestFields
<1> HIDE DEF g
<1>2. Len(f.revisions) + 1 \in Nat
  BY LogFacts DEF FInv
<1>3. f.candidates \in Seq([root : Nat, head : Nat]) /\ c \in DOMAIN f.candidates
  BY DEF FInv, Candidates
<1> DEFINE entry == [f.candidates[c] EXCEPT !.head = Len(f.revisions) + 1]
<1>4. f.candidates[c] \in [root : Nat, head : Nat]
  BY <1>3, SeqFacts
<1>5. entry \in [root : Nat, head : Nat] /\ entry.head = Len(f.revisions) + 1
  BY <1>2, <1>4
<1>6. g.candidates = [f.candidates EXCEPT ![c] = entry]
  BY <1>1 DEF NextId
<1> HIDE DEF entry
<1>7. /\ g.candidates \in Seq([root : Nat, head : Nat]) /\ Candidates(g) = Candidates(f)
      /\ Len(g.candidates) = Len(f.candidates)
      /\ g.candidates[c].head = Len(f.revisions) + 1
      /\ \A d \in Candidates(f) : d # c => g.candidates[d] = f.candidates[d]
  BY <1>3, <1>5, <1>6, SeqFacts DEF Candidates
<1>8. /\ IsLog(g.revisions) /\ IsLog(g.proposals) /\ IsLog(g.events)
      /\ Len(g.revisions) = Len(f.revisions) + 1
      /\ Revisions(g) = Revisions(f) \cup {Len(f.revisions) + 1}
      /\ g.revisions[Len(f.revisions) + 1] = rev
      /\ \A r \in Revisions(f) : g.revisions[r] = f.revisions[r]
  <2>1. IsLog(f.revisions) /\ IsLog(f.proposals) /\ IsLog(f.events)
    BY DEF FInv
  <2>2. Extends(f.revisions, g.revisions, rev)
    BY <1>1, <2>1, AppendFacts
  <2>3. Extends(f.events, g.events, [event EXCEPT !.revision = NextId(f.revisions)])
    BY <1>1, <2>1, AppendFacts
  <2> QED
    BY <1>1, <2>1, <2>2, <2>3 DEF Extends, Revisions
<1>9. Carries(f, g)
  BY <1>1, <1>8 DEF Carries
<1> QED
  BY <1>1, <1>7, <1>8, <1>9 DEF g

\* It stays sound when the new revision is sound and verified.
LEMMA RevisionKeeps ==
    ASSUME NEW f, FInv(f), NEW c \in Candidates(f), NEW rev, NEW event,
           SoundRevision(f, rev), rev.candidate = c, Checks(WithRevision(f, c, rev, event))
    PROVE  FInv(WithRevision(f, c, rev, event)) /\ Carries(f, WithRevision(f, c, rev, event))
<1> DEFINE g == WithRevision(f, c, rev, event)
           n == Len(f.revisions) + 1
<1>1. /\ g = [x \in ForestFields |-> g[x]]
      /\ g.revisions = Append(f.revisions, rev) /\ g.proposals = f.proposals
      /\ IsLog(g.revisions) /\ IsLog(g.proposals) /\ IsLog(g.events)
      /\ g.candidates \in Seq([root : Nat, head : Nat]) /\ Candidates(g) = Candidates(f)
      /\ g.candidates[c].head = n
      /\ \A d \in Candidates(f) : d # c => g.candidates[d] = f.candidates[d]
      /\ Revisions(g) = Revisions(f) \cup {n}
      /\ g.revisions[n] = rev /\ Len(g.revisions) = n
      /\ \A r \in Revisions(f) : g.revisions[r] = f.revisions[r]
      /\ Carries(f, g)
  BY RevisionAdded
<1>2. Verified(g, n)
  BY <1>1 DEF Checks
<1> HIDE DEF g, n
<1>3. \A r \in Revisions(g) : SoundRevision(g, g.revisions[r]) /\ Verified(g, r)
  <2> SUFFICES ASSUME NEW r \in Revisions(g)
               PROVE  SoundRevision(g, g.revisions[r]) /\ Verified(g, r)
    OBVIOUS
  <2>1. CASE r \in Revisions(f)
    BY <1>1, <2>1, SoundStays, VerifiedStays DEF FInv
  <2>2. CASE r = n
    BY <1>1, <1>2, <2>2, SoundStays
  <2> QED
    BY <1>1, <2>1, <2>2
<1>4. \A p \in DOMAIN g.proposals : SoundProposal(g, g.proposals[p])
  BY <1>1, ProposalStays DEF FInv
<1>5. \A d \in Candidates(g) : g.candidates[d].head \in Revisions(g) /\ HeadOf(g, d).candidate = d
  <2> SUFFICES ASSUME NEW d \in Candidates(f)
               PROVE  g.candidates[d].head \in Revisions(g) /\ HeadOf(g, d).candidate = d
    BY <1>1
  <2>1. CASE d = c
    BY <1>1, <2>1 DEF HeadOf
  <2>2. CASE d # c
    BY <1>1, <2>2 DEF HeadOf, FInv
  <2> QED
    BY <2>1, <2>2
<1>6. FInv(g)
  BY <1>1, <1>3, <1>4, <1>5 DEF FInv
<1> QED
  BY <1>1, <1>6 DEF g

\* A branch more.
LEMMA CandidateKeeps ==
    ASSUME NEW f, FInv(f), NEW rev, NEW event, SoundRevision(f, rev),
           Checks(WithCandidate(f, rev, event))
    PROVE  LET g == WithCandidate(f, rev, event)
               c == Len(f.candidates) + 1
           IN /\ FInv(g) /\ Carries(f, g)
              /\ c \in Candidates(g) /\ Len(g.candidates) = c
              /\ HeadOf(g, c) = [rev EXCEPT !.candidate = c]
              /\ g.candidates[c].head = Len(g.revisions)
<1> DEFINE g == WithCandidate(f, rev, event)
           c == Len(f.candidates) + 1
           n == Len(f.revisions) + 1
           new == [rev EXCEPT !.candidate = c]
<1>1. /\ g = [x \in ForestFields |-> g[x]]
      /\ g.revisions = Append(f.revisions, new) /\ g.proposals = f.proposals
      /\ g.events = Append(f.events, [event EXCEPT !.revision = NextId(f.revisions)])
      /\ g.candidates = Append(f.candidates, [root |-> n, head |-> n])
  BY DEF FInv, WithCandidate, ForestFields, NextId
<1>2. /\ new = [x \in RevisionFields |-> new[x]] /\ new.candidate = c
      /\ new.base = rev.base /\ new.impl = rev.impl /\ new.version = rev.version
      /\ new.state = rev.state /\ new.status = rev.status /\ new.chain = rev.chain
      /\ new.frontier = rev.frontier /\ new.debt = rev.debt /\ new.fallback = rev.fallback
      /\ new.byEquality = rev.byEquality /\ new.materialized = rev.materialized
  BY DEF SoundRevision, IsRevision, RevisionFields
<1>3. Verified(g, Len(g.revisions))
  BY DEF Checks
<1> HIDE DEF g, new
<1>4. SoundRevision(f, new)
  BY ZenonT(40), <1>2 DEF SoundRevision, IsRevision, DebtAgrees, StatusAgrees, ChainIsExact,
                          GuardIsExact, HasGuard, FrontierFollows
<1>5. n \in Nat /\ c \in Nat /\ [root |-> n, head |-> n] \in [root : Nat, head : Nat]
  BY LogFacts DEF FInv
<1>6. /\ g.candidates \in Seq([root : Nat, head : Nat]) /\ Candidates(g) = Candidates(f) \cup {c}
      /\ Len(g.candidates) = c /\ g.candidates[c].head = n
      /\ \A d \in Candidates(f) : g.candidates[d] = f.candidates[d] /\ d # c
  <2>1. f.candidates \in Seq([root : Nat, head : Nat])
    BY DEF FInv
  <2> DEFINE old == f.candidates
             entry == [root |-> n, head |-> n]
  <2>2. /\ old \in Seq([root : Nat, head : Nat]) /\ entry \in [root : Nat, head : Nat]
        /\ g.candidates = Append(old, entry) /\ entry.head = n
    BY <1>1, <1>5, <2>1
  <2> HIDE DEF entry
  <2>3. /\ Append(old, entry) \in Seq([root : Nat, head : Nat])
        /\ Len(Append(old, entry)) = Len(old) + 1
        /\ DOMAIN Append(old, entry) = DOMAIN old \cup {Len(old) + 1}
        /\ Append(old, entry)[Len(old) + 1] = entry
        /\ \A i \in DOMAIN old : Append(old, entry)[i] = old[i] /\ i # Len(old) + 1
    BY <2>2, SeqFacts
  <2> QED
    BY <2>2, <2>3 DEF Candidates
<1>7. /\ IsLog(g.revisions) /\ IsLog(g.proposals) /\ IsLog(g.events)
      /\ Len(g.revisions) = n /\ Revisions(g) = Revisions(f) \cup {n} /\ g.revisions[n] = new
      /\ \A r \in Revisions(f) : g.revisions[r] = f.revisions[r]
  <2>1. IsLog(f.revisions) /\ IsLog(f.proposals) /\ IsLog(f.events)
    BY DEF FInv
  <2>2. Extends(f.revisions, g.revisions, new)
    BY <1>1, <2>1, AppendFacts
  <2>3. Extends(f.events, g.events, [event EXCEPT !.revision = NextId(f.revisions)])
    BY <1>1, <2>1, AppendFacts
  <2> QED
    BY <1>1, <2>1, <2>2, <2>3 DEF Extends, Revisions
<1> HIDE DEF n, c
<1>8. Carries(f, g)
  BY <1>1, <1>7 DEF Carries
<1>9. \A r \in Revisions(g) : SoundRevision(g, g.revisions[r]) /\ Verified(g, r)
  <2> SUFFICES ASSUME NEW r \in Revisions(g)
               PROVE  SoundRevision(g, g.revisions[r]) /\ Verified(g, r)
    OBVIOUS
  <2>1. CASE r \in Revisions(f)
    BY <1>7, <1>8, <2>1, SoundStays, VerifiedStays DEF FInv
  <2>2. CASE r = n
    BY <1>3, <1>4, <1>7, <1>8, <2>2, SoundStays
  <2> QED
    BY <1>7, <2>1, <2>2
<1>10. \A p \in DOMAIN g.proposals : SoundProposal(g, g.proposals[p])
  BY <1>1, <1>8, ProposalStays DEF FInv
<1>11. HeadOf(g, c) = new
  BY <1>6, <1>7 DEF HeadOf
<1>12. \A d \in Candidates(g) : g.candidates[d].head \in Revisions(g) /\ HeadOf(g, d).candidate = d
  <2> SUFFICES ASSUME NEW d \in Candidates(g)
               PROVE  g.candidates[d].head \in Revisions(g) /\ HeadOf(g, d).candidate = d
    OBVIOUS
  <2>1. CASE d = c
    BY <1>2, <1>6, <1>7, <1>11, <2>1
  <2>2. CASE d \in Candidates(f)
    BY <1>6, <1>7, <2>2 DEF HeadOf, FInv
  <2> QED
    BY <1>6, <2>1, <2>2
<1>13. FInv(g)
  BY <1>1, <1>6, <1>7, <1>9, <1>10, <1>12 DEF FInv
<1> QED
  BY <1>6, <1>7, <1>8, <1>11, <1>13 DEF g, new, c, n

\* A proposal more.
LEMMA ProposalKeeps ==
    ASSUME NEW f, FInv(f), NEW p, SoundProposal(f, p)
    PROVE  LET g == [f EXCEPT !.proposals = Append(@, p)]
           IN FInv(g) /\ Carries(f, g)
<1> DEFINE g == [f EXCEPT !.proposals = Append(@, p)]
<1>1. /\ g = [x \in ForestFields |-> g[x]]
      /\ g.revisions = f.revisions /\ g.proposals = Append(f.proposals, p)
      /\ g.events = f.events /\ g.candidates = f.candidates
  BY DEF FInv, ForestFields
<1> HIDE DEF g
<1>2. /\ IsLog(g.proposals) /\ DOMAIN g.proposals = DOMAIN f.proposals \cup {Len(f.proposals) + 1}
      /\ g.proposals[Len(f.proposals) + 1] = p
      /\ \A i \in DOMAIN f.proposals : g.proposals[i] = f.proposals[i]
  <2>1. Extends(f.proposals, g.proposals, p)
    BY <1>1, AppendFacts DEF FInv
  <2> QED
    BY <2>1 DEF Extends
<1>3. Carries(f, g)
  BY <1>1, <1>2 DEF Carries, Revisions
<1>4. \A r \in Revisions(g) : SoundRevision(g, g.revisions[r]) /\ Verified(g, r)
  BY <1>1, <1>3, SoundStays, VerifiedStays DEF FInv, Revisions
<1>5. \A i \in DOMAIN g.proposals : SoundProposal(g, g.proposals[i])
  BY <1>2, <1>3, ProposalStays DEF FInv
<1>6. \A d \in Candidates(g) : g.candidates[d].head \in Revisions(g) /\ HeadOf(g, d).candidate = d
  BY <1>1 DEF FInv, Candidates, Revisions, HeadOf
<1>7. FInv(g)
  BY <1>1, <1>2, <1>4, <1>5, <1>6 DEF FInv
<1> QED
  BY <1>3, <1>7 DEF g

---------------------------------------------------------------------------
\* What is proved is exact: every link of the chain to it is.
LEMMA ProvedIsExact ==
    ASSUME NEW f, FInv(f), NEW r \in Revisions(f), AllProved(f.revisions[r].debt)
    PROVE  /\ Meaning[f.revisions[r].impl] = Meaning[Identity] /\ ~HasGuard(f.revisions[r])
           /\ f.revisions[r].impl = Terminal(f.revisions[r])
<1> DEFINE rev == f.revisions[r]
           chain == rev.chain
<1>1. SoundRevision(f, rev) /\ ChainVerified(rev)
  BY DEF FInv, Verified
<1>2. ~Guards(rev.debt) /\ ~Refutes(rev.debt)
  BY DEF AllProved, Guards, Refutes
<1>3. ~HasGuard(rev)
  <2>1. rev.debt # <<>> => 1 \in DOMAIN rev.debt
    BY <1>1, SeqFacts DEF SoundRevision, IsRevision
  <2> QED
    BY <1>1, <1>2, <2>1 DEF SoundRevision, GuardIsExact, Guards
<1>4. /\ Len(chain) \in Nat /\ Len(chain) >= 1 /\ chain[1].after = Identity
      /\ \A i \in 2 .. Len(chain) : chain[i].before = chain[i - 1].after
      /\ \A i \in 2 .. Len(chain) : Meaning[chain[i].before] = Meaning[chain[i].after]
      /\ chain[Len(chain)].after = Terminal(rev)
  <2>1. chain \in Seq(Links)
    BY <1>1 DEF SoundRevision, IsRevision
  <2>2. chain # <<>>
    BY <1>1 DEF ChainVerified
  <2>3. Len(chain) \in Nat /\ Len(chain) >= 1
    BY <2>1, <2>2
  <2>4. \A i \in 2 .. Len(chain) : Meaning[chain[i].before] = Meaning[chain[i].after]
    BY <1>1, <1>2 DEF SoundRevision, ChainIsExact
  <2> QED
    BY <1>1, <2>3, <2>4 DEF ChainVerified
<1>5. Meaning[Terminal(rev)] = Meaning[Identity]
  <2> HIDE DEF chain, rev
  <2> DEFINE T == {k \in 0 .. Len(chain) - 1 : Meaning[chain[k + 1].after] = Meaning[Identity]}
             N == Len(chain) - 1
  <2>1. N \in Nat /\ N + 1 = Len(chain)
    BY <1>4
  <2>2. 0 \in T
    BY <1>4
  <2>3. ASSUME NEW i \in 0 .. N - 1, i \in T PROVE i + 1 \in T
    <3>1. i + 2 \in 2 .. Len(chain) /\ (i + 2) - 1 = i + 1 /\ i + 1 \in 0 .. N /\ (i + 1) + 1 = i + 2
      BY <2>1, <2>3
    <3>2. chain[i + 2].before = chain[i + 1].after
      BY <1>4, <3>1
    <3>3. Meaning[chain[i + 2].before] = Meaning[chain[i + 2].after]
      BY <1>4, <3>1
    <3>4. Meaning[chain[(i + 1) + 1].after] = Meaning[Identity]
      BY <2>3, <3>1, <3>2, <3>3
    <3> QED
      BY <3>1, <3>4
  <2> HIDE DEF T, N
  <2>4. 0 .. N \subseteq T
    BY <2>1, <2>2, <2>3, Matching!UpTo
  <2>5. N \in T
    BY <2>1, <2>4
  <2> QED
    BY <1>4, <2>1, <2>5 DEF T
<1>6. rev.impl = Terminal(rev)
  <2>1. Unsettled(rev.debt) = {}
    BY DEF AllProved, Unsettled
  <2>2. rev.version = 1 => rev.frontier.revision = None
    BY <1>1 DEF SoundRevision, StatusAgrees
  <2>3. rev.version # 1 => rev.state # "Rejected"
    BY <1>1, <1>2 DEF SoundRevision, StatusAgrees
  <2> QED
    BY <1>1, <2>1, <2>2, <2>3 DEF SoundRevision, FrontierFollows, Terminal
<1> QED
  BY <1>3, <1>5, <1>6

\* What is settled is exact on every input, by its fallback where its guard fails.
LEMMA SettledIsExact ==
    ASSUME NEW f, FInv(f), NEW r \in Revisions(f), IsSettled(f.revisions[r].debt), NEW input
    PROVE  Evaluated(f, r, input) = Meaning[Identity][input]
<1> DEFINE rev == f.revisions[r]
<1>1. SoundRevision(f, rev) /\ DebtVerified(f, r, rev) /\ rev.debt \in Seq(Items)
  BY DEF FInv, Verified, SoundRevision, IsRevision
<1>2. CASE AllProved(rev.debt)
  BY <1>2, ProvedIsExact DEF Evaluated
<1>3. CASE ~AllProved(rev.debt)
  <2>1. PICK g \in DOMAIN rev.debt : rev.debt[g].status # "Proved"
    BY <1>3 DEF AllProved
  <2>2. rev.debt[g].status = "Guarded" /\ Guards(rev.debt)
    BY <2>1 DEF IsSettled, Guards
  <2>3. rev.debt # <<>> /\ 1 \in DOMAIN rev.debt
    BY <1>1, <2>1
  <2>4. HasGuard(rev) /\ InOrder(rev.debt)
    BY <1>1, <2>2, <2>3 DEF DebtVerified, SoundRevision, StatusAgrees
  <2>5. /\ rev.debt[1].status = "Guarded" /\ rev.fallback.revision \in Revisions(f)
        /\ AllProved(f.revisions[rev.fallback.revision].debt)
        /\ f.revisions[rev.fallback.revision].impl = rev.debt[1].before
        /\ \A i \in rev.fallback.nonZero :
               Meaning[rev.debt[1].before][i] = Meaning[rev.debt[1].after][i]
    BY <1>1, <2>4 DEF SoundRevision, GuardIsExact
  <2>6. Len(rev.debt) = 1
    <3>1. \A j \in DOMAIN rev.debt : ~(1 < j)
      BY <2>3, <2>4, <2>5 DEF InOrder, IsSettled
    <3>2. DOMAIN rev.debt = 1 .. Len(rev.debt) /\ Len(rev.debt) \in Nat
      BY <1>1
    <3> HIDE DEF rev
    <3>3. PICK n \in Nat : n = Len(rev.debt)
      BY <3>2
    <3>4. 1 \in 1 .. n /\ \A j \in 1 .. n : ~(1 < j)
      BY <2>3, <3>1, <3>2, <3>3
    <3>5. n = 1
      <4>1. n \in 1 .. n
        BY <3>3, <3>4
      <4> QED
        BY <3>4, <4>1
    <3> QED
      BY <3>3, <3>5
  <2>7. rev.debt[1].after = rev.impl
    BY <1>1, <1>3, <2>3, <2>6 DEF SoundRevision, StatusAgrees
  <2>8. Meaning[f.revisions[rev.fallback.revision].impl] = Meaning[Identity]
    BY <2>5, ProvedIsExact
  <2> QED
    BY <2>4, <2>5, <2>7, <2>8 DEF Evaluated
<1> QED
  BY <1>2, <1>3

---------------------------------------------------------------------------
\* The operations on exact branches.
LEMMA IdentityIsSound == ASSUME NEW f PROVE SoundRevision(f, IdentityRevision(None))
<1> DEFINE link == [rule |-> "identity", before |-> Identity, after |-> Identity]
           rev == IdentityRevision(None)
<1>1. /\ rev = [x \in RevisionFields |-> rev[x]] /\ rev.impl = Identity /\ rev.version = 1
      /\ rev.state = "Equivalent" /\ rev.status = "Proved" /\ rev.chain = <<link>>
      /\ rev.frontier = NoFrontier /\ rev.debt = <<>> /\ rev.fallback = NoFallback
  BY DEF IdentityRevision, RevisionFields
<1>2. link \in Links /\ Identity \in Impls
  BY ImplAssumption DEF Links, Rules
<1>3. <<link>> \in Seq(Links) /\ Len(<<link>>) = 1 /\ <<>> \in Seq(Items) /\ DOMAIN <<>> = {}
  BY <1>2
<1> HIDE DEF rev, link
<1>4. IsRevision(rev) /\ ChainIsExact(rev) /\ FrontierFollows(rev)
  <2>1. IsRevision(rev)
    BY <1>1, <1>2, <1>3 DEF IsRevision
  <2>2. ChainIsExact(rev)
    <3>1. Len(rev.chain) = 1
      BY <1>1, <1>3
    <3>2. 2 .. 1 = {}
      OBVIOUS
    <3> QED
      BY <3>1, <3>2 DEF ChainIsExact
  <2>3. FrontierFollows(rev)
    BY <1>1 DEF FrontierFollows, NoFrontier
  <2> QED
    BY <2>1, <2>2, <2>3
<1>5. DebtAgrees(f, rev) /\ StatusAgrees(rev) /\ GuardIsExact(f, rev)
  BY <1>1, <1>3 DEF DebtAgrees, StatusAgrees, AllProved, GuardIsExact, HasGuard, NoFallback, None,
     NoFrontier
<1> QED
  BY <1>4, <1>5 DEF SoundRevision, rev

LEMMA CreateKeeps ==
    ASSUME NEW f, FInv(f), Checks(Created(f))
    PROVE  FInv(Created(f)) /\ Carries(f, Created(f))
  BY IdentityIsSound, CandidateKeeps DEF Created

\* A rewrite of a proved head is sound and verified, whether or not it is checked.
LEMMA ApplyKeeps ==
    ASSUME NEW f, FInv(f), NEW c \in Candidates(f), AllProved(HeadOf(f, c).debt),
           NEW after \in Rewrites(HeadOf(f, c).impl)
    PROVE  LET g == Applied(f, c, after)
           IN /\ FInv(g) /\ Carries(f, g)
              /\ c \in Candidates(g) /\ Len(g.candidates) = Len(f.candidates)
              /\ HeadOf(g, c).impl = after /\ AllProved(HeadOf(g, c).debt)
              /\ g.candidates[c].head = Len(g.revisions)
              /\ \A d \in Candidates(f) : d # c => g.candidates[d] = f.candidates[d]
<1> DEFINE base == HeadOf(f, c)
           n == Len(f.revisions) + 1
           link == [rule |-> "known", before |-> base.impl, after |-> after]
           moved == [candidate |-> c, revision |-> NextId(f.revisions), terminal |-> after]
           rev == [base EXCEPT !.base = f.candidates[c].head,
                               !.impl = after,
                               !.state = "Equivalent",
                               !.chain = Append(@, link),
                               !.frontier = IF base.version # 1 /\ @.revision # None THEN moved
                                            ELSE @]
           event == Event("apply", <<c, f.candidates[c].head, after>>)
           g == WithRevision(f, c, rev, event)
<1>1. g = Applied(f, c, after)
  BY DEF Applied
<1>2. /\ SoundRevision(f, base) /\ Verified(f, f.candidates[c].head)
      /\ f.candidates[c].head \in Revisions(f) /\ base.candidate = c
  BY DEF FInv, HeadOf
<1>3. /\ rev = [x \in RevisionFields |-> rev[x]] /\ rev.candidate = c /\ rev.impl = after
      /\ rev.version = base.version /\ rev.state = "Equivalent" /\ rev.status = base.status
      /\ rev.chain = Append(base.chain, link) /\ rev.debt = base.debt
      /\ rev.frontier = (IF base.version # 1 /\ base.frontier.revision # None THEN moved
                         ELSE base.frontier)
      /\ rev.fallback = base.fallback /\ rev.byEquality = base.byEquality
      /\ rev.materialized = base.materialized
  BY <1>2 DEF SoundRevision, IsRevision, RevisionFields
<1> HIDE DEF rev, event, base
<1>4. base.impl \in Impls /\ after \in Impls /\ Meaning[base.impl] = Meaning[after]
  <2>1. base.impl \in Impls
    BY <1>2 DEF SoundRevision, IsRevision
  <2>2. after \in Rewrites(base.impl)
    BY DEF base
  <2>3. Matches[base.impl] \in Seq(Impls)
    BY <2>1, ImplAssumption
  <2>4. after \in Impls
    BY <2>2, <2>3 DEF Rewrites, ToSet
  <2> QED
    BY <2>1, <2>2, <2>4, RulesAreExact
<1>5. link \in Links
  BY <1>4 DEF Links, Rules
<1>6. /\ ~Guards(base.debt) /\ ~Refutes(base.debt) /\ Unsettled(base.debt) = {}
      /\ AllProved(base.debt)
  BY DEF base, AllProved, Guards, Refutes, Unsettled
<1>7. base.impl = Terminal(base) /\ ~HasGuard(base)
  BY <1>2, <1>6, ProvedIsExact DEF base, HeadOf
<1>8. /\ base.chain \in Seq(Links) /\ Len(base.chain) \in Nat /\ rev.chain \in Seq(Links)
      /\ Len(rev.chain) = Len(base.chain) + 1 /\ rev.chain[Len(base.chain) + 1] = link
      /\ \A k \in 1 .. Len(base.chain) : rev.chain[k] = base.chain[k]
  <2>1. base.chain \in Seq(Links) /\ link \in Links /\ rev.chain = Append(base.chain, link)
    BY <1>2, <1>3, <1>5 DEF SoundRevision, IsRevision
  <2> HIDE DEF link
  <2> QED
    BY <2>1, SeqFacts
<1>9. ChainIsExact(rev)
  <2>1. \A k \in 2 .. Len(base.chain) : Meaning[base.chain[k].before] = Meaning[base.chain[k].after]
    BY <1>2, <1>6 DEF SoundRevision, ChainIsExact
  <2>2. \A k \in 2 .. Len(rev.chain) : k \in 2 .. Len(base.chain) \/ k = Len(base.chain) + 1
    BY <1>8
  <2>3. Meaning[link.before] = Meaning[link.after]
    BY <1>4
  <2> SUFFICES ASSUME NEW k \in 2 .. Len(rev.chain)
               PROVE  Meaning[rev.chain[k].before] = Meaning[rev.chain[k].after]
    BY DEF ChainIsExact
  <2> HIDE DEF link
  <2>4. CASE k \in 2 .. Len(base.chain)
    <3>1. rev.chain[k] = base.chain[k]
      BY <1>8, <2>4
    <3> QED
      BY <2>1, <2>4, <3>1
  <2>5. CASE k = Len(base.chain) + 1
    BY <1>8, <2>3, <2>5
  <2> QED
    BY <2>2, <2>4, <2>5
<1>10. SoundRevision(f, rev)
  <2>1. IsRevision(rev)
    BY <1>2, <1>3, <1>4, <1>8 DEF SoundRevision, IsRevision
  <2>2. DebtAgrees(f, rev) /\ GuardIsExact(f, rev)
    BY <1>2, <1>3 DEF SoundRevision, DebtAgrees, GuardIsExact, HasGuard
  <2>3. StatusAgrees(rev)
    BY <1>2, <1>3, <1>6 DEF SoundRevision, StatusAgrees
  <2>4. FrontierFollows(rev)
    BY <1>2, <1>3, <1>6 DEF SoundRevision, StatusAgrees, FrontierFollows
  <2> QED
    BY <1>9, <2>1, <2>2, <2>3, <2>4 DEF SoundRevision
<1>11. /\ g.revisions[n] = rev /\ Len(g.revisions) = n /\ Revisions(g) = Revisions(f) \cup {n}
       /\ \A r \in Revisions(f) : g.revisions[r] = f.revisions[r]
       /\ Carries(f, g) /\ Candidates(g) = Candidates(f) /\ Len(g.candidates) = Len(f.candidates)
       /\ g.candidates[c].head = n
       /\ \A d \in Candidates(f) : d # c => g.candidates[d] = f.candidates[d]
  BY <1>2, RevisionAdded
<1>12. Checks(g)
  <2>1. ChainVerified(rev)
    <3>1. ChainVerified(base)
      BY <1>2 DEF Verified, HeadOf, base
    <3>2. base.chain # <<>> /\ Len(base.chain) >= 1
      BY <1>8, <3>1 DEF ChainVerified
    <3>3. rev.chain # <<>> /\ rev.chain[1] = base.chain[1]
      BY <1>8, <3>2
    <3>4. base.chain[Len(base.chain)].after = base.impl
      BY <1>7, <3>1 DEF ChainVerified
    <3>5. ASSUME NEW i \in 2 .. Len(rev.chain) PROVE rev.chain[i].before = rev.chain[i - 1].after
      <4>1. CASE i \in 2 .. Len(base.chain)
        <5>1. i - 1 \in 1 .. Len(base.chain) /\ i \in 1 .. Len(base.chain)
          BY <1>8, <4>1
        <5> QED
          BY <1>8, <3>1, <4>1, <5>1 DEF ChainVerified
      <4>2. CASE i = Len(base.chain) + 1
        <5>1. i - 1 = Len(base.chain) /\ Len(base.chain) \in 1 .. Len(base.chain)
          BY <1>8, <3>2, <4>2
        <5> QED
          BY <1>8, <3>4, <4>2, <5>1
      <4> QED
        BY <1>8, <4>1, <4>2
    <3>6. Terminal(rev) = after
      BY <1>2, <1>3 DEF Terminal, SoundRevision, StatusAgrees
    <3>7. rev.chain[Len(rev.chain)].after = after
      BY <1>8
    <3> QED
      BY <3>1, <3>3, <3>5, <3>6, <3>7 DEF ChainVerified
  <2>2. DebtVerified(g, n, rev)
    <3>1. DebtVerified(f, f.candidates[c].head, base)
      BY <1>2 DEF Verified, HeadOf, base
    <3>2. \/ /\ rev.frontier.revision \in Revisions(g)
             /\ g.revisions[rev.frontier.revision].candidate = rev.frontier.candidate
          \/ ~(/\ base.frontier.revision \in Revisions(f)
               /\ f.revisions[base.frontier.revision].candidate = base.frontier.candidate)
      BY <1>3, <1>11 DEF NextId
    <3>3. HasGuard(rev) = HasGuard(base)
      BY <1>3 DEF HasGuard
    <3> HIDE DEF g, n
    <3>4. CASE base.version = 1
      BY <1>3, <3>4 DEF DebtVerified
    <3>5. CASE base.version = 3 /\ base.debt = <<>>
      <4>1. base.materialized.candidate = base.candidate
        BY <3>1, <3>5 DEF DebtVerified
      <4> QED
        BY <1>2, <1>3, <3>5, <4>1 DEF DebtVerified
    <3>6. CASE base.version # 1 /\ ~(base.version = 3 /\ base.debt = <<>>)
      <4>1. /\ base.frontier.revision \in Revisions(f)
            /\ f.revisions[base.frontier.revision].candidate = base.frontier.candidate
            /\ base.debt # <<>> /\ Continuous(base.debt) /\ InOrder(base.debt)
            /\ Guards(base.debt) = HasGuard(base)
            /\ base.byEquality # {} => base.version = 3
            /\ base.version = 3 => base.byEquality # {} \/ base.materialized # NoMaterialization
            /\ base.status = "Proved"
        BY <1>6, <3>1, <3>6 DEF DebtVerified
      <4>2. /\ rev.frontier.revision \in Revisions(g)
            /\ g.revisions[rev.frontier.revision].candidate = rev.frontier.candidate
        BY <3>2, <4>1
      <4>3. /\ rev.debt # <<>> /\ Continuous(rev.debt) /\ InOrder(rev.debt)
            /\ Guards(rev.debt) = HasGuard(rev) /\ ~HasGuard(rev) /\ ~Guards(rev.debt)
            /\ ~Refutes(rev.debt) /\ rev.status = "Proved"
        BY <1>3, <1>6, <1>7, <3>3, <4>1
      <4>4. /\ ~(rev.version = 3 /\ rev.debt = <<>>) /\ rev.version # 1
            /\ rev.byEquality # {} => rev.version = 3
            /\ rev.version = 3 => rev.byEquality # {} \/ rev.materialized # NoMaterialization
        BY <1>3, <3>6, <4>1
      <4> QED
        BY <4>2, <4>3, <4>4 DEF DebtVerified
    <3> QED
      BY <3>4, <3>5, <3>6
  <2> QED
    BY <1>11, <2>1, <2>2 DEF Checks, Verified
<1>13. FInv(g)
  BY <1>3, <1>10, <1>12, RevisionKeeps
<1>14. HeadOf(g, c) = rev
  BY <1>11 DEF HeadOf
<1> QED
  BY <1>1, <1>3, <1>6, <1>11, <1>13, <1>14

\* A revision that differs from a sound one in its place and its state only.
LEMMA SameIsSound ==
    ASSUME NEW f, NEW base, SoundRevision(f, base), NEW rev, rev = [x \in RevisionFields |-> rev[x]],
           rev.impl = base.impl, rev.version = base.version, rev.status = base.status,
           rev.chain = base.chain, rev.frontier = base.frontier, rev.debt = base.debt,
           rev.fallback = base.fallback,
           rev.state = "Rejected" => base.state = "Rejected" \/ base.version = 1,
           base.state = "Rejected" => rev.state = "Rejected",
           rev.state = "Sealed" => IsSettled(base.debt)
    PROVE  SoundRevision(f, rev)
<1>1. IsRevision(rev) /\ DebtAgrees(f, rev) /\ ChainIsExact(rev)
  <2>1. IsRevision(rev)
    BY DEF SoundRevision, IsRevision
  <2>2. DebtAgrees(f, rev)
    BY DEF SoundRevision, DebtAgrees
  <2>3. ChainIsExact(rev)
    BY DEF SoundRevision, ChainIsExact
  <2> QED
    BY <2>1, <2>2, <2>3
<1>2. StatusAgrees(rev)
  BY DEF SoundRevision, StatusAgrees
<1>3. GuardIsExact(f, rev)
  BY DEF SoundRevision, GuardIsExact, HasGuard
<1>4. FrontierFollows(rev)
  BY DEF SoundRevision, FrontierFollows
<1> QED
  BY <1>1, <1>2, <1>3, <1>4 DEF SoundRevision

LEMMA ForkKeeps ==
    ASSUME NEW f, FInv(f), NEW r \in Revisions(f), Checks(Forked(f, r))
    PROVE  LET g == Forked(f, r)
               c == Len(f.candidates) + 1
           IN /\ FInv(g) /\ Carries(f, g)
              /\ c \in Candidates(g) /\ Len(g.candidates) = c
              /\ HeadOf(g, c).impl = f.revisions[r].impl /\ HeadOf(g, c).debt = f.revisions[r].debt
              /\ g.candidates[c].head = Len(g.revisions)
<1> DEFINE base == f.revisions[r]
           rev == [base EXCEPT !.base = None, !.state = IF @ = "Sealed" THEN "Draft" ELSE @]
           c == Len(f.candidates) + 1
           new == [rev EXCEPT !.candidate = c]
<1>1. SoundRevision(f, base)
  BY DEF FInv
<1>2. /\ rev = [x \in RevisionFields |-> rev[x]] /\ rev.impl = base.impl
      /\ rev.version = base.version /\ rev.status = base.status /\ rev.chain = base.chain
      /\ rev.frontier = base.frontier /\ rev.debt = base.debt /\ rev.fallback = base.fallback
      /\ rev.state = IF base.state = "Sealed" THEN "Draft" ELSE base.state
      /\ new.impl = rev.impl /\ new.debt = rev.debt
  BY <1>1 DEF SoundRevision, IsRevision, RevisionFields
<1> HIDE DEF base, rev, new
<1>3. SoundRevision(f, rev)
  BY <1>1, <1>2, SameIsSound
<1>4. Forked(f, r) = WithCandidate(f, rev, Event("fork", <<r>>))
  BY DEF Forked, rev, base
<1> DEFINE g == WithCandidate(f, rev, Event("fork", <<r>>))
<1>5. Checks(g)
  BY <1>4
<1>6. /\ FInv(g) /\ Carries(f, g) /\ c \in Candidates(g) /\ Len(g.candidates) = c
      /\ HeadOf(g, c) = [rev EXCEPT !.candidate = c] /\ g.candidates[c].head = Len(g.revisions)
  BY <1>3, <1>5, CandidateKeeps
<1>7. HeadOf(g, c) = new
  BY <1>6 DEF new
<1> HIDE DEF g
<1> QED
  BY <1>2, <1>4, <1>6, <1>7 DEF base, g

LEMMA SealKeeps ==
    ASSUME NEW f, FInv(f), NEW c \in Candidates(f), CanSeal(f, c), Checks(Sealed(f, c))
    PROVE  FInv(Sealed(f, c)) /\ Carries(f, Sealed(f, c))
<1> DEFINE base == HeadOf(f, c)
           rev == [base EXCEPT !.base = f.candidates[c].head, !.state = "Sealed"]
<1>1. SoundRevision(f, base) /\ base.candidate = c
  BY DEF FInv, HeadOf
<1>2. /\ rev = [x \in RevisionFields |-> rev[x]] /\ rev.impl = base.impl
      /\ rev.version = base.version /\ rev.status = base.status /\ rev.chain = base.chain
      /\ rev.frontier = base.frontier /\ rev.debt = base.debt /\ rev.fallback = base.fallback
      /\ rev.state = "Sealed" /\ rev.candidate = base.candidate
  BY <1>1 DEF SoundRevision, IsRevision, RevisionFields
<1>3. IsSettled(base.debt) /\ base.state # "Rejected"
  BY DEF CanSeal, IsSettled
<1> HIDE DEF base, rev
<1>4. SoundRevision(f, rev)
  BY <1>1, <1>2, <1>3, SameIsSound
<1>5. Sealed(f, c) = WithRevision(f, c, rev, Event("seal", <<c, f.candidates[c].head>>))
  BY DEF Sealed, rev, base
<1> QED
  BY <1>1, <1>2, <1>4, <1>5, RevisionKeeps

---------------------------------------------------------------------------
\* The operations on debt.
LEMMA SettledNext ==
    ASSUME NEW debt \in Seq(Items), NEW i \in DOMAIN debt, NEW status \in {"Proved", "Guarded"},
           IsNext(debt, i), debt[i].status \notin {"Proved", "Guarded"},
           InOrder(debt), Continuous(debt)
    PROVE  LET rest == Unsettled(Settled(debt, i, status))
           IN /\ rest = {j \in DOMAIN debt : i < j}
              /\ rest = {} => i = Len(debt)
              /\ \A k \in rest : (\A j \in rest : k <= j) => debt[k].before = debt[i].after
<1> DEFINE new == Settled(debt, i, status)
           rest == Unsettled(new)
<1>1. /\ DOMAIN new = DOMAIN debt
      /\ \A j \in DOMAIN debt : new[j].status = IF j = i THEN status ELSE debt[j].status
  <2>1. status \in Statuses
    BY DEF Statuses
  <2> QED
    BY <2>1, SettledFacts
<1>2. Len(debt) \in Nat /\ DOMAIN debt = 1 .. Len(debt)
  OBVIOUS
<1> HIDE DEF new
<1>3. rest = {j \in DOMAIN debt : i < j}
  <2>1. ASSUME NEW j \in DOMAIN debt, i < j PROVE j \in rest
    <3>1. debt[j].status \notin {"Proved", "Guarded"} /\ j # i
      BY <1>2, <2>1 DEF InOrder
    <3> QED
      BY <1>1, <3>1 DEF Unsettled
  <2>2. ASSUME NEW j \in rest PROVE j \in DOMAIN debt /\ i < j
    <3>1. j \in DOMAIN debt /\ new[j].status \notin {"Proved", "Guarded"}
      BY <1>1 DEF Unsettled
    <3>2. j # i
      BY <1>1, <3>1
    <3>3. ~(j < i)
      <4>1. j < i => j \in 1 .. i - 1
        BY <1>2, <3>1
      <4> QED
        BY <1>1, <3>1, <3>2, <4>1 DEF IsNext
    <3> QED
      BY <1>2, <3>1, <3>2, <3>3
  <2> QED
    BY <2>1, <2>2
<1>4. rest = {} => i = Len(debt)
  <2>1. i < Len(debt) => Len(debt) \in rest
    BY <1>2, <1>3
  <2> QED
    BY <1>2, <2>1
<1>5. ASSUME NEW k \in rest, \A j \in rest : k <= j PROVE debt[k].before = debt[i].after
  <2>1. k \in 1 .. Len(debt) /\ i < k /\ i \in 1 .. Len(debt)
    BY <1>2, <1>3
  <2>2. i + 1 \in rest
    BY <1>2, <1>3, <2>1
  <2>3. k = i + 1
    BY <1>5, <2>1, <2>2
  <2>4. k \in 2 .. Len(debt) /\ k - 1 = i
    BY <2>1, <2>3
  <2> QED
    BY <2>4 DEF Continuous
<1> QED
  BY <1>3, <1>4, <1>5 DEF new

\* What a head with debt that passed the verifier is like.
LEMMA DebtOrdered ==
    ASSUME NEW f, FInv(f), NEW c \in Candidates(f), HeadOf(f, c).debt # <<>>
    PROVE  /\ HeadOf(f, c).version # 1 /\ InOrder(HeadOf(f, c).debt)
           /\ Continuous(HeadOf(f, c).debt)
           /\ HeadOf(f, c).frontier.revision \in Revisions(f)
<1>1. /\ SoundRevision(f, HeadOf(f, c))
      /\ DebtVerified(f, f.candidates[c].head, HeadOf(f, c))
  BY DEF FInv, HeadOf, Verified
<1>2. HeadOf(f, c).version # 1
  BY <1>1 DEF SoundRevision, StatusAgrees
<1> QED
  BY <1>1, <1>2 DEF DebtVerified

\* What the verifier says of a revision with debt that is not rejected.
LEMMA NotRefuted ==
    ASSUME NEW f, FInv(f), NEW c \in Candidates(f), NEW rev, NEW event,
           Checks(WithRevision(f, c, rev, event)),
           rev.debt # <<>>, rev.version # 1, rev.state # "Rejected"
    PROVE  ~Refutes(rev.debt)
<1>1. /\ WithRevision(f, c, rev, event).revisions[Len(f.revisions) + 1] = rev
      /\ Len(WithRevision(f, c, rev, event).revisions) = Len(f.revisions) + 1
  BY RevisionAdded
<1>2. DebtVerified(WithRevision(f, c, rev, event), Len(f.revisions) + 1, rev)
  BY <1>1 DEF Checks, Verified
<1> QED
  BY <1>2 DEF DebtVerified

\* An item is settled: by a rule or by membership, or under its guard.
Settles(f, c, i, status, rule, rev) ==
    LET base == HeadOf(f, c)
    IN /\ status \in {"Proved", "Guarded"} /\ rule \in Rules
       /\ base.debt[i].status \in {"Open", "Unsupported"} /\ IsNext(base.debt, i)
       /\ rev = [x \in RevisionFields |-> rev[x]] /\ rev.impl = base.impl
       /\ rev.version # 1 /\ rev.debt = Settled(base.debt, i, status)
       /\ rev.chain = Append(base.chain, [rule |-> rule, before |-> base.debt[i].before,
                                         after |-> base.debt[i].after])
       /\ rev.status = "Proved" => AllProved(rev.debt)
       /\ rev.state \notin {"Rejected", "Sealed"}
       /\ rev.frontier.terminal = base.debt[i].after
       /\ status = "Proved" => Meaning[base.debt[i].before] = Meaning[base.debt[i].after]
       /\ GuardIsExact(f, rev)

LEMMA SettleIsSound ==
    ASSUME NEW f, FInv(f), NEW c \in Candidates(f), NEW i \in DOMAIN HeadOf(f, c).debt,
           NEW status, NEW rule, NEW rev, Settles(f, c, i, status, rule, rev)
    PROVE  SoundRevision(f, rev)
<1> USE DEF Settles
<1> DEFINE base == HeadOf(f, c)
           debt == base.debt
           link == [rule |-> rule, before |-> debt[i].before, after |-> debt[i].after]
<1>1. SoundRevision(f, base) /\ debt \in Seq(Items) /\ base.chain \in Seq(Links)
  BY DEF FInv, HeadOf, SoundRevision, IsRevision
<1>2. debt # <<>> /\ debt[i] \in Items /\ Len(debt) \in Nat /\ DOMAIN debt = 1 .. Len(debt)
  BY <1>1, SeqFacts
<1>3. InOrder(debt) /\ Continuous(debt)
  BY <1>2, DebtOrdered
<1>4. /\ rev.debt \in Seq(Items) /\ Len(rev.debt) = Len(debt) /\ DOMAIN rev.debt = DOMAIN debt
      /\ \A j \in DOMAIN debt :
            /\ rev.debt[j].proposal = debt[j].proposal /\ rev.debt[j].before = debt[j].before
            /\ rev.debt[j].after = debt[j].after
            /\ rev.debt[j].status = IF j = i THEN status ELSE debt[j].status
  <2>1. status \in Statuses
    BY DEF Statuses
  <2> HIDE DEF base
  <2>2. i \in DOMAIN debt /\ rev.debt = Settled(debt, i, status)
    BY DEF base
  <2> HIDE DEF debt
  <2>3. LET new == Settled(debt, i, status)
        IN /\ new \in Seq(Items) /\ Len(new) = Len(debt) /\ DOMAIN new = DOMAIN debt
           /\ \A j \in DOMAIN debt :
                 /\ new[j].proposal = debt[j].proposal /\ new[j].before = debt[j].before
                 /\ new[j].after = debt[j].after
                 /\ new[j].status = IF j = i THEN status ELSE debt[j].status
    BY <1>1, <2>1, <2>2, SettledFacts
  <2> QED
    BY <2>2, <2>3
<1>5. link \in Links
  BY <1>2 DEF Links, Items
<1>6. /\ rev.chain \in Seq(Links) /\ Len(base.chain) \in Nat
      /\ Len(rev.chain) = Len(base.chain) + 1 /\ rev.chain[Len(base.chain) + 1] = link
      /\ \A k \in 1 .. Len(base.chain) : rev.chain[k] = base.chain[k]
  <2>1. link \in Links /\ base.chain \in Seq(Links) /\ rev.chain = Append(base.chain, link)
    BY <1>1, <1>5
  <2> DEFINE old == base.chain
  <2> HIDE DEF link, old
  <2>2. /\ Append(old, link) \in Seq(Links) /\ Len(old) \in Nat
        /\ Len(Append(old, link)) = Len(old) + 1 /\ Append(old, link)[Len(old) + 1] = link
        /\ \A k \in 1 .. Len(old) : Append(old, link)[k] = old[k]
    BY <2>1, SeqFacts DEF old
  <2> QED
    BY <2>1, <2>2 DEF old
<1>7. ~AllProved(debt) /\ debt[Len(debt)].after = base.impl
  <2>1. ~AllProved(debt)
    BY DEF AllProved
  <2> QED
    BY <1>1, <1>2, <2>1 DEF SoundRevision, StatusAgrees
<1> HIDE DEF debt, base
<1>8. IsRevision(rev)
  BY <1>1, <1>4, <1>6 DEF SoundRevision, IsRevision, base
<1>9. DebtAgrees(f, rev)
  <2>1. DebtAgrees(f, base)
    BY <1>1 DEF SoundRevision
  <2> QED
    BY <1>4, <2>1 DEF DebtAgrees, debt
<1>10. StatusAgrees(rev)
  <2>1. rev.debt[Len(rev.debt)].after = rev.impl
    <3>1. Len(debt) \in DOMAIN debt
      BY <1>2
    <3> QED
      BY <1>4, <1>7, <3>1 DEF base
  <2> QED
    BY <2>1 DEF StatusAgrees
<1>11. ChainIsExact(rev)
  <2> SUFFICES ASSUME NEW k \in 2 .. Len(rev.chain), ~Guards(rev.debt), ~Refutes(rev.debt)
               PROVE  Meaning[rev.chain[k].before] = Meaning[rev.chain[k].after]
    BY DEF ChainIsExact
  <2>1. status = "Proved"
    BY <1>4 DEF Guards, debt, base
  <2>2. ~Guards(debt) /\ ~Refutes(debt)
    BY <1>4 DEF Guards, Refutes, debt, base
  <2>3. CASE k \in 2 .. Len(base.chain)
    <3>1. rev.chain[k] = base.chain[k]
      <4>1. k \in 1 .. Len(base.chain)
        BY <1>6, <2>3
      <4> QED
        BY <1>6, <4>1
    <3> QED
      BY <1>1, <2>2, <2>3, <3>1 DEF SoundRevision, ChainIsExact, debt
  <2>4. CASE k = Len(base.chain) + 1
    BY <1>6, <2>1, <2>4 DEF debt, base
  <2> QED
    BY <1>6, <2>3, <2>4
<1>12. FrontierFollows(rev)
  <2>1. LET rest == Unsettled(rev.debt)
        IN /\ rest \subseteq DOMAIN debt
           /\ rest = {} => i = Len(debt)
           /\ \A k \in rest : (\A j \in rest : k <= j) => debt[k].before = debt[i].after
    <3>1. IsNext(debt, i) /\ debt[i].status \notin {"Proved", "Guarded"} /\ i \in DOMAIN debt
      BY DEF debt, base
    <3>2. rev.debt = Settled(debt, i, status)
      BY DEF debt, base
    <3>3. LET rest == Unsettled(Settled(debt, i, status))
          IN /\ rest = {j \in DOMAIN debt : i < j}
             /\ rest = {} => i = Len(debt)
             /\ \A k \in rest : (\A j \in rest : k <= j) => debt[k].before = debt[i].after
      BY <1>1, <1>3, <3>1, SettledNext
    <3> QED
      BY <3>2, <3>3
  <2> QED
    BY <1>4, <1>7, <2>1 DEF FrontierFollows, debt, base
<1> QED
  BY <1>8, <1>9, <1>10, <1>11, <1>12 DEF SoundRevision

\* What one more proved item makes of a head.
IsDischarged(f, c, i, rule, rev) ==
    LET base == HeadOf(f, c)
        debt == Settled(base.debt, i, "Proved")
    IN /\ rev = [x \in RevisionFields |-> rev[x]] /\ rev.candidate = c /\ rev.impl = base.impl
       /\ rev.version = base.version /\ rev.debt = debt
       /\ rev.chain = Append(base.chain, [rule |-> rule, before |-> base.debt[i].before,
                                         after |-> base.debt[i].after])
       /\ rev.status = IF AllProved(debt) THEN "Proved" ELSE "Open"
       /\ rev.state = IF AllProved(debt) THEN "Equivalent" ELSE "Speculative"
       /\ rev.fallback = base.fallback /\ rev.byEquality = base.byEquality
       /\ rev.debt[i].proposal = base.debt[i].proposal
       /\ rev.debt[i].before = base.debt[i].before /\ rev.debt[i].after = base.debt[i].after

LEMMA DischargedIs ==
    ASSUME NEW f, FInv(f), NEW c \in Candidates(f), NEW i \in DOMAIN HeadOf(f, c).debt, NEW rule
    PROVE  IsDischarged(f, c, i, rule, Discharged(HeadOf(f, c), i, rule))
<1> DEFINE base == HeadOf(f, c)
           debt == Settled(base.debt, i, "Proved")
           rev == Discharged(base, i, rule)
           link == [rule |-> rule, before |-> debt[i].before, after |-> debt[i].after]
           status == IF AllProved(debt) THEN "Proved" ELSE "Open"
           state == IF AllProved(debt) THEN "Equivalent" ELSE "Speculative"
<1>1. base = [x \in RevisionFields |-> base[x]] /\ base.debt \in Seq(Items) /\ base.candidate = c
  BY DEF FInv, HeadOf, SoundRevision, IsRevision
<1>2. /\ debt[i].proposal = base.debt[i].proposal /\ debt[i].before = base.debt[i].before
      /\ debt[i].after = base.debt[i].after
  <2>1. "Proved" \in Statuses
    BY DEF Statuses
  <2> QED
    BY <1>1, <2>1, SettledFacts
<1>3. rev = [base EXCEPT !.debt = debt, !.chain = Append(@, link), !.status = status, !.state = state]
  BY DEF Discharged
<1> HIDE DEF base, debt, rev, link, status, state
<1>4. /\ rev = [x \in RevisionFields |-> rev[x]] /\ rev.candidate = c /\ rev.impl = base.impl
      /\ rev.version = base.version /\ rev.debt = debt /\ rev.chain = Append(base.chain, link)
      /\ rev.status = status /\ rev.state = state /\ rev.fallback = base.fallback
      /\ rev.byEquality = base.byEquality
  BY <1>1, <1>3 DEF RevisionFields
<1> QED
  BY <1>2, <1>4 DEF IsDischarged, base, debt, rev, link, status, state

LEMMA LegalIsExact ==
    ASSUME NEW before \in Impls, NEW after, Classification(before, after) = "Legal"
    PROVE  Meaning[before] = Meaning[after]
  BY RulesAreExact DEF Classification

\* A proved item, by a rule or by membership.
Discharges(f, c, i, rule, rev) ==
    LET base == HeadOf(f, c)
        made == Discharged(base, i, rule)
    IN /\ rule \in Rules
       /\ base.debt[i].status \in {"Open", "Unsupported"} /\ IsNext(base.debt, i)
       /\ Meaning[base.debt[i].before] = Meaning[base.debt[i].after]
       /\ rev = [x \in RevisionFields |-> rev[x]] /\ rev.version # 1
       /\ rev.candidate = made.candidate /\ rev.impl = made.impl /\ rev.debt = made.debt
       /\ rev.chain = made.chain /\ rev.status = made.status /\ rev.state = made.state
       /\ rev.fallback = made.fallback /\ rev.frontier.terminal = base.debt[i].after

LEMMA DischargeKeeps ==
    ASSUME NEW f, FInv(f), NEW c \in Candidates(f), NEW i \in DOMAIN HeadOf(f, c).debt,
           NEW rule, NEW rev, Discharges(f, c, i, rule, rev),
           NEW event, Checks(WithRevision(f, c, rev, event))
    PROVE  FInv(WithRevision(f, c, rev, event)) /\ Carries(f, WithRevision(f, c, rev, event))
<1> DEFINE head == HeadOf(f, c)
           debt == Settled(head.debt, i, "Proved")
           made == Discharged(head, i, rule)
<1>1. /\ made = [x \in RevisionFields |-> made[x]] /\ made.candidate = c /\ made.impl = head.impl
      /\ made.debt = debt
      /\ made.chain = Append(head.chain, [rule |-> rule, before |-> head.debt[i].before,
                                         after |-> head.debt[i].after])
      /\ made.status = (IF AllProved(debt) THEN "Proved" ELSE "Open")
      /\ made.state = (IF AllProved(debt) THEN "Equivalent" ELSE "Speculative")
      /\ made.fallback = head.fallback
  <2>1. IsDischarged(f, c, i, rule, made)
    BY DischargedIs
  <2> HIDE DEF made
  <2> QED
    BY <2>1 DEF IsDischarged
<1>2. /\ rule \in Rules /\ head.debt[i].status \in {"Open", "Unsupported"} /\ IsNext(head.debt, i)
      /\ Meaning[head.debt[i].before] = Meaning[head.debt[i].after]
      /\ rev = [x \in RevisionFields |-> rev[x]] /\ rev.version # 1
      /\ rev.candidate = made.candidate /\ rev.impl = made.impl /\ rev.debt = made.debt
      /\ rev.chain = made.chain /\ rev.status = made.status /\ rev.state = made.state
      /\ rev.fallback = made.fallback /\ rev.frontier.terminal = head.debt[i].after
  BY DEF Discharges
<1> HIDE DEF made, debt
<1>3. /\ rev.candidate = c /\ rev.impl = head.impl /\ rev.debt = debt /\ rev.fallback = head.fallback
  BY <1>1, <1>2
<1>4. GuardIsExact(f, rev)
  <2>1. SoundRevision(f, head) /\ head.debt \in Seq(Items)
    BY DEF FInv, HeadOf, SoundRevision, IsRevision
  <2>2. /\ DOMAIN debt = DOMAIN head.debt /\ debt \in Seq(Items)
        /\ \A j \in DOMAIN head.debt :
              /\ debt[j].before = head.debt[j].before /\ debt[j].after = head.debt[j].after
              /\ debt[j].status = IF j = i THEN "Proved" ELSE head.debt[j].status
    <3>1. "Proved" \in Statuses
      BY DEF Statuses
    <3> QED
      BY <2>1, <3>1, SettledFacts DEF debt
  <2>3. HasGuard(rev) => HasGuard(head)
    BY <1>3 DEF HasGuard
  <2>4. HasGuard(head) => 1 \in DOMAIN head.debt /\ 1 # i /\ debt # <<>>
    <3> SUFFICES ASSUME HasGuard(head)
                 PROVE  1 \in DOMAIN head.debt /\ 1 # i /\ debt # <<>>
      OBVIOUS
    <3>1. head.debt # <<>> /\ head.debt[1].status = "Guarded"
      BY <2>1 DEF SoundRevision, GuardIsExact
    <3>2. 1 \in DOMAIN head.debt /\ 1 # i
      BY <1>2, <2>1, <3>1
    <3> QED
      BY <2>2, <3>2
  <2> HIDE DEF head
  <2> QED
    BY <1>3, <2>1, <2>2, <2>3, <2>4 DEF SoundRevision, GuardIsExact
<1>5. Settles(f, c, i, "Proved", rule, rev)
  BY <1>1, <1>2, <1>3, <1>4 DEF Settles, debt
<1>6. SoundRevision(f, rev)
  BY <1>5, SettleIsSound
<1> QED
  BY <1>3, <1>6, RevisionKeeps

\* The proposal an item names, and what it is worth.
LEMMA ItemProposed ==
    ASSUME NEW f, FInv(f), NEW c \in Candidates(f), NEW i \in DOMAIN HeadOf(f, c).debt
    PROVE  LET item == HeadOf(f, c).debt[i]
               proposal == f.proposals[item.proposal]
           IN /\ SoundProposal(f, proposal)
              /\ proposal.before = item.before /\ proposal.after = item.after
              /\ item.before \in Impls /\ item.after \in Impls
              /\ Classification(item.before, item.after) = "Conditional" => i = 1
<1>1. DebtAgrees(f, HeadOf(f, c)) /\ HeadOf(f, c).debt \in Seq(Items)
  BY DEF FInv, HeadOf, SoundRevision, IsRevision
<1>2. HeadOf(f, c).debt[i] \in Items
  BY <1>1, SeqFacts
<1> QED
  BY <1>1, <1>2 DEF DebtAgrees, FInv, Items

LEMMA RuleKeeps ==
    ASSUME NEW f, FInv(f), NEW c \in Candidates(f), NEW i \in DOMAIN HeadOf(f, c).debt,
           CanTranslate(f, c, i), NEW event, NEW base,
           Classification(HeadOf(f, c).debt[i].before, HeadOf(f, c).debt[i].after) = "Legal",
           NEW rev, rev = [ByRule(f, c, i) EXCEPT !.base = base, !.version = 2],
           Checks(WithRevision(f, c, rev, event))
    PROVE  FInv(WithRevision(f, c, rev, event)) /\ Carries(f, WithRevision(f, c, rev, event))
<1> DEFINE head == HeadOf(f, c)
           made == Discharged(head, i, "known")
           proposal == f.proposals[made.debt[i].proposal]
           frontier == IF AllProved(made.debt)
                       THEN [candidate |-> c, revision |-> NextId(f.revisions),
                             terminal |-> proposal.after]
                       ELSE [candidate |-> proposal.candidate, revision |-> proposal.accepted,
                             terminal |-> proposal.after]
<1>1. IsDischarged(f, c, i, "known", made)
  BY DischargedIs
<1>2. ByRule(f, c, i) = [made EXCEPT !.frontier = frontier]
  BY DEF ByRule
<1> HIDE DEF made
<1>3. made = [x \in RevisionFields |-> made[x]] /\ made.debt[i].proposal = head.debt[i].proposal
  BY <1>1 DEF IsDischarged
<1>4. proposal.after = head.debt[i].after
  BY <1>3, ItemProposed
<1>5. Meaning[head.debt[i].before] = Meaning[head.debt[i].after]
  BY ItemProposed, LegalIsExact
<1>6. head.debt[i].status \in {"Open", "Unsupported"} /\ IsNext(head.debt, i)
  BY DEF CanTranslate
<1>7. frontier.terminal = head.debt[i].after
  BY <1>4
<1> HIDE DEF frontier, proposal
<1>8. /\ rev = [x \in RevisionFields |-> rev[x]] /\ rev.version # 1
      /\ rev.candidate = made.candidate /\ rev.impl = made.impl /\ rev.debt = made.debt
      /\ rev.chain = made.chain /\ rev.status = made.status /\ rev.state = made.state
      /\ rev.fallback = made.fallback /\ rev.frontier = frontier
  <2> DEFINE step == [made EXCEPT !.frontier = frontier]
  <2>1. rev = [step EXCEPT !.base = base, !.version = 2]
    BY <1>2
  <2>2. /\ step = [x \in RevisionFields |-> step[x]]
        /\ step.candidate = made.candidate /\ step.impl = made.impl /\ step.debt = made.debt
        /\ step.chain = made.chain /\ step.status = made.status /\ step.state = made.state
        /\ step.fallback = made.fallback /\ step.frontier = frontier
    BY <1>3 DEF RevisionFields
  <2> HIDE DEF step
  <2>3. /\ rev = [x \in RevisionFields |-> rev[x]] /\ rev.version = 2
        /\ rev.candidate = step.candidate /\ rev.impl = step.impl /\ rev.debt = step.debt
        /\ rev.chain = step.chain /\ rev.status = step.status /\ rev.state = step.state
        /\ rev.fallback = step.fallback /\ rev.frontier = step.frontier
    BY <2>1, <2>2 DEF RevisionFields
  <2>4. rev.version # 1
    BY <2>3
  <2>5. rev.candidate = made.candidate /\ rev.impl = made.impl /\ rev.debt = made.debt
    BY <2>2, <2>3
  <2>6. rev.chain = made.chain /\ rev.status = made.status /\ rev.state = made.state
    BY <2>2, <2>3
  <2>7. rev.fallback = made.fallback /\ rev.frontier = frontier
    BY <2>2, <2>3
  <2> HIDE DEF made, frontier
  <2> QED
    BY <2>3, <2>4, <2>5, <2>6, <2>7
<1>9. Discharges(f, c, i, "known", rev)
  BY <1>5, <1>6, <1>7, <1>8 DEF Discharges, Rules, made
<1> QED
  BY <1>9, DischargeKeeps

LEMMA GuardKeeps ==
    ASSUME NEW f, FInv(f), NEW c \in Candidates(f), NEW i \in DOMAIN HeadOf(f, c).debt,
           CanTranslate(f, c, i), NEW event, NEW base,
           Classification(HeadOf(f, c).debt[i].before, HeadOf(f, c).debt[i].after) = "Conditional",
           NEW rev, rev = [ByGuard(f, c, i) EXCEPT !.base = base, !.version = 2],
           Checks(WithRevision(f, c, rev, event))
    PROVE  FInv(WithRevision(f, c, rev, event)) /\ Carries(f, WithRevision(f, c, rev, event))
<1> DEFINE head == HeadOf(f, c)
           item == head.debt[i]
           proposal == f.proposals[item.proposal]
           division == CHOOSE d \in Divisions : d.before = proposal.before /\ d.after = proposal.after
           debt == Settled(head.debt, i, "Guarded")
           link == [rule |-> "guarded", before |-> proposal.before, after |-> proposal.after]
           fallback == [revision |-> proposal.base, nonZero |-> division.nonZero]
           frontier == [candidate |-> c, revision |-> NextId(f.revisions),
                        terminal |-> proposal.after]
<1>1. /\ SoundProposal(f, proposal) /\ proposal.before = item.before /\ proposal.after = item.after
      /\ i = 1
  BY ItemProposed
<1>2. item.status = "Open" /\ IsNext(head.debt, i) /\ AllProved(f.revisions[proposal.base].debt)
  BY <1>1 DEF CanTranslate
<1>3. /\ head = [x \in RevisionFields |-> head[x]] /\ head.candidate = c
      /\ head.debt \in Seq(Items)
  BY DEF FInv, HeadOf, SoundRevision, IsRevision
<1>4. /\ division \in Divisions /\ division.before = item.before /\ division.after = item.after
  <2>1. \E d \in Divisions : d.before = item.before /\ d.after = item.after
    BY DEF Classification
  <2> QED
    BY <1>1, <2>1
<1>5. \A x \in division.nonZero : Meaning[item.before][x] = Meaning[item.after][x]
  <2> HIDE DEF division, item
  <2>1. \A x \in division.nonZero : Meaning[division.before][x] = Meaning[division.after][x]
    BY <1>4, RulesAreExact
  <2> QED
    BY <1>4, <2>1
<1>6. ByGuard(f, c, i) = [head EXCEPT !.debt = debt, !.chain = Append(@, link),
                                     !.fallback = fallback, !.frontier = frontier,
                                     !.status = "Guarded", !.state = "Guarded"]
  BY DEF ByGuard
<1>7. /\ debt \in Seq(Items) /\ DOMAIN debt = DOMAIN head.debt
      /\ debt[i].status = "Guarded" /\ debt[i].before = item.before /\ debt[i].after = item.after
  <2>1. "Guarded" \in Statuses
    BY DEF Statuses
  <2> QED
    BY <1>3, <2>1, SettledFacts
<1>8. fallback.revision = proposal.base /\ fallback.nonZero = division.nonZero
      /\ frontier.terminal = item.after /\ link = [rule |-> "guarded", before |-> item.before,
                                                   after |-> item.after]
  BY <1>1
<1> HIDE DEF head, debt, link, fallback, frontier
<1>9. /\ rev = [x \in RevisionFields |-> rev[x]] /\ rev.candidate = c /\ rev.impl = head.impl
      /\ rev.version = 2 /\ rev.debt = debt /\ rev.chain = Append(head.chain, link)
      /\ rev.status = "Guarded" /\ rev.state = "Guarded" /\ rev.fallback = fallback
      /\ rev.frontier = frontier
  BY <1>3, <1>6 DEF RevisionFields
<1>10. GuardIsExact(f, rev)
  <2>1. debt # <<>>
    BY <1>7 DEF head
  <2>2. /\ proposal.base \in Revisions(f) /\ f.revisions[proposal.base].impl = item.before
    BY <1>1 DEF SoundProposal
  <2> HIDE DEF item, proposal, division
  <2>3. debt[1].status = "Guarded" /\ debt[1].before = item.before /\ debt[1].after = item.after
    BY <1>1, <1>7
  <2> QED
    BY <1>2, <1>5, <1>8, <1>9, <2>1, <2>2, <2>3 DEF GuardIsExact
<1>11. Settles(f, c, i, "Guarded", "guarded", rev)
  <2>1. /\ "Guarded" \in {"Proved", "Guarded"} /\ "guarded" \in Rules
        /\ rev.status # "Proved" /\ rev.state \notin {"Rejected", "Sealed"} /\ rev.version # 1
        /\ "Guarded" # "Proved"
    BY <1>9 DEF Rules
  <2>2. /\ head.debt[i].status \in {"Open", "Unsupported"} /\ IsNext(head.debt, i)
        /\ rev = [x \in RevisionFields |-> rev[x]] /\ rev.impl = head.impl
        /\ rev.debt = Settled(head.debt, i, "Guarded")
        /\ rev.chain = Append(head.chain, [rule |-> "guarded", before |-> head.debt[i].before,
                                           after |-> head.debt[i].after])
        /\ rev.frontier.terminal = head.debt[i].after
    BY <1>2, <1>8, <1>9 DEF debt
  <2> QED
    BY <1>10, <2>1, <2>2 DEF Settles, head
<1>12. SoundRevision(f, rev)
  BY <1>11, SettleIsSound
<1> QED
  BY <1>9, <1>12, RevisionKeeps

LEMMA UnsupportedKeeps ==
    ASSUME NEW f, FInv(f), NEW c \in Candidates(f), NEW i \in DOMAIN HeadOf(f, c).debt,
           CanTranslate(f, c, i), NEW event, NEW base,
           NEW rev, rev = [Unsupported(f, c, i) EXCEPT !.base = base, !.version = 2],
           Checks(WithRevision(f, c, rev, event))
    PROVE  FInv(WithRevision(f, c, rev, event)) /\ Carries(f, WithRevision(f, c, rev, event))
<1> DEFINE head == HeadOf(f, c)
           debt == Settled(head.debt, i, "Unsupported")
<1>1. /\ SoundRevision(f, head) /\ head = [x \in RevisionFields |-> head[x]] /\ head.candidate = c
      /\ head.debt \in Seq(Items) /\ head.impl \in Impls /\ head.chain \in Seq(Links)
  BY DEF FInv, HeadOf, SoundRevision, IsRevision
<1>2. head.debt[i].status = "Open" /\ IsNext(head.debt, i) /\ i \in DOMAIN head.debt
  BY DEF CanTranslate
<1>3. /\ debt \in Seq(Items) /\ DOMAIN debt = DOMAIN head.debt /\ Len(debt) = Len(head.debt)
      /\ \A j \in DOMAIN head.debt :
            /\ debt[j].proposal = head.debt[j].proposal /\ debt[j].before = head.debt[j].before
            /\ debt[j].after = head.debt[j].after
            /\ debt[j].status = IF j = i THEN "Unsupported" ELSE head.debt[j].status
  <2> DEFINE old == head.debt
             status == "Unsupported"
  <2>1. old \in Seq(Items) /\ i \in DOMAIN old /\ status \in Statuses
    BY <1>1 DEF Statuses
  <2> HIDE DEF old, status
  <2>2. LET new == Settled(old, i, status)
        IN /\ new \in Seq(Items) /\ Len(new) = Len(old) /\ DOMAIN new = DOMAIN old
           /\ \A j \in DOMAIN old :
                 /\ new[j].proposal = old[j].proposal /\ new[j].before = old[j].before
                 /\ new[j].after = old[j].after
                 /\ new[j].status = IF j = i THEN status ELSE old[j].status
    BY <2>1, SettledFacts
  <2> QED
    BY <2>2 DEF old, status
<1>4. head.debt # <<>> /\ debt # <<>> /\ Len(head.debt) \in DOMAIN head.debt
  BY <1>1, <1>2, <1>3
<1>5. head.version # 1
  BY <1>4, DebtOrdered
<1>6. Unsupported(f, c, i) = [head EXCEPT !.debt = debt, !.status = "Unsupported",
                                         !.state = "Speculative"]
  BY DEF Unsupported
<1> HIDE DEF head, debt
<1>7. /\ rev = [x \in RevisionFields |-> rev[x]] /\ rev.candidate = c /\ rev.impl = head.impl
      /\ rev.version = 2 /\ rev.debt = debt /\ rev.chain = head.chain
      /\ rev.status = "Unsupported" /\ rev.state = "Speculative" /\ rev.fallback = head.fallback
      /\ rev.frontier = head.frontier
  <2> DEFINE step == [head EXCEPT !.debt = debt, !.status = "Unsupported", !.state = "Speculative"]
  <2>1. rev = [step EXCEPT !.base = base, !.version = 2]
    BY <1>6
  <2>2. /\ step = [x \in RevisionFields |-> step[x]] /\ step.candidate = c
        /\ step.impl = head.impl /\ step.debt = debt /\ step.chain = head.chain
        /\ step.status = "Unsupported" /\ step.state = "Speculative"
        /\ step.fallback = head.fallback /\ step.frontier = head.frontier
    BY <1>1 DEF RevisionFields
  <2> HIDE DEF step
  <2>3. /\ rev = [x \in RevisionFields |-> rev[x]] /\ rev.version = 2
        /\ rev.candidate = step.candidate /\ rev.impl = step.impl /\ rev.debt = step.debt
        /\ rev.chain = step.chain /\ rev.status = step.status /\ rev.state = step.state
        /\ rev.fallback = step.fallback /\ rev.frontier = step.frontier
    BY <2>1, <2>2 DEF RevisionFields
  <2> QED
    BY <2>2, <2>3
<1>8. Guards(head.debt) => Guards(debt)
  BY <1>2, <1>3 DEF Guards
<1>9. Refutes(head.debt) => Refutes(debt)
  BY <1>2, <1>3 DEF Refutes
<1>10. ~Refutes(debt)
  <2>1. rev.version # 1
    BY <1>7
  <2> QED
    BY <1>4, <1>7, <2>1, NotRefuted
<1>11. head.state # "Rejected"
  BY <1>1, <1>5, <1>9, <1>10 DEF SoundRevision, StatusAgrees
<1>12. IsRevision(rev) /\ DebtAgrees(f, rev)
  <2>1. IsRevision(rev)
    BY <1>1, <1>3, <1>7 DEF IsRevision
  <2>2. DebtAgrees(f, head)
    BY <1>1 DEF SoundRevision
  <2>3. DebtAgrees(f, rev)
    BY <1>3, <1>7, <2>2 DEF DebtAgrees
  <2> QED
    BY <2>1, <2>3
<1>13. StatusAgrees(rev)
  <2>1. ~AllProved(head.debt)
    BY <1>2 DEF AllProved
  <2>2. head.debt[Len(head.debt)].after = head.impl
    BY <1>1, <1>4, <2>1 DEF SoundRevision, StatusAgrees
  <2>3. rev.debt[Len(rev.debt)].after = rev.impl
    BY <1>3, <1>4, <1>7, <2>2
  <2>4. rev.version # 1
    BY <1>7
  <2> QED
    BY <1>7, <2>3, <2>4 DEF StatusAgrees
<1>14. ChainIsExact(rev)
  <2>1. ChainIsExact(head)
    BY <1>1 DEF SoundRevision
  <2> QED
    BY <1>7, <1>8, <1>9, <2>1 DEF ChainIsExact
<1>15. GuardIsExact(f, rev)
  <2> SUFFICES ASSUME HasGuard(head) PROVE GuardIsExact(f, rev)
    BY <1>7 DEF GuardIsExact, HasGuard
  <2>1. /\ head.debt # <<>> /\ head.debt[1].status = "Guarded"
        /\ head.fallback.revision \in Revisions(f)
        /\ AllProved(f.revisions[head.fallback.revision].debt)
        /\ f.revisions[head.fallback.revision].impl = head.debt[1].before
        /\ \A x \in head.fallback.nonZero :
               Meaning[head.debt[1].before][x] = Meaning[head.debt[1].after][x]
    BY <1>1 DEF SoundRevision, GuardIsExact
  <2>2. 1 # i
    BY <1>2, <2>1
  <2>3. 1 \in DOMAIN head.debt
    BY <1>4, Len(head.debt) \in Nat, DOMAIN head.debt = 1..Len(head.debt)
  <2>4. /\ rev.debt[1].before = head.debt[1].before /\ rev.debt[1].after = head.debt[1].after
        /\ rev.debt[1].status = "Guarded" /\ rev.debt # <<>> /\ rev.fallback = head.fallback
    BY <1>3, <1>4, <1>7, <2>1, <2>2, <2>3
  <2> QED
    BY <2>1, <2>4 DEF GuardIsExact
<1>16. FrontierFollows(rev)
  <2>1. Unsettled(debt) = Unsettled(head.debt)
    BY <1>2, <1>3 DEF Unsettled
  <2>2. FrontierFollows(head) /\ Unsettled(head.debt) \subseteq DOMAIN head.debt
    BY <1>1 DEF SoundRevision, Unsettled
  <2> QED
    BY <1>3, <1>7, <1>11, <2>1, <2>2 DEF FrontierFollows
<1>17. SoundRevision(f, rev)
  BY <1>12, <1>13, <1>14, <1>15, <1>16 DEF SoundRevision
<1> QED
  BY <1>7, <1>17, RevisionKeeps

LEMMA TranslateKeeps ==
    ASSUME NEW f, FInv(f), NEW c \in Candidates(f), NEW i \in DOMAIN HeadOf(f, c).debt,
           CanTranslate(f, c, i), Checks(Translated(f, c, i))
    PROVE  FInv(Translated(f, c, i)) /\ Carries(f, Translated(f, c, i))
<1> DEFINE item == HeadOf(f, c).debt[i]
           proposal == f.proposals[item.proposal]
           class == Classification(proposal.before, proposal.after)
           made == CASE class = "Legal" -> ByRule(f, c, i)
                     [] class = "Conditional" -> ByGuard(f, c, i)
                     [] OTHER -> Unsupported(f, c, i)
           base == f.candidates[c].head
           rev == [made EXCEPT !.base = base, !.version = 2]
           event == Event("translate", <<c, f.candidates[c].head, i>>)
<1>1. Translated(f, c, i) = WithRevision(f, c, rev, event)
  BY DEF Translated
<1>2. class = Classification(item.before, item.after)
  BY ItemProposed
<1> HIDE DEF event, base, class
<1>3. CASE class = "Legal"
  <2>1. rev = [ByRule(f, c, i) EXCEPT !.base = base, !.version = 2]
    BY <1>3
  <2> HIDE DEF rev
  <2> QED
    BY <1>1, <1>2, <1>3, <2>1, RuleKeeps
<1>4. CASE class = "Conditional"
  <2>1. rev = [ByGuard(f, c, i) EXCEPT !.base = base, !.version = 2]
    BY <1>4
  <2> HIDE DEF rev
  <2> QED
    BY <1>1, <1>2, <1>4, <2>1, GuardKeeps
<1>5. CASE class \notin {"Legal", "Conditional"}
  <2>1. rev = [Unsupported(f, c, i) EXCEPT !.base = base, !.version = 2]
    BY <1>5
  <2> HIDE DEF rev
  <2> QED
    BY <1>1, <2>1, UnsupportedKeeps
<1> QED
  BY <1>3, <1>4, <1>5

\* A branch grows by a proposal.
LEMMA ProposeKeeps ==
    ASSUME NEW f, FInv(f), NEW c \in Candidates(f), NEW after,
           CanPropose(f, c, after), Checks(Proposed(f, c, after))
    PROVE  FInv(Proposed(f, c, after)) /\ Carries(f, Proposed(f, c, after))
<1> DEFINE head == HeadOf(f, c)
           p == Len(f.proposals) + 1
           n == Len(head.debt) + 1
           origin == [candidate |-> c, base |-> f.candidates[c].head,
                      accepted |-> NextId(f.revisions), before |-> head.impl, after |-> after]
           item == Debt(p, head.impl, after)
           behind == [candidate |-> c, revision |-> f.candidates[c].head, terminal |-> head.impl]
           frontier == IF head.frontier.revision = None THEN behind ELSE head.frontier
           base == f.candidates[c].head
           debt == Append(head.debt, item)
           g == [f EXCEPT !.proposals = Append(@, origin)]
           rev == [head EXCEPT !.base = f.candidates[c].head, !.impl = after, !.version = 2,
                               !.state = "Speculative", !.status = "Open",
                               !.frontier = IF @.revision = None THEN behind ELSE @,
                               !.debt = Append(@, Debt(NextId(f.proposals), head.impl, after))]
           event == Event("propose", <<c, f.candidates[c].head, after>>)
<1>1. Proposed(f, c, after) = WithRevision(g, c, rev, event)
  BY DEF Proposed
<1>2. /\ SoundRevision(f, head) /\ head = [x \in RevisionFields |-> head[x]] /\ head.candidate = c
      /\ head.debt \in Seq(Items) /\ head.impl \in Impls /\ head.chain \in Seq(Links)
      /\ base \in Revisions(f) /\ head = f.revisions[base] /\ IsLog(f.proposals)
  BY DEF FInv, HeadOf, SoundRevision, IsRevision
<1>3. after \in Impls /\ head.state \notin {"Sealed", "Rejected"}
  BY <1>2, ImplAssumption DEF CanPropose
<1>4. Classification(head.impl, after) = "Conditional" => head.debt = <<>>
  BY DEF CanPropose
<1>5. SoundProposal(f, origin)
  BY <1>2, <1>3 DEF SoundProposal
<1> HIDE DEF event
<1>6. FInv(g) /\ Carries(f, g)
  <2> HIDE DEF origin
  <2> QED
    BY <1>5, ProposalKeeps
<1>7. /\ HeadOf(g, c) = head /\ Candidates(g) = Candidates(f) /\ Revisions(g) = Revisions(f)
      /\ p \in DOMAIN g.proposals /\ g.proposals[p] = origin
  <2>1. /\ g.revisions = f.revisions /\ g.proposals = Append(f.proposals, origin)
        /\ g.candidates = f.candidates
    BY DEF FInv, ForestFields
  <2> HIDE DEF g, origin
  <2>2. Extends(f.proposals, g.proposals, origin)
    BY <1>2, <2>1, AppendFacts
  <2> QED
    BY <2>1, <2>2 DEF Extends, HeadOf, Candidates, Revisions
<1>8. /\ origin.before = head.impl /\ origin.after = after
      /\ item \in Items /\ item.proposal = p /\ item.before = head.impl /\ item.after = after
      /\ item.status = "Open"
  <2>1. p \in Nat
    BY <1>2, LogFacts
  <2> QED
    BY <1>2, <1>3, <2>1 DEF Items, Debt, Statuses
<1>9. behind.terminal = head.impl
  OBVIOUS
<1>10. /\ rev = [x \in RevisionFields |-> rev[x]] /\ rev.candidate = c /\ rev.impl = after
       /\ rev.version = 2 /\ rev.debt = debt /\ rev.chain = head.chain
       /\ rev.status = "Open" /\ rev.state = "Speculative" /\ rev.fallback = head.fallback
       /\ rev.frontier = frontier
  <2> HIDE DEF behind, head
  <2> QED
    BY <1>2 DEF RevisionFields, NextId
<1> HIDE DEF head, g, origin, item, behind, rev, p
<1>11. /\ debt \in Seq(Items) /\ Len(debt) = n /\ DOMAIN debt = DOMAIN head.debt \cup {n}
       /\ debt[n] = item /\ \A i \in DOMAIN head.debt : debt[i] = head.debt[i] /\ i # n
       /\ DOMAIN head.debt = 1 .. Len(head.debt) /\ Len(head.debt) \in Nat
  <2> DEFINE old == head.debt
  <2>1. old \in Seq(Items) /\ item \in Items
    BY <1>2, <1>8
  <2> HIDE DEF old
  <2>2. /\ Append(old, item) \in Seq(Items) /\ Len(old) \in Nat /\ DOMAIN old = 1 .. Len(old)
        /\ Len(Append(old, item)) = Len(old) + 1
        /\ DOMAIN Append(old, item) = DOMAIN old \cup {Len(old) + 1}
        /\ Append(old, item)[Len(old) + 1] = item
        /\ \A i \in DOMAIN old : Append(old, item)[i] = old[i] /\ i # Len(old) + 1
    BY <2>1, SeqFacts
  <2> QED
    BY <2>2 DEF old
<1> HIDE DEF debt, n
<1>12. SoundRevision(g, head)
  BY <1>2, <1>6, SoundStays
<1>13. IsRevision(rev)
  BY <1>2, <1>3, <1>10, <1>11 DEF IsRevision
<1>14. DebtAgrees(g, rev)
  <2> SUFFICES ASSUME NEW i \in DOMAIN debt
               PROVE  LET q == debt[i].proposal
                      IN /\ q \in DOMAIN g.proposals
                         /\ g.proposals[q].before = debt[i].before
                         /\ g.proposals[q].after = debt[i].after
                         /\ Classification(debt[i].before, debt[i].after) = "Conditional" => i = 1
    BY <1>10 DEF DebtAgrees
  <2>1. CASE i \in DOMAIN head.debt
    BY <1>11, <1>12, <2>1 DEF SoundRevision, DebtAgrees
  <2>2. CASE i = n
    <3>1. debt[i] = item
      BY <1>11, <2>2
    <3>2. Classification(head.impl, after) = "Conditional" => i = 1
      BY <1>4, <2>2 DEF n
    <3> QED
      BY <1>7, <1>8, <3>1, <3>2
  <2> QED
    BY <1>11, <2>1, <2>2
<1>15. StatusAgrees(rev)
  <2>1. rev.debt[Len(rev.debt)].after = rev.impl
    BY <1>8, <1>10, <1>11
  <2>2. rev.version # 1
    BY <1>10
  <2> QED
    BY <1>10, <2>1, <2>2 DEF StatusAgrees
<1>16. ChainIsExact(rev)
  <2>1. Guards(head.debt) => Guards(debt)
    BY <1>11 DEF Guards
  <2>2. Refutes(head.debt) => Refutes(debt)
    BY <1>11 DEF Refutes
  <2> QED
    BY <1>2, <1>10, <2>1, <2>2 DEF SoundRevision, ChainIsExact
<1>17. GuardIsExact(g, rev)
  <2> SUFFICES ASSUME HasGuard(head) PROVE GuardIsExact(g, rev)
    BY <1>10 DEF GuardIsExact, HasGuard
  <2>1. /\ head.debt # <<>> /\ head.debt[1].status = "Guarded"
        /\ head.fallback.revision \in Revisions(g)
        /\ AllProved(g.revisions[head.fallback.revision].debt)
        /\ g.revisions[head.fallback.revision].impl = head.debt[1].before
        /\ \A x \in head.fallback.nonZero :
               Meaning[head.debt[1].before][x] = Meaning[head.debt[1].after][x]
    BY <1>12 DEF SoundRevision, GuardIsExact
  <2>2. 1 \in DOMAIN head.debt
    BY <1>2, <2>1
  <2>3. debt[1] = head.debt[1] /\ debt # <<>>
    BY <1>11, <2>2
  <2> QED
    BY <1>10, <2>1, <2>3 DEF GuardIsExact
<1>18. FrontierFollows(rev)
  <2>1. Unsettled(debt) = Unsettled(head.debt) \cup {n}
    BY <1>8, <1>11 DEF Unsettled
  <2>2. Unsettled(head.debt) \subseteq DOMAIN head.debt
    BY DEF Unsettled
  <2> SUFFICES ASSUME NEW i \in Unsettled(debt), \A j \in Unsettled(debt) : i <= j
               PROVE  frontier.terminal = debt[i].before
    BY <1>10, <2>1 DEF FrontierFollows
  <2>3. CASE Unsettled(head.debt) = {}
    <3>1. debt[i].before = head.impl
      BY <1>8, <1>11, <2>1, <2>3
    <3>2. CASE head.frontier.revision = None
      BY <1>9, <3>1, <3>2
    <3>3. CASE head.frontier.revision # None
      BY <1>2, <1>3, <2>3, <3>1, <3>3 DEF SoundRevision, FrontierFollows
    <3> QED
      BY <3>2, <3>3
  <2>4. CASE Unsettled(head.debt) # {}
    <3>1. i \in Unsettled(head.debt)
      <4>1. PICK m \in Unsettled(head.debt) : TRUE
        BY <2>4
      <4>2. m \in 1 .. Len(head.debt) /\ i <= m /\ n = Len(head.debt) + 1
        BY <1>11, <2>1, <2>2, <4>1 DEF n
      <4>3. i # n
        BY <1>11, <4>2
      <4> QED
        BY <2>1, <4>3
    <3>2. \A j \in Unsettled(head.debt) : i <= j
      BY <2>1
    <3>3. head.frontier.revision # None
      <4>1. head.debt # <<>>
        BY <2>2, <3>1
      <4>2. head.frontier.revision \in Revisions(f)
        BY <4>1, DebtOrdered DEF head
      <4>3. DOMAIN f.revisions = 1 .. Len(f.revisions) /\ Len(f.revisions) \in Nat
        BY LogFacts DEF FInv
      <4> QED
        BY <4>2, <4>3 DEF Revisions, None
    <3>4. head.frontier.terminal = head.debt[i].before
      BY <1>2, <1>3, <3>1, <3>2, <3>3 DEF SoundRevision, FrontierFollows
    <3>5. debt[i] = head.debt[i]
      BY <1>11, <2>2, <3>1
    <3> QED
      BY <3>3, <3>4, <3>5
  <2> QED
    BY <2>3, <2>4
<1>19. SoundRevision(g, rev)
  BY <1>13, <1>14, <1>15, <1>16, <1>17, <1>18 DEF SoundRevision
<1>20. FInv(WithRevision(g, c, rev, event)) /\ Carries(g, WithRevision(g, c, rev, event))
  <2>1. c \in Candidates(g) /\ Checks(WithRevision(g, c, rev, event))
    BY <1>1, <1>7
  <2> QED
    BY <1>6, <1>10, <1>19, <2>1, RevisionKeeps
<1> QED
  BY <1>1, <1>6, <1>20, CarriesOn

\* A branch's head is validated.
LEMMA ValidateKeeps ==
    ASSUME NEW f, FInv(f), NEW c \in Candidates(f), NEW passed \in BOOLEAN,
           CanValidate(f, c, passed), Checks(Validated(f, c, passed))
    PROVE  FInv(Validated(f, c, passed)) /\ Carries(f, Validated(f, c, passed))
<1> DEFINE head == HeadOf(f, c)
           base == f.candidates[c].head
           made == IF passed THEN head ELSE Refuted(head)
           rev == [made EXCEPT !.base = base]
           event == Event("validate", <<c, f.candidates[c].head, passed>>)
           k == FirstUnresolved(head.debt)
           debt == Settled(head.debt, k, "Refuted")
<1>1. Validated(f, c, passed) = WithRevision(f, c, rev, event)
  BY DEF Validated
<1>2. /\ SoundRevision(f, head) /\ head = [x \in RevisionFields |-> head[x]] /\ head.candidate = c
      /\ head.debt \in Seq(Items) /\ head.impl \in Impls /\ head.chain \in Seq(Links)
  BY DEF FInv, HeadOf, SoundRevision, IsRevision
<1>3. head.state = "Sealed" => IsSettled(head.debt)
  BY <1>2 DEF SoundRevision, StatusAgrees
<1>4. ~passed /\ head.version # 1 => Unresolved(head.debt) # {}
  BY DEF CanValidate
<1> HIDE DEF event, base
<1>5. CASE passed
  <2>1. /\ rev = [x \in RevisionFields |-> rev[x]] /\ rev.candidate = head.candidate
        /\ rev.impl = head.impl
        /\ rev.version = head.version /\ rev.status = head.status /\ rev.chain = head.chain
        /\ rev.frontier = head.frontier /\ rev.debt = head.debt /\ rev.fallback = head.fallback
        /\ rev.state = head.state
    BY <1>2, <1>5 DEF RevisionFields
  <2> HIDE DEF rev, head
  <2>2. SoundRevision(f, rev)
    BY <1>2, <1>3, <2>1, SameIsSound
  <2> QED
    BY <1>1, <1>2, <2>1, <2>2, RevisionKeeps
<1>6. CASE ~passed /\ head.version = 1
  <2>1. made = [head EXCEPT !.state = "Rejected"]
    BY <1>6 DEF Refuted
  <2> HIDE DEF head, made
  <2>2. /\ rev = [x \in RevisionFields |-> rev[x]] /\ rev.candidate = head.candidate
        /\ rev.impl = head.impl
        /\ rev.version = head.version /\ rev.status = head.status /\ rev.chain = head.chain
        /\ rev.frontier = head.frontier /\ rev.debt = head.debt /\ rev.fallback = head.fallback
        /\ rev.state = "Rejected"
    BY <1>2, <2>1 DEF RevisionFields
  <2> HIDE DEF rev
  <2>3. SoundRevision(f, rev)
    BY <1>2, <1>6, <2>2, SameIsSound
  <2> QED
    BY <1>1, <1>2, <2>2, <2>3, RevisionKeeps
<1>7. CASE ~passed /\ head.version # 1
  <2>1. k \in DOMAIN head.debt /\ head.debt[k].status \in {"Open", "Unsupported", "Guarded"}
    <3> DEFINE S == Unresolved(head.debt)
    <3>1. S # {} /\ S \subseteq Nat
      <4>1. DOMAIN head.debt \subseteq Nat
        BY <1>2
      <4> QED
        BY <1>4, <1>7, <4>1 DEF Unresolved
    <3>2. k = CHOOSE m \in S : \A j \in S : m <= j
      BY DEF FirstUnresolved
    <3> HIDE DEF S, k
    <3>3. \E m \in S : \A j \in S : m <= j
      BY <3>1, LeastIs
    <3>4. k \in S
      BY <3>2, <3>3
    <3> QED
      BY <3>4 DEF S, Unresolved
  <2>2. made = [head EXCEPT !.state = "Rejected", !.status = "Refuted", !.fallback = NoFallback,
                            !.debt = debt]
    BY <1>7 DEF Refuted
  <2> HIDE DEF head, k
  <2>3. /\ debt \in Seq(Items) /\ DOMAIN debt = DOMAIN head.debt /\ Len(debt) = Len(head.debt)
        /\ \A j \in DOMAIN head.debt :
              /\ debt[j].proposal = head.debt[j].proposal /\ debt[j].before = head.debt[j].before
              /\ debt[j].after = head.debt[j].after
              /\ debt[j].status = IF j = k THEN "Refuted" ELSE head.debt[j].status
    <3> DEFINE old == head.debt
               status == "Refuted"
    <3>1. old \in Seq(Items) /\ k \in DOMAIN old /\ status \in Statuses
      BY <1>2, <2>1 DEF Statuses
    <3> HIDE DEF old, status
    <3>2. LET new == Settled(old, k, status)
          IN /\ new \in Seq(Items) /\ Len(new) = Len(old) /\ DOMAIN new = DOMAIN old
             /\ \A j \in DOMAIN old :
                   /\ new[j].proposal = old[j].proposal /\ new[j].before = old[j].before
                   /\ new[j].after = old[j].after
                   /\ new[j].status = IF j = k THEN status ELSE old[j].status
      BY <3>1, SettledFacts
    <3> QED
      BY <3>2 DEF old, status
  <2> HIDE DEF debt
  <2>4. /\ rev = [x \in RevisionFields |-> rev[x]] /\ rev.candidate = c /\ rev.impl = head.impl
        /\ rev.version = head.version /\ rev.debt = debt /\ rev.chain = head.chain
        /\ rev.status = "Refuted" /\ rev.state = "Rejected" /\ rev.fallback = NoFallback
    <3> HIDE DEF made
    <3>1. /\ made = [x \in RevisionFields |-> made[x]] /\ made.candidate = c
          /\ made.impl = head.impl
          /\ made.version = head.version /\ made.debt = debt /\ made.chain = head.chain
          /\ made.status = "Refuted" /\ made.state = "Rejected" /\ made.fallback = NoFallback
      BY <1>2, <2>2 DEF RevisionFields
    <3> QED
      BY <3>1 DEF RevisionFields
  <2> HIDE DEF rev
  <2>5. IsRevision(rev)
    BY <1>2, <2>3, <2>4 DEF IsRevision
  <2>6. DebtAgrees(f, rev)
    <3>1. DebtAgrees(f, head)
      BY <1>2 DEF SoundRevision
    <3> QED
      BY <2>3, <2>4, <3>1 DEF DebtAgrees
  <2>7. Refutes(rev.debt)
    BY <2>1, <2>3, <2>4 DEF Refutes
  <2>8. StatusAgrees(rev)
    <3>1. ~AllProved(head.debt) /\ head.debt # <<>> /\ Len(head.debt) \in DOMAIN head.debt
      <4>1. ~AllProved(head.debt)
        BY <2>1 DEF AllProved
      <4> QED
        BY <1>2, <2>1, <4>1
    <3>2. head.debt[Len(head.debt)].after = head.impl
      BY <1>2, <3>1 DEF SoundRevision, StatusAgrees
    <3>3. rev.debt[Len(rev.debt)].after = rev.impl
      BY <2>3, <2>4, <3>1, <3>2
    <3> QED
      BY <1>7, <2>4, <2>7, <3>3 DEF StatusAgrees
  <2>9. ChainIsExact(rev) /\ GuardIsExact(f, rev) /\ FrontierFollows(rev)
    BY <2>4, <2>7 DEF ChainIsExact, GuardIsExact, HasGuard, NoFallback, FrontierFollows
  <2>10. SoundRevision(f, rev)
    BY <2>5, <2>6, <2>8, <2>9 DEF SoundRevision
  <2> QED
    BY <1>1, <2>4, <2>10, RevisionKeeps
<1> QED
  BY <1>5, <1>6, <1>7

\* The log of a forest is nothing the others depend on.
LEMMA LogAside ==
    ASSUME NEW f, FInv(f), NEW g, g = [x \in ForestFields |-> g[x]],
           g.revisions = f.revisions, g.proposals = f.proposals, g.candidates = f.candidates,
           IsLog(g.events)
    PROVE  FInv(g) /\ Carries(f, g)
<1>1. Carries(f, g)
  BY DEF Carries, Revisions
<1>2. \A r \in Revisions(g) : SoundRevision(g, g.revisions[r]) /\ Verified(g, r)
  BY <1>1, SoundStays, VerifiedStays DEF FInv, Revisions
<1>3. \A i \in DOMAIN g.proposals : SoundProposal(g, g.proposals[i])
  BY <1>1, ProposalStays DEF FInv
<1>4. \A d \in Candidates(g) : g.candidates[d].head \in Revisions(g) /\ HeadOf(g, d).candidate = d
  BY DEF FInv, Candidates, Revisions, HeadOf
<1>5. FInv(g)
  BY <1>2, <1>3, <1>4 DEF FInv
<1> QED
  BY <1>1, <1>5

\* An item is discharged by a member of a space.
LEMMA MembershipKeeps ==
    ASSUME NEW f, FInv(f), NEW c \in Candidates(f), NEW i \in DOMAIN HeadOf(f, c).debt,
           HeadOf(f, c).debt[i].status \in {"Open", "Unsupported"}, IsNext(HeadOf(f, c).debt, i),
           Meaning[HeadOf(f, c).debt[i].before] = Meaning[HeadOf(f, c).debt[i].after],
           Checks(DischargedForest(f, c, i))
    PROVE  FInv(DischargedForest(f, c, i)) /\ Carries(f, DischargedForest(f, c, i))
<1> DEFINE head == HeadOf(f, c)
           made == Discharged(head, i, "membership")
           rev == ByMembership(f, c, i)
           event == Event("discharge", <<>>)
           g == WithRevision(f, c, rev, event)
           frontier == [candidate |-> c,
                        revision |-> IF AllProved(made.debt) THEN NextId(f.revisions)
                                     ELSE f.proposals[made.debt[i].proposal].accepted,
                        terminal |-> made.debt[i].after]
           byEquality == made.byEquality \cup {made.debt[i].proposal}
           base == f.candidates[c].head
<1>1. DischargedForest(f, c, i) = [g EXCEPT !.events = f.events]
  BY DEF DischargedForest
<1>2. rev = [made EXCEPT !.base = base, !.version = 3, !.byEquality = byEquality,
                         !.frontier = frontier]
  BY DEF ByMembership
<1>3. /\ g = [x \in ForestFields |-> g[x]] /\ IsLog(f.events)
  <2> HIDE DEF rev, event
  <2>1. g = [x \in ForestFields |-> g[x]]
    BY RevisionAdded
  <2> QED
    BY <2>1 DEF FInv
<1> DEFINE h == [g EXCEPT !.events = f.events]
<1>4. /\ h = [x \in ForestFields |-> h[x]] /\ h.events = f.events
      /\ h.revisions = g.revisions /\ h.proposals = g.proposals /\ h.candidates = g.candidates
  <2> HIDE DEF g
  <2> QED
    BY <1>3 DEF ForestFields
<1>5. IsDischarged(f, c, i, "membership", made)
  BY DischargedIs
<1> HIDE DEF event, base, byEquality, made
<1>6. /\ made = [x \in RevisionFields |-> made[x]] /\ made.debt[i].after = head.debt[i].after
  BY <1>5 DEF IsDischarged
<1>7. frontier.terminal = head.debt[i].after
  BY <1>6
<1> HIDE DEF frontier, rev
<1>8. /\ rev = [x \in RevisionFields |-> rev[x]] /\ rev.version = 3
      /\ rev.candidate = made.candidate /\ rev.impl = made.impl /\ rev.debt = made.debt
      /\ rev.chain = made.chain /\ rev.status = made.status /\ rev.state = made.state
      /\ rev.fallback = made.fallback /\ rev.frontier = frontier
  BY <1>2, <1>6 DEF RevisionFields
<1>9. rev.version # 1
  BY <1>8
<1>10. Discharges(f, c, i, "membership", rev)
  BY <1>7, <1>8, <1>9 DEF Discharges, Rules, made
<1>11. Checks(g)
  <2>1. Checks(h)
    BY <1>1
  <2> HIDE DEF g, h
  <2> QED
    BY <1>4, <2>1 DEF Checks, Verified, DebtVerified, FallbackVerified, Revisions
<1>12. FInv(g) /\ Carries(f, g)
  BY <1>10, <1>11, DischargeKeeps
<1> HIDE DEF g, h
<1>13. FInv(h) /\ Carries(g, h)
  BY <1>3, <1>4, <1>12, LogAside
<1>14. Carries(f, h)
  BY <1>12, <1>13, CarriesOn
<1> QED
  BY <1>1, <1>13, <1>14 DEF h

---------------------------------------------------------------------------
\* The spaces: what their expansion adds is exact, and reached from the root.
LEMMA RewriteIsGood ==
    ASSUME NEW p \in Good, NEW q \in Rewrites(p)
    PROVE  q \in Good
<1>1. Matches[p] \in Seq(Impls) /\ p \in Impls
  BY ImplAssumption DEF Good
<1>2. q \in Impls
  BY <1>1 DEF Rewrites, ToSet
<1> QED
  BY <1>1, <1>2, RulesAreExact DEF Good

LEMMA MatchKeeps ==
    ASSUME NEW about, NEW n, NEW m, NEW rev, MatchHolds(about, n, rev),
           NEW i \in DOMAIN Matches[about.program]
    PROVE  MatchHolds(about, m, Match(rev, about.node, i))
<1> DEFINE node == about.node
           p == Matches[about.program][i]
           new == Len(rev.nodes) + 1
<1>1. /\ SoundSpace(about.root, rev) /\ node \in DOMAIN rev.nodes
      /\ rev.nodes[node] = about.program
  BY DEF MatchHolds
<1>2. /\ rev = [x \in SpaceFields |-> rev[x]] /\ rev.nodes \in Seq(Good) /\ rev.nodes # <<>>
      /\ rev.nodes[1] = about.root /\ Len(rev.nodes) \in Nat
      /\ DOMAIN rev.nodes = 1 .. Len(rev.nodes)
  BY <1>1 DEF SoundSpace
<1>3. p \in Rewrites(about.program) /\ about.program \in Good
  <2>1. about.program \in Good
    BY <1>1, <1>2
  <2>2. p \in Rewrites(about.program)
    BY DEF Rewrites, ToSet
  <2> QED
    BY <2>1, <2>2
<1>4. p \in Good
  BY <1>3, RewriteIsGood
<1>5. CASE p = rev.nodes[node]
  <2>1. Match(rev, node, i) = rev
    BY <1>1, <1>5 DEF Match
  <2> QED
    BY <1>1, <2>1 DEF MatchHolds
<1>6. CASE p # rev.nodes[node] /\ p \in ToSet(rev.nodes)
  <2> DEFINE known == NodeOf(rev, p)
             edge == <<node, known, i>>
             made == [rev EXCEPT !.edges = @ \cup {edge}]
  <2>1. Match(rev, node, i) = made
    BY <1>1, <1>6 DEF Match
  <2>2. known \in DOMAIN rev.nodes /\ rev.nodes[known] = p
    <3>1. \E k \in DOMAIN rev.nodes : rev.nodes[k] = p
      BY <1>6 DEF ToSet
    <3> QED
      BY <3>1 DEF NodeOf
  <2> HIDE DEF known
  <2>3. edge[1] = node /\ edge[2] = known
    OBVIOUS
  <2> HIDE DEF edge
  <2>4. /\ made = [x \in SpaceFields |-> made[x]] /\ made.nodes = rev.nodes
        /\ made.edges = rev.edges \cup {edge} /\ made.work = rev.work
    BY <1>2 DEF SpaceFields
  <2> HIDE DEF made
  <2>5. SoundSpace(about.root, made)
    BY <1>1, <1>3, <2>2, <2>3, <2>4 DEF SoundSpace
  <2> QED
    BY <1>1, <2>1, <2>4, <2>5 DEF MatchHolds
<1>7. CASE p # rev.nodes[node] /\ p \notin ToSet(rev.nodes)
  <2> DEFINE edge == <<node, new, i>>
             nodes == Append(rev.nodes, p)
             made == [rev EXCEPT !.nodes = nodes, !.edges = @ \cup {edge}, !.work = @ \cup {new}]
  <2>1. Match(rev, node, i) = made
    BY <1>1, <1>7 DEF Match
  <2>2. edge[1] = node /\ edge[2] = new
    OBVIOUS
  <2>3. /\ nodes \in Seq(Good) /\ Len(nodes) = new /\ DOMAIN nodes = DOMAIN rev.nodes \cup {new}
        /\ nodes[new] = p /\ \A k \in DOMAIN rev.nodes : nodes[k] = rev.nodes[k] /\ k # new
    <3> DEFINE old == rev.nodes
    <3>1. old \in Seq(Good)
      BY <1>2
    <3> HIDE DEF p
    <3>2. p \in Good
      BY <1>4
    <3> HIDE DEF old
    <3>3. /\ Append(old, p) \in Seq(Good) /\ Len(Append(old, p)) = Len(old) + 1
          /\ DOMAIN Append(old, p) = DOMAIN old \cup {Len(old) + 1}
          /\ Append(old, p)[Len(old) + 1] = p
          /\ \A k \in DOMAIN old : Append(old, p)[k] = old[k] /\ k # Len(old) + 1
      BY <3>1, <3>2, SeqFacts
    <3> QED
      BY <3>3 DEF old
  <2> HIDE DEF nodes, edge, p
  <2>4. /\ made = [x \in SpaceFields |-> made[x]] /\ made.nodes = nodes
        /\ made.edges = rev.edges \cup {edge} /\ made.work = rev.work \cup {new}
    BY <1>2 DEF SpaceFields
  <2> HIDE DEF made
  <2>5. node \in DOMAIN nodes /\ nodes[node] = about.program
    BY <1>1, <2>3
  <2>6. nodes # <<>> /\ nodes[1] = about.root
    <3>1. 1 \in DOMAIN rev.nodes
      BY <1>2
    <3>2. nodes[1] = about.root /\ 1 \in DOMAIN nodes
      BY <1>2, <2>3, <3>1
    <3> QED
      BY <3>2
  <2>7. ASSUME NEW e \in made.edges
        PROVE  /\ e[1] \in DOMAIN nodes /\ e[2] \in DOMAIN nodes
               /\ nodes[e[2]] \in Rewrites(nodes[e[1]])
    <3>1. CASE e \in rev.edges
      BY <1>1, <2>3, <3>1 DEF SoundSpace
    <3>2. CASE e = edge
      BY <1>3, <2>2, <2>3, <2>5, <3>2
    <3> QED
      BY <2>4, <3>1, <3>2
  <2>8. ASSUME NEW k \in DOMAIN nodes, k # 1 PROVE \E e \in made.edges : e[2] = k /\ e[1] < k
    <3>1. CASE k \in DOMAIN rev.nodes
      <4>1. \E e \in rev.edges : e[2] = k /\ e[1] < k
        BY <1>1, <2>8, <3>1 DEF SoundSpace
      <4> QED
        BY <2>4, <4>1
    <3>2. CASE k = new
      <4>1. node < new
        BY <1>1, <1>2
      <4> QED
        BY <2>2, <2>4, <3>2, <4>1
    <3> QED
      BY <2>3, <3>1, <3>2
  <2>9. made.work \subseteq DOMAIN nodes
    BY <1>1, <2>3, <2>4 DEF SoundSpace
  <2>10. SoundSpace(about.root, made)
    BY <2>3, <2>4, <2>6, <2>7, <2>8, <2>9 DEF SoundSpace
  <2> QED
    BY <2>1, <2>4, <2>5, <2>10 DEF MatchHolds
<1> QED
  BY <1>5, <1>6, <1>7

LEMMA NodeExpands ==
    ASSUME NEW root, NEW rev, SoundSpace(root, rev), NEW node \in DOMAIN rev.nodes
    PROVE  SoundSpace(root, ExpandNode(rev, node))
<1> DEFINE program == rev.nodes[node]
           about == [root |-> root, node |-> node, program |-> program]
           base == [rev EXCEPT !.work = @ \ {node}]
           seq == [i \in DOMAIN Matches[program] |-> i]
           n == Len(Matches[program])
<1>1. about.root = root /\ about.node = node /\ about.program = program
  OBVIOUS
<1>2. ExpandNode(rev, node) = Matching!Fold(node, base, seq)
  BY DEF ExpandNode, MatchOp, Matching!Fold, Matching!FoldLeft, FoldLeft,
     Matching!MapThenFoldSet, MapThenFoldSet, Matching!Max, Max
<1>3. program \in Impls
  BY DEF SoundSpace, Good
<1>4. n \in Nat /\ DOMAIN Matches[program] = 1 .. n
  <2>1. Matches[program] \in Seq(Impls)
    BY <1>3, ImplAssumption
  <2> QED
    BY <2>1
<1> HIDE DEF program, about, n
<1>5. DOMAIN seq = 1 .. n /\ \A i \in 1 .. n : seq[i] = i
  BY <1>4
<1>6. MatchHolds(about, 0, base)
  <2>1. /\ base = [x \in SpaceFields |-> base[x]] /\ base.nodes = rev.nodes
        /\ base.edges = rev.edges /\ base.work = rev.work \ {node}
    BY DEF SoundSpace, SpaceFields
  <2> HIDE DEF base
  <2>2. SoundSpace(root, base)
    BY <2>1 DEF SoundSpace
  <2> QED
    BY <1>1, <2>1, <2>2 DEF MatchHolds, program
<1> HIDE DEF base, seq
<1>7. ASSUME NEW i \in 1 .. n, NEW r, MatchHolds(about, i - 1, r)
      PROVE  MatchHolds(about, i, MatchOp(node, r, seq[i]))
  <2>1. i \in DOMAIN Matches[about.program]
    BY <1>1, <1>4
  <2>2. MatchHolds(about, i, Match(r, about.node, i))
    BY <1>7, <2>1, MatchKeeps
  <2> QED
    BY <1>1, <1>5, <2>2 DEF MatchOp
<1>8. Matching!Kept(about, node, base, seq, n)
  BY <1>6, <1>7 DEF Matching!Kept
<1>9. MatchHolds(about, n, Matching!Fold(node, base, seq))
  BY <1>4, <1>5, <1>8, Matching!FoldKeeps
<1> QED
  BY <1>1, <1>2, <1>9 DEF MatchHolds

\* The node expanded next is one of the space's.
LEMMA LeastWorks ==
    ASSUME NEW root, NEW rev, SoundSpace(root, rev), rev.work # {}
    PROVE  Least(rev.work) \in DOMAIN rev.nodes
<1>1. rev.work \subseteq Nat /\ rev.work \subseteq DOMAIN rev.nodes
  <2>1. DOMAIN rev.nodes \subseteq Nat
    BY DEF SoundSpace
  <2> QED
    BY <2>1 DEF SoundSpace
<1>2. \E m \in rev.work : \A k \in rev.work : m <= k
  BY <1>1, LeastIs
<1> QED
  BY <1>1, <1>2 DEF Least

LEMMA NextExpands ==
    ASSUME NEW root, NEW rev, SoundSpace(root, rev)
    PROVE  SoundSpace(root, ExpandNext(rev))
<1>1. CASE rev.work = {}
  BY <1>1 DEF ExpandNext
<1>2. CASE rev.work # {}
  BY <1>2, LeastWorks, NodeExpands DEF ExpandNext
<1> QED
  BY <1>1, <1>2

LEMMA ExpandedIsSound ==
    ASSUME NEW root, NEW rev, SoundSpace(root, rev), NEW fuel \in Nat
    PROVE  SoundSpace(root, Expanded(rev, fuel))
<1> DEFINE seq == [n \in 1 .. fuel |-> n]
           last == Expanding!Fold(0, rev, seq)
           status == IF last.work = {} THEN "FixedPoint" ELSE "FuelExhausted"
<1>1. Expanded(rev, fuel) = [last EXCEPT !.status = status]
  BY DEF Expanded, ExpandOp, Expanding!Fold, Expanding!FoldLeft, FoldLeft,
     Expanding!MapThenFoldSet, MapThenFoldSet, Expanding!Max, Max
<1>2. DOMAIN seq = 1 .. fuel
  OBVIOUS
<1> HIDE DEF seq
<1>3. Expanding!Kept(root, 0, rev, seq, fuel)
  BY NextExpands DEF Expanding!Kept, ExpandHolds, ExpandOp
<1>4. SoundSpace(root, last)
  BY <1>2, <1>3, Expanding!FoldKeeps DEF ExpandHolds
<1> HIDE DEF last, status
<1> DEFINE made == [last EXCEPT !.status = status]
<1>5. /\ made = [x \in SpaceFields |-> made[x]] /\ made.nodes = last.nodes
      /\ made.edges = last.edges /\ made.work = last.work
  BY <1>4 DEF SoundSpace, SpaceFields
<1> HIDE DEF made
<1>6. SoundSpace(root, made)
  BY <1>4, <1>5 DEF SoundSpace
<1> QED
  BY <1>1, <1>6 DEF made

LEMMA RootIsSound ==
    ASSUME NEW p \in Good
    PROVE  SoundSpace(p, Root(p))
<1> DEFINE rev == Root(p)
<1>1. /\ rev = [x \in SpaceFields |-> rev[x]] /\ rev.nodes = <<p>> /\ rev.edges = {}
      /\ rev.work = {1}
  BY DEF Root, SpaceFields
<1>2. <<p>> \in Seq(Good) /\ <<p>> # <<>> /\ DOMAIN <<p>> = {1} /\ <<p>>[1] = p
  OBVIOUS
<1> HIDE DEF rev
<1>3. SoundSpace(p, rev)
  BY <1>1, <1>2 DEF SoundSpace
<1> QED
  BY <1>3 DEF rev

---------------------------------------------------------------------------
\* Every member has an explanation: a path of rewrites from the root to it.
IsPath(rev, path, n, node) ==
    /\ path \in [1 .. n -> DOMAIN rev.nodes] /\ path[1] = 1 /\ path[n] = node
    /\ \A i \in 2 .. n : <<path[i - 1], path[i]>> \in Edges(rev)

LEMMA PathLength ==
    ASSUME NEW S, NEW n \in Nat, NEW path \in [1 .. n -> S]
    PROVE  Len(path) = n
<1>1. path = [i \in 1 .. n |-> path[i]] /\ \A i \in 1 .. n : path[i] \in S
  OBVIOUS
<1>2. Len([i \in 1 .. n |-> path[i]]) = n
  OBVIOUS
<1> QED
  BY <1>1, <1>2

LEMMA PathsAre ==
    ASSUME NEW root, NEW rev, SoundSpace(root, rev), NEW node
    PROVE  /\ \A n \in 1 .. Len(rev.nodes) : \A path :
                 IsPath(rev, path, n, node) => path \in Paths(rev, node)
           /\ \A path \in Paths(rev, node) :
                 /\ Len(path) \in 1 .. Len(rev.nodes)
                 /\ IsPath(rev, path, Len(path), node)
<1> DEFINE All == UNION {[1 .. n -> DOMAIN rev.nodes] : n \in 1 .. Len(rev.nodes)}
<1>1. \A n \in 1 .. Len(rev.nodes) : \A path \in [1 .. n -> DOMAIN rev.nodes] :
          Len(path) = n /\ path \in All
  BY PathLength
<1>2. ASSUME NEW path \in Paths(rev, node)
      PROVE  Len(path) \in 1 .. Len(rev.nodes) /\ IsPath(rev, path, Len(path), node)
  <2>1. /\ path \in All /\ path[1] = 1 /\ path[Len(path)] = node
        /\ \A i \in 2 .. Len(path) : <<path[i - 1], path[i]>> \in Edges(rev)
    BY DEF Paths
  <2>2. PICK n \in 1 .. Len(rev.nodes) : path \in [1 .. n -> DOMAIN rev.nodes]
    BY <2>1
  <2>3. Len(path) = n
    BY <2>2, PathLength
  <2> QED
    BY <2>1, <2>2, <2>3 DEF IsPath
<1>3. ASSUME NEW n \in 1 .. Len(rev.nodes), NEW path, IsPath(rev, path, n, node)
      PROVE  path \in Paths(rev, node)
  <2>1. Len(path) = n /\ path \in All
    BY <1>1, <1>3 DEF IsPath
  <2> HIDE DEF All
  <2>2. /\ path[1] = 1 /\ path[Len(path)] = node
        /\ \A i \in 2 .. Len(path) : <<path[i - 1], path[i]>> \in Edges(rev)
    BY <1>3, <2>1 DEF IsPath
  <2> QED
    BY <2>1, <2>2 DEF Paths, All
<1> QED
  BY <1>2, <1>3

LEMMA EveryMemberIsReached ==
    ASSUME NEW root, NEW rev, SoundSpace(root, rev), NEW node \in DOMAIN rev.nodes
    PROVE  \E n \in 1 .. node : \E path : IsPath(rev, path, n, node)
<1> DEFINE Reached(m) == \E n \in 1 .. m : \E path : IsPath(rev, path, n, m)
           Bad == {m \in DOMAIN rev.nodes : ~Reached(m)}
<1>1. DOMAIN rev.nodes = 1 .. Len(rev.nodes) /\ Len(rev.nodes) \in Nat
  BY DEF SoundSpace
<1>2. SUFFICES ASSUME Bad # {} PROVE FALSE
  OBVIOUS
<1>3. PICK m \in Bad : \A k \in Bad : m <= k
  <2>1. Bad \subseteq Nat
    BY <1>1
  <2> HIDE DEF Bad
  <2> QED
    BY <1>2, <2>1, LeastIs
<1>4. m \in DOMAIN rev.nodes /\ ~Reached(m) /\ m \in Nat /\ m >= 1
  BY <1>1
<1>5. m # 1
  <2> SUFFICES ASSUME m = 1 PROVE FALSE
    OBVIOUS
  <2> DEFINE path == [i \in 1 .. 1 |-> 1]
  <2>1. path \in [1 .. 1 -> DOMAIN rev.nodes] /\ path[1] = 1
    BY <1>4
  <2>2. 2 .. 1 = {}
    OBVIOUS
  <2> HIDE DEF path
  <2>3. IsPath(rev, path, 1, 1)
    BY <2>1, <2>2 DEF IsPath
  <2> QED
    BY <1>4, <2>3
<1>6. PICK e \in rev.edges : e[2] = m /\ e[1] < m
  BY <1>4, <1>5 DEF SoundSpace
<1>7. e[1] \in DOMAIN rev.nodes /\ <<e[1], m>> \in Edges(rev)
  BY <1>6 DEF SoundSpace, Edges
<1>8. e[1] \notin Bad
  BY <1>1, <1>3, <1>4, <1>6, <1>7
<1>9. Reached(e[1])
  BY <1>7, <1>8
<1>10. PICK n \in 1 .. e[1] : \E path : IsPath(rev, path, n, e[1])
  BY <1>9
<1>11. PICK path : IsPath(rev, path, n, e[1])
  BY <1>10
<1> DEFINE longer == [i \in 1 .. n + 1 |-> IF i = n + 1 THEN m ELSE path[i]]
<1>12. n \in Nat /\ n >= 1 /\ n + 1 \in 1 .. m
  BY <1>1, <1>4, <1>6, <1>7
<1>13. path \in [1 .. n -> DOMAIN rev.nodes] /\ path[1] = 1 /\ path[n] = e[1]
  BY <1>11 DEF IsPath
<1>14. /\ longer \in [1 .. n + 1 -> DOMAIN rev.nodes]
       /\ longer[1] = 1 /\ longer[n + 1] = m
       /\ \A i \in 1 .. n : longer[i] = path[i]
  <2>1. \A i \in 1 .. n + 1 : i = n + 1 \/ i \in 1 .. n
    BY <1>12
  <2> QED
    BY <1>4, <1>12, <1>13, <2>1
<1> HIDE DEF longer
<1>15. \A i \in 2 .. n + 1 : <<longer[i - 1], longer[i]>> \in Edges(rev)
  <2> SUFFICES ASSUME NEW i \in 2 .. n + 1 PROVE <<longer[i - 1], longer[i]>> \in Edges(rev)
    OBVIOUS
  <2>1. CASE i = n + 1
    <3>1. i - 1 = n /\ n \in 1 .. n
      BY <1>12, <2>1
    <3> QED
      BY <1>7, <1>13, <1>14, <2>1, <3>1
  <2>2. CASE i # n + 1
    <3>1. i \in 2 .. n /\ i - 1 \in 1 .. n /\ i \in 1 .. n
      BY <1>12, <2>2
    <3> QED
      BY <1>11, <1>14, <3>1 DEF IsPath
  <2> QED
    BY <2>1, <2>2
<1>16. IsPath(rev, longer, n + 1, m)
  BY <1>14, <1>15 DEF IsPath
<1> QED
  BY <1>4, <1>12, <1>16

\* What a materialization replays: the programs on the way, each a rewrite of the last.
IsExplained(rev, path, node) ==
    /\ Len(path) \in Nat /\ Len(path) >= 1 /\ path[1] = 1
    /\ \A i \in 1 .. Len(path) : path[i] \in DOMAIN rev.nodes
    /\ \A i \in 2 .. Len(path) : rev.nodes[path[i]] \in Rewrites(rev.nodes[path[i - 1]])
    /\ Explanation(rev, node) = [i \in 1 .. Len(path) - 1 |-> rev.nodes[path[i + 1]]]

LEMMA ExplanationIs ==
    ASSUME NEW root, NEW rev, SoundSpace(root, rev), NEW node \in DOMAIN rev.nodes
    PROVE  \E path : IsExplained(rev, path, node)
<1> DEFINE S == Paths(rev, node)
           Lens == {Len(p) : p \in S}
           path == CHOOSE p \in S : \A q \in S : Len(p) <= Len(q)
<1>1. S # {}
  <2>1. PICK n \in 1 .. node : \E p : IsPath(rev, p, n, node)
    BY EveryMemberIsReached
  <2>2. DOMAIN rev.nodes = 1 .. Len(rev.nodes) /\ Len(rev.nodes) \in Nat
    BY DEF SoundSpace
  <2>3. n \in 1 .. Len(rev.nodes)
    BY <2>1, <2>2
  <2> QED
    BY <2>1, <2>3, PathsAre
<1>2. \A p \in S : Len(p) \in 1 .. Len(rev.nodes) /\ IsPath(rev, p, Len(p), node)
  BY PathsAre
<1> HIDE DEF S
<1>3. path \in S
  <2>1. Lens \subseteq Nat /\ Lens # {}
    <3>1. \A p \in S : Len(p) \in Nat
      BY <1>2
    <3>2. PICK p \in S : TRUE
      BY <1>1
    <3>3. Len(p) \in Lens
      BY <3>2
    <3> QED
      BY <3>1, <3>3
  <2> HIDE DEF Lens
  <2>2. PICK m \in Lens : \A n \in Lens : m <= n
    BY <2>1, LeastIs
  <2>3. \E p \in S : \A q \in S : Len(p) <= Len(q)
    BY <2>2 DEF Lens
  <2> QED
    BY <2>3
<1>4. Explanation(rev, node) = [i \in 1 .. Len(path) - 1 |-> rev.nodes[path[i + 1]]]
  BY DEF Explanation, S
<1> HIDE DEF path
<1>5. Len(path) \in Nat /\ Len(path) >= 1 /\ IsPath(rev, path, Len(path), node)
  <2>1. Len(path) \in 1 .. Len(rev.nodes) /\ IsPath(rev, path, Len(path), node)
    BY <1>2, <1>3
  <2>2. Len(rev.nodes) \in Nat
    BY DEF SoundSpace
  <2> QED
    BY <2>1, <2>2
<1>6. \A i \in 1 .. Len(path) : path[i] \in DOMAIN rev.nodes
  BY <1>5 DEF IsPath
<1>7. ASSUME NEW i \in 2 .. Len(path)
      PROVE  rev.nodes[path[i]] \in Rewrites(rev.nodes[path[i - 1]])
  <2>1. <<path[i - 1], path[i]>> \in Edges(rev)
    BY <1>5 DEF IsPath
  <2>2. PICK e \in rev.edges : <<path[i - 1], path[i]>> = <<e[1], e[2]>>
    BY <2>1 DEF Edges
  <2>3. path[i - 1] = e[1] /\ path[i] = e[2]
    BY <2>2
  <2> QED
    BY <2>3 DEF SoundSpace
<1>8. path[1] = 1
  BY <1>5 DEF IsPath
<1> QED
  BY <1>4, <1>5, <1>6, <1>7, <1>8 DEF IsExplained

LEMMA LogReplaced ==
    ASSUME NEW log, IsLog(log), NEW i \in DOMAIN log, NEW x
    PROVE  LET new == [log EXCEPT ![i] = x]
           IN /\ IsLog(new) /\ Len(new) = Len(log) /\ DOMAIN new = DOMAIN log /\ new[i] = x
              /\ \A j \in DOMAIN log : j # i => new[j] = log[j]
<1> DEFINE new == [log EXCEPT ![i] = x]
<1>1. PICK S : log \in Seq(S)
  BY DEF IsLog
<1>2. log \in Seq(S \cup {x}) /\ x \in S \cup {x}
  BY <1>1
<1>3. /\ new \in Seq(S \cup {x}) /\ Len(new) = Len(log) /\ DOMAIN new = DOMAIN log /\ new[i] = x
      /\ \A j \in DOMAIN log : j # i => new[j] = log[j]
  BY <1>2, SeqFacts
<1> QED
  BY <1>3 DEF IsLog

\* The branch of a member before it is marked.
LEMMA RewrittenIs ==
    ASSUME NEW e, NEW f, FInv(f), EInv(e, f), NEW s \in DOMAIN e.spaces,
           NEW v \in DOMAIN e.spaces[s].revisions,
           NEW node \in DOMAIN e.spaces[s].revisions[v].nodes, CanMaterialize(e, f, s, v, node)
    PROVE  LET g == Rewritten(e, f, s, v, node)
               c == Len(g.candidates)
           IN /\ FInv(g) /\ Carries(f, g) /\ c \in Candidates(g)
              /\ g.candidates[c].head = Len(g.revisions) /\ AllProved(HeadOf(g, c).debt)
<1> DEFINE space == e.spaces[s].revisions[v]
           anchor == e.spaces[s].anchor
           root == f.revisions[anchor].impl
           branch == Forked(f, anchor)
           c == Len(branch.candidates)
           seq == Explanation(space, node)
           g == Rewritten(e, f, s, v, node)
<1>1. /\ anchor \in Revisions(f) /\ AllProved(f.revisions[anchor].debt)
      /\ SoundSpace(root, space)
  BY DEF EInv, SoundEntry
<1>2. Checks(branch)
  BY DEF CanMaterialize
<1>3. /\ FInv(branch) /\ Carries(f, branch) /\ c \in Candidates(branch)
      /\ HeadOf(branch, c).impl = root /\ AllProved(HeadOf(branch, c).debt)
      /\ branch.candidates[c].head = Len(branch.revisions)
  <2> HIDE DEF anchor
  <2> QED
    BY <1>1, <1>2, ForkKeeps
<1>4. g = Applying!Fold(c, branch, seq)
  BY DEF Rewritten, ApplyOp, Applying!Fold, Applying!FoldLeft, FoldLeft,
     Applying!MapThenFoldSet, MapThenFoldSet, Applying!Max, Max
<1> HIDE DEF g, branch, c, seq, space, root, anchor
<1>5. PICK path : IsExplained(space, path, node)
  <2>1. node \in DOMAIN space.nodes
    BY DEF space
  <2> QED
    BY <1>1, <2>1, ExplanationIs
<1> DEFINE about == [forest |-> f, candidate |-> c, space |-> space, path |-> path]
           n == Len(path) - 1
<1>6. /\ about.forest = f /\ about.candidate = c /\ about.space = space /\ about.path = path
  OBVIOUS
<1>7. /\ n \in Nat /\ DOMAIN seq = 1 .. n /\ \A i \in 1 .. n : seq[i] = space.nodes[path[i + 1]]
  BY <1>5 DEF IsExplained, seq
<1> HIDE DEF about
<1>8. ApplyHolds(about, 0, branch)
  <2>1. path[0 + 1] = 1 /\ space.nodes[1] = root
    BY <1>1, <1>5 DEF IsExplained, SoundSpace
  <2> QED
    BY <1>3, <1>6, <2>1 DEF ApplyHolds, c
<1>9. ASSUME NEW i \in 1 .. n, NEW h, ApplyHolds(about, i - 1, h)
      PROVE  ApplyHolds(about, i, ApplyOp(c, h, seq[i]))
  <2>1. i + 1 \in 2 .. Len(path) /\ (i + 1) - 1 = i /\ (i - 1) + 1 = i
    BY <1>5, <1>7 DEF IsExplained
  <2>2. /\ FInv(h) /\ Carries(f, h) /\ c \in Candidates(h) /\ Len(h.candidates) = c
        /\ h.candidates[c].head = Len(h.revisions) /\ AllProved(HeadOf(h, c).debt)
        /\ HeadOf(h, c).impl = space.nodes[path[i]]
    BY <1>6, <1>9, <2>1 DEF ApplyHolds
  <2>3. seq[i] \in Rewrites(HeadOf(h, c).impl) /\ seq[i] = space.nodes[path[i + 1]]
    BY <1>5, <1>7, <2>1, <2>2 DEF IsExplained
  <2>4. LET k == Applied(h, c, seq[i])
        IN /\ FInv(k) /\ Carries(h, k)
           /\ c \in Candidates(k) /\ Len(k.candidates) = Len(h.candidates)
           /\ HeadOf(k, c).impl = seq[i] /\ AllProved(HeadOf(k, c).debt)
           /\ k.candidates[c].head = Len(k.revisions)
    BY <2>2, <2>3, ApplyKeeps
  <2>5. Carries(f, Applied(h, c, seq[i]))
    BY <2>2, <2>4, CarriesOn
  <2> QED
    BY <1>6, <2>2, <2>3, <2>4, <2>5 DEF ApplyHolds, ApplyOp
<1>10. Applying!Kept(about, c, branch, seq, n)
  BY <1>8, <1>9 DEF Applying!Kept
<1>11. ApplyHolds(about, n, Applying!Fold(c, branch, seq))
  BY <1>7, <1>10, Applying!FoldKeeps
<1> QED
  BY <1>4, <1>6, <1>11 DEF ApplyHolds, g

LEMMA MaterializeKeeps ==
    ASSUME NEW e, NEW f, FInv(f), EInv(e, f), NEW s \in DOMAIN e.spaces,
           NEW v \in DOMAIN e.spaces[s].revisions,
           NEW node \in DOMAIN e.spaces[s].revisions[v].nodes, CanMaterialize(e, f, s, v, node),
           Checks(MaterializedForest(e, f, s, v, node))
    PROVE  LET h == MaterializedForest(e, f, s, v, node)
           IN FInv(h) /\ Carries(f, h)
<1> DEFINE g == Rewritten(e, f, s, v, node)
           c == Len(g.candidates)
           n == Len(g.revisions)
           provenance == [candidate |-> c, revision |-> n]
           base == g.revisions[n]
           rev == [base EXCEPT !.state = "Equivalent", !.version = 3, !.materialized = provenance]
           h == MaterializedForest(e, f, s, v, node)
<1>1. /\ FInv(g) /\ Carries(f, g) /\ c \in Candidates(g)
      /\ g.candidates[c].head = n /\ AllProved(HeadOf(g, c).debt)
  BY RewrittenIs
<1>2. h = [g EXCEPT !.events = f.events,
                    !.revisions[n] = [@ EXCEPT !.state = "Equivalent", !.version = 3,
                                               !.materialized = provenance]]
  BY DEF MaterializedForest
<1>3. Checks(h)
  OBVIOUS
<1> HIDE DEF g, h, provenance
<1>4. /\ n \in Revisions(g) /\ base = HeadOf(g, c) /\ base.candidate = c
      /\ SoundRevision(g, base) /\ AllProved(base.debt)
      /\ g = [x \in ForestFields |-> g[x]] /\ IsLog(g.revisions)
  BY <1>1 DEF FInv, HeadOf
<1>5. /\ base = [x \in RevisionFields |-> base[x]]
  BY <1>4 DEF SoundRevision, IsRevision
<1>6. /\ h = [x \in ForestFields |-> h[x]] /\ h.events = f.events /\ h.candidates = g.candidates
      /\ h.proposals = g.proposals /\ h.revisions = [g.revisions EXCEPT ![n] = rev]
  <2> HIDE DEF n
  <2> QED
    BY <1>2, <1>4 DEF ForestFields
<1>7. /\ rev = [x \in RevisionFields |-> rev[x]] /\ rev.candidate = base.candidate
      /\ rev.impl = base.impl /\ rev.debt = base.debt /\ rev.status = base.status
      /\ rev.fallback = base.fallback /\ rev.chain = base.chain /\ rev.frontier = base.frontier
      /\ rev.state = "Equivalent" /\ rev.version = 3
  <2> HIDE DEF base
  <2> QED
    BY <1>5 DEF RevisionFields
<1> HIDE DEF n, rev, c
<1>8. /\ IsLog(h.revisions) /\ Revisions(h) = Revisions(g) /\ Len(h.revisions) = n
      /\ h.revisions[n] = rev /\ \A r \in Revisions(g) : r # n => h.revisions[r] = g.revisions[r]
  <2> DEFINE old == g.revisions
             new == h.revisions
  <2>1. IsLog(old) /\ n \in DOMAIN old /\ new = [old EXCEPT ![n] = rev]
    BY <1>4, <1>6 DEF Revisions
  <2> HIDE DEF old, new
  <2> DEFINE same == [old EXCEPT ![n] = rev]
  <2>2. /\ IsLog(same) /\ Len(same) = Len(old) /\ DOMAIN same = DOMAIN old /\ same[n] = rev
        /\ \A j \in DOMAIN old : j # n => same[j] = old[j]
    BY <2>1, LogReplaced
  <2> HIDE DEF same
  <2>3. new = same
    BY <2>1 DEF same
  <2> QED
    BY <2>1, <2>2, <2>3 DEF Revisions, old, new, n
<1>9. Carries(g, h)
  <2> SUFFICES ASSUME NEW r \in Revisions(g)
               PROVE  /\ h.revisions[r].candidate = g.revisions[r].candidate
                      /\ h.revisions[r].impl = g.revisions[r].impl
                      /\ h.revisions[r].debt = g.revisions[r].debt
                      /\ h.revisions[r].status = g.revisions[r].status
                      /\ h.revisions[r].fallback = g.revisions[r].fallback
                      /\ g.revisions[r].state # "Rejected" => h.revisions[r].state # "Rejected"
    BY <1>6, <1>8 DEF Carries
  <2>1. CASE r = n
    BY <1>7, <1>8, <2>1
  <2>2. CASE r # n
    BY <1>8, <2>2
  <2> QED
    BY <2>1, <2>2
<1> HIDE DEF base
<1>10. SoundRevision(g, rev)
  <2>1. IsRevision(rev)
    BY <1>4, <1>7 DEF SoundRevision, IsRevision
  <2>2. DebtAgrees(g, rev)
    BY <1>4, <1>7 DEF SoundRevision, DebtAgrees
  <2>3. ChainIsExact(rev)
    BY <1>4, <1>7 DEF SoundRevision, ChainIsExact
  <2>4. GuardIsExact(g, rev)
    BY <1>4, <1>7 DEF SoundRevision, GuardIsExact, HasGuard
  <2>5. StatusAgrees(rev)
    BY <1>4, <1>7 DEF SoundRevision, StatusAgrees
  <2>6. FrontierFollows(rev)
    <3>1. ~Refutes(base.debt)
      BY <1>4 DEF AllProved, Refutes
    <3>2. base.state = "Rejected" => base.frontier.revision = None
      BY <1>4, <3>1 DEF SoundRevision, StatusAgrees
    <3> QED
      BY <1>4, <1>7, <3>2 DEF SoundRevision, FrontierFollows
  <2> QED
    BY <2>1, <2>2, <2>3, <2>4, <2>5, <2>6 DEF SoundRevision
<1>11. \A r \in Revisions(h) : SoundRevision(h, h.revisions[r]) /\ Verified(h, r)
  <2> SUFFICES ASSUME NEW r \in Revisions(g)
               PROVE  SoundRevision(h, h.revisions[r]) /\ Verified(h, r)
    BY <1>8
  <2>1. CASE r = n
    BY <1>3, <1>8, <1>9, <1>10, <2>1, SoundStays DEF Checks
  <2>2. CASE r # n
    BY <1>1, <1>8, <1>9, <2>2, SoundStays, VerifiedStays DEF FInv
  <2> QED
    BY <2>1, <2>2
<1>12. \A i \in DOMAIN h.proposals : SoundProposal(h, h.proposals[i])
  BY <1>1, <1>6, <1>9, ProposalStays DEF FInv
<1>13. \A d \in Candidates(h) : h.candidates[d].head \in Revisions(h) /\ HeadOf(h, d).candidate = d
  <2>1. \A d \in Candidates(g) : g.candidates[d].head \in Revisions(g) /\ HeadOf(g, d).candidate = d
    BY <1>1 DEF FInv
  <2> QED
    BY <1>6, <1>9, <2>1 DEF Carries, HeadOf, Candidates
<1>14. FInv(h)
  <2>1. IsLog(h.events)
    BY <1>6 DEF FInv
  <2> QED
    BY <1>1, <1>6, <1>8, <1>11, <1>12, <1>13, <2>1 DEF FInv
<1> QED
  BY <1>1, <1>9, <1>14, CarriesOn DEF h

---------------------------------------------------------------------------
\* The store: what stays true of it while the forest grows, and its operations.
LEMMA StoreStays ==
    ASSUME NEW e, NEW f, NEW g, Carries(f, g), EInv(e, f)
    PROVE  EInv(e, g)
<1>1. ASSUME NEW space, SoundEntry(f, space) PROVE SoundEntry(g, space)
  BY <1>1 DEF SoundEntry, Carries
<1> QED
  BY <1>1 DEF EInv

LEMMA LoggedKeeps ==
    ASSUME NEW e, NEW f, EInv(e, f), NEW g, NEW kind, NEW arguments, NEW revision
    PROVE  EInv(Logged(e, g, kind, arguments, revision), f)
<1> DEFINE event == [cursor |-> Len(g.events), kind |-> kind, args |-> arguments,
                     revision |-> revision]
           new == [e EXCEPT !.events = Append(@, event)]
<1>1. Logged(e, g, kind, arguments, revision) = new
  BY DEF Logged
<1> HIDE DEF event
<1>2. /\ new = [x \in {"spaces", "events"} |-> new[x]] /\ new.spaces = e.spaces
      /\ new.events = Append(e.events, event)
  BY DEF EInv
<1> HIDE DEF new
<1>3. Extends(e.events, new.events, event)
  BY <1>2, AppendFacts DEF EInv
<1> QED
  BY <1>1, <1>2, <1>3 DEF EInv, Extends

LEMMA CreatedSpaceKeeps ==
    ASSUME NEW e, NEW f, FInv(f), EInv(e, f), NEW r \in Revisions(f), CanAnchor(f, r)
    PROVE  EInv(SpaceCreated(e, f, r), f)
<1> DEFINE p == f.revisions[r].impl
           first == Root(p)
           space == [anchor |-> r, revisions |-> <<first>>]
           made == [e EXCEPT !.spaces = Append(@, space)]
<1>1. AllProved(f.revisions[r].debt)
  BY DEF CanAnchor
<1>2. p \in Good
  <2>1. p \in Impls
    BY DEF FInv, SoundRevision, IsRevision
  <2> QED
    BY <1>1, <2>1, ProvedIsExact DEF Good
<1>3. SoundSpace(p, first)
  <2> HIDE DEF p
  <2> QED
    BY <1>2, RootIsSound
<1> HIDE DEF first
<1>4. SoundEntry(f, space)
  <2>1. <<first>> \in Seq({first}) /\ <<first>> # <<>> /\ DOMAIN <<first>> = {1}
        /\ <<first>>[1] = first
    OBVIOUS
  <2>2. IsLog(<<first>>)
    BY <2>1 DEF IsLog
  <2>3. /\ space = [x \in {"anchor", "revisions"} |-> space[x]] /\ space.anchor = r
        /\ space.revisions = <<first>>
    OBVIOUS
  <2> HIDE DEF space
  <2> QED
    BY <1>1, <1>3, <2>1, <2>2, <2>3 DEF SoundEntry
<1> HIDE DEF space
<1>5. /\ made = [x \in {"spaces", "events"} |-> made[x]] /\ made.events = e.events
      /\ made.spaces = Append(e.spaces, space)
  BY DEF EInv
<1> HIDE DEF made
<1>6. Extends(e.spaces, made.spaces, space)
  BY <1>5, AppendFacts DEF EInv
<1>7. EInv(made, f)
  BY <1>4, <1>5, <1>6 DEF EInv, Extends
<1>8. SpaceCreated(e, f, r) = Logged(made, f, "create", <<r>>, None)
  BY DEF SpaceCreated, made, space, first
<1> QED
  BY <1>7, <1>8, LoggedKeeps

LEMMA ExpandedSpaceKeeps ==
    ASSUME NEW e, NEW f, EInv(e, f), NEW s \in DOMAIN e.spaces, NEW fuel \in Nat
    PROVE  EInv(SpaceExpanded(e, f, s, fuel), f)
<1> DEFINE space == e.spaces[s]
           root == f.revisions[space.anchor].impl
           head == SpaceHead(e, s)
           next == Expanded(head, fuel)
           grown == [space EXCEPT !.revisions = Append(@, next)]
           spaces == [e.spaces EXCEPT ![s] = grown]
           made == [e EXCEPT !.spaces = spaces]
<1>1. SoundEntry(f, space)
  BY DEF EInv
<1>2. /\ space = [x \in {"anchor", "revisions"} |-> space[x]] /\ IsLog(space.revisions)
      /\ space.revisions # <<>>
  BY <1>1 DEF SoundEntry
<1>3. SoundSpace(root, head)
  <2>1. PICK S : space.revisions \in Seq(S)
    BY <1>2 DEF IsLog
  <2>2. Len(space.revisions) \in DOMAIN space.revisions
    BY <1>2, <2>1
  <2> QED
    BY <1>1, <2>2 DEF SoundEntry, SpaceHead
<1> HIDE DEF head
<1>4. SoundSpace(root, next)
  <2> HIDE DEF root
  <2> QED
    BY <1>3, ExpandedIsSound
<1> HIDE DEF next
<1>5. SoundEntry(f, grown)
  <2>1. /\ grown = [x \in {"anchor", "revisions"} |-> grown[x]] /\ grown.anchor = space.anchor
        /\ grown.revisions = Append(space.revisions, next)
    BY <1>2
  <2> HIDE DEF grown, space
  <2>2. Extends(space.revisions, grown.revisions, next)
    BY <1>2, <2>1, AppendFacts
  <2>3. grown.revisions # <<>>
    BY <2>2 DEF Extends
  <2> QED
    BY <1>1, <1>4, <2>1, <2>2, <2>3 DEF SoundEntry, Extends
<1> HIDE DEF grown
<1>6. /\ IsLog(spaces) /\ DOMAIN spaces = DOMAIN e.spaces /\ spaces[s] = grown
      /\ \A t \in DOMAIN e.spaces : t # s => spaces[t] = e.spaces[t]
  BY LogReplaced DEF EInv
<1> HIDE DEF spaces
<1>7. /\ made = [x \in {"spaces", "events"} |-> made[x]] /\ made.events = e.events
      /\ made.spaces = spaces
  BY DEF EInv
<1> HIDE DEF made
<1>8. EInv(made, f)
  <2>1. \A t \in DOMAIN e.spaces : SoundEntry(f, spaces[t])
    BY <1>5, <1>6 DEF EInv
  <2> QED
    BY <1>6, <1>7, <2>1 DEF EInv
<1>9. SpaceExpanded(e, f, s, fuel) = Logged(made, f, "expand", <<s, fuel>>, None)
  BY DEF SpaceExpanded, made, spaces, grown, next, head
<1> QED
  BY <1>8, <1>9, LoggedKeeps

\* A member and the item's program before it are both exact.
LEMMA DischargeIsExact ==
    ASSUME NEW e, NEW f, FInv(f), EInv(e, f), NEW c \in Candidates(f),
           NEW i \in DOMAIN HeadOf(f, c).debt, NEW s \in DOMAIN e.spaces,
           NEW v \in DOMAIN e.spaces[s].revisions, NEW node \in DOMAIN e.spaces[s].revisions[v].nodes,
           CanDischarge(e, f, c, i, s, v, node)
    PROVE  Meaning[HeadOf(f, c).debt[i].before] = Meaning[HeadOf(f, c).debt[i].after]
<1> DEFINE anchor == e.spaces[s].anchor
           space == e.spaces[s].revisions[v]
<1>1. /\ anchor \in Revisions(f) /\ AllProved(f.revisions[anchor].debt)
      /\ SoundSpace(f.revisions[anchor].impl, space)
  BY DEF EInv, SoundEntry
<1>2. /\ f.revisions[anchor].impl = HeadOf(f, c).debt[i].before
      /\ space.nodes[node] = HeadOf(f, c).debt[i].after /\ node \in DOMAIN space.nodes
  BY DEF CanDischarge
<1> HIDE DEF anchor, space
<1>3. Meaning[f.revisions[anchor].impl] = Meaning[Identity]
  BY <1>1, ProvedIsExact
<1>4. space.nodes[node] \in Good
  BY <1>1, <1>2 DEF SoundSpace
<1> QED
  BY <1>2, <1>3, <1>4 DEF Good

---------------------------------------------------------------------------
\* The inductive invariant of the forest and the store.
IInv == FInv(forest) /\ EInv(equality, forest)

LEMMA InitIsSound == Init => IInv
<1> SUFFICES ASSUME Init PROVE IInv
  OBVIOUS
<1>1. <<>> \in Seq({}) /\ DOMAIN <<>> = {} /\ <<>> \in Seq([root : Nat, head : Nat])
  OBVIOUS
<1>2. FInv(forest)
  <2>1. /\ forest = [x \in ForestFields |-> forest[x]] /\ forest.candidates = <<>>
        /\ forest.revisions = <<>> /\ forest.proposals = <<>> /\ forest.events = <<>>
    BY DEF Init, EmptyForest, ForestFields
  <2> QED
    BY <1>1, <2>1 DEF FInv, IsLog, Revisions, Candidates
<1>3. EInv(equality, forest)
  <2>1. /\ equality = [x \in {"spaces", "events"} |-> equality[x]] /\ equality.spaces = <<>>
        /\ equality.events = <<>>
    BY DEF Init, EmptyStore
  <2> QED
    BY <1>1, <2>1 DEF EInv, IsLog
<1> QED
  BY <1>2, <1>3 DEF IInv

LEMMA NextIsSound == IInv /\ [Next]_vars => IInv'
<1> SUFFICES ASSUME IInv, [Next]_vars PROVE IInv'
  OBVIOUS
<1>1. FInv(forest) /\ EInv(equality, forest)
  BY DEF IInv
<1>2. ASSUME NEW g, FInv(g), Carries(forest, g), forest' = g, UNCHANGED equality
      PROVE  IInv'
  BY <1>1, <1>2, StoreStays DEF IInv
<1>3. CASE CreateCandidate
  BY <1>1, <1>2, <1>3, CreateKeeps DEF CreateCandidate, Publish
<1>4. CASE ApplyRewrite
  <2>1. PICK c \in Candidates(forest) : \E after \in Rewrites(HeadOf(forest, c).impl) :
            /\ AllProved(HeadOf(forest, c).debt) /\ forest' = Applied(forest, c, after)
            /\ UNCHANGED equality
    BY <1>4 DEF ApplyRewrite, Publish, CanApply
  <2>2. PICK after \in Rewrites(HeadOf(forest, c).impl) :
            /\ AllProved(HeadOf(forest, c).debt) /\ forest' = Applied(forest, c, after)
            /\ UNCHANGED equality
    BY <2>1
  <2>3. FInv(Applied(forest, c, after)) /\ Carries(forest, Applied(forest, c, after))
    BY <1>1, <2>2, ApplyKeeps
  <2> QED
    BY <1>2, <2>2, <2>3
<1>5. CASE Propose
  <2>1. PICK c \in Candidates(forest) : \E after \in Fragments[HeadOf(forest, c).impl] :
            /\ CanPropose(forest, c, after) /\ Checks(Proposed(forest, c, after))
            /\ forest' = Proposed(forest, c, after) /\ UNCHANGED equality
    BY <1>5 DEF Propose, Publish
  <2>2. PICK after \in Fragments[HeadOf(forest, c).impl] :
            /\ CanPropose(forest, c, after) /\ Checks(Proposed(forest, c, after))
            /\ forest' = Proposed(forest, c, after) /\ UNCHANGED equality
    BY <2>1
  <2> QED
    BY <1>1, <1>2, <2>2, ProposeKeeps
<1>6. CASE CheckTranslation
  <2>1. PICK c \in Candidates(forest) : \E i \in DOMAIN HeadOf(forest, c).debt :
            /\ CanTranslate(forest, c, i) /\ Checks(Translated(forest, c, i))
            /\ forest' = Translated(forest, c, i) /\ UNCHANGED equality
    BY <1>6 DEF CheckTranslation, Publish
  <2>2. PICK i \in DOMAIN HeadOf(forest, c).debt :
            /\ CanTranslate(forest, c, i) /\ Checks(Translated(forest, c, i))
            /\ forest' = Translated(forest, c, i) /\ UNCHANGED equality
    BY <2>1
  <2> QED
    BY <1>1, <1>2, <2>2, TranslateKeeps
<1>7. CASE Fork
  <2>1. PICK r \in Revisions(forest) :
            /\ Checks(Forked(forest, r)) /\ forest' = Forked(forest, r) /\ UNCHANGED equality
    BY <1>7 DEF Fork, Publish
  <2>2. FInv(Forked(forest, r)) /\ Carries(forest, Forked(forest, r))
    BY <1>1, <2>1, ForkKeeps
  <2> QED
    BY <1>2, <2>1, <2>2
<1>8. CASE Validate
  <2>1. PICK c \in Candidates(forest), passed \in BOOLEAN :
            /\ CanValidate(forest, c, passed) /\ Checks(Validated(forest, c, passed))
            /\ forest' = Validated(forest, c, passed) /\ UNCHANGED equality
    BY <1>8 DEF Validate, Publish
  <2> QED
    BY <1>1, <1>2, <2>1, ValidateKeeps
<1>9. CASE Seal
  <2>1. PICK c \in Candidates(forest) :
            /\ CanSeal(forest, c) /\ Checks(Sealed(forest, c))
            /\ forest' = Sealed(forest, c) /\ UNCHANGED equality
    BY <1>9 DEF Seal, Publish
  <2> QED
    BY <1>1, <1>2, <2>1, SealKeeps
<1>10. CASE CreateSpace
  BY <1>1, <1>10, CreatedSpaceKeeps DEF CreateSpace, IInv
<1>11. CASE Expand
  <2>1. PICK s \in DOMAIN equality.spaces, fuel \in 1 .. FuelLimit :
            equality' = SpaceExpanded(equality, forest, s, fuel) /\ UNCHANGED forest
    BY <1>11 DEF Expand
  <2>2. fuel \in Nat
    BY EqualityLimitsAssumption
  <2> QED
    BY <1>1, <2>1, <2>2, ExpandedSpaceKeeps DEF IInv
<1>12. CASE Discharge
  <2>1. PICK c \in Candidates(forest), s \in DOMAIN equality.spaces :
            \E i \in DOMAIN HeadOf(forest, c).debt, v \in DOMAIN equality.spaces[s].revisions :
            \E node \in DOMAIN equality.spaces[s].revisions[v].nodes :
                /\ CanDischarge(equality, forest, c, i, s, v, node)
                /\ Publish(DischargedForest(forest, c, i))
                /\ equality' = DischargedStore(equality, forest, c, i, s, v, node)
    BY <1>12 DEF Discharge
  <2>2. PICK i \in DOMAIN HeadOf(forest, c).debt, v \in DOMAIN equality.spaces[s].revisions :
            \E node \in DOMAIN equality.spaces[s].revisions[v].nodes :
                /\ CanDischarge(equality, forest, c, i, s, v, node)
                /\ Publish(DischargedForest(forest, c, i))
                /\ equality' = DischargedStore(equality, forest, c, i, s, v, node)
    BY <2>1
  <2>3. PICK node \in DOMAIN equality.spaces[s].revisions[v].nodes :
            /\ CanDischarge(equality, forest, c, i, s, v, node)
            /\ Checks(DischargedForest(forest, c, i)) /\ forest' = DischargedForest(forest, c, i)
            /\ equality' = DischargedStore(equality, forest, c, i, s, v, node)
    BY <2>2 DEF Publish
  <2>4. Meaning[HeadOf(forest, c).debt[i].before] = Meaning[HeadOf(forest, c).debt[i].after]
    BY <1>1, <2>3, DischargeIsExact
  <2>5. /\ HeadOf(forest, c).debt[i].status \in {"Open", "Unsupported"}
        /\ IsNext(HeadOf(forest, c).debt, i)
    BY <2>3 DEF CanDischarge
  <2>6. FInv(forest') /\ Carries(forest, forest')
    BY <1>1, <2>3, <2>4, <2>5, MembershipKeeps
  <2>7. EInv(equality', forest)
    BY <1>1, <2>3, LoggedKeeps DEF DischargedStore
  <2> QED
    BY <2>6, <2>7, StoreStays DEF IInv
<1>13. CASE Materialize
  <2>1. PICK s \in DOMAIN equality.spaces : \E v \in DOMAIN equality.spaces[s].revisions :
            \E node \in DOMAIN equality.spaces[s].revisions[v].nodes :
                /\ CanMaterialize(equality, forest, s, v, node)
                /\ Publish(MaterializedForest(equality, forest, s, v, node))
                /\ equality' = MaterializedStore(equality, forest, s, v, node)
    BY <1>13 DEF Materialize
  <2>2. PICK v \in DOMAIN equality.spaces[s].revisions :
            \E node \in DOMAIN equality.spaces[s].revisions[v].nodes :
                /\ CanMaterialize(equality, forest, s, v, node)
                /\ Publish(MaterializedForest(equality, forest, s, v, node))
                /\ equality' = MaterializedStore(equality, forest, s, v, node)
    BY <2>1
  <2>3. PICK node \in DOMAIN equality.spaces[s].revisions[v].nodes :
            /\ CanMaterialize(equality, forest, s, v, node)
            /\ Checks(MaterializedForest(equality, forest, s, v, node))
            /\ forest' = MaterializedForest(equality, forest, s, v, node)
            /\ equality' = MaterializedStore(equality, forest, s, v, node)
    BY <2>2 DEF Publish
  <2>4. FInv(forest') /\ Carries(forest, forest')
    BY <1>1, <2>3, MaterializeKeeps
  <2>5. EInv(equality', forest)
    BY <1>1, <2>3, LoggedKeeps DEF MaterializedStore
  <2> QED
    BY <2>4, <2>5, StoreStays DEF IInv
<1>14. CASE UNCHANGED vars
  BY <1>1, <1>14 DEF vars, IInv
<1> QED
  BY <1>3, <1>4, <1>5, <1>6, <1>7, <1>8, <1>9, <1>10, <1>11, <1>12, <1>13, <1>14 DEF Next

\* In every reachable state the forest and the store are sound.
THEOREM OptimizationInductive == Spec => []IInv
<1>1. Init => IInv
  BY InitIsSound
<1>2. IInv /\ [Next]_vars => IInv'
  BY NextIsSound
<1> QED
  BY <1>1, <1>2, PTL DEF Spec

---------------------------------------------------------------------------
\* Sealed and sealable revisions compute the specification, whatever they are made of.
THEOREM SealedAreExact == Spec => []SealedIsExact
<1>1. IInv => SealedIsExact
  <2> SUFFICES ASSUME IInv, NEW r \in Revisions(forest),
                      forest.revisions[r].state = "Sealed" \/ Sealable(forest.revisions[r])
               PROVE  Exact(r)
    BY DEF SealedIsExact
  <2>1. FInv(forest) /\ SoundRevision(forest, forest.revisions[r])
    BY DEF IInv, FInv
  <2>2. IsSettled(forest.revisions[r].debt)
    BY <2>1 DEF SoundRevision, StatusAgrees, Sealable, IsSettled
  <2> QED
    BY <2>1, <2>2, SettledIsExact DEF Exact
<1> QED
  BY <1>1, OptimizationInductive, PTL

\* The members of every space compute the specification.
THEOREM MembersExact == Spec => []MembersAreExact
<1>1. IInv => MembersAreExact
  <2> SUFFICES ASSUME IInv, NEW s \in DOMAIN equality.spaces,
                      NEW v \in DOMAIN equality.spaces[s].revisions,
                      NEW p \in ToSet(equality.spaces[s].revisions[v].nodes)
               PROVE  Meaning[p] = Meaning[Identity]
    BY DEF MembersAreExact
  <2>1. equality.spaces[s].revisions[v].nodes \in Seq(Good)
    BY DEF IInv, EInv, SoundEntry, SoundSpace
  <2>2. p \in Good
    BY <2>1 DEF ToSet
  <2> QED
    BY <2>2 DEF Good
<1> QED
  BY <1>1, OptimizationInductive, PTL

\* The frontier of a live revision is its last proved program.
THEOREM FrontierIsProved == Spec => []FrontierIsProvedPrefix
<1>1. IInv => FrontierIsProvedPrefix
  <2> SUFFICES ASSUME IInv, NEW r \in Revisions(forest),
                      forest.revisions[r].frontier.revision # None,
                      forest.revisions[r].state # "Rejected"
               PROVE  LET rev == forest.revisions[r]
                          open == Unsettled(rev.debt)
                      IN rev.frontier.terminal =
                             IF open = {} THEN rev.impl
                             ELSE rev.debt[CHOOSE i \in open : \A j \in open : i <= j].before
    BY DEF FrontierIsProvedPrefix, Unsettled
  <2> DEFINE rev == forest.revisions[r]
             open == Unsettled(rev.debt)
             first == CHOOSE i \in open : \A j \in open : i <= j
  <2>1. SoundRevision(forest, rev)
    BY DEF IInv, FInv
  <2>2. open \subseteq Nat
    <3>1. DOMAIN rev.debt \subseteq Nat
      BY <2>1 DEF SoundRevision, IsRevision
    <3> QED
      BY <3>1 DEF Unsettled
  <2> HIDE DEF open
  <2>3. open # {} => first \in open /\ \A j \in open : first <= j
    <3>1. open # {} => \E i \in open : \A j \in open : i <= j
      BY <2>2, LeastIs
    <3> QED
      BY <3>1
  <2> HIDE DEF first
  <2>4. rev.frontier.terminal = IF open = {} THEN rev.impl ELSE rev.debt[first].before
    BY <2>1, <2>3 DEF SoundRevision, FrontierFollows, open
  <2> QED
    BY <2>4 DEF open, first
<1> QED
  BY <1>1, OptimizationInductive, PTL

---------------------------------------------------------------------------
\* The replay of the two logs.
LEMMA SubSeqLonger ==
    ASSUME NEW S, NEW s \in Seq(S), NEW x \in S, NEW a \in 0 .. Len(s)
    PROVE  SubSeq(Append(s, x), a + 1, Len(s) + 1) = Append(SubSeq(s, a + 1, Len(s)), x)
<1> DEFINE n == Len(s)
           t == Append(s, x)
           old == SubSeq(s, a + 1, n)
           u == SubSeq(t, a + 1, n + 1)
           v == Append(old, x)
<1>1. n \in Nat /\ t \in Seq(S) /\ Len(t) = n + 1 /\ \A i \in 1 .. n : t[i] = s[i]
  OBVIOUS
<1>2. t[n + 1] = x
  OBVIOUS
<1>3. /\ old \in Seq(S) /\ Len(old) = n - a /\ \A i \in 1 .. n - a : old[i] = s[a + i]
  OBVIOUS
<1> HIDE DEF n, t, old
<1>4. /\ u \in Seq(S) /\ Len(u) = n + 1 - a /\ \A i \in 1 .. n + 1 - a : u[i] = t[a + i]
  BY <1>1 DEF n
<1>5. /\ v \in Seq(S) /\ Len(v) = n + 1 - a /\ v[n + 1 - a] = x
      /\ \A i \in 1 .. n - a : v[i] = old[i]
  BY <1>1, <1>3 DEF n
<1> HIDE DEF u, v
<1>6. \A i \in 1 .. n + 1 - a : u[i] = v[i]
  <2> SUFFICES ASSUME NEW i \in 1 .. n + 1 - a PROVE u[i] = v[i]
    OBVIOUS
  <2>1. CASE i = n + 1 - a
    <3>1. n + 1 - a \in 1 .. n + 1 - a /\ a + (n + 1 - a) = n + 1
      BY <1>1 DEF n
    <3>2. u[n + 1 - a] = t[n + 1]
      BY <1>4, <3>1
    <3> QED
      BY <1>2, <1>5, <2>1, <3>2
  <2>2. CASE i # n + 1 - a
    <3>1. i \in 1 .. n - a /\ a + i \in 1 .. n
      BY <1>1, <2>2 DEF n
    <3> QED
      BY <1>1, <1>3, <1>4, <1>5, <3>1
  <2> QED
    BY <2>1, <2>2
<1>7. u = v
  BY <1>4, <1>5, <1>6
<1> QED
  BY <1>7 DEF u, v, t, old, n

LEMMA SubSeqSame ==
    ASSUME NEW S, NEW s \in Seq(S), NEW x \in S, NEW a \in Nat, NEW n \in 0 .. Len(s)
    PROVE  SubSeq(Append(s, x), a + 1, n) = SubSeq(s, a + 1, n)
  OBVIOUS

LEMMA ForestTo ==
    ASSUME NEW w, NEW log, NEW cursor, StepHolds(log, 0, w)
    PROVE  LET v == ReplayForestTo(w, log, cursor)
           IN /\ v = [x \in {"forest", "equality", "at"} |-> v[x]]
              /\ v.forest = Replaying!Fold(0, w.forest, SubSeq(log, w.at + 1, cursor))
              /\ v.equality = w.equality /\ v.at = cursor
<1> DEFINE made == Replaying!Fold(0, w.forest, SubSeq(log, w.at + 1, cursor))
           v == [w EXCEPT !.forest = made, !.at = cursor]
<1>1. ReplayForestTo(w, log, cursor) = v
  BY DEF ReplayForestTo, ReplayOp, Replaying!Fold, Replaying!FoldLeft, FoldLeft,
     Replaying!MapThenFoldSet, MapThenFoldSet, Replaying!Max, Max
<1> HIDE DEF made
<1>2. /\ v = [x \in {"forest", "equality", "at"} |-> v[x]] /\ v.forest = made
      /\ v.equality = w.equality /\ v.at = cursor
  BY DEF StepHolds
<1> QED
  BY <1>1, <1>2 DEF made

\* A step of the replay moves to the event's cursor.
LEMMA StepKeeps ==
    ASSUME NEW log, NEW w, StepHolds(log, 0, w), NEW event, event.cursor \in Nat,
           event.kind \in {"create", "expand", "discharge", "materialize"}
    PROVE  StepHolds(log, 0, StepOp(log, w, event)) /\ StepOp(log, w, event).at = event.cursor
<1> DEFINE v == ReplayForestTo(w, log, event.cursor)
<1>1. v = [x \in {"forest", "equality", "at"} |-> v[x]] /\ v.at = event.cursor
  BY ForestTo
<1>2. StepOp(log, w, event) = ReplayEquality(v, event)
  BY DEF StepOp
<1> HIDE DEF v
<1>3. CASE event.kind = "create"
  BY <1>1, <1>2, <1>3 DEF ReplayEquality, StepHolds
<1>4. CASE event.kind = "expand"
  BY <1>1, <1>2, <1>4 DEF ReplayEquality, StepHolds
<1>5. CASE event.kind = "discharge"
  BY <1>1, <1>2, <1>5 DEF ReplayEquality, StepHolds
<1>6. CASE event.kind = "materialize"
  BY <1>1, <1>2, <1>6 DEF ReplayEquality, StepHolds
<1> QED
  BY <1>3, <1>4, <1>5, <1>6

\* One request more in the forest's log.
LEMMA ForestReplays ==
    ASSUME NEW f, NEW g, NEW e, IsLog(f.events), IsLog(e.events), Cursored(f, e), Replays(f, e),
           NEW event, g.events = Append(f.events, event), g = Replay(f, event)
    PROVE  Cursored(g, e) /\ Replays(g, e)
<1> DEFINE w == Stepping!Fold(f.events, Start, e.events)
           n == Len(e.events)
           m == Len(f.events)
<1>1. PICK S : f.events \in Seq(S)
  BY DEF IsLog
<1> DEFINE T == S \cup {event}
<1>2. f.events \in Seq(T) /\ event \in T /\ m \in Nat /\ Len(g.events) = m + 1
  BY <1>1
<1>3. n \in Nat /\ DOMAIN e.events = 1 .. n
  BY LogFacts
<1>4. Cursored(g, e)
  BY <1>2 DEF Cursored
<1>5. /\ StepHolds(f.events, 0, w) /\ w.at \in 0 .. m /\ w.equality = e
      /\ Replaying!Fold(0, w.forest, SubSeq(f.events, w.at + 1, m)) = f
  BY DEF Replays
<1> HIDE DEF T, n, m
<1>6. ASSUME NEW i \in 1 .. n
      PROVE  e.events[i].cursor \in 0 .. m /\ e.events[i].cursor \in Nat
             /\ e.events[i].kind \in {"create", "expand", "discharge", "materialize"}
  BY <1>2, <1>3 DEF Cursored, m
<1>7. Stepping!Kept(f.events, f.events, Start, e.events, n)
  <2>1. StepHolds(f.events, 0, Start)
    BY DEF StepHolds, Start
  <2>2. ASSUME NEW i \in 1 .. n, NEW r, StepHolds(f.events, i - 1, r)
        PROVE  StepHolds(f.events, i, StepOp(f.events, r, e.events[i]))
    <3>1. StepHolds(f.events, 0, r)
      BY <2>2 DEF StepHolds
    <3>2. StepHolds(f.events, 0, StepOp(f.events, r, e.events[i]))
      BY <1>6, <3>1, StepKeeps
    <3> QED
      BY <3>2 DEF StepHolds
  <2> QED
    BY <2>1, <2>2 DEF Stepping!Kept
<1>8. ASSUME NEW i \in 1 .. n, NEW r, StepHolds(f.events, i - 1, r)
      PROVE  StepOp(f.events, r, e.events[i]) = StepOp(g.events, r, e.events[i])
  <2>1. r.at \in Nat
    BY <1>8 DEF StepHolds
  <2>2. SubSeq(g.events, r.at + 1, e.events[i].cursor) = SubSeq(f.events, r.at + 1, e.events[i].cursor)
    <3> DEFINE log == f.events
               a == r.at
               k == e.events[i].cursor
    <3>1. log \in Seq(T) /\ event \in T /\ a \in Nat /\ k \in 0 .. Len(log)
      BY <1>2, <1>6, <2>1 DEF m
    <3> HIDE DEF log, a, k
    <3>2. SubSeq(Append(log, event), a + 1, k) = SubSeq(log, a + 1, k)
      BY <3>1, SubSeqSame
    <3> QED
      BY <3>2 DEF log, a, k
  <2> QED
    BY <2>2 DEF StepOp, ReplayForestTo
<1>9. w = Stepping!Fold(g.events, Start, e.events)
  BY <1>3, <1>7, <1>8, Stepping!FoldIgnores
<1> HIDE DEF w
<1>10. SubSeq(g.events, w.at + 1, m + 1) = Append(SubSeq(f.events, w.at + 1, m), event)
  BY <1>2, <1>5, SubSeqLonger DEF m
<1>11. SubSeq(f.events, w.at + 1, m) \in Seq(T)
  BY <1>2, <1>5 DEF m
<1>12. Replaying!Fold(0, w.forest, SubSeq(g.events, w.at + 1, m + 1)) = g
  <2> DEFINE rest == SubSeq(f.events, w.at + 1, m)
  <2> HIDE DEF rest
  <2>1. rest \in Seq(T)
    BY <1>11 DEF rest
  <2>2. Replaying!Fold(0, w.forest, Append(rest, event))
          = ReplayOp(0, Replaying!Fold(0, w.forest, rest), event)
    BY <2>1, Replaying!FoldAppend
  <2>3. Replaying!Fold(0, w.forest, rest) = f
    BY <1>5 DEF rest
  <2> QED
    BY <1>10, <2>2, <2>3 DEF ReplayOp, rest
<1>13. StepHolds(g.events, 0, w) /\ w.at \in 0 .. m + 1
  BY <1>2, <1>5 DEF StepHolds
<1> QED
  BY <1>2, <1>4, <1>5, <1>9, <1>12, <1>13 DEF Replays

\* One event more of the store; it may have changed the forest, whose log it left.
LEMMA StoreReplays ==
    ASSUME NEW f, NEW g, NEW e, NEW d, IsLog(f.events), IsLog(e.events),
           Cursored(f, e), Replays(f, e),
           NEW event, event.cursor = Len(f.events), d.events = Append(e.events, event),
           event.kind \in {"create", "expand", "discharge", "materialize"}, g.events = f.events,
           \A v : /\ v = [x \in {"forest", "equality", "at"} |-> v[x]]
                  /\ v.forest = f /\ v.equality = e
                  => /\ ReplayEquality(v, event).forest = g
                     /\ ReplayEquality(v, event).equality = d
    PROVE  Cursored(g, d) /\ Replays(g, d)
<1> DEFINE w == Stepping!Fold(f.events, Start, e.events)
           m == Len(f.events)
           v == ReplayForestTo(w, f.events, m)
           u == StepOp(f.events, w, event)
<1>1. m \in Nat
  BY LogFacts
<1>2. Cursored(g, d)
  <2>1. Extends(e.events, d.events, event)
    BY AppendFacts
  <2> QED
    BY <1>1, <2>1 DEF Extends, Cursored
<1>3. /\ StepHolds(f.events, 0, w) /\ w.equality = e
      /\ Replaying!Fold(0, w.forest, SubSeq(f.events, w.at + 1, m)) = f
  BY DEF Replays
<1>4. Stepping!Fold(f.events, Start, d.events) = u
  <2>1. PICK S : e.events \in Seq(S)
    BY DEF IsLog
  <2> DEFINE log == e.events
  <2> HIDE DEF log
  <2>2. log \in Seq(S)
    BY <2>1 DEF log
  <2>3. Stepping!Fold(f.events, Start, Append(log, event))
          = StepOp(f.events, Stepping!Fold(f.events, Start, log), event)
    BY <2>2, Stepping!FoldAppend
  <2> QED
    BY <2>3 DEF log
<1> HIDE DEF w
<1>5. /\ v = [x \in {"forest", "equality", "at"} |-> v[x]] /\ v.forest = f /\ v.equality = e
  BY <1>3, ForestTo
<1>6. u = ReplayEquality(v, event)
  BY DEF StepOp
<1>7. StepHolds(f.events, 0, u) /\ u.at = m
  BY <1>1, <1>3, StepKeeps
<1> HIDE DEF v, u
<1>8. u.forest = g /\ u.equality = d
  BY <1>5, <1>6
<1>9. Replaying!Fold(0, u.forest, SubSeq(f.events, u.at + 1, m)) = g
  <2>1. SubSeq(f.events, m + 1, m) = <<>>
    <3>1. PICK S : f.events \in Seq(S)
      BY DEF IsLog
    <3> QED
      BY <3>1
  <2>2. DOMAIN <<>> = {}
    OBVIOUS
  <2>3. Replaying!Fold(0, g, <<>>) = g
    BY <2>2, Replaying!FoldEmpty
  <2> QED
    BY <1>7, <1>8, <2>1, <2>3
<1>10. u.at \in 0 .. m
  BY <1>1, <1>7
<1> QED
  BY <1>2, <1>4, <1>7, <1>8, <1>9, <1>10 DEF Replays, m

\* What an operation appends to the forest's log.
LoggedAs(f, g, kind, args) ==
    \E event : event.kind = kind /\ event.args = args /\ g.events = Append(f.events, event)

LEMMA RevisionLogs ==
    ASSUME NEW f, f = [x \in ForestFields |-> f[x]], NEW c, NEW rev, NEW kind, NEW args
    PROVE  LoggedAs(f, WithRevision(f, c, rev, Event(kind, args)), kind, args)
<1> DEFINE event == [Event(kind, args) EXCEPT !.revision = NextId(f.revisions)]
<1>1. event.kind = kind /\ event.args = args
  BY DEF Event
<1>2. WithRevision(f, c, rev, Event(kind, args)).events = Append(f.events, event)
  BY DEF WithRevision, ForestFields
<1> QED
  BY <1>1, <1>2 DEF LoggedAs

LEMMA CandidateLogs ==
    ASSUME NEW f, f = [x \in ForestFields |-> f[x]], NEW rev, NEW kind, NEW args
    PROVE  LoggedAs(f, WithCandidate(f, rev, Event(kind, args)), kind, args)
<1> DEFINE event == [Event(kind, args) EXCEPT !.revision = NextId(f.revisions)]
<1>1. event.kind = kind /\ event.args = args
  BY DEF Event
<1>2. WithCandidate(f, rev, Event(kind, args)).events = Append(f.events, event)
  BY DEF WithCandidate, ForestFields
<1> QED
  BY <1>1, <1>2 DEF LoggedAs

\* Replaying the event of an operation is the operation.
IsReplayed(f, g) == \E event : g.events = Append(f.events, event) /\ g = Replay(f, event)

LEMMA CreateReplayed == ASSUME NEW f, FInv(f) PROVE IsReplayed(f, Created(f))
<1>1. LoggedAs(f, Created(f), "create", <<>>)
  BY CandidateLogs DEF FInv, Created
<1>2. PICK event : event.kind = "create" /\ Created(f).events = Append(f.events, event)
  BY <1>1 DEF LoggedAs
<1>3. Replay(f, event) = Created(f)
  BY <1>2 DEF Replay
<1> QED
  BY <1>2, <1>3 DEF IsReplayed

LEMMA ApplyReplayed == ASSUME NEW f, FInv(f), NEW c, NEW after PROVE IsReplayed(f, Applied(f, c, after))
<1> DEFINE args == <<c, f.candidates[c].head, after>>
<1>1. LoggedAs(f, Applied(f, c, after), "apply", args)
  BY RevisionLogs DEF FInv, Applied
<1>2. args[1] = c /\ args[3] = after
  OBVIOUS
<1> HIDE DEF args
<1>3. PICK event : /\ event.kind = "apply" /\ event.args = args
                   /\ Applied(f, c, after).events = Append(f.events, event)
  BY <1>1 DEF LoggedAs
<1>4. Replay(f, event) = Applied(f, c, after)
  BY <1>2, <1>3 DEF Replay
<1> QED
  BY <1>3, <1>4 DEF IsReplayed

LEMMA ProposeReplayed ==
    ASSUME NEW f, FInv(f), NEW c, NEW after PROVE IsReplayed(f, Proposed(f, c, after))
<1> DEFINE args == <<c, f.candidates[c].head, after>>
           origin == [candidate |-> c, base |-> f.candidates[c].head,
                      accepted |-> NextId(f.revisions), before |-> HeadOf(f, c).impl,
                      after |-> after]
           g == [f EXCEPT !.proposals = Append(@, origin)]
<1>1. LoggedAs(f, Proposed(f, c, after), "propose", args)
  <2> HIDE DEF origin
  <2>1. g = [x \in ForestFields |-> g[x]] /\ g.events = f.events
    BY DEF FInv, ForestFields
  <2> HIDE DEF g
  <2>2. \A rev : LoggedAs(g, WithRevision(g, c, rev, Event("propose", args)), "propose", args)
    BY <2>1, RevisionLogs
  <2> QED
    BY <2>1, <2>2 DEF Proposed, LoggedAs, g, origin
<1>2. args[1] = c /\ args[3] = after
  OBVIOUS
<1> HIDE DEF args
<1>3. PICK event : /\ event.kind = "propose" /\ event.args = args
                   /\ Proposed(f, c, after).events = Append(f.events, event)
  BY <1>1 DEF LoggedAs
<1>4. Replay(f, event) = Proposed(f, c, after)
  BY <1>2, <1>3 DEF Replay
<1> QED
  BY <1>3, <1>4 DEF IsReplayed

LEMMA TranslateReplayed ==
    ASSUME NEW f, FInv(f), NEW c, NEW i PROVE IsReplayed(f, Translated(f, c, i))
<1> DEFINE args == <<c, f.candidates[c].head, i>>
<1>1. LoggedAs(f, Translated(f, c, i), "translate", args)
  BY RevisionLogs DEF FInv, Translated
<1>2. args[1] = c /\ args[3] = i
  OBVIOUS
<1> HIDE DEF args
<1>3. PICK event : /\ event.kind = "translate" /\ event.args = args
                   /\ Translated(f, c, i).events = Append(f.events, event)
  BY <1>1 DEF LoggedAs
<1>4. Replay(f, event) = Translated(f, c, i)
  BY <1>2, <1>3 DEF Replay
<1> QED
  BY <1>3, <1>4 DEF IsReplayed

LEMMA ForkReplayed == ASSUME NEW f, FInv(f), NEW r PROVE IsReplayed(f, Forked(f, r))
<1> DEFINE args == <<r>>
<1>1. LoggedAs(f, Forked(f, r), "fork", args)
  BY CandidateLogs DEF FInv, Forked
<1>2. args[1] = r
  OBVIOUS
<1> HIDE DEF args
<1>3. PICK event : /\ event.kind = "fork" /\ event.args = args
                   /\ Forked(f, r).events = Append(f.events, event)
  BY <1>1 DEF LoggedAs
<1>4. Replay(f, event) = Forked(f, r)
  BY <1>2, <1>3 DEF Replay
<1> QED
  BY <1>3, <1>4 DEF IsReplayed

LEMMA ValidateReplayed ==
    ASSUME NEW f, FInv(f), NEW c, NEW passed PROVE IsReplayed(f, Validated(f, c, passed))
<1> DEFINE args == <<c, f.candidates[c].head, passed>>
<1>1. LoggedAs(f, Validated(f, c, passed), "validate", args)
  BY RevisionLogs DEF FInv, Validated
<1>2. args[1] = c /\ args[3] = passed
  OBVIOUS
<1> HIDE DEF args
<1>3. PICK event : /\ event.kind = "validate" /\ event.args = args
                   /\ Validated(f, c, passed).events = Append(f.events, event)
  BY <1>1 DEF LoggedAs
<1>4. Replay(f, event) = Validated(f, c, passed)
  BY <1>2, <1>3 DEF Replay
<1> QED
  BY <1>3, <1>4 DEF IsReplayed

LEMMA SealReplayed == ASSUME NEW f, FInv(f), NEW c PROVE IsReplayed(f, Sealed(f, c))
<1> DEFINE args == <<c, f.candidates[c].head>>
<1>1. LoggedAs(f, Sealed(f, c), "seal", args)
  BY RevisionLogs DEF FInv, Sealed
<1>2. args[1] = c
  OBVIOUS
<1> HIDE DEF args
<1>3. PICK event : /\ event.kind = "seal" /\ event.args = args
                   /\ Sealed(f, c).events = Append(f.events, event)
  BY <1>1 DEF LoggedAs
<1>4. Replay(f, event) = Sealed(f, c)
  BY <1>2, <1>3 DEF Replay
<1> QED
  BY <1>3, <1>4 DEF IsReplayed

\* What an operation appends to the store's log.
StoreLogged(e, d, f, kind, args) ==
    \E event : /\ event.cursor = Len(f.events) /\ event.kind = kind /\ event.args = args
              /\ d.events = Append(e.events, event)

StoreFields == {"spaces", "events"}
Stored == {"forest", "equality", "at"}

LEMMA StoreLogs ==
    ASSUME NEW e, e = [x \in StoreFields |-> e[x]], NEW f, NEW kind, NEW args, NEW revision
    PROVE  StoreLogged(e, Logged(e, f, kind, args, revision), f, kind, args)
<1> DEFINE event == [cursor |-> Len(f.events), kind |-> kind, args |-> args, revision |-> revision]
<1>1. event.cursor = Len(f.events) /\ event.kind = kind /\ event.args = args
  OBVIOUS
<1>2. Logged(e, f, kind, args, revision).events = Append(e.events, event)
  BY DEF Logged, StoreFields
<1> QED
  BY <1>1, <1>2 DEF StoreLogged

\* Replaying the event of a store's operation is the operation, on both.
IsStepped(f, e, g, d) ==
    \E event :
        /\ event.cursor = Len(f.events) /\ d.events = Append(e.events, event)
        /\ event.kind \in {"create", "expand", "discharge", "materialize"}
        /\ \A v : v = [x \in Stored |-> v[x]] /\ v.forest = f /\ v.equality = e
               => ReplayEquality(v, event).forest = g /\ ReplayEquality(v, event).equality = d

LEMMA SpaceCreatedStepped ==
    ASSUME NEW f, NEW e, e = [x \in StoreFields |-> e[x]], NEW r
    PROVE  IsStepped(f, e, f, SpaceCreated(e, f, r))
<1> DEFINE args == <<r>>
           d == SpaceCreated(e, f, r)
           made == [e EXCEPT !.spaces =
                       Append(@, [anchor |-> r, revisions |-> <<Root(f.revisions[r].impl)>>])]
<1>1. args[1] = r
  OBVIOUS
<1>2. d = Logged(made, f, "create", args, None)
  BY DEF SpaceCreated
<1> HIDE DEF args
<1>3. made = [x \in StoreFields |-> made[x]] /\ made.events = e.events
  BY DEF StoreFields
<1> HIDE DEF made
<1>4. StoreLogged(made, d, f, "create", args)
  BY <1>2, <1>3, StoreLogs
<1>5. PICK event : /\ event.cursor = Len(f.events) /\ event.kind = "create" /\ event.args = args
                   /\ d.events = Append(e.events, event)
  BY <1>3, <1>4 DEF StoreLogged
<1>6. ASSUME NEW v, v = [x \in Stored |-> v[x]], v.forest = f, v.equality = e
      PROVE  ReplayEquality(v, event).forest = f /\ ReplayEquality(v, event).equality = d
  <2>1. ReplayEquality(v, event) = [v EXCEPT !.equality = d]
    BY <1>1, <1>5, <1>6 DEF ReplayEquality
  <2> HIDE DEF d
  <2> QED
    BY <1>6, <2>1 DEF Stored
<1> QED
  BY <1>5, <1>6 DEF IsStepped

LEMMA SpaceExpandedStepped ==
    ASSUME NEW f, NEW e, e = [x \in StoreFields |-> e[x]], NEW s, NEW fuel
    PROVE  IsStepped(f, e, f, SpaceExpanded(e, f, s, fuel))
<1> DEFINE args == <<s, fuel>>
           d == SpaceExpanded(e, f, s, fuel)
           made == [e EXCEPT !.spaces[s].revisions = Append(@, Expanded(SpaceHead(e, s), fuel))]
<1>1. args[1] = s /\ args[2] = fuel
  OBVIOUS
<1>2. d = Logged(made, f, "expand", args, None)
  BY DEF SpaceExpanded
<1> HIDE DEF args
<1>3. made = [x \in StoreFields |-> made[x]] /\ made.events = e.events
  BY DEF StoreFields
<1> HIDE DEF made
<1>4. StoreLogged(made, d, f, "expand", args)
  BY <1>2, <1>3, StoreLogs
<1>5. PICK event : /\ event.cursor = Len(f.events) /\ event.kind = "expand" /\ event.args = args
                   /\ d.events = Append(e.events, event)
  BY <1>3, <1>4 DEF StoreLogged
<1>6. ASSUME NEW v, v = [x \in Stored |-> v[x]], v.forest = f, v.equality = e
      PROVE  ReplayEquality(v, event).forest = f /\ ReplayEquality(v, event).equality = d
  <2>1. ReplayEquality(v, event) = [v EXCEPT !.equality = d]
    BY <1>1, <1>5, <1>6 DEF ReplayEquality
  <2> HIDE DEF d
  <2> QED
    BY <1>6, <2>1 DEF Stored
<1> QED
  BY <1>5, <1>6 DEF IsStepped

LEMMA DischargeStepped ==
    ASSUME NEW f, NEW e, e = [x \in StoreFields |-> e[x]], NEW c, NEW i, NEW s, NEW v, NEW node
    PROVE  IsStepped(f, e, DischargedForest(f, c, i), DischargedStore(e, f, c, i, s, v, node))
<1> DEFINE args == <<c, f.candidates[c].head, i, s, v, node>>
           d == DischargedStore(e, f, c, i, s, v, node)
           g == DischargedForest(f, c, i)
<1>1. args[1] = c /\ args[3] = i /\ args[4] = s /\ args[5] = v /\ args[6] = node
  OBVIOUS
<1>2. d = Logged(e, f, "discharge", args, NextId(f.revisions))
  BY DEF DischargedStore
<1> HIDE DEF args
<1>3. StoreLogged(e, d, f, "discharge", args)
  BY <1>2, StoreLogs
<1>4. PICK event : /\ event.cursor = Len(f.events) /\ event.kind = "discharge"
                   /\ event.args = args /\ d.events = Append(e.events, event)
  BY <1>3 DEF StoreLogged
<1>5. ASSUME NEW w, w = [x \in Stored |-> w[x]], w.forest = f, w.equality = e
      PROVE  ReplayEquality(w, event).forest = g /\ ReplayEquality(w, event).equality = d
  <2>1. ReplayEquality(w, event) = [w EXCEPT !.forest = g, !.equality = d]
    BY <1>1, <1>4, <1>5 DEF ReplayEquality
  <2> HIDE DEF d, g
  <2> QED
    BY <1>5, <2>1 DEF Stored
<1> QED
  BY <1>4, <1>5 DEF IsStepped

LEMMA MaterializeStepped ==
    ASSUME NEW f, NEW e, e = [x \in StoreFields |-> e[x]], NEW s, NEW v, NEW node
    PROVE  IsStepped(f, e, MaterializedForest(e, f, s, v, node), MaterializedStore(e, f, s, v, node))
<1> DEFINE args == <<s, v, node>>
           d == MaterializedStore(e, f, s, v, node)
           g == MaterializedForest(e, f, s, v, node)
           revision == Len(Rewritten(e, f, s, v, node).revisions)
<1>1. args[1] = s /\ args[2] = v /\ args[3] = node
  OBVIOUS
<1>2. d = Logged(e, f, "materialize", args, revision)
  BY DEF MaterializedStore
<1> HIDE DEF args, revision
<1>3. StoreLogged(e, d, f, "materialize", args)
  BY <1>2, StoreLogs
<1>4. PICK event : /\ event.cursor = Len(f.events) /\ event.kind = "materialize"
                   /\ event.args = args /\ d.events = Append(e.events, event)
  BY <1>3 DEF StoreLogged
<1>5. ASSUME NEW w, w = [x \in Stored |-> w[x]], w.forest = f, w.equality = e
      PROVE  ReplayEquality(w, event).forest = g /\ ReplayEquality(w, event).equality = d
  <2>1. ReplayEquality(w, event) = [w EXCEPT !.forest = g, !.equality = d]
    BY <1>1, <1>4, <1>5 DEF ReplayEquality
  <2> HIDE DEF d, g
  <2> QED
    BY <1>5, <2>1 DEF Stored
<1> QED
  BY <1>4, <1>5 DEF IsStepped

\* Every step is one request more in one of the two logs.
LEMMA StepIsLogged ==
    ASSUME IInv, Next
    PROVE  \/ IsReplayed(forest, forest') /\ UNCHANGED equality
           \/ /\ IsStepped(forest, equality, forest', equality')
              /\ forest'.events = forest.events
<1>1. FInv(forest) /\ equality = [x \in StoreFields |-> equality[x]]
  BY DEF IInv, EInv, StoreFields
<1>2. CASE CreateCandidate
  BY <1>1, <1>2, CreateReplayed DEF CreateCandidate, Publish
<1>3. CASE ApplyRewrite
  <2>1. PICK c \in Candidates(forest) : \E after \in Rewrites(HeadOf(forest, c).impl) :
            forest' = Applied(forest, c, after) /\ UNCHANGED equality
    BY <1>3 DEF ApplyRewrite, Publish
  <2>2. PICK after \in Rewrites(HeadOf(forest, c).impl) :
            forest' = Applied(forest, c, after) /\ UNCHANGED equality
    BY <2>1
  <2> QED
    BY <1>1, <2>2, ApplyReplayed
<1>4. CASE Propose
  <2>1. PICK c \in Candidates(forest) : \E after \in Fragments[HeadOf(forest, c).impl] :
            forest' = Proposed(forest, c, after) /\ UNCHANGED equality
    BY <1>4 DEF Propose, Publish
  <2>2. PICK after \in Fragments[HeadOf(forest, c).impl] :
            forest' = Proposed(forest, c, after) /\ UNCHANGED equality
    BY <2>1
  <2> QED
    BY <1>1, <2>2, ProposeReplayed
<1>5. CASE CheckTranslation
  <2>1. PICK c \in Candidates(forest) : \E i \in DOMAIN HeadOf(forest, c).debt :
            forest' = Translated(forest, c, i) /\ UNCHANGED equality
    BY <1>5 DEF CheckTranslation, Publish
  <2>2. PICK i \in DOMAIN HeadOf(forest, c).debt :
            forest' = Translated(forest, c, i) /\ UNCHANGED equality
    BY <2>1
  <2> QED
    BY <1>1, <2>2, TranslateReplayed
<1>6. CASE Fork
  <2>1. PICK r \in Revisions(forest) : forest' = Forked(forest, r) /\ UNCHANGED equality
    BY <1>6 DEF Fork, Publish
  <2> QED
    BY <1>1, <2>1, ForkReplayed
<1>7. CASE Validate
  <2>1. PICK c \in Candidates(forest), passed \in BOOLEAN :
            forest' = Validated(forest, c, passed) /\ UNCHANGED equality
    BY <1>7 DEF Validate, Publish
  <2> QED
    BY <1>1, <2>1, ValidateReplayed
<1>8. CASE Seal
  <2>1. PICK c \in Candidates(forest) : forest' = Sealed(forest, c) /\ UNCHANGED equality
    BY <1>8 DEF Seal, Publish
  <2> QED
    BY <1>1, <2>1, SealReplayed
<1>9. CASE CreateSpace
  <2>1. PICK r \in Revisions(forest) :
            equality' = SpaceCreated(equality, forest, r) /\ forest' = forest
    BY <1>9 DEF CreateSpace
  <2>2. IsStepped(forest, equality, forest, SpaceCreated(equality, forest, r))
    BY <1>1, SpaceCreatedStepped
  <2> QED
    BY <2>1, <2>2
<1>10. CASE Expand
  <2>1. PICK s \in DOMAIN equality.spaces, fuel \in 1 .. FuelLimit :
            equality' = SpaceExpanded(equality, forest, s, fuel) /\ forest' = forest
    BY <1>10 DEF Expand
  <2>2. IsStepped(forest, equality, forest, SpaceExpanded(equality, forest, s, fuel))
    BY <1>1, SpaceExpandedStepped
  <2> QED
    BY <2>1, <2>2
<1>11. CASE Discharge
  <2>1. PICK c \in Candidates(forest), s \in DOMAIN equality.spaces :
            \E i \in DOMAIN HeadOf(forest, c).debt, v \in DOMAIN equality.spaces[s].revisions :
            \E node \in DOMAIN equality.spaces[s].revisions[v].nodes :
                /\ forest' = DischargedForest(forest, c, i)
                /\ equality' = DischargedStore(equality, forest, c, i, s, v, node)
    BY <1>11 DEF Discharge, Publish
  <2>2. PICK i \in DOMAIN HeadOf(forest, c).debt, v \in DOMAIN equality.spaces[s].revisions :
            \E node \in DOMAIN equality.spaces[s].revisions[v].nodes :
                /\ forest' = DischargedForest(forest, c, i)
                /\ equality' = DischargedStore(equality, forest, c, i, s, v, node)
    BY <2>1
  <2>3. PICK node \in DOMAIN equality.spaces[s].revisions[v].nodes :
            /\ forest' = DischargedForest(forest, c, i)
            /\ equality' = DischargedStore(equality, forest, c, i, s, v, node)
    BY <2>2
  <2>4. IsStepped(forest, equality, forest', equality')
    BY <1>1, <2>3, DischargeStepped
  <2>5. DischargedForest(forest, c, i).events = forest.events
    BY <1>1 DEF DischargedForest, WithRevision, FInv, ForestFields
  <2> QED
    BY <2>3, <2>4, <2>5
<1>12. CASE Materialize
  <2>1. PICK s \in DOMAIN equality.spaces : \E v \in DOMAIN equality.spaces[s].revisions :
            \E node \in DOMAIN equality.spaces[s].revisions[v].nodes :
                /\ CanMaterialize(equality, forest, s, v, node)
                /\ forest' = MaterializedForest(equality, forest, s, v, node)
                /\ equality' = MaterializedStore(equality, forest, s, v, node)
    BY <1>12 DEF Materialize, Publish
  <2>2. PICK v \in DOMAIN equality.spaces[s].revisions :
            \E node \in DOMAIN equality.spaces[s].revisions[v].nodes :
                /\ CanMaterialize(equality, forest, s, v, node)
                /\ forest' = MaterializedForest(equality, forest, s, v, node)
                /\ equality' = MaterializedStore(equality, forest, s, v, node)
    BY <2>1
  <2>3. PICK node \in DOMAIN equality.spaces[s].revisions[v].nodes :
            /\ CanMaterialize(equality, forest, s, v, node)
            /\ forest' = MaterializedForest(equality, forest, s, v, node)
            /\ equality' = MaterializedStore(equality, forest, s, v, node)
    BY <2>2
  <2>4. IsStepped(forest, equality, forest', equality')
    BY <1>1, <2>3, MaterializeStepped
  <2>5. MaterializedForest(equality, forest, s, v, node).events = forest.events
    <3> DEFINE g == Rewritten(equality, forest, s, v, node)
    <3>1. FInv(g)
      BY <1>1, <2>3, RewrittenIs DEF IInv
    <3> QED
      BY <3>1 DEF MaterializedForest, FInv, ForestFields
  <2> QED
    BY <2>3, <2>4, <2>5
<1> QED
  BY <1>2, <1>3, <1>4, <1>5, <1>6, <1>7, <1>8, <1>9, <1>10, <1>11, <1>12 DEF Next

\* What the two logs make of nothing is the state.
RInv == Cursored(forest, equality) /\ Replays(forest, equality)

LEMMA InitReplays == Init => RInv
<1> SUFFICES ASSUME Init PROVE RInv
  OBVIOUS
<1>1. DOMAIN <<>> = {} /\ Len(<<>>) = 0
  OBVIOUS
<1>2. /\ forest = EmptyForest /\ equality = EmptyStore /\ forest.events = <<>>
      /\ equality.events = <<>>
  BY DEF Init, EmptyForest, EmptyStore
<1>3. Cursored(forest, equality)
  BY <1>1, <1>2 DEF Cursored
<1>4. Stepping!Fold(forest.events, Start, equality.events) = Start
  BY <1>1, <1>2, Stepping!FoldEmpty
<1>5. StepHolds(forest.events, 0, Start) /\ Start.at = 0 /\ Start.equality = equality
      /\ Start.forest = forest
  BY <1>2 DEF StepHolds, Start
<1>6. SubSeq(<<>>, 0 + 1, 0) = <<>>
  OBVIOUS
<1>7. Replaying!Fold(0, Start.forest, SubSeq(forest.events, Start.at + 1, Len(forest.events))) = forest
  <2>1. Replaying!Fold(0, forest, <<>>) = forest
    BY <1>1, Replaying!FoldEmpty
  <2>2. SubSeq(forest.events, Start.at + 1, Len(forest.events)) = <<>>
    BY <1>1, <1>2, <1>5, <1>6
  <2> QED
    BY <1>5, <2>1, <2>2
<1> QED
  BY <1>1, <1>2, <1>3, <1>4, <1>5, <1>7 DEF RInv, Replays

LEMMA NextReplays == IInv /\ RInv /\ [Next]_vars => RInv'
<1> SUFFICES ASSUME IInv, RInv, [Next]_vars PROVE RInv'
  OBVIOUS
<1>1. IsLog(forest.events) /\ IsLog(equality.events)
  BY DEF IInv, FInv, EInv
<1>2. Cursored(forest, equality) /\ Replays(forest, equality)
  BY DEF RInv
<1>3. CASE IsReplayed(forest, forest') /\ UNCHANGED equality
  <2>1. PICK event : forest'.events = Append(forest.events, event) /\ forest' = Replay(forest, event)
    BY <1>3 DEF IsReplayed
  <2>2. Cursored(forest', equality) /\ Replays(forest', equality)
    BY <1>1, <1>2, <2>1, ForestReplays
  <2> QED
    BY <1>3, <2>2 DEF RInv
<1>4. CASE IsStepped(forest, equality, forest', equality') /\ forest'.events = forest.events
  <2>1. PICK event :
            /\ event.cursor = Len(forest.events) /\ equality'.events = Append(equality.events, event)
            /\ event.kind \in {"create", "expand", "discharge", "materialize"}
            /\ \A v : v = [x \in Stored |-> v[x]] /\ v.forest = forest /\ v.equality = equality
                   => /\ ReplayEquality(v, event).forest = forest'
                      /\ ReplayEquality(v, event).equality = equality'
    BY <1>4 DEF IsStepped
  <2>2. \A v : v = [x \in {"forest", "equality", "at"} |-> v[x]]
               /\ v.forest = forest /\ v.equality = equality
                   => /\ ReplayEquality(v, event).forest = forest'
                      /\ ReplayEquality(v, event).equality = equality'
    BY <2>1 DEF Stored
  <2>3. Cursored(forest', equality') /\ Replays(forest', equality')
    BY <1>1, <1>2, <1>4, <2>1, <2>2, StoreReplays
  <2> QED
    BY <2>3 DEF RInv
<1>5. CASE UNCHANGED vars
  BY <1>5 DEF vars, RInv, Cursored, Replays, StepHolds
<1> QED
  BY <1>3, <1>4, <1>5, StepIsLogged

\* The two logs, interleaved by the cursors, reproduce the forest and the store.
THEOREM LogsReplay == Spec => []HistoryReplays
<1>1. RInv /\ IInv => HistoryReplays
  <2> SUFFICES ASSUME RInv, IInv PROVE HistoryReplays
    OBVIOUS
  <2> DEFINE w == Stepping!Fold(forest.events, Start, equality.events)
             after == ReplayForestTo(w, forest.events, Len(forest.events))
  <2>1. /\ StepHolds(forest.events, 0, w) /\ w.equality = equality
        /\ Replaying!Fold(0, w.forest, SubSeq(forest.events, w.at + 1, Len(forest.events))) = forest
    BY DEF RInv, Replays
  <2>2. Replayed(forest, equality) = [forest |-> after.forest, equality |-> after.equality]
    BY DEF Replayed, StepOp, Stepping!Fold, Stepping!FoldLeft, FoldLeft,
       Stepping!MapThenFoldSet, MapThenFoldSet, Stepping!Max, Max, Start
  <2> HIDE DEF w
  <2>3. after.forest = forest /\ after.equality = equality
    BY <2>1, ForestTo
  <2>4. \A r \in Revisions(forest) : Verified(forest, r)
    BY DEF IInv, FInv
  <2> QED
    BY <2>2, <2>3, <2>4 DEF HistoryReplays
<1>2. Init => RInv
  BY InitReplays
<1>3. IInv /\ RInv /\ [Next]_vars => RInv'
  BY NextReplays
<1> QED
  BY <1>1, <1>2, <1>3, OptimizationInductive, PTL DEF Spec

---------------------------------------------------------------------------
\* Chunks.  The nodes are expanded in the order of their numbers: after n steps
\* from the root the worklist holds those from n + 1 on, and no program has two
\* numbers, so as many steps as there are programs empty it.
Numbered(first, rev) ==
    /\ \A i, j \in DOMAIN rev.nodes : rev.nodes[i] = rev.nodes[j] => i = j
    /\ rev.work = first .. Len(rev.nodes)

NumberHolds(about, n, rev) == MatchHolds(about, n, rev) /\ Numbered(about.node + 1, rev)
Numbering == INSTANCE FoldFacts WITH Op <- MatchOp, Holds <- NumberHolds

ProgressHolds(root, n, rev) == SoundSpace(root, rev) /\ Numbered(n + 1, rev)
Progressing == INSTANCE FoldFacts WITH Op <- ExpandOp, Holds <- ProgressHolds

LEMMA MatchNumbers ==
    ASSUME NEW about, NEW n, NEW m, NEW rev, NumberHolds(about, n, rev),
           NEW i \in DOMAIN Matches[about.program]
    PROVE  NumberHolds(about, m, Match(rev, about.node, i))
<1> DEFINE node == about.node
           p == Matches[about.program][i]
           new == Len(rev.nodes) + 1
<1>1. MatchHolds(about, n, rev) /\ Numbered(node + 1, rev)
  BY DEF NumberHolds
<1>2. MatchHolds(about, m, Match(rev, node, i))
  BY <1>1, MatchKeeps
<1>3. /\ rev = [x \in SpaceFields |-> rev[x]] /\ rev.nodes \in Seq(Good)
      /\ node \in DOMAIN rev.nodes /\ rev.nodes[node] = about.program
      /\ about.program \in Good
  BY <1>1 DEF MatchHolds, SoundSpace
<1>4. p \in Good
  <2>1. p \in Rewrites(about.program)
    BY DEF Rewrites, ToSet
  <2> QED
    BY <1>3, <2>1, RewriteIsGood
<1>5. SUFFICES Numbered(node + 1, Match(rev, node, i))
  BY <1>2 DEF NumberHolds
<1>6. CASE p = rev.nodes[node]
  BY <1>1, <1>3, <1>6 DEF Match
<1>7. CASE p # rev.nodes[node] /\ p \in ToSet(rev.nodes)
  <2> DEFINE edges == rev.edges \cup {<<node, NodeOf(rev, p), i>>}
             made == [rev EXCEPT !.edges = edges]
  <2>1. Match(rev, node, i) = made
    BY <1>3, <1>7 DEF Match
  <2> HIDE DEF edges
  <2>2. made.nodes = rev.nodes /\ made.work = rev.work
    BY <1>3 DEF SpaceFields
  <2> HIDE DEF made
  <2> QED
    BY <1>1, <2>1, <2>2 DEF Numbered
<1>8. CASE p # rev.nodes[node] /\ p \notin ToSet(rev.nodes)
  <2> DEFINE edges == rev.edges \cup {<<node, new, i>>}
             nodes == Append(rev.nodes, p)
             made == [rev EXCEPT !.nodes = nodes, !.edges = edges, !.work = @ \cup {new}]
  <2>1. Match(rev, node, i) = made
    BY <1>3, <1>8 DEF Match
  <2>2. /\ Len(nodes) = new /\ DOMAIN nodes = DOMAIN rev.nodes \cup {new} /\ nodes[new] = p
        /\ \A k \in DOMAIN rev.nodes : nodes[k] = rev.nodes[k] /\ k # new
        /\ DOMAIN rev.nodes = 1 .. Len(rev.nodes) /\ Len(rev.nodes) \in Nat
    <3> HIDE DEF p
    <3> QED
      BY <1>3, <1>4, SeqFacts
  <2>3. \A k \in DOMAIN rev.nodes : rev.nodes[k] # p
    BY <1>8 DEF ToSet
  <2> HIDE DEF edges, nodes, p
  <2>4. made.nodes = nodes /\ made.work = rev.work \cup {new}
    BY <1>3 DEF SpaceFields
  <2> HIDE DEF made
  <2>5. made.work = node + 1 .. new
    <3>1. rev.work = node + 1 .. Len(rev.nodes) /\ node \in 1 .. Len(rev.nodes)
      BY <1>1, <1>3, <2>2 DEF Numbered
    <3> QED
      BY <2>2, <2>4, <3>1
  <2>6. \A k, j \in DOMAIN nodes : nodes[k] = nodes[j] => k = j
    BY <1>1, <2>2, <2>3 DEF Numbered
  <2> QED
    BY <2>1, <2>2, <2>4, <2>5, <2>6 DEF Numbered
<1> QED
  BY <1>6, <1>7, <1>8

LEMMA NodeNumbers ==
    ASSUME NEW root, NEW rev, SoundSpace(root, rev), NEW node \in DOMAIN rev.nodes,
           Numbered(node, rev)
    PROVE  Numbered(node + 1, ExpandNode(rev, node))
<1> DEFINE program == rev.nodes[node]
           about == [root |-> root, node |-> node, program |-> program]
           base == [rev EXCEPT !.work = @ \ {node}]
           seq == [i \in DOMAIN Matches[program] |-> i]
           n == Len(Matches[program])
<1>1. about.root = root /\ about.node = node /\ about.program = program
  OBVIOUS
<1>2. ExpandNode(rev, node) = Numbering!Fold(node, base, seq)
  BY DEF ExpandNode, MatchOp, Numbering!Fold, Numbering!FoldLeft, FoldLeft,
     Numbering!MapThenFoldSet, MapThenFoldSet, Numbering!Max, Max
<1>3. program \in Impls
  BY DEF SoundSpace, Good
<1>4. n \in Nat /\ DOMAIN Matches[program] = 1 .. n
  <2>1. Matches[program] \in Seq(Impls)
    BY <1>3, ImplAssumption
  <2> QED
    BY <2>1
<1> HIDE DEF program, about, n
<1>5. DOMAIN seq = 1 .. n /\ \A i \in 1 .. n : seq[i] = i
  BY <1>4
<1>6. NumberHolds(about, 0, base)
  <2>1. /\ base = [x \in SpaceFields |-> base[x]] /\ base.nodes = rev.nodes
        /\ base.edges = rev.edges /\ base.work = rev.work \ {node}
    BY DEF SoundSpace, SpaceFields
  <2> HIDE DEF base
  <2>2. SoundSpace(root, base)
    BY <2>1 DEF SoundSpace
  <2>3. base.work = node + 1 .. Len(base.nodes)
    <3>1. rev.work = node .. Len(rev.nodes) /\ node \in Nat /\ Len(rev.nodes) \in Nat
      BY DEF Numbered, SoundSpace
    <3>2. \A a, b \in Nat : (a .. b) \ {a} = a + 1 .. b
      OBVIOUS
    <3>3. (node .. Len(rev.nodes)) \ {node} = node + 1 .. Len(rev.nodes)
      BY <3>1, <3>2
    <3> QED
      BY <2>1, <3>1, <3>3
  <2>4. Numbered(node + 1, base)
    BY <2>1, <2>3 DEF Numbered
  <2> QED
    BY <1>1, <2>1, <2>2, <2>4 DEF NumberHolds, MatchHolds, program
<1> HIDE DEF base, seq
<1>7. ASSUME NEW i \in 1 .. n, NEW r, NumberHolds(about, i - 1, r)
      PROVE  NumberHolds(about, i, MatchOp(node, r, seq[i]))
  <2>1. i \in DOMAIN Matches[about.program]
    BY <1>1, <1>4
  <2>2. NumberHolds(about, i, Match(r, about.node, i))
    BY <1>7, <2>1, MatchNumbers
  <2> QED
    BY <1>1, <1>5, <2>2 DEF MatchOp
<1>8. Numbering!Kept(about, node, base, seq, n)
  BY <1>6, <1>7 DEF Numbering!Kept
<1>9. NumberHolds(about, n, Numbering!Fold(node, base, seq))
  BY <1>4, <1>5, <1>8, Numbering!FoldKeeps
<1> QED
  BY <1>1, <1>2, <1>9 DEF NumberHolds

LEMMA NextNumbers ==
    ASSUME NEW root, NEW n \in Nat, NEW rev, ProgressHolds(root, n, rev)
    PROVE  ProgressHolds(root, n + 1, ExpandNext(rev))
<1>1. SoundSpace(root, rev) /\ Numbered(n + 1, rev)
  BY DEF ProgressHolds
<1>2. SoundSpace(root, ExpandNext(rev))
  BY <1>1, NextExpands
<1>3. /\ rev.work = n + 1 .. Len(rev.nodes) /\ Len(rev.nodes) \in Nat
      /\ DOMAIN rev.nodes = 1 .. Len(rev.nodes)
  BY <1>1 DEF Numbered, SoundSpace
<1>4. CASE rev.work = {}
  <2>1. n + 2 .. Len(rev.nodes) = {}
    <3>1. \A b \in Nat : n + 1 .. b = {} => n + 2 .. b = {}
      <4>1. SUFFICES ASSUME NEW b \in Nat, n + 1 .. b = {}, NEW k \in n + 2 .. b PROVE FALSE
        OBVIOUS
      <4>2. n + 1 \in n + 1 .. b
        OBVIOUS
      <4> QED
        BY <4>1, <4>2
    <3> QED
      BY <1>3, <1>4, <3>1
  <2>2. Numbered(n + 2, rev)
    BY <1>1, <1>4, <2>1 DEF Numbered
  <2> QED
    BY <1>2, <1>4, <2>2 DEF ProgressHolds, ExpandNext
<1>5. CASE rev.work # {}
  <2>1. n + 1 \in rev.work /\ \A m \in rev.work : n + 1 <= m
    BY <1>3, <1>5
  <2>2. Least(rev.work) = n + 1
    BY <1>3, <2>1 DEF Least
  <2>3. n + 1 \in DOMAIN rev.nodes
    BY <1>3, <2>1
  <2>4. Numbered((n + 1) + 1, ExpandNode(rev, n + 1))
    BY <1>1, <2>3, NodeNumbers
  <2> QED
    BY <1>2, <1>5, <2>2, <2>4 DEF ProgressHolds, ExpandNext
<1> QED
  BY <1>4, <1>5

\* What n steps make of a revision, its status aside.
Iterated(rev, n) == Expanding!Fold(0, rev, [i \in 1 .. n |-> i])

LEMMA RootProgresses ==
    ASSUME NEW p \in Good, NEW n \in Nat
    PROVE  ProgressHolds(p, n, Iterated(Root(p), n))
<1> DEFINE seq == [i \in 1 .. n |-> i]
<1>1. Iterated(Root(p), n) = Progressing!Fold(0, Root(p), seq)
  BY DEF Iterated, Progressing!Fold, Progressing!FoldLeft, Expanding!Fold, Expanding!FoldLeft,
     Progressing!MapThenFoldSet, Progressing!Max, Expanding!MapThenFoldSet, Expanding!Max
<1>2. DOMAIN seq = 1 .. n
  OBVIOUS
<1> HIDE DEF seq
<1>3. ProgressHolds(p, 0, Root(p))
  <2>1. SoundSpace(p, Root(p))
    BY RootIsSound
  <2>2. Root(p).nodes = <<p>> /\ Root(p).work = {1}
    BY DEF Root
  <2>3. Len(<<p>>) = 1 /\ DOMAIN <<p>> = {1} /\ 0 + 1 .. 1 = {1}
    OBVIOUS
  <2>4. Numbered(0 + 1, Root(p))
    BY <2>2, <2>3 DEF Numbered
  <2> QED
    BY <2>1, <2>4 DEF ProgressHolds
<1>4. ASSUME NEW i \in 1 .. n, NEW r, ProgressHolds(p, i - 1, r)
      PROVE  ProgressHolds(p, i, ExpandOp(0, r, seq[i]))
  <2>1. i - 1 \in Nat /\ (i - 1) + 1 = i
    OBVIOUS
  <2> QED
    BY <1>4, <2>1, NextNumbers DEF ExpandOp
<1>5. Progressing!Kept(p, 0, Root(p), seq, n)
  BY <1>3, <1>4 DEF Progressing!Kept
<1> QED
  BY <1>1, <1>2, <1>5, Progressing!FoldKeeps

\* As many steps as there are programs leave nothing to expand.
LEMMA AllStepsSuffice ==
    ASSUME NEW p \in Good
    PROVE  Cardinality(Impls) \in Nat /\ Iterated(Root(p), Cardinality(Impls)).work = {}
<1> DEFINE all == Cardinality(Impls)
           rev == Iterated(Root(p), all)
<1>1. all \in Nat
  BY ImplsAreFinite, FS_CardinalityType
<1>2. SoundSpace(p, rev) /\ Numbered(all + 1, rev)
  BY <1>1, RootProgresses DEF ProgressHolds
<1> HIDE DEF rev
<1>3. Len(rev.nodes) \in Nat /\ rev.nodes \in [1 .. Len(rev.nodes) -> Impls]
  BY <1>2 DEF SoundSpace, Good
<1>4. rev.nodes \in Injection(1 .. Len(rev.nodes), Impls)
  BY <1>2, <1>3 DEF Numbered, Injection, IsInjective
<1>5. Cardinality(1 .. Len(rev.nodes)) <= all
  BY <1>4, ImplsAreFinite, FS_Injection
<1>6. Cardinality(1 .. Len(rev.nodes)) = Len(rev.nodes)
  <2>1. ASSUME NEW k \in Nat PROVE Cardinality(1 .. k) = k
    <3>1. Cardinality(1 .. k) = IF 1 > k THEN 0 ELSE k - 1 + 1
      BY FS_Interval
    <3> QED
      BY <3>1
  <2> QED
    BY <1>3, <2>1
<1>7. rev.work = all + 1 .. Len(rev.nodes)
  BY <1>2 DEF Numbered
<1> HIDE DEF all
<1> QED
  BY <1>1, <1>3, <1>5, <1>6, <1>7 DEF rev, all

LEMMA IteratedZero ==
    ASSUME NEW rev
    PROVE  Iterated(rev, 0) = rev
<1>1. DOMAIN [i \in 1 .. 0 |-> i] = {}
  OBVIOUS
<1> QED
  BY <1>1, Expanding!FoldEmpty DEF Iterated

LEMMA IteratedNext ==
    ASSUME NEW rev, NEW n \in Nat
    PROVE  Iterated(rev, n + 1) = ExpandNext(Iterated(rev, n))
<1> DEFINE seq == [i \in 1 .. n |-> i]
           more == [i \in 1 .. n + 1 |-> i]
<1>1. seq \in Seq(Nat)
  OBVIOUS
<1>2. more = Append(seq, n + 1)
  <2>1. Len(seq) = n
    OBVIOUS
  <2> QED
    BY <1>1, <2>1
<1> HIDE DEF seq, more
<1>3. Expanding!Fold(0, rev, Append(seq, n + 1)) = ExpandOp(0, Expanding!Fold(0, rev, seq), n + 1)
  BY <1>1, Expanding!FoldAppend
<1> QED
  BY <1>2, <1>3 DEF Iterated, ExpandOp, seq, more

\* One request after another is one of their fuels together.
LEMMA IteratedAdds ==
    ASSUME NEW rev, NEW a \in Nat, NEW b \in Nat
    PROVE  Iterated(Iterated(rev, a), b) = Iterated(rev, a + b)
<1> DEFINE T == {i \in 0 .. b : Iterated(Iterated(rev, a), i) = Iterated(rev, a + i)}
<1>1. 0 \in T
  <2>1. Iterated(Iterated(rev, a), 0) = Iterated(rev, a)
    BY IteratedZero
  <2>2. a + 0 = a
    OBVIOUS
  <2> QED
    BY <2>1, <2>2
<1>2. ASSUME NEW i \in 0 .. b - 1, i \in T PROVE i + 1 \in T
  <2>1. Iterated(Iterated(rev, a), i + 1) = ExpandNext(Iterated(Iterated(rev, a), i))
    BY IteratedNext
  <2>2. Iterated(rev, (a + i) + 1) = ExpandNext(Iterated(rev, a + i))
    BY IteratedNext
  <2>3. (a + i) + 1 = a + (i + 1) /\ i + 1 \in 0 .. b
    OBVIOUS
  <2> QED
    BY <1>2, <2>1, <2>2, <2>3
<1> HIDE DEF T
<1>3. 0 .. b \subseteq T
  BY <1>1, <1>2, Expanding!UpTo
<1>4. b \in T
  BY <1>3
<1> QED
  BY <1>4 DEF T

\* Nothing happens once there is nothing to expand.
LEMMA IteratedStays ==
    ASSUME NEW rev, rev.work = {}, NEW n \in Nat
    PROVE  Iterated(rev, n) = rev
<1> DEFINE T == {i \in 0 .. n : Iterated(rev, i) = rev}
<1>1. 0 \in T
  BY IteratedZero
<1>2. ASSUME NEW i \in 0 .. n - 1, i \in T PROVE i + 1 \in T
  <2>1. Iterated(rev, i + 1) = ExpandNext(Iterated(rev, i))
    BY IteratedNext
  <2>2. Iterated(rev, i) = rev /\ i + 1 \in 0 .. n
    BY <1>2
  <2> QED
    BY <2>1, <2>2 DEF ExpandNext
<1> HIDE DEF T
<1>3. 0 .. n \subseteq T
  BY <1>1, <1>2, Expanding!UpTo
<1>4. n \in T
  BY <1>3
<1> QED
  BY <1>4 DEF T

---------------------------------------------------------------------------
\* The status of a revision has no part in its expansion.
SameSpace(rev, other) ==
    /\ rev = [x \in SpaceFields |-> rev[x]] /\ other = [x \in SpaceFields |-> other[x]]
    /\ rev.nodes = other.nodes /\ rev.edges = other.edges /\ rev.work = other.work

LEMMA MatchSame ==
    ASSUME NEW rev, NEW other, SameSpace(rev, other), NEW node, NEW i
    PROVE  SameSpace(Match(rev, node, i), Match(other, node, i))
<1> DEFINE p == Matches[rev.nodes[node]][i]
           new == Len(rev.nodes) + 1
<1>1. /\ rev = [x \in SpaceFields |-> rev[x]] /\ other = [x \in SpaceFields |-> other[x]]
      /\ rev.nodes = other.nodes /\ rev.edges = other.edges /\ rev.work = other.work
  BY DEF SameSpace
<1>2. CASE p = rev.nodes[node]
  BY <1>1, <1>2 DEF Match
<1>3. CASE p # rev.nodes[node] /\ p \in ToSet(rev.nodes)
  <2> DEFINE edges == rev.edges \cup {<<node, NodeOf(rev, p), i>>}
             made == [rev EXCEPT !.edges = edges]
             also == [other EXCEPT !.edges = edges]
  <2>1. NodeOf(rev, p) = NodeOf(other, p)
    BY <1>1 DEF NodeOf
  <2>2. Match(rev, node, i) = made /\ Match(other, node, i) = also
    BY <1>1, <1>3, <2>1 DEF Match
  <2> HIDE DEF edges
  <2>3. SameSpace(made, also)
    BY <1>1 DEF SameSpace, SpaceFields
  <2> QED
    BY <2>2, <2>3
<1>4. CASE p # rev.nodes[node] /\ p \notin ToSet(rev.nodes)
  <2> DEFINE edges == rev.edges \cup {<<node, new, i>>}
             nodes == Append(rev.nodes, p)
             work == rev.work \cup {new}
             made == [rev EXCEPT !.nodes = nodes, !.edges = edges, !.work = work]
             also == [other EXCEPT !.nodes = nodes, !.edges = edges, !.work = work]
  <2>1. Match(rev, node, i) = made /\ Match(other, node, i) = also
    BY <1>1, <1>4 DEF Match
  <2> HIDE DEF edges, nodes, work
  <2>2. SameSpace(made, also)
    BY <1>1 DEF SameSpace, SpaceFields
  <2> QED
    BY <2>1, <2>2
<1> QED
  BY <1>2, <1>3, <1>4

LEMMA NodeSame ==
    ASSUME NEW rev, NEW other, SameSpace(rev, other), NEW node, NEW n \in Nat,
           DOMAIN Matches[rev.nodes[node]] = 1 .. n
    PROVE  SameSpace(ExpandNode(rev, node), ExpandNode(other, node))
<1> DEFINE seq == [i \in DOMAIN Matches[rev.nodes[node]] |-> i]
           base == [rev EXCEPT !.work = @ \ {node}]
           also == [other EXCEPT !.work = @ \ {node}]
<1>1. rev.nodes = other.nodes
  BY DEF SameSpace
<1>2. /\ ExpandNode(rev, node) = Matching!Fold(node, base, seq)
      /\ ExpandNode(other, node) = Matching!Fold(node, also, seq)
  <2>1. ExpandNode(rev, node) = Matching!Fold(node, base, seq)
    BY DEF ExpandNode, MatchOp, Matching!Fold, Matching!FoldLeft, FoldLeft,
       Matching!MapThenFoldSet, MapThenFoldSet, Matching!Max, Max
  <2>2. ExpandNode(other, node)
            = Matching!Fold(node, also, [i \in DOMAIN Matches[other.nodes[node]] |-> i])
    BY DEF ExpandNode, MatchOp, Matching!Fold, Matching!FoldLeft, FoldLeft,
       Matching!MapThenFoldSet, MapThenFoldSet, Matching!Max, Max
  <2> QED
    BY <1>1, <2>1, <2>2
<1>3. SameSpace(base, also)
  BY DEF SameSpace, SpaceFields
<1>4. DOMAIN seq = 1 .. n
  OBVIOUS
<1> HIDE DEF base, also, seq
<1>5. PICK h : Matching!Iterates(node, base, seq, n, h) /\ Matching!Fold(node, base, seq) = h[1 .. n]
  BY <1>4, Matching!FoldIs
<1>6. PICK k : Matching!Iterates(node, also, seq, n, k) /\ Matching!Fold(node, also, seq) = k[1 .. n]
  BY <1>4, Matching!FoldIs
<1> DEFINE T == {i \in 0 .. n : SameSpace(h[1 .. i], k[1 .. i])}
<1>7. 0 \in T
  <2>1. h[1 .. 0] = base
    BY <1>5, Matching!IterateFirst
  <2>2. k[1 .. 0] = also
    BY <1>6, Matching!IterateFirst
  <2> QED
    BY <1>3, <2>1, <2>2
<1>8. ASSUME NEW i \in 0 .. n - 1, i \in T PROVE i + 1 \in T
  <2>1. h[1 .. i + 1] = Match(h[1 .. i], node, seq[i + 1])
    BY <1>5, Matching!IterateNext DEF MatchOp
  <2>2. k[1 .. i + 1] = Match(k[1 .. i], node, seq[i + 1])
    BY <1>6, Matching!IterateNext DEF MatchOp
  <2>3. SameSpace(h[1 .. i], k[1 .. i]) /\ i + 1 \in 0 .. n
    BY <1>8
  <2>4. SameSpace(Match(h[1 .. i], node, seq[i + 1]), Match(k[1 .. i], node, seq[i + 1]))
    BY <2>3, MatchSame
  <2> QED
    BY <2>1, <2>2, <2>3, <2>4
<1> HIDE DEF T
<1>9. 0 .. n \subseteq T
  BY <1>7, <1>8, Matching!UpTo
<1>10. n \in T
  BY <1>9
<1> QED
  BY <1>2, <1>5, <1>6, <1>10 DEF T

LEMMA NextSame ==
    ASSUME NEW root, NEW rev, SoundSpace(root, rev), NEW other, SameSpace(rev, other)
    PROVE  SameSpace(ExpandNext(rev), ExpandNext(other))
<1>1. rev.work = other.work
  BY DEF SameSpace
<1>2. CASE rev.work = {}
  BY <1>1, <1>2 DEF ExpandNext
<1>3. CASE rev.work # {}
  <2> DEFINE node == Least(rev.work)
             n == Len(Matches[rev.nodes[node]])
  <2>1. node \in DOMAIN rev.nodes
    BY <1>3, LeastWorks
  <2> HIDE DEF node
  <2>2. rev.nodes[node] \in Impls
    BY <2>1 DEF SoundSpace, Good
  <2>3. Matches[rev.nodes[node]] \in Seq(Impls)
    BY <2>2, ImplAssumption
  <2>4. n \in Nat /\ DOMAIN Matches[rev.nodes[node]] = 1 .. n
    BY <2>3
  <2>5. SameSpace(ExpandNode(rev, node), ExpandNode(other, node))
    BY <2>4, NodeSame
  <2> QED
    BY <1>1, <1>3, <2>5 DEF ExpandNext, node
<1> QED
  BY <1>2, <1>3

LEMMA IteratedSound ==
    ASSUME NEW root, NEW rev, SoundSpace(root, rev), NEW n \in Nat
    PROVE  SoundSpace(root, Iterated(rev, n))
<1> DEFINE seq == [i \in 1 .. n |-> i]
<1>1. DOMAIN seq = 1 .. n
  OBVIOUS
<1> HIDE DEF seq
<1>2. Expanding!Kept(root, 0, rev, seq, n)
  BY NextExpands DEF Expanding!Kept, ExpandHolds, ExpandOp
<1>3. SoundSpace(root, Expanding!Fold(0, rev, seq))
  BY <1>1, <1>2, Expanding!FoldKeeps DEF ExpandHolds
<1> QED
  BY <1>3 DEF Iterated, seq

LEMMA IteratedSame ==
    ASSUME NEW root, NEW rev, SoundSpace(root, rev), NEW other, SameSpace(rev, other), NEW n \in Nat
    PROVE  SameSpace(Iterated(rev, n), Iterated(other, n))
<1> DEFINE T == {i \in 0 .. n : SameSpace(Iterated(rev, i), Iterated(other, i))}
<1>1. 0 \in T
  BY IteratedZero
<1>2. ASSUME NEW i \in 0 .. n - 1, i \in T PROVE i + 1 \in T
  <2>1. /\ Iterated(rev, i + 1) = ExpandNext(Iterated(rev, i))
        /\ Iterated(other, i + 1) = ExpandNext(Iterated(other, i))
    BY IteratedNext
  <2>2. SoundSpace(root, Iterated(rev, i))
    BY IteratedSound
  <2>3. SameSpace(ExpandNext(Iterated(rev, i)), ExpandNext(Iterated(other, i)))
    BY <1>2, <2>2, NextSame
  <2> QED
    BY <2>1, <2>3
<1> HIDE DEF T
<1>3. 0 .. n \subseteq T
  BY <1>1, <1>2, Expanding!UpTo
<1>4. n \in T
  BY <1>3
<1> QED
  BY <1>4 DEF T

---------------------------------------------------------------------------
\* A request is so many steps and a status, which says whether work is left.
LEMMA ExpandedIs ==
    ASSUME NEW root, NEW rev, SoundSpace(root, rev), NEW fuel \in Nat
    PROVE  /\ SameSpace(Expanded(rev, fuel), Iterated(rev, fuel))
           /\ Expanded(rev, fuel).status =
                  IF Iterated(rev, fuel).work = {} THEN "FixedPoint" ELSE "FuelExhausted"
<1> DEFINE last == Iterated(rev, fuel)
           status == IF last.work = {} THEN "FixedPoint" ELSE "FuelExhausted"
           made == [last EXCEPT !.status = status]
<1>1. Expanded(rev, fuel) = made
  BY DEF Expanded, Iterated, ExpandOp, Expanding!Fold, Expanding!FoldLeft, FoldLeft,
     Expanding!MapThenFoldSet, MapThenFoldSet, Expanding!Max, Max
<1>2. last = [x \in SpaceFields |-> last[x]]
  <2>1. SoundSpace(root, last)
    BY IteratedSound
  <2> QED
    BY <2>1 DEF SoundSpace
<1> HIDE DEF last, status
<1>3. SameSpace(made, last) /\ made.status = status
  BY <1>2 DEF SameSpace, SpaceFields
<1> QED
  BY <1>1, <1>3 DEF last, status

\* All the steps reach what they reach from a revision that one more request has expanded.
LEMMA ChunkReachesSame ==
    ASSUME NEW root, NEW rev, SoundSpace(root, rev), NEW fuel \in Nat, NEW all \in Nat,
           Iterated(rev, all).work = {}
    PROVE  Expanded(Expanded(rev, fuel), all) = Expanded(rev, all)
<1> DEFINE next == Expanded(rev, fuel)
           last == Iterated(rev, fuel)
           end == Iterated(rev, all)
<1>1. SoundSpace(root, next) /\ SoundSpace(root, last)
  BY ExpandedIsSound, IteratedSound
<1>2. SameSpace(next, last)
  BY ExpandedIs
<1>3. Iterated(last, all) = end
  <2>1. Iterated(last, all) = Iterated(rev, fuel + all)
    BY IteratedAdds
  <2>2. Iterated(end, fuel) = Iterated(rev, all + fuel)
    BY IteratedAdds
  <2>3. Iterated(end, fuel) = end
    <3> HIDE DEF end
    <3>1. end.work = {}
      BY DEF end
    <3> QED
      BY <3>1, IteratedStays
  <2>4. fuel + all = all + fuel
    OBVIOUS
  <2> QED
    BY <2>1, <2>2, <2>3, <2>4
<1> HIDE DEF next, last
<1>4. SameSpace(Iterated(next, all), end)
  BY <1>1, <1>2, <1>3, IteratedSame
<1>5. /\ SameSpace(Expanded(next, all), Iterated(next, all))
      /\ Expanded(next, all).status =
             IF Iterated(next, all).work = {} THEN "FixedPoint" ELSE "FuelExhausted"
  BY <1>1, ExpandedIs
<1>6. /\ SameSpace(Expanded(rev, all), end)
      /\ Expanded(rev, all).status = IF end.work = {} THEN "FixedPoint" ELSE "FuelExhausted"
  BY ExpandedIs
<1> DEFINE x == Expanded(next, all)
           y == Expanded(rev, all)
           z == Iterated(next, all)
<1> HIDE DEF x, y, z, end
<1>7. x.status = y.status /\ x.nodes = y.nodes /\ x.edges = y.edges /\ x.work = y.work
  BY <1>4, <1>5, <1>6 DEF SameSpace, x, y, z
<1>8. x = [f \in SpaceFields |-> x[f]] /\ y = [f \in SpaceFields |-> y[f]]
  BY <1>5, <1>6 DEF SameSpace, x, y, z
<1>9. x = y
  BY <1>7, <1>8 DEF SpaceFields
<1> QED
  BY <1>9 DEF x, y, next

\* A space is grown by requests from its root.
GrownByChunks(revisions) ==
    LET all == Cardinality(Impls)
    IN /\ \E p \in Good : revisions[1] = Root(p)
       /\ \A v \in DOMAIN revisions : Expanded(revisions[v], all) = Expanded(revisions[1], all)

CInv == \A s \in DOMAIN equality.spaces : GrownByChunks(equality.spaces[s].revisions)

LEMMA ChunkGrows ==
    ASSUME NEW root, NEW revisions, IsLog(revisions), revisions # <<>>, GrownByChunks(revisions),
           \A v \in DOMAIN revisions : SoundSpace(root, revisions[v]),
           NEW fuel \in Nat, NEW grown,
           grown = Append(revisions, Expanded(revisions[Len(revisions)], fuel))
    PROVE  GrownByChunks(grown)
<1> DEFINE all == Cardinality(Impls)
           n == Len(revisions)
           next == Expanded(revisions[n], fuel)
<1>1. PICK p \in Good : revisions[1] = Root(p)
  BY DEF GrownByChunks
<1>2. \A v \in DOMAIN revisions : Expanded(revisions[v], all) = Expanded(Root(p), all)
  BY <1>1 DEF GrownByChunks
<1>3. all \in Nat /\ Iterated(Root(p), all).work = {}
  BY AllStepsSuffice
<1>4. n \in Nat /\ DOMAIN revisions = 1 .. n /\ n \in DOMAIN revisions /\ 1 \in DOMAIN revisions
  <2>1. PICK S : revisions \in Seq(S)
    BY DEF IsLog
  <2> QED
    BY <2>1
<1>5. SoundSpace(root, revisions[n]) /\ SoundSpace(root, Root(p))
  BY <1>1, <1>4
<1> HIDE DEF all
<1>6. Iterated(revisions[n], all).work = {}
  <2>1. SameSpace(Expanded(Root(p), all), Iterated(Root(p), all))
    BY <1>3, <1>5, ExpandedIs
  <2>2. SameSpace(Expanded(revisions[n], all), Iterated(revisions[n], all))
    BY <1>3, <1>5, ExpandedIs
  <2>3. Expanded(revisions[n], all) = Expanded(Root(p), all)
    BY <1>2, <1>4
  <2> QED
    BY <1>3, <2>1, <2>2, <2>3 DEF SameSpace
<1>7. Expanded(next, all) = Expanded(Root(p), all)
  <2>1. Expanded(next, all) = Expanded(revisions[n], all)
    BY <1>3, <1>5, <1>6, ChunkReachesSame
  <2> QED
    BY <1>2, <1>4, <2>1
<1> HIDE DEF next
<1>8. Extends(revisions, grown, next)
  BY AppendFacts DEF next
<1>9. grown[1] = Root(p)
  BY <1>1, <1>4, <1>8 DEF Extends
<1>10. \A v \in DOMAIN grown : Expanded(grown[v], all) = Expanded(Root(p), all)
  BY <1>2, <1>7, <1>8 DEF Extends, n
<1> QED
  BY <1>9, <1>10 DEF GrownByChunks, all

LEMMA InitChunks == Init => CInv
  BY DEF Init, EmptyStore, CInv

LEMMA NextChunks == IInv /\ CInv /\ [Next]_vars => CInv'
<1> SUFFICES ASSUME IInv, CInv, [Next]_vars PROVE CInv'
  OBVIOUS
<1>1. FInv(forest) /\ EInv(equality, forest)
  BY DEF IInv
<1>2. /\ equality = [x \in {"spaces", "events"} |-> equality[x]]
      /\ IsLog(equality.spaces)
  BY <1>1 DEF EInv
<1>3. ASSUME equality'.spaces = equality.spaces PROVE CInv'
  BY <1>3 DEF CInv
<1>4. CASE CreateSpace
  <2>1. PICK r \in Revisions(forest) :
            CanAnchor(forest, r) /\ equality' = SpaceCreated(equality, forest, r)
    BY <1>4 DEF CreateSpace
  <2> DEFINE p == forest.revisions[r].impl
             first == Root(p)
             space == [anchor |-> r, revisions |-> <<first>>]
  <2>2. p \in Good
    <3>1. AllProved(forest.revisions[r].debt)
      BY <2>1 DEF CanAnchor
    <3>2. p \in Impls
      BY <1>1 DEF FInv, SoundRevision, IsRevision
    <3> QED
      BY <1>1, <3>1, <3>2, ProvedIsExact DEF Good
  <2>3. GrownByChunks(<<first>>)
    <3> HIDE DEF p, first
    <3>1. DOMAIN <<first>> = {1} /\ <<first>>[1] = first
      OBVIOUS
    <3> QED
      BY <2>2, <3>1 DEF GrownByChunks, first
  <2>4. equality'.spaces = Append(equality.spaces, space)
    <3> HIDE DEF first
    <3> QED
      BY <1>2, <2>1 DEF SpaceCreated, Logged, first
  <2>5. space.revisions = <<first>>
    OBVIOUS
  <2> HIDE DEF space
  <2>6. Extends(equality.spaces, equality'.spaces, space)
    BY <1>2, <2>4, AppendFacts
  <2> QED
    BY <2>3, <2>5, <2>6 DEF CInv, Extends
<1>5. CASE Expand
  <2>1. PICK s \in DOMAIN equality.spaces, fuel \in 1 .. FuelLimit :
            equality' = SpaceExpanded(equality, forest, s, fuel)
    BY <1>5 DEF Expand
  <2> DEFINE space == equality.spaces[s]
             root == forest.revisions[space.anchor].impl
             next == Expanded(SpaceHead(equality, s), fuel)
             grown == [space EXCEPT !.revisions = Append(@, next)]
             spaces == [equality.spaces EXCEPT ![s] = grown]
  <2>2. SoundEntry(forest, space)
    BY <1>1 DEF EInv
  <2>3. fuel \in Nat
    BY EqualityLimitsAssumption
  <2>4. /\ space = [x \in {"anchor", "revisions"} |-> space[x]] /\ IsLog(space.revisions)
        /\ space.revisions # <<>>
        /\ \A v \in DOMAIN space.revisions : SoundSpace(root, space.revisions[v])
    BY <2>2 DEF SoundEntry
  <2>5. equality'.spaces = spaces
    <3> HIDE DEF next
    <3> QED
      BY <1>2, <2>1 DEF SpaceExpanded, Logged, next
  <2>6. grown.revisions = Append(space.revisions, Expanded(space.revisions[Len(space.revisions)], fuel))
    BY <2>4 DEF SpaceHead
  <2>7. GrownByChunks(space.revisions)
    BY DEF CInv
  <2> HIDE DEF space, root, next
  <2>8. GrownByChunks(grown.revisions)
    <3> DEFINE revisions == grown.revisions
    <3> HIDE DEF grown
    <3> QED
      BY <2>3, <2>4, <2>6, <2>7, ChunkGrows
  <2> HIDE DEF grown
  <2>9. /\ DOMAIN spaces = DOMAIN equality.spaces /\ spaces[s] = grown
        /\ \A t \in DOMAIN equality.spaces : t # s => spaces[t] = equality.spaces[t]
    BY <1>2, LogReplaced
  <2> HIDE DEF spaces
  <2>10. ASSUME NEW t \in DOMAIN equality'.spaces PROVE GrownByChunks(equality'.spaces[t].revisions)
    BY <2>5, <2>8, <2>9 DEF CInv
  <2> QED
    BY <2>10 DEF CInv
<1>6. CASE Discharge
  BY <1>2, <1>3, <1>6 DEF Discharge, DischargedStore, Logged
<1>7. CASE Materialize
  BY <1>2, <1>3, <1>7 DEF Materialize, MaterializedStore, Logged
<1>8. CASE UNCHANGED equality
  BY <1>3, <1>8
<1> QED
  BY <1>4, <1>5, <1>6, <1>7, <1>8 DEF Next, CreateCandidate, ApplyRewrite, Propose, CheckTranslation,
     Fork, Validate, Seal, vars

\* Whatever the fuels of its requests, a space has the nodes, the edges and the
\* numbers that one unbounded request gives it.
THEOREM ChunksInvisible == Spec => []ChunksAreInvisible
<1>1. CInv => ChunksAreInvisible
  BY DEF CInv, GrownByChunks, ChunksAreInvisible
<1> QED
  BY <1>1, InitChunks, NextChunks, OptimizationInductive, PTL DEF Spec
=============================================================================
