---------------------------- MODULE CampaignsProofs ----------------------------
(***************************************************************************)
(* Theorems about Campaigns for every set of plans, tasks and artifacts,   *)
(* every order of hashes, every timing and every limit, and about the      *)
(* harness of Evaluation, whose searches a campaign runs.                  *)
(*                                                                         *)
(* None of the properties is inductive.  IInv says of every campaign that  *)
(* is known, running, checkpointed or archived, what its status stands     *)
(* for: its search is a run of units from the root (however it was cut     *)
(* into advances), every slot before the next one holds a record of the    *)
(* store, planned for it and in no other slot, its undecided journal is    *)
(* the last one and saw all that was used before it, and its cohort and    *)
(* recommendation are those of its slots.  All of it stays true when the   *)
(* store grows, so a campaign may wait for ever to be resumed.             *)
(* HarnessInv says that every episode is what the compiler answers to its  *)
(* own actions, and every search a run of units or its cancellation.       *)
(***************************************************************************)
EXTENDS Campaigns, Evaluation, FiniteSetTheorems, WellFoundedInduction, TLAPS

\* The folds: units of a search, children of a node, artifacts of a list.
UnitOp(env, s, i) == Unit(s)
ChildOp(env, s, k) == IF k \in DOMAIN env.ranking THEN CreateChild(s, env.node, env.ranking[k]) ELSE s
ListOp(env, list, a) == IF a \in env THEN Append(list, a) ELSE list

CampaignFields == {"plan", "search", "artifacts", "acq", "journals", "cohort", "recommendation",
                   "status", "result", "work"}

Attempts == [artifact : Artifacts, anchor : {Machine},
             config : {CampaignPlans[p].config : p \in Names}, snapshot : Seq(MeasuredRecords)]

Journals == [slot : Nat, status : Settled \cup {"prepared", "indeterminate", "retry_authorized",
                                                "no_publication", "ambiguous", "blocked"},
             accepted : Nat, attempts : Seq(Attempts)]

\* The session an execution of a campaign needs, and what its slots hold.
Slots(c) == c.acq.slots

\* A slot is complete exactly when it is before the next one; it holds a record of the store, of the
\* artifact and the configuration it was planned for, and no two hold the same.
SessionSound(c, s) ==
    /\ AcquisitionPlan(c) \in AcquisitionPlans
    /\ c.acq \in SessionsOf(AcquisitionPlan(c))
    /\ c.acq.status = "Complete" <=> c.acq.next = Acq!TotalSlots(c.acq.plan)
    /\ \A i \in DOMAIN Slots(c) :
          IF i < c.acq.next
          THEN /\ Slots(c)[i].status = "Complete" /\ Slots(c)[i].id \in DOMAIN s
               /\ Slots(c)[i].hash = s[Slots(c)[i].id]
               /\ Slots(c)[i].hash.artifact = Acq!PlannedArtifact(c.acq.plan, i)
               /\ Slots(c)[i].hash.config = c.acq.plan.config
          ELSE Slots(c)[i] = Acq!PendingSlot
    /\ \A i, j \in DOMAIN Slots(c) :
          i < c.acq.next /\ j < c.acq.next /\ Slots(c)[i].id = Slots(c)[j].id => i = j

\* A journal is of a completed slot, or it is the last one, of the next slot, undecided: then its
\* attempt is for that slot and saw every record that was used before.
JournalSound(c, s, k) ==
    LET j == c.journals[k]
        attempt == Current(j)
    IN  /\ Len(j.attempts) > 0
        /\ \A n \in DOMAIN j.attempts : IsPrefix(j.attempts[n].snapshot, s)
        /\ j.status \in Settled => j.slot < c.acq.next
        /\ j.status \notin Settled =>
              /\ k = Len(c.journals) /\ j.slot = c.acq.next
              /\ c.acq.next < Acq!TotalSlots(c.acq.plan)
              /\ attempt.artifact = Acq!PlannedArtifact(c.acq.plan, c.acq.next)
              /\ attempt.config = c.acq.plan.config
              /\ \A i \in DOMAIN Slots(c) :
                    i < c.acq.next => Slots(c)[i].id <= Len(attempt.snapshot)

\* What is undecided has taken no record over.
NothingTaken(c) ==
    \A k \in DOMAIN c.journals : c.journals[k].status \notin Settled => c.journals[k].accepted = 0

\* Every slot that was filled has its journal.
SlotsHaveJournals(c) ==
    \A i \in DOMAIN Slots(c) : i < c.acq.next =>
        \E k \in DOMAIN c.journals :
            /\ c.journals[k].slot = i /\ c.journals[k].status \in Settled
            /\ Slots(c)[i].id > Len(Current(c.journals[k]).snapshot)

AcquisitionSound(c, s) ==
    /\ SessionSound(c, s)
    /\ c.journals \in Seq(Journals)
    /\ \A k \in DOMAIN c.journals : JournalSound(c, s, k)
    /\ SlotsHaveJournals(c)

Unmeasured == {"planned", "searching", "search_complete", "acquisition_prepared",
               "no_eligible_terminal", "failed"}

CampaignStatuses == Unmeasured \cup Measuring \cup {"acquiring", "recovery_required", "cancelled"}

\* The parts of a campaign and its status.
StatusSound(c) ==
    /\ c.status \in CampaignStatuses
    /\ c.acq = None => c.journals = <<>>
    /\ c.status \in Unmeasured => c.acq = None
    /\ c.status \in Measuring => c.acq # None /\ c.acq.status = "Complete"
    /\ c.status = "acquiring" =>
          /\ c.acq # None /\ c.acq.status = "Running"
          /\ c.journals # <<>> /\ Last(c.journals).status \in Settled
    /\ c.status = "recovery_required" =>
          /\ c.acq # None /\ c.acq.status = "Running"
          /\ c.journals # <<>> /\ Last(c.journals).status \notin Settled

\* What a search from its root has become.
Run(plan, n) == Advanced(StartSearch(plan), n)
Searching(c) == \E n \in Nat : c.search = Run(CampaignPlans[c.plan].search, n)

Unsearched == {"planned", "searching", "cancelled", "failed"}

\* The search that found the artifacts is over, and each of them is one that it found.
SearchSound(c) ==
    /\ c.status = "planned" => c.search = StartSearch(CampaignPlans[c.plan].search)
    /\ c.status \in {"planned", "searching"} => Searching(c)
    /\ c.status = "searching" => ~Stopped(c.search)
    /\ c.status \notin Unsearched \/ c.cohort # None \/ c.recommendation # None =>
          Searching(c) /\ c.search.status \in {"complete", "bounded"}
    /\ c.status \notin Unsearched \cup {"search_complete"}
            \/ c.cohort # None \/ c.recommendation # None =>
          \A a \in ToSet(c.artifacts) : \E n \in TerminalNodes(c.search) : a \in Published(c.search, n)
    /\ c.status \in {"acquisition_prepared", "acquiring", "recovery_required"} \cup Measuring =>
          c.artifacts \in ArtifactLists

\* The cohort is that of the measured slots, and the recommendation that of the cohort.
CohortSound(c, s) ==
    /\ c.cohort = Measured(c, s) /\ IsCohort(c.cohort, CampaignPlans[c.plan].rounds)
    /\ c.acq # None /\ c.acq.status = "Complete"

ResultSound(c, s) ==
    /\ c.status \in {"cohort_ready", "recommendation_ready", "complete"} \/ c.cohort # None =>
          CohortSound(c, s)
    /\ c.status \in {"recommendation_ready", "complete"} \/ c.recommendation # None =>
          CohortSound(c, s) /\ c.recommendation = Recommended(c)
    /\ c.result # None => c.status \in {"complete", "no_eligible_terminal"}
    /\ c.status \in Unmeasured \cup {"acquiring", "recovery_required", "acquisition_complete"} =>
          c.cohort = None /\ c.recommendation = None

\* Everything a campaign is known by, against the store.
Sound(c, s) ==
    /\ c = [f \in CampaignFields |-> c[f]] /\ c.plan \in Names
    /\ c.acq # None => AcquisitionSound(c, s) /\ NothingTaken(c)
    /\ StatusSound(c) /\ SearchSound(c) /\ ResultSound(c, s)

\* What two campaigns have both used one of them took over.
Apart(c, d) ==
    c.plan # d.plan => Used(c) \intersect Used(d) \subseteq TakenOver(c) \union TakenOver(d)

IInv ==
    /\ store \in Seq(MeasuredRecords)
    /\ campaigns = [p \in DOMAIN campaigns |-> campaigns[p]] /\ DOMAIN campaigns \subseteq Names
    /\ \A p \in DOMAIN campaigns : campaigns[p].plan = p
    /\ \A c \in Known : Sound(c, store)
    /\ \A c, d \in Known : Apart(c, d)
-----------------------------------------------------------------------------
\* Sequences and numbers.

\* A sequence, extended and changed in one place.
LEMMA SeqFacts ==
    ASSUME NEW S, NEW seq \in Seq(S)
    PROVE  /\ Len(seq) \in Nat /\ DOMAIN seq = 1 .. Len(seq)
           /\ \A i \in DOMAIN seq : seq[i] \in S
           /\ \A x \in S :
                 /\ Append(seq, x) \in Seq(S) /\ Len(Append(seq, x)) = Len(seq) + 1
                 /\ DOMAIN Append(seq, x) = DOMAIN seq \cup {Len(seq) + 1}
                 /\ Append(seq, x)[Len(seq) + 1] = x
                 /\ \A i \in DOMAIN seq : Append(seq, x)[i] = seq[i] /\ i # Len(seq) + 1
           /\ \A i \in DOMAIN seq, x \in S :
                 /\ [seq EXCEPT ![i] = x] \in Seq(S)
                 /\ Len([seq EXCEPT ![i] = x]) = Len(seq)
                 /\ DOMAIN [seq EXCEPT ![i] = x] = DOMAIN seq
                 /\ [seq EXCEPT ![i] = x][i] = x
                 /\ \A j \in DOMAIN seq : j # i => [seq EXCEPT ![i] = x][j] = seq[j]
  OBVIOUS

\* A set of numbers that is not empty has a least one.
LEMMA LeastIs ==
    ASSUME NEW S, S \subseteq Nat, S # {}
    PROVE  \E m \in S : \A n \in S : m <= n
<1>1. IsWellFoundedOn(OpToRel(<, Nat), Nat)
  BY NatLessThanWellFounded
<1>2. PICK m \in S : \A n \in S : ~ (<<n, m>> \in OpToRel(<, Nat))
  BY <1>1, WFMin
<1>3. \A n \in S : ~(n < m)
  BY <1>2 DEF OpToRel
<1> QED
  BY <1>3

\* Min is the least one.
LEMMA MinIs ==
    ASSUME NEW S, S \subseteq Nat, S # {}
    PROVE  Min(S) \in S /\ \A n \in S : Min(S) <= n
<1>1. \E m \in S : \A n \in S : m <= n
  BY LeastIs
<1> QED
  BY <1>1 DEF Min

-----------------------------------------------------------------------------
\* The search.  However it is cut into advances, it is one run of units from its root, and the
\* safety limit bounds the units that do anything.

SearchFields == {"plan", "nodes", "pending", "next", "depth", "terminals", "layers", "expansions",
                 "engines", "requests", "checkpoints", "status", "cancel", "rejected", "result"}

\* A session of this plan that nobody asked to stop.
OfPlan(plan, s) ==
    /\ s = [f \in SearchFields |-> s[f]]
    /\ s.plan = plan /\ s.cancel = FALSE
    /\ \E T : s.nodes \in Seq(T)

\* It is in a unit, after so many others.
ChildHolds(about, n, s) ==
    OfPlan(about.plan, s) /\ s.status = "running" /\ s.expansions = about.spent

Ends == {"complete", "bounded", "failed"}

\* After n units it has made n expansions or is over.
UnitHolds(plan, n, s) ==
    /\ OfPlan(plan, s)
    /\ \/ s.status = "running" /\ s.expansions = n /\ n <= SearchLimits.expansions
       \/ s.status \in Ends

Expanding == INSTANCE FoldFacts WITH Op <- ChildOp, Holds <- ChildHolds
Working == INSTANCE FoldFacts WITH Op <- UnitOp, Holds <- UnitHolds

\* Building an episode again changes no node.
LEMMA RebuiltHolds ==
    ASSUME NEW about, NEW n, NEW s, ChildHolds(about, n, s), NEW node
    PROVE  ChildHolds(about, n, Rebuilt(s, node)) /\ Rebuilt(s, node).nodes = s.nodes
  BY DEF ChildHolds, OfPlan, SearchFields, Rebuilt, Rejected

\* A rejected expansion is still of the plan.
LEMMA RejectedHolds ==
    ASSUME NEW about, NEW n, NEW s, ChildHolds(about, n, s)
    PROVE  ChildHolds(about, n, Rejected(s))
  BY DEF ChildHolds, OfPlan, SearchFields, Rejected

\* So is one that adopted a child, at the end or not.
LEMMA AdoptedHolds ==
    ASSUME NEW about, NEW n, NEW s, ChildHolds(about, n, s), NEW child
    PROVE  ChildHolds(about, n, Adopted(s, child))
<1>1. PICK T : s.nodes \in Seq(T)
  BY DEF ChildHolds, OfPlan
<1>2. Append(s.nodes, child) \in Seq(T \cup {child})
  <2>1. s.nodes \in Seq(T \cup {child})
    BY <1>1
  <2> QED
    BY <2>1
<1> DEFINE id == Len(s.nodes) + 1
           nodes == Append(s.nodes, child)
           made == [s EXCEPT !.requests = @ + 1, !.nodes = nodes]
           ended == [made EXCEPT !.terminals = Append(@, id)]
           other == [made EXCEPT !.next = Append(@, id)]
<1> HIDE DEF id
<1>3. Adopted(s, child) \in {made, ended, other}
  BY DEF Adopted, id
<1> HIDE DEF nodes
<1>4. \E S : nodes \in Seq(S)
  BY <1>2 DEF nodes
<1>5. /\ made = [f \in SearchFields |-> made[f]] /\ made.nodes = nodes /\ made.plan = s.plan
      /\ made.cancel = s.cancel /\ made.status = s.status /\ made.expansions = s.expansions
  BY DEF ChildHolds, OfPlan, SearchFields
<1> HIDE DEF made
<1>6. ChildHolds(about, n, made)
  BY <1>4, <1>5 DEF ChildHolds, OfPlan
<1>7. ChildHolds(about, n, ended) /\ ChildHolds(about, n, other)
  BY <1>6 DEF ChildHolds, OfPlan, SearchFields
<1> QED
  BY <1>3, <1>6, <1>7

\* The child of one choice, whatever becomes of it.
LEMMA CreateHolds ==
    ASSUME NEW about, NEW n, NEW m, NEW s, ChildHolds(about, n, s), NEW parent, NEW order
    PROVE  ChildHolds(about, m, CreateChild(s, parent, order))
<1> DEFINE rebuilt == Rebuilt(s, parent)
           child == Chosen(rebuilt, parent, order, Observed(rebuilt, parent))
<1>1. ChildHolds(about, m, s) /\ ChildHolds(about, m, Rejected(s)) /\ ChildHolds(about, m, rebuilt)
  BY RebuiltHolds, RejectedHolds DEF ChildHolds
<1>2. CreateChild(s, parent, order) \in {s, Rejected(s), Rejected(rebuilt), Adopted(rebuilt, child)}
  BY DEF CreateChild, WithChild
<1> HIDE DEF rebuilt, child
<1>3. ChildHolds(about, m, Rejected(rebuilt)) /\ ChildHolds(about, m, Adopted(rebuilt, child))
  BY <1>1, RejectedHolds, AdoptedHolds
<1> QED
  BY <1>1, <1>2, <1>3

\* All the children of a node.
LEMMA ExpandHolds ==
    ASSUME NEW about, NEW n, NEW s, ChildHolds(about, n, s), NEW node, about.plan.children \in Nat
    PROVE  ChildHolds(about, n, ExpandNode(s, node))
<1> DEFINE rebuilt == Rebuilt(s, node)
           episode == Observed(s, node)
           env == [node |-> node, ranking |-> Ranking(episode)]
           width == rebuilt.plan.children
           seq == [k \in 1 .. width |-> k]
<1>1. ChildHolds(about, 0, rebuilt)
  BY RebuiltHolds DEF ChildHolds
<1>2. env.node = node /\ env.ranking = Ranking(episode)
  OBVIOUS
<1> HIDE DEF env
<1>3. ExpandNode(s, node) \in {Rejected(rebuilt), Expanding!Fold(env, rebuilt, seq)}
  BY <1>2 DEF ExpandNode, WithChildren, ChildOp, Expanding!Fold, Expanding!FoldLeft, FoldLeft,
     Expanding!MapThenFoldSet, MapThenFoldSet, Expanding!Max, Max
<1>4. width \in Nat
  BY <1>1 DEF ChildHolds, OfPlan
<1> HIDE DEF rebuilt, width
<1>5. Expanding!Kept(about, env, rebuilt, seq, width)
  <2>1. ASSUME NEW i \in 1 .. width, NEW r, ChildHolds(about, i - 1, r)
        PROVE  ChildHolds(about, i, ChildOp(env, r, seq[i]))
    <3>1. ChildHolds(about, i, r) /\ ChildHolds(about, i, CreateChild(r, env.node, env.ranking[i]))
      BY <2>1, CreateHolds DEF ChildHolds
    <3> QED
      BY <3>1 DEF ChildOp
  <2> QED
    BY <1>1, <2>1 DEF Expanding!Kept
<1>6. ChildHolds(about, width, Expanding!Fold(env, rebuilt, seq))
  BY <1>4, <1>5, Expanding!FoldKeeps
<1>7. ChildHolds(about, n, Rejected(rebuilt))
  BY <1>1, RejectedHolds DEF ChildHolds
<1> QED
  BY <1>3, <1>6, <1>7 DEF ChildHolds

\* What a unit, or a layer's end, may make of a session: its outcome, and nothing else of what
\* UnitHolds asks.
LEMMA FinishHolds ==
    ASSUME NEW plan, NEW s, OfPlan(plan, s), NEW status \in Ends, NEW reason
    PROVE  OfPlan(plan, Finish(s, status, reason)) /\ Finish(s, status, reason).status \in Ends
  BY DEF OfPlan, SearchFields, Finish, Ends

\* The end of a layer keeps the plan and the count.
LEMMA LayerHolds ==
    ASSUME NEW plan, NEW s, OfPlan(plan, s), s.status = "running", NEW retained
    PROVE  LET after == Layered(s, retained)
           IN  /\ OfPlan(plan, after)
               /\ after.status \in Ends \/ (after.status = "running" /\ after.expansions = s.expansions)
<1> DEFINE layer == [s EXCEPT !.depth = @ + 1, !.pending = retained, !.next = <<>>,
                              !.layers = Append(@, retained)]
           done == Finish(s, "complete", "envelope_exhausted")
           bounded == Finish(layer, "bounded", "semantic_depth_horizon")
<1>1. Layered(s, retained) \in {s, done, bounded, layer}
  BY DEF Layered
<1>2. OfPlan(plan, layer) /\ layer.status = "running" /\ layer.expansions = s.expansions
  BY DEF OfPlan, SearchFields
<1> HIDE DEF layer
<1>3. "complete" \in Ends /\ "bounded" \in Ends
  BY DEF Ends
<1>4. OfPlan(plan, done) /\ done.status \in Ends /\ OfPlan(plan, bounded) /\ bounded.status \in Ends
  BY <1>2, <1>3, FinishHolds
<1> HIDE DEF done, bounded, layer
<1> QED
  <2>1. CASE Layered(s, retained) = s
    BY <2>1
  <2>2. CASE Layered(s, retained) = done
    BY <1>4, <2>2
  <2>3. CASE Layered(s, retained) = bounded
    BY <1>4, <2>3
  <2>4. CASE Layered(s, retained) = layer
    BY <1>2, <2>4
  <2> QED
    BY <1>1, <2>1, <2>2, <2>3, <2>4

\* What follows an expansion ends the search or goes on below the limit.
LEMMA AfterHolds ==
    ASSUME NEW plan, NEW n \in Nat, NEW s, ChildHolds([plan |-> plan, spent |-> n], n, s),
           n < SearchLimits.expansions
    PROVE  UnitHolds(plan, n + 1, AfterExpansion(s))
<1>1. OfPlan(plan, s) /\ s.status = "running" /\ s.expansions = n
  BY DEF ChildHolds
<1>2. "failed" \in Ends /\ SearchLimits.expansions \in Nat
  BY SearchAssumption DEF Ends
<1>3. \A t : OfPlan(plan, t) => OfPlan(plan, Rejected(t)) /\ UnitHolds(plan, n + 1, Fail(t))
  <2>1. SUFFICES ASSUME NEW t, OfPlan(plan, t)
                 PROVE  OfPlan(plan, Rejected(t)) /\ UnitHolds(plan, n + 1, Fail(t))
    OBVIOUS
  <2>2. OfPlan(plan, Rejected(t))
    BY <2>1 DEF OfPlan, SearchFields, Rejected
  <2>3. OfPlan(plan, Fail(t)) /\ Fail(t).status \in Ends
    BY <1>2, <2>1, FinishHolds DEF Fail
  <2> QED
    BY <2>2, <2>3 DEF UnitHolds
<1> DEFINE counted == [s EXCEPT !.expansions = @ + 1]
           due == counted.expansions % counted.plan.cadence = 0
           checked == [counted EXCEPT !.checkpoints = IF due THEN @ + 1 ELSE @]
           retained == FirstOf(checked.plan.beam, Sorted(checked, checked.next))
<1>4. AfterExpansion(s) \in {Fail(s), Fail(Rejected(counted)), Layered(checked, retained)}
  BY DEF AfterExpansion, Expanded, FinishLayer
<1>5. OfPlan(plan, counted) /\ counted.status = "running" /\ counted.expansions = n + 1
  BY <1>1 DEF OfPlan, SearchFields
<1> HIDE DEF counted, due
<1>6. OfPlan(plan, checked) /\ checked.status = "running" /\ checked.expansions = n + 1
  BY <1>5 DEF OfPlan, SearchFields
<1> HIDE DEF checked, retained
<1>7. UnitHolds(plan, n + 1, Layered(checked, retained))
  BY <1>2, <1>6, LayerHolds DEF UnitHolds
<1> QED
  BY <1>1, <1>3, <1>4, <1>5, <1>7

\* A unit is one more expansion, or the search is over.
LEMMA UnitKeeps ==
    ASSUME NEW plan, plan.children \in Nat, NEW n \in Nat, NEW s, UnitHolds(plan, n, s)
    PROVE  UnitHolds(plan, n + 1, Unit(s))
<1>1. CASE Stopped(s)
  BY <1>1 DEF UnitHolds, Unit, Stopped
<1>2. CASE ~Stopped(s)
  <2>1. /\ OfPlan(plan, s) /\ s.status = "running" /\ s.expansions = n
        /\ n <= SearchLimits.expansions /\ s.cancel = FALSE
    BY <1>2 DEF UnitHolds, Stopped, Ends, OfPlan
  <2>2. CASE n >= SearchLimits.expansions
    <3>1. Unit(s) = Fail(Rejected(s))
      BY <1>2, <2>1, <2>2 DEF Unit
    <3>2. OfPlan(plan, Rejected(s))
      BY <2>1 DEF OfPlan, SearchFields, Rejected
    <3>3. "failed" \in Ends
      BY DEF Ends
    <3> QED
      BY <3>1, <3>2, <3>3, FinishHolds DEF Fail, UnitHolds
  <2>3. CASE ~(n >= SearchLimits.expansions)
    <3> DEFINE about == [plan |-> plan, spent |-> n]
               taken == [s EXCEPT !.pending = Tail(@)]
               node == Head(s.pending)
    <3>1. Unit(s) = AfterExpansion(ExpandNode(taken, node))
      BY <1>2, <2>1, <2>3 DEF Unit
    <3>2. about.plan = plan /\ about.spent = n
      OBVIOUS
    <3> HIDE DEF node
    <3>3. ChildHolds(about, n, taken)
      BY <2>1, <3>2 DEF ChildHolds, OfPlan, SearchFields
    <3> HIDE DEF taken
    <3>4. ChildHolds(about, n, ExpandNode(taken, node))
      BY <3>2, <3>3, ExpandHolds
    <3>5. n < SearchLimits.expansions
      BY <2>1, <2>3, SearchAssumption
    <3> QED
      BY <3>1, <3>4, <3>5, AfterHolds
  <2> QED
    BY <2>2, <2>3
<1> QED
  BY <1>1, <1>2

-----------------------------------------------------------------------------
\* Runs.

\* An advance is a fold of units.
LEMMA AdvancedIs ==
    ASSUME NEW s, NEW n
    PROVE  Advanced(s, n) = Working!Fold(0, s, [i \in 1 .. n |-> i])
  BY DEF Advanced, UnitOp, Working!Fold, Working!FoldLeft, FoldLeft,
     Working!MapThenFoldSet, MapThenFoldSet, Working!Max, Max

\* An advance of no units is none.
LEMMA AdvancedNone == ASSUME NEW s PROVE Advanced(s, 0) = s
<1> DEFINE seq == [i \in 1 .. 0 |-> i]
<1>1. DOMAIN seq = {}
  OBVIOUS
<1> QED
  BY <1>1, AdvancedIs, Working!FoldEmpty

\* One unit more.
LEMMA AdvancedNext ==
    ASSUME NEW s, NEW n \in Nat
    PROVE  Advanced(s, n + 1) = Unit(Advanced(s, n))
<1> DEFINE seq == [i \in 1 .. n |-> i]
           more == [i \in 1 .. n + 1 |-> i]
<1>1. seq \in Seq(Nat) /\ more = Append(seq, n + 1)
  OBVIOUS
<1> HIDE DEF seq, more
<1>2. Working!Fold(0, s, more) = UnitOp(0, Working!Fold(0, s, seq), n + 1)
  BY <1>1, Working!FoldAppend
<1> QED
  BY <1>2, AdvancedIs DEF UnitOp, seq, more

\* Two advances are one of as many units: the cut does not matter.
LEMMA AdvancedTwice ==
    ASSUME NEW s, NEW n \in Nat, NEW m \in Nat
    PROVE  Advanced(Advanced(s, n), m) = Advanced(s, n + m)
<1> DEFINE T == {k \in 0 .. m : Advanced(Advanced(s, n), k) = Advanced(s, n + k)}
<1>1. 0 \in T
  BY AdvancedNone
<1>2. ASSUME NEW k \in 0 .. m - 1, k \in T PROVE k + 1 \in T
  <2>1. Advanced(Advanced(s, n), k + 1) = Unit(Advanced(s, n + k))
    BY <1>2, AdvancedNext
  <2>2. Advanced(s, (n + k) + 1) = Unit(Advanced(s, n + k))
    BY AdvancedNext
  <2>3. (n + k) + 1 = n + (k + 1)
    OBVIOUS
  <2> QED
    BY <2>1, <2>2, <2>3
<1> HIDE DEF T
<1>3. 0 .. m \subseteq T
  BY <1>1, <1>2, Working!UpTo
<1> QED
  BY <1>3 DEF T

\* What has stopped is changed by no further unit.
LEMMA StoppedStays ==
    ASSUME NEW s, Stopped(s), NEW m \in Nat
    PROVE  Advanced(s, m) = s
<1> DEFINE T == {k \in 0 .. m : Advanced(s, k) = s}
<1>1. 0 \in T
  BY AdvancedNone
<1>2. ASSUME NEW k \in 0 .. m - 1, k \in T PROVE k + 1 \in T
  <2>1. Advanced(s, k + 1) = Unit(s)
    BY <1>2, AdvancedNext
  <2>2. Unit(s) = s
    BY DEF Unit
  <2> QED
    BY <2>1, <2>2
<1> HIDE DEF T
<1>3. 0 .. m \subseteq T
  BY <1>1, <1>2, Working!UpTo
<1> QED
  BY <1>3 DEF T

\* A search starts with nothing spent.
LEMMA StartHolds ==
    ASSUME NEW plan
    PROVE  UnitHolds(plan, 0, StartSearch(plan))
<1> DEFINE session == [plan |-> plan, nodes |-> <<Root>>, pending |-> <<1>>, next |-> <<>>,
                       depth |-> 0, terminals |-> <<>>, layers |-> <<>>, expansions |-> 0,
                       engines |-> 0, requests |-> 0, checkpoints |-> 0, status |-> "running",
                       cancel |-> FALSE, rejected |-> FALSE, result |-> None]
<1>1. StartSearch(plan) \in {session, Finish(session, "bounded", "semantic_depth_horizon")}
  BY DEF StartSearch
<1>2. <<Root>> \in Seq({Root})
  OBVIOUS
<1>3. OfPlan(plan, session) /\ session.status = "running" /\ session.expansions = 0
  BY <1>2 DEF OfPlan, SearchFields
<1> HIDE DEF session
<1>4. "bounded" \in Ends /\ 0 <= SearchLimits.expansions
  BY SearchAssumption DEF Ends
<1> QED
  BY <1>1, <1>3, <1>4, FinishHolds DEF UnitHolds

\* Every run of a search is of its plan and within the limit.
LEMMA RunHolds ==
    ASSUME NEW plan, plan.children \in Nat, NEW n \in Nat
    PROVE  UnitHolds(plan, n, Run(plan, n))
<1> DEFINE T == {k \in 0 .. n : UnitHolds(plan, k, Run(plan, k))}
<1>1. 0 \in T
  BY StartHolds, AdvancedNone DEF Run
<1>2. ASSUME NEW k \in 0 .. n - 1, k \in T PROVE k + 1 \in T
  BY <1>2, AdvancedNext, UnitKeeps DEF Run
<1> HIDE DEF T
<1>3. 0 .. n \subseteq T
  BY <1>1, <1>2, Working!UpTo
<1> QED
  BY <1>3 DEF T

\* A stopped run is the run of as many units as a replay takes.
LEMMA StoppedRun ==
    ASSUME NEW plan, plan.children \in Nat, NEW n \in Nat, Stopped(Run(plan, n))
    PROVE  Run(plan, n) = Run(plan, SearchLimits.expansions + 1)
<1> DEFINE last == SearchLimits.expansions + 1
<1>1. last \in Nat /\ ~(last <= SearchLimits.expansions)
  BY SearchAssumption
<1> HIDE DEF last
<1>2. Stopped(Run(plan, last))
  <2>1. UnitHolds(plan, last, Run(plan, last))
    BY <1>1, RunHolds
  <2> QED
    BY <1>1, <2>1 DEF UnitHolds, Stopped, Ends
<1>3. \A a, b \in Nat : a <= b /\ Stopped(Run(plan, a)) => Run(plan, b) = Run(plan, a)
  <2>1. SUFFICES ASSUME NEW a \in Nat, NEW b \in Nat, a <= b, Stopped(Run(plan, a))
                 PROVE  Run(plan, b) = Run(plan, a)
    OBVIOUS
  <2>2. b - a \in Nat /\ a + (b - a) = b
    BY <2>1
  <2>3. Advanced(Run(plan, a), b - a) = Run(plan, a + (b - a))
    BY <2>2, AdvancedTwice DEF Run
  <2> QED
    BY <2>1, <2>2, <2>3, StoppedStays
<1>4. n <= last \/ last <= n
  BY <1>1
<1> QED
  BY <1>1, <1>2, <1>3, <1>4 DEF last

\* Replaying it gives the same session.
LEMMA StoppedReplays ==
    ASSUME NEW plan, plan.children \in Nat, NEW n \in Nat,
           Stopped(Run(plan, n))
    PROVE  ReplaysSearch(Run(plan, n))
<1> DEFINE s == Run(plan, n)
           last == SearchLimits.expansions + 1
<1>1. s.plan = plan /\ s.status # "cancelled"
  BY RunHolds DEF UnitHolds, OfPlan, Ends
<1> HIDE DEF s
<1>2. Rerun(s) = Advanced(StartSearch(plan), last)
  BY <1>1 DEF Rerun, Advanced
<1>3. s = Rerun(s)
  BY <1>2, StoppedRun DEF s, Run
<1> QED
  BY <1>3 DEF ReplaysSearch, s

-----------------------------------------------------------------------------
\* Plans, sessions and the store they are held against.

\* Round robin stays within the artifacts of a plan.
LEMMA RoundRobin ==
    ASSUME NEW i \in Nat, NEW n \in Nat, n > 0
    PROVE  (i % n) + 1 \in 1 .. n /\ (i < n => i % n = i)
  OBVIOUS

\* What an acquisition plan measures, and in which order: round by round.
LEMMA PlanFacts ==
    ASSUME NEW plan \in AcquisitionPlans
    PROVE  /\ plan.artifacts \in ArtifactLists /\ plan.artifacts \in Seq(Artifacts)
           /\ Len(plan.artifacts) \in Nat /\ Len(plan.artifacts) > 0
           /\ plan.rounds \in Nat /\ plan.rounds > 0
           /\ plan.config \in {CampaignPlans[p].config : p \in Names}
           /\ Acq!TotalSlots(plan) = Len(plan.artifacts) * plan.rounds
           /\ Acq!TotalSlots(plan) \in Nat /\ Acq!TotalSlots(plan) >= Len(plan.artifacts)
           /\ Acq!SlotIndices(plan) = 0 .. Acq!TotalSlots(plan) - 1
           /\ \A i \in Nat :
                 /\ Acq!PlannedArtifact(plan, i) \in Artifacts
                 /\ i < Len(plan.artifacts) => Acq!PlannedArtifact(plan, i) = plan.artifacts[i + 1]
           /\ \A s, i, t : Acq!BenchmarkRecord(s, i, t) =
                 [artifact |-> Acq!PlannedArtifact(s.plan, i), anchor |-> s.anchor,
                  config |-> ConfigOf[s.plan], timing |-> t]
           /\ ConfigOf[plan] = plan.config
<1> DEFINE n == Len(plan.artifacts)
<1>1. PICK list \in ArtifactLists, p \in Names :
        plan = [artifacts |-> list, rounds |-> CampaignPlans[p].rounds,
                config |-> CampaignPlans[p].config]
  BY DEF AcquisitionPlans
<1>2. plan.artifacts \in ArtifactLists /\ plan.config = CampaignPlans[p].config
      /\ plan.rounds = CampaignPlans[p].rounds
  BY <1>1
<1>3. plan.rounds \in Nat /\ plan.rounds > 0
  BY <1>2, StagesAssumption
<1>4. plan.artifacts \in Seq(Artifacts) /\ n \in Nat /\ n > 0
  <2>1. PICK k \in 1 .. Len(HashOrder) : plan.artifacts \in [1 .. k -> Artifacts]
    BY <1>2 DEF ArtifactLists
  <2>2. k \in Nat /\ k > 0
    BY StagesAssumption
  <2> QED
    BY <2>1, <2>2
<1>5. /\ RoundsOf[plan] = plan.rounds /\ ArtifactsOf[plan] = plan.artifacts
      /\ ConfigOf[plan] = plan.config
  BY DEF RoundsOf, ArtifactsOf, ConfigOf
<1>6. Acq!TotalSlots(plan) = n * plan.rounds
  BY <1>5 DEF Acq!TotalSlots
<1>7. \A a, b \in Nat : b > 0 => a * b \in Nat /\ a * b >= a
  <2>1. SUFFICES ASSUME NEW a \in Nat, NEW b \in Nat, b > 0 PROVE a * b \in Nat /\ a * b >= a
    OBVIOUS
  <2>2. a * b = a * (b - 1) + a /\ a * (b - 1) >= 0 /\ a * b \in Int
    <3>1. b - 1 \in Nat
      BY <2>1
    <3>2. \A c \in Nat : a * (c + 1) = a * c + a /\ a * c >= 0 /\ a * c \in Int
      OBVIOUS
    <3> QED
      BY <3>1, <3>2
  <2> QED
    BY <2>2
<1>8. Acq!TotalSlots(plan) \in Nat /\ Acq!TotalSlots(plan) >= n
  BY <1>3, <1>4, <1>6, <1>7
<1>9. ASSUME NEW i \in Nat
      PROVE  /\ Acq!PlannedArtifact(plan, i) \in Artifacts
             /\ i < n => Acq!PlannedArtifact(plan, i) = plan.artifacts[i + 1]
  <2>1. Acq!PlannedArtifact(plan, i) = plan.artifacts[(i % n) + 1]
    BY <1>5 DEF Acq!PlannedArtifact
  <2>2. (i % n) + 1 \in 1 .. n /\ (i < n => i % n = i)
    BY <1>4, RoundRobin
  <2>3. DOMAIN plan.artifacts = 1 .. n
    BY <1>4
  <2>4. plan.artifacts[(i % n) + 1] \in Artifacts
    BY <1>4, <2>2, <2>3
  <2> QED
    BY <2>1, <2>2, <2>4
<1>10. \A s, i, t : Acq!BenchmarkRecord(s, i, t) =
          [artifact |-> Acq!PlannedArtifact(s.plan, i), anchor |-> s.anchor,
           config |-> ConfigOf[s.plan], timing |-> t]
  BY DEF Acq!BenchmarkRecord
<1>11. Acq!SlotIndices(plan) = 0 .. Acq!TotalSlots(plan) - 1
  BY DEF Acq!SlotIndices
<1> QED
  BY <1>2, <1>3, <1>4, <1>5, <1>6, <1>8, <1>9, <1>10, <1>11

\* A session's complete slots are those before the next one.
LEMMA SessionFacts ==
    ASSUME NEW c, NEW s, SessionSound(c, s)
    PROVE  LET total == Acq!TotalSlots(c.acq.plan) IN
           /\ c.acq.plan = AcquisitionPlan(c) /\ c.acq.plan \in AcquisitionPlans
           /\ c.acq.anchor = Machine /\ c.acq.next \in 0 .. total /\ total \in Nat /\ total > 0
           /\ c.acq.status \in {"Running", "Complete", "Cancelled"}
           /\ DOMAIN Slots(c) = 0 .. total - 1
           /\ c.acq.status # "Complete" => c.acq.next < total
           /\ Acq!CompletedSlots(c.acq) = 0 .. c.acq.next - 1
           /\ \A i \in 0 .. c.acq.next - 1 :
                 i \in DOMAIN Slots(c) /\ i < c.acq.next /\ Slots(c)[i].id \in DOMAIN s
           /\ c.acq # None
           /\ c.acq = [plan |-> c.acq.plan, anchor |-> c.acq.anchor, status |-> c.acq.status,
                       next |-> c.acq.next, slots |-> c.acq.slots]
<1> DEFINE plan == AcquisitionPlan(c)
           total == Acq!TotalSlots(plan)
<1>1. plan \in AcquisitionPlans /\ c.acq \in SessionsOf(plan)
  BY DEF SessionSound
<1>2. total \in Nat /\ total > 0 /\ Acq!SlotIndices(plan) = 0 .. total - 1
  <2>1. /\ total \in Nat /\ total >= Len(plan.artifacts) /\ Len(plan.artifacts) > 0
        /\ Len(plan.artifacts) \in Nat /\ Acq!SlotIndices(plan) = 0 .. total - 1
    BY <1>1, PlanFacts
  <2> QED
    BY <2>1
<1> HIDE DEF plan
<1>3. /\ c.acq.plan = plan /\ c.acq.anchor = Machine /\ c.acq.next \in 0 .. total
      /\ c.acq.status \in {"Running", "Complete", "Cancelled"}
      /\ DOMAIN Slots(c) = 0 .. total - 1
      /\ c.acq = [plan |-> c.acq.plan, anchor |-> c.acq.anchor, status |-> c.acq.status,
                  next |-> c.acq.next, slots |-> c.acq.slots]
  BY <1>1, <1>2 DEF SessionsOf, Slots
<1>4. c.acq # None
  BY <1>1, NoneAssumption
<1>5. c.acq.status # "Complete" => c.acq.next < total
  BY <1>2, <1>3 DEF SessionSound, plan
<1>6. \A i \in 0 .. c.acq.next - 1 :
          i \in DOMAIN Slots(c) /\ i < c.acq.next /\ Slots(c)[i].id \in DOMAIN s
  <2>1. \A i \in 0 .. c.acq.next - 1 : i \in DOMAIN Slots(c) /\ i < c.acq.next
    BY <1>2, <1>3
  <2> QED
    BY <2>1 DEF SessionSound
<1>7. Acq!CompletedSlots(c.acq) = 0 .. c.acq.next - 1
  <2>1. \A i \in DOMAIN Slots(c) : Slots(c)[i].status = "Complete" <=> i < c.acq.next
    BY DEF SessionSound, Acq!PendingSlot
  <2>2. \A i \in DOMAIN Slots(c) : i < c.acq.next <=> i \in 0 .. c.acq.next - 1
    BY <1>2, <1>3
  <2> QED
    BY <1>6, <2>1, <2>2 DEF Acq!CompletedSlots, Slots
<1> QED
  BY <1>1, <1>2, <1>3, <1>4, <1>5, <1>6, <1>7 DEF plan

\* The store only grows.
Grows(s, t) ==
    /\ s \in Seq(MeasuredRecords) /\ t \in Seq(MeasuredRecords)
    /\ Len(s) <= Len(t) /\ \A i \in DOMAIN s : t[i] = s[i]

\* What a beginning of the store holds is what the store holds.
LEMMA PrefixIs ==
    ASSUME NEW S, NEW s \in Seq(S), NEW t \in Seq(S)
    PROVE  IsPrefix(s, t) <=> Len(s) <= Len(t) /\ \A i \in DOMAIN s : t[i] = s[i]
<1>1. Len(s) \in Nat /\ Len(t) \in Nat /\ DOMAIN s = 1 .. Len(s) /\ DOMAIN t = 1 .. Len(t)
  BY SeqFacts
<1>2. SubSeq(s, 1, Len(s)) = s
  BY <1>1
<1>3. ASSUME Len(s) <= Len(t)
      PROVE  SubSeq(t, 1, Len(s)) = s <=> \A i \in DOMAIN s : t[i] = s[i]
  <2>1. /\ SubSeq(t, 1, Len(s)) \in Seq(S) /\ Len(SubSeq(t, 1, Len(s))) = Len(s)
        /\ \A i \in 1 .. Len(s) : SubSeq(t, 1, Len(s))[i] = t[i]
    BY <1>1, <1>3
  <2> QED
    BY <1>1, <2>1
<1> QED
  BY <1>1, <1>2, <1>3 DEF IsPrefix

\* A beginning stays one when the store grows.
LEMMA PrefixGrows ==
    ASSUME NEW s, NEW t, Grows(s, t), NEW x \in Seq(MeasuredRecords), IsPrefix(x, s)
    PROVE  IsPrefix(x, t)
<1>1. Len(x) <= Len(s) /\ \A i \in DOMAIN x : s[i] = x[i]
  BY PrefixIs DEF Grows
<1>2. Len(s) <= Len(t) /\ \A i \in DOMAIN s : t[i] = s[i]
  BY DEF Grows
<1>3. /\ Len(x) \in Nat /\ Len(s) \in Nat /\ Len(t) \in Nat
      /\ DOMAIN x = 1 .. Len(x) /\ DOMAIN s = 1 .. Len(s)
  BY SeqFacts DEF Grows
<1>4. Len(x) <= Len(t) /\ \A i \in DOMAIN x : i \in DOMAIN s
  BY <1>1, <1>2, <1>3
<1> QED
  BY <1>1, <1>2, <1>4, PrefixIs DEF Grows

\* What was measured stays what it was when the store grows.
LEMMA MeasuredGrows ==
    ASSUME NEW c, NEW s, NEW t, Grows(s, t), SessionSound(c, s)
    PROVE  Measured(c, t) = Measured(c, s)
<1> DEFINE ids == {c.acq.slots[i].id : i \in Acq!CompletedSlots(c.acq)}
<1>1. \A i \in Acq!CompletedSlots(c.acq) : c.acq.slots[i].id \in DOMAIN s
  BY SessionFacts DEF Slots
<1>2. \A r \in ids : t[r] = s[r]
  BY <1>1 DEF Grows
<1> QED
  BY <1>2 DEF Measured

\* So does a sound session,
LEMMA SessionGrows ==
    ASSUME NEW c, NEW s, NEW t, Grows(s, t), SessionSound(c, s)
    PROVE  SessionSound(c, t)
<1>1. DOMAIN s \subseteq DOMAIN t /\ \A i \in DOMAIN s : t[i] = s[i]
  BY DEF Grows
<1> QED
  BY <1>1 DEF SessionSound

\* and a sound acquisition.
LEMMA AcquisitionGrows ==
    ASSUME NEW c, NEW s, NEW t, Grows(s, t), AcquisitionSound(c, s)
    PROVE  AcquisitionSound(c, t)
<1>1. SessionSound(c, t)
  BY SessionGrows DEF AcquisitionSound
<1>2. ASSUME NEW k \in DOMAIN c.journals
      PROVE  JournalSound(c, t, k)
  <2> DEFINE j == c.journals[k]
  <2>1. JournalSound(c, s, k) /\ j \in Journals
    BY DEF AcquisitionSound
  <2>2. \A n \in DOMAIN j.attempts : j.attempts[n].snapshot \in Seq(MeasuredRecords)
    <3>1. j.attempts \in Seq(Attempts)
      BY <2>1 DEF Journals
    <3>2. \A a \in Attempts : a.snapshot \in Seq(MeasuredRecords)
      BY DEF Attempts
    <3>3. \A n \in DOMAIN j.attempts : j.attempts[n] \in Attempts
      BY <3>1
    <3> QED
      BY <3>2, <3>3
  <2>3. \A n \in DOMAIN j.attempts : IsPrefix(j.attempts[n].snapshot, t)
    <3>1. \A n \in DOMAIN j.attempts : IsPrefix(j.attempts[n].snapshot, s)
      BY <2>1 DEF JournalSound
    <3> QED
      BY <2>2, <3>1, PrefixGrows
  <2> QED
    BY <2>1, <2>3 DEF JournalSound
<1> QED
  BY <1>1, <1>2 DEF AcquisitionSound

\* What is known of a campaign stays true while others publish.
LEMMA SoundGrows ==
    ASSUME NEW c, NEW s, NEW t, Grows(s, t), Sound(c, s)
    PROVE  Sound(c, t)
<1>1. c.acq # None => AcquisitionSound(c, t) /\ NothingTaken(c)
  BY AcquisitionGrows DEF Sound
<1>2. CohortSound(c, s) => CohortSound(c, t)
  <2>1. SUFFICES ASSUME CohortSound(c, s) PROVE CohortSound(c, t)
    OBVIOUS
  <2>2. SessionSound(c, s)
    BY <2>1 DEF CohortSound, Sound, AcquisitionSound
  <2> QED
    BY <2>1, <2>2, MeasuredGrows DEF CohortSound
<1>3. ResultSound(c, t)
  BY <1>2 DEF Sound, ResultSound
<1> QED
  BY <1>1, <1>3 DEF Sound

-----------------------------------------------------------------------------
\* An execution.

Unsettled == {"indeterminate", "retry_authorized", "no_publication", "ambiguous", "blocked"}

\* A campaign whose last journal is undecided, whatever its status says.
Ready(c, s) ==
    /\ c = [f \in CampaignFields |-> c[f]] /\ c.plan \in Names
    /\ AcquisitionSound(c, s) /\ c.acq.status = "Running"
    /\ c.journals # <<>> /\ Last(c.journals).status \notin Settled
    /\ Searching(c) /\ c.search.status \in {"complete", "bounded"}
    /\ \A a \in ToSet(c.artifacts) : \E n \in TerminalNodes(c.search) : a \in Published(c.search, n)
    /\ c.artifacts \in ArtifactLists
    /\ c.cohort = None /\ c.recommendation = None /\ c.result = None

\* The status a journal is given and what follows from it for the campaign.
LEMMA NotedIs ==
    ASSUME NEW c, c = [f \in CampaignFields |-> c[f]], c.journals \in Seq(Journals),
           c.journals # <<>>, NEW status
    PROVE  LET n == Len(c.journals)
               after == Noted(c, status)
           IN  /\ n \in DOMAIN c.journals /\ Last(c.journals) = c.journals[n]
               /\ after = [f \in CampaignFields |-> after[f]]
               /\ after.journals = [c.journals EXCEPT ![n] = [c.journals[n] EXCEPT !.status = status]]
               /\ after.status = IF status \notin Settled THEN "recovery_required"
                                 ELSE IF c.acq.status = "Complete" THEN "acquisition_complete"
                                 ELSE "acquiring"
               /\ \A f \in CampaignFields \ {"journals", "status"} : after[f] = c[f]
<1>1. Len(c.journals) \in DOMAIN c.journals /\ Last(c.journals) = c.journals[Len(c.journals)]
  BY DEF Last
<1> QED
  BY <1>1 DEF Noted, CampaignFields

\* Another undecided status of the last journal.
LEMMA UnsettledSound ==
    ASSUME NEW c, NEW s, Ready(c, s), NothingTaken(c), NEW status \in Unsettled
    PROVE  LET after == Noted(c, status)
           IN  /\ Sound(after, s) /\ after.plan = c.plan
               /\ Used(after) = Used(c) /\ TakenOver(after) = TakenOver(c)
<1> DEFINE n == Len(c.journals)
           after == Noted(c, status)
           j == c.journals[n]
<1>1. c.journals \in Seq(Journals) /\ c.journals # <<>> /\ status \notin Settled
  BY DEF Ready, AcquisitionSound, Unsettled, Settled
<1>2. /\ n \in DOMAIN c.journals /\ Last(c.journals) = j
      /\ after = [f \in CampaignFields |-> after[f]]
      /\ after.journals = [c.journals EXCEPT ![n] = [j EXCEPT !.status = status]]
      /\ after.status = "recovery_required"
      /\ \A f \in CampaignFields \ {"journals", "status"} : after[f] = c[f]
  BY <1>1, NotedIs DEF Ready
<1>3. /\ after.plan = c.plan /\ after.search = c.search /\ after.artifacts = c.artifacts
      /\ after.acq = c.acq /\ after.cohort = None /\ after.recommendation = None
      /\ after.result = None
  BY <1>2 DEF Ready, CampaignFields
<1> SUFFICES /\ Sound(after, s) /\ after.plan = c.plan
             /\ Used(after) = Used(c) /\ TakenOver(after) = TakenOver(c)
  OBVIOUS
<1> HIDE DEF after
<1>4. j \in Journals /\ j.status \notin Settled
  BY <1>1, <1>2 DEF Ready
<1>5. /\ [j EXCEPT !.status = status] \in Journals /\ [j EXCEPT !.status = status].status = status
      /\ [j EXCEPT !.status = status].slot = j.slot /\ [j EXCEPT !.status = status].accepted = j.accepted
      /\ [j EXCEPT !.status = status].attempts = j.attempts
  BY <1>4 DEF Journals, Unsettled
<1>6. /\ after.journals \in Seq(Journals) /\ Len(after.journals) = n
      /\ DOMAIN after.journals = DOMAIN c.journals
      /\ after.journals[n].slot = j.slot /\ after.journals[n].accepted = j.accepted
      /\ after.journals[n].attempts = j.attempts /\ after.journals[n].status = status
      /\ \A k \in DOMAIN c.journals : k # n => after.journals[k] = c.journals[k]
  <2> DEFINE noted == [j EXCEPT !.status = status]
  <2>1. after.journals = [c.journals EXCEPT ![n] = noted] /\ noted \in Journals
    BY <1>2, <1>5
  <2>2. /\ noted.slot = j.slot /\ noted.accepted = j.accepted /\ noted.attempts = j.attempts
        /\ noted.status = status
    BY <1>5
  <2> HIDE DEF noted, j
  <2> QED
    BY <1>1, <1>2, <2>1, <2>2, SeqFacts
<1> HIDE DEF j
<1>7. ASSUME NEW k \in DOMAIN after.journals
      PROVE  JournalSound(after, s, k)
  <2>1. JournalSound(c, s, k)
    BY <1>6 DEF Ready, AcquisitionSound
  <2>2. CASE k # n
    BY <1>3, <1>6, <2>1, <2>2 DEF JournalSound, Slots, Current
  <2>3. CASE k = n
    BY <1>1, <1>3, <1>4, <1>6, <2>1, <2>3 DEF JournalSound, Slots, Current, j
  <2> QED
    BY <2>2, <2>3
<1>8. SlotsHaveJournals(after)
  <2>1. SUFFICES ASSUME NEW i \in DOMAIN Slots(after), i < after.acq.next
                 PROVE  \E k \in DOMAIN after.journals :
                            /\ after.journals[k].slot = i /\ after.journals[k].status \in Settled
                            /\ Slots(after)[i].id > Len(Current(after.journals[k]).snapshot)
    BY DEF SlotsHaveJournals
  <2>2. PICK k \in DOMAIN c.journals :
            /\ c.journals[k].slot = i /\ c.journals[k].status \in Settled
            /\ Slots(c)[i].id > Len(Current(c.journals[k]).snapshot)
    BY <1>3, <2>1 DEF Ready, AcquisitionSound, SlotsHaveJournals, Slots
  <2>3. k # n
    BY <1>4, <2>2 DEF j
  <2> QED
    BY <1>3, <1>6, <2>2, <2>3 DEF Slots
<1>9. AcquisitionSound(after, s) /\ after.acq # None
  <2>1. SessionSound(after, s)
    BY <1>3 DEF Ready, AcquisitionSound, SessionSound, Slots, AcquisitionPlan
  <2> QED
    BY <1>6, <1>7, <1>8, <2>1, SessionFacts DEF AcquisitionSound
<1>14. NothingTaken(after)
  BY <1>2, <1>4, <1>6 DEF NothingTaken, j
<1>10. StatusSound(after)
  <2>1. after.journals # <<>> /\ Last(after.journals).status \notin Settled
    BY <1>1, <1>2, <1>6 DEF Last
  <2> QED
    BY <1>2, <1>3, <1>9, <2>1 DEF StatusSound, CampaignStatuses, Unmeasured, Measuring, Ready
<1>11. SearchSound(after)
  BY <1>2, <1>3 DEF SearchSound, Ready, Searching, Unsearched
<1>12. ResultSound(after, s)
  BY <1>2, <1>3 DEF ResultSound
<1>13. after = [f \in CampaignFields |-> after[f]] /\ after.plan \in Names
  BY <1>2, <1>3 DEF Ready
<1>15. Used(after) = Used(c) /\ TakenOver(after) = TakenOver(c)
  <2>1. \A k \in DOMAIN c.journals : after.journals[k].accepted = c.journals[k].accepted
    BY <1>6 DEF j
  <2> QED
    BY <1>3, <1>6, <2>1 DEF Used, TakenOver
<1> QED
  BY <1>3, <1>9, <1>10, <1>11, <1>12, <1>13, <1>14, <1>15 DEF Sound

\* A record of the store that appeared since the attempt, and is what it was for, fills the slot.
LEMMA FilledSlots ==
    ASSUME NEW c, NEW s \in Seq(MeasuredRecords), Ready(c, s), NEW r \in DOMAIN s
    PROVE  LET acq == Acq!AttachRecovered(c.acq, r, s[r])
               next == c.acq.next
               total == Acq!TotalSlots(c.acq.plan)
           IN  /\ acq = [plan |-> acq.plan, anchor |-> acq.anchor, status |-> acq.status,
                         next |-> acq.next, slots |-> acq.slots]
               /\ acq.plan = c.acq.plan /\ acq.anchor = c.acq.anchor /\ acq.next = next + 1
               /\ acq.status = IF next + 1 = total THEN "Complete" ELSE "Running"
               /\ acq.slots = [i \in DOMAIN Slots(c) |-> acq.slots[i]] /\ next \in DOMAIN acq.slots
               /\ DOMAIN acq.slots = DOMAIN Slots(c)
               /\ acq.slots[next] = [status |-> "Complete", id |-> r, hash |-> s[r]]
               /\ \A i \in DOMAIN acq.slots : i # next => acq.slots[i] = Slots(c)[i]
<1> DEFINE next == c.acq.next
           total == Acq!TotalSlots(c.acq.plan)
           filled == [i \in DOMAIN c.acq.slots |->
                        IF next <= i /\ i < next + 1
                        THEN [status |-> "Complete", id |-> r + (i - next), hash |-> <<s[r]>>[i - next + 1]]
                        ELSE c.acq.slots[i]]
           acq == Acq!AttachRecovered(c.acq, r, s[r])
<1>1. SessionSound(c, s) /\ c.acq.status = "Running"
  BY DEF Ready, AcquisitionSound
<1>2. /\ next \in Nat /\ total \in Nat /\ next < total /\ DOMAIN Slots(c) = 0 .. total - 1
      /\ c.acq = [plan |-> c.acq.plan, anchor |-> c.acq.anchor, status |-> c.acq.status,
                  next |-> c.acq.next, slots |-> c.acq.slots]
  <2>1. next \in 0 .. total /\ total \in Nat
    BY <1>1, SessionFacts
  <2> QED
    BY <1>1, <2>1, SessionFacts
<1>3. acq = [c.acq EXCEPT !.slots = filled, !.next = next + 1,
                          !.status = IF next + 1 = total THEN "Complete" ELSE c.acq.status]
  <2>1. Len(<<s[r]>>) = 1
    OBVIOUS
  <2> QED
    BY <2>1 DEF Acq!AttachRecovered, Acq!CompleteSlots
<1> HIDE DEF acq
<1>4. /\ acq = [plan |-> acq.plan, anchor |-> acq.anchor, status |-> acq.status,
                next |-> acq.next, slots |-> acq.slots]
      /\ acq.plan = c.acq.plan /\ acq.anchor = c.acq.anchor /\ acq.next = next + 1
      /\ acq.status = (IF next + 1 = total THEN "Complete" ELSE "Running")
      /\ acq.slots = filled
  <2> HIDE DEF filled, next, total
  <2> QED
    BY <1>1, <1>2, <1>3
<1>7. filled = [i \in DOMAIN Slots(c) |-> filled[i]]
  BY DEF Slots
<1>5. /\ DOMAIN filled = DOMAIN Slots(c) /\ next \in DOMAIN filled
      /\ filled[next] = [status |-> "Complete", id |-> r, hash |-> s[r]]
  <2>1. next \in DOMAIN c.acq.slots /\ DOMAIN filled = DOMAIN Slots(c)
    BY <1>2 DEF Slots
  <2>2. next <= next /\ next < next + 1 /\ next - next = 0 /\ next - next + 1 = 1
    BY <1>2
  <2>3. r + 0 = r \/ r \notin Int
    OBVIOUS
  <2>4. r \in Int
    OBVIOUS
  <2>5. <<s[r]>>[1] = s[r]
    OBVIOUS
  <2> QED
    BY <2>1, <2>2, <2>3, <2>4, <2>5
<1>6. \A i \in DOMAIN filled : i # next => filled[i] = Slots(c)[i]
  BY <1>2 DEF Slots
<1> HIDE DEF filled, next, total
<1> QED
  BY <1>4, <1>5, <1>6, <1>7 DEF acq, next, total

\* Filling the slot keeps the acquisition sound and decides its journal.
LEMMA AttachedSound ==
    ASSUME NEW c, NEW s \in Seq(MeasuredRecords), Ready(c, s), NEW r \in DOMAIN s,
           r > Len(Current(Last(c.journals)).snapshot),
           s[r].artifact = Current(Last(c.journals)).artifact,
           s[r].config = Current(Last(c.journals)).config
    PROVE  LET after == Attached(c, r, s[r])
           IN  /\ Sound(after, s) /\ after.plan = c.plan
               /\ Used(after) = Used(c) \cup {r} /\ TakenOver(after) = TakenOver(c)
<1> DEFINE n == Len(c.journals)
           j == c.journals[n]
           acq == Acq!AttachRecovered(c.acq, r, s[r])
           filled == [c EXCEPT !.acq = acq]
           status == IF acq.status = "Complete" THEN "complete" ELSE "reconciled"
           after == Attached(c, r, s[r])
           next == c.acq.next
           total == Acq!TotalSlots(c.acq.plan)
<1>1. after = Noted(filled, status)
  BY DEF Attached
<1>2. /\ acq = [plan |-> acq.plan, anchor |-> acq.anchor, status |-> acq.status,
                next |-> acq.next, slots |-> acq.slots]
      /\ acq.plan = c.acq.plan /\ acq.anchor = c.acq.anchor /\ acq.next = next + 1
      /\ acq.status = (IF next + 1 = total THEN "Complete" ELSE "Running")
      /\ acq.slots = [i \in DOMAIN Slots(c) |-> acq.slots[i]] /\ next \in DOMAIN acq.slots
      /\ DOMAIN acq.slots = DOMAIN Slots(c)
      /\ acq.slots[next] = [status |-> "Complete", id |-> r, hash |-> s[r]]
      /\ \A i \in DOMAIN acq.slots : i # next => acq.slots[i] = Slots(c)[i]
  BY FilledSlots
<1> HIDE DEF acq
<1>3. /\ c = [f \in CampaignFields |-> c[f]] /\ c.journals \in Seq(Journals) /\ c.journals # <<>>
      /\ SessionSound(c, s)
  BY DEF Ready, AcquisitionSound
<1>4. /\ filled = [f \in CampaignFields |-> filled[f]] /\ filled.acq = acq
      /\ \A f \in CampaignFields \ {"acq"} : filled[f] = c[f]
  BY <1>3 DEF CampaignFields
<1>5. filled.journals = c.journals
  BY <1>4 DEF CampaignFields
<1> HIDE DEF filled
<1>6. status \in Settled
  BY DEF Settled
<1>7. /\ n \in DOMAIN c.journals /\ Last(c.journals) = j
      /\ after = [f \in CampaignFields |-> after[f]]
      /\ after.journals = [c.journals EXCEPT ![n] = [j EXCEPT !.status = status]]
      /\ after.status = (IF acq.status = "Complete" THEN "acquisition_complete" ELSE "acquiring")
      /\ \A f \in CampaignFields \ {"journals", "status"} : after[f] = filled[f]
  <2> HIDE DEF after, status, acq, j
  <2>1. filled.journals \in Seq(Journals) /\ filled.journals # <<>>
    BY <1>3, <1>5
  <2>2. /\ n \in DOMAIN c.journals /\ Last(c.journals) = c.journals[n]
        /\ after = [f \in CampaignFields |-> after[f]]
        /\ after.journals = [c.journals EXCEPT ![n] = [c.journals[n] EXCEPT !.status = status]]
        /\ after.status = (IF status \notin Settled THEN "recovery_required"
                           ELSE IF filled.acq.status = "Complete" THEN "acquisition_complete"
                           ELSE "acquiring")
        /\ \A f \in CampaignFields \ {"journals", "status"} : after[f] = filled[f]
    BY <1>1, <1>4, <1>5, <2>1, NotedIs
  <2> QED
    BY <1>4, <1>6, <2>2 DEF j
<1>8. /\ after.plan = c.plan /\ after.search = c.search /\ after.artifacts = c.artifacts
      /\ after.acq = acq /\ after.cohort = None /\ after.recommendation = None
      /\ after.result = None
  BY <1>4, <1>7 DEF Ready, CampaignFields
<1> SUFFICES /\ Sound(after, s) /\ after.plan = c.plan
             /\ Used(after) = Used(c) \cup {r} /\ TakenOver(after) = TakenOver(c)
  OBVIOUS
<1> HIDE DEF after
<1>9. j \in Journals /\ j.status \notin Settled
  BY <1>3, <1>7 DEF Ready
<1> DEFINE noted == [j EXCEPT !.status = status]
<1>10. /\ noted \in Journals /\ noted.status = status /\ noted.slot = j.slot
       /\ noted.accepted = j.accepted /\ noted.attempts = j.attempts
  BY <1>6, <1>9 DEF Journals
<1>11. after.journals = [c.journals EXCEPT ![n] = noted]
  BY <1>7
<1> HIDE DEF noted, j, status
<1>12. /\ after.journals \in Seq(Journals) /\ Len(after.journals) = n
       /\ DOMAIN after.journals = DOMAIN c.journals /\ after.journals[n] = noted
       /\ \A k \in DOMAIN c.journals : k # n => after.journals[k] = c.journals[k]
  <2>1. n \in DOMAIN c.journals /\ noted \in Journals
    BY <1>7, <1>10
  <2> QED
    BY <1>3, <1>11, <2>1, SeqFacts
<1>13. /\ next \in Nat /\ total \in Nat /\ next < total /\ DOMAIN Slots(c) = 0 .. total - 1
       /\ Acq!CompletedSlots(c.acq) = 0 .. next - 1
       /\ c.acq.plan = AcquisitionPlan(c) /\ c.acq.plan \in AcquisitionPlans
       /\ c.acq.anchor = Machine /\ c.acq # None
  <2>1. c.acq.status = "Running"
    BY DEF Ready
  <2>2. /\ next \in 0 .. total /\ total \in Nat /\ DOMAIN Slots(c) = 0 .. total - 1
        /\ c.acq.status # "Complete" => next < total
        /\ Acq!CompletedSlots(c.acq) = 0 .. next - 1
        /\ c.acq.plan = AcquisitionPlan(c) /\ c.acq.plan \in AcquisitionPlans
        /\ c.acq.anchor = Machine /\ c.acq # None
    BY <1>3, SessionFacts
  <2> QED
    BY <2>1, <2>2
<1>14. /\ JournalSound(c, s, n) /\ j.slot = next /\ r > Len(Current(j).snapshot)
       /\ s[r].artifact = Acq!PlannedArtifact(c.acq.plan, next) /\ s[r].config = c.acq.plan.config
       /\ \A i \in DOMAIN Slots(c) : i < next => Slots(c)[i].id <= Len(Current(j).snapshot)
  <2>1. JournalSound(c, s, n)
    BY <1>7 DEF Ready, AcquisitionSound
  <2> QED
    BY <1>7, <1>9, <2>1 DEF JournalSound, j
<1>15. \A i \in DOMAIN Slots(c) : i < next => Slots(c)[i].id \in Nat /\ Slots(c)[i].id # r
  <2>1. SUFFICES ASSUME NEW i \in DOMAIN Slots(c), i < next
                 PROVE  Slots(c)[i].id \in Nat /\ Slots(c)[i].id # r
    OBVIOUS
  <2>2. Slots(c)[i].id \in DOMAIN s
    BY <1>3, <2>1 DEF SessionSound
  <2>3. Len(Current(j).snapshot) \in Nat /\ Slots(c)[i].id <= Len(Current(j).snapshot)
    <3>1. j.attempts \in Seq(Attempts) /\ Len(j.attempts) > 0
      BY <1>7, <1>9, <1>14 DEF Journals, JournalSound, j
    <3>2. Current(j) \in Attempts
      BY <3>1 DEF Current, Last
    <3>3. Current(j).snapshot \in Seq(MeasuredRecords)
      BY <3>2 DEF Attempts
    <3> QED
      BY <1>14, <2>1, <3>3
  <2> QED
    BY <1>14, <2>2, <2>3
<1>16. SessionSound(after, s)
  <2>1. AcquisitionPlan(after) = AcquisitionPlan(c)
    BY <1>8 DEF AcquisitionPlan
  <2>2. acq \in SessionsOf(AcquisitionPlan(c))
    <3>1. /\ acq.plan = AcquisitionPlan(c) /\ acq.anchor = Machine /\ acq.next \in 0 .. total
          /\ acq.status \in {"Running", "Complete", "Cancelled"}
      BY <1>2, <1>13
    <3>2. /\ c.acq.slots \in [Acq!SlotIndices(AcquisitionPlan(c)) ->
                               [status : {"Pending", "Complete"}, id : Nat, hash : MeasuredRecords \cup {None}]]
          /\ total = Acq!TotalSlots(AcquisitionPlan(c))
      BY <1>3, <1>13 DEF SessionSound, SessionsOf
    <3>3. acq.slots[next] \in [status : {"Pending", "Complete"}, id : Nat, hash : MeasuredRecords \cup {None}]
      BY <1>2
    <3>4. acq.slots = [i \in DOMAIN Slots(c) |-> acq.slots[i]]
      BY <1>2
    <3>5. acq.slots \in [Acq!SlotIndices(AcquisitionPlan(c)) ->
                               [status : {"Pending", "Complete"}, id : Nat, hash : MeasuredRecords \cup {None}]]
      <4> DEFINE R == [status : {"Pending", "Complete"}, id : Nat, hash : MeasuredRecords \cup {None}]
      <4>1. acq.slots[next] \in R /\ DOMAIN Slots(c) = Acq!SlotIndices(AcquisitionPlan(c))
        BY <3>2, <3>3 DEF Slots
      <4>2. \A i \in DOMAIN Slots(c) : Slots(c)[i] \in R
        BY <3>2 DEF Slots
      <4> HIDE DEF R
      <4>3. \A i \in DOMAIN Slots(c) : acq.slots[i] \in R
        BY <1>2, <4>1, <4>2
      <4>4. acq.slots \in [DOMAIN Slots(c) -> R]
        BY <3>4, <4>3
      <4> QED
        BY <4>1, <4>4 DEF R
    <3> QED
      BY <1>2, <3>1, <3>2, <3>5 DEF SessionsOf
  <2>3. acq.status = "Complete" <=> acq.next = Acq!TotalSlots(acq.plan)
    BY <1>2
  <2>4. \A i \in DOMAIN acq.slots :
          IF i < acq.next
          THEN /\ acq.slots[i].status = "Complete" /\ acq.slots[i].id \in DOMAIN s
               /\ acq.slots[i].hash = s[acq.slots[i].id]
               /\ acq.slots[i].hash.artifact = Acq!PlannedArtifact(acq.plan, i)
               /\ acq.slots[i].hash.config = acq.plan.config
          ELSE acq.slots[i] = Acq!PendingSlot
    <3>1. SUFFICES ASSUME NEW i \in DOMAIN acq.slots
                   PROVE  IF i < acq.next
                          THEN /\ acq.slots[i].status = "Complete" /\ acq.slots[i].id \in DOMAIN s
                               /\ acq.slots[i].hash = s[acq.slots[i].id]
                               /\ acq.slots[i].hash.artifact = Acq!PlannedArtifact(acq.plan, i)
                               /\ acq.slots[i].hash.config = acq.plan.config
                          ELSE acq.slots[i] = Acq!PendingSlot
      OBVIOUS
    <3>2. CASE i = next
      BY <1>2, <1>13, <1>14, <3>2
    <3>3. CASE i # next
      <4>1. acq.slots[i] = Slots(c)[i] /\ (i < acq.next <=> i < next) /\ i \in DOMAIN Slots(c)
        BY <1>2, <1>13, <3>3
      <4> QED
        BY <1>2, <1>3, <4>1 DEF SessionSound
    <3> QED
      BY <3>2, <3>3
  <2>5. \A i, k \in DOMAIN acq.slots :
          i < acq.next /\ k < acq.next /\ acq.slots[i].id = acq.slots[k].id => i = k
    <3>1. \A i \in DOMAIN acq.slots : i < acq.next <=> i = next \/ i < next
      BY <1>2, <1>13
    <3>2. \A i, k \in DOMAIN Slots(c) :
            i < next /\ k < next /\ Slots(c)[i].id = Slots(c)[k].id => i = k
      BY <1>3 DEF SessionSound
    <3>3. acq.slots[next].id = r
      BY <1>2
    <3>4. \A i \in DOMAIN acq.slots : i < next => i # next /\ acq.slots[i] = Slots(c)[i]
      BY <1>2, <1>13
    <3> QED
      BY <1>2, <1>15, <3>1, <3>2, <3>3, <3>4
  <2> QED
    BY <1>8, <1>13, <2>1, <2>2, <2>3, <2>4, <2>5 DEF SessionSound, Slots
<1>17. ASSUME NEW k \in DOMAIN after.journals
       PROVE  JournalSound(after, s, k)
  <2>1. JournalSound(c, s, k)
    BY <1>12 DEF Ready, AcquisitionSound
  <2>2. CASE k # n
    <3>1. c.journals[k].status \in Settled
      BY <2>1, <2>2 DEF JournalSound
    <3>2. after.journals[k] = c.journals[k]
      BY <1>12, <2>2
    <3>3. c.journals[k].slot < acq.next
      <4>1. c.journals[k].slot < next /\ c.journals[k] \in Journals
        BY <1>3, <1>12, <2>1, <3>1 DEF JournalSound
      <4>2. c.journals[k].slot \in Nat
        BY <4>1 DEF Journals
      <4> QED
        BY <1>2, <1>13, <4>1, <4>2
    <3> QED
      BY <1>8, <2>1, <3>1, <3>2, <3>3 DEF JournalSound
  <2>3. CASE k = n
    <3>1. noted.slot < acq.next
      BY <1>2, <1>10, <1>13, <1>14
    <3>2. after.journals[k] = noted /\ noted.status \in Settled /\ noted.attempts = j.attempts
      BY <1>6, <1>10, <1>12, <2>3
    <3> QED
      BY <1>8, <1>14, <3>1, <3>2 DEF JournalSound, Current, j
  <2> QED
    BY <2>2, <2>3
<1>18. SlotsHaveJournals(after)
  <2>1. SUFFICES ASSUME NEW i \in DOMAIN Slots(after), i < after.acq.next
                 PROVE  \E k \in DOMAIN after.journals :
                            /\ after.journals[k].slot = i /\ after.journals[k].status \in Settled
                            /\ Slots(after)[i].id > Len(Current(after.journals[k]).snapshot)
    BY DEF SlotsHaveJournals
  <2>2. CASE i = next
    <3>1. /\ after.journals[n].slot = i /\ after.journals[n].status \in Settled
          /\ Current(after.journals[n]) = Current(j)
      BY <1>6, <1>10, <1>12, <1>14, <2>2 DEF Current
    <3>2. Slots(after)[i].id = r
      BY <1>2, <1>8, <2>2 DEF Slots
    <3> QED
      BY <1>7, <1>12, <1>14, <3>1, <3>2
  <2>3. CASE i # next
    <3>1. i < next /\ i \in DOMAIN Slots(c) /\ Slots(after)[i] = Slots(c)[i]
      BY <1>2, <1>8, <1>13, <2>1, <2>3 DEF Slots
    <3>2. PICK k \in DOMAIN c.journals :
            /\ c.journals[k].slot = i /\ c.journals[k].status \in Settled
            /\ Slots(c)[i].id > Len(Current(c.journals[k]).snapshot)
      BY <3>1 DEF Ready, AcquisitionSound, SlotsHaveJournals
    <3>3. k # n
      BY <1>9, <3>2 DEF j
    <3> QED
      BY <1>12, <3>1, <3>2, <3>3
  <2> QED
    BY <2>2, <2>3
<1>19. AcquisitionSound(after, s) /\ after.acq # None
  BY <1>12, <1>16, <1>17, <1>18, SessionFacts DEF AcquisitionSound
<1>20. NothingTaken(after)
  <2>1. \A k \in DOMAIN after.journals : after.journals[k].status \in Settled
    <3>1. SUFFICES ASSUME NEW k \in DOMAIN c.journals PROVE after.journals[k].status \in Settled
      BY <1>12
    <3>2. k # n => c.journals[k].status \in Settled
      BY DEF Ready, AcquisitionSound, JournalSound
    <3> QED
      BY <1>6, <1>10, <1>12, <3>2
  <2> QED
    BY <2>1 DEF NothingTaken
<1>21. StatusSound(after)
  <2>1. after.journals # <<>> /\ Last(after.journals).status \in Settled
    BY <1>6, <1>7, <1>10, <1>12 DEF Last
  <2>2. acq.status \in {"Complete", "Running"}
    BY <1>2
  <2> QED
    BY <1>7, <1>8, <1>19, <2>1, <2>2 DEF StatusSound, CampaignStatuses, Unmeasured, Measuring
<1>22. SearchSound(after)
  BY <1>7, <1>8 DEF SearchSound, Ready, Searching, Unsearched
<1>23. ResultSound(after, s)
  BY <1>7, <1>8 DEF ResultSound
<1>24. Used(after) = Used(c) \cup {r}
  <2>1. Acq!CompletedSlots(acq) = 0 .. next
    <3>1. c.acq.next = next /\ acq.next = next + 1 /\ (next + 1) - 1 = next
      BY <1>2, <1>13
    <3> QED
      BY <1>8, <1>16, <3>1, SessionFacts
  <2>2. Used(after) = {acq.slots[i].id : i \in 0 .. next}
    BY <1>8, <1>19, <2>1 DEF Used
  <2>3. Used(c) = {Slots(c)[i].id : i \in 0 .. next - 1}
    BY <1>13 DEF Used, Slots
  <2>4. 0 .. next = (0 .. next - 1) \cup {next} /\ next \notin 0 .. next - 1
    BY <1>13
  <2>5. \A i \in 0 .. next - 1 : acq.slots[i] = Slots(c)[i]
    BY <1>2, <1>13
  <2>6. acq.slots[next].id = r
    BY <1>2
  <2> QED
    BY <2>2, <2>3, <2>4, <2>5, <2>6
<1>25. TakenOver(after) = TakenOver(c)
  <2>1. \A k \in DOMAIN c.journals : after.journals[k].accepted = c.journals[k].accepted
    BY <1>10, <1>12 DEF j
  <2> QED
    BY <1>12, <2>1 DEF TakenOver
<1>26. after = [f \in CampaignFields |-> after[f]] /\ after.plan \in Names
  BY <1>7, <1>8 DEF Ready
<1> QED
  BY <1>8, <1>19, <1>20, <1>21, <1>22, <1>23, <1>24, <1>25, <1>26 DEF Sound

\* A campaign about to prepare a journal: nothing is undecided.
Open(c, s) ==
    /\ c = [f \in CampaignFields |-> c[f]] /\ c.plan \in Names
    /\ AcquisitionSound(c, s) /\ c.acq.status = "Running"
    /\ \A k \in DOMAIN c.journals : c.journals[k].status \in Settled
    /\ Searching(c) /\ c.search.status \in {"complete", "bounded"}
    /\ \A a \in ToSet(c.artifacts) : \E n \in TerminalNodes(c.search) : a \in Published(c.search, n)
    /\ c.artifacts \in ArtifactLists
    /\ c.cohort = None /\ c.recommendation = None /\ c.result = None

\* The first execution opens the session.
LEMMA OpenedFresh ==
    ASSUME NEW c, NEW s \in Seq(MeasuredRecords), Sound(c, s), c.status = "acquisition_prepared"
    PROVE  Open(Opened(c), s) /\ Opened(c).plan = c.plan
           /\ Used(Opened(c)) = {} /\ TakenOver(Opened(c)) = TakenOver(c)
<1> DEFINE plan == AcquisitionPlan(c)
           acq == Acq!NewSession(plan, Machine)
           after == Opened(c)
           total == Acq!TotalSlots(plan)
<1>1. /\ c = [f \in CampaignFields |-> c[f]] /\ c.plan \in Names
      /\ c.acq = None /\ c.journals = <<>>
  BY DEF Sound, StatusSound, Unmeasured
<1>2. /\ Searching(c) /\ c.search.status \in {"complete", "bounded"}
      /\ \A a \in ToSet(c.artifacts) : \E n \in TerminalNodes(c.search) : a \in Published(c.search, n)
      /\ c.artifacts \in ArtifactLists
  <2>1. SearchSound(c)
    BY DEF Sound
  <2>2. Searching(c) /\ c.search.status \in {"complete", "bounded"}
    BY <2>1 DEF SearchSound, Unsearched
  <2>3. \A a \in ToSet(c.artifacts) : \E n \in TerminalNodes(c.search) : a \in Published(c.search, n)
    BY <2>1 DEF SearchSound, Unsearched
  <2>4. c.artifacts \in ArtifactLists
    BY <2>1 DEF SearchSound
  <2> QED
    BY <2>2, <2>3, <2>4
<1>3. c.cohort = None /\ c.recommendation = None /\ c.result = None
  BY DEF Sound, ResultSound, Unmeasured
<1>4. plan \in AcquisitionPlans
  BY <1>1, <1>2 DEF AcquisitionPlan, AcquisitionPlans
<1>5. /\ total \in Nat /\ total > 0 /\ Acq!SlotIndices(plan) = 0 .. total - 1
  <2>1. /\ total \in Nat /\ total >= Len(plan.artifacts) /\ Len(plan.artifacts) > 0
        /\ Len(plan.artifacts) \in Nat /\ Acq!SlotIndices(plan) = 0 .. total - 1
    BY <1>4, PlanFacts
  <2> QED
    BY <2>1
<1>6. acq = [plan |-> plan, anchor |-> Machine, status |-> "Running", next |-> 0,
             slots |-> [i \in 0 .. total - 1 |-> Acq!PendingSlot]]
  BY <1>5 DEF Acq!NewSession
<1>7. after = [c EXCEPT !.acq = acq]
  BY <1>1 DEF Opened
<1> HIDE DEF plan
<1> HIDE DEF acq, after, total
<1>8. /\ after = [f \in CampaignFields |-> after[f]] /\ after.plan = c.plan /\ after.search = c.search
      /\ after.artifacts = c.artifacts /\ after.acq = acq /\ after.journals = <<>>
      /\ after.cohort = None /\ after.recommendation = None /\ after.result = None
  BY <1>1, <1>3, <1>7 DEF CampaignFields
<1>9. SessionSound(after, s)
  <2>1. AcquisitionPlan(after) = plan
    BY <1>8 DEF AcquisitionPlan, plan
  <2>2. acq \in SessionsOf(plan)
    <3>1. Acq!PendingSlot \in [status : {"Pending", "Complete"}, id : Nat, hash : MeasuredRecords \cup {None}]
      BY DEF Acq!PendingSlot
    <3>2. 0 \in 0 .. total
      BY <1>5
    <3> QED
      BY <1>5, <1>6, <3>1, <3>2 DEF SessionsOf, total
  <2>3. /\ acq.plan = plan /\ acq.status = "Running" /\ acq.next = 0 /\ DOMAIN acq.slots = 0 .. total - 1
        /\ \A i \in DOMAIN acq.slots : acq.slots[i] = Acq!PendingSlot /\ ~(i < 0)
    BY <1>5, <1>6
  <2>4. acq.next # Acq!TotalSlots(acq.plan)
    BY <1>5, <2>3 DEF total
  <2> QED
    BY <1>4, <1>8, <2>1, <2>2, <2>3, <2>4 DEF SessionSound, Slots
<1>10. AcquisitionSound(after, s) /\ after.acq.status = "Running"
  <2>1. \A i \in DOMAIN Slots(after) : ~(i < after.acq.next)
    BY <1>5, <1>6, <1>8 DEF Slots
  <2>2. after.acq.status = "Running"
    BY <1>6, <1>8
  <2>3. SlotsHaveJournals(after)
    BY <2>1 DEF SlotsHaveJournals
  <2>4. after.journals \in Seq(Journals) /\ DOMAIN after.journals = {}
    <3>1. <<>> \in Seq(Journals) /\ DOMAIN <<>> = {}
      OBVIOUS
    <3> QED
      BY <1>8, <3>1
  <2> QED
    BY <1>9, <2>2, <2>3, <2>4 DEF AcquisitionSound
<1>11. Used(after) = {}
  <2>1. Acq!CompletedSlots(acq) = {}
    BY <1>6 DEF Acq!CompletedSlots, Acq!PendingSlot
  <2> QED
    BY <1>8, <2>1 DEF Used
<1>12. TakenOver(after) = TakenOver(c)
  BY <1>1, <1>8 DEF TakenOver
<1>13. Open(after, s)
  <2>1. DOMAIN after.journals = {}
    <3>1. DOMAIN <<>> = {}
      OBVIOUS
    <3> QED
      BY <1>8, <3>1
  <2>2. \A k \in DOMAIN after.journals : after.journals[k].status \in Settled
    BY <2>1
  <2>3. Searching(after) /\ after.search.status \in {"complete", "bounded"} /\ after.plan \in Names
    BY <1>1, <1>2, <1>8 DEF Searching
  <2>4. /\ \A a \in ToSet(after.artifacts) :
              \E n \in TerminalNodes(after.search) : a \in Published(after.search, n)
        /\ after.artifacts \in ArtifactLists
    BY <1>2, <1>8
  <2> QED
    BY <1>8, <1>10, <2>2, <2>3, <2>4 DEF Open
<1> QED
  BY <1>8, <1>11, <1>12, <1>13 DEF after

\* A further execution, of the next slot.
LEMMA OpenedAgain ==
    ASSUME NEW c, NEW s, Sound(c, s), c.status = "acquiring"
    PROVE  Open(c, s) /\ Opened(c) = c
<1>1. /\ c.acq # None /\ AcquisitionSound(c, s) /\ c.acq.status = "Running"
      /\ c.journals # <<>> /\ Last(c.journals).status \in Settled
  BY DEF Sound, StatusSound
<1>2. /\ Searching(c) /\ c.search.status \in {"complete", "bounded"}
      /\ \A a \in ToSet(c.artifacts) : \E n \in TerminalNodes(c.search) : a \in Published(c.search, n)
      /\ c.artifacts \in ArtifactLists
  <2>1. SearchSound(c)
    BY DEF Sound
  <2>2. Searching(c) /\ c.search.status \in {"complete", "bounded"}
    BY <2>1 DEF SearchSound, Unsearched
  <2>3. \A a \in ToSet(c.artifacts) : \E n \in TerminalNodes(c.search) : a \in Published(c.search, n)
    BY <2>1 DEF SearchSound, Unsearched
  <2>4. c.artifacts \in ArtifactLists
    BY <2>1 DEF SearchSound
  <2> QED
    BY <2>2, <2>3, <2>4
<1>3. c.cohort = None /\ c.recommendation = None /\ c.result = None
  BY DEF Sound, ResultSound, Unmeasured
<1>4. \A k \in DOMAIN c.journals : c.journals[k].status \in Settled
  BY <1>1 DEF AcquisitionSound, JournalSound, Last
<1> QED
  BY <1>1, <1>2, <1>3, <1>4 DEF Open, Opened, Sound

\* The new journal's attempt freezes the store.
LEMMA PreparedReady ==
    ASSUME NEW c, NEW s \in Seq(MeasuredRecords), Open(c, s)
    PROVE  LET after == Prepared(c, s)
           IN  /\ Ready(after, s) /\ NothingTaken(after) /\ after.plan = c.plan
               /\ Used(after) = Used(c) /\ TakenOver(c) \subseteq TakenOver(after)
               /\ after.acq = c.acq
<1> DEFINE attempt == Attempt(c.acq, s)
           j == [slot |-> c.acq.next, status |-> "prepared", accepted |-> 0, attempts |-> <<attempt>>]
           after == Prepared(c, s)
           n == Len(c.journals)
<1>1. /\ c = [f \in CampaignFields |-> c[f]] /\ c.journals \in Seq(Journals) /\ SessionSound(c, s)
      /\ c.acq.status = "Running"
  BY DEF Open, AcquisitionSound
<1>2. NeedsJournal(c)
  <2>1. c.journals # <<>> => Last(c.journals).status \in Settled
    BY <1>1 DEF Open, Last
  <2> QED
    BY <2>1 DEF NeedsJournal, Settled
<1>3. after = [c EXCEPT !.journals = Append(@, j)]
  BY <1>2 DEF Prepared
<1>4. /\ c.acq.next \in Nat /\ c.acq.plan = AcquisitionPlan(c) /\ c.acq.plan \in AcquisitionPlans
      /\ c.acq.anchor = Machine /\ c.acq.next < Acq!TotalSlots(c.acq.plan) /\ c.acq # None
  <2>1. /\ c.acq.next \in 0 .. Acq!TotalSlots(c.acq.plan) /\ Acq!TotalSlots(c.acq.plan) \in Nat
        /\ c.acq.plan = AcquisitionPlan(c) /\ c.acq.plan \in AcquisitionPlans
        /\ c.acq.anchor = Machine /\ c.acq # None
        /\ c.acq.status # "Complete" => c.acq.next < Acq!TotalSlots(c.acq.plan)
    BY <1>1, SessionFacts
  <2> QED
    BY <1>1, <2>1
<1>5. /\ attempt = [artifact |-> Acq!PlannedArtifact(c.acq.plan, c.acq.next), anchor |-> Machine,
                    config |-> c.acq.plan.config, snapshot |-> s]
  BY <1>4 DEF Attempt
<1>6. attempt \in Attempts
  <2>1. /\ Acq!PlannedArtifact(c.acq.plan, c.acq.next) \in Artifacts
        /\ c.acq.plan.config \in {CampaignPlans[p].config : p \in Names}
    BY <1>4, PlanFacts
  <2> QED
    BY <1>5, <2>1 DEF Attempts
<1>7. /\ attempt.artifact = Acq!PlannedArtifact(c.acq.plan, c.acq.next)
      /\ attempt.config = c.acq.plan.config /\ attempt.snapshot = s
  BY <1>5
<1> HIDE DEF attempt
<1>8. /\ j \in Journals /\ j.slot = c.acq.next /\ j.status = "prepared" /\ j.accepted = 0
      /\ j.attempts = <<attempt>> /\ Current(j) = attempt /\ Len(j.attempts) = 1
      /\ DOMAIN j.attempts = {1} /\ j.attempts[1] = attempt
  <2>1. <<attempt>> \in Seq(Attempts) /\ Len(<<attempt>>) = 1
    BY <1>6
  <2> QED
    BY <1>4, <2>1 DEF Journals, Current, Last
<1> HIDE DEF j
<1>9. /\ after = [f \in CampaignFields |-> after[f]]
      /\ after.journals = Append(c.journals, j)
      /\ \A f \in CampaignFields \ {"journals"} : after[f] = c[f]
  BY <1>1, <1>3 DEF CampaignFields
<1>10. /\ after.plan = c.plan /\ after.search = c.search /\ after.artifacts = c.artifacts
       /\ after.acq = c.acq /\ after.cohort = c.cohort /\ after.recommendation = c.recommendation
       /\ after.result = c.result
  BY <1>9 DEF CampaignFields
<1> SUFFICES /\ Ready(after, s) /\ NothingTaken(after) /\ after.plan = c.plan
             /\ Used(after) = Used(c) /\ TakenOver(c) \subseteq TakenOver(after)
             /\ after.acq = c.acq
  OBVIOUS
<1> HIDE DEF after
<1>11. /\ n \in Nat /\ DOMAIN c.journals = 1 .. n
       /\ after.journals \in Seq(Journals) /\ Len(after.journals) = n + 1
       /\ DOMAIN after.journals = DOMAIN c.journals \cup {n + 1} /\ after.journals[n + 1] = j
       /\ \A k \in DOMAIN c.journals : after.journals[k] = c.journals[k]
  <2>1. c.journals \in Seq(Journals) /\ j \in Journals /\ after.journals = Append(c.journals, j)
    BY <1>1, <1>8, <1>9
  <2> QED
    BY <2>1, SeqFacts
<1>12. IsPrefix(s, s)
  BY PrefixIs
<1>13. ASSUME NEW k \in DOMAIN after.journals PROVE JournalSound(after, s, k)
  <2>1. CASE k \in DOMAIN c.journals
    <3>1. JournalSound(c, s, k) /\ c.journals[k].status \in Settled
      BY <2>1 DEF Open, AcquisitionSound
    <3> QED
      BY <1>10, <1>11, <2>1, <3>1 DEF JournalSound
  <2>2. CASE k = n + 1
    <3>1. after.journals[k] = j
      BY <1>11, <2>2
    <3>2. \A i \in DOMAIN Slots(after) : i < after.acq.next => Slots(after)[i].id <= Len(s)
      <4>1. \A i \in DOMAIN Slots(c) : i < c.acq.next => Slots(c)[i].id \in DOMAIN s
        BY <1>1 DEF SessionSound
      <4>2. \A r \in DOMAIN s : r <= Len(s)
        OBVIOUS
      <4> QED
        BY <1>10, <4>1, <4>2 DEF Slots
    <3>3. j.status \notin Settled
      BY <1>8 DEF Settled
    <3>4. /\ Len(j.attempts) > 0
          /\ \A i \in DOMAIN j.attempts : IsPrefix(j.attempts[i].snapshot, s)
      BY <1>7, <1>8, <1>12
    <3>5. /\ k = Len(after.journals) /\ j.slot = after.acq.next
          /\ after.acq.next < Acq!TotalSlots(after.acq.plan)
          /\ Current(j).artifact = Acq!PlannedArtifact(after.acq.plan, after.acq.next)
          /\ Current(j).config = after.acq.plan.config
          /\ Current(j).snapshot = s
      BY <1>4, <1>7, <1>8, <1>10, <1>11, <2>2
    <3> QED
      BY <3>1, <3>2, <3>3, <3>4, <3>5 DEF JournalSound
  <2> QED
    BY <1>11, <2>1, <2>2
<1>14. SlotsHaveJournals(after)
  BY <1>10, <1>11 DEF Open, AcquisitionSound, SlotsHaveJournals, Slots
<1>15. AcquisitionSound(after, s)
  <2>1. SessionSound(after, s)
    BY <1>1, <1>10 DEF SessionSound, Slots, AcquisitionPlan
  <2> QED
    BY <1>11, <1>13, <1>14, <2>1 DEF AcquisitionSound
<1>16. NothingTaken(after)
  <2>1. \A k \in DOMAIN c.journals : c.journals[k].status \in Settled
    BY DEF Open
  <2> QED
    BY <1>8, <1>11, <2>1 DEF NothingTaken
<1>17. after.journals # <<>> /\ Last(after.journals).status \notin Settled
  BY <1>8, <1>11 DEF Last, Settled
<1>18. Ready(after, s)
  BY <1>1, <1>9, <1>10, <1>15, <1>17 DEF Ready, Open, Searching
<1>19. Used(after) = Used(c)
  BY <1>10 DEF Used
<1>20. TakenOver(c) \subseteq TakenOver(after)
  BY <1>11 DEF TakenOver
<1> QED
  BY <1>10, <1>16, <1>18, <1>19, <1>20

\* A retry goes on with the journal it was authorized for.
LEMMA RetryReady ==
    ASSUME NEW c, NEW s, Sound(c, s), c.status = "recovery_required"
    PROVE  /\ Ready(c, s) /\ NothingTaken(c) /\ Opened(c) = c
           /\ Last(c.journals).status = "retry_authorized" => Prepared(c, s) = c
<1>1. /\ c.acq # None /\ AcquisitionSound(c, s) /\ NothingTaken(c) /\ c.acq.status = "Running"
      /\ c.journals # <<>> /\ Last(c.journals).status \notin Settled
  BY DEF Sound, StatusSound
<1>2. /\ Searching(c) /\ c.search.status \in {"complete", "bounded"}
      /\ \A a \in ToSet(c.artifacts) : \E n \in TerminalNodes(c.search) : a \in Published(c.search, n)
      /\ c.artifacts \in ArtifactLists
  <2>1. SearchSound(c)
    BY DEF Sound
  <2>2. Searching(c) /\ c.search.status \in {"complete", "bounded"}
    BY <2>1 DEF SearchSound, Unsearched
  <2>3. \A a \in ToSet(c.artifacts) : \E n \in TerminalNodes(c.search) : a \in Published(c.search, n)
    BY <2>1 DEF SearchSound, Unsearched
  <2>4. c.artifacts \in ArtifactLists
    BY <2>1 DEF SearchSound
  <2> QED
    BY <2>2, <2>3, <2>4
<1>3. c.cohort = None /\ c.recommendation = None /\ c.result = None
  BY DEF Sound, ResultSound, Unmeasured
<1>4. Last(c.journals).slot = c.acq.next
  <2>1. Len(c.journals) \in DOMAIN c.journals
    BY <1>1 DEF AcquisitionSound
  <2> QED
    BY <1>1, <2>1 DEF AcquisitionSound, JournalSound, Last
<1> QED
  BY <1>1, <1>2, <1>3, <1>4 DEF Ready, Opened, Prepared, NeedsJournal, Sound

\* What runs the benchmark, whichever way it came about.
LEMMA ExecutionReady ==
    ASSUME NEW c, NEW s \in Seq(MeasuredRecords), Sound(c, s),
           c.status \in {"acquisition_prepared", "acquiring", "recovery_required"},
           c.status = "recovery_required" => Last(c.journals).status = "retry_authorized"
    PROVE  LET e == Prepared(Opened(c), s)
           IN  /\ Ready(e, s) /\ NothingTaken(e) /\ e.plan = c.plan
               /\ Used(e) \subseteq Used(c) /\ TakenOver(c) \subseteq TakenOver(e)
<1>1. CASE c.status = "recovery_required"
  BY <1>1, RetryReady
<1>2. CASE c.status = "acquiring"
  BY <1>2, OpenedAgain, PreparedReady
<1>3. CASE c.status = "acquisition_prepared"
  <2>1. /\ Open(Opened(c), s) /\ Opened(c).plan = c.plan
        /\ Used(Opened(c)) = {} /\ TakenOver(Opened(c)) = TakenOver(c)
    BY <1>3, OpenedFresh
  <2> QED
    BY <2>1, PreparedReady
<1> QED
  BY <1>1, <1>2, <1>3

\* A campaign, and one that differs in some fields only.
Campaign(c) == c = [f \in CampaignFields |-> c[f]]
SameBut(c, d, fields) == \A f \in CampaignFields \ fields : d[f] = c[f]

\* The journals of a campaign whose last one has been replaced.
WithLast(c, j) == [c.journals EXCEPT ![Len(c.journals)] = j]

\* A journal that goes on from the last one, which it does not decide.
GoesOn(c, s, j) ==
    /\ j \in Journals /\ j.slot = Last(c.journals).slot /\ j.status = Last(c.journals).status
    /\ Len(j.attempts) > 0 /\ \A i \in DOMAIN j.attempts : IsPrefix(j.attempts[i].snapshot, s)
    /\ Current(j).artifact = Current(Last(c.journals)).artifact
    /\ Current(j).config = Current(Last(c.journals)).config
    /\ Len(Current(Last(c.journals)).snapshot) <= Len(Current(j).snapshot)

\* Replacing it leaves the campaign ready.
LEMMA LastReplaced ==
    ASSUME NEW c, NEW s, Ready(c, s), NEW j, GoesOn(c, s, j), NEW after,
           Campaign(after), after.journals = WithLast(c, j), SameBut(c, after, {"journals"})
    PROVE  /\ Ready(after, s) /\ after.plan = c.plan /\ after.acq = c.acq
           /\ Last(after.journals) = j /\ Used(after) = Used(c)
           /\ Len(after.journals) = Len(c.journals) /\ Len(c.journals) \in DOMAIN c.journals
           /\ DOMAIN after.journals = DOMAIN c.journals
           /\ \A k \in DOMAIN c.journals : k # Len(c.journals) => after.journals[k] = c.journals[k]
<1> DEFINE n == Len(c.journals)
<1>0. /\ j \in Journals /\ j.slot = Last(c.journals).slot /\ j.status = Last(c.journals).status
      /\ Len(j.attempts) > 0 /\ \A i \in DOMAIN j.attempts : IsPrefix(j.attempts[i].snapshot, s)
      /\ Current(j).artifact = Current(Last(c.journals)).artifact
      /\ Current(j).config = Current(Last(c.journals)).config
      /\ Len(Current(Last(c.journals)).snapshot) <= Len(Current(j).snapshot)
  BY DEF GoesOn
<1>1. /\ c.journals \in Seq(Journals) /\ c.journals # <<>> /\ SessionSound(c, s)
      /\ SlotsHaveJournals(c)
  BY DEF Ready, AcquisitionSound
<1>2. n \in DOMAIN c.journals /\ Last(c.journals) = c.journals[n]
  BY <1>1 DEF Last
<1>3. /\ after.plan = c.plan /\ after.search = c.search /\ after.artifacts = c.artifacts
      /\ after.acq = c.acq /\ after.cohort = c.cohort /\ after.recommendation = c.recommendation
      /\ after.result = c.result
  BY DEF CampaignFields, SameBut
<1>4. /\ after.journals \in Seq(Journals) /\ Len(after.journals) = n
      /\ DOMAIN after.journals = DOMAIN c.journals /\ after.journals[n] = j
      /\ \A k \in DOMAIN c.journals : k # n => after.journals[k] = c.journals[k]
  BY <1>0, <1>1, <1>2, SeqFacts DEF WithLast
<1>5. JournalSound(c, s, n) /\ c.journals[n].status \notin Settled
  BY <1>2 DEF Ready, AcquisitionSound
<1>6. ASSUME NEW k \in DOMAIN after.journals PROVE JournalSound(after, s, k)
  <2>1. CASE k # n
    <3>1. JournalSound(c, s, k) /\ c.journals[k] = after.journals[k]
      BY <1>4, <2>1 DEF Ready, AcquisitionSound
    <3> QED
      BY <1>3, <1>4, <2>1, <3>1 DEF JournalSound, Slots
  <2>2. CASE k = n
    <3>1. /\ j.slot = c.acq.next /\ c.acq.next < Acq!TotalSlots(c.acq.plan)
          /\ Current(j).artifact = Acq!PlannedArtifact(c.acq.plan, c.acq.next)
          /\ Current(j).config = c.acq.plan.config /\ j.status \notin Settled
      BY <1>0, <1>2, <1>5 DEF JournalSound
    <3>2. \A i \in DOMAIN Slots(c) : i < c.acq.next => Slots(c)[i].id <= Len(Current(j).snapshot)
      <4>1. SUFFICES ASSUME NEW i \in DOMAIN Slots(c), i < c.acq.next
                     PROVE  Slots(c)[i].id <= Len(Current(j).snapshot)
        OBVIOUS
      <4>2. Slots(c)[i].id <= Len(Current(c.journals[n]).snapshot)
        BY <1>5, <4>1 DEF JournalSound
      <4>3. \A x \in Journals : Len(x.attempts) > 0 => Len(Current(x).snapshot) \in Nat
        <5>1. SUFFICES ASSUME NEW x \in Journals, Len(x.attempts) > 0
                       PROVE  Len(Current(x).snapshot) \in Nat
          OBVIOUS
        <5>2. x.attempts \in Seq(Attempts)
          BY DEF Journals
        <5>3. Current(x) \in Attempts
          BY <5>1, <5>2 DEF Current, Last
        <5>4. Current(x).snapshot \in Seq(MeasuredRecords)
          BY <5>3 DEF Attempts
        <5> QED
          BY <5>4
      <4>4. Len(Current(j).snapshot) \in Nat /\ Len(Current(c.journals[n]).snapshot) \in Nat
        <5>1. c.journals[n] \in Journals /\ Len(c.journals[n].attempts) > 0
          BY <1>1, <1>2, <1>5 DEF JournalSound
        <5> QED
          BY <1>0, <4>3, <5>1
      <4>5. Slots(c)[i].id \in Int
        <5>1. Slots(c)[i].id \in DOMAIN s
          BY <1>1, <4>1 DEF SessionSound
        <5>2. c.acq \in SessionsOf(AcquisitionPlan(c))
          BY <1>1 DEF SessionSound
        <5>3. c.acq.slots \in [Acq!SlotIndices(AcquisitionPlan(c)) ->
                 [status : {"Pending", "Complete"}, id : Nat, hash : MeasuredRecords \cup {None}]]
          BY <5>2 DEF SessionsOf
        <5> QED
          BY <5>3 DEF Slots
      <4> QED
        BY <1>0, <1>2, <4>2, <4>4, <4>5
    <3>3. after.journals[k] = j /\ k = Len(after.journals)
      BY <1>4, <2>2
    <3> QED
      BY <1>0, <1>3, <3>1, <3>2, <3>3 DEF JournalSound, Slots
  <2> QED
    BY <2>1, <2>2
<1>7. SlotsHaveJournals(after)
  <2>1. SUFFICES ASSUME NEW i \in DOMAIN Slots(after), i < after.acq.next
                 PROVE  \E k \in DOMAIN after.journals :
                            /\ after.journals[k].slot = i /\ after.journals[k].status \in Settled
                            /\ Slots(after)[i].id > Len(Current(after.journals[k]).snapshot)
    BY DEF SlotsHaveJournals
  <2>2. PICK k \in DOMAIN c.journals :
            /\ c.journals[k].slot = i /\ c.journals[k].status \in Settled
            /\ Slots(c)[i].id > Len(Current(c.journals[k]).snapshot)
    BY <1>1, <1>3, <2>1 DEF SlotsHaveJournals, Slots
  <2>3. k # n
    BY <1>5, <2>2
  <2> QED
    BY <1>3, <1>4, <2>2, <2>3 DEF Slots
<1>8. AcquisitionSound(after, s)
  <2>1. SessionSound(after, s)
    BY <1>1, <1>3 DEF SessionSound, Slots, AcquisitionPlan
  <2> QED
    BY <1>4, <1>6, <1>7, <2>1 DEF AcquisitionSound
<1>9. Last(after.journals) = j /\ after.journals # <<>>
  <2>1. DOMAIN after.journals # {}
    BY <1>2, <1>4
  <2>2. DOMAIN <<>> = {}
    OBVIOUS
  <2> QED
    BY <1>4, <2>1, <2>2 DEF Last
<1>10. Ready(after, s)
  <2>1. j.status \notin Settled
    BY <1>0, <1>2, <1>5
  <2>2. Searching(after)
    BY <1>3 DEF Ready, Searching
  <2> QED
    BY <1>3, <1>8, <1>9, <2>1, <2>2 DEF Ready, Campaign
<1>11. Used(after) = Used(c)
  BY <1>3 DEF Used
<1> QED
  BY <1>2, <1>3, <1>4, <1>9, <1>10, <1>11

\* What a campaign has become: the records it used before, and those that are new or taken over.
Succeeds(c, after, new) ==
    /\ after.plan = c.plan
    /\ Used(after) \subseteq Used(c) \cup new \cup TakenOver(after)
    /\ TakenOver(c) \subseteq TakenOver(after) \cup {0}

\* A further attempt of the same slot, authorized.
LEMMA RetriedSound ==
    ASSUME NEW c, NEW s \in Seq(MeasuredRecords), Ready(c, s), NothingTaken(c)
    PROVE  LET n == Len(c.journals)
               retried == [c EXCEPT !.journals[n].attempts = Append(@, Attempt(c.acq, s))]
               after == Noted(retried, "retry_authorized")
           IN  Sound(after, s) /\ Succeeds(c, after, {})
<1> DEFINE n == Len(c.journals)
           attempt == Attempt(c.acq, s)
           j == c.journals[n]
           again == [j EXCEPT !.attempts = Append(@, attempt)]
           retried == [c EXCEPT !.journals[n].attempts = Append(@, attempt)]
           after == Noted(retried, "retry_authorized")
<1>1. /\ c.journals \in Seq(Journals) /\ c.journals # <<>> /\ SessionSound(c, s)
      /\ c = [f \in CampaignFields |-> c[f]]
  BY DEF Ready, AcquisitionSound
<1>2. n \in DOMAIN c.journals /\ Last(c.journals) = j
  BY <1>1 DEF Last
<1>3. JournalSound(c, s, n) /\ j \in Journals /\ j.status \notin Settled
  BY <1>1, <1>2 DEF Ready, AcquisitionSound
<1>4. /\ c.acq.plan \in AcquisitionPlans /\ c.acq.anchor = Machine /\ c.acq.next \in Nat
  <2>1. /\ c.acq.next \in 0 .. Acq!TotalSlots(c.acq.plan) /\ c.acq.anchor = Machine
        /\ c.acq.plan \in AcquisitionPlans
    BY <1>1, SessionFacts
  <2> QED
    BY <2>1
<1>5. /\ attempt.artifact = Acq!PlannedArtifact(c.acq.plan, c.acq.next)
      /\ attempt.config = c.acq.plan.config /\ attempt.snapshot = s /\ attempt \in Attempts
  <2>1. attempt = [artifact |-> Acq!PlannedArtifact(c.acq.plan, c.acq.next), anchor |-> Machine,
                   config |-> c.acq.plan.config, snapshot |-> s]
    BY <1>4 DEF Attempt
  <2>2. /\ Acq!PlannedArtifact(c.acq.plan, c.acq.next) \in Artifacts
        /\ c.acq.plan.config \in {CampaignPlans[p].config : p \in Names}
    BY <1>4, PlanFacts
  <2> QED
    BY <2>1, <2>2 DEF Attempts
<1> HIDE DEF attempt
<1>6. /\ j.attempts \in Seq(Attempts) /\ Len(j.attempts) \in Nat
      /\ \A i \in DOMAIN j.attempts : IsPrefix(j.attempts[i].snapshot, s)
      /\ Current(j).artifact = attempt.artifact /\ Current(j).config = attempt.config
      /\ j.slot = c.acq.next /\ Len(j.attempts) > 0
  <2>1. j.attempts \in Seq(Attempts)
    BY <1>3 DEF Journals
  <2> QED
    BY <1>3, <1>5, <2>1 DEF JournalSound
<1>7. /\ again \in Journals /\ again.slot = j.slot /\ again.status = j.status
      /\ again.accepted = j.accepted /\ again.attempts = Append(j.attempts, attempt)
  <2>1. Append(j.attempts, attempt) \in Seq(Attempts)
    BY <1>5, <1>6
  <2> QED
    BY <1>3, <2>1 DEF Journals
<1>8. Campaign(retried) /\ retried.journals = WithLast(c, again) /\ SameBut(c, retried, {"journals"})
  BY <1>1, <1>2 DEF CampaignFields, Campaign, WithLast, SameBut
<1> HIDE DEF again, retried, j
<1>9. /\ DOMAIN again.attempts = DOMAIN j.attempts \cup {Len(j.attempts) + 1}
      /\ again.attempts[Len(j.attempts) + 1] = attempt /\ Len(again.attempts) = Len(j.attempts) + 1
      /\ \A i \in DOMAIN j.attempts : again.attempts[i] = j.attempts[i]
  BY <1>5, <1>6, <1>7, SeqFacts
<1>10. Current(again) = attempt /\ Len(again.attempts) > 0
  BY <1>6, <1>9 DEF Current, Last
<1>11. IsPrefix(s, s)
  BY PrefixIs
<1>12. \A i \in DOMAIN again.attempts : IsPrefix(again.attempts[i].snapshot, s)
  BY <1>5, <1>6, <1>9, <1>11
<1>13. Len(Current(j).snapshot) <= Len(Current(again).snapshot)
  <2>1. Current(j) \in Attempts /\ IsPrefix(Current(j).snapshot, s)
    <3>1. Len(j.attempts) \in DOMAIN j.attempts
      BY <1>6
    <3> QED
      BY <1>6, <3>1 DEF Current, Last
  <2>2. Current(j).snapshot \in Seq(MeasuredRecords)
    BY <2>1 DEF Attempts
  <2> QED
    BY <1>5, <1>10, <2>1, <2>2, PrefixIs
<1>14. /\ Ready(retried, s) /\ retried.plan = c.plan /\ Last(retried.journals) = again
       /\ Used(retried) = Used(c) /\ Len(retried.journals) = n /\ n \in DOMAIN c.journals
       /\ DOMAIN retried.journals = DOMAIN c.journals
       /\ \A k \in DOMAIN c.journals : k # n => retried.journals[k] = c.journals[k]
  <2>1. /\ again.slot = Last(c.journals).slot /\ again.status = Last(c.journals).status
        /\ Current(again).artifact = Current(Last(c.journals)).artifact
        /\ Current(again).config = Current(Last(c.journals)).config
        /\ Len(Current(Last(c.journals)).snapshot) <= Len(Current(again).snapshot)
    BY <1>2, <1>6, <1>7, <1>10, <1>13
  <2>2. /\ Ready(retried, s) /\ retried.plan = c.plan /\ retried.acq = c.acq
        /\ Last(retried.journals) = again /\ Used(retried) = Used(c)
        /\ Len(retried.journals) = Len(c.journals) /\ Len(c.journals) \in DOMAIN c.journals
        /\ DOMAIN retried.journals = DOMAIN c.journals
        /\ \A k \in DOMAIN c.journals : k # Len(c.journals) => retried.journals[k] = c.journals[k]
    <3>1. GoesOn(c, s, again)
      BY <1>7, <1>10, <1>12, <2>1 DEF GoesOn
    <3> QED
      BY <1>8, <3>1, LastReplaced
  <2> QED
    BY <2>2
<1>15. retried.journals[n] = again
  BY <1>14 DEF Last
<1>16. \A k \in DOMAIN c.journals : /\ retried.journals[k].accepted = c.journals[k].accepted
                                     /\ retried.journals[k].status = c.journals[k].status
  BY <1>7, <1>14, <1>15 DEF j
<1>17. NothingTaken(retried) /\ TakenOver(retried) = TakenOver(c)
  BY <1>14, <1>16 DEF NothingTaken, TakenOver
<1>18. "retry_authorized" \in Unsettled
  BY DEF Unsettled
<1>19. /\ Sound(after, s) /\ after.plan = retried.plan
       /\ Used(after) = Used(retried) /\ TakenOver(after) = TakenOver(retried)
  BY <1>14, <1>17, <1>18, UnsettledSound
<1> QED
  BY <1>14, <1>17, <1>19 DEF Succeeds, retried, attempt

\* The record that appeared since the attempt is taken over.
LEMMA TakenSound ==
    ASSUME NEW c, NEW s \in Seq(MeasuredRecords), Ready(c, s), NothingTaken(c),
           NEW r \in NewRecords(c, s), Compatible(c, s[r])
    PROVE  LET n == Len(c.journals)
               taken == [c EXCEPT !.journals[n].accepted = r]
               after == Attached(taken, r, s[r])
           IN  Sound(after, s) /\ Succeeds(c, after, {})
<1> DEFINE n == Len(c.journals)
           j == c.journals[n]
           noted == [j EXCEPT !.accepted = r]
           taken == [c EXCEPT !.journals[n].accepted = r]
           after == Attached(taken, r, s[r])
<1>1. /\ c.journals \in Seq(Journals) /\ c.journals # <<>> /\ c = [f \in CampaignFields |-> c[f]]
  BY DEF Ready, AcquisitionSound
<1>2. n \in DOMAIN c.journals /\ Last(c.journals) = j
  BY <1>1 DEF Last
<1>3. JournalSound(c, s, n) /\ j \in Journals /\ j.status \notin Settled
  BY <1>1, <1>2 DEF Ready, AcquisitionSound
<1>4. j.accepted = 0
  BY <1>2, <1>3 DEF NothingTaken
<1>5. r \in DOMAIN s /\ r \in Nat /\ r \notin DOMAIN Current(j).snapshot
  BY <1>2 DEF NewRecords
<1>6. /\ s[r].artifact = Current(j).artifact /\ s[r].config = Current(j).config
  BY <1>2 DEF Compatible
<1>7. /\ j.attempts \in Seq(Attempts) /\ Len(j.attempts) > 0
      /\ \A i \in DOMAIN j.attempts : IsPrefix(j.attempts[i].snapshot, s)
  BY <1>3 DEF JournalSound, Journals
<1>8. Current(j).snapshot \in Seq(MeasuredRecords)
  <2>1. Current(j) \in Attempts
    BY <1>7 DEF Current, Last
  <2> QED
    BY <2>1 DEF Attempts
<1>9. Len(Current(j).snapshot) \in Nat /\ r > Len(Current(j).snapshot)
  BY <1>5, <1>8
<1>10. /\ noted \in Journals /\ noted.slot = j.slot /\ noted.status = j.status
       /\ noted.accepted = r /\ noted.attempts = j.attempts
  BY <1>3, <1>5 DEF Journals
<1>11. Campaign(taken) /\ taken.journals = WithLast(c, noted) /\ SameBut(c, taken, {"journals"})
  BY <1>1, <1>2 DEF CampaignFields, Campaign, WithLast, SameBut
<1> HIDE DEF noted, taken, j
<1>12. GoesOn(c, s, noted)
  <2>1. Current(noted) = Current(j)
    BY <1>10 DEF Current
  <2> QED
    BY <1>2, <1>7, <1>9, <1>10, <2>1 DEF GoesOn
<1>13. /\ Ready(taken, s) /\ taken.plan = c.plan
       /\ Last(taken.journals) = noted /\ Used(taken) = Used(c)
       /\ Len(taken.journals) = n /\ DOMAIN taken.journals = DOMAIN c.journals
       /\ \A k \in DOMAIN c.journals : k # n => taken.journals[k] = c.journals[k]
  BY <1>11, <1>12, LastReplaced
<1>14. /\ r > Len(Current(Last(taken.journals)).snapshot)
       /\ s[r].artifact = Current(Last(taken.journals)).artifact
       /\ s[r].config = Current(Last(taken.journals)).config
  BY <1>6, <1>9, <1>10, <1>13 DEF Current
<1>15. /\ Sound(after, s) /\ after.plan = taken.plan
       /\ Used(after) = Used(taken) \cup {r} /\ TakenOver(after) = TakenOver(taken)
  BY <1>5, <1>13, <1>14, AttachedSound
<1> HIDE DEF after
<1>16. taken.journals[n] = noted
  BY <1>13 DEF Last
<1>17. r \in TakenOver(taken) /\ TakenOver(c) \subseteq TakenOver(taken) \cup {0}
  <2>1. \A k \in DOMAIN c.journals : c.journals[k].accepted \in {taken.journals[k].accepted, 0}
    BY <1>4, <1>13 DEF j
  <2> QED
    BY <1>2, <1>10, <1>13, <1>16, <2>1 DEF TakenOver
<1>18. Succeeds(c, after, {})
  BY <1>13, <1>15, <1>17 DEF Succeeds
<1> QED
  BY <1>15, <1>18 DEF after, taken

\* A reconciliation, whatever it finds.
LEMMA ReconciledSound ==
    ASSUME NEW c, NEW s \in Seq(MeasuredRecords), Sound(c, s), c.status = "recovery_required",
           NEW authorize
    PROVE  Sound(Reconciled(c, s, authorize), s) /\ Succeeds(c, Reconciled(c, s, authorize), {})
<1> DEFINE n == Len(c.journals)
           new == NewRecords(c, s)
           r == Min(new)
           retried == [c EXCEPT !.journals[n].attempts = Append(@, Attempt(c.acq, s))]
           taken == [c EXCEPT !.journals[n].accepted = r]
           after == Reconciled(c, s, authorize)
<1>1. Ready(c, s) /\ NothingTaken(c)
  BY RetryReady
<1>2. \A status \in Unsettled : Sound(Noted(c, status), s) /\ Succeeds(c, Noted(c, status), {})
  BY <1>1, UnsettledSound DEF Succeeds
<1>3. {"blocked", "ambiguous", "no_publication"} \subseteq Unsettled
  BY DEF Unsettled
<1>4. CASE \E q \in new : ~Compatible(c, s[q])
  <2>1. after = Noted(c, "blocked")
    BY <1>4 DEF Reconciled
  <2> QED
    BY <1>2, <1>3, <2>1
<1>5. CASE ~(\E q \in new : ~Compatible(c, s[q]))
  <2>1. CASE Cardinality(new) > 1
    <3>1. after = Noted(c, "ambiguous")
      BY <1>5, <2>1 DEF Reconciled
    <3> QED
      BY <1>2, <1>3, <3>1
  <2>2. CASE ~(Cardinality(new) > 1) /\ new = {} /\ authorize
    <3>1. after = Noted(retried, "retry_authorized")
      BY <1>5, <2>2 DEF Reconciled
    <3>2. Sound(Noted(retried, "retry_authorized"), s)
          /\ Succeeds(c, Noted(retried, "retry_authorized"), {})
      BY <1>1, RetriedSound
    <3> QED
      BY <3>1, <3>2
  <2>3. CASE ~(Cardinality(new) > 1) /\ new = {} /\ ~authorize
    <3>1. after = Noted(c, "no_publication")
      BY <1>5, <2>3 DEF Reconciled
    <3> QED
      BY <1>2, <1>3, <3>1
  <2>4. CASE ~(Cardinality(new) > 1) /\ new # {}
    <3>1. after = Attached(taken, r, s[r])
      BY <1>5, <2>4 DEF Reconciled
    <3>2. new \subseteq Nat
      BY DEF NewRecords
    <3>3. r \in new
      BY <2>4, <3>2, MinIs
    <3> HIDE DEF new, r
    <3>4. r \in NewRecords(c, s) /\ Compatible(c, s[r])
      BY <1>5, <3>3 DEF new
    <3>5. Sound(Attached(taken, r, s[r]), s) /\ Succeeds(c, Attached(taken, r, s[r]), {})
      BY <1>1, <3>4, TakenSound
    <3> QED
      BY <3>1, <3>5
  <2> QED
    BY <2>1, <2>2, <2>3, <2>4
<1> QED
  BY <1>4, <1>5

-----------------------------------------------------------------------------
\* The other stages.

\* The acquisition of a campaign says the same of one that shares it.
LEMMA AcquisitionSame ==
    ASSUME NEW c, NEW d, NEW s, d.acq = c.acq, d.journals = c.journals, d.plan = c.plan,
           d.artifacts = c.artifacts
    PROVE  /\ AcquisitionSound(c, s) => AcquisitionSound(d, s)
           /\ NothingTaken(c) => NothingTaken(d)
           /\ Used(d) = Used(c) /\ TakenOver(d) = TakenOver(c)
           /\ Measured(d, s) = Measured(c, s)
<1>1. NothingTaken(c) => NothingTaken(d)
  BY DEF NothingTaken
<1>2. Used(d) = Used(c) /\ TakenOver(d) = TakenOver(c) /\ Measured(d, s) = Measured(c, s)
  BY DEF Used, TakenOver, Measured
<1>3. SessionSound(c, s) => SessionSound(d, s)
  BY DEF SessionSound, Slots, AcquisitionPlan
<1>4. \A k : JournalSound(c, s, k) => JournalSound(d, s, k)
  BY DEF JournalSound, Slots
<1>5. SlotsHaveJournals(c) => SlotsHaveJournals(d)
  BY DEF SlotsHaveJournals, Slots
<1> QED
  BY <1>1, <1>2, <1>3, <1>4, <1>5 DEF AcquisitionSound

\* A step that leaves session and journals alone uses nothing new.
LEMMA SuccessorSame ==
    ASSUME NEW c, NEW d, d.acq = c.acq, d.journals = c.journals, d.plan = c.plan
    PROVE  Succeeds(c, d, {})
  BY DEF Succeeds, Used, TakenOver

\* How often it was checkpointed and resumed is no part of what it is.
LEMMA WorkSound ==
    ASSUME NEW c, NEW s, Sound(c, s), NEW d, Campaign(d), SameBut(c, d, {"work"})
    PROVE  Sound(d, s) /\ d.plan = c.plan /\ Succeeds(c, d, {})
<1>1. /\ d.plan = c.plan /\ d.search = c.search /\ d.artifacts = c.artifacts /\ d.acq = c.acq
      /\ d.journals = c.journals /\ d.cohort = c.cohort /\ d.recommendation = c.recommendation
      /\ d.status = c.status /\ d.result = c.result
  BY DEF SameBut, CampaignFields
<1>2. d.acq # None => AcquisitionSound(d, s) /\ NothingTaken(d)
  BY <1>1, AcquisitionSame DEF Sound
<1>3. StatusSound(d)
  BY <1>1 DEF Sound, StatusSound
<1>4. SearchSound(d)
  BY <1>1 DEF Sound, SearchSound, Searching
<1>5. ResultSound(d, s)
  <2>1. CohortSound(c, s) => CohortSound(d, s)
    BY <1>1, AcquisitionSame DEF CohortSound
  <2>2. Recommended(d) = Recommended(c)
    BY <1>1 DEF Recommended
  <2> QED
    BY <1>1, <2>1, <2>2 DEF Sound, ResultSound
<1>6. Succeeds(c, d, {})
  BY <1>1, SuccessorSame
<1> QED
  BY <1>1, <1>2, <1>3, <1>4, <1>5, <1>6 DEF Sound, Campaign

\* A campaign just started.
LEMMA NewSound ==
    ASSUME NEW p \in Names, NEW s
    PROVE  Sound(NewCampaign(p), s) /\ NewCampaign(p).plan = p /\ Used(NewCampaign(p)) = {}
<1> DEFINE c == NewCampaign(p)
<1>1. /\ c = [f \in CampaignFields |-> c[f]] /\ c.plan = p
      /\ c.search = StartSearch(CampaignPlans[p].search) /\ c.artifacts = <<>> /\ c.acq = None
      /\ c.journals = <<>> /\ c.cohort = None /\ c.recommendation = None
      /\ c.status = "planned" /\ c.result = None
  BY DEF NewCampaign, CampaignFields
<1> HIDE DEF c
<1>2. Searching(c)
  BY <1>1, AdvancedNone DEF Searching, Run
<1>3. StatusSound(c)
  BY <1>1 DEF StatusSound, CampaignStatuses, Unmeasured, Measuring
<1>4. SearchSound(c)
  BY <1>1, <1>2 DEF SearchSound, Unsearched, Measuring
<1>5. ResultSound(c, s)
  BY <1>1 DEF ResultSound
<1>6. Used(c) = {}
  BY <1>1 DEF Used
<1> QED
  BY <1>1, <1>3, <1>4, <1>5, <1>6 DEF Sound, c

\* A campaign whose search has gone on.
LEMMA SearchedSound ==
    ASSUME NEW c, NEW s, Sound(c, s), c.status \in {"planned", "searching"}, NEW units \in Units
    PROVE  LET search == Advanced(c.search, units)
               after == [c EXCEPT !.search = search, !.status = AfterSearch(search)]
           IN  Sound(after, s) /\ Succeeds(c, after, {})
<1> DEFINE search == Advanced(c.search, units)
           status == AfterSearch(search)
           after == [c EXCEPT !.search = search, !.status = status]
           plan == CampaignPlans[c.plan].search
<1>1. /\ c = [f \in CampaignFields |-> c[f]] /\ c.plan \in Names /\ c.acq = None /\ c.journals = <<>>
      /\ c.cohort = None /\ c.recommendation = None /\ c.result = None
  BY DEF Sound, StatusSound, Unmeasured, ResultSound
<1>2. plan.children \in Nat /\ units \in Nat
  BY <1>1, StagesAssumption, SearchAssumption
<1>3. PICK n \in Nat : c.search = Run(plan, n)
  BY DEF Sound, SearchSound, Searching
<1>4. n + units \in Nat /\ search = Run(plan, n + units)
  <2>1. Advanced(Advanced(StartSearch(plan), n), units) = Advanced(StartSearch(plan), n + units)
    BY <1>2, AdvancedTwice
  <2> QED
    BY <1>2, <1>3, <2>1 DEF Run
<1>5. UnitHolds(plan, n + units, search)
  BY <1>2, <1>4, RunHolds
<1>6. search.status \in {"running", "complete", "bounded", "failed"}
  BY <1>5 DEF UnitHolds, Ends
<1> HIDE DEF search, plan
<1>7. /\ search.status = "running" => status = "searching"
      /\ search.status \in {"complete", "bounded"} => status = "search_complete"
      /\ search.status = "failed" => status = "failed"
  BY <1>6 DEF AfterSearch
<1> HIDE DEF status
<1>8. /\ after = [f \in CampaignFields |-> after[f]] /\ after.plan = c.plan /\ after.search = search
      /\ after.status = status /\ after.acq = None /\ after.journals = <<>> /\ after.cohort = None
      /\ after.recommendation = None /\ after.result = None
  BY <1>1 DEF CampaignFields
<1> HIDE DEF after
<1>9. Searching(after)
  BY <1>4, <1>8 DEF Searching, plan
<1>10. StatusSound(after)
  BY <1>6, <1>7, <1>8 DEF StatusSound, CampaignStatuses, Unmeasured, Measuring
<1>11. SearchSound(after)
  BY <1>6, <1>7, <1>8, <1>9 DEF SearchSound, Unsearched, Measuring, Stopped
<1>12. ResultSound(after, s)
  BY <1>6, <1>7, <1>8 DEF ResultSound
<1>13. Succeeds(c, after, {})
  BY <1>1, <1>8, SuccessorSame
<1> QED
  BY <1>1, <1>8, <1>10, <1>11, <1>12, <1>13 DEF Sound, after, search, status

\* The artifacts of a set, in the order of their hashes.
ListHolds(about, n, list) ==
    /\ list \in Seq(Artifacts) /\ Len(list) <= n
    /\ \A i \in DOMAIN list : list[i] \in about /\ \E k \in 1 .. n : list[i] = HashOrder[k]
    /\ \A i, j \in DOMAIN list : i < j => Below(list[i], list[j])

Listing == INSTANCE FoldFacts WITH Op <- ListOp, Holds <- ListHolds

\* The order of the hashes is one of the artifacts.
LEMMA OrderIs ==
    /\ HashOrder \in Seq(Artifacts) /\ Len(HashOrder) \in Nat /\ DOMAIN HashOrder = 1 .. Len(HashOrder)
    /\ \A k \in 1 .. Len(HashOrder) : HashOrder[k] \in Artifacts
<1>1. HashOrder \in Seq(Artifacts)
  BY StagesAssumption
<1> QED
  BY <1>1, SeqFacts

\* An artifact put at the end of a list in the order of the hashes.
LEMMA ListNext ==
    ASSUME NEW set, NEW n \in 1 .. Len(HashOrder), NEW list, ListHolds(set, n - 1, list)
    PROVE  ListHolds(set, n, ListOp(set, list, HashOrder[n]))
<1> DEFINE a == HashOrder[n]
           more == Append(list, a)
<1>1. /\ list \in Seq(Artifacts) /\ Len(list) <= n - 1
      /\ \A i \in DOMAIN list : list[i] \in set /\ \E k \in 1 .. n - 1 : list[i] = HashOrder[k]
      /\ \A i, j \in DOMAIN list : i < j => Below(list[i], list[j])
  BY DEF ListHolds
<1>2. Len(HashOrder) \in Nat /\ n \in Nat /\ n \in DOMAIN HashOrder /\ a \in Artifacts
  BY OrderIs
<1>3. Len(list) \in Nat /\ DOMAIN list = 1 .. Len(list)
  BY <1>1, SeqFacts
<1>4. CASE a \notin set
  <2>1. ListOp(set, list, a) = list
    BY <1>4 DEF ListOp
  <2>2. Len(list) <= n
    BY <1>1, <1>2, <1>3
  <2>3. \A k \in 1 .. n - 1 : k \in 1 .. n
    BY <1>2
  <2> QED
    BY <1>1, <2>1, <2>2, <2>3 DEF ListHolds
<1>5. CASE a \in set
  <2>1. ListOp(set, list, a) = more
    BY <1>5 DEF ListOp
  <2>2. /\ more \in Seq(Artifacts) /\ Len(more) = Len(list) + 1
        /\ DOMAIN more = DOMAIN list \cup {Len(list) + 1} /\ more[Len(list) + 1] = a
        /\ \A i \in DOMAIN list : more[i] = list[i] /\ i # Len(list) + 1
    BY <1>1, <1>2, SeqFacts
  <2> HIDE DEF more
  <2>3. Len(more) <= n
    BY <1>1, <1>2, <1>3, <2>2
  <2>4. \A k \in 1 .. n - 1 : k \in 1 .. n /\ k < n /\ k \in DOMAIN HashOrder
    BY <1>2, OrderIs
  <2>5. \A i \in DOMAIN more : more[i] \in set /\ \E k \in 1 .. n : more[i] = HashOrder[k]
    <3>1. n \in 1 .. n
      BY <1>2
    <3> QED
      BY <1>1, <1>5, <2>2, <2>4, <3>1
  <2>6. \A i, j \in DOMAIN more : i < j => Below(more[i], more[j])
    <3>1. \A i \in DOMAIN list : Below(list[i], a)
      <4>1. SUFFICES ASSUME NEW i \in DOMAIN list PROVE Below(list[i], a)
        OBVIOUS
      <4>2. PICK k \in 1 .. n - 1 : list[i] = HashOrder[k]
        BY <1>1, <4>1
      <4> QED
        BY <1>2, <2>4, <4>2 DEF Below
    <3>2. \A i \in DOMAIN list : ~(Len(list) + 1 < i) /\ ~(i < i)
      BY <1>3
    <3>3. ~(Len(list) + 1 < Len(list) + 1)
      BY <1>3
    <3> QED
      BY <1>1, <2>2, <3>1, <3>2, <3>3
  <2> QED
    BY <2>1, <2>2, <2>3, <2>5, <2>6 DEF ListHolds
<1> QED
  BY <1>4, <1>5

\* A set in the order of the hashes is a list of its artifacts, each once.
LEMMA InHashOrderIs ==
    ASSUME NEW set
    PROVE  ListHolds(set, Len(HashOrder), InHashOrder(set))
<1> DEFINE n == Len(HashOrder)
<1>1. InHashOrder(set) = Listing!Fold(set, <<>>, HashOrder)
  BY DEF InHashOrder, ListOp, Listing!Fold, Listing!FoldLeft, FoldLeft,
     Listing!MapThenFoldSet, MapThenFoldSet, Listing!Max, Max
<1>2. n \in Nat /\ DOMAIN HashOrder = 1 .. n
  BY OrderIs
<1>3. ListHolds(set, 0, <<>>)
  <2>1. <<>> \in Seq(Artifacts) /\ Len(<<>>) = 0 /\ DOMAIN <<>> = {}
    OBVIOUS
  <2> QED
    BY <2>1 DEF ListHolds
<1>4. Listing!Kept(set, set, <<>>, HashOrder, n)
  <2>1. \A i \in 1 .. n : \A r : ListHolds(set, i - 1, r) => ListHolds(set, i, ListOp(set, r, HashOrder[i]))
    BY ListNext
  <2> QED
    BY <1>3, <2>1 DEF Listing!Kept
<1> QED
  BY <1>1, <1>2, <1>4, Listing!FoldKeeps

\* What is eligible was published by a terminal, and is a list when there is any.
LEMMA EligibleIs ==
    ASSUME NEW c, c.plan \in Names
    PROVE  LET list == EligibleArtifacts(c) IN
           /\ \A a \in ToSet(list) : \E n \in TerminalNodes(c.search) : a \in Published(c.search, n)
           /\ list # <<>> => list \in ArtifactLists
<1> DEFINE found == UNION {Published(c.search, n) : n \in TerminalNodes(c.search)}
           set == found \cap Catalog
           sorted == InHashOrder(set)
           cap == CampaignPlans[c.plan].cap
           m == Min({cap, Len(sorted)})
           list == SubSeq(sorted, 1, m)
<1>1. EligibleArtifacts(c) = list
  BY DEF EligibleArtifacts
<1>2. /\ sorted \in Seq(Artifacts) /\ Len(sorted) <= Len(HashOrder) /\ Len(sorted) \in Nat
      /\ \A i \in DOMAIN sorted : sorted[i] \in set
      /\ \A i, j \in DOMAIN sorted : i < j => Below(sorted[i], sorted[j])
  <2>1. ListHolds(set, Len(HashOrder), sorted)
    BY InHashOrderIs
  <2> HIDE DEF sorted, set
  <2>2. sorted \in Seq(Artifacts)
    BY <2>1 DEF ListHolds
  <2> QED
    BY <2>1, <2>2 DEF ListHolds
<1> HIDE DEF sorted
<1>3. cap \in Nat
  BY StagesAssumption
<1>4. m \in Nat /\ m <= Len(sorted)
  <2>1. {cap, Len(sorted)} \subseteq Nat /\ {cap, Len(sorted)} # {}
    BY <1>2, <1>3
  <2>2. m \in {cap, Len(sorted)} /\ \A n \in {cap, Len(sorted)} : m <= n
    BY <2>1, MinIs
  <2> QED
    BY <2>1, <2>2
<1> HIDE DEF m
<1>5. /\ Len(list) = m /\ DOMAIN list = 1 .. m /\ list = [i \in 1 .. m |-> sorted[i]]
      /\ \A i \in 1 .. m : list[i] = sorted[i] /\ i \in DOMAIN sorted
  BY <1>2, <1>4
<1> HIDE DEF list
<1>6. \A a \in ToSet(list) : a \in found
  BY <1>2, <1>5 DEF ToSet
<1>7. ASSUME list # <<>> PROVE list \in ArtifactLists
  <2>1. m # 0
    <3>1. SUFFICES ASSUME m = 0 PROVE FALSE
      OBVIOUS
    <3>2. list = <<>>
      BY <1>5, <3>1
    <3> QED
      BY <1>7, <3>2
  <2>2. Len(HashOrder) \in Nat
    BY OrderIs
  <2>3. m \in 1 .. Len(HashOrder)
    BY <1>2, <1>4, <2>1, <2>2
  <2>4. \A i \in 1 .. m : sorted[i] \in Artifacts
    BY <1>2, <1>5
  <2>5. list \in [1 .. m -> Artifacts]
    BY <1>5, <2>4
  <2>6. \A i, j \in DOMAIN list : i < j => Below(list[i], list[j])
    BY <1>2, <1>5
  <2> QED
    BY <2>3, <2>5, <2>6 DEF ArtifactLists
<1> QED
  BY <1>1, <1>6, <1>7

\* A campaign with its artifacts, or over for want of any.
LEMMA FoundSound ==
    ASSUME NEW c, NEW s, Sound(c, s), c.status = "search_complete"
    PROVE  LET after == WithArtifacts(c, EligibleArtifacts(c))
           IN  Sound(after, s) /\ Succeeds(c, after, {})
<1> DEFINE list == EligibleArtifacts(c)
           found == [c EXCEPT !.artifacts = list]
           empty == [found EXCEPT !.status = "no_eligible_terminal"]
           ended == [empty EXCEPT !.result = Content(empty)]
           going == [found EXCEPT !.status = "acquisition_prepared"]
           after == WithArtifacts(c, list)
<1>1. /\ c = [f \in CampaignFields |-> c[f]] /\ c.plan \in Names /\ c.acq = None /\ c.journals = <<>>
      /\ c.cohort = None /\ c.recommendation = None /\ c.result = None
  BY DEF Sound, StatusSound, Unmeasured, ResultSound
<1>2. Searching(c) /\ c.search.status \in {"complete", "bounded"}
  BY DEF Sound, SearchSound, Unsearched
<1>3. /\ \A a \in ToSet(list) : \E n \in TerminalNodes(c.search) : a \in Published(c.search, n)
      /\ list # <<>> => list \in ArtifactLists
  BY <1>1, EligibleIs
<1>4. after = IF list = <<>> THEN ended ELSE going
  BY DEF WithArtifacts
<1> HIDE DEF list
<1> DEFINE result == Content(empty)
<1>5. ended = [empty EXCEPT !.result = result]
  OBVIOUS
<1> HIDE DEF result
<1>6. /\ after = [f \in CampaignFields |-> after[f]]
      /\ after.plan = c.plan /\ after.search = c.search /\ after.artifacts = list
      /\ after.acq = None /\ after.journals = <<>> /\ after.cohort = None /\ after.recommendation = None
  <2>1. CASE list = <<>>
    BY <1>1, <1>4, <1>5, <2>1 DEF CampaignFields
  <2>2. CASE list # <<>>
    BY <1>1, <1>4, <2>2 DEF CampaignFields
  <2> QED
    BY <2>1, <2>2
<1>7. \/ after.status = "no_eligible_terminal"
      \/ after.status = "acquisition_prepared" /\ list # <<>> /\ after.result = None
  <2>1. CASE list = <<>>
    BY <1>1, <1>4, <1>5, <2>1 DEF CampaignFields
  <2>2. CASE list # <<>>
    BY <1>1, <1>4, <2>2 DEF CampaignFields
  <2> QED
    BY <2>1, <2>2
<1> HIDE DEF after
<1>8. StatusSound(after)
  BY <1>6, <1>7 DEF StatusSound, CampaignStatuses, Unmeasured, Measuring
<1>9. SearchSound(after)
  <2>1. Searching(after)
    BY <1>2, <1>6 DEF Searching
  <2> QED
    BY <1>2, <1>3, <1>6, <1>7, <2>1 DEF SearchSound, Unsearched, Measuring
<1>10. ResultSound(after, s)
  BY <1>6, <1>7 DEF ResultSound
<1>11. Succeeds(c, after, {})
  BY <1>1, <1>6, SuccessorSame
<1> QED
  BY <1>1, <1>6, <1>8, <1>9, <1>10, <1>11 DEF Sound, after, list

\* The parts of a campaign its later stages leave alone.
LEMMA LaterSame ==
    ASSUME NEW c, NEW s, Sound(c, s), NEW d, Campaign(d), d.plan = c.plan, d.search = c.search,
           d.artifacts = c.artifacts, d.acq = c.acq, d.journals = c.journals,
           c.status \in {"acquisition_complete", "cohort_ready", "recommendation_ready"},
           d.status \in {"cohort_ready", "recommendation_ready", "complete"}
    PROVE  /\ d.acq # None => AcquisitionSound(d, s) /\ NothingTaken(d)
           /\ StatusSound(d) /\ SearchSound(d) /\ Succeeds(c, d, {})
           /\ c.acq # None /\ c.acq.status = "Complete"
<1>1. c.acq # None /\ c.acq.status = "Complete" /\ AcquisitionSound(c, s) /\ NothingTaken(c)
  BY DEF Sound, StatusSound, Measuring
<1>2. d.acq # None => AcquisitionSound(d, s) /\ NothingTaken(d)
  BY <1>1, AcquisitionSame
<1>3. StatusSound(d)
  BY <1>1 DEF StatusSound, CampaignStatuses, Unmeasured, Measuring
<1>4. SearchSound(d)
  <2>1. /\ Searching(c) /\ c.search.status \in {"complete", "bounded"}
        /\ \A a \in ToSet(c.artifacts) : \E n \in TerminalNodes(c.search) : a \in Published(c.search, n)
        /\ c.artifacts \in ArtifactLists
    <3>1. SearchSound(c)
      BY DEF Sound
    <3> QED
      BY <3>1 DEF SearchSound, Unsearched, Measuring
  <2>2. Searching(d)
    BY <2>1 DEF Searching
  <2> QED
    BY <2>1, <2>2 DEF SearchSound, Unsearched
<1>5. Succeeds(c, d, {})
  BY SuccessorSame
<1> QED
  BY <1>1, <1>2, <1>3, <1>4, <1>5

\* A campaign with its cohort.
LEMMA MeasuredSound ==
    ASSUME NEW c, NEW s, Sound(c, s), c.status = "acquisition_complete",
           IsCohort(Measured(c, s), CampaignPlans[c.plan].rounds)
    PROVE  LET after == [c EXCEPT !.cohort = Measured(c, s), !.status = "cohort_ready"]
           IN  Sound(after, s) /\ Succeeds(c, after, {})
<1> DEFINE cohort == Measured(c, s)
           after == [c EXCEPT !.cohort = cohort, !.status = "cohort_ready"]
<1>1. /\ c = [f \in CampaignFields |-> c[f]] /\ c.plan \in Names
      /\ c.recommendation = None /\ c.result = None
  BY DEF Sound, ResultSound
<1> HIDE DEF cohort
<1>2. /\ Campaign(after) /\ after.plan = c.plan /\ after.search = c.search
      /\ after.artifacts = c.artifacts /\ after.acq = c.acq /\ after.journals = c.journals
      /\ after.cohort = cohort /\ after.recommendation = None /\ after.result = None
      /\ after.status = "cohort_ready"
  BY <1>1 DEF CampaignFields, Campaign
<1> HIDE DEF after
<1>3. /\ after.acq # None => AcquisitionSound(after, s) /\ NothingTaken(after)
      /\ StatusSound(after) /\ SearchSound(after) /\ Succeeds(c, after, {})
      /\ c.acq # None /\ c.acq.status = "Complete"
  BY <1>2, LaterSame
<1>4. CohortSound(after, s)
  <2>1. Measured(after, s) = cohort
    BY <1>2, AcquisitionSame DEF cohort
  <2> QED
    BY <1>2, <1>3, <2>1 DEF CohortSound, cohort
<1>5. ResultSound(after, s)
  BY <1>2, <1>4 DEF ResultSound, Unmeasured
<1> QED
  BY <1>1, <1>2, <1>3, <1>5 DEF Sound, Campaign, after, cohort

\* A campaign with its recommendation.
LEMMA RecommendedSound ==
    ASSUME NEW c, NEW s, Sound(c, s), c.status = "cohort_ready"
    PROVE  LET after == [c EXCEPT !.recommendation = Recommended(c),
                                  !.status = "recommendation_ready"]
           IN  Sound(after, s) /\ Succeeds(c, after, {})
<1> DEFINE chosen == Recommended(c)
           after == [c EXCEPT !.recommendation = chosen, !.status = "recommendation_ready"]
<1>1. /\ c = [f \in CampaignFields |-> c[f]] /\ c.plan \in Names
      /\ c.result = None /\ CohortSound(c, s)
  BY DEF Sound, ResultSound
<1> HIDE DEF chosen
<1>2. /\ Campaign(after) /\ after.plan = c.plan /\ after.search = c.search
      /\ after.artifacts = c.artifacts /\ after.acq = c.acq /\ after.journals = c.journals
      /\ after.cohort = c.cohort /\ after.recommendation = chosen /\ after.result = None
      /\ after.status = "recommendation_ready"
  BY <1>1 DEF CampaignFields, Campaign
<1> HIDE DEF after
<1>3. /\ after.acq # None => AcquisitionSound(after, s) /\ NothingTaken(after)
      /\ StatusSound(after) /\ SearchSound(after) /\ Succeeds(c, after, {})
      /\ c.acq # None /\ c.acq.status = "Complete"
  BY <1>2, LaterSame
<1>4. CohortSound(after, s)
  <2>1. Measured(after, s) = Measured(c, s)
    BY <1>2, AcquisitionSame
  <2> QED
    BY <1>1, <1>2, <2>1 DEF CohortSound
<1>5. after.recommendation = Recommended(after)
  BY <1>2 DEF Recommended, chosen
<1>6. ResultSound(after, s)
  BY <1>2, <1>4, <1>5 DEF ResultSound, Unmeasured
<1> QED
  BY <1>1, <1>2, <1>3, <1>6 DEF Sound, Campaign, after, chosen

\* A campaign with its result.
LEMMA FinalSound ==
    ASSUME NEW c, NEW s, Sound(c, s), c.status = "recommendation_ready"
    PROVE  LET complete == [c EXCEPT !.status = "complete"]
               after == [complete EXCEPT !.result = Content(complete)]
           IN  Sound(after, s) /\ Succeeds(c, after, {})
<1> DEFINE complete == [c EXCEPT !.status = "complete"]
           result == Content(complete)
           after == [complete EXCEPT !.result = result]
<1>1. /\ c = [f \in CampaignFields |-> c[f]] /\ c.plan \in Names
      /\ CohortSound(c, s) /\ c.recommendation = Recommended(c)
  BY DEF Sound, ResultSound
<1> HIDE DEF result
<1>2. /\ Campaign(after) /\ after.plan = c.plan /\ after.search = c.search
      /\ after.artifacts = c.artifacts /\ after.acq = c.acq /\ after.journals = c.journals
      /\ after.cohort = c.cohort /\ after.recommendation = c.recommendation
      /\ after.status = "complete"
  BY <1>1 DEF CampaignFields, Campaign
<1> HIDE DEF after
<1>3. /\ after.acq # None => AcquisitionSound(after, s) /\ NothingTaken(after)
      /\ StatusSound(after) /\ SearchSound(after) /\ Succeeds(c, after, {})
      /\ c.acq # None /\ c.acq.status = "Complete"
  BY <1>2, LaterSame
<1>4. CohortSound(after, s)
  <2>1. Measured(after, s) = Measured(c, s)
    BY <1>2, AcquisitionSame
  <2> QED
    BY <1>1, <1>2, <2>1 DEF CohortSound
<1>5. after.recommendation = Recommended(after)
  BY <1>1, <1>2 DEF Recommended
<1>6. ResultSound(after, s)
  BY <1>2, <1>4, <1>5 DEF ResultSound, Unmeasured
<1> QED
  BY <1>1, <1>2, <1>3, <1>6 DEF Sound, Campaign, after, result

\* A session cancelled while it runs.
LEMMA SessionCancelled ==
    ASSUME NEW c, NEW s, AcquisitionSound(c, s), NothingTaken(c), c.acq.status = "Running",
           NEW d, d.acq = [c.acq EXCEPT !.status = "Cancelled"], d.journals = c.journals,
           d.plan = c.plan, d.artifacts = c.artifacts
    PROVE  /\ AcquisitionSound(d, s) /\ NothingTaken(d) /\ d.acq # None /\ Succeeds(c, d, {})
<1>1. SessionSound(c, s)
  BY DEF AcquisitionSound
<1>2. c.acq = [plan |-> c.acq.plan, anchor |-> c.acq.anchor, status |-> c.acq.status,
               next |-> c.acq.next, slots |-> c.acq.slots]
      /\ c.acq # None
  BY <1>1, SessionFacts
<1>3. /\ d.acq = [plan |-> c.acq.plan, anchor |-> c.acq.anchor, status |-> "Cancelled",
                  next |-> c.acq.next, slots |-> c.acq.slots]
  BY <1>2
<1>4. /\ d.acq.plan = c.acq.plan /\ d.acq.anchor = c.acq.anchor /\ d.acq.status = "Cancelled"
      /\ d.acq.next = c.acq.next /\ d.acq.slots = c.acq.slots
  BY <1>3
<1>5. SessionSound(d, s)
  <2>1. AcquisitionPlan(d) = AcquisitionPlan(c)
    BY DEF AcquisitionPlan
  <2>2. d.acq \in SessionsOf(AcquisitionPlan(c))
    <3>1. c.acq \in SessionsOf(AcquisitionPlan(c))
      BY <1>1 DEF SessionSound
    <3>2. /\ c.acq.plan = AcquisitionPlan(c) /\ c.acq.anchor \in {Machine}
          /\ c.acq.next \in 0 .. Acq!TotalSlots(AcquisitionPlan(c))
          /\ c.acq.slots \in [Acq!SlotIndices(AcquisitionPlan(c)) ->
                 [status : {"Pending", "Complete"}, id : Nat, hash : MeasuredRecords \cup {None}]]
      BY <3>1 DEF SessionsOf
    <3> QED
      BY <1>3, <3>2 DEF SessionsOf
  <2>3. d.acq.next # Acq!TotalSlots(d.acq.plan)
    BY <1>1, <1>4 DEF SessionSound
  <2> QED
    BY <1>1, <1>4, <2>1, <2>2, <2>3 DEF SessionSound, Slots
<1>6. \A k \in DOMAIN d.journals : JournalSound(d, s, k)
  BY <1>4 DEF AcquisitionSound, JournalSound, Slots
<1>7. SlotsHaveJournals(d)
  BY <1>4 DEF AcquisitionSound, SlotsHaveJournals, Slots
<1>8. AcquisitionSound(d, s) /\ NothingTaken(d)
  BY <1>5, <1>6, <1>7 DEF AcquisitionSound, NothingTaken
<1>9. d.acq # None
  BY <1>5, SessionFacts
<1>10. Succeeds(c, d, {})
  <2>1. Acq!CompletedSlots(d.acq) = Acq!CompletedSlots(c.acq)
    BY <1>4 DEF Acq!CompletedSlots
  <2> QED
    BY <1>2, <1>4, <1>9, <2>1 DEF Succeeds, Used, TakenOver
<1> QED
  BY <1>8, <1>9, <1>10

\* A campaign cancelled, and what runs with it.
LEMMA CancelledSound ==
    ASSUME NEW c, NEW s, Sound(c, s), c.status \notin Over
    PROVE  LET search == c.search
               acq == c.acq
               after == [c EXCEPT
                           !.status = "cancelled",
                           !.search = IF Stopped(search) THEN search ELSE Cancelled(search),
                           !.acq = IF acq = None THEN None
                                   ELSE IF acq.status # "Running" THEN acq
                                   ELSE [acq EXCEPT !.status = "Cancelled"]]
           IN  Sound(after, s) /\ Succeeds(c, after, {})
<1> DEFINE search == IF Stopped(c.search) THEN c.search ELSE Cancelled(c.search)
           acq == IF c.acq = None THEN None
                  ELSE IF c.acq.status # "Running" THEN c.acq
                  ELSE [c.acq EXCEPT !.status = "Cancelled"]
           after == [c EXCEPT !.status = "cancelled", !.search = search, !.acq = acq]
<1>1. /\ c = [f \in CampaignFields |-> c[f]] /\ c.plan \in Names /\ c.result = None
      /\ c.acq = None => c.journals = <<>>
  BY DEF Sound, ResultSound, StatusSound, Over
<1> HIDE DEF search, acq
<1>2. /\ Campaign(after) /\ after.plan = c.plan /\ after.search = search
      /\ after.artifacts = c.artifacts /\ after.acq = acq /\ after.journals = c.journals
      /\ after.cohort = c.cohort /\ after.recommendation = c.recommendation
      /\ after.status = "cancelled" /\ after.result = None
  BY <1>1 DEF CampaignFields, Campaign
<1> HIDE DEF after
<1>3. (acq # None => AcquisitionSound(after, s) /\ NothingTaken(after)) /\ Succeeds(c, after, {})
      /\ (acq = None => c.acq = None)
  <2>1. CASE c.acq = None
    <3>1. acq = c.acq
      BY <2>1 DEF acq
    <3> QED
      BY <1>2, <2>1, <3>1, SuccessorSame
  <2>2. CASE c.acq # None /\ c.acq.status # "Running"
    <3>1. acq = c.acq
      BY <2>2 DEF acq
    <3>2. AcquisitionSound(c, s) /\ NothingTaken(c)
      BY <2>2 DEF Sound
    <3> QED
      BY <1>2, <2>2, <3>1, <3>2, SuccessorSame, AcquisitionSame
  <2>3. CASE c.acq # None /\ c.acq.status = "Running"
    <3>1. acq = [c.acq EXCEPT !.status = "Cancelled"]
      BY <2>3 DEF acq
    <3>2. AcquisitionSound(c, s) /\ NothingTaken(c)
      BY <2>3 DEF Sound
    <3>3. AcquisitionSound(after, s) /\ NothingTaken(after) /\ after.acq # None /\ Succeeds(c, after, {})
      BY <1>2, <2>3, <3>1, <3>2, SessionCancelled
    <3> QED
      BY <1>2, <3>3
  <2> QED
    BY <2>1, <2>2, <2>3
<1>4. StatusSound(after)
  BY <1>1, <1>2, <1>3 DEF StatusSound, CampaignStatuses, Unmeasured, Measuring
<1>5. c.cohort # None \/ c.recommendation # None =>
        /\ Searching(c) /\ c.search.status \in {"complete", "bounded"} /\ search = c.search
        /\ CohortSound(c, s) /\ acq = c.acq
        /\ \A a \in ToSet(c.artifacts) : \E n \in TerminalNodes(c.search) : a \in Published(c.search, n)
  <2>1. SUFFICES ASSUME c.cohort # None \/ c.recommendation # None
                 PROVE  /\ Searching(c) /\ c.search.status \in {"complete", "bounded"}
                        /\ search = c.search /\ CohortSound(c, s) /\ acq = c.acq
                        /\ \A a \in ToSet(c.artifacts) :
                              \E n \in TerminalNodes(c.search) : a \in Published(c.search, n)
    OBVIOUS
  <2>2. CohortSound(c, s)
    BY <2>1 DEF Sound, ResultSound
  <2>3. c.status \in {"cohort_ready", "recommendation_ready"}
    <3>1. c.status \in CampaignStatuses /\ c.status # "cancelled" /\ c.status # "complete"
      BY DEF Sound, StatusSound, Over
    <3>2. c.status \notin Unmeasured \cup {"acquiring", "recovery_required", "acquisition_complete"}
      BY <2>1 DEF Sound, ResultSound
    <3> QED
      BY <3>1, <3>2 DEF CampaignStatuses, Measuring
  <2>4. /\ Searching(c) /\ c.search.status \in {"complete", "bounded"}
        /\ \A a \in ToSet(c.artifacts) : \E n \in TerminalNodes(c.search) : a \in Published(c.search, n)
    <3>1. SearchSound(c)
      BY DEF Sound
    <3> QED
      BY <2>3, <3>1 DEF SearchSound, Unsearched
  <2>5. search = c.search
    BY <2>4 DEF search, Stopped
  <2>6. acq = c.acq
    BY <2>2 DEF CohortSound, acq
  <2> QED
    BY <2>2, <2>4, <2>5, <2>6
<1>6. SearchSound(after)
  BY <1>2, <1>5 DEF SearchSound, Unsearched, Measuring, Searching
<1>7. ResultSound(after, s)
  <2>1. c.cohort # None \/ c.recommendation # None => CohortSound(after, s)
    <3>1. SUFFICES ASSUME c.cohort # None \/ c.recommendation # None PROVE CohortSound(after, s)
      OBVIOUS
    <3>2. CohortSound(c, s) /\ after.acq = c.acq
      BY <1>2, <1>5, <3>1
    <3>3. Measured(after, s) = Measured(c, s)
      BY <3>2 DEF Measured
    <3> QED
      BY <1>2, <3>2, <3>3 DEF CohortSound
  <2>2. c.recommendation # None => after.recommendation = Recommended(after)
    <3>1. SUFFICES ASSUME c.recommendation # None PROVE after.recommendation = Recommended(after)
      OBVIOUS
    <3>2. c.recommendation = Recommended(c) /\ after.search = c.search
      BY <1>2, <1>5, <3>1 DEF Sound, ResultSound
    <3> QED
      BY <1>2, <3>2 DEF Recommended
  <2> QED
    BY <1>2, <2>1, <2>2 DEF ResultSound, Unmeasured
<1> QED
  BY <1>1, <1>2, <1>3, <1>4, <1>6, <1>7 DEF Sound, Campaign, after, search, acq

-----------------------------------------------------------------------------
\* The invariant, step by step.

\* A store that stays as it is has grown by nothing.
LEMMA GrowsSame == ASSUME NEW s \in Seq(MeasuredRecords) PROVE Grows(s, s)
  BY SeqFacts DEF Grows

\* What a campaign uses is in the store, and 0 is no record.
LEMMA UsedStored ==
    ASSUME NEW c, NEW s \in Seq(MeasuredRecords), Sound(c, s)
    PROVE  Used(c) \subseteq DOMAIN s /\ 0 \notin Used(c)
<1>1. 0 \notin DOMAIN s
  OBVIOUS
<1>2. CASE c.acq = None
  BY <1>2 DEF Used
<1>3. CASE c.acq # None
  <2>1. SessionSound(c, s)
    BY <1>3 DEF Sound, AcquisitionSound
  <2>2. \A i \in Acq!CompletedSlots(c.acq) : Slots(c)[i].id \in DOMAIN s
    BY <2>1, SessionFacts
  <2> QED
    BY <1>1, <1>3, <2>2 DEF Used, Slots
<1> QED
  BY <1>2, <1>3

\* Campaigns stay apart when one goes on with records no other uses.
LEMMA SucceedsApart ==
    ASSUME NEW c, NEW after, NEW d, NEW new, Succeeds(c, after, new), Apart(c, d), Apart(d, c),
           new \cap Used(d) = {}, 0 \notin Used(d)
    PROVE  Apart(after, d) /\ Apart(d, after)
  BY DEF Succeeds, Apart

\* What the campaigns there are, and were, look like after a step.
LEMMA PutKeeps ==
    ASSUME IInv, NEW p \in Names, NEW after, Put(p, after), after.plan = p,
           Sound(after, store'), Grows(store, store'),
           \A d \in Known : Apart(after, d) /\ Apart(d, after),
           checkpoints' \subseteq checkpoints \cup {after}, archive' = archive
    PROVE  IInv'
<1>1. /\ campaigns' = [q \in DOMAIN campaigns \cup {p} |-> IF q = p THEN after ELSE campaigns[q]]
  BY DEF Put
<1>2. /\ DOMAIN campaigns \subseteq Names /\ \A q \in DOMAIN campaigns : campaigns[q].plan = q
      /\ \A c \in Known : Sound(c, store)
      /\ \A c, d \in Known : Apart(c, d)
  BY DEF IInv
<1>3. DOMAIN campaigns' = DOMAIN campaigns \cup {p} /\ DOMAIN campaigns' \subseteq Names
  BY <1>1, <1>2
<1>4. \A q \in DOMAIN campaigns' : campaigns'[q].plan = q
  BY <1>1, <1>2
<1>5. Live' \subseteq Live \cup {after}
  BY <1>1 DEF Live
<1>6. Known' \subseteq Known \cup {after}
  BY <1>5 DEF Known
<1>7. \A c \in Known' : Sound(c, store')
  BY <1>2, <1>6, SoundGrows
<1>8. \A c, d \in Known' : Apart(c, d)
  <2>1. Apart(after, after)
    BY DEF Apart
  <2> QED
    BY <1>2, <1>6, <2>1
<1>9. store' \in Seq(MeasuredRecords)
  BY DEF Grows
<1>10. campaigns' = [q \in DOMAIN campaigns' |-> campaigns'[q]]
  BY <1>1
<1> QED
  BY <1>3, <1>4, <1>7, <1>8, <1>9, <1>10 DEF IInv

\* A campaign goes on.
LEMMA StepKeeps ==
    ASSUME IInv, NEW p \in DOMAIN campaigns, NEW after, Put(p, after), Sound(after, store'),
           NEW new, Succeeds(campaigns[p], after, new), new \cap DOMAIN store = {},
           Grows(store, store'), checkpoints' \subseteq checkpoints \cup {after}, archive' = archive
    PROVE  IInv'
<1>1. /\ p \in Names /\ campaigns[p].plan = p /\ store \in Seq(MeasuredRecords)
      /\ \A c \in Known : Sound(c, store)
      /\ \A c, d \in Known : Apart(c, d)
  BY DEF IInv
<1>2. campaigns[p] \in Known
  BY DEF Known, Live
<1>3. after.plan = p
  BY <1>1 DEF Succeeds
<1>4. ASSUME NEW d \in Known PROVE Apart(after, d) /\ Apart(d, after)
  <2>1. Used(d) \subseteq DOMAIN store /\ 0 \notin Used(d)
    BY <1>1, UsedStored
  <2> QED
    BY <1>1, <1>2, <2>1, SucceedsApart
<1> QED
  BY <1>1, <1>3, <1>4, PutKeeps

\* Nothing is known that was not.
LEMMA FewerKeeps ==
    ASSUME IInv, store' = store, Known' \subseteq Known,
           campaigns' = [q \in DOMAIN campaigns' |-> campaigns'[q]],
           \A q \in DOMAIN campaigns' : campaigns'[q].plan = q
    PROVE  IInv'
<1>1. /\ \A c \in Known : Sound(c, store)
      /\ \A c, d \in Known : Apart(c, d) /\ store \in Seq(MeasuredRecords)
  BY DEF IInv
<1>2. \A c \in Known' : Sound(c, store')
  BY <1>1
<1>3. \A c, d \in Known' : Apart(c, d)
  BY <1>1
<1>4. DOMAIN campaigns' \subseteq Names
  <2>1. SUFFICES ASSUME NEW q \in DOMAIN campaigns' PROVE q \in Names
    OBVIOUS
  <2>2. campaigns'[q] \in Known'
    BY DEF Known, Live
  <2>3. campaigns'[q].plan \in Names
    BY <1>2, <2>2 DEF Sound
  <2> QED
    BY <2>3
<1> QED
  BY <1>1, <1>2, <1>3, <1>4 DEF IInv

\* A step that publishes nothing.
LEMMA SameStore ==
    ASSUME IInv, store' = store
    PROVE  Grows(store, store') /\ store \in Seq(MeasuredRecords)
  BY GrowsSame DEF IInv

\* What the server holds is sound, under its own name.
LEMMA KnownSound ==
    ASSUME IInv, NEW p \in DOMAIN campaigns
    PROVE  Sound(campaigns[p], store) /\ campaigns[p].plan = p /\ p \in Names
  BY DEF IInv, Known, Live

\* Every action that publishes nothing keeps the invariant.
LEMMA StartKeeps == ASSUME IInv, NEW p \in Names, Start(p) PROVE IInv'
<1> DEFINE after == NewCampaign(p)
<1>1. Put(p, after) /\ checkpoints' = checkpoints /\ archive' = archive /\ store' = store
  BY DEF Start
<1>2. Sound(after, store') /\ after.plan = p /\ Used(after) = {}
  BY NewSound
<1>3. \A d \in Known : Apart(after, d) /\ Apart(d, after)
  BY <1>2 DEF Apart
<1> HIDE DEF after
<1> QED
  BY <1>1, <1>2, <1>3, SameStore, PutKeeps

\* The search advances.
LEMMA SearchKeeps == ASSUME IInv, NEW p \in Names, AdvanceSearch(p) PROVE IInv'
<1>1. PICK units \in Units :
        LET search == Advanced(campaigns[p].search, units) IN
        /\ At(p, {"planned", "searching"})
        /\ Put(p, [campaigns[p] EXCEPT !.search = search, !.status = AfterSearch(search)])
        /\ UNCHANGED <<checkpoints, replayed, catalog, store, archive>>
  BY DEF AdvanceSearch
<1> DEFINE c == campaigns[p]
           search == Advanced(c.search, units)
           after == [c EXCEPT !.search = search, !.status = AfterSearch(search)]
<1>2. p \in DOMAIN campaigns /\ c.status \in {"planned", "searching"}
  BY <1>1 DEF At
<1>3. Put(p, after) /\ checkpoints' = checkpoints /\ archive' = archive /\ store' = store
  BY <1>1
<1>4. Sound(after, store) /\ Succeeds(c, after, {})
  <2>1. Sound(c, store)
    BY <1>2, KnownSound
  <2> HIDE DEF c
  <2> QED
    BY <1>2, <2>1, SearchedSound
<1> HIDE DEF after
<1> QED
  BY <1>2, <1>3, <1>4, SameStore, StepKeeps

\* The artifacts are found.
LEMMA PrepareKeeps == ASSUME IInv, NEW p \in Names, PrepareAcquisition(p) PROVE IInv'
<1> DEFINE c == campaigns[p]
           after == WithArtifacts(c, EligibleArtifacts(c))
<1>1. p \in DOMAIN campaigns /\ c.status = "search_complete"
  BY DEF PrepareAcquisition, At
<1>2. Put(p, after) /\ checkpoints' = checkpoints /\ archive' = archive /\ store' = store
  BY DEF PrepareAcquisition
<1>3. Sound(after, store) /\ Succeeds(c, after, {})
  <2>1. Sound(c, store)
    BY <1>1, KnownSound
  <2> HIDE DEF c
  <2> QED
    BY <1>1, <2>1, FoundSound
<1> HIDE DEF after
<1> QED
  BY <1>1, <1>2, <1>3, SameStore, StepKeeps

\* The cohort is made.
LEMMA CohortKeeps == ASSUME IInv, NEW p \in Names, CreateCohort(p) PROVE IInv'
<1> DEFINE c == campaigns[p]
           after == [c EXCEPT !.cohort = Measured(c, store), !.status = "cohort_ready"]
<1>1. p \in DOMAIN campaigns /\ c.status = "acquisition_complete"
  BY DEF CreateCohort, At
<1>2. /\ Put(p, after) /\ checkpoints' = checkpoints /\ archive' = archive /\ store' = store
      /\ IsCohort(Measured(c, store), CampaignPlans[p].rounds)
  BY DEF CreateCohort
<1>3. Sound(after, store) /\ Succeeds(c, after, {})
  <2>1. Sound(c, store) /\ c.plan = p
    BY <1>1, KnownSound
  <2> HIDE DEF c
  <2> QED
    BY <1>1, <1>2, <2>1, MeasuredSound
<1> HIDE DEF after
<1> QED
  BY <1>1, <1>2, <1>3, SameStore, StepKeeps

\* A recommendation is made.
LEMMA RecommendKeeps == ASSUME IInv, NEW p \in Names, Recommend(p) PROVE IInv'
<1> DEFINE c == campaigns[p]
           after == [c EXCEPT !.recommendation = Recommended(c), !.status = "recommendation_ready"]
<1>1. p \in DOMAIN campaigns /\ c.status = "cohort_ready"
  BY DEF Recommend, At
<1>2. Put(p, after) /\ checkpoints' = checkpoints /\ archive' = archive /\ store' = store
  BY DEF Recommend
<1>3. Sound(after, store) /\ Succeeds(c, after, {})
  <2>1. Sound(c, store)
    BY <1>1, KnownSound
  <2> HIDE DEF c
  <2> QED
    BY <1>1, <2>1, RecommendedSound
<1> HIDE DEF after
<1> QED
  BY <1>1, <1>2, <1>3, SameStore, StepKeeps

\* The campaign is complete.
LEMMA FinalizeKeeps == ASSUME IInv, NEW p \in Names, Finalize(p) PROVE IInv'
<1> DEFINE c == campaigns[p]
           complete == [c EXCEPT !.status = "complete"]
           after == [complete EXCEPT !.result = Content(complete)]
<1>1. p \in DOMAIN campaigns /\ c.status = "recommendation_ready"
  BY DEF Finalize, At
<1>2. Put(p, after) /\ checkpoints' = checkpoints /\ archive' = archive /\ store' = store
  BY DEF Finalize
<1>3. Sound(after, store) /\ Succeeds(c, after, {})
  <2>1. Sound(c, store)
    BY <1>1, KnownSound
  <2> HIDE DEF c
  <2> QED
    BY <1>1, <2>1, FinalSound
<1> HIDE DEF after
<1> QED
  BY <1>1, <1>2, <1>3, SameStore, StepKeeps

\* The campaign is cancelled.
LEMMA CancelKeeps == ASSUME IInv, NEW p \in Names, Cancel(p) PROVE IInv'
<1> DEFINE c == campaigns[p]
           search == c.search
           acq == c.acq
           after == [c EXCEPT
                       !.status = "cancelled",
                       !.search = IF Stopped(search) THEN search ELSE Cancelled(search),
                       !.acq = IF acq = None THEN None
                               ELSE IF acq.status # "Running" THEN acq
                               ELSE [acq EXCEPT !.status = "Cancelled"]]
<1>1. p \in DOMAIN campaigns /\ c.status \notin Over
  BY DEF Cancel, At
<1>2. Put(p, after) /\ checkpoints' = checkpoints /\ archive' = archive /\ store' = store
  BY DEF Cancel
<1>3. Sound(after, store) /\ Succeeds(c, after, {})
  <2>1. Sound(c, store)
    BY <1>1, KnownSound
  <2> HIDE DEF c
  <2> QED
    BY <1>1, <2>1, CancelledSound
<1> HIDE DEF after
<1> QED
  BY <1>1, <1>2, <1>3, SameStore, StepKeeps

\* The store is looked through for what a stopped execution published.
LEMMA ReconcileKeeps == ASSUME IInv, NEW p \in Names, Reconcile(p) PROVE IInv'
<1> DEFINE c == campaigns[p]
<1>1. PICK authorize \in BOOLEAN :
        /\ At(p, {"recovery_required"})
        /\ Put(p, Reconciled(c, store, authorize))
        /\ checkpoints' = checkpoints /\ archive' = archive /\ store' = store
  BY DEF Reconcile
<1> DEFINE after == Reconciled(c, store, authorize)
<1>2. p \in DOMAIN campaigns /\ c.status = "recovery_required"
  BY <1>1 DEF At
<1>3. Sound(after, store) /\ Succeeds(c, after, {})
  <2>1. Sound(c, store) /\ store \in Seq(MeasuredRecords)
    BY <1>1, <1>2, KnownSound, SameStore
  <2> HIDE DEF c
  <2> QED
    BY <1>2, <2>1, ReconciledSound
<1> HIDE DEF after
<1> QED
  BY <1>1, <1>2, <1>3, SameStore, StepKeeps DEF after

\* The campaign is kept as it is.
LEMMA CheckpointKeeps == ASSUME IInv, NEW p \in Names, Checkpoint(p) PROVE IInv'
<1> DEFINE c == campaigns[p]
           after == [c EXCEPT !.work.checkpoints = @ + 1]
<1>1. /\ p \in DOMAIN campaigns /\ Put(p, after) /\ checkpoints' = checkpoints \cup {after}
      /\ archive' = archive /\ store' = store
  BY DEF Checkpoint
<1>2. Sound(c, store)
  BY <1>1, KnownSound
<1> HIDE DEF c
<1>3. Campaign(after) /\ SameBut(c, after, {"work"})
  BY <1>2 DEF Sound, Campaign, SameBut, CampaignFields
<1> HIDE DEF after
<1>4. Sound(after, store) /\ Succeeds(c, after, {})
  BY <1>2, <1>3, WorkSound
<1> QED
  BY <1>1, <1>4, SameStore, StepKeeps DEF c

\* A kept campaign takes the place of what it became: it is still apart from all others.
LEMMA ResumeKeeps == ASSUME IInv, Resume PROVE IInv'
<1>1. PICK c \in checkpoints :
        /\ Put(c.plan, [c EXCEPT !.work.resumes = @ + 1])
        /\ checkpoints' = checkpoints /\ archive' = archive /\ store' = store
  BY DEF Resume
<1> DEFINE after == [c EXCEPT !.work.resumes = @ + 1]
<1>2. c \in Known
  BY DEF Known
<1>3. /\ \A d \in Known : Sound(d, store)
      /\ \A d, e \in Known : Apart(d, e)
      /\ store \in Seq(MeasuredRecords)
  BY DEF IInv
<1>4. Sound(c, store) /\ c.plan \in Names
  BY <1>2, <1>3 DEF Sound
<1>5. Campaign(after) /\ SameBut(c, after, {"work"})
  BY <1>4 DEF Sound, Campaign, SameBut, CampaignFields
<1>6. Put(c.plan, after)
  BY <1>1
<1> HIDE DEF after
<1>7. Sound(after, store) /\ after.plan = c.plan /\ Succeeds(c, after, {})
  BY <1>4, <1>5, WorkSound
<1>8. ASSUME NEW d \in Known PROVE Apart(after, d) /\ Apart(d, after)
  <2>1. 0 \notin Used(d)
    BY <1>3, UsedStored
  <2> QED
    BY <1>2, <1>3, <1>7, <2>1, SucceedsApart
<1> QED
  BY <1>1, <1>4, <1>6, <1>7, <1>8, SameStore, PutKeeps

\* The campaigns are archived.
LEMMA SaveKeeps == ASSUME IInv, SaveArchive PROVE IInv'
<1>1. /\ campaigns' = campaigns /\ checkpoints' = checkpoints /\ store' = store
      /\ archive' = {campaigns[p] : p \in DOMAIN campaigns}
  BY DEF SaveArchive
<1>2. Known' \subseteq Known
  BY <1>1 DEF Known, Live
<1> QED
  BY <1>1, <1>2, FewerKeeps DEF IInv

\* Archived campaigns take the place of those of their names.
LEMMA ImportKeeps == ASSUME IInv, ImportArchive PROVE IInv'
<1> DEFINE archived == {c.plan : c \in archive}
           chosen(p) == CHOOSE c \in archive : c.plan = p
<1>1. /\ campaigns' = [p \in DOMAIN campaigns \cup archived |->
                          IF p \in archived THEN chosen(p) ELSE campaigns[p]]
      /\ checkpoints' = checkpoints \cup archive /\ store' = store /\ archive' = archive
  BY DEF ImportArchive
<1>2. \A p \in archived : chosen(p) \in archive /\ chosen(p).plan = p
  OBVIOUS
<1> HIDE DEF archived, chosen
<1>3. /\ DOMAIN campaigns' = DOMAIN campaigns \cup archived
      /\ \A p \in DOMAIN campaigns' :
            campaigns'[p] = IF p \in archived THEN chosen(p) ELSE campaigns[p]
      /\ campaigns' = [p \in DOMAIN campaigns' |-> campaigns'[p]]
  BY <1>1
<1>4. \A p \in DOMAIN campaigns' : campaigns'[p].plan = p
  BY <1>2, <1>3 DEF IInv
<1>5. \A p \in DOMAIN campaigns' : campaigns'[p] \in Known
  BY <1>2, <1>3 DEF Known, Live
<1>6. Known' \subseteq Known
  <2>1. Live' \subseteq Known
    BY <1>5 DEF Live
  <2>2. checkpoints' \subseteq Known /\ archive' \subseteq Known
    BY <1>1 DEF Known
  <2> QED
    BY <2>1, <2>2 DEF Known
<1> QED
  BY <1>1, <1>3, <1>4, <1>6, FewerKeeps

\* A new process holds no campaign.
LEMMA RestartKeeps == ASSUME IInv, Restart PROVE IInv'
<1>1. /\ campaigns' = [p \in {} |-> None] /\ checkpoints' = {} /\ archive' = archive /\ store' = store
  BY DEF Restart
<1>2. DOMAIN campaigns' = {} /\ campaigns' = [q \in DOMAIN campaigns' |-> campaigns'[q]]
  BY <1>1
<1>3. Known' \subseteq Known
  BY <1>1, <1>2 DEF Known, Live
<1> QED
  BY <1>1, <1>2, <1>3, FewerKeeps

\* A step that changes nothing the invariant is about.
LEMMA SameKeeps ==
    ASSUME IInv, campaigns' = campaigns, checkpoints' = checkpoints, archive' = archive, store' = store
    PROVE  IInv'
<1>1. Known' \subseteq Known
  BY DEF Known, Live
<1> QED
  BY <1>1, FewerKeeps DEF IInv

\* An execution's preparation, within the store and the campaign it came from.
LEMMA ExecutionIs ==
    ASSUME IInv, NEW p \in Names, CanExecute(p)
    PROVE  LET c == campaigns[p]
               e == Execution(p)
           IN  /\ p \in DOMAIN campaigns /\ store \in Seq(MeasuredRecords)
               /\ Ready(e, store) /\ NothingTaken(e) /\ e.plan = c.plan
               /\ Used(e) \subseteq Used(c) /\ TakenOver(c) \subseteq TakenOver(e)
<1> DEFINE c == campaigns[p]
<1>1. /\ p \in DOMAIN campaigns /\ store \in Seq(MeasuredRecords)
      /\ c.status \in {"acquisition_prepared", "acquiring", "recovery_required"}
      /\ c.status = "recovery_required" => Last(c.journals).status = "retry_authorized"
  BY DEF CanExecute, At, IInv
<1>2. Sound(c, store)
  BY <1>1, KnownSound
<1>3. Execution(p) = Prepared(Opened(c), store)
  BY DEF Execution
<1> HIDE DEF c
<1> QED
  BY <1>1, <1>2, <1>3, ExecutionReady DEF c

\* A campaign whose execution stopped is undecided.
LEMMA StoppedExecution ==
    ASSUME IInv, NEW p \in Names, CanExecute(p)
    PROVE  LET after == Noted(Execution(p), "indeterminate")
           IN  Sound(after, store) /\ Succeeds(campaigns[p], after, {})
<1> DEFINE e == Execution(p)
<1>1. /\ Ready(e, store) /\ NothingTaken(e) /\ e.plan = campaigns[p].plan
      /\ Used(e) \subseteq Used(campaigns[p]) /\ TakenOver(campaigns[p]) \subseteq TakenOver(e)
  BY ExecutionIs
<1> HIDE DEF e
<1>2. "indeterminate" \in Unsettled
  BY DEF Unsettled
<1> DEFINE after == Noted(e, "indeterminate")
<1>3. /\ Sound(after, store) /\ after.plan = e.plan
      /\ Used(after) = Used(e) /\ TakenOver(after) = TakenOver(e)
  BY <1>1, <1>2, UnsettledSound
<1> HIDE DEF after
<1> QED
  BY <1>1, <1>3 DEF Succeeds, e, after

\* It stops before anything is published.
LEMMA StopsKeeps == ASSUME IInv, NEW p \in Names, ExecuteStops(p) PROVE IInv'
<1> DEFINE after == Noted(Execution(p), "indeterminate")
<1>1. /\ CanExecute(p) /\ Put(p, after) /\ checkpoints' = checkpoints /\ archive' = archive
      /\ store' = store
  BY DEF ExecuteStops
<1>2. Sound(after, store) /\ Succeeds(campaigns[p], after, {}) /\ p \in DOMAIN campaigns
  BY <1>1, StoppedExecution, ExecutionIs
<1> HIDE DEF after
<1> QED
  BY <1>1, <1>2, SameStore, StepKeeps

\* What is published is a record of the slot that is measured.
LEMMA PublishedIs ==
    ASSUME IInv, NEW p \in Names, Publishes(p)
    PROVE  LET e == Execution(p)
               r == Len(store) + 1
           IN  /\ Grows(store, store') /\ store' \in Seq(MeasuredRecords)
               /\ r = Len(store') /\ r \in DOMAIN store' /\ Last(store') = store'[r]
               /\ r \notin DOMAIN store /\ r \in Nat
               /\ store'[r].artifact = Acq!PlannedArtifact(e.acq.plan, e.acq.next)
               /\ store'[r].config = e.acq.plan.config
<1> DEFINE e == Execution(p)
<1>1. PICK t \in Timings : store' = Append(store, Acq!BenchmarkRecord(e.acq, e.acq.next, t))
  BY DEF Publishes
<1>2. Ready(e, store) /\ store \in Seq(MeasuredRecords)
  BY ExecutionIs DEF Publishes
<1> HIDE DEF e
<1> DEFINE record == Acq!BenchmarkRecord(e.acq, e.acq.next, t)
<1>3. /\ e.acq.plan \in AcquisitionPlans /\ e.acq.anchor = Machine /\ e.acq.next \in Nat
  <2>1. SessionSound(e, store)
    BY <1>2 DEF Ready, AcquisitionSound
  <2>2. e.acq.plan \in AcquisitionPlans /\ e.acq.anchor = Machine
        /\ e.acq.next \in 0 .. Acq!TotalSlots(e.acq.plan)
    BY <2>1, SessionFacts
  <2> QED
    BY <2>2
<1>4. /\ Acq!PlannedArtifact(e.acq.plan, e.acq.next) \in Artifacts
      /\ e.acq.plan.config \in {CampaignPlans[q].config : q \in Names}
      /\ record = [artifact |-> Acq!PlannedArtifact(e.acq.plan, e.acq.next), anchor |-> e.acq.anchor,
                   config |-> ConfigOf[e.acq.plan], timing |-> t]
      /\ ConfigOf[e.acq.plan] = e.acq.plan.config
  <2>1. record = [artifact |-> Acq!PlannedArtifact(e.acq.plan, e.acq.next), anchor |-> e.acq.anchor,
                  config |-> ConfigOf[e.acq.plan], timing |-> t]
    BY DEF Acq!BenchmarkRecord
  <2> HIDE DEF record
  <2>2. /\ Acq!PlannedArtifact(e.acq.plan, e.acq.next) \in Artifacts
        /\ e.acq.plan.config \in {CampaignPlans[q].config : q \in Names}
    BY <1>3, PlanFacts
  <2>3. ConfigOf[e.acq.plan] = e.acq.plan.config
    BY <1>3, PlanFacts
  <2> QED
    BY <2>1, <2>2, <2>3
<1> HIDE DEF record
<1>5. record \in MeasuredRecords
  BY <1>3, <1>4 DEF MeasuredRecords
<1>6. record.artifact = Acq!PlannedArtifact(e.acq.plan, e.acq.next) /\ record.config = e.acq.plan.config
  BY <1>4
<1>7. store' = Append(store, record)
  BY <1>1 DEF record
<1> DEFINE r == Len(store) + 1
<1>8. /\ Len(store) \in Nat /\ DOMAIN store = 1 .. Len(store)
      /\ store' \in Seq(MeasuredRecords) /\ Len(store') = r
      /\ DOMAIN store' = DOMAIN store \cup {r} /\ store'[r] = record
      /\ \A i \in DOMAIN store : store'[i] = store[i] /\ i # r
  BY <1>2, <1>5, <1>7, SeqFacts
<1>9. Last(store') = store'[r]
  BY <1>8 DEF Last
<1>10. Grows(store, store')
  BY <1>2, <1>8 DEF Grows
<1> QED
  BY <1>6, <1>8, <1>9, <1>10 DEF e

\* It stops after the publication: the record is used by nobody yet.
LEMMA PublishesKeeps == ASSUME IInv, NEW p \in Names, ExecutePublishes(p) PROVE IInv'
<1> DEFINE after == Noted(Execution(p), "indeterminate")
<1>1. /\ CanExecute(p) /\ Publishes(p) /\ Put(p, after) /\ checkpoints' = checkpoints
      /\ archive' = archive
  BY DEF ExecutePublishes, Publishes
<1>2. Sound(after, store) /\ Succeeds(campaigns[p], after, {}) /\ p \in DOMAIN campaigns
  BY <1>1, StoppedExecution, ExecutionIs
<1>3. Grows(store, store')
  BY <1>1, PublishedIs
<1> HIDE DEF after
<1>4. Sound(after, store')
  BY <1>2, <1>3, SoundGrows
<1> QED
  BY <1>1, <1>2, <1>3, <1>4, StepKeeps

\* It completes: the record is new, so no other campaign uses it.
LEMMA CompletesKeeps == ASSUME IInv, NEW p \in Names, ExecuteCompletes(p) PROVE IInv'
<1> DEFINE e == Execution(p)
           r == Len(store) + 1
           after == Attached(e, r, store'[r])
<1>1. /\ CanExecute(p) /\ Publishes(p) /\ checkpoints' = checkpoints /\ archive' = archive
      /\ Put(p, Attached(e, Len(store'), Last(store')))
  BY DEF ExecuteCompletes, Publishes
<1>2. /\ p \in DOMAIN campaigns /\ store \in Seq(MeasuredRecords)
      /\ Ready(e, store) /\ NothingTaken(e) /\ e.plan = campaigns[p].plan
      /\ Used(e) \subseteq Used(campaigns[p]) /\ TakenOver(campaigns[p]) \subseteq TakenOver(e)
  BY <1>1, ExecutionIs
<1>3. /\ Grows(store, store') /\ store' \in Seq(MeasuredRecords)
      /\ r = Len(store') /\ r \in DOMAIN store' /\ Last(store') = store'[r]
      /\ r \notin DOMAIN store /\ r \in Nat
      /\ store'[r].artifact = Acq!PlannedArtifact(e.acq.plan, e.acq.next)
      /\ store'[r].config = e.acq.plan.config
  BY <1>1, PublishedIs
<1>4. Put(p, after)
  BY <1>1, <1>3
<1> HIDE DEF e, after
<1> DEFINE j == Last(e.journals)
<1>5. /\ JournalSound(e, store, Len(e.journals)) /\ j = e.journals[Len(e.journals)]
      /\ j.status \notin Settled /\ j \in Journals
  <2>1. e.journals \in Seq(Journals) /\ e.journals # <<>>
    BY <1>2 DEF Ready, AcquisitionSound
  <2>2. Len(e.journals) \in DOMAIN e.journals /\ j = e.journals[Len(e.journals)]
    BY <2>1 DEF Last
  <2> QED
    BY <1>2, <2>1, <2>2 DEF Ready, AcquisitionSound
<1> HIDE DEF j
<1>6. /\ Current(j).artifact = Acq!PlannedArtifact(e.acq.plan, e.acq.next)
      /\ Current(j).config = e.acq.plan.config
      /\ Len(j.attempts) > 0 /\ \A i \in DOMAIN j.attempts : IsPrefix(j.attempts[i].snapshot, store)
  BY <1>5 DEF JournalSound
<1>7. r > Len(Current(j).snapshot)
  <2>1. j.attempts \in Seq(Attempts)
    BY <1>5 DEF Journals
  <2>2. Current(j) \in Attempts /\ IsPrefix(Current(j).snapshot, store)
    <3>1. Len(j.attempts) \in DOMAIN j.attempts
      BY <1>6, <2>1
    <3> QED
      BY <1>6, <2>1, <3>1 DEF Current, Last
  <2>3. Current(j).snapshot \in Seq(MeasuredRecords)
    BY <2>2 DEF Attempts
  <2>4. Len(Current(j).snapshot) <= Len(store)
    BY <1>2, <2>2, <2>3, PrefixIs
  <2> QED
    BY <1>2, <2>3, <2>4
<1>8. Ready(e, store')
  <2>1. AcquisitionSound(e, store')
    BY <1>2, <1>3, AcquisitionGrows DEF Ready
  <2> QED
    BY <1>2, <2>1 DEF Ready
<1> HIDE DEF r
<1>9. /\ Sound(after, store') /\ after.plan = e.plan
      /\ Used(after) = Used(e) \cup {r} /\ TakenOver(after) = TakenOver(e)
  BY <1>3, <1>6, <1>7, <1>8, AttachedSound DEF j, after
<1>10. Succeeds(campaigns[p], after, {r})
  BY <1>2, <1>9 DEF Succeeds
<1>11. {r} \cap DOMAIN store = {}
  BY <1>3
<1> QED
  BY <1>1, <1>2, <1>3, <1>4, <1>9, <1>10, <1>11, StepKeeps

\* At first there is no campaign and no record.
LEMMA InitHolds == Init => IInv
<1> SUFFICES ASSUME Init PROVE IInv
  OBVIOUS
<1>1. /\ campaigns = [p \in {} |-> None] /\ checkpoints = {} /\ store = <<>> /\ archive = {}
  BY DEF Init
<1>2. DOMAIN campaigns = {} /\ campaigns = [p \in DOMAIN campaigns |-> campaigns[p]]
  BY <1>1
<1>3. Known = {}
  BY <1>1, <1>2 DEF Known, Live
<1>4. store \in Seq(MeasuredRecords)
  BY <1>1
<1> QED
  BY <1>2, <1>3, <1>4 DEF IInv

\* Every step keeps the invariant.
LEMMA NextHolds == IInv /\ [Next]_vars => IInv'
<1> SUFFICES ASSUME IInv, [Next]_vars PROVE IInv'
  OBVIOUS
<1>1. CASE UNCHANGED vars
  BY <1>1, SameKeeps DEF vars
<1>2. ASSUME NEW p \in Names,
             \/ Start(p) \/ AdvanceSearch(p) \/ PrepareAcquisition(p)
             \/ ExecuteStops(p) \/ ExecutePublishes(p) \/ ExecuteCompletes(p) \/ Reconcile(p)
             \/ CreateCohort(p) \/ Recommend(p) \/ Finalize(p) \/ Cancel(p)
             \/ Checkpoint(p) \/ Replay(p)
      PROVE  IInv'
  <2>1. CASE Start(p) \/ AdvanceSearch(p) \/ PrepareAcquisition(p)
    BY <2>1, StartKeeps, SearchKeeps, PrepareKeeps
  <2>2. CASE ExecuteStops(p) \/ ExecutePublishes(p) \/ ExecuteCompletes(p) \/ Reconcile(p)
    BY <2>2, StopsKeeps, PublishesKeeps, CompletesKeeps, ReconcileKeeps
  <2>3. CASE CreateCohort(p) \/ Recommend(p) \/ Finalize(p) \/ Cancel(p)
    BY <2>3, CohortKeeps, RecommendKeeps, FinalizeKeeps, CancelKeeps
  <2>4. CASE Checkpoint(p)
    BY <2>4, CheckpointKeeps
  <2>5. CASE Replay(p)
    BY <2>5, SameKeeps DEF Replay
  <2> QED
    BY <1>2, <2>1, <2>2, <2>3, <2>4, <2>5
<1>3. CASE Resume \/ SaveArchive \/ ImportArchive \/ Restart
  BY <1>3, ResumeKeeps, SaveKeeps, ImportKeeps, RestartKeeps
<1> QED
  BY <1>1, <1>2, <1>3 DEF Next

\* Whatever the campaigns, the plans and the records: what every known campaign holds, its search,
\* its slots and journals, its cohort, agrees with the store, and two campaigns share only records
\* that one of them took over.
THEOREM Inductive == Spec => []IInv
  BY InitHolds, NextHolds, PTL DEF Spec

-----------------------------------------------------------------------------
\* What follows from it.

(* The stages of every campaign agree with its session and its journals.      *)
THEOREM AlwaysStagesAgree == Spec => []StagesAgree
<1>1. IInv => StagesAgree
  <2>1. SUFFICES ASSUME IInv, NEW c \in Known
                 PROVE  /\ c.status = "planned" => c.search = StartSearch(CampaignPlans[c.plan].search)
                        /\ c.status = "searching" => ~Stopped(c.search)
                        /\ c.status \in {"planned", "searching"} => c.acq = None
                        /\ c.status = "acquiring" =>
                              c.acq.status = "Running" /\ Last(c.journals).status \in Settled
                        /\ c.status = "recovery_required" =>
                              /\ c.acq.status = "Running" /\ Last(c.journals).slot = c.acq.next
                              /\ Last(c.journals).status \notin Settled
                        /\ c.status \in Measuring =>
                              /\ c.acq.status = "Complete"
                              /\ \A i \in DOMAIN c.acq.slots : \E k \in DOMAIN c.journals :
                                    /\ c.journals[k].slot = i /\ c.journals[k].status \in Settled
                                    /\ c.acq.slots[i].id > Len(Current(c.journals[k]).snapshot)
    BY DEF StagesAgree
  <2>2. Sound(c, store) /\ store \in Seq(MeasuredRecords)
    BY <2>1 DEF IInv
  <2>3. /\ c.status = "planned" => c.search = StartSearch(CampaignPlans[c.plan].search)
        /\ c.status = "searching" => ~Stopped(c.search)
    BY <2>2 DEF Sound, SearchSound
  <2>4. c.status \in {"planned", "searching"} => c.acq = None
    BY <2>2 DEF Sound, StatusSound, Unmeasured
  <2>5. c.status = "acquiring" => c.acq.status = "Running" /\ Last(c.journals).status \in Settled
    BY <2>2 DEF Sound, StatusSound
  <2>6. ASSUME c.status = "recovery_required"
        PROVE  /\ c.acq.status = "Running" /\ Last(c.journals).slot = c.acq.next
               /\ Last(c.journals).status \notin Settled
    <3>1. /\ c.acq # None /\ c.acq.status = "Running" /\ c.journals # <<>>
          /\ Last(c.journals).status \notin Settled /\ AcquisitionSound(c, store)
      BY <2>2, <2>6 DEF Sound, StatusSound
    <3>2. Len(c.journals) \in DOMAIN c.journals
      BY <3>1 DEF AcquisitionSound
    <3> QED
      BY <3>1, <3>2 DEF AcquisitionSound, JournalSound, Last
  <2>7. ASSUME c.status \in Measuring
        PROVE  /\ c.acq.status = "Complete"
               /\ \A i \in DOMAIN c.acq.slots : \E k \in DOMAIN c.journals :
                     /\ c.journals[k].slot = i /\ c.journals[k].status \in Settled
                     /\ c.acq.slots[i].id > Len(Current(c.journals[k]).snapshot)
    <3>1. c.acq # None /\ c.acq.status = "Complete" /\ AcquisitionSound(c, store)
      BY <2>2, <2>7 DEF Sound, StatusSound
    <3>2. SessionSound(c, store) /\ SlotsHaveJournals(c)
      BY <3>1 DEF AcquisitionSound
    <3>3. /\ c.acq.next = Acq!TotalSlots(c.acq.plan) /\ Acq!TotalSlots(c.acq.plan) \in Nat
          /\ DOMAIN Slots(c) = 0 .. Acq!TotalSlots(c.acq.plan) - 1
      <4>1. c.acq.next = Acq!TotalSlots(c.acq.plan)
        BY <3>1, <3>2 DEF SessionSound
      <4> QED
        BY <3>2, <4>1, SessionFacts
    <3>4. \A i \in DOMAIN Slots(c) : i < c.acq.next
      BY <3>3
    <3> QED
      BY <3>1, <3>2, <3>4 DEF SlotsHaveJournals, Slots
  <2> QED
    BY <2>3, <2>4, <2>5, <2>6, <2>7
<1> QED
  BY <1>1, Inductive, PTL

(* A record fills one slot of a campaign, and one of another campaign only    *)
(* when it was taken over.                                                    *)
THEOREM AlwaysSharedOnlyByReconciling == Spec => []SharedOnlyByReconciling
<1>1. IInv => SharedOnlyByReconciling
  <2>1. SUFFICES ASSUME IInv, NEW c \in Known
                 PROVE  /\ c.acq # None => \A i, j \in Acq!CompletedSlots(c.acq) :
                              c.acq.slots[i].id = c.acq.slots[j].id => i = j
                        /\ \A d \in Known : c.plan # d.plan =>
                              Used(c) \cap Used(d) \subseteq TakenOver(c) \cup TakenOver(d)
    BY DEF SharedOnlyByReconciling
  <2>2. \A d \in Known : c.plan # d.plan =>
            Used(c) \cap Used(d) \subseteq TakenOver(c) \cup TakenOver(d)
    BY <2>1 DEF IInv, Apart
  <2>3. ASSUME c.acq # None
        PROVE  \A i, j \in Acq!CompletedSlots(c.acq) :
                  c.acq.slots[i].id = c.acq.slots[j].id => i = j
    <3>1. SessionSound(c, store)
      BY <2>1, <2>3 DEF IInv, Sound, AcquisitionSound
    <3>2. \A i \in Acq!CompletedSlots(c.acq) : i \in DOMAIN Slots(c) /\ i < c.acq.next
      BY <3>1, SessionFacts
    <3> QED
      BY <3>1, <3>2 DEF SessionSound, Slots
  <2> QED
    BY <2>2, <2>3
<1> QED
  BY <1>1, Inductive, PTL

\* The size of a set is the same wherever it is asked for.
LEMMA SizeIs == ASSUME NEW S PROVE Acq!Cardinality(S) = Cardinality(S)
  BY DEF Acq!Cardinality, Cardinality

\* The session of a cohort verifies, and so do its journals.
LEMMA MeasuredVerifies ==
    ASSUME NEW c, NEW s \in Seq(MeasuredRecords), Sound(c, s), CohortSound(c, s)
    PROVE  /\ Acq!SessionVerifies(c.acq, s)
           /\ \A k \in DOMAIN c.journals : JournalVerifies(c.journals[k], c.acq, s)
<1>1. /\ c.acq # None /\ c.acq.status = "Complete" /\ AcquisitionSound(c, s) /\ SessionSound(c, s)
  BY DEF CohortSound, Sound, AcquisitionSound
<1> DEFINE next == c.acq.next
           done == Acq!CompletedSlots(c.acq)
<1>2. /\ next \in Nat /\ done = 0 .. next - 1
      /\ \A i \in done : i \in DOMAIN Slots(c) /\ i < next /\ Slots(c)[i].id \in DOMAIN s
  <2>1. /\ next \in 0 .. Acq!TotalSlots(c.acq.plan) /\ Acq!TotalSlots(c.acq.plan) \in Nat
        /\ done = 0 .. next - 1
        /\ \A i \in 0 .. next - 1 : i \in DOMAIN Slots(c) /\ i < next /\ Slots(c)[i].id \in DOMAIN s
    BY <1>1, SessionFacts
  <2> QED
    BY <2>1
<1>3. next = Cardinality(done)
  <2>1. CASE next = 0
    <3>1. done = {}
      BY <1>2, <2>1
    <3> QED
      BY <2>1, <3>1, FS_EmptySet
  <2>2. CASE next # 0
    <3> DEFINE last == next - 1
    <3>1. last \in Int /\ ~(0 > last) /\ 0 \in Int /\ last - 0 + 1 = next
      BY <1>2, <2>2
    <3>2. done = 0 .. last
      BY <1>2
    <3> HIDE DEF last, done
    <3>3. Cardinality(0 .. last) = last - 0 + 1
      BY <3>1, FS_Interval
    <3> QED
      BY <3>1, <3>2, <3>3
  <2> QED
    BY <2>1, <2>2
<1>4. \A i \in DOMAIN c.acq.slots :
          IF c.acq.slots[i].status = "Complete"
          THEN c.acq.slots[i].id \in DOMAIN s /\ s[c.acq.slots[i].id] = c.acq.slots[i].hash
          ELSE c.acq.slots[i].id = 0 /\ c.acq.slots[i].hash = None
  BY <1>1 DEF SessionSound, Slots, Acq!PendingSlot
<1>5. \A i, j \in done : c.acq.slots[i].hash = c.acq.slots[j].hash => i = j
  <2>1. SUFFICES ASSUME NEW i \in done, NEW j \in done, c.acq.slots[i].hash = c.acq.slots[j].hash
                 PROVE  i = j
    OBVIOUS
  <2> DEFINE x == [id |-> Slots(c)[i].id, record |-> s[Slots(c)[i].id]]
             y == [id |-> Slots(c)[j].id, record |-> s[Slots(c)[j].id]]
  <2>2. x \in c.cohort /\ y \in c.cohort
    <3>1. c.cohort = Measured(c, s)
      BY DEF CohortSound
    <3> QED
      BY <2>1, <3>1 DEF Measured, Slots
  <2>3. /\ Slots(c)[i].hash = s[Slots(c)[i].id] /\ Slots(c)[j].hash = s[Slots(c)[j].id]
        /\ i \in DOMAIN Slots(c) /\ j \in DOMAIN Slots(c) /\ i < next /\ j < next
    BY <1>1, <1>2, <2>1 DEF SessionSound
  <2>4. x.record = y.record
    BY <2>1, <2>3 DEF Slots
  <2>5. x = y
    BY <2>2, <2>4 DEF CohortSound, IsCohort
  <2>6. Slots(c)[i].id = Slots(c)[j].id
    BY <2>5
  <2> QED
    BY <1>1, <2>3, <2>6 DEF SessionSound
<1>6. Acq!SessionVerifies(c.acq, s)
  BY <1>3, <1>4, <1>5, SizeIs DEF Acq!SessionVerifies
<1>7. ASSUME NEW k \in DOMAIN c.journals PROVE JournalVerifies(c.journals[k], c.acq, s)
  <2>1. JournalSound(c, s, k) /\ c.journals[k] \in Journals
    BY <1>1 DEF AcquisitionSound
  <2>2. c.journals[k].slot \in Nat
    BY <2>1 DEF Journals
  <2>3. c.journals[k].slot = next \/ c.journals[k].slot \in done
    BY <1>2, <2>1, <2>2 DEF JournalSound
  <2> QED
    BY <2>1, <2>3 DEF JournalSound, JournalVerifies
<1> QED
  BY <1>6, <1>7

(* A campaign with a result replays for ever against the store.               *)
THEOREM AlwaysFinalCampaignReplays == Spec => []FinalCampaignReplays
<1>1. IInv => FinalCampaignReplays
  <2>1. SUFFICES ASSUME IInv, NEW c \in Known, c.result # None PROVE ReplaysCampaign(c, store)
    BY DEF FinalCampaignReplays
  <2>2. Sound(c, store) /\ store \in Seq(MeasuredRecords)
    BY <2>1 DEF IInv
  <2>3. c.status \in {"complete", "no_eligible_terminal"}
    BY <2>1, <2>2 DEF Sound, ResultSound
  <2>4. Searching(c) /\ c.search.status \in {"complete", "bounded"}
    BY <2>2, <2>3 DEF Sound, SearchSound, Unsearched
  <2>5. ReplaysSearch(c.search)
    <3> DEFINE plan == CampaignPlans[c.plan].search
    <3>1. PICK n \in Nat : c.search = Run(plan, n)
      BY <2>4 DEF Searching
    <3>2. plan.children \in Nat
      BY <2>2, StagesAssumption DEF Sound
    <3>3. Stopped(Run(plan, n))
      BY <2>4, <3>1 DEF Stopped
    <3> HIDE DEF plan
    <3> QED
      BY <3>1, <3>2, <3>3, StoppedReplays
  <2>6. c.acq # None \/ c.cohort # None => CohortSound(c, store)
    <3>1. c.status = "no_eligible_terminal" => c.acq = None /\ c.cohort = None
      BY <2>2 DEF Sound, StatusSound, ResultSound, Unmeasured
    <3> QED
      BY <2>2, <2>3, <3>1 DEF Sound, ResultSound
  <2>7. c.acq # None =>
            /\ Acq!SessionVerifies(c.acq, store)
            /\ \A i \in DOMAIN c.journals : JournalVerifies(c.journals[i], c.acq, store)
    BY <2>2, <2>6, MeasuredVerifies
  <2>8. c.cohort # None =>
            /\ IsCohort(c.cohort, CampaignPlans[c.plan].rounds)
            /\ c.recommendation = Recommended(c)
    <3>1. c.cohort # None => c.status = "complete"
      BY <2>2, <2>3 DEF Sound, ResultSound, Unmeasured
    <3> QED
      BY <2>2, <2>6, <3>1 DEF Sound, ResultSound, CohortSound
  <2> QED
    BY <2>1, <2>5, <2>7, <2>8 DEF ReplaysCampaign
<1> QED
  BY <1>1, Inductive, PTL

-----------------------------------------------------------------------------
\* The cohort and the recommendation.

\* A plan measures the artifacts it names, and no other.
LEMMA PlannedIs ==
    ASSUME NEW plan \in AcquisitionPlans, NEW i \in Nat
    PROVE  Acq!PlannedArtifact(plan, i) \in ToSet(plan.artifacts)
<1> DEFINE n == Len(plan.artifacts)
<1>1. plan.artifacts \in Seq(Artifacts) /\ n \in Nat /\ n > 0
  BY PlanFacts
<1>2. Acq!PlannedArtifact(plan, i) = plan.artifacts[(i % n) + 1]
  BY DEF Acq!PlannedArtifact, ArtifactsOf
<1>3. (i % n) + 1 \in 1 .. n
  BY <1>1, RoundRobin
<1>4. (i % n) + 1 \in DOMAIN plan.artifacts
  <2>1. DOMAIN plan.artifacts = 1 .. n
    BY <1>1
  <2> QED
    BY <1>3, <2>1
<1> QED
  BY <1>2, <1>4 DEF ToSet

\* What a slot of a campaign adds to its cohort.
Entry(c, s, i) == [id |-> Slots(c)[i].id, record |-> s[Slots(c)[i].id]]

\* A cohort has one entry for every slot, with the record that fills it.
LEMMA CohortFacts ==
    ASSUME NEW c, NEW s \in Seq(MeasuredRecords), Sound(c, s), CohortSound(c, s)
    PROVE  LET last == c.acq.next - 1
               plan == AcquisitionPlan(c)
           IN  /\ plan \in AcquisitionPlans /\ last \in Nat /\ last + 1 = Acq!TotalSlots(plan)
               /\ c.cohort = {Entry(c, s, i) : i \in 0 .. last}
               /\ \A i \in 0 .. last :
                     /\ Entry(c, s, i).record \in MeasuredRecords
                     /\ Entry(c, s, i).record.artifact = Acq!PlannedArtifact(plan, i)
                     /\ Entry(c, s, i).record.config = plan.config
                     /\ Entry(c, s, i).record = s[Entry(c, s, i).id]
<1>1. /\ c.acq # None /\ c.acq.status = "Complete" /\ SessionSound(c, s) /\ c.cohort = Measured(c, s)
  BY DEF CohortSound, Sound, AcquisitionSound
<1> DEFINE plan == AcquisitionPlan(c)
           next == c.acq.next
           last == next - 1
           total == Acq!TotalSlots(plan)
<1>2. /\ plan \in AcquisitionPlans /\ c.acq.plan = plan /\ next = total /\ total \in Nat /\ total > 0
      /\ Acq!CompletedSlots(c.acq) = 0 .. last
      /\ \A i \in 0 .. last : i \in DOMAIN Slots(c) /\ i < next /\ Slots(c)[i].id \in DOMAIN s
  <2>1. next = Acq!TotalSlots(c.acq.plan)
    BY <1>1 DEF SessionSound
  <2> QED
    BY <1>1, <2>1, SessionFacts
<1>3. last \in Nat /\ last + 1 = total
  BY <1>2
<1> HIDE DEF last
<1>4. c.cohort = {Entry(c, s, i) : i \in 0 .. last}
  BY <1>1, <1>2 DEF Measured, Entry, Slots
<1>5. ASSUME NEW i \in 0 .. last
      PROVE  /\ Entry(c, s, i).record \in MeasuredRecords
             /\ Entry(c, s, i).record.artifact = Acq!PlannedArtifact(plan, i)
             /\ Entry(c, s, i).record.config = plan.config
             /\ Entry(c, s, i).record = s[Entry(c, s, i).id]
  <2>1. i \in DOMAIN Slots(c) /\ i < next /\ Slots(c)[i].id \in DOMAIN s
    BY <1>2
  <2>2. /\ Slots(c)[i].hash = s[Slots(c)[i].id]
        /\ Slots(c)[i].hash.artifact = Acq!PlannedArtifact(plan, i)
        /\ Slots(c)[i].hash.config = plan.config
    BY <1>1, <1>2, <2>1 DEF SessionSound
  <2>3. s[Slots(c)[i].id] \in MeasuredRecords
    BY <2>1, SeqFacts
  <2> QED
    BY <2>2, <2>3 DEF Entry
<1> QED
  BY <1>2, <1>3, <1>4, <1>5 DEF last

\* Every artifact of the campaign is measured.
LEMMA MeasuredArtifacts ==
    ASSUME NEW c, NEW s \in Seq(MeasuredRecords), Sound(c, s), CohortSound(c, s)
    PROVE  /\ \A a \in ToSet(c.artifacts) : \E x \in c.cohort : x.record.artifact = a
           /\ \A x \in c.cohort : /\ x.record.artifact \in ToSet(c.artifacts)
                                  /\ x.record.artifact \in Artifacts
                                  /\ x.record.timing \in Nat
                                  /\ x.record = s[x.id]
                                  /\ x.record.config = CampaignPlans[c.plan].config
<1> DEFINE last == c.acq.next - 1
           plan == AcquisitionPlan(c)
<1>1. /\ plan \in AcquisitionPlans /\ last \in Nat /\ last + 1 = Acq!TotalSlots(plan)
      /\ c.cohort = {Entry(c, s, i) : i \in 0 .. last}
      /\ \A i \in 0 .. last :
            /\ Entry(c, s, i).record \in MeasuredRecords
            /\ Entry(c, s, i).record.artifact = Acq!PlannedArtifact(plan, i)
            /\ Entry(c, s, i).record.config = plan.config
            /\ Entry(c, s, i).record = s[Entry(c, s, i).id]
  BY CohortFacts
<1>2. plan.artifacts = c.artifacts /\ plan.config = CampaignPlans[c.plan].config
  BY DEF AcquisitionPlan
<1> HIDE DEF last, plan
<1>3. ASSUME NEW a \in ToSet(c.artifacts) PROVE \E x \in c.cohort : x.record.artifact = a
  <2>1. PICK k \in DOMAIN c.artifacts : c.artifacts[k] = a
    BY DEF ToSet
  <2>2. /\ c.artifacts \in Seq(Artifacts) /\ Len(c.artifacts) \in Nat
        /\ Acq!TotalSlots(plan) \in Nat /\ Acq!TotalSlots(plan) >= Len(c.artifacts)
        /\ \A i \in Nat : i < Len(c.artifacts) => Acq!PlannedArtifact(plan, i) = c.artifacts[i + 1]
    BY <1>1, <1>2, PlanFacts
  <2>3. k - 1 \in 0 .. last /\ k - 1 \in Nat /\ k - 1 < Len(c.artifacts) /\ (k - 1) + 1 = k
    BY <1>1, <2>1, <2>2
  <2>4. Acq!PlannedArtifact(plan, k - 1) = a
    BY <2>1, <2>2, <2>3
  <2> QED
    BY <1>1, <2>3, <2>4
<1>4. ASSUME NEW x \in c.cohort
      PROVE  /\ x.record.artifact \in ToSet(c.artifacts) /\ x.record.artifact \in Artifacts
             /\ x.record.timing \in Nat
             /\ x.record = s[x.id] /\ x.record.config = CampaignPlans[c.plan].config
  <2>1. PICK i \in 0 .. last : x = Entry(c, s, i)
    BY <1>1
  <2>2. x.record \in MeasuredRecords
    BY <1>1, <2>1
  <2>3. x.record.artifact \in Artifacts /\ x.record.timing \in Nat
    <3>1. Timings \subseteq Nat
      BY StagesAssumption
    <3> QED
      BY <2>2, <3>1 DEF MeasuredRecords
  <2>4. x.record.artifact \in ToSet(c.artifacts)
    <3>1. i \in Nat
      BY <1>1
    <3> QED
      BY <1>1, <1>2, <2>1, <3>1, PlannedIs
  <2> QED
    BY <1>1, <1>2, <2>1, <2>3, <2>4
<1> QED
  BY <1>3, <1>4

\* A cohort is finite, and its timings have a greatest one.
LEMMA CohortFinite ==
    ASSUME NEW c, NEW s \in Seq(MeasuredRecords), Sound(c, s), CohortSound(c, s),
           NEW S \in SUBSET c.cohort
    PROVE  /\ IsFiniteSet(S) /\ Cardinality(S) \in Nat
           /\ S # {} => \E x \in S : \A y \in S : y.record.timing <= x.record.timing
<1> DEFINE last == c.acq.next - 1
<1>1. last \in Nat /\ c.cohort = {Entry(c, s, i) : i \in 0 .. last}
  BY CohortFacts
<1>2. \A x \in c.cohort : x.record.timing \in Nat
  BY MeasuredArtifacts
<1> HIDE DEF last
<1>3. IsFiniteSet(c.cohort)
  <2>1. IsFiniteSet(0 .. last)
    <3>1. 0 \in Int /\ last \in Int
      BY <1>1
    <3> QED
      BY <3>1, FS_Interval
  <2> DEFINE f == [i \in 0 .. last |-> Entry(c, s, i)]
  <2>2. f \in Surjection(0 .. last, c.cohort)
    BY <1>1 DEF Surjection
  <2> QED
    BY <2>1, <2>2, FS_Surjection
<1>4. IsFiniteSet(S) /\ Cardinality(S) \in Nat
  BY <1>3, FS_Subset, FS_CardinalityType
<1>5. ASSUME S # {} PROVE \E x \in S : \A y \in S : y.record.timing <= x.record.timing
  <2> DEFINE time(i) == Entry(c, s, i).record.timing
             T == {n \in 0 .. last : \E b \in Nat : \A i \in 0 .. n : time(i) <= b}
  <2>1. \A i \in 0 .. last : time(i) \in Nat
    BY <1>1, <1>2
  <2> HIDE DEF time
  <2>2. 0 \in T
    <3>1. \A i \in 0 .. 0 : i = 0
      OBVIOUS
    <3>2. 0 \in 0 .. last
      BY <1>1
    <3>3. time(0) \in Nat /\ time(0) <= time(0)
      BY <2>1, <3>2
    <3> QED
      BY <3>1, <3>2, <3>3
  <2>3. ASSUME NEW n \in 0 .. last - 1, n \in T PROVE n + 1 \in T
    <3>1. PICK b \in Nat : \A i \in 0 .. n : time(i) <= b
      BY <2>3
    <3>2. n + 1 \in 0 .. last /\ \A i \in 0 .. n + 1 : i \in 0 .. n \/ i = n + 1
      BY <1>1
    <3>3. time(n + 1) \in Nat
      BY <2>1, <3>2
    <3>4. \A i \in 0 .. n + 1 : time(i) \in Nat /\ time(i) <= b + time(n + 1)
      <4>1. SUFFICES ASSUME NEW i \in 0 .. n + 1 PROVE time(i) \in Nat /\ time(i) <= b + time(n + 1)
        OBVIOUS
      <4>2. i \in 0 .. last
        BY <1>1
      <4>3. time(i) \in Nat
        BY <2>1, <4>2
      <4>4. CASE i \in 0 .. n
        BY <3>1, <3>3, <4>3, <4>4
      <4>5. CASE i = n + 1
        BY <3>1, <3>3, <4>5
      <4> QED
        BY <3>2, <4>3, <4>4, <4>5
    <3>5. b + time(n + 1) \in Nat
      BY <3>3
    <3> QED
      BY <3>2, <3>4, <3>5
  <2> HIDE DEF T
  <2>4. last \in T
    <3>1. 0 .. last \subseteq T
      BY <1>1, <2>2, <2>3, Working!UpTo
    <3> QED
      BY <1>1, <3>1
  <2>5. PICK b \in Nat : \A i \in 0 .. last : time(i) <= b
    BY <2>4 DEF T
  <2>6. \A x \in S : x.record.timing \in Nat /\ x.record.timing <= b
    BY <1>1, <1>2, <2>5 DEF time
  <2> DEFINE gaps == {b - x.record.timing : x \in S}
  <2>7. gaps \subseteq Nat /\ gaps # {}
    BY <1>5, <2>6
  <2>8. PICK m \in gaps : \A k \in gaps : m <= k
    BY <2>7, LeastIs
  <2>9. PICK x \in S : m = b - x.record.timing
    BY <2>8
  <2>10. \A y \in S : b - x.record.timing <= b - y.record.timing
    BY <2>8, <2>9
  <2> QED
    BY <2>6, <2>10
<1> QED
  BY <1>4, <1>5

\* A cohort has as many records of every artifact as the plan asks for.
LEMMA CohortCounts ==
    ASSUME NEW c, NEW s \in Seq(MeasuredRecords), Sound(c, s), CohortSound(c, s),
           NEW a \in ToSet(c.artifacts)
    PROVE  Cardinality({x.record : x \in OfArtifact(c.cohort, a)}) = CampaignPlans[c.plan].rounds
<1> DEFINE S == OfArtifact(c.cohort, a)
           R == {x.record : x \in S}
           f == [x \in S |-> x.record]
<1>1. Cardinality(S) = CampaignPlans[c.plan].rounds
  <2>1. PICK x \in c.cohort : x.record.artifact = a
    BY MeasuredArtifacts
  <2> QED
    BY <2>1 DEF CohortSound, IsCohort
<1>2. IsFiniteSet(S)
  BY CohortFinite DEF OfArtifact
<1>3. \A x, y \in S : x.record = y.record => x = y
  BY DEF CohortSound, IsCohort, OfArtifact
<1> HIDE DEF S
<1>4. f \in Bijection(S, R)
  BY <1>3 DEF Bijection, Injection, Surjection, IsInjective
<1> QED
  BY <1>1, <1>2, <1>4, FS_Bijection DEF S, ExistsBijection

\* The value of a measured artifact is a time.
LEMMA AggregateIs ==
    ASSUME NEW c, NEW s \in Seq(MeasuredRecords), Sound(c, s), CohortSound(c, s),
           NEW a, OfArtifact(c.cohort, a) # {}
    PROVE  Aggregate(c.cohort, a) \in Nat
<1> DEFINE entries == OfArtifact(c.cohort, a)
           Until(t) == {x \in entries : x.record.timing <= t}
           T == {t \in {x.record.timing : x \in entries} :
                    2 * Cardinality(Until(t)) >= Cardinality(entries)}
<1>1. entries \subseteq c.cohort
  BY DEF OfArtifact
<1> HIDE DEF entries
<1>2. \A x \in entries : x.record.timing \in Nat
  BY <1>1, MeasuredArtifacts
<1>3. Cardinality(entries) \in Nat /\ \E x \in entries : \A y \in entries : y.record.timing <= x.record.timing
  <2>1. entries # {}
    BY DEF entries
  <2> QED
    BY <1>1, <2>1, CohortFinite
<1>4. PICK x \in entries : \A y \in entries : y.record.timing <= x.record.timing
  BY <1>3
<1>5. Until(x.record.timing) = entries
  BY <1>4
<1>6. 2 * Cardinality(Until(x.record.timing)) >= Cardinality(entries)
  <2>1. Cardinality(Until(x.record.timing)) = Cardinality(entries)
    BY <1>5
  <2> DEFINE size == Cardinality(entries)
  <2>2. size \in Nat
    BY <1>3
  <2> HIDE DEF size
  <2>3. 2 * size >= size
    BY <2>2
  <2> QED
    BY <2>1, <2>3 DEF size
<1>7. x.record.timing \in T /\ T \subseteq Nat
  BY <1>2, <1>4, <1>6
<1>8. Aggregate(c.cohort, a) = Min(T)
  BY DEF Aggregate, entries
<1> HIDE DEF T
<1>9. T # {}
  BY <1>7
<1>10. Min(T) \in T
  BY <1>7, <1>9, MinIs
<1> QED
  BY <1>7, <1>8, <1>10

\* The order of the hashes is strict.
LEMMA BelowIs ==
    ASSUME NEW a, NEW b, Below(a, b)
    PROVE  ~Below(b, a) /\ a # b
<1>1. /\ HashOrder \in Seq(Artifacts)
      /\ \A i, j \in DOMAIN HashOrder : HashOrder[i] = HashOrder[j] => i = j
  BY StagesAssumption
<1>2. DOMAIN HashOrder \subseteq Nat
  BY <1>1
<1>3. PICK i, j \in DOMAIN HashOrder : i < j /\ HashOrder[i] = a /\ HashOrder[j] = b
  BY DEF Below
<1>4. a # b
  BY <1>1, <1>2, <1>3
<1>5. ASSUME Below(b, a) PROVE FALSE
  <2>1. PICK k, l \in DOMAIN HashOrder : k < l /\ HashOrder[k] = b /\ HashOrder[l] = a
    BY <1>5 DEF Below
  <2>2. k = j /\ l = i
    BY <1>1, <1>3, <2>1
  <2> QED
    BY <1>2, <1>3, <2>1, <2>2
<1> QED
  BY <1>4, <1>5

\* Of candidates that artifact and node tell apart one is the first, and no other's artifact has
\* a smaller hash.
LEMMA FirstIs ==
    ASSUME NEW W, W # {}, \A k \in W : k.artifact \in Artifacts /\ k.node \in Nat,
           \A k, l \in W : k.artifact = l.artifact /\ k.node = l.node => k = l
    PROVE  FirstByHash(W) \in W /\ \A k \in W : ~Below(k.artifact, FirstByHash(W).artifact)
<1> DEFINE Sooner(k, l) ==
              \/ Below(k.artifact, l.artifact)
              \/ k.artifact = l.artifact /\ k.node < l.node
           First(k) == \A l \in W \ {k} : Sooner(k, l)
           places == {i \in DOMAIN HashOrder : \E k \in W : k.artifact = HashOrder[i]}
<1>1. \E k \in W : First(k)
  <2>1. DOMAIN HashOrder \subseteq Nat /\ \A a \in Artifacts : \E i \in DOMAIN HashOrder : HashOrder[i] = a
    <3>1. HashOrder \in Seq(Artifacts)
      BY StagesAssumption
    <3>2. DOMAIN HashOrder \subseteq Nat
      BY <3>1
    <3> QED
      BY <3>2 DEF Artifacts, ToSet
  <2>2. \A k \in W : \E i \in places : k.artifact = HashOrder[i]
    BY <2>1
  <2>3. places \subseteq Nat /\ places # {}
    BY <2>1, <2>2
  <2>4. PICK i \in places : \A j \in places : i <= j
    BY <2>3, LeastIs
  <2> DEFINE same == {k \in W : k.artifact = HashOrder[i]}
             nodes == {k.node : k \in same}
  <2>5. nodes \subseteq Nat /\ nodes # {}
    BY <2>4
  <2>6. PICK n \in nodes : \A m \in nodes : n <= m
    BY <2>5, LeastIs
  <2>7. PICK k \in same : k.node = n
    BY <2>6
  <2>8. ASSUME NEW l \in W \ {k} PROVE Sooner(k, l)
    <3>1. CASE l.artifact = HashOrder[i]
      <4>1. l \in same /\ l.node # k.node
        BY <2>7, <3>1
      <4>2. n <= l.node /\ n \in Nat /\ l.node \in Nat
        BY <2>5, <2>6, <4>1
      <4>3. k.node < l.node
        BY <2>7, <4>1, <4>2
      <4> QED
        BY <2>7, <3>1, <4>3
    <3>2. CASE l.artifact # HashOrder[i]
      <4>1. PICK j \in places : l.artifact = HashOrder[j]
        BY <2>2
      <4>2. i < j
        <5>1. i # j
          BY <3>2, <4>1
        <5> QED
          BY <2>3, <2>4, <5>1
      <4>3. k.artifact = HashOrder[i] /\ i \in DOMAIN HashOrder /\ j \in DOMAIN HashOrder
        BY <2>7
      <4>4. Below(k.artifact, l.artifact)
        BY <4>1, <4>2, <4>3 DEF Below
      <4> QED
        BY <4>4
    <3> QED
      BY <3>1, <3>2
  <2> QED
    BY <2>7, <2>8
<1> DEFINE first == FirstByHash(W)
<1>2. first \in W /\ First(first)
  BY <1>1 DEF FirstByHash
<1> HIDE DEF first
<1>3. ASSUME NEW k \in W PROVE ~Below(k.artifact, first.artifact)
  <2>1. ~Below(first.artifact, first.artifact)
    BY BelowIs
  <2>2. CASE k = first
    BY <2>1, <2>2
  <2>3. CASE k # first
    <3>1. Sooner(first, k)
      BY <1>2, <2>3
    <3>2. CASE Below(first.artifact, k.artifact)
      BY <3>2, BelowIs
    <3>3. CASE first.artifact = k.artifact
      BY <2>1, <3>3
    <3> QED
      BY <3>1, <3>2, <3>3
  <2> QED
    BY <2>2, <2>3
<1> QED
  BY <1>2, <1>3 DEF first

\* Every measured artifact is a candidate, with its value.
LEMMA CandidatesAre ==
    ASSUME NEW c, NEW s \in Seq(MeasuredRecords), Sound(c, s), CohortSound(c, s),
           Searching(c),
           \A a \in ToSet(c.artifacts) : \E n \in TerminalNodes(c.search) : a \in Published(c.search, n)
    PROVE  LET K == Candidates(c.search, c.cohort) IN
           /\ \A k \in K : /\ k.artifact \in Published(c.search, k.node)
                           /\ k.artifact \in Artifacts /\ k.node \in Nat
                           /\ k.node \in TerminalNodes(c.search)
                           /\ \E x \in c.cohort : x.record.artifact = k.artifact
                           /\ k.value = Aggregate(c.cohort, k.artifact) /\ k.value \in Nat
           /\ \A k, l \in K : k.artifact = l.artifact /\ k.node = l.node => k = l
           /\ \A x \in c.cohort : \E k \in K : k.artifact = x.record.artifact
<1> DEFINE K == Candidates(c.search, c.cohort)
           Made(n, a) == [node |-> n, artifact |-> a, value |-> Aggregate(c.cohort, a)]
<1>1. \A k \in K : \E n \in TerminalNodes(c.search), a \in Artifacts :
          k = Made(n, a) /\ a \in Published(c.search, n) /\ OfArtifact(c.cohort, a) # {}
  BY DEF Candidates
<1>2. \A n \in TerminalNodes(c.search), a \in Artifacts :
          a \in Published(c.search, n) /\ OfArtifact(c.cohort, a) # {} => Made(n, a) \in K
  <2>1. SUFFICES ASSUME NEW n \in TerminalNodes(c.search), NEW a \in Artifacts,
                        a \in Published(c.search, n), OfArtifact(c.cohort, a) # {}
                 PROVE  Made(n, a) \in K
    OBVIOUS
  <2> DEFINE end == <<n, a>>
  <2>2. end \in TerminalNodes(c.search) \X Artifacts /\ end[1] = n /\ end[2] = a
    OBVIOUS
  <2> HIDE DEF end
  <2> QED
    BY <2>1, <2>2 DEF Candidates
<1>3. TerminalNodes(c.search) \subseteq Nat
  <2>1. PICK n \in Nat : c.search = Run(CampaignPlans[c.plan].search, n)
    BY DEF Searching
  <2>2. CampaignPlans[c.plan].search.children \in Nat
    BY StagesAssumption DEF Sound
  <2>3. \E T : c.search.nodes \in Seq(T)
    <3> DEFINE plan == CampaignPlans[c.plan].search
    <3>1. plan.children \in Nat /\ c.search = Run(plan, n)
      BY <2>1, <2>2
    <3> HIDE DEF plan
    <3>2. OfPlan(plan, c.search)
      <4>1. UnitHolds(plan, n, c.search)
        BY <3>1, RunHolds
      <4> QED
        BY <4>1 DEF UnitHolds
    <3> QED
      BY <3>2 DEF OfPlan
  <2>4. DOMAIN c.search.nodes \subseteq Nat
    BY <2>3
  <2> QED
    BY <2>4 DEF TerminalNodes
<1> HIDE DEF K
<1>4. ASSUME NEW k \in K
      PROVE  /\ k.artifact \in Published(c.search, k.node)
             /\ k.artifact \in Artifacts /\ k.node \in Nat
             /\ k.node \in TerminalNodes(c.search)
             /\ \E x \in c.cohort : x.record.artifact = k.artifact
             /\ k.value = Aggregate(c.cohort, k.artifact) /\ k.value \in Nat
  <2>1. PICK n \in TerminalNodes(c.search), a \in Artifacts :
            k = Made(n, a) /\ a \in Published(c.search, n) /\ OfArtifact(c.cohort, a) # {}
    BY <1>1
  <2>2. k.artifact = a /\ k.node = n /\ k.value = Aggregate(c.cohort, a)
    BY <2>1
  <2>3. Aggregate(c.cohort, a) \in Nat
    BY <2>1, AggregateIs
  <2>4. \E x \in c.cohort : x.record.artifact = a
    BY <2>1 DEF OfArtifact
  <2> QED
    BY <1>3, <2>1, <2>2, <2>3, <2>4
<1>5. ASSUME NEW k \in K, NEW l \in K, k.artifact = l.artifact, k.node = l.node PROVE k = l
  <2>1. k = Made(k.node, k.artifact)
    BY <1>1
  <2>2. l = Made(l.node, l.artifact)
    BY <1>1
  <2> QED
    BY <1>5, <2>1, <2>2
<1>6. ASSUME NEW x \in c.cohort PROVE \E k \in K : k.artifact = x.record.artifact
  <2> DEFINE a == x.record.artifact
  <2>1. a \in ToSet(c.artifacts) /\ a \in Artifacts
    BY MeasuredArtifacts
  <2>2. OfArtifact(c.cohort, a) # {}
    BY DEF OfArtifact
  <2> HIDE DEF a
  <2>3. PICK n \in TerminalNodes(c.search) : a \in Published(c.search, n)
    BY <2>1
  <2>4. Made(n, a) \in K /\ Made(n, a).artifact = a
    BY <1>2, <2>1, <2>2, <2>3
  <2> QED
    BY <2>4 DEF a
<1> QED
  BY <1>4, <1>5, <1>6 DEF K

\* What is recommended is within the band of the fastest, and none within it comes before.
LEMMA RecommendedIs ==
    ASSUME NEW c, NEW s \in Seq(MeasuredRecords), Sound(c, s), CohortSound(c, s),
           Searching(c),
           \A a \in ToSet(c.artifacts) : \E n \in TerminalNodes(c.search) : a \in Published(c.search, n)
    PROVE  LET chosen == Recommended(c)
               band == CampaignPlans[c.plan].band
               measured == {x.record.artifact : x \in c.cohort}
               value == [a \in measured |-> Aggregate(c.cohort, a)]
               fastest == Min({value[a] : a \in measured})
           IN  /\ chosen.artifact \in Published(c.search, chosen.node) \cap measured
               /\ chosen.node \in TerminalNodes(c.search)
               /\ chosen.value = value[chosen.artifact] /\ Within(fastest, chosen.value, band)
               /\ \A a \in measured : Within(fastest, value[a], band) => ~Below(a, chosen.artifact)
<1> DEFINE K == Candidates(c.search, c.cohort)
           chosen == Recommended(c)
           band == CampaignPlans[c.plan].band
           measured == {x.record.artifact : x \in c.cohort}
           value == [a \in measured |-> Aggregate(c.cohort, a)]
           values == {value[a] : a \in measured}
           fastest == Min(values)
           W == WithinBand(K, fastest, band)
<1>1. /\ \A k \in K : /\ k.artifact \in Published(c.search, k.node)
                      /\ k.artifact \in Artifacts /\ k.node \in Nat
                      /\ k.node \in TerminalNodes(c.search)
                      /\ \E x \in c.cohort : x.record.artifact = k.artifact
                      /\ k.value = Aggregate(c.cohort, k.artifact) /\ k.value \in Nat
      /\ \A k, l \in K : k.artifact = l.artifact /\ k.node = l.node => k = l
      /\ \A x \in c.cohort : \E k \in K : k.artifact = x.record.artifact
  BY CandidatesAre
<1>2. band \in Nat
  BY StagesAssumption DEF Sound
<1>3. chosen = FirstByHash(WithinBand(K, Fastest(K), band))
  BY DEF Recommended, Recommendation, Choice
<1> HIDE DEF K, band, chosen
<1>4. \A k \in K : k.artifact \in measured /\ k.value = value[k.artifact]
  BY <1>1
<1>5. \A a \in measured : \E k \in K : k.artifact = a /\ k.value = value[a]
  BY <1>1, <1>4
<1>6. {k.value : k \in K} = values
  <2>1. \A k \in K : k.value \in values
    BY <1>4
  <2>2. \A t \in values : \E k \in K : k.value = t
    <3>1. SUFFICES ASSUME NEW a \in measured PROVE \E k \in K : k.value = value[a]
      OBVIOUS
    <3> QED
      BY <1>5
  <2> QED
    BY <2>1, <2>2
<1>7. values \subseteq Nat /\ values # {}
  <2>1. c.cohort # {}
    BY DEF CohortSound, IsCohort
  <2>2. values \subseteq Nat
    BY <1>1, <1>6
  <2> QED
    BY <2>1, <2>2
<1> HIDE DEF values
<1>8. fastest \in values /\ fastest \in Nat
  BY <1>7, MinIs
<1>9. Fastest(K) = fastest
  BY <1>6 DEF Fastest
<1>10. Within(fastest, fastest, band)
  <2>1. Min({fastest, fastest}) = fastest
    <3> DEFINE one == {fastest, fastest}
    <3>1. one \subseteq Nat /\ one # {}
      BY <1>8
    <3>2. Min(one) \in one
      BY <3>1, MinIs
    <3> QED
      BY <3>2
  <2> HIDE DEF fastest
  <2>2. ~(fastest < fastest) /\ (fastest - fastest) * 1000000 = 0 /\ 0 <= fastest * band
    BY <1>2, <1>8
  <2> QED
    BY <2>1, <2>2 DEF Within
<1> HIDE DEF fastest
<1>11. W # {}
  <2>1. PICK a \in measured : fastest = value[a]
    BY <1>8 DEF values
  <2>2. PICK k \in K : k.value = fastest
    BY <1>5, <2>1
  <2> QED
    BY <1>10, <2>2 DEF WithinBand
<1>12. W \subseteq K /\ \A k \in W : Within(fastest, k.value, band)
  BY DEF WithinBand
<1>13. chosen = FirstByHash(W)
  BY <1>3, <1>9
<1>14. \A k \in K : Within(fastest, k.value, band) => k \in W
  BY DEF WithinBand
<1> HIDE DEF W
<1>15. chosen \in W /\ \A k \in W : ~Below(k.artifact, chosen.artifact)
  BY <1>1, <1>11, <1>12, <1>13, FirstIs
<1>16. /\ chosen.artifact \in Published(c.search, chosen.node) \cap measured
       /\ chosen.node \in TerminalNodes(c.search)
       /\ chosen.value = value[chosen.artifact] /\ Within(fastest, chosen.value, band)
  BY <1>1, <1>4, <1>12, <1>15
<1>17. ASSUME NEW a \in measured, Within(fastest, value[a], band)
       PROVE  ~Below(a, chosen.artifact)
  <2>1. PICK k \in K : k.artifact = a /\ k.value = value[a]
    BY <1>5
  <2> HIDE DEF value, measured
  <2>2. k \in W
    BY <1>14, <1>17, <2>1
  <2> QED
    BY <1>15, <2>1, <2>2
<1> QED
  BY <1>16, <1>17 DEF chosen, band, fastest, values

(* Cohorts are complete, and what is recommended is the fastest up to the     *)
(* band, and of those within the band the first by hash.                      *)
THEOREM AlwaysRecommendationIsFastest == Spec => []RecommendationIsFastest
<1>1. IInv => RecommendationIsFastest
  <2>1. SUFFICES ASSUME IInv PROVE RecommendationIsFastest
    OBVIOUS
  <2>2. store \in Seq(MeasuredRecords) /\ \A c \in Known : Sound(c, store)
    BY <2>1 DEF IInv
  <2>3. ASSUME NEW c \in Known, c.cohort # None PROVE CohortIsComplete(c)
    <3>1. CohortSound(c, store)
      BY <2>2, <2>3 DEF Sound, ResultSound
    <3>2. \A a \in ToSet(c.artifacts) :
              Cardinality({x.record : x \in OfArtifact(c.cohort, a)}) = CampaignPlans[c.plan].rounds
      BY <2>2, <3>1, CohortCounts
    <3>3. \A x \in c.cohort :
              /\ x.record.artifact \in ToSet(c.artifacts) /\ x.record = store[x.id]
              /\ x.record.config = CampaignPlans[c.plan].config
      BY <2>2, <3>1, MeasuredArtifacts
    <3> QED
      BY <3>2, <3>3 DEF CohortIsComplete
  <2>4. ASSUME NEW c \in Known, c.recommendation # None
        PROVE  LET chosen == c.recommendation
                   band == CampaignPlans[c.plan].band
                   measured == {x.record.artifact : x \in c.cohort}
                   value == [a \in measured |-> Aggregate(c.cohort, a)]
                   fastest == Min({value[a] : a \in measured})
               IN  /\ chosen.artifact \in Published(c.search, chosen.node) \cap measured
                   /\ chosen.node \in TerminalNodes(c.search)
                   /\ chosen.value = value[chosen.artifact] /\ Within(fastest, chosen.value, band)
                   /\ \A a \in measured :
                         Within(fastest, value[a], band) => ~Below(a, chosen.artifact)
    <3>1. CohortSound(c, store) /\ c.recommendation = Recommended(c)
      BY <2>2, <2>4 DEF Sound, ResultSound
    <3>2. SearchSound(c)
      BY <2>2 DEF Sound
    <3>3. Searching(c)
      BY <2>4, <3>2 DEF SearchSound
    <3>4. \A a \in ToSet(c.artifacts) : \E n \in TerminalNodes(c.search) : a \in Published(c.search, n)
      BY <2>4, <3>2 DEF SearchSound
    <3> QED
      BY <2>2, <3>1, <3>3, <3>4, RecommendedIs
  <2> QED
    BY <2>3, <2>4 DEF RecommendationIsFastest
<1> QED
  BY <1>1, Inductive, PTL

-----------------------------------------------------------------------------
(***************************************************************************)
(* Evaluation, the harness's runs and searches: what ended replays, a run  *)
(* id names one run, and repairs explain rejections, for every compiler,   *)
(* corpus, policy, script, plan and limit.                                 *)
(***************************************************************************)

\* A search that is asked to stop between two units does so in the next.
LEMMA CancelledRun ==
    ASSUME NEW plan, plan.children \in Nat, NEW n \in Nat
    PROVE  LET s == Run(plan, n)
               c == Cancelled(s)
           IN  /\ Stopped(c) /\ c.plan = plan /\ Cancelled(c) = c
               /\ Stopped(s) => c = s
               /\ ~Stopped(s) => /\ c.status = "cancelled" /\ c.expansions = s.expansions
                                 /\ s.expansions = n /\ n <= SearchLimits.expansions
<1> DEFINE s == Run(plan, n)
           asked == RequestCancellation(s)
           c == Cancelled(s)
<1>1. UnitHolds(plan, n, s)
  BY RunHolds
<1>2. \A t : Cancelled(t) = Unit(RequestCancellation(t))
  <2> SUFFICES ASSUME NEW t PROVE Cancelled(t) = Unit(RequestCancellation(t))
    OBVIOUS
  <2>1. Advanced(RequestCancellation(t), 0 + 1) = Unit(Advanced(RequestCancellation(t), 0))
    BY AdvancedNext
  <2>2. 0 + 1 = 1
    OBVIOUS
  <2> QED
    BY <2>1, <2>2, AdvancedNone DEF Cancelled
<1> HIDE DEF s
<1>3. \A t : Stopped(t) /\ t.cancel \in BOOLEAN /\ t = [f \in SearchFields |-> t[f]] => Cancelled(t) = t
  <2> SUFFICES ASSUME NEW t, Stopped(t), t.cancel \in BOOLEAN, t = [f \in SearchFields |-> t[f]]
               PROVE  Cancelled(t) = t
    OBVIOUS
  <2>1. (t.cancel \/ ~Stopped(t)) = t.cancel
    OBVIOUS
  <2>2. RequestCancellation(t) = [t EXCEPT !.cancel = t.cancel]
    BY <2>1 DEF RequestCancellation
  <2>3. [t EXCEPT !.cancel = t.cancel] = t
    BY DEF SearchFields
  <2>4. RequestCancellation(t) = t
    BY <2>2, <2>3
  <2> QED
    BY <1>2, <2>4 DEF Unit
<1>4. CASE Stopped(s)
  <2>1. s = [f \in SearchFields |-> s[f]] /\ s.cancel = FALSE /\ s.plan = plan
    BY <1>1 DEF UnitHolds, OfPlan
  <2>2. c = s
    BY <1>3, <1>4, <2>1
  <2> QED
    BY <1>4, <2>1, <2>2 DEF s
<1>5. CASE ~Stopped(s)
  <2>1. /\ s = [f \in SearchFields |-> s[f]] /\ s.cancel = FALSE /\ s.plan = plan
        /\ s.status = "running" /\ s.expansions = n /\ n <= SearchLimits.expansions
    BY <1>1, <1>5 DEF UnitHolds, OfPlan, Stopped, Ends
  <2>2. asked = [s EXCEPT !.cancel = TRUE]
    BY <1>5, <2>1 DEF RequestCancellation
  <2>3. /\ asked = [f \in SearchFields |-> asked[f]] /\ asked.cancel = TRUE /\ asked.plan = plan
        /\ asked.status = "running" /\ asked.expansions = n
    BY <2>1, <2>2 DEF SearchFields
  <2> HIDE DEF asked
  <2>4. c = Finish(asked, "cancelled", "cooperative_cancellation")
    BY <1>2, <2>3 DEF Unit, Stopped, asked
  <2> HIDE DEF c
  <2>5. /\ c = [f \in SearchFields |-> c[f]] /\ c.cancel = TRUE /\ c.plan = plan
        /\ c.status = "cancelled" /\ c.expansions = n
    BY <2>3, <2>4 DEF Finish, SearchFields
  <2>6. Stopped(c)
    BY <2>5 DEF Stopped
  <2>7. Cancelled(c) = c
    BY <1>3, <2>5, <2>6
  <2> QED
    BY <1>5, <2>1, <2>5, <2>6, <2>7 DEF s, c
<1> QED
  BY <1>4, <1>5

\* The replay of a cancelled search: the units it made, the cancellation, and nothing more.
AgainOp(session, s, i) ==
    IF session.status = "cancelled" /\ s.expansions = session.expansions
    THEN Cancelled(s) ELSE Unit(s)

AgainHolds(about, k, s) == s = IF k <= about.units THEN Run(about.plan, k) ELSE about.session

Repeating == INSTANCE FoldFacts WITH Op <- AgainOp, Holds <- AgainHolds

\* A search that goes on after n units went on after each unit before.
LEMMA RunningBefore ==
    ASSUME NEW plan, NEW n \in Nat, ~Stopped(Run(plan, n)), NEW k \in 0 .. n
    PROVE  ~Stopped(Run(plan, k))
<1>1. SUFFICES ASSUME Stopped(Run(plan, k)) PROVE FALSE
  OBVIOUS
<1>2. n - k \in Nat /\ k + (n - k) = n /\ k \in Nat
  OBVIOUS
<1>3. Advanced(Run(plan, k), n - k) = Run(plan, k + (n - k))
  BY <1>2, AdvancedTwice DEF Run
<1> QED
  BY <1>1, <1>2, <1>3, StoppedStays

\* A cancelled search replays (replay_search).
LEMMA CancelledReplays ==
    ASSUME NEW plan, plan.children \in Nat, NEW n \in Nat
    PROVE  ReplaysSearch(Cancelled(Run(plan, n)))
<1> DEFINE s == Run(plan, n)
           c == Cancelled(s)
           last == SearchLimits.expansions + 1
           seq == [i \in 1 .. last |-> i]
           about == [plan |-> plan, units |-> n, session |-> c]
<1>1. CASE Stopped(s)
  BY <1>1, CancelledRun, StoppedReplays
<1>2. CASE ~Stopped(s)
  <2>1. /\ Stopped(c) /\ c.plan = plan /\ Cancelled(c) = c
        /\ c.status = "cancelled" /\ c.expansions = n /\ n <= SearchLimits.expansions
    BY <1>2, CancelledRun
  <2>2. \A k \in 0 .. n : Run(plan, k).expansions = k
    <3>1. SUFFICES ASSUME NEW k \in 0 .. n PROVE Run(plan, k).expansions = k
      OBVIOUS
    <3>2. ~Stopped(Run(plan, k)) /\ UnitHolds(plan, k, Run(plan, k))
      BY <1>2, RunningBefore, RunHolds
    <3> QED
      BY <3>2 DEF UnitHolds, Stopped, Ends
  <2>3. last \in Nat /\ n < last /\ DOMAIN seq = 1 .. last
    BY <2>1, SearchAssumption
  <2>4. about.plan = plan /\ about.units = n /\ about.session = c
    OBVIOUS
  <2>5. c = Cancelled(Run(plan, n))
    OBVIOUS
  <2> HIDE DEF s, c, about, last
  <2>6. Repeating!Kept(about, c, StartSearch(plan), seq, last)
    <3>1. AgainHolds(about, 0, StartSearch(plan))
      BY <2>4, AdvancedNone DEF AgainHolds, Run
    <3>2. ASSUME NEW i \in 1 .. last, NEW r, AgainHolds(about, i - 1, r)
          PROVE  AgainHolds(about, i, AgainOp(c, r, seq[i]))
      <4>1. CASE i - 1 < n
        <5>1. r = Run(plan, i - 1) /\ i - 1 \in 0 .. n /\ (i - 1) + 1 = i
          BY <2>3, <2>4, <3>2, <4>1 DEF AgainHolds
        <5>2. r.expansions = i - 1
          BY <2>2, <5>1
        <5>3. AgainOp(c, r, seq[i]) = Unit(r)
          BY <2>1, <4>1, <5>2 DEF AgainOp
        <5>4. Run(plan, (i - 1) + 1) = Unit(Run(plan, i - 1))
          BY <5>1, AdvancedNext DEF Run
        <5> QED
          BY <2>4, <4>1, <5>1, <5>3, <5>4 DEF AgainHolds
      <4>2. CASE i - 1 = n
        <5>1. r = Run(plan, n) /\ r.expansions = n
          BY <2>2, <2>4, <3>2, <4>2 DEF AgainHolds
        <5>2. AgainOp(c, r, seq[i]) = c
          BY <2>1, <2>5, <5>1 DEF AgainOp
        <5> QED
          BY <2>4, <4>2, <5>2 DEF AgainHolds
      <4>3. CASE i - 1 > n
        <5>1. r = c
          BY <2>4, <3>2, <4>3 DEF AgainHolds
        <5>2. AgainOp(c, r, seq[i]) = c
          BY <2>1, <5>1 DEF AgainOp
        <5> QED
          BY <2>4, <4>3, <5>2 DEF AgainHolds
      <4> QED
        BY <2>3, <4>1, <4>2, <4>3
    <3> QED
      BY <3>1, <3>2 DEF Repeating!Kept
  <2>7. AgainHolds(about, last, Repeating!Fold(c, StartSearch(plan), seq))
    BY <2>3, <2>6, Repeating!FoldKeeps
  <2>8. Repeating!Fold(c, StartSearch(plan), seq) = c
    BY <2>3, <2>4, <2>7 DEF AgainHolds
  <2>9. Rerun(c) = Repeating!Fold(c, StartSearch(plan), seq)
    BY <2>1 DEF Rerun, AgainOp, last, Repeating!Fold, Repeating!FoldLeft, FoldLeft,
       Repeating!MapThenFoldSet, MapThenFoldSet, Repeating!Max, Max
  <2> QED
    BY <2>1, <2>8, <2>9 DEF ReplaysSearch, c, s
<1> QED
  BY <1>1, <1>2

-----------------------------------------------------------------------------
\* Repair cycles.

Span(c) == c.start .. c.end
Failed(steps, i) == ~steps[i].outcome.accepted
Progressed(steps, i) == steps[i].outcome.accepted /\ steps[i].outcome.progress

\* A cycle of the first n steps, as RepairsExplainRejections has it.
IsCycle(steps, n, c) ==
    /\ c.start \in Nat /\ c.end \in Nat /\ 1 <= c.start /\ c.start <= c.end /\ c.end <= n
    /\ Failed(steps, c.start)
    /\ \A i \in Span(c) : Progressed(steps, i) => i = c.end

\* One cycle ends before the next begins.
Apiece(cycles) == \A j, k \in DOMAIN cycles : j < k => cycles[j].end < cycles[k].start

\* What a result says of an episode's rejections.
Explained(steps, cycles) ==
    /\ \E T : cycles \in Seq(T)
    /\ Apiece(cycles)
    /\ \A k \in DOMAIN cycles :
          /\ IsCycle(steps, Len(steps), cycles[k])
          /\ Progressed(steps, cycles[k].end) \/ cycles[k].end = Len(steps)
    /\ \A i \in DOMAIN steps : Failed(steps, i) => \E k \in DOMAIN cycles : i \in Span(cycles[k])

\* What the scan has found after n steps.
Scanned(steps, n, open, cycles) ==
    /\ open \in 0 .. n
    /\ \E T : cycles \in Seq(T)
    /\ Apiece(cycles)
    /\ \A k \in DOMAIN cycles : IsCycle(steps, n, cycles[k]) /\ Progressed(steps, cycles[k].end)
    /\ open # 0 => /\ Failed(steps, open)
                   /\ \A i \in open .. n : ~Progressed(steps, i)
                   /\ \A k \in DOMAIN cycles : cycles[k].end < open
    /\ \A i \in 1 .. n : Failed(steps, i) =>
          (open # 0 /\ i >= open) \/ \E k \in DOMAIN cycles : i \in Span(cycles[k])

ScanHolds(steps, n, acc) ==
    /\ acc = [f \in {"scan", "cycles"} |-> acc[f]]
    /\ acc.scan = [f \in {"open", "code", "again"} |-> acc.scan[f]]
    /\ Scanned(steps, n, acc.scan.open, acc.cycles)

Scanning == INSTANCE FoldFacts WITH Op <- RepairScan, Holds <- ScanHolds

\* A sequence of cycles with one more, which begins after all of them ended.
LEMMA OneCycleMore ==
    ASSUME NEW cycles, \E T : cycles \in Seq(T), Apiece(cycles),
           NEW c, c.start \in Nat, c.end \in Nat, \A k \in DOMAIN cycles : cycles[k].end < c.start
    PROVE  LET more == Append(cycles, c) IN
           /\ \E T : more \in Seq(T)
           /\ Apiece(more)
           /\ DOMAIN more = DOMAIN cycles \cup {Len(cycles) + 1} /\ more[Len(cycles) + 1] = c
           /\ \A k \in DOMAIN cycles : more[k] = cycles[k]
<1> DEFINE more == Append(cycles, c)
<1>1. PICK T : cycles \in Seq(T)
  OBVIOUS
<1>2. cycles \in Seq(T \cup {c})
  BY <1>1
<1>3. /\ Len(cycles) \in Nat /\ DOMAIN cycles = 1 .. Len(cycles)
      /\ more \in Seq(T \cup {c}) /\ DOMAIN more = DOMAIN cycles \cup {Len(cycles) + 1}
      /\ more[Len(cycles) + 1] = c /\ \A k \in DOMAIN cycles : more[k] = cycles[k]
  BY <1>2, SeqFacts
<1> HIDE DEF more
<1>4. Apiece(more)
  <2>1. SUFFICES ASSUME NEW j \in DOMAIN more, NEW k \in DOMAIN more, j < k
                 PROVE  more[j].end < more[k].start
    BY DEF Apiece
  <2>2. CASE k \in DOMAIN cycles
    <3>1. j \in DOMAIN cycles
      BY <1>3, <2>1, <2>2
    <3> QED
      BY <1>3, <2>1, <2>2, <3>1 DEF Apiece
  <2>3. CASE k = Len(cycles) + 1
    <3>1. j \in DOMAIN cycles
      BY <1>3, <2>1, <2>3
    <3> QED
      BY <1>3, <2>3, <3>1
  <2> QED
    BY <1>3, <2>2, <2>3
<1> QED
  BY <1>3, <1>4 DEF more

\* A cycle of so many steps is one of more.
LEMMA CycleGrows ==
    ASSUME NEW steps, NEW n \in Nat, NEW m \in Nat, n <= m, NEW c, IsCycle(steps, n, c)
    PROVE  IsCycle(steps, m, c)
  BY DEF IsCycle

\* The scan keeps what it found.
LEMMA ScanKeeps ==
    ASSUME NEW steps, NEW n \in Nat, NEW acc, ScanHolds(steps, n, acc)
    PROVE  ScanHolds(steps, n + 1, RepairScan(steps, acc, n + 1))
<1> DEFINE open == acc.scan.open
           cycles == acc.cycles
           scan == acc.scan
           after == RepairScan(steps, acc, n + 1)
<1>0. /\ acc = [f \in {"scan", "cycles"} |-> acc[f]]
      /\ scan = [f \in {"open", "code", "again"} |-> scan[f]]
      /\ Scanned(steps, n, open, cycles)
  BY DEF ScanHolds
<1>1. /\ open \in 0 .. n /\ (\E T : cycles \in Seq(T)) /\ Apiece(cycles)
      /\ \A k \in DOMAIN cycles : IsCycle(steps, n, cycles[k]) /\ Progressed(steps, cycles[k].end)
      /\ open # 0 => /\ Failed(steps, open)
                     /\ \A i \in open .. n : ~Progressed(steps, i)
                     /\ \A k \in DOMAIN cycles : cycles[k].end < open
      /\ \A i \in 1 .. n : Failed(steps, i) =>
            (open # 0 /\ i >= open) \/ \E k \in DOMAIN cycles : i \in Span(cycles[k])
  BY <1>0 DEF Scanned
<1>2. \A k \in DOMAIN cycles : IsCycle(steps, n + 1, cycles[k]) /\ cycles[k].end < n + 1
  <2>1. SUFFICES ASSUME NEW k \in DOMAIN cycles
                 PROVE  IsCycle(steps, n + 1, cycles[k]) /\ cycles[k].end < n + 1
    OBVIOUS
  <2>2. IsCycle(steps, n, cycles[k])
    BY <1>1
  <2>3. cycles[k].end < n + 1
    BY <2>2 DEF IsCycle
  <2> QED
    BY <2>2, <2>3, CycleGrows
<1>3. CASE Failed(steps, n + 1)
  <2>1. ~Progressed(steps, n + 1)
    BY <1>3 DEF Failed, Progressed
  <2> DEFINE opened == IF open = 0
                       THEN [open |-> n + 1, code |-> steps[n + 1].outcome.answer, again |-> FALSE]
                       ELSE [scan EXCEPT !.again = @ \/ steps[n + 1].outcome.answer = scan.code]
  <2>2. after = [acc EXCEPT !.scan = opened]
    BY <1>3 DEF RepairScan, Failed
  <2>3. /\ opened = [f \in {"open", "code", "again"} |-> opened[f]]
        /\ opened.open = IF open = 0 THEN n + 1 ELSE open
    <3>1. CASE open = 0
      BY <3>1
    <3>2. CASE open # 0
      BY <1>0, <3>2
    <3> QED
      BY <3>1, <3>2
  <2> HIDE DEF opened
  <2>4. after = [f \in {"scan", "cycles"} |-> after[f]] /\ after.scan = opened /\ after.cycles = cycles
    BY <1>0, <2>2
  <2> HIDE DEF after, scan, open, cycles
  <2> DEFINE now == opened.open
  <2>5. now \in 0 .. n + 1 /\ now # 0 /\ now = IF open = 0 THEN n + 1 ELSE open
    BY <1>1, <2>3
  <2> HIDE DEF now
  <2>6. Failed(steps, now) /\ \A k \in DOMAIN cycles : cycles[k].end < now
    BY <1>1, <1>2, <1>3, <2>5
  <2>7. \A i \in now .. n + 1 : ~Progressed(steps, i)
    <3>1. SUFFICES ASSUME NEW i \in now .. n + 1 PROVE ~Progressed(steps, i)
      OBVIOUS
    <3>2. i = n + 1 \/ (open # 0 /\ i \in open .. n)
      BY <1>1, <2>5
    <3> QED
      BY <1>1, <2>1, <3>2
  <2>8. \A i \in 1 .. n + 1 : Failed(steps, i) =>
            i >= now \/ \E k \in DOMAIN cycles : i \in Span(cycles[k])
    <3>1. SUFFICES ASSUME NEW i \in 1 .. n + 1, Failed(steps, i), ~(i >= now)
                   PROVE  \E k \in DOMAIN cycles : i \in Span(cycles[k])
      OBVIOUS
    <3>2. i \in 1 .. n /\ ~(open # 0 /\ i >= open)
      BY <1>1, <2>5, <3>1
    <3> QED
      BY <1>1, <3>1, <3>2
  <2>9. Scanned(steps, n + 1, now, cycles)
    BY <1>1, <1>2, <2>5, <2>6, <2>7, <2>8 DEF Scanned
  <2> QED
    BY <2>3, <2>4, <2>9 DEF ScanHolds, now, after
<1>4. CASE ~Failed(steps, n + 1) /\ steps[n + 1].outcome.progress /\ open # 0
  <2> DEFINE c == RepairCycle(scan, n + 1, (n + 1) - open)
             more == Append(cycles, c)
  <2>1. after = [scan |-> NoCycle, cycles |-> more]
    BY <1>4 DEF RepairScan, Failed
  <2>2. c.start = open /\ c.end = n + 1
    BY DEF RepairCycle
  <2> HIDE DEF c, more, after
  <2>3. /\ after = [f \in {"scan", "cycles"} |-> after[f]] /\ after.scan = NoCycle
        /\ after.cycles = more /\ NoCycle.open = 0
        /\ NoCycle = [f \in {"open", "code", "again"} |-> NoCycle[f]]
    <3>1. NoCycle.open = 0 /\ NoCycle = [f \in {"open", "code", "again"} |-> NoCycle[f]]
      BY DEF NoCycle
    <3>2. after.scan = NoCycle /\ after.cycles = more
      BY <2>1
    <3>3. after = [f \in {"scan", "cycles"} |-> after[f]]
      BY <2>1
    <3> QED
      BY <3>1, <3>2, <3>3
  <2> HIDE DEF after, scan, open, cycles
  <2>4. /\ (\E T : more \in Seq(T)) /\ Apiece(more)
        /\ DOMAIN more = DOMAIN cycles \cup {Len(cycles) + 1} /\ more[Len(cycles) + 1] = c
        /\ \A k \in DOMAIN cycles : more[k] = cycles[k]
    <3>1. \A k \in DOMAIN cycles : cycles[k].end < c.start
      BY <1>1, <1>4, <2>2
    <3>2. c.start \in Nat /\ c.end \in Nat
      BY <1>1, <2>2
    <3> QED
      BY <1>1, <3>1, <3>2, OneCycleMore DEF more
  <2>5. Progressed(steps, n + 1)
    BY <1>4 DEF Failed, Progressed
  <2>6. IsCycle(steps, n + 1, c) /\ Progressed(steps, c.end)
    <3>1. \A i \in Span(c) : Progressed(steps, i) => i = c.end
      <4>1. SUFFICES ASSUME NEW i \in open .. n + 1, Progressed(steps, i), i # n + 1
                     PROVE  FALSE
        BY <2>2 DEF Span
      <4>2. i \in open .. n
        BY <1>1, <4>1
      <4> QED
        BY <1>1, <1>4, <4>1, <4>2
    <3> QED
      BY <1>1, <1>4, <2>2, <2>5, <3>1 DEF IsCycle
  <2>7. \A k \in DOMAIN more : IsCycle(steps, n + 1, more[k]) /\ Progressed(steps, more[k].end)
    BY <1>1, <1>2, <2>4, <2>6
  <2>8. \A i \in 1 .. n + 1 : Failed(steps, i) => \E k \in DOMAIN more : i \in Span(more[k])
    <3>1. SUFFICES ASSUME NEW i \in 1 .. n + 1, Failed(steps, i)
                   PROVE  \E k \in DOMAIN more : i \in Span(more[k])
      OBVIOUS
    <3>2. i \in 1 .. n
      BY <1>4, <3>1
    <3>3. CASE i >= open
      <4>1. i \in Span(c)
        BY <1>1, <2>2, <3>2, <3>3 DEF Span
      <4> QED
        BY <2>4, <4>1
    <3>4. CASE ~(i >= open)
      BY <1>1, <2>4, <3>1, <3>2, <3>4
    <3> QED
      BY <3>3, <3>4
  <2>9. Scanned(steps, n + 1, 0, more)
    BY <2>4, <2>7, <2>8 DEF Scanned
  <2> QED
    BY <2>3, <2>9 DEF ScanHolds, after
<1>5. CASE ~Failed(steps, n + 1) /\ ~(steps[n + 1].outcome.progress /\ open # 0)
  <2>1. after = acc
    BY <1>5 DEF RepairScan, Failed
  <2> HIDE DEF after, scan, open, cycles
  <2>2. open # 0 => \A i \in open .. n + 1 : ~Progressed(steps, i)
    <3>1. SUFFICES ASSUME open # 0, NEW i \in open .. n + 1 PROVE ~Progressed(steps, i)
      OBVIOUS
    <3>2. CASE i = n + 1
      BY <1>5, <3>1, <3>2 DEF Progressed
    <3>3. CASE i # n + 1
      <4>1. i \in open .. n
        BY <1>1, <3>1, <3>3
      <4> QED
        BY <1>1, <3>1, <4>1
    <3> QED
      BY <3>2, <3>3
  <2>3. \A i \in 1 .. n + 1 : Failed(steps, i) => i \in 1 .. n
    BY <1>5
  <2>4. open \in 0 .. n + 1
    BY <1>1
  <2>5. Scanned(steps, n + 1, open, cycles)
    BY <1>1, <1>2, <2>2, <2>3, <2>4 DEF Scanned
  <2> QED
    BY <1>0, <2>1, <2>5 DEF ScanHolds, after, scan, open, cycles
<1> QED
  BY <1>3, <1>4, <1>5

\* The cycles of a transcript explain its rejections (repair_cycles).
LEMMA RepairsExplain ==
    ASSUME NEW T, NEW steps \in Seq(T)
    PROVE  Explained(steps, RepairCycles(steps))
<1> DEFINE n == Len(steps)
           base == [scan |-> NoCycle, cycles |-> <<>>]
           seq == [i \in DOMAIN steps |-> i]
           read == Scanning!Fold(steps, base, seq)
<1>1. n \in Nat /\ DOMAIN steps = 1 .. n /\ DOMAIN seq = 1 .. n /\ \A i \in 1 .. n : seq[i] = i
  OBVIOUS
<1>2. ScanHolds(steps, 0, base)
  <2>1. /\ base.scan = NoCycle /\ base.cycles = <<>> /\ NoCycle.open = 0
        /\ base = [f \in {"scan", "cycles"} |-> base[f]]
        /\ NoCycle = [f \in {"open", "code", "again"} |-> NoCycle[f]]
    BY DEF NoCycle
  <2>2. <<>> \in Seq({}) /\ DOMAIN <<>> = {}
    OBVIOUS
  <2>3. Apiece(<<>>)
    BY <2>2 DEF Apiece
  <2> HIDE DEF base
  <2>4. Scanned(steps, 0, 0, <<>>)
    BY <2>2, <2>3 DEF Scanned
  <2> QED
    BY <2>1, <2>4 DEF ScanHolds
<1> HIDE DEF base, seq
<1>3. Scanning!Kept(steps, steps, base, seq, n)
  <2>1. ASSUME NEW i \in 1 .. n, NEW r, ScanHolds(steps, i - 1, r)
        PROVE  ScanHolds(steps, i, RepairScan(steps, r, seq[i]))
    <3>1. i - 1 \in Nat /\ (i - 1) + 1 = i /\ seq[i] = i
      BY <1>1
    <3> QED
      BY <2>1, <3>1, ScanKeeps
  <2> QED
    BY <1>2, <2>1 DEF Scanning!Kept
<1>4. ScanHolds(steps, n, read)
  BY <1>1, <1>3, Scanning!FoldKeeps
<1>5. RepairCycles(steps) =
        IF read.scan.open = 0 THEN read.cycles
        ELSE Append(read.cycles, RepairCycle(read.scan, n, n + 1 - read.scan.open))
  BY DEF RepairCycles, base, seq, Scanning!Fold, Scanning!FoldLeft, FoldLeft,
     Scanning!MapThenFoldSet, MapThenFoldSet, Scanning!Max, Max
<1> HIDE DEF read, n
<1> DEFINE open == read.scan.open
           cycles == read.cycles
<1>6. /\ open \in 0 .. n /\ (\E S : cycles \in Seq(S)) /\ Apiece(cycles)
      /\ \A k \in DOMAIN cycles : IsCycle(steps, n, cycles[k]) /\ Progressed(steps, cycles[k].end)
      /\ open # 0 => /\ Failed(steps, open)
                     /\ \A i \in open .. n : ~Progressed(steps, i)
                     /\ \A k \in DOMAIN cycles : cycles[k].end < open
      /\ \A i \in 1 .. n : Failed(steps, i) =>
            (open # 0 /\ i >= open) \/ \E k \in DOMAIN cycles : i \in Span(cycles[k])
  BY <1>4 DEF ScanHolds, Scanned
<1>7. CASE open = 0
  BY <1>1, <1>5, <1>6, <1>7 DEF Explained, n
<1>8. CASE open # 0
  <2> DEFINE c == RepairCycle(read.scan, n, n + 1 - read.scan.open)
             more == Append(cycles, c)
  <2>1. RepairCycles(steps) = more
    BY <1>5, <1>8
  <2>2. c.start = open /\ c.end = n
    BY DEF RepairCycle
  <2> HIDE DEF c, open, cycles
  <2>3. /\ (\E S : more \in Seq(S)) /\ Apiece(more)
        /\ DOMAIN more = DOMAIN cycles \cup {Len(cycles) + 1} /\ more[Len(cycles) + 1] = c
        /\ \A k \in DOMAIN cycles : more[k] = cycles[k]
    <3>1. \A k \in DOMAIN cycles : cycles[k].end < c.start
      BY <1>6, <1>8, <2>2
    <3>2. c.start \in Nat /\ c.end \in Nat
      BY <1>1, <1>6, <2>2
    <3> QED
      BY <1>1, <1>6, <3>1, <3>2, OneCycleMore
  <2> HIDE DEF more
  <2>4. IsCycle(steps, n, c)
    <3>1. \A i \in Span(c) : ~Progressed(steps, i)
      BY <1>6, <1>8, <2>2 DEF Span
    <3> QED
      BY <1>1, <1>6, <1>8, <2>2, <3>1 DEF IsCycle
  <2>5. \A k \in DOMAIN more : /\ IsCycle(steps, n, more[k])
                               /\ Progressed(steps, more[k].end) \/ more[k].end = n
    BY <1>6, <2>2, <2>3, <2>4
  <2>6. \A i \in 1 .. n : Failed(steps, i) => \E k \in DOMAIN more : i \in Span(more[k])
    <3>1. SUFFICES ASSUME NEW i \in 1 .. n, Failed(steps, i)
                   PROVE  \E k \in DOMAIN more : i \in Span(more[k])
      OBVIOUS
    <3>2. CASE i >= open
      <4>1. i \in Span(c)
        BY <1>1, <1>6, <2>2, <3>2 DEF Span
      <4> QED
        BY <2>3, <4>1
    <3>3. CASE ~(i >= open)
      BY <1>6, <2>3, <3>1, <3>3
    <3> QED
      BY <3>2, <3>3
  <2> QED
    BY <1>1, <2>1, <2>3, <2>5, <2>6 DEF Explained, n
<1> QED
  BY <1>7, <1>8

-----------------------------------------------------------------------------
\* Episodes.

EpisodeFields == {"task", "status", "steps", "result", "hash"}
StepFields == {"frame", "decision", "ranker", "outcome", "bytes"}

\* Every step has the answer the compiler gives to it after the steps before.
Answered(steps) ==
    /\ \E T : steps \in Seq(T)
    /\ \A i \in DOMAIN steps :
          /\ steps[i] = [f \in StepFields |-> steps[i][f]]
          /\ steps[i].outcome = Respond(Calls(SubSeq(steps, 1, i - 1)), Resolved(steps[i]))

\* An episode that has its result is hashed with it, is not active, and its repairs are those of
\* its steps.
EpisodeSound(episode) ==
    /\ episode = [f \in EpisodeFields |-> episode[f]]
    /\ Answered(episode.steps)
    /\ episode.result # None => /\ episode.hash = EpisodeContent(episode)
                                /\ episode.status \notin Active
                                /\ Explained(episode.steps, episode.result.repairs)

\* One step more, which the engine executed.
StepMade(episode, after) ==
    /\ IsPrefix(episode.steps, after.steps)
    /\ Calls(after.steps) = Append(Calls(episode.steps), Resolved(Last(after.steps)))

\* An empty transcript and its calls.
LEMMA FreshSound ==
    ASSUME NEW task
    PROVE  EpisodeSound(FreshEpisode(task)) /\ Calls(FreshEpisode(task).steps) = <<>>
<1> DEFINE e == FreshEpisode(task)
<1>1. /\ e = [f \in EpisodeFields |-> e[f]] /\ e.steps = <<>> /\ e.result = None
  BY DEF FreshEpisode, EpisodeFields
<1>2. <<>> \in Seq({}) /\ DOMAIN <<>> = {}
  OBVIOUS
<1>3. Answered(<<>>)
  BY <1>2 DEF Answered
<1>4. Calls(<<>>) = <<>>
  <2>1. Calls(<<>>) \in Seq({}) /\ Len(Calls(<<>>)) = 0
    BY DEF Calls
  <2> QED
    BY <2>1
<1> QED
  BY <1>1, <1>3, <1>4 DEF EpisodeSound

\* Calls and answers of a transcript that differs in what they are not made of.
LEMMA SameAnswers ==
    ASSUME NEW S, NEW old \in Seq(S), NEW T, NEW new \in Seq(T), Len(old) <= Len(new),
           \A i \in DOMAIN old : /\ new[i].outcome = old[i].outcome
                                 /\ new[i].decision = old[i].decision
                                 /\ new[i].frame = old[i].frame
    PROVE  /\ \A i \in DOMAIN old : Resolved(new[i]) = Resolved(old[i])
           /\ \A n \in 0 .. Len(old) : Calls(SubSeq(new, 1, n)) = Calls(SubSeq(old, 1, n))
<1>1. \A i \in DOMAIN old : Resolved(new[i]) = Resolved(old[i])
  BY DEF Resolved
<1>2. ASSUME NEW n \in 0 .. Len(old) PROVE Calls(SubSeq(new, 1, n)) = Calls(SubSeq(old, 1, n))
  <2>1. /\ DOMAIN SubSeq(new, 1, n) = 1 .. n /\ DOMAIN SubSeq(old, 1, n) = 1 .. n
        /\ \A i \in 1 .. n : SubSeq(new, 1, n)[i] = new[i] /\ SubSeq(old, 1, n)[i] = old[i]
        /\ \A i \in 1 .. n : i \in DOMAIN old
    OBVIOUS
  <2> DEFINE a == SubSeq(new, 1, n)
             b == SubSeq(old, 1, n)
  <2>2. \A i \in 1 .. n : Resolved(a[i]) = Resolved(b[i])
    BY <1>1, <2>1
  <2>3. DOMAIN a = 1 .. n /\ DOMAIN b = 1 .. n
    BY <2>1
  <2> HIDE DEF a, b
  <2>4. Calls(a) = Calls(b)
    BY <2>2, <2>3 DEF Calls
  <2> QED
    BY <2>4 DEF a, b
<1> QED
  BY <1>1, <1>2

\* What the repairs explain depends on the outcomes alone.
LEMMA SameExplained ==
    ASSUME NEW S, NEW old \in Seq(S), NEW T, NEW new \in Seq(T), Len(new) = Len(old),
           \A i \in DOMAIN old : new[i].outcome = old[i].outcome,
           NEW cycles, Explained(old, cycles)
    PROVE  Explained(new, cycles)
<1>1. /\ Len(old) \in Nat /\ DOMAIN old = 1 .. Len(old) /\ DOMAIN new = DOMAIN old
      /\ \A i \in DOMAIN old : /\ Failed(new, i) = Failed(old, i)
                               /\ Progressed(new, i) = Progressed(old, i)
  BY DEF Failed, Progressed
<1>2. ASSUME NEW c, IsCycle(old, Len(old), c)
      PROVE  IsCycle(new, Len(new), c) /\ Progressed(new, c.end) = Progressed(old, c.end)
  <2>1. c.start \in DOMAIN old /\ c.end \in DOMAIN old /\ \A i \in Span(c) : i \in DOMAIN old
    BY <1>1, <1>2 DEF IsCycle, Span
  <2> QED
    BY <1>1, <1>2, <2>1 DEF IsCycle
<1> QED
  BY <1>1, <1>2 DEF Explained

\* A step is appended to a transcript.
LEMMA StepAnswered ==
    ASSUME NEW steps, Answered(steps), NEW step, step = [f \in StepFields |-> step[f]],
           step.outcome = Respond(Calls(steps), Resolved(step))
    PROVE  LET more == Append(steps, step) IN
           /\ Answered(more) /\ IsPrefix(steps, more)
           /\ Len(more) = Len(steps) + 1 /\ more[Len(more)] = step
           /\ Calls(more) = Append(Calls(steps), Resolved(step))
<1> DEFINE more == Append(steps, step)
           n == Len(steps)
<1>1. PICK T : steps \in Seq(T)
  BY DEF Answered
<1>2. steps \in Seq(T \cup {step})
  BY <1>1
<1>3. /\ n \in Nat /\ DOMAIN steps = 1 .. n /\ more \in Seq(T \cup {step}) /\ Len(more) = n + 1
      /\ DOMAIN more = 1 .. n + 1 /\ more[n + 1] = step
      /\ \A i \in DOMAIN steps : more[i] = steps[i]
  BY <1>2, SeqFacts
<1> HIDE DEF more, n
<1>4. \A k \in 0 .. n : SubSeq(more, 1, k) = SubSeq(steps, 1, k)
  BY <1>2, <1>3
<1>5. SubSeq(steps, 1, n) = steps
  BY <1>2 DEF n
<1>6. Answered(more)
  <2>1. ASSUME NEW i \in 1 .. n + 1
        PROVE  /\ more[i] = [f \in StepFields |-> more[i][f]]
               /\ more[i].outcome = Respond(Calls(SubSeq(more, 1, i - 1)), Resolved(more[i]))
    <3>1. CASE i = n + 1
      <4>1. SubSeq(more, 1, i - 1) = steps
        BY <1>3, <1>4, <1>5, <3>1
      <4> QED
        BY <1>3, <3>1, <4>1
    <3>2. CASE i \in 1 .. n
      <4>1. SubSeq(more, 1, i - 1) = SubSeq(steps, 1, i - 1) /\ more[i] = steps[i]
        BY <1>3, <1>4, <3>2
      <4> QED
        BY <1>3, <3>2, <4>1 DEF Answered
    <3> QED
      BY <1>3, <3>1, <3>2
  <2> QED
    BY <1>3, <2>1 DEF Answered
<1>7. IsPrefix(steps, more)
  BY <1>3, <1>4, <1>5 DEF IsPrefix, n
<1>8. Calls(more) = Append(Calls(steps), Resolved(step))
  <2> DEFINE U == {Resolved(steps[i]) : i \in DOMAIN steps} \cup {Resolved(step)}
  <2>1. Calls(steps) \in Seq(U) /\ Len(Calls(steps)) = n /\ \A i \in 1 .. n : Calls(steps)[i] = Resolved(steps[i])
    BY <1>3 DEF Calls
  <2>2. Calls(more) \in Seq(U) /\ Len(Calls(more)) = n + 1 /\ \A i \in 1 .. n + 1 : Calls(more)[i] = Resolved(more[i])
    BY <1>3 DEF Calls
  <2>3. Resolved(step) \in U
    OBVIOUS
  <2> HIDE DEF U
  <2>4. \A i \in 1 .. n + 1 : Calls(more)[i] = Append(Calls(steps), Resolved(step))[i]
    BY <1>3, <2>1, <2>2, <2>3
  <2> QED
    BY <1>3, <2>1, <2>2, <2>3, <2>4
<1> QED
  BY <1>3, <1>6, <1>7, <1>8 DEF more, n

\* A submission makes one step of an active episode (submit).
LEMMA SubmittedSound ==
    ASSUME NEW episode, EpisodeSound(episode), episode.status \in Active, NEW policy, NEW decision
    PROVE  LET after == Submitted(policy, episode, Calls(episode.steps), decision)
           IN  EpisodeSound(after) /\ StepMade(episode, after) /\ Len(after.steps) > 0
<1> DEFINE step == RecordedStep(policy, episode, Calls(episode.steps), decision)
           steps == Append(episode.steps, step)
           after == AfterStep(episode, steps)
<1>1. /\ episode = [f \in EpisodeFields |-> episode[f]] /\ Answered(episode.steps)
      /\ episode.result = None
  BY DEF EpisodeSound
<1>2. step = [f \in StepFields |-> step[f]] /\ step.outcome = Respond(Calls(episode.steps), Resolved(step))
  BY DEF RecordedStep, Resolved, StepFields
<1> HIDE DEF step
<1>3. /\ Answered(steps) /\ IsPrefix(episode.steps, steps)
      /\ Len(steps) = Len(episode.steps) + 1 /\ steps[Len(steps)] = step
      /\ Calls(steps) = Append(Calls(episode.steps), Resolved(step))
  BY <1>1, <1>2, StepAnswered
<1>4. Len(steps) > 0
  <2>1. Len(episode.steps) \in Nat
    BY <1>1 DEF Answered
  <2> QED
    BY <1>3, <2>1
<1> HIDE DEF steps
<1>5. EpisodeSound(after) /\ after.steps = steps
  <2> DEFINE exhausted == Rejections(steps) > Tasks[episode.task].maxRejections
             running == [episode EXCEPT !.steps = steps,
                           !.status = IF exhausted THEN "budget_exhausted" ELSE "running"]
             ended == Finalized(running)
  <2>1. after \in {running, ended}
    BY DEF AfterStep
  <2>2. /\ running = [f \in EpisodeFields |-> running[f]] /\ running.steps = steps
        /\ running.result = None
    BY <1>1 DEF EpisodeFields
  <2> HIDE DEF running
  <2>3. EpisodeSound(running)
    BY <1>3, <2>2 DEF EpisodeSound
  <2>4. EpisodeSound(ended) /\ ended.steps = steps
    <3> DEFINE spent == running.status = "budget_exhausted"
               satisfied == Satisfied(Tasks[running.task].criterion, steps)
               result == [success |-> satisfied /\ ~spent, satisfied |-> satisfied,
                          decisions |-> Len(steps), rejected |-> Rejections(steps),
                          noOps |-> Cardinality({i \in DOMAIN steps : steps[i].outcome.accepted
                                                                   /\ ~steps[i].outcome.progress}),
                          repairs |-> RepairCycles(steps), context |-> UsedContext(steps),
                          exhausted |-> spent]
               status == IF spent THEN "budget_exhausted"
                         ELSE IF satisfied THEN "succeeded" ELSE "failed"
               open == [running EXCEPT !.result = result, !.status = status]
    <3>1. ended = Hashed(open)
      BY <2>2 DEF Finalized
    <3>2. result.repairs = RepairCycles(steps) /\ status \notin Active
      BY DEF Active
    <3> HIDE DEF result, status, ended
    <3>3. /\ open = [f \in EpisodeFields |-> open[f]] /\ open.steps = steps /\ open.result = result
          /\ open.status = status
      BY <2>2 DEF EpisodeFields
    <3> HIDE DEF open
    <3>4. /\ ended = [f \in EpisodeFields |-> ended[f]] /\ ended.hash = EpisodeContent(open)
          /\ ended.task = open.task /\ ended.status = open.status /\ ended.steps = open.steps
          /\ ended.result = open.result
      BY <3>1, <3>3 DEF Hashed, EpisodeFields
    <3>5. ended.hash = EpisodeContent(ended)
      BY <3>4 DEF EpisodeContent
    <3>6. Explained(steps, RepairCycles(steps))
      BY <1>3, RepairsExplain DEF Answered
    <3> QED
      BY <1>3, <3>2, <3>3, <3>4, <3>5, <3>6 DEF EpisodeSound
  <2> HIDE DEF ended, after
  <2> QED
    BY <2>1, <2>2, <2>3, <2>4
<1> HIDE DEF after
<1>6. StepMade(episode, after)
  BY <1>3, <1>5 DEF StepMade, Last
<1> QED
  BY <1>4, <1>5, <1>6 DEF Submitted, step, steps, after

\* A ranking submits its choice and marks the step (rank_episode).
LEMMA RankedSound ==
    ASSUME NEW episode, EpisodeSound(episode), episode.status \in Active, NEW policy, NEW decision
    PROVE  LET after == Ranked(policy, episode, Calls(episode.steps), decision)
           IN  EpisodeSound(after) /\ StepMade(episode, after)
<1> DEFINE made == Submitted(policy, episode, Calls(episode.steps), decision)
           old == made.steps
           n == Len(old)
           new == [old EXCEPT ![n] = [old[n] EXCEPT !.ranker = policy.ranker]]
           marked == Marked(policy, made)
           after == HashedWhenEnded(marked)
<1>1. EpisodeSound(made) /\ StepMade(episode, made) /\ n > 0
  BY SubmittedSound
<1>2. marked = [made EXCEPT !.steps = new]
  BY DEF Marked
<1> HIDE DEF made
<1>3. made = [f \in EpisodeFields |-> made[f]] /\ Answered(old)
  BY <1>1 DEF EpisodeSound
<1>4. PICK T : old \in Seq(T)
  BY <1>3 DEF Answered
<1> DEFINE last == [old[n] EXCEPT !.ranker = policy.ranker]
<1>5. n \in DOMAIN old /\ DOMAIN old = 1 .. n /\ n \in Nat
  BY <1>1, <1>4
<1>6. /\ last = [f \in StepFields |-> last[f]] /\ last.outcome = old[n].outcome
      /\ last.decision = old[n].decision /\ last.frame = old[n].frame
  <2>1. old[n] = [f \in StepFields |-> old[n][f]]
    BY <1>3, <1>5 DEF Answered
  <2> QED
    BY <2>1 DEF StepFields
<1> HIDE DEF last
<1>7. old \in Seq(T \cup {last})
  BY <1>4
<1>8. new = [old EXCEPT ![n] = last]
  BY DEF last
<1> HIDE DEF new
<1>9. /\ new \in Seq(T \cup {last}) /\ Len(new) = n /\ DOMAIN new = 1 .. n
      /\ new[n] = last /\ \A i \in 1 .. n : i # n => new[i] = old[i]
  BY <1>5, <1>7, <1>8, SeqFacts
<1>10. \A i \in DOMAIN old : /\ new[i].outcome = old[i].outcome
                             /\ new[i].decision = old[i].decision /\ new[i].frame = old[i].frame
                             /\ new[i] = [f \in StepFields |-> new[i][f]]
  <2>1. SUFFICES ASSUME NEW i \in 1 .. n
                 PROVE  /\ new[i].outcome = old[i].outcome
                        /\ new[i].decision = old[i].decision /\ new[i].frame = old[i].frame
                        /\ new[i] = [f \in StepFields |-> new[i][f]]
    BY <1>5
  <2>2. CASE i = n
    BY <1>6, <1>9, <2>2
  <2>3. CASE i # n
    BY <1>3, <1>5, <1>9, <2>3 DEF Answered
  <2> QED
    BY <2>2, <2>3
<1>11. /\ \A i \in DOMAIN old : Resolved(new[i]) = Resolved(old[i])
       /\ \A k \in 0 .. n : Calls(SubSeq(new, 1, k)) = Calls(SubSeq(old, 1, k))
  <2>1. Len(old) <= Len(new)
    BY <1>5, <1>9
  <2>2. \A i \in DOMAIN old : /\ new[i].outcome = old[i].outcome
                              /\ new[i].decision = old[i].decision /\ new[i].frame = old[i].frame
    BY <1>10
  <2> HIDE DEF old
  <2> QED
    BY <1>4, <1>9, <2>1, <2>2, SameAnswers
<1>12. Answered(new)
  <2>1. ASSUME NEW i \in 1 .. n
        PROVE  new[i].outcome = Respond(Calls(SubSeq(new, 1, i - 1)), Resolved(new[i]))
    <3>1. i - 1 \in 0 .. n /\ i \in DOMAIN old
      BY <1>5
    <3>2. old[i].outcome = Respond(Calls(SubSeq(old, 1, i - 1)), Resolved(old[i]))
      BY <1>3, <3>1 DEF Answered
    <3> QED
      BY <1>10, <1>11, <3>1, <3>2
  <2> QED
    BY <1>5, <1>9, <1>10, <2>1 DEF Answered
<1>13. /\ marked = [f \in EpisodeFields |-> marked[f]] /\ marked.steps = new
       /\ marked.task = made.task /\ marked.status = made.status /\ marked.result = made.result
       /\ marked.hash = made.hash
  BY <1>2, <1>3 DEF EpisodeFields
<1> HIDE DEF marked
<1>14. /\ after = [f \in EpisodeFields |-> after[f]] /\ after.steps = new
       /\ after.status = made.status /\ after.result = made.result
       /\ after.result # None => after.hash = EpisodeContent(after)
  <2>1. CASE marked.result = None
    BY <1>13, <2>1 DEF HashedWhenEnded
  <2>2. CASE marked.result # None
    <3>1. after = [marked EXCEPT !.hash = EpisodeContent(marked)]
      BY <2>2 DEF HashedWhenEnded, Hashed
    <3> HIDE DEF after
    <3>2. /\ after = [f \in EpisodeFields |-> after[f]] /\ after.steps = marked.steps
          /\ after.task = marked.task /\ after.status = marked.status /\ after.result = marked.result
          /\ after.hash = EpisodeContent(marked)
      BY <1>13, <3>1 DEF EpisodeFields
    <3> QED
      BY <1>13, <3>2 DEF EpisodeContent
  <2> QED
    BY <2>1, <2>2
<1> HIDE DEF after
<1>15. EpisodeSound(after)
  <2>1. after.result # None => Explained(new, after.result.repairs)
    <3>1. SUFFICES ASSUME after.result # None PROVE Explained(new, after.result.repairs)
      OBVIOUS
    <3>2. Explained(old, after.result.repairs)
      BY <1>1, <1>14, <3>1 DEF EpisodeSound
    <3> QED
      BY <1>4, <1>9, <1>10, <3>2, SameExplained
  <2> QED
    BY <1>1, <1>12, <1>14, <2>1 DEF EpisodeSound
<1>16. StepMade(episode, after)
  <2>1. Calls(new) = Calls(old)
    <3>1. n \in 0 .. n /\ SubSeq(new, 1, n) = new /\ SubSeq(old, 1, n) = old
      BY <1>4, <1>5, <1>9
    <3>2. Calls(SubSeq(new, 1, n)) = Calls(SubSeq(old, 1, n))
      BY <1>11, <3>1
    <3> QED
      BY <3>1, <3>2
  <2>2. Resolved(Last(new)) = Resolved(Last(old))
    BY <1>5, <1>9, <1>11 DEF Last
  <2>3. IsPrefix(episode.steps, new)
    <3>1. PICK S : episode.steps \in Seq(S)
      BY DEF EpisodeSound, Answered
    <3> DEFINE m == Len(episode.steps)
    <3>2. m \in Nat /\ m <= n /\ SubSeq(episode.steps, 1, m) = SubSeq(old, 1, m)
      BY <1>1, <3>1 DEF StepMade, IsPrefix
    <3>3. m < n
      <4>1. Len(Calls(episode.steps)) = m /\ Len(Calls(old)) = n
        <5>1. DOMAIN episode.steps = 1 .. m
          BY <3>1
        <5> QED
          BY <1>5, <3>2, <5>1 DEF Calls
      <4>2. Calls(episode.steps) \in Seq({Resolved(episode.steps[i]) : i \in 1 .. m})
        <5>1. DOMAIN episode.steps = 1 .. m
          BY <3>1
        <5> QED
          BY <3>2, <5>1 DEF Calls
      <4>3. Len(Calls(old)) = m + 1
        BY <1>1, <4>1, <4>2 DEF StepMade
      <4> QED
        BY <1>5, <3>2, <4>1, <4>3
    <3> HIDE DEF m
    <3>4. SubSeq(new, 1, m) = SubSeq(old, 1, m)
      BY <1>4, <1>5, <1>9, <3>2, <3>3
    <3> QED
      BY <1>9, <3>2, <3>4 DEF IsPrefix, m
  <2> QED
    BY <1>1, <1>14, <2>1, <2>2, <2>3 DEF StepMade
<1> QED
  BY <1>15, <1>16 DEF Ranked, made, marked, after

-----------------------------------------------------------------------------
\* Runs.

RunFields == {"policy", "episodes", "cancelled", "hash"}

\* A run whose episodes all have results is hashed with them.
RunSound(run) ==
    /\ run = [f \in RunFields |-> run[f]]
    /\ run.episodes = [e \in DOMAIN run.episodes |-> run.episodes[e]]
    /\ \A e \in DOMAIN run.episodes : EpisodeSound(run.episodes[e])
    /\ Concluded(run) => run.hash = RunContent(run)

\* Run ids are those given out or imported, and an engine was given what its episode records.
RunsSound ==
    /\ nextRun \in Nat /\ DOMAIN runs \subseteq 1 .. nextRun
    /\ runs = [r \in DOMAIN runs |-> runs[r]]
    /\ \A r \in DOMAIN runs : RunSound(runs[r])
    /\ DOMAIN engines \subseteq DOMAIN runs
    /\ engines = [r \in DOMAIN engines |->
                    [e \in DOMAIN runs[r].episodes |-> Calls(runs[r].episodes[e].steps)]]

\* The archive has finished runs, of finitely many ids, and the seeds' descriptors they were ranked
\* with.
ArchiveSound ==
    runArchive # None =>
        /\ \E n \in Nat : Archived(runArchive) \subseteq 1 .. n
        /\ \A i \in DOMAIN runArchive.runs :
              LET run == runArchive.runs[i].run IN
              /\ RunSound(run) /\ Concluded(run)
              /\ RankersOf(run) \cap ScriptedRankers \subseteq runArchive.rankers

\* What a search's client may hold: a run of units, or what its cancellation left of one.
Reachable(session) ==
    \E plan \in Plans, n \in Nat : session \in {Run(plan, n), Cancelled(Run(plan, n))}

SearchesSound ==
    /\ searches = [plan \in DOMAIN searches |-> searches[plan]]
    /\ \A session \in Sessions : Reachable(session)

HarnessInv == RunsSound /\ ArchiveSound /\ SearchesSound

\* How a retained run may change.
RunGrows(old, new) ==
    /\ new.policy = old.policy /\ DOMAIN new.episodes = DOMAIN old.episodes
    /\ \A e \in DOMAIN old.episodes :
          /\ IsPrefix(old.episodes[e].steps, new.episodes[e].steps)
          /\ old.episodes[e].result # None => new.episodes[e] = old.episodes[e]

RunsGrow == \A r \in DOMAIN runs \intersect DOMAIN runs' : RunGrows(runs[r], runs'[r])

\* A transcript begins with itself.
LEMMA PrefixOfItself == ASSUME NEW episode, EpisodeSound(episode)
                        PROVE  IsPrefix(episode.steps, episode.steps)
<1>1. PICK T : episode.steps \in Seq(T)
  BY DEF EpisodeSound, Answered
<1> QED
  BY <1>1 DEF IsPrefix

LEMMA RunGrowsItself == ASSUME NEW run, RunSound(run) PROVE RunGrows(run, run)
  BY PrefixOfItself DEF RunSound, RunGrows

\* The hash follows the episodes.
LEMMA HashedRun ==
    ASSUME NEW run, run = [f \in RunFields |-> run[f]],
           run.episodes = [e \in DOMAIN run.episodes |-> run.episodes[e]],
           \A e \in DOMAIN run.episodes : EpisodeSound(run.episodes[e])
    PROVE  /\ RunSound(RunHashed(run))
           /\ RunHashed(run).episodes = run.episodes /\ RunHashed(run).policy = run.policy
<1> DEFINE hash == IF Concluded(run) THEN RunContent(run) ELSE None
           after == RunHashed(run)
<1>1. after = [run EXCEPT !.hash = hash]
  BY DEF RunHashed
<1>2. Concluded(run) => hash = RunContent(run)
  OBVIOUS
<1> HIDE DEF hash, after
<1>3. /\ after = [f \in RunFields |-> after[f]] /\ after.policy = run.policy
      /\ after.episodes = run.episodes /\ after.hash = hash
  BY <1>1 DEF RunFields
<1>4. Concluded(after) => after.hash = RunContent(after)
  BY <1>2, <1>3 DEF Concluded, RunContent
<1> QED
  BY <1>3, <1>4 DEF RunSound, after

\* One more run, of the next id.
LEMMA PublishKeeps ==
    ASSUME RunsSound, NEW policy, NEW episodes, NEW calls,
           episodes = [e \in DOMAIN episodes |-> episodes[e]],
           \A e \in DOMAIN episodes : EpisodeSound(episodes[e]),
           calls = [e \in DOMAIN episodes |-> Calls(episodes[e].steps)],
           Publish(policy, episodes, calls)
    PROVE  RunsSound' /\ RunsGrow
<1> DEFINE run == [policy |-> policy, episodes |-> episodes, cancelled |-> FALSE, hash |-> None]
           id == nextRun + 1
           new == RunHashed(run)
<1>1. run = [f \in RunFields |-> run[f]] /\ run.episodes = episodes
  BY DEF RunFields
<1>2. nextRun' = id /\ runs' = With(runs, id, new) /\ engines' = With(engines, id, calls)
  BY DEF Publish
<1> HIDE DEF run
<1>3. RunSound(new) /\ new.episodes = episodes
  BY <1>1, HashedRun
<1> HIDE DEF new
<1>4. id \in Nat /\ id \notin DOMAIN runs /\ id \notin DOMAIN engines
  BY DEF RunsSound
<1>5. /\ DOMAIN runs' = DOMAIN runs \cup {id} /\ runs'[id] = new
      /\ \A r \in DOMAIN runs : runs'[r] = runs[r]
      /\ runs' = [r \in DOMAIN runs' |-> runs'[r]]
  BY <1>2, <1>4 DEF With
<1>6. /\ DOMAIN engines' = DOMAIN engines \cup {id} /\ engines'[id] = calls
      /\ \A r \in DOMAIN engines : engines'[r] = engines[r]
      /\ engines' = [r \in DOMAIN engines' |-> engines'[r]]
  BY <1>2, <1>4 DEF With
<1>7. DOMAIN runs' \subseteq 1 .. nextRun'
  BY <1>2, <1>4, <1>5 DEF RunsSound
<1>8. \A r \in DOMAIN runs' : RunSound(runs'[r])
  BY <1>3, <1>5 DEF RunsSound
<1>9. \A r \in DOMAIN engines' :
         engines'[r] = [e \in DOMAIN runs'[r].episodes |-> Calls(runs'[r].episodes[e].steps)]
  <2>1. SUFFICES ASSUME NEW r \in DOMAIN engines'
                 PROVE  engines'[r] = [e \in DOMAIN runs'[r].episodes |-> Calls(runs'[r].episodes[e].steps)]
    OBVIOUS
  <2>2. CASE r = id
    BY <1>3, <1>5, <1>6, <2>2
  <2>3. CASE r \in DOMAIN engines
    <3>1. r \in DOMAIN runs /\ runs'[r] = runs[r] /\ engines'[r] = engines[r]
      BY <1>5, <1>6, <2>3 DEF RunsSound
    <3>2. engines[r] = [e \in DOMAIN runs[r].episodes |-> Calls(runs[r].episodes[e].steps)]
      BY <2>3 DEF RunsSound
    <3> QED
      BY <3>1, <3>2
  <2> QED
    BY <1>6, <2>2, <2>3
<1>10. DOMAIN engines' \subseteq DOMAIN runs'
  BY <1>5, <1>6 DEF RunsSound
<1>11. RunsGrow
  BY <1>5, RunGrowsItself DEF RunsGrow, RunsSound
<1>12. nextRun' \in Nat
  BY <1>2, <1>4
<1>13. engines' = [r \in DOMAIN engines' |->
          [e \in DOMAIN runs'[r].episodes |-> Calls(runs'[r].episodes[e].steps)]]
  BY <1>6, <1>9
<1> HIDE DEF id
<1> QED
  BY <1>5, <1>7, <1>8, <1>10, <1>11, <1>12, <1>13 DEF RunsSound

\* A run of external policies starts with fresh episodes.
LEMMA StartRunKeeps == ASSUME RunsSound, StartRun PROVE RunsSound' /\ RunsGrow
<1>1. PICK policy \in Policies, tasks \in TaskLists :
         Publish(policy, [e \in DOMAIN tasks |-> FreshEpisode(tasks[e])], [e \in DOMAIN tasks |-> <<>>])
  BY DEF StartRun
<1> DEFINE episodes == [e \in DOMAIN tasks |-> FreshEpisode(tasks[e])]
           calls == [e \in DOMAIN tasks |-> <<>>]
<1>2. /\ episodes = [e \in DOMAIN episodes |-> episodes[e]]
      /\ \A e \in DOMAIN episodes : EpisodeSound(episodes[e]) /\ Calls(episodes[e].steps) = <<>>
      /\ DOMAIN episodes = DOMAIN tasks
  BY FreshSound
<1> HIDE DEF episodes
<1>3. calls = [e \in DOMAIN episodes |-> Calls(episodes[e].steps)]
  BY <1>2
<1> HIDE DEF calls
<1>4. Publish(policy, episodes, calls)
  BY <1>1 DEF episodes, calls
<1> QED
  BY <1>2, <1>3, <1>4, PublishKeeps

\* The script's fold over a task's requests.
PlayOp(script, episode, request) ==
    LET decision == ScriptDecision(script, episode) IN
    IF episode.result = None /\ CanSubmit(script.policy, episode, decision)
    THEN Submitted(script.policy, episode, Calls(episode.steps), decision)
    ELSE episode

PlayHolds(about, n, episode) == EpisodeSound(episode)

Playing == INSTANCE FoldFacts WITH Op <- PlayOp, Holds <- PlayHolds

LEMMA PlayedSound == ASSUME NEW script, NEW task \in DOMAIN Tasks PROVE EpisodeSound(Played(script, task))
<1> DEFINE seq == Tasks[task].requests
           base == FreshEpisode(task)
<1>1. seq \in Seq(ToSet(seq))
  BY TasksAssumption
<1>2. Len(seq) \in Nat /\ DOMAIN seq = 1 .. Len(seq)
  BY <1>1
<1>3. Played(script, task) = Playing!Fold(script, base, seq)
  BY DEF Played, PlayOp, Playing!Fold, Playing!FoldLeft, FoldLeft, Playing!MapThenFoldSet,
     MapThenFoldSet, Playing!Max, Max
<1>4. Playing!Kept(0, script, base, seq, Len(seq))
  <2>1. PlayHolds(0, 0, base)
    BY FreshSound DEF PlayHolds
  <2>2. ASSUME NEW i \in 1 .. Len(seq), NEW r, PlayHolds(0, i - 1, r)
        PROVE  PlayHolds(0, i, PlayOp(script, r, seq[i]))
    <3> DEFINE decision == ScriptDecision(script, r)
    <3>1. EpisodeSound(r)
      BY <2>2 DEF PlayHolds
    <3>2. CASE r.result = None /\ CanSubmit(script.policy, r, decision)
      <4>1. r.status \in Active
        BY <3>2 DEF CanSubmit, CanObserve
      <4>2. EpisodeSound(Submitted(script.policy, r, Calls(r.steps), decision))
        BY <3>1, <4>1, SubmittedSound
      <4> QED
        BY <3>2, <4>2 DEF PlayOp, PlayHolds
    <3>3. CASE ~(r.result = None /\ CanSubmit(script.policy, r, decision))
      BY <3>1, <3>3 DEF PlayOp, PlayHolds
    <3> QED
      BY <3>2, <3>3
  <2> QED
    BY <2>1, <2>2 DEF Playing!Kept
<1> HIDE DEF seq, base
<1>5. PlayHolds(0, Len(seq), Playing!Fold(script, base, seq))
  BY <1>2, <1>4, Playing!FoldKeeps
<1> QED
  BY <1>3, <1>5 DEF PlayHolds

\* A run of a script.
LEMMA RunScriptedKeeps == ASSUME RunsSound, RunScripted PROVE RunsSound' /\ RunsGrow
<1> DEFINE episodesOf(script, tasks) ==
               [e \in DOMAIN tasks |->
                    IF \A f \in 1..(e - 1) : Played(script, tasks[f]).result # None
                    THEN Played(script, tasks[e]) ELSE FreshEpisode(tasks[e])]
<1>1. PICK script \in Scripts, tasks \in ScriptLists :
         Publish(script.policy, episodesOf(script, tasks),
                 [e \in DOMAIN tasks |-> Calls(episodesOf(script, tasks)[e].steps)])
  BY DEF RunScripted
<1> DEFINE episodes == episodesOf(script, tasks)
           calls == [e \in DOMAIN tasks |-> Calls(episodes[e].steps)]
<1>2. \A e \in DOMAIN tasks : tasks[e] \in DOMAIN Tasks
  BY EvaluationBounds
<1>3. episodes = [e \in DOMAIN episodes |-> episodes[e]] /\ DOMAIN episodes = DOMAIN tasks
  OBVIOUS
<1>4. \A e \in DOMAIN episodes : EpisodeSound(episodes[e])
  BY <1>2, FreshSound, PlayedSound
<1>5. Publish(script.policy, episodes, calls)
  BY <1>1
<1> HIDE DEF episodes
<1>6. calls = [e \in DOMAIN episodes |-> Calls(episodes[e].steps)]
  BY <1>3
<1> HIDE DEF calls
<1> QED
  BY <1>3, <1>4, <1>5, <1>6, PublishKeeps

\* An episode is decided: one step more of it, and nothing else.
LEMMA DecideKeeps ==
    ASSUME RunsSound, NEW r \in DOMAIN engines, NEW e \in DOMAIN runs[r].episodes, NEW after,
           NEW decision, Decide(r, e, decision, after), EpisodeSound(after),
           StepMade(runs[r].episodes[e], after)
    PROVE  RunsSound' /\ RunsGrow
<1> DEFINE run == runs[r]
           old == run.episodes[e]
           moved == [run EXCEPT !.episodes = [run.episodes EXCEPT ![e] = after]]
           new == RunHashed(moved)
           call == Resolved(Last(after.steps))
<1>1. r \in DOMAIN runs /\ RunSound(run)
  BY DEF RunsSound
<1>2. /\ old.status \in Active /\ runs' = [runs EXCEPT ![r] = new] /\ nextRun' = nextRun
      /\ engines' = [engines EXCEPT ![r] = [engines[r] EXCEPT ![e] = Append(engines[r][e], call)]]
  BY DEF Decide, CanSubmit, CanObserve
<1>3. EpisodeSound(old) /\ old.result = None
  BY <1>1, <1>2 DEF RunSound, EpisodeSound
<1> DEFINE episodes == [run.episodes EXCEPT ![e] = after]
<1>4. /\ DOMAIN episodes = DOMAIN run.episodes /\ episodes[e] = after
      /\ \A f \in DOMAIN episodes : f # e => episodes[f] = run.episodes[f]
      /\ episodes = [f \in DOMAIN episodes |-> episodes[f]]
  BY <1>1 DEF RunSound
<1>5. \A f \in DOMAIN episodes : EpisodeSound(episodes[f])
  BY <1>1, <1>4 DEF RunSound
<1>6. run = [f \in RunFields |-> run[f]]
  BY <1>1 DEF RunSound
<1> HIDE DEF episodes, run
<1>7. moved = [f \in RunFields |-> moved[f]] /\ moved.episodes = episodes /\ moved.policy = run.policy
  BY <1>6 DEF RunFields, episodes
<1> HIDE DEF moved
<1>8. RunSound(new) /\ new.episodes = episodes /\ new.policy = run.policy
  BY <1>4, <1>5, <1>7, HashedRun
<1> HIDE DEF new
<1>9. /\ DOMAIN runs' = DOMAIN runs /\ runs'[r] = new
      /\ \A q \in DOMAIN runs : q # r => runs'[q] = runs[q]
      /\ runs' = [q \in DOMAIN runs' |-> runs'[q]]
  BY <1>1, <1>2 DEF RunsSound
<1> DEFINE calls == [engines[r] EXCEPT ![e] = Append(engines[r][e], call)]
<1>10. /\ DOMAIN engines' = DOMAIN engines /\ engines'[r] = calls
       /\ \A q \in DOMAIN engines : q # r => engines'[q] = engines[q]
       /\ engines' = [q \in DOMAIN engines' |-> engines'[q]]
  BY <1>2 DEF RunsSound
<1>11. engines[r] = [f \in DOMAIN run.episodes |-> Calls(run.episodes[f].steps)]
  BY DEF RunsSound, run
<1>12. e \in DOMAIN run.episodes /\ old = run.episodes[e]
  BY DEF run
<1>13. calls = [f \in DOMAIN episodes |-> Calls(episodes[f].steps)]
  <2>1. Append(engines[r][e], call) = Calls(after.steps)
    <3>1. engines[r][e] = Calls(run.episodes[e].steps)
      BY <1>11, <1>12
    <3>2. Calls(after.steps) = Append(Calls(runs[r].episodes[e].steps), call)
      BY DEF StepMade
    <3> QED
      BY <3>1, <3>2 DEF run
  <2> HIDE DEF call
  <2>2. calls = [engines[r] EXCEPT ![e] = Calls(after.steps)]
    BY <2>1
  <2> HIDE DEF calls
  <2>3. DOMAIN calls = DOMAIN episodes /\ calls = [f \in DOMAIN calls |-> calls[f]]
    BY <1>4, <1>11, <2>2
  <2>4. \A f \in DOMAIN episodes : calls[f] = Calls(episodes[f].steps)
    BY <1>4, <1>11, <1>12, <2>2
  <2> QED
    BY <2>3, <2>4
<1> HIDE DEF calls, call
<1>14. \A q \in DOMAIN engines' :
         engines'[q] = [f \in DOMAIN runs'[q].episodes |-> Calls(runs'[q].episodes[f].steps)]
  <2>1. SUFFICES ASSUME NEW q \in DOMAIN engines'
                 PROVE  engines'[q] = [f \in DOMAIN runs'[q].episodes |-> Calls(runs'[q].episodes[f].steps)]
    OBVIOUS
  <2>2. CASE q = r
    BY <1>8, <1>9, <1>10, <1>13, <2>2
  <2>3. CASE q # r
    <3>1. q \in DOMAIN engines /\ q \in DOMAIN runs /\ runs'[q] = runs[q] /\ engines'[q] = engines[q]
      BY <1>9, <1>10, <2>3 DEF RunsSound
    <3>2. engines[q] = [f \in DOMAIN runs[q].episodes |-> Calls(runs[q].episodes[f].steps)]
      BY <3>1 DEF RunsSound
    <3> QED
      BY <3>1, <3>2
  <2> QED
    BY <2>2, <2>3
<1>15. engines' = [q \in DOMAIN engines' |->
          [f \in DOMAIN runs'[q].episodes |-> Calls(runs'[q].episodes[f].steps)]]
  BY <1>10, <1>14
<1>16. \A q \in DOMAIN runs' : RunSound(runs'[q])
  BY <1>8, <1>9 DEF RunsSound
<1>17. RunGrows(run, new)
  <2>1. ASSUME NEW f \in DOMAIN run.episodes
        PROVE  /\ IsPrefix(run.episodes[f].steps, episodes[f].steps)
               /\ run.episodes[f].result # None => episodes[f] = run.episodes[f]
    <3>1. CASE f = e
      <4>1. IsPrefix(run.episodes[e].steps, after.steps)
        BY DEF StepMade, run
      <4> QED
        BY <1>3, <1>4, <1>12, <3>1, <4>1
    <3>2. CASE f # e
      <4>1. episodes[f] = run.episodes[f]
        BY <1>4, <2>1, <3>2
      <4>2. EpisodeSound(run.episodes[f])
        BY <1>1, <2>1 DEF RunSound
      <4> QED
        BY <4>1, <4>2, PrefixOfItself
    <3> QED
      BY <3>1, <3>2
  <2> QED
    BY <1>4, <1>8, <2>1 DEF RunGrows
<1>18. RunsGrow
  <2>1. \A q \in DOMAIN runs : RunGrows(runs[q], runs[q])
    BY RunGrowsItself DEF RunsSound
  <2> QED
    BY <1>9, <1>17, <2>1 DEF RunsGrow, run
<1> QED
  BY <1>2, <1>9, <1>10, <1>15, <1>16, <1>18 DEF RunsSound

\* The engine executes a decision.
LEMMA SubmitKeeps == ASSUME RunsSound, Submit PROVE RunsSound' /\ RunsGrow
<1>1. PICK r \in DOMAIN engines : \E e \in Observable(r) :
         \E decision : Decide(r, e, decision, Submitted(runs[r].policy, runs[r].episodes[e],
                                                        engines[r][e], decision))
  BY DEF Submit
<1>2. PICK e \in Observable(r) : \E decision :
         Decide(r, e, decision, Submitted(runs[r].policy, runs[r].episodes[e], engines[r][e], decision))
  BY <1>1
<1>3. PICK decision :
         Decide(r, e, decision, Submitted(runs[r].policy, runs[r].episodes[e], engines[r][e], decision))
  BY <1>2
<1>4. /\ r \in DOMAIN runs /\ e \in DOMAIN runs[r].episodes /\ runs[r].episodes[e].status \in Active
  BY DEF RunsSound, Observable, CanObserve
<1>5. EpisodeSound(runs[r].episodes[e])
  BY <1>4 DEF RunsSound, RunSound
<1>6. engines[r][e] = Calls(runs[r].episodes[e].steps)
  BY <1>4 DEF RunsSound
<1> QED
  BY <1>3, <1>4, <1>5, <1>6, SubmittedSound, DecideKeeps

\* The engine executes a ranked decision.
LEMMA RankKeeps == ASSUME RunsSound, Rank PROVE RunsSound' /\ RunsGrow
<1>1. PICK r \in DOMAIN engines : \E e \in Observable(r) :
         \E decision : Decide(r, e, decision, Ranked(runs[r].policy, runs[r].episodes[e],
                                                     engines[r][e], decision))
  BY DEF Rank
<1>2. PICK e \in Observable(r) : \E decision :
         Decide(r, e, decision, Ranked(runs[r].policy, runs[r].episodes[e], engines[r][e], decision))
  BY <1>1
<1>3. PICK decision :
         Decide(r, e, decision, Ranked(runs[r].policy, runs[r].episodes[e], engines[r][e], decision))
  BY <1>2
<1>4. /\ r \in DOMAIN runs /\ e \in DOMAIN runs[r].episodes /\ runs[r].episodes[e].status \in Active
  BY DEF RunsSound, Observable, CanObserve
<1>5. EpisodeSound(runs[r].episodes[e])
  BY <1>4 DEF RunsSound, RunSound
<1>6. engines[r][e] = Calls(runs[r].episodes[e].steps)
  BY <1>4 DEF RunsSound
<1> QED
  BY <1>3, <1>4, <1>5, <1>6, RankedSound, DecideKeeps

\* Cancelling ends the episodes that have no result, and moves none of their steps.
LEMMA CancelRunKeeps == ASSUME RunsSound, CancelRun PROVE RunsSound' /\ RunsGrow
<1>1. PICK r \in DOMAIN runs : /\ runs' = [runs EXCEPT ![r] = RunCancelled(runs[r])]
                               /\ engines' = engines /\ nextRun' = nextRun
  BY DEF CancelRun
<1> DEFINE run == runs[r]
           episodes == [e \in DOMAIN run.episodes |-> EpisodeCancelled(run.episodes[e])]
           new == RunCancelled(run)
<1>2. RunSound(run)
  BY DEF RunsSound
<1>3. /\ episodes = [e \in DOMAIN episodes |-> episodes[e]] /\ DOMAIN episodes = DOMAIN run.episodes
      /\ \A e \in DOMAIN run.episodes : episodes[e] = EpisodeCancelled(run.episodes[e])
  OBVIOUS
<1>4. runs' = [runs EXCEPT ![r] = new] /\ new = [run EXCEPT !.cancelled = TRUE, !.episodes = episodes]
  BY <1>1 DEF RunCancelled
<1> HIDE DEF episodes, new, run
<1>5. \A e \in DOMAIN episodes : /\ EpisodeSound(episodes[e])
                                 /\ episodes[e].steps = run.episodes[e].steps
                                 /\ episodes[e].result = run.episodes[e].result
                                 /\ run.episodes[e].result # None => episodes[e] = run.episodes[e]
  <2>1. SUFFICES ASSUME NEW e \in DOMAIN episodes
                 PROVE  /\ EpisodeSound(episodes[e])
                        /\ episodes[e].steps = run.episodes[e].steps
                        /\ episodes[e].result = run.episodes[e].result
                        /\ run.episodes[e].result # None => episodes[e] = run.episodes[e]
    OBVIOUS
  <2> DEFINE old == run.episodes[e]
             after == episodes[e]
  <2>2. EpisodeSound(old) /\ after = IF old.result = None THEN [old EXCEPT !.status = "cancelled"] ELSE old
    BY <1>2, <1>3 DEF RunSound, EpisodeCancelled
  <2> HIDE DEF old, after
  <2>3. CASE old.result = None
    <3>1. old = [f \in EpisodeFields |-> old[f]] /\ Answered(old.steps)
      BY <2>2 DEF EpisodeSound
    <3>2. after = [f \in EpisodeFields |-> after[f]] /\ after.steps = old.steps /\ after.result = old.result
      BY <2>2, <2>3, <3>1 DEF EpisodeFields
    <3> QED
      BY <2>3, <3>1, <3>2 DEF EpisodeSound, old, after
  <2>4. CASE old.result # None
    BY <2>2, <2>4 DEF old, after
  <2> QED
    BY <2>3, <2>4
<1>6. /\ new = [f \in RunFields |-> new[f]] /\ new.episodes = episodes /\ new.policy = run.policy
      /\ new.hash = run.hash
  BY <1>2, <1>4 DEF RunSound, RunFields
<1>7. Concluded(new) => episodes = run.episodes /\ Concluded(run)
  <2>1. SUFFICES ASSUME Concluded(new) PROVE episodes = run.episodes /\ Concluded(run)
    OBVIOUS
  <2>2. \A e \in DOMAIN run.episodes : episodes[e] = run.episodes[e] /\ run.episodes[e].result # None
    BY <1>3, <1>5, <1>6, <2>1 DEF Concluded
  <2> QED
    BY <1>2, <1>3, <2>2 DEF Concluded, RunSound
<1>8. RunSound(new)
  <2>1. Concluded(new) => new.hash = RunContent(new)
    BY <1>2, <1>6, <1>7 DEF RunContent, RunSound
  <2> QED
    BY <1>3, <1>5, <1>6, <2>1 DEF RunSound
<1>9. /\ DOMAIN runs' = DOMAIN runs /\ runs'[r] = new
      /\ \A q \in DOMAIN runs : q # r => runs'[q] = runs[q]
      /\ runs' = [q \in DOMAIN runs' |-> runs'[q]]
  BY <1>4 DEF RunsSound
<1>10. [e \in DOMAIN new.episodes |-> Calls(new.episodes[e].steps)]
         = [e \in DOMAIN run.episodes |-> Calls(run.episodes[e].steps)]
  BY <1>3, <1>5, <1>6
<1>11. \A q \in DOMAIN engines :
         [e \in DOMAIN runs'[q].episodes |-> Calls(runs'[q].episodes[e].steps)]
           = [e \in DOMAIN runs[q].episodes |-> Calls(runs[q].episodes[e].steps)]
  <2>1. \A q \in DOMAIN engines : q \in DOMAIN runs
    BY DEF RunsSound
  <2> QED
    BY <1>9, <1>10, <2>1 DEF run
<1>12. engines' = [q \in DOMAIN engines' |->
          [e \in DOMAIN runs'[q].episodes |-> Calls(runs'[q].episodes[e].steps)]]
  BY <1>1, <1>11 DEF RunsSound
<1>13. \A q \in DOMAIN runs' : RunSound(runs'[q])
  BY <1>8, <1>9 DEF RunsSound
<1>14. RunGrows(run, new)
  <2>1. ASSUME NEW e \in DOMAIN run.episodes
        PROVE  IsPrefix(run.episodes[e].steps, episodes[e].steps)
    BY <1>2, <1>3, <1>5, PrefixOfItself DEF RunSound
  <2> QED
    BY <1>3, <1>5, <1>6, <2>1 DEF RunGrows
<1>15. RunsGrow
  <2>1. \A q \in DOMAIN runs : RunGrows(runs[q], runs[q])
    BY RunGrowsItself DEF RunsSound
  <2> QED
    BY <1>9, <1>14, <2>1 DEF RunsGrow, run
<1> QED
  BY <1>1, <1>9, <1>12, <1>13, <1>15 DEF RunsSound

\* Nothing happens to the runs.
LEMMA SameRuns == ASSUME RunsSound, UNCHANGED runVars PROVE RunsSound' /\ RunsGrow
<1>1. runs' = runs /\ engines' = engines /\ nextRun' = nextRun
  BY DEF runVars
<1>2. RunsSound'
  BY <1>1 DEF RunsSound
<1>3. RunsGrow
  BY <1>1, RunGrowsItself DEF RunsGrow, RunsSound
<1> QED
  BY <1>2, <1>3

\* Max is the greatest of bounded numbers.
LEMMA GreatestIs ==
    ASSUME NEW n \in Nat, NEW S, S \subseteq 0 .. n, S # {}
    PROVE  Max(S) \in S /\ \A m \in S : m <= Max(S)
<1> DEFINE T == {n - m : m \in S}
<1>1. T \subseteq Nat /\ T # {}
  <2>1. \A m \in S : m \in 0 .. n /\ n - m \in Nat
    OBVIOUS
  <2>2. PICK m \in S : TRUE
    OBVIOUS
  <2>3. n - m \in T
    OBVIOUS
  <2> QED
    BY <2>1, <2>3
<1> HIDE DEF T
<1>2. PICK t \in T : \A u \in T : t <= u
  BY <1>1, LeastIs
<1>3. PICK m \in S : t = n - m
  BY <1>2 DEF T
<1>4. \A k \in S : m >= k
  <2>1. SUFFICES ASSUME NEW k \in S PROVE m >= k
    OBVIOUS
  <2>2. n - k \in T
    BY DEF T
  <2> QED
    BY <1>2, <1>3, <2>2
<1>5. \A k \in S : k <= Max(S) /\ Max(S) \in S
  BY <1>4 DEF Max
<1> QED
  BY <1>5

\* Imported runs are as they were archived, and the retained ones stay (import_archive).
LEMMA ImportRunsKeeps == ASSUME RunsSound, ArchiveSound, ImportRuns PROVE RunsSound' /\ RunsGrow
<1> DEFINE saved == Archived(runArchive)
           content == RunsIn(runArchive)
           ids == DOMAIN runs \cup saved
<1>1. /\ runArchive # None /\ saved \cap DOMAIN runs = {} /\ engines' = engines
      /\ runs' = Merged(runs, content) /\ nextRun' = Max(DOMAIN runs' \cup {nextRun})
      /\ DOMAIN content = saved /\ \A r \in saved : RunSound(content[r])
  <2>1. ASSUME NEW r \in saved PROVE RunSound(content[r])
    <3> DEFINE i == CHOOSE j \in DOMAIN runArchive.runs : runArchive.runs[j].id = r
    <3>1. i \in DOMAIN runArchive.runs
      BY <2>1 DEF Archived
    <3>2. content[r] = runArchive.runs[i].run
      BY <2>1 DEF RunsIn
    <3> QED
      BY <3>1, <3>2 DEF ImportRuns, CanImport, ArchiveSound
  <2> QED
    BY <2>1 DEF ImportRuns, CanImport, RunsIn
<1>2. PICK n \in Nat : saved \subseteq 1 .. n
  BY <1>1 DEF ArchiveSound
<1>3. /\ DOMAIN runs' = ids /\ runs' = [r \in DOMAIN runs' |-> runs'[r]]
      /\ \A r \in DOMAIN runs : runs'[r] = runs[r]
      /\ \A r \in saved : runs'[r] = content[r]
  BY <1>1 DEF Merged
<1>4. nextRun \in Nat /\ DOMAIN runs \subseteq 1 .. nextRun
  BY DEF RunsSound
<1> HIDE DEF saved, content
<1>5. n + nextRun \in Nat /\ ids \cup {nextRun} \subseteq 0 .. n + nextRun /\ ids \subseteq Nat \ {0}
  <2>1. \A m \in ids : m \in 1 .. n \/ m \in 1 .. nextRun
    BY <1>2, <1>4
  <2>2. n + nextRun \in Nat /\ nextRun \in 0 .. n + nextRun
    BY <1>4
  <2>3. \A m \in ids : m \in 0 .. n + nextRun /\ m \in Nat \ {0}
    BY <1>4, <2>1
  <2> HIDE DEF ids
  <2> QED
    BY <2>2, <2>3
<1> HIDE DEF ids
<1>6. nextRun' \in ids \cup {nextRun} /\ \A m \in ids \cup {nextRun} : m <= nextRun'
  BY <1>1, <1>3, <1>5, GreatestIs
<1>7. nextRun' \in Nat /\ DOMAIN runs' \subseteq 1 .. nextRun'
  BY <1>3, <1>4, <1>5, <1>6
<1>8. \A r \in DOMAIN runs' : RunSound(runs'[r])
  BY <1>1, <1>3 DEF ids, RunsSound
<1>9. \A r \in DOMAIN engines' : r \in DOMAIN runs /\ r \in DOMAIN runs' /\ runs'[r] = runs[r]
  BY <1>1, <1>3 DEF ids, RunsSound
<1>10. engines' = [r \in DOMAIN engines' |->
          [e \in DOMAIN runs'[r].episodes |-> Calls(runs'[r].episodes[e].steps)]]
  BY <1>1, <1>9 DEF RunsSound
<1>11. RunsGrow
  BY <1>3, RunGrowsItself DEF RunsGrow, RunsSound
<1>12. DOMAIN engines' \subseteq DOMAIN runs'
  BY <1>9
<1> QED
  BY <1>3, <1>7, <1>8, <1>10, <1>11, <1>12 DEF RunsSound

\* The archive keeps finished runs as they are (save_archive).
LEMMA ArchiveRunsKeeps == ASSUME RunsSound, ArchiveRuns PROVE ArchiveSound'
<1> DEFINE kept(n, ids) == {k \in ScriptedRankers \cup registered :
                              \E i \in 1 .. n : k \in RankersOf(runs[ids[i]])}
           list(n, ids) == [i \in 1 .. n |-> [id |-> ids[i], run |-> runs[ids[i]]]]
<1>1. PICK n \in 0 .. MaxListed : \E ids \in [1 .. n -> DOMAIN runs] :
         /\ \A i \in 1 .. n : Concluded(runs[ids[i]])
         /\ runArchive' = [runs |-> list(n, ids), rankers |-> kept(n, ids)]
  BY DEF ArchiveRuns
<1>2. PICK ids \in [1 .. n -> DOMAIN runs] :
         /\ \A i \in 1 .. n : Concluded(runs[ids[i]])
         /\ runArchive' = [runs |-> list(n, ids), rankers |-> kept(n, ids)]
  BY <1>1
<1>3. /\ runArchive'.rankers = kept(n, ids) /\ DOMAIN runArchive'.runs = 1 .. n
      /\ \A i \in 1 .. n : /\ runArchive'.runs[i].id = ids[i] /\ ids[i] \in DOMAIN runs
                           /\ runArchive'.runs[i].run = runs[ids[i]]
  BY <1>2
<1> HIDE DEF list
<1>4. ASSUME NEW i \in 1 .. n
      PROVE  /\ RunSound(runs[ids[i]]) /\ Concluded(runs[ids[i]])
             /\ RankersOf(runs[ids[i]]) \cap ScriptedRankers \subseteq kept(n, ids)
  BY <1>2, <1>3 DEF RunsSound
<1> HIDE DEF kept
<1>5. nextRun \in Nat /\ Archived(runArchive') \subseteq 1 .. nextRun
  BY <1>3 DEF RunsSound, Archived
<1>6. ASSUME NEW i \in DOMAIN runArchive'.runs
      PROVE  LET run == runArchive'.runs[i].run IN
             /\ RunSound(run) /\ Concluded(run)
             /\ RankersOf(run) \cap ScriptedRankers \subseteq runArchive'.rankers
  <2>1. i \in 1 .. n /\ runArchive'.runs[i].run = runs[ids[i]] /\ runArchive'.rankers = kept(n, ids)
    BY <1>3
  <2> QED
    BY <1>4, <2>1
<1> QED
  BY <1>5, <1>6 DEF ArchiveSound, Archived

\* The process begins again without runs and searches.
LEMMA RestartHarnessKeeps == ASSUME RestartHarness PROVE RunsSound' /\ RunsGrow
<1>1. runs' = Nothing /\ engines' = Nothing /\ nextRun' = 0
  BY DEF RestartHarness
<1>2. DOMAIN Nothing = {} /\ Nothing = [i \in {} |-> None]
  BY DEF Nothing
<1>3. /\ DOMAIN runs' = {} /\ DOMAIN engines' = {} /\ nextRun' \in Nat
      /\ runs' = [r \in DOMAIN runs' |-> runs'[r]]
  BY <1>1, <1>2
<1>4. engines' = [r \in DOMAIN engines' |->
          [e \in DOMAIN runs'[r].episodes |-> Calls(runs'[r].episodes[e].steps)]]
  BY <1>1, <1>2
<1>5. RunsGrow
  BY <1>3 DEF RunsGrow
<1> QED
  BY <1>3, <1>4, <1>5 DEF RunsSound

-----------------------------------------------------------------------------
\* Searches.

LEMMA PlanChildren == \A plan \in Plans : plan.children \in Nat
  BY EvaluationBounds

\* A search and its cancellation are reachable, and so is whatever further units or another
\* cancellation make of them.
LEMMA ReachedFurther ==
    ASSUME NEW session, Reachable(session), NEW m \in Nat
    PROVE  Reachable(Advanced(session, m)) /\ Reachable(Cancelled(session))
<1>1. PICK plan \in Plans, n \in Nat : session \in {Run(plan, n), Cancelled(Run(plan, n))}
  BY DEF Reachable
<1>2. plan.children \in Nat
  BY PlanChildren
<1>3. CASE session = Run(plan, n)
  <2>1. Advanced(session, m) = Run(plan, n + m) /\ n + m \in Nat
    BY <1>3, AdvancedTwice DEF Run
  <2> QED
    BY <1>3, <2>1 DEF Reachable
<1>4. CASE session = Cancelled(Run(plan, n))
  <2>1. Stopped(session) /\ Cancelled(session) = session
    BY <1>2, <1>4, CancelledRun
  <2>2. Advanced(session, m) = session
    BY <2>1, StoppedStays
  <2> QED
    BY <2>1, <2>2
<1> QED
  BY <1>1, <1>3, <1>4

\* A session more, or another in its place.
LEMMA SessionPut ==
    ASSUME SearchesSound, NEW plan, NEW session, Reachable(session),
           searches' = With(searches, plan, session), held' = held
    PROVE  SearchesSound'
<1>1. /\ DOMAIN searches' = DOMAIN searches \cup {plan}
      /\ \A p \in DOMAIN searches' : searches'[p] = IF p = plan THEN session ELSE searches[p]
      /\ searches' = [p \in DOMAIN searches' |-> searches'[p]]
  BY DEF With
<1>2. \A s \in Sessions' : s = session \/ s \in Sessions
  BY <1>1 DEF Sessions
<1> QED
  BY <1>1, <1>2 DEF SearchesSound

LEMMA SearchStartKeeps == ASSUME SearchesSound, SearchStart PROVE SearchesSound'
<1>1. PICK plan \in Plans : searches' = With(searches, plan, StartSearch(plan)) /\ held' = held
  BY DEF SearchStart
<1>2. StartSearch(plan) = Run(plan, 0)
  BY AdvancedNone DEF Run
<1>3. Reachable(StartSearch(plan))
  BY <1>2 DEF Reachable
<1> QED
  BY <1>1, <1>3, SessionPut

LEMMA SearchAdvanceKeeps == ASSUME SearchesSound, SearchAdvance PROVE SearchesSound'
<1>1. PICK plan \in DOMAIN searches, units \in Units :
         searches' = [searches EXCEPT ![plan] = Advanced(searches[plan], units)] /\ held' = held
  BY DEF SearchAdvance
<1>2. units \in Nat /\ Reachable(searches[plan])
  BY SearchAssumption DEF SearchesSound, Sessions
<1>3. Reachable(Advanced(searches[plan], units))
  BY <1>2, ReachedFurther
<1>4. searches' = With(searches, plan, Advanced(searches[plan], units))
  BY <1>1 DEF SearchesSound, With
<1> QED
  BY <1>1, <1>3, <1>4, SessionPut

LEMMA SearchCancelKeeps == ASSUME SearchesSound, SearchCancel PROVE SearchesSound'
<1>1. PICK plan \in DOMAIN searches :
         searches' = [searches EXCEPT ![plan] = Cancelled(searches[plan])] /\ held' = held
  BY DEF SearchCancel
<1>2. Reachable(searches[plan])
  BY DEF SearchesSound, Sessions
<1>3. Reachable(Cancelled(searches[plan]))
  BY <1>2, ReachedFurther
<1>4. searches' = With(searches, plan, Cancelled(searches[plan]))
  BY <1>1 DEF SearchesSound, With
<1> QED
  BY <1>1, <1>3, <1>4, SessionPut

LEMMA SearchCheckpointKeeps == ASSUME SearchesSound, SearchCheckpoint PROVE SearchesSound'
<1>1. PICK plan \in DOMAIN searches : held' = searches[plan] /\ searches' = searches
  BY DEF SearchCheckpoint
<1>2. \A s \in Sessions' : s \in Sessions
  BY <1>1 DEF Sessions
<1> QED
  BY <1>1, <1>2 DEF SearchesSound

LEMMA SearchResumeKeeps == ASSUME SearchesSound, SearchResume PROVE SearchesSound'
<1>1. held # None /\ searches' = With(searches, held.plan, held) /\ held' = held
  BY DEF SearchResume
<1>2. Reachable(held)
  BY <1>1 DEF SearchesSound, Sessions
<1> QED
  BY <1>1, <1>2, SessionPut

\* A restart forgets the sessions, not the checkpoint that a client holds.
LEMMA SearchesForgotten == ASSUME SearchesSound, RestartHarness PROVE SearchesSound'
<1>1. searches' = Nothing /\ held' = held
  BY DEF RestartHarness
<1>2. DOMAIN Nothing = {} /\ Nothing = [i \in {} |-> None]
  BY DEF Nothing
<1>3. DOMAIN searches' = {} /\ searches' = [plan \in DOMAIN searches' |-> searches'[plan]]
  BY <1>1, <1>2
<1>4. \A s \in Sessions' : s \in Sessions
  BY <1>1, <1>3 DEF Sessions
<1> QED
  BY <1>3, <1>4 DEF SearchesSound

-----------------------------------------------------------------------------
\* All steps.

LEMMA SameArchive == ASSUME ArchiveSound, runArchive' = runArchive PROVE ArchiveSound'
  BY DEF ArchiveSound, Archived

LEMMA SameSearches == ASSUME SearchesSound, UNCHANGED searchVars PROVE SearchesSound'
<1>1. searches' = searches /\ held' = held
  BY DEF searchVars
<1> QED
  BY <1>1 DEF SearchesSound, Sessions

LEMMA HarnessInitHolds == HarnessInit => HarnessInv
<1>1. SUFFICES ASSUME HarnessInit PROVE HarnessInv
  OBVIOUS
<1>2. /\ runs = Nothing /\ engines = Nothing /\ nextRun = 0
      /\ runArchive = None /\ searches = Nothing /\ held = None
  BY <1>1 DEF HarnessInit
<1>3. DOMAIN Nothing = {} /\ Nothing = [i \in {} |-> None]
  BY DEF Nothing
<1>4. engines = [r \in DOMAIN engines |->
          [e \in DOMAIN runs[r].episodes |-> Calls(runs[r].episodes[e].steps)]]
  BY <1>2, <1>3
<1>5. RunsSound
  <2>1. DOMAIN runs = {} /\ DOMAIN engines = {} /\ nextRun \in Nat /\ runs = [r \in DOMAIN runs |-> runs[r]]
    BY <1>2, <1>3
  <2> QED
    BY <1>4, <2>1 DEF RunsSound
<1>6. ArchiveSound
  BY <1>2 DEF ArchiveSound
<1>7. SearchesSound
  <2>1. DOMAIN searches = {} /\ searches = [plan \in DOMAIN searches |-> searches[plan]] /\ held = None
    BY <1>2, <1>3
  <2> QED
    BY <2>1 DEF SearchesSound, Sessions
<1> QED
  BY <1>5, <1>6, <1>7 DEF HarnessInv

LEMMA HarnessNextHolds ==
    ASSUME HarnessInv, [HarnessNext]_harnessVars
    PROVE  HarnessInv' /\ RunsGrow
<1>0. RunsSound /\ ArchiveSound /\ SearchesSound
  BY DEF HarnessInv
<1>1. CASE StartRun
  <2>1. runArchive' = runArchive /\ UNCHANGED searchVars
    BY <1>1 DEF StartRun, archiveVars
  <2> QED
    BY <1>0, <1>1, <2>1, StartRunKeeps, SameArchive, SameSearches DEF HarnessInv
<1>2. CASE RunScripted
  <2>1. runArchive' = runArchive /\ UNCHANGED searchVars
    BY <1>2 DEF RunScripted, archiveVars
  <2> QED
    BY <1>0, <1>2, <2>1, RunScriptedKeeps, SameArchive, SameSearches DEF HarnessInv
<1>3. CASE Submit
  <2>1. runArchive' = runArchive /\ UNCHANGED searchVars
    BY <1>3 DEF Submit, Decide, archiveVars
  <2> QED
    BY <1>0, <1>3, <2>1, SubmitKeeps, SameArchive, SameSearches DEF HarnessInv
<1>4. CASE Rank
  <2>1. runArchive' = runArchive /\ UNCHANGED searchVars
    BY <1>4 DEF Rank, Decide, archiveVars
  <2> QED
    BY <1>0, <1>4, <2>1, RankKeeps, SameArchive, SameSearches DEF HarnessInv
<1>5. CASE CancelRun
  <2>1. runArchive' = runArchive /\ UNCHANGED searchVars
    BY <1>5 DEF CancelRun, archiveVars
  <2> QED
    BY <1>0, <1>5, <2>1, CancelRunKeeps, SameArchive, SameSearches DEF HarnessInv
<1>6. CASE ArchiveRuns
  <2>1. UNCHANGED runVars /\ UNCHANGED searchVars
    BY <1>6 DEF ArchiveRuns
  <2> QED
    BY <1>0, <1>6, <2>1, ArchiveRunsKeeps, SameRuns, SameSearches DEF HarnessInv
<1>7. CASE ImportRuns
  <2>1. runArchive' = runArchive /\ UNCHANGED searchVars
    BY <1>7 DEF ImportRuns, archiveVars
  <2> QED
    BY <1>0, <1>7, <2>1, ImportRunsKeeps, SameArchive, SameSearches DEF HarnessInv
<1>15. CASE RegisterRanker
  <2>1. UNCHANGED runVars /\ runArchive' = runArchive /\ UNCHANGED searchVars
    BY <1>15 DEF RegisterRanker
  <2> QED
    BY <1>0, <2>1, SameRuns, SameArchive, SameSearches DEF HarnessInv
<1>8. CASE RestartHarness
  <2>1. runArchive' = runArchive
    BY <1>8 DEF RestartHarness
  <2> QED
    BY <1>0, <1>8, <2>1, RestartHarnessKeeps, SearchesForgotten, SameArchive DEF HarnessInv
<1>9. CASE SearchStart
  <2>1. UNCHANGED runVars /\ runArchive' = runArchive
    BY <1>9 DEF SearchStart, archiveVars
  <2> QED
    BY <1>0, <1>9, <2>1, SearchStartKeeps, SameRuns, SameArchive DEF HarnessInv
<1>10. CASE SearchAdvance
  <2>1. UNCHANGED runVars /\ runArchive' = runArchive
    BY <1>10 DEF SearchAdvance, archiveVars
  <2> QED
    BY <1>0, <1>10, <2>1, SearchAdvanceKeeps, SameRuns, SameArchive DEF HarnessInv
<1>11. CASE SearchCancel
  <2>1. UNCHANGED runVars /\ runArchive' = runArchive
    BY <1>11 DEF SearchCancel, archiveVars
  <2> QED
    BY <1>0, <1>11, <2>1, SearchCancelKeeps, SameRuns, SameArchive DEF HarnessInv
<1>12. CASE SearchCheckpoint
  <2>1. UNCHANGED runVars /\ runArchive' = runArchive
    BY <1>12 DEF SearchCheckpoint, archiveVars
  <2> QED
    BY <1>0, <1>12, <2>1, SearchCheckpointKeeps, SameRuns, SameArchive DEF HarnessInv
<1>13. CASE SearchResume
  <2>1. UNCHANGED runVars /\ runArchive' = runArchive
    BY <1>13 DEF SearchResume, archiveVars
  <2> QED
    BY <1>0, <1>13, <2>1, SearchResumeKeeps, SameRuns, SameArchive DEF HarnessInv
<1>14. CASE UNCHANGED harnessVars
  <2>1. UNCHANGED runVars /\ runArchive' = runArchive /\ UNCHANGED searchVars
    BY <1>14 DEF harnessVars, runVars, searchVars
  <2> QED
    BY <1>0, <2>1, SameRuns, SameArchive, SameSearches DEF HarnessInv
<1> QED
  BY <1>1, <1>2, <1>3, <1>4, <1>5, <1>6, <1>7, <1>8, <1>9, <1>10, <1>11, <1>12, <1>13, <1>14, <1>15
     DEF HarnessNext

\* Whatever the compiler answers, the policies decide and the clients request: transcripts are
\* what the compiler answers to their actions, results and hashes are those of the transcripts,
\* run ids are given out once, and every session is a run of units or its cancellation.
THEOREM HarnessInductive == HarnessSpec => []HarnessInv
<1>1. HarnessInv /\ [HarnessNext]_harnessVars => HarnessInv'
  BY HarnessNextHolds
<1> QED
  BY <1>1, HarnessInitHolds, PTL DEF HarnessSpec

\* Every run with its result replays, given the descriptors that no seed gives, an archive that names
\* each run once and kept those loads, and every stopped search replays.
THEOREM AlwaysEndedReplays == HarnessSpec => []EndedReplays
<1>1. HarnessInv => EndedReplays
  <2>1. SUFFICES ASSUME HarnessInv PROVE EndedReplays
    OBVIOUS
  <2>2. ASSUME NEW run, RunSound(run), Concluded(run), NEW rankers,
               RankersOf(run) \ ScriptedRankers \subseteq rankers
        PROVE  Verifies(run, rankers)
    <3>1. SUFFICES ASSUME NEW e \in DOMAIN run.episodes
                   PROVE  Replays(run.episodes[e], ScriptedRankers \cup rankers)
      BY <2>2 DEF RunSound, Verifies
    <3>2. EpisodeSound(run.episodes[e]) /\ run.episodes[e].result # None
      BY <2>2 DEF RunSound, Concluded
    <3>3. ASSUME NEW i \in DOMAIN run.episodes[e].steps
          PROVE  run.episodes[e].steps[i].ranker \in ScriptedRankers \cup rankers \cup {None}
      <4>1. run.episodes[e].steps[i].ranker \in RankersOf(run) \cup {None}
        BY DEF RankersOf
      <4> QED
        BY <2>2, <4>1
    <3> QED
      BY <3>2, <3>3 DEF EpisodeSound, Answered, Replays
  <2>3. ASSUME NEW session \in Sessions, Stopped(session) PROVE ReplaysSearch(session)
    <3>1. PICK plan \in Plans, n \in Nat : session \in {Run(plan, n), Cancelled(Run(plan, n))}
      BY <2>1 DEF HarnessInv, SearchesSound, Reachable
    <3>2. plan.children \in Nat
      BY PlanChildren
    <3> QED
      BY <2>3, <3>1, <3>2, StoppedReplays, CancelledReplays
  <2>4. ASSUME NEW r \in DOMAIN runs, Concluded(runs[r])
        PROVE  Verifies(runs[r], RankersOf(runs[r]) \ ScriptedRankers)
    BY <2>1, <2>2, <2>4 DEF HarnessInv, RunsSound
  <2>5. ASSUME runArchive # None, ListedOnce(runArchive),
               \A i \in DOMAIN runArchive.runs :
                  RankersOf(runArchive.runs[i].run) \ ScriptedRankers \subseteq runArchive.rankers
        PROVE  Loads(runArchive)
    <3>1. SUFFICES ASSUME NEW i \in DOMAIN runArchive.runs
                   PROVE  /\ RankersOf(runArchive.runs[i].run) \subseteq runArchive.rankers
                          /\ Verifies(runArchive.runs[i].run, runArchive.rankers)
      BY <2>5 DEF Loads
    <3> DEFINE run == runArchive.runs[i].run
    <3>2. /\ RunSound(run) /\ Concluded(run)
          /\ RankersOf(run) \cap ScriptedRankers \subseteq runArchive.rankers
      BY <2>1, <2>5 DEF HarnessInv, ArchiveSound
    <3>3. RankersOf(run) \ ScriptedRankers \subseteq runArchive.rankers
      BY <2>5
    <3> HIDE DEF run
    <3>4. RankersOf(run) \subseteq runArchive.rankers
      BY <3>2, <3>3
    <3>5. Verifies(run, runArchive.rankers)
      BY <2>2, <3>2, <3>3
    <3> QED
      BY <3>4, <3>5 DEF run
  <2> QED
    BY <2>3, <2>4, <2>5 DEF EndedReplays
<1> QED
  BY <1>1, HarnessInductive, PTL

\* Every rejection of an episode with its result lies in one repair cycle of it.
THEOREM AlwaysRepairsExplain == HarnessSpec => []RepairsExplainRejections
<1>1. HarnessInv => RepairsExplainRejections
  <2>1. SUFFICES ASSUME HarnessInv, NEW r \in DOMAIN runs, NEW episode \in Episodes(runs[r]),
                        episode.result # None
                 PROVE  /\ \A i \in DOMAIN episode.steps : Failed(episode.steps, i) =>
                              Cardinality({k \in DOMAIN episode.result.repairs :
                                              i \in Span(episode.result.repairs[k])}) = 1
                        /\ \A k \in DOMAIN episode.result.repairs :
                              LET c == episode.result.repairs[k] IN
                              /\ Failed(episode.steps, c.start)
                              /\ \A i \in Span(c) : Progressed(episode.steps, i) => i = c.end
                              /\ Progressed(episode.steps, c.end) \/ c.end = Len(episode.steps)
    BY DEF RepairsExplainRejections, Failed, Span, Progressed
  <2> DEFINE steps == episode.steps
             cycles == episode.result.repairs
  <2>2. Explained(steps, cycles)
    <3>1. RunSound(runs[r])
      BY <2>1 DEF HarnessInv, RunsSound
    <3>2. PICK e \in DOMAIN runs[r].episodes : episode = runs[r].episodes[e]
      BY <2>1 DEF Episodes
    <3>3. EpisodeSound(episode)
      BY <3>1, <3>2 DEF RunSound
    <3> QED
      BY <2>1, <3>3 DEF EpisodeSound
  <2>3. \A k \in DOMAIN cycles : IsCycle(steps, Len(steps), cycles[k])
    BY <2>2 DEF Explained
  <2>4. ASSUME NEW i \in DOMAIN steps, Failed(steps, i)
        PROVE  Cardinality({k \in DOMAIN cycles : i \in Span(cycles[k])}) = 1
    <3>1. PICK k \in DOMAIN cycles : i \in Span(cycles[k])
      BY <2>2, <2>4 DEF Explained
    <3>2. ASSUME NEW j \in DOMAIN cycles, i \in Span(cycles[j]) PROVE j = k
      <4>1. j \in Nat /\ k \in Nat
        BY <2>2 DEF Explained
      <4>2. /\ cycles[j].start \in Nat /\ cycles[j].end \in Nat
            /\ cycles[k].start \in Nat /\ cycles[k].end \in Nat
        BY <2>3 DEF IsCycle
      <4>3. /\ cycles[j].start <= i /\ i <= cycles[j].end
            /\ cycles[k].start <= i /\ i <= cycles[k].end /\ i \in Int
        BY <3>1, <3>2, <4>2 DEF Span
      <4>4. ~(j < k) /\ ~(k < j)
        BY <2>2, <4>2, <4>3 DEF Explained, Apiece
      <4> QED
        BY <4>1, <4>4
    <3>3. {j \in DOMAIN cycles : i \in Span(cycles[j])} = {k}
      BY <3>1, <3>2
    <3>4. Cardinality({k}) = 1
      BY FS_Singleton
    <3> QED
      BY <3>3, <3>4
  <2>5. \A k \in DOMAIN cycles : Progressed(steps, cycles[k].end) \/ cycles[k].end = Len(steps)
    BY <2>2 DEF Explained
  <2> QED
    BY <2>3, <2>4, <2>5 DEF IsCycle
<1> QED
  BY <1>1, HarnessInductive, PTL

\* A retained run keeps its policy, its steps and its finished episodes.
THEOREM AlwaysRetainedStays == HarnessSpec => RetainedStays
<1>1. HarnessInv /\ [HarnessNext]_harnessVars =>
        [\A r \in DOMAIN runs \intersect DOMAIN runs' :
            LET old == runs[r]  new == runs'[r] IN
            /\ new.policy = old.policy /\ DOMAIN new.episodes = DOMAIN old.episodes
            /\ \A e \in DOMAIN old.episodes :
                  /\ IsPrefix(old.episodes[e].steps, new.episodes[e].steps)
                  /\ old.episodes[e].result # None => new.episodes[e] = old.episodes[e]]_runs
  BY HarnessNextHolds DEF RunsGrow, RunGrows
<1> QED
  BY <1>1, HarnessInductive, PTL DEF HarnessSpec, RetainedStays
================================================================================
