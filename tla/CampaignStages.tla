--------------------------- MODULE CampaignStages ---------------------------
(***************************************************************************)
(* An autotuning campaign and what its stages make of it: a beam search,   *)
(* the artifacts its terminals published, the acquisition that measures    *)
(* them slot by slot through recovery journals, the cohort and the         *)
(* recommendation.  The stages' own rules are those of SearchSessions and  *)
(* AcquisitionSession.                                                     *)
(***************************************************************************)
EXTENDS SearchSessions

CONSTANTS
    CampaignPlans,  \* name -> [search, rounds, band, cap, config]
    Catalog,        \* the artifacts the server's catalog holds as valid
    HashOrder,      \* the artifacts in the order of their hashes
    Machine,        \* what a preflight reports
    Timings         \* what a benchmark may measure, in nanoseconds

Artifacts == ToSet(HashOrder)
Below(a, b) == \E i, j \in DOMAIN HashOrder : i < j /\ HashOrder[i] = a /\ HashOrder[j] = b

Names == DOMAIN CampaignPlans

\* Plans name their artifacts in the order of their hashes.
ArtifactLists ==
    {list \in UNION {[1..n -> Artifacts] : n \in 1..Len(HashOrder)} :
        \A i, j \in DOMAIN list : i < j => Below(list[i], list[j])}
AcquisitionPlans ==
    {[artifacts |-> list,
      rounds |-> CampaignPlans[p].rounds, config |-> CampaignPlans[p].config] :
        list \in ArtifactLists, p \in Names}
ArtifactsOf == [plan \in AcquisitionPlans |-> plan.artifacts]
RoundsOf == [plan \in AcquisitionPlans |-> plan.rounds]
ConfigOf == [plan \in AcquisitionPlans |-> plan.config]

Acq == INSTANCE AcquisitionSession WITH
    Plans <- AcquisitionPlans, PlanArtifacts <- ArtifactsOf, PlanRounds <- RoundsOf,
    PlanConfig <- ConfigOf, Configs <- {CampaignPlans[p].config : p \in Names},
    Devices <- {Machine.device}, Builds <- {Machine.build}, PlanBuild <- Machine.build,
    NoHash <- None

\* Hashes differ, an acquisition of nothing is refused, and absence is no session.
ASSUME StagesAssumption ==
    /\ HashOrder \in Seq(Artifacts)
    /\ \A i, j \in DOMAIN HashOrder : HashOrder[i] = HashOrder[j] => i = j
    /\ Timings \subseteq Nat
    /\ \A p \in Names : /\ CampaignPlans[p].rounds \in Nat \ {0}
                        /\ CampaignPlans[p].cap \in Nat \ {0}
                        /\ CampaignPlans[p].band \in Nat
                        /\ CampaignPlans[p].search.children \in Nat \ {0}

MeasuredRecords ==
    [artifact : Artifacts, anchor : {Machine}, config : {CampaignPlans[p].config : p \in Names},
     timing : Timings]

SessionsOf(plan) ==
    [plan : {plan}, anchor : {Machine}, status : {"Running", "Complete", "Cancelled"},
     next : 0 .. Acq!TotalSlots(plan),
     slots : [Acq!SlotIndices(plan) ->
                [status : {"Pending", "Complete"}, id : Nat, hash : MeasuredRecords \cup {None}]]]

ASSUME NoneAssumption == \A plan \in AcquisitionPlans : None \notin SessionsOf(plan)

NewCampaign(p) ==
    [plan |-> p, search |-> StartSearch(CampaignPlans[p].search), artifacts |-> <<>>,
     acq |-> None, journals |-> <<>>, cohort |-> None, recommendation |-> None,
     status |-> "planned", result |-> None, work |-> [checkpoints |-> 0, resumes |-> 0]]

\* A session's hash, and a result's, cover all but the work.
Content(campaign) == [campaign EXCEPT !.work = None, !.result = None]

-----------------------------------------------------------------------------
\* From the search to the artifacts.

AfterSearch(search) ==
    CASE search.status = "running" -> "searching"
      [] search.status \in {"complete", "bounded"} -> "search_complete"
      [] OTHER -> search.status

\* Every node that ended its episode, those of rejected choices too.
TerminalNodes(search) == {n \in DOMAIN search.nodes : search.nodes[n].terminal}

\* The artifacts the compiler's answers on the way to a node name.
Published(search, n) ==
    LET steps == Branch(search.plan.task, Path(search, n)).steps
    IN  {steps[i].outcome.answer : i \in DOMAIN steps} \intersect Artifacts

OneArtifactEach(search) ==
    \A n \in TerminalNodes(search) : Cardinality(Published(search, n)) <= 1

InHashOrder(set) ==
    FoldLeft(LAMBDA list, a : IF a \in set THEN Append(list, a) ELSE list, <<>>, HashOrder)

\* Sorted by hash, then cut to the plan's cap.
EligibleArtifacts(campaign) ==
    LET found == UNION {Published(campaign.search, n) : n \in TerminalNodes(campaign.search)}
        sorted == InHashOrder(found \intersect Catalog)
    IN  SubSeq(sorted, 1, Min({CampaignPlans[campaign.plan].cap, Len(sorted)}))

AcquisitionPlan(campaign) ==
    [artifacts |-> campaign.artifacts, rounds |-> CampaignPlans[campaign.plan].rounds,
     config |-> CampaignPlans[campaign.plan].config]

-----------------------------------------------------------------------------
\* Journals.

Settled == {"reconciled", "complete"}

\* An attempt freezes the slot it is for and the records the store held.
Attempt(acq, store) ==
    [artifact |-> Acq!PlannedArtifact(acq.plan, acq.next), anchor |-> acq.anchor,
     config |-> acq.plan.config, snapshot |-> store]

Current(journal) == Last(journal.attempts)

\* Mutant: a journal is for the store as it was, and for no other.
X_JournalVerifies_ExactStore(journal, acq, store) ==
    /\ journal.slot = acq.next \/ journal.slot \in Acq!CompletedSlots(acq)
    /\ \A k \in DOMAIN journal.attempts : Len(journal.attempts[k].snapshot) + 1 >= Len(store)

\* What a journal froze is still there, and its slot is current or done.
JournalVerifies(journal, acq, store) ==
    /\ journal.slot = acq.next \/ journal.slot \in Acq!CompletedSlots(acq)
    /\ \A k \in DOMAIN journal.attempts : IsPrefix(journal.attempts[k].snapshot, store)

NeedsJournal(campaign) ==
    \/ campaign.journals = <<>>
    \/ Last(campaign.journals).status # "retry_authorized"
    \/ Last(campaign.journals).slot # campaign.acq.next

\* The preflight of the first execution starts the acquisition.
Opened(campaign) ==
    IF campaign.acq # None THEN campaign
    ELSE [campaign EXCEPT !.acq = Acq!NewSession(AcquisitionPlan(campaign), Machine)]

Prepared(campaign, store) ==
    IF ~NeedsJournal(campaign) THEN campaign
    ELSE [campaign EXCEPT !.journals = Append(@,
             [slot |-> campaign.acq.next, status |-> "prepared", accepted |-> 0,
              attempts |-> <<Attempt(campaign.acq, store)>>])]

\* Mutant: an undecided journal does not stop the campaign.
X_Noted_GoesOn(campaign, journalStatus) ==
    LET n == Len(campaign.journals)
    IN  [campaign EXCEPT
            !.journals[n].status = journalStatus,
            !.status = IF campaign.acq.status = "Complete" THEN "acquisition_complete"
                       ELSE "acquiring"]

\* The last journal's new status, and what it means for the campaign.
Noted(campaign, journalStatus) ==
    LET n == Len(campaign.journals)
    IN  [campaign EXCEPT
            !.journals[n].status = journalStatus,
            !.status = IF journalStatus \notin Settled THEN "recovery_required"
                       ELSE IF campaign.acq.status = "Complete" THEN "acquisition_complete"
                       ELSE "acquiring"]

\* The record fills the acquisition's current slot, which resolves the journal.
Attached(campaign, id, record) ==
    LET acq == Acq!AttachRecovered(campaign.acq, id, record)
    IN  Noted([campaign EXCEPT !.acq = acq],
              IF acq.status = "Complete" THEN "complete" ELSE "reconciled")

\* Mutant: the attempt's snapshot is not looked at.
X_NewRecords_AllRecords(campaign, store) == DOMAIN store

\* The records that appeared since the last attempt was prepared.
NewRecords(campaign, store) ==
    DOMAIN store \ DOMAIN Current(Last(campaign.journals)).snapshot

Compatible(campaign, record) ==
    LET attempt == Current(Last(campaign.journals))
    IN  /\ record.artifact = attempt.artifact
        /\ record.anchor = attempt.anchor
        /\ record.config = attempt.config

\* reconcile: one new record, if it is compatible, is the slot's; without any a
\* further attempt may be authorized; all else leaves the slot undecided.
Reconciled(campaign, store, authorize) ==
    LET n == Len(campaign.journals)
        new == NewRecords(campaign, store)
    IN  IF \E r \in new : ~Compatible(campaign, store[r]) THEN Noted(campaign, "blocked")
        ELSE IF Cardinality(new) > 1 THEN Noted(campaign, "ambiguous")
        ELSE IF new = {} /\ authorize
        THEN Noted([campaign EXCEPT !.journals[n].attempts = Append(@, Attempt(campaign.acq, store))],
                   "retry_authorized")
        ELSE IF new = {} THEN Noted(campaign, "no_publication")
        ELSE LET r == Min(new)
             IN  Attached([campaign EXCEPT !.journals[n].accepted = r], r, store[r])

-----------------------------------------------------------------------------
\* Cohort and recommendation.

\* The records of the slots, with the identities they were published under.
Measured(campaign, store) ==
    {[id |-> r, record |-> store[r]] :
        r \in {campaign.acq.slots[i].id : i \in Acq!CompletedSlots(campaign.acq)}}

OfArtifact(cohort, a) == {entry \in cohort : entry.record.artifact = a}

\* Mutant: equal records are not told apart.
X_IsCohort_Duplicates(cohort, rounds) == cohort # {}

\* measurement_cohort_from_verified_records: no two measurements with the same
\* hash, and as many of each artifact as the plan asked for.
IsCohort(cohort, rounds) ==
    /\ cohort # {}
    /\ \A x, y \in cohort : x.record = y.record => x = y
    /\ \A x \in cohort : Cardinality(OfArtifact(cohort, x.record.artifact)) = rounds

\* The lower median of an artifact's timings: the smallest that at least half of
\* them do not exceed.
Aggregate(cohort, a) ==
    LET entries == OfArtifact(cohort, a)
        UpTo(t) == {x \in entries : x.record.timing <= t}
    IN  Min({t \in {x.record.timing : x \in entries} :
                2 * Cardinality(UpTo(t)) >= Cardinality(entries)})

Within(left, right, band) ==
    (IF left < right THEN right - left ELSE left - right) * 1000000
        <= Min({left, right}) * band

\* The terminals whose artifact was measured, and what each is worth.
Candidates(search, cohort) ==
    {[node |-> pair[1], artifact |-> pair[2], value |-> Aggregate(cohort, pair[2])] :
        pair \in {end \in TerminalNodes(search) \X Artifacts :
                     /\ end[2] \in Published(search, end[1])
                     /\ OfArtifact(cohort, end[2]) # {}}}

Fastest(candidates) == Min({c.value : c \in candidates})

\* The smallest of them by artifact hash, then node.
FirstByHash(candidates) ==
    CHOOSE c \in candidates : \A d \in candidates \ {c} :
        \/ Below(c.artifact, d.artifact)
        \/ c.artifact = d.artifact /\ c.node < d.node

WithinBand(candidates, fastest, band) == {c \in candidates : Within(fastest, c.value, band)}

Choice(candidates, band) == FirstByHash(WithinBand(candidates, Fastest(candidates), band))

\* Mutant: the fastest is taken, the band ignored.
X_Recommendation_NoBand(search, cohort, band) == Choice(Candidates(search, cohort), 0)

\* measured_recommendation: of the measured terminals as fast as the fastest,
\* up to the band, the one of the smallest artifact hash, then node.
Recommendation(search, cohort, band) == Choice(Candidates(search, cohort), band)

Recommended(campaign) ==
    Recommendation(campaign.search, campaign.cohort, CampaignPlans[campaign.plan].band)

\* replay: the search from its root, the evidence against the store, the
\* recommendation again; only a campaign with a result replays.
ReplaysCampaign(campaign, store) ==
    /\ campaign.result # None
    /\ ReplaysSearch(campaign.search)
    /\ campaign.acq # None =>
          /\ Acq!SessionVerifies(campaign.acq, store)
          /\ \A i \in DOMAIN campaign.journals :
                JournalVerifies(campaign.journals[i], campaign.acq, store)
    /\ campaign.cohort # None =>
          /\ IsCohort(campaign.cohort, CampaignPlans[campaign.plan].rounds)
          /\ campaign.recommendation = Recommended(campaign)
=============================================================================
