------------------------------ MODULE Campaigns ------------------------------
(***************************************************************************)
(* The evaluation server's autotuning campaigns.  Campaigns advance        *)
(* independently, request by request, and publish into the measurement     *)
(* store of one workspace; an execution may stop anywhere between its      *)
(* preparation and its checkpoint.  A campaign is checkpointed, resumed,   *)
(* cancelled, replayed and archived; the process may restart, after which  *)
(* only the workspace and the archive are left.                            *)
(***************************************************************************)
EXTENDS CampaignStages

CONSTANTS
    MaxAttempts,     \* limit: attempts of one slot
    MaxCampaigns,    \* bound: campaigns the server holds
    MaxRecords,      \* bound: records in the store
    MaxCheckpoints   \* bound: checkpoints of one campaign

ASSUME CampaignBounds ==
    /\ {MaxAttempts, MaxCampaigns, MaxRecords, MaxCheckpoints} \subseteq Nat
    /\ Catalog \subseteq Artifacts

VARIABLES
    campaigns,     \* name -> campaign
    checkpoints,   \* the retained checkpoints: campaigns as they were
    replayed,      \* the results an explicit replay has confirmed
    catalog,       \* does this process have its artifact catalog?
    store,         \* the workspace's measurement records, in order of identity
    archive        \* the campaigns in the archive on disk, {} before the first

vars == <<campaigns, checkpoints, replayed, catalog, store, archive>>

Init ==
    /\ campaigns = [p \in {} |-> None] /\ checkpoints = {} /\ replayed = {}
    /\ catalog = FALSE /\ store = <<>> /\ archive = {}

\* The campaign p takes the place of the one of that name.
Put(p, campaign) ==
    campaigns' = [q \in DOMAIN campaigns \union {p} |-> IF q = p THEN campaign ELSE campaigns[q]]

At(p, statuses) == p \in DOMAIN campaigns /\ campaigns[p].status \in statuses

-----------------------------------------------------------------------------
\* From the search to the acquisition.

\* A plan names its campaign: starting it again starts over.
Start(p) ==
    /\ Cardinality(DOMAIN campaigns \union {p}) <= MaxCampaigns
    /\ Put(p, NewCampaign(p))
    /\ UNCHANGED <<checkpoints, replayed, catalog, store, archive>>

AdvanceSearch(p) ==
    \E units \in Units :
        LET search == Advanced(campaigns[p].search, units) IN
        /\ At(p, {"planned", "searching"})
        /\ Put(p, [campaigns[p] EXCEPT !.search = search, !.status = AfterSearch(search)])
        /\ UNCHANGED <<checkpoints, replayed, catalog, store, archive>>

\* No eligible artifact ends the campaign.
WithArtifacts(campaign, artifacts) ==
    LET found == [campaign EXCEPT !.artifacts = artifacts]
        empty == [found EXCEPT !.status = "no_eligible_terminal"]
    IN  IF artifacts = <<>> THEN [empty EXCEPT !.result = Content(empty)]
        ELSE [found EXCEPT !.status = "acquisition_prepared"]

PrepareAcquisition(p) ==
    /\ At(p, {"search_complete"})
    /\ OneArtifactEach(campaigns[p].search)
    /\ Put(p, WithArtifacts(campaigns[p], EligibleArtifacts(campaigns[p])))
    /\ catalog' = TRUE
    /\ UNCHANGED <<checkpoints, replayed, store, archive>>

-----------------------------------------------------------------------------
\* Measuring, slot by slot.

\* The session and the journal an execution runs under; both stay when it
\* stops.
CanExecute(p) ==
    /\ catalog
    /\ At(p, {"acquisition_prepared", "acquiring", "recovery_required"})
    /\ At(p, {"recovery_required"}) => Last(campaigns[p].journals).status = "retry_authorized"
    /\ LET opened == Opened(campaigns[p])
           prepared == Prepared(opened, store)
       IN  /\ NeedsJournal(opened) => Acq!SessionVerifies(opened.acq, store)
           /\ JournalVerifies(Last(prepared.journals), prepared.acq, store)

Execution(p) == Prepared(Opened(campaigns[p]), store)

\* Stopped before, in or right after the benchmark.
ExecuteStops(p) ==
    /\ CanExecute(p)
    /\ Put(p, Noted(Execution(p), "indeterminate"))
    /\ UNCHANGED <<checkpoints, replayed, catalog, store, archive>>

Publishes(p) ==
    /\ CanExecute(p)
    /\ Len(store) < MaxRecords
    /\ \E t \in Timings :
          store' = Append(store, Acq!BenchmarkRecord(Execution(p).acq, Execution(p).acq.next, t))

\* Stopped after the publication: the session has not seen the record.
ExecutePublishes(p) ==
    /\ Publishes(p)
    /\ Put(p, Noted(Execution(p), "indeterminate"))
    /\ UNCHANGED <<checkpoints, replayed, catalog, archive>>

ExecuteCompletes(p) ==
    /\ Publishes(p)
    /\ Put(p, Attached(Execution(p), Len(store'), Last(store')))
    /\ UNCHANGED <<checkpoints, replayed, catalog, archive>>

\* A retry over the limit refuses the whole request, the observation too.
Reconcile(p) ==
    \E authorize \in BOOLEAN :
        /\ catalog
        /\ At(p, {"recovery_required"})
        /\ JournalVerifies(Last(campaigns[p].journals), campaigns[p].acq, store)
        /\ LET reconciled == Reconciled(campaigns[p], store, authorize)
           IN  /\ Len(Last(reconciled.journals).attempts) <= MaxAttempts
               /\ Put(p, reconciled)
        /\ UNCHANGED <<checkpoints, replayed, catalog, store, archive>>

-----------------------------------------------------------------------------
\* From the measurements to the result.

CreateCohort(p) ==
    /\ At(p, {"acquisition_complete"})
    /\ LET cohort == Measured(campaigns[p], store)
       IN  /\ IsCohort(cohort, CampaignPlans[p].rounds)
           /\ Put(p, [campaigns[p] EXCEPT !.cohort = cohort, !.status = "cohort_ready"])
    /\ UNCHANGED <<checkpoints, replayed, catalog, store, archive>>

Recommend(p) ==
    /\ At(p, {"cohort_ready"})
    /\ Put(p, [campaigns[p] EXCEPT !.recommendation = Recommended(campaigns[p]),
                                   !.status = "recommendation_ready"])
    /\ UNCHANGED <<checkpoints, replayed, catalog, store, archive>>

\* result: asked of a campaign without artifacts it only answers.
Finalize(p) ==
    /\ At(p, {"recommendation_ready"})
    /\ LET complete == [campaigns[p] EXCEPT !.status = "complete"]
       IN  Put(p, [complete EXCEPT !.result = Content(complete)])
    /\ UNCHANGED <<checkpoints, replayed, catalog, store, archive>>

Over == {"complete", "no_eligible_terminal", "cancelled", "failed"}

\* What runs is cancelled with the campaign.
Cancel(p) ==
    /\ p \in DOMAIN campaigns /\ ~At(p, Over)
    /\ LET search == campaigns[p].search
           acq == campaigns[p].acq
       IN  Put(p, [campaigns[p] EXCEPT
                     !.status = "cancelled",
                     !.search = IF Stopped(search) THEN search ELSE Cancelled(search),
                     !.acq = IF acq = None THEN None
                             ELSE IF acq.status # "Running" THEN acq
                             ELSE [acq EXCEPT !.status = "Cancelled"]])
    /\ UNCHANGED <<checkpoints, replayed, catalog, store, archive>>

-----------------------------------------------------------------------------
\* Checkpoints, replays and archives.

Checkpoint(p) ==
    /\ p \in DOMAIN campaigns
    /\ campaigns[p].work.checkpoints < MaxCheckpoints
    /\ LET noted == [campaigns[p] EXCEPT !.work.checkpoints = @ + 1]
       IN  Put(p, noted) /\ checkpoints' = checkpoints \union {noted}
    /\ UNCHANGED <<replayed, catalog, store, archive>>

\* resume: whatever the campaign has become, it is what it was again.
Resume ==
    \E c \in checkpoints :
        /\ Cardinality(DOMAIN campaigns \union {c.plan}) <= MaxCampaigns
        /\ ValidStructure(c.search)
        /\ c.acq # None => catalog /\ Acq!SessionVerifies(c.acq, store)
        /\ c.journals # <<>> => JournalVerifies(Last(c.journals), c.acq, store)
        /\ Put(c.plan, [c EXCEPT !.work.resumes = @ + 1])
        /\ UNCHANGED <<checkpoints, replayed, catalog, store, archive>>

Replay(p) ==
    /\ p \in DOMAIN campaigns
    /\ campaigns[p].acq # None => catalog
    /\ ReplaysCampaign(campaigns[p], store)
    /\ replayed' = replayed \union {campaigns[p].result}
    /\ UNCHANGED <<campaigns, checkpoints, catalog, store, archive>>

\* Every campaign must be checkpointed as it is, and replayed.
SaveArchive ==
    /\ DOMAIN campaigns # {}
    /\ \A p \in DOMAIN campaigns :
          campaigns[p] \in checkpoints /\ campaigns[p].result \in replayed
    /\ archive' = {campaigns[p] : p \in DOMAIN campaigns}
    /\ UNCHANGED <<campaigns, checkpoints, replayed, catalog, store>>

ImportArchive ==
    /\ archive # {}
    /\ LET archived == {c.plan : c \in archive} IN
       campaigns' = [p \in DOMAIN campaigns \union archived |->
                        IF p \in archived THEN CHOOSE c \in archive : c.plan = p
                        ELSE campaigns[p]]
    /\ Cardinality(DOMAIN campaigns') <= MaxCampaigns
    /\ checkpoints' = checkpoints \union archive
    /\ replayed' = replayed \union {c.result : c \in archive}
    /\ UNCHANGED <<catalog, store, archive>>

\* A new process, given the workspace again.
Restart ==
    /\ DOMAIN campaigns # {}
    /\ campaigns' = [p \in {} |-> None] /\ checkpoints' = {} /\ replayed' = {}
    /\ catalog' = FALSE
    /\ UNCHANGED <<store, archive>>

Next ==
    \/ \E p \in Names :
          \/ Start(p) \/ AdvanceSearch(p) \/ PrepareAcquisition(p)
          \/ ExecuteStops(p) \/ ExecutePublishes(p) \/ ExecuteCompletes(p) \/ Reconcile(p)
          \/ CreateCohort(p) \/ Recommend(p) \/ Finalize(p) \/ Cancel(p)
          \/ Checkpoint(p) \/ Replay(p)
    \/ Resume \/ SaveArchive \/ ImportArchive \/ Restart

Spec == Init /\ [][Next]_vars

-----------------------------------------------------------------------------
\* Properties.

Live == {campaigns[p] : p \in DOMAIN campaigns}
Known == Live \union checkpoints \union archive

Measuring == {"acquisition_complete", "cohort_ready", "recommendation_ready", "complete"}

(* A campaign (campaign.rs, AutotuningCampaignSession) has the parts its      *)
(* status stands for, and a result exactly when it is complete or found no    *)
(* artifact.                                                                  *)

(* The stages agree (campaign.rs, execute_prepared and reconcile): a slot is  *)
(* open for another execution only when nothing is undecided, an undecided    *)
(* slot is the session's next one, and a campaign leaves acquisition only     *)
(* with every slot settled by a record that appeared after the slot's last    *)
(* attempt was prepared.                                                      *)
StagesAgree ==
    \A c \in Known :
        /\ c.status = "planned" => c.search = StartSearch(CampaignPlans[c.plan].search)
        /\ c.status = "searching" => ~Stopped(c.search)
        /\ c.status \in {"planned", "searching"} => c.acq = None
        /\ c.status = "acquiring" =>
              c.acq.status = "Running" /\ Last(c.journals).status \in Settled
        /\ c.status = "recovery_required" =>
              /\ c.acq.status = "Running" /\ Last(c.journals).slot = c.acq.next
              /\ Last(c.journals).status \notin Settled
        /\ c.status \in Measuring =>
              /\ c.acq.status = "Complete"
              /\ \A i \in DOMAIN c.acq.slots : \E k \in DOMAIN c.journals :
                    /\ c.journals[k].slot = i /\ c.journals[k].status \in Settled
                    /\ c.acq.slots[i].id > Len(Current(c.journals[k]).snapshot)

\* As many different measurements of every artifact as the plan asks for, of no
\* other artifact, as the store holds them and under the plan's configuration.
CohortIsComplete(c) ==
    /\ \A a \in ToSet(c.artifacts) :
          Cardinality({x.record : x \in OfArtifact(c.cohort, a)}) = CampaignPlans[c.plan].rounds
    /\ \A x \in c.cohort :
          /\ x.record.artifact \in ToSet(c.artifacts) /\ x.record = store[x.id]
          /\ x.record.config = CampaignPlans[c.plan].config

(* A cohort (measured.rs, measurement_cohort_from_verified_records) is        *)
(* complete, and the recommended node (measured_recommendation) ended its     *)
(* episode with a measured artifact, none is faster by more than the band,    *)
(* and of those within the band of the fastest it has the smallest hash:      *)
(* noise within the band does not decide.                                     *)
RecommendationIsFastest ==
    /\ \A c \in Known : c.cohort # None => CohortIsComplete(c)
    /\ \A c \in Known : c.recommendation # None =>
        LET chosen == c.recommendation
            band == CampaignPlans[c.plan].band
            measured == {x.record.artifact : x \in c.cohort}
            value == [a \in measured |-> Aggregate(c.cohort, a)]
            fastest == Min({value[a] : a \in measured})
        IN  /\ chosen.artifact \in Published(c.search, chosen.node) \intersect measured
            /\ chosen.node \in TerminalNodes(c.search)
            /\ chosen.value = value[chosen.artifact] /\ Within(fastest, chosen.value, band)
            /\ \A a \in measured :
                  Within(fastest, value[a], band) => ~Below(a, chosen.artifact)

(* A campaign with a result (campaign.rs, replay) replays against the store   *)
(* for ever, whatever other campaigns publish later, and so does one in the   *)
(* archive: finished campaigns never keep an archive from being saved (those  *)
(* that are cancelled, failed or unfinished do).                              *)
FinalCampaignReplays == \A c \in Known : c.result # None => ReplaysCampaign(c, store)

\* The records that fill a campaign's slots.
Used(c) == IF c.acq = None THEN {} ELSE {c.acq.slots[i].id : i \in Acq!CompletedSlots(c.acq)}

TakenOver(c) == {c.journals[k].accepted : k \in DOMAIN c.journals}

(* A record fills at most one slot of a campaign, and one of another campaign *)
(* only when a reconciliation took it for its own (recovery.rs,               *)
(* compatible_record): an execution attaches what it published itself.        *)
SharedOnlyByReconciling ==
    \A c \in Known :
        /\ c.acq # None => \A i, j \in Acq!CompletedSlots(c.acq) :
              c.acq.slots[i].id = c.acq.slots[j].id => i = j
        /\ \A d \in Known : c.plan # d.plan =>
              Used(c) \intersect Used(d) \subseteq TakenOver(c) \union TakenOver(d)
=============================================================================
