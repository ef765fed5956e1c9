----------------------------- MODULE MCCampaigns -----------------------------
(***************************************************************************)
(* One task of three requests: after "open" the menu offers a flat, a      *)
(* tiled and a spilling version; the flat and the tiled one publish an     *)
(* artifact, and sealing the tiled one is refused, which ends the episode  *)
(* with its artifact published.                                            *)
(***************************************************************************)
EXTENDS Campaigns

CONSTANT none

Has(calls, action) == \E i \in DOMAIN calls : calls[i] = action
Accepted(answer) == [accepted |-> TRUE, progress |-> TRUE, answer |-> answer]
Refused(code) == [accepted |-> FALSE, progress |-> FALSE, answer |-> code]

MCRespond(calls, action) ==
    CASE action = "open" -> Accepted("opened")
      [] action = "flat" -> Accepted("a")
      [] action = "tiled" -> Accepted("b")
      [] action = "spill" -> Refused("no_memory")
      [] action = "seal" -> IF Has(calls, "flat") THEN Accepted("sealed") ELSE Refused("open_hole")

MCContinues(calls, next) == IF next = "publish" THEN <<"flat", "tiled", "spill">> ELSE <<>>
MCScore(calls, action) == IF action = "spill" THEN 0 ELSE 1

\* The digits of the calls, last first.
MCStateHash(calls) ==
    LET digit == [open |-> 1, flat |-> 3, tiled |-> 2, seal |-> 4]
    IN  FoldRight(LAMBDA call, sum : 5 * sum + digit[call], calls, 0)

MCTasks == [kernel |-> [requests |-> <<"open", "publish", "seal">>, maxRejections |-> 0,
                        maxActions |-> 3, maxContext |-> 9,
                        criterion |-> [kind |-> "answer", answer |-> "sealed"]]]

MCObjective == <<[kind |-> "task_success", maximize |-> TRUE],
                 [kind |-> "rejections", maximize |-> FALSE]>>
MCSearchLimits == [expansions |-> 6, nodes |-> 6, engines |-> 20, requests |-> 30]

\* both artifacts; one, once and twice; nothing to expand; no node that
\* ends; too many nodes.
MCCampaignPlans ==
    LET Plan(depth, children, rounds, cap) ==
            [search |-> SearchPlan("kernel", 2, depth, children, 2), rounds |-> rounds,
             band |-> 50000, cap |-> cap, config |-> "config"]
    IN  [both |-> Plan(3, 2, 1, 2), once |-> Plan(3, 2, 1, 1), twice |-> Plan(3, 2, 2, 1),
         none |-> Plan(0, 2, 1, 2), short |-> Plan(1, 2, 1, 2), wide |-> Plan(3, 3, 1, 2)]

MCHashOrder == <<"a", "b">>
MCMachine == [device |-> "device", build |-> "build"]

\* Two campaigns meet in the store only, so of a second one only what touches
\* the store is of interest.
SecondOnlyMeasures ==
    Cardinality(DOMAIN campaigns) > 1 =>
        /\ DOMAIN campaigns = {"both", "once"}
        /\ \A p \in DOMAIN campaigns :
            /\ ~At(p, {"searching", "cancelled", "failed"})
            /\ \A k \in DOMAIN campaigns[p].journals : Len(campaigns[p].journals[k].attempts) <= 1
        /\ checkpoints = {} /\ archive = {} /\ replayed = {}

\* The third record shows what publications do to a finished campaign.
ThirdRecord ==
    Len(store) = 3 => /\ checkpoints = {} /\ archive = {}
                      /\ \A p \in DOMAIN campaigns : \A k \in DOMAIN campaigns[p].journals :
                            Len(campaigns[p].journals[k].attempts) = 1

\* 104 is within the band of 100, 130 is not: one such record is enough.
SlowIsRare == \A k \in DOMAIN store : store[k].timing = 130 =>
    Len(store) <= 2 /\ checkpoints = {} /\ Cardinality(DOMAIN campaigns) = 1

\* One checkpoint at a time, of the campaign at hand, which does not start over;
\* what was saved is what is worked on.
OneCheckpoint ==
    /\ Cardinality(checkpoints) <= 1 /\ Cardinality(archive) <= 1
    /\ \A c \in checkpoints \union archive :
          /\ c.plan # "twice" /\ DOMAIN campaigns \subseteq {c.plan}
          /\ At(c.plan, {"planned", "searching", "search_complete", "cancelled"}) =>
                campaigns[c.plan].status = c.status
    /\ archive # {} => checkpoints \subseteq archive /\ replayed \subseteq {c.result : c \in archive}
=============================================================================
