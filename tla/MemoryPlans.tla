----------------------------- MODULE MemoryPlans -----------------------------
(***************************************************************************)
(* The memory plans of a workspace, over one fully proved implementation:  *)
(* plans of immutable revisions, each a memory program with its status.    *)
(* A transaction is a sequence of storage decisions, published as one      *)
(* revision or not at all.                                                 *)
(***************************************************************************)
EXTENDS MemoryPrograms

CONSTANTS
    MaxPlans,      \* MemoryPlansPerWorkspace
    MaxRevisions,  \* MemoryRevisionsPerWorkspace
    MaxActions     \* MemoryReuseAttempts: decisions of one transaction

VARIABLE plans     \* of each plan, its revisions: the last one is the head

Revisions == UNION {ToSet(plans[p]) : p \in DOMAIN plans}
Count == FoldLeft(LAMBDA n, revisions : n + Len(revisions), 0, plans)
HeadOf(p) == plans[p][Len(plans[p])]

Init == plans = <<>>

CanCreate == Len(plans) < MaxPlans /\ Count < MaxRevisions

Create ==
    /\ CanCreate
    /\ plans' = Append(plans, <<[program |-> Lowered, status |-> "proved"]>>)

\* The status speaks of this transaction, not of the guards of earlier ones.
StatusAfter(actions) ==
    IF \E i \in DOMAIN actions : actions[i].action = "guarded" THEN "guarded" ELSE "proved"

Publish(p, m, status) ==
    plans' = [plans EXCEPT ![p] = Append(@, [program |-> m, status |-> status])]

Apply ==
    /\ Count < MaxRevisions
    /\ \E p \in DOMAIN plans, n \in 1 .. MaxActions :
          /\ HeadOf(p).status # "sealed"
          /\ \E actions \in [1 .. n -> Actions] :
                \E m \in Transacted(HeadOf(p).program, actions) :
                   Publish(p, m, StatusAfter(actions))

Fork ==
    /\ CanCreate
    /\ \E p \in DOMAIN plans : \E i \in DOMAIN plans[p] :
          LET parent == plans[p][i]
          IN plans' = Append(plans, <<[parent EXCEPT !.status =
                                          IF @ = "sealed" THEN "draft" ELSE @]>>)

Seal ==
    /\ Count < MaxRevisions
    /\ \E p \in DOMAIN plans :
          /\ HeadOf(p).status \in {"proved", "guarded", "draft"}
          /\ Publish(p, HeadOf(p).program, "sealed")

Next == Create \/ Apply \/ Fork \/ Seal
Spec == Init /\ [][Next]_plans

---------------------------------------------------------------------------

Takers(m) == {r \in Results : m.decisions[r].kind # "fresh"}

\* A result under a guard is itself reused, or a value is bound to the buffer
\* that is its own and is allocated only when the guard is false.
GuardsChained(m) ==
    \/ \E r \in Takers(m) : m.decisions[r].input \in Guarded(m)
    \/ \E v \in Values : m.bindings[v] \in Guarded(m)

(***************************************************************************)
(* Storage reuse never loses a value: whatever transactions led to a       *)
(* published revision, if its guards are not chained, evaluating it        *)
(* touches only allocated buffers, every operation reads the operands it   *)
(* names and every output is there at the end, whatever the guards'        *)
(* outcomes (memory_ir.rs:833 proves one reuse, this is what all of them   *)
(* together must mean).  With chained guards it is not so: a guarded       *)
(* decision is not verified to still take its operand's buffer             *)
(* (memory_ir.rs:1355).                                                    *)
(***************************************************************************)
ReuseLosesNothing ==
    \A r \in Revisions :
        ~GuardsChained(r.program) =>
            \A refused \in SUBSET Guarded(r.program) :
                LET run == Evaluated(r.program, refused) IN ~run.failed /\ ~run.wrong
=============================================================================
