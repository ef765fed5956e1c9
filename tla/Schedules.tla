------------------------------ MODULE Schedules ------------------------------
(***************************************************************************)
(* The schedule plans of a workspace over one memory revision and one      *)
(* target, and the backend plans lowered from them: plans of immutable     *)
(* revisions, published by transactions, forks, seals and lowering.        *)
(***************************************************************************)
EXTENDS SchedulePrograms

CONSTANTS
    MaxPlans,       \* SchedulePlansPerWorkspace
    MaxRevisions,   \* ScheduleRevisionsPerWorkspace
    MaxRequests,    \* requests of one transaction
    MaxAxes,        \* ScheduleAxesPerRevision
    MaxBackends,    \* backend plans
    Sizes           \* that a symbolic extent can have

VARIABLES
    schedules,      \* of each plan, its revisions: the last one is the head
    backends        \* of each backend plan, its anchor and its revisions

vars == <<schedules, backends>>

Count(plans) == FoldLeft(LAMBDA n, revisions : n + Len(revisions), 0, plans)
HeadOf(p) == schedules[p][Len(schedules[p])]

Init == schedules = <<>> /\ backends = <<>>

CanCreate == Len(schedules) < MaxPlans /\ Count(schedules) < MaxRevisions

Create ==
    /\ CanCreate
    /\ Verified(SerialSchedule)
    /\ schedules' = Append(schedules, <<[program |-> SerialSchedule, status |-> "resource_valid"]>>)
    /\ UNCHANGED backends

Publish(p, program, status) ==
    schedules' = [schedules EXCEPT ![p] = Append(@, [program |-> program, status |-> status])]

\* Every request is verified before the next one; nothing is published when one is refused.
Transacted(program, n) ==
    FoldLeft(LAMBDA ps, i : UNION {Accepted(q) : q \in ps}, {program}, [i \in 1 .. n |-> i])

Apply ==
    /\ Count(schedules) < MaxRevisions
    /\ \E p \in DOMAIN schedules, n \in 1 .. MaxRequests :
          /\ HeadOf(p).status # "sealed"
          /\ \E program \in Transacted(HeadOf(p).program, n) :
                /\ Len(program.axes) <= MaxAxes
                /\ Publish(p, program, "resource_valid")
    /\ UNCHANGED backends

Fork ==
    /\ CanCreate
    /\ \E p \in DOMAIN schedules : \E i \in DOMAIN schedules[p] :
          schedules' = Append(schedules, <<[schedules[p][i] EXCEPT !.status = "draft"]>>)
    /\ UNCHANGED backends

Seal ==
    /\ Count(schedules) < MaxRevisions
    /\ \E p \in DOMAIN schedules :
          /\ HeadOf(p).status # "sealed"
          /\ Publish(p, HeadOf(p).program, "sealed")
    /\ UNCHANGED backends

---------------------------------------------------------------------------
Lower ==
    /\ Len(backends) < MaxBackends
    /\ \E p \in DOMAIN schedules : \E i \in DOMAIN schedules[p] :
          /\ schedules[p][i].status \in {"resource_valid", "sealed"}
          /\ \E kernels \in Lowered(schedules[p][i].program) :
                backends' = Append(backends, [anchor |-> <<p, i>>, kernels |-> kernels,
                                              revisions |-> <<"proved">>])
    /\ UNCHANGED schedules

\* A sealed backend revision can be sealed again: each time it has a child.
SealBackend ==
    /\ \E b \in DOMAIN backends :
          /\ Len(backends[b].revisions) < MaxRevisions
          /\ backends' = [backends EXCEPT ![b].revisions = Append(@, "sealed")]
    /\ UNCHANGED schedules

ForkBackend ==
    /\ Len(backends) < MaxBackends
    /\ \E b \in DOMAIN backends : \E i \in DOMAIN backends[b].revisions :
          backends' = Append(backends, [backends[b] EXCEPT !.revisions = <<@[i]>>])
    /\ UNCHANGED schedules

Next == Create \/ Apply \/ Fork \/ Seal \/ Lower \/ SealBackend \/ ForkBackend
Spec == Init /\ [][Next]_vars

---------------------------------------------------------------------------
Programs == UNION {{schedules[p][i].program : i \in DOMAIN schedules[p]} : p \in DOMAIN schedules}

Size(extent, size) == IF Static(extent) THEN extent ELSE size
Parts(p, a) == {c \in DOMAIN p.axes : p.axes[c].parent = a}

\* The pairs of an outer and an inner coordinate that stand for coordinate c of axis a.
PairsAt(p, a, size, c) ==
    LET outer == CHOOSE x \in Parts(p, a) : p.axes[x].outer
        factor == p.axes[outer].factor
    IN {<<o, i>> \in (0 .. Size(p.axes[outer].extent, size) - 1) \X (0 .. factor - 1) :
            o * factor + i = c}

(***************************************************************************)
(* The active axes of a node iterate over its domain exactly once          *)
(* (docs/iteration-domains.md:7; the verifier records the fact without     *)
(* checking it, schedule_ir.rs:843): the axes of a node are the leaves of  *)
(* its splits, every coordinate of an axis that was split has exactly one  *)
(* pair in its parts, and parts that hold more pairs are marked as having  *)
(* a remainder.                                                            *)
(***************************************************************************)
CoveredExactlyOnce ==
    \A p \in Programs :
        /\ \A n \in DOMAIN Nodes :
              /\ IsInjective(p.leaves[n])
              /\ ToSet(p.leaves[n]) = {a \in DOMAIN p.axes : p.axes[a].node = n /\ Parts(p, a) = {}}
        /\ \A a \in DOMAIN p.axes : Parts(p, a) # {} =>
              \A size \in Sizes :
                 LET extent == Size(p.axes[a].extent, size)
                     outer == CHOOSE x \in Parts(p, a) : p.axes[x].outer
                     pairs == Size(p.axes[outer].extent, size) * p.axes[outer].factor
                 IN /\ \A c \in 0 .. extent - 1 : Cardinality(PairsAt(p, a, size, c)) = 1
                    /\ pairs > extent => p.axes[outer].remainder

(***************************************************************************)
(* Every element of every node is computed at least once by a lowered      *)
(* plan, whatever size the symbolic extents have: the dispatch starts an   *)
(* invocation for it, or the serial loop reaches it.                       *)
(***************************************************************************)
EveryElementReached ==
    \A b \in DOMAIN backends : \A k \in DOMAIN backends[b].kernels : \A size \in Sizes :
        LET kernel == backends[b].kernels[k]
        IN \A i \in 0 .. Size(kernel.extent, size) - 1 : TimesComputed(kernel, size, i) >= 1
=============================================================================
