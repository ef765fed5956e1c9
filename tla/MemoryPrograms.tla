---------------------------- MODULE MemoryPrograms ----------------------------
(***************************************************************************)
(* The memory program of agentir-core: which buffer stores each tensor of  *)
(* an implementation.  It starts with a buffer of its own for every tensor *)
(* and is changed by storage decisions: reuse the buffer of an operand     *)
(* that is read for the last time, always or under a runtime guard, or     *)
(* return to the fresh buffer.  Every decision is verified over the whole  *)
(* program.  The last part is the reference evaluator of such a program.   *)
(*                                                                         *)
(* The implementation is a constant.  A buffer bears the name of the value *)
(* it was made for, and is in an alias domain of its own.  Scalars, which  *)
(* have no storage, are left out.                                          *)
(***************************************************************************)
EXTENDS Integers, FiniteSetsExt, SequencesExt

CONSTANTS
    Operations,   \* in order: [operands |-> values, result |-> value]
    External,     \* the parameters, borrowed from the caller
    Literals,     \* the constants of the program
    Outputs,      \* the values the program returns
    TypeOf,       \* the element type and shape of every value
    Layouts, Spaces, Alignments,  \* that a request may ask for
    Others,       \* the values whose buffers a guard may name
    ElementBytes  \* the size of an element

Results == {Operations[i].result : i \in DOMAIN Operations}
Values == External \cup Literals \cup Results

ASSUME OperationsAssumption ==
    /\ Outputs \subseteq Values
    /\ \A i, j \in DOMAIN Operations :
          /\ Operations[i].result \notin External \cup Literals
          /\ Operations[i].result = Operations[j].result => i = j
          /\ Operations[j].result \in Operations[i].operands => j < i

Point(v) == IF v \in Results
            THEN CHOOSE i \in DOMAIN Operations : Operations[i].result = v ELSE 0

\* An output is used once more, after the last operation.
Uses(v) == {i \in DOMAIN Operations : v \in Operations[i].operands}
           \cup (IF v \in Outputs THEN {Len(Operations) + 1} ELSE {})
LastUse(v) == Max(Uses(v) \cup {0})

FreshBuffer(v) == [layout |-> "row_major", alignment |-> ElementBytes,
                   space |-> IF v \in Literals THEN "constant" ELSE "global"]

Fresh == [kind |-> "fresh"]

Lowered == [bindings |-> [v \in Values |-> v],
            buffers |-> [v \in Values |-> FreshBuffer(v)],
            baselines |-> [v \in Results |-> FreshBuffer(v)],
            decisions |-> [v \in Results |-> Fresh]]

---------------------------------------------------------------------------
(* The analysis of a program. *)

PlanOwned(b) == b \in Results
BoundTo(m, b) == {v \in Values : m.bindings[v] = b}
FirstPoint(m, b) == Min({Point(v) : v \in BoundTo(m, b)} \cup
                        (IF BoundTo(m, b) = {} THEN {0} ELSE {}))
\* Mutant: the lifetime of a buffer is that of the value it was made for.
X_BufferLastUse_OwnValue(m, b) == Max(Uses(b) \cup {FirstPoint(m, b)})
BufferLastUse(m, b) == Max(UNION {Uses(v) : v \in BoundTo(m, b)} \cup {FirstPoint(m, b)})
LiveAt(m, b, point) == FirstPoint(m, b) <= point /\ point <= BufferLastUse(m, b)
Deallocatable(m, b) == b \notin External /\ BoundTo(m, b) \cap Outputs = {}
MayAlias(a, b) == a # b /\ {a, b} \subseteq External

X_ReuseProved_AnyUse(m, input, result) ==
    LET b == m.bindings[input]
    IN /\ TypeOf[input] = TypeOf[result]
       /\ b \in DOMAIN m.buffers /\ PlanOwned(b)
       /\ input \in Operations[Point(result)].operands
       /\ LastUse(input) >= Point(result)

\* The operand can be overwritten: nothing reads it, or may overlap it, any more.
ReuseProved(m, input, result) ==
    LET b == m.bindings[input]
        point == Point(result)
    IN /\ TypeOf[input] = TypeOf[result]
       /\ b \in DOMAIN m.buffers
       /\ m.buffers[b].layout = m.baselines[result].layout
       /\ m.buffers[b].alignment >= m.baselines[result].alignment
       /\ PlanOwned(b)
       /\ input \in Operations[point].operands
       /\ LastUse(input) = point
       /\ \A other \in DOMAIN m.buffers : ~(MayAlias(b, other) /\ LiveAt(m, other, point))

WellFormed(v, buffer) ==
    /\ buffer.alignment >= ElementBytes
    /\ v \in Literals => buffer.space = "constant"

DecisionVerified(m, result) ==
    LET d == m.decisions[result]
    IN CASE d.kind = "fresh" -> m.bindings[result] = result
         [] d.kind = "in_place" ->
               /\ m.bindings[result] = d.buffer
               /\ m.bindings[d.input] = d.buffer
               /\ ReuseProved(m, d.input, result)
         [] d.kind = "guarded" ->
               /\ m.bindings[result] = d.buffer
               /\ m.baselines[result] = d.fallback
               /\ d.other # d.buffer /\ d.other \in DOMAIN m.buffers
               /\ ReuseProved(m, d.input, result)

Verified(m) ==
    /\ \A v \in Values : m.bindings[v] \in DOMAIN m.buffers
    /\ \A b \in DOMAIN m.buffers : WellFormed(b, m.buffers[b])
    /\ \A r \in Results : WellFormed(r, m.baselines[r]) /\ DecisionVerified(m, r)

---------------------------------------------------------------------------
(* The storage decisions.  Each is the set of the programs it can make: no *)
(* program when it is refused.                                             *)

Bound(m, result, b, decision) ==
    [m EXCEPT !.bindings[result] = b, !.decisions[result] = decision]

With(buffers, b, attributes) ==
    [x \in DOMAIN buffers \cup {b} |-> IF x = b THEN attributes ELSE buffers[x]]

ChooseFresh(m, result) ==
    {Bound([m EXCEPT !.buffers = With(@, result, m.baselines[result])], result, result, Fresh)}

RequestInPlaceReuse(m, input, result) ==
    LET b == m.bindings[input]
        kept == DOMAIN m.buffers \ {result}
    IN IF ~ReuseProved(m, input, result) THEN {}
       ELSE {Bound([m EXCEPT !.buffers = [x \in kept |-> @[x]]], result, b,
                   [kind |-> "in_place", input |-> input, buffer |-> b])}

\* The fresh buffer stays: the branch the guard refuses writes to it.
RequestGuardedReuse(m, input, result, other) ==
    LET b == m.bindings[input]
    IN IF ~ReuseProved(m, input, result) \/ other = b \/ other \notin DOMAIN m.buffers THEN {}
       ELSE {Bound([m EXCEPT !.buffers = With(@, result, m.baselines[result])], result, b,
                   [kind |-> "guarded", input |-> input, buffer |-> b, other |-> other,
                    fallback |-> m.baselines[result]])}

\* A layout, an address space or an alignment: of the buffer and of its baseline.
Updated(m, b, field, value) ==
    IF b \notin DOMAIN m.buffers THEN {}
    ELSE {[m EXCEPT !.buffers[b][field] = value,
                    !.baselines = IF PlanOwned(b) THEN [@ EXCEPT ![b][field] = value] ELSE @]}

Actions ==
    [action : {"fresh"}, result : Results]
    \cup [action : {"in_place"}, input : Values, result : Results]
    \cup [action : {"guarded"}, input : Values, result : Results, other : Others]
    \cup [action : {"update"}, buffer : Values, field : {"layout"}, value : Layouts]
    \cup [action : {"update"}, buffer : Values, field : {"space"}, value : Spaces]
    \cup [action : {"update"}, buffer : Values, field : {"alignment"}, value : Alignments]

Acted(m, a) ==
    {n \in CASE a.action = "fresh" -> ChooseFresh(m, a.result)
             [] a.action = "in_place" -> RequestInPlaceReuse(m, a.input, a.result)
             [] a.action = "guarded" -> RequestGuardedReuse(m, a.input, a.result, a.other)
             [] a.action = "update" -> Updated(m, a.buffer, a.field, a.value) : Verified(n)}

Transacted(m, actions) ==
    FoldLeft(LAMBDA ms, a : UNION {Acted(n, a) : n \in ms}, {m}, actions)

---------------------------------------------------------------------------
(* Evaluation.  refused is the set of the results whose guard is false.    *)
(* The evaluator knows of a buffer whether it is allocated, initialized    *)
(* and released; held is what the storage it describes holds.              *)

Guarded(m) == {r \in Results : m.decisions[r].kind = "guarded"}
Empty == "empty"

Place(m, refused, v) == IF v \in refused THEN v ELSE m.bindings[v]

Allocated(m, refused) ==
    LET live == (DOMAIN m.buffers \ Guarded(m)) \cup refused
    IN [b \in live |-> IF PlanOwned(b) THEN Empty ELSE b]

\* The buffer of an operand that the result is bound to as well is read and written.
Written(m, refused, op) ==
    LET shared == {o \in op.operands : m.bindings[o] = m.bindings[op.result]}
    IN IF op.result \in refused THEN {op.result}
       ELSE IF shared = {} THEN {m.bindings[op.result]}
       ELSE {Place(m, refused, o) : o \in shared}

Released(m, refused, point) ==
    {b \in DOMAIN m.buffers \ Guarded(m) : Deallocatable(m, b) /\ BufferLastUse(m, b) <= point}
    \cup {r \in refused : r \notin Outputs /\ LastUse(r) <= point}

Begun(m, refused) == [held |-> Allocated(m, refused), released |-> {}, failed |-> FALSE, wrong |-> FALSE]

Executed(m, refused, run, i) ==
    LET op == Operations[i]
        reads == {Place(m, refused, o) : o \in op.operands}
        writes == Written(m, refused, op)
        usable == DOMAIN run.held \ run.released
        bad == ~(reads \cup writes \subseteq usable)
               \/ \E b \in reads \cap usable : run.held[b] = Empty
    IN IF run.failed \/ bad THEN [run EXCEPT !.failed = TRUE]
       ELSE [run EXCEPT !.wrong = @ \/ \E o \in op.operands : run.held[Place(m, refused, o)] # o,
                        !.held = [b \in DOMAIN @ |-> IF b \in writes THEN op.result ELSE @[b]],
                        !.released = @ \cup (Released(m, refused, i) \cap DOMAIN run.held)]

Evaluated(m, refused) ==
    LET last == FoldLeft(LAMBDA run, i : Executed(m, refused, run, i), Begun(m, refused),
                         [i \in DOMAIN Operations |-> i])
        places == {Place(m, refused, v) : v \in Outputs}
        lost == ~(places \subseteq DOMAIN last.held \ last.released)
    IN [last EXCEPT !.failed = @ \/ lost \/ \E b \in places : last.held[b] = Empty,
                    !.wrong = @ \/ lost \/ \E v \in Outputs : last.held[Place(m, refused, v)] # v]
=============================================================================
