------------------------------- MODULE Workspace -------------------------------
(***************************************************************************)
(* The workspace of agentir-core: immutable program revisions, and the     *)
(* transactions that make new ones.  A transaction stages its actions on a *)
(* copy of its base's program and of the allocator, and commits all of     *)
(* them or none; the event log of the accepted requests is what an archive *)
(* is replayed from.                                                       *)
(*                                                                         *)
(* Abstractions.  A value is a tensor of one element type; constants,      *)
(* regions, scalars and attributes carry no shape fact and are left out.   *)
(* All opcodes with several tensor operands compare them with one of them  *)
(* (the first here; select's first branch) and give its shape to the       *)
(* result; they are one action.  A hole is named by its placeholder.  Of   *)
(* the obligations only the open ShapeCompatible ones are kept: HoleFilled *)
(* is open exactly while its hole is, the others are born proved.  A       *)
(* program has one output name, and of the preflight limits the one on     *)
(* values.  Content hashes are the contents.                               *)
(***************************************************************************)
EXTENDS ShapeFacts, FiniteSets, SequencesExt

CONSTANTS
    Scripts,          \* the action sequences clients submit
    ValuesPerProgram, \* the interactive limit on a program's values
    HardValueCap,     \* the limit an archive is replayed under
    Valuations,       \* the assignments of extents frozen programs are judged by
    MaxRevisions,     \* bound: revisions after the root
    MaxForks          \* bound: direct forks among them

ActionKinds ==
    {"dimension", "parameter", "hole", "op", "fill", "output", "constrain", "freeze", "fork"}

\* By a binding of the transaction, a persistent id, or a position in the live-value table.
IsReference(ref) == ref.by \in {"bind", "id", "nth"}

IsAction(a) ==
    /\ a.do \in ActionKinds
    /\ a.do = "dimension" => a.symbol \in Symbols
    /\ a.do \in {"parameter", "hole"} => IsShape(a.shape)
    /\ a.do = "op" => /\ 1 \in DOMAIN a.operands
                      /\ \A i \in DOMAIN a.operands : IsReference(a.operands[i])
    /\ a.do = "fill" => IsReference(a.hole)
    /\ a.do \in {"fill", "output"} => IsReference(a.value)
    /\ a.do = "constrain" =>
          /\ IsShape(a.constraint.left) /\ IsShape(a.constraint.right)
          /\ a.constraint = [left |-> a.constraint.left, right |-> a.constraint.right]

ASSUME ScriptsAssumption ==
    \A script \in Scripts : /\ script \in Seq(ToSet(script))
                            /\ \A a \in ToSet(script) : IsAction(a)
ASSUME LimitsAssumption ==
    /\ {ValuesPerProgram, HardValueCap, MaxRevisions, MaxForks} \subseteq Nat
    /\ ValuesPerProgram <= HardValueCap
ASSUME ValuationsAssumption == Valuations \subseteq [Symbols -> Nat]

VARIABLES
    revisions,  \* [program, parent] of every revision
    head,
    allocator,  \* the last value, revision and transaction numbers given out
    events      \* the accepted requests, in order

vars == <<revisions, head, allocator, events>>

RootRevision == 0
NoValue == 0
NoScript == <<>>

---------------------------------------------------------------------------
\* Programs.
EmptyProgram ==
    [dims |-> {}, values |-> [v \in {} |-> NoValue], constraints |-> <<>>,
     debts |-> {}, output |-> NoValue, frozen |-> FALSE]

Values(p) == DOMAIN p.values
Holes(p) == {v \in Values(p) : p.values[v].origin = "hole"}
Operations(p) == {v \in Values(p) : p.values[v].origin = "operation"}
OpenHoles(p) == {v \in Holes(p) : p.values[v].filled = NoValue}

Parameter(name, shape) == [origin |-> "parameter", name |-> name, shape |-> shape]
Operation(operands, shape) == [origin |-> "operation", operands |-> operands, shape |-> shape]
OpenHole(shape, local) == [origin |-> "hole", shape |-> shape, local |-> local, filled |-> NoValue]

\* Inserts equalities in order; one that is refused fails the whole sequence.
InsertAll(facts, constraints) ==
    FoldLeft(LAMBDA t, c : IF t.ok /\ InsertOk(t.facts, c)
                           THEN [t EXCEPT !.facts = Extended(@, c)]
                           ELSE [t EXCEPT !.ok = FALSE],
             [ok |-> TRUE, facts |-> facts], constraints)

FactsOf(p) ==
    InsertAll([NoFacts EXCEPT !.parent = [s \in Symbols |-> IF s \in p.dims THEN s ELSE NoSymbol]],
              p.constraints)

\* What the value of v is computed from: an operation's operands, a hole's fill.
Sources(p, v) ==
    CASE v \in Operations(p) -> ToSet(p.values[v].operands)
      [] v \in Holes(p) -> {p.values[v].filled}
      [] OTHER -> {}

\* Canonicalization follows the sources of the output.  A cycle through an operation is
\* refused; one of holes alone is followed without end, and nothing is committed either.
Canonical(p) ==
    LET reached == CHOOSE R \in SUBSET Values(p) :
                      /\ p.output \in R /\ \A v \in R : Sources(p, v) \subseteq R
                      /\ \A Q \in SUBSET R :
                            p.output \in Q /\ (\A v \in Q : Sources(p, v) \subseteq Q) => Q = R
    IN  \A C \in SUBSET reached \ {{}} : \E v \in C : Sources(p, v) \cap C = {}

\* Mutant: proof debt does not keep a specification open.
X_RequireComplete_IgnoresDebts(p) == OpenHoles(p) = {} /\ p.output # NoValue

RequireComplete(p) == OpenHoles(p) = {} /\ p.output # NoValue /\ p.debts = {}

---------------------------------------------------------------------------
\* A transaction in progress: the staged program, its facts, the staged value counter and
\* the values bound so far.
RunFrom(p, given, t) ==
    [ok |-> t.ok, program |-> p, facts |-> t.facts, value |-> given.value, bound |-> <<>>]

Started(p, given) == RunFrom(p, given, FactsOf(p))

Failed(run) == [run EXCEPT !.ok = FALSE]

\* A reference by binding, by persistent id, or by position in the live-value table.
Resolve(run, ref) ==
    LET live == Values(run.program)
    IN  CASE ref.by = "bind" -> IF ref.n \in DOMAIN run.bound THEN run.bound[ref.n] ELSE NoValue
          [] ref.by = "id" -> IF ref.n \in live THEN ref.n ELSE NoValue
          [] ref.by = "nth" ->
                IF ref.n \in 1 .. Cardinality(live)
                THEN CHOOSE v \in live : Cardinality({w \in live : w <= v}) = ref.n
                ELSE NoValue

ShapeOf(run, v) == run.program.values[v].shape
SymbolsKnown(run, shape) == SymbolsOf(shape) \subseteq run.program.dims

\* Mutant: ids continue from the base's values, not from the workspace's allocator.
X_FreshValue_PerProgram(run) ==
    1 + (IF Values(run.program) = {} THEN 0
         ELSE CHOOSE v \in Values(run.program) : \A w \in Values(run.program) : w <= v)

FreshValue(run) == run.value + 1

Bind(run, definition, debts) ==
    LET id == FreshValue(run)
    IN  [run EXCEPT !.value = id,
                    !.bound = Append(@, id),
                    !.program.values = [v \in DOMAIN @ \cup {id} |->
                                            IF v = id THEN definition ELSE @[v]],
                    !.program.debts = @ \cup debts]

DefineDimension(run, a) ==
    IF a.symbol \in run.program.dims THEN Failed(run)
    ELSE [run EXCEPT !.program.dims = @ \cup {a.symbol},
                     !.facts = DeclareSymbol(@, a.symbol)]

CreateParameter(run, a) ==
    LET taken == \E v \in Values(run.program) : /\ run.program.values[v].origin = "parameter"
                                                /\ run.program.values[v].name = a.name
    IN  IF taken \/ ~SymbolsKnown(run, a.shape) THEN Failed(run)
        ELSE Bind(run, Parameter(a.name, a.shape), {})

CreateHole(run, a) ==
    IF SymbolsKnown(run, a.shape) /\ InsertAll(run.facts, a.local).ok
    THEN Bind(run, OpenHole(a.shape, a.local), {})
    ELSE Failed(run)

\* Every operand against the first: what is unknown is owed.
Compared(run, operands, first) ==
    LET answer(v) == Query(run.facts, first, ShapeOf(run, v))
        rest == {operands[i] : i \in DOMAIN operands \ {1}}
        unknown == {ShapeOf(run, v) : v \in {w \in rest : answer(w) = "unknown"}}
    IN  IF \E v \in rest : answer(v) = "contradiction" THEN Failed(run)
        ELSE Bind(run, Operation(operands, first), {[left |-> first, right |-> q] : q \in unknown})

CreateOp(run, a) ==
    LET operands == [i \in DOMAIN a.operands |-> Resolve(run, a.operands[i])]
    IN  IF NoValue \in ToSet(operands) THEN Failed(run)
        ELSE Compared(run, operands, ShapeOf(run, operands[1]))

\* The fill is compared under the facts and the hole's own constraints.
FillAnswer(local, l, r) == IF local.ok THEN Query(local.facts, l, r) ELSE "contradiction"

Filled(run, h, v, answer) ==
    IF answer = "contradiction" THEN Failed(run)
    ELSE [run EXCEPT !.program.values[h].filled = v,
                     !.program.debts =
                         IF answer = "unknown"
                         THEN @ \cup {[left |-> ShapeOf(run, h), right |-> ShapeOf(run, v)]}
                         ELSE @]

Fill(run, h, v) ==
    IF h \notin OpenHoles(run.program) \/ v = NoValue THEN Failed(run)
    ELSE Filled(run, h, v, FillAnswer(InsertAll(run.facts, run.program.values[h].local),
                                      ShapeOf(run, h), ShapeOf(run, v)))

FillHole(run, a) == Fill(run, Resolve(run, a.hole), Resolve(run, a.value))

SetOutput(run, a) ==
    LET v == Resolve(run, a.value)
    IN  IF v = NoValue THEN Failed(run) ELSE [run EXCEPT !.program.output = v]

\* Mutant: whatever is not contradicted is taken for proved.
X_Remaining_UnknownIsProved(facts, debts) == {}

Remaining(facts, debts) == {d \in debts : Query(facts, d.left, d.right) = "unknown"}

\* discharge_shape_obligations: a contradicted obligation rejects the transaction.
Discharged(run) ==
    IF \E d \in run.program.debts : Query(run.facts, d.left, d.right) = "contradiction"
    THEN Failed(run)
    ELSE [run EXCEPT !.program.debts = Remaining(run.facts, @)]

WithConstraint(run, c) ==
    [run EXCEPT !.facts = Extended(@, c),
                !.program.constraints = IF Contains(@, c) THEN @ ELSE Append(@, c)]

AddConstraint(run, a) ==
    IF InsertOk(run.facts, a.constraint) THEN Discharged(WithConstraint(run, a.constraint))
    ELSE Failed(run)

Closed(run) ==
    IF run.ok /\ RequireComplete(run.program) THEN [run EXCEPT !.program.frozen = TRUE]
    ELSE Failed(run)

FreezeSpec(run) == Closed(Discharged(run))

\* Mutant: a frozen program is changed like any other.
X_Changeable_Always(run, a) == TRUE

Changeable(run, a) == ~run.program.frozen \/ a.do = "fork"

Step(run, a) ==
    IF ~run.ok \/ ~Changeable(run, a) THEN Failed(run)
    ELSE CASE a.do = "dimension" -> DefineDimension(run, a)
           [] a.do = "parameter" -> CreateParameter(run, a)
           [] a.do = "hole" -> CreateHole(run, a)
           [] a.do = "op" -> CreateOp(run, a)
           [] a.do = "fill" -> FillHole(run, a)
           [] a.do = "output" -> SetOutput(run, a)
           [] a.do = "constrain" -> AddConstraint(run, a)
           [] a.do = "freeze" -> FreezeSpec(run)
           [] a.do = "fork" -> run

---------------------------------------------------------------------------
\* A workspace is the revisions, the head and the allocator.
NewWorkspace ==
    [revisions |-> [r \in {RootRevision} |-> [program |-> EmptyProgram, parent |-> RootRevision]],
     head |-> RootRevision,
     allocator |-> [value |-> 0, revision |-> RootRevision, transaction |-> 0]]

WithRevision(w, base, program, given) ==
    [revisions |-> [r \in DOMAIN w.revisions \cup {given.revision} |->
                        IF r = given.revision THEN [program |-> program, parent |-> base]
                        ELSE w.revisions[r]],
     head |-> given.revision,
     allocator |-> given]

\* Values the preflight projects from the actions, before any of them is staged.
Projected(p, script) ==
    Cardinality(Values(p))
        + Cardinality({i \in DOMAIN script : script[i].do \in {"parameter", "hole", "op"}})

Admitted(w, tx, limit) ==
    /\ tx.script # NoScript
    /\ (\E i \in DOMAIN tx.script : tx.script[i].do = "fork") => Len(tx.script) = 1
    /\ tx.base = w.head \/ tx.allow_branch
    /\ tx.base \in DOMAIN w.revisions
    /\ Projected(w.revisions[tx.base].program, tx.script) <= limit

Ran(w, tx) == FoldLeft(Step, Started(w.revisions[tx.base].program, w.allocator), tx.script)

\* Mutant: a rejected transaction keeps the ids it was given.
X_Refused_KeepsIds(w, tx) ==
    IF tx.script # NoScript /\ tx.base \in DOMAIN w.revisions
    THEN [w EXCEPT !.allocator.value = Ran(w, tx).value] ELSE w

Refused(w, tx) == w

\* A frozen program is canonicalized before it is published.
Outcome(w, tx, run) ==
    IF run.ok /\ (run.program.frozen => Canonical(run.program))
    THEN WithRevision(w, tx.base, run.program,
                      [value |-> run.value, revision |-> w.allocator.revision + 1,
                       transaction |-> w.allocator.transaction + 1])
    ELSE Refused(w, tx)

Applied(w, tx, limit) ==
    IF Admitted(w, tx, limit) THEN Outcome(w, tx, Ran(w, tx)) ELSE Refused(w, tx)

Forked(w, base) ==
    WithRevision(w, base, w.revisions[base].program,
                 [w.allocator EXCEPT !.revision = @ + 1])

---------------------------------------------------------------------------
Current == [revisions |-> revisions, head |-> head, allocator |-> allocator]

\* The event of a request is logged when it made a revision.
Become(w, event) ==
    /\ revisions' = w.revisions
    /\ head' = w.head
    /\ allocator' = w.allocator
    /\ events' = IF w.allocator.revision = allocator.revision THEN events
                                                              ELSE Append(events, event)

Init ==
    /\ revisions = NewWorkspace.revisions
    /\ head = NewWorkspace.head
    /\ allocator = NewWorkspace.allocator
    /\ events = <<>>

Apply(tx) ==
    /\ allocator.revision < MaxRevisions
    /\ Become(Applied(Current, tx, ValuesPerProgram), tx)

Fork(base) ==
    /\ allocator.revision < MaxRevisions
    /\ allocator.revision - allocator.transaction < MaxForks
    /\ Become(Forked(Current, base), [forked |-> base])

\* allow_branch matters only for a base that is not the head.
Next ==
    \/ \E base \in DOMAIN revisions : \E script \in Scripts :
         \E allow \in IF base = head THEN {FALSE} ELSE BOOLEAN :
            Apply([base |-> base, script |-> script, allow_branch |-> allow])
    \/ \E base \in DOMAIN revisions : Fork(base)

Spec == Init /\ [][Next]_vars

\* from_snapshot: the event log is applied again, under the hard cap.
Reapplied(w, e, limit) ==
    IF "forked" \in DOMAIN e THEN Forked(w, e.forked) ELSE Applied(w, e, limit)

Replayed(log, limit) == FoldLeft(LAMBDA w, e : Reapplied(w, e, limit), NewWorkspace, log)

---------------------------------------------------------------------------

\* The revisions are a history of immutable snapshots (RevisionHistory).
History == INSTANCE RevisionHistory WITH
    RootId <- RootRevision, Empty <- EmptyProgram, Frozen <- LAMBDA p : p.frozen,
    programs <- [r \in DOMAIN revisions |-> revisions[r].program],
    parents <- [r \in DOMAIN revisions |-> revisions[r].parent]
ImplementsHistory == History!Spec

Drafts == {r \in DOMAIN revisions : ~revisions[r].program.frozen}
FrozenRevisions == DOMAIN revisions \ Drafts

Complete(p) == OpenHoles(p) = {} /\ p.debts = {} /\ p.output \in Values(p) /\ Canonical(p)

\* What each operation needs of its operands, and each filled hole without constraints of
\* its own of its fill.  (A hole's own constraints are never stated of the program.)
PlainHoles(p) == {h \in Holes(p) : p.values[h].local = <<>>}
Needs(p) ==
    UNION {{<<p.values[v].shape, p.values[w].shape>> : w \in Sources(p, v) \cap Values(p)} :
               v \in Operations(p) \cup PlainHoles(p)}

Admitting(p) == {val \in Valuations : Satisfies(val, ToSet(p.constraints))}

\* "No open hole or proof obligation may enter a frozen/deployable specification", "a solver
\* result is sound": a frozen program is complete, and the shapes that an operation compares
\* are equal under every assignment its constraints admit, whichever branch and order they
\* were stated in.
FrozenIsSound ==
    \A r \in FrozenRevisions :
        LET p == revisions[r].program
        IN  /\ Complete(p)
            /\ \A val \in Admitting(p) : \A n \in Needs(p) : Equal(n[1], n[2], val)

\* "Persistent IDs come from the compiler": one id is one value on every branch, the fill
\* of a hole aside.
Definition(p, v) == [d \in DOMAIN p.values[v] \ {"filled"} |-> p.values[v][d]]
IdsNameOneThing ==
    \A r, s \in DOMAIN revisions :
        \A v \in Values(revisions[r].program) \cap Values(revisions[s].program) :
            Definition(revisions[r].program, v) = Definition(revisions[s].program, v)

\* "Rejected transactions change neither graph, head nor ID allocator": whatever was
\* refused in between, replaying the log gives the same revisions, head and ids.
HistoryReplays == Replayed(events, HardValueCap) = Current
=============================================================================
