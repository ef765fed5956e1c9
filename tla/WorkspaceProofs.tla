---------------------------- MODULE WorkspaceProofs ----------------------------
(***************************************************************************)
(* Proofs about Workspace, for every set of scripts, every limit and every *)
(* bound.  A transaction is a fold, so what it makes of its base's program *)
(* is proved of the fold (Grown): every value it stages is one of the      *)
(* base's, with the same definition, or has a number no revision ever used.*)
(*                                                                         *)
(* That a frozen program is sound is proved of the fold too (GoodRun): the *)
(* facts of a run agree with the constraints of its program, so that what  *)
(* a query proves holds (FactTableProofs, as an instance), and whatever an *)
(* operation or a fill compares holds or is owed; a frozen program owes    *)
(* nothing.                                                                *)
(***************************************************************************)
EXTENDS Workspace, FiniteSetTheorems, WellFoundedInduction, TLAPS

RunFields == {"ok", "program", "facts", "value", "bound"}
ProgramFields == {"dims", "values", "constraints", "debts", "output", "frozen"}
AllocatorFields == {"value", "revision", "transaction"}

IsRun(run) == run = [x \in RunFields |-> run[x]]
IsProgram(p) == p = [x \in ProgramFields |-> p[x]]
IsAllocator(a) ==
    /\ a = [x \in AllocatorFields |-> a[x]]
    /\ a.value \in Nat /\ a.revision \in Nat /\ a.transaction \in Nat

\* What a run may have made of the program p when the last value given out was n.
Grown(p, n, run) ==
    /\ IsRun(run) /\ IsProgram(run.program)
    /\ run.value \in Nat /\ n <= run.value
    /\ Values(run.program) \subseteq 1 .. run.value
    /\ \A v \in Values(run.program) :
          v <= n => v \in Values(p) /\ Definition(run.program, v) = Definition(p, v)

\* A frozen program leaves a run as it entered it.
Closes(p, run) == p.frozen /\ run.ok => run.program = p

StepOp(env, run, a) == Step(run, a)
StepHolds(about, i, run) == Grown(about[1], about[2], run) /\ Closes(about[1], run)
Stepping == INSTANCE FoldFacts WITH Op <- StepOp, Holds <- StepHolds

Anything(about, i, w) == TRUE
LogOp(limit, w, e) == Reapplied(w, e, limit)
Replaying == INSTANCE FoldFacts WITH Op <- LogOp, Holds <- Anything

\* What a workspace is: revisions numbered from the root's, their values from 1, and one
\* id with one definition.
Sound(w) ==
    /\ w = [revisions |-> w.revisions, head |-> w.head, allocator |-> w.allocator]
    /\ IsAllocator(w.allocator)
    /\ DOMAIN w.revisions = 0 .. w.allocator.revision
    /\ \A r \in DOMAIN w.revisions :
          /\ IsProgram(w.revisions[r].program)
          /\ Values(w.revisions[r].program) \subseteq 1 .. w.allocator.value
    /\ \A r, s \in DOMAIN w.revisions :
          \A v \in Values(w.revisions[r].program) \cap Values(w.revisions[s].program) :
              Definition(w.revisions[r].program, v) = Definition(w.revisions[s].program, v)

\* The inductive invariant.
IInv == Sound(Current)

\* A program and an allocator that a child of base may have.
Child(w, base, q, given) ==
    LET p == w.revisions[base].program
    IN  /\ IsProgram(q) /\ IsAllocator(given)
        /\ given.revision = w.allocator.revision + 1 /\ w.allocator.value <= given.value
        /\ Values(q) \subseteq 1 .. given.value
        /\ \A v \in Values(q) :
              v <= w.allocator.value => v \in Values(p) /\ Definition(q, v) = Definition(p, v)
        /\ p.frozen => q = p

---------------------------------------------------------------------------
\* What is left of a run that failed.
LEMMA FailedFacts ==
    ASSUME NEW run, IsRun(run)
    PROVE  /\ IsRun(Failed(run)) /\ Failed(run).ok = FALSE /\ Failed(run).program = run.program
           /\ Failed(run).value = run.value
  BY DEF Failed, IsRun, RunFields

\* A run that fails is taken no further.
LEMMA FailedGrows ==
    ASSUME NEW p, NEW n, NEW run, Grown(p, n, run) PROVE Grown(p, n, Failed(run))
  BY FailedFacts DEF Grown

\* A program whose values are the same, in a run whose counter is the same.
SameValues(old, new) ==
    /\ IsRun(new) /\ IsProgram(new.program) /\ new.value = old.value
    /\ new.program.values = old.program.values

\* A run that keeps its values and its counter is as grown as before.
LEMMA SameGrows ==
    ASSUME NEW p, NEW n, NEW run, Grown(p, n, run), NEW new, SameValues(run, new)
    PROVE  Grown(p, n, new)
  BY DEF Grown, SameValues, Values, Definition

\* A run, field by field.
RunForm(run) ==
    LET q == run.program
    IN  /\ run = [ok |-> run.ok, program |-> q, facts |-> run.facts, value |-> run.value,
                  bound |-> run.bound]
        /\ q = [dims |-> q.dims, values |-> q.values, constraints |-> q.constraints,
                debts |-> q.debts, output |-> q.output, frozen |-> q.frozen]

\* A run and its program are the records they look like.
LEMMA RunForms == ASSUME NEW run, IsRun(run), IsProgram(run.program) PROVE RunForm(run)
  BY DEF RunForm, IsRun, RunFields, IsProgram, ProgramFields

\* A run with another program.
WithProgram(run, q) == [run EXCEPT !.program = q]
\* What another program changes of a run.
LEMMA ProgramSet ==
    ASSUME NEW run, IsRun(run), NEW q
    PROVE  /\ IsRun(WithProgram(run, q)) /\ WithProgram(run, q).program = q
           /\ WithProgram(run, q).ok = run.ok /\ WithProgram(run, q).value = run.value
  BY DEF IsRun, RunFields, WithProgram

\* A value that is bound gets a number above every other.
LEMMA BindGrows ==
    ASSUME NEW p, NEW n \in Nat, NEW run, Grown(p, n, run), NEW definition, NEW debts
    PROVE  Grown(p, n, Bind(run, definition, debts))
<1> DEFINE id == run.value + 1
           q == run.program
           numbered == [run EXCEPT !.value = id]
           bound == [numbered EXCEPT !.bound = Append(@, id)]
           values == [v \in DOMAIN q.values \cup {id} |-> IF v = id THEN definition ELSE q.values[v]]
           valued == [q EXCEPT !.values = values]
           owing == [valued EXCEPT !.debts = @ \cup debts]
           new == Bind(run, definition, debts)
<1>1. /\ IsRun(run) /\ IsProgram(q) /\ run.value \in Nat /\ n <= run.value /\ id \in Nat
      /\ DOMAIN q.values \subseteq 1 .. run.value
  BY DEF Grown, Values
<1>2. IsRun(numbered) /\ numbered.value = id /\ numbered.program = q
  BY <1>1 DEF IsRun, RunFields
<1>3. IsRun(bound) /\ bound.value = id /\ bound.program = q
  BY <1>2 DEF IsRun, RunFields
<1>4. IsProgram(valued) /\ valued.values = values
  BY <1>1 DEF IsProgram, ProgramFields
<1>5. IsProgram(owing) /\ owing.values = values
  BY <1>4 DEF IsProgram, ProgramFields
<1>6. new = WithProgram(bound, owing)
  <2>1. RunForm(run)
    BY <1>1, RunForms
  <2> QED
    BY <2>1 DEF RunForm, Bind, FreshValue, WithProgram
<1> HIDE DEF owing, valued, bound, numbered, new, values
<1>7. IsRun(new) /\ new.program = owing /\ new.value = id
  BY <1>3, <1>6, ProgramSet
<1>8. /\ DOMAIN values = DOMAIN q.values \cup {id}
      /\ \A v \in DOMAIN q.values : values[v] = q.values[v]
  BY <1>1 DEF values
<1>9. ASSUME NEW v \in Values(new.program), v <= n
      PROVE  v \in Values(p) /\ Definition(new.program, v) = Definition(p, v)
  <2>1. v \in Values(q)
    BY <1>1, <1>5, <1>7, <1>8, <1>9 DEF Values
  <2>2. Definition(new.program, v) = Definition(q, v)
    BY <1>5, <1>7, <1>8, <2>1 DEF Definition, Values
  <2> QED
    BY <1>9, <2>1, <2>2 DEF Grown
<1>10. Values(new.program) \subseteq 1 .. new.value
  BY <1>1, <1>5, <1>7, <1>8 DEF Values
<1>11. Grown(p, n, new)
  BY <1>1, <1>5, <1>7, <1>9, <1>10 DEF Grown
<1> QED
  BY <1>11 DEF new
---------------------------------------------------------------------------
\* The actions, one by one, take a run further.
LEMMA DimensionGrows ==
    ASSUME NEW p, NEW n \in Nat, NEW run, Grown(p, n, run), NEW a
    PROVE  Grown(p, n, DefineDimension(run, a))
<1> DEFINE new == [run EXCEPT !.program.dims = @ \cup {a.symbol},
                              !.facts = DeclareSymbol(@, a.symbol)]
<1>1. RunForm(run)
  BY RunForms DEF Grown
<1>2. SameValues(run, new)
  BY <1>1 DEF SameValues, RunForm, IsRun, RunFields, IsProgram, ProgramFields
<1> HIDE DEF new
<1>3. Grown(p, n, new)
  BY <1>2, SameGrows
<1> QED
  BY <1>3, FailedGrows DEF DefineDimension, new

\* A parameter is a value that is bound.
LEMMA ParameterGrows ==
    ASSUME NEW p, NEW n \in Nat, NEW run, Grown(p, n, run), NEW a
    PROVE  Grown(p, n, CreateParameter(run, a))
  BY BindGrows, FailedGrows DEF CreateParameter

\* A hole is a value that is bound.
LEMMA HoleGrows ==
    ASSUME NEW p, NEW n \in Nat, NEW run, Grown(p, n, run), NEW a
    PROVE  Grown(p, n, CreateHole(run, a))
  BY BindGrows, FailedGrows DEF CreateHole

\* An operation is a value that is bound, whatever its operands answer.
LEMMA OpGrows ==
    ASSUME NEW p, NEW n \in Nat, NEW run, Grown(p, n, run), NEW a
    PROVE  Grown(p, n, CreateOp(run, a))
<1>1. ASSUME NEW operands, NEW first PROVE Grown(p, n, Compared(run, operands, first))
  BY BindGrows, FailedGrows DEF Compared
<1> QED
  BY <1>1, FailedGrows DEF CreateOp

\* Filling a hole changes no definition.
LEMMA FilledGrows ==
    ASSUME NEW p, NEW n \in Nat, NEW run, Grown(p, n, run), NEW h, NEW v, NEW debts
    PROVE  Grown(p, n, [run EXCEPT !.program.values[h].filled = v, !.program.debts = debts])
<1> DEFINE q == run.program
           values == [q.values EXCEPT ![h].filled = v]
           valued == [q EXCEPT !.values = values]
           owing == [valued EXCEPT !.debts = debts]
           new == [run EXCEPT !.program.values[h].filled = v, !.program.debts = debts]
<1>1. RunForm(run) /\ IsRun(run) /\ IsProgram(q)
  BY RunForms DEF Grown
<1>2. IsProgram(valued) /\ valued.values = values
  BY <1>1 DEF IsProgram, ProgramFields
<1>3. IsProgram(owing) /\ owing.values = values
  BY <1>2 DEF IsProgram, ProgramFields
<1>4. new = WithProgram(run, owing)
  BY <1>1 DEF RunForm, WithProgram
<1>5. /\ DOMAIN values = DOMAIN q.values
      /\ \A u \in DOMAIN values : /\ DOMAIN values[u] = DOMAIN q.values[u]
                                /\ \A d \in DOMAIN values[u] \ {"filled"} :
                                      values[u][d] = q.values[u][d]
  OBVIOUS
<1> HIDE DEF owing, valued, values, new
<1>6. IsRun(new) /\ new.program = owing /\ new.value = run.value
  BY <1>1, <1>4, ProgramSet
<1>7. /\ Values(new.program) = Values(q)
      /\ \A u \in Values(q) : Definition(new.program, u) = Definition(q, u)
  BY <1>3, <1>5, <1>6 DEF Values, Definition
<1>8. Grown(p, n, new)
  BY <1>3, <1>6, <1>7 DEF Grown
<1> QED
  BY <1>8 DEF new

\* A fill is compared, then entered or refused.
LEMMA FillGrows ==
    ASSUME NEW p, NEW n \in Nat, NEW run, Grown(p, n, run), NEW a
    PROVE  Grown(p, n, FillHole(run, a))
<1>1. ASSUME NEW h, NEW v, NEW answer PROVE Grown(p, n, Filled(run, h, v, answer))
  <2> DEFINE debt == [left |-> ShapeOf(run, h), right |-> ShapeOf(run, v)]
             debts == IF answer = "unknown" THEN run.program.debts \cup {debt} ELSE run.program.debts
  <2>1. RunForm(run)
    BY RunForms DEF Grown
  <2>2. answer # "contradiction" =>
          Filled(run, h, v, answer)
              = [run EXCEPT !.program.values[h].filled = v, !.program.debts = debts]
    BY <2>1 DEF RunForm, Filled
  <2> HIDE DEF debts
  <2>3. answer = "contradiction" => Filled(run, h, v, answer) = Failed(run)
    BY DEF Filled
  <2>4. Grown(p, n, [run EXCEPT !.program.values[h].filled = v, !.program.debts = debts])
    BY FilledGrows
  <2> QED
    BY <2>2, <2>3, <2>4, FailedGrows
<1> QED
  BY <1>1, FailedGrows DEF FillHole, Fill

\* The output is none of the values.
LEMMA OutputGrows ==
    ASSUME NEW p, NEW n \in Nat, NEW run, Grown(p, n, run), NEW a
    PROVE  Grown(p, n, SetOutput(run, a))
<1>1. ASSUME NEW v PROVE Grown(p, n, [run EXCEPT !.program.output = v])
  <2> DEFINE new == [run EXCEPT !.program.output = v]
  <2>1. RunForm(run)
    BY RunForms DEF Grown
  <2>2. SameValues(run, new)
    BY <2>1 DEF SameValues, RunForm, IsRun, RunFields, IsProgram, ProgramFields
  <2> HIDE DEF new
  <2>3. Grown(p, n, new)
    BY <2>2, SameGrows
  <2> QED
    BY <2>3 DEF new
<1> QED
  BY <1>1, FailedGrows DEF SetOutput

\* Discharging touches the debts only.
LEMMA DischargedGrows ==
    ASSUME NEW p, NEW n \in Nat, NEW run, Grown(p, n, run)
    PROVE  Grown(p, n, Discharged(run))
<1> DEFINE new == [run EXCEPT !.program.debts = Remaining(run.facts, @)]
<1>1. RunForm(run)
  BY RunForms DEF Grown
<1>2. SameValues(run, new)
  BY <1>1 DEF SameValues, RunForm, IsRun, RunFields, IsProgram, ProgramFields
<1> HIDE DEF new
<1>3. Grown(p, n, new)
  BY <1>2, SameGrows
<1> QED
  BY <1>3, FailedGrows DEF Discharged, new

\* A constraint touches the facts, the constraints and the debts.
LEMMA ConstraintGrows ==
    ASSUME NEW p, NEW n \in Nat, NEW run, Grown(p, n, run), NEW a
    PROVE  Grown(p, n, AddConstraint(run, a))
<1> DEFINE new == WithConstraint(run, a.constraint)
<1>1. RunForm(run)
  BY RunForms DEF Grown
<1>2. SameValues(run, new)
  BY <1>1 DEF WithConstraint, SameValues, RunForm, IsRun, RunFields, IsProgram, ProgramFields
<1> HIDE DEF new
<1>3. Grown(p, n, Discharged(new))
  BY <1>2, SameGrows, DischargedGrows
<1> QED
  BY <1>3, FailedGrows DEF AddConstraint, new

\* Freezing touches the debts and the frozen flag.
LEMMA FreezeGrows ==
    ASSUME NEW p, NEW n \in Nat, NEW run, Grown(p, n, run)
    PROVE  Grown(p, n, FreezeSpec(run))
<1>1. ASSUME NEW r, Grown(p, n, r) PROVE Grown(p, n, Closed(r))
  <2> DEFINE new == [r EXCEPT !.program.frozen = TRUE]
  <2>1. RunForm(r)
    BY <1>1, RunForms DEF Grown
  <2>2. SameValues(r, new)
    BY <2>1 DEF SameValues, RunForm, IsRun, RunFields, IsProgram, ProgramFields
  <2> HIDE DEF new
  <2>3. Grown(p, n, new)
    BY <1>1, <2>2, SameGrows
  <2> QED
    BY <1>1, <2>3, FailedGrows DEF Closed, new
<1> QED
  BY <1>1, DischargedGrows DEF FreezeSpec
---------------------------------------------------------------------------
\* An action takes a run further, and leaves a frozen program alone or fails.
LEMMA StepGrows ==
    ASSUME NEW p, NEW n \in Nat, NEW run, Grown(p, n, run), Closes(p, run),
           NEW a, a.do \in ActionKinds
    PROVE  Grown(p, n, Step(run, a)) /\ Closes(p, Step(run, a))
<1>1. CASE ~run.ok \/ ~Changeable(run, a)
  <2>1. Step(run, a) = Failed(run)
    BY <1>1 DEF Step
  <2>2. Failed(run).ok = FALSE
    BY FailedFacts DEF Grown
  <2> QED
    BY <2>1, <2>2, FailedGrows DEF Closes
<1>2. CASE run.ok /\ Changeable(run, a)
  <2>1. Step(run, a) =
          CASE a.do = "dimension" -> DefineDimension(run, a)
            [] a.do = "parameter" -> CreateParameter(run, a)
            [] a.do = "hole" -> CreateHole(run, a)
            [] a.do = "op" -> CreateOp(run, a)
            [] a.do = "fill" -> FillHole(run, a)
            [] a.do = "output" -> SetOutput(run, a)
            [] a.do = "constrain" -> AddConstraint(run, a)
            [] a.do = "freeze" -> FreezeSpec(run)
            [] a.do = "fork" -> run
    BY <1>2 DEF Step
  <2>2. Grown(p, n, Step(run, a))
    BY <2>1, DimensionGrows, ParameterGrows, HoleGrows, OpGrows, FillGrows, OutputGrows,
       ConstraintGrows, FreezeGrows DEF ActionKinds
  <2>3. p.frozen => Step(run, a) = run
    <3>1. p.frozen => a.do = "fork"
      BY <1>2 DEF Closes, Changeable
    <3> QED
      BY <2>1, <3>1
  <2> QED
    BY <2>2, <2>3 DEF Closes
<1> QED
  BY <1>1, <1>2

\* The run of a whole script.
LEMMA RanGrows ==
    ASSUME NEW w, Sound(w), NEW tx, tx.base \in DOMAIN w.revisions, tx.script \in Scripts
    PROVE  LET p == w.revisions[tx.base].program
           IN  Grown(p, w.allocator.value, Ran(w, tx)) /\ Closes(p, Ran(w, tx))
<1> DEFINE p == w.revisions[tx.base].program
           n == w.allocator.value
           script == tx.script
           started == Started(p, w.allocator)
<1>1. /\ IsProgram(p) /\ n \in Nat /\ Values(p) \subseteq 1 .. n
  BY DEF Sound, IsAllocator
<1>2. /\ IsRun(started) /\ started.program = p /\ started.value = n
  BY DEF Started, RunFrom, IsRun, RunFields
<1>3. /\ script \in Seq(ToSet(script)) /\ \A a \in ToSet(script) : a.do \in ActionKinds
  BY ScriptsAssumption DEF IsAction
<1>4. Ran(w, tx) = Stepping!Fold(0, started, script)
  BY DEF Ran, StepOp, Stepping!Fold, Stepping!FoldLeft, FoldLeft, Stepping!MapThenFoldSet,
         MapThenFoldSet, Stepping!Max, Max
<1> HIDE DEF p, n, script, started
<1>5. /\ Len(script) \in Nat /\ DOMAIN script = 1 .. Len(script)
      /\ \A i \in 1 .. Len(script) : script[i].do \in ActionKinds
  BY <1>3
<1> DEFINE about == <<p, n>>
<1>6. about[1] = p /\ about[2] = n
  OBVIOUS
<1> HIDE DEF about
<1>7. StepHolds(about, 0, started)
  BY <1>1, <1>2, <1>6 DEF StepHolds, Grown, Closes
<1>8. ASSUME NEW i \in 1 .. Len(script), NEW run, StepHolds(about, i - 1, run)
      PROVE  StepHolds(about, i, StepOp(0, run, script[i]))
  BY <1>1, <1>5, <1>6, <1>8, StepGrows DEF StepHolds, StepOp
<1>9. Stepping!Kept(about, 0, started, script, Len(script))
  BY <1>7, <1>8 DEF Stepping!Kept
<1>10. StepHolds(about, Len(script), Stepping!Fold(0, started, script))
  BY <1>5, <1>9, Stepping!FoldKeeps
<1> QED
  BY <1>4, <1>6, <1>10 DEF StepHolds, p, n

\* Whatever limit a request is admitted under, it leaves the workspace alone or adds a child.
LEMMA AppliedMakes ==
    ASSUME NEW w, Sound(w), NEW tx, tx.base \in DOMAIN w.revisions, tx.script \in Scripts, NEW limit
    PROVE  \/ Applied(w, tx, limit) = w
           \/ \E q, given : /\ Child(w, tx.base, q, given) /\ Admitted(w, tx, limit)
                            /\ Applied(w, tx, limit) = WithRevision(w, tx.base, q, given)
<1> DEFINE run == Ran(w, tx)
           p == w.revisions[tx.base].program
           given == [value |-> run.value, revision |-> w.allocator.revision + 1,
                     transaction |-> w.allocator.transaction + 1]
<1>1. CASE Admitted(w, tx, limit) /\ run.ok /\ (run.program.frozen => Canonical(run.program))
  <2>1. Applied(w, tx, limit) = WithRevision(w, tx.base, run.program, given)
    BY <1>1 DEF Applied, Outcome
  <2>2. Grown(p, w.allocator.value, run) /\ Closes(p, run)
    BY RanGrows
  <2>3. IsAllocator(w.allocator)
    BY DEF Sound
  <2> HIDE DEF run
  <2>4. Child(w, tx.base, run.program, given)
    BY <1>1, <2>2, <2>3 DEF Child, Grown, Closes, IsAllocator, AllocatorFields
  <2> QED
    BY <1>1, <2>1, <2>4
<1>2. CASE ~(Admitted(w, tx, limit) /\ run.ok /\ (run.program.frozen => Canonical(run.program)))
  BY <1>2 DEF Applied, Outcome, Refused
<1> QED
  BY <1>1, <1>2

\* A fork adds a child with the program of its base.
LEMMA ForkedMakes ==
    ASSUME NEW w, Sound(w), NEW base \in DOMAIN w.revisions
    PROVE  \E q, given : /\ Child(w, base, q, given)
                         /\ Forked(w, base) = WithRevision(w, base, q, given)
<1> DEFINE given == [w.allocator EXCEPT !.revision = @ + 1]
           q == w.revisions[base].program
<1>1. /\ IsAllocator(given) /\ given.revision = w.allocator.revision + 1
      /\ given.value = w.allocator.value /\ w.allocator.value \in Nat
  BY DEF Sound, IsAllocator, AllocatorFields
<1>2. IsProgram(q) /\ Values(q) \subseteq 1 .. w.allocator.value
  BY DEF Sound
<1>3. Forked(w, base) = WithRevision(w, base, q, given)
  BY DEF Forked
<1> HIDE DEF given
<1>4. Child(w, base, q, given)
  BY <1>1, <1>2 DEF Child
<1> QED
  BY <1>3, <1>4

\* A child more leaves the workspace sound.
LEMMA ChildKeeps ==
    ASSUME NEW w, Sound(w), NEW base \in DOMAIN w.revisions, NEW q, NEW given,
           Child(w, base, q, given)
    PROVE  Sound(WithRevision(w, base, q, given))
<1> DEFINE g == WithRevision(w, base, q, given)
           m == w.allocator.revision
           n == w.allocator.value
           p == w.revisions[base].program
<1>1. /\ m \in Nat /\ n \in Nat /\ given.value \in Nat /\ n <= given.value /\ given.revision = m + 1
      /\ DOMAIN w.revisions = 0 .. m /\ IsAllocator(given)
  BY DEF Sound, Child, IsAllocator
<1>2. /\ g = [revisions |-> g.revisions, head |-> g.head, allocator |-> g.allocator]
      /\ g.allocator = given
  BY DEF WithRevision
<1>3. /\ DOMAIN g.revisions = 0 .. m + 1 /\ g.revisions[m + 1].program = q
      /\ \A r \in 0 .. m : g.revisions[r] = w.revisions[r]
  BY <1>1 DEF WithRevision
<1> HIDE DEF g
<1>4. ASSUME NEW r \in 0 .. m
      PROVE  /\ IsProgram(w.revisions[r].program)
             /\ \A v \in Values(w.revisions[r].program) : v \in 1 .. n
  BY <1>1 DEF Sound
<1>5. ASSUME NEW r \in 0 .. m + 1
      PROVE  IsProgram(g.revisions[r].program) /\ Values(g.revisions[r].program) \subseteq 1 .. given.value
  <2>1. CASE r = m + 1
    BY <1>3, <2>1 DEF Child
  <2>2. CASE r \in 0 .. m
    <3>1. g.revisions[r] = w.revisions[r]
      BY <1>3, <2>2
    <3>2. 1 .. n \subseteq 1 .. given.value
      BY <1>1
    <3> QED
      BY <1>4, <2>2, <3>1, <3>2
  <2> QED
    BY <1>1, <2>1, <2>2
<1>6. ASSUME NEW r \in 0 .. m, NEW v \in Values(w.revisions[r].program) \cap Values(q)
      PROVE  Definition(q, v) = Definition(w.revisions[r].program, v)
  <2>1. v <= n
    BY <1>1, <1>4
  <2>2. v \in Values(p) /\ Definition(q, v) = Definition(p, v)
    BY <2>1 DEF Child
  <2>3. Definition(p, v) = Definition(w.revisions[r].program, v)
    BY <1>1, <2>2 DEF Sound
  <2> QED
    BY <2>2, <2>3
<1>7. ASSUME NEW r \in 0 .. m + 1, NEW s \in 0 .. m + 1,
             NEW v \in Values(g.revisions[r].program) \cap Values(g.revisions[s].program)
      PROVE  Definition(g.revisions[r].program, v) = Definition(g.revisions[s].program, v)
  <2>1. CASE r \in 0 .. m /\ s \in 0 .. m
    <3>1. g.revisions[r] = w.revisions[r] /\ g.revisions[s] = w.revisions[s]
      BY <1>3, <2>1
    <3>2. r \in DOMAIN w.revisions /\ s \in DOMAIN w.revisions
      BY <1>1, <2>1
    <3>3. v \in Values(w.revisions[r].program) \cap Values(w.revisions[s].program)
      BY <3>1
    <3>4. Definition(w.revisions[r].program, v) = Definition(w.revisions[s].program, v)
      BY <3>2, <3>3 DEF Sound
    <3> QED
      BY <3>1, <3>4
  <2>2. CASE r = m + 1 /\ s \in 0 .. m
    BY <1>3, <1>6, <2>2
  <2>3. CASE r \in 0 .. m /\ s = m + 1
    BY <1>3, <1>6, <2>3
  <2>4. CASE r = m + 1 /\ s = m + 1
    BY <2>4
  <2> QED
    BY <1>1, <2>1, <2>2, <2>3, <2>4
<1>8. Sound(g)
  BY <1>1, <1>2, <1>3, <1>5, <1>7 DEF Sound
<1> QED
  BY <1>8 DEF g
---------------------------------------------------------------------------
\* What a step does to the workspace: nothing, or it adds a child of a revision.
Adds(base) ==
    \E q, given : /\ Child(Current, base, q, given)
                  /\ Current' = WithRevision(Current, base, q, given)

\* The empty workspace is sound.
LEMMA InitSound == Init => IInv
<1> SUFFICES ASSUME Init PROVE IInv
  OBVIOUS
<1>1. Current = NewWorkspace
  BY DEF Init, Current, NewWorkspace
<1>2. /\ NewWorkspace.allocator = [value |-> 0, revision |-> 0, transaction |-> 0]
      /\ DOMAIN NewWorkspace.revisions = {0} /\ NewWorkspace.revisions[0].program = EmptyProgram
      /\ NewWorkspace = [revisions |-> NewWorkspace.revisions, head |-> NewWorkspace.head,
                         allocator |-> NewWorkspace.allocator]
  BY DEF NewWorkspace, RootRevision
<1>3. IsProgram(EmptyProgram) /\ Values(EmptyProgram) = {}
  BY DEF EmptyProgram, IsProgram, ProgramFields, Values
<1>4. {0} = 0 .. 0 /\ IsAllocator(NewWorkspace.allocator)
  BY <1>2 DEF IsAllocator, AllocatorFields
<1> HIDE DEF NewWorkspace
<1>5. Sound(NewWorkspace)
  BY <1>2, <1>3, <1>4 DEF Sound
<1> QED
  BY <1>1, <1>5 DEF IInv

\* After a request the workspace is what the request made.
LEMMA BecomeIs ==
    ASSUME NEW w, w = [revisions |-> w.revisions, head |-> w.head, allocator |-> w.allocator],
           NEW event, Become(w, event)
    PROVE  Current' = w
  BY DEF Become, Current

\* A step leaves the workspace alone or adds a child.
LEMMA StepAdds ==
    ASSUME IInv, Next
    PROVE  UNCHANGED <<revisions, head, allocator>> \/ \E base \in DOMAIN revisions : Adds(base)
<1>1. Current.revisions = revisions /\ Current.head = head /\ Current.allocator = allocator
  BY DEF Current
<1>2. ASSUME NEW base \in DOMAIN revisions, NEW script \in Scripts, NEW allow,
             Apply([base |-> base, script |-> script, allow_branch |-> allow])
      PROVE  UNCHANGED <<revisions, head, allocator>> \/ Adds(base)
  <2> DEFINE tx == [base |-> base, script |-> script, allow_branch |-> allow]
             w == Applied(Current, tx, ValuesPerProgram)
  <2>1. Become(w, tx)
    BY <1>2 DEF Apply
  <2>2. tx.base = base /\ tx.script = script
    OBVIOUS
  <2> HIDE DEF tx, w
  <2>3. CASE w = Current
    BY <1>1, <2>1, <2>3 DEF Become
  <2>4. CASE \E q, given : /\ Child(Current, base, q, given)
                           /\ w = WithRevision(Current, base, q, given)
    <3>1. PICK q, given : /\ Child(Current, base, q, given)
                          /\ w = WithRevision(Current, base, q, given)
      BY <2>4
    <3>2. w = [revisions |-> w.revisions, head |-> w.head, allocator |-> w.allocator]
      BY <3>1 DEF WithRevision
    <3>3. Current' = w
      BY <2>1, <3>2, BecomeIs
    <3> QED
      BY <3>1, <3>3 DEF Adds
  <2> QED
    BY <1>1, <2>2, <2>3, <2>4, AppliedMakes DEF IInv, w
<1>3. ASSUME NEW base \in DOMAIN revisions, Fork(base) PROVE Adds(base)
  <2>1. Become(Forked(Current, base), [forked |-> base])
    BY <1>3 DEF Fork
  <2>2. PICK q, given : /\ Child(Current, base, q, given)
                        /\ Forked(Current, base) = WithRevision(Current, base, q, given)
    BY <1>1, ForkedMakes DEF IInv
  <2> DEFINE w == WithRevision(Current, base, q, given)
  <2>3. w = [revisions |-> w.revisions, head |-> w.head, allocator |-> w.allocator]
    BY DEF WithRevision
  <2> HIDE DEF w
  <2>4. Current' = w
    BY <2>1, <2>2, <2>3, BecomeIs DEF w
  <2> QED
    BY <2>2, <2>4 DEF Adds, w
<1> QED
  BY <1>2, <1>3 DEF Next

\* A step keeps the workspace sound.
LEMMA NextSound == IInv /\ [Next]_vars => IInv'
<1>1. ASSUME IInv, Next PROVE IInv'
  <2>1. CASE UNCHANGED <<revisions, head, allocator>>
    BY <1>1, <2>1 DEF IInv, Current
  <2>2. CASE \E base \in DOMAIN revisions : Adds(base)
    <3>1. PICK base \in DOMAIN Current.revisions : Adds(base)
      BY <2>2 DEF Current
    <3>2. PICK q, given : /\ Child(Current, base, q, given)
                          /\ Current' = WithRevision(Current, base, q, given)
      BY <3>1 DEF Adds
    <3>3. Sound(WithRevision(Current, base, q, given))
      BY <1>1, <3>2, ChildKeeps DEF IInv
    <3>4. Sound(Current')
      BY <3>2, <3>3
    <3> QED
      BY <3>4 DEF IInv, Sound, Current
  <2> QED
    BY <1>1, <2>1, <2>2, StepAdds
<1>2. ASSUME IInv, UNCHANGED vars PROVE IInv'
  BY <1>2 DEF IInv, Current, vars
<1> QED
  BY <1>1, <1>2

(***************************************************************************)
(* Every revision, the fork's and the transaction's, is sound: the         *)
(* allocator is never behind a value or a revision that was given out      *)
(* (ids.rs, IdAllocator).                                                  *)
(***************************************************************************)
THEOREM WorkspaceInductive == Spec => []IInv
  BY InitSound, NextSound, PTL DEF Spec

(***************************************************************************)
(* "Persistent IDs come from the compiler": an id names one value on every *)
(* branch, however branches interleave and whatever transactions fail      *)
(* after they were given ids (ids.rs, IdAllocator; workspace.rs, the       *)
(* staged allocator of apply_with_semantics_at).                           *)
(***************************************************************************)
THEOREM IdsAlwaysNameOneThing == Spec => []IdsNameOneThing
<1>1. IInv => IdsNameOneThing
  BY DEF IInv, Sound, Current, IdsNameOneThing
<1> QED
  BY <1>1, WorkspaceInductive, PTL
---------------------------------------------------------------------------
\* The mapping: the programs and the parents of the revisions.
programs == [r \in DOMAIN revisions |-> revisions[r].program]
parents == [r \in DOMAIN revisions |-> revisions[r].parent]

\* A child that is added is a step of the history.
LEMMA AddsChild ==
    ASSUME IInv, NEW base \in DOMAIN revisions, Adds(base)
    PROVE  History!Next
<1> DEFINE m == allocator.revision
<1>1. PICK q, given : /\ Child(Current, base, q, given)
                      /\ Current' = WithRevision(Current, base, q, given)
  BY DEF Adds
<1>2. /\ m \in Nat /\ DOMAIN revisions = 0 .. m /\ given.revision = m + 1
      /\ revisions[base].program.frozen => q = revisions[base].program
  BY <1>1 DEF IInv, Sound, Child, Current, IsAllocator
<1>3. /\ revisions' = [r \in DOMAIN revisions \cup {m + 1} |->
                          IF r = m + 1 THEN [program |-> q, parent |-> base] ELSE revisions[r]]
      /\ head' = m + 1
  <2>1. /\ revisions' = WithRevision(Current, base, q, given).revisions
        /\ head' = WithRevision(Current, base, q, given).head
    BY <1>1 DEF Current
  <2> QED
    BY <2>1, <1>2 DEF Current, WithRevision
<1> HIDE DEF m
<1>4. /\ DOMAIN revisions' = DOMAIN revisions \cup {m + 1} /\ m + 1 \notin DOMAIN revisions
      /\ revisions'[m + 1].program = q /\ revisions'[m + 1].parent = base
      /\ \A r \in DOMAIN revisions : revisions'[r] = revisions[r]
  BY <1>2, <1>3
<1>5. /\ programs' = [r \in DOMAIN programs \cup {m + 1} |->
                         IF r = m + 1 THEN programs'[m + 1] ELSE programs[r]]
      /\ programs'[m + 1] = q /\ m + 1 \in DOMAIN programs' /\ m + 1 \notin DOMAIN programs
      /\ base \in DOMAIN programs /\ programs[base] = revisions[base].program
  BY <1>4 DEF programs
<1>6. parents' = [r \in DOMAIN parents \cup {m + 1} |->
                     IF r = m + 1 THEN base ELSE parents[r]]
  BY <1>4 DEF parents
<1>7. \E b \in DOMAIN programs : \E r \in DOMAIN programs' : History!AddChild(b, r)
  BY <1>2, <1>3, <1>5, <1>6 DEF History!AddChild, History!Extends, programs, parents
<1> QED
  BY <1>7 DEF History!Next, programs

(***************************************************************************)
(* The revisions are an immutable history: a step adds at most one child   *)
(* of a revision there is, which becomes the head, and the child of a      *)
(* frozen revision equals it, whatever a script does (workspace.rs,        *)
(* apply_with_semantics_at and fork_with_semantics_at).                    *)
(***************************************************************************)
THEOREM WorkspaceImplementsHistory == Spec => ImplementsHistory
<1>1. Init => History!Init
  BY DEF Init, NewWorkspace, History!Init
<1>2. IInv /\ [Next]_vars => [History!Next]_(History!historyVars)
  <2>1. ASSUME IInv, Next PROVE [History!Next]_(History!historyVars)
    <3>1. CASE UNCHANGED <<revisions, head, allocator>>
      BY <3>1 DEF History!historyVars
    <3>2. CASE \E base \in DOMAIN revisions : Adds(base)
      BY <2>1, <3>2, AddsChild
    <3> QED
      BY <2>1, <3>1, <3>2, StepAdds
  <2>2. ASSUME UNCHANGED vars PROVE UNCHANGED History!historyVars
    BY <2>2 DEF vars, History!historyVars
  <2> QED
    BY <2>1, <2>2
<1> QED
  BY <1>1, <1>2, WorkspaceInductive, PTL DEF Spec, ImplementsHistory, History!Spec
---------------------------------------------------------------------------
IsLog(log) == \E S : log \in Seq(S)

\* A log with an event more is a log.
LEMMA LogGrows ==
    ASSUME NEW log, IsLog(log), NEW event
    PROVE  IsLog(Append(log, event))
<1>1. PICK S : log \in Seq(S)
  BY DEF IsLog
<1>2. Append(log, event) \in Seq(S \cup {event})
  BY <1>1
<1> QED
  BY <1>2 DEF IsLog

\* Replaying a log is applying its events in order.
LEMMA ReplayedIs ==
    ASSUME NEW log, NEW limit
    PROVE  Replayed(log, limit) = Replaying!Fold(limit, NewWorkspace, log)
  BY DEF Replayed, LogOp, Replaying!Fold, Replaying!FoldLeft, FoldLeft, Replaying!MapThenFoldSet,
         MapThenFoldSet, Replaying!Max, Max

\* Replaying an event more is applying it to what the others made.
LEMMA ReplayedOne ==
    ASSUME NEW log, IsLog(log), NEW event, NEW limit
    PROVE  Replayed(Append(log, event), limit) = Reapplied(Replayed(log, limit), event, limit)
<1>1. PICK S : log \in Seq(S)
  BY DEF IsLog
<1> QED
  BY <1>1, ReplayedIs, Replaying!FoldAppend DEF LogOp

\* What is admitted interactively is admitted when it is replayed.
LEMMA AdmittedAgain ==
    ASSUME NEW w, Sound(w), NEW tx, tx.script \in Scripts, Admitted(w, tx, ValuesPerProgram)
    PROVE  Admitted(w, tx, HardValueCap)
<1> DEFINE p == w.revisions[tx.base].program
           script == tx.script
           makers == {i \in DOMAIN script : script[i].do \in {"parameter", "hole", "op"}}
<1>1. tx.base \in DOMAIN w.revisions /\ Projected(p, script) <= ValuesPerProgram
  BY DEF Admitted
<1>2. Cardinality(Values(p)) \in Nat
  <2>1. Values(p) \subseteq 1 .. w.allocator.value /\ w.allocator.value \in Nat
    BY <1>1 DEF Sound, IsAllocator
  <2>2. IsFiniteSet(1 .. w.allocator.value)
    BY <2>1, FS_Interval
  <2> QED
    BY <2>1, <2>2, FS_Subset, FS_CardinalityType
<1>3. Cardinality(makers) \in Nat
  <2>1. script \in Seq(ToSet(script))
    BY ScriptsAssumption
  <2> HIDE DEF script
  <2>2. Len(script) \in Nat /\ DOMAIN script = 1 .. Len(script)
    BY <2>1
  <2>3. IsFiniteSet(1 .. Len(script)) /\ makers \subseteq 1 .. Len(script)
    BY <2>2, FS_Interval
  <2> HIDE DEF makers
  <2> QED
    BY <2>3, FS_Subset, FS_CardinalityType
<1>4. Projected(p, script) = Cardinality(Values(p)) + Cardinality(makers)
  BY DEF Projected
<1> HIDE DEF makers
<1>5. Projected(p, script) <= HardValueCap
  BY <1>1, <1>2, <1>3, <1>4, LimitsAssumption
<1> QED
  BY <1>5 DEF Admitted

RInv == IsLog(events) /\ HistoryReplays

\* The empty log replays to the empty workspace.
LEMMA InitReplays == Init => RInv
<1> SUFFICES ASSUME Init PROVE RInv
  OBVIOUS
<1>1. events = <<>> /\ Current = NewWorkspace
  BY DEF Init, Current, NewWorkspace
<1>2. <<>> \in Seq({})
  OBVIOUS
<1>3. IsLog(<<>>) /\ DOMAIN <<>> = {}
  BY <1>2 DEF IsLog
<1>4. Replayed(<<>>, HardValueCap) = NewWorkspace
  BY <1>3, ReplayedIs, Replaying!FoldEmpty
<1> QED
  BY <1>1, <1>3, <1>4 DEF RInv, HistoryReplays

\* A request and its event: the log gets the event exactly when the request made a revision.
LEMMA LoggedReplays ==
    ASSUME IInv, RInv, NEW w, NEW event, Become(w, event),
           \/ w = Current
           \/ /\ w.allocator.revision # allocator.revision
              /\ w = [revisions |-> w.revisions, head |-> w.head, allocator |-> w.allocator]
              /\ Reapplied(Current, event, HardValueCap) = w
    PROVE  RInv'
<1>1. CASE w = Current
  <2>1. Current' = Current /\ events' = events
    BY <1>1 DEF Become, Current
  <2> QED
    BY <2>1 DEF RInv, HistoryReplays
<1>2. CASE /\ w.allocator.revision # allocator.revision
           /\ w = [revisions |-> w.revisions, head |-> w.head, allocator |-> w.allocator]
           /\ Reapplied(Current, event, HardValueCap) = w
  <2>1. Current' = w
    BY <1>2, BecomeIs
  <2>2. events' = Append(events, event)
    BY <1>2 DEF Become
  <2>3. Replayed(events', HardValueCap) = w
    BY <1>2, <2>2, ReplayedOne DEF RInv, HistoryReplays
  <2> QED
    BY <2>1, <2>2, <2>3, LogGrows DEF RInv, HistoryReplays
<1> QED
  BY <1>1, <1>2

\* A step keeps the log replaying to the workspace.
LEMMA NextReplays == IInv /\ RInv /\ [Next]_vars => RInv'
<1>1. Current.revisions = revisions /\ Current.head = head /\ Current.allocator = allocator
  BY DEF Current
<1>2. ASSUME IInv, NEW base \in DOMAIN revisions, NEW q, NEW given, Child(Current, base, q, given),
             NEW w, w = WithRevision(Current, base, q, given)
      PROVE  /\ w.allocator.revision # allocator.revision
             /\ w = [revisions |-> w.revisions, head |-> w.head, allocator |-> w.allocator]
  <2>1. allocator.revision \in Nat /\ given.revision = allocator.revision + 1
    BY <1>1, <1>2 DEF Child, IInv, Sound, IsAllocator
  <2> QED
    BY <1>2, <2>1 DEF WithRevision
<1>3. ASSUME IInv, RInv, NEW base \in DOMAIN revisions, NEW script \in Scripts, NEW allow,
             Apply([base |-> base, script |-> script, allow_branch |-> allow])
      PROVE  RInv'
  <2> DEFINE tx == [base |-> base, script |-> script, allow_branch |-> allow]
             w == Applied(Current, tx, ValuesPerProgram)
  <2>1. Become(w, tx)
    BY <1>3 DEF Apply
  <2>2. tx.base = base /\ tx.script = script /\ "forked" \notin DOMAIN tx
    OBVIOUS
  <2> HIDE DEF tx
  <2>3. Reapplied(Current, tx, HardValueCap) = Applied(Current, tx, HardValueCap)
    BY <2>2 DEF Reapplied
  <2>4. CASE w = Current
    <3> HIDE DEF w
    <3> QED
      BY <1>3, <2>1, <2>4, LoggedReplays
  <2>5. CASE \E q, given : /\ Child(Current, base, q, given)
                           /\ Admitted(Current, tx, ValuesPerProgram)
                           /\ w = WithRevision(Current, base, q, given)
    <3>1. Admitted(Current, tx, ValuesPerProgram)
      BY <2>5
    <3>2. Admitted(Current, tx, HardValueCap)
      BY <1>3, <2>2, <3>1, AdmittedAgain DEF IInv
    <3>3. Applied(Current, tx, HardValueCap) = w
      BY <3>1, <3>2 DEF Applied
    <3> HIDE DEF w
    <3>4. /\ w.allocator.revision # allocator.revision
          /\ w = [revisions |-> w.revisions, head |-> w.head, allocator |-> w.allocator]
      BY <1>2, <1>3, <2>5
    <3> QED
      BY <1>3, <2>1, <2>3, <3>3, <3>4, LoggedReplays
  <2> QED
    BY <1>1, <1>3, <2>2, <2>4, <2>5, AppliedMakes DEF IInv
<1>4. ASSUME IInv, RInv, NEW base \in DOMAIN revisions, Fork(base) PROVE RInv'
  <2> DEFINE event == [forked |-> base]
             w == Forked(Current, base)
  <2>1. Become(w, event)
    BY <1>4 DEF Fork
  <2>2. event.forked = base /\ "forked" \in DOMAIN event
    OBVIOUS
  <2> HIDE DEF event
  <2>3. Reapplied(Current, event, HardValueCap) = w
    BY <2>2 DEF Reapplied
  <2>4. PICK q, given : Child(Current, base, q, given) /\ w = WithRevision(Current, base, q, given)
    BY <1>1, <1>4, ForkedMakes DEF IInv
  <2> HIDE DEF w
  <2>5. /\ w.allocator.revision # allocator.revision
        /\ w = [revisions |-> w.revisions, head |-> w.head, allocator |-> w.allocator]
    BY <1>2, <1>4, <2>4
  <2> QED
    BY <1>4, <2>1, <2>3, <2>5, LoggedReplays
<1>5. ASSUME RInv, UNCHANGED vars PROVE RInv'
  BY <1>5 DEF RInv, HistoryReplays, Current, vars
<1> QED
  BY <1>3, <1>4, <1>5 DEF Next

(***************************************************************************)
(* "Rejected transactions change neither graph, head nor ID allocator":    *)
(* whatever was refused in between, the log of the accepted requests,      *)
(* applied again from an empty workspace and under the hard limits, makes  *)
(* the same revisions, head and allocator (workspace.rs, from_snapshot).   *)
(***************************************************************************)
THEOREM HistoryAlwaysReplays == Spec => []HistoryReplays
<1>1. RInv => HistoryReplays
  BY DEF RInv
<1> QED
  BY <1>1, InitReplays, NextReplays, WorkspaceInductive, PTL DEF Spec
---------------------------------------------------------------------------
\* The fact engine, whose queries are sound (FactTableProofs).
Shapes == {q \in Seq(Dims) : IsShape(q)}
Equalities == [left : Shapes, right : Shapes]
Engine == INSTANCE FactTableProofs WITH Queries <- Shapes, Requests <- Equalities, facts <- NoFacts

\* Its constants are what its assumptions ask.
LEMMA EngineFits ==
    /\ \A q \in Shapes : Engine!IsShape(q)
    /\ Equalities \subseteq [left : Shapes, right : Shapes]
  BY DEF Shapes, Equalities, IsShape, Engine!IsShape, Dims, Engine!Dims, IsStatic, Engine!IsStatic,
         NoSymbol, Engine!NoSymbol

\* A shape a program may use.
KnownShape(q, dims) == IsShape(q) /\ SymbolsOf(q) \subseteq dims

\* The facts of a run are what the constraints of its program say: every assignment that
\* satisfies these agrees with them.
GoodFacts(f, p) ==
    /\ Engine!Table(f) /\ f.conflict = FALSE
    /\ Declared(f) = p.dims
    /\ f.accepted \subseteq ToSet(p.constraints)
    /\ \A val \in Admitting(p) : Engine!Holds(f, val)

\* The operators of the fact engine mean the same in the instance: its shapes,
LEMMA EngineShape ==
    ASSUME NEW q, NEW f
    PROVE  /\ Engine!ShapeOk(f, q) <=> KnownShape(q, Declared(f))
           /\ Engine!Declared(f) = Declared(f)
           /\ IsShape(q) => q \in Shapes
<1>1. Engine!Declared(f) = Declared(f)
  BY DEF Engine!Declared, Declared, Engine!NoSymbol, NoSymbol
<1>2. Engine!SymbolsOf(q) = SymbolsOf(q)
  BY DEF Engine!SymbolsOf, SymbolsOf, Engine!NoSymbol, NoSymbol
<1>3. Engine!IsShape(q) = IsShape(q)
  BY DEF IsShape, Engine!IsShape, Dims, Engine!Dims, IsStatic, Engine!IsStatic, NoSymbol,
         Engine!NoSymbol
<1>4. IsShape(q) => q \in Shapes
  BY DEF IsShape, Shapes
<1> QED
  BY <1>1, <1>2, <1>3, <1>4 DEF Engine!ShapeOk, KnownShape

\* what an equality says,
LEMMA EngineMeaning ==
    ASSUME NEW l, NEW r, NEW val
    PROVE  /\ Engine!Equal(l, r, val) <=> Equal(l, r, val)
           /\ \A S : Engine!Satisfies(val, S) <=> Satisfies(val, S)
  BY DEF Engine!Satisfies, Satisfies, Engine!Equal, Equal, Engine!Extent, Extent, Engine!IsStatic,
         IsStatic, Engine!NoSymbol, NoSymbol

\* what is answered,
LEMMA EngineQuery ==
    ASSUME NEW f, NEW l, NEW r
    PROVE  Engine!Query(f, l, r) = Query(f, l, r)
  BY DEF Engine!Query, Query, Engine!Contradicts, Contradicts, Engine!SameNormal, SameNormal,
         Engine!Clash, Clash, Engine!NormalizeDim, NormalizeDim, Engine!Root, Root, Engine!IsStatic,
         IsStatic, Engine!NoSymbol, NoSymbol, Engine!Unbound, Unbound, Engine!Static, Static

\* and what an equality adds.
LEMMA EngineStaged ==
    ASSUME NEW f, NEW c
    PROVE  Engine!Staged(f, c) = Staged(f, c)
<1>1. /\ Engine!NoSymbol = NoSymbol /\ Engine!Unbound = Unbound
      /\ \A d : Engine!IsSymbol(d) = IsSymbol(d) /\ Engine!IsStatic(d) = IsStatic(d)
  BY DEF NoSymbol, Engine!NoSymbol, Unbound, Engine!Unbound, IsSymbol, Engine!IsSymbol, IsStatic,
         Engine!IsStatic
<1>2. \A t, s, u : Engine!Union(t, s, u) = Union(t, s, u)
  BY <1>1 DEF Engine!Union, Union, Engine!Redirected, Redirected, Engine!JoinedExtent, JoinedExtent,
              Engine!ExtentsDiffer, ExtentsDiffer, Engine!Earlier, Earlier, Engine!Root, Root
<1>3. \A t, s, v : Engine!BindStatic(t, s, v) = BindStatic(t, s, v)
  BY <1>1 DEF Engine!BindStatic, BindStatic, Engine!Root, Root
<1>4. \A t, l, r : Engine!AddEqualityFact(t, l, r) = AddEqualityFact(t, l, r)
  BY <1>1, <1>2, <1>3 DEF Engine!AddEqualityFact, AddEqualityFact
<1>5. \A t, l, r, i : Engine!AddDimFact(t, l, r, i) = AddDimFact(t, l, r, i)
  BY <1>4 DEF Engine!AddDimFact, AddDimFact
<1> QED
  BY <1>5 DEF Engine!Staged, Staged, Engine!Accept, Accept, Engine!AddShapeFact, AddShapeFact

\* What is answered proved holds under every assignment the constraints admit.
LEMMA ProvedHolds ==
    ASSUME NEW p, NEW f, GoodFacts(f, p), NEW l, NEW r, KnownShape(l, p.dims), KnownShape(r, p.dims),
           Query(f, l, r) = "proved", NEW val \in Admitting(p)
    PROVE  Equal(l, r, val)
<1>1. /\ val \in [Symbols -> Nat] /\ Satisfies(val, ToSet(p.constraints))
  BY ValuationsAssumption DEF Admitting
<1>2. Satisfies(val, f.accepted)
  BY <1>1 DEF Satisfies, GoodFacts
<1>3. Engine!Table(f) /\ Engine!Holds(f, val) /\ Engine!ShapeOk(f, l) /\ Engine!ShapeOk(f, r)
  BY EngineShape DEF GoodFacts
<1>4. Engine!Satisfies(val, f.accepted) /\ Engine!Query(f, l, r) = "proved"
  BY <1>2, EngineMeaning, EngineQuery
<1>5. Engine!Equal(l, r, val)
  BY <1>1, <1>3, <1>4, Engine!AnswersAgree, EngineFits, SymbolsAssumption, ValuationsAssumption
<1> QED
  BY <1>5, EngineMeaning

\* An equality that is accepted and is among the constraints.
LEMMA LearnedGood ==
    ASSUME NEW p, NEW f, GoodFacts(f, p), NEW c \in Equalities, InsertOk(f, c),
           NEW q, q.dims = p.dims, ToSet(q.constraints) = ToSet(p.constraints) \cup {c}
    PROVE  GoodFacts(Extended(f, c), q)
<1>1. Admitting(q) \subseteq Admitting(p) /\ \A val \in Admitting(q) : Equal(c.left, c.right, val)
  BY DEF Admitting, Satisfies
<1>2. CASE c \in f.accepted
  BY <1>1, <1>2 DEF Extended, GoodFacts
<1>3. CASE c \notin f.accepted
  <2> DEFINE g == Staged(f, c)
  <2>1. Extended(f, c) = g
    BY <1>3 DEF Extended
  <2>2. /\ SymbolsOf(c.left) \cup SymbolsOf(c.right) \subseteq Declared(f)
        /\ ~Contradicts(f, c.left, c.right) /\ ~g.conflict
    BY <1>3 DEF InsertOk, Consistent
  <2>3. Len(c.left) = Len(c.right)
    BY <2>2 DEF Contradicts
  <2>4. Engine!ShapeOk(f, c.left) /\ Engine!ShapeOk(f, c.right)
    BY <2>2, EngineShape DEF Equalities, Shapes, KnownShape
  <2>5. g = Engine!Staged(f, c)
    BY EngineStaged
  <2> HIDE DEF g
  <2>6. Engine!Table(f)
    BY DEF GoodFacts
  <2>7. /\ Engine!Table(g) /\ Engine!Declared(g) = Engine!Declared(f) /\ g.accepted = f.accepted \cup {c}
        /\ \A val \in [Symbols -> Nat] :
              Engine!Holds(f, val) /\ Engine!Equal(c.left, c.right, val)
                  => Engine!Holds(g, val) /\ g.conflict = f.conflict
    BY <2>3, <2>4, <2>5, <2>6, Engine!StagedTable, EngineFits, SymbolsAssumption, ValuationsAssumption
  <2>8. g.conflict = FALSE
    BY <2>2, <2>7 DEF Engine!Table
  <2>9. Declared(g) = q.dims
    BY <2>7, EngineShape DEF GoodFacts
  <2>10. \A val \in Admitting(q) : Engine!Holds(g, val)
    <3> TAKE val \in Admitting(q)
    <3>1. val \in [Symbols -> Nat]
      BY ValuationsAssumption DEF Admitting
    <3>2. Engine!Holds(f, val) /\ Engine!Equal(c.left, c.right, val)
      BY <1>1, EngineMeaning DEF GoodFacts
    <3> QED
      BY <2>7, <3>1, <3>2
  <2> QED
    BY <2>1, <2>7, <2>8, <2>9, <2>10 DEF GoodFacts
<1> QED
  BY <1>2, <1>3

\* A symbol that is declared anew.
LEMMA DeclaredGood ==
    ASSUME NEW p, NEW f, GoodFacts(f, p), NEW s \in Symbols \ p.dims,
           NEW q, q.dims = p.dims \cup {s}, q.constraints = p.constraints
    PROVE  GoodFacts(DeclareSymbol(f, s), q)
<1> DEFINE g == DeclareSymbol(f, s)
<1>1. Engine!Table(f) /\ s \in Symbols \ Engine!Declared(f)
  BY EngineShape DEF GoodFacts
<1>2. g = Engine!DeclareSymbol(f, s)
  BY DEF DeclareSymbol, Engine!DeclareSymbol
<1> HIDE DEF g
<1>3. /\ Engine!Table(g) /\ Engine!Declared(g) = Engine!Declared(f) \cup {s}
      /\ g.accepted = f.accepted /\ g.conflict = f.conflict
      /\ \A val \in [Symbols -> Nat] : Engine!Holds(f, val) => Engine!Holds(g, val)
  BY <1>1, <1>2, Engine!DeclareTable, EngineFits, SymbolsAssumption, ValuationsAssumption
<1>4. Admitting(q) = Admitting(p)
  BY DEF Admitting
<1>5. \A val \in Admitting(p) : val \in [Symbols -> Nat]
  BY ValuationsAssumption DEF Admitting
<1>6. Declared(g) = q.dims
  BY <1>3, EngineShape DEF GoodFacts
<1>7. GoodFacts(g, q)
  BY <1>3, <1>4, <1>5, <1>6 DEF GoodFacts
<1> QED
  BY <1>7 DEF g
---------------------------------------------------------------------------
\* What is compared holds under every assignment the constraints admit, or is owed.
Owed(p, l, r) ==
    [left |-> l, right |-> r] \in p.debts \/ \A val \in Admitting(p) : Equal(l, r, val)
Owes(p) ==
    \A v \in Operations(p) \cup PlainHoles(p) : \A w \in Sources(p, v) \cap Values(p) :
        Owed(p, p.values[v].shape, p.values[w].shape)

IsHole(x) == x = [origin |-> x.origin, shape |-> x.shape, local |-> x.local, filled |-> x.filled]

\* The values of a program, whose sources and output are values.
GoodValues(p) ==
    /\ \A v \in Values(p) : KnownShape(p.values[v].shape, p.dims)
    /\ \A v \in Values(p) : Sources(p, v) \subseteq Values(p) \cup {NoValue}
    /\ \A h \in Holes(p) : IsHole(p.values[h])
    /\ p.output \in Values(p) \cup {NoValue}

GoodProgram(p) ==
    /\ p.dims \subseteq Symbols
    /\ p.constraints \in Seq(Equalities)
    /\ GoodValues(p)
    /\ Owes(p)
    /\ p.frozen => RequireComplete(p)

GoodRun(run) ==
    /\ GoodProgram(run.program)
    /\ GoodFacts(run.facts, run.program)
    /\ run.bound \in Seq(Values(run.program))

\* A program q after p has what p has, and settles what p owes or owes it still.
Settles(p, q) ==
    /\ Admitting(q) \subseteq Admitting(p)
    /\ \A l, r : /\ KnownShape(l, p.dims) /\ KnownShape(r, p.dims)
                 /\ Owed(p, l, r)
                 => Owed(q, l, r)

\* A program that admits no more and owes no less settles what was owed.
LEMMA SettlesByDebts ==
    ASSUME NEW p, NEW q, Admitting(q) \subseteq Admitting(p), p.debts \subseteq q.debts
    PROVE  Settles(p, q)
  BY DEF Settles, Owed

\* The same values under more constraints.
LEMMA SameValuesGood ==
    ASSUME NEW p, NEW q, GoodValues(p), Owes(p), q.values = p.values, p.dims \subseteq q.dims,
           q.output \in Values(p) \cup {NoValue}, Settles(p, q)
    PROVE  GoodValues(q) /\ Owes(q)
<1>1. /\ Values(q) = Values(p) /\ Operations(q) = Operations(p) /\ Holes(q) = Holes(p)
      /\ PlainHoles(q) = PlainHoles(p)
      /\ \A v : Sources(q, v) = Sources(p, v)
  BY DEF Values, Operations, Holes, PlainHoles, Sources
<1>2. Owes(q)
  <2>1. \A v \in Values(p) : KnownShape(p.values[v].shape, p.dims)
    BY DEF GoodValues
  <2>2. Operations(p) \cup PlainHoles(p) \subseteq Values(p)
    BY DEF Operations, PlainHoles, Holes
  <2> QED
    BY <1>1, <2>1, <2>2 DEF Owes, Settles
<1>3. GoodValues(q)
  BY <1>1 DEF GoodValues, KnownShape
<1> QED
  BY <1>2, <1>3

\* A value more, which no value had as a source.
GoodDefinition(p, q, x) ==
    /\ KnownShape(x.shape, p.dims)
    /\ x.origin = "operation" => /\ ToSet(x.operands) \subseteq Values(p)
                                 /\ \A w \in ToSet(x.operands) : Owed(q, x.shape, p.values[w].shape)
    /\ x.origin = "hole" => IsHole(x) /\ x.filled = NoValue

\* It leaves the values good, and its comparisons owed or true.
LEMMA OneMoreGood ==
    ASSUME NEW p, NEW q, GoodValues(p), Owes(p), NEW id, id \notin Values(p), id # NoValue,
           NoValue \notin Values(p), NEW x, GoodDefinition(p, q, x), Settles(p, q),
           q.values = [v \in Values(p) \cup {id} |-> IF v = id THEN x ELSE p.values[v]],
           q.dims = p.dims, q.output = p.output
    PROVE  GoodValues(q) /\ Owes(q)
<1>1. /\ Values(q) = Values(p) \cup {id} /\ q.values[id] = x
      /\ \A v \in Values(p) : q.values[v] = p.values[v]
  BY DEF Values
<1>2. ASSUME NEW v \in Values(p)
      PROVE  /\ v # id /\ Sources(q, v) = Sources(p, v)
             /\ v \in Operations(q) <=> v \in Operations(p)
             /\ v \in Holes(q) <=> v \in Holes(p)
             /\ v \in PlainHoles(q) <=> v \in PlainHoles(p)
             /\ Sources(q, v) \cap Values(q) = Sources(p, v) \cap Values(p)
  <2>1. /\ v \in Operations(q) <=> v \in Operations(p)
        /\ v \in Holes(q) <=> v \in Holes(p)
        /\ q.values[v] = p.values[v] /\ v \in Values(q)
    BY <1>1 DEF Operations, Holes
  <2>2. v \in PlainHoles(q) <=> v \in PlainHoles(p)
    BY <2>1 DEF PlainHoles
  <2>3. Sources(q, v) = Sources(p, v)
    BY <2>1 DEF Sources
  <2>4. Sources(p, v) \subseteq Values(p) \cup {NoValue}
    BY DEF GoodValues
  <2> QED
    BY <1>1, <2>1, <2>2, <2>3, <2>4
<1>3. /\ id \in Operations(q) <=> x.origin = "operation"
      /\ id \in Holes(q) <=> x.origin = "hole"
  BY <1>1 DEF Operations, Holes
<1>4. /\ id \in Operations(q) => Sources(q, id) = ToSet(x.operands)
      /\ id \in Holes(q) => Sources(q, id) = {NoValue}
      /\ id \notin Operations(q) /\ id \notin Holes(q) => Sources(q, id) = {}
  BY <1>1, <1>3 DEF Sources, GoodDefinition
<1>5. Sources(q, id) \subseteq Values(p) \cup {NoValue}
  BY <1>3, <1>4 DEF GoodDefinition
<1>6. GoodValues(q)
  <2>1. \A v \in Values(q) : KnownShape(q.values[v].shape, q.dims)
    BY <1>1 DEF GoodValues, GoodDefinition
  <2>2. \A v \in Values(q) : Sources(q, v) \subseteq Values(q) \cup {NoValue}
    BY <1>1, <1>2, <1>5 DEF GoodValues
  <2>3. \A h \in Holes(q) : IsHole(q.values[h])
    <3> TAKE h \in Holes(q)
    <3>1. h \in Values(q)
      BY DEF Holes
    <3>2. CASE h = id
      BY <1>1, <1>3, <3>2 DEF GoodDefinition
    <3>3. CASE h \in Values(p)
      BY <1>1, <1>2, <3>3 DEF GoodValues
    <3> QED
      BY <1>1, <3>1, <3>2, <3>3
  <2>4. q.output \in Values(q) \cup {NoValue}
    BY <1>1 DEF GoodValues
  <2> QED
    BY <2>1, <2>2, <2>3, <2>4 DEF GoodValues
<1>7. ASSUME NEW v \in Operations(q) \cup PlainHoles(q), NEW w \in Sources(q, v) \cap Values(q)
      PROVE  Owed(q, q.values[v].shape, q.values[w].shape)
  <2>1. v \in Values(q)
    BY DEF Operations, PlainHoles, Holes
  <2>2. CASE v = id
    <3>1. v \in Operations(q)
      <4>1. CASE v \in PlainHoles(q)
        <5>1. v \in Holes(q)
          BY <4>1 DEF PlainHoles
        <5>2. w = NoValue
          BY <1>4, <2>2, <5>1
        <5> QED
          BY <1>1, <5>2
      <4> QED
        BY <4>1
    <3>2. w \in ToSet(x.operands)
      BY <1>4, <2>2, <3>1
    <3>3. w \in Values(p) /\ Owed(q, x.shape, p.values[w].shape)
      BY <1>3, <2>2, <3>1, <3>2 DEF GoodDefinition
    <3> QED
      BY <1>1, <2>2, <3>3
  <2>3. CASE v \in Values(p)
    <3>1. v \in Operations(p) \cup PlainHoles(p) /\ w \in Sources(p, v) \cap Values(p)
      BY <1>2, <2>3
    <3>2. Owed(p, p.values[v].shape, p.values[w].shape)
      BY <3>1 DEF Owes
    <3> QED
      BY <1>1, <2>3, <3>1, <3>2 DEF Settles, GoodValues
  <2> QED
    BY <1>1, <2>1, <2>2, <2>3
<1> QED
  BY <1>6, <1>7 DEF Owes

\* A hole that is filled.
LEMMA FilledGood ==
    ASSUME NEW p, NEW q, GoodValues(p), Owes(p), NEW h \in OpenHoles(p), NEW v \in Values(p),
           NoValue \notin Values(p), Settles(p, q), q.values = [p.values EXCEPT ![h].filled = v],
           q.dims = p.dims, q.output = p.output,
           p.values[h].local = <<>> => Owed(q, p.values[h].shape, p.values[v].shape)
    PROVE  GoodValues(q) /\ Owes(q)
<1> DEFINE x == p.values[h]
           y == [x EXCEPT !.filled = v]
<1>1. h \in Holes(p) /\ h \in Values(p) /\ x.filled = NoValue /\ IsHole(x) /\ x.origin = "hole"
  BY DEF OpenHoles, Holes, GoodValues
<1>2. /\ IsHole(y) /\ y.origin = x.origin /\ y.shape = x.shape /\ y.local = x.local /\ y.filled = v
  BY <1>1 DEF IsHole
<1>3. /\ Values(q) = Values(p) /\ q.values[h] = y
      /\ \A u \in Values(p) : u # h => q.values[u] = p.values[u]
  BY <1>1 DEF Values
<1> HIDE DEF x, y
<1>4. ASSUME NEW u \in Values(p)
      PROVE  /\ u \in Operations(q) <=> u \in Operations(p)
             /\ u \in Holes(q) <=> u \in Holes(p)
             /\ u \in PlainHoles(q) <=> u \in PlainHoles(p)
             /\ q.values[u].shape = p.values[u].shape
             /\ u # h => Sources(q, u) = Sources(p, u)
  <2>1. CASE u = h
    BY <1>1, <1>2, <1>3, <2>1 DEF Operations, Holes, PlainHoles, x
  <2>2. CASE u # h
    <3>1. q.values[u] = p.values[u]
      BY <1>3, <2>2
    <3>2. /\ u \in Operations(q) <=> u \in Operations(p)
          /\ u \in Holes(q) <=> u \in Holes(p)
      BY <1>3, <3>1 DEF Operations, Holes
    <3> QED
      BY <3>1, <3>2 DEF PlainHoles, Sources
  <2> QED
    BY <2>1, <2>2
<1>5. Sources(q, h) = {v} /\ h \notin Operations(p)
  <2>1. h \in Holes(q) /\ h \notin Operations(q) /\ h \notin Operations(p)
    BY <1>1, <1>2, <1>3 DEF Holes, Operations, x
  <2> QED
    BY <1>2, <1>3, <2>1 DEF Sources
<1>6. GoodValues(q)
  <2>1. \A u \in Values(q) : KnownShape(q.values[u].shape, q.dims)
    BY <1>3, <1>4 DEF GoodValues
  <2>2. \A u \in Values(q) : Sources(q, u) \subseteq Values(q) \cup {NoValue}
    BY <1>3, <1>4, <1>5 DEF GoodValues
  <2>3. \A u \in Holes(q) : IsHole(q.values[u])
    <3> TAKE u \in Holes(q)
    <3>1. u \in Values(q)
      BY DEF Holes
    <3> QED
      BY <1>2, <1>3, <1>4, <3>1 DEF GoodValues
  <2>4. q.output \in Values(q) \cup {NoValue}
    BY <1>3 DEF GoodValues
  <2> QED
    BY <2>1, <2>2, <2>3, <2>4 DEF GoodValues
<1>7. ASSUME NEW u \in Operations(q) \cup PlainHoles(q), NEW w \in Sources(q, u) \cap Values(q)
      PROVE  Owed(q, q.values[u].shape, q.values[w].shape)
  <2>1. u \in Values(p) /\ w \in Values(p)
    BY <1>3 DEF Operations, PlainHoles, Holes
  <2>2. q.values[u].shape = p.values[u].shape /\ q.values[w].shape = p.values[w].shape
    BY <1>4, <2>1
  <2>3. u \in Operations(p) \cup PlainHoles(p)
    BY <1>4, <2>1
  <2>4. CASE u = h
    <3>1. w = v /\ h \in PlainHoles(p)
      BY <1>5, <2>3, <2>4
    <3>2. x.local = <<>>
      BY <3>1 DEF PlainHoles, x
    <3> QED
      BY <2>2, <2>4, <3>1, <3>2 DEF x
  <2>5. CASE u # h
    <3>1. w \in Sources(p, u) \cap Values(p)
      BY <1>4, <2>1, <2>5
    <3>2. Owed(p, p.values[u].shape, p.values[w].shape)
      BY <2>3, <3>1 DEF Owes
    <3> QED
      BY <2>1, <2>2, <3>2 DEF Settles, GoodValues
  <2> QED
    BY <2>4, <2>5
<1> QED
  BY <1>6, <1>7 DEF Owes
---------------------------------------------------------------------------
\* Among numbers there is an n-th.
LEMMA NthExists ==
    ASSUME NEW m \in Nat, NEW S \in SUBSET (1 .. m), NEW k \in 1 .. Cardinality(S)
    PROVE  \E v \in S : Cardinality({w \in S : w <= v}) = k
<1> DEFINE N == Cardinality(S)
           UpToB(b) == {w \in S : w <= b}
           T == {i \in 0 .. N : \E b \in 0 .. m : /\ Cardinality(UpToB(b)) = i
                                                  /\ b \in S \/ i = 0}
<1>1. IsFiniteSet(S) /\ N \in Nat
  <2>1. IsFiniteSet(1 .. m)
    BY FS_Interval
  <2> QED
    BY <2>1, FS_Subset, FS_CardinalityType
<1>2. \A w \in S : w \in Nat /\ 1 <= w /\ w <= m
  OBVIOUS
<1> HIDE DEF N
<1>3. 0 \in T
  <2>1. UpToB(0) = {}
    <3>1. \A w \in S : ~(w <= 0)
      BY <1>2
    <3> QED
      BY <3>1
  <2>2. 0 \in 0 .. m
    OBVIOUS
  <2>3. Cardinality(UpToB(0)) = 0
    BY <2>1, FS_EmptySet
  <2> QED
    BY <1>1, <2>1, <2>3, <2>2
<1>4. ASSUME NEW i \in 0 .. N - 1, i \in T PROVE i + 1 \in T
  <2>1. PICK b \in 0 .. m : Cardinality(UpToB(b)) = i
    BY <1>4
  <2>2. IsFiniteSet(UpToB(b)) /\ UpToB(b) \subseteq S
    BY <1>1, FS_Subset
  <2> DEFINE Rest == S \ UpToB(b)
  <2>3. Rest # {}
    BY <1>1, <2>1, <2>2 DEF N
  <2>4. Rest \subseteq Nat
    BY <1>2
  <2>5. IsWellFoundedOn(OpToRel(<, Nat), Nat)
    BY NatLessThanWellFounded
  <2>6. PICK c \in Rest : \A y \in Rest : ~ (<<y, c>> \in OpToRel(<, Nat))
    BY <2>3, <2>4, <2>5, WFMin
  <2>7. \A y \in Rest : ~(y < c)
    BY <2>6, <2>4 DEF OpToRel
  <2>8. UpToB(c) = UpToB(b) \cup {c} /\ c \notin UpToB(b) /\ c \in S /\ c \in 0 .. m
    <3>1. c \in S /\ c \in Nat /\ c <= m /\ ~(c <= b)
      BY <1>2
    <3>2. \A y \in S : y <= c <=> y <= b \/ y = c
      BY <1>2, <2>7, <3>1
    <3>3. UpToB(c) = UpToB(b) \cup {c} /\ c \notin UpToB(b)
      BY <3>1, <3>2
    <3>4. c \in 0 .. m
      BY <3>1
    <3> QED
      BY <3>1, <3>3, <3>4
  <2> HIDE DEF UpToB, Rest
  <2>9. Cardinality(UpToB(c)) = i + 1
    BY <2>1, <2>2, <2>8, FS_AddElement
  <2> QED
    BY <1>1, <2>8, <2>9
<1> HIDE DEF T
<1>5. 0 .. N \subseteq T
  BY <1>1, <1>3, <1>4, Stepping!UpTo
<1>6. k \in T /\ k # 0
  BY <1>1, <1>5 DEF N
<1> QED
  BY <1>6 DEF T

\* A run whose values have numbers that were given out.
Numbered(run) ==
    /\ IsRun(run) /\ IsProgram(run.program)
    /\ run.value \in Nat /\ Values(run.program) \subseteq 1 .. run.value

\* A reference resolves to a value, or not.
LEMMA ResolveGood ==
    ASSUME NEW run, Numbered(run), run.bound \in Seq(Values(run.program)),
           NEW ref, IsReference(ref)
    PROVE  Resolve(run, ref) \in Values(run.program) \cup {NoValue}
<1> DEFINE live == Values(run.program)
<1>1. CASE ref.by = "bind"
  BY <1>1 DEF Resolve
<1>2. CASE ref.by = "id"
  BY <1>2 DEF Resolve
<1>3. CASE ref.by = "nth"
  <2>1. CASE ref.n \in 1 .. Cardinality(live)
    <3>1. run.value \in Nat /\ live \in SUBSET (1 .. run.value)
      BY DEF Numbered
    <3> HIDE DEF live
    <3>2. \E v \in live : Cardinality({w \in live : w <= v}) = ref.n
      BY <2>1, <3>1, NthExists
    <3>3. Resolve(run, ref) = CHOOSE v \in live : Cardinality({w \in live : w <= v}) = ref.n
      BY <1>3, <2>1 DEF Resolve, live
    <3>4. Resolve(run, ref) \in live
      BY <3>2, <3>3
    <3> QED
      BY <3>4 DEF live
  <2>2. CASE ref.n \notin 1 .. Cardinality(live)
    BY <1>3, <2>2 DEF Resolve
  <2> QED
    BY <2>1, <2>2
<1> QED
  BY <1>1, <1>2, <1>3 DEF IsReference

\* The same facts of a program with the same dimensions and constraints.
LEMMA SameFactsGood ==
    ASSUME NEW p, NEW q, NEW f, GoodFacts(f, p), q.dims = p.dims, q.constraints = p.constraints
    PROVE  GoodFacts(f, q) /\ Admitting(q) = Admitting(p)
  BY DEF GoodFacts, Admitting

BoundAs(run, new, x, debts) ==
    LET p == run.program
        q == new.program
        id == run.value + 1
    IN  /\ new.facts = run.facts /\ new.bound = Append(run.bound, id)
        /\ q.values = [v \in Values(p) \cup {id} |-> IF v = id THEN x ELSE p.values[v]]
        /\ q.dims = p.dims /\ q.constraints = p.constraints /\ q.output = p.output
        /\ q.frozen = p.frozen /\ q.debts = p.debts \cup debts

\* What a value that is bound changes.
LEMMA BindIs ==
    ASSUME NEW run, IsRun(run), IsProgram(run.program), NEW x, NEW debts
    PROVE  BoundAs(run, Bind(run, x, debts), x, debts)
<1>1. RunForm(run)
  BY RunForms
<1> QED
  BY <1>1 DEF RunForm, Bind, FreshValue, Values, BoundAs

\* A value that is bound: what its definition compares is owed or holds.
LEMMA BindGood ==
    ASSUME NEW run, Numbered(run), GoodRun(run), ~run.program.frozen, NEW x, NEW debts,
           KnownShape(x.shape, run.program.dims),
           x.origin = "operation" =>
              /\ ToSet(x.operands) \subseteq Values(run.program)
              /\ \A w \in ToSet(x.operands) :
                    \/ [left |-> x.shape, right |-> run.program.values[w].shape] \in debts
                    \/ Owed(run.program, x.shape, run.program.values[w].shape),
           x.origin = "hole" => IsHole(x) /\ x.filled = NoValue
    PROVE  GoodRun(Bind(run, x, debts))
<1> DEFINE new == Bind(run, x, debts)
           p == run.program
           q == new.program
           id == run.value + 1
<1>1. /\ new.facts = run.facts /\ new.bound = Append(run.bound, id)
      /\ q.values = [v \in Values(p) \cup {id} |-> IF v = id THEN x ELSE p.values[v]]
      /\ q.dims = p.dims /\ q.constraints = p.constraints /\ q.output = p.output
      /\ q.frozen = p.frozen /\ q.debts = p.debts \cup debts
  <2>1. BoundAs(run, new, x, debts)
    BY BindIs DEF Numbered
  <2> HIDE DEF new
  <2> QED
    BY <2>1 DEF BoundAs
<1> HIDE DEF new
<1>2. /\ GoodProgram(p) /\ GoodFacts(run.facts, p) /\ run.bound \in Seq(Values(p))
      /\ id \notin Values(p) /\ id # NoValue /\ NoValue \notin Values(p)
  BY DEF GoodRun, Numbered, NoValue
<1>3. GoodFacts(new.facts, q) /\ Admitting(q) = Admitting(p)
  BY <1>1, <1>2, SameFactsGood
<1>4. Settles(p, q)
  BY <1>1, <1>3, SettlesByDebts
<1>5. GoodDefinition(p, q, x)
  BY <1>1, <1>3 DEF GoodDefinition, Owed
<1> HIDE DEF id
<1>6. GoodValues(q) /\ Owes(q)
  BY <1>1, <1>2, <1>4, <1>5, OneMoreGood DEF GoodProgram
<1>7. new.bound \in Seq(Values(q))
  <2>1. Values(q) = Values(p) \cup {id}
    BY <1>1 DEF Values
  <2> QED
    BY <1>1, <1>2, <2>1
<1>8. GoodProgram(q)
  BY <1>1, <1>2, <1>6 DEF GoodProgram
<1>9. GoodRun(new)
  BY <1>3, <1>7, <1>8 DEF GoodRun
<1> QED
  BY <1>9 DEF new
---------------------------------------------------------------------------
\* A run with the same values, whose facts fit its program.
LEMMA SameValuesRun ==
    ASSUME NEW run, GoodRun(run), NEW new, new.bound = run.bound,
           new.program.values = run.program.values, GoodFacts(new.facts, new.program),
           run.program.dims \subseteq new.program.dims, new.program.dims \subseteq Symbols,
           new.program.constraints \in Seq(Equalities),
           new.program.output \in Values(run.program) \cup {NoValue},
           Settles(run.program, new.program),
           new.program.frozen => RequireComplete(new.program)
    PROVE  GoodRun(new)
<1>1. GoodValues(new.program) /\ Owes(new.program)
  BY SameValuesGood DEF GoodRun, GoodProgram
<1>2. Values(new.program) = Values(run.program)
  BY DEF Values
<1> QED
  BY <1>1, <1>2 DEF GoodRun, GoodProgram

\* The actions, one by one, keep what is compared owed or true: a dimension,
LEMMA DimensionGood ==
    ASSUME NEW run, Numbered(run), GoodRun(run), ~run.program.frozen, NEW a, a.symbol \in Symbols,
           DefineDimension(run, a).ok
    PROVE  GoodRun(DefineDimension(run, a))
<1> DEFINE new == [run EXCEPT !.program.dims = @ \cup {a.symbol},
                              !.facts = DeclareSymbol(@, a.symbol)]
           p == run.program
           q == new.program
<1>1. RunForm(run) /\ IsRun(run)
  BY RunForms DEF Numbered
<1>2. a.symbol \notin p.dims /\ DefineDimension(run, a) = new
  BY <1>1, FailedFacts DEF DefineDimension
<1>3. /\ new.bound = run.bound /\ new.facts = DeclareSymbol(run.facts, a.symbol)
      /\ q.values = p.values /\ q.dims = p.dims \cup {a.symbol} /\ q.constraints = p.constraints
      /\ q.output = p.output /\ q.frozen = p.frozen /\ q.debts = p.debts
  BY <1>1 DEF RunForm
<1> HIDE DEF new
<1>4. GoodFacts(new.facts, q)
  BY <1>2, <1>3, DeclaredGood DEF GoodRun
<1>5. Admitting(q) = Admitting(p)
  BY <1>3 DEF Admitting
<1>6. Settles(p, q)
  BY <1>3, <1>5, SettlesByDebts
<1>7. GoodRun(new)
  BY <1>3, <1>4, <1>6, SameValuesRun DEF GoodRun, GoodProgram, GoodValues
<1> QED
  BY <1>2, <1>7

\* a parameter,
LEMMA ParameterGood ==
    ASSUME NEW run, Numbered(run), GoodRun(run), ~run.program.frozen, NEW a, IsShape(a.shape),
           CreateParameter(run, a).ok
    PROVE  GoodRun(CreateParameter(run, a))
<1> DEFINE x == Parameter(a.name, a.shape)
<1>1. SymbolsKnown(run, a.shape) /\ CreateParameter(run, a) = Bind(run, x, {})
  BY FailedFacts DEF CreateParameter, Numbered
<1>2. x.origin = "parameter" /\ x.shape = a.shape
  BY DEF Parameter
<1>3. KnownShape(a.shape, run.program.dims)
  BY <1>1 DEF SymbolsKnown, KnownShape
<1> HIDE DEF x
<1> QED
  BY <1>1, <1>2, <1>3, BindGood

\* a hole, which is not filled yet.
LEMMA HoleGood ==
    ASSUME NEW run, Numbered(run), GoodRun(run), ~run.program.frozen, NEW a, IsShape(a.shape),
           CreateHole(run, a).ok
    PROVE  GoodRun(CreateHole(run, a))
<1> DEFINE x == OpenHole(a.shape, a.local)
<1>1. SymbolsKnown(run, a.shape) /\ CreateHole(run, a) = Bind(run, x, {})
  BY FailedFacts DEF CreateHole, Numbered
<1>2. x.origin = "hole" /\ x.shape = a.shape /\ IsHole(x) /\ x.filled = NoValue
  BY DEF OpenHole, IsHole
<1>3. KnownShape(a.shape, run.program.dims)
  BY <1>1 DEF SymbolsKnown, KnownShape
<1> HIDE DEF x
<1> QED
  BY <1>1, <1>2, <1>3, BindGood

\* A query has three answers.
LEMMA QueryAnswers ==
    ASSUME NEW f, NEW l, NEW r
    PROVE  Query(f, l, r) \in {"proved", "contradiction", "unknown"}
  BY DEF Query

\* What an operation does not owe holds.
LEMMA ComparedGood ==
    ASSUME NEW run, Numbered(run), GoodRun(run), ~run.program.frozen, NEW operands,
           1 \in DOMAIN operands, \A i \in DOMAIN operands : operands[i] \in Values(run.program),
           NEW first, first = ShapeOf(run, operands[1]), Compared(run, operands, first).ok
    PROVE  GoodRun(Compared(run, operands, first))
<1> DEFINE p == run.program
           answer(v) == Query(run.facts, first, ShapeOf(run, v))
           rest == {operands[i] : i \in DOMAIN operands \ {1}}
           unknown == {ShapeOf(run, v) : v \in {w \in rest : answer(w) = "unknown"}}
           debts == {[left |-> first, right |-> q] : q \in unknown}
           x == Operation(operands, first)
<1>1. /\ \A v \in rest : answer(v) # "contradiction"
      /\ Compared(run, operands, first) = Bind(run, x, debts)
  BY FailedFacts DEF Compared, Numbered
<1>2. x.origin = "operation" /\ x.shape = first /\ x.operands = operands
  BY DEF Operation
<1>3. ToSet(operands) \subseteq Values(p)
  BY DEF ToSet
<1>4. \A v \in Values(p) : KnownShape(ShapeOf(run, v), p.dims)
  BY DEF GoodRun, GoodProgram, GoodValues, ShapeOf
<1>5. ASSUME NEW w \in ToSet(operands)
      PROVE  [left |-> first, right |-> ShapeOf(run, w)] \in debts \/ Owed(p, first, ShapeOf(run, w))
  <2>1. CASE w = operands[1]
    <3>1. \A val : Equal(first, first, val)
      BY DEF Equal
    <3> QED
      BY <2>1, <3>1 DEF Owed
  <2>2. CASE w \in rest /\ answer(w) = "unknown"
    <3>1. ShapeOf(run, w) \in unknown
      BY <2>2
    <3> HIDE DEF unknown
    <3> QED
      BY <3>1
  <2>3. CASE w \in rest /\ answer(w) = "proved"
    <3>1. w \in Values(p) /\ operands[1] \in Values(p)
      BY <1>3
    <3>2. KnownShape(first, p.dims) /\ KnownShape(ShapeOf(run, w), p.dims)
      BY <1>4, <3>1
    <3>3. GoodFacts(run.facts, p)
      BY DEF GoodRun
    <3>4. \A val \in Admitting(p) : Equal(first, ShapeOf(run, w), val)
      BY <2>3, <3>2, <3>3, ProvedHolds
    <3> QED
      BY <3>4 DEF Owed
  <2>4. w = operands[1] \/ w \in rest
    BY DEF ToSet
  <2>5. w \in rest => answer(w) \in {"proved", "unknown"}
    BY <1>1, QueryAnswers
  <2> QED
    BY <2>1, <2>2, <2>3, <2>4, <2>5
<1>6. KnownShape(first, p.dims)
  BY <1>4
<1> HIDE DEF x, debts
<1>7. \A w \in ToSet(x.operands) :
         \/ [left |-> x.shape, right |-> p.values[w].shape] \in debts
         \/ Owed(p, x.shape, p.values[w].shape)
  BY <1>2, <1>5 DEF ShapeOf
<1>8. GoodRun(Bind(run, x, debts))
  BY <1>2, <1>3, <1>6, <1>7, BindGood
<1> QED
  BY <1>1, <1>8

\* An operation whose operands resolve.
LEMMA OpGood ==
    ASSUME NEW run, Numbered(run), GoodRun(run), ~run.program.frozen, NEW a,
           1 \in DOMAIN a.operands, \A i \in DOMAIN a.operands : IsReference(a.operands[i]),
           CreateOp(run, a).ok
    PROVE  GoodRun(CreateOp(run, a))
<1> DEFINE operands == [i \in DOMAIN a.operands |-> Resolve(run, a.operands[i])]
           first == ShapeOf(run, operands[1])
<1>1. /\ NoValue \notin ToSet(operands)
      /\ CreateOp(run, a) = Compared(run, operands, first)
  BY FailedFacts DEF CreateOp, Numbered
<1>2. \A i \in DOMAIN operands : operands[i] \in Values(run.program) \cup {NoValue}
  BY ResolveGood DEF GoodRun
<1>3. 1 \in DOMAIN operands
  OBVIOUS
<1> HIDE DEF operands
<1>4. \A i \in DOMAIN operands : operands[i] \in Values(run.program)
  BY <1>1, <1>2 DEF ToSet
<1> QED
  BY <1>1, <1>3, <1>4, ComparedGood
---------------------------------------------------------------------------
\* Insertion of equalities one by one: when all are among the constraints of a program, the
\* facts stay facts of it.
InsertOp(env, t, c) ==
    IF t.ok /\ InsertOk(t.facts, c) THEN [t EXCEPT !.facts = Extended(@, c)]
    ELSE [t EXCEPT !.ok = FALSE]
InsertHolds(about, i, t) ==
    /\ t = [ok |-> t.ok, facts |-> t.facts]
    /\ t.ok => GoodFacts(t.facts, about)
Inserting == INSTANCE FoldFacts WITH Op <- InsertOp, Holds <- InsertHolds

\* Inserting a sequence is inserting its equalities one by one.
LEMMA InsertAllIs ==
    ASSUME NEW facts, NEW constraints
    PROVE  InsertAll(facts, constraints)
               = Inserting!Fold(0, [ok |-> TRUE, facts |-> facts], constraints)
  BY DEF InsertAll, InsertOp, Inserting!Fold, Inserting!FoldLeft, FoldLeft,
         Inserting!MapThenFoldSet, MapThenFoldSet, Inserting!Max, Max

\* Inserting no equality changes nothing.
LEMMA InsertNone ==
    ASSUME NEW facts
    PROVE  InsertAll(facts, <<>>) = [ok |-> TRUE, facts |-> facts]
<1>1. DOMAIN <<>> = {}
  OBVIOUS
<1> QED
  BY <1>1, InsertAllIs, Inserting!FoldEmpty

\* A hole is compared with its fill: under its own constraints, or what is not owed holds.
LEMMA FillGood ==
    ASSUME NEW run, Numbered(run), GoodRun(run), ~run.program.frozen, NEW h,
           NEW v \in Values(run.program) \cup {NoValue}, Fill(run, h, v).ok
    PROVE  GoodRun(Fill(run, h, v))
<1> DEFINE p == run.program
           l == ShapeOf(run, h)
           r == ShapeOf(run, v)
           answer == FillAnswer(InsertAll(run.facts, p.values[h].local), l, r)
           debt == [left |-> l, right |-> r]
           debts == IF answer = "unknown" THEN p.debts \cup {debt} ELSE p.debts
           new == [run EXCEPT !.program.values[h].filled = v, !.program.debts = debts]
           q == new.program
<1>1. RunForm(run) /\ IsRun(run)
  BY RunForms DEF Numbered
<1>2. h \in OpenHoles(p) /\ v \in Values(p) /\ Fill(run, h, v) = Filled(run, h, v, answer)
  BY <1>1, FailedFacts DEF Fill
<1>3. answer # "contradiction"
  BY <1>1, <1>2, FailedFacts DEF Filled
<1>4. Fill(run, h, v) = new
  <2>1. Filled(run, h, v, answer) = new
    BY <1>1, <1>3 DEF RunForm, Filled
  <2> QED
    BY <1>2, <2>1
<1>5. /\ new.facts = run.facts /\ new.bound = run.bound
      /\ q.values = [p.values EXCEPT ![h].filled = v] /\ q.debts = debts
      /\ q.dims = p.dims /\ q.constraints = p.constraints /\ q.output = p.output
      /\ q.frozen = p.frozen
  BY <1>1 DEF RunForm
<1>6. /\ GoodValues(p) /\ Owes(p) /\ GoodFacts(run.facts, p)
      /\ NoValue \notin Values(p) /\ h \in Values(p)
  BY <1>2 DEF GoodRun, GoodProgram, Numbered, NoValue, OpenHoles, Holes
<1> HIDE DEF new
<1>7. GoodFacts(new.facts, q) /\ Admitting(q) = Admitting(p)
  BY <1>5, <1>6, SameFactsGood
<1>8. Settles(p, q)
  <2>1. p.debts \subseteq q.debts
    BY <1>5
  <2> QED
    BY <1>7, <2>1, SettlesByDebts
<1>9. ASSUME p.values[h].local = <<>> PROVE Owed(q, l, r)
  <2>1. answer = Query(run.facts, l, r)
    BY <1>9, InsertNone DEF FillAnswer
  <2>2. answer \in {"proved", "unknown"}
    BY <1>3, <2>1, QueryAnswers
  <2>3. KnownShape(l, p.dims) /\ KnownShape(r, p.dims)
    BY <1>2, <1>6 DEF GoodValues, ShapeOf
  <2> HIDE DEF answer, l, r
  <2>4. CASE answer = "unknown"
    BY <1>5, <2>4 DEF Owed
  <2>5. CASE answer = "proved"
    <3>1. \A val \in Admitting(p) : Equal(l, r, val)
      BY <1>6, <2>1, <2>3, <2>5, ProvedHolds
    <3> QED
      BY <1>7, <3>1 DEF Owed
  <2> QED
    BY <2>2, <2>4, <2>5
<1>10. p.values[h].local = <<>> => Owed(q, p.values[h].shape, p.values[v].shape)
  BY <1>9 DEF ShapeOf
<1>11. GoodValues(q) /\ Owes(q)
  BY <1>2, <1>5, <1>6, <1>8, <1>10, FilledGood
<1>12. Values(q) = Values(p)
  BY <1>5 DEF Values
<1>13. GoodProgram(q)
  BY <1>5, <1>11 DEF GoodRun, GoodProgram
<1>14. GoodRun(new)
  BY <1>5, <1>7, <1>12, <1>13 DEF GoodRun
<1> QED
  BY <1>4, <1>14

\* A fill whose references resolve.
LEMMA FillHoleGood ==
    ASSUME NEW run, Numbered(run), GoodRun(run), ~run.program.frozen, NEW a,
           IsReference(a.hole), IsReference(a.value), FillHole(run, a).ok
    PROVE  GoodRun(FillHole(run, a))
<1>1. Resolve(run, a.value) \in Values(run.program) \cup {NoValue}
  BY ResolveGood DEF GoodRun
<1> QED
  BY <1>1, FillGood DEF FillHole

\* The output is a value or there is none.
LEMMA OutputGood ==
    ASSUME NEW run, Numbered(run), GoodRun(run), ~run.program.frozen, NEW a,
           IsReference(a.value), SetOutput(run, a).ok
    PROVE  GoodRun(SetOutput(run, a))
<1> DEFINE p == run.program
           v == Resolve(run, a.value)
           new == [run EXCEPT !.program.output = v]
           q == new.program
<1>1. RunForm(run) /\ IsRun(run)
  BY RunForms DEF Numbered
<1>2. v \in Values(p) \cup {NoValue}
  BY ResolveGood DEF GoodRun
<1>3. SetOutput(run, a) = new
  BY <1>1, FailedFacts DEF SetOutput
<1> HIDE DEF v
<1>4. /\ new.facts = run.facts /\ new.bound = run.bound /\ q.values = p.values
      /\ q.debts = p.debts /\ q.dims = p.dims /\ q.constraints = p.constraints
      /\ q.output = v /\ q.frozen = p.frozen
  BY <1>1 DEF RunForm
<1> HIDE DEF new
<1>5. GoodFacts(new.facts, q) /\ Admitting(q) = Admitting(p)
  BY <1>4, SameFactsGood DEF GoodRun
<1>6. Settles(p, q)
  BY <1>4, <1>5, SettlesByDebts
<1>7. GoodRun(new)
  BY <1>2, <1>4, <1>5, <1>6, SameValuesRun DEF GoodRun, GoodProgram
<1> QED
  BY <1>3, <1>7
---------------------------------------------------------------------------
\* A run with the same values and counter has numbered values.
LEMMA SameNumbered ==
    ASSUME NEW run, Numbered(run), NEW new, SameValues(run, new)
    PROVE  Numbered(new)
  BY DEF Numbered, SameValues, Values

\* What is discharged was proved; what is not is owed still.
LEMMA DischargedGood ==
    ASSUME NEW run, Numbered(run), GoodRun(run), ~run.program.frozen, Discharged(run).ok
    PROVE  /\ GoodRun(Discharged(run)) /\ Numbered(Discharged(run))
           /\ ~Discharged(run).program.frozen
<1> DEFINE p == run.program
           debts == Remaining(run.facts, p.debts)
           new == [run EXCEPT !.program.debts = debts]
           q == new.program
<1>1. RunForm(run) /\ IsRun(run)
  BY RunForms DEF Numbered
<1>2. /\ Discharged(run) = new
      /\ \A d \in p.debts : Query(run.facts, d.left, d.right) # "contradiction"
  BY <1>1, FailedFacts DEF Discharged
<1>3. /\ new.facts = run.facts /\ new.bound = run.bound /\ q.values = p.values
      /\ q.debts = debts /\ q.dims = p.dims /\ q.constraints = p.constraints
      /\ q.output = p.output /\ q.frozen = p.frozen
  BY <1>1 DEF RunForm
<1>4. SameValues(run, new)
  BY <1>1 DEF SameValues, RunForm, IsRun, RunFields, IsProgram, ProgramFields
<1> HIDE DEF new
<1>5. GoodFacts(new.facts, q) /\ Admitting(q) = Admitting(p)
  BY <1>3, SameFactsGood DEF GoodRun
<1>6. ASSUME NEW l, NEW r, KnownShape(l, p.dims), KnownShape(r, p.dims), Owed(p, l, r)
      PROVE  Owed(q, l, r)
  <2> DEFINE d == [left |-> l, right |-> r]
  <2>1. CASE \A val \in Admitting(p) : Equal(l, r, val)
    BY <1>5, <2>1 DEF Owed
  <2>2. CASE d \in p.debts /\ Query(run.facts, l, r) = "unknown"
    BY <1>3, <2>2 DEF Owed, Remaining
  <2>3. CASE Query(run.facts, l, r) = "proved"
    <3>1. GoodFacts(run.facts, p)
      BY DEF GoodRun
    <3>2. \A val \in Admitting(p) : Equal(l, r, val)
      BY <1>6, <2>3, <3>1, ProvedHolds
    <3> QED
      BY <2>1, <3>2
  <2>4. d \in p.debts => Query(run.facts, l, r) \in {"proved", "unknown"}
    <3>1. d \in p.debts => Query(run.facts, d.left, d.right) # "contradiction"
      BY <1>2
    <3>2. d.left = l /\ d.right = r
      OBVIOUS
    <3> QED
      BY <3>1, <3>2, QueryAnswers
  <2> QED
    BY <1>6, <2>1, <2>2, <2>3, <2>4 DEF Owed
<1>7. Settles(p, q)
  BY <1>5, <1>6 DEF Settles
<1>8. GoodRun(new)
  BY <1>3, <1>5, <1>7, SameValuesRun DEF GoodRun, GoodProgram, GoodValues
<1>9. Numbered(new)
  BY <1>4, SameNumbered
<1> QED
  BY <1>2, <1>3, <1>8, <1>9

\* What a sequence with an element more contains.
LEMMA AppendRange ==
    ASSUME NEW S, NEW s \in Seq(S), NEW x
    PROVE  ToSet(Append(s, x)) = ToSet(s) \cup {x}
<1>1. /\ DOMAIN s = 1 .. Len(s) /\ Len(s) \in Nat
      /\ DOMAIN Append(s, x) = 1 .. Len(s) + 1
      /\ \A i \in 1 .. Len(s) : Append(s, x)[i] = s[i]
      /\ Append(s, x)[Len(s) + 1] = x
  OBVIOUS
<1>2. \A y : y \in ToSet(Append(s, x)) => y \in ToSet(s) \cup {x}
  BY <1>1 DEF ToSet
<1>3. \A y : y \in ToSet(s) => y \in ToSet(Append(s, x))
  BY <1>1 DEF ToSet
<1>4. x \in ToSet(Append(s, x))
  <2>1. Len(s) + 1 \in DOMAIN Append(s, x)
    BY <1>1
  <2> QED
    BY <1>1, <2>1 DEF ToSet
<1> QED
  BY <1>2, <1>3, <1>4

\* A constraint that is accepted.
LEMMA ConstraintGood ==
    ASSUME NEW run, Numbered(run), GoodRun(run), ~run.program.frozen, NEW a,
           a.constraint \in Equalities, AddConstraint(run, a).ok
    PROVE  GoodRun(AddConstraint(run, a))
<1> DEFINE p == run.program
           c == a.constraint
           new == WithConstraint(run, c)
           q == new.program
<1>1. RunForm(run) /\ IsRun(run) /\ GoodProgram(p) /\ GoodFacts(run.facts, p)
  BY RunForms DEF Numbered, GoodRun
<1>2. AddConstraint(run, a) = Discharged(new) /\ InsertOk(run.facts, c) /\ Discharged(new).ok
  BY <1>1, FailedFacts DEF AddConstraint
<1> HIDE DEF c
<1>3. /\ new.facts = Extended(run.facts, c) /\ new.bound = run.bound /\ q.values = p.values
      /\ q.constraints = IF Contains(p.constraints, c) THEN p.constraints
                                                       ELSE Append(p.constraints, c)
      /\ q.debts = p.debts /\ q.dims = p.dims /\ q.output = p.output /\ q.frozen = p.frozen
  BY <1>1 DEF RunForm, WithConstraint
<1>4. SameValues(run, new)
  BY <1>1 DEF WithConstraint, SameValues, RunForm, IsRun, RunFields, IsProgram, ProgramFields
<1> HIDE DEF new
<1>5. c \in Equalities /\ p.constraints \in Seq(Equalities)
  BY <1>1 DEF GoodProgram, c
<1>6. ToSet(q.constraints) = ToSet(p.constraints) \cup {c}
  <2>1. CASE Contains(p.constraints, c)
    <3>1. c \in ToSet(p.constraints)
      BY <2>1 DEF Contains, ToSet
    <3> QED
      BY <1>3, <2>1, <3>1
  <2>2. CASE ~Contains(p.constraints, c)
    BY <1>3, <1>5, <2>2, AppendRange
  <2> QED
    BY <2>1, <2>2
<1>7. q.constraints \in Seq(Equalities)
  BY <1>3, <1>5
<1>8. GoodFacts(new.facts, q)
  BY <1>1, <1>2, <1>3, <1>5, <1>6, LearnedGood
<1>9. Admitting(q) \subseteq Admitting(p)
  BY <1>6 DEF Admitting, Satisfies
<1>10. Settles(p, q)
  BY <1>3, <1>9, SettlesByDebts
<1>11. GoodRun(new) /\ ~q.frozen
  BY <1>1, <1>3, <1>7, <1>8, <1>10, SameValuesRun DEF GoodProgram, GoodValues
<1>12. Numbered(new)
  BY <1>4, SameNumbered
<1> QED
  BY <1>2, <1>11, <1>12, DischargedGood

\* A specification that is closed is complete.
LEMMA FreezeGood ==
    ASSUME NEW run, Numbered(run), GoodRun(run), ~run.program.frozen, FreezeSpec(run).ok
    PROVE  GoodRun(FreezeSpec(run))
<1> DEFINE old == Discharged(run)
           p == old.program
           new == [old EXCEPT !.program.frozen = TRUE]
           q == new.program
<1>1. old.ok /\ GoodRun(old) /\ Numbered(old) /\ RequireComplete(p) /\ FreezeSpec(run) = new
  <2>1. IsRun(old)
    <3>1. \A u : IsRun(run) /\ SameValues(run, u) => IsRun(u)
      BY DEF SameValues
    <3>2. IsRun(run) /\ RunForm(run)
      BY RunForms DEF Numbered
    <3>3. IsRun([run EXCEPT !.program.debts = Remaining(run.facts, run.program.debts)])
      BY <3>2 DEF RunForm, IsRun, RunFields
    <3> QED
      BY <3>2, <3>3, FailedFacts DEF Discharged
  <2> HIDE DEF old
  <2>2. old.ok /\ RequireComplete(p) /\ FreezeSpec(run) = new
    BY <2>1, FailedFacts DEF FreezeSpec, Closed, old
  <2> QED
    BY <2>2, DischargedGood DEF old
<1> HIDE DEF old
<1>2. RunForm(old)
  BY <1>1, RunForms DEF Numbered
<1>3. /\ new.facts = old.facts /\ new.bound = old.bound /\ q.values = p.values
      /\ q.debts = p.debts /\ q.dims = p.dims /\ q.constraints = p.constraints
      /\ q.output = p.output
  BY <1>2 DEF RunForm
<1> HIDE DEF new
<1>4. GoodFacts(new.facts, q) /\ Admitting(q) = Admitting(p)
  BY <1>1, <1>3, SameFactsGood DEF GoodRun
<1>5. Settles(p, q)
  BY <1>3, <1>4, SettlesByDebts
<1>6. RequireComplete(q)
  <2>1. OpenHoles(q) = OpenHoles(p)
    BY <1>3 DEF OpenHoles, Holes, Values
  <2> QED
    BY <1>1, <1>3, <2>1 DEF RequireComplete
<1>7. GoodRun(new)
  BY <1>1, <1>3, <1>4, <1>5, <1>6, SameValuesRun DEF GoodRun, GoodProgram, GoodValues
<1> QED
  BY <1>1, <1>7

\* An action that succeeds keeps what is compared.
LEMMA StepGood ==
    ASSUME NEW run, Numbered(run), GoodRun(run), NEW a, IsAction(a), Step(run, a).ok
    PROVE  GoodRun(Step(run, a))
<1>1. run.ok /\ Changeable(run, a)
  BY FailedFacts DEF Step, Numbered
<1>2. Step(run, a) =
        CASE a.do = "dimension" -> DefineDimension(run, a)
          [] a.do = "parameter" -> CreateParameter(run, a)
          [] a.do = "hole" -> CreateHole(run, a)
          [] a.do = "op" -> CreateOp(run, a)
          [] a.do = "fill" -> FillHole(run, a)
          [] a.do = "output" -> SetOutput(run, a)
          [] a.do = "constrain" -> AddConstraint(run, a)
          [] a.do = "freeze" -> FreezeSpec(run)
          [] a.do = "fork" -> run
  BY <1>1 DEF Step
<1>3. ~run.program.frozen \/ a.do = "fork"
  BY <1>1 DEF Changeable
<1>4. CASE a.do = "dimension"
  BY <1>2, <1>3, <1>4, DimensionGood DEF IsAction
<1>5. CASE a.do = "parameter"
  BY <1>2, <1>3, <1>5, ParameterGood DEF IsAction
<1>6. CASE a.do = "hole"
  BY <1>2, <1>3, <1>6, HoleGood DEF IsAction
<1>7. CASE a.do = "op"
  BY <1>2, <1>3, <1>7, OpGood DEF IsAction
<1>8. CASE a.do = "fill"
  BY <1>2, <1>3, <1>8, FillHoleGood DEF IsAction
<1>9. CASE a.do = "output"
  BY <1>2, <1>3, <1>9, OutputGood DEF IsAction
<1>10. CASE a.do = "constrain"
  <2>1. a.constraint \in Equalities
    <3>1. /\ IsShape(a.constraint.left) /\ IsShape(a.constraint.right)
          /\ a.constraint = [left |-> a.constraint.left, right |-> a.constraint.right]
      BY <1>10 DEF IsAction
    <3>2. a.constraint.left \in Shapes /\ a.constraint.right \in Shapes
      BY <3>1, EngineShape
    <3> QED
      BY <3>1, <3>2 DEF Equalities
  <2> QED
    BY <1>2, <1>3, <1>10, <2>1, ConstraintGood
<1>11. CASE a.do = "freeze"
  BY <1>2, <1>3, <1>11, FreezeGood
<1>12. CASE a.do = "fork"
  BY <1>2, <1>12
<1>13. a.do \in ActionKinds
  BY DEF IsAction
<1> QED
  BY <1>4, <1>5, <1>6, <1>7, <1>8, <1>9, <1>10, <1>11, <1>12, <1>13 DEF ActionKinds
---------------------------------------------------------------------------
\* The facts of a program: its dimensions, before its constraints.
LEMMA DimsGood ==
    ASSUME NEW p, p.dims \subseteq Symbols, NEW f,
           f = [NoFacts EXCEPT !.parent = [s \in Symbols |-> IF s \in p.dims THEN s ELSE NoSymbol]]
    PROVE  GoodFacts(f, p)
<1>1. /\ f.parent = [s \in Symbols |-> IF s \in p.dims THEN s ELSE NoSymbol]
      /\ f.bound = [s \in Symbols |-> Unbound] /\ f.accepted = {} /\ f.conflict = FALSE
      /\ f = [parent |-> f.parent, bound |-> f.bound, accepted |-> f.accepted,
              conflict |-> f.conflict]
  BY DEF NoFacts
<1>2. Declared(f) = p.dims
  <2>1. \A s \in Symbols : s # NoSymbol
    BY SymbolsAssumption DEF NoSymbol
  <2>2. \A s \in Symbols : f.parent[s] # NoSymbol <=> s \in p.dims
    BY <1>1, <2>1
  <2> QED
    BY <2>2 DEF Declared
<1>3. Engine!Declared(f) = p.dims
  BY <1>2, EngineShape
<1>4. \A s \in p.dims : f.parent[s] = s /\ s \in Nat
  BY <1>1, SymbolsAssumption
<1>5. Engine!FlatForest(f)
  <2>1. ASSUME NEW s \in p.dims
        PROVE  f.parent[s] \in p.dims /\ f.parent[f.parent[s]] = f.parent[s] /\ f.parent[s] <= s
    <3>1. f.parent[s] = s /\ s \in Nat
      BY <1>4
    <3>2. s <= s
      BY <3>1
    <3> QED
      BY <3>1, <3>2
  <2> QED
    BY <1>3, <2>1 DEF Engine!FlatForest
<1>6. \A val : Engine!Holds(f, val)
  <2>1. \A s \in p.dims : f.parent[s] = s /\ f.bound[s] = Engine!Unbound
    BY <1>1, <1>4 DEF Unbound, Engine!Unbound
  <2> QED
    BY <1>3, <2>1 DEF Engine!Holds
<1>7. Engine!Table(f)
  BY <1>1, <1>5 DEF Engine!Table, Unbound, Engine!Unbound, NoSymbol, Engine!NoSymbol
<1> QED
  BY <1>1, <1>2, <1>6, <1>7 DEF GoodFacts

\* Inserting a constraint of the program keeps the facts facts of it.
LEMMA InsertGood ==
    ASSUME NEW p, NEW c \in ToSet(p.constraints), c \in Equalities, NEW i, NEW t,
           InsertHolds(p, i, t), NEW j
    PROVE  InsertHolds(p, j, InsertOp(0, t, c))
<1>1. CASE t.ok /\ InsertOk(t.facts, c)
  <2>1. GoodFacts(Extended(t.facts, c), p)
    <3>1. ToSet(p.constraints) = ToSet(p.constraints) \cup {c}
      OBVIOUS
    <3> QED
      BY <1>1, <3>1, LearnedGood DEF InsertHolds
  <2> DEFINE u == [t EXCEPT !.facts = Extended(@, c)]
  <2>2. u = [ok |-> u.ok, facts |-> u.facts] /\ u.facts = Extended(t.facts, c)
    BY DEF InsertHolds
  <2>3. InsertOp(0, t, c) = u
    BY <1>1 DEF InsertOp
  <2> HIDE DEF u
  <2> QED
    BY <2>1, <2>2, <2>3 DEF InsertHolds
<1>2. CASE ~(t.ok /\ InsertOk(t.facts, c))
  BY <1>2 DEF InsertOp, InsertHolds
<1> QED
  BY <1>1, <1>2

\* A transaction starts from what its base's program says.
LEMMA StartedGood ==
    ASSUME NEW p, GoodProgram(p), NEW given, Started(p, given).ok
    PROVE  GoodRun(Started(p, given))
<1> DEFINE t == FactsOf(p)
           f == [NoFacts EXCEPT !.parent = [s \in Symbols |-> IF s \in p.dims THEN s ELSE NoSymbol]]
           first == [ok |-> TRUE, facts |-> f]
           n == Len(p.constraints)
<1>1. /\ n \in Nat /\ DOMAIN p.constraints = 1 .. n
      /\ \A i \in 1 .. n : p.constraints[i] \in Equalities /\ p.constraints[i] \in ToSet(p.constraints)
  BY DEF GoodProgram, ToSet
<1>2. t = Inserting!Fold(0, first, p.constraints)
  BY InsertAllIs DEF FactsOf
<1>3. GoodFacts(f, p)
  BY DimsGood DEF GoodProgram
<1>4. /\ Started(p, given).program = p /\ Started(p, given).facts = t.facts
      /\ Started(p, given).ok = t.ok /\ Started(p, given).bound = <<>>
  BY DEF Started, RunFrom
<1> HIDE DEF f, n, t
<1>5. InsertHolds(p, 0, first)
  BY <1>3 DEF InsertHolds
<1> HIDE DEF first
<1>6. ASSUME NEW i \in 1 .. n, NEW r, InsertHolds(p, i - 1, r)
      PROVE  InsertHolds(p, i, InsertOp(0, r, p.constraints[i]))
  BY <1>1, <1>6, InsertGood
<1>7. Inserting!Kept(p, 0, first, p.constraints, n)
  BY <1>5, <1>6 DEF Inserting!Kept
<1>8. InsertHolds(p, n, t)
  BY <1>1, <1>2, <1>7, Inserting!FoldKeeps
<1>9. GoodFacts(t.facts, p)
  BY <1>4, <1>8 DEF InsertHolds
<1>10. <<>> \in Seq(Values(p))
  OBVIOUS
<1> QED
  BY <1>4, <1>9, <1>10 DEF GoodRun

\* A run that has not failed keeps what is compared.
GoodHolds(about, i, run) ==
    /\ Grown(about[1], about[2], run)
    /\ Closes(about[1], run)
    /\ run.ok => GoodRun(run)
Keeping == INSTANCE FoldFacts WITH Op <- StepOp, Holds <- GoodHolds

GoodRevision(p) == GoodProgram(p) /\ (p.frozen => Canonical(p))
AllGood(w) == \A r \in DOMAIN w.revisions : GoodRevision(w.revisions[r].program)

\* A step of the fold keeps it.
LEMMA GoodStep ==
    ASSUME NEW p, NEW n \in Nat, NEW about, about[1] = p, about[2] = n, NEW i, NEW run,
           GoodHolds(about, i, run), NEW a, IsAction(a), NEW j
    PROVE  GoodHolds(about, j, StepOp(0, run, a))
<1>1. Grown(p, n, run) /\ Closes(p, run) /\ a.do \in ActionKinds
  BY DEF GoodHolds, IsAction
<1>2. Grown(p, n, Step(run, a)) /\ Closes(p, Step(run, a))
  BY <1>1, StepGrows
<1>3. Numbered(run)
  BY <1>1 DEF Grown, Numbered
<1>4. ASSUME Step(run, a).ok PROVE GoodRun(Step(run, a))
  <2>1. run.ok
    BY <1>3, <1>4, FailedFacts DEF Step, Numbered
  <2> QED
    BY <1>3, <1>4, <2>1, StepGood DEF GoodHolds
<1> QED
  BY <1>2, <1>4 DEF GoodHolds, StepOp

\* What a script makes of a good program is good.
LEMMA RanGood ==
    ASSUME NEW w, Sound(w), AllGood(w), NEW tx, tx.base \in DOMAIN w.revisions,
           tx.script \in Scripts, Ran(w, tx).ok
    PROVE  GoodProgram(Ran(w, tx).program)
<1> DEFINE p == w.revisions[tx.base].program
           n == w.allocator.value
           script == tx.script
           started == Started(p, w.allocator)
           about == <<p, n>>
<1>1. IsProgram(p) /\ n \in Nat /\ Values(p) \subseteq 1 .. n /\ GoodProgram(p)
  BY DEF Sound, IsAllocator, AllGood, GoodRevision
<1>2. IsRun(started) /\ started.program = p /\ started.value = n
  BY DEF Started, RunFrom, IsRun, RunFields
<1>3. script \in Seq(ToSet(script)) /\ \A a \in ToSet(script) : IsAction(a)
  BY ScriptsAssumption
<1>4. Ran(w, tx) = Keeping!Fold(0, started, script)
  BY DEF Ran, StepOp, Keeping!Fold, Keeping!FoldLeft, FoldLeft, Keeping!MapThenFoldSet,
         MapThenFoldSet, Keeping!Max, Max
<1>5. started.ok => GoodRun(started)
  BY <1>1, StartedGood
<1>6. about[1] = p /\ about[2] = n
  OBVIOUS
<1> HIDE DEF p, n, script, started, about
<1>7. /\ Len(script) \in Nat /\ DOMAIN script = 1 .. Len(script)
      /\ \A i \in 1 .. Len(script) : IsAction(script[i])
  BY <1>3
<1>8. GoodHolds(about, 0, started)
  BY <1>1, <1>2, <1>5, <1>6 DEF GoodHolds, Grown, Closes
<1>9. ASSUME NEW i \in 1 .. Len(script), NEW run, GoodHolds(about, i - 1, run)
      PROVE  GoodHolds(about, i, StepOp(0, run, script[i]))
  BY <1>1, <1>6, <1>7, <1>9, GoodStep
<1>10. Keeping!Kept(about, 0, started, script, Len(script))
  BY <1>8, <1>9 DEF Keeping!Kept
<1>11. GoodHolds(about, Len(script), Keeping!Fold(0, started, script))
  BY <1>7, <1>10, Keeping!FoldKeeps
<1> QED
  BY <1>4, <1>11 DEF GoodHolds, GoodRun

\* A revision more that is good.
LEMMA RevisionGood ==
    ASSUME NEW w, AllGood(w), NEW base, NEW q, GoodRevision(q), NEW given
    PROVE  AllGood(WithRevision(w, base, q, given))
  BY DEF AllGood, WithRevision

\* A transaction leaves the revisions good, and its own if it makes one.
LEMMA AppliedGood ==
    ASSUME NEW w, Sound(w), AllGood(w), NEW tx, tx.base \in DOMAIN w.revisions,
           tx.script \in Scripts, NEW limit
    PROVE  AllGood(Applied(w, tx, limit))
<1> DEFINE run == Ran(w, tx)
           given == [value |-> run.value, revision |-> w.allocator.revision + 1,
                     transaction |-> w.allocator.transaction + 1]
<1>1. CASE run.ok /\ (run.program.frozen => Canonical(run.program))
  <2>1. GoodRevision(run.program)
    BY <1>1, RanGood DEF GoodRevision
  <2>2. AllGood(WithRevision(w, tx.base, run.program, given))
    BY <2>1, RevisionGood
  <2> HIDE DEF run
  <2> QED
    BY <2>2 DEF Applied, Outcome, Refused, run
<1>2. CASE ~(run.ok /\ (run.program.frozen => Canonical(run.program)))
  BY <1>2 DEF Applied, Outcome, Refused
<1> QED
  BY <1>1, <1>2

\* The inductive invariant, beside IInv.
FInv == AllGood(Current)

\* The empty program compares nothing.
LEMMA InitGood == Init => FInv
<1> SUFFICES ASSUME Init PROVE FInv
  OBVIOUS
<1>1. DOMAIN Current.revisions = {RootRevision} /\ Current.revisions[RootRevision].program = EmptyProgram
  BY DEF Init, Current, NewWorkspace
<1> DEFINE p == EmptyProgram
<1>2. /\ p.dims = {} /\ p.constraints = <<>> /\ p.frozen = FALSE /\ p.output = NoValue
      /\ Values(p) = {}
  BY DEF EmptyProgram, Values
<1> HIDE DEF p
<1>3. Operations(p) \cup PlainHoles(p) = {} /\ Holes(p) = {}
  BY <1>2 DEF Operations, PlainHoles, Holes
<1>4. GoodProgram(p)
  BY <1>2, <1>3 DEF GoodProgram, GoodValues, Owes
<1> QED
  BY <1>1, <1>2, <1>4 DEF FInv, AllGood, GoodRevision, p

\* A step keeps the revisions good.
LEMMA NextGood == IInv /\ FInv /\ [Next]_vars => FInv'
<1>1. Current.revisions = revisions /\ Current'.revisions = revisions'
  BY DEF Current
<1>2. ASSUME IInv, FInv, NEW base \in DOMAIN revisions, NEW script \in Scripts, NEW allow,
             Apply([base |-> base, script |-> script, allow_branch |-> allow])
      PROVE  FInv'
  <2> DEFINE tx == [base |-> base, script |-> script, allow_branch |-> allow]
             w == Applied(Current, tx, ValuesPerProgram)
  <2>1. Become(w, tx)
    BY <1>2 DEF Apply
  <2>2. tx.base = base /\ tx.script = script
    OBVIOUS
  <2> HIDE DEF tx
  <2>3. AllGood(w)
    BY <1>1, <1>2, <2>2, AppliedGood DEF IInv, FInv
  <2> HIDE DEF w
  <2>4. revisions' = w.revisions
    BY <2>1 DEF Become
  <2> QED
    BY <1>1, <2>3, <2>4 DEF FInv, AllGood
<1>3. ASSUME FInv, NEW base \in DOMAIN revisions, Fork(base) PROVE FInv'
  <2> DEFINE w == Forked(Current, base)
  <2>1. GoodRevision(Current.revisions[base].program)
    BY <1>1, <1>3 DEF FInv, AllGood
  <2>2. AllGood(w)
    BY <1>3, <2>1, RevisionGood DEF FInv, Forked
  <2> HIDE DEF w
  <2>3. revisions' = w.revisions
    BY <1>3 DEF Fork, Become, w
  <2> QED
    BY <1>1, <2>2, <2>3 DEF FInv, AllGood
<1>4. ASSUME FInv, UNCHANGED vars PROVE FInv'
  BY <1>1, <1>4 DEF FInv, AllGood, vars
<1> QED
  BY <1>2, <1>3, <1>4 DEF Next

(***************************************************************************)
(* "No open hole or proof obligation may enter a frozen/deployable         *)
(* specification", "a solver result is sound": a revision that is frozen,  *)
(* on whatever branch and however long ago its values were compared, is    *)
(* complete and canonical, and the shapes that its operations and plain    *)
(* fills compare are equal under every assignment of extents its           *)
(* constraints admit (workspace.rs, require_complete and                   *)
(* discharge_shape_obligations; constraints.rs, query_shapes).             *)
(***************************************************************************)
THEOREM FrozenAlwaysSound == Spec => []FrozenIsSound
<1>1. ASSUME FInv PROVE FrozenIsSound
  <2> SUFFICES ASSUME NEW r \in FrozenRevisions
               PROVE  LET p == revisions[r].program
                      IN  /\ Complete(p)
                          /\ \A val \in Admitting(p) : \A n \in Needs(p) : Equal(n[1], n[2], val)
    BY DEF FrozenIsSound
  <2> DEFINE p == revisions[r].program
  <2>1. GoodProgram(p) /\ Canonical(p) /\ RequireComplete(p)
    BY <1>1 DEF FInv, AllGood, Current, GoodRevision, FrozenRevisions, Drafts, GoodProgram
  <2> HIDE DEF p
  <2>2. Complete(p)
    BY <2>1 DEF Complete, RequireComplete, GoodProgram, GoodValues
  <2>3. ASSUME NEW val \in Admitting(p), NEW n \in Needs(p) PROVE Equal(n[1], n[2], val)
    <3>1. PICK v \in Operations(p) \cup PlainHoles(p) :
              \E w \in Sources(p, v) \cap Values(p) : n = <<p.values[v].shape, p.values[w].shape>>
      BY DEF Needs
    <3>2. PICK w \in Sources(p, v) \cap Values(p) : n = <<p.values[v].shape, p.values[w].shape>>
      BY <3>1
    <3>3. Owed(p, p.values[v].shape, p.values[w].shape)
      BY <2>1 DEF GoodProgram, Owes
    <3> QED
      BY <2>1, <3>2, <3>3 DEF Owed, RequireComplete
  <2> QED
    BY <2>2, <2>3 DEF p
<1>2. IInv /\ FInv /\ [Next]_vars => FInv'
  BY NextGood
<1> QED
  BY <1>1, <1>2, InitGood, WorkspaceInductive, PTL DEF Spec
=============================================================================
