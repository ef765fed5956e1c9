---------------------------- MODULE CpuPrograms ----------------------------
(***************************************************************************)
(* The portable CPU artifact of an implementation program: its lowering    *)
(* under the serial schedule, its structural verification, the scalar      *)
(* interpreter, and the native execution, which lays every register out in *)
(* one packed buffer and is prepared once by the parent and once more by   *)
(* the worker.  Registers count from 1; a body keeps the code's order.     *)
(***************************************************************************)
EXTENDS ReferencePrograms

NoArtifact == [code |-> <<>>]

\* Outputs first, then the parameters no output reads.
ReachableOrder(q) == Visited(q, InNameOrder(q.outs) \o InNameOrder(q.params))

Arithmetic == {"add", "mul", "fma"}

ScalarRegion(body) == \A k \in DOMAIN body.steps : body.steps[k].code \in Arithmetic

\* Affine extents have no place in an artifact, nor has arithmetic on whole tensors.
Supported(op) ==
    CASE op.code = "parameter" -> op.type[1] # "affine"
      [] op.code = "constant" -> op.type = Scalar
      [] op.code \in Arithmetic -> op.type = Scalar
      [] op.code \in {"map", "zip"} -> op.type[1] # "affine" /\ ScalarRegion(op.body)
      [] OTHER -> FALSE

Constants(q, order) == SelectSeq(order, LAMBDA v : q.ops[v].code = "constant")

Instruction(q, order, v) ==
    [code |-> q.ops[v].code, output |-> Position(order, v), extent |-> q.ops[v].type,
     inputs |-> [k \in DOMAIN q.ops[v].args |-> Position(order, q.ops[v].args[k])],
     constant |-> IF q.ops[v].code = "constant" THEN Position(Constants(q, order), v) ELSE 0,
     body |-> LowerRegion(q.ops[v].body, order)]

Typed(q, order, named) ==
    [n \in DOMAIN named |-> [register |-> Position(order, named[n]), type |-> q.ops[named[n]].type]]

\* One register for each operation, in the order of the visit; a parameter has no instruction.
LowerSchedule(q) ==
    LET order == ReachableOrder(q)
        instructions == SelectSeq(order, LAMBDA v : q.ops[v].code # "parameter")
    IN IF \E k \in DOMAIN order : ~Supported(q.ops[order[k]]) THEN NoArtifact
       ELSE [bindings |-> Typed(q, order, q.params),
             constants |-> [k \in DOMAIN Constants(q, order) |-> q.ops[Constants(q, order)[k]].value],
             code |-> [k \in DOMAIN instructions |-> Instruction(q, order, instructions[k])],
             outs |-> Typed(q, order, q.outs),
             registers |-> Len(order)]

-----------------------------------------------------------------------------
(* Structural verification.                                                *)

Arity(code) == CASE code = "fma" -> 3 [] code = "map" -> 1 [] OTHER -> 2

VerifiedOperand(o, arguments, local, types) ==
    CASE o[1] = "argument" -> o[2] \in 1..arguments
      [] o[1] = "local" -> o[2] \in 1..local
      [] o[1] = "capture" -> o[2] \in DOMAIN types /\ types[o[2]] = Scalar

VerifiedScalarFunction(body, arguments, types) ==
    /\ \A k \in DOMAIN body.steps :
          /\ Len(body.steps[k].args) = Arity(body.steps[k].code)
          /\ \A j \in DOMAIN body.steps[k].args :
                VerifiedOperand(body.steps[k].args[j], arguments, k - 1, types)
    /\ VerifiedOperand(body.yield, arguments, Len(body.steps), types)

\* Extents are compared as written: tensors proved equal under two names do not verify.
VerifiedInstruction(a, i, types) ==
    /\ i.output \notin DOMAIN types
    /\ ToSet(i.inputs) \subseteq DOMAIN types
    /\ CASE i.code = "constant" -> i.constant \in DOMAIN a.constants
         [] i.code \in Arithmetic -> /\ Len(i.inputs) = Arity(i.code)
                                     /\ \A k \in DOMAIN i.inputs : types[i.inputs[k]] = Scalar
         [] OTHER -> /\ i.inputs # <<>> /\ (i.code = "map" => Len(i.inputs) = 1)
                     /\ \A k \in DOMAIN i.inputs : types[i.inputs[k]] = i.extent /\ i.extent # Scalar
                     /\ VerifiedScalarFunction(i.body, Len(i.inputs), types)

BindingTypes(a) ==
    [r \in {a.bindings[n].register : n \in DOMAIN a.bindings} |->
        a.bindings[CHOOSE n \in DOMAIN a.bindings : a.bindings[n].register = r].type]

TypesBefore(a, k) ==
    FoldLeft(LAMBDA types, i : (i.output :> i.extent) @@ types, BindingTypes(a), SubSeq(a.code, 1, k - 1))

VerifyCpuArtifact(a) ==
    LET types == TypesBefore(a, Len(a.code) + 1)
    IN /\ \A m, n \in DOMAIN a.bindings :
             a.bindings[m].register = a.bindings[n].register => m = n
       /\ \A k \in DOMAIN a.code : VerifiedInstruction(a, a.code[k], TypesBefore(a, k))
       /\ DOMAIN types = 1..a.registers
       /\ a.outs # <<>>
       /\ \A n \in DOMAIN a.outs : a.outs[n].register \in DOMAIN types
                                   /\ types[a.outs[n].register] = a.outs[n].type

\* Emission publishes only what verifies.
Emitted(q) ==
    LET a == LowerSchedule(q)
    IN IF q # NotLowered /\ a # NoArtifact /\ VerifyCpuArtifact(a) THEN a ELSE NoArtifact

-----------------------------------------------------------------------------
(* The scalar interpreter.                                                 *)

Finite(value) == NonFinite \notin ToSet(value.data)

Sizes(a, inputs) == UNION {Implied(a.bindings[n].type, inputs[n]) : n \in DOMAIN a.bindings}

Admissible(a, inputs) ==
    /\ DOMAIN inputs = DOMAIN a.bindings
    /\ \A n \in DOMAIN inputs : Fits(a.bindings[n].type, inputs[n]) /\ Finite(inputs[n])
    /\ Consistent(Sizes(a, inputs))

\* The work an execution is admitted on: tensor buffers, elements retained, instructions.
Projected(a, inputs) ==
    LET sizes == Sizes(a, inputs)
        Grown(w, i) ==
            IF i.extent = Scalar
            THEN [w EXCEPT !.elements = @ + 1]
            ELSE LET n == Length(i.extent, sizes)
                 IN [buffers |-> w.buffers + 1, elements |-> w.elements + n,
                     instructions |-> w.instructions + n * Len(i.body.steps)]
        given == InNameOrder(inputs)
    IN FoldLeft(Grown,
                [buffers |-> Len(SelectSeq(given, LAMBDA v : v.tensor)),
                 elements |-> FoldLeft(LAMBDA n, v : n + Len(v.data), 0, given),
                 instructions |-> Len(a.code)],
                a.code)

Affordable(work, limits) ==
    /\ work.buffers <= limits.buffers
    /\ work.elements <= limits.elements /\ work.instructions <= limits.elements

NotExecuted == [outputs |-> NoOutputs, instructions |-> 0]

\* The values an instruction reads, and its body applied to one element of each.
Sources(registers, i) == [k \in DOMAIN i.inputs |-> registers[i.inputs[k]]]

ExecuteScalar(registers, i, e) ==
    Yielded(i.body, [k \in DOMAIN i.inputs |-> registers[i.inputs[k]].data[e]], registers)

\* One instruction: its value goes to its register, its steps to the counter.
Step(a, s, i) ==
    LET vs == Sources(s.registers, i)
        value == CASE i.code = "constant" -> ScalarOf(a.constants[i.constant])
                   [] i.code \in Arithmetic ->
                        ScalarOf(Applied(i.code, [k \in DOMAIN vs |-> vs[k].data[1]]))
                   [] OTHER -> TensorOf([e \in DOMAIN vs[1].data |-> ExecuteScalar(s.registers, i, e)])
    IN [registers |-> (i.output :> value) @@ s.registers,
        instructions |-> s.instructions + 1
            + (IF value.tensor THEN Len(value.data) * Len(i.body.steps) ELSE 0)]

Interpret(a, inputs, limits) ==
    LET start == [registers |-> [r \in {a.bindings[n].register : n \in DOMAIN a.bindings} |->
                      inputs[CHOOSE n \in DOMAIN a.bindings : a.bindings[n].register = r]],
                  instructions |-> 0]
        final == FoldLeft(LAMBDA s, i : Step(a, s, i), start, a.code)
        outputs == Encoded([n \in DOMAIN a.outs |-> final.registers[a.outs[n].register]])
    IN IF Admissible(a, inputs) /\ Affordable(Projected(a, inputs), limits) /\ outputs # NoOutputs
       THEN [outputs |-> outputs, instructions |-> final.instructions]
       ELSE NotExecuted

-----------------------------------------------------------------------------
(* The native execution of the worker.                                     *)

\* Where each register lies in the packed buffer: the bindings in the order of their names, then
\* the results in the order of the code.
Slots(a, inputs) ==
    LET Placed(s, r, n) == [total |-> s.total + n, at |-> (r :> [offset |-> s.total, len |-> n]) @@ s.at]
        bound == FoldLeft(LAMBDA s, b : Placed(s, b.register, IF b.type = Scalar THEN 1
                                                              ELSE Length(b.type, Sizes(a, inputs))),
                          [total |-> 0, at |-> <<>>], InNameOrder(a.bindings))
    IN FoldLeft(LAMBDA s, i : Placed(s, i.output, IF i.extent = Scalar THEN 1
                                                  ELSE Length(i.extent, Sizes(a, inputs))),
                bound, a.code)

\* The buffer before the call: the inputs in their slots, zeroes elsewhere.
Packed(a, inputs) ==
    LET slots == Slots(a, inputs)
        Holds(n, x) == LET s == slots.at[a.bindings[n].register] IN x \in s.offset + 1..s.offset + s.len
    IN [x \in 1..slots.total |->
           IF \E n \in DOMAIN a.bindings : Holds(n, x)
           THEN LET n == CHOOSE m \in DOMAIN a.bindings : Holds(m, x)
                IN inputs[n].data[x - slots.at[a.bindings[n].register].offset]
           ELSE 0]

\* A slot of the buffer, read as the value of its register.
Slot(slots, packed, r) ==
    [tensor |-> FALSE, data |-> SubSeq(packed, slots.at[r].offset + 1, slots.at[r].offset + slots.at[r].len)]

X_LowerTensorLoop_FirstElement(a, slots, packed, i) ==
    LET Load(m, r, e) == m[slots.at[r].offset + e]
        Scalars(m) == [r \in DOMAIN slots.at |-> Slot(slots, m, r)]
        Result(m, e) ==
            CASE i.code = "constant" -> a.constants[i.constant]
              [] i.code \in Arithmetic -> Applied(i.code, [k \in DOMAIN i.inputs |-> Load(m, i.inputs[k], 1)])
              [] OTHER -> Yielded(i.body, [k \in DOMAIN i.inputs |-> Load(m, i.inputs[k], 1)], Scalars(m))
        Store(m, e) == [m EXCEPT ![slots.at[i.output].offset + e] = Result(m, e)]
    IN FoldLeft(Store, packed, [e \in 1..slots.at[i.output].len |-> e])

\* The loop of one instruction: an element at a time, loaded, computed and stored.
LowerTensorLoop(a, slots, packed, i) ==
    LET Load(m, r, e) == m[slots.at[r].offset + e]
        Scalars(m) == [r \in DOMAIN slots.at |-> Slot(slots, m, r)]
        Result(m, e) ==
            CASE i.code = "constant" -> a.constants[i.constant]
              [] i.code \in Arithmetic -> Applied(i.code, [k \in DOMAIN i.inputs |-> Load(m, i.inputs[k], 1)])
              [] OTHER -> Yielded(i.body, [k \in DOMAIN i.inputs |-> Load(m, i.inputs[k], e)], Scalars(m))
        Store(m, e) == [m EXCEPT ![slots.at[i.output].offset + e] = Result(m, e)]
    IN FoldLeft(Store, packed, [e \in 1..slots.at[i.output].len |-> e])

\* One call of the finished code on the buffer.
Invoke(a, slots, packed) == FoldLeft(LAMBDA m, i : LowerTensorLoop(a, slots, m, i), packed, a.code)

NativeOutputs(a, inputs) ==
    LET slots == Slots(a, inputs)
        final == Invoke(a, slots, Packed(a, inputs))
    IN Encoded([n \in DOMAIN a.outs |->
                  [Slot(slots, final, a.outs[n].register) EXCEPT !.tensor = a.outs[n].type # Scalar]])

\* What parent and worker both derive from the request, before the launch and before the call, each
\* under limits of its own.
PrepareNative(a, inputs, limits) ==
    VerifyCpuArtifact(a) /\ Admissible(a, inputs) /\ Affordable(Projected(a, inputs), limits)

\* The steps of the finished code, and what a worker takes of it whatever the limits are: so many
\* values in its buffer, so many steps (MAX_PACKED_VALUES, MAX_LOWERED_INSTRUCTIONS).
LoweredWork(a, inputs) ==
    LET Steps(i) == IF i.extent = Scalar THEN 1 ELSE Length(i.extent, Sizes(a, inputs)) * Len(i.body.steps)
    IN FoldLeft(LAMBDA n, i : n + Steps(i), 0, a.code)

WorkerPrepares(a, inputs, caps) ==
    Slots(a, inputs).total <= caps.values /\ LoweredWork(a, inputs) <= caps.steps

\* The values a message carries, as far as its length depends on a call.
Carried(named) == FoldLeft(LAMBDA n, v : n + Len(v.data), 0, InNameOrder(named))

\* The length of each tensor output, and outputs of exactly these shapes.
OutputShapes(a, inputs) ==
    [n \in DOMAIN a.outs |-> IF a.outs[n].type = Scalar THEN Scalar
                             ELSE <<"static", Length(a.outs[n].type, Sizes(a, inputs))>>]

CanonicalOutputs(outputs, shapes) ==
    /\ DOMAIN outputs = DOMAIN shapes
    /\ \A n \in DOMAIN outputs : Fits(shapes[n], outputs[n]) /\ Finite(outputs[n])

\* The identity of an execution is all that went into it; a hash names what was hashed.
ExecutionIdentity(a, runtime, inputs, outputs) ==
    [artifact |-> a, runtime |-> runtime, inputs |-> inputs, work |-> Projected(a, inputs),
     shapes |-> OutputShapes(a, inputs), outputs |-> outputs]
=============================================================================
