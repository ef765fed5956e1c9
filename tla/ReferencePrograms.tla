------------------------- MODULE ReferencePrograms -------------------------
(***************************************************************************)
(* Complete frozen programs, what the reference evaluator makes of them,   *)
(* and the implementation program identity lowering derives from one.      *)
(*                                                                         *)
(* A program has operations (in "ops", by the value each defines), filled  *)
(* holes, named parameters and outputs, and accepted equalities of extents *)
(* (in "same").  Values, names and symbols are numbers, ordered as the     *)
(* code orders their strings.  The operations are those over f32 a CPU     *)
(* artifact may hold, and two it may not: "sub" stands for every primitive *)
(* outside the subset, "reduce" is the third operation with a region.      *)
(* Resource budgets of the evaluator are left out.                         *)
(***************************************************************************)
EXTENDS Integers, FiniteSets, SequencesExt

\* A type is the extent of a one-dimensional tensor, or Scalar: <<"static", n>>, <<"symbol", s>>,
\* and <<"affine", s>> for twice the symbol.
Scalar == <<"scalar", 0>>

NonFinite == 99

\* f32 in small: two bits of significand, a largest value, and everything beyond it one non-finite.
\* Adding a product is thus not the same as the fused operation.
Rounded(x) ==
    CASE x \in -3..3 -> x
      [] x \in -6..7 \ -3..3 -> 2 * (x \div 2)
      [] OTHER -> NonFinite

Applied(code, xs) ==
    IF NonFinite \in ToSet(xs) THEN NonFinite
    ELSE CASE code = "add" -> Rounded(xs[1] + xs[2])
           [] code = "sub" -> Rounded(xs[1] - xs[2])
           [] code = "mul" -> Rounded(xs[1] * xs[2])
           [] code = "fma" -> Rounded(xs[1] * xs[2] + xs[3])

\* A runtime value; a refused evaluation is a value without data.
ScalarOf(x) == [tensor |-> FALSE, data |-> <<x>>]
TensorOf(xs) == [tensor |-> TRUE, data |-> xs]
Refused == [tensor |-> FALSE, data |-> <<>>]
NoOutputs == <<>>

Elementwise(code, vs) ==
    IF \E k \in DOMAIN vs : vs[k].tensor # vs[1].tensor \/ Len(vs[k].data) # Len(vs[1].data)
    THEN Refused
    ELSE [vs[1] EXCEPT !.data = [i \in DOMAIN vs[1].data |->
                                    Applied(code, [k \in DOMAIN vs |-> vs[k].data[i]])]]

-----------------------------------------------------------------------------
(* A region: its captures, its steps in order, and the operand it yields.  *)

RegionOperand(o, arguments, locals, captured) ==
    CASE o[1] = "argument" -> arguments[o[2]]
      [] o[1] = "local" -> locals[o[2]]
      [] o[1] = "capture" -> captured[o[2]].data[1]

Yielded(body, arguments, captured) ==
    LET Step(locals, s) ==
            Append(locals, Applied(s.code, [k \in DOMAIN s.args |->
                                     RegionOperand(s.args[k], arguments, locals, captured)]))
    IN RegionOperand(body.yield, arguments, FoldLeft(Step, <<>>, body.steps), captured)

\* Captures are evaluated with the elements: without elements, not at all.
Captures(n, captured) ==
    n > 0 => \A c \in DOMAIN captured : ~captured[c].tensor /\ captured[c] # Refused

Mapped(op, vs, captured) ==
    LET n == Len(vs[1].data)
    IN IF (\E k \in DOMAIN vs : ~vs[k].tensor \/ Len(vs[k].data) # n) \/ ~Captures(n, captured)
       THEN Refused
       ELSE TensorOf([i \in 1..n |-> Yielded(op.body, [k \in DOMAIN vs |-> vs[k].data[i]], captured)])

Reduced(op, vs, captured) ==
    IF ~vs[1].tensor \/ vs[2].tensor \/ ~Captures(Len(vs[1].data), captured)
    THEN Refused
    ELSE ScalarOf(FoldLeft(LAMBDA acc, x : Yielded(op.body, <<acc, x>>, captured),
                           vs[2].data[1], vs[1].data))

Operated(op, vs, captured) ==
    CASE \E k \in DOMAIN vs : vs[k] = Refused -> Refused
      [] op.code \in {"map", "zip"} -> Mapped(op, vs, captured)
      [] op.code = "reduce" -> Reduced(op, vs, captured)
      [] OTHER -> Elementwise(op.code, vs)

-----------------------------------------------------------------------------
(* The reference evaluator.                                                *)

\* One link only: the fill of a hole may itself be the placeholder of another.
Resolve(p, v) == IF v \in DOMAIN p.holes THEN p.holes[v].fill ELSE v

TypeOf(p, v) == IF v \in DOMAIN p.holes THEN p.holes[v].type ELSE p.ops[v].type

Values(p, parameters) ==
    LET value[v \in DOMAIN p.ops \cup DOMAIN p.holes] ==
            LET r == Resolve(p, v)
            IN IF r \in DOMAIN p.holes THEN Refused
               ELSE CASE p.ops[r].code = "parameter" -> parameters[r]
                      [] p.ops[r].code = "constant" -> ScalarOf(p.ops[r].value)
                      [] OTHER -> Operated(p.ops[r],
                                     [k \in DOMAIN p.ops[r].args |-> value[p.ops[r].args[k]]],
                                     [c \in ToSet(p.ops[r].body.caps) |-> value[c]])
    IN value

OfKind(type, value) == value.tensor = (type # Scalar)

Fits(type, value) ==
    /\ OfKind(type, value)
    /\ type[1] = "static" => Len(value.data) = type[2]
    /\ type[1] = "affine" => Len(value.data) % 2 = 0

\* The sizes an input gives to symbols, and the length a type has under sizes.
Implied(type, value) ==
    CASE type[1] = "symbol" -> {<<type[2], Len(value.data)>>}
      [] type[1] = "affine" -> {<<type[2], Len(value.data) \div 2>>}
      [] OTHER -> {}

Consistent(sizes) == \A s, t \in sizes : s[1] = t[1] => s = t

Length(type, sizes) ==
    CASE type[1] = "static" -> type[2]
      [] type[1] = "symbol" -> (CHOOSE s \in sizes : s[1] = type[2])[2]
      [] type[1] = "affine" -> 2 * (CHOOSE s \in sizes : s[1] = type[2])[2]

Bound(type, sizes) == type[1] \in {"symbol", "affine"} => \E s \in sizes : s[1] = type[2]

Preflight(p, sizes) ==
    /\ \A v \in DOMAIN p.ops \cup DOMAIN p.holes : Bound(TypeOf(p, v), sizes)
    /\ \A pair \in p.same : /\ Bound(pair[1], sizes) /\ Bound(pair[2], sizes)
                            /\ Length(pair[1], sizes) = Length(pair[2], sizes)

\* Outputs are encoded as JSON, which has no non-finite numbers.
Encoded(values) ==
    IF \E n \in DOMAIN values : values[n] = Refused \/ NonFinite \in ToSet(values[n].data)
    THEN NoOutputs ELSE values

Evaluate(p, inputs) ==
    LET sizes == UNION {Implied(TypeOf(p, p.params[n]), inputs[n]) : n \in DOMAIN p.params}
        parameters == [v \in Range(p.params) |->
                          inputs[CHOOSE n \in DOMAIN p.params : p.params[n] = v]]
    IN IF /\ DOMAIN inputs = DOMAIN p.params
          /\ \A n \in DOMAIN inputs : Fits(TypeOf(p, p.params[n]), inputs[n])
          /\ Consistent(sizes) /\ Preflight(p, sizes)
       THEN Encoded([n \in DOMAIN p.outs |-> Values(p, parameters)[p.outs[n]]])
       ELSE NoOutputs

-----------------------------------------------------------------------------
(* Identity lowering.                                                      *)

\* Depth first: what an operation reads, operands then captures, then the operation.  A placeholder
\* behind a fill is no operation: its number ends in the order, and the order is refused.
Reads(op) == op.args \o op.body.caps

Visited(p, first) ==
    LET visit[x \in Seq(Nat) \X Seq(Nat)] ==
            IF x[2] = <<>> THEN x[1]
            ELSE LET r == Resolve(p, Head(x[2]))
                     order == IF r \in ToSet(x[1]) THEN x[1]
                              ELSE IF r \in DOMAIN p.holes THEN Append(x[1], r)
                              ELSE Append(visit[<<x[1], Reads(p.ops[r])>>], r)
                 IN visit[<<order, Tail(x[2])>>]
    IN visit[<<<<>>, first>>]

\* The values of a map from names, in the order of the names.
InNameOrder(f) == [k \in 1..Cardinality(DOMAIN f) |-> f[SetToSortSeq(DOMAIN f, <)[k]]]

Position(order, v) == CHOOSE k \in DOMAIN order : order[k] = v

SourceOrder(p) == Visited(p, InNameOrder(p.params) \o InNameOrder(p.outs))

\* Captures are looked up as written, not through the fill of a hole.
LowerRegion(body, order) ==
    LET Operand(o) == IF o[1] = "capture" THEN <<"capture", Position(order, o[2])>> ELSE o
    IN [caps |-> [k \in DOMAIN body.caps |-> Position(order, body.caps[k])],
        steps |-> [k \in DOMAIN body.steps |->
                      [code |-> body.steps[k].code,
                       args |-> [j \in DOMAIN body.steps[k].args |-> Operand(body.steps[k].args[j])]]],
        yield |-> Operand(body.yield)]

NotLowered == [ops |-> <<>>]

IdentityLower(p) ==
    LET order == SourceOrder(p)
        Lowered(v) == Position(order, Resolve(p, v))
    IN IF \E k \in DOMAIN order :
             \/ order[k] \in DOMAIN p.holes
             \/ ~(ToSet(p.ops[order[k]].body.caps) \subseteq ToSet(order))
       THEN NotLowered
       ELSE [ops |-> [k \in DOMAIN order |->
                        [p.ops[order[k]] EXCEPT
                            !.args = [j \in DOMAIN @ |-> Lowered(@[j])],
                            !.body = LowerRegion(@, order)]],
             holes |-> <<>>, same |-> p.same,
             params |-> [n \in DOMAIN p.params |-> Lowered(p.params[n])],
             outs |-> [n \in DOMAIN p.outs |-> Lowered(p.outs[n])]]

-----------------------------------------------------------------------------
(* Verification of an implementation program against its source.           *)

\* The type of an operation follows from its first operand; parameters and constants carry theirs.
Inferred(q, op) ==
    CASE op.code \in {"parameter", "constant"} -> op.type
      [] op.code = "reduce" -> Scalar
      [] OTHER -> q.ops[op.args[1]].type

\* Operands of one kind agree unless their extents are known to differ: what is merely unknown, and
\* would be a condition of a builder action, passes.
Known(q, type) ==
    {t \in {type} \cup UNION {{pair[1], pair[2]} : pair \in {e \in q.same : type \in {e[1], e[2]}}} :
        t[1] = "static"}

Compatible(q, types) ==
    \A k \in DOMAIN types : /\ (types[k] = Scalar) = (types[1] = Scalar)
                            /\ \A s \in Known(q, types[1]), t \in Known(q, types[k]) : s = t

OperandTypes(q, op) == [k \in DOMAIN op.args |-> q.ops[op.args[k]].type]

InfersPrimitive(q, op) ==
    Len(op.args) = (IF op.code = "fma" THEN 3 ELSE 2) /\ Compatible(q, OperandTypes(q, op))

InfersHigher(q, op) ==
    LET types == OperandTypes(q, op)
    IN /\ types # <<>> /\ types[1] # Scalar
       /\ CASE op.code = "map" -> Len(types) = 1
            [] op.code = "zip" -> Compatible(q, types)
            [] op.code = "reduce" -> Len(types) = 2 /\ types[2] = Scalar

Infers(q, op) ==
    CASE op.code \in {"parameter", "constant"} -> op.args = <<>>
      [] op.code \in {"map", "zip", "reduce"} -> InfersHigher(q, op)
      [] OTHER -> InfersPrimitive(q, op)

VerifiedRegion(q, op) ==
    /\ IsInjective(op.body.caps)
    /\ ToSet(op.body.caps) \subseteq DOMAIN q.ops
    /\ \A k \in DOMAIN op.body.steps : \A j \in DOMAIN op.body.steps[k].args :
          LET o == op.body.steps[k].args[j]
          IN /\ o[1] = "local" => o[2] < k
             /\ o[1] = "capture" => o[2] \in ToSet(op.body.caps) /\ q.ops[o[2]].type = Scalar

VerifiedOperations(q) ==
    \A k \in DOMAIN q.ops :
        /\ ToSet(q.ops[k].args) \subseteq 1..(k - 1)
        /\ VerifiedRegion(q, q.ops[k]) /\ Infers(q, q.ops[k])
        /\ q.ops[k].type = Inferred(q, q.ops[k])

VerifiedInterface(q, p) ==
    /\ q.same = p.same
    /\ DOMAIN q.params = DOMAIN p.params /\ DOMAIN q.outs = DOMAIN p.outs /\ q.outs # <<>>
    /\ \A n \in DOMAIN q.params : /\ q.ops[q.params[n]].code = "parameter"
                                  /\ q.ops[q.params[n]].type = TypeOf(p, p.params[n])
    /\ \A n \in DOMAIN q.outs : q.ops[q.outs[n]].type = TypeOf(p, p.outs[n])

\* The implementation program of a source, or none.
Implementation(p) ==
    LET q == IdentityLower(p)
    IN IF q # NotLowered /\ VerifiedOperations(q) /\ VerifiedInterface(q, p) THEN q ELSE NotLowered
=============================================================================
