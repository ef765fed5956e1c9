------------------------------ MODULE MCWorkspace ------------------------------
(* Two symbols, and the transactions of a small authoring session, for TLC. *)
EXTENDS Workspace

CONSTANT MaxExtent

N == <<Symbol(1)>>
M == <<Symbol(2)>>
Two == <<Static(2)>>

Equality(l, r) == [left |-> l, right |-> r]
ById(n) == [by |-> "id", n |-> n]
Nth(n) == [by |-> "nth", n |-> n]
Bound(n) == [by |-> "bind", n |-> n]

Dimension(s) == [do |-> "dimension", symbol |-> s]
Param(name, shape) == [do |-> "parameter", name |-> name, shape |-> shape]
HoleOf(shape, local) == [do |-> "hole", shape |-> shape, local |-> local]
Op(operands) == [do |-> "op", operands |-> operands]
FillOf(hole, value) == [do |-> "fill", hole |-> hole, value |-> value]
Output(value) == [do |-> "output", value |-> value]
Constrain(c) == [do |-> "constrain", constraint |-> c]
Freeze == [do |-> "freeze"]
ForkAction == [do |-> "fork"]

SmallScripts == {
    \* two parameters of unrelated extents, which every other script needs
    <<Dimension(1), Dimension(2), Param("a", N), Param("b", M)>>,
    \* an operation that owes N = M
    <<Op(<<Nth(1), Nth(2)>>), Output(Bound(1))>>,
    \* a hole, without and with a constraint of its own, that an operation uses
    <<HoleOf(N, <<>>), Op(<<Bound(1), Nth(1)>>), Output(Bound(2))>>,
    <<HoleOf(N, <<Equality(N, M)>>), Output(Bound(1))>>,
    \* fills by id: value 3 is a hole on some branches and an operation on others
    <<FillOf(ById(3), Nth(2))>>,
    <<FillOf(ById(3), ById(4))>>,
    \* a value, then a reference that may not resolve: the ids must not leak
    <<Param("c", Two), FillOf(ById(3), Bound(1))>>,
    <<Constrain(Equality(N, M))>>,
    <<Constrain(Equality(M, Two)), Constrain(Equality(Two, N))>>,
    <<Freeze>>,
    <<Output(Nth(1)), Freeze, Constrain(Equality(N, Two))>>,
    <<ForkAction>> }

SmallValuations == [Symbols -> 1 .. MaxExtent]
=============================================================================
