---------------------------- MODULE MCMemoryPlans ----------------------------
(***************************************************************************)
(* a = f(x), b = f(a), c = f(b), d = f(c), e = g(a, d): a is read twice,   *)
(* and of b to e each can take the storage of the one before, which may    *)
(* itself have been taken.                                                 *)
(***************************************************************************)
EXTENDS MemoryPlans

Op(operands, result) == [operands |-> operands, result |-> result]

MCOperations ==
    <<Op({"x"}, "a"), Op({"a"}, "b"), Op({"b"}, "c"), Op({"c"}, "d"), Op({"a", "d"}, "e")>>
MCTypeOf == [v \in {"x", "a", "b", "c", "d", "e"} |-> "tensor"]
=============================================================================
