-------------------------- MODULE MCNativeExecution --------------------------
(***************************************************************************)
(* Programs over tensors of at most two elements, each made to meet one    *)
(* difference between the engines: captures of computed scalars, shared    *)
(* and unused values, filled holes, extents equal by a fact, affine        *)
(* extents, operations outside the subset, two outputs in another order,   *)
(* and more values, steps or output than a worker has room for.            *)
(* The executables are the worker, the same with another runtime, and the  *)
(* fixtures of the worker's tests.                                         *)
(***************************************************************************)
EXTENDS NativeExecution

N == <<"symbol", 1>>
M == <<"symbol", 2>>
Static(n) == <<"static", n>>
Affine == <<"affine", 1>>

NoBody == [caps |-> <<>>, steps |-> <<>>, yield |-> <<"argument", 1>>]
Op(code, args, type, body) == [code |-> code, args |-> args, type |-> type, value |-> 0, body |-> body]
Param(type) == Op("parameter", <<>>, type, NoBody)
Const(x) == [Op("constant", <<>>, Scalar, NoBody) EXCEPT !.value = x]
Prim(code, args) == Op(code, args, Scalar, NoBody)

Does(code, args) == [code |-> code, args |-> args]
A(k) == <<"argument", k>>
L(k) == <<"local", k>>
C(v) == <<"capture", v>>
Body(caps, steps, yield) == [caps |-> caps, steps |-> steps, yield |-> yield]

\* y * s + x, and y * s + x in two steps.
Saxpy(s) == Body(<<s>>, <<Does("fma", <<A(1), C(s), A(2)>>)>>, L(1))
Twice(s) == Body(<<s>>, <<Does("mul", <<A(1), C(s)>>), Does("add", <<L(1), A(1)>>)>>, L(2))
Sum == Body(<<>>, <<Does("add", <<A(1), A(2)>>)>>, L(1))
Same == Body(<<>>, <<>>, A(1))

Program(ops, params, outs) ==
    [ops |-> ops, holes |-> <<>>, params |-> params, outs |-> outs, same |-> {}]

Hole(fill, type) == [fill |-> fill, type |-> type]

Doubling == Program((1 :> Param(Static(2))) @@ (2 :> Op("zip", <<1, 1>>, Static(2), Sum)), (1 :> 1), (1 :> 2))

MCPrograms == {
    Doubling,
    Program((1 :> Param(N)) @@ (2 :> Param(Scalar)) @@ (3 :> Param(N))
            @@ (4 :> Op("zip", <<3, 1>>, N, Saxpy(2))),
            (1 :> 3) @@ (2 :> 1) @@ (3 :> 2), (1 :> 4)),
    Program((1 :> Param(Scalar)) @@ (2 :> Const(2)) @@ (3 :> Prim("mul", <<1, 2>>))
            @@ (4 :> Prim("fma", <<1, 1, 3>>)) @@ (5 :> Param(Scalar)) @@ (6 :> Prim("add", <<4, 3>>)),
            (1 :> 5) @@ (2 :> 1), (1 :> 6) @@ (2 :> 3)),
    Program((1 :> Param(N)) @@ (2 :> Param(Scalar)) @@ (3 :> Const(-1))
            @@ (4 :> Prim("add", <<2, 3>>)) @@ (5 :> Op("map", <<1>>, N, Twice(4)))
            @@ (6 :> Op("map", <<5>>, N, Twice(2))),
            (1 :> 1) @@ (2 :> 2), (1 :> 6) @@ (2 :> 1) @@ (3 :> 5)),
    [Program((1 :> Param(N)) @@ (2 :> Param(Scalar)) @@ (3 :> Op("map", <<1>>, N, Twice(2)))
             @@ (5 :> Op("map", <<4>>, N, Twice(2))),
             (1 :> 1) @@ (2 :> 2), (1 :> 5)) EXCEPT !.holes = (4 :> Hole(3, N))],
    [Program((1 :> Param(N)) @@ (2 :> Param(Scalar)) @@ (3 :> Prim("add", <<2, 2>>))
             @@ (5 :> Op("map", <<1>>, N, Twice(4))),
             (1 :> 1) @@ (2 :> 2), (1 :> 5)) EXCEPT !.holes = (4 :> Hole(3, Scalar))],
    [Program((1 :> Param(N)) @@ (2 :> Op("zip", <<1, 4>>, N, Sum)),
             (1 :> 1), (1 :> 2)) EXCEPT !.holes = (3 :> Hole(1, N)) @@ (4 :> Hole(3, N))],
    [Program((1 :> Param(N)) @@ (2 :> Param(M)) @@ (3 :> Op("zip", <<1, 2>>, N, Sum)),
             (1 :> 1) @@ (2 :> 2), (1 :> 3)) EXCEPT !.same = {<<N, M>>}],
    [Program((1 :> Param(N)) @@ (2 :> Param(M)) @@ (3 :> Op("zip", <<1, 1>>, N, Sum)),
             (1 :> 1) @@ (2 :> 2), (1 :> 3)) EXCEPT !.same = {<<N, M>>}],
    Program((1 :> Param(N)) @@ (2 :> Param(Scalar)) @@ (3 :> Op("reduce", <<1, 2>>, Scalar, Sum)),
            (1 :> 1) @@ (2 :> 2), (1 :> 3)),
    Program((1 :> Param(N)) @@ (2 :> Op("sub", <<1, 1>>, N, NoBody)), (1 :> 1), (1 :> 2)),
    Program((1 :> Param(N)) @@ (2 :> Op("map", <<1>>, N, Same)) @@ (3 :> Op("map", <<2>>, N, Same))
            @@ (4 :> Op("map", <<3>>, N, Same)),
            (1 :> 1), (1 :> 4)),
    [Doubling EXCEPT !.outs = (1 :> 2) @@ (2 :> 2) @@ (3 :> 2)],
    Program((1 :> Param(Affine)) @@ (2 :> Op("zip", <<1, 1>>, Affine, Sum)), (1 :> 1), (1 :> 2)) }

MCInputs == {TensorOf(<<>>), TensorOf(<<3>>), TensorOf(<<1, -3>>), TensorOf(<<2, NonFinite>>),
             ScalarOf(2), ScalarOf(-1)}

\* Enough, for tensors of one element only, and more than the worker allows.
MCLimits == {[buffers |-> 9, elements |-> 9], [buffers |-> 9, elements |-> 99]}
MCDefaultLimits == [buffers |-> 9, elements |-> 12]

\* Below the default limits.  Calls of the three-fold map exceed the values alone, calls of two maps
\* by a computed scalar the steps alone, one output under three names the frame alone.
MCWorkerCaps == [values |-> 7, steps |-> 5, frame |-> 4]

Executable(serves, spins, out, err, end, response, runtime) ==
    [serves |-> serves, spins |-> spins, writes |-> [stdout |-> out, stderr |-> err],
     status |-> end, response |-> response, runtime |-> runtime]

MCExecutables == {
    Executable(TRUE, FALSE, 2, 0, "success", TRUE, "this"),
    Executable(TRUE, FALSE, 2, 0, "success", TRUE, "other"),
    Executable(FALSE, FALSE, 0, 0, "failure", FALSE, "this"),   \* exit-worker
    Executable(FALSE, FALSE, 2, 0, "success", FALSE, "this"),   \* extra-worker, malformed-worker
    Executable(FALSE, TRUE, 0, 0, "success", FALSE, "this"),    \* hung-worker
    Executable(FALSE, FALSE, 0, 1, "success", FALSE, "this"),   \* stderr-worker
    Executable(FALSE, FALSE, 4, 0, "success", FALSE, "this") }  \* more than a frame

\* The fixtures run on one program: what they do does not depend on it.
FixturesOnce == executable # NotYet /\ ~executable.serves => call.program = Doubling
=============================================================================
