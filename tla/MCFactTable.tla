------------------------------ MODULE MCFactTable ------------------------------
(* Three symbols, and shapes and equalities of every form, for TLC. *)
EXTENDS FactTable

CONSTANT MaxExtent

N == Symbol(1)
M == Symbol(2)
K == Symbol(3)

\* Extents, plain symbols, affine dimensions, and shapes of rank two.
SmallQueries ==
    { <<Static(1)>>, <<Static(2)>>, <<Static(3)>>, <<N>>, <<M>>, <<K>>,
      <<Affine(2, 1, 0)>>, <<Affine(2, 2, 1)>>, <<Affine(1, 1, 1)>>,
      <<N, M>>, <<M, Affine(1, 1, 1)>> }

Equality(l, r) == [left |-> l, right |-> r]

\* Every pair of symbols, extents for two classes, and affine equalities that a later
\* class can contradict.
SmallRequests ==
    { Equality(<<N>>, <<M>>), Equality(<<M>>, <<K>>), Equality(<<K>>, <<N>>),
      Equality(<<N>>, <<Static(1)>>), Equality(<<Static(2)>>, <<K>>), Equality(<<M>>, <<Static(3)>>),
      Equality(<<Affine(2, 1, 0)>>, <<M>>), Equality(<<Affine(2, 2, 1)>>, <<Static(3)>>),
      Equality(<<N, M>>, <<M, Affine(1, 1, 1)>>), Equality(<<Static(1)>>, <<N, M>>),
      Equality(<<K>>, <<Static(1)>>), Equality(<<Affine(1, 1, 1)>>, <<Static(2)>>),
      Equality(<<Affine(2, 2, 1)>>, <<Affine(2, 1, 0)>>) }

SmallValuations == [Symbols -> 0 .. MaxExtent]
=============================================================================
