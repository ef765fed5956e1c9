------------------------------ MODULE ShapeFacts ------------------------------
(***************************************************************************)
(* The compact fact engine that decides shape equalities (ConstraintFacts  *)
(* in agentir-core): union-find over the dimension symbols with at most    *)
(* one static extent per class, and the set of accepted equalities.        *)
(*                                                                         *)
(* Symbols are positive numbers in the lexicographic order of their names. *)
(* A dimension is one record, coef * sym + add; a static extent has no     *)
(* symbol.  NonNegative constraints take part in no query and are left     *)
(* out.  Extents are mathematical integers: the code computes in i128,     *)
(* which an i64 coefficient and a u64 extent cannot overflow.  Shapes have *)
(* a rank of at most two, the bound on the loop over a shape's dimensions. *)
(***************************************************************************)
EXTENDS Integers, Sequences

CONSTANT
    Symbols   \* the dimension symbols a program may declare

ASSUME SymbolsAssumption == Symbols \subseteq Nat \ {0}

NoSymbol == 0
Unbound == -1

Static(v) == [coef |-> 0, sym |-> NoSymbol, add |-> v]
Symbol(s) == [coef |-> 1, sym |-> s, add |-> 0]
Affine(k, s, c) == [coef |-> k, sym |-> s, add |-> c]

IsStatic(d) == d.sym = NoSymbol
IsSymbol(d) == d.sym # NoSymbol /\ d.coef = 1 /\ d.add = 0

Dims == [coef : Int, sym : Symbols \cup {NoSymbol}, add : Int]

\* An extent is a u64; a rank above two is out of the model.
IsShape(q) ==
    /\ q \in Seq(Dims)
    /\ Len(q) <= 2
    /\ \A i \in DOMAIN q : IsStatic(q[i]) => q[i].coef = 0 /\ q[i].add \in Nat

SymbolsOf(shape) == {shape[i].sym : i \in DOMAIN shape} \ {NoSymbol}

---------------------------------------------------------------------------
\* A fact table.  A symbol without a parent is not declared.
NoFacts == [parent   |-> [s \in Symbols |-> NoSymbol],
            bound    |-> [s \in Symbols |-> Unbound],
            accepted |-> {},
            conflict |-> FALSE]

Declared(f) == {s \in Symbols : f.parent[s] # NoSymbol}

DeclareSymbol(f, s) == [f EXCEPT !.parent[s] = s]

\* union redirects every link to the replaced representative, so a link always ends
\* at a representative and the loop of `root` stops after it (FlatForest).
Root(f, s) == f.parent[s]

\* Mutant: a class's extent is not substituted in an affine dimension.
X_NormalizeDim_KeepsAffine(f, d) ==
    IF IsStatic(d) THEN d
    ELSE LET r == Root(f, d.sym)
         IN  IF f.bound[r] # Unbound THEN Static(f.bound[r] + d.add)
                                     ELSE [d EXCEPT !.sym = r]

NormalizeDim(f, d) ==
    IF IsStatic(d) THEN d
    ELSE LET r == Root(f, d.sym)
         IN  IF f.bound[r] # Unbound THEN Static(d.coef * f.bound[r] + d.add)
                                     ELSE [d EXCEPT !.sym = r]

\* Two normal forms that no extent can make equal.
Clash(a, b) == a.sym = b.sym /\ a.coef = b.coef /\ a.add # b.add

SameNormal(f, l, r) ==
    \A i \in DOMAIN l : NormalizeDim(f, l[i]) = NormalizeDim(f, r[i])

Contradicts(f, l, r) ==
    \/ Len(l) # Len(r)
    \/ \E i \in DOMAIN l : Clash(NormalizeDim(f, l[i]), NormalizeDim(f, r[i]))

\* query_shapes: an accepted equality first, then the normal forms.
Query(f, l, r) ==
    IF [left |-> l, right |-> r] \in f.accepted \/ [left |-> r, right |-> l] \in f.accepted
    THEN "proved"
    ELSE IF Contradicts(f, l, r) THEN "contradiction"
    ELSE IF SameNormal(f, l, r) THEN "proved"
    ELSE "unknown"

Redirected(f, gone, rep) ==
    [u \in Symbols |-> IF f.parent[u] = gone THEN rep ELSE f.parent[u]]

JoinedExtent(f, gone, rep) ==
    IF f.bound[rep] # Unbound THEN f.bound[rep] ELSE f.bound[gone]

\* Mutant: an extent known of one class only is taken for a conflict.
X_ExtentsDiffer_OneKnown(f, gone, rep) == f.bound[gone] # f.bound[rep]

ExtentsDiffer(f, gone, rep) ==
    f.bound[gone] # Unbound /\ f.bound[rep] # Unbound /\ f.bound[gone] # f.bound[rep]

Earlier(a, b) == IF a < b THEN a ELSE b

\* Merges two classes; the smaller representative stays and keeps the extent known of
\* either.  Two different extents are a conflict, and the staged table is dropped.
Union(f, s, t) ==
    LET a == Root(f, s)
        b == Root(f, t)
        rep == Earlier(a, b)
        gone == IF rep = a THEN b ELSE a
    IN  IF a = b THEN f
        ELSE [f EXCEPT !.parent = Redirected(f, gone, rep),
                       !.bound = [f.bound EXCEPT ![rep] = JoinedExtent(f, gone, rep),
                                                 ![gone] = Unbound],
                       !.conflict = f.conflict \/ ExtentsDiffer(f, gone, rep)]

BindStatic(f, s, v) ==
    LET r == Root(f, s)
    IN  IF f.bound[r] = Unbound THEN [f EXCEPT !.bound[r] = v]
        ELSE [f EXCEPT !.conflict = f.conflict \/ f.bound[r] # v]

\* Only plain symbols and extents enter the classes.
AddEqualityFact(f, l, r) ==
    IF IsSymbol(l) /\ IsSymbol(r) THEN Union(f, l.sym, r.sym)
    ELSE IF IsSymbol(l) /\ IsStatic(r) THEN BindStatic(f, l.sym, r.add)
    ELSE IF IsStatic(l) /\ IsSymbol(r) THEN BindStatic(f, r.sym, l.add)
    ELSE f

AddDimFact(f, l, r, i) ==
    IF i \in DOMAIN l THEN AddEqualityFact(f, l[i], r[i]) ELSE f

AddShapeFact(f, l, r) == AddDimFact(AddDimFact(f, l, r, 1), l, r, 2)

Accept(f, c) == [f EXCEPT !.accepted = @ \cup {c}]

Staged(f, c) == Accept(AddShapeFact(f, c.left, c.right), c)

\* Mutant: the earlier equalities are not verified against the new classes.
X_VerifyAllEqualities_Skipped(f) == TRUE

VerifyAllEqualities(f) == \A c \in f.accepted : ~Contradicts(f, c.left, c.right)

Consistent(f) == ~f.conflict /\ VerifyAllEqualities(f)

InsertOk(f, c) ==
    /\ SymbolsOf(c.left) \cup SymbolsOf(c.right) \subseteq Declared(f)
    /\ \/ c \in f.accepted
       \/ ~Contradicts(f, c.left, c.right) /\ Consistent(Staged(f, c))

\* insert: the staged table replaces the old one only when nothing contradicts.
Extended(f, c) == IF c \in f.accepted THEN f ELSE Staged(f, c)

Inserted(f, c) == IF InsertOk(f, c) THEN Extended(f, c) ELSE f

---------------------------------------------------------------------------
\* What a dimension, and an accepted equality, mean: the reference the answers are
\* judged by.  A valuation gives every symbol an extent.
Extent(d, val) == IF IsStatic(d) THEN d.add ELSE d.coef * val[d.sym] + d.add

Equal(l, r, val) ==
    Len(l) = Len(r) /\ \A i \in DOMAIN l : Extent(l[i], val) = Extent(r[i], val)

Satisfies(val, facts) == \A c \in facts : Equal(c.left, c.right, val)
=============================================================================
