---------------------------- MODULE FactTableProofs ----------------------------
(***************************************************************************)
(* Proofs about FactTable: the engine is sound for every set of symbols,   *)
(* every affine dimension and every assignment of extents.                 *)
(*                                                                         *)
(* The argument: every assignment that satisfies the accepted equalities   *)
(* gives a symbol the extent of its representative, and the extent the     *)
(* table knows (Holds).  Normalizing a dimension then keeps its extent, so *)
(* equal normal forms have equal extents and clashing ones never do.       *)
(*                                                                         *)
(* The order of insertion does not matter either: tables are compared by   *)
(* what they know (Below), inserting an equality gives the least table     *)
(* above the old one that knows it, and two tables that know the same are  *)
(* the same, as a class is named by its smallest symbol.                   *)
(***************************************************************************)
EXTENDS FactTable, TLAPS

\* The shape of a table, whatever it accepts.
Table(f) ==
    /\ f = [parent |-> f.parent, bound |-> f.bound,
            accepted |-> f.accepted, conflict |-> f.conflict]
    /\ f.parent \in [Symbols -> Symbols \cup {NoSymbol}]
    /\ f.bound \in [Symbols -> Nat \cup {Unbound}]
    /\ f.conflict \in BOOLEAN
    /\ FlatForest(f)
    /\ \A s \in Symbols \ Declared(f) : f.bound[s] = Unbound

\* The assignment agrees with the classes of the table and their extents.
Holds(f, val) ==
    \A s \in Declared(f) : /\ val[s] = val[f.parent[s]]
                           /\ f.bound[s] # Unbound => val[s] = f.bound[s]

DimOk(f, d) ==
    /\ d \in Dims
    /\ IsStatic(d) => d.coef = 0 /\ d.add \in Nat
    /\ ~IsStatic(d) => d.sym \in Declared(f)

ShapeOk(f, q) == IsShape(q) /\ SymbolsOf(q) \subseteq Declared(f)

\* The inductive invariant.
IInv ==
    /\ Table(facts)
    /\ facts.conflict = FALSE
    /\ facts.accepted \subseteq Requests
    /\ \A c \in facts.accepted : SymbolsOf(c.left) \cup SymbolsOf(c.right) \subseteq Declared(facts)
    /\ \A val \in [Symbols -> Nat] : Satisfies(val, facts.accepted) => Holds(facts, val)

---------------------------------------------------------------------------
\* The dimensions of a shape whose symbols are declared.
LEMMA ShapeDims ==
    ASSUME NEW f, NEW q, ShapeOk(f, q)
    PROVE  /\ DOMAIN q = 1 .. Len(q) /\ Len(q) \in 0 .. 2
           /\ \A i \in DOMAIN q : DimOk(f, q[i])
<1>1. q \in Seq(Dims) /\ Len(q) \in Nat /\ Len(q) <= 2 /\ DOMAIN q = 1 .. Len(q)
  BY DEF ShapeOk, IsShape
<1>2. ASSUME NEW i \in DOMAIN q PROVE DimOk(f, q[i])
  <2>1. q[i] \in Dims
    BY <1>1, <1>2
  <2>2. IsStatic(q[i]) => q[i].coef = 0 /\ q[i].add \in Nat
    BY <1>2 DEF ShapeOk, IsShape
  <2>3. ~IsStatic(q[i]) => q[i].sym \in Declared(f)
    BY <1>2 DEF ShapeOk, SymbolsOf, IsStatic
  <2>4. QED
    BY <2>1, <2>2, <2>3 DEF DimOk
<1>3. QED
  BY <1>1, <1>2

\* Normalizing keeps the extent.
LEMMA NormalKeepsExtent ==
    ASSUME NEW f, Table(f), NEW val \in [Symbols -> Nat], Holds(f, val), NEW d, DimOk(f, d)
    PROVE  /\ NormalizeDim(f, d) \in Dims
           /\ Extent(NormalizeDim(f, d), val) = Extent(d, val)
<1>1. CASE IsStatic(d)
  BY <1>1 DEF NormalizeDim, DimOk
<1>2. CASE ~IsStatic(d)
  <2> DEFINE r == f.parent[d.sym]
  <2>1. /\ d.sym \in Declared(f) /\ d.sym \in Symbols /\ d.coef \in Int /\ d.add \in Int
        /\ r \in Declared(f) /\ r \in Symbols /\ r # NoSymbol
    BY <1>2, SymbolsAssumption DEF DimOk, Declared, Dims, Table, FlatForest, NoSymbol
  <2>2. val[d.sym] = val[r] /\ (f.bound[r] # Unbound => val[r] = f.bound[r])
    BY <2>1 DEF Holds
  <2>3. CASE f.bound[r] # Unbound
    <3>1. NormalizeDim(f, d) = Static(d.coef * f.bound[r] + d.add)
      BY <1>2, <2>3 DEF NormalizeDim, Root
    <3>2. f.bound[r] = val[d.sym] /\ val[d.sym] \in Nat
      BY <2>1, <2>2, <2>3
    <3>3. d.coef * val[d.sym] \in Int
      BY <2>1, <3>2
    <3>4. NormalizeDim(f, d) = Static(d.coef * val[d.sym] + d.add)
      BY <3>1, <3>2
    <3>5. Extent(d, val) = d.coef * val[d.sym] + d.add
      BY <1>2 DEF Extent
    <3>6. QED
      BY <2>1, <3>3, <3>4, <3>5 DEF Static, IsStatic, Extent, Dims, NoSymbol
  <2>4. CASE f.bound[r] = Unbound
    <3>1. NormalizeDim(f, d) = [d EXCEPT !.sym = r]
      BY <1>2, <2>4 DEF NormalizeDim, Root
    <3>2. d = [coef |-> d.coef, sym |-> d.sym, add |-> d.add]
      BY DEF DimOk, Dims
    <3>3. NormalizeDim(f, d) = [coef |-> d.coef, sym |-> r, add |-> d.add]
      BY <3>1, <3>2
    <3>4. QED
      BY <1>2, <2>1, <2>2, <3>3 DEF Extent, IsStatic, Dims
  <2>5. QED
    BY <2>3, <2>4
<1>3. QED
  BY <1>1, <1>2

\* Clashing dimensions differ under every assignment.
LEMMA ClashDiffers ==
    ASSUME NEW val \in [Symbols -> Nat], NEW a \in Dims, NEW b \in Dims, Clash(a, b)
    PROVE  Extent(a, val) # Extent(b, val)
<1>1. a.sym = b.sym /\ a.coef = b.coef /\ a.add # b.add /\ a.add \in Int /\ b.add \in Int
  BY DEF Clash, Dims
<1>2. CASE IsStatic(a)
  BY <1>1, <1>2 DEF Extent, IsStatic
<1>3. CASE ~IsStatic(a)
  <2>1. a.sym \in Symbols /\ a.coef \in Int /\ val[a.sym] \in Int
    BY <1>3 DEF Dims, IsStatic
  <2> DEFINE x == a.coef * val[a.sym]
  <2>2. x \in Int
    BY <2>1
  <2>3. Extent(a, val) = x + a.add /\ Extent(b, val) = x + b.add
    BY <1>1, <1>3 DEF Extent, IsStatic
  <2> HIDE DEF x
  <2>4. QED
    BY <1>1, <2>2, <2>3
<1>4. QED
  BY <1>2, <1>3

\* What contradicts the classes fails, and what has one normal form holds.
LEMMA ContradictionFails ==
    ASSUME NEW f, Table(f), NEW val \in [Symbols -> Nat], Holds(f, val),
           NEW l, NEW r, ShapeOk(f, l), ShapeOk(f, r), Contradicts(f, l, r)
    PROVE  ~Equal(l, r, val)
<1>1. CASE Len(l) # Len(r)
  BY <1>1 DEF Equal
<1>2. CASE Len(l) = Len(r) /\ \E i \in DOMAIN l : Clash(NormalizeDim(f, l[i]), NormalizeDim(f, r[i]))
  <2>1. PICK i \in DOMAIN l : Clash(NormalizeDim(f, l[i]), NormalizeDim(f, r[i]))
    BY <1>2
  <2>2. DimOk(f, l[i]) /\ DimOk(f, r[i])
    BY <1>2, <2>1, ShapeDims
  <2>3. /\ NormalizeDim(f, l[i]) \in Dims /\ Extent(NormalizeDim(f, l[i]), val) = Extent(l[i], val)
        /\ NormalizeDim(f, r[i]) \in Dims /\ Extent(NormalizeDim(f, r[i]), val) = Extent(r[i], val)
    BY <2>2, NormalKeepsExtent
  <2>4. Extent(l[i], val) # Extent(r[i], val)
    BY <2>1, <2>3, ClashDiffers
  <2>5. QED
    BY <2>1, <2>4 DEF Equal
<1>3. QED
  BY <1>1, <1>2 DEF Contradicts

\* Two shapes with the same normal forms are equal under every assignment that agrees.
LEMMA SameNormalHolds ==
    ASSUME NEW f, Table(f), NEW val \in [Symbols -> Nat], Holds(f, val),
           NEW l, NEW r, ShapeOk(f, l), ShapeOk(f, r), Len(l) = Len(r), SameNormal(f, l, r)
    PROVE  Equal(l, r, val)
<1>1. ASSUME NEW i \in DOMAIN l PROVE Extent(l[i], val) = Extent(r[i], val)
  <2>1. DimOk(f, l[i]) /\ DimOk(f, r[i])
    BY <1>1, ShapeDims
  <2>2. /\ Extent(NormalizeDim(f, l[i]), val) = Extent(l[i], val)
        /\ Extent(NormalizeDim(f, r[i]), val) = Extent(r[i], val)
    BY <2>1, NormalKeepsExtent
  <2>3. QED
    BY <1>1, <2>2 DEF SameNormal
<1>2. QED
  BY <1>1 DEF Equal

\* What the table answers agrees with every assignment that satisfies what it accepted.
LEMMA AnswersAgree ==
    ASSUME NEW f, Table(f), NEW val \in [Symbols -> Nat], Holds(f, val), Satisfies(val, f.accepted),
           NEW l, NEW r, ShapeOk(f, l), ShapeOk(f, r)
    PROVE  /\ Query(f, l, r) = "proved" => Equal(l, r, val)
           /\ Query(f, l, r) = "contradiction" => ~Equal(l, r, val)
<1>1. ASSUME Query(f, l, r) = "proved" PROVE Equal(l, r, val)
  <2>1. CASE [left |-> l, right |-> r] \in f.accepted
    BY <2>1 DEF Satisfies
  <2>2. CASE [left |-> r, right |-> l] \in f.accepted
    <3>1. Equal(r, l, val)
      BY <2>2 DEF Satisfies
    <3>2. DOMAIN l = 1 .. Len(l) /\ DOMAIN r = 1 .. Len(r)
      BY ShapeDims
    <3>3. QED
      BY <3>1, <3>2 DEF Equal
  <2>3. CASE ~Contradicts(f, l, r) /\ SameNormal(f, l, r)
    BY <2>3, SameNormalHolds DEF Contradicts
  <2>4. QED
    BY <1>1, <2>1, <2>2, <2>3 DEF Query
<1>2. ASSUME Query(f, l, r) = "contradiction" PROVE ~Equal(l, r, val)
  <2>1. Contradicts(f, l, r)
    BY <1>2 DEF Query
  <2>2. QED
    BY <2>1, ContradictionFails
<1>3. QED
  BY <1>1, <1>2

---------------------------------------------------------------------------
\* Merging two classes keeps the table well formed and what it declares and accepts.
LEMMA UnionTable ==
    ASSUME NEW f, Table(f), NEW s \in Declared(f), NEW t \in Declared(f),
           NEW g, g = Union(f, s, t)
    PROVE  Table(g) /\ Declared(g) = Declared(f) /\ g.accepted = f.accepted
<1> DEFINE a == f.parent[s]
           b == f.parent[t]
           rep == Earlier(a, b)
           gone == IF rep = a THEN b ELSE a
<1>1. /\ a \in Declared(f) /\ b \in Declared(f) /\ Declared(f) \subseteq Symbols
      /\ f.parent[a] = a /\ f.parent[b] = b
  BY DEF Table, FlatForest, Declared
<1>2. CASE a = b
  BY <1>2 DEF Union, Root
<1>3. CASE a # b
  <2>1. /\ a \in Nat /\ b \in Nat /\ a # NoSymbol /\ b # NoSymbol
    BY <1>1, SymbolsAssumption DEF NoSymbol
  <2>2. /\ rep < gone /\ {rep, gone} = {a, b}
    BY <1>3, <2>1 DEF Earlier
  <2>3. g = [f EXCEPT !.parent = Redirected(f, gone, rep),
                      !.bound = [f.bound EXCEPT ![rep] = JoinedExtent(f, gone, rep),
                                                ![gone] = Unbound],
                      !.conflict = f.conflict \/ ExtentsDiffer(f, gone, rep)]
    BY <1>3 DEF Union, Root
  <2>4. g = [parent |-> Redirected(f, gone, rep),
             bound |-> [f.bound EXCEPT ![rep] = JoinedExtent(f, gone, rep), ![gone] = Unbound],
             accepted |-> f.accepted,
             conflict |-> f.conflict \/ ExtentsDiffer(f, gone, rep)]
    BY <2>3 DEF Table
  <2>5. /\ rep \in Declared(f) /\ gone \in Declared(f) /\ rep \in Symbols /\ gone \in Symbols
        /\ rep \in Nat /\ gone \in Nat /\ rep # NoSymbol /\ gone # NoSymbol
        /\ f.parent[rep] = rep /\ f.parent[gone] = gone
    BY <1>1, <2>1, <2>2
  <2> HIDE DEF a, b, rep, gone
  <2>6. /\ g.parent = [u \in Symbols |-> IF f.parent[u] = gone THEN rep ELSE f.parent[u]]
        /\ g.parent \in [Symbols -> Symbols \cup {NoSymbol}]
    BY <2>4, <2>5 DEF Redirected, Table
  <2>7. Declared(g) = Declared(f)
    BY <2>5, <2>6 DEF Declared
  <2>8. /\ g.bound \in [Symbols -> Nat \cup {Unbound}]
        /\ \A u \in Symbols \ Declared(g) : g.bound[u] = Unbound
    <3>1. JoinedExtent(f, gone, rep) \in Nat \cup {Unbound}
      BY <2>5 DEF JoinedExtent, Table
    <3>2. QED
      BY <3>1, <2>4, <2>5, <2>7 DEF Table
  <2>9. FlatForest(g)
    <3> SUFFICES ASSUME NEW u \in Declared(g)
                 PROVE  /\ g.parent[u] \in Declared(g)
                        /\ g.parent[g.parent[u]] = g.parent[u]
                        /\ g.parent[u] <= u
      BY DEF FlatForest
    <3>1. /\ u \in Declared(f) /\ u \in Symbols /\ u \in Nat
          /\ f.parent[u] \in Declared(f) /\ f.parent[f.parent[u]] = f.parent[u] /\ f.parent[u] <= u
      BY <2>7, SymbolsAssumption DEF Table, FlatForest, Declared
    <3>2. f.parent[u] \in Symbols /\ f.parent[u] \in Nat
      BY <3>1, SymbolsAssumption DEF Declared
    <3>3. CASE f.parent[u] = gone
      <4>1. g.parent[u] = rep /\ g.parent[rep] = rep
        BY <3>1, <3>3, <2>2, <2>5, <2>6
      <4>2. QED
        BY <4>1, <3>1, <3>3, <2>2, <2>5, <2>7
    <3>4. CASE f.parent[u] # gone
      <4>1. g.parent[u] = f.parent[u] /\ g.parent[f.parent[u]] = f.parent[u]
        BY <3>1, <3>2, <3>4, <2>6
      <4>2. QED
        BY <4>1, <3>1, <2>7
    <3>5. QED
      BY <3>3, <3>4
  <2>10. g.conflict \in BOOLEAN
    BY <2>4 DEF Table, ExtentsDiffer
  <2>11. g = [parent |-> g.parent, bound |-> g.bound, accepted |-> g.accepted, conflict |-> g.conflict]
    BY <2>4
  <2>12. QED
    BY <2>4, <2>6, <2>7, <2>8, <2>9, <2>10, <2>11 DEF Table
<1>4. QED
  BY <1>2, <1>3

\* An assignment that makes the two symbols equal agrees with the merged classes.
LEMMA UnionHolds ==
    ASSUME NEW f, Table(f), NEW s \in Declared(f), NEW t \in Declared(f),
           NEW val \in [Symbols -> Nat], Holds(f, val), val[s] = val[t],
           NEW g, g = Union(f, s, t)
    PROVE  Holds(g, val) /\ g.conflict = f.conflict
<1> DEFINE a == f.parent[s]
           b == f.parent[t]
           rep == Earlier(a, b)
           gone == IF rep = a THEN b ELSE a
<1>1. /\ a \in Declared(f) /\ b \in Declared(f) /\ Declared(f) \subseteq Symbols
      /\ val[s] = val[a] /\ val[t] = val[b]
  BY DEF Table, FlatForest, Declared, Holds
<1>2. CASE a = b
  BY <1>2 DEF Union, Root
<1>3. CASE a # b
  <2>1. /\ rep \in Declared(f) /\ gone \in Declared(f) /\ val[rep] = val[gone]
        /\ rep # gone
    BY <1>1, <1>3 DEF Earlier
  <2>2. g = [f EXCEPT !.parent = Redirected(f, gone, rep),
                      !.bound = [f.bound EXCEPT ![rep] = JoinedExtent(f, gone, rep),
                                                ![gone] = Unbound],
                      !.conflict = f.conflict \/ ExtentsDiffer(f, gone, rep)]
    BY <1>3 DEF Union, Root
  <2>3. g = [parent |-> Redirected(f, gone, rep),
             bound |-> [f.bound EXCEPT ![rep] = JoinedExtent(f, gone, rep), ![gone] = Unbound],
             accepted |-> f.accepted,
             conflict |-> f.conflict \/ ExtentsDiffer(f, gone, rep)]
    BY <2>2 DEF Table
  <2>4. /\ f.bound[rep] # Unbound => val[rep] = f.bound[rep]
        /\ f.bound[gone] # Unbound => val[gone] = f.bound[gone]
    BY <2>1 DEF Holds
  <2>5. Declared(g) = Declared(f)
    BY UnionTable
  <2> HIDE DEF a, b, rep, gone
  <2>6. ~ExtentsDiffer(f, gone, rep)
    BY <2>1, <2>4 DEF ExtentsDiffer
  <2>7. g.conflict = f.conflict
    BY <2>3, <2>6 DEF Table
  <2>8. ASSUME NEW u \in Declared(f)
        PROVE  val[u] = val[g.parent[u]] /\ (g.bound[u] # Unbound => val[u] = g.bound[u])
    <3>1. u \in Symbols /\ val[u] = val[f.parent[u]]
          /\ (f.bound[u] # Unbound => val[u] = f.bound[u])
      BY <2>8, <1>1 DEF Holds
    <3>2. g.parent[u] = IF f.parent[u] = gone THEN rep ELSE f.parent[u]
      BY <2>3, <3>1 DEF Redirected
    <3>3. val[u] = val[g.parent[u]]
      BY <3>1, <3>2, <2>1
    <3>4. g.bound[u] = IF u = gone THEN Unbound
                       ELSE IF u = rep THEN JoinedExtent(f, gone, rep) ELSE f.bound[u]
      BY <2>1, <2>3, <3>1 DEF Table
    <3>5. g.bound[u] # Unbound => val[u] = g.bound[u]
      BY <3>1, <3>4, <2>1, <2>4 DEF JoinedExtent
    <3>6. QED
      BY <3>3, <3>5
  <2>9. QED
    BY <2>5, <2>7, <2>8 DEF Holds
<1>4. QED
  BY <1>2, <1>3

\* Binding a class to an extent keeps the table well formed.
LEMMA BindTable ==
    ASSUME NEW f, Table(f), NEW s \in Declared(f), NEW v \in Nat,
           NEW g, g = BindStatic(f, s, v)
    PROVE  Table(g) /\ Declared(g) = Declared(f) /\ g.accepted = f.accepted
<1> DEFINE r == f.parent[s]
<1>1. r \in Declared(f) /\ r \in Symbols
  BY DEF Table, FlatForest, Declared
<1>2. CASE f.bound[r] = Unbound
  <2>1. g = [parent |-> f.parent, bound |-> [f.bound EXCEPT ![r] = v],
             accepted |-> f.accepted, conflict |-> f.conflict]
    BY <1>2 DEF BindStatic, Root, Table
  <2>2. Declared(g) = Declared(f)
    BY <2>1 DEF Declared
  <2>3. FlatForest(g)
    BY <2>1, <2>2 DEF Table, FlatForest
  <2>4. /\ g.bound \in [Symbols -> Nat \cup {Unbound}]
        /\ \A u \in Symbols \ Declared(g) : g.bound[u] = Unbound
    <3> HIDE DEF r
    <3>1. QED
      BY <2>1, <2>2, <1>1 DEF Table
  <2>5. QED
    BY <2>1, <2>2, <2>3, <2>4 DEF Table
<1>3. CASE f.bound[r] # Unbound
  <2>1. g = [parent |-> f.parent, bound |-> f.bound,
             accepted |-> f.accepted, conflict |-> f.conflict \/ f.bound[r] # v]
    BY <1>3 DEF BindStatic, Root, Table
  <2>2. Declared(g) = Declared(f)
    BY <2>1 DEF Declared
  <2>3. FlatForest(g)
    BY <2>1, <2>2 DEF Table, FlatForest
  <2>4. QED
    BY <2>1, <2>2, <2>3 DEF Table
<1>4. QED
  BY <1>2, <1>3

\* An assignment that gives the symbol the extent agrees with the bound class.
LEMMA BindHolds ==
    ASSUME NEW f, Table(f), NEW s \in Declared(f), NEW v \in Nat,
           NEW val \in [Symbols -> Nat], Holds(f, val), val[s] = v,
           NEW g, g = BindStatic(f, s, v)
    PROVE  Holds(g, val) /\ g.conflict = f.conflict
<1> DEFINE r == f.parent[s]
<1>1. /\ r \in Declared(f) /\ r \in Symbols /\ val[r] = v
      /\ f.bound[r] # Unbound => f.bound[r] = v
  BY DEF Table, FlatForest, Declared, Holds
<1>2. CASE f.bound[r] = Unbound
  <2>1. g = [parent |-> f.parent, bound |-> [f.bound EXCEPT ![r] = v],
             accepted |-> f.accepted, conflict |-> f.conflict]
    BY <1>2 DEF BindStatic, Root, Table
  <2> HIDE DEF r
  <2>2. ASSUME NEW u \in Declared(f)
        PROVE  val[u] = val[g.parent[u]] /\ (g.bound[u] # Unbound => val[u] = g.bound[u])
    <3>1. u \in Symbols /\ g.bound[u] = IF u = r THEN v ELSE f.bound[u]
      BY <2>1, <2>2 DEF Declared, Table
    <3>2. QED
      BY <2>1, <2>2, <3>1, <1>1 DEF Holds
  <2>3. Declared(g) = Declared(f)
    BY <2>1 DEF Declared
  <2>4. QED
    BY <2>1, <2>2, <2>3 DEF Holds
<1>3. CASE f.bound[r] # Unbound
  <2>1. g = [parent |-> f.parent, bound |-> f.bound,
             accepted |-> f.accepted, conflict |-> f.conflict \/ f.bound[r] # v]
    BY <1>3 DEF BindStatic, Root, Table
  <2>2. g = f
    BY <2>1, <1>1, <1>3 DEF Table
  <2>3. QED
    BY <2>2
<1>4. QED
  BY <1>2, <1>3

\* One dimension of an accepted equality.
LEMMA DimFactTable ==
    ASSUME NEW f, Table(f), NEW l, NEW r, DimOk(f, l), DimOk(f, r),
           NEW g, g = AddEqualityFact(f, l, r)
    PROVE  Table(g) /\ Declared(g) = Declared(f) /\ g.accepted = f.accepted
<1>1. ASSUME NEW d, DimOk(f, d)
      PROVE  /\ IsSymbol(d) => d.sym \in Declared(f)
             /\ IsStatic(d) => d.add \in Nat
  BY <1>1 DEF DimOk, IsSymbol, IsStatic
<1>2. CASE IsSymbol(l) /\ IsSymbol(r)
  <2>1. g = Union(f, l.sym, r.sym)
    BY <1>2 DEF AddEqualityFact
  <2>2. l.sym \in Declared(f) /\ r.sym \in Declared(f)
    BY <1>1, <1>2
  <2>3. QED
    BY <2>1, <2>2, UnionTable
<1>3. CASE IsSymbol(l) /\ IsStatic(r)
  <2>1. g = BindStatic(f, l.sym, r.add)
    BY <1>3 DEF AddEqualityFact, IsSymbol, IsStatic
  <2>2. l.sym \in Declared(f) /\ r.add \in Nat
    BY <1>1, <1>3
  <2>3. QED
    BY <2>1, <2>2, BindTable
<1>4. CASE IsStatic(l) /\ IsSymbol(r)
  <2>1. g = BindStatic(f, r.sym, l.add)
    BY <1>4 DEF AddEqualityFact, IsSymbol, IsStatic
  <2>2. r.sym \in Declared(f) /\ l.add \in Nat
    BY <1>1, <1>4
  <2>3. QED
    BY <2>1, <2>2, BindTable
<1>5. CASE /\ ~(IsSymbol(l) /\ IsSymbol(r)) /\ ~(IsSymbol(l) /\ IsStatic(r))
           /\ ~(IsStatic(l) /\ IsSymbol(r))
  BY <1>5 DEF AddEqualityFact
<1>6. QED
  BY <1>2, <1>3, <1>4, <1>5

\* An assignment that makes the two dimensions equal agrees with the new classes.
LEMMA DimFactHolds ==
    ASSUME NEW f, Table(f), NEW l, NEW r, DimOk(f, l), DimOk(f, r),
           NEW val \in [Symbols -> Nat], Holds(f, val), Extent(l, val) = Extent(r, val),
           NEW g, g = AddEqualityFact(f, l, r)
    PROVE  Holds(g, val) /\ g.conflict = f.conflict
<1>1. ASSUME NEW d, DimOk(f, d)
      PROVE  /\ IsSymbol(d) => d.sym \in Declared(f) /\ Extent(d, val) = val[d.sym]
             /\ IsStatic(d) => d.add \in Nat /\ Extent(d, val) = d.add
  <2>1. CASE IsStatic(d)
    BY <1>1, <2>1 DEF DimOk, IsStatic, IsSymbol, Extent
  <2>2. CASE IsSymbol(d)
    <3>1. /\ d.sym \in Declared(f) /\ d.coef = 1 /\ d.add = 0 /\ ~IsStatic(d)
      BY <1>1, <2>2 DEF DimOk, IsStatic, IsSymbol
    <3>2. val[d.sym] \in Nat
      BY <3>1 DEF Declared
    <3>3. Extent(d, val) = 1 * val[d.sym] + 0
      BY <3>1 DEF Extent
    <3>4. QED
      BY <3>1, <3>2, <3>3
  <2>3. QED
    BY <2>1, <2>2
<1>2. CASE IsSymbol(l) /\ IsSymbol(r)
  <2>1. g = Union(f, l.sym, r.sym)
    BY <1>2 DEF AddEqualityFact
  <2>2. l.sym \in Declared(f) /\ r.sym \in Declared(f) /\ val[l.sym] = val[r.sym]
    BY <1>1, <1>2
  <2>3. QED
    BY <2>1, <2>2, UnionHolds
<1>3. CASE IsSymbol(l) /\ IsStatic(r)
  <2>1. g = BindStatic(f, l.sym, r.add)
    BY <1>3 DEF AddEqualityFact, IsSymbol, IsStatic
  <2>2. l.sym \in Declared(f) /\ r.add \in Nat /\ val[l.sym] = r.add
    BY <1>1, <1>3
  <2>3. QED
    BY <2>1, <2>2, BindHolds
<1>4. CASE IsStatic(l) /\ IsSymbol(r)
  <2>1. g = BindStatic(f, r.sym, l.add)
    BY <1>4 DEF AddEqualityFact, IsSymbol, IsStatic
  <2>2. r.sym \in Declared(f) /\ l.add \in Nat /\ val[r.sym] = l.add
    BY <1>1, <1>4
  <2>3. QED
    BY <2>1, <2>2, BindHolds
<1>5. CASE /\ ~(IsSymbol(l) /\ IsSymbol(r)) /\ ~(IsSymbol(l) /\ IsStatic(r))
           /\ ~(IsStatic(l) /\ IsSymbol(r))
  BY <1>5 DEF AddEqualityFact
<1>6. QED
  BY <1>2, <1>3, <1>4, <1>5

\* What is declared does not change which dimensions a table may be asked about.
LEMMA DimOkDeclared ==
    ASSUME NEW f, NEW g, Declared(f) = Declared(g), NEW d, DimOk(f, d)
    PROVE  DimOk(g, d)
BY DEF DimOk

\* The classes an equality of two shapes leaves behind.
LEMMA StagedTable ==
    ASSUME NEW f, Table(f), NEW c, c \in Requests, ShapeOk(f, c.left), ShapeOk(f, c.right),
           Len(c.left) = Len(c.right), NEW g, g = Staged(f, c)
    PROVE  /\ Table(g) /\ Declared(g) = Declared(f) /\ g.accepted = f.accepted \cup {c}
           /\ \A val \in [Symbols -> Nat] :
                 Holds(f, val) /\ Equal(c.left, c.right, val)
                     => Holds(g, val) /\ g.conflict = f.conflict
<1> DEFINE l == c.left
           r == c.right
           first == AddDimFact(f, l, r, 1)
           last == AddDimFact(first, l, r, 2)
<1>1. /\ DOMAIN l = 1 .. Len(l) /\ DOMAIN r = 1 .. Len(r) /\ Len(l) \in 0 .. 2
      /\ \A i \in DOMAIN l : DimOk(f, l[i]) /\ DimOk(f, r[i])
  BY ShapeDims
<1>2. g = [last EXCEPT !.accepted = @ \cup {c}]
  BY DEF Staged, AddShapeFact, Accept
<1>3. Table(first) /\ Declared(first) = Declared(f) /\ first.accepted = f.accepted
  <2>1. CASE 1 \in DOMAIN l
    <3>1. DimOk(f, l[1]) /\ DimOk(f, r[1])
      BY <1>1, <2>1
    <3>2. first = AddEqualityFact(f, l[1], r[1])
      BY <2>1 DEF AddDimFact
    <3> HIDE DEF first
    <3>3. QED
      BY <3>1, <3>2, DimFactTable
  <2>2. CASE 1 \notin DOMAIN l
    BY <2>2 DEF AddDimFact
  <2>3. QED
    BY <2>1, <2>2
<1>4. Table(last) /\ Declared(last) = Declared(f) /\ last.accepted = f.accepted
  <2>1. CASE 2 \in DOMAIN l
    <3>1. DimOk(f, l[2]) /\ DimOk(f, r[2])
      BY <1>1, <2>1
    <3> HIDE DEF first
    <3>2. DimOk(first, l[2]) /\ DimOk(first, r[2])
      BY <3>1, <1>3, DimOkDeclared
    <3>3. last = AddEqualityFact(first, l[2], r[2])
      BY <2>1 DEF AddDimFact
    <3> HIDE DEF last
    <3>4. QED
      BY <3>2, <3>3, <1>3, DimFactTable
  <2>2. CASE 2 \notin DOMAIN l
    BY <1>3, <2>2 DEF AddDimFact
  <2>3. QED
    BY <2>1, <2>2
<1>5. ASSUME NEW val \in [Symbols -> Nat], Holds(f, val), Equal(c.left, c.right, val)
      PROVE  Holds(last, val) /\ last.conflict = f.conflict
  <2>1. \A i \in DOMAIN l : Extent(l[i], val) = Extent(r[i], val)
    BY <1>5 DEF Equal
  <2>2. Holds(first, val) /\ first.conflict = f.conflict
    <3>1. CASE 1 \in DOMAIN l
      <4>1. DimOk(f, l[1]) /\ DimOk(f, r[1]) /\ Extent(l[1], val) = Extent(r[1], val)
        BY <1>1, <2>1, <3>1
      <4>2. first = AddEqualityFact(f, l[1], r[1])
        BY <3>1 DEF AddDimFact
      <4> HIDE DEF first
      <4>3. QED
        BY <4>1, <4>2, <1>5, DimFactHolds
    <3>2. CASE 1 \notin DOMAIN l
      BY <3>2, <1>5 DEF AddDimFact
    <3>3. QED
      BY <3>1, <3>2
  <2>3. CASE 2 \in DOMAIN l
    <3>1. DimOk(f, l[2]) /\ DimOk(f, r[2]) /\ Extent(l[2], val) = Extent(r[2], val)
      BY <1>1, <2>1, <2>3
    <3> HIDE DEF first
    <3>2. DimOk(first, l[2]) /\ DimOk(first, r[2])
      BY <3>1, <1>3, DimOkDeclared
    <3>3. last = AddEqualityFact(first, l[2], r[2])
      BY <2>3 DEF AddDimFact
    <3> HIDE DEF last
    <3>4. QED
      BY <3>1, <3>2, <3>3, <2>2, <1>3, DimFactHolds
  <2>4. CASE 2 \notin DOMAIN l
    BY <2>2, <2>4 DEF AddDimFact
  <2>5. QED
    BY <2>3, <2>4
<1> HIDE DEF last, first, l, r
<1>6. g = [parent |-> last.parent, bound |-> last.bound,
           accepted |-> f.accepted \cup {c}, conflict |-> last.conflict]
  BY <1>2, <1>4 DEF Table
<1>7. /\ g.parent = last.parent /\ g.bound = last.bound /\ g.conflict = last.conflict
      /\ g.accepted = f.accepted \cup {c}
      /\ g = [parent |-> g.parent, bound |-> g.bound, accepted |-> g.accepted, conflict |-> g.conflict]
  BY <1>6
<1>8. Declared(g) = Declared(f) /\ Declared(last) = Declared(g)
  BY <1>4, <1>7 DEF Declared
<1>9. Table(g)
  <2>1. FlatForest(g)
    BY <1>4, <1>7, <1>8 DEF Table, FlatForest
  <2>2. \A s \in Symbols \ Declared(g) : g.bound[s] = Unbound
    BY <1>4, <1>7, <1>8 DEF Table
  <2>3. QED
    BY <1>4, <1>7, <2>1, <2>2 DEF Table
<1>10. ASSUME NEW val \in [Symbols -> Nat], Holds(f, val), Equal(c.left, c.right, val)
       PROVE  Holds(g, val) /\ g.conflict = f.conflict
  <2>1. Holds(last, val) /\ last.conflict = f.conflict
    BY <1>5, <1>10
  <2>2. Holds(g, val)
    BY <2>1, <1>7, <1>8 DEF Holds
  <2>3. QED
    BY <2>1, <2>2, <1>7
<1>11. QED
  BY <1>7, <1>8, <1>9, <1>10

\* A symbol declared anew is a class of its own, and no accepted equality names it.
LEMMA DeclareTable ==
    ASSUME NEW f, Table(f), NEW s \in Symbols \ Declared(f), NEW g, g = DeclareSymbol(f, s)
    PROVE  /\ Table(g) /\ Declared(g) = Declared(f) \cup {s}
           /\ g.accepted = f.accepted /\ g.conflict = f.conflict
           /\ \A val \in [Symbols -> Nat] : Holds(f, val) => Holds(g, val)
<1>1. /\ g = [parent |-> [f.parent EXCEPT ![s] = s], bound |-> f.bound,
              accepted |-> f.accepted, conflict |-> f.conflict]
      /\ s \in Nat /\ s # NoSymbol
  BY SymbolsAssumption DEF DeclareSymbol, Table, NoSymbol
<1>2. /\ g.parent = [f.parent EXCEPT ![s] = s] /\ g.bound = f.bound
      /\ g.accepted = f.accepted /\ g.conflict = f.conflict
      /\ g = [parent |-> g.parent, bound |-> g.bound, accepted |-> g.accepted, conflict |-> g.conflict]
  BY <1>1
<1>3. g.parent \in [Symbols -> Symbols \cup {NoSymbol}]
  BY <1>2 DEF Table
<1>4. Declared(g) = Declared(f) \cup {s} /\ f.parent[s] = NoSymbol /\ f.bound[s] = Unbound
  BY <1>1, <1>2 DEF Declared, Table
<1>5. \A u \in Declared(f) : /\ u \in Symbols /\ f.parent[u] \in Declared(f) /\ u # s
                             /\ f.parent[u] # s
                             /\ f.parent[f.parent[u]] = f.parent[u] /\ f.parent[u] <= u
  BY DEF Table, FlatForest, Declared
<1>6. /\ g.parent[s] = s
      /\ \A u \in Declared(f) : g.parent[u] = f.parent[u]
  BY <1>2, <1>5 DEF Table
<1>7. FlatForest(g)
  <2> SUFFICES ASSUME NEW u \in Declared(g)
               PROVE  /\ g.parent[u] \in Declared(g)
                      /\ g.parent[g.parent[u]] = g.parent[u]
                      /\ g.parent[u] <= u
    BY DEF FlatForest
  <2>1. CASE u = s
    BY <1>1, <1>4, <1>6, <2>1
  <2>2. CASE u \in Declared(f)
    BY <1>4, <1>5, <1>6, <2>2
  <2>3. QED
    BY <1>4, <2>1, <2>2
<1>8. Table(g)
  BY <1>2, <1>3, <1>4, <1>7 DEF Table
<1>9. ASSUME NEW val \in [Symbols -> Nat], Holds(f, val) PROVE Holds(g, val)
  BY <1>2, <1>4, <1>6, <1>9 DEF Holds
<1>10. QED
  BY <1>2, <1>4, <1>8, <1>9

---------------------------------------------------------------------------
\* The shapes of a request whose symbols are declared.
LEMMA RequestShapes ==
    ASSUME NEW f, NEW c \in Requests, SymbolsOf(c.left) \cup SymbolsOf(c.right) \subseteq Declared(f)
    PROVE  ShapeOk(f, c.left) /\ ShapeOk(f, c.right)
BY RequestsAssumption, QueriesAssumption DEF ShapeOk

\* What a request that is accepted makes of the table.
LEMMA InsertStep ==
    ASSUME IInv, NEW c \in Requests, InsertOk(facts, c), NEW g, g = Inserted(facts, c)
    PROVE  /\ Table(g) /\ g.conflict = FALSE /\ Declared(g) = Declared(facts)
           /\ g.accepted = facts.accepted \cup {c}
           /\ \A val \in [Symbols -> Nat] :
                  Holds(facts, val) /\ Equal(c.left, c.right, val) => Holds(g, val)
<1>1. CASE c \in facts.accepted
  BY <1>1 DEF IInv, Inserted, Extended
<1>2. CASE c \notin facts.accepted
  <2>1. g = Staged(facts, c) /\ ~g.conflict /\ ~Contradicts(facts, c.left, c.right)
    BY <1>2 DEF Inserted, Extended, InsertOk, Consistent
  <2>2. ShapeOk(facts, c.left) /\ ShapeOk(facts, c.right) /\ Table(facts)
    BY RequestShapes DEF InsertOk, IInv
  <2>3. Len(c.left) = Len(c.right)
    BY <2>1 DEF Contradicts
  <2>4. /\ Table(g) /\ Declared(g) = Declared(facts) /\ g.accepted = facts.accepted \cup {c}
        /\ \A val \in [Symbols -> Nat] :
              Holds(facts, val) /\ Equal(c.left, c.right, val) => Holds(g, val)
    BY <2>1, <2>2, <2>3, StagedTable
  <2>5. g.conflict = FALSE
    BY <2>1, <2>4 DEF Table
  <2>6. QED
    BY <2>4, <2>5
<1>3. QED
  BY <1>1, <1>2

\* IInv holds of the empty table and every step keeps it.
LEMMA InitInv == Init => IInv
<1> SUFFICES ASSUME Init PROVE IInv
  OBVIOUS
<1>1. /\ facts.parent = [s \in Symbols |-> NoSymbol] /\ facts.bound = [s \in Symbols |-> Unbound]
      /\ facts.accepted = {} /\ facts.conflict = FALSE
      /\ facts = [parent |-> facts.parent, bound |-> facts.bound,
                  accepted |-> facts.accepted, conflict |-> facts.conflict]
  BY DEF Init, NoFacts
<1>2. Declared(facts) = {}
  BY <1>1 DEF Declared
<1>3. FlatForest(facts) /\ \A val \in [Symbols -> Nat] : Holds(facts, val)
  BY <1>2 DEF FlatForest, Holds
<1>4. Table(facts)
  BY <1>1, <1>3 DEF Table
<1>5. QED
  BY <1>1, <1>3, <1>4 DEF IInv

\* Every step keeps the invariant: the table's own facts are those its equalities imply.
LEMMA StepInv == IInv /\ [Next]_facts => IInv'
<1> SUFFICES ASSUME IInv, [Next]_facts PROVE IInv'
  OBVIOUS
<1>1. ASSUME NEW s \in Symbols, Declare(s) PROVE IInv'
  <2>1. /\ Table(facts') /\ Declared(facts') = Declared(facts) \cup {s}
        /\ facts'.accepted = facts.accepted /\ facts'.conflict = facts.conflict
        /\ \A val \in [Symbols -> Nat] : Holds(facts, val) => Holds(facts', val)
    BY <1>1, DeclareTable DEF Declare, IInv
  <2>2. QED
    BY <2>1 DEF IInv
<1>2. ASSUME NEW c \in Requests, Insert(c) PROVE IInv'
  <2>1. /\ Table(facts') /\ facts'.conflict = FALSE /\ Declared(facts') = Declared(facts)
        /\ facts'.accepted = facts.accepted \cup {c}
        /\ \A val \in [Symbols -> Nat] :
              Holds(facts, val) /\ Equal(c.left, c.right, val) => Holds(facts', val)
    BY <1>2, InsertStep DEF Insert
  <2>2. facts'.accepted \subseteq Requests
    BY <2>1 DEF IInv
  <2>3. \A d \in facts'.accepted :
            SymbolsOf(d.left) \cup SymbolsOf(d.right) \subseteq Declared(facts')
    BY <1>2, <2>1 DEF IInv, Insert, InsertOk
  <2>4. ASSUME NEW val \in [Symbols -> Nat], Satisfies(val, facts'.accepted) PROVE Holds(facts', val)
    <3>1. Satisfies(val, facts.accepted) /\ Equal(c.left, c.right, val)
      BY <2>1, <2>4 DEF Satisfies
    <3>2. QED
      BY <3>1, <2>1 DEF IInv
  <2>5. QED
    BY <2>1, <2>2, <2>3, <2>4 DEF IInv
<1>3. CASE UNCHANGED facts
  BY <1>3 DEF IInv, Table, Holds, FlatForest, Declared, Satisfies
<1>4. QED
  BY <1>1, <1>2, <1>3 DEF Next

\* The inductive invariant holds of every reachable table.
THEOREM TableInductive == Spec => []IInv
BY InitInv, StepInv, PTL DEF Spec

---------------------------------------------------------------------------
\* Every table reached is well formed: its classes are a flat forest under their smallest
\* symbol, and no conflicting table replaced an earlier one.
THEOREM TableTypeCorrect == Spec => []TypeOK
<1>1. IInv => TypeOK
  BY DEF IInv, TypeOK, Table
<1>2. QED
  BY <1>1, TableInductive, PTL

\* Soundness before completeness: whatever the symbols, the affine dimensions and the
\* extents, "proved" is true and "contradiction" is false under the accepted equalities.
THEOREM QueriesSound == Spec => []QuerySound
<1>1. IInv => QuerySound
  <2> SUFFICES ASSUME IInv, NEW val \in Models, NEW l \in Known, NEW r \in Known
               PROVE  /\ Query(facts, l, r) = "proved" => Equal(l, r, val)
                      /\ Query(facts, l, r) = "contradiction" => ~Equal(l, r, val)
    BY DEF QuerySound
  <2>1. val \in [Symbols -> Nat] /\ Satisfies(val, facts.accepted)
    BY ValuationsAssumption DEF Models
  <2>2. Table(facts) /\ Holds(facts, val)
    BY <2>1 DEF IInv
  <2>3. ShapeOk(facts, l) /\ ShapeOk(facts, r)
    BY QueriesAssumption DEF Known, ShapeOk
  <2>4. QED
    BY <2>1, <2>2, <2>3, AnswersAgree
<1>2. QED
  BY <1>1, TableInductive, PTL

\* An equality some admitted assignment satisfies is never refused.
THEOREM RefusalsSound == Spec => []RefusalSound
<1>1. IInv => RefusalSound
  <2> SUFFICES ASSUME IInv, NEW c \in Askable, NEW val \in Models, Equal(c.left, c.right, val)
               PROVE  InsertOk(facts, c)
    BY DEF RefusalSound
  <2>1. /\ val \in [Symbols -> Nat] /\ Satisfies(val, facts.accepted) /\ c \in Requests
        /\ SymbolsOf(c.left) \cup SymbolsOf(c.right) \subseteq Declared(facts)
    BY ValuationsAssumption DEF Models, Askable, Known
  <2>2. Table(facts) /\ Holds(facts, val) /\ facts.conflict = FALSE
    BY <2>1 DEF IInv
  <2>3. ShapeOk(facts, c.left) /\ ShapeOk(facts, c.right)
    BY <2>1, RequestShapes
  <2>4. ~Contradicts(facts, c.left, c.right)
    BY <2>1, <2>2, <2>3, ContradictionFails
  <2> DEFINE g == Staged(facts, c)
  <2>5. /\ Table(g) /\ Declared(g) = Declared(facts) /\ g.accepted = facts.accepted \cup {c}
        /\ Holds(g, val) /\ g.conflict = FALSE
    <3>1. Len(c.left) = Len(c.right)
      BY <2>4 DEF Contradicts
    <3>2. QED
      BY <2>1, <2>2, <2>3, <3>1, StagedTable
  <2> HIDE DEF g
  <2>6. ASSUME NEW d \in g.accepted PROVE ~Contradicts(g, d.left, d.right)
    <3>1. d \in Requests /\ SymbolsOf(d.left) \cup SymbolsOf(d.right) \subseteq Declared(g)
      BY <2>1, <2>5, <2>6 DEF IInv
    <3>2. ShapeOk(g, d.left) /\ ShapeOk(g, d.right)
      BY <3>1, RequestShapes
    <3>3. Equal(d.left, d.right, val)
      BY <2>1, <2>5, <2>6 DEF Satisfies
    <3>4. QED
      BY <2>1, <2>5, <3>2, <3>3, ContradictionFails
  <2>7. VerifyAllEqualities(g) /\ ~g.conflict
    BY <2>5, <2>6 DEF VerifyAllEqualities
  <2>8. QED
    BY <2>1, <2>4, <2>7 DEF InsertOk, Consistent, g
<1>2. QED
  BY <1>1, TableInductive, PTL

---------------------------------------------------------------------------
\* Order independence.  A consistent table that already knows what another table and an
\* equality say stays above the table the equality leaves behind (Below); a table that
\* knows what an equality says is left above it (Learnt).  Two tables below one another
\* are the same table, since a class is named by its smallest symbol.

\* Only representatives carry an extent.
Tidy(f) == \A s \in Symbols : f.parent[s] # s => f.bound[s] = Unbound

\* h knows every class and every extent f knows.
Below(f, h) ==
    /\ Declared(h) = Declared(f)
    /\ \A s \in Declared(f) :
          /\ h.parent[f.parent[s]] = h.parent[s]
          /\ f.bound[s] # Unbound => h.bound[h.parent[s]] = f.bound[s]

\* h knows what the equality of two dimensions adds to the classes.
Learnt(h, l, r) ==
    /\ IsSymbol(l) /\ IsSymbol(r) => h.parent[l.sym] = h.parent[r.sym]
    /\ IsSymbol(l) /\ IsStatic(r) => h.bound[h.parent[l.sym]] = r.add
    /\ IsStatic(l) /\ IsSymbol(r) => h.bound[h.parent[r.sym]] = l.add

LearntShape(h, l, r) == \A i \in DOMAIN l : Learnt(h, l[i], r[i])

\* What an equality that raises no conflict leaves behind.
Above(f, g) == Below(f, g) /\ Tidy(g) /\ ~f.conflict

\* A declared symbol has a declared representative, which represents itself.
LEMMA Representative ==
    ASSUME NEW f, Table(f), NEW s \in Declared(f)
    PROVE  /\ s \in Symbols /\ s # NoSymbol
           /\ f.parent[s] \in Declared(f) /\ f.parent[s] \in Symbols /\ f.parent[s] # NoSymbol
           /\ f.parent[f.parent[s]] = f.parent[s]
BY SymbolsAssumption DEF Table, FlatForest, Declared, NoSymbol

\* A tidy table knows all it knows.
LEMMA BelowItself ==
    ASSUME NEW f, Table(f), Tidy(f)
    PROVE  Below(f, f)
BY Representative DEF Below, Tidy

\* Knowing all another table knows is transitive.
LEMMA BelowTransitive ==
    ASSUME NEW f, NEW g, NEW h, Table(f), Table(g), Table(h), Below(f, g), Below(g, h)
    PROVE  Below(f, h)
<1>1. Declared(g) = Declared(f) /\ Declared(h) = Declared(f)
  BY DEF Below
<1>2. ASSUME NEW s \in Declared(f)
      PROVE  /\ h.parent[f.parent[s]] = h.parent[s]
             /\ f.bound[s] # Unbound => h.bound[h.parent[s]] = f.bound[s]
  <2>1. f.parent[s] \in Declared(f) /\ g.parent[s] \in Declared(f)
    BY <1>1, Representative
  <2>2. /\ g.parent[f.parent[s]] = g.parent[s]
        /\ f.bound[s] # Unbound => g.bound[g.parent[s]] = f.bound[s]
    BY DEF Below
  <2>3. /\ h.parent[g.parent[s]] = h.parent[s]
        /\ h.parent[g.parent[f.parent[s]]] = h.parent[f.parent[s]]
        /\ g.bound[g.parent[s]] # Unbound => h.bound[h.parent[g.parent[s]]] = g.bound[g.parent[s]]
    BY <1>1, <2>1 DEF Below
  <2>4. QED
    BY <2>2, <2>3
<1>3. QED
  BY <1>1, <1>2 DEF Below

\* Two tables that know the same classes, extents and equalities are the same.
LEMMA SameTable ==
    ASSUME NEW f, NEW h, Table(f), Table(h), Tidy(f), Tidy(h), Below(f, h), Below(h, f),
           f.accepted = h.accepted, f.conflict = h.conflict
    PROVE  f = h
<1>1. Declared(h) = Declared(f)
  BY DEF Below
<1>2. ASSUME NEW s \in Symbols PROVE f.parent[s] = h.parent[s]
  <2>1. CASE s \in Declared(f)
    <3> DEFINE p == f.parent[s]
               q == h.parent[s]
    <3>1. p \in Declared(f) /\ q \in Declared(f)
      BY <1>1, <2>1, Representative
    <3>2. h.parent[p] = q /\ f.parent[q] = p
      BY <1>1, <2>1 DEF Below
    <3>3. h.parent[p] <= p /\ f.parent[q] <= q
      BY <1>1, <3>1 DEF Table, FlatForest
    <3>4. p \in Nat /\ q \in Nat
      BY <3>1, SymbolsAssumption DEF Declared
    <3> HIDE DEF p, q
    <3>5. p = q
      BY <3>2, <3>3, <3>4
    <3>6. QED
      BY <3>5 DEF p, q
  <2>2. CASE s \notin Declared(f)
    BY <1>1, <2>2 DEF Declared
  <2>3. QED
    BY <2>1, <2>2
<1>3. ASSUME NEW s \in Symbols PROVE f.bound[s] = h.bound[s]
  <2>1. CASE s \in Declared(f) /\ f.parent[s] = s
    <3>1. h.parent[s] = s
      BY <1>2, <2>1
    <3>2. /\ f.bound[s] # Unbound => h.bound[s] = f.bound[s]
          /\ h.bound[s] # Unbound => f.bound[s] = h.bound[s]
      BY <1>1, <2>1, <3>1 DEF Below
    <3>3. QED
      BY <3>2
  <2>2. CASE f.parent[s] # s
    BY <1>2, <2>2 DEF Tidy
  <2>3. CASE s \notin Declared(f)
    BY <1>1, <2>3 DEF Table
  <2>4. QED
    BY <2>1, <2>2, <2>3
<1>4. f.parent = h.parent
  BY <1>2 DEF Table
<1>5. f.bound = h.bound
  BY <1>3 DEF Table
<1>6. QED
  BY <1>4, <1>5 DEF Table

---------------------------------------------------------------------------
\* What a table contradicts, every table above it contradicts.
LEMMA NormalDims ==
    ASSUME NEW f, Table(f), NEW d, DimOk(f, d)
    PROVE  NormalizeDim(f, d) \in Dims
<1>1. CASE IsStatic(d)
  BY <1>1 DEF NormalizeDim, DimOk
<1>2. CASE ~IsStatic(d)
  <2> DEFINE r == f.parent[d.sym]
  <2>1. /\ d.coef \in Int /\ d.add \in Int /\ r \in Symbols /\ d.sym \in Symbols
        /\ d = [coef |-> d.coef, sym |-> d.sym, add |-> d.add]
    BY <1>2, Representative DEF DimOk, Dims
  <2>2. f.bound[r] \in Nat \cup {Unbound}
    BY <2>1 DEF Table
  <2>3. CASE f.bound[r] # Unbound
    <3>1. d.coef * f.bound[r] \in Int
      BY <2>1, <2>2, <2>3
    <3>2. NormalizeDim(f, d) = [coef |-> 0, sym |-> NoSymbol, add |-> d.coef * f.bound[r] + d.add]
      BY <1>2, <2>3 DEF NormalizeDim, Root, Static
    <3>3. QED
      BY <2>1, <3>1, <3>2 DEF Dims
  <2>4. CASE f.bound[r] = Unbound
    <3>1. NormalizeDim(f, d) = [d EXCEPT !.sym = r]
      BY <1>2, <2>4 DEF NormalizeDim, Root
    <3> HIDE DEF r
    <3>2. NormalizeDim(f, d) = [coef |-> d.coef, sym |-> r, add |-> d.add]
      BY <2>1, <3>1
    <3>3. QED
      BY <2>1, <3>2 DEF Dims
  <2>5. QED
    BY <2>3, <2>4
<1>3. QED
  BY <1>1, <1>2

\* Normalizing again, above, gives the normal form above.
LEMMA NormalAgain ==
    ASSUME NEW f, NEW h, Table(f), Table(h), Below(f, h), NEW d, DimOk(f, d)
    PROVE  NormalizeDim(h, NormalizeDim(f, d)) = NormalizeDim(h, d)
<1>1. CASE IsStatic(d)
  BY <1>1 DEF NormalizeDim
<1>2. CASE ~IsStatic(d)
  <2> DEFINE r == f.parent[d.sym]
             q == h.parent[d.sym]
  <2>1. /\ d = [coef |-> d.coef, sym |-> d.sym, add |-> d.add]
        /\ d.sym \in Declared(f) /\ r \in Declared(f) /\ f.parent[r] = r /\ r # NoSymbol
    BY <1>2, Representative DEF DimOk, Dims
  <2>2. h.parent[r] = q /\ (f.bound[r] # Unbound => h.bound[q] = f.bound[r])
    BY <2>1 DEF Below
  <2>3. NormalizeDim(h, d) = IF h.bound[q] # Unbound THEN Static(d.coef * h.bound[q] + d.add)
                             ELSE [d EXCEPT !.sym = q]
    BY <1>2 DEF NormalizeDim, Root
  <2>4. NormalizeDim(f, d) = IF f.bound[r] # Unbound THEN Static(d.coef * f.bound[r] + d.add)
                             ELSE [d EXCEPT !.sym = r]
    BY <1>2 DEF NormalizeDim, Root
  <2> HIDE DEF r, q
  <2>5. CASE f.bound[r] # Unbound
    <3>1. NormalizeDim(f, d) = Static(d.coef * f.bound[r] + d.add)
      BY <2>4, <2>5
    <3>2. NormalizeDim(h, d) = Static(d.coef * f.bound[r] + d.add)
      BY <2>2, <2>3, <2>5
    <3>3. ASSUME NEW v PROVE NormalizeDim(h, Static(v)) = Static(v)
      BY DEF NormalizeDim, Static, IsStatic
    <3>4. QED
      BY <3>1, <3>2, <3>3
  <2>6. CASE f.bound[r] = Unbound
    <3> DEFINE e == [coef |-> d.coef, sym |-> r, add |-> d.add]
    <3>1. NormalizeDim(f, d) = e
      BY <2>1, <2>4, <2>6
    <3>2. /\ e.coef = d.coef /\ e.sym = r /\ e.add = d.add /\ ~IsStatic(e)
          /\ [e EXCEPT !.sym = q] = [d EXCEPT !.sym = q]
      BY <2>1 DEF IsStatic
    <3> HIDE DEF e
    <3>3. NormalizeDim(h, e) = IF h.bound[q] # Unbound THEN Static(d.coef * h.bound[q] + d.add)
                               ELSE [e EXCEPT !.sym = q]
      BY <2>2, <3>2 DEF NormalizeDim, Root
    <3>4. QED
      BY <2>3, <3>1, <3>2, <3>3
  <2>7. QED
    BY <2>5, <2>6
<1>3. QED
  BY <1>1, <1>2

\* Normal forms that clash still clash when normalized above.
LEMMA ClashKept ==
    ASSUME NEW h, Table(h), NEW a \in Dims, NEW b \in Dims, Clash(a, b),
           ~IsStatic(a) => a.sym \in Declared(h)
    PROVE  Clash(NormalizeDim(h, a), NormalizeDim(h, b))
<1>1. /\ a = [coef |-> a.coef, sym |-> a.sym, add |-> a.add]
      /\ b = [coef |-> b.coef, sym |-> b.sym, add |-> b.add]
      /\ a.sym = b.sym /\ a.coef = b.coef /\ a.add # b.add
      /\ a.coef \in Int /\ a.add \in Int /\ b.add \in Int
  BY DEF Dims, Clash
<1>2. CASE IsStatic(a)
  BY <1>1, <1>2 DEF NormalizeDim, IsStatic, Clash
<1>3. CASE ~IsStatic(a)
  <2> DEFINE r == h.parent[a.sym]
             x == a.coef * h.bound[r]
  <2>1. r \in Symbols /\ h.bound[r] \in Nat \cup {Unbound}
    BY <1>3, Representative DEF Table
  <2>2. CASE h.bound[r] # Unbound
    <3>1. x \in Int
      BY <1>1, <2>1, <2>2
    <3>2. NormalizeDim(h, a) = Static(x + a.add) /\ NormalizeDim(h, b) = Static(x + b.add)
      BY <1>1, <1>3, <2>2 DEF NormalizeDim, Root, IsStatic
    <3>3. a.add \in Int /\ b.add \in Int /\ a.add # b.add
      BY <1>1
    <3> HIDE DEF x
    <3>4. x + a.add # x + b.add
      BY <3>1, <3>3
    <3>5. QED
      BY <3>2, <3>4 DEF Clash, Static
  <2>3. CASE h.bound[r] = Unbound
    <3>1. NormalizeDim(h, a) = [a EXCEPT !.sym = r] /\ NormalizeDim(h, b) = [b EXCEPT !.sym = r]
      BY <1>1, <1>3, <2>3 DEF NormalizeDim, Root, IsStatic
    <3> HIDE DEF r
    <3>2. a \in [coef : Int, sym : Symbols \cup {NoSymbol}, add : Int]
      BY DEF Dims
    <3>3. b \in [coef : Int, sym : Symbols \cup {NoSymbol}, add : Int]
      BY DEF Dims
    <3>4. /\ [a EXCEPT !.sym = r].sym = r /\ [a EXCEPT !.sym = r].coef = a.coef
          /\ [a EXCEPT !.sym = r].add = a.add
      BY <3>2
    <3>5. /\ [b EXCEPT !.sym = r].sym = r /\ [b EXCEPT !.sym = r].coef = b.coef
          /\ [b EXCEPT !.sym = r].add = b.add
      BY <3>3
    <3>6. QED
      BY <1>1, <3>1, <3>4, <3>5 DEF Clash
  <2>4. QED
    BY <2>2, <2>3
<1>4. QED
  BY <1>2, <1>3

\* A contradiction stays one when the table learns more.
LEMMA ContradictionKept ==
    ASSUME NEW f, NEW h, Table(f), Table(h), Below(f, h), NEW l, NEW r, ShapeOk(f, l), ShapeOk(f, r),
           Contradicts(f, l, r)
    PROVE  Contradicts(h, l, r)
<1>1. CASE Len(l) # Len(r)
  BY <1>1 DEF Contradicts
<1>2. CASE Len(l) = Len(r)
  <2>1. PICK i \in DOMAIN l : Clash(NormalizeDim(f, l[i]), NormalizeDim(f, r[i]))
    BY <1>2 DEF Contradicts
  <2> DEFINE a == NormalizeDim(f, l[i])
             b == NormalizeDim(f, r[i])
  <2>2. DimOk(f, l[i]) /\ DimOk(f, r[i])
    BY <1>2, <2>1, ShapeDims
  <2>3. a \in Dims /\ b \in Dims
    BY <2>2, NormalDims
  <2>4. ~IsStatic(a) => a.sym \in Declared(h)
    <3>1. CASE IsStatic(l[i])
      BY <3>1 DEF NormalizeDim
    <3>2. CASE ~IsStatic(l[i])
      <4>1. l[i].sym \in Declared(f) /\ f.parent[l[i].sym] \in Declared(f) /\ l[i] \in Dims
        BY <2>2, <3>2, Representative DEF DimOk
      <4>2. CASE f.bound[f.parent[l[i].sym]] # Unbound
        BY <3>2, <4>2 DEF NormalizeDim, Root, Static, IsStatic
      <4>3. CASE f.bound[f.parent[l[i].sym]] = Unbound
        <5>1. a = [l[i] EXCEPT !.sym = f.parent[l[i].sym]]
          BY <3>2, <4>3 DEF NormalizeDim, Root
        <5>2. a.sym = f.parent[l[i].sym]
          BY <4>1, <5>1 DEF Dims
        <5>3. QED
          BY <4>1, <5>2 DEF Below
      <4>4. QED
        BY <4>2, <4>3
    <3>3. QED
      BY <3>1, <3>2
  <2>5. NormalizeDim(h, a) = NormalizeDim(h, l[i]) /\ NormalizeDim(h, b) = NormalizeDim(h, r[i])
    BY <2>2, NormalAgain
  <2> HIDE DEF a, b
  <2>6. Clash(a, b)
    BY <2>1 DEF a, b
  <2>7. Clash(NormalizeDim(h, l[i]), NormalizeDim(h, r[i]))
    BY <2>3, <2>4, <2>5, <2>6, ClashKept
  <2>8. QED
    BY <2>1, <2>7 DEF Contradicts
<1>3. QED
  BY <1>1, <1>2

---------------------------------------------------------------------------
\* What a merge of two classes makes of the table, symbol by symbol.
Merged(f, g, rep, gone) ==
    /\ rep \in Declared(f) /\ gone \in Declared(f) /\ rep # gone
    /\ f.parent[rep] = rep /\ f.parent[gone] = gone
    /\ \A u \in Symbols :
          /\ g.parent[u] = IF f.parent[u] = gone THEN rep ELSE f.parent[u]
          /\ g.bound[u] = IF u = gone THEN Unbound
                          ELSE IF u = rep THEN JoinedExtent(f, gone, rep) ELSE f.bound[u]
    /\ g.conflict = (f.conflict \/ ExtentsDiffer(f, gone, rep))

MergesClassesOf(f, g, s, t) ==
    \E rep, gone \in Declared(f) :
        Merged(f, g, rep, gone) /\ {rep, gone} = {f.parent[s], f.parent[t]}

\* Union of two symbols of different classes merges the two classes.
LEMMA UnionMerges ==
    ASSUME NEW f, Table(f), NEW s \in Declared(f), NEW t \in Declared(f), f.parent[s] # f.parent[t],
           NEW g, g = Union(f, s, t)
    PROVE  MergesClassesOf(f, g, s, t)
<1> DEFINE a == f.parent[s]
           b == f.parent[t]
           rep == Earlier(a, b)
           gone == IF rep = a THEN b ELSE a
<1>1. a \in Declared(f) /\ b \in Declared(f) /\ f.parent[a] = a /\ f.parent[b] = b /\ a # b
  BY Representative
<1>2. {rep, gone} = {a, b} /\ rep # gone
  BY <1>1 DEF Earlier
<1>3. g = [f EXCEPT !.parent = Redirected(f, gone, rep),
                    !.bound = [f.bound EXCEPT ![rep] = JoinedExtent(f, gone, rep),
                                              ![gone] = Unbound],
                    !.conflict = f.conflict \/ ExtentsDiffer(f, gone, rep)]
  BY <1>1 DEF Union, Root
<1>4. g = [parent |-> Redirected(f, gone, rep),
           bound |-> [f.bound EXCEPT ![rep] = JoinedExtent(f, gone, rep), ![gone] = Unbound],
           accepted |-> f.accepted,
           conflict |-> f.conflict \/ ExtentsDiffer(f, gone, rep)]
  BY <1>3 DEF Table
<1> HIDE DEF rep, gone
<1>5. /\ rep \in Declared(f) /\ gone \in Declared(f) /\ rep \in Symbols /\ gone \in Symbols
      /\ f.parent[rep] = rep /\ f.parent[gone] = gone
  BY <1>1, <1>2 DEF Declared
<1>6. ASSUME NEW u \in Symbols
      PROVE  /\ g.parent[u] = IF f.parent[u] = gone THEN rep ELSE f.parent[u]
             /\ g.bound[u] = IF u = gone THEN Unbound
                             ELSE IF u = rep THEN JoinedExtent(f, gone, rep) ELSE f.bound[u]
  BY <1>2, <1>4, <1>5 DEF Redirected, Table
<1>7. g.conflict = (f.conflict \/ ExtentsDiffer(f, gone, rep))
  BY <1>4
<1>8. Merged(f, g, rep, gone)
  BY <1>2, <1>5, <1>6, <1>7 DEF Merged
<1>9. QED
  BY <1>2, <1>5, <1>8 DEF MergesClassesOf

\* A merge of two classes h holds equal stays below h, and meets no conflict.
LEMMA UnionBelow ==
    ASSUME NEW f, NEW h, Table(f), Table(h), Below(f, h), NEW s \in Declared(f), NEW t \in Declared(f),
           h.parent[s] = h.parent[t], NEW g, g = Union(f, s, t)
    PROVE  Below(g, h) /\ g.conflict = f.conflict
<1>1. CASE f.parent[s] = f.parent[t]
  BY <1>1 DEF Union, Root
<1>2. CASE f.parent[s] # f.parent[t]
  <2>1. MergesClassesOf(f, g, s, t)
    BY <1>2, UnionMerges
  <2>2. PICK rep, gone \in Declared(f) :
            Merged(f, g, rep, gone) /\ {rep, gone} = {f.parent[s], f.parent[t]}
    BY <2>1 DEF MergesClassesOf
  <2>3. h.parent[rep] = h.parent[gone]
    BY <2>2 DEF Below
  <2>4. /\ f.parent[rep] = rep /\ f.parent[gone] = gone /\ rep # gone
        /\ f.bound[rep] # Unbound => h.bound[h.parent[rep]] = f.bound[rep]
        /\ f.bound[gone] # Unbound => h.bound[h.parent[rep]] = f.bound[gone]
    BY <2>2, <2>3 DEF Below, Merged
  <2>5. g.conflict = f.conflict
    BY <2>2, <2>4 DEF Merged, ExtentsDiffer, Table
  <2>6. Declared(g) = Declared(f)
    BY UnionTable
  <2>7. ASSUME NEW u \in Declared(f)
        PROVE  /\ h.parent[g.parent[u]] = h.parent[u]
               /\ g.bound[u] # Unbound => h.bound[h.parent[u]] = g.bound[u]
    <3>1. /\ u \in Symbols /\ h.parent[f.parent[u]] = h.parent[u]
          /\ f.bound[u] # Unbound => h.bound[h.parent[u]] = f.bound[u]
      BY Representative DEF Below
    <3>2. /\ g.parent[u] = IF f.parent[u] = gone THEN rep ELSE f.parent[u]
          /\ g.bound[u] = IF u = gone THEN Unbound
                          ELSE IF u = rep THEN JoinedExtent(f, gone, rep) ELSE f.bound[u]
      BY <2>2, <3>1 DEF Merged
    <3>3. h.parent[g.parent[u]] = h.parent[u]
      BY <2>3, <3>1, <3>2
    <3>4. g.bound[u] # Unbound => h.bound[h.parent[u]] = g.bound[u]
      BY <2>4, <3>1, <3>2 DEF JoinedExtent
    <3>5. QED
      BY <3>3, <3>4
  <2>8. QED
    BY <2>5, <2>6, <2>7 DEF Below
<1>3. QED
  BY <1>1, <1>2

\* A merge without a conflict is above the table, and the two symbols are in one class.
LEMMA UnionAbove ==
    ASSUME NEW f, Table(f), Tidy(f), NEW s \in Declared(f), NEW t \in Declared(f),
           NEW g, g = Union(f, s, t), ~g.conflict
    PROVE  Above(f, g) /\ g.parent[s] = g.parent[t]
<1>1. CASE f.parent[s] = f.parent[t]
  BY <1>1, BelowItself DEF Union, Root, Above
<1>2. CASE f.parent[s] # f.parent[t]
  <2>1. MergesClassesOf(f, g, s, t)
    BY <1>2, UnionMerges
  <2>2. PICK rep, gone \in Declared(f) :
            Merged(f, g, rep, gone) /\ {rep, gone} = {f.parent[s], f.parent[t]}
    BY <2>1 DEF MergesClassesOf
  <2>3. /\ f.parent[rep] = rep /\ f.parent[gone] = gone /\ rep # gone
        /\ ~f.conflict /\ ~ExtentsDiffer(f, gone, rep)
        /\ rep \in Symbols /\ gone \in Symbols
    BY <2>2, Representative DEF Merged
  <2>4. Declared(g) = Declared(f)
    BY UnionTable
  <2>5. ASSUME NEW u \in Symbols
        PROVE  /\ g.parent[u] = IF f.parent[u] = gone THEN rep ELSE f.parent[u]
               /\ g.bound[u] = IF u = gone THEN Unbound
                               ELSE IF u = rep THEN JoinedExtent(f, gone, rep) ELSE f.bound[u]
    BY <2>2 DEF Merged
  <2>6. ASSUME NEW u \in Declared(f)
        PROVE  /\ g.parent[f.parent[u]] = g.parent[u]
               /\ f.bound[u] # Unbound => g.bound[g.parent[u]] = f.bound[u]
    <3>1. u \in Symbols /\ f.parent[u] \in Symbols /\ f.parent[f.parent[u]] = f.parent[u]
      BY Representative
    <3>2. g.parent[f.parent[u]] = g.parent[u]
      BY <2>5, <3>1
    <3>3. ASSUME f.bound[u] # Unbound PROVE g.bound[g.parent[u]] = f.bound[u]
      <4>1. f.parent[u] = u
        BY <3>1, <3>3 DEF Tidy
      <4>2. CASE u = gone
        <5>1. g.parent[u] = rep /\ g.bound[rep] = JoinedExtent(f, gone, rep)
          BY <2>3, <2>5, <4>1, <4>2
        <5>2. QED
          BY <2>3, <3>3, <4>2, <5>1 DEF JoinedExtent, ExtentsDiffer
      <4>3. CASE u # gone
        <5>1. g.parent[u] = u /\ g.bound[u] = IF u = rep THEN JoinedExtent(f, gone, rep) ELSE f.bound[u]
          BY <2>5, <3>1, <4>1, <4>3
        <5>2. QED
          BY <3>3, <5>1 DEF JoinedExtent
      <4>4. QED
        BY <4>2, <4>3
    <3>4. QED
      BY <3>2, <3>3
  <2>7. ASSUME NEW u \in Symbols, g.parent[u] # u PROVE g.bound[u] = Unbound
    <3>1. CASE u = gone
      BY <2>5, <3>1
    <3>2. CASE u # gone /\ u # rep
      <4>1. f.parent[u] # u
        BY <2>5, <2>7, <3>2
      <4>2. QED
        BY <2>5, <3>2, <4>1 DEF Tidy
    <3>3. CASE u = rep
      BY <2>3, <2>5, <2>7, <3>3
    <3>4. QED
      BY <3>1, <3>2, <3>3
  <2>8. g.parent[s] = g.parent[t]
    <3>1. g.parent[s] = rep /\ g.parent[t] = rep
      BY <2>2, <2>5, Representative
    <3>2. QED
      BY <3>1
  <2>9. Below(f, g) /\ Tidy(g)
    BY <2>4, <2>6, <2>7 DEF Below, Tidy
  <2>10. QED
    BY <2>3, <2>8, <2>9 DEF Above
<1>3. QED
  BY <1>1, <1>2

\* A class bound to the extent h knows of it stays below h, and meets no conflict.
LEMMA BindBelow ==
    ASSUME NEW f, NEW h, Table(f), Table(h), Below(f, h), NEW s \in Declared(f), NEW v \in Nat,
           h.bound[h.parent[s]] = v, NEW g, g = BindStatic(f, s, v)
    PROVE  Below(g, h) /\ g.conflict = f.conflict
<1> DEFINE r == f.parent[s]
<1>1. /\ r \in Declared(f) /\ r \in Symbols /\ h.parent[r] = h.parent[s] /\ f.parent[r] = r
      /\ f.bound[r] # Unbound => f.bound[r] = v
  BY Representative DEF Below
<1>2. CASE f.bound[r] = Unbound
  <2>1. g = [parent |-> f.parent, bound |-> [f.bound EXCEPT ![r] = v],
             accepted |-> f.accepted, conflict |-> f.conflict]
    BY <1>2 DEF BindStatic, Root, Table
  <2>2. Declared(g) = Declared(f)
    BY <2>1 DEF Declared
  <2> HIDE DEF r
  <2>3. ASSUME NEW u \in Declared(f)
        PROVE  /\ h.parent[g.parent[u]] = h.parent[u]
               /\ g.bound[u] # Unbound => h.bound[h.parent[u]] = g.bound[u]
    <3>1. /\ u \in Symbols /\ h.parent[f.parent[u]] = h.parent[u]
          /\ f.bound[u] # Unbound => h.bound[h.parent[u]] = f.bound[u]
      BY Representative DEF Below
    <3>2. g.parent[u] = f.parent[u] /\ g.bound[u] = IF u = r THEN v ELSE f.bound[u]
      BY <1>1, <2>1, <3>1 DEF Table
    <3>3. QED
      BY <1>1, <3>1, <3>2
  <2>4. QED
    BY <2>1, <2>2, <2>3 DEF Below
<1>3. CASE f.bound[r] # Unbound
  <2>1. g = [parent |-> f.parent, bound |-> f.bound,
             accepted |-> f.accepted, conflict |-> f.conflict \/ f.bound[r] # v]
    BY <1>3 DEF BindStatic, Root, Table
  <2>2. g = f
    BY <2>1, <1>1, <1>3 DEF Table
  <2>3. QED
    BY <2>2
<1>4. QED
  BY <1>2, <1>3

\* A binding without a conflict is above the table and knows the extent.
LEMMA BindAbove ==
    ASSUME NEW f, Table(f), Tidy(f), NEW s \in Declared(f), NEW v \in Nat,
           NEW g, g = BindStatic(f, s, v), ~g.conflict
    PROVE  Above(f, g) /\ g.bound[g.parent[s]] = v
<1> DEFINE r == f.parent[s]
<1>1. r \in Declared(f) /\ r \in Symbols /\ f.parent[r] = r
  BY Representative
<1>2. CASE f.bound[r] = Unbound
  <2>1. g = [parent |-> f.parent, bound |-> [f.bound EXCEPT ![r] = v],
             accepted |-> f.accepted, conflict |-> f.conflict]
    BY <1>2 DEF BindStatic, Root, Table
  <2>2. Declared(g) = Declared(f)
    BY <2>1 DEF Declared
  <2>3. g.bound[g.parent[s]] = v /\ ~f.conflict
    BY <1>1, <2>1 DEF Table
  <2> HIDE DEF r
  <2>4. ASSUME NEW u \in Symbols
        PROVE  g.parent[u] = f.parent[u] /\ g.bound[u] = IF u = r THEN v ELSE f.bound[u]
    BY <1>1, <2>1 DEF Table
  <2>5. Tidy(g)
    BY <1>1, <2>4 DEF Tidy
  <2>6. ASSUME NEW u \in Declared(f)
        PROVE  /\ g.parent[f.parent[u]] = g.parent[u]
               /\ f.bound[u] # Unbound => g.bound[g.parent[u]] = f.bound[u]
    <3>1. u \in Symbols /\ f.parent[u] \in Symbols /\ f.parent[f.parent[u]] = f.parent[u]
      BY Representative
    <3>2. f.bound[u] # Unbound => f.parent[u] = u
      BY <3>1 DEF Tidy
    <3>3. QED
      BY <1>2, <2>4, <3>1, <3>2 DEF r
  <2>7. QED
    BY <2>2, <2>3, <2>5, <2>6 DEF Above, Below
<1>3. CASE f.bound[r] # Unbound
  <2>1. g = [parent |-> f.parent, bound |-> f.bound,
             accepted |-> f.accepted, conflict |-> f.conflict \/ f.bound[r] # v]
    BY <1>3 DEF BindStatic, Root, Table
  <2>2. ~f.conflict /\ f.bound[r] = v
    <3>1. g.conflict = (f.conflict \/ f.bound[r] # v)
      BY <2>1
    <3>2. QED
      BY <3>1
  <2>3. g = f
    BY <2>1, <2>2 DEF Table
  <2>4. QED
    BY <2>2, <2>3, BelowItself DEF Above
<1>4. QED
  BY <1>2, <1>3

---------------------------------------------------------------------------
\* An equality of two dimensions h has learnt leaves the table below h, without a conflict.
LEMMA DimFactBelow ==
    ASSUME NEW f, NEW h, Table(f), Table(h), Below(f, h), NEW l, NEW r, DimOk(f, l), DimOk(f, r),
           Learnt(h, l, r), NEW g, g = AddEqualityFact(f, l, r)
    PROVE  Below(g, h) /\ g.conflict = f.conflict
<1>1. ASSUME NEW d, DimOk(f, d)
      PROVE  /\ IsSymbol(d) => d.sym \in Declared(f)
             /\ IsStatic(d) => d.add \in Nat
  BY <1>1 DEF DimOk, IsSymbol, IsStatic
<1>2. CASE IsSymbol(l) /\ IsSymbol(r)
  <2>1. g = Union(f, l.sym, r.sym)
    BY <1>2 DEF AddEqualityFact
  <2>2. l.sym \in Declared(f) /\ r.sym \in Declared(f) /\ h.parent[l.sym] = h.parent[r.sym]
    BY <1>1, <1>2 DEF Learnt
  <2>3. QED
    BY <2>1, <2>2, UnionBelow
<1>3. CASE IsSymbol(l) /\ IsStatic(r)
  <2>1. g = BindStatic(f, l.sym, r.add)
    BY <1>3 DEF AddEqualityFact, IsSymbol, IsStatic
  <2>2. l.sym \in Declared(f) /\ r.add \in Nat /\ h.bound[h.parent[l.sym]] = r.add
    BY <1>1, <1>3 DEF Learnt
  <2>3. QED
    BY <2>1, <2>2, BindBelow
<1>4. CASE IsStatic(l) /\ IsSymbol(r)
  <2>1. g = BindStatic(f, r.sym, l.add)
    BY <1>4 DEF AddEqualityFact, IsSymbol, IsStatic
  <2>2. r.sym \in Declared(f) /\ l.add \in Nat /\ h.bound[h.parent[r.sym]] = l.add
    BY <1>1, <1>4 DEF Learnt
  <2>3. QED
    BY <2>1, <2>2, BindBelow
<1>5. CASE /\ ~(IsSymbol(l) /\ IsSymbol(r)) /\ ~(IsSymbol(l) /\ IsStatic(r))
           /\ ~(IsStatic(l) /\ IsSymbol(r))
  BY <1>5 DEF AddEqualityFact
<1>6. QED
  BY <1>2, <1>3, <1>4, <1>5

\* An equality of two dimensions that meets no conflict is learnt.
LEMMA DimFactAbove ==
    ASSUME NEW f, Table(f), Tidy(f), NEW l, NEW r, DimOk(f, l), DimOk(f, r),
           NEW g, g = AddEqualityFact(f, l, r), ~g.conflict
    PROVE  Above(f, g) /\ Learnt(g, l, r)
<1>1. ASSUME NEW d, DimOk(f, d)
      PROVE  /\ IsSymbol(d) => d.sym \in Declared(f) /\ ~IsStatic(d)
             /\ IsStatic(d) => d.add \in Nat
  BY <1>1 DEF DimOk, IsSymbol, IsStatic
<1>2. CASE IsSymbol(l) /\ IsSymbol(r)
  <2>1. g = Union(f, l.sym, r.sym)
    BY <1>2 DEF AddEqualityFact
  <2>2. l.sym \in Declared(f) /\ r.sym \in Declared(f) /\ ~IsStatic(l) /\ ~IsStatic(r)
    BY <1>1, <1>2
  <2>3. Above(f, g) /\ g.parent[l.sym] = g.parent[r.sym]
    BY <2>1, <2>2, UnionAbove
  <2>4. QED
    BY <2>2, <2>3 DEF Learnt
<1>3. CASE IsSymbol(l) /\ IsStatic(r)
  <2>1. g = BindStatic(f, l.sym, r.add)
    BY <1>3 DEF AddEqualityFact, IsSymbol, IsStatic
  <2>2. l.sym \in Declared(f) /\ r.add \in Nat /\ ~IsStatic(l) /\ ~IsSymbol(r)
    BY <1>1, <1>3
  <2>3. Above(f, g) /\ g.bound[g.parent[l.sym]] = r.add
    BY <2>1, <2>2, BindAbove
  <2>4. QED
    BY <2>2, <2>3 DEF Learnt
<1>4. CASE IsStatic(l) /\ IsSymbol(r)
  <2>1. g = BindStatic(f, r.sym, l.add)
    BY <1>4 DEF AddEqualityFact, IsSymbol, IsStatic
  <2>2. r.sym \in Declared(f) /\ l.add \in Nat /\ ~IsStatic(r) /\ ~IsSymbol(l)
    BY <1>1, <1>4
  <2>3. Above(f, g) /\ g.bound[g.parent[r.sym]] = l.add
    BY <2>1, <2>2, BindAbove
  <2>4. QED
    BY <2>2, <2>3 DEF Learnt
<1>5. CASE /\ ~(IsSymbol(l) /\ IsSymbol(r)) /\ ~(IsSymbol(l) /\ IsStatic(r))
           /\ ~(IsStatic(l) /\ IsSymbol(r))
  <2>1. g = f
    BY <1>5 DEF AddEqualityFact
  <2>2. Learnt(g, l, r)
    BY <1>5 DEF Learnt
  <2>3. QED
    BY <2>1, <2>2, BelowItself DEF Above
<1>6. QED
  BY <1>2, <1>3, <1>4, <1>5

\* What is learnt stays known above.
LEMMA LearntKept ==
    ASSUME NEW f, NEW h, Table(f), Table(h), Below(f, h), NEW l, NEW r, DimOk(f, l), DimOk(f, r),
           Learnt(f, l, r)
    PROVE  Learnt(h, l, r)
<1>1. ASSUME NEW d, DimOk(f, d)
      PROVE  /\ IsSymbol(d) => /\ d.sym \in Declared(f) /\ f.parent[d.sym] \in Declared(f)
                               /\ h.parent[f.parent[d.sym]] = h.parent[d.sym]
             /\ IsStatic(d) => d.add # Unbound
  BY <1>1, Representative DEF DimOk, IsSymbol, IsStatic, Below, Unbound
<1>2. ASSUME NEW d, NEW e, DimOk(f, d), DimOk(f, e), IsSymbol(d), IsStatic(e),
             f.bound[f.parent[d.sym]] = e.add
      PROVE  h.bound[h.parent[d.sym]] = e.add
  <2>1. f.parent[d.sym] \in Declared(f) /\ h.parent[f.parent[d.sym]] = h.parent[d.sym]
        /\ e.add # Unbound
    BY <1>1, <1>2
  <2>2. QED
    BY <1>2, <2>1 DEF Below
<1>3. IsSymbol(l) /\ IsSymbol(r) => h.parent[l.sym] = h.parent[r.sym]
  BY <1>1 DEF Learnt
<1>4. IsSymbol(l) /\ IsStatic(r) => h.bound[h.parent[l.sym]] = r.add
  BY <1>2 DEF Learnt
<1>5. IsStatic(l) /\ IsSymbol(r) => h.bound[h.parent[r.sym]] = l.add
  BY <1>2 DEF Learnt
<1>6. QED
  BY <1>3, <1>4, <1>5 DEF Learnt

\* Every pair of dimensions names declared symbols only.
DimsOk(f, l, r) == \A i \in DOMAIN l : DimOk(f, l[i]) /\ DimOk(f, r[i])

\* The dimension at a position keeps the table well formed.
LEMMA AddDimTable ==
    ASSUME NEW f, Table(f), NEW l, NEW r, DimsOk(f, l, r), NEW i, NEW g, g = AddDimFact(f, l, r, i)
    PROVE  /\ Table(g) /\ Declared(g) = Declared(f) /\ g.accepted = f.accepted
           /\ DimsOk(g, l, r)
<1>1. Table(g) /\ Declared(g) = Declared(f) /\ g.accepted = f.accepted
  BY DimFactTable DEF AddDimFact, DimsOk
<1>2. QED
  BY <1>1, DimOkDeclared DEF DimsOk

\* The dimension at a position keeps the table below one that has learnt the shapes' equality.
LEMMA AddDimBelow ==
    ASSUME NEW f, NEW h, Table(f), Table(h), Below(f, h), NEW l, NEW r, DimsOk(f, l, r),
           LearntShape(h, l, r), NEW i, NEW g, g = AddDimFact(f, l, r, i)
    PROVE  Below(g, h) /\ g.conflict = f.conflict
<1>1. CASE i \in DOMAIN l
  <2>1. /\ DimOk(f, l[i]) /\ DimOk(f, r[i]) /\ Learnt(h, l[i], r[i])
        /\ g = AddEqualityFact(f, l[i], r[i])
    BY <1>1 DEF AddDimFact, DimsOk, LearntShape
  <2>2. QED
    BY <2>1, DimFactBelow
<1>2. CASE i \notin DOMAIN l
  BY <1>2 DEF AddDimFact
<1>3. QED
  BY <1>1, <1>2

\* The dimension at a position is learnt, where there is one and it meets no conflict.
LEMMA AddDimAbove ==
    ASSUME NEW f, Table(f), Tidy(f), NEW l, NEW r, DimsOk(f, l, r),
           NEW i, NEW g, g = AddDimFact(f, l, r, i), ~g.conflict
    PROVE  Above(f, g) /\ (i \in DOMAIN l => Learnt(g, l[i], r[i]))
<1>1. CASE i \in DOMAIN l
  <2>1. DimOk(f, l[i]) /\ DimOk(f, r[i]) /\ g = AddEqualityFact(f, l[i], r[i])
    BY <1>1 DEF AddDimFact, DimsOk
  <2>2. QED
    BY <2>1, DimFactAbove
<1>2. CASE i \notin DOMAIN l
  BY <1>2, BelowItself DEF AddDimFact, Above
<1>3. QED
  BY <1>1, <1>2

\* A conflict is never taken back.
LEMMA AddDimConflict ==
    ASSUME NEW f, Table(f), NEW l, NEW r, DimsOk(f, l, r), NEW i, NEW g, g = AddDimFact(f, l, r, i),
           f.conflict
    PROVE  g.conflict
<1>1. ASSUME NEW s \in Declared(f), NEW t \in Declared(f), g = Union(f, s, t) PROVE g.conflict
  <2>1. CASE f.parent[s] = f.parent[t]
    BY <1>1, <2>1 DEF Union, Root
  <2>2. CASE f.parent[s] # f.parent[t]
    <3>1. MergesClassesOf(f, g, s, t)
      BY <1>1, <2>2, UnionMerges
    <3>2. QED
      BY <3>1 DEF MergesClassesOf, Merged
  <2>3. QED
    BY <2>1, <2>2
<1>2. ASSUME NEW s \in Declared(f), NEW v \in Nat, g = BindStatic(f, s, v) PROVE g.conflict
  <2> DEFINE q == f.parent[s]
  <2>1. CASE f.bound[q] = Unbound
    <3>1. g = [parent |-> f.parent, bound |-> [f.bound EXCEPT ![q] = v],
               accepted |-> f.accepted, conflict |-> f.conflict]
      BY <1>2, <2>1 DEF BindStatic, Root, Table
    <3>2. QED
      BY <3>1
  <2>2. CASE f.bound[q] # Unbound
    <3>1. g = [parent |-> f.parent, bound |-> f.bound,
               accepted |-> f.accepted, conflict |-> f.conflict \/ f.bound[q] # v]
      BY <1>2, <2>2 DEF BindStatic, Root, Table
    <3>2. g.conflict = (f.conflict \/ f.bound[q] # v)
      BY <3>1
    <3>3. QED
      BY <3>2
  <2>3. QED
    BY <2>1, <2>2
<1>3. CASE i \in DOMAIN l
  <2>1. DimOk(f, l[i]) /\ DimOk(f, r[i]) /\ g = AddEqualityFact(f, l[i], r[i])
    BY <1>3 DEF AddDimFact, DimsOk
  <2>2. ASSUME NEW d, DimOk(f, d)
        PROVE  /\ IsSymbol(d) => d.sym \in Declared(f)
               /\ IsStatic(d) => d.add \in Nat
    BY <2>2 DEF DimOk, IsSymbol, IsStatic
  <2>3. \/ \E s, t \in Declared(f) : g = Union(f, s, t)
        \/ \E s \in Declared(f), v \in Nat : g = BindStatic(f, s, v)
        \/ g = f
    BY <2>1, <2>2 DEF AddEqualityFact
  <2>4. QED
    BY <1>1, <1>2, <2>3
<1>4. CASE i \notin DOMAIN l
  BY <1>4 DEF AddDimFact
<1>5. QED
  BY <1>3, <1>4

---------------------------------------------------------------------------
\* An equality of two shapes, of one rank and over declared symbols.
Fits(f, c) ==
    c \in Requests /\ ShapeOk(f, c.left) /\ ShapeOk(f, c.right) /\ Len(c.left) = Len(c.right)

\* What the stages of an equality are: its two dimensions, then its acceptance.
LEMMA StagedStages ==
    ASSUME NEW f, Table(f), NEW c, Fits(f, c),
           NEW first, first = AddDimFact(f, c.left, c.right, 1),
           NEW last, last = AddDimFact(first, c.left, c.right, 2),
           NEW g, g = Staged(f, c)
    PROVE  /\ DOMAIN c.left \subseteq {1, 2} /\ DimsOk(f, c.left, c.right)
           /\ Table(first) /\ DimsOk(first, c.left, c.right)
           /\ Table(last) /\ DimsOk(last, c.left, c.right)
           /\ Table(g) /\ Declared(g) = Declared(last) /\ g.accepted = f.accepted \cup {c}
           /\ g.parent = last.parent /\ g.bound = last.bound /\ g.conflict = last.conflict
<1>1. /\ DOMAIN c.left \subseteq {1, 2} /\ DimsOk(f, c.left, c.right)
  <2>1. /\ DOMAIN c.left = 1 .. Len(c.left) /\ Len(c.left) \in 0 .. 2
        /\ DOMAIN c.right = 1 .. Len(c.right) /\ Len(c.left) = Len(c.right)
        /\ \A i \in DOMAIN c.left : DimOk(f, c.left[i])
        /\ \A i \in DOMAIN c.right : DimOk(f, c.right[i])
    BY ShapeDims DEF Fits
  <2>2. QED
    BY <2>1 DEF DimsOk
<1>2. Table(first) /\ DimsOk(first, c.left, c.right) /\ first.accepted = f.accepted
  BY <1>1, AddDimTable
<1>3. Table(last) /\ DimsOk(last, c.left, c.right) /\ last.accepted = f.accepted
  BY <1>2, AddDimTable
<1>4. g = [last EXCEPT !.accepted = @ \cup {c}]
  BY DEF Staged, AddShapeFact, Accept
<1>5. g = [parent |-> last.parent, bound |-> last.bound,
           accepted |-> f.accepted \cup {c}, conflict |-> last.conflict]
  BY <1>3, <1>4 DEF Table
<1>6. /\ g.parent = last.parent /\ g.bound = last.bound /\ g.conflict = last.conflict
      /\ g.accepted = f.accepted \cup {c}
  BY <1>5
<1>7. Declared(g) = Declared(last)
  BY <1>6 DEF Declared
<1>8. Table(g)
  BY StagedTable DEF Fits
<1>9. QED
  BY <1>1, <1>2, <1>3, <1>6, <1>7, <1>8

\* An equality h has learnt is staged below h, and meets no conflict.
LEMMA StagedBelow ==
    ASSUME NEW f, NEW h, Table(f), Table(h), Below(f, h), NEW c, Fits(f, c),
           LearntShape(h, c.left, c.right), NEW g, g = Staged(f, c)
    PROVE  Below(g, h) /\ g.conflict = f.conflict
<1> DEFINE first == AddDimFact(f, c.left, c.right, 1)
           last == AddDimFact(first, c.left, c.right, 2)
<1>1. /\ DimsOk(f, c.left, c.right) /\ Table(first) /\ DimsOk(first, c.left, c.right)
      /\ Table(last) /\ Declared(g) = Declared(last)
      /\ g.parent = last.parent /\ g.bound = last.bound /\ g.conflict = last.conflict
  BY StagedStages
<1>2. Below(first, h) /\ first.conflict = f.conflict
  BY <1>1, AddDimBelow
<1>3. Below(last, h) /\ last.conflict = first.conflict
  <2> HIDE DEF first
  <2>1. QED
    BY <1>1, <1>2, AddDimBelow
<1> HIDE DEF first, last
<1>4. QED
  BY <1>1, <1>2, <1>3 DEF Below

\* An equality staged without a conflict is above the table, and learnt.
LEMMA StagedAbove ==
    ASSUME NEW f, Table(f), Tidy(f), NEW c, Fits(f, c), NEW g, g = Staged(f, c), ~g.conflict
    PROVE  Above(f, g) /\ LearntShape(g, c.left, c.right)
<1> DEFINE first == AddDimFact(f, c.left, c.right, 1)
           last == AddDimFact(first, c.left, c.right, 2)
<1>1. /\ DOMAIN c.left \subseteq {1, 2}
      /\ DimsOk(f, c.left, c.right) /\ Table(first) /\ DimsOk(first, c.left, c.right)
      /\ Table(last) /\ DimsOk(last, c.left, c.right) /\ Declared(g) = Declared(last)
      /\ g.parent = last.parent /\ g.bound = last.bound /\ g.conflict = last.conflict
  BY StagedStages
<1>2. ASSUME Tidy(first)
      PROVE  Above(first, last) /\ (2 \in DOMAIN c.left => Learnt(last, c.left[2], c.right[2]))
  <2>1. ~last.conflict
    BY <1>1
  <2> HIDE DEF first
  <2>2. QED
    BY <1>1, <1>2, <2>1, AddDimAbove
<1>3. ~first.conflict
  <2>1. ~last.conflict
    BY <1>1
  <2> HIDE DEF first
  <2>2. QED
    BY <1>1, <2>1, AddDimConflict
<1>4. Above(f, first) /\ (1 \in DOMAIN c.left => Learnt(first, c.left[1], c.right[1]))
  BY <1>1, <1>3, AddDimAbove
<1> HIDE DEF first, last
<1>5. Above(first, last) /\ (2 \in DOMAIN c.left => Learnt(last, c.left[2], c.right[2]))
  BY <1>2, <1>4 DEF Above
<1>6. Below(f, last) /\ Tidy(last) /\ ~f.conflict
  BY <1>1, <1>4, <1>5, BelowTransitive DEF Above
<1>7. LearntShape(last, c.left, c.right)
  <2>1. 1 \in DOMAIN c.left => Learnt(last, c.left[1], c.right[1])
    BY <1>1, <1>4, <1>5, LearntKept DEF Above, DimsOk
  <2>2. QED
    BY <1>1, <1>5, <2>1 DEF LearntShape
<1>8. Below(f, g) /\ Tidy(g)
  BY <1>1, <1>6 DEF Below, Tidy
<1>9. LearntShape(g, c.left, c.right)
  BY <1>1, <1>7 DEF LearntShape, Learnt
<1>10. QED
  BY <1>6, <1>8, <1>9 DEF Above

---------------------------------------------------------------------------
\* A table in use: tidy, without a conflict, and of equalities over declared symbols.
Usable(f) ==
    /\ Table(f) /\ Tidy(f) /\ ~f.conflict /\ f.accepted \subseteq Requests
    /\ \A c \in f.accepted : SymbolsOf(c.left) \cup SymbolsOf(c.right) \subseteq Declared(f)

\* What inserting a new equality makes of a table in use: the staged table, above the old
\* one, which has learnt the equality and contradicts none it accepted.
LEMMA InsertStages ==
    ASSUME NEW f, Usable(f), NEW c \in Requests, c \notin f.accepted, InsertOk(f, c),
           NEW g, g = Inserted(f, c)
    PROVE  /\ g = Staged(f, c) /\ Fits(f, c) /\ Usable(g) /\ Above(f, g)
           /\ LearntShape(g, c.left, c.right)
           /\ g.accepted = f.accepted \cup {c} /\ VerifyAllEqualities(g)
<1>1. /\ g = Staged(f, c) /\ ~g.conflict /\ VerifyAllEqualities(g) /\ ~Contradicts(f, c.left, c.right)
      /\ SymbolsOf(c.left) \cup SymbolsOf(c.right) \subseteq Declared(f)
  BY DEF Inserted, Extended, InsertOk, Consistent
<1>2. Fits(f, c)
  BY <1>1, RequestShapes DEF Fits, Contradicts
<1>3. Table(g) /\ Declared(g) = Declared(f) /\ g.accepted = f.accepted \cup {c}
  BY <1>1, <1>2, StagedTable DEF Fits, Usable
<1>4. Above(f, g) /\ LearntShape(g, c.left, c.right)
  BY <1>1, <1>2, StagedAbove DEF Usable
<1>5. Usable(g)
  BY <1>1, <1>3, <1>4 DEF Usable, Above
<1>6. QED
  BY <1>1, <1>2, <1>3, <1>4, <1>5

\* h knows all of f and of the equality c, which is one it has accepted.
Covers(h, f, c) ==
    /\ Below(f, h) /\ c \in Requests /\ c \in h.accepted /\ f.accepted \subseteq h.accepted
    /\ LearntShape(h, c.left, c.right)

\* A table below a consistent one accepts whatever the consistent one has accepted, and
\* the result is below it still.
LEMMA InsertBelow ==
    ASSUME NEW f, NEW h, Usable(f), Usable(h), VerifyAllEqualities(h), NEW c, Covers(h, f, c),
           c \notin f.accepted, NEW g, g = Staged(f, c)
    PROVE  InsertOk(f, c) /\ Inserted(f, c) = g /\ Below(g, h)
<1>1. /\ Below(f, h) /\ c \in Requests /\ c \in h.accepted /\ Declared(h) = Declared(f)
      /\ f.accepted \subseteq h.accepted /\ LearntShape(h, c.left, c.right)
      /\ Table(f) /\ Table(h) /\ ~f.conflict
      /\ SymbolsOf(c.left) \cup SymbolsOf(c.right) \subseteq Declared(f)
  BY DEF Covers, Below, Usable
<1>2. \A e \in h.accepted : ~Contradicts(h, e.left, e.right)
  BY DEF VerifyAllEqualities
<1>3. ShapeOk(f, c.left) /\ ShapeOk(f, c.right)
  BY <1>1, RequestShapes
<1>4. ~Contradicts(f, c.left, c.right)
  BY <1>1, <1>2, <1>3, ContradictionKept
<1>5. Fits(f, c)
  BY <1>1, <1>3, <1>4 DEF Fits, Contradicts
<1>6. Below(g, h) /\ g.conflict = f.conflict
  BY <1>1, <1>5, StagedBelow
<1>7. Table(g) /\ Declared(g) = Declared(f) /\ g.accepted = f.accepted \cup {c}
  BY <1>1, <1>5, StagedTable DEF Fits
<1>8. ASSUME NEW e \in g.accepted PROVE ~Contradicts(g, e.left, e.right)
  <2>1. e \in h.accepted
    BY <1>1, <1>7, <1>8
  <2>2. e \in Requests /\ SymbolsOf(e.left) \cup SymbolsOf(e.right) \subseteq Declared(g)
    BY <1>1, <1>7, <2>1 DEF Usable
  <2>3. ShapeOk(g, e.left) /\ ShapeOk(g, e.right)
    BY <2>2, RequestShapes
  <2>4. QED
    BY <1>1, <1>2, <1>6, <1>7, <2>1, <2>3, ContradictionKept
<1>9. Consistent(g)
  BY <1>1, <1>6, <1>8 DEF Consistent, VerifyAllEqualities
<1>10. InsertOk(f, c)
  BY <1>1, <1>4, <1>9 DEF InsertOk
<1>11. Inserted(f, c) = g
  BY <1>10 DEF Inserted, Extended
<1>12. QED
  BY <1>6, <1>10, <1>11

\* An inserted equality keeps what was declared and accepted.
LEMMA InsertedDeclares ==
    ASSUME NEW f, Usable(f), NEW d \in Requests
    PROVE  Declared(Inserted(f, d)) = Declared(f) /\ f.accepted \subseteq Inserted(f, d).accepted
<1>1. CASE ~InsertOk(f, d) \/ d \in f.accepted
  BY <1>1 DEF Inserted, Extended
<1>2. CASE InsertOk(f, d) /\ d \notin f.accepted
  BY <1>2, InsertStages DEF Above, Below
<1>3. QED
  BY <1>1, <1>2

\* What is learnt of two shapes stays known above.
LEMMA LearntShapeKept ==
    ASSUME NEW f, NEW g, NEW h, Table(g), Table(h), Declared(g) = Declared(f), Below(g, h),
           NEW c, Fits(f, c), LearntShape(g, c.left, c.right)
    PROVE  LearntShape(h, c.left, c.right)
<1> SUFFICES ASSUME NEW i \in DOMAIN c.left PROVE Learnt(h, c.left[i], c.right[i])
  BY DEF LearntShape
<1>1. i \in DOMAIN c.right
  BY ShapeDims DEF Fits
<1>2. DimOk(f, c.left[i]) /\ DimOk(f, c.right[i])
  BY <1>1, ShapeDims DEF Fits
<1>3. DimOk(g, c.left[i]) /\ DimOk(g, c.right[i])
  BY <1>2, DimOkDeclared
<1>4. QED
  BY <1>3, LearntKept DEF LearntShape

\* Two new equalities accepted in one order are accepted in the other, with one table.
LEMMA NewSwap ==
    ASSUME NEW f, Usable(f), NEW c \in Requests, NEW d \in Requests, c # d,
           c \notin f.accepted, d \notin f.accepted,
           InsertOk(f, c), InsertOk(Inserted(f, c), d)
    PROVE  /\ InsertOk(f, d) /\ InsertOk(Inserted(f, d), c)
           /\ Inserted(Inserted(f, d), c) = Inserted(Inserted(f, c), d)
<1> DEFINE g == Inserted(f, c)
           h == Inserted(g, d)
           k == Staged(f, d)
           m == Staged(k, c)
<1>1. /\ g = Staged(f, c) /\ Fits(f, c) /\ Usable(g) /\ Above(f, g)
      /\ LearntShape(g, c.left, c.right) /\ g.accepted = f.accepted \cup {c}
  BY InsertStages
<1>2. /\ h = Staged(g, d) /\ Fits(g, d) /\ Usable(h) /\ Above(g, h)
      /\ LearntShape(h, d.left, d.right) /\ h.accepted = g.accepted \cup {d}
      /\ VerifyAllEqualities(h)
  <2> HIDE DEF g
  <2>1. d \notin g.accepted /\ InsertOk(g, d)
    BY <1>1 DEF g
  <2>2. QED
    BY <1>1, <2>1, InsertStages
<1> HIDE DEF g, h, k, m
<1>3. /\ Table(f) /\ Table(g) /\ Table(h) /\ Declared(g) = Declared(f)
      /\ Below(f, g) /\ Below(g, h) /\ Below(f, h)
  BY <1>1, <1>2, BelowTransitive DEF Usable, Above, Below
<1>4. LearntShape(h, c.left, c.right)
  BY <1>1, <1>3, LearntShapeKept
<1>5. InsertOk(f, d) /\ Inserted(f, d) = k /\ Below(k, h)
  <2>1. Covers(h, f, d)
    BY <1>1, <1>2, <1>3 DEF Covers
  <2>2. QED
    BY <1>2, <2>1, InsertBelow DEF k
<1>6. /\ Usable(k) /\ Above(f, k) /\ LearntShape(k, d.left, d.right)
      /\ k.accepted = f.accepted \cup {d}
  BY <1>5, InsertStages
<1>7. InsertOk(k, c) /\ Inserted(k, c) = m /\ Below(m, h)
  <2>1. Covers(h, k, c) /\ c \notin k.accepted
    BY <1>1, <1>2, <1>4, <1>5, <1>6 DEF Covers
  <2>2. QED
    BY <1>2, <1>6, <2>1, InsertBelow DEF m
<1>8. /\ Usable(m) /\ Above(k, m) /\ LearntShape(m, c.left, c.right) /\ Fits(k, c)
      /\ m.accepted = k.accepted \cup {c}
  <2>1. c \notin k.accepted
    BY <1>6
  <2>2. QED
    BY <1>6, <1>7, <2>1, InsertStages
<1>9. Below(g, m)
  <2>1. Below(f, m)
    BY <1>3, <1>6, <1>8, BelowTransitive DEF Usable, Above
  <2>2. QED
    BY <1>1, <1>3, <1>8, <2>1, StagedBelow DEF Usable
<1>10. Below(h, m)
  <2>1. Fits(f, d)
    BY <1>5, InsertStages
  <2>2. Table(k) /\ Table(m) /\ Below(k, m) /\ Declared(k) = Declared(f)
    BY <1>6, <1>8 DEF Usable, Above, Below
  <2>3. LearntShape(m, d.left, d.right)
    BY <1>6, <2>1, <2>2, LearntShapeKept
  <2>4. QED
    BY <1>2, <1>3, <1>9, <2>2, <2>3, StagedBelow
<1>11. m = h
  <2>1. m.accepted = h.accepted
    BY <1>1, <1>2, <1>6, <1>8
  <2>2. m.conflict = h.conflict
    BY <1>2, <1>8 DEF Usable, Table
  <2>3. QED
    BY <1>2, <1>7, <1>8, <1>10, <2>1, <2>2, SameTable DEF Usable
<1>12. QED
  BY <1>5, <1>7, <1>11 DEF g, h

\* Two equalities accepted in one order, new or not, are accepted in the other with one table.
LEMMA Swap ==
    ASSUME NEW f, Usable(f), NEW c \in Requests, NEW d \in Requests,
           InsertOk(f, c), InsertOk(Inserted(f, c), d)
    PROVE  /\ InsertOk(f, d) /\ InsertOk(Inserted(f, d), c)
           /\ Inserted(Inserted(f, d), c) = Inserted(Inserted(f, c), d)
<1>1. CASE c = d
  BY <1>1
<1>2. CASE c \in f.accepted
  <2>1. Inserted(f, c) = f /\ InsertOk(f, d)
    BY <1>2 DEF Inserted, Extended
  <2>2. c \in Inserted(f, d).accepted /\ Declared(Inserted(f, d)) = Declared(f)
    BY <1>2, <2>1, InsertedDeclares
  <2>3. InsertOk(Inserted(f, d), c)
    BY <2>2 DEF InsertOk
  <2>4. QED
    BY <2>1, <2>2, <2>3 DEF Inserted, Extended
<1>3. CASE d \in f.accepted
  <2>1. d \in Inserted(f, c).accepted
    BY <1>3, InsertedDeclares
  <2>2. Inserted(Inserted(f, c), d) = Inserted(f, c)
    BY <2>1 DEF Inserted, Extended
  <2>3. InsertOk(f, d) /\ Inserted(f, d) = f
    BY <1>3 DEF InsertOk, Inserted, Extended, Usable
  <2>4. QED
    BY <2>2, <2>3
<1>4. CASE c # d /\ c \notin f.accepted /\ d \notin f.accepted
  BY <1>4, NewSwap
<1>5. QED
  BY <1>1, <1>2, <1>3, <1>4

---------------------------------------------------------------------------
\* No symbol of the empty table carries an extent.
LEMMA InitTidy == Init => Tidy(facts)
BY DEF Init, NoFacts, Tidy

\* Every step leaves extents to representatives: union takes the replaced one's.
LEMMA StepTidy == IInv /\ Tidy(facts) /\ [Next]_facts => Tidy(facts')
<1> SUFFICES ASSUME IInv, Tidy(facts), [Next]_facts PROVE Tidy(facts')
  OBVIOUS
<1>1. ASSUME NEW s \in Symbols, Declare(s) PROVE Tidy(facts')
  <2>1. facts' = [parent |-> [facts.parent EXCEPT ![s] = s], bound |-> facts.bound,
                  accepted |-> facts.accepted, conflict |-> facts.conflict]
    BY <1>1 DEF Declare, DeclareSymbol, IInv, Table
  <2>2. \A u \in Symbols : /\ facts'.parent[u] = IF u = s THEN s ELSE facts.parent[u]
                           /\ facts'.bound[u] = facts.bound[u]
    BY <2>1 DEF IInv, Table
  <2>3. QED
    BY <2>2 DEF Tidy
<1>2. ASSUME NEW c \in Requests, Insert(c) PROVE Tidy(facts')
  <2>1. Usable(facts)
    BY DEF Usable, IInv
  <2>2. CASE c \in facts.accepted
    BY <1>2, <2>2 DEF Insert, Inserted, Extended
  <2>3. CASE c \notin facts.accepted
    BY <1>2, <2>1, <2>3, InsertStages DEF Insert, Usable
  <2>4. QED
    BY <2>2, <2>3
<1>3. CASE UNCHANGED facts
  BY <1>3
<1>4. QED
  BY <1>1, <1>2, <1>3 DEF Next

\* Reordering two equalities changes neither whether both are accepted nor the table they
\* leave behind: no accepted class, extent or answer depends on the order of insertion.
THEOREM AnswersOrderIndependent == Spec => []OrderIndependent
<1>1. IInv /\ Tidy(facts) => OrderIndependent
  <2> SUFFICES ASSUME IInv, Tidy(facts), NEW c \in Askable, NEW d \in Askable
               PROVE  Both(facts, c, d) = Both(facts, d, c)
    BY DEF OrderIndependent
  <2>1. Usable(facts) /\ c \in Requests /\ d \in Requests
    BY DEF Usable, IInv, Askable
  <2>2. CASE InsertOk(facts, c) /\ InsertOk(Inserted(facts, c), d)
    BY <2>1, <2>2, Swap DEF Both
  <2>3. CASE InsertOk(facts, d) /\ InsertOk(Inserted(facts, d), c)
    BY <2>1, <2>3, Swap DEF Both
  <2>4. CASE /\ ~(InsertOk(facts, c) /\ InsertOk(Inserted(facts, c), d))
             /\ ~(InsertOk(facts, d) /\ InsertOk(Inserted(facts, d), c))
    BY <2>4 DEF Both
  <2>5. QED
    BY <2>2, <2>3, <2>4
<1>2. Spec => []Tidy(facts)
  <2>1. IInv /\ IInv' /\ Tidy(facts) /\ [Next]_facts => Tidy(facts)'
    BY StepTidy
  <2>2. QED
    BY InitTidy, <2>1, TableInductive, PTL DEF Spec
<1>3. QED
  BY <1>1, <1>2, TableInductive, PTL
=============================================================================
