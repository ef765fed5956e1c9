------------------------------- MODULE FactTable -------------------------------
(***************************************************************************)
(* A fact table in use: symbols are declared and equalities inserted, in   *)
(* any order, and queries are answered in between.  A refused request      *)
(* leaves the table alone and is a stuttering step.                        *)
(***************************************************************************)
EXTENDS ShapeFacts

CONSTANTS
    Queries,    \* the shapes that are asked about
    Requests,   \* the equalities that are inserted
    Valuations  \* the assignments of extents the answers are judged by

ASSUME QueriesAssumption == \A q \in Queries : IsShape(q)
ASSUME RequestsAssumption == Requests \subseteq [left : Queries, right : Queries]
ASSUME ValuationsAssumption == Valuations \subseteq [Symbols -> Nat]

VARIABLE facts

Init == facts = NoFacts

\* declare_symbol refuses a second declaration.
Declare(s) ==
    /\ s \notin Declared(facts)
    /\ facts' = DeclareSymbol(facts, s)

Insert(c) ==
    /\ InsertOk(facts, c)
    /\ facts' = Inserted(facts, c)

Next == \/ \E s \in Symbols : Declare(s)
        \/ \E c \in Requests : Insert(c)

Spec == Init /\ [][Next]_facts

---------------------------------------------------------------------------
FlatForest(f) ==
    \A s \in Declared(f) : /\ f.parent[s] \in Declared(f)
                           /\ f.parent[f.parent[s]] = f.parent[s]
                           /\ f.parent[s] <= s

TypeOK ==
    /\ facts.parent \in [Symbols -> Symbols \cup {NoSymbol}]
    /\ facts.bound \in [Symbols -> Nat \cup {Unbound}]
    /\ facts.accepted \subseteq Requests
    /\ facts.conflict = FALSE
    /\ FlatForest(facts)

\* Shapes a query may be asked about: their symbols are declared.
Known == {q \in Queries : SymbolsOf(q) \subseteq Declared(facts)}
Models == {val \in Valuations : Satisfies(val, facts.accepted)}

\* constraint-solving.md, "Soundness before completeness": what is proved holds, and what
\* is a contradiction fails, under every assignment the accepted equalities allow.
QuerySound ==
    \A val \in Models : \A l, r \in Known :
        /\ Query(facts, l, r) = "proved" => Equal(l, r, val)
        /\ Query(facts, l, r) = "contradiction" => ~Equal(l, r, val)

\* An equality is refused only if no assignment satisfies it with the accepted ones.
Askable == {c \in Requests : c.left \in Known /\ c.right \in Known}
RefusalSound ==
    \A c \in Askable : ~InsertOk(facts, c) => \A val \in Models : ~Equal(c.left, c.right, val)

\* "Reordering facts preserves the proof classification": two equalities are both
\* accepted in one order exactly when they are in the other, with the same table.
Both(f, c, d) == IF InsertOk(f, c) /\ InsertOk(Inserted(f, c), d)
                 THEN {Inserted(Inserted(f, c), d)} ELSE {}
OrderIndependent == \A c, d \in Askable : Both(facts, c, d) = Both(facts, d, c)

=============================================================================
