----------------------------- MODULE MCOptimization -----------------------------
(* A specification with an x / x in it, for TLC. *)
EXTENDS Optimization

CONSTANTS spec, folded, reduced, ones, wrong

SmallImpls == {spec, folded, reduced, ones, wrong}
SmallInputs == {"zero", "nonzero"}

\* spec --> folded (by two of them) --> reduced by production rules; x / x --> 1 gives ones; wrong is neither.
SmallMatches == [p \in SmallImpls |->
    CASE p = spec -> <<folded, folded>>
      [] p = folded -> <<folded, reduced>>
      [] OTHER -> <<>>]
SmallFragments == [p \in SmallImpls |->
    CASE p = spec -> {folded, reduced, ones}
      [] p = folded -> {reduced}
      [] p \in {reduced, ones} -> {wrong}
      [] OTHER -> {}]
SmallDivisions == {[before |-> spec, after |-> ones, nonZero |-> {"nonzero"}]}
SmallMeaning == [p \in SmallImpls |->
    CASE p = wrong -> [i \in SmallInputs |-> "other"]
      [] p = ones -> [i \in SmallInputs |-> IF i = "zero" THEN "other" ELSE "value"]
      [] OTHER -> [i \in SmallInputs |-> IF i = "zero" THEN "error" ELSE "value"]]
=============================================================================
