----------------------------- MODULE MCArchives -----------------------------
(***************************************************************************)
(* Archives of earlier builds for TLC.                                     *)
(***************************************************************************)
EXTENDS Archives, TLC

CONSTANTS a, b, p1, p2
Symmetry == Permutations(Paths)

MCOps == {"infer", "freeze"}

\* The archive a build of a format wrote after the operations, inferred under the semantics.
Old(version, ops, semantics, codecs, stores) ==
    LET events == [i \in DOMAIN ops |-> [op |-> ops[i], semantics |-> semantics[i]]]
        contents == Contents(events)
    IN [version |-> version,
        snapshot |->
          [schema |-> version, id |-> 1,
           events |-> [i \in DOMAIN ops |->
                          [op |-> ops[i], hash |-> contents[i + 1],
                           semantics |-> IF version < 3 THEN Absent ELSE semantics[i]]],
           revisions |-> [r \in DOMAIN contents |->
                             [content |-> contents[r],
                              spec |-> IF version = 1 THEN Absent ELSE SpecHash(contents[r])]],
           forest |-> IF version < 4 THEN Absent
                      ELSE [c \in DOMAIN codecs |->
                               [of |-> 1, hash |-> CandidateHash(1, codecs[c]),
                                codec |-> IF version = 4 THEN Absent ELSE codecs[c]]],
           stores |-> [f \in Later |-> IF f <= version THEN stores ELSE Absent]]]

MCOldArchives ==
    {Old(1, <<"infer", "freeze">>, <<1, 1>>, <<>>, 0),
     Old(2, <<"infer">>, <<1>>, <<>>, 0),
     Old(4, <<"infer", "freeze">>, <<1, 2>>, <<1>>, 0),
     Old(9, <<"infer", "freeze">>, <<1, 2>>, <<1, 2, 3>>, 1)}

Extensible == \E path \in Paths : \E f \in published[path] : f.version = 2

\* Two processes run only over that archive.  Then the first extends what it loaded by one
\* event at most and saves or migrates, and the second only migrates.
TwoRun ==
    {p1, p2} \subseteq DOMAIN procs =>
        /\ Extensible
        /\ procs[p1].next = 0 /\ procs[p2].next = 0
        /\ OpenIn(p2) = {}
        /\ \A id \in OpenIn(p1) :
              procs[p1].open[id].forest = <<>> /\ ~Frozen(HeadContent(procs[p1].open[id]))

FirstStarts == p2 \in DOMAIN procs => p1 \in DOMAIN procs \/ faults > 0

\* Who migrates keeps none open.
MigratesOnly ==
    \A p \in DOMAIN procs : Running(p) # None =>
        \A id \in OpenIn(p) : Running(p).data = Archived(procs[p].open[id])

\* Two saves over the archive whose workspace can be extended, one over the others.
TwoSaves ==
    Cardinality(UNION {{<<p, f>> : f \in published[p]} : p \in Paths}) <= IF Extensible THEN 3 ELSE 2
=============================================================================
