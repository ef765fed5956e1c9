---------------------------- MODULE RevisionHistory ----------------------------
(***************************************************************************)
(* What a workspace promises of its revisions, whatever a transaction      *)
(* does: the root is there from the start, a step adds one child of an     *)
(* existing revision and makes it the head, no revision ever changes or    *)
(* disappears, and a frozen revision has only children that equal it.      *)
(***************************************************************************)
CONSTANTS
    RootId,     \* the revision every workspace starts with
    Empty,      \* its program
    Frozen(_)   \* the programs that are closed for good

VARIABLES
    programs,   \* a function from the revisions made so far to their programs
    parents,    \* and to their parents
    head

historyVars == <<programs, parents, head>>

Init ==
    /\ programs = [r \in {RootId} |-> Empty]
    /\ parents = [r \in {RootId} |-> RootId]
    /\ head = RootId

Extends(new, old, r, value) ==
    new = [s \in DOMAIN old \cup {r} |-> IF s = r THEN value ELSE old[s]]

AddChild(base, r) ==
    /\ r \notin DOMAIN programs
    /\ Extends(programs', programs, r, programs'[r])
    /\ Extends(parents', parents, r, base)
    /\ Frozen(programs[base]) => programs'[r] = programs[base]
    /\ head' = r

Next == \E base \in DOMAIN programs : \E r \in DOMAIN programs' : AddChild(base, r)

Spec == Init /\ [][Next]_historyVars
=============================================================================
