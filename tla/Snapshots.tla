----------------------------- MODULE Snapshots -----------------------------
(***************************************************************************)
(* Snapshots of a workspace in the formats 1 to 11, the migrations from    *)
(* one format to the next, and the replay that turns a snapshot into a     *)
(* workspace again.  A program is the events that made it, each with the   *)
(* semantics it was inferred under where that tells; a hash is what was    *)
(* hashed.                                                                 *)
(***************************************************************************)
EXTENDS Integers, Sequences, SequencesExt

CONSTANTS
    None,       \* Option::None
    Absent,     \* a field the format does not have
    Inferred    \* the operations whose outcome depends on the semantics version

Legacy == 1     \* LEGACY_CORE_SEMANTICS_VERSION
Core == 2       \* CORE_SEMANTICS_VERSION
Newest == 11    \* ARCHIVE_FORMAT_VERSION

\* The stores later than the candidate forest, each by the format that brought it.
Later == 6 .. Newest
NoStores(version) == [f \in Later |-> IF f <= version THEN 0 ELSE Absent]

Made(content, op, semantics) ==
    Append(content, <<op, IF op \in Inferred THEN semantics ELSE 0>>)

Frozen(content) == content # <<>> /\ Last(content)[1] = "freeze"
SpecHash(content) == IF Frozen(content) THEN content ELSE None
CandidateHash(of, codec) == <<of, codec>>

---------------------------------------------------------------------------
\* Migrations of snapshots: none recomputes a hash.
MigrateV1(s) ==
    [s EXCEPT !.schema = 2,
              !.revisions = [r \in DOMAIN @ |-> [content |-> @[r].content, spec |-> None]]]

X_MigrateV2_TagsCore(s) ==
    [s EXCEPT !.schema = 3, !.events = [i \in DOMAIN @ |-> [@[i] EXCEPT !.semantics = Core]]]

MigrateV2(s) ==
    [s EXCEPT !.schema = 3, !.events = [i \in DOMAIN @ |-> [@[i] EXCEPT !.semantics = Legacy]]]

MigrateV3(s) == [s EXCEPT !.schema = 4, !.forest = <<>>]

MigrateV4(s) ==
    [s EXCEPT !.schema = 5, !.forest = [c \in DOMAIN @ |-> [@[c] EXCEPT !.codec = 1]]]

\* Formats 6 to 11 add an empty store each.
WithNextStore(s) == [s EXCEPT !.schema = @ + 1, !.stores[s.schema + 1] = 0]

Migrated(s) ==
    CASE s.schema = 1 -> MigrateV1(s)
      [] s.schema = 2 -> MigrateV2(s)
      [] s.schema = 3 -> MigrateV3(s)
      [] s.schema = 4 -> MigrateV4(s)
      [] OTHER -> WithNextStore(s)

UpToDate(s) == FoldLeft(LAMBDA m, i : Migrated(m), s, [i \in 1 .. Newest - s.schema |-> i])

---------------------------------------------------------------------------
X_Contents_OneSemantics(events) ==
    FoldLeft(LAMBDA cs, e : Append(cs, Made(Last(cs), e.op, events[1].semantics)), <<<<>>>>, events)

\* The content of every revision, the root first: each event under its own semantics.
Contents(events) ==
    FoldLeft(LAMBDA cs, e : Append(cs, Made(Last(cs), e.op, e.semantics)), <<<<>>>>, events)

Replays(s, contents) ==
    /\ Len(s.revisions) = Len(contents)
    /\ \A r \in DOMAIN contents : s.revisions[r].content = contents[r]
    /\ \A i \in DOMAIN s.events :
          s.events[i].semantics \in {Legacy, Core} /\ s.events[i].hash = contents[i + 1]

CacheAgrees(s, populate) ==
    \A r \in DOMAIN s.revisions :
        s.revisions[r].spec = IF populate THEN None ELSE SpecHash(s.revisions[r].content)

ForestVerifies(s) ==
    \A c \in DOMAIN s.forest :
        s.forest[c].codec \in 1 .. 3
        /\ s.forest[c].hash = CandidateHash(s.forest[c].of, s.forest[c].codec)

\* The workspace a snapshot stands for, or none.
Restored(s, populate) ==
    IF Replays(s, Contents(s.events)) /\ CacheAgrees(s, populate) /\ ForestVerifies(s)
    THEN {[id |-> s.id, events |-> s.events, forest |-> s.forest, stores |-> s.stores,
           revisions |-> [r \in DOMAIN s.revisions |->
                             [content |-> s.revisions[r].content,
                              spec |-> SpecHash(s.revisions[r].content)]]]}
    ELSE {}

Snapshot(w) ==
    [schema |-> Newest, id |-> w.id, events |-> w.events, revisions |-> w.revisions,
     forest |-> w.forest, stores |-> w.stores]

---------------------------------------------------------------------------
\* Bytes that are no archive: no version is read from them.
Torn == [version |-> 0]

Archived(w) == [version |-> Newest, snapshot |-> Snapshot(w)]

Supported(file) == file.version \in 1 .. Newest
Decodes(file) == file # Torn /\ Supported(file)

\* Only the first format has no cache to compare, and only it fills the cache.
Populates(file) == file.version = 1

Loaded(file) ==
    IF Decodes(file) /\ file.snapshot.schema = file.version
    THEN Restored(UpToDate(file.snapshot), Populates(file)) ELSE {}

\* The archive of format 2 that a workspace restored from format 1 is cut back to.
CutBack(w) ==
    [version |-> 2,
     snapshot |-> [schema |-> 2, id |-> w.id, revisions |-> w.revisions, forest |-> Absent,
                   events |-> [i \in DOMAIN w.events |-> [w.events[i] EXCEPT !.semantics = Absent]],
                   stores |-> NoStores(2)]]

X_NextFormat_Structural(file) == {[version |-> file.version + 1, snapshot |-> Migrated(file.snapshot)]}

\* migrate_archive_vN_to_vN+1: the archive in the next format, or none.
NextFormat(file) ==
    IF file.version = 1 THEN {CutBack(w) : w \in Restored(UpToDate(file.snapshot), TRUE)}
    ELSE {[version |-> file.version + 1, snapshot |-> Migrated(file.snapshot)]}

StepByStep(file) ==
    FoldLeft(LAMBDA fs, i : UNION {NextFormat(f) : f \in fs}, {file},
             [i \in 1 .. Newest - file.version |-> i])

NewWorkspace(id) ==
    [id |-> id, events |-> <<>>, revisions |-> <<[content |-> <<>>, spec |-> None]>>,
     forest |-> <<>>, stores |-> NoStores(Newest)]

HeadContent(w) == Last(w.revisions).content

\* New events are inferred under the current semantics, whatever the earlier ones were.
Applied(w, op) ==
    LET content == Made(HeadContent(w), op, Core)
    IN [w EXCEPT !.events = Append(@, [op |-> op, hash |-> content, semantics |-> Core]),
                 !.revisions = Append(@, [content |-> content, spec |-> SpecHash(content)])]

WithCandidate(w, codec) ==
    LET of == Len(w.revisions)
    IN [w EXCEPT !.forest = Append(@, [of |-> of, codec |-> codec, hash |-> CandidateHash(of, codec)])]
=============================================================================
