------------------------------ MODULE Archives ------------------------------
(***************************************************************************)
(* Processes of the protocol engine that keep workspaces open, and the     *)
(* archives they save to, load from and migrate between in one directory.  *)
(* A save writes a temporary file, syncs it and renames it over its path.  *)
(* A process may die between any two steps, an I/O call may fail, and the  *)
(* machine may lose power: what was not synced is torn then, and renames   *)
(* the directory did not reach the disk with are undone.                   *)
(***************************************************************************)
EXTENDS Snapshots, FiniteSets, FiniteSetsExt

CONSTANTS
    Paths, Pids, Ops,
    Codecs,         \* candidate hash versions of new candidates
    OldArchives,    \* that earlier builds wrote
    MaxEvents,      \* events of a workspace
    MaxCandidates,  \* in the forest of a workspace
    MaxOpened,      \* identities a process hands out
    MaxTemps,       \* temporary names a process makes
    MaxFaults       \* deaths, failed calls and power losses

TempName(path, pid, seq) == <<path, pid, seq>>
Temps == {TempName(path, pid, seq) : path \in Paths, pid \in Pids, seq \in 0 .. MaxTemps - 1}

\* No client names an archive like a temporary file.
ASSUME NamesAssumption == MaxTemps \in Nat /\ Paths \cap Temps = {}

\* The events of an archive, each with the semantics it was inferred under: builds before
\* format 3 had one and did not write it.
InferredEvents(old) ==
    [i \in DOMAIN old.snapshot.events |->
        [op |-> old.snapshot.events[i].op, hash |-> old.snapshot.events[i].hash,
         semantics |-> IF old.version < 3 THEN Legacy ELSE old.snapshot.events[i].semantics]]

\* A candidate as a format wrote it: format 4 had one codec, and did not write it.
WrittenCandidate(c, version) ==
    LET codec == IF version = 4 THEN 1 ELSE c.codec
    IN /\ codec \in 1 .. 3
       /\ c = [of |-> c.of, codec |-> IF version = 4 THEN Absent ELSE codec,
               hash |-> CandidateHash(c.of, codec)]

IsList(x) == x \in Seq({x[i] : i \in DOMAIN x})

\* What a build of an earlier format wrote: its events, the revisions they replay to, the
\* cache since format 2, a forest since format 4 and the stores the format has.
WrittenHeader(old) ==
    /\ old.version \in 1 .. Newest - 1
    /\ old = [version |-> old.version, snapshot |-> old.snapshot]

WrittenFields(old) ==
    LET s == old.snapshot
        contents == Contents(InferredEvents(old))
    IN s = [schema |-> old.version, id |-> s.id, events |-> s.events,
            revisions |-> [r \in DOMAIN contents |->
                              [content |-> contents[r],
                               spec |-> IF old.version = 1 THEN Absent ELSE SpecHash(contents[r])]],
            forest |-> IF old.version < 4 THEN Absent ELSE s.forest,
            stores |-> [f \in Later |-> IF f <= old.version THEN s.stores[f] ELSE Absent]]

WrittenEvents(old) ==
    LET events == old.snapshot.events
    IN /\ IsList(events)
       /\ \A i \in DOMAIN events :
             LET e == InferredEvents(old)[i]
             IN /\ e.semantics \in {Legacy, Core} /\ e.hash = Contents(InferredEvents(old))[i + 1]
                /\ events[i] = [op |-> e.op, hash |-> e.hash,
                                semantics |-> IF old.version < 3 THEN Absent ELSE e.semantics]

WrittenForest(old) ==
    old.version >= 4 =>
        /\ IsList(old.snapshot.forest)
        /\ \A c \in DOMAIN old.snapshot.forest : WrittenCandidate(old.snapshot.forest[c], old.version)

WrittenEarlier(old) ==
    WrittenHeader(old) /\ WrittenFields(old) /\ WrittenEvents(old) /\ WrittenForest(old)

ASSUME OldArchivesAssumption == \A old \in OldArchives : WrittenEarlier(old)
ASSUME CodecsAssumption == Codecs \subseteq 1 .. 3

VARIABLES
    files,      \* of each name in the directory, its data and whether they are synced
    older,      \* of each path, what a loss of power may bring back
    procs,      \* the running processes, by process id
    published,  \* every archive that was ever put at a path
    faults      \* so far

vars == <<files, older, procs, published, faults>>

Exists(name) == name \in DOMAIN files
Without(f, name) == [n \in DOMAIN f \ {name} |-> f[n]]
With(f, name, x) == [n \in DOMAIN f \cup {name} |-> IF n = name THEN x ELSE f[n]]

Idle(pid) == pid \in DOMAIN procs /\ procs[pid].job = None
At(pid, stage) == pid \in DOMAIN procs /\ procs[pid].job # None /\ procs[pid].job.stage = stage
Running(pid) == procs[pid].job
OpenIn(pid) == DOMAIN procs[pid].open

Init ==
    /\ \E path \in Paths, old \in OldArchives :
          /\ files = [p \in {path} |-> [data |-> old, synced |-> TRUE]]
          /\ published = [p \in Paths |-> IF p = path THEN {old} ELSE {}]
    /\ older = [p \in Paths |-> {}]
    /\ procs = [p \in {} |-> None]
    /\ faults = 0

---------------------------------------------------------------------------
Put(pid, w) ==
    /\ procs' = [procs EXCEPT ![pid].open = With(@, w.id, w)]
    /\ UNCHANGED <<files, older, published, faults>>

StartProcess ==
    /\ \E pid \in Pids \ DOMAIN procs :
          procs' = With(procs, pid, [open |-> [w \in {} |-> None], next |-> 0, seq |-> 0, job |-> None])
    /\ UNCHANGED <<files, older, published, faults>>

\* Without a name the counter moves on even if its identity is taken.
WorkspaceOpen ==
    \E pid \in DOMAIN procs :
        /\ Idle(pid) /\ procs[pid].next < MaxOpened
        /\ LET id == procs[pid].next + 1
               open == IF id \in OpenIn(pid) THEN procs[pid].open
                       ELSE With(procs[pid].open, id, NewWorkspace(id))
           IN procs' = [procs EXCEPT ![pid].next = id, ![pid].open = open]
        /\ UNCHANGED <<files, older, published, faults>>

Edit ==
    \E pid \in DOMAIN procs : \E id \in OpenIn(pid) :
        LET w == procs[pid].open[id]
        IN /\ Idle(pid)
           /\ \/ /\ ~Frozen(HeadContent(w)) /\ Len(w.events) < MaxEvents
                 /\ \E op \in Ops : Put(pid, Applied(w, op))
              \/ /\ Frozen(HeadContent(w)) /\ Len(w.forest) < MaxCandidates
                 /\ \E codec \in Codecs : Put(pid, WithCandidate(w, codec))

WorkspaceLoad ==
    \E pid \in DOMAIN procs, path \in Paths, replace \in BOOLEAN :
        /\ Idle(pid) /\ Exists(path)
        /\ \E w \in Loaded(files[path].data) :
              /\ w.id \notin OpenIn(pid) \/ replace
              /\ Put(pid, w)

---------------------------------------------------------------------------
Job(stage, path, data, overwrite) ==
    [stage |-> stage, path |-> path, data |-> data, overwrite |-> overwrite, temp |-> None]

WithJob(pid, job) ==
    /\ procs' = [procs EXCEPT ![pid].job = job]
    /\ UNCHANGED <<older, published, faults>>

WorkspaceSave ==
    \E pid \in DOMAIN procs : \E id \in OpenIn(pid), path \in Paths :
        /\ Idle(pid) /\ procs[pid].seq < MaxTemps
        /\ WithJob(pid, Job("create", path, Archived(procs[pid].open[id]), TRUE))
        /\ UNCHANGED files

\* The source is read and verified first, then the destination is looked at.
WorkspaceMigrate ==
    \E pid \in DOMAIN procs, source \in Paths, destination \in Paths, overwrite \in BOOLEAN :
        /\ Idle(pid) /\ procs[pid].seq < MaxTemps /\ Exists(source)
        /\ \E w \in Loaded(files[source].data) :
              WithJob(pid, Job("look", destination, Archived(w), overwrite))
        /\ UNCHANGED files

Look ==
    \E pid \in Pids :
        /\ At(pid, "look")
        /\ LET job == Running(pid)
           IN WithJob(pid, IF Exists(job.path) /\ ~job.overwrite THEN None
                           ELSE [job EXCEPT !.stage = "create", !.overwrite = TRUE])
        /\ UNCHANGED files

\* create_new refuses a name that is there; the error path then removes the file of that name.
CreateTemp ==
    \E pid \in Pids :
        /\ At(pid, "create")
        /\ LET job == Running(pid)
               temp == TempName(job.path, pid, procs[pid].seq)
           IN /\ procs' = [procs EXCEPT ![pid].seq = @ + 1,
                              ![pid].job = IF Exists(temp) THEN None
                                           ELSE [job EXCEPT !.stage = "write", !.temp = temp]]
              /\ files' = IF Exists(temp) THEN Without(files, temp)
                          ELSE With(files, temp, [data |-> Torn, synced |-> FALSE])
        /\ UNCHANGED <<older, published, faults>>

X_WriteTemp_SkipsSync ==
    \E pid \in Pids :
        /\ At(pid, "write")
        /\ LET job == Running(pid)
           IN /\ WithJob(pid, [job EXCEPT !.stage = "rename"])
              /\ files' = With(files, job.temp, [data |-> job.data, synced |-> FALSE])

WriteTemp ==
    \E pid \in Pids :
        /\ At(pid, "write")
        /\ LET job == Running(pid)
           IN /\ WithJob(pid, [job EXCEPT !.stage = "sync"])
              /\ files' = With(files, job.temp, [data |-> job.data, synced |-> FALSE])

SyncTemp ==
    \E pid \in Pids :
        /\ At(pid, "sync")
        /\ LET job == Running(pid)
           IN /\ WithJob(pid, [job EXCEPT !.stage = "rename"])
              /\ files' = [files EXCEPT ![job.temp].synced = TRUE]

\* The file a path has, if any.
Former(path) == IF Exists(path) THEN {files[path]} ELSE {}

Rename ==
    \E pid \in Pids :
        /\ At(pid, "rename")
        /\ LET job == Running(pid)
           IN /\ files' = Without(With(files, job.path, files[job.temp]), job.temp)
              /\ older' = [older EXCEPT ![job.path] = @ \cup {Former(job.path)}]
              /\ published' = [published EXCEPT ![job.path] = @ \cup {job.data}]
              /\ procs' = [procs EXCEPT ![pid].job = None]
        /\ UNCHANGED faults

---------------------------------------------------------------------------
Fault == faults < MaxFaults /\ faults' = faults + 1

\* Any call of a save may fail; the temporary file is removed.
CallFails ==
    \E pid \in Pids :
        /\ Fault
        /\ \E stage \in {"write", "sync", "rename"} : At(pid, stage)
        /\ files' = Without(files, Running(pid).temp)
        /\ procs' = [procs EXCEPT ![pid].job = None]
        /\ UNCHANGED <<older, published>>

\* Its temporary file stays, whole or in part; its process id may be given to another.
ProcessDies ==
    \E pid \in DOMAIN procs :
        /\ Fault
        /\ procs' = Without(procs, pid)
        /\ UNCHANGED <<files, older, published>>

AfterLoss(file, torn) == IF file.synced \/ ~torn THEN [file EXCEPT !.synced = TRUE]
                         ELSE [data |-> Torn, synced |-> TRUE]

PowerLoss ==
    /\ Fault
    /\ \E torn \in BOOLEAN :
          \E kept \in [Paths -> UNION {older[p] : p \in Paths} \cup {Former(p) : p \in Paths}] :
              /\ \A p \in Paths : kept[p] \in older[p] \cup {Former(p)}
              /\ files' = [n \in {p \in Paths : kept[p] # {}} \cup (DOMAIN files \ Paths) |->
                              AfterLoss(IF n \in Paths THEN CHOOSE f \in kept[n] : TRUE ELSE files[n],
                                        torn)]
    /\ procs' = [p \in {} |-> None]
    /\ older' = [p \in Paths |-> {}]
    /\ UNCHANGED published

Next ==
    \/ StartProcess \/ WorkspaceOpen \/ Edit \/ WorkspaceLoad
    \/ WorkspaceSave \/ WorkspaceMigrate \/ Look \/ CreateTemp \/ WriteTemp \/ SyncTemp \/ Rename
    \/ CallFails \/ ProcessDies \/ PowerLoss

Spec == Init /\ [][Next]_vars

---------------------------------------------------------------------------
AtPaths == {files[p].data : p \in Paths \cap DOMAIN files}

(***************************************************************************)
(* Whatever died, failed or lost power and whoever else was saving: what   *)
(* is at a path is one of the archives put there, whole, and a path that   *)
(* had an archive before anybody saved to it has one still                 *)
(* (docs/persistence.md, "leaves the prior destination untouched").        *)
(***************************************************************************)
PathsHoldSaves ==
    /\ \A p \in Paths \cap DOMAIN files : files[p].data \in published[p]
    /\ \A p \in Paths : published[p] \cap OldArchives # {} => Exists(p)

(***************************************************************************)
(* Every open workspace, whichever formats and semantics its events came   *)
(* from, could be saved and loaded back unchanged, and every archive at a  *)
(* path can be loaded.                                                     *)
(***************************************************************************)
SavedIsLoaded ==
    /\ \A pid \in DOMAIN procs : \A id \in OpenIn(pid) :
          Loaded(Archived(procs[pid].open[id])) = {procs[pid].open[id]}
    /\ \A file \in AtPaths : Loaded(file) # {}

(***************************************************************************)
(* Migrating an archive one format at a time (lib.rs:1366-1690) gives the  *)
(* workspace that loading it directly gives: the two paths apply different *)
(* code to formats 1 and 2.                                                *)
(***************************************************************************)
MigrationsAgree ==
    \A file \in AtPaths \cap OldArchives :
        UNION {Loaded(f) : f \in StepByStep(file)} = Loaded(file)
=============================================================================
