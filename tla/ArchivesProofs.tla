--------------------------- MODULE ArchivesProofs ---------------------------
(***************************************************************************)
(* Theorems about Archives for every set of paths, processes, operations   *)
(* and old archives and every bound.  PathsHoldSaves, whatever dies, fails *)
(* or loses power between any two steps of any number of saves; then       *)
(* SavedIsLoaded and MigrationsAgree, whatever is opened, extended, saved  *)
(* and migrated.                                                           *)
(*                                                                         *)
(* PathsHoldSaves is not inductive: a rename puts at a path what its       *)
(* process thinks it wrote, so the temporary file must still be there,     *)
(* whole and synced, at that step (SoundJob), and what a loss of power may *)
(* bring back must have been published once and synced then (SoundPath).   *)
(* Neither is SavedIsLoaded: that a workspace loads back says nothing of   *)
(* it with one event more, whereas to be one that its events replay to     *)
(* (Good) is kept by every call.                                           *)
(***************************************************************************)
EXTENDS Archives, SequenceTheorems, TLAPS

HasTemp == {"write", "sync", "rename"}

IsFile(f) == f = [data |-> f.data, synced |-> f.synced]
IsProcess(p) == p = [open |-> p.open, next |-> p.next, seq |-> p.seq, job |-> p.job]
IsJob(j) == j = [stage |-> j.stage, path |-> j.path, data |-> j.data,
                 overwrite |-> j.overwrite, temp |-> j.temp]

Shapes ==
    /\ \A name \in DOMAIN files : IsFile(files[name])
    /\ DOMAIN files \subseteq Paths \cup Temps
    /\ DOMAIN older = Paths /\ DOMAIN published = Paths
    /\ DOMAIN procs \subseteq Pids
    /\ \A pid \in DOMAIN procs : IsProcess(procs[pid]) /\ procs[pid].seq \in Nat

\* A temporary name belongs to the process with its process id.
TempOf(pid, name) == name \in Temps /\ name[2] = pid

\* What a save did so far is on the disk under its temporary name.
SoundJob(pid, job, fs) ==
    /\ IsJob(job)
    /\ job.path \in Paths /\ job.data.version = Newest
    /\ job.stage \in HasTemp => TempOf(pid, job.temp) /\ job.temp \in DOMAIN fs
    /\ job.stage \in {"sync", "rename"} => fs[job.temp].data = job.data
    /\ job.stage = "rename" => fs[job.temp].synced

SoundProcess(pid, p, fs) ==
    p.job # None =>
        /\ SoundJob(pid, p.job, fs)
        /\ p.job.stage \in {"look", "create"} => p.seq < MaxTemps

\* One file at most, of an archive published at the path, and on the disk.
Published(option, archives) ==
    option # {} => \E f \in option : /\ option = {f} /\ IsFile(f)
                                     /\ f.synced /\ f.data \in archives

SoundPath(path) ==
    /\ Published(Former(path), published[path])
    /\ \A option \in older[path] : Published(option, published[path])
    /\ published[path] \cap OldArchives # {} => Exists(path) /\ {} \notin older[path]

IInv ==
    /\ Shapes
    /\ \A pid \in DOMAIN procs : SoundProcess(pid, procs[pid], files)
    /\ \A path \in Paths : SoundPath(path)

---------------------------------------------------------------------------
\* A map with one entry more, and with one entry less.
LEMMA WithFacts ==
    ASSUME NEW f, NEW name, NEW x
    PROVE  /\ DOMAIN With(f, name, x) = DOMAIN f \cup {name} /\ With(f, name, x)[name] = x
           /\ \A n \in DOMAIN f : n # name => With(f, name, x)[n] = f[n]
  BY DEF With

LEMMA WithoutFacts ==
    ASSUME NEW f, NEW name
    PROVE  /\ DOMAIN Without(f, name) = DOMAIN f \ {name}
           /\ \A n \in DOMAIN f : n # name => Without(f, name)[n] = f[n]
  BY DEF Without

\* A path is no temporary name, and a temporary name is of one process.
LEMMA NamesDiffer ==
    /\ \A pid, name : TempOf(pid, name) => name \notin Paths
    /\ \A pid, other, name : TempOf(pid, name) /\ TempOf(other, name) => pid = other
  BY NamesAssumption DEF TempOf

\* A step of one process that touches no files but its own temporary ones.
LEMMA OneProcess ==
    ASSUME IInv, UNCHANGED <<older, published>>,
           NEW pid \in DOMAIN procs, NEW p, procs' = [procs EXCEPT ![pid] = p],
           IsProcess(p), p.seq \in Nat, SoundProcess(pid, p, files'),
           DOMAIN files' \subseteq Paths \cup Temps,
           \A name \in DOMAIN files' : IsFile(files'[name]),
           \A name : ~TempOf(pid, name) =>
               /\ name \in DOMAIN files' <=> name \in DOMAIN files
               /\ name \in DOMAIN files => files'[name] = files[name]
    PROVE  IInv'
<1>1. /\ DOMAIN procs' = DOMAIN procs /\ procs'[pid] = p
      /\ \A q \in DOMAIN procs : q # pid => procs'[q] = procs[q]
  OBVIOUS
<1>2. Shapes'
  BY <1>1 DEF IInv, Shapes
<1>3. ASSUME NEW q \in DOMAIN procs' PROVE SoundProcess(q, procs'[q], files')
  <2>1. CASE q = pid
    BY <1>1, <2>1
  <2>2. CASE q # pid
    <3>1. procs'[q] = procs[q] /\ SoundProcess(q, procs[q], files)
      BY <1>1, <2>2 DEF IInv
    <3>2. \A name : TempOf(q, name) => ~TempOf(pid, name)
      BY <2>2, NamesDiffer
    <3> QED
      BY <3>1, <3>2 DEF SoundProcess, SoundJob, HasTemp
  <2> QED
    BY <2>1, <2>2
<1>4. ASSUME NEW path \in Paths PROVE SoundPath(path)'
  <2>1. Former(path)' = Former(path) /\ Exists(path)' = Exists(path)
    BY NamesDiffer DEF Former, Exists
  <2> QED
    BY <2>1 DEF IInv, SoundPath
<1> QED
  BY <1>2, <1>3, <1>4 DEF IInv

\* A step of one process that touches no file.
LEMMA OneProcessAlone ==
    ASSUME IInv, UNCHANGED <<files, older, published>>,
           NEW pid \in DOMAIN procs, NEW p, procs' = [procs EXCEPT ![pid] = p],
           IsProcess(p), p.seq \in Nat, SoundProcess(pid, p, files)
    PROVE  IInv'
  BY OneProcess DEF IInv, Shapes

\* A process with another job.
LEMMA JobFacts ==
    ASSUME IInv, NEW pid \in DOMAIN procs, NEW job
    PROVE  LET p == [procs[pid] EXCEPT !.job = job]
           IN  /\ IsProcess(p) /\ p.job = job /\ p.seq = procs[pid].seq /\ p.seq \in Nat
<1> DEFINE q == procs[pid]
           p == [q EXCEPT !.job = job]
<1>1. IsProcess(q) /\ q.seq \in Nat
  BY DEF IInv, Shapes
<1> HIDE DEF q
<1>2. IsProcess(p) /\ p.job = job /\ p.seq = q.seq
  BY <1>1 DEF IsProcess
<1> QED
  BY <1>1, <1>2 DEF q
---------------------------------------------------------------------------
\* A process whose open workspaces or counter change keeps its job.
LEMMA KeepsJob ==
    ASSUME IInv, UNCHANGED <<files, older, published>>,
           NEW pid \in DOMAIN procs, NEW p, procs' = [procs EXCEPT ![pid] = p],
           IsProcess(p), p.job = procs[pid].job, p.seq = procs[pid].seq
    PROVE  IInv'
<1>1. procs[pid].seq \in Nat /\ SoundProcess(pid, procs[pid], files)
  BY DEF IInv, Shapes
<1>2. SoundProcess(pid, p, files)
  BY <1>1 DEF SoundProcess
<1> QED
  BY <1>1, <1>2, OneProcessAlone

\* A process that takes up, gives up or goes on with a job.
LEMMA SetsJob ==
    ASSUME IInv, UNCHANGED <<files, older, published>>,
           NEW pid \in DOMAIN procs, NEW job, procs' = [procs EXCEPT ![pid].job = job],
           job # None => /\ SoundJob(pid, job, files)
                         /\ job.stage \in {"look", "create"} => procs[pid].seq < MaxTemps
    PROVE  IInv'
<1> DEFINE p == [procs[pid] EXCEPT !.job = job]
<1>1. /\ IsProcess(p) /\ p.job = job /\ p.seq = procs[pid].seq /\ p.seq \in Nat
  BY JobFacts
<1>2. procs' = [procs EXCEPT ![pid] = p]
  OBVIOUS
<1> HIDE DEF p
<1>3. SoundProcess(pid, p, files)
  BY <1>1 DEF SoundProcess
<1> QED
  BY <1>1, <1>2, <1>3, OneProcessAlone
---------------------------------------------------------------------------
LEMMA StartKeeps == ASSUME IInv, StartProcess PROVE IInv'
<1> DEFINE p == [open |-> [w \in {} |-> None], next |-> 0, seq |-> 0, job |-> None]
<1>1. PICK pid \in Pids \ DOMAIN procs : procs' = With(procs, pid, p)
  BY DEF StartProcess
<1>2. UNCHANGED <<files, older, published>>
  BY DEF StartProcess
<1>3. IsProcess(p) /\ p.seq \in Nat /\ p.job = None
  BY DEF IsProcess
<1> HIDE DEF p
<1>4. /\ DOMAIN procs' = DOMAIN procs \cup {pid} /\ procs'[pid] = p
      /\ \A q \in DOMAIN procs : procs'[q] = procs[q]
  BY <1>1 DEF With
<1>5. Shapes'
  BY <1>2, <1>3, <1>4 DEF IInv, Shapes
<1>6. \A q \in DOMAIN procs' : SoundProcess(q, procs'[q], files')
  BY <1>2, <1>3, <1>4 DEF IInv, SoundProcess
<1>7. \A path \in Paths : SoundPath(path)'
  BY <1>2 DEF IInv, SoundPath, Former, Exists
<1> QED
  BY <1>5, <1>6, <1>7 DEF IInv

LEMMA OpenKeeps == ASSUME IInv, WorkspaceOpen PROVE IInv'
<1>1. PICK pid \in DOMAIN procs :
         \E next, open : procs' = [procs EXCEPT ![pid].next = next, ![pid].open = open]
  BY DEF WorkspaceOpen
<1>2. PICK next, open : procs' = [procs EXCEPT ![pid].next = next, ![pid].open = open]
  BY <1>1
<1> DEFINE q == procs[pid]
           m == [q EXCEPT !.next = next]
           p == [m EXCEPT !.open = open]
<1>3. procs' = [procs EXCEPT ![pid] = p]
  BY <1>2
<1>4. IsProcess(q)
  BY DEF IInv, Shapes
<1> HIDE DEF q
<1>5. IsProcess(m) /\ m.job = q.job /\ m.seq = q.seq
  BY <1>4 DEF IsProcess
<1> HIDE DEF m
<1>6. IsProcess(p) /\ p.job = q.job /\ p.seq = q.seq
  BY <1>5 DEF IsProcess
<1>7. UNCHANGED <<files, older, published>>
  BY DEF WorkspaceOpen
<1> HIDE DEF p
<1> QED
  BY <1>3, <1>6, <1>7, KeepsJob DEF q

\* What a load or an edit puts into a process, under whatever name.
LEMMA PutKeeps == ASSUME IInv, NEW pid \in DOMAIN procs, NEW w, Put(pid, w) PROVE IInv'
<1> DEFINE q == procs[pid]
           p == [q EXCEPT !.open = With(@, w.id, w)]
<1>1. procs' = [procs EXCEPT ![pid] = p] /\ UNCHANGED <<files, older, published>>
  BY DEF Put
<1>2. IsProcess(q)
  BY DEF IInv, Shapes
<1> HIDE DEF q
<1>3. IsProcess(p) /\ p.job = q.job /\ p.seq = q.seq
  BY <1>2 DEF IsProcess
<1> HIDE DEF p
<1> QED
  BY <1>1, <1>3, KeepsJob DEF q

\* A save or a migration begins with an archive of the newest format.
LEMMA JobKeeps ==
    ASSUME IInv, NEW pid \in DOMAIN procs, Idle(pid), procs[pid].seq < MaxTemps,
           NEW stage \in {"look", "create"}, NEW path \in Paths, NEW w, NEW overwrite,
           WithJob(pid, Job(stage, path, Archived(w), overwrite)), files' = files
    PROVE  IInv'
<1> DEFINE job == Job(stage, path, Archived(w), overwrite)
<1>1. IsJob(job) /\ job.stage = stage /\ job.path = path /\ job.data.version = Newest
  BY DEF Job, IsJob, Archived
<1>2. SoundJob(pid, job, files)
  BY <1>1 DEF SoundJob, HasTemp
<1>3. procs' = [procs EXCEPT ![pid].job = job] /\ UNCHANGED <<files, older, published>>
  BY DEF WithJob
<1> HIDE DEF job
<1> QED
  BY <1>1, <1>2, <1>3, SetsJob

LEMMA LookKeeps == ASSUME IInv, Look PROVE IInv'
<1>1. PICK pid \in Pids :
         /\ At(pid, "look") /\ files' = files
         /\ LET job == Running(pid)
            IN WithJob(pid, IF Exists(job.path) /\ ~job.overwrite THEN None
                            ELSE [job EXCEPT !.stage = "create", !.overwrite = TRUE])
  BY DEF Look
<1>2. PICK yes : yes = TRUE
  OBVIOUS
<1> DEFINE job == procs[pid].job
           seen == [job EXCEPT !.stage = "create"]
           next == [seen EXCEPT !.overwrite = yes]
<1>3. /\ pid \in DOMAIN procs /\ job.stage = "look"
      /\ SoundJob(pid, job, files) /\ procs[pid].seq < MaxTemps
  BY <1>1 DEF At, IInv, SoundProcess
<1>4. /\ \/ procs' = [procs EXCEPT ![pid].job = None]
         \/ procs' = [procs EXCEPT ![pid].job = next]
      /\ UNCHANGED <<files, older, published>>
  BY <1>2, <1>1 DEF WithJob, Running
<1> HIDE DEF job
<1>5. IsJob(seen) /\ seen.stage = "create" /\ seen.path = job.path /\ seen.data = job.data
  BY <1>3 DEF SoundJob, IsJob
<1> HIDE DEF seen
<1>6. IsJob(next) /\ next.stage = "create" /\ next.path = job.path /\ next.data = job.data
  BY <1>5 DEF IsJob
<1> HIDE DEF next
<1>7. SoundJob(pid, next, files)
  BY <1>3, <1>6 DEF SoundJob, HasTemp
<1> QED
  BY <1>3, <1>4, <1>6, <1>7, SetsJob

\* The temporary file goes to the disk in three steps, of its process alone.
LEMMA CreateKeeps == ASSUME IInv, CreateTemp PROVE IInv'
<1>1. PICK pid \in Pids :
         /\ At(pid, "create")
         /\ LET job == Running(pid)
                temp == TempName(job.path, pid, procs[pid].seq)
            IN /\ procs' = [procs EXCEPT ![pid].seq = @ + 1,
                               ![pid].job = IF Exists(temp) THEN None
                                            ELSE [job EXCEPT !.stage = "write", !.temp = temp]]
               /\ files' = IF Exists(temp) THEN Without(files, temp)
                           ELSE With(files, temp, [data |-> Torn, synced |-> FALSE])
  BY DEF CreateTemp
<1> DEFINE q == procs[pid]
           job == q.job
           temp == TempName(job.path, pid, q.seq)
           staged == [job EXCEPT !.stage = "write"]
           named == [staged EXCEPT !.temp = temp]
           next == IF Exists(temp) THEN None ELSE named
           m == [q EXCEPT !.seq = q.seq + 1]
           p == [m EXCEPT !.job = next]
           torn == [data |-> Torn, synced |-> FALSE]
<1>2. /\ pid \in DOMAIN procs /\ job # None /\ job.stage = "create"
      /\ SoundJob(pid, job, files) /\ q.seq < MaxTemps /\ IsProcess(q) /\ q.seq \in Nat
  BY <1>1 DEF At, IInv, SoundProcess, Shapes
<1>3. /\ procs' = [procs EXCEPT ![pid] = p]
      /\ files' = IF Exists(temp) THEN Without(files, temp) ELSE With(files, temp, torn)
      /\ UNCHANGED <<older, published>>
  BY <1>1 DEF Running, CreateTemp
<1>4. TempOf(pid, temp)
  BY <1>2, NamesAssumption DEF TempOf, Temps, TempName, SoundJob
<1>5. IsFile(torn)
  BY DEF IsFile
<1> HIDE DEF temp, torn
<1>6. IsJob(staged) /\ staged.stage = "write" /\ staged.path = job.path /\ staged.data = job.data
  BY <1>2 DEF SoundJob, IsJob
<1> HIDE DEF staged
<1>7. /\ IsJob(named) /\ named.stage = "write" /\ named.temp = temp
      /\ named.path = job.path /\ named.data = job.data
  BY <1>6 DEF IsJob
<1> HIDE DEF named, job
<1>8. IsProcess(m) /\ m.seq = q.seq + 1
  BY <1>2 DEF IsProcess
<1> HIDE DEF m, next
<1>9. IsProcess(p) /\ p.seq = q.seq + 1 /\ p.job = next
  BY <1>8 DEF IsProcess
<1> HIDE DEF p
<1>10. /\ DOMAIN files' \subseteq DOMAIN files \cup {temp}
       /\ \A name \in DOMAIN files' :
             (name \in DOMAIN files /\ files'[name] = files[name]) \/ files'[name] = torn
       /\ \A name : name # temp =>
             /\ name \in DOMAIN files' <=> name \in DOMAIN files
             /\ name \in DOMAIN files => files'[name] = files[name]
       /\ ~Exists(temp) => temp \in DOMAIN files'
  BY <1>3 DEF With, Without, Exists
<1>11. SoundProcess(pid, p, files')
  <2>1. CASE Exists(temp)
    BY <1>9, <2>1 DEF SoundProcess, next
  <2>2. CASE ~Exists(temp)
    BY <1>2, <1>4, <1>7, <1>9, <1>10, <2>2 DEF SoundProcess, SoundJob, HasTemp, next
  <2> QED
    BY <2>1, <2>2
<1>12. /\ DOMAIN files' \subseteq Paths \cup Temps
       /\ \A name \in DOMAIN files' : IsFile(files'[name])
  BY <1>4, <1>5, <1>10 DEF IInv, Shapes, TempOf, Exists
<1>13. p.seq \in Nat
  BY <1>2, <1>9
<1> QED
  BY <1>2, <1>3, <1>4, <1>9, <1>10, <1>11, <1>12, <1>13, OneProcess

\* A process that goes on with its job, or gives it up, and changes its temporary file.
LEMMA TempStep ==
    ASSUME IInv, UNCHANGED <<older, published>>,
           NEW pid \in DOMAIN procs, NEW job, procs' = [procs EXCEPT ![pid].job = job],
           job # None => SoundJob(pid, job, files') /\ job.stage \in HasTemp,
           NEW temp, TempOf(pid, temp),
           DOMAIN files' \subseteq DOMAIN files \cup {temp},
           temp \in DOMAIN files' => IsFile(files'[temp]),
           \A name \in DOMAIN files : name # temp =>
               name \in DOMAIN files' /\ files'[name] = files[name]
    PROVE  IInv'
<1> DEFINE p == [procs[pid] EXCEPT !.job = job]
<1>1. /\ IsProcess(p) /\ p.job = job /\ p.seq = procs[pid].seq /\ p.seq \in Nat
  BY JobFacts
<1>2. procs' = [procs EXCEPT ![pid] = p]
  OBVIOUS
<1> HIDE DEF p
<1>3. SoundProcess(pid, p, files')
  BY <1>1 DEF SoundProcess, HasTemp
<1>4. /\ DOMAIN files' \subseteq Paths \cup Temps
      /\ \A name \in DOMAIN files' : IsFile(files'[name])
  BY DEF IInv, Shapes, TempOf
<1>5. \A name : ~TempOf(pid, name) =>
          /\ name \in DOMAIN files' <=> name \in DOMAIN files
          /\ name \in DOMAIN files => files'[name] = files[name]
  OBVIOUS
<1> QED
  BY <1>1, <1>2, <1>3, <1>4, <1>5, OneProcess

\* What a running save has.
LEMMA HasJob ==
    ASSUME IInv, NEW pid, NEW stage \in HasTemp, At(pid, stage)
    PROVE  /\ pid \in DOMAIN procs /\ Running(pid) # None /\ Running(pid).stage = stage
           /\ SoundJob(pid, Running(pid), files) /\ TempOf(pid, Running(pid).temp)
           /\ Running(pid).temp \in DOMAIN files /\ IsFile(files[Running(pid).temp])
  BY DEF IInv, Shapes, SoundProcess, SoundJob, At, Running

LEMMA WriteKeeps == ASSUME IInv, WriteTemp PROVE IInv'
<1>1. PICK pid \in Pids :
         /\ At(pid, "write")
         /\ WithJob(pid, [Running(pid) EXCEPT !.stage = "sync"])
         /\ files' = With(files, Running(pid).temp, [data |-> Running(pid).data, synced |-> FALSE])
  BY DEF WriteTemp
<1> DEFINE job == Running(pid)
           next == [job EXCEPT !.stage = "sync"]
           file == [data |-> job.data, synced |-> FALSE]
<1>2. /\ pid \in DOMAIN procs /\ SoundJob(pid, job, files) /\ TempOf(pid, job.temp)
  BY <1>1, HasJob DEF HasTemp
<1>3. /\ procs' = [procs EXCEPT ![pid].job = next] /\ UNCHANGED <<older, published>>
      /\ files' = With(files, job.temp, file)
  BY <1>1 DEF WithJob
<1>4. IsFile(file) /\ file.data = job.data
  BY DEF IsFile
<1> HIDE DEF job, file
<1>5. /\ IsJob(next) /\ next.stage = "sync" /\ next.temp = job.temp
      /\ next.path = job.path /\ next.data = job.data
  BY <1>2 DEF SoundJob, IsJob
<1> HIDE DEF next
<1>6. /\ DOMAIN files' = DOMAIN files \cup {job.temp} /\ files'[job.temp] = file
      /\ \A name \in DOMAIN files : name # job.temp => files'[name] = files[name]
  BY <1>3 DEF With
<1>7. SoundJob(pid, next, files') /\ next.stage \in HasTemp
  BY <1>2, <1>4, <1>5, <1>6 DEF SoundJob, HasTemp
<1> QED
  BY <1>2, <1>3, <1>4, <1>6, <1>7, TempStep

LEMMA SyncKeeps == ASSUME IInv, SyncTemp PROVE IInv'
<1>1. PICK pid \in Pids :
         /\ At(pid, "sync")
         /\ WithJob(pid, [Running(pid) EXCEPT !.stage = "rename"])
         /\ files' = [files EXCEPT ![Running(pid).temp].synced = TRUE]
  BY DEF SyncTemp
<1>2. PICK yes : yes = TRUE
  OBVIOUS
<1> DEFINE job == Running(pid)
           next == [job EXCEPT !.stage = "rename"]
           former == files[job.temp]
           file == [former EXCEPT !.synced = yes]
<1>3. /\ pid \in DOMAIN procs /\ job.stage = "sync" /\ SoundJob(pid, job, files)
      /\ TempOf(pid, job.temp) /\ job.temp \in DOMAIN files /\ IsFile(former)
  BY <1>1, HasJob DEF HasTemp
<1>4. /\ procs' = [procs EXCEPT ![pid].job = next] /\ UNCHANGED <<older, published>>
      /\ files' = [files EXCEPT ![job.temp] = file]
  BY <1>2, <1>1 DEF WithJob
<1>5. former.data = job.data
  BY <1>3 DEF SoundJob
<1> HIDE DEF former
<1>6. IsFile(file) /\ file.data = former.data /\ file.synced = yes
  BY <1>3 DEF IsFile
<1> HIDE DEF job, file
<1>7. /\ IsJob(next) /\ next.stage = "rename" /\ next.temp = job.temp
      /\ next.path = job.path /\ next.data = job.data
  BY <1>3 DEF SoundJob, IsJob
<1> HIDE DEF next
<1>8. /\ DOMAIN files' = DOMAIN files /\ files'[job.temp] = file
      /\ \A name \in DOMAIN files : name # job.temp => files'[name] = files[name]
  BY <1>3, <1>4
<1>9. SoundJob(pid, next, files') /\ next.stage \in HasTemp
  BY <1>2, <1>3, <1>5, <1>6, <1>7, <1>8 DEF SoundJob, HasTemp
<1> QED
  BY <1>3, <1>4, <1>6, <1>8, <1>9, TempStep

LEMMA FailKeeps == ASSUME IInv, CallFails PROVE IInv'
<1>1. PICK pid \in Pids :
         /\ \E stage \in HasTemp : At(pid, stage)
         /\ files' = Without(files, Running(pid).temp)
         /\ procs' = [procs EXCEPT ![pid].job = None]
  BY DEF CallFails, HasTemp
<1>2. pid \in DOMAIN procs /\ TempOf(pid, Running(pid).temp)
  BY <1>1, HasJob
<1>3. /\ DOMAIN files' = DOMAIN files \ {Running(pid).temp}
      /\ \A name \in DOMAIN files : name # Running(pid).temp => files'[name] = files[name]
  BY <1>1 DEF Without
<1>4. UNCHANGED <<older, published>>
  BY DEF CallFails
<1> QED
  BY <1>1, <1>2, <1>3, <1>4, TempStep
---------------------------------------------------------------------------
\* An archive of an earlier build is not of the newest format.
LEMMA EarlierVersion == \A old \in OldArchives : old.version \in 1 .. 10 /\ old.version # Newest
  BY OldArchivesAssumption DEF WrittenEarlier, WrittenHeader, Newest

LEMMA RenameKeeps == ASSUME IInv, Rename PROVE IInv'
<1>1. PICK pid \in Pids :
         /\ At(pid, "rename")
         /\ files' = Without(With(files, Running(pid).path, files[Running(pid).temp]),
                             Running(pid).temp)
         /\ older' = [older EXCEPT ![Running(pid).path] = @ \cup {Former(Running(pid).path)}]
         /\ published' = [published EXCEPT ![Running(pid).path] = @ \cup {Running(pid).data}]
         /\ procs' = [procs EXCEPT ![pid].job = None]
  BY DEF Rename
<1> DEFINE job == Running(pid)
           file == files[job.temp]
           p == [procs[pid] EXCEPT !.job = None]
<1>2. /\ pid \in DOMAIN procs /\ job.stage = "rename" /\ SoundJob(pid, job, files)
      /\ TempOf(pid, job.temp) /\ job.temp \in DOMAIN files /\ IsFile(file)
  BY <1>1, HasJob DEF HasTemp
<1>3. /\ job.path \in Paths /\ file.data = job.data /\ file.synced /\ job.temp \notin Paths
      /\ job.data \notin OldArchives
  BY <1>2, NamesDiffer, EarlierVersion DEF SoundJob
<1>4. IsProcess(p) /\ p.job = None /\ p.seq \in Nat /\ procs' = [procs EXCEPT ![pid] = p]
  BY <1>1, <1>2, JobFacts
<1>5. /\ files' = Without(With(files, job.path, file), job.temp)
      /\ older' = [older EXCEPT ![job.path] = @ \cup {Former(job.path)}]
      /\ published' = [published EXCEPT ![job.path] = @ \cup {job.data}]
  BY <1>1
<1> HIDE DEF job, file, p
<1>6. /\ DOMAIN files' = (DOMAIN files \cup {job.path}) \ {job.temp}
      /\ files'[job.path] = file
      /\ \A name \in DOMAIN files : name # job.path /\ name # job.temp => files'[name] = files[name]
  BY <1>3, <1>5 DEF With, Without
<1>7. Shapes'
  BY <1>2, <1>3, <1>4, <1>5, <1>6 DEF IInv, Shapes
<1>8. ASSUME NEW q \in DOMAIN procs' PROVE SoundProcess(q, procs'[q], files')
  <2>1. CASE q = pid
    BY <1>2, <1>4, <2>1 DEF SoundProcess
  <2>2. CASE q # pid
    <3>1. q \in DOMAIN procs /\ procs'[q] = procs[q] /\ SoundProcess(q, procs[q], files)
      BY <1>4, <2>2 DEF IInv
    <3>2. \A name \in DOMAIN files :
              TempOf(q, name) => name \in DOMAIN files' /\ files'[name] = files[name]
      BY <1>2, <1>3, <1>6, <2>2, NamesDiffer
    <3> QED
      BY <3>1, <3>2 DEF SoundProcess, SoundJob, HasTemp
  <2> QED
    BY <2>1, <2>2
<1>9. ASSUME NEW path \in Paths PROVE SoundPath(path)'
  <2>1. SoundPath(path) /\ DOMAIN older = Paths /\ DOMAIN published = Paths
    BY DEF IInv, Shapes
  <2>2. CASE path = job.path
    <3>1. /\ Former(path)' = {file} /\ Exists(path)'
          /\ older'[path] = older[path] \cup {Former(path)}
          /\ published'[path] = published[path] \cup {job.data}
      BY <1>3, <1>5, <1>6, <2>1, <2>2 DEF Former, Exists
    <3>2. Published({file}, published'[path])
      BY <1>2, <1>3, <3>1 DEF Published
    <3>3. \A option \in older'[path] : Published(option, published'[path])
      BY <2>1, <3>1 DEF SoundPath, Published
    <3>4. published'[path] \cap OldArchives # {} => {} \notin older'[path]
      BY <1>3, <2>1, <3>1 DEF SoundPath, Former, Exists
    <3> QED
      BY <3>1, <3>2, <3>3, <3>4 DEF SoundPath
  <2>3. CASE path # job.path
    <3>1. /\ path \in DOMAIN files' <=> path \in DOMAIN files
          /\ path \in DOMAIN files => files'[path] = files[path]
          /\ older'[path] = older[path] /\ published'[path] = published[path]
      BY <1>3, <1>5, <1>6, <2>1, <2>3
    <3> QED
      BY <2>1, <3>1 DEF SoundPath, Former, Exists
  <2> QED
    BY <2>2, <2>3
<1> QED
  BY <1>7, <1>8, <1>9 DEF IInv

LEMMA DeathKeeps == ASSUME IInv, ProcessDies PROVE IInv'
<1>1. PICK pid \in DOMAIN procs : procs' = Without(procs, pid)
  BY DEF ProcessDies
<1>2. UNCHANGED <<files, older, published>>
  BY DEF ProcessDies
<1>3. DOMAIN procs' \subseteq DOMAIN procs /\ \A q \in DOMAIN procs' : procs'[q] = procs[q]
  BY <1>1 DEF Without
<1>4. \A path \in Paths : SoundPath(path)'
  BY <1>2 DEF IInv, SoundPath, Former, Exists
<1> QED
  BY <1>2, <1>3, <1>4 DEF IInv, Shapes

\* A file that was synced survives a loss of power; a torn one is a file still.
LEMMA LossFacts ==
    ASSUME NEW file, IsFile(file), NEW torn \in BOOLEAN
    PROVE  /\ IsFile(AfterLoss(file, torn)) /\ AfterLoss(file, torn).synced
           /\ file.synced => AfterLoss(file, torn).data = file.data
<1>1. PICK yes : yes = TRUE
  OBVIOUS
<1> DEFINE whole == [file EXCEPT !.synced = yes]
           part == [data |-> Torn, synced |-> yes]
<1>2. IsFile(whole) /\ whole.synced = yes /\ whole.data = file.data
  BY DEF IsFile
<1>3. IsFile(part) /\ part.synced = yes
  BY DEF IsFile
<1>4. AfterLoss(file, torn) = IF file.synced \/ ~torn THEN whole ELSE part
  BY <1>1 DEF AfterLoss
<1> HIDE DEF whole, part
<1> QED
  BY <1>1, <1>2, <1>3, <1>4

LEMMA LossKeeps == ASSUME IInv, PowerLoss PROVE IInv'
<1>1. PICK torn \in BOOLEAN :
         \E kept \in [Paths -> UNION {older[p] : p \in Paths} \cup {Former(p) : p \in Paths}] :
             /\ \A p \in Paths : kept[p] \in older[p] \cup {Former(p)}
             /\ files' = [n \in {p \in Paths : kept[p] # {}} \cup (DOMAIN files \ Paths) |->
                             AfterLoss(IF n \in Paths THEN CHOOSE f \in kept[n] : TRUE ELSE files[n],
                                       torn)]
  BY DEF PowerLoss
<1>2. PICK kept \in [Paths -> UNION {older[p] : p \in Paths} \cup {Former(p) : p \in Paths}] :
         /\ \A p \in Paths : kept[p] \in older[p] \cup {Former(p)}
         /\ files' = [n \in {p \in Paths : kept[p] # {}} \cup (DOMAIN files \ Paths) |->
                         AfterLoss(IF n \in Paths THEN CHOOSE f \in kept[n] : TRUE ELSE files[n],
                                   torn)]
  BY <1>1
<1>3. /\ procs' = [p \in {} |-> None] /\ older' = [p \in Paths |-> {}] /\ published' = published
  BY DEF PowerLoss
<1> DEFINE file(n) == IF n \in Paths THEN CHOOSE f \in kept[n] : TRUE ELSE files[n]
<1>4. \A p \in Paths : Published(kept[p], published[p])
  BY <1>2 DEF IInv, SoundPath
<1>5. \A p \in Paths : kept[p] # {} =>
          /\ kept[p] = {file(p)} /\ IsFile(file(p))
          /\ file(p).synced /\ file(p).data \in published[p]
  BY <1>4 DEF Published
<1>6. \A n \in DOMAIN files \ Paths : IsFile(file(n))
  BY DEF IInv, Shapes
<1>7. /\ DOMAIN files' = {p \in Paths : kept[p] # {}} \cup (DOMAIN files \ Paths)
      /\ \A n \in DOMAIN files' : files'[n] = AfterLoss(file(n), torn)
  BY <1>2
<1> HIDE DEF file
<1>8. \A n \in DOMAIN files' : IsFile(file(n))
  BY <1>5, <1>6, <1>7
<1>9. \A n \in DOMAIN files' :
          /\ IsFile(files'[n]) /\ files'[n].synced
          /\ file(n).synced => files'[n].data = file(n).data
  BY <1>7, <1>8, LossFacts
<1>10. Shapes'
  BY <1>3, <1>7, <1>9 DEF IInv, Shapes
<1>11. ASSUME NEW path \in Paths PROVE SoundPath(path)'
  <2>1. Exists(path)' <=> kept[path] # {}
    BY <1>7 DEF Exists
  <2>2. Published(Former(path)', published[path])
    <3>1. CASE kept[path] = {}
      BY <2>1, <3>1 DEF Published, Former, Exists
    <3>2. CASE kept[path] # {}
      BY <1>5, <1>7, <1>9, <2>1, <3>2 DEF Published, Former, Exists
    <3> QED
      BY <3>1, <3>2
  <2>3. published[path] \cap OldArchives # {} => kept[path] # {}
    BY <1>2 DEF IInv, SoundPath, Former, Exists
  <2> QED
    BY <1>3, <2>1, <2>2, <2>3 DEF SoundPath
<1> QED
  BY <1>3, <1>10, <1>11 DEF IInv
---------------------------------------------------------------------------
LEMMA InitKeeps == Init => IInv
<1> SUFFICES ASSUME Init PROVE IInv
  OBVIOUS
<1>1. PICK path \in Paths : \E old \in OldArchives :
         /\ files = [p \in {path} |-> [data |-> old, synced |-> TRUE]]
         /\ published = [p \in Paths |-> IF p = path THEN {old} ELSE {}]
  BY DEF Init
<1>2. PICK old \in OldArchives :
         /\ files = [p \in {path} |-> [data |-> old, synced |-> TRUE]]
         /\ published = [p \in Paths |-> IF p = path THEN {old} ELSE {}]
  BY <1>1
<1>3. older = [p \in Paths |-> {}] /\ procs = [p \in {} |-> None]
  BY DEF Init
<1> DEFINE file == [data |-> old, synced |-> TRUE]
<1>4. IsFile(file) /\ file.data = old /\ file.synced
  BY DEF IsFile
<1> HIDE DEF file
<1>5. DOMAIN files = {path} /\ files[path] = file
  BY <1>2 DEF file
<1>6. Shapes
  BY <1>2, <1>3, <1>4, <1>5 DEF Shapes
<1>7. ASSUME NEW p \in Paths PROVE SoundPath(p)
  BY <1>2, <1>3, <1>4, <1>5 DEF SoundPath, Published, Former, Exists
<1> QED
  BY <1>3, <1>6, <1>7 DEF IInv

LEMMA UnchangedKeeps == ASSUME IInv, UNCHANGED vars PROVE IInv'
<1>1. UNCHANGED <<files, older, procs, published>>
  BY DEF vars
<1>2. \A path \in Paths : SoundPath(path)'
  BY <1>1 DEF IInv, SoundPath, Former, Exists
<1> QED
  BY <1>1, <1>2 DEF IInv, Shapes

\* What a step of any process, or none, does.
LEMMA StepKeeps == ASSUME IInv, [Next]_vars PROVE IInv'
<1>1. CASE Edit
  BY <1>1, PutKeeps DEF Edit
<1>2. CASE WorkspaceLoad
  BY <1>2, PutKeeps DEF WorkspaceLoad
<1>3. CASE WorkspaceSave
  BY <1>3, JobKeeps DEF WorkspaceSave
<1>4. CASE WorkspaceMigrate
  BY <1>4, JobKeeps DEF WorkspaceMigrate
<1> QED
  BY <1>1, <1>2, <1>3, <1>4, StartKeeps, OpenKeeps, LookKeeps, CreateKeeps, WriteKeeps, SyncKeeps,
     RenameKeeps, FailKeeps, DeathKeeps, LossKeeps, UnchangedKeeps DEF Next

(***************************************************************************)
(* The invariant under every step of every process, and every fault.       *)
(***************************************************************************)
THEOREM ArchivesInductive == Spec => []IInv
<1>1. Init => IInv
  BY InitKeeps
<1>2. IInv /\ [Next]_vars => IInv'
  BY StepKeeps
<1> QED
  BY <1>1, <1>2, PTL DEF Spec

(***************************************************************************)
(* A path holds an archive that was saved there, whole, and never loses    *)
(* the one it had (agentir-store lib.rs:2176, atomic_write).               *)
(***************************************************************************)
THEOREM PathsKeepArchives == Spec => []PathsHoldSaves
<1>1. IInv => PathsHoldSaves
  <2> SUFFICES ASSUME IInv PROVE PathsHoldSaves
    OBVIOUS
  <2>1. \A p \in Paths \cap DOMAIN files : files[p].data \in published[p]
    BY DEF IInv, SoundPath, Published, Former, Exists
  <2> QED
    BY <2>1 DEF IInv, SoundPath, PathsHoldSaves
<1> QED
  BY <1>1, ArchivesInductive, PTL

---------------------------------------------------------------------------
\* Saved is loaded, and migrations agree.  A workspace is told by its events: its revisions
\* are their contents (Good).  That is what loading gives, of a current archive and of those
\* earlier builds wrote, and what opening and editing keep.

\* A sequence is a function on the first numbers.
LEMMA SequenceFacts ==
    ASSUME NEW S, NEW x \in Seq(S)
    PROVE  Len(x) \in Nat /\ DOMAIN x = 1 .. Len(x) /\ x = [i \in 1 .. Len(x) |-> x[i]]
  OBVIOUS

\* The same of a list.
LEMMA ListFacts ==
    ASSUME NEW x, IsList(x)
    PROVE  Len(x) \in Nat /\ DOMAIN x = 1 .. Len(x) /\ x = [i \in 1 .. Len(x) |-> x[i]]
  BY SequenceFacts DEF IsList

\* A function on the first numbers is a list.
LEMMA MakesList ==
    ASSUME NEW n \in Nat, NEW x, x = [i \in 1 .. n |-> x[i]]
    PROVE  IsList(x) /\ Len(x) = n /\ DOMAIN x = 1 .. n
<1> DEFINE S == {x[i] : i \in DOMAIN x}
<1>1. DOMAIN x = 1 .. n
  OBVIOUS
<1>2. \A i \in 1 .. n : x[i] \in S
  BY <1>1
<1> HIDE DEF S
<1>3. x \in [1 .. n -> S]
  BY <1>2
<1>4. x \in Seq(S)
  BY <1>3
<1>5. Len(x) = n
  BY <1>1, <1>4
<1> QED
  BY <1>1, <1>4, <1>5 DEF IsList, S

\* The list without elements.
LEMMA EmptyList == IsList(<<>>) /\ Len(<<>>) = 0 /\ DOMAIN <<>> = {}
<1>1. DOMAIN <<>> = {} /\ Len(<<>>) = 0
  OBVIOUS
<1>2. \A S : <<>> \in Seq(S)
  OBVIOUS
<1> QED
  BY <1>1, <1>2 DEF IsList

\* A list with one element more.
MoreBy(x, n, e, y) ==
    /\ n \in Nat /\ DOMAIN x = 1 .. n
    /\ IsList(y) /\ Len(y) = n + 1 /\ DOMAIN y = 1 .. n + 1
    /\ (\A i \in 1 .. n : y[i] = x[i]) /\ y[n + 1] = e /\ Last(y) = e

\* Appending gives such a list.
LEMMA ListAppend ==
    ASSUME NEW x, IsList(x), NEW e, NEW y, y = Append(x, e), NEW n, n = Len(x)
    PROVE  MoreBy(x, n, e, y)
<1>1. n \in Nat /\ DOMAIN x = 1 .. n /\ x \in Seq({x[i] : i \in DOMAIN x})
  BY ListFacts DEF IsList
<1>2. PICK S : x \in Seq(S)
  BY <1>1
<1>3. y \in Seq(S \cup {e}) /\ Len(y) = n + 1
  <2>1. x \in Seq(S \cup {e})
    BY <1>1, <1>2
  <2> QED
    BY <2>1, AppendProperties
<1>4. y[n + 1] = e /\ \A i \in 1 .. n : y[i] = x[i]
  BY <1>2, AppendProperties
<1>5. y = [i \in 1 .. n + 1 |-> y[i]]
  <2>1. y = [i \in 1 .. Len(y) |-> y[i]]
    BY <1>3, SequenceFacts
  <2> QED
    BY <1>3, <2>1
<1>6. IsList(y) /\ Len(y) = n + 1 /\ DOMAIN y = 1 .. n + 1
  BY <1>1, <1>5, MakesList
<1>7. Last(y) = e
  BY <1>4, <1>6 DEF Last
<1> QED
  BY <1>1, <1>4, <1>6, <1>7 DEF MoreBy

---------------------------------------------------------------------------
\* The contents of events, as a fold that any event appends to.
ContentOp(env, cs, e) == Append(cs, Made(Last(cs), e.op, e.semantics))
ContentHolds(about, n, cs) == IsList(cs) /\ Len(cs) = n + 1
Replaying == INSTANCE FoldFacts WITH Op <- ContentOp, Holds <- ContentHolds

\* The contents are a fold.
LEMMA ContentsFold ==
    ASSUME NEW events
    PROVE  Contents(events) = Replaying!Fold(0, <<<<>>>>, events)
  BY DEF Contents, ContentOp, Replaying!Fold, Replaying!FoldLeft, FoldLeft,
         Replaying!MapThenFoldSet, MapThenFoldSet, Replaying!Max, Max

\* There is one content more than events.
LEMMA ContentsList ==
    ASSUME NEW events, IsList(events)
    PROVE  IsList(Contents(events)) /\ Len(Contents(events)) = Len(events) + 1
<1> DEFINE n == Len(events)
           base == <<<<>>>>
<1>1. n \in Nat /\ DOMAIN events = 1 .. n
  BY ListFacts
<1>2. IsList(base) /\ Len(base) = 0 + 1
  <2>1. base = [i \in 1 .. 1 |-> base[i]]
    OBVIOUS
  <2> QED
    BY <2>1, MakesList
<1> HIDE DEF n, base
<1>3. ContentHolds(0, 0, base)
  BY <1>2 DEF ContentHolds
<1>4. ASSUME NEW i \in 1 .. n, NEW r, ContentHolds(0, i - 1, r)
      PROVE  ContentHolds(0, i, ContentOp(0, r, events[i]))
  <2>1. IsList(r) /\ Len(r) = i
    BY <1>1, <1>4 DEF ContentHolds
  <2> DEFINE more == Append(r, Made(Last(r), events[i].op, events[i].semantics))
  <2>2. MoreBy(r, i, Made(Last(r), events[i].op, events[i].semantics), more)
    BY <2>1, ListAppend
  <2>3. ContentOp(0, r, events[i]) = more
    BY DEF ContentOp
  <2> HIDE DEF more
  <2> QED
    BY <2>2, <2>3 DEF ContentHolds, MoreBy
<1>5. Replaying!Kept(0, 0, base, events, n)
  BY <1>3, <1>4 DEF Replaying!Kept
<1>6. ContentHolds(0, n, Replaying!Fold(0, base, events))
  BY <1>1, <1>5, Replaying!FoldKeeps
<1> QED
  BY <1>6, ContentsFold DEF ContentHolds, base, n

\* An event more is a content more.
LEMMA ContentsAppend ==
    ASSUME NEW events, IsList(events), NEW e
    PROVE  Contents(Append(events, e)) =
              Append(Contents(events), Made(Last(Contents(events)), e.op, e.semantics))
<1>1. PICK S : events \in Seq(S)
  BY DEF IsList
<1>2. Replaying!Fold(0, <<<<>>>>, Append(events, e)) =
          ContentOp(0, Replaying!Fold(0, <<<<>>>>, events), e)
  BY <1>1, Replaying!FoldAppend
<1> QED
  BY <1>2, ContentsFold DEF ContentOp

\* No events leave the empty content.
LEMMA ContentsEmpty == Contents(<<>>) = <<<<>>>>
<1>1. DOMAIN <<>> = {}
  OBVIOUS
<1> QED
  BY <1>1, ContentsFold, Replaying!FoldEmpty

---------------------------------------------------------------------------
\* What the migrations up to a format make of a snapshot.
Tagged(events) == [i \in DOMAIN events |-> [events[i] EXCEPT !.semantics = Legacy]]
Uncached(revisions) == [r \in DOMAIN revisions |-> [content |-> revisions[r].content, spec |-> None]]
OneCodec(forest) == [c \in DOMAIN forest |-> [forest[c] EXCEPT !.codec = 1]]

AtFormat(s, k) ==
    [schema |-> k, id |-> s.id,
     events |-> IF s.schema < 3 /\ k >= 3 THEN Tagged(s.events) ELSE s.events,
     revisions |-> IF s.schema = 1 /\ k >= 2 THEN Uncached(s.revisions) ELSE s.revisions,
     forest |-> IF s.schema < 4 /\ k >= 4 THEN <<>>
                ELSE IF s.schema = 4 /\ k >= 5 THEN OneCodec(s.forest) ELSE s.forest,
     stores |-> [f \in Later |-> IF f > s.schema /\ f <= k THEN 0 ELSE s.stores[f]]]

IsSnapshot(s) ==
    /\ s = [schema |-> s.schema, id |-> s.id, events |-> s.events, revisions |-> s.revisions,
            forest |-> s.forest, stores |-> s.stores]
    /\ s.schema \in 1 .. Newest
    /\ s.stores = [f \in Later |-> s.stores[f]]

\* The migrations, field by field.
Fields(sc, id, ev, rv, fo, st) ==
    [schema |-> sc, id |-> id, events |-> ev, revisions |-> rv, forest |-> fo, stores |-> st]

MigrateTo(m, sc, id, ev, rv, fo, st) ==
    /\ MigrateV1(m) = Fields(2, id, ev, Uncached(rv), fo, st)
    /\ MigrateV2(m) = Fields(3, id, Tagged(ev), rv, fo, st)
    /\ MigrateV3(m) = Fields(4, id, ev, rv, <<>>, st)
    /\ MigrateV4(m) = Fields(5, id, ev, rv, OneCodec(fo), st)
    /\ WithNextStore(m) = Fields(sc + 1, id, ev, rv, fo, [st EXCEPT ![sc + 1] = 0])

\* Each migration of a snapshot of such fields.
LEMMA MigrationForms ==
    ASSUME NEW sc, NEW id, NEW ev, NEW rv, NEW fo, NEW st
    PROVE  MigrateTo(Fields(sc, id, ev, rv, fo, st), sc, id, ev, rv, fo, st)
<1> DEFINE m == Fields(sc, id, ev, rv, fo, st)
           tagged == Tagged(ev)
           uncached == Uncached(rv)
           coded == OneCodec(fo)
           stored == [st EXCEPT ![sc + 1] = 0]
           schema == sc + 1
<1>1. m = [schema |-> sc, id |-> id, events |-> ev, revisions |-> rv, forest |-> fo, stores |-> st]
  BY DEF Fields
<1>2. m.schema = sc /\ m.events = ev /\ m.revisions = rv /\ m.forest = fo /\ m.stores = st
  BY DEF Fields
<1> HIDE DEF m
<1>3. /\ [i \in DOMAIN m.events |-> [m.events[i] EXCEPT !.semantics = Legacy]] = tagged
      /\ [r \in DOMAIN m.revisions |-> [content |-> m.revisions[r].content, spec |-> None]] = uncached
      /\ [c \in DOMAIN m.forest |-> [m.forest[c] EXCEPT !.codec = 1]] = coded
      /\ [m.stores EXCEPT ![m.schema + 1] = 0] = stored
      /\ m.schema + 1 = schema
  BY <1>2 DEF Tagged, Uncached, OneCodec
<1> HIDE DEF tagged, uncached, coded, stored, schema
<1>4. MigrateV1(m) = Fields(2, id, ev, uncached, fo, st)
  <2>1. MigrateV1(m) = [m EXCEPT !.schema = 2, !.revisions = uncached]
    BY <1>3 DEF MigrateV1
  <2> QED
    BY <1>1, <2>1 DEF Fields
<1>5. MigrateV2(m) = Fields(3, id, tagged, rv, fo, st)
  <2>1. MigrateV2(m) = [m EXCEPT !.schema = 3, !.events = tagged]
    BY <1>3 DEF MigrateV2
  <2> QED
    BY <1>1, <2>1 DEF Fields
<1>6. MigrateV3(m) = Fields(4, id, ev, rv, <<>>, st)
  <2>1. MigrateV3(m) = [m EXCEPT !.schema = 4, !.forest = <<>>]
    BY DEF MigrateV3
  <2> QED
    BY <1>1, <2>1 DEF Fields
<1>7. MigrateV4(m) = Fields(5, id, ev, rv, coded, st)
  <2>1. MigrateV4(m) = [m EXCEPT !.schema = 5, !.forest = coded]
    BY <1>3 DEF MigrateV4
  <2> QED
    BY <1>1, <2>1 DEF Fields
<1>8. WithNextStore(m) = Fields(schema, id, ev, rv, fo, stored)
  <2>1. WithNextStore(m) = [m EXCEPT !.schema = schema, !.stores = stored]
    BY <1>3 DEF WithNextStore
  <2> QED
    BY <1>1, <2>1 DEF Fields
<1> QED
  BY <1>4, <1>5, <1>6, <1>7, <1>8 DEF m, tagged, uncached, coded, stored, schema, MigrateTo

\* One migration goes on where the earlier ones stopped.
LEMMA NextAtFormat ==
    ASSUME NEW s, IsSnapshot(s), NEW k \in s.schema .. Newest - 1
    PROVE  Migrated(AtFormat(s, k)) = AtFormat(s, k + 1)
<1> DEFINE m == AtFormat(s, k)
<1>1. /\ s.schema \in 1 .. 11 /\ k \in 1 .. 10 /\ s.schema <= k /\ Later = 6 .. 11
  BY DEF IsSnapshot, Newest, Later
<1>2. /\ m = Fields(m.schema, m.id, m.events, m.revisions, m.forest, m.stores)
      /\ m.schema = k /\ m.id = s.id
      /\ m.events = IF s.schema < 3 /\ k >= 3 THEN Tagged(s.events) ELSE s.events
      /\ m.revisions = IF s.schema = 1 /\ k >= 2 THEN Uncached(s.revisions) ELSE s.revisions
      /\ m.forest = IF s.schema < 4 /\ k >= 4 THEN <<>>
                    ELSE IF s.schema = 4 /\ k >= 5 THEN OneCodec(s.forest) ELSE s.forest
      /\ m.stores = [f \in Later |-> IF f > s.schema /\ f <= k THEN 0 ELSE s.stores[f]]
  BY DEF AtFormat, Fields
<1> DEFINE n == AtFormat(s, k + 1)
<1>3. /\ n = Fields(k + 1, s.id, n.events, n.revisions, n.forest, n.stores)
      /\ n.events = IF s.schema < 3 /\ k + 1 >= 3 THEN Tagged(s.events) ELSE s.events
      /\ n.revisions = IF s.schema = 1 /\ k + 1 >= 2 THEN Uncached(s.revisions) ELSE s.revisions
      /\ n.forest = IF s.schema < 4 /\ k + 1 >= 4 THEN <<>>
                    ELSE IF s.schema = 4 /\ k + 1 >= 5 THEN OneCodec(s.forest) ELSE s.forest
      /\ n.stores = [f \in Later |-> IF f > s.schema /\ f <= k + 1 THEN 0 ELSE s.stores[f]]
  BY DEF AtFormat, Fields
<1> HIDE DEF m, n
<1>4. k # 5 /\ k < 5 => n.stores = m.stores
  BY <1>1, <1>2, <1>3
<1> DEFINE id == m.id
           ev == m.events
           rv == m.revisions
           fo == m.forest
           st == m.stores
<1>11. /\ m = Fields(k, id, ev, rv, fo, st)
       /\ n = Fields(k + 1, id, n.events, n.revisions, n.forest, n.stores)
  BY <1>2, <1>3
<1>12. /\ MigrateV1(m) = Fields(2, id, ev, Uncached(rv), fo, st)
       /\ MigrateV2(m) = Fields(3, id, Tagged(ev), rv, fo, st)
       /\ MigrateV3(m) = Fields(4, id, ev, rv, <<>>, st)
       /\ MigrateV4(m) = Fields(5, id, ev, rv, OneCodec(fo), st)
       /\ WithNextStore(m) = Fields(k + 1, id, ev, rv, fo, [st EXCEPT ![k + 1] = 0])
  <2> HIDE DEF id, ev, rv, fo, st
  <2>1. MigrateTo(Fields(k, id, ev, rv, fo, st), k, id, ev, rv, fo, st)
    BY MigrationForms
  <2> QED
    BY <1>11, <2>1 DEF MigrateTo
<1>5. OneCodec(<<>>) = <<>>
  BY DEF OneCodec
<1>6. CASE k = 1
  <2>1. Migrated(m) = MigrateV1(m)
    BY <1>2, <1>6 DEF Migrated
  <2>2. n.events = m.events /\ n.revisions = Uncached(m.revisions) /\ n.forest = m.forest
    BY <1>1, <1>2, <1>3, <1>6
  <2>9. Migrated(m) = n
    BY <1>4, <1>11, <1>12, <1>6, <2>1, <2>2
  <2> QED
    BY <2>9 DEF m, n
<1>7. CASE k = 2
  <2>1. Migrated(m) = MigrateV2(m)
    BY <1>2, <1>7 DEF Migrated
  <2>2. n.events = Tagged(m.events) /\ n.revisions = m.revisions /\ n.forest = m.forest
    BY <1>1, <1>2, <1>3, <1>7
  <2>9. Migrated(m) = n
    BY <1>4, <1>11, <1>12, <1>7, <2>1, <2>2
  <2> QED
    BY <2>9 DEF m, n
<1>8. CASE k = 3
  <2>1. Migrated(m) = MigrateV3(m)
    BY <1>2, <1>8 DEF Migrated
  <2>2. n.events = m.events /\ n.revisions = m.revisions /\ n.forest = <<>>
    BY <1>1, <1>2, <1>3, <1>8
  <2>9. Migrated(m) = n
    BY <1>4, <1>11, <1>12, <1>8, <2>1, <2>2
  <2> QED
    BY <2>9 DEF m, n
<1>9. CASE k = 4
  <2>1. Migrated(m) = MigrateV4(m)
    BY <1>2, <1>9 DEF Migrated
  <2>2. n.events = m.events /\ n.revisions = m.revisions /\ n.forest = OneCodec(m.forest)
    BY <1>1, <1>2, <1>3, <1>5, <1>9
  <2>9. Migrated(m) = n
    BY <1>4, <1>11, <1>12, <1>9, <2>1, <2>2
  <2> QED
    BY <2>9 DEF m, n
<1>10. CASE k >= 5
  <2>1. Migrated(m) = WithNextStore(m)
    BY <1>1, <1>2, <1>10 DEF Migrated
  <2>2. n.events = m.events /\ n.revisions = m.revisions /\ n.forest = m.forest
    BY <1>1, <1>2, <1>3, <1>10
  <2>3. n.stores = [m.stores EXCEPT ![k + 1] = 0]
    BY <1>1, <1>2, <1>3, <1>10
  <2>9. Migrated(m) = n
    BY <1>4, <1>11, <1>12, <2>1, <2>2, <2>3
  <2> QED
    BY <2>9 DEF m, n
<1> QED
  BY <1>1, <1>6, <1>7, <1>8, <1>9, <1>10

\* A snapshot is at its own format.
LEMMA AtOwnFormat ==
    ASSUME NEW s, IsSnapshot(s)
    PROVE  AtFormat(s, s.schema) = s
<1>1. s.schema \in Nat /\ \A f \in Later : f \in Nat
  BY DEF IsSnapshot, Newest, Later
<1>2. s.stores = [f \in Later |-> IF f > s.schema /\ f <= s.schema THEN 0 ELSE s.stores[f]]
  BY <1>1 DEF IsSnapshot
<1>3. /\ ~(s.schema < 3 /\ s.schema >= 3) /\ ~(s.schema = 1 /\ s.schema >= 2)
      /\ ~(s.schema < 4 /\ s.schema >= 4) /\ ~(s.schema = 4 /\ s.schema >= 5)
  BY <1>1
<1>4. AtFormat(s, s.schema) =
          [schema |-> s.schema, id |-> s.id, events |-> s.events, revisions |-> s.revisions,
           forest |-> s.forest, stores |-> s.stores]
  BY <1>2, <1>3 DEF AtFormat
<1> QED
  BY <1>4 DEF IsSnapshot

\* Migrating up to date is migrating to the newest format.
MigrateOp(env, m, i) == Migrated(m)
MigrateHolds(s, n, m) == s.schema + n <= Newest => m = AtFormat(s, s.schema + n)
Migrating == INSTANCE FoldFacts WITH Op <- MigrateOp, Holds <- MigrateHolds

\* The newest format, at the end of the migrations.
LEMMA UpToDateIs ==
    ASSUME NEW s, IsSnapshot(s)
    PROVE  UpToDate(s) = AtFormat(s, Newest)
<1> DEFINE n == Newest - s.schema
           steps == [i \in 1 .. n |-> i]
<1>1. n \in Nat /\ s.schema + n = Newest /\ s.schema \in Nat /\ Newest \in Nat
  BY DEF IsSnapshot, Newest
<1>2. UpToDate(s) = Migrating!Fold(0, s, steps)
  BY DEF UpToDate, MigrateOp, Migrating!Fold, Migrating!FoldLeft, FoldLeft,
         Migrating!MapThenFoldSet, MapThenFoldSet, Migrating!Max, Max
<1>3. DOMAIN steps = 1 .. n
  OBVIOUS
<1> HIDE DEF n, steps
<1>4. MigrateHolds(s, 0, s)
  BY <1>1, AtOwnFormat DEF MigrateHolds
<1>5. ASSUME NEW i \in 1 .. n, NEW m, MigrateHolds(s, i - 1, m)
      PROVE  MigrateHolds(s, i, MigrateOp(0, m, steps[i]))
  <2>1. /\ s.schema + (i - 1) <= Newest
        /\ s.schema + (i - 1) \in s.schema .. Newest - 1
        /\ (s.schema + (i - 1)) + 1 = s.schema + i
    BY <1>1
  <2>2. m = AtFormat(s, s.schema + (i - 1))
    BY <1>5, <2>1 DEF MigrateHolds
  <2> QED
    BY <2>1, <2>2, NextAtFormat DEF MigrateHolds, MigrateOp
<1>6. Migrating!Kept(s, 0, s, steps, n)
  BY <1>4, <1>5 DEF Migrating!Kept
<1>7. MigrateHolds(s, n, Migrating!Fold(0, s, steps))
  BY <1>1, <1>3, <1>6, Migrating!FoldKeeps
<1> QED
  BY <1>1, <1>2, <1>7 DEF MigrateHolds

---------------------------------------------------------------------------
\* The revisions of events, with the specification hash of each, and a workspace that holds
\* them: what a snapshot of it says is what its events replay to.
Revised(events) ==
    [r \in DOMAIN Contents(events) |->
        [content |-> Contents(events)[r], spec |-> SpecHash(Contents(events)[r])]]

GoodEvents(events) ==
    /\ IsList(events)
    /\ \A i \in DOMAIN events :
          events[i].semantics \in {Legacy, Core} /\ events[i].hash = Contents(events)[i + 1]

GoodForest(forest) ==
    /\ IsList(forest)
    /\ \A c \in DOMAIN forest :
          forest[c].codec \in 1 .. 3 /\ forest[c].hash = CandidateHash(forest[c].of, forest[c].codec)

WorkspaceOf(id, events, forest, stores) ==
    [id |-> id, events |-> events, forest |-> forest, stores |-> stores, revisions |-> Revised(events)]

Good(w) ==
    /\ w = WorkspaceOf(w.id, w.events, w.forest, w.stores)
    /\ GoodEvents(w.events) /\ GoodForest(w.forest)
    /\ w.stores = [f \in Later |-> w.stores[f]]

\* The revisions of a snapshot whose cache is there, or is to be filled.
Cached(events, populate) ==
    [r \in DOMAIN Contents(events) |->
        [content |-> Contents(events)[r],
         spec |-> IF populate THEN None ELSE SpecHash(Contents(events)[r])]]

\* A snapshot that replays restores the workspace of its events.
LEMMA RestoredIs ==
    ASSUME NEW s, NEW populate \in BOOLEAN, GoodEvents(s.events), GoodForest(s.forest),
           s.revisions = Cached(s.events, populate)
    PROVE  Restored(s, populate) = {WorkspaceOf(s.id, s.events, s.forest, s.stores)}
<1> DEFINE cs == Contents(s.events)
           n == Len(s.events)
           rs == s.revisions
<1>1. n \in Nat /\ DOMAIN s.events = 1 .. n /\ IsList(cs) /\ Len(cs) = n + 1 /\ DOMAIN cs = 1 .. n + 1
  BY ContentsList, ListFacts DEF GoodEvents
<1>2. \A r \in 1 .. n + 1 :
          rs[r] = [content |-> cs[r], spec |-> IF populate THEN None ELSE SpecHash(cs[r])]
  BY <1>1 DEF Cached
<1>3. DOMAIN rs = 1 .. n + 1 /\ Len(rs) = n + 1
  <2>1. rs = [r \in 1 .. n + 1 |-> rs[r]] /\ DOMAIN rs = 1 .. n + 1
    BY <1>1 DEF Cached
  <2> HIDE DEF n, rs
  <2>2. n + 1 \in Nat
    BY <1>1
  <2> QED
    BY <2>1, <2>2, MakesList
<1>4. \A r \in 1 .. n + 1 :
          rs[r].content = cs[r] /\ rs[r].spec = IF populate THEN None ELSE SpecHash(cs[r])
  <2> HIDE DEF n, rs, cs
  <2> SUFFICES ASSUME NEW r \in 1 .. n + 1
               PROVE  rs[r].content = cs[r] /\ rs[r].spec = IF populate THEN None ELSE SpecHash(cs[r])
    OBVIOUS
  <2>1. rs[r] = [content |-> cs[r], spec |-> IF populate THEN None ELSE SpecHash(cs[r])]
    BY <1>2
  <2> QED
    BY <2>1
<1>5. Replays(s, cs)
  BY <1>1, <1>3, <1>4 DEF Replays, GoodEvents
<1>6. CacheAgrees(s, populate)
  BY <1>3, <1>4 DEF CacheAgrees
<1>7. ForestVerifies(s)
  BY DEF ForestVerifies, GoodForest
<1>8. [r \in DOMAIN rs |-> [content |-> rs[r].content, spec |-> SpecHash(rs[r].content)]]
          = Revised(s.events)
  BY <1>1, <1>3, <1>4 DEF Revised
<1> QED
  BY <1>5, <1>6, <1>7, <1>8 DEF Restored, WorkspaceOf

\* What is at the newest format stays.
LEMMA NewestStays ==
    ASSUME NEW s, IsSnapshot(s), s.schema = Newest
    PROVE  UpToDate(s) = s
  BY UpToDateIs, AtOwnFormat

\* A workspace that is saved and loaded is the same.
LEMMA GoodLoads ==
    ASSUME NEW w, Good(w)
    PROVE  Loaded(Archived(w)) = {w}
<1> DEFINE s == Snapshot(w)
           f == Archived(w)
<1>1. f.version = Newest /\ f.snapshot = s
  BY DEF Archived
<1>2. f # Torn
  <2>1. Torn.version = 0 /\ Newest # 0
    BY DEF Torn, Newest
  <2> QED
    BY <1>1, <2>1
<1>3. /\ s.schema = Newest /\ s.id = w.id /\ s.events = w.events /\ s.revisions = w.revisions
      /\ s.forest = w.forest /\ s.stores = w.stores
  BY DEF Snapshot
<1>4. s = [schema |-> s.schema, id |-> s.id, events |-> s.events, revisions |-> s.revisions,
           forest |-> s.forest, stores |-> s.stores]
  BY DEF Snapshot
<1> HIDE DEF s, f
<1>5. IsSnapshot(s)
  BY <1>3, <1>4 DEF IsSnapshot, Good, Newest
<1>6. UpToDate(s) = s
  BY <1>3, <1>5, NewestStays
<1>7. Decodes(f) /\ ~Populates(f)
  BY <1>1, <1>2 DEF Decodes, Supported, Populates, Newest
<1>8. w.revisions = Revised(w.events)
  BY DEF Good, WorkspaceOf
<1>9. s.revisions = Cached(s.events, FALSE)
  BY <1>3, <1>8 DEF Cached, Revised
<1>10. Restored(s, FALSE) = {WorkspaceOf(s.id, s.events, s.forest, s.stores)}
  BY <1>3, <1>9, RestoredIs DEF Good
<1>11. Populates(f) = FALSE
  BY <1>7 DEF Populates
<1>12. Loaded(f) = Restored(s, FALSE)
  BY <1>1, <1>3, <1>6, <1>7, <1>11 DEF Loaded
<1>13. WorkspaceOf(s.id, s.events, s.forest, s.stores) = w
  BY <1>3 DEF Good
<1> QED
  BY <1>10, <1>12, <1>13 DEF f

---------------------------------------------------------------------------
\* What loading an archive of an earlier build opens.
OpenedBy(old) ==
    WorkspaceOf(old.snapshot.id, InferredEvents(old), AtFormat(old.snapshot, Newest).forest,
                AtFormat(old.snapshot, Newest).stores)

\* The fields of what an earlier build wrote.
LEMMA WrittenForm ==
    ASSUME NEW old, WrittenEarlier(old)
    PROVE  /\ old.version \in 1 .. 10 /\ old.snapshot.schema = old.version
           /\ IsSnapshot(old.snapshot)
           /\ old.snapshot.revisions =
                 [r \in DOMAIN Contents(InferredEvents(old)) |->
                    [content |-> Contents(InferredEvents(old))[r],
                     spec |-> IF old.version = 1 THEN Absent
                              ELSE SpecHash(Contents(InferredEvents(old))[r])]]
<1> DEFINE s == old.snapshot
           rv == [r \in DOMAIN Contents(InferredEvents(old)) |->
                    [content |-> Contents(InferredEvents(old))[r],
                     spec |-> IF old.version = 1 THEN Absent
                              ELSE SpecHash(Contents(InferredEvents(old))[r])]]
           fo == IF old.version < 4 THEN Absent ELSE s.forest
           st == [f \in Later |-> IF f <= old.version THEN s.stores[f] ELSE Absent]
<1>1. old.version \in 1 .. 10
  BY DEF WrittenEarlier, WrittenHeader, Newest
<1>2. s = [schema |-> old.version, id |-> s.id, events |-> s.events, revisions |-> rv,
           forest |-> fo, stores |-> st]
  BY DEF WrittenEarlier, WrittenFields
<1>3. st = [f \in Later |-> st[f]]
  OBVIOUS
<1> HIDE DEF s, rv, fo, st
<1>4. s.schema = old.version /\ s.revisions = rv /\ s.forest = fo /\ s.stores = st
  BY <1>2
<1>5. s = [schema |-> s.schema, id |-> s.id, events |-> s.events, revisions |-> s.revisions,
           forest |-> s.forest, stores |-> s.stores]
  <2>1. s = [schema |-> s.schema, id |-> s.id, events |-> s.events, revisions |-> rv,
             forest |-> fo, stores |-> st]
    BY <1>2, <1>4
  <2> QED
    BY <2>1, <1>4
<1>6. IsSnapshot(s)
  BY <1>1, <1>3, <1>4, <1>5 DEF IsSnapshot, Newest
<1> QED
  BY <1>1, <1>4, <1>6 DEF s, rv

\* Its events, each with the semantics it was inferred under, replay.
LEMMA WrittenReplays ==
    ASSUME NEW old, WrittenEarlier(old)
    PROVE  /\ GoodEvents(InferredEvents(old))
           /\ InferredEvents(old) = IF old.version < 3 THEN Tagged(old.snapshot.events)
                                    ELSE old.snapshot.events
<1> DEFINE evs == old.snapshot.events
           ies == InferredEvents(old)
           n == Len(evs)
<1>1. n \in Nat /\ DOMAIN evs = 1 .. n /\ evs = [i \in 1 .. n |-> evs[i]]
  BY ListFacts DEF WrittenEarlier, WrittenEvents
<1>2. ies = [i \in 1 .. n |-> [op |-> evs[i].op, hash |-> evs[i].hash,
                               semantics |-> IF old.version < 3 THEN Legacy ELSE evs[i].semantics]]
  BY <1>1 DEF InferredEvents
<1>3. \A i \in 1 .. n :
          /\ ies[i].semantics \in {Legacy, Core} /\ ies[i].hash = Contents(ies)[i + 1]
          /\ evs[i] = [op |-> ies[i].op, hash |-> ies[i].hash,
                       semantics |-> IF old.version < 3 THEN Absent ELSE ies[i].semantics]
  BY <1>1 DEF WrittenEarlier, WrittenEvents
<1>4. ies = [i \in 1 .. n |-> ies[i]]
  BY <1>2
<1> HIDE DEF evs, ies, n
<1>5. IsList(ies) /\ DOMAIN ies = 1 .. n
  BY <1>1, <1>4, MakesList
<1>6. GoodEvents(ies)
  BY <1>3, <1>5 DEF GoodEvents
<1>7. CASE old.version < 3
  <2>1. \A i \in 1 .. n : [evs[i] EXCEPT !.semantics = Legacy] = ies[i]
    <3> SUFFICES ASSUME NEW i \in 1 .. n
                 PROVE  [evs[i] EXCEPT !.semantics = Legacy] = ies[i]
      OBVIOUS
    <3> DEFINE e == evs[i]
               op == evs[i].op
               hash == evs[i].hash
               e2 == [e EXCEPT !.semantics = Legacy]
    <3>1. ies[i] = [op |-> op, hash |-> hash, semantics |-> Legacy]
      BY <1>2, <1>7
    <3>2. e = [op |-> ies[i].op, hash |-> ies[i].hash, semantics |-> Absent]
      BY <1>3, <1>7
    <3>3. ies[i].op = op /\ ies[i].hash = hash
      BY <3>1
    <3>4. e = [op |-> op, hash |-> hash, semantics |-> Absent]
      BY <3>2, <3>3
    <3> HIDE DEF e, op, hash
    <3>5. e2 = [op |-> op, hash |-> hash, semantics |-> Legacy]
      BY <3>4
    <3> QED
      BY <3>1, <3>5 DEF e
  <2>2. Tagged(evs) = ies
    BY <1>1, <1>4, <2>1 DEF Tagged
  <2> QED
    BY <1>6, <1>7, <2>2 DEF evs, ies
<1>8. CASE ~(old.version < 3)
  <2>1. \A i \in 1 .. n : evs[i] = ies[i]
    BY <1>2, <1>3, <1>8
  <2>2. ies = evs
    BY <1>1, <1>4, <2>1
  <2> QED
    BY <1>6, <1>8, <2>2 DEF evs, ies
<1> QED
  BY <1>7, <1>8

\* Its candidates verify once their codec is told.
LEMMA WrittenVerifies ==
    ASSUME NEW old, WrittenEarlier(old)
    PROVE  GoodForest(AtFormat(old.snapshot, Newest).forest)
<1> DEFINE s == old.snapshot
           forest == AtFormat(s, Newest).forest
           n == Len(s.forest)
<1>1. s.schema = old.version /\ old.version \in 1 .. 10
  BY WrittenForm
<1>2. forest = IF old.version < 4 THEN <<>>
               ELSE IF old.version = 4 THEN OneCodec(s.forest) ELSE s.forest
  BY <1>1 DEF AtFormat, Newest
<1>3. CASE old.version < 4
  <2>1. IsList(<<>>) /\ DOMAIN <<>> = {}
    BY EmptyList
  <2>2. forest = <<>>
    BY <1>2, <1>3
  <2> QED
    BY <2>1, <2>2 DEF GoodForest
<1>4. ASSUME old.version >= 4
      PROVE  /\ n \in Nat /\ DOMAIN s.forest = 1 .. n /\ IsList(s.forest)
             /\ \A c \in 1 .. n : WrittenCandidate(s.forest[c], old.version)
  <2>1. IsList(s.forest) /\ \A c \in DOMAIN s.forest : WrittenCandidate(s.forest[c], old.version)
    BY <1>4 DEF WrittenEarlier, WrittenForest
  <2> QED
    BY <2>1, ListFacts
<1>5. CASE old.version = 4
  <2>1. forest = [c \in 1 .. n |-> [s.forest[c] EXCEPT !.codec = 1]]
    BY <1>2, <1>4, <1>5 DEF OneCodec
  <2>2. ASSUME NEW c \in 1 .. n
        PROVE  forest[c].codec \in 1 .. 3
               /\ forest[c].hash = CandidateHash(forest[c].of, forest[c].codec)
    <3> DEFINE x == s.forest[c]
               of == x.of
               y == [x EXCEPT !.codec = 1]
               h == CandidateHash(of, 1)
    <3>1. x = [of |-> of, codec |-> Absent, hash |-> h]
      BY <1>4, <1>5, <2>2 DEF WrittenCandidate
    <3>2. forest[c] = y
      BY <2>1
    <3> HIDE DEF x, of, h
    <3>3. y = [of |-> of, codec |-> 1, hash |-> h]
      BY <3>1
    <3> HIDE DEF y
    <3>4. y.codec = 1 /\ y.of = of /\ y.hash = h
      BY <3>3
    <3> QED
      BY <3>2, <3>4 DEF h
  <2>3. n \in Nat /\ forest = [c \in 1 .. n |-> forest[c]]
    BY <1>4, <1>5, <2>1
  <2> HIDE DEF forest, n
  <2>4. IsList(forest) /\ DOMAIN forest = 1 .. n
    BY <2>3, MakesList
  <2>5. GoodForest(forest)
    BY <2>2, <2>4 DEF GoodForest
  <2> QED
    BY <2>5 DEF forest
<1>6. CASE old.version >= 5
  <2>1. forest = s.forest
    BY <1>1, <1>2, <1>6
  <2>2. ASSUME NEW c \in 1 .. n
        PROVE  s.forest[c].codec \in 1 .. 3
               /\ s.forest[c].hash = CandidateHash(s.forest[c].of, s.forest[c].codec)
    <3> DEFINE x == s.forest[c]
               h == CandidateHash(x.of, x.codec)
    <3>1. x.codec \in 1 .. 3 /\ x = [of |-> x.of, codec |-> x.codec, hash |-> h]
      BY <1>1, <1>4, <1>6, <2>2 DEF WrittenCandidate
    <3> HIDE DEF x, h
    <3>2. x.hash = h
      BY <3>1
    <3> QED
      BY <3>1, <3>2 DEF x, h
  <2>3. IsList(s.forest) /\ DOMAIN s.forest = 1 .. n
    BY <1>1, <1>4, <1>6
  <2> QED
    BY <2>1, <2>2, <2>3 DEF GoodForest
<1> QED
  BY <1>1, <1>3, <1>5, <1>6

\* An archive of an earlier build opens as the workspace of its events.
LEMMA OldOpens ==
    ASSUME NEW old, WrittenEarlier(old)
    PROVE  /\ Restored(UpToDate(old.snapshot), old.version = 1) = {OpenedBy(old)}
           /\ Loaded(old) = {OpenedBy(old)}
           /\ Good(OpenedBy(old))
<1> DEFINE s == old.snapshot
           t == AtFormat(s, Newest)
           ies == InferredEvents(old)
           cs == Contents(ies)
<1>1. /\ old.version \in 1 .. 10 /\ s.schema = old.version /\ IsSnapshot(s)
      /\ s.revisions = [r \in DOMAIN cs |->
            [content |-> cs[r], spec |-> IF old.version = 1 THEN Absent ELSE SpecHash(cs[r])]]
  BY WrittenForm
<1>2. UpToDate(s) = t
  BY <1>1, UpToDateIs
<1>3. /\ GoodEvents(ies)
      /\ ies = IF old.version < 3 THEN Tagged(s.events) ELSE s.events
  BY WrittenReplays
<1>4. GoodForest(t.forest)
  BY WrittenVerifies
<1>5. t.id = s.id /\ t.events = ies
  BY <1>1, <1>3 DEF AtFormat, Newest
<1>6. t.stores = [f \in Later |-> t.stores[f]]
  BY DEF AtFormat
<1>7. t.revisions = IF old.version = 1 THEN Uncached(s.revisions) ELSE s.revisions
  BY <1>1 DEF AtFormat, Newest
<1>8. t.revisions = Cached(ies, old.version = 1)
  <2>1. CASE old.version = 1
    <3> DEFINE rv == s.revisions
    <3> HIDE DEF cs, rv
    <3>1. DOMAIN rv = DOMAIN cs /\ \A r \in DOMAIN cs : rv[r].content = cs[r]
      BY <1>1 DEF rv
    <3>2. Uncached(rv) = [r \in DOMAIN cs |-> [content |-> cs[r], spec |-> None]]
      BY <3>1 DEF Uncached
    <3> QED
      BY <1>7, <2>1, <3>2 DEF Cached, cs, rv
  <2>2. CASE old.version # 1
    BY <1>1, <1>7, <2>2 DEF Cached
  <2> QED
    BY <2>1, <2>2
<1> HIDE DEF t, ies, cs
<1>9. (old.version = 1) \in BOOLEAN
  OBVIOUS
<1>10. Restored(t, old.version = 1) = {WorkspaceOf(t.id, t.events, t.forest, t.stores)}
  BY <1>3, <1>4, <1>5, <1>8, <1>9, RestoredIs
<1>11. WorkspaceOf(t.id, t.events, t.forest, t.stores) = OpenedBy(old)
  BY <1>5 DEF OpenedBy, t, ies
<1>12. Decodes(old)
  <2>1. Torn.version = 0
    BY DEF Torn
  <2>2. old # Torn
    BY <1>1, <2>1
  <2> QED
    BY <1>1, <2>2 DEF Decodes, Supported, Newest
<1>13. Loaded(old) = Restored(t, old.version = 1)
  BY <1>1, <1>2, <1>12 DEF Loaded, Populates
<1>14. Good(OpenedBy(old))
  <2> DEFINE w == OpenedBy(old)
  <2>1. w = [id |-> t.id, events |-> ies, forest |-> t.forest, stores |-> t.stores,
             revisions |-> Revised(ies)]
    BY <1>5, <1>11 DEF WorkspaceOf
  <2> HIDE DEF w
  <2>2. w.id = t.id /\ w.events = ies /\ w.forest = t.forest /\ w.stores = t.stores
    BY <2>1
  <2>3. w = WorkspaceOf(w.id, w.events, w.forest, w.stores)
    BY <2>1, <2>2 DEF WorkspaceOf
  <2>4. Good(w)
    BY <1>3, <1>4, <1>6, <2>2, <2>3 DEF Good
  <2> QED
    BY <2>4 DEF w
<1> QED
  BY <1>2, <1>10, <1>11, <1>13, <1>14

---------------------------------------------------------------------------
\* What the archive of format 1 is cut back to is one that a build of format 2 could have
\* written, and it opens as the same workspace.
LEMMA CutBackOpens ==
    ASSUME NEW old, WrittenEarlier(old), old.version = 1
    PROVE  /\ WrittenEarlier(CutBack(OpenedBy(old))) /\ CutBack(OpenedBy(old)).version = 2
           /\ OpenedBy(CutBack(OpenedBy(old))) = OpenedBy(old)
<1> DEFINE w == OpenedBy(old)
           g == CutBack(w)
           ies == InferredEvents(old)
           n == Len(ies)
           id == old.snapshot.id
           evs == [i \in DOMAIN ies |-> [ies[i] EXCEPT !.semantics = Absent]]
           rv == Revised(ies)
           st == NoStores(2)
           s == [schema |-> 2, id |-> id, revisions |-> rv, forest |-> Absent, events |-> evs,
                 stores |-> st]
<1>1. w.id = id /\ w.events = ies /\ w.revisions = rv
  BY DEF OpenedBy, WorkspaceOf
<1>2. GoodEvents(ies) /\ IsList(ies) /\ n \in Nat /\ DOMAIN ies = 1 .. n /\ ies = [i \in 1 .. n |-> ies[i]]
  BY WrittenReplays, ListFacts DEF GoodEvents
<1>3. \A i \in 1 .. n : ies[i] = [op |-> ies[i].op, hash |-> ies[i].hash, semantics |-> Legacy]
  <2> SUFFICES ASSUME NEW i \in 1 .. n
               PROVE  ies[i] = [op |-> ies[i].op, hash |-> ies[i].hash, semantics |-> Legacy]
    OBVIOUS
  <2> DEFINE e == old.snapshot.events[i]
             op == e.op
             hash == e.hash
             x == ies[i]
  <2>0. DOMAIN ies = DOMAIN old.snapshot.events
    BY DEF InferredEvents
  <2>1. x = [op |-> op, hash |-> hash, semantics |-> Legacy]
    BY <1>2, <2>0 DEF InferredEvents
  <2> HIDE DEF x, op, hash
  <2>2. x.op = op /\ x.hash = hash
    BY <2>1
  <2>3. x = [op |-> x.op, hash |-> x.hash, semantics |-> Legacy]
    BY <2>1, <2>2
  <2> QED
    BY <2>3 DEF x
<1>4. g = [version |-> 2, snapshot |-> s]
  <2> HIDE DEF w, ies, id, rv
  <2> QED
    BY <1>1 DEF CutBack
<1>5. evs = [i \in 1 .. n |-> evs[i]] /\ DOMAIN evs = 1 .. n
  BY <1>2
<1>6. \A i \in 1 .. n : evs[i] = [op |-> ies[i].op, hash |-> ies[i].hash, semantics |-> Absent]
  <2> SUFFICES ASSUME NEW i \in 1 .. n
               PROVE  evs[i] = [op |-> ies[i].op, hash |-> ies[i].hash, semantics |-> Absent]
    OBVIOUS
  <2> DEFINE x == ies[i]
             op == x.op
             hash == x.hash
             y == [x EXCEPT !.semantics = Absent]
  <2>1. x = [op |-> op, hash |-> hash, semantics |-> Legacy]
    BY <1>3
  <2>2. evs[i] = y
    BY <1>2
  <2> HIDE DEF x, op, hash
  <2>3. y = [op |-> op, hash |-> hash, semantics |-> Absent]
    BY <2>1
  <2> QED
    BY <2>2, <2>3 DEF x, op, hash
<1> HIDE DEF evs
<1>7. IsList(evs)
  BY <1>2, <1>5, MakesList
<1>8. s.schema = 2 /\ s.id = id /\ s.revisions = rv /\ s.forest = Absent /\ s.events = evs /\ s.stores = st
  OBVIOUS
<1> HIDE DEF s, rv, st, w, g
<1>9. g.version = 2 /\ g.snapshot = s
  BY <1>4
<1>10. InferredEvents(g) = ies
  <2>1. InferredEvents(g) = [i \in 1 .. n |-> [op |-> evs[i].op, hash |-> evs[i].hash, semantics |-> Legacy]]
    <3>1. g.snapshot.events = evs /\ g.version < 3
      BY <1>8, <1>9
    <3> HIDE DEF n, id
    <3> QED
      BY <1>5, <3>1 DEF InferredEvents
  <2> HIDE DEF ies, n
  <2>2. \A i \in 1 .. n : evs[i].op = ies[i].op /\ evs[i].hash = ies[i].hash
    <3> SUFFICES ASSUME NEW i \in 1 .. n
                 PROVE  evs[i].op = ies[i].op /\ evs[i].hash = ies[i].hash
      OBVIOUS
    <3> DEFINE op == ies[i].op
               hash == ies[i].hash
    <3> HIDE DEF op, hash
    <3>1. evs[i] = [op |-> op, hash |-> hash, semantics |-> Absent]
      BY <1>6 DEF op, hash
    <3>2. evs[i].op = op /\ evs[i].hash = hash
      BY <3>1
    <3> QED
      BY <3>2 DEF op, hash
  <2>3. \A i \in 1 .. n : [op |-> evs[i].op, hash |-> evs[i].hash, semantics |-> Legacy] = ies[i]
    BY <1>3, <2>2
  <2> QED
    BY <1>2, <2>1, <2>3
<1>11. WrittenHeader(g)
  BY <1>4, <1>9 DEF WrittenHeader, Newest
<1>12. WrittenFields(g)
  <2>1. rv = [r \in DOMAIN Contents(ies) |-> [content |-> Contents(ies)[r],
                  spec |-> IF 2 = 1 THEN Absent ELSE SpecHash(Contents(ies)[r])]]
    BY DEF rv, Revised
  <2>2. st = [f \in Later |-> IF f <= 2 THEN st[f] ELSE Absent]
    <3>1. \A f \in Later : ~(f <= 2)
      BY DEF Later
    <3> QED
      BY <3>1 DEF st, NoStores
  <2>3. s = [schema |-> 2, id |-> s.id, events |-> s.events, revisions |-> rv,
             forest |-> Absent, stores |-> st]
    BY <1>8 DEF s
  <2> QED
    BY <1>8, <1>9, <1>10, <2>1, <2>2, <2>3 DEF WrittenFields
<1>13. WrittenEvents(g)
  <2>1. \A i \in 1 .. n : ies[i].semantics = Legacy /\ ies[i].hash = Contents(ies)[i + 1]
    <3>1. \A i \in 1 .. n : ies[i].hash = Contents(ies)[i + 1]
      BY <1>2 DEF GoodEvents
    <3> HIDE DEF ies
    <3>2. \A i \in 1 .. n : ies[i].semantics = Legacy
      <4> SUFFICES ASSUME NEW i \in 1 .. n PROVE ies[i].semantics = Legacy
        OBVIOUS
      <4> DEFINE op == ies[i].op
                 hash == ies[i].hash
                 x == ies[i]
      <4>1. x = [op |-> op, hash |-> hash, semantics |-> Legacy]
        BY <1>3
      <4> HIDE DEF op, hash, x
      <4>2. x.semantics = Legacy
        BY <4>1
      <4> QED
        BY <4>2 DEF x
    <3> QED
      BY <3>1, <3>2
  <2>2. Legacy \in {Legacy, Core} /\ g.version < 3
    BY <1>9
  <2> HIDE DEF ies, n
  <2>3. g.snapshot.events = evs
    BY <1>8, <1>9
  <2>4. \A i \in DOMAIN evs :
            /\ ies[i].semantics \in {Legacy, Core} /\ ies[i].hash = Contents(ies)[i + 1]
            /\ evs[i] = [op |-> ies[i].op, hash |-> ies[i].hash,
                         semantics |-> IF g.version < 3 THEN Absent ELSE ies[i].semantics]
    BY <1>5, <1>6, <2>1, <2>2
  <2> QED
    BY <1>7, <1>10, <2>3, <2>4 DEF WrittenEvents
<1>14. WrittenEarlier(g)
  BY <1>9, <1>11, <1>12, <1>13 DEF WrittenEarlier, WrittenForest
<1>15. OpenedBy(g) = w
  <2>1. old.snapshot.schema = 1
    BY WrittenForm
  <2>2. AtFormat(old.snapshot, Newest).forest = <<>> /\ AtFormat(s, Newest).forest = <<>>
    BY <1>8, <2>1 DEF AtFormat, Newest
  <2>3. /\ AtFormat(old.snapshot, Newest).stores = [f \in Later |-> 0]
        /\ AtFormat(s, Newest).stores = [f \in Later |-> 0]
    <3>1. \A f \in Later : f > 1 /\ f > 2 /\ f <= Newest
      BY DEF Later, Newest
    <3> QED
      BY <1>8, <2>1, <3>1 DEF AtFormat
  <2>4. OpenedBy(g) = WorkspaceOf(id, ies, <<>>, [f \in Later |-> 0])
    BY <1>8, <1>9, <1>10, <2>2, <2>3 DEF OpenedBy
  <2>5. w = WorkspaceOf(id, ies, <<>>, [f \in Later |-> 0])
    BY <2>2, <2>3 DEF OpenedBy, w
  <2> QED
    BY <2>4, <2>5
<1> QED
  BY <1>9, <1>14, <1>15 DEF g, w

---------------------------------------------------------------------------
\* The archive that migrating step by step has made, at each format.
FileAt(file, k) == [version |-> k, snapshot |-> AtFormat(file.snapshot, k)]

Stepped(old, k) ==
    IF old.version # 1 THEN FileAt(old, k)
    ELSE IF k = 1 THEN old ELSE FileAt(CutBack(OpenedBy(old)), k)

\* An archive of format 2 or later, one format on.
LEMMA NextFileAt ==
    ASSUME NEW old, WrittenEarlier(old), old.version >= 2, NEW k \in old.version .. Newest - 1
    PROVE  NextFormat(FileAt(old, k)) = {FileAt(old, k + 1)}
<1>1. old.version \in 1 .. 10 /\ old.snapshot.schema = old.version /\ IsSnapshot(old.snapshot)
  BY WrittenForm
<1>2. Migrated(AtFormat(old.snapshot, k)) = AtFormat(old.snapshot, k + 1)
  BY <1>1, NextAtFormat
<1>3. FileAt(old, k).version = k /\ FileAt(old, k).snapshot = AtFormat(old.snapshot, k)
  BY DEF FileAt
<1>4. k # 1
  BY <1>1 DEF Newest
<1>5. NextFormat(FileAt(old, k)) = {[version |-> k + 1, snapshot |-> AtFormat(old.snapshot, k + 1)]}
  BY <1>2, <1>3, <1>4 DEF NextFormat
<1> QED
  BY <1>5 DEF FileAt

\* An archive that was written is itself at its own format.
LEMMA FileAtOwnFormat ==
    ASSUME NEW old, WrittenEarlier(old)
    PROVE  FileAt(old, old.version) = old
<1>1. old.snapshot.schema = old.version /\ IsSnapshot(old.snapshot)
  BY WrittenForm
<1>2. old = [version |-> old.version, snapshot |-> old.snapshot]
  BY DEF WrittenEarlier, WrittenHeader
<1>3. AtFormat(old.snapshot, old.version) = old.snapshot
  BY <1>1, AtOwnFormat
<1> QED
  BY <1>2, <1>3 DEF FileAt

\* Each step of the migration makes the archive of the next format.
LEMMA NextStepped ==
    ASSUME NEW old, WrittenEarlier(old), NEW k \in old.version .. Newest - 1
    PROVE  NextFormat(Stepped(old, k)) = {Stepped(old, k + 1)}
<1> DEFINE w == OpenedBy(old)
           g == CutBack(w)
<1>0. old.version \in 1 .. 10
  BY WrittenForm
<1>1. old.version \in 1 .. 10 /\ k \in 1 .. 10 /\ old.version <= k
  BY <1>0 DEF Newest
<1>2. CASE old.version # 1
  <2>1. NextFormat(FileAt(old, k)) = {FileAt(old, k + 1)}
    BY <1>1, <1>2, NextFileAt
  <2> QED
    BY <1>2, <2>1 DEF Stepped
<1>3. CASE old.version = 1 /\ k = 1
  <2>1. Restored(UpToDate(old.snapshot), TRUE) = {w}
    BY <1>3, OldOpens
  <2>2. WrittenEarlier(g) /\ g.version = 2
    BY <1>3, CutBackOpens
  <2>3. FileAt(g, 2) = g
    BY <2>2, FileAtOwnFormat
  <2>4. Stepped(old, k) = old /\ Stepped(old, k + 1) = FileAt(g, 2)
    BY <1>3 DEF Stepped
  <2> HIDE DEF w
  <2>5. NextFormat(old) = {g}
    BY <1>3, <2>1 DEF NextFormat
  <2> QED
    BY <2>3, <2>4, <2>5
<1>4. CASE old.version = 1 /\ k # 1
  <2>1. WrittenEarlier(g) /\ g.version = 2
    BY <1>4, CutBackOpens
  <2>2. k \in g.version .. Newest - 1
    BY <1>1, <1>4, <2>1 DEF Newest
  <2>3. NextFormat(FileAt(g, k)) = {FileAt(g, k + 1)}
    BY <2>1, <2>2, NextFileAt
  <2>4. k + 1 # 1
    BY <1>1
  <2> QED
    BY <1>4, <2>3, <2>4 DEF Stepped
<1> QED
  BY <1>2, <1>3, <1>4

\* Migrating step by step up to the newest format.
NextOp(env, fs, i) == UNION {NextFormat(f) : f \in fs}
NextHolds(old, n, fs) == old.version + n <= Newest => fs = {Stepped(old, old.version + n)}
Stepping == INSTANCE FoldFacts WITH Op <- NextOp, Holds <- NextHolds

\* The one archive that is left.
LEMMA StepByStepIs ==
    ASSUME NEW old, WrittenEarlier(old)
    PROVE  StepByStep(old) = {Stepped(old, Newest)}
<1> DEFINE n == Newest - old.version
           steps == [i \in 1 .. n |-> i]
           base == {old}
<1>0. old.version \in 1 .. 10
  BY WrittenForm
<1>1. n \in Nat /\ old.version + n = Newest /\ old.version \in Nat /\ Newest \in Nat /\ old.version + 0 = old.version
  BY <1>0 DEF Newest
<1>2. StepByStep(old) = Stepping!Fold(0, base, steps)
  BY DEF StepByStep, NextOp, Stepping!Fold, Stepping!FoldLeft, FoldLeft,
         Stepping!MapThenFoldSet, MapThenFoldSet, Stepping!Max, Max
<1>3. DOMAIN steps = 1 .. n
  OBVIOUS
<1>4. base = {Stepped(old, old.version)}
  BY FileAtOwnFormat DEF Stepped
<1> HIDE DEF n, steps, base
<1>5. NextHolds(old, 0, base)
  BY <1>1, <1>4 DEF NextHolds
<1>6. ASSUME NEW i \in 1 .. n, NEW fs, NextHolds(old, i - 1, fs)
      PROVE  NextHolds(old, i, NextOp(0, fs, steps[i]))
  <2> DEFINE k == old.version + (i - 1)
  <2>1. k <= Newest /\ k \in old.version .. Newest - 1 /\ k + 1 = old.version + i
    BY <1>1
  <2>2. fs = {Stepped(old, k)}
    BY <1>6, <2>1 DEF NextHolds
  <2>3. NextFormat(Stepped(old, k)) = {Stepped(old, k + 1)}
    BY <2>1, NextStepped
  <2> HIDE DEF k
  <2>4. NextOp(0, fs, steps[i]) = {Stepped(old, k + 1)}
    BY <2>2, <2>3 DEF NextOp
  <2> QED
    BY <2>1, <2>4 DEF NextHolds
<1>7. Stepping!Kept(old, 0, base, steps, n)
  BY <1>5, <1>6 DEF Stepping!Kept
<1>8. NextHolds(old, n, Stepping!Fold(0, base, steps))
  BY <1>1, <1>3, <1>7, Stepping!FoldKeeps
<1> QED
  BY <1>1, <1>2, <1>8 DEF NextHolds

\* At the newest format it loads as it would have at its own.
LEMMA FileAtNewestLoads ==
    ASSUME NEW old, WrittenEarlier(old), old.version >= 2
    PROVE  Loaded(FileAt(old, Newest)) = Loaded(old)
<1> DEFINE s == old.snapshot
           t == AtFormat(s, Newest)
           f == FileAt(old, Newest)
<1>1. old.version \in 1 .. 10 /\ s.schema = old.version /\ IsSnapshot(s)
  BY WrittenForm
<1>2. UpToDate(s) = t
  BY <1>1, UpToDateIs
<1>3. t.schema = Newest
  BY DEF AtFormat
<1>4. IsSnapshot(t)
  <2> DEFINE ev == t.events
             rv == t.revisions
             fo == t.forest
             st == t.stores
  <2>1. t = [schema |-> Newest, id |-> t.id, events |-> ev, revisions |-> rv, forest |-> fo, stores |-> st]
    BY DEF AtFormat
  <2>2. st = [x \in Later |-> st[x]]
    BY DEF AtFormat
  <2> HIDE DEF t
  <2> QED
    BY <1>3, <2>1, <2>2 DEF IsSnapshot, Newest
<1>5. UpToDate(t) = t
  BY <1>3, <1>4, NewestStays
<1>6. f.version = Newest /\ f.snapshot = t
  BY DEF FileAt
<1>7. Torn.version = 0
  BY DEF Torn
<1> HIDE DEF s, t, f
<1>8. Decodes(f) /\ Populates(f) = FALSE
  <2>1. f # Torn
    BY <1>6, <1>7 DEF Newest
  <2> QED
    BY <1>6, <2>1 DEF Decodes, Supported, Populates, Newest
<1>9. Decodes(old) /\ Populates(old) = FALSE
  <2>1. old # Torn
    BY <1>1, <1>7
  <2> QED
    BY <1>1, <2>1 DEF Decodes, Supported, Populates, Newest
<1>10. Loaded(f) = Restored(t, FALSE)
  BY <1>3, <1>5, <1>6, <1>8 DEF Loaded
<1>11. Loaded(old) = Restored(t, FALSE)
  BY <1>1, <1>2, <1>9 DEF Loaded, s
<1> QED
  BY <1>10, <1>11 DEF f

\* Step by step and at once, an old archive is the same workspace.
LEMMA OldMigrates ==
    ASSUME NEW old, WrittenEarlier(old)
    PROVE  UNION {Loaded(f) : f \in StepByStep(old)} = Loaded(old)
<1> DEFINE x == Stepped(old, Newest)
           g == CutBack(OpenedBy(old))
<1>1. old.version \in 1 .. 10
  BY WrittenForm
<1>2. Loaded(x) = Loaded(old)
  <2>1. CASE old.version # 1
    BY <1>1, <2>1, FileAtNewestLoads DEF Stepped
  <2>2. CASE old.version = 1
    <3>1. WrittenEarlier(g) /\ g.version = 2 /\ OpenedBy(g) = OpenedBy(old)
      BY <2>2, CutBackOpens
    <3>2. x = FileAt(g, Newest)
      BY <2>2 DEF Stepped, Newest
    <3>3. Loaded(FileAt(g, Newest)) = Loaded(g)
      BY <3>1, FileAtNewestLoads
    <3>4. Loaded(g) = {OpenedBy(g)} /\ Loaded(old) = {OpenedBy(old)}
      BY <3>1, OldOpens
    <3> QED
      BY <3>1, <3>2, <3>3, <3>4
  <2> QED
    BY <2>1, <2>2
<1>3. StepByStep(old) = {x}
  BY StepByStepIs
<1> HIDE DEF x
<1> QED
  BY <1>2, <1>3

---------------------------------------------------------------------------
\* New workspaces, events and candidates.
LEMMA NewIsGood == ASSUME NEW id PROVE Good(NewWorkspace(id))
<1> DEFINE w == NewWorkspace(id)
           st == NoStores(Newest)
           rv == <<[content |-> <<>>, spec |-> None]>>
<1>1. Contents(<<>>) = <<<<>>>> /\ IsList(<<>>) /\ DOMAIN <<>> = {}
  BY ContentsEmpty, EmptyList
<1>2. SpecHash(<<>>) = None
  BY DEF SpecHash, Frozen
<1>3. Revised(<<>>) = rv
  <2>1. DOMAIN <<<<>>>> = 1 .. 1 /\ <<<<>>>>[1] = <<>>
    OBVIOUS
  <2>2. Revised(<<>>) = [r \in 1 .. 1 |-> [content |-> <<>>, spec |-> None]]
    BY <1>1, <1>2, <2>1 DEF Revised
  <2> QED
    BY <2>2
<1>4. st = [f \in Later |-> st[f]]
  BY DEF NoStores
<1>5. w = [id |-> id, events |-> <<>>, revisions |-> rv, forest |-> <<>>, stores |-> st]
  BY DEF NewWorkspace
<1> HIDE DEF w, st, rv
<1>6. w.id = id /\ w.events = <<>> /\ w.forest = <<>> /\ w.stores = st
  BY <1>5
<1>7. w = WorkspaceOf(w.id, w.events, w.forest, w.stores)
  BY <1>3, <1>5, <1>6 DEF WorkspaceOf
<1>8. GoodEvents(<<>>) /\ GoodForest(<<>>)
  BY <1>1 DEF GoodEvents, GoodForest
<1>9. Good(w)
  BY <1>4, <1>6, <1>7, <1>8 DEF Good
<1> QED
  BY <1>9 DEF w

\* One event more is one revision more.
LEMMA RevisedAppend ==
    ASSUME NEW events, IsList(events), NEW e
    PROVE  LET content == Made(Last(Contents(events)), e.op, e.semantics)
           IN Revised(Append(events, e)) =
                 Append(Revised(events), [content |-> content, spec |-> SpecHash(content)])
<1> DEFINE cs == Contents(events)
           n == Len(events)
           content == Made(Last(cs), e.op, e.semantics)
           more == Contents(Append(events, e))
           rv == Revised(events)
           rev == [content |-> content, spec |-> SpecHash(content)]
           now == Append(rv, rev)
<1>1. n \in Nat /\ IsList(cs) /\ Len(cs) = n + 1 /\ DOMAIN cs = 1 .. n + 1
  BY ContentsList, ListFacts
<1>2. more = Append(cs, content)
  BY ContentsAppend
<1>3. rv = [r \in 1 .. n + 1 |-> [content |-> cs[r], spec |-> SpecHash(cs[r])]]
  BY <1>1 DEF Revised
<1>4. IsList(rv) /\ Len(rv) = n + 1
  <2>1. n + 1 \in Nat /\ rv = [r \in 1 .. n + 1 |-> rv[r]]
    BY <1>1, <1>3
  <2> HIDE DEF rv, n
  <2> QED
    BY <2>1, MakesList
<1> HIDE DEF cs, n, content, more, rv, rev
<1>5. /\ DOMAIN more = 1 .. n + 2 /\ more[n + 2] = content
      /\ \A r \in 1 .. n + 1 : more[r] = cs[r]
  <2>1. MoreBy(cs, n + 1, content, more)
    BY <1>1, <1>2, ListAppend
  <2>2. (n + 1) + 1 = n + 2
    BY <1>1
  <2> QED
    BY <2>1, <2>2 DEF MoreBy
<1>6. /\ IsList(now) /\ DOMAIN now = 1 .. n + 2 /\ now[n + 2] = rev
      /\ \A r \in 1 .. n + 1 : now[r] = rv[r]
  <2>1. MoreBy(rv, n + 1, rev, now)
    BY <1>4, ListAppend
  <2>2. (n + 1) + 1 = n + 2
    BY <1>1
  <2> QED
    BY <2>1, <2>2 DEF MoreBy
<1>7. now = [r \in 1 .. n + 2 |-> now[r]]
  <2> HIDE DEF now
  <2>1. now = [r \in 1 .. Len(now) |-> now[r]] /\ DOMAIN now = 1 .. Len(now)
    BY <1>6, ListFacts
  <2> QED
    BY <1>6, <2>1
<1> HIDE DEF now
<1>8. \A r \in 1 .. n + 2 : now[r] = [content |-> more[r], spec |-> SpecHash(more[r])]
  <2> SUFFICES ASSUME NEW r \in 1 .. n + 2
               PROVE  now[r] = [content |-> more[r], spec |-> SpecHash(more[r])]
    OBVIOUS
  <2>1. CASE r = n + 2
    BY <1>5, <1>6, <2>1 DEF rev
  <2>2. CASE r # n + 2
    <3>1. r \in 1 .. n + 1
      BY <1>1, <2>2
    <3>2. rv[r] = [content |-> cs[r], spec |-> SpecHash(cs[r])]
      BY <1>3, <3>1
    <3> QED
      BY <1>5, <1>6, <3>1, <3>2
  <2> QED
    BY <2>1, <2>2
<1>9. Revised(Append(events, e)) = [r \in 1 .. n + 2 |-> [content |-> more[r], spec |-> SpecHash(more[r])]]
  BY <1>5 DEF Revised, more
<1>10. Revised(Append(events, e)) = now
  BY <1>7, <1>8, <1>9
<1> QED
  BY <1>10 DEF now, rv, rev, content, cs

\* The content at the head of a workspace is what its events come to.
LEMMA HeadIs ==
    ASSUME NEW w, Good(w)
    PROVE  HeadContent(w) = Last(Contents(w.events))
<1> DEFINE cs == Contents(w.events)
           n == Len(w.events)
           rv == w.revisions
<1>1. n \in Nat /\ IsList(cs) /\ Len(cs) = n + 1 /\ DOMAIN cs = 1 .. n + 1
  BY ContentsList, ListFacts DEF Good, GoodEvents
<1>2. rv = Revised(w.events)
  BY DEF Good, WorkspaceOf
<1>3. rv = [r \in 1 .. n + 1 |-> [content |-> cs[r], spec |-> SpecHash(cs[r])]]
  BY <1>1, <1>2 DEF Revised
<1> HIDE DEF cs, n, rv
<1>4. Len(rv) = n + 1
  <2>1. n + 1 \in Nat /\ rv = [r \in 1 .. n + 1 |-> rv[r]]
    BY <1>1, <1>3
  <2> QED
    BY <2>1, MakesList
<1>5. rv[n + 1] = [content |-> cs[n + 1], spec |-> SpecHash(cs[n + 1])]
  BY <1>1, <1>3
<1>6. rv[n + 1].content = cs[n + 1]
  BY <1>5
<1> QED
  BY <1>1, <1>4, <1>6 DEF HeadContent, Last, rv, cs

\* A workspace with one event more.
LEMMA AppliedIsGood == ASSUME NEW w, Good(w), NEW op PROVE Good(Applied(w, op))
<1> DEFINE content == Made(HeadContent(w), op, Core)
           e == [op |-> op, hash |-> content, semantics |-> Core]
           rev == [content |-> content, spec |-> SpecHash(content)]
           evs == Append(w.events, e)
           rvs == Append(w.revisions, rev)
           id == w.id
           fo == w.forest
           st == w.stores
           n == Len(w.events)
           y == [w EXCEPT !.events = evs, !.revisions = rvs]
<1>1. Applied(w, op) = y
  BY DEF Applied
<1>2. /\ w = [id |-> id, events |-> w.events, forest |-> fo, stores |-> st, revisions |-> w.revisions]
      /\ w.revisions = Revised(w.events)
  <2> DEFINE rv == Revised(w.events)
             ev == w.events
  <2>1. w = [id |-> id, events |-> ev, forest |-> fo, stores |-> st, revisions |-> rv]
    BY DEF Good, WorkspaceOf
  <2> HIDE DEF rv, ev, id, fo, st
  <2>2. w.revisions = rv
    BY <2>1
  <2> QED
    BY <2>1, <2>2 DEF rv, ev
<1>3. GoodEvents(w.events) /\ IsList(w.events) /\ GoodForest(fo) /\ st = [f \in Later |-> st[f]]
  BY DEF Good, GoodEvents
<1>4. content = Made(Last(Contents(w.events)), e.op, e.semantics)
  BY HeadIs
<1>5. Contents(evs) = Append(Contents(w.events), content)
  BY <1>3, <1>4, ContentsAppend
<1>6. Revised(evs) = rvs
  BY <1>2, <1>3, <1>4, RevisedAppend
<1>7. e.semantics = Core /\ e.hash = content
  OBVIOUS
<1>8. /\ IsList(evs) /\ n \in Nat /\ DOMAIN evs = 1 .. n + 1 /\ evs[n + 1] = e
      /\ DOMAIN w.events = 1 .. n /\ \A i \in 1 .. n : evs[i] = w.events[i]
  <2> HIDE DEF e
  <2>1. MoreBy(w.events, n, e, evs)
    BY <1>3, ListAppend
  <2> HIDE DEF n, evs
  <2> QED
    BY <2>1 DEF MoreBy
<1> DEFINE ev == w.events
           rv == w.revisions
<1> HIDE DEF content, e, rev, evs, rvs, id, fo, st
<1>9. y = [id |-> id, events |-> evs, forest |-> fo, stores |-> st, revisions |-> rvs]
  <2>1. w = [id |-> id, events |-> ev, forest |-> fo, stores |-> st, revisions |-> rv]
    BY <1>2
  <2>2. y = [w EXCEPT !.events = evs, !.revisions = rvs]
    OBVIOUS
  <2> HIDE DEF ev, rv, y
  <2> QED
    BY <2>1, <2>2
<1> HIDE DEF y
<1>10. y.id = id /\ y.events = evs /\ y.forest = fo /\ y.stores = st
  BY <1>9
<1>11. y = WorkspaceOf(y.id, y.events, y.forest, y.stores)
  BY <1>6, <1>9, <1>10 DEF WorkspaceOf
<1>12. GoodEvents(evs)
  <2> DEFINE cs == Contents(w.events)
  <2>1. IsList(cs) /\ Len(cs) = n + 1
    BY <1>3, ContentsList
  <2> HIDE DEF cs
  <2>2. /\ \A i \in 1 .. n + 1 : Contents(evs)[i] = cs[i]
        /\ Contents(evs)[n + 2] = content
    <3>1. MoreBy(cs, n + 1, content, Contents(evs))
      BY <1>5, <2>1, ListAppend DEF cs
    <3>2. (n + 1) + 1 = n + 2
      BY <1>8
    <3> QED
      BY <3>1, <3>2 DEF MoreBy
  <2>3. ASSUME NEW i \in 1 .. n + 1
        PROVE  evs[i].semantics \in {Legacy, Core} /\ evs[i].hash = Contents(evs)[i + 1]
    <3>1. CASE i = n + 1
      <4>1. i + 1 = n + 2
        BY <1>8, <3>1
      <4> QED
        BY <1>7, <1>8, <2>2, <3>1, <4>1
    <3>2. CASE i # n + 1
      <4>1. i \in 1 .. n /\ i + 1 \in 1 .. n + 1
        BY <1>8, <3>2
      <4>2. w.events[i].semantics \in {Legacy, Core} /\ w.events[i].hash = cs[i + 1]
        BY <1>3, <1>8, <4>1 DEF GoodEvents, cs
      <4> QED
        BY <1>8, <2>2, <4>1, <4>2
    <3> QED
      BY <3>1, <3>2
  <2> QED
    BY <1>8, <2>3 DEF GoodEvents
<1>13. Good(y)
  BY <1>3, <1>10, <1>11, <1>12 DEF Good
<1> QED
  BY <1>1, <1>13

\* A workspace with one candidate more.
LEMMA WithCandidateIsGood ==
    ASSUME NEW w, Good(w), NEW codec \in Codecs
    PROVE  Good(WithCandidate(w, codec))
<1> DEFINE of == Len(w.revisions)
           c == [of |-> of, codec |-> codec, hash |-> CandidateHash(of, codec)]
           fo == Append(w.forest, c)
           id == w.id
           ev == w.events
           st == w.stores
           rv == w.revisions
           n == Len(w.forest)
           y == [w EXCEPT !.forest = fo]
<1>1. WithCandidate(w, codec) = y
  BY DEF WithCandidate
<1>2. /\ w = [id |-> id, events |-> ev, forest |-> w.forest, stores |-> st, revisions |-> rv]
      /\ rv = Revised(ev)
  <2> DEFINE rw == Revised(ev)
             f == w.forest
  <2>1. w = [id |-> id, events |-> ev, forest |-> f, stores |-> st, revisions |-> rw]
    BY DEF Good, WorkspaceOf
  <2> HIDE DEF rw, f, ev, id, st
  <2>2. w.revisions = rw
    BY <2>1
  <2> QED
    BY <2>1, <2>2 DEF rw, f
<1>3. GoodEvents(ev) /\ GoodForest(w.forest) /\ st = [f \in Later |-> st[f]]
  BY DEF Good
<1>4. codec \in 1 .. 3 /\ c.codec = codec /\ c.hash = CandidateHash(c.of, c.codec)
  BY CodecsAssumption
<1> HIDE DEF c, of
<1>5. /\ IsList(fo) /\ n \in Nat /\ DOMAIN fo = 1 .. n + 1 /\ fo[n + 1] = c
      /\ DOMAIN w.forest = 1 .. n /\ \A i \in 1 .. n : fo[i] = w.forest[i]
  <2>1. IsList(w.forest)
    BY <1>3 DEF GoodForest
  <2>2. MoreBy(w.forest, n, c, fo)
    BY <2>1, ListAppend
  <2> HIDE DEF n, fo
  <2> QED
    BY <2>2 DEF MoreBy
<1> HIDE DEF fo, id, ev, st, rv
<1>6. y = [id |-> id, events |-> ev, forest |-> fo, stores |-> st, revisions |-> rv]
  BY <1>2
<1> HIDE DEF y
<1>7. y.id = id /\ y.events = ev /\ y.forest = fo /\ y.stores = st
  BY <1>6
<1>8. y = WorkspaceOf(y.id, y.events, y.forest, y.stores)
  BY <1>2, <1>6, <1>7 DEF WorkspaceOf
<1>9. GoodForest(fo)
  <2>1. ASSUME NEW i \in 1 .. n + 1
        PROVE  fo[i].codec \in 1 .. 3 /\ fo[i].hash = CandidateHash(fo[i].of, fo[i].codec)
    <3>1. CASE i = n + 1
      BY <1>4, <1>5, <3>1
    <3>2. CASE i # n + 1
      <4>1. i \in 1 .. n
        BY <1>5, <3>2
      <4> QED
        BY <1>3, <1>5, <4>1 DEF GoodForest
    <3> QED
      BY <3>1, <3>2
  <2> QED
    BY <1>5, <2>1 DEF GoodForest
<1>10. Good(y)
  BY <1>3, <1>7, <1>8, <1>9 DEF Good
<1> QED
  BY <1>1, <1>10

---------------------------------------------------------------------------
\* Every open workspace is good, and so is the one in whatever a process is saving and in
\* whatever was published since the earlier builds.
GoodData(data) == \E w \in Loaded(data) : Good(w) /\ data = Archived(w)

GoodProcess(p) ==
    /\ \A id \in DOMAIN p.open : Good(p.open[id])
    /\ p.job # None => GoodData(p.job.data)

LInv ==
    /\ \A pid \in DOMAIN procs : GoodProcess(procs[pid])
    /\ \A path \in Paths : \A data \in published[path] : data \in OldArchives \/ GoodData(data)

\* What a good workspace is saved as.
LEMMA ArchivedIsGood == ASSUME NEW w, Good(w) PROVE GoodData(Archived(w))
  BY GoodLoads DEF GoodData

\* What is at a path opens as one workspace.
LEMMA PathLoads ==
    ASSUME IInv, LInv, NEW path \in Paths, Exists(path)
    PROVE  \E w : Loaded(files[path].data) = {w} /\ Good(w)
<1> DEFINE data == files[path].data
<1>1. data \in published[path]
  BY DEF IInv, SoundPath, Published, Former, Exists
<1>2. CASE data \in OldArchives
  BY <1>2, OldArchivesAssumption, OldOpens
<1>3. CASE GoodData(data)
  BY <1>3, GoodLoads DEF GoodData
<1> QED
  BY <1>1, <1>2, <1>3 DEF LInv

\* A step of one process that publishes nothing.
LEMMA OneProcessLoads ==
    ASSUME LInv, published' = published,
           NEW pid \in DOMAIN procs, NEW p, procs' = [procs EXCEPT ![pid] = p], GoodProcess(p)
    PROVE  LInv'
  BY DEF LInv

\* A process that puts a good workspace in its place.
LEMMA PutLoads ==
    ASSUME IInv, LInv, NEW pid \in DOMAIN procs, NEW w, Good(w), Put(pid, w)
    PROVE  LInv'
<1> DEFINE q == procs[pid]
           open == With(q.open, w.id, w)
           p == [q EXCEPT !.open = open]
<1>1. procs' = [procs EXCEPT ![pid] = p] /\ published' = published
  BY DEF Put
<1>2. IsProcess(q) /\ GoodProcess(q)
  BY DEF IInv, Shapes, LInv
<1>3. \A id \in DOMAIN open : Good(open[id])
  BY <1>2 DEF With, GoodProcess
<1> HIDE DEF q, open
<1>4. p.open = open /\ p.job = q.job
  BY <1>2 DEF IsProcess
<1> HIDE DEF p
<1>5. GoodProcess(p)
  BY <1>2, <1>3, <1>4 DEF GoodProcess
<1> QED
  BY <1>1, <1>5, OneProcessLoads

\* A process with another job, of good data.
LEMMA JobLoads ==
    ASSUME IInv, LInv, published' = published,
           NEW pid \in DOMAIN procs, NEW job, procs' = [procs EXCEPT ![pid].job = job],
           job # None => GoodData(job.data)
    PROVE  LInv'
<1> DEFINE q == procs[pid]
           p == [q EXCEPT !.job = job]
<1>1. procs' = [procs EXCEPT ![pid] = p]
  OBVIOUS
<1>2. IsProcess(q) /\ GoodProcess(q)
  BY DEF IInv, Shapes, LInv
<1> HIDE DEF q
<1>3. p.open = q.open /\ p.job = job
  BY <1>2 DEF IsProcess
<1> HIDE DEF p
<1>4. GoodProcess(p)
  BY <1>2, <1>3 DEF GoodProcess
<1> QED
  BY <1>1, <1>4, OneProcessLoads

\* The data of a running job are good.
LEMMA RunsGood ==
    ASSUME IInv, LInv, NEW pid, NEW stage, At(pid, stage)
    PROVE  /\ pid \in DOMAIN procs /\ IsJob(Running(pid)) /\ Running(pid).path \in Paths
           /\ GoodData(Running(pid).data)
  BY DEF At, Running, IInv, SoundProcess, SoundJob, LInv, GoodProcess

\* A new process has nothing open.
LEMMA StartLoads == ASSUME LInv, StartProcess PROVE LInv'
<1> DEFINE p == [open |-> [w \in {} |-> None], next |-> 0, seq |-> 0, job |-> None]
<1>1. PICK pid \in Pids \ DOMAIN procs : procs' = With(procs, pid, p)
  BY DEF StartProcess
<1>2. published' = published
  BY DEF StartProcess
<1>3. GoodProcess(p)
  <2>1. p.open = [w \in {} |-> None] /\ p.job = None
    OBVIOUS
  <2>2. DOMAIN p.open = {}
    BY <2>1
  <2> QED
    BY <2>1, <2>2 DEF GoodProcess
<1> HIDE DEF p
<1>4. /\ DOMAIN procs' = DOMAIN procs \cup {pid} /\ procs'[pid] = p
      /\ \A q \in DOMAIN procs : procs'[q] = procs[q]
  BY <1>1 DEF With
<1> QED
  BY <1>2, <1>3, <1>4 DEF LInv

\* A new workspace.
LEMMA OpenLoads == ASSUME IInv, LInv, WorkspaceOpen PROVE LInv'
<1>1. PICK pid \in DOMAIN procs : \E next, id, open :
         /\ procs' = [procs EXCEPT ![pid].next = next, ![pid].open = open]
         /\ open = procs[pid].open \/ open = With(procs[pid].open, id, NewWorkspace(id))
  BY DEF WorkspaceOpen
<1>2. PICK next, id, open :
         /\ procs' = [procs EXCEPT ![pid].next = next, ![pid].open = open]
         /\ open = procs[pid].open \/ open = With(procs[pid].open, id, NewWorkspace(id))
  BY <1>1
<1> DEFINE q == procs[pid]
           m == [q EXCEPT !.next = next]
           p == [m EXCEPT !.open = open]
<1>3. procs' = [procs EXCEPT ![pid] = p]
  BY <1>2
<1>4. IsProcess(q) /\ GoodProcess(q)
  BY DEF IInv, Shapes, LInv
<1>5. \A i \in DOMAIN open : Good(open[i])
  BY <1>2, <1>4, NewIsGood DEF With, GoodProcess
<1> HIDE DEF q
<1>6. IsProcess(m) /\ m.job = q.job
  BY <1>4 DEF IsProcess
<1> HIDE DEF m
<1>7. p.open = open /\ p.job = q.job
  BY <1>6 DEF IsProcess
<1> HIDE DEF p
<1>8. GoodProcess(p)
  BY <1>4, <1>5, <1>7 DEF GoodProcess
<1>9. published' = published
  BY DEF WorkspaceOpen
<1> QED
  BY <1>3, <1>8, <1>9, OneProcessLoads

\* An event or a candidate more.
LEMMA EditLoads == ASSUME IInv, LInv, Edit PROVE LInv'
<1>1. PICK pid \in DOMAIN procs : \E id \in OpenIn(pid) :
         \/ \E op \in Ops : Put(pid, Applied(procs[pid].open[id], op))
         \/ \E codec \in Codecs : Put(pid, WithCandidate(procs[pid].open[id], codec))
  BY DEF Edit
<1>2. PICK id \in OpenIn(pid) :
         \/ \E op \in Ops : Put(pid, Applied(procs[pid].open[id], op))
         \/ \E codec \in Codecs : Put(pid, WithCandidate(procs[pid].open[id], codec))
  BY <1>1
<1>3. Good(procs[pid].open[id])
  BY DEF LInv, GoodProcess, OpenIn
<1>4. ASSUME NEW op \in Ops, Put(pid, Applied(procs[pid].open[id], op)) PROVE LInv'
  BY <1>3, <1>4, AppliedIsGood, PutLoads
<1>5. ASSUME NEW codec \in Codecs, Put(pid, WithCandidate(procs[pid].open[id], codec)) PROVE LInv'
  BY <1>3, <1>5, WithCandidateIsGood, PutLoads
<1> QED
  BY <1>2, <1>4, <1>5

\* What a path opens as.
LEMMA LoadLoads == ASSUME IInv, LInv, WorkspaceLoad PROVE LInv'
<1>1. PICK pid \in DOMAIN procs, path \in Paths :
         Exists(path) /\ \E w \in Loaded(files[path].data) : Put(pid, w)
  BY DEF WorkspaceLoad
<1>2. PICK w \in Loaded(files[path].data) : Put(pid, w)
  BY <1>1
<1>3. Good(w)
  BY <1>1, PathLoads
<1> QED
  BY <1>2, <1>3, PutLoads

\* A save or a migration begins with the archive of a good workspace.
LEMMA BeginLoads ==
    ASSUME IInv, LInv, NEW pid \in DOMAIN procs, NEW stage, NEW path, NEW w, Good(w), NEW overwrite,
           WithJob(pid, Job(stage, path, Archived(w), overwrite))
    PROVE  LInv'
<1> DEFINE job == Job(stage, path, Archived(w), overwrite)
<1>1. GoodData(job.data)
  BY ArchivedIsGood DEF Job
<1>2. procs' = [procs EXCEPT ![pid].job = job] /\ published' = published
  BY DEF WithJob
<1> HIDE DEF job
<1> QED
  BY <1>1, <1>2, JobLoads

\* A save of an open workspace.
LEMMA SaveLoads == ASSUME IInv, LInv, WorkspaceSave PROVE LInv'
<1>1. PICK pid \in DOMAIN procs : \E id \in OpenIn(pid), path \in Paths :
         WithJob(pid, Job("create", path, Archived(procs[pid].open[id]), TRUE))
  BY DEF WorkspaceSave
<1>2. PICK id \in OpenIn(pid), path \in Paths :
         WithJob(pid, Job("create", path, Archived(procs[pid].open[id]), TRUE))
  BY <1>1
<1>3. Good(procs[pid].open[id])
  BY DEF LInv, GoodProcess, OpenIn
<1> QED
  BY <1>2, <1>3, BeginLoads

\* A migration of what a path opens as.
LEMMA MigrateLoads == ASSUME IInv, LInv, WorkspaceMigrate PROVE LInv'
<1>1. PICK pid \in DOMAIN procs, source \in Paths, destination \in Paths, overwrite \in BOOLEAN :
         /\ Exists(source)
         /\ \E w \in Loaded(files[source].data) :
               WithJob(pid, Job("look", destination, Archived(w), overwrite))
  BY DEF WorkspaceMigrate
<1>2. PICK w \in Loaded(files[source].data) :
         WithJob(pid, Job("look", destination, Archived(w), overwrite))
  BY <1>1
<1>3. Good(w)
  BY <1>1, PathLoads
<1> QED
  BY <1>2, <1>3, BeginLoads

\* A look at the destination.
LEMMA LookLoads == ASSUME IInv, LInv, Look PROVE LInv'
<1>1. PICK pid \in Pids :
         /\ At(pid, "look")
         /\ LET job == Running(pid)
            IN WithJob(pid, IF Exists(job.path) /\ ~job.overwrite THEN None
                            ELSE [job EXCEPT !.stage = "create", !.overwrite = TRUE])
  BY DEF Look
<1>2. PICK yes : yes = TRUE
  OBVIOUS
<1> DEFINE job == Running(pid)
           seen == [job EXCEPT !.stage = "create"]
           next == [seen EXCEPT !.overwrite = yes]
<1>3. pid \in DOMAIN procs /\ IsJob(job) /\ GoodData(job.data)
  BY <1>1, RunsGood
<1>4. /\ \/ procs' = [procs EXCEPT ![pid].job = None]
         \/ procs' = [procs EXCEPT ![pid].job = next]
      /\ published' = published
  BY <1>1, <1>2 DEF WithJob
<1> HIDE DEF job
<1>5. IsJob(seen) /\ seen.data = job.data
  BY <1>3 DEF IsJob
<1> HIDE DEF seen
<1>6. next.data = job.data
  BY <1>5 DEF IsJob
<1> HIDE DEF next
<1> QED
  BY <1>3, <1>4, <1>6, JobLoads

\* A temporary file.
LEMMA CreateLoads == ASSUME IInv, LInv, CreateTemp PROVE LInv'
<1>1. PICK pid \in Pids :
         /\ At(pid, "create")
         /\ LET job == Running(pid)
                temp == TempName(job.path, pid, procs[pid].seq)
            IN procs' = [procs EXCEPT ![pid].seq = @ + 1,
                            ![pid].job = IF Exists(temp) THEN None
                                         ELSE [job EXCEPT !.stage = "write", !.temp = temp]]
  BY DEF CreateTemp
<1> DEFINE q == procs[pid]
           job == q.job
           temp == TempName(job.path, pid, q.seq)
           staged == [job EXCEPT !.stage = "write"]
           named == [staged EXCEPT !.temp = temp]
           next == IF Exists(temp) THEN None ELSE named
           m == [q EXCEPT !.seq = q.seq + 1]
           p == [m EXCEPT !.job = next]
<1>2. pid \in DOMAIN procs /\ IsJob(job) /\ GoodData(job.data)
  BY <1>1, RunsGood DEF Running
<1>3. IsProcess(q) /\ GoodProcess(q)
  BY <1>2 DEF IInv, Shapes, LInv
<1>4. procs' = [procs EXCEPT ![pid] = p] /\ published' = published
  BY <1>1 DEF CreateTemp, Running
<1> HIDE DEF temp, job, q
<1>5. IsJob(staged) /\ staged.data = job.data
  BY <1>2 DEF IsJob
<1> HIDE DEF staged
<1>6. named.data = job.data
  BY <1>5 DEF IsJob
<1> HIDE DEF named
<1>7. next # None => GoodData(next.data)
  BY <1>2, <1>6
<1> HIDE DEF next
<1>8. IsProcess(m) /\ m.open = q.open
  BY <1>3 DEF IsProcess
<1> HIDE DEF m
<1>9. p.open = q.open /\ p.job = next
  BY <1>8 DEF IsProcess
<1> HIDE DEF p
<1>10. GoodProcess(p)
  BY <1>3, <1>7, <1>9 DEF GoodProcess
<1> QED
  BY <1>2, <1>4, <1>10, OneProcessLoads

\* A job that goes on to another stage keeps its data.
LEMMA StageLoads ==
    ASSUME IInv, LInv, NEW pid, NEW stage, At(pid, stage), NEW next,
           WithJob(pid, [Running(pid) EXCEPT !.stage = next])
    PROVE  LInv'
<1> DEFINE job == Running(pid)
           on == [job EXCEPT !.stage = next]
<1>1. pid \in DOMAIN procs /\ IsJob(job) /\ GoodData(job.data)
  BY RunsGood
<1>2. procs' = [procs EXCEPT ![pid].job = on] /\ published' = published
  BY DEF WithJob
<1> HIDE DEF job
<1>3. on.data = job.data
  BY <1>1 DEF IsJob
<1> HIDE DEF on
<1> QED
  BY <1>1, <1>2, <1>3, JobLoads

\* A write.
LEMMA WriteLoads == ASSUME IInv, LInv, WriteTemp PROVE LInv'
  BY StageLoads DEF WriteTemp

\* A sync.
LEMMA SyncLoads == ASSUME IInv, LInv, SyncTemp PROVE LInv'
  BY StageLoads DEF SyncTemp

\* A rename publishes what was saved.
LEMMA RenameLoads == ASSUME IInv, LInv, Rename PROVE LInv'
<1>1. PICK pid \in Pids :
         /\ At(pid, "rename")
         /\ published' = [published EXCEPT ![Running(pid).path] = @ \cup {Running(pid).data}]
         /\ procs' = [procs EXCEPT ![pid].job = None]
  BY DEF Rename
<1> DEFINE p == [procs[pid] EXCEPT !.job = None]
<1>2. pid \in DOMAIN procs /\ Running(pid).path \in Paths /\ GoodData(Running(pid).data)
  BY <1>1, RunsGood
<1>3. IsProcess(procs[pid]) /\ GoodProcess(procs[pid]) /\ DOMAIN published = Paths
  BY <1>2 DEF IInv, Shapes, LInv
<1>4. procs' = [procs EXCEPT ![pid] = p]
  BY <1>1
<1>5. p.open = procs[pid].open /\ p.job = None
  BY <1>3 DEF IsProcess
<1> HIDE DEF p
<1>6. GoodProcess(p)
  BY <1>3, <1>5 DEF GoodProcess
<1>7. \A q \in DOMAIN procs' : GoodProcess(procs'[q])
  BY <1>2, <1>4, <1>6 DEF LInv
<1>8. \A path \in Paths : \A data \in published'[path] : data \in OldArchives \/ GoodData(data)
  BY <1>1, <1>2, <1>3 DEF LInv
<1> QED
  BY <1>7, <1>8 DEF LInv

\* A failed call gives the job up.
LEMMA FailLoads == ASSUME IInv, LInv, CallFails PROVE LInv'
<1>1. PICK pid \in Pids :
         /\ \E stage \in {"write", "sync", "rename"} : At(pid, stage)
         /\ procs' = [procs EXCEPT ![pid].job = None]
  BY DEF CallFails
<1>2. pid \in DOMAIN procs
  BY <1>1 DEF At
<1>3. published' = published
  BY DEF CallFails
<1> QED
  BY <1>1, <1>2, <1>3, JobLoads

\* A death, and a loss of power.
LEMMA FaultLoads == ASSUME LInv, ProcessDies \/ PowerLoss PROVE LInv'
<1>1. CASE ProcessDies
  <2>1. PICK pid \in DOMAIN procs : procs' = Without(procs, pid)
    BY <1>1 DEF ProcessDies
  <2>2. DOMAIN procs' \subseteq DOMAIN procs /\ \A q \in DOMAIN procs' : procs'[q] = procs[q]
    BY <2>1 DEF Without
  <2> QED
    BY <1>1, <2>2 DEF LInv, ProcessDies
<1>2. CASE PowerLoss
  <2>1. procs' = [p \in {} |-> None] /\ published' = published
    BY <1>2 DEF PowerLoss
  <2> QED
    BY <2>1 DEF LInv
<1> QED
  BY <1>1, <1>2

\* Old archives only.
LEMMA InitLoads == Init => LInv
<1> SUFFICES ASSUME Init PROVE LInv
  OBVIOUS
<1>1. procs = [p \in {} |-> None]
  BY DEF Init
<1>2. \A path \in Paths : published[path] \subseteq OldArchives
  BY DEF Init
<1> QED
  BY <1>1, <1>2 DEF LInv

\* What a step of any process, or none, does.
LEMMA StepLoads == ASSUME IInv, LInv, [Next]_vars PROVE LInv'
<1>1. CASE UNCHANGED vars
  BY <1>1 DEF vars, LInv
<1> QED
  BY <1>1, StartLoads, OpenLoads, EditLoads, LoadLoads, SaveLoads, MigrateLoads, LookLoads, CreateLoads,
     WriteLoads, SyncLoads, RenameLoads, FailLoads, FaultLoads DEF Next

(***************************************************************************)
(* Every workspace that is open, being saved or published is one its       *)
(* events replay to.                                                       *)
(***************************************************************************)
THEOREM WorkspacesReplay == Spec => []LInv
<1>1. Init => LInv
  BY InitLoads
<1>2. IInv /\ LInv /\ [Next]_vars => LInv'
  BY StepLoads
<1> QED
  BY <1>1, <1>2, ArchivesInductive, PTL DEF Spec

(***************************************************************************)
(* Every open workspace could be saved and loaded back unchanged, and      *)
(* every archive at a path can be loaded, whatever was migrated, saved,    *)
(* interrupted or lost before (agentir-store lib.rs:1256, load_archive).   *)
(***************************************************************************)
THEOREM SavesLoad == Spec => []SavedIsLoaded
<1>1. IInv /\ LInv => SavedIsLoaded
  <2> SUFFICES ASSUME IInv, LInv PROVE SavedIsLoaded
    OBVIOUS
  <2>1. ASSUME NEW pid \in DOMAIN procs, NEW id \in OpenIn(pid)
        PROVE  Loaded(Archived(procs[pid].open[id])) = {procs[pid].open[id]}
    BY GoodLoads DEF LInv, GoodProcess, OpenIn
  <2>2. ASSUME NEW file \in AtPaths PROVE Loaded(file) # {}
    BY PathLoads DEF AtPaths, Exists
  <2> QED
    BY <2>1, <2>2 DEF SavedIsLoaded
<1> QED
  BY <1>1, ArchivesInductive, WorkspacesReplay, PTL

(***************************************************************************)
(* Migrating an old archive one format at a time gives the workspace that  *)
(* loading it gives (agentir-store lib.rs:1366-1690), for every archive an *)
(* earlier build could have written, whatever its format, events and       *)
(* candidates.                                                             *)
(***************************************************************************)
THEOREM MigrationsGiveTheSame == Spec => []MigrationsAgree
<1>1. MigrationsAgree
  BY OldArchivesAssumption, OldMigrates DEF MigrationsAgree
<1> QED
  BY <1>1, PTL
=============================================================================
