-------------------------------- MODULE Recovery --------------------------------
(****************************************************************************)
(* Stage 7D: recovery journals (agentir-policy-eval/src/recovery.rs) in the *)
(* registry of the evaluation protocol, beside the Stage 7C sessions they   *)
(* protect.  A journal freezes, before hardware is used, which records the  *)
(* store held; after a crash it tells from the records that appeared since  *)
(* whether its slot was measured.                                           *)
(*                                                                          *)
(* A journal's trace and counters only grow, so each mutation makes it a    *)
(* value it never had: a checkpoint is exact until the next mutation.       *)
(****************************************************************************)
EXTENDS Acquisition

CONSTANTS
    Synthetic,       \* the store is the fixture store, which lives in the process
    MaxAttempts,     \* bound: prepared attempts of a journal (retry_attempts)
    NoJournal,       \* no journal with this identity
    NoArchive        \* nothing was saved

ASSUME RecoveryAssumption == Synthetic \in BOOLEAN /\ MaxAttempts \in Nat \ {0}

VARIABLES
    journals,             \* recovery_journals, by plan and slot
    recoveryCheckpoints,  \* the session frozen with a journal's exact checkpoint
    archive,              \* the evaluation archive on disk
    born                  \* history: the records the store had when the process started

recoveryVars == <<journals, recoveryCheckpoints, archive, born>>
rvars == <<vars, recoveryVars>>

JournalIds == UNION {{p} \X SlotIndices(p) : p \in Plans}

Resolved == {"Complete", "Reconciled"}

Attempts == [slot : Nat, artifact : Artifacts, anchor : Anchors, config : Configs,
             snapshot : Seq(Records)]

Journals ==
    [slot : Nat, attempts : Seq(Attempts),
     status : Resolved \cup {"Prepared", "RetryAuthorized", "IndeterminateAfterCrash", "Abandoned",
                             "NoPublicationObserved", "Ambiguous", "Blocked"}]

\* The sign of absence is no journal.
ASSUME NoJournalAssumption == NoJournal \notin Journals

\* Mutant: the attempt freezes an empty store.
Attempt_NoSnapshot(s) ==
    [slot |-> s.next, artifact |-> PlannedArtifact(s.plan, s.next),
     anchor |-> s.anchor, config |-> PlanConfig[s.plan], snapshot |-> <<>>]

\* prepared_from_slot: an attempt freezes the slot's identity and the store.
Attempt(s) ==
    [slot |-> s.next, artifact |-> PlannedArtifact(s.plan, s.next),
     anchor |-> s.anchor, config |-> PlanConfig[s.plan], snapshot |-> store]

Current(j) == j.attempts[Len(j.attempts)]

Exists(id) == journals[id] # NoJournal
SessionOf(id) == sessions[id[1]]

\* MeasurementAcquisitionRecoveryJournal::verify against its session and the store.
JournalVerifies(id) ==
    LET j == journals[id]
        s == SessionOf(id)
    IN  /\ \/ j.slot = s.next
           \/ j.slot \in DOMAIN s.slots /\ s.slots[j.slot].status = "Complete"
        /\ \A k \in DOMAIN j.attempts :
              /\ j.attempts[k].slot = j.slot
              /\ \A r \in DOMAIN j.attempts[k].snapshot :
                    r \in DOMAIN store /\ store[r] = j.attempts[k].snapshot[r]

\* The journal a request names, with a session, and verified.
Usable(id) == Exists(id) /\ SessionOf(id) # NoSession /\ JournalVerifies(id)

Put(id, j) ==
    /\ journals' = [journals EXCEPT ![id] = j]
    /\ recoveryCheckpoints' = [recoveryCheckpoints EXCEPT ![id] = NoSession]

\* The status a journal takes once its record is attached to session s.
ResolvedStatus(s) == IF s.status = "Complete" THEN "Complete" ELSE "Reconciled"

---------------------------------------------------------------------------
\* MeasurementAcquisitionRecoveryPrepare.  The new journal is inserted before the
\* request is refused because there was one already.
Prepare(p) ==
    /\ Started(p)
    /\ SessionVerifies(sessions[p], store)
    /\ RecoveryPending(sessions[p])
    /\ Put(<<p, sessions[p].next>>,
           [slot |-> sessions[p].next, status |-> "Prepared",
            attempts |-> <<Attempt(sessions[p])>>])
    /\ UNCHANGED <<vars, archive, born>>

MayExecute(id) == Usable(id) /\ journals[id].status \in {"Prepared", "RetryAuthorized"}

\* The benchmark of an execute returned a record.
Measured(id, t) ==
    /\ RecoveryPending(SessionOf(id))
    /\ machine.device = SessionOf(id).anchor.device
    /\ Len(store) < MaxRecords
    /\ store' = Append(store, BenchmarkRecord(SessionOf(id), SessionOf(id).next, t))

\* execute, stopped by a fault before the benchmark, by the benchmark's failure, or
\* by a fault between benchmark and publication: only the journal changes.
ExecuteStops(id) ==
    /\ MayExecute(id)
    /\ Put(id, [journals[id] EXCEPT !.status = "IndeterminateAfterCrash"])
    /\ UNCHANGED <<vars, archive, born>>

\* Mutant: the journal counts the publication as resolved, the session does not.
ExecutePublishes_Resolves(id) ==
    /\ MayExecute(id)
    /\ \E t \in Timings : Measured(id, t)
    /\ Put(id, [journals[id] EXCEPT !.status = "Reconciled"])
    /\ UNCHANGED <<machine, sessions, checkpoints, archive, born>>

\* Mutant: the fault stops the session too.
ExecutePublishes_StopsSession(id) ==
    /\ MayExecute(id)
    /\ \E t \in Timings : Measured(id, t)
    /\ Put(id, [journals[id] EXCEPT !.status = "IndeterminateAfterCrash"])
    /\ sessions' = [sessions EXCEPT ![id[1]].status = "Failed"]
    /\ UNCHANGED <<machine, checkpoints, archive, born>>

\* execute, stopped between publication and the session's progress.
ExecutePublishes(id) ==
    /\ MayExecute(id)
    /\ \E t \in Timings : Measured(id, t)
    /\ Put(id, [journals[id] EXCEPT !.status = "IndeterminateAfterCrash"])
    /\ UNCHANGED <<machine, sessions, checkpoints, archive, born>>

\* execute to its end.  A fault after the checkpoint stops nothing any more.
ExecuteCompletes(id) ==
    /\ MayExecute(id)
    /\ \E t \in Timings :
          /\ Measured(id, t)
          /\ LET s == AttachRecovered(SessionOf(id), Len(store'), store'[Len(store')])
             IN  /\ sessions' = [sessions EXCEPT ![id[1]] = s]
                 /\ Put(id, [journals[id] EXCEPT !.status = ResolvedStatus(s)])
    /\ UNCHANGED <<machine, checkpoints, archive, born>>

---------------------------------------------------------------------------
\* Records that appeared since the current attempt was prepared, and those of them
\* compatible_record accepts.
NewRecords(j) == DOMAIN store \ DOMAIN Current(j).snapshot
Compatible(j) ==
    {r \in NewRecords(j) : /\ store[r].artifact = Current(j).artifact
                           /\ store[r].anchor = Current(j).anchor
                           /\ store[r].config = Current(j).config}

\* What reconcile observes; the protocol passes the retained session's own anchors
\* as the current ones.
Observed(id) ==
    LET j == journals[id]
    IN  CASE SessionOf(id).anchor # Current(j).anchor -> "AnchorChanged"
          [] OTHER ->
             CASE Compatible(j) # NewRecords(j)     -> "Incompatible"
               [] NewRecords(j) = {}                -> "NoPublication"
               [] Cardinality(NewRecords(j)) = 1    -> "ExactlyOne"
               [] OTHER                             -> "Multiple"

MayReconcile(id) == Usable(id) /\ journals[id].status \notin Resolved \cup {"Abandoned"}

\* MeasurementAcquisitionRecoveryReconcile, one compatible publication: it is
\* attached to the session's current slot.
ReconcileAttaches(id) ==
    /\ MayReconcile(id)
    /\ Observed(id) = "ExactlyOne"
    /\ RecoveryPending(SessionOf(id))
    /\ \E r \in Compatible(journals[id]) :
          LET s == AttachRecovered(SessionOf(id), r, store[r])
          IN  /\ sessions' = [sessions EXCEPT ![id[1]] = s]
              /\ Put(id, [journals[id] EXCEPT !.status = ResolvedStatus(s)])
    /\ UNCHANGED <<machine, store, checkpoints, archive, born>>

\* MeasurementAcquisitionRecoveryReconcile, any other observation.
ReconcileObserves(id) ==
    /\ MayReconcile(id)
    /\ Observed(id) # "ExactlyOne"
    /\ Put(id, [journals[id] EXCEPT !.status =
                  CASE Observed(id) = "NoPublication" -> "NoPublicationObserved"
                    [] Observed(id) = "Multiple"      -> "Ambiguous"
                    [] OTHER                          -> "Blocked"])
    /\ UNCHANGED <<vars, archive, born>>

Reconcile(id) == ReconcileAttaches(id) \/ ReconcileObserves(id)

AuthorizeRetry_Unobserved(id) ==
    /\ Usable(id)
    /\ journals[id].status = "IndeterminateAfterCrash"
    /\ Len(journals[id].attempts) < MaxAttempts
    /\ RecoveryPending(SessionOf(id))
    /\ Put(id, [journals[id] EXCEPT !.status = "RetryAuthorized",
                                    !.attempts = Append(@, Attempt(SessionOf(id)))])
    /\ UNCHANGED <<vars, archive, born>>

\* MeasurementAcquisitionRecoveryAuthorizeRetry: a further attempt at the session's
\* current slot, against the store as it is now.
AuthorizeRetry(id) ==
    /\ Usable(id)
    /\ journals[id].status = "NoPublicationObserved"
    /\ Len(journals[id].attempts) < MaxAttempts
    /\ RecoveryPending(SessionOf(id))
    /\ Put(id, [journals[id] EXCEPT !.status = "RetryAuthorized",
                                    !.attempts = Append(@, Attempt(SessionOf(id)))])
    /\ UNCHANGED <<vars, archive, born>>

\* MeasurementAcquisitionRecoveryAbandon
Abandon(id) ==
    /\ Exists(id)
    /\ journals[id].status \notin Resolved \cup {"Abandoned"}
    /\ Put(id, [journals[id] EXCEPT !.status = "Abandoned"])
    /\ UNCHANGED <<vars, archive, born>>

---------------------------------------------------------------------------
\* MeasurementAcquisitionRecoveryCheckpoint freezes the journal with the session
\* as it is now.
RecoveryCheckpoint(id) ==
    /\ Exists(id) /\ SessionOf(id) # NoSession
    /\ recoveryCheckpoints' = [recoveryCheckpoints EXCEPT ![id] = SessionOf(id)]
    /\ UNCHANGED <<vars, journals, archive, born>>

\* save_archive_with_recovery: every journal needs its exact checkpoint and must
\* replay; the file is replaced by a rename.
SaveArchive ==
    LET kept == {id \in JournalIds : Exists(id)}
    IN  /\ kept # {}
        /\ \A id \in kept : recoveryCheckpoints[id] # NoSession /\ Usable(id)
        /\ archive' = [records |-> store,
                       journals |-> [id \in kept |-> journals[id]],
                       sessions |-> [id \in kept |-> recoveryCheckpoints[id]]]
        /\ UNCHANGED <<vars, journals, recoveryCheckpoints, born>>

\* import_recovery_archive: the checkpoints are inserted in the order of their
\* hashes, so which journal's checkpoint gives a plan its session is arbitrary.
ImportArchive ==
    /\ archive # NoArchive
    /\ LET kept == DOMAIN archive.journals
           plans == {id[1] : id \in kept}
       IN  \E last \in {f \in [plans -> kept] : \A p \in plans : f[p][1] = p} :
              sessions' = [p \in Plans |-> IF p \in plans THEN archive.sessions[last[p]]
                                                          ELSE sessions[p]]
    /\ store' = IF Synthetic THEN archive.records ELSE store
    /\ journals' = [id \in JournalIds |-> IF id \in DOMAIN archive.journals
                                          THEN archive.journals[id] ELSE journals[id]]
    /\ recoveryCheckpoints' = [id \in JournalIds |-> IF id \in DOMAIN archive.sessions
                                                     THEN archive.sessions[id]
                                                     ELSE recoveryCheckpoints[id]]
    /\ UNCHANGED <<machine, checkpoints, archive, born>>

\* The evaluation process dies: everything it held in memory is gone.
Crash ==
    /\ sessions' = [p \in Plans |-> NoSession]
    /\ checkpoints' = {}
    /\ journals' = [id \in JournalIds |-> NoJournal]
    /\ recoveryCheckpoints' = [id \in JournalIds |-> NoSession]
    /\ store' = IF Synthetic THEN <<>> ELSE store
    /\ born' = Len(store')
    /\ UNCHANGED <<machine, archive>>

---------------------------------------------------------------------------
RInit ==
    /\ Init
    /\ journals = [id \in JournalIds |-> NoJournal]
    /\ recoveryCheckpoints = [id \in JournalIds |-> NoSession]
    /\ archive = NoArchive
    /\ born = 0

\* What is asked of one journal.
JournalNext(id) ==
    \/ ExecuteStops(id) \/ ExecutePublishes(id) \/ ExecuteCompletes(id)
    \/ Reconcile(id) \/ AuthorizeRetry(id) \/ Abandon(id)

\* A client that measures only through journals: it starts a plan once, prepares
\* each slot once, and leaves the Stage 7C advance alone.
CarefulNext ==
    \/ \E p \in Plans : /\ ~Started(p) /\ Start(p) /\ UNCHANGED recoveryVars
    \/ \E p \in Plans : /\ Started(p) /\ ~(sessions[p].next \in DOMAIN sessions[p].slots
                                             /\ Exists(<<p, sessions[p].next>>))
                        /\ Prepare(p)
    \/ \E id \in JournalIds : JournalNext(id)
    \/ ChangeMachine /\ UNCHANGED recoveryVars

\* The same client across process restarts: it checkpoints every journal before
\* it saves, and a new process loads the archive first.
Fresh == /\ \A p \in Plans : ~Started(p)
         /\ \A id \in JournalIds : ~Exists(id)

AllCheckpointed ==
    \A id \in JournalIds : Exists(id) => recoveryCheckpoints[id] = SessionOf(id)

RestartNext ==
    \/ CarefulNext
    \/ \E id \in JournalIds : RecoveryCheckpoint(id)
    \/ AllCheckpointed /\ SaveArchive
    \/ Fresh /\ ImportArchive
    \/ Crash

\* It sees to it that an uncertain attempt is reconciled.
RestartSpec ==
    RInit /\ [][RestartNext]_rvars /\ \A id \in JournalIds : WF_rvars(Reconcile(id))

---------------------------------------------------------------------------
\* Slots of the retained sessions that are complete.
Accepted == {id \in JournalIds : Started(id[1]) /\ id[2] \in CompletedSlots(SessionOf(id))}
AcceptedId(id) == SessionOf(id).slots[id[2]].id

\* No record is counted twice within an acquisition, whatever recovery attached,
\* and across process restarts.
RecordCountedOnce ==
    \A x, y \in Accepted : x[1] = y[1] /\ AcceptedId(x) = AcceptedId(y) => x = y

\* While the process lives, a record it published is not lost: it backs a slot, or
\* it is among the candidates of a journal that was prepared before it appeared and
\* is not resolved.
NoRecordLost ==
    \A r \in DOMAIN store : r > born =>
        \/ \E x \in Accepted : AcceptedId(x) = r
        \/ \E id \in JournalIds : /\ Exists(id)
                                  /\ journals[id].status \notin Resolved
                                  /\ r \in NewRecords(journals[id])

\* A journal that resolved its slot agrees with the session: the slot is complete
\* with a record that appeared after the last attempt was prepared, of the artifact
\* and anchor that attempt froze.
ResolvedAgrees ==
    \A id \in JournalIds : (Exists(id) /\ journals[id].status \in Resolved) =>
        /\ id \in Accepted
        /\ AcceptedId(id) \in Compatible(journals[id])

\* What this process published for an attempt reaches the slot once it is reconciled,
\* unless the process dies first: there is one record, and it is compatible.  (A
\* process that loaded an archive older than its predecessor's last publication may
\* find two records, or another slot's, and stay Ambiguous or Blocked.)
PublishedIsRecovered ==
    \A id \in JournalIds :
        (Exists(id) /\ journals[id].status = "IndeterminateAfterCrash"
             /\ NewRecords(journals[id]) # {}
             /\ \A r \in NewRecords(journals[id]) : r > born)
            ~> (~Exists(id) \/ journals[id].status \in Resolved \cup {"Abandoned"})

=============================================================================
