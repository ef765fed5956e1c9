----------------------------- MODULE RecoveryProofs -----------------------------
(****************************************************************************)
(* Theorems about Acquisition, alone and with the journals of Recovery, for *)
(* every set of plans, artifacts, devices, builds and timings and every     *)
(* bound.                                                                   *)
(*                                                                          *)
(* First Acquisition's own: the type invariant, CompletedPrefix,            *)
(* EvidenceRetained, OneSlotPerRecord and two action properties.  The       *)
(* inductive invariant is their conjunction.  None of the last three is     *)
(* inductive alone: a new record's identity is fresh because every complete *)
(* slot names a record the store holds already, and a complete slot's       *)
(* artifact is the planned one because completed slots are a prefix.        *)
(*                                                                          *)
(* Then Recovery's, under a careful client, across process deaths and       *)
(* archives, whether the store lives in the process or not:                 *)
(* RecordCountedOnce, NoRecordLost and ResolvedAgrees.                      *)
(*                                                                          *)
(* None is inductive.  That reconcile cannot attach a record twice follows  *)
(* from what every attempt froze: the records of all slots before its own.  *)
(* That a record stays a candidate follows from the statuses a journal may  *)
(* have while one of its attempts could have published it (Uncertain).      *)
(* And since an archive is loaded into an empty process, all of it must     *)
(* hold of the archive as well, against the store the loading process will  *)
(* have.  So the invariant is one predicate, Consistent, of sessions,       *)
(* journals and a store, stated of the process and of the archive.          *)
(****************************************************************************)
EXTENDS Recovery, FiniteSetTheorems, TLAPS

IInv == TypeOK /\ CompletedPrefix /\ EvidenceRetained /\ OneSlotPerRecord

---------------------------------------------------------------------------
\* Round robin stays within the artifacts of a plan.
LEMMA ModBound ==
    ASSUME NEW i \in Nat, NEW n \in Nat, n > 0
    PROVE  (i % n) + 1 \in 1 .. n
  OBVIOUS

\* A plan has a natural number of slots, and each of its slots plans an artifact.
LEMMA PlanFacts ==
    ASSUME NEW p \in Plans
    PROVE  /\ TotalSlots(p) \in Nat
           /\ SlotIndices(p) = {i \in Nat : i < TotalSlots(p)}
           /\ \A i \in SlotIndices(p) : PlannedArtifact(p, i) \in Artifacts
<1>1. /\ PlanArtifacts[p] \in Seq(Artifacts)
      /\ Len(PlanArtifacts[p]) \in Nat /\ Len(PlanArtifacts[p]) > 0
      /\ PlanRounds[p] \in Nat
  BY PlansAssumption
<1>2. TotalSlots(p) \in Nat
  BY <1>1 DEF TotalSlots
<1>3. SlotIndices(p) = {i \in Nat : i < TotalSlots(p)}
  BY <1>2 DEF SlotIndices
<1>4. ASSUME NEW i \in Nat
      PROVE  (i % Len(PlanArtifacts[p])) + 1 \in 1 .. Len(PlanArtifacts[p])
  BY <1>1, ModBound
<1>5. \A i \in SlotIndices(p) : PlannedArtifact(p, i) \in Artifacts
  BY <1>1, <1>3, <1>4 DEF PlannedArtifact
<1> QED
  BY <1>2, <1>3, <1>5

\* What a session of a plan is made of.
LEMMA SessionFacts ==
    ASSUME NEW p \in Plans, NEW s \in SessionsOf(p)
    PROVE  /\ s.plan = p
           /\ s.anchor \in Anchors
           /\ s.next \in Nat /\ s.next <= TotalSlots(p)
           /\ s.slots \in [SlotIndices(p) -> SlotRecords]
           /\ DOMAIN s.slots = SlotIndices(p)
  BY PlanFacts DEF SessionsOf

\* A benchmark of a session's slot returns a record of the store's kind.
LEMMA BenchmarkRecordType ==
    ASSUME NEW p \in Plans, NEW s \in SessionsOf(p), NEW i \in SlotIndices(p),
           NEW t \in Timings
    PROVE  BenchmarkRecord(s, i, t) \in Records
  BY PlanFacts, SessionFacts, PlansAssumption DEF BenchmarkRecord, Records

\* Completing slots keeps a session of its plan, moves next past them, leaves the
\* other slots alone and gives each its record and identity.
LEMMA CompleteSlotsFacts ==
    ASSUME NEW p \in Plans, NEW s \in SessionsOf(p), NEW firstId \in Nat,
           NEW recs \in Seq(Records), s.next + Len(recs) <= TotalSlots(p)
    PROVE  LET d == CompleteSlots(s, firstId, recs)
           IN  /\ d \in SessionsOf(p)
               /\ d.next = s.next + Len(recs)
               /\ d.anchor = s.anchor
               /\ d.plan = p
               /\ \A i \in SlotIndices(p) :
                     /\ (i < s.next \/ i >= d.next) => d.slots[i] = s.slots[i]
                     /\ (s.next <= i /\ i < d.next) =>
                           /\ d.slots[i].status = "Complete"
                           /\ d.slots[i].id = firstId + (i - s.next)
                           /\ d.slots[i].hash = recs[i - s.next + 1]
<1> DEFINE d == CompleteSlots(s, firstId, recs)
           f == [i \in DOMAIN s.slots |->
                     IF s.next <= i /\ i < s.next + Len(recs)
                     THEN [status |-> "Complete", id |-> firstId + (i - s.next),
                           hash |-> recs[i - s.next + 1]]
                     ELSE s.slots[i]]
<1>1. /\ s.plan = p /\ s.anchor \in Anchors /\ s.next \in Nat
      /\ s.slots \in [SlotIndices(p) -> SlotRecords] /\ DOMAIN s.slots = SlotIndices(p)
      /\ Len(recs) \in Nat /\ TotalSlots(p) \in Nat
      /\ SlotIndices(p) = {i \in Nat : i < TotalSlots(p)}
  BY SessionFacts, PlanFacts
<1>2. f \in [SlotIndices(p) -> SlotRecords]
  <2>1. ASSUME NEW i \in SlotIndices(p), s.next <= i, i < s.next + Len(recs)
        PROVE  /\ firstId + (i - s.next) \in Nat
               /\ recs[i - s.next + 1] \in Records
    <3>1. i \in Nat /\ i - s.next + 1 \in 1 .. Len(recs)
      BY <1>1, <2>1
    <3> QED
      BY <1>1, <3>1
  <2> QED
    BY <1>1, <2>1 DEF SlotRecords, SlotStatuses
<1>3. /\ d.slots = f
      /\ d.next = s.next + Len(recs)
      /\ d.plan = p /\ d.anchor = s.anchor
      /\ d.status = IF s.next + Len(recs) = TotalSlots(p) THEN "Complete" ELSE s.status
      /\ d = [plan |-> d.plan, anchor |-> d.anchor, status |-> d.status,
              next |-> d.next, slots |-> d.slots]
  <2> DEFINE newStatus == IF s.next + Len(recs) = TotalSlots(s.plan)
                          THEN "Complete" ELSE s.status
  <2>1. d = [s EXCEPT !.slots = f, !.next = s.next + Len(recs), !.status = newStatus]
    BY DEF CompleteSlots
  <2> HIDE DEF d, f, newStatus
  <2>2. /\ d.slots = f /\ d.next = s.next + Len(recs) /\ d.status = newStatus
        /\ d.plan = s.plan /\ d.anchor = s.anchor
        /\ d = [plan |-> d.plan, anchor |-> d.anchor, status |-> d.status,
                next |-> d.next, slots |-> d.slots]
    BY <2>1 DEF SessionsOf
  <2> QED
    BY <1>1, <2>2 DEF newStatus
<1>4. d.next \in 0 .. TotalSlots(p)
  BY <1>1, <1>3
<1>5. d \in SessionsOf(p)
  BY <1>1, <1>2, <1>3, <1>4 DEF SessionsOf, SessionStatuses
<1>6. ASSUME NEW i \in SlotIndices(p)
      PROVE  /\ (i < s.next \/ i >= d.next) => d.slots[i] = s.slots[i]
             /\ (s.next <= i /\ i < d.next) =>
                   /\ d.slots[i].status = "Complete"
                   /\ d.slots[i].id = firstId + (i - s.next)
                   /\ d.slots[i].hash = recs[i - s.next + 1]
  BY <1>1, <1>3
<1> QED
  BY <1>3, <1>5, <1>6

\* Failing the next slot touches no other slot.
LEMMA FailSlotFacts ==
    ASSUME NEW p \in Plans, NEW s \in SessionsOf(p), s.next < TotalSlots(p),
           NEW slotStatus \in SlotStatuses, NEW sessionStatus \in SessionStatuses
    PROVE  LET d == FailSlot(s, slotStatus, sessionStatus)
           IN  /\ d \in SessionsOf(p)
               /\ d.next = s.next /\ d.anchor = s.anchor /\ d.plan = p
               /\ d.status = sessionStatus
               /\ d.slots[s.next].status = slotStatus
               /\ \A i \in SlotIndices(p) : i # s.next => d.slots[i] = s.slots[i]
<1> DEFINE d == FailSlot(s, slotStatus, sessionStatus)
<1>1. /\ s.plan = p /\ s.anchor \in Anchors /\ s.next \in Nat
      /\ s.slots \in [SlotIndices(p) -> SlotRecords]
      /\ s.next \in SlotIndices(p)
  BY SessionFacts, PlanFacts
<1> DEFINE f == [s.slots EXCEPT ![s.next].status = slotStatus]
<1>2. d = [s EXCEPT !.slots = f, !.status = sessionStatus]
  BY DEF FailSlot, SessionsOf
<1>3. /\ f \in [SlotIndices(p) -> SlotRecords]
      /\ f[s.next].status = slotStatus
      /\ \A i \in SlotIndices(p) : i # s.next => f[i] = s.slots[i]
  BY <1>1 DEF SlotRecords
<1> HIDE DEF d, f
<1>4. /\ d \in SessionsOf(p)
      /\ d.next = s.next /\ d.anchor = s.anchor /\ d.plan = p
      /\ d.status = sessionStatus /\ d.slots = f
  BY <1>2, <1>3 DEF SessionsOf
<1> QED
  BY <1>3, <1>4 DEF d
---------------------------------------------------------------------------
\* One session's share of the invariant, against the store st.
PrefixOf(s) ==
    \A i \in DOMAIN s.slots :
        /\ s.slots[i].status = "Complete" <=> i < s.next
        /\ i > s.next => s.slots[i] = PendingSlot
EvidenceIn(s, st) ==
    \A i \in CompletedSlots(s) :
        /\ s.slots[i].id \in DOMAIN st
        /\ st[s.slots[i].id] = s.slots[i].hash
        /\ \E t \in Timings : s.slots[i].hash = BenchmarkRecord(s, i, t)

\* A step that keeps the records of the store and retains at most one session it did
\* not retain before keeps the invariant, when every completed slot of that session
\* has the record of a retained session's slot or a record of its own, new to the store.
LEMMA StepKeeps ==
    ASSUME IInv,
           NEW p \in Plans, NEW d \in SessionsOf(p),
           \A r \in DOMAIN store : r \in DOMAIN store' /\ store'[r] = store[r],
           Retained' \subseteq Retained \cup {d},
           PrefixOf(d), EvidenceIn(d, store'),
           \A i \in CompletedSlots(d) :
              \/ \E s \in Retained : /\ s.plan = p /\ i \in CompletedSlots(s)
                                     /\ s.slots[i].id = d.slots[i].id
              \/ /\ d.slots[i].id \notin DOMAIN store
                 /\ \A j \in CompletedSlots(d) : d.slots[j].id = d.slots[i].id => i = j
    PROVE  CompletedPrefix' /\ EvidenceRetained' /\ OneSlotPerRecord'
<1>1. CompletedPrefix'
  BY DEF IInv, CompletedPrefix, PrefixOf
<1>2. EvidenceRetained'
  BY DEF IInv, EvidenceRetained, EvidenceIn
<1>3. d.plan = p
  BY SessionFacts
<1>4. ASSUME NEW s \in Retained, NEW i \in CompletedSlots(s)
      PROVE  s.slots[i].id \in DOMAIN store
  BY DEF IInv, EvidenceRetained
<1>5. ASSUME NEW s \in Retained, NEW i \in CompletedSlots(s), NEW j \in CompletedSlots(d),
             s.slots[i].id = d.slots[j].id
      PROVE  s.plan = p /\ i = j
  BY <1>4, <1>5 DEF IInv, OneSlotPerRecord
<1>6. ASSUME NEW i \in CompletedSlots(d), NEW j \in CompletedSlots(d),
             d.slots[i].id = d.slots[j].id
      PROVE  i = j
  BY <1>5, <1>6
<1>7. OneSlotPerRecord'
  BY <1>3, <1>5, <1>6 DEF IInv, OneSlotPerRecord
<1> QED
  BY <1>1, <1>2, <1>7

\* The special case of a session that takes its completed slots from a retained one
\* of the same plan, in a step that leaves the store alone.
LEMMA StepKeepsSlots ==
    ASSUME IInv,
           NEW p \in Plans, NEW d \in SessionsOf(p), NEW s \in Retained,
           s \in SessionsOf(p), store' = store,
           Retained' \subseteq Retained \cup {d},
           d.next = s.next, d.anchor = s.anchor,
           \A i \in SlotIndices(p) : i # s.next => d.slots[i] = s.slots[i],
           s.next \in SlotIndices(p) => d.slots[s.next].status # "Complete"
    PROVE  CompletedPrefix' /\ EvidenceRetained' /\ OneSlotPerRecord'
<1>1. /\ s.plan = p /\ d.plan = p /\ s.next \in Nat
      /\ DOMAIN s.slots = SlotIndices(p) /\ DOMAIN d.slots = SlotIndices(p)
      /\ SlotIndices(p) \subseteq Nat
  BY SessionFacts, PlanFacts
<1>2. PrefixOf(s) /\ EvidenceIn(s, store)
  BY DEF IInv, CompletedPrefix, EvidenceRetained, PrefixOf, EvidenceIn
<1>3. PrefixOf(d)
  BY <1>1, <1>2 DEF PrefixOf
<1>4. ASSUME NEW i \in CompletedSlots(d)
      PROVE  i \in CompletedSlots(s) /\ d.slots[i] = s.slots[i]
  BY <1>1, <1>4 DEF CompletedSlots
<1>5. EvidenceIn(d, store')
  BY <1>1, <1>2, <1>4 DEF EvidenceIn, BenchmarkRecord
<1> QED
  BY <1>1, <1>3, <1>4, <1>5, StepKeeps

---------------------------------------------------------------------------
\* The invariant holds at the start: nothing is retained.
LEMMA InitIInv == Init => IInv
<1> SUFFICES ASSUME Init PROVE IInv
  OBVIOUS
<1>1. Retained = {}
  BY DEF Init, Retained, Started
<1>2. TypeOK
  BY DEF Init, TypeOK
<1> QED
  BY <1>1, <1>2 DEF IInv, CompletedPrefix, EvidenceRetained, OneSlotPerRecord

\* A retained session is a session of its plan.
LEMMA RetainedTyped ==
    ASSUME TypeOK, NEW s \in Retained
    PROVE  s.plan \in Plans /\ s \in SessionsOf(s.plan)
  BY SessionFacts DEF TypeOK, Retained, Started

\* Replacing the session of one plan retains nothing else that is new.
LEMMA ReplacedSession ==
    ASSUME TypeOK, NEW p \in Plans, NEW d,
           sessions' = [sessions EXCEPT ![p] = d], checkpoints' = checkpoints
    PROVE  Retained' \subseteq Retained \cup {d}
  BY DEF TypeOK, Retained, Started

\* ... and keeps the types, if the new session has the right one.
LEMMA ReplacedTyped ==
    ASSUME TypeOK, NEW p \in Plans, NEW d \in SessionsOf(p),
           sessions' = [sessions EXCEPT ![p] = d], checkpoints' = checkpoints,
           machine' = machine, store' \in Seq(Records)
    PROVE  TypeOK'
  BY DEF TypeOK

---------------------------------------------------------------------------
\* Start: the new session has no completed slot.
LEMMA StartKeeps == ASSUME IInv, NEW p \in Plans, Start(p) PROVE IInv'
<1> DEFINE d == NewSession(p, machine)
<1>1. d \in SessionsOf(p) /\ PrefixOf(d) /\ CompletedSlots(d) = {}
  <2>1. machine \in Anchors /\ TotalSlots(p) \in Nat /\ SlotIndices(p) \subseteq Nat
    BY PlanFacts DEF IInv, TypeOK
  <2>2. PendingSlot \in SlotRecords
    BY DEF PendingSlot, SlotRecords, SlotStatuses
  <2>3. d \in SessionsOf(p)
    BY <2>1, <2>2 DEF NewSession, SessionsOf, SessionStatuses
  <2>4. \A i \in DOMAIN d.slots : i \in Nat /\ d.slots[i] = PendingSlot /\ d.next = 0
    BY <2>1 DEF NewSession
  <2> QED
    BY <2>3, <2>4 DEF PrefixOf, CompletedSlots, PendingSlot
<1> HIDE DEF d
<1>2. sessions' = [sessions EXCEPT ![p] = d] /\ UNCHANGED <<machine, store, checkpoints>>
  BY DEF Start, d
<1>3. TypeOK'
  BY <1>1, <1>2, ReplacedTyped DEF IInv, TypeOK
<1>4. Retained' \subseteq Retained \cup {d}
  BY <1>2, ReplacedSession DEF IInv
<1> QED
  BY <1>1, <1>2, <1>3, <1>4, StepKeeps DEF IInv, EvidenceIn

\* Cancel: only the status changes.
LEMMA CancelKeeps == ASSUME IInv, NEW p \in Plans, Cancel(p) PROVE IInv'
<1> DEFINE s == sessions[p]
           d == [s EXCEPT !.status = "Cancelled"]
<1>1. s \in SessionsOf(p) /\ s \in Retained
  BY DEF Cancel, IInv, TypeOK, Retained, Started
<1>2. /\ d \in SessionsOf(p) /\ d.next = s.next /\ d.anchor = s.anchor /\ d.slots = s.slots
  BY <1>1 DEF SessionsOf, SessionStatuses
<1>3. sessions' = [sessions EXCEPT ![p] = d] /\ UNCHANGED <<machine, store, checkpoints>>
  BY DEF Cancel, IInv, TypeOK
<1>4. s.next \in SlotIndices(p) => s.slots[s.next].status # "Complete"
  BY <1>1, SessionFacts DEF IInv, CompletedPrefix
<1> HIDE DEF d, s
<1>5. TypeOK'
  BY <1>2, <1>3, ReplacedTyped DEF IInv, TypeOK
<1>6. Retained' \subseteq Retained \cup {d}
  BY <1>3, ReplacedSession DEF IInv
<1> QED
  BY <1>1, <1>2, <1>3, <1>4, <1>5, <1>6, StepKeepsSlots DEF IInv

\* MarkIndeterminate: the slot at next fails.
LEMMA MarkIndeterminateKeeps ==
    ASSUME IInv, NEW p \in Plans, MarkIndeterminate(p) PROVE IInv'
<1> DEFINE s == sessions[p]
           d == FailSlot(s, "IndeterminateAfterCrash", "Failed")
<1>1. s \in SessionsOf(p) /\ s \in Retained /\ s.next < TotalSlots(p)
  BY DEF MarkIndeterminate, IInv, TypeOK, Retained, Started
<1>2. /\ d \in SessionsOf(p) /\ d.next = s.next /\ d.anchor = s.anchor
      /\ d.slots[s.next].status # "Complete"
      /\ \A i \in SlotIndices(p) : i # s.next => d.slots[i] = s.slots[i]
  BY <1>1, FailSlotFacts DEF SlotStatuses, SessionStatuses
<1>3. sessions' = [sessions EXCEPT ![p] = d] /\ UNCHANGED <<machine, store, checkpoints>>
  BY DEF MarkIndeterminate, IInv, TypeOK
<1> HIDE DEF d, s
<1>4. TypeOK'
  BY <1>2, <1>3, ReplacedTyped DEF IInv, TypeOK
<1>5. Retained' \subseteq Retained \cup {d}
  BY <1>3, ReplacedSession DEF IInv
<1> QED
  BY <1>1, <1>2, <1>3, <1>4, <1>5, StepKeepsSlots DEF IInv

\* Checkpoint: the frozen session was retained already.
LEMMA CheckpointKeeps == ASSUME IInv, NEW p \in Plans, Checkpoint(p) PROVE IInv'
<1>1. Retained' \subseteq Retained /\ store' = store
  BY DEF Checkpoint, Retained, Started
<1>2. TypeOK'
  BY DEF Checkpoint, IInv, TypeOK, Started
<1> QED
  BY <1>1, <1>2 DEF IInv, CompletedPrefix, EvidenceRetained, OneSlotPerRecord

\* Resume: the checkpoint's slots return, under a new status.
LEMMA ResumeKeeps == ASSUME IInv, NEW c \in checkpoints, Resume(c) PROVE IInv'
<1> DEFINE p == c.plan
           d == [c EXCEPT !.status = "Running"]
<1>1. p \in Plans /\ c \in SessionsOf(p) /\ c \in Retained
  BY RetainedTyped DEF IInv, Retained
<1>2. d \in SessionsOf(p) /\ d.next = c.next /\ d.anchor = c.anchor /\ d.slots = c.slots
  BY <1>1 DEF SessionsOf, SessionStatuses
<1>3. sessions' = [sessions EXCEPT ![p] = d] /\ UNCHANGED <<machine, store, checkpoints>>
  BY DEF Resume
<1>4. c.next \in SlotIndices(p) => c.slots[c.next].status # "Complete"
  BY <1>1, SessionFacts DEF IInv, CompletedPrefix
<1> HIDE DEF d, p
<1>5. TypeOK'
  BY <1>1, <1>2, <1>3, ReplacedTyped DEF IInv, TypeOK
<1>6. Retained' \subseteq Retained \cup {d}
  BY <1>1, <1>3, ReplacedSession DEF IInv
<1> QED
  BY <1>1, <1>2, <1>3, <1>4, <1>5, <1>6, StepKeepsSlots DEF IInv

\* A change of the machine touches nothing that is retained.
LEMMA ChangeMachineKeeps == ASSUME IInv, ChangeMachine PROVE IInv'
<1>1. Retained' = Retained /\ store' = store
  BY DEF ChangeMachine, Retained, Started
<1>2. TypeOK'
  BY DEF ChangeMachine, IInv, TypeOK
<1> QED
  BY <1>1, <1>2 DEF IInv, CompletedPrefix, EvidenceRetained, OneSlotPerRecord

---------------------------------------------------------------------------
\* The identity of a slot completed by an advance, regrouped.
LEMMA Regroup == \A a, b, i \in Nat : a + 1 + (i - b) = a + (i - b + 1)
  OBVIOUS

\* What an advance makes of a session: k more completed slots, and a next slot that
\* is not complete.
LEMMA AdvancedFacts ==
    ASSUME store \in Seq(Records),
           NEW p \in Plans, NEW s \in SessionsOf(p), PrefixOf(s),
           NEW recs \in Seq(Records), NEW n \in Nat,
           NEW stop \in {"limit", "unavailable", "failed"},
           AdvanceOutcome(s, n, Len(recs), stop),
           NEW d, d = AdvancedSession(s, recs, stop)
    PROVE  /\ d \in SessionsOf(p)
           /\ d.next = s.next + Len(recs) /\ d.anchor = s.anchor /\ d.plan = p
           /\ PrefixOf(d)
           /\ \A i \in SlotIndices(p) :
                 /\ i < s.next => d.slots[i] = s.slots[i]
                 /\ (s.next <= i /\ i < d.next) =>
                       /\ d.slots[i].id = Len(store) + (i - s.next + 1)
                       /\ d.slots[i].hash = recs[i - s.next + 1]
<1> DEFINE done == CompleteSlots(s, Len(store) + 1, recs)
<1>1. /\ s.plan = p /\ s.next \in Nat /\ s.next <= TotalSlots(p)
      /\ TotalSlots(p) \in Nat /\ SlotIndices(p) = {i \in Nat : i < TotalSlots(p)}
      /\ DOMAIN s.slots = SlotIndices(p)
      /\ Len(recs) \in Nat /\ Len(store) \in Nat /\ Len(store) + 1 \in Nat
  BY SessionFacts, PlanFacts
<1>2. /\ s.next + Len(recs) <= TotalSlots(p)
      /\ stop # "limit" => s.next + Len(recs) < TotalSlots(p)
  BY <1>1 DEF AdvanceOutcome
<1>3. /\ done \in SessionsOf(p)
      /\ done.next = s.next + Len(recs) /\ done.anchor = s.anchor /\ done.plan = p
      /\ \A i \in SlotIndices(p) :
            /\ (i < s.next \/ i >= done.next) => done.slots[i] = s.slots[i]
            /\ (s.next <= i /\ i < done.next) =>
                  /\ done.slots[i].status = "Complete"
                  /\ done.slots[i].id = Len(store) + 1 + (i - s.next)
                  /\ done.slots[i].hash = recs[i - s.next + 1]
  BY <1>1, <1>2, CompleteSlotsFacts
<1>4. DOMAIN done.slots = SlotIndices(p)
  BY <1>3, SessionFacts
<1>5. \A i \in SlotIndices(p) : /\ s.slots[i].status = "Complete" <=> i < s.next
                                /\ i > s.next => s.slots[i] = PendingSlot
  BY <1>1 DEF PrefixOf
<1> HIDE DEF done
<1>6. PrefixOf(done)
  <2> SUFFICES ASSUME NEW i \in SlotIndices(p)
               PROVE  /\ done.slots[i].status = "Complete" <=> i < done.next
                      /\ i > done.next => done.slots[i] = PendingSlot
    BY <1>4 DEF PrefixOf
  <2>1. i \in Nat /\ done.next \in Nat /\ s.next <= done.next
    BY <1>1, <1>3
  <2>2. CASE i < s.next
    BY <1>1, <1>3, <1>5, <2>1, <2>2
  <2>3. CASE s.next <= i /\ i < done.next
    BY <1>1, <1>3, <1>5, <2>1, <2>3
  <2>4. CASE i >= done.next
    <3>1. done.slots[i] = s.slots[i] /\ i >= s.next
      BY <1>1, <1>3, <2>1, <2>4
    <3> QED
      BY <1>1, <1>5, <2>1, <2>4, <3>1
  <2> QED
    BY <1>1, <2>1, <2>2, <2>3, <2>4
<1>7. \A i \in SlotIndices(p) :
         /\ i < s.next => done.slots[i] = s.slots[i]
         /\ (s.next <= i /\ i < done.next) =>
               /\ done.slots[i].id = Len(store) + (i - s.next + 1)
               /\ done.slots[i].hash = recs[i - s.next + 1]
  <2>1. \A i \in SlotIndices(p) : Len(store) + 1 + (i - s.next) = Len(store) + (i - s.next + 1)
    BY <1>1, Regroup
  <2> QED
    BY <1>3, <2>1
<1>8. CASE stop = "limit"
  <2>1. d = done
    BY <1>8 DEF done, AdvancedSession
  <2> QED
    BY <1>3, <1>6, <1>7, <2>1
<1>9. CASE stop # "limit"
  <2>1. /\ d \in SessionsOf(p)
        /\ d.next = done.next /\ d.anchor = done.anchor /\ d.plan = p
        /\ d.slots[done.next].status # "Complete"
        /\ \A i \in SlotIndices(p) : i # done.next => d.slots[i] = done.slots[i]
    <3>1. \E x \in {"DeviceUnavailable", "BenchmarkFailed"} : d = FailSlot(done, x, x)
      BY <1>9 DEF done, AdvancedSession
    <3> QED
      BY <1>2, <1>3, <1>9, <3>1, FailSlotFacts DEF SlotStatuses, SessionStatuses
  <2>2. DOMAIN d.slots = SlotIndices(p) /\ SlotIndices(p) \subseteq Nat /\ d.next \in Nat
    BY <1>1, <2>1, SessionFacts
  <2>3. PrefixOf(d)
    BY <1>4, <1>6, <2>1, <2>2 DEF PrefixOf
  <2>4. \A i \in SlotIndices(p) :
           /\ i < s.next => d.slots[i] = s.slots[i]
           /\ (s.next <= i /\ i < d.next) =>
                 /\ d.slots[i].id = Len(store) + (i - s.next + 1)
                 /\ d.slots[i].hash = recs[i - s.next + 1]
    <3>1. \A i \in SlotIndices(p) : (i < s.next \/ i < done.next) => i # done.next
      BY <1>1, <1>3
    <3> QED
      BY <1>7, <2>1, <3>1
  <2> QED
    BY <1>3, <2>1, <2>3, <2>4
<1> QED
  BY <1>8, <1>9

\* Advance: the new slots' identities are new to the store, and their records are the
\* ones just appended.
LEMMA AdvanceKeeps ==
    ASSUME IInv, NEW p \in Plans, NEW n \in 1 .. MaxSlots, Advance(p, n) PROVE IInv'
<1> DEFINE s == sessions[p]
<1>1. s \in SessionsOf(p) /\ s \in Retained /\ store \in Seq(Records)
  BY DEF Advance, IInv, TypeOK, Retained, Started
<1>2. PrefixOf(s) /\ EvidenceIn(s, store)
  BY <1>1 DEF IInv, CompletedPrefix, EvidenceRetained, PrefixOf, EvidenceIn
<1>3. PICK k \in 0 .. n : \E times \in [1 .. k -> Timings] :
           \E stop \in {"limit", "unavailable", "failed"} :
              LET recs == [j \in 1 .. k |-> BenchmarkRecord(s, s.next + j - 1, times[j])]
              IN  /\ AdvanceOutcome(s, n, k, stop)
                  /\ store' = store \o recs
                  /\ sessions' = [sessions EXCEPT ![p] = AdvancedSession(s, recs, stop)]
  BY DEF Advance
<1>4. PICK times \in [1 .. k -> Timings], stop \in {"limit", "unavailable", "failed"} :
              LET recs == [j \in 1 .. k |-> BenchmarkRecord(s, s.next + j - 1, times[j])]
              IN  /\ AdvanceOutcome(s, n, k, stop)
                  /\ store' = store \o recs
                  /\ sessions' = [sessions EXCEPT ![p] = AdvancedSession(s, recs, stop)]
  BY <1>3
<1> DEFINE recs == [j \in 1 .. k |-> BenchmarkRecord(s, s.next + j - 1, times[j])]
           d == AdvancedSession(s, recs, stop)
<1>5. UNCHANGED <<machine, checkpoints>>
  BY DEF Advance
<1>6. /\ s.plan = p /\ s.next \in Nat /\ s.next <= TotalSlots(p)
      /\ TotalSlots(p) \in Nat /\ SlotIndices(p) = {i \in Nat : i < TotalSlots(p)}
      /\ DOMAIN s.slots = SlotIndices(p)
      /\ n \in Nat /\ k \in Nat /\ Len(store) \in Nat
  BY <1>1, SessionFacts, PlanFacts, BoundsAssumption
<1>7. s.next + k <= TotalSlots(p)
  BY <1>4, <1>6 DEF AdvanceOutcome
<1>8. recs \in Seq(Records) /\ Len(recs) = k
  <2>1. ASSUME NEW j \in 1 .. k
        PROVE  BenchmarkRecord(s, s.next + j - 1, times[j]) \in Records
    <3>1. s.next + j - 1 \in SlotIndices(p) /\ times[j] \in Timings
      BY <1>6, <1>7
    <3> QED
      BY <1>1, <3>1, BenchmarkRecordType
  <2>2. recs \in [1 .. k -> Records]
    BY <2>1
  <2> HIDE DEF recs
  <2> QED
    BY <1>6, <2>2
<1>9. /\ store' = store \o recs /\ store' \in Seq(Records)
      /\ sessions' = [sessions EXCEPT ![p] = d]
      /\ AdvanceOutcome(s, n, Len(recs), stop)
  BY <1>1, <1>4, <1>8
<1> HIDE DEF s, d, recs
<1>10. /\ d \in SessionsOf(p)
       /\ d.next = s.next + k /\ d.anchor = s.anchor /\ d.plan = p
       /\ PrefixOf(d)
       /\ \A i \in SlotIndices(p) :
             /\ i < s.next => d.slots[i] = s.slots[i]
             /\ (s.next <= i /\ i < d.next) =>
                   /\ d.slots[i].id = Len(store) + (i - s.next + 1)
                   /\ d.slots[i].hash = recs[i - s.next + 1]
  <2>1. /\ n \in Nat /\ d = AdvancedSession(s, recs, stop)
        /\ recs \in Seq(Records) /\ Len(recs) = k
        /\ AdvanceOutcome(s, n, Len(recs), stop)
    BY <1>6, <1>8, <1>9 DEF d
  <2> QED
    BY <1>1, <1>2, <2>1, AdvancedFacts
<1>11. DOMAIN d.slots = SlotIndices(p)
  BY <1>10, SessionFacts
<1>12. ASSUME NEW i \in CompletedSlots(d), i < s.next
       PROVE  i \in CompletedSlots(s) /\ d.slots[i] = s.slots[i]
  BY <1>6, <1>10, <1>11, <1>12 DEF CompletedSlots
<1>13. ASSUME NEW i \in CompletedSlots(d), ~(i < s.next)
       PROVE  /\ i \in SlotIndices(p) /\ i \in Nat
              /\ i - s.next + 1 \in 1 .. k
              /\ d.slots[i].id = Len(store) + (i - s.next + 1)
              /\ d.slots[i].hash = BenchmarkRecord(s, i, times[i - s.next + 1])
  <2>1. i \in SlotIndices(p) /\ i \in Nat /\ i < d.next
    BY <1>6, <1>10, <1>11 DEF CompletedSlots, PrefixOf
  <2>2. i - s.next + 1 \in 1 .. k
    BY <1>6, <1>10, <1>13, <2>1
  <2>3. recs[i - s.next + 1] = BenchmarkRecord(s, i, times[i - s.next + 1])
    <3>1. s.next + (i - s.next + 1) - 1 = i
      BY <1>6, <2>1
    <3> QED
      BY <2>2, <3>1 DEF recs
  <2>4. /\ d.slots[i].id = Len(store) + (i - s.next + 1)
        /\ d.slots[i].hash = recs[i - s.next + 1]
    BY <1>6, <1>10, <1>13, <2>1
  <2> QED
    BY <2>1, <2>2, <2>3, <2>4
<1>14. \A r \in DOMAIN store : r \in DOMAIN store' /\ store'[r] = store[r]
  BY <1>1, <1>8, <1>9
<1>15. EvidenceIn(d, store')
  <2> SUFFICES ASSUME NEW i \in CompletedSlots(d)
               PROVE  /\ d.slots[i].id \in DOMAIN store'
                      /\ store'[d.slots[i].id] = d.slots[i].hash
                      /\ \E t \in Timings : d.slots[i].hash = BenchmarkRecord(d, i, t)
    BY DEF EvidenceIn
  <2>1. CASE i < s.next
    <3>1. i \in CompletedSlots(s) /\ d.slots[i] = s.slots[i]
      BY <1>12, <2>1
    <3>2. \A t \in Timings : BenchmarkRecord(d, i, t) = BenchmarkRecord(s, i, t)
      BY <1>6, <1>10 DEF BenchmarkRecord
    <3> QED
      BY <1>2, <1>14, <3>1, <3>2 DEF EvidenceIn
  <2>2. CASE ~(i < s.next)
    <3>1. /\ i - s.next + 1 \in 1 .. k
          /\ d.slots[i].id = Len(store) + (i - s.next + 1)
          /\ d.slots[i].hash = BenchmarkRecord(s, i, times[i - s.next + 1])
          /\ recs[i - s.next + 1] = BenchmarkRecord(s, i, times[i - s.next + 1])
      <4>1. s.next + (i - s.next + 1) - 1 = i
        BY <1>6, <1>13, <2>2
      <4> QED
        BY <1>13, <2>2, <4>1 DEF recs
    <3>2. /\ d.slots[i].id \in DOMAIN store'
          /\ store'[d.slots[i].id] = recs[i - s.next + 1]
      BY <1>1, <1>8, <1>9, <3>1
    <3>3. times[i - s.next + 1] \in Timings
      BY <3>1
    <3> QED
      BY <1>6, <1>10, <3>1, <3>2, <3>3 DEF BenchmarkRecord
  <2> QED
    BY <2>1, <2>2
<1>16. ASSUME NEW i \in CompletedSlots(d)
       PROVE  \/ \E u \in Retained : /\ u.plan = p /\ i \in CompletedSlots(u)
                                     /\ u.slots[i].id = d.slots[i].id
              \/ /\ d.slots[i].id \notin DOMAIN store
                 /\ \A j \in CompletedSlots(d) : d.slots[j].id = d.slots[i].id => i = j
  <2>1. CASE i < s.next
    BY <1>1, <1>6, <1>12, <2>1
  <2>2. CASE ~(i < s.next)
    <3>1. Len(store) \in Nat /\ DOMAIN store = 1 .. Len(store)
      BY <1>1
    <3>2. d.slots[i].id \notin DOMAIN store
      BY <1>6, <1>13, <2>2, <3>1
    <3>3. ASSUME NEW j \in CompletedSlots(d), d.slots[j].id = d.slots[i].id
          PROVE  i = j
      <4>1. ~(j < s.next)
        BY <1>2, <1>12, <3>2, <3>3 DEF EvidenceIn
      <4>2. /\ i \in Nat /\ d.slots[i].id = Len(store) + (i - s.next + 1)
            /\ j \in Nat /\ d.slots[j].id = Len(store) + (j - s.next + 1)
        BY <1>13, <2>2, <3>3, <4>1
      <4> QED
        BY <1>6, <3>1, <3>3, <4>2
    <3> QED
      BY <3>2, <3>3
  <2> QED
    BY <2>1, <2>2
<1>17. TypeOK'
  BY <1>5, <1>9, <1>10, ReplacedTyped DEF IInv
<1>18. Retained' \subseteq Retained \cup {d}
  BY <1>5, <1>9, ReplacedSession DEF IInv
<1>19. CompletedPrefix' /\ EvidenceRetained' /\ OneSlotPerRecord'
  BY <1>10, <1>14, <1>15, <1>16, <1>18, StepKeeps
<1> QED
  BY <1>17, <1>19 DEF IInv

---------------------------------------------------------------------------
\* Every step keeps the invariant: one action at a time.
LEMMA NextKeeps == IInv /\ [Next]_vars => IInv'
<1> SUFFICES ASSUME IInv, [Next]_vars PROVE IInv'
  OBVIOUS
<1>1. ASSUME NEW p \in Plans, Start(p) PROVE IInv'
  BY <1>1, StartKeeps
<1>2. ASSUME NEW p \in Plans, Cancel(p) PROVE IInv'
  BY <1>2, CancelKeeps
<1>3. ASSUME NEW p \in Plans, MarkIndeterminate(p) PROVE IInv'
  BY <1>3, MarkIndeterminateKeeps
<1>4. ASSUME NEW p \in Plans, Checkpoint(p) PROVE IInv'
  BY <1>4, CheckpointKeeps
<1>5. ASSUME NEW p \in Plans, NEW n \in 1 .. MaxSlots, Advance(p, n) PROVE IInv'
  BY <1>5, AdvanceKeeps
<1>6. ASSUME NEW c \in checkpoints, Resume(c) PROVE IInv'
  BY <1>6, ResumeKeeps
<1>7. CASE ChangeMachine
  BY <1>7, ChangeMachineKeeps
<1>8. CASE UNCHANGED vars
  <2>1. Retained' = Retained /\ store' = store
    BY <1>8 DEF vars, Retained, Started
  <2>2. TypeOK'
    BY <1>8 DEF vars, IInv, TypeOK
  <2> QED
    BY <2>1, <2>2 DEF IInv, CompletedPrefix, EvidenceRetained, OneSlotPerRecord
<1> QED
  BY <1>1, <1>2, <1>3, <1>4, <1>5, <1>6, <1>7, <1>8 DEF Next

\* The inductive invariant is an invariant.
THEOREM Inductive == Spec => []IInv
<1>1. Init => IInv
  BY InitIInv
<1>2. IInv /\ [Next]_vars => IInv'
  BY NextKeeps
<1> QED
  BY <1>1, <1>2, PTL DEF Spec

\* Type correctness, whatever the plans, machines and bounds.
THEOREM TypeCorrect == Spec => []TypeOK
<1>1. IInv => TypeOK
  BY DEF IInv
<1> QED
  BY <1>1, Inductive, PTL

\* Complete slots are exactly those below next: verify may get away with counting them.
THEOREM PrefixHolds == Spec => []CompletedPrefix
<1>1. IInv => CompletedPrefix
  BY DEF IInv
<1> QED
  BY <1>1, Inductive, PTL

\* Every complete slot is backed by a retained record of its own artifact, machine and
\* configuration, for ever.
THEOREM EvidenceHolds == Spec => []EvidenceRetained
<1>1. IInv => EvidenceRetained
  BY DEF IInv
<1> QED
  BY <1>1, Inductive, PTL

\* No record is counted for two slots, in however many acquisitions and checkpoints.
THEOREM OneSlotHolds == Spec => []OneSlotPerRecord
<1>1. IInv => OneSlotPerRecord
  BY DEF IInv
<1> QED
  BY <1>1, Inductive, PTL

\* A stopped session publishes nothing and changes only by start or resume.
THEOREM StoppedHolds == Spec => StoppedStaysStopped
<1> DEFINE Stays == \A p \in Plans :
          (Started(p) /\ sessions[p].status # "Running" /\ sessions'[p] # sessions[p])
             => sessions'[p].status = "Running" /\ store' = store
<1>1. TypeOK /\ [Next]_vars => [Stays]_vars
  <2> SUFFICES ASSUME TypeOK, Next, NEW p \in Plans,
                      Started(p), sessions[p].status # "Running", sessions'[p] # sessions[p]
               PROVE  sessions'[p].status = "Running" /\ store' = store
    OBVIOUS
  <2>1. ASSUME NEW q \in Plans, Start(q)
        PROVE  sessions'[p].status = "Running" /\ store' = store
    BY <2>1 DEF Start, NewSession, TypeOK
  <2>2. ASSUME NEW q \in Plans,
               Cancel(q) \/ MarkIndeterminate(q) \/ Checkpoint(q)
        PROVE  FALSE
    BY <2>2 DEF Cancel, MarkIndeterminate, Checkpoint, TypeOK
  <2>3. ASSUME NEW q \in Plans, NEW n \in 1 .. MaxSlots, Advance(q, n) PROVE FALSE
    <3>1. sessions[q].status = "Running"
      BY <2>3 DEF Advance
    <3>2. \E d : sessions' = [sessions EXCEPT ![q] = d]
      BY <2>3 DEF Advance
    <3> QED
      BY <3>1, <3>2 DEF TypeOK
  <2>4. ASSUME NEW c \in checkpoints, Resume(c)
        PROVE  sessions'[p].status = "Running" /\ store' = store
    <3>1. c.plan \in Plans /\ c \in SessionsOf(c.plan)
      BY SessionFacts DEF TypeOK
    <3> QED
      BY <2>4, <3>1 DEF Resume, TypeOK, SessionsOf
  <2>5. ASSUME ChangeMachine PROVE FALSE
    BY <2>5 DEF ChangeMachine
  <2> QED
    BY <2>1, <2>2, <2>3, <2>4, <2>5 DEF Next
<1> QED
  BY <1>1, TypeCorrect, PTL DEF Spec, StoppedStaysStopped

---------------------------------------------------------------------------
\* The statuses of a journal whose current attempt may have published a record.
Uncertain == {"IndeterminateAfterCrash", "Ambiguous", "Blocked", "Abandoned"}

\* A session alone, against the store st.
SoundSession(s, st) ==
    /\ PrefixOf(s)
    /\ \A i \in CompletedSlots(s) : s.slots[i].id \in DOMAIN st
    /\ \A i, k \in CompletedSlots(s) : s.slots[i].id = s.slots[k].id => i = k

\* An attempt at slot k of session s froze what the slot will have, and a store
\* that held the records of all slots before it.
SoundAttempt(a, s, k, st) ==
    /\ a.artifact = PlannedArtifact(s.plan, k)
    /\ a.anchor = s.anchor /\ a.config = PlanConfig[s.plan]
    /\ DOMAIN a.snapshot \subseteq DOMAIN st
    /\ \A i \in CompletedSlots(s) : i < k => s.slots[i].id \in DOMAIN a.snapshot

\* A journal of slot k, with its session: it is resolved exactly when its slot is
\* complete, and then the record is new since its last attempt and compatible.
SoundJournal(j, s, k, st) ==
    /\ j.attempts # <<>>
    /\ \A n \in DOMAIN j.attempts : SoundAttempt(j.attempts[n], s, k, st)
    /\ k <= s.next
    /\ j.status \in Resolved <=> k < s.next
    /\ k < s.next =>
          LET r == s.slots[k].id
          IN  /\ r \in DOMAIN st \ DOMAIN Current(j).snapshot
              /\ st[r].artifact = Current(j).artifact
              /\ st[r].anchor = Current(j).anchor
              /\ st[r].config = Current(j).config

\* Sessions, journals and a store that fit together.
Consistent(ss, js, st) ==
    /\ \A p \in Plans : ss[p] # NoSession =>
          /\ SoundSession(ss[p], st)
          /\ \A k \in CompletedSlots(ss[p]) : js[<<p, k>>] # NoJournal
    /\ \A p \in Plans : \A k \in SlotIndices(p) : js[<<p, k>>] # NoJournal =>
          ss[p] # NoSession /\ SoundJournal(js[<<p, k>>], ss[p], k, st)

\* Records of st beyond the first from are accepted or candidates.
Kept(ss, js, st, from) ==
    \A r \in DOMAIN st : r > from =>
        \/ \E p \in Plans : /\ ss[p] # NoSession
                            /\ \E i \in CompletedSlots(ss[p]) : ss[p].slots[i].id = r
        \/ \E p \in Plans : \E k \in SlotIndices(p) :
              LET j == js[<<p, k>>]
              IN  j # NoJournal /\ j.status \in Uncertain /\ r \notin DOMAIN Current(j).snapshot

\* What a process that loads the archive will hold.
ArchivedSessions ==
    [p \in Plans |-> IF \E id \in DOMAIN archive.journals : id[1] = p
                     THEN archive.sessions[CHOOSE id \in DOMAIN archive.journals : id[1] = p]
                     ELSE NoSession]
ArchivedJournals ==
    [id \in JournalIds |-> IF id \in DOMAIN archive.journals THEN archive.journals[id] ELSE NoJournal]
ArchivedStore == IF Synthetic THEN archive.records ELSE store

RTypeOK ==
    /\ TypeOK
    /\ journals \in [JournalIds -> Journals \cup {NoJournal}]
    /\ born \in Nat /\ (Synthetic => born = 0)

\* The archive: one session for all journals of a plan, and all of it consistent.
SoundArchive ==
    archive # NoArchive =>
        /\ DOMAIN archive.journals \subseteq JournalIds
        /\ DOMAIN archive.sessions = DOMAIN archive.journals
        /\ archive.records \in Seq(Records)
        /\ \A id \in DOMAIN archive.journals :
              /\ archive.journals[id] \in Journals
              /\ archive.sessions[id] \in SessionsOf(id[1])
              /\ \A other \in DOMAIN archive.journals :
                    other[1] = id[1] => archive.sessions[other] = archive.sessions[id]
        /\ Consistent(ArchivedSessions, ArchivedJournals, ArchivedStore)
        /\ Synthetic => Kept(ArchivedSessions, ArchivedJournals, ArchivedStore, 0)

RInv ==
    /\ RTypeOK
    /\ Consistent(sessions, journals, store)
    /\ Kept(sessions, journals, store, born)
    /\ SoundArchive

---------------------------------------------------------------------------
\* Journals are identified by a plan and one of its slots.
LEMMA JournalIdFacts ==
    /\ \A p \in Plans : \A k \in SlotIndices(p) : <<p, k>> \in JournalIds
    /\ \A id \in JournalIds : id[1] \in Plans /\ id[2] \in SlotIndices(id[1]) /\ id = <<id[1], id[2]>>
  BY DEF JournalIds

\* The completed slots of a session with a completed prefix are those below next.
LEMMA PrefixSlots ==
    ASSUME NEW p \in Plans, NEW s \in SessionsOf(p), PrefixOf(s)
    PROVE  CompletedSlots(s) = {i \in SlotIndices(p) : i < s.next}
  BY SessionFacts DEF PrefixOf, CompletedSlots

\* A session just started is of its plan and has no completed slot.
LEMMA NewSessionFacts ==
    ASSUME NEW p \in Plans, NEW a \in Anchors
    PROVE  LET d == NewSession(p, a)
           IN  d \in SessionsOf(p) /\ PrefixOf(d) /\ CompletedSlots(d) = {}
<1> DEFINE d == NewSession(p, a)
<1>1. TotalSlots(p) \in Nat /\ SlotIndices(p) \subseteq Nat
  BY PlanFacts
<1>2. PendingSlot \in SlotRecords
  BY DEF PendingSlot, SlotRecords, SlotStatuses
<1>3. d \in SessionsOf(p)
  BY <1>1, <1>2 DEF NewSession, SessionsOf, SessionStatuses
<1>4. \A i \in DOMAIN d.slots : i \in Nat /\ d.slots[i] = PendingSlot /\ d.next = 0
  BY <1>1 DEF NewSession
<1> QED
  BY <1>3, <1>4 DEF PrefixOf, CompletedSlots, PendingSlot

\* What is consistent stays so when the store grows.
LEMMA GrowingStore ==
    ASSUME NEW ss, NEW js, NEW st, NEW su, Consistent(ss, js, st),
           \A r \in DOMAIN st : r \in DOMAIN su /\ su[r] = st[r]
    PROVE  Consistent(ss, js, su)
<1>1. ASSUME NEW s, SoundSession(s, st) PROVE SoundSession(s, su)
  BY <1>1 DEF SoundSession
<1>2. ASSUME NEW j, NEW s, NEW k, SoundJournal(j, s, k, st) PROVE SoundJournal(j, s, k, su)
  <2>1. ASSUME NEW a, SoundAttempt(a, s, k, st) PROVE SoundAttempt(a, s, k, su)
    BY <2>1 DEF SoundAttempt
  <2> QED
    BY <1>2, <2>1 DEF SoundJournal
<1> QED
  BY <1>1, <1>2 DEF Consistent

\* The journal of one slot is replaced by another that fits its session.
LEMMA JournalReplaced ==
    ASSUME NEW ss, NEW js, NEW st, Consistent(ss, js, st),
           NEW p \in Plans, NEW k \in SlotIndices(p), NEW j,
           DOMAIN js = JournalIds, ss[p] # NoSession, j # NoJournal,
           SoundJournal(j, ss[p], k, st)
    PROVE  Consistent(ss, [js EXCEPT ![<<p, k>>] = j], st)
<1> DEFINE jt == [js EXCEPT ![<<p, k>>] = j]
<1>1. \A q \in Plans : \A i \in SlotIndices(q) :
         jt[<<q, i>>] = IF q = p /\ i = k THEN j ELSE js[<<q, i>>]
  BY JournalIdFacts
<1>2. \A q \in Plans : ss[q] # NoSession =>
         SoundSession(ss[q], st) /\ \A i \in CompletedSlots(ss[q]) : js[<<q, i>>] # NoJournal
  BY DEF Consistent
<1>3. ASSUME NEW q \in Plans, ss[q] # NoSession, NEW i \in CompletedSlots(ss[q])
      PROVE  jt[<<q, i>>] # NoJournal
  BY <1>2, <1>3
<1>4. ASSUME NEW q \in Plans, NEW i \in SlotIndices(q), jt[<<q, i>>] # NoJournal
      PROVE  ss[q] # NoSession /\ SoundJournal(jt[<<q, i>>], ss[q], i, st)
  <2>1. CASE q = p /\ i = k
    BY <1>1, <2>1
  <2>2. CASE ~(q = p /\ i = k)
    BY <1>1, <1>4, <2>2 DEF Consistent
  <2> QED
    BY <2>1, <2>2
<1> HIDE DEF jt
<1>5. Consistent(ss, jt, st)
  BY <1>2, <1>3, <1>4 DEF Consistent
<1> QED
  BY <1>5 DEF jt

\* An attempt made at the session's current slot, against a store that holds the
\* records of its completed slots, is sound.
LEMMA NewAttempt ==
    ASSUME NEW p \in Plans, NEW s \in SessionsOf(p), SoundSession(s, store), store \in Seq(Records),
           s.next \in SlotIndices(p)
    PROVE  SoundAttempt(Attempt(s), s, s.next, store) /\ Attempt(s) \in Attempts
<1>1. s.plan = p /\ s.anchor \in Anchors /\ s.next \in Nat
  BY SessionFacts
<1>2. PlannedArtifact(p, s.next) \in Artifacts /\ PlanConfig[p] \in Configs
  BY PlanFacts, PlansAssumption
<1> QED
  BY <1>1, <1>2 DEF SoundAttempt, SoundSession, Attempt, Attempts

\* A session with a record attached has completed one slot more, under that record.
LEMMA AttachFacts ==
    ASSUME NEW p \in Plans, NEW s \in SessionsOf(p), s.next < TotalSlots(p),
           NEW r \in Nat, NEW record \in Records
    PROVE  LET d == AttachRecovered(s, r, record)
           IN  /\ d \in SessionsOf(p) /\ d.next = s.next + 1 /\ d.anchor = s.anchor /\ d.plan = p
               /\ \A i \in SlotIndices(p) : i # s.next => d.slots[i] = s.slots[i]
               /\ d.slots[s.next].status = "Complete" /\ d.slots[s.next].id = r
<1>1. <<record>> \in Seq(Records) /\ Len(<<record>>) = 1
  OBVIOUS
<1>2. /\ s.next \in Nat /\ TotalSlots(p) \in Nat
      /\ s.next \in SlotIndices(p) /\ SlotIndices(p) \subseteq Nat
  BY SessionFacts, PlanFacts
<1>3. ASSUME NEW recs \in Seq(Records), Len(recs) = 1
      PROVE  LET d == CompleteSlots(s, r, recs)
             IN  /\ d \in SessionsOf(p) /\ d.next = s.next + 1 /\ d.anchor = s.anchor /\ d.plan = p
                 /\ \A i \in SlotIndices(p) : i # s.next => d.slots[i] = s.slots[i]
                 /\ d.slots[s.next].status = "Complete" /\ d.slots[s.next].id = r
  <2> DEFINE d == CompleteSlots(s, r, recs)
  <2>1. s.next + Len(recs) <= TotalSlots(p)
    BY <1>2, <1>3
  <2>2. /\ d \in SessionsOf(p)
        /\ d.next = s.next + Len(recs) /\ d.anchor = s.anchor /\ d.plan = p
        /\ \A i \in SlotIndices(p) :
              /\ (i < s.next \/ i >= d.next) => d.slots[i] = s.slots[i]
              /\ (s.next <= i /\ i < d.next) =>
                    /\ d.slots[i].status = "Complete"
                    /\ d.slots[i].id = r + (i - s.next)
                    /\ d.slots[i].hash = recs[i - s.next + 1]
    BY <2>1, CompleteSlotsFacts
  <2> HIDE DEF d
  <2>3. /\ d.next = s.next + 1
        /\ \A i \in SlotIndices(p) : i # s.next => d.slots[i] = s.slots[i]
        /\ d.slots[s.next].status = "Complete" /\ d.slots[s.next].id = r
    BY <1>2, <1>3, <2>2
  <2> QED
    BY <2>2, <2>3 DEF d
<1> QED
  BY <1>1, <1>3 DEF AttachRecovered

\* From sessions, journals and a store to others: the store grew, and record r of it, new
\* since the last attempt of the journal of the current slot of plan p and compatible
\* with it, was attached to that slot.
Attaches(ss, js, st, p, r, sd, jt, su) ==
    LET s == ss[p]
        j == js[<<p, s.next>>]
        d == AttachRecovered(s, r, su[r])
    IN  /\ Consistent(ss, js, st)
        /\ su \in Seq(Records) /\ \A x \in DOMAIN st : x \in DOMAIN su /\ su[x] = st[x]
        /\ DOMAIN ss = Plans /\ DOMAIN js = JournalIds
        /\ \A q \in Plans : ss[q] # NoSession => ss[q] \in SessionsOf(q)
        /\ p \in Plans /\ s # NoSession /\ s.next < TotalSlots(p)
        /\ j # NoJournal /\ j \in Journals
        /\ r \in DOMAIN su \ DOMAIN Current(j).snapshot
        /\ su[r].artifact = Current(j).artifact
        /\ su[r].anchor = Current(j).anchor
        /\ su[r].config = Current(j).config
        /\ sd = [ss EXCEPT ![p] = d]
        /\ jt = [js EXCEPT ![<<p, s.next>>] = [j EXCEPT !.status = ResolvedStatus(d)]]

\* Then they are consistent again, and p has one slot more that is complete.
LEMMA Attached ==
    ASSUME NEW ss, NEW js, NEW st, NEW p, NEW r, NEW sd, NEW jt, NEW su,
           Attaches(ss, js, st, p, r, sd, jt, su)
    PROVE  /\ sd[p] \in SessionsOf(p) /\ jt[<<p, ss[p].next>>] \in Journals
           /\ CompletedSlots(sd[p]) = CompletedSlots(ss[p]) \cup {ss[p].next}
           /\ sd[p].slots[ss[p].next].id = r
           /\ \A i \in CompletedSlots(ss[p]) : sd[p].slots[i] = ss[p].slots[i]
           /\ Consistent(sd, jt, su)
<1> DEFINE s == ss[p]
           k == s.next
           j == js[<<p, k>>]
           d == AttachRecovered(s, r, su[r])
           jd == [j EXCEPT !.status = ResolvedStatus(d)]
<1>1. /\ Consistent(ss, js, st)
      /\ su \in Seq(Records) /\ \A x \in DOMAIN st : x \in DOMAIN su /\ su[x] = st[x]
      /\ DOMAIN ss = Plans /\ DOMAIN js = JournalIds
      /\ \A q \in Plans : ss[q] # NoSession => ss[q] \in SessionsOf(q)
      /\ p \in Plans /\ ss[p] = s /\ s # NoSession /\ s.next < TotalSlots(p)
      /\ s \in SessionsOf(p)
      /\ js[<<p, s.next>>] = j /\ j # NoJournal /\ j \in Journals
      /\ r \in DOMAIN su \ DOMAIN Current(j).snapshot
      /\ su[r].artifact = Current(j).artifact
      /\ su[r].anchor = Current(j).anchor
      /\ su[r].config = Current(j).config
      /\ sd = [ss EXCEPT ![p] = d]
      /\ jt = [js EXCEPT ![<<p, s.next>>] = jd]
      /\ jd = [j EXCEPT !.status = ResolvedStatus(d)]
      /\ d = AttachRecovered(s, r, su[r])
  BY DEF Attaches
<1> HIDE DEF s, j, d, jd
<1>2. /\ s.plan = p /\ k \in Nat /\ k \in SlotIndices(p) /\ DOMAIN s.slots = SlotIndices(p)
      /\ SlotIndices(p) \subseteq Nat
      /\ r \in Nat /\ su[r] \in Records /\ <<su[r]>> \in Seq(Records) /\ Len(<<su[r]>>) = 1
  BY <1>1, SessionFacts, PlanFacts
<1>3. /\ d \in SessionsOf(p) /\ d.next = k + 1 /\ d.anchor = s.anchor /\ d.plan = p
      /\ \A i \in SlotIndices(p) : i # k => d.slots[i] = s.slots[i]
      /\ d.slots[k].status = "Complete" /\ d.slots[k].id = r
  BY <1>1, <1>2, AttachFacts
<1>4. DOMAIN d.slots = SlotIndices(p)
  BY <1>1, <1>3, SessionFacts
<1>5. /\ jd \in Journals /\ jd.attempts = j.attempts /\ jd.status \in Resolved
      /\ Current(jd) = Current(j)
  BY <1>1 DEF Journals, ResolvedStatus, Resolved, Current
<1>6. /\ SoundSession(s, st) /\ \A i \in CompletedSlots(s) : js[<<p, i>>] # NoJournal
      /\ SoundJournal(j, s, k, st)
  BY <1>1, <1>2 DEF Consistent
<1>7. CompletedSlots(s) = {i \in SlotIndices(p) : i < k}
  BY <1>1, <1>6, PrefixSlots DEF SoundSession
<1>8. CompletedSlots(d) = CompletedSlots(s) \cup {k}
  BY <1>1, <1>2, <1>3, <1>4, <1>7 DEF CompletedSlots
<1>9. \A i \in CompletedSlots(s) : d.slots[i] = s.slots[i] /\ d.slots[i].id \in DOMAIN Current(j).snapshot
  <2>1. j.attempts \in Seq(Attempts) /\ Len(j.attempts) \in DOMAIN j.attempts
    BY <1>1, <1>6 DEF Journals, SoundJournal
  <2>2. SoundAttempt(Current(j), s, k, st)
    BY <1>1, <1>6, <2>1 DEF SoundJournal, Current
  <2> QED
    BY <1>1, <1>2, <1>3, <1>7, <2>2 DEF SoundAttempt
<1>10. SoundSession(d, su)
  <2>1. PrefixOf(d)
    BY <1>1, <1>2, <1>3, <1>4, <1>6 DEF PrefixOf, SoundSession
  <2>2. \A i \in CompletedSlots(d) : d.slots[i].id \in DOMAIN su
    BY <1>1, <1>3, <1>6, <1>8, <1>9 DEF SoundSession
  <2>3. \A i, m \in CompletedSlots(d) : d.slots[i].id = d.slots[m].id => i = m
    <3>1. \A i \in CompletedSlots(s) : d.slots[i].id = s.slots[i].id /\ d.slots[i].id # r
      BY <1>1, <1>9
    <3>2. \A i, m \in CompletedSlots(s) : s.slots[i].id = s.slots[m].id => i = m
      BY <1>6 DEF SoundSession
    <3> QED
      BY <1>3, <1>8, <3>1, <3>2
  <2> QED
    BY <1>1, <2>1, <2>2, <2>3 DEF SoundSession
<1>11. ASSUME NEW i \in SlotIndices(p), jt[<<p, i>>] # NoJournal
       PROVE  SoundJournal(jt[<<p, i>>], d, i, su)
  <2>1. CASE i = k
    <3>1. jt[<<p, i>>] = jd
      BY <1>1, <2>1, <1>2, JournalIdFacts
    <3>2. ASSUME NEW n \in DOMAIN j.attempts PROVE SoundAttempt(j.attempts[n], d, k, su)
      <4>1. SoundAttempt(j.attempts[n], s, k, st)
        BY <1>1, <1>6 DEF SoundJournal
      <4>2. \A m \in CompletedSlots(d) : m < k => m \in CompletedSlots(s) /\ d.slots[m] = s.slots[m]
        BY <1>1, <1>2, <1>8, <1>9
      <4>3. d.plan = s.plan /\ d.anchor = s.anchor /\ DOMAIN st \subseteq DOMAIN su
        BY <1>1, <1>2, <1>3
      <4> QED
        BY <1>1, <4>1, <4>2, <4>3 DEF SoundAttempt
    <3>3. jd.attempts # <<>> /\ \A n \in DOMAIN jd.attempts : SoundAttempt(jd.attempts[n], d, k, su)
      BY <1>1, <1>5, <1>6, <3>2 DEF SoundJournal
    <3>4. k <= d.next /\ k < d.next
      BY <1>1, <1>2, <1>3
    <3>5. /\ r \in DOMAIN su \ DOMAIN Current(jd).snapshot
          /\ su[r].artifact = Current(jd).artifact
          /\ su[r].anchor = Current(jd).anchor
          /\ su[r].config = Current(jd).config
      BY <1>1, <1>5
    <3>6. SoundJournal(jd, d, k, su)
      BY <1>1, <1>3, <1>5, <3>3, <3>4, <3>5 DEF SoundJournal
    <3> QED
      BY <1>1, <2>1, <3>1, <3>6
  <2>2. CASE i # k
    <3>1. jt[<<p, i>>] = js[<<p, i>>]
      BY <1>1, <2>2, <1>2, JournalIdFacts
    <3>2. SoundJournal(js[<<p, i>>], s, i, st)
      BY <1>1, <1>11, <3>1 DEF Consistent
    <3>3. i < k
      BY <1>1, <1>2, <2>2, <3>2 DEF SoundJournal
    <3>4. \A n \in DOMAIN js[<<p, i>>].attempts : SoundAttempt(js[<<p, i>>].attempts[n], d, i, su)
      <4>1. ASSUME NEW m \in CompletedSlots(d), m < i
            PROVE  m \in CompletedSlots(s) /\ d.slots[m].id = s.slots[m].id
        BY <1>1, <1>2, <1>8, <1>9, <3>3, <4>1
      <4>2. ASSUME NEW n \in DOMAIN js[<<p, i>>].attempts
            PROVE  SoundAttempt(js[<<p, i>>].attempts[n], d, i, su)
        <5>1. SoundAttempt(js[<<p, i>>].attempts[n], s, i, st)
          BY <1>1, <3>2 DEF SoundJournal
        <5> QED
          BY ZenonT(40), <1>1, <1>2, <1>3, <4>1, <5>1 DEF SoundAttempt
      <4> QED
        BY <1>1, <4>2
    <3>5. d.slots[i].id = s.slots[i].id /\ i <= d.next /\ i < d.next
      BY <1>1, <1>2, <1>3, <2>2, <3>3
    <3> QED
      BY <1>1, <3>1, <3>2, <3>3, <3>4, <3>5 DEF SoundJournal
  <2> QED
    BY <1>1, <2>1, <2>2
<1>12. Consistent(sd, jt, su)
  <2>1. Consistent(ss, js, su)
    BY <1>1, GrowingStore
  <2>2. \A q \in Plans : sd[q] = IF q = p THEN d ELSE ss[q]
    BY <1>1
  <2>3. \A q \in Plans : \A i \in SlotIndices(q) :
           jt[<<q, i>>] = IF q = p /\ i = k THEN jd ELSE js[<<q, i>>]
    BY <1>1, JournalIdFacts
  <2>4. ASSUME NEW q \in Plans, sd[q] # NoSession
        PROVE  SoundSession(sd[q], su) /\ \A i \in CompletedSlots(sd[q]) : jt[<<q, i>>] # NoJournal
    <3>1. CASE q = p
      <4>1. sd[q] = d /\ CompletedSlots(d) \subseteq SlotIndices(p)
        BY <1>1, <1>4, <2>2, <3>1 DEF CompletedSlots
      <4>2. \A i \in CompletedSlots(d) : jt[<<p, i>>] = IF i = k THEN jd ELSE js[<<p, i>>]
        BY <1>1, <2>3, <4>1
      <4> QED
        BY <1>5, <1>6, <1>8, <1>10, <3>1, <4>1, <4>2, NoJournalAssumption
    <3>2. CASE q # p
      <4>1. /\ sd[q] = ss[q] /\ SoundSession(ss[q], su)
            /\ \A i \in CompletedSlots(ss[q]) : js[<<q, i>>] # NoJournal
        BY <1>1, <2>1, <2>2, <2>4, <3>2 DEF Consistent
      <4> QED
        <5>1. DOMAIN ss[q].slots = SlotIndices(q)
          BY <1>1, <2>2, <2>4, <3>2, SessionFacts
        <5> QED
          BY <1>1, <2>3, <3>2, <4>1, <5>1 DEF CompletedSlots
    <3> QED
      BY <1>1, <3>1, <3>2
  <2>5. ASSUME NEW q \in Plans, NEW i \in SlotIndices(q), jt[<<q, i>>] # NoJournal
        PROVE  sd[q] # NoSession /\ SoundJournal(jt[<<q, i>>], sd[q], i, su)
    <3>1. CASE q = p
      BY ZenonT(40), <1>1, <1>3, <1>11, <2>2, <2>5, <3>1, NoSessionAssumption
    <3>2. CASE q # p
      BY <1>1, <2>1, <2>2, <2>3, <2>5, <3>2 DEF Consistent
    <3> QED
      BY <1>1, <3>1, <3>2
  <2> QED
    BY <1>1, <2>4, <2>5 DEF Consistent
<1>13. sd[p] = d /\ jt[<<p, k>>] = jd /\ d.slots[k].id = r
  BY <1>1, <1>2, <1>3, JournalIdFacts
<1> QED
  BY <1>1, <1>3, <1>5, <1>8, <1>9, <1>12, <1>13 DEF s
---------------------------------------------------------------------------
\* The shapes the proofs below read off the invariant.
LEMMA Shapes ==
    ASSUME RInv
    PROVE  /\ DOMAIN sessions = Plans /\ DOMAIN journals = JournalIds
           /\ store \in Seq(Records) /\ machine \in Anchors
           /\ \A p \in Plans : sessions[p] # NoSession => sessions[p] \in SessionsOf(p)
           /\ \A id \in JournalIds : journals[id] # NoJournal => journals[id] \in Journals
  BY DEF RInv, RTypeOK, TypeOK

\* The archive stays sound while it is not replaced and no record of the store is lost.
LEMMA ArchiveStays ==
    ASSUME SoundArchive, archive' = archive,
           Synthetic \/ \A r \in DOMAIN store : r \in DOMAIN store' /\ store'[r] = store[r]
    PROVE  SoundArchive'
<1> SUFFICES ASSUME archive # NoArchive PROVE SoundArchive'
  BY DEF SoundArchive
<1>1. ArchivedSessions' = ArchivedSessions /\ ArchivedJournals' = ArchivedJournals
  BY DEF ArchivedSessions, ArchivedJournals
<1>2. Consistent(ArchivedSessions, ArchivedJournals, ArchivedStore)
  BY DEF SoundArchive
<1>3. \A r \in DOMAIN ArchivedStore : r \in DOMAIN ArchivedStore' /\ ArchivedStore'[r] = ArchivedStore[r]
  BY DEF ArchivedStore
<1>4. Consistent(ArchivedSessions, ArchivedJournals, ArchivedStore')
  BY <1>2, <1>3, GrowingStore
<1>5. Synthetic => Kept(ArchivedSessions, ArchivedJournals, ArchivedStore', 0)
  BY DEF SoundArchive, ArchivedStore
<1> QED
  BY <1>1, <1>4, <1>5 DEF SoundArchive

\* A step that only replaces the journal of one slot by another that fits its session and
\* has every candidate the old one had.
LEMMA JournalStep ==
    ASSUME RInv, UNCHANGED <<vars, archive, born>>,
           NEW p \in Plans, NEW k \in SlotIndices(p), sessions[p] # NoSession,
           NEW j \in Journals, journals' = [journals EXCEPT ![<<p, k>>] = j],
           SoundJournal(j, sessions[p], k, store),
           (journals[<<p, k>>] # NoJournal /\ journals[<<p, k>>].status \in Uncertain) =>
               \A r \in DOMAIN store :
                  r \notin DOMAIN Current(journals[<<p, k>>]).snapshot =>
                     j.status \in Uncertain /\ r \notin DOMAIN Current(j).snapshot
    PROVE  RInv'
<1>1. /\ DOMAIN journals = JournalIds /\ <<p, k>> \in JournalIds /\ j # NoJournal
      /\ machine' = machine /\ store' = store /\ sessions' = sessions /\ checkpoints' = checkpoints
      /\ archive' = archive /\ born' = born
  BY Shapes, JournalIdFacts, NoJournalAssumption DEF vars
<1>2. RTypeOK'
  BY <1>1 DEF RInv, RTypeOK, TypeOK
<1>3. Consistent(sessions, journals', store)
  BY <1>1, JournalReplaced DEF RInv
<1>4. \A q \in Plans : \A i \in SlotIndices(q) :
         journals'[<<q, i>>] = IF q = p /\ i = k THEN j ELSE journals[<<q, i>>]
  BY <1>1, JournalIdFacts
<1>5. Kept(sessions, journals', store, born)
  <2> SUFFICES ASSUME NEW r \in DOMAIN store, r > born,
                      NEW q \in Plans, NEW i \in SlotIndices(q),
                      journals[<<q, i>>] # NoJournal, journals[<<q, i>>].status \in Uncertain,
                      r \notin DOMAIN Current(journals[<<q, i>>]).snapshot
               PROVE  /\ journals'[<<q, i>>] # NoJournal /\ journals'[<<q, i>>].status \in Uncertain
                      /\ r \notin DOMAIN Current(journals'[<<q, i>>]).snapshot
    BY DEF RInv, Kept
  <2> QED
    BY <1>1, <1>4
<1>6. SoundArchive'
  BY <1>1, ArchiveStays DEF RInv
<1> QED
  BY <1>1, <1>2, <1>3, <1>5, <1>6 DEF RInv

\* What is known of a journal that exists.
LEMMA JournalFacts ==
    ASSUME RInv, NEW id \in JournalIds, journals[id] # NoJournal
    PROVE  LET j == journals[id]  s == sessions[id[1]]
           IN  /\ id[1] \in Plans /\ id[2] \in SlotIndices(id[1]) /\ id = <<id[1], id[2]>>
               /\ s # NoSession /\ s \in SessionsOf(id[1])
               /\ j \in Journals
               /\ SoundJournal(j, s, id[2], store) /\ SoundSession(s, store)
               /\ Len(j.attempts) \in Nat /\ Len(j.attempts) \in DOMAIN j.attempts
  <1> DEFINE j == journals[id]
  <1>1. /\ id[1] \in Plans /\ id[2] \in SlotIndices(id[1]) /\ id = <<id[1], id[2]>>
    BY JournalIdFacts
  <1>2. journals[<<id[1], id[2]>>] # NoJournal
    BY <1>1
  <1>3. /\ sessions[id[1]] # NoSession /\ SoundJournal(journals[<<id[1], id[2]>>], sessions[id[1]], id[2], store)
        /\ SoundSession(sessions[id[1]], store)
    BY <1>1, <1>2 DEF RInv, Consistent
  <1>4. j \in Journals /\ sessions[id[1]] \in SessionsOf(id[1])
    BY <1>1, <1>3, Shapes
  <1>5. SoundJournal(j, sessions[id[1]], id[2], store)
    BY <1>1, <1>3
  <1>6. j.attempts \in Seq(Attempts) /\ j.attempts # <<>>
    BY <1>4, <1>5 DEF Journals, SoundJournal
  <1> QED
    BY <1>1, <1>3, <1>4, <1>5, <1>6

\* Giving a journal another unresolved status keeps it sound.
LEMMA OtherStatus ==
    ASSUME NEW j \in Journals, NEW s, NEW k, NEW st, SoundJournal(j, s, k, st),
           j.status \notin Resolved, NEW status,
           status \in {"Prepared", "RetryAuthorized", "IndeterminateAfterCrash", "Abandoned",
                       "NoPublicationObserved", "Ambiguous", "Blocked"}
    PROVE  LET d == [j EXCEPT !.status = status]
           IN  /\ d \in Journals /\ SoundJournal(d, s, k, st)
               /\ d.status = status /\ Current(d) = Current(j)
<1> DEFINE d == [j EXCEPT !.status = status]
<1>1. d \in Journals /\ d.status = status /\ d.attempts = j.attempts
  BY DEF Journals
<1>2. Current(d) = Current(j)
  BY <1>1 DEF Current
<1> HIDE DEF d
<1>3. SoundJournal(d, s, k, st)
  BY <1>1, <1>2 DEF SoundJournal, Resolved
<1> QED
  BY <1>1, <1>2, <1>3 DEF d
---------------------------------------------------------------------------
\* The requests that only change a journal.
LEMMA StopsKeeps == ASSUME RInv, NEW id \in JournalIds, ExecuteStops(id) PROVE RInv'
<1> DEFINE j == journals[id]
           d == [j EXCEPT !.status = "IndeterminateAfterCrash"]
<1>1. /\ j # NoJournal /\ j.status \in {"Prepared", "RetryAuthorized"}
      /\ journals' = [journals EXCEPT ![id] = d] /\ UNCHANGED <<vars, archive, born>>
  BY DEF ExecuteStops, MayExecute, Usable, Exists, Put
<1>2. /\ id[1] \in Plans /\ id[2] \in SlotIndices(id[1]) /\ id = <<id[1], id[2]>>
      /\ sessions[id[1]] # NoSession
      /\ j \in Journals /\ SoundJournal(j, sessions[id[1]], id[2], store)
  BY <1>1, JournalFacts
<1>3. /\ d \in Journals /\ SoundJournal(d, sessions[id[1]], id[2], store)
      /\ d.status = "IndeterminateAfterCrash" /\ Current(d) = Current(j)
  BY <1>1, <1>2, OtherStatus DEF Resolved
<1> HIDE DEF j, d
<1>4. journals' = [journals EXCEPT ![<<id[1], id[2]>>] = d] /\ j = journals[<<id[1], id[2]>>]
  BY <1>1, <1>2 DEF j
<1> QED
  BY <1>1, <1>2, <1>3, <1>4, JournalStep DEF Uncertain

LEMMA AbandonKeeps == ASSUME RInv, NEW id \in JournalIds, Abandon(id) PROVE RInv'
<1> DEFINE j == journals[id]
           d == [j EXCEPT !.status = "Abandoned"]
<1>1. /\ j # NoJournal /\ j.status \notin Resolved
      /\ journals' = [journals EXCEPT ![id] = d] /\ UNCHANGED <<vars, archive, born>>
  BY DEF Abandon, Exists, Put
<1>2. /\ id[1] \in Plans /\ id[2] \in SlotIndices(id[1]) /\ id = <<id[1], id[2]>>
      /\ sessions[id[1]] # NoSession
      /\ j \in Journals /\ SoundJournal(j, sessions[id[1]], id[2], store)
  BY <1>1, JournalFacts
<1>3. /\ d \in Journals /\ SoundJournal(d, sessions[id[1]], id[2], store)
      /\ d.status = "Abandoned" /\ Current(d) = Current(j)
  BY <1>1, <1>2, OtherStatus
<1> HIDE DEF j, d
<1>4. journals' = [journals EXCEPT ![<<id[1], id[2]>>] = d] /\ j = journals[<<id[1], id[2]>>]
  BY <1>1, <1>2 DEF j
<1> QED
  BY <1>1, <1>2, <1>3, <1>4, JournalStep DEF Uncertain

\* Nothing new is observed only where there is no candidate to lose.
LEMMA ObservesKeeps == ASSUME RInv, NEW id \in JournalIds, ReconcileObserves(id) PROVE RInv'
<1> DEFINE j == journals[id]
           status == CASE Observed(id) = "NoPublication" -> "NoPublicationObserved"
                       [] Observed(id) = "Multiple"      -> "Ambiguous"
                       [] OTHER                          -> "Blocked"
           d == [j EXCEPT !.status = status]
<1>1. /\ j # NoJournal /\ j.status \notin Resolved
      /\ journals' = [journals EXCEPT ![id] = d] /\ UNCHANGED <<vars, archive, born>>
  BY DEF ReconcileObserves, MayReconcile, Usable, Exists, Put
<1>2. /\ id[1] \in Plans /\ id[2] \in SlotIndices(id[1]) /\ id = <<id[1], id[2]>>
      /\ sessions[id[1]] # NoSession
      /\ j \in Journals /\ SoundJournal(j, sessions[id[1]], id[2], store)
  BY <1>1, JournalFacts
<1>3. /\ status \in {"NoPublicationObserved", "Ambiguous", "Blocked"}
      /\ status = "NoPublicationObserved" => DOMAIN store \ DOMAIN Current(j).snapshot = {}
  <2>1. CASE Observed(id) = "NoPublication"
    <3>1. NewRecords(j) = {}
      BY <2>1 DEF Observed
    <3> QED
      BY <2>1, <3>1 DEF NewRecords
  <2>2. CASE Observed(id) # "NoPublication"
    BY <2>2
  <2> QED
    BY <2>1, <2>2
<1> HIDE DEF j, status
<1>4. /\ d \in Journals /\ SoundJournal(d, sessions[id[1]], id[2], store)
      /\ d.status = status /\ Current(d) = Current(j)
  BY <1>1, <1>2, <1>3, OtherStatus
<1> HIDE DEF d
<1>5. journals' = [journals EXCEPT ![<<id[1], id[2]>>] = d] /\ j = journals[<<id[1], id[2]>>]
  BY <1>1, <1>2 DEF j
<1> QED
  BY <1>1, <1>2, <1>3, <1>4, <1>5, JournalStep DEF Uncertain

\* A retry is authorized only where the last attempt has no candidate left.
LEMMA RetryKeeps == ASSUME RInv, NEW id \in JournalIds, AuthorizeRetry(id) PROVE RInv'
<1> DEFINE j == journals[id]
           s == sessions[id[1]]
           d == [j EXCEPT !.status = "RetryAuthorized", !.attempts = Append(@, Attempt(s))]
<1>1. /\ j # NoJournal /\ j.status = "NoPublicationObserved"
      /\ journals' = [journals EXCEPT ![id] = d] /\ UNCHANGED <<vars, archive, born>>
      /\ s.next < TotalSlots(s.plan)
  BY DEF AuthorizeRetry, Usable, Exists, Put, RecoveryPending, SessionOf
<1>2. /\ id[1] \in Plans /\ id[2] \in SlotIndices(id[1]) /\ id = <<id[1], id[2]>>
      /\ s # NoSession /\ s \in SessionsOf(id[1])
      /\ j \in Journals /\ SoundJournal(j, s, id[2], store) /\ SoundSession(s, store)
  BY <1>1, JournalFacts
<1> HIDE DEF s
<1>3. s.next = id[2] /\ store \in Seq(Records)
  BY <1>1, <1>2, SessionFacts, PlanFacts, Shapes DEF SoundJournal, Resolved
<1>4. SoundAttempt(Attempt(s), s, id[2], store) /\ Attempt(s) \in Attempts
  BY <1>2, <1>3, NewAttempt
<1>5. /\ j.attempts \in Seq(Attempts) /\ d.attempts = Append(j.attempts, Attempt(s))
      /\ d.status = "RetryAuthorized" /\ d.slot = j.slot
      /\ d = [slot |-> d.slot, status |-> d.status, attempts |-> d.attempts]
  <2> DEFINE longer == Append(j.attempts, Attempt(s))
  <2>1. d = [j EXCEPT !.status = "RetryAuthorized", !.attempts = longer]
    OBVIOUS
  <2> HIDE DEF d, longer
  <2>2. /\ d.attempts = longer /\ d.status = "RetryAuthorized" /\ d.slot = j.slot
        /\ d = [slot |-> d.slot, status |-> d.status, attempts |-> d.attempts]
    BY <1>2, <2>1 DEF Journals
  <2> QED
    BY <1>2, <2>2 DEF Journals, longer
<1>6. d.attempts \in Seq(Attempts) /\ d.attempts # <<>>
  <2> HIDE DEF d, j
  <2> QED
    BY <1>4, <1>5
<1>7. d \in Journals
  <2>1. j.slot \in Nat
    BY <1>2 DEF Journals
  <2> HIDE DEF d, j
  <2> QED
    BY <1>5, <1>6, <2>1 DEF Journals
<1> HIDE DEF d
<1>8. \A n \in DOMAIN d.attempts : SoundAttempt(d.attempts[n], s, id[2], store)
  <2> SUFFICES ASSUME NEW n \in DOMAIN d.attempts
               PROVE  SoundAttempt(d.attempts[n], s, id[2], store)
    OBVIOUS
  <2>1. CASE n \in DOMAIN j.attempts
    <3>1. d.attempts[n] = j.attempts[n]
      BY <1>5, <2>1
    <3> QED
      BY <1>2, <2>1, <3>1 DEF SoundJournal
  <2>2. CASE n \notin DOMAIN j.attempts
    <3>1. d.attempts[n] = Attempt(s)
      BY <1>4, <1>5, <2>2
    <3> QED
      BY <1>4, <3>1
  <2> QED
    BY <2>1, <2>2
<1>9. SoundJournal(d, s, id[2], store)
  <2>1. id[2] \in Nat
    BY <1>2, <1>3, SessionFacts
  <2> QED
    BY <1>3, <1>5, <1>8, <1>6, <2>1 DEF SoundJournal, Resolved
<1> HIDE DEF j
<1>10. journals' = [journals EXCEPT ![<<id[1], id[2]>>] = d] /\ j = journals[<<id[1], id[2]>>]
  BY <1>1, <1>2 DEF j
<1> QED
  BY <1>1, <1>2, <1>7, <1>9, <1>10, JournalStep DEF Uncertain, s

\* A slot is prepared once, and against a store that holds all records of the session.
LEMMA PrepareKeeps ==
    ASSUME RInv, NEW p \in Plans, Prepare(p),
           ~(sessions[p].next \in DOMAIN sessions[p].slots /\ Exists(<<p, sessions[p].next>>))
    PROVE  RInv'
<1> DEFINE s == sessions[p]
           k == s.next
           d == [slot |-> k, status |-> "Prepared", attempts |-> <<Attempt(s)>>]
<1>1. /\ s # NoSession /\ k < TotalSlots(s.plan)
      /\ journals' = [journals EXCEPT ![<<p, k>>] = d] /\ UNCHANGED <<vars, archive, born>>
  BY DEF Prepare, Started, Put, RecoveryPending
<1>2. s \in SessionsOf(p) /\ SoundSession(s, store) /\ store \in Seq(Records)
  BY <1>1, Shapes DEF RInv, Consistent
<1> HIDE DEF s
<1>3. k \in Nat /\ k \in SlotIndices(p) /\ DOMAIN s.slots = SlotIndices(p)
  BY <1>1, <1>2, SessionFacts, PlanFacts
<1>4. journals[<<p, k>>] = NoJournal
  BY <1>3 DEF Exists, s
<1>5. SoundAttempt(Attempt(s), s, k, store) /\ Attempt(s) \in Attempts
  BY <1>2, <1>3, NewAttempt
<1>6. /\ d \in Journals /\ d.status = "Prepared" /\ d.attempts = <<Attempt(s)>>
  BY <1>3, <1>5 DEF Journals
<1> HIDE DEF d
<1>7. SoundJournal(d, s, k, store)
  BY <1>3, <1>5, <1>6 DEF SoundJournal, Resolved
<1> QED
  BY <1>1, <1>3, <1>4, <1>6, <1>7, JournalStep DEF s
---------------------------------------------------------------------------
\* The requests that complete a slot.

\* A step that completes the slot of an unresolved journal with a compatible record that is
\* the only one the step adds to the store and the only candidate the journal loses.
LEMMA SlotStep ==
    ASSUME RInv, UNCHANGED <<machine, checkpoints, archive, born>>,
           NEW p, NEW r, Attaches(sessions, journals, store, p, r, sessions', journals', store'),
           \A x \in DOMAIN store' :
              (x \in DOMAIN store =>
                  /\ journals[<<p, sessions[p].next>>].status \in Uncertain
                  /\ x \notin DOMAIN Current(journals[<<p, sessions[p].next>>]).snapshot)
                 => x = r
    PROVE  RInv'
<1> DEFINE s == sessions[p]
           k == s.next
           j == journals[<<p, k>>]
           d == sessions'[p]
           jd == journals'[<<p, k>>]
<1>1. /\ DOMAIN sessions = Plans /\ DOMAIN journals = JournalIds /\ store' \in Seq(Records)
      /\ p \in Plans /\ s # NoSession /\ s \in SessionsOf(p) /\ k < TotalSlots(p)
      /\ \A x \in DOMAIN store : x \in DOMAIN store' /\ store'[x] = store[x]
      /\ sessions' = [sessions EXCEPT ![p] = d]
      /\ journals' = [journals EXCEPT ![<<p, k>>] = jd]
  <2>1. /\ DOMAIN sessions = Plans /\ DOMAIN journals = JournalIds /\ store' \in Seq(Records)
        /\ p \in Plans /\ s # NoSession /\ s \in SessionsOf(p) /\ k < TotalSlots(p)
        /\ \A x \in DOMAIN store : x \in DOMAIN store' /\ store'[x] = store[x]
    BY DEF Attaches
  <2>2. k \in SlotIndices(p) /\ <<p, k>> \in JournalIds
    BY <2>1, SessionFacts, PlanFacts, JournalIdFacts
  <2> QED
    BY <2>1, <2>2 DEF Attaches
<1>2. k \in SlotIndices(p) /\ <<p, k>> \in JournalIds
  BY <1>1, SessionFacts, PlanFacts, JournalIdFacts
<1>3. /\ d \in SessionsOf(p) /\ jd \in Journals
      /\ CompletedSlots(d) = CompletedSlots(s) \cup {k}
      /\ d.slots[k].id = r
      /\ \A i \in CompletedSlots(s) : d.slots[i] = s.slots[i]
      /\ Consistent(sessions', journals', store')
  BY Attached
<1> HIDE DEF s, j, d, jd
<1>4. /\ sessions'[p] = d /\ d # NoSession /\ sessions[p] = s
      /\ \A q \in Plans : q # p => sessions'[q] = sessions[q]
      /\ \A o \in JournalIds : o # <<p, k>> => journals'[o] = journals[o]
  BY <1>1, <1>2, <1>3, NoSessionAssumption DEF s
<1>5. RTypeOK'
  BY <1>1, <1>2, <1>3 DEF RInv, RTypeOK, TypeOK
<1>6. Kept(sessions', journals', store', born')
  <2> SUFFICES ASSUME NEW x \in DOMAIN store', x > born
               PROVE  \/ \E q \in Plans : /\ sessions'[q] # NoSession
                                          /\ \E i \in CompletedSlots(sessions'[q]) : sessions'[q].slots[i].id = x
                      \/ \E q \in Plans : \E m \in SlotIndices(q) :
                            LET o == journals'[<<q, m>>]
                            IN  o # NoJournal /\ o.status \in Uncertain /\ x \notin DOMAIN Current(o).snapshot
    BY DEF Kept
  <2>1. CASE x = r
    <3>1. k \in CompletedSlots(sessions'[p]) /\ sessions'[p].slots[k].id = x
      BY <1>4, <1>3, <2>1
    <3> QED
      BY <1>1, <1>4, <3>1
  <2>2. CASE x # r
    <3>1. x \in DOMAIN store /\ ~(j.status \in Uncertain /\ x \notin DOMAIN Current(j).snapshot)
      BY <2>2 DEF s, j
    <3>2. CASE \E q \in Plans : /\ sessions[q] # NoSession
                                /\ \E i \in CompletedSlots(sessions[q]) : sessions[q].slots[i].id = x
      <4>1. PICK q \in Plans : /\ sessions[q] # NoSession
                               /\ \E i \in CompletedSlots(sessions[q]) : sessions[q].slots[i].id = x
        BY <3>2
      <4>2. PICK i \in CompletedSlots(sessions[q]) : sessions[q].slots[i].id = x
        BY <4>1
      <4>3. sessions'[q] # NoSession /\ i \in CompletedSlots(sessions'[q]) /\ sessions'[q].slots[i].id = x
        <5>1. CASE q = p
          BY <1>4, <1>3, <4>2, <5>1
        <5>2. CASE q # p
          BY <1>4, <4>1, <4>2, <5>2
        <5> QED
          BY <5>1, <5>2
      <4> QED
        BY <4>3
    <3>3. CASE \E q \in Plans : \E m \in SlotIndices(q) :
                 LET o == journals[<<q, m>>]
                 IN  o # NoJournal /\ o.status \in Uncertain /\ x \notin DOMAIN Current(o).snapshot
      <4>1. PICK q \in Plans : \E m \in SlotIndices(q) :
                 LET o == journals[<<q, m>>]
                 IN  o # NoJournal /\ o.status \in Uncertain /\ x \notin DOMAIN Current(o).snapshot
        BY <3>3
      <4>2. PICK m \in SlotIndices(q) :
                 LET o == journals[<<q, m>>]
                 IN  o # NoJournal /\ o.status \in Uncertain /\ x \notin DOMAIN Current(o).snapshot
        BY <4>1
      <4>3. <<q, m>> # <<p, k>>
        BY <3>1, <4>2 DEF j
      <4>4. journals'[<<q, m>>] = journals[<<q, m>>]
        BY <1>4, <4>3, JournalIdFacts
      <4> QED
        BY <4>2, <4>4
    <3> QED
      BY <3>1, <3>2, <3>3 DEF RInv, Kept
  <2> QED
    BY <2>1, <2>2
<1>7. SoundArchive'
  BY <1>1, ArchiveStays DEF RInv
<1> QED
  BY <1>3, <1>5, <1>6, <1>7 DEF RInv

\* What a benchmark publishes is new, and compatible with the journal it was executed for.
LEMMA MeasuredFacts ==
    ASSUME RInv, NEW id \in JournalIds, MayExecute(id), NEW t \in Timings, Measured(id, t)
    PROVE  /\ journals[id] # NoJournal /\ journals[id].status \in {"Prepared", "RetryAuthorized"}
           /\ sessions[id[1]].next < TotalSlots(id[1])
           /\ store' \in Seq(Records) /\ Len(store') = Len(store) + 1
           /\ DOMAIN store' = DOMAIN store \cup {Len(store')} /\ Len(store') \notin DOMAIN store
           /\ \A x \in DOMAIN store : store'[x] = store[x]
           /\ Len(store') \in DOMAIN store' \ DOMAIN Current(journals[id]).snapshot
           /\ store'[Len(store')].artifact = Current(journals[id]).artifact
           /\ store'[Len(store')].anchor = Current(journals[id]).anchor
           /\ store'[Len(store')].config = Current(journals[id]).config
<1> DEFINE s == sessions[id[1]]
           j == journals[id]
           record == BenchmarkRecord(s, s.next, t)
<1>1. /\ j # NoJournal /\ j.status \in {"Prepared", "RetryAuthorized"}
      /\ s.next < TotalSlots(s.plan) /\ store' = Append(store, record)
  BY DEF MayExecute, Usable, Exists, Measured, RecoveryPending, SessionOf
<1>2. /\ id[1] \in Plans /\ id[2] \in SlotIndices(id[1])
      /\ s \in SessionsOf(id[1]) /\ SoundJournal(j, s, id[2], store)
      /\ Len(j.attempts) \in DOMAIN j.attempts
  BY <1>1, JournalFacts
<1>3. store \in Seq(Records)
  BY Shapes
<1> HIDE DEF s, j
<1>4. s.plan = id[1] /\ s.next = id[2]
  <2>1. id[2] \in Nat /\ s.next \in Nat /\ s.plan = id[1]
    BY <1>2, SessionFacts, PlanFacts
  <2> QED
    BY <1>1, <1>2, <2>1 DEF SoundJournal, Resolved
<1>5. record \in Records
  BY <1>2, <1>4, BenchmarkRecordType
<1>6. SoundAttempt(Current(j), s, id[2], store)
  BY <1>2 DEF SoundJournal, Current
<1>7. /\ record.artifact = Current(j).artifact /\ record.anchor = Current(j).anchor
      /\ record.config = Current(j).config
  BY <1>4, <1>6 DEF SoundAttempt, BenchmarkRecord
<1> HIDE DEF record
<1>8. /\ store' \in Seq(Records) /\ Len(store') = Len(store) + 1
      /\ DOMAIN store' = DOMAIN store \cup {Len(store')} /\ Len(store') \notin DOMAIN store
      /\ \A x \in DOMAIN store : store'[x] = store[x]
      /\ store'[Len(store')] = record
  BY <1>1, <1>3, <1>5
<1> QED
  BY <1>1, <1>4, <1>6, <1>7, <1>8 DEF s, j, SoundAttempt

\* A journal that is not resolved is of the slot its session is at.
LEMMA UnresolvedIsCurrent ==
    ASSUME RInv, NEW id \in JournalIds, journals[id] # NoJournal, journals[id].status \notin Resolved
    PROVE  /\ id[1] \in Plans /\ sessions[id[1]] # NoSession /\ journals[id] \in Journals
           /\ id = <<id[1], sessions[id[1]].next>> /\ sessions[id[1]].plan = id[1]
<1> DEFINE s == sessions[id[1]]
<1>1. /\ id[1] \in Plans /\ id[2] \in SlotIndices(id[1]) /\ id = <<id[1], id[2]>>
      /\ s # NoSession /\ s \in SessionsOf(id[1]) /\ journals[id] \in Journals
      /\ SoundJournal(journals[id], s, id[2], store)
  BY JournalFacts
<1>2. id[2] \in Nat /\ s.next \in Nat /\ s.plan = id[1]
  BY <1>1, SessionFacts, PlanFacts
<1> HIDE DEF s
<1>3. s.next = id[2]
  BY <1>1, <1>2 DEF SoundJournal
<1> QED
  BY <1>1, <1>2, <1>3 DEF s

\* The benchmark ran and the record was published, but the session did not advance: the
\* record is a candidate of the journal it was measured for.
LEMMA PublishesKeeps == ASSUME RInv, NEW id \in JournalIds, ExecutePublishes(id) PROVE RInv'
<1> DEFINE p == id[1]
           k == id[2]
           j == journals[id]
           d == [j EXCEPT !.status = "IndeterminateAfterCrash"]
<1>1. PICK t \in Timings : Measured(id, t)
  BY DEF ExecutePublishes
<1>2. /\ j # NoJournal /\ j.status \in {"Prepared", "RetryAuthorized"}
      /\ store' \in Seq(Records) /\ DOMAIN store' = DOMAIN store \cup {Len(store')}
      /\ \A x \in DOMAIN store : store'[x] = store[x]
      /\ Len(store') \in DOMAIN store' \ DOMAIN Current(j).snapshot
  BY <1>1, MeasuredFacts DEF ExecutePublishes
<1>3. /\ p \in Plans /\ k \in SlotIndices(p) /\ id = <<p, k>>
      /\ sessions[p] # NoSession /\ j \in Journals /\ SoundJournal(j, sessions[p], k, store)
  BY <1>2, JournalFacts
<1>4. /\ d \in Journals /\ SoundJournal(d, sessions[p], k, store)
      /\ d.status = "IndeterminateAfterCrash" /\ Current(d) = Current(j)
  BY <1>2, <1>3, OtherStatus DEF Resolved
<1>5. /\ journals' = [journals EXCEPT ![id] = d]
      /\ UNCHANGED <<machine, sessions, checkpoints, archive, born>>
  BY DEF ExecutePublishes, Put
<1> HIDE DEF p, k, j, d
<1>6. DOMAIN journals = JournalIds /\ d # NoJournal
  BY <1>4, Shapes, NoJournalAssumption
<1>7. RTypeOK'
  BY <1>2, <1>4, <1>5 DEF RInv, RTypeOK, TypeOK
<1>8. Consistent(sessions, journals', store')
  <2>1. Consistent(sessions, journals', store)
    BY <1>3, <1>4, <1>5, <1>6, JournalReplaced DEF RInv
  <2> QED
    BY <1>2, <2>1, GrowingStore
<1>9. Kept(sessions, journals', store', born)
  <2>1. \A o \in JournalIds : journals'[o] = IF o = id THEN d ELSE journals[o]
    BY <1>5, <1>6
  <2>2. ASSUME NEW x \in DOMAIN store, x > born, NEW q \in Plans, NEW m \in SlotIndices(q),
               journals[<<q, m>>] # NoJournal, journals[<<q, m>>].status \in Uncertain,
               x \notin DOMAIN Current(journals[<<q, m>>]).snapshot
        PROVE  journals'[<<q, m>>] = journals[<<q, m>>]
    BY <1>2, <2>1, <2>2, JournalIdFacts DEF Uncertain, j
  <2>3. journals'[<<p, k>>] = d /\ d.status \in Uncertain
    BY <1>3, <1>4, <2>1 DEF Uncertain
  <2>4. Len(store') \notin DOMAIN Current(d).snapshot
    BY <1>2, <1>4
  <2> SUFFICES ASSUME NEW x \in DOMAIN store', x > born
               PROVE  \/ \E q \in Plans : /\ sessions[q] # NoSession
                                          /\ \E i \in CompletedSlots(sessions[q]) : sessions[q].slots[i].id = x
                      \/ \E q \in Plans : \E m \in SlotIndices(q) :
                            LET o == journals'[<<q, m>>]
                            IN  o # NoJournal /\ o.status \in Uncertain /\ x \notin DOMAIN Current(o).snapshot
    BY DEF Kept
  <2>5. CASE x = Len(store')
    BY <1>3, <1>6, <2>3, <2>4, <2>5
  <2>6. CASE x \in DOMAIN store
    BY <2>2, <2>6 DEF RInv, Kept
  <2> QED
    BY <1>2, <2>5, <2>6
<1>10. SoundArchive'
  BY <1>2, <1>5, ArchiveStays DEF RInv
<1> QED
  BY <1>5, <1>7, <1>8, <1>9, <1>10 DEF RInv

\* execute to its end attaches the record it published.
LEMMA CompletesKeeps == ASSUME RInv, NEW id \in JournalIds, ExecuteCompletes(id) PROVE RInv'
<1> DEFINE p == id[1]
           r == Len(store')
<1>1. PICK t \in Timings : Measured(id, t)
  BY DEF ExecuteCompletes
<1>2. /\ MayExecute(id) /\ UNCHANGED <<machine, checkpoints, archive, born>>
      /\ sessions' = [sessions EXCEPT ![p] = AttachRecovered(sessions[p], r, store'[r])]
      /\ journals' = [journals EXCEPT ![id] =
              [journals[id] EXCEPT !.status = ResolvedStatus(AttachRecovered(sessions[p], r, store'[r]))]]
  BY DEF ExecuteCompletes, Put, SessionOf
<1>3. /\ journals[id] # NoJournal /\ journals[id].status \in {"Prepared", "RetryAuthorized"}
      /\ sessions[p].next < TotalSlots(p)
      /\ store' \in Seq(Records) /\ DOMAIN store' = DOMAIN store \cup {r} /\ r \notin DOMAIN store
      /\ \A x \in DOMAIN store : store'[x] = store[x]
      /\ r \in DOMAIN store' \ DOMAIN Current(journals[id]).snapshot
      /\ store'[r].artifact = Current(journals[id]).artifact
      /\ store'[r].anchor = Current(journals[id]).anchor
      /\ store'[r].config = Current(journals[id]).config
  BY <1>1, <1>2, MeasuredFacts
<1> HIDE DEF p, r
<1>4. /\ p \in Plans /\ sessions[p] # NoSession /\ journals[id] \in Journals
      /\ id = <<p, sessions[p].next>>
  BY <1>3, UnresolvedIsCurrent DEF Resolved, p
<1>5. Attaches(sessions, journals, store, p, r, sessions', journals', store')
  BY <1>2, <1>3, <1>4, Shapes DEF Attaches, RInv
<1> QED
  BY <1>2, <1>3, <1>4, <1>5, SlotStep DEF Uncertain

\* reconcile attaches the only candidate of the journal.
LEMMA AttachesKeeps == ASSUME RInv, NEW id \in JournalIds, ReconcileAttaches(id) PROVE RInv'
<1> DEFINE p == id[1]
           j == journals[id]
<1>1. PICK r \in Compatible(j) :
         /\ sessions' = [sessions EXCEPT ![p] = AttachRecovered(sessions[p], r, store[r])]
         /\ journals' = [journals EXCEPT ![id] =
              [j EXCEPT !.status = ResolvedStatus(AttachRecovered(sessions[p], r, store[r]))]]
  BY DEF ReconcileAttaches, Put, SessionOf
<1>2. /\ j # NoJournal /\ j.status \notin Resolved
      /\ Observed(id) = "ExactlyOne" /\ sessions[p].next < TotalSlots(sessions[p].plan)
      /\ UNCHANGED <<machine, store, checkpoints, archive, born>>
  BY DEF ReconcileAttaches, MayReconcile, Usable, Exists, RecoveryPending, SessionOf
<1>3. /\ p \in Plans /\ sessions[p] # NoSession /\ j \in Journals
      /\ id = <<p, sessions[p].next>> /\ sessions[p].plan = p
  BY <1>2, UnresolvedIsCurrent
<1>4. store \in Seq(Records)
  BY Shapes
<1>5. \A x \in NewRecords(j) : x = r
  <2>1. Cardinality(NewRecords(j)) = 1
    BY <1>2 DEF Observed
  <2>2. IsFiniteSet(NewRecords(j))
    BY <1>4, FS_Interval, FS_Subset DEF NewRecords
  <2> QED
    BY <2>1, <2>2, FS_Singleton DEF Compatible
<1>6. /\ r \in DOMAIN store \ DOMAIN Current(j).snapshot
      /\ store[r].artifact = Current(j).artifact
      /\ store[r].anchor = Current(j).anchor
      /\ store[r].config = Current(j).config
  BY DEF Compatible, NewRecords
<1>7. Attaches(sessions, journals, store, p, r, sessions', journals', store')
  <2> HIDE DEF p
  <2> QED
    BY <1>1, <1>2, <1>3, <1>4, <1>6, Shapes DEF Attaches, RInv
<1>8. \A x \in DOMAIN store' : x \in DOMAIN store /\ (x \notin DOMAIN Current(j).snapshot => x = r)
  BY <1>2, <1>5 DEF NewRecords
<1> QED
  BY <1>2, <1>3, <1>7, <1>8, SlotStep
---------------------------------------------------------------------------
\* The plan is started for the first time: it has no journal yet.
LEMMA FirstStartKeeps ==
    ASSUME RInv, NEW p \in Plans, ~Started(p), Start(p), UNCHANGED recoveryVars
    PROVE  RInv'
<1> DEFINE d == NewSession(p, machine)
<1>1. /\ sessions' = [sessions EXCEPT ![p] = d] /\ sessions[p] = NoSession
      /\ UNCHANGED <<machine, store, checkpoints, journals, archive, born>>
  BY DEF Start, Started, recoveryVars
<1>2. DOMAIN sessions = Plans /\ store \in Seq(Records) /\ machine \in Anchors
  BY Shapes
<1>3. d \in SessionsOf(p) /\ PrefixOf(d) /\ CompletedSlots(d) = {}
  BY <1>2, NewSessionFacts
<1>4. SoundSession(d, store)
  BY <1>3 DEF SoundSession
<1> HIDE DEF d
<1>5. \A q \in Plans : sessions'[q] = IF q = p THEN d ELSE sessions[q]
  BY <1>1, <1>2
<1>6. RTypeOK'
  BY <1>1, <1>3 DEF RInv, RTypeOK, TypeOK
<1>7. Consistent(sessions', journals, store)
  BY <1>1, <1>3, <1>4, <1>5 DEF RInv, Consistent
<1>8. Kept(sessions', journals, store, born)
  BY <1>1, <1>5 DEF RInv, Kept
<1>9. SoundArchive'
  BY <1>1, ArchiveStays DEF RInv
<1> QED
  BY <1>1, <1>6, <1>7, <1>8, <1>9 DEF RInv

\* A process dies: nothing is left but the archive and, unless it was the process's own,
\* the store.
LEMMA CrashKeeps == ASSUME RInv, Crash PROVE RInv'
<1>1. /\ sessions' = [p \in Plans |-> NoSession] /\ journals' = [id \in JournalIds |-> NoJournal]
      /\ checkpoints' = {} /\ machine' = machine /\ archive' = archive
      /\ store' = IF Synthetic THEN <<>> ELSE store
      /\ born' = Len(store')
  BY DEF Crash
<1>2. store \in Seq(Records) /\ store' \in Seq(Records)
  BY <1>1, Shapes
<1>3. \A p \in Plans : \A k \in SlotIndices(p) : journals'[<<p, k>>] = NoJournal
  BY <1>1, JournalIdFacts
<1>4. RTypeOK'
  BY <1>1, <1>2 DEF RInv, RTypeOK, TypeOK
<1>5. Consistent(sessions', journals', store')
  BY <1>1, <1>3 DEF Consistent
<1>6. Kept(sessions', journals', store', born')
  BY <1>1, <1>2 DEF Kept
<1>7. SoundArchive'
  BY <1>1, ArchiveStays DEF RInv
<1> QED
  BY <1>4, <1>5, <1>6, <1>7 DEF RInv

\* Steps that leave everything the invariant speaks of but the machine.
LEMMA UnchangedKeeps ==
    ASSUME RInv, machine' \in Anchors, UNCHANGED <<store, sessions, checkpoints, journals, archive, born>>
    PROVE  RInv'
<1>1. RTypeOK'
  BY DEF RInv, RTypeOK, TypeOK
<1>2. SoundArchive'
  BY ArchiveStays DEF RInv
<1> QED
  BY <1>1, <1>2 DEF RInv

\* A save after every journal was checkpointed: the archive holds what the process holds
\* of the plans that have a journal, and a plan without one has no record to lose.
LEMMA SaveKeeps == ASSUME RInv, AllCheckpointed, SaveArchive PROVE RInv'
<1> DEFINE kept == {id \in JournalIds : Exists(id)}
<1>1. /\ archive' = [records |-> store, journals |-> [id \in kept |-> journals[id]],
                     sessions |-> [id \in kept |-> recoveryCheckpoints[id]]]
      /\ UNCHANGED <<machine, store, sessions, checkpoints, journals, born>>
  BY DEF SaveArchive, vars
<1>2. /\ DOMAIN sessions = Plans /\ DOMAIN journals = JournalIds /\ store \in Seq(Records)
      /\ \A p \in Plans : sessions[p] # NoSession => sessions[p] \in SessionsOf(p)
      /\ \A id \in JournalIds : journals[id] # NoJournal => journals[id] \in Journals
  BY Shapes
<1>3. \A id \in JournalIds : id \in kept <=> journals[id] # NoJournal
  BY DEF Exists
<1>4. \A id \in kept : id \in JournalIds /\ recoveryCheckpoints[id] = sessions[id[1]]
  BY DEF AllCheckpointed, SessionOf
<1> HIDE DEF kept
<1>5. /\ DOMAIN archive'.journals = kept /\ DOMAIN archive'.sessions = kept
      /\ archive'.records = store
      /\ \A id \in kept : archive'.journals[id] = journals[id] /\ archive'.sessions[id] = sessions[id[1]]
  BY <1>1, <1>4
<1>6. \A p \in Plans :
         ArchivedSessions'[p] = IF \E id \in kept : id[1] = p THEN sessions[p] ELSE NoSession
  BY <1>5 DEF ArchivedSessions
<1>7. \A id \in JournalIds : ArchivedJournals'[id] = journals[id]
  BY <1>3, <1>5 DEF ArchivedJournals
<1>8. ArchivedStore' = store
  BY <1>1, <1>5 DEF ArchivedStore
<1>9. \A p \in Plans : \A k \in SlotIndices(p) : journals[<<p, k>>] # NoJournal =>
         ArchivedSessions'[p] = sessions[p]
  BY <1>3, <1>6, JournalIdFacts
<1>10. \A p \in Plans : ArchivedSessions'[p] # NoSession => ArchivedSessions'[p] = sessions[p]
  BY <1>6
<1>11. Consistent(ArchivedSessions', ArchivedJournals', ArchivedStore')
  <2>1. ASSUME NEW p \in Plans, ArchivedSessions'[p] # NoSession
        PROVE  /\ SoundSession(ArchivedSessions'[p], store)
               /\ \A k \in CompletedSlots(ArchivedSessions'[p]) : ArchivedJournals'[<<p, k>>] # NoJournal
    <3>1. /\ sessions[p] # NoSession /\ ArchivedSessions'[p] = sessions[p]
          /\ CompletedSlots(sessions[p]) \subseteq SlotIndices(p)
      BY <1>2, <1>10, <2>1, SessionFacts DEF CompletedSlots
    <3> QED
      BY <1>7, <3>1, JournalIdFacts DEF RInv, Consistent
  <2>2. ASSUME NEW p \in Plans, NEW k \in SlotIndices(p), ArchivedJournals'[<<p, k>>] # NoJournal
        PROVE  /\ ArchivedSessions'[p] # NoSession
               /\ SoundJournal(ArchivedJournals'[<<p, k>>], ArchivedSessions'[p], k, store)
    <3>1. ArchivedJournals'[<<p, k>>] = journals[<<p, k>>] /\ journals[<<p, k>>] # NoJournal
      BY <1>7, <2>2, JournalIdFacts
    <3>2. ArchivedSessions'[p] = sessions[p]
      BY <1>9, <3>1
    <3>3. sessions[p] # NoSession /\ SoundJournal(journals[<<p, k>>], sessions[p], k, store)
      BY <3>1 DEF RInv, Consistent
    <3> QED
      BY <3>1, <3>2, <3>3
  <2> QED
    BY <1>8, <2>1, <2>2 DEF Consistent
<1>12. Synthetic => Kept(ArchivedSessions', ArchivedJournals', ArchivedStore', 0)
  <2> SUFFICES ASSUME Synthetic, NEW r \in DOMAIN store, r > 0
               PROVE  \/ \E p \in Plans : /\ ArchivedSessions'[p] # NoSession
                                          /\ \E i \in CompletedSlots(ArchivedSessions'[p]) :
                                                ArchivedSessions'[p].slots[i].id = r
                      \/ \E p \in Plans : \E k \in SlotIndices(p) :
                            LET j == ArchivedJournals'[<<p, k>>]
                            IN  /\ j # NoJournal /\ j.status \in Uncertain
                                /\ r \notin DOMAIN Current(j).snapshot
    BY <1>8 DEF Kept
  <2>1. born = 0
    BY DEF RInv, RTypeOK
  <2>2. CASE \E p \in Plans : /\ sessions[p] # NoSession
                              /\ \E i \in CompletedSlots(sessions[p]) : sessions[p].slots[i].id = r
    <3>1. PICK p \in Plans : /\ sessions[p] # NoSession
                             /\ \E i \in CompletedSlots(sessions[p]) : sessions[p].slots[i].id = r
      BY <2>2
    <3>2. PICK i \in CompletedSlots(sessions[p]) : sessions[p].slots[i].id = r
      BY <3>1
    <3>3. i \in SlotIndices(p) /\ journals[<<p, i>>] # NoJournal
      BY <1>2, <3>1, SessionFacts DEF CompletedSlots, RInv, Consistent
    <3>4. ArchivedSessions'[p] = sessions[p]
      BY <1>9, <3>3
    <3> QED
      BY <3>1, <3>2, <3>4
  <2>3. CASE \E p \in Plans : \E k \in SlotIndices(p) :
               LET j == journals[<<p, k>>]
               IN  j # NoJournal /\ j.status \in Uncertain /\ r \notin DOMAIN Current(j).snapshot
    BY <1>7, <2>3, JournalIdFacts
  <2> QED
    BY <2>1, <2>2, <2>3 DEF RInv, Kept
<1>13. SoundArchive'
  <2>1. kept \subseteq JournalIds
    BY <1>4
  <2>2. \A id \in kept : /\ archive'.journals[id] \in Journals
                         /\ archive'.sessions[id] \in SessionsOf(id[1])
    <3> SUFFICES ASSUME NEW id \in kept
                 PROVE  journals[id] \in Journals /\ sessions[id[1]] \in SessionsOf(id[1])
      BY <1>5
    <3> QED
      BY <1>3, <1>4, JournalFacts
  <2>3. \A id, other \in kept : other[1] = id[1] => archive'.sessions[other] = archive'.sessions[id]
    BY <1>5
  <2> QED
    BY <1>2, <1>5, <1>11, <1>12, <2>1, <2>2, <2>3 DEF SoundArchive
<1>14. RTypeOK'
  BY <1>1 DEF RInv, RTypeOK, TypeOK
<1> QED
  BY <1>1, <1>13, <1>14 DEF RInv

\* A new process loads the archive before anything else.
LEMMA ImportKeeps == ASSUME RInv, Fresh, ImportArchive PROVE RInv'
<1> DEFINE kept == DOMAIN archive.journals
           plans == {id[1] : id \in kept}
<1>1. /\ kept \subseteq JournalIds /\ archive.records \in Seq(Records)
      /\ \A id \in kept : /\ archive.journals[id] \in Journals
                          /\ archive.sessions[id] \in SessionsOf(id[1])
                          /\ \A other \in kept :
                                other[1] = id[1] => archive.sessions[other] = archive.sessions[id]
      /\ Consistent(ArchivedSessions, ArchivedJournals, ArchivedStore)
      /\ Synthetic => Kept(ArchivedSessions, ArchivedJournals, ArchivedStore, 0)
  BY DEF ImportArchive, RInv, SoundArchive
<1>2. PICK last \in {f \in [plans -> kept] : \A p \in plans : f[p][1] = p} :
         sessions' = [p \in Plans |-> IF p \in plans THEN archive.sessions[last[p]] ELSE sessions[p]]
  BY DEF ImportArchive
<1>3. /\ store' = ArchivedStore
      /\ journals' = [id \in JournalIds |-> IF id \in kept THEN archive.journals[id] ELSE journals[id]]
      /\ UNCHANGED <<machine, checkpoints, archive, born>>
  BY DEF ImportArchive, ArchivedStore
<1>4. /\ \A p \in Plans : sessions[p] = NoSession
      /\ \A id \in JournalIds : journals[id] = NoJournal
  BY DEF Fresh, Started, Exists
<1>5. sessions' = ArchivedSessions
  <2>1. ASSUME NEW p \in Plans, p \in plans
        PROVE  archive.sessions[last[p]] = ArchivedSessions[p]
    <3>1. last[p] \in kept /\ last[p][1] = p
      BY <1>2, <2>1
    <3> DEFINE chosen == CHOOSE id \in kept : id[1] = p
    <3>2. chosen \in kept /\ chosen[1] = p
      BY <3>1
    <3>3. ArchivedSessions[p] = archive.sessions[chosen]
      BY <3>1 DEF ArchivedSessions
    <3> HIDE DEF chosen
    <3> QED
      BY <1>1, <3>1, <3>2, <3>3
  <2>2. ASSUME NEW p \in Plans, p \notin plans
        PROVE  ArchivedSessions[p] = NoSession
    BY <2>2 DEF ArchivedSessions
  <2>3. ArchivedSessions = [p \in Plans |-> ArchivedSessions[p]]
    BY DEF ArchivedSessions
  <2> HIDE DEF plans
  <2> QED
    BY <1>2, <1>4, <2>1, <2>2, <2>3
<1>6. journals' = ArchivedJournals
  BY <1>3, <1>4 DEF ArchivedJournals
<1>7. ArchivedStore \in Seq(Records)
  BY <1>1, Shapes DEF ArchivedStore
<1>8. \A p \in Plans : ArchivedSessions[p] = NoSession \/ ArchivedSessions[p] \in SessionsOf(p)
  BY <1>1 DEF ArchivedSessions
<1>9. RTypeOK'
  <2>1. sessions' = [p \in Plans |-> ArchivedSessions[p]]
    BY <1>5 DEF ArchivedSessions
  <2>2. journals' \in [JournalIds -> Journals \cup {NoJournal}]
    BY <1>1, <1>3, <1>4
  <2> QED
    BY <1>3, <1>7, <1>8, <2>1, <2>2 DEF RInv, RTypeOK, TypeOK
<1>10. Consistent(sessions', journals', store')
  BY <1>1, <1>3, <1>5, <1>6
<1>11. Kept(sessions', journals', store', born')
  <2>1. CASE Synthetic
    BY <1>1, <1>3, <1>5, <1>6, <2>1 DEF RInv, RTypeOK
  <2>2. CASE ~Synthetic
    <3>1. store' = store
      BY <1>3, <2>2 DEF ArchivedStore
    <3>2. \A r \in DOMAIN store : ~(r > born)
      BY <1>4, JournalIdFacts DEF RInv, Kept
    <3> QED
      BY <1>3, <3>1, <3>2 DEF Kept
  <2> QED
    BY <2>1, <2>2
<1>12. SoundArchive'
  <2>1. Synthetic \/ store' = store
    BY <1>3 DEF ArchivedStore
  <2> QED
    BY <1>3, <2>1, ArchiveStays DEF RInv
<1> QED
  BY <1>9, <1>10, <1>11, <1>12 DEF RInv

---------------------------------------------------------------------------
LEMMA InitRInv == RInit => RInv
<1> SUFFICES ASSUME RInit PROVE RInv
  OBVIOUS
<1>1. /\ Init /\ sessions = [p \in Plans |-> NoSession] /\ store = <<>> /\ checkpoints = {}
      /\ journals = [id \in JournalIds |-> NoJournal] /\ archive = NoArchive /\ born = 0
  BY DEF RInit, Init
<1>2. RTypeOK
  BY <1>1 DEF RTypeOK, TypeOK, Init
<1>3. Consistent(sessions, journals, store)
  BY <1>1, JournalIdFacts DEF Consistent
<1> QED
  BY <1>1, <1>2, <1>3 DEF RInv, Kept, SoundArchive

LEMMA RestartStep == RInv /\ [RestartNext]_rvars => RInv'
<1> SUFFICES ASSUME RInv, [RestartNext]_rvars PROVE RInv'
  OBVIOUS
<1>1. ASSUME NEW p \in Plans, ~Started(p), Start(p), UNCHANGED recoveryVars PROVE RInv'
  BY <1>1, FirstStartKeeps
<1>2. ASSUME NEW p \in Plans, Prepare(p),
             ~(sessions[p].next \in DOMAIN sessions[p].slots /\ Exists(<<p, sessions[p].next>>))
      PROVE  RInv'
  BY <1>2, PrepareKeeps
<1>3. ASSUME NEW id \in JournalIds, JournalNext(id) PROVE RInv'
  BY <1>3, StopsKeeps, PublishesKeeps, CompletesKeeps, AttachesKeeps, ObservesKeeps, RetryKeeps,
     AbandonKeeps DEF JournalNext, Reconcile
<1>4. CASE ChangeMachine /\ UNCHANGED recoveryVars
  BY <1>4, UnchangedKeeps DEF ChangeMachine, recoveryVars
<1>5. ASSUME NEW id \in JournalIds, RecoveryCheckpoint(id) PROVE RInv'
  BY <1>5, Shapes, UnchangedKeeps DEF RecoveryCheckpoint, vars
<1>6. CASE AllCheckpointed /\ SaveArchive
  BY <1>6, SaveKeeps
<1>7. CASE Fresh /\ ImportArchive
  BY <1>7, ImportKeeps
<1>8. CASE Crash
  BY <1>8, CrashKeeps
<1>9. CASE UNCHANGED rvars
  BY <1>9, Shapes, UnchangedKeeps DEF rvars, vars, recoveryVars
<1> QED
  BY <1>1, <1>2, <1>3, <1>4, <1>5, <1>6, <1>7, <1>8, <1>9 DEF RestartNext, CarefulNext

\* Whatever the careful client asks, wherever a request stops, whenever the process dies
\* and from whichever archive the next one continues: sessions, journals, the store and
\* the archive fit together as RInv says.
THEOREM RecoveryInductive == RestartSpec => []RInv
<1>1. RestartSpec => RInit /\ [][RestartNext]_rvars
  BY PTL DEF RestartSpec
<1> QED
  BY <1>1, InitRInv, RestartStep, PTL

\* No record the store holds is counted for two slots of one acquisition, whatever recovery
\* attached to it before and after the process was restarted.
THEOREM RecordsCountOnce == RestartSpec => []RecordCountedOnce
<1>1. RInv => RecordCountedOnce
  <2> SUFFICES ASSUME RInv, NEW x \in Accepted, NEW y \in Accepted,
                      x[1] = y[1], AcceptedId(x) = AcceptedId(y)
               PROVE  x = y
    BY DEF RecordCountedOnce
  <2>1. /\ x = <<x[1], x[2]>> /\ y = <<x[1], y[2]>> /\ x[1] \in Plans
        /\ sessions[x[1]] # NoSession
        /\ x[2] \in CompletedSlots(sessions[x[1]]) /\ y[2] \in CompletedSlots(sessions[x[1]])
    BY JournalIdFacts DEF Accepted, Started, SessionOf
  <2>2. sessions[x[1]].slots[x[2]].id = sessions[x[1]].slots[y[2]].id
    BY DEF AcceptedId, SessionOf
  <2> QED
    BY <2>1, <2>2 DEF RInv, Consistent, SoundSession
<1> QED
  BY <1>1, RecoveryInductive, PTL

\* A record a living process published backs a slot, or stays among the candidates of an
\* unresolved journal, from which it can be recovered.
THEOREM RecordsAreKept == RestartSpec => []NoRecordLost
<1>1. RInv => NoRecordLost
  <2> SUFFICES ASSUME RInv, NEW r \in DOMAIN store, r > born
               PROVE  \/ \E x \in Accepted : AcceptedId(x) = r
                      \/ \E id \in JournalIds : /\ Exists(id)
                                                /\ journals[id].status \notin Resolved
                                                /\ r \in NewRecords(journals[id])
    BY DEF NoRecordLost
  <2>1. CASE \E p \in Plans : /\ sessions[p] # NoSession
                              /\ \E i \in CompletedSlots(sessions[p]) : sessions[p].slots[i].id = r
    <3>1. PICK p \in Plans : /\ sessions[p] # NoSession
                             /\ \E i \in CompletedSlots(sessions[p]) : sessions[p].slots[i].id = r
      BY <2>1
    <3>2. PICK i \in CompletedSlots(sessions[p]) : sessions[p].slots[i].id = r
      BY <3>1
    <3>3. i \in SlotIndices(p)
      BY <3>1, Shapes, SessionFacts DEF CompletedSlots
    <3>4. <<p, i>> \in Accepted /\ AcceptedId(<<p, i>>) = r
      BY <3>1, <3>2, <3>3, JournalIdFacts DEF Accepted, AcceptedId, Started, SessionOf
    <3> QED
      BY <3>4
  <2>2. CASE \E p \in Plans : \E k \in SlotIndices(p) :
               LET j == journals[<<p, k>>]
               IN  j # NoJournal /\ j.status \in Uncertain /\ r \notin DOMAIN Current(j).snapshot
    <3>1. PICK p \in Plans : \E k \in SlotIndices(p) :
               LET j == journals[<<p, k>>]
               IN  j # NoJournal /\ j.status \in Uncertain /\ r \notin DOMAIN Current(j).snapshot
      BY <2>2
    <3>2. PICK k \in SlotIndices(p) :
               LET j == journals[<<p, k>>]
               IN  j # NoJournal /\ j.status \in Uncertain /\ r \notin DOMAIN Current(j).snapshot
      BY <3>1
    <3> QED
      BY <3>2, JournalIdFacts DEF Exists, Uncertain, Resolved, NewRecords
  <2> QED
    BY <2>1, <2>2 DEF RInv, Kept
<1> QED
  BY <1>1, RecoveryInductive, PTL

\* A journal that says its slot is resolved agrees with the session it belongs to, and the
\* record is one its last attempt can have published.
THEOREM ResolvedJournalsAgree == RestartSpec => []ResolvedAgrees
<1>1. RInv => ResolvedAgrees
  <2> SUFFICES ASSUME RInv, NEW id \in JournalIds, Exists(id), journals[id].status \in Resolved
               PROVE  id \in Accepted /\ AcceptedId(id) \in Compatible(journals[id])
    BY DEF ResolvedAgrees
  <2> DEFINE j == journals[id]
             s == sessions[id[1]]
  <2>1. /\ id[1] \in Plans /\ id[2] \in SlotIndices(id[1])
        /\ s # NoSession /\ s \in SessionsOf(id[1])
        /\ SoundJournal(j, s, id[2], store) /\ SoundSession(s, store)
    BY JournalFacts DEF Exists
  <2>2. id[2] < s.next /\ s.slots[id[2]].id \in Compatible(j)
    BY <2>1 DEF SoundJournal, Compatible, NewRecords
  <2>3. id[2] \in CompletedSlots(s)
    BY <2>1, <2>2, PrefixSlots DEF SoundSession
  <2> QED
    BY <2>1, <2>2, <2>3 DEF Accepted, AcceptedId, Started, SessionOf
<1> QED
  BY <1>1, RecoveryInductive, PTL
=============================================================================
