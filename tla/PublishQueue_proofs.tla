-------------------------- MODULE PublishQueue_proofs --------------------------
(***************************************************************************)
(* Proofs about PublishQueue: the inductive invariant IInv and what it     *)
(* gives, and the invariant behind the deletions.                           *)
(***************************************************************************)
EXTENDS CrosspostStatus, TLAPS

--------------------------------------------------------------------------------
(* Types *)

(* Every step of the queue keeps every variable in its type. *)
LEMMA TypeStep ==
  ASSUME IInv, Next
  PROVE  TypeOK'
<1> USE QueueAssumption
    DEF TypeOK, Jobs, Records, rowVars, reserveVars, mappingVars, pdsVars, workerVars, ingestVars
<1>t. TypeOK
  BY DEF IInv
<1>1. ASSUME NEW v \in Videos, NEW l \in Lanes, Enqueue(v, l) PROVE TypeOK'
  BY <1>t, <1>1 DEF Enqueue, InsertPending, States
<1>2. ASSUME NEW d \in Deletes, NEW l \in Lanes, CancelRead(d, l) PROVE TypeOK'
  BY <1>t, <1>2 DEF CancelRead
<1>3. CASE CancelWrite
  BY <1>t, <1>3 DEF CancelWrite, Settle, IngestIdle, States, IInv, IngestInv
<1>4. CASE CancelLookup
  <2>1. "live" \in Lanes
    BY <1>t, <1>4 DEF CancelLookup, IInv, IngestInv
  <2> QED
    BY <1>t, <1>4, <2>1 DEF CancelLookup, InsertPending, IngestIdle, States
<1>5. CASE IngestAborts
  BY <1>t, <1>5 DEF IngestAborts, IngestIdle
<1>6. CASE SwitchOptIn
  BY <1>t, <1>6 DEF SwitchOptIn
<1>7. ASSUME NEW j \in Jobs, LeaseLapses(j) PROVE TypeOK'
  BY <1>t, <1>7 DEF LeaseLapses
<1>8. ASSUME NEW w \in Workers, Heartbeat(w) PROVE TypeOK'
  BY <1>t, <1>8 DEF Heartbeat
<1>9. ASSUME NEW w \in Workers, RunAborts(w) PROVE TypeOK'
  BY <1>t, <1>9 DEF RunAborts, Reset, Stages
<1>10. ASSUME NEW w \in Workers, NEW j \in Jobs, Claim(w, j) PROVE TypeOK'
  BY <1>t, <1>10 DEF Claim, Goto, Stages, States, NextAttempt
<1>11. ASSUME NEW w \in Workers, NEW r \in Rkeys, ReserveRkey(w, r) PROVE TypeOK'
  <2>1. job[w] \in Jobs
    BY <1>11 DEF ReserveRkey, IInv, RunInv, RunOK, RunOnJob
  <2>2. CASE Collides(job[w], r)
    BY <1>t, <1>11, <2>2 DEF ReserveRkey, Reset, Stages
  <2>3. CASE ~Collides(job[w], r)
    BY <1>t, <1>11, <2>1, <2>3, SMTT(30) DEF ReserveRkey, Goto, Stages, Coalesce
  <2> QED
    BY <2>2, <2>3
<1>12. ASSUME NEW w \in Workers, CheckVideo(w) PROVE TypeOK'
  BY <1>t, <1>12 DEF CheckVideo, Conclude, Advance, Goto, Stages, Verdicts
<1>13. ASSUME NEW w \in Workers, NEW b \in Blobs, PrepareRecord(w, b) PROVE TypeOK'
  <2>1. job[w] \in Videos
    BY <1>13 DEF PrepareRecord, IInv, RunInv, RunOK, RunOnJob, VideoStages
  <2> QED
    BY <1>t, <1>13, <2>1 DEF PrepareRecord, Goto, Stages, Coalesce
<1>14. ASSUME NEW w \in Workers, SendCreate(w) PROVE TypeOK'
  <2>1. rkey[w] \in Rkeys /\ record[w] \in Records
    BY <1>t, <1>14
       DEF SendCreate, IInv, RunInv, RunOK, RunAtReservedKey, RunWithPreparedRecord, VideoStages
  <2> QED
    BY <1>t, <1>14, <2>1 DEF SendCreate, Advance, Goto, Stages
<1>15. ASSUME NEW w \in Workers, CreateFails(w) PROVE TypeOK'
  BY <1>t, <1>15 DEF CreateFails, Advance, Goto, Stages
<1>16. ASSUME NEW w \in Workers, Recover(w) PROVE TypeOK'
  BY <1>t, <1>16 DEF Recover, Advance, Conclude, Goto, Stages, Verdicts
<1>17. ASSUME NEW w \in Workers, SaveMapping(w) PROVE TypeOK'
  BY <1>t, <1>17 DEF SaveMapping, Advance, Goto, Stages
<1>18. ASSUME NEW w \in Workers, SetPublished(w) PROVE TypeOK'
  BY <1>t, <1>18 DEF SetPublished, Conclude, Goto, Stages, Verdicts
<1>19. ASSUME NEW w \in Workers, CheckDelete(w) PROVE TypeOK'
  <2>1. Target[job[w]] \in Videos
    BY <1>19 DEF CheckDelete
  <2> QED
    BY <1>t, <1>19, <2>1, ZenonT(30) DEF CheckDelete, Conclude, Goto, Stages, Verdicts
<1>20. ASSUME NEW w \in Workers, SendRemove(w) PROVE TypeOK'
  <2>1. rkey[w] \in Rkeys
    BY <1>t, <1>20 DEF SendRemove, IInv, RunInv, RunOK, RunAtReservedKey, DeleteStages
  <2> QED
    BY <1>t, <1>20, <2>1 DEF SendRemove, Advance, Goto, Stages
<1>21. ASSUME NEW w \in Workers, MarkDeleted(w) PROVE TypeOK'
  BY <1>t, <1>21 DEF MarkDeleted, Conclude, Goto, Stages, Verdicts
<1>22. ASSUME NEW w \in Workers, StepFails(w) PROVE TypeOK'
  BY <1>t, <1>22 DEF StepFails, Conclude, Goto, Stages, Verdicts
<1>23. ASSUME NEW w \in Workers, Finalize(w) PROVE TypeOK'
  <2> DEFINE j == job[w]
             RowTypes == /\ state' \in [Jobs -> States]
                         /\ attempt' \in [Jobs -> 0..MaxAttempts]
                         /\ leaseOwner' \in [Jobs -> Workers \cup {Nil}]
                         /\ leaseLive' \in [Jobs -> BOOLEAN]
                         /\ completed' \in [Jobs -> BOOLEAN]
  <2>1. ASSUME NEW final \in States, Settle(j, final), attempt' \in [Jobs -> 0..MaxAttempts]
        PROVE  RowTypes
    BY <1>t, <2>1 DEF Settle
  <2>2. ASSUME NEW quota \in BOOLEAN, RecordFailure(j, quota)
        PROVE  RowTypes
    <3>1. \A n \in 0..MaxAttempts : NextAttempt(n) \in 0..MaxAttempts
      BY DEF NextAttempt
    <3>2. attempt' \in [Jobs -> 0..MaxAttempts]
      BY <1>t, <1>23, <2>2, <3>1 DEF RecordFailure, Finalize, IInv, RunInv, RunOK, RunOnJob
    <3>3. CASE Settle(j, "failed")
      BY <2>1, <3>2, <3>3 DEF States
    <3>4. CASE ~Settle(j, "failed")
      BY <1>t, <2>2, <3>2, <3>4 DEF RecordFailure, States
    <3> QED
      BY <3>3, <3>4
  <2>3. RowTypes
    BY <1>t, <1>23, <2>1, <2>2 DEF Finalize, States
  <2> QED
    BY <1>t, <1>23, <2>3 DEF Finalize, Reset, Stages
<1>24. ASSUME NEW q \in creates, PdsCreate(q) PROVE TypeOK'
  BY <1>t, <1>24, ZenonT(30) DEF PdsCreate, Advance, Goto, Stages
<1>25. ASSUME NEW q \in removes, PdsRemove(q) PROVE TypeOK'
  BY <1>t, <1>25 DEF PdsRemove, Advance, Goto, Stages
<1>26. CASE LoseRequest
  BY <1>t, <1>26 DEF LoseRequest
<1>27. ASSUME NEW j \in Jobs, Revive(j) \/ UndoRevive(j) PROVE TypeOK'
  BY <1>t, <1>27 DEF Revive, UndoRevive
<1> QED
  BY <1>1, <1>2, <1>3, <1>4, <1>5, <1>6, <1>7, <1>8, <1>9, <1>10, <1>11, <1>12, <1>13,
     <1>14, <1>15, <1>16, <1>17, <1>18, <1>19, <1>20, <1>21, <1>22, <1>23, <1>24, <1>25,
     <1>26, <1>27
     DEF Next, Ingest, WorkerStep, Environment
--------------------------------------------------------------------------------
(* Who writes what, and what is never taken back *)

(* Each shared variable outside the job row has few writers. *)
LEMMA Writers ==
  ASSUME Next
  PROVE  /\ UNCHANGED reservedRkey \/ \E w \in Workers, r \in Rkeys : ReserveRkey(w, r)
         /\ UNCHANGED preparedRecord \/ \E w \in Workers, b \in Blobs : PrepareRecord(w, b)
         /\ UNCHANGED mapping \/ \E w \in Workers : SaveMapping(w)
         /\ \/ UNCHANGED repo
            \/ \E q \in creates : PdsCreate(q)
            \/ \E q \in removes : PdsRemove(q)
         /\ creates' \subseteq creates \/ \E w \in Workers : SendCreate(w)
         /\ removes' \subseteq removes \/ \E w \in Workers : SendRemove(w)
<1> USE DEF rowVars, reserveVars, mappingVars, pdsVars, workerVars, ingestVars
<1>1. ASSUME Ingest
      PROVE  UNCHANGED <<reserveVars, mappingVars, pdsVars>>
  BY <1>1 DEF Ingest, Enqueue, CancelRead, CancelWrite, CancelLookup, IngestAborts
<1>2. ASSUME NEW w \in Workers, WorkerStep(w)
      PROVE  /\ UNCHANGED reservedRkey \/ \E r \in Rkeys : ReserveRkey(w, r)
             /\ UNCHANGED preparedRecord \/ \E b \in Blobs : PrepareRecord(w, b)
             /\ UNCHANGED mapping \/ SaveMapping(w)
             /\ UNCHANGED repo
             /\ UNCHANGED creates \/ SendCreate(w)
             /\ UNCHANGED removes \/ SendRemove(w)
  BY <1>2
     DEF WorkerStep, Claim, ReserveRkey, CheckVideo, PrepareRecord, SendCreate, CreateFails, Recover,
         SaveMapping, SetPublished, CheckDelete, SendRemove, MarkDeleted, StepFails, Finalize
<1>3. ASSUME Environment
      PROVE  /\ UNCHANGED <<reserveVars, mappingVars>>
             /\ \/ UNCHANGED repo
                \/ \E q \in creates : PdsCreate(q)
                \/ \E q \in removes : PdsRemove(q)
             /\ creates' \subseteq creates
             /\ removes' \subseteq removes
  BY <1>3
     DEF Environment, SwitchOptIn, LeaseLapses, Revive, UndoRevive, Heartbeat, RunAborts,
         PdsCreate, PdsRemove, LoseRequest
<1> QED
  BY <1>1, <1>2, <1>3 DEF Next

KeysKept == \A j \in Jobs : reservedRkey[j] # Nil => reservedRkey'[j] = reservedRkey[j]
RecordsKept == \A v \in Videos : preparedRecord[v] # Nil => preparedRecord'[v] = preparedRecord[v]
RowsKept == \A j \in Jobs : state[j] # "absent" => state'[j] # "absent"
MappingsKept == \A v \in Videos : mapping[v] # Nil => mapping'[v] # Nil
RecordsStay == \A v \in Videos : VisibleOrDeleting(v) => VisibleOrDeleting(v)'

(* A reserved key is reserved for ever (COALESCE in reserve_publish_job_rkey). *)
LEMMA KeysKeptStep ==
  ASSUME IInv, Next
  PROVE  KeysKept
<1>1. ASSUME NEW w \in Workers, NEW r \in Rkeys, ReserveRkey(w, r)
      PROVE  KeysKept
  BY <1>1 DEF ReserveRkey, Coalesce, KeysKept, IInv, TypeOK
<1> QED
  BY <1>1, Writers DEF KeysKept

(* So is a prepared record (COALESCE in reserve_publish_job_prepared_record). *)
LEMMA RecordsKeptStep ==
  ASSUME IInv, Next
  PROVE  RecordsKept
<1>1. ASSUME NEW w \in Workers, NEW b \in Blobs, PrepareRecord(w, b)
      PROVE  RecordsKept
  BY <1>1 DEF PrepareRecord, Coalesce, RecordsKept, IInv, TypeOK
<1> QED
  BY <1>1, Writers DEF RecordsKept

(* No row is ever removed. *)
LEMMA RowsKeptStep ==
  ASSUME IInv, Next
  PROVE  RowsKept
<1> USE DEF rowVars, RowsKept, IInv, TypeOK
<1>1. CASE Ingest
  BY <1>1 DEF Ingest, Enqueue, CancelRead, CancelWrite, CancelLookup, IngestAborts,
              InsertPending, Settle
<1>2. ASSUME NEW w \in Workers, WorkerStep(w)
      PROVE  RowsKept
  <2>1. ASSUME NEW j \in Jobs, Claim(w, j)
        PROVE  RowsKept
    BY <2>1 DEF Claim
  <2>2. CASE Finalize(w)
    BY <2>2 DEF Finalize, Settle, RecordFailure
  <2> QED
    BY <1>2, <2>1, <2>2
       DEF WorkerStep, ReserveRkey, CheckVideo, PrepareRecord, SendCreate, CreateFails, Recover,
           SaveMapping, SetPublished, CheckDelete, SendRemove, MarkDeleted, StepFails
<1>3. CASE Environment
  BY <1>3 DEF Environment, SwitchOptIn, LeaseLapses, Revive, UndoRevive, Heartbeat, RunAborts,
              PdsCreate, PdsRemove, LoseRequest
<1> QED
  BY <1>1, <1>2, <1>3 DEF Next

(* A mapping may change its status, it never disappears. *)
LEMMA MappingsKeptStep ==
  ASSUME IInv, Next
  PROVE  MappingsKept
<1>1. ASSUME NEW w \in Workers, SaveMapping(w)
      PROVE  MappingsKept
  BY <1>1 DEF SaveMapping, MappingsKept, IInv, TypeOK, RunInv, RunOK, RunAtReservedKey, VideoStages
<1> QED
  BY <1>1, Writers DEF MappingsKept

(* A visible record disappears only after a deletion of its event is queued: *)
(* a delete request reaches the key of its own target and no other.          *)
LEMMA RecordsStayStep ==
  ASSUME IInv, Next
  PROVE  RecordsStay
<1> SUFFICES ASSUME NEW v \in Videos, VisibleOrDeleting(v)
             PROVE  VisibleOrDeleting(v)'
  BY DEF RecordsStay
<1> v \in Jobs
  BY DEF Jobs
<1>1. CASE DeleteQueued(v)
  BY <1>1, RowsKeptStep DEF RowsKept, DeleteQueued, VisibleOrDeleting, Jobs
<1>2. CASE Visible(v)
  <2>1. /\ reservedRkey'[v] = reservedRkey[v] /\ reservedRkey[v] # Nil
        /\ preparedRecord'[v] = preparedRecord[v] /\ preparedRecord[v] # Nil
        /\ reservedRkey[v] \in Rkeys
    BY <1>2, KeysKeptStep, RecordsKeptStep DEF KeysKept, RecordsKept, Visible, IInv, TypeOK
  <2>2. CASE UNCHANGED repo
    BY <1>2, <2>1, <2>2 DEF Visible, VisibleOrDeleting
  <2>3. ASSUME NEW q \in creates, PdsCreate(q)
        PROVE  VisibleOrDeleting(v)'
    BY <1>2, <2>1, <2>3 DEF PdsCreate, Visible, VisibleOrDeleting, IInv, TypeOK
  <2>4. ASSUME NEW q \in removes, PdsRemove(q)
        PROVE  VisibleOrDeleting(v)'
    <3>1. CASE q.rkey = reservedRkey[v]
      <4>1. PICK u \in Videos : reservedRkey[u] = q.rkey /\ DeleteQueued(u)
        BY DEF IInv, DataInv, RemovesBelong
      <4>2. u = v
        BY <2>1, <3>1, <4>1 DEF IInv, KeysNeverShared, Jobs
      <4> QED
        BY <1>1, <4>1, <4>2
    <3>2. CASE q.rkey # reservedRkey[v]
      BY <1>2, <2>1, <2>4, <3>2 DEF PdsRemove, Visible, VisibleOrDeleting, IInv, TypeOK
    <3> QED
      BY <3>1, <3>2
  <2> QED
    BY <2>2, <2>3, <2>4, Writers
<1> QED
  BY <1>1, <1>2 DEF VisibleOrDeleting

--------------------------------------------------------------------------------
(* The data keeps belonging to its video *)

(* A step that reserves a key first checks that no other row owns it. *)
LEMMA KeysNeverSharedStep ==
  ASSUME IInv, Next
  PROVE  KeysNeverShared'
<1>1. ASSUME NEW w \in Workers, NEW r \in Rkeys, ReserveRkey(w, r)
      PROVE  KeysNeverShared'
  <2>1. CASE Collides(job[w], r)
    BY <1>1, <2>1 DEF ReserveRkey, KeysNeverShared, IInv
  <2>2. CASE ~Collides(job[w], r)
    <3>1. \A other \in Jobs \ {job[w]} : reservedRkey[other] # r
      BY <2>2 DEF Collides
    <3> QED
      BY <1>1, <2>2, <3>1 DEF ReserveRkey, Coalesce, KeysNeverShared, IInv, TypeOK
  <2> QED
    BY <2>1, <2>2
<1> QED
  BY <1>1, Writers DEF KeysNeverShared, IInv

(* A stored record names its own video, whose key is reserved by then. *)
LEMMA PreparedForOwnKeyStep ==
  ASSUME IInv, Next
  PROVE  PreparedForOwnKey'
<1> USE DEF PreparedForOwnKey, IInv, DataInv, Jobs
<1>1. ASSUME NEW w \in Workers, NEW b \in Blobs, PrepareRecord(w, b)
      PROVE  PreparedForOwnKey'
  <2>1. reservedRkey[job[w]] # Nil /\ UNCHANGED reservedRkey /\ job[w] \in Videos
    BY <1>1 DEF PrepareRecord, RunInv, RunOK, RunAtReservedKey, RunOnJob, VideoStages
  <2> QED
    BY <1>1, <2>1 DEF PrepareRecord, Coalesce, TypeOK
<1>2. CASE UNCHANGED preparedRecord
  BY <1>2, KeysKeptStep DEF KeysKept
<1> QED
  BY <1>1, <1>2, Writers

(* What belongs to a video keeps belonging to it. *)
LEMMA BelongsToStays ==
  ASSUME IInv, Next, NEW r \in Rkeys, NEW rec \in Records, BelongsTo(r, rec)
  PROVE  BelongsTo(r, rec)'
<1>1. rec.event \in Videos
  BY DEF Records
<1>2. preparedRecord'[rec.event] = preparedRecord[rec.event]
  BY <1>1, RecordsKeptStep DEF RecordsKept, BelongsTo
<1>3. reservedRkey'[rec.event] = reservedRkey[rec.event]
  BY <1>1, KeysKeptStep, QueueAssumption DEF KeysKept, BelongsTo, Jobs
<1> QED
  BY <1>2, <1>3 DEF BelongsTo

(* A create request carries the stored record to the reserved key. *)
LEMMA CreatesBelongStep ==
  ASSUME IInv, Next
  PROVE  CreatesBelong'
<1> USE DEF CreatesBelong
<1>1. \A q \in creates : q.rkey \in Rkeys /\ q.record \in Records /\ BelongsTo(q.rkey, q.record)
  BY DEF IInv, DataInv, TypeOK
<1>2. \A q \in creates : BelongsTo(q.rkey, q.record)'
  BY <1>1, BelongsToStays
<1>3. ASSUME NEW w \in Workers, SendCreate(w)
      PROVE  CreatesBelong'
  <2>1. BelongsTo(rkey[w], record[w]) /\ rkey[w] \in Rkeys /\ record[w] \in Records
    BY <1>3
       DEF SendCreate, BelongsTo, IInv, TypeOK, RunInv, RunOK, RunOnJob, RunAtReservedKey,
           RunWithPreparedRecord, VideoStages, DataInv, PreparedForOwnKey
  <2>3. \A q \in creates' :
          q \in creates \/ q = [from |-> w, rkey |-> rkey[w], record |-> record[w]]
    BY <1>3 DEF SendCreate
  <2> QED
    BY <1>2, <1>3, <2>1, <2>3 DEF BelongsTo, SendCreate, reserveVars
<1> QED
  BY <1>2, <1>3, Writers

(* The repository only gets what a create request carried. *)
LEMMA RepoBelongsStep ==
  ASSUME IInv, Next
  PROVE  RepoBelongs'
<1> USE DEF RepoBelongs
<1>1. ASSUME NEW r \in Rkeys, repo[r] # Nil
      PROVE  BelongsTo(r, repo[r]) /\ repo[r] \in Records
  BY <1>1 DEF IInv, DataInv, TypeOK
<1>2. CASE UNCHANGED repo
  BY <1>1, <1>2, BelongsToStays DEF BelongsTo
<1>3. ASSUME NEW q \in creates, PdsCreate(q)
      PROVE  RepoBelongs'
  BY <1>1, <1>3 DEF PdsCreate, BelongsTo, reserveVars, IInv, TypeOK, DataInv, CreatesBelong
<1>4. ASSUME NEW q \in removes, PdsRemove(q)
      PROVE  RepoBelongs'
  BY <1>1, <1>4 DEF PdsRemove, BelongsTo, reserveVars, IInv, TypeOK
<1> QED
  BY <1>2, <1>3, <1>4, Writers

(* A queued deletion stays queued: its row is never removed. *)
LEMMA DeleteQueuedStays ==
  ASSUME IInv, Next, NEW v \in Videos, DeleteQueued(v)
  PROVE  DeleteQueued(v)'
BY RowsKeptStep DEF RowsKept, DeleteQueued, Jobs

(* A delete request is for the key of a video whose deletion is queued. *)
LEMMA RemovesBelongStep ==
  ASSUME IInv, Next
  PROVE  RemovesBelong'
<1> USE DEF RemovesBelong
<1>1. ASSUME NEW v \in Videos, NEW r \in Rkeys, reservedRkey[v] = r, DeleteQueued(v)
      PROVE  reservedRkey'[v] = r /\ DeleteQueued(v)'
  BY <1>1, DeleteQueuedStays, KeysKeptStep, QueueAssumption DEF KeysKept, Jobs
<1>2. \A q \in removes : q.rkey \in Rkeys /\ \E v \in Videos : reservedRkey[v] = q.rkey /\ DeleteQueued(v)
  BY DEF IInv, DataInv, TypeOK
<1>3. \A q \in removes : \E v \in Videos : reservedRkey'[v] = q.rkey /\ DeleteQueued(v)'
  BY <1>1, <1>2
<1>4. ASSUME NEW w \in Workers, SendRemove(w)
      PROVE  RemovesBelong'
  <2>1. job[w] \in Deletes /\ state[job[w]] # "absent"
        /\ rkey[w] = reservedRkey[Target[job[w]]] /\ rkey[w] \in Rkeys
    BY <1>4 DEF SendRemove, IInv, TypeOK, RunInv, RunOK, RunOnJob, RunAtReservedKey, DeleteStages
  <2>2. PICK v \in Videos : v = Target[job[w]]
    BY <2>1, QueueAssumption
  <2>3. reservedRkey'[v] = rkey[w] /\ DeleteQueued(v)'
    BY <1>1, <2>1, <2>2 DEF DeleteQueued
  <2>4. \A q \in removes' : q \in removes \/ q = [from |-> w, rkey |-> rkey[w]]
    BY <1>4 DEF SendRemove
  <2> QED
    BY <1>3, <2>2, <2>3, <2>4
<1> QED
  BY <1>3, <1>4, Writers

(* A mapping is saved at the reserved key of a record the PDS holds. *)
LEMMA MappedAtOwnKeyStep ==
  ASSUME IInv, Next
  PROVE  MappedAtOwnKey'
<1> USE DEF MappedAtOwnKey
<1>1. ASSUME NEW v \in Videos, mapping[v] # Nil
      PROVE  mapping[v] = reservedRkey'[v] /\ VisibleOrDeleting(v)'
  <2>1. mapping[v] = reservedRkey[v] /\ VisibleOrDeleting(v)
    BY <1>1 DEF IInv, DataInv
  <2> QED
    BY <1>1, <2>1, KeysKeptStep, RecordsStayStep DEF KeysKept, RecordsStay, Jobs
<1>2. ASSUME NEW w \in Workers, SaveMapping(w)
      PROVE  MappedAtOwnKey'
  <2>1. /\ job[w] \in Videos /\ rkey[w] = reservedRkey[job[w]] /\ rkey[w] # Nil
        /\ VisibleOrDeleting(job[w])
    BY <1>2 DEF SaveMapping, IInv, RunInv, RunOK, RunOnJob, RunAtReservedKey, RunKnowsRecord,
                VideoStages
  <2>2. PICK v \in Videos : v = job[w]
    BY <2>1
  <2>3. rkey[w] = reservedRkey'[v] /\ VisibleOrDeleting(v)'
    BY <2>1, <2>2, KeysKeptStep, RecordsStayStep DEF KeysKept, RecordsStay, Jobs
  <2>4. \A u \in Videos : mapping'[u] = IF u = v THEN rkey[w] ELSE mapping[u]
    BY <1>2, <2>2 DEF SaveMapping, IInv, TypeOK
  <2> QED
    BY <1>1, <2>3, <2>4
<1> QED
  BY <1>1, <1>2, Writers

(* A verdict "completed" is given only to a mapped video, so a row becomes *)
(* "published" only then.                                                   *)
LEMMA PublishedIsMappedStep ==
  ASSUME IInv, Next
  PROVE  PublishedIsMapped'
<1> DEFINE NoneAdded == \A v \in Videos : state'[v] = "published" => state[v] = "published"
<1> USE DEF rowVars, Jobs
<1>1. ASSUME NoneAdded
      PROVE  PublishedIsMapped'
  BY <1>1, MappingsKeptStep DEF MappingsKept, PublishedIsMapped, IInv, DataInv
<1>2. CASE Ingest
  <2>1. NoneAdded
    BY <1>2 DEF Ingest, Enqueue, CancelRead, CancelWrite, CancelLookup, IngestAborts,
                InsertPending, Settle, IInv, TypeOK
  <2> QED
    BY <1>1, <2>1
<1>3. ASSUME NEW w \in Workers, Finalize(w)
      PROVE  PublishedIsMapped'
  <2>1. CASE OwnsLease(w, job[w]) /\ verdict[w] = "completed" /\ Settle(job[w], "published")
    <3>1. job[w] \in Videos /\ mapping[job[w]] # Nil /\ UNCHANGED mapping
      BY <1>3, <2>1 DEF Finalize, mappingVars, IInv, RunInv, RunOK, RunKnowsRecord
    <3> QED
      BY <2>1, <3>1 DEF Settle, PublishedIsMapped, IInv, DataInv, TypeOK
  <2>2. CASE ~(OwnsLease(w, job[w]) /\ verdict[w] = "completed" /\ Settle(job[w], "published"))
    <3>1. NoneAdded
      BY <1>3, <2>2 DEF Finalize, RecordFailure, Settle, IInv, TypeOK
    <3> QED
      BY <1>1, <3>1
  <2> QED
    BY <2>1, <2>2
<1>4. ASSUME NEW w \in Workers, NEW j \in Jobs, Claim(w, j)
      PROVE  PublishedIsMapped'
  <2>1. NoneAdded
    BY <1>4 DEF Claim, IInv, TypeOK
  <2> QED
    BY <1>1, <2>1
<1>5. ASSUME NEW w \in Workers, WorkerStep(w)
      PROVE  PublishedIsMapped'
  BY <1>1, <1>3, <1>4, <1>5
     DEF WorkerStep, ReserveRkey, CheckVideo, PrepareRecord, SendCreate, CreateFails, Recover,
         SaveMapping, SetPublished, CheckDelete, SendRemove, MarkDeleted, StepFails
<1>6. CASE Environment
  BY <1>1, <1>6 DEF Environment, SwitchOptIn, LeaseLapses, Revive, UndoRevive, Heartbeat,
                    RunAborts, PdsCreate, PdsRemove, LoseRequest
<1> QED
  BY <1>2, <1>5, <1>6 DEF Next

(* A deletion that is under way keeps its event and its lane. *)
LEMMA IngestInvStep ==
  ASSUME IInv, Next
  PROVE  IngestInv'
<1> USE DEF IngestInv, ingestVars, IngestIdle, IInv
<1>1. CASE Ingest
  BY <1>1 DEF Ingest, Enqueue, CancelRead, CancelWrite, CancelLookup, IngestAborts
<1>2. ASSUME NEW w \in Workers, WorkerStep(w)
      PROVE  UNCHANGED ingestVars
  BY <1>2
     DEF WorkerStep, Claim, ReserveRkey, CheckVideo, PrepareRecord, SendCreate, CreateFails, Recover,
         SaveMapping, SetPublished, CheckDelete, SendRemove, MarkDeleted, StepFails, Finalize
<1>3. CASE Environment
  BY <1>3 DEF Environment, SwitchOptIn, LeaseLapses, Revive, UndoRevive, Heartbeat, RunAborts,
              PdsCreate, PdsRemove, LoseRequest
<1> QED
  BY <1>1, <1>2, <1>3 DEF Next

(* Every step keeps rows, mappings, requests and repository in agreement. *)
LEMMA DataInvStep ==
  ASSUME IInv, Next
  PROVE  DataInv'
BY PreparedForOwnKeyStep, CreatesBelongStep, RepoBelongsStep, RemovesBelongStep,
   MappedAtOwnKeyStep, PublishedIsMappedStep DEF DataInv

--------------------------------------------------------------------------------
(* The runs *)

SameRun(w) ==
  /\ pc'[w] = pc[w] /\ job'[w] = job[w] /\ rkey'[w] = rkey[w]
  /\ record'[w] = record[w] /\ verdict'[w] = verdict[w]

(* What a run relies on is never taken from it by a step of another. *)
LEMMA RunUndisturbed ==
  ASSUME IInv, Next, NEW w \in Workers, SameRun(w)
  PROVE  RunOK(w)'
<1>1. RunOK(w)
  BY DEF IInv, RunInv
<1>2. RunOnJob(w)'
  BY <1>1, RowsKeptStep DEF RunOK, RunOnJob, SameRun, RowsKept
<1>3. RunAtReservedKey(w)'
  BY <1>1, KeysKeptStep, QueueAssumption
     DEF RunOK, RunOnJob, RunAtReservedKey, SameRun, KeysKept, Jobs, VideoStages, DeleteStages
<1>4. RunWithPreparedRecord(w)'
  BY <1>1, RecordsKeptStep
     DEF RunOK, RunOnJob, RunWithPreparedRecord, SameRun, RecordsKept, VideoStages
<1>5. RunKnowsRecord(w)'
  <2>1. CASE pc[w] \in {"mapping", "status"}
    <3>1. PICK v \in Videos : v = job[w]
      BY <1>1, <2>1 DEF RunOK, RunOnJob, VideoStages
    <3>2. VisibleOrDeleting(v)'
      BY <1>1, <2>1, <3>1, RecordsStayStep DEF RunOK, RunKnowsRecord, RecordsStay
    <3>3. VisibleOrDeleting(job[w])'
      BY <3>1, <3>2 DEF SameRun, VisibleOrDeleting, Visible, DeleteQueued
    <3> QED
      BY <1>1, <2>1, <3>1, <3>3, MappingsKeptStep
         DEF RunOK, RunKnowsRecord, SameRun, MappingsKept
  <2>2. CASE pc[w] \notin {"mapping", "status"}
    BY <1>1, <2>2, MappingsKeptStep DEF RunOK, RunKnowsRecord, SameRun, MappingsKept
  <2> QED
    BY <2>1, <2>2
<1> QED
  BY <1>2, <1>3, <1>4, <1>5 DEF RunOK

OnlyRun(w) == \A x \in Workers \ {w} : SameRun(x)

(* An idle run relies on nothing. *)
LEMMA IdleRunOK ==
  ASSUME NEW w \in Workers, pc'[w] = "idle", record'[w] = Nil
  PROVE  RunOK(w)'
BY DEF RunOK, RunOnJob, RunAtReservedKey, RunWithPreparedRecord, RunKnowsRecord, VideoStages,
       DeleteStages

(* Claiming and reserving: the run takes the row's key and record with it. *)
LEMMA ClaimRun ==
  ASSUME IInv, Next, NEW w \in Workers, NEW j \in Jobs, Claim(w, j)
  PROVE  OnlyRun(w) /\ RunOK(w)'
<1> USE DEF Claim, Goto, IInv, TypeOK, reserveVars
<1>1. OnlyRun(w)
  BY DEF OnlyRun, SameRun
<1>2. RunOnJob(w)'
  BY DEF RunOnJob, VideoStages, DeleteStages
<1>3. RunAtReservedKey(w)'
  BY DEF RunAtReservedKey, VideoStages, DeleteStages
<1>4. RunWithPreparedRecord(w)'
  BY DEF RunWithPreparedRecord, VideoStages
<1>5. RunKnowsRecord(w)'
  BY DEF RunKnowsRecord
<1> QED
  BY <1>1, <1>2, <1>3, <1>4, <1>5 DEF RunOK

(* Reserving a key: the run works at the key its row now owns. *)
LEMMA ReserveRkeyRun ==
  ASSUME IInv, Next, NEW w \in Workers, NEW r \in Rkeys, ReserveRkey(w, r)
  PROVE  OnlyRun(w) /\ RunOK(w)'
<1>1. OnlyRun(w)
  BY DEF OnlyRun, SameRun, Reset, Goto, ReserveRkey, IInv, TypeOK
<1>2. CASE Collides(job[w], r)
  BY <1>1, <1>2, IdleRunOK DEF Reset, ReserveRkey
<1>3. CASE ~Collides(job[w], r)
  <2>1. RunOnJob(w)'
    BY <1>3 DEF ReserveRkey, IInv, TypeOK, RunOnJob, VideoStages, DeleteStages, RunInv, RunOK,
                Goto, rowVars
  <2>2. RunAtReservedKey(w)'
    BY <1>3, QueueAssumption
       DEF ReserveRkey, IInv, TypeOK, RunAtReservedKey, VideoStages, DeleteStages, RunInv, RunOK,
           RunOnJob, Goto, Coalesce
  <2>3. RunWithPreparedRecord(w)'
    BY <1>3 DEF ReserveRkey, IInv, TypeOK, RunWithPreparedRecord, VideoStages, RunInv, RunOK, Goto
  <2>4. RunKnowsRecord(w)'
    BY <1>3 DEF ReserveRkey, IInv, TypeOK, RunKnowsRecord, Goto
  <2> QED
    BY <1>1, <2>1, <2>2, <2>3, <2>4 DEF RunOK
<1> QED
  BY <1>2, <1>3

(* A run that concludes as a failure or as ineligible, or as completed for a *)
(* mapped video.                                                              *)
LEMMA ConcludedRun ==
  ASSUME IInv, Next, NEW w \in Workers, NEW v \in Verdicts, pc[w] # "idle", Conclude(w, v),
         v = "completed" => job[w] \in Videos /\ mapping[job[w]] # Nil
  PROVE  OnlyRun(w) /\ RunOK(w)'
<1> USE DEF Conclude, Goto, IInv, TypeOK
<1>1. OnlyRun(w)
  BY DEF OnlyRun, SameRun
<1>2. RunOnJob(w)'
  BY RowsKeptStep DEF RunOnJob, VideoStages, DeleteStages, RunInv, RunOK, RowsKept
<1>3. RunAtReservedKey(w)' /\ RunWithPreparedRecord(w)'
  BY DEF RunAtReservedKey, RunWithPreparedRecord, VideoStages, DeleteStages
<1>4. RunKnowsRecord(w)'
  BY MappingsKeptStep DEF RunKnowsRecord, MappingsKept
<1> QED
  BY <1>1, <1>2, <1>3, <1>4 DEF RunOK

(* The pipeline's own steps *)

(* Checking a video: a mapped one is finished, else the run goes on. *)
LEMMA CheckVideoRun ==
  ASSUME IInv, Next, NEW w \in Workers, CheckVideo(w)
  PROVE  OnlyRun(w) /\ RunOK(w)'
<1>1. ASSUME NEW v \in {"ineligible", "completed"}, Conclude(w, v),
             v = "completed" => mapping[job[w]] # Nil
      PROVE  OnlyRun(w) /\ RunOK(w)'
  BY <1>1, ConcludedRun DEF CheckVideo, Verdicts
<1>2. ASSUME Advance(w, IF record[w] = Nil THEN "preparing" ELSE "sending")
      PROVE  OnlyRun(w) /\ RunOK(w)'
  <2> USE <1>2 DEF CheckVideo, Advance, Goto, IInv, TypeOK, reserveVars
  <2>1. OnlyRun(w)
    BY DEF OnlyRun, SameRun
  <2>2. RunOnJob(w)' /\ RunAtReservedKey(w)'
    BY DEF RunOnJob, RunAtReservedKey, VideoStages, DeleteStages, RunInv, RunOK, rowVars
  <2>3. RunWithPreparedRecord(w)' /\ RunKnowsRecord(w)'
    BY DEF RunWithPreparedRecord, RunKnowsRecord, VideoStages, RunInv, RunOK
  <2> QED
    BY <2>1, <2>2, <2>3 DEF RunOK
<1> QED
  BY <1>1, <1>2 DEF CheckVideo

(* Preparing: the run carries the record its row now stores. *)
LEMMA PrepareRecordRun ==
  ASSUME IInv, Next, NEW w \in Workers, NEW b \in Blobs, PrepareRecord(w, b)
  PROVE  OnlyRun(w) /\ RunOK(w)'
<1>1. OnlyRun(w)
  BY DEF OnlyRun, SameRun, PrepareRecord, Goto, IInv, TypeOK
<1>2. RunOnJob(w)' /\ RunAtReservedKey(w)'
  BY DEF RunOnJob, RunAtReservedKey, VideoStages, DeleteStages, RunInv, RunOK, rowVars,
         PrepareRecord, Goto, IInv, TypeOK
<1>3. RunWithPreparedRecord(w)'
  <2>1. job[w] \in Videos
    BY DEF PrepareRecord, IInv, RunInv, RunOK, RunOnJob, VideoStages
  <2>2. [event |-> job[w], blob |-> b] \in Records
    BY <2>1 DEF Records
  <2> QED
    BY <2>1, <2>2, QueueAssumption
       DEF RunWithPreparedRecord, VideoStages, PrepareRecord, Goto, Coalesce, IInv, TypeOK
<1>4. RunKnowsRecord(w)'
  BY DEF RunKnowsRecord, PrepareRecord, Goto, IInv, TypeOK
<1> QED
  BY <1>1, <1>2, <1>3, <1>4 DEF RunOK

(* Sending the create, giving up on it, finding the record after all. *)
LEMMA CreateRun ==
  ASSUME IInv, Next, NEW w \in Workers, SendCreate(w) \/ CreateFails(w) \/ Recover(w)
  PROVE  OnlyRun(w) /\ RunOK(w)'
<1>1. CASE Conclude(w, "failed") /\ pc[w] = "recovering"
  BY <1>1, ConcludedRun DEF Verdicts
<1>2. ASSUME NEW stage \in {"awaiting", "recovering", "mapping"}, Advance(w, stage),
             pc[w] \in VideoStages \ {"preparing"}, UNCHANGED <<rowVars, reserveVars, mappingVars>>,
             stage = "mapping" => UNCHANGED repo /\ repo[rkey[w]] = record[w]
      PROVE  OnlyRun(w) /\ RunOK(w)'
  <2> USE <1>2 DEF Advance, Goto, VideoStages, IInv, TypeOK, reserveVars, rowVars
  <2>1. OnlyRun(w)
    BY DEF OnlyRun, SameRun
  <2>2. RunOnJob(w)' /\ RunAtReservedKey(w)' /\ RunWithPreparedRecord(w)'
    BY DEF RunOnJob, RunAtReservedKey, RunWithPreparedRecord, DeleteStages, RunInv, RunOK
  <2>3. RunKnowsRecord(w)'
    BY DEF RunKnowsRecord, RunInv, RunOK, RunAtReservedKey, RunWithPreparedRecord,
           VisibleOrDeleting, Visible
  <2> QED
    BY <2>1, <2>2, <2>3 DEF RunOK
<1>3. CASE SendCreate(w)
  BY <1>2, <1>3 DEF SendCreate, VideoStages
<1>4. CASE CreateFails(w)
  BY <1>2, <1>4 DEF CreateFails, VideoStages
<1>5. CASE Recover(w)
  BY <1>1, <1>2, <1>5 DEF Recover, Recovered, VideoStages, pdsVars
<1> QED
  BY <1>3, <1>4, <1>5

(* Saving the mapping: the video is mapped when the run goes on. *)
LEMMA SaveMappingRun ==
  ASSUME IInv, Next, NEW w \in Workers, SaveMapping(w)
  PROVE  OnlyRun(w) /\ RunOK(w)'
<1> USE DEF SaveMapping, Advance, Goto, VideoStages, reserveVars, rowVars, pdsVars
<1>1. OnlyRun(w)
  BY DEF OnlyRun, SameRun, IInv, TypeOK
<1>2. RunOnJob(w)' /\ RunAtReservedKey(w)' /\ RunWithPreparedRecord(w)'
  BY DEF RunOnJob, RunAtReservedKey, RunWithPreparedRecord, DeleteStages, RunInv, RunOK, IInv, TypeOK
<1>3. RunKnowsRecord(w)'
  <2>1. job[w] \in Videos /\ rkey[w] # Nil /\ VisibleOrDeleting(job[w])
    BY DEF IInv, RunInv, RunOK, RunOnJob, RunAtReservedKey, RunKnowsRecord
  <2>2. VisibleOrDeleting(job[w])'
    BY <2>1 DEF VisibleOrDeleting, Visible, DeleteQueued
  <2>3. mapping'[job[w]] # Nil
    BY <2>1 DEF IInv, TypeOK
  <2> QED
    BY <2>2, <2>3 DEF RunKnowsRecord, IInv, TypeOK
<1> QED
  BY <1>1, <1>2, <1>3 DEF RunOK

(* Setting the mapping's status: only a mapped video is completed. *)
LEMMA SetPublishedRun ==
  ASSUME IInv, Next, NEW w \in Workers, SetPublished(w)
  PROVE  OnlyRun(w) /\ RunOK(w)'
<1>1. job[w] \in Videos /\ mapping[job[w]] # Nil
  BY DEF SetPublished, IInv, RunInv, RunOK, RunOnJob, RunKnowsRecord, VideoStages
<1> QED
  BY <1>1, ConcludedRun DEF SetPublished, Verdicts

(* A failing step leaves the run with a failure to record. *)
LEMMA StepFailsRun ==
  ASSUME IInv, Next, NEW w \in Workers, StepFails(w)
  PROVE  OnlyRun(w) /\ RunOK(w)'
BY ConcludedRun DEF StepFails, Verdicts

(* A deletion works at the key the target's mapping recorded. *)
LEMMA CheckDeleteRun ==
  ASSUME IInv, Next, NEW w \in Workers, CheckDelete(w)
  PROVE  OnlyRun(w) /\ RunOK(w)'
<1>1. CASE Conclude(w, "ineligible")
  BY <1>1, ConcludedRun DEF CheckDelete, Verdicts
<1>2. CASE ~Conclude(w, "ineligible")
  <2>1. /\ mapping[Target[job[w]]] # Nil
        /\ rkey' = [rkey EXCEPT ![w] = mapping[Target[job[w]]]]
        /\ Goto(w, "deleting") /\ UNCHANGED <<job, record, verdict>>
    BY <1>2 DEF CheckDelete
  <2>2. mapping[Target[job[w]]] = reservedRkey[Target[job[w]]]
    BY <2>1, QueueAssumption DEF CheckDelete, IInv, DataInv, MappedAtOwnKey
  <2>3. OnlyRun(w)
    BY <2>1 DEF OnlyRun, SameRun, Goto, IInv, TypeOK
  <2>4. RunOnJob(w)' /\ RunAtReservedKey(w)'
    BY <2>1, <2>2
       DEF CheckDelete, RunOnJob, RunAtReservedKey, VideoStages, DeleteStages, RunInv, RunOK,
           IInv, TypeOK, Goto, rowVars, reserveVars
  <2>5. RunWithPreparedRecord(w)' /\ RunKnowsRecord(w)'
    BY <2>1 DEF RunWithPreparedRecord, RunKnowsRecord, VideoStages, IInv, TypeOK, Goto
  <2> QED
    BY <2>3, <2>4, <2>5 DEF RunOK
<1> QED
  BY <1>1, <1>2

(* Sending the delete keeps the run at its target's key. *)
LEMMA SendRemoveRun ==
  ASSUME IInv, Next, NEW w \in Workers, SendRemove(w)
  PROVE  OnlyRun(w) /\ RunOK(w)'
<1> USE DEF SendRemove, Advance, Goto, DeleteStages, VideoStages, reserveVars, rowVars, IInv, TypeOK
<1>1. OnlyRun(w)
  BY DEF OnlyRun, SameRun
<1>2. RunOnJob(w)' /\ RunAtReservedKey(w)'
  BY DEF RunOnJob, RunAtReservedKey, RunInv, RunOK
<1>3. RunWithPreparedRecord(w)' /\ RunKnowsRecord(w)'
  BY DEF RunWithPreparedRecord, RunKnowsRecord
<1> QED
  BY <1>1, <1>2, <1>3 DEF RunOK

(* Marking the mapping deleted ends the run as ineligible. *)
LEMMA MarkDeletedRun ==
  ASSUME IInv, Next, NEW w \in Workers, MarkDeleted(w)
  PROVE  OnlyRun(w) /\ RunOK(w)'
BY ConcludedRun DEF MarkDeleted, Verdicts

(* The end of a run, recorded or not. *)
LEMMA EndedRun ==
  ASSUME IInv, Next, NEW w \in Workers, Reset({w})
  PROVE  OnlyRun(w) /\ RunOK(w)'
BY IdleRunOK DEF Reset, OnlyRun, SameRun

(* An answer of the PDS reaches the run that waits for it, and no other. *)
LEMMA AnsweredCreateRun ==
  ASSUME IInv, Next, NEW q \in creates, PdsCreate(q)
  PROVE  OnlyRun(q.from) /\ RunOK(q.from)'
<1> DEFINE w == q.from
<1>1. w \in Workers
  BY DEF IInv, TypeOK
<1>2. CASE UNCHANGED workerVars
  BY <1>1, <1>2, RunUndisturbed DEF OnlyRun, SameRun, workerVars
<1>3. ASSUME NEW stage \in {"mapping", "recovering"}, Advance(w, stage),
             pc[w] = "awaiting", rkey[w] = q.rkey, record[w] = q.record,
             stage = "mapping" => repo[q.rkey] = Nil
      PROVE  OnlyRun(w) /\ RunOK(w)'
  <2> USE <1>1, <1>3
      DEF PdsCreate, Advance, Goto, VideoStages, DeleteStages, reserveVars, rowVars, IInv, TypeOK
  <2>1. OnlyRun(w)
    BY DEF OnlyRun, SameRun
  <2>2. RunOnJob(w)' /\ RunAtReservedKey(w)' /\ RunWithPreparedRecord(w)'
    BY DEF RunOnJob, RunAtReservedKey, RunWithPreparedRecord, RunInv, RunOK
  <2>3. RunKnowsRecord(w)'
    BY DEF RunKnowsRecord, RunInv, RunOK, RunAtReservedKey, RunWithPreparedRecord,
           VisibleOrDeleting, Visible
  <2> QED
    BY <2>1, <2>2, <2>3 DEF RunOK
<1> QED
  BY <1>2, <1>3 DEF PdsCreate

(* The answer to a delete lets the run that waits for it go on. *)
LEMMA AnsweredRemoveRun ==
  ASSUME IInv, Next, NEW q \in removes, PdsRemove(q)
  PROVE  OnlyRun(q.from) /\ RunOK(q.from)'
<1> DEFINE w == q.from
<1>1. w \in Workers
  BY DEF IInv, TypeOK
<1>2. CASE UNCHANGED workerVars
  BY <1>1, <1>2, RunUndisturbed DEF OnlyRun, SameRun, workerVars
<1>3. CASE pc[w] = "removing" /\ Advance(w, "marking")
  <2> USE <1>1, <1>3
      DEF PdsRemove, Advance, Goto, VideoStages, DeleteStages, reserveVars, rowVars, IInv, TypeOK
  <2>1. OnlyRun(w)
    BY DEF OnlyRun, SameRun
  <2>2. RunOnJob(w)' /\ RunAtReservedKey(w)'
    BY DEF RunOnJob, RunAtReservedKey, RunInv, RunOK
  <2>3. RunWithPreparedRecord(w)' /\ RunKnowsRecord(w)'
    BY DEF RunWithPreparedRecord, RunKnowsRecord
  <2> QED
    BY <2>1, <2>2, <2>3 DEF RunOK
<1> QED
  BY <1>2, <1>3 DEF PdsRemove

(* Every step moves at most one run, and leaves it in order. *)
LEMMA RunInvStep ==
  ASSUME IInv, Next
  PROVE  RunInv'
<1>1. ASSUME NEW w \in Workers, OnlyRun(w) /\ RunOK(w)'
      PROVE  RunInv'
  BY <1>1, RunUndisturbed DEF RunInv, OnlyRun
<1>2. ASSUME UNCHANGED workerVars
      PROVE  RunInv'
  BY <1>2, RunUndisturbed DEF RunInv, SameRun, workerVars
<1>3. CASE Ingest
  BY <1>2, <1>3 DEF Ingest, Enqueue, CancelRead, CancelWrite, CancelLookup, IngestAborts
<1>4. ASSUME NEW w \in Workers, WorkerStep(w)
      PROVE  OnlyRun(w) /\ RunOK(w)'
  <2>1. CASE Finalize(w)
    BY <2>1, EndedRun DEF Finalize
  <2> QED
    BY <1>4, <2>1, ClaimRun, ReserveRkeyRun, CheckVideoRun, PrepareRecordRun, CreateRun,
       SaveMappingRun, SetPublishedRun, CheckDeleteRun, SendRemoveRun, MarkDeletedRun,
       StepFailsRun DEF WorkerStep
<1>5. CASE Environment
  <2>1. ASSUME NEW w \in Workers, RunAborts(w)
        PROVE  RunInv'
    BY <1>1, <2>1, EndedRun DEF RunAborts
  <2>2. ASSUME NEW q \in creates, PdsCreate(q)
        PROVE  RunInv'
    BY <1>1, <2>2, AnsweredCreateRun DEF IInv, TypeOK
  <2>3. ASSUME NEW q \in removes, PdsRemove(q)
        PROVE  RunInv'
    BY <1>1, <2>3, AnsweredRemoveRun DEF IInv, TypeOK
  <2>4. ASSUME SwitchOptIn \/ LoseRequest
           \/ (\E j \in Jobs : LeaseLapses(j) \/ Revive(j) \/ UndoRevive(j))
                 \/ (\E w \in Workers : Heartbeat(w))
        PROVE  RunInv'
    BY <1>2, <2>4 DEF SwitchOptIn, LoseRequest, LeaseLapses, Revive, UndoRevive, Heartbeat
  <2> QED
    BY <1>5, <2>1, <2>2, <2>3, <2>4 DEF Environment
<1> QED
  BY <1>1, <1>3, <1>4, <1>5 DEF Next

--------------------------------------------------------------------------------
(* The inductive invariant and its consequences *)

(* The empty table satisfies the invariant. *)
LEMMA InitIInv ==
  ASSUME Init
  PROVE  IInv
<1>1. TypeOK
  BY QueueAssumption DEF Init, TypeOK, States, Stages, Jobs
<1>2. KeysNeverShared /\ IngestInv /\ RunInv /\ DataInv
  BY DEF Init, KeysNeverShared, IngestInv, RunInv, RunOK, RunOnJob, RunAtReservedKey,
         RunWithPreparedRecord, RunKnowsRecord, VideoStages, DeleteStages, DataInv,
         PreparedForOwnKey, CreatesBelong, RepoBelongs, RemovesBelong, MappedAtOwnKey,
         PublishedIsMapped, Jobs
<1> QED
  BY <1>1, <1>2 DEF IInv

(* So does every state in which nothing changed. *)
LEMMA StutterIInv ==
  ASSUME IInv, UNCHANGED vars
  PROVE  IInv'
<1> USE DEF vars, rowVars, reserveVars, mappingVars, pdsVars, workerVars, ingestVars
<1>1. TypeOK'
  BY DEF IInv, TypeOK
<1>2. KeysNeverShared' /\ IngestInv'
  BY DEF IInv, KeysNeverShared, IngestInv
<1>3. RunInv'
  BY DEF IInv, RunInv, RunOK, RunOnJob, RunAtReservedKey, RunWithPreparedRecord, RunKnowsRecord,
         VisibleOrDeleting, Visible, DeleteQueued
<1>4. DataInv'
  BY DEF IInv, DataInv, PreparedForOwnKey, CreatesBelong, RepoBelongs, RemovesBelong,
         MappedAtOwnKey, PublishedIsMapped, BelongsTo, VisibleOrDeleting, Visible, DeleteQueued
<1> QED
  BY <1>1, <1>2, <1>3, <1>4 DEF IInv

(* IInv holds in every reachable state. *)
THEOREM Invariance == Spec => []IInv
<1>1. Init => IInv
  BY InitIInv
<1>2. IInv /\ [Next]_vars => IInv'
  <2>1. ASSUME IInv, Next
        PROVE  IInv'
    BY <2>1, TypeStep, KeysNeverSharedStep, IngestInvStep, RunInvStep, DataInvStep DEF IInv
  <2> QED
    BY <2>1, StutterIInv
<1> QED
  BY <1>1, <1>2, PTL DEF Spec

(* Every variable keeps its type. *)
THEOREM TypeCorrect == Spec => []TypeOK
BY Invariance, PTL DEF IInv

(* Two jobs of the account never own one record key. *)
THEOREM KeySafety == Spec => []KeysNeverShared
BY Invariance, PTL DEF IInv

(* At most one record of an event is in the repository, whatever the        *)
(* retries, crashes, expired leases and lost or late requests.              *)
THEOREM AtMostOneRecord == Spec => []OneRecordPerEvent
<1>1. IInv => OneRecordPerEvent
  BY DEF IInv, DataInv, RepoBelongs, BelongsTo, OneRecordPerEvent
<1> QED
  BY <1>1, Invariance, PTL

(* A run that looks its reserved key up never finds foreign content there. *)
THEOREM NoDivergence == Spec => []NeverDiverges
<1>1. IInv => NeverDiverges
  <2> SUFFICES ASSUME IInv, NEW w \in Workers, pc[w] = "recovering", repo[rkey[w]] # Nil
               PROVE  repo[rkey[w]] = record[w]
    BY DEF NeverDiverges
  <2>1. /\ job[w] \in Videos /\ rkey[w] \in Rkeys /\ rkey[w] = reservedRkey[job[w]]
        /\ record[w] = preparedRecord[job[w]]
    BY DEF IInv, TypeOK, RunInv, RunOK, RunOnJob, RunAtReservedKey, RunWithPreparedRecord,
           VideoStages
  <2> DEFINE v == repo[rkey[w]].event
  <2>2. v \in Videos /\ reservedRkey[v] = rkey[w] /\ preparedRecord[v] = repo[rkey[w]]
    BY <2>1 DEF IInv, TypeOK, Records, DataInv, RepoBelongs, BelongsTo
  <2>3. v = job[w]
    BY <2>1, <2>2, QueueAssumption DEF IInv, KeysNeverShared, Jobs
  <2> QED
    BY <2>1, <2>2, <2>3
<1> QED
  BY <1>1, Invariance, PTL

(* A published row's record is in the repository, at the mapped key, until  *)
(* a deletion of the event is queued.                                       *)
THEOREM PublishedVisibility == Spec => []PublishedIsVisible
<1>1. IInv => PublishedIsVisible
  BY DEF IInv, TypeOK, DataInv, MappedAtOwnKey, PublishedIsMapped, VisibleOrDeleting, Visible,
         DeleteQueued, PublishedIsVisible
<1> QED
  BY <1>1, Invariance, PTL

(* The gateway says "published" of a video only while its record is visible *)
(* at the mapped key or its deletion is queued.                              *)
THEOREM AnswersAreTrue == Spec => []ToldPublishedIsVisible
<1>1. IInv => ToldPublishedIsVisible
  <2> SUFFICES ASSUME IInv, NEW v \in Videos, NEW ready \in BOOLEAN, Status(v, ready) = "published"
      PROVE  VisibleOrDeleting(v)
    BY DEF ToldPublishedIsVisible
  <2>1. RowStatus(v) # "published"
    BY DEF RowStatus
  <2>2. RecordStatus(v) = "published"
    BY <2>1 DEF Status
  <2>3. mapping[v] # Nil
    BY <2>2 DEF RecordStatus
  <2> QED
    BY <2>3 DEF IInv, DataInv, MappedAtOwnKey
<1> QED
  BY <1>1, Invariance, PTL

(* A video that is given up stays so, unless a deletion marks it skipped or   *)
(* an operator revives it.                                                    *)
LEMMA GivenUpStays ==
  ASSUME IInv, Next, NEW v \in Videos, state[v] = "failed", completed[v], ~Revive(v)
  PROVE  state'[v] = "skipped" \/ (state'[v] = "failed" /\ completed'[v])
<1> USE DEF rowVars, IInv, TypeOK, Jobs
<1>1. CASE Ingest
  BY <1>1 DEF Ingest, Enqueue, CancelRead, CancelWrite, CancelLookup, IngestAborts,
              InsertPending, Settle
<1>2. ASSUME NEW w \in Workers, WorkerStep(w)
      PROVE  state'[v] = state[v] /\ completed'[v] = completed[v]
  <2>1. ASSUME NEW j \in Jobs, Claim(w, j)
        PROVE  state'[v] = state[v] /\ completed'[v] = completed[v]
    BY <2>1 DEF Claim, Claimable
  <2>2. CASE Finalize(w)
    BY <2>2 DEF Finalize, OwnsLease, Settle, RecordFailure
  <2> QED
    BY <1>2, <2>1, <2>2
       DEF WorkerStep, ReserveRkey, CheckVideo, PrepareRecord, SendCreate, CreateFails, Recover,
           SaveMapping, SetPublished, CheckDelete, SendRemove, MarkDeleted, StepFails
<1>3. CASE Environment
  <2>1. ASSUME NEW j \in Jobs, Revive(j)
        PROVE  state'[v] = state[v] /\ completed'[v] = completed[v]
    BY <2>1 DEF Revive
  <2> QED
    BY <1>3, <2>1 DEF Environment, SwitchOptIn, LeaseLapses, UndoRevive, Heartbeat, RunAborts,
                      PdsCreate, PdsRemove, LoseRequest
<1> QED
  BY <1>1, <1>2, <1>3 DEF Next

(* The answers are told apart by the mapping first and then by the row. *)
LEMMA StatusCases ==
  ASSUME NEW v \in Videos, NEW ready \in BOOLEAN
  PROVE  /\ Status(v, ready) = "published"
              <=> state[v] # "absent" /\ mapping[v] # Nil /\ ~deleted[v]
         /\ Status(v, ready) = "failed" => state[v] = "failed" /\ completed[v]
         /\ state[v] # "absent" /\ mapping[v] # Nil => Status(v, ready) \in {"published", "removed"}
         /\ state[v] = "skipped" \/ (state[v] = "failed" /\ completed[v]) =>
              Status(v, ready) \notin {"queued", "publishing", "retrying"}
BY DEF Status, RecordStatus, RowStatus

(* "published" becomes nothing but "removed", and a video told as failed for *)
(* good is at work again only by an operator's repair of it: the claim of a  *)
(* row and the answer about it agree on what is final (claim_next_live_job,  *)
(* derive_crosspost_status).                                                 *)
THEOREM AnswersStand == Spec => AnswersHold
<1> DEFINE Stand == \A v \in Videos, before, after \in BOOLEAN :
              /\ Status(v, before) = "published" => Status(v, after)' \in {"published", "removed"}
              /\ Status(v, before) = "failed" =>
                   \/ Status(v, after)' \notin {"queued", "publishing", "retrying"}
                   \/ Revive(v)
<1>1. IInv /\ [Next]_vars => [Stand]_vars
  <2> SUFFICES ASSUME IInv, Next, NEW v \in Videos, NEW before \in BOOLEAN, NEW after \in BOOLEAN
      PROVE  /\ Status(v, before) = "published" => Status(v, after)' \in {"published", "removed"}
             /\ Status(v, before) = "failed" =>
                  \/ Status(v, after)' \notin {"queued", "publishing", "retrying"}
                  \/ Revive(v)
    OBVIOUS
  <2>1. ASSUME Status(v, before) = "published"
        PROVE  Status(v, after)' \in {"published", "removed"}
    <3>1. state'[v] # "absent" /\ mapping'[v] # Nil
      BY <2>1, StatusCases, RowsKeptStep, MappingsKeptStep DEF RowsKept, MappingsKept, Jobs
    <3> QED
      BY <3>1 DEF Status, RecordStatus
  <2>2. ASSUME Status(v, before) = "failed", ~Revive(v)
        PROVE  Status(v, after)' \notin {"queued", "publishing", "retrying"}
    <3>1. state'[v] = "skipped" \/ (state'[v] = "failed" /\ completed'[v])
      BY <2>2, StatusCases, GivenUpStays
    <3> QED
      BY <3>1 DEF Status, RecordStatus, RowStatus
  <2> QED
    BY <2>1, <2>2
<1> QED
  BY <1>1, Invariance, PTL DEF Spec, AnswersHold

--------------------------------------------------------------------------------
(* Refinement *)

(* Reserving a key takes the slot, or finds it taken. *)
LEMMA ReserveTakesSlot ==
  ASSUME IInv, Next, NEW w \in Workers, NEW r \in Rkeys, ReserveRkey(w, r)
  PROVE  [Slots!SlotNext]_Slots!slotVars
<1>1. UNCHANGED <<preparedRecord, repo>>
  BY DEF ReserveRkey, pdsVars
<1>2. job[w] \in Jobs
  BY DEF ReserveRkey, IInv, RunInv, RunOK, RunOnJob
<1>3. CASE Collides(job[w], r) \/ reservedRkey[job[w]] # Nil
  <2>1. UNCHANGED reservedRkey
    BY <1>2, <1>3 DEF ReserveRkey, Coalesce, IInv, TypeOK
  <2> QED
    BY <1>1, <2>1 DEF Slots!slotVars
<1>4. CASE ~Collides(job[w], r) /\ reservedRkey[job[w]] = Nil
  <2>1. reservedRkey' = [reservedRkey EXCEPT ![job[w]] = r]
    BY <1>4 DEF ReserveRkey, Coalesce
  <2>2. \A other \in Jobs : reservedRkey[other] # r
    BY <1>4, QueueAssumption DEF Collides
  <2> QED
    BY <1>1, <1>2, <1>4, <2>1, <2>2 DEF Slots!SlotNext, Slots!TakeSlot
<1> QED
  BY <1>3, <1>4

(* Storing the prepared record fixes the intent, or finds it fixed. *)
LEMMA PrepareFixesIntent ==
  ASSUME IInv, Next, NEW w \in Workers, NEW b \in Blobs, PrepareRecord(w, b)
  PROVE  [Slots!SlotNext]_Slots!slotVars
<1>1. UNCHANGED <<reservedRkey, repo>>
  BY DEF PrepareRecord, pdsVars
<1>2. job[w] \in Videos /\ reservedRkey[job[w]] # Nil
  BY DEF PrepareRecord, IInv, RunInv, RunOK, RunOnJob, RunAtReservedKey, VideoStages
<1>3. CASE preparedRecord[job[w]] # Nil
  <2>1. UNCHANGED preparedRecord
    BY <1>2, <1>3 DEF PrepareRecord, Coalesce, IInv, TypeOK
  <2> QED
    BY <1>1, <2>1 DEF Slots!slotVars
<1>4. CASE preparedRecord[job[w]] = Nil
  <2>1. preparedRecord' = [preparedRecord EXCEPT ![job[w]] = [event |-> job[w], blob |-> b]]
    BY <1>4 DEF PrepareRecord, Coalesce
  <2> QED
    BY <1>1, <1>2, <1>4, <2>1 DEF Slots!SlotNext, Slots!FixIntent
<1> QED
  BY <1>3, <1>4

(* A create that arrives makes the video's record appear, or is refused. *)
LEMMA CreateAppears ==
  ASSUME IInv, Next, NEW q \in creates, PdsCreate(q)
  PROVE  [Slots!SlotNext]_Slots!slotVars
<1>1. UNCHANGED <<reservedRkey, preparedRecord>>
  BY DEF PdsCreate, reserveVars
<1>2. PICK v \in Videos : reservedRkey[v] = q.rkey /\ preparedRecord[v] = q.record
  BY DEF IInv, TypeOK, Records, DataInv, CreatesBelong, BelongsTo
<1>3. q.rkey \in Rkeys /\ q.record \in Records
  BY DEF IInv, TypeOK
<1>4. CASE repo[q.rkey] # Nil
  <2>1. UNCHANGED repo
    BY <1>3, <1>4 DEF PdsCreate, IInv, TypeOK
  <2> QED
    BY <1>1, <2>1 DEF Slots!slotVars
<1>5. CASE repo[q.rkey] = Nil
  <2>1. repo' = [repo EXCEPT ![reservedRkey[v]] = preparedRecord[v]]
    BY <1>2, <1>5 DEF PdsCreate
  <2>2. reservedRkey[v] # Nil /\ preparedRecord[v] # Nil
    BY <1>2, <1>3, QueueAssumption
  <2> QED
    BY <1>1, <1>2, <1>5, <2>1, <2>2 DEF Slots!SlotNext, Slots!Appear
<1> QED
  BY <1>4, <1>5

(* A delete that arrives empties the key of one video. *)
LEMMA RemoveVanishes ==
  ASSUME IInv, Next, NEW q \in removes, PdsRemove(q)
  PROVE  [Slots!SlotNext]_Slots!slotVars
<1>1. UNCHANGED <<reservedRkey, preparedRecord>> /\ repo' = [repo EXCEPT ![q.rkey] = Nil]
  BY DEF PdsRemove, reserveVars
<1>2. PICK v \in Videos : reservedRkey[v] = q.rkey
  BY DEF IInv, DataInv, RemovesBelong
<1>3. reservedRkey[v] # Nil
  BY <1>2, QueueAssumption DEF IInv, TypeOK
<1> QED
  BY <1>1, <1>2, <1>3 DEF Slots!SlotNext, Slots!Vanish

(* The queue, its workers and the network implement CrosspostSlot. *)
THEOREM Refinement == Spec => ImplementsSlots
<1>1. Init => Slots!SlotInit
  BY DEF Init, Slots!SlotInit
<1>2. IInv /\ [Next]_vars => [Slots!SlotNext]_Slots!slotVars
  <2>1. ASSUME IInv, Next
        PROVE  [Slots!SlotNext]_Slots!slotVars
    <3>1. CASE UNCHANGED <<reservedRkey, preparedRecord, repo>>
      BY <3>1 DEF Slots!slotVars
    <3>2. CASE UNCHANGED <<reservedRkey, preparedRecord>> /\ ~UNCHANGED repo
      BY <2>1, <3>2, Writers, CreateAppears, RemoveVanishes
    <3>3. CASE ~UNCHANGED reservedRkey
      BY <2>1, <3>3, Writers, ReserveTakesSlot
    <3>4. CASE ~UNCHANGED preparedRecord
      BY <2>1, <3>4, Writers, PrepareFixesIntent
    <3> QED
      BY <3>1, <3>2, <3>3, <3>4
  <2>2. CASE UNCHANGED vars
    BY <2>2 DEF vars, reserveVars, pdsVars, Slots!slotVars
  <2> QED
    BY <2>1, <2>2
<1> QED
  BY <1>1, <1>2, Invariance, PTL DEF Spec, ImplementsSlots, Slots!SlotSpec

--------------------------------------------------------------------------------
(* The single-replica deployment *)

(* While a local ingester is about to cancel a row, the row is not finished: *)
(* the connection mutex keeps every local worker away from it.               *)
CancelsUnfinished == ingStage = "write" => state[Target[ingDelete]] \notin Final

(* With one connection, no run finishes a row between the two statements of *)
(* its cancellation: what is about to be skipped is still unfinished.       *)
LEMMA CancelsUnfinishedStep ==
  ASSUME Remote = {}, CancelsUnfinished, Next
  PROVE  CancelsUnfinished'
<1> USE DEF CancelsUnfinished, rowVars, ingestVars
<1>1. CASE Ingest
  BY <1>1 DEF Ingest, Enqueue, CancelRead, CancelWrite, CancelLookup, IngestAborts, IngestIdle
<1>2. ASSUME NEW w \in Workers, WorkerStep(w)
      PROVE  CancelsUnfinished'
  BY <1>2
     DEF WorkerStep, Claim, ReserveRkey, CheckVideo, PrepareRecord, SendCreate, CreateFails, Recover,
         SaveMapping, SetPublished, CheckDelete, SendRemove, MarkDeleted, StepFails, Finalize, DbFree
<1>3. CASE Environment
  BY <1>3 DEF Environment, SwitchOptIn, LeaseLapses, Revive, UndoRevive, Heartbeat, RunAborts,
              PdsCreate, PdsRemove, LoseRequest
<1> QED
  BY <1>1, <1>2, <1>3 DEF Next

(* With one replica, the verdict of a finished row is never overwritten. *)
LEMMA FinalStaysStep ==
  ASSUME TypeOK, CancelsUnfinished, Next, NEW j \in Jobs, state[j] \in Final
  PROVE  state'[j] = state[j]
<1> USE DEF rowVars, Final, TypeOK
<1>1. CASE Ingest
  BY <1>1 DEF Ingest, Enqueue, CancelRead, CancelWrite, CancelLookup, IngestAborts,
              InsertPending, Settle, CancelsUnfinished
<1>2. ASSUME NEW w \in Workers, WorkerStep(w)
      PROVE  state'[j] = state[j]
  <2>1. ASSUME NEW i \in Jobs, Claim(w, i)
        PROVE  state'[j] = state[j]
    BY <2>1 DEF Claim, Claimable
  <2>2. CASE Finalize(w)
    BY <2>2 DEF Finalize, OwnsLease, Settle, RecordFailure
  <2> QED
    BY <1>2, <2>1, <2>2
       DEF WorkerStep, ReserveRkey, CheckVideo, PrepareRecord, SendCreate, CreateFails, Recover,
           SaveMapping, SetPublished, CheckDelete, SendRemove, MarkDeleted, StepFails
<1>3. CASE Environment
  BY <1>3 DEF Environment, SwitchOptIn, LeaseLapses, Revive, UndoRevive, Heartbeat, RunAborts,
              PdsCreate, PdsRemove, LoseRequest
<1> QED
  BY <1>1, <1>2, <1>3 DEF Next

(* cancel_publish_job leaves finished rows untouched, and a run that lost   *)
(* its lease records nothing, when every worker shares the ingester's       *)
(* connection (no second replica).                                          *)
THEOREM FinalityInOneReplica ==
  ASSUME Remote = {}
  PROVE  Spec => FinalStaysFinal
<1>1. Init => CancelsUnfinished
  BY DEF Init, CancelsUnfinished
<1>2. CancelsUnfinished /\ [Next]_vars => CancelsUnfinished'
  BY CancelsUnfinishedStep DEF CancelsUnfinished, vars, rowVars, ingestVars
<1>3. Spec => []CancelsUnfinished
  BY <1>1, <1>2, PTL DEF Spec
<1>4. TypeOK /\ CancelsUnfinished /\ [Next]_vars
        => [\A j \in Jobs : state[j] \in Final => state'[j] = state[j]]_vars
  BY FinalStaysStep
<1> QED
  BY <1>3, <1>4, TypeCorrect, PTL DEF Spec, FinalStaysFinal

--------------------------------------------------------------------------------
(* Deletions *)

(* No run straggles, and the owner stays.                                     *)
Undisturbed == optedIn /\ \A v \in Videos : ~Straggler(v)

Gone(v) == \A r \in Rkeys : repo[r] # Nil => repo[r].event # v

(* Only the deletion of a mapped video is queued, and a mapping is marked     *)
(* deleted, or a deletion ends, only when the record is gone.                 *)
DeletesMapped == \A d \in Deletes : state[d] # "absent" => mapping[Target[d]] # Nil
MarkedGone == \A v \in Videos : deleted[v] => mapping[v] # Nil /\ Gone(v)
Removed(w) ==
  \/ pc[w] = "marking"
  \/ pc[w] = "finalizing" /\ verdict[w] = "ineligible" /\ job[w] \in Deletes
RemovedGone == \A w \in Workers : Removed(w) => Gone(Target[job[w]])
ConcludedGone == \A d \in Deletes : state[d] = "ineligible" => Gone(Target[d])

DeletionInv == DeletesMapped /\ MarkedGone /\ RemovedGone /\ ConcludedGone

(* What is gone stays gone: only a straggler would create it again.          *)
LEMMA GoneStays ==
  ASSUME IInv, Undisturbed, Next, NEW v \in Videos, mapping[v] # Nil, Gone(v)
  PROVE  Gone(v)'
<1> USE DEF Gone, IInv, TypeOK
<1>1. CASE UNCHANGED repo
  BY <1>1
<1>2. ASSUME NEW q \in creates, PdsCreate(q)
      PROVE  Gone(v)'
  <2>1. q.record.event # v
    BY DEF Undisturbed, Straggler
  <2> QED
    BY <1>2, <2>1 DEF PdsCreate
<1>3. ASSUME NEW q \in removes, PdsRemove(q)
      PROVE  Gone(v)'
  BY <1>3 DEF PdsRemove
<1> QED
  BY <1>1, <1>2, <1>3, Writers

(* Only CancelLookup queues a deletion, and only of a mapped video.          *)
LEMMA DeletesMappedStep ==
  ASSUME IInv, DeletesMapped, Next
  PROVE  DeletesMapped'
<1> USE QueueAssumption DEF rowVars, IInv, TypeOK, Jobs
<1>1. ASSUME \A d \in Deletes : state[d] = "absent" => state'[d] = "absent"
      PROVE  DeletesMapped'
  BY <1>1, MappingsKeptStep DEF DeletesMapped, MappingsKept
<1>2. CASE Ingest
  <2>1. CASE CancelLookup
    BY <2>1 DEF CancelLookup, InsertPending, DeletesMapped, IngestInv, mappingVars
  <2>2. CASE CancelWrite
    <3>1. Target[ingDelete] \notin Deletes
      BY <2>2 DEF CancelWrite, IngestInv
    <3>2. \A d \in Deletes : state'[d] = state[d]
      BY <2>2, <3>1 DEF CancelWrite, Settle
    <3> QED
      BY <1>1, <3>2
  <2>3. CASE ~CancelLookup /\ ~CancelWrite
    <3>1. \A d \in Deletes : state'[d] = state[d]
      BY <1>2, <2>3 DEF Ingest, Enqueue, CancelRead, IngestAborts, InsertPending
    <3> QED
      BY <1>1, <3>1
  <2> QED
    BY <2>1, <2>2, <2>3
<1>3. ASSUME NEW w \in Workers, WorkerStep(w)
      PROVE  DeletesMapped'
  <2>1. ASSUME NEW j \in Jobs, Claim(w, j)
        PROVE  \A d \in Deletes : state[d] = "absent" => state'[d] = "absent"
    BY <2>1 DEF Claim, Claimable
  <2>2. CASE Finalize(w)
    <3>1. \A d \in Deletes : state[d] = "absent" => state'[d] = "absent"
      BY <2>2 DEF Finalize, OwnsLease, Settle, RecordFailure
    <3> QED
      BY <1>1, <3>1
  <2> QED
    BY <1>1, <1>3, <2>1, <2>2
       DEF WorkerStep, ReserveRkey, CheckVideo, PrepareRecord, SendCreate, CreateFails, Recover,
           SaveMapping, SetPublished, CheckDelete, SendRemove, MarkDeleted, StepFails
<1>4. CASE Environment
  BY <1>1, <1>4 DEF Environment, SwitchOptIn, LeaseLapses, Revive, UndoRevive, Heartbeat,
                    RunAborts, PdsCreate, PdsRemove, LoseRequest
<1> QED
  BY <1>2, <1>3, <1>4 DEF Next

(* A mapping is marked deleted by the run that has seen the record go.       *)
LEMMA MarkedGoneStep ==
  ASSUME IInv, Undisturbed, DeletionInv, Next
  PROVE  MarkedGone'
<1> USE DEF IInv, TypeOK
<1>1. ASSUME NEW v \in Videos, deleted'[v], deleted[v]
      PROVE  mapping'[v] # Nil /\ Gone(v)'
  BY <1>1, GoneStays, MappingsKeptStep DEF DeletionInv, MarkedGone, MappingsKept
<1>2. ASSUME NEW w \in Workers, MarkDeleted(w)
      PROVE  MarkedGone'
  <2>1. job[w] \in Deletes /\ state[job[w]] # "absent" /\ Gone(Target[job[w]])
    BY <1>2 DEF MarkDeleted, RunInv, RunOK, RunOnJob, DeleteStages, DeletionInv, RemovedGone,
                Removed
  <2>2. PICK u \in Videos : u = Target[job[w]]
    BY <2>1, QueueAssumption
  <2>3. mapping'[u] # Nil /\ Gone(u)'
    BY <2>1, <2>2, GoneStays, MappingsKeptStep DEF DeletionInv, DeletesMapped, MappingsKept
  <2>4. \A v \in Videos : deleted'[v] => v = u \/ deleted[v]
    BY <1>2, <2>2 DEF MarkDeleted
  <2> QED
    BY <1>1, <2>3, <2>4 DEF MarkedGone
<1>3. CASE \A v \in Videos : deleted'[v] => deleted[v]
  BY <1>1, <1>3 DEF MarkedGone
<1>4. CASE Ingest \/ Environment
  <2>1. UNCHANGED deleted
    BY <1>4 DEF Ingest, Enqueue, CancelRead, CancelWrite, CancelLookup, IngestAborts,
                Environment, SwitchOptIn, LeaseLapses, Revive, UndoRevive, Heartbeat, RunAborts,
                PdsCreate,
                PdsRemove, LoseRequest, mappingVars
  <2> QED
    BY <1>3, <2>1
<1>5. ASSUME NEW w \in Workers, WorkerStep(w), ~MarkDeleted(w)
      PROVE  MarkedGone'
  <2>1. CASE SaveMapping(w) \/ SetPublished(w)
    <3>1. \A v \in Videos : deleted'[v] => deleted[v]
      BY <2>1 DEF SaveMapping, SetPublished
    <3> QED
      BY <1>3, <3>1
  <2>2. CASE ~(SaveMapping(w) \/ SetPublished(w))
    <3>1. UNCHANGED deleted
      BY <1>5, <2>2
         DEF WorkerStep, Claim, ReserveRkey, CheckVideo, PrepareRecord, SendCreate, CreateFails,
             Recover, CheckDelete, SendRemove, StepFails, Finalize, mappingVars
    <3> QED
      BY <1>3, <3>1
  <2> QED
    BY <2>1, <2>2
<1> QED
  BY <1>2, <1>4, <1>5 DEF Next

(* The stage "marking" is reached by an answer, the verdict by a look at the *)
(* mapping or by marking it.                                                  *)
LEMMA WhoRemoves ==
  ASSUME IInv, Next, NEW w \in Workers, Removed(w)', ~SameRun(w)
  PROVE  \/ \E q \in removes : PdsRemove(q) /\ q.from = w /\ pc[w] = "removing"
                               /\ rkey[w] = q.rkey /\ job' = job
         \/ (CheckDelete(w) \/ MarkDeleted(w)) /\ job' = job
<1> USE DEF IInv, TypeOK
<1>1. CASE Ingest
  BY <1>1 DEF Ingest, Enqueue, CancelRead, CancelWrite, CancelLookup, IngestAborts, workerVars,
              SameRun
<1>2. ASSUME NEW x \in Workers, WorkerStep(x)
      PROVE  (CheckDelete(w) \/ MarkDeleted(w)) /\ job' = job
  <2>1. CASE CheckDelete(x) \/ MarkDeleted(x)
    BY <2>1 DEF CheckDelete, MarkDeleted, Conclude, Goto, SameRun
  <2>2. ASSUME NEW v \in {"ineligible", "completed", "failed", "quota"}, Conclude(x, v),
               v = "ineligible" => job[x] \in Videos
        PROVE  FALSE
    BY <2>2, QueueAssumption DEF Conclude, Goto, Removed, SameRun
  <2>3. ASSUME NEW stage \in {"preparing", "sending", "awaiting", "recovering", "mapping",
                              "status", "removing", "checking", "reserving", "idle"},
               pc' = [pc EXCEPT ![x] = stage],
               \A y \in Workers \ {x} : SameRun(y)
        PROVE  FALSE
    BY <2>3 DEF Removed, SameRun
  <2>4. ASSUME NEW stage \in {"preparing", "sending", "awaiting", "recovering", "mapping",
                              "status", "removing"}, Advance(x, stage)
        PROVE  FALSE
    BY <2>3, <2>4 DEF Advance, Goto, SameRun
  <2>5. ASSUME Reset({x})
        PROVE  FALSE
    BY <2>5 DEF Reset, SameRun, Removed
  <2>6. ASSUME \/ \E j \in Jobs : Claim(x, j)
               \/ \E r \in Rkeys : ReserveRkey(x, r)
               \/ \E b \in Blobs : PrepareRecord(x, b)
        PROVE  FALSE
    <3>1. ASSUME NEW j \in Jobs, Claim(x, j) PROVE FALSE
      BY <2>3, <3>1 DEF Claim, Goto, SameRun
    <3>2. ASSUME NEW r \in Rkeys, ReserveRkey(x, r) PROVE FALSE
      BY <2>3, <2>5, <3>2 DEF ReserveRkey, Goto, SameRun
    <3>3. ASSUME NEW b \in Blobs, PrepareRecord(x, b) PROVE FALSE
      BY <2>3, <3>3 DEF PrepareRecord, Goto, SameRun
    <3> QED
      BY <2>6, <3>1, <3>2, <3>3
  <2>7. CASE CheckVideo(x) \/ Recover(x) \/ SetPublished(x) \/ StepFails(x)
    BY <2>2, <2>4, <2>7 DEF CheckVideo, Recover, SetPublished, StepFails
  <2>8. CASE SendCreate(x) \/ CreateFails(x) \/ SaveMapping(x) \/ SendRemove(x)
    BY <2>4, <2>8 DEF SendCreate, CreateFails, SaveMapping, SendRemove
  <2>9. CASE Finalize(x)
    BY <2>5, <2>9 DEF Finalize
  <2> QED
    BY <1>2, <2>1, <2>6, <2>7, <2>8, <2>9 DEF WorkerStep
<1>3. CASE Environment
  <2>1. ASSUME NEW x \in Workers, RunAborts(x) PROVE FALSE
    BY <2>1 DEF RunAborts, Reset, SameRun, Removed
  <2>2. ASSUME NEW q \in creates, PdsCreate(q) PROVE FALSE
    BY <2>2 DEF PdsCreate, Advance, Goto, SameRun, Removed, workerVars
  <2>3. ASSUME NEW q \in removes, PdsRemove(q)
        PROVE  q.from = w /\ pc[w] = "removing" /\ rkey[w] = q.rkey /\ job' = job
    BY <2>3 DEF PdsRemove, Advance, Goto, SameRun, Removed, workerVars
  <2>4. ASSUME SwitchOptIn \/ LoseRequest
           \/ (\E j \in Jobs : LeaseLapses(j) \/ Revive(j) \/ UndoRevive(j))
                 \/ (\E x \in Workers : Heartbeat(x))
        PROVE  FALSE
    BY <2>4 DEF SwitchOptIn, LoseRequest, LeaseLapses, Revive, UndoRevive, Heartbeat, workerVars,
                SameRun
  <2> QED
    BY <1>3, <2>1, <2>2, <2>3, <2>4 DEF Environment
<1> QED
  BY <1>1, <1>2, <1>3 DEF Next

(* A run that concludes a deletion leaves no record of its target.           *)
LEMMA RemovedGoneStep ==
  ASSUME IInv, Undisturbed, DeletionInv, Next
  PROVE  RemovedGone'
<1> SUFFICES ASSUME NEW w \in Workers, Removed(w)'
             PROVE  Gone(Target[job[w]])'
  BY DEF RemovedGone
<1> USE DEF DeletionInv
<1>1. pc[w] # "idle" => job[w] \in Jobs /\ state[job[w]] # "absent"
  BY DEF IInv, RunInv, RunOK, RunOnJob
<1>2. ASSUME NEW d \in Deletes, state[d] # "absent", Gone(Target[d])
      PROVE  Gone(Target[d])'
  BY <1>2, GoneStays, QueueAssumption DEF DeletesMapped
<1>3. pc[w] \in DeleteStages => job[w] \in Deletes
  BY DEF IInv, RunInv, RunOK, RunOnJob
<1>4. CASE SameRun(w)
  <2>1. Removed(w) /\ job[w] \in Deletes /\ job'[w] = job[w] /\ state[job[w]] # "absent"
    BY <1>1, <1>3, <1>4 DEF Removed, SameRun, DeleteStages
  <2>2. Gone(Target[job[w]])
    BY <2>1 DEF RemovedGone
  <2> QED
    BY <1>2, <2>1, <2>2 DEF Gone
<1>5. ASSUME NEW q \in removes, PdsRemove(q), q.from = w, pc[w] = "removing",
             rkey[w] = q.rkey, job' = job
      PROVE  Gone(Target[job[w]])'
  <2>1. job[w] \in Deletes /\ q.rkey = reservedRkey[Target[job[w]]] /\ q.rkey \in Rkeys
    BY <1>3, <1>5 DEF DeleteStages, IInv, TypeOK, RunInv, RunOK, RunAtReservedKey
  <2>2. repo' = [repo EXCEPT ![q.rkey] = Nil]
    BY <1>5 DEF PdsRemove
  <2>3. ASSUME NEW r \in Rkeys, repo'[r] # Nil PROVE repo'[r].event # Target[job[w]]
    <3>1. r # q.rkey /\ repo'[r] = repo[r]
      BY <2>1, <2>2, <2>3 DEF IInv, TypeOK
    <3>2. reservedRkey[repo[r].event] = r
      BY <2>3, <3>1 DEF IInv, DataInv, RepoBelongs, BelongsTo
    <3> QED
      BY <2>1, <3>1, <3>2
  <2> QED
    BY <1>5, <2>3 DEF Gone
<1>6. CASE (CheckDelete(w) \/ MarkDeleted(w)) /\ job' = job
  <2>1. job[w] \in Deletes /\ state[job[w]] # "absent"
    BY <1>1, <1>3, <1>6 DEF CheckDelete, MarkDeleted, DeleteStages
  <2>2. Gone(Target[job[w]])
    <3>1. CASE MarkDeleted(w)
      BY <3>1 DEF MarkDeleted, RemovedGone, Removed
    <3>2. CASE CheckDelete(w)
      <4>1. pc'[w] = "finalizing"
        BY <3>2 DEF Removed, CheckDelete, Conclude, Goto, IInv, TypeOK
      <4>2. mapping[Target[job[w]]] # Nil /\ optedIn
        BY <2>1 DEF DeletesMapped, Undisturbed
      <4>3. deleted[Target[job[w]]]
        BY <3>2, <4>1, <4>2 DEF CheckDelete, Goto, IInv, TypeOK
      <4> QED
        BY <2>1, <4>3, QueueAssumption DEF MarkedGone
    <3> QED
      BY <1>6, <3>1, <3>2
  <2> QED
    BY <1>2, <1>6, <2>1, <2>2 DEF Gone
<1> QED
  BY <1>4, <1>5, <1>6, WhoRemoves

(* A deletion becomes "ineligible" by the verdict of its own run.            *)
LEMMA ConcludedGoneStep ==
  ASSUME IInv, Undisturbed, DeletionInv, Next
  PROVE  ConcludedGone'
<1> SUFFICES ASSUME NEW d \in Deletes, state'[d] = "ineligible"
             PROVE  Gone(Target[d])'
  BY DEF ConcludedGone
<1> USE DEF DeletionInv
<1>1. ASSUME state[d] # "absent", Gone(Target[d])
      PROVE  Gone(Target[d])'
  BY <1>1, GoneStays, QueueAssumption DEF DeletesMapped
<1>2. CASE state[d] = "ineligible"
  BY <1>1, <1>2 DEF ConcludedGone
<1>3. CASE state[d] # "ineligible"
  <2> USE QueueAssumption DEF rowVars, IInv, TypeOK, Jobs
  <2>1. ~Ingest
    BY <1>3 DEF Ingest, Enqueue, CancelRead, CancelWrite, CancelLookup, IngestAborts,
                InsertPending, Settle
  <2>2. ~Environment
    BY <1>3 DEF Environment, SwitchOptIn, LeaseLapses, Revive, UndoRevive, Heartbeat, RunAborts,
                PdsCreate, PdsRemove, LoseRequest
  <2>3. PICK w \in Workers : WorkerStep(w)
    BY <2>1, <2>2 DEF Next
  <2>c. ASSUME NEW j \in Jobs, Claim(w, j) PROVE FALSE
    BY <1>3, <2>c DEF Claim
  <2>4. Finalize(w)
    BY <1>3, <2>3, <2>c
       DEF WorkerStep, ReserveRkey, CheckVideo, PrepareRecord, SendCreate, CreateFails,
           Recover, SaveMapping, SetPublished, CheckDelete, SendRemove, MarkDeleted, StepFails
  <2>5. job[w] = d /\ verdict[w] = "ineligible" /\ state[d] # "absent"
    BY <1>3, <2>4 DEF Finalize, OwnsLease, Settle, RecordFailure
  <2>6. Gone(Target[d])
    BY <2>4, <2>5 DEF Finalize, RemovedGone, Removed
  <2> QED
    BY <1>1, <2>5, <2>6
<1> QED
  BY <1>2, <1>3

(* handle_deletion: a deletion job that is over has removed its record, for  *)
(* any number of workers, replicas, retries and lost answers, as long as the *)
(* owner stays and no run straggles.                                          *)
THEOREM DeletionsCarriedOut == Spec => DeletionHonoured
<1>1. Init => DeletionInv
  BY DEF Init, DeletionInv, DeletesMapped, MarkedGone, RemovedGone, Removed, ConcludedGone, Jobs
<1>2. IInv /\ Undisturbed /\ DeletionInv /\ [Next]_vars => DeletionInv'
  <2>1. ASSUME IInv, Undisturbed, DeletionInv, Next
        PROVE  DeletionInv'
    BY <2>1, DeletesMappedStep, MarkedGoneStep, RemovedGoneStep, ConcludedGoneStep
       DEF DeletionInv
  <2>2. ASSUME DeletionInv, UNCHANGED vars
        PROVE  DeletionInv'
    BY <2>2 DEF vars, rowVars, mappingVars, pdsVars, workerVars, DeletionInv, DeletesMapped,
                MarkedGone, RemovedGone, Removed, ConcludedGone, Gone
  <2> QED
    BY <2>1, <2>2
<1>3. DeletionInv => \A d \in Deletes, r \in Rkeys :
                       state[d] = "ineligible" /\ repo[r] # Nil => repo[r].event # Target[d]
  BY DEF DeletionInv, ConcludedGone, Gone
<1> QED
  BY <1>1, <1>2, <1>3, Invariance, PTL DEF Spec, DeletionHonoured, Undisturbed

================================================================================
