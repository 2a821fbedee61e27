------------------------------ MODULE PublishQueue -----------------------------
(***************************************************************************)
(* The publish_jobs table of the bridge database, the workers that lease   *)
(* its rows, the ingester that fills it and cancels rows on deletion, the  *)
(* operator who revives failed ones, and the PDS repository the workers    *)
(* write to, for one linked account.                                       *)
(*                                                                         *)
(* A worker runs in the ingester's own process, where every database call  *)
(* goes through one mutex-guarded connection, or (Remote) in another       *)
(* replica with a connection of its own. Requests to the PDS travel        *)
(* through a network that may lose them or deliver them after the worker   *)
(* has given up on the answer.                                             *)
(*                                                                         *)
(* Time is abstracted: a lease (or the back-off of a failed row) is live   *)
(* or lapsed, and may lapse at any moment.                                 *)
(***************************************************************************)
EXTENDS Naturals, FiniteSets

CONSTANTS
  Videos,       \* video events (kinds 34235 and 34236)
  Deletes,      \* deletion events (kind 5) signed by the author
  Target,       \* Target[d]: the video that deletion d names
  Workers,      \* runs of publish_worker_loop, each with its own lease tokens
  Remote,       \* the workers that live in another replica than the ingester
  Lanes,        \* job sources in use: a subset of {"live", "backfill"}
  LaneOf,       \* LaneOf[w]: the lane worker w serves
  Rkeys,        \* record keys a TID generator may hand out
  Blobs,        \* blob references an upload may return
  MaxAttempts,  \* MAX_PUBLISH_JOB_ATTEMPTS
  Nil

Jobs == Videos \cup Deletes
Records == [event : Videos, blob : Blobs]

ASSUME QueueAssumption ==
  /\ Videos \cap Deletes = {}
  /\ Target \in [Deletes -> Videos]
  /\ Remote \subseteq Workers
  /\ LaneOf \in [Workers -> Lanes]
  /\ MaxAttempts \in Nat \ {0}
  /\ Nil \notin Jobs \cup Workers \cup Rkeys \cup Records

VARIABLES
  \* publish_jobs, one row per Nostr event
  state, attempt, leaseOwner, leaseLive, completed, lane,
  reservedRkey, preparedRecord,
  \* record_mappings: the mapped key, and whether its status is "deleted"
  mapping, deleted,
  \* account_links: the account is ready, enabled and opted in
  optedIn,
  \* the PDS repository and the requests on their way to it
  repo, creates, removes,
  \* one execution of run_publish_worker_once per worker
  pc, job, rkey, record, verdict,
  \* the ingester's current deletion
  ingStage, ingDelete, ingLane

rowVars == <<state, attempt, leaseOwner, leaseLive, completed, lane>>
reserveVars == <<reservedRkey, preparedRecord>>
mappingVars == <<mapping, deleted>>
pdsVars == <<repo, creates, removes>>
workerVars == <<pc, job, rkey, record, verdict>>
ingestVars == <<ingStage, ingDelete, ingLane>>
vars == <<rowVars, reserveVars, mappingVars, optedIn, pdsVars, workerVars, ingestVars>>

States == {"absent", "pending", "in_progress", "published", "failed", "skipped", "ineligible"}
Final == {"published", "skipped", "ineligible"}
Stages == {"idle", "reserving", "checking", "preparing", "sending", "awaiting", "recovering",
           "mapping", "status", "deleting", "removing", "marking", "finalizing"}
Verdicts == {"completed", "ineligible", "failed", "quota"}

TypeOK ==
  /\ state \in [Jobs -> States]
  /\ attempt \in [Jobs -> 0..MaxAttempts]
  /\ leaseOwner \in [Jobs -> Workers \cup {Nil}]
  /\ leaseLive \in [Jobs -> BOOLEAN]
  /\ completed \in [Jobs -> BOOLEAN]
  /\ lane \in [Jobs -> Lanes \cup {Nil}]
  /\ reservedRkey \in [Jobs -> Rkeys \cup {Nil}]
  /\ preparedRecord \in [Videos -> Records \cup {Nil}]
  /\ mapping \in [Videos -> Rkeys \cup {Nil}]
  /\ deleted \in [Videos -> BOOLEAN]
  /\ optedIn \in BOOLEAN
  /\ repo \in [Rkeys -> Records \cup {Nil}]
  /\ creates \subseteq [from : Workers, rkey : Rkeys, record : Records]
  /\ removes \subseteq [from : Workers, rkey : Rkeys]
  /\ pc \in [Workers -> Stages]
  /\ job \in [Workers -> Jobs \cup {Nil}]
  /\ rkey \in [Workers -> Rkeys \cup {Nil}]
  /\ record \in [Workers -> Records \cup {Nil}]
  /\ verdict \in [Workers -> Verdicts \cup {Nil}]
  /\ ingStage \in {"idle", "write", "lookup"}
  /\ ingDelete \in Deletes \cup {Nil}
  /\ ingLane \in Lanes \cup {Nil}

Init ==
  /\ state = [j \in Jobs |-> "absent"]
  /\ attempt = [j \in Jobs |-> 0]
  /\ leaseOwner = [j \in Jobs |-> Nil]
  /\ leaseLive = [j \in Jobs |-> FALSE]
  /\ completed = [j \in Jobs |-> FALSE]
  /\ lane = [j \in Jobs |-> Nil]
  /\ reservedRkey = [j \in Jobs |-> Nil]
  /\ preparedRecord = [v \in Videos |-> Nil]
  /\ mapping = [v \in Videos |-> Nil]
  /\ deleted = [v \in Videos |-> FALSE]
  /\ optedIn = TRUE
  /\ repo = [r \in Rkeys |-> Nil]
  /\ creates = {} /\ removes = {}
  /\ pc = [w \in Workers |-> "idle"]
  /\ job = [w \in Workers |-> Nil]
  /\ rkey = [w \in Workers |-> Nil]
  /\ record = [w \in Workers |-> Nil]
  /\ verdict = [w \in Workers |-> Nil]
  /\ ingStage = "idle" /\ ingDelete = Nil /\ ingLane = Nil

--------------------------------------------------------------------------------
(* Helpers *)

(* SQL COALESCE(stored, candidate): the first writer wins. *)
CoalesceOverwrites(stored, candidate) == candidate
Coalesce(stored, candidate) == IF stored = Nil THEN candidate ELSE stored

(* The claim's and the failure's attempt + 1, saturated at MaxAttempts: only *)
(* the comparison with MaxAttempts looks at it.                              *)
NextAttempt(n) == IF n < MaxAttempts THEN n + 1 ELSE n

(* The claim query's WHERE clause. *)
ClaimableOnce(j) ==
  \/ state[j] = "pending"
  \/ state[j] = "failed" /\ ~completed[j] /\ ~leaseLive[j]
Claimable(j) ==
  \/ state[j] = "pending"
  \/ state[j] = "failed" /\ ~completed[j] /\ ~leaseLive[j]
  \/ state[j] = "in_progress" /\ ~leaseLive[j]

(* Another job of the account already reserved this key. *)
CollidesNever(j, r) == FALSE
Collides(j, r) == \E other \in Jobs \ {j} : reservedRkey[other] = r

(* The owner fence of renewal and finalization. *)
OwnsLeaseUnfenced(w, j) == TRUE
OwnsLease(w, j) == state[j] = "in_progress" /\ leaseOwner[j] = w

(* A local worker shares the ingester's connection mutex, which is held for *)
(* the whole of a cancellation.                                              *)
DbFree(w) == w \in Remote \/ ingStage = "idle"

(* getRecord at the reserved key returned exactly the prepared record. *)
RecoveredAnything(w) == TRUE
Recovered(w) == repo[rkey[w]] = record[w]

Goto(w, stage) == pc' = [pc EXCEPT ![w] = stage]

(* The execution ends with a verdict that run_publish_worker_once records. *)
Conclude(w, v) ==
  /\ Goto(w, "finalizing")
  /\ verdict' = [verdict EXCEPT ![w] = v]
  /\ UNCHANGED <<job, rkey, record>>

Advance(w, stage) ==
  /\ Goto(w, stage)
  /\ UNCHANGED <<job, rkey, record, verdict>>

(* Forget the locals of the workers in W: their run is over. *)
Reset(W) ==
  /\ pc' = [w \in Workers |-> IF w \in W THEN "idle" ELSE pc[w]]
  /\ job' = [w \in Workers |-> IF w \in W THEN Nil ELSE job[w]]
  /\ rkey' = [w \in Workers |-> IF w \in W THEN Nil ELSE rkey[w]]
  /\ record' = [w \in Workers |-> IF w \in W THEN Nil ELSE record[w]]
  /\ verdict' = [w \in Workers |-> IF w \in W THEN Nil ELSE verdict[w]]
--------------------------------------------------------------------------------
(* The ingester: live polling (enqueue_live_event) and history replay *)
(* (replay_account_history) of the account's events.                  *)

(* enqueue_publish_job: insert a pending row unless one exists. *)
InsertPending(j, l) ==
  /\ state[j] = "absent"
  /\ state' = [state EXCEPT ![j] = "pending"]
  /\ lane' = [lane EXCEPT ![j] = l]
  /\ UNCHANGED <<attempt, leaseOwner, leaseLive, completed>>

(* A video passes prepare_publish_job (the author is opted in, neither a    *)
(* mapping nor a row exists) and is queued.                                  *)
Enqueue(v, l) ==
  /\ ingStage = "idle"
  /\ optedIn
  /\ mapping[v] = Nil
  /\ InsertPending(v, l)
  /\ UNCHANGED <<reserveVars, mappingVars, optedIn, pdsVars, workerVars, ingestVars>>

(* cancel_publish_job, first statement: read the target's row. A finished  *)
(* row is left alone; live ingest then looks the mapping up, history replay *)
(* is done.                                                                  *)
CancelRead(d, l) ==
  /\ ingStage = "idle"
  /\ optedIn
  /\ \/ /\ state[Target[d]] \notin Final
        /\ ingStage' = "write"
     \/ /\ state[Target[d]] \in Final
        /\ l = "live"
        /\ ingStage' = "lookup"
  /\ ingDelete' = d
  /\ ingLane' = l
  /\ UNCHANGED <<rowVars, reserveVars, mappingVars, optedIn, pdsVars, workerVars>>

(* Write a final state and give the lease back. *)
Settle(j, final) ==
  /\ state' = [state EXCEPT ![j] = final]
  /\ leaseOwner' = [leaseOwner EXCEPT ![j] = Nil]
  /\ leaseLive' = [leaseLive EXCEPT ![j] = FALSE]
  /\ completed' = [completed EXCEPT ![j] = TRUE]

IngestIdle == ingStage' = "idle" /\ ingDelete' = Nil /\ ingLane' = Nil

(* cancel_publish_job, second statement: mark the row skipped, whatever its *)
(* state is by now, or insert it as a tombstone in that state.              *)
CancelWrite ==
  /\ ingStage = "write"
  /\ LET v == Target[ingDelete] IN
       /\ Settle(v, "skipped")
       /\ lane' = [lane EXCEPT ![v] = IF state[v] = "absent" THEN ingLane ELSE @]
  /\ UNCHANGED attempt
  /\ \/ /\ ingLane = "live"
        /\ ingStage' = "lookup"
        /\ UNCHANGED <<ingDelete, ingLane>>
     \/ /\ ingLane # "live"
        /\ IngestIdle
  /\ UNCHANGED <<reserveVars, mappingVars, optedIn, pdsVars, workerVars>>

(* Live ingest queues the deletion itself when the target is mapped. *)
CancelLookup ==
  /\ ingStage = "lookup"
  /\ IF mapping[Target[ingDelete]] # Nil /\ state[ingDelete] = "absent"
     THEN InsertPending(ingDelete, "live")
     ELSE UNCHANGED rowVars
  /\ IngestIdle
  /\ UNCHANGED <<reserveVars, mappingVars, optedIn, pdsVars, workerVars>>

(* A database error or a crash ends the deletion part-way; the event may be *)
(* ingested again.                                                           *)
IngestAborts ==
  /\ ingStage # "idle"
  /\ IngestIdle
  /\ UNCHANGED <<rowVars, reserveVars, mappingVars, optedIn, pdsVars, workerVars>>

(* The owner leaves or rejoins crossposting. *)
SwitchOptIn ==
  /\ optedIn' = ~optedIn
  /\ UNCHANGED <<rowVars, reserveVars, mappingVars, pdsVars, workerVars, ingestVars>>

--------------------------------------------------------------------------------
(* Leases *)

(* claim_next_live_job / claim_next_backfill_job. Rows locked by another    *)
(* claim are skipped, so any claimable row of the lane may be the one.      *)
Claim(w, j) ==
  /\ pc[w] = "idle"
  /\ DbFree(w)
  /\ lane[j] = LaneOf[w]
  /\ Claimable(j)
  /\ state' = [state EXCEPT ![j] = "in_progress"]
  /\ attempt' = [attempt EXCEPT ![j] = NextAttempt(@)]
  /\ leaseOwner' = [leaseOwner EXCEPT ![j] = w]
  /\ leaseLive' = [leaseLive EXCEPT ![j] = TRUE]
  /\ completed' = [completed EXCEPT ![j] = FALSE]
  /\ job' = [job EXCEPT ![w] = j]
  /\ rkey' = [rkey EXCEPT ![w] = reservedRkey[j]]
  /\ record' = [record EXCEPT ![w] = IF j \in Videos THEN preparedRecord[j] ELSE Nil]
  /\ Goto(w, IF reservedRkey[j] = Nil THEN "reserving" ELSE "checking")
  /\ UNCHANGED <<verdict, lane, reserveVars, mappingVars, optedIn, pdsVars, ingestVars>>

(* A lease runs out (no heartbeat reached the database in time), or the     *)
(* back-off of a failed row does.                                            *)
LeaseLapses(j) ==
  /\ leaseLive[j]
  /\ leaseLive' = [leaseLive EXCEPT ![j] = FALSE]
  /\ UNCHANGED <<state, attempt, leaseOwner, completed, lane, reserveVars, mappingVars,
                 optedIn, pdsVars, workerVars, ingestVars>>

(* The heartbeat task of a run renews the lease it still owns, even after   *)
(* it lapsed. Losing the lease only stops the heartbeat, not the run.       *)
Heartbeat(w) ==
  /\ pc[w] \notin {"idle", "reserving", "finalizing"}
  /\ DbFree(w)
  /\ OwnsLease(w, job[w])
  /\ leaseLive' = [leaseLive EXCEPT ![job[w]] = TRUE]
  /\ UNCHANGED <<state, attempt, leaseOwner, completed, lane, reserveVars, mappingVars,
                 optedIn, pdsVars, workerVars, ingestVars>>

(* A database error outside the pipeline, a panic or a restart ends a run   *)
(* without touching its row.                                                 *)
RunAborts(w) ==
  /\ pc[w] # "idle"
  /\ Reset({w})
  /\ UNCHANGED <<rowVars, reserveVars, mappingVars, optedIn, pdsVars, ingestVars>>

--------------------------------------------------------------------------------
(* One execution of the pipeline *)

(* reserve_publish_job_rkey: a key of another job is an error that ends the *)
(* run, otherwise the stored key is the one the run uses.                   *)
ReserveRkey(w, r) ==
  /\ pc[w] = "reserving"
  /\ DbFree(w)
  /\ IF Collides(job[w], r)
     THEN Reset({w}) /\ UNCHANGED reservedRkey
     ELSE LET stored == Coalesce(reservedRkey[job[w]], r) IN
            /\ reservedRkey' = [reservedRkey EXCEPT ![job[w]] = stored]
            /\ rkey' = [rkey EXCEPT ![w] = stored]
            /\ Goto(w, "checking")
            /\ UNCHANGED <<job, record, verdict>>
  /\ UNCHANGED <<rowVars, preparedRecord, mappingVars, optedIn, pdsVars, ingestVars>>

(* process_event_inner for a video: opt-in, then the published-only dedupe, *)
(* then media work unless the record was prepared before the claim.         *)
CheckVideo(w) ==
  /\ pc[w] = "checking"
  /\ job[w] \in Videos
  /\ DbFree(w)
  /\ \/ ~optedIn /\ Conclude(w, "ineligible")
     \/ optedIn /\ mapping[job[w]] # Nil /\ Conclude(w, "completed")
     \/ /\ optedIn /\ mapping[job[w]] = Nil
        /\ Advance(w, IF record[w] = Nil THEN "preparing" ELSE "sending")
  /\ UNCHANGED <<rowVars, reserveVars, mappingVars, optedIn, pdsVars, ingestVars>>

(* handle_video_event, media part: the blob returned by the upload decides  *)
(* the candidate record; the stored record is the one that goes out.        *)
PrepareRecord(w, b) ==
  /\ pc[w] = "preparing"
  /\ DbFree(w)
  /\ LET v == job[w]
         stored == Coalesce(preparedRecord[v], [event |-> v, blob |-> b])
     IN /\ preparedRecord' = [preparedRecord EXCEPT ![v] = stored]
        /\ record' = [record EXCEPT ![w] = stored]
  /\ Goto(w, "sending")
  /\ UNCHANGED <<job, rkey, verdict, rowVars, reservedRkey, mappingVars, optedIn, pdsVars,
                 ingestVars>>

(* createRecord at the reserved key leaves for the PDS. *)
SendCreate(w) ==
  /\ pc[w] = "sending"
  /\ creates' = creates \cup {[from |-> w, rkey |-> rkey[w], record |-> record[w]]}
  /\ Advance(w, "awaiting")
  /\ UNCHANGED <<rowVars, reserveVars, mappingVars, optedIn, repo, removes, ingestVars>>

(* The worker gives up on an answer, or is refused. *)
CreateFails(w) ==
  /\ pc[w] = "awaiting"
  /\ Advance(w, "recovering")
  /\ UNCHANGED <<rowVars, reserveVars, mappingVars, optedIn, pdsVars, ingestVars>>

(* recover_reserved_record: the very record at the reserved URI counts as   *)
(* created; another record, none, or a failing getRecord is a failure.      *)
Recover(w) ==
  /\ pc[w] = "recovering"
  /\ \/ Recovered(w) /\ Advance(w, "mapping")
     \/ Conclude(w, "failed")
  /\ UNCHANGED <<rowVars, reserveVars, mappingVars, optedIn, pdsVars, ingestVars>>

(* insert_record_mapping: an upsert that writes status "published". *)
SaveMapping(w) ==
  /\ pc[w] = "mapping"
  /\ DbFree(w)
  /\ mapping' = [mapping EXCEPT ![job[w]] = rkey[w]]
  /\ deleted' = [deleted EXCEPT ![job[w]] = FALSE]
  /\ Advance(w, "status")
  /\ UNCHANGED <<rowVars, reserveVars, optedIn, pdsVars, ingestVars>>

(* After the asset manifest, update_record_mapping_status(Published). *)
SetPublished(w) ==
  /\ pc[w] = "status"
  /\ DbFree(w)
  /\ deleted' = [deleted EXCEPT ![job[w]] = FALSE]
  /\ Conclude(w, "completed")
  /\ UNCHANGED <<rowVars, reserveVars, mapping, optedIn, pdsVars, ingestVars>>

(* Any fallible step of the pipeline ends it with an error; the video       *)
(* service's daily cap ends the media part with the quota error.            *)
RemoveErrorMeansGone(w) ==
  /\ \/ pc[w] = "removing" /\ Advance(w, "marking")
     \/ pc[w] \in {"checking", "preparing", "mapping", "status"} /\ Conclude(w, "failed")
  /\ UNCHANGED <<rowVars, reserveVars, mappingVars, optedIn, pdsVars, ingestVars>>
StepFails(w) ==
  /\ \/ /\ pc[w] \in {"checking", "preparing", "mapping", "status", "deleting", "removing",
                      "marking"}
        /\ Conclude(w, "failed")
     \/ pc[w] = "preparing" /\ Conclude(w, "quota")
  /\ UNCHANGED <<rowVars, reserveVars, mappingVars, optedIn, pdsVars, ingestVars>>

(* handle_deletion up to the PDS call: nothing to do without a live mapping *)
(* of the target; otherwise the mapped key is the one to delete.            *)
CheckDelete(w) ==
  /\ pc[w] = "checking"
  /\ job[w] \in Deletes
  /\ DbFree(w)
  /\ LET v == Target[job[w]] IN
       \/ /\ ~optedIn \/ mapping[v] = Nil \/ deleted[v]
          /\ Conclude(w, "ineligible")
       \/ /\ optedIn /\ mapping[v] # Nil /\ ~deleted[v]
          /\ rkey' = [rkey EXCEPT ![w] = mapping[v]]
          /\ Goto(w, "deleting")
          /\ UNCHANGED <<job, record, verdict>>
  /\ UNCHANGED <<rowVars, reserveVars, mappingVars, optedIn, pdsVars, ingestVars>>

(* deleteRecord leaves for the PDS. *)
SendRemove(w) ==
  /\ pc[w] = "deleting"
  /\ removes' = removes \cup {[from |-> w, rkey |-> rkey[w]]}
  /\ Advance(w, "removing")
  /\ UNCHANGED <<rowVars, reserveVars, mappingVars, optedIn, repo, creates, ingestVars>>

(* mark_deleted: the mapping keeps its key and becomes "deleted". *)
MarkDeleted(w) ==
  /\ pc[w] = "marking"
  /\ DbFree(w)
  /\ deleted' = [deleted EXCEPT ![Target[job[w]]] = TRUE]
  /\ Conclude(w, "ineligible")
  /\ UNCHANGED <<rowVars, reserveVars, mapping, optedIn, pdsVars, ingestVars>>

(* mark_publish_job_failed_for_owner: the quota parks the row as it is; any *)
(* other failure counts, backs off, and is terminal at MaxAttempts.         *)
RecordFailure(j, quota) ==
  LET n == NextAttempt(attempt[j]) IN
  \/ /\ quota \/ n < MaxAttempts
     /\ state' = [state EXCEPT ![j] = "failed"]
     /\ leaseLive' = [leaseLive EXCEPT ![j] = TRUE]
     /\ completed' = [completed EXCEPT ![j] = FALSE]
     /\ attempt' = [attempt EXCEPT ![j] = IF quota THEN @ ELSE n]
     /\ UNCHANGED leaseOwner
  \/ /\ ~quota /\ n = MaxAttempts
     /\ Settle(j, "failed")
     /\ attempt' = [attempt EXCEPT ![j] = n]

(* The run records its verdict if it still owns the lease; otherwise the    *)
(* update matches no row, the run reports "lease lost" and changes nothing. *)
Finalize(w) ==
  /\ pc[w] = "finalizing"
  /\ DbFree(w)
  /\ IF OwnsLease(w, job[w])
     THEN \/ verdict[w] = "completed" /\ Settle(job[w], "published") /\ UNCHANGED attempt
          \/ verdict[w] = "ineligible" /\ Settle(job[w], "ineligible") /\ UNCHANGED attempt
          \/ verdict[w] \in {"failed", "quota"} /\ RecordFailure(job[w], verdict[w] = "quota")
     ELSE UNCHANGED <<state, attempt, leaseOwner, leaseLive, completed>>
  /\ Reset({w})
  /\ UNCHANGED <<lane, reserveVars, mappingVars, optedIn, pdsVars, ingestVars>>

--------------------------------------------------------------------------------
(* The operator's repair of jobs that failed for good (LegacyRepair): it    *)
(* runs in a process of its own. A revived row has no lease, so nothing but *)
(* a revival leaves a failed row unfinished and unowned.                     *)

(* revive_legacy_badjwt_jobs: a confirmed repair makes the row claimable at  *)
(* once; the attempts it used stay used.                                     *)
Revive(j) ==
  /\ optedIn
  /\ state[j] = "failed" /\ completed[j] /\ leaseOwner[j] = Nil /\ ~leaseLive[j]
  /\ completed' = [completed EXCEPT ![j] = FALSE]
  /\ UNCHANGED <<state, attempt, leaseOwner, leaseLive, lane, reserveVars, mappingVars, optedIn,
                 pdsVars, workerVars, ingestVars>>

(* The rollback of the repair takes back a revival no worker has claimed.    *)
UndoRevive(j) ==
  /\ state[j] = "failed" /\ ~completed[j] /\ leaseOwner[j] = Nil
  /\ completed' = [completed EXCEPT ![j] = TRUE]
  /\ UNCHANGED <<state, attempt, leaseOwner, leaseLive, lane, reserveVars, mappingVars, optedIn,
                 pdsVars, workerVars, ingestVars>>

--------------------------------------------------------------------------------
(* The PDS and the network (external). A create at an occupied key is       *)
(* refused; removing a missing record succeeds.                              *)

PdsCreate(q) ==
  /\ q \in creates
  /\ creates' = creates \ {q}
  /\ repo' = [repo EXCEPT ![q.rkey] = IF @ = Nil THEN q.record ELSE @]
  /\ IF pc[q.from] = "awaiting" /\ rkey[q.from] = q.rkey /\ record[q.from] = q.record
     THEN Advance(q.from, IF repo[q.rkey] = Nil THEN "mapping" ELSE "recovering")
     ELSE UNCHANGED workerVars
  /\ UNCHANGED <<rowVars, reserveVars, mappingVars, optedIn, removes, ingestVars>>

PdsRemove(q) ==
  /\ q \in removes
  /\ removes' = removes \ {q}
  /\ repo' = [repo EXCEPT ![q.rkey] = Nil]
  /\ IF pc[q.from] = "removing" /\ rkey[q.from] = q.rkey
     THEN Advance(q.from, "marking")
     ELSE UNCHANGED workerVars
  /\ UNCHANGED <<rowVars, reserveVars, mappingVars, optedIn, creates, ingestVars>>

(* A request never reaches the PDS. *)
LoseRequest ==
  /\ \/ \E q \in creates : creates' = creates \ {q} /\ UNCHANGED removes
     \/ \E q \in removes : removes' = removes \ {q} /\ UNCHANGED creates
  /\ UNCHANGED <<rowVars, reserveVars, mappingVars, optedIn, repo, workerVars, ingestVars>>

--------------------------------------------------------------------------------

Ingest ==
  \/ \E v \in Videos, l \in Lanes : Enqueue(v, l)
  \/ \E d \in Deletes, l \in Lanes : CancelRead(d, l)
  \/ CancelWrite
  \/ CancelLookup
  \/ IngestAborts

WorkerStep(w) ==
  \/ \E j \in Jobs : Claim(w, j)
  \/ \E r \in Rkeys : ReserveRkey(w, r)
  \/ CheckVideo(w)
  \/ \E b \in Blobs : PrepareRecord(w, b)
  \/ SendCreate(w)
  \/ CreateFails(w)
  \/ Recover(w)
  \/ SaveMapping(w)
  \/ SetPublished(w)
  \/ CheckDelete(w)
  \/ SendRemove(w)
  \/ MarkDeleted(w)
  \/ StepFails(w)
  \/ Finalize(w)

Environment ==
  \/ SwitchOptIn
  \/ \E j \in Jobs : LeaseLapses(j) \/ Revive(j) \/ UndoRevive(j)
  \/ \E w \in Workers : Heartbeat(w) \/ RunAborts(w)
  \/ \E q \in creates : PdsCreate(q)
  \/ \E q \in removes : PdsRemove(q)
  \/ LoseRequest

Next == Ingest \/ (\E w \in Workers : WorkerStep(w)) \/ Environment

Spec == Init /\ [][Next]_vars

--------------------------------------------------------------------------------
(* Safety *)

(* "every eligible Nostr event creates at most one AT feed record across    *)
(* retries and crashes": whatever the interleaving of runs, lost answers    *)
(* and late requests, two keys never hold records of one event.             *)
OneRecordPerEvent ==
  \A r, s \in Rkeys :
    repo[r] # Nil /\ repo[s] # Nil /\ repo[r].event = repo[s].event => r = s

(* reserve_publish_job_rkey: two jobs of the account never own one key, so  *)
(* no run writes, or deletes, the record of another event.                  *)
KeysNeverShared ==
  \A i, j \in Jobs : i # j /\ reservedRkey[i] # Nil => reservedRkey[i] # reservedRkey[j]

(* recover_reserved_record's REMOTE_RECORD_DIVERGED is unreachable while    *)
(* only the bridge writes the repository: a run that recovers finds at its  *)
(* key its own prepared record or nothing, even when several runs prepared  *)
(* different blobs.                                                          *)
NeverDiverges ==
  \A w \in Workers : pc[w] = "recovering" => repo[rkey[w]] \in {Nil, record[w]}

(* A row is "published" only when the repository really shows the prepared  *)
(* record at the mapped key, until a deletion of the event is queued.       *)
PublishedIsVisible ==
  \A v \in Videos :
    state[v] = "published" /\ (\A d \in Deletes : Target[d] = v => state[d] = "absent")
      => /\ mapping[v] # Nil
         /\ mapping[v] = reservedRkey[v]
         /\ repo[mapping[v]] # Nil
         /\ repo[mapping[v]] = preparedRecord[v]

(* The verdict of a finished row is never overwritten, neither by a run     *)
(* whose lease was lost or cancelled nor by a cancellation.                 *)
FinalStaysFinal ==
  [][\A j \in Jobs : state[j] \in Final => state'[j] = state[j]]_vars

(* Gate of the launch walk for cancelled jobs: "the create never            *)
(* publishes". With a skipped row the repository has no record of it.       *)
SkippedNeverPublishes ==
  \A v \in Videos, r \in Rkeys : state[v] = "skipped" /\ repo[r] # Nil => repo[r].event # v

(* A run that still creates the record of v although another run of v has   *)
(* already published and mapped it.                                          *)
Straggler(v) ==
  /\ mapping[v] # Nil
  /\ \/ \E q \in creates : q.record.event = v
     \/ \E w \in Workers : job[w] = v /\ pc[w] \in {"preparing", "sending"}

(* A deletion whose job is over is carried out: the repository shows its     *)
(* video no more, through lost leases, lost answers and retries. The owner   *)
(* must not opt out meanwhile (the job then ends without touching the        *)
(* record) and no run may straggle (it would create the record once more).   *)
DeletionHonoured ==
  [](optedIn /\ \A v \in Videos : ~Straggler(v)) =>
    [](\A d \in Deletes, r \in Rkeys :
         state[d] = "ineligible" /\ repo[r] # Nil => repo[r].event # Target[d])

(* The queue implements the promise of CrosspostSlot. *)
Slots == INSTANCE CrosspostSlot WITH slot <- reservedRkey, intent <- preparedRecord
ImplementsSlots == Slots!SlotSpec

--------------------------------------------------------------------------------
(* The inductive invariant behind the safety properties *)

VideoStages == {"preparing", "sending", "awaiting", "recovering", "mapping", "status"}
DeleteStages == {"deleting", "removing", "marking"}

DeleteQueued(v) == \E d \in Deletes : Target[d] = v /\ state[d] # "absent"

(* The record of v is in the repository, at the key v reserved. *)
Visible(v) ==
  reservedRkey[v] # Nil /\ preparedRecord[v] # Nil /\ repo[reservedRkey[v]] = preparedRecord[v]

VisibleOrDeleting(v) == Visible(v) \/ DeleteQueued(v)

(* A request or a stored record belongs to the video it names: it is at     *)
(* that video's key and it is that video's prepared record.                  *)
BelongsTo(r, rec) ==
  rec # Nil /\ reservedRkey[rec.event] = r /\ preparedRecord[rec.event] = rec

(* What a run is working on, stage by stage. *)
RunOnJob(w) ==
  /\ pc[w] # "idle" => job[w] \in Jobs /\ state[job[w]] # "absent"
  /\ pc[w] \in VideoStages => job[w] \in Videos
  /\ pc[w] \in DeleteStages => job[w] \in Deletes
  /\ pc[w] = "finalizing" => verdict[w] \in Verdicts

(* A run works at the key its job reserved; a deletion at its target's key. *)
RunAtReservedKey(w) ==
  /\ pc[w] \in VideoStages \cup {"checking"} =>
       rkey[w] # Nil /\ rkey[w] = reservedRkey[job[w]]
  /\ pc[w] \in DeleteStages => rkey[w] # Nil /\ rkey[w] = reservedRkey[Target[job[w]]]

(* The record a run carries is the one stored for its video. *)
RunWithPreparedRecord(w) ==
  /\ pc[w] \in {"reserving", "checking"} /\ record[w] # Nil =>
       job[w] \in Videos /\ record[w] = preparedRecord[job[w]]
  /\ pc[w] \in VideoStages \ {"preparing"} =>
       record[w] # Nil /\ record[w] = preparedRecord[job[w]]

(* From the moment a run learns that the record exists until a deletion of  *)
(* it is queued, the record stays.                                           *)
RunKnowsRecord(w) ==
  /\ pc[w] \in {"mapping", "status"} => VisibleOrDeleting(job[w])
  /\ pc[w] = "status" => mapping[job[w]] # Nil
  /\ pc[w] = "finalizing" /\ verdict[w] = "completed" =>
       job[w] \in Videos /\ mapping[job[w]] # Nil

(* A deletion under way has a target and a lane; only live ones look up. *)
IngestInv ==
  /\ ingStage # "idle" => ingDelete \in Deletes /\ ingLane \in Lanes
  /\ ingStage = "lookup" => ingLane = "live"

RunOK(w) ==
  RunOnJob(w) /\ RunAtReservedKey(w) /\ RunWithPreparedRecord(w) /\ RunKnowsRecord(w)
RunInv == \A w \in Workers : RunOK(w)

PreparedForOwnKey ==
  \A v \in Videos :
    preparedRecord[v] # Nil => preparedRecord[v].event = v /\ reservedRkey[v] # Nil
CreatesBelong == \A q \in creates : BelongsTo(q.rkey, q.record)
RepoBelongs == \A r \in Rkeys : repo[r] # Nil => BelongsTo(r, repo[r])
RemovesBelong == \A q \in removes : \E v \in Videos : reservedRkey[v] = q.rkey /\ DeleteQueued(v)
MappedAtOwnKey ==
  \A v \in Videos : mapping[v] # Nil => mapping[v] = reservedRkey[v] /\ VisibleOrDeleting(v)
PublishedIsMapped == \A v \in Videos : state[v] = "published" => mapping[v] # Nil

DataInv ==
  PreparedForOwnKey /\ CreatesBelong /\ RepoBelongs /\ RemovesBelong /\ MappedAtOwnKey
    /\ PublishedIsMapped

IInv == TypeOK /\ KeysNeverShared /\ IngestInv /\ RunInv /\ DataInv

--------------------------------------------------------------------------------
(* Liveness *)

Settled(j) == state[j] \in Final \/ (state[j] = "failed" /\ completed[j])

Held(j) ==
  state[j] = "in_progress" /\ \E w \in Workers : leaseOwner[j] = w /\ job[w] = j

(* The worker loops tick for ever, so a worker that can step does; a lease  *)
(* without a heartbeat and a back-off run out.                               *)
Fairness ==
  /\ \A w \in Workers : SF_vars(WorkerStep(w))
  /\ \A j \in Jobs : WF_vars(~Held(j) /\ LeaseLapses(j))
  /\ WF_vars(CancelWrite) /\ WF_vars(CancelLookup)

FairSpec == Spec /\ Fairness

(* What may delay a job for ever when it never stops: runs that die, the    *)
(* upload quota, a key collision, a lease lost under a living run.          *)
Fault ==
  \/ \E w \in Workers : RunAborts(w)
  \/ \E w \in Workers : pc[w] = "preparing" /\ verdict'[w] = "quota"
  \/ \E w \in Workers, r \in Rkeys : ReserveRkey(w, r) /\ Collides(job[w], r)
  \/ \E j \in Jobs : Held(j) /\ LeaseLapses(j)

(* Once faults end, every queued job reaches a final state: nothing is      *)
(* parked for ever by a lapsed lease, a lost answer or a used-up budget.    *)
EventuallySettled ==
  <>[][~Fault]_vars => \A j \in Jobs : state[j] = "pending" ~> Settled(j)
================================================================================
