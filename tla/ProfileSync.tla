------------------------------ MODULE ProfileSync -------------------------------
(***************************************************************************)
(* The profile of one account: kind 0 events become the one record at      *)
(* app.bsky.actor.profile/self. They reach the queue only through the      *)
(* replay of the author's history, run in the backfill lane of one bridge   *)
(* process, and each run overwrites the record.                            *)
(*                                                                         *)
(* Profile events are numbered by created_at. What a deletion event does to *)
(* the row it names is in PublishQueue.                                      *)
(***************************************************************************)
EXTENDS Naturals, FiniteSetsExt

CONSTANTS
  Edits,        \* how often the owner edits the profile
  MaxTries,     \* MAX_PUBLISH_JOB_ATTEMPTS
  FaultBudget   \* bound on failed steps, crashes and changes of the opt-in

ASSUME ProfileAssumption ==
  Edits \in Nat \ {0} /\ MaxTries \in Nat \ {0} /\ FaultBudget \in Nat

Profiles == 1..Edits
NoProfile == 0

VARIABLES
  newest,      \* the owner's newest profile event, as the relay has it
  replay,      \* the planner: the events of the history still to be queued
  prow,        \* publish_jobs: the row of each profile event
  mapped,      \* record_mappings: the profile events that have one
  consent,     \* account_links: opted in
  self,        \* the PDS: the event shown at rkey "self"
  prun,        \* the run of the backfill worker
  faults       \* history: how much went wrong so far

profileVars == <<newest, replay, prow, mapped, consent, self, prun, faults>>

RowStates == {"absent", "pending", "in_progress", "failed", "published", "ineligible", "dead"}
ProfileRow == [state : RowStates, tries : 0..MaxTries, leased : BOOLEAN]
ProfileStages == {"idle", "checking", "parsing", "images", "putting", "mapping", "finishing"}

ProfileTypeOK ==
  /\ newest \in Profiles
  /\ replay \in [phase : {"due", "running", "stranded", "done"}, left : SUBSET Profiles]
  /\ prow \in [Profiles -> ProfileRow]
  /\ mapped \subseteq Profiles
  /\ consent \in BOOLEAN
  /\ self \in Profiles \cup {NoProfile}
  /\ prun \in [event : Profiles \cup {NoProfile}, stage : ProfileStages]
  /\ faults \in 0..FaultBudget

NoRun == [event |-> NoProfile, stage |-> "idle"]

ProfileInit ==
  /\ newest = 1
  /\ replay = [phase |-> "due", left |-> {}]
  /\ prow = [p \in Profiles |-> [state |-> "absent", tries |-> 0, leased |-> FALSE]]
  /\ mapped = {}
  /\ consent = TRUE
  /\ self = NoProfile
  /\ prun = NoRun
  /\ faults = 0

--------------------------------------------------------------------------------

GoesWrong == faults < FaultBudget /\ faults' = faults + 1

(* A claim and a failure each count as one; saturated, as only the         *)
(* comparison with the limit looks at it.                                    *)
OneMore(n) == IF n < MaxTries THEN n + 1 ELSE n

AtStage(stage) == prun.stage = stage
OnTo(stage) == prun' = [prun EXCEPT !.stage = stage]

(* The run ends and its row takes its verdict. *)
EndRun(state) ==
  /\ prow' = [prow EXCEPT ![prun.event] = [@ EXCEPT !.state = state, !.leased = FALSE]]
  /\ prun' = NoRun

EditProfile ==
  /\ newest < Edits
  /\ newest' = newest + 1
  /\ UNCHANGED <<replay, prow, mapped, consent, self, prun, faults>>

(* The planner takes up the account. A relay may have dropped superseded    *)
(* profiles, but answers with the newest one.                                *)
StartReplay ==
  /\ replay.phase = "due"
  /\ \E older \in SUBSET (1..(newest - 1)) :
       replay' = [phase |-> "running", left |-> older \cup {newest}]
  /\ UNCHANGED <<newest, prow, mapped, consent, self, prun, faults>>

(* prepare_publish_job and enqueue_publish_job of the oldest event left: it *)
(* is queued if the account is opted in and it was never processed.         *)
ReplayEvent ==
  /\ replay.phase = "running" /\ replay.left # {}
  /\ LET p == Min(replay.left) IN
       /\ prow' = IF consent /\ p \notin mapped /\ prow[p].state = "absent"
                  THEN [prow EXCEPT ![p].state = "pending"] ELSE prow
       /\ replay' = [replay EXCEPT !.left = @ \ {p}]
  /\ UNCHANGED <<newest, mapped, consent, self, prun, faults>>

(* mark_account_backfill_completed: the history is not asked for again. *)
FinishReplay ==
  /\ replay.phase = "running" /\ replay.left = {}
  /\ replay' = [phase |-> "done", left |-> {}]
  /\ UNCHANGED <<newest, prow, mapped, consent, self, prun, faults>>

(* The relay or the database fails: the replay starts over. *)
ReplayFails ==
  /\ replay.phase = "running"
  /\ GoesWrong
  /\ replay' = [phase |-> "due", left |-> {}]
  /\ UNCHANGED <<newest, prow, mapped, consent, self, prun>>

(* claim_next_backfill_job: ORDER BY event_created_at among the rows that   *)
(* are pending, or failed or in progress without a live lease.               *)
ClaimableRows ==
  {p \in Profiles : \/ prow[p].state = "pending"
                    \/ prow[p].state \in {"failed", "in_progress"} /\ ~prow[p].leased}
NewestFirst == Max(ClaimableRows)
NextProfile == Min(ClaimableRows)

ClaimProfile ==
  /\ AtStage("idle") /\ ClaimableRows # {}
  /\ prow' = [prow EXCEPT ![NextProfile] =
                [state |-> "in_progress", tries |-> OneMore(@.tries), leased |-> TRUE]]
  /\ prun' = [event |-> NextProfile, stage |-> "checking"]
  /\ UNCHANGED <<newest, replay, mapped, consent, self, faults>>

(* process_event_inner: opted out ends as ineligible, an event with a       *)
(* mapping was processed already.                                            *)
CheckProfile ==
  /\ AtStage("checking")
  /\ \/ ~consent /\ EndRun("ineligible")
     \/ consent /\ prun.event \in mapped /\ EndRun("published")
     \/ consent /\ prun.event \notin mapped /\ OnTo("parsing") /\ UNCHANGED prow
  /\ UNCHANGED <<newest, replay, mapped, consent, self, faults>>

(* parse_kind0_profile: the content is a JSON object. *)
ParseProfile ==
  /\ AtStage("parsing")
  /\ OnTo("images")
  /\ UNCHANGED <<newest, replay, prow, mapped, consent, self, faults>>

(* Fetch, check and upload avatar and banner, as far as the profile names   *)
(* them.                                                                     *)
PrepareImages ==
  /\ AtStage("images")
  /\ OnTo("putting")
  /\ UNCHANGED <<newest, replay, prow, mapped, consent, self, faults>>

(* putRecord replaces whatever profile is shown. *)
PutProfile ==
  /\ AtStage("putting")
  /\ self' = prun.event
  /\ OnTo("mapping")
  /\ UNCHANGED <<newest, replay, prow, mapped, consent, faults>>

SaveProfileMapping ==
  /\ AtStage("mapping")
  /\ mapped' = mapped \cup {prun.event}
  /\ OnTo("finishing")
  /\ UNCHANGED <<newest, replay, prow, consent, self, faults>>

(* update_record_mapping_status, and the row is completed. *)
FinishProfile ==
  /\ AtStage("finishing")
  /\ EndRun("published")
  /\ UNCHANGED <<newest, replay, mapped, consent, self, faults>>

(* The row backs off, or is given up. *)
FailRow ==
  /\ LET n == OneMore(prow[prun.event].tries) IN
       prow' = [prow EXCEPT ![prun.event] =
                  [state |-> IF n = MaxTries THEN "dead" ELSE "failed",
                   tries |-> n, leased |-> n < MaxTries]]
  /\ prun' = NoRun

(* prepare_profile_image: an image is too large, or no PNG or JPEG. *)
RejectImage ==
  /\ AtStage("images")
  /\ GoesWrong /\ FailRow
  /\ UNCHANGED <<newest, replay, mapped, consent, self>>

(* Any other step fails: content that is no JSON object, an image that      *)
(* cannot be fetched or uploaded, a PDS or database error. A put whose       *)
(* answer is lost has been carried out.                                      *)
ProfileFails ==
  /\ prun.stage \notin {"idle", "finishing"}
  /\ GoesWrong /\ FailRow
  /\ self' \in IF AtStage("putting") THEN {self, prun.event} ELSE {self}
  /\ UNCHANGED <<newest, replay, mapped, consent>>

(* The process stops and starts again. A replay that was under way stays    *)
(* marked as started, and the planner lists only those that are not, or     *)
(* that failed.                                                              *)
BridgeRestarts ==
  /\ GoesWrong
  /\ prun' = NoRun
  /\ replay' = IF replay.phase = "running" THEN [phase |-> "stranded", left |-> {}] ELSE replay
  /\ UNCHANGED <<newest, prow, mapped, consent, self>>

(* A back-off, or the lease of a run that is gone, is over. *)
RowWaits(p) == prow[p].leased /\ prun.event # p
RestOver(p) ==
  /\ RowWaits(p)
  /\ prow' = [prow EXCEPT ![p].leased = FALSE]
  /\ UNCHANGED <<newest, replay, mapped, consent, self, prun, faults>>

SwitchConsent ==
  /\ GoesWrong
  /\ consent' = ~consent
  /\ UNCHANGED <<newest, replay, prow, mapped, self, prun>>

ProfileStep ==
  \/ StartReplay \/ ReplayEvent \/ FinishReplay
  \/ ClaimProfile \/ CheckProfile \/ ParseProfile \/ PrepareImages \/ PutProfile \/ SaveProfileMapping
  \/ FinishProfile
  \/ \E p \in Profiles : RestOver(p)

ProfileNext ==
  ProfileStep \/ EditProfile \/ ReplayFails \/ RejectImage \/ ProfileFails \/ BridgeRestarts \/ SwitchConsent

ProfileFairness == WF_profileVars(ProfileStep)
ProfileSpec == ProfileInit /\ [][ProfileNext]_profileVars /\ ProfileFairness

--------------------------------------------------------------------------------

(* Several profiles of one history are written one after the other to the   *)
(* same key: the newest one queued stays, because the planner queues and     *)
(* the worker claims in the order of created_at. Holds while nothing fails;  *)
(* a retried older profile does overwrite a newer one.                       *)
NewestShown ==
  faults = 0 => \A p \in Profiles : prow[p].state = "published" => self >= p
================================================================================
