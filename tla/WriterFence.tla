------------------------------ MODULE WriterFence ------------------------------
(***************************************************************************)
(* A rolling deployment: processes of the previous release, which cannot   *)
(* recognise their own records again, and of this one work on the same row *)
(* of publish_jobs while migration 008 is installed. The row carries the    *)
(* epoch of its writer, a trigger refuses a claim without the marker of     *)
(* that epoch, and only this release sets a marker.                         *)
(*                                                                         *)
(* Of the previous release nothing is known but that it enqueues, claims    *)
(* and concludes rows as the older table allows.                            *)
(***************************************************************************)
EXTENDS Naturals, FiniteSets

CONSTANTS
  OldWorkers,  \* workers of the previous release
  NewWorkers,  \* workers of this release
  NoOwner      \* lease_owner is NULL

ASSUME FenceAssumption ==
  /\ OldWorkers \cap NewWorkers = {}
  /\ NoOwner \notin OldWorkers \cup NewWorkers

VARIABLES
  migrated,  \* 008 is applied
  post,      \* the row of one event
  busy,      \* the workers that are executing it
  ranOn,     \* history: the releases that ever executed it
  audited    \* history: an operator revived it

fenceVars == <<migrated, post, busy, ranOn, audited>>

FenceWorkers == OldWorkers \cup NewWorkers
Release(w) == IF w \in NewWorkers THEN "new" ELSE "old"

NoRow == [state |-> "absent"]
PostRow ==
  [state : {"pending", "in_progress", "failed", "final"}, attempted : BOOLEAN, epoch : {1, 2},
   owner : FenceWorkers \cup {NoOwner}, lapsed : BOOLEAN, completed : BOOLEAN, prepared : BOOLEAN]

FenceTypeOK ==
  /\ migrated \in BOOLEAN /\ audited \in BOOLEAN
  /\ post \in {NoRow} \cup PostRow
  /\ busy \subseteq FenceWorkers
  /\ ranOn \subseteq {"old", "new"}

FenceInit ==
  /\ migrated = FALSE /\ audited = FALSE
  /\ post = NoRow /\ busy = {} /\ ranOn = {}

--------------------------------------------------------------------------------

(* Epoch 1 is the default of the column, for the rows there are and for the *)
(* inserts of the previous release.                                          *)
Inserted(epoch) ==
  [state |-> "pending", attempted |-> FALSE, epoch |-> epoch, owner |-> NoOwner,
   lapsed |-> FALSE, completed |-> FALSE, prepared |-> FALSE]

(* The first process of this release migrates before it does anything else. *)
Migrate ==
  /\ ~migrated /\ migrated' = TRUE
  /\ UNCHANGED <<post, busy, ranOn, audited>>

OldEnqueue ==
  /\ post = NoRow /\ post' = Inserted(1)
  /\ UNCHANGED <<migrated, busy, ranOn, audited>>

Pristine ==
  /\ post.epoch = 1 /\ post.state = "pending" /\ ~post.attempted
  /\ ~post.prepared /\ post.owner = NoOwner /\ ~post.completed

(* enqueue_publish_job: a row of its own is of epoch 2, and so becomes one  *)
(* of the previous release that nobody has touched.                          *)
NewEnqueue ==
  /\ migrated
  /\ \/ post = NoRow /\ post' = Inserted(2)
     \/ post # NoRow /\ Pristine /\ post' = [post EXCEPT !.epoch = 2]
  /\ UNCHANGED <<migrated, busy, ranOn, audited>>

Waiting ==
  \/ post.state = "pending"
  \/ post.state = "failed" /\ ~post.completed
  \/ post.state = "in_progress" /\ post.lapsed

Marker(w) == IF w \in NewWorkers THEN 2 ELSE 0

(* enforce_publish_job_writer_epoch; a marker that is not set is distinct   *)
(* from every epoch.                                                         *)
NullPasses(w) == migrated => Marker(w) \in {0, post.epoch}
FenceAllows(w) ==
  \/ ~migrated
  \/ post.state = "in_progress" /\ post.owner = w
  \/ Marker(w) = post.epoch

ClaimRow(w) ==
  /\ post # NoRow /\ Waiting /\ w \notin busy
  /\ w \in NewWorkers => migrated /\ post.epoch = 2
  /\ FenceAllows(w)
  /\ post' = [post EXCEPT !.state = "in_progress", !.attempted = TRUE, !.owner = w,
                          !.lapsed = FALSE, !.completed = FALSE]
  /\ busy' = busy \cup {w}
  /\ ranOn' = ranOn \cup {Release(w)}
  /\ UNCHANGED <<migrated, audited>>

RowLapses ==
  /\ post.state = "in_progress" /\ post' = [post EXCEPT !.lapsed = TRUE]
  /\ UNCHANGED <<migrated, busy, ranOn, audited>>

(* This release reserves the key and keeps the record before it sends it,   *)
(* under no lease.                                                            *)
KeepRecord(w) ==
  /\ w \in busy \cap NewWorkers
  /\ post' = [post EXCEPT !.prepared = TRUE]
  /\ UNCHANGED <<migrated, busy, ranOn, audited>>

(* A run fails, for now or for good, or ends. This release concludes under  *)
(* its lease; nothing of the kind is assumed of the previous one. Backing    *)
(* off, the row keeps its owner.                                             *)
Concluded == {
  [post EXCEPT !.state = "failed", !.completed = FALSE],
  [post EXCEPT !.state = "failed", !.completed = TRUE, !.owner = NoOwner],
  [post EXCEPT !.state = "final", !.completed = TRUE, !.owner = NoOwner]}

ConcludeRow(w) ==
  /\ w \in busy /\ (w \in NewWorkers => post.owner = w /\ post.state = "in_progress")
  /\ post' \in Concluded
  /\ busy' = busy \ {w}
  /\ UNCHANGED <<migrated, ranOn, audited>>

(* cancel_publish_job, of either release. *)
CancelRow ==
  /\ post.state \notin {"absent", "final"} /\ ~(post.state = "failed" /\ post.completed)
  /\ post' = [post EXCEPT !.state = "final", !.completed = TRUE, !.owner = NoOwner]
  /\ UNCHANGED <<migrated, busy, ranOn, audited>>

(* The worker dies, or finds its lease gone. *)
RunDies(w) ==
  /\ w \in busy /\ busy' = busy \ {w}
  /\ UNCHANGED <<migrated, post, ranOn, audited>>

(* revive_legacy_badjwt_jobs: an operator makes a row that failed for good   *)
(* one of this release.                                                      *)
ReviveRow ==
  /\ migrated /\ post # NoRow
  /\ post.state = "failed" /\ post.completed /\ post.owner = NoOwner
  /\ post' = [post EXCEPT !.completed = FALSE, !.epoch = 2]
  /\ audited' = TRUE
  /\ UNCHANGED <<migrated, busy, ranOn>>

FenceStep(w) == ClaimRow(w) \/ KeepRecord(w) \/ ConcludeRow(w) \/ RunDies(w)
FenceNext ==
  \/ Migrate \/ OldEnqueue \/ NewEnqueue \/ CancelRow \/ RowLapses \/ ReviveRow
  \/ \E w \in FenceWorkers : FenceStep(w)

FenceSpec == FenceInit /\ [][FenceNext]_fenceVars

--------------------------------------------------------------------------------

(* "Adopt an epoch-1 row only when it is provably pristine": no event is     *)
(* ever executed by both releases, unless an operator revived it, wherever   *)
(* the migration falls between enqueuing, claims, failures and crashes of    *)
(* the previous release.                                                     *)
ReleasesNeverMix == audited \/ ranOn # {"old", "new"}
================================================================================
