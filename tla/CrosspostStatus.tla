----------------------------- MODULE CrosspostStatus ----------------------------
(***************************************************************************)
(* What the handle gateway tells an owner about a video: derived, for each *)
(* request, from the account, the video's row in publish_jobs and its row  *)
(* in record_mappings, while the workers go on.                             *)
(*                                                                         *)
(* The account is read before the rows. It decides nothing but whether an  *)
(* account is ready, so an answer is one that a single read at the moment   *)
(* of the rows would give, for the account as it was a little earlier.      *)
(***************************************************************************)
EXTENDS PublishQueue

(* list_publish_status_for_events: a mapping is seen through its job only. *)
RecordStatus(v) ==
  IF state[v] = "absent" \/ mapping[v] = Nil THEN "none"
  ELSE IF deleted[v] THEN "deleted" ELSE "published"

(* The status a row has without a record; a failed row is given up once it   *)
(* is completed.                                                             *)
RowStatus(v) ==
  CASE state[v] = "pending" -> "queued"
    [] state[v] = "in_progress" -> "publishing"
    [] state[v] = "failed" -> IF completed[v] THEN "failed" ELSE "retrying"
    [] state[v] = "skipped" -> "removed"
    [] OTHER -> "not_applicable"

(* derive_crosspost_status, for an account that is ready or not. *)
AccountFirst(v, ready) ==
  IF ~ready THEN "not_applicable"
  ELSE CASE RecordStatus(v) = "published" -> "published"
         [] RecordStatus(v) = "deleted" -> "removed"
         [] OTHER -> RowStatus(v)
Status(v, ready) ==
  CASE RecordStatus(v) = "published" -> "published"
    [] RecordStatus(v) = "deleted" -> "removed"
    [] RecordStatus(v) = "none" /\ ready -> RowStatus(v)
    [] OTHER -> "not_applicable"

--------------------------------------------------------------------------------

(* The answers "removed" and "failed" apart, an answer follows the record:  *)
(* an owner is told "published" only of a record the repository shows at     *)
(* that key, or whose deletion is queued, whatever became of the row and of *)
(* the runs that worked on it.                                               *)
ToldPublishedIsVisible ==
  \A v \in Videos, ready \in BOOLEAN :
    Status(v, ready) = "published" => VisibleOrDeleting(v)

(* What was told stays true: "published" becomes nothing but "removed",      *)
(* although the account may be switched off, the row fail or another run     *)
(* take it; and a job told as failed for good is seen at work again only by  *)
(* an operator's repair of that very job, for the claim agrees with the      *)
(* answer on what is final.                                                  *)
AnswersHold ==
  [][\A v \in Videos, before, after \in BOOLEAN :
       /\ Status(v, before) = "published" => Status(v, after)' \in {"published", "removed"}
       /\ Status(v, before) = "failed" =>
            \/ Status(v, after)' \notin {"queued", "publishing", "retrying"}
            \/ Revive(v)]_vars
================================================================================
