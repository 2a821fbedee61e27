------------------------------ MODULE LegacyRepair ------------------------------
(***************************************************************************)
(* The repair of publish jobs that ended terminally with a BadJwt error.   *)
(* An operator previews a scope of jobs, confirms it, and may roll it      *)
(* back; the operation is a row of operator_actions that carries the       *)
(* before-images of its jobs. Operators work side by side, and the publish *)
(* workers claim revived jobs meanwhile.                                   *)
(*                                                                         *)
(* updated_at is a stamp: every transaction that writes takes a later one, *)
(* and all its rows the same one. The attempt count moves only with it, so *)
(* the images leave it out.                                                *)
(***************************************************************************)
EXTENDS Naturals, FiniteSetsExt

CONSTANTS
  LegacyJobs,   \* failed jobs of one account, numbers ordered as their event ids
  Operations,   \* operation ids
  PageLimit,    \* the limit of a preview
  MaxStamp,     \* bound on the number of writing transactions
  Nobody

(* A job of publish_jobs. "by" and "fell" are history: the operation whose  *)
(* revival is the last write to it, and how often it failed terminally.      *)
LegacyRow ==
  [state : {"failed", "in_progress", "published"}, done : BOOLEAN, owned : BOOLEAN,
   badjwt : BOOLEAN, epoch : {1, 2}, updated : 0..MaxStamp,
   by : Operations \cup {Nobody}, fell : Nat \ {0}]

ASSUME RepairAssumption ==
  /\ LegacyJobs \subseteq Nat /\ IsFiniteSet(LegacyJobs)
  /\ PageLimit \in Nat \ {0} /\ MaxStamp \in Nat
  /\ Nobody \notin Operations \cup LegacyRow

VARIABLES
  legacy,    \* publish_jobs: the jobs in question
  action,    \* operator_actions
  enabled,   \* account_links: ready and crosspost enabled
  stamp      \* the latest updated_at

repairVars == <<legacy, action, enabled, stamp>>

(* A scope names jobs, or takes the class page after an event id. *)
Scope == [ids : SUBSET LegacyJobs, after : LegacyJobs \cup {0}]
Action ==
  [status : {"none", "previewed", "applied", "rolled_back", "rollback_partial"},
   scope : Scope, images : [LegacyJobs -> LegacyRow \cup {Nobody}], updated : 0..MaxStamp,
   restored : SUBSET LegacyJobs, skipped : SUBSET LegacyJobs]

RepairTypeOK ==
  /\ legacy \in [LegacyJobs -> LegacyRow]
  /\ action \in [Operations -> Action]
  /\ enabled \in BOOLEAN
  /\ stamp \in 0..MaxStamp

(* Every job failed terminally before the migration, some with BadJwt. *)
RepairInit ==
  /\ legacy = [j \in LegacyJobs |->
                 [state |-> "failed", done |-> TRUE, owned |-> FALSE, badjwt |-> j # Max(LegacyJobs),
                  epoch |-> 1, updated |-> 0, by |-> Nobody, fell |-> 1]]
  /\ action = [o \in Operations |->
                 [status |-> "none", scope |-> [ids |-> {}, after |-> 0],
                  images |-> [j \in LegacyJobs |-> Nobody], updated |-> 0,
                  restored |-> {}, skipped |-> {}]]
  /\ enabled = TRUE
  /\ stamp = 0

--------------------------------------------------------------------------------

Writes == stamp < MaxStamp /\ stamp' = stamp + 1

(* LEGACY_REPAIR_PREDICATE: a terminal, unowned failure of a ready account  *)
(* that is named, or that failed with exactly the BadJwt error.             *)
Matches(j, scope) ==
  /\ enabled
  /\ legacy[j].state = "failed" /\ legacy[j].done /\ ~legacy[j].owned
  /\ IF scope.ids # {} THEN j \in scope.ids ELSE legacy[j].badjwt

(* preview_legacy_badjwt_repair: a page in the order of the event ids. *)
Page(scope) ==
  LET matching == {j \in LegacyJobs : Matches(j, scope) /\ j > scope.after}
  IN {j \in matching : Cardinality({i \in matching : i <= j}) <= PageLimit}

(* The before-images that the digest covers. *)
ImageFields == {"state", "done", "owned", "badjwt", "updated"}
Image(j) == [f \in ImageFields |-> legacy[j][f]]
Previewed(o) == {j \in LegacyJobs : action[o].images[j] # Nobody}

(* preview: writes only the operation. *)
Preview(o, scope) ==
  /\ action[o].status = "none"
  /\ action' = [action EXCEPT
       ![o].status = "previewed", ![o].scope = scope,
       ![o].images = [j \in LegacyJobs |-> IF j \in Page(scope) THEN legacy[j] ELSE Nobody]]
  /\ UNCHANGED <<legacy, enabled, stamp>>

(* confirm: the same page with the same images, or the operation is refused. *)
UnchangedIds(o) == Page(action[o].scope) = Previewed(o)
UnchangedSince(o) ==
  /\ Page(action[o].scope) = Previewed(o)
  /\ \A j \in Previewed(o) : Image(j) = [f \in ImageFields |-> action[o].images[j][f]]

(* revive_legacy_badjwt_jobs: claimable at once, by the new writers. *)
Revived(o, j) == [legacy[j] EXCEPT !.done = FALSE, !.epoch = 2, !.updated = stamp', !.by = o]

(* A serializable transaction: revive_legacy_badjwt_jobs makes the jobs     *)
(* claimable for the new writers, and jobs and operation get one stamp.     *)
Confirm(o) ==
  /\ action[o].status = "previewed"
  /\ UnchangedSince(o)
  /\ Writes
  /\ legacy' = [j \in LegacyJobs |->
                  IF j \in Previewed(o)
                  THEN Revived(o, j)
                  ELSE legacy[j]]
  /\ action' = [action EXCEPT ![o].status = "applied", ![o].updated = stamp']
  /\ UNCHANGED enabled

(* rollback restores a job as it was, except for its epoch, when nothing    *)
(* wrote to it since the operation was applied. The "applied" operation     *)
(* still bears the stamp of its application.                                 *)
UnclaimedOnly(o, j) ==
  legacy[j].state = "failed" /\ ~legacy[j].done /\ ~legacy[j].owned
Untouched(o, j) ==
  /\ legacy[j].state = "failed" /\ ~legacy[j].done /\ ~legacy[j].owned
  /\ legacy[j].updated = action[o].updated

Rollback(o) ==
  /\ action[o].status = "applied"
  /\ Writes
  /\ LET restored == {j \in Previewed(o) : Untouched(o, j)}
         skipped == Previewed(o) \ restored
     IN /\ legacy' = [j \in LegacyJobs |->
                        IF j \in restored
                        THEN [action[o].images[j] EXCEPT !.epoch = legacy[j].epoch, !.by = Nobody]
                        ELSE legacy[j]]
        /\ action' = [action EXCEPT
             ![o].status = IF skipped = {} THEN "rolled_back" ELSE "rollback_partial",
             ![o].restored = restored, ![o].skipped = skipped, ![o].updated = stamp']
  /\ UNCHANGED enabled

(* The worker: a claim takes what is not completed and of its epoch. The    *)
(* lease of the revived row, or the back-off, has lapsed.                    *)
ClaimRevived(j) ==
  /\ legacy[j].state = "failed" /\ ~legacy[j].done /\ legacy[j].epoch = 2
  /\ Writes
  /\ legacy' = [legacy EXCEPT ![j] = [@ EXCEPT !.state = "in_progress", !.owned = TRUE,
                                               !.badjwt = FALSE, !.updated = stamp', !.by = Nobody]]
  /\ UNCHANGED <<action, enabled>>

(* The run publishes, fails with a back-off, or fails for good. *)
EndRevived(j, state, done, badjwt) ==
  /\ legacy[j].state = "in_progress"
  /\ Writes
  /\ legacy' = [legacy EXCEPT ![j] =
                  [legacy[j] EXCEPT
                     !.state = state, !.done = done, !.owned = ~done, !.badjwt = badjwt,
                     !.updated = stamp', !.fell = IF state = "failed" /\ done THEN @ + 1 ELSE @]]
  /\ UNCHANGED <<action, enabled>>

RunRevived(j) ==
  \/ ClaimRevived(j)
  \/ EndRevived(j, "published", TRUE, FALSE)
  \/ \E done, badjwt \in BOOLEAN : EndRevived(j, "failed", done, badjwt)

SwitchAccount ==
  /\ enabled' = ~enabled
  /\ UNCHANGED <<legacy, action, stamp>>

RepairNext ==
  \/ \E o \in Operations :
       (\E scope \in Scope : Preview(o, scope)) \/ Confirm(o) \/ Rollback(o)
  \/ \E j \in LegacyJobs : RunRevived(j)
  \/ SwitchAccount

RepairSpec == RepairInit /\ [][RepairNext]_repairVars

--------------------------------------------------------------------------------

(* A confirmation is bound to what the operator saw: it revives a job only  *)
(* for the failure that was previewed, never one that a worker ran and saw  *)
(* fail again in between.                                                    *)
ConfirmedAsPreviewed ==
  [][\A o \in Operations, j \in LegacyJobs :
       action[o].status = "previewed" /\ legacy'[j].by = o =>
         j \in Previewed(o) /\ legacy[j].fell = action[o].images[j].fell]_repairVars

(* A rollback takes back only its own revivals: never a job that a worker   *)
(* has claimed since, nor one that another operation revived after it.      *)
RollbackUndoesOwn ==
  [][\A o \in Operations :
       action[o].status = "applied" =>
         action'[o].restored = {j \in Previewed(o) : legacy[j].by = o} \/ action'[o] = action[o]
    ]_repairVars
================================================================================
