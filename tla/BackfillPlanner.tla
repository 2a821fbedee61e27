---------------------------- MODULE BackfillPlanner ----------------------------
(***************************************************************************)
(* The replay of an account's history: the planner of each replica lists   *)
(* the accounts whose backlog is due, asks the relay for the history of    *)
(* each, and turns it, oldest first, into rows of publish_jobs. A worker   *)
(* of the backlog lane publishes these rows meanwhile.                     *)
(*                                                                         *)
(* Of a row only its state is kept; how a worker executes it is            *)
(* PublishQueue's. A history is fixed: what an account posts after the     *)
(* service started reaches the queue through LiveIngest.                   *)
(***************************************************************************)
EXTENDS Naturals, FiniteSets

CONSTANTS
  Accounts,
  Videos,        \* the posts of all histories
  Deletes,       \* the deletions of all histories
  Author,        \* Author[e]: the account that signed event e
  Target,        \* Target[d]: the post that deletion d names
  Created,       \* Created[a]: the place of a in the order of created_at
  At,            \* At[e]: the place of e in the order of (created_at, id)
  BatchSize,     \* DEFAULT_BACKFILL_BATCH_SIZE
  HistoryLimit,  \* MAX_AUTHOR_HISTORY_EVENTS
  Planners,      \* replicas, each with one planner
  Nil

Events == Videos \cup Deletes

ASSUME BackfillAssumption ==
  /\ Videos \cap Deletes = {}
  /\ Author \in [Events -> Accounts]
  /\ Target \in [Deletes -> Videos]
  /\ Created \in [Accounts -> Nat]
  /\ At \in [Events -> Nat]
  /\ \A e, f \in Events : At[e] = At[f] => e = f
  /\ BatchSize \in Nat /\ HistoryLimit \in Nat
  /\ Nil \notin Accounts

VARIABLES
  backfill,   \* account_links.publish_backfill_state
  eligible,   \* the account is ready, enabled and not disabled
  row,        \* publish_jobs.state of each post
  stage, todo, current, batch,  \* run_once of each planner
  missed,     \* history variable: a replay skipped an event of the account
  wasFinal    \* history variable: the row that the planner is cancelling was
              \* final when cancel_publish_job read it

plannerVars == <<stage, todo, current, batch, wasFinal>>
vars == <<backfill, eligible, row, plannerVars, missed>>

Final == {"published", "skipped", "ineligible"}
RowStates == Final \cup {"absent", "pending", "in_progress", "failed"}
Stages == {"idle", "next", "collecting", "replaying", "writing", "cancelling"}

TypeOK ==
  /\ backfill \in [Accounts -> {"not_started", "in_progress", "completed", "failed"}]
  /\ eligible \in [Accounts -> BOOLEAN]
  /\ row \in [Videos -> RowStates]
  /\ stage \in [Planners -> Stages]
  /\ todo \in [Planners -> SUBSET Accounts]
  /\ current \in [Planners -> Accounts \cup {Nil}]
  /\ batch \in [Planners -> SUBSET Events]
  /\ wasFinal \in [Planners -> BOOLEAN]
  /\ missed \in [Accounts -> BOOLEAN]

Init ==
  /\ backfill = [a \in Accounts |-> "not_started"]
  /\ eligible \in [Accounts -> BOOLEAN]
  /\ row = [v \in Videos |-> "absent"]
  /\ stage = [p \in Planners |-> "idle"]
  /\ todo = [p \in Planners |-> {}]
  /\ current = [p \in Planners |-> Nil]
  /\ batch = [p \in Planners |-> {}]
  /\ wasFinal = [p \in Planners |-> FALSE]
  /\ missed = [a \in Accounts |-> FALSE]

--------------------------------------------------------------------------------
(* Helpers *)

(* ORDER BY created_at ASC LIMIT n. *)
FirstAccounts(S, n) ==
  {a \in S : Cardinality({b \in S : Created[b] < Created[a]}) < n}

(* The accounts the planner's query selects. *)
DueNeverTried == {a \in Accounts : eligible[a] /\ backfill[a] = "not_started"}
Due == {a \in Accounts : eligible[a] /\ backfill[a] \in {"not_started", "failed"}}

(* The relay answers author_history_filter with the newest events. *)
Window(a) ==
  LET history == {e \in Events : Author[e] = a}
  IN  {e \in history : Cardinality({f \in history : At[f] > At[e]}) < HistoryLimit}

(* The sorted history is replayed from its front. *)
IsOldestArrivalOrder(e, S) == e \in S
IsOldest(e, S) == e \in S /\ \A f \in S : At[e] <= At[f]

(* INSERT .. ON CONFLICT DO NOTHING. *)
InsertedAnew(s) == "pending"
Inserted(s) == IF s = "absent" THEN "pending" ELSE s

(* The rows that cancel_publish_job leaves alone. *)
LeavesBusyAlone(s) == s \notin {"absent", "pending"}
LeavesNoneAlone(s) == FALSE
LeavesAlone(s) == s \in Final

(* Planner p turns from its account to the rest of its list. *)
Turn(p) ==
  /\ stage' = [stage EXCEPT ![p] = "next"]
  /\ current' = [current EXCEPT ![p] = Nil]
  /\ batch' = [batch EXCEPT ![p] = {}]
  /\ UNCHANGED <<todo, wasFinal>>

Goto(p, s) == stage' = [stage EXCEPT ![p] = s]

--------------------------------------------------------------------------------
(* run_once *)

List(p) ==
  /\ stage[p] = "idle"
  /\ todo' = [todo EXCEPT ![p] = FirstAccounts(Due, BatchSize)]
  /\ Goto(p, "next")
  /\ UNCHANGED <<backfill, eligible, row, current, batch, missed, wasFinal>>

(* The account whose turn it is, in the order of the list. *)
Turns(p, a) ==
  /\ stage[p] = "next"
  /\ a \in todo[p] /\ \A b \in todo[p] : Created[a] <= Created[b]
  /\ todo' = [todo EXCEPT ![p] = @ \ {a}]

(* The connection, and mark_account_backfill_started. *)
Start(p, a) ==
  /\ Turns(p, a)
  /\ backfill' = [backfill EXCEPT ![a] = "in_progress"]
  /\ Goto(p, "collecting")
  /\ current' = [current EXCEPT ![p] = a]
  /\ UNCHANGED <<eligible, row, batch, missed, wasFinal>>

StartFails(p, a) ==
  /\ Turns(p, a)
  /\ backfill' = [backfill EXCEPT ![a] = "failed"]
  /\ UNCHANGED <<eligible, row, stage, current, batch, missed, wasFinal>>

EndOfList(p) ==
  /\ stage[p] = "next" /\ todo[p] = {}
  /\ Goto(p, "idle")
  /\ UNCHANGED <<backfill, eligible, row, todo, current, batch, missed, wasFinal>>

(* The rest of replay_account_history *)

(* collect_history_until_eose, up to the end of the stored events. *)
Collect(p) ==
  /\ stage[p] = "collecting"
  /\ batch' = [batch EXCEPT ![p] = Window(current[p])]
  /\ Goto(p, "replaying")
  /\ UNCHANGED <<backfill, eligible, row, todo, current, missed, wasFinal>>

(* prepare_publish_job decides on what it reads of the account; the write   *)
(* is a later statement. A post with a mapping is skipped there, and its     *)
(* row would be left alone by the write as well.                             *)
Prepare(p) ==
  /\ stage[p] = "replaying" /\ batch[p] # {}
  /\ eligible[current[p]]
  /\ Goto(p, "writing")
  /\ UNCHANGED <<backfill, eligible, row, todo, current, batch, missed, wasFinal>>

SkipNotOptedIn(p, e) ==
  /\ stage[p] = "replaying" /\ IsOldest(e, batch[p])
  /\ ~eligible[current[p]]
  /\ batch' = [batch EXCEPT ![p] = @ \ {e}]
  /\ missed' = [missed EXCEPT ![current[p]] = TRUE]
  /\ UNCHANGED <<backfill, eligible, row, stage, todo, current, wasFinal>>

(* Event e is dealt with. *)
Done(p, e) ==
  /\ batch' = [batch EXCEPT ![p] = @ \ {e}]
  /\ Goto(p, "replaying")

(* enqueue_publish_job, one transaction. *)
Write(p, v) ==
  /\ stage[p] = "writing" /\ IsOldest(v, batch[p])
  /\ row' = [row EXCEPT ![v] = Inserted(@)]
  /\ Done(p, v)
  /\ UNCHANGED <<backfill, eligible, todo, current, missed, wasFinal>>

(* cancel_publish_job reads the row ... *)
CancelRead(p, d) ==
  /\ stage[p] = "writing" /\ IsOldest(d, batch[p])
  /\ IF LeavesAlone(row[Target[d]])
     THEN Done(p, d) /\ UNCHANGED wasFinal
     ELSE /\ wasFinal' = [wasFinal EXCEPT ![p] = row[Target[d]] \in Final]
          /\ Goto(p, "cancelling")
          /\ UNCHANGED batch
  /\ UNCHANGED <<backfill, eligible, row, todo, current, missed>>

(* ... and a later statement, of no transaction with the first, skips it,    *)
(* whatever it is by then. For a missing row it is inserted on the way.      *)
CancelWrite(p, d) ==
  /\ stage[p] = "cancelling" /\ IsOldest(d, batch[p])
  /\ row' = [row EXCEPT ![Target[d]] = "skipped"]
  /\ Done(p, d)
  /\ UNCHANGED <<backfill, eligible, todo, current, missed, wasFinal>>

MarkCompleted(p) ==
  /\ stage[p] = "replaying" /\ batch[p] = {}
  /\ backfill' = [backfill EXCEPT ![current[p]] = "completed"]
  /\ Turn(p)
  /\ UNCHANGED <<eligible, row, missed>>

(* The relay closed before the end of the stored events, or a statement      *)
(* failed: the rest of the batch is dropped.                                 *)
ReplayFails(p) ==
  /\ stage[p] \in {"collecting", "replaying", "writing", "cancelling"}
  /\ backfill' = [backfill EXCEPT ![current[p]] = "failed"]
  /\ Turn(p)
  /\ UNCHANGED <<eligible, row, missed>>

(* A restart, or a mark that fails and ends run_once: nothing is recorded. *)
RunEnds(p) ==
  /\ current[p] # Nil \/ todo[p] # {}
  /\ Goto(p, "idle")
  /\ todo' = [todo EXCEPT ![p] = {}]
  /\ current' = [current EXCEPT ![p] = Nil]
  /\ batch' = [batch EXCEPT ![p] = {}]
  /\ UNCHANGED <<backfill, eligible, row, missed, wasFinal>>

--------------------------------------------------------------------------------
(* Around the planners *)

(* A disable, an enable, or a change of the provisioning state. *)
SwitchEligible(a) ==
  /\ eligible' = [eligible EXCEPT ![a] = ~@]
  /\ UNCHANGED <<backfill, row, plannerVars, missed>>

(* The worker of a replica shares its planner's connection, which the        *)
(* planner holds locked throughout cancel_publish_job.                       *)
WorkerRuns == \E q \in Planners : stage[q] # "cancelling"

(* claim_next_backfill_job: the oldest claimable row. A failed row is        *)
(* claimable again once its back-off is over.                                *)
ClaimableAnyOrder(v) == row[v] \in {"pending", "failed"}
Claimable(v) ==
  /\ row[v] \in {"pending", "failed"}
  /\ \A u \in Videos : row[u] = "pending" => At[v] <= At[u]

Claim(v) ==
  /\ WorkerRuns
  /\ Claimable(v)
  /\ row' = [row EXCEPT ![v] = "in_progress"]
  /\ UNCHANGED <<backfill, eligible, plannerVars, missed>>

(* The verdict of an execution, if nobody cancelled the row meanwhile. *)
Finalize(v) ==
  /\ WorkerRuns
  /\ row[v] = "in_progress"
  /\ \E verdict \in {"published", "failed", "ineligible"} :
       row' = [row EXCEPT ![v] = verdict]
  /\ UNCHANGED <<backfill, eligible, plannerVars, missed>>

--------------------------------------------------------------------------------
Step(p) ==
  \/ List(p)
  \/ \E a \in Accounts : Start(p, a)
  \/ EndOfList(p)
  \/ Collect(p)
  \/ Prepare(p)
  \/ \E e \in Events : SkipNotOptedIn(p, e)
  \/ \E v \in Videos : Write(p, v)
  \/ \E d \in Deletes : CancelRead(p, d)
  \/ \E d \in Deletes : CancelWrite(p, d)
  \/ MarkCompleted(p)

Fault(p) ==
  \/ \E a \in Accounts : StartFails(p, a)
  \/ ReplayFails(p)
  \/ RunEnds(p)

Environment ==
  \/ \E a \in Accounts : SwitchEligible(a)
  \/ \E v \in Videos : Claim(v)
  \/ \E v \in Videos : Finalize(v)

Next == (\E p \in Planners : Step(p) \/ Fault(p)) \/ Environment

Spec == Init /\ [][Next]_vars

--------------------------------------------------------------------------------
(* Safety *)

(* What the replay of e leaves behind: a row for a post, a final row for the *)
(* post that a deletion names.                                               *)
Replayed(e) ==
  IF e \in Videos THEN row[e] # "absent" ELSE row[Target[e]] \in Final

(* mark_account_backfill_completed tells the truth: whatever failed, ended   *)
(* early or ran twice before, and whichever replica writes the mark, every   *)
(* event of the relay's answer is in the queue or cancelled, unless the      *)
(* account was switched off during a replay.                                 *)
CompletedIsSeeded ==
  \A a \in Accounts :
    backfill[a] = "completed" /\ ~missed[a] => \A e \in Window(a) : Replayed(e)

(* enqueue_publish_job and cancel_publish_job: however often a history is     *)
(* replayed, by however many replicas, no replay and no worker resurrects a   *)
(* row that was cancelled, published or refused. It only turns skipped when a *)
(* cancellation had read it before it became final and another replica        *)
(* finished it in between.                                                    *)
FinalRowsStay ==
  [][\A v \in Videos : row[v] \in Final =>
       \/ row'[v] = row[v]
       \/ \E p \in Planners, d \in Deletes :
            /\ CancelWrite(p, d) /\ Target[d] = v
            /\ ~wasFinal[p] /\ Planners # {p}]_vars

(* What cancel_publish_job's comment says: "Existing `published`, `skipped`,  *)
(* and `ineligible` rows are left untouched."                                 *)
FinalRowsUntouched ==
  [][\A v \in Videos : row[v] \in Final => row'[v] = row[v]]_vars

(* The scheduler's promise for the backlog, up to retries: when a worker      *)
(* first claims a post, every older post of its account's replayed history    *)
(* was enqueued and claimed, or cancelled, before, although the planner is    *)
(* still writing, other planners write too, and replays break off.            *)
OldestFirst ==
  [][\A u, v \in Videos :
       /\ row[v] = "pending" /\ row'[v] = "in_progress"
       /\ u \in Window(Author[v]) /\ Author[u] = Author[v] /\ At[u] < At[v]
       /\ ~missed[Author[v]]
       => row[u] \notin {"absent", "pending"}]_vars

(* What the scheduler design says of a deletion seen during the replay: the   *)
(* backlog worker never publishes the post it names.                          *)
DeletedNeverPublished ==
  \A d \in Deletes :
    d \in Window(Author[d]) => row[Target[d]] # "published"

--------------------------------------------------------------------------------
(* The inductive invariant *)

Replaying(p) == stage[p] \in {"replaying", "writing", "cancelling"}

(* A planner has an account exactly while it works on one. *)
PlannerOK(p) ==
  /\ stage[p] \in {"idle", "next"} <=> current[p] = Nil
  /\ ~Replaying(p) => batch[p] = {}
  /\ Replaying(p) => batch[p] \subseteq Window(current[p])

(* A cancellation has read a row that was not final, and with one replica    *)
(* the row still is not.                                                     *)
CancelOK(p) ==
  stage[p] = "cancelling" =>
    /\ ~wasFinal[p]
    /\ Planners = {p} =>
         \A d \in Deletes : IsOldest(d, batch[p]) => row[Target[d]] \notin Final

(* What a planner has taken off its batch is replayed. *)
BatchOK(p) ==
  Replaying(p) /\ ~missed[current[p]] =>
    \A e \in Window(current[p]) \ batch[p] : Replayed(e)

(* The rows of a history form a prefix of it; a tombstone may run ahead. *)
SeededInOrder ==
  \A u, v \in Videos :
    /\ row[v] \notin {"absent", "skipped"}
    /\ u \in Window(Author[v]) /\ Author[u] = Author[v] /\ At[u] < At[v]
    /\ ~missed[Author[v]]
    => row[u] # "absent"

IInv ==
  /\ TypeOK
  /\ \A p \in Planners : PlannerOK(p) /\ BatchOK(p) /\ CancelOK(p)
  /\ SeededInOrder
  /\ CompletedIsSeeded

--------------------------------------------------------------------------------
(* Liveness *)

(* run_service_with_state's planner task loops for ever. *)
Fairness == \A p \in Planners : WF_vars(Step(p))
FairSpec == Spec /\ Fairness

FaultsStop == <>[][\A p \in Planners : ~Fault(p)]_vars

(* Nobody will list the account again, and nobody is working on it. *)
Stranded(a) ==
  /\ backfill[a] = "in_progress"
  /\ \A p \in Planners : a \notin todo[p] /\ current[p] # a

(* Once faults stop, an account that stays eligible is replayed to the end,   *)
(* whatever the size of the lists and the failures before, unless a restart   *)
(* stranded it.                                                               *)
ReplayedOrStranded ==
  FaultsStop =>
    \A a \in Accounts :
      <>[]eligible[a] => <>[](backfill[a] = "completed" \/ Stranded(a))

(* What the scheduler design says: planner crashes are safe. *)
CrashesAreSafe ==
  FaultsStop =>
    \A a \in Accounts : <>[]eligible[a] => <>(backfill[a] = "completed")
================================================================================
