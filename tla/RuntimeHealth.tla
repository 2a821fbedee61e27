------------------------------ MODULE RuntimeHealth -----------------------------
(***************************************************************************)
(* The loops of run_service and the health state they share: the ingest    *)
(* poll, two publish workers and the backfill planner use one database     *)
(* connection that is opened once and never again; the watchdog opens one  *)
(* of its own for each round. /health/ready answers from the shared state. *)
(***************************************************************************)
EXTENDS Naturals

CONSTANTS
  Threshold,  \* DEGRADED_FAILURE_THRESHOLD
  MaxStuck    \* bound on expired leases and failed backfills

ASSUME HealthAssumption == Threshold \in Nat \ {0} /\ MaxStuck \in Nat

VARIABLES
  connection,  \* the shared connection: "open" or "broken"
  restApi,     \* the Funnelcake API answers
  poll,        \* the ingest poll
  failures,    \* consecutive_readiness_failures, saturated at Threshold
  degraded,
  lastError,   \* last_error is set
  stuck,       \* rows the watchdog would count
  gauges       \* the WatchdogMetrics of the last round

healthVars == <<connection, restApi, poll, failures, degraded, lastError, stuck, gauges>>

HealthTypeOK ==
  /\ connection \in {"open", "broken"}
  /\ restApi \in BOOLEAN
  /\ poll \in {"waiting", "polling"}
  /\ failures \in 0..Threshold
  /\ degraded \in BOOLEAN /\ lastError \in BOOLEAN
  /\ stuck \in 0..MaxStuck /\ gauges \in 0..MaxStuck

HealthInit ==
  /\ connection = "open" /\ restApi = TRUE
  /\ poll = "waiting"
  /\ failures = 0 /\ degraded = FALSE /\ lastError = FALSE
  /\ stuck = 0 /\ gauges = 0

Ready == ~degraded

--------------------------------------------------------------------------------

(* record_runtime_failure / record_readiness_failure *)
RecordFailure ==
  /\ failures' = IF failures < Threshold THEN failures + 1 ELSE failures
  /\ degraded' = (degraded \/ failures' >= Threshold)
  /\ lastError' = TRUE

(* record_success: one success of the ingest poll clears everything. *)
RecordSuccess ==
  failures' = 0 /\ lastError' = FALSE /\ degraded' = FALSE

(* record_processing_failure: a job that fails says nothing of the service. *)
RecordJobFailure ==
  lastError' = TRUE /\ UNCHANGED <<failures, degraded>>

(* run_rest_ingest_once: it reads the cursor first, and without a           *)
(* connection it is over.                                                    *)
PollStarts ==
  /\ poll = "waiting"
  /\ IF connection = "open"
     THEN poll' = "polling" /\ UNCHANGED <<failures, degraded, lastError>>
     ELSE RecordFailure /\ UNCHANGED poll
  /\ UNCHANGED <<connection, restApi, stuck, gauges>>

(* The pages are fetched and the events enqueued; a poll that finds nothing *)
(* new does not use the connection again.                                    *)
PollEndsWell ==
  /\ poll = "polling" /\ restApi
  /\ poll' = "waiting"
  /\ RecordSuccess
  /\ UNCHANGED <<connection, restApi, stuck, gauges>>
PollErrs ==
  /\ poll = "polling"
  /\ ~restApi \/ connection = "broken"
  /\ poll' = "waiting"
  /\ RecordFailure
  /\ UNCHANGED <<connection, restApi, stuck, gauges>>

(* publish_worker_loop and the planner's loop: a round records only          *)
(* failures, of the service or of a job.                                     *)
LoopErrs ==
  /\ connection = "broken"
  /\ RecordFailure
  /\ UNCHANGED <<connection, restApi, poll, stuck, gauges>>
JobFails ==
  /\ connection = "open"
  /\ RecordJobFailure
  /\ UNCHANGED <<connection, restApi, poll, stuck, gauges>>

(* run_watchdog_once counts through its own connection and replaces the      *)
(* gauges; that it succeeds says nothing of the loops.                       *)
WatchdogVouches ==
  /\ gauges' = stuck
  /\ RecordSuccess
  /\ UNCHANGED <<connection, restApi, poll, stuck>>
Watchdog ==
  /\ gauges' = stuck
  /\ UNCHANGED <<connection, restApi, poll, failures, degraded, lastError, stuck>>

(* The environment: rows get stuck and are taken up, the API comes and      *)
(* goes, and the database server drops the connection.                       *)
RowsMove ==
  /\ stuck' \in 0..MaxStuck \ {stuck}
  /\ UNCHANGED <<connection, restApi, poll, failures, degraded, lastError, gauges>>
ApiSwitches ==
  /\ restApi' = ~restApi
  /\ UNCHANGED <<connection, poll, failures, degraded, lastError, stuck, gauges>>
ConnectionBreaks ==
  /\ connection = "open"
  /\ connection' = "broken"
  /\ UNCHANGED <<restApi, poll, failures, degraded, lastError, stuck, gauges>>

PollStep == PollStarts \/ PollEndsWell \/ PollErrs

HealthNext ==
  \/ PollStep \/ LoopErrs \/ JobFails \/ Watchdog
  \/ RowsMove \/ ApiSwitches \/ ConnectionBreaks

(* The poll ticks for ever, and every round ends. *)
HealthFairness == WF_healthVars(PollStep)
HealthSpec == HealthInit /\ [][HealthNext]_healthVars /\ HealthFairness

--------------------------------------------------------------------------------

(* A broken connection is never repaired, so the service must say so: from  *)
(* some point on it stays not ready, although the watchdog, on connections   *)
(* of its own, goes on succeeding and a poll in flight may still succeed.    *)
(* Failures of the API and of jobs are forgiven: once polls can succeed for  *)
(* good, the service is ready for good, however often they failed before.    *)
ReadinessSettles ==
  /\ [](connection = "broken" => <>[]~Ready)
  /\ <>[](restApi /\ connection = "open") => <>[]Ready
================================================================================
