---------------------------- MODULE AccountLifecycle ---------------------------
(***************************************************************************)
(* The life of one linked account: the handle gateway's requests (opt in,  *)
(* disable, enable, manual provisioning), the provisioning runs it spawns,  *)
(* the bridge that serves them, the account at the PDS, and the two views   *)
(* the gateway keeps up to date downstream, keycast and the name server.    *)
(*                                                                          *)
(* Gateway and bridge write one row of account_links, each with statements  *)
(* of its own and no transaction around them. A gateway task awaits between *)
(* any two of its steps, so the tasks and the bridge interleave freely.     *)
(***************************************************************************)
CONSTANTS
  Tasks,     \* concurrent tasks of the gateway: handlers and spawned runs
  ReadsFail  \* whether a manual provisioning may fail to read the row

ASSUME LifecycleAssumption == ReadsFail \in BOOLEAN

VARIABLES
  \* account_links: provisioning_state, did, crosspost_enabled, disabled_at,
  \* and whether a PDS session is stored
  state, did, crosspost, disabled, session,
  pdsAccount,        \* the PDS has an account of this handle
  keycast,           \* the state keycast last heard of
  nameServer,        \* the state the name server last heard of
  gateway,           \* "replay" and "reconcile" at startup, then "serving"
  stage,             \* where each task is
  push,              \* the state a task is to tell downstream
  bridge,            \* where the bridge is in the call a task has made
  remembered,        \* crosspost_enabled as that call read it
  answer,            \* what the task heard of its call
  \* History: what owner and operator last chose, and which tasks it overtook.
  wish,              \* the owner's last choice: crosspost or not
  public,            \* the last choice of owner or operator: shown or not
  stale,             \* tasks about to write what they read before the owner
                     \* chose not to crosspost, or could not read
  undone,            \* one of them has written it since
  leftover,          \* tasks that were under way when the account was disabled
  reshown            \* one of them has made the row pending or ready since

rowVars == <<state, did, crosspost, disabled, session>>
viewVars == <<keycast, nameServer>>
taskVars == <<stage, push, answer>>
bridgeVars == <<bridge, remembered>>
choiceVars == <<wish, public, stale, undone, leftover, reshown>>
vars == <<rowVars, pdsAccount, viewVars, gateway, taskVars, bridgeVars, choiceVars>>

States == {"absent", "pending", "ready", "failed", "disabled"}
Pushes == {"ready", "failed", "disabled"}
TaskStages == {"idle", "upserting", "marking", "calling", "keycast", "nameServer"}
BridgeStages == {"none", "reading", "saving", "creating", "storing", "adopting", "marking",
                 "failing"}

TypeOK ==
  /\ state \in States
  /\ did \in BOOLEAN /\ crosspost \in BOOLEAN /\ disabled \in BOOLEAN /\ session \in BOOLEAN
  /\ pdsAccount \in BOOLEAN /\ wish \in BOOLEAN /\ public \in BOOLEAN
  /\ keycast \in Pushes \cup {"none"} /\ nameServer \in Pushes \cup {"none"}
  /\ gateway \in {"replay", "reconcile", "starting", "serving"}
  /\ stale \subseteq Tasks /\ leftover \subseteq Tasks
  /\ undone \in BOOLEAN /\ reshown \in BOOLEAN
  /\ stage \in [Tasks -> TaskStages]
  /\ push \in [Tasks -> Pushes]
  /\ bridge \in [Tasks -> BridgeStages]
  /\ remembered \in [Tasks -> BOOLEAN]
  /\ answer \in [Tasks -> {"none", "ok", "error"}]

Init ==
  /\ state = "absent"
  /\ did = FALSE /\ crosspost = FALSE /\ disabled = FALSE /\ session = FALSE
  /\ pdsAccount = FALSE
  /\ keycast = "none" /\ nameServer = "none"
  /\ gateway = "serving"
  /\ stage = [t \in Tasks |-> "idle"]
  /\ push = [t \in Tasks |-> "ready"]
  /\ bridge = [t \in Tasks |-> "none"]
  /\ remembered = [t \in Tasks |-> FALSE]
  /\ answer = [t \in Tasks |-> "none"]
  /\ wish = FALSE /\ public = FALSE
  /\ stale = {} /\ undone = FALSE /\ leftover = {} /\ reshown = FALSE

--------------------------------------------------------------------------------
(* Helpers *)

Idle(t) == stage[t] = "idle" /\ bridge[t] = "none"
AllIdle == \A t \in Tasks : Idle(t)

(* account_link_from_lifecycle_row: what the bridge crossposts for. *)
Publishable == state = "ready" /\ did /\ crosspost /\ ~disabled

(* A handler can take a request, whatever else is under way. *)
Serves(t) == gateway = "serving" /\ Idle(t)

(* The task is about to write what an earlier read of the row decided. *)
HasRead(t) == stage[t] = "upserting" \/ bridge[t] = "saving"

(* History of a choice: it overtakes whatever is under way. *)
Chooses(crossposts, shown) ==
  /\ wish' = crossposts /\ public' = shown
  /\ stale' = {t \in Tasks : ~crossposts /\ HasRead(t)} /\ undone' = FALSE
  /\ leftover' = {t \in Tasks : ~shown /\ ~Idle(t)} /\ reshown' = FALSE

(* History of a write that an earlier read decided, and of one that makes   *)
(* the row pending or ready.                                                 *)
WritesWhatItRead(t) == undone' = (undone \/ t \in stale) /\ stale' = stale \ {t}
Shows(t) == reshown' = (reshown \/ t \in leftover)

(* A task that begins now was not under way before. *)
Begins(t) == leftover' = leftover \ {t}

(* upsert_pending_account_link *)
UpsertPendingEnabled(enabled) ==
  /\ state' = "pending"
  /\ crosspost' = TRUE
  /\ disabled' = FALSE
  /\ UNCHANGED <<did, session>>
UpsertPending(enabled) ==
  /\ state' = "pending"
  /\ crosspost' = enabled
  /\ disabled' = FALSE
  /\ UNCHANGED <<did, session>>

(* mark_account_link_ready; crosspost_enabled and disabled_at stay. *)
MarkReady == state' = "ready" /\ did' = TRUE /\ UNCHANGED <<crosspost, disabled, session>>

(* mark_account_link_failed without a DID keeps the stored one. *)
MarkFailed == state' = "failed" /\ UNCHANGED <<did, crosspost, disabled, session>>

(* The task goes on to tell keycast, then the name server, of a state. *)
Tell(t, what) ==
  /\ stage' = [stage EXCEPT ![t] = "keycast"]
  /\ push' = [push EXCEPT ![t] = what]
  /\ answer' = [answer EXCEPT ![t] = "none"]

(* The tasks of a set are over, and with them their locals. *)
End(over) ==
  /\ stage' = [t \in Tasks |-> IF t \in over THEN "idle" ELSE stage[t]]
  /\ push' = [t \in Tasks |-> IF t \in over THEN "ready" ELSE push[t]]
  /\ answer' = [t \in Tasks |-> IF t \in over THEN "none" ELSE answer[t]]

(* ProvisionRunner::enqueue: run_once calls the bridge. *)
StartRun(t) ==
  /\ stage' = [stage EXCEPT ![t] = "calling"]
  /\ bridge' = [bridge EXCEPT ![t] = "reading"]
  /\ UNCHANGED answer

BridgeGoes(t, next) == bridge' = [bridge EXCEPT ![t] = next]

(* The bridge answers, unless the gateway has stopped listening. *)
Answers(t, what) ==
  /\ bridge' = [bridge EXCEPT ![t] = "none"]
  /\ answer' = [answer EXCEPT ![t] = IF stage[t] = "calling" /\ @ = "none" THEN what ELSE @]

--------------------------------------------------------------------------------
(* Requests to the gateway *)

(* POST opt-in: the row becomes pending and a run is spawned. *)
OptIn(t, enabled) ==
  /\ Serves(t)
  /\ UpsertPending(enabled)
  /\ StartRun(t)
  /\ Chooses(enabled, TRUE)
  /\ UNCHANGED <<pdsAccount, viewVars, gateway, push, remembered>>

(* POST disable *)
Disable(t) ==
  /\ Serves(t)
  /\ state # "absent"
  /\ state' = "disabled" /\ crosspost' = FALSE /\ disabled' = TRUE
  /\ Tell(t, "disabled")
  /\ Chooses(FALSE, FALSE)
  /\ UNCHANGED <<did, session, pdsAccount, viewVars, gateway, bridgeVars>>

(* POST enable: ready again, or pending when there never was an account; no *)
(* run is started for the latter.                                            *)
Enable(t) ==
  /\ Serves(t)
  /\ state # "absent"
  /\ crosspost' = TRUE /\ disabled' = FALSE
  /\ \/ did /\ state' = "ready" /\ Tell(t, "ready")
     \/ ~did /\ state' = "pending" /\ UNCHANGED taskVars
  /\ Chooses(TRUE, TRUE)
  /\ UNCHANGED <<did, session, pdsAccount, viewVars, gateway, bridgeVars>>

(* POST provision, by an operator: upsert_ready reads the row first, and     *)
(* takes a read that fails for a row that is absent.                         *)
ManualProvision(t) ==
  /\ Serves(t)
  /\ \/ state # "absent" /\ stage' = [stage EXCEPT ![t] = "marking"]
        /\ UNCHANGED stale
     \/ state = "absent" /\ stage' = [stage EXCEPT ![t] = "upserting"] /\ UNCHANGED stale
     \/ /\ ReadsFail /\ state # "absent" /\ stage' = [stage EXCEPT ![t] = "upserting"]
        /\ stale' = IF wish THEN stale ELSE stale \cup {t}
  /\ public' = TRUE /\ leftover' = {} /\ reshown' = FALSE
  /\ UNCHANGED <<rowVars, pdsAccount, viewVars, gateway, push, answer, bridgeVars, wish, undone>>

(* An account that exists only by the operator's word crossposts. An upsert *)
(* that fails is ignored.                                                    *)
ManualUpsert(t) ==
  /\ stage[t] = "upserting"
  /\ \/ /\ UpsertPending(TRUE) /\ wish' = (state = "absent" \/ wish)
        /\ WritesWhatItRead(t) /\ Shows(t)
     \/ stale' = stale \ {t} /\ UNCHANGED <<rowVars, wish, undone, reshown>>
  /\ stage' = [stage EXCEPT ![t] = "marking"]
  /\ UNCHANGED <<pdsAccount, viewVars, gateway, push, answer, bridgeVars, public, leftover>>

ManualMark(t) ==
  /\ stage[t] = "marking"
  /\ \/ state # "absent" /\ MarkReady /\ Shows(t) /\ Tell(t, "ready")
     \/ state = "absent" /\ End({t}) /\ UNCHANGED <<rowVars, reshown>>
  /\ UNCHANGED <<pdsAccount, viewVars, gateway, bridgeVars, wish, public, stale, undone, leftover>>

--------------------------------------------------------------------------------
(* Gateway tasks *)

(* run_once has its answer: the row first, then downstream. *)
TakeAnswer(t) ==
  /\ stage[t] = "calling"
  /\ \/ answer[t] = "ok" /\ MarkReady /\ Shows(t) /\ Tell(t, "ready")
     \/ answer[t] = "error" /\ MarkFailed /\ Tell(t, "failed") /\ UNCHANGED reshown
  /\ UNCHANGED <<pdsAccount, viewVars, gateway, bridgeVars, wish, public, stale, undone, leftover>>

SyncKeycast(t) ==
  /\ stage[t] = "keycast"
  /\ keycast' = push[t]
  /\ stage' = [stage EXCEPT ![t] = "nameServer"]
  /\ UNCHANGED <<rowVars, pdsAccount, nameServer, gateway, push, answer, bridgeVars, choiceVars>>

SyncNameServer(t) ==
  /\ stage[t] = "nameServer"
  /\ nameServer' = push[t]
  /\ End({t})
  /\ UNCHANGED <<rowVars, pdsAccount, keycast, gateway, bridgeVars, choiceVars>>

(* Any database or downstream error ends the task; nothing retries it. *)
TaskFails(t) ==
  /\ stage[t] # "idle"
  /\ End({t})
  /\ UNCHANGED <<rowVars, pdsAccount, viewVars, gateway, bridgeVars, choiceVars>>

(* The connection to the bridge breaks, and the bridge goes on. *)
LoseCall(t) ==
  /\ stage[t] = "calling" /\ answer[t] = "none"
  /\ answer' = [answer EXCEPT ![t] = "error"]
  /\ UNCHANGED <<rowVars, pdsAccount, viewVars, gateway, stage, push, bridgeVars, choiceVars>>

--------------------------------------------------------------------------------
(* The gateway's startup *)

GatewayRestarts ==
  /\ gateway' = "replay"
  /\ End(Tasks)
  /\ UNCHANGED <<rowVars, pdsAccount, viewVars, bridgeVars, choiceVars>>

(* replay_pending_from_database *)
ReplayableUnlessReady == state # "ready"
Replayable == state = "pending" /\ crosspost /\ ~disabled

Replay(t) ==
  /\ gateway = "replay" /\ Idle(t)
  /\ gateway' = "reconcile"
  /\ IF Replayable THEN StartRun(t) ELSE UNCHANGED <<stage, bridge, answer>>
  /\ Begins(t)
  /\ UNCHANGED <<rowVars, pdsAccount, viewVars, push, remembered, wish, public, stale, undone, reshown>>

(* reconcile_existing_from_database, once the replayed run is over: every    *)
(* settled state is told again.                                              *)
ReconcilesReadyOnly(s) == s = "ready"
Reconciles(s) == s \in Pushes

Reconcile(t) ==
  /\ gateway = "reconcile" /\ Idle(t)
  /\ \A u \in Tasks : stage[u] = "idle"
  /\ gateway' = "starting"
  /\ IF Reconciles(state) THEN Tell(t, state) ELSE UNCHANGED taskVars
  /\ Begins(t)
  /\ UNCHANGED <<rowVars, pdsAccount, viewVars, bridgeVars, wish, public, stale, undone, reshown>>

Serve ==
  /\ gateway = "starting"
  /\ \A u \in Tasks : stage[u] = "idle"
  /\ gateway' = "serving"
  /\ UNCHANGED <<rowVars, pdsAccount, viewVars, taskVars, bridgeVars, choiceVars>>

--------------------------------------------------------------------------------
(* The bridge: provision_account *)

(* resume_or_reject: a disabled link is refused, a ready one answered, one  *)
(* whose DID is known is marked, and any other is created anew.             *)
BridgeReads(t) ==
  /\ bridge[t] = "reading"
  /\ \/ state = "disabled" /\ Answers(t, "error") /\ UNCHANGED remembered
     \/ state = "ready" /\ Answers(t, "ok") /\ UNCHANGED remembered
     \/ state \in {"pending", "failed"} /\ did /\ BridgeGoes(t, "marking")
        /\ UNCHANGED <<answer, remembered>>
     \/ state \in {"pending", "failed"} /\ ~did /\ BridgeGoes(t, "saving")
        /\ remembered' = [remembered EXCEPT ![t] = crosspost]
        /\ UNCHANGED answer
  /\ stale' = stale \ {t}
  /\ UNCHANGED <<rowVars, pdsAccount, viewVars, gateway, stage, push, wish, public, undone, leftover,
                 reshown>>

(* create_new_link: save_pending_link writes crosspost_enabled as it was read *)
BridgeSaves(t) ==
  /\ bridge[t] = "saving"
  /\ UpsertPending(remembered[t])
  /\ remembered' = [remembered EXCEPT ![t] = FALSE]
  /\ BridgeGoes(t, "creating")
  /\ WritesWhatItRead(t) /\ Shows(t)
  /\ UNCHANGED <<pdsAccount, viewVars, gateway, taskVars, wish, public, leftover>>

(* createAccount with its retries. The PDS has one account per handle, so an *)
(* earlier attempt whose answer was lost makes the next one a conflict.      *)
CreateAccount(t) ==
  /\ bridge[t] = "creating"
  /\ \/ ~pdsAccount /\ pdsAccount' = TRUE /\ BridgeGoes(t, "storing")
     \/ pdsAccount' = TRUE /\ BridgeGoes(t, "adopting")
     \/ pdsAccount' \in {pdsAccount, TRUE} /\ BridgeGoes(t, "failing")
  /\ UNCHANGED <<rowVars, viewVars, gateway, taskVars, remembered, choiceVars>>

(* resolve_existing_did after a conflict: a DID, and no session. *)
Adopt(t) ==
  /\ bridge[t] = "adopting"
  /\ BridgeGoes(t, "marking") \/ BridgeGoes(t, "failing")
  /\ UNCHANGED <<rowVars, pdsAccount, viewVars, gateway, taskVars, remembered, choiceVars>>

(* store_pds_session, then the profile record, whose failure is ignored *)
BridgeStores(t) ==
  /\ bridge[t] = "storing"
  /\ session' = TRUE
  /\ BridgeGoes(t, "marking")
  /\ UNCHANGED <<state, did, crosspost, disabled, pdsAccount, viewVars, gateway, taskVars,
                 remembered, choiceVars>>

BridgeMarks(t) ==
  /\ bridge[t] = "marking"
  /\ MarkReady /\ Shows(t)
  /\ Answers(t, "ok")
  /\ UNCHANGED <<pdsAccount, viewVars, gateway, stage, push, remembered, wish, public, stale, undone,
                 leftover>>

BridgeFails(t) ==
  /\ bridge[t] = "failing"
  /\ MarkFailed
  /\ Answers(t, "error")
  /\ UNCHANGED <<pdsAccount, viewVars, gateway, stage, push, remembered, choiceVars>>

(* A database error or a restart of the bridge ends the call where it is. *)
BridgeAborts(t) ==
  /\ bridge[t] # "none"
  /\ Answers(t, "error")
  /\ remembered' = [remembered EXCEPT ![t] = FALSE]
  /\ UNCHANGED <<rowVars, pdsAccount, viewVars, gateway, stage, push, choiceVars>>

--------------------------------------------------------------------------------

Request(t) ==
  \/ \E enabled \in BOOLEAN : OptIn(t, enabled)
  \/ Disable(t) \/ Enable(t) \/ ManualProvision(t)

TaskStep(t) ==
  ManualUpsert(t) \/ ManualMark(t) \/ TakeAnswer(t) \/ SyncKeycast(t) \/ SyncNameServer(t)

BridgeStep(t) ==
  \/ BridgeReads(t) \/ BridgeSaves(t) \/ CreateAccount(t) \/ Adopt(t)
  \/ BridgeStores(t) \/ BridgeMarks(t) \/ BridgeFails(t)

Startup == Serve \/ \E t \in Tasks : Replay(t) \/ Reconcile(t)

Next ==
  \/ GatewayRestarts \/ Startup
  \/ \E t \in Tasks :
       Request(t) \/ TaskStep(t) \/ BridgeStep(t) \/ TaskFails(t) \/ LoseCall(t) \/ BridgeAborts(t)

Spec == Init /\ [][Next]_vars

--------------------------------------------------------------------------------
(* Safety *)

(* The bridge crossposts only for an owner whose last choice was to          *)
(* crosspost, whatever runs, lost calls, failed tasks and restarts are under *)
(* way, until a task writes what it had read before that choice, or what an *)
(* operator's provisioning could not read.                                   *)
PublishesOnlyAsWished == Publishable => wish \/ undone

(* "Confirm the disable flow ... blocks new mirrored posts": an account the *)
(* owner has disabled is not crossposted for.                                *)
DisableBlocksPosts == Publishable => public

(* "The disable->404 path is the user-facing safety contract": after the     *)
(* owner has disabled the account, the name server turns to "ready" only     *)
(* through a task that was already under way then: by what it tells, or      *)
(* because it has made the row pending or ready again. No later run, replay  *)
(* or reconciliation does it.                                                *)
TellsReady(t) == stage[t] = "nameServer" /\ push[t] = "ready" /\ stage'[t] = "idle"

StaysHidden ==
  [][nameServer # "ready" /\ nameServer' = "ready"
       => public' \/ reshown \/ \E t \in leftover : TellsReady(t)]_vars

(* The inductive invariants behind them. The row asks for crossposts only   *)
(* when they were wished, and who is about to write it has read as much.     *)
RowFollowsWish ==
  /\ crosspost => wish \/ undone
  /\ \A t \in Tasks \ stale :
       /\ bridge[t] = "saving" /\ remembered[t] => wish \/ undone
       /\ stage[t] = "upserting" => state = "absent" \/ wish

(* A task that is about to write the row itself has made no call, and of a  *)
(* row that is absent none is under way.                                     *)
CallsInOrder ==
  /\ \A t \in Tasks : stage[t] = "upserting" => bridge[t] = "none"
  /\ state = "absent" =>
       \A t \in Tasks : bridge[t] = "none" /\ stage[t] \in {"idle", "upserting", "marking"}

WishInv == TypeOK /\ RowFollowsWish /\ CallsInOrder

(* While the account is hidden, whatever may still show it was under way    *)
(* before.                                                                   *)
MayShow(t) ==
  \/ stage[t] \in {"upserting", "marking", "calling"}
  \/ stage[t] \in {"keycast", "nameServer"} /\ push[t] = "ready"
  \/ bridge[t] # "none"

ShownByLeftovers ==
  ~public /\ ~reshown =>
    /\ state \notin {"pending", "ready"}
    /\ \A t \in Tasks : MayShow(t) => t \in leftover

HiddenInv == TypeOK /\ ShownByLeftovers

--------------------------------------------------------------------------------
(* Liveness *)

(* The gateway, its tasks and their calls to the bridge go on while one of   *)
(* them can.                                                                 *)
Goes == Startup \/ \E t \in Tasks : TaskStep(t) \/ BridgeStep(t)
Fairness == WF_vars(Goes)

FairSpec == Spec /\ Fairness

(* Nothing disturbs: no requests, failing tasks or broken calls, and no       *)
(* restart but of a gateway that is at rest.                                  *)
Undisturbed == Goes \/ (gateway = "serving" /\ AllIdle /\ GatewayRestarts)

(* Keycast and the name server know the state of the row, and no account    *)
(* that is to be provisioned waits.                                          *)
Agree ==
  /\ state \in Pushes => keycast = state /\ nameServer = state
  /\ ~(state = "pending" /\ crosspost)

(* Startup reconciliation repairs every partial or overtaken update: if the *)
(* gateway restarts now and then after the disturbances, the views agree.   *)
ReconcileRepairs ==
  <>[][Undisturbed]_vars /\ []<>(gateway = "replay") => <>[]Agree
================================================================================
