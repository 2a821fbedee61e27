------------------------- MODULE AccountLifecycle_proofs -----------------------
(***************************************************************************)
(* Proofs about AccountLifecycle: the bridge crossposts only as wished and a *)
(* disabled account stays hidden, however requests, runs, failures and      *)
(* restarts fall, but for what a task that was overtaken still writes.      *)
(***************************************************************************)
EXTENDS AccountLifecycle, TLAPS

--------------------------------------------------------------------------------
(* Types *)

TaskTypes ==
  /\ stage \in [Tasks -> TaskStages]
  /\ push \in [Tasks -> Pushes]
  /\ answer \in [Tasks -> {"none", "ok", "error"}]

BridgeTypes ==
  /\ bridge \in [Tasks -> BridgeStages]
  /\ remembered \in [Tasks -> BOOLEAN]

RowTypes ==
  /\ state \in States
  /\ did \in BOOLEAN /\ crosspost \in BOOLEAN /\ disabled \in BOOLEAN /\ session \in BOOLEAN

OtherTypes ==
  /\ pdsAccount \in BOOLEAN /\ wish \in BOOLEAN /\ public \in BOOLEAN
  /\ keycast \in Pushes \cup {"none"} /\ nameServer \in Pushes \cup {"none"}
  /\ gateway \in {"replay", "reconcile", "starting", "serving"}
  /\ stale \subseteq Tasks /\ leftover \subseteq Tasks
  /\ undone \in BOOLEAN /\ reshown \in BOOLEAN

(* The type invariant is that of the row, the tasks, the bridge and the rest. *)
LEMMA TypesInParts ==
  /\ TypeOK <=> RowTypes /\ TaskTypes /\ BridgeTypes /\ OtherTypes
  /\ TypeOK' <=> RowTypes' /\ TaskTypes' /\ BridgeTypes' /\ OtherTypes'
BY DEF TypeOK, RowTypes, TaskTypes, BridgeTypes, OtherTypes

(* A task that turns to telling keycast is still well typed. *)
LEMMA TellTypes ==
  ASSUME TaskTypes, NEW t \in Tasks, NEW what \in Pushes, Tell(t, what)
  PROVE  TaskTypes'
BY DEF TaskTypes, Tell, TaskStages, Pushes

(* Tasks that are over are well typed. *)
LEMMA EndTypes ==
  ASSUME TaskTypes, NEW over, End(over)
  PROVE  TaskTypes'
<1>1. stage' \in [Tasks -> TaskStages]
  BY DEF TaskTypes, End, TaskStages
<1>2. push' \in [Tasks -> Pushes]
  BY DEF TaskTypes, End, Pushes
<1>3. answer' \in [Tasks -> {"none", "ok", "error"}]
  BY DEF TaskTypes, End
<1> QED
  BY <1>1, <1>2, <1>3 DEF TaskTypes

(* A run that starts leaves tasks and bridge well typed. *)
LEMMA StartRunTypes ==
  ASSUME TaskTypes, BridgeTypes, NEW t \in Tasks, StartRun(t), UNCHANGED <<push, remembered>>
  PROVE  TaskTypes' /\ BridgeTypes'
BY DEF TaskTypes, BridgeTypes, StartRun, TaskStages, BridgeStages

(* The bridge at its next step is well typed. *)
LEMMA BridgeGoesTypes ==
  ASSUME BridgeTypes, NEW t \in Tasks, NEW next \in BridgeStages, BridgeGoes(t, next),
         \/ UNCHANGED remembered
         \/ \E b \in BOOLEAN : remembered' = [remembered EXCEPT ![t] = b]
  PROVE  BridgeTypes'
<1>1. bridge' \in [Tasks -> BridgeStages]
  BY DEF BridgeTypes, BridgeGoes
<1>2. remembered' \in [Tasks -> BOOLEAN]
  BY DEF BridgeTypes
<1> QED
  BY <1>1, <1>2 DEF BridgeTypes

(* An answer leaves tasks and bridge well typed. *)
LEMMA AnswersTypes ==
  ASSUME TaskTypes, BridgeTypes, NEW t \in Tasks, NEW what \in {"ok", "error"},
         Answers(t, what), UNCHANGED <<stage, push>>,
         \/ UNCHANGED remembered
         \/ remembered' = [remembered EXCEPT ![t] = FALSE]
  PROVE  TaskTypes' /\ BridgeTypes'
<1>1. bridge' \in [Tasks -> BridgeStages]
  BY DEF BridgeTypes, Answers, BridgeStages
<1>2. remembered' \in [Tasks -> BOOLEAN]
  BY DEF BridgeTypes
<1>3. answer' \in [Tasks -> {"none", "ok", "error"}]
  BY DEF TaskTypes, Answers
<1>4. stage' = stage /\ push' = push
  OBVIOUS
<1> QED
  BY <1>1, <1>2, <1>3, <1>4 DEF TaskTypes, BridgeTypes

(* The first state has its types. *)
LEMMA TypeInit ==
  Init => TypeOK
<1> SUFFICES ASSUME Init PROVE TypeOK
  OBVIOUS
<1>1. RowTypes
  BY DEF Init, RowTypes, States
<1>2. TaskTypes
  BY DEF Init, TaskTypes, TaskStages, Pushes
<1>3. BridgeTypes
  BY DEF Init, BridgeTypes, BridgeStages
<1>4. OtherTypes
  BY DEF Init, OtherTypes, Pushes
<1> QED
  BY <1>1, <1>2, <1>3, <1>4, TypesInParts

(* Every step keeps the types, whenever requests arrive. *)
LEMMA TypeStep ==
  ASSUME TypeOK, [Next]_vars
  PROVE  TypeOK'
<1>0. RowTypes /\ TaskTypes /\ BridgeTypes /\ OtherTypes
  BY TypesInParts
<1> SUFFICES RowTypes' /\ TaskTypes' /\ BridgeTypes' /\ OtherTypes'
  BY TypesInParts
<1> USE <1>0
<1>1. CASE UNCHANGED vars
  BY <1>1 DEF vars, rowVars, viewVars, taskVars, bridgeVars, choiceVars, RowTypes, TaskTypes,
              BridgeTypes, OtherTypes
<1>2. CASE GatewayRestarts
  <2>1. RowTypes'
    BY <1>2 DEF GatewayRestarts, RowTypes, rowVars
  <2>2. TaskTypes'
    BY <1>2, EndTypes DEF GatewayRestarts
  <2>3. BridgeTypes'
    BY <1>2 DEF GatewayRestarts, BridgeTypes, bridgeVars
  <2>4. OtherTypes'
    BY <1>2 DEF GatewayRestarts, OtherTypes, viewVars, choiceVars
  <2> QED
    BY <2>1, <2>2, <2>3, <2>4
<1>3. CASE Startup
  <2>1. CASE Serve
    <3>1. RowTypes'
      BY <2>1 DEF Serve, RowTypes, rowVars
    <3>2. TaskTypes'
      BY <2>1 DEF Serve, TaskTypes, taskVars
    <3>3. BridgeTypes'
      BY <2>1 DEF Serve, BridgeTypes, bridgeVars
    <3>4. OtherTypes'
      BY <2>1 DEF Serve, OtherTypes, viewVars, choiceVars
    <3> QED
      BY <3>1, <3>2, <3>3, <3>4
  <2>2. ASSUME NEW t \in Tasks, Replay(t)
       PROVE  RowTypes' /\ TaskTypes' /\ BridgeTypes' /\ OtherTypes'
    <3>1. RowTypes'
      BY <2>2 DEF Replay, RowTypes, rowVars
    <3>2. TaskTypes'
      BY <2>2, StartRunTypes DEF Replay, TaskTypes
    <3>3. BridgeTypes'
      BY <2>2, StartRunTypes DEF Replay, BridgeTypes
    <3>4. OtherTypes'
      BY <2>2 DEF Replay, OtherTypes, viewVars, choiceVars, Chooses,
         WritesWhatItRead, Shows, Begins
    <3> QED
      BY <3>1, <3>2, <3>3, <3>4
  <2>3. ASSUME NEW t \in Tasks, Reconcile(t)
       PROVE  RowTypes' /\ TaskTypes' /\ BridgeTypes' /\ OtherTypes'
    <3>1. RowTypes'
      BY <2>3 DEF Reconcile, RowTypes, rowVars
    <3>2. TaskTypes'
      BY <2>3, TellTypes DEF Reconcile, Reconciles, TaskTypes, taskVars
    <3>3. BridgeTypes'
      BY <2>3 DEF Reconcile, BridgeTypes, bridgeVars
    <3>4. OtherTypes'
      BY <2>3 DEF Reconcile, OtherTypes, viewVars, choiceVars, Chooses,
         WritesWhatItRead, Shows, Begins
    <3> QED
      BY <3>1, <3>2, <3>3, <3>4
  <2> QED
    BY <1>3, <2>1, <2>2, <2>3 DEF Startup
<1>4. ASSUME NEW t \in Tasks, Request(t)
     PROVE  RowTypes' /\ TaskTypes' /\ BridgeTypes' /\ OtherTypes'
  <2>1. ASSUME NEW enabled \in BOOLEAN, OptIn(t, enabled)
       PROVE  RowTypes' /\ TaskTypes' /\ BridgeTypes' /\ OtherTypes'
    <3>1. RowTypes'
      BY <2>1 DEF OptIn, RowTypes, rowVars, UpsertPending, States
    <3>2. TaskTypes'
      BY <2>1, StartRunTypes DEF OptIn
    <3>3. BridgeTypes'
      BY <2>1, StartRunTypes DEF OptIn
    <3>4. OtherTypes'
      BY <2>1 DEF OptIn, OtherTypes, viewVars, choiceVars, Chooses,
         WritesWhatItRead, Shows, Begins
    <3> QED
      BY <3>1, <3>2, <3>3, <3>4
  <2>2. CASE Disable(t)
    <3>1. RowTypes'
      BY <2>2 DEF Disable, RowTypes, rowVars, States
    <3>2. TaskTypes'
      BY <2>2, TellTypes DEF Disable, Pushes
    <3>3. BridgeTypes'
      BY <2>2 DEF Disable, BridgeTypes, bridgeVars
    <3>4. OtherTypes'
      BY <2>2 DEF Disable, OtherTypes, viewVars, choiceVars, Chooses,
         WritesWhatItRead, Shows, Begins
    <3> QED
      BY <3>1, <3>2, <3>3, <3>4
  <2>3. CASE Enable(t)
    <3>1. RowTypes'
      BY <2>3 DEF Enable, RowTypes, rowVars, States
    <3>2. TaskTypes'
      BY <2>3, TellTypes DEF Enable, Pushes, TaskTypes, taskVars
    <3>3. BridgeTypes'
      BY <2>3 DEF Enable, BridgeTypes, bridgeVars
    <3>4. OtherTypes'
      BY <2>3 DEF Enable, OtherTypes, viewVars, choiceVars, Chooses,
         WritesWhatItRead, Shows, Begins
    <3> QED
      BY <3>1, <3>2, <3>3, <3>4
  <2>4. CASE ManualProvision(t)
    <3>1. RowTypes'
      BY <2>4 DEF ManualProvision, RowTypes, rowVars
    <3>2. TaskTypes'
      BY <2>4 DEF ManualProvision, TaskTypes, taskVars, TaskStages
    <3>3. BridgeTypes'
      BY <2>4 DEF ManualProvision, BridgeTypes, bridgeVars
    <3>4. OtherTypes'
      BY <2>4 DEF ManualProvision, OtherTypes, viewVars, choiceVars, Chooses,
         WritesWhatItRead, Shows, Begins
    <3> QED
      BY <3>1, <3>2, <3>3, <3>4
  <2> QED
    BY <1>4, <2>1, <2>2, <2>3, <2>4 DEF Request
<1>5. ASSUME NEW t \in Tasks, TaskStep(t)
     PROVE  RowTypes' /\ TaskTypes' /\ BridgeTypes' /\ OtherTypes'
  <2>1. CASE ManualUpsert(t)
    <3>1. RowTypes'
      BY <2>1 DEF ManualUpsert, RowTypes, rowVars, UpsertPending, States
    <3>2. TaskTypes'
      BY <2>1 DEF ManualUpsert, TaskTypes, taskVars, TaskStages
    <3>3. BridgeTypes'
      BY <2>1 DEF ManualUpsert, BridgeTypes, bridgeVars
    <3>4. OtherTypes'
      BY <2>1 DEF ManualUpsert, OtherTypes, viewVars, choiceVars, Chooses,
         WritesWhatItRead, Shows, Begins, UpsertPending
    <3> QED
      BY <3>1, <3>2, <3>3, <3>4
  <2>2. CASE ManualMark(t)
    <3>1. RowTypes'
      BY <2>2 DEF ManualMark, RowTypes, rowVars, MarkReady, States
    <3>2. TaskTypes'
      BY <2>2, TellTypes, EndTypes DEF ManualMark, Pushes
    <3>3. BridgeTypes'
      BY <2>2 DEF ManualMark, BridgeTypes, bridgeVars
    <3>4. OtherTypes'
      BY <2>2 DEF ManualMark, OtherTypes, viewVars, choiceVars, Chooses,
         WritesWhatItRead, Shows, Begins
    <3> QED
      BY <3>1, <3>2, <3>3, <3>4
  <2>3. CASE TakeAnswer(t)
    <3>1. RowTypes'
      BY <2>3 DEF TakeAnswer, RowTypes, rowVars, MarkReady, MarkFailed, States
    <3>2. TaskTypes'
      BY <2>3, TellTypes DEF TakeAnswer, Pushes
    <3>3. BridgeTypes'
      BY <2>3 DEF TakeAnswer, BridgeTypes, bridgeVars
    <3>4. OtherTypes'
      BY <2>3 DEF TakeAnswer, OtherTypes, viewVars, choiceVars, Chooses,
         WritesWhatItRead, Shows, Begins
    <3> QED
      BY <3>1, <3>2, <3>3, <3>4
  <2>4. CASE SyncKeycast(t)
    <3>1. RowTypes'
      BY <2>4 DEF SyncKeycast, RowTypes, rowVars
    <3>2. TaskTypes'
      BY <2>4 DEF SyncKeycast, TaskTypes, taskVars, TaskStages
    <3>3. BridgeTypes'
      BY <2>4 DEF SyncKeycast, BridgeTypes, bridgeVars
    <3>4. OtherTypes'
      BY <2>4 DEF SyncKeycast, OtherTypes, viewVars, choiceVars, TaskTypes
    <3> QED
      BY <3>1, <3>2, <3>3, <3>4
  <2>5. CASE SyncNameServer(t)
    <3>1. RowTypes'
      BY <2>5 DEF SyncNameServer, RowTypes, rowVars
    <3>2. TaskTypes'
      BY <2>5, EndTypes DEF SyncNameServer
    <3>3. BridgeTypes'
      BY <2>5 DEF SyncNameServer, BridgeTypes, bridgeVars
    <3>4. OtherTypes'
      BY <2>5 DEF SyncNameServer, OtherTypes, viewVars, choiceVars, TaskTypes
    <3> QED
      BY <3>1, <3>2, <3>3, <3>4
  <2> QED
    BY <1>5, <2>1, <2>2, <2>3, <2>4, <2>5 DEF TaskStep
<1>6. ASSUME NEW t \in Tasks, BridgeStep(t)
     PROVE  RowTypes' /\ TaskTypes' /\ BridgeTypes' /\ OtherTypes'
  <2>1. CASE BridgeReads(t)
    <3>1. RowTypes'
      BY <2>1 DEF BridgeReads, RowTypes, rowVars
    <3>2. TaskTypes'
      BY <2>1, AnswersTypes DEF BridgeReads, TaskTypes
    <3>3. BridgeTypes'
      BY <2>1, AnswersTypes, BridgeGoesTypes DEF BridgeReads, BridgeStages, RowTypes
    <3>4. OtherTypes'
      BY <2>1 DEF BridgeReads, OtherTypes, viewVars, choiceVars, Chooses,
         WritesWhatItRead, Shows, Begins
    <3> QED
      BY <3>1, <3>2, <3>3, <3>4
  <2>2. CASE BridgeSaves(t)
    <3>1. RowTypes'
      BY <2>2 DEF BridgeSaves, RowTypes, rowVars, UpsertPending, States, BridgeTypes
    <3>2. TaskTypes'
      BY <2>2 DEF BridgeSaves, TaskTypes, taskVars
    <3>3. BridgeTypes'
      BY <2>2, BridgeGoesTypes DEF BridgeSaves, BridgeStages
    <3>4. OtherTypes'
      BY <2>2 DEF BridgeSaves, OtherTypes, viewVars, choiceVars, Chooses,
         WritesWhatItRead, Shows, Begins
    <3> QED
      BY <3>1, <3>2, <3>3, <3>4
  <2>3. CASE CreateAccount(t)
    <3>1. RowTypes'
      BY <2>3 DEF CreateAccount, RowTypes, rowVars
    <3>2. TaskTypes'
      BY <2>3 DEF CreateAccount, TaskTypes, taskVars
    <3>3. BridgeTypes'
      BY <2>3, BridgeGoesTypes DEF CreateAccount, BridgeStages
    <3>4. OtherTypes'
      BY <2>3 DEF CreateAccount, OtherTypes, viewVars, choiceVars
    <3> QED
      BY <3>1, <3>2, <3>3, <3>4
  <2>4. CASE Adopt(t)
    <3>1. RowTypes'
      BY <2>4 DEF Adopt, RowTypes, rowVars
    <3>2. TaskTypes'
      BY <2>4 DEF Adopt, TaskTypes, taskVars
    <3>3. BridgeTypes'
      BY <2>4, BridgeGoesTypes DEF Adopt, BridgeStages
    <3>4. OtherTypes'
      BY <2>4 DEF Adopt, OtherTypes, viewVars, choiceVars
    <3> QED
      BY <3>1, <3>2, <3>3, <3>4
  <2>5. CASE BridgeStores(t)
    <3>1. RowTypes'
      BY <2>5 DEF BridgeStores, RowTypes, rowVars
    <3>2. TaskTypes'
      BY <2>5 DEF BridgeStores, TaskTypes, taskVars
    <3>3. BridgeTypes'
      BY <2>5, BridgeGoesTypes DEF BridgeStores, BridgeStages
    <3>4. OtherTypes'
      BY <2>5 DEF BridgeStores, OtherTypes, viewVars, choiceVars
    <3> QED
      BY <3>1, <3>2, <3>3, <3>4
  <2>6. CASE BridgeMarks(t)
    <3>1. RowTypes'
      BY <2>6 DEF BridgeMarks, RowTypes, rowVars, MarkReady, States
    <3>2. TaskTypes'
      BY <2>6, AnswersTypes DEF BridgeMarks
    <3>3. BridgeTypes'
      BY <2>6, AnswersTypes DEF BridgeMarks
    <3>4. OtherTypes'
      BY <2>6 DEF BridgeMarks, OtherTypes, viewVars, choiceVars, Chooses,
         WritesWhatItRead, Shows, Begins
    <3> QED
      BY <3>1, <3>2, <3>3, <3>4
  <2>7. CASE BridgeFails(t)
    <3>1. RowTypes'
      BY <2>7 DEF BridgeFails, RowTypes, rowVars, MarkFailed, States
    <3>2. TaskTypes'
      BY <2>7, AnswersTypes DEF BridgeFails
    <3>3. BridgeTypes'
      BY <2>7, AnswersTypes DEF BridgeFails
    <3>4. OtherTypes'
      BY <2>7 DEF BridgeFails, OtherTypes, viewVars, choiceVars
    <3> QED
      BY <3>1, <3>2, <3>3, <3>4
  <2> QED
    BY <1>6, <2>1, <2>2, <2>3, <2>4, <2>5, <2>6, <2>7 DEF BridgeStep
<1>7. ASSUME NEW t \in Tasks, TaskFails(t) \/ LoseCall(t) \/ BridgeAborts(t)
     PROVE  RowTypes' /\ TaskTypes' /\ BridgeTypes' /\ OtherTypes'
  <2>1. CASE TaskFails(t)
    <3>1. RowTypes'
      BY <2>1 DEF TaskFails, RowTypes, rowVars
    <3>2. TaskTypes'
      BY <2>1, EndTypes DEF TaskFails
    <3>3. BridgeTypes'
      BY <2>1 DEF TaskFails, BridgeTypes, bridgeVars
    <3>4. OtherTypes'
      BY <2>1 DEF TaskFails, OtherTypes, viewVars, choiceVars
    <3> QED
      BY <3>1, <3>2, <3>3, <3>4
  <2>2. CASE LoseCall(t)
    <3>1. RowTypes'
      BY <2>2 DEF LoseCall, RowTypes, rowVars
    <3>2. TaskTypes'
      BY <2>2 DEF LoseCall, TaskTypes, taskVars
    <3>3. BridgeTypes'
      BY <2>2 DEF LoseCall, BridgeTypes, bridgeVars
    <3>4. OtherTypes'
      BY <2>2 DEF LoseCall, OtherTypes, viewVars, choiceVars
    <3> QED
      BY <3>1, <3>2, <3>3, <3>4
  <2>3. CASE BridgeAborts(t)
    <3>1. RowTypes'
      BY <2>3 DEF BridgeAborts, RowTypes, rowVars
    <3>2. TaskTypes'
      BY <2>3, AnswersTypes DEF BridgeAborts
    <3>3. BridgeTypes'
      BY <2>3, AnswersTypes DEF BridgeAborts
    <3>4. OtherTypes'
      BY <2>3 DEF BridgeAborts, OtherTypes, viewVars, choiceVars
    <3> QED
      BY <3>1, <3>2, <3>3, <3>4
  <2> QED
    BY <1>7, <2>1, <2>2, <2>3
<1> QED
  BY <1>1, <1>2, <1>3, <1>4, <1>5, <1>6, <1>7 DEF Next

(* Every variable of the lifecycle keeps its type. *)
THEOREM LifecycleTypes == Spec => []TypeOK
BY TypeInit, TypeStep, PTL DEF Spec

--------------------------------------------------------------------------------
(* The row follows the wish *)

WishFacts == RowFollowsWish /\ CallsInOrder

(* The first state has nobody under way. *)
LEMMA WishInit ==
  Init => WishInv
<1> SUFFICES ASSUME Init PROVE WishInv
  OBVIOUS
<1>1. TypeOK
  BY TypeInit
<1>2. RowFollowsWish
  BY DEF Init, RowFollowsWish
<1>3. CallsInOrder
  BY DEF Init, CallsInOrder
<1> QED
  BY <1>1, <1>2, <1>3 DEF WishInv

(* A choice writes the row as wished, and marks stale whoever is about to   *)
(* write what it read before.                                                *)
LEMMA WishRequest ==
  ASSUME WishInv, NEW t \in Tasks, Request(t)
  PROVE  WishFacts'
<1> USE DEF WishInv, WishFacts, RowFollowsWish, CallsInOrder, TypeOK, TaskStages, BridgeStages,
            taskVars, bridgeVars, rowVars
<1>1. ASSUME NEW enabled \in BOOLEAN, OptIn(t, enabled) PROVE WishFacts'
  <2>1. RowFollowsWish'
    BY <1>1 DEF OptIn, UpsertPending, StartRun, Chooses, HasRead, Serves, Idle
  <2>2. CallsInOrder'
    BY <1>1 DEF OptIn, UpsertPending, StartRun, Serves, Idle
  <2> QED
    BY <2>1, <2>2
<1>2. CASE Disable(t)
  <2>1. RowFollowsWish'
    BY <1>2 DEF Disable, Tell, Chooses, HasRead, Serves, Idle
  <2>2. CallsInOrder'
    BY <1>2 DEF Disable, Tell
  <2> QED
    BY <2>1, <2>2
<1>3. CASE Enable(t)
  <2>1. RowFollowsWish'
    BY <1>3 DEF Enable, Chooses
  <2>2. CallsInOrder'
    BY <1>3 DEF Enable, Tell
  <2> QED
    BY <2>1, <2>2
<1>4. CASE ManualProvision(t)
  <2>1. RowFollowsWish'
    BY <1>4 DEF ManualProvision
  <2>2. CallsInOrder'
    BY <1>4 DEF ManualProvision, Serves, Idle
  <2> QED
    BY <2>1, <2>2
<1> QED
  BY <1>1, <1>2, <1>3, <1>4 DEF Request

(* A step of a task writes what was wished, unless the task is stale. *)
LEMMA WishTask ==
  ASSUME WishInv, NEW t \in Tasks, TaskStep(t)
  PROVE  WishFacts'
<1> USE DEF WishInv, WishFacts, RowFollowsWish, CallsInOrder, TypeOK, TaskStages, BridgeStages,
            taskVars, bridgeVars, rowVars, choiceVars
<1>1. CASE ManualUpsert(t)
  <2>0. /\ stale' = stale \ {t} /\ stage' = [stage EXCEPT ![t] = "marking"]
        /\ bridge' = bridge /\ remembered' = remembered
    BY <1>1 DEF ManualUpsert, WritesWhatItRead
  <2>1. RowFollowsWish'
    <3>1. CASE UNCHANGED <<rowVars, wish, undone>>
      <4>1. ASSUME NEW u \in Tasks \ stale'
            PROVE  /\ bridge'[u] = "saving" /\ remembered'[u] => wish' \/ undone'
                   /\ stage'[u] = "upserting" => state' = "absent" \/ wish'
        <5>1. CASE u = t
          BY <1>1, <2>0, <3>1, <5>1 DEF ManualUpsert
        <5>2. CASE u # t
          BY <2>0, <3>1, <5>2
        <5> QED
          BY <5>1, <5>2
      <4> QED
        BY <3>1, <4>1
    <3>2. CASE UpsertPending(TRUE) /\ wish' = (state = "absent" \/ wish) /\ WritesWhatItRead(t)
      <4>1. state' # "absent" /\ crosspost' = TRUE
        BY <3>2 DEF UpsertPending
      <4>2. wish => wish'
        BY <3>2
      <4>3. undone => undone'
        BY <3>2 DEF WritesWhatItRead
      <4>4. state = "absent" => wish'
        BY <3>2
      <4>5. t \in stale => undone'
        BY <3>2 DEF WritesWhatItRead
      <4>6. t \notin stale => wish'
        BY <1>1, <4>2, <4>4 DEF ManualUpsert
      <4>7. ASSUME NEW u \in Tasks \ stale'
            PROVE  /\ bridge'[u] = "saving" /\ remembered'[u] => wish' \/ undone'
                   /\ stage'[u] = "upserting" => state' = "absent" \/ wish'
        <5>1. CASE u = t
          BY <1>1, <2>0, <4>5, <4>6, <5>1 DEF ManualUpsert
        <5>2. CASE u # t
          BY <2>0, <4>2, <4>3, <4>4, <5>2
        <5> QED
          BY <5>1, <5>2
      <4> QED
        BY <4>1, <4>5, <4>6, <4>7
    <3> QED
      BY <1>1, <3>1, <3>2 DEF ManualUpsert
  <2>2. CallsInOrder'
    BY <1>1 DEF ManualUpsert, UpsertPending
  <2> QED
    BY <2>1, <2>2
<1>2. CASE ManualMark(t)
  BY <1>2 DEF ManualMark, MarkReady, Tell, End
<1>3. CASE TakeAnswer(t)
  BY <1>3 DEF TakeAnswer, MarkReady, MarkFailed, Tell
<1>4. CASE SyncKeycast(t)
  BY <1>4 DEF SyncKeycast
<1>5. CASE SyncNameServer(t)
  BY <1>5 DEF SyncNameServer, End
<1> QED
  BY <1>1, <1>2, <1>3, <1>4, <1>5 DEF TaskStep

(* So does a step of the bridge. *)
LEMMA WishBridge ==
  ASSUME WishInv, NEW t \in Tasks, BridgeStep(t)
  PROVE  WishFacts'
<1> USE DEF WishInv, WishFacts, RowFollowsWish, CallsInOrder, TypeOK, TaskStages, BridgeStages,
            taskVars, bridgeVars, rowVars, choiceVars, BridgeGoes, Answers
<1>1. CASE BridgeReads(t)
  <2>0. stage[t] # "upserting"
    BY <1>1 DEF BridgeReads
  <2>1. RowFollowsWish'
    <3>1. /\ stale' = stale \ {t} /\ UNCHANGED <<rowVars, stage, wish, undone>>
          /\ \A u \in Tasks \ {t} : bridge'[u] = bridge[u] /\ remembered'[u] = remembered[u]
      BY <1>1 DEF BridgeReads
    <3>2. bridge'[t] = "saving" => remembered'[t] = crosspost
      BY <1>1 DEF BridgeReads
    <3>3. ASSUME NEW u \in Tasks \ stale'
          PROVE  /\ bridge'[u] = "saving" /\ remembered'[u] => wish' \/ undone'
                 /\ stage'[u] = "upserting" => state' = "absent" \/ wish'
      <4>1. CASE u = t
        BY <2>0, <3>1, <3>2, <4>1
      <4>2. CASE u # t
        BY <3>1, <4>2
      <4> QED
        BY <4>1, <4>2
    <3> QED
      BY <3>1, <3>3
  <2>2. CallsInOrder'
    BY <1>1 DEF BridgeReads
  <2> QED
    BY <2>1, <2>2
<1>2. CASE BridgeSaves(t)
  <2>1. state # "absent"
    BY <1>2 DEF BridgeSaves
  <2>2. RowFollowsWish'
    <3>1. /\ stale' = stale \ {t} /\ UNCHANGED <<stage, wish>>
          /\ crosspost' = remembered[t] /\ state' = "pending"
          /\ remembered' = [remembered EXCEPT ![t] = FALSE]
          /\ bridge' = [bridge EXCEPT ![t] = "creating"]
          /\ stage[t] # "upserting"
      BY <1>2 DEF BridgeSaves, UpsertPending, WritesWhatItRead
    <3>2. undone => undone'
      BY <1>2 DEF BridgeSaves, WritesWhatItRead
    <3>3. t \in stale => undone'
      BY <1>2 DEF BridgeSaves, WritesWhatItRead
    <3>4. remembered[t] => wish \/ undone \/ t \in stale
      BY <1>2 DEF BridgeSaves
    <3>5. ASSUME NEW u \in Tasks \ stale'
          PROVE  /\ bridge'[u] = "saving" /\ remembered'[u] => wish' \/ undone'
                 /\ stage'[u] = "upserting" => state' = "absent" \/ wish'
      <4>1. CASE u = t
        BY <3>1, <4>1
      <4>2. CASE u # t
        BY <2>1, <3>1, <3>2, <4>2
      <4> QED
        BY <4>1, <4>2
    <3> QED
      BY <3>1, <3>2, <3>3, <3>4, <3>5
  <2>3. CallsInOrder'
    BY <1>2 DEF BridgeSaves, UpsertPending
  <2> QED
    BY <2>2, <2>3
<1>3. CASE CreateAccount(t)
  BY <1>3 DEF CreateAccount
<1>4. CASE Adopt(t)
  BY <1>4 DEF Adopt
<1>5. CASE BridgeStores(t)
  BY <1>5 DEF BridgeStores
<1>6. CASE BridgeMarks(t)
  BY <1>6 DEF BridgeMarks, MarkReady
<1>7. CASE BridgeFails(t)
  BY <1>7 DEF BridgeFails, MarkFailed
<1> QED
  BY <1>1, <1>2, <1>3, <1>4, <1>5, <1>6, <1>7 DEF BridgeStep

(* So do restarts, startup, failing tasks, broken calls and idle steps. *)
LEMMA WishDisturbed ==
  ASSUME WishInv,
         \/ UNCHANGED vars
         \/ GatewayRestarts
         \/ Startup
         \/ \E t \in Tasks : TaskFails(t) \/ LoseCall(t) \/ BridgeAborts(t)
  PROVE  WishFacts'
<1> USE DEF WishInv, WishFacts, RowFollowsWish, CallsInOrder, TypeOK, TaskStages, BridgeStages,
            taskVars, bridgeVars, rowVars, choiceVars
<1>1. CASE UNCHANGED vars
  BY <1>1 DEF vars
<1>2. CASE GatewayRestarts
  BY <1>2 DEF GatewayRestarts, End
<1>3. CASE Serve
  BY <1>3 DEF Serve
<1>4. ASSUME NEW t \in Tasks, Replay(t) PROVE WishFacts'
  BY <1>4 DEF Replay, Replayable, StartRun
<1>5. ASSUME NEW t \in Tasks, Reconcile(t) PROVE WishFacts'
  BY <1>5 DEF Reconcile, Reconciles, Pushes, Tell
<1>6. ASSUME NEW t \in Tasks, TaskFails(t) PROVE WishFacts'
  BY <1>6 DEF TaskFails, End
<1>7. ASSUME NEW t \in Tasks, LoseCall(t) PROVE WishFacts'
  BY <1>7 DEF LoseCall
<1>8. ASSUME NEW t \in Tasks, BridgeAborts(t) PROVE WishFacts'
  BY <1>8 DEF BridgeAborts, Answers
<1> QED
  BY <1>1, <1>2, <1>3, <1>4, <1>5, <1>6, <1>7, <1>8 DEF Startup

(* However requests, runs, failures and restarts fall, the bridge crossposts *)
(* only as the owner last wished, until a task writes what it read before    *)
(* that wish or could not read: the race of the bridge's save with a disable *)
(* is the only one of its kind.                                              *)
THEOREM WishHolds ==
  Spec => []WishInv /\ []PublishesOnlyAsWished
<1>1. ASSUME WishInv, [Next]_vars PROVE WishInv'
  <2>1. TypeOK'
    BY <1>1, TypeStep DEF WishInv
  <2>2. WishFacts'
    BY <1>1, WishRequest, WishTask, WishBridge, WishDisturbed DEF Next
  <2> QED
    BY <2>1, <2>2 DEF WishInv, WishFacts
<1>2. WishInv => PublishesOnlyAsWished
  BY DEF WishInv, RowFollowsWish, PublishesOnlyAsWished, Publishable
<1> QED
  BY WishInit, <1>1, <1>2, PTL DEF Spec

--------------------------------------------------------------------------------
(* A disabled account stays hidden *)

(* At first nothing shows. *)
LEMMA HiddenInit ==
  Init => HiddenInv
<1> SUFFICES ASSUME Init PROVE HiddenInv
  OBVIOUS
<1>1. TypeOK
  BY TypeInit
<1> QED
  BY <1>1 DEF Init, HiddenInv, ShownByLeftovers, MayShow

(* A request that shows the account hides nothing; a disable leaves behind  *)
(* exactly the tasks that are under way.                                     *)
LEMMA HiddenRequest ==
  ASSUME HiddenInv, NEW t \in Tasks, Request(t)
  PROVE  ShownByLeftovers'
<1> USE DEF HiddenInv, ShownByLeftovers, MayShow, TypeOK
<1>1. ASSUME NEW enabled \in BOOLEAN, OptIn(t, enabled) PROVE ShownByLeftovers'
  BY <1>1 DEF OptIn, Chooses
<1>2. CASE Disable(t)
  <2>1. state' = "disabled"
    BY <1>2 DEF Disable
  <2>2. ASSUME NEW u \in Tasks, MayShow(u)' PROVE u \in leftover'
    <3>1. u # t
      BY <1>2, <2>2 DEF Disable, Tell, Serves, Idle, bridgeVars
    <3>2. ~Idle(u)
      BY <1>2, <2>2, <3>1 DEF Disable, Tell, Idle, bridgeVars
    <3> QED
      BY <1>2, <3>2 DEF Disable, Chooses
  <2> QED
    BY <2>1, <2>2
<1>3. CASE Enable(t)
  BY <1>3 DEF Enable, Chooses
<1>4. CASE ManualProvision(t)
  BY <1>4 DEF ManualProvision
<1> QED
  BY <1>1, <1>2, <1>3, <1>4 DEF Request

(* A task that shows the account was left over, and is then on record. *)
LEMMA HiddenTask ==
  ASSUME HiddenInv, NEW t \in Tasks, TaskStep(t)
  PROVE  ShownByLeftovers'
<1> USE DEF HiddenInv, ShownByLeftovers, MayShow, TypeOK, TaskStages, BridgeStages, Pushes, taskVars,
            bridgeVars, rowVars, choiceVars, Shows
<1>1. CASE ManualUpsert(t)
  BY <1>1 DEF ManualUpsert, UpsertPending
<1>2. CASE ManualMark(t)
  <2>1. CASE state = "absent"
    BY <1>2, <2>1 DEF ManualMark, End
  <2>2. CASE state # "absent"
    <3>1. public \/ reshown \/ t \in leftover
      BY <1>2 DEF ManualMark
    <3>2. public' \/ reshown'
      BY <1>2, <2>2, <3>1 DEF ManualMark
    <3> QED
      BY <3>2
  <2> QED
    BY <2>1, <2>2
<1>3. CASE TakeAnswer(t)
  BY <1>3 DEF TakeAnswer, MarkReady, MarkFailed, Tell
<1>4. CASE SyncKeycast(t)
  BY <1>4 DEF SyncKeycast
<1>5. CASE SyncNameServer(t)
  BY <1>5 DEF SyncNameServer, End
<1> QED
  BY <1>1, <1>2, <1>3, <1>4, <1>5 DEF TaskStep

(* So does the bridge in a call that was left over. *)
LEMMA HiddenBridge ==
  ASSUME HiddenInv, NEW t \in Tasks, BridgeStep(t)
  PROVE  ShownByLeftovers'
<1> USE DEF HiddenInv, ShownByLeftovers, MayShow, TypeOK, TaskStages, BridgeStages, taskVars, bridgeVars,
            rowVars, choiceVars, BridgeGoes, Answers, Shows
<1>1. CASE BridgeReads(t)
  BY <1>1 DEF BridgeReads
<1>2. CASE BridgeSaves(t)
  BY <1>2 DEF BridgeSaves, UpsertPending
<1>3. CASE CreateAccount(t)
  BY <1>3 DEF CreateAccount
<1>4. CASE Adopt(t)
  BY <1>4 DEF Adopt
<1>5. CASE BridgeStores(t)
  BY <1>5 DEF BridgeStores
<1>6. CASE BridgeMarks(t)
  BY <1>6 DEF BridgeMarks, MarkReady
<1>7. CASE BridgeFails(t)
  BY <1>7 DEF BridgeFails, MarkFailed
<1> QED
  BY <1>1, <1>2, <1>3, <1>4, <1>5, <1>6, <1>7 DEF BridgeStep

(* Restarts and startup start only what the row still asks for. *)
LEMMA HiddenDisturbed ==
  ASSUME HiddenInv,
         \/ UNCHANGED vars
         \/ GatewayRestarts
         \/ Startup
         \/ \E t \in Tasks : TaskFails(t) \/ LoseCall(t) \/ BridgeAborts(t)
  PROVE  ShownByLeftovers'
<1> USE DEF HiddenInv, ShownByLeftovers, MayShow, TypeOK, TaskStages, BridgeStages, Pushes, taskVars,
            bridgeVars, rowVars, choiceVars
<1>1. CASE UNCHANGED vars
  BY <1>1 DEF vars
<1>2. CASE GatewayRestarts
  BY <1>2 DEF GatewayRestarts, End
<1>3. CASE Serve
  BY <1>3 DEF Serve
<1>4. ASSUME NEW t \in Tasks, Replay(t) PROVE ShownByLeftovers'
  BY <1>4 DEF Replay, Replayable, StartRun, Begins, Idle
<1>5. ASSUME NEW t \in Tasks, Reconcile(t) PROVE ShownByLeftovers'
  BY <1>5 DEF Reconcile, Reconciles, Tell, Begins, Idle
<1>6. ASSUME NEW t \in Tasks, TaskFails(t) PROVE ShownByLeftovers'
  BY <1>6 DEF TaskFails, End
<1>7. ASSUME NEW t \in Tasks, LoseCall(t) PROVE ShownByLeftovers'
  BY <1>7 DEF LoseCall
<1>8. ASSUME NEW t \in Tasks, BridgeAborts(t) PROVE ShownByLeftovers'
  BY <1>8 DEF BridgeAborts, Answers
<1> QED
  BY <1>1, <1>2, <1>3, <1>4, <1>5, <1>6, <1>7, <1>8 DEF Startup

(* The name server turns to "ready" only by a task that shows an account. *)
LEMMA ShownByWish ==
  ASSUME HiddenInv, [Next]_vars, nameServer # "ready", nameServer' = "ready"
  PROVE  public' \/ reshown \/ \E t \in leftover : TellsReady(t)
<1> USE DEF viewVars
<1>1. PICK t \in Tasks : SyncNameServer(t)
  BY DEF Next, vars, GatewayRestarts, Startup, Serve, Replay, Reconcile, Request, OptIn, Disable,
         Enable, ManualProvision, TaskStep, ManualUpsert, ManualMark, TakeAnswer, SyncKeycast,
         BridgeStep, BridgeReads, BridgeSaves, CreateAccount, Adopt, BridgeStores, BridgeMarks,
         BridgeFails, TaskFails, LoseCall, BridgeAborts
<1>2. TellsReady(t)
  BY <1>1 DEF SyncNameServer, TellsReady, End
<1>3. public' \/ reshown \/ t \in leftover
  BY <1>1, <1>2 DEF SyncNameServer, HiddenInv, ShownByLeftovers, MayShow, TellsReady, choiceVars
<1> QED
  BY <1>2, <1>3

(* However requests, runs, failures and restarts fall, after a disable the  *)
(* name server turns to "ready" only through a task that was already under  *)
(* way: neither a later run nor a replay nor a reconciliation does it.       *)
THEOREM HiddenHolds ==
  Spec => []HiddenInv /\ StaysHidden
<1>1. ASSUME HiddenInv, [Next]_vars PROVE HiddenInv'
  <2>1. TypeOK'
    BY <1>1, TypeStep DEF HiddenInv
  <2>2. ShownByLeftovers'
    BY <1>1, HiddenRequest, HiddenTask, HiddenBridge, HiddenDisturbed DEF Next
  <2> QED
    BY <2>1, <2>2 DEF HiddenInv
<1>2. ASSUME HiddenInv, [Next]_vars
      PROVE  [nameServer # "ready" /\ nameServer' = "ready"
                => public' \/ reshown \/ \E t \in leftover : TellsReady(t)]_vars
  BY <1>2, ShownByWish
<1> QED
  BY HiddenInit, <1>1, <1>2, PTL DEF Spec, StaysHidden

================================================================================
