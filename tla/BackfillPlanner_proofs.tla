------------------------- MODULE BackfillPlanner_proofs ------------------------
(***************************************************************************)
(* Theorems of BackfillPlanner: what a completed replay has left in the    *)
(* queue, and in which order the backlog is claimed, for any accounts,     *)
(* histories, planners and limits.                                         *)
(***************************************************************************)
EXTENDS BackfillPlanner, TLAPS

(* The relay's answer holds events of the account only. *)
LEMMA WindowOfAuthor ==
  \A a \in Accounts : Window(a) \subseteq {e \in Events : Author[e] = a}
BY DEF Window

(* A row that is not absent stays so, a final row stays as it is or turns    *)
(* skipped, and a skipped event is never forgotten.                          *)
Kept ==
  /\ \A v \in Videos : row[v] # "absent" => row'[v] # "absent"
  /\ \A v \in Videos : row[v] \in Final => row'[v] \in {row[v], "skipped"}
  /\ \A a \in Accounts : missed[a] => missed'[a]

LEMMA ReplayedKept ==
  ASSUME Kept, NEW e \in Events, Replayed(e)
  PROVE  Replayed(e)'
<1>1. CASE e \in Videos
  BY <1>1 DEF Replayed, Kept
<1>2. CASE e \notin Videos
  <2>1. Target[e] \in Videos /\ row[Target[e]] \in Final
    BY <1>2, BackfillAssumption DEF Replayed, Events
  <2>2. QED
    BY <1>2, <2>1 DEF Replayed, Kept, Final
<1>3. QED
  BY <1>1, <1>2

(* No step forgets. *)
LEMMA StepKeeps ==
  ASSUME TypeOK, [Next]_vars
  PROVE  Kept
<1>0. CASE \E p \in Planners, e \in Events : SkipNotOptedIn(p, e)
  BY <1>0 DEF SkipNotOptedIn, Kept, TypeOK
<1>1. CASE UNCHANGED <<row, missed>>
  BY <1>1 DEF Kept
<1>2. CASE \E p \in Planners, v \in Videos : Write(p, v)
  BY <1>2 DEF Write, Kept, Inserted, Final, TypeOK
<1>3. CASE \E v \in Videos : Claim(v)
  BY <1>3 DEF Claim, Claimable, Kept, Final, TypeOK
<1>4. CASE \E v \in Videos : Finalize(v)
  BY <1>4 DEF Finalize, Kept, Final, TypeOK
<1>5. CASE \E p \in Planners, d \in Deletes : CancelWrite(p, d)
  <2>1. PICK d \in Deletes : Target[d] \in Videos /\ row' = [row EXCEPT ![Target[d]] = "skipped"]
                           /\ missed' = missed
    BY <1>5, BackfillAssumption DEF CancelWrite
  <2>2. QED
    BY <2>1 DEF Kept, TypeOK
<1>6. QED
  BY <1>0, <1>1, <1>2, <1>3, <1>4, <1>5
     DEF Next, Step, Fault, Environment, vars, List, Start, StartFails, EndOfList, Collect,
         Prepare, CancelRead, MarkCompleted, ReplayFails, RunEnds, SwitchEligible

(* A cancellation goes on to its second statement when the row it read was  *)
(* not final.                                                                *)
LEMMA CancelReads ==
  ASSUME TypeOK, NEW p \in Planners, NEW d \in Deletes, CancelRead(p, d)
  PROVE  /\ wasFinal' = wasFinal \/ wasFinal' = [wasFinal EXCEPT ![p] = FALSE]
         /\ stage'[p] = "cancelling" =>
              row[Target[d]] \notin Final /\ batch' = batch /\ ~wasFinal'[p]
<1>1. CASE row[Target[d]] \in Final
  <2>1. Done(p, d) /\ UNCHANGED wasFinal
    BY <1>1 DEF CancelRead, LeavesAlone
  <2>2. QED
    BY <2>1 DEF Done, Goto, TypeOK
<1>2. CASE row[Target[d]] \notin Final
  <2>1. (row[Target[d]] \in Final) = FALSE
    BY <1>2
  <2>2. batch' = batch /\ wasFinal' = [wasFinal EXCEPT ![p] = row[Target[d]] \in Final]
    BY <1>2 DEF CancelRead, LeavesAlone
  <2>3. wasFinal' = [wasFinal EXCEPT ![p] = FALSE]
    BY <2>1, <2>2, Zenon
  <2>4. QED
    BY <1>2, <2>2, <2>3 DEF TypeOK
<1>3. QED
  BY <1>1, <1>2

(* Every variable keeps its type. *)
LEMMA TypeStep ==
  ASSUME TypeOK, \A p \in Planners : PlannerOK(p), [Next]_vars
  PROVE  TypeOK'
<1>0. \A p \in Planners : stage[p] \notin {"idle", "next"} => current[p] \in Accounts
  BY DEF PlannerOK, TypeOK
<1>1. CASE UNCHANGED vars
  BY <1>1 DEF TypeOK, vars, plannerVars
<1>2. ASSUME NEW p \in Planners, List(p) PROVE TypeOK'
  BY <1>2 DEF List, TypeOK, Goto, FirstAccounts, Due, Stages
<1>3. ASSUME NEW p \in Planners, NEW a \in Accounts, Start(p, a) PROVE TypeOK'
  BY <1>3 DEF Start, Turns, TypeOK, Goto, Stages
<1>4. ASSUME NEW p \in Planners, NEW a \in Accounts, StartFails(p, a) PROVE TypeOK'
  BY <1>4 DEF StartFails, Turns, TypeOK
<1>5. ASSUME NEW p \in Planners, EndOfList(p) PROVE TypeOK'
  BY <1>5 DEF EndOfList, TypeOK, Goto, Stages
<1>6. ASSUME NEW p \in Planners, Collect(p) PROVE TypeOK'
  <2>1. Window(current[p]) \subseteq Events
    BY DEF Window
  <2>2. QED
    BY <1>6, <2>1 DEF Collect, TypeOK, Goto, Stages
<1>7. ASSUME NEW p \in Planners, Prepare(p) PROVE TypeOK'
  BY <1>7 DEF Prepare, TypeOK, Goto, Stages
<1>8. ASSUME NEW p \in Planners, NEW e \in Events, SkipNotOptedIn(p, e) PROVE TypeOK'
  BY <1>8 DEF SkipNotOptedIn, TypeOK
<1>9. ASSUME NEW p \in Planners, NEW v \in Videos, Write(p, v) PROVE TypeOK'
  <2>1. row' \in [Videos -> RowStates]
    BY <1>9 DEF Write, TypeOK, Inserted, RowStates
  <2>2. QED
    BY <1>9, <2>1 DEF Write, TypeOK, Done, Goto, Stages
<1>10. ASSUME NEW p \in Planners, NEW d \in Deletes, CancelRead(p, d) PROVE TypeOK'
  <2>1. stage' \in [Planners -> Stages] /\ batch' \in [Planners -> SUBSET Events]
    <3>1. CASE LeavesAlone(row[Target[d]])
      BY <1>10, <3>1 DEF CancelRead, TypeOK, Done, Goto, Stages
    <3>2. CASE ~LeavesAlone(row[Target[d]])
      BY <1>10, <3>2 DEF CancelRead, TypeOK, Goto, Stages
    <3>3. QED
      BY <3>1, <3>2
  <2>2. wasFinal' \in [Planners -> BOOLEAN]
    BY <1>10, CancelReads DEF TypeOK
  <2>3. QED
    BY <1>10, <2>1, <2>2 DEF CancelRead, TypeOK
<1>11. ASSUME NEW p \in Planners, NEW d \in Deletes, CancelWrite(p, d) PROVE TypeOK'
  <2>1. row' \in [Videos -> RowStates]
    BY <1>11, BackfillAssumption DEF CancelWrite, TypeOK, RowStates, Final
  <2>2. QED
    BY <1>11, <2>1 DEF CancelWrite, TypeOK, Done, Goto, Stages
<1>12. ASSUME NEW p \in Planners, MarkCompleted(p) PROVE TypeOK'
  BY <1>12 DEF MarkCompleted, Turn, TypeOK, Stages
<1>13. ASSUME NEW p \in Planners, ReplayFails(p) PROVE TypeOK'
  BY <1>13 DEF ReplayFails, Turn, TypeOK, Stages
<1>14. ASSUME NEW p \in Planners, RunEnds(p) PROVE TypeOK'
  BY <1>14 DEF RunEnds, TypeOK, Goto, Stages
<1>15. CASE Environment
  <2>1. ASSUME NEW a \in Accounts, SwitchEligible(a) PROVE TypeOK'
    BY <2>1 DEF SwitchEligible, TypeOK, plannerVars
  <2>2. ASSUME NEW v \in Videos, Claim(v) PROVE TypeOK'
    BY <2>2 DEF Claim, TypeOK, plannerVars, RowStates
  <2>3. ASSUME NEW v \in Videos, Finalize(v) PROVE TypeOK'
    BY <2>3 DEF Finalize, TypeOK, plannerVars, RowStates, Final
  <2>4. QED
    BY <1>15, <2>1, <2>2, <2>3 DEF Environment
<1>16. QED
  BY <1>1, <1>2, <1>3, <1>4, <1>5, <1>6, <1>7, <1>8, <1>9, <1>10, <1>11, <1>12, <1>13, <1>14,
     <1>15
     DEF Next, Step, Fault

(* A step of one planner leaves the others where they are. *)
LEMMA OthersUnmoved ==
  ASSUME TypeOK, NEW p \in Planners, Step(p) \/ Fault(p), NEW q \in Planners, q # p
  PROVE  /\ stage'[q] = stage[q] /\ current'[q] = current[q] /\ batch'[q] = batch[q]
         /\ wasFinal'[q] = wasFinal[q]
<1>1. /\ stage'[q] = stage[q] /\ current'[q] = current[q]
      /\ wasFinal'[q] = wasFinal[q]
  BY DEF TypeOK, Step, Fault, List, Start, StartFails, Turns, EndOfList, Collect, Prepare,
         SkipNotOptedIn, Write, CancelRead, CancelWrite, MarkCompleted, ReplayFails, RunEnds,
         Done, Turn, Goto
<1>2. batch'[q] = batch[q]
  BY DEF TypeOK, Step, Fault, List, Start, StartFails, Turns, EndOfList, Collect, Prepare,
         SkipNotOptedIn, Write, CancelRead, CancelWrite, MarkCompleted, ReplayFails, RunEnds,
         Done, Turn, Goto
<1>3. QED
  BY <1>1, <1>2

(* What a planner holds fits its stage. *)
LEMMA PlannerStep ==
  ASSUME TypeOK, \A p \in Planners : PlannerOK(p), [Next]_vars
  PROVE  \A p \in Planners : PlannerOK(p)'
<1>1. CASE UNCHANGED plannerVars
  BY <1>1 DEF plannerVars, PlannerOK, Replaying
<1>2. SUFFICES ASSUME NEW p \in Planners, Step(p) \/ Fault(p), NEW q \in Planners
               PROVE  PlannerOK(q)'
  BY <1>1 DEF Next, Environment, SwitchEligible, Claim, Finalize, vars
<1>3. CASE q # p
  BY <1>2, <1>3, OthersUnmoved DEF PlannerOK, Replaying
<1>4. CASE q = p
  <2>1. CASE List(p)
    BY <1>4, <2>1 DEF List, Goto, PlannerOK, Replaying, TypeOK
  <2>2. CASE \E a \in Accounts : Start(p, a)
    BY <1>4, <2>2, BackfillAssumption DEF Start, Turns, Goto, PlannerOK, Replaying, TypeOK
  <2>3. CASE EndOfList(p)
    BY <1>4, <2>3 DEF EndOfList, Goto, PlannerOK, Replaying, TypeOK
  <2>4. CASE Collect(p)
    BY <1>4, <2>4 DEF Collect, Goto, PlannerOK, Replaying, TypeOK
  <2>5. CASE Prepare(p)
    BY <1>4, <2>5 DEF Prepare, Goto, PlannerOK, Replaying, TypeOK
  <2>6. CASE \E e \in Events : SkipNotOptedIn(p, e)
    BY <1>4, <2>6 DEF SkipNotOptedIn, PlannerOK, Replaying, TypeOK
  <2>7. CASE \E e \in Events : Write(p, e) \/ CancelRead(p, e) \/ CancelWrite(p, e)
    BY <1>4, <2>7 DEF Write, CancelRead, CancelWrite, Done, Goto, PlannerOK, Replaying, TypeOK
  <2>8. CASE MarkCompleted(p) \/ ReplayFails(p)
    BY <1>4, <2>8 DEF MarkCompleted, ReplayFails, Turn, PlannerOK, Replaying, TypeOK
  <2>9. CASE \E a \in Accounts : StartFails(p, a)
    BY <1>4, <2>9 DEF StartFails, PlannerOK, Replaying, TypeOK
  <2>10. CASE RunEnds(p)
    BY <1>4, <2>10 DEF RunEnds, Goto, PlannerOK, Replaying, TypeOK
  <2>11. QED
    BY <1>2, <2>1, <2>2, <2>3, <2>4, <2>5, <2>6, <2>7, <2>8, <2>9, <2>10
       DEF Step, Fault, Events
<1>5. QED
  BY <1>3, <1>4

(* A step that deals with an event leaves it replayed. *)
LEMMA DoneReplays ==
  ASSUME TypeOK, NEW p \in Planners, NEW e \in Events,
         \/ e \in Videos /\ Write(p, e)
         \/ e \in Deletes /\ CancelRead(p, e) /\ stage'[p] # "cancelling"
         \/ e \in Deletes /\ CancelWrite(p, e)
  PROVE  Replayed(e)'
<1>1. CASE e \in Videos /\ Write(p, e)
  BY <1>1 DEF Write, Replayed, Inserted, TypeOK
<1>2. ASSUME e \in Deletes PROVE Target[e] \in Videos /\ e \notin Videos
  BY <1>2, BackfillAssumption
<1>3. CASE e \in Deletes /\ CancelRead(p, e) /\ stage'[p] # "cancelling"
  BY <1>2, <1>3 DEF CancelRead, LeavesAlone, Goto, Replayed, TypeOK
<1>4. CASE e \in Deletes /\ CancelWrite(p, e)
  BY <1>2, <1>4 DEF CancelWrite, Replayed, Final, TypeOK
<1>5. QED
  BY <1>1, <1>3, <1>4

(* What a planner has taken off its batch stays replayed, and so is what it  *)
(* takes off, unless it skipped the event and the account is marked.         *)
LEMMA BatchStep ==
  ASSUME TypeOK, \A p \in Planners : PlannerOK(p) /\ BatchOK(p), [Next]_vars
  PROVE  \A p \in Planners : BatchOK(p)'
<1>0. Kept
  BY StepKeeps
<1>1. ASSUME NEW q \in Planners, Replaying(q), ~missed'[current[q]],
             NEW e \in Window(current[q]) \ batch[q]
      PROVE  Replayed(e)'
  <2>1. current[q] \in Accounts
    BY <1>1 DEF PlannerOK, Replaying, TypeOK
  <2>2. e \in Events /\ Replayed(e)
    BY <1>0, <1>1, <2>1, WindowOfAuthor DEF BatchOK, Kept, TypeOK
  <2>3. QED
    BY <1>0, <2>2, ReplayedKept
<1>2. ASSUME NEW q \in Planners, UNCHANGED <<stage[q], current[q], batch[q]>>
      PROVE  BatchOK(q)'
  BY <1>1, <1>2 DEF BatchOK, Replaying, Window
<1>3. CASE UNCHANGED plannerVars
  BY <1>2, <1>3 DEF plannerVars
<1>4. SUFFICES ASSUME NEW p \in Planners, Step(p) \/ Fault(p), NEW q \in Planners
               PROVE  BatchOK(q)'
  BY <1>3 DEF Next, Environment, SwitchEligible, Claim, Finalize, vars
<1>5. CASE q # p
  BY <1>2, <1>4, <1>5, OthersUnmoved
<1>6. CASE q = p
  <2>1. CASE ~Replaying(p)'
    BY <1>6, <2>1 DEF BatchOK
  <2>2. CASE Collect(p)
    BY <1>6, <2>2 DEF Collect, BatchOK, Window, TypeOK
  <2>3. CASE Prepare(p)
    BY <1>1, <1>6, <2>3 DEF Prepare, Goto, Replaying, BatchOK, Window, TypeOK
  <2>4. CASE \E e \in Events : SkipNotOptedIn(p, e)
    <3>1. current[p] \in Accounts
      BY <2>4 DEF SkipNotOptedIn, PlannerOK, TypeOK
    <3>2. missed'[current'[p]]
      BY <2>4, <3>1 DEF SkipNotOptedIn, TypeOK
    <3>3. QED
      BY <1>6, <3>2 DEF BatchOK
  <2>5. ASSUME NEW e \in Events,
               \/ e \in Videos /\ Write(p, e)
               \/ e \in Deletes /\ CancelRead(p, e) /\ stage'[p] # "cancelling"
               \/ e \in Deletes /\ CancelWrite(p, e)
        PROVE  BatchOK(q)'
    <3>1. /\ Replaying(p) /\ current' = current
          /\ batch'[p] = batch[p] \ {e}
      BY <2>5 DEF Write, CancelRead, CancelWrite, Done, Goto, Replaying, TypeOK
    <3>2. Replayed(e)'
      BY <2>5, DoneReplays
    <3>3. QED
      BY <1>1, <1>6, <3>1, <3>2 DEF BatchOK, Window
  <2>6. ASSUME NEW d \in Deletes, CancelRead(p, d), stage'[p] = "cancelling"
        PROVE  BatchOK(q)'
    <3>1. Replaying(p) /\ current' = current /\ batch' = batch
      BY <2>6 DEF CancelRead, Done, Goto, Replaying, TypeOK
    <3>2. QED
      BY <1>1, <1>6, <3>1 DEF BatchOK, Window
  <2>7. QED
    BY <1>4, <2>1, <2>2, <2>3, <2>4, <2>5, <2>6
       DEF Step, Fault, Events, List, Start, StartFails, EndOfList, MarkCompleted, ReplayFails,
           RunEnds, Turn, Turns, Goto, Replaying, TypeOK
<1>7. QED
  BY <1>5, <1>6

(* A completed account stays seeded, and the mark comes with an empty batch. *)
LEMMA CompletedStep ==
  ASSUME IInv, [Next]_vars
  PROVE  CompletedIsSeeded'
<1>0. Kept
  BY StepKeeps DEF IInv
<1>1. SUFFICES ASSUME NEW a \in Accounts, backfill'[a] = "completed", ~missed'[a],
                      NEW e \in Window(a)
               PROVE  Replayed(e)'
  BY DEF CompletedIsSeeded, Window
<1>2. e \in Events /\ ~missed[a]
  BY <1>0, <1>1, WindowOfAuthor DEF Kept
<1>3. CASE backfill[a] = "completed"
  BY <1>0, <1>1, <1>2, <1>3, ReplayedKept DEF IInv, CompletedIsSeeded
<1>4. CASE backfill[a] # "completed"
  <2>1. PICK p \in Planners : MarkCompleted(p)
    BY <1>1, <1>4
       DEF Next, Step, Fault, Environment, vars, List, Start, StartFails, EndOfList, Collect,
           Prepare, SkipNotOptedIn, Write, CancelRead, CancelWrite, ReplayFails, RunEnds,
           SwitchEligible, Claim, Finalize, IInv, TypeOK
  <2>2. current[p] = a
    BY <1>1, <1>4, <2>1 DEF MarkCompleted, IInv, TypeOK
  <2>3. Replayed(e)
    BY <1>1, <1>2, <2>1, <2>2 DEF MarkCompleted, IInv, BatchOK, Replaying
  <2>4. QED
    BY <1>0, <1>2, <2>3, ReplayedKept
<1>5. QED
  BY <1>3, <1>4

(* A post enters the queue by the write of the oldest event of a batch. *)
LEMMA InOrderStep ==
  ASSUME IInv, [Next]_vars
  PROVE  SeededInOrder'
<1>0. Kept
  BY StepKeeps DEF IInv
<1>1. SUFFICES ASSUME NEW u \in Videos, NEW v \in Videos,
                      row'[v] \notin {"absent", "skipped"},
                      u \in Window(Author[v]), Author[u] = Author[v], At[u] < At[v],
                      ~missed'[Author[v]]
               PROVE  row'[u] # "absent"
  BY DEF SeededInOrder, Window
<1>2. Author[v] \in Accounts /\ ~missed[Author[v]]
  BY <1>0, <1>1, BackfillAssumption DEF Kept, Events
<1>3. CASE row[v] \notin {"absent", "skipped"}
  BY <1>0, <1>1, <1>2, <1>3 DEF Kept, IInv, SeededInOrder
<1>4. CASE row[v] = "skipped"
  BY <1>0, <1>1, <1>4 DEF Kept, Final
<1>5. CASE row[v] = "absent"
  <2>1. PICK p \in Planners : Write(p, v)
    BY <1>1, <1>5, BackfillAssumption
       DEF Next, Step, Fault, Environment, vars, List, Start, StartFails, EndOfList, Collect,
           Prepare, SkipNotOptedIn, Write, CancelRead, CancelWrite, MarkCompleted, ReplayFails,
           RunEnds, SwitchEligible, Claim, Claimable, Finalize, IInv, TypeOK
  <2>2. v \in batch[p] /\ u \notin batch[p]
    BY <1>1, <2>1, BackfillAssumption DEF Write, IsOldest, Events
  <2>3. Replaying(p) /\ current[p] \in Accounts /\ v \in Window(current[p])
    BY <2>1, <2>2 DEF Write, Replaying, IInv, PlannerOK, TypeOK
  <2>4. current[p] = Author[v]
    BY <2>3, WindowOfAuthor
  <2>5. Replayed(u)
    BY <1>1, <1>2, <2>2, <2>3, <2>4 DEF IInv, BatchOK
  <2>6. QED
    BY <1>0, <2>5 DEF Kept, Replayed
<1>6. QED
  BY <1>3, <1>4, <1>5

(* While the one planner there is cancels a row, no other actor finishes it. *)
LEMMA CancelStep ==
  ASSUME TypeOK, \A p \in Planners : CancelOK(p), [Next]_vars
  PROVE  \A p \in Planners : CancelOK(p)'
<1>1. SUFFICES ASSUME NEW q \in Planners, stage'[q] = "cancelling"
               PROVE  CancelOK(q)'
  BY DEF CancelOK
<1>2. CASE stage[q] = "cancelling"
  <2>1. wasFinal'[q] = wasFinal[q] /\ batch'[q] = batch[q]
    <3>1. CASE UNCHANGED plannerVars
      BY <3>1 DEF plannerVars
    <3>2. ASSUME NEW p \in Planners, p # q, Step(p) \/ Fault(p)
          PROVE  wasFinal'[q] = wasFinal[q] /\ batch'[q] = batch[q]
      BY <3>2, OthersUnmoved
    <3>3. ~Step(q) /\ ~Fault(q)
      BY <1>1, <1>2 DEF Step, Fault, List, Start, StartFails, EndOfList, Collect, Prepare,
         SkipNotOptedIn, Write, CancelRead, CancelWrite, MarkCompleted, ReplayFails, RunEnds,
         Turn, Turns, Done, Goto, TypeOK
    <3>4. QED
      BY <3>1, <3>2, <3>3 DEF Next, Environment, SwitchEligible, Claim, Finalize, vars
  <2>2. ASSUME Planners = {q} PROVE row' = row
    <3>1. ~Step(q) /\ ~Fault(q)
      BY <1>1, <1>2 DEF Step, Fault, List, Start, StartFails, EndOfList, Collect, Prepare,
         SkipNotOptedIn, Write, CancelRead, CancelWrite, MarkCompleted, ReplayFails, RunEnds,
         Turn, Turns, Done, Goto, TypeOK
    <3>2. ~WorkerRuns
      BY <1>2, <2>2 DEF WorkerRuns
    <3>3. QED
      BY <2>2, <3>1, <3>2 DEF Next, Environment, SwitchEligible, Claim, Finalize, vars
  <2>3. QED
    BY <1>2, <2>1, <2>2 DEF CancelOK, IsOldest
<1>3. CASE stage[q] # "cancelling"
  <2>1. PICK d \in Deletes : CancelRead(q, d)
    <3>1. CASE UNCHANGED plannerVars
      BY <1>1, <1>3, <3>1 DEF plannerVars
    <3>2. ASSUME NEW p \in Planners, p # q, Step(p) \/ Fault(p)
          PROVE  FALSE
      BY <1>1, <1>3, <3>2, OthersUnmoved
    <3>3. CASE Step(q) \/ Fault(q)
      BY <1>1, <1>3, <3>3 DEF Step, Fault, List, Start, StartFails, EndOfList, Collect, Prepare,
         SkipNotOptedIn, Write, CancelWrite, MarkCompleted, ReplayFails, RunEnds,
         Turn, Turns, Done, Goto, TypeOK
    <3>4. QED
      BY <3>1, <3>2, <3>3 DEF Next, Environment, SwitchEligible, Claim, Finalize, vars
  <2>2. row[Target[d]] \notin Final /\ IsOldest(d, batch[q]) /\ batch' = batch /\ row' = row
    BY <1>1, <2>1, CancelReads DEF CancelRead
  <2>3. ~wasFinal'[q]
    BY <1>1, <2>1, CancelReads
  <2>4. ASSUME NEW c \in Deletes, IsOldest(c, batch[q]) PROVE c = d
    <3>1. c \in Events /\ d \in Events /\ At[c] <= At[d] /\ At[d] <= At[c]
      BY <2>2, <2>4 DEF IsOldest, Events
    <3>2. At[c] \in Nat /\ At[d] \in Nat
      BY <3>1, BackfillAssumption
    <3>3. QED
      BY <3>1, <3>2, BackfillAssumption
  <2>5. QED
    BY <2>2, <2>3, <2>4 DEF CancelOK, IsOldest
<1>4. QED
  BY <1>2, <1>3

LEMMA InitHolds == Init => IInv
BY BackfillAssumption
   DEF Init, IInv, TypeOK, RowStates, PlannerOK, BatchOK, CancelOK, Replaying, SeededInOrder,
       CompletedIsSeeded, Stages

LEMMA StepHolds == IInv /\ [Next]_vars => IInv'
BY TypeStep, PlannerStep, BatchStep, CancelStep, InOrderStep, CompletedStep DEF IInv

(* Every reachable state satisfies the invariant, whatever the accounts,     *)
(* histories, replicas and limits of run_once.                               *)
THEOREM ReplayInvariance == Spec => []IInv
BY InitHolds, StepHolds, PTL DEF Spec

(* mark_account_backfill_completed is written only when the whole answer of  *)
(* the relay is in the queue or cancelled, or an event was skipped.          *)
THEOREM CompletedMeansSeeded == Spec => []CompletedIsSeeded
<1>1. IInv => CompletedIsSeeded
  BY DEF IInv
<1>2. QED
  BY <1>1, ReplayInvariance, PTL

(* What changes a final row is the second statement of a cancellation that   *)
(* had read the row before, with another replica around.                     *)
LEMMA FinalRowStep ==
  ASSUME IInv, Next, NEW v \in Videos, row[v] \in Final, row'[v] # row[v]
  PROVE  \E p \in Planners, d \in Deletes :
           CancelWrite(p, d) /\ Target[d] = v /\ ~wasFinal[p] /\ Planners # {p}
<1>t. TypeOK
  BY DEF IInv
<1>1. PICK p \in Planners, d \in Deletes : CancelWrite(p, d)
  <2>1. ASSUME NEW p \in Planners, NEW u \in Videos, Write(p, u) PROVE row'[v] = row[v]
    BY <1>t, <2>1 DEF Write, Inserted, Final, TypeOK
  <2>2. ASSUME NEW u \in Videos, Claim(u) \/ Finalize(u) PROVE row'[v] = row[v]
    <3>1. row[u] \notin Final /\ \E s : row' = [row EXCEPT ![u] = s]
      BY <2>2 DEF Claim, Claimable, Finalize, Final
    <3>2. QED
      BY <1>t, <3>1 DEF TypeOK
  <2>3. QED
    BY <2>1, <2>2
       DEF Next, Step, Fault, Environment, List, Start, StartFails, EndOfList, Collect,
           Prepare, SkipNotOptedIn, CancelRead, MarkCompleted, ReplayFails, RunEnds,
           SwitchEligible
<1>2. Target[d] = v
  BY <1>t, <1>1 DEF CancelWrite, TypeOK
<1>3. ~wasFinal[p] /\ Planners # {p}
  BY <1>1, <1>2 DEF CancelWrite, IInv, CancelOK
<1>4. QED
  BY <1>1, <1>2, <1>3

(* ON CONFLICT DO NOTHING, the claim and the two statements of               *)
(* cancel_publish_job: a final row only ever turns skipped, by a             *)
(* cancellation that read it before another replica finished it.             *)
THEOREM FinalRowsAreKept == Spec => FinalRowsStay
<1>1. IInv /\ [Next]_vars =>
        [\A v \in Videos : row[v] \in Final =>
           \/ row'[v] = row[v]
           \/ \E p \in Planners, d \in Deletes :
                /\ CancelWrite(p, d) /\ Target[d] = v
                /\ ~wasFinal[p] /\ Planners # {p}]_vars
  BY FinalRowStep
<1>2. QED
  BY <1>1, ReplayInvariance, PTL DEF Spec, FinalRowsStay

(* With one replica the comment of cancel_publish_job is right: a final row  *)
(* is left untouched.                                                        *)
THEOREM OneReplicaLeavesFinalRows ==
  ASSUME \A p, q \in Planners : p = q
  PROVE  Spec => FinalRowsUntouched
<1>1. IInv /\ [Next]_vars =>
        [\A v \in Videos : row[v] \in Final => row'[v] = row[v]]_vars
  BY FinalRowStep
<1>2. QED
  BY <1>1, ReplayInvariance, PTL DEF Spec, FinalRowsUntouched

(* claim_next_backfill_job takes the oldest row, and the planner's writes     *)
(* leave no older post of the replayed history behind.                       *)
THEOREM BacklogInOrder == Spec => OldestFirst
<1> DEFINE InOrder ==
       \A u, v \in Videos :
         /\ row[v] = "pending" /\ row'[v] = "in_progress"
         /\ u \in Window(Author[v]) /\ Author[u] = Author[v] /\ At[u] < At[v]
         /\ ~missed[Author[v]]
         => row[u] \notin {"absent", "pending"}
<1>1. ASSUME IInv, [Next]_vars, NEW u \in Videos, NEW v \in Videos,
             row[v] = "pending", row'[v] = "in_progress",
             u \in Window(Author[v]), Author[u] = Author[v], At[u] < At[v],
             ~missed[Author[v]]
      PROVE  row[u] \notin {"absent", "pending"}
  <2>1. Claim(v)
    BY <1>1
       DEF Next, Step, Fault, Environment, vars, List, Start, StartFails, EndOfList, Collect,
           Prepare, SkipNotOptedIn, Write, CancelRead, CancelWrite, MarkCompleted, ReplayFails,
           RunEnds, SwitchEligible, Claim, Finalize, Inserted, IInv, TypeOK
  <2>2. row[u] # "pending"
    BY <1>1, <2>1, BackfillAssumption DEF Claim, Claimable, Events
  <2>3. row[u] # "absent"
    BY <1>1 DEF IInv, SeededInOrder
  <2>4. QED
    BY <2>2, <2>3
<1>2. IInv /\ [Next]_vars => [InOrder]_vars
  BY <1>1
<1>3. QED
  BY <1>2, ReplayInvariance, PTL DEF Spec, OldestFirst
================================================================================
