----------------------------- MODULE Bridge_proofs -----------------------------
(***************************************************************************)
(* The smaller parts around the queue, and all parts together: the key      *)
(* generator, the fence between two releases, the profile in the queue, the  *)
(* repair of legacy jobs, and that the states of every part are what its     *)
(* module says.                                                              *)
(***************************************************************************)
EXTENDS MCBridge, Clients_proofs, ReadSide_proofs

(***************************************************************************)
(* Keys of one process increase, for any number of threads and any range.  *)
(* The loop works because nothing handed out is above the last timestamp,  *)
(* and the exchange succeeds only on the value the candidate was made from. *)
(***************************************************************************)

(* Nothing handed out lies above the last timestamp. *)
BelowLast == \A i \in DOMAIN handed : handed[i] <= last

TidInv == TidTypeOK /\ BelowLast /\ KeysIncrease

LEMMA CandidateAbove ==
  ASSUME TidTypeOK, NEW t \in Threads
  PROVE  Candidate(t) \in Nat /\ Candidate(t) > thread[t].observed
BY TidAssumption DEF TidTypeOK, ThreadState, Timestamps, Candidate

LEMMA TidInitially == TidInit => TidInv
BY TidAssumption
   DEF TidInit, TidInv, TidTypeOK, Timestamps, ThreadState, BelowLast, KeysIncrease

LEMMA SwapKeeps ==
  ASSUME TidInv, NEW t \in Threads, Swap(t)
  PROVE  TidInv'
<1> DEFINE c == Candidate(t)
<1>1. TidTypeOK /\ BelowLast /\ KeysIncrease
  BY DEF TidInv
<1>2. c \in Timestamps /\ c > last
  BY <1>1, CandidateAbove, TidAssumption DEF Swap, Timestamps
<1>3. /\ last' = c /\ handed' = Append(handed, c)
      /\ thread' = [thread EXCEPT ![t].stage = "idle"] /\ clock' = clock
  BY DEF Swap
<1> HIDE DEF c
<1>4. handed \in Seq(Timestamps) /\ last \in Timestamps /\ Timestamps \subseteq Nat
  BY <1>1, TidAssumption DEF TidTypeOK, Timestamps
<1>5. /\ handed' \in Seq(Timestamps)
      /\ Len(handed') = Len(handed) + 1
      /\ handed'[Len(handed) + 1] = c
      /\ \A i \in 1..Len(handed) : handed'[i] = handed[i]
  BY <1>2, <1>3, <1>4
<1>6. TidTypeOK'
  BY <1>1, <1>2, <1>3, <1>5 DEF TidTypeOK, ThreadState
<1>7. BelowLast'
  BY <1>1, <1>2, <1>3, <1>4, <1>5 DEF BelowLast
<1>8. KeysIncrease'
  BY <1>1, <1>2, <1>3, <1>4, <1>5 DEF BelowLast, KeysIncrease
<1>9. QED
  BY <1>6, <1>7, <1>8 DEF TidInv

LEMMA TidStep == TidInv /\ [TidNext]_tidVars => TidInv'
<1> SUFFICES ASSUME TidInv, [TidNext]_tidVars PROVE TidInv'
  OBVIOUS
<1>1. TidTypeOK /\ BelowLast /\ KeysIncrease
  BY DEF TidInv
<1>2. ASSUME NEW t \in Threads, ReadClock(t) \/ LoadLast(t) \/ SwapFails(t) PROVE TidInv'
  <2> USE DEF TidTypeOK
  <2>1. ReadClock(t) => TidTypeOK'
    <3> HAVE ReadClock(t)
    <3>1. [stage |-> "loading", now |-> clock, observed |-> 0] \in ThreadState
      BY <1>1, TidAssumption DEF ThreadState, Timestamps
    <3>2. QED
      BY <1>1, <3>1 DEF ReadClock
  <2>2. LoadLast(t) \/ SwapFails(t) => TidTypeOK'
    BY <1>1 DEF LoadLast, SwapFails, ThreadState
  <2>3. TidTypeOK'
    BY <1>2, <2>1, <2>2
  <2>4. last' = last /\ handed' = handed
    BY <1>2 DEF ReadClock, LoadLast, SwapFails
  <2>5. QED
    BY <1>1, <2>3, <2>4 DEF TidInv, BelowLast, KeysIncrease
<1>3. ASSUME NEW t \in Threads, Swap(t) PROVE TidInv'
  BY <1>3, SwapKeeps
<1>4. CASE ClockMoves \/ UNCHANGED tidVars
  BY <1>1, <1>4 DEF ClockMoves, tidVars, TidInv, TidTypeOK, BelowLast, KeysIncrease
<1>5. QED
  BY <1>2, <1>3, <1>4 DEF TidNext

(* Every timestamp handed out by next_tid is larger than all before it,     *)
(* whatever the clock does and however calls race (reserve_monotonic_...).   *)
THEOREM KeysAlwaysIncrease == TidSpec => []KeysIncrease
<1>1. TidInv => KeysIncrease
  BY DEF TidInv
<1>2. QED
  BY <1>1, TidInitially, TidStep, PTL DEF TidSpec

--------------------------------------------------------------------------------
(* The writer fence *)

(* Whoever executes the row, or is named its owner, is on record, and a row  *)
(* that was ever executed shows it for good: "attempted" is never reset.     *)
RunsRecorded ==
  /\ \A w \in busy : Release(w) \in ranOn
  /\ ranOn # {} => post # NoRow /\ post.attempted
  /\ post # NoRow /\ post.owner # NoOwner => Release(post.owner) \in ranOn

(* Until an operator revives it, a row of epoch 2 is this release's alone,   *)
(* and this release executes no other.                                       *)
EpochSeparates ==
  /\ post # NoRow /\ post.epoch = 2 => migrated
  /\ ~audited /\ "new" \in ranOn => post # NoRow /\ post.epoch = 2
  /\ ~audited /\ post # NoRow /\ post.epoch = 2 => "old" \notin ranOn

FenceInv == FenceTypeOK /\ RunsRecorded /\ EpochSeparates

LEMMA NoRowIsNoRow == NoRow \notin PostRow
<1>1. \A r \in PostRow : r.state # "absent"
  BY DEF PostRow
<1>2. QED
  BY <1>1 DEF NoRow

LEMMA ReleaseNames ==
  \A w \in FenceWorkers :
    /\ w \in NewWorkers => Release(w) = "new"
    /\ w \notin NewWorkers => Release(w) = "old"
BY DEF Release

LEMMA FenceInitially == FenceInit => FenceInv
BY NoRowIsNoRow DEF FenceInit, FenceInv, FenceTypeOK, RunsRecorded, EpochSeparates

LEMMA FenceStepKeeps == FenceInv /\ [FenceNext]_fenceVars => FenceInv'
<1> SUFFICES ASSUME FenceInv, [FenceNext]_fenceVars PROVE FenceInv'
  OBVIOUS
<1> USE NoRowIsNoRow, ReleaseNames, FenceAssumption
<1>1. FenceTypeOK /\ RunsRecorded /\ EpochSeparates
  BY DEF FenceInv
<1>2. CASE Migrate
  BY <1>1, <1>2 DEF Migrate, FenceInv, FenceTypeOK, RunsRecorded, EpochSeparates
<1>3. CASE OldEnqueue \/ NewEnqueue
  <2>1. /\ ranOn' = {} /\ ranOn = {} /\ UNCHANGED <<migrated, busy, ranOn, audited>>
        /\ post' \in PostRow /\ post'.owner = NoOwner /\ (post'.epoch = 2 => migrated)
    <3>1. CASE post = NoRow /\ (post' = Inserted(1) \/ (post' = Inserted(2) /\ migrated))
      <4>1. \A n \in {1, 2} : Inserted(n) \in PostRow /\ Inserted(n).owner = NoOwner
                              /\ Inserted(n).epoch = n
        BY DEF Inserted, PostRow
      <4>2. ranOn = {}
        BY <1>1, <3>1 DEF RunsRecorded
      <4>3. QED
        <5>1. PICK n \in {1, 2} : post' = Inserted(n) /\ (n = 2 => migrated)
          BY <3>1
        <5>2. UNCHANGED <<migrated, busy, ranOn, audited>>
          BY <1>3 DEF OldEnqueue, NewEnqueue
        <5>3. QED
          BY <4>1, <4>2, <5>1, <5>2
    <3>2. CASE migrated /\ post # NoRow /\ Pristine /\ post' = [post EXCEPT !.epoch = 2]
      <4>1. post \in PostRow /\ ~post.attempted /\ post.owner = NoOwner
        BY <1>1, <3>2 DEF FenceTypeOK, Pristine
      <4>2. post' \in PostRow /\ post'.owner = NoOwner
        BY <3>2, <4>1 DEF PostRow
      <4>3. ranOn = {}
        BY <1>1, <4>1 DEF RunsRecorded
      <4>4. UNCHANGED <<migrated, busy, ranOn, audited>>
        BY <1>3 DEF OldEnqueue, NewEnqueue
      <4>5. QED
        BY <3>2, <4>2, <4>3, <4>4
    <3>3. \/ post = NoRow /\ (post' = Inserted(1) \/ (post' = Inserted(2) /\ migrated))
          \/ migrated /\ post # NoRow /\ Pristine /\ post' = [post EXCEPT !.epoch = 2]
      BY <1>3 DEF OldEnqueue, NewEnqueue
    <3>4. QED
      BY <3>1, <3>2, <3>3
  <2>2. QED
    BY <1>1, <2>1 DEF FenceInv, FenceTypeOK, RunsRecorded, EpochSeparates
<1>4. ASSUME NEW w \in FenceWorkers, ClaimRow(w) PROVE FenceInv'
  <2>1. post \in PostRow /\ post # NoRow
    BY <1>1, <1>4 DEF FenceTypeOK, ClaimRow
  <2>2. /\ post' \in PostRow /\ post'.attempted /\ post'.owner = w /\ post'.epoch = post.epoch
        /\ busy' = busy \cup {w} /\ ranOn' = ranOn \cup {Release(w)}
        /\ UNCHANGED <<migrated, audited>>
    BY <1>4, <2>1 DEF ClaimRow, PostRow
  <2>3. CASE w \in NewWorkers
    BY <1>1, <1>4, <2>1, <2>2, <2>3
       DEF ClaimRow, FenceInv, FenceTypeOK, RunsRecorded, EpochSeparates
  <2>4. CASE w \notin NewWorkers
    <3>1. ~audited /\ post.epoch = 2 => "old" \in ranOn
      <4>1. w # NoOwner /\ Release(w) = "old"
        BY <2>4 DEF FenceWorkers

      <4>2. QED
        BY <1>1, <1>4, <2>1, <2>4, <4>1
         DEF ClaimRow, FenceAllows, Marker, RunsRecorded, EpochSeparates
    <3>2. ~audited => post.epoch # 2 /\ "new" \notin ranOn
      BY <1>1, <2>1, <3>1 DEF EpochSeparates
    <3>3. QED
      BY <1>1, <2>1, <2>2, <2>4, <3>2
         DEF FenceInv, FenceTypeOK, RunsRecorded, EpochSeparates
  <2>5. QED
    BY <2>3, <2>4
<1>5. ASSUME NEW w \in FenceWorkers, KeepRecord(w) \/ ConcludeRow(w) \/ RunDies(w)
      PROVE  FenceInv'
  <2>1. post \in PostRow /\ post # NoRow
    BY <1>1, <1>5 DEF KeepRecord, ConcludeRow, RunDies, FenceTypeOK, RunsRecorded
  <2>2. /\ post' \in PostRow /\ post'.epoch = post.epoch /\ post'.attempted = post.attempted
        /\ post'.owner \in {NoOwner, post.owner} /\ busy' \subseteq busy
        /\ UNCHANGED <<migrated, ranOn, audited>>
    <3>1. CASE KeepRecord(w)
      BY <2>1, <3>1 DEF KeepRecord, PostRow
    <3>2. CASE ConcludeRow(w)
      BY <2>1, <3>2, ZenonT(30) DEF ConcludeRow, Concluded, PostRow
    <3>3. CASE RunDies(w)
      BY <2>1, <3>3 DEF RunDies
    <3>4. QED
      BY <1>5, <3>1, <3>2, <3>3
  <2>3. QED
    BY <1>1, <2>1, <2>2 DEF FenceInv, FenceTypeOK, RunsRecorded, EpochSeparates
<1>6. CASE CancelRow \/ RowLapses \/ ReviveRow
  <2>1. post \in PostRow /\ post # NoRow
    <3>1. NoRow.state = "absent"
      BY DEF NoRow
    <3>2. QED
      BY <1>1, <1>6, <3>1 DEF CancelRow, RowLapses, ReviveRow, FenceTypeOK
  <2>2. /\ post' \in PostRow /\ post'.attempted = post.attempted
        /\ post'.owner \in {NoOwner, post.owner}
        /\ UNCHANGED <<migrated, busy, ranOn>>
        /\ \/ UNCHANGED audited /\ post'.epoch = post.epoch
           \/ migrated /\ audited'
    <3>1. CASE CancelRow
      BY <2>1, <3>1 DEF CancelRow, PostRow
    <3>2. CASE RowLapses
      BY <2>1, <3>2 DEF RowLapses, PostRow
    <3>3. CASE ReviveRow
      BY <2>1, <3>3 DEF ReviveRow, PostRow
    <3>4. QED
      BY <1>6, <3>1, <3>2, <3>3
  <2>3. audited' \in BOOLEAN
    BY <1>1, <1>6 DEF CancelRow, RowLapses, ReviveRow, FenceTypeOK
  <2>4. QED
    BY <1>1, <2>1, <2>2, <2>3 DEF FenceInv, FenceTypeOK, RunsRecorded, EpochSeparates
<1>7. CASE UNCHANGED fenceVars
  BY <1>1, <1>7 DEF fenceVars, FenceInv, FenceTypeOK, RunsRecorded, EpochSeparates
<1>8. QED
  BY <1>2, <1>3, <1>4, <1>5, <1>6, <1>7 DEF FenceNext, FenceStep

(* claim_publish_jobs: until an operator revives the row, no row is executed by *)
(* both releases, for any number of workers of each.                          *)
THEOREM ReleasesKeptApart == FenceSpec => []ReleasesNeverMix
<1>1. FenceInv => ReleasesNeverMix
  BY DEF FenceInv, EpochSeparates, ReleasesNeverMix
<1>2. QED
  BY <1>1, FenceInitially, FenceStepKeeps, PTL DEF FenceSpec

--------------------------------------------------------------------------------
(* The profile *)

RunHasEvent == ~AtStage("idle") => prun.event \in Profiles

Queued(p) == prow[p].state # "absent"
Started(p) == prow[p].state \in {"in_progress", "published"}

(* As long as nothing fails, the rows are worked off like a queue: in order, *)
(* one at a time, each queued after all that are older.                       *)
RowsInOrder ==
  /\ consent
  /\ \A p \in Profiles : prow[p].state \in {"absent", "pending", "in_progress", "published"}
  /\ replay.phase = "due" => \A p \in Profiles : ~Queued(p)
  /\ \A p \in replay.left, q \in Profiles : Queued(q) => q < p
  /\ \A p, q \in Profiles : Started(p) /\ prow[q].state = "pending" => p < q

(* The row in progress is the run's, and every published one is older.       *)
OneAtATime ==
  \A p \in Profiles : prow[p].state = "in_progress" =>
    /\ ~AtStage("idle") /\ prun.event = p /\ prow[p].leased
    /\ \A q \in Profiles : prow[q].state = "published" => q < p
RunInProgress == ~AtStage("idle") => prow[prun.event].state = "in_progress"

(* What was mapped or published, or has been put, is not newer than what is  *)
(* shown.                                                                     *)
ShownCovers ==
  /\ \A p \in mapped : self >= p /\ Started(p)
  /\ \A p \in Profiles : prow[p].state = "published" => self >= p
  /\ AtStage("mapping") \/ AtStage("finishing") => self = prun.event

Smooth == RowsInOrder /\ OneAtATime /\ RunInProgress /\ ShownCovers

ProfileInv == ProfileTypeOK /\ RunHasEvent /\ (faults = 0 => Smooth)

LEMMA ProfileInitially == ProfileInit => ProfileInv
<1> SUFFICES ASSUME ProfileInit PROVE ProfileInv
  OBVIOUS
<1>1. ProfileTypeOK
  BY ProfileAssumption
     DEF ProfileInit, ProfileTypeOK, Profiles, NoProfile, NoRun, ProfileRow, RowStates, ProfileStages
<1>2. RunHasEvent /\ Smooth
  BY DEF ProfileInit, RunHasEvent, AtStage, NoRun, Smooth, RowsInOrder, OneAtATime, RunInProgress,
         ShownCovers, Queued, Started
<1>3. QED
  BY <1>1, <1>2 DEF ProfileInv

LEMMA TriesTyped ==
  ASSUME NEW n \in 0..MaxTries
  PROVE  OneMore(n) \in 0..MaxTries
BY ProfileAssumption DEF OneMore

(* A step that leaves the run where it is, or moves it on.                   *)
LEMMA ProfileTypesKept ==
  ASSUME ProfileTypeOK, RunHasEvent, [ProfileNext]_profileVars
  PROVE  ProfileTypeOK' /\ RunHasEvent'
<1> USE DEF AtStage, RunHasEvent
<1>1. /\ Profiles \subseteq Nat /\ NoProfile \notin Profiles
      /\ prow \in [Profiles -> ProfileRow] /\ NoRun.stage = "idle"
      /\ NoRun \in [event : Profiles \cup {NoProfile}, stage : ProfileStages]
  BY ProfileAssumption DEF Profiles, NoProfile, ProfileTypeOK, NoRun, ProfileStages
<1>2. GoesWrong => faults' \in 0..FaultBudget
  BY ProfileAssumption DEF GoesWrong, ProfileTypeOK
<1>3. ASSUME NEW stage \in ProfileStages, ~AtStage("idle"), OnTo(stage)
      PROVE  /\ prun' \in [event : Profiles \cup {NoProfile}, stage : ProfileStages]
             /\ prun'.event \in Profiles
  BY <1>3 DEF OnTo, ProfileTypeOK
<1>4. ASSUME NEW state \in RowStates, ~AtStage("idle"), EndRun(state)
      PROVE  prow' \in [Profiles -> ProfileRow] /\ prun' = NoRun
  BY <1>1, <1>4 DEF EndRun, ProfileRow
<1>5. ASSUME ~AtStage("idle"), FailRow
      PROVE  prow' \in [Profiles -> ProfileRow] /\ prun' = NoRun
  <2> DEFINE n == OneMore(prow[prun.event].tries)
             row == [state |-> IF n = MaxTries THEN "dead" ELSE "failed",
                     tries |-> n, leased |-> n < MaxTries]
  <2>1. prow[prun.event].tries \in 0..MaxTries
    BY <1>1, <1>5 DEF ProfileRow
  <2>2. n \in 0..MaxTries
    BY <2>1, TriesTyped
  <2>3. prow' = [prow EXCEPT ![prun.event] = row] /\ prun' = NoRun
    BY <1>5 DEF FailRow
  <2> HIDE DEF n
  <2>4. row \in ProfileRow
    BY <2>2, ProfileAssumption DEF ProfileRow, RowStates
  <2> HIDE DEF row
  <2>5. QED
    BY <1>1, <2>3, <2>4
<1>6. CASE EditProfile \/ FinishReplay \/ ReplayFails \/ BridgeRestarts \/ SwitchConsent
  <2>1. CASE EditProfile
    BY <2>1, ProfileAssumption DEF EditProfile, ProfileTypeOK, Profiles
  <2>2. CASE FinishReplay
    BY <2>2 DEF FinishReplay, ProfileTypeOK
  <2>3. CASE ReplayFails
    BY <2>3, <1>2 DEF ReplayFails, ProfileTypeOK
  <2>4. CASE BridgeRestarts
    BY <2>4, <1>1, <1>2 DEF BridgeRestarts, ProfileTypeOK
  <2>5. CASE SwitchConsent
    BY <2>5, <1>2 DEF SwitchConsent, ProfileTypeOK
  <2>6. QED
    BY <1>6, <2>1, <2>2, <2>3, <2>4, <2>5
<1>7. CASE StartReplay
  <2>1. PICK older \in SUBSET (1..(newest - 1)) :
          replay' = [phase |-> "running", left |-> older \cup {newest}]
    BY <1>7 DEF StartReplay
  <2>2. older \cup {newest} \subseteq Profiles
    BY ProfileAssumption DEF ProfileTypeOK, Profiles
  <2>3. QED
    BY <1>7, <2>1, <2>2 DEF StartReplay, ProfileTypeOK
<1>8. CASE ReplayEvent
  <2>1. Min(replay.left) \in Profiles
    BY <1>1, <1>8, MinIsLeast DEF ReplayEvent, ProfileTypeOK
  <2>2. prow' \in [Profiles -> ProfileRow]
    BY <1>1, <1>8, <2>1 DEF ReplayEvent, ProfileRow, RowStates
  <2>3. QED
    BY <1>8, <2>2 DEF ReplayEvent, ProfileTypeOK
<1>9. CASE ClaimProfile
  <2>1. NextProfile \in Profiles
    BY <1>1, <1>9, MinIsLeast DEF ClaimProfile, ClaimableRows, NextProfile
  <2>2. prow' \in [Profiles -> ProfileRow]
    BY <1>1, <1>9, <2>1, TriesTyped DEF ClaimProfile, ProfileRow, RowStates
  <2>3. QED
    BY <1>9, <2>1, <2>2 DEF ClaimProfile, ProfileTypeOK, ProfileStages
<1>10. CASE CheckProfile \/ FinishProfile
  <2>1. ~AtStage("idle")
    BY <1>10 DEF CheckProfile, FinishProfile
  <2>2. \/ EndRun("ineligible") \/ EndRun("published")
        \/ OnTo("parsing") /\ prow' = prow
    BY <1>10 DEF CheckProfile, FinishProfile
  <2>3. UNCHANGED <<newest, replay, mapped, consent, self, faults>>
    BY <1>10 DEF CheckProfile, FinishProfile
  <2>4. QED
    BY <1>1, <1>3, <1>4, <2>1, <2>2, <2>3 DEF ProfileTypeOK, RowStates, ProfileStages
<1>11. CASE ParseProfile \/ PrepareImages \/ PutProfile \/ SaveProfileMapping
  <2>1. ~AtStage("idle") /\ \E stage \in ProfileStages : OnTo(stage)
    BY <1>11 DEF ParseProfile, PrepareImages, PutProfile, SaveProfileMapping, ProfileStages
  <2>2. /\ UNCHANGED <<newest, replay, prow, consent, faults>>
        /\ mapped' \subseteq mapped \cup {prun.event} /\ self' \in {self, prun.event}
    BY <1>11 DEF ParseProfile, PrepareImages, PutProfile, SaveProfileMapping
  <2>3. QED
    BY <1>3, <2>1, <2>2 DEF ProfileTypeOK
<1>12. CASE RejectImage \/ ProfileFails
  <2>1. ~AtStage("idle") /\ FailRow /\ GoesWrong
    BY <1>12 DEF RejectImage, ProfileFails
  <2>2. UNCHANGED <<newest, replay, mapped, consent>> /\ self' \in {self, prun.event}
    BY <1>12 DEF RejectImage, ProfileFails
  <2>3. QED
    BY <1>1, <1>2, <1>5, <2>1, <2>2 DEF ProfileTypeOK
<1>13. ASSUME NEW p \in Profiles, RestOver(p) PROVE ProfileTypeOK' /\ RunHasEvent'
  BY <1>1, <1>13 DEF RestOver, ProfileTypeOK, ProfileRow
<1>14. CASE UNCHANGED profileVars
  BY <1>14 DEF profileVars, ProfileTypeOK
<1>15. QED
  BY <1>6, <1>7, <1>8, <1>9, <1>10, <1>11, <1>12, <1>13, <1>14 DEF ProfileNext, ProfileStep

(* A step that goes wrong is counted, so the others are all there are while  *)
(* the count is zero.                                                         *)
LEMMA SmoothKept ==
  ASSUME ProfileTypeOK, RunHasEvent, Smooth, faults = 0, faults' = 0, [ProfileNext]_profileVars
  PROVE  Smooth'
<1> USE DEF AtStage, Queued, Started
<1>1. /\ Profiles \subseteq Nat /\ NoProfile \notin Profiles
      /\ prow \in [Profiles -> ProfileRow] /\ NoRun.stage = "idle"
      /\ replay.left \subseteq Profiles /\ mapped \subseteq Profiles
      /\ self \in Nat /\ (prun.stage # "idle" => prun.event \in Profiles)
  BY ProfileAssumption DEF Profiles, NoProfile, ProfileTypeOK, NoRun, RunHasEvent
<1>2. RowsInOrder /\ OneAtATime /\ RunInProgress /\ ShownCovers
  BY DEF Smooth
<1>3. ~GoesWrong
  BY DEF GoesWrong
<1>4. CASE EditProfile \/ UNCHANGED profileVars
  BY <1>2, <1>4 DEF EditProfile, profileVars, Smooth, RowsInOrder, OneAtATime, RunInProgress,
                    ShownCovers
<1>5. CASE StartReplay \/ FinishReplay
  <2>1. UNCHANGED <<prow, mapped, consent, self, prun>> /\ replay'.phase # "due"
    BY <1>5 DEF StartReplay, FinishReplay
  <2>2. replay'.left = {} \/ \A q \in Profiles : ~Queued(q)
    <3>1. CASE StartReplay
      BY <1>2, <3>1 DEF StartReplay, RowsInOrder
    <3>2. CASE FinishReplay
      BY <3>2 DEF FinishReplay
    <3>3. QED
      BY <1>5, <3>1, <3>2
  <2>3. QED
    BY <1>2, <2>1, <2>2 DEF Smooth, RowsInOrder, OneAtATime, RunInProgress, ShownCovers
<1>6. CASE ReplayEvent
  <2> DEFINE p == Min(replay.left)
  <2>1. p \in replay.left /\ p \in Profiles /\ \A q \in replay.left : p <= q
    BY <1>1, <1>6, MinIsLeast DEF ReplayEvent
  <2>2. /\ replay'.phase = "running" /\ replay'.left = replay.left \ {p}
        /\ UNCHANGED <<mapped, consent, self, prun>>
        /\ \/ prow' = prow
           \/ prow[p].state = "absent" /\ prow' = [prow EXCEPT ![p].state = "pending"]
        /\ prow'[p].state # "absent" \/ p \in mapped
    BY <1>1, <1>2, <1>6, <2>1 DEF ReplayEvent, RowsInOrder, ProfileTypeOK
  <2> HIDE DEF p
  <2>3. /\ \A q \in Profiles : q # p => prow'[q] = prow[q]
        /\ prow'[p].state \in {prow[p].state, "pending"}
    BY <1>1, <2>1, <2>2 DEF ProfileRow
  <2>4. \A q \in Profiles : Queued(q) => q < p
    BY <1>2, <2>1 DEF RowsInOrder
  <2>5. \A q \in Profiles : Started(q)' => Started(q) /\ prow'[q] = prow[q]
    BY <1>1, <2>1, <2>2, <2>3 DEF ProfileRow
  <2>6. RowsInOrder'
    <3>1. \A q \in Profiles, r \in replay'.left : Queued(q)' => q < r
      BY <1>1, <1>2, <2>1, <2>2, <2>3 DEF RowsInOrder
    <3>2. \A q, r \in Profiles : Started(q)' /\ prow'[r].state = "pending" => q < r
      BY <1>1, <1>2, <2>1, <2>2, <2>3, <2>4, <2>5 DEF RowsInOrder
    <3>3. \A q \in Profiles : prow'[q].state \in {"absent", "pending", "in_progress", "published"}
      BY <1>1, <1>2, <2>1, <2>2, <2>3 DEF RowsInOrder
    <3>4. QED
      BY <1>2, <2>2, <3>1, <3>2, <3>3 DEF RowsInOrder
  <2>7. OneAtATime' /\ RunInProgress' /\ ShownCovers'
    BY <1>1, <1>2, <2>1, <2>2, <2>3, <2>5 DEF OneAtATime, RunInProgress, ShownCovers
  <2>8. QED
    BY <2>6, <2>7 DEF Smooth
<1>7. CASE ClaimProfile
  <2> DEFINE p == NextProfile
  <2>1. \A q \in Profiles : q \in ClaimableRows <=> prow[q].state = "pending"
    BY <1>2, <1>7 DEF ClaimProfile, ClaimableRows, RowsInOrder, OneAtATime
  <2>2. p \in Profiles /\ prow[p].state = "pending"
        /\ \A q \in Profiles : prow[q].state = "pending" => p <= q
    BY <1>1, <1>7, <2>1, MinIsLeast DEF ClaimProfile, ClaimableRows, NextProfile
  <2>3. /\ prow' = [prow EXCEPT ![p] = [state |-> "in_progress", tries |-> OneMore(@.tries), leased |-> TRUE]]
        /\ prun' = [event |-> p, stage |-> "checking"]
        /\ UNCHANGED <<replay, mapped, consent, self>>
    BY <1>7 DEF ClaimProfile
  <2> HIDE DEF p
  <2>4. /\ prow'[p].state = "in_progress" /\ prow'[p].leased
        /\ \A q \in Profiles : q # p => prow'[q] = prow[q]
    BY <1>1, <2>2, <2>3
  <2>5. \A q \in Profiles : prow[q].state # "in_progress"
    BY <1>2, <1>7 DEF ClaimProfile, OneAtATime
  <2>6. RowsInOrder'
    <3>1. ASSUME NEW q \in Profiles, NEW r \in Profiles, Started(q)', prow'[r].state = "pending"
          PROVE  q < r
      <4>1. r # p /\ prow[r].state = "pending" /\ p <= r
        BY <2>2, <2>4, <3>1
      <4>2. CASE q = p
        BY <1>1, <4>1, <4>2
      <4>3. CASE q # p
        BY <1>2, <2>4, <3>1, <4>1, <4>3 DEF RowsInOrder
      <4>4. QED
        BY <4>2, <4>3
    <3>2. \A q \in Profiles : Queued(q)' => Queued(q)
      BY <2>2, <2>4
    <3>3. \A q \in Profiles : prow'[q].state \in {"absent", "pending", "in_progress", "published"}
      BY <1>2, <2>2, <2>4 DEF RowsInOrder
    <3>4. QED
      BY <1>2, <2>3, <3>1, <3>2, <3>3 DEF RowsInOrder
  <2>7. OneAtATime' /\ RunInProgress'
    <3>1. \A q \in Profiles : prow'[q].state = "published" => q < p
      BY <1>1, <1>2, <2>2, <2>4 DEF RowsInOrder
    <3>2. \A q \in Profiles : prow'[q].state = "in_progress" => q = p
      BY <2>4, <2>5
    <3>3. QED
      BY <2>3, <2>4, <3>1, <3>2 DEF OneAtATime, RunInProgress
  <2>8. ShownCovers'
    BY <1>1, <1>2, <2>2, <2>3, <2>4 DEF ShownCovers
  <2>9. QED
    BY <2>6, <2>7, <2>8 DEF Smooth
<1>8. CASE CheckProfile \/ FinishProfile
  <2>1. /\ prun.stage # "idle" /\ prun.event \in Profiles
        /\ prow[prun.event].state = "in_progress"
        /\ UNCHANGED <<replay, mapped, consent, self>>
    BY <1>1, <1>2, <1>8 DEF CheckProfile, FinishProfile, RunInProgress
  <2>2. CASE OnTo("parsing") /\ prow' = prow
    <3>1. prun'.stage = "parsing" /\ prun'.event = prun.event
      BY <1>1, <2>2 DEF OnTo, ProfileTypeOK
    <3>2. QED
      BY <1>2, <2>1, <2>2, <3>1
         DEF Smooth, RowsInOrder, OneAtATime, RunInProgress, ShownCovers
  <2>3. CASE EndRun("published") /\ self >= prun.event
    <3>1. /\ prun'.stage = "idle" /\ prow'[prun.event].state = "published"
          /\ \A q \in Profiles : q # prun.event => prow'[q] = prow[q]
      BY <1>1, <2>1, <2>3 DEF EndRun
    <3>2. \A q \in Profiles : prow'[q].state # "in_progress"
      BY <1>2, <3>1 DEF OneAtATime
    <3>3. RowsInOrder'
      <4>1. \A q \in Profiles : (Started(q)' <=> Started(q)) /\ (Queued(q)' <=> Queued(q))
        BY <2>1, <3>1
      <4>2. \A q \in Profiles : prow'[q].state = "pending" => prow[q].state = "pending"
        BY <3>1
      <4>3. \A q \in Profiles : prow'[q].state \in {"absent", "pending", "in_progress", "published"}
        BY <1>2, <3>1 DEF RowsInOrder
      <4>4. QED
        BY <1>2, <2>1, <4>1, <4>2, <4>3 DEF RowsInOrder
    <3>4. OneAtATime' /\ RunInProgress'
      BY <3>1, <3>2 DEF OneAtATime, RunInProgress
    <3>5. ShownCovers'
      BY <1>1, <1>2, <2>1, <2>3, <3>1 DEF ShownCovers
    <3>6. QED
      BY <3>3, <3>4, <3>5 DEF Smooth
  <2>4. \/ OnTo("parsing") /\ prow' = prow
        \/ EndRun("published") /\ self >= prun.event
    <3>1. CASE CheckProfile
      BY <1>2, <3>1 DEF CheckProfile, RowsInOrder, ShownCovers
    <3>2. CASE FinishProfile
      <4>1. self = prun.event
        BY <1>2, <3>2 DEF FinishProfile, ShownCovers
      <4>2. QED
        BY <1>1, <2>1, <3>2, <4>1 DEF FinishProfile
    <3>3. QED
      BY <1>8, <3>1, <3>2
  <2>5. QED
    BY <2>2, <2>3, <2>4
<1>9. CASE ParseProfile \/ PrepareImages \/ PutProfile \/ SaveProfileMapping
  <2>1. /\ prun.stage # "idle" /\ prun.event \in Profiles
        /\ prow[prun.event].state = "in_progress"
        /\ UNCHANGED <<replay, prow, consent>>
    BY <1>1, <1>2, <1>9
       DEF ParseProfile, PrepareImages, PutProfile, SaveProfileMapping, RunInProgress
  <2>2. prun'.event = prun.event /\ prun'.stage # "idle"
    BY <1>1, <1>9 DEF ParseProfile, PrepareImages, PutProfile, SaveProfileMapping, OnTo, ProfileTypeOK
  <2>3. RowsInOrder' /\ OneAtATime' /\ RunInProgress'
    BY <1>2, <2>1, <2>2 DEF RowsInOrder, OneAtATime, RunInProgress
  <2>4. CASE PutProfile
    <3>1. ASSUME NEW p \in Profiles, Started(p) PROVE prun.event >= p
      <4>1. p = prun.event \/ p < prun.event
        BY <1>2, <2>1, <3>1 DEF OneAtATime
      <4>2. p \in Nat /\ prun.event \in Nat
        BY <1>1, <2>1
      <4>3. QED
        BY <4>1, <4>2
    <3>2. self' = prun.event /\ mapped' = mapped
      BY <2>4 DEF PutProfile
    <3>3. QED
      BY <1>1, <1>2, <2>1, <2>2, <2>3, <3>1, <3>2 DEF Smooth, ShownCovers
  <2>5. CASE ~PutProfile
    <3>1. /\ self' = self /\ mapped' \subseteq mapped \cup {prun.event}
          /\ prun'.stage \in {"mapping", "finishing"} => prun.stage = "mapping"
          /\ mapped' = mapped \/ prun.stage = "mapping"
      BY <1>1, <1>9, <2>5
         DEF ParseProfile, PrepareImages, SaveProfileMapping, OnTo, ProfileTypeOK
    <3>2. QED
      BY <1>1, <1>2, <2>1, <2>2, <2>3, <3>1 DEF Smooth, ShownCovers
  <2>6. QED
    BY <2>4, <2>5
<1>10. ASSUME NEW p \in Profiles, RestOver(p) PROVE Smooth'
  <2>1. prow[p].state # "in_progress"
    BY <1>2, <1>10 DEF RestOver, RowWaits, OneAtATime
  <2>2. /\ \A q \in Profiles : prow'[q].state = prow[q].state
        /\ \A q \in Profiles : q # p => prow'[q] = prow[q]
        /\ UNCHANGED <<replay, mapped, consent, self, prun>>
    BY <1>1, <1>10 DEF RestOver, ProfileRow
  <2>3. QED
    BY <1>1, <1>2, <2>1, <2>2, ZenonT(30) DEF Smooth, RowsInOrder, OneAtATime, RunInProgress, ShownCovers
<1>11. QED
  BY <1>3, <1>4, <1>5, <1>6, <1>7, <1>8, <1>9, <1>10
     DEF ProfileNext, ProfileStep, ReplayFails, RejectImage, ProfileFails, BridgeRestarts,
         SwitchConsent

LEMMA ProfileStepKeeps == ProfileInv /\ [ProfileNext]_profileVars => ProfileInv'
<1>1. [ProfileNext]_profileVars /\ faults \in Nat /\ faults' = 0 => faults = 0
  BY DEF ProfileNext, ProfileStep, profileVars, GoesWrong, ReplayFails, RejectImage, ProfileFails,
         BridgeRestarts, SwitchConsent, EditProfile, StartReplay, ReplayEvent, FinishReplay,
         ClaimProfile, CheckProfile, ParseProfile, PrepareImages, PutProfile, SaveProfileMapping,
         FinishProfile, RestOver
<1>2. QED
  BY <1>1, ProfileTypesKept, SmoothKept, ProfileAssumption DEF ProfileInv, ProfileTypeOK

(* A profile stays shown until a newer one replaces it, as long as nothing      *)
(* fails: for any number of edits and attempts (publish_profile).              *)
THEOREM NewestStays == ProfileSpec => []NewestShown
<1>1. ProfileInv => NewestShown
  BY DEF ProfileInv, Smooth, ShownCovers, NewestShown
<1>2. QED
  BY <1>1, ProfileInitially, ProfileStepKeeps, PTL DEF ProfileSpec

--------------------------------------------------------------------------------
(***************************************************************************)
(* What a confirmation and a rollback touch, for any number of jobs,        *)
(* operations and workers. Two facts carry the proof. Versions of a job     *)
(* with the same updated_at are the same failure, although a rollback sets   *)
(* updated_at back; and the stamp of an applied operation is borne by the    *)
(* jobs it revived and by no before-image.                                  *)
(***************************************************************************)

(* The rows a job has had, as far as the tables still tell. *)
Versions(j) == {legacy[j]} \cup ({action[o].images[j] : o \in Operations} \ {Nobody})

Past(j) == \A v \in Versions(j) : v.updated \in Nat /\ v.updated <= stamp
Faithful(j) == \A v, w \in Versions(j) : v.updated = w.updated => v.fell = w.fell

(* A job that bears an operation's name is as the operation revived it. *)
AsRevived(j) ==
  legacy[j].by # Nobody =>
    /\ action[legacy[j].by].status = "applied"
    /\ j \in Previewed(legacy[j].by)
    /\ legacy[j].updated = action[legacy[j].by].updated
    /\ legacy[j].state = "failed" /\ ~legacy[j].done /\ ~legacy[j].owned

(* The stamp of an applied operation is on its revivals only. *)
OwnStamp(o) ==
  action[o].status = "applied" =>
    /\ action[o].updated \in Nat /\ action[o].updated <= stamp
    /\ \A j \in LegacyJobs : legacy[j].updated = action[o].updated => legacy[j].by = o
    /\ \A j \in LegacyJobs, p \in Operations :
         action[p].images[j] # Nobody => action[p].images[j].updated # action[o].updated

RepairInv ==
  /\ RepairTypeOK
  /\ \A j \in LegacyJobs : Past(j) /\ Faithful(j) /\ AsRevived(j)
  /\ \A o \in Operations : OwnStamp(o)

LEMMA RepairInitially == RepairInit => RepairInv
<1> SUFFICES ASSUME RepairInit PROVE RepairInv
  OBVIOUS
<1>1. /\ \A j \in LegacyJobs : legacy[j] \in LegacyRow /\ legacy[j].updated = 0
                               /\ legacy[j].by = Nobody
      /\ legacy \in [LegacyJobs -> LegacyRow]
  BY RepairAssumption DEF RepairInit, LegacyRow
<1>2. /\ action \in [Operations -> Action]
      /\ \A o \in Operations, j \in LegacyJobs :
           action[o].status = "none" /\ action[o].images[j] = Nobody
  BY RepairAssumption DEF RepairInit, Action, Scope
<1>3. stamp = 0 /\ stamp \in 0..MaxStamp
  BY RepairAssumption DEF RepairInit
<1>4. enabled \in BOOLEAN
  BY DEF RepairInit
<1>5. RepairTypeOK
  BY <1>1, <1>2, <1>3, <1>4 DEF RepairTypeOK
<1>6. ASSUME NEW j \in LegacyJobs PROVE Past(j) /\ Faithful(j) /\ AsRevived(j)
  <2>1. Versions(j) = {legacy[j]}
    BY <1>2 DEF Versions
  <2>2. QED
    BY <1>1, <1>3, <2>1 DEF Past, Faithful, AsRevived
<1>7. ASSUME NEW o \in Operations PROVE OwnStamp(o)
  <2>1. action[o].status # "applied"
    BY DEF RepairInit
  <2>2. QED
    BY <2>1 DEF OwnStamp
<1>8. QED
  BY <1>5, <1>6, <1>7 DEF RepairInv

(* A step keeps the versions of a job, up to what only later steps look at, *)
(* or writes one new row with the new stamp.                                 *)
LEMMA VersionsKeep ==
  ASSUME NEW j \in LegacyJobs, Past(j), Faithful(j), stamp \in Nat,
         stamp' = stamp \/ stamp' = stamp + 1,
         \A v \in Versions(j)' :
           \/ \E w \in Versions(j) : w.updated = v.updated /\ w.fell = v.fell
           \/ stamp' = stamp + 1 /\ v = legacy'[j] /\ v.updated = stamp'
  PROVE  Past(j)' /\ Faithful(j)'
<1>1. Past(j)'
  BY DEF Past
<1>2. Faithful(j)'
  <2> SUFFICES ASSUME NEW v \in Versions(j)', NEW w \in Versions(j)', v.updated = w.updated
      PROVE  v.fell = w.fell
    BY DEF Faithful
  <2>1. CASE \E x \in Versions(j) : x.updated = v.updated /\ x.fell = v.fell
    BY <2>1 DEF Past, Faithful
  <2>2. CASE stamp' = stamp + 1 /\ v = legacy'[j] /\ v.updated = stamp'
    BY <2>2 DEF Past
  <2>3. QED
    BY <2>1, <2>2
<1>3. QED
  BY <1>1, <1>2

(* A step that leaves the images of every operation alone. *)
SameImages == \A o \in Operations : action'[o].images = action[o].images

LEMMA PreviousVersions ==
  ASSUME SameImages, NEW j \in LegacyJobs
  PROVE  /\ \A v \in Versions(j)' : v = legacy'[j] \/ v \in Versions(j)
         /\ \A o \in Operations : Previewed(o)' = Previewed(o)
BY DEF SameImages, Versions, Previewed

LEMMA PreviewKeeps ==
  ASSUME RepairInv, NEW o \in Operations, NEW scope \in Scope, Preview(o, scope)
  PROVE  RepairInv'
<1> DEFINE taken == [j \in LegacyJobs |-> IF j \in Page(scope) THEN legacy[j] ELSE Nobody]
<1>1. /\ RepairTypeOK /\ action[o].status = "none" /\ stamp \in Nat
      /\ UNCHANGED <<legacy, enabled, stamp>>
  BY RepairAssumption DEF RepairInv, Preview, RepairTypeOK
<1>2. taken \in [LegacyJobs -> LegacyRow \cup {Nobody}]
  BY <1>1 DEF RepairTypeOK
<1>3. action[o] \in Action /\ action \in [Operations -> Action]
  BY <1>1 DEF RepairTypeOK
<1>4. /\ action' \in [Operations -> Action]
      /\ action'[o].status = "previewed" /\ action'[o].images = taken
      /\ \A p \in Operations \ {o} : action'[p] = action[p]
  BY <1>2, <1>3 DEF Preview, Action
<1>5. \A j \in LegacyJobs : taken[j] # Nobody => taken[j] = legacy[j] /\ j \in Page(scope)
  OBVIOUS
<1>6. \A j \in Page(scope) : legacy[j].done
  BY DEF Page, Matches
<1> HIDE DEF taken
<1>7. RepairTypeOK'
  BY <1>1, <1>4 DEF RepairTypeOK
<1>8. ASSUME NEW j \in LegacyJobs PROVE Past(j)' /\ Faithful(j)' /\ AsRevived(j)'
  <2>1. Past(j) /\ Faithful(j) /\ AsRevived(j)
    BY DEF RepairInv
  <2>2. \A v \in Versions(j)' : v \in Versions(j)
    BY <1>1, <1>4, <1>5 DEF Versions
  <2>3. Past(j)' /\ Faithful(j)'
    BY <1>1, <2>1, <2>2, VersionsKeep
  <2>4. AsRevived(j)'
    <3> SUFFICES ASSUME legacy[j].by # Nobody PROVE AsRevived(j)'
      BY <1>1 DEF AsRevived
    <3>1. legacy[j].by \in Operations /\ legacy[j].by # o
      BY <1>1, <2>1 DEF AsRevived, RepairTypeOK, LegacyRow
    <3>2. QED
      BY <1>1, <1>4, <2>1, <3>1 DEF AsRevived, Previewed
  <2>5. QED
    BY <2>3, <2>4
<1>9. ASSUME NEW p \in Operations PROVE OwnStamp(p)'
  <2> SUFFICES ASSUME p # o, action[p].status = "applied" PROVE OwnStamp(p)'
    BY <1>4 DEF OwnStamp
  <2>1. OwnStamp(p) /\ action'[p] = action[p]
    BY <1>4 DEF RepairInv
  <2>2. ASSUME NEW j \in LegacyJobs, taken[j] # Nobody
        PROVE  taken[j].updated # action[p].updated
    <3>1. legacy[j].done /\ taken[j] = legacy[j] /\ AsRevived(j)
      BY <1>5, <1>6, <2>2 DEF RepairInv
    <3>2. p # Nobody
      BY RepairAssumption
    <3>3. QED
      BY <2>1, <3>1, <3>2 DEF OwnStamp, AsRevived
  <2>3. QED
    BY <1>1, <1>4, <2>1, <2>2 DEF OwnStamp
<1>10. QED
  BY <1>7, <1>8, <1>9 DEF RepairInv

LEMMA ConfirmKeeps ==
  ASSUME RepairInv, NEW o \in Operations, Confirm(o)
  PROVE  RepairInv'
<1>1. /\ RepairTypeOK /\ action[o].status = "previewed" /\ stamp \in Nat
      /\ stamp' = stamp + 1 /\ stamp' \in 0..MaxStamp /\ enabled' = enabled
      /\ Page(action[o].scope) = Previewed(o)
  BY RepairAssumption DEF RepairInv, Confirm, RepairTypeOK, Writes, UnchangedSince
<1>2. \A j \in Previewed(o) :
        j \in LegacyJobs /\ legacy[j].state = "failed" /\ legacy[j].done /\ ~legacy[j].owned
  BY <1>1 DEF Page, Matches
<1>3. /\ action' \in [Operations -> Action]
      /\ action'[o].status = "applied" /\ action'[o].updated = stamp'
      /\ action'[o].images = action[o].images
      /\ \A p \in Operations \ {o} : action'[p] = action[p]
  <2> DEFINE a == [action[o] EXCEPT !.status = "applied", !.updated = stamp']
  <2>1. action[o] \in Action /\ action \in [Operations -> Action]
    BY <1>1 DEF RepairTypeOK
  <2>2. /\ a \in Action /\ a.status = "applied" /\ a.updated = stamp'
        /\ a.images = action[o].images
    BY <1>1, <2>1 DEF Action
  <2>3. action' = [action EXCEPT ![o] = a]
    BY <2>1 DEF Confirm, Action
  <2> HIDE DEF a
  <2>4. QED
    BY <2>1, <2>2, <2>3
<1>4. SameImages
  BY <1>3 DEF SameImages
<1>5. ASSUME NEW j \in LegacyJobs
      PROVE  /\ legacy[j] \in LegacyRow /\ legacy'[j] \in LegacyRow
             /\ j \notin Previewed(o) => legacy'[j] = legacy[j]
             /\ j \in Previewed(o) =>
                  /\ legacy'[j].by = o /\ legacy'[j].updated = stamp'
                  /\ legacy'[j].state = "failed" /\ ~legacy'[j].done /\ ~legacy'[j].owned
  <2>1. legacy[j] \in LegacyRow
    BY <1>1 DEF RepairTypeOK
  <2>2. legacy'[j] = IF j \in Previewed(o) THEN Revived(o, j) ELSE legacy[j]
    BY DEF Confirm
  <2>3. Revived(o, j) \in LegacyRow
    BY <1>1, <2>1 DEF Revived, LegacyRow
  <2>4. /\ Revived(o, j).by = o /\ Revived(o, j).updated = stamp' /\ ~Revived(o, j).done
        /\ Revived(o, j).state = legacy[j].state /\ Revived(o, j).owned = legacy[j].owned
    BY <2>1 DEF Revived, LegacyRow
  <2>5. QED
    BY <1>2, <2>1, <2>2, <2>3, <2>4
<1>6. RepairTypeOK'
  <2>1. legacy' \in [LegacyJobs -> LegacyRow]
    BY <1>5 DEF Confirm
  <2>2. QED
    BY <1>1, <1>3, <2>1 DEF RepairTypeOK
<1>7. ASSUME NEW j \in LegacyJobs PROVE Past(j)' /\ Faithful(j)' /\ AsRevived(j)'
  <2>1. Past(j) /\ Faithful(j) /\ AsRevived(j)
    BY DEF RepairInv
  <2>2. legacy[j] \in Versions(j)
    BY DEF Versions
  <2>3. Past(j)' /\ Faithful(j)'
    BY <1>1, <1>4, <1>5, <2>1, <2>2, PreviousVersions, VersionsKeep
  <2>4. AsRevived(j)'
    <3>1. CASE j \in Previewed(o)
      BY <1>3, <1>4, <1>5, <3>1, PreviousVersions DEF AsRevived
    <3>2. CASE j \notin Previewed(o) /\ legacy[j].by # Nobody
      <4>1. legacy[j].by \in Operations \ {o}
        BY <1>1, <1>5, <2>1, <3>2 DEF AsRevived, LegacyRow
      <4>2. action'[legacy[j].by] = action[legacy[j].by] /\ legacy'[j] = legacy[j]
        BY <1>3, <1>5, <3>2, <4>1
      <4>3. QED
        BY <2>1, <4>2 DEF AsRevived, Previewed
    <3>3. CASE j \notin Previewed(o) /\ legacy[j].by = Nobody
      BY <1>5, <3>3 DEF AsRevived
    <3>4. QED
      BY <3>1, <3>2, <3>3
  <2>5. QED
    BY <2>3, <2>4
<1>8. ASSUME NEW p \in Operations PROVE OwnStamp(p)'
  <2>1. \A j \in LegacyJobs : legacy[j].updated \in Nat /\ legacy[j].updated <= stamp
    BY DEF RepairInv, Past, Versions
  <2>2. \A j \in LegacyJobs, q \in Operations : action[q].images[j] # Nobody =>
          action[q].images[j].updated \in Nat /\ action[q].images[j].updated <= stamp
    BY DEF RepairInv, Past, Versions
  <2>3. CASE p = o
    <3>1. \A j \in LegacyJobs : legacy'[j].updated = stamp' => legacy'[j].by = o
      BY <1>1, <1>5, <2>1
    <3>2. \A j \in LegacyJobs, q \in Operations : action'[q].images[j] # Nobody =>
            action'[q].images[j].updated # stamp'
      BY <1>1, <1>4, <2>2 DEF SameImages
    <3>3. QED
      BY <1>1, <1>3, <2>3, <3>1, <3>2 DEF OwnStamp
  <2>4. CASE p # o
    <3> SUFFICES ASSUME action[p].status = "applied" PROVE OwnStamp(p)'
      BY <1>3, <2>4 DEF OwnStamp
    <3>1. OwnStamp(p) /\ action'[p] = action[p]
      BY <1>3, <2>4 DEF RepairInv
    <3>2. action[p].updated \in Nat /\ action[p].updated <= stamp
      BY <3>1 DEF OwnStamp
    <3>3. \A j \in LegacyJobs : legacy'[j].updated = action[p].updated => legacy'[j].by = p
      BY <1>1, <1>5, <3>1, <3>2 DEF OwnStamp
    <3>4. QED
      BY <1>1, <1>4, <3>1, <3>2, <3>3 DEF OwnStamp, SameImages
  <2>5. QED
    BY <2>3, <2>4
<1>9. QED
  BY <1>6, <1>7, <1>8 DEF RepairInv

(* Exactly the jobs that still bear the name of the operation are untouched. *)
LEMMA UntouchedAreOwn ==
  ASSUME RepairInv, NEW o \in Operations, action[o].status = "applied"
  PROVE  /\ \A j \in Previewed(o) : Untouched(o, j) <=> legacy[j].by = o
         /\ \A j \in LegacyJobs : legacy[j].by = o => j \in Previewed(o)
<1>1. OwnStamp(o) /\ o # Nobody
  BY RepairAssumption DEF RepairInv
<1>2. \A j \in LegacyJobs : legacy[j].by = o => j \in Previewed(o) /\ Untouched(o, j)
  BY <1>1 DEF RepairInv, AsRevived, Untouched
<1>3. \A j \in Previewed(o) : j \in LegacyJobs /\ (Untouched(o, j) => legacy[j].by = o)
  BY <1>1 DEF OwnStamp, Untouched, Previewed
<1>4. QED
  BY <1>2, <1>3

LEMMA RollbackKeeps ==
  ASSUME RepairInv, NEW o \in Operations, Rollback(o)
  PROVE  RepairInv'
<1> DEFINE restored == {j \in Previewed(o) : Untouched(o, j)}
           image(j) == action[o].images[j]
<1>1. /\ RepairTypeOK /\ action[o].status = "applied" /\ stamp \in Nat
      /\ stamp' = stamp + 1 /\ stamp' \in 0..MaxStamp /\ enabled' = enabled
  <2>1. /\ action[o].status = "applied" /\ stamp < MaxStamp
        /\ stamp' = stamp + 1 /\ enabled' = enabled
    BY DEF Rollback, Writes
  <2>2. RepairTypeOK /\ stamp \in 0..MaxStamp
    BY DEF RepairInv, RepairTypeOK
  <2>3. QED
    BY <2>1, <2>2, RepairAssumption
<1>2. restored \subseteq LegacyJobs /\ Previewed(o) \subseteq LegacyJobs
  BY DEF Previewed
<1>3. /\ action' \in [Operations -> Action]
      /\ action'[o].status # "applied" /\ action'[o].images = action[o].images
      /\ \A p \in Operations \ {o} : action'[p] = action[p]
  <2> DEFINE skipped == Previewed(o) \ restored
             status == IF skipped = {} THEN "rolled_back" ELSE "rollback_partial"
             a == [action[o] EXCEPT !.status = status, !.restored = restored,
                                    !.skipped = skipped, !.updated = stamp']
  <2>1. action[o] \in Action /\ action \in [Operations -> Action]
    BY <1>1 DEF RepairTypeOK
  <2>2. action' = [action EXCEPT ![o] = a]
    BY <2>1 DEF Rollback, Action
  <2>3. status \in {"rolled_back", "rollback_partial"} /\ skipped \subseteq LegacyJobs
    BY <1>2
  <2> HIDE DEF restored, skipped, status
  <2>4. /\ a \in Action /\ a.status = status /\ a.images = action[o].images
    BY <1>1, <1>2, <2>1, <2>3 DEF Action
  <2> HIDE DEF a
  <2>5. QED
    BY <2>1, <2>2, <2>3, <2>4
<1>4. SameImages
  BY <1>3 DEF SameImages
<1>5. ASSUME NEW j \in LegacyJobs
      PROVE  /\ legacy[j] \in LegacyRow /\ legacy'[j] \in LegacyRow
             /\ j \notin restored => legacy'[j] = legacy[j]
             /\ j \in restored =>
                  /\ image(j) # Nobody /\ image(j) \in Versions(j) /\ legacy'[j].by = Nobody
                  /\ legacy'[j].updated = image(j).updated /\ legacy'[j].fell = image(j).fell
  <2>1. legacy[j] \in LegacyRow
    BY <1>1 DEF RepairTypeOK
  <2>2. legacy'[j] = IF j \in restored
                     THEN [image(j) EXCEPT !.epoch = legacy[j].epoch, !.by = Nobody]
                     ELSE legacy[j]
    BY DEF Rollback
  <2>3. j \in restored => image(j) \in LegacyRow /\ image(j) # Nobody /\ image(j) \in Versions(j)
    BY <1>1 DEF Previewed, Versions, RepairTypeOK, Action
  <2> HIDE DEF image, restored
  <2>4. CASE j \in restored
    <3>1. /\ legacy'[j] \in LegacyRow /\ legacy'[j].by = Nobody
          /\ legacy'[j].updated = image(j).updated /\ legacy'[j].fell = image(j).fell
      <4> DEFINE new == [image(j) EXCEPT !.epoch = legacy[j].epoch, !.by = Nobody]
      <4>1. image(j) \in LegacyRow /\ legacy'[j] = new
        BY <2>2, <2>3, <2>4
      <4>2. /\ new \in LegacyRow /\ new.by = Nobody
            /\ new.updated = image(j).updated /\ new.fell = image(j).fell
        BY <2>1, <4>1 DEF LegacyRow
      <4> HIDE DEF new
      <4>3. QED
        BY <4>1, <4>2
    <3>2. QED
      BY <2>1, <2>3, <2>4, <3>1
  <2>5. CASE j \notin restored
    BY <2>1, <2>2, <2>5
  <2>6. QED
    BY <2>4, <2>5
<1>6. RepairTypeOK'
  <2>1. legacy' \in [LegacyJobs -> LegacyRow]
    BY <1>5 DEF Rollback
  <2>2. QED
    BY <1>1, <1>3, <2>1 DEF RepairTypeOK
<1>7. \A j \in LegacyJobs : legacy[j].by = o => j \in restored
  BY <1>1, UntouchedAreOwn
<1> HIDE DEF restored, image
<1>8. ASSUME NEW j \in LegacyJobs PROVE Past(j)' /\ Faithful(j)' /\ AsRevived(j)'
  <2>1. Past(j) /\ Faithful(j) /\ AsRevived(j)
    BY DEF RepairInv
  <2>2. legacy[j] \in Versions(j)
    BY DEF Versions
  <2>3. Past(j)' /\ Faithful(j)'
    BY <1>1, <1>4, <1>5, <2>1, <2>2, PreviousVersions, VersionsKeep
  <2>4. AsRevived(j)'
    <3>1. CASE j \in restored \/ legacy[j].by = Nobody
      BY <1>5, <3>1 DEF AsRevived
    <3>2. CASE j \notin restored /\ legacy[j].by # Nobody
      <4>1. legacy[j].by \in Operations \ {o} /\ legacy'[j] = legacy[j]
        BY <1>5, <1>7, <3>2 DEF LegacyRow
      <4>2. action'[legacy[j].by] = action[legacy[j].by]
        BY <1>3, <4>1
      <4>3. QED
        BY <2>1, <4>1, <4>2 DEF AsRevived, Previewed
    <3>3. QED
      BY <3>1, <3>2
  <2>5. QED
    BY <2>3, <2>4
<1>9. ASSUME NEW p \in Operations PROVE OwnStamp(p)'
  <2> SUFFICES ASSUME p # o, action[p].status = "applied" PROVE OwnStamp(p)'
    BY <1>3 DEF OwnStamp
  <2>1. OwnStamp(p) /\ action'[p] = action[p]
    BY <1>3 DEF RepairInv
  <2>2. \A j \in LegacyJobs : legacy'[j].updated = action[p].updated => legacy'[j].by = p
    BY <1>5, <2>1 DEF OwnStamp, image
  <2>3. QED
    BY <1>1, <1>4, <2>1, <2>2 DEF OwnStamp, SameImages
<1>10. QED
  BY <1>6, <1>8, <1>9 DEF RepairInv

(* A worker writes one row with a new stamp, and in nobody's name. *)
LEMMA WriteKeeps ==
  ASSUME RepairInv, NEW j \in LegacyJobs, NEW row \in LegacyRow, Writes,
         row.updated = stamp', row.by = Nobody,
         legacy' = [legacy EXCEPT ![j] = row], UNCHANGED <<action, enabled>>
  PROVE  RepairInv'
<1>1. /\ RepairTypeOK /\ stamp \in Nat /\ stamp' = stamp + 1 /\ stamp' \in 0..MaxStamp
  <2>1. RepairTypeOK /\ stamp \in 0..MaxStamp /\ stamp < MaxStamp /\ stamp' = stamp + 1
    BY DEF RepairInv, RepairTypeOK, Writes
  <2>2. QED
    BY <2>1, RepairAssumption
<1>2. /\ legacy' \in [LegacyJobs -> LegacyRow] /\ legacy'[j] = row
      /\ \A k \in LegacyJobs \ {j} : legacy'[k] = legacy[k]
  BY <1>1 DEF RepairTypeOK
<1>3. RepairTypeOK' /\ SameImages
  BY <1>1, <1>2 DEF RepairTypeOK, SameImages
<1>4. ASSUME NEW k \in LegacyJobs PROVE Past(k)' /\ Faithful(k)' /\ AsRevived(k)'
  <2>1. Past(k) /\ Faithful(k) /\ AsRevived(k) /\ legacy[k] \in Versions(k)
    BY DEF RepairInv, Versions
  <2>2. Past(k)' /\ Faithful(k)'
    BY <1>1, <1>2, <1>3, <2>1, PreviousVersions, VersionsKeep
  <2>3. AsRevived(k)'
    BY <1>2, <2>1 DEF AsRevived, Previewed
  <2>4. QED
    BY <2>2, <2>3
<1>5. ASSUME NEW p \in Operations PROVE OwnStamp(p)'
  <2> SUFFICES ASSUME action[p].status = "applied" PROVE OwnStamp(p)'
    BY DEF OwnStamp
  <2>1. OwnStamp(p)
    BY DEF RepairInv
  <2>2. \A k \in LegacyJobs : legacy'[k].updated = action[p].updated => legacy'[k].by = p
    BY <1>1, <1>2, <2>1 DEF OwnStamp
  <2>3. QED
    BY <1>1, <2>1, <2>2 DEF OwnStamp
<1>6. QED
  BY <1>3, <1>4, <1>5 DEF RepairInv

LEMMA RunKeeps ==
  ASSUME RepairInv, NEW j \in LegacyJobs, RunRevived(j)
  PROVE  RepairInv'
<1>1. legacy[j] \in LegacyRow /\ AsRevived(j) /\ stamp \in 0..MaxStamp
  BY DEF RepairInv, RepairTypeOK
<1>2. CASE ClaimRevived(j)
  <2> DEFINE row == [legacy[j] EXCEPT !.state = "in_progress", !.owned = TRUE,
                       !.badjwt = FALSE, !.updated = stamp', !.by = Nobody]
  <2>1. Writes /\ UNCHANGED <<action, enabled>> /\ legacy' = [legacy EXCEPT ![j] = row]
    BY <1>2 DEF ClaimRevived
  <2>2. stamp' \in 0..MaxStamp
    BY <1>1, <2>1, RepairAssumption DEF Writes
  <2>3. row \in LegacyRow /\ row.updated = stamp' /\ row.by = Nobody
    BY <1>1, <2>2 DEF LegacyRow
  <2> HIDE DEF row
  <2>4. QED
    BY <2>1, <2>3, WriteKeeps
<1>3. ASSUME NEW state \in {"failed", "published"}, NEW done \in BOOLEAN, NEW badjwt \in BOOLEAN,
             EndRevived(j, state, done, badjwt)
      PROVE  RepairInv'
  <2> DEFINE fallen == IF state = "failed" /\ done THEN legacy[j].fell + 1 ELSE legacy[j].fell
             row == [legacy[j] EXCEPT !.state = state, !.done = done, !.owned = ~done,
                       !.badjwt = badjwt, !.updated = stamp', !.fell = fallen]
  <2>1. Writes /\ UNCHANGED <<action, enabled>> /\ legacy' = [legacy EXCEPT ![j] = row]
    BY <1>1, <1>3 DEF EndRevived, LegacyRow
  <2>2. stamp' \in 0..MaxStamp
    BY <1>1, <2>1, RepairAssumption DEF Writes
  <2>3. legacy[j].state = "in_progress"
    BY <1>3 DEF EndRevived
  <2>4. legacy[j].by = Nobody
    BY <1>1, <2>3 DEF AsRevived
  <2>5. fallen \in Nat \ {0}
    BY <1>1 DEF LegacyRow
  <2> HIDE DEF fallen
  <2>6. row \in LegacyRow /\ row.updated = stamp' /\ row.by = Nobody
    BY <1>1, <2>2, <2>4, <2>5 DEF LegacyRow
  <2> HIDE DEF row
  <2>7. QED
    BY <2>1, <2>6, WriteKeeps
<1>4. QED
  BY <1>2, <1>3 DEF RunRevived

LEMMA RepairStep == RepairInv /\ [RepairNext]_repairVars => RepairInv'
<1> SUFFICES ASSUME RepairInv, [RepairNext]_repairVars PROVE RepairInv'
  OBVIOUS
<1>1. ASSUME NEW o \in Operations, NEW scope \in Scope, Preview(o, scope) PROVE RepairInv'
  BY <1>1, PreviewKeeps
<1>2. ASSUME NEW o \in Operations, Confirm(o) PROVE RepairInv'
  BY <1>2, ConfirmKeeps
<1>3. ASSUME NEW o \in Operations, Rollback(o) PROVE RepairInv'
  BY <1>3, RollbackKeeps
<1>4. ASSUME NEW j \in LegacyJobs, RunRevived(j) PROVE RepairInv'
  BY <1>4, RunKeeps
<1>5. CASE SwitchAccount \/ UNCHANGED repairVars
  <2>1. UNCHANGED <<legacy, action, stamp>> /\ enabled' \in BOOLEAN
    <3>1. CASE SwitchAccount
      BY <3>1 DEF SwitchAccount
    <3>2. CASE UNCHANGED repairVars
      BY <3>2 DEF repairVars, RepairInv, RepairTypeOK
    <3>3. QED
      BY <1>5, <3>1, <3>2
  <2>2. RepairTypeOK'
    BY <2>1 DEF RepairInv, RepairTypeOK
  <2>3. /\ \A j \in LegacyJobs : Past(j)' /\ Faithful(j)' /\ AsRevived(j)'
        /\ \A o \in Operations : OwnStamp(o)'
    BY <2>1 DEF RepairInv, Past, Faithful, Versions, AsRevived, Previewed, OwnStamp
  <2>4. QED
    BY <2>2, <2>3 DEF RepairInv
<1>6. QED
  BY <1>1, <1>2, <1>3, <1>4, <1>5 DEF RepairNext

(* A confirmation revives a job only for the failure the operator saw: the  *)
(* digest over updated_at tells a later failure apart, although rollbacks    *)
(* set updated_at back.                                                      *)
THEOREM ConfirmsAsPreviewed == RepairSpec => ConfirmedAsPreviewed
<1>1. ASSUME RepairInv, RepairNext, NEW o \in Operations, NEW j \in LegacyJobs,
             action[o].status = "previewed", legacy'[j].by = o
      PROVE  j \in Previewed(o) /\ legacy[j].fell = action[o].images[j].fell
  <2>1. o # Nobody /\ legacy[j].by # o /\ legacy[j] \in LegacyRow
    BY <1>1, RepairAssumption DEF RepairInv, AsRevived, RepairTypeOK
  <2>2. CASE Confirm(o)
    <3>1. j \in Previewed(o)
      BY <1>1, <2>1, <2>2 DEF Confirm
    <3>2. Image(j) = [f \in ImageFields |-> action[o].images[j][f]] /\ "updated" \in ImageFields
      BY <2>2, <3>1 DEF Confirm, UnchangedSince, ImageFields
    <3>3. legacy[j].updated = action[o].images[j].updated
      BY <3>2 DEF Image
    <3>4. action[o].images[j] \in Versions(j) /\ legacy[j] \in Versions(j) /\ Faithful(j)
      BY <1>1, <3>1 DEF Versions, Previewed, RepairInv
    <3>5. QED
      BY <3>1, <3>3, <3>4 DEF Faithful
  <2>3. ASSUME NEW p \in Operations \ {o}, Confirm(p) PROVE FALSE
    <3>1. legacy'[j] = IF j \in Previewed(p) THEN Revived(p, j) ELSE legacy[j]
      BY <2>3 DEF Confirm
    <3>2. Revived(p, j).by = p
      BY <2>1 DEF Revived, LegacyRow
    <3>3. QED
      BY <1>1, <2>1, <2>3, <3>1, <3>2
  <2>4. ASSUME NEW p \in Operations, Rollback(p) PROVE FALSE
    <3>1. \/ legacy'[j] = [action[p].images[j] EXCEPT !.epoch = legacy[j].epoch, !.by = Nobody]
             /\ j \in Previewed(p)
          \/ legacy'[j] = legacy[j]
      BY <2>4 DEF Rollback
    <3>2. j \in Previewed(p) => action[p].images[j] \in LegacyRow
      BY <1>1 DEF Previewed, RepairInv, RepairTypeOK, Action
    <3>3. QED
      BY <1>1, <2>1, <3>1, <3>2 DEF LegacyRow
  <2>5. ASSUME NEW k \in LegacyJobs, RunRevived(k) PROVE FALSE
    <3>1. legacy \in [LegacyJobs -> LegacyRow]
      BY <1>1 DEF RepairInv, RepairTypeOK
    <3>2. CASE ClaimRevived(k)
      BY <1>1, <2>1, <3>1, <3>2 DEF ClaimRevived, LegacyRow
    <3>3. ASSUME NEW state, NEW done, NEW badjwt, EndRevived(k, state, done, badjwt)
          PROVE  legacy'[j].by = legacy[j].by
      BY <3>1, <3>3 DEF EndRevived, LegacyRow
    <3>4. QED
      BY <1>1, <2>1, <2>5, <3>2, <3>3 DEF RunRevived
  <2>6. (\E p \in Operations, scope \in Scope : Preview(p, scope)) \/ SwitchAccount => legacy' = legacy
    BY DEF Preview, SwitchAccount
  <2>7. QED
    BY <1>1, <2>1, <2>2, <2>3, <2>4, <2>5, <2>6 DEF RepairNext
<1>2. RepairInv /\ [RepairNext]_repairVars =>
        [\A o \in Operations, j \in LegacyJobs :
           action[o].status = "previewed" /\ legacy'[j].by = o =>
             j \in Previewed(o) /\ legacy[j].fell = action[o].images[j].fell]_repairVars
  BY <1>1
<1>3. QED
  BY <1>2, RepairInitially, RepairStep, PTL DEF RepairSpec, ConfirmedAsPreviewed

(* A rollback restores exactly the jobs that are still as its operation     *)
(* revived them, whatever other operations and workers did meanwhile.        *)
THEOREM RollsBackItsOwn == RepairSpec => RollbackUndoesOwn
<1>1. ASSUME RepairInv, RepairNext, NEW o \in Operations, action[o].status = "applied"
      PROVE  action'[o].restored = {j \in Previewed(o) : legacy[j].by = o} \/ action'[o] = action[o]
  <2>1. action \in [Operations -> Action]
    BY <1>1 DEF RepairInv, RepairTypeOK
  <2>2. CASE Rollback(o)
    <3>1. action'[o].restored = {j \in Previewed(o) : Untouched(o, j)}
      BY <2>1, <2>2 DEF Rollback, Action
    <3>2. QED
      BY <1>1, <3>1, UntouchedAreOwn
  <2>3. ASSUME NEW p \in Operations, NEW scope \in Scope,
               Preview(p, scope) \/ Confirm(p) \/ (p # o /\ Rollback(p))
        PROVE  action'[o] = action[o]
    <3>1. p # o
      BY <1>1, <2>3 DEF Preview, Confirm
    <3>2. CASE Preview(p, scope)
      BY <2>1, <3>1, <3>2 DEF Preview
    <3>3. CASE Confirm(p)
      BY <2>1, <3>1, <3>3 DEF Confirm
    <3>4. CASE Rollback(p)
      BY <2>1, <3>1, <3>4 DEF Rollback
    <3>5. QED
      BY <2>3, <3>2, <3>3, <3>4
  <2>4. SwitchAccount \/ (\E k \in LegacyJobs : RunRevived(k)) => action' = action
    BY DEF SwitchAccount, RunRevived, ClaimRevived, EndRevived
  <2>5. Scope # {}
    <3>1. [ids |-> {}, after |-> 0] \in Scope
      BY DEF Scope
    <3>2. QED
      BY <3>1
  <2>6. QED
    BY <1>1, <2>2, <2>3, <2>4, <2>5 DEF RepairNext
<1>2. RepairInv /\ [RepairNext]_repairVars =>
        [\A o \in Operations : action[o].status = "applied" =>
           action'[o].restored = {j \in Previewed(o) : legacy[j].by = o} \/ action'[o] = action[o]]_repairVars
  BY <1>1
<1>3. QED
  BY <1>2, RepairInitially, RepairStep, PTL DEF RepairSpec, RollbackUndoesOwn

--------------------------------------------------------------------------------
(* All parts *)

PartsInit ==
  /\ SessionInit /\ MediaInit /\ ProfileInit /\ RepairInit /\ TidInit /\ HealthInit
  /\ LabelerInit /\ AppViewInit /\ FenceInit

PartsStep ==
  /\ [SessionNext]_sessionVars /\ [MediaNext]_mediaVars /\ [ProfileNext]_profileVars
  /\ [RepairNext]_repairVars /\ [TidNext]_tidVars /\ [HealthNext]_healthVars
  /\ [LabelerNext]_labelerVars /\ [AppViewNext]_appViewVars /\ [FenceNext]_fenceVars

PartsInv ==
  /\ SessionInv /\ MediaInv /\ ProfileInv /\ RepairInv /\ TidInv /\ HealthTypeOK
  /\ LabelerInv /\ AppViewInv /\ FenceInv

(* A step of one part is a stutter of every other.                           *)
LEMMA PartsStepApart == [MCNext]_<<part, event, partVars>> => PartsStep
<1> SUFFICES ASSUME [MCNext]_<<part, event, partVars>> PROVE PartsStep
  OBVIOUS
<1> USE DEF partVars, bridgeVars
<1>1. CASE UNCHANGED <<part, event, partVars>>
  BY <1>1 DEF PartsStep
<1>2. CASE BridgePart /\ UNCHANGED <<labelerVars, appViewVars, fenceVars>>
  BY <1>2 DEF BridgePart, PartsStep
<1>3. CASE LabelerPart \/ AppViewPart \/ FencePart
  BY <1>3 DEF LabelerPart, AppViewPart, FencePart, PartsStep
<1>4. QED
  BY <1>1, <1>2, <1>3 DEF MCNext

LEMMA HealthStepTyped == HealthTypeOK /\ [HealthNext]_healthVars => HealthTypeOK'
<1> SUFFICES ASSUME HealthTypeOK, [HealthNext]_healthVars PROVE HealthTypeOK'
  OBVIOUS
<1>1. RecordFailure => failures' \in 0..Threshold /\ degraded' \in BOOLEAN /\ lastError' \in BOOLEAN
  BY HealthAssumption DEF HealthTypeOK, RecordFailure
<1>2. RecordSuccess => failures' \in 0..Threshold /\ degraded' \in BOOLEAN /\ lastError' \in BOOLEAN
  <2>1. 0 \in 0..Threshold
    BY HealthAssumption
  <2>2. QED
    BY <2>1 DEF RecordSuccess
<1>3. CASE PollStep
  BY <1>1, <1>2, <1>3 DEF PollStep, PollStarts, PollEndsWell, PollErrs, HealthTypeOK
<1>4. CASE LoopErrs \/ JobFails
  BY <1>1, <1>4 DEF LoopErrs, JobFails, RecordJobFailure, HealthTypeOK
<1>5. CASE Watchdog \/ RowsMove \/ ApiSwitches \/ ConnectionBreaks \/ UNCHANGED healthVars
  BY <1>5 DEF Watchdog, RowsMove, ApiSwitches, ConnectionBreaks, healthVars, HealthTypeOK
<1>6. QED
  BY <1>3, <1>4, <1>5 DEF HealthNext

LEMMA PartsInitially == PartsInit => PartsInv
<1>1. HealthInit => HealthTypeOK
  <2>1. 0 \in 0..Threshold /\ 0 \in 0..MaxStuck
    BY HealthAssumption
  <2>2. QED
    BY <2>1 DEF HealthInit, HealthTypeOK
<1>2. QED
  BY <1>1, SessionInitially, MediaInitially, ProfileInitially, RepairInitially, TidInitially,
     LabelerInitially, AppViewInitially, FenceInitially DEF PartsInit, PartsInv

LEMMA PartsInvKept == PartsInv /\ PartsStep => PartsInv'
BY SessionStep, MediaStep, ProfileStepKeeps, RepairStep, TidStep, HealthStepTyped,
   LabelerStep, AppViewStep, FenceStepKeeps DEF PartsStep, PartsInv

(* The parts run side by side and each is what its own module says of it      *)
(* alone: nothing in the composition takes a step that no part takes.         *)
THEOREM PartsRunAsSpecified ==
  MCSpec => /\ SessionSpec /\ MediaSpec /\ RepairSpec /\ TidSpec
            /\ LabelerSpec /\ AppViewSpec /\ FenceSpec
<1>1. MCInit => PartsInit
  BY DEF MCInit, PartsInit
<1>2. QED
  BY <1>1, PartsStepApart, PTL
     DEF MCSpec, PartsInit, PartsStep, SessionSpec, MediaSpec, RepairSpec, TidSpec, LabelerSpec,
         AppViewSpec, FenceSpec

(* Sessions, uploads, profiles, repairs, keys, health, labels, the app view    *)
(* and the fence keep to their states, for every value of the constants.       *)
THEOREM PartsTyped == MCSpec => []BridgeTypeOK
<1>1. MCInit => PartsInv
  BY PartsInitially DEF MCInit, PartsInit
<1>2. PartsInv => BridgeTypeOK
  BY DEF PartsInv, BridgeTypeOK, SessionInv, MediaInv, ProfileInv, RepairInv, TidInv, LabelerInv,
         AppViewInv, FenceInv
<1>3. QED
  BY <1>1, <1>2, PartsStepApart, PartsInvKept, PTL DEF MCSpec

(* The facets of every post are the hashtags of its text, in order, apart and *)
(* at their bytes, whatever the texts of its event and however short the cut. *)
THEOREM HashtagsSurvive == MCSpec => []FacetsAreHashtags
<1>1. MCInit => event \in VideoTexts
  <2>1. NoText \in VideoTexts
    BY EmptySeq DEF NoText, VideoTexts, Texts
  <2>2. QED
    BY <2>1, PostTextAssumption DEF MCInit
<1>2. event \in VideoTexts /\ [MCNext]_<<part, event, partVars>> => (event \in VideoTexts)'
  BY DEF MCNext
<1>3. event \in VideoTexts => FacetsAreHashtags
  BY FacetsOfVideo, PostTextAssumption DEF FacetsAreHashtags
<1>4. QED
  BY <1>1, <1>2, <1>3, PTL DEF MCSpec
================================================================================
