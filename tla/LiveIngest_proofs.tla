---------------------------- MODULE LiveIngest_proofs --------------------------
(***************************************************************************)
(* Proofs about LiveIngest: history is never replayed as live, whatever    *)
(* the replicas do; with one replica the cursor never goes back, and with  *)
(* events of distinct seconds an interrupted batch skips nothing; and the  *)
(* cursor passes no event but those a poll could not select.               *)
(***************************************************************************)
EXTENDS LiveIngest, FiniteSetTheorems, TLAPS

--------------------------------------------------------------------------------
(* Pages *)

(* A page is empty only when there is nothing left to return. *)
LEMMA PageNotEmpty ==
  ASSUME NEW p \in Pollers, NEW page, TypeOK, IsPage(page, Candidates(p)), Candidates(p) # {}
  PROVE  page # {}
<1>1. CASE page = Candidates(p)
  BY <1>1
<1>2. CASE page # Candidates(p)
  <2>1. Cardinality(page) = Limit
    BY <1>2 DEF IsPage
  <2>2. Cardinality({}) = 0
    BY FS_EmptySet
  <2> QED
    BY <2>1, <2>2, IngestAssumption
<1> QED
  BY <1>1, <1>2

(* An unbounded page reaches as far as every candidate. *)
LEMMA PageReaches ==
  ASSUME NEW p \in Pollers, NEW page, TypeOK, IsPage(page, Candidates(p)),
         NEW h \in Candidates(p)
  PROVE  \E e \in page : Time[h] <= Time[e]
<1>1. page # {}
  BY PageNotEmpty
<1>2. Time[h] \in Nat
  BY IngestAssumption DEF Candidates, TypeOK
<1>3. CASE h \in page
  BY <1>2, <1>3
<1>4. CASE h \notin page
  BY <1>1, <1>4 DEF IsPage
<1> QED
  BY <1>3, <1>4

(* Every kind is polled. *)
LEMMA KindsPolled ==
  ASSUME NEW e \in Events
  PROVE  \E i \in 1..Len(KindOrder) : KindOf[e] = KindOrder[i]
BY IngestAssumption

--------------------------------------------------------------------------------
(* Types *)

(* Every step keeps every variable in its type. *)
LEMMA TypeStep ==
  ASSUME HistoryInv, Next
  PROVE  TypeOK'
<1> USE IngestAssumption DEF TypeOK, pollVars
<1>t. TypeOK
  BY DEF HistoryInv
<1>n. Len(KindOrder) \in Nat /\ 1 \in 1..Len(KindOrder)
  OBVIOUS
<1>1. ASSUME NEW e \in Events, Publish(e) PROVE TypeOK'
  BY <1>t, <1>1 DEF Publish
<1>2. ASSUME NEW p \in Pollers, StartPoll(p) PROVE TypeOK'
  BY <1>t, <1>n, <1>2 DEF StartPoll, Phases
<1>3. ASSUME NEW p \in Pollers, NEW page \in SUBSET Candidates(p), FetchPage(p, page) PROVE TypeOK'
  <2>1. page \subseteq Events
    BY <1>t DEF Candidates
  <2>2. /\ fetched' \in [Pollers -> SUBSET Events]
        /\ overlooked' \in [Pollers -> SUBSET Events]
        /\ UNCHANGED <<relay, cursor, handled, seen, saving>>
    <3>1. Candidates(p) \subseteq Events
      BY <1>t DEF Candidates
    <3> QED
      BY <1>t, <1>3, <2>1, <3>1 DEF FetchPage
  <2>3. CASE ~KindDone(p, page)
    <3>1. /\ before' \in [Pollers -> Nat \cup {Nil}]
          /\ UNCHANGED <<phase, kindIx, todo>>
      BY <1>t, <1>3, <2>1, <2>3 DEF FetchPage
    <3>2. pages[p] \in 0..(MaxPages - 1) /\ pages[p] + 1 # MaxPages
      BY <1>t, <2>3 DEF KindDone
    <3>3. pages[p] + 1 \in 0..(MaxPages - 1)
      BY <3>2
    <3>4. pages' = [pages EXCEPT ![p] = pages[p] + 1]
      BY <1>3, <2>3 DEF FetchPage
    <3>5. pages' \in [Pollers -> 0..(MaxPages - 1)]
      BY <1>t, <3>3, <3>4
    <3> QED
      BY <1>t, <2>2, <3>1, <3>5
  <2>4. CASE KindDone(p, page) /\ kindIx[p] < Len(KindOrder)
    <3>1. /\ kindIx' = [kindIx EXCEPT ![p] = kindIx[p] + 1] /\ before' = [before EXCEPT ![p] = Nil]
          /\ pages' = [pages EXCEPT ![p] = 0] /\ UNCHANGED <<phase, todo>>
      BY <1>3, <2>4 DEF FetchPage
    <3>2. kindIx[p] + 1 \in 1..Len(KindOrder) /\ 0 \in 0..(MaxPages - 1)
      BY <1>t, <1>n, <2>4
    <3>3. /\ kindIx' \in [Pollers -> 1..Len(KindOrder)]
          /\ pages' \in [Pollers -> 0..(MaxPages - 1)]
          /\ before' \in [Pollers -> Nat \cup {Nil}]
      BY <1>t, <3>1, <3>2
    <3> QED
      BY <1>t, <2>2, <3>1, <3>3
  <2>5. CASE KindDone(p, page) /\ kindIx[p] = Len(KindOrder)
    <3>1. UNCHANGED <<kindIx, before, pages>>
      BY <1>3, <2>5 DEF FetchPage
    <3>2. phase' \in [Pollers -> Phases]
      BY <1>t, <1>3, <2>5 DEF FetchPage, Ingesting, Phases
    <3>3. todo' \in [Pollers -> SUBSET Events]
      <4>1. CASE ColdStart(p)
        BY <1>t, <1>3, <2>5, <4>1 DEF FetchPage
      <4>2. CASE ~ColdStart(p)
        <5>1. todo' = [todo EXCEPT ![p] = SelectNew(fetched'[p], seen[p])]
          BY <1>3, <2>5, <4>2 DEF FetchPage
        <5>2. SelectNew(fetched'[p], seen[p]) \subseteq Events
          BY <2>2 DEF SelectNew
        <5> QED
          BY <1>t, <5>1, <5>2
      <4> QED
        BY <4>1, <4>2
    <3> QED
      BY <1>t, <2>2, <3>1, <3>2, <3>3
  <2> QED
    BY <1>t, <2>3, <2>4, <2>5
<1>4. ASSUME NEW p \in Pollers, SeedCursor(p) PROVE TypeOK'
  BY <1>t, <1>4 DEF SeedCursor, Phases
<1>5. ASSUME NEW p \in Pollers, NEW e \in Events, HandleNext(p, e) PROVE TypeOK'
  BY <1>t, <1>5 DEF HandleNext, Phases
<1>6. ASSUME NEW p \in Pollers, SaveCursor(p) PROVE TypeOK'
  <2>1. saving[p] \in Events
    BY <1>t, <1>6 DEF SaveCursor, HistoryInv, BatchInv
  <2> QED
    BY <1>t, <1>6, <2>1 DEF SaveCursor, Ingesting, Phases
<1>7. ASSUME NEW p \in Pollers, PollFails(p) PROVE TypeOK'
  BY <1>t, <1>7 DEF PollFails, Phases
<1> QED
  BY <1>1, <1>2, <1>3, <1>4, <1>5, <1>6, <1>7 DEF Next, PollStep

--------------------------------------------------------------------------------
(* History is never replayed *)

(* A poller the step leaves alone keeps its part of the invariant. *)
LEMMA UntouchedPoller ==
  ASSUME HistoryInv, NEW q \in Pollers,
         phase'[q] = phase[q], seen'[q] = seen[q], kindIx'[q] = kindIx[q],
         before'[q] = before[q], fetched'[q] = fetched[q], todo'[q] = todo[q],
         saving'[q] = saving[q]
  PROVE  CoversHistory(seen[q])' /\ ColdPollInv(q)' /\ BatchInv(q)'
BY DEF HistoryInv, CoversHistory, ColdPollInv, Reaches, BatchInv

(* A cold page of a kind reaches the newest event that kind has in history. *)
LEMMA ColdPageReaches ==
  ASSUME HistoryInv, NEW p \in Pollers, NEW page, phase[p] = "fetching", seen[p] = Nil,
         IsPage(page, Candidates(p)), fetched' = [fetched EXCEPT ![p] = @ \cup page]
  PROVE  \A i \in 1..kindIx[p] : Reaches(p, {h \in History : KindOf[h] = KindOrder[i]})'
<1>t. TypeOK /\ History \subseteq relay /\ before[p] = Nil
  BY DEF HistoryInv, ColdPollInv
<1>f. fetched'[p] = fetched[p] \cup page
  BY <1>t DEF TypeOK
<1>k. kindIx[p] \in Nat
  BY <1>t, IngestAssumption DEF TypeOK
<1> SUFFICES ASSUME NEW i \in 1..kindIx[p], NEW h \in History, KindOf[h] = KindOrder[i]
             PROVE  \E e \in fetched'[p] : Time[h] <= Time[e]
  BY DEF Reaches
<1>1. CASE i = kindIx[p]
  <2>1. h \in Candidates(p)
    BY <1>t, <1>1 DEF Candidates
  <2> QED
    BY <1>t, <1>f, <2>1, PageReaches
<1>2. CASE i # kindIx[p]
  <2>1. i \in 1..(kindIx[p] - 1)
    BY <1>k, <1>2
  <2> QED
    BY <1>f, <2>1 DEF HistoryInv, ColdPollInv, Reaches
<1> QED
  BY <1>1, <1>2

(* The step of each operation keeps the invariant. *)
LEMMA HistoryStep ==
  ASSUME HistoryInv, [Next]_vars
  PROVE  HistoryInv'
<1> USE IngestAssumption
<1>t. TypeOK /\ History \subseteq relay /\ CoversHistory(cursor) /\ HistoryNeverReplayed
  BY DEF HistoryInv
<1>o. \A p \in Pollers : CoversHistory(seen[p]) /\ ColdPollInv(p) /\ BatchInv(p)
  BY DEF HistoryInv
<1> DEFINE Kept(q) == CoversHistory(seen[q])' /\ ColdPollInv(q)' /\ BatchInv(q)'
<1>0. CASE UNCHANGED vars
  BY <1>0, <1>t, <1>o DEF HistoryInv, vars, pollVars, TypeOK, CoversHistory, ColdPollInv, Reaches,
        BatchInv, HistoryNeverReplayed
<1>s. CASE Next
  <2>t. TypeOK'
    BY <1>s, TypeStep
  <2>1. ASSUME NEW e \in Events, Publish(e) PROVE HistoryInv'
    <3>1. \A q \in Pollers : Kept(q)
      BY <2>1, UntouchedPoller DEF Publish, pollVars
    <3>2. History \subseteq relay' /\ CoversHistory(cursor)' /\ HistoryNeverReplayed'
      BY <1>t, <2>1 DEF Publish, CoversHistory, HistoryNeverReplayed
    <3> QED
      BY <2>t, <3>1, <3>2 DEF HistoryInv
  <2>2. ASSUME NEW p \in Pollers, StartPoll(p) PROVE HistoryInv'
    <3>1. History \subseteq relay' /\ CoversHistory(cursor)' /\ HistoryNeverReplayed'
      BY <1>t, <2>2 DEF StartPoll, CoversHistory, HistoryNeverReplayed
    <3>2. ASSUME NEW q \in Pollers, q # p PROVE Kept(q)
      BY <1>t, <2>2, <3>2, UntouchedPoller DEF StartPoll, TypeOK
    <3>3. /\ phase'[p] = "fetching" /\ seen'[p] = cursor /\ kindIx'[p] = 1
          /\ before'[p] = Nil /\ todo'[p] = {}
      BY <1>t, <1>o, <2>2 DEF StartPoll, TypeOK, BatchInv
    <3>4. Kept(p)
      BY <1>t, <3>3 DEF CoversHistory, ColdPollInv, BatchInv
    <3> QED
      BY <2>t, <3>1, <3>2, <3>4 DEF HistoryInv
  <2>3. ASSUME NEW p \in Pollers, NEW page \in SUBSET Candidates(p), FetchPage(p, page)
        PROVE  HistoryInv'
    <3>1. History \subseteq relay' /\ CoversHistory(cursor)' /\ HistoryNeverReplayed'
      BY <1>t, <2>3 DEF FetchPage, CoversHistory, HistoryNeverReplayed
    <3>2. ASSUME NEW q \in Pollers, q # p PROVE Kept(q)
      <4>1. /\ phase'[q] = phase[q] /\ kindIx'[q] = kindIx[q] /\ before'[q] = before[q]
            /\ todo'[q] = todo[q]
        BY <1>t, <2>3, <3>2 DEF FetchPage, TypeOK
      <4>2. /\ seen'[q] = seen[q] /\ saving'[q] = saving[q] /\ fetched'[q] = fetched[q]
        BY <1>t, <2>3, <3>2 DEF FetchPage, TypeOK
      <4> QED
        BY <4>1, <4>2, UntouchedPoller
    <3>3. /\ phase[p] = "fetching" /\ todo[p] = {} /\ seen'[p] = seen[p] /\ saving' = saving
          /\ IsPage(page, Candidates(p)) /\ fetched' = [fetched EXCEPT ![p] = @ \cup page]
      BY <1>t, <1>o, <2>3 DEF FetchPage, TypeOK, BatchInv
    <3>4. CoversHistory(seen[p])'
      BY <1>o, <3>3 DEF CoversHistory
    <3>5. seen[p] = Nil => \A i \in 1..kindIx[p] :
                             Reaches(p, {h \in History : KindOf[h] = KindOrder[i]})'
      BY <3>3, ColdPageReaches
    <3>6. CASE ~KindDone(p, page)
      <4>1. seen[p] # Nil /\ phase' = phase /\ todo' = todo
        BY <2>3, <3>6 DEF FetchPage, KindDone
      <4> QED
        BY <2>t, <3>1, <3>2, <3>3, <3>4, <4>1 DEF HistoryInv, ColdPollInv, BatchInv
    <3>7. CASE KindDone(p, page) /\ kindIx[p] < Len(KindOrder)
      <4>1. /\ phase' = phase /\ todo' = todo
            /\ kindIx'[p] = kindIx[p] + 1 /\ before'[p] = Nil
        BY <1>t, <2>3, <3>7 DEF FetchPage, TypeOK
      <4>2. kindIx'[p] - 1 = kindIx[p]
        BY <1>t, <4>1 DEF TypeOK
      <4>3. ColdPollInv(p)'
        BY <3>3, <3>5, <4>1, <4>2 DEF ColdPollInv
      <4>4. BatchInv(p)'
        BY <3>3, <4>1 DEF BatchInv
      <4> QED
        BY <2>t, <3>1, <3>2, <3>4, <4>3, <4>4 DEF HistoryInv
    <3>8. CASE KindDone(p, page) /\ kindIx[p] = Len(KindOrder) /\ seen[p] = Nil
      <4>1. phase'[p] = "seeding" /\ todo' = todo
        BY <1>t, <2>3, <3>8 DEF FetchPage, TypeOK, ColdStart
      <4>2. ASSUME NEW h \in History PROVE \E e \in fetched'[p] : Time[h] <= Time[e]
        <5>1. PICK i \in 1..Len(KindOrder) : KindOf[h] = KindOrder[i]
          BY KindsPolled
        <5> QED
          BY <3>5, <3>8, <5>1 DEF Reaches
      <4>3. ColdPollInv(p)' /\ BatchInv(p)'
        BY <3>3, <3>8, <4>1, <4>2 DEF ColdPollInv, Reaches, BatchInv
      <4> QED
        BY <2>t, <3>1, <3>2, <3>4, <4>3 DEF HistoryInv
    <3>9. CASE KindDone(p, page) /\ kindIx[p] = Len(KindOrder) /\ seen[p] # Nil
      <4>1. /\ todo'[p] = SelectNew(fetched'[p], seen[p])
            /\ phase'[p] = Ingesting(todo'[p])
        BY <1>t, <2>3, <3>9 DEF FetchPage, TypeOK, ColdStart
      <4>2. ColdPollInv(p)'
        BY <4>1 DEF ColdPollInv, Ingesting
      <4>3. BatchInv(p)'
        BY <3>3, <3>9, <4>1 DEF BatchInv, Ingesting, SelectNew
      <4> QED
        BY <2>t, <3>1, <3>2, <3>4, <4>2, <4>3 DEF HistoryInv
    <3> QED
      BY <1>t, <3>6, <3>7, <3>8, <3>9 DEF TypeOK
  <2>4. ASSUME NEW p \in Pollers, SeedCursor(p) PROVE HistoryInv'
    <3>1. History \subseteq relay' /\ HistoryNeverReplayed'
      BY <1>t, <2>4 DEF SeedCursor, HistoryNeverReplayed
    <3>2. ASSUME NEW q \in Pollers, q # p PROVE Kept(q)
      BY <1>t, <2>4, <3>2, UntouchedPoller DEF SeedCursor, TypeOK
    <3>3. Kept(p)
      BY <1>t, <1>o, <2>4 DEF SeedCursor, TypeOK, BatchInv, ColdPollInv, CoversHistory
    <3>4. Reaches(p, History)
      BY <1>o, <2>4 DEF SeedCursor, ColdPollInv
    <3>5. CoversHistory(cursor)'
      <4>1. CASE UNCHANGED cursor
        BY <1>t, <4>1 DEF CoversHistory
      <4>2. ASSUME NEW newest \in fetched[p], cursor' = Time[newest],
                   \A e \in fetched[p] : Time[e] <= Time[newest]
            PROVE  CoversHistory(cursor)'
        <5>1. fetched[p] \subseteq Events
          BY <1>t DEF TypeOK
        <5>2. ASSUME NEW h \in History PROVE Time[h] <= Time[newest]
          <6>1. PICK e \in fetched[p] : Time[h] <= Time[e]
            BY <3>4 DEF Reaches
          <6>2. Time[h] \in Nat /\ Time[e] \in Nat /\ Time[newest] \in Nat /\ Time[e] <= Time[newest]
            BY <4>2, <5>1
          <6> QED
            BY <6>1, <6>2
        <5> QED
          BY <4>2, <5>2 DEF CoversHistory
      <4> QED
        BY <2>4, <4>1, <4>2 DEF SeedCursor
    <3> QED
      BY <2>t, <3>1, <3>2, <3>3, <3>5 DEF HistoryInv
  <2>5. ASSUME NEW p \in Pollers, NEW e \in Events, HandleNext(p, e) PROVE HistoryInv'
    <3>1. e \in todo[p] /\ Time[e] \in Nat /\ seen[p] # Nil /\ Time[e] > seen[p] /\ seen[p] \in Nat
      BY <1>t, <1>o, <2>5 DEF HandleNext, IsNext, BatchInv, TypeOK
    <3>2. e \notin History
      <4>1. e \in History => Time[e] <= seen[p]
        BY <1>o, <3>1 DEF CoversHistory
      <4> QED
        BY <3>1, <4>1
    <3>3. History \subseteq relay' /\ CoversHistory(cursor)' /\ HistoryNeverReplayed'
      BY <1>t, <2>5, <3>2 DEF HandleNext, CoversHistory, HistoryNeverReplayed
    <3>4. ASSUME NEW q \in Pollers, q # p PROVE Kept(q)
      BY <1>t, <2>5, <3>4, UntouchedPoller DEF HandleNext, TypeOK
    <3>5. Kept(p)
      BY <1>t, <1>o, <2>5, <3>1 DEF HandleNext, TypeOK, BatchInv, ColdPollInv, CoversHistory
    <3> QED
      BY <2>t, <3>3, <3>4, <3>5 DEF HistoryInv
  <2>6. ASSUME NEW p \in Pollers, SaveCursor(p) PROVE HistoryInv'
    <3>1. /\ saving[p] \in todo[p] /\ saving[p] \in Events /\ Time[saving[p]] \in Nat
          /\ seen[p] # Nil /\ seen[p] \in Nat /\ Time[saving[p]] > seen[p]
      BY <1>t, <1>o, <2>6 DEF SaveCursor, BatchInv, TypeOK
    <3>2. ASSUME NEW h \in History PROVE Time[h] <= Time[saving[p]]
      <4>1. Time[h] <= seen[p] /\ Time[h] \in Nat
        BY <1>o, <3>1 DEF CoversHistory
      <4> QED
        BY <3>1, <4>1
    <3>3. History \subseteq relay' /\ CoversHistory(cursor)' /\ HistoryNeverReplayed'
      BY <1>t, <2>6, <3>2 DEF SaveCursor, CoversHistory, HistoryNeverReplayed
    <3>4. ASSUME NEW q \in Pollers, q # p PROVE Kept(q)
      BY <1>t, <2>6, <3>4, UntouchedPoller DEF SaveCursor, TypeOK
    <3>5. Kept(p)
      BY <1>t, <1>o, <2>6, <3>1
         DEF SaveCursor, Ingesting, TypeOK, BatchInv, ColdPollInv, CoversHistory
    <3> QED
      BY <2>t, <3>3, <3>4, <3>5 DEF HistoryInv
  <2>7. ASSUME NEW p \in Pollers, PollFails(p) PROVE HistoryInv'
    <3>1. History \subseteq relay' /\ CoversHistory(cursor)' /\ HistoryNeverReplayed'
      BY <1>t, <2>7 DEF PollFails, CoversHistory, HistoryNeverReplayed
    <3>2. ASSUME NEW q \in Pollers, q # p PROVE Kept(q)
      BY <1>t, <2>7, <3>2, UntouchedPoller DEF PollFails, TypeOK
    <3>3. Kept(p)
      BY <1>t, <1>o, <2>7 DEF PollFails, TypeOK, BatchInv, ColdPollInv, CoversHistory
    <3> QED
      BY <2>t, <3>1, <3>2, <3>3 DEF HistoryInv
  <2> QED
    BY <1>s, <2>1, <2>2, <2>3, <2>4, <2>5, <2>6, <2>7 DEF Next, PollStep
<1> QED
  BY <1>0, <1>s

(* The first state has the invariant: nothing is read, nothing is handled. *)
LEMMA HistoryInit ==
  Init => HistoryInv
<1> USE IngestAssumption
<1>1. 1 \in 1..Len(KindOrder)
  OBVIOUS
<1> QED
  BY <1>1 DEF Init, HistoryInv, TypeOK, Phases, CoversHistory, ColdPollInv, BatchInv, HistoryNeverReplayed

(* For any number of replicas, kinds, page sizes and arrivals, the invariant *)
(* behind the cold start holds in every reachable state.                     *)
THEOREM HistoryInvariance == Spec => []HistoryInv
BY HistoryInit, HistoryStep, PTL DEF Spec

(* No event that was on the relay before the service first started is ever  *)
(* handed to the queue as a live one.                                        *)
THEOREM HistorySafe == Spec => []HistoryNeverReplayed
<1>1. HistoryInv => HistoryNeverReplayed
  BY DEF HistoryInv
<1> QED
  BY <1>1, HistoryInvariance, PTL

--------------------------------------------------------------------------------
(* One replica: the cursor never goes back *)

(* With one poller every step keeps the cursor behind the batch. *)
LEMMA ReplicaStep ==
  ASSUME OneReplica, ReplicaInv, [Next]_vars
  PROVE  /\ ReplicaInv'
         /\ cursor # Nil => cursor' # Nil /\ cursor' >= cursor
<1> USE IngestAssumption
<1> DEFINE Grows == cursor # Nil => cursor' # Nil /\ cursor' >= cursor
<1>t. HistoryInv /\ HistoryInv' /\ TypeOK /\ TypeOK'
  BY HistoryStep DEF ReplicaInv, HistoryInv
<1>b. \A p \in Pollers : BatchInv(p) /\ ColdPollInv(p) /\ FollowsInv(p)
  BY DEF ReplicaInv, HistoryInv
<1>c. cursor \in Nat \cup {Nil}
  BY <1>t DEF TypeOK
<1>r. \A e \in Events : Time[e] \in Nat
  OBVIOUS
<1>0. CASE UNCHANGED vars
  BY <1>0, <1>t, <1>b, <1>c DEF ReplicaInv, FollowsInv, vars, pollVars
<1>1. ASSUME NEW e \in Events, Publish(e) PROVE ReplicaInv' /\ Grows
  BY <1>1, <1>t, <1>b, <1>c DEF Publish, ReplicaInv, FollowsInv, pollVars
<1>2. ASSUME NEW p \in Pollers, StartPoll(p) PROVE FollowsInv(p)' /\ Grows
  BY <1>2, <1>t, <1>b, <1>c DEF StartPoll, FollowsInv, BatchInv, TypeOK
<1>3. ASSUME NEW p \in Pollers, NEW page \in SUBSET Candidates(p), FetchPage(p, page)
      PROVE  FollowsInv(p)' /\ Grows
  <2>1. /\ phase[p] = "fetching" /\ todo[p] = {} /\ seen[p] = cursor
        /\ seen' = seen /\ cursor' = cursor
    BY <1>3, <1>b DEF FetchPage, FollowsInv, BatchInv
  <2>2. CASE ~KindDone(p, page) \/ kindIx[p] < Len(KindOrder)
    <3>1. phase' = phase /\ todo' = todo
      BY <1>3, <1>t, <2>2 DEF FetchPage, TypeOK
    <3> QED
      BY <1>c, <2>1, <3>1 DEF FollowsInv
  <2>3. CASE KindDone(p, page) /\ kindIx[p] = Len(KindOrder) /\ seen[p] = Nil
    <3>1. phase'[p] = "seeding" /\ todo' = todo
      BY <1>3, <1>t, <2>3 DEF FetchPage, ColdStart, TypeOK
    <3> QED
      BY <1>c, <2>1, <3>1 DEF FollowsInv
  <2>4. CASE KindDone(p, page) /\ kindIx[p] = Len(KindOrder) /\ seen[p] # Nil
    <3>1. todo'[p] = SelectNew(fetched'[p], seen[p]) /\ phase'[p] = Ingesting(todo'[p])
      BY <1>3, <1>t, <2>4 DEF FetchPage, ColdStart, TypeOK
    <3>2. \A e \in todo'[p] : Time[e] \in Nat /\ Time[e] > cursor'
      BY <1>t, <1>r, <2>1, <2>4, <3>1 DEF SelectNew, TypeOK
    <3> QED
      BY <1>c, <2>1, <2>4, <3>1, <3>2 DEF FollowsInv, Ingesting
  <2> QED
    BY <1>t, <2>2, <2>3, <2>4 DEF TypeOK
<1>4. ASSUME NEW p \in Pollers, SeedCursor(p) PROVE FollowsInv(p)' /\ Grows
  <2>1. cursor = Nil /\ todo'[p] = {} /\ phase'[p] = "idle"
    BY <1>4, <1>t, <1>b DEF SeedCursor, BatchInv, ColdPollInv, FollowsInv, TypeOK
  <2> QED
    BY <2>1 DEF FollowsInv
<1>5. ASSUME NEW p \in Pollers, NEW e \in Events, HandleNext(p, e) PROVE FollowsInv(p)' /\ Grows
  BY <1>5, <1>t, <1>b, <1>c DEF HandleNext, IsNext, FollowsInv, TypeOK
<1>6. ASSUME NEW p \in Pollers, SaveCursor(p) PROVE FollowsInv(p)' /\ Grows
  <2>1. /\ saving[p] \in todo[p] /\ saving[p] \in Events
        /\ cursor # Nil /\ cursor <= Time[saving[p]]
        /\ seen[p] # Nil /\ seen[p] <= cursor
        /\ \A e \in todo[p] : Time[saving[p]] <= Time[e]
    BY <1>6, <1>b, <1>t DEF SaveCursor, FollowsInv, BatchInv, TypeOK
  <2>2. /\ cursor' = Time[saving[p]] /\ todo'[p] \subseteq todo[p] /\ seen' = seen
        /\ phase'[p] = Ingesting(todo'[p])
    BY <1>6, <1>t DEF SaveCursor, TypeOK
  <2>3. cursor' \in Nat /\ cursor' # Nil
    BY <1>r, <2>1, <2>2
  <2>4. seen[p] \in Nat /\ cursor \in Nat
    BY <1>t, <2>1 DEF TypeOK
  <2>5. cursor <= cursor' /\ seen'[p] # Nil /\ seen'[p] <= cursor'
    BY <2>1, <2>2, <2>3, <2>4
  <2>6. phase'[p] \in {"idle", "enqueueing"}
    BY <2>2 DEF Ingesting
  <2>7. \A e \in todo'[p] : cursor' <= Time[e]
    BY <2>1, <2>2
  <2> QED
    BY <2>3, <2>5, <2>6, <2>7 DEF FollowsInv
<1>7. ASSUME NEW p \in Pollers, PollFails(p) PROVE FollowsInv(p)' /\ Grows
  BY <1>7, <1>t, <1>c DEF PollFails, FollowsInv, TypeOK
<1>8. ASSUME NEW p \in Pollers, PollStep(p) \/ PollFails(p) PROVE ReplicaInv' /\ Grows
  <2>1. FollowsInv(p)' /\ Grows
    BY <1>2, <1>3, <1>4, <1>5, <1>6, <1>7, <1>8 DEF PollStep
  <2>2. \A q \in Pollers : q = p
    BY DEF OneReplica
  <2> QED
    BY <1>t, <2>1, <2>2 DEF ReplicaInv
<1> QED
  BY <1>0, <1>1, <1>8 DEF Next

(* The first state. *)
LEMMA ReplicaInit ==
  Init => ReplicaInv
BY HistoryInit DEF Init, ReplicaInv, FollowsInv

(* With one replica the stored cursor advances monotonically. *)
THEOREM CursorMonotonic ==
  ASSUME OneReplica
  PROVE  Spec => CursorNeverGoesBack
<1>1. ReplicaInv /\ [Next]_vars => ReplicaInv'
  BY ReplicaStep
<1>2. ReplicaInv /\ [Next]_vars => [cursor # Nil => cursor' # Nil /\ cursor' >= cursor]_vars
  BY ReplicaStep
<1> QED
  BY ReplicaInit, <1>1, <1>2, PTL DEF Spec, CursorNeverGoesBack

--------------------------------------------------------------------------------
(* One replica and distinct seconds: an interrupted batch skips nothing *)

(* Every step keeps the unhandled events of the batch newer than the cursor, *)
(* those it drops from the batch included.                                   *)
LEMMA ResumeStep ==
  ASSUME OneReplica, DistinctSeconds, ResumeInv, [Next]_vars
  PROVE  /\ ResumeInv'
         /\ \A p \in Pollers : \A e \in todo[p] \ todo'[p] : e \in handled' \/ Time[e] > cursor'
<1> USE IngestAssumption
<1> DEFINE Resumes(p) == \A e \in todo[p] \ todo'[p] : e \in handled' \/ Time[e] > cursor'
<1>t. ReplicaInv /\ ReplicaInv' /\ TypeOK /\ TypeOK'
  BY ReplicaStep DEF ResumeInv, ReplicaInv, HistoryInv
<1>b. \A p \in Pollers : BatchInv(p) /\ FollowsInv(p) /\ ResumesInv(p)
  BY DEF ResumeInv, ReplicaInv, HistoryInv
<1>r. \A e \in Events : Time[e] \in Nat
  OBVIOUS
<1>0. CASE UNCHANGED vars
  BY <1>0, <1>t, <1>b DEF ResumeInv, ResumesInv, vars, pollVars
<1>1. ASSUME NEW e \in Events, Publish(e) PROVE ResumeInv' /\ \A p \in Pollers : Resumes(p)
  BY <1>1, <1>t, <1>b DEF Publish, ResumeInv, ResumesInv, pollVars
<1>2. ASSUME NEW p \in Pollers, StartPoll(p) PROVE ResumesInv(p)' /\ Resumes(p)
  BY <1>2, <1>t, <1>b DEF StartPoll, ResumesInv, TypeOK
<1>3. ASSUME NEW p \in Pollers, NEW page \in SUBSET Candidates(p), FetchPage(p, page)
      PROVE  ResumesInv(p)' /\ Resumes(p)
  <2>1. /\ phase[p] = "fetching" /\ todo[p] = {} /\ seen[p] = cursor
        /\ handled' = handled /\ cursor' = cursor
    BY <1>3, <1>b DEF FetchPage, FollowsInv, BatchInv
  <2>2. phase'[p] # "saving"
    BY <1>3, <1>t, <2>1 DEF FetchPage, Ingesting, TypeOK
  <2>3. \A e \in todo'[p] : Time[e] > cursor'
    <3>1. todo' = todo \/ (todo'[p] = SelectNew(fetched'[p], seen[p]) /\ seen[p] # Nil)
      BY <1>3, <1>t DEF FetchPage, ColdStart, TypeOK
    <3> QED
      BY <2>1, <3>1 DEF SelectNew
  <2> QED
    BY <2>1, <2>2, <2>3 DEF ResumesInv
<1>4. ASSUME NEW p \in Pollers, SeedCursor(p) PROVE ResumesInv(p)' /\ Resumes(p)
  BY <1>4, <1>t, <1>b DEF SeedCursor, ResumesInv, BatchInv, TypeOK
<1>5. ASSUME NEW p \in Pollers, NEW e \in Events, HandleNext(p, e)
      PROVE  ResumesInv(p)' /\ Resumes(p)
  BY <1>5, <1>t, <1>b DEF HandleNext, ResumesInv, TypeOK
<1>6. ASSUME NEW p \in Pollers, SaveCursor(p) PROVE ResumesInv(p)' /\ Resumes(p)
  <2>1. /\ saving[p] \in todo[p] /\ saving[p] \in Events /\ saving[p] \in handled
        /\ \A e \in todo[p] : e \in Events /\ Time[saving[p]] <= Time[e]
    BY <1>6, <1>b, <1>t DEF SaveCursor, FollowsInv, BatchInv, ResumesInv, TypeOK
  <2>2. /\ cursor' = Time[saving[p]] /\ todo'[p] = todo[p] \ {saving[p]}
        /\ phase'[p] = Ingesting(todo'[p]) /\ handled' = handled
    BY <1>6, <1>t DEF SaveCursor, TypeOK
  <2>3. \A e \in todo'[p] : Time[e] # Time[saving[p]]
    BY <2>1, <2>2 DEF DistinctSeconds
  <2>4. \A e \in todo'[p] : Time[e] > cursor'
    BY <1>r, <2>1, <2>2, <2>3
  <2> QED
    BY <2>1, <2>2, <2>4 DEF ResumesInv, Ingesting
<1>7. ASSUME NEW p \in Pollers, PollFails(p) PROVE ResumesInv(p)' /\ Resumes(p)
  BY <1>7, <1>t, <1>b DEF PollFails, ResumesInv, TypeOK
<1>8. ASSUME NEW p \in Pollers, PollStep(p) \/ PollFails(p)
      PROVE  ResumeInv' /\ \A q \in Pollers : Resumes(q)
  <2>1. ResumesInv(p)' /\ Resumes(p)
    BY <1>2, <1>3, <1>4, <1>5, <1>6, <1>7, <1>8 DEF PollStep
  <2>2. \A q \in Pollers : q = p
    BY DEF OneReplica
  <2> QED
    BY <1>t, <2>1, <2>2 DEF ResumeInv
<1> QED
  BY <1>0, <1>1, <1>8 DEF Next

(* The first state. *)
LEMMA ResumeInit ==
  Init => ResumeInv
BY ReplicaInit DEF Init, ResumeInv, ResumesInv

(* With one replica and no two events of one second, a poll that ends early  *)
(* leaves every event it had selected handled or newer than the cursor.      *)
THEOREM ResumeSafe ==
  ASSUME OneReplica, DistinctSeconds
  PROVE  Spec => []ResumeInv /\ ResumeNeverSkips
<1>1. ResumeInv /\ [Next]_vars => ResumeInv'
  BY ResumeStep
<1>2. ResumeInv /\ [Next]_vars =>
        [\A p \in Pollers : \A e \in todo[p] \ todo'[p] : e \in handled' \/ Time[e] > cursor']_vars
  BY ResumeStep
<1> QED
  BY ResumeInit, <1>1, <1>2, PTL DEF Spec, ResumeNeverSkips

--------------------------------------------------------------------------------
(* The cursor passes nothing that the poll could have selected *)

(* What the invariant says of one poller. *)
PollerInv(p) == fetched[p] \subseteq relay /\ FetchInv(p) /\ SelectInv(p) /\ SavingInv(p)

(* A poller that a step leaves alone keeps its part while the relay stands    *)
(* still and events are handled.                                              *)
LEMMA OtherPollerKeeps ==
  ASSUME NEW q \in Pollers, PollerInv(q), relay' = relay, handled \subseteq handled',
         phase'[q] = phase[q], seen'[q] = seen[q], kindIx'[q] = kindIx[q],
         before'[q] = before[q], fetched'[q] = fetched[q], todo'[q] = todo[q],
         saving'[q] = saving[q], overlooked'[q] = overlooked[q]
  PROVE  PollerInv(q)'
<1>1. FetchInv(q)'
  BY DEF PollerInv, FetchInv, Candidates, HasTwin
<1>2. SelectInv(q)'
  BY DEF PollerInv, SelectInv, HasTwin
<1>3. SavingInv(q)'
  BY DEF PollerInv, SavingInv
<1> QED
  BY <1>1, <1>2, <1>3 DEF PollerInv

(* An event that arrives during a poll is overlooked by it.                   *)
LEMMA ArrivalKeeps ==
  ASSUME TypeOK, NEW q \in Pollers, PollerInv(q), NEW e \in Events, Publish(e)
  PROVE  PollerInv(q)'
<1>1. /\ relay' = relay \cup {e} /\ e \notin relay /\ handled' = handled
      /\ UNCHANGED <<phase, seen, kindIx, before, fetched, todo, saving>>
      /\ phase[q] = "idle" => overlooked'[q] = overlooked[q]
      /\ phase[q] # "idle" => overlooked'[q] = overlooked[q] \cup {e}
  BY DEF Publish
<1>2. e \notin fetched[q] /\ fetched'[q] \subseteq relay'
  BY <1>1 DEF PollerInv
<1>3. FetchInv(q)'
  BY <1>1 DEF PollerInv, FetchInv, Candidates, HasTwin
<1>4. SelectInv(q)'
  BY <1>1, <1>2 DEF PollerInv, SelectInv, HasTwin
<1>5. SavingInv(q)'
  BY <1>1 DEF PollerInv, SavingInv
<1> QED
  BY <1>2, <1>3, <1>4, <1>5 DEF PollerInv

(* A poll begins with everything still to come.                                *)
LEMMA StartKeeps ==
  ASSUME TypeOK, NEW p \in Pollers, StartPoll(p)
  PROVE  PollerInv(p)'
<1>1. /\ phase'[p] = "fetching" /\ kindIx'[p] = 1 /\ before'[p] = Nil /\ fetched'[p] = {}
      /\ relay' = relay /\ relay \subseteq Events
  BY DEF StartPoll, TypeOK
<1>2. ASSUME NEW e \in relay, e \notin Candidates(p)'
      PROVE  \E i \in 2..Len(KindOrder) : KindOf[e] = KindOrder[i]
  <2>1. PICK i \in 1..Len(KindOrder) : KindOf[e] = KindOrder[i]
    BY <1>1, KindsPolled
  <2>2. i # 1
    BY <1>1, <1>2, <2>1 DEF Candidates
  <2>3. Len(KindOrder) \in Nat
    BY IngestAssumption
  <2> QED
    BY <2>1, <2>2, <2>3
<1>3. FetchInv(p)'
  BY <1>1, <1>2 DEF FetchInv
<1> QED
  BY <1>1, <1>3 DEF PollerInv, SelectInv, SavingInv

(* An event that a page leaves out is not newer than any on it.                *)
LEMMA LeftOut ==
  ASSUME TypeOK, NEW p \in Pollers, NEW page, IsPage(page, Candidates(p)),
         NEW e \in Candidates(p), e \notin page
  PROVE  page # {} /\ page # Candidates(p) /\ \A f \in page : Time[e] <= Time[f]
BY PageNotEmpty DEF IsPage

(* Once paging of a kind is over, what it has not fetched is of a later kind,  *)
(* overlooked, or has a twin.                                                  *)
LEMMA KindExhausted ==
  ASSUME TypeOK, NEW p \in Pollers, PollerInv(p), NEW page \in SUBSET Candidates(p),
         FetchPage(p, page), KindDone(p, page), seen[p] # Nil,
         NEW e \in relay, e \notin fetched'[p], e \notin overlooked'[p], Time[e] > seen[p]
  PROVE  \/ \E i \in (kindIx[p] + 1)..Len(KindOrder) : KindOf[e] = KindOrder[i]
         \/ HasTwin(e, fetched'[p])
<1>1. /\ fetched'[p] = fetched[p] \cup page /\ IsPage(page, Candidates(p)) /\ phase[p] = "fetching"
      /\ overlooked'[p] = IF pages[p] + 1 = MaxPages THEN overlooked[p] \cup (Candidates(p) \ page)
                          ELSE overlooked[p]
  BY DEF FetchPage, TypeOK
<1>2. e \notin Candidates(p)
  <2> SUFFICES ASSUME e \in Candidates(p) PROVE FALSE
    OBVIOUS
  <2>1. page # Candidates(p) /\ \A f \in page : Time[e] <= Time[f]
    BY <1>1, LeftOut
  <2>2. pages[p] + 1 # MaxPages
    BY <1>1
  <2>3. PICK f \in page : Time[f] <= seen[p]
    BY <2>1, <2>2 DEF KindDone
  <2>4. Time[e] \in Nat /\ Time[f] \in Nat /\ seen[p] \in Nat
    BY IngestAssumption DEF TypeOK, Candidates
  <2> QED
    BY <2>1, <2>3, <2>4
<1> QED
  BY <1>1, <1>2 DEF PollerInv, FetchInv, HasTwin

(* A page keeps it, up to the selection of the batch.                          *)
LEMMA FetchKeeps ==
  ASSUME TypeOK, NEW p \in Pollers, BatchInv(p), PollerInv(p), NEW page \in SUBSET Candidates(p),
         FetchPage(p, page)
  PROVE  PollerInv(p)'
<1> USE IngestAssumption
<1>1. /\ fetched'[p] = fetched[p] \cup page /\ IsPage(page, Candidates(p)) /\ phase[p] = "fetching"
      /\ seen' = seen /\ relay' = relay /\ handled' = handled /\ page \subseteq relay
      /\ overlooked[p] \subseteq overlooked'[p]
  BY DEF FetchPage, TypeOK, Candidates
<1>2. fetched'[p] \subseteq relay'
  BY <1>1 DEF PollerInv
<1>3. kindIx[p] \in 1..Len(KindOrder) /\ Len(KindOrder) \in Nat
  BY DEF TypeOK
<1>4. CASE ~KindDone(p, page)
  <2>1. PICK oldest \in page : before'[p] = Time[oldest]
    BY <1>4 DEF FetchPage, TypeOK
  <2>2. phase' = phase /\ kindIx' = kindIx
    BY <1>4 DEF FetchPage
  <2>3. ASSUME NEW e \in Candidates(p), e \notin page
        PROVE  e \in Candidates(p)' \/ HasTwin(e, fetched'[p])
    <3>1. Time[e] <= Time[oldest]
      BY <1>1, <2>1, <2>3, LeftOut
    <3>2. Time[e] \in Nat /\ Time[oldest] \in Nat
      BY DEF Candidates, TypeOK
    <3>3. CASE Time[e] = Time[oldest]
      BY <1>1, <2>3, <3>3 DEF HasTwin
    <3>4. CASE Time[e] < Time[oldest]
      BY <1>1, <2>1, <2>2, <3>4 DEF Candidates
    <3> QED
      BY <3>1, <3>2, <3>3, <3>4
  <2>4. FetchInv(p)'
    BY <1>1, <2>2, <2>3 DEF PollerInv, FetchInv, HasTwin
  <2> QED
    BY <1>1, <1>2, <2>2, <2>4 DEF PollerInv, SelectInv, SavingInv
<1>5. CASE KindDone(p, page) /\ kindIx[p] < Len(KindOrder)
  <2>1. phase' = phase /\ kindIx'[p] = kindIx[p] + 1 /\ before'[p] = Nil
    BY <1>5 DEF FetchPage, TypeOK
  <2>2. ASSUME seen[p] # Nil, NEW e \in relay, e \notin fetched'[p], e \notin overlooked'[p],
               Time[e] > seen[p], ~HasTwin(e, fetched'[p]), e \notin Candidates(p)'
        PROVE  \E i \in (kindIx'[p] + 1)..Len(KindOrder) : KindOf[e] = KindOrder[i]
    <3>1. PICK i \in (kindIx[p] + 1)..Len(KindOrder) : KindOf[e] = KindOrder[i]
      BY <1>5, <2>2, KindExhausted
    <3>2. i # kindIx[p] + 1
      BY <1>1, <2>1, <2>2, <3>1 DEF Candidates
    <3> QED
      BY <1>3, <2>1, <3>1, <3>2
  <2>3. FetchInv(p)'
    BY <1>1, <2>1, <2>2 DEF FetchInv
  <2> QED
    BY <1>1, <1>2, <2>1, <2>3 DEF PollerInv, SelectInv, SavingInv
<1>6. CASE KindDone(p, page) /\ kindIx[p] = Len(KindOrder) /\ seen[p] = Nil
  <2>1. phase'[p] = "seeding"
    BY <1>6 DEF FetchPage, ColdStart, TypeOK
  <2> QED
    BY <1>2, <2>1 DEF PollerInv, FetchInv, SelectInv, SavingInv
<1>7. CASE KindDone(p, page) /\ kindIx[p] = Len(KindOrder) /\ seen[p] # Nil
  <2>1. /\ todo'[p] = SelectNew(fetched'[p], seen[p])
        /\ phase'[p] = Ingesting(todo'[p])
    BY <1>7 DEF FetchPage, ColdStart, TypeOK
  <2>2. ASSUME NEW e \in relay, e \notin todo'[p], Time[e] > seen[p], e \notin overlooked'[p]
        PROVE  HasTwin(e, todo'[p])
    <3>1. e \notin fetched'[p]
      BY <2>1, <2>2 DEF SelectNew
    <3>2. HasTwin(e, fetched'[p])
      BY <1>3, <1>7, <2>2, <3>1, KindExhausted
    <3> QED
      BY <2>1, <2>2, <3>2 DEF HasTwin, SelectNew
  <2>3. ASSUME NEW e \in relay, e \notin todo'[p], Time[e] > seen[p]
        PROVE  e \notin fetched'[p]
    BY <2>1, <2>3 DEF SelectNew
  <2>4. SelectInv(p)'
    BY <1>1, <2>2, <2>3 DEF SelectInv, HasTwin
  <2> QED
    BY <1>2, <2>1, <2>4 DEF PollerInv, FetchInv, SavingInv, Ingesting
<1> QED
  BY <1>3, <1>4, <1>5, <1>6, <1>7

(* Handling and saving keep the batch complete: an event leaves it handled.    *)
LEMMA BatchKeeps ==
  ASSUME TypeOK, NEW p \in Pollers, PollerInv(p),
         \/ \E e \in Events : HandleNext(p, e)
         \/ SaveCursor(p) \/ SeedCursor(p) \/ PollFails(p)
  PROVE  PollerInv(p)'
<1>1. fetched'[p] \subseteq relay' /\ phase'[p] # "fetching"
  BY DEF HandleNext, SaveCursor, SeedCursor, PollFails, Ingesting, PollerInv, TypeOK
<1>2. FetchInv(p)'
  BY <1>1 DEF FetchInv
<1>3. ASSUME NEW e \in Events, HandleNext(p, e)
      PROVE  PollerInv(p)'
  BY <1>1, <1>2, <1>3 DEF HandleNext, IsNext, PollerInv, SelectInv, SavingInv, HasTwin, TypeOK
<1>4. CASE SaveCursor(p)
  <2>1. /\ phase[p] = "saving" /\ saving[p] \in handled /\ todo'[p] = todo[p] \ {saving[p]}
        /\ phase'[p] = Ingesting(todo'[p]) /\ handled' = handled /\ relay' = relay
        /\ UNCHANGED <<seen, fetched, overlooked>>
    BY <1>4 DEF SaveCursor, PollerInv, SavingInv, TypeOK
  <2>2. handled' \cup todo'[p] = handled \cup todo[p]
    BY <2>1
  <2>3. phase'[p] # "saving"
    BY <2>1 DEF Ingesting
  <2>4. SelectInv(p)
    BY DEF PollerInv
  <2>5. SelectInv(p)'
    <3> SUFFICES ASSUME NEW e \in relay, e \notin handled \cup todo[p], Time[e] > seen[p]
                 PROVE  e \in overlooked[p] \ fetched[p] \/ HasTwin(e, handled \cup todo[p])
      BY <2>1, <2>2 DEF SelectInv, HasTwin
    <3> QED
      BY <2>1, <2>4 DEF SelectInv
  <2> QED
    BY <1>1, <1>2, <2>3, <2>5 DEF PollerInv, SavingInv
<1>5. CASE SeedCursor(p) \/ PollFails(p)
  <2>1. phase'[p] = "idle"
    BY <1>5 DEF SeedCursor, PollFails, TypeOK
  <2> QED
    BY <1>1, <1>2, <2>1 DEF PollerInv, SelectInv, SavingInv
<1> QED
  BY <1>3, <1>4, <1>5

(* Every step keeps the invariant.                                             *)
LEMMA SelectionStep ==
  ASSUME SelectionInv, [Next]_vars
  PROVE  SelectionInv'
<1>t. HistoryInv /\ HistoryInv' /\ TypeOK
  BY HistoryStep DEF SelectionInv, HistoryInv
<1>p. \A p \in Pollers : PollerInv(p) /\ BatchInv(p)
  BY <1>t DEF SelectionInv, PollerInv, HistoryInv
<1>q. (\A p \in Pollers : PollerInv(p)') => SelectionInv'
  BY <1>t DEF SelectionInv, PollerInv
<1>0. CASE UNCHANGED vars
  <2> SUFFICES ASSUME NEW q \in Pollers PROVE PollerInv(q)'
    BY <1>q
  <2> QED
    BY <1>0, <1>p, OtherPollerKeeps DEF vars, pollVars
<1>1. ASSUME NEW e \in Events, Publish(e)
      PROVE  SelectionInv'
  BY <1>1, <1>t, <1>p, <1>q, ArrivalKeeps
<1>2. ASSUME NEW p \in Pollers, PollStep(p) \/ PollFails(p)
      PROVE  SelectionInv'
  <2>1. PollerInv(p)'
    BY <1>2, <1>t, <1>p, StartKeeps, FetchKeeps, BatchKeeps DEF PollStep
  <2>2. ASSUME NEW q \in Pollers, q # p
        PROVE  PollerInv(q)'
    <3>1. relay' = relay /\ handled \subseteq handled'
      BY <1>2 DEF PollStep, StartPoll, FetchPage, SeedCursor, HandleNext, SaveCursor, PollFails
    <3>2. /\ phase'[q] = phase[q] /\ seen'[q] = seen[q] /\ kindIx'[q] = kindIx[q]
          /\ before'[q] = before[q]
      BY <1>2, <1>t, <2>2
         DEF PollStep, StartPoll, FetchPage, SeedCursor, HandleNext, SaveCursor, PollFails, TypeOK
    <3>3. /\ fetched'[q] = fetched[q] /\ todo'[q] = todo[q] /\ saving'[q] = saving[q]
          /\ overlooked'[q] = overlooked[q]
      BY <1>2, <1>t, <2>2
         DEF PollStep, StartPoll, FetchPage, SeedCursor, HandleNext, SaveCursor, PollFails, TypeOK
    <3> QED
      BY <1>p, <3>1, <3>2, <3>3, OtherPollerKeeps
  <2> QED
    BY <1>q, <2>1, <2>2
<1> QED
  BY <1>0, <1>1, <1>2 DEF Next

(* The first state. *)
LEMMA SelectionInit ==
  Init => SelectionInv
BY HistoryInit DEF Init, SelectionInv, FetchInv, SelectInv, SavingInv

(* A step that moves the cursor past an event that is not handled is a cold    *)
(* start's, or the save of a poll whose batch lacks the event.                 *)
LEMMA PassesStep ==
  ASSUME SelectionInv, Next, NEW e \in relay, e \notin handled,
         cursor # Nil, cursor < Time[e], Time[e] <= cursor'
  PROVE  \/ HasTwin(e, handled)
         \/ \E p \in Pollers : (SeedCursor(p) \/ SaveCursor(p)) /\ NotSelected(p, e)
<1> USE IngestAssumption
<1>t. TypeOK /\ cursor \in Nat /\ e \in Events /\ Time[e] \in Nat
  BY DEF SelectionInv, HistoryInv, TypeOK
<1>1. cursor' # cursor
  BY <1>t
<1>2. PICK p \in Pollers : SeedCursor(p) \/ SaveCursor(p)
  BY <1>1 DEF Next, PollStep, Publish, StartPoll, FetchPage, HandleNext, PollFails
<1>3. CASE SeedCursor(p)
  <2>1. seen[p] = Nil
    BY <1>3 DEF SelectionInv, HistoryInv, ColdPollInv, SeedCursor
  <2> QED
    BY <1>3, <2>1 DEF NotSelected
<1>4. CASE SaveCursor(p)
  <2>1. /\ phase[p] = "saving" /\ cursor' = Time[saving[p]]
        /\ saving[p] \in handled /\ \A f \in todo[p] : Time[saving[p]] <= Time[f]
        /\ SelectInv(p) /\ saving[p] \in Events /\ todo[p] \subseteq Events
    BY <1>4, <1>t DEF SaveCursor, SelectionInv, HistoryInv, SavingInv, BatchInv, TypeOK
  <2>2. ASSUME NEW f \in todo[p], Time[f] = Time[e]
        PROVE  HasTwin(e, handled)
    <3>1. Time[saving[p]] = Time[e]
      BY <1>t, <2>1, <2>2
    <3> QED
      BY <2>1, <3>1 DEF HasTwin
  <2>3. CASE e \in todo[p]
    BY <2>2, <2>3
  <2>4. CASE e \notin todo[p] /\ Time[e] > seen[p]
    <3>1. e \in overlooked[p] \ fetched[p] \/ HasTwin(e, handled \cup todo[p])
      BY <2>1, <2>4 DEF SelectInv
    <3> QED
      BY <1>4, <2>2, <3>1 DEF NotSelected, HasTwin
  <2>5. CASE ~(Time[e] > seen[p])
    BY <1>4, <1>t, <2>5 DEF NotSelected, TypeOK
  <2> QED
    BY <2>3, <2>4, <2>5
<1> QED
  BY <1>2, <1>3, <1>4

(* For any replicas, kinds, page sizes, page limits and arrivals: the cursor   *)
(* passes an event that is not handled only when no page of the poll showed    *)
(* it, the poll began cold or with a newer cursor, or another event of its     *)
(* second was handled (run_rest_ingest_once, select_new_events).               *)
THEOREM OnlyOverlookedPassed == Spec => []SelectionInv /\ PassesOnlyOverlooked
<1>1. SelectionInv /\ [Next]_vars => SelectionInv'
  BY SelectionStep
<1>2. SelectionInv /\ [Next]_vars =>
        [\A e \in relay \ handled :
           cursor # Nil /\ cursor < Time[e] /\ Time[e] <= cursor' =>
             \/ HasTwin(e, handled)
             \/ \E p \in Pollers : (SeedCursor(p) \/ SaveCursor(p)) /\ NotSelected(p, e)]_vars
  BY PassesStep
<1> QED
  BY SelectionInit, <1>1, <1>2, PTL DEF Spec, PassesOnlyOverlooked

(* With one replica only two reasons are left: no page of the poll showed the  *)
(* event, or another of its second was handled. The poll that moves the cursor *)
(* is the one that read it, so it began neither cold nor ahead.                *)
THEOREM PassedInOneReplica ==
  ASSUME OneReplica
  PROVE  Spec =>
           [][\A e \in relay \ handled :
                cursor # Nil /\ cursor < Time[e] /\ Time[e] <= cursor' =>
                  \/ HasTwin(e, handled)
                  \/ \E p \in Pollers : e \in overlooked[p] \ fetched[p]]_vars
<1>1. SelectionInv /\ ReplicaInv /\ [Next]_vars =>
        [\A e \in relay \ handled :
           cursor # Nil /\ cursor < Time[e] /\ Time[e] <= cursor' =>
             \/ HasTwin(e, handled)
             \/ \E p \in Pollers : e \in overlooked[p] \ fetched[p]]_vars
  <2> SUFFICES ASSUME SelectionInv, ReplicaInv, Next, NEW e \in relay, e \notin handled,
                      cursor # Nil, cursor < Time[e], Time[e] <= cursor'
               PROVE  \/ HasTwin(e, handled)
                      \/ \E p \in Pollers : e \in overlooked[p] \ fetched[p]
    OBVIOUS
  <2>1. ASSUME NEW p \in Pollers, SeedCursor(p) \/ SaveCursor(p), NotSelected(p, e)
        PROVE  e \in overlooked[p] \ fetched[p]
    <3>1. TypeOK /\ FollowsInv(p) /\ ColdPollInv(p)
      BY DEF ReplicaInv, HistoryInv
    <3>2. SaveCursor(p) /\ seen[p] # Nil /\ seen[p] <= cursor
      BY <2>1, <3>1 DEF SeedCursor, SaveCursor, FollowsInv, ColdPollInv
    <3>3. seen[p] \in Nat /\ cursor \in Nat /\ Time[e] \in Nat
      BY <3>1, <3>2, IngestAssumption DEF TypeOK
    <3> QED
      BY <2>1, <3>2, <3>3 DEF NotSelected
  <2> QED
    BY <2>1, PassesStep
<1>2. Spec => []SelectionInv
  BY OnlyOverlookedPassed, PTL
<1>3. Spec => []ReplicaInv
  <2>1. ReplicaInv /\ [Next]_vars => ReplicaInv'
    BY ReplicaStep
  <2> QED
    BY ReplicaInit, <2>1, PTL DEF Spec
<1> QED
  BY <1>1, <1>2, <1>3, PTL DEF Spec

================================================================================
