------------------------------- MODULE LiveIngest ------------------------------
(***************************************************************************)
(* Live ingest: each replica polls the REST view of the relay, page by     *)
(* page and kind by kind, hands the events newer than the stored cursor to *)
(* the publish queue, oldest first, and advances the cursor after each.    *)
(* The replicas share one row of ingest_offsets. What an event does to the *)
(* queue is the business of PublishQueue; here it is only handled or not.  *)
(***************************************************************************)
EXTENDS Naturals, Sequences, FiniteSets

CONSTANTS
  Events,       \* the video events that may appear on the relay
  History,      \* those that were there before the service first started
  Time,         \* Time[e]: created_at, in seconds
  KindOf,       \* KindOf[e]
  KindOrder,    \* REST_INGEST_KINDS, the kinds in polling order
  Limit,        \* REST_INGEST_LIMIT, the events of a page
  MaxPages,     \* REST_INGEST_MAX_PAGES, the pages of one kind and poll
  Pollers,      \* the replicas that poll
  InOrder,      \* whether events reach the relay in the order of created_at
  Nil

ASSUME IngestAssumption ==
  /\ IsFiniteSet(Events) /\ History \subseteq Events
  /\ Time \in [Events -> Nat]
  /\ KindOrder \in Seq(STRING) /\ Len(KindOrder) > 0
  /\ KindOf \in [Events -> {KindOrder[i] : i \in 1..Len(KindOrder)}]
  /\ Limit \in Nat \ {0} /\ MaxPages \in Nat \ {0}
  /\ InOrder \in BOOLEAN
  /\ Nil \notin Nat \cup Events

VARIABLES
  relay,     \* the events the REST view holds
  cursor,    \* ingest_offsets.last_created_at
  handled,   \* the events handed to the publish queue
  phase,     \* where each poller is in run_rest_ingest_once
  seen,      \* the cursor its poll started from
  kindIx,    \* the kind it fetches
  before,    \* the page bound it passes
  pages,     \* the pages it has read of that kind
  fetched,   \* the events of all its pages
  todo,      \* the selected events it has not finished with
  saving,    \* the event it has handled and not yet put in the cursor
  overlooked \* history: the events its poll has no page for, because they
             \* arrived after it began or lie below the last page allowed

pollVars == <<phase, seen, kindIx, before, pages, fetched, todo, saving, overlooked>>
vars == <<relay, cursor, handled, pollVars>>

Phases == {"idle", "fetching", "seeding", "enqueueing", "saving"}

TypeOK ==
  /\ relay \subseteq Events
  /\ cursor \in Nat \cup {Nil}
  /\ handled \subseteq Events
  /\ phase \in [Pollers -> Phases]
  /\ seen \in [Pollers -> Nat \cup {Nil}]
  /\ kindIx \in [Pollers -> 1..Len(KindOrder)]
  /\ before \in [Pollers -> Nat \cup {Nil}]
  /\ pages \in [Pollers -> 0..(MaxPages - 1)]
  /\ fetched \in [Pollers -> SUBSET Events]
  /\ todo \in [Pollers -> SUBSET Events]
  /\ saving \in [Pollers -> Events \cup {Nil}]
  /\ overlooked \in [Pollers -> SUBSET Events]

Init ==
  /\ relay = History
  /\ cursor = Nil
  /\ handled = {}
  /\ phase = [p \in Pollers |-> "idle"]
  /\ seen = [p \in Pollers |-> Nil]
  /\ kindIx = [p \in Pollers |-> 1]
  /\ before = [p \in Pollers |-> Nil]
  /\ pages = [p \in Pollers |-> 0]
  /\ fetched = [p \in Pollers |-> {}]
  /\ todo = [p \in Pollers |-> {}]
  /\ saving = [p \in Pollers |-> Nil]
  /\ overlooked = [p \in Pollers |-> {}]

--------------------------------------------------------------------------------
(* The relay (external) *)

Publish(e) ==
  /\ e \notin relay
  /\ InOrder => \A old \in relay : Time[old] <= Time[e]
  /\ relay' = relay \cup {e}
  /\ overlooked' = [p \in Pollers |->
                      IF phase[p] = "idle" THEN overlooked[p] ELSE overlooked[p] \cup {e}]
  /\ UNCHANGED <<cursor, handled, phase, seen, kindIx, before, pages, fetched, todo, saving>>

CandidatesOffByOne(p) ==
  {e \in relay : KindOf[e] = KindOrder[kindIx[p]] /\ (before[p] # Nil => Time[e] + 1 < before[p])}
(* What the REST view can return to poller p: events of its kind below its *)
(* bound.                                                                    *)
Candidates(p) ==
  {e \in relay : KindOf[e] = KindOrder[kindIx[p]] /\ (before[p] # Nil => Time[e] < before[p])}

(* sort=recent: the newest Limit candidates, or all of them. *)
IsPage(page, candidates) ==
  /\ page \subseteq candidates
  /\ \/ page = candidates /\ Cardinality(page) <= Limit
     \/ Cardinality(page) = Limit
  /\ \A e \in page, f \in candidates \ page : Time[f] <= Time[e]

--------------------------------------------------------------------------------
(* One poll *)

StartPoll(p) ==
  /\ phase[p] = "idle"
  /\ phase' = [phase EXCEPT ![p] = "fetching"]
  /\ seen' = [seen EXCEPT ![p] = cursor]
  /\ kindIx' = [kindIx EXCEPT ![p] = 1]
  /\ before' = [before EXCEPT ![p] = Nil]
  /\ pages' = [pages EXCEPT ![p] = 0]
  /\ fetched' = [fetched EXCEPT ![p] = {}]
  /\ overlooked' = [overlooked EXCEPT ![p] = {}]
  /\ UNCHANGED <<relay, cursor, handled, todo, saving>>

(* A kind is done at an empty or last page, at the cursor, at MaxPages, and *)
(* on a cold start after one page.                                           *)
KindDoneUncapped(p, page) ==
  \/ seen[p] = Nil
  \/ page = Candidates(p)
  \/ seen[p] # Nil /\ \E e \in page : Time[e] <= seen[p]
KindDoneAtOnce(p, page) == TRUE
KindDone(p, page) ==
  \/ seen[p] = Nil
  \/ page = Candidates(p)
  \/ seen[p] # Nil /\ \E e \in page : Time[e] <= seen[p]
  \/ pages[p] + 1 = MaxPages

SelectFromCursorOn(events, from) == {e \in events : from # Nil => Time[e] >= from}
(* Strictly newer than the cursor the poll started from. *)
SelectNew(events, from) == {e \in events : from # Nil => Time[e] > from}

(* The poll that has nothing left to do is over. *)
Ingesting(events) == IF events = {} THEN "idle" ELSE "enqueueing"

ColdStartReplays(p) == FALSE
ColdStart(p) == seen[p] = Nil

FetchPage(p, page) ==
  /\ phase[p] = "fetching"
  /\ IsPage(page, Candidates(p))
  /\ fetched' = [fetched EXCEPT ![p] = @ \cup page]
  /\ overlooked' = [overlooked EXCEPT
                      ![p] = IF pages[p] + 1 = MaxPages THEN @ \cup (Candidates(p) \ page) ELSE @]
  /\ \/ /\ ~KindDone(p, page)
        /\ \E oldest \in page :
             /\ \A e \in page : Time[oldest] <= Time[e]
             /\ before' = [before EXCEPT ![p] = Time[oldest]]
        /\ pages' = [pages EXCEPT ![p] = @ + 1]
        /\ UNCHANGED <<phase, kindIx, todo>>
     \/ /\ KindDone(p, page)
        /\ kindIx[p] < Len(KindOrder)
        /\ kindIx' = [kindIx EXCEPT ![p] = @ + 1]
        /\ before' = [before EXCEPT ![p] = Nil]
        /\ pages' = [pages EXCEPT ![p] = 0]
        /\ UNCHANGED <<phase, todo>>
     \/ /\ KindDone(p, page)
        /\ kindIx[p] = Len(KindOrder)
        /\ IF ColdStart(p)
           THEN phase' = [phase EXCEPT ![p] = "seeding"] /\ UNCHANGED todo
           ELSE /\ todo' = [todo EXCEPT ![p] = SelectNew(fetched'[p], seen[p])]
                /\ phase' = [phase EXCEPT ![p] = Ingesting(todo'[p])]
        /\ UNCHANGED <<kindIx, before, pages>>
  /\ UNCHANGED <<relay, cursor, handled, seen, saving>>

(* Cold start: the cursor begins at the newest event, nothing is handled. *)
SeedCursor(p) ==
  /\ phase[p] = "seeding"
  /\ \/ fetched[p] = {} /\ UNCHANGED cursor
     \/ \E newest \in fetched[p] :
          /\ \A e \in fetched[p] : Time[e] <= Time[newest]
          /\ cursor' = Time[newest]
  /\ phase' = [phase EXCEPT ![p] = "idle"]
  /\ UNCHANGED <<relay, handled, seen, kindIx, before, pages, fetched, todo, saving,
                 overlooked>>

(* Oldest first. Events of one second are in the order of their ids, which  *)
(* tells nothing about their age.                                            *)
IsNextAny(e, events) == e \in events
IsNext(e, events) == e \in events /\ \A f \in events : Time[e] <= Time[f]

(* enqueue_live_event: the decision about the event reaches the queue ... *)
HandleNext(p, e) ==
  /\ phase[p] = "enqueueing"
  /\ IsNext(e, todo[p])
  /\ handled' = handled \cup {e}
  /\ saving' = [saving EXCEPT ![p] = e]
  /\ phase' = [phase EXCEPT ![p] = "saving"]
  /\ UNCHANGED <<relay, cursor, seen, kindIx, before, pages, fetched, todo, overlooked>>

(* ... and only then the cursor. *)
SaveCursor(p) ==
  /\ phase[p] = "saving"
  /\ cursor' = Time[saving[p]]
  /\ todo' = [todo EXCEPT ![p] = @ \ {saving[p]}]
  /\ saving' = [saving EXCEPT ![p] = Nil]
  /\ phase' = [phase EXCEPT ![p] = Ingesting(todo'[p])]
  /\ UNCHANGED <<relay, handled, seen, kindIx, before, pages, fetched, overlooked>>

(* A REST or database error, or a restart, ends the poll where it is. *)
PollFails(p) ==
  /\ phase[p] # "idle"
  /\ phase' = [phase EXCEPT ![p] = "idle"]
  /\ todo' = [todo EXCEPT ![p] = {}]
  /\ saving' = [saving EXCEPT ![p] = Nil]
  /\ UNCHANGED <<relay, cursor, handled, seen, kindIx, before, pages, fetched, overlooked>>

PollStep(p) ==
  \/ StartPoll(p)
  \/ \E page \in SUBSET Candidates(p) : FetchPage(p, page)
  \/ SeedCursor(p)
  \/ \E e \in Events : HandleNext(p, e)
  \/ SaveCursor(p)

Next ==
  \/ \E e \in Events : Publish(e)
  \/ \E p \in Pollers : PollStep(p) \/ PollFails(p)

Spec == Init /\ [][Next]_vars

--------------------------------------------------------------------------------
(* Safety *)

(* "a mid-batch failure then resumes, never skips": whatever ends a poll,   *)
(* an event it had selected is handled or still newer than the cursor.      *)
ResumeNeverSkips ==
  [][\A p \in Pollers : \A e \in todo[p] \ todo'[p] : e \in handled' \/ Time[e] > cursor']_vars

(* "we never replay all history as live crossposts": no event that was on   *)
(* the relay before the service first started is ever handled as live, even *)
(* when several replicas start cold together.                                *)
HistoryNeverReplayed == handled \cap History = {}

(* "the per-event cursor advances monotonically" (with one replica). *)
CursorNeverGoesBack == [][cursor # Nil => cursor' # Nil /\ cursor' >= cursor]_vars

(* Why the poll of p does not select e: no page showed it, or the poll began *)
(* without a cursor or with a newer one.                                      *)
NotSelected(p, e) ==
  \/ e \in overlooked[p] \ fetched[p]
  \/ seen[p] = Nil
  \/ Time[e] <= seen[p]

HasTwin(e, events) == \E f \in events \ {e} : Time[f] = Time[e]

(* The poll fetches two kinds newest first, each up to a last page, and       *)
(* handles oldest first, while the relay goes on receiving and other replicas *)
(* poll. When the cursor passes an event that is not handled, that event      *)
(* arrived after the poll began, was below the last page allowed, shares its  *)
(* second with one that was handled, or was newer than the cursor only        *)
(* because another replica had set that back: no order of pages, kinds,       *)
(* batches and failures loses any other. (An event that arrives with a time   *)
(* at or below the cursor is not passed: it is old when it comes.)            *)
PassesOnlyOverlooked ==
  [][\A e \in relay \ handled :
       cursor # Nil /\ cursor < Time[e] /\ Time[e] <= cursor' =>
         \/ HasTwin(e, handled)
         \/ \E p \in Pollers : (SeedCursor(p) \/ SaveCursor(p)) /\ NotSelected(p, e)]_vars

(* With one replica, one kind and events that arrive in order, all the polls *)
(* and pages together are a feed: every event after the one a cold start      *)
(* begins at goes to the queue in the order of age, whatever breaks off.      *)
Feed == INSTANCE EventFeed
ImplementsFeed == Feed!FeedSpec

--------------------------------------------------------------------------------
(* The inductive invariants behind them *)

(* A cursor that is set covers the whole history. *)
CoversHistory(c) == c # Nil => \A h \in History : Time[h] <= c

(* The pages of a cold poll reach at least as far as the events of the set. *)
Reaches(p, events) == \A h \in events : \E e \in fetched[p] : Time[h] <= Time[e]

(* A cold poll has seen the newest event of every kind it is done with. *)
ColdPollInv(p) ==
  /\ phase[p] = "fetching" /\ seen[p] = Nil =>
       /\ before[p] = Nil
       /\ \A i \in 1..(kindIx[p] - 1) : Reaches(p, {h \in History : KindOf[h] = KindOrder[i]})
  /\ phase[p] = "seeding" => seen[p] = Nil /\ Reaches(p, History)

(* A batch holds events newer than the cursor its poll started from. *)
BatchInv(p) ==
  /\ phase[p] \notin {"enqueueing", "saving"} => todo[p] = {}
  /\ \A e \in todo[p] : seen[p] # Nil /\ Time[e] > seen[p]
  /\ phase[p] = "saving" => saving[p] \in todo[p]

HistoryInv ==
  /\ TypeOK
  /\ History \subseteq relay
  /\ CoversHistory(cursor)
  /\ \A p \in Pollers : CoversHistory(seen[p]) /\ ColdPollInv(p) /\ BatchInv(p)
  /\ HistoryNeverReplayed

(* With one replica the cursor moves only with the poll that read it. *)
OneReplica == \A p, q \in Pollers : p = q
DistinctSeconds == \A e, f \in Events : Time[e] = Time[f] => e = f

(* Until the batch begins the cursor is the one the poll started from; then *)
(* it follows the batch from behind.                                         *)
FollowsInv(p) ==
  /\ phase[p] \in {"fetching", "seeding"} => seen[p] = cursor
  /\ phase[p] \in {"enqueueing", "saving"} =>
       cursor # Nil /\ seen[p] # Nil /\ seen[p] <= cursor
  /\ \A e \in todo[p] : cursor <= Time[e]
  /\ phase[p] = "saving" => \A e \in todo[p] : Time[saving[p]] <= Time[e]

(* An event of the batch is newer than the cursor until it is handled. *)
ResumesInv(p) ==
  /\ \A e \in todo[p] : e \in handled \/ Time[e] > cursor
  /\ phase[p] = "saving" => saving[p] \in handled

ReplicaInv == HistoryInv /\ \A p \in Pollers : FollowsInv(p)
ResumeInv == ReplicaInv /\ \A p \in Pollers : ResumesInv(p)

(* What a warm poll has not fetched of the events newer than its cursor is    *)
(* still to come, overlooked, or shares the second that ends a page.          *)
FetchInv(p) ==
  phase[p] = "fetching" /\ seen[p] # Nil =>
    \A e \in relay \ (fetched[p] \cup overlooked[p]) : Time[e] > seen[p] =>
      \/ e \in Candidates(p)
      \/ \E i \in (kindIx[p] + 1)..Len(KindOrder) : KindOf[e] = KindOrder[i]
      \/ HasTwin(e, fetched[p])

(* What the batch lacks is handled, overlooked, or has a twin in it.          *)
SelectInv(p) ==
  phase[p] \in {"enqueueing", "saving"} =>
    \A e \in relay \ (handled \cup todo[p]) : Time[e] > seen[p] =>
      e \in overlooked[p] \ fetched[p] \/ HasTwin(e, handled \cup todo[p])

(* The event being saved is handled and the oldest of its batch.              *)
SavingInv(p) ==
  phase[p] = "saving" =>
    saving[p] \in handled /\ \A e \in todo[p] : Time[saving[p]] <= Time[e]

SelectionInv ==
  /\ HistoryInv
  /\ \A p \in Pollers : fetched[p] \subseteq relay /\ FetchInv(p) /\ SelectInv(p) /\ SavingInv(p)

--------------------------------------------------------------------------------
(* Liveness *)

(* The poll loop ticks for ever. *)
FairSpec == Spec /\ \A p \in Pollers : WF_vars(PollStep(p))

(* Once polls stop failing, an event newer than the cursor is handled.      *)
EventuallyHandled ==
  <>[][~\E p \in Pollers : PollFails(p)]_vars =>
    \A e \in Events : (e \in relay /\ cursor # Nil /\ Time[e] > cursor) ~> e \in handled
================================================================================
