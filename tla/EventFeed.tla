-------------------------------- MODULE EventFeed -------------------------------
(***************************************************************************)
(* What live ingest promises, with no poll, no page and no batch in sight: *)
(* it begins at some event that nothing of the history is newer than, and  *)
(* from there on every event goes to the publish queue, in the order of     *)
(* their age; the cursor follows over events that are handled and past no   *)
(* other.                                                                    *)
(*                                                                         *)
(* TLC shows that LiveIngest implements this specification where one        *)
(* replica polls one kind and the events arrive in order, at distinct        *)
(* seconds; what a poll of two kinds passes over is in LiveIngest itself.    *)
(***************************************************************************)
EXTENDS Naturals

CONSTANTS
  Events,   \* the events that may appear on the relay
  History,  \* those that were there before the service first started
  Time,     \* Time[e]: created_at
  Nil       \* no cursor

VARIABLES
  relay,    \* the events of the relay
  cursor,   \* the stored cursor
  handled   \* the events handed to the publish queue

feedVars == <<relay, cursor, handled>>

FeedInit ==
  /\ relay = History
  /\ cursor = Nil
  /\ handled = {}

Newer(e) == cursor # Nil /\ Time[e] > cursor

(* An event appears that is newer than every other. *)
Appear(e) ==
  /\ \A old \in relay : Time[old] < Time[e]
  /\ relay' = relay \cup {e}
  /\ UNCHANGED <<cursor, handled>>

(* The feed begins; what it begins at and before is never handled. *)
Begin(e) ==
  /\ cursor = Nil
  /\ e \in relay
  /\ \A h \in History : Time[h] <= Time[e]
  /\ cursor' = Time[e]
  /\ UNCHANGED <<relay, handled>>

(* Of the events that are due, the oldest goes to the queue. *)
Deliver(e) ==
  /\ e \in relay \ handled /\ Newer(e)
  /\ \A f \in relay \ handled : Newer(f) => Time[e] <= Time[f]
  /\ handled' = handled \cup {e}
  /\ UNCHANGED <<relay, cursor>>

(* The cursor moves to a handled event and passes no other. *)
Advance(e) ==
  /\ e \in handled /\ Newer(e)
  /\ \A f \in relay : Newer(f) /\ Time[f] <= Time[e] => f \in handled
  /\ cursor' = Time[e]
  /\ UNCHANGED <<relay, handled>>

FeedNext == \E e \in Events : Appear(e) \/ Begin(e) \/ Deliver(e) \/ Advance(e)

FeedSpec == FeedInit /\ [][FeedNext]_feedVars

================================================================================
