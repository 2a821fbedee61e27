----------------------------- MODULE CrosspostSlot -----------------------------
(***************************************************************************)
(* What the bridge promises about the repository of one linked account,   *)
(* with no queue, no worker and no lease in sight: every queued job owns   *)
(* at most one record key, no key has two owners, a video has at most one  *)
(* record content, and that content is the only thing that ever appears in *)
(* the repository, and only at the key the video owns.                     *)
(*                                                                         *)
(* PublishQueue is shown to implement this specification.                  *)
(***************************************************************************)
CONSTANTS
  Jobs,     \* the queued Nostr events
  Videos,   \* the jobs that write a record
  Rkeys,    \* the record keys of the repository
  Blobs,    \* the blob references a prepared record may embed
  Nil       \* no key, no record

VARIABLES
  slot,     \* slot[j]: the key reserved for job j
  intent,   \* intent[v]: the one record video v may publish
  repo      \* repo[r]: the record the PDS holds at key r

slotVars == <<slot, intent, repo>>

SlotInit ==
  /\ slot = [j \in Jobs |-> Nil]
  /\ intent = [v \in Videos |-> Nil]
  /\ repo = [r \in Rkeys |-> Nil]

(* A job gets a key nobody owns, once. *)
TakeSlot(j, r) ==
  /\ slot[j] = Nil
  /\ \A other \in Jobs : slot[other] # r
  /\ slot' = [slot EXCEPT ![j] = r]
  /\ UNCHANGED <<intent, repo>>

(* The content of a video is fixed once, before anything is published. *)
FixIntent(v, b) ==
  /\ slot[v] # Nil
  /\ intent[v] = Nil
  /\ intent' = [intent EXCEPT ![v] = [event |-> v, blob |-> b]]
  /\ UNCHANGED <<slot, repo>>

(* The record of a video appears at its own key. *)
Appear(v) ==
  /\ slot[v] # Nil
  /\ intent[v] # Nil
  /\ repo[slot[v]] = Nil
  /\ repo' = [repo EXCEPT ![slot[v]] = intent[v]]
  /\ UNCHANGED <<slot, intent>>

(* A deletion empties the key of one video. *)
Vanish(v) ==
  /\ slot[v] # Nil
  /\ repo' = [repo EXCEPT ![slot[v]] = Nil]
  /\ UNCHANGED <<slot, intent>>

SlotNext ==
  \/ \E j \in Jobs, r \in Rkeys : TakeSlot(j, r)
  \/ \E v \in Videos, b \in Blobs : FixIntent(v, b)
  \/ \E v \in Videos : Appear(v) \/ Vanish(v)

SlotSpec == SlotInit /\ [][SlotNext]_slotVars
================================================================================
