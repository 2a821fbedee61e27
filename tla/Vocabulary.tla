------------------------------ MODULE Vocabulary -------------------------------
(***************************************************************************)
(* The label vocabulary the moderation adapter and the labeler share.      *)
(***************************************************************************)
EXTENDS FiniteSets

(* Content, synthetic and behavioural labels have one name everywhere. *)
ContentLabels ==
  {"nudity", "sexual", "porn", "graphic-media", "violence", "self-harm",
   "ai-generated", "deepfake", "spam", "hate", "harassment"}

VocabEntries ==
  {[divine |-> c, atproto |-> c] : c \in ContentLabels}
  \cup {[divine |-> "takedown", atproto |-> "!takedown"],
        [divine |-> "suspend", atproto |-> "!suspend"],
        [divine |-> "content-warning", atproto |-> "!warn"]}

AtprotoValues == {e.atproto : e \in VocabEntries}
NoValue == "none"

(* divine_to_atproto; a category of no entry has no value. *)
DivineToAtproto(category) ==
  IF \E e \in VocabEntries : e.divine = category
  THEN (CHOOSE e \in VocabEntries : e.divine = category).atproto
  ELSE NoValue
================================================================================
