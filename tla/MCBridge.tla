--------------------------------- MODULE MCBridge ---------------------------------
(***************************************************************************)
(* The parts around the queue, on small instances. They share no state and *)
(* no action of one reads another's, so a run of one at a time shows all    *)
(* there is to see: "part" says which one moves, and the others keep their  *)
(* initial state.                                                            *)
(***************************************************************************)
EXTENDS TLC, PdsSession, MediaUpload, ProfileSync, LegacyRepair, TidClock, RuntimeHealth,
        Labeler, AppView, PostText, WriterFence

CONSTANTS u1, u2, ann, bob, clip, vid, reader

VARIABLE part

bridgeVars ==
  <<sessionVars, mediaVars, profileVars, repairVars, tidVars, healthVars>>
partVars == <<bridgeVars, labelerVars, appViewVars, fenceVars>>

Parts == {"session", "media", "profile", "repair", "tid", "health", "labeler", "appview", "text", "fence"}

NoText == [title |-> <<>>, summary |-> <<>>, content |-> <<>>, tags |-> <<>>]

MCInit ==
  /\ part \in Parts
  /\ SessionInit /\ MediaInit /\ ProfileInit /\ RepairInit /\ TidInit /\ HealthInit
  /\ LabelerInit /\ AppViewInit /\ FenceInit
  /\ event \in IF part = "text" THEN VideoEvents ELSE {NoText}
  /\ part # "session" => stored = NoToken
  /\ part # "tid" => clock = 0

BridgePart ==
  \/ /\ part = "session" /\ SessionNext
     /\ UNCHANGED <<mediaVars, profileVars, repairVars, tidVars, healthVars>>
  \/ /\ part = "media" /\ MediaNext
     /\ UNCHANGED <<sessionVars, profileVars, repairVars, tidVars, healthVars>>
  \/ /\ part = "profile" /\ ProfileNext
     /\ UNCHANGED <<sessionVars, mediaVars, repairVars, tidVars, healthVars>>
  \/ /\ part = "repair" /\ RepairNext
     /\ UNCHANGED <<sessionVars, mediaVars, profileVars, tidVars, healthVars>>
  \/ /\ part = "tid" /\ TidNext
     /\ UNCHANGED <<sessionVars, mediaVars, profileVars, repairVars, healthVars>>
  \/ /\ part = "health" /\ HealthNext
     /\ UNCHANGED <<sessionVars, mediaVars, profileVars, repairVars, tidVars>>
LabelerPart ==
  part = "labeler" /\ LabelerNext /\ UNCHANGED <<bridgeVars, appViewVars, fenceVars>>
AppViewPart ==
  part = "appview" /\ AppViewNext /\ UNCHANGED <<bridgeVars, labelerVars, fenceVars>>
FencePart ==
  part = "fence" /\ FenceNext /\ UNCHANGED <<bridgeVars, labelerVars, appViewVars>>

MCNext ==
  /\ UNCHANGED <<part, event>>
  /\ \/ BridgePart /\ UNCHANGED <<labelerVars, appViewVars, fenceVars>>
     \/ LabelerPart
     \/ AppViewPart
     \/ FencePart

(* The fairness of the part that moves. *)
MCFairness ==
  /\ \A c \in Calls : WF_sessionVars(part = "session" /\ CallStep(c))
  /\ \A u \in Runs : WF_mediaVars(part = "media" /\ RunStep(u))
  /\ WF_healthVars(part = "health" /\ PollStep)

MCSpec == MCInit /\ [][MCNext]_<<part, event, partVars>> /\ MCFairness

BridgeTypeOK ==
  /\ SessionTypeOK /\ MediaTypeOK /\ ProfileTypeOK /\ RepairTypeOK /\ TidTypeOK
  /\ HealthTypeOK /\ LabelerTypeOK /\ AppViewTypeOK /\ FenceTypeOK

--------------------------------------------------------------------------------
(* Values of the constants *)

(* Graphemes: a letter, one of two bytes, a "#", a "#" that a combining mark  *)
(* turns into a keycap, and a blank.                                          *)
Plain == <<Char("other", 1)>>
Wide == <<Char("other", 2)>>
Keycap == <<HashSign[1], Char("other", 3)>>

(* Descriptions of up to three of these, with and without a title, before     *)
(* tags of one word, of two, and of none.                                     *)
MCVideoEvents ==
  [title : {<<>>, <<Wide>>}, summary : {<<>>, <<Keycap>>},
   content : BoundedSeq({Wide, HashSign, Keycap, Blank}, 3),
   tags : {<<>>, <<<<Plain>>, <<Wide, Plain>>>>, <<<<Plain, Blank, Plain>>, <<HashSign, Wide>>>>,
           <<<<>>, <<Plain>>>>}]

MCOwnerOf == u1 :> ann @@ u2 :> bob
MCSourceOf == u1 :> clip @@ u2 :> clip

(* A client that follows the label of vid's record, not those of its bytes. *)
RecordOnly == reader :> {[video |-> vid, by |-> "record"]}

(* A category the vocabulary does not know, and one it does. *)
UnknownThenKnown == {<<"gibberish", "spam">>}

BothOfOneRepo == 1 :> "a" @@ 2 :> "a"
================================================================================
