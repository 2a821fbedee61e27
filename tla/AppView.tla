-------------------------------- MODULE AppView --------------------------------
(***************************************************************************)
(* The read model of the app view: the indexer copies every repository of  *)
(* the PDS into appview_repos, appview_profiles and appview_posts and       *)
(* queues a media view for each video, and the video worker derives the     *)
(* views that are not ready. The lab's script runs the two one after the    *)
(* other; the app view answers from the same tables all the while.          *)
(*                                                                         *)
(* Posts are numbers in the order of their keys, each with a blob of its    *)
(* own if it is a video. appview_repos holds what nobody reads and is left  *)
(* out.                                                                      *)
(***************************************************************************)
EXTENDS FiniteSetsExt, Integers

CONSTANTS
  Repos,       \* repositories on the PDS
  Posts,       \* posts that may be on it
  RepoOf,      \* RepoOf[p]: the repository of post p
  VideoPosts,  \* posts that embed a video
  OddPosts,    \* posts whose record does not parse: no valid createdAt
  ListLimit    \* records that listRecords answers with

ASSUME AppViewAssumption ==
  /\ Posts \subseteq Nat /\ RepoOf \in [Posts -> Repos]
  /\ VideoPosts \subseteq Posts /\ OddPosts \subseteq Posts
  /\ ListLimit \in Nat \ {0}

VARIABLES
  pdsProfiles,  \* the PDS: repositories with a profile record
  pdsPosts,     \* the PDS: posts
  profiles,     \* appview_profiles
  index,        \* appview_posts
  views,        \* appview_media_views: the state of each post's view
  backfilled,   \* appview_service_state: appview_last_backfill is set
  indexer,      \* the locals of the indexer and of the script around it
  owed          \* history: the posts listed by the last completed backfill

appViewVars == <<pdsProfiles, pdsPosts, profiles, index, views, backfilled, indexer, owed>>

IndexerStages == {"idle", "listing", "posts", "storing", "view", "hydrating"}
IndexerState ==
  [stage : IndexerStages, repos : SUBSET Repos, profile : BOOLEAN, posts : SUBSET Posts,
   listed : SUBSET Posts, unready : SUBSET Posts]
NoIndexer ==
  [stage |-> "idle", repos |-> {}, profile |-> FALSE, posts |-> {}, listed |-> {},
   unready |-> {}]

AppViewTypeOK ==
  /\ pdsProfiles \subseteq Repos /\ pdsPosts \subseteq Posts
  /\ profiles \subseteq Repos /\ index \subseteq Posts
  /\ views \in [Posts -> {"none", "queued", "ready"}]
  /\ backfilled \in BOOLEAN
  /\ indexer \in IndexerState
  /\ owed \subseteq Posts

AppViewInit ==
  /\ pdsProfiles = {} /\ pdsPosts = {}
  /\ profiles = {} /\ index = {}
  /\ views = [p \in Posts |-> "none"]
  /\ backfilled = FALSE
  /\ indexer = NoIndexer
  /\ owed = {}

--------------------------------------------------------------------------------
(* The PDS (external): the bridge creates and deletes records meanwhile. *)

PdsChanges ==
  /\ \/ \E p \in Posts \ pdsPosts : pdsPosts' = pdsPosts \cup {p} /\ UNCHANGED pdsProfiles
     \/ \E p \in pdsPosts : pdsPosts' = pdsPosts \ {p} /\ UNCHANGED pdsProfiles
     \/ \E r \in Repos \ pdsProfiles : pdsProfiles' = pdsProfiles \cup {r} /\ UNCHANGED pdsPosts
  /\ UNCHANGED <<profiles, index, views, backfilled, indexer, owed>>

--------------------------------------------------------------------------------
(* The indexer *)

Turns(stage) == indexer' = [indexer EXCEPT !.stage = stage]

(* The repositories are synchronised one after the other, in the order in   *)
(* which the PDS lists them: a fixed one here.                               *)
Current == CHOOSE r \in indexer.repos : TRUE
LastOf(posts) == {p \in posts : Cardinality({q \in posts : q >= p}) <= ListLimit}

(* backfill_from_pds lists the repositories. *)
StartBackfill ==
  /\ indexer.stage = "idle"
  /\ indexer' = [NoIndexer EXCEPT !.stage = "listing", !.repos = Repos]
  /\ UNCHANGED <<pdsProfiles, pdsPosts, profiles, index, views, backfilled, owed>>

(* sync_repo reads the profile, then one page of posts; a post that does    *)
(* not parse fails the whole run.                                            *)
ReadProfile ==
  /\ indexer.stage = "listing" /\ indexer.repos # {}
  /\ indexer' = [indexer EXCEPT !.stage = "posts", !.profile = Current \in pdsProfiles]
  /\ UNCHANGED <<pdsProfiles, pdsPosts, profiles, index, views, backfilled, owed>>

PostPage == LastOf({p \in pdsPosts : RepoOf[p] = Current})
ReadPosts ==
  /\ indexer.stage = "posts"
  /\ PostPage \cap OddPosts = {}
  /\ indexer' = [indexer EXCEPT !.stage = "storing", !.posts = PostPage,
                                !.listed = @ \cup PostPage]
  /\ UNCHANGED <<pdsProfiles, pdsPosts, profiles, index, views, backfilled, owed>>

(* upsert_repo and upsert_profile *)
StoreProfile ==
  /\ indexer.stage = "storing" /\ indexer.profile
  /\ profiles' = profiles \cup {Current}
  /\ indexer' = [indexer EXCEPT !.profile = FALSE]
  /\ UNCHANGED <<pdsProfiles, pdsPosts, index, views, backfilled, owed>>

(* queue_media_job: the upsert makes a view that was ready wait again. *)
NextPost == Max(indexer.posts)
QueueView ==
  /\ indexer.stage = "storing" /\ ~indexer.profile /\ indexer.posts # {}
  /\ views' = IF NextPost \in VideoPosts THEN [views EXCEPT ![NextPost] = "queued"] ELSE views
  /\ Turns("view")
  /\ UNCHANGED <<pdsProfiles, pdsPosts, profiles, index, backfilled, owed>>

(* upsert_post; deleted_at stays null, and nothing ever removes a post. *)
StorePost ==
  /\ indexer.stage = "view"
  /\ index' = index \cup {NextPost}
  /\ indexer' = [indexer EXCEPT !.stage = "storing", !.posts = @ \ {NextPost}]
  /\ UNCHANGED <<pdsProfiles, pdsPosts, profiles, views, backfilled, owed>>

RepoDone ==
  /\ indexer.stage = "storing" /\ ~indexer.profile /\ indexer.posts = {}
  /\ indexer' = [indexer EXCEPT !.stage = "listing", !.repos = @ \ {Current}]
  /\ UNCHANGED <<pdsProfiles, pdsPosts, profiles, index, views, backfilled, owed>>

(* All repositories are done; the script then lists the views to derive. *)
UnreadyOnPds == {p \in pdsPosts : views[p] = "queued"}
Unready == {p \in Posts : views[p] = "queued"}
FinishBackfill ==
  /\ indexer.stage = "listing" /\ indexer.repos = {}
  /\ backfilled' = TRUE
  /\ owed' = indexer.listed
  /\ indexer' = [NoIndexer EXCEPT !.stage = "hydrating", !.unready = Unready]
  /\ UNCHANGED <<pdsProfiles, pdsPosts, profiles, index, views>>

(* A request or a statement fails: the run and the script end. *)
GoesOnToNext ==
  /\ indexer.stage \in {"posts", "storing", "view"}
  /\ indexer' = [indexer EXCEPT !.stage = "listing", !.repos = @ \ {Current}, !.posts = {},
                                !.profile = FALSE]
  /\ UNCHANGED <<pdsProfiles, pdsPosts, profiles, index, views, backfilled, owed>>
IndexerFails ==
  /\ indexer.stage # "idle"
  /\ indexer' = NoIndexer
  /\ UNCHANGED <<pdsProfiles, pdsPosts, profiles, index, views, backfilled, owed>>

(* derive_media_view and persist_media_view, one process per view *)
DeriveView ==
  /\ indexer.stage = "hydrating" /\ indexer.unready # {}
  /\ \E p \in indexer.unready :
       /\ views' = [views EXCEPT ![p] = "ready"]
       /\ indexer' = [indexer EXCEPT !.unready = @ \ {p}]
  /\ UNCHANGED <<pdsProfiles, pdsPosts, profiles, index, backfilled, owed>>

ScriptEnds ==
  /\ indexer.stage = "hydrating" /\ indexer.unready = {}
  /\ indexer' = NoIndexer
  /\ UNCHANGED <<pdsProfiles, pdsPosts, profiles, index, views, backfilled, owed>>

IndexerStep ==
  \/ StartBackfill \/ ReadProfile \/ ReadPosts \/ StoreProfile \/ QueueView \/ StorePost
  \/ RepoDone \/ FinishBackfill \/ DeriveView \/ ScriptEnds

AppViewNext == IndexerStep \/ IndexerFails \/ PdsChanges

AppViewSpec == AppViewInit /\ [][AppViewNext]_appViewVars

--------------------------------------------------------------------------------
(* What the app view answers *)

(* load_post_internal: a post is shown with the profile of its author or    *)
(* not at all.                                                               *)
Shown == {p \in index : RepoOf[p] \in profiles}

(* post_view: a video plays when its view has a playlist. *)
Plays(p) == p \in Shown /\ views[p] = "ready"

(* /health/ready: the app view serves once a backfill is complete. *)
AppViewReady == backfilled

--------------------------------------------------------------------------------

(* Ready means complete: every post that the last completed backfill was    *)
(* shown by the PDS is indexed, of whatever repository, and whatever went   *)
(* wrong in the runs since; and an indexed video always has a media view,    *)
(* so that the script finds it, at whatever step a run broke off.            *)
ReadyMeansIndexed ==
  /\ AppViewReady => owed \subseteq index
  /\ \A p \in index \cap VideoPosts : views[p] # "none"

(* Each run makes the videos it indexes wait again, and a broken run leaves *)
(* them so, deleted ones too: whatever earlier runs left behind, a script    *)
(* that comes to its end leaves every video that is shown playing.           *)
VideosPlayAgain ==
  [][ScriptEnds => \A p \in VideoPosts \cap Shown : Plays(p)]_appViewVars
================================================================================
