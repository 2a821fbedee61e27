------------------------------ MODULE MediaUpload -------------------------------
(***************************************************************************)
(* The media part of publishing a video: fetch the source and verify its   *)
(* hash, have it transcoded by the video service, poll for the result, add *)
(* the caption files, and end with a record whose blobs the owner's        *)
(* repository holds. Several runs, of one or of several accounts, may work *)
(* on the same source at once.                                              *)
(*                                                                         *)
(* The service and the PDS are external. The service keeps one job per     *)
(* source for all accounts, and writes the transcoded blob only into the   *)
(* repository of the account the job was created for.                       *)
(***************************************************************************)
EXTENDS Naturals, FiniteSets

CONSTANTS
  Runs,         \* publish runs in their media part
  OwnerOf,      \* OwnerOf[u]: the repository run u publishes to
  SourceOf,     \* SourceOf[u]: the content the event's x tag names
  Contents,     \* contents a Blossom server may answer with
  JobIds,       \* transcoding jobs, a bound on how many the service creates
  MaxPolls,     \* poll_timeout / poll_interval
  Tracks,       \* number of text-track tags of an event
  MaxCaptions,  \* MAX_VIDEO_CAPTIONS
  NoJob

Owners == {OwnerOf[u] : u \in Runs}
Source(c) == [of |-> c, form |-> "source"]
Transcoded(c) == [of |-> c, form |-> "transcoded"]
Caption(t) == [of |-> t, form |-> "caption"]
MediaBlobs ==
  {Source(c) : c \in Contents} \cup {Transcoded(c) : c \in Contents}
    \cup {Caption(t) : t \in 1..Tracks}
Transcodes ==
  [content : Contents, owner : Owners, state : {"running", "done", "failed"}]

ASSUME MediaAssumption ==
  /\ SourceOf \in [Runs -> Contents]
  /\ MaxPolls \in Nat /\ Tracks \in Nat /\ MaxCaptions \in Nat
  /\ NoJob \notin JobIds \cup MediaBlobs \cup Transcodes

VARIABLES
  transcode,  \* the service's jobs
  blobs,      \* the blobs each repository holds
  run         \* the locals of each run

mediaVars == <<transcode, blobs, run>>

RunStages ==
  {"idle", "fetched", "polling", "direct", "captions", "ready", "failed"}
RunState ==
  [stage : RunStages, polls : JobIds \cup {NoJob}, cached : BOOLEAN, left : 0..MaxPolls,
   video : MediaBlobs \cup {NoJob}, track : 1..(Tracks + 1), captions : SUBSET (1..Tracks)]
IdleRun ==
  [stage |-> "idle", polls |-> NoJob, cached |-> FALSE, left |-> MaxPolls,
   video |-> NoJob, track |-> 1, captions |-> {}]

MediaTypeOK ==
  /\ transcode \in [JobIds -> Transcodes \cup {NoJob}]
  /\ blobs \in [Owners -> SUBSET MediaBlobs]
  /\ run \in [Runs -> RunState]

MediaInit ==
  /\ transcode = [j \in JobIds |-> NoJob]
  /\ blobs = [o \in Owners |-> {}]
  /\ run = [u \in Runs |-> IdleRun]

--------------------------------------------------------------------------------

Turn(u, stage) == run' = [run EXCEPT ![u].stage = stage]
RunFails(u) == run' = [run EXCEPT ![u] = [IdleRun EXCEPT !.stage = "failed"]]

(* The run has its video blob and turns to the captions. *)
HasVideo(u, b) ==
  run' = [run EXCEPT ![u] = [IdleRun EXCEPT !.stage = "captions", !.video = b]]

Stored(o, b) == blobs' = [blobs EXCEPT ![o] = @ \cup {b}]

(* An event that names no video or no hash of it ends the run. *)
NoSource(u) ==
  /\ run[u].stage = "idle"
  /\ RunFails(u)
  /\ UNCHANGED <<transcode, blobs>>

(* fetch_blob_verified: bytes with another hash than the event names end     *)
(* the run.                                                                  *)
Verified(u, c) == c = SourceOf[u]
FetchSource(u, c) ==
  /\ run[u].stage = "idle"
  /\ IF Verified(u, c) THEN Turn(u, "fetched") ELSE RunFails(u)
  /\ UNCHANGED <<transcode, blobs>>

(* prepare_publishable_video: bytes that are too large or no MP4 do, too. *)
RejectSource(u) ==
  /\ run[u].stage = "fetched"
  /\ RunFails(u)
  /\ UNCHANGED <<transcode, blobs>>

(* The service already has a job for the source, of whatever account. *)
Existing(c) ==
  {j \in JobIds : transcode[j] # NoJob /\ transcode[j].content = c
                                       /\ transcode[j].state # "failed"}

(* uploadVideo creates a job for this account: FreshJob, or FreshBlob when  *)
(* the answer already carries the result.                                    *)
FreshUpload(u, j) ==
  /\ run[u].stage = "fetched"
  /\ Existing(SourceOf[u]) = {}
  /\ transcode[j] = NoJob
  /\ \/ /\ transcode' = [transcode EXCEPT ![j] = [content |-> SourceOf[u],
                                                  owner |-> OwnerOf[u], state |-> "running"]]
        /\ run' = [run EXCEPT ![u].stage = "polling", ![u].polls = j]
        /\ UNCHANGED blobs
     \/ /\ transcode' = [transcode EXCEPT ![j] = [content |-> SourceOf[u],
                                                  owner |-> OwnerOf[u], state |-> "done"]]
        /\ Stored(OwnerOf[u], Transcoded(SourceOf[u]))
        /\ HasVideo(u, Transcoded(SourceOf[u]))

(* uploadVideo answers 409, or already_exists: CachedJob with the job of    *)
(* the source, or CachedBlob, which proves nothing about this repository.    *)
CachedUpload(u) ==
  /\ run[u].stage = "fetched"
  /\ \E j \in Existing(SourceOf[u]) :
       \/ run' = [run EXCEPT ![u].stage = "polling", ![u].polls = j, ![u].cached = TRUE]
       \/ transcode[j].state = "done" /\ Turn(u, "direct")
  /\ UNCHANGED <<transcode, blobs>>

(* poll_job: an answer that is not a success, and a job in progress, are    *)
(* asked again after the interval.                                           *)
RenewsDeadline(u) ==
  /\ run[u].stage = "polling"
  /\ run' = [run EXCEPT ![u].left = IF @ = 0 THEN MaxPolls ELSE @ - 1]
  /\ UNCHANGED <<transcode, blobs>>
PollAgain(u) ==
  /\ run[u].stage = "polling" /\ run[u].left > 0
  /\ run' = [run EXCEPT ![u].left = @ - 1]
  /\ UNCHANGED <<transcode, blobs>>

PollTimesOut(u) ==
  /\ run[u].stage = "polling" /\ run[u].left = 0
  /\ RunFails(u)
  /\ UNCHANGED <<transcode, blobs>>

(* The job is over. The result of a cached job lies in another repository,  *)
(* so the source itself is uploaded to this one.                             *)
TakesAnyResult(u) ==
  /\ run[u].stage = "polling" /\ run[u].left > 0
  /\ LET j == transcode[run[u].polls] IN
       \/ j.state = "done" /\ HasVideo(u, Transcoded(j.content))
       \/ j.state = "failed" /\ RunFails(u)
  /\ UNCHANGED <<transcode, blobs>>
PollEnds(u) ==
  /\ run[u].stage = "polling" /\ run[u].left > 0
  /\ LET j == transcode[run[u].polls] IN
       \/ j.state = "done" /\ run[u].cached /\ Turn(u, "direct")
       \/ j.state = "done" /\ ~run[u].cached /\ HasVideo(u, Transcoded(j.content))
       \/ j.state = "failed" /\ RunFails(u)
  /\ UNCHANGED <<transcode, blobs>>

(* upload_blob_for_did: the source goes to the owner's repository. *)
DirectUpload(u) ==
  /\ run[u].stage = "direct"
  /\ Stored(OwnerOf[u], Source(SourceOf[u]))
  /\ HasVideo(u, Source(SourceOf[u]))
  /\ UNCHANGED transcode

(* No bytes, no session, no service token, a lost request, a refused upload, an *)
(* answer that cannot be parsed, a completed job without a blob.             *)
UploadFails(u) ==
  /\ run[u].stage \in {"idle", "fetched", "polling", "direct"}
  /\ RunFails(u)
  /\ UNCHANGED <<transcode, blobs>>

(* resolve_video_captions, one track: added once it is uploaded, skipped    *)
(* when it cannot be fetched, is no WebVTT, is too long or fails to upload.  *)
TrackOrPast(u) == run[u].track <= Tracks + 1 /\ Cardinality(run[u].captions) < MaxCaptions
TrackLeft(u) == run[u].track <= Tracks /\ Cardinality(run[u].captions) < MaxCaptions
AddCaption(u) ==
  /\ run[u].stage = "captions" /\ TrackLeft(u)
  /\ Stored(OwnerOf[u], Caption(run[u].track))
  /\ run' = [run EXCEPT ![u].captions = @ \cup {run[u].track}, ![u].track = @ + 1]
  /\ UNCHANGED transcode
SkipCaption(u) ==
  /\ run[u].stage = "captions" /\ TrackLeft(u)
  /\ run' = [run EXCEPT ![u].track = @ + 1]
  /\ UNCHANGED <<transcode, blobs>>
CaptionsDone(u) ==
  /\ run[u].stage = "captions" /\ ~TrackLeft(u)
  /\ Turn(u, "ready")
  /\ UNCHANGED <<transcode, blobs>>

(* The run went on to the record, or its job is tried again after an error; *)
(* a run may also die at any point.                                          *)
RunAgain(u) ==
  /\ run[u].stage # "idle"
  /\ run' = [run EXCEPT ![u] = IdleRun]
  /\ UNCHANGED <<transcode, blobs>>

--------------------------------------------------------------------------------
(* The service (external) *)

TranscodeEnds(j) ==
  /\ transcode[j] # NoJob /\ transcode[j].state = "running"
  /\ \/ /\ transcode' = [transcode EXCEPT ![j].state = "done"]
        /\ Stored(transcode[j].owner, Transcoded(transcode[j].content))
     \/ /\ transcode' = [transcode EXCEPT ![j].state = "failed"]
        /\ UNCHANGED blobs
  /\ UNCHANGED run

--------------------------------------------------------------------------------

RunStep(u) ==
  \/ NoSource(u) \/ (\E c \in Contents : FetchSource(u, c)) \/ RejectSource(u)
  \/ \E j \in JobIds : FreshUpload(u, j)
  \/ CachedUpload(u) \/ PollAgain(u) \/ PollTimesOut(u) \/ PollEnds(u) \/ DirectUpload(u)
  \/ UploadFails(u) \/ AddCaption(u) \/ SkipCaption(u) \/ CaptionsDone(u)

MediaNext ==
  \/ \E u \in Runs : RunStep(u) \/ RunAgain(u)
  \/ \E j \in JobIds : TranscodeEnds(j)

MediaSpec == MediaInit /\ [][MediaNext]_mediaVars

--------------------------------------------------------------------------------

(* "a video cache hit is not proof of target-repository blob ownership":    *)
(* whatever other accounts upload at the same time, every blob of the       *)
(* record a run ends with is in the repository it publishes to, and the     *)
(* video is made from the bytes the event names.                             *)
BlobsOwned ==
  \A u \in Runs : run[u].stage \in {"captions", "ready"} =>
    /\ run[u].video \in blobs[OwnerOf[u]]
    /\ run[u].video \in {Source(SourceOf[u]), Transcoded(SourceOf[u])}
    /\ \A t \in run[u].captions : Caption(t) \in blobs[OwnerOf[u]]

(* The service may never finish a job and may answer with errors for ever:  *)
(* the run ends all the same, and once it has its video nothing about the   *)
(* captions makes it fail.                                                   *)
MediaEnds ==
  \A u \in Runs :
    /\ run[u].stage # "idle" ~> run[u].stage \in {"ready", "failed", "idle"}
    /\ run[u].stage = "captions" ~> run[u].stage \in {"ready", "idle"}

MediaFairness == \A u \in Runs : WF_mediaVars(RunStep(u))
================================================================================
