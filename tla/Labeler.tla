-------------------------------- MODULE Labeler --------------------------------
(***************************************************************************)
(* The labeler: the moderation service posts its verdict on a video to the *)
(* webhook, which appends one row per label to labeler_events, and clients *)
(* follow the rows through queryLabels with a cursor. Calls of the webhook *)
(* run side by side, each insert on a pooled connection of its own; a row  *)
(* takes its sequence number when its insert begins and is seen when that   *)
(* insert commits.                                                          *)
(***************************************************************************)
EXTENDS Sequences, FiniteSetsExt, Vocabulary

CONSTANTS
  Hooks,        \* concurrent calls of the webhook
  Videos,       \* moderated videos
  Verdicts,     \* label lists the moderation service may send
  Followers,    \* clients of queryLabels
  FollowsOnly,  \* FollowsOnly[f]: the subjects of f's uriPatterns
  PageRows,     \* the limit of a query
  MaxRows       \* bound on the rows of labeler_events

ASSUME LabelerAssumption ==
  /\ \A list \in Verdicts : list \in Seq(STRING)
  /\ PageRows \in Nat \ {0} /\ MaxRows \in Nat

(* at://did/collection/rkey if the record is known, at://sha256:... if not *)
Subjects == [video : Videos, by : {"record", "sha256"}]
Payload == [video : Videos, labels : Verdicts, ban : BOOLEAN, named : BOOLEAN]

VARIABLES
  posted,     \* record_mappings: the videos that have one
  rows,       \* labeler_events: the committed rows
  nextSeq,    \* its sequence
  hook,       \* the locals of each call
  follower    \* the cursor of each client, the rows it has been given and, as
              \* history, those being inserted when its cursor went past them

labelerVars == <<posted, rows, nextSeq, hook, follower>>

Seqs == 1..MaxRows
LabelRow == [seq : Seqs, uri : Subjects, val : AtprotoValues]
IdleHook == [stage |-> "idle"]
BusyHook ==
  [stage : {"resolving", "labelling", "inserting", "done"}, payload : Payload,
   known : BOOLEAN, blind : BOOLEAN, uri : Subjects, left : Seq(AtprotoValues \cup {NoValue}),
   seq : Seqs \cup {0}, refused : SUBSET AtprotoValues]

LabelerTypeOK ==
  /\ posted \subseteq Videos
  /\ rows \subseteq LabelRow
  /\ nextSeq \in 1..(MaxRows + 1)
  /\ \A h \in Hooks : hook[h] = IdleHook \/ hook[h] \in BusyHook
  /\ follower \in [Followers -> [cursor : 0..MaxRows, got : SUBSET Seqs, late : SUBSET Seqs]]

LabelerInit ==
  /\ posted = {} /\ rows = {} /\ nextSeq = 1
  /\ hook = [h \in Hooks |-> IdleHook]
  /\ follower = [f \in Followers |-> [cursor |-> 0, got |-> {}, late |-> {}]]

--------------------------------------------------------------------------------

(* The bridge saves the mapping of a video (external). *)
PostVideo(v) ==
  /\ posted' = posted \cup {v}
  /\ UNCHANGED <<rows, nextSeq, hook, follower>>

(* The values to be emitted, in order: one for each label, whatever its     *)
(* score, and the takedown of a PERMANENT_BAN.                               *)
Emissions(p) ==
  [i \in DOMAIN p.labels |-> DivineToAtproto(p.labels[i])]
    \o (IF p.ban THEN <<"!takedown">> ELSE <<>>)

Subject(v, known) == [video |-> v, by |-> IF known THEN "record" ELSE "sha256"]

Receive(h, p) ==
  /\ hook[h].stage = "idle"
  /\ hook' = [hook EXCEPT ![h] =
       [stage |-> "resolving", payload |-> p, known |-> p.named /\ p.video \in posted,
        blind |-> FALSE, uri |-> Subject(p.video, FALSE), left |-> Emissions(p),
        seq |-> 0, refused |-> {}]]
  /\ UNCHANGED <<posted, rows, nextSeq, follower>>

(* get_at_uri_by_event_id, if the payload names the event. A query that     *)
(* fails counts as an event without a record.                                *)
Resolve(h) ==
  /\ hook[h].stage = "resolving"
  /\ \E blind \in {FALSE, hook[h].payload.named} :
       hook' = [hook EXCEPT
         ![h].stage = "labelling", ![h].blind = blind,
         ![h].uri = LET p == hook[h].payload
                    IN Subject(p.video, p.named /\ ~blind /\ p.video \in posted)]
  /\ UNCHANGED <<posted, rows, nextSeq, follower>>

Labelling(h) == hook[h].stage = "labelling" /\ hook[h].left # <<>>

(* An unknown category is reported and passed over. *)
UnknownEndsCall(h) ==
  /\ Labelling(h) /\ Head(hook[h].left) = NoValue
  /\ hook' = [hook EXCEPT ![h].left = <<>>, ![h].stage = "done"]
  /\ UNCHANGED <<posted, rows, nextSeq, follower>>
PassUnknown(h) ==
  /\ Labelling(h) /\ Head(hook[h].left) = NoValue
  /\ hook' = [hook EXCEPT ![h].left = Tail(@)]
  /\ UNCHANGED <<posted, rows, nextSeq, follower>>

(* insert_labeler_event begins. *)
BeginInsert(h) ==
  /\ Labelling(h) /\ Head(hook[h].left) # NoValue
  /\ nextSeq <= MaxRows
  /\ nextSeq' = nextSeq + 1
  /\ hook' = [hook EXCEPT ![h].stage = "inserting", ![h].seq = nextSeq]
  /\ UNCHANGED <<posted, rows, follower>>

EndInsert(h, refused) ==
  hook' = [hook EXCEPT ![h].stage = "labelling", ![h].left = Tail(@), ![h].seq = 0,
                       ![h].refused = @ \cup refused]

Commit(h) ==
  /\ hook[h].stage = "inserting"
  /\ rows' = rows \cup {[seq |-> hook[h].seq, uri |-> hook[h].uri, val |-> Head(hook[h].left)]}
  /\ EndInsert(h, {})
  /\ UNCHANGED <<posted, nextSeq, follower>>

(* Signing, the pool or the insert fails, and the loop goes on. All of it is *)
(* reported, but for a takedown that cannot be signed. (Only a failing insert *)
(* has drawn a number; a gap in the numbers makes no difference.)             *)
InsertFails(h) ==
  /\ hook[h].stage = "inserting"
  /\ EndInsert(h, {Head(hook[h].left)})
  /\ UNCHANGED <<posted, rows, nextSeq, follower>>

(* The answer is a success whatever was refused; nothing is kept of a call, *)
(* so the same verdict sent again is labelled again.                         *)
Answer(h) ==
  /\ hook[h].stage = "labelling" /\ hook[h].left = <<>>
  /\ hook' = [hook EXCEPT ![h].stage = "done"]
  /\ UNCHANGED <<posted, rows, nextSeq, follower>>

(* The call is over, or the process ends in the middle of it. *)
HookEnds(h) ==
  /\ hook[h].stage # "idle"
  /\ hook' = [hook EXCEPT ![h] = IdleHook]
  /\ UNCHANGED <<posted, rows, nextSeq, follower>>

(* get_labeler_events_after: the rows after the cursor, in order, up to the *)
(* limit.                                                                    *)
After(n) == {row \in rows : row.seq > n}
NewestRows(n) ==
  {row \in After(n) : Cardinality({r \in After(n) : r.seq >= row.seq}) <= PageRows}
FirstRows(n) ==
  {row \in After(n) : Cardinality({r \in After(n) : r.seq <= row.seq}) <= PageRows}

(* The answer to f's next query: the page is filtered after it was cut. *)
LabelsFor(f) == {row \in FirstRows(follower[f].cursor) : row.uri \in FollowsOnly[f]}

(* The cursor is that of the last row left. An answer without a row has no   *)
(* cursor and ends the paging; the client asks again from where it is.       *)
Follow(f) ==
  /\ LabelsFor(f) # {}
  /\ LET seqs == {row.seq : row \in LabelsFor(f)}
         writing == {h \in Hooks : hook[h].stage = "inserting" /\ hook[h].seq < Max(seqs)}
     IN follower' = [follower EXCEPT
          ![f] = [cursor |-> Max(seqs), got |-> @.got \cup seqs,
                  late |-> @.late \cup {hook[h].seq : h \in writing}]]
  /\ UNCHANGED <<posted, rows, nextSeq, hook>>

HookStep(h) ==
  \/ \E p \in Payload : Receive(h, p)
  \/ Resolve(h) \/ PassUnknown(h) \/ BeginInsert(h) \/ Commit(h) \/ InsertFails(h)
  \/ Answer(h) \/ HookEnds(h)

LabelerNext ==
  \/ \E v \in Videos : PostVideo(v)
  \/ \E h \in Hooks : HookStep(h)
  \/ \E f \in Followers : Follow(f)

LabelerSpec == LabelerInit /\ [][LabelerNext]_labelerVars

--------------------------------------------------------------------------------

(* The rows ahead of f that are not its own and come before row. *)
InFront(f, row) ==
  {r \in After(follower[f].cursor) : r.seq < row.seq /\ r.uri \notin FollowsOnly[f]}

(* Whatever label of its subjects a client lacks, either its insert was under *)
(* way when a query moved the client's cursor past its number, and it is lost *)
(* for good; or it lies ahead, and the next query brings the client on unless *)
(* a full page of other subjects comes first: that answer has no cursor, and  *)
(* the client stays where it is.                                              *)
OnlyRacedAreMissed ==
  \A f \in Followers, row \in rows :
    row.uri \in FollowsOnly[f] /\ row.seq \notin follower[f].got =>
      \/ row.seq \in follower[f].late
      \/ /\ row.seq > follower[f].cursor
         /\ LabelsFor(f) # {} \/ Cardinality(InFront(f, row)) >= PageRows

(* A ban that was answered has its takedown among the rows, unless that     *)
(* very insert was refused: no unknown category and no other refused label  *)
(* costs it. It is on the record if the record was known when the call      *)
(* came in and the lookup did not fail.                                      *)
BanTakesDown ==
  \A h \in Hooks :
    hook[h].stage = "done" /\ hook[h].payload.ban /\ "!takedown" \notin hook[h].refused =>
      /\ \E row \in rows : row.val = "!takedown" /\ row.uri = hook[h].uri
      /\ hook[h].known /\ ~hook[h].blind => hook[h].uri.by = "record"
================================================================================
