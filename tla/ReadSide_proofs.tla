---------------------------- MODULE ReadSide_proofs ----------------------------
(***************************************************************************)
(* What readers of the bridge's repositories are told, for every value of   *)
(* the constants: the labeler's feed, and the app view's index. Rows of the  *)
(* feed carry numbers that are drawn in one order and become visible in      *)
(* another; posts of a backfill travel through the indexer's locals. The     *)
(* invariants say where each of them is meanwhile.                           *)
(***************************************************************************)
EXTENDS Labeler, AppView, FiniteSetTheorems, PostText_proofs

(* A set of numbers that is bounded and not empty has a greatest one, as it    *)
(* has a least one (LeastOfNaturals): what Max and Min stand for.               *)
LEMMA MaxIsGreatest ==
  ASSUME NEW bound \in Nat, NEW S, S \subseteq Nat, S # {}, \A n \in S : n <= bound
  PROVE  Max(S) \in S /\ \A n \in S : Max(S) >= n
<1> DEFINE T == {bound - n : n \in S}
<1>1. T \subseteq Nat /\ T # {}
  <2>1. \A n \in S : bound - n \in Nat
    OBVIOUS
  <2>2. QED
    BY <2>1
<1>2. PICK t \in T : \A u \in T : t <= u
  BY <1>1, LeastOfNaturals
<1>3. PICK m \in S : t = bound - m
  OBVIOUS
<1>4. \A n \in S : m >= n
  <2> SUFFICES ASSUME NEW n \in S PROVE m >= n
    OBVIOUS
  <2>1. bound - n \in T
    OBVIOUS
  <2>2. bound - m <= bound - n
    BY <1>2, <1>3, <2>1
  <2>3. QED
    BY <2>2
<1>5. QED
  BY <1>4 DEF Max

--------------------------------------------------------------------------------
(* The labeler *)

HookStates == {IdleHook} \cup BusyHook
Inserting(h) == hook[h].stage = "inserting"

(* Sequence numbers are given once. *)
NumbersTaken ==
  /\ \A row \in rows : row.seq < nextSeq
  /\ \A row, other \in rows : row.seq = other.seq => row = other
  /\ \A h \in Hooks : Inserting(h) =>
       /\ hook[h].seq \in Seqs /\ hook[h].seq < nextSeq
       /\ \A g \in Hooks : Inserting(g) /\ hook[g].seq = hook[h].seq => g = h
       /\ \A row \in rows : row.seq # hook[h].seq

CursorsOnRows ==
  \A f \in Followers : follower[f].cursor = 0 \/ \E row \in rows : row.seq = follower[f].cursor

(* Below its cursor a client lacks only late rows, and one that is still     *)
(* being inserted there is known to be late.                                 *)
Given(f) ==
  /\ \A row \in rows : row.uri \in FollowsOnly[f] /\ row.seq <= follower[f].cursor =>
       row.seq \in follower[f].got \cup follower[f].late
  /\ \A h \in Hooks : Inserting(h) /\ hook[h].seq <= follower[f].cursor =>
       hook[h].seq \in follower[f].late

TakedownLast(k) == k.left # <<>> /\ k.left[Len(k.left)] = "!takedown"
TakedownHandled(k) ==
  "!takedown" \in k.refused \/ \E row \in rows : row.val = "!takedown" /\ row.uri = k.uri

(* What a call still owes to the ban it carries: the takedown is the last of *)
(* its labels, and a label leaves the list only into a row, the refused ones, *)
(* or because the vocabulary does not know it.                                *)
CallOK(k) ==
  /\ k.stage # "idle" /\ k.known => k.payload.named /\ k.payload.video \in posted
  /\ k.stage \notin {"idle", "resolving"} /\ k.known /\ ~k.blind => k.uri.by = "record"
  /\ k.stage = "resolving" /\ k.payload.ban => TakedownLast(k)
  /\ k.stage \in {"labelling", "inserting"} /\ k.payload.ban => TakedownLast(k) \/ TakedownHandled(k)
  /\ k.stage = "done" /\ k.payload.ban => TakedownHandled(k)
  /\ k.stage = "inserting" => k.left # <<>> /\ Head(k.left) # NoValue

LabelerInv ==
  /\ LabelerTypeOK /\ hook \in [Hooks -> HookStates] /\ IsFiniteSet(rows)
  /\ NumbersTaken /\ CursorsOnRows /\ \A f \in Followers : Given(f)
  /\ \A h \in Hooks : CallOK(hook[h])

LEMMA VocabularyFacts ==
  /\ "!takedown" \in AtprotoValues /\ "!takedown" # NoValue
  /\ \A category : DivineToAtproto(category) \in AtprotoValues \cup {NoValue}
<1>1. "!takedown" \in AtprotoValues
  <2>1. [divine |-> "takedown", atproto |-> "!takedown"] \in VocabEntries
    BY DEF VocabEntries
  <2>2. QED
    BY <2>1 DEF AtprotoValues
<1>2. "!takedown" # NoValue
  BY DEF NoValue
<1>3. \A category : DivineToAtproto(category) \in AtprotoValues \cup {NoValue}
  BY DEF DivineToAtproto, AtprotoValues
<1>4. QED
  BY <1>1, <1>2, <1>3

LEMMA EmissionsTyped ==
  ASSUME NEW p \in Payload
  PROVE  /\ Emissions(p) \in Seq(AtprotoValues \cup {NoValue})
         /\ p.ban => Emissions(p) # <<>> /\ Emissions(p)[Len(Emissions(p))] = "!takedown"
<1> DEFINE values == [i \in DOMAIN p.labels |-> DivineToAtproto(p.labels[i])]
           V == AtprotoValues \cup {NoValue}
<1>1. p.labels \in Seq(STRING) /\ p.ban \in BOOLEAN
  BY LabelerAssumption DEF Payload
<1>2. values \in Seq(V)
  <2>1. DOMAIN p.labels = 1..Len(p.labels) /\ Len(p.labels) \in Nat
    BY <1>1
  <2>2. \A i \in 1..Len(p.labels) : values[i] \in V
    BY <2>1, VocabularyFacts
  <2>3. values \in [1..Len(p.labels) -> V]
    BY <2>1, <2>2
  <2> HIDE DEF values, V
  <2>4. QED
    BY <2>1, <2>3, SeqDef
<1> HIDE DEF values
<1>3. CASE p.ban
  <2>1. Emissions(p) = Append(values, "!takedown")
    <3>1. Emissions(p) = values \o <<"!takedown">>
      BY <1>3 DEF Emissions, values
    <3>2. QED
      BY <1>2, <3>1, VocabularyFacts
  <2>2. QED
    BY <1>2, <2>1, VocabularyFacts, AppendProperties
<1>4. CASE ~p.ban
  <2>1. Emissions(p) = values \o <<>>
    BY <1>4 DEF Emissions, values
  <2>2. QED
    BY <1>2, <1>4, <2>1
<1>5. QED
  BY <1>1, <1>3, <1>4

LEMMA IdleIsNotBusy == IdleHook.stage = "idle" /\ IdleHook \notin BusyHook
  /\ \A k \in BusyHook : k.stage # "idle"
<1>1. \A k \in BusyHook : k.stage # "idle"
  BY DEF BusyHook
<1>2. IdleHook.stage = "idle"
  BY DEF IdleHook
<1>3. QED
  BY <1>1, <1>2

LEMMA LabelerInitially == LabelerInit => LabelerInv
<1> SUFFICES ASSUME LabelerInit PROVE LabelerInv
  OBVIOUS
<1>1. LabelerTypeOK /\ hook \in [Hooks -> HookStates]
  BY LabelerAssumption DEF LabelerInit, LabelerTypeOK, Seqs, HookStates
<1>2. \A h \in Hooks : hook[h].stage = "idle"
  BY IdleIsNotBusy DEF LabelerInit
<1>3. IsFiniteSet(rows)
  BY FS_EmptySet DEF LabelerInit
<1>4. QED
  BY <1>1, <1>2, <1>3
     DEF LabelerInit, LabelerInv, NumbersTaken, CursorsOnRows, Given, CallOK, Inserting

(* A step of one call that inserts nothing.                                  *)
LEMMA CallMoves ==
  ASSUME LabelerInv, NEW h \in Hooks, NEW k \in HookStates, hook' = [hook EXCEPT ![h] = k],
         UNCHANGED <<posted, rows, nextSeq, follower>>,
         k.stage # "inserting", CallOK(k)
  PROVE  LabelerInv'
<1>1. /\ LabelerTypeOK /\ hook \in [Hooks -> HookStates] /\ NumbersTaken
      /\ \A g \in Hooks : CallOK(hook[g])
  BY DEF LabelerInv
<1>2. hook'[h] = k /\ \A g \in Hooks : g # h => hook'[g] = hook[g]
  BY <1>1
<1>3. hook' \in [Hooks -> HookStates] /\ LabelerTypeOK'
  BY <1>1, <1>2 DEF LabelerTypeOK, HookStates
<1>4. NumbersTaken'
  BY <1>1, <1>2 DEF NumbersTaken, Inserting
<1>5. \A g \in Hooks : CallOK(hook[g])'
  BY <1>1, <1>2 DEF CallOK, TakedownHandled, TakedownLast
<1>6. \A f \in Followers : Given(f)'
  BY <1>2 DEF LabelerInv, Given, Inserting
<1>7. QED
  BY <1>3, <1>4, <1>5, <1>6 DEF LabelerInv, CursorsOnRows

LEMMA ReceiveKeeps ==
  ASSUME LabelerInv, NEW h \in Hooks, NEW p \in Payload, Receive(h, p)
  PROVE  LabelerInv'
<1> DEFINE k == [stage |-> "resolving", payload |-> p, known |-> p.named /\ p.video \in posted,
                 blind |-> FALSE, uri |-> Subject(p.video, FALSE), left |-> Emissions(p),
                 seq |-> 0, refused |-> {}]
<1>1. /\ hook' = [hook EXCEPT ![h] = k] /\ UNCHANGED <<posted, rows, nextSeq, follower>>
  BY DEF Receive
<1>2. k \in BusyHook
  <2>1. Subject(p.video, FALSE) \in Subjects
    BY DEF Subject, Subjects, Payload
  <2>2. (p.named /\ p.video \in posted) \in BOOLEAN
    OBVIOUS
  <2>3. QED
    BY <2>1, <2>2, EmissionsTyped DEF BusyHook
<1>3. CallOK(k)
  BY EmissionsTyped DEF CallOK, TakedownLast
<1>4. k.stage # "inserting"
  OBVIOUS
<1> HIDE DEF k
<1>5. QED
  BY <1>1, <1>2, <1>3, <1>4, CallMoves DEF HookStates

LEMMA ResolveKeeps ==
  ASSUME LabelerInv, NEW h \in Hooks, Resolve(h)
  PROVE  LabelerInv'
<1>1. hook[h] \in BusyHook /\ hook[h].stage = "resolving" /\ CallOK(hook[h])
      /\ hook \in [Hooks -> HookStates]
  BY IdleIsNotBusy DEF LabelerInv, Resolve, HookStates
<1>2. PICK blind \in {FALSE, hook[h].payload.named} :
        hook' = [hook EXCEPT ![h].stage = "labelling", ![h].blind = blind,
                   ![h].uri = Subject(hook[h].payload.video,
                                hook[h].payload.named /\ ~blind /\ hook[h].payload.video \in posted)]
  BY DEF Resolve
<1> DEFINE p == hook[h].payload
           k == [hook[h] EXCEPT !.stage = "labelling", !.blind = blind,
                   !.uri = Subject(p.video, p.named /\ ~blind /\ p.video \in posted)]
<1>3. p \in Payload /\ blind \in BOOLEAN
  BY <1>1 DEF BusyHook, Payload
<1>4. hook' = [hook EXCEPT ![h] = k]
  BY <1>1, <1>2 DEF BusyHook
<1>5. \A known \in BOOLEAN : /\ Subject(p.video, known) \in Subjects
                             /\ known => Subject(p.video, known).by = "record"
  BY <1>3 DEF Subject, Subjects, Payload
<1>6. /\ k \in BusyHook /\ k.stage = "labelling" /\ k.payload = p /\ k.blind = blind
      /\ k.known = hook[h].known /\ k.left = hook[h].left
      /\ k.uri = Subject(p.video, p.named /\ ~blind /\ p.video \in posted)
  BY <1>1, <1>3, <1>5 DEF BusyHook
<1> HIDE DEF k
<1>7. CallOK(k)
  BY <1>1, <1>5, <1>6 DEF CallOK, TakedownLast
<1>8. QED
  BY <1>4, <1>6, <1>7, CallMoves DEF HookStates, Resolve

(* What becomes of the labels left when the first is done with.              *)
LEMMA TailKeepsLast ==
  ASSUME NEW left \in Seq(AtprotoValues \cup {NoValue}), left # <<>>
  PROVE  /\ Tail(left) \in Seq(AtprotoValues \cup {NoValue})
         /\ left[Len(left)] = "!takedown" =>
              \/ Head(left) = "!takedown"
              \/ Tail(left) # <<>> /\ Tail(left)[Len(Tail(left))] = "!takedown"
<1>1. Len(left) \in Nat /\ Len(left) # 0 /\ Tail(left) \in Seq(AtprotoValues \cup {NoValue})
      /\ Len(Tail(left)) = Len(left) - 1 /\ \A i \in 1..(Len(left) - 1) : Tail(left)[i] = left[i + 1]
  BY HeadTailProperties, EmptySeq
<1>2. CASE Len(left) = 1
  BY <1>1, <1>2
<1>3. CASE Len(left) > 1
  <2>1. Tail(left)[Len(left) - 1] = left[Len(left)]
    BY <1>1, <1>3
  <2>2. Tail(left) # <<>>
    <3>1. Len(Tail(left)) # 0
      BY <1>1, <1>3
    <3>2. QED
      BY <3>1, EmptySeq
  <2>3. QED
    BY <1>1, <2>1, <2>2
<1>4. QED
  BY <1>1, <1>2, <1>3

LEMMA LabellingKeeps ==
  ASSUME LabelerInv, NEW h \in Hooks, PassUnknown(h) \/ Answer(h) \/ HookEnds(h)
  PROVE  LabelerInv'
<1>1. CASE HookEnds(h)
  <2>1. CallOK(IdleHook)
    BY IdleIsNotBusy DEF CallOK
  <2>2. QED
    BY <1>1, <2>1, IdleIsNotBusy, CallMoves DEF HookEnds, HookStates
<1>2. CASE PassUnknown(h) \/ Answer(h)
  <2>1. /\ hook[h] \in BusyHook /\ hook[h].stage = "labelling" /\ CallOK(hook[h])
        /\ hook \in [Hooks -> HookStates] /\ hook[h].left \in Seq(AtprotoValues \cup {NoValue})
        /\ UNCHANGED <<posted, rows, nextSeq, follower>>
    BY <1>2, IdleIsNotBusy DEF LabelerInv, PassUnknown, Labelling, Answer, HookStates, BusyHook
  <2>2. CASE PassUnknown(h)
    <3> DEFINE k == [hook[h] EXCEPT !.left = Tail(@)]
    <3>1. hook' = [hook EXCEPT ![h] = k]
      BY <2>1, <2>2 DEF PassUnknown, BusyHook
    <3>2. hook[h].left # <<>> /\ Head(hook[h].left) # "!takedown"
      BY <2>2, VocabularyFacts DEF PassUnknown, Labelling
    <3>3. /\ k \in BusyHook /\ k.left = Tail(hook[h].left) /\ k.stage = "labelling"
          /\ k.payload = hook[h].payload /\ k.known = hook[h].known /\ k.blind = hook[h].blind
          /\ k.uri = hook[h].uri /\ k.refused = hook[h].refused
      BY <2>1, <3>2, TailKeepsLast DEF BusyHook
    <3> HIDE DEF k
    <3>4. CallOK(k)
      BY <2>1, <3>2, <3>3, TailKeepsLast DEF CallOK, TakedownLast, TakedownHandled
    <3>5. QED
      BY <2>1, <3>1, <3>3, <3>4, CallMoves DEF HookStates
  <2>3. CASE Answer(h)
    <3> DEFINE k == [hook[h] EXCEPT !.stage = "done"]
    <3>1. hook' = [hook EXCEPT ![h] = k]
      BY <2>1, <2>3 DEF Answer, BusyHook
    <3>2. /\ k \in BusyHook /\ k.left = <<>> /\ k.stage = "done" /\ hook[h].left = <<>>
          /\ k.payload = hook[h].payload /\ k.known = hook[h].known /\ k.blind = hook[h].blind
          /\ k.uri = hook[h].uri /\ k.refused = hook[h].refused
      BY <2>1, <2>3 DEF BusyHook, Answer
    <3> HIDE DEF k
    <3>3. CallOK(k)
      BY <2>1, <3>2 DEF CallOK, TakedownLast, TakedownHandled
    <3>4. QED
      BY <2>1, <3>1, <3>2, <3>3, CallMoves DEF HookStates
  <2>4. QED
    BY <1>2, <2>2, <2>3
<1>3. QED
  BY <1>1, <1>2

LEMMA BeginInsertKeeps ==
  ASSUME LabelerInv, NEW h \in Hooks, BeginInsert(h)
  PROVE  LabelerInv'
<1>1. /\ hook[h] \in BusyHook /\ hook[h].stage = "labelling" /\ CallOK(hook[h])
      /\ hook[h].left # <<>> /\ Head(hook[h].left) # NoValue
      /\ hook \in [Hooks -> HookStates] /\ LabelerTypeOK /\ NumbersTaken
      /\ \A g \in Hooks : CallOK(hook[g])
      /\ UNCHANGED <<posted, rows, follower>> /\ nextSeq' = nextSeq + 1
      /\ nextSeq \in Seqs
  BY IdleIsNotBusy, LabelerAssumption
     DEF LabelerInv, BeginInsert, Labelling, HookStates, LabelerTypeOK, Seqs
<1> DEFINE k == [hook[h] EXCEPT !.stage = "inserting", !.seq = nextSeq]
<1>2. hook' = [hook EXCEPT ![h] = k]
  BY <1>1 DEF BeginInsert, BusyHook
<1>3. /\ k \in BusyHook /\ k.stage = "inserting" /\ k.seq = nextSeq /\ k.left = hook[h].left
      /\ k.payload = hook[h].payload /\ k.known = hook[h].known /\ k.blind = hook[h].blind
      /\ k.uri = hook[h].uri /\ k.refused = hook[h].refused
  BY <1>1 DEF BusyHook
<1> HIDE DEF k
<1>4. hook'[h] = k /\ \A g \in Hooks : g # h => hook'[g] = hook[g]
  BY <1>1, <1>2
<1>5. hook' \in [Hooks -> HookStates] /\ LabelerTypeOK'
  <2>1. nextSeq' \in 1..(MaxRows + 1)
    BY <1>1, LabelerAssumption DEF Seqs
  <2>2. hook' \in [Hooks -> HookStates] /\ \A g \in Hooks : hook'[g] = IdleHook \/ hook'[g] \in BusyHook
    BY <1>1, <1>2, <1>3, <1>4 DEF HookStates
  <2>3. QED
    BY <1>1, <2>1, <2>2 DEF LabelerTypeOK
<1>6. NumbersTaken'
  <2>1. nextSeq \in Nat /\ \A row \in rows : row.seq \in Nat /\ row.seq < nextSeq
    BY <1>1, LabelerAssumption DEF LabelerTypeOK, NumbersTaken, LabelRow, Seqs
  <2>2. \A row \in rows : row.seq < nextSeq'
    BY <1>1, <2>1
  <2>3. ASSUME NEW g \in Hooks, Inserting(g)'
        PROVE  /\ hook'[g].seq \in Seqs /\ hook'[g].seq < nextSeq'
               /\ \A f \in Hooks : Inserting(f)' /\ hook'[f].seq = hook'[g].seq => f = g
               /\ \A row \in rows : row.seq # hook'[g].seq
    <3>1. CASE g = h
      BY <1>1, <1>3, <1>4, <2>1, <2>3, <3>1 DEF NumbersTaken, Inserting
    <3>2. CASE g # h
      <4>1. Inserting(g) /\ hook'[g] = hook[g] /\ hook[g].seq \in Nat
        BY <1>1, <1>4, <2>3, <3>2, LabelerAssumption DEF Inserting, NumbersTaken, Seqs
      <4>2. QED
        BY <1>1, <1>3, <1>4, <2>1, <4>1 DEF NumbersTaken, Inserting
    <3>3. QED
      BY <3>1, <3>2
  <2>4. \A row, other \in rows : row.seq = other.seq => row = other
    BY <1>1 DEF NumbersTaken
  <2>5. QED
    BY <1>1, <2>2, <2>3, <2>4 DEF NumbersTaken
<1>7. \A g \in Hooks : CallOK(hook[g])'
  BY <1>1, <1>3, <1>4 DEF CallOK, TakedownHandled, TakedownLast
<1>8. ASSUME NEW f \in Followers PROVE Given(f)'
  <2>1. CursorsOnRows /\ Given(f)
    BY DEF LabelerInv
  <2>2. follower[f].cursor \in Nat /\ nextSeq \in Nat
    BY <1>1, LabelerAssumption DEF LabelerTypeOK, Seqs
  <2>3. follower[f].cursor < nextSeq
    <3>1. nextSeq > 0
      BY <1>1, LabelerAssumption DEF Seqs
    <3>2. QED
      BY <1>1, <2>1, <3>1 DEF CursorsOnRows, NumbersTaken
  <2>4. ASSUME NEW g \in Hooks, Inserting(g)', hook'[g].seq <= follower[f].cursor
        PROVE  hook'[g].seq \in follower[f].late
    <3>1. g # h
      BY <1>3, <1>4, <2>2, <2>3, <2>4
    <3>2. QED
      BY <1>4, <2>1, <2>4, <3>1 DEF Given, Inserting
  <2>5. QED
    BY <1>1, <2>1, <2>4 DEF Given
<1>9. QED
  BY <1>1, <1>5, <1>6, <1>7, <1>8 DEF LabelerInv, CursorsOnRows

(* Both endings of an insert take the label off the list.                    *)
LEMMA InsertEnds ==
  ASSUME LabelerInv, NEW h \in Hooks, NEW refused \in {{}, {Head(hook[h].left)}},
         Inserting(h), EndInsert(h, refused), rows \subseteq rows', posted' = posted,
         refused = {} => \E row \in rows' : row.val = Head(hook[h].left) /\ row.uri = hook[h].uri
  PROVE  \E k \in BusyHook :
           /\ hook' = [hook EXCEPT ![h] = k] /\ k.stage = "labelling" /\ CallOK(k)'
<1>1. /\ hook[h] \in BusyHook /\ hook[h].left # <<>> /\ CallOK(hook[h])
      /\ Head(hook[h].left) # NoValue /\ hook \in [Hooks -> HookStates]
      /\ hook[h].left \in Seq(AtprotoValues \cup {NoValue})
  BY IdleIsNotBusy DEF LabelerInv, Inserting, HookStates, CallOK, BusyHook
<1>2. Head(hook[h].left) \in AtprotoValues
  BY <1>1, HeadTailProperties
<1> DEFINE moved == [hook[h] EXCEPT !.stage = "labelling", !.left = Tail(@), !.seq = 0,
                                    !.refused = @ \cup refused]
<1>3. PICK k \in BusyHook : k = moved
  BY <1>1, <1>2, TailKeepsLast DEF BusyHook
<1>4. hook' = [hook EXCEPT ![h] = k]
  BY <1>1, <1>3 DEF EndInsert, BusyHook
<1>5. /\ k.left = Tail(hook[h].left) /\ k.stage = "labelling"
      /\ k.payload = hook[h].payload /\ k.known = hook[h].known /\ k.blind = hook[h].blind
      /\ k.uri = hook[h].uri /\ k.refused = hook[h].refused \cup refused
  BY <1>1, <1>3 DEF BusyHook
<1> HIDE DEF moved
<1>6. ASSUME k.payload.ban PROVE TakedownLast(k) \/ TakedownHandled(k)'
  <2>1. TakedownLast(hook[h]) \/ TakedownHandled(hook[h])
    BY <1>1, <1>5, <1>6 DEF CallOK, Inserting
  <2>2. CASE TakedownHandled(hook[h])
    BY <1>5, <2>2 DEF TakedownHandled
  <2>3. CASE Head(hook[h].left) = "!takedown"
    BY <1>5, <2>3 DEF TakedownHandled
  <2>4. CASE TakedownLast(k)
    BY <2>4
  <2>5. QED
    BY <1>1, <1>5, <2>1, <2>2, <2>3, <2>4, TailKeepsLast DEF TakedownLast
<1>7. CallOK(k)'
  BY <1>1, <1>5, <1>6 DEF CallOK, TakedownLast, Inserting
<1>8. QED
  BY <1>4, <1>5, <1>7

LEMMA InsertFailsKeeps ==
  ASSUME LabelerInv, NEW h \in Hooks, InsertFails(h)
  PROVE  LabelerInv'
<1>1. PICK k \in BusyHook : hook' = [hook EXCEPT ![h] = k] /\ k.stage = "labelling" /\ CallOK(k)'
  BY InsertEnds DEF InsertFails, Inserting
<1>2. UNCHANGED <<posted, rows, nextSeq, follower>>
  BY DEF InsertFails
<1>3. CallOK(k)
  BY <1>1, <1>2 DEF CallOK, TakedownHandled, TakedownLast
<1>4. QED
  BY <1>1, <1>2, <1>3, CallMoves DEF HookStates

LEMMA CommitKeeps ==
  ASSUME LabelerInv, NEW h \in Hooks, Commit(h)
  PROVE  LabelerInv'
<1> DEFINE new == [seq |-> hook[h].seq, uri |-> hook[h].uri, val |-> Head(hook[h].left)]
<1>1. /\ rows' = rows \cup {new}
      /\ UNCHANGED <<posted, nextSeq, follower>> /\ EndInsert(h, {}) /\ Inserting(h)
  BY DEF Commit, Inserting
<1>2. /\ LabelerTypeOK /\ hook \in [Hooks -> HookStates] /\ IsFiniteSet(rows) /\ NumbersTaken
      /\ CursorsOnRows /\ \A f \in Followers : Given(f)
      /\ \A g \in Hooks : CallOK(hook[g])
  BY DEF LabelerInv
<1>3. PICK k \in BusyHook : hook' = [hook EXCEPT ![h] = k] /\ k.stage = "labelling" /\ CallOK(k)'
  <2>1. \E row \in rows' : row.val = Head(hook[h].left) /\ row.uri = hook[h].uri
    <3>1. new \in rows' /\ new.val = Head(hook[h].left) /\ new.uri = hook[h].uri
      BY <1>1
    <3> HIDE DEF new
    <3>2. QED
      BY <3>1
  <2>2. rows \subseteq rows'
    BY <1>1
  <2>3. QED
    BY <1>1, <2>1, <2>2, InsertEnds
<1>4. /\ hook[h] \in BusyHook /\ hook[h].left # <<>> /\ Head(hook[h].left) # NoValue
      /\ hook[h].left \in Seq(AtprotoValues \cup {NoValue})
      /\ hook[h].seq \in Seqs /\ hook[h].uri \in Subjects
  BY <1>1, <1>2, IdleIsNotBusy DEF Inserting, HookStates, CallOK, BusyHook, NumbersTaken
<1>5. new \in LabelRow
  BY <1>4, HeadTailProperties DEF LabelRow
<1>6. /\ Seqs \subseteq Nat /\ new.seq = hook[h].seq /\ nextSeq \in Nat
      /\ \A row \in rows : row.seq \in Seqs /\ row.seq \in Nat
      /\ \A f \in Followers : follower[f].cursor \in Nat
  BY <1>2, LabelerAssumption DEF Seqs, LabelerTypeOK, LabelRow
<1>7. hook'[h] = k /\ \A g \in Hooks : g # h => hook'[g] = hook[g]
  BY <1>2, <1>3
<1>8. \A g \in Hooks : Inserting(g)' => g # h /\ Inserting(g) /\ hook'[g] = hook[g]
  BY <1>3, <1>7 DEF Inserting
<1> HIDE DEF new
<1>11. LabelerTypeOK' /\ hook' \in [Hooks -> HookStates] /\ IsFiniteSet(rows')
  <2>1. IsFiniteSet(rows')
    BY <1>1, <1>2, FS_AddElement
  <2>2. hook' \in [Hooks -> HookStates] /\ \A g \in Hooks : hook'[g] = IdleHook \/ hook'[g] \in BusyHook
    BY <1>2, <1>3, <1>7 DEF HookStates
  <2>3. QED
    BY <1>1, <1>2, <1>5, <2>1, <2>2 DEF LabelerTypeOK
<1>12. NumbersTaken'
  <2>1. \A row \in rows' : row.seq < nextSeq'
    BY <1>1, <1>2, <1>6 DEF NumbersTaken
  <2>2. ASSUME NEW g \in Hooks, Inserting(g)'
        PROVE  /\ hook'[g].seq \in Seqs /\ hook'[g].seq < nextSeq'
               /\ \A f \in Hooks : Inserting(f)' /\ hook'[f].seq = hook'[g].seq => f = g
               /\ \A row \in rows' : row.seq # hook'[g].seq
    <3>1. g # h /\ Inserting(g) /\ hook'[g] = hook[g]
      BY <1>8, <2>2
    <3>2. hook[g].seq # hook[h].seq /\ hook[g].seq \in Seqs /\ hook[g].seq < nextSeq
      BY <1>1, <1>2, <3>1 DEF NumbersTaken
    <3>3. \A row \in rows' : row.seq # hook[g].seq
      BY <1>1, <1>2, <1>6, <3>1, <3>2 DEF NumbersTaken
    <3>4. \A f \in Hooks : Inserting(f)' /\ hook'[f].seq = hook[g].seq => f = g
      BY <1>2, <1>8, <3>1 DEF NumbersTaken
    <3>5. QED
      BY <1>1, <3>1, <3>2, <3>3, <3>4
  <2>3. \A row, other \in rows' : row.seq = other.seq => row = other
    BY <1>1, <1>2, <1>6 DEF NumbersTaken
  <2>4. QED
    BY <2>1, <2>2, <2>3 DEF NumbersTaken
<1>13. CursorsOnRows'
  BY <1>1, <1>2 DEF CursorsOnRows
<1>14. ASSUME NEW f \in Followers PROVE Given(f)'
  <2>1. ASSUME NEW row \in rows', row.uri \in FollowsOnly[f], row.seq <= follower[f].cursor
        PROVE  row.seq \in follower[f].got \cup follower[f].late
    <3>1. CASE row \in rows
      BY <1>2, <2>1, <3>1 DEF Given
    <3>2. CASE row = new
      BY <1>1, <1>2, <1>6, <2>1, <3>2 DEF Given
    <3>3. QED
      BY <1>1, <2>1, <3>1, <3>2
  <2>2. \A g \in Hooks : Inserting(g)' /\ hook'[g].seq <= follower[f].cursor =>
          hook'[g].seq \in follower[f].late
    BY <1>2, <1>8 DEF Given
  <2>3. QED
    BY <1>1, <2>1, <2>2 DEF Given
<1>15. \A g \in Hooks : CallOK(hook[g])'
  <2>1. ASSUME NEW g \in Hooks, g # h PROVE CallOK(hook[g])'
    BY <1>1, <1>2, <1>7, <2>1 DEF CallOK, TakedownHandled, TakedownLast
  <2>2. CallOK(hook[h])'
    BY <1>3, <1>7 DEF CallOK, TakedownHandled, TakedownLast
  <2>3. QED
    BY <2>1, <2>2
<1>16. QED
  BY <1>11, <1>12, <1>13, <1>14, <1>15 DEF LabelerInv

(* A page holds every row of the client's subjects up to its last one.       *)
LEMMA PageHasNoGap ==
  ASSUME IsFiniteSet(rows), rows \subseteq LabelRow, NEW n, NEW last \in FirstRows(n),
         NEW row \in rows, row.seq > n, row.seq <= last.seq
  PROVE  row \in FirstRows(n)
<1> DEFINE UpTo(m) == {r \in After(n) : r.seq <= m}
<1>1. \A r \in rows : r.seq \in Nat
  BY LabelerAssumption DEF LabelRow, Seqs
<1>2. last \in rows /\ Cardinality(UpTo(last.seq)) <= PageRows /\ row \in After(n)
  BY DEF FirstRows, After
<1>3. UpTo(row.seq) \subseteq UpTo(last.seq) /\ UpTo(last.seq) \subseteq rows
  BY <1>1, <1>2 DEF After
<1>4. IsFiniteSet(UpTo(last.seq)) /\ IsFiniteSet(UpTo(row.seq))
      /\ Cardinality(UpTo(row.seq)) <= Cardinality(UpTo(last.seq))
  <2>1. IsFiniteSet(UpTo(last.seq))
    BY <1>3, FS_Subset
  <2>2. QED
    BY <1>3, <2>1, FS_Subset
<1>5. Cardinality(UpTo(row.seq)) \in Nat /\ Cardinality(UpTo(last.seq)) \in Nat
  BY <1>4, FS_CardinalityType
<1>6. Cardinality(UpTo(row.seq)) <= PageRows
  <2> HIDE DEF UpTo
  <2>1. QED
    BY <1>2, <1>4, <1>5, LabelerAssumption
<1>7. QED
  BY <1>2, <1>6 DEF FirstRows

LEMMA FollowKeeps ==
  ASSUME LabelerInv, NEW f \in Followers, Follow(f)
  PROVE  LabelerInv'
<1> DEFINE n == follower[f].cursor
           seqs == {row.seq : row \in LabelsFor(f)}
           writing == {h \in Hooks : hook[h].stage = "inserting" /\ hook[h].seq < Max(seqs)}
           passed == {hook[h].seq : h \in writing}
           new == [cursor |-> Max(seqs), got |-> follower[f].got \cup seqs,
                   late |-> follower[f].late \cup passed]
<1>1. /\ LabelerTypeOK /\ IsFiniteSet(rows) /\ NumbersTaken
      /\ CursorsOnRows /\ \A g \in Followers : Given(g)
  BY DEF LabelerInv
<1>2. /\ LabelsFor(f) # {} /\ follower' = [follower EXCEPT ![f] = new]
      /\ UNCHANGED <<posted, rows, nextSeq, hook>>
  BY DEF Follow
<1>3. LabelsFor(f) \subseteq rows /\ rows \subseteq LabelRow
  BY <1>1 DEF LabelsFor, FirstRows, After, LabelerTypeOK
<1>4. seqs \subseteq Seqs /\ seqs # {} /\ seqs \subseteq Nat /\ \A s \in seqs : s <= MaxRows
  BY <1>2, <1>3, LabelerAssumption DEF LabelRow, Seqs
<1>5. Max(seqs) \in seqs /\ \A s \in seqs : Max(seqs) >= s
  <2> HIDE DEF seqs
  <2>1. QED
    BY <1>4, LabelerAssumption, MaxIsGreatest
<1>6. PICK last \in LabelsFor(f) : last.seq = Max(seqs)
  BY <1>5
<1>7. /\ follower \in [Followers -> [cursor : 0..MaxRows, got : SUBSET Seqs, late : SUBSET Seqs]]
      /\ Max(seqs) \in 0..MaxRows /\ n \in Nat
  BY <1>1, <1>4, <1>5, LabelerAssumption DEF LabelerTypeOK, Seqs
<1>8. /\ passed \subseteq Seqs
      /\ \A h \in Hooks : Inserting(h) /\ hook[h].seq < Max(seqs) => hook[h].seq \in passed
  BY <1>1 DEF NumbersTaken, Inserting
<1> HIDE DEF passed
<1>9. /\ follower'[f].cursor = Max(seqs) /\ follower'[f].got = follower[f].got \cup seqs
      /\ follower'[f].late = follower[f].late \cup passed
      /\ \A g \in Followers : g # f => follower'[g] = follower[g]
  BY <1>2, <1>7
<1>10. LabelerTypeOK'
  <2>1. new \in [cursor : 0..MaxRows, got : SUBSET Seqs, late : SUBSET Seqs]
    BY <1>4, <1>7, <1>8
  <2> HIDE DEF new
  <2>2. QED
    BY <1>1, <1>2, <1>7, <2>1 DEF LabelerTypeOK
<1>11. CursorsOnRows'
  BY <1>1, <1>2, <1>3, <1>6, <1>9 DEF CursorsOnRows
<1>12. Given(f)'
  <2>1. ASSUME NEW row \in rows, row.uri \in FollowsOnly[f], row.seq <= follower'[f].cursor
        PROVE  row.seq \in follower'[f].got \cup follower'[f].late
    <3>1. CASE row.seq <= n
      BY <1>1, <1>9, <2>1, <3>1 DEF Given
    <3>2. CASE row.seq > n
      <4>1. last \in FirstRows(n) /\ row.seq <= last.seq
        BY <1>6, <1>9, <2>1 DEF LabelsFor
      <4>2. row \in FirstRows(n)
        BY <1>1, <1>3, <3>2, <4>1, PageHasNoGap
      <4>3. row.seq \in seqs
        BY <2>1, <4>2 DEF LabelsFor
      <4>4. QED
        BY <1>9, <4>3
    <3>3. row.seq \in Nat
      BY <1>3, LabelerAssumption DEF LabelRow, Seqs
    <3>4. QED
      BY <1>7, <3>1, <3>2, <3>3
  <2>2. ASSUME NEW h \in Hooks, Inserting(h), hook[h].seq <= follower'[f].cursor
        PROVE  hook[h].seq \in follower'[f].late
    <3>1. hook[h].seq # last.seq /\ hook[h].seq \in Nat /\ Max(seqs) \in Nat
      BY <1>1, <1>3, <1>7, <2>2, LabelerAssumption DEF NumbersTaken, Seqs
    <3>2. hook[h].seq < Max(seqs)
      BY <1>6, <1>9, <2>2, <3>1
    <3>3. QED
      BY <1>8, <1>9, <2>2, <3>2
  <2>3. QED
    BY <1>2, <2>1, <2>2 DEF Given, Inserting
<1>13. \A g \in Followers : Given(g)'
  BY <1>1, <1>2, <1>9, <1>12 DEF Given, Inserting
<1>14. QED
  BY <1>1, <1>2, <1>10, <1>11, <1>13
     DEF LabelerInv, NumbersTaken, Inserting, CallOK, TakedownHandled

LEMMA LabelerStep == LabelerInv /\ [LabelerNext]_labelerVars => LabelerInv'
<1> SUFFICES ASSUME LabelerInv, [LabelerNext]_labelerVars PROVE LabelerInv'
  OBVIOUS
<1>1. ASSUME NEW v \in Videos, PostVideo(v) PROVE LabelerInv'
  BY <1>1 DEF PostVideo, LabelerInv, LabelerTypeOK, NumbersTaken, Inserting, CursorsOnRows,
              Given, CallOK, TakedownHandled
<1>2. ASSUME NEW h \in Hooks, HookStep(h) PROVE LabelerInv'
  BY <1>2, ReceiveKeeps, ResolveKeeps, LabellingKeeps, BeginInsertKeeps, CommitKeeps,
     InsertFailsKeeps DEF HookStep
<1>3. ASSUME NEW f \in Followers, Follow(f) PROVE LabelerInv'
  BY <1>3, FollowKeeps
<1>4. CASE UNCHANGED labelerVars
  BY <1>4 DEF labelerVars, LabelerInv, LabelerTypeOK, NumbersTaken, Inserting, CursorsOnRows,
              Given, CallOK, TakedownHandled
<1>5. QED
  BY <1>1, <1>2, <1>3, <1>4 DEF LabelerNext

(* A client whose next answer is empty has a full page of other subjects     *)
(* before each of its own rows.                                              *)
LEMMA EmptyPageIsFull ==
  ASSUME LabelerInv, NEW f \in Followers, LabelsFor(f) = {},
         NEW row \in rows, row.uri \in FollowsOnly[f], row.seq > follower[f].cursor
  PROVE  Cardinality(InFront(f, row)) >= PageRows
<1> DEFINE n == follower[f].cursor
           own == {r \in After(n) : r.uri \in FollowsOnly[f]}
           numbers == {r.seq : r \in own}
           UpTo(m) == {r \in After(n) : r.seq <= m}
<1>1. IsFiniteSet(rows) /\ NumbersTaken /\ \A r \in rows : r.seq \in Nat
  BY LabelerAssumption DEF LabelerInv, LabelerTypeOK, LabelRow, Seqs
<1>2. numbers \subseteq Nat /\ numbers # {} /\ row \in own
  BY <1>1 DEF After
<1>3. PICK first \in own : \A r \in own : first.seq <= r.seq
  <2> HIDE DEF numbers
  <2>1. PICK m \in numbers : \A k \in numbers : m <= k
    BY <1>2, LeastOfNaturals
  <2> USE DEF numbers
  <2>2. QED
    BY <2>1
<1> DEFINE before == {r \in After(n) : r.seq < first.seq}
<1>4. UpTo(first.seq) = before \cup {first} /\ UpTo(first.seq) \subseteq rows
  BY <1>1, <1>3 DEF After, NumbersTaken
<1>5. before \subseteq InFront(f, row) /\ InFront(f, row) \subseteq rows
  BY <1>1, <1>2, <1>3 DEF InFront, After
<1>6. ~(Cardinality(UpTo(first.seq)) <= PageRows)
  BY <1>3 DEF LabelsFor, FirstRows
<1>7. /\ IsFiniteSet(before) /\ first \notin before
      /\ Cardinality(before \cup {first}) = Cardinality(before) + 1
      /\ Cardinality(before) \in Nat
  <2>1. before \subseteq rows /\ first \notin before
    BY <1>1, <1>3 DEF After
  <2>2. IsFiniteSet(before)
    BY <1>1, <2>1, FS_Subset
  <2>3. QED
    BY <2>1, <2>2, FS_AddElement, FS_CardinalityType
<1>8. /\ Cardinality(before) <= Cardinality(InFront(f, row))
      /\ Cardinality(InFront(f, row)) \in Nat
  <2>1. IsFiniteSet(InFront(f, row))
    BY <1>1, <1>5, FS_Subset
  <2>2. QED
    BY <1>5, <2>1, FS_Subset, FS_CardinalityType
<1> HIDE DEF before, UpTo
<1>9. QED
  BY <1>4, <1>6, <1>7, <1>8, LabelerAssumption

(* queryLabels: what a client lacks of its labels was being inserted while a  *)
(* query moved its cursor past it, or lies ahead, within the next answer or   *)
(* behind a full page of other subjects; for any number of calls, clients,    *)
(* labels and any page size.                                                  *)
THEOREM FollowersMissOnlyRaced == LabelerSpec => []OnlyRacedAreMissed
<1>1. LabelerInv => OnlyRacedAreMissed
  <2> SUFFICES ASSUME LabelerInv, NEW f \in Followers, NEW row \in rows,
                      row.uri \in FollowsOnly[f], row.seq \notin follower[f].got,
                      row.seq \notin follower[f].late
               PROVE  /\ row.seq > follower[f].cursor
                      /\ LabelsFor(f) # {} \/ Cardinality(InFront(f, row)) >= PageRows
    BY DEF OnlyRacedAreMissed
  <2>1. row.seq \in Nat /\ follower[f].cursor \in Nat
    BY LabelerAssumption DEF LabelerInv, LabelerTypeOK, LabelRow, Seqs
  <2>2. row.seq > follower[f].cursor
    BY <2>1 DEF LabelerInv, Given
  <2>3. QED
    BY <2>2, EmptyPageIsFull
<1>2. QED
  BY <1>1, LabelerInitially, LabelerStep, PTL DEF LabelerSpec

(* webhook handler: a ban that is answered has left a takedown on its subject,  *)
(* or the store refused one, however many calls run side by side.             *)
THEOREM BansAreTakenDown == LabelerSpec => []BanTakesDown
<1>1. LabelerInv => BanTakesDown
  BY DEF LabelerInv, CallOK, TakedownHandled, BanTakesDown
<1>2. QED
  BY <1>1, LabelerInitially, LabelerStep, PTL DEF LabelerSpec

--------------------------------------------------------------------------------
(* The app view *)

(* Finitely many posts were ever on the PDS, so a page has a last one.       *)
PostsBounded ==
  \E n \in Nat : /\ \A p \in pdsPosts : p <= n
                 /\ \A p \in indexer.posts : p <= n

(* A post of a page that was read is indexed or still to be, and its view is *)
(* queued first.                                                              *)
PagesLand ==
  /\ indexer.listed \subseteq index \cup indexer.posts
  /\ indexer.stage \in {"listing", "posts"} => indexer.posts = {}
  /\ indexer.stage \in {"posts", "storing", "view"} => indexer.repos # {}
  /\ indexer.stage = "view" => /\ indexer.posts # {}
                               /\ NextPost \in VideoPosts => views[NextPost] # "none"

(* While the script derives views, it misses none that waits.                *)
ScriptSeesAll ==
  indexer.stage = "hydrating" => \A p \in Posts : views[p] = "queued" => p \in indexer.unready

AppViewInv ==
  AppViewTypeOK /\ PostsBounded /\ PagesLand /\ ScriptSeesAll /\ ReadyMeansIndexed

LEMMA NoIndexerTyped ==
  /\ NoIndexer \in IndexerState /\ NoIndexer.stage = "idle" /\ NoIndexer.posts = {}
  /\ NoIndexer.listed = {}
BY DEF NoIndexer, IndexerState, IndexerStages

LEMMA AppViewInitially == AppViewInit => AppViewInv
<1> SUFFICES ASSUME AppViewInit PROVE AppViewInv
  OBVIOUS
<1>1. PostsBounded
  <2>1. 0 \in Nat /\ pdsPosts = {} /\ indexer.posts = {}
    BY NoIndexerTyped DEF AppViewInit
  <2>2. QED
    BY <2>1 DEF PostsBounded
<1>2. QED
  BY <1>1, NoIndexerTyped
     DEF AppViewInit, AppViewInv, AppViewTypeOK, PagesLand, ScriptSeesAll, ReadyMeansIndexed,
         AppViewReady

LEMMA NextPostIsNext ==
  ASSUME AppViewInv, indexer.posts # {}
  PROVE  NextPost \in indexer.posts /\ NextPost \in Posts
<1>1. indexer.posts \subseteq Posts /\ indexer.posts \subseteq Nat
  BY AppViewAssumption DEF AppViewInv, AppViewTypeOK, IndexerState
<1>2. PICK n \in Nat : \A p \in indexer.posts : p <= n
  BY DEF AppViewInv, PostsBounded
<1>3. QED
  BY <1>1, <1>2, MaxIsGreatest DEF NextPost

(* The locals change, and nothing else.                                      *)
LEMMA LocalsMove ==
  ASSUME AppViewInv, indexer' \in IndexerState,
         UNCHANGED <<pdsProfiles, pdsPosts, profiles, index, views, backfilled, owed>>,
         indexer'.posts \subseteq indexer.posts \cup pdsPosts, PagesLand', ScriptSeesAll'
  PROVE  AppViewInv'
<1>1. PostsBounded'
  <2>1. PICK n \in Nat : /\ \A p \in pdsPosts : p <= n
                         /\ \A p \in indexer.posts : p <= n
    BY DEF AppViewInv, PostsBounded
  <2>2. QED
    BY <2>1 DEF PostsBounded
<1>2. QED
  BY <1>1 DEF AppViewInv, AppViewTypeOK, ReadyMeansIndexed, AppViewReady

LEMMA ReadingKeeps ==
  ASSUME AppViewInv, StartBackfill \/ ReadProfile \/ ReadPosts \/ RepoDone
  PROVE  AppViewInv'
<1>1. /\ indexer \in IndexerState /\ PagesLand
      /\ UNCHANGED <<pdsProfiles, pdsPosts, profiles, index, views, backfilled, owed>>
  BY DEF AppViewInv, AppViewTypeOK, StartBackfill, ReadProfile, ReadPosts, RepoDone
<1>2. CASE StartBackfill
  <2>1. /\ indexer' \in IndexerState /\ indexer'.stage = "listing" /\ indexer'.posts = {}
        /\ indexer'.listed = {}
    BY <1>2, NoIndexerTyped DEF StartBackfill, IndexerState, IndexerStages
  <2>2. QED
    BY <1>1, <2>1, LocalsMove DEF PagesLand, ScriptSeesAll
<1>3. CASE ReadProfile
  <2>1. PICK has \in BOOLEAN :
          indexer' = [indexer EXCEPT !.stage = "posts", !.profile = has]
    <3>1. (Current \in pdsProfiles) \in BOOLEAN
      OBVIOUS
    <3>2. QED
      BY <1>3, <3>1 DEF ReadProfile
  <2>2. /\ indexer' \in IndexerState /\ indexer'.stage = "posts" /\ indexer'.posts = indexer.posts
        /\ indexer'.listed = indexer.listed /\ indexer'.repos = indexer.repos
    BY <1>1, <2>1 DEF IndexerState, IndexerStages
  <2>3. indexer.posts = {} /\ indexer.repos # {}
    BY <1>1, <1>3 DEF ReadProfile, PagesLand
  <2>4. QED
    BY <1>1, <2>2, <2>3, LocalsMove DEF PagesLand, ScriptSeesAll
<1>4. CASE ReadPosts
  <2>1. PostPage \subseteq pdsPosts /\ pdsPosts \subseteq Posts
    BY DEF PostPage, LastOf, AppViewInv, AppViewTypeOK
  <2>2. /\ indexer' \in IndexerState /\ indexer'.stage = "storing" /\ indexer'.posts = PostPage
        /\ indexer'.listed = indexer.listed \cup PostPage /\ indexer.posts = {}
        /\ indexer'.repos = indexer.repos /\ indexer.repos # {}
    BY <1>1, <1>4, <2>1 DEF ReadPosts, IndexerState, IndexerStages, PagesLand
  <2>3. QED
    BY <1>1, <2>1, <2>2, LocalsMove DEF PagesLand, ScriptSeesAll
<1>5. CASE RepoDone
  <2>1. /\ indexer' \in IndexerState /\ indexer'.stage = "listing" /\ indexer'.posts = {}
        /\ indexer'.listed = indexer.listed /\ indexer.posts = {}
    BY <1>1, <1>5 DEF RepoDone, IndexerState, IndexerStages
  <2>2. QED
    BY <1>1, <2>1, LocalsMove DEF PagesLand, ScriptSeesAll
<1>6. QED
  BY <1>2, <1>3, <1>4, <1>5

LEMMA StoringKeeps ==
  ASSUME AppViewInv, StoreProfile \/ QueueView \/ StorePost
  PROVE  AppViewInv'
<1>1. /\ indexer \in IndexerState /\ PagesLand /\ AppViewTypeOK /\ PostsBounded
      /\ ReadyMeansIndexed /\ VideoPosts \subseteq Posts
      /\ UNCHANGED <<pdsProfiles, pdsPosts, backfilled, owed>>
  BY AppViewAssumption DEF AppViewInv, AppViewTypeOK, StoreProfile, QueueView, StorePost
<1>2. PICK n \in Nat : (\A p \in pdsPosts : p <= n) /\ (\A p \in indexer.posts : p <= n)
  BY <1>1 DEF PostsBounded
<1>3. CASE StoreProfile
  <2>1. /\ indexer' \in IndexerState /\ indexer'.stage = "storing" /\ indexer'.posts = indexer.posts
        /\ indexer'.listed = indexer.listed /\ indexer'.repos = indexer.repos
        /\ indexer.repos # {} /\ UNCHANGED <<index, views>>
    BY <1>1, <1>3 DEF StoreProfile, IndexerState, PagesLand
  <2>2. profiles' \subseteq Repos
    <3>1. PICK r : profiles' = profiles \cup {r} /\ r = Current
      BY <1>3 DEF StoreProfile
    <3>2. Current \in Repos
      BY <1>1, <1>3 DEF StoreProfile, Current, PagesLand, IndexerState
    <3>3. QED
      BY <1>1, <3>1, <3>2 DEF AppViewTypeOK
  <2>3. PostsBounded'
    BY <1>1, <1>2, <2>1 DEF PostsBounded
  <2>4. QED
    BY <1>1, <2>1, <2>2, <2>3
       DEF AppViewInv, AppViewTypeOK, PagesLand, ScriptSeesAll, ReadyMeansIndexed, AppViewReady
<1>4. CASE QueueView
  <2>1. NextPost \in indexer.posts /\ NextPost \in Posts /\ indexer.posts # {}
    BY <1>4, NextPostIsNext DEF QueueView
  <2>2. /\ indexer' \in IndexerState /\ indexer'.stage = "view" /\ indexer'.posts = indexer.posts
        /\ indexer'.listed = indexer.listed /\ indexer'.repos = indexer.repos
        /\ indexer.repos # {} /\ UNCHANGED <<index, profiles>>
        /\ NextPost' = NextPost
    BY <1>1, <1>4 DEF QueueView, Turns, IndexerState, IndexerStages, NextPost, PagesLand
  <2>3. /\ views' \in [Posts -> {"none", "queued", "ready"}]
        /\ \A p \in Posts : views[p] # "none" => views'[p] # "none"
        /\ NextPost \in VideoPosts => views'[NextPost] # "none"
    BY <1>1, <1>4, <2>1 DEF QueueView, AppViewTypeOK
  <2>4. PostsBounded'
    BY <1>1, <1>2, <2>2 DEF PostsBounded
  <2>5. PagesLand' /\ ScriptSeesAll'
    BY <1>1, <2>1, <2>2, <2>3 DEF PagesLand, ScriptSeesAll
  <2>6. ReadyMeansIndexed'
    BY <1>1, <2>2, <2>3 DEF ReadyMeansIndexed, AppViewReady
  <2>7. QED
    BY <1>1, <2>2, <2>3, <2>4, <2>5, <2>6 DEF AppViewInv, AppViewTypeOK
<1>5. CASE StorePost
  <2>1. NextPost \in indexer.posts /\ NextPost \in Posts
    BY <1>1, <1>5, NextPostIsNext DEF StorePost, PagesLand
  <2>2. /\ indexer' \in IndexerState /\ indexer'.stage = "storing"
        /\ indexer'.posts = indexer.posts \ {NextPost} /\ indexer'.listed = indexer.listed
        /\ indexer'.repos = indexer.repos /\ indexer.repos # {}
        /\ index' = index \cup {NextPost} /\ UNCHANGED <<views, profiles>>
    BY <1>1, <1>5 DEF StorePost, IndexerState, IndexerStages, PagesLand
  <2>3. NextPost \in VideoPosts => views[NextPost] # "none"
    BY <1>1, <1>5 DEF StorePost, PagesLand
  <2>4. PostsBounded'
    BY <1>1, <1>2, <2>2 DEF PostsBounded
  <2>5. PagesLand' /\ ScriptSeesAll'
    BY <1>1, <2>2 DEF PagesLand, ScriptSeesAll
  <2>6. ReadyMeansIndexed'
    BY <1>1, <2>2, <2>3 DEF ReadyMeansIndexed, AppViewReady
  <2>7. QED
    BY <1>1, <2>1, <2>2, <2>4, <2>5, <2>6 DEF AppViewInv, AppViewTypeOK
<1>6. QED
  BY <1>3, <1>4, <1>5

LEMMA FinishingKeeps ==
  ASSUME AppViewInv, FinishBackfill \/ DeriveView \/ ScriptEnds \/ IndexerFails
  PROVE  AppViewInv'
<1>1. /\ indexer \in IndexerState /\ PagesLand /\ AppViewTypeOK /\ PostsBounded
      /\ ReadyMeansIndexed /\ ScriptSeesAll
      /\ UNCHANGED <<pdsProfiles, pdsPosts, profiles, index>>
  BY DEF AppViewInv, AppViewTypeOK, FinishBackfill, DeriveView, ScriptEnds, IndexerFails
<1>2. CASE FinishBackfill
  <2>1. /\ indexer' \in IndexerState /\ indexer'.stage = "hydrating" /\ indexer'.posts = {}
        /\ indexer'.listed = {} /\ indexer'.unready = Unready /\ UNCHANGED views
        /\ backfilled' = TRUE /\ owed' = indexer.listed /\ indexer.posts = {}
    BY <1>1, <1>2, NoIndexerTyped
       DEF FinishBackfill, IndexerState, IndexerStages, Unready, PagesLand
  <2>2. owed' \subseteq index /\ owed' \subseteq Posts
    BY <1>1, <2>1 DEF PagesLand, IndexerState
  <2>3. PostsBounded'
    BY <1>1, <2>1 DEF PostsBounded
  <2>4. PagesLand' /\ ScriptSeesAll' /\ ReadyMeansIndexed'
    BY <1>1, <2>1, <2>2
       DEF PagesLand, ScriptSeesAll, Unready, ReadyMeansIndexed, AppViewReady
  <2>5. QED
    BY <1>1, <2>1, <2>2, <2>3, <2>4 DEF AppViewInv, AppViewTypeOK
<1>3. CASE DeriveView
  <2>1. PICK p \in indexer.unready : /\ views' = [views EXCEPT ![p] = "ready"]
                                     /\ indexer' = [indexer EXCEPT !.unready = @ \ {p}]
    BY <1>3 DEF DeriveView
  <2>2. /\ indexer' \in IndexerState /\ indexer'.stage = "hydrating"
        /\ indexer'.posts = indexer.posts /\ indexer'.listed = indexer.listed
        /\ indexer'.unready = indexer.unready \ {p} /\ indexer.stage = "hydrating"
        /\ UNCHANGED <<backfilled, owed>> /\ p \in Posts
    BY <1>1, <1>3, <2>1 DEF DeriveView, IndexerState
  <2>3. views' \in [Posts -> {"none", "queued", "ready"}] /\ views'[p] = "ready"
        /\ \A q \in Posts : q # p => views'[q] = views[q]
    BY <1>1, <2>1, <2>2 DEF AppViewTypeOK
  <2>4. PostsBounded'
    BY <1>1, <2>2 DEF PostsBounded
  <2>5. PagesLand' /\ ScriptSeesAll'
    BY <1>1, <2>2, <2>3 DEF PagesLand, ScriptSeesAll
  <2>6. ReadyMeansIndexed'
    BY <1>1, <2>2, <2>3 DEF ReadyMeansIndexed, AppViewReady, AppViewTypeOK
  <2>7. QED
    BY <1>1, <2>2, <2>3, <2>4, <2>5, <2>6 DEF AppViewInv, AppViewTypeOK
<1>4. CASE ScriptEnds \/ IndexerFails
  <2>1. indexer' = NoIndexer /\ UNCHANGED <<views, backfilled, owed>>
    BY <1>4 DEF ScriptEnds, IndexerFails
  <2>2. PagesLand' /\ ScriptSeesAll'
    BY <1>1, <2>1, NoIndexerTyped DEF PagesLand, ScriptSeesAll
  <2>3. QED
    BY <1>1, <2>1, <2>2, NoIndexerTyped, LocalsMove
<1>5. QED
  BY <1>2, <1>3, <1>4

LEMMA AppViewStep == AppViewInv /\ [AppViewNext]_appViewVars => AppViewInv'
<1> SUFFICES ASSUME AppViewInv, [AppViewNext]_appViewVars PROVE AppViewInv'
  OBVIOUS
<1>1. CASE PdsChanges
  <2>1. /\ UNCHANGED <<profiles, index, views, backfilled, indexer, owed>>
        /\ pdsProfiles' \subseteq Repos /\ pdsPosts' \subseteq Posts
    BY <1>1 DEF PdsChanges, AppViewInv, AppViewTypeOK
  <2>2. PostsBounded'
    <3>1. PICK n \in Nat : /\ \A p \in pdsPosts : p <= n
                           /\ \A p \in indexer.posts : p <= n
      BY DEF AppViewInv, PostsBounded
    <3>2. PICK q \in Nat : pdsPosts' \subseteq pdsPosts \cup {q}
      BY <1>1, AppViewAssumption DEF PdsChanges, AppViewInv, AppViewTypeOK
    <3>3. pdsPosts \subseteq Nat /\ indexer.posts \subseteq Nat
      BY AppViewAssumption DEF AppViewInv, AppViewTypeOK, IndexerState
    <3>4. n + q \in Nat /\ q <= n + q /\ \A p \in Nat : p <= n => p <= n + q
      OBVIOUS
    <3>5. \A p \in pdsPosts' : p <= n + q
      BY <3>1, <3>2, <3>3, <3>4
    <3>6. \A p \in indexer'.posts : p <= n + q
      BY <2>1, <3>1, <3>3, <3>4
    <3>7. QED
      BY <3>4, <3>5, <3>6 DEF PostsBounded
  <2>3. PagesLand' /\ ScriptSeesAll' /\ ReadyMeansIndexed'
    BY <2>1 DEF AppViewInv, PagesLand, NextPost, ScriptSeesAll, ReadyMeansIndexed, AppViewReady
  <2>4. QED
    BY <2>1, <2>2, <2>3 DEF AppViewInv, AppViewTypeOK
<1>2. CASE UNCHANGED appViewVars
  BY <1>2 DEF appViewVars, AppViewInv, AppViewTypeOK, PostsBounded, PagesLand, NextPost,
              ScriptSeesAll, ReadyMeansIndexed, AppViewReady
<1>3. QED
  BY <1>1, <1>2, ReadingKeeps, StoringKeeps, FinishingKeeps DEF AppViewNext, IndexerStep

(* A ready app view has indexed whatever its last complete backfill was shown, *)
(* and an indexed video has a view the script will find: backfill_from_pds,   *)
(* for any repositories, posts and page limit, with runs that break off       *)
(* anywhere and a PDS that changes meanwhile.                                  *)
THEOREM ReadyIsComplete == AppViewSpec => []ReadyMeansIndexed
<1>1. AppViewInv => ReadyMeansIndexed
  BY DEF AppViewInv
<1>2. QED
  BY <1>1, AppViewInitially, AppViewStep, PTL DEF AppViewSpec

(* The script that runs the indexer and then the worker ends with every video  *)
(* that is shown playing.                                                      *)
THEOREM ScriptLeavesVideosPlaying == AppViewSpec => VideosPlayAgain
<1>1. AppViewInv /\ ScriptEnds => \A p \in VideoPosts \cap Shown : Plays(p)
  <2> SUFFICES ASSUME AppViewInv, ScriptEnds, NEW p \in VideoPosts, p \in Shown PROVE Plays(p)
    OBVIOUS
  <2>1. p \in Posts /\ p \in index /\ views[p] \in {"none", "queued", "ready"}
    BY AppViewAssumption DEF Shown, AppViewInv, AppViewTypeOK
  <2>2. views[p] # "none" /\ views[p] # "queued"
    BY <2>1 DEF AppViewInv, ScriptSeesAll, ReadyMeansIndexed, ScriptEnds
  <2>3. QED
    BY <2>1, <2>2 DEF Plays
<1>2. QED
  BY <1>1, AppViewInitially, AppViewStep, PTL DEF AppViewSpec, VideosPlayAgain
================================================================================
