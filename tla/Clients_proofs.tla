---------------------------- MODULE Clients_proofs -----------------------------
(***************************************************************************)
(* The bridge's two clients of other services: the sessions it keeps with   *)
(* the PDS, and the uploads through the video service.                       *)
(***************************************************************************)
EXTENDS PdsSession, MediaUpload, TLAPS

(***************************************************************************)
(* Concurrent refreshes of one session are harmless, for any number of      *)
(* calls and tokens: while one call is about to store a rotated session,    *)
(* the live refresh token is in its hands alone, so no other call can       *)
(* rotate the session again and none can store an older one later.          *)
(***************************************************************************)

Storing(c) == call[c].stage = "storing"

(* The live token is known only to the call that is about to store it. *)
OnlyStorerKnows ==
  \A c \in Calls : Storing(c) =>
    /\ call[c].minted # NoToken
    /\ call[c].minted.refresh = live
    /\ call[c].minted.access <= now + Ttl
    /\ stored # NoToken => /\ stored.refresh # live
                           /\ stored.access <= call[c].minted.access
    /\ \A d \in Calls : call[d].held # live

OneStorer == \A c, d \in Calls : Storing(c) /\ Storing(d) => c = d

(* A stored access token was minted by now. *)
StoredInTime == stored # NoToken => stored.access <= now + Ttl

Kept == lost \/ stored = NoToken \/ stored.refresh = live \/ \E c \in Calls : Storing(c)

SessionInv == SessionTypeOK /\ OnlyStorerKnows /\ OneStorer /\ StoredInTime /\ Kept

LEMMA IdleCallTyped == IdleCall \in CallState
BY DEF IdleCall, CallState, SessionStages

LEMMA SessionInitially == SessionInit => SessionInv
<1> SUFFICES ASSUME SessionInit PROVE SessionInv
  OBVIOUS
<1>1. \A c \in Calls : call[c] = IdleCall /\ ~Storing(c)
  BY DEF SessionInit, Storing, IdleCall
<1>2. stored \in Session \cup {NoToken} /\ live \in RefreshTokens \cup {NoToken}
  <2>1. CASE stored = NoToken /\ live = NoToken
    BY <2>1
  <2>2. CASE /\ live = CHOOSE r \in RefreshTokens : TRUE
             /\ stored = [access |-> Ttl, refresh |-> live]
    <3>1. live \in RefreshTokens
      BY <2>2, SessionAssumption
    <3>2. QED
      BY <2>2, <3>1, SessionAssumption DEF Session, Expiry
  <2>3. QED
    BY <2>1, <2>2 DEF SessionInit
<1>3. SessionTypeOK
  <2>1. now \in 0..MaxNow /\ lost \in BOOLEAN
    <3>1. now \in 0..MaxNow
      BY SessionAssumption DEF SessionInit
    <3>2. lost \in BOOLEAN
      BY DEF SessionInit
    <3>3. QED
      BY <3>1, <3>2
  <2>2. call \in [Calls -> CallState]
    BY IdleCallTyped DEF SessionInit
  <2>3. QED
    BY <1>2, <2>1, <2>2 DEF SessionTypeOK
<1>4. StoredInTime
  BY SessionAssumption DEF SessionInit, StoredInTime
<1>5. QED
  BY <1>1, <1>3, <1>4 DEF SessionInit, SessionInv, OnlyStorerKnows, OneStorer, Kept

(* The calls that do not move keep their locals. *)
Others(c) == \A d \in Calls \ {c} : call'[d] = call[d]

(* A step of one call that stores nothing: it is not about to store         *)
(* afterwards, and what it holds is nothing or the stored refresh token.     *)
LEMMA PlainStep ==
  ASSUME SessionInv, NEW c \in Calls, NEW r \in CallState,
         call' = [call EXCEPT ![c] = r], UNCHANGED <<now, stored, live>>,
         r.stage # "storing",
         r.held \in {NoToken, call[c].held} \/ (stored # NoToken /\ r.held = stored.refresh),
         \/ lost' = lost /\ ~Storing(c)
         \/ lost' = TRUE
  PROVE  SessionInv'
<1>1. SessionTypeOK /\ OnlyStorerKnows /\ OneStorer /\ StoredInTime /\ Kept
  BY DEF SessionInv
<1>2. call'[c] = r /\ Others(c) /\ ~Storing(c)'
  BY <1>1 DEF SessionTypeOK, Others, Storing
<1>3. SessionTypeOK'
  BY <1>1 DEF SessionTypeOK
<1>4. ASSUME NEW d \in Calls, Storing(d)' PROVE Storing(d) /\ call'[d] = call[d]
  BY <1>2, <1>4 DEF Others, Storing
<1>5. OneStorer'
  BY <1>1, <1>4 DEF OneStorer
<1>6. OnlyStorerKnows'
  <2> SUFFICES ASSUME NEW d \in Calls, Storing(d)'
      PROVE  /\ call'[d].minted # NoToken
             /\ call'[d].minted.refresh = live
             /\ call'[d].minted.access <= now + Ttl
             /\ stored # NoToken => stored.refresh # live /\ stored.access <= call'[d].minted.access
             /\ \A e \in Calls : call'[e].held # live
    BY DEF OnlyStorerKnows
  <2>1. Storing(d) /\ call'[d] = call[d]
    BY <1>4
  <2>2. live # NoToken
    BY <1>1, <2>1, SessionAssumption DEF OnlyStorerKnows, SessionTypeOK, CallState, Session
  <2>3. \A e \in Calls : call'[e].held # live
    BY <1>1, <1>2, <2>1, <2>2 DEF OnlyStorerKnows, Others
  <2>4. QED
    BY <1>1, <2>1, <2>3 DEF OnlyStorerKnows
<1>7. StoredInTime'
  BY <1>1 DEF StoredInTime
<1>8. Kept'
  BY <1>1, <1>2 DEF Kept, Others, Storing
<1>9. QED
  BY <1>3, <1>5, <1>6, <1>7, <1>8 DEF SessionInv

LEMMA EndsPlain ==
  ASSUME SessionTypeOK, NEW c \in Calls, NEW stage \in SessionStages, stage # "storing"
  PROVE  \E r \in CallState : /\ r = [IdleCall EXCEPT !.stage = stage]
                             /\ r.stage # "storing" /\ r.held = NoToken
<1>1. /\ [IdleCall EXCEPT !.stage = stage] \in CallState
      /\ [IdleCall EXCEPT !.stage = stage].stage = stage
      /\ [IdleCall EXCEPT !.stage = stage].held = NoToken
  BY IdleCallTyped DEF IdleCall, CallState
<1>2. QED
  BY <1>1

LEMMA NoFreshTokenPlain ==
  ASSUME SessionTypeOK, NEW c \in Calls, NoFreshToken(c)
  PROVE  \E r \in CallState : /\ call' = [call EXCEPT ![c] = r]
                             /\ r.stage # "storing" /\ r.held = NoToken
<1>1. CASE call[c].retried
  BY <1>1, EndsPlain DEF NoFreshToken, Ends, SessionStages
<1>2. CASE ~call[c].retried
  <2> DEFINE r == [call[c] EXCEPT !.held = NoToken, !.minted = NoToken, !.stage = "sending"]
  <2>1. call[c] \in CallState /\ call \in [Calls -> CallState]
    BY DEF SessionTypeOK
  <2>2. r \in CallState /\ r.stage = "sending" /\ r.held = NoToken
    BY <2>1 DEF CallState, SessionStages
  <2>3. call' = [call EXCEPT ![c] = r]
    BY <1>2, <2>1 DEF NoFreshToken, CallState
  <2> HIDE DEF r
  <2>4. QED
    BY <2>2, <2>3
<1>3. QED
  BY <1>1, <1>2

LEMMA UnauthorizedPlain ==
  ASSUME SessionTypeOK, NEW c \in Calls, Unauthorized(c)
  PROVE  \E r \in CallState : /\ call' = [call EXCEPT ![c] = r]
                             /\ r.stage # "storing" /\ r.held \in {NoToken, call[c].held}
<1>1. CASE call[c].retried \/ c \in OneShot
  BY <1>1, EndsPlain DEF Unauthorized, Ends, SessionStages
<1>2. CASE ~(call[c].retried \/ c \in OneShot)
  <2> DEFINE r == [call[c] EXCEPT !.retried = TRUE, !.stage = "reading"]
  <2>1. call[c] \in CallState /\ call \in [Calls -> CallState]
    BY DEF SessionTypeOK
  <2>2. r \in CallState /\ r.stage = "reading" /\ r.held = call[c].held
    BY <2>1 DEF CallState, SessionStages
  <2>3. call' = [call EXCEPT ![c] = r]
    BY <1>2, <2>1 DEF Unauthorized, CallState
  <2> HIDE DEF r
  <2>4. QED
    BY <2>2, <2>3
<1>3. QED
  BY <1>1, <1>2

LEMMA ReadsKeep ==
  ASSUME SessionInv, NEW c \in Calls, ReadAccess(c) \/ ReadRefresh(c)
  PROVE  SessionInv'
<1>1. /\ SessionTypeOK /\ call[c] \in CallState /\ call \in [Calls -> CallState]
      /\ UNCHANGED <<now, stored, live>> /\ lost' = lost /\ ~Storing(c)
  BY DEF SessionInv, SessionTypeOK, ReadAccess, ReadRefresh, Storing
<1>2. CASE ReadAccess(c)
  <2> DEFINE r == [call[c] EXCEPT !.token = StoredAccess,
                     !.stage = IF stored = NoToken \/ Usable(stored.access)
                               THEN "sending" ELSE "reading"]
  <2>1. StoredAccess \in Expiry \cup {NoToken}
    BY <1>1, SessionAssumption DEF StoredAccess, SessionTypeOK, Session
  <2>2. r \in CallState /\ r.stage # "storing" /\ r.held = call[c].held
    BY <1>1, <2>1 DEF CallState, SessionStages
  <2>3. call' = [call EXCEPT ![c] = r]
    BY <1>1, <1>2 DEF ReadAccess, CallState
  <2> HIDE DEF r
  <2>4. QED
    BY <1>1, <2>2, <2>3, PlainStep
<1>3. CASE ReadRefresh(c) /\ StoredRefresh = NoToken
  BY <1>1, <1>3, NoFreshTokenPlain, PlainStep DEF ReadRefresh
<1>4. CASE ReadRefresh(c) /\ StoredRefresh # NoToken
  <2> DEFINE r == [call[c] EXCEPT !.held = StoredRefresh, !.stage = "refreshing"]
  <2>1. stored # NoToken /\ StoredRefresh = stored.refresh /\ StoredRefresh \in RefreshTokens
    BY <1>1, <1>4 DEF StoredRefresh, SessionTypeOK, Session
  <2>2. r \in CallState /\ r.stage # "storing" /\ r.held = stored.refresh
    BY <1>1, <2>1 DEF CallState, SessionStages
  <2>3. call' = [call EXCEPT ![c] = r]
    BY <1>1, <1>4 DEF ReadRefresh, CallState
  <2> HIDE DEF r
  <2>4. QED
    BY <1>1, <2>1, <2>2, <2>3, PlainStep
<1>5. QED
  BY <1>2, <1>3, <1>4

(* Nobody is about to store while a call still holds the live token. *)
LEMMA HolderIsAlone ==
  ASSUME SessionInv, NEW c \in Calls, call[c].held = live
  PROVE  \A d \in Calls : ~Storing(d)
BY DEF SessionInv, OnlyStorerKnows

(* A new token: nobody holds it, and it is not stored. *)
LEMMA FreshToken ==
  ASSUME SessionTypeOK, \E r \in RefreshTokens : ~InUse(r),
         NEW fresh, fresh = CHOOSE r \in RefreshTokens : ~InUse(r)
  PROVE  /\ fresh \in RefreshTokens /\ fresh # NoToken
         /\ stored # NoToken => stored.refresh # fresh
         /\ \A d \in Calls : call[d].held # fresh
<1>1. fresh \in RefreshTokens /\ ~InUse(fresh)
  OBVIOUS
<1>2. QED
  BY <1>1, SessionAssumption DEF InUse

LEMMA RefreshKeeps ==
  ASSUME SessionInv, NEW c \in Calls, Refresh(c)
  PROVE  SessionInv'
<1>1. /\ SessionTypeOK /\ StoredInTime /\ call[c] \in CallState /\ call \in [Calls -> CallState]
      /\ UNCHANGED <<now, stored>> /\ lost' = lost /\ ~Storing(c)
  BY DEF SessionInv, SessionTypeOK, Refresh, Storing
<1>2. CASE call[c].held # live
  BY <1>1, <1>2, NoFreshTokenPlain, PlainStep DEF Refresh
<1>3. CASE call[c].held = live
  <2> DEFINE pair == [access |-> now + Ttl, refresh |-> live']
             r == [call[c] EXCEPT !.minted = pair, !.held = NoToken, !.stage = "storing"]
  <2>1. /\ live' \in RefreshTokens /\ live' # NoToken
        /\ stored # NoToken => stored.refresh # live'
        /\ \A d \in Calls : call[d].held # live'
    BY <1>1, <1>3, FreshToken DEF Refresh
  <2>2. pair \in Session /\ pair # NoToken /\ pair.refresh = live' /\ pair.access = now + Ttl
    <3>1. pair \in Session
      BY <1>1, <2>1, SessionAssumption DEF Session, Expiry, SessionTypeOK
    <3>2. QED
      BY <3>1, SessionAssumption
  <2>3. call' = [call EXCEPT ![c] = r]
    BY <1>1, <1>3 DEF Refresh, CallState
  <2> HIDE DEF pair
  <2>4. /\ r \in CallState /\ r.stage = "storing" /\ r.held = NoToken /\ r.minted = pair
    BY <1>1, <2>2 DEF CallState, SessionStages
  <2> HIDE DEF r
  <2>5. call' \in [Calls -> CallState] /\ call'[c] = r /\ Others(c)
    BY <1>1, <2>3, <2>4 DEF Others
  <2>6. SessionTypeOK'
    BY <1>1, <2>1, <2>5 DEF SessionTypeOK
  <2>7. \A d \in Calls : Storing(d)' <=> d = c
    BY <1>3, <2>4, <2>5, HolderIsAlone DEF Storing, Others
  <2>8. StoredInTime' /\ OneStorer' /\ Kept'
    BY <1>1, <2>7 DEF StoredInTime, OneStorer, Kept
  <2>9. \A d \in Calls : call'[d].held # live'
    BY <2>1, <2>4, <2>5 DEF Others
  <2>10. OnlyStorerKnows'
    <3>1. now + Ttl <= now' + Ttl
      BY <1>1, SessionAssumption DEF SessionTypeOK
    <3>2. QED
      BY <3>1, <1>1, <2>1, <2>2, <2>4, <2>5, <2>7, <2>9 DEF OnlyStorerKnows, StoredInTime
  <2>11. QED
    BY <2>6, <2>8, <2>10 DEF SessionInv
<1>4. QED
  BY <1>2, <1>3

(* The live token changes while nobody is about to store: the session is    *)
(* lost, and nothing else changes.                                           *)
LEMMA AnswerLostKeeps ==
  ASSUME SessionInv, NEW c \in Calls, AnswerLost(c)
  PROVE  SessionInv'
<1>1. /\ SessionTypeOK /\ StoredInTime /\ call \in [Calls -> CallState]
      /\ UNCHANGED <<now, stored>> /\ lost' = TRUE /\ \A d \in Calls : ~Storing(d)
  BY HolderIsAlone DEF SessionInv, SessionTypeOK, AnswerLost
<1>2. PICK r \in CallState : call' = [call EXCEPT ![c] = r] /\ r.stage # "storing"
  BY <1>1, NoFreshTokenPlain DEF AnswerLost
<1>3. \A d \in Calls : ~Storing(d)'
  BY <1>1, <1>2 DEF Storing
<1>4. live' \in RefreshTokens
  BY <1>1, FreshToken DEF AnswerLost
<1>5. SessionTypeOK'
  BY <1>1, <1>2, <1>4 DEF SessionTypeOK
<1>6. QED
  BY <1>1, <1>3, <1>5
     DEF SessionInv, OnlyStorerKnows, OneStorer, StoredInTime, Kept

LEMMA StoreKeeps ==
  ASSUME SessionInv, NEW c \in Calls, StoreSession(c)
  PROVE  SessionInv'
<1> DEFINE new == call[c].minted
           r == [call[c] EXCEPT !.token = new.access, !.minted = NoToken, !.stage = "sending"]
<1>1. /\ SessionTypeOK /\ OnlyStorerKnows /\ OneStorer /\ call[c] \in CallState
      /\ call \in [Calls -> CallState] /\ UNCHANGED <<now, live, lost>> /\ Storing(c)
  BY DEF SessionInv, SessionTypeOK, StoreSession, Storing
<1>2. new \in Session /\ new.refresh = live /\ stored' = new /\ new.access <= now + Ttl
  BY <1>1 DEF OnlyStorerKnows, CallState, StoreSession, StoreColumns
<1>3. call' = [call EXCEPT ![c] = r]
  BY <1>1 DEF StoreSession, CallState
<1>4. r \in CallState /\ r.stage = "sending"
  BY <1>1, <1>2 DEF CallState, SessionStages, Session
<1> HIDE DEF r
<1>5. \A d \in Calls : ~Storing(d)'
  BY <1>1, <1>3, <1>4 DEF OneStorer, Storing
<1>6. SessionTypeOK'
  BY <1>1, <1>2, <1>3, <1>4 DEF SessionTypeOK
<1>7. Kept'
  BY <1>1, <1>2 DEF Kept
<1>8. StoredInTime'
  BY <1>1, <1>2 DEF StoredInTime
<1>9. QED
  BY <1>5, <1>6, <1>7, <1>8 DEF SessionInv, OnlyStorerKnows, OneStorer

(* A call ends, aborts or fails: it stores nothing. *)
LEMMA EndingsKeep ==
  ASSUME SessionInv, NEW c \in Calls,
         Send(c) \/ SendFails(c) \/ CallAgain(c) \/ CallAborts(c) \/ StoreFails(c) \/ RefreshFails(c)
  PROVE  SessionInv'
<1>1. SessionTypeOK /\ IdleCall \in CallState /\ IdleCall.stage = "idle" /\ IdleCall.held = NoToken
  BY IdleCallTyped DEF SessionInv, IdleCall
<1>2. ASSUME Ends(c, "done") \/ Ends(c, "failed") \/ Unauthorized(c)
      PROVE  \E r \in CallState : /\ call' = [call EXCEPT ![c] = r]
                                 /\ r.stage # "storing" /\ r.held \in {NoToken, call[c].held}
  BY <1>1, <1>2, EndsPlain, UnauthorizedPlain DEF Ends, SessionStages
<1>3. CASE Send(c) \/ SendFails(c)
  <2>1. /\ Ends(c, "done") \/ Ends(c, "failed") \/ Unauthorized(c)
        /\ UNCHANGED <<now, stored, live>> /\ lost' = lost /\ ~Storing(c)
    BY <1>3 DEF Send, SendFails, Storing
  <2>2. QED
    BY <1>2, <2>1, PlainStep
<1>4. CASE CallAgain(c) \/ CallAborts(c)
  <2>1. /\ call' = [call EXCEPT ![c] = IdleCall] /\ UNCHANGED <<now, stored, live>>
        /\ (lost' = lost /\ ~Storing(c)) \/ lost' = TRUE
    <3>1. CASE CallAgain(c)
      BY <3>1 DEF CallAgain, Storing
    <3>2. CASE CallAborts(c) /\ Storing(c)
      BY <3>2 DEF CallAborts, Storing
    <3>3. CASE CallAborts(c) /\ ~Storing(c)
      <4>1. lost \in BOOLEAN
        BY <1>1 DEF SessionTypeOK
      <4>2. lost' = lost
        BY <4>1, <3>3 DEF CallAborts, Storing
      <4>3. QED
        BY <4>2, <3>3 DEF CallAborts
    <3>4. QED
      BY <1>4, <3>1, <3>2, <3>3
  <2>2. QED
    BY <1>1, <2>1, PlainStep
<1>5. CASE StoreFails(c) \/ RefreshFails(c)
  <2>1. /\ NoFreshToken(c) /\ UNCHANGED <<now, stored, live>>
        /\ (lost' = lost /\ ~Storing(c)) \/ lost' = TRUE
    BY <1>5 DEF StoreFails, RefreshFails, Storing
  <2>2. QED
    BY <1>1, <2>1, NoFreshTokenPlain, PlainStep
<1>6. QED
  BY <1>3, <1>4, <1>5

LEMMA TickKeeps ==
  ASSUME SessionInv, Tick
  PROVE  SessionInv'
<1>1. /\ SessionTypeOK /\ OnlyStorerKnows /\ OneStorer /\ StoredInTime /\ Kept
      /\ UNCHANGED <<stored, live, lost, call>>
  BY DEF SessionInv, Tick
<1>2. now \in Nat /\ now' = now + 1 /\ now' \in 0..MaxNow
  BY <1>1, SessionAssumption DEF Tick, SessionTypeOK
<1>3. SessionTypeOK' /\ OneStorer' /\ Kept'
  BY <1>1, <1>2 DEF SessionTypeOK, OneStorer, Kept, Storing
<1>4. StoredInTime'
  BY <1>1, <1>2, SessionAssumption DEF StoredInTime, SessionTypeOK, Session, Expiry
<1>5. OnlyStorerKnows'
  <2> SUFFICES ASSUME NEW c \in Calls, Storing(c)
      PROVE  call[c].minted.access <= now' + Ttl
    BY <1>1 DEF OnlyStorerKnows, Storing
  <2>1. call[c].minted \in Session /\ call[c].minted.access <= now + Ttl
    BY <1>1 DEF OnlyStorerKnows, SessionTypeOK, CallState
  <2>2. call[c].minted.access \in Nat
    BY <2>1, SessionAssumption DEF Session, Expiry
  <2>3. QED
    BY <1>2, <2>1, <2>2, SessionAssumption
<1>6. QED
  BY <1>3, <1>4, <1>5 DEF SessionInv

LEMMA SessionStep == SessionInv /\ [SessionNext]_sessionVars => SessionInv'
<1> SUFFICES ASSUME SessionInv, [SessionNext]_sessionVars PROVE SessionInv'
  OBVIOUS
<1>1. ASSUME NEW c \in Calls, CallStep(c) \/ SessionFault(c) PROVE SessionInv'
  BY <1>1, ReadsKeep, RefreshKeeps, AnswerLostKeeps, StoreKeeps, EndingsKeep
     DEF CallStep, SessionFault
<1>2. CASE Tick
  BY <1>2, TickKeeps
<1>3. CASE UNCHANGED sessionVars
  BY <1>3 DEF sessionVars, SessionInv, SessionTypeOK, OnlyStorerKnows, OneStorer,
              StoredInTime, Kept, Storing
<1>4. QED
  BY <1>1, <1>2, <1>3 DEF SessionNext

(* Calls that refresh the session of an account at once do not lose it:     *)
(* refresh_session_for needs no lock.                                        *)
THEOREM SessionAlwaysKept == SessionSpec => []SessionKept
<1>1. SessionInv => SessionKept
  BY DEF SessionInv, Kept, OnlyStorerKnows, SessionKept, Storing
<1>2. QED
  BY <1>1, SessionInitially, SessionStep, PTL DEF SessionSpec

(* store_account_pds_session_by_did is an unconditional update, and still   *)
(* no slow call ever puts an older session back over a newer one.            *)
THEOREM SessionNeverRolledBack == SessionSpec => NeverRolledBack
<1>1. SessionInv /\ [SessionNext]_sessionVars
        => (stored # NoToken => stored' # NoToken /\ stored'.access >= stored.access)
  <2> SUFFICES ASSUME SessionInv, [SessionNext]_sessionVars, stored # NoToken
      PROVE  stored' # NoToken /\ stored'.access >= stored.access
    OBVIOUS
  <2>1. stored.access \in Nat
    BY SessionAssumption DEF SessionInv, SessionTypeOK, Session, Expiry
  <2>2. ASSUME NEW c \in Calls, StoreSession(c) PROVE stored' # NoToken /\ stored'.access >= stored.access
    <3>1. Storing(c) /\ stored' = call[c].minted /\ call[c].minted # NoToken
          /\ stored.access <= call[c].minted.access
      BY <2>2 DEF SessionInv, OnlyStorerKnows, Storing, StoreSession, StoreColumns
    <3>2. call[c].minted.access \in Nat
      BY <3>1, SessionAssumption DEF SessionInv, SessionTypeOK, CallState, Session, Expiry
    <3>3. QED
      BY <2>1, <3>1, <3>2
  <2>3. CASE stored' = stored
    BY <2>1, <2>3
  <2>4. (\E c \in Calls : StoreSession(c)) \/ stored' = stored
    BY DEF SessionNext, CallStep, SessionFault, sessionVars, ReadAccess, ReadRefresh, Refresh,
           Send, CallAgain, RefreshFails, AnswerLost, StoreFails, SendFails, CallAborts, Tick
  <2>5. QED
    BY <2>2, <2>3, <2>4
<1>2. QED
  BY <1>1, SessionInitially, SessionStep, PTL DEF SessionSpec, NeverRolledBack

--------------------------------------------------------------------------------
(***************************************************************************)
(* A record never names a blob its repository does not hold, for any        *)
(* number of runs, owners, sources and jobs. Blobs are only added, and a    *)
(* job keeps its source and owner; a run that polls a job of its own can    *)
(* therefore trust the result, and one that polls a cached job does not.     *)
(***************************************************************************)

(* A finished job has put its blob into its owner's repository. *)
DoneStored ==
  \A j \in JobIds : transcode[j] # NoJob /\ transcode[j].state = "done"
    => Transcoded(transcode[j].content) \in blobs[transcode[j].owner]

(* The job a run polls is one for its source and, unless cached, its owner. *)
PollsOwn(u) ==
  run[u].stage = "polling" =>
    /\ run[u].polls \in JobIds
    /\ transcode[run[u].polls] # NoJob
    /\ transcode[run[u].polls].content = SourceOf[u]
    /\ ~run[u].cached => transcode[run[u].polls].owner = OwnerOf[u]

Owned(u) ==
  run[u].stage \in {"captions", "ready"} =>
    /\ run[u].video \in blobs[OwnerOf[u]]
    /\ run[u].video \in {Source(SourceOf[u]), Transcoded(SourceOf[u])}
    /\ \A t \in run[u].captions : Caption(t) \in blobs[OwnerOf[u]]

MediaInv ==
  /\ MediaTypeOK
  /\ DoneStored
  /\ \A u \in Runs : PollsOwn(u) /\ Owned(u)

(* What every step does to the service and the repositories. *)
Grows ==
  /\ \A o \in Owners : blobs[o] \subseteq blobs'[o]
  /\ \A j \in JobIds : transcode[j] # NoJob =>
       /\ transcode'[j] # NoJob
       /\ transcode'[j].content = transcode[j].content
       /\ transcode'[j].owner = transcode[j].owner

LEMMA OwnersOfRuns == \A u \in Runs : OwnerOf[u] \in Owners /\ SourceOf[u] \in Contents
BY MediaAssumption DEF Owners

LEMMA BlobKinds ==
  /\ \A c \in Contents : Source(c) \in MediaBlobs /\ Transcoded(c) \in MediaBlobs
  /\ \A t \in 1..Tracks : Caption(t) \in MediaBlobs
BY DEF MediaBlobs

LEMMA IdleRunTyped == IdleRun \in RunState
BY MediaAssumption DEF IdleRun, RunState, RunStages

LEMMA MediaInitially == MediaInit => MediaInv
<1> SUFFICES ASSUME MediaInit PROVE MediaInv
  OBVIOUS
<1>1. MediaTypeOK
  BY IdleRunTyped DEF MediaInit, MediaTypeOK
<1>2. DoneStored
  BY DEF MediaInit, DoneStored
<1>3. ASSUME NEW u \in Runs PROVE PollsOwn(u) /\ Owned(u)
  <2>1. run[u].stage = "idle"
    BY DEF MediaInit, IdleRun
  <2>2. QED
    BY <2>1 DEF PollsOwn, Owned
<1>4. QED
  BY <1>1, <1>2, <1>3 DEF MediaInv

(* A run that does not move keeps what it has. *)
LEMMA StillRunKeeps ==
  ASSUME MediaInv, Grows, NEW u \in Runs, run'[u] = run[u]
  PROVE  PollsOwn(u)' /\ Owned(u)'
<1>1. PollsOwn(u) /\ Owned(u) /\ OwnerOf[u] \in Owners
  BY OwnersOfRuns DEF MediaInv
<1>2. PollsOwn(u)'
  BY <1>1 DEF PollsOwn, Grows
<1>3. Owned(u)'
  BY <1>1 DEF Owned, Grows
<1>4. QED
  BY <1>2, <1>3

(* One run moves, to a state with what it needs. *)
LEMMA RunMoves ==
  ASSUME MediaInv, Grows, NEW u \in Runs, MediaTypeOK', DoneStored',
         \A v \in Runs \ {u} : run'[v] = run[v], PollsOwn(u)', Owned(u)'
  PROVE  MediaInv'
<1>1. ASSUME NEW v \in Runs PROVE PollsOwn(v)' /\ Owned(v)'
  <2>1. CASE v = u
    BY <2>1
  <2>2. CASE v # u
    BY <2>2, StillRunKeeps
  <2>3. QED
    BY <2>1, <2>2
<1>2. QED
  BY <1>1 DEF MediaInv

(* The run moves alone: service and repositories stay. *)
LEMMA QuietMove ==
  ASSUME MediaInv, NEW u \in Runs, NEW r \in RunState,
         run' = [run EXCEPT ![u] = r], UNCHANGED <<transcode, blobs>>,
         r.stage # "polling" \/ (PollsOwn(u) /\ run[u].stage = "polling"
                                 /\ r.polls = run[u].polls /\ r.cached = run[u].cached),
         r.stage \notin {"captions", "ready"}
           \/ (run[u].stage = "captions" /\ r.video = run[u].video /\ r.captions = run[u].captions)
  PROVE  MediaInv'
<1>1. MediaTypeOK /\ DoneStored /\ PollsOwn(u) /\ Owned(u)
  BY DEF MediaInv
<1>2. MediaTypeOK' /\ run'[u] = r
  BY <1>1 DEF MediaTypeOK
<1>3. DoneStored' /\ Grows
  BY <1>1 DEF DoneStored, Grows
<1>4. PollsOwn(u)'
  BY <1>1, <1>2 DEF PollsOwn
<1>5. Owned(u)'
  BY <1>1, <1>2 DEF Owned
<1>6. \A v \in Runs \ {u} : run'[v] = run[v]
  BY <1>1 DEF MediaTypeOK
<1>7. QED
  BY <1>2, <1>3, <1>4, <1>5, <1>6, RunMoves

LEMMA FailingKeeps ==
  ASSUME MediaInv, NEW u \in Runs, RunFails(u) \/ run' = [run EXCEPT ![u] = IdleRun],
         UNCHANGED <<transcode, blobs>>
  PROVE  MediaInv'
<1> DEFINE failed == [IdleRun EXCEPT !.stage = "failed"]
<1>1. failed \in RunState /\ failed.stage = "failed" /\ IdleRun.stage = "idle"
  BY IdleRunTyped DEF RunState, RunStages, IdleRun
<1>2. run' = [run EXCEPT ![u] = failed] \/ run' = [run EXCEPT ![u] = IdleRun]
  BY DEF RunFails
<1> HIDE DEF failed
<1>3. QED
  BY <1>1, <1>2, IdleRunTyped, QuietMove

LEMMA TurnKeeps ==
  ASSUME MediaInv, NEW u \in Runs, NEW stage \in RunStages, Turn(u, stage),
         UNCHANGED <<transcode, blobs>>, stage # "polling",
         stage \in {"captions", "ready"} => run[u].stage = "captions"
  PROVE  MediaInv'
<1> DEFINE r == [run[u] EXCEPT !.stage = stage]
<1>1. run[u] \in RunState /\ run \in [Runs -> RunState]
  BY DEF MediaInv, MediaTypeOK
<1>2. /\ r \in RunState /\ r.stage = stage
      /\ r.video = run[u].video /\ r.captions = run[u].captions
  BY <1>1 DEF RunState
<1>3. run' = [run EXCEPT ![u] = r]
  BY <1>1 DEF Turn, RunState
<1> HIDE DEF r
<1>4. QED
  BY <1>2, <1>3, QuietMove

LEMMA PollAgainKeeps ==
  ASSUME MediaInv, NEW u \in Runs, PollAgain(u)
  PROVE  MediaInv'
<1> DEFINE r == [run[u] EXCEPT !.left = @ - 1]
<1>1. run[u] \in RunState /\ run \in [Runs -> RunState] /\ PollsOwn(u)
  BY DEF MediaInv, MediaTypeOK
<1>2. /\ r \in RunState /\ r.stage = "polling"
      /\ r.polls = run[u].polls /\ r.cached = run[u].cached /\ run[u].stage = "polling"
  BY <1>1, MediaAssumption DEF RunState, PollAgain
<1>3. run' = [run EXCEPT ![u] = r] /\ UNCHANGED <<transcode, blobs>>
  BY <1>1 DEF PollAgain
<1> HIDE DEF r
<1>4. QED
  BY <1>1, <1>2, <1>3, QuietMove

LEMMA SkipCaptionKeeps ==
  ASSUME MediaInv, NEW u \in Runs, SkipCaption(u)
  PROVE  MediaInv'
<1> DEFINE r == [run[u] EXCEPT !.track = @ + 1]
<1>1. run[u] \in RunState /\ run \in [Runs -> RunState]
  BY DEF MediaInv, MediaTypeOK
<1>2. /\ r \in RunState /\ r.stage = "captions" /\ run[u].stage = "captions"
      /\ r.video = run[u].video /\ r.captions = run[u].captions
  BY <1>1, MediaAssumption DEF RunState, SkipCaption, TrackLeft
<1>3. run' = [run EXCEPT ![u] = r] /\ UNCHANGED <<transcode, blobs>>
  BY <1>1 DEF SkipCaption
<1> HIDE DEF r
<1>4. QED
  BY <1>2, <1>3, QuietMove

(* The run has its video: the blob is in the owner's repository and made    *)
(* from the source.                                                          *)
LEMMA VideoKeeps ==
  ASSUME MediaInv, Grows, DoneStored', NEW u \in Runs,
         transcode' \in [JobIds -> Transcodes \cup {NoJob}],
         blobs' \in [Owners -> SUBSET MediaBlobs],
         NEW b \in {Source(SourceOf[u]), Transcoded(SourceOf[u])},
         b \in blobs'[OwnerOf[u]], HasVideo(u, b)
  PROVE  MediaInv'
<1> DEFINE r == [IdleRun EXCEPT !.stage = "captions", !.video = b]
<1>1. run \in [Runs -> RunState] /\ b \in MediaBlobs
  BY OwnersOfRuns, BlobKinds DEF MediaInv, MediaTypeOK
<1>2. r \in RunState /\ r.stage = "captions" /\ r.video = b /\ r.captions = {}
  BY <1>1, IdleRunTyped DEF IdleRun, RunState, RunStages
<1>3. run' = [run EXCEPT ![u] = r]
  BY DEF HasVideo
<1> HIDE DEF r
<1>4. run' \in [Runs -> RunState] /\ run'[u] = r /\ \A v \in Runs \ {u} : run'[v] = run[v]
  BY <1>1, <1>2, <1>3
<1>5. PollsOwn(u)' /\ Owned(u)'
  BY <1>2, <1>4 DEF PollsOwn, Owned
<1>6. MediaTypeOK'
  BY <1>4 DEF MediaTypeOK
<1>7. QED
  BY <1>4, <1>5, <1>6, RunMoves

(* A blob is added to a repository: nothing is lost. *)
LEMMA AddingGrows ==
  ASSUME MediaInv, NEW o \in Owners, NEW b \in MediaBlobs, Stored(o, b), UNCHANGED transcode
  PROVE  /\ Grows /\ DoneStored' /\ b \in blobs'[o]
         /\ blobs' \in [Owners -> SUBSET MediaBlobs]
<1>1. MediaTypeOK /\ DoneStored
  BY DEF MediaInv
<1>2. /\ blobs' \in [Owners -> SUBSET MediaBlobs] /\ b \in blobs'[o]
      /\ \A p \in Owners : blobs[p] \subseteq blobs'[p]
  BY <1>1 DEF MediaTypeOK, Stored
<1>3. \A j \in JobIds : transcode[j] # NoJob => transcode[j].owner \in Owners
  BY <1>1 DEF MediaTypeOK, Transcodes
<1>4. QED
  BY <1>1, <1>2, <1>3 DEF Grows, DoneStored

LEMMA DirectUploadKeeps ==
  ASSUME MediaInv, NEW u \in Runs, DirectUpload(u)
  PROVE  MediaInv'
<1> DEFINE b == Source(SourceOf[u])
<1>1. /\ OwnerOf[u] \in Owners /\ b \in MediaBlobs
      /\ Stored(OwnerOf[u], b) /\ HasVideo(u, b) /\ transcode' = transcode
  BY OwnersOfRuns, BlobKinds DEF DirectUpload
<1>2. b \in {Source(SourceOf[u]), Transcoded(SourceOf[u])}
  OBVIOUS
<1>3. transcode' \in [JobIds -> Transcodes \cup {NoJob}]
  BY <1>1 DEF MediaInv, MediaTypeOK
<1> HIDE DEF b
<1>4. QED
  BY <1>1, <1>2, <1>3, AddingGrows, VideoKeeps

LEMMA AddCaptionKeeps ==
  ASSUME MediaInv, NEW u \in Runs, AddCaption(u)
  PROVE  MediaInv'
<1> DEFINE t == run[u].track
           r == [run[u] EXCEPT !.captions = @ \cup {t}, !.track = @ + 1]
<1>1. /\ run[u] \in RunState /\ run \in [Runs -> RunState] /\ Owned(u) /\ PollsOwn(u)
      /\ OwnerOf[u] \in Owners
  BY OwnersOfRuns DEF MediaInv, MediaTypeOK
<1>2. t \in 1..Tracks /\ run[u].stage = "captions"
  BY <1>1, MediaAssumption DEF RunState, AddCaption, TrackLeft
<1>3. /\ r \in RunState /\ r.stage = "captions"
      /\ r.video = run[u].video /\ r.captions = run[u].captions \cup {t}
  <2>1. run[u].captions \cup {t} \in SUBSET (1..Tracks) /\ t + 1 \in 1..(Tracks + 1)
    BY <1>1, <1>2, MediaAssumption DEF RunState
  <2>2. QED
    BY <1>1, <1>2, <2>1 DEF RunState
<1>4. run' = [run EXCEPT ![u] = r] /\ Stored(OwnerOf[u], Caption(t)) /\ transcode' = transcode
  BY <1>1 DEF AddCaption
<1>5. /\ Grows /\ DoneStored' /\ Caption(t) \in blobs'[OwnerOf[u]]
      /\ blobs' \in [Owners -> SUBSET MediaBlobs]
  BY <1>1, <1>2, <1>4, BlobKinds, AddingGrows
<1> HIDE DEF r, t
<1>6. run' \in [Runs -> RunState] /\ run'[u] = r /\ \A v \in Runs \ {u} : run'[v] = run[v]
  BY <1>1, <1>3, <1>4
<1>7. MediaTypeOK'
  BY <1>4, <1>5, <1>6 DEF MediaTypeOK, MediaInv
<1>8. PollsOwn(u)'
  BY <1>3, <1>6 DEF PollsOwn
<1>9. Owned(u)'
  BY <1>1, <1>2, <1>3, <1>5, <1>6 DEF Owned, Grows
<1>10. QED
  BY <1>5, <1>6, <1>7, <1>8, <1>9, RunMoves

(* The result of a job of one's own is trusted, that of a cached job is not. *)
LEMMA PollEndsKeeps ==
  ASSUME MediaInv, NEW u \in Runs, PollEnds(u)
  PROVE  MediaInv'
<1> DEFINE j == run[u].polls
           b == Transcoded(SourceOf[u])
<1>1. /\ MediaTypeOK /\ DoneStored /\ PollsOwn(u) /\ run[u].stage = "polling"
      /\ UNCHANGED <<transcode, blobs>>
  BY DEF PollEnds, MediaInv
<1>2. j \in JobIds /\ transcode[j] # NoJob /\ transcode[j].content = SourceOf[u]
  BY <1>1 DEF PollsOwn
<1>3. CASE Turn(u, "direct")
  BY <1>1, <1>3, TurnKeeps DEF RunStages
<1>4. CASE RunFails(u)
  BY <1>1, <1>4, FailingKeeps
<1>5. CASE transcode[j].state = "done" /\ ~run[u].cached /\ HasVideo(u, Transcoded(transcode[j].content))
  <2>1. b \in blobs[OwnerOf[u]] /\ HasVideo(u, b)
    BY <1>1, <1>2, <1>5 DEF PollsOwn, DoneStored
  <2>2. Grows /\ DoneStored'
    BY <1>1 DEF Grows, DoneStored
  <2>3. /\ transcode' \in [JobIds -> Transcodes \cup {NoJob}]
        /\ blobs' \in [Owners -> SUBSET MediaBlobs]
        /\ b \in {Source(SourceOf[u]), Transcoded(SourceOf[u])}
    BY <1>1 DEF MediaTypeOK
  <2> HIDE DEF b
  <2>4. QED
    BY <1>1, <2>1, <2>2, <2>3, VideoKeeps
<1>6. QED
  BY <1>3, <1>4, <1>5 DEF PollEnds

LEMMA CachedUploadKeeps ==
  ASSUME MediaInv, NEW u \in Runs, CachedUpload(u)
  PROVE  MediaInv'
<1>1. MediaTypeOK /\ DoneStored /\ UNCHANGED <<transcode, blobs>>
  BY DEF CachedUpload, MediaInv
<1>2. CASE Turn(u, "direct")
  BY <1>1, <1>2, TurnKeeps DEF RunStages
<1>3. ASSUME NEW j \in Existing(SourceOf[u]),
             run' = [run EXCEPT ![u].stage = "polling", ![u].polls = j, ![u].cached = TRUE]
      PROVE  MediaInv'
  <2>1. run \in [Runs -> RunState] /\ run[u] \in RunState
    BY <1>1 DEF MediaTypeOK
  <2>2. j \in JobIds /\ transcode[j] # NoJob /\ transcode[j].content = SourceOf[u]
    BY <1>3 DEF Existing
  <2>3. /\ run' \in [Runs -> RunState] /\ \A v \in Runs \ {u} : run'[v] = run[v]
        /\ run'[u].stage = "polling" /\ run'[u].polls = j /\ run'[u].cached = TRUE
    BY <1>3, <2>1, <2>2 DEF RunState, RunStages
  <2>4. MediaTypeOK' /\ DoneStored' /\ Grows
    BY <1>1, <2>3 DEF MediaTypeOK, DoneStored, Grows
  <2>5. PollsOwn(u)' /\ Owned(u)'
    BY <1>1, <2>2, <2>3 DEF PollsOwn, Owned
  <2>6. QED
    BY <2>3, <2>4, <2>5, RunMoves
<1>4. QED
  BY <1>2, <1>3 DEF CachedUpload

LEMMA FreshUploadKeeps ==
  ASSUME MediaInv, NEW u \in Runs, NEW j \in JobIds, FreshUpload(u, j)
  PROVE  MediaInv'
<1> DEFINE job(s) == [content |-> SourceOf[u], owner |-> OwnerOf[u], state |-> s]
           b == Transcoded(SourceOf[u])
<1>1. MediaTypeOK /\ DoneStored /\ transcode[j] = NoJob
  BY DEF FreshUpload, MediaInv
<1>2. OwnerOf[u] \in Owners /\ SourceOf[u] \in Contents /\ b \in MediaBlobs
  BY OwnersOfRuns, BlobKinds
<1>3. \A s \in {"running", "done"} : job(s) \in Transcodes /\ job(s) # NoJob
  BY <1>2, MediaAssumption DEF Transcodes
<1>4. CASE /\ transcode' = [transcode EXCEPT ![j] = job("running")]
           /\ run' = [run EXCEPT ![u].stage = "polling", ![u].polls = j]
           /\ UNCHANGED blobs
  <2>1. run \in [Runs -> RunState] /\ run[u] \in RunState
    BY <1>1 DEF MediaTypeOK
  <2>2. /\ run' \in [Runs -> RunState] /\ \A v \in Runs \ {u} : run'[v] = run[v]
        /\ run'[u].stage = "polling" /\ run'[u].polls = j
    BY <1>4, <2>1 DEF RunState, RunStages
  <2>3. /\ transcode' \in [JobIds -> Transcodes \cup {NoJob}]
        /\ transcode'[j] = job("running")
        /\ \A k \in JobIds \ {j} : transcode'[k] = transcode[k]
    BY <1>1, <1>3, <1>4 DEF MediaTypeOK
  <2>4. MediaTypeOK'
    BY <1>1, <1>4, <2>2, <2>3 DEF MediaTypeOK
  <2>5. DoneStored' /\ Grows
    BY <1>1, <1>4, <2>3 DEF DoneStored, Grows
  <2>6. PollsOwn(u)' /\ Owned(u)'
    BY <1>3, <2>2, <2>3 DEF PollsOwn, Owned
  <2>7. QED
    BY <2>2, <2>4, <2>5, <2>6, RunMoves
<1>5. CASE /\ transcode' = [transcode EXCEPT ![j] = job("done")]
           /\ Stored(OwnerOf[u], b)
           /\ HasVideo(u, b)
  <2>1. /\ transcode' \in [JobIds -> Transcodes \cup {NoJob}]
        /\ transcode'[j] = job("done")
        /\ \A k \in JobIds \ {j} : transcode'[k] = transcode[k]
    BY <1>1, <1>3, <1>5 DEF MediaTypeOK
  <2>2. /\ blobs' \in [Owners -> SUBSET MediaBlobs] /\ b \in blobs'[OwnerOf[u]]
        /\ \A p \in Owners : blobs[p] \subseteq blobs'[p]
    BY <1>1, <1>2, <1>5 DEF MediaTypeOK, Stored
  <2>3. \A k \in JobIds : transcode[k] # NoJob => transcode[k].owner \in Owners
    BY <1>1 DEF MediaTypeOK, Transcodes
  <2>4. Grows /\ DoneStored'
    BY <1>1, <2>1, <2>2, <2>3 DEF Grows, DoneStored
  <2>5. b \in {Source(SourceOf[u]), Transcoded(SourceOf[u])}
    OBVIOUS
  <2> HIDE DEF b
  <2>6. QED
    BY <1>5, <2>1, <2>2, <2>4, <2>5, VideoKeeps
<1>6. QED
  BY <1>4, <1>5 DEF FreshUpload

LEMMA TranscodeEndsKeeps ==
  ASSUME MediaInv, NEW j \in JobIds, TranscodeEnds(j)
  PROVE  MediaInv'
<1> DEFINE job(s) == [transcode[j] EXCEPT !.state = s]
<1>1. /\ MediaTypeOK /\ DoneStored /\ transcode[j] # NoJob /\ transcode[j] \in Transcodes
      /\ run' = run
  BY DEF TranscodeEnds, MediaInv, MediaTypeOK
<1>2. \A s \in {"done", "failed"} :
        /\ job(s) \in Transcodes /\ job(s) # NoJob /\ job(s).state = s
        /\ job(s).content = transcode[j].content /\ job(s).owner = transcode[j].owner
  BY <1>1, MediaAssumption DEF Transcodes
<1>3. PICK s \in {"done", "failed"} :
        /\ transcode' = [transcode EXCEPT ![j] = job(s)]
        /\ \/ s = "done" /\ Stored(transcode[j].owner, Transcoded(transcode[j].content))
           \/ s = "failed" /\ UNCHANGED blobs
  BY <1>1 DEF TranscodeEnds, MediaTypeOK
<1>4. /\ transcode' \in [JobIds -> Transcodes \cup {NoJob}]
      /\ transcode'[j] = job(s)
      /\ \A k \in JobIds \ {j} : transcode'[k] = transcode[k]
  BY <1>1, <1>2, <1>3 DEF MediaTypeOK
<1>5. transcode[j].owner \in Owners /\ Transcoded(transcode[j].content) \in MediaBlobs
  BY <1>1, BlobKinds DEF Transcodes
<1>6. /\ blobs' \in [Owners -> SUBSET MediaBlobs]
      /\ \A p \in Owners : blobs[p] \subseteq blobs'[p]
      /\ s = "done" => Transcoded(transcode[j].content) \in blobs'[transcode[j].owner]
  BY <1>1, <1>3, <1>5 DEF MediaTypeOK, Stored
<1>7. \A k \in JobIds : transcode[k] # NoJob => transcode[k].owner \in Owners
  BY <1>1 DEF MediaTypeOK, Transcodes
<1>8. MediaTypeOK'
  BY <1>1, <1>4, <1>6 DEF MediaTypeOK
<1> HIDE DEF job
<1>9. Grows
  BY <1>2, <1>4, <1>6 DEF Grows
<1>10. DoneStored'
  BY <1>1, <1>2, <1>4, <1>6, <1>7 DEF DoneStored
<1>11. ASSUME NEW u \in Runs PROVE PollsOwn(u)' /\ Owned(u)'
  BY <1>1, <1>9, StillRunKeeps
<1>12. QED
  BY <1>8, <1>10, <1>11 DEF MediaInv

LEMMA MediaStep == MediaInv /\ [MediaNext]_mediaVars => MediaInv'
<1> SUFFICES ASSUME MediaInv, [MediaNext]_mediaVars PROVE MediaInv'
  OBVIOUS
<1>1. ASSUME NEW u \in Runs, RunStep(u) PROVE MediaInv'
  <2>1. CASE NoSource(u) \/ RejectSource(u) \/ PollTimesOut(u) \/ UploadFails(u)
    BY <2>1, FailingKeeps DEF NoSource, RejectSource, PollTimesOut, UploadFails
  <2>2. ASSUME NEW c \in Contents, FetchSource(u, c) PROVE MediaInv'
    BY <2>2, FailingKeeps, TurnKeeps DEF FetchSource, RunStages
  <2>3. ASSUME NEW j \in JobIds, FreshUpload(u, j) PROVE MediaInv'
    BY <2>3, FreshUploadKeeps
  <2>4. CASE CachedUpload(u)
    BY <2>4, CachedUploadKeeps
  <2>5. CASE PollAgain(u)
    BY <2>5, PollAgainKeeps
  <2>6. CASE PollEnds(u)
    BY <2>6, PollEndsKeeps
  <2>7. CASE DirectUpload(u)
    BY <2>7, DirectUploadKeeps
  <2>8. CASE AddCaption(u)
    BY <2>8, AddCaptionKeeps
  <2>9. CASE SkipCaption(u)
    BY <2>9, SkipCaptionKeeps
  <2>10. CASE CaptionsDone(u)
    BY <2>10, TurnKeeps DEF CaptionsDone, RunStages
  <2>11. QED
    BY <1>1, <2>1, <2>2, <2>3, <2>4, <2>5, <2>6, <2>7, <2>8, <2>9, <2>10 DEF RunStep
<1>2. ASSUME NEW u \in Runs, RunAgain(u) PROVE MediaInv'
  BY <1>2, FailingKeeps DEF RunAgain
<1>3. ASSUME NEW j \in JobIds, TranscodeEnds(j) PROVE MediaInv'
  BY <1>3, TranscodeEndsKeeps
<1>4. CASE UNCHANGED mediaVars
  BY <1>4 DEF mediaVars, MediaInv, MediaTypeOK, DoneStored, PollsOwn, Owned
<1>5. QED
  BY <1>1, <1>2, <1>3, <1>4 DEF MediaNext

(* Every blob of a record handle_video_event ends its media part with is in *)
(* the owner's repository, and the video is made from the verified source.   *)
THEOREM BlobsAlwaysOwned == MediaSpec => []BlobsOwned
<1>1. MediaInv => BlobsOwned
  BY DEF MediaInv, Owned, BlobsOwned
<1>2. QED
  BY <1>1, MediaInitially, MediaStep, PTL DEF MediaSpec
================================================================================
