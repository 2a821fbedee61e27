------------------------------- MODULE PdsSession -------------------------------
(***************************************************************************)
(* The PDS session of one account: the access and refresh tokens stored    *)
(* in account_links, and the authenticated calls that share them. Several  *)
(* calls run at once (local workers, other replicas, the blob uploader and *)
(* the publisher have a client each), no lock is held around a refresh,    *)
(* and each refresh token is good for one refresh.                          *)
(*                                                                         *)
(* An access token is known by the time it expires. Refresh tokens are     *)
(* identities: all that matters is which one the PDS would take.            *)
(***************************************************************************)
EXTENDS Naturals, FiniteSets

CONSTANTS
  Calls,          \* concurrent authenticated calls
  OneShot,        \* the calls that never retry after a 401: uploadBlob
  RefreshTokens,  \* identities of refresh tokens
  Ttl,            \* lifetime of an access token
  Headroom,       \* ACCESS_TOKEN_MIN_REMAINING_SECS
  MaxNow,         \* bound on the clock
  NoToken

Expiry == 0..(MaxNow + Ttl)
Session == [access : Expiry, refresh : RefreshTokens]

ASSUME SessionAssumption ==
  /\ OneShot \subseteq Calls /\ RefreshTokens # {}
  /\ Ttl \in Nat /\ Headroom \in Nat /\ MaxNow \in Nat
  /\ Headroom < Ttl
  /\ NoToken \notin Nat \cup RefreshTokens \cup Session

VARIABLES
  now,      \* the clock of bridge and PDS
  stored,   \* pds_access_jwt and pds_refresh_jwt of the account, or none
  live,     \* the refresh token the PDS would take
  lost,     \* history: the live token was dropped by a fault
  call      \* the locals of each call

sessionVars == <<now, stored, live, lost, call>>

SessionStages ==
  {"idle", "reading", "refreshing", "storing", "sending", "done", "failed"}
CallState ==
  [stage : SessionStages, token : Expiry \cup {NoToken}, held : RefreshTokens \cup {NoToken},
   minted : Session \cup {NoToken}, retried : BOOLEAN]

IdleCall ==
  [stage |-> "idle", token |-> NoToken, held |-> NoToken, minted |-> NoToken, retried |-> FALSE]

SessionTypeOK ==
  /\ now \in 0..MaxNow
  /\ stored \in Session \cup {NoToken}
  /\ live \in RefreshTokens \cup {NoToken}
  /\ lost \in BOOLEAN
  /\ call \in [Calls -> CallState]

(* Provisioning stored the session createAccount returned. An account that  *)
(* was adopted has none, and its calls fall back on the shared token.       *)
SessionInit ==
  /\ now = 0
  /\ \/ /\ live = CHOOSE r \in RefreshTokens : TRUE
        /\ stored = [access |-> Ttl, refresh |-> live]
     \/ stored = NoToken /\ live = NoToken
  /\ lost = FALSE
  /\ call = [c \in Calls |-> IdleCall]

--------------------------------------------------------------------------------

(* access_token_is_usable: about to expire counts as expired. *)
UsableAlways(exp) == TRUE
Usable(exp) == exp > now + Headroom

(* What the PDS thinks of a bearer token. The shared token is no JWT.       *)
Accepts(token) == token # NoToken /\ token > now

InUse(r) ==
  \/ r = live
  \/ stored # NoToken /\ stored.refresh = r
  \/ \E c \in Calls :
       call[c].held = r \/ (call[c].minted # NoToken /\ call[c].minted.refresh = r)

(* The call is over; an upload is, after its one request. *)
Ends(c, outcome) == call' = [call EXCEPT ![c] = [IdleCall EXCEPT !.stage = outcome]]

(* The two columns, read by statements of their own. *)
StoredAccess == IF stored = NoToken THEN NoToken ELSE stored.access
StoredRefresh == IF stored = NoToken THEN NoToken ELSE stored.refresh

(* auth_token_for, first read: the stored token if it is usable, the shared *)
(* token if there is none, otherwise a refresh before the token is used.    *)
ReadAccess(c) ==
  /\ call[c].stage = "idle"
  /\ call' = [call EXCEPT ![c].token = StoredAccess,
                          ![c].stage = IF stored = NoToken \/ Usable(stored.access)
                                       THEN "sending" ELSE "reading"]
  /\ UNCHANGED <<now, stored, live, lost>>

(* refresh_session_for ends without a token. Before the first send the call *)
(* goes on with the stale token, after a 401 it is over.                     *)
NoFreshToken(c) ==
  IF call[c].retried
  THEN Ends(c, "failed")
  ELSE call' = [call EXCEPT ![c].held = NoToken, ![c].minted = NoToken, ![c].stage = "sending"]

(* refresh_session_for, the read of the refresh token: a later read than    *)
(* that of the access token.                                                 *)
ReadRefresh(c) ==
  /\ call[c].stage = "reading"
  /\ IF StoredRefresh = NoToken
     THEN NoFreshToken(c)
     ELSE call' = [call EXCEPT ![c].held = StoredRefresh, ![c].stage = "refreshing"]
  /\ UNCHANGED <<now, stored, live, lost>>

(* refreshSession at the PDS (external): the live token buys a new pair and *)
(* is spent, any other token is refused.                                     *)
Refresh(c) ==
  /\ call[c].stage = "refreshing"
  /\ IF call[c].held = live
     THEN /\ \E r \in RefreshTokens : ~InUse(r)
          /\ live' = CHOOSE r \in RefreshTokens : ~InUse(r)
          /\ call' = [call EXCEPT ![c].minted = [access |-> now + Ttl, refresh |-> live'],
                                  ![c].held = NoToken, ![c].stage = "storing"]
     ELSE NoFreshToken(c) /\ UNCHANGED live
  /\ UNCHANGED <<now, stored, lost>>

(* The refresh request is lost, or answered with an error. *)
RefreshFails(c) ==
  /\ call[c].stage = "refreshing"
  /\ call[c].held = live
  /\ NoFreshToken(c)
  /\ UNCHANGED <<now, stored, live, lost>>

(* The PDS rotates the session and its answer is lost. *)
AnswerLost(c) ==
  /\ call[c].stage = "refreshing"
  /\ call[c].held = live
  /\ \E r \in RefreshTokens : ~InUse(r)
  /\ live' = CHOOSE r \in RefreshTokens : ~InUse(r)
  /\ lost' = TRUE
  /\ NoFreshToken(c)
  /\ UNCHANGED <<now, stored>>

(* store_account_pds_session_by_did: an unconditional update of both columns. *)
StoreColumns(session) == stored' = session

(* The call stores the rotated session and goes on with its access token. *)
StoreAccessOnly(c) ==
  /\ call[c].stage = "storing"
  /\ stored' = [stored EXCEPT !.access = call[c].minted.access]
  /\ call' = [call EXCEPT ![c].token = call[c].minted.access, ![c].minted = NoToken,
                          ![c].stage = "sending"]
  /\ UNCHANGED <<now, live, lost>>
StoreSession(c) ==
  /\ call[c].stage = "storing"
  /\ StoreColumns(call[c].minted)
  /\ call' = [call EXCEPT ![c].token = call[c].minted.access, ![c].minted = NoToken,
                          ![c].stage = "sending"]
  /\ UNCHANGED <<now, live, lost>>

(* The update fails: the rotated session is gone. *)
StoreFails(c) ==
  /\ call[c].stage = "storing"
  /\ NoFreshToken(c)
  /\ lost' = TRUE
  /\ UNCHANGED <<now, stored, live>>

(* A 401 is answered with one refresh and one retry, except for uploads. *)
Unauthorized(c) ==
  IF call[c].retried \/ c \in OneShot
  THEN Ends(c, "failed")
  ELSE call' = [call EXCEPT ![c].retried = TRUE, ![c].stage = "reading"]

(* The request itself. The PDS answers a token it does not accept with a    *)
(* 401, or, as rsky does with an expired one, with 400 BadJwt.               *)
Send(c) ==
  /\ call[c].stage = "sending"
  /\ \/ Accepts(call[c].token) /\ Ends(c, "done")
     \/ ~Accepts(call[c].token) /\ (Ends(c, "failed") \/ Unauthorized(c))
  /\ UNCHANGED <<now, stored, live, lost>>

(* A token that should be good is turned down, or the request breaks. *)
SendFails(c) ==
  /\ call[c].stage = "sending"
  /\ Accepts(call[c].token)
  /\ Ends(c, "failed") \/ Unauthorized(c)
  /\ UNCHANGED <<now, stored, live, lost>>

(* The job is run again, or the next job of the account is. *)
CallAgain(c) ==
  /\ call[c].stage \in {"done", "failed"}
  /\ call' = [call EXCEPT ![c] = IdleCall]
  /\ UNCHANGED <<now, stored, live, lost>>

(* The process of a call ends. *)
CallAborts(c) ==
  /\ call[c].stage \notin {"idle", "done", "failed"}
  /\ lost' = (lost \/ call[c].stage = "storing")
  /\ call' = [call EXCEPT ![c] = IdleCall]
  /\ UNCHANGED <<now, stored, live>>

Tick ==
  /\ now < MaxNow
  /\ now' = now + 1
  /\ UNCHANGED <<stored, live, lost, call>>

CallStep(c) ==
  \/ ReadAccess(c) \/ ReadRefresh(c) \/ Refresh(c) \/ StoreSession(c) \/ Send(c)
  \/ CallAgain(c)

SessionFault(c) ==
  RefreshFails(c) \/ AnswerLost(c) \/ StoreFails(c) \/ SendFails(c) \/ CallAborts(c)

SessionNext ==
  \/ \E c \in Calls : CallStep(c) \/ SessionFault(c)
  \/ Tick

SessionSpec == SessionInit /\ [][SessionNext]_sessionVars

--------------------------------------------------------------------------------

(* Two calls that refresh at once never cost the account its session: the   *)
(* token the PDS would take is the stored one, or is in the hands of the    *)
(* one call that is about to store it, unless a lost answer, a failed       *)
(* update or a crash dropped it.                                             *)
SessionKept ==
  \/ lost
  \/ stored = NoToken
  \/ stored.refresh = live
  \/ \E c \in Calls : call[c].stage = "storing" /\ call[c].minted.refresh = live

(* A slow call never puts an older session back over a newer one. *)
NeverRolledBack ==
  [][stored # NoToken => stored' # NoToken /\ stored'.access >= stored.access]_sessionVars

(* "a purely reactive refresh never fires and the account goes dark ~2h     *)
(* after provisioning" (auth_token_for): with the refresh ahead of the      *)
(* expiry, and once faults stop, every call of an account that has its      *)
(* session succeeds again and again, uploads included.                       *)
NotDark ==
  (<>[][\A c \in Calls : ~SessionFault(c)]_sessionVars /\ [](~lost /\ stored # NoToken))
    => \A c \in Calls : []<>(call[c].stage = "done")

SessionFairness == \A c \in Calls : WF_sessionVars(CallStep(c))
================================================================================
