------------------------------- MODULE Sessions -------------------------------
(***************************************************************************)
(* The sessions of one user: SessionsService (modules/sessions), the flows *)
(* of AuthService that use it (login, refresh, logout, password changes),  *)
(* UsersService.updateStatus and the blocklist JwtAuthGuard reads.         *)
(*                                                                         *)
(* A session is a row with a refresh token, and an access token that names *)
(* it.  A refresh ROTATES: the row is revoked and a new one created.       *)
(* Revoking is two writes, the row in the database and then an entry in    *)
(* the Redis blocklist, which keeps the access token out until it expires. *)
(* Handlers interleave at every await.                                     *)
(***************************************************************************)
EXTENDS Naturals

CONSTANTS
  Session,    \* session ids; bounds the sessions of a behaviour
  NoSession,  \* no session: the parent of one that a login created
  Handler,    \* request handlers that may be running at once
  MaxEvent    \* bound: failures, and tokens that run out, in a behaviour

ASSUME SessionsAssumption == NoSession \notin Session /\ MaxEvent \in Nat

VARIABLES
  row,      \* rows of Session
  expired,  \* sessions whose refresh token has expired
  access,   \* the access token of each session
  blocked,  \* the blocklist: keys revoked:{sessionId}
  status,   \* User.status
  pc,       \* where each handler is
  frame,    \* the locals of each handler
  parent,   \* history: the session a session was rotated from
  met,      \* history: handlers that have been overlapped by another one
  raced,    \* history: sessions created by a handler that was overlapped
  fails,    \* failures so far
  ticks     \* tokens that have run out so far

vars == <<row, expired, access, blocked, status, pc, frame, parent, met, raced, fails, ticks>>

\* revokedReason, as far as refresh tells reasons apart: ENDED stands for
\* USER_LOGOUT, USER_LOGOUT_ALL, ADMIN_REVOKED, USER_BANNED, PASSWORD_RESET and
\* EXPIRED.
Reason == {"ROTATED", "TOKEN_REUSE", "ENDED"}

\* Locals: the session at hand, the reason it or all are revoked for, the session
\* revokeAllForUser spares, the ids to blocklist, and whether a new session follows.
Frame == [s : Session \cup {NoSession}, reason : Reason, keep : SUBSET Session,
          found : SUBSET Session, rotating : BOOLEAN]

NoFrame == [s |-> NoSession, reason |-> "ENDED", keep |-> {}, found |-> {}, rotating |-> FALSE]

TypeOK ==
  /\ row \in [Session -> {"none", "active", "deleted"} \cup Reason]
  /\ expired \subseteq Session
  /\ access \in [Session -> {"none", "live", "lapsed"}]
  /\ blocked \subseteq Session
  /\ status \in {"ACTIVE", "BANNED"}
  /\ pc \in [Handler -> {"idle", "create", "sign", "revoke", "find", "endall", "block"}]
  /\ frame \in [Handler -> Frame]
  /\ parent \in [Session -> Session \cup {NoSession}]
  /\ met \subseteq Handler /\ raced \subseteq Session
  /\ fails \in Nat /\ ticks \in Nat

Init ==
  /\ row = [s \in Session |-> "none"]
  /\ expired = {} /\ blocked = {}
  /\ access = [s \in Session |-> "none"]
  /\ status = "ACTIVE"
  /\ pc = [h \in Handler |-> "idle"]
  /\ frame = [h \in Handler |-> NoFrame]
  /\ parent = [s \in Session |-> NoSession]
  /\ met = {} /\ raced = {}
  /\ fails = 0 /\ ticks = 0

Active    == {s \in Session : row[s] = "active"}
Issued(s) == access[s] # "none"

\* JwtAuthGuard: a live access token whose session is not on the blocklist.
Authenticated(s) == access[s] = "live" /\ s \notin blocked

-----------------------------------------------------------------------------
\* A request begins: what it read has sent it to a label with these locals.
Begin(h, label, locals) ==
  /\ pc[h] = "idle"
  /\ pc' = [pc EXCEPT ![h] = label]
  /\ frame' = [frame EXCEPT ![h] = locals]
  /\ LET others == {g \in Handler : pc[g] # "idle"}
     IN met' = IF others = {} THEN met ELSE met \cup others \cup {h}
  /\ UNCHANGED <<row, expired, access, blocked, parent, raced, fails, ticks>>

Goto(h, label, locals) ==
  /\ pc' = [pc EXCEPT ![h] = label]
  /\ frame' = [frame EXCEPT ![h] = locals]
  /\ UNCHANGED met

Return(h) ==
  /\ pc' = [pc EXCEPT ![h] = "idle"]
  /\ frame' = [frame EXCEPT ![h] = NoFrame]
  /\ met' = met \ {h}

\* revokeSession and revokeAllForUser, called for a reason.
RevokeOne(h, s, reason, rotating) ==
  Begin(h, "revoke", [NoFrame EXCEPT !.s = s, !.reason = reason, !.rotating = rotating])
RevokeAll(h, reason, keep) ==
  Begin(h, "find", [NoFrame EXCEPT !.reason = reason, !.keep = keep])

Login(h) ==
  /\ status = "ACTIVE"
  /\ Begin(h, "create", NoFrame)
  /\ UNCHANGED status

\* Mutant: a refresh that forgets the old session.
RefreshRotate_KeepsOld(h, s) ==
  /\ Issued(s) /\ row[s] = "active" /\ s \notin expired /\ status = "ACTIVE"
  /\ Begin(h, "create", [NoFrame EXCEPT !.s = s])
  /\ UNCHANGED status

\* refresh: what it does depends on the row it finds by the token.  A row that
\* was ended otherwise, or deleted, is refused and nothing changes.
RefreshRotate(h, s) ==
  /\ Issued(s) /\ row[s] = "active" /\ s \notin expired /\ status = "ACTIVE"
  /\ RevokeOne(h, s, "ROTATED", TRUE)
  /\ UNCHANGED status

RefreshReplay(h, s) ==
  /\ Issued(s) /\ row[s] \in {"ROTATED", "TOKEN_REUSE"}
  /\ RevokeAll(h, "TOKEN_REUSE", {})
  /\ UNCHANGED status

RefreshExpired(h, s) ==
  /\ Issued(s) /\ row[s] = "active" /\ s \in expired
  /\ RevokeOne(h, s, "ENDED", FALSE)
  /\ UNCHANGED status

RefreshBanned(h, s) ==
  /\ Issued(s) /\ row[s] = "active" /\ s \notin expired /\ status # "ACTIVE"
  /\ RevokeAll(h, "ENDED", {})
  /\ UNCHANGED status

Logout(h, s) ==
  /\ Issued(s) /\ row[s] = "active"
  /\ RevokeOne(h, s, "ENDED", FALSE)
  /\ UNCHANGED status

\* revokeOnBehalf: the caller is the owner, or holds session:revoke.
RevokeOnBehalf(h, s) ==
  /\ row[s] = "active"
  /\ RevokeOne(h, s, "ENDED", FALSE)
  /\ UNCHANGED status

LogoutAll(h, by) ==
  /\ Authenticated(by)
  /\ RevokeAll(h, "ENDED", {})
  /\ UNCHANGED status

\* changePassword and revokeOthers spare the session they are called from.
ChangePassword(h, by) ==
  /\ Authenticated(by)
  /\ RevokeAll(h, "ENDED", {by})
  /\ UNCHANGED status

\* resetPassword and resetPasswordByIdentity.
ResetPassword(h) == RevokeAll(h, "ENDED", {}) /\ UNCHANGED status

\* Mutant: the sessions of a banned user are left to expire.
UpdateStatus_KeepsSessions(h) ==
  /\ status' = "BANNED"
  /\ UNCHANGED <<row, expired, access, blocked, pc, frame, parent, met, raced, fails, ticks>>

\* updateStatus writes the status; BANNED stands for INACTIVE too, and revokes all.
UpdateStatus(h) ==
  \/ status' = "BANNED" /\ RevokeAll(h, "ENDED", {})
  \/ /\ status' = "ACTIVE"
     /\ UNCHANGED <<row, expired, access, blocked, pc, frame, parent, met, raced, fails, ticks>>

Request(h) ==
  \/ Login(h)
  \/ \E s \in Session :
       \/ RefreshRotate(h, s) \/ RefreshReplay(h, s) \/ RefreshExpired(h, s) \/ RefreshBanned(h, s)
       \/ Logout(h, s) \/ RevokeOnBehalf(h, s)
       \/ LogoutAll(h, s) \/ ChangePassword(h, s)
  \/ ResetPassword(h)
  \/ UpdateStatus(h)

-----------------------------------------------------------------------------
(* createSession, and the access token signed for what it returns. *)

CreateSession(h) ==
  /\ pc[h] = "create"
  /\ \E s \in Session :
       /\ row[s] = "none"
       /\ row' = [row EXCEPT ![s] = "active"]
       /\ parent' = [parent EXCEPT ![s] = frame[h].s]
       /\ raced' = IF h \in met THEN raced \cup {s} ELSE raced
       /\ Goto(h, "sign", [NoFrame EXCEPT !.s = s])
  /\ UNCHANGED <<expired, access, blocked, status, fails, ticks>>

Sign(h) ==
  /\ pc[h] = "sign"
  /\ access' = [access EXCEPT ![frame[h].s] = "live"]
  /\ Return(h)
  /\ UNCHANGED <<row, expired, blocked, status, parent, raced, fails, ticks>>

\* After revokeSession: rotate goes on to create a session, the others are done.
Continue(h) ==
  IF frame[h].rotating THEN Goto(h, "create", [NoFrame EXCEPT !.s = frame[h].s]) ELSE Return(h)

\* revokeSession: a conditional updateMany; with no row left to revoke it returns,
\* and rotate creates the new session all the same.
Revoke(h) ==
  LET s == frame[h].s
  IN /\ pc[h] = "revoke"
     /\ IF row[s] = "active"
        THEN /\ row' = [row EXCEPT ![s] = frame[h].reason]
             /\ Goto(h, "block", [frame[h] EXCEPT !.found = {s}, !.reason = "ENDED"])
        ELSE Continue(h) /\ UNCHANGED row
     /\ UNCHANGED <<expired, access, blocked, status, parent, raced, fails, ticks>>

\* Mutant: the blocklist is written first.
Find_BlocksFirst(h) ==
  LET found == Active \ frame[h].keep
  IN /\ pc[h] = "find"
     /\ IF found = {} THEN Return(h) ELSE Goto(h, "endall", [frame[h] EXCEPT !.found = found])
     /\ blocked' = blocked \cup found
     /\ UNCHANGED <<row, expired, access, status, parent, raced, fails, ticks>>

\* revokeAllForUser: it reads the ids, revokes whatever is active by then, and
\* blocklists the ids it read.
Find(h) ==
  LET found == Active \ frame[h].keep
  IN /\ pc[h] = "find"
     /\ IF found = {} THEN Return(h) ELSE Goto(h, "endall", [frame[h] EXCEPT !.found = found])
     /\ UNCHANGED <<row, expired, access, blocked, status, parent, raced, fails, ticks>>

EndAll(h) ==
  /\ pc[h] = "endall"
  /\ row' = [s \in Session |-> IF s \in Active \ frame[h].keep THEN frame[h].reason ELSE row[s]]
  /\ Goto(h, "block", [NoFrame EXCEPT !.found = frame[h].found])
  /\ UNCHANGED <<expired, access, blocked, status, parent, raced, fails, ticks>>

\* Mutant: only a rotation blocklists.
Block_RotationOnly(h) ==
  /\ pc[h] = "block"
  /\ blocked' = IF frame[h].rotating THEN blocked \cup frame[h].found ELSE blocked
  /\ Continue(h)
  /\ UNCHANGED <<row, expired, access, status, parent, raced, fails, ticks>>

\* blocklistSessions.
Block(h) ==
  /\ pc[h] = "block"
  /\ blocked' = blocked \cup frame[h].found
  /\ Continue(h)
  /\ UNCHANGED <<row, expired, access, status, parent, raced, fails, ticks>>

Proceed(h) == CreateSession(h) \/ Sign(h) \/ Revoke(h) \/ Find(h) \/ EndAll(h) \/ Block(h)

\* A handler ends between two calls: an exception or a restart.
Fail(h) ==
  /\ pc[h] # "idle"
  /\ fails + ticks < MaxEvent
  /\ fails' = fails + 1
  /\ Return(h)
  /\ UNCHANGED <<row, expired, access, blocked, status, parent, raced, ticks>>

-----------------------------------------------------------------------------
(* Time. *)

Tick == fails + ticks < MaxEvent /\ ticks' = ticks + 1

\* A refresh token lives for weeks, the access token beside it for minutes.
Expire(s) ==
  /\ Tick
  /\ row[s] # "none" /\ s \notin expired
  /\ expired' = expired \cup {s}
  /\ access' = IF access[s] = "live" THEN [access EXCEPT ![s] = "lapsed"] ELSE access
  /\ UNCHANGED <<row, blocked, status, pc, frame, parent, met, raced, fails>>

AccessLapses(s) ==
  /\ Tick
  /\ access[s] = "live"
  /\ access' = [access EXCEPT ![s] = "lapsed"]
  /\ UNCHANGED <<row, expired, blocked, status, pc, frame, parent, met, raced, fails>>

\* An entry outlives the access token by a minute.
BlockLapses(s) ==
  /\ s \in blocked /\ access[s] = "lapsed"
  /\ blocked' = blocked \ {s}
  /\ UNCHANGED <<row, expired, access, status, pc, frame, parent, met, raced, fails, ticks>>

\* cleanupExpiredSessions: rows whose token expired a week ago.
Cleanup ==
  /\ \E old \in SUBSET expired \ {{}} :
       row' = [s \in Session |-> IF s \in old THEN "deleted" ELSE row[s]]
  /\ UNCHANGED <<expired, access, blocked, status, pc, frame, parent, met, raced, fails, ticks>>

Next ==
  \/ \E h \in Handler : Request(h) \/ Proceed(h) \/ Fail(h)
  \/ \E s \in Session : Expire(s) \/ AccessLapses(s) \/ BlockLapses(s)
  \/ Cleanup

Spec == Init /\ [][Next]_vars

-----------------------------------------------------------------------------
(* What holds however the handlers interleave. *)

\* A session is never active beside the one it was rotated from (rotate).
NeverBoth ==
  \A s \in Session : row[s] = "active" /\ parent[s] # NoSession => row[parent[s]] # "active"

\* The blocklist never keeps a session out that is still active (revokeSession,
\* revokeAllForUser).
BlockedIsRevoked == blocked \cap Active = {}

\* A revoked session stays revoked, for the same reason: refresh recognises a
\* replayed token by it.
ReasonKept ==
  [][\A s \in Session : row[s] \in Reason => row'[s] \in {row[s], "deleted"}]_vars

-----------------------------------------------------------------------------
(* What holds, once all is quiet and nothing has failed, of the sessions    *)
(* whose creation no other request overlapped.                              *)

Settled == (\A h \in Handler : pc[h] = "idle") /\ fails = 0

\* jwt-auth.guard.ts:24, a revoked session is refused at once: no access token of a
\* revoked session passes the guard.
RevokedIsRefused ==
  Settled => \A s \in Session \ raced : row[s] \in Reason => ~ Authenticated(s)

\* A banned user has no session left (updateStatus).
BannedIsOut == Settled /\ status = "BANNED" => Active \subseteq raced

\* A refresh token is good for one rotation (refresh, rotate).
OneSuccessor ==
  \A s \in Session \ raced, u \in Session :
    s # u /\ parent[s] # NoSession => parent[s] # parent[u]
=============================================================================
