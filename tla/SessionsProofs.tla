---------------------------- MODULE SessionsProofs ----------------------------
(***************************************************************************)
(* Proofs about Sessions, for any number of sessions and handlers and any  *)
(* bound on events.  The argument: a session that has ended never comes    *)
(* back (RowStep), so what a handler has established of its sessions stays *)
(* true while other handlers run, and it is enough to follow one handler.  *)
(***************************************************************************)
EXTENDS Sessions, TLAPS

Ended(s) == row[s] \notin {"none", "active"}

\* What a handler at each label knows of the sessions in its frame.
HandlerOk(h) ==
  /\ pc[h] = "create" => frame[h].s = NoSession \/ Ended(frame[h].s)
  /\ pc[h] = "revoke" => frame[h].s \in Session /\ row[frame[h].s] # "none"
  /\ pc[h] = "endall" => \A s \in frame[h].found : row[s] # "none" /\ s \notin frame[h].keep
  /\ pc[h] = "block" => /\ \A s \in frame[h].found : Ended(s)
                        /\ frame[h].rotating => frame[h].s \in Session /\ Ended(frame[h].s)

ParentsOk == \A s \in Session : parent[s] # NoSession => Ended(parent[s])
BlockedOk == \A s \in blocked : Ended(s)

SInv == TypeOK /\ (\A h \in Handler : HandlerOk(h)) /\ ParentsOk /\ BlockedOk

-----------------------------------------------------------------------------
\* The only ways a row changes: created, revoked while active, or deleted.
RowChange(s) ==
  \/ row'[s] = row[s]
  \/ row[s] = "none" /\ row'[s] = "active"
  \/ row[s] = "active" /\ row'[s] \in Reason
  \/ row'[s] = "deleted"

\* Beginning a request, and whatever only moves a handler, leaves all rows alone.
LEMMA RequestRows ==
  ASSUME NEW h \in Handler, Request(h)
  PROVE  UNCHANGED <<row, blocked, parent, access, expired, raced, fails, ticks>>
PROOF BY DEF Request, Login, RefreshRotate, RefreshReplay, RefreshExpired, RefreshBanned,
  Logout, RevokeOnBehalf, LogoutAll, ChangePassword, ResetPassword, UpdateStatus,
  RevokeOne, RevokeAll, Begin

\* Every step changes a row in one of those ways only.
LEMMA RowStep ==
  ASSUME TypeOK, \A h \in Handler : HandlerOk(h), [Next]_vars
  PROVE  \A s \in Session : RowChange(s)
PROOF
<1> SUFFICES ASSUME NEW s \in Session PROVE RowChange(s) OBVIOUS
<1> USE DEF RowChange
<1>1. CASE UNCHANGED vars BY <1>1 DEF vars
<1>2. ASSUME NEW h \in Handler, Request(h) PROVE RowChange(s)
  BY <1>2, RequestRows
<1>3. ASSUME NEW h \in Handler, CreateSession(h) PROVE RowChange(s)
  BY <1>3 DEF CreateSession, TypeOK
<1>4. ASSUME NEW h \in Handler, Sign(h) PROVE RowChange(s)
  BY <1>4 DEF Sign
<1>5. ASSUME NEW h \in Handler, Revoke(h) PROVE RowChange(s)
  BY <1>5 DEF Revoke, TypeOK, Frame
<1>6. ASSUME NEW h \in Handler, Find(h) PROVE RowChange(s)
  BY <1>6 DEF Find
<1>7. ASSUME NEW h \in Handler, EndAll(h) PROVE RowChange(s)
  BY <1>7 DEF EndAll, Active, TypeOK, Frame
<1>8. ASSUME NEW h \in Handler, Block(h) PROVE RowChange(s)
  BY <1>8 DEF Block
<1>9. ASSUME NEW h \in Handler, Fail(h) PROVE RowChange(s)
  BY <1>9 DEF Fail
<1>10. CASE \E t \in Session : Expire(t) \/ AccessLapses(t) \/ BlockLapses(t)
  BY <1>10 DEF Expire, AccessLapses, BlockLapses
<1>11. CASE Cleanup
  BY <1>11 DEF Cleanup
<1> QED
  BY <1>1, <1>2, <1>3, <1>4, <1>5, <1>6, <1>7, <1>8, <1>9, <1>10, <1>11 DEF Next, Proceed

-----------------------------------------------------------------------------
(* Types. *)

\* The variables only a request begins with keep their types.
LEMMA RequestType ==
  ASSUME TypeOK, NEW h \in Handler, Request(h)
  PROVE  TypeOK'
PROOF
<1> USE SessionsAssumption DEF TypeOK, Frame, NoFrame, Reason
<1>1. UNCHANGED <<row, blocked, parent, access, expired, raced, fails, ticks>>
  BY RequestRows
<1>2. ASSUME NEW s \in Session \cup {NoSession}, NEW r \in Reason, NEW b \in BOOLEAN,
             RevokeOne(h, s, r, b)
      PROVE  pc' \in [Handler -> {"idle", "create", "sign", "revoke", "find", "endall", "block"}]
             /\ frame' \in [Handler -> Frame] /\ met' \subseteq Handler
  BY <1>2 DEF RevokeOne, Begin
<1>3. ASSUME NEW r \in Reason, NEW k \in SUBSET Session, RevokeAll(h, r, k)
      PROVE  pc' \in [Handler -> {"idle", "create", "sign", "revoke", "find", "endall", "block"}]
             /\ frame' \in [Handler -> Frame] /\ met' \subseteq Handler
  BY <1>3 DEF RevokeAll, Begin
<1>4. CASE Login(h)
  BY <1>1, <1>4 DEF Login, Begin
<1>5. CASE \E s \in Session : \/ RefreshRotate(h, s) \/ RefreshExpired(h, s)
                              \/ Logout(h, s) \/ RevokeOnBehalf(h, s)
  BY <1>1, <1>2, <1>5 DEF RefreshRotate, RefreshExpired, Logout, RevokeOnBehalf
<1>6. CASE \E s \in Session : RefreshReplay(h, s) \/ RefreshBanned(h, s) \/ LogoutAll(h, s)
  BY <1>1, <1>3, <1>6 DEF RefreshReplay, RefreshBanned, LogoutAll
<1>7. CASE \E s \in Session : ChangePassword(h, s)
  BY <1>1, <1>3, <1>7 DEF ChangePassword
<1>8. CASE ResetPassword(h)
  BY <1>1, <1>3, <1>8 DEF ResetPassword
<1>9. CASE UpdateStatus(h)
  <2>1. CASE status' = "BANNED" /\ RevokeAll(h, "ENDED", {})
    BY <1>1, <1>3, <2>1
  <2>2. CASE /\ status' = "ACTIVE"
             /\ UNCHANGED <<row, expired, access, blocked, pc, frame, parent, met, raced, fails, ticks>>
    BY <2>2
  <2> QED BY <1>9, <2>1, <2>2 DEF UpdateStatus
<1> QED BY <1>4, <1>5, <1>6, <1>7, <1>8, <1>9, Request(h) DEF Request

Label == {"idle", "create", "sign", "revoke", "find", "endall", "block"}
Moved == pc' \in [Handler -> Label] /\ frame' \in [Handler -> Frame] /\ met' \subseteq Handler

\* A handler that moves to a label with locals of the right type, or returns, keeps
\* the types of pc, frame and met.
LEMMA MoveType ==
  ASSUME TypeOK, NEW h \in Handler
  PROVE  /\ \A label \in Label, f \in Frame : Goto(h, label, f) => Moved
         /\ Return(h) => Moved
PROOF
<1>1. NoFrame \in Frame BY SessionsAssumption DEF NoFrame, Frame, Reason
<1>2. ASSUME NEW label \in Label, NEW f \in Frame, Goto(h, label, f) PROVE Moved
  BY <1>2 DEF TypeOK, Label, Goto, Moved
<1>3. ASSUME Return(h) PROVE Moved
  BY <1>1, <1>3 DEF TypeOK, Label, Return, Moved
<1> QED BY <1>2, <1>3

\* So do all variables under the steps of a running handler.
LEMMA ProceedType ==
  ASSUME TypeOK, NEW h \in Handler, HandlerOk(h), Proceed(h) \/ Fail(h)
  PROVE  TypeOK'
PROOF
<1>1. NoFrame \in Frame BY SessionsAssumption DEF NoFrame, Frame, Reason
<1>2. frame[h] \in Frame /\ frame[h].s \in Session \cup {NoSession}
      /\ frame[h].found \subseteq Session /\ frame[h].reason \in Reason
  BY DEF TypeOK, Frame
<1>3. \A s \in Session \cup {NoSession} : [NoFrame EXCEPT !.s = s] \in Frame
  BY <1>1 DEF Frame
<1>4. \A found \in SUBSET Session : /\ [frame[h] EXCEPT !.found = found] \in Frame
                                   /\ [NoFrame EXCEPT !.found = found] \in Frame
                                   /\ [frame[h] EXCEPT !.found = found, !.reason = "ENDED"] \in Frame
  BY <1>1, <1>2 DEF Frame, Reason
<1>5. ASSUME Continue(h) PROVE Moved
  BY <1>2, <1>3, <1>5, MoveType DEF Continue, Label
<1>6. CASE CreateSession(h)
  <2>1. Moved BY <1>3, <1>6, MoveType DEF CreateSession, Label
  <2> QED BY <1>2, <1>6, <2>1 DEF CreateSession, TypeOK, Moved, Label
<1>7. CASE Sign(h)
  <2>1. Moved BY <1>7, MoveType DEF Sign
  <2> QED BY <1>7, <2>1 DEF Sign, TypeOK, Moved, Label
<1>8. CASE Revoke(h)
  <2>1. frame[h].s \in Session BY <1>8 DEF Revoke, HandlerOk
  <2>2. Moved BY <1>4, <1>5, <1>8, <2>1, MoveType DEF Revoke, Label
  <2> QED BY <1>2, <1>8, <2>2 DEF Revoke, TypeOK, Moved, Label
<1>9. CASE Find(h)
  <2>1. Active \ frame[h].keep \in SUBSET Session BY DEF Active
  <2>2. Moved BY <1>4, <1>9, <2>1, MoveType DEF Find, Label
  <2> QED BY <1>9, <2>2 DEF Find, TypeOK, Moved, Label
<1>10. CASE EndAll(h)
  <2>1. Moved BY <1>2, <1>4, <1>10, MoveType DEF EndAll, Label
  <2> QED BY <1>2, <1>10, <2>1 DEF EndAll, TypeOK, Moved, Label
<1>11. CASE Block(h)
  <2>1. Moved BY <1>5, <1>11 DEF Block
  <2> QED BY <1>2, <1>11, <2>1 DEF Block, TypeOK, Moved, Label
<1>12. CASE Fail(h)
  <2>1. Moved BY <1>12, MoveType DEF Fail
  <2> QED BY <1>12, <2>1 DEF Fail, TypeOK, Moved, Label
<1> QED BY <1>6, <1>7, <1>8, <1>9, <1>10, <1>11, <1>12 DEF Proceed

\* And under the steps of the clock.
LEMMA TimeType ==
  ASSUME TypeOK,
         (\E s \in Session : Expire(s) \/ AccessLapses(s) \/ BlockLapses(s)) \/ Cleanup
  PROVE  TypeOK'
PROOF BY DEF TypeOK, Expire, AccessLapses, BlockLapses, Cleanup, Tick

-----------------------------------------------------------------------------
(* What each handler knows. *)

\* A handler that does not move keeps what it knows, whatever happens to the rows.
LEMMA OthersKnow ==
  ASSUME TypeOK, NEW g \in Handler, HandlerOk(g), \A s \in Session : RowChange(s),
         pc'[g] = pc[g], frame'[g] = frame[g]
  PROVE  HandlerOk(g)'
PROOF
<1>1. frame[g].s \in Session \cup {NoSession} /\ frame[g].found \subseteq Session
  BY DEF TypeOK, Frame
<1>2. \A s \in Session : (Ended(s) => Ended(s)') /\ (row[s] # "none" => row'[s] # "none")
  BY DEF Ended, RowChange, Reason
<1> QED BY <1>1, <1>2 DEF HandlerOk

\* A request that begins knows what it has just read.
LEMMA RequestKnows ==
  ASSUME TypeOK, NEW h \in Handler, HandlerOk(h), Request(h)
  PROVE  HandlerOk(h)'
PROOF
<1> USE DEF TypeOK, NoFrame
<1>1. UNCHANGED row BY RequestRows
<1>2. ASSUME NEW s \in Session, row[s] # "none", NEW r, NEW b, RevokeOne(h, s, r, b)
      PROVE  HandlerOk(h)'
  BY <1>1, <1>2 DEF RevokeOne, Begin, HandlerOk
<1>3. ASSUME NEW r, NEW k, RevokeAll(h, r, k) PROVE HandlerOk(h)'
  BY <1>3 DEF RevokeAll, Begin, HandlerOk
<1>4. CASE Login(h)
  BY <1>4 DEF Login, Begin, HandlerOk
<1>5. CASE \E s \in Session : \/ RefreshRotate(h, s) \/ RefreshExpired(h, s)
                              \/ Logout(h, s) \/ RevokeOnBehalf(h, s)
  BY <1>2, <1>5 DEF RefreshRotate, RefreshExpired, Logout, RevokeOnBehalf
<1>6. CASE \E s \in Session : \/ RefreshReplay(h, s) \/ RefreshBanned(h, s)
                              \/ LogoutAll(h, s) \/ ChangePassword(h, s)
  BY <1>3, <1>6 DEF RefreshReplay, RefreshBanned, LogoutAll, ChangePassword
<1>7. CASE ResetPassword(h)
  BY <1>3, <1>7 DEF ResetPassword
<1>8. CASE UpdateStatus(h)
  <2>1. CASE RevokeAll(h, "ENDED", {}) BY <1>3, <2>1
  <2>2. CASE UNCHANGED <<row, pc, frame>> BY <2>2 DEF HandlerOk, Ended
  <2> QED BY <1>8, <2>1, <2>2 DEF UpdateStatus
<1> QED BY <1>4, <1>5, <1>6, <1>7, <1>8, Request(h) DEF Request

\* A handler that takes a step knows, at its next label, what that label needs.
LEMMA ProceedKnows ==
  ASSUME TypeOK, NEW h \in Handler, HandlerOk(h), Proceed(h) \/ Fail(h)
  PROVE  HandlerOk(h)'
PROOF
<1> USE DEF TypeOK, NoFrame, HandlerOk
<1>1. CASE CreateSession(h) BY <1>1 DEF CreateSession, Goto
<1>2. CASE Sign(h) BY <1>2 DEF Sign, Return
<1>3. CASE Revoke(h)
  <2>1. frame[h] \in Frame /\ frame[h].s \in Session /\ row[frame[h].s] # "none"
    BY <1>3 DEF Revoke
  <2>2. CASE row[frame[h].s] = "active"
    <3>1. row'[frame[h].s] \in Reason BY <1>3, <2>1, <2>2 DEF Revoke, Frame
    <3>2. Goto(h, "block", [frame[h] EXCEPT !.found = {frame[h].s}, !.reason = "ENDED"])
      BY <1>3, <2>2 DEF Revoke
    <3>3. /\ pc'[h] = "block"
          /\ frame'[h].s = frame[h].s
          /\ frame'[h].found = {frame[h].s}
      BY <2>1, <3>2 DEF Goto, Frame
    <3> QED BY <2>1, <3>1, <3>3 DEF Ended, Reason
  <2>3. CASE row[frame[h].s] # "active"
    BY <1>3, <2>1, <2>3 DEF Revoke, Continue, Goto, Return, Ended
  <2> QED BY <2>2, <2>3
<1>4. CASE Find(h)
  <2>1. frame[h] \in Frame OBVIOUS
  <2>2. \A s \in Active \ frame[h].keep : row[s] # "none" /\ s \notin frame[h].keep BY DEF Active
  <2> QED BY <1>4, <2>1, <2>2 DEF Find, Goto, Return, Frame
<1>5. CASE EndAll(h)
  <2>1. frame[h].found \subseteq Session /\ frame[h].reason \in Reason BY DEF Frame
  <2>2. \A s \in frame[h].found : row[s] # "none" /\ s \notin frame[h].keep BY <1>5 DEF EndAll
  <2>3. \A s \in frame[h].found : Ended(s)'
    BY <1>5, <2>1, <2>2 DEF EndAll, Ended, Active, Reason
  <2> QED BY <1>5, <2>3 DEF EndAll, Goto
<1>6. CASE Block(h)
  <2>1. frame[h].rotating => Ended(frame[h].s) BY <1>6 DEF Block
  <2> QED BY <1>6, <2>1 DEF Block, Continue, Goto, Return, Ended
<1>7. CASE Fail(h) BY <1>7 DEF Fail, Return
<1> QED BY <1>1, <1>2, <1>3, <1>4, <1>5, <1>6, <1>7 DEF Proceed

\* A step of one handler moves no other.
LEMMA OneMoves ==
  ASSUME TypeOK, NEW h \in Handler, Request(h) \/ Proceed(h) \/ Fail(h),
         NEW g \in Handler, g # h
  PROVE  pc'[g] = pc[g] /\ frame'[g] = frame[g]
PROOF
<1>1. CASE Request(h)
  BY <1>1 DEF TypeOK, Request, Login, RefreshRotate, RefreshReplay, RefreshExpired, RefreshBanned,
    Logout, RevokeOnBehalf, LogoutAll, ChangePassword, ResetPassword, UpdateStatus,
    RevokeOne, RevokeAll, Begin
<1>2. CASE Proceed(h)
  BY <1>2 DEF TypeOK, Proceed, CreateSession, Sign, Revoke, Find, EndAll, Block, Continue, Goto, Return
<1>3. CASE Fail(h)
  BY <1>3 DEF TypeOK, Fail, Return
<1> QED BY <1>1, <1>2, <1>3

-----------------------------------------------------------------------------
(* The invariant. *)

\* Nothing has happened yet.
LEMMA InitSInv == Init => SInv
PROOF
BY SessionsAssumption DEF Init, SInv, TypeOK, HandlerOk, ParentsOk, BlockedOk, Ended, Frame,
  NoFrame, Reason

\* A session becomes a parent only in CreateSession, where it has ended.
LEMMA ParentsKept ==
  ASSUME SInv, [Next]_vars
  PROVE  ParentsOk'
PROOF
<1> USE DEF SInv
<1>1. \A s \in Session : Ended(s) => Ended(s)'
  BY RowStep DEF Ended, RowChange, Reason
<1>2. CASE UNCHANGED parent
  BY <1>1, <1>2 DEF ParentsOk, TypeOK
<1>3. ASSUME NEW h \in Handler, CreateSession(h) PROVE ParentsOk'
  <2>1. frame[h].s \in Session \cup {NoSession} /\ (frame[h].s # NoSession => Ended(frame[h].s))
    BY <1>3 DEF CreateSession, HandlerOk, TypeOK, Frame
  <2>2. \A s \in Session : parent'[s] \in {parent[s], frame[h].s}
    BY <1>3 DEF CreateSession, TypeOK
  <2> QED BY <1>1, <2>1, <2>2 DEF ParentsOk, TypeOK
<1>4. UNCHANGED parent \/ \E h \in Handler : CreateSession(h)
  BY RequestRows DEF Next, vars, Proceed, Sign, Revoke, Find, EndAll, Block, Fail,
    Expire, AccessLapses, BlockLapses, Cleanup
<1> QED BY <1>2, <1>3, <1>4

\* Only Block adds to the blocklist, and what it adds has ended.
LEMMA BlockedKept ==
  ASSUME SInv, [Next]_vars
  PROVE  BlockedOk'
PROOF
<1> USE DEF SInv
<1>1. \A s \in Session : Ended(s) => Ended(s)'
  BY RowStep DEF Ended, RowChange, Reason
<1>2. CASE blocked' \subseteq blocked
  BY <1>1, <1>2 DEF BlockedOk, TypeOK
<1>3. ASSUME NEW h \in Handler, Block(h) PROVE BlockedOk'
  <2>1. frame[h].found \subseteq Session /\ \A s \in frame[h].found : Ended(s)
    BY <1>3 DEF Block, HandlerOk, TypeOK, Frame
  <2> QED BY <1>1, <1>3, <2>1 DEF Block, BlockedOk, TypeOK
<1>4. blocked' \subseteq blocked \/ \E h \in Handler : Block(h)
  BY RequestRows DEF Next, vars, Proceed, CreateSession, Sign, Revoke, Find, EndAll, Fail,
    Expire, AccessLapses, BlockLapses, Cleanup
<1> QED BY <1>2, <1>3, <1>4

\* Every step keeps the invariant.
LEMMA NextSInv == SInv /\ [Next]_vars => SInv'
PROOF
<1> SUFFICES ASSUME SInv, [Next]_vars PROVE SInv' OBVIOUS
<1>1. TypeOK /\ \A h \in Handler : HandlerOk(h) BY DEF SInv
<1>2. \A s \in Session : RowChange(s) BY <1>1, RowStep
<1>3. ParentsOk' BY ParentsKept
<1>4. BlockedOk' BY BlockedKept
<1>5. ASSUME NEW h \in Handler, Request(h) \/ Proceed(h) \/ Fail(h)
      PROVE  TypeOK' /\ \A g \in Handler : HandlerOk(g)'
  <2>1. TypeOK' BY <1>1, <1>5, RequestType, ProceedType
  <2>2. HandlerOk(h)' BY <1>1, <1>5, RequestKnows, ProceedKnows
  <2>3. ASSUME NEW g \in Handler, g # h PROVE HandlerOk(g)'
    BY <1>1, <1>2, <1>5, <2>3, OneMoves, OthersKnow
  <2> QED BY <2>1, <2>2, <2>3
<1>6. ASSUME (\E s \in Session : Expire(s) \/ AccessLapses(s) \/ BlockLapses(s)) \/ Cleanup
      PROVE  TypeOK' /\ \A g \in Handler : HandlerOk(g)'
  <2>1. TypeOK' BY <1>1, <1>6, TimeType
  <2>2. UNCHANGED <<pc, frame>> BY <1>6 DEF Expire, AccessLapses, BlockLapses, Cleanup
  <2> QED BY <1>1, <1>2, <2>1, <2>2, OthersKnow
<1>7. CASE UNCHANGED vars
  <2>1. TypeOK' BY <1>1, <1>7 DEF TypeOK, vars
  <2>2. UNCHANGED <<pc, frame>> BY <1>7 DEF vars
  <2> QED BY <1>1, <1>2, <1>3, <1>4, <2>1, <2>2, OthersKnow DEF SInv
<1>8. CASE Next
  BY <1>3, <1>4, <1>5, <1>6, <1>8 DEF Next, SInv
<1> QED BY <1>7, <1>8

\* The invariant holds throughout: every handler's knowledge survives the others.
THEOREM SessionsInductive == Spec => []SInv
PROOF BY InitSInv, NextSInv, PTL DEF Spec

\* Every variable keeps its type.
THEOREM SessionsTypeCorrect == Spec => []TypeOK
PROOF
<1>1. SInv => TypeOK BY DEF SInv
<1> QED BY <1>1, SessionsInductive, PTL

\* A rotated session and its successor are never both active (rotate).
THEOREM NeverBothActive == Spec => []NeverBoth
PROOF
<1>1. SInv => NeverBoth BY DEF SInv, ParentsOk, Ended, NeverBoth
<1> QED BY <1>1, SessionsInductive, PTL

\* The blocklist keeps out no session that is still active (blocklistSessions).
THEOREM OnlyRevokedBlocked == Spec => []BlockedIsRevoked
PROOF
<1>1. SInv => BlockedIsRevoked BY DEF SInv, BlockedOk, Ended, BlockedIsRevoked, Active
<1> QED BY <1>1, SessionsInductive, PTL

\* The reason of a revocation is final (revokeSession, revokeAllForUser).
THEOREM ReasonIsFinal == Spec => ReasonKept
PROOF
<1>1. SInv /\ [Next]_vars =>
        [\A s \in Session : row[s] \in Reason => row'[s] \in {row[s], "deleted"}]_vars
  BY RowStep DEF SInv, RowChange, Reason
<1> QED BY <1>1, SessionsInductive, PTL DEF Spec, ReasonKept

-----------------------------------------------------------------------------
(* What depends on which requests overlapped: what is so, when all is quiet  *)
(* and nothing failed, of the sessions whose creation no other request       *)
(* overlapped.  Two handlers at work are both marked (Overlap).  So a        *)
(* handler that is not marked has been alone since it began: what it read is *)
(* still so, and what it creates was not there for another handler to miss.  *)

Working(h) == pc[h] # "idle"
Overlap == \A g, h \in Handler : g # h /\ Working(g) /\ Working(h) => h \in met

\* h is rotating p, and will create a session from it.
Rotates(h, p) ==
  /\ frame[h].s = p
  /\ pc[h] = "create" \/ (pc[h] \in {"revoke", "block"} /\ frame[h].rotating)

\* h is about to create a session, or will be after revoking one.
Creates(h) == pc[h] = "create" \/ (pc[h] \in {"revoke", "block"} /\ frame[h].rotating)

\* rotate: from one session, one successor.
RotationOk ==
  \A p \in Session :
    /\ \A h \in Handler \ met : Rotates(h, p) => \A u \in Session : parent[u] # p
    /\ \A s \in Session \ raced : parent[s] = p => \A h \in Handler : ~ Rotates(h, p)

\* login and refresh read that the user is ACTIVE; updateStatus then overlaps them.
CreatorOk == \A h \in Handler \ met : Creates(h) => status = "ACTIVE"

\* A token is signed once.
SignOk ==
  \A h \in Handler : pc[h] = "sign" =>
    /\ frame[h].s \in Session /\ row[frame[h].s] # "none" /\ access[frame[h].s] = "none"
    /\ \A g \in Handler \ {h} : pc[g] = "sign" => frame[g].s # frame[h].s
NotYet == \A s \in Session : row[s] = "none" => access[s] = "none"

\* revokeAllForUser misses only what overlapping requests created.
FoundOk == \A h \in Handler : pc[h] = "endall" => Active \ frame[h].keep \subseteq frame[h].found \cup raced

\* A revoked session is on the blocklist, or about to be, or its token has run out.
Out(s) == s \in blocked \/ access[s] = "lapsed" \/ \E h \in Handler : pc[h] = "block" /\ s \in frame[h].found
RevokedOut == fails = 0 => \A s \in Session \ raced : row[s] \in Reason => Out(s)

\* While a banned user has a session left, a revokeAllForUser is on its way.
Ending == \E h \in Handler : pc[h] \in {"find", "endall"} /\ frame[h].keep = {}
BannedOut == fails = 0 /\ status = "BANNED" => Active \subseteq raced \/ Ending

RaceInv == /\ SInv /\ Overlap /\ RotationOk /\ OneSuccessor /\ CreatorOk /\ SignOk /\ NotYet
           /\ FoundOk /\ RevokedOut /\ BannedOut

-----------------------------------------------------------------------------
(* What a request that begins has read, and what a handler that goes on     *)
(* still is.                                                                *)

\* updateStatus to ACTIVE: nothing else is written.
Reinstates ==
  /\ status' = "ACTIVE"
  /\ UNCHANGED <<row, expired, access, blocked, pc, frame, parent, met, raced, fails, ticks>>

\* How a request begins.
Begins(h, label, f) ==
  /\ Begin(h, label, f)
  /\ \/ label = "create" /\ f = NoFrame /\ status = "ACTIVE" /\ status' = status
     \/ /\ label = "revoke" /\ f.s \in Session /\ row[f.s] = "active"
        /\ f.rotating => status = "ACTIVE"
        /\ status' = status
     \/ label = "find" /\ (status' = status \/ f.keep = {})

\* Every request begins in one of these ways.
LEMMA RequestBegins ==
  ASSUME NEW h \in Handler, Request(h)
  PROVE  Reinstates \/ \E label, f : Begins(h, label, f)
<1>1. ASSUME NEW s \in Session, NEW r, NEW b, row[s] = "active", RevokeOne(h, s, r, b),
             b => status = "ACTIVE", status' = status
      PROVE  \E label, f : Begins(h, label, f)
  <2>1. PICK f : f = [NoFrame EXCEPT !.s = s, !.reason = r, !.rotating = b] /\ Begin(h, "revoke", f)
    BY <1>1 DEF RevokeOne
  <2>2. f.s = s /\ f.rotating = b
    BY <2>1 DEF NoFrame
  <2>3. Begins(h, "revoke", f)
    BY <1>1, <2>1, <2>2 DEF Begins
  <2>4. QED
    BY <2>3
<1>2. ASSUME NEW r, NEW k, RevokeAll(h, r, k), status' = status \/ k = {}
      PROVE  \E label, f : Begins(h, label, f)
  <2>1. PICK f : f = [NoFrame EXCEPT !.reason = r, !.keep = k] /\ Begin(h, "find", f)
    BY <1>2 DEF RevokeAll
  <2>2. f.keep = k
    BY <2>1 DEF NoFrame
  <2>3. Begins(h, "find", f)
    BY <1>2, <2>1, <2>2 DEF Begins
  <2>4. QED
    BY <2>3
<1>3. CASE Login(h)
  BY <1>3 DEF Login, Begins
<1>4. CASE \E s \in Session : RefreshRotate(h, s) \/ RefreshExpired(h, s)
                              \/ Logout(h, s) \/ RevokeOnBehalf(h, s)
  BY <1>1, <1>4 DEF RefreshRotate, RefreshExpired, Logout, RevokeOnBehalf
<1>5. CASE \E s \in Session : RefreshReplay(h, s) \/ RefreshBanned(h, s)
                              \/ LogoutAll(h, s) \/ ChangePassword(h, s)
  BY <1>2, <1>5 DEF RefreshReplay, RefreshBanned, LogoutAll, ChangePassword
<1>6. CASE ResetPassword(h)
  BY <1>2, <1>6 DEF ResetPassword
<1>7. CASE UpdateStatus(h)
  BY <1>2, <1>7 DEF UpdateStatus, Reinstates
<1>8. QED
  BY <1>3, <1>4, <1>5, <1>6, <1>7 DEF Request

\* A handler that goes on was at work, keeps its mark while it works, and claims no
\* session it did not claim before.
LEMMA GoesOn ==
  ASSUME TypeOK, NEW h \in Handler, Proceed(h) \/ Fail(h)
  PROVE  /\ Working(h) /\ status' = status
         /\ \A g \in Handler \ {h} : g \in met <=> g \in met'
         /\ Working(h)' => met' = met
         /\ \A p \in Session : Rotates(h, p)' => Rotates(h, p)
         /\ Creates(h)' => Creates(h)
<1>0. frame[h] \in Frame /\ pc \in [Handler -> Label] /\ frame \in [Handler -> Frame]
  BY DEF TypeOK, Label
<1> USE DEF Working, Rotates, Creates
<1>1. CASE CreateSession(h)
  BY <1>0, <1>1 DEF CreateSession, Goto
<1>2. CASE Sign(h)
  BY <1>0, <1>2 DEF Sign, Return
<1>3. ASSUME Continue(h), pc[h] \in {"revoke", "block"}
      PROVE  /\ \A g \in Handler \ {h} : g \in met <=> g \in met'
             /\ Working(h)' => met' = met
             /\ \A p \in Session : Rotates(h, p)' => Rotates(h, p)
             /\ Creates(h)' => Creates(h)
  <2>1. CASE frame[h].rotating
    BY <1>0, <1>3, <2>1 DEF Continue, Goto, NoFrame
  <2>2. CASE ~ frame[h].rotating
    BY <1>0, <1>3, <2>2 DEF Continue, Return
  <2>3. QED
    BY <2>1, <2>2
<1>4. CASE Revoke(h)
  <2>1. pc[h] = "revoke" /\ status' = status
    BY <1>4 DEF Revoke
  <2>2. CASE Continue(h)
    BY <1>3, <2>1, <2>2
  <2>3. CASE Goto(h, "block", [frame[h] EXCEPT !.found = {frame[h].s}, !.reason = "ENDED"])
    BY <1>0, <2>1, <2>3 DEF Goto, Frame
  <2>4. QED
    BY <1>4, <2>2, <2>3 DEF Revoke
<1>5. CASE Find(h)
  BY <1>0, <1>5 DEF Find, Goto, Return
<1>6. CASE EndAll(h)
  BY <1>0, <1>6 DEF EndAll, Goto, NoFrame
<1>7. CASE Block(h)
  BY <1>3, <1>7 DEF Block
<1>8. CASE Fail(h)
  BY <1>0, <1>8 DEF Fail, Return
<1>9. QED
  BY <1>1, <1>2, <1>4, <1>5, <1>6, <1>7, <1>8 DEF Proceed

\* Time moves no handler and creates no session.
Passes == /\ UNCHANGED <<status, pc, frame, parent, met, raced, fails>>
          /\ (\E s \in Session : Expire(s) \/ AccessLapses(s) \/ BlockLapses(s)) \/ Cleanup

\* A step begins a request, goes on with one, reinstates the user, or lets time pass.
LEMMA Steps ==
  ASSUME Next
  PROVE  \/ Passes
         \/ Reinstates
         \/ \E h \in Handler : \/ \E label, f : Begins(h, label, f)
                               \/ Proceed(h) \/ Fail(h)
BY RequestBegins DEF Next, Passes, Expire, AccessLapses, BlockLapses, Cleanup

\* A request that begins marks itself and all others at work, if there are any.
LEMMA BeginMarks ==
  ASSUME TypeOK, NEW h \in Handler, NEW label, NEW f, Begins(h, label, f)
  PROVE  /\ ~ Working(h) /\ pc'[h] = label /\ frame'[h] = f /\ met \subseteq met'
         /\ \A g \in Handler \ {h} : /\ pc'[g] = pc[g] /\ frame'[g] = frame[g]
                                     /\ Working(g) => g \in met' /\ h \in met'
         /\ UNCHANGED <<row, expired, access, blocked, parent, raced, fails, ticks>>
BY DEF TypeOK, Begins, Begin, Working

-----------------------------------------------------------------------------
\* Two handlers at work are both marked.
LEMMA OverlapKept ==
  ASSUME SInv, Overlap, Next
  PROVE  Overlap'
<1> USE DEF SInv, Working
<1>1. CASE Passes \/ Reinstates
  BY <1>1 DEF Passes, Reinstates, Overlap
<1>2. ASSUME NEW h \in Handler, NEW label, NEW f, Begins(h, label, f) PROVE Overlap'
  BY <1>2, BeginMarks DEF Overlap
<1>3. ASSUME NEW h \in Handler, Proceed(h) \/ Fail(h) PROVE Overlap'
  BY <1>3, GoesOn, OneMoves DEF Overlap
<1>4. QED
  BY <1>1, <1>2, <1>3, Steps

\* What CreateSession writes.
LEMMA Created ==
  ASSUME SInv, Overlap, NEW h \in Handler, CreateSession(h)
  PROVE  \E s \in Session :
           /\ row[s] = "none" /\ row' = [row EXCEPT ![s] = "active"]
           /\ parent' = [parent EXCEPT ![s] = frame[h].s]
           /\ raced \subseteq raced' /\ raced' \subseteq raced \cup {s}
           /\ s \in raced' \/ h \notin met
           /\ s \notin raced' => \A g \in Handler \ {h} : ~ Working(g)
           /\ pc[h] = "create" /\ pc'[h] = "sign" /\ frame'[h].s = s /\ met' = met
           /\ UNCHANGED <<access, blocked, status, fails>>
<1>1. PICK s \in Session :
        /\ row[s] = "none"
        /\ row' = [row EXCEPT ![s] = "active"]
        /\ parent' = [parent EXCEPT ![s] = frame[h].s]
        /\ raced' = IF h \in met THEN raced \cup {s} ELSE raced
        /\ Goto(h, "sign", [NoFrame EXCEPT !.s = s])
  BY DEF CreateSession
<1>2. pc[h] = "create" /\ UNCHANGED <<access, blocked, status, fails>>
  BY DEF CreateSession
<1>3. pc'[h] = "sign" /\ frame'[h].s = s /\ met' = met
  BY <1>1 DEF SInv, TypeOK, Goto, NoFrame
<1>4. s \in raced' \/ h \notin met
  BY <1>1
<1>5. h \notin met => \A g \in Handler \ {h} : ~ Working(g)
  BY <1>2 DEF Overlap, Working
<1>6. QED
  BY <1>1, <1>2, <1>3, <1>4, <1>5

\* All other steps leave the parents and the marks of sessions alone.
LEMMA ParentsStill ==
  ASSUME NEW h \in Handler, Proceed(h) \/ Fail(h), ~ CreateSession(h)
  PROVE  UNCHANGED <<parent, raced>>
BY DEF Proceed, Sign, Revoke, Find, EndAll, Block, Fail

\* A handler that stands still claims what it claimed.
LEMMA ClaimsKept ==
  ASSUME NEW g \in Handler, pc'[g] = pc[g], frame'[g] = frame[g]
  PROVE  /\ \A p \in Session : Rotates(g, p)' <=> Rotates(g, p)
         /\ Creates(g)' <=> Creates(g)
BY DEF Rotates, Creates

\* From one session, one successor, unless handlers overlapped (rotate).
LEMMA RotationKept ==
  ASSUME SInv, Overlap, RotationOk, Next
  PROVE  RotationOk'
<1>0. TypeOK /\ ParentsOk /\ \A h \in Handler : HandlerOk(h)
  BY DEF SInv
<1>1. CASE Passes \/ Reinstates
  BY <1>1 DEF Passes, Reinstates, RotationOk, Rotates
<1>2. ASSUME NEW h \in Handler, NEW label, NEW f, Begins(h, label, f) PROVE RotationOk'
  <2>1. /\ pc'[h] = label /\ frame'[h] = f /\ met \subseteq met' /\ UNCHANGED <<parent, raced>>
        /\ \A g \in Handler \ {h} : pc'[g] = pc[g] /\ frame'[g] = frame[g]
    BY <1>0, <1>2, BeginMarks
  <2>2. ASSUME NEW p \in Session, Rotates(h, p)' PROVE \A u \in Session : parent[u] # p
    <3>1. row[p] = "active"
      BY <1>2, <2>1, <2>2, SessionsAssumption DEF Begins, Rotates, NoFrame
    <3>2. QED
      BY <1>0, <3>1, SessionsAssumption DEF ParentsOk, Ended
  <2>3. \A g \in Handler \ {h} : \A p \in Session : Rotates(g, p)' <=> Rotates(g, p)
    BY <2>1, ClaimsKept
  <2>4. QED
    BY <2>1, <2>2, <2>3 DEF RotationOk
<1>3. ASSUME NEW h \in Handler, Proceed(h) \/ Fail(h), ~ CreateSession(h) PROVE RotationOk'
  <2>1. UNCHANGED <<parent, raced>>
    BY <1>3, ParentsStill
  <2>2. \A g \in Handler \ {h} : /\ \A p \in Session : Rotates(g, p)' <=> Rotates(g, p)
                                 /\ g \in met <=> g \in met'
    BY <1>0, <1>3, OneMoves, ClaimsKept, GoesOn
  <2>3. \A p \in Session : Rotates(h, p)' => Rotates(h, p) /\ met' = met
    BY <1>0, <1>3, GoesOn DEF Rotates, Working
  <2>4. QED
    BY <2>1, <2>2, <2>3 DEF RotationOk
<1>4. ASSUME NEW h \in Handler, CreateSession(h) PROVE RotationOk'
  <2>1. PICK s \in Session :
          /\ parent' = [parent EXCEPT ![s] = frame[h].s]
          /\ raced \subseteq raced'
          /\ s \notin raced' => \A g \in Handler \ {h} : ~ Working(g)
          /\ pc[h] = "create" /\ pc'[h] = "sign" /\ met' = met
    BY <1>4, Created DEF SInv
  <2>2. \A g \in Handler \ {h} : \A p \in Session : Rotates(g, p)' <=> Rotates(g, p)
    BY <1>0, <1>4, OneMoves, ClaimsKept DEF Proceed
  <2>3. \A p \in Session : ~ Rotates(h, p)'
    BY <2>1 DEF Rotates
  <2>4. \A g \in Handler \ {h} : Working(g) => g \in met
    BY <2>1 DEF Overlap, Working
  <2>5. \A g \in Handler, p \in Session : Rotates(g, p) => Working(g)
    BY DEF Rotates, Working
  <2>6. \A t \in Session \ {s} : parent'[t] = parent[t]
    BY <1>0, <2>1 DEF TypeOK
  <2>7. ASSUME NEW p \in Session, NEW t \in Session \ raced', parent'[t] = p,
               NEW g \in Handler, Rotates(g, p)'
        PROVE  FALSE
    <3>1. g # h /\ Rotates(g, p) /\ Working(g)
      BY <2>2, <2>3, <2>5, <2>7
    <3>2. t # s
      BY <2>1, <3>1
    <3>3. parent[t] = p /\ t \in Session \ raced
      BY <2>1, <2>6, <2>7, <3>2
    <3>4. QED
      BY <3>1, <3>3 DEF RotationOk
  <2>8. \A p \in Session, g \in Handler \ met' : ~ Rotates(g, p)'
    BY <2>1, <2>2, <2>3, <2>4, <2>5
  <2>9. QED
    BY <2>7, <2>8 DEF RotationOk
<1>5. QED
  BY <1>1, <1>2, <1>3, <1>4, Steps

\* And so no two sessions share a parent, if one of them was created undisturbed.
LEMMA SuccessorKept ==
  ASSUME SInv, Overlap, RotationOk, OneSuccessor, Next
  PROVE  OneSuccessor'
<1>0. TypeOK
  BY DEF SInv
<1>1. CASE UNCHANGED <<parent, raced>>
  BY <1>1 DEF OneSuccessor
<1>2. ASSUME NEW h \in Handler, CreateSession(h) PROVE OneSuccessor'
  <2>1. PICK s \in Session :
          /\ parent' = [parent EXCEPT ![s] = frame[h].s] /\ raced \subseteq raced'
          /\ s \in raced' \/ h \notin met
          /\ pc[h] = "create"
    BY <1>2, Created
  <2>2. frame[h].s \in Session \cup {NoSession}
    BY <1>0 DEF TypeOK, Frame
  <2>3. \A t \in Session \ {s} : parent'[t] = parent[t]
    BY <1>0, <2>1 DEF TypeOK
  <2>4. parent'[s] = frame[h].s
    BY <1>0, <2>1 DEF TypeOK
  <2>5. frame[h].s \in Session => Rotates(h, frame[h].s)
    BY <2>1 DEF Rotates
  <2>6. h \notin met /\ frame[h].s # NoSession => \A u \in Session : parent[u] # frame[h].s
    BY <2>2, <2>5 DEF RotationOk
  <2>7. frame[h].s # NoSession => \A t \in Session \ raced : parent[t] # frame[h].s
    BY <2>2, <2>5 DEF RotationOk
  <2>8. QED
    BY <2>1, <2>3, <2>4, <2>6, <2>7 DEF OneSuccessor
<1>3. ASSUME NEW h \in Handler, Proceed(h) \/ Fail(h) PROVE OneSuccessor'
  BY <1>1, <1>2, <1>3, ParentsStill
<1>4. CASE Passes \/ Reinstates
  BY <1>1, <1>4 DEF Passes, Reinstates
<1>5. ASSUME NEW h \in Handler, NEW label, NEW f, Begins(h, label, f) PROVE OneSuccessor'
  BY <1>0, <1>1, <1>5, BeginMarks
<1>6. QED
  BY <1>3, <1>4, <1>5, Steps

-----------------------------------------------------------------------------
(* Banned users. *)

\* Who is about to create a session has been overlapped since the user was banned.
LEMMA CreatorKept ==
  ASSUME SInv, Overlap, CreatorOk, Next
  PROVE  CreatorOk'
<1>0. TypeOK
  BY DEF SInv
<1>1. CASE Passes \/ Reinstates
  BY <1>1 DEF Passes, Reinstates, CreatorOk, Creates
<1>2. ASSUME NEW h \in Handler, NEW label, NEW f, Begins(h, label, f) PROVE CreatorOk'
  <2>1. /\ pc'[h] = label /\ frame'[h] = f /\ met \subseteq met'
        /\ \A g \in Handler \ {h} : /\ pc'[g] = pc[g] /\ frame'[g] = frame[g]
                                    /\ Working(g) => g \in met'
    BY <1>0, <1>2, BeginMarks
  <2>2. Creates(h)' => status' = "ACTIVE"
    BY <1>2, <2>1 DEF Begins, Creates
  <2>3. \A g \in Handler \ {h} : Creates(g)' => Working(g)
    BY <2>1, ClaimsKept DEF Creates, Working
  <2>4. QED
    BY <2>1, <2>2, <2>3 DEF CreatorOk
<1>3. ASSUME NEW h \in Handler, Proceed(h) \/ Fail(h) PROVE CreatorOk'
  <2>1. status' = status
    BY <1>0, <1>3, GoesOn
  <2>2. \A g \in Handler \ {h} : (Creates(g)' <=> Creates(g)) /\ (g \in met <=> g \in met')
    BY <1>0, <1>3, OneMoves, ClaimsKept, GoesOn
  <2>3. Creates(h)' => Creates(h) /\ met' = met
    BY <1>0, <1>3, GoesOn DEF Creates, Working
  <2>4. QED
    BY <2>1, <2>2, <2>3 DEF CreatorOk
<1>4. QED
  BY <1>1, <1>2, <1>3, Steps

\* Only CreateSession makes a session active.
LEMMA ActiveStep ==
  ASSUME SInv, Next
  PROVE  \A s \in Active' : s \in Active \/ (row[s] = "none" /\ \E h \in Handler : CreateSession(h))
<1>1. \A s \in Session : RowChange(s)
  BY RowStep DEF SInv
<1>2. (\A s \in Session : row[s] = "none" => row'[s] # "active") \/ \E h \in Handler : CreateSession(h)
  <2>1. ASSUME NEW h \in Handler, NEW label, NEW f, Begins(h, label, f) PROVE row' = row
    BY <2>1, BeginMarks DEF SInv
  <2>2. ASSUME NEW h \in Handler, Revoke(h)
        PROVE  \A s \in Session : row[s] = "none" => row'[s] # "active"
    BY <2>2 DEF Revoke, SInv, TypeOK
  <2>3. ASSUME NEW h \in Handler, EndAll(h)
        PROVE  \A s \in Session : row[s] = "none" => row'[s] # "active"
    BY <2>3 DEF EndAll, Active
  <2>4. CASE Passes \/ Reinstates
    BY <2>4 DEF Passes, Reinstates, Expire, AccessLapses, BlockLapses, Cleanup
  <2>5. ASSUME NEW h \in Handler, Sign(h) \/ Find(h) \/ Block(h) \/ Fail(h) PROVE row' = row
    BY <2>5 DEF Sign, Find, Block, Fail
  <2>6. QED
    BY <2>1, <2>2, <2>3, <2>4, <2>5, Steps DEF Proceed
<1>3. QED
  BY <1>1, <1>2 DEF Active, RowChange

\* While a banned user has a session left that no request overlapped, one is ending all.
LEMMA BannedKept ==
  ASSUME SInv, Overlap, CreatorOk, BannedOut, Next
  PROVE  BannedOut'
<1>0. TypeOK
  BY DEF SInv
<1> SUFFICES ASSUME fails' = 0, status' = "BANNED"
             PROVE  (Active \subseteq raced)' \/ Ending'
  BY DEF BannedOut
<1>1. CASE Passes
  <2>1. UNCHANGED <<status, pc, frame, raced, fails>>
    BY <1>1 DEF Passes
  <2>2. \A h \in Handler : ~ CreateSession(h)
    BY <2>1, <1>0 DEF CreateSession, Goto, TypeOK
  <2>3. Active' \subseteq Active
    BY <2>2, ActiveStep
  <2>4. QED
    BY <2>1, <2>3 DEF BannedOut, Ending
<1>2. CASE Reinstates
  BY <1>2 DEF Reinstates
<1>3. ASSUME NEW h \in Handler, NEW label, NEW f, Begins(h, label, f)
      PROVE  (Active \subseteq raced)' \/ Ending'
  <2>1. /\ ~ Working(h) /\ pc'[h] = label /\ frame'[h] = f
        /\ \A g \in Handler \ {h} : pc'[g] = pc[g] /\ frame'[g] = frame[g]
        /\ UNCHANGED <<row, raced, fails>>
    BY <1>0, <1>3, BeginMarks
  <2>2. CASE status' = status
    BY <2>1, <2>2 DEF BannedOut, Ending, Active, Working
  <2>3. CASE status' # status
    BY <1>3, <2>1, <2>3 DEF Begins, Ending
  <2>4. QED
    BY <2>2, <2>3
<1>4. ASSUME NEW h \in Handler, Proceed(h)
      PROVE  (Active \subseteq raced)' \/ Ending'
  <2>1. status' = status /\ Working(h) /\ fails' = fails
    BY <1>0, <1>4, GoesOn DEF Proceed, CreateSession, Sign, Revoke, Find, EndAll, Block
  <2>2. \A g \in Handler \ {h} : pc'[g] = pc[g] /\ frame'[g] = frame[g]
    BY <1>0, <1>4, OneMoves
  <2>3. Active \subseteq raced \/ Ending
    BY <2>1 DEF BannedOut
  <2>4. CASE CreateSession(h)
    <3>1. PICK s \in Session :
            /\ row' = [row EXCEPT ![s] = "active"]
            /\ raced \subseteq raced'
            /\ s \in raced' \/ h \notin met
            /\ pc[h] = "create"
      BY <2>4, Created
    <3>2. h \in met
      BY <2>1, <3>1 DEF CreatorOk, Creates
    <3>3. Active' \subseteq Active \cup {s}
      BY <1>0, <3>1 DEF Active, TypeOK
    <3>4. Ending => Ending'
      BY <2>2, <3>1 DEF Ending
    <3>5. QED
      BY <2>3, <3>1, <3>2, <3>3, <3>4
  <2>5. CASE Find(h)
    <3>1. UNCHANGED <<row, raced>> /\ pc[h] = "find"
      BY <2>5 DEF Find
    <3>2. CASE frame[h].keep = {} /\ Active # {}
      <4>1. Goto(h, "endall", [frame[h] EXCEPT !.found = Active \ frame[h].keep])
        BY <2>5, <3>2 DEF Find
      <4>2. frame[h] \in Frame
        BY <1>0 DEF TypeOK
      <4>3. pc'[h] = "endall" /\ frame'[h].keep = {}
        BY <1>0, <3>2, <4>1, <4>2 DEF Goto, TypeOK, Frame
      <4>4. QED
        BY <4>3 DEF Ending
    <3>3. CASE frame[h].keep # {}
      BY <2>2, <2>3, <3>1, <3>3 DEF Ending, Active
    <3>4. CASE Active = {}
      BY <3>1, <3>4 DEF Active
    <3>5. QED
      BY <3>2, <3>3, <3>4
  <2>6. CASE EndAll(h)
    <3>1. raced' = raced /\ pc[h] = "endall" /\ frame[h].reason \in Reason
      BY <1>0, <2>6 DEF EndAll, TypeOK, Frame
    <3>2. Active' = Active \cap frame[h].keep
      BY <2>6, <3>1 DEF EndAll, Active, Reason
    <3>3. CASE frame[h].keep = {}
      BY <3>2, <3>3
    <3>4. CASE frame[h].keep # {}
      BY <2>2, <2>3, <3>1, <3>2, <3>4 DEF Ending
    <3>5. QED
      BY <3>3, <3>4
  <2>7. CASE Sign(h) \/ Revoke(h) \/ Block(h)
    <3>1. raced' = raced /\ pc[h] \notin {"find", "endall", "create"}
      BY <2>7 DEF Sign, Revoke, Block
    <3>2. Ending => Ending'
      BY <2>2, <3>1 DEF Ending
    <3>3. Active' \subseteq Active
      BY <1>0, <2>7 DEF Sign, Revoke, Block, Active, TypeOK, Frame, Reason
    <3>4. QED
      BY <2>3, <3>1, <3>2, <3>3
  <2>8. QED
    BY <1>4, <2>4, <2>5, <2>6, <2>7 DEF Proceed
<1>5. ASSUME NEW h \in Handler, Fail(h) PROVE FALSE
  BY <1>0, <1>5 DEF Fail, TypeOK
<1>6. QED
  BY <1>1, <1>2, <1>3, <1>4, <1>5, Steps

-----------------------------------------------------------------------------
(* Access tokens. *)

\* A row that is there stays there.
LEMMA StaysThere ==
  ASSUME SInv, Next
  PROVE  \A s \in Session : row[s] # "none" => row'[s] # "none"
BY RowStep DEF SInv, RowChange, Reason

\* Whose access tokens a step touches.
LEMMA AccessStep ==
  ASSUME SInv, Next, NEW s \in Session, access[s] = "none"
  PROVE  access'[s] = "none" \/ \E h \in Handler : Sign(h) /\ frame[h].s = s
<1>0. TypeOK
  BY DEF SInv
<1>1. CASE Passes \/ Reinstates
  BY <1>0, <1>1 DEF Passes, Reinstates, Expire, AccessLapses, BlockLapses, Cleanup, TypeOK
<1>2. ASSUME NEW h \in Handler, NEW label, NEW f, Begins(h, label, f) PROVE access' = access
  BY <1>0, <1>2, BeginMarks
<1>3. ASSUME NEW h \in Handler, Proceed(h) \/ Fail(h), ~ Sign(h) PROVE access' = access
  BY <1>3 DEF Proceed, CreateSession, Revoke, Find, EndAll, Block, Fail
<1>4. ASSUME NEW h \in Handler, Sign(h), frame[h].s # s PROVE access'[s] = access[s]
  BY <1>0, <1>4 DEF Sign, TypeOK
<1>5. QED
  BY <1>1, <1>2, <1>3, <1>4, Steps

\* A session is signed for once, by the handler that created it.
LEMMA SignKept ==
  ASSUME SInv, Overlap, SignOk, NotYet, Next
  PROVE  SignOk' /\ NotYet'
<1>0. TypeOK
  BY DEF SInv
<1>1. NotYet'
  <2>1. ASSUME NEW s \in Session, row'[s] = "none" PROVE access'[s] = "none"
    <3>1. row[s] = "none" /\ access[s] = "none"
      BY <2>1, StaysThere DEF NotYet
    <3>2. \A h \in Handler : Sign(h) => frame[h].s # s
      BY <3>1 DEF Sign, SignOk
    <3>3. QED
      BY <3>1, <3>2, AccessStep
  <2>2. QED
    BY <2>1 DEF NotYet
<1>2. ASSUME NEW g \in Handler, pc[g] = "sign", pc'[g] = "sign", frame'[g] = frame[g]
      PROVE  /\ frame'[g].s \in Session /\ row'[frame[g].s] # "none"
             /\ access'[frame[g].s] = "none"
  <2>1. frame[g].s \in Session /\ row[frame[g].s] # "none" /\ access[frame[g].s] = "none"
    BY <1>2 DEF SignOk
  <2>2. ~ Sign(g)
    BY <1>0, <1>2 DEF Sign, Return, TypeOK
  <2>3. \A h \in Handler : Sign(h) => frame[h].s # frame[g].s
    BY <1>2, <2>2 DEF SignOk, Sign
  <2>4. QED
    BY <1>2, <2>1, <2>3, StaysThere, AccessStep
<1>3. CASE Passes \/ Reinstates
  <2>1. UNCHANGED <<pc, frame>>
    BY <1>3 DEF Passes, Reinstates
  <2>2. SignOk'
    BY <1>2, <2>1 DEF SignOk
  <2>3. QED
    BY <1>1, <2>2
<1>4. ASSUME NEW h \in Handler, pc'[h] # "sign",
             \A g \in Handler \ {h} : pc'[g] = pc[g] /\ frame'[g] = frame[g]
      PROVE  SignOk'
  <2> SUFFICES ASSUME NEW g \in Handler, pc'[g] = "sign"
               PROVE  /\ frame'[g].s \in Session /\ row'[frame'[g].s] # "none"
                      /\ access'[frame'[g].s] = "none"
                      /\ \A k \in Handler \ {g} : pc'[k] = "sign" => frame'[k].s # frame'[g].s
    BY DEF SignOk
  <2>1. g # h /\ pc[g] = "sign" /\ frame'[g] = frame[g]
    BY <1>4
  <2>2. QED
    BY <1>2, <1>4, <2>1 DEF SignOk
<1>5. ASSUME NEW h \in Handler, NEW label, NEW f, Begins(h, label, f) PROVE SignOk'
  <2>1. /\ pc'[h] # "sign"
        /\ \A g \in Handler \ {h} : pc'[g] = pc[g] /\ frame'[g] = frame[g]
    BY <1>0, <1>5, BeginMarks DEF Begins
  <2>2. QED
    BY <1>4, <2>1
<1>6. ASSUME NEW h \in Handler, Proceed(h) \/ Fail(h), ~ CreateSession(h) PROVE SignOk'
  <2>1. pc'[h] # "sign"
    BY <1>0, <1>6 DEF TypeOK, Proceed, Sign, Revoke, Find, EndAll, Block, Fail, Continue, Goto, Return
  <2>2. QED
    BY <1>0, <1>4, <1>6, <2>1, OneMoves
<1>7. ASSUME NEW h \in Handler, CreateSession(h) PROVE SignOk'
  <2>1. PICK s \in Session :
          /\ row[s] = "none" /\ row' = [row EXCEPT ![s] = "active"]
          /\ pc[h] = "create" /\ pc'[h] = "sign" /\ frame'[h].s = s /\ access' = access
    BY <1>7, Created
  <2>2. \A g \in Handler \ {h} : pc'[g] = pc[g] /\ frame'[g] = frame[g]
    BY <1>0, <1>7, OneMoves DEF Proceed
  <2>3. row'[s] # "none" /\ access'[s] = "none"
    BY <1>0, <2>1 DEF TypeOK, NotYet
  <2>4. \A g \in Handler \ {h} : pc[g] = "sign" => frame[g].s # s
    BY <2>1 DEF SignOk
  <2> SUFFICES ASSUME NEW g \in Handler, pc'[g] = "sign"
               PROVE  /\ frame'[g].s \in Session /\ row'[frame'[g].s] # "none"
                      /\ access'[frame'[g].s] = "none"
                      /\ \A k \in Handler \ {g} : pc'[k] = "sign" => frame'[k].s # frame'[g].s
    BY DEF SignOk
  <2>5. CASE g = h
    BY <2>1, <2>2, <2>3, <2>4, <2>5
  <2>6. CASE g # h
    <3>1. pc[g] = "sign" /\ frame'[g] = frame[g]
      BY <2>2, <2>6
    <3>2. QED
      BY <1>2, <2>1, <2>2, <2>4, <2>6, <3>1 DEF SignOk
  <2>7. QED
    BY <2>5, <2>6
<1>8. QED
  BY <1>1, <1>3, <1>5, <1>6, <1>7, Steps

-----------------------------------------------------------------------------
(* Revocation. *)

\* revokeAllForUser revokes no session it has not read, unless it was created meanwhile.
LEMMA FoundKept ==
  ASSUME SInv, Overlap, FoundOk, Next
  PROVE  FoundOk'
<1>0. TypeOK
  BY DEF SInv
<1>1. CASE Passes \/ Reinstates
  <2>1. UNCHANGED <<pc, frame, raced>>
    BY <1>1 DEF Passes, Reinstates
  <2>2. \A h \in Handler : ~ CreateSession(h)
    BY <1>0, <2>1 DEF CreateSession, Goto, TypeOK
  <2>3. Active' \subseteq Active
    BY <2>2, ActiveStep
  <2>4. QED
    BY <2>1, <2>3 DEF FoundOk
<1>2. ASSUME NEW h \in Handler, NEW label, NEW f, Begins(h, label, f) PROVE FoundOk'
  <2>1. /\ pc'[h] # "endall" /\ UNCHANGED <<row, raced>>
        /\ \A g \in Handler \ {h} : pc'[g] = pc[g] /\ frame'[g] = frame[g]
    BY <1>0, <1>2, BeginMarks DEF Begins
  <2>2. QED
    BY <2>1 DEF FoundOk, Active
<1>3. ASSUME NEW h \in Handler, Proceed(h) \/ Fail(h), ~ CreateSession(h) PROVE FoundOk'
  <2>1. \A g \in Handler \ {h} : pc'[g] = pc[g] /\ frame'[g] = frame[g]
    BY <1>0, <1>3, OneMoves
  <2>2. raced' = raced
    BY <1>3, ParentsStill
  <2>3. Active' \subseteq Active
    <3>1. \A s \in Session : row[s] = "none" => row'[s] # "active"
      BY <1>0, <1>3 DEF Proceed, Sign, Revoke, Find, EndAll, Block, Fail, TypeOK, Active
    <3>2. QED
      BY <3>1, ActiveStep DEF Active
  <2>4. pc'[h] = "endall" => Active' \ frame'[h].keep \subseteq frame'[h].found
    <3>1. pc'[h] = "endall" => Find(h)
      BY <1>0, <1>3 DEF TypeOK, Proceed, Sign, Revoke, EndAll, Block, Fail, Continue, Goto, Return
    <3>2. ASSUME Find(h), pc'[h] = "endall"
          PROVE  frame'[h].keep = frame[h].keep /\ frame'[h].found = Active \ frame[h].keep
      <4>1. frame[h] \in Frame
        BY <1>0 DEF TypeOK
      <4>2. Goto(h, "endall", [frame[h] EXCEPT !.found = Active \ frame[h].keep])
        BY <1>0, <3>2 DEF Find, Return, TypeOK
      <4>3. QED
        BY <1>0, <4>1, <4>2 DEF Goto, Frame, TypeOK
    <3>3. QED
      BY <2>3, <3>1, <3>2
  <2>5. QED
    BY <2>1, <2>2, <2>3, <2>4 DEF FoundOk
<1>4. ASSUME NEW h \in Handler, CreateSession(h) PROVE FoundOk'
  <2>1. PICK s \in Session :
          /\ row' = [row EXCEPT ![s] = "active"]
          /\ raced \subseteq raced'
          /\ s \notin raced' => \A g \in Handler \ {h} : ~ Working(g)
          /\ pc'[h] = "sign"
    BY <1>4, Created
  <2>2. \A g \in Handler \ {h} : pc'[g] = pc[g] /\ frame'[g] = frame[g]
    BY <1>0, <1>4, OneMoves DEF Proceed
  <2>3. Active' \subseteq Active \cup {s}
    BY <1>0, <2>1 DEF Active, TypeOK
  <2>4. QED
    BY <2>1, <2>2, <2>3 DEF FoundOk, Working
<1>5. QED
  BY <1>1, <1>2, <1>3, <1>4, Steps

\* A session that is out stays out while nothing fails.
LEMMA OutKept ==
  ASSUME SInv, SignOk, Next, fails' = 0, NEW s \in Session, Out(s)
  PROVE  Out(s)'
<1>0. TypeOK
  BY DEF SInv
<1>1. CASE access[s] = "lapsed"
  <2>1. access'[s] = "lapsed"
    <3>1. CASE Passes \/ Reinstates
      BY <1>0, <1>1, <3>1 DEF Passes, Reinstates, Expire, AccessLapses, BlockLapses, Cleanup, TypeOK
    <3>2. ASSUME NEW h \in Handler, NEW label, NEW f, Begins(h, label, f) PROVE access' = access
      BY <1>0, <3>2, BeginMarks
    <3>3. ASSUME NEW h \in Handler, Proceed(h) \/ Fail(h), ~ Sign(h) PROVE access' = access
      BY <3>3 DEF Proceed, CreateSession, Revoke, Find, EndAll, Block, Fail
    <3>4. ASSUME NEW h \in Handler, Sign(h) PROVE access'[s] = access[s]
      BY <1>0, <1>1, <3>4 DEF Sign, SignOk, TypeOK
    <3>5. QED
      BY <1>1, <3>1, <3>2, <3>3, <3>4, Steps
  <2>2. QED
    BY <2>1 DEF Out
<1>2. CASE s \in blocked /\ access[s] # "lapsed"
  <2>1. s \in blocked'
    <3>1. CASE Passes \/ Reinstates
      BY <1>2, <3>1 DEF Passes, Reinstates, Expire, AccessLapses, BlockLapses, Cleanup
    <3>2. ASSUME NEW h \in Handler, NEW label, NEW f, Begins(h, label, f) PROVE blocked' = blocked
      BY <1>0, <3>2, BeginMarks
    <3>3. ASSUME NEW h \in Handler, Proceed(h) \/ Fail(h) PROVE blocked \subseteq blocked'
      BY <3>3 DEF Proceed, CreateSession, Sign, Revoke, Find, EndAll, Block, Fail
    <3>4. QED
      BY <1>2, <3>1, <3>2, <3>3, Steps
  <2>2. QED
    BY <2>1 DEF Out
<1>3. ASSUME NEW k \in Handler, pc[k] = "block", s \in frame[k].found PROVE Out(s)'
  <2>1. CASE pc'[k] = pc[k] /\ frame'[k] = frame[k]
    BY <1>3, <2>1 DEF Out
  <2>2. CASE Block(k)
    BY <1>3, <2>2 DEF Block, Out
  <2>3. (pc'[k] = pc[k] /\ frame'[k] = frame[k]) \/ Block(k)
    <3>1. CASE Passes \/ Reinstates
      BY <3>1 DEF Passes, Reinstates
    <3>2. ASSUME NEW h \in Handler, NEW label, NEW f, Begins(h, label, f)
          PROVE  pc'[k] = pc[k] /\ frame'[k] = frame[k]
      BY <1>0, <1>3, <3>2, BeginMarks DEF Working
    <3>3. ASSUME NEW h \in Handler, Proceed(h), h # k PROVE pc'[k] = pc[k] /\ frame'[k] = frame[k]
      BY <1>0, <3>3, OneMoves
    <3>4. ASSUME Proceed(k) PROVE Block(k)
      BY <1>3, <3>4 DEF Proceed, CreateSession, Sign, Revoke, Find, EndAll
    <3>5. \A h \in Handler : ~ Fail(h)
      BY <1>0 DEF Fail, TypeOK
    <3>6. QED
      BY <3>1, <3>2, <3>3, <3>4, <3>5, Steps
  <2>4. QED
    BY <2>1, <2>2, <2>3
<1>4. QED
  BY <1>1, <1>2, <1>3 DEF Out

\* Whoever revokes a session goes on to blocklist it (revokeSession, revokeAllForUser).
LEMMA RevokedKept ==
  ASSUME SInv, FoundOk, SignOk, RevokedOut, Next
  PROVE  RevokedOut'
<1>0. TypeOK
  BY DEF SInv
<1> SUFFICES ASSUME fails' = 0, NEW s \in Session, s \notin raced', row'[s] \in Reason
             PROVE  Out(s)'
  BY DEF RevokedOut
<1>1. fails = 0 /\ s \notin raced
  <2>1. CASE Passes \/ Reinstates
    BY <2>1 DEF Passes, Reinstates
  <2>2. ASSUME NEW h \in Handler, NEW label, NEW f, Begins(h, label, f)
        PROVE  UNCHANGED <<fails, raced>>
    BY <1>0, <2>2, BeginMarks
  <2>3. ASSUME NEW h \in Handler, Proceed(h) \/ Fail(h) PROVE fails = 0 /\ raced \subseteq raced'
    <3>1. ~ Fail(h)
      BY <1>0 DEF Fail, TypeOK
    <3>2. fails' = fails /\ raced \subseteq raced'
      BY <2>3, <3>1 DEF Proceed, CreateSession, Sign, Revoke, Find, EndAll, Block
    <3>3. QED
      BY <3>2
  <2>4. QED
    BY <2>1, <2>2, <2>3, Steps
<1>2. CASE row[s] \in Reason
  BY <1>1, <1>2, OutKept DEF RevokedOut
<1>3. CASE row[s] \notin Reason
  <2>1. row[s] = "active" /\ row'[s] # row[s]
    BY <1>0, <1>3, RowStep DEF SInv, RowChange, Reason
  <2>2. CASE Passes \/ Reinstates
    BY <1>0, <2>1, <2>2 DEF Passes, Reinstates, Expire, AccessLapses, BlockLapses, Cleanup,
       TypeOK, Reason
  <2>3. ASSUME NEW h \in Handler, NEW label, NEW f, Begins(h, label, f) PROVE row' = row
    BY <1>0, <2>3, BeginMarks
  <2>4. ASSUME NEW h \in Handler, Revoke(h) PROVE Out(s)'
    <3>1. frame[h] \in Frame /\ s = frame[h].s /\ row[s] = "active"
      BY <1>0, <2>1, <2>4 DEF Revoke, TypeOK
    <3>2. Goto(h, "block", [frame[h] EXCEPT !.found = {s}, !.reason = "ENDED"])
      BY <2>4, <3>1 DEF Revoke
    <3>3. pc'[h] = "block" /\ s \in frame'[h].found
      BY <1>0, <3>1, <3>2 DEF Goto, Frame, TypeOK
    <3>4. QED
      BY <3>3 DEF Out
  <2>5. ASSUME NEW h \in Handler, EndAll(h) PROVE Out(s)'
    <3>1. pc[h] = "endall" /\ s \in Active \ frame[h].keep
      BY <2>1, <2>5 DEF EndAll
    <3>2. s \in frame[h].found
      BY <1>1, <3>1 DEF FoundOk
    <3>3. pc'[h] = "block" /\ frame'[h].found = frame[h].found
      BY <1>0, <2>5 DEF EndAll, Goto, NoFrame, TypeOK
    <3>4. QED
      BY <3>2, <3>3 DEF Out
  <2>6. ASSUME NEW h \in Handler, CreateSession(h) PROVE row'[s] = row[s]
    BY <1>0, <2>1, <2>6 DEF CreateSession, TypeOK
  <2>7. ASSUME NEW h \in Handler, Sign(h) \/ Find(h) \/ Block(h) \/ Fail(h) PROVE row' = row
    BY <2>7 DEF Sign, Find, Block, Fail
  <2>8. QED
    BY <2>1, <2>2, <2>3, <2>4, <2>5, <2>6, <2>7, Steps DEF Proceed
<1>4. QED
  BY <1>2, <1>3

-----------------------------------------------------------------------------
(* The specification. *)

\* Nothing has happened yet.
LEMMA InitRace == Init => RaceInv
<1> SUFFICES ASSUME Init PROVE RaceInv
  OBVIOUS
<1>1. SInv
  BY InitSInv
<1>2. \A h \in Handler : pc[h] = "idle"
  BY DEF Init
<1>3. \A s \in Session : row[s] = "none" /\ access[s] = "none" /\ parent[s] = NoSession
  BY DEF Init
<1>4. Overlap /\ CreatorOk /\ SignOk /\ NotYet /\ FoundOk
  BY <1>2, <1>3 DEF Overlap, Working, CreatorOk, Creates, SignOk, NotYet, FoundOk
<1>5. RotationOk /\ OneSuccessor
  BY <1>2, <1>3 DEF RotationOk, Rotates, OneSuccessor
<1>6. RevokedOut /\ BannedOut
  BY <1>3 DEF Init, RevokedOut, BannedOut, Reason
<1>7. QED
  BY <1>1, <1>4, <1>5, <1>6 DEF RaceInv

\* Every step keeps the invariant.
LEMMA NextRace == RaceInv /\ [Next]_vars => RaceInv'
<1> SUFFICES ASSUME RaceInv, [Next]_vars PROVE RaceInv'
  OBVIOUS
<1>1. SInv'
  BY NextSInv DEF RaceInv
<1>2. CASE Next
  BY <1>1, <1>2, OverlapKept, RotationKept, SuccessorKept, CreatorKept, SignKept, FoundKept,
     RevokedKept, BannedKept DEF RaceInv
<1>3. CASE UNCHANGED vars
  <2>1. UNCHANGED <<row, access, blocked, status, pc, frame, parent, met, raced, fails>>
    BY <1>3 DEF vars
  <2>2. (Overlap /\ RotationOk /\ OneSuccessor /\ CreatorOk)'
    BY <2>1 DEF RaceInv, Overlap, Working, RotationOk, Rotates, OneSuccessor, CreatorOk, Creates
  <2>3. (SignOk /\ NotYet /\ FoundOk)'
    BY <2>1 DEF RaceInv, SignOk, NotYet, FoundOk, Active
  <2>4. (RevokedOut /\ BannedOut)'
    BY <2>1 DEF RaceInv, RevokedOut, Out, BannedOut, Ending, Active
  <2>5. QED
    BY <1>1, <2>2, <2>3, <2>4 DEF RaceInv
<1>4. QED
  BY <1>2, <1>3

\* The invariant holds throughout.
THEOREM RaceInductive == Spec => []RaceInv
BY InitRace, NextRace, PTL DEF Spec

\* Once all is quiet and nothing failed, no access token of a revoked session passes
\* the guard, unless requests overlapped its creation (revokeSession, revokeAllForUser,
\* JwtAuthGuard).
THEOREM RevokedAreRefused == Spec => []RevokedIsRefused
<1>1. RaceInv => RevokedIsRefused
  BY DEF RaceInv, RevokedOut, Out, RevokedIsRefused, Settled, Authenticated
<1>2. QED
  BY <1>1, RaceInductive, PTL

\* A banned user has then no session but those whose creation was overlapped
\* (updateStatus).
THEOREM BannedAreOut == Spec => []BannedIsOut
<1>1. RaceInv => BannedIsOut
  BY DEF RaceInv, BannedOut, Ending, BannedIsOut, Settled
<1>2. QED
  BY <1>1, RaceInductive, PTL

\* A refresh token is good for one rotation, failures or not, unless requests overlapped
\* (refresh, rotate).
THEOREM OneRotation == Spec => []OneSuccessor
<1>1. RaceInv => OneSuccessor
  BY DEF RaceInv
<1>2. QED
  BY <1>1, RaceInductive, PTL
=============================================================================
