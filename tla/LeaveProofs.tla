----------------------------- MODULE LeaveProofs -----------------------------
(***************************************************************************)
(* Theorems about LeaveApproval and LeaveAccrual, for every value of their *)
(* constants.                                                              *)
(*                                                                         *)
(* LeaveApproval: the invariants of LeaveApprovalInv, then the refinement  *)
(* of SignOff, then the ledger of requests decided one at a time.          *)
(* LeaveAccrual: the cron that several servers run at once, whose grants   *)
(* are summed over the months of the year.                                 *)
(***************************************************************************)
EXTENDS LeaveApprovalInv, LeaveAccrual, FiniteSetTheorems, WellFoundedInduction, TLAPS

-----------------------------------------------------------------------------
(* Type correctness. *)

\* The initial values have their types.
LEMMA InitTypeOK == Init => TypeOK
<1> USE ApprovalAssumption, LeaveAssumption
<1> SUFFICES ASSUME Init PROVE TypeOK
  OBVIOUS
<1>1. NoRow \in Row
  BY DEF NoRow, Row, Status, Step, Decision
<1>2. NoFrame \in Frame
  BY DEF NoFrame, Frame, Step, Decision
<1>3. QED
  BY <1>1, <1>2 DEF Init, EngineInit, TypeOK, EnginePc, LeaveStatus, NoJob

\* The update of decide leaves a row a row.
LEMMA RowUpdate ==
  ASSUME NEW r \in Row, NEW s \in Status, NEW c \in 0 .. NumSteps,
         NEW d \in [Step -> Decision \cup {"none"}]
  PROVE  [r EXCEPT !.status = s, !.current = c, !.decided = d] \in Row
BY DEF Row

\* decide keeps the types.
LEMMA DecideTypeOK ==
  ASSUME TypeOK, NEW h \in Handler, DecideStep(h)
  PROVE  TypeOK'
<1> USE ApprovalAssumption, LeaveAssumption DEF Step, Decision, EnginePc
<1> SUFFICES ASSUME Decide(h) PROVE
      /\ inst' \in [Instance -> Row]
      /\ actions' \subseteq ActionRow
      /\ pc' \in [Handler -> EnginePc \cup LeavePc]
      /\ frame' \in [Handler -> Frame]
  BY DEF TypeOK, DecideStep, leaveVars
<1>1. NoFrame \in Frame
  BY DEF NoFrame, Frame
<1>2. frame[h] \in Frame /\ inst \in [Instance -> Row] /\ actions \subseteq ActionRow
      /\ pc \in [Handler -> EnginePc \cup LeavePc] /\ frame \in [Handler -> Frame]
  BY DEF TypeOK
<1>3. ASSUME NEW i \in Instance, NEW u \in User, NEW d \in Decision, DecideRead(h, i, u, d)
      PROVE  frame' \in [Handler -> Frame]
  BY <1>2, <1>3 DEF DecideRead, Frame, Row
<1>4. CASE \E i \in Instance, u \in User, d \in Decision : DecideRead(h, i, u, d)
  <2>1. pc' \in [Handler -> EnginePc \cup LeavePc] /\ UNCHANGED <<inst, actions>>
    BY <1>2, <1>4 DEF DecideRead, Goto
  <2>2. QED
    BY <1>2, <1>3, <1>4, <2>1
<1>5. CASE DecideAct(h)
  <2>1. actions' \subseteq ActionRow
    BY <1>2, <1>5 DEF DecideAct, Frame, ActionRow
  <2>2. QED
    BY <1>2, <1>5, <2>1 DEF DecideAct, Goto
<1>6. ASSUME NEW s \in Status, NEW c \in 0 .. NumSteps, WriteRow(frame[h].i, s, c, frame[h].snap)
      PROVE  inst' \in [Instance -> Row]
  <2>1. frame[h].i \in Instance /\ frame[h].snap \in [Step -> Decision \cup {"none"}]
    BY <1>2 DEF Frame
  <2>2. QED
    BY <1>2, <1>6, <2>1, RowUpdate DEF WriteRow
<1>7. CASE DecideReject(h)
  <2>1. frame[h].cur \in 0 .. NumSteps /\ frame[h].i \in Instance /\ frame[h].t \in Target
    BY <1>2 DEF Frame
  <2>2. inst' \in [Instance -> Row]
    BY <1>6, <1>7, <2>1 DEF DecideReject, Status
  <2>3. [frame[h] EXCEPT !.i = frame[h].i, !.t = frame[h].t, !.outcome = "REJECTED"] \in Frame
    BY <1>2 DEF Frame
  <2>4. QED
    BY <1>2, <1>7, <2>2, <2>3 DEF DecideReject, Announce, Goto
<1>8. CASE DecideApprove(h)
  <2>1. frame[h].cur \in 0 .. NumSteps /\ frame[h].i \in Instance /\ frame[h].t \in Target
    BY <1>2 DEF Frame
  <2>2. inst' \in [Instance -> Row]
    BY <1>6, <1>8, <2>1 DEF DecideApprove, Status
  <2>3. [frame[h] EXCEPT !.i = frame[h].i, !.t = frame[h].t, !.outcome = "APPROVED"] \in Frame
    BY <1>2 DEF Frame
  <2>4. QED
    BY <1>2, <1>8, <2>2, <2>3 DEF DecideApprove, Announce, Goto
<1>9. CASE DecideForward(h)
  <2>1. inst' \in [Instance -> Row]
    BY <1>2, <1>6, <1>9 DEF DecideForward, Status
  <2>2. QED
    BY <1>1, <1>2, <1>9, <2>1 DEF DecideForward, Return, Goto
<1>10. QED
  BY <1>4, <1>5, <1>7, <1>8, <1>9 DEF Decide

\* createRequest keeps the types.
LEMMA CreateTypeOK ==
  ASSUME TypeOK, NEW h \in Handler, Create(h)
  PROVE  TypeOK'
<1> USE ApprovalAssumption, LeaveAssumption DEF Step, EnginePc, LeavePc, LeaveStatus, Status
<1>1. NoFrame \in Frame
  BY DEF NoFrame, Frame, Decision
<1>2. frame[h] \in Frame
  BY DEF TypeOK
<1>3. ASSUME NEW t \in Target, CreateCheck(h, t)
      PROVE  TypeOK'
  <2>1. frame' \in [Handler -> Frame]
    <3>1. PICK f \in Frame : f = [frame[h] EXCEPT !.t = t]
      BY <1>2 DEF Frame
    <3>2. frame \in [Handler -> Frame] /\ frame' = [frame EXCEPT ![h] = f]
      BY <1>3, <3>1 DEF CreateCheck, TypeOK
    <3>3. QED
      BY <3>2
  <2>2. pc' \in [Handler -> EnginePc \cup LeavePc]
    BY <1>3 DEF CreateCheck, TypeOK, Goto
  <2>3. QED
    BY <1>3, <2>1, <2>2 DEF CreateCheck, TypeOK, leaveVars
<1>4. CASE CreateReadEntries(h)
  BY <1>2, <1>4 DEF CreateReadEntries, TypeOK, Goto
<1>5. CASE CreateReadPending(h)
  BY <1>1, <1>2, <1>5 DEF CreateReadPending, TypeOK, Goto, Return
<1>6. CASE CreateInsert(h)
  BY <1>2, <1>6 DEF CreateInsert, TypeOK, Goto, Frame
<1>7. CASE CreateApproval(h)
  <2>1. PICK resolved \in [Step -> Resolution] :
          \/ CreatePending(frame[h].t, frame[h].t, resolved) /\ Return(h)
          \/ CreateApproved(frame[h].t, frame[h].t, resolved)
             /\ Announce(h, frame[h].t, frame[h].t, "APPROVED")
    BY <1>7 DEF CreateApproval
  <2>2. Approvers(resolved) \in [Step -> SUBSET User]
    BY DEF Approvers
  <2>3. ASSUME NEW s \in Status, NEW c \in 0 .. NumSteps
        PROVE  NewRow(frame[h].t, resolved, s, c) \in Row
    BY <1>2, <2>2 DEF NewRow, NoRow, Row, Frame, Decision
  <2>4. inst' \in [Instance -> Row]
    <3>1. frame[h].t \in Instance /\ inst \in [Instance -> Row]
      BY <1>2 DEF Frame, TypeOK
    <3>2. \E s \in Status, c \in 0 .. NumSteps :
            inst' = [inst EXCEPT ![frame[h].t] = NewRow(frame[h].t, resolved, s, c)]
      <4>1. ASSUME CreatePending(frame[h].t, frame[h].t, resolved)
            PROVE  \E c \in 0 .. NumSteps :
                     inst' = [inst EXCEPT ![frame[h].t] = NewRow(frame[h].t, resolved, "PENDING", c)]
        <5>1. PICK first \in Step :
                inst' = [inst EXCEPT ![frame[h].t] = NewRow(frame[h].t, resolved, "PENDING", first)]
          BY <4>1 DEF CreatePending
        <5>2. first \in 0 .. NumSteps
          OBVIOUS
        <5>3. QED
          BY <5>1, <5>2
      <4>2. ASSUME CreateApproved(frame[h].t, frame[h].t, resolved)
            PROVE  inst' = [inst EXCEPT ![frame[h].t] = NewRow(frame[h].t, resolved, "APPROVED", 0)]
        BY <4>2 DEF CreateApproved
      <4>3. 0 \in 0 .. NumSteps
        OBVIOUS
      <4>4. QED
        BY <2>1, <4>1, <4>2, <4>3
    <3>3. QED
      BY <2>3, <3>1, <3>2
  <2>5. /\ pc' \in [Handler -> EnginePc \cup LeavePc]
        /\ frame' \in [Handler -> Frame]
    <3>1. CASE Return(h)
      BY <1>1, <3>1 DEF Return, Goto, TypeOK
    <3>2. CASE Announce(h, frame[h].t, frame[h].t, "APPROVED")
      BY <1>2, <3>2 DEF Announce, Goto, TypeOK, Frame
    <3>3. QED
      BY <2>1, <3>1, <3>2
  <2>6. QED
    BY <1>7, <2>4, <2>5 DEF CreateApproval, TypeOK, leaveVars
<1>8. QED
  BY <1>3, <1>4, <1>5, <1>6, <1>7 DEF Create

\* cancelRequest keeps the types.
LEMMA CancelTypeOK ==
  ASSUME TypeOK, NEW h \in Handler, Cancel(h)
  PROVE  TypeOK'
<1> USE ApprovalAssumption, LeaveAssumption DEF Step, EnginePc, LeavePc, LeaveStatus, Status
<1>1. NoFrame \in Frame
  BY DEF NoFrame, Frame, Decision
<1>2. frame[h] \in Frame
  BY DEF TypeOK
<1>3. ASSUME NEW t \in Target, CancelRead(h, t)
      PROVE  TypeOK'
  <2>1. frame' \in [Handler -> Frame]
    <3>1. PICK f \in Frame : f = [frame[h] EXCEPT !.t = t]
      BY <1>2 DEF Frame
    <3>2. frame \in [Handler -> Frame] /\ frame' = [frame EXCEPT ![h] = f]
      BY <1>3, <3>1 DEF CancelRead, TypeOK
    <3>3. QED
      BY <3>2
  <2>2. pc' \in [Handler -> EnginePc \cup LeavePc]
    BY <1>3 DEF CancelRead, TypeOK, Goto
  <2>3. QED
    BY <1>3, <2>1, <2>2 DEF CancelRead, TypeOK, leaveVars
<1>4. CASE CancelInstance(h)
  <2>1. inst' \in [Instance -> Row]
    <3>1. ASSUME NEW r \in Row PROVE [r EXCEPT !.status = "CANCELLED"] \in Row
      BY DEF Row
    <3>2. QED
      BY <1>4, <3>1 DEF CancelInstance, CancelByTarget, TypeOK
  <2>2. QED
    BY <1>4, <2>1 DEF CancelInstance, TypeOK, Goto, leaveVars
<1>5. CASE CancelRevert(h)
  <2>1. frame[h].t \in Target /\ Cost[frame[h].t] \in Nat
    BY <1>2 DEF Frame
  <2>2. balance' \in Int
    BY <1>5, <2>1 DEF CancelRevert, TypeOK
  <2>3. QED
    BY <1>5, <2>1, <2>2 DEF CancelRevert, TypeOK, Goto
<1>6. CASE CancelRecalc(h)
  BY <1>2, <1>6 DEF CancelRecalc, RecalcRange, TypeOK, Goto, Frame
<1>7. CASE CancelUpdate(h)
  BY <1>1, <1>2, <1>7 DEF CancelUpdate, TypeOK, Goto, Return, Frame
<1>8. QED
  BY <1>3, <1>4, <1>5, <1>6, <1>7 DEF Cancel

\* onApprovalDecided keeps the types.
LEMMA ListenTypeOK ==
  ASSUME TypeOK, NEW h \in Handler, Listen(h)
  PROVE  TypeOK'
<1> USE ApprovalAssumption, LeaveAssumption DEF Step, EnginePc, LeavePc, LeaveStatus, Status
<1>1. NoFrame \in Frame
  BY DEF NoFrame, Frame, Decision
<1>2. frame[h] \in Frame
  BY DEF TypeOK
<1>3. CASE ListenRead(h)
  BY <1>1, <1>2, <1>3 DEF ListenRead, TypeOK, Goto, Return, leaveVars
<1>4. CASE ListenReject(h)
  BY <1>1, <1>2, <1>4 DEF ListenReject, TypeOK, Goto, Return, Frame
<1>5. CASE ListenApprove(h)
  <2>1. frame[h].t \in Target /\ Cost[frame[h].t] \in Nat
    BY <1>2 DEF Frame
  <2>2. balance' \in Int
    BY <1>5, <2>1 DEF ListenApprove, TypeOK
  <2>3. QED
    BY <1>5, <2>1, <2>2 DEF ListenApprove, TypeOK, Goto
<1>6. CASE ListenRecalc(h)
  BY <1>1, <1>2, <1>6 DEF ListenRecalc, RecalcRange, TypeOK, Goto, Return, Frame
<1>7. QED
  BY <1>3, <1>4, <1>5, <1>6 DEF Listen

\* Every step keeps the types.
LEMMA NextTypeOK == TypeOK /\ [Next]_vars => TypeOK'
<1> SUFFICES ASSUME TypeOK, [Next]_vars PROVE TypeOK'
  OBVIOUS
<1> USE ApprovalAssumption, LeaveAssumption
<1>1. NoFrame \in Frame
  BY DEF NoFrame, Frame, Step, Decision
<1>2. ASSUME NEW h \in Handler, Fail(h) PROVE TypeOK'
  BY <1>1, <1>2 DEF Fail, TypeOK, Return, Goto, EnginePc
<1>3. ASSUME NEW d \in Day, WorkerRead(d) PROVE TypeOK'
  <2>1. OnLeave(d) \in BOOLEAN
    BY DEF OnLeave
  <2>2. worker' \in [busy : BOOLEAN, day : Day, onLeave : BOOLEAN]
    BY <1>3, <2>1 DEF WorkerRead, TypeOK
  <2>3. QED
    BY <1>3, <2>2 DEF WorkerRead, TypeOK, engineVars
<1>4. ASSUME NEW d \in Day, LockDay(d) PROVE TypeOK'
  <2>1. sheet[d] \in BOOLEAN /\ OnLeave(d) \in BOOLEAN
    BY DEF OnLeave, TypeOK
  <2>2. sheet' \in [Day -> BOOLEAN] /\ locked' \in [Day -> BOOLEAN]
    BY <1>4, <2>1 DEF LockDay, TypeOK
  <2>3. QED
    BY <1>4, <2>2 DEF LockDay, TypeOK, engineVars
<1>5. CASE WorkerWrite
  BY <1>5 DEF WorkerWrite, TypeOK, NoJob, engineVars
<1>6. CASE WorkerFail
  BY <1>6 DEF WorkerFail, TypeOK, NoJob, engineVars
<1>7. CASE UNCHANGED vars
  BY <1>7 DEF TypeOK, vars
<1>8. QED
  BY <1>2, <1>3, <1>4, <1>5, <1>6, <1>7, DecideTypeOK, CreateTypeOK, CancelTypeOK, ListenTypeOK DEF Next

\* Every variable keeps its type.
THEOREM TypeCorrect == Spec => []TypeOK
BY InitTypeOK, NextTypeOK, PTL DEF Spec

-----------------------------------------------------------------------------
(* What no step takes back: a row keeps its chain, the trail only grows.   *)

Grows ==
  /\ actions \subseteq actions'
  /\ \A i \in Instance : Routed(i) =>
       /\ inst'[i].status # "none"
       /\ inst'[i].approvers = inst[i].approvers
       /\ inst'[i].target = inst[i].target

\* A step that writes one row that exists, in its status, step and decisions.
LEMMA WriteGrows ==
  ASSUME TypeOK, NEW i \in Instance, NEW s \in Status, NEW c, NEW d,
         WriteRow(i, s, c, d), actions' = actions
  PROVE  /\ Grows
         /\ inst'[i].status = s /\ inst'[i].current = c /\ inst'[i].decided = d
         /\ inst'[i].approvers = inst[i].approvers /\ inst'[i].target = inst[i].target
         /\ \A j \in Instance \ {i} : inst'[j] = inst[j]
<1>1. inst \in [Instance -> Row]
  BY DEF TypeOK
<1>2. inst[i] \in Row
  BY <1>1
<1>3. inst'[i] = [inst[i] EXCEPT !.status = s, !.current = c, !.decided = d]
  BY <1>1 DEF WriteRow
<1>4. \A j \in Instance \ {i} : inst'[j] = inst[j]
  BY <1>1 DEF WriteRow
<1>5. /\ inst'[i].status = s /\ inst'[i].current = c /\ inst'[i].decided = d
      /\ inst'[i].approvers = inst[i].approvers /\ inst'[i].target = inst[i].target
  BY <1>2, <1>3 DEF Row
<1>6. s # "none"
  BY DEF Status
<1>7. QED
  BY <1>4, <1>5, <1>6 DEF Grows, Routed

\* The row createInstance inserts.
LEMMA NewRowFields ==
  ASSUME NEW t, NEW resolved, NEW s, NEW c
  PROVE  /\ NewRow(t, resolved, s, c).status = s
         /\ NewRow(t, resolved, s, c).target = t
         /\ NewRow(t, resolved, s, c).current = c
         /\ NewRow(t, resolved, s, c).approvers = Approvers(resolved)
         /\ NewRow(t, resolved, s, c).decided = [k \in Step |-> "none"]
BY DEF NewRow, NoRow

\* A step that inserts one row that did not exist.
LEMMA InsertGrows ==
  ASSUME TypeOK, NEW i \in Instance, inst[i].status = "none", NEW r,
         inst' = [inst EXCEPT ![i] = r], actions' = actions
  PROVE  Grows /\ inst'[i] = r /\ \A j \in Instance \ {i} : inst'[j] = inst[j]
BY DEF TypeOK, Grows, Routed

\* cancelByTarget keeps everything but the status, and closes only open rows.
LEMMA CancelGrows ==
  ASSUME TypeOK, NEW t \in Target, CancelByTarget(t), actions' = actions
  PROVE  /\ Grows
         /\ \A i \in Instance :
              \/ inst'[i] = inst[i]
              \/ /\ inst[i].status = "PENDING" /\ inst'[i].status = "CANCELLED"
                 /\ inst'[i].target = inst[i].target
                 /\ inst'[i].approvers = inst[i].approvers
                 /\ inst'[i].decided = inst[i].decided
<1>1. ASSUME NEW i \in Instance, inst[i].target = t, inst[i].status = "PENDING"
      PROVE  /\ inst'[i].status = "CANCELLED"
             /\ inst'[i].target = inst[i].target
             /\ inst'[i].approvers = inst[i].approvers
             /\ inst'[i].decided = inst[i].decided
  <2>1. inst'[i] = [inst[i] EXCEPT !.status = "CANCELLED"]
    BY <1>1 DEF CancelByTarget
  <2>2. inst[i] \in Row
    BY DEF TypeOK
  <2>3. QED
    BY <2>1, <2>2 DEF Row
<1>2. ASSUME NEW i \in Instance, ~ (inst[i].target = t /\ inst[i].status = "PENDING")
      PROVE  inst'[i] = inst[i]
  BY <1>2 DEF CancelByTarget
<1>3. QED
  BY <1>1, <1>2 DEF Grows, Routed

\* What the trail says of an existing row stays said.
LEMMA Kept ==
  ASSUME Grows, NEW i \in Instance, Routed(i)
  PROVE  /\ Routed(i)'
         /\ Active(i)' = Active(i)
         /\ \A k \in Step : SignedBefore(i, k) => SignedBefore(i, k)'
         /\ FullySigned(i) => FullySigned(i)'
<1>1. Routed(i)' /\ inst'[i].approvers = inst[i].approvers
  BY DEF Grows, Routed
<1>2. Active(i)' = Active(i)
  BY <1>1 DEF Active
<1>3. \A k \in Step : Signed(i, k) => Signed(i, k)'
  BY DEF Signed, Grows
<1>4. Active(i) \subseteq Step
  BY DEF Active
<1>5. QED
  BY <1>1, <1>2, <1>3, <1>4 DEF SignedBefore, FullySigned

\* The audit trail only grows: what it shows of an instance it goes on showing (decide).
LEMMA KeptTrail ==
  ASSUME Grows
  PROVE  /\ \A i : Vetoed(i) => Vetoed(i)'
         /\ \A i, k, d : Recorded(i, k, d) => Recorded(i, k, d)'
BY DEF Grows, Vetoed, Recorded

\* A row that a step leaves alone stays in order, since its trail only grows.
LEMMA KeptRow ==
  ASSUME Grows, NEW i \in Instance, RowOk(i), inst'[i] = inst[i], TypeOK
  PROVE  RowOk(i)'
<1>1. inst[i].status = "PENDING" =>
        inst[i].current \in Active(i)' /\ SignedBefore(i, inst[i].current)'
  <2>1. SUFFICES ASSUME inst[i].status = "PENDING"
                 PROVE  inst[i].current \in Active(i)' /\ SignedBefore(i, inst[i].current)'
    OBVIOUS
  <2>2. Routed(i) /\ inst[i].current \in Active(i) /\ SignedBefore(i, inst[i].current)
    BY <2>1 DEF RowOk, Routed
  <2>3. inst[i].current \in Step
    BY <2>2 DEF Active
  <2>4. QED
    BY <2>2, <2>3, Kept
<1>2. QED
  BY <1>1, KeptTrail DEF RowOk, Routed, SignedBefore

\* A decision that was in order stays in order while chains are fixed and the trail grows.
LEMMA KeptAction ==
  ASSUME Grows, TypeOK, NEW a \in actions, ActionOk(a)
  PROVE  ActionOk(a)'
<1>1. a.inst \in Instance /\ Routed(a.inst) /\ a.step \in Step
  BY DEF TypeOK, ActionRow, ActionOk
<1>2. inst'[a.inst].approvers = inst[a.inst].approvers
  BY <1>1 DEF Grows
<1>3. QED
  BY <1>1, <1>2, Kept DEF ActionOk

\* A handler that stands still keeps what its frame was good for.
LEMMA KeptHandler ==
  ASSUME Grows, TypeOK, NEW h \in Handler, DecideOk(h), ListenOk(h),
         pc'[h] = pc[h], frame'[h] = frame[h]
  PROVE  DecideOk(h)' /\ ListenOk(h)'
<1>1. frame[h].i \in Instance /\ frame[h].t \in Instance /\ frame[h].cur \in Step
  BY LeaveAssumption DEF TypeOK, Frame
<1>2. DecideOk(h)'
  <2>1. SUFFICES ASSUME pc[h] \in {"act", "update"} PROVE DecideOk(h)'
    BY DEF DecideOk
  <2>2. Routed(frame[h].i)
    BY <2>1 DEF DecideOk
  <2>3. inst'[frame[h].i].approvers = inst[frame[h].i].approvers
    BY <1>1, <2>2 DEF Grows
  <2>4. Routed(frame[h].i)' /\ frame[h].cur \in Active(frame[h].i)'
        /\ SignedBefore(frame[h].i, frame[h].cur)'
    BY <1>1, <2>1, <2>2, Kept DEF DecideOk, Routed, SignedBefore
  <2>5. QED
    BY <1>1, <2>1, <2>3, <2>4, KeptTrail DEF DecideOk, Routed, SignedBefore
<1>3. ListenOk(h)'
  BY <1>1, Kept, KeptTrail DEF ListenOk, Routed, FullySigned
<1>4. QED
  BY <1>2, <1>3

\* A request that a step leaves alone keeps its signatures.
LEMMA KeptLeave ==
  ASSUME Grows, NEW t \in Target, LeaveOk(t), leave'[t] = leave[t], usage'[t] = usage[t]
  PROVE  LeaveOk(t)'
<1>1. t \in Instance
  BY LeaveAssumption
<1>2. QED
  BY <1>1, Kept, KeptTrail DEF LeaveOk, Routed, FullySigned

-----------------------------------------------------------------------------
(* The invariant is inductive: what a step of one handler leaves alone.      *)

Alone(h) == \A g \in Handler \ {h} : pc'[g] = pc[g] /\ frame'[g] = frame[g]

\* pc and frame change for the handler that moves only.
LEMMA GotoAlone ==
  ASSUME TypeOK, NEW h \in Handler, NEW l, Goto(h, l),
         \/ frame' = frame
         \/ \E f : frame' = [frame EXCEPT ![h] = f]
  PROVE  Alone(h) /\ pc'[h] = l
BY DEF TypeOK, Goto, Alone

\* A handler that returns moves no other handler.
LEMMA ReturnAlone ==
  ASSUME TypeOK, NEW h \in Handler, Return(h)
  PROVE  Alone(h) /\ pc'[h] = "idle"
BY DEF TypeOK, Return, Goto, Alone

\* A handler that announces a decision moves no other handler and carries target and outcome.
LEMMA AnnounceAlone ==
  ASSUME TypeOK, NEW h \in Handler, NEW i, NEW t, NEW o, Announce(h, i, t, o)
  PROVE  Alone(h) /\ pc'[h] = "emit" /\ frame'[h].t = t /\ frame'[h].outcome = o
<1>1. Goto(h, "emit") /\ frame' = [frame EXCEPT ![h] = [@ EXCEPT !.i = i, !.t = t, !.outcome = o]]
  BY DEF Announce
<1>2. Alone(h) /\ pc'[h] = "emit"
  BY <1>1 DEF TypeOK, Goto, Alone
<1>3. frame'[h] = [frame[h] EXCEPT !.i = i, !.t = t, !.outcome = o] /\ frame[h] \in Frame
  BY <1>1 DEF TypeOK
<1>4. QED
  BY <1>2, <1>3 DEF Frame

\* What the other handlers carry in their frames survives the step of one (the awaits of decide).
LEMMA OthersOk ==
  ASSUME IInv, Grows, NEW h \in Handler, Alone(h)
  PROVE  \A g \in Handler \ {h} : DecideOk(g)' /\ ListenOk(g)'
BY KeptHandler DEF IInv, Alone

\* A step that writes no instance leaves all rows in order.
LEMMA RowsOk ==
  ASSUME IInv, Grows, inst' = inst
  PROVE  \A i \in Instance : RowOk(i)'
BY KeptRow DEF IInv

\* A step that inserts no decision leaves all decisions in order.
LEMMA ActionsOk ==
  ASSUME IInv, Grows, actions' = actions
  PROVE  \A a \in actions' : ActionOk(a)'
BY KeptAction DEF IInv

\* A step that writes neither status nor ledger leaves all requests in order.
LEMMA LeavesOk ==
  ASSUME IInv, Grows, leave' = leave, usage' = usage
  PROVE  \A t \in Target : LeaveOk(t)'
BY KeptLeave DEF IInv

\* A step that writes no request status leaves the other handlers' pending writes in order.
LEMMA WritesOk ==
  ASSUME IInv, NEW h \in Handler, Alone(h), leave' = leave
  PROVE  \A g \in Handler \ {h} : WriteOk(g)'
BY DEF IInv, Alone, WriteOk

\* A handler that is not creating, or goes on creating the same request, leaves
\* every id with one creator.
LEMMA CreatorsOk ==
  ASSUME IInv, NEW h \in Handler, Alone(h), Creating(h)' => Creating(h) /\ frame'[h].t = frame[h].t
  PROVE  OneCreator'
BY DEF IInv, Alone, OneCreator, Creating

\* Reads and writes that touch no row: only the handler itself is left to show.
LEMMA QuietStep ==
  ASSUME IInv, NEW h \in Handler, Alone(h), UNCHANGED <<inst, actions, leave, usage>>,
         TypeOK', DecideOk(h)', ListenOk(h)', WriteOk(h)',
         Creating(h)' => Creating(h) /\ frame'[h].t = frame[h].t
  PROVE  IInv'
<1>1. Grows
  BY DEF Grows, Routed
<1>2. QED
  BY <1>1, OthersOk, RowsOk, ActionsOk, LeavesOk, WritesOk, CreatorsOk DEF IInv

-----------------------------------------------------------------------------
(* decide. *)

\* decide, first read: the frame it fills is backed by the row it read.
LEMMA DecideReadInv ==
  ASSUME IInv, TypeOK', NEW h \in Handler, NEW i \in Instance, NEW u \in User,
         NEW d \in Decision, DecideRead(h, i, u, d), UNCHANGED leaveVars
  PROVE  IInv'
<1> DEFINE k == inst[i].current
<1>1. /\ k \in Step /\ inst[i].status = "PENDING"
      /\ u \in inst[i].approvers[k] \cup Overrider
      /\ UNCHANGED <<inst, actions>>
      /\ Goto(h, "act")
      /\ frame' = [frame EXCEPT ![h] =
                     [@ EXCEPT !.i = i, !.t = inst[i].target, !.actor = u, !.dec = d,
                               !.cur = k, !.snap = [inst[i].decided EXCEPT ![k] = d]]]
  BY DEF DecideRead
<1>2. frame[h] \in Frame /\ inst[i] \in Row
  BY DEF IInv, TypeOK
<1>3. /\ frame'[h].i = i /\ frame'[h].t = inst[i].target /\ frame'[h].actor = u
      /\ frame'[h].dec = d /\ frame'[h].cur = k
      /\ frame'[h].snap = [inst[i].decided EXCEPT ![k] = d]
  <2>1. frame'[h] = [frame[h] EXCEPT !.i = i, !.t = inst[i].target, !.actor = u, !.dec = d,
                               !.cur = k, !.snap = [inst[i].decided EXCEPT ![k] = d]]
    BY <1>1 DEF IInv, TypeOK
  <2>2. QED
    BY <1>2, <2>1 DEF Frame
<1>4. Alone(h) /\ pc'[h] = "act"
  BY <1>1 DEF IInv, TypeOK, Goto, Alone
<1>5. inst[i].decided \in [Step -> Decision \cup {"none"}]
  BY <1>2 DEF Row
<1>6. RowOk(i) /\ Routed(i)
  BY <1>1 DEF IInv, Routed
<1>7. DecideOk(h)'
  <2>1. Routed(i)' /\ Active(i)' = Active(i) /\ (SignedBefore(i, k) <=> SignedBefore(i, k)')
    BY <1>1, <1>6 DEF Routed, Active, SignedBefore, Signed
  <2>2. k \in Active(i) /\ SignedBefore(i, k) /\ inst[i].target = i
    BY <1>1, <1>6 DEF RowOk
  <2>3. \A j \in Step \ {k} : inst[i].decided[j] # "none" => Recorded(i, j, inst[i].decided[j])'
    BY <1>1, <1>6 DEF RowOk, Recorded
  <2>4. [inst[i].decided EXCEPT ![k] = d][k] = d
        /\ \A j \in Step \ {k} : [inst[i].decided EXCEPT ![k] = d][j] = inst[i].decided[j]
    BY <1>1, <1>5
  <2> HIDE DEF k
  <2>5. Routed(frame[h].i)' /\ (frame[h].t = frame[h].i)'
    BY <1>1, <1>3, <2>2, <1>6 DEF Routed
  <2>6. (frame[h].cur \in Active(frame[h].i))' /\ SignedBefore(frame[h].i, frame[h].cur)'
    BY <1>1, <1>3, <2>2 DEF Active, SignedBefore, Signed
  <2>7. (frame[h].actor \in inst[frame[h].i].approvers[frame[h].cur] \cup Overrider)'
    BY <1>1, <1>3
  <2>8. (frame[h].snap[frame[h].cur] = frame[h].dec)'
    BY <1>3, <2>4
  <2>9. (\A j \in Step \ {frame[h].cur} :
           frame[h].snap[j] # "none" => Recorded(frame[h].i, j, frame[h].snap[j]))'
    <3>1. SUFFICES ASSUME NEW j \in Step \ {k}, frame'[h].snap[j] # "none"
                   PROVE  Recorded(i, j, frame[h].snap[j])'
      BY <1>3 DEF Recorded
    <3>2. frame'[h].snap[j] = inst[i].decided[j]
      BY <1>3, <2>4
    <3>3. QED
      BY <1>1, <2>3, <3>1, <3>2 DEF Recorded
  <2>10. QED
    BY <1>4, <2>5, <2>6, <2>7, <2>8, <2>9 DEF DecideOk
<1>8. ListenOk(h)' /\ WriteOk(h)' /\ ~ Creating(h)'
  BY <1>4 DEF ListenOk, WriteOk, Creating
<1>9. QED
  BY <1>1, <1>4, <1>7, <1>8, QuietStep DEF leaveVars

\* decide, insert of the ApprovalAction: the decision is on turn because the frame is.
LEMMA DecideActInv ==
  ASSUME IInv, TypeOK', NEW h \in Handler, DecideAct(h), UNCHANGED leaveVars
  PROVE  IInv'
<1> DEFINE f == frame[h]
           new == [inst |-> f.i, step |-> f.cur, actor |-> f.actor, decision |-> f.dec]
<1>1. /\ pc[h] = "act" /\ actions' = actions \cup {new}
      /\ Goto(h, "update") /\ UNCHANGED <<inst, frame>>
  BY DEF DecideAct
<1>2. Grows
  BY <1>1 DEF Grows, Routed
<1>3. Alone(h) /\ pc'[h] = "update"
  BY <1>1, GotoAlone DEF IInv
<1>4. f.i \in Instance /\ f.cur \in Step
  BY DEF IInv, TypeOK, Frame
<1>5. DecideOk(h) /\ Routed(f.i)
  BY <1>1 DEF IInv, DecideOk
<1>6. Routed(f.i)' /\ f.cur \in Active(f.i)' /\ SignedBefore(f.i, f.cur)'
      /\ f.actor \in inst[f.i].approvers[f.cur] \cup Overrider
  BY <1>1, <1>2, <1>4, <1>5, Kept DEF DecideOk
<1>7. ActionOk(new)'
  BY <1>1, <1>6 DEF ActionOk
<1>8. \A a \in actions' : ActionOk(a)'
  BY <1>1, <1>2, <1>7, KeptAction DEF IInv
<1>9. Recorded(f.i, f.cur, f.dec)'
  <2>1. new \in actions' /\ new.inst = f.i /\ new.step = f.cur /\ new.decision = f.dec
    BY <1>1
  <2>2. QED
    BY <2>1, <1>1 DEF Recorded
<1>10. DecideOk(h)'
  <2>1. /\ f.t = f.i /\ f.snap[f.cur] = f.dec
        /\ \A k \in Step \ {f.cur} : f.snap[k] # "none" => Recorded(f.i, k, f.snap[k])
    BY <1>1, <1>5 DEF DecideOk
  <2>2. \A k \in Step \ {f.cur} : f.snap[k] # "none" => Recorded(f.i, k, f.snap[k])'
    BY <1>1, <1>2, <2>1, KeptTrail DEF Recorded
  <2>3. (f.t = f.i /\ f.snap[f.cur] = f.dec)'
    BY <1>1, <2>1
  <2>4. (f.actor \in inst[f.i].approvers[f.cur] \cup Overrider)'
    BY <1>1, <1>6
  <2>5. QED
    BY <1>1, <1>6, <1>9, <2>2, <2>3, <2>4 DEF DecideOk
<1>11. ListenOk(h)' /\ WriteOk(h)' /\ ~ Creating(h)'
  BY <1>3 DEF ListenOk, WriteOk, Creating
<1>12. QED
  BY <1>1, <1>2, <1>3, <1>8, <1>10, <1>11, OthersOk, RowsOk, LeavesOk, WritesOk, CreatorsOk
     DEF IInv, leaveVars

\* decide's update of its row, whatever the outcome.
LEMMA UpdatedRow ==
  ASSUME IInv, NEW h \in Handler, pc[h] = "update", NEW s \in Status, NEW c \in Step,
         WriteRow(frame[h].i, s, c, frame[h].snap), actions' = actions,
         s = "PENDING" => c \in Active(frame[h].i) /\ SignedBefore(frame[h].i, c),
         s = "REJECTED" => Vetoed(frame[h].i)
  PROVE  Grows /\ \A j \in Instance : RowOk(j)'
<1>0. PICK i \in Instance : i = frame[h].i
  BY DEF IInv, TypeOK, Frame
<1> USE <1>0
<1>1. i \in Instance /\ frame[h].cur \in Step
  BY DEF IInv, TypeOK, Frame
<1>2. /\ Grows
      /\ inst'[i].status = s /\ inst'[i].current = c /\ inst'[i].decided = frame[h].snap
      /\ inst'[i].approvers = inst[i].approvers /\ inst'[i].target = inst[i].target
      /\ \A j \in Instance \ {i} : inst'[j] = inst[j]
  <2>1. TypeOK
    BY DEF IInv
  <2>2. QED
    BY <1>1, <2>1, WriteGrows
<1>3. DecideOk(h) /\ Routed(i) /\ RowOk(i)
  BY <1>1 DEF IInv, DecideOk
<1>4. \A k \in Step : frame[h].snap[k] # "none" => Recorded(i, k, frame[h].snap[k])
  BY <1>1, <1>3 DEF DecideOk
<1>5. \A k \in Step : inst'[i].decided[k] # "none" => Recorded(i, k, inst[i].decided[k])'
  BY <1>2, <1>4 DEF Recorded
<1>6. s = "PENDING" => (inst[i].current \in Active(i))' /\ SignedBefore(i, inst[i].current)'
  <2>1. ASSUME s = "PENDING" PROVE c \in Active(i)' /\ SignedBefore(i, c)'
    BY <1>1, <1>2, <1>3, <2>1, Kept
  <2>2. QED
    BY <1>2, <2>1 DEF SignedBefore, Signed, Active
<1>7. s = "REJECTED" => Vetoed(i)'
  BY <1>2, KeptTrail
<1>8. RowOk(i)'
  BY <1>2, <1>3, <1>5, <1>6, <1>7 DEF RowOk, Routed
<1>9. \A j \in Instance \ {i} : RowOk(j)'
  BY <1>2, KeptRow DEF IInv
<1>10. QED
  BY <1>2, <1>8, <1>9

\* decide, update to REJECTED: the refusal is in the trail by then.
LEMMA DecideRejectInv ==
  ASSUME IInv, TypeOK', NEW h \in Handler, DecideReject(h), UNCHANGED leaveVars
  PROVE  IInv'
<1>0. PICK i \in Instance : i = frame[h].i
  BY DEF IInv, TypeOK, Frame
<1> USE <1>0
<1>1. /\ pc[h] = "update" /\ frame[h].dec = "REJECT" /\ actions' = actions
      /\ WriteRow(i, "REJECTED", frame[h].cur, frame[h].snap)
      /\ Announce(h, i, frame[h].t, "REJECTED")
  BY DEF DecideReject
<1>2. i \in Instance /\ frame[h].cur \in Step /\ "REJECTED" \in Status
  BY DEF IInv, TypeOK, Frame, Status
<1>3. DecideOk(h) /\ Routed(i) /\ frame[h].t = i
  BY <1>1 DEF IInv, DecideOk
<1>4. Vetoed(i)
  BY <1>1, <1>3 DEF DecideOk, Recorded, Vetoed
<1>5. Grows /\ \A j \in Instance : RowOk(j)'
  BY <1>1, <1>2, <1>4, UpdatedRow
<1>6. Alone(h) /\ pc'[h] = "emit" /\ frame'[h].t = i /\ frame'[h].outcome = "REJECTED"
  BY <1>1, <1>3, AnnounceAlone DEF IInv
<1>7. Routed(i)' /\ Vetoed(i)'
  BY <1>2, <1>3, <1>4, <1>5, Kept, KeptTrail
<1>8. ListenOk(h)' /\ DecideOk(h)' /\ WriteOk(h)' /\ ~ Creating(h)'
  BY <1>6, <1>7 DEF ListenOk, DecideOk, WriteOk, Creating, Routed, Vetoed
<1>9. QED
  BY <1>1, <1>5, <1>6, <1>8, OthersOk, ActionsOk, LeavesOk, WritesOk, CreatorsOk DEF IInv, leaveVars

\* decide, update to APPROVED: at the last active step the chain is complete.
LEMMA DecideApproveInv ==
  ASSUME IInv, TypeOK', NEW h \in Handler, DecideApprove(h), UNCHANGED leaveVars
  PROVE  IInv'
<1>0. PICK i \in Instance : i = frame[h].i
  BY DEF IInv, TypeOK, Frame
<1> USE <1>0
<1>1. /\ pc[h] = "update" /\ frame[h].dec = "APPROVE" /\ actions' = actions
      /\ \A n \in Active(i) : n <= frame[h].cur
      /\ WriteRow(i, "APPROVED", frame[h].cur, frame[h].snap)
      /\ Announce(h, i, frame[h].t, "APPROVED")
  BY DEF DecideApprove
<1>2. i \in Instance /\ frame[h].cur \in Step /\ "APPROVED" \in Status
  BY DEF IInv, TypeOK, Frame, Status
<1>3. DecideOk(h) /\ Routed(i) /\ frame[h].t = i
  BY <1>1 DEF IInv, DecideOk
<1>4. FullySigned(i)
  <2>1. Signed(i, frame[h].cur) /\ SignedBefore(i, frame[h].cur)
    BY <1>1, <1>3 DEF DecideOk, Recorded, Signed
  <2>2. \A n \in Active(i) : n = frame[h].cur \/ n < frame[h].cur
    BY <1>1, <1>2, ApprovalAssumption DEF Active, Step
  <2>3. QED
    BY <2>1, <2>2 DEF FullySigned, SignedBefore
<1>5. Grows /\ \A j \in Instance : RowOk(j)'
  BY <1>1, <1>2, UpdatedRow
<1>6. Alone(h) /\ pc'[h] = "emit" /\ frame'[h].t = i /\ frame'[h].outcome = "APPROVED"
  BY <1>1, <1>3, AnnounceAlone DEF IInv
<1>7. Routed(i)' /\ FullySigned(i)'
  BY <1>2, <1>3, <1>4, <1>5, Kept
<1>8. ListenOk(h)' /\ DecideOk(h)' /\ WriteOk(h)' /\ ~ Creating(h)'
  BY <1>6, <1>7 DEF ListenOk, DecideOk, WriteOk, Creating, Routed, FullySigned, Active, Signed
<1>9. QED
  BY <1>1, <1>5, <1>6, <1>8, OthersOk, ActionsOk, LeavesOk, WritesOk, CreatorsOk DEF IInv, leaveVars

\* decide, update to the next step: every earlier step has been signed.
LEMMA DecideForwardInv ==
  ASSUME IInv, TypeOK', NEW h \in Handler, DecideForward(h), UNCHANGED leaveVars
  PROVE  IInv'
<1>0. PICK i \in Instance : i = frame[h].i
  BY DEF IInv, TypeOK, Frame
<1> USE <1>0
<1>1. /\ pc[h] = "update" /\ frame[h].dec = "APPROVE" /\ actions' = actions /\ Return(h)
  BY DEF DecideForward
<1>2. i \in Instance /\ frame[h].cur \in Step /\ "PENDING" \in Status
  BY DEF IInv, TypeOK, Frame, Status
<1>3. DecideOk(h)
  BY DEF IInv
<1>4. Grows /\ \A j \in Instance : RowOk(j)'
  <2>1. CASE UNCHANGED inst
    <3>1. Grows
      BY <1>1, <2>1 DEF Grows, Routed
    <3>2. QED
      BY <2>1, <3>1, RowsOk
  <2>2. ASSUME NEW n \in Step, IsNext(Active(i), frame[h].cur, n),
               WriteRow(i, "PENDING", n, frame[h].snap)
        PROVE  Grows /\ \A j \in Instance : RowOk(j)'
    <3>1. Signed(i, frame[h].cur) /\ SignedBefore(i, frame[h].cur)
      BY <1>1, <1>3 DEF DecideOk, Recorded, Signed
    <3>2. n \in Active(i) /\ \A j \in Active(i) : j < n => j = frame[h].cur \/ j < frame[h].cur
      BY <1>2, <2>2, ApprovalAssumption DEF IsNext, Active, Step
    <3>3. SignedBefore(i, n)
      BY <3>1, <3>2 DEF SignedBefore
    <3>4. QED
      BY <1>1, <1>2, <2>2, <3>2, <3>3, UpdatedRow
  <2>3. QED
    BY <2>1, <2>2 DEF DecideForward
<1>5. Alone(h) /\ pc'[h] = "idle"
  BY <1>1, ReturnAlone DEF IInv
<1>6. ListenOk(h)' /\ DecideOk(h)' /\ WriteOk(h)' /\ ~ Creating(h)'
  BY <1>5 DEF ListenOk, DecideOk, WriteOk, Creating
<1>7. QED
  BY <1>1, <1>4, <1>5, <1>6, OthersOk, ActionsOk, LeavesOk, WritesOk, CreatorsOk DEF IInv, leaveVars

\* Every step of decide keeps the invariant.
LEMMA DecideInv ==
  ASSUME IInv, NEW h \in Handler, DecideStep(h)
  PROVE  IInv'
<1>1. TypeOK'
  BY DecideTypeOK DEF IInv
<1>2. QED
  BY <1>1, DecideReadInv, DecideActInv, DecideRejectInv, DecideApproveInv, DecideForwardInv
     DEF DecideStep, Decide

-----------------------------------------------------------------------------
(* createRequest. *)

\* createRequest, the overlap check: the id it reserves is nobody else's.
LEMMA CreateCheckInv ==
  ASSUME IInv, TypeOK', NEW h \in Handler, NEW t \in Target, CreateCheck(h, t)
  PROVE  IInv'
<1>1. /\ pc[h] = "idle" /\ leave[t] = "none"
      /\ \A g \in Handler : ~ (Creating(g) /\ frame[g].t = t)
      /\ frame' = [frame EXCEPT ![h].t = t]
      /\ UNCHANGED <<inst, actions, leaveVars>>
  BY DEF CreateCheck
<1>2. pc'[h] \in {"c.entries", "c.insert"} /\ Alone(h) /\ frame'[h].t = t
  <2>1. frame[h] \in Frame /\ frame \in [Handler -> Frame] /\ pc \in [Handler -> EnginePc \cup LeavePc]
    BY DEF IInv, TypeOK
  <2>2. frame'[h].t = t
    BY <1>1, <2>1 DEF Frame
  <2>3. QED
    BY <1>1, <2>1, <2>2 DEF CreateCheck, Goto, Alone
<1>3. Grows
  BY <1>1 DEF Grows, Routed
<1>4. DecideOk(h)' /\ ListenOk(h)' /\ WriteOk(h)'
  BY <1>1, <1>2 DEF DecideOk, ListenOk, WriteOk, leaveVars
<1>5. OneCreator'
  BY <1>1, <1>2 DEF IInv, OneCreator, Creating, Alone
<1>6. QED
  BY <1>1, <1>2, <1>3, <1>4, <1>5, OthersOk, RowsOk, ActionsOk, LeavesOk, WritesOk
     DEF IInv, leaveVars

\* createRequest, the two reads of getBalance keep the invariant.
LEMMA CreateReadsInv ==
  ASSUME IInv, TypeOK', NEW h \in Handler, CreateReadEntries(h) \/ CreateReadPending(h)
  PROVE  IInv'
<1>1. /\ pc[h] \in {"c.entries", "c.pending"}
      /\ UNCHANGED <<inst, actions, leave, usage>>
      /\ \/ Goto(h, "c.pending") /\ frame' = frame
         \/ Goto(h, "c.insert") /\ frame' = frame
         \/ Return(h)
  BY DEF CreateReadEntries, CreateReadPending
<1>2. /\ Alone(h)
      /\ pc'[h] \in {"idle", "c.pending", "c.insert"}
      /\ pc'[h] \in {"c.pending", "c.insert"} => frame' = frame
  <2>1. TypeOK
    BY DEF IInv
  <2>2. CASE Goto(h, "c.pending") /\ frame' = frame
    BY <2>1, <2>2, GotoAlone
  <2>3. CASE Goto(h, "c.insert") /\ frame' = frame
    BY <2>1, <2>3, GotoAlone
  <2>4. CASE Return(h)
    BY <2>1, <2>4, ReturnAlone
  <2>5. QED
    BY <1>1, <2>2, <2>3, <2>4
<1>3. WriteOk(h)
  BY DEF IInv
<1>4. DecideOk(h)' /\ ListenOk(h)' /\ WriteOk(h)'
  BY <1>1, <1>2, <1>3 DEF DecideOk, ListenOk, WriteOk
<1>5. Creating(h)' => Creating(h) /\ frame'[h].t = frame[h].t
  BY <1>1, <1>2 DEF Creating
<1>6. QED
  BY <1>1, <1>2, <1>4, <1>5, QuietStep

\* A status written by a handler that owns the id, or over one that is there.
LEMMA StatusWritten ==
  ASSUME IInv, NEW h \in Handler, Alone(h), NEW s \in Status,
         leave' = [leave EXCEPT ![frame[h].t] = s],
         leave[frame[h].t] = "none" => Creating(h)
  PROVE  /\ \A g \in Handler \ {h} : WriteOk(g)'
         /\ leave'[frame[h].t] = s /\ s # "none"
         /\ \A t \in Target \ {frame[h].t} : leave'[t] = leave[t]
<1>1. frame[h].t \in Target /\ leave \in [Target -> LeaveStatus]
      /\ \A g \in Handler : frame[g].t \in Target
  BY DEF IInv, TypeOK, Frame
<1>2. s # "none"
  BY DEF Status
<1>3. ASSUME NEW g \in Handler \ {h}, pc[g] \in {"c.entries", "c.pending", "c.insert"}
      PROVE  leave'[frame[g].t] = "none"
  <2>1. leave[frame[g].t] = "none" /\ Creating(g)
    BY <1>3 DEF IInv, WriteOk, Creating
  <2>2. frame[g].t # frame[h].t
    BY <2>1 DEF IInv, OneCreator
  <2>3. QED
    BY <1>1, <2>1, <2>2
<1>4. ASSUME NEW g \in Handler \ {h}, leave[frame[g].t] # "none"
      PROVE  leave'[frame[g].t] # "none"
  BY <1>1, <1>2, <1>4
<1>5. \A g \in Handler \ {h} : WriteOk(g)'
  BY <1>3, <1>4 DEF IInv, WriteOk, Alone
<1>6. QED
  BY <1>1, <1>2, <1>5

\* createRequest, the insert: a fresh request is PENDING and unsigned.
LEMMA CreateInsertInv ==
  ASSUME IInv, TypeOK', NEW h \in Handler, CreateInsert(h)
  PROVE  IInv'
<1>1. /\ pc[h] = "c.insert" /\ Goto(h, "c.approval")
      /\ leave' = [leave EXCEPT ![frame[h].t] = "PENDING"]
      /\ UNCHANGED <<inst, actions, frame, usage>>
  BY DEF CreateInsert
<1>2. Alone(h) /\ pc'[h] = "c.approval"
  BY <1>1, GotoAlone DEF IInv
<1>3. Grows
  BY <1>1 DEF Grows, Routed
<1>4. Creating(h) /\ leave[frame[h].t] = "none" /\ "PENDING" \in Status /\ frame[h].t \in Target
  BY <1>1 DEF IInv, Creating, WriteOk, Status, TypeOK, Frame
<1>5. /\ \A g \in Handler \ {h} : WriteOk(g)'
      /\ leave'[frame[h].t] = "PENDING"
      /\ \A t \in Target \ {frame[h].t} : leave'[t] = leave[t]
  BY <1>1, <1>2, <1>4, StatusWritten
<1>6. LeaveOk(frame[h].t)'
  <2>1. LeaveOk(frame[h].t) /\ frame[h].t \in Instance
    BY <1>4, LeaveAssumption DEF IInv
  <2>2. usage[frame[h].t] > 0 => Routed(frame[h].t)' /\ FullySigned(frame[h].t)'
    BY <1>1, <1>3, <2>1, Kept DEF LeaveOk, Routed, FullySigned, Active, Signed
  <2>3. QED
    BY <1>1, <1>5, <2>2 DEF LeaveOk, Routed, FullySigned, Active, Signed
<1>7. \A t \in Target : LeaveOk(t)'
  BY <1>1, <1>3, <1>5, <1>6, KeptLeave DEF IInv
<1>8. DecideOk(h)' /\ ListenOk(h)' /\ WriteOk(h)'
  BY <1>2 DEF DecideOk, ListenOk, WriteOk
<1>9. OneCreator'
  BY <1>1, <1>2, <1>4, CreatorsOk
<1>10. QED
  BY <1>1, <1>2, <1>3, <1>5, <1>7, <1>8, <1>9, OthersOk, RowsOk, ActionsOk DEF IInv

\* createInstance: the new row starts at its first active step, or fully skipped.
LEMMA CreateApprovalInv ==
  ASSUME IInv, TypeOK', NEW h \in Handler, CreateApproval(h)
  PROVE  IInv'
<1>0. PICK t \in Instance : t = frame[h].t
  BY LeaveAssumption DEF IInv, TypeOK, Frame
<1>1. PICK resolved \in [Step -> Resolution] :
        \/ CreatePending(t, t, resolved) /\ Return(h)
        \/ CreateApproved(t, t, resolved) /\ Announce(h, t, t, "APPROVED")
  BY <1>0 DEF CreateApproval
<1>2. pc[h] = "c.approval" /\ UNCHANGED <<actions, leaveVars>> /\ inst[t].status = "none"
  BY <1>0, <1>1 DEF CreateApproval, CreatePending, CreateApproved
<1>3. PICK s \in {"PENDING", "APPROVED"}, c \in 0 .. NumSteps :
        /\ inst' = [inst EXCEPT ![t] = NewRow(t, resolved, s, c)]
        /\ s = "PENDING" => IsNext({k \in Step : Approvers(resolved)[k] # {}}, 0, c)
  <2>1. CASE CreatePending(t, t, resolved)
    <3>1. PICK first \in Step :
            /\ IsNext({k \in Step : Approvers(resolved)[k] # {}}, 0, first)
            /\ inst' = [inst EXCEPT ![t] = NewRow(t, resolved, "PENDING", first)]
      BY <2>1 DEF CreatePending
    <3>2. first \in 0 .. NumSteps
      BY ApprovalAssumption DEF Step
    <3>3. QED
      BY <3>1, <3>2
  <2>2. CASE CreateApproved(t, t, resolved)
    <3>1. inst' = [inst EXCEPT ![t] = NewRow(t, resolved, "APPROVED", 0)]
      BY <2>2 DEF CreateApproved
    <3>2. 0 \in 0 .. NumSteps
      BY ApprovalAssumption
    <3>3. QED
      BY <3>1, <3>2
  <2>3. QED
    BY <1>1, <2>1, <2>2
<1>4. /\ Grows
      /\ inst'[t] = NewRow(t, resolved, s, c)
      /\ \A j \in Instance \ {t} : inst'[j] = inst[j]
  BY <1>2, <1>3, InsertGrows DEF IInv
<1>5. /\ inst'[t].status = s /\ inst'[t].target = t /\ inst'[t].current = c
      /\ inst'[t].approvers = Approvers(resolved)
      /\ inst'[t].decided = [k \in Step |-> "none"]
  BY <1>4, NewRowFields
<1>6. RowOk(t)'
  <2>1. \A k \in Step : Requester \notin Approvers(resolved)[k]
    BY DEF Approvers
  <2>2. Active(t)' = {k \in Step : Approvers(resolved)[k] # {}}
    BY <1>5 DEF Active
  <2>3. s = "PENDING" => c \in Active(t)' /\ \A j \in Active(t)' : ~ (j < c)
    BY <1>3, <2>2, ApprovalAssumption DEF IsNext, Step
  <2>4. s = "PENDING" => (inst[t].current \in Active(t))' /\ SignedBefore(t, inst[t].current)'
    BY <1>5, <2>3 DEF SignedBefore
  <2>5. QED
    BY <1>3, <1>5, <2>1, <2>4 DEF RowOk, Routed
<1>7. \A i \in Instance : RowOk(i)'
  BY <1>4, <1>6, KeptRow DEF IInv
<1>8. Alone(h) /\ pc'[h] \in {"idle", "emit"}
  <2>1. TypeOK
    BY DEF IInv
  <2>2. QED
    BY <1>1, <2>1, ReturnAlone, AnnounceAlone
<1>9. ListenOk(h)'
  <2>1. CASE Return(h)
    <3>1. pc'[h] = "idle"
      BY <2>1, ReturnAlone DEF IInv
    <3>2. QED
      BY <3>1 DEF ListenOk
  <2>2. CASE CreateApproved(t, t, resolved) /\ Announce(h, t, t, "APPROVED")
    <3>1. pc'[h] = "emit" /\ frame'[h].t = t /\ frame'[h].outcome = "APPROVED"
      BY <2>2, AnnounceAlone DEF IInv
    <3>2. Active(t)' = {}
      BY <1>5, <2>2 DEF CreateApproved, Active
    <3>3. Routed(t)' /\ FullySigned(t)'
      BY <1>3, <1>5, <3>2 DEF Routed, FullySigned
    <3>4. QED
      BY <3>1, <3>3 DEF ListenOk, Routed, FullySigned, Active, Signed
  <2>3. QED
    BY <1>1, <2>1, <2>2
<1>10. DecideOk(h)' /\ WriteOk(h)' /\ ~ Creating(h)'
  BY <1>8 DEF DecideOk, WriteOk, Creating
<1>11. QED
  BY <1>2, <1>4, <1>7, <1>8, <1>9, <1>10, OthersOk, ActionsOk, LeavesOk, WritesOk, CreatorsOk
     DEF IInv, leaveVars

\* Every step of createRequest keeps the invariant.
LEMMA CreateInv ==
  ASSUME IInv, NEW h \in Handler, Create(h)
  PROVE  IInv'
<1>1. TypeOK'
  BY CreateTypeOK DEF IInv
<1>2. QED
  BY <1>1, CreateCheckInv, CreateReadsInv, CreateInsertInv, CreateApprovalInv DEF Create

-----------------------------------------------------------------------------
(* cancelRequest. *)

\* cancelRequest, the read: the request exists.
LEMMA CancelReadInv ==
  ASSUME IInv, TypeOK', NEW h \in Handler, NEW t \in Target, CancelRead(h, t)
  PROVE  IInv'
<1>1. /\ frame' = [frame EXCEPT ![h].t = t] /\ leave[t] # "none"
      /\ UNCHANGED <<inst, actions, leaveVars>>
      /\ Goto(h, "x.pending") \/ Goto(h, "x.approved")
  BY DEF CancelRead
<1>2. pc'[h] \in {"x.pending", "x.approved"} /\ Alone(h) /\ frame'[h].t = t
  <2>1. frame[h] \in Frame /\ frame \in [Handler -> Frame] /\ pc \in [Handler -> EnginePc \cup LeavePc]
    BY DEF IInv, TypeOK
  <2>2. frame'[h].t = t
    BY <1>1, <2>1 DEF Frame
  <2>3. QED
    BY <1>1, <2>1, <2>2 DEF Goto, Alone
<1>3. DecideOk(h)' /\ ListenOk(h)' /\ WriteOk(h)' /\ ~ Creating(h)'
  BY <1>1, <1>2 DEF DecideOk, ListenOk, WriteOk, Creating, leaveVars
<1>4. QED
  BY <1>1, <1>2, <1>3, QuietStep DEF leaveVars

\* cancelByTarget closes pending rows and touches nothing else of them.
LEMMA CancelInstanceInv ==
  ASSUME IInv, TypeOK', NEW h \in Handler, CancelInstance(h)
  PROVE  IInv'
<1>1. /\ pc[h] \in {"x.pending", "x.approved"} /\ CancelByTarget(frame[h].t)
      /\ UNCHANGED <<actions, frame, leaveVars>>
  BY DEF CancelInstance
<1>2. Alone(h) /\ pc'[h] \in {"x.revert", "x.update"}
  BY DEF CancelInstance, Goto, Alone, IInv, TypeOK
<1>3. frame[h].t \in Target
  BY DEF IInv, TypeOK, Frame
<1>4. /\ Grows
      /\ \A i \in Instance :
           \/ inst'[i] = inst[i]
           \/ /\ inst[i].status = "PENDING" /\ inst'[i].status = "CANCELLED"
              /\ inst'[i].target = inst[i].target
              /\ inst'[i].approvers = inst[i].approvers
              /\ inst'[i].decided = inst[i].decided
  BY <1>1, <1>3, CancelGrows DEF IInv
<1>5. ASSUME NEW i \in Instance PROVE RowOk(i)'
  <2>1. CASE inst'[i] = inst[i]
    BY <1>4, <2>1, KeptRow DEF IInv
  <2>2. CASE /\ inst[i].status = "PENDING" /\ inst'[i].status = "CANCELLED"
             /\ inst'[i].target = inst[i].target
             /\ inst'[i].approvers = inst[i].approvers
             /\ inst'[i].decided = inst[i].decided
    <3>1. RowOk(i)
      BY DEF IInv
    <3>2. QED
      BY <1>1, <2>2, <3>1 DEF RowOk, Routed, Recorded
  <2>3. QED
    BY <1>4, <2>1, <2>2
<1>6. DecideOk(h)' /\ ListenOk(h)' /\ WriteOk(h)' /\ ~ Creating(h)'
  <2>1. WriteOk(h)
    BY DEF IInv
  <2>2. QED
    BY <1>1, <1>2, <2>1 DEF DecideOk, ListenOk, WriteOk, Creating, leaveVars
<1>7. QED
  BY <1>1, <1>2, <1>4, <1>5, <1>6, OthersOk, ActionsOk, LeavesOk, WritesOk, CreatorsOk
     DEF IInv, leaveVars

\* cancelRequest, REVERT entry and recalculation keep the invariant.
LEMMA CancelLedgerInv ==
  ASSUME IInv, TypeOK', NEW h \in Handler, CancelRevert(h) \/ CancelRecalc(h)
  PROVE  IInv'
<1>1. /\ pc[h] \in {"x.revert", "x.recalc"}
      /\ Goto(h, "x.recalc") \/ Goto(h, "x.update")
      /\ UNCHANGED <<inst, actions, frame, leave, usage>>
  BY DEF CancelRevert, CancelRecalc
<1>2. Alone(h) /\ pc'[h] \in {"x.recalc", "x.update"}
  BY <1>1 DEF Goto, Alone, IInv, TypeOK
<1>3. WriteOk(h)
  BY DEF IInv
<1>4. DecideOk(h)' /\ ListenOk(h)' /\ WriteOk(h)' /\ ~ Creating(h)'
  BY <1>1, <1>2, <1>3 DEF DecideOk, ListenOk, WriteOk, Creating
<1>5. QED
  BY <1>1, <1>2, <1>4, QuietStep

\* The last write of cancelRequest, and of the listener that refuses.
LEMMA ClosingWriteInv ==
  ASSUME IInv, TypeOK', NEW h \in Handler, NEW s \in {"CANCELLED", "REJECTED"},
         leave[frame[h].t] # "none", Return(h),
         leave' = [leave EXCEPT ![frame[h].t] = s],
         s = "REJECTED" => Vetoed(frame[h].t),
         UNCHANGED <<inst, actions, usage>>
  PROVE  IInv'
<1>0. PICK t \in Target : t = frame[h].t
  BY DEF IInv, TypeOK, Frame
<1>1. Alone(h) /\ pc'[h] = "idle"
  BY ReturnAlone DEF IInv
<1>2. Grows
  BY DEF Grows, Routed
<1>3. /\ \A g \in Handler \ {h} : WriteOk(g)'
      /\ leave'[t] = s
      /\ \A u \in Target \ {t} : leave'[u] = leave[u]
  BY <1>0, <1>1, StatusWritten DEF Status
<1>4. LeaveOk(t)'
  <2>1. LeaveOk(t) /\ t \in Instance
    BY LeaveAssumption DEF IInv
  <2>2. QED
    BY <1>0, <1>3, <2>1 DEF LeaveOk, Routed, FullySigned, Active, Signed, Vetoed
<1>5. \A u \in Target : LeaveOk(u)'
  BY <1>2, <1>3, <1>4, KeptLeave DEF IInv
<1>6. DecideOk(h)' /\ ListenOk(h)' /\ WriteOk(h)' /\ ~ Creating(h)'
  BY <1>1 DEF DecideOk, ListenOk, WriteOk, Creating
<1>7. QED
  BY <1>1, <1>2, <1>3, <1>5, <1>6, OthersOk, RowsOk, ActionsOk, CreatorsOk DEF IInv

\* Every step of cancelRequest keeps the invariant.
LEMMA CancelInv ==
  ASSUME IInv, NEW h \in Handler, Cancel(h)
  PROVE  IInv'
<1>1. TypeOK'
  BY CancelTypeOK DEF IInv
<1>2. ASSUME CancelUpdate(h) PROVE IInv'
  <2>1. leave[frame[h].t] # "none"
    BY <1>2 DEF CancelUpdate, IInv, WriteOk
  <2>2. QED
    BY <1>1, <1>2, <2>1, ClosingWriteInv DEF CancelUpdate
<1>3. QED
  BY <1>1, <1>2, CancelReadInv, CancelInstanceInv, CancelLedgerInv DEF Cancel

-----------------------------------------------------------------------------
(* onApprovalDecided. *)

\* onApprovalDecided, the read: the outcome it acts on is the one announced.
LEMMA ListenReadInv ==
  ASSUME IInv, TypeOK', NEW h \in Handler, ListenRead(h)
  PROVE  IInv'
<1>1. /\ pc[h] = "emit" /\ UNCHANGED <<inst, actions, leaveVars>>
      /\ \/ leave[frame[h].t] = "PENDING" /\ frame[h].outcome = "REJECTED"
            /\ Goto(h, "l.reject") /\ frame' = frame
         \/ leave[frame[h].t] = "PENDING" /\ frame[h].outcome # "REJECTED"
            /\ Goto(h, "l.approve") /\ frame' = frame
         \/ Return(h)
  BY DEF ListenRead
<1>2. frame[h].outcome \in {"APPROVED", "REJECTED"}
  BY DEF IInv, TypeOK, Frame
<1>3. ListenOk(h)
  BY DEF IInv
<1>4. CASE Return(h)
  <2>1. Alone(h) /\ pc'[h] = "idle"
    BY <1>4, ReturnAlone DEF IInv
  <2>2. DecideOk(h)' /\ ListenOk(h)' /\ WriteOk(h)' /\ ~ Creating(h)'
    BY <2>1 DEF DecideOk, ListenOk, WriteOk, Creating
  <2>3. QED
    BY <1>1, <2>1, <2>2, QuietStep DEF leaveVars
<1>5. ASSUME NEW l \in {"l.reject", "l.approve"}, Goto(h, l), frame' = frame,
             leave[frame[h].t] = "PENDING",
             l = "l.reject" => frame[h].outcome = "REJECTED",
             l = "l.approve" => frame[h].outcome = "APPROVED"
      PROVE  IInv'
  <2>1. Alone(h) /\ pc'[h] = l
    BY <1>5, GotoAlone DEF IInv
  <2>2. ListenOk(h)'
    BY <1>1, <1>3, <1>5, <2>1 DEF ListenOk, Routed, FullySigned, Active, Signed, Vetoed
  <2>3. DecideOk(h)' /\ WriteOk(h)' /\ ~ Creating(h)'
    BY <1>1, <1>5, <2>1 DEF DecideOk, WriteOk, Creating, leaveVars
  <2>4. QED
    BY <1>1, <2>1, <2>2, <2>3, QuietStep DEF leaveVars
<1>6. QED
  BY <1>1, <1>2, <1>4, <1>5

\* onApprovalDecided, the approval: the chain behind it is complete.
LEMMA ListenApproveInv ==
  ASSUME IInv, TypeOK', NEW h \in Handler, ListenApprove(h)
  PROVE  IInv'
<1>0. PICK t \in Target : t = frame[h].t
  BY DEF IInv, TypeOK, Frame
<1>1. /\ pc[h] = "l.approve" /\ Goto(h, "l.recalc")
      /\ leave' = [leave EXCEPT ![t] = "APPROVED"]
      /\ \A u \in Target \ {t} : usage'[u] = usage[u]
      /\ UNCHANGED <<inst, actions, frame>>
  BY <1>0 DEF ListenApprove, IInv, TypeOK
<1>2. Alone(h) /\ pc'[h] = "l.recalc"
  BY <1>1, GotoAlone DEF IInv
<1>3. Grows
  BY <1>1 DEF Grows, Routed
<1>4. leave[t] # "none" /\ Routed(t) /\ FullySigned(t) /\ frame[h].outcome = "APPROVED"
  BY <1>0, <1>1 DEF IInv, WriteOk, ListenOk
<1>5. /\ \A g \in Handler \ {h} : WriteOk(g)'
      /\ leave'[t] = "APPROVED"
      /\ \A u \in Target \ {t} : leave'[u] = leave[u]
  BY <1>0, <1>1, <1>2, <1>4, StatusWritten DEF Status
<1>6. LeaveOk(t)'
  BY <1>1, <1>4, <1>5 DEF LeaveOk, Routed, FullySigned, Active, Signed
<1>7. \A u \in Target : LeaveOk(u)'
  BY <1>1, <1>3, <1>5, <1>6, KeptLeave DEF IInv
<1>8. DecideOk(h)' /\ ListenOk(h)' /\ WriteOk(h)' /\ ~ Creating(h)'
  BY <1>0, <1>1, <1>2, <1>4, <1>5
     DEF DecideOk, ListenOk, WriteOk, Creating, Routed, FullySigned, Active, Signed
<1>9. QED
  BY <1>1, <1>2, <1>3, <1>5, <1>7, <1>8, OthersOk, RowsOk, ActionsOk, CreatorsOk DEF IInv

\* Every step of the listener keeps the invariant.
LEMMA ListenInv ==
  ASSUME IInv, NEW h \in Handler, Listen(h)
  PROVE  IInv'
<1>1. TypeOK'
  BY ListenTypeOK DEF IInv
<1>2. ASSUME ListenReject(h) PROVE IInv'
  <2>1. leave[frame[h].t] # "none" /\ Vetoed(frame[h].t)
    BY <1>2 DEF ListenReject, IInv, WriteOk, ListenOk
  <2>2. QED
    BY <1>1, <1>2, <2>1, ClosingWriteInv DEF ListenReject
<1>3. ASSUME ListenRecalc(h) PROVE IInv'
  <2>1. Alone(h) /\ pc'[h] = "idle"
    BY <1>3, ReturnAlone DEF ListenRecalc, IInv
  <2>2. DecideOk(h)' /\ ListenOk(h)' /\ WriteOk(h)' /\ ~ Creating(h)'
    BY <2>1 DEF DecideOk, ListenOk, WriteOk, Creating
  <2>3. QED
    BY <1>1, <1>3, <2>1, <2>2, QuietStep DEF ListenRecalc
<1>4. QED
  BY <1>1, <1>2, <1>3, ListenReadInv, ListenApproveInv DEF Listen

-----------------------------------------------------------------------------
(* The theorems. *)

\* With no row and no handler at work the invariant holds.
LEMMA InitInv == Init => IInv
<1> SUFFICES ASSUME Init PROVE IInv
  OBVIOUS
<1>1. TypeOK
  BY InitTypeOK
<1>2. /\ \A i \in Instance : inst[i].status = "none" /\ inst[i].decided = [k \in Step |-> "none"]
                             /\ inst[i].approvers = [k \in Step |-> {}]
      /\ actions = {} /\ \A h \in Handler : pc[h] = "idle"
      /\ \A t \in Target : leave[t] = "none" /\ usage[t] = 0
  BY DEF Init, EngineInit, NoRow
<1>3. QED
  BY <1>1, <1>2 DEF IInv, RowOk, Routed, DecideOk, ListenOk, WriteOk, LeaveOk, OneCreator, Creating

\* Every step of Next keeps the invariant.
LEMMA NextInv == IInv /\ [Next]_vars => IInv'
<1> SUFFICES ASSUME IInv, [Next]_vars PROVE IInv'
  OBVIOUS
<1>1. TypeOK'
  BY NextTypeOK DEF IInv
<1>2. ASSUME NEW h \in Handler, Fail(h) PROVE IInv'
  <2>1. Alone(h) /\ pc'[h] = "idle"
    BY <1>2, ReturnAlone DEF Fail, IInv
  <2>2. DecideOk(h)' /\ ListenOk(h)' /\ WriteOk(h)' /\ ~ Creating(h)'
    BY <2>1 DEF DecideOk, ListenOk, WriteOk, Creating
  <2>3. QED
    BY <1>1, <1>2, <2>1, <2>2, QuietStep DEF Fail
<1>3. ASSUME UNCHANGED <<engineVars, leave, usage>> PROVE IInv'
  <2>1. UNCHANGED <<inst, actions, pc, frame, leave, usage>>
    BY <1>3 DEF engineVars
  <2>2. Grows
    BY <2>1 DEF Grows, Routed
  <2>3. \A h \in Handler : DecideOk(h)' /\ ListenOk(h)'
    BY <2>1, <2>2, KeptHandler DEF IInv
  <2>4. (\A h \in Handler : WriteOk(h)') /\ OneCreator'
    BY <2>1 DEF IInv, WriteOk, OneCreator, Creating
  <2>5. QED
    BY <1>1, <2>1, <2>2, <2>3, <2>4, RowsOk, ActionsOk, LeavesOk DEF IInv
<1>4. ASSUME NEW d \in Day, WorkerRead(d) \/ LockDay(d) PROVE IInv'
  BY <1>3, <1>4 DEF WorkerRead, LockDay
<1>5. CASE WorkerWrite
  BY <1>3, <1>5 DEF WorkerWrite
<1>6. CASE WorkerFail
  BY <1>3, <1>6 DEF WorkerFail
<1>7. CASE UNCHANGED vars
  BY <1>3, <1>7 DEF vars, engineVars
<1>8. QED
  BY <1>2, <1>4, <1>5, <1>6, <1>7, DecideInv, CreateInv, CancelInv, ListenInv DEF Next

\* Frames, rows and the audit trail agree in every reachable state.
THEOREM Inductive == Spec => []IInv
BY InitInv, NextInv, PTL DEF Spec

\* No leave takes effect and no day is deducted before every step with an
\* approver has signed, whatever the interleaving of handlers and failures.
THEOREM LeaveNeedsChain == Spec => []ChainComplete
<1>1. IInv => ChainComplete
  BY DEF IInv, LeaveOk, ChainComplete, Routed
<1>2. QED
  BY <1>1, Inductive, PTL

\* Steps are decided in the order of the flow.
THEOREM DecisionsInOrder == Spec => []InOrder
<1>1. IInv => InOrder
  BY DEF IInv, ActionOk, InOrder
<1>2. QED
  BY <1>1, Inductive, PTL

\* Every decision in the trail was taken by an approver of its step or in an
\* approver's place, and the requester approves nothing of his own.
THEOREM DecidersEntitled == Spec => []Entitled
<1>1. IInv => Entitled
  <2>1. SUFFICES ASSUME IInv, NEW a \in actions
                 PROVE  /\ a.actor \in inst[a.inst].approvers[a.step] \cup Overrider
                        /\ a.actor = Requester => Requester \in Overrider
    BY DEF Entitled
  <2>2. a.inst \in Instance /\ a.step \in Step /\ ActionOk(a)
    BY <2>1 DEF IInv, TypeOK, ActionRow
  <2>3. Requester \notin inst[a.inst].approvers[a.step]
    BY <2>1, <2>2 DEF IInv, RowOk
  <2>4. QED
    BY <2>2, <2>3 DEF ActionOk
<1>2. QED
  BY <1>1, Inductive, PTL

\* What a row shows, and every refusal, is backed by the audit trail.
THEOREM RowsBacked == Spec => []AuditBacked
<1>1. IInv => AuditBacked
  <2>1. SUFFICES ASSUME IInv, NEW i \in Instance
                 PROVE  /\ \A k \in Step : inst[i].decided[k] # "none" =>
                             Recorded(i, k, inst[i].decided[k])
                        /\ inst[i].status = "REJECTED" => Vetoed(i)
                        /\ leave[i] = "REJECTED" => Vetoed(i)
    BY DEF AuditBacked, Recorded, Vetoed
  <2>2. RowOk(i) /\ LeaveOk(i)
    BY <2>1, LeaveAssumption DEF IInv
  <2>3. QED
    BY <2>2 DEF RowOk, LeaveOk
<1>2. QED
  BY <1>1, Inductive, PTL


-----------------------------------------------------------------------------
(* LeaveApproval implements SignOff: the initial states map to initial       *)
(* states and every step, inside the inductive invariant, to a step or a     *)
(* stutter.                                                                  *)

\* The abstract state, but for the requests themselves.
routed   == [t \in Target |-> inst[t].status # "none"]
required == [t \in Target |-> Active(t)]
signed   == [t \in Target |-> {k \in Step : Signed(t, k)}]
vetoed   == [t \in Target |-> \E a \in actions : a.inst = t /\ a.decision = "REJECT"]

Abstract == <<leave, routed, required, signed, vetoed>>

\* The chain of every row is as before.
ChainsSame ==
  \A t \in Target : /\ inst'[t].status = "none" <=> inst[t].status = "none"
                    /\ inst'[t].approvers = inst[t].approvers

\* Rows that keep status and approvers keep what the promise sees of their chains.
LEMMA SameChains ==
  ASSUME ChainsSame
  PROVE  UNCHANGED <<routed, required>>
BY DEF ChainsSame, routed, required, Active

\* An unchanged audit trail keeps the signatures and refusals the promise sees.
LEMMA SameTrail ==
  ASSUME actions' = actions
  PROVE  UNCHANGED <<signed, vetoed>>
BY DEF signed, vetoed, Signed

\* A step that changes none of these is a stutter of the promise.
LEMMA Stutter ==
  ASSUME ChainsSame, actions' = actions, leave' = leave
  PROVE  UNCHANGED Abstract
BY SameChains, SameTrail DEF Abstract

\* decide either changes nothing the promise speaks of, or signs, or refuses.
LEMMA DecideKeeps ==
  ASSUME IInv, NEW h \in Handler, DecideStep(h)
  PROVE  [Promise!Next]_Promise!soVars
<1> USE LeaveAssumption
<1>0. TypeOK /\ leave' = leave
  BY DEF IInv, DecideStep, leaveVars
<1>1. ASSUME UNCHANGED <<inst, actions>> PROVE UNCHANGED Promise!soVars
  <2>1. ChainsSame
    BY <1>1 DEF ChainsSame
  <2>2. QED
    BY <1>0, <1>1, <2>1, Stutter
       DEF Abstract, routed, required, signed, vetoed, Promise!soVars
<1>2. ASSUME NEW s \in Status, NEW c, WriteRow(frame[h].i, s, c, frame[h].snap),
             actions' = actions, pc[h] = "update"
      PROVE  UNCHANGED Promise!soVars
  <2>1. frame[h].i \in Instance /\ Routed(frame[h].i)
    BY <1>2 DEF IInv, TypeOK, Frame, DecideOk
  <2>2. /\ inst'[frame[h].i].status = s /\ s # "none"
        /\ inst'[frame[h].i].approvers = inst[frame[h].i].approvers
        /\ \A j \in Instance \ {frame[h].i} : inst'[j] = inst[j]
    BY <1>0, <1>2, <2>1, WriteGrows DEF Status
  <2>3. ChainsSame
    BY <2>1, <2>2 DEF ChainsSame, Routed
  <2>4. QED
    BY <1>0, <1>2, <2>3, Stutter
       DEF Abstract, routed, required, signed, vetoed, Promise!soVars
<1>3. ASSUME NEW i \in Instance, NEW u \in User, NEW d \in Decision, DecideRead(h, i, u, d)
      PROVE  UNCHANGED Promise!soVars
  BY <1>1, <1>3 DEF DecideRead
<1>4. CASE DecideReject(h)
  BY <1>2, <1>4 DEF DecideReject, Status
<1>5. CASE DecideApprove(h)
  BY <1>2, <1>5 DEF DecideApprove, Status
<1>6. CASE DecideForward(h)
  <2>1. CASE UNCHANGED inst
    BY <1>1, <1>6, <2>1 DEF DecideForward
  <2>2. ASSUME NEW n \in Step, WriteRow(frame[h].i, "PENDING", n, frame[h].snap)
        PROVE  UNCHANGED Promise!soVars
    BY <1>2, <1>6, <2>2 DEF DecideForward, Status
  <2>3. QED
    BY <1>6, <2>1, <2>2 DEF DecideForward
<1>7. CASE DecideAct(h)
  <2>0. PICK t \in Target, k \in Step : t = frame[h].i /\ k = frame[h].cur
    BY DEF IInv, TypeOK, Frame
  <2>1. k \in Active(t) /\ SignedBefore(t, k)
    BY <1>7, <2>0 DEF DecideAct, IInv, DecideOk
  <2>2. Promise!OnTurn(t, k)
    BY <2>1 DEF Promise!OnTurn, SignedBefore, Active
  <2>3. inst' = inst /\ frame[h].dec \in Decision
    BY <1>7, <2>0 DEF DecideAct, IInv, TypeOK, Frame
  <2>4. PICK new : /\ new.inst = t /\ new.step = k /\ new.decision = frame[h].dec
                   /\ actions' = actions \cup {new}
    <3>1. actions' = actions \cup {[inst |-> t, step |-> k, actor |-> frame[h].actor,
                                    decision |-> frame[h].dec]}
      BY <1>7, <2>0 DEF DecideAct
    <3>2. QED
      BY <3>1
  <2>5. UNCHANGED <<routed, required>>
    BY <2>3, SameChains DEF ChainsSame
  <2>6. ASSUME frame[h].dec = "APPROVE" PROVE Promise!Sign(t, k)
    <3>1. \A j \in Step, u \in Target : Signed(u, j)' <=> Signed(u, j) \/ (u = t /\ j = k)
      BY <2>6, <2>4 DEF Signed
    <3>2. signed' = [signed EXCEPT ![t] = @ \cup {k}]
      BY <3>1 DEF signed
    <3>3. vetoed' = vetoed
      BY <2>6, <2>4 DEF vetoed
    <3>4. QED
      BY <1>0, <2>2, <2>5, <3>2, <3>3
         DEF Promise!Sign, routed, required, signed, vetoed
  <2>7. ASSUME frame[h].dec = "REJECT" PROVE Promise!Veto(t, k)
    <3>1. signed' = signed
      BY <2>7, <2>4 DEF signed, Signed
    <3>2. vetoed' = [vetoed EXCEPT ![t] = TRUE]
      <4>1. \A u \in Target : u # t => (Vetoed(u)' <=> Vetoed(u))
        BY <2>4 DEF Vetoed
      <4>2. Vetoed(t)'
        BY <2>7, <2>4 DEF Vetoed
      <4>3. \A u \in Target : vetoed'[u] = IF u = t THEN TRUE ELSE vetoed[u]
        BY <4>1, <4>2 DEF vetoed, Vetoed
      <4>4. QED
        BY <4>3 DEF vetoed
    <3>3. QED
      BY <1>0, <2>2, <2>5, <3>1, <3>2
         DEF Promise!Veto, routed, required, signed, vetoed
  <2>8. QED
    BY <2>3, <2>6, <2>7 DEF Promise!Next, Decision, Step
<1>8. QED
  BY <1>3, <1>4, <1>5, <1>6, <1>7 DEF DecideStep, Decide

\* createRequest submits when it inserts, and routes when createInstance returns.
LEMMA CreateKeeps ==
  ASSUME IInv, NEW h \in Handler, Create(h)
  PROVE  [Promise!Next]_Promise!soVars
<1> USE LeaveAssumption
<1>0. PICK t \in Target : t = frame[h].t
  BY DEF IInv, TypeOK, Frame
<1>1. ASSUME UNCHANGED <<inst, actions, leave>> PROVE UNCHANGED Promise!soVars
  BY <1>1, Stutter DEF ChainsSame, Abstract, routed, required, signed, vetoed, Promise!soVars
<1>2. ASSUME NEW u \in Target, CreateCheck(h, u) PROVE UNCHANGED Promise!soVars
  BY <1>1, <1>2 DEF CreateCheck, leaveVars
<1>3. CASE CreateReadEntries(h) \/ CreateReadPending(h)
  BY <1>1, <1>3 DEF CreateReadEntries, CreateReadPending
<1>4. CASE CreateInsert(h)
  <2>1. leave[t] = "none" /\ leave' = [leave EXCEPT ![t] = "PENDING"] /\ UNCHANGED <<inst, actions>>
    BY <1>0, <1>4 DEF CreateInsert, IInv, WriteOk
  <2>2. UNCHANGED <<routed, required, signed, vetoed>>
    BY <2>1, SameChains, SameTrail DEF ChainsSame
  <2>3. Promise!Submit(t)
    BY <2>1, <2>2 DEF Promise!Submit, routed, required, signed, vetoed
  <2>4. QED
    BY <2>3 DEF Promise!Next
<1>5. CASE CreateApproval(h)
  <2>1. PICK r : /\ inst[t].status = "none" /\ r.status # "none"
                 /\ inst' = [inst EXCEPT ![t] = r]
    <3>1. PICK resolved \in [Step -> Resolution] :
            CreatePending(t, t, resolved) \/ CreateApproved(t, t, resolved)
      BY <1>0, <1>5 DEF CreateApproval
    <3>2. \E c : \/ inst' = [inst EXCEPT ![t] = NewRow(t, resolved, "PENDING", c)]
                 \/ inst' = [inst EXCEPT ![t] = NewRow(t, resolved, "APPROVED", c)]
      BY <3>1 DEF CreatePending, CreateApproved
    <3>3. QED
      BY <3>1, <3>2, NewRowFields DEF CreatePending, CreateApproved
  <2>2. leave' = leave /\ actions' = actions
    BY <1>5 DEF CreateApproval, leaveVars
  <2>3. inst'[t] = r /\ \A u \in Target \ {t} : inst'[u] = inst[u]
    BY <2>1 DEF IInv, TypeOK
  <2>4. routed[t] = FALSE /\ routed' = [routed EXCEPT ![t] = TRUE]
    <3>1. \A u \in Target : routed'[u] = IF u = t THEN TRUE ELSE routed[u]
      BY <2>1, <2>3 DEF routed
    <3>2. QED
      BY <2>1, <3>1 DEF routed
  <2>5. PICK chain \in SUBSET (1 .. NumSteps) : chain = Active(t)'
    BY DEF Active, Step
  <2>6. required' = [required EXCEPT ![t] = chain]
    BY <2>3, <2>5 DEF required, Active
  <2>7. UNCHANGED <<signed, vetoed>>
    BY <2>2, SameTrail
  <2>8. Promise!Route(t, chain)
    BY <2>2, <2>4, <2>6, <2>7 DEF Promise!Route, routed, required, signed, vetoed
  <2>9. QED
    BY <2>8 DEF Promise!Next
<1>6. QED
  BY <1>2, <1>3, <1>4, <1>5 DEF Create

\* cancelRequest withdraws with its last write.
LEMMA CancelKeeps ==
  ASSUME IInv, NEW h \in Handler, Cancel(h)
  PROVE  [Promise!Next]_Promise!soVars
<1> USE LeaveAssumption
<1>0. PICK t \in Target : t = frame[h].t
  BY DEF IInv, TypeOK, Frame
<1>1. ASSUME UNCHANGED <<inst, actions, leave>> PROVE UNCHANGED Promise!soVars
  BY <1>1, Stutter DEF ChainsSame, Abstract, routed, required, signed, vetoed, Promise!soVars
<1>2. ASSUME NEW u \in Target, CancelRead(h, u) PROVE UNCHANGED Promise!soVars
  BY <1>1, <1>2 DEF CancelRead, leaveVars
<1>3. CASE CancelRevert(h) \/ CancelRecalc(h)
  BY <1>1, <1>3 DEF CancelRevert, CancelRecalc
<1>4. CASE CancelInstance(h)
  <2>1. CancelByTarget(t) /\ actions' = actions /\ leave' = leave /\ TypeOK
    BY <1>0, <1>4 DEF CancelInstance, leaveVars, IInv
  <2>2. ChainsSame
    BY <2>1, CancelGrows DEF ChainsSame
  <2>3. QED
    BY <2>1, <2>2, Stutter DEF Abstract, routed, required, signed, vetoed, Promise!soVars
<1>5. CASE CancelUpdate(h)
  <2>1. leave[t] # "none" /\ leave' = [leave EXCEPT ![t] = "CANCELLED"] /\ UNCHANGED <<inst, actions>>
    BY <1>0, <1>5 DEF CancelUpdate, IInv, WriteOk
  <2>2. UNCHANGED <<routed, required, signed, vetoed>>
    BY <2>1, SameChains, SameTrail DEF ChainsSame
  <2>3. Promise!Withdraw(t)
    BY <2>1, <2>2 DEF Promise!Withdraw, routed, required, signed, vetoed
  <2>4. QED
    BY <2>3 DEF Promise!Next
<1>6. QED
  BY <1>2, <1>3, <1>4, <1>5 DEF Cancel

\* The listener gives effect to what was signed, or refuses what was refused.
LEMMA ListenKeeps ==
  ASSUME IInv, NEW h \in Handler, Listen(h)
  PROVE  [Promise!Next]_Promise!soVars
<1> USE LeaveAssumption
<1>0. PICK t \in Target : t = frame[h].t
  BY DEF IInv, TypeOK, Frame
<1>1. ASSUME UNCHANGED <<inst, actions, leave>> PROVE UNCHANGED Promise!soVars
  BY <1>1, Stutter DEF ChainsSame, Abstract, routed, required, signed, vetoed, Promise!soVars
<1>2. CASE ListenRead(h) \/ ListenRecalc(h)
  BY <1>1, <1>2 DEF ListenRead, ListenRecalc, leaveVars
<1>3. ASSUME UNCHANGED <<inst, actions>> PROVE UNCHANGED <<routed, required, signed, vetoed>>
  BY <1>3, SameChains, SameTrail DEF ChainsSame
<1>4. CASE ListenReject(h)
  <2>1. Vetoed(t) /\ leave' = [leave EXCEPT ![t] = "REJECTED"] /\ UNCHANGED <<inst, actions>>
    BY <1>0, <1>4 DEF ListenReject, IInv, ListenOk
  <2>2. UNCHANGED <<routed, required, signed, vetoed>>
    BY <1>3, <2>1
  <2>3. Promise!Refuse(t)
    BY <2>1, <2>2 DEF Promise!Refuse, Vetoed, routed, required, signed, vetoed
  <2>4. QED
    BY <2>3 DEF Promise!Next
<1>5. CASE ListenApprove(h)
  <2>1. Routed(t) /\ FullySigned(t) /\ leave' = [leave EXCEPT ![t] = "APPROVED"]
        /\ UNCHANGED <<inst, actions>>
    BY <1>0, <1>5 DEF ListenApprove, IInv, ListenOk
  <2>2. UNCHANGED <<routed, required, signed, vetoed>>
    BY <1>3, <2>1
  <2>3. Active(t) \subseteq {k \in Step : Signed(t, k)}
    BY <2>1 DEF FullySigned, Active
  <2>4. Promise!TakeEffect(t)
    BY <2>1, <2>2, <2>3 DEF Promise!TakeEffect, Routed, routed, required, signed, vetoed
  <2>5. QED
    BY <2>4 DEF Promise!Next
<1>6. QED
  BY <1>2, <1>4, <1>5 DEF Listen

\* Every step of LeaveApproval is a step of the promise or a stutter.
LEMMA NextKeeps == IInv /\ [Next]_vars => [Promise!Next]_Promise!soVars
<1> SUFFICES ASSUME IInv, [Next]_vars PROVE [Promise!Next]_Promise!soVars
  OBVIOUS
<1>1. ASSUME UNCHANGED <<inst, actions, leave>> PROVE UNCHANGED Promise!soVars
  BY <1>1, Stutter DEF ChainsSame, Abstract, routed, required, signed, vetoed, Promise!soVars
<1>2. ASSUME NEW h \in Handler, Fail(h) PROVE UNCHANGED Promise!soVars
  BY <1>1, <1>2 DEF Fail
<1>3. ASSUME NEW d \in Day, WorkerRead(d) \/ LockDay(d) PROVE UNCHANGED Promise!soVars
  BY <1>1, <1>3 DEF WorkerRead, LockDay, engineVars
<1>4. CASE WorkerWrite \/ WorkerFail
  BY <1>1, <1>4 DEF WorkerWrite, WorkerFail, engineVars
<1>5. CASE UNCHANGED vars
  BY <1>1, <1>5 DEF vars
<1>6. QED
  BY <1>2, <1>3, <1>4, <1>5, DecideKeeps, CreateKeeps, CancelKeeps, ListenKeeps DEF Next

\* Leave requests are treated as the engine promises: a request takes effect only
\* when every required step has signed, steps sign in order, and it is refused
\* only if someone on turn refused it.
THEOREM LeaveImplementsSignOff == Spec => KeepsPromise
<1>1. Init => Promise!Init
  <2>1. SUFFICES ASSUME Init PROVE Promise!Init
    OBVIOUS
  <2>2. /\ \A t \in Target : inst[t].status = "none" /\ inst[t].approvers = [k \in Step |-> {}]
        /\ actions = {} /\ leave = [t \in Target |-> "none"]
    BY <2>1, LeaveAssumption DEF Init, EngineInit, NoRow
  <2>3. \A t \in Target : Active(t) = {} /\ {k \in Step : Signed(t, k)} = {}
    BY <2>2 DEF Active, Signed
  <2>4. QED
    BY <2>2, <2>3 DEF Promise!Init
<1>2. QED
  BY <1>1, Inductive, NextKeeps, PTL DEF Spec, KeepsPromise, Promise!Spec

-----------------------------------------------------------------------------
(* One handler at a time: what LedgerMatchesStatus, NoOverlap and            *)
(* ClosedStaysClosed say, which rivals would break.                          *)

\* The single handler is everybody.
LEMMA Everybody ==
  ASSUME OneAtATime, NEW h \in Handler
  PROVE  \A g \in Handler : g = h
BY DEF OneAtATime

\* Nobody has given back a request when the single handler is elsewhere.
LEMMA GivenBackBy ==
  ASSUME OneAtATime, NEW h \in Handler, NEW t
  PROVE  GivenBack(t) <=> /\ frame[h].t = t /\ leave[t] = "APPROVED"
                          /\ pc[h] \in {"x.recalc", "x.update"}
BY Everybody DEF GivenBack

\* A step that leaves requests and ledger alone, by a handler that reads what is
\* there, keeps the serial invariant unless it enters or leaves a cancellation.
LEMMA SerialQuiet ==
  ASSUME OneAtATime, SerialInv, NEW h \in Handler, ReadOk(h)',
         UNCHANGED <<leave, usage, revert>>, fails' = 0 => fails = 0,
         fails' = 0 => \A t \in Paid : GivenBack(t)' <=> GivenBack(t)
  PROVE  SerialInv'
<1>1. NoOverlap'
  BY DEF SerialInv, NoOverlap
<1>2. \A g \in Handler : ReadOk(g)'
  BY Everybody
<1>3. fails' = 0 => \A t \in Paid : LedgerOk(t)'
  BY DEF SerialInv, LedgerOk
<1>4. QED
  BY <1>1, <1>2, <1>3 DEF SerialInv

\* A write to one request in force, or one that closes it, adds no overlap.
LEMMA StatusSerial ==
  ASSUME NoOverlap, NEW t \in Target, NEW s, leave \in [Target -> LeaveStatus],
         leave' = [leave EXCEPT ![t] = s],
         \/ s \notin {"PENDING", "APPROVED"}
         \/ leave[t] \in {"PENDING", "APPROVED"}
         \/ Overlapping(t) = {}
  PROVE  NoOverlap'
<1>1. SUFFICES ASSUME NEW u \in Target, NEW v \in Target, u # v,
                      leave'[u] \in {"PENDING", "APPROVED"}, leave'[v] \in {"PENDING", "APPROVED"}
               PROVE  DaysOf[u] \cap DaysOf[v] = {}
  BY DEF NoOverlap
<1>2. CASE u # t /\ v # t
  BY <1>1, <1>2 DEF NoOverlap
<1>3. CASE u = t \/ v = t
  BY <1>1, <1>3 DEF NoOverlap, Overlapping
<1>4. QED
  BY <1>2, <1>3

\* The steps of decide.
LEMMA DecideSerial ==
  ASSUME OneAtATime, IInv, SerialInv, NEW h \in Handler, DecideStep(h)
  PROVE  SerialInv'
<1>1. UNCHANGED <<leave, usage, revert, fails>> /\ TypeOK
  BY DEF DecideStep, leaveVars, IInv
<1>2. ReadOk(h) /\ pc \in [Handler -> EnginePc \cup LeavePc] /\ frame \in [Handler -> Frame]
  BY <1>1 DEF SerialInv, TypeOK
<1>3. pc[h] \in {"idle", "act", "update"} /\ pc'[h] \in {"idle", "act", "update", "emit"}
  BY <1>2 DEF DecideStep, Decide, DecideRead, DecideAct, DecideReject, DecideApprove,
              DecideForward, Goto, Return, Announce
<1>4. \A t \in Paid : GivenBack(t)' <=> GivenBack(t)
  BY <1>3, Everybody DEF GivenBack
<1>5. pc'[h] \in {"act", "update"} => inst'[frame'[h].i].status = "PENDING"
  <2>1. ASSUME NEW i \in Instance, NEW u \in User, NEW d \in Decision, DecideRead(h, i, u, d)
        PROVE  inst'[frame'[h].i].status = "PENDING"
    BY <1>2, <2>1 DEF DecideRead, Frame
  <2>2. CASE DecideAct(h)
    BY <1>2, <2>2 DEF DecideAct, ReadOk
  <2>3. CASE DecideReject(h) \/ DecideApprove(h) \/ DecideForward(h)
    BY <1>2, <2>3 DEF DecideReject, DecideApprove, DecideForward, Goto, Return, Announce
  <2>4. QED
    BY <2>1, <2>2, <2>3 DEF DecideStep, Decide
<1>6. ReadOk(h)'
  BY <1>3, <1>5 DEF ReadOk
<1>7. QED
  BY <1>1, <1>4, <1>6, SerialQuiet

\* The steps of createRequest.
LEMMA CreateSerial ==
  ASSUME OneAtATime, IInv, SerialInv, NEW h \in Handler, Create(h)
  PROVE  SerialInv'
<1> USE LeaveAssumption
<1>1. UNCHANGED <<usage, revert, fails>> /\ TypeOK /\ ReadOk(h) /\ WriteOk(h)
  BY DEF Create, CreateCheck, CreateReadEntries, CreateReadPending, CreateInsert, CreateApproval,
         leaveVars, IInv, SerialInv
<1>2. pc \in [Handler -> EnginePc \cup LeavePc] /\ frame \in [Handler -> Frame]
      /\ leave \in [Target -> LeaveStatus]
  BY <1>1 DEF TypeOK
<1>3. /\ pc[h] \in {"idle", "c.entries", "c.pending", "c.insert", "c.approval"}
      /\ pc'[h] \in {"idle", "c.entries", "c.pending", "c.insert", "c.approval", "emit"}
  BY <1>2 DEF Create, CreateCheck, CreateReadEntries, CreateReadPending, CreateInsert,
              CreateApproval, Goto, Return, Announce
<1>4. \A t \in Paid : ~ GivenBack(t)' /\ ~ GivenBack(t)
  BY <1>3, Everybody DEF GivenBack
<1>5. CASE CreateInsert(h)
  <2>1. PICK t \in Target : t = frame[h].t
    BY <1>2 DEF Frame
  <2>2. leave[t] = "none" /\ leave' = [leave EXCEPT ![t] = "PENDING"] /\ Overlapping(t) = {}
    BY <1>1, <1>5, <2>1 DEF CreateInsert, ReadOk, WriteOk
  <2>3. NoOverlap'
    BY <1>2, <2>2, StatusSerial DEF SerialInv
  <2>4. ReadOk(h)'
    BY <1>2, <1>5 DEF CreateInsert, ReadOk, Goto
  <2>5. fails' = 0 => \A u \in Paid : LedgerOk(u)'
    BY <1>1, <1>2, <1>4, <2>2 DEF SerialInv, LedgerOk
  <2>6. QED
    BY <2>3, <2>4, <2>5, Everybody DEF SerialInv
<1>6. CASE ~ CreateInsert(h)
  <2>1. leave' = leave
    BY <1>6 DEF Create, CreateCheck, CreateReadEntries, CreateReadPending, CreateApproval, leaveVars
  <2>2. \A t : Overlapping(t)' = Overlapping(t)
    BY <2>1 DEF Overlapping
  <2>3. pc'[h] \in {"c.entries", "c.pending", "c.insert"} => Overlapping(frame'[h].t) = {}
    <3>1. ASSUME NEW t \in Target, CreateCheck(h, t) PROVE Overlapping(frame'[h].t) = {}
      BY <1>2, <3>1 DEF CreateCheck, Frame
    <3>2. CASE CreateReadEntries(h) \/ CreateReadPending(h)
      BY <1>1, <1>2, <3>2 DEF CreateReadEntries, CreateReadPending, ReadOk, Goto, Return
    <3>3. CASE CreateApproval(h)
      BY <1>2, <3>3 DEF CreateApproval, Return, Announce, Goto
    <3>4. QED
      BY <1>6, <3>1, <3>2, <3>3 DEF Create
  <2>4. ReadOk(h)'
    BY <1>3, <2>2, <2>3 DEF ReadOk
  <2>5. QED
    BY <1>1, <1>4, <2>1, <2>4, SerialQuiet
<1>7. QED
  BY <1>5, <1>6

\* The steps of cancelRequest.
LEMMA CancelSerial ==
  ASSUME OneAtATime, IInv, SerialInv, NEW h \in Handler, Cancel(h)
  PROVE  SerialInv'
<1> USE LeaveAssumption
<1>1. UNCHANGED fails /\ TypeOK /\ ReadOk(h) /\ NoOverlap
  BY DEF Cancel, CancelRead, CancelInstance, CancelRevert, CancelRecalc, CancelUpdate,
         leaveVars, IInv, SerialInv
<1>2. pc \in [Handler -> EnginePc \cup LeavePc] /\ frame \in [Handler -> Frame]
      /\ leave \in [Target -> LeaveStatus] /\ usage \in [Target -> Nat] /\ revert \in [Target -> Nat]
  BY <1>1 DEF TypeOK
<1>3. PICK t \in Target : t = frame[h].t
  BY <1>2 DEF Frame
<1>4. CASE CancelUpdate(h)
  <2>1. /\ leave' = [leave EXCEPT ![t] = "CANCELLED"] /\ UNCHANGED <<usage, revert>>
        /\ pc[h] = "x.update" /\ pc'[h] = "idle" /\ leave[t] \in {"PENDING", "APPROVED"}
    BY <1>1, <1>2, <1>3, <1>4 DEF CancelUpdate, Return, Goto, ReadOk
  <2>2. NoOverlap'
    BY <1>1, <1>2, <2>1, StatusSerial
  <2>3. \A u \in Target : ~ GivenBack(u)' /\ (GivenBack(u) <=> u = t /\ leave[t] = "APPROVED")
    BY <1>3, <2>1, Everybody DEF GivenBack
  <2>4. fails' = 0 => \A u \in Paid : LedgerOk(u)'
    BY <1>1, <1>2, <2>1, <2>3 DEF SerialInv, LedgerOk
  <2>5. ReadOk(h)'
    BY <2>1 DEF ReadOk
  <2>6. QED
    BY <2>2, <2>4, <2>5, Everybody DEF SerialInv
<1>5. CASE CancelRevert(h)
  <2>1. /\ UNCHANGED <<frame, leave, usage>> /\ pc[h] = "x.revert" /\ pc'[h] = "x.recalc"
        /\ revert' = [revert EXCEPT ![t] = @ + 1] /\ leave[t] = "APPROVED"
    BY <1>1, <1>2, <1>3, <1>5 DEF CancelRevert, Goto, ReadOk
  <2>2. \A u \in Target : ~ GivenBack(u) /\ (GivenBack(u)' <=> u = t)
    BY <1>3, <2>1, Everybody DEF GivenBack
  <2>3. fails' = 0 => \A u \in Paid : LedgerOk(u)'
    BY <1>1, <1>2, <2>1, <2>2 DEF SerialInv, LedgerOk
  <2>4. ReadOk(h)' /\ NoOverlap'
    BY <1>1, <1>3, <2>1 DEF ReadOk, NoOverlap
  <2>5. QED
    BY <2>3, <2>4, Everybody DEF SerialInv
<1>6. CASE \E u \in Target : CancelRead(h, u)
  <2>1. PICK u \in Target : CancelRead(h, u)
    BY <1>6
  <2>2. /\ pc[h] = "idle" /\ pc'[h] \in {"x.pending", "x.approved"} /\ frame'[h].t = u
        /\ leave[u] = IF pc'[h] = "x.pending" THEN "PENDING" ELSE "APPROVED"
        /\ UNCHANGED <<leave, usage, revert>>
    BY <1>2, <2>1 DEF CancelRead, Goto, Frame, leaveVars
  <2>3. ReadOk(h)' /\ \A v : ~ GivenBack(v) /\ ~ GivenBack(v)'
    BY <2>2, Everybody DEF ReadOk, GivenBack
  <2>4. QED
    BY <1>1, <2>2, <2>3, SerialQuiet
<1>7. CASE CancelInstance(h)
  <2>1. /\ UNCHANGED <<frame, leave, usage, revert>> /\ pc[h] \in {"x.pending", "x.approved"}
        /\ pc'[h] = IF pc[h] = "x.approved" THEN "x.revert" ELSE "x.update"
    BY <1>2, <1>7 DEF CancelInstance, Goto, leaveVars
  <2>2. ReadOk(h)' /\ \A v : ~ GivenBack(v) /\ ~ GivenBack(v)'
    BY <1>1, <2>1, Everybody DEF ReadOk, GivenBack
  <2>3. QED
    BY <1>1, <2>1, <2>2, SerialQuiet
<1>8. CASE CancelRecalc(h)
  <2>1. UNCHANGED <<frame, leave, usage, revert>> /\ pc[h] = "x.recalc" /\ pc'[h] = "x.update"
    BY <1>2, <1>8 DEF CancelRecalc, Goto
  <2>2. ReadOk(h)' /\ \A v : GivenBack(v) <=> GivenBack(v)'
    BY <1>1, <2>1, Everybody DEF ReadOk, GivenBack
  <2>3. QED
    BY <1>1, <2>1, <2>2, SerialQuiet
<1>9. QED
  BY <1>4, <1>5, <1>6, <1>7, <1>8 DEF Cancel

\* The steps of the listener.
LEMMA ListenSerial ==
  ASSUME OneAtATime, IInv, SerialInv, NEW h \in Handler, Listen(h)
  PROVE  SerialInv'
<1> USE LeaveAssumption
<1>1. UNCHANGED <<revert, fails>> /\ TypeOK /\ ReadOk(h) /\ NoOverlap
  BY DEF Listen, ListenRead, ListenReject, ListenApprove, ListenRecalc, leaveVars, IInv, SerialInv
<1>2. pc \in [Handler -> EnginePc \cup LeavePc] /\ frame \in [Handler -> Frame]
      /\ leave \in [Target -> LeaveStatus] /\ usage \in [Target -> Nat] /\ revert \in [Target -> Nat]
  BY <1>1 DEF TypeOK
<1>3. PICK t \in Target : t = frame[h].t
  BY <1>2 DEF Frame
<1>4. /\ pc[h] \in {"emit", "l.reject", "l.approve", "l.recalc"}
      /\ pc'[h] \in {"idle", "l.reject", "l.approve", "l.recalc"}
  BY <1>2 DEF Listen, ListenRead, ListenReject, ListenApprove, ListenRecalc, Goto, Return
<1>5. \A u : ~ GivenBack(u)' /\ ~ GivenBack(u)
  BY <1>4, Everybody DEF GivenBack
<1>6. ASSUME NEW s \in {"REJECTED", "APPROVED"}, leave' = [leave EXCEPT ![t] = s],
             pc[h] \in {"l.reject", "l.approve"}, pc'[h] \in {"idle", "l.recalc"},
             usage' = IF s = "APPROVED" /\ t \in Paid THEN [usage EXCEPT ![t] = @ + 1] ELSE usage
      PROVE  SerialInv'
  <2>1. leave[t] = "PENDING"
    BY <1>1, <1>3, <1>6 DEF ReadOk
  <2>2. NoOverlap'
    BY <1>1, <1>2, <1>6, <2>1, StatusSerial
  <2>3. fails' = 0 => \A u \in Paid : LedgerOk(u)'
    <3>1. ASSUME fails = 0, NEW u \in Paid PROVE LedgerOk(u)'
      <4>1. LedgerOk(u) /\ u \in Target
        BY <3>1 DEF SerialInv
      <4>2. CASE u = t
        <5>1. usage[t] = 0 /\ revert[t] = 0
          BY <1>2, <1>5, <2>1, <4>1, <4>2 DEF LedgerOk
        <5>2. leave'[t] = s /\ usage'[t] = IF s = "APPROVED" THEN 1 ELSE 0
          BY <1>2, <1>6, <3>1, <4>2, <5>1
        <5>3. QED
          BY <1>1, <1>5, <4>2, <5>1, <5>2 DEF LedgerOk
      <4>3. CASE u # t
        <5>1. leave'[u] = leave[u] /\ usage'[u] = usage[u]
          BY <1>2, <1>6, <4>1, <4>3
        <5>2. QED
          BY <1>1, <1>5, <4>1, <5>1 DEF LedgerOk
      <4>4. QED
        BY <4>2, <4>3
    <3>2. QED
      BY <1>1, <3>1
  <2>4. ReadOk(h)'
    BY <1>6 DEF ReadOk
  <2>5. QED
    BY <2>2, <2>3, <2>4, Everybody DEF SerialInv
<1>7. CASE ListenReject(h)
  BY <1>2, <1>3, <1>6, <1>7 DEF ListenReject, Return, Goto
<1>8. CASE ListenApprove(h)
  BY <1>2, <1>3, <1>6, <1>8 DEF ListenApprove, Goto
<1>9. CASE ListenRead(h) \/ ListenRecalc(h)
  <2>1. UNCHANGED <<leave, usage>>
    BY <1>9 DEF ListenRead, ListenRecalc, leaveVars
  <2>2. pc'[h] # "l.recalc" /\ (pc'[h] \in {"l.reject", "l.approve"} => leave'[frame'[h].t] = "PENDING")
    BY <1>2, <1>9, <2>1 DEF ListenRead, ListenRecalc, Goto, Return
  <2>3. ReadOk(h)'
    BY <1>4, <2>2 DEF ReadOk
  <2>4. QED
    BY <1>1, <1>5, <2>1, <2>3, SerialQuiet
<1>10. QED
  BY <1>7, <1>8, <1>9 DEF Listen

\* A failure ends the only handler; neither the worker nor a lock touches request or ledger.
LEMMA OtherSerial ==
  ASSUME IInv, SerialInv
  PROVE  /\ OneAtATime => \A h \in Handler : Fail(h) => SerialInv'
         /\ (\E d \in Day : WorkerRead(d) \/ LockDay(d)) \/ WorkerWrite \/ WorkerFail \/ UNCHANGED vars => SerialInv'
<1>1. ASSUME OneAtATime, NEW h \in Handler, Fail(h) PROVE SerialInv'
  <2>1. /\ UNCHANGED <<leave, usage, revert>> /\ pc'[h] = "idle"
        /\ fails' = fails + 1 /\ fails \in Nat
    BY <1>1 DEF Fail, Return, Goto, IInv, TypeOK
  <2>2. ReadOk(h)' /\ fails' # 0
    BY <2>1 DEF ReadOk
  <2>3. QED
    BY <1>1, <2>1, <2>2, SerialQuiet
<1>2. ASSUME (\E d \in Day : WorkerRead(d) \/ LockDay(d)) \/ WorkerWrite \/ WorkerFail \/ UNCHANGED vars
      PROVE  SerialInv'
  <2>1. UNCHANGED <<inst, pc, frame, leave, usage, revert>>
    BY <1>2 DEF WorkerRead, LockDay, WorkerWrite, WorkerFail, vars, engineVars
  <2>2. fails' = 0 => fails = 0
    BY <1>2 DEF WorkerRead, LockDay, WorkerWrite, WorkerFail, vars, IInv, TypeOK
  <2>3. NoOverlap' /\ \A h \in Handler : ReadOk(h)'
    BY <2>1 DEF SerialInv, NoOverlap, ReadOk, Overlapping
  <2>4. \A t : GivenBack(t)' <=> GivenBack(t)
    BY <2>1 DEF GivenBack
  <2>5. fails' = 0 => \A t \in Paid : LedgerOk(t)'
    BY <2>1, <2>2, <2>4 DEF SerialInv, LedgerOk
  <2>6. QED
    BY <2>3, <2>5 DEF SerialInv
<1>3. QED
  BY <1>1, <1>2

\* A single handler keeps the serial invariant.
LEMMA NextSerial ==
  ASSUME OneAtATime, IInv, SerialInv, [Next]_vars
  PROVE  SerialInv'
BY DecideSerial, CreateSerial, CancelSerial, ListenSerial, OtherSerial DEF Next

\* With one handler at a time, what a handler has read is true when it writes.
THEOREM SerialInductive ==
  ASSUME OneAtATime
  PROVE  Spec => []SerialInv
<1>1. Init => SerialInv
  <2>1. SUFFICES ASSUME Init PROVE SerialInv
    OBVIOUS
  <2>2. /\ \A t \in Target : leave[t] = "none" /\ usage[t] = 0 /\ revert[t] = 0
        /\ \A h \in Handler : pc[h] = "idle"
    BY <2>1 DEF Init, EngineInit
  <2>3. QED
    BY <2>2, LeaveAssumption DEF SerialInv, NoOverlap, ReadOk, LedgerOk
<1>2. IInv /\ SerialInv /\ [Next]_vars => SerialInv'
  BY NextSerial
<1>3. QED
  BY <1>1, <1>2, Inductive, PTL DEF Spec

\* With one handler at a time no two requests in force share a day: the check of
\* createRequest is enough, and approval and cancellation keep what it found.
THEOREM RequestsApart ==
  ASSUME OneAtATime
  PROVE  Spec => []NoOverlap
<1>1. SerialInv => NoOverlap
  BY DEF SerialInv
<1>2. QED
  BY <1>1, SerialInductive, PTL

\* With one handler at a time, and none of them cut short, the ledger of a paid
\* request says what its status says.
THEOREM LedgerAgrees ==
  ASSUME OneAtATime
  PROVE  Spec => []LedgerMatchesStatus
<1>1. IInv /\ SerialInv => LedgerMatchesStatus
  BY LeaveAssumption DEF SerialInv, IInv, TypeOK, LedgerOk, GivenBack, LedgerMatchesStatus, Quiet
<1>2. QED
  BY <1>1, SerialInductive, Inductive, PTL

\* A row and a request that are closed.
Finished(i) == inst[i].status \in Status \ {"PENDING"}
Settled(t)  == leave[t] \in {"REJECTED", "CANCELLED"}

\* Writes to a row that is open and to a request that is in force or new leave
\* what is closed alone.
LEMMA OnlyOpenWritten ==
  ASSUME IInv, SerialInv, NEW h \in Handler, Create(h) \/ Cancel(h) \/ DecideStep(h) \/ Listen(h)
  PROVE  /\ \A i \in Instance : Finished(i) => inst'[i] = inst[i]
         /\ \A t \in Target : Settled(t) => leave'[t] = leave[t]
<1> USE LeaveAssumption
<1>1. TypeOK /\ ReadOk(h) /\ WriteOk(h)
  BY DEF IInv, SerialInv
<1>2. /\ inst \in [Instance -> Row] /\ frame \in [Handler -> Frame] /\ frame[h] \in Frame
      /\ leave \in [Target -> LeaveStatus]
  BY <1>1 DEF TypeOK
<1>3. \A t \in Target : Settled(t) => leave'[t] = leave[t]
  <2>1. PICK t \in Target : t = frame[h].t
    BY <1>2 DEF Frame
  <2>2. CASE CreateInsert(h)
    BY <1>1, <1>2, <2>1, <2>2 DEF CreateInsert, WriteOk, Settled
  <2>3. CASE CancelUpdate(h)
    BY <1>1, <1>2, <2>1, <2>3 DEF CancelUpdate, ReadOk, Settled
  <2>4. CASE ListenReject(h) \/ ListenApprove(h)
    BY <1>1, <1>2, <2>1, <2>4 DEF ListenReject, ListenApprove, ReadOk, Settled
  <2>5. CASE ~ CreateInsert(h) /\ ~ CancelUpdate(h) /\ ~ ListenReject(h) /\ ~ ListenApprove(h)
    <3>1. leave' = leave
      BY <2>5 DEF Create, CreateCheck, CreateReadEntries, CreateReadPending, CreateApproval,
                  Cancel, CancelRead, CancelInstance, CancelRevert, CancelRecalc,
                  Listen, ListenRead, ListenRecalc, DecideStep, leaveVars
    <3>2. QED
      BY <3>1
  <2>6. QED
    BY <2>2, <2>3, <2>4, <2>5
<1>4. ASSUME NEW i \in Instance, Finished(i) PROVE inst'[i] = inst[i]
  <2>1. ASSUME NEW j \in Instance, inst[j].status \in {"none", "PENDING"},
               \A k \in Instance \ {j} : inst'[k] = inst[k]
        PROVE  inst'[i] = inst[i]
    BY <1>4, <2>1 DEF Finished, Status
  <2>2. CASE CreateApproval(h)
    <3>1. PICK resolved \in [Step -> Resolution] :
            CreatePending(frame[h].t, frame[h].t, resolved)
            \/ CreateApproved(frame[h].t, frame[h].t, resolved)
      BY <2>2 DEF CreateApproval
    <3>2. frame[h].t \in Instance
      BY <1>2 DEF Frame
    <3>3. PICK j \in Instance : j = frame[h].t
      BY <3>2
    <3>4. inst[j].status = "none" /\ \A k \in Instance \ {j} : inst'[k] = inst[k]
      BY <1>2, <3>1, <3>3 DEF CreatePending, CreateApproved
    <3>5. QED
      BY <2>1, <3>4
  <2>3. CASE CancelInstance(h)
    BY <1>4, <2>3 DEF CancelInstance, CancelByTarget, Finished
  <2>4. CASE DecideReject(h) \/ DecideApprove(h) \/ DecideForward(h)
    <3>1. PICK j \in Instance : j = frame[h].i
      BY <1>2 DEF Frame
    <3>2. inst[j].status = "PENDING"
      BY <1>1, <2>4, <3>1 DEF DecideReject, DecideApprove, DecideForward, ReadOk
    <3>3. \A k \in Instance \ {j} : inst'[k] = inst[k]
      BY <1>2, <2>4, <3>1 DEF DecideReject, DecideApprove, DecideForward, WriteRow
    <3>4. QED
      BY <2>1, <3>2, <3>3
  <2>5. CASE /\ ~ CreateApproval(h) /\ ~ CancelInstance(h)
             /\ ~ DecideReject(h) /\ ~ DecideApprove(h) /\ ~ DecideForward(h)
    <3>1. inst' = inst
      BY <2>5 DEF Create, CreateCheck, CreateReadEntries, CreateReadPending, CreateInsert,
                  Cancel, CancelRead, CancelRevert, CancelRecalc, CancelUpdate,
                  Listen, ListenRead, ListenReject, ListenApprove, ListenRecalc,
                  DecideStep, Decide, DecideRead, DecideAct
    <3>2. QED
      BY <3>1
  <2>6. QED
    BY <2>2, <2>3, <2>4, <2>5
<1>5. QED
  BY <1>3, <1>4

\* With one handler at a time a closed row and a closed request stay as they are.
THEOREM ClosedForGood ==
  ASSUME OneAtATime
  PROVE  Spec => ClosedStaysClosed
<1>1. IInv /\ SerialInv /\ [Next]_vars =>
        [/\ \A i \in Instance : inst[i].status \in Status \ {"PENDING"} => inst'[i] = inst[i]
         /\ \A t \in Target : leave[t] \in {"REJECTED", "CANCELLED"} => leave'[t] = leave[t]]_vars
  <2>1. SUFFICES ASSUME IInv, SerialInv, Next
                 PROVE  /\ \A i \in Instance : Finished(i) => inst'[i] = inst[i]
                        /\ \A t \in Target : Settled(t) => leave'[t] = leave[t]
    BY DEF Finished, Settled
  <2>2. ASSUME UNCHANGED <<inst, leave>>
        PROVE  /\ \A i \in Instance : Finished(i) => inst'[i] = inst[i]
               /\ \A t \in Target : Settled(t) => leave'[t] = leave[t]
    BY <2>2
  <2>3. CASE WorkerWrite \/ WorkerFail \/ \E d \in Day : WorkerRead(d) \/ LockDay(d)
    BY <2>2, <2>3 DEF WorkerWrite, WorkerFail, WorkerRead, LockDay, engineVars
  <2>4. CASE \E h \in Handler : Fail(h)
    BY <2>2, <2>4 DEF Fail
  <2>5. QED
    BY <2>1, <2>3, <2>4, OnlyOpenWritten DEF Next
<1>2. QED
  BY <1>1, SerialInductive, Inductive, PTL DEF Spec, ClosedStaysClosed

-----------------------------------------------------------------------------
(* Sums over finite sets: MapThenSumSet takes the elements in the order of a *)
(* CHOOSE, and the sum does not depend on it.                                *)

\* A set of numbers that is not empty has a least one.
LEMMA LeastExists ==
  ASSUME NEW B \in SUBSET Nat, B # {}
  PROVE  \E m \in B : \A k \in B : m <= k
<1>1. PICK m \in B : \A k \in B : <<k, m>> \notin OpToRel(<, Nat)
  BY NatLessThanWellFounded, WFMin
<1>2. \A k \in B : ~ (k < m)
  BY <1>1 DEF OpToRel
<1>3. QED
  BY <1>2

\* The sum of w over S, as MapThenSumSet takes it: the element it takes from a
\* set, and its table of the sums over every subset.
Any(s)     == CHOOSE x \in s : TRUE
Table(w, D, f) == f = [s \in D |-> IF s = {} THEN 0 ELSE w[Any(s)] + f[s \ {Any(s)}]]
Sums(w, S) == CHOOSE f : f = [s \in SUBSET S |-> IF s = {} THEN 0 ELSE w[Any(s)] + f[s \ {Any(s)}]]
Total(w, S) == MapThenSumSet(LAMBDA x : w[x], S)

\* MapThenSumSet reads the table of its own set.
LEMMA TotalIs == ASSUME NEW w, NEW S PROVE Total(w, S) = Sums(w, S)[S]
BY DEF Total, Sums, Any, MapThenSumSet, MapThenFoldSet

\* What is left of a finite set when an element is taken is smaller.
LEMMA OneLess ==
  ASSUME NEW s, IsFiniteSet(s), NEW x \in s
  PROVE  /\ IsFiniteSet(s \ {x})
         /\ Cardinality(s) \in Nat /\ Cardinality(s \ {x}) \in Nat
         /\ Cardinality(s \ {x}) = Cardinality(s) - 1
BY FS_RemoveElement, FS_CardinalityType

\* The table of a finite set exists, so the sum is what its definition says.
LEMMA TableExists ==
  ASSUME NEW w, NEW S, IsFiniteSet(S)
  PROVE  Table(w, SUBSET S, Sums(w, S))
<1> DEFINE D(n) == {s \in SUBSET S : Cardinality(s) <= n}
           B == {n \in Nat : ~ \E f : Table(w, D(n), f)}
<1>1. \A s \in SUBSET S : IsFiniteSet(s) /\ Cardinality(s) \in Nat /\ (Cardinality(s) = 0 <=> s = {})
  BY FS_Subset, FS_CardinalityType, FS_EmptySet
<1>2. \A s \in SUBSET S : s # {} => Any(s) \in s
  BY DEF Any
<1>3. B = {}
  <2>1. SUFFICES ASSUME B # {} PROVE FALSE
    OBVIOUS
  <2>2. PICK m \in B : \A k \in B : m <= k
    BY <2>1, LeastExists
  <2>3. CASE m = 0
    <3>1. D(m) = {{}}
      BY <1>1, <2>3
    <3>2. Table(w, D(m), [s \in D(m) |-> 0])
      BY <3>1 DEF Table
    <3>3. QED
      BY <2>2, <3>2
  <2>4. CASE m # 0
    <3>1. PICK n \in Nat : n + 1 = m
      BY <2>2, <2>4
    <3>2. n \notin B
      <4> HIDE DEF B
      <4>1. QED
        BY <2>2, <3>1
    <3>3. PICK f : Table(w, D(n), f)
      BY <3>2
    <3> DEFINE g == [s \in D(m) |-> IF s = {} THEN 0 ELSE w[Any(s)] + f[s \ {Any(s)}]]
    <3>4. \A s \in D(m) : s # {} => s \ {Any(s)} \in D(n)
      <4>1. SUFFICES ASSUME NEW s \in D(m), s # {} PROVE s \ {Any(s)} \in D(n)
        OBVIOUS
      <4>2. IsFiniteSet(s) /\ Any(s) \in s
        BY <1>1, <1>2, <4>1
      <4>3. Cardinality(s) \in Nat /\ Cardinality(s \ {Any(s)}) = Cardinality(s) - 1
        BY <4>2, OneLess
      <4>4. QED
        BY <3>1, <4>1, <4>3
    <3>5. \A s \in D(n) : s \in D(m)
      BY <1>1, <3>1
    <3>6. \A s \in D(n) : f[s] = IF s = {} THEN 0 ELSE w[Any(s)] + f[s \ {Any(s)}]
      <4> HIDE DEF D
      <4>1. QED
        BY <3>3 DEF Table
    <3>7. \A s \in D(n) : g[s] = f[s]
      <4> HIDE DEF D
      <4>1. QED
        BY <3>5, <3>6
    <3>8. g = [s \in D(m) |-> IF s = {} THEN 0 ELSE w[Any(s)] + g[s \ {Any(s)}]]
      <4>1. \A s \in D(m) : s # {} => g[s \ {Any(s)}] = f[s \ {Any(s)}]
        BY <3>4, <3>7
      <4> HIDE DEF D
      <4>2. QED
        BY <4>1
    <3>9. Table(w, D(m), g)
      BY <3>8 DEF Table
    <3>10. QED
      BY <2>2, <3>9
  <2>5. QED
    BY <2>3, <2>4
<1>4. Cardinality(S) \in Nat /\ \A s \in SUBSET S : Cardinality(s) <= Cardinality(S)
  BY FS_Subset, FS_CardinalityType
<1>5. PICK f : Table(w, D(Cardinality(S)), f)
  BY <1>3, <1>4
<1>6. D(Cardinality(S)) = SUBSET S
  BY <1>4
<1>7. Table(w, SUBSET S, f)
  BY <1>5, <1>6
<1>8. QED
  BY <1>7 DEF Table, Sums

\* The sum over a set is that over a larger set's table.
LEMMA SameTable ==
  ASSUME NEW w, NEW T, IsFiniteSet(T), NEW S \in SUBSET T
  PROVE  \A s \in SUBSET S : Sums(w, S)[s] = Sums(w, T)[s]
<1> DEFINE B == {n \in Nat : \E s \in SUBSET S : Cardinality(s) = n /\ Sums(w, S)[s] # Sums(w, T)[s]}
<1>1. IsFiniteSet(S) /\ \A s \in SUBSET S : IsFiniteSet(s) /\ Cardinality(s) \in Nat
  BY FS_Subset, FS_CardinalityType
<1>2. Table(w, SUBSET S, Sums(w, S)) /\ Table(w, SUBSET T, Sums(w, T))
  BY <1>1, TableExists
<1>3. /\ \A s \in SUBSET S : Sums(w, S)[s] = IF s = {} THEN 0 ELSE w[Any(s)] + Sums(w, S)[s \ {Any(s)}]
      /\ \A s \in SUBSET T : Sums(w, T)[s] = IF s = {} THEN 0 ELSE w[Any(s)] + Sums(w, T)[s \ {Any(s)}]
  BY <1>2 DEF Table
<1>4. B = {}
  <2>1. SUFFICES ASSUME B # {} PROVE FALSE
    OBVIOUS
  <2>2. PICK m \in B : \A k \in B : m <= k
    BY <2>1, LeastExists
  <2>3. PICK s \in SUBSET S : Cardinality(s) = m /\ Sums(w, S)[s] # Sums(w, T)[s]
    BY <2>2
  <2>4. s # {}
    BY <1>3, <2>3
  <2>5. Any(s) \in s
    BY <2>4 DEF Any
  <2>6. Cardinality(s \ {Any(s)}) \in Nat /\ Cardinality(s \ {Any(s)}) = m - 1
    BY <1>1, <2>3, <2>5, OneLess
  <2>7. Sums(w, S)[s \ {Any(s)}] = Sums(w, T)[s \ {Any(s)}]
    BY <2>2, <2>6
  <2>8. QED
    BY <1>3, <2>3, <2>4, <2>7
<1>5. QED
  BY <1>1, <1>4

\* The sum over S is that of any element and of the rest.
Splits(w, t, S) == t[S] \in Int /\ \A y \in S : t[S] = w[y] + t[S \ {y}]

\* A table of sums splits at any element, whichever one it takes first.
LEMMA TableSplits ==
  ASSUME NEW T, IsFiniteSet(T), NEW w \in [T -> Int], NEW t,
         \A S \in SUBSET T : t[S] = IF S = {} THEN 0 ELSE w[Any(S)] + t[S \ {Any(S)}]
  PROVE  \A S \in SUBSET T : Splits(w, t, S)
<1> DEFINE B == {Cardinality(S) : S \in {S \in SUBSET T : ~ Splits(w, t, S)}}
<1>1. \A S \in SUBSET T : IsFiniteSet(S) /\ Cardinality(S) \in Nat
  BY FS_Subset, FS_CardinalityType
<1>2. B = {}
  <2>1. SUFFICES ASSUME B # {} PROVE FALSE
    OBVIOUS
  <2>2. B \in SUBSET Nat
    BY <1>1
  <2>3. PICK m \in B : \A k \in B : m <= k
    <3> HIDE DEF B
    <3>1. QED
      BY <2>1, <2>2, LeastExists
  <2>4. PICK S \in SUBSET T : Cardinality(S) = m /\ ~ Splits(w, t, S)
    OBVIOUS
  <2>5. \A R \in SUBSET T : Cardinality(R) < m => Splits(w, t, R)
    <3>1. SUFFICES ASSUME NEW R \in SUBSET T, Cardinality(R) < m, ~ Splits(w, t, R) PROVE FALSE
      OBVIOUS
    <3>2. Cardinality(R) \in B
      BY <3>1
    <3> HIDE DEF B
    <3>3. m <= Cardinality(R) /\ m \in Nat /\ Cardinality(R) \in Nat
      BY <2>2, <2>3, <3>2
    <3>4. QED
      BY <3>1, <3>3
  <2> HIDE DEF B
  <2>6. S # {}
    BY <2>4 DEF Splits
  <2>7. PICK x \in S : x = Any(S)
    BY <2>6 DEF Any
  <2>8. ASSUME NEW y \in S PROVE /\ S \ {y} \in SUBSET T /\ Splits(w, t, S \ {y})
                                 /\ Cardinality(S \ {y}) = m - 1
    <3>1. Cardinality(S \ {y}) \in Nat /\ Cardinality(S \ {y}) = m - 1 /\ m \in Nat
      BY <1>1, <2>2, <2>3, <2>4, OneLess
    <3>2. QED
      BY <2>5, <3>1
  <2>9. t[S] = w[x] + t[S \ {x}] /\ w[x] \in Int /\ t[S \ {x}] \in Int
    BY <2>6, <2>7, <2>8 DEF Splits
  <2>10. ASSUME NEW y \in S, y # x PROVE t[S] = w[y] + t[S \ {y}]
    <3>1. t[S \ {x}] = w[y] + t[(S \ {x}) \ {y}]
      BY <2>8, <2>10 DEF Splits
    <3>2. t[S \ {y}] = w[x] + t[(S \ {y}) \ {x}]
      BY <2>8, <2>10 DEF Splits
    <3>3. (S \ {y}) \ {x} = (S \ {x}) \ {y}
      OBVIOUS
    <3>4. Splits(w, t, (S \ {x}) \ {y})
      <4>1. IsFiniteSet(S \ {x}) /\ y \in S \ {x} /\ Cardinality(S \ {x}) = m - 1
        BY <1>1, <2>8, <2>10
      <4>2. /\ Cardinality((S \ {x}) \ {y}) \in Nat /\ m \in Nat
            /\ Cardinality((S \ {x}) \ {y}) = m - 1 - 1
        BY <4>1, <2>2, <2>3, OneLess
      <4>3. QED
        BY <2>5, <4>2
    <3>5. PICK r \in Int : r = t[(S \ {x}) \ {y}]
      BY <3>4 DEF Splits
    <3>6. w[y] \in Int
      OBVIOUS
    <3>7. t[S] = w[x] + (w[y] + r) /\ t[S \ {y}] = w[x] + r
      BY <2>9, <3>1, <3>2, <3>3, <3>5
    <3>8. QED
      BY <2>9, <3>5, <3>6, <3>7
  <2>11. QED
    <3>1. t[S] \in Int
      BY <2>9
    <3>2. \A y \in S : t[S] = w[y] + t[S \ {y}]
      BY <2>9, <2>10
    <3>3. QED
      BY <2>4, <3>1, <3>2 DEF Splits
<1>3. QED
  BY <1>2

\* A sum over a finite set of requests is a number and splits at any element.
LEMMA TotalSplits ==
  ASSUME NEW T, IsFiniteSet(T), NEW w \in [T -> Int]
  PROVE  /\ Total(w, {}) = 0
         /\ \A S \in SUBSET T : /\ Total(w, S) \in Int
                                /\ \A y \in S : Total(w, S) = w[y] + Total(w, S \ {y})
<1>1. Table(w, SUBSET T, Sums(w, T))
  BY TableExists
<1>2. PICK t : t = Sums(w, T)
  OBVIOUS
<1>3. \A S \in SUBSET T : t[S] = IF S = {} THEN 0 ELSE w[Any(S)] + t[S \ {Any(S)}]
  BY <1>1, <1>2 DEF Table
<1>4. \A S \in SUBSET T : Splits(w, t, S)
  BY <1>3, TableSplits
<1>5. \A S \in SUBSET T : Total(w, S) = t[S]
  BY <1>2, SameTable, TotalIs
<1>6. t[{}] = 0
  BY <1>3
<1>7. ASSUME NEW S \in SUBSET T
      PROVE  Total(w, S) \in Int /\ \A y \in S : Total(w, S) = w[y] + Total(w, S \ {y})
  <2>1. \A y \in S : S \ {y} \in SUBSET T
    OBVIOUS
  <2>2. QED
    BY <1>4, <1>5, <2>1 DEF Splits
<1>8. QED
  BY <1>5, <1>6, <1>7
-----------------------------------------------------------------------------
(* The balance.                                                              *)

Open == {u \in Paid : leave[u] = "PENDING"}

\* What getBalance sums up, before and after a step.
LEMMA PendingNow == PendingCost = Total(Cost, Open)
BY DEF Total, PendingCost, Open

\* The same, before and after a step.
LEMMA PendingIs == PendingCost = Total(Cost, Open) /\ PendingCost' = Total(Cost, Open)'
<1>1. (PendingCost = Total(Cost, Open))'
  BY PendingNow, PTL
<1>2. QED
  BY <1>1, PendingNow

\* The costs are integers.
LEMMA CostIsInt == Cost \in [Target -> Int]
<1>1. \A t \in Target : Cost[t] \in Int
  BY LeaveAssumption
<1>2. Cost = [t \in Target |-> Cost[t]]
  BY LeaveAssumption
<1>3. QED
  BY <1>1, <1>2

\* A sum of costs is a number and splits at any request.
LEMMA CostSplits ==
  ASSUME IsFiniteSet(Target), NEW S \in SUBSET Target
  PROVE  /\ Total(Cost, S) \in Int
         /\ \A t \in S : Total(Cost, S) = Cost[t] + Total(Cost, S \ {t})
<1>1. ASSUME NEW T, IsFiniteSet(T), Cost \in [T -> Int]
      PROVE  \A R \in SUBSET T : /\ Total(Cost, R) \in Int
                                 /\ \A t \in R : Total(Cost, R) = Cost[t] + Total(Cost, R \ {t})
  BY <1>1, TotalSplits
<1>2. QED
  BY <1>1, CostIsInt

\* The sum of the open requests is a number before and after a step.
LEMMA PendingInt ==
  ASSUME IsFiniteSet(Target)
  PROVE  PendingCost \in Int /\ PendingCost' \in Int
<1>1. Open \in SUBSET Target /\ Open' \in SUBSET Target
  BY LeaveAssumption DEF Open
<1>2. Total(Cost, Open) \in Int /\ Total(Cost, Open') \in Int
  BY <1>1, CostSplits
<1>3. QED
  BY <1>2, PendingIs

\* A request of a paid type that is opened adds its cost.
LEMMA PendingOpens ==
  ASSUME IsFiniteSet(Target), NEW t \in Paid, leave \in [Target -> LeaveStatus],
         leave' = [leave EXCEPT ![t] = "PENDING"], leave[t] # "PENDING"
  PROVE  PendingCost' = Cost[t] + PendingCost
<1>1. Open' \in SUBSET Target /\ t \in Open' /\ Open' \ {t} = Open
  BY LeaveAssumption DEF Open
<1>2. Total(Cost, Open') = Cost[t] + Total(Cost, Open)
  BY <1>1, CostSplits
<1>3. QED
  BY <1>2, PendingIs

\* One that is open and is written otherwise frees its cost.
LEMMA PendingCloses ==
  ASSUME IsFiniteSet(Target), NEW t \in Paid, NEW s, leave \in [Target -> LeaveStatus],
         leave' = [leave EXCEPT ![t] = s], leave[t] = "PENDING", s # "PENDING"
  PROVE  PendingCost = Cost[t] + PendingCost'
<1>1. Open \in SUBSET Target /\ t \in Open /\ Open \ {t} = Open'
  BY LeaveAssumption DEF Open
<1>2. Total(Cost, Open) = Cost[t] + Total(Cost, Open')
  BY <1>1, CostSplits
<1>3. QED
  BY <1>2, PendingIs

\* Any other write leaves the sum.
LEMMA PendingElse ==
  ASSUME NEW t \in Target, NEW s, leave \in [Target -> LeaveStatus],
         leave' = [leave EXCEPT ![t] = s], t \notin Paid \/ (leave[t] # "PENDING" /\ s # "PENDING")
  PROVE  PendingCost' = PendingCost
<1>1. Open' = Open
  BY LeaveAssumption DEF Open
<1>2. QED
  BY <1>1, PendingIs

\* A step that writes no status leaves the sum of the open requests.
LEMMA PendingStays ==
  ASSUME leave' = leave
  PROVE  PendingCost' = PendingCost
BY PendingIs DEF Open

\* A step that changes neither status nor balance, of a handler that is not in
\* createRequest afterwards, keeps the balance covered.
LEMMA CoveredQuiet ==
  ASSUME OneAtATime, CoveredInv, NEW h \in Handler, UNCHANGED <<leave, balance>>,
         pc'[h] \notin {"c.pending", "c.insert"}
  PROVE  CoveredInv'
<1>1. PendingCost' = PendingCost
  BY PendingStays
<1>2. \A g \in Handler : SumOk(g)'
  BY Everybody DEF SumOk
<1>3. BalanceCovered'
  BY <1>1 DEF CoveredInv, BalanceCovered
<1>4. QED
  BY <1>2, <1>3 DEF CoveredInv

\* A write to one request's status, and to the balance.
LEMMA CoveredWrite ==
  ASSUME OneAtATime, NEW h \in Handler, pc'[h] \notin {"c.pending", "c.insert"},
         ~ AllowNegative => PendingCost' <= balance'
  PROVE  CoveredInv'
<1>1. \A g \in Handler : SumOk(g)'
  BY Everybody DEF SumOk
<1>2. QED
  BY <1>1 DEF CoveredInv, BalanceCovered

\* The steps of createRequest.
LEMMA CreateCovered ==
  ASSUME OneAtATime, IsFiniteSet(Target), IInv, SerialInv, CoveredInv,
         NEW h \in Handler, Create(h)
  PROVE  CoveredInv'
<1> USE LeaveAssumption
<1>1. /\ pc \in [Handler -> EnginePc \cup LeavePc] /\ frame \in [Handler -> Frame]
      /\ leave \in [Target -> LeaveStatus] /\ balance \in Int /\ avail \in [Handler -> Int]
  BY DEF IInv, TypeOK
<1>2. WriteOk(h) /\ balance' = balance
  BY DEF IInv, Create, CreateCheck, CreateReadEntries, CreateReadPending, CreateInsert,
         CreateApproval, leaveVars
<1>3. PICK t \in Target : t = frame[h].t
  BY <1>1 DEF Frame
<1>4. PendingCost \in Int
  BY PendingInt
<1>5. ASSUME NEW u \in Target, CreateCheck(h, u) PROVE CoveredInv'
  <2>1. /\ leave' = leave /\ frame'[h].t = u
        /\ pc'[h] = IF u \in Paid /\ ~ AllowNegative THEN "c.entries" ELSE "c.insert"
    BY <1>1, <1>5 DEF CreateCheck, leaveVars, Goto, Frame
  <2>2. PendingCost' = PendingCost
    BY <2>1, PendingStays
  <2>3. ~ AllowNegative => \A g \in Handler : SumOk(g)'
    BY <2>1, Everybody DEF SumOk
  <2>4. QED
    BY <1>2, <2>2, <2>3 DEF CoveredInv, BalanceCovered
<1>6. CASE CreateReadEntries(h)
  <2>1. leave' = leave /\ pc'[h] = "c.pending" /\ avail'[h] = balance
    BY <1>1, <1>6 DEF CreateReadEntries, Goto
  <2>2. PendingCost' = PendingCost
    BY <2>1, PendingStays
  <2>3. \A g \in Handler : SumOk(g)'
    BY <1>2, <2>1, Everybody DEF SumOk
  <2>4. QED
    BY <1>2, <2>2, <2>3 DEF CoveredInv, BalanceCovered
<1>7. CASE CreateReadPending(h)
  <2>1. leave' = leave /\ pc[h] = "c.pending"
    BY <1>7 DEF CreateReadPending
  <2>2. PendingCost' = PendingCost
    BY <2>1, PendingStays
  <2>3. CASE Cost[t] <= avail[h] - PendingCost
    <3>1. pc'[h] = "c.insert" /\ frame' = frame
      BY <1>1, <1>3, <1>7, <2>3 DEF CreateReadPending, Goto
    <3>2. ~ AllowNegative => avail[h] = balance
      BY <2>1 DEF CoveredInv, SumOk
    <3>3. Cost[t] \in Nat
      OBVIOUS
    <3>4. ~ AllowNegative => PendingCost + Cost[t] <= balance
      BY <1>1, <1>4, <2>3, <3>2, <3>3
    <3>5. ~ AllowNegative => \A g \in Handler : SumOk(g)'
      BY <1>2, <1>3, <2>2, <3>1, <3>4, Everybody DEF SumOk
    <3>6. QED
      BY <1>2, <2>2, <3>5 DEF CoveredInv, BalanceCovered
  <2>4. CASE ~ (Cost[t] <= avail[h] - PendingCost)
    <3>1. pc'[h] = "idle"
      BY <1>1, <1>3, <1>7, <2>4 DEF CreateReadPending, Return, Goto
    <3>2. QED
      BY <1>2, <2>1, <3>1, CoveredQuiet
  <2>5. QED
    BY <2>3, <2>4
<1>8. CASE CreateInsert(h)
  <2>1. /\ leave[t] = "none" /\ leave' = [leave EXCEPT ![t] = "PENDING"]
        /\ pc[h] = "c.insert" /\ pc'[h] = "c.approval"
    BY <1>1, <1>2, <1>3, <1>8 DEF CreateInsert, WriteOk, Goto
  <2>2. t \in Paid => PendingCost' = Cost[t] + PendingCost
    BY <1>1, <2>1, PendingOpens
  <2>3. t \notin Paid => PendingCost' = PendingCost
    BY <1>1, <2>1, PendingElse
  <2>4. ~ AllowNegative => PendingCost' <= balance'
    BY <1>2, <1>3, <1>4, <2>1, <2>2, <2>3 DEF CoveredInv, BalanceCovered, SumOk
  <2>5. QED
    BY <2>1, <2>4, CoveredWrite
<1>9. CASE CreateApproval(h)
  <2>1. leave' = leave /\ pc'[h] \in {"idle", "emit"}
    BY <1>1, <1>9 DEF CreateApproval, leaveVars, Return, Announce, Goto
  <2>2. QED
    BY <1>2, <2>1, CoveredQuiet
<1>10. QED
  BY <1>5, <1>6, <1>7, <1>8, <1>9 DEF Create

\* The writes of cancelRequest and of the listener: a request that closes frees
\* its days, one that is approved takes them out of the balance as well.
LEMMA WriteCovered ==
  ASSUME OneAtATime, IsFiniteSet(Target), IInv, SerialInv, CoveredInv,
         NEW h \in Handler,
         CancelRevert(h) \/ CancelUpdate(h) \/ ListenReject(h) \/ ListenApprove(h)
  PROVE  CoveredInv'
<1> USE LeaveAssumption
<1>1. /\ pc \in [Handler -> EnginePc \cup LeavePc] /\ frame \in [Handler -> Frame]
      /\ leave \in [Target -> LeaveStatus] /\ balance \in Int /\ ReadOk(h)
  BY DEF IInv, TypeOK, SerialInv
<1>2. PICK t \in Target : t = frame[h].t
  BY <1>1 DEF Frame
<1>3. pc'[h] \notin {"c.pending", "c.insert"}
  BY <1>1 DEF CancelRevert, CancelUpdate, ListenReject, ListenApprove, Goto, Return
<1>4. PICK c \in Nat : c = Cost[t]
  OBVIOUS
<1>5. CASE CancelRevert(h)
  <2>1. leave' = leave /\ balance' = IF t \in Paid THEN balance + c ELSE balance
    BY <1>2, <1>4, <1>5 DEF CancelRevert
  <2>2. PendingCost' = PendingCost /\ PendingCost \in Int
    BY <2>1, PendingStays, PendingInt
  <2>3. ~ AllowNegative => PendingCost' <= balance'
    BY <1>1, <2>1, <2>2 DEF CoveredInv, BalanceCovered
  <2>4. QED
    BY <1>3, <2>3, CoveredWrite
<1>6. CASE CancelUpdate(h) \/ ListenReject(h)
  <2>1. PICK s : /\ s # "PENDING"
                 /\ leave' = [leave EXCEPT ![t] = s] /\ balance' = balance
    BY <1>2, <1>6 DEF CancelUpdate, ListenReject
  <2>2. /\ PendingCost \in Int /\ PendingCost' \in Int
        /\ t \in Paid /\ leave[t] = "PENDING" => PendingCost = Cost[t] + PendingCost'
        /\ t \notin Paid \/ leave[t] # "PENDING" => PendingCost' = PendingCost
    <3>1. PendingCost \in Int /\ PendingCost' \in Int
      BY PendingInt
    <3>2. t \in Paid /\ leave[t] = "PENDING" => PendingCost = Cost[t] + PendingCost'
      BY <1>1, <2>1, PendingCloses
    <3>3. t \notin Paid \/ leave[t] # "PENDING" => PendingCost' = PendingCost
      BY <1>1, <2>1, PendingElse
    <3>4. QED
      BY <3>1, <3>2, <3>3
  <2>3. PendingCost' <= PendingCost
    BY <1>4, <2>2
  <2>4. ~ AllowNegative => PendingCost' <= balance'
    <3>1. PendingCost' \in Int
      BY <1>4, <2>2
    <3>2. QED
      BY <1>1, <2>1, <2>2, <2>3, <3>1 DEF CoveredInv, BalanceCovered
  <2>5. QED
    BY <1>3, <2>4, CoveredWrite
<1>7. CASE ListenApprove(h)
  <2>1. /\ leave' = [leave EXCEPT ![t] = "APPROVED"] /\ leave[t] = "PENDING"
        /\ balance' = IF t \in Paid THEN balance - c ELSE balance
    BY <1>1, <1>2, <1>4, <1>7 DEF ListenApprove, ReadOk
  <2>2. /\ PendingCost \in Int /\ PendingCost' \in Int
        /\ t \in Paid => PendingCost = Cost[t] + PendingCost'
        /\ t \notin Paid => PendingCost' = PendingCost
    <3>1. PendingCost \in Int /\ PendingCost' \in Int
      BY PendingInt
    <3>2. t \in Paid => PendingCost = Cost[t] + PendingCost'
      BY <1>1, <2>1, PendingCloses
    <3>3. t \notin Paid => PendingCost' = PendingCost
      BY <1>1, <2>1, PendingElse
    <3>4. QED
      BY <3>1, <3>2, <3>3
  <2>3. ~ AllowNegative => PendingCost' <= balance'
    BY <1>1, <1>4, <2>1, <2>2 DEF CoveredInv, BalanceCovered
  <2>4. QED
    BY <1>3, <2>3, CoveredWrite
<1>8. QED
  BY <1>5, <1>6, <1>7

\* Every step keeps the balance covered.
LEMMA NextCovered ==
  ASSUME OneAtATime, IsFiniteSet(Target), IInv, SerialInv, CoveredInv, [Next]_vars
  PROVE  CoveredInv'
<1>1. pc \in [Handler -> EnginePc \cup LeavePc] /\ frame \in [Handler -> Frame]
  BY DEF IInv, TypeOK
<1>2. ASSUME NEW h \in Handler, Fail(h) \/ DecideStep(h) PROVE CoveredInv'
  <2>1. UNCHANGED <<leave, balance>> /\ pc'[h] \in {"idle", "act", "update", "emit"}
    BY <1>1, <1>2 DEF Fail, DecideStep, Decide, DecideRead, DecideAct, DecideReject, DecideApprove,
                      DecideForward, leaveVars, Goto, Return, Announce
  <2>2. QED
    BY <2>1, CoveredQuiet
<1>3. ASSUME NEW h \in Handler, Cancel(h) \/ Listen(h) PROVE CoveredInv'
  <2>1. CASE CancelRevert(h) \/ CancelUpdate(h) \/ ListenReject(h) \/ ListenApprove(h)
    BY <2>1, WriteCovered
  <2>2. CASE ~ (CancelRevert(h) \/ CancelUpdate(h) \/ ListenReject(h) \/ ListenApprove(h))
    <3>1. UNCHANGED <<leave, balance>>
      BY <1>3, <2>2 DEF Cancel, CancelRead, CancelInstance, CancelRecalc,
                        Listen, ListenRead, ListenRecalc, leaveVars
    <3>2. pc'[h] \notin {"c.pending", "c.insert"}
      BY <1>1, <1>3, <2>2 DEF Cancel, CancelRead, CancelInstance, CancelRecalc,
                              Listen, ListenRead, ListenRecalc, Goto, Return
    <3>3. QED
      BY <3>1, <3>2, CoveredQuiet
  <2>3. QED
    BY <2>1, <2>2
<1>4. ASSUME (\E d \in Day : WorkerRead(d) \/ LockDay(d)) \/ WorkerWrite \/ WorkerFail \/ UNCHANGED vars
      PROVE  CoveredInv'
  <2>1. UNCHANGED <<pc, frame, leave, balance, avail>>
    BY <1>4 DEF WorkerRead, LockDay, WorkerWrite, WorkerFail, vars, engineVars
  <2>2. PendingCost' = PendingCost
    BY <2>1, PendingStays
  <2>3. QED
    BY <2>1, <2>2 DEF CoveredInv, BalanceCovered, SumOk
<1>5. QED
  BY <1>2, <1>3, <1>4, CreateCovered DEF Next

\* With one handler at a time, and a balance that starts at or above zero, the
\* open requests never exceed the balance where the policy forbids it.
THEOREM OpenRequestsCovered ==
  ASSUME OneAtATime, IsFiniteSet(Target), Grant >= 0
  PROVE  Spec => []BalanceCovered
<1>1. Init => CoveredInv
  <2>1. SUFFICES ASSUME Init PROVE CoveredInv
    OBVIOUS
  <2>2. Open = {} /\ balance = Grant /\ \A h \in Handler : pc[h] = "idle"
    BY <2>1, LeaveAssumption DEF Init, EngineInit, Open
  <2>3. PendingCost = 0
    <3>1. Total(Cost, {}) = 0
      BY CostIsInt, TotalSplits
    <3>2. QED
      BY <2>2, <3>1, PendingIs
  <2>4. QED
    BY <2>2, <2>3, LeaveAssumption DEF CoveredInv, BalanceCovered, SumOk
<1>2. IInv /\ SerialInv /\ CoveredInv /\ [Next]_vars => CoveredInv'
  BY NextCovered
<1>3. CoveredInv => BalanceCovered
  BY DEF CoveredInv
<1>4. QED
  BY <1>1, <1>2, <1>3, SerialInductive, Inductive, PTL DEF Spec

-----------------------------------------------------------------------------
(* LeaveAccrual.                                                             *)

\* The servers of LeaveAccrual, with nothing said of when they take their steps.
AccrualSpec == AccrualInit /\ [][AccrualNext]_accrualVars

\* e is on the roll when the cron of month m finds a grant due.
DueThen(e, m) == Due(e, m) /\ m \in stay[e].from..stay[e].to

\* An entry is of a month that has come, in which it was due.
EntriesOk ==
  \A e \in Staff : \A p \in Period : ledger[e][p] # NoEntry =>
    /\ ledger[e][p] = Amount(e)
    /\ \E m \in Month : m <= month /\ DueThen(e, m) /\ p = PeriodOf(m)

\* A run looks only at employees whose grant is due.
RunsOk ==
  \A s \in Server :
    /\ \A e \in todo[s] : DueThen(e, month)
    /\ current[s] # Nobody => DueThen(current[s], month)
    /\ s \notin ran => todo[s] = {} /\ current[s] = Nobody

\* The period that month m grants has its entry.
HasEntry(e, m) == ledger[e][PeriodOf(m)] # NoEntry
Idle(s)        == todo[s] = {} /\ current[s] = Nobody

\* Whoever is due has an entry or is still ahead of s.
Covers(s) ==
  \A e \in Staff : DueThen(e, month) => HasEntry(e, month) \/ e \in todo[s] \/ e = current[s]

\* Unless a run broke off: the months before are granted; a run covers the month or has been
\* beaten; and one of them covers it and is not beaten yet.
CoverOk ==
  crashes = 0 =>
    /\ \A e \in Staff, m \in Month : m < month /\ DueThen(e, m) => HasEntry(e, m)
    /\ \A s \in ran : Covers(s) \/ Idle(s)
    /\ ran # {} => \E s \in ran : Covers(s) /\ (current[s] # Nobody => ~ HasEntry(current[s], month))

AccrualInv == AccrualTypeOK /\ EntriesOk /\ RunsOk /\ CoverOk

\* The numbers of a policy and of an employee.
LEMMA PolicyTyped ==
  ASSUME AccrualTypeOK, NEW e \in Staff
  PROVE  /\ policy.yearly \in BOOLEAN /\ policy.prorate \in BOOLEAN
         /\ policy.days \in Nat /\ policy.bonus \in Nat /\ policy.every \in Nat \ {0}
         /\ joined[e].ago \in Nat /\ joined[e].month \in Month
         /\ stay[e].from \in Month /\ stay[e].to \in Month
<1> USE LeaveAccrualAssumption DEF AccrualTypeOK
<1>1. policy \in [yearly : BOOLEAN, prorate : BOOLEAN, days : Nat, bonus : Nat, every : Nat \ {0}]
  OBVIOUS
<1>2. joined[e] \in [ago : Nat, month : Month]
  OBVIOUS
<1>3. stay[e] \in [from : Month, to : Month]
  OBVIOUS
<1>4. policy.yearly \in BOOLEAN /\ policy.prorate \in BOOLEAN
  BY <1>1, ZenonT(20)
<1>5. QED
  BY <1>1, <1>2, <1>3, <1>4

\* Rounded to a twelfth, a number is off by half of it at most.
LEMMA RoundedIs ==
  ASSUME NEW n \in Nat
  PROVE  Rounded(n, 12) \in Nat /\ 12 * Rounded(n, 12) <= n + 6 /\ 12 * Rounded(n, 12) >= n - 6
<1>1. PICK r \in Int : r = (2 * n + 12) \div 24
  OBVIOUS
<1>2. 24 * r <= 2 * n + 12 /\ 2 * n + 12 < 24 * (r + 1) /\ r >= 0
  BY <1>1
<1>3. Rounded(n, 12) = r
  BY <1>1 DEF Rounded
<1>4. QED
  BY <1>2, <1>3

\* Products of natural numbers.
LEMMA ProductIs == ASSUME NEW a \in Nat, NEW b \in Nat PROVE a * b \in Nat
OBVIOUS

\* The base of a year's leave is a natural number, and so is an amount.
LEMMA BaseIs ==
  ASSUME AccrualTypeOK, NEW e \in Staff
  PROVE  /\ Base(e) \in Nat /\ MonthsLeft(e) \in 1..12 /\ Amount(e) \in Nat
<1>1. PICK q \in Nat : q = joined[e].ago \div policy.every
  BY PolicyTyped
<1>2. q * policy.bonus \in Nat
  BY PolicyTyped, ProductIs
<1>3. (q * policy.bonus) * 100 \in Nat
  BY <1>2, ProductIs
<1>4. Base(e) \in Nat
  BY <1>1, <1>3, PolicyTyped DEF Base, SeniorityBonus
<1>5. MonthsLeft(e) \in 1..12
  BY PolicyTyped DEF MonthsLeft, Month
<1>6. \A k \in 1..12 : Base(e) * k \in Nat
  BY <1>4, ProductIs
<1>7. Amount(e) \in Nat
  <2>1. PICK k \in 1..12 : k = IF policy.prorate THEN MonthsLeft(e) ELSE 12
    BY <1>5
  <2>2. PICK n \in Nat : n = Base(e) * k
    BY <1>6
  <2>3. YearlyQuota(e) = Rounded(n, 12)
    BY <2>1, <2>2 DEF YearlyQuota
  <2>4. YearlyQuota(e) \in Nat
    BY <2>3, RoundedIs
  <2>5. MonthlyAccrual(e) \in Nat
    BY <1>4, RoundedIs DEF MonthlyAccrual
  <2>6. QED
    BY <2>4, <2>5 DEF Amount
<1>8. QED
  BY <1>4, <1>5, <1>7

\* A month is a period, and so is the year.
LEMMA PeriodTyped == ASSUME NEW m \in Month PROVE PeriodOf(m) \in Period /\ Year \in Period
BY DEF PeriodOf, Period

\* Nothing is due before the first month.
LEMMA DueInMonth ==
  ASSUME AccrualTypeOK, NEW e \in Staff, DueThen(e, month)
  PROVE  month \in Month
BY PolicyTyped DEF DueThen, Month, AccrualTypeOK

\* Initially no cron has run.
LEMMA AccrualInitInv == AccrualInit => AccrualInv
<1> SUFFICES ASSUME AccrualInit PROVE AccrualInv
  OBVIOUS
<1> USE LeaveAccrualAssumption
<1>1. AccrualTypeOK
  BY DEF AccrualInit, AccrualTypeOK
<1>2. EntriesOk
  BY DEF AccrualInit, EntriesOk
<1>3. \A e \in Staff : ~ DueThen(e, month)
  BY <1>1, DueInMonth DEF AccrualInit, Month
<1>4. RunsOk
  BY <1>3 DEF AccrualInit, RunsOk
<1>5. CoverOk
  BY <1>3 DEF AccrualInit, CoverOk, Covers, Month
<1>6. QED
  BY <1>1, <1>2, <1>4, <1>5 DEF AccrualInv

\* What depends on nothing that the cron changes.
LEMMA SamePolicy ==
  ASSUME policy' = policy, joined' = joined, stay' = stay
  PROVE  \A e, m : /\ (DueThen(e, m) <=> Due(e, m)' /\ m \in (stay[e].from..stay[e].to)')
                   /\ Amount(e)' = Amount(e) /\ PeriodOf(m)' = PeriodOf(m)
BY DEF DueThen, Due, AccrualMonths, Amount, YearlyQuota, MonthlyAccrual, Base, SeniorityBonus,
       MonthsLeft, PeriodOf

\* The first of a month: what the last one covered is past.
LEMMA NextMonthKeeps == AccrualInv /\ NextMonth => AccrualInv'
<1> SUFFICES ASSUME AccrualInv, NextMonth PROVE AccrualInv'
  OBVIOUS
<1> USE LeaveAccrualAssumption
<1>1. /\ policy' = policy /\ joined' = joined /\ stay' = stay /\ ledger' = ledger
      /\ todo' = todo /\ current' = current /\ crashes' = crashes
      /\ month' = month + 1 /\ ran' = {} /\ month < 12 /\ Resting /\ ran = Server
  BY DEF NextMonth
<1>2. month \in 0..12 /\ month' \in Month
  BY <1>1 DEF AccrualInv, AccrualTypeOK, Month
<1>3. \A e, m : Amount(e)' = Amount(e) /\ PeriodOf(m)' = PeriodOf(m)
  BY <1>1, SamePolicy
<1>4. AccrualTypeOK'
  BY <1>1, <1>2 DEF AccrualInv, AccrualTypeOK
<1>5. EntriesOk'
  <2>1. SUFFICES ASSUME NEW e \in Staff, NEW p \in Period, ledger[e][p] # NoEntry
                 PROVE  /\ ledger[e][p] = Amount(e)
                        /\ \E m \in Month : m <= month' /\ DueThen(e, m)' /\ p = PeriodOf(m)
    BY <1>1, <1>3 DEF EntriesOk
  <2>2. PICK m \in Month : m <= month /\ DueThen(e, m) /\ p = PeriodOf(m)
    BY <2>1 DEF AccrualInv, EntriesOk
  <2>3. m <= month'
    BY <1>1, <1>2, <2>2 DEF Month
  <2>4. DueThen(e, m)'
    BY <1>1, <2>2, SamePolicy DEF DueThen
  <2>5. QED
    BY <2>1, <2>2, <2>3, <2>4 DEF AccrualInv, EntriesOk
<1>6. RunsOk'
  BY <1>1 DEF Resting, RunsOk
<1>7. CoverOk'
  <2> SUFFICES ASSUME crashes = 0
               PROVE  \A e \in Staff, m \in Month : m < month' /\ DueThen(e, m)' => HasEntry(e, m)'
    BY <1>1 DEF CoverOk
  <2>1. \A s \in Server : Idle(s)
    BY <1>1 DEF Resting, Idle
  <2>2. PICK s \in Server : Covers(s)
    BY <1>1 DEF AccrualInv, CoverOk
  <2>3. \A e \in Staff : DueThen(e, month) => HasEntry(e, month)
    BY <2>1, <2>2 DEF Covers, Idle
  <2>4. ASSUME NEW e \in Staff, NEW m \in Month, m < month', DueThen(e, m)' PROVE HasEntry(e, m)'
    <3>1. DueThen(e, m)
      BY <1>1, <2>4, SamePolicy DEF DueThen
    <3>2. m < month \/ m = month
      BY <1>1, <1>2, <2>4 DEF Month
    <3>3. HasEntry(e, m)
      BY <2>3, <3>1, <3>2 DEF AccrualInv, CoverOk
    <3>4. QED
      BY <1>1, <1>3, <3>3 DEF HasEntry
  <2>5. QED
    BY <2>4
<1>8. QED
  BY <1>4, <1>5, <1>6, <1>7 DEF AccrualInv

\* A step that leaves month and ledger keeps what is said of the entries.
LEMMA SameLedger ==
  ASSUME AccrualInv, policy' = policy, joined' = joined, stay' = stay, month' = month, ledger' = ledger
  PROVE  /\ EntriesOk'
         /\ \A e, m : DueThen(e, m)' <=> DueThen(e, m)
         /\ \A e, m : HasEntry(e, m)' <=> HasEntry(e, m)
<1>1. \A e, m : Amount(e)' = Amount(e) /\ PeriodOf(m)' = PeriodOf(m)
  BY SamePolicy
<1>2. \A e, m : DueThen(e, m)' <=> DueThen(e, m)
  BY SamePolicy DEF DueThen
<1>3. \A e, m : HasEntry(e, m)' <=> HasEntry(e, m)
  BY <1>1 DEF HasEntry
<1>4. EntriesOk'
  BY <1>1, <1>2 DEF AccrualInv, EntriesOk
<1>5. QED
  BY <1>2, <1>3, <1>4

\* A run reads who is due: it covers them all.
LEMMA RunStartKeeps ==
  ASSUME AccrualInv, NEW s \in Server, RunStart(s)
  PROVE  AccrualInv'
<1> USE LeaveAccrualAssumption
<1>1. /\ policy' = policy /\ joined' = joined /\ stay' = stay /\ ledger' = ledger
      /\ current' = current /\ crashes' = crashes /\ month' = month
      /\ s \notin ran /\ ran' = ran \cup {s}
      /\ todo' = [todo EXCEPT ![s] = {e \in OnRoll : Due(e, month)}]
  BY DEF RunStart
<1>2. current[s] = Nobody
  BY <1>1 DEF AccrualInv, RunsOk
<1>3. {e \in OnRoll : Due(e, month)} = {e \in Staff : DueThen(e, month)}
  BY DEF OnRoll, DueThen
<1>4. todo'[s] = {e \in Staff : DueThen(e, month)} /\ \A t \in Server \ {s} : todo'[t] = todo[t]
  BY <1>1, <1>3 DEF AccrualInv, AccrualTypeOK
<1>5. AccrualTypeOK'
  BY <1>1, <1>3 DEF AccrualInv, AccrualTypeOK
<1>6. /\ EntriesOk'
      /\ \A e, m : DueThen(e, m)' <=> DueThen(e, m)
      /\ \A e, m : HasEntry(e, m)' <=> HasEntry(e, m)
  BY <1>1, SameLedger
<1>7. \A e : DueThen(e, month)' <=> DueThen(e, month)
  BY <1>1, <1>6 DEF DueThen, Due
<1>8. RunsOk'
  BY <1>1, <1>2, <1>4, <1>7 DEF AccrualInv, RunsOk
<1>9. \A e : HasEntry(e, month)' <=> HasEntry(e, month)
  BY <1>1, <1>6 DEF HasEntry, PeriodOf
<1>10. Covers(s)' /\ current'[s] = Nobody
  BY <1>1, <1>2, <1>4, <1>7 DEF Covers
<1>11. ASSUME NEW t \in Server \ {s} PROVE (Covers(t) => Covers(t)') /\ (Idle(t) => Idle(t)')
  BY <1>1, <1>4, <1>7, <1>9 DEF Covers, Idle
<1>12. CoverOk'
  <2> SUFFICES ASSUME crashes = 0 PROVE CoverOk'
    BY <1>1 DEF CoverOk
  <2>1. \A e \in Staff, m \in Month : m < month' /\ DueThen(e, m)' => HasEntry(e, m)'
    BY <1>1, <1>6 DEF AccrualInv, CoverOk
  <2>2. \A t \in ran' : Covers(t)' \/ Idle(t)'
    <3>1. ASSUME NEW t \in ran, t # s PROVE Covers(t)' \/ Idle(t)'
      BY <1>11, <3>1 DEF AccrualInv, AccrualTypeOK, CoverOk
    <3>2. QED
      BY <1>1, <1>10, <3>1
  <2>3. QED
    BY <1>1, <1>10, <2>1, <2>2 DEF CoverOk
<1>13. QED
  BY <1>5, <1>6, <1>8, <1>12 DEF AccrualInv

\* A run looks for the entry of the next employee.
LEMMA UpsertFindKeeps ==
  ASSUME AccrualInv, NEW s \in Server, UpsertFind(s)
  PROVE  AccrualInv'
<1> USE LeaveAccrualAssumption
<1>1. PICK e \in todo[s] :
        /\ todo' = [todo EXCEPT ![s] = @ \ {e}]
        /\ current' = IF ledger[e][PeriodOf(month)] = NoEntry THEN [current EXCEPT ![s] = e] ELSE current
  BY DEF UpsertFind
<1>2. /\ policy' = policy /\ joined' = joined /\ stay' = stay /\ ledger' = ledger
      /\ crashes' = crashes /\ month' = month /\ ran' = ran /\ current[s] = Nobody
  BY DEF UpsertFind
<1>3. e \in Staff /\ DueThen(e, month) /\ s \in ran /\ ~ Idle(s) /\ e # Nobody
  BY <1>1 DEF AccrualInv, AccrualTypeOK, RunsOk, Idle
<1>4. /\ todo'[s] = todo[s] \ {e} /\ current'[s] = IF HasEntry(e, month) THEN Nobody ELSE e
      /\ \A t \in Server \ {s} : todo'[t] = todo[t] /\ current'[t] = current[t]
  BY <1>1, <1>2 DEF AccrualInv, AccrualTypeOK, HasEntry
<1>5. AccrualTypeOK'
  BY <1>1, <1>2, <1>3 DEF AccrualInv, AccrualTypeOK
<1>6. /\ EntriesOk'
      /\ \A d, m : DueThen(d, m)' <=> DueThen(d, m)
      /\ \A d, m : HasEntry(d, m)' <=> HasEntry(d, m)
  BY <1>2, SameLedger
<1>7. \A d : DueThen(d, month)' <=> DueThen(d, month)
  BY <1>2, <1>6 DEF DueThen, Due
<1>8. \A d : HasEntry(d, month)' <=> HasEntry(d, month)
  BY <1>2, <1>6 DEF HasEntry, PeriodOf
<1>9. RunsOk'
  <2>1. ASSUME NEW t \in Server \ {s}
        PROVE  /\ \A d \in todo'[t] : DueThen(d, month)'
               /\ current'[t] # Nobody => DueThen(current[t], month)
               /\ t \notin ran' => todo'[t] = {} /\ current'[t] = Nobody
    BY <1>2, <1>4, <1>7 DEF AccrualInv, RunsOk
  <2>2. /\ \A d \in todo'[s] : DueThen(d, month)'
        /\ current'[s] # Nobody => DueThen(current'[s], month)
        /\ s \in ran'
    BY <1>2, <1>3, <1>4, <1>7 DEF AccrualInv, RunsOk
  <2>3. \A t \in Server : current'[t] # Nobody => (DueThen(current[t], month))'
    BY <1>4, <1>7, <2>1, <2>2
  <2>4. QED
    BY <2>1, <2>2, <2>3 DEF RunsOk
<1>10. Covers(s) => Covers(s)'
  BY <1>2, <1>4, <1>7, <1>8 DEF Covers
<1>11. ASSUME NEW t \in Server \ {s} PROVE (Covers(t) => Covers(t)') /\ (Idle(t) => Idle(t)')
  BY <1>2, <1>4, <1>7, <1>8 DEF Covers, Idle
<1>12. CoverOk'
  <2> SUFFICES ASSUME crashes = 0 PROVE CoverOk'
    BY <1>2 DEF CoverOk
  <2>1. \A d \in Staff, m \in Month : m < month' /\ DueThen(d, m)' => HasEntry(d, m)'
    BY <1>2, <1>6 DEF AccrualInv, CoverOk
  <2>2. \A t \in ran' : Covers(t)' \/ Idle(t)'
    <3>1. ASSUME NEW t \in ran, t # s PROVE Covers(t)' \/ Idle(t)'
      BY <1>11, <3>1 DEF AccrualInv, AccrualTypeOK, CoverOk
    <3>2. Covers(s)'
      BY <1>3, <1>10 DEF AccrualInv, CoverOk
    <3>3. QED
      BY <1>2, <3>1, <3>2
  <2>3. PICK t \in ran : Covers(t) /\ (current[t] # Nobody => ~ HasEntry(current[t], month))
    BY <1>3 DEF AccrualInv, CoverOk
  <2>4. t \in Server
    BY DEF AccrualInv, AccrualTypeOK
  <2>5. Covers(t)' /\ (current'[t] # Nobody => ~ HasEntry(current'[t], month))
    BY <1>4, <1>10, <1>11, <2>3, <2>4
  <2>6. current'[t] # Nobody => ~ (HasEntry(current[t], month))'
    BY <1>8, <2>5
  <2>7. QED
    BY <1>2, <2>1, <2>2, <2>3, <2>5, <2>6 DEF CoverOk
<1>13. QED
  BY <1>5, <1>6, <1>9, <1>12 DEF AccrualInv

\* A run creates the entry it found missing, or finds that another one has, and gives up.
LEMMA UpsertCreateKeeps ==
  ASSUME AccrualInv, NEW s \in Server, UpsertCreate(s)
  PROVE  AccrualInv'
<1> USE LeaveAccrualAssumption
<1>1. PICK e : e = current[s] /\ e # Nobody /\ e \in Staff /\ DueThen(e, month) /\ s \in ran
  BY DEF UpsertCreate, AccrualInv, AccrualTypeOK, RunsOk
<1>2. /\ policy' = policy /\ joined' = joined /\ stay' = stay
      /\ crashes' = crashes /\ month' = month /\ ran' = ran
      /\ current' = [current EXCEPT ![s] = Nobody]
  BY DEF UpsertCreate
<1>3. month \in Month
  BY <1>1, DueInMonth DEF AccrualInv
<1>4. PICK p \in Period : p = PeriodOf(month)
  BY <1>3, PeriodTyped
<1>5. current'[s] = Nobody /\ \A t \in Server \ {s} : current'[t] = current[t]
  BY <1>2 DEF AccrualInv, AccrualTypeOK
<1>6. \A d, m : Amount(d)' = Amount(d) /\ PeriodOf(m)' = PeriodOf(m) /\ (DueThen(d, m)' <=> DueThen(d, m))
  BY <1>2, SamePolicy DEF DueThen
<1>7. \A d : DueThen(d, month)' <=> DueThen(d, month)
  BY <1>2, <1>6 DEF DueThen, Due
<1>8. ~ Idle(s) /\ (crashes = 0 => Covers(s))
  BY <1>1 DEF Idle, AccrualInv, CoverOk
<1>9. CASE ~ HasEntry(e, month)
  <2>1. ledger' = [ledger EXCEPT ![e][p] = Amount(e)] /\ todo' = todo
    BY <1>1, <1>4, <1>9 DEF UpsertCreate, HasEntry
  <2>2. Amount(e) \in Nat /\ Amount(e) # NoEntry
    BY <1>1, BaseIs DEF AccrualInv, NoEntry
  <2>3. /\ ledger'[e][p] = Amount(e)
        /\ \A d \in Staff, q \in Period : d # e \/ q # p => ledger'[d][q] = ledger[d][q]
    BY <1>1, <1>4, <2>1 DEF AccrualInv, AccrualTypeOK
  <2>4. AccrualTypeOK'
    BY <1>1, <1>2, <2>1, <2>2 DEF AccrualInv, AccrualTypeOK
  <2>5. EntriesOk'
    <3>1. SUFFICES ASSUME NEW d \in Staff, NEW q \in Period, ledger'[d][q] # NoEntry
                   PROVE  /\ ledger'[d][q] = Amount(d)
                          /\ \E m \in Month : m <= month /\ DueThen(d, m) /\ q = PeriodOf(m)
      BY <1>2, <1>6 DEF EntriesOk
    <3>2. CASE d = e /\ q = p
      BY <1>1, <1>3, <1>4, <2>3, <3>2 DEF Month
    <3>3. CASE ~ (d = e /\ q = p)
      BY <2>3, <3>1, <3>3 DEF AccrualInv, EntriesOk
    <3>4. QED
      BY <3>2, <3>3
  <2>6. RunsOk'
    BY <1>2, <1>5, <1>7, <2>1 DEF AccrualInv, RunsOk
  <2>7. \A d \in Staff, m \in Month : HasEntry(d, m) => HasEntry(d, m)'
    BY <1>6, <2>2, <2>3, PeriodTyped DEF HasEntry
  <2>8. \A d \in Staff : (HasEntry(d, month) => HasEntry(d, month)') /\ HasEntry(e, month)'
    BY <1>1, <1>2, <1>3, <1>4, <1>6, <2>2, <2>3, <2>7 DEF HasEntry
  <2>9. Covers(s) => Covers(s)'
    BY <1>1, <1>7, <2>1, <2>8 DEF Covers
  <2>10. ASSUME NEW t \in Server \ {s} PROVE (Covers(t) => Covers(t)') /\ (Idle(t) => Idle(t)')
    BY <1>5, <1>7, <2>1, <2>8 DEF Covers, Idle
  <2>11. CoverOk'
    <3> SUFFICES ASSUME crashes = 0 PROVE CoverOk'
      BY <1>2 DEF CoverOk
    <3>1. \A d \in Staff, m \in Month : m < month' /\ DueThen(d, m)' => HasEntry(d, m)'
      BY <1>2, <1>6, <2>7 DEF AccrualInv, CoverOk
    <3>2. Covers(s)'
      BY <1>8, <2>9
    <3>3. \A t \in ran' : Covers(t)' \/ Idle(t)'
      <4>1. ASSUME NEW t \in ran, t # s PROVE Covers(t)' \/ Idle(t)'
        BY <2>10, <4>1 DEF AccrualInv, AccrualTypeOK, CoverOk
      <4>2. QED
        BY <1>2, <3>2, <4>1
    <3>4. QED
      BY <1>1, <1>2, <1>5, <3>1, <3>2, <3>3 DEF CoverOk
  <2>12. QED
    BY <2>4, <2>5, <2>6, <2>11 DEF AccrualInv
<1>10. CASE HasEntry(e, month)
  <2>1. ledger' = ledger /\ todo' = [todo EXCEPT ![s] = {}]
    BY <1>1, <1>10 DEF UpsertCreate, HasEntry
  <2>2. todo'[s] = {} /\ \A t \in Server \ {s} : todo'[t] = todo[t]
    BY <2>1 DEF AccrualInv, AccrualTypeOK
  <2>3. AccrualTypeOK'
    BY <1>2, <2>1 DEF AccrualInv, AccrualTypeOK
  <2>4. /\ EntriesOk'
        /\ \A d, m : HasEntry(d, m)' <=> HasEntry(d, m)
    BY <1>2, <2>1, SameLedger
  <2>5. \A d : HasEntry(d, month)' <=> HasEntry(d, month)
    BY <1>2, <2>4 DEF HasEntry, PeriodOf
  <2>6. RunsOk'
    BY <1>2, <1>5, <1>7, <2>2 DEF AccrualInv, RunsOk
  <2>7. Idle(s)'
    BY <1>5, <2>2 DEF Idle
  <2>8. ASSUME NEW t \in Server \ {s} PROVE (Covers(t) => Covers(t)') /\ (Idle(t) => Idle(t)')
    BY <1>5, <1>7, <2>2, <2>5 DEF Covers, Idle
  <2>9. CoverOk'
    <3> SUFFICES ASSUME crashes = 0 PROVE CoverOk'
      BY <1>2 DEF CoverOk
    <3>1. \A d \in Staff, m \in Month : m < month' /\ DueThen(d, m)' => HasEntry(d, m)'
      BY <1>2, <1>6, <2>4 DEF AccrualInv, CoverOk
    <3>2. \A t \in ran' : Covers(t)' \/ Idle(t)'
      <4>1. ASSUME NEW t \in ran, t # s PROVE Covers(t)' \/ Idle(t)'
        BY <2>8, <4>1 DEF AccrualInv, AccrualTypeOK, CoverOk
      <4>2. QED
        BY <1>2, <2>7, <4>1
    <3>3. PICK t \in ran : Covers(t) /\ (current[t] # Nobody => ~ HasEntry(current[t], month))
      BY <1>1 DEF AccrualInv, CoverOk
    <3>4. t \in Server \ {s}
      BY <1>1, <1>10, <3>3 DEF AccrualInv, AccrualTypeOK
    <3>5. Covers(t)' /\ (current'[t] # Nobody => ~ (HasEntry(current[t], month))')
      BY <1>5, <2>5, <2>8, <3>3, <3>4
    <3>6. QED
      BY <1>2, <3>1, <3>2, <3>3, <3>5 DEF CoverOk
  <2>10. QED
    BY <2>3, <2>4, <2>6, <2>9 DEF AccrualInv
<1>11. QED
  BY <1>9, <1>10

\* A run breaks off.
LEMMA CrashKeeps ==
  ASSUME AccrualInv, NEW s \in Server, Crash(s)
  PROVE  AccrualInv'
<1>1. /\ policy' = policy /\ joined' = joined /\ stay' = stay /\ ledger' = ledger
      /\ month' = month /\ ran' = ran /\ crashes' = crashes + 1
      /\ todo' = [todo EXCEPT ![s] = {}] /\ current' = [current EXCEPT ![s] = Nobody]
  BY DEF Crash
<1>2. /\ EntriesOk'
      /\ \A d, m : DueThen(d, m)' <=> DueThen(d, m)
  BY <1>1, SameLedger
<1>3. \A d : DueThen(d, month)' <=> DueThen(d, month)
  BY <1>1, <1>2 DEF DueThen, Due
<1>4. AccrualTypeOK'
  BY <1>1, LeaveAccrualAssumption DEF AccrualInv, AccrualTypeOK
<1>5. /\ todo'[s] = {} /\ current'[s] = Nobody
      /\ \A t \in Server \ {s} : todo'[t] = todo[t] /\ current'[t] = current[t]
  BY <1>1 DEF AccrualInv, AccrualTypeOK
<1>6. RunsOk'
  BY <1>1, <1>3, <1>5 DEF AccrualInv, RunsOk
<1>7. CoverOk'
  BY <1>1 DEF CoverOk, AccrualInv, AccrualTypeOK
<1>8. QED
  BY <1>2, <1>4, <1>6, <1>7 DEF AccrualInv

\* Every step keeps the invariant.
LEMMA AccrualStep == AccrualInv /\ [AccrualNext]_accrualVars => AccrualInv'
<1> SUFFICES ASSUME AccrualInv, [AccrualNext]_accrualVars PROVE AccrualInv'
  OBVIOUS
<1>1. CASE NextMonth
  BY <1>1, NextMonthKeeps
<1>2. ASSUME NEW s \in Server, RunStart(s) PROVE AccrualInv'
  BY <1>2, RunStartKeeps
<1>3. ASSUME NEW s \in Server, UpsertFind(s) PROVE AccrualInv'
  BY <1>3, UpsertFindKeeps
<1>4. ASSUME NEW s \in Server, UpsertCreate(s) PROVE AccrualInv'
  BY <1>4, UpsertCreateKeeps
<1>5. ASSUME NEW s \in Server, Crash(s) PROVE AccrualInv'
  BY <1>5, CrashKeeps
<1>6. CASE UNCHANGED accrualVars
  <2>1. /\ policy' = policy /\ joined' = joined /\ stay' = stay /\ ledger' = ledger
        /\ month' = month /\ ran' = ran /\ crashes' = crashes /\ todo' = todo /\ current' = current
    BY <1>6 DEF accrualVars
  <2>2. /\ EntriesOk'
        /\ \A d, m : DueThen(d, m)' <=> DueThen(d, m)
        /\ \A d, m : HasEntry(d, m)' <=> HasEntry(d, m)
    BY <2>1, SameLedger
  <2>3. \A d : (DueThen(d, month)' <=> DueThen(d, month)) /\ (HasEntry(d, month)' <=> HasEntry(d, month))
    BY <2>1, <2>2 DEF DueThen, Due, HasEntry, PeriodOf
  <2>4. AccrualTypeOK'
    BY <2>1 DEF AccrualInv, AccrualTypeOK
  <2>5. RunsOk'
    BY <2>1, <2>3 DEF AccrualInv, RunsOk
  <2>6. \A s \in Server : (Covers(s)' <=> Covers(s)) /\ (Idle(s)' <=> Idle(s))
    BY <2>1, <2>3 DEF Covers, Idle
  <2>7. CoverOk'
    <3> SUFFICES ASSUME crashes = 0 PROVE CoverOk'
      BY <2>1 DEF CoverOk
    <3>1. ran \subseteq Server
      BY DEF AccrualInv, AccrualTypeOK
    <3>2. \A d \in Staff, m \in Month : m < month' /\ DueThen(d, m)' => HasEntry(d, m)'
      BY <2>1, <2>2 DEF AccrualInv, CoverOk
    <3>3. \A t \in ran' : Covers(t)' \/ Idle(t)'
      BY <2>1, <2>6, <3>1 DEF AccrualInv, CoverOk
    <3>4. ASSUME ran' # {}
          PROVE  \E t \in ran' : Covers(t)' /\ (current'[t] # Nobody => ~ (HasEntry(current[t], month))')
      <4>1. PICK t \in ran : Covers(t) /\ (current[t] # Nobody => ~ HasEntry(current[t], month))
        BY <2>1, <3>4 DEF AccrualInv, CoverOk
      <4>2. QED
        BY <2>1, <2>3, <2>6, <3>1, <4>1
    <3>5. QED
      BY <3>2, <3>3, <3>4 DEF CoverOk
  <2>8. QED
    BY <2>2, <2>4, <2>5, <2>7 DEF AccrualInv
<1>7. QED
  BY <1>1, <1>2, <1>3, <1>4, <1>5, <1>6 DEF AccrualNext

\* However the runs of the servers interleave and break off, an entry is of a month that has
\* come and in which it was due, and without a break one of the runs of a month has not been
\* beaten to any entry it still wants (runAccrual, accrueOrg, upsertAccrual).
THEOREM AccrualInductive == AccrualSpec => []AccrualInv
BY AccrualInitInv, AccrualStep, PTL DEF AccrualSpec

\* The sum of one number over a finite set.
LEMMA TotalOfOne ==
  ASSUME NEW T, IsFiniteSet(T), NEW w \in [T -> Int], NEW c \in Int, NEW S \in SUBSET T,
         \A x \in S : w[x] = c
  PROVE  Total(w, S) = c * Cardinality(S)
<1> DEFINE B == {n \in Nat : \E R \in SUBSET S : Cardinality(R) = n /\ Total(w, R) # c * n}
<1>1. IsFiniteSet(S) /\ \A R \in SUBSET S : IsFiniteSet(R) /\ Cardinality(R) \in Nat
  BY FS_Subset, FS_CardinalityType
<1>2. B = {}
  <2>1. SUFFICES ASSUME B # {} PROVE FALSE
    OBVIOUS
  <2>2. PICK m \in B : \A k \in B : m <= k
    BY <2>1, LeastExists
  <2>3. PICK R \in SUBSET S : Cardinality(R) = m /\ Total(w, R) # c * m
    BY <2>2
  <2>4. CASE R = {}
    <3>1. m = 0
      BY <2>3, <2>4, FS_EmptySet
    <3>2. Total(w, R) = 0
      BY <2>4, TotalSplits
    <3>3. QED
      BY <2>3, <3>1, <3>2
  <2>5. CASE R # {}
    <3>1. PICK y \in R : TRUE
      BY <2>5
    <3>2. PICK n : n = Cardinality(R \ {y})
      OBVIOUS
    <3>3. n \in Nat /\ n = m - 1 /\ m \in Nat /\ ~ (m <= n)
      BY <1>1, <2>2, <2>3, <3>1, <3>2, OneLess
    <3>4. n \notin B
      <4> HIDE DEF B
      <4>1. QED
        BY <2>2, <3>3
    <3>5. Total(w, R \ {y}) = c * n
      BY <3>2, <3>3, <3>4
    <3>6. Total(w, R) = c + Total(w, R \ {y})
      BY TotalSplits
    <3>7. c * m = c + c * n
      BY <3>3
    <3>8. QED
      BY <2>3, <3>5, <3>6, <3>7
  <2>6. QED
    BY <2>4, <2>5
<1>3. QED
  BY <1>1, <1>2

\* Products keep the order.
LEMMA ProductGrows ==
  ASSUME NEW a \in Int, NEW b \in Int, NEW n \in Nat, a <= b
  PROVE  a * n <= b * n
OBVIOUS

\* The least element of a set of months.
LEMMA FirstMonth ==
  ASSUME NEW S \in SUBSET Month, S # {}
  PROVE  Min(S) \in S /\ \A m \in S : Min(S) <= m
<1>1. \E m \in S : \A k \in S : m <= k
  BY LeastExists DEF Month
<1>2. QED
  BY <1>1 DEF Min

\* An interval of months or periods is finite, and how many it has.
LEMMA SpanIs ==
  ASSUME NEW a \in Int, NEW b \in Int, a <= b
  PROVE  IsFiniteSet(a..b) /\ Cardinality(a..b) = b - a + 1
BY FS_Interval

\* The months of a year, and its periods, which count the year itself.
LEMMA YearIs == IsFiniteSet(Month) /\ Cardinality(1..12) = 12 /\ IsFiniteSet(Period)
<1> DEFINE a == 1
           b == 12
           c == 0
<1>1. a \in Int /\ b \in Int /\ c \in Int /\ a <= b /\ c <= b /\ b - a + 1 = 12
  OBVIOUS
<1> HIDE DEF a, b, c
<1>2. IsFiniteSet(a..b) /\ Cardinality(a..b) = 12 /\ IsFiniteSet(c..b)
  BY <1>1, SpanIs
<1>3. IsFiniteSet(1..12) /\ Cardinality(1..12) = 12 /\ IsFiniteSet(0..12)
  BY <1>2 DEF a, b, c
<1>4. Month = 1..12 /\ Period = 0..12
  BY DEF Month, Period, Year
<1>5. QED
  BY <1>3, <1>4

\* A sum and a difference distribute over a product.
LEMMA Spread ==
  ASSUME NEW a \in Nat, NEW b \in Nat, NEW n \in Nat
  PROVE  /\ (b + 6) * n = n * b + 6 * n /\ (b - 6) * n = n * b - 6 * n
         /\ (12 * a) * n = 12 * (a * n)
<1>1. (b + 6) * n = n * b + 6 * n
  OBVIOUS
<1>2. (b - 6) * n = n * b - 6 * n
  OBVIOUS
<1>3. (12 * a) * n = 12 * (a * n)
  OBVIOUS
<1>4. QED
  BY <1>1, <1>2, <1>3

\* The months that earn, as the code and as the reference count them, and when a grant is due.
LEMMA EarnsIs ==
  ASSUME AccrualTypeOK, NEW e \in Staff
  PROVE  /\ AccrualMonths(e) = Earns(e) /\ Earns(e) \in SUBSET Month /\ Earns(e) # {}
         /\ Cardinality(Earns(e)) = MonthsLeft(e)
         /\ \A m \in Month : Due(e, m) <=> m \in Earns(e) /\ (policy.yearly => \A n \in Earns(e) : m <= n)
<1>1. joined[e].ago \in Nat /\ joined[e].month \in 1..12
  BY PolicyTyped DEF Month
<1>2. AccrualMonths(e) = Earns(e)
  BY <1>1 DEF AccrualMonths, Earns
<1>3. Earns(e) = IF joined[e].ago = 0 THEN joined[e].month..12 ELSE 1..12
  BY <1>1 DEF Earns, Month
<1>4. Earns(e) \in SUBSET Month /\ Earns(e) # {}
  <2>1. PICK j \in Month : j = joined[e].month
    BY <1>1 DEF Month
  <2>2. j..12 \subseteq 1..12 /\ j \in j..12 /\ 1 \in 1..12
    BY <2>1 DEF Month
  <2>3. CASE joined[e].ago = 0
    BY <1>3, <2>1, <2>2, <2>3, Zenon DEF Month
  <2>4. CASE joined[e].ago # 0
    BY <1>3, <2>2, <2>4, Zenon DEF Month
  <2>5. QED
    BY <2>3, <2>4
<1>5. Cardinality(Earns(e)) = MonthsLeft(e)
  <2>1. Cardinality(1..12) = 12
    BY YearIs
  <2>2. Cardinality(joined[e].month..12) = 13 - joined[e].month
    <3> DEFINE b == 12
    <3>1. PICK j \in Int : j = joined[e].month /\ j <= b /\ b - j + 1 = 13 - j
      BY <1>1
    <3>2. b \in Int
      OBVIOUS
    <3> HIDE DEF b
    <3>3. Cardinality(j..b) = b - j + 1
      BY <3>1, <3>2, SpanIs
    <3>4. QED
      BY <3>1, <3>3 DEF b
  <2>3. QED
    BY <1>3, <2>1, <2>2 DEF MonthsLeft
<1>6. ASSUME NEW m \in Month
      PROVE  Due(e, m) <=> m \in Earns(e) /\ (policy.yearly => \A n \in Earns(e) : m <= n)
  <2>1. PICK f : f = Min(Earns(e)) /\ f \in Earns(e) /\ \A n \in Earns(e) : f <= n
    BY <1>4, FirstMonth
  <2>2. m = f <=> m \in Earns(e) /\ \A n \in Earns(e) : m <= n
    BY <1>4, <2>1 DEF Month
  <2>3. QED
    BY <1>2, <1>4, <2>1, <2>2 DEF Due
<1>7. QED
  BY <1>2, <1>4, <1>5, <1>6

\* The periods of an employee that have an entry.
Given(e) == {p \in Period : ledger[e][p] # NoEntry}

\* There are finitely many periods, and what was granted is one amount for each entry.
LEMMA GrantedIs ==
  ASSUME AccrualInv, NEW e \in Staff
  PROVE  /\ IsFiniteSet(Given(e)) /\ Cardinality(Given(e)) \in Nat
         /\ Granted(e) = Amount(e) * Cardinality(Given(e))
         /\ Slack(e) = 6 * Cardinality(Given(e))
<1>1. IsFiniteSet(Period)
  BY YearIs
<1>2. PICK w, S, c : w = ledger[e] /\ S = Given(e) /\ c = Amount(e)
  OBVIOUS
<1>3. w \in [Period -> Int] /\ S \in SUBSET Period /\ c \in Int /\ \A p \in S : w[p] = c
  BY <1>2, BaseIs DEF AccrualInv, AccrualTypeOK, EntriesOk, Given, NoEntry
<1>4. IsFiniteSet(S) /\ Cardinality(S) \in Nat
  BY <1>1, <1>3, FS_Subset, FS_CardinalityType
<1>5. Total(w, S) = c * Cardinality(S)
  BY <1>1, <1>3, TotalOfOne
<1>6. Granted(e) = Total(w, S)
  BY <1>2 DEF Granted, Total, Given
<1>7. QED
  BY <1>2, <1>4, <1>5, <1>6 DEF Slack, Given

\* When the runs are over and none broke off, whatever was due has an entry.
LEMMA AllGranted ==
  ASSUME AccrualInv, Resting, ran = Server, crashes = 0, NEW e \in Staff, NEW m \in Month,
         m <= month, DueThen(e, m)
  PROVE  PeriodOf(m) \in Given(e)
<1>1. \A s \in Server : Idle(s)
  BY DEF Resting, Idle
<1>2. PICK s \in Server : Covers(s)
  BY LeaveAccrualAssumption DEF AccrualInv, CoverOk
<1>3. m = month => HasEntry(e, m)
  BY <1>1, <1>2, LeaveAccrualAssumption DEF Covers, Idle
<1>4. m < month => HasEntry(e, m)
  BY DEF AccrualInv, CoverOk
<1>5. m < month \/ m = month
  BY DEF AccrualInv, AccrualTypeOK, Month
<1>6. QED
  BY <1>3, <1>4, <1>5, PeriodTyped DEF HasEntry, Given

\* The months that earn, have come, and found the employee on the roll.
Found(e) == {m \in Earns(e) : m <= month /\ m \in stay[e].from..stay[e].to}

\* What is granted of a yearly policy.
LEMMA YearlyMatches ==
  ASSUME AccrualInv, NEW e \in Staff, policy.yearly
  PROVE  /\ 12 * Granted(e) <= Owed(e) + Slack(e)
         /\ Resting /\ ran = Server /\ crashes = 0 => 12 * Granted(e) >= Owed(e) - Slack(e)
<1> DEFINE first == \E m \in Found(e) : \A n \in Earns(e) : m <= n
<1>1. AccrualTypeOK
  BY DEF AccrualInv
<1>2. PICK k \in 1..12 : k = IF policy.prorate THEN MonthsLeft(e) ELSE 12
  BY <1>1, BaseIs
<1>3. PICK x \in Nat : x = Base(e) * k
  BY <1>1, BaseIs, ProductIs
<1>4. PICK a \in Nat : a = Amount(e) /\ 12 * a <= x + 6 /\ 12 * a >= x - 6
  <2>1. Amount(e) = Rounded(x, 12)
    BY <1>2, <1>3 DEF Amount, YearlyQuota
  <2>2. QED
    BY <2>1, RoundedIs
<1>5. Owed(e) = IF first THEN x ELSE 0
  BY <1>1, <1>2, <1>3, EarnsIs DEF Owed, Found
<1>6. \A m \in Month : (m <= month /\ DueThen(e, m)) <=> (m \in Found(e) /\ \A n \in Earns(e) : m <= n)
  BY <1>1, EarnsIs DEF DueThen, Found
<1>7. Given(e) # {} => first /\ Given(e) = {Year}
  BY <1>6 DEF AccrualInv, EntriesOk, Given, PeriodOf
<1>8. CASE Given(e) = {}
  <2>1. Granted(e) = 0 /\ Slack(e) = 0
    <3>1. Cardinality(Given(e)) = 0
      BY <1>8, FS_EmptySet
    <3>2. QED
      BY <1>4, <3>1, GrantedIs
  <2>2. Resting /\ ran = Server /\ crashes = 0 => ~ first
    <3>1. SUFFICES ASSUME Resting, ran = Server, crashes = 0, first PROVE FALSE
      OBVIOUS
    <3>2. PICK m \in Month : m <= month /\ DueThen(e, m)
      BY <1>1, <1>6, <3>1, EarnsIs DEF Found
    <3>3. QED
      BY <1>8, <3>1, <3>2, AllGranted
  <2> HIDE DEF first
  <2>3. QED
    BY <1>5, <2>1, <2>2
<1>9. CASE Given(e) # {}
  <2>1. Granted(e) = a /\ Slack(e) = 6
    <3>1. Cardinality(Given(e)) = 1
      BY <1>7, <1>9, FS_Singleton
    <3>2. QED
      BY <1>4, <3>1, GrantedIs
  <2>2. Owed(e) = x
    BY <1>5, <1>7, <1>9
  <2>3. QED
    BY <1>4, <2>1, <2>2
<1>10. QED
  BY <1>8, <1>9

\* What is granted of a monthly policy.
LEMMA MonthlyMatches ==
  ASSUME AccrualInv, NEW e \in Staff, ~ policy.yearly
  PROVE  /\ 12 * Granted(e) <= Owed(e) + Slack(e)
         /\ Resting /\ ran = Server /\ crashes = 0 => 12 * Granted(e) >= Owed(e) - Slack(e)
<1>1. AccrualTypeOK
  BY DEF AccrualInv
<1>2. PICK b \in Nat : b = Base(e)
  BY <1>1, BaseIs
<1>3. PICK a \in Nat : a = Amount(e) /\ 12 * a <= b + 6 /\ 12 * a >= b - 6
  <2>1. Amount(e) = Rounded(b, 12)
    BY <1>2 DEF Amount, MonthlyAccrual
  <2>2. QED
    BY <2>1, RoundedIs
<1>4. PICK n : n \in Nat /\ n = Cardinality(Given(e)) /\ Granted(e) = a * n /\ Slack(e) = 6 * n
  BY <1>3, GrantedIs
<1>5. Found(e) \in SUBSET Month
  BY <1>1, EarnsIs DEF Found
<1>6. PICK j : j \in Nat /\ j = Cardinality(Found(e)) /\ IsFiniteSet(Found(e))
  BY <1>5, YearIs, FS_Subset, FS_CardinalityType
<1>7. Owed(e) = b * j
  BY <1>2, <1>6 DEF Owed, Found
<1>8. \A m \in Month : (m <= month /\ DueThen(e, m)) <=> m \in Found(e)
  BY <1>1, EarnsIs DEF DueThen, Found
<1>9. Given(e) \subseteq Found(e)
  BY <1>8 DEF AccrualInv, EntriesOk, Given, PeriodOf
<1>10. n <= j
  BY <1>4, <1>6, <1>9, FS_Subset
<1>11. (12 * a) * n <= (b + 6) * n /\ (b - 6) * n <= (12 * a) * n
  BY <1>3, <1>4, ProductGrows
<1>12. n * b <= j * b
  BY <1>2, <1>4, <1>6, <1>10, ProductGrows
<1>13. /\ (b + 6) * n = n * b + 6 * n /\ (b - 6) * n = n * b - 6 * n
       /\ (12 * a) * n = 12 * (a * n) /\ j * b = b * j
  <2>1. n \in Nat /\ j \in Nat
    BY <1>4, <1>6
  <2>2. j * b = b * j
    BY <2>1
  <2>3. QED
    BY <2>1, <2>2, Spread
<1>14. PICK an \in Int, bn \in Int, bj \in Int : an = a * n /\ bn = n * b /\ bj = b * j
  BY <1>2, <1>3, <1>4, <1>6
<1>15. 12 * an <= bn + 6 * n /\ bn - 6 * n <= 12 * an /\ bn <= bj
  BY <1>11, <1>12, <1>13, <1>14
<1>16. 12 * Granted(e) <= Owed(e) + Slack(e)
  BY <1>4, <1>7, <1>14, <1>15
<1>17. ASSUME Resting, ran = Server, crashes = 0 PROVE 12 * Granted(e) >= Owed(e) - Slack(e)
  <2>1. Found(e) \subseteq Given(e)
    <3>1. ASSUME NEW m \in Found(e) PROVE m \in Given(e)
      <4>1. m \in Month /\ m <= month /\ DueThen(e, m)
        BY <1>5, <1>8
      <4>2. PeriodOf(m) = m
        BY DEF PeriodOf
      <4>3. QED
        BY <1>17, <4>1, <4>2, AllGranted
    <3>2. QED
      BY <3>1
  <2>2. n = j
    BY <1>4, <1>6, <1>9, <2>1
  <2>3. bn = bj
    BY <1>2, <1>6, <1>14, <2>2
  <2>4. QED
    BY <1>4, <1>7, <1>14, <1>15, <2>3
<1>18. QED
  BY <1>16, <1>17

\* Whatever the servers interleave and whichever run breaks off, no period is granted
\* twice; and when the runs of a month are over and none broke off, each employee has what
\* the policy owes him up to rounding, for any number of employees and servers (accrueOrg,
\* upsertAccrual, yearlyQuota, monthlyAccrual).
THEOREM GrantsAreOwed == AccrualSpec => []GrantsMatch
<1>1. AccrualInv => GrantsMatch
  BY YearlyMatches, MonthlyMatches DEF GrantsMatch
<1>2. QED
  BY <1>1, AccrualInductive, PTL
=============================================================================
