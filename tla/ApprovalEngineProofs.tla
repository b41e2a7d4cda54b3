------------------------- MODULE ApprovalEngineProofs -------------------------
(***************************************************************************)
(* Lemmas about the approval engine that hold whatever listens to it: its  *)
(* state keeps its types, rows and trail only grow, and every decision is  *)
(* taken and announced on turn.  The labels of pc beyond the engine's own  *)
(* are a parameter, L.                                                     *)
(***************************************************************************)
EXTENDS ApprovalEngine, TLAPS

EngineTypeOK ==
  /\ inst \in [Instance -> Row]
  /\ actions \subseteq ActionRow
  /\ frame \in [Handler -> Frame]

Routed(i) == inst[i].status # "none"

\* The frame of h names a row that exists, and its target.
Carries(h) == Routed(frame[h].i) /\ inst[frame[h].i].target = frame[h].t

\* What h is about to tell a listener is backed by the trail.
Decided(h) == Carries(h) /\ (frame[h].outcome = "APPROVED" => FullySigned(frame[h].i))

RowOnTurn(i) ==
  inst[i].status = "PENDING" => inst[i].current \in Active(i) /\ SignedBefore(i, inst[i].current)

HandlerOnTurn(h) ==
  /\ pc[h] \in {"act", "update"} =>
       /\ Carries(h)
       /\ frame[h].cur \in Active(frame[h].i)
       /\ SignedBefore(frame[h].i, frame[h].cur)
       /\ pc[h] = "update" /\ frame[h].dec = "APPROVE" => Signed(frame[h].i, frame[h].cur)
  /\ pc[h] = "emit" => Decided(h)

\* The engine's part of an inductive invariant: decide writes rows from frames, so it
\* says which frames can exist.
EngineInv ==
  /\ \A i \in Instance : RowOnTurn(i)
  /\ \A h \in Handler : HandlerOnTurn(h)

Grows ==
  /\ actions \subseteq actions'
  /\ \A i \in Instance : Routed(i) =>
       /\ Routed(i)'
       /\ inst'[i].approvers = inst[i].approvers
       /\ inst'[i].target = inst[i].target

\* No row is inserted.
NoNewRow == \A i \in Instance : Routed(i)' => Routed(i)

Alone(h) == \A g \in Handler \ {h} : pc'[g] = pc[g] /\ frame'[g] = frame[g]

-----------------------------------------------------------------------------
(* Types. *)

\* The locals a handler starts with and goes back to are a frame (Return).
LEMMA NoFrameType == NoFrame \in Frame
BY ApprovalAssumption DEF NoFrame, Frame, Step, Decision

\* The engine starts well typed (createInstance has inserted nothing).
LEMMA EngineInitOK ==
  ASSUME EngineInit
  PROVE  /\ EngineTypeOK /\ EngineInv
         /\ \A i \in Instance : ~ Routed(i)
         /\ \A h \in Handler : pc[h] = "idle"
<1>1. NoRow \in Row /\ NoRow.status = "none"
  BY ApprovalAssumption DEF NoRow, Row, Status, Step, Decision
<1>2. \A i \in Instance : inst[i].status = "none"
  BY <1>1 DEF EngineInit
<1>3. EngineTypeOK
  BY <1>1, NoFrameType DEF EngineInit, EngineTypeOK
<1>4. QED
  BY <1>2, <1>3 DEF EngineInit, EngineInv, RowOnTurn, HandlerOnTurn, Routed

\* A handler that moves on with its locals, or with one field of them changed.
LEMMA GotoAlone ==
  ASSUME NEW L, pc \in [Handler -> L], frame \in [Handler -> Frame],
         NEW h \in Handler, NEW l \in L, Goto(h, l),
         \/ frame' = frame
         \/ \E f : frame' = [frame EXCEPT ![h] = f]
  PROVE  Alone(h) /\ pc'[h] = l /\ pc' \in [Handler -> L]
BY DEF Goto, Alone

\* A handler that starts on a target (the first read of a service's method).
LEMMA TargetSet ==
  ASSUME frame \in [Handler -> Frame], NEW h \in Handler, NEW t \in Target,
         frame' = [frame EXCEPT ![h].t = t]
  PROVE  /\ frame' \in [Handler -> Frame] /\ frame'[h].t = t
         /\ \E f : frame' = [frame EXCEPT ![h] = f]
<1>1. frame[h] \in Frame
  OBVIOUS
<1>2. [frame[h] EXCEPT !.t = t] \in Frame /\ [frame[h] EXCEPT !.t = t].t = t
  BY <1>1 DEF Frame
<1>3. frame' = [frame EXCEPT ![h] = [frame[h] EXCEPT !.t = t]]
  OBVIOUS
<1> HIDE DEF Frame
<1>4. QED
  BY <1>2, <1>3

\* A handler that ends, well or not.
LEMMA ReturnAlone ==
  ASSUME NEW L, "idle" \in L, pc \in [Handler -> L], frame \in [Handler -> Frame],
         NEW h \in Handler, Return(h)
  PROVE  /\ Alone(h) /\ pc'[h] = "idle"
         /\ pc' \in [Handler -> L] /\ frame' \in [Handler -> Frame]
BY NoFrameType DEF Return, Goto, Alone

\* A handler that announces a decision (the emit of APPROVAL_DECIDED).
LEMMA AnnounceAlone ==
  ASSUME NEW L, "emit" \in L, pc \in [Handler -> L], frame \in [Handler -> Frame],
         NEW h \in Handler, NEW i \in Instance, NEW t \in Target,
         NEW o \in {"APPROVED", "REJECTED"}, Announce(h, i, t, o)
  PROVE  /\ Alone(h) /\ pc'[h] = "emit"
         /\ frame'[h].i = i /\ frame'[h].t = t /\ frame'[h].outcome = o
         /\ pc' \in [Handler -> L] /\ frame' \in [Handler -> Frame]
<1>1. frame[h] \in Frame
  OBVIOUS
<1>2. PICK f : f = [frame[h] EXCEPT !.i = i, !.t = t, !.outcome = o]
  OBVIOUS
<1>3. f \in Frame /\ f.i = i /\ f.t = t /\ f.outcome = o
  BY <1>1, <1>2 DEF Frame
<1>4. Goto(h, "emit") /\ frame' = [frame EXCEPT ![h] = f]
  BY <1>2 DEF Announce
<1>5. QED
  BY <1>3, <1>4 DEF Goto, Alone

-----------------------------------------------------------------------------
(* What no step takes back. *)

\* A step that writes one row that exists, in its status, step and decisions.
LEMMA WriteGrows ==
  ASSUME EngineTypeOK, NEW i \in Instance, NEW s \in Status, NEW c \in 0 .. NumSteps,
         NEW d \in [Step -> Decision \cup {"none"}], Routed(i),
         WriteRow(i, s, c, d), actions' = actions
  PROVE  /\ Grows /\ NoNewRow
         /\ inst' \in [Instance -> Row]
         /\ inst'[i].status = s /\ inst'[i].current = c
         /\ \A j \in Instance \ {i} : inst'[j] = inst[j]
<1>1. inst \in [Instance -> Row] /\ inst[i] \in Row
  BY DEF EngineTypeOK
<1>2. PICK w : w = [inst[i] EXCEPT !.status = s, !.current = c, !.decided = d]
  OBVIOUS
<1>3. /\ w \in Row /\ w.status = s /\ w.current = c
      /\ w.approvers = inst[i].approvers /\ w.target = inst[i].target
  BY <1>1, <1>2 DEF Row
<1>4. inst' = [inst EXCEPT ![i] = w]
  BY <1>2 DEF WriteRow
<1>5. inst'[i] = w /\ inst' \in [Instance -> Row] /\ \A j \in Instance \ {i} : inst'[j] = inst[j]
  BY <1>1, <1>3, <1>4
<1>6. s # "none"
  BY DEF Status
<1>7. QED
  BY <1>3, <1>5, <1>6 DEF Grows, NoNewRow, Routed

\* createInstance inserts one row, of its target, PENDING at its first active step or
\* APPROVED with none.
LEMMA CreateGrows ==
  ASSUME EngineTypeOK, NEW i \in Instance, NEW t \in Target,
         NEW resolved \in [Step -> Resolution], actions' = actions,
         CreatePending(i, t, resolved) \/ CreateApproved(i, t, resolved)
  PROVE  /\ Grows
         /\ inst' \in [Instance -> Row]
         /\ \A j \in Instance \ {i} : inst'[j] = inst[j]
         /\ Routed(i)' /\ inst'[i].target = t
         /\ RowOnTurn(i)'
         /\ CreateApproved(i, t, resolved) => FullySigned(i)'
<1> DEFINE A == {k \in Step : Approvers(resolved)[k] # {}}
<1>1. inst \in [Instance -> Row] /\ inst[i].status = "none"
  BY DEF EngineTypeOK, CreatePending, CreateApproved
<1>2. PICK s \in {"PENDING", "APPROVED"}, c \in 0 .. NumSteps :
        /\ inst' = [inst EXCEPT ![i] = NewRow(t, resolved, s, c)]
        /\ s = "PENDING" => IsNext(A, 0, c)
  <2>1. CASE CreatePending(i, t, resolved)
    <3>1. PICK first \in Step :
            IsNext(A, 0, first) /\ inst' = [inst EXCEPT ![i] = NewRow(t, resolved, "PENDING", first)]
      BY <2>1 DEF CreatePending
    <3>2. first \in 0 .. NumSteps
      BY ApprovalAssumption DEF Step
    <3>3. QED
      BY <3>1, <3>2
  <2>2. CASE CreateApproved(i, t, resolved)
    <3>1. inst' = [inst EXCEPT ![i] = NewRow(t, resolved, "APPROVED", 0)]
      BY <2>2 DEF CreateApproved
    <3>2. 0 \in 0 .. NumSteps
      BY ApprovalAssumption
    <3>3. QED
      BY <3>1, <3>2
  <2>3. QED
    BY <2>1, <2>2
<1>3. PICK r : r = NewRow(t, resolved, s, c)
  OBVIOUS
<1>4. Approvers(resolved) \in [Step -> SUBSET User]
  BY ApprovalAssumption DEF Approvers
<1>5. /\ r \in Row /\ r.status = s /\ r.current = c /\ r.target = t
      /\ r.approvers = Approvers(resolved)
  BY <1>3, <1>4 DEF NewRow, NoRow, Row, Status, Decision
<1>6. inst'[i] = r /\ inst' \in [Instance -> Row] /\ \A j \in Instance \ {i} : inst'[j] = inst[j]
  BY <1>1, <1>2, <1>3, <1>5
<1>7. Grows
  BY <1>1, <1>6 DEF Grows, Routed
<1>8. Routed(i)' /\ inst'[i].target = t /\ Active(i)' = A
  BY <1>5, <1>6 DEF Routed, Active
<1>9. RowOnTurn(i)'
  <2>1. s = "PENDING" => c \in A /\ \A j \in A : c <= j
    BY <1>2, ApprovalAssumption DEF IsNext, Step
  <2>2. s = "PENDING" => \A j \in A : ~ (j < c)
    BY <2>1, ApprovalAssumption DEF Step
  <2>3. QED
    BY <1>5, <1>6, <1>8, <2>1, <2>2 DEF RowOnTurn, SignedBefore
<1>10. ASSUME CreateApproved(i, t, resolved) PROVE FullySigned(i)'
  <2>1. A = {}
    BY <1>10 DEF CreateApproved
  <2>2. QED
    BY <1>8, <2>1 DEF FullySigned
<1>11. QED
  BY <1>6, <1>7, <1>8, <1>9, <1>10

\* cancelByTarget closes open rows and keeps everything else.
LEMMA CancelGrows ==
  ASSUME EngineTypeOK, NEW t \in Target, CancelByTarget(t), actions' = actions
  PROVE  /\ Grows /\ NoNewRow
         /\ inst' \in [Instance -> Row]
         /\ \A i \in Instance : inst'[i].status # "PENDING" \/ inst'[i] = inst[i]
<1>1. inst \in [Instance -> Row]
  BY DEF EngineTypeOK
<1>2. ASSUME NEW r \in Row, NEW w, w = [r EXCEPT !.status = "CANCELLED"]
      PROVE  w \in Row /\ w.status = "CANCELLED" /\ w.approvers = r.approvers /\ w.target = r.target
  BY <1>2 DEF Row, Status
<1>3. ASSUME NEW i \in Instance
      PROVE  \/ inst'[i] = inst[i]
             \/ inst[i].status = "PENDING" /\ inst'[i] = [inst[i] EXCEPT !.status = "CANCELLED"]
  BY <1>1 DEF CancelByTarget
<1>4. \A i \in Instance : inst[i] \in Row
  BY <1>1
<1>5. \A i \in Instance : inst'[i] \in Row
  BY <1>2, <1>3, <1>4
<1>6. inst' \in [Instance -> Row]
  BY <1>5 DEF CancelByTarget
<1>7. QED
  BY <1>2, <1>3, <1>4, <1>6 DEF Grows, NoNewRow, Routed

\* What the trail says of an existing row stays said.
LEMMA Kept ==
  ASSUME Grows, NEW i \in Instance, Routed(i)
  PROVE  /\ Routed(i)' /\ inst'[i].target = inst[i].target
         /\ Active(i)' = Active(i)
         /\ \A k \in Step : SignedBefore(i, k) => SignedBefore(i, k)'
         /\ \A k \in Step : Signed(i, k) => Signed(i, k)'
         /\ FullySigned(i) => FullySigned(i)'
<1>1. Routed(i)' /\ inst'[i].approvers = inst[i].approvers /\ inst'[i].target = inst[i].target
  BY DEF Grows
<1>2. Active(i)' = Active(i)
  BY <1>1 DEF Active
<1>3. \A k \in Step : Signed(i, k) => Signed(i, k)'
  BY DEF Signed, Grows
<1>4. Active(i) \subseteq Step
  BY DEF Active
<1>5. QED
  BY <1>1, <1>2, <1>3, <1>4 DEF SignedBefore, FullySigned

\* A row that a step leaves alone stays on turn.
LEMMA KeptRow ==
  ASSUME Grows, NEW i \in Instance, RowOnTurn(i), inst'[i] = inst[i]
  PROVE  RowOnTurn(i)'
<1>1. SUFFICES ASSUME inst[i].status = "PENDING"
               PROVE  inst[i].current \in Active(i)' /\ SignedBefore(i, inst[i].current)'
  BY DEF RowOnTurn, SignedBefore, Signed, Active
<1>2. Routed(i) /\ inst[i].current \in Active(i) /\ SignedBefore(i, inst[i].current)
  BY <1>1 DEF RowOnTurn, Routed
<1>3. inst[i].current \in Step
  BY <1>2 DEF Active
<1>4. QED
  BY <1>2, <1>3, Kept

\* A handler that keeps its locals keeps what they are good for.
LEMMA KeptFrame ==
  ASSUME Grows, EngineTypeOK, NEW h \in Handler, frame'[h] = frame[h]
  PROVE  (Carries(h) => Carries(h)') /\ (Decided(h) => Decided(h)')
<1>0. PICK i \in Instance : i = frame[h].i
  BY DEF EngineTypeOK, Frame
<1>1. ASSUME Carries(h) PROVE Carries(h)'
  BY <1>0, <1>1, Kept DEF Carries, Routed
<1>2. ASSUME Decided(h) PROVE Decided(h)'
  <2>1. Carries(h)' /\ Routed(i)
    BY <1>0, <1>1, <1>2 DEF Decided, Carries
  <2>2. FullySigned(i) => FullySigned(i)'
    BY <2>1, Kept
  <2>3. frame[h].outcome = "APPROVED" => FullySigned(i)
    BY <1>0, <1>2 DEF Decided
  <2>4. QED
    BY <1>0, <2>1, <2>2, <2>3 DEF Decided, FullySigned, Active, Signed
<1>3. QED
  BY <1>1, <1>2

\* A handler that stands still stays on turn.
LEMMA KeptHandler ==
  ASSUME Grows, EngineTypeOK, NEW h \in Handler, HandlerOnTurn(h),
         pc'[h] = pc[h], frame'[h] = frame[h]
  PROVE  HandlerOnTurn(h)'
<1>0. PICK i \in Instance : i = frame[h].i
  BY DEF EngineTypeOK, Frame
<1>1. frame[h].cur \in Step
  BY DEF EngineTypeOK, Frame
<1>2. ASSUME pc[h] \in {"act", "update"}
      PROVE  /\ frame[h].cur \in Active(i)'
             /\ SignedBefore(i, frame[h].cur)'
             /\ pc[h] = "update" /\ frame[h].dec = "APPROVE" => Signed(i, frame[h].cur)'
  BY <1>0, <1>1, <1>2, Kept DEF HandlerOnTurn, Carries
<1>3. QED
  BY <1>0, <1>2, KeptFrame DEF HandlerOnTurn, Active, SignedBefore, Signed

\* A step of h that inserts or cancels, or leaves the engine's rows alone, keeps the
\* engine's invariant if h itself ends up on turn.
LEMMA EngineStep ==
  ASSUME EngineTypeOK, EngineInv, Grows, NEW h \in Handler, Alone(h), HandlerOnTurn(h)',
         \A i \in Instance : inst'[i] = inst[i] \/ RowOnTurn(i)'
  PROVE  EngineInv'
<1>1. \A i \in Instance : RowOnTurn(i)'
  BY KeptRow DEF EngineInv
<1>2. \A g \in Handler \ {h} : HandlerOnTurn(g)'
  BY KeptHandler DEF EngineInv, Alone
<1>3. QED
  BY <1>1, <1>2 DEF EngineInv

-----------------------------------------------------------------------------
(* decide. *)

\* What one step of decide keeps, when labels of pc are in L.
Decides(h, L) ==
  /\ EngineTypeOK' /\ EngineInv' /\ Grows /\ NoNewRow
  /\ Alone(h)
  /\ pc[h] \in {"idle", "act", "update"} /\ pc'[h] \in EnginePc
  /\ pc' \in [Handler -> L]

\* decide, first read: the frame it fills is that of a row on turn.
LEMMA DecideReadStep ==
  ASSUME EngineTypeOK, EngineInv, NEW L, EnginePc \subseteq L, pc \in [Handler -> L],
         NEW h \in Handler, NEW i \in Instance, NEW u \in User, NEW d \in Decision,
         DecideRead(h, i, u, d)
  PROVE  Decides(h, L)
<1>0. PICK k : k = inst[i].current
  OBVIOUS
<1> USE <1>0
<1>1. /\ k \in Step /\ inst[i].status = "PENDING" /\ pc[h] = "idle"
      /\ UNCHANGED <<inst, actions>>
      /\ Goto(h, "act")
  BY DEF DecideRead
<1>2. frame[h] \in Frame /\ inst[i] \in Row /\ frame \in [Handler -> Frame]
  BY DEF EngineTypeOK
<1>3. PICK f : /\ f = [frame[h] EXCEPT !.i = i, !.t = inst[i].target, !.actor = u, !.dec = d,
                                       !.cur = k, !.snap = [inst[i].decided EXCEPT ![k] = d]]
               /\ frame' = [frame EXCEPT ![h] = f]
  BY DEF DecideRead
<1>4. [inst[i].decided EXCEPT ![k] = d] \in [Step -> Decision \cup {"none"}]
      /\ inst[i].target \in Target
  BY <1>2 DEF Row
<1>5. f \in Frame /\ f.i = i /\ f.t = inst[i].target /\ f.cur = k
  BY <1>1, <1>2, <1>3, <1>4 DEF Frame
<1>6. frame' \in [Handler -> Frame] /\ frame'[h] = f
  BY <1>2, <1>3, <1>5
<1>7. Alone(h) /\ pc'[h] = "act" /\ pc' \in [Handler -> L]
  BY <1>1, <1>2, <1>3, GotoAlone DEF EnginePc
<1>8. Grows /\ NoNewRow
  BY <1>1 DEF Grows, NoNewRow, Routed
<1>9. k \in Active(i) /\ SignedBefore(i, k) /\ Routed(i)
  BY <1>1 DEF EngineInv, RowOnTurn, Routed
<1>10. HandlerOnTurn(h)'
  BY <1>1, <1>5, <1>6, <1>7, <1>9 DEF HandlerOnTurn, Carries, Routed, Active, SignedBefore, Signed
<1>11. EngineInv'
  BY <1>1, <1>7, <1>8, <1>10, EngineStep
<1>12. QED
  BY <1>1, <1>6, <1>7, <1>8, <1>11 DEF Decides, EngineTypeOK, EnginePc

\* decide, insert of the ApprovalAction: the trail grows by the decision carried.
LEMMA DecideActStep ==
  ASSUME EngineTypeOK, EngineInv, NEW L, EnginePc \subseteq L, pc \in [Handler -> L],
         NEW h \in Handler, DecideAct(h)
  PROVE  Decides(h, L)
<1>0. PICK f \in Frame : f = frame[h]
  BY DEF EngineTypeOK
<1> USE <1>0
<1>1. PICK new : /\ new = [inst |-> f.i, step |-> f.cur, actor |-> f.actor, decision |-> f.dec]
                 /\ actions' = actions \cup {new}
  BY DEF DecideAct
<1>2. pc[h] = "act" /\ Goto(h, "update") /\ UNCHANGED <<inst, frame>>
  BY DEF DecideAct
<1>3. new \in ActionRow
  BY <1>1 DEF Frame, ActionRow
<1>4. EngineTypeOK'
  BY <1>1, <1>2, <1>3 DEF EngineTypeOK
<1>5. Grows /\ NoNewRow
  BY <1>1, <1>2 DEF Grows, NoNewRow, Routed
<1>6. Alone(h) /\ pc'[h] = "update" /\ pc' \in [Handler -> L]
  BY <1>2, GotoAlone DEF EnginePc, EngineTypeOK
<1>7. f.i \in Instance /\ f.cur \in Step
  BY DEF Frame
<1>8. Carries(h) /\ f.cur \in Active(f.i) /\ SignedBefore(f.i, f.cur) /\ Routed(f.i)
  BY <1>2 DEF EngineInv, HandlerOnTurn, Carries
<1>9. f.cur \in Active(f.i)' /\ SignedBefore(f.i, f.cur)'
  BY <1>5, <1>7, <1>8, Kept
<1>10. Carries(h)'
  BY <1>2, <1>5, <1>8, KeptFrame
<1>11. f.dec = "APPROVE" => Signed(f.i, f.cur)'
  <2>1. new \in actions' /\ new.inst = f.i /\ new.step = f.cur /\ new.decision = f.dec
    BY <1>1
  <2>2. QED
    BY <2>1 DEF Signed
<1>12. HandlerOnTurn(h)'
  BY <1>2, <1>6, <1>9, <1>10, <1>11 DEF HandlerOnTurn, Active, SignedBefore, Signed
<1>13. EngineInv'
  BY <1>2, <1>5, <1>6, <1>12, EngineStep
<1>14. QED
  BY <1>2, <1>4, <1>5, <1>6, <1>13 DEF Decides, EnginePc

\* decide's update of its row: still on turn, whatever another handler did to the row.
LEMMA Updated ==
  ASSUME EngineTypeOK, EngineInv, NEW h \in Handler, pc[h] = "update",
         NEW s \in Status, NEW c \in Step,
         WriteRow(frame[h].i, s, c, frame[h].snap), actions' = actions,
         s = "PENDING" => c \in Active(frame[h].i) /\ SignedBefore(frame[h].i, c)
  PROVE  /\ Grows /\ NoNewRow /\ inst' \in [Instance -> Row]
         /\ \A j \in Instance : inst'[j] = inst[j] \/ RowOnTurn(j)'
<1>0. PICK i \in Instance : i = frame[h].i
  BY DEF EngineTypeOK, Frame
<1> USE <1>0
<1>1. c \in 0 .. NumSteps /\ frame[h].snap \in [Step -> Decision \cup {"none"}]
  BY ApprovalAssumption DEF EngineTypeOK, Frame, Step
<1>2. Routed(i)
  BY DEF EngineInv, HandlerOnTurn, Carries
<1>3. /\ Grows /\ NoNewRow /\ inst' \in [Instance -> Row]
      /\ inst'[i].status = s /\ inst'[i].current = c
      /\ \A j \in Instance \ {i} : inst'[j] = inst[j]
  BY <1>1, <1>2, WriteGrows
<1>4. RowOnTurn(i)'
  <2>1. s = "PENDING" => c \in Active(i)' /\ SignedBefore(i, c)'
    BY <1>2, <1>3, Kept
  <2>2. QED
    BY <1>3, <2>1 DEF RowOnTurn, SignedBefore, Active, Signed
<1>5. QED
  BY <1>3, <1>4

\* decide announces what it wrote: the trail backs it.
LEMMA Announced ==
  ASSUME EngineTypeOK, EngineInv, NEW L, EnginePc \subseteq L, pc \in [Handler -> L],
         NEW h \in Handler, pc[h] = "update", NEW o \in {"APPROVED", "REJECTED"},
         WriteRow(frame[h].i, o, frame[h].cur, frame[h].snap),
         Announce(h, frame[h].i, frame[h].t, o), actions' = actions,
         o = "APPROVED" => FullySigned(frame[h].i)
  PROVE  Decides(h, L)
<1>0. PICK i \in Instance, t \in Target : i = frame[h].i /\ t = frame[h].t
  BY DEF EngineTypeOK, Frame
<1> USE <1>0
<1>1. frame[h].cur \in Step /\ o \in Status /\ o # "PENDING"
  BY DEF EngineTypeOK, Frame, Status
<1>2. /\ Grows /\ NoNewRow /\ inst' \in [Instance -> Row]
      /\ \A j \in Instance : inst'[j] = inst[j] \/ RowOnTurn(j)'
  BY <1>1, Updated
<1>3. /\ Alone(h) /\ pc'[h] = "emit"
      /\ frame'[h].i = i /\ frame'[h].t = t /\ frame'[h].outcome = o
      /\ pc' \in [Handler -> L] /\ frame' \in [Handler -> Frame]
  BY AnnounceAlone DEF EnginePc, EngineTypeOK
<1>4. Carries(h) /\ Routed(i) /\ inst[i].target = t
  BY DEF EngineInv, HandlerOnTurn, Carries
<1>5. /\ Routed(i)' /\ inst'[i].target = t
      /\ o = "APPROVED" => FullySigned(i)'
  BY <1>2, <1>4, Kept
<1>6. Decided(h)'
  BY <1>3, <1>5 DEF Decided, Carries, Routed, FullySigned, Active, Signed
<1>7. HandlerOnTurn(h)'
  BY <1>3, <1>6 DEF HandlerOnTurn
<1>8. EngineInv'
  BY <1>2, <1>3, <1>7, EngineStep
<1>9. QED
  BY <1>2, <1>3, <1>8 DEF Decides, EngineTypeOK, EnginePc

\* decide, update to REJECTED.
LEMMA DecideRejectStep ==
  ASSUME EngineTypeOK, EngineInv, NEW L, EnginePc \subseteq L, pc \in [Handler -> L],
         NEW h \in Handler, DecideReject(h)
  PROVE  Decides(h, L)
<1>1. /\ pc[h] = "update" /\ actions' = actions
      /\ WriteRow(frame[h].i, "REJECTED", frame[h].cur, frame[h].snap)
      /\ Announce(h, frame[h].i, frame[h].t, "REJECTED")
  BY DEF DecideReject
<1>2. QED
  BY <1>1, Announced

\* decide, update to APPROVED: at the last active step the chain is complete.
LEMMA DecideApproveStep ==
  ASSUME EngineTypeOK, EngineInv, NEW L, EnginePc \subseteq L, pc \in [Handler -> L],
         NEW h \in Handler, DecideApprove(h)
  PROVE  Decides(h, L)
<1>0. PICK i \in Instance, c \in Step : i = frame[h].i /\ c = frame[h].cur
  BY DEF EngineTypeOK, Frame
<1>1. /\ pc[h] = "update" /\ frame[h].dec = "APPROVE" /\ actions' = actions
      /\ \A n \in Active(i) : n <= c
      /\ WriteRow(frame[h].i, "APPROVED", frame[h].cur, frame[h].snap)
      /\ Announce(h, frame[h].i, frame[h].t, "APPROVED")
  BY <1>0 DEF DecideApprove
<1>2. Signed(i, c) /\ SignedBefore(i, c)
  BY <1>0, <1>1 DEF EngineInv, HandlerOnTurn
<1>3. \A n \in Active(i) : n = c \/ n < c
  BY <1>1, ApprovalAssumption DEF Active, Step
<1>4. FullySigned(i)
  BY <1>2, <1>3 DEF FullySigned, SignedBefore
<1>5. QED
  BY <1>0, <1>1, <1>4, Announced

\* decide, update to the next step: every earlier step has been signed.
LEMMA DecideForwardStep ==
  ASSUME EngineTypeOK, EngineInv, NEW L, EnginePc \subseteq L, pc \in [Handler -> L],
         NEW h \in Handler, DecideForward(h)
  PROVE  Decides(h, L)
<1>0. PICK i \in Instance, c \in Step : i = frame[h].i /\ c = frame[h].cur
  BY DEF EngineTypeOK, Frame
<1>1. pc[h] = "update" /\ frame[h].dec = "APPROVE" /\ actions' = actions /\ Return(h)
  BY DEF DecideForward
<1>2. /\ Alone(h) /\ pc'[h] = "idle"
      /\ pc' \in [Handler -> L] /\ frame' \in [Handler -> Frame]
  BY <1>1, ReturnAlone DEF EnginePc, EngineTypeOK
<1>3. /\ Grows /\ NoNewRow /\ inst' \in [Instance -> Row]
      /\ \A j \in Instance : inst'[j] = inst[j] \/ RowOnTurn(j)'
  <2>1. CASE UNCHANGED inst
    BY <1>1, <2>1 DEF Grows, NoNewRow, Routed, EngineTypeOK
  <2>2. ASSUME NEW n \in Step, IsNext(Active(i), c, n), WriteRow(i, "PENDING", n, frame[h].snap)
        PROVE  /\ Grows /\ NoNewRow /\ inst' \in [Instance -> Row]
               /\ \A j \in Instance : inst'[j] = inst[j] \/ RowOnTurn(j)'
    <3>1. Signed(i, c) /\ SignedBefore(i, c)
      BY <1>0, <1>1 DEF EngineInv, HandlerOnTurn
    <3>2. n \in Active(i) /\ \A j \in Active(i) : j < n => j = c \/ j < c
      BY <2>2, ApprovalAssumption DEF IsNext, Active, Step
    <3>3. SignedBefore(i, n) /\ "PENDING" \in Status
      BY <3>1, <3>2 DEF SignedBefore, Status
    <3>4. QED
      BY <1>0, <1>1, <2>2, <3>2, <3>3, Updated
  <2>3. QED
    BY <1>0, <2>1, <2>2 DEF DecideForward
<1>4. HandlerOnTurn(h)'
  BY <1>2 DEF HandlerOnTurn
<1>5. EngineInv'
  BY <1>2, <1>3, <1>4, EngineStep
<1>6. QED
  BY <1>1, <1>2, <1>3, <1>5 DEF Decides, EngineTypeOK, EnginePc

\* Every step of decide keeps the engine's invariant.
LEMMA DecideKeeps ==
  ASSUME EngineTypeOK, EngineInv, NEW L, EnginePc \subseteq L, pc \in [Handler -> L],
         NEW h \in Handler, Decide(h)
  PROVE  Decides(h, L)
BY DecideReadStep, DecideActStep, DecideRejectStep, DecideApproveStep, DecideForwardStep
   DEF Decide
=============================================================================
