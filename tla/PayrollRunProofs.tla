--------------------------- MODULE PayrollRunProofs ---------------------------
(***************************************************************************)
(* Theorems about PayrollRun, for every value of its constants. No run is  *)
(* approved or paid before it was calculated, nor before its chain signed, *)
(* however often it is submitted, refused, calculated again or removed.    *)
(* Both are about rows that handlers write from what they read before an   *)
(* await, so the inductive invariant IInv says what a handler may carry: a *)
(* run once calculated keeps its payslips until it is deleted, and a run   *)
(* once approvable stays so, because neither the trail nor the chain of an *)
(* instance is ever taken back.                                            *)
(*                                                                         *)
(* Under one handler at a time, which is what the code needs for it, a run *)
(* waits for approval only while somebody is asked: what the handler has   *)
(* read is still true when it writes (SerialInv), whatever the worker does *)
(* beside.                                                                 *)
(***************************************************************************)
EXTENDS PayrollRun, ApprovalEngineProofs

Labels == EnginePc \cup RunPc

\* Payslips stay until the run goes.
Counted(t) == calc[t] > 0 \/ status[t] = "deleted"

\* What PaidNeedsChain asks of an approved run.
Approvable(t) ==
  \/ waived[t]
  \/ \E i \in Instance : inst[i].status # "none" /\ inst[i].target = t /\ FullySigned(i)

RunOk(t) ==
  /\ status[t] = "none" => calc[t] = 0
  /\ status[t] \in {"CALCULATED", "PENDING_APPROVAL", "APPROVED", "PAID"} => calc[t] > 0
  /\ status[t] \in {"APPROVED", "PAID"} => Approvable(t)

\* Only a calculated run was ever submitted.
InstOk(i) == Routed(i) => Counted(inst[i].target)

\* What submit, pay and the listener hold while they wait.
HandlerOk(h) ==
  /\ pc[h] = "l.update" => Decided(h)
  /\ pc[h] \in {"s.create", "s.update", "p.update"} => Counted(frame[h].t)
  /\ pc[h] = "p.update" => Approvable(frame[h].t)
  /\ next[h] = "APPROVED" => Approvable(frame[h].t)
  /\ pc[h] = "s.update" => next[h] # "none"
  /\ next[h] # "none" => pc[h] \in {"emit", "l.update", "s.update"}

\* The inductive invariant.
IInv ==
  /\ TypeOK
  /\ EngineInv
  /\ \A t \in Target : RunOk(t)
  /\ \A i \in Instance : InstOk(i)
  /\ \A h \in Handler : HandlerOk(h)

-----------------------------------------------------------------------------
(* Types. *)

\* The service's types and the engine's.
LEMMA EngineTyped == TypeOK => EngineTypeOK /\ pc \in [Handler -> Labels] /\ EnginePc \subseteq Labels
BY DEF TypeOK, EngineTypeOK, Labels

\* SetStatus writes a status.
LEMMA SetStatusType ==
  ASSUME TypeOK, NEW t \in Target, NEW s \in RunStatus, SetStatus(t, s)
  PROVE  /\ status' \in [Target -> RunStatus]
         /\ status'[t] = IF Live(t) THEN s ELSE status[t]
         /\ \A u \in Target \ {t} : status'[u] = status[u]
<1>1. status \in [Target -> RunStatus]
  BY DEF TypeOK
<1>2. CASE Live(t)
  <2>1. status' = [status EXCEPT ![t] = s]
    BY <1>2 DEF SetStatus
  <2>2. QED
    BY <1>1, <1>2, <2>1
<1>3. CASE ~ Live(t)
  BY <1>1, <1>3 DEF SetStatus
<1>4. QED
  BY <1>2, <1>3

\* Handlers that end, whatever they were doing.
LEMMA EndType ==
  ASSUME TypeOK, NEW h \in Handler, End(h)
  PROVE  /\ Alone(h) /\ pc'[h] = "idle" /\ next'[h] = "none"
         /\ \A g \in Handler \ {h} : next'[g] = next[g]
         /\ pc' \in [Handler -> Labels] /\ frame' \in [Handler -> Frame]
         /\ next' \in [Handler -> {"none", "PENDING_APPROVAL", "APPROVED"}]
<1>1. Return(h) /\ next' = [next EXCEPT ![h] = "none"]
  BY DEF End
<1>2. pc \in [Handler -> Labels] /\ frame \in [Handler -> Frame]
  BY DEF TypeOK, Labels
<1>3. "idle" \in Labels
  BY DEF Labels, EnginePc
<1>4. QED
  BY <1>1, <1>2, <1>3, ReturnAlone DEF TypeOK

\* Handlers that begin.
LEMMA BeginType ==
  ASSUME TypeOK, NEW h \in Handler, NEW t \in Target, NEW S, NEW l \in Labels, Begin(h, t, S, l)
  PROVE  /\ Alone(h) /\ pc[h] = "idle" /\ pc'[h] = l /\ frame'[h].t = t /\ status[t] \in S
         /\ pc' \in [Handler -> Labels] /\ frame' \in [Handler -> Frame]
<1>1. /\ pc[h] = "idle" /\ status[t] \in S
      /\ frame' = [frame EXCEPT ![h].t = t] /\ Goto(h, l)
  BY DEF Begin
<1>2. pc \in [Handler -> Labels] /\ frame \in [Handler -> Frame]
  BY DEF TypeOK, Labels
<1>3. frame' \in [Handler -> Frame] /\ frame'[h].t = t /\ \E f : frame' = [frame EXCEPT ![h] = f]
  BY <1>1, <1>2, TargetSet
<1>4. QED
  BY <1>1, <1>2, <1>3, GotoAlone

\* Handlers that move on with their locals.
LEMMA GotoType ==
  ASSUME TypeOK, NEW h \in Handler, NEW l \in Labels, Goto(h, l), frame' = frame
  PROVE  Alone(h) /\ pc'[h] = l /\ pc' \in [Handler -> Labels] /\ frame' \in [Handler -> Frame]
<1>1. pc \in [Handler -> Labels] /\ frame \in [Handler -> Frame]
  BY DEF TypeOK, Labels
<1>2. QED
  BY <1>1, GotoAlone

\* The listener gives way to submit, or ends its handler.
LEMMA ListenedType ==
  ASSUME TypeOK, NEW h \in Handler, Listened(h)
  PROVE  /\ Alone(h) /\ pc' \in [Handler -> Labels] /\ frame' \in [Handler -> Frame]
         /\ \/ pc'[h] = "idle" /\ next[h] = "none"
            \/ pc'[h] = "s.update" /\ next[h] # "none" /\ frame' = frame
<1>1. CASE next[h] = "none"
  <2>1. Return(h) /\ pc \in [Handler -> Labels] /\ frame \in [Handler -> Frame] /\ "idle" \in Labels
    BY <1>1 DEF Listened, TypeOK, Labels, EnginePc
  <2>2. QED
    BY <1>1, <2>1, ReturnAlone
<1>2. CASE next[h] # "none"
  <2>1. Goto(h, "s.update") /\ frame' = frame /\ "s.update" \in Labels
    BY <1>2 DEF Listened, Labels, RunPc
  <2>2. QED
    BY <1>2, <2>1, GotoType
<1>3. QED
  BY <1>1, <1>2

-----------------------------------------------------------------------------
(* What a step keeps. *)

\* Waivers and signatures are not taken back, so what may be approved stays so.
LEMMA ApprovableKept ==
  ASSUME Grows, NEW t \in Target, waived[t] => waived'[t], Approvable(t)
  PROVE  Approvable(t)'
<1>1. CASE waived[t]
  BY <1>1 DEF Approvable
<1>2. ASSUME NEW i \in Instance, inst[i].status # "none", inst[i].target = t, FullySigned(i)
      PROVE  Approvable(t)'
  <2>1. Routed(i)' /\ inst'[i].target = t /\ FullySigned(i)'
    BY <1>2, Kept DEF Routed
  <2>2. QED
    BY <2>1 DEF Approvable, Routed, FullySigned, Active, Signed
<1>3. QED
  BY <1>1, <1>2 DEF Approvable

\* A run that a step leaves alone stays in order.
LEMMA RunKept ==
  ASSUME Grows, NEW t \in Target, waived[t] => waived'[t], RunOk(t),
         status'[t] = status[t], calc'[t] = calc[t]
  PROVE  RunOk(t)' /\ (Counted(t) => Counted(t)')
BY ApprovableKept DEF RunOk, Counted

\* A handler that stands still keeps what it holds.
LEMMA HandlerKept ==
  ASSUME Grows, TypeOK, NEW h \in Handler, HandlerOk(h),
         \A t \in Target : (Counted(t) => Counted(t)') /\ (waived[t] => waived'[t]),
         pc'[h] = pc[h], frame'[h] = frame[h], next'[h] = next[h]
  PROVE  HandlerOk(h)'
<1>0. PICK t \in Target : t = frame[h].t
  BY DEF TypeOK, Frame
<1>1. EngineTypeOK
  BY EngineTyped
<1>2. Decided(h) => Decided(h)'
  BY <1>1, KeptFrame
<1>3. (Counted(t) => Counted(t)') /\ (Approvable(t) => Approvable(t)')
  BY ApprovableKept
<1>4. (Counted(frame[h].t) => Counted(frame[h].t)')
      /\ (Approvable(frame[h].t) => Approvable(frame[h].t)')
  BY <1>0, <1>3 DEF Counted, Approvable
<1>5. frame'[h].t = frame[h].t
  OBVIOUS
<1>6. QED
  BY <1>2, <1>4, <1>5 DEF HandlerOk, Counted, Approvable, Decided, Carries, Routed,
                          FullySigned, Active, Signed

\* What is left to show of a step: the run it writes, the row it inserts, and the
\* handler that moved.
LEMMA StepKeeps ==
  ASSUME IInv, TypeOK', Grows,
         \A t \in Target : RunOk(t)' /\ (Counted(t) => Counted(t)') /\ (waived[t] => waived'[t]),
         \A i \in Instance : inst'[i] = inst[i] \/ RowOnTurn(i)',
         \A i \in Instance : Routed(i)' => Routed(i) \/ InstOk(i)',
         \A h \in Handler :
           \/ pc'[h] = pc[h] /\ frame'[h] = frame[h] /\ next'[h] = next[h]
           \/ HandlerOnTurn(h)' /\ HandlerOk(h)'
  PROVE  IInv'
<1>1. TypeOK /\ EngineTypeOK /\ EngineInv
  BY EngineTyped DEF IInv
<1>2. EngineInv'
  <2>1. \A i \in Instance : RowOnTurn(i)'
    BY <1>1, KeptRow DEF EngineInv
  <2>2. \A h \in Handler : HandlerOnTurn(h)'
    BY <1>1, KeptHandler DEF EngineInv
  <2>3. QED
    BY <2>1, <2>2 DEF EngineInv
<1>3. \A h \in Handler : HandlerOk(h)'
  BY <1>1, HandlerKept DEF IInv
<1>4. ASSUME NEW i \in Instance PROVE InstOk(i)'
  <2>1. CASE Routed(i)
    <3>1. inst'[i].target = inst[i].target /\ inst[i].target \in Target
      BY <1>1, <2>1, Kept DEF EngineTypeOK, Row
    <3>2. Counted(inst[i].target)
      BY <2>1 DEF IInv, InstOk
    <3>3. Counted(inst[i].target)'
      BY <3>1, <3>2 DEF Counted
    <3>4. QED
      BY <3>3 DEF InstOk
  <2>2. CASE ~ Routed(i)
    BY <2>2 DEF InstOk
  <2>3. QED
    BY <2>1, <2>2
<1>5. QED
  BY <1>2, <1>3, <1>4 DEF IInv

\* A step that writes no run.
LEMMA QuietRuns ==
  ASSUME IInv, Grows, UNCHANGED <<status, calc>>, \A t \in Target : waived[t] => waived'[t]
  PROVE  \A t \in Target : RunOk(t)' /\ (Counted(t) => Counted(t)')
BY RunKept DEF IInv

\* SetStatus on a run that has its payslips, and may be approved if that is written.
LEMMA SetStatusKeeps ==
  ASSUME IInv, Grows, NEW t \in Target, NEW s \in RunStatus \ {"none", "deleted"}, SetStatus(t, s),
         Counted(t), s \in {"APPROVED", "PAID"} => Approvable(t), UNCHANGED <<calc, waived>>
  PROVE  \A u \in Target : RunOk(u)' /\ (Counted(u) => Counted(u)')
<1>1. /\ status'[t] = IF Live(t) THEN s ELSE status[t]
      /\ \A u \in Target \ {t} : status'[u] = status[u]
  BY SetStatusType DEF IInv
<1>2. \A u \in Target \ {t} : RunOk(u)' /\ (Counted(u) => Counted(u)')
  BY <1>1, RunKept DEF IInv
<1>3. CASE Live(t)
  <2>1. calc'[t] > 0 /\ status'[t] = s
    BY <1>1, <1>3 DEF Counted, Live
  <2>2. s \in {"APPROVED", "PAID"} => Approvable(t)'
    BY ApprovableKept
  <2>3. RunOk(t)' /\ Counted(t)'
    BY <2>1, <2>2 DEF RunOk, Counted
  <2>4. QED
    BY <1>2, <2>3
<1>4. CASE ~ Live(t)
  <2>1. RunOk(t)' /\ (Counted(t) => Counted(t)')
    BY <1>1, <1>4, RunKept DEF IInv
  <2>2. QED
    BY <1>2, <2>1
<1>5. QED
  BY <1>3, <1>4

-----------------------------------------------------------------------------
(* The reads and writes of the service. *)

\* A step of h that writes neither runs nor instances.
LEMMA QuietStep ==
  ASSUME IInv, NEW h \in Handler, Alone(h), pc' \in [Handler -> Labels],
         frame' \in [Handler -> Frame], UNCHANGED <<inst, actions, status, calc, next, waived>>,
         jobs' \in [Target -> Nat], worker' = worker, fails' \in Nat,
         HandlerOnTurn(h)', HandlerOk(h)'
  PROVE  IInv'
<1>1. TypeOK'
  BY DEF IInv, TypeOK, Labels
<1>2. Grows /\ \A i \in Instance : Routed(i)' => Routed(i)
  BY DEF Grows, Routed
<1>3. \A t \in Target : RunOk(t)' /\ (Counted(t) => Counted(t)') /\ (waived[t] => waived'[t])
  BY <1>2, QuietRuns
<1>4. QED
  BY <1>1, <1>2, <1>3, StepKeeps DEF Alone

\* calculate, submit, pay and remove, the first read: what it found is still so.
LEMMA BeginKeeps ==
  ASSUME IInv, NEW h \in Handler, NEW t \in Target,
         CalculateRead(h, t) \/ SubmitRead(h, t) \/ PayRead(h, t) \/ RemoveRead(h, t)
  PROVE  IInv'
<1>1. UNCHANGED <<inst, actions, status, calc, jobs, worker, next, waived, fails>>
  BY DEF CalculateRead, SubmitRead, PayRead, RemoveRead, runVars
<1>2. PICK l \in RunPc, S \in SUBSET RunStatus :
        /\ Begin(h, t, S, l)
        /\ l \in {"k.enqueue", "s.create", "p.update", "r.cancel", "r.delete"}
        /\ l = "s.create" => S = {"CALCULATED"}
        /\ l = "p.update" => S = {"APPROVED"}
  <2>1. Open \in SUBSET RunStatus /\ {"CALCULATED"} \in SUBSET RunStatus
        /\ {"APPROVED"} \in SUBSET RunStatus
    BY DEF Open, RunStatus
  <2>2. CASE CalculateRead(h, t)
    <3>1. Begin(h, t, Open, "k.enqueue")
      BY <2>2 DEF CalculateRead
    <3>2. QED
      BY <2>1, <3>1 DEF RunPc
  <2>3. CASE SubmitRead(h, t)
    <3>1. Begin(h, t, {"CALCULATED"}, "s.create")
      BY <2>3 DEF SubmitRead
    <3>2. QED
      BY <2>1, <3>1 DEF RunPc
  <2>4. CASE PayRead(h, t)
    <3>1. Begin(h, t, {"APPROVED"}, "p.update")
      BY <2>4 DEF PayRead
    <3>2. QED
      BY <2>1, <3>1 DEF RunPc
  <2>5. CASE RemoveRead(h, t)
    <3>1. PICK l \in {"r.cancel", "r.delete"} : Begin(h, t, Open, l)
      BY <2>5 DEF RemoveRead
    <3>2. QED
      BY <2>1, <3>1 DEF RunPc
  <2>6. QED
    BY <2>2, <2>3, <2>4, <2>5
<1>3. l \in Labels
  BY DEF Labels
<1>4. /\ Alone(h) /\ pc[h] = "idle" /\ pc'[h] = l /\ frame'[h].t = t /\ status[t] \in S
      /\ pc' \in [Handler -> Labels] /\ frame' \in [Handler -> Frame]
  BY <1>2, <1>3, BeginType DEF IInv
<1>5. HandlerOnTurn(h)'
  BY <1>2, <1>4 DEF HandlerOnTurn
<1>6. RunOk(t) /\ next[h] = "none"
  BY <1>4 DEF IInv, HandlerOk
<1>7. pc'[h] \in {"s.create", "p.update"} => Counted(t)'
  BY <1>1, <1>2, <1>4, <1>6 DEF RunOk, Counted
<1>8. pc'[h] = "p.update" => Approvable(t)'
  BY <1>1, <1>2, <1>4, <1>6 DEF RunOk, Approvable, FullySigned, Active, Signed
<1>9. HandlerOk(h)'
  BY <1>1, <1>2, <1>4, <1>6, <1>7, <1>8 DEF HandlerOk, Counted, Approvable
<1>10. jobs' \in [Target -> Nat] /\ fails' \in Nat
  BY <1>1 DEF IInv, TypeOK
<1>11. QED
  BY <1>1, <1>4, <1>5, <1>9, <1>10, QuietStep

\* A handler that has ended holds nothing.
LEMMA IdleOk ==
  ASSUME NEW h \in Handler, pc'[h] = "idle", next'[h] = "none"
  PROVE  HandlerOnTurn(h)' /\ HandlerOk(h)'
BY DEF HandlerOnTurn, HandlerOk

\* A step that ends h and writes no run.
LEMMA EndKeeps ==
  ASSUME IInv, NEW h \in Handler, End(h), UNCHANGED <<inst, actions, status, calc, waived>>,
         jobs' \in [Target -> Nat], worker' = worker, fails' \in Nat
  PROVE  IInv'
<1>1. /\ Alone(h) /\ pc'[h] = "idle" /\ next'[h] = "none"
      /\ \A g \in Handler \ {h} : next'[g] = next[g]
      /\ pc' \in [Handler -> Labels] /\ frame' \in [Handler -> Frame]
      /\ next' \in [Handler -> {"none", "PENDING_APPROVAL", "APPROVED"}]
  BY EndType DEF IInv
<1>2. TypeOK'
  BY <1>1 DEF IInv, TypeOK, Labels
<1>3. Grows /\ \A i \in Instance : Routed(i)' => Routed(i)
  BY DEF Grows, Routed
<1>4. \A t \in Target : RunOk(t)' /\ (Counted(t) => Counted(t)') /\ (waived[t] => waived'[t])
  BY <1>3, QuietRuns
<1>5. QED
  BY <1>1, <1>2, <1>3, <1>4, IdleOk, StepKeeps DEF Alone

\* calculate, the job queued.
LEMMA EnqueueKeeps ==
  ASSUME IInv, NEW h \in Handler, Enqueue(h)
  PROVE  IInv'
<1>1. frame[h].t \in Target /\ jobs \in [Target -> Nat] /\ fails \in Nat
  BY DEF IInv, TypeOK, Frame
<1>2. jobs' \in [Target -> Nat]
  BY <1>1 DEF Enqueue
<1>3. QED
  BY <1>1, <1>2, EndKeeps DEF Enqueue

\* submit, refused by an instance still open; and a handler that fails.
LEMMA CutShortKeeps ==
  ASSUME IInv, NEW h \in Handler, SubmitRefused(h) \/ Fail(h)
  PROVE  IInv'
<1>1. jobs \in [Target -> Nat] /\ fails \in Nat
  BY DEF IInv, TypeOK
<1>2. QED
  BY <1>1, EndKeeps DEF SubmitRefused, Fail

\* submit, the instance created: it routes a calculated run, and if it is approved at
\* once no step was left to sign.
LEMMA SubmitCreateKeeps ==
  ASSUME IInv, NEW h \in Handler, SubmitCreate(h)
  PROVE  IInv'
<1>0. PICK t \in Target : t = frame[h].t
  BY DEF IInv, TypeOK, Frame
<1>1. pc[h] = "s.create" /\ UNCHANGED <<actions, status, calc, jobs, worker, waived, fails>>
  BY DEF SubmitCreate
<1>2. PICK i \in Instance, resolved \in [Step -> Resolution] :
        \/ /\ CreatePending(i, t, resolved)
           /\ next' = [next EXCEPT ![h] = "PENDING_APPROVAL"]
           /\ Goto(h, "s.update") /\ frame' = frame
        \/ /\ CreateApproved(i, t, resolved)
           /\ next' = [next EXCEPT ![h] = "APPROVED"]
           /\ Announce(h, i, t, "APPROVED")
  BY <1>0 DEF SubmitCreate
<1>3. EngineTypeOK /\ pc \in [Handler -> Labels] /\ frame \in [Handler -> Frame]
      /\ next \in [Handler -> {"none", "PENDING_APPROVAL", "APPROVED"}]
  BY EngineTyped DEF IInv, TypeOK
<1>4. /\ Grows /\ inst' \in [Instance -> Row]
      /\ \A j \in Instance \ {i} : inst'[j] = inst[j]
      /\ Routed(i)' /\ inst'[i].target = t /\ RowOnTurn(i)'
      /\ CreateApproved(i, t, resolved) => FullySigned(i)'
  BY <1>1, <1>2, <1>3, CreateGrows
<1>5. /\ Alone(h) /\ pc' \in [Handler -> Labels] /\ frame' \in [Handler -> Frame]
      /\ frame'[h].t = t
      /\ next' \in [Handler -> {"none", "PENDING_APPROVAL", "APPROVED"}]
      /\ \A g \in Handler \ {h} : next'[g] = next[g]
      /\ \/ pc'[h] = "s.update" /\ next'[h] = "PENDING_APPROVAL"
         \/ /\ pc'[h] = "emit" /\ next'[h] = "APPROVED"
            /\ frame'[h].i = i /\ FullySigned(i)'
  <2>1. "s.update" \in Labels /\ "emit" \in Labels
    BY DEF Labels, RunPc, EnginePc
  <2>2. CASE /\ next' = [next EXCEPT ![h] = "PENDING_APPROVAL"]
             /\ Goto(h, "s.update") /\ frame' = frame
    BY <1>0, <1>3, <2>1, <2>2, GotoType DEF IInv
  <2>3. CASE /\ CreateApproved(i, t, resolved)
             /\ next' = [next EXCEPT ![h] = "APPROVED"]
             /\ Announce(h, i, t, "APPROVED")
    BY <1>3, <1>4, <2>1, <2>3, AnnounceAlone
  <2>4. QED
    BY <1>2, <2>2, <2>3
<1>6. TypeOK'
  BY <1>1, <1>4, <1>5 DEF IInv, TypeOK, Labels
<1>7. Counted(t) /\ Counted(t)'
  BY <1>0, <1>1 DEF IInv, HandlerOk, Counted
<1>8. pc'[h] = "emit" => Decided(h)' /\ Approvable(t)'
  BY <1>4, <1>5 DEF Decided, Carries, Approvable, Routed, FullySigned, Active, Signed
<1>9. HandlerOnTurn(h)' /\ HandlerOk(h)'
  BY <1>5, <1>7, <1>8 DEF HandlerOnTurn, HandlerOk, Counted, Approvable
<1>10. \A j \in Instance : Routed(j)' => Routed(j) \/ InstOk(j)'
  BY <1>4, <1>7 DEF Routed, InstOk, Counted
<1>11. \A u \in Target : RunOk(u)' /\ (Counted(u) => Counted(u)') /\ (waived[u] => waived'[u])
  BY <1>1, <1>4, QuietRuns
<1>12. QED
  BY <1>4, <1>5, <1>6, <1>9, <1>10, <1>11, StepKeeps DEF Alone

\* submit with no flow: the run is waived.
LEMMA SubmitNoFlowKeeps ==
  ASSUME IInv, NEW h \in Handler, SubmitNoFlow(h)
  PROVE  IInv'
<1>0. PICK t \in Target : t = frame[h].t
  BY DEF IInv, TypeOK, Frame
<1>1. /\ pc[h] = "s.create" /\ next' = [next EXCEPT ![h] = "APPROVED"]
      /\ waived' = [waived EXCEPT ![t] = TRUE] /\ Goto(h, "s.update")
      /\ UNCHANGED <<inst, actions, frame, status, calc, jobs, worker, fails>>
  BY <1>0 DEF SubmitNoFlow
<1>2. TypeOK
  BY DEF IInv
<1>3. "s.update" \in Labels
  BY DEF Labels, RunPc
<1>4. Alone(h) /\ pc'[h] = "s.update" /\ pc' \in [Handler -> Labels]
  BY <1>1, <1>2, <1>3, GotoType
<1>5. /\ next' \in [Handler -> {"none", "PENDING_APPROVAL", "APPROVED"}] /\ next'[h] = "APPROVED"
      /\ \A g \in Handler \ {h} : next'[g] = next[g]
  BY <1>1, <1>2 DEF TypeOK
<1>6. waived' \in [Target -> BOOLEAN] /\ waived'[t] /\ \A u \in Target : waived[u] => waived'[u]
  BY <1>1, <1>2 DEF TypeOK
<1>7. TypeOK'
  BY <1>1, <1>2, <1>4, <1>5, <1>6 DEF TypeOK, Labels
<1>8. Counted(t)' /\ Approvable(t)'
  BY <1>0, <1>1, <1>6 DEF IInv, HandlerOk, Counted, Approvable
<1>9. HandlerOnTurn(h)' /\ HandlerOk(h)'
  BY <1>0, <1>1, <1>4, <1>5, <1>8 DEF HandlerOnTurn, HandlerOk, Counted, Approvable
<1>10. Grows /\ \A i \in Instance : Routed(i)' => Routed(i)
  BY <1>1 DEF Grows, Routed
<1>11. \A u \in Target : RunOk(u)' /\ (Counted(u) => Counted(u)')
  BY <1>1, <1>6, <1>10, QuietRuns
<1>12. QED
  BY <1>1, <1>4, <1>5, <1>6, <1>7, <1>9, <1>10, <1>11, StepKeeps DEF Alone

\* A step that ends h with a status written on a run that may have it.
LEMMA UpdateKeeps ==
  ASSUME IInv, NEW h \in Handler, End(h), NEW t \in Target,
         NEW s \in RunStatus \ {"none", "deleted"}, SetStatus(t, s),
         Counted(t), s \in {"APPROVED", "PAID"} => Approvable(t),
         UNCHANGED <<inst, actions, calc, jobs, worker, waived, fails>>
  PROVE  IInv'
<1>1. /\ Alone(h) /\ pc'[h] = "idle" /\ next'[h] = "none"
      /\ \A g \in Handler \ {h} : next'[g] = next[g]
      /\ pc' \in [Handler -> Labels] /\ frame' \in [Handler -> Frame]
      /\ next' \in [Handler -> {"none", "PENDING_APPROVAL", "APPROVED"}]
  BY EndType DEF IInv
<1>2. status' \in [Target -> RunStatus]
  BY SetStatusType DEF IInv
<1>3. TypeOK'
  BY <1>1, <1>2 DEF IInv, TypeOK, Labels
<1>4. Grows /\ \A i \in Instance : Routed(i)' => Routed(i)
  BY DEF Grows, Routed
<1>5. \A u \in Target : RunOk(u)' /\ (Counted(u) => Counted(u)')
  BY <1>4, SetStatusKeeps
<1>6. QED
  BY <1>1, <1>3, <1>4, <1>5, IdleOk, StepKeeps DEF Alone

\* submit, the last write: the status goes to a run that was calculated, and APPROVED to
\* one that may be approved, however long the await was.
LEMMA SubmitUpdateKeeps ==
  ASSUME IInv, NEW h \in Handler, SubmitUpdate(h)
  PROVE  IInv'
<1>1. PICK t \in Target, s \in {"none", "PENDING_APPROVAL", "APPROVED"} :
        t = frame[h].t /\ s = next[h]
  BY DEF IInv, TypeOK, Frame
<1>2. Counted(t) /\ s # "none" /\ (s = "APPROVED" => Approvable(t))
  BY <1>1 DEF SubmitUpdate, IInv, HandlerOk
<1>3. s \in RunStatus \ {"none", "deleted"}
  BY <1>2 DEF RunStatus
<1>4. QED
  BY <1>1, <1>2, <1>3, UpdateKeeps DEF SubmitUpdate

\* pay.
LEMMA PayUpdateKeeps ==
  ASSUME IInv, NEW h \in Handler, PayUpdate(h)
  PROVE  IInv'
<1>1. PICK t \in Target : t = frame[h].t
  BY DEF IInv, TypeOK, Frame
<1>2. Counted(t) /\ Approvable(t)
  BY <1>1 DEF PayUpdate, IInv, HandlerOk
<1>3. "PAID" \in RunStatus \ {"none", "deleted"}
  BY DEF RunStatus
<1>4. QED
  BY <1>1, <1>2, <1>3, UpdateKeeps DEF PayUpdate

\* remove, the open instance cancelled.
LEMMA RemoveCancelKeeps ==
  ASSUME IInv, NEW h \in Handler, RemoveCancel(h)
  PROVE  IInv'
<1>1. PICK t \in Target : t = frame[h].t
  BY DEF IInv, TypeOK, Frame
<1>2. pc[h] = "r.cancel" /\ CancelByTarget(t) /\ Goto(h, "r.delete")
      /\ UNCHANGED <<actions, frame, status, calc, jobs, worker, next, waived, fails>>
  BY <1>1 DEF RemoveCancel, runVars
<1>3. TypeOK /\ EngineTypeOK
  BY EngineTyped DEF IInv
<1>4. "r.delete" \in Labels
  BY DEF Labels, RunPc
<1>5. Alone(h) /\ pc'[h] = "r.delete" /\ pc' \in [Handler -> Labels]
  BY <1>2, <1>3, <1>4, GotoType
<1>6. /\ Grows /\ NoNewRow /\ inst' \in [Instance -> Row]
      /\ \A i \in Instance : inst'[i].status # "PENDING" \/ inst'[i] = inst[i]
  BY <1>2, <1>3, CancelGrows
<1>7. TypeOK'
  BY <1>2, <1>3, <1>5, <1>6 DEF TypeOK, Labels
<1>8. \A i \in Instance : inst'[i] = inst[i] \/ RowOnTurn(i)'
  BY <1>6 DEF RowOnTurn
<1>9. HandlerOnTurn(h)' /\ HandlerOk(h)'
  BY <1>2, <1>5 DEF HandlerOnTurn, HandlerOk, IInv
<1>10. \A u \in Target : RunOk(u)' /\ (Counted(u) => Counted(u)') /\ (waived[u] => waived'[u])
  BY <1>2, <1>6, QuietRuns
<1>11. QED
  BY <1>2, <1>5, <1>6, <1>7, <1>8, <1>9, <1>10, StepKeeps DEF Alone, NoNewRow

\* remove, the run deleted with its payslips.
LEMMA RemoveDeleteKeeps ==
  ASSUME IInv, NEW h \in Handler, RemoveDelete(h)
  PROVE  IInv'
<1>1. PICK t \in Target : t = frame[h].t
  BY DEF IInv, TypeOK, Frame
<1>2. /\ SetStatus(t, "deleted") /\ calc' = [calc EXCEPT ![t] = 0] /\ End(h)
      /\ UNCHANGED <<inst, actions, jobs, worker, waived, fails>>
  BY <1>1 DEF RemoveDelete
<1>3. TypeOK
  BY DEF IInv
<1>4. /\ Alone(h) /\ pc'[h] = "idle" /\ next'[h] = "none"
      /\ \A g \in Handler \ {h} : next'[g] = next[g]
      /\ pc' \in [Handler -> Labels] /\ frame' \in [Handler -> Frame]
      /\ next' \in [Handler -> {"none", "PENDING_APPROVAL", "APPROVED"}]
  BY <1>2, <1>3, EndType
<1>5. "deleted" \in RunStatus
  BY DEF RunStatus
<1>6. /\ status' \in [Target -> RunStatus]
      /\ status'[t] = IF Live(t) THEN "deleted" ELSE status[t]
      /\ \A u \in Target \ {t} : status'[u] = status[u]
  BY <1>2, <1>3, <1>5, SetStatusType
<1>7. calc' \in [Target -> Nat] /\ calc'[t] = 0 /\ \A u \in Target \ {t} : calc'[u] = calc[u]
  BY <1>2, <1>3 DEF TypeOK
<1>8. TypeOK'
  BY <1>2, <1>3, <1>4, <1>6, <1>7 DEF TypeOK, Labels
<1>9. Grows /\ \A i \in Instance : Routed(i)' => Routed(i)
  BY <1>2 DEF Grows, Routed
<1>10. \A u \in Target \ {t} : RunOk(u)' /\ (Counted(u) => Counted(u)')
  BY <1>2, <1>6, <1>7, <1>9, RunKept DEF IInv
<1>11. RunOk(t)' /\ (Counted(t) => Counted(t)')
  <2>1. status'[t] \in {"none", "deleted"}
    BY <1>6 DEF Live
  <2>2. Counted(t) => status'[t] = "deleted"
    BY <1>6 DEF IInv, RunOk, Counted, Live
  <2>3. QED
    BY <1>7, <2>1, <2>2 DEF RunOk, Counted
<1>12. QED
  BY <1>2, <1>4, <1>8, <1>9, <1>10, <1>11, IdleOk, StepKeeps DEF Alone

-----------------------------------------------------------------------------
(* The listener, and decide. *)

\* A handler whose listener has returned goes on with submit, or ends.
LEMMA ListenedOk ==
  ASSUME IInv, NEW h \in Handler, pc[h] \in {"emit", "l.update"}, Listened(h), next' = next,
         Grows, \A t \in Target : (Counted(t) => Counted(t)') /\ (waived[t] => waived'[t])
  PROVE  HandlerOnTurn(h)' /\ HandlerOk(h)'
<1>0. PICK t \in Target, i \in Instance : t = frame[h].t /\ i = frame[h].i
  BY DEF IInv, TypeOK, Frame
<1>1. \/ pc'[h] = "idle" /\ next[h] = "none"
      \/ pc'[h] = "s.update" /\ next[h] # "none" /\ frame' = frame
  BY ListenedType DEF IInv
<1>2. Decided(h)
  BY DEF IInv, EngineInv, HandlerOnTurn, HandlerOk
<1>3. Counted(t)'
  <2>1. Routed(i) /\ inst[i].target = t
    BY <1>0, <1>2 DEF Decided, Carries
  <2>2. Counted(t)
    BY <2>1 DEF IInv, InstOk
  <2>3. QED
    BY <2>2
<1>4. next[h] = "APPROVED" => Approvable(t)'
  BY <1>0, ApprovableKept DEF IInv, HandlerOk
<1>5. CASE pc'[h] = "idle" /\ next[h] = "none"
  BY <1>5, IdleOk
<1>6. CASE pc'[h] = "s.update" /\ next[h] # "none" /\ frame' = frame
  BY <1>0, <1>3, <1>4, <1>6 DEF HandlerOnTurn, HandlerOk, Counted, Approvable
<1>7. QED
  BY <1>1, <1>5, <1>6

\* onApprovalDecided, the read.
LEMMA ListenReadKeeps ==
  ASSUME IInv, NEW h \in Handler, ListenRead(h)
  PROVE  IInv'
<1>1. /\ pc[h] = "emit"
      /\ UNCHANGED <<inst, actions, status, calc, jobs, worker, next, waived, fails>>
      /\ (Goto(h, "l.update") /\ frame' = frame) \/ Listened(h)
  BY DEF ListenRead, runVars
<1>2. TypeOK
  BY DEF IInv
<1>3. jobs' \in [Target -> Nat] /\ fails' \in Nat
  BY <1>1, <1>2 DEF TypeOK
<1>4. CASE Goto(h, "l.update") /\ frame' = frame
  <2>1. "l.update" \in Labels
    BY DEF Labels, RunPc
  <2>2. Alone(h) /\ pc'[h] = "l.update" /\ pc' \in [Handler -> Labels] /\ frame' \in [Handler -> Frame]
    BY <1>2, <1>4, <2>1, GotoType
  <2>3. Decided(h)'
    BY <1>1, <1>4 DEF IInv, EngineInv, HandlerOnTurn, Decided, Carries, Routed, FullySigned, Active, Signed
  <2>4. next[h] = "APPROVED" => Approvable(frame[h].t)'
    BY <1>1, <1>4 DEF IInv, HandlerOk, Approvable, FullySigned, Active, Signed
  <2>5. HandlerOnTurn(h)' /\ HandlerOk(h)'
    BY <1>1, <1>4, <2>2, <2>3, <2>4 DEF HandlerOnTurn, HandlerOk, Approvable
  <2>6. QED
    BY <1>1, <1>3, <2>2, <2>5, QuietStep
<1>5. CASE Listened(h)
  <2>1. Alone(h) /\ pc' \in [Handler -> Labels] /\ frame' \in [Handler -> Frame]
    BY <1>2, <1>5, ListenedType
  <2>2. Grows
    BY <1>1 DEF Grows, Routed
  <2>3. \A t \in Target : (Counted(t) => Counted(t)') /\ (waived[t] => waived'[t])
    BY <1>1 DEF Counted
  <2>4. HandlerOnTurn(h)' /\ HandlerOk(h)'
    BY <1>1, <1>5, <2>2, <2>3, ListenedOk
  <2>5. QED
    BY <1>1, <1>3, <2>1, <2>4, QuietStep
<1>6. QED
  BY <1>1, <1>4, <1>5

\* onApprovalDecided, the write: APPROVED only with the chain signed.
LEMMA ListenUpdateKeeps ==
  ASSUME IInv, NEW h \in Handler, ListenUpdate(h)
  PROVE  IInv'
<1>0. PICK t \in Target, i \in Instance : t = frame[h].t /\ i = frame[h].i
  BY DEF IInv, TypeOK, Frame
<1>1. PICK s \in {"APPROVED", "CALCULATED"} :
        SetStatus(t, s) /\ (s = "APPROVED" => frame[h].outcome = "APPROVED")
  BY <1>0 DEF ListenUpdate
<1>2. /\ pc[h] = "l.update" /\ Listened(h)
      /\ UNCHANGED <<inst, actions, calc, jobs, worker, next, waived, fails>>
  BY DEF ListenUpdate
<1>3. TypeOK /\ s \in RunStatus \ {"none", "deleted"}
  BY DEF IInv, RunStatus
<1>4. Decided(h) /\ Routed(i) /\ inst[i].target = t
  BY <1>0, <1>2 DEF IInv, HandlerOk, Decided, Carries
<1>5. Counted(t) /\ (s = "APPROVED" => Approvable(t))
  BY <1>0, <1>1, <1>4 DEF IInv, InstOk, Decided, Approvable, Routed
<1>6. Grows /\ \A j \in Instance : Routed(j)' => Routed(j)
  BY <1>2 DEF Grows, Routed
<1>7. \A u \in Target : RunOk(u)' /\ (Counted(u) => Counted(u)') /\ (waived[u] => waived'[u])
  BY <1>1, <1>2, <1>3, <1>5, <1>6, SetStatusKeeps
<1>8. Alone(h) /\ pc' \in [Handler -> Labels] /\ frame' \in [Handler -> Frame]
  BY <1>2, <1>3, ListenedType
<1>9. status' \in [Target -> RunStatus]
  BY <1>1, <1>3, SetStatusType
<1>10. TypeOK'
  BY <1>2, <1>3, <1>8, <1>9 DEF TypeOK, Labels
<1>11. HandlerOnTurn(h)' /\ HandlerOk(h)'
  BY <1>2, <1>6, <1>7, ListenedOk
<1>12. QED
  BY <1>2, <1>6, <1>7, <1>8, <1>10, <1>11, StepKeeps DEF Alone

\* decide writes no run.
LEMMA DecideInv ==
  ASSUME IInv, NEW h \in Handler, Decide(h), UNCHANGED runVars
  PROVE  IInv'
<1>1. EngineTypeOK /\ EngineInv /\ pc \in [Handler -> Labels] /\ EnginePc \subseteq Labels
  BY EngineTyped DEF IInv
<1>2. Decides(h, Labels)
  BY <1>1, DecideKeeps
<1>3. UNCHANGED <<status, calc, jobs, worker, next, waived, fails>>
  BY DEF runVars
<1>4. TypeOK'
  BY <1>2, <1>3 DEF IInv, TypeOK, Decides, EngineTypeOK, Labels
<1>5. \A t \in Target : RunOk(t)' /\ (Counted(t) => Counted(t)') /\ (waived[t] => waived'[t])
  BY <1>2, <1>3, QuietRuns DEF Decides
<1>6. next[h] = "none" /\ next'[h] = "none"
  BY <1>2, <1>3 DEF Decides, IInv, HandlerOk
<1>7. HandlerOk(h)'
  BY <1>2, <1>6 DEF Decides, EnginePc, HandlerOk
<1>8. QED
  BY <1>2, <1>3, <1>4, <1>5, <1>7, StepKeeps DEF Decides, EngineInv, Alone, NoNewRow

-----------------------------------------------------------------------------
(* create and the worker. *)

\* A step of no handler: only the run it writes is left to show.
LEMMA WorkerStep ==
  ASSUME IInv, TypeOK', UNCHANGED <<inst, actions, pc, frame, next, waived>>,
         \A t \in Target : RunOk(t)' /\ (Counted(t) => Counted(t)')
  PROVE  IInv'
<1>1. Grows /\ \A i \in Instance : Routed(i)' => Routed(i)
  BY DEF Grows, Routed
<1>2. QED
  BY <1>1, StepKeeps

\* create.
LEMMA CreateRunKeeps ==
  ASSUME IInv, NEW t \in Target, CreateRun(t)
  PROVE  IInv'
<1>1. /\ status[t] = "none" /\ status' = [status EXCEPT ![t] = "DRAFT"]
      /\ UNCHANGED <<inst, actions, pc, frame, calc, jobs, worker, next, waived, fails>>
  BY DEF CreateRun, engineVars
<1>2. TypeOK
  BY DEF IInv
<1>3. TypeOK' /\ status'[t] = "DRAFT" /\ \A u \in Target \ {t} : status'[u] = status[u]
  BY <1>1, <1>2 DEF TypeOK, RunStatus
<1>4. Grows
  BY <1>1 DEF Grows, Routed
<1>5. RunOk(t)' /\ (Counted(t) => Counted(t)')
  BY <1>1, <1>3 DEF RunOk, Counted
<1>6. \A u \in Target \ {t} : RunOk(u)' /\ (Counted(u) => Counted(u)')
  BY <1>1, <1>3, <1>4, RunKept DEF IInv
<1>7. QED
  BY <1>1, <1>3, <1>5, <1>6, WorkerStep

\* The worker takes a job, or puts it back when the calculation fails.
LEMMA WorkerQueueKeeps ==
  ASSUME IInv, WorkerFail \/ \E t \in Target : WorkerTake(t)
  PROVE  IInv'
<1>1. UNCHANGED <<inst, actions, pc, frame, status, calc, next, waived>>
  BY DEF WorkerTake, WorkerFail, engineVars
<1>2. TypeOK
  BY DEF IInv
<1>3. TypeOK'
  <2>1. ASSUME NEW t \in Target, WorkerTake(t) PROVE TypeOK'
    <3>1. jobs' \in [Target -> Nat]
      BY <1>2, <2>1 DEF TypeOK, WorkerTake
    <3>2. worker' \in Target \cup {Idle} /\ fails' = fails
      BY <2>1 DEF WorkerTake
    <3>3. QED
      BY <1>1, <1>2, <3>1, <3>2 DEF TypeOK
  <2>2. CASE WorkerFail
    <3>1. worker \in Target /\ worker' = Idle /\ fails' = fails + 1
          /\ jobs' = [jobs EXCEPT ![worker] = @ + 1]
      BY <1>2, <2>2 DEF TypeOK, WorkerFail
    <3>2. jobs' \in [Target -> Nat] /\ fails' \in Nat
      BY <1>2, <3>1 DEF TypeOK
    <3>3. QED
      BY <1>1, <1>2, <3>1, <3>2 DEF TypeOK
  <2>3. QED
    BY <2>1, <2>2
<1>4. Grows
  BY <1>1 DEF Grows, Routed
<1>5. \A t \in Target : RunOk(t)' /\ (Counted(t) => Counted(t)')
  BY <1>1, <1>4, QuietRuns
<1>6. QED
  BY <1>1, <1>3, <1>5, WorkerStep

\* The worker's transaction: payslips and status together.
LEMMA WorkerFinishKeeps ==
  ASSUME IInv, WorkerFinish
  PROVE  IInv'
<1>1. TypeOK
  BY DEF IInv
<1>2. PICK t \in Target : t = worker
  BY <1>1 DEF WorkerFinish, TypeOK
<1>3. /\ SetStatus(t, "CALCULATED")
      /\ calc' = IF Live(t) THEN [calc EXCEPT ![t] = @ + 1] ELSE calc
      /\ worker' = Idle
      /\ UNCHANGED <<inst, actions, pc, frame, jobs, next, waived, fails>>
  BY <1>2 DEF WorkerFinish, engineVars
<1>4. "CALCULATED" \in RunStatus
  BY DEF RunStatus
<1>5. /\ status' \in [Target -> RunStatus]
      /\ status'[t] = IF Live(t) THEN "CALCULATED" ELSE status[t]
      /\ \A u \in Target \ {t} : status'[u] = status[u]
  BY <1>1, <1>3, <1>4, SetStatusType
<1>6. /\ calc' \in [Target -> Nat] /\ \A u \in Target \ {t} : calc'[u] = calc[u]
      /\ IF Live(t) THEN calc'[t] > 0 ELSE calc'[t] = calc[t]
  BY <1>1, <1>3 DEF TypeOK
<1>7. TypeOK'
  BY <1>1, <1>3, <1>5, <1>6 DEF TypeOK
<1>8. Grows
  BY <1>3 DEF Grows, Routed
<1>9. \A u \in Target \ {t} : RunOk(u)' /\ (Counted(u) => Counted(u)')
  BY <1>3, <1>5, <1>6, <1>8, RunKept DEF IInv
<1>10. RunOk(t)' /\ (Counted(t) => Counted(t)')
  <2>1. CASE Live(t)
    BY <1>5, <1>6, <2>1 DEF RunOk, Counted
  <2>2. CASE ~ Live(t)
    BY <1>3, <1>5, <1>6, <1>8, <2>2, RunKept DEF IInv
  <2>3. QED
    BY <2>1, <2>2
<1>11. QED
  BY <1>3, <1>7, <1>9, <1>10, WorkerStep

-----------------------------------------------------------------------------
(* Theorems. *)

\* No run exists yet, and no handler is under way.
LEMMA InitInv == Init => IInv
<1> SUFFICES ASSUME Init PROVE IInv
  OBVIOUS
<1>1. /\ EngineTypeOK /\ EngineInv
      /\ \A i \in Instance : ~ Routed(i)
      /\ \A h \in Handler : pc[h] = "idle"
  BY EngineInitOK DEF Init
<1>2. TypeOK
  BY <1>1 DEF Init, EngineInit, EngineTypeOK, TypeOK, RunStatus, EnginePc
<1>3. \A t \in Target : RunOk(t)
  BY DEF Init, RunOk
<1>4. \A h \in Handler : HandlerOk(h)
  BY <1>1 DEF Init, HandlerOk
<1>5. QED
  BY <1>1, <1>2, <1>3, <1>4 DEF IInv, InstOk

\* Every step keeps the invariant.
LEMMA NextInv == IInv /\ [Next]_vars => IInv'
<1> SUFFICES ASSUME IInv, [Next]_vars PROVE IInv'
  OBVIOUS
<1>1. ASSUME NEW h \in Handler, Continue(h) PROVE IInv'
  BY <1>1, EnqueueKeeps, SubmitCreateKeeps, SubmitNoFlowKeeps, CutShortKeeps, SubmitUpdateKeeps,
     PayUpdateKeeps, RemoveCancelKeeps, RemoveDeleteKeeps, ListenReadKeeps, ListenUpdateKeeps
     DEF Continue
<1>2. ASSUME NEW h \in Handler, Handle(h) PROVE IInv'
  BY <1>1, <1>2, BeginKeeps, DecideInv DEF Handle
<1>3. CASE UNCHANGED vars
  <2>1. TypeOK'
    BY <1>3 DEF IInv, TypeOK, vars
  <2>2. Grows /\ UNCHANGED <<inst, actions, pc, frame, status, calc, next, waived>>
    BY <1>3 DEF Grows, Routed, vars
  <2>3. \A t \in Target : RunOk(t)' /\ (Counted(t) => Counted(t)')
    BY <2>2, QuietRuns
  <2>4. QED
    BY <2>1, <2>2, <2>3, WorkerStep
<1>4. QED
  BY <1>2, <1>3, CutShortKeeps, CreateRunKeeps, WorkerQueueKeeps, WorkerFinishKeeps DEF Next

\* The inductive invariant holds always.
THEOREM Inductive == Spec => []IInv
BY InitInv, NextInv, PTL DEF Spec

\* Every variable keeps its type.
THEOREM TypeCorrect == Spec => []TypeOK
<1>1. IInv => TypeOK
  BY DEF IInv
<1>2. QED
  BY <1>1, Inductive, PTL

\* A run is CALCULATED, waiting, approved or paid only with payslips, whatever a late
\* worker, a late submit or a remove writes over it (calculateRun, submit, pay, remove).
THEOREM CalculatedBeforePaid == Spec => []CalculatedFirst
<1>1. IInv => CalculatedFirst
  BY DEF IInv, RunOk, CalculatedFirst
<1>2. QED
  BY <1>1, Inductive, PTL

\* A run is approved or paid only if it was waived, or every step of one approval of it
\* has signed, however many approvals it has had (submit, onApprovalDecided, pay).
THEOREM PaidOnlySigned == Spec => []PaidNeedsChain
<1>1. IInv => PaidNeedsChain
  BY DEF IInv, RunOk, Approvable, PaidNeedsChain
<1>2. QED
  BY <1>1, Inductive, PTL

-----------------------------------------------------------------------------
(* One handler at a time, and none cut short: who a run waits for.  Several   *)
(* handlers could submit, decide and remove one run between each other's      *)
(* reads and writes; a single one finds what it read.                         *)

OneAtATime == \A g, h \in Handler : g = h

OpenFor(t)  == \E i \in Instance : inst[i].status = "PENDING" /\ inst[i].target = t

\* The decision on a run is on its way to the run.
Deciding(t) == \E h \in Handler : frame[h].t = t /\ pc[h] \in {"emit", "l.update"}

WaitOk(t) ==
  /\ status[t] = "PENDING_APPROVAL" => OpenFor(t) \/ Deciding(t)
  /\ status[t] = "deleted" => ~ OpenFor(t)
  /\ status[t] = "DRAFT" => calc[t] = 0

\* What a handler has read, or done, and relies upon.
ReadOk(h) ==
  /\ pc[h] \in {"act", "update"} => inst[frame[h].i].status = "PENDING"
  /\ pc[h] = "s.create" => Live(frame[h].t)
  /\ next[h] = "PENDING_APPROVAL" => pc[h] = "s.update" /\ OpenFor(frame[h].t)
  /\ pc[h] = "r.cancel" => status[frame[h].t] \in Open
  /\ pc[h] = "r.delete" => status[frame[h].t] \in Open /\ ~ OpenFor(frame[h].t)

\* The inductive invariant of a single handler.
SerialInv == fails = 0 => (\A t \in Target : WaitOk(t)) /\ \A h \in Handler : ReadOk(h)

\* The single handler is everybody.
LEMMA Everybody ==
  ASSUME OneAtATime, NEW h \in Handler
  PROVE  /\ \A g \in Handler : g = h
         /\ \A t : Deciding(t) <=> frame[h].t = t /\ pc[h] \in {"emit", "l.update"}
BY DEF OneAtATime, Deciding

\* A draft has no approval, open or not: nothing but a calculated run is submitted.
LEMMA DraftUnsubmitted ==
  ASSUME IInv, NEW t \in Target, status[t] \in {"none", "DRAFT"}, WaitOk(t)
  PROVE  ~ OpenFor(t)
BY DEF IInv, RunOk, InstOk, Counted, Routed, OpenFor, WaitOk

\* Rows that stay open, or closed, for the same run.
LEMMA OpenSame ==
  ASSUME \A i \in Instance : /\ inst'[i].status = "PENDING" <=> inst[i].status = "PENDING"
                             /\ inst[i].status = "PENDING" => inst'[i].target = inst[i].target
  PROVE  \A t : OpenFor(t)' <=> OpenFor(t)
BY DEF OpenFor

\* A run is left alone, or is written to a status that waits for nobody.
LEMMA WaitKept ==
  ASSUME inst' = inst, NEW t \in Target, WaitOk(t),
         \/ status'[t] = status[t] /\ calc'[t] = calc[t]
         \/ status'[t] \notin {"PENDING_APPROVAL", "deleted", "DRAFT"},
         Deciding(t) => Deciding(t)' \/ status'[t] # "PENDING_APPROVAL"
  PROVE  WaitOk(t)'
BY DEF WaitOk, OpenFor

\* The step of a single handler, shown for its own reads and for every run.
LEMMA SerialStep ==
  ASSUME OneAtATime, NEW h \in Handler, fails' = fails,
         fails = 0 => ReadOk(h)' /\ \A t \in Target : WaitOk(t)'
  PROVE  SerialInv'
BY Everybody DEF SerialInv

\* calculate, submit, pay and remove, the first read.
LEMMA BeginSerial ==
  ASSUME OneAtATime, IInv, SerialInv, NEW h \in Handler, NEW t \in Target,
         CalculateRead(h, t) \/ SubmitRead(h, t) \/ PayRead(h, t) \/ RemoveRead(h, t)
  PROVE  SerialInv'
<1>1. UNCHANGED <<inst, status, calc, next, fails>>
  BY DEF CalculateRead, SubmitRead, PayRead, RemoveRead, runVars
<1>2. /\ pc[h] = "idle" /\ frame'[h].t = t
      /\ \/ pc'[h] \in {"k.enqueue", "p.update"}
         \/ pc'[h] = "s.create" /\ status[t] = "CALCULATED"
         \/ pc'[h] = "r.cancel" /\ status[t] = "CALCULATED"
         \/ pc'[h] = "r.delete" /\ status[t] = "DRAFT"
  <2>1. pc \in [Handler -> Labels] /\ frame \in [Handler -> Frame]
    BY DEF IInv, TypeOK, Labels
  <2>2. ASSUME NEW S, NEW l, Begin(h, t, S, l)
        PROVE  pc[h] = "idle" /\ frame'[h].t = t /\ pc'[h] = l /\ status[t] \in S
    BY <2>1, <2>2, TargetSet DEF Begin, Goto
  <2>3. CASE CalculateRead(h, t)
    BY <2>2, <2>3 DEF CalculateRead
  <2>4. CASE SubmitRead(h, t)
    BY <2>2, <2>4 DEF SubmitRead
  <2>5. CASE PayRead(h, t)
    BY <2>2, <2>5 DEF PayRead
  <2>6. CASE RemoveRead(h, t)
    BY <2>2, <2>6 DEF RemoveRead, Open
  <2>7. QED
    BY <2>3, <2>4, <2>5, <2>6
<1>3. next[h] = "none"
  BY <1>2 DEF IInv, HandlerOk
<1>4. ASSUME fails = 0 PROVE ReadOk(h)' /\ \A u \in Target : WaitOk(u)'
  <2>1. \A u \in Target : WaitOk(u)'
    BY <1>1, <1>2, <1>4, Everybody, WaitKept DEF SerialInv
  <2>2. pc'[h] = "r.delete" => ~ OpenFor(t)'
    BY <1>1, <1>2, <1>4, DraftUnsubmitted DEF SerialInv, OpenFor
  <2>3. ReadOk(h)'
    BY <1>1, <1>2, <1>3, <2>2 DEF ReadOk, Live, Open, OpenFor
  <2>4. QED
    BY <2>1, <2>3
<1>5. QED
  BY <1>1, <1>4, SerialStep

\* A handler that ends without a decision on its way, and with a status written
\* that waits for nobody, or none.
LEMMA EndSerial ==
  ASSUME OneAtATime, IInv, SerialInv, NEW h \in Handler, End(h), inst' = inst, fails' = fails,
         pc[h] \notin {"emit", "l.update"},
         fails = 0 => \A t \in Target :
           \/ status'[t] = status[t] /\ calc'[t] = calc[t]
           \/ status'[t] \notin {"PENDING_APPROVAL", "deleted", "DRAFT"}
           \/ WaitOk(t)'
  PROVE  SerialInv'
<1>1. pc'[h] = "idle" /\ next'[h] = "none"
  BY EndType DEF IInv
<1>2. ReadOk(h)'
  BY <1>1 DEF ReadOk
<1>3. fails = 0 => \A t \in Target : WaitOk(t)'
  BY Everybody, WaitKept DEF SerialInv
<1>4. QED
  BY <1>2, <1>3, SerialStep

\* calculate, the job queued; submit, refused; submit and pay, the status written;
\* remove, the run deleted.
LEMMA LastWriteSerial ==
  ASSUME OneAtATime, IInv, SerialInv, NEW h \in Handler,
         Enqueue(h) \/ SubmitRefused(h) \/ SubmitUpdate(h) \/ PayUpdate(h) \/ RemoveDelete(h)
  PROVE  SerialInv'
<1>1. /\ End(h) /\ inst' = inst /\ fails' = fails /\ pc[h] \notin {"emit", "l.update"}
  BY DEF Enqueue, SubmitRefused, SubmitUpdate, PayUpdate, RemoveDelete
<1>2. PICK t \in Target : t = frame[h].t
  BY DEF IInv, TypeOK, Frame
<1>3. CASE Enqueue(h) \/ SubmitRefused(h)
  <2>1. UNCHANGED <<status, calc>>
    BY <1>3 DEF Enqueue, SubmitRefused
  <2>2. QED
    BY <1>1, <2>1, EndSerial
<1>4. CASE SubmitUpdate(h)
  <2>1. PICK s \in {"PENDING_APPROVAL", "APPROVED"} : s = next[h]
    BY <1>4 DEF SubmitUpdate, IInv, TypeOK, HandlerOk
  <2>2. SetStatus(t, s) /\ calc' = calc /\ s \in RunStatus
    BY <1>2, <1>4, <2>1 DEF SubmitUpdate, RunStatus
  <2>3. /\ status'[t] = IF Live(t) THEN s ELSE status[t]
        /\ \A u \in Target \ {t} : status'[u] = status[u]
    BY <2>2, SetStatusType DEF IInv
  <2>4. ASSUME fails = 0, status'[t] = "PENDING_APPROVAL", Live(t) PROVE WaitOk(t)'
    <3>1. OpenFor(t)
      BY <1>2, <2>1, <2>3, <2>4 DEF SerialInv, ReadOk, OpenFor
    <3>2. QED
      BY <1>1, <2>4, <3>1 DEF WaitOk, OpenFor
  <2>5. fails = 0 => \A u \in Target : \/ status'[u] = status[u] /\ calc'[u] = calc[u]
                                      \/ status'[u] \notin {"PENDING_APPROVAL", "deleted", "DRAFT"}
                                      \/ WaitOk(u)'
    BY <2>1, <2>2, <2>3, <2>4
  <2>6. QED
    BY <1>1, <2>5, EndSerial
<1>5. CASE PayUpdate(h)
  <2>1. SetStatus(t, "PAID") /\ calc' = calc /\ "PAID" \in RunStatus
    BY <1>2, <1>5 DEF PayUpdate, RunStatus
  <2>2. /\ status'[t] = IF Live(t) THEN "PAID" ELSE status[t]
        /\ \A u \in Target \ {t} : status'[u] = status[u]
    BY <2>1, SetStatusType DEF IInv
  <2>3. QED
    BY <1>1, <2>1, <2>2, EndSerial
<1>6. CASE RemoveDelete(h)
  <2>1. /\ pc[h] = "r.delete" /\ SetStatus(t, "deleted") /\ "deleted" \in RunStatus
        /\ calc' = [calc EXCEPT ![t] = 0]
    BY <1>2, <1>6 DEF RemoveDelete, RunStatus
  <2>2. /\ status'[t] = IF Live(t) THEN "deleted" ELSE status[t]
        /\ \A u \in Target \ {t} : status'[u] = status[u] /\ calc'[u] = calc[u]
    BY <2>1, SetStatusType DEF IInv, TypeOK
  <2>3. ASSUME fails = 0 PROVE WaitOk(t)'
    <3>1. status[t] \in Open /\ ~ OpenFor(t)
      BY <1>2, <2>1, <2>3 DEF SerialInv, ReadOk, OpenFor
    <3>2. status'[t] = "deleted" /\ ~ OpenFor(t)'
      BY <1>1, <2>2, <3>1 DEF Open, Live, OpenFor
    <3>3. QED
      BY <3>2 DEF WaitOk
  <2>4. fails = 0 => \A u \in Target : \/ status'[u] = status[u] /\ calc'[u] = calc[u]
                                      \/ status'[u] \notin {"PENDING_APPROVAL", "deleted", "DRAFT"}
                                      \/ WaitOk(u)'
    BY <2>2, <2>3
  <2>5. QED
    BY <1>1, <2>4, EndSerial
<1>7. QED
  BY <1>3, <1>4, <1>5, <1>6

\* submit, the instance created or waived.
LEMMA SubmitSerial ==
  ASSUME OneAtATime, IInv, SerialInv, NEW h \in Handler, SubmitCreate(h) \/ SubmitNoFlow(h)
  PROVE  SerialInv'
<1>1. pc[h] = "s.create" /\ UNCHANGED <<status, calc, fails>>
  BY DEF SubmitCreate, SubmitNoFlow
<1>2. PICK t \in Target : t = frame[h].t
  BY DEF IInv, TypeOK, Frame
<1>3. /\ EngineTypeOK /\ inst \in [Instance -> Row] /\ pc \in [Handler -> Labels]
      /\ frame \in [Handler -> Frame]
      /\ next \in [Handler -> {"none", "PENDING_APPROVAL", "APPROVED"}]
  BY EngineTyped DEF IInv, TypeOK
<1>4. CASE SubmitNoFlow(h)
  <2>1. inst' = inst /\ pc'[h] = "s.update" /\ next'[h] = "APPROVED"
    BY <1>3, <1>4 DEF SubmitNoFlow, Goto
  <2>2. ReadOk(h)'
    BY <2>1 DEF ReadOk
  <2>3. fails = 0 => \A u \in Target : WaitOk(u)'
    BY <1>1, <2>1, Everybody, WaitKept DEF SerialInv
  <2>4. QED
    BY <1>1, <2>2, <2>3, SerialStep
<1>5. ASSUME NEW i \in Instance, NEW resolved \in [Step -> Resolution],
             CreatePending(i, t, resolved) \/ CreateApproved(i, t, resolved)
      PROVE  /\ inst'[i].target = t /\ inst[i].status = "none"
             /\ \A j \in Instance \ {i} : inst'[j] = inst[j]
             /\ CreatePending(i, t, resolved) => inst'[i].status = "PENDING"
             /\ CreateApproved(i, t, resolved) => inst'[i].status = "APPROVED"
  <2>1. ASSUME NEW s, NEW c PROVE NewRow(t, resolved, s, c).status = s
    BY DEF NewRow, NoRow
  <2>2. inst'[i].target = t /\ \A j \in Instance \ {i} : inst'[j] = inst[j]
    <3>1. actions' = actions
      BY <1>1, <1>4, <1>5 DEF SubmitCreate, SubmitNoFlow
    <3>2. QED
      BY <1>3, <1>5, <3>1, CreateGrows
  <2>3. inst[i].status = "none"
    BY <1>5 DEF CreatePending, CreateApproved
  <2>4. ASSUME CreatePending(i, t, resolved) PROVE inst'[i].status = "PENDING"
    <3>1. PICK c : inst' = [inst EXCEPT ![i] = NewRow(t, resolved, "PENDING", c)]
      BY <2>4 DEF CreatePending
    <3>2. QED
      BY <1>3, <2>1, <3>1
  <2>5. ASSUME CreateApproved(i, t, resolved) PROVE inst'[i].status = "APPROVED"
    BY <1>3, <2>1, <2>5 DEF CreateApproved
  <2>6. QED
    BY <2>2, <2>3, <2>4, <2>5
<1>6. CASE SubmitCreate(h)
  <2>1. PICK i \in Instance, resolved \in [Step -> Resolution] :
          \/ /\ CreatePending(i, t, resolved)
             /\ next' = [next EXCEPT ![h] = "PENDING_APPROVAL"]
             /\ Goto(h, "s.update") /\ frame' = frame
          \/ /\ CreateApproved(i, t, resolved)
             /\ next' = [next EXCEPT ![h] = "APPROVED"]
             /\ Announce(h, i, t, "APPROVED")
    BY <1>2, <1>6 DEF SubmitCreate
  <2>2. /\ inst'[i].target = t /\ inst[i].status = "none"
        /\ \A j \in Instance \ {i} : inst'[j] = inst[j]
    BY <1>5, <2>1
  <2>3. \A u \in Target \ {t} : OpenFor(u)' <=> OpenFor(u)
    BY <2>2 DEF OpenFor
  <2>4. OpenFor(t) => OpenFor(t)'
    BY <2>2 DEF OpenFor
  <2>5. fails = 0 => \A u \in Target : WaitOk(u)'
    <3>1. SUFFICES ASSUME fails = 0, NEW u \in Target PROVE WaitOk(u)'
      OBVIOUS
    <3>2. WaitOk(u) /\ (u = t => status[u] # "deleted") /\ ~ Deciding(u)
      BY <1>1, <1>2, <3>1, Everybody DEF SerialInv, ReadOk, Live
    <3>3. QED
      BY <1>1, <2>3, <2>4, <3>2 DEF WaitOk
  <2>6. ReadOk(h)'
    <3>1. CASE /\ CreatePending(i, t, resolved)
               /\ next' = [next EXCEPT ![h] = "PENDING_APPROVAL"]
               /\ Goto(h, "s.update") /\ frame' = frame
      <4>1. pc'[h] = "s.update" /\ frame'[h].t = t /\ OpenFor(t)'
        BY <1>2, <1>3, <1>5, <3>1 DEF Goto, OpenFor
      <4>2. QED
        BY <4>1 DEF ReadOk, OpenFor
    <3>2. CASE /\ CreateApproved(i, t, resolved)
               /\ next' = [next EXCEPT ![h] = "APPROVED"]
               /\ Announce(h, i, t, "APPROVED")
      <4>1. pc'[h] = "emit" /\ next'[h] = "APPROVED"
        BY <1>3, <3>2 DEF Announce, Goto
      <4>2. QED
        BY <4>1 DEF ReadOk
    <3>3. QED
      BY <2>1, <3>1, <3>2
  <2>7. QED
    BY <1>1, <2>5, <2>6, SerialStep
<1>7. QED
  BY <1>4, <1>6

\* remove, the approvals of the run cancelled: none of them is open any more.
LEMMA RemoveCancelSerial ==
  ASSUME OneAtATime, IInv, SerialInv, NEW h \in Handler, RemoveCancel(h)
  PROVE  SerialInv'
<1>1. PICK t \in Target : t = frame[h].t
  BY DEF IInv, TypeOK, Frame
<1>2. /\ pc[h] = "r.cancel" /\ CancelByTarget(t)
      /\ UNCHANGED <<actions, frame, status, calc, next, fails>>
  BY <1>1 DEF RemoveCancel, runVars
<1>3. pc'[h] = "r.delete" /\ next[h] = "none"
  BY <1>2 DEF RemoveCancel, Goto, IInv, TypeOK, HandlerOk
<1>4. \A i \in Instance : inst'[i] = IF inst[i].target = t /\ inst[i].status = "PENDING"
                                     THEN [inst[i] EXCEPT !.status = "CANCELLED"] ELSE inst[i]
  BY <1>2 DEF CancelByTarget
<1>5. \A i \in Instance : inst[i] \in Row
  BY DEF IInv, TypeOK
<1>6. /\ ~ OpenFor(t)'
      /\ \A u \in Target \ {t} : OpenFor(u)' <=> OpenFor(u)
  BY <1>4, <1>5 DEF OpenFor, Row
<1>7. ASSUME fails = 0 PROVE ReadOk(h)' /\ \A u \in Target : WaitOk(u)'
  <2>1. status[t] \in Open
    BY <1>1, <1>2, <1>7 DEF SerialInv, ReadOk
  <2>2. ReadOk(h)'
    BY <1>1, <1>2, <1>3, <1>6, <2>1 DEF ReadOk, OpenFor
  <2>3. \A u \in Target : WaitOk(u) /\ ~ Deciding(u)
    BY <1>2, <1>7, Everybody DEF SerialInv
  <2>4. \A u \in Target : WaitOk(u)'
    BY <1>2, <1>6, <2>1, <2>3 DEF WaitOk, Open
  <2>5. QED
    BY <2>2, <2>4
<1>8. QED
  BY <1>2, <1>7, SerialStep

\* The listener: what it found PENDING_APPROVAL it takes out of that status.
LEMMA ListenSerial ==
  ASSUME OneAtATime, IInv, SerialInv, NEW h \in Handler, ListenRead(h) \/ ListenUpdate(h)
  PROVE  SerialInv'
<1>1. PICK t \in Target : t = frame[h].t
  BY DEF IInv, TypeOK, Frame
<1>2. UNCHANGED <<inst, calc, next, fails>> /\ pc[h] \in {"emit", "l.update"}
  BY DEF ListenRead, ListenUpdate, runVars
<1>3. pc \in [Handler -> Labels] /\ frame \in [Handler -> Frame]
      /\ next[h] \in {"none", "PENDING_APPROVAL", "APPROVED"}
  BY DEF IInv, TypeOK, Labels
<1>4. fails = 0 => next[h] # "PENDING_APPROVAL"
  BY <1>2 DEF SerialInv, ReadOk
<1>5. pc'[h] \in {"idle", "s.update", "l.update"}
  BY <1>3 DEF ListenRead, ListenUpdate, Listened, Return, Goto
<1>6. fails = 0 => ReadOk(h)'
  BY <1>2, <1>4, <1>5 DEF ReadOk
<1>7. CASE ListenRead(h)
  <2>1. status' = status
    BY <1>7 DEF ListenRead, runVars
  <2>2. status[t] = "PENDING_APPROVAL" => pc'[h] = "l.update" /\ frame' = frame
    BY <1>1, <1>3, <1>7 DEF ListenRead, Goto
  <2>3. \A u \in Target : Deciding(u) => Deciding(u)' \/ status'[u] # "PENDING_APPROVAL"
    BY <1>1, <2>1, <2>2, Everybody DEF Deciding
  <2>4. fails = 0 => \A u \in Target : WaitOk(u)'
    BY <1>2, <2>1, <2>3, WaitKept DEF SerialInv
  <2>5. QED
    BY <1>2, <1>6, <2>4, SerialStep
<1>8. CASE ListenUpdate(h)
  <2>1. PICK s \in {"APPROVED", "CALCULATED"} : SetStatus(t, s) /\ s \in RunStatus
    BY <1>1, <1>8 DEF ListenUpdate, RunStatus
  <2>2. /\ status'[t] = IF Live(t) THEN s ELSE status[t]
        /\ \A u \in Target \ {t} : status'[u] = status[u]
    BY <2>1, SetStatusType DEF IInv
  <2>3. \A u \in Target : Deciding(u) => status'[u] # "PENDING_APPROVAL"
    BY <1>1, <2>2, Everybody DEF Live
  <2>4. \A u \in Target : \/ status'[u] = status[u] /\ calc'[u] = calc[u]
                          \/ status'[u] \notin {"PENDING_APPROVAL", "deleted", "DRAFT"}
    BY <1>2, <2>2
  <2>5. fails = 0 => \A u \in Target : WaitOk(u)'
    BY <1>2, <2>3, <2>4, WaitKept DEF SerialInv
  <2>6. QED
    BY <1>2, <1>6, <2>5, SerialStep
<1>9. QED
  BY <1>7, <1>8

\* decide: the row it closes is the run's, and the handler goes on to tell the run.
LEMMA DecideSerial ==
  ASSUME OneAtATime, IInv, SerialInv, NEW h \in Handler, Decide(h), UNCHANGED runVars
  PROVE  SerialInv'
<1>1. UNCHANGED <<status, calc, next, fails>>
  BY DEF runVars
<1>2. /\ EngineTypeOK /\ inst \in [Instance -> Row] /\ pc \in [Handler -> Labels]
      /\ frame \in [Handler -> Frame]
  BY EngineTyped DEF IInv, TypeOK
<1>3. PICK i \in Instance, t \in Target : i = frame[h].i /\ t = frame[h].t
  BY <1>2 DEF Frame
<1>4. /\ pc[h] \in {"idle", "act", "update"} /\ pc'[h] \in {"idle", "act", "update", "emit"}
      /\ next'[h] = "none"
  <2>1. pc[h] \in {"idle", "act", "update"} /\ pc'[h] \in {"idle", "act", "update", "emit"}
    BY <1>2 DEF Decide, DecideRead, DecideAct, DecideReject, DecideApprove,
                DecideForward, Goto, Return, Announce
  <2>2. QED
    BY <1>1, <2>1 DEF IInv, HandlerOk
<1>5. \A u : ~ Deciding(u)
  BY <1>4, Everybody
<1>6. ASSUME fails = 0, pc'[h] # "act", pc'[h] # "update" PROVE ReadOk(h)'
  BY <1>4, <1>6 DEF ReadOk
<1>7. CASE \E j \in Instance, u \in User, d \in Decision : DecideRead(h, j, u, d)
  <2>1. PICK j \in Instance : /\ inst[j].status = "PENDING" /\ pc'[h] = "act" /\ inst' = inst
                              /\ frame'[h].i = j
    BY <1>2, <1>7 DEF DecideRead, Goto, Frame
  <2>2. ReadOk(h)'
    BY <1>4, <2>1 DEF ReadOk
  <2>3. fails = 0 => \A u \in Target : WaitOk(u)'
    BY <1>1, <1>5, <2>1, WaitKept DEF SerialInv
  <2>4. QED
    BY <1>1, <2>2, <2>3, SerialStep
<1>8. CASE DecideAct(h)
  <2>1. pc[h] = "act" /\ inst' = inst /\ frame' = frame /\ pc'[h] = "update"
    BY <1>2, <1>8 DEF DecideAct, Goto
  <2>2. fails = 0 => ReadOk(h)'
    BY <1>4, <2>1 DEF SerialInv, ReadOk
  <2>3. fails = 0 => \A u \in Target : WaitOk(u)'
    BY <1>1, <1>5, <2>1, WaitKept DEF SerialInv
  <2>4. QED
    BY <1>1, <2>2, <2>3, SerialStep
<1>9. CASE DecideReject(h) \/ DecideApprove(h)
  <2>1. pc[h] = "update" /\ inst[i].target = t
    BY <1>3, <1>9 DEF DecideReject, DecideApprove, IInv, EngineInv, HandlerOnTurn, Carries
  <2>2. PICK o \in {"REJECTED", "APPROVED"} :
          WriteRow(i, o, frame[h].cur, frame[h].snap) /\ Announce(h, i, t, o)
    BY <1>3, <1>9 DEF DecideReject, DecideApprove
  <2>3. pc'[h] = "emit" /\ frame'[h].t = t
    BY <1>2, <2>2 DEF Announce, Goto, Frame
  <2>4. /\ \A j \in Instance \ {i} : inst'[j] = inst[j]
        /\ inst'[i].status = o
    BY <1>2, <2>2 DEF WriteRow, Row
  <2>5. \A u \in Target : (OpenFor(u)' => OpenFor(u)) /\ (u # t => (OpenFor(u) => OpenFor(u)'))
    BY <2>1, <2>4 DEF OpenFor
  <2>6. Deciding(t)'
    BY <2>3 DEF Deciding
  <2>7. fails = 0 => \A u \in Target : WaitOk(u)'
    BY <1>1, <1>5, <2>5, <2>6 DEF SerialInv, WaitOk
  <2>8. QED
    BY <1>1, <1>6, <2>3, <2>7, SerialStep
<1>10. CASE DecideForward(h)
  <2>1. pc'[h] = "idle" /\ pc[h] = "update"
    BY <1>2, <1>10 DEF DecideForward, Return, Goto
  <2>2. ASSUME fails = 0 PROVE \A j \in Instance :
          /\ inst'[j].status = "PENDING" <=> inst[j].status = "PENDING"
          /\ inst'[j].target = inst[j].target
    <3>1. inst[i].status = "PENDING"
      BY <1>3, <2>1, <2>2 DEF SerialInv, ReadOk
    <3>2. CASE inst' = inst
      BY <3>2
    <3>3. ASSUME NEW n, WriteRow(i, "PENDING", n, frame[h].snap) PROVE \A j \in Instance :
          /\ inst'[j].status = "PENDING" <=> inst[j].status = "PENDING"
          /\ inst'[j].target = inst[j].target
      BY <1>2, <3>1, <3>3 DEF WriteRow, Row
    <3>4. QED
      BY <1>3, <1>10, <3>2, <3>3 DEF DecideForward
  <2>3. fails = 0 => \A u \in Target : OpenFor(u)' <=> OpenFor(u)
    BY <2>2 DEF OpenFor
  <2>4. fails = 0 => \A u \in Target : WaitOk(u)'
    BY <1>1, <1>5, <2>3 DEF SerialInv, WaitOk
  <2>5. QED
    BY <1>1, <1>6, <2>1, <2>4, SerialStep
<1>11. QED
  BY <1>7, <1>8, <1>9, <1>10 DEF Decide

\* create, the worker, and whatever ends or cuts short a step: the worker writes only
\* CALCULATED, and a failure leaves the hypothesis.
LEMMA OtherSerial ==
  ASSUME IInv, SerialInv,
         \/ \E t \in Target : CreateRun(t) \/ WorkerTake(t)
         \/ WorkerFinish \/ WorkerFail \/ UNCHANGED vars \/ \E h \in Handler : Fail(h)
  PROVE  SerialInv'
<1>1. CASE WorkerFail \/ \E h \in Handler : Fail(h)
  <2>1. fails' # 0
    BY <1>1 DEF WorkerFail, Fail, IInv, TypeOK
  <2>2. QED
    BY <2>1 DEF SerialInv
<1>2. ASSUME UNCHANGED <<inst, pc, frame, next, fails>>,
             fails = 0 => \A t \in Target :
               /\ \/ status'[t] = status[t] /\ calc'[t] = calc[t]
                  \/ status'[t] \notin {"PENDING_APPROVAL", "deleted", "DRAFT"}
                  \/ WaitOk(t)'
               /\ Live(t) => Live(t)'
               /\ status[t] \in Open => status'[t] \in Open
      PROVE  SerialInv'
  <2>1. \A t : (OpenFor(t)' <=> OpenFor(t)) /\ (Deciding(t)' <=> Deciding(t))
    BY <1>2 DEF OpenFor, Deciding
  <2>2. fails = 0 => \A t \in Target : WaitOk(t)'
    BY <1>2, <2>1, WaitKept DEF SerialInv
  <2>3. ASSUME fails = 0, NEW h \in Handler PROVE ReadOk(h)'
    <3>1. PICK t \in Target : t = frame[h].t
      BY DEF IInv, TypeOK, Frame
    <3>2. (Live(t) => Live(t)') /\ (status[t] \in Open => status'[t] \in Open)
      BY <1>2, <2>3
    <3>3. ReadOk(h)
      BY <2>3 DEF SerialInv
    <3>4. QED
      BY <1>2, <2>1, <3>1, <3>2, <3>3 DEF ReadOk, Live, OpenFor
  <2>4. QED
    BY <1>2, <2>2, <2>3 DEF SerialInv
<1>3. ASSUME NEW t \in Target, CreateRun(t) PROVE SerialInv'
  <2>1. /\ UNCHANGED <<inst, pc, frame, next, fails, calc>>
        /\ status[t] = "none" /\ status'[t] = "DRAFT"
        /\ \A u \in Target \ {t} : status'[u] = status[u]
    BY <1>3 DEF CreateRun, engineVars, IInv, TypeOK
  <2>2. fails = 0 => WaitOk(t)'
    BY <2>1 DEF IInv, RunOk, WaitOk
  <2>3. QED
    BY <1>2, <2>1, <2>2 DEF Live, Open
<1>4. CASE WorkerFinish
  <2>1. PICK t \in Target : t = worker
    BY <1>4 DEF WorkerFinish, IInv, TypeOK
  <2>2. /\ SetStatus(t, "CALCULATED") /\ "CALCULATED" \in RunStatus
        /\ UNCHANGED <<inst, pc, frame, next, fails>>
        /\ calc' = IF Live(t) THEN [calc EXCEPT ![t] = @ + 1] ELSE calc
    BY <1>4, <2>1 DEF WorkerFinish, engineVars, RunStatus
  <2>3. /\ status'[t] = IF Live(t) THEN "CALCULATED" ELSE status[t]
        /\ \A u \in Target \ {t} : status'[u] = status[u]
    BY <2>2, SetStatusType DEF IInv
  <2>4. \A u \in Target : /\ \/ status'[u] = status[u] /\ calc'[u] = calc[u]
                             \/ status'[u] = "CALCULATED"
                          /\ Live(u) => Live(u)'
                          /\ status[u] \in Open => status'[u] \in Open
    BY <2>2, <2>3 DEF Live, Open, IInv, TypeOK
  <2>5. QED
    BY <1>2, <2>2, <2>4
<1>5. CASE UNCHANGED vars \/ \E t \in Target : WorkerTake(t)
  <2>1. UNCHANGED <<inst, pc, frame, next, fails, status, calc>>
    BY <1>5 DEF WorkerTake, vars, engineVars
  <2>2. QED
    BY <1>2, <2>1 DEF Live
<1>6. QED
  BY <1>1, <1>3, <1>4, <1>5

\* A single handler keeps the serial invariant.
LEMMA NextSerial ==
  ASSUME OneAtATime, IInv, SerialInv, [Next]_vars
  PROVE  SerialInv'
<1>1. ASSUME NEW h \in Handler, Handle(h) PROVE SerialInv'
  <2>1. CASE Continue(h)
    BY <2>1, LastWriteSerial, SubmitSerial, RemoveCancelSerial, ListenSerial DEF Continue
  <2>2. QED
    BY <1>1, <2>1, BeginSerial, DecideSerial DEF Handle
<1>2. QED
  BY <1>1, OtherSerial DEF Next

\* With one handler at a time, and none cut short, a run waits for approval only if an
\* approval of it is open, and a deleted run has left none behind, although the worker
\* may overwrite its status at any time (submit, remove, onApprovalDecided, calculateRun).
THEOREM SomeoneIsAsked ==
  ASSUME OneAtATime
  PROVE  Spec => []WaitsForSomeone
<1>1. Init => SerialInv
  <2>1. SUFFICES ASSUME Init PROVE SerialInv
    OBVIOUS
  <2>2. /\ \A h \in Handler : pc[h] = "idle" /\ next[h] = "none"
        /\ \A t \in Target : status[t] = "none"
    BY <2>1 DEF Init, EngineInit
  <2>3. QED
    BY <2>2 DEF SerialInv, WaitOk, ReadOk
<1>2. IInv /\ SerialInv /\ [Next]_vars => SerialInv'
  BY NextSerial
<1>3. SerialInv => WaitsForSomeone
  BY DEF SerialInv, WaitOk, Deciding, OpenFor, WaitsForSomeone
<1>4. QED
  BY <1>1, <1>2, <1>3, Inductive, PTL DEF Spec
=============================================================================
