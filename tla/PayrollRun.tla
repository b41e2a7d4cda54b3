----------------------------- MODULE PayrollRun -----------------------------
(***************************************************************************)
(* The payroll runs of one month: PayrollRunsService and the payroll-calc  *)
(* worker (apps/api/src/modules/payroll), over the approval engine.        *)
(*                                                                         *)
(* A run is created, calculated by a queued job, submitted for approval,   *)
(* approved and paid.  The service reads the status, awaits, and writes    *)
(* the row by id; so does the worker, whose last transaction replaces the  *)
(* payslips and sets CALCULATED whatever the run has become meanwhile.     *)
(*                                                                         *)
(* Targets are run ids.  A run may be submitted again after a refusal, so  *)
(* it can have several approval instances.                                 *)
(***************************************************************************)
EXTENDS ApprovalEngine

CONSTANTS
  MaxCalc, \* bound: calculations of a run, queued ones included
  MaxFail  \* bound: failures in a behaviour; one is what attempts: 2 retries

ASSUME PayrollAssumption == MaxCalc \in Nat /\ MaxFail \in Nat

VARIABLES
  status,  \* of each PayrollRun
  calc,    \* the calculation a run's payslips come from; 0: none yet
  jobs,    \* payroll-calc jobs waiting for each run
  worker,  \* the run being calculated, or none
  next,    \* submit's nextStatus in each handler, or none
  waived,  \* history: submitted while no approval flow was configured
  fails    \* failures so far

runVars == <<status, calc, jobs, worker, next, waived, fails>>
vars == <<inst, actions, pc, frame, status, calc, jobs, worker, next, waived, fails>>

RunStatus == {"none", "DRAFT", "CALCULATED", "PENDING_APPROVAL", "APPROVED", "PAID", "deleted"}
\* k: calculate, s: submit, p: pay, r: remove, l: the listener onApprovalDecided.
RunPc == {"k.enqueue", "s.create", "s.update", "p.update", "r.cancel", "r.delete", "l.update"}
Idle == "idle worker"

TypeOK ==
  /\ inst \in [Instance -> Row]
  /\ actions \subseteq ActionRow
  /\ pc \in [Handler -> EnginePc \cup RunPc]
  /\ frame \in [Handler -> Frame]
  /\ status \in [Target -> RunStatus]
  /\ calc \in [Target -> Nat] /\ jobs \in [Target -> Nat]
  /\ worker \in Target \cup {Idle}
  /\ next \in [Handler -> {"none", "PENDING_APPROVAL", "APPROVED"}]
  /\ waived \in [Target -> BOOLEAN]
  /\ fails \in Nat

Init ==
  /\ EngineInit
  /\ status = [t \in Target |-> "none"]
  /\ calc = [t \in Target |-> 0] /\ jobs = [t \in Target |-> 0]
  /\ worker = Idle
  /\ next = [h \in Handler |-> "none"]
  /\ waived = [t \in Target |-> FALSE]
  /\ fails = 0

Live(t) == status[t] \notin {"none", "deleted"}

\* A handler starts on run t, which it has just read in one of these states.
Begin(h, t, states, label) ==
  /\ pc[h] = "idle"
  /\ status[t] \in states
  /\ frame' = [frame EXCEPT ![h].t = t]
  /\ Goto(h, label)

End(h) == Return(h) /\ next' = [next EXCEPT ![h] = "none"]

\* update({where: {id}}) throws when the row is gone.
SetStatus(t, s) == status' = IF Live(t) THEN [status EXCEPT ![t] = s] ELSE status

-----------------------------------------------------------------------------
\* create: one run a month, by @@unique([orgId, month]).
CreateRun(t) ==
  /\ status[t] = "none"
  /\ \A u \in Target : ~ Live(u)
  /\ status' = [status EXCEPT ![t] = "DRAFT"]
  /\ UNCHANGED <<engineVars, calc, jobs, worker, next, waived, fails>>

\* calculate.
Open == {"DRAFT", "CALCULATED"}
Running(t) == IF worker = t THEN 1 ELSE 0

CalculateRead(h, t) ==
  /\ calc[t] + jobs[t] + Running(t) < MaxCalc
  /\ Begin(h, t, Open, "k.enqueue")
  /\ UNCHANGED <<inst, actions, runVars>>

Enqueue(h) ==
  /\ pc[h] = "k.enqueue"
  /\ jobs' = [jobs EXCEPT ![frame[h].t] = @ + 1]
  /\ End(h)
  /\ UNCHANGED <<inst, actions, status, calc, worker, waived, fails>>

\* submit.
SubmitRead(h, t) ==
  /\ Begin(h, t, {"CALCULATED"}, "s.create")
  /\ UNCHANGED <<inst, actions, runVars>>

\* createInstance runs the listener itself when it approves at once; submit then
\* goes on with the status it returned.
SubmitCreate(h) ==
  LET t == frame[h].t
  IN /\ pc[h] = "s.create"
     /\ \E i \in Instance, resolved \in [Step -> Resolution] :
          \/ /\ CreatePending(i, t, resolved)
             /\ next' = [next EXCEPT ![h] = "PENDING_APPROVAL"]
             /\ Goto(h, "s.update") /\ UNCHANGED frame
          \/ /\ CreateApproved(i, t, resolved)
             /\ next' = [next EXCEPT ![h] = "APPROVED"]
             /\ Announce(h, i, t, "APPROVED")
     /\ UNCHANGED <<actions, status, calc, jobs, worker, waived, fails>>

\* No flow: submit goes on as if approved.  A PENDING instance: it throws.
SubmitNoFlow(h) ==
  /\ pc[h] = "s.create"
  /\ next' = [next EXCEPT ![h] = "APPROVED"]
  /\ waived' = [waived EXCEPT ![frame[h].t] = TRUE]
  /\ Goto(h, "s.update")
  /\ UNCHANGED <<inst, actions, frame, status, calc, jobs, worker, fails>>

SubmitRefused(h) ==
  /\ pc[h] = "s.create"
  /\ \E i \in Instance : inst[i].status = "PENDING" /\ inst[i].target = frame[h].t
  /\ End(h)
  /\ UNCHANGED <<inst, actions, status, calc, jobs, worker, waived, fails>>

SubmitUpdate(h) ==
  /\ pc[h] = "s.update"
  /\ SetStatus(frame[h].t, next[h])
  /\ End(h)
  /\ UNCHANGED <<inst, actions, calc, jobs, worker, waived, fails>>

\* pay.
PayRead(h, t) ==
  /\ Begin(h, t, {"APPROVED"}, "p.update")
  /\ UNCHANGED <<inst, actions, runVars>>

PayUpdate(h) ==
  /\ pc[h] = "p.update"
  /\ SetStatus(frame[h].t, "PAID")
  /\ End(h)
  /\ UNCHANGED <<inst, actions, calc, jobs, worker, waived, fails>>

\* Mutant: the approval of the run is left open.
RemoveRead_NoCancel(h, t) ==
  /\ Begin(h, t, Open, "r.delete")
  /\ UNCHANGED <<inst, actions, runVars>>

\* remove: the payslips go with the run (onDelete: Cascade).
RemoveRead(h, t) ==
  /\ Begin(h, t, Open, IF status[t] = "CALCULATED" THEN "r.cancel" ELSE "r.delete")
  /\ UNCHANGED <<inst, actions, runVars>>

RemoveCancel(h) ==
  /\ pc[h] = "r.cancel"
  /\ CancelByTarget(frame[h].t)
  /\ Goto(h, "r.delete")
  /\ UNCHANGED <<actions, frame, runVars>>

RemoveDelete(h) ==
  /\ pc[h] = "r.delete"
  /\ SetStatus(frame[h].t, "deleted")
  /\ calc' = [calc EXCEPT ![frame[h].t] = 0]
  /\ End(h)
  /\ UNCHANGED <<inst, actions, jobs, worker, waived, fails>>

\* onApprovalDecided, called from decide or from submit's createInstance.
Listened(h) == IF next[h] = "none" THEN Return(h) ELSE Goto(h, "s.update") /\ UNCHANGED frame

ListenRead(h) ==
  /\ pc[h] = "emit"
  /\ IF status[frame[h].t] = "PENDING_APPROVAL"
     THEN Goto(h, "l.update") /\ UNCHANGED frame
     ELSE Listened(h)
  /\ UNCHANGED <<inst, actions, runVars>>

\* Mutant: a refusal approves too.
ListenUpdate_Approves(h) ==
  /\ pc[h] = "l.update"
  /\ SetStatus(frame[h].t, "APPROVED")
  /\ Listened(h)
  /\ UNCHANGED <<inst, actions, calc, jobs, worker, next, waived, fails>>

ListenUpdate(h) ==
  /\ pc[h] = "l.update"
  /\ SetStatus(frame[h].t, IF frame[h].outcome = "APPROVED" THEN "APPROVED" ELSE "CALCULATED")
  /\ Listened(h)
  /\ UNCHANGED <<inst, actions, calc, jobs, worker, next, waived, fails>>

Continue(h) ==
  \/ Enqueue(h)
  \/ SubmitCreate(h) \/ SubmitNoFlow(h) \/ SubmitRefused(h) \/ SubmitUpdate(h)
  \/ PayUpdate(h)
  \/ RemoveCancel(h) \/ RemoveDelete(h)
  \/ ListenRead(h) \/ ListenUpdate(h)

Handle(h) ==
  \/ \E t \in Target : CalculateRead(h, t) \/ SubmitRead(h, t) \/ PayRead(h, t) \/ RemoveRead(h, t)
  \/ Continue(h)
  \/ Decide(h) /\ UNCHANGED runVars

-----------------------------------------------------------------------------
(* calculateRun in the worker: one job at a time.  It leaves a run that is  *)
(* no longer open, or gone, alone; otherwise it gathers and computes, and   *)
(* then replaces the payslips and the status in one transaction.            *)

\* Mutant: a draft is passed over.
WorkerTake_SkipsDraft(t) ==
  /\ worker = Idle
  /\ jobs[t] > 0
  /\ jobs' = [jobs EXCEPT ![t] = @ - 1]
  /\ worker' = IF status[t] = "CALCULATED" THEN t ELSE Idle
  /\ UNCHANGED <<engineVars, status, calc, next, waived, fails>>

WorkerTake(t) ==
  /\ worker = Idle
  /\ jobs[t] > 0
  /\ jobs' = [jobs EXCEPT ![t] = @ - 1]
  /\ worker' = IF status[t] \in Open THEN t ELSE Idle
  /\ UNCHANGED <<engineVars, status, calc, next, waived, fails>>

\* finish; a run deleted meanwhile fails the transaction.
WorkerFinish ==
  /\ worker # Idle
  /\ SetStatus(worker, "CALCULATED")
  /\ calc' = IF Live(worker) THEN [calc EXCEPT ![worker] = @ + 1] ELSE calc
  /\ worker' = Idle
  /\ UNCHANGED <<engineVars, jobs, next, waived, fails>>

WorkerFail ==
  /\ worker # Idle
  /\ fails < MaxFail
  /\ jobs' = [jobs EXCEPT ![worker] = @ + 1]
  /\ worker' = Idle
  /\ fails' = fails + 1
  /\ UNCHANGED <<engineVars, status, calc, next, waived>>

\* A handler ends between two writes.
Fail(h) ==
  /\ pc[h] # "idle"
  /\ fails < MaxFail
  /\ fails' = fails + 1
  /\ End(h)
  /\ UNCHANGED <<inst, actions, status, calc, jobs, worker, waived>>

Next ==
  \/ \E t \in Target : CreateRun(t) \/ WorkerTake(t)
  \/ \E h \in Handler : Handle(h) \/ Fail(h)
  \/ WorkerFinish
  \/ WorkerFail

\* The queue is served; users owe it nothing.
Fairness ==
  /\ \A t \in Target : SF_vars(WorkerTake(t))
  /\ WF_vars(WorkerFinish)

Spec == Init /\ [][Next]_vars /\ Fairness

-----------------------------------------------------------------------------
\* Nothing is approved or paid that was never calculated (submit, finish).
CalculatedFirst ==
  \A t \in Target :
    status[t] \in {"CALCULATED", "PENDING_APPROVAL", "APPROVED", "PAID"} => calc[t] > 0

\* A run is approved or paid only if it was submitted without a flow or every
\* step of some approval of it has signed (submit, onApprovalDecided, pay).
PaidNeedsChain ==
  \A t \in Target : status[t] \in {"APPROVED", "PAID"} =>
    \/ waived[t]
    \/ \E i \in Instance : inst[i].status # "none" /\ inst[i].target = t /\ FullySigned(i)

\* Between handlers, a run waits for approval only if an approval of it is open,
\* and a deleted run has left none behind (submit, remove, onApprovalDecided).
WaitsForSomeone ==
  (\A h \in Handler : pc[h] = "idle") /\ fails = 0 =>
    \A t \in Target :
      LET open == \E i \in Instance : inst[i].status = "PENDING" /\ inst[i].target = t
      IN /\ status[t] = "PENDING_APPROVAL" => open
         /\ status[t] = "deleted" => ~ open

\* A calculation that was asked for is done, unless the run is deleted or closed.
CalculationHappens ==
  \A t \in Target : jobs[t] > 0 /\ status[t] = "DRAFT" ~> calc[t] > 0 \/ status[t] = "deleted"

\* payroll-runs.service.ts:68, PAID locks the run (schema.prisma:1812: payslips
\* are not replaced once the run is approved or paid).
PaidLocked ==
  [][\A t \in Target : status[t] = "PAID" =>
       status'[t] = status[t] /\ calc'[t] = calc[t]]_vars
=============================================================================
