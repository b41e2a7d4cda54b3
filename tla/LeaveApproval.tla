---------------------------- MODULE LeaveApproval ----------------------------
(***************************************************************************)
(* Leave requests sent through the approval engine: LeaveService in        *)
(* apps/api/src/modules/leave/leave.service.ts, with the queue and the     *)
(* worker that recalculate timesheet days after a leave changes.           *)
(*                                                                         *)
(* The requests belong to one employee and draw on one balance.  A request *)
(* has one approval instance, created with it, so the instance carries the *)
(* request's name.  Amounts are in half days.                              *)
(*                                                                         *)
(* Handlers are not serialised: createRequest, cancelRequest, decide and   *)
(* its listener onApprovalDecided interleave at every await, and Fail ends *)
(* one between two writes, as an exception or a restart does.              *)
(***************************************************************************)
EXTENDS ApprovalEngine, Integers, FiniteSetsExt

CONSTANTS
  Day,           \* working days
  DaysOf,        \* the days a request covers
  Cost,          \* totalDays of a request, in half days
  Paid,          \* requests of a paid leave type: they use the balance
  AllowNegative, \* allowNegativeBalance of the policy
  Grant,         \* the balance accrued before
  MaxFail,       \* bound: failures in a behaviour
  Lockable       \* bound: the days that HR may lock

ASSUME LeaveAssumption ==
  /\ Instance = Target
  /\ Day # {}
  /\ DaysOf \in [Target -> SUBSET Day]
  /\ Cost \in [Target -> Nat]
  /\ Paid \subseteq Target
  /\ AllowNegative \in BOOLEAN
  /\ Grant \in Int
  /\ MaxFail \in Nat
  /\ Lockable \subseteq Day

VARIABLES
  leave,    \* status of each LeaveRequest
  usage,    \* number of USAGE entries of a request in the ledger
  revert,   \* number of REVERT entries of a request in the ledger
  balance,  \* sum of all ledger entries, in half days
  avail,    \* getBalance's running result in each handler
  jobs,     \* days queued for recalculation
  worker,   \* the recalculation at work: the day and what it read, or none
  sheet,    \* TimesheetDay: is the day ON_LEAVE?
  locked,   \* TimesheetDay.locked
  fails     \* failures so far

leaveVars == <<leave, usage, revert, balance, avail, jobs, worker, sheet, locked, fails>>
vars == <<inst, actions, pc, frame, leave, usage, revert, balance, avail, jobs, worker,
          sheet, locked, fails>>

LeaveStatus == Status \cup {"none"}
\* c: createRequest, x: cancelRequest, l: the listener onApprovalDecided.
LeavePc == {"c.entries", "c.pending", "c.insert", "c.approval",
            "x.pending", "x.approved", "x.revert", "x.recalc", "x.update",
            "l.reject", "l.approve", "l.recalc"}
NoJob == [busy |-> FALSE, day |-> CHOOSE d \in Day : TRUE, onLeave |-> FALSE]

TypeOK ==
  /\ inst \in [Instance -> Row]
  /\ actions \subseteq ActionRow
  /\ pc \in [Handler -> EnginePc \cup LeavePc]
  /\ frame \in [Handler -> Frame]
  /\ leave \in [Target -> LeaveStatus]
  /\ usage \in [Target -> Nat] /\ revert \in [Target -> Nat]
  /\ balance \in Int
  /\ avail \in [Handler -> Int]
  /\ jobs \subseteq Day
  /\ worker \in [busy : BOOLEAN, day : Day, onLeave : BOOLEAN]
  /\ sheet \in [Day -> BOOLEAN] /\ locked \in [Day -> BOOLEAN]
  /\ fails \in Nat

Init ==
  /\ EngineInit
  /\ leave = [t \in Target |-> "none"]
  /\ usage = [t \in Target |-> 0] /\ revert = [t \in Target |-> 0]
  /\ balance = Grant
  /\ avail = [h \in Handler |-> 0]
  /\ jobs = {} /\ worker = NoJob
  /\ sheet = [d \in Day |-> FALSE] /\ locked = [d \in Day |-> FALSE]
  /\ fails = 0

-----------------------------------------------------------------------------
(* createRequest. *)

\* Mutant: only approved requests count as overlapping.
Overlapping_ApprovedOnly(t) == {u \in Target : leave[u] = "APPROVED" /\ DaysOf[u] \cap DaysOf[t] # {}}

\* The overlap check: no request that is open or approved shares a day.
Overlapping(t) == {u \in Target : leave[u] \in {"PENDING", "APPROVED"} /\ DaysOf[u] \cap DaysOf[t] # {}}

\* t is a fresh id: a row id nobody else is about to insert.
Creating(h) == pc[h] \in {"c.entries", "c.pending", "c.insert", "c.approval"}

CreateCheck(h, t) ==
  /\ pc[h] = "idle"
  /\ leave[t] = "none"
  /\ \A g \in Handler : ~ (Creating(g) /\ frame[g].t = t)
  /\ Overlapping(t) = {}
  /\ frame' = [frame EXCEPT ![h].t = t]
  /\ Goto(h, IF t \in Paid /\ ~ AllowNegative THEN "c.entries" ELSE "c.insert")
  /\ UNCHANGED <<inst, actions, leaveVars>>

\* getBalance reads the ledger, then the open requests, in two queries.
CreateReadEntries(h) ==
  /\ pc[h] = "c.entries"
  /\ avail' = [avail EXCEPT ![h] = balance]
  /\ Goto(h, "c.pending")
  /\ UNCHANGED <<inst, actions, frame, leave, usage, revert, balance, jobs, worker, sheet, locked, fails>>

PendingCost == MapThenSumSet(LAMBDA u : Cost[u], {u \in Paid : leave[u] = "PENDING"})

\* Mutant: the balance is compared without the open requests.
CreateReadPending_IgnoresOpen(h) ==
  /\ pc[h] = "c.pending"
  /\ avail' = [avail EXCEPT ![h] = 0]
  /\ IF Cost[frame[h].t] <= avail[h]
     THEN Goto(h, "c.insert") /\ UNCHANGED frame
     ELSE Return(h)
  /\ UNCHANGED <<inst, actions, leave, usage, revert, balance, jobs, worker, sheet, locked, fails>>

CreateReadPending(h) ==
  /\ pc[h] = "c.pending"
  /\ avail' = [avail EXCEPT ![h] = 0]
  /\ IF Cost[frame[h].t] <= avail[h] - PendingCost
     THEN Goto(h, "c.insert") /\ UNCHANGED frame
     ELSE Return(h)
  /\ UNCHANGED <<inst, actions, leave, usage, revert, balance, jobs, worker, sheet, locked, fails>>

CreateInsert(h) ==
  /\ pc[h] = "c.insert"
  /\ leave' = [leave EXCEPT ![frame[h].t] = "PENDING"]
  /\ Goto(h, "c.approval")
  /\ UNCHANGED <<inst, actions, frame, usage, revert, balance, avail, jobs, worker, sheet, locked, fails>>

\* createInstance for the new request.  A flow whose steps are all skipped
\* decides at once; no flow at all is an error, which is Fail.
CreateApproval(h) ==
  LET t == frame[h].t
  IN /\ pc[h] = "c.approval"
     /\ \E resolved \in [Step -> Resolution] :
          \/ CreatePending(t, t, resolved) /\ Return(h)
          \/ CreateApproved(t, t, resolved) /\ Announce(h, t, t, "APPROVED")
     /\ UNCHANGED <<actions, leaveVars>>

Create(h) ==
  \/ \E t \in Target : CreateCheck(h, t)
  \/ CreateReadEntries(h)
  \/ CreateReadPending(h)
  \/ CreateInsert(h)
  \/ CreateApproval(h)

-----------------------------------------------------------------------------
(* cancelRequest: what it does depends on the status it read at first. *)

CancelRead(h, t) ==
  /\ pc[h] = "idle"
  /\ frame' = [frame EXCEPT ![h].t = t]
  /\ \/ leave[t] = "PENDING"  /\ Goto(h, "x.pending")
     \/ leave[t] = "APPROVED" /\ Goto(h, "x.approved")
  /\ UNCHANGED <<inst, actions, leaveVars>>

\* Mutant: cancelling an approved leave gives nothing back.
CancelInstance_NoRevert(h) ==
  /\ pc[h] \in {"x.pending", "x.approved"}
  /\ CancelByTarget(frame[h].t)
  /\ Goto(h, "x.update")
  /\ UNCHANGED <<actions, frame, leaveVars>>

CancelInstance(h) ==
  /\ pc[h] \in {"x.pending", "x.approved"}
  /\ CancelByTarget(frame[h].t)
  /\ Goto(h, IF pc[h] = "x.approved" THEN "x.revert" ELSE "x.update")
  /\ UNCHANGED <<actions, frame, leaveVars>>

\* The REVERT entry gives the days back, of a paid type or not; only a paid
\* type has a balance.
CancelRevert(h) ==
  LET t == frame[h].t
  IN /\ pc[h] = "x.revert"
     /\ revert' = [revert EXCEPT ![t] = @ + 1]
     /\ balance' = IF t \in Paid THEN balance + Cost[t] ELSE balance
     /\ Goto(h, "x.recalc")
     /\ UNCHANGED <<inst, actions, frame, leave, usage, avail, jobs, worker, sheet, locked, fails>>

\* recalcRange queues the days of the request.
RecalcRange(t) == jobs' = jobs \cup DaysOf[t]

CancelRecalc(h) ==
  /\ pc[h] = "x.recalc"
  /\ RecalcRange(frame[h].t)
  /\ Goto(h, "x.update")
  /\ UNCHANGED <<inst, actions, frame, leave, usage, revert, balance, avail, worker, sheet, locked, fails>>

CancelUpdate(h) ==
  /\ pc[h] = "x.update"
  /\ leave' = [leave EXCEPT ![frame[h].t] = "CANCELLED"]
  /\ Return(h)
  /\ UNCHANGED <<inst, actions, usage, revert, balance, avail, jobs, worker, sheet, locked, fails>>

Cancel(h) ==
  \/ \E t \in Target : CancelRead(h, t)
  \/ CancelInstance(h)
  \/ CancelRevert(h)
  \/ CancelRecalc(h)
  \/ CancelUpdate(h)

-----------------------------------------------------------------------------
(* onApprovalDecided, run by the handler that announced the decision. *)

\* Mutant: the listener takes every decision for an approval.
ListenRead_AlwaysApproves(h) ==
  /\ pc[h] = "emit"
  /\ IF leave[frame[h].t] = "PENDING"
     THEN Goto(h, "l.approve") /\ UNCHANGED frame
     ELSE Return(h)
  /\ UNCHANGED <<inst, actions, leaveVars>>

ListenRead(h) ==
  /\ pc[h] = "emit"
  /\ IF leave[frame[h].t] = "PENDING"
     THEN /\ Goto(h, IF frame[h].outcome = "REJECTED" THEN "l.reject" ELSE "l.approve")
          /\ UNCHANGED frame
     ELSE Return(h)
  /\ UNCHANGED <<inst, actions, leaveVars>>

ListenReject(h) ==
  /\ pc[h] = "l.reject"
  /\ leave' = [leave EXCEPT ![frame[h].t] = "REJECTED"]
  /\ Return(h)
  /\ UNCHANGED <<inst, actions, usage, revert, balance, avail, jobs, worker, sheet, locked, fails>>

\* Mutant: an approval queues no recalculation.
ListenApprove_NoRecalc(h) ==
  LET t == frame[h].t
  IN /\ pc[h] = "l.approve"
     /\ leave' = [leave EXCEPT ![t] = "APPROVED"]
     /\ usage' = IF t \in Paid THEN [usage EXCEPT ![t] = @ + 1] ELSE usage
     /\ balance' = IF t \in Paid THEN balance - Cost[t] ELSE balance
     /\ Return(h)
     /\ UNCHANGED <<inst, actions, revert, avail, jobs, worker, sheet, locked, fails>>

\* One transaction: the status and, for a paid type, the USAGE entry.
ListenApprove(h) ==
  LET t == frame[h].t
  IN /\ pc[h] = "l.approve"
     /\ leave' = [leave EXCEPT ![t] = "APPROVED"]
     /\ usage' = IF t \in Paid THEN [usage EXCEPT ![t] = @ + 1] ELSE usage
     /\ balance' = IF t \in Paid THEN balance - Cost[t] ELSE balance
     /\ Goto(h, "l.recalc")
     /\ UNCHANGED <<inst, actions, frame, revert, avail, jobs, worker, sheet, locked, fails>>

ListenRecalc(h) ==
  /\ pc[h] = "l.recalc"
  /\ RecalcRange(frame[h].t)
  /\ Return(h)
  /\ UNCHANGED <<inst, actions, leave, usage, revert, balance, avail, worker, sheet, locked, fails>>

Listen(h) == ListenRead(h) \/ ListenReject(h) \/ ListenApprove(h) \/ ListenRecalc(h)

-----------------------------------------------------------------------------
(* The timesheet-recalc worker: it leaves a day that is locked, or reads the *)
(* leaves of the day, then writes the day.  A job that fails is tried again. *)

OnLeave(d) == \E t \in Target : leave[t] = "APPROVED" /\ d \in DaysOf[t]

WorkerRead(d) ==
  /\ ~ worker.busy
  /\ d \in jobs
  /\ jobs' = jobs \ {d}
  /\ worker' = IF locked[d] THEN worker ELSE [busy |-> TRUE, day |-> d, onLeave |-> OnLeave(d)]
  /\ UNCHANGED <<engineVars, leave, usage, revert, balance, avail, sheet, locked, fails>>

WorkerWrite ==
  /\ worker.busy
  /\ sheet' = [sheet EXCEPT ![worker.day] = worker.onLeave]
  /\ worker' = NoJob
  /\ UNCHANGED <<engineVars, leave, usage, revert, balance, avail, jobs, locked, fails>>

WorkerFail ==
  /\ worker.busy
  /\ fails < MaxFail
  /\ jobs' = jobs \cup {worker.day}
  /\ worker' = NoJob
  /\ fails' = fails + 1
  /\ UNCHANGED <<engineVars, leave, usage, revert, balance, avail, sheet, locked>>

\* HR edits a day by hand, or overtime or other hours are approved for it: it is locked,
\* as worked, as it was, or as its leaves say.  The calls this takes, and the reset that takes
\* the lock off, are in module Timesheet.
LockDay(d) ==
  /\ d \in Lockable
  /\ locked' = [locked EXCEPT ![d] = TRUE]
  /\ \E shown \in {FALSE, sheet[d], OnLeave(d)} : sheet' = [sheet EXCEPT ![d] = shown]
  /\ UNCHANGED <<engineVars, leave, usage, revert, balance, avail, jobs, worker, fails>>

Fail(h) ==
  /\ pc[h] # "idle"
  /\ fails < MaxFail
  /\ fails' = fails + 1
  /\ Return(h)
  /\ avail' = [avail EXCEPT ![h] = 0]
  /\ UNCHANGED <<inst, actions, leave, usage, revert, balance, jobs, worker, sheet, locked>>

-----------------------------------------------------------------------------
DecideStep(h) == Decide(h) /\ UNCHANGED leaveVars

Next ==
  \/ \E h \in Handler : Create(h) \/ Cancel(h) \/ DecideStep(h) \/ Listen(h) \/ Fail(h)
  \/ \E d \in Day : WorkerRead(d) \/ LockDay(d)
  \/ WorkerWrite
  \/ WorkerFail

\* The server goes on with what it has begun, and the queue is served in turn;
\* users owe it nothing.
Continue(h) ==
  /\ pc[h] # "idle"
  /\ Create(h) \/ Cancel(h) \/ DecideStep(h) \/ Listen(h)

Fairness ==
  /\ \A h \in Handler : WF_vars(Continue(h))
  /\ \A d \in Day : SF_vars(WorkerRead(d))
  /\ WF_vars(WorkerWrite)

Spec == Init /\ [][Next]_vars /\ Fairness

-----------------------------------------------------------------------------
(* What holds however the handlers interleave. *)

\* No leave takes effect, and no day is deducted, without an APPROVE in the audit
\* trail for every step that has an approver (decide, onApprovalDecided).
ChainComplete ==
  \A t \in Target : leave[t] = "APPROVED" \/ usage[t] > 0 =>
    inst[t].status # "none" /\ FullySigned(t)

\* Nobody decides out of turn: a decision on a step comes after the APPROVE of
\* every earlier step, and a skipped step is never decided (decide).
InOrder ==
  \A a \in actions : a.step \in Active(a.inst) /\ SignedBefore(a.inst, a.step)

\* Who decides is an approver of that very step or decides in an approver's
\* place; the requester never decides on his own request as its approver.
Entitled ==
  \A a \in actions :
    /\ a.actor \in inst[a.inst].approvers[a.step] \cup Overrider
    /\ a.actor = Requester => Requester \in Overrider

\* What the row shows of a step, and its final status, is backed by the audit
\* trail, even when a stale update overwrites a newer one.
AuditBacked ==
  \A i \in Instance :
    /\ \A k \in Step : inst[i].decided[k] # "none" =>
         \E a \in actions : a.inst = i /\ a.step = k /\ a.decision = inst[i].decided[k]
    /\ inst[i].status = "REJECTED" =>
         \E a \in actions : a.inst = i /\ a.decision = "REJECT"
    /\ leave[i] = "REJECTED" =>
         \E a \in actions : a.inst = i /\ a.decision = "REJECT"

\* The requests as the engine promises to treat them.
Promise == INSTANCE SignOff WITH
  state    <- leave,
  routed   <- [t \in Target |-> inst[t].status # "none"],
  required <- [t \in Target |-> Active(t)],
  signed   <- [t \in Target |-> {k \in Step : Signed(t, k)}],
  vetoed   <- [t \in Target |-> \E a \in actions : a.inst = t /\ a.decision = "REJECT"]

\* Whatever the handlers do, it is a step the engine promised.
KeepsPromise == Promise!Spec

\* A decision reaches the request: the listener runs in the handler that decided.
DecisionTakesEffect ==
  \A t \in Target : inst[t].status \in {"APPROVED", "REJECTED"} ~> leave[t] # "PENDING"

\* An approved leave is shown on the timesheet of each of its days, but of those that
\* HR has locked (onApprovalDecided, recalcRange, recalc).
LeaveShown ==
  \A t \in Target : \A d \in DaysOf[t] :
    leave[t] = "APPROVED" ~> sheet[d] \/ locked[d] \/ leave[t] # "APPROVED"

-----------------------------------------------------------------------------
(* What holds when the handlers of one employee's requests do not overlap.  *)

Quiet == \A h \in Handler : pc[h] = "idle"

\* A closed instance and a closed request stay as they are (the 409 of decide
\* and the LEAVE_NOT_PENDING of cancelRequest).
ClosedStaysClosed ==
  [][/\ \A i \in Instance : inst[i].status \in Status \ {"PENDING"} => inst'[i] = inst[i]
     /\ \A t \in Target : leave[t] \in {"REJECTED", "CANCELLED"} => leave'[t] = leave[t]]_vars

\* Between handlers, the ledger of a paid request is what its status says: one
\* USAGE while it is approved, and nothing, or a USAGE and its REVERT, otherwise.
LedgerMatchesStatus ==
  Quiet /\ fails = 0 => \A t \in Paid :
    /\ usage[t] <= 1
    /\ usage[t] = revert[t] + (IF leave[t] = "APPROVED" THEN 1 ELSE 0)

\* Without allowNegativeBalance the open requests never exceed the balance.
BalanceCovered == ~ AllowNegative => PendingCost <= balance

\* Two requests in force never share a day (LEAVE_OVERLAP).
NoOverlap ==
  \A t, u \in Target :
    t # u /\ {leave[t], leave[u]} \subseteq {"PENDING", "APPROVED"} => DaysOf[t] \cap DaysOf[u] = {}

-----------------------------------------------------------------------------
(* What the documents say and the code does not keep. *)

\* PROMPT-HRM.md:87, a leave that changes status is recalculated: once all work is
\* done, a day HR has not locked is ON_LEAVE exactly when an approved leave covers it.
SheetFollowsLeave ==
  Quiet /\ jobs = {} /\ ~ worker.busy =>
    \A d \in Day : ~ locked[d] => (sheet[d] <=> OnLeave(d))

\* leave.e2e-spec.ts:296, a rejected request is not deducted.
RejectedNotDeducted ==
  \A t \in Target : leave[t] = "REJECTED" => usage[t] = revert[t]
=============================================================================
