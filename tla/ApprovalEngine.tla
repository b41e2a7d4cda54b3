--------------------------- MODULE ApprovalEngine ---------------------------
(***************************************************************************)
(* The approval engine: ApprovalService in                                 *)
(* apps/api/src/modules/approval/approval.service.ts.                      *)
(*                                                                         *)
(* An approval instance routes one request (its target) through a chain of *)
(* steps.  createInstance resolves every step of the selected flow to a    *)
(* set of approvers and stores the snapshot in the row; decide records one *)
(* APPROVE or REJECT and moves the row on; cancelByTarget closes it.       *)
(*                                                                         *)
(* Every Prisma call is one atomic step and a handler may be overtaken at  *)
(* each await.  decide therefore takes three steps: it READS the row,      *)
(* INSERTS an ApprovalAction, and then UPDATES the row, by id and with no  *)
(* condition on its status, from what it read at first.  The locals a      *)
(* handler carries over its awaits are its frame.                          *)
(*                                                                         *)
(* The listeners of APPROVAL_DECIDED belong to the services that own the   *)
(* targets: a handler whose program counter is "emit" has decided and is   *)
(* about to run the listener of its target, which a module extending this  *)
(* one describes.                                                          *)
(***************************************************************************)
EXTENDS Naturals

CONSTANTS
  Instance,    \* ids of approval instances
  Target,      \* ids of requests that are sent for approval
  User,        \* users
  Overrider,   \* users whose permission lets them decide in the approver's place
  Requester,   \* the user whose requests these are
  Resolution,  \* what the resolver may answer for one step: sets of users
  NumSteps,    \* steps of a flow
  Handler      \* request handlers that may be running at once

ASSUME ApprovalAssumption ==
  /\ NumSteps \in Nat \ {0}
  /\ Overrider \subseteq User
  /\ Requester \in User
  /\ Instance # {} /\ Target # {}
  /\ Resolution \subseteq SUBSET User

VARIABLES
  inst,     \* rows of ApprovalInstance
  actions,  \* rows of ApprovalAction (the audit trail of decisions)
  pc,       \* where each handler is
  frame     \* the locals of each handler

engineVars == <<inst, actions, pc, frame>>

Step     == 1 .. NumSteps
Decision == {"APPROVE", "REJECT"}
Status   == {"PENDING", "APPROVED", "REJECTED", "CANCELLED"}

\* status "none": the row does not exist yet.
Row == [status    : Status \cup {"none"},
        target    : Target,
        current   : 0 .. NumSteps,
        approvers : [Step -> SUBSET User],
        decided   : [Step -> Decision \cup {"none"}]]

ActionRow == [inst : Instance, step : Step, actor : User, decision : Decision]

\* Locals: the instance and target at hand, who decides what, the step and the
\* decisions as read, the outcome to announce.
Frame == [i       : Instance,
          t       : Target,
          actor   : User,
          dec     : Decision,
          cur     : Step,
          snap    : [Step -> Decision \cup {"none"}],
          outcome : {"APPROVED", "REJECTED"}]

EnginePc == {"idle", "act", "update", "emit"}

-----------------------------------------------------------------------------
(* The chain of an instance. *)

\* Steps that are not skipped: those with at least one approver.
Active(i) == {k \in Step : inst[i].approvers[k] # {}}

\* n is the first active step after k.
IsNext(A, k, n) == n \in A /\ k < n /\ \A j \in A : k < j => n <= j

\* Step k of instance i has an APPROVE in the audit trail.
Signed(i, k) == \E a \in actions : a.inst = i /\ a.step = k /\ a.decision = "APPROVE"

FullySigned(i)     == \A k \in Active(i) : Signed(i, k)
SignedBefore(i, k) == \A j \in Active(i) : j < k => Signed(i, j)

\* Partial unique index ApprovalInstance_pending_target_key: no other row of
\* this target is PENDING.
PendingKeyFree(i, t) ==
  \A j \in Instance \ {i} : ~ (inst[j].status = "PENDING" /\ inst[j].target = t)

-----------------------------------------------------------------------------
NoRow == [status |-> "none", target |-> CHOOSE t \in Target : TRUE, current |-> 0,
          approvers |-> [k \in Step |-> {}], decided |-> [k \in Step |-> "none"]]

NoFrame == [i |-> CHOOSE i \in Instance : TRUE, t |-> CHOOSE t \in Target : TRUE,
            actor |-> Requester, dec |-> "APPROVE", cur |-> 1,
            snap |-> [k \in Step |-> "none"], outcome |-> "APPROVED"]

EngineInit ==
  /\ inst = [i \in Instance |-> NoRow]
  /\ actions = {}
  /\ pc = [h \in Handler |-> "idle"]
  /\ frame = [h \in Handler |-> NoFrame]

Goto(h, label) == pc' = [pc EXCEPT ![h] = label]

\* The handler ends: normally, or by an exception that nothing rolls back.
Return(h) == Goto(h, "idle") /\ frame' = [frame EXCEPT ![h] = NoFrame]

Announce(h, i, t, outcome) ==
  /\ frame' = [frame EXCEPT ![h] = [@ EXCEPT !.i = i, !.t = t, !.outcome = outcome]]
  /\ Goto(h, "emit")

\* Mutant: the requester stays among the approvers.
Approvers_KeepsRequester(resolved) == resolved

\* createInstance: the requester is taken out of every resolved step and a step
\* left empty is skipped; an instance still PENDING for the target refuses the
\* call.  The row starts PENDING at its first active step, or, with no active
\* step, APPROVED at once.
Approvers(resolved) == [k \in Step |-> resolved[k] \ {Requester}]

NewRow(t, resolved, status, current) ==
  [NoRow EXCEPT !.status = status, !.target = t, !.current = current,
                !.approvers = Approvers(resolved)]

CreatePending(i, t, resolved) ==
  /\ inst[i].status = "none"
  /\ PendingKeyFree(i, t)
  /\ \E first \in Step :
       /\ IsNext({k \in Step : Approvers(resolved)[k] # {}}, 0, first)
       /\ inst' = [inst EXCEPT ![i] = NewRow(t, resolved, "PENDING", first)]

CreateApproved(i, t, resolved) ==
  /\ inst[i].status = "none"
  /\ PendingKeyFree(i, t)
  /\ \A k \in Step : Approvers(resolved)[k] = {}
  /\ inst' = [inst EXCEPT ![i] = NewRow(t, resolved, "APPROVED", 0)]

\* Mutant: the step is found by its approver, not by currentStep.
DecideRead_ByApprover(h, i, u, d) ==
  /\ pc[h] = "idle"
  /\ inst[i].status = "PENDING"
  /\ \E k \in Active(i) :
       /\ u \in inst[i].approvers[k]
       /\ frame' = [frame EXCEPT ![h] =
                      [@ EXCEPT !.i = i, !.t = inst[i].target, !.actor = u, !.dec = d,
                                !.cur = k, !.snap = [inst[i].decided EXCEPT ![k] = d]]]
  /\ Goto(h, "act")
  /\ UNCHANGED <<inst, actions>>

\* decide, up to the first write: the row must be PENDING at a step of the
\* snapshot, the actor one of its approvers or an overrider.
DecideRead(h, i, u, d) ==
  LET k == inst[i].current
  IN /\ pc[h] = "idle"
     /\ inst[i].status = "PENDING"
     /\ k \in Step
     /\ u \in inst[i].approvers[k] \cup Overrider
     /\ frame' = [frame EXCEPT ![h] =
                    [@ EXCEPT !.i = i, !.t = inst[i].target, !.actor = u, !.dec = d,
                              !.cur = k, !.snap = [inst[i].decided EXCEPT ![k] = d]]]
     /\ Goto(h, "act")
     /\ UNCHANGED <<inst, actions>>

\* Mutant: only approvals reach the audit trail.
DecideAct_ApprovalsOnly(h) ==
  /\ pc[h] = "act"
  /\ actions' = IF frame[h].dec = "REJECT" THEN actions
                ELSE actions \cup {[inst |-> frame[h].i, step |-> frame[h].cur,
                                    actor |-> frame[h].actor, decision |-> "APPROVE"]}
  /\ Goto(h, "update")
  /\ UNCHANGED <<inst, frame>>

DecideAct(h) ==
  /\ pc[h] = "act"
  /\ actions' = actions \cup {[inst |-> frame[h].i, step |-> frame[h].cur,
                               actor |-> frame[h].actor, decision |-> frame[h].dec]}
  /\ Goto(h, "update")
  /\ UNCHANGED <<inst, frame>>

\* The update of decide: status, step and decisions all come from the frame.
WriteRow(i, status, current, decided) ==
  inst' = [inst EXCEPT ![i] = [@ EXCEPT !.status = status, !.current = current,
                                        !.decided = decided]]

\* Mutant: a rejection is not announced.
DecideReject_Silent(h) ==
  /\ pc[h] = "update"
  /\ frame[h].dec = "REJECT"
  /\ WriteRow(frame[h].i, "REJECTED", frame[h].cur, frame[h].snap)
  /\ Return(h)
  /\ UNCHANGED actions

DecideReject(h) ==
  /\ pc[h] = "update"
  /\ frame[h].dec = "REJECT"
  /\ WriteRow(frame[h].i, "REJECTED", frame[h].cur, frame[h].snap)
  /\ Announce(h, frame[h].i, frame[h].t, "REJECTED")
  /\ UNCHANGED actions

\* Mutant: any approval is final.
DecideApprove_AnyStep(h) ==
  /\ pc[h] = "update"
  /\ frame[h].dec = "APPROVE"
  /\ WriteRow(frame[h].i, "APPROVED", frame[h].cur, frame[h].snap)
  /\ Announce(h, frame[h].i, frame[h].t, "APPROVED")
  /\ UNCHANGED actions

DecideApprove(h) ==
  /\ pc[h] = "update"
  /\ frame[h].dec = "APPROVE"
  /\ \A n \in Active(frame[h].i) : n <= frame[h].cur
  /\ WriteRow(frame[h].i, "APPROVED", frame[h].cur, frame[h].snap)
  /\ Announce(h, frame[h].i, frame[h].t, "APPROVED")
  /\ UNCHANGED actions

\* Not the last step: the row is written back as PENDING at the next step.
\* The unique index refuses that when another row of the target is PENDING.
DecideForward(h) ==
  LET i == frame[h].i
  IN /\ pc[h] = "update"
     /\ frame[h].dec = "APPROVE"
     /\ \E n \in Step :
          /\ IsNext(Active(i), frame[h].cur, n)
          /\ IF PendingKeyFree(i, inst[i].target)
             THEN WriteRow(i, "PENDING", n, frame[h].snap)
             ELSE UNCHANGED inst
     /\ Return(h)
     /\ UNCHANGED actions

Decide(h) ==
  \/ \E i \in Instance, u \in User, d \in Decision : DecideRead(h, i, u, d)
  \/ DecideAct(h)
  \/ DecideReject(h)
  \/ DecideApprove(h)
  \/ DecideForward(h)

\* Mutant: the update is not restricted to PENDING rows.
CancelByTarget_AnyStatus(t) ==
  inst' = [i \in Instance |-> IF inst[i].target = t /\ inst[i].status # "none"
                              THEN [inst[i] EXCEPT !.status = "CANCELLED"]
                              ELSE inst[i]]

\* cancelByTarget closes what is still PENDING, in one conditional updateMany.
CancelByTarget(t) ==
  inst' = [i \in Instance |->
             IF inst[i].target = t /\ inst[i].status = "PENDING"
             THEN [inst[i] EXCEPT !.status = "CANCELLED"]
             ELSE inst[i]]
=============================================================================
