-------------------------- MODULE LeaveApprovalInv --------------------------
(***************************************************************************)
(* The inductive invariant of LeaveApproval.  ChainComplete, InOrder,      *)
(* Entitled and AuditBacked say nothing of what a handler carries in its   *)
(* frame, yet decide and the listeners write rows from frames: the         *)
(* invariant says which frames can exist.                                  *)
(***************************************************************************)
EXTENDS LeaveApproval

Routed(i) == inst[i].status # "none"
Vetoed(i) == \E a \in actions : a.inst = i /\ a.decision = "REJECT"

Recorded(i, k, d) == \E a \in actions : a.inst = i /\ a.step = k /\ a.decision = d

\* A row that exists is the row of its own target, never lists the requester,
\* and is refused only if someone refused it; PENDING is at a step on turn.
RowOk(i) ==
  /\ Routed(i) => inst[i].target = i
  /\ \A k \in Step : Requester \notin inst[i].approvers[k]
  /\ \A k \in Step : inst[i].decided[k] # "none" => Recorded(i, k, inst[i].decided[k])
  /\ inst[i].status = "PENDING" => inst[i].current \in Active(i) /\ SignedBefore(i, inst[i].current)
  /\ inst[i].status = "REJECTED" => Vetoed(i)

\* Decisions are taken on existing rows, on turn, by who may.
ActionOk(a) ==
  /\ Routed(a.inst)
  /\ a.step \in Active(a.inst)
  /\ SignedBefore(a.inst, a.step)
  /\ a.actor \in inst[a.inst].approvers[a.step] \cup Overrider

\* A handler inside decide: what it read is still true of the trail, though the
\* row may have moved on.
DecideOk(h) ==
  pc[h] \in {"act", "update"} =>
    /\ Routed(frame[h].i)
    /\ frame[h].t = frame[h].i
    /\ frame[h].cur \in Active(frame[h].i)
    /\ SignedBefore(frame[h].i, frame[h].cur)
    /\ frame[h].actor \in inst[frame[h].i].approvers[frame[h].cur] \cup Overrider
    /\ frame[h].snap[frame[h].cur] = frame[h].dec
    /\ \A k \in Step \ {frame[h].cur} :
         frame[h].snap[k] # "none" => Recorded(frame[h].i, k, frame[h].snap[k])
    /\ pc[h] = "update" => Recorded(frame[h].i, frame[h].cur, frame[h].dec)

\* A handler with an outcome to deliver has the trail behind it.
ListenOk(h) ==
  /\ pc[h] \in {"emit", "l.reject", "l.approve", "l.recalc"} =>
       /\ Routed(frame[h].t)
       /\ frame[h].outcome = "APPROVED" => FullySigned(frame[h].t)
       /\ frame[h].outcome = "REJECTED" => Vetoed(frame[h].t)
  /\ pc[h] \in {"l.approve", "l.recalc"} => frame[h].outcome = "APPROVED"
  /\ pc[h] = "l.reject" => frame[h].outcome = "REJECTED"

\* createRequest inserts a row that is not there; cancelRequest and the listener
\* write one that is.
WriteOk(h) ==
  /\ pc[h] \in {"c.entries", "c.pending", "c.insert"} => leave[frame[h].t] = "none"
  /\ pc[h] \in {"x.pending", "x.approved", "x.revert", "x.recalc", "x.update",
                "l.reject", "l.approve", "l.recalc"} => leave[frame[h].t] # "none"

\* What has taken effect was signed or refused.
LeaveOk(t) ==
  /\ leave[t] = "APPROVED" \/ usage[t] > 0 => Routed(t) /\ FullySigned(t)
  /\ leave[t] = "REJECTED" => Vetoed(t)

OneCreator ==
  \A g, h \in Handler : g # h /\ Creating(g) /\ Creating(h) => frame[g].t # frame[h].t

\* The inductive invariant.
IInv ==
  /\ TypeOK
  /\ \A i \in Instance : RowOk(i)
  /\ \A a \in actions : ActionOk(a)
  /\ \A h \in Handler : DecideOk(h) /\ ListenOk(h) /\ WriteOk(h)
  /\ \A t \in Target : LeaveOk(t)
  /\ OneCreator
-----------------------------------------------------------------------------
(* One handler at a time.  Without a rival a handler finds the request and   *)
(* the row as it read them, so the reads that cancelRequest, decide and the  *)
(* listener rely on are still true when they write.                          *)

OneAtATime == \A g, h \in Handler : g = h

\* What a handler has read and is about to act upon.
ReadOk(h) ==
  /\ pc[h] \in {"c.entries", "c.pending", "c.insert"} => Overlapping(frame[h].t) = {}
  /\ pc[h] \in {"x.pending", "l.approve", "l.reject"} => leave[frame[h].t] = "PENDING"
  /\ pc[h] \in {"x.approved", "x.revert", "x.recalc"} => leave[frame[h].t] = "APPROVED"
  /\ pc[h] = "x.update" => leave[frame[h].t] \in {"PENDING", "APPROVED"}
  /\ pc[h] \in {"act", "update"} => inst[frame[h].i].status = "PENDING"

\* Between its REVERT and its last write, a cancelled request is still APPROVED.
GivenBack(t) ==
  \E h \in Handler : /\ frame[h].t = t /\ leave[t] = "APPROVED"
                     /\ pc[h] \in {"x.recalc", "x.update"}

LedgerOk(t) ==
  /\ usage[t] <= 1
  /\ leave[t] \in {"none", "PENDING"} => usage[t] = 0
  /\ usage[t] = revert[t] + (IF leave[t] = "APPROVED" /\ ~ GivenBack(t) THEN 1 ELSE 0)

\* The inductive invariant of a single handler.
SerialInv ==
  /\ NoOverlap
  /\ \A h \in Handler : ReadOk(h)
  /\ fails = 0 => \A t \in Paid : LedgerOk(t)

\* The balance as createRequest has summed it up so far.
SumOk(h) ==
  /\ pc[h] = "c.pending" => avail[h] = balance
  /\ pc[h] = "c.insert" /\ frame[h].t \in Paid => PendingCost + Cost[frame[h].t] <= balance

\* The inductive invariant of the balance.
CoveredInv == BalanceCovered /\ (~ AllowNegative => \A h \in Handler : SumOk(h))
=============================================================================
