---------------------------- MODULE DocumentFlow ----------------------------
(***************************************************************************)
(* What the services that send a document for approval have in common:     *)
(* recruitment, training and performance, over the approval engine.        *)
(*                                                                         *)
(* Each calls createInstance from a handler of its own and afterwards      *)
(* writes a status by id; each listens to APPROVAL_DECIDED, reads the      *)
(* document, and writes the outcome if the document still waits.  They     *)
(* differ in the statuses, in what they do when createInstance throws, and *)
(* in whether the write after it heeds what createInstance returned.       *)
(***************************************************************************)
EXTENDS ApprovalEngine

CONSTANTS
  MaxTerms, \* bound: versions of what an approver signs (a salary, a score)
  MaxFail   \* bound: failures in a behaviour

ASSUME FlowAssumption == MaxTerms \in Nat \ {0} /\ MaxFail \in Nat

VARIABLES
  kind,   \* what each target is
  doc,    \* its status
  terms,  \* an offer's salary, a review's final score, a rating in a 360 round
  ctx,    \* the terms each approval was asked for
  local,  \* what a handler carries besides its frame
  free,   \* history: owes no signature (no flow, or HR wrote the status)
  fails   \* failures so far

Kind  == {"offer", "manpower", "enrolment", "review", "round", "unused"}
Terms == 0 .. MaxTerms

\* The statuses of each kind that the code writes.  An enrolment HR marks ATTENDED
\* may still be cancelled, as CONFIRMED; one marked NO_SHOW gives its seat back, as
\* CANCELLED.
Statuses == [offer     |-> {"DRAFT", "PENDING_APPROVAL", "SENT", "ACCEPTED", "DECLINED"},
             manpower  |-> {"PENDING", "APPROVED", "REJECTED", "CANCELLED"},
             enrolment |-> {"REGISTERED", "CONFIRMED", "COMPLETED", "CANCELLED"},
             review    |-> {"SELF", "MANAGER", "CALIBRATION", "DONE"},
             round     |-> {"COLLECTING", "CLOSED"},
             unused    |-> {}]
DocStatus == {"none", "deleted"} \cup UNION {Statuses[k] : k \in Kind}

\* next: the status to write after createInstance; apply: the one a listener is
\* about to write; terms: a salary or score read earlier, or given.
Local   == [next : DocStatus, apply : DocStatus, terms : Terms]
NoLocal == [next |-> "none", apply |-> "none", terms |-> 0]
FlowPc  == {"route", "status", "delete", "l.update"}

FlowInit ==
  /\ EngineInit
  /\ doc = [t \in Target |-> "none"]
  /\ terms = [t \in Target |-> 0]
  /\ ctx = [i \in Instance |-> 0]
  /\ local = [h \in Handler |-> NoLocal]
  /\ free = [t \in Target |-> FALSE]
  /\ fails = 0

Exists(t) == doc[t] \notin {"none", "deleted"}

\* A handler starts on t, which it has just read in one of these states.
Begin(h, t, k, states, label) ==
  /\ pc[h] = "idle"
  /\ kind[t] = k
  /\ doc[t] \in states
  /\ frame' = [frame EXCEPT ![h].t = t]
  /\ Goto(h, label)

End(h) == Return(h) /\ local' = [local EXCEPT ![h] = NoLocal]

Continue(h, label) == Goto(h, label) /\ UNCHANGED <<frame, local>>

\* update({where: {id}}) throws when the row is gone.
SetDoc(t, s) == doc' = IF Exists(t) THEN [doc EXCEPT ![t] = s] ELSE doc

-----------------------------------------------------------------------------
(* createInstance, called from a service. *)

\* Handler h, at "route", asks for the approval of its document.  pending and
\* approved are the statuses it will write for what createInstance returns, if
\* not "none"; an instance that needs nobody is announced before it returns.
Route(h, k, pending, approved) ==
  LET t == frame[h].t
  IN /\ pc[h] = "route" /\ kind[t] = k
     /\ \E i \in Instance, resolved \in [Step -> Resolution] :
          /\ ctx' = [ctx EXCEPT ![i] = local[h].terms]
          /\ \/ /\ CreatePending(i, t, resolved)
                /\ IF pending = "none"
                   THEN End(h)
                   ELSE /\ local' = [local EXCEPT ![h].next = pending]
                        /\ Goto(h, "status") /\ UNCHANGED frame
             \/ /\ CreateApproved(i, t, resolved)
                /\ local' = [local EXCEPT ![h].next = approved]
                /\ Announce(h, i, t, "APPROVED")
     /\ UNCHANGED <<actions, kind, doc, terms, free, fails>>

\* Mutant: an enrolment is confirmed whatever the engine says.
RouteEnrolment_Confirms(h) == Route(h, "enrolment", "CONFIRMED", "CONFIRMED")

RouteOffer(h)     == Route(h, "offer", "PENDING_APPROVAL", "PENDING_APPROVAL")
RouteManpower(h)  == Route(h, "manpower", "none", "none")
RouteEnrolment(h) == Route(h, "enrolment", "REGISTERED", "CONFIRMED")
RouteReview(h)    == Route(h, "review", "CALIBRATION", "DONE")

\* The service catches what createInstance throws and deletes the document it
\* has just inserted, or lets it pass.
Thrown(h) ==
  IF kind[frame[h].t] \in {"manpower", "enrolment"} THEN Continue(h, "delete") ELSE End(h)

\* APPROVAL_NO_FLOW: training and performance go on without an approval.
RouteNoFlow(h) ==
  LET t == frame[h].t
      waive(s) == /\ local' = [local EXCEPT ![h].next = s]
                  /\ free' = [free EXCEPT ![t] = TRUE]
                  /\ Goto(h, "status") /\ UNCHANGED frame
  IN /\ pc[h] = "route"
     /\ CASE kind[t] = "enrolment" -> waive("CONFIRMED")
          [] kind[t] = "review"    -> waive("DONE")
          [] OTHER                 -> Thrown(h) /\ UNCHANGED free
     /\ UNCHANGED <<inst, actions, kind, doc, terms, ctx, fails>>

\* APPROVAL_ALREADY_PENDING.
RouteRefused(h) ==
  /\ pc[h] = "route"
  /\ {i \in Instance : inst[i].status = "PENDING" /\ inst[i].target = frame[h].t} # {}
  /\ Thrown(h)
  /\ UNCHANGED <<inst, actions, kind, doc, terms, ctx, free, fails>>

\* createInstance fails after it has inserted the row, while it notifies.
RouteBreaks(h) ==
  LET t == frame[h].t
  IN /\ pc[h] = "route"
     /\ fails < MaxFail
     /\ fails' = fails + 1
     /\ \E i \in Instance, resolved \in [Step -> Resolution] :
          CreatePending(i, t, resolved) /\ ctx' = [ctx EXCEPT ![i] = local[h].terms]
     /\ Thrown(h)
     /\ UNCHANGED <<actions, kind, doc, terms, free>>

\* The write after createInstance.
StatusUpdate(h) ==
  /\ pc[h] = "status"
  /\ SetDoc(frame[h].t, local[h].next)
  /\ End(h)
  /\ UNCHANGED <<inst, actions, kind, terms, ctx, free, fails>>

DeleteDoc(h) ==
  /\ pc[h] = "delete"
  /\ SetDoc(frame[h].t, "deleted")
  /\ End(h)
  /\ UNCHANGED <<inst, actions, kind, terms, ctx, free, fails>>

-----------------------------------------------------------------------------
(* The listeners, called from decide or from the service's own              *)
(* createInstance, to which they return.                                    *)
Listened(h) ==
  IF local[h].next = "none" THEN End(h)
  ELSE /\ local' = [local EXCEPT ![h].apply = "none"]
       /\ Goto(h, "status") /\ UNCHANGED frame

Listen(h, k, waits, granted, refused) ==
  /\ pc[h] = "emit" /\ kind[frame[h].t] = k
  /\ IF doc[frame[h].t] = waits
     THEN /\ local' = [local EXCEPT ![h].apply =
                         IF frame[h].outcome = "APPROVED" THEN granted ELSE refused]
          /\ Goto(h, "l.update") /\ UNCHANGED frame
     ELSE Listened(h)
  /\ UNCHANGED <<inst, actions, kind, doc, terms, ctx, free, fails>>

ListenOffer(h)     == Listen(h, "offer", "PENDING_APPROVAL", "SENT", "DRAFT")
ListenManpower(h)  == Listen(h, "manpower", "PENDING", "APPROVED", "REJECTED")
ListenEnrolment(h) == Listen(h, "enrolment", "REGISTERED", "CONFIRMED", "CANCELLED")
ListenReview(h)    == Listen(h, "review", "CALIBRATION", "DONE", "MANAGER")

ListenUpdate(h) ==
  /\ pc[h] = "l.update"
  /\ SetDoc(frame[h].t, local[h].apply)
  /\ Listened(h)
  /\ UNCHANGED <<inst, actions, kind, terms, ctx, free, fails>>

FlowStep(h) ==
  \/ RouteOffer(h) \/ RouteManpower(h) \/ RouteEnrolment(h) \/ RouteReview(h)
  \/ RouteNoFlow(h) \/ RouteRefused(h) \/ RouteBreaks(h)
  \/ StatusUpdate(h) \/ DeleteDoc(h)
  \/ ListenOffer(h) \/ ListenManpower(h) \/ ListenEnrolment(h) \/ ListenReview(h)
  \/ ListenUpdate(h)
  \/ Decide(h) /\ UNCHANGED <<kind, doc, terms, ctx, local, free, fails>>
=============================================================================
