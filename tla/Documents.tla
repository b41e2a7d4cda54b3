----------------------------- MODULE Documents ------------------------------
(***************************************************************************)
(* Offers, manpower requests and the requisitions opened from them,        *)
(* enrolments in one training class, performance reviews and 360 degree    *)
(* rounds: OffersService, ManpowerRequestsService, JobRequisitionsService, *)
(* TrainingEnrollmentsService, PerformanceReviewsService and               *)
(* Feedback360Service (apps/api/src/modules).                              *)
(*                                                                         *)
(* Every handler reads, awaits and writes by id.  What a target is stays   *)
(* as it was at the start, so a run explores one mix of documents at a     *)
(* time.  An enrolment target is the one row the unique index              *)
(* (sessionId, employeeId) allows for an employee.                         *)
(***************************************************************************)
EXTENDS DocumentFlow, FiniteSets

CONSTANTS
  Mix,      \* which kinds of documents there may be
  Capacity  \* of the training class

ASSUME DocumentsAssumption ==
  /\ Mix \subseteq [Target -> Kind]
  /\ Capacity \in Nat
  /\ IsFiniteSet(Target) /\ IsFiniteSet(Handler)

VARIABLES
  hires,   \* employees created from each offer
  opened,  \* has a requisition been opened from this manpower request?
  raced,   \* history: requests about it overlapped, or one of them failed
  revived  \* history: HR gave it a seat by writing its status

flowVars == <<kind, doc, terms, ctx, local, free, fails>>
vars == <<inst, actions, pc, frame, kind, doc, terms, ctx, local, free, fails,
          hires, opened, raced, revived>>

\* e: edit, c: cancel or decline, a: accept, q: requisition, g: register,
\* h: HR enrols, v: review, f: 360 feedback.
DocPc == {"e.update", "c.cancel", "c.update", "a.hire", "a.update", "q.insert",
          "g.insert", "h.insert", "v.self", "v.score", "f.rate", "f.close"}

TypeOK ==
  /\ inst \in [Instance -> Row]
  /\ actions \subseteq ActionRow
  /\ pc \in [Handler -> EnginePc \cup FlowPc \cup DocPc]
  /\ frame \in [Handler -> Frame]
  /\ kind \in [Target -> Kind]
  /\ doc \in [Target -> DocStatus]
  /\ \A t \in Target : Exists(t) => doc[t] \in Statuses[kind[t]]
  /\ terms \in [Target -> Terms] /\ ctx \in [Instance -> Terms]
  /\ local \in [Handler -> Local]
  /\ free \in [Target -> BOOLEAN]
  /\ fails \in Nat
  /\ hires \in [Target -> Nat]
  /\ opened \in [Target -> BOOLEAN]
  /\ raced \in [Target -> BOOLEAN]
  /\ revived \in [Target -> BOOLEAN]

Init ==
  /\ FlowInit
  /\ kind \in Mix
  /\ hires = [t \in Target |-> 0]
  /\ opened = [t \in Target |-> FALSE]
  /\ raced = [t \in Target |-> FALSE]
  /\ revived = [t \in Target |-> FALSE]

\* A row is inserted and nothing else happens.
Insert(t, k, s, v) ==
  /\ kind[t] = k
  /\ doc[t] = "none"
  /\ doc' = [doc EXCEPT ![t] = s]
  /\ terms' = [terms EXCEPT ![t] = v]
  /\ UNCHANGED <<inst, actions, kind, ctx, free, fails, hires, opened>>

Quiet == UNCHANGED <<inst, actions, kind, doc, terms, ctx, free, fails, hires, opened>>

-----------------------------------------------------------------------------
(* Offers. *)
CreateOffer(t) == Insert(t, "offer", "DRAFT", 1) /\ UNCHANGED <<pc, frame, local>>

\* Mutant: an offer that has been sent can be edited.
EditRead_Sent(h, t) ==
  /\ terms[t] < MaxTerms
  /\ Begin(h, t, "offer", {"DRAFT", "SENT"}, "e.update")
  /\ Quiet /\ UNCHANGED local

EditRead(h, t) ==
  /\ terms[t] < MaxTerms
  /\ Begin(h, t, "offer", {"DRAFT"}, "e.update")
  /\ Quiet /\ UNCHANGED local

EditUpdate(h) ==
  LET t == frame[h].t
  IN /\ pc[h] = "e.update"
     /\ terms' = [terms EXCEPT ![t] = IF @ < MaxTerms THEN @ + 1 ELSE @]
     /\ End(h)
     /\ UNCHANGED <<inst, actions, kind, doc, ctx, free, fails, hires, opened>>

SubmitOffer(h, t) ==
  /\ Begin(h, t, "offer", {"DRAFT"}, "route")
  /\ local' = [local EXCEPT ![h].terms = terms[t]]
  /\ Quiet

DeclineRead(h, t) ==
  /\ Begin(h, t, "offer", {"DRAFT", "PENDING_APPROVAL", "SENT"},
           IF doc[t] = "PENDING_APPROVAL" THEN "c.cancel" ELSE "c.update")
  /\ Quiet /\ UNCHANGED local

\* Mutant: accepting does not ask whether the offer was accepted before.
AcceptRead_Again(h, t) ==
  /\ Begin(h, t, "offer", {"SENT", "ACCEPTED"}, "a.hire")
  /\ Quiet /\ UNCHANGED local

AcceptRead(h, t) ==
  /\ Begin(h, t, "offer", {"SENT"}, "a.hire")
  /\ Quiet /\ UNCHANGED local

\* employees.create: the employee and the account.  It refuses a code that is
\* taken.
AcceptHire(h) ==
  /\ pc[h] = "a.hire"
  /\ hires' = [hires EXCEPT ![frame[h].t] = @ + 1]
  /\ Continue(h, "a.update")
  /\ UNCHANGED <<inst, actions, kind, doc, terms, ctx, free, fails, opened>>

AcceptRefused(h) == pc[h] = "a.hire" /\ End(h) /\ Quiet

AcceptUpdate(h) ==
  /\ pc[h] = "a.update"
  /\ SetDoc(frame[h].t, "ACCEPTED")
  /\ End(h)
  /\ UNCHANGED <<inst, actions, kind, terms, ctx, free, fails, hires, opened>>

\* decline and cancel, for an offer, a manpower request or an enrolment.
CancelApproval(h) ==
  /\ pc[h] = "c.cancel"
  /\ CancelByTarget(frame[h].t)
  /\ Continue(h, "c.update")
  /\ UNCHANGED <<actions, kind, doc, terms, ctx, free, fails, hires, opened>>

CancelUpdate(h) ==
  LET t == frame[h].t
  IN /\ pc[h] = "c.update"
     /\ SetDoc(t, IF kind[t] = "offer" THEN "DECLINED" ELSE "CANCELLED")
     /\ End(h)
     /\ UNCHANGED <<inst, actions, kind, terms, ctx, free, fails, hires, opened>>

-----------------------------------------------------------------------------
(* Manpower requests and requisitions. *)
CreateManpower(h, t) ==
  /\ Insert(t, "manpower", "PENDING", 0)
  /\ pc[h] = "idle"
  /\ frame' = [frame EXCEPT ![h].t = t]
  /\ Goto(h, "route")
  /\ UNCHANGED local

\* Mutant: the approval is left open.
CancelManpower_Open(h, t) ==
  /\ Begin(h, t, "manpower", {"PENDING"}, "c.update")
  /\ Quiet /\ UNCHANGED local

CancelManpower(h, t) ==
  /\ Begin(h, t, "manpower", {"PENDING"}, "c.cancel")
  /\ Quiet /\ UNCHANGED local

RequisitionRead(h, t) ==
  /\ Begin(h, t, "manpower", {"APPROVED"}, "q.insert")
  /\ Quiet /\ UNCHANGED local

RequisitionInsert(h) ==
  /\ pc[h] = "q.insert"
  /\ opened' = [opened EXCEPT ![frame[h].t] = TRUE]
  /\ End(h)
  /\ UNCHANGED <<inst, actions, kind, doc, terms, ctx, free, fails, hires>>

-----------------------------------------------------------------------------
(* Enrolments. *)
Seated(t) == kind[t] = "enrolment" /\ doc[t] \in {"REGISTERED", "CONFIRMED", "COMPLETED"}
Seats     == {t \in Target : Seated(t)}

\* Mutant: HR enrols without a look at the capacity.
EnrolRead_Full(h, t, label) ==
  /\ label = "h.insert" \/ Cardinality(Seats) < Capacity
  /\ Begin(h, t, "enrolment", {"none", "CANCELLED"}, label)
  /\ Quiet /\ UNCHANGED local

\* register and createByHr: the class has a free seat and the employee has none.
EnrolRead(h, t, label) ==
  /\ Cardinality(Seats) < Capacity
  /\ Begin(h, t, "enrolment", {"none", "CANCELLED"}, label)
  /\ Quiet /\ UNCHANGED local

\* The unique index refuses a second row, be the first one cancelled.
Register(h) ==
  LET t == frame[h].t
  IN /\ pc[h] = "g.insert"
     /\ IF doc[t] = "none"
        THEN Insert(t, "enrolment", "REGISTERED", 0) /\ Continue(h, "route")
        ELSE End(h) /\ Quiet

EnrolByHr(h) ==
  LET t == frame[h].t
  IN /\ pc[h] = "h.insert"
     /\ IF doc[t] = "none"
        THEN /\ doc' = [doc EXCEPT ![t] = "CONFIRMED"]
             /\ free' = [free EXCEPT ![t] = TRUE]
        ELSE UNCHANGED <<doc, free>>
     /\ End(h)
     /\ UNCHANGED <<inst, actions, kind, terms, ctx, fails, hires, opened>>

\* update: HR writes any status, whatever it was, and asks for no free seat.
UpdateByHr(t, s) ==
  /\ kind[t] = "enrolment"
  /\ Exists(t) /\ s # doc[t]
  /\ doc' = [doc EXCEPT ![t] = s]
  /\ free' = [free EXCEPT ![t] = TRUE]
  /\ UNCHANGED <<inst, actions, pc, frame, kind, terms, ctx, local, fails, hires, opened>>

CancelEnrolment(h, t) ==
  /\ Begin(h, t, "enrolment", {"REGISTERED", "CONFIRMED", "CANCELLED"},
           IF doc[t] = "REGISTERED" THEN "c.cancel" ELSE "c.update")
  /\ Quiet /\ UNCHANGED local

-----------------------------------------------------------------------------
(* Performance reviews. *)
CreateReview(t) == Insert(t, "review", "SELF", 0) /\ UNCHANGED <<pc, frame, local>>

SelfRead(h, t) ==
  /\ Begin(h, t, "review", {"SELF"}, "v.self")
  /\ Quiet /\ UNCHANGED local

SelfUpdate(h) ==
  /\ pc[h] = "v.self"
  /\ SetDoc(frame[h].t, "MANAGER")
  /\ End(h)
  /\ UNCHANGED <<inst, actions, kind, terms, ctx, free, fails, hires, opened>>

ManagerRead(h, t, score) ==
  /\ Begin(h, t, "review", {"MANAGER"}, "v.score")
  /\ local' = [local EXCEPT ![h].terms = score]
  /\ Quiet

\* The scores are saved before the sign-off is asked for.
ManagerScore(h) ==
  /\ pc[h] = "v.score"
  /\ terms' = [terms EXCEPT ![frame[h].t] = local[h].terms]
  /\ Continue(h, "route")
  /\ UNCHANGED <<inst, actions, kind, doc, ctx, free, fails, hires, opened>>

-----------------------------------------------------------------------------
(* 360 degree rounds: terms is the rating of one rater. *)
CreateRound(t) == Insert(t, "round", "COLLECTING", 0) /\ UNCHANGED <<pc, frame, local>>

\* Mutant: ratings are taken in any state of the round.
RateRead_Closed(h, t, score) ==
  /\ Begin(h, t, "round", {"COLLECTING", "CLOSED"}, "f.rate")
  /\ local' = [local EXCEPT ![h].terms = score]
  /\ Quiet

RateRead(h, t, score) ==
  /\ Begin(h, t, "round", {"COLLECTING"}, "f.rate")
  /\ local' = [local EXCEPT ![h].terms = score]
  /\ Quiet

RateUpdate(h) ==
  /\ pc[h] = "f.rate"
  /\ terms' = [terms EXCEPT ![frame[h].t] = local[h].terms]
  /\ End(h)
  /\ UNCHANGED <<inst, actions, kind, doc, ctx, free, fails, hires, opened>>

CloseRead(h, t) ==
  /\ Begin(h, t, "round", {"COLLECTING", "CLOSED"}, "f.close")
  /\ Quiet /\ UNCHANGED local

CloseUpdate(h) ==
  /\ pc[h] = "f.close"
  /\ SetDoc(frame[h].t, "CLOSED")
  /\ End(h)
  /\ UNCHANGED <<inst, actions, kind, terms, ctx, free, fails, hires, opened>>

-----------------------------------------------------------------------------
Start(h, t) ==
  \/ EditRead(h, t) \/ SubmitOffer(h, t) \/ DeclineRead(h, t) \/ AcceptRead(h, t)
  \/ CreateManpower(h, t) \/ CancelManpower(h, t) \/ RequisitionRead(h, t)
  \/ EnrolRead(h, t, "g.insert") \/ EnrolRead(h, t, "h.insert") \/ CancelEnrolment(h, t)
  \/ SelfRead(h, t)
  \/ CloseRead(h, t)
  \/ \E v \in Terms \ {0} : ManagerRead(h, t, v) \/ RateRead(h, t, v)

Resume(h) ==
  \/ EditUpdate(h) \/ AcceptHire(h) \/ AcceptRefused(h) \/ AcceptUpdate(h)
  \/ CancelApproval(h) \/ CancelUpdate(h)
  \/ RequisitionInsert(h)
  \/ Register(h) \/ EnrolByHr(h)
  \/ SelfUpdate(h) \/ ManagerScore(h)
  \/ RateUpdate(h) \/ CloseUpdate(h)
  \/ FlowStep(h) /\ UNCHANGED <<hires, opened>>

AtOnce ==
  \E t \in Target :
    \/ CreateOffer(t) \/ CreateReview(t) \/ CreateRound(t)
    \/ \E s \in {"REGISTERED", "CONFIRMED", "COMPLETED", "CANCELLED"} : UpdateByHr(t, s)

\* A handler ends between two writes.
Fail(h) ==
  /\ pc[h] # "idle"
  /\ fails < MaxFail
  /\ fails' = fails + 1
  /\ End(h)
  /\ UNCHANGED <<inst, actions, kind, doc, terms, ctx, free, hires, opened>>

\* Two handlers are at work on t, or a failure has just cut one of them short.
Shared(t) == \E g, h \in Handler : g # h /\ pc[g] # "idle" /\ pc[h] # "idle"
                                   /\ frame[g].t = t /\ frame[h].t = t
CutShort(t) == fails' # fails /\ \E h \in Handler : pc[h] # "idle" /\ frame[h].t = t

Next ==
  /\ \/ AtOnce /\ revived' = [t \in Target |-> revived[t] \/ (Seated(t)' /\ ~ Seated(t))]
     \/ /\ \E h \in Handler : (\E t \in Target : Start(h, t)) \/ Resume(h) \/ Fail(h)
        /\ UNCHANGED revived
  /\ raced' = [t \in Target |-> raced[t] \/ Shared(t)' \/ CutShort(t)]

Spec == Init /\ [][Next]_vars

-----------------------------------------------------------------------------
Calm(t) == ~ raced[t] /\ \A h \in Handler : pc[h] = "idle" \/ frame[h].t # t
Of(t)   == {i \in Instance : inst[i].status # "none" /\ inst[i].target = t}

\* Whatever requests overlap or fail, no offer is sent or accepted, no manpower
\* request approved or requisition opened from it, no enrolment confirmed and no
\* review done unless every step of an approval of it has signed, or no approval
\* was asked of it (the listeners, and the writes after createInstance).
EffectNeedsChain ==
  \A t \in Target :
    doc[t] \in {"SENT", "ACCEPTED", "APPROVED", "CONFIRMED", "DONE"} \/ opened[t] =>
      free[t] \/ \E i \in Of(t) : FullySigned(i)

\* Between requests, a document waits exactly while an approval of it is open,
\* if its requests came one by one, none failed, and HR did not write its status.
\* An offer whose chain needs nobody is the exception: see OfferReachesCandidate.
OpenIffWaiting ==
  \A t \in Target :
    Calm(t) /\ ~ free[t] /\ (\A i \in Of(t) : inst[i].current # 0) =>
      (doc[t] \in {"PENDING_APPROVAL", "PENDING", "REGISTERED", "CALIBRATION"}
        <=> \E i \in Of(t) : inst[i].status = "PENDING")

\* The salary of a sent offer and the score of a finished review are those an
\* approval was given for (submit, update, submitManager).
AsSigned ==
  \A t \in Target :
    Calm(t) /\ ~ free[t] /\ doc[t] \in {"SENT", "ACCEPTED", "DONE"} =>
      \E i \in Of(t) : inst[i].status = "APPROVED" /\ ctx[i] = terms[t]

\* One offer makes one employee, and it is accepted if and only if it has (accept).
HiredOnce ==
  \A t \in Target :
    Calm(t) => hires[t] = IF doc[t] = "ACCEPTED" THEN 1 ELSE 0

\* However registrations and HR's own enrolments overlap, wait for an approval or need
\* none, fail, and are cancelled and taken up again, a class is overfilled by less than
\* there are handlers, but for the seats HR gives by writing a status (assertCapacity).
SeatsBounded ==
  Capacity > 0 =>
    Cardinality({t \in Seats : ~ revived[t]}) < Capacity + Cardinality(Handler)

\* A rating does not change once its round is closed (Feedback360Service.submit).
FrozenOnceClosed ==
  [][\A t \in Target : kind[t] = "round" /\ doc[t] = "CLOSED" /\ ~ raced[t] =>
       terms'[t] = terms[t]]_vars

\* PROGRESS.md:175, OFFER: APPROVED becomes SENT.  An offer does not go on waiting
\* once its approval is given.
OfferReachesCandidate ==
  \A t \in Target :
    kind[t] = "offer" /\ doc[t] = "PENDING_APPROVAL" /\ Calm(t) =>
      \E i \in Of(t) : inst[i].status # "APPROVED"
=============================================================================
