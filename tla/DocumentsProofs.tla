--------------------------- MODULE DocumentsProofs ----------------------------
(***************************************************************************)
(* Theorems about Documents, for any number of documents, handlers and     *)
(* failures.  Four arguments carry them.                                   *)
(*                                                                         *)
(* What takes effect was signed: services write from what they read or     *)
(* were told before an await, so the invariant says that whatever a        *)
(* handler carries that takes effect is backed by the trail, which is      *)
(* never taken back (HandlerOk).                                           *)
(*                                                                         *)
(* What holds of a document whose requests came one by one: nobody writes  *)
(* it between a handler's read and its write, because another handler at   *)
(* work on it would have marked it raced (Fresh).                          *)
(*                                                                         *)
(* How full a class gets: a seat seen to be free is given out at most once *)
(* by each handler, so the enrolments that are seated or may still be are  *)
(* counted together (SeatsOk).                                             *)
(*                                                                         *)
(* What a document waits for: between the two writes of a request its      *)
(* status and its approval disagree, and the invariant says what the       *)
(* request has left to write (ToldInv).                                    *)
(***************************************************************************)
EXTENDS Documents, ApprovalEngineProofs, FiniteSetTheorems

Labels == EnginePc \cup FlowPc \cup DocPc

\* What EffectNeedsChain asks of a document in effect.
InEffect  == {"SENT", "ACCEPTED", "APPROVED", "CONFIRMED", "DONE"}
Backed(t) == free[t] \/ \E i \in Of(t) : FullySigned(i)
DocOk(t)  == doc[t] \in InEffect \/ opened[t] => Backed(t)

\* What a handler is about to write is backed, and it carries nothing while idle.
HandlerOk(h) ==
  /\ local[h].next \in InEffect => Backed(frame[h].t)
  /\ local[h].apply \in InEffect => Backed(frame[h].t)
  /\ pc[h] \in {"a.hire", "a.update", "q.insert"} => Backed(frame[h].t)
  /\ local[h].next # "none" => pc[h] \in {"emit", "l.update", "status"}
  /\ local[h].apply # "none" => pc[h] = "l.update"

\* It works on a document of the kind its label is for.
KindOk(h) ==
  /\ local[h].next # "none" => local[h].next \in Statuses[kind[frame[h].t]] \ {"ACCEPTED"}
  /\ local[h].apply # "none" => local[h].apply \in Statuses[kind[frame[h].t]] \ {"ACCEPTED"}
  /\ pc[h] = "status" => local[h].next # "none"
  /\ pc[h] = "l.update" => local[h].apply # "none"
  /\ pc[h] \in {"e.update", "a.hire", "a.update"} => kind[frame[h].t] = "offer"
  /\ pc[h] \in {"c.cancel", "c.update"} => kind[frame[h].t] \in {"offer", "manpower", "enrolment"}
  /\ pc[h] \in {"g.insert", "h.insert"} => kind[frame[h].t] = "enrolment"
  /\ pc[h] \in {"v.self", "v.score"} => kind[frame[h].t] = "review"
  /\ pc[h] \in {"f.rate", "f.close"} => kind[frame[h].t] = "round"

\* What it read is still so, unless another request about the document overlapped.
Writing == {"route", "status", "delete", "l.update", "c.cancel", "c.update",
            "v.self", "v.score", "f.close"}
Fresh(h) ==
  ~ raced[frame[h].t] =>
    /\ pc[h] \in Writing \/ local[h].next # "none" => doc[frame[h].t] # "ACCEPTED"
    /\ pc[h] \in {"a.hire", "a.update"} => doc[frame[h].t] = "SENT"
    /\ pc[h] = "f.rate" => doc[frame[h].t] = "COLLECTING"

\* One employee for an offer accepted or about to be.
Accepting(t) == \E h \in Handler : pc[h] = "a.update" /\ frame[h].t = t
HiresOk(t) ==
  ~ raced[t] => hires[t] = IF doc[t] = "ACCEPTED" \/ Accepting(t) THEN 1 ELSE 0

\* The inductive invariant.
IInv ==
  /\ TypeOK
  /\ EngineInv
  /\ \A t \in Target : DocOk(t) /\ HiresOk(t) /\ (Shared(t) => raced[t])
  /\ \A h \in Handler : HandlerOk(h) /\ KindOk(h) /\ Fresh(h)

\* Next marks the documents whose requests overlap.
Marks ==
  /\ raced' = [t \in Target |-> raced[t] \/ Shared(t)' \/ CutShort(t)]
  /\ revived' \in [Target -> BOOLEAN]

-----------------------------------------------------------------------------
(* Types. *)

\* The statuses, kind by kind (the enums of the schema).
LEMMA StatusSets ==
  /\ Statuses["offer"] = {"DRAFT", "PENDING_APPROVAL", "SENT", "ACCEPTED", "DECLINED"}
  /\ Statuses["manpower"] = {"PENDING", "APPROVED", "REJECTED", "CANCELLED"}
  /\ Statuses["enrolment"] = {"REGISTERED", "CONFIRMED", "COMPLETED", "CANCELLED"}
  /\ Statuses["review"] = {"SELF", "MANAGER", "CALIBRATION", "DONE"}
  /\ Statuses["round"] = {"COLLECTING", "CLOSED"}
  /\ Statuses["unused"] = {}
BY DEF Statuses

\* A status of some kind is a status, and a row's.
LEMMA StatusIn ==
  ASSUME NEW k \in Kind, NEW s \in Statuses[k]
  PROVE  s \in DocStatus /\ s # "none" /\ s # "deleted"
<1>1. s \in UNION {Statuses[j] : j \in Kind}
  OBVIOUS
<1>2. s # "none" /\ s # "deleted"
  BY StatusSets DEF Kind
<1>3. QED
  BY <1>1, <1>2 DEF DocStatus

\* The flow's types and the engine's.
LEMMA Typed ==
  ASSUME TypeOK
  PROVE  /\ EngineTypeOK /\ pc \in [Handler -> Labels] /\ EnginePc \subseteq Labels
         /\ "idle" \in Labels
         /\ \A h \in Handler : frame[h].t \in Target /\ local[h] \in Local
BY DEF TypeOK, EngineTypeOK, Labels, EnginePc, Frame

\* A handler that carries nothing.
LEMMA NoLocalType == NoLocal \in Local /\ NoLocal.next = "none" /\ NoLocal.apply = "none"
BY FlowAssumption DEF NoLocal, Local, DocStatus, Terms

\* SetDoc writes one status.
LEMMA SetDocType ==
  ASSUME TypeOK, NEW t \in Target, NEW s \in DocStatus, SetDoc(t, s), kind' = kind,
         s = "deleted" \/ s \in Statuses[kind[t]]
  PROVE  /\ doc' \in [Target -> DocStatus]
         /\ \A u \in Target : Exists(u)' => doc'[u] \in Statuses[kind'[u]]
         /\ doc'[t] = IF Exists(t) THEN s ELSE doc[t]
         /\ \A u \in Target \ {t} : doc'[u] = doc[u]
<1>1. doc \in [Target -> DocStatus] /\ \A u \in Target : Exists(u) => doc[u] \in Statuses[kind[u]]
  BY DEF TypeOK
<1>2. CASE Exists(t)
  <2>1. doc' = [doc EXCEPT ![t] = s]
    BY <1>2 DEF SetDoc
  <2>2. doc' \in [Target -> DocStatus] /\ doc'[t] = s /\ \A u \in Target \ {t} : doc'[u] = doc[u]
    BY <1>1, <2>1
  <2>3. Exists(t)' => s \in Statuses[kind[t]]
    BY <2>2 DEF Exists
  <2>4. QED
    BY <1>1, <1>2, <2>2, <2>3 DEF Exists
<1>3. CASE ~ Exists(t)
  BY <1>1, <1>3 DEF SetDoc, Exists
<1>4. QED
  BY <1>2, <1>3

\* A row inserted for a document that has none.
LEMMA InsertType ==
  ASSUME TypeOK, NEW t \in Target, NEW k \in Kind, NEW s \in Statuses[k], NEW v \in Terms,
         Insert(t, k, s, v)
  PROVE  /\ doc' \in [Target -> DocStatus] /\ terms' \in [Target -> Terms]
         /\ \A u \in Target : Exists(u)' => doc'[u] \in Statuses[kind'[u]]
         /\ doc[t] = "none" /\ doc'[t] = s /\ \A u \in Target \ {t} : doc'[u] = doc[u]
<1>1. /\ kind[t] = k /\ doc[t] = "none" /\ kind' = kind
      /\ doc' = [doc EXCEPT ![t] = s] /\ terms' = [terms EXCEPT ![t] = v]
  BY DEF Insert
<1>2. s \in DocStatus
  BY StatusIn
<1>3. /\ doc' \in [Target -> DocStatus] /\ terms' \in [Target -> Terms]
      /\ doc'[t] = s /\ \A u \in Target \ {t} : doc'[u] = doc[u]
  BY <1>1, <1>2 DEF TypeOK
<1>4. ASSUME NEW u \in Target, Exists(u)' PROVE doc'[u] \in Statuses[kind'[u]]
  <2>1. CASE u = t
    BY <1>1, <1>3, <2>1
  <2>2. CASE u # t
    BY <1>1, <1>3, <1>4, <2>2 DEF TypeOK, Exists
  <2>3. QED
    BY <2>1, <2>2
<1>5. QED
  BY <1>1, <1>3, <1>4

\* Handlers that end.
LEMMA EndType ==
  ASSUME TypeOK, NEW h \in Handler, End(h)
  PROVE  /\ Alone(h) /\ pc'[h] = "idle" /\ local'[h] = NoLocal
         /\ \A g \in Handler \ {h} : local'[g] = local[g]
         /\ pc' \in [Handler -> Labels] /\ frame' \in [Handler -> Frame]
         /\ local' \in [Handler -> Local]
<1>1. Return(h) /\ local' = [local EXCEPT ![h] = NoLocal]
  BY DEF End
<1>2. pc \in [Handler -> Labels] /\ frame \in [Handler -> Frame] /\ "idle" \in Labels
      /\ local \in [Handler -> Local]
  BY Typed DEF TypeOK
<1>3. QED
  BY <1>1, <1>2, ReturnAlone, NoLocalType

\* Handlers that begin on a document.
LEMMA BeginType ==
  ASSUME TypeOK, NEW h \in Handler, NEW t \in Target, NEW k, NEW S, NEW l \in Labels,
         Begin(h, t, k, S, l)
  PROVE  /\ Alone(h) /\ pc[h] = "idle" /\ pc'[h] = l /\ frame'[h].t = t
         /\ kind[t] = k /\ doc[t] \in S
         /\ pc' \in [Handler -> Labels] /\ frame' \in [Handler -> Frame]
<1>1. /\ pc[h] = "idle" /\ kind[t] = k /\ doc[t] \in S
      /\ frame' = [frame EXCEPT ![h].t = t] /\ Goto(h, l)
  BY DEF Begin
<1>2. pc \in [Handler -> Labels] /\ frame \in [Handler -> Frame]
  BY Typed DEF TypeOK
<1>3. frame' \in [Handler -> Frame] /\ frame'[h].t = t /\ \E f : frame' = [frame EXCEPT ![h] = f]
  BY <1>1, <1>2, TargetSet
<1>4. QED
  BY <1>1, <1>2, <1>3, GotoAlone

\* Handlers that move on with their frame.
LEMMA GotoType ==
  ASSUME TypeOK, NEW h \in Handler, NEW l \in Labels, Goto(h, l), frame' = frame
  PROVE  Alone(h) /\ pc'[h] = l /\ pc' \in [Handler -> Labels] /\ frame' \in [Handler -> Frame]
<1>1. pc \in [Handler -> Labels] /\ frame \in [Handler -> Frame]
  BY Typed DEF TypeOK
<1>2. QED
  BY <1>1, GotoAlone

-----------------------------------------------------------------------------
(* What a step keeps. *)

\* Signatures and waivers are not taken back.
LEMMA BackedKept ==
  ASSUME Grows, NEW t \in Target, free[t] => free'[t], Backed(t)
  PROVE  Backed(t)'
<1>1. CASE free[t]
  BY <1>1 DEF Backed
<1>2. ASSUME NEW i \in Of(t), FullySigned(i) PROVE Backed(t)'
  <2>1. i \in Instance /\ Routed(i) /\ inst[i].target = t
    BY DEF Of, Routed
  <2>2. Routed(i)' /\ inst'[i].target = t /\ FullySigned(i)'
    BY <1>2, <2>1, Kept
  <2>3. QED
    BY <2>1, <2>2 DEF Backed, Of, Routed, FullySigned, Active, Signed
<1>3. QED
  BY <1>1, <1>2 DEF Backed

\* A handler told of a decision may let the document take effect (onApprovalDecided).
LEMMA DecidedBacks ==
  ASSUME TypeOK, NEW h \in Handler, Decided(h), frame[h].outcome = "APPROVED"
  PROVE  Backed(frame[h].t)
<1>1. PICK i \in Instance : i = frame[h].i
  BY DEF TypeOK, Frame
<1>2. i \in Of(frame[h].t) /\ FullySigned(i)
  BY <1>1 DEF Decided, Carries, Of, Routed
<1>3. QED
  BY <1>2 DEF Backed

\* What a step does to the status of u while no other handler is at work on u.
Undisturbed(u) ==
  \/ doc'[u] = doc[u]
  \/ doc'[u] # "ACCEPTED" /\ doc[u] \notin {"SENT", "COLLECTING"}
  \/ \E h \in Handler : pc[h] # "idle" /\ frame[h].t = u /\ pc'[h] # pc[h]

\* A handler that stands still keeps all it holds.
LEMMA HandlerKept ==
  ASSUME IInv, Grows, kind' = kind, NEW h \in Handler,
         \A t \in Target : (free[t] => free'[t]) /\ (raced[t] => raced'[t]) /\ Undisturbed(t),
         pc'[h] = pc[h], frame'[h] = frame[h], local'[h] = local[h]
  PROVE  HandlerOk(h)' /\ KindOk(h)' /\ Fresh(h)'
<1>0. PICK t \in Target : t = frame[h].t
  BY Typed DEF IInv
<1>1. HandlerOk(h) /\ KindOk(h) /\ Fresh(h)
  BY DEF IInv
<1>2. Backed(t) => Backed(t)'
  BY BackedKept
<1>3. HandlerOk(h)'
  <2>1. Backed(frame[h].t) => Backed(frame[h].t)'
    BY <1>0, <1>2 DEF Backed, Of, FullySigned, Active, Signed
  <2>2. QED
    BY <1>1, <2>1 DEF HandlerOk, Backed, Of, FullySigned, Active, Signed
<1>4. KindOk(h)'
  BY <1>1 DEF KindOk
<1>5. CASE raced[t]
  BY <1>0, <1>3, <1>4, <1>5 DEF Fresh
<1>6. CASE ~ raced[t]
  <2>1. \A g \in Handler \ {h} : pc[h] # "idle" => ~ (pc[g] # "idle" /\ frame[g].t = t)
    BY <1>0, <1>6 DEF IInv, Shared
  <2>2. pc[h] # "idle" =>
          doc'[t] = doc[t] \/ (doc'[t] # "ACCEPTED" /\ doc[t] \notin {"SENT", "COLLECTING"})
    BY <2>1 DEF Undisturbed
  <2>3. local[h].next # "none" => pc[h] # "idle"
    BY <1>1 DEF HandlerOk
  <2>4. Fresh(h)'
    BY <1>0, <1>1, <1>6, <2>2, <2>3 DEF Fresh, Writing
  <2>5. QED
    BY <1>3, <1>4, <2>4
<1>7. QED
  BY <1>5, <1>6

\* What is left to show of a step: its types, the rows and documents it writes, and
\* the handler that moved.
LEMMA StepKeeps ==
  ASSUME IInv, Marks, TypeOK', Grows, kind' = kind,
         \A t \in Target : (free[t] => free'[t]) /\ Undisturbed(t) /\ DocOk(t)' /\ HiresOk(t)',
         \A i \in Instance : inst'[i] = inst[i] \/ RowOnTurn(i)',
         \A h \in Handler :
           \/ pc'[h] = pc[h] /\ frame'[h] = frame[h] /\ local'[h] = local[h]
           \/ HandlerOnTurn(h)' /\ HandlerOk(h)' /\ KindOk(h)' /\ Fresh(h)'
  PROVE  IInv'
<1>1. EngineTypeOK /\ EngineInv
  BY Typed DEF IInv
<1>2. EngineInv'
  <2>1. \A i \in Instance : RowOnTurn(i)'
    BY <1>1, KeptRow DEF EngineInv
  <2>2. \A h \in Handler : HandlerOnTurn(h)'
    BY <1>1, KeptHandler DEF EngineInv
  <2>3. QED
    BY <2>1, <2>2 DEF EngineInv
<1>3. \A t \in Target : raced[t] => raced'[t]
  BY DEF Marks
<1>4. \A h \in Handler : HandlerOk(h)' /\ KindOk(h)' /\ Fresh(h)'
  BY <1>3, HandlerKept
<1>5. \A t \in Target : Shared(t)' => raced'[t]
  BY DEF Marks
<1>6. QED
  BY <1>2, <1>4, <1>5 DEF IInv

\* A document a step leaves alone stays backed.
LEMMA DocKept ==
  ASSUME Grows, NEW t \in Target, free[t] => free'[t], DocOk(t),
         doc'[t] = doc[t] \/ doc'[t] \notin InEffect, opened'[t] = opened[t]
  PROVE  DocOk(t)'
BY BackedKept DEF DocOk

\* A step of h that is neither to nor from the write of accept leaves the count of
\* employees right, unless it overwrites ACCEPTED.
LEMMA HiresKept ==
  ASSUME IInv, Marks, NEW h \in Handler, Alone(h), hires' = hires,
         pc[h] # "a.update", pc'[h] # "a.update", NEW t \in Target,
         raced[t] \/ (doc'[t] = "ACCEPTED" <=> doc[t] = "ACCEPTED")
  PROVE  HiresOk(t)'
<1>1. Accepting(t)' <=> Accepting(t)
  BY DEF Accepting, Alone
<1>2. raced[t] => raced'[t]
  BY DEF Marks
<1>3. QED
  BY <1>1, <1>2 DEF IInv, HiresOk

-----------------------------------------------------------------------------
(* Three kinds of step. *)

\* A step of h that writes no document.
LEMMA QuietStep ==
  ASSUME IInv, Marks, TypeOK', Grows, NEW h \in Handler, Alone(h),
         \A g \in Handler \ {h} : local'[g] = local[g],
         UNCHANGED <<kind, doc, hires, opened>>,
         \A t \in Target : free[t] => free'[t],
         \A i \in Instance : inst'[i] = inst[i] \/ RowOnTurn(i)',
         pc[h] # "a.update", pc'[h] # "a.update",
         HandlerOnTurn(h)', HandlerOk(h)', KindOk(h)', Fresh(h)'
  PROVE  IInv'
<1>1. \A t \in Target : DocOk(t)'
  BY DocKept DEF IInv
<1>2. \A t \in Target : HiresOk(t)'
  BY HiresKept
<1>3. \A t \in Target : Undisturbed(t)
  BY DEF Undisturbed
<1>4. QED
  BY <1>1, <1>2, <1>3, StepKeeps DEF Alone

\* A step of h that writes a status on its own document t, backed if it takes effect.
LEMMA WriteStep ==
  ASSUME IInv, Marks, TypeOK', Grows, NEW h \in Handler, Alone(h),
         \A g \in Handler \ {h} : local'[g] = local[g],
         UNCHANGED <<kind, hires, opened>>,
         \A u \in Target : free[u] => free'[u],
         \A i \in Instance : inst'[i] = inst[i] \/ RowOnTurn(i)',
         pc[h] \notin {"a.update", "idle"}, pc'[h] \notin {"a.update", pc[h]},
         NEW t \in Target, frame[h].t = t,
         \A u \in Target \ {t} : doc'[u] = doc[u],
         doc'[t] # "ACCEPTED" \/ doc'[t] = doc[t], raced[t] \/ doc[t] # "ACCEPTED",
         doc'[t] = doc[t] \/ (doc'[t] \in InEffect => Backed(t)'),
         HandlerOnTurn(h)', HandlerOk(h)', KindOk(h)', Fresh(h)'
  PROVE  IInv'
<1>1. \A u \in Target : DocOk(u)'
  <2>1. \A u \in Target \ {t} : DocOk(u)'
    BY DocKept DEF IInv
  <2>2. DocOk(t)'
    BY BackedKept DEF IInv, DocOk
  <2>3. QED
    BY <2>1, <2>2
<1>2. \A u \in Target : HiresOk(u)'
  BY HiresKept
<1>3. \A u \in Target : Undisturbed(u)
  BY DEF Undisturbed
<1>4. QED
  BY <1>1, <1>2, <1>3, StepKeeps DEF Alone

\* A handler that ends holds nothing.
LEMMA IdleOk ==
  ASSUME NEW h \in Handler, pc'[h] = "idle", local'[h] = NoLocal
  PROVE  HandlerOnTurn(h)' /\ HandlerOk(h)' /\ KindOk(h)' /\ Fresh(h)'
<1>1. local'[h].next = "none" /\ local'[h].apply = "none"
  BY NoLocalType
<1>2. HandlerOnTurn(h)' /\ HandlerOk(h)' /\ KindOk(h)'
  BY <1>1 DEF HandlerOnTurn, HandlerOk, KindOk, InEffect
<1>3. Fresh(h)'
  BY <1>1 DEF Fresh, Writing
<1>4. QED
  BY <1>2, <1>3

-----------------------------------------------------------------------------
(* Handlers that begin. *)

\* The marks are truth values.
LEMMA MarksType == Marks => raced' \in [Target -> BOOLEAN] /\ revived' \in [Target -> BOOLEAN]
BY DEF Marks

\* A step that reads a document and moves on, with its locals in order.
LEMMA ReadKeeps ==
  ASSUME IInv, Marks, NEW h \in Handler, NEW t \in Target, NEW k, NEW S, NEW l \in Labels,
         Begin(h, t, k, S, l), Quiet,
         \/ local' = local
         \/ \E v \in Terms : local' = [local EXCEPT ![h].terms = v],
         \/ l = "e.update" /\ k = "offer"
         \/ l = "a.hire" /\ k = "offer" /\ S = {"SENT"}
         \/ l = "route" /\ S = {"DRAFT"}
         \/ l \in {"c.cancel", "c.update"} /\ k \in {"offer", "manpower", "enrolment"} /\ "ACCEPTED" \notin S
         \/ l = "q.insert" /\ S = {"APPROVED"}
         \/ l \in {"g.insert", "h.insert"} /\ k = "enrolment"
         \/ l = "v.self" /\ k = "review" /\ S = {"SELF"}
         \/ l = "v.score" /\ k = "review" /\ S = {"MANAGER"}
         \/ l = "f.rate" /\ k = "round" /\ S = {"COLLECTING"}
         \/ l = "f.close" /\ k = "round" /\ S = {"COLLECTING", "CLOSED"}
  PROVE  IInv'
<1>1. UNCHANGED <<inst, actions, kind, doc, terms, ctx, free, fails, hires, opened>>
  BY DEF Quiet
<1>2. /\ Alone(h) /\ pc[h] = "idle" /\ pc'[h] = l /\ frame'[h].t = t
      /\ kind[t] = k /\ doc[t] \in S
      /\ pc' \in [Handler -> Labels] /\ frame' \in [Handler -> Frame]
  BY BeginType DEF IInv
<1>3. local[h].next = "none" /\ local[h].apply = "none"
  BY <1>2 DEF IInv, HandlerOk
<1>4. /\ local' \in [Handler -> Local]
      /\ local'[h].next = "none" /\ local'[h].apply = "none"
      /\ \A g \in Handler \ {h} : local'[g] = local[g]
  <2>1. local \in [Handler -> Local]
    BY DEF IInv, TypeOK
  <2>2. CASE local' = local
    BY <1>3, <2>1, <2>2
  <2>3. ASSUME NEW v \in Terms, local' = [local EXCEPT ![h].terms = v]
        PROVE  /\ local' \in [Handler -> Local]
               /\ local'[h].next = "none" /\ local'[h].apply = "none"
               /\ \A g \in Handler \ {h} : local'[g] = local[g]
    <3>1. PICK w : w = [local[h] EXCEPT !.terms = v] /\ local' = [local EXCEPT ![h] = w]
      BY <2>3
    <3>2. w \in Local /\ w.next = "none" /\ w.apply = "none"
      BY <1>3, <2>1, <3>1 DEF Local
    <3>3. QED
      BY <2>1, <3>1, <3>2
  <2>4. QED
    BY <2>2, <2>3
<1>5. TypeOK'
  BY <1>1, <1>2, <1>4, MarksType DEF IInv, TypeOK, Labels, Exists
<1>6. Grows
  BY <1>1 DEF Grows, Routed
<1>7. HandlerOnTurn(h)'
  BY <1>2 DEF HandlerOnTurn
<1>8. pc'[h] \in {"a.hire", "q.insert"} => Backed(t)'
  <2>1. doc[t] \in {"SENT", "APPROVED"} => Backed(t)
    BY DEF IInv, DocOk, InEffect
  <2>2. QED
    BY <1>1, <1>2, <1>6, <2>1, BackedKept
<1>9. HandlerOk(h)'
  BY <1>2, <1>4, <1>8 DEF HandlerOk, InEffect, Backed, Of, FullySigned, Active, Signed
<1>10. KindOk(h)'
  BY <1>1, <1>2, <1>4 DEF KindOk
<1>11. Fresh(h)'
  BY <1>1, <1>2, <1>4 DEF Fresh, Writing
<1>12. QED
  BY <1>1, <1>2, <1>4, <1>5, <1>6, <1>7, <1>9, <1>10, <1>11, QuietStep

\* Every request but CreateManpower begins with a read.
LEMMA StartKeeps ==
  ASSUME IInv, Marks, NEW h \in Handler, NEW t \in Target, Start(h, t), ~ CreateManpower(h, t)
  PROVE  IInv'
<1> USE DEF Labels, EnginePc, FlowPc, DocPc
<1>1. terms[t] \in Terms
  BY DEF IInv, TypeOK
<1>2. CASE EditRead(h, t)
  BY <1>2, ReadKeeps DEF EditRead
<1>3. CASE SubmitOffer(h, t)
  BY <1>1, <1>3, ReadKeeps DEF SubmitOffer
<1>4. CASE DeclineRead(h, t)
  BY <1>4, ReadKeeps DEF DeclineRead
<1>5. CASE AcceptRead(h, t)
  BY <1>5, ReadKeeps DEF AcceptRead
<1>6. CASE CancelManpower(h, t)
  BY <1>6, ReadKeeps DEF CancelManpower
<1>7. CASE RequisitionRead(h, t)
  BY <1>7, ReadKeeps DEF RequisitionRead
<1>8. CASE EnrolRead(h, t, "g.insert") \/ EnrolRead(h, t, "h.insert")
  BY <1>8, ReadKeeps DEF EnrolRead
<1>9. CASE CancelEnrolment(h, t)
  BY <1>9, ReadKeeps DEF CancelEnrolment
<1>10. CASE SelfRead(h, t)
  BY <1>10, ReadKeeps DEF SelfRead
<1>11. CASE CloseRead(h, t)
  BY <1>11, ReadKeeps DEF CloseRead
<1>12. ASSUME NEW v \in Terms \ {0}, ManagerRead(h, t, v) PROVE IInv'
  BY <1>12, ReadKeeps DEF ManagerRead
<1>13. ASSUME NEW v \in Terms \ {0}, RateRead(h, t, v) PROVE IInv'
  BY <1>13, ReadKeeps DEF RateRead
<1>14. QED
  BY <1>2, <1>3, <1>4, <1>5, <1>6, <1>7, <1>8, <1>9, <1>10, <1>11, <1>12, <1>13 DEF Start

\* CreateManpower inserts its row and goes on to ask for approval.
LEMMA CreateManpowerKeeps ==
  ASSUME IInv, Marks, NEW h \in Handler, NEW t \in Target, CreateManpower(h, t)
  PROVE  IInv'
<1>1. /\ Insert(t, "manpower", "PENDING", 0) /\ pc[h] = "idle"
      /\ frame' = [frame EXCEPT ![h].t = t] /\ Goto(h, "route") /\ local' = local
      /\ UNCHANGED <<inst, actions, kind, ctx, free, fails, hires, opened>>
  BY DEF CreateManpower, Insert
<1>2. TypeOK
  BY DEF IInv
<1>3. "manpower" \in Kind /\ "PENDING" \in Statuses["manpower"] /\ 0 \in Terms
  BY StatusSets, FlowAssumption DEF Kind, Terms
<1>4. /\ doc' \in [Target -> DocStatus] /\ terms' \in [Target -> Terms]
      /\ \A u \in Target : Exists(u)' => doc'[u] \in Statuses[kind'[u]]
      /\ doc[t] = "none" /\ doc'[t] = "PENDING" /\ \A u \in Target \ {t} : doc'[u] = doc[u]
  BY <1>1, <1>2, <1>3, InsertType
<1>5. Alone(h) /\ pc'[h] = "route" /\ frame'[h].t = t
      /\ pc' \in [Handler -> Labels] /\ frame' \in [Handler -> Frame]
  <2>1. pc \in [Handler -> Labels] /\ frame \in [Handler -> Frame] /\ "route" \in Labels
    BY <1>2, Typed DEF TypeOK, Labels, FlowPc
  <2>2. frame' \in [Handler -> Frame] /\ frame'[h].t = t /\ \E f : frame' = [frame EXCEPT ![h] = f]
    BY <1>1, <2>1, TargetSet
  <2>3. QED
    BY <1>1, <2>1, <2>2, GotoAlone
<1>6. TypeOK'
  BY <1>1, <1>2, <1>4, <1>5, MarksType DEF TypeOK, Labels
<1>7. Grows
  BY <1>1 DEF Grows, Routed
<1>8. local[h].next = "none" /\ local[h].apply = "none"
  BY <1>1 DEF IInv, HandlerOk
<1>9. HandlerOnTurn(h)' /\ HandlerOk(h)' /\ KindOk(h)' /\ Fresh(h)'
  BY <1>1, <1>4, <1>5, <1>8 DEF HandlerOnTurn, HandlerOk, KindOk, Fresh, Writing, InEffect
<1>10. \A u \in Target : DocOk(u)'
  BY <1>1, <1>4, <1>7, DocKept DEF IInv, InEffect
<1>11. \A u \in Target : HiresOk(u)'
  BY <1>1, <1>4, <1>5, HiresKept
<1>12. \A u \in Target : Undisturbed(u)
  BY <1>4 DEF Undisturbed
<1>13. QED
  BY <1>1, <1>5, <1>6, <1>7, <1>9, <1>10, <1>11, <1>12, StepKeeps DEF Alone

\* What one statement creates, and the status HR writes on an enrolment.
LEMMA AtOnceKeeps ==
  ASSUME IInv, Marks, AtOnce
  PROVE  IInv'
<1>1. TypeOK
  BY DEF IInv
<1>2. /\ UNCHANGED <<inst, actions, pc, frame, kind, ctx, local, fails, hires, opened>>
      /\ \A u \in Target : free[u] => free'[u]
      /\ free' \in [Target -> BOOLEAN]
  BY <1>1 DEF AtOnce, CreateOffer, CreateReview, CreateRound, Insert, UpdateByHr, TypeOK
<1>3. PICK t \in Target :
        \/ CreateOffer(t) \/ CreateReview(t) \/ CreateRound(t)
        \/ \E s \in {"REGISTERED", "CONFIRMED", "COMPLETED", "CANCELLED"} : UpdateByHr(t, s)
  BY DEF AtOnce
<1>4. /\ doc' \in [Target -> DocStatus] /\ terms' \in [Target -> Terms]
      /\ \A u \in Target : Exists(u)' => doc'[u] \in Statuses[kind'[u]]
      /\ \A u \in Target \ {t} : doc'[u] = doc[u]
      /\ doc'[t] # "ACCEPTED" /\ doc[t] \notin {"SENT", "COLLECTING", "ACCEPTED"}
      /\ doc'[t] \in InEffect => free'[t]
  <2>1. 0 \in Terms /\ 1 \in Terms
    BY FlowAssumption DEF Terms
  <2>2. CASE CreateOffer(t)
    <3>1. "offer" \in Kind /\ "DRAFT" \in Statuses["offer"]
      BY StatusSets DEF Kind
    <3>2. QED
      BY <1>1, <2>1, <2>2, <3>1, InsertType DEF CreateOffer, InEffect
  <2>3. CASE CreateReview(t)
    <3>1. "review" \in Kind /\ "SELF" \in Statuses["review"]
      BY StatusSets DEF Kind
    <3>2. QED
      BY <1>1, <2>1, <2>3, <3>1, InsertType DEF CreateReview, InEffect
  <2>4. CASE CreateRound(t)
    <3>1. "round" \in Kind /\ "COLLECTING" \in Statuses["round"]
      BY StatusSets DEF Kind
    <3>2. QED
      BY <1>1, <2>1, <2>4, <3>1, InsertType DEF CreateRound, InEffect
  <2>5. ASSUME NEW s \in {"REGISTERED", "CONFIRMED", "COMPLETED", "CANCELLED"}, UpdateByHr(t, s)
        PROVE  /\ doc' \in [Target -> DocStatus] /\ terms' \in [Target -> Terms]
               /\ \A u \in Target : Exists(u)' => doc'[u] \in Statuses[kind'[u]]
               /\ \A u \in Target \ {t} : doc'[u] = doc[u]
               /\ doc'[t] # "ACCEPTED" /\ doc[t] \notin {"SENT", "COLLECTING", "ACCEPTED"}
               /\ doc'[t] \in InEffect => free'[t]
    <3>1. /\ kind[t] = "enrolment" /\ Exists(t) /\ doc' = [doc EXCEPT ![t] = s]
          /\ free' = [free EXCEPT ![t] = TRUE] /\ terms' = terms /\ kind' = kind
      BY <2>5 DEF UpdateByHr
    <3>2. "enrolment" \in Kind /\ s \in Statuses["enrolment"]
      BY StatusSets DEF Kind
    <3>3. s \in DocStatus
      BY <3>2, StatusIn
    <3>4. doc[t] \in {"REGISTERED", "CONFIRMED", "COMPLETED", "CANCELLED"}
      BY <1>1, <3>1, StatusSets DEF TypeOK
    <3>5. doc' \in [Target -> DocStatus] /\ doc'[t] = s /\ \A u \in Target \ {t} : doc'[u] = doc[u]
      BY <1>1, <3>1, <3>3 DEF TypeOK
    <3>6. \A u \in Target : Exists(u)' => doc'[u] \in Statuses[kind'[u]]
      BY <1>1, <3>1, <3>2, <3>5 DEF TypeOK, Exists
    <3>7. free'[t] /\ terms' \in [Target -> Terms]
      BY <1>1, <3>1 DEF TypeOK
    <3>8. QED
      BY <3>4, <3>5, <3>6, <3>7, <2>5
  <2>6. QED
    BY <1>3, <2>2, <2>3, <2>4, <2>5
<1>5. TypeOK'
  BY <1>1, <1>2, <1>4, MarksType DEF TypeOK
<1>6. Grows
  BY <1>2 DEF Grows, Routed
<1>7. \A u \in Target : DocOk(u)'
  <2>1. \A u \in Target \ {t} : DocOk(u)'
    BY <1>2, <1>4, <1>6, DocKept DEF IInv
  <2>2. DocOk(t)'
    BY <1>2, <1>4, <1>6, BackedKept DEF IInv, DocOk, Backed
  <2>3. QED
    BY <2>1, <2>2
<1>8. \A u \in Target : HiresOk(u)'
  BY <1>2, <1>4 DEF IInv, HiresOk, Accepting, Marks
<1>9. \A u \in Target : Undisturbed(u)
  BY <1>4 DEF Undisturbed
<1>10. QED
  BY <1>2, <1>5, <1>6, <1>7, <1>8, <1>9, StepKeeps

-----------------------------------------------------------------------------
(* Handlers that end. *)

\* A handler that ends and writes no document.
LEMMA EndQuietKeeps ==
  ASSUME IInv, Marks, NEW h \in Handler, End(h), pc[h] # "a.update",
         UNCHANGED <<inst, actions, kind, doc, ctx, free, hires, opened>>,
         terms' \in [Target -> Terms], fails' \in Nat
  PROVE  IInv'
<1>1. /\ Alone(h) /\ pc'[h] = "idle" /\ local'[h] = NoLocal
      /\ \A g \in Handler \ {h} : local'[g] = local[g]
      /\ pc' \in [Handler -> Labels] /\ frame' \in [Handler -> Frame]
      /\ local' \in [Handler -> Local]
  BY EndType DEF IInv
<1>2. TypeOK'
  BY <1>1, MarksType DEF IInv, TypeOK, Labels, Exists
<1>3. Grows
  BY DEF Grows, Routed
<1>4. QED
  BY <1>1, <1>2, <1>3, IdleOk, QuietStep

\* update of an offer, a rating, a refused account.
LEMMA EndReadKeeps ==
  ASSUME IInv, Marks, NEW h \in Handler, EditUpdate(h) \/ RateUpdate(h) \/ AcceptRefused(h)
  PROVE  IInv'
<1>1. TypeOK
  BY DEF IInv
<1>2. PICK t \in Target : t = frame[h].t
  BY <1>1, Typed
<1>3. local[h].terms \in Terms /\ fails \in Nat
  BY <1>1 DEF TypeOK, Local
<1>4. CASE EditUpdate(h)
  <2>1. terms' = [terms EXCEPT ![t] = IF @ < MaxTerms THEN @ + 1 ELSE @]
    BY <1>2, <1>4 DEF EditUpdate
  <2>2. \A v \in Terms : (IF v < MaxTerms THEN v + 1 ELSE v) \in Terms
    BY FlowAssumption DEF Terms
  <2>3. terms' \in [Target -> Terms]
    BY <1>1, <2>1, <2>2 DEF TypeOK
  <2>4. QED
    BY <1>3, <1>4, <2>3, EndQuietKeeps DEF EditUpdate
<1>5. CASE RateUpdate(h)
  <2>1. terms' \in [Target -> Terms]
    BY <1>1, <1>3, <1>5 DEF TypeOK, RateUpdate
  <2>2. QED
    BY <1>3, <1>5, <2>1, EndQuietKeeps DEF RateUpdate
<1>6. CASE AcceptRefused(h)
  <2>1. terms' \in [Target -> Terms]
    BY <1>1, <1>6 DEF TypeOK, AcceptRefused, Quiet
  <2>2. QED
    BY <1>3, <1>6, <2>1, EndQuietKeeps DEF AcceptRefused, Quiet
<1>7. QED
  BY <1>4, <1>5, <1>6

\* A handler that ends with a status written on its document, backed if it takes effect.
LEMMA EndWriteKeeps ==
  ASSUME IInv, Marks, NEW h \in Handler, End(h), pc[h] \notin {"a.update", "idle"},
         NEW t \in Target, t = frame[h].t, NEW s \in DocStatus, SetDoc(t, s),
         s = "deleted" \/ s \in Statuses[kind[t]], s # "ACCEPTED",
         pc[h] \in Writing, s \in InEffect => Backed(t),
         UNCHANGED <<inst, actions, kind, terms, ctx, free, fails, hires, opened>>
  PROVE  IInv'
<1>1. TypeOK
  BY DEF IInv
<1>2. /\ Alone(h) /\ pc'[h] = "idle" /\ local'[h] = NoLocal
      /\ \A g \in Handler \ {h} : local'[g] = local[g]
      /\ pc' \in [Handler -> Labels] /\ frame' \in [Handler -> Frame]
      /\ local' \in [Handler -> Local]
  BY <1>1, EndType
<1>3. /\ doc' \in [Target -> DocStatus]
      /\ \A u \in Target : Exists(u)' => doc'[u] \in Statuses[kind'[u]]
      /\ doc'[t] = IF Exists(t) THEN s ELSE doc[t]
      /\ \A u \in Target \ {t} : doc'[u] = doc[u]
  BY <1>1, SetDocType
<1>4. TypeOK'
  BY <1>1, <1>2, <1>3, MarksType DEF TypeOK, Labels
<1>5. Grows
  BY DEF Grows, Routed
<1>6. raced[t] \/ doc[t] # "ACCEPTED"
  BY DEF IInv, Fresh
<1>7. s \in InEffect => Backed(t)'
  BY <1>5, BackedKept
<1>8. HandlerOnTurn(h)' /\ HandlerOk(h)' /\ KindOk(h)' /\ Fresh(h)'
  BY <1>2, IdleOk
<1>9. QED
  BY <1>2, <1>3, <1>4, <1>5, <1>6, <1>7, <1>8, WriteStep

\* cancel, decline, submitSelf, close, delete, and the write after createInstance.
LEMMA EndUpdateKeeps ==
  ASSUME IInv, Marks, NEW h \in Handler,
         \/ (CancelUpdate(h) \/ SelfUpdate(h) \/ CloseUpdate(h))
         \/ (StatusUpdate(h) \/ DeleteDoc(h)) /\ UNCHANGED <<hires, opened>>
  PROVE  IInv'
<1>1. PICK t \in Target : t = frame[h].t
  BY Typed DEF IInv
<1>2. HandlerOk(h) /\ KindOk(h) /\ kind[t] \in Kind /\ local[h].next \in DocStatus
  BY <1>1 DEF IInv, TypeOK, Local
<1>3. CASE CancelUpdate(h)
  <2>1. PICK s : s = IF kind[t] = "offer" THEN "DECLINED" ELSE "CANCELLED"
    OBVIOUS
  <2>2. s \in Statuses[kind[t]]
    BY <1>1, <1>2, <1>3, <2>1, StatusSets DEF CancelUpdate, KindOk
  <2>3. s \in DocStatus
    BY <1>2, <2>2, StatusIn
  <2>4. QED
    BY <1>1, <1>3, <2>1, <2>2, <2>3, EndWriteKeeps DEF CancelUpdate, Writing, InEffect
<1>4. CASE SelfUpdate(h)
  <2>1. kind[t] = "review" /\ "MANAGER" \in Statuses[kind[t]]
    BY <1>1, <1>2, <1>4, StatusSets DEF SelfUpdate, KindOk
  <2>2. "MANAGER" \in DocStatus
    BY <1>2, <2>1, StatusIn
  <2>3. QED
    BY <1>1, <1>4, <2>1, <2>2, EndWriteKeeps DEF SelfUpdate, Writing, InEffect
<1>5. CASE CloseUpdate(h)
  <2>1. kind[t] = "round" /\ "CLOSED" \in Statuses[kind[t]]
    BY <1>1, <1>2, <1>5, StatusSets DEF CloseUpdate, KindOk
  <2>2. "CLOSED" \in DocStatus
    BY <1>2, <2>1, StatusIn
  <2>3. QED
    BY <1>1, <1>5, <2>1, <2>2, EndWriteKeeps DEF CloseUpdate, Writing, InEffect
<1>6. CASE StatusUpdate(h) /\ UNCHANGED <<hires, opened>>
  <2>1. PICK s \in DocStatus : s = local[h].next
    BY <1>2
  <2>2. s \in Statuses[kind[t]] /\ s # "ACCEPTED" /\ (s \in InEffect => Backed(t))
    BY <1>1, <1>2, <1>6, <2>1 DEF StatusUpdate, KindOk, HandlerOk
  <2>3. QED
    BY <1>1, <1>6, <2>1, <2>2, EndWriteKeeps DEF StatusUpdate, Writing
<1>7. CASE DeleteDoc(h) /\ UNCHANGED <<hires, opened>>
  <2>1. "deleted" \in DocStatus
    BY DEF DocStatus
  <2>2. QED
    BY <1>1, <1>7, <2>1, EndWriteKeeps DEF DeleteDoc, Writing, InEffect
<1>8. QED
  BY <1>3, <1>4, <1>5, <1>6, <1>7

\* The requisition is opened from a request that was APPROVED when it was read.
LEMMA RequisitionInsertKeeps ==
  ASSUME IInv, Marks, NEW h \in Handler, RequisitionInsert(h)
  PROVE  IInv'
<1>1. TypeOK
  BY DEF IInv
<1>2. PICK t \in Target : t = frame[h].t
  BY <1>1, Typed
<1>3. /\ pc[h] = "q.insert" /\ End(h) /\ opened' = [opened EXCEPT ![t] = TRUE]
      /\ UNCHANGED <<inst, actions, kind, doc, terms, ctx, free, fails, hires>>
  BY <1>2 DEF RequisitionInsert
<1>4. /\ Alone(h) /\ pc'[h] = "idle" /\ local'[h] = NoLocal
      /\ \A g \in Handler \ {h} : local'[g] = local[g]
      /\ pc' \in [Handler -> Labels] /\ frame' \in [Handler -> Frame]
      /\ local' \in [Handler -> Local]
  BY <1>1, <1>3, EndType
<1>5. TypeOK'
  BY <1>1, <1>3, <1>4, MarksType DEF TypeOK, Labels, Exists
<1>6. Grows
  BY <1>3 DEF Grows, Routed
<1>7. Backed(t)
  BY <1>2, <1>3 DEF IInv, HandlerOk
<1>8. \A u \in Target : DocOk(u)'
  <2>1. DocOk(t)'
    BY <1>3, <1>6, <1>7, BackedKept DEF DocOk
  <2>2. \A u \in Target \ {t} : opened'[u] = opened[u]
    BY <1>1, <1>3 DEF TypeOK
  <2>3. \A u \in Target \ {t} : DocOk(u)'
    BY <1>3, <1>6, <2>2, DocKept DEF IInv
  <2>4. QED
    BY <2>1, <2>3
<1>9. \A u \in Target : HiresOk(u)'
  BY <1>3, <1>4, HiresKept
<1>10. \A u \in Target : Undisturbed(u)
  BY <1>3 DEF Undisturbed
<1>11. HandlerOnTurn(h)' /\ HandlerOk(h)' /\ KindOk(h)' /\ Fresh(h)'
  BY <1>4, IdleOk
<1>12. QED
  BY <1>3, <1>4, <1>5, <1>6, <1>8, <1>9, <1>10, <1>11, StepKeeps DEF Alone

\* HR enrols without an approval (createByHr).
LEMMA EnrolByHrKeeps ==
  ASSUME IInv, Marks, NEW h \in Handler, EnrolByHr(h)
  PROVE  IInv'
<1>1. TypeOK
  BY DEF IInv
<1>2. PICK t \in Target : t = frame[h].t
  BY <1>1, Typed
<1>3. /\ pc[h] = "h.insert" /\ End(h)
      /\ UNCHANGED <<inst, actions, kind, terms, ctx, fails, hires, opened>>
      /\ \/ doc[t] = "none" /\ doc' = [doc EXCEPT ![t] = "CONFIRMED"]
            /\ free' = [free EXCEPT ![t] = TRUE]
         \/ UNCHANGED <<doc, free>>
  BY <1>2 DEF EnrolByHr
<1>4. /\ Alone(h) /\ pc'[h] = "idle" /\ local'[h] = NoLocal
      /\ \A g \in Handler \ {h} : local'[g] = local[g]
      /\ pc' \in [Handler -> Labels] /\ frame' \in [Handler -> Frame]
      /\ local' \in [Handler -> Local]
  BY <1>1, <1>3, EndType
<1>5. /\ doc' \in [Target -> DocStatus] /\ free' \in [Target -> BOOLEAN]
      /\ \A u \in Target : Exists(u)' => doc'[u] \in Statuses[kind'[u]]
      /\ \A u \in Target \ {t} : doc'[u] = doc[u]
      /\ \A u \in Target : free[u] => free'[u]
      /\ doc'[t] = doc[t] \/ (doc[t] = "none" /\ doc'[t] = "CONFIRMED" /\ free'[t])
  <2>1. CASE UNCHANGED <<doc, free>>
    BY <1>1, <1>3, <2>1 DEF TypeOK, Exists
  <2>2. CASE doc[t] = "none" /\ doc' = [doc EXCEPT ![t] = "CONFIRMED"]
             /\ free' = [free EXCEPT ![t] = TRUE]
    <3>1. kind[t] = "enrolment" /\ "CONFIRMED" \in Statuses["enrolment"] /\ "enrolment" \in Kind
      BY <1>2, <1>3, StatusSets DEF IInv, KindOk, Kind
    <3>2. "CONFIRMED" \in DocStatus
      BY <3>1, StatusIn
    <3>3. /\ doc' \in [Target -> DocStatus] /\ doc'[t] = "CONFIRMED"
          /\ \A u \in Target \ {t} : doc'[u] = doc[u]
      BY <1>1, <2>2, <3>2 DEF TypeOK
    <3>4. \A u \in Target : Exists(u)' => doc'[u] \in Statuses[kind'[u]]
      BY <1>1, <1>3, <3>1, <3>3 DEF TypeOK, Exists
    <3>5. free' \in [Target -> BOOLEAN] /\ free'[t] /\ \A u \in Target : free[u] => free'[u]
      BY <1>1, <2>2 DEF TypeOK
    <3>6. QED
      BY <2>2, <3>3, <3>4, <3>5
  <2>3. QED
    BY <1>3, <2>1, <2>2
<1>6. TypeOK'
  BY <1>1, <1>3, <1>4, <1>5, MarksType DEF TypeOK, Labels
<1>7. Grows
  BY <1>3 DEF Grows, Routed
<1>8. doc'[t] = doc[t] \/ Backed(t)'
  BY <1>5 DEF Backed
<1>9. HandlerOnTurn(h)' /\ HandlerOk(h)' /\ KindOk(h)' /\ Fresh(h)'
  BY <1>4, IdleOk
<1>10. \A u \in Target : DocOk(u)'
  <2>1. \A u \in Target \ {t} : DocOk(u)'
    BY <1>3, <1>5, <1>7, DocKept DEF IInv
  <2>2. DocOk(t)'
    BY <1>3, <1>5, <1>7, <1>8, BackedKept DEF IInv, DocOk
  <2>3. QED
    BY <2>1, <2>2
<1>11. \A u \in Target : HiresOk(u)'
  BY <1>3, <1>4, <1>5, HiresKept
<1>12. \A u \in Target : Undisturbed(u)
  BY <1>5 DEF Undisturbed
<1>13. QED
  BY <1>3, <1>4, <1>5, <1>6, <1>7, <1>9, <1>10, <1>11, <1>12, StepKeeps DEF Alone

-----------------------------------------------------------------------------
(* Handlers that go on. *)

\* accept, after it has created the employee.
LEMMA AcceptHireKeeps ==
  ASSUME IInv, Marks, NEW h \in Handler, AcceptHire(h)
  PROVE  IInv'
<1>1. TypeOK
  BY DEF IInv
<1>2. PICK t \in Target : t = frame[h].t
  BY <1>1, Typed
<1>3. /\ pc[h] = "a.hire" /\ hires' = [hires EXCEPT ![t] = @ + 1]
      /\ Goto(h, "a.update") /\ UNCHANGED <<frame, local>>
      /\ UNCHANGED <<inst, actions, kind, doc, terms, ctx, free, fails, opened>>
  BY <1>2 DEF AcceptHire, Continue
<1>4. "a.update" \in Labels
  BY DEF Labels, DocPc
<1>5. Alone(h) /\ pc'[h] = "a.update" /\ pc' \in [Handler -> Labels] /\ frame' \in [Handler -> Frame]
  BY <1>1, <1>3, <1>4, GotoType
<1>6. hires' \in [Target -> Nat]
  BY <1>1, <1>3 DEF TypeOK
<1>7. TypeOK'
  BY <1>1, <1>3, <1>5, <1>6, MarksType DEF TypeOK, Labels, Exists
<1>8. Grows
  BY <1>3 DEF Grows, Routed
<1>9. HandlerOk(h) /\ KindOk(h) /\ Fresh(h)
  BY DEF IInv
<1>10. HandlerOk(h)'
  <2>1. Backed(t)'
    BY <1>2, <1>3, <1>8, <1>9, BackedKept DEF HandlerOk
  <2>2. QED
    BY <1>2, <1>3, <1>5, <1>9, <2>1 DEF HandlerOk, Backed, Of, FullySigned, Active, Signed
<1>11. HandlerOnTurn(h)' /\ KindOk(h)'
  BY <1>3, <1>5, <1>9 DEF HandlerOnTurn, HandlerOk, KindOk
<1>12. raced[t] => raced'[t]
  BY DEF Marks
<1>13. Fresh(h)'
  BY <1>2, <1>3, <1>5, <1>9, <1>12 DEF Fresh, Writing, HandlerOk
<1>14. \A u \in Target : DocOk(u)'
  BY <1>3, <1>8, DocKept DEF IInv
<1>15. HiresOk(t)'
  <2>1. CASE raced[t]
    BY <1>12, <2>1 DEF HiresOk
  <2>2. CASE ~ raced[t]
    <3>1. doc[t] = "SENT" /\ ~ Shared(t)
      BY <1>2, <1>3, <1>9, <2>2 DEF Fresh, IInv
    <3>2. ~ Accepting(t)
      BY <1>2, <1>3, <3>1 DEF Accepting, Shared
    <3>3. hires[t] = 0
      BY <2>2, <3>1, <3>2 DEF IInv, HiresOk
    <3>4. hires'[t] = 1
      BY <1>1, <1>3, <3>3 DEF TypeOK
    <3>5. Accepting(t)'
      BY <1>2, <1>3, <1>5 DEF Accepting
    <3>6. QED
      BY <3>4, <3>5 DEF HiresOk
  <2>3. QED
    BY <2>1, <2>2
<1>16. ASSUME NEW u \in Target \ {t} PROVE HiresOk(u)'
  <2>1. hires'[u] = hires[u] /\ doc'[u] = doc[u]
    BY <1>1, <1>3 DEF TypeOK
  <2>2. Accepting(u)' <=> Accepting(u)
    BY <1>2, <1>3, <1>5 DEF Accepting, Alone
  <2>3. raced[u] => raced'[u]
    BY DEF Marks
  <2>4. QED
    BY <2>1, <2>2, <2>3 DEF IInv, HiresOk
<1>17. \A u \in Target : Undisturbed(u)
  BY <1>3 DEF Undisturbed
<1>18. QED
  BY <1>3, <1>5, <1>7, <1>8, <1>10, <1>11, <1>13, <1>14, <1>15, <1>16, <1>17, StepKeeps DEF Alone

\* accept, when it marks the offer.
LEMMA AcceptUpdateKeeps ==
  ASSUME IInv, Marks, NEW h \in Handler, AcceptUpdate(h)
  PROVE  IInv'
<1>1. TypeOK
  BY DEF IInv
<1>2. PICK t \in Target : t = frame[h].t
  BY <1>1, Typed
<1>3. /\ pc[h] = "a.update" /\ SetDoc(t, "ACCEPTED") /\ End(h)
      /\ UNCHANGED <<inst, actions, kind, terms, ctx, free, fails, hires, opened>>
  BY <1>2 DEF AcceptUpdate
<1>4. HandlerOk(h) /\ KindOk(h) /\ Fresh(h)
  BY DEF IInv
<1>5. /\ Alone(h) /\ pc'[h] = "idle" /\ local'[h] = NoLocal
      /\ \A g \in Handler \ {h} : local'[g] = local[g]
      /\ pc' \in [Handler -> Labels] /\ frame' \in [Handler -> Frame]
      /\ local' \in [Handler -> Local]
  BY <1>1, <1>3, EndType
<1>6. kind[t] = "offer" /\ "ACCEPTED" \in Statuses["offer"] /\ "offer" \in Kind
  BY <1>2, <1>3, <1>4, StatusSets DEF KindOk, Kind
<1>7. "ACCEPTED" \in DocStatus
  BY <1>6, StatusIn
<1>8. /\ doc' \in [Target -> DocStatus]
      /\ \A u \in Target : Exists(u)' => doc'[u] \in Statuses[kind'[u]]
      /\ doc'[t] = IF Exists(t) THEN "ACCEPTED" ELSE doc[t]
      /\ \A u \in Target \ {t} : doc'[u] = doc[u]
  BY <1>1, <1>3, <1>6, <1>7, SetDocType
<1>9. TypeOK'
  BY <1>1, <1>3, <1>5, <1>8, MarksType DEF TypeOK, Labels
<1>10. Grows
  BY <1>3 DEF Grows, Routed
<1>11. HandlerOnTurn(h)' /\ HandlerOk(h)' /\ KindOk(h)' /\ Fresh(h)'
  BY <1>5, IdleOk
<1>12. \A u \in Target : DocOk(u)'
  <2>1. Backed(t)'
    BY <1>2, <1>3, <1>4, <1>10, BackedKept DEF HandlerOk
  <2>2. \A u \in Target \ {t} : DocOk(u)'
    BY <1>3, <1>8, <1>10, DocKept DEF IInv
  <2>3. QED
    BY <2>1, <2>2 DEF DocOk
<1>13. ASSUME NEW u \in Target PROVE raced[u] => raced'[u]
  BY DEF Marks
<1>14. HiresOk(t)'
  <2>1. CASE raced[t]
    BY <1>13, <2>1 DEF HiresOk
  <2>2. CASE ~ raced[t]
    <3>1. doc[t] = "SENT"
      BY <1>2, <1>3, <1>4, <2>2 DEF Fresh
    <3>2. doc'[t] = "ACCEPTED"
      BY <1>8, <3>1 DEF Exists
    <3>3. hires'[t] = 1
      BY <1>2, <1>3, <2>2 DEF IInv, HiresOk, Accepting
    <3>4. QED
      BY <3>2, <3>3 DEF HiresOk
  <2>3. QED
    BY <2>1, <2>2
<1>15. ASSUME NEW u \in Target \ {t} PROVE HiresOk(u)'
  <2>1. Accepting(u)' <=> Accepting(u)
    BY <1>2, <1>5 DEF Accepting, Alone
  <2>2. QED
    BY <1>3, <1>8, <1>13, <2>1 DEF IInv, HiresOk
<1>16. \A u \in Target : Undisturbed(u)
  BY <1>2, <1>3, <1>5, <1>8 DEF Undisturbed
<1>17. QED
  BY <1>3, <1>5, <1>9, <1>10, <1>11, <1>12, <1>14, <1>15, <1>16, StepKeeps DEF Alone

\* decline and cancel, when they close the approval.
LEMMA CancelApprovalKeeps ==
  ASSUME IInv, Marks, NEW h \in Handler, CancelApproval(h)
  PROVE  IInv'
<1>1. TypeOK /\ EngineTypeOK
  BY Typed DEF IInv
<1>2. PICK t \in Target : t = frame[h].t
  BY <1>1, Typed
<1>3. /\ pc[h] = "c.cancel" /\ CancelByTarget(t) /\ Goto(h, "c.update")
      /\ UNCHANGED <<frame, local>>
      /\ UNCHANGED <<actions, kind, doc, terms, ctx, free, fails, hires, opened>>
  BY <1>2 DEF CancelApproval, Continue
<1>4. "c.update" \in Labels
  BY DEF Labels, DocPc
<1>5. Alone(h) /\ pc'[h] = "c.update" /\ pc' \in [Handler -> Labels] /\ frame' \in [Handler -> Frame]
  BY <1>1, <1>3, <1>4, GotoType
<1>6. /\ Grows /\ inst' \in [Instance -> Row]
      /\ \A i \in Instance : inst'[i].status # "PENDING" \/ inst'[i] = inst[i]
  BY <1>1, <1>3, CancelGrows
<1>7. TypeOK'
  BY <1>1, <1>3, <1>5, <1>6, MarksType DEF TypeOK, Labels, Exists
<1>8. \A i \in Instance : inst'[i] = inst[i] \/ RowOnTurn(i)'
  BY <1>6 DEF RowOnTurn
<1>9. HandlerOk(h) /\ KindOk(h) /\ Fresh(h)
  BY DEF IInv
<1>10. raced[t] => raced'[t]
  BY DEF Marks
<1>11. HandlerOnTurn(h)' /\ HandlerOk(h)' /\ KindOk(h)' /\ Fresh(h)'
  BY <1>2, <1>3, <1>5, <1>9, <1>10 DEF HandlerOnTurn, HandlerOk, KindOk, Fresh, Writing, InEffect
<1>12. QED
  BY <1>3, <1>5, <1>6, <1>7, <1>8, <1>11, QuietStep

\* submitManager, when it has saved the scores.
LEMMA ManagerScoreKeeps ==
  ASSUME IInv, Marks, NEW h \in Handler, ManagerScore(h)
  PROVE  IInv'
<1>1. TypeOK
  BY DEF IInv
<1>2. PICK t \in Target : t = frame[h].t
  BY <1>1, Typed
<1>3. /\ pc[h] = "v.score" /\ terms' = [terms EXCEPT ![t] = local[h].terms]
      /\ Goto(h, "route") /\ UNCHANGED <<frame, local>>
      /\ UNCHANGED <<inst, actions, kind, doc, ctx, free, fails, hires, opened>>
  BY <1>2 DEF ManagerScore, Continue
<1>4. "route" \in Labels
  BY DEF Labels, FlowPc
<1>5. Alone(h) /\ pc'[h] = "route" /\ pc' \in [Handler -> Labels] /\ frame' \in [Handler -> Frame]
  BY <1>1, <1>3, <1>4, GotoType
<1>6. terms' \in [Target -> Terms]
  BY <1>1, <1>3 DEF TypeOK, Local
<1>7. TypeOK'
  BY <1>1, <1>3, <1>5, <1>6, MarksType DEF TypeOK, Labels, Exists
<1>8. Grows
  BY <1>3 DEF Grows, Routed
<1>9. HandlerOk(h) /\ KindOk(h) /\ Fresh(h)
  BY DEF IInv
<1>10. raced[t] => raced'[t]
  BY DEF Marks
<1>11. HandlerOnTurn(h)' /\ HandlerOk(h)' /\ KindOk(h)' /\ Fresh(h)'
  BY <1>2, <1>3, <1>5, <1>9, <1>10 DEF HandlerOnTurn, HandlerOk, KindOk, Fresh, Writing, InEffect
<1>12. QED
  BY <1>3, <1>5, <1>7, <1>8, <1>11, QuietStep

\* register, which the unique index may refuse.
LEMMA RegisterKeeps ==
  ASSUME IInv, Marks, NEW h \in Handler, Register(h)
  PROVE  IInv'
<1>1. TypeOK
  BY DEF IInv
<1>2. PICK t \in Target : t = frame[h].t
  BY <1>1, Typed
<1>3. CASE End(h) /\ Quiet
  <2>1. terms' \in [Target -> Terms] /\ fails' \in Nat
    BY <1>1, <1>3 DEF TypeOK, Quiet
  <2>2. QED
    BY <1>3, <2>1, EndQuietKeeps DEF Register, Quiet
<1>4. CASE Insert(t, "enrolment", "REGISTERED", 0) /\ Continue(h, "route")
  <2>1. /\ pc[h] = "g.insert" /\ Goto(h, "route") /\ UNCHANGED <<frame, local>>
        /\ UNCHANGED <<inst, actions, kind, ctx, free, fails, hires, opened>>
    BY <1>4 DEF Register, Continue, Insert
  <2>2. "enrolment" \in Kind /\ "REGISTERED" \in Statuses["enrolment"] /\ 0 \in Terms
    BY StatusSets, FlowAssumption DEF Kind, Terms
  <2>3. /\ doc' \in [Target -> DocStatus] /\ terms' \in [Target -> Terms]
        /\ \A u \in Target : Exists(u)' => doc'[u] \in Statuses[kind'[u]]
        /\ doc[t] = "none" /\ doc'[t] = "REGISTERED" /\ \A u \in Target \ {t} : doc'[u] = doc[u]
    BY <1>1, <1>4, <2>2, InsertType
  <2>4. "route" \in Labels
    BY DEF Labels, FlowPc
  <2>5. Alone(h) /\ pc'[h] = "route" /\ pc' \in [Handler -> Labels] /\ frame' \in [Handler -> Frame]
    BY <1>1, <2>1, <2>4, GotoType
  <2>6. TypeOK'
    BY <1>1, <2>1, <2>3, <2>5, MarksType DEF TypeOK, Labels
  <2>7. Grows
    BY <2>1 DEF Grows, Routed
  <2>8. HandlerOk(h)
    BY DEF IInv
  <2>9. HandlerOnTurn(h)' /\ HandlerOk(h)' /\ KindOk(h)' /\ Fresh(h)'
    BY <1>2, <2>1, <2>3, <2>5, <2>8 DEF HandlerOnTurn, HandlerOk, KindOk, Fresh, Writing, InEffect
  <2>10. QED
    BY <1>2, <2>1, <2>3, <2>5, <2>6, <2>7, <2>9, WriteStep DEF InEffect
<1>5. QED
  BY <1>2, <1>3, <1>4 DEF Register

-----------------------------------------------------------------------------
(* createInstance. *)

\* The statuses a service may pass for what createInstance returns.
Passes(k, pending, approved) ==
  /\ k \in Kind
  /\ pending = "none" \/ pending \in Statuses[k] \ (InEffect \cup {"ACCEPTED"})
  /\ approved = "none" \/ approved \in Statuses[k] \ {"ACCEPTED"}

\* What a handler that is about to ask carries.
LEMMA AtRoute ==
  ASSUME IInv, NEW h \in Handler, pc[h] = "route"
  PROVE  /\ local[h] \in Local /\ local[h].next = "none" /\ local[h].apply = "none"
         /\ raced[frame[h].t] \/ doc[frame[h].t] # "ACCEPTED"
<1>1. HandlerOk(h) /\ Fresh(h) /\ local[h] \in Local
  BY DEF IInv, TypeOK
<1>2. QED
  BY <1>1 DEF HandlerOk, Fresh, Writing

\* A local whose next is set.
LEMMA NextSet ==
  ASSUME local \in [Handler -> Local], NEW h \in Handler, NEW s \in DocStatus,
         local' = [local EXCEPT ![h].next = s]
  PROVE  /\ local' \in [Handler -> Local] /\ local'[h].next = s
         /\ local'[h].apply = local[h].apply
         /\ \A g \in Handler \ {h} : local'[g] = local[g]
<1>1. PICK w : w = [local[h] EXCEPT !.next = s] /\ local' = [local EXCEPT ![h] = w]
  OBVIOUS
<1>2. w \in Local /\ w.next = s /\ w.apply = local[h].apply
  BY <1>1 DEF Local
<1>3. QED
  BY <1>1, <1>2

\* A local whose apply is set.
LEMMA ApplySet ==
  ASSUME local \in [Handler -> Local], NEW h \in Handler, NEW s \in DocStatus,
         local' = [local EXCEPT ![h].apply = s]
  PROVE  /\ local' \in [Handler -> Local] /\ local'[h].apply = s
         /\ local'[h].next = local[h].next
         /\ \A g \in Handler \ {h} : local'[g] = local[g]
<1>1. PICK w : w = [local[h] EXCEPT !.apply = s] /\ local' = [local EXCEPT ![h] = w]
  OBVIOUS
<1>2. w \in Local /\ w.apply = s /\ w.next = local[h].next
  BY <1>1 DEF Local
<1>3. QED
  BY <1>1, <1>2

\* A status a service may pass is a status.
LEMMA PassesType ==
  ASSUME NEW k \in Kind, NEW s, s = "none" \/ s \in Statuses[k]
  PROVE  s \in DocStatus
BY StatusIn DEF DocStatus

\* createInstance has inserted a row: what is left is where the handler goes.
LEMMA RouteStep ==
  ASSUME IInv, Marks, NEW h \in Handler, pc[h] = "route",
         NEW i \in Instance, NEW resolved \in [Step -> Resolution],
         CreatePending(i, frame[h].t, resolved) \/ CreateApproved(i, frame[h].t, resolved),
         ctx' = [ctx EXCEPT ![i] = local[h].terms],
         UNCHANGED <<actions, kind, doc, terms, free, hires, opened>>, fails' \in Nat,
         Alone(h), \A g \in Handler \ {h} : local'[g] = local[g],
         pc' \in [Handler -> Labels], frame' \in [Handler -> Frame], local' \in [Handler -> Local],
         pc'[h] # "a.update",
         HandlerOnTurn(h)', HandlerOk(h)', KindOk(h)', Fresh(h)'
  PROVE  IInv'
<1>1. TypeOK /\ EngineTypeOK /\ frame[h].t \in Target /\ local[h].terms \in Terms
  BY Typed DEF IInv, Local
<1>2. /\ Grows /\ inst' \in [Instance -> Row]
      /\ \A j \in Instance \ {i} : inst'[j] = inst[j]
      /\ RowOnTurn(i)'
  BY <1>1, CreateGrows
<1>3. ctx' \in [Instance -> Terms]
  BY <1>1 DEF TypeOK
<1>4. TypeOK'
  BY <1>1, <1>2, <1>3, MarksType DEF TypeOK, Labels, Exists
<1>5. QED
  BY <1>2, <1>4, QuietStep

\* createInstance leaves the row PENDING.
LEMMA RoutePendingKeeps ==
  ASSUME IInv, Marks, NEW h \in Handler, pc[h] = "route",
         NEW k, NEW pending, NEW approved, Passes(k, pending, approved), kind[frame[h].t] = k,
         NEW i \in Instance, NEW resolved \in [Step -> Resolution],
         CreatePending(i, frame[h].t, resolved),
         ctx' = [ctx EXCEPT ![i] = local[h].terms],
         UNCHANGED <<actions, kind, doc, terms, free, fails, hires, opened>>,
         IF pending = "none" THEN End(h)
         ELSE /\ local' = [local EXCEPT ![h].next = pending]
              /\ Goto(h, "status") /\ UNCHANGED frame
  PROVE  IInv'
<1>1. TypeOK /\ fails' \in Nat /\ local \in [Handler -> Local]
  BY DEF IInv, TypeOK
<1>2. CASE pending = "none"
  <2>1. End(h)
    BY <1>2
  <2>2. /\ Alone(h) /\ pc'[h] = "idle" /\ local'[h] = NoLocal
        /\ \A g \in Handler \ {h} : local'[g] = local[g]
        /\ pc' \in [Handler -> Labels] /\ frame' \in [Handler -> Frame]
        /\ local' \in [Handler -> Local]
    BY <1>1, <2>1, EndType
  <2>3. HandlerOnTurn(h)' /\ HandlerOk(h)' /\ KindOk(h)' /\ Fresh(h)'
    BY <2>2, IdleOk
  <2>4. QED
    BY <1>1, <2>2, <2>3, RouteStep
<1>3. CASE pending # "none"
  <2>1. local' = [local EXCEPT ![h].next = pending] /\ Goto(h, "status") /\ frame' = frame
    BY <1>3
  <2>2. pending \in DocStatus /\ pending \notin InEffect
        /\ pending \in Statuses[kind[frame[h].t]] \ {"ACCEPTED"}
    BY <1>3, PassesType DEF Passes
  <2>3. "status" \in Labels
    BY DEF Labels, FlowPc
  <2>4. Alone(h) /\ pc'[h] = "status" /\ pc' \in [Handler -> Labels] /\ frame' \in [Handler -> Frame]
    BY <1>1, <2>1, <2>3, GotoType
  <2>5. /\ local' \in [Handler -> Local] /\ local'[h].next = pending
        /\ local'[h].apply = local[h].apply
        /\ \A g \in Handler \ {h} : local'[g] = local[g]
    BY <1>1, <2>1, <2>2, NextSet
  <2>6. /\ local[h].apply = "none" /\ (raced[frame[h].t] \/ doc[frame[h].t] # "ACCEPTED")
        /\ (raced[frame[h].t] => raced'[frame[h].t])
    BY <1>1, AtRoute, Typed DEF Marks
  <2>7. HandlerOnTurn(h)' /\ HandlerOk(h)' /\ KindOk(h)' /\ Fresh(h)'
    BY <1>3, <2>1, <2>2, <2>4, <2>5, <2>6
       DEF HandlerOnTurn, HandlerOk, KindOk, Fresh, Writing, InEffect
  <2>8. QED
    BY <1>1, <2>4, <2>5, <2>7, RouteStep
<1>4. QED
  BY <1>2, <1>3

\* createInstance finds that nobody need sign, and announces the approval.
LEMMA RouteApprovedKeeps ==
  ASSUME IInv, Marks, NEW h \in Handler, pc[h] = "route",
         NEW k, NEW pending, NEW approved, Passes(k, pending, approved), kind[frame[h].t] = k,
         NEW i \in Instance, NEW resolved \in [Step -> Resolution],
         CreateApproved(i, frame[h].t, resolved),
         ctx' = [ctx EXCEPT ![i] = local[h].terms],
         UNCHANGED <<actions, kind, doc, terms, free, fails, hires, opened>>,
         local' = [local EXCEPT ![h].next = approved],
         Announce(h, i, frame[h].t, "APPROVED")
  PROVE  IInv'
<1>1. TypeOK /\ EngineTypeOK /\ fails' \in Nat /\ local \in [Handler -> Local]
  BY Typed DEF IInv, TypeOK
<1>2. PICK t \in Target : t = frame[h].t
  BY <1>1, Typed
<1>3. approved \in DocStatus
  BY PassesType DEF Passes
<1>4. pc \in [Handler -> Labels] /\ frame \in [Handler -> Frame] /\ "emit" \in Labels
  BY <1>1, Typed DEF TypeOK, EnginePc
<1>5. /\ Alone(h) /\ pc'[h] = "emit"
      /\ frame'[h].i = i /\ frame'[h].t = t /\ frame'[h].outcome = "APPROVED"
      /\ pc' \in [Handler -> Labels] /\ frame' \in [Handler -> Frame]
  BY <1>2, <1>4, AnnounceAlone
<1>6. /\ local' \in [Handler -> Local] /\ local'[h].next = approved
      /\ local'[h].apply = local[h].apply
      /\ \A g \in Handler \ {h} : local'[g] = local[g]
  BY <1>1, <1>3, NextSet
<1>7. /\ local[h].apply = "none" /\ (raced[t] \/ doc[t] # "ACCEPTED") /\ (raced[t] => raced'[t])
  BY <1>2, AtRoute DEF Marks
<1>8. Routed(i)' /\ inst'[i].target = t /\ FullySigned(i)'
  BY <1>1, <1>2, CreateGrows
<1>9. Backed(t)'
  BY <1>8 DEF Backed, Of, Routed, FullySigned, Active, Signed
<1>10. HandlerOnTurn(h)'
  BY <1>5, <1>8 DEF HandlerOnTurn, Decided, Carries, FullySigned, Active, Signed, Routed
<1>11. HandlerOk(h)'
  BY <1>5, <1>6, <1>7, <1>9 DEF HandlerOk, InEffect, Backed, Of, FullySigned, Active, Signed
<1>12. KindOk(h)' /\ Fresh(h)'
  BY <1>2, <1>5, <1>6, <1>7 DEF KindOk, Fresh, Writing, Passes
<1>13. QED
  BY <1>1, <1>5, <1>6, <1>10, <1>11, <1>12, RouteStep

\* What each service does with what createInstance returns.
LEMMA RouteKeeps ==
  ASSUME IInv, Marks, NEW h \in Handler, UNCHANGED <<hires, opened>>,
         RouteOffer(h) \/ RouteManpower(h) \/ RouteEnrolment(h) \/ RouteReview(h)
  PROVE  IInv'
<1>1. ASSUME NEW k, NEW pending, NEW approved, Passes(k, pending, approved),
             Route(h, k, pending, approved)
      PROVE  IInv'
  <2>1. pc[h] = "route" /\ kind[frame[h].t] = k
        /\ UNCHANGED <<actions, kind, doc, terms, free, fails>>
    BY <1>1 DEF Route
  <2>2. PICK i \in Instance, resolved \in [Step -> Resolution] :
          /\ ctx' = [ctx EXCEPT ![i] = local[h].terms]
          /\ \/ /\ CreatePending(i, frame[h].t, resolved)
                /\ IF pending = "none"
                   THEN End(h)
                   ELSE /\ local' = [local EXCEPT ![h].next = pending]
                        /\ Goto(h, "status") /\ UNCHANGED frame
             \/ /\ CreateApproved(i, frame[h].t, resolved)
                /\ local' = [local EXCEPT ![h].next = approved]
                /\ Announce(h, i, frame[h].t, "APPROVED")
    BY <1>1 DEF Route
  <2>3. CASE CreatePending(i, frame[h].t, resolved)
             /\ IF pending = "none"
                THEN End(h)
                ELSE /\ local' = [local EXCEPT ![h].next = pending]
                     /\ Goto(h, "status") /\ UNCHANGED frame
    BY <1>1, <2>1, <2>2, <2>3, RoutePendingKeeps
  <2>4. CASE CreateApproved(i, frame[h].t, resolved)
             /\ local' = [local EXCEPT ![h].next = approved]
             /\ Announce(h, i, frame[h].t, "APPROVED")
    BY <1>1, <2>1, <2>2, <2>4, RouteApprovedKeeps
  <2>5. QED
    BY <2>2, <2>3, <2>4
<1>2. /\ Passes("offer", "PENDING_APPROVAL", "PENDING_APPROVAL")
      /\ Passes("manpower", "none", "none")
      /\ Passes("enrolment", "REGISTERED", "CONFIRMED")
      /\ Passes("review", "CALIBRATION", "DONE")
  BY StatusSets DEF Passes, Kind, InEffect
<1>3. QED
  BY <1>1, <1>2 DEF RouteOffer, RouteManpower, RouteEnrolment, RouteReview

\* A service goes on, or gives up, when createInstance throws.
LEMMA ThrownType ==
  ASSUME IInv, Marks, NEW h \in Handler, pc[h] = "route", Thrown(h), UNCHANGED <<kind, doc>>
  PROVE  /\ Alone(h) /\ \A g \in Handler \ {h} : local'[g] = local[g]
         /\ pc' \in [Handler -> Labels] /\ frame' \in [Handler -> Frame]
         /\ local' \in [Handler -> Local]
         /\ pc'[h] # "a.update"
         /\ HandlerOnTurn(h)' /\ HandlerOk(h)' /\ KindOk(h)' /\ Fresh(h)'
<1>1. TypeOK /\ local \in [Handler -> Local] /\ frame[h].t \in Target
  BY Typed DEF IInv, TypeOK
<1>2. CASE End(h)
  <2>1. /\ Alone(h) /\ pc'[h] = "idle" /\ local'[h] = NoLocal
        /\ \A g \in Handler \ {h} : local'[g] = local[g]
        /\ pc' \in [Handler -> Labels] /\ frame' \in [Handler -> Frame]
        /\ local' \in [Handler -> Local]
    BY <1>1, <1>2, EndType
  <2>2. HandlerOnTurn(h)' /\ HandlerOk(h)' /\ KindOk(h)' /\ Fresh(h)'
    BY <2>1, IdleOk
  <2>3. QED
    BY <2>1, <2>2
<1>3. CASE Continue(h, "delete")
  <2>1. Goto(h, "delete") /\ UNCHANGED <<frame, local>>
    BY <1>3 DEF Continue
  <2>2. "delete" \in Labels
    BY DEF Labels, FlowPc
  <2>3. Alone(h) /\ pc'[h] = "delete" /\ pc' \in [Handler -> Labels] /\ frame' \in [Handler -> Frame]
    BY <1>1, <2>1, <2>2, GotoType
  <2>4. /\ local[h].next = "none" /\ local[h].apply = "none"
        /\ (raced[frame[h].t] \/ doc[frame[h].t] # "ACCEPTED")
        /\ (raced[frame[h].t] => raced'[frame[h].t])
    BY <1>1, AtRoute DEF Marks
  <2>5. HandlerOnTurn(h)' /\ HandlerOk(h)' /\ KindOk(h)' /\ Fresh(h)'
    BY <2>1, <2>3, <2>4 DEF HandlerOnTurn, HandlerOk, KindOk, Fresh, Writing, InEffect
  <2>6. QED
    BY <1>1, <2>1, <2>3, <2>5
<1>4. QED
  BY <1>2, <1>3 DEF Thrown

\* APPROVAL_ALREADY_PENDING, and a failure after the row is in.
LEMMA RouteThrownKeeps ==
  ASSUME IInv, Marks, NEW h \in Handler, UNCHANGED <<hires, opened>>,
         RouteRefused(h) \/ RouteBreaks(h)
  PROVE  IInv'
<1>1. TypeOK /\ fails \in Nat
  BY DEF IInv, TypeOK
<1>2. CASE RouteRefused(h)
  <2>1. pc[h] = "route" /\ Thrown(h) /\ UNCHANGED <<inst, actions, kind, doc, terms, ctx, free, fails>>
    BY <1>2 DEF RouteRefused
  <2>2. /\ Alone(h) /\ \A g \in Handler \ {h} : local'[g] = local[g]
        /\ pc' \in [Handler -> Labels] /\ frame' \in [Handler -> Frame]
        /\ local' \in [Handler -> Local]
        /\ pc'[h] # "a.update"
        /\ HandlerOnTurn(h)' /\ HandlerOk(h)' /\ KindOk(h)' /\ Fresh(h)'
    BY <2>1, ThrownType
  <2>3. TypeOK'
    BY <1>1, <2>1, <2>2, MarksType DEF TypeOK, Labels, Exists
  <2>4. Grows
    BY <2>1 DEF Grows, Routed
  <2>5. QED
    BY <2>1, <2>2, <2>3, <2>4, QuietStep
<1>3. CASE RouteBreaks(h)
  <2>1. /\ pc[h] = "route" /\ Thrown(h) /\ fails' = fails + 1
        /\ UNCHANGED <<actions, kind, doc, terms, free>>
    BY <1>3 DEF RouteBreaks
  <2>2. PICK i \in Instance, resolved \in [Step -> Resolution] :
          CreatePending(i, frame[h].t, resolved) /\ ctx' = [ctx EXCEPT ![i] = local[h].terms]
    BY <1>3 DEF RouteBreaks
  <2>3. /\ Alone(h) /\ \A g \in Handler \ {h} : local'[g] = local[g]
        /\ pc' \in [Handler -> Labels] /\ frame' \in [Handler -> Frame]
        /\ local' \in [Handler -> Local]
        /\ pc'[h] # "a.update"
        /\ HandlerOnTurn(h)' /\ HandlerOk(h)' /\ KindOk(h)' /\ Fresh(h)'
    BY <2>1, ThrownType
  <2>4. fails' \in Nat
    BY <1>1, <2>1
  <2>5. QED
    BY <2>1, <2>2, <2>3, <2>4, RouteStep
<1>4. QED
  BY <1>2, <1>3

\* APPROVAL_NO_FLOW.
LEMMA RouteNoFlowKeeps ==
  ASSUME IInv, Marks, NEW h \in Handler, UNCHANGED <<hires, opened>>, RouteNoFlow(h)
  PROVE  IInv'
<1>1. TypeOK /\ local \in [Handler -> Local] /\ free \in [Target -> BOOLEAN]
  BY DEF IInv, TypeOK
<1>2. PICK t \in Target : t = frame[h].t
  BY <1>1, Typed
<1>3. pc[h] = "route" /\ UNCHANGED <<inst, actions, kind, doc, terms, ctx, fails>>
  BY DEF RouteNoFlow
<1>4. Grows
  BY <1>3 DEF Grows, Routed
<1>5. CASE Thrown(h) /\ free' = free
  <2>1. /\ Alone(h) /\ \A g \in Handler \ {h} : local'[g] = local[g]
        /\ pc' \in [Handler -> Labels] /\ frame' \in [Handler -> Frame]
        /\ local' \in [Handler -> Local]
        /\ pc'[h] # "a.update"
        /\ HandlerOnTurn(h)' /\ HandlerOk(h)' /\ KindOk(h)' /\ Fresh(h)'
    BY <1>3, <1>5, ThrownType
  <2>2. TypeOK'
    BY <1>1, <1>3, <1>5, <2>1, MarksType DEF TypeOK, Labels, Exists
  <2>3. QED
    BY <1>3, <1>4, <1>5, <2>1, <2>2, QuietStep
<1>6. ASSUME NEW s,
             \/ kind[t] = "enrolment" /\ s = "CONFIRMED"
             \/ kind[t] = "review" /\ s = "DONE",
             local' = [local EXCEPT ![h].next = s], free' = [free EXCEPT ![t] = TRUE],
             Goto(h, "status"), frame' = frame
      PROVE  IInv'
  <2>1. s \in Statuses[kind[t]] /\ kind[t] \in Kind /\ s # "none" /\ s # "ACCEPTED"
    BY <1>6, StatusSets DEF Kind
  <2>2. s \in DocStatus
    BY <2>1, StatusIn
  <2>3. "status" \in Labels
    BY DEF Labels, FlowPc
  <2>4. Alone(h) /\ pc'[h] = "status" /\ pc' \in [Handler -> Labels] /\ frame' \in [Handler -> Frame]
    BY <1>1, <1>6, <2>3, GotoType
  <2>5. /\ local' \in [Handler -> Local] /\ local'[h].next = s
        /\ local'[h].apply = local[h].apply
        /\ \A g \in Handler \ {h} : local'[g] = local[g]
    BY <1>1, <1>6, <2>2, NextSet
  <2>6. /\ free' \in [Target -> BOOLEAN] /\ free'[t] /\ \A u \in Target : free[u] => free'[u]
    BY <1>1, <1>6
  <2>7. TypeOK'
    BY <1>1, <1>3, <2>4, <2>5, <2>6, MarksType DEF TypeOK, Labels, Exists
  <2>8. /\ local[h].apply = "none" /\ (raced[t] \/ doc[t] # "ACCEPTED") /\ (raced[t] => raced'[t])
    BY <1>2, <1>3, AtRoute DEF Marks
  <2>9. HandlerOnTurn(h)' /\ KindOk(h)' /\ Fresh(h)'
    BY <1>2, <1>3, <1>6, <2>1, <2>4, <2>5, <2>8 DEF HandlerOnTurn, KindOk, Fresh, Writing
  <2>10. HandlerOk(h)'
    BY <1>2, <1>6, <2>4, <2>5, <2>6, <2>8 DEF HandlerOk, Backed, InEffect
  <2>11. QED
    BY <1>3, <1>4, <2>4, <2>5, <2>6, <2>7, <2>9, <2>10, QuietStep
<1>7. CASE kind[t] = "enrolment"
  <2>1. /\ local' = [local EXCEPT ![h].next = "CONFIRMED"]
        /\ free' = [free EXCEPT ![t] = TRUE] /\ Goto(h, "status") /\ frame' = frame
    BY <1>2, <1>7 DEF RouteNoFlow
  <2>2. QED
    BY <1>6, <1>7, <2>1
<1>8. CASE kind[t] = "review"
  <2>1. /\ local' = [local EXCEPT ![h].next = "DONE"]
        /\ free' = [free EXCEPT ![t] = TRUE] /\ Goto(h, "status") /\ frame' = frame
    BY <1>2, <1>8 DEF RouteNoFlow
  <2>2. QED
    BY <1>6, <1>8, <2>1
<1>9. CASE kind[t] \notin {"enrolment", "review"}
  <2>1. Thrown(h) /\ free' = free
    BY <1>2, <1>9 DEF RouteNoFlow
  <2>2. QED
    BY <1>5, <2>1
<1>10. QED
  BY <1>7, <1>8, <1>9

-----------------------------------------------------------------------------
(* The listeners. *)

\* Where a listener returns to.
LEMMA ListenedType ==
  ASSUME IInv, Marks, Grows, NEW h \in Handler, pc[h] \in {"emit", "l.update"}, Listened(h),
         kind' = kind, \A t \in Target : free[t] => free'[t],
         raced[frame[h].t] \/ local[h].next = "none" \/ doc'[frame[h].t] # "ACCEPTED"
  PROVE  /\ Alone(h) /\ \A g \in Handler \ {h} : local'[g] = local[g]
         /\ pc' \in [Handler -> Labels] /\ frame' \in [Handler -> Frame]
         /\ local' \in [Handler -> Local]
         /\ pc'[h] \in {"idle", "status"}
         /\ HandlerOnTurn(h)' /\ HandlerOk(h)' /\ KindOk(h)' /\ Fresh(h)'
<1>1. TypeOK /\ local \in [Handler -> Local]
  BY DEF IInv, TypeOK
<1>2. PICK t \in Target : t = frame[h].t
  BY <1>1, Typed
<1>3. CASE local[h].next = "none"
  <2>1. End(h)
    BY <1>3 DEF Listened
  <2>2. /\ Alone(h) /\ pc'[h] = "idle" /\ local'[h] = NoLocal
        /\ \A g \in Handler \ {h} : local'[g] = local[g]
        /\ pc' \in [Handler -> Labels] /\ frame' \in [Handler -> Frame]
        /\ local' \in [Handler -> Local]
    BY <1>1, <2>1, EndType
  <2>3. HandlerOnTurn(h)' /\ HandlerOk(h)' /\ KindOk(h)' /\ Fresh(h)'
    BY <2>2, IdleOk
  <2>4. QED
    BY <2>2, <2>3
<1>4. CASE local[h].next # "none"
  <2>1. local' = [local EXCEPT ![h].apply = "none"] /\ Goto(h, "status") /\ frame' = frame
    BY <1>4 DEF Listened
  <2>2. "status" \in Labels /\ "none" \in DocStatus
    BY DEF Labels, FlowPc, DocStatus
  <2>3. Alone(h) /\ pc'[h] = "status" /\ pc' \in [Handler -> Labels] /\ frame' \in [Handler -> Frame]
    BY <1>1, <2>1, <2>2, GotoType
  <2>4. /\ local' \in [Handler -> Local] /\ local'[h].apply = "none"
        /\ local'[h].next = local[h].next
        /\ \A g \in Handler \ {h} : local'[g] = local[g]
    BY <1>1, <2>1, <2>2, ApplySet
  <2>5. HandlerOk(h) /\ KindOk(h)
    BY DEF IInv
  <2>6. local[h].next \in InEffect => Backed(t)'
    BY <1>2, <2>5, BackedKept DEF HandlerOk
  <2>7. HandlerOk(h)'
    BY <1>2, <2>1, <2>3, <2>4, <2>6 DEF HandlerOk, InEffect, Backed, Of, FullySigned, Active, Signed
  <2>8. raced[t] => raced'[t]
    BY DEF Marks
  <2>9. HandlerOnTurn(h)' /\ KindOk(h)' /\ Fresh(h)'
    BY <1>2, <1>4, <2>1, <2>3, <2>4, <2>5, <2>8 DEF HandlerOnTurn, KindOk, Fresh, Writing
  <2>10. QED
    BY <2>3, <2>4, <2>7, <2>9
<1>5. QED
  BY <1>3, <1>4

\* A listener finds the document waiting, and holds the status the decision asks for.
LEMMA ListenHeldKeeps ==
  ASSUME IInv, Marks, NEW h \in Handler, pc[h] = "emit", NEW k \in Kind, kind[frame[h].t] = k,
         NEW granted \in Statuses[k] \ {"ACCEPTED"},
         NEW refused \in Statuses[k] \ ({"ACCEPTED"} \cup InEffect),
         doc[frame[h].t] # "ACCEPTED",
         local' = [local EXCEPT ![h].apply =
                     IF frame[h].outcome = "APPROVED" THEN granted ELSE refused],
         Goto(h, "l.update"), UNCHANGED frame,
         UNCHANGED <<inst, actions, kind, doc, terms, ctx, free, fails, hires, opened>>
  PROVE  IInv'
<1>1. TypeOK /\ EngineTypeOK /\ local \in [Handler -> Local]
  BY Typed DEF IInv, TypeOK
<1>2. PICK t \in Target : t = frame[h].t
  BY <1>1, Typed
<1>3. PICK s : s = IF frame[h].outcome = "APPROVED" THEN granted ELSE refused
  OBVIOUS
<1>4. /\ s \in Statuses[k] \ {"ACCEPTED"} /\ s # "none" /\ s \in DocStatus
      /\ s \in InEffect => frame[h].outcome = "APPROVED"
  BY <1>3, StatusIn
<1>5. "l.update" \in Labels
  BY DEF Labels, FlowPc
<1>6. Alone(h) /\ pc'[h] = "l.update" /\ pc' \in [Handler -> Labels] /\ frame' \in [Handler -> Frame]
  BY <1>1, <1>5, GotoType
<1>7. /\ local' \in [Handler -> Local] /\ local'[h].apply = s
      /\ local'[h].next = local[h].next
      /\ \A g \in Handler \ {h} : local'[g] = local[g]
  <2>1. local' = [local EXCEPT ![h].apply = s]
    BY <1>3
  <2>2. QED
    BY <1>1, <1>4, <2>1, ApplySet
<1>8. TypeOK'
  BY <1>1, <1>6, <1>7, MarksType DEF TypeOK, Labels, Exists
<1>9. Grows
  BY DEF Grows, Routed
<1>10. HandlerOk(h) /\ KindOk(h) /\ HandlerOnTurn(h)
  BY DEF IInv, EngineInv
<1>11. s \in InEffect => Backed(t)
  BY <1>1, <1>2, <1>4, <1>10, DecidedBacks DEF HandlerOnTurn
<1>12. (s \in InEffect => Backed(t)') /\ (local[h].next \in InEffect => Backed(t)')
  BY <1>2, <1>9, <1>10, <1>11, BackedKept DEF HandlerOk
<1>13. HandlerOk(h)'
  BY <1>2, <1>6, <1>7, <1>12 DEF HandlerOk, Backed, Of, FullySigned, Active, Signed
<1>14. HandlerOnTurn(h)' /\ KindOk(h)' /\ Fresh(h)'
  BY <1>2, <1>4, <1>6, <1>7, <1>10 DEF HandlerOnTurn, KindOk, Fresh, Writing
<1>15. QED
  BY <1>6, <1>7, <1>8, <1>9, <1>13, <1>14, QuietStep

\* A listener finds the document waiting no more.
LEMMA ListenSkipsKeeps ==
  ASSUME IInv, Marks, NEW h \in Handler, pc[h] = "emit", Listened(h),
         UNCHANGED <<inst, actions, kind, doc, terms, ctx, free, fails, hires, opened>>
  PROVE  IInv'
<1>1. Grows
  BY DEF Grows, Routed
<1>2. Fresh(h)
  BY DEF IInv
<1>3. /\ Alone(h) /\ \A g \in Handler \ {h} : local'[g] = local[g]
      /\ pc' \in [Handler -> Labels] /\ frame' \in [Handler -> Frame]
      /\ local' \in [Handler -> Local]
      /\ pc'[h] \in {"idle", "status"}
      /\ HandlerOnTurn(h)' /\ HandlerOk(h)' /\ KindOk(h)' /\ Fresh(h)'
  BY <1>1, <1>2, ListenedType DEF Fresh
<1>4. TypeOK'
  BY <1>3, MarksType DEF IInv, TypeOK, Labels, Exists
<1>5. QED
  BY <1>1, <1>3, <1>4, QuietStep

\* The four listeners.
LEMMA ListenKeeps ==
  ASSUME IInv, Marks, NEW h \in Handler, UNCHANGED <<hires, opened>>,
         ListenOffer(h) \/ ListenManpower(h) \/ ListenEnrolment(h) \/ ListenReview(h)
  PROVE  IInv'
<1>1. ASSUME NEW k \in Kind, NEW waits, waits # "ACCEPTED",
             NEW granted \in Statuses[k] \ {"ACCEPTED"},
             NEW refused \in Statuses[k] \ ({"ACCEPTED"} \cup InEffect),
             Listen(h, k, waits, granted, refused)
      PROVE  IInv'
  <2>1. /\ pc[h] = "emit" /\ kind[frame[h].t] = k
        /\ UNCHANGED <<inst, actions, kind, doc, terms, ctx, free, fails>>
    BY <1>1 DEF Listen
  <2>2. CASE doc[frame[h].t] = waits
    <3>1. /\ local' = [local EXCEPT ![h].apply =
                         IF frame[h].outcome = "APPROVED" THEN granted ELSE refused]
          /\ Goto(h, "l.update") /\ UNCHANGED frame
      BY <1>1, <2>2 DEF Listen
    <3>2. QED
      BY <1>1, <2>1, <2>2, <3>1, ListenHeldKeeps
  <2>3. CASE doc[frame[h].t] # waits
    BY <1>1, <2>1, <2>3, ListenSkipsKeeps DEF Listen
  <2>4. QED
    BY <2>2, <2>3
<1> USE StatusSets DEF Kind, InEffect
<1>2. CASE ListenOffer(h)
  BY <1>1, <1>2 DEF ListenOffer
<1>3. CASE ListenManpower(h)
  BY <1>1, <1>3 DEF ListenManpower
<1>4. CASE ListenEnrolment(h)
  BY <1>1, <1>4 DEF ListenEnrolment
<1>5. CASE ListenReview(h)
  BY <1>1, <1>5 DEF ListenReview
<1>6. QED
  BY <1>2, <1>3, <1>4, <1>5

\* A listener writes the outcome.
LEMMA ListenUpdateKeeps ==
  ASSUME IInv, Marks, NEW h \in Handler, UNCHANGED <<hires, opened>>, ListenUpdate(h)
  PROVE  IInv'
<1>1. TypeOK
  BY DEF IInv
<1>2. PICK t \in Target : t = frame[h].t
  BY <1>1, Typed
<1>3. PICK s : s = local[h].apply
  OBVIOUS
<1>4. /\ pc[h] = "l.update" /\ SetDoc(t, s) /\ Listened(h)
      /\ UNCHANGED <<inst, actions, kind, terms, ctx, free, fails>>
  BY <1>2, <1>3 DEF ListenUpdate
<1>5. HandlerOk(h) /\ KindOk(h) /\ Fresh(h) /\ s \in DocStatus
  BY <1>1, <1>3 DEF IInv, TypeOK, Local
<1>6. s \in Statuses[kind[t]] /\ s # "ACCEPTED" /\ (s \in InEffect => Backed(t))
  BY <1>2, <1>3, <1>4, <1>5 DEF KindOk, HandlerOk
<1>7. /\ doc' \in [Target -> DocStatus]
      /\ \A u \in Target : Exists(u)' => doc'[u] \in Statuses[kind'[u]]
      /\ doc'[t] = IF Exists(t) THEN s ELSE doc[t]
      /\ \A u \in Target \ {t} : doc'[u] = doc[u]
  BY <1>1, <1>4, <1>5, <1>6, SetDocType
<1>8. Grows
  BY <1>4 DEF Grows, Routed
<1>9. raced[t] \/ doc[t] # "ACCEPTED"
  BY <1>2, <1>4, <1>5 DEF Fresh, Writing
<1>10. /\ Alone(h) /\ \A g \in Handler \ {h} : local'[g] = local[g]
       /\ pc' \in [Handler -> Labels] /\ frame' \in [Handler -> Frame]
       /\ local' \in [Handler -> Local]
       /\ pc'[h] \in {"idle", "status"}
       /\ HandlerOnTurn(h)' /\ HandlerOk(h)' /\ KindOk(h)' /\ Fresh(h)'
  BY <1>2, <1>4, <1>6, <1>7, <1>8, <1>9, ListenedType
<1>11. TypeOK'
  BY <1>1, <1>4, <1>7, <1>10, MarksType DEF TypeOK, Labels
<1>12. s \in InEffect => Backed(t)'
  BY <1>4, <1>6, <1>8, BackedKept
<1>13. QED
  BY <1>2, <1>4, <1>6, <1>7, <1>8, <1>9, <1>10, <1>11, <1>12, WriteStep

-----------------------------------------------------------------------------
(* The specification. *)

\* The engine's decide.
LEMMA DecideInv ==
  ASSUME IInv, Marks, NEW h \in Handler, Decide(h),
         UNCHANGED <<kind, doc, terms, ctx, local, free, fails, hires, opened>>
  PROVE  IInv'
<1>1. TypeOK /\ EngineTypeOK /\ EngineInv /\ pc \in [Handler -> Labels] /\ EnginePc \subseteq Labels
  BY Typed DEF IInv
<1>2. Decides(h, Labels)
  BY <1>1, DecideKeeps
<1>3. /\ EngineTypeOK' /\ EngineInv' /\ Grows /\ Alone(h)
      /\ pc[h] \in {"idle", "act", "update"} /\ pc'[h] \in EnginePc
      /\ pc' \in [Handler -> Labels]
  BY <1>2 DEF Decides
<1>4. TypeOK'
  BY <1>1, <1>3, MarksType DEF TypeOK, EngineTypeOK, Labels, Exists
<1>5. HandlerOk(h)
  BY DEF IInv
<1>6. local'[h].next = "none" /\ local'[h].apply = "none"
  BY <1>3, <1>5 DEF HandlerOk
<1>7. HandlerOk(h)' /\ KindOk(h)' /\ Fresh(h)'
  BY <1>3, <1>6 DEF HandlerOk, KindOk, Fresh, Writing, InEffect, EnginePc
<1>8. HandlerOnTurn(h)' /\ \A i \in Instance : RowOnTurn(i)'
  BY <1>3 DEF EngineInv
<1>9. QED
  BY <1>3, <1>4, <1>7, <1>8, QuietStep DEF EnginePc

\* A handler is cut short between two writes.
LEMMA FailKeeps ==
  ASSUME IInv, Marks, NEW h \in Handler, Fail(h)
  PROVE  IInv'
<1>1. TypeOK /\ fails \in Nat
  BY DEF IInv, TypeOK
<1>2. /\ pc[h] # "idle" /\ fails' = fails + 1 /\ End(h)
      /\ UNCHANGED <<inst, actions, kind, doc, terms, ctx, free, hires, opened>>
  BY DEF Fail
<1>3. terms' \in [Target -> Terms] /\ fails' \in Nat /\ fails' # fails
  BY <1>1, <1>2 DEF TypeOK
<1>4. CASE pc[h] # "a.update"
  BY <1>2, <1>3, <1>4, EndQuietKeeps
<1>5. CASE pc[h] = "a.update"
  <2>1. PICK t \in Target : t = frame[h].t
    BY <1>1, Typed
  <2>2. /\ Alone(h) /\ pc'[h] = "idle" /\ local'[h] = NoLocal
        /\ \A g \in Handler \ {h} : local'[g] = local[g]
        /\ pc' \in [Handler -> Labels] /\ frame' \in [Handler -> Frame]
        /\ local' \in [Handler -> Local]
    BY <1>1, <1>2, EndType
  <2>3. TypeOK'
    BY <1>1, <1>2, <1>3, <2>2, MarksType DEF TypeOK, Labels, Exists
  <2>4. Grows
    BY <1>2 DEF Grows, Routed
  <2>5. HandlerOnTurn(h)' /\ HandlerOk(h)' /\ KindOk(h)' /\ Fresh(h)'
    BY <2>2, IdleOk
  <2>6. \A u \in Target : DocOk(u)'
    BY <1>2, <2>4, DocKept DEF IInv
  <2>7. HiresOk(t)'
    <3>1. CutShort(t)
      BY <1>2, <1>3, <2>1 DEF CutShort
    <3>2. raced'[t]
      BY <3>1 DEF Marks
    <3>3. QED
      BY <3>2 DEF HiresOk
  <2>8. ASSUME NEW u \in Target \ {t} PROVE HiresOk(u)'
    <3>1. Accepting(u)' <=> Accepting(u)
      BY <2>1, <2>2 DEF Accepting, Alone
    <3>2. raced[u] => raced'[u]
      BY DEF Marks
    <3>3. QED
      BY <1>2, <3>1, <3>2 DEF IInv, HiresOk
  <2>9. \A u \in Target : Undisturbed(u)
    BY <1>2 DEF Undisturbed
  <2>10. QED
    BY <1>2, <2>2, <2>3, <2>4, <2>5, <2>6, <2>7, <2>8, <2>9, StepKeeps DEF Alone
<1>6. QED
  BY <1>4, <1>5

\* A step of a handler that has begun.
LEMMA ResumeKeeps ==
  ASSUME IInv, Marks, NEW h \in Handler, Resume(h)
  PROVE  IInv'
<1>1. CASE FlowStep(h) /\ UNCHANGED <<hires, opened>>
  BY <1>1, RouteKeeps, RouteNoFlowKeeps, RouteThrownKeeps, EndUpdateKeeps, ListenKeeps,
     ListenUpdateKeeps, DecideInv DEF FlowStep
<1>2. QED
  BY <1>1, EndReadKeeps, EndUpdateKeeps, AcceptHireKeeps, AcceptUpdateKeeps, CancelApprovalKeeps,
     RequisitionInsertKeeps, RegisterKeeps, EnrolByHrKeeps, ManagerScoreKeeps DEF Resume

\* Every step marks what it has to.
LEMMA NextMarks == IInv /\ Next => Marks
<1> SUFFICES ASSUME IInv, Next PROVE Marks
  OBVIOUS
<1>1. revived \in [Target -> BOOLEAN]
  BY DEF IInv, TypeOK
<1>2. \/ revived' = [t \in Target |-> revived[t] \/ (Seated(t)' /\ ~ Seated(t))]
      \/ UNCHANGED revived
  BY DEF Next
<1>3. revived' \in [Target -> BOOLEAN]
  BY <1>1, <1>2, Zenon
<1>4. QED
  BY <1>3 DEF Next, Marks

\* Every step keeps the invariant.
LEMMA NextInv == IInv /\ [Next]_vars => IInv'
<1> SUFFICES ASSUME IInv, [Next]_vars PROVE IInv'
  OBVIOUS
<1>1. CASE Next
  <2>1. Marks
    BY <1>1, NextMarks
  <2>2. ASSUME NEW h \in Handler, NEW t \in Target, Start(h, t) PROVE IInv'
    BY <2>1, <2>2, StartKeeps, CreateManpowerKeeps
  <2>3. ASSUME NEW h \in Handler, Resume(h) PROVE IInv'
    BY <2>1, <2>3, ResumeKeeps
  <2>4. ASSUME NEW h \in Handler, Fail(h) PROVE IInv'
    BY <2>1, <2>4, FailKeeps
  <2>5. QED
    BY <1>1, <2>1, <2>2, <2>3, <2>4, AtOnceKeeps DEF Next
<1>2. CASE UNCHANGED vars
  <2>1. UNCHANGED <<inst, actions, pc, frame, kind, doc, terms, ctx, local, free, fails,
                    hires, opened, raced, revived>>
    BY <1>2 DEF vars
  <2>2. TypeOK'
    BY <2>1 DEF IInv, TypeOK, Exists
  <2>3. EngineInv'
    <3>1. ASSUME NEW i \in Instance PROVE RowOnTurn(i)'
      <4>1. RowOnTurn(i)
        BY DEF IInv, EngineInv
      <4>2. QED
        BY <2>1, <4>1 DEF RowOnTurn, Active, SignedBefore, Signed
    <3>2. ASSUME NEW h \in Handler PROVE HandlerOnTurn(h)'
      <4>1. HandlerOnTurn(h)
        BY DEF IInv, EngineInv
      <4>2. QED
        BY <2>1, <4>1 DEF HandlerOnTurn, Active, SignedBefore, Signed, Carries, Decided, Routed, FullySigned
    <3>3. QED
      BY <3>1, <3>2 DEF EngineInv
  <2>4. \A t \in Target : DocOk(t)' /\ HiresOk(t)' /\ (Shared(t)' => raced'[t])
    BY <2>1 DEF IInv, DocOk, Backed, Of, FullySigned, Active, Signed, HiresOk, Accepting, Shared
  <2>5. \A h \in Handler : HandlerOk(h)' /\ KindOk(h)' /\ Fresh(h)'
    <3> SUFFICES ASSUME NEW h \in Handler PROVE HandlerOk(h)' /\ KindOk(h)' /\ Fresh(h)'
      OBVIOUS
    <3>1. HandlerOk(h) /\ KindOk(h) /\ Fresh(h)
      BY DEF IInv
    <3>2. HandlerOk(h)'
      BY <2>1, <3>1 DEF HandlerOk, Backed, Of, FullySigned, Active, Signed
    <3>3. KindOk(h)'
      BY <2>1, <3>1 DEF KindOk
    <3>4. Fresh(h)'
      BY <2>1, <3>1 DEF Fresh
    <3>5. QED
      BY <3>2, <3>3, <3>4
  <2>6. QED
    BY <2>2, <2>3, <2>4, <2>5 DEF IInv
<1>3. QED
  BY <1>1, <1>2

\* The invariant holds at first.
LEMMA InitInv == Init => IInv
<1> SUFFICES ASSUME Init PROVE IInv
  OBVIOUS
<1>1. /\ EngineTypeOK /\ EngineInv /\ \A h \in Handler : pc[h] = "idle"
  BY EngineInitOK DEF Init, FlowInit
<1>2. /\ doc = [t \in Target |-> "none"] /\ terms = [t \in Target |-> 0]
      /\ ctx = [i \in Instance |-> 0] /\ local = [h \in Handler |-> NoLocal]
      /\ free = [t \in Target |-> FALSE] /\ fails = 0
      /\ kind \in [Target -> Kind] /\ hires = [t \in Target |-> 0]
      /\ opened = [t \in Target |-> FALSE] /\ raced = [t \in Target |-> FALSE]
      /\ revived = [t \in Target |-> FALSE]
      /\ pc = [h \in Handler |-> "idle"]
  BY DocumentsAssumption DEF Init, FlowInit, EngineInit
<1>3. "none" \in DocStatus /\ 0 \in Terms
  BY FlowAssumption DEF DocStatus, Terms
<1>4. TypeOK
  BY <1>1, <1>2, <1>3, NoLocalType DEF TypeOK, EngineTypeOK, EnginePc, Exists
<1>5. \A t \in Target : DocOk(t) /\ HiresOk(t) /\ ~ Shared(t)
  BY <1>1, <1>2 DEF DocOk, HiresOk, InEffect, Accepting, Shared
<1>6. \A h \in Handler : HandlerOk(h) /\ KindOk(h) /\ Fresh(h)
  BY <1>1, <1>2, NoLocalType DEF HandlerOk, KindOk, Fresh, Writing, InEffect
<1>7. QED
  BY <1>1, <1>4, <1>5, <1>6 DEF IInv

\* The inductive invariant holds always.
THEOREM Inductive == Spec => []IInv
BY InitInv, NextInv, PTL DEF Spec

\* Every variable keeps its type, and every document a status of its kind, whoever
\* writes it last.
THEOREM TypeCorrect == Spec => []TypeOK
<1>1. IInv => TypeOK
  BY DEF IInv
<1>2. QED
  BY <1>1, Inductive, PTL

\* However requests overlap, fail or are cancelled, nothing takes effect unsigned (the
\* listeners, the writes after createInstance, accept, JobRequisitionsService.create).
THEOREM NothingUnsigned == Spec => []EffectNeedsChain
<1>1. IInv => EffectNeedsChain
  BY DEF IInv, DocOk, Backed, InEffect, EffectNeedsChain
<1>2. QED
  BY <1>1, Inductive, PTL

\* An offer whose requests come one by one and do not fail makes one employee when it is
\* accepted and none before (accept).
THEOREM OneHire == Spec => []HiredOnce
<1>1. ASSUME IInv, NEW t \in Target, Calm(t)
      PROVE  hires[t] = IF doc[t] = "ACCEPTED" THEN 1 ELSE 0
  <2>1. ~ Accepting(t)
    BY <1>1 DEF Calm, Accepting
  <2>2. QED
    BY <1>1, <2>1 DEF IInv, HiresOk, Calm
<1>2. IInv => HiredOnce
  BY <1>1 DEF HiredOnce
<1>3. QED
  BY <1>2, Inductive, PTL

\* What a step writes of the terms of a document.
LEMMA TermsKept ==
  ASSUME IInv, Next, NEW t \in Target, kind[t] = "round", doc[t] = "CLOSED", ~ raced[t]
  PROVE  terms'[t] = terms[t]
<1>1. terms \in [Target -> Terms]
  BY DEF IInv, TypeOK
<1>2. CASE AtOnce
  BY <1>1, <1>2 DEF AtOnce, CreateOffer, CreateReview, CreateRound, Insert, UpdateByHr
<1>3. ASSUME NEW h \in Handler, NEW u \in Target, Start(h, u) PROVE terms'[t] = terms[t]
  BY <1>1, <1>3 DEF Start, EditRead, SubmitOffer, DeclineRead, AcceptRead, CreateManpower, Insert,
     CancelManpower, RequisitionRead, EnrolRead, CancelEnrolment, SelfRead, CloseRead, ManagerRead,
     RateRead, Quiet
<1>4. ASSUME NEW h \in Handler, Resume(h) PROVE terms'[t] = terms[t]
  <2>1. KindOk(h) /\ Fresh(h)
    BY DEF IInv
  <2>2. CASE EditUpdate(h) \/ ManagerScore(h) \/ RateUpdate(h)
    <3>1. frame[h].t # t
      BY <2>1, <2>2 DEF EditUpdate, ManagerScore, RateUpdate, KindOk, Fresh
    <3>2. QED
      BY <1>1, <2>2, <3>1 DEF EditUpdate, ManagerScore, RateUpdate
  <2>3. CASE Register(h)
    BY <1>1, <2>3 DEF Register, Insert, Quiet
  <2>4. CASE FlowStep(h)
    BY <2>4 DEF FlowStep, RouteOffer, RouteManpower, RouteEnrolment, RouteReview, Route, RouteNoFlow,
       RouteRefused, RouteBreaks, StatusUpdate, DeleteDoc, ListenOffer, ListenManpower,
       ListenEnrolment, ListenReview, Listen, ListenUpdate
  <2>5. QED
    BY <1>4, <2>2, <2>3, <2>4 DEF Resume, AcceptHire, AcceptRefused, AcceptUpdate, CancelApproval,
       CancelUpdate, RequisitionInsert, EnrolByHr, SelfUpdate, CloseUpdate, Quiet
<1>5. ASSUME NEW h \in Handler, Fail(h) PROVE terms'[t] = terms[t]
  BY <1>5 DEF Fail
<1>6. QED
  BY <1>2, <1>3, <1>4, <1>5 DEF Next

\* A rating does not change once its round is closed, if the round's requests did not
\* overlap (Feedback360Service.submit and close).
THEOREM RatingsFrozen == Spec => FrozenOnceClosed
<1>1. IInv /\ [Next]_vars =>
        [\A t \in Target : kind[t] = "round" /\ doc[t] = "CLOSED" /\ ~ raced[t] =>
           terms'[t] = terms[t]]_vars
  BY TermsKept
<1>2. QED
  BY <1>1, Inductive, PTL DEF Spec, FrozenOnceClosed

-----------------------------------------------------------------------------
(* How full a class gets.  What a handler has read of the free seats is good *)
(* for one seat, and it may hold on to it while its enrolment is cancelled:  *)
(* so enrolments that a handler may still seat are counted with the seated.  *)

\* Handler h may give its enrolment a seat without asking again if there is one.
Seating(h) == pc[h] \in {"g.insert", "h.insert", "route", "status", "l.update"} \/ local[h].next # "none"

\* Enrolment t is seated, and not because HR wrote its status, or may be.
InPlay(t) ==
  /\ kind[t] = "enrolment" /\ ~ revived[t]
  /\ Seated(t) \/ \E h \in Handler : frame[h].t = t /\ Seating(h)

SeatsOk == Capacity > 0 => Cardinality({t \in Target : InPlay(t)}) < Capacity + Cardinality(Handler)

\* A step that brings no enrolment into play.
Dwindles == \A t \in Target : InPlay(t)' => InPlay(t)

\* What is left to show of a step of h for that.
LEMMA StepDwindles ==
  ASSUME NEW h \in Handler, Alone(h), \A g \in Handler \ {h} : local'[g] = local[g],
         kind' = kind, revived' = revived,
         \A t \in Target : Seated(t)' => Seated(t) \/ (frame[h].t = t /\ Seating(h)),
         Seating(h)' => \/ Seating(h) /\ frame'[h].t = frame[h].t
                        \/ kind[frame'[h].t] # "enrolment"
                        \/ Seated(frame[h].t) /\ frame'[h].t = frame[h].t
  PROVE  Dwindles
<1> SUFFICES ASSUME NEW t \in Target, InPlay(t)' PROVE InPlay(t)
  BY DEF Dwindles
<1>1. kind[t] = "enrolment" /\ ~ revived[t]
  BY DEF InPlay
<1>2. CASE Seated(t)'
  BY <1>1, <1>2 DEF InPlay
<1>3. ASSUME NEW g \in Handler, frame'[g].t = t, Seating(g)' PROVE InPlay(t)
  <2>1. CASE g # h
    BY <1>1, <1>3, <2>1 DEF Alone, Seating, InPlay
  <2>2. CASE g = h
    BY <1>1, <1>3, <2>2 DEF InPlay
  <2>3. QED
    BY <2>1, <2>2
<1>4. QED
  BY <1>2, <1>3 DEF InPlay

\* A local whose terms are set.
LEMMA TermsSet ==
  ASSUME local \in [Handler -> Local], NEW h \in Handler, NEW v,
         local' = [local EXCEPT ![h].terms = v]
  PROVE  /\ local'[h].next = local[h].next /\ local'[h].apply = local[h].apply
         /\ local'[h].terms = v
         /\ \A g \in Handler \ {h} : local'[g] = local[g]
BY DEF Local

\* A handler that ends.
LEMMA EndDwindles ==
  ASSUME IInv, NEW h \in Handler, End(h),
         kind' = kind, revived' = revived,
         \A t \in Target : Seated(t)' => Seated(t) \/ (frame[h].t = t /\ Seating(h))
  PROVE  Dwindles
<1>1. Alone(h) /\ pc'[h] = "idle" /\ local'[h] = NoLocal /\ \A g \in Handler \ {h} : local'[g] = local[g]
  BY EndType DEF IInv
<1>2. ~ Seating(h)'
  BY <1>1, NoLocalType DEF Seating
<1>3. QED
  BY <1>1, <1>2, StepDwindles

\* A handler that begins, unless it read that a seat is free.
LEMMA BeginDwindles ==
  ASSUME IInv, NEW h \in Handler, NEW t \in Target, NEW k, NEW S, NEW l \in Labels,
         Begin(h, t, k, S, l), Quiet, revived' = revived,
         local'[h].next = local[h].next, \A g \in Handler \ {h} : local'[g] = local[g],
         l \notin {"g.insert", "h.insert", "status", "l.update"}, l = "route" => k # "enrolment"
  PROVE  Dwindles
<1>1. /\ Alone(h) /\ pc[h] = "idle" /\ pc'[h] = l /\ frame'[h].t = t /\ kind[t] = k
  BY BeginType DEF IInv
<1>2. UNCHANGED <<kind, doc>>
  BY DEF Quiet
<1>4. local'[h].next = "none"
  BY <1>1 DEF IInv, HandlerOk
<1>5. \A u \in Target : Seated(u)' => Seated(u)
  BY <1>2 DEF Seated
<1>6. QED
  BY <1>1, <1>2, <1>4, <1>5, StepDwindles DEF Seating

\* Every request but for a seat begins without a seat in view.
LEMMA StartDwindles ==
  ASSUME IInv, NEW h \in Handler, NEW t \in Target, Start(h, t), revived' = revived,
         ~ EnrolRead(h, t, "g.insert"), ~ EnrolRead(h, t, "h.insert")
  PROVE  Dwindles
<1> USE DEF Labels, EnginePc, FlowPc, DocPc
<1>1. local \in [Handler -> Local]
  BY DEF IInv, TypeOK
<1>2. CASE EditRead(h, t)
  BY <1>2, BeginDwindles DEF EditRead
<1>3. CASE SubmitOffer(h, t)
  <2>1. Begin(h, t, "offer", {"DRAFT"}, "route") /\ Quiet
    BY <1>3 DEF SubmitOffer
  <2>2. local'[h].next = local[h].next /\ \A g \in Handler \ {h} : local'[g] = local[g]
    BY <1>1, <1>3, TermsSet DEF SubmitOffer
  <2>3. QED
    BY <2>1, <2>2, BeginDwindles
<1>4. CASE DeclineRead(h, t)
  BY <1>4, BeginDwindles DEF DeclineRead
<1>5. CASE AcceptRead(h, t)
  BY <1>5, BeginDwindles DEF AcceptRead
<1>6. CASE CreateManpower(h, t)
  <2>1. /\ kind[t] = "manpower" /\ kind' = kind /\ local' = local
        /\ doc' = [doc EXCEPT ![t] = "PENDING"]
        /\ frame' = [frame EXCEPT ![h].t = t] /\ Goto(h, "route")
    BY <1>6 DEF CreateManpower, Insert
  <2>2. pc \in [Handler -> Labels] /\ frame \in [Handler -> Frame]
    BY Typed DEF IInv, TypeOK
  <2>3. frame'[h].t = t /\ \E f : frame' = [frame EXCEPT ![h] = f]
    BY <2>1, <2>2, TargetSet
  <2>4. \A u \in Target : Seated(u)' => Seated(u)
    BY <2>1 DEF IInv, TypeOK, Seated
  <2>5. Alone(h)
    BY <2>1, <2>3 DEF Goto, Alone
  <2>6. QED
    BY <2>1, <2>3, <2>4, <2>5, StepDwindles
<1>7. CASE CancelManpower(h, t)
  BY <1>7, BeginDwindles DEF CancelManpower
<1>8. CASE RequisitionRead(h, t)
  BY <1>8, BeginDwindles DEF RequisitionRead
<1>9. CASE CancelEnrolment(h, t)
  BY <1>9, BeginDwindles DEF CancelEnrolment
<1>10. CASE SelfRead(h, t)
  BY <1>10, BeginDwindles DEF SelfRead
<1>11. CASE CloseRead(h, t)
  BY <1>11, BeginDwindles DEF CloseRead
<1>12. ASSUME NEW v \in Terms \ {0}, ManagerRead(h, t, v) PROVE Dwindles
  <2>1. Begin(h, t, "review", {"MANAGER"}, "v.score") /\ Quiet
    BY <1>12 DEF ManagerRead
  <2>2. local'[h].next = local[h].next /\ \A g \in Handler \ {h} : local'[g] = local[g]
    BY <1>1, <1>12, TermsSet DEF ManagerRead
  <2>3. QED
    BY <2>1, <2>2, BeginDwindles
<1>13. ASSUME NEW v \in Terms \ {0}, RateRead(h, t, v) PROVE Dwindles
  <2>1. Begin(h, t, "round", {"COLLECTING"}, "f.rate") /\ Quiet
    BY <1>13 DEF RateRead
  <2>2. local'[h].next = local[h].next /\ \A g \in Handler \ {h} : local'[g] = local[g]
    BY <1>1, <1>13, TermsSet DEF RateRead
  <2>3. QED
    BY <2>1, <2>2, BeginDwindles
<1>14. QED
  BY <1>2, <1>3, <1>4, <1>5, <1>6, <1>7, <1>8, <1>9, <1>10, <1>11, <1>12, <1>13 DEF Start

\* What one statement writes: whom HR's status gives a seat is not counted.
LEMMA AtOnceDwindles ==
  ASSUME IInv, AtOnce, revived' = [t \in Target |-> revived[t] \/ (Seated(t)' /\ ~ Seated(t))]
  PROVE  Dwindles
<1>1. UNCHANGED <<pc, frame, local, kind>>
  BY DEF AtOnce, CreateOffer, CreateReview, CreateRound, Insert, UpdateByHr
<1>2. \A t \in Target : ~ revived'[t] => ~ revived[t] /\ (Seated(t)' => Seated(t))
  OBVIOUS
<1>3. QED
  BY <1>1, <1>2 DEF Dwindles, InPlay, Seating

\* SetDoc seats an enrolment only by writing one of the seated statuses.
LEMMA SetDocSeats ==
  ASSUME IInv, NEW t \in Target, NEW s \in DocStatus, SetDoc(t, s), kind' = kind, NEW u \in Target,
         Seated(u)', u # t \/ s \notin {"REGISTERED", "CONFIRMED", "COMPLETED"}
  PROVE  Seated(u)
BY DEF IInv, TypeOK, SetDoc, Seated

\* The steps of a service's own handlers.
LEMMA ServiceDwindles ==
  ASSUME IInv, NEW h \in Handler, revived' = revived,
         \/ EditUpdate(h) \/ AcceptHire(h) \/ AcceptRefused(h) \/ AcceptUpdate(h)
         \/ CancelApproval(h) \/ CancelUpdate(h) \/ RequisitionInsert(h)
         \/ Register(h) \/ EnrolByHr(h) \/ SelfUpdate(h) \/ ManagerScore(h)
         \/ RateUpdate(h) \/ CloseUpdate(h)
  PROVE  Dwindles
<1>1. frame[h].t \in Target /\ TypeOK /\ KindOk(h)
  BY Typed DEF IInv
<1>2. CASE EditUpdate(h) \/ RequisitionInsert(h) \/ RateUpdate(h) \/ AcceptRefused(h)
  <2>1. End(h) /\ UNCHANGED <<kind, doc>>
    BY <1>2 DEF EditUpdate, RequisitionInsert, RateUpdate, AcceptRefused, Quiet
  <2>2. QED
    BY <2>1, EndDwindles DEF Seated
<1>3. CASE AcceptUpdate(h) \/ CancelUpdate(h) \/ SelfUpdate(h) \/ CloseUpdate(h)
  <2>1. PICK s \in DocStatus : /\ SetDoc(frame[h].t, s)
                               /\ s \notin {"REGISTERED", "CONFIRMED", "COMPLETED"}
    <3>1. {"ACCEPTED", "DECLINED", "CANCELLED", "MANAGER", "CLOSED"} \subseteq DocStatus
      BY StatusSets DEF DocStatus, Kind
    <3>2. QED
      BY <1>3, <3>1 DEF AcceptUpdate, CancelUpdate, SelfUpdate, CloseUpdate
  <2>2. End(h) /\ kind' = kind
    BY <1>3 DEF AcceptUpdate, CancelUpdate, SelfUpdate, CloseUpdate
  <2>3. QED
    BY <1>1, <2>1, <2>2, SetDocSeats, EndDwindles
<1>4. CASE AcceptHire(h) \/ CancelApproval(h) \/ ManagerScore(h)
  <2>1. /\ UNCHANGED <<kind, doc, frame, local>>
        /\ \/ Goto(h, "a.update")
           \/ Goto(h, "c.update")
           \/ Goto(h, "route") /\ pc[h] = "v.score"
    BY <1>4 DEF AcceptHire, CancelApproval, ManagerScore, Continue
  <2>2. Alone(h) /\ pc'[h] \in {"a.update", "c.update", "route"}
        /\ (pc'[h] = "route" => kind[frame[h].t] = "review")
    BY <1>1, <2>1, GotoType DEF KindOk, Labels, FlowPc, DocPc
  <2>3. Seating(h)' => Seating(h) \/ kind[frame[h].t] # "enrolment"
    BY <2>1, <2>2 DEF Seating
  <2>4. QED
    BY <2>1, <2>2, <2>3, StepDwindles DEF Seated
<1>5. CASE Register(h)
  <2>1. Seating(h) /\ kind' = kind
    BY <1>5 DEF Register, Insert, Quiet, Seating
  <2>2. \A t \in Target : Seated(t)' => Seated(t) \/ frame[h].t = t
    BY <1>1, <1>5 DEF Register, Insert, Quiet, Seated, TypeOK
  <2>3. CASE End(h)
    BY <2>1, <2>2, <2>3, EndDwindles
  <2>4. CASE Continue(h, "route")
    <3>1. Alone(h) /\ frame' = frame /\ local' = local
      BY <1>1, <2>4, GotoType DEF Continue, Labels, FlowPc
    <3>2. QED
      BY <2>1, <2>2, <3>1, StepDwindles
  <2>5. QED
    BY <1>5, <2>3, <2>4 DEF Register
<1>6. CASE EnrolByHr(h)
  <2>1. End(h) /\ kind' = kind /\ Seating(h)
    BY <1>6 DEF EnrolByHr, Seating
  <2>2. \A t \in Target : Seated(t)' => Seated(t) \/ frame[h].t = t
    BY <1>1, <1>6 DEF EnrolByHr, TypeOK, Seated
  <2>3. QED
    BY <2>1, <2>2, EndDwindles
<1>7. QED
  BY <1>2, <1>3, <1>4, <1>5, <1>6

\* createInstance: an enrolment goes on in play, or its class needs no approval.
LEMMA RouteDwindles ==
  ASSUME IInv, NEW h \in Handler, revived' = revived,
         \/ RouteOffer(h) \/ RouteManpower(h) \/ RouteEnrolment(h) \/ RouteReview(h)
         \/ RouteNoFlow(h) \/ RouteRefused(h) \/ RouteBreaks(h)
  PROVE  Dwindles
<1>1. /\ TypeOK /\ frame[h].t \in Target /\ pc \in [Handler -> Labels]
      /\ frame \in [Handler -> Frame] /\ local \in [Handler -> Local]
  BY Typed DEF IInv, TypeOK
<1>2. UNCHANGED <<kind, doc>> /\ pc[h] = "route"
  BY <1>1 DEF RouteOffer, RouteManpower, RouteEnrolment, RouteReview, Route, RouteNoFlow,
     RouteRefused, RouteBreaks, TypeOK
<1>3. Seating(h) /\ \A t \in Target : Seated(t)' => Seated(t)
  BY <1>2 DEF Seating, Seated
<1>4. CASE End(h)
  BY <1>2, <1>3, <1>4, EndDwindles
<1>5. CASE Continue(h, "delete")
  <2>1. Alone(h) /\ frame' = frame /\ local' = local
    BY <1>1, <1>5, GotoType DEF Continue, Labels, FlowPc
  <2>2. QED
    BY <1>2, <1>3, <2>1, StepDwindles
<1>6. ASSUME NEW s \in DocStatus, local' = [local EXCEPT ![h].next = s], Alone(h),
             frame'[h].t = frame[h].t
      PROVE  Dwindles
  BY <1>1, <1>2, <1>3, <1>6, NextSet, StepDwindles
<1>7. ASSUME Goto(h, "status"), UNCHANGED frame PROVE Alone(h)
  BY <1>1, <1>7, GotoType DEF Labels, FlowPc
<1>8. ASSUME NEW k \in Kind, NEW pending, NEW approved, Route(h, k, pending, approved),
             Passes(k, pending, approved)
      PROVE  Dwindles
  <2>1. pending \in DocStatus /\ approved \in DocStatus
    BY <1>8, PassesType DEF Passes
  <2>2. CASE End(h)
    BY <1>4, <2>2
  <2>3. CASE local' = [local EXCEPT ![h].next = pending] /\ Goto(h, "status") /\ UNCHANGED frame
    BY <1>6, <1>7, <2>1, <2>3
  <2>4. ASSUME NEW i \in Instance, local' = [local EXCEPT ![h].next = approved],
               Announce(h, i, frame[h].t, "APPROVED")
        PROVE  Dwindles
    <3>1. "emit" \in Labels
      BY DEF Labels, EnginePc
    <3>2. Alone(h) /\ frame'[h].t = frame[h].t
      BY <1>1, <2>4, <3>1, AnnounceAlone
    <3>3. QED
      BY <1>6, <2>1, <2>4, <3>2
  <2>5. QED
    BY <1>8, <2>2, <2>3, <2>4 DEF Route
<1>9. CASE RouteOffer(h) \/ RouteManpower(h) \/ RouteEnrolment(h) \/ RouteReview(h)
  BY <1>8, <1>9, StatusSets
     DEF RouteOffer, RouteManpower, RouteEnrolment, RouteReview, Passes, InEffect, Kind
<1>10. CASE RouteRefused(h) \/ RouteBreaks(h)
  BY <1>4, <1>5, <1>10 DEF RouteRefused, RouteBreaks, Thrown
<1>11. CASE RouteNoFlow(h)
  <2>1. \/ Thrown(h)
        \/ \E s \in DocStatus :
             local' = [local EXCEPT ![h].next = s] /\ Goto(h, "status") /\ UNCHANGED frame
    <3>1. {"CONFIRMED", "DONE"} \subseteq DocStatus
      BY StatusSets DEF DocStatus, Kind
    <3>2. QED
      BY <1>11, <3>1 DEF RouteNoFlow
  <2>2. QED
    BY <1>4, <1>5, <1>6, <1>7, <2>1 DEF Thrown
<1>12. QED
  BY <1>9, <1>10, <1>11

\* The writes after createInstance, the listeners and decide.
LEMMA FlowDwindles ==
  ASSUME IInv, NEW h \in Handler, FlowStep(h), revived' = revived
  PROVE  Dwindles
<1>1. /\ TypeOK /\ frame[h].t \in Target /\ pc \in [Handler -> Labels]
      /\ frame \in [Handler -> Frame] /\ local \in [Handler -> Local] /\ local[h] \in Local
      /\ HandlerOk(h) /\ KindOk(h)
  BY Typed DEF IInv, TypeOK
<1>2. CASE StatusUpdate(h) \/ DeleteDoc(h)
  <2>1. PICK s \in DocStatus : /\ SetDoc(frame[h].t, s)
                               /\ Seating(h) \/ s = "deleted"
    <3>1. local[h].next \in DocStatus /\ "deleted" \in DocStatus
      BY <1>1 DEF Local, DocStatus
    <3>2. QED
      BY <1>2, <3>1 DEF StatusUpdate, DeleteDoc, Seating
  <2>2. End(h) /\ kind' = kind
    BY <1>2 DEF StatusUpdate, DeleteDoc
  <2>3. QED
    BY <1>1, <2>1, <2>2, SetDocSeats, EndDwindles
<1>3. ASSUME Listened(h), kind' = kind,
             \A t \in Target : Seated(t)' => Seated(t) \/ (frame[h].t = t /\ Seating(h))
      PROVE  Dwindles
  <2>1. CASE local[h].next = "none"
    <3>1. End(h)
      BY <1>3, <2>1 DEF Listened
    <3>2. QED
      BY <1>3, <3>1, EndDwindles
  <2>2. CASE local[h].next # "none"
    <3>1. local' = [local EXCEPT ![h].apply = "none"] /\ Goto(h, "status") /\ UNCHANGED frame
      BY <1>3, <2>2 DEF Listened
    <3>2. "none" \in DocStatus /\ "status" \in Labels
      BY DEF DocStatus, Labels, FlowPc
    <3>3. Alone(h) /\ \A g \in Handler \ {h} : local'[g] = local[g]
      BY <1>1, <3>1, <3>2, GotoType, ApplySet
    <3>4. Seating(h)
      BY <2>2 DEF Seating
    <3>5. QED
      BY <1>3, <3>1, <3>3, <3>4, StepDwindles
  <2>3. QED
    BY <2>1, <2>2
<1>4. ASSUME NEW k \in Kind, NEW waits, NEW granted, NEW refused, Listen(h, k, waits, granted, refused),
             granted \in DocStatus, refused \in DocStatus,
             k = "enrolment" => waits = "REGISTERED"
      PROVE  Dwindles
  <2>1. UNCHANGED <<kind, doc>> /\ kind[frame[h].t] = k
    BY <1>4 DEF Listen
  <2>2. \A t \in Target : Seated(t)' => Seated(t)
    BY <2>1 DEF Seated
  <2>3. CASE doc[frame[h].t] = waits
    <3>1. PICK s \in DocStatus : local' = [local EXCEPT ![h].apply = s]
      BY <1>4, <2>3 DEF Listen
    <3>2. Goto(h, "l.update") /\ UNCHANGED frame /\ "l.update" \in Labels
      BY <1>4, <2>3 DEF Listen, Labels, FlowPc
    <3>3. Alone(h) /\ \A g \in Handler \ {h} : local'[g] = local[g]
      BY <1>1, <3>1, <3>2, GotoType, ApplySet
    <3>4. Seated(frame[h].t) \/ kind[frame[h].t] # "enrolment"
      BY <1>4, <2>1, <2>3 DEF Seated
    <3>5. QED
      BY <2>1, <2>2, <3>2, <3>3, <3>4, StepDwindles
  <2>4. CASE doc[frame[h].t] # waits
    BY <1>3, <1>4, <2>1, <2>2, <2>4 DEF Listen
  <2>5. QED
    BY <2>3, <2>4
<1>5. CASE ListenOffer(h) \/ ListenManpower(h) \/ ListenEnrolment(h) \/ ListenReview(h)
  <2>1. {"SENT", "DRAFT", "APPROVED", "REJECTED", "CONFIRMED", "CANCELLED", "DONE", "MANAGER"}
          \subseteq DocStatus
    BY StatusSets DEF DocStatus, Kind
  <2>2. {"offer", "manpower", "enrolment", "review"} \subseteq Kind
    BY DEF Kind
  <2>3. CASE ListenOffer(h)
    BY <1>4, <2>1, <2>2, <2>3 DEF ListenOffer
  <2>4. CASE ListenManpower(h)
    BY <1>4, <2>1, <2>2, <2>4 DEF ListenManpower
  <2>5. CASE ListenEnrolment(h)
    BY <1>4, <2>1, <2>2, <2>5 DEF ListenEnrolment
  <2>6. CASE ListenReview(h)
    BY <1>4, <2>1, <2>2, <2>6 DEF ListenReview
  <2>7. QED
    BY <1>5, <2>3, <2>4, <2>5, <2>6
<1>6. CASE ListenUpdate(h)
  <2>1. local[h].apply \in DocStatus /\ Seating(h)
    BY <1>1, <1>6 DEF Local, ListenUpdate, Seating
  <2>2. SetDoc(frame[h].t, local[h].apply) /\ kind' = kind /\ Listened(h)
    BY <1>6 DEF ListenUpdate
  <2>3. QED
    BY <1>1, <1>3, <2>1, <2>2, SetDocSeats
<1>7. CASE Decide(h) /\ UNCHANGED <<kind, doc, terms, ctx, local, free, fails>>
  <2>1. EngineTypeOK /\ EngineInv /\ EnginePc \subseteq Labels
    BY Typed DEF IInv
  <2>2. Decides(h, Labels)
    BY <1>1, <1>7, <2>1, DecideKeeps
  <2>3. Alone(h) /\ pc[h] \in {"idle", "act", "update"} /\ pc'[h] \in EnginePc
    BY <2>2 DEF Decides
  <2>4. local'[h].next = "none"
    BY <1>1, <1>7, <2>3 DEF HandlerOk
  <2>5. ~ Seating(h)'
    BY <2>3, <2>4 DEF Seating, EnginePc
  <2>6. QED
    BY <1>7, <2>3, <2>5, StepDwindles DEF Seated
<1>8. QED
  BY <1>2, <1>5, <1>6, <1>7, RouteDwindles DEF FlowStep

\* Every step but one that reads that there is a seat.
LEMMA NextDwindles ==
  ASSUME IInv, Next
  PROVE  \/ Dwindles
         \/ /\ UNCHANGED revived
            /\ \E h \in Handler, t \in Target, l \in {"g.insert", "h.insert"} : EnrolRead(h, t, l)
<1>1. CASE AtOnce /\ revived' = [t \in Target |-> revived[t] \/ (Seated(t)' /\ ~ Seated(t))]
  BY <1>1, AtOnceDwindles
<1>2. ASSUME NEW h \in Handler, Fail(h), UNCHANGED revived PROVE Dwindles
  BY <1>2, EndDwindles DEF Fail, Seated
<1>3. ASSUME NEW h \in Handler, Resume(h), UNCHANGED revived PROVE Dwindles
  BY <1>3, ServiceDwindles, FlowDwindles DEF Resume
<1>4. ASSUME NEW h \in Handler, NEW t \in Target, Start(h, t), UNCHANGED revived
      PROVE  Dwindles \/ \E l \in {"g.insert", "h.insert"} : EnrolRead(h, t, l)
  BY <1>4, StartDwindles
<1>5. QED
  BY <1>1, <1>2, <1>3, <1>4 DEF Next

\* The enrolments in play are few, however many steps there have been.
LEMMA NextSeats == IInv /\ SeatsOk /\ [Next]_vars => SeatsOk'
<1> SUFFICES ASSUME IInv, SeatsOk, [Next]_vars, Capacity > 0 PROVE SeatsOk'
  BY DEF SeatsOk
<1>1. /\ IsFiniteSet(Target) /\ IsFiniteSet(Handler) /\ Capacity \in Nat
      /\ Cardinality(Handler) \in Nat
  BY DocumentsAssumption, FS_CardinalityType
<1> DEFINE P == {t \in Target : InPlay(t)}
<1>2. CASE Dwindles
  <2>1. P' \subseteq P /\ IsFiniteSet(P)
    BY <1>1, <1>2, FS_Subset DEF Dwindles
  <2>2. Cardinality(P') <= Cardinality(P) /\ IsFiniteSet(P')
    BY <2>1, FS_Subset
  <2>3. Cardinality(P') \in Nat /\ Cardinality(P) \in Nat
    BY <2>1, <2>2, FS_CardinalityType
  <2> HIDE DEF P
  <2>4. Cardinality(P)' < Capacity + Cardinality(Handler)
    BY <1>1, <2>2, <2>3 DEF SeatsOk, P
  <2>5. QED
    BY <2>4 DEF SeatsOk, P
<1>3. ASSUME NEW h \in Handler, NEW t \in Target, NEW l \in {"g.insert", "h.insert"},
             EnrolRead(h, t, l), UNCHANGED revived
      PROVE  SeatsOk'
  <2> DEFINE R == {frame'[g].t : g \in Handler}
  <2>1. Cardinality(Seats) < Capacity /\ UNCHANGED <<kind, doc, revived>>
    BY <1>3 DEF EnrolRead, Quiet
  <2>2. P' \subseteq Seats \cup R
    BY <2>1 DEF InPlay, Seats, Seated
  <2>3. IsFiniteSet(R) /\ Cardinality(R) <= Cardinality(Handler) /\ IsFiniteSet(Seats)
    <3> DEFINE f == [g \in Handler |-> frame'[g].t]
    <3>1. f \in Surjection(Handler, R)
      BY DEF Surjection
    <3>2. IsFiniteSet(R) /\ Cardinality(R) <= Cardinality(Handler)
      BY <1>1, <3>1, FS_Surjection
    <3>3. QED
      BY <1>1, <3>2, FS_Subset DEF Seats
  <2>4. IsFiniteSet(Seats \cup R) /\ Cardinality(Seats \cup R) <= Cardinality(Seats) + Cardinality(R)
    <3>1. /\ IsFiniteSet(Seats \cup R)
          /\ Cardinality(Seats \cup R) = Cardinality(Seats) + Cardinality(R) - Cardinality(Seats \cap R)
      BY <2>3, FS_Union
    <3>2. IsFiniteSet(Seats \cap R)
      BY <2>3, FS_Intersection
    <3>3. Cardinality(Seats) \in Nat /\ Cardinality(R) \in Nat /\ Cardinality(Seats \cap R) \in Nat
      BY <2>3, <3>2, FS_CardinalityType
    <3>4. QED
      BY <3>1, <3>3
  <2>5. Cardinality(P') <= Cardinality(Seats \cup R) /\ IsFiniteSet(P')
    BY <2>2, <2>4, FS_Subset
  <2>6. /\ Cardinality(P') \in Nat /\ Cardinality(R) \in Nat /\ Cardinality(Seats) \in Nat
        /\ Cardinality(Seats \cup R) \in Nat
    BY <2>3, <2>4, <2>5, FS_CardinalityType
  <2> HIDE DEF P, R
  <2>7. Cardinality(P') < Capacity + Cardinality(Handler)
    BY <1>1, <2>1, <2>3, <2>4, <2>5, <2>6
  <2>8. QED
    BY <2>7 DEF SeatsOk, P
<1>4. CASE UNCHANGED vars
  BY <1>2, <1>4 DEF vars, Dwindles, InPlay, Seating, Seated
<1>5. QED
  BY <1>2, <1>3, <1>4, NextDwindles

\* However registrations and HR's own enrolments overlap, need an approval or none, fail,
\* and are cancelled and taken up again, they overfill a class by less than there are
\* handlers; the seats HR gives by writing a status are not counted (assertCapacity,
\* register, createByHr).
THEOREM ClassNearlyFits == Spec => []SeatsBounded
<1>1. Init => SeatsOk
  <2> SUFFICES ASSUME Init, Capacity > 0 PROVE SeatsOk
    BY DEF SeatsOk
  <2>1. IInv /\ \A h \in Handler : pc[h] = "idle"
    BY InitInv, EngineInitOK DEF Init, FlowInit
  <2>2. \A t \in Target : ~ InPlay(t)
    <3>1. \A h \in Handler : local[h].next = "none"
      BY <2>1 DEF IInv, HandlerOk
    <3>2. QED
      BY <2>1, <3>1 DEF InPlay, Seating, Seated, Init, FlowInit
  <2>3. {t \in Target : InPlay(t)} = {}
    BY <2>2
  <2>4. Cardinality({t \in Target : InPlay(t)}) = 0
    BY <2>3, FS_EmptySet
  <2>5. Cardinality(Handler) \in Nat /\ Capacity \in Nat
    BY DocumentsAssumption, FS_CardinalityType
  <2>6. QED
    BY <2>4, <2>5 DEF SeatsOk
<1>2. IInv /\ SeatsOk => SeatsBounded
  <2> SUFFICES ASSUME IInv, SeatsOk, Capacity > 0
               PROVE  Cardinality({t \in Seats : ~ revived[t]}) < Capacity + Cardinality(Handler)
    BY DEF SeatsBounded
  <2> DEFINE P == {t \in Target : InPlay(t)}
             Q == {t \in Seats : ~ revived[t]}
  <2>1. Q \subseteq P /\ IsFiniteSet(P)
    BY DocumentsAssumption, FS_Subset DEF Seats, Seated, InPlay
  <2>2. Cardinality(Q) <= Cardinality(P) /\ IsFiniteSet(Q)
    BY <2>1, FS_Subset
  <2>3. /\ Cardinality(Q) \in Nat /\ Cardinality(P) \in Nat /\ Cardinality(Handler) \in Nat
        /\ Capacity \in Nat
    BY <2>1, <2>2, DocumentsAssumption, FS_CardinalityType
  <2>4. Cardinality(P) < Capacity + Cardinality(Handler)
    BY DEF SeatsOk
  <2> HIDE DEF P, Q
  <2>5. Cardinality(Q) < Capacity + Cardinality(Handler)
    BY <2>2, <2>3, <2>4
  <2>6. QED
    BY <2>5 DEF Q
<1>3. QED
  BY <1>1, <1>2, NextSeats, InitInv, NextInv, PTL DEF Spec

-----------------------------------------------------------------------------
(* What a document waits for.  While the requests about it come one by one,  *)
(* its status and its approvals agree except within a request that has       *)
(* written one of the two and not yet the other (Mid): for those the         *)
(* invariant says what is left to write.                                     *)

WaitSet     == {"PENDING_APPROVAL", "PENDING", "REGISTERED", "CALIBRATION"}
Waits(t)    == doc[t] \in WaitSet
Open(t)     == \E i \in Of(t) : inst[i].status = "PENDING"
Numbered(t) == \A i \in Of(t) : inst[i].current # 0
Final       == {"SENT", "ACCEPTED", "DONE"}
Given(t)    == \E i \in Of(t) : inst[i].status = "APPROVED" /\ ctx[i] = terms[t]
Scored(t)   == kind[t] \in {"offer", "review"}

Settled(t) ==
  /\ Open(t) => Waits(t)
  /\ Numbered(t) /\ Waits(t) => Open(t)
  /\ doc[t] \in Final => Given(t)

\* An open approval was asked for the terms the document still has.
Current(t) == Scored(t) => \A i \in Of(t) : inst[i].status = "PENDING" => ctx[i] = terms[t]

\* Writing next is all that is left to settle t.
NextOk(t, h) ==
  /\ Open(t) => local[h].next \in WaitSet
  /\ Numbered(t) /\ local[h].next \in WaitSet => Open(t)
  /\ local[h].next \in Final => Given(t)

Mid == {"route", "status", "delete", "emit", "l.update", "c.update"}

StageOk(t, h) ==
  /\ pc[h] \in Mid \ {"status"} => ~ Open(t)
  /\ pc[h] \in {"route", "status", "emit", "l.update"} => Exists(t)
  /\ pc[h] \in {"act", "update"} => inst[frame[h].i].status = "PENDING"
  /\ pc[h] = "route" => /\ doc[t] \in {"DRAFT", "PENDING", "REGISTERED", "MANAGER"}
                        /\ Scored(t) => local[h].terms = terms[t]
  /\ pc[h] = "status" => NextOk(t, h)
  /\ pc[h] \in {"emit", "l.update"} /\ local[h].next # "none" => NextOk(t, h)
  /\ pc[h] = "emit" /\ local[h].next = "none" => Waits(t)
  /\ pc[h] = "emit" /\ frame[h].outcome = "APPROVED" /\ Scored(t) =>
       inst[frame[h].i].status = "APPROVED" /\ ctx[frame[h].i] = terms[t]
  /\ pc[h] = "l.update" => /\ local[h].apply \notin WaitSet
                           /\ local[h].apply \in Final => Given(t)
  /\ pc[h] = "e.update" => doc[t] = "DRAFT"
  /\ pc[h] = "v.self" => doc[t] = "SELF"
  /\ pc[h] = "v.score" => doc[t] = "MANAGER"

Told(t) ==
  ~ raced[t] /\ ~ free[t] =>
    /\ (\A h \in Handler : frame[h].t = t => pc[h] \notin Mid) => Settled(t)
    /\ Current(t)
    /\ \A h \in Handler : frame[h].t = t => StageOk(t, h)

\* Partial unique index ApprovalInstance_pending_target_key.
OnePending ==
  \A i, j \in Instance :
    inst[i].status = "PENDING" /\ inst[j].status = "PENDING" /\ inst[i].target = inst[j].target
      => i = j

ToldInv == OnePending /\ \A t \in Target : Told(t)

\* Told, of a document that h alone may be at work on.
Right(t, h) == (pc[h] \notin Mid => Settled(t)) /\ Current(t) /\ StageOk(t, h)

\* Rows of others do not matter to t.
LEMMA RowsOfOthers ==
  ASSUME NEW t \in Target, terms'[t] = terms[t],
         \A i \in Instance : \/ inst'[i] = inst[i] /\ ctx'[i] = ctx[i]
                             \/ i \notin Of(t) /\ i \notin Of(t)'
  PROVE  /\ Open(t)' <=> Open(t)
         /\ Numbered(t)' <=> Numbered(t)
         /\ Given(t)' <=> Given(t)
         /\ kind' = kind => (Current(t)' <=> Current(t))
<1>1. \A i \in Instance : i \in Of(t)' <=> i \in Of(t)
  BY DEF Of
<1>2. \A i \in Of(t) : i \in Instance /\ i \in Of(t)' /\ inst'[i] = inst[i] /\ ctx'[i] = ctx[i]
  BY <1>1 DEF Of
<1>3. \A i \in Of(t)' : i \in Instance /\ i \in Of(t) /\ inst'[i] = inst[i] /\ ctx'[i] = ctx[i]
  BY <1>1 DEF Of
<1>4. QED
  BY <1>2, <1>3 DEF Open, Numbered, Given, Current, Scored

\* Steps of other requests, about other documents, leave t told.
LEMMA Elsewhere ==
  ASSUME IInv, NEW t \in Target, Told(t), raced[t] => raced'[t], free[t] => free'[t],
         kind' = kind, doc'[t] = doc[t], terms'[t] = terms[t],
         \A i \in Instance : \/ inst'[i] = inst[i] /\ ctx'[i] = ctx[i]
                             \/ i \notin Of(t) /\ i \notin Of(t)',
         \A h \in Handler :
           \/ pc'[h] = pc[h] /\ frame'[h] = frame[h] /\ local'[h] = local[h]
           \/ /\ frame[h].t # t \/ pc[h] = "idle"
              /\ frame'[h].t # t \/ pc'[h] = "idle"
  PROVE  Told(t)'
<1> SUFFICES ASSUME ~ raced'[t], ~ free'[t]
             PROVE  /\ (\A h \in Handler : frame'[h].t = t => pc'[h] \notin Mid) => Settled(t)'
                    /\ Current(t)'
                    /\ \A h \in Handler : frame'[h].t = t => StageOk(t, h)'
  BY DEF Told
<1>1. /\ Open(t)' <=> Open(t)
      /\ Numbered(t)' <=> Numbered(t)
      /\ Given(t)' <=> Given(t)
      /\ Current(t)' <=> Current(t)
  BY RowsOfOthers
<1>2. (\A h \in Handler : frame'[h].t = t => pc'[h] \notin Mid) => Settled(t)'
  <2>1. (\A h \in Handler : frame'[h].t = t => pc'[h] \notin Mid) =>
          \A h \in Handler : frame[h].t = t => pc[h] \notin Mid
    BY DEF Mid
  <2>2. QED
    BY <1>1, <2>1 DEF Told, Settled, Waits
<1>3. ASSUME NEW h \in Handler, frame'[h].t = t PROVE StageOk(t, h)'
  <2>1. CASE pc'[h] = "idle"
    BY <2>1 DEF StageOk, Mid
  <2>2. CASE pc'[h] # "idle"
    <3>1. pc'[h] = pc[h] /\ frame'[h] = frame[h] /\ local'[h] = local[h] /\ frame[h].t = t
      BY <1>3, <2>2
    <3>2. StageOk(t, h)
      BY <3>1 DEF Told
    <3>3. pc[h] \in {"act", "update", "emit"} =>
            inst'[frame[h].i] = inst[frame[h].i] /\ ctx'[frame[h].i] = ctx[frame[h].i]
      <4>1. HandlerOnTurn(h) /\ frame[h].i \in Instance
        BY DEF IInv, EngineInv, TypeOK, Frame
      <4>2. pc[h] \in {"act", "update", "emit"} => frame[h].i \in Of(t)
        BY <3>1, <4>1 DEF HandlerOnTurn, Carries, Decided, Routed, Of
      <4>3. QED
        BY <4>1, <4>2
    <3>4. NextOk(t, h)' <=> NextOk(t, h)
      BY <1>1, <3>1 DEF NextOk
    <3>5. QED
      BY <1>1, <3>1, <3>2, <3>3, <3>4 DEF StageOk, Exists, Waits, Scored
  <2>3. QED
    BY <2>1, <2>2
<1>4. QED
  BY <1>1, <1>2, <1>3 DEF Told

\* What is left to show of a step of h on the document u, and on its rows.
LEMMA OwnStep ==
  ASSUME IInv, Marks, \A t \in Target : Told(t), NEW h \in Handler, NEW u \in Target,
         Alone(h), \A g \in Handler \ {h} : local'[g] = local[g],
         kind' = kind, \A t \in Target : free[t] => free'[t],
         pc[h] # "idle" \/ pc'[h] # "idle",
         pc[h] = "idle" \/ frame[h].t = u, pc'[h] = "idle" \/ frame'[h].t = u,
         \A t \in Target \ {u} : doc'[t] = doc[t] /\ terms'[t] = terms[t],
         \A i \in Instance : \/ inst'[i] = inst[i] /\ ctx'[i] = ctx[i]
                             \/ \A t \in Target \ {u} : i \notin Of(t) /\ i \notin Of(t)',
         ~ raced[u] /\ ~ free[u] /\ ~ raced'[u] /\ ~ free'[u] /\ Right(u, h) => Right(u, h)'
  PROVE  \A t \in Target : Told(t)'
<1>0. \A t \in Target : raced[t] => raced'[t]
  BY DEF Marks
<1>1. ASSUME NEW t \in Target \ {u} PROVE Told(t)'
  <2>1. \A g \in Handler :
          \/ pc'[g] = pc[g] /\ frame'[g] = frame[g] /\ local'[g] = local[g]
          \/ /\ frame[g].t # t \/ pc[g] = "idle"
             /\ frame'[g].t # t \/ pc'[g] = "idle"
    BY DEF Alone
  <2>2. \A i \in Instance : \/ inst'[i] = inst[i] /\ ctx'[i] = ctx[i]
                            \/ i \notin Of(t) /\ i \notin Of(t)'
    OBVIOUS
  <2>3. QED
    BY <1>0, <2>1, <2>2, Elsewhere
<1>2. ASSUME ~ raced'[u], ~ free'[u]
      PROVE  /\ (\A g \in Handler : frame'[g].t = u => pc'[g] \notin Mid) => Settled(u)'
             /\ Current(u)'
             /\ \A g \in Handler : frame'[g].t = u => StageOk(u, g)'
  <2>1. ~ raced[u] /\ ~ free[u] /\ ~ Shared(u) /\ ~ Shared(u)'
    BY <1>0, <1>2 DEF Marks, IInv
  <2>2. \A g \in Handler \ {h} : frame[g].t = u => pc[g] = "idle"
    BY <2>1 DEF Shared, Alone
  <2>3. Right(u, h)
    <3>1. pc[h] \notin Mid => Settled(u)
      BY <2>1, <2>2 DEF Told, Mid
    <3>2. Current(u)
      BY <2>1 DEF Told
    <3>3. StageOk(u, h)
      <4>1. CASE pc[h] = "idle"
        BY <4>1 DEF StageOk, Mid
      <4>2. CASE pc[h] # "idle"
        BY <2>1, <4>2 DEF Told
      <4>3. QED
        BY <4>1, <4>2
    <3>4. QED
      BY <3>1, <3>2, <3>3 DEF Right
  <2>4. Right(u, h)'
    BY <1>2, <2>1, <2>3
  <2>5. \A g \in Handler \ {h} : frame'[g].t = u => StageOk(u, g)'
    <3>1. \A g \in Handler \ {h} : frame'[g].t = u => pc'[g] = "idle"
      BY <2>2 DEF Alone
    <3>2. QED
      BY <3>1 DEF StageOk, Mid
  <2>6. (\A g \in Handler : frame'[g].t = u => pc'[g] \notin Mid) => pc'[h] \notin Mid
    BY DEF Mid
  <2>7. QED
    BY <2>4, <2>5, <2>6 DEF Right
<1>3. Told(u)'
  BY <1>2 DEF Told
<1>4. QED
  BY <1>1, <1>3

\* A step that leaves the rows, the documents and their terms alone.
LEMMA StillStep ==
  ASSUME IInv, Marks, \A t \in Target : Told(t), NEW h \in Handler, NEW u \in Target,
         Alone(h), \A g \in Handler \ {h} : local'[g] = local[g],
         UNCHANGED <<inst, kind, doc, terms, ctx>>, \A t \in Target : free[t] => free'[t],
         pc[h] # "idle" \/ pc'[h] # "idle",
         pc[h] = "idle" \/ frame[h].t = u, pc'[h] = "idle" \/ frame'[h].t = u,
         ~ raced[u] /\ ~ free'[u] /\ ~ raced'[u] /\ Right(u, h) =>
           (pc'[h] \notin Mid => Settled(u)) /\ StageOk(u, h)'
  PROVE  \A t \in Target : Told(t)'
<1>1. /\ Open(u)' <=> Open(u)
      /\ Numbered(u)' <=> Numbered(u)
      /\ Given(u)' <=> Given(u)
      /\ Current(u)' <=> Current(u)
  BY RowsOfOthers
<1>2. Settled(u)' <=> Settled(u)
  BY <1>1 DEF Settled, Waits
<1>3. ~ raced[u] /\ ~ free[u] /\ ~ raced'[u] /\ ~ free'[u] /\ Right(u, h) => Right(u, h)'
  BY <1>1, <1>2 DEF Right
<1>4. QED
  BY <1>3, OwnStep

\* What Settled says of a status that is not one of waiting.
LEMMA NotWaiting ==
  ASSUME NEW t \in Target, Settled(t), doc[t] \notin WaitSet
  PROVE  ~ Open(t)
BY DEF Settled, Waits

\* A handler that begins.
LEMMA BeginTold ==
  ASSUME IInv, Marks, \A t \in Target : Told(t), NEW h \in Handler, NEW u \in Target,
         NEW k, NEW S, NEW l \in Labels, Begin(h, u, k, S, l), Quiet,
         \A g \in Handler \ {h} : local'[g] = local[g],
         l \in DocPc \cup {"route"},
         l = "c.update" => doc[u] \notin WaitSet,
         l = "route" => doc[u] = "DRAFT" /\ local'[h].terms = terms[u],
         l = "e.update" => doc[u] = "DRAFT",
         l = "v.self" => doc[u] = "SELF",
         l = "v.score" => doc[u] = "MANAGER"
  PROVE  \A t \in Target : Told(t)'
<1>1. Alone(h) /\ pc[h] = "idle" /\ pc'[h] = l /\ frame'[h].t = u
  BY BeginType DEF IInv
<1>2. UNCHANGED <<inst, kind, doc, terms, ctx, free>>
  BY DEF Quiet
<1>3. ASSUME Right(u, h) PROVE Settled(u) /\ StageOk(u, h)'
  <2>1. Settled(u)
    BY <1>1, <1>3 DEF Right, Mid
  <2>2. Open(u)' <=> Open(u)
    BY <1>2, RowsOfOthers
  <2>3. l \in Mid => ~ Open(u)
    BY <2>1, NotWaiting DEF Mid, DocPc, WaitSet
  <2>4. StageOk(u, h)'
    BY <1>1, <1>2, <2>2, <2>3 DEF StageOk, Mid, DocPc, Exists, Scored
  <2>5. QED
    BY <2>1, <2>4
<1>4. l # "idle"
  BY DEF DocPc
<1>5. QED
  BY <1>1, <1>2, <1>3, <1>4, StillStep

\* CreateManpower inserts its row and goes on to ask for approval.
LEMMA CreateManpowerTold ==
  ASSUME IInv, Marks, \A t \in Target : Told(t), NEW h \in Handler, NEW u \in Target,
         CreateManpower(h, u)
  PROVE  \A t \in Target : Told(t)'
<1>1. /\ kind[u] = "manpower" /\ doc[u] = "none" /\ pc[h] = "idle"
      /\ UNCHANGED <<inst, kind, ctx, free, local>>
      /\ doc' = [doc EXCEPT ![u] = "PENDING"] /\ terms' = [terms EXCEPT ![u] = 0]
      /\ frame' = [frame EXCEPT ![h].t = u] /\ Goto(h, "route")
  BY DEF CreateManpower, Insert
<1>2. /\ doc \in [Target -> DocStatus] /\ terms \in [Target -> Terms]
      /\ pc \in [Handler -> Labels] /\ frame \in [Handler -> Frame]
  BY Typed DEF IInv, TypeOK
<1>3. doc'[u] = "PENDING" /\ \A t \in Target \ {u} : doc'[t] = doc[t] /\ terms'[t] = terms[t]
  BY <1>1, <1>2
<1>4. frame'[h].t = u /\ pc'[h] = "route" /\ Alone(h)
  <2>1. frame'[h].t = u
    BY <1>1, <1>2, TargetSet
  <2>2. QED
    BY <1>1, <1>2, <2>1 DEF Goto, Alone
<1>5. ASSUME Right(u, h) PROVE Right(u, h)'
  <2>1. ~ Open(u)
    BY <1>1, <1>5, NotWaiting DEF Right, Mid, WaitSet
  <2>2. ~ Open(u)'
    BY <1>1, <2>1 DEF Open, Of
  <2>3. Current(u)' /\ ~ Scored(u)'
    BY <1>1 DEF Current, Scored
  <2>4. StageOk(u, h)'
    BY <1>3, <1>4, <2>2, <2>3 DEF StageOk, Mid, Exists
  <2>5. QED
    BY <1>4, <2>3, <2>4 DEF Right, Mid
<1>6. QED
  BY <1>1, <1>3, <1>4, <1>5, OwnStep

\* Every request begins so.
LEMMA StartTold ==
  ASSUME IInv, Marks, \A t \in Target : Told(t), NEW h \in Handler, NEW u \in Target, Start(h, u)
  PROVE  \A t \in Target : Told(t)'
<1> DEFINE Goal == \A t \in Target : Told(t)'
           Same == \A g \in Handler \ {h} : local'[g] = local[g]
<1> USE DEF Labels, FlowPc, DocPc, WaitSet
<1>1. local \in [Handler -> Local]
  BY DEF IInv, TypeOK
<1>2. CASE EditRead(h, u)
  <2>1. Begin(h, u, "offer", {"DRAFT"}, "e.update") /\ Quiet /\ Same /\ doc[u] = "DRAFT"
    BY <1>2 DEF EditRead, Begin
  <2>2. QED
    BY <2>1, BeginTold
<1>3. CASE SubmitOffer(h, u)
  <2>1. Begin(h, u, "offer", {"DRAFT"}, "route") /\ Quiet /\ doc[u] = "DRAFT"
    BY <1>3 DEF SubmitOffer, Begin
  <2>2. local'[h].terms = terms[u] /\ Same
    BY <1>1, <1>3, TermsSet DEF SubmitOffer
  <2>3. QED
    BY <2>1, <2>2, BeginTold
<1>4. CASE DeclineRead(h, u)
  <2>1. CASE doc[u] = "PENDING_APPROVAL"
    <3>1. Begin(h, u, "offer", {"DRAFT", "PENDING_APPROVAL", "SENT"}, "c.cancel") /\ Quiet /\ Same
      BY <1>4, <2>1 DEF DeclineRead
    <3>2. QED
      BY <3>1, BeginTold
  <2>2. CASE doc[u] # "PENDING_APPROVAL"
    <3>1. /\ Begin(h, u, "offer", {"DRAFT", "PENDING_APPROVAL", "SENT"}, "c.update") /\ Quiet /\ Same
          /\ doc[u] \in {"DRAFT", "SENT"}
      BY <1>4, <2>2 DEF DeclineRead, Begin
    <3>2. QED
      BY <3>1, BeginTold
  <2>3. QED
    BY <2>1, <2>2
<1>5. CASE AcceptRead(h, u)
  BY <1>5, BeginTold DEF AcceptRead
<1>6. CASE CancelManpower(h, u)
  BY <1>6, BeginTold DEF CancelManpower
<1>7. CASE RequisitionRead(h, u)
  BY <1>7, BeginTold DEF RequisitionRead
<1>8. CASE EnrolRead(h, u, "g.insert")
  BY <1>8, BeginTold DEF EnrolRead
<1>9. CASE EnrolRead(h, u, "h.insert")
  BY <1>9, BeginTold DEF EnrolRead
<1>10. CASE CancelEnrolment(h, u)
  <2>1. CASE doc[u] = "REGISTERED"
    <3>1. Begin(h, u, "enrolment", {"REGISTERED", "CONFIRMED", "CANCELLED"}, "c.cancel") /\ Quiet /\ Same
      BY <1>10, <2>1 DEF CancelEnrolment
    <3>2. QED
      BY <3>1, BeginTold
  <2>2. CASE doc[u] # "REGISTERED"
    <3>1. /\ Begin(h, u, "enrolment", {"REGISTERED", "CONFIRMED", "CANCELLED"}, "c.update") /\ Quiet /\ Same
          /\ doc[u] \in {"CONFIRMED", "CANCELLED"}
      BY <1>10, <2>2 DEF CancelEnrolment, Begin
    <3>2. QED
      BY <3>1, BeginTold
  <2>3. QED
    BY <2>1, <2>2
<1>11. CASE SelfRead(h, u)
  <2>1. Begin(h, u, "review", {"SELF"}, "v.self") /\ Quiet /\ Same /\ doc[u] = "SELF"
    BY <1>11 DEF SelfRead, Begin
  <2>2. QED
    BY <2>1, BeginTold
<1>12. CASE CloseRead(h, u)
  BY <1>12, BeginTold DEF CloseRead
<1>13. ASSUME NEW v \in Terms \ {0}, ManagerRead(h, u, v) PROVE Goal
  <2>1. Begin(h, u, "review", {"MANAGER"}, "v.score") /\ Quiet /\ doc[u] = "MANAGER"
    BY <1>13 DEF ManagerRead, Begin
  <2>2. Same
    BY <1>1, <1>13, TermsSet DEF ManagerRead
  <2>3. QED
    BY <2>1, <2>2, BeginTold
<1>14. ASSUME NEW v \in Terms \ {0}, RateRead(h, u, v) PROVE Goal
  <2>1. Begin(h, u, "round", {"COLLECTING"}, "f.rate") /\ Quiet
    BY <1>14 DEF RateRead
  <2>2. Same
    BY <1>1, <1>14, TermsSet DEF RateRead
  <2>3. QED
    BY <2>1, <2>2, BeginTold
<1>15. QED
  BY <1>2, <1>3, <1>4, <1>5, <1>6, <1>7, <1>8, <1>9, <1>10, <1>11, <1>12, <1>13, <1>14,
     CreateManpowerTold DEF Start

\* What one statement creates has no approval yet; what HR writes waives it.
LEMMA AtOnceTold ==
  ASSUME IInv, Marks, \A t \in Target : Told(t), AtOnce
  PROVE  \A t \in Target : Told(t)'
<1>0. /\ doc \in [Target -> DocStatus] /\ terms \in [Target -> Terms] /\ free \in [Target -> BOOLEAN]
      /\ \A t \in Target : raced[t] => raced'[t]
  BY DEF IInv, TypeOK, Marks
<1>1. UNCHANGED <<inst, pc, frame, kind, ctx, local>>
  BY DEF AtOnce, CreateOffer, CreateReview, CreateRound, Insert, UpdateByHr
<1>2. ASSUME NEW t \in Target, doc'[t] = doc[t], terms'[t] = terms[t], free[t] => free'[t]
      PROVE  Told(t)'
  BY <1>0, <1>1, <1>2, Elsewhere
<1>3. ASSUME NEW u \in Target, NEW s, NEW v,
             doc[u] = "none", doc' = [doc EXCEPT ![u] = s], terms' = [terms EXCEPT ![u] = v],
             free' = free, s \in {"DRAFT", "SELF", "COLLECTING"}
      PROVE  \A t \in Target : Told(t)'
  <2>1. \A t \in Target \ {u} : doc'[t] = doc[t] /\ terms'[t] = terms[t]
    BY <1>0, <1>3
  <2>2. \A t \in Target \ {u} : Told(t)'
    BY <1>2, <1>3, <2>1
  <2>3. ASSUME ~ raced'[u], ~ free'[u]
        PROVE  /\ (\A g \in Handler : frame'[g].t = u => pc'[g] \notin Mid) => Settled(u)'
               /\ Current(u)'
               /\ \A g \in Handler : frame'[g].t = u => StageOk(u, g)'
    <3>1. /\ (\A h \in Handler : frame[h].t = u => pc[h] \notin Mid) => Settled(u)
          /\ \A h \in Handler : frame[h].t = u => StageOk(u, h)
      BY <1>0, <1>3, <2>3 DEF Told
    <3>2. ~ Exists(u) /\ doc[u] \notin WaitSet
      BY <1>3 DEF Exists, WaitSet
    <3>3. ~ Open(u)
      <4>1. CASE \A h \in Handler : frame[h].t = u => pc[h] \notin Mid
        BY <3>1, <3>2, <4>1, NotWaiting
      <4>2. ASSUME NEW h \in Handler, frame[h].t = u, pc[h] \in Mid PROVE ~ Open(u)
        BY <3>1, <3>2, <4>2 DEF StageOk, Mid
      <4>3. QED
        BY <4>1, <4>2
    <3>4. ~ Open(u)' /\ doc'[u] = s
      BY <1>0, <1>1, <1>3, <3>3 DEF Open, Of
    <3>5. Current(u)'
      BY <3>4 DEF Current, Open
    <3>6. Settled(u)'
      BY <1>3, <3>4 DEF Settled, Waits, WaitSet, Final
    <3>7. ASSUME NEW g \in Handler, frame'[g].t = u PROVE StageOk(u, g)'
      <4>1. StageOk(u, g)
        BY <1>1, <3>1, <3>7
      <4>2. pc[g] \notin {"route", "status", "emit", "l.update", "e.update", "v.self", "v.score"}
        BY <1>3, <3>2, <4>1 DEF StageOk
      <4>3. QED
        BY <1>1, <3>4, <4>1, <4>2 DEF StageOk
    <3>8. QED
      BY <3>5, <3>6, <3>7
  <2>4. Told(u)'
    BY <2>3 DEF Told
  <2>5. QED
    BY <2>2, <2>4
<1>4. ASSUME NEW u \in Target, CreateOffer(u) \/ CreateReview(u) \/ CreateRound(u)
      PROVE  \A t \in Target : Told(t)'
  BY <1>3, <1>4 DEF CreateOffer, CreateReview, CreateRound, Insert
<1>5. ASSUME NEW u \in Target, NEW s, UpdateByHr(u, s)
      PROVE  \A t \in Target : Told(t)'
  <2>1. free'[u] /\ \A t \in Target \ {u} : doc'[t] = doc[t] /\ terms'[t] = terms[t] /\ free'[t] = free[t]
    BY <1>0, <1>5 DEF UpdateByHr
  <2>2. Told(u)'
    BY <2>1 DEF Told
  <2>3. QED
    BY <1>2, <2>1, <2>2
<1>6. QED
  BY <1>4, <1>5 DEF AtOnce

\* A handler that ends settles its document.
LEMMA EndTold ==
  ASSUME IInv, Marks, \A t \in Target : Told(t), NEW h \in Handler, NEW u \in Target,
         frame[h].t = u, pc[h] # "idle", End(h),
         kind' = kind, \A t \in Target : free[t] => free'[t],
         \A t \in Target \ {u} : doc'[t] = doc[t] /\ terms'[t] = terms[t],
         \A i \in Instance : \/ inst'[i] = inst[i] /\ ctx'[i] = ctx[i]
                             \/ \A t \in Target \ {u} : i \notin Of(t) /\ i \notin Of(t)',
         ~ raced[u] /\ ~ raced'[u] /\ ~ free'[u] /\ Right(u, h) => Settled(u)' /\ Current(u)'
  PROVE  \A t \in Target : Told(t)'
<1>1. Alone(h) /\ pc'[h] = "idle" /\ \A g \in Handler \ {h} : local'[g] = local[g]
  BY EndType DEF IInv
<1>2. StageOk(u, h)'
  BY <1>1 DEF StageOk, Mid
<1>3. ~ raced[u] /\ ~ free[u] /\ ~ raced'[u] /\ ~ free'[u] /\ Right(u, h) => Right(u, h)'
  BY <1>2 DEF Right
<1>4. QED
  BY <1>1, <1>3, OwnStep

\* A handler that is cut short marks its document.
LEMMA FailTold ==
  ASSUME IInv, Marks, \A t \in Target : Told(t), NEW h \in Handler, Fail(h)
  PROVE  \A t \in Target : Told(t)'
<1>1. PICK u \in Target : u = frame[h].t
  BY Typed DEF IInv
<1>2. /\ pc[h] # "idle" /\ End(h) /\ fails' = fails + 1
      /\ UNCHANGED <<inst, kind, doc, terms, ctx, free>>
  BY DEF Fail
<1>3. fails' # fails
  BY <1>2 DEF IInv, TypeOK
<1>4. raced'[u]
  BY <1>1, <1>2, <1>3 DEF Marks, CutShort
<1>5. QED
  BY <1>1, <1>2, <1>4, EndTold

\* SetDoc writes a document that is there.
LEMMA SetDocWrites ==
  ASSUME doc \in [Target -> DocStatus], NEW t \in Target, NEW s, SetDoc(t, s)
  PROVE  /\ doc'[t] = IF Exists(t) THEN s ELSE doc[t]
         /\ \A u \in Target \ {t} : doc'[u] = doc[u]
BY DEF SetDoc

\* A handler that writes one status, which is not one of waiting, and ends: nothing is
\* open then, and what takes effect was given.
LEMMA SetDocTold ==
  ASSUME IInv, Marks, \A t \in Target : Told(t), NEW h \in Handler, NEW u \in Target, NEW s,
         frame[h].t = u, pc[h] # "idle", End(h), SetDoc(u, s),
         UNCHANGED <<inst, kind, terms, ctx, free>>, s \notin WaitSet,
         ~ raced[u] /\ Right(u, h) => ~ Open(u) /\ (s \in Final => Given(u))
  PROVE  \A t \in Target : Told(t)'
<1>1. /\ doc'[u] = IF Exists(u) THEN s ELSE doc[u]
      /\ \A t \in Target \ {u} : doc'[t] = doc[t]
  BY SetDocWrites DEF IInv, TypeOK
<1>2. /\ Open(u)' <=> Open(u)
      /\ Given(u)' <=> Given(u)
      /\ Current(u)' <=> Current(u)
  BY RowsOfOthers
<1>3. ASSUME ~ raced[u], Right(u, h) PROVE Settled(u)' /\ Current(u)'
  <2>1. doc'[u] \notin WaitSet /\ (doc'[u] \in Final => Given(u))
    BY <1>1, <1>3 DEF Exists, WaitSet, Final
  <2>2. QED
    BY <1>2, <1>3, <2>1 DEF Settled, Waits, Right
<1>4. QED
  BY <1>1, <1>3, EndTold

\* The steps of a service's own handlers.
LEMMA ServiceTold ==
  ASSUME IInv, Marks, \A t \in Target : Told(t), NEW h \in Handler,
         \/ EditUpdate(h) \/ AcceptHire(h) \/ AcceptRefused(h) \/ AcceptUpdate(h)
         \/ CancelApproval(h) \/ CancelUpdate(h) \/ RequisitionInsert(h)
         \/ Register(h) \/ EnrolByHr(h) \/ SelfUpdate(h) \/ ManagerScore(h)
         \/ RateUpdate(h) \/ CloseUpdate(h)
  PROVE  \A t \in Target : Told(t)'
<1> DEFINE Goal == \A t \in Target : Told(t)'
<1>1. PICK u \in Target : u = frame[h].t
  BY Typed DEF IInv
<1>2. /\ TypeOK /\ KindOk(h) /\ Fresh(h) /\ doc \in [Target -> DocStatus] /\ terms \in [Target -> Terms]
      /\ free \in [Target -> BOOLEAN] /\ local \in [Handler -> Local]
  BY DEF IInv, TypeOK
<1>3. \A t \in Target : raced[t] => raced'[t]
  BY DEF Marks
<1>4. CASE RequisitionInsert(h) \/ AcceptRefused(h)
  <2>1. /\ End(h) /\ pc[h] \in {"q.insert", "a.hire"}
        /\ UNCHANGED <<inst, kind, doc, terms, ctx, free>>
    BY <1>4 DEF RequisitionInsert, AcceptRefused, Quiet
  <2>2. Right(u, h) => Settled(u)' /\ Current(u)'
    BY <2>1, RowsOfOthers DEF Right, Mid, Settled, Waits
  <2>3. QED
    BY <1>1, <2>1, <2>2, EndTold
<1>5. CASE EditUpdate(h)
  <2>1. /\ End(h) /\ pc[h] = "e.update" /\ UNCHANGED <<inst, kind, doc, ctx, free>>
        /\ \A t \in Target \ {u} : terms'[t] = terms[t]
    BY <1>1, <1>2, <1>5 DEF EditUpdate
  <2>2. ASSUME Right(u, h) PROVE Settled(u)' /\ Current(u)'
    <3>1. doc[u] = "DRAFT" /\ ~ Open(u)
      BY <2>1, <2>2, NotWaiting DEF Right, StageOk, Mid, WaitSet
    <3>2. ~ Open(u)'
      BY <2>1, <3>1 DEF Open, Of
    <3>3. QED
      BY <2>1, <3>1, <3>2 DEF Settled, Waits, WaitSet, Final, Current, Open
  <2>3. QED
    BY <1>1, <2>1, <2>2, EndTold
<1>6. CASE RateUpdate(h)
  <2>1. /\ End(h) /\ pc[h] = "f.rate" /\ UNCHANGED <<inst, kind, doc, ctx, free>>
        /\ \A t \in Target \ {u} : terms'[t] = terms[t]
    BY <1>1, <1>2, <1>6 DEF RateUpdate
  <2>2. ASSUME ~ raced[u], Right(u, h) PROVE Settled(u)' /\ Current(u)'
    <3>1. doc[u] = "COLLECTING" /\ kind[u] = "round" /\ ~ Open(u)
      BY <1>1, <1>2, <2>1, <2>2, NotWaiting DEF Right, Mid, WaitSet, Fresh, KindOk
    <3>2. ~ Open(u)'
      BY <2>1, <3>1 DEF Open, Of
    <3>3. QED
      BY <2>1, <3>1, <3>2 DEF Settled, Waits, WaitSet, Final, Current, Open
  <2>3. QED
    BY <1>1, <2>1, <2>2, EndTold
<1>7. CASE AcceptUpdate(h)
  <2>1. /\ End(h) /\ SetDoc(u, "ACCEPTED") /\ pc[h] = "a.update"
        /\ UNCHANGED <<inst, kind, terms, ctx, free>>
    BY <1>1, <1>7 DEF AcceptUpdate
  <2>2. ~ raced[u] /\ Right(u, h) => ~ Open(u) /\ Given(u)
    <3>1. ~ raced[u] => doc[u] = "SENT"
      BY <1>1, <1>2, <2>1 DEF Fresh
    <3>2. QED
      BY <2>1, <3>1, NotWaiting DEF Right, Mid, Settled, WaitSet, Final
  <2>3. QED
    BY <1>1, <2>1, <2>2, SetDocTold DEF WaitSet
<1>8. CASE CancelUpdate(h)
  <2>1. PICK s \in {"DECLINED", "CANCELLED"} : SetDoc(u, s)
    BY <1>1, <1>8 DEF CancelUpdate
  <2>2. End(h) /\ pc[h] = "c.update" /\ UNCHANGED <<inst, kind, terms, ctx, free>>
    BY <1>8 DEF CancelUpdate
  <2>3. Right(u, h) => ~ Open(u)
    BY <2>2 DEF Right, StageOk, Mid
  <2>4. QED
    BY <1>1, <2>1, <2>2, <2>3, SetDocTold DEF WaitSet, Final
<1>9. CASE SelfUpdate(h)
  <2>1. End(h) /\ SetDoc(u, "MANAGER") /\ pc[h] = "v.self" /\ UNCHANGED <<inst, kind, terms, ctx, free>>
    BY <1>1, <1>9 DEF SelfUpdate
  <2>2. Right(u, h) => ~ Open(u)
    BY <2>1, NotWaiting DEF Right, StageOk, Mid, WaitSet
  <2>3. QED
    BY <1>1, <2>1, <2>2, SetDocTold DEF WaitSet, Final
<1>10. CASE CloseUpdate(h)
  <2>1. End(h) /\ SetDoc(u, "CLOSED") /\ pc[h] = "f.close" /\ UNCHANGED <<inst, kind, terms, ctx, free>>
    BY <1>1, <1>10 DEF CloseUpdate
  <2>2. doc[u] \notin WaitSet
    <3>1. kind[u] = "round" /\ (Exists(u) => doc[u] \in Statuses["round"])
      BY <1>1, <1>2, <2>1 DEF KindOk, TypeOK
    <3>2. QED
      BY <3>1, StatusSets DEF Exists, WaitSet
  <2>3. Right(u, h) => ~ Open(u)
    BY <2>1, <2>2, NotWaiting DEF Right, Mid
  <2>4. QED
    BY <1>1, <2>1, <2>3, SetDocTold DEF WaitSet, Final
<1>11. CASE AcceptHire(h)
  <2>1. /\ pc[h] = "a.hire" /\ Goto(h, "a.update") /\ UNCHANGED <<frame, local>>
        /\ UNCHANGED <<inst, kind, doc, terms, ctx, free>>
    BY <1>11 DEF AcceptHire, Continue
  <2>2. Alone(h) /\ pc'[h] = "a.update"
    BY <1>2, <2>1, GotoType DEF Labels, DocPc
  <2>3. Right(u, h) => Settled(u) /\ StageOk(u, h)'
    BY <2>1, <2>2 DEF Right, StageOk, Mid
  <2>4. QED
    BY <1>1, <2>1, <2>2, <2>3, StillStep
<1>12. CASE CancelApproval(h)
  <2>1. /\ pc[h] = "c.cancel" /\ Goto(h, "c.update") /\ UNCHANGED <<frame, local>>
        /\ CancelByTarget(u) /\ UNCHANGED <<kind, doc, terms, ctx, free>>
    BY <1>1, <1>12 DEF CancelApproval, Continue
  <2>2. Alone(h) /\ pc'[h] = "c.update"
    BY <1>2, <2>1, GotoType DEF Labels, DocPc
  <2>3. /\ ~ Open(u)'
        /\ \A i \in Instance : \/ inst'[i] = inst[i]
                               \/ \A t \in Target \ {u} : i \notin Of(t) /\ i \notin Of(t)'
    <3>1. \A i \in Instance : /\ inst[i] \in Row
                              /\ IF inst[i].target = u /\ inst[i].status = "PENDING"
                                 THEN inst'[i] = [inst[i] EXCEPT !.status = "CANCELLED"]
                                 ELSE inst'[i] = inst[i]
      BY <1>2, <2>1 DEF CancelByTarget, TypeOK
    <3>2. \A i \in Instance : \/ inst'[i] = inst[i] /\ ~ (inst[i].target = u /\ inst[i].status = "PENDING")
                              \/ inst[i].target = u /\ inst'[i].target = u /\ inst'[i].status = "CANCELLED"
      BY <3>1 DEF Row
    <3>3. QED
      BY <3>2 DEF Open, Of
  <2>4. Right(u, h)'
    BY <2>2, <2>3 DEF Right, StageOk, Mid, Current, Open
  <2>5. QED
    BY <1>1, <2>1, <2>2, <2>3, <2>4, OwnStep
<1>13. CASE ManagerScore(h)
  <2>1. /\ pc[h] = "v.score" /\ Goto(h, "route") /\ UNCHANGED <<frame, local>>
        /\ terms' = [terms EXCEPT ![u] = local[h].terms] /\ UNCHANGED <<inst, kind, doc, ctx, free>>
    BY <1>1, <1>13 DEF ManagerScore, Continue
  <2>2. Alone(h) /\ pc'[h] = "route"
    BY <1>2, <2>1, GotoType DEF Labels, FlowPc
  <2>3. terms'[u] = local[h].terms /\ \A t \in Target \ {u} : terms'[t] = terms[t]
    BY <1>2, <2>1
  <2>4. ASSUME Right(u, h) PROVE Right(u, h)'
    <3>1. doc[u] = "MANAGER" /\ ~ Open(u)
      BY <2>1, <2>4, NotWaiting DEF Right, StageOk, Mid, WaitSet
    <3>2. ~ Open(u)'
      BY <2>1, <3>1 DEF Open, Of
    <3>3. QED
      BY <2>1, <2>2, <2>3, <3>1, <3>2 DEF Right, StageOk, Mid, Current, Open, Exists
  <2>5. QED
    BY <1>1, <2>1, <2>2, <2>3, <2>4, OwnStep
<1>14. CASE Register(h)
  <2>1. pc[h] = "g.insert" /\ kind[u] = "enrolment"
    BY <1>1, <1>2, <1>14 DEF Register, KindOk
  <2>2. CASE doc[u] = "none"
    <3>1. /\ Goto(h, "route") /\ UNCHANGED <<inst, kind, ctx, free, frame, local>>
          /\ doc' = [doc EXCEPT ![u] = "REGISTERED"] /\ terms' = [terms EXCEPT ![u] = 0]
      BY <1>1, <1>14, <2>2 DEF Register, Insert, Continue
    <3>2. /\ doc'[u] = "REGISTERED"
          /\ \A t \in Target \ {u} : doc'[t] = doc[t] /\ terms'[t] = terms[t]
      BY <1>2, <3>1
    <3>3. Alone(h) /\ pc'[h] = "route"
      BY <1>2, <3>1, GotoType DEF Labels, FlowPc
    <3>4. ASSUME Right(u, h) PROVE Right(u, h)'
      <4>1. ~ Open(u)
        BY <2>1, <2>2, <3>4, NotWaiting DEF Right, Mid, WaitSet
      <4>2. ~ Open(u)' /\ ~ Scored(u)'
        BY <2>1, <3>1, <4>1 DEF Open, Of, Scored
      <4>3. QED
        BY <3>2, <3>3, <4>2 DEF Right, StageOk, Mid, Current, Exists
    <3>5. QED
      BY <1>1, <2>1, <3>1, <3>2, <3>3, <3>4, OwnStep
  <2>3. CASE doc[u] # "none"
    <3>1. End(h) /\ UNCHANGED <<inst, kind, doc, terms, ctx, free>>
      BY <1>1, <1>14, <2>3 DEF Register, Quiet
    <3>2. Right(u, h) => Settled(u)' /\ Current(u)'
      BY <2>1, <3>1, RowsOfOthers DEF Right, Mid, Settled, Waits
    <3>3. QED
      BY <1>1, <2>1, <3>1, <3>2, EndTold
  <2>4. QED
    BY <2>2, <2>3
<1>15. CASE EnrolByHr(h)
  <2>1. pc[h] = "h.insert" /\ End(h) /\ UNCHANGED <<inst, kind, terms, ctx>>
    BY <1>15 DEF EnrolByHr
  <2>2. CASE doc[u] = "none"
    <3>1. free'[u] /\ \A t \in Target \ {u} : doc'[t] = doc[t] /\ free'[t] = free[t]
      BY <1>1, <1>2, <1>15, <2>2 DEF EnrolByHr
    <3>2. \A t \in Target : free[t] => free'[t]
      BY <3>1
    <3>3. QED
      BY <1>1, <2>1, <3>1, <3>2, EndTold
  <2>3. CASE doc[u] # "none"
    <3>1. UNCHANGED <<doc, free>>
      BY <1>1, <1>15, <2>3 DEF EnrolByHr
    <3>2. Right(u, h) => Settled(u)' /\ Current(u)'
      BY <2>1, <3>1, RowsOfOthers DEF Right, Mid, Settled, Waits
    <3>3. QED
      BY <1>1, <2>1, <3>1, <3>2, EndTold
  <2>4. QED
    BY <2>2, <2>3
<1>16. QED
  BY <1>4, <1>5, <1>6, <1>7, <1>8, <1>9, <1>10, <1>11, <1>12, <1>13, <1>14, <1>15

-----------------------------------------------------------------------------
(* Asking for an approval. *)

\* The row createInstance inserts, and what it has seen of the others.
LEMMA CreatedRow ==
  ASSUME EngineTypeOK, NEW i \in Instance, NEW t \in Target,
         NEW resolved \in [Step -> Resolution],
         CreatePending(i, t, resolved) \/ CreateApproved(i, t, resolved)
  PROVE  /\ inst[i].status = "none" /\ PendingKeyFree(i, t)
         /\ inst'[i].target = t
         /\ CreatePending(i, t, resolved) => inst'[i].status = "PENDING"
         /\ CreateApproved(i, t, resolved) => inst'[i].status = "APPROVED" /\ inst'[i].current = 0
         /\ \A j \in Instance \ {i} : inst'[j] = inst[j]
<1>1. inst \in [Instance -> Row]
  BY DEF EngineTypeOK
<1>2. \A s, c : /\ NewRow(t, resolved, s, c).status = s
                /\ NewRow(t, resolved, s, c).current = c
                /\ NewRow(t, resolved, s, c).target = t
  BY DEF NewRow, NoRow
<1>3. inst[i].status = "none" /\ PendingKeyFree(i, t)
  BY DEF CreatePending, CreateApproved
<1>4. \E s, c : /\ inst' = [inst EXCEPT ![i] = NewRow(t, resolved, s, c)]
                /\ CreatePending(i, t, resolved) => s = "PENDING"
                /\ CreateApproved(i, t, resolved) => s = "APPROVED" /\ c = 0
  <2>1. CASE CreateApproved(i, t, resolved) /\ ~ CreatePending(i, t, resolved)
    BY <2>1 DEF CreateApproved
  <2>2. CASE CreatePending(i, t, resolved)
    <3>1. ~ CreateApproved(i, t, resolved)
      BY <2>2 DEF CreatePending, CreateApproved, IsNext
    <3>2. QED
      BY <2>2, <3>1 DEF CreatePending
  <2>3. QED
    BY <2>1, <2>2
<1>5. PICK s, c : /\ inst' = [inst EXCEPT ![i] = NewRow(t, resolved, s, c)]
                  /\ CreatePending(i, t, resolved) => s = "PENDING"
                  /\ CreateApproved(i, t, resolved) => s = "APPROVED" /\ c = 0
  BY <1>4
<1>6. inst'[i] = NewRow(t, resolved, s, c) /\ \A j \in Instance \ {i} : inst'[j] = inst[j]
  BY <1>1, <1>5
<1>7. QED
  BY <1>2, <1>3, <1>5, <1>6

\* A row for u while none is open: PENDING for the terms u has, or approved at once with
\* no step.
LEMMA CreatedTells ==
  ASSUME EngineTypeOK, ctx \in [Instance -> Terms], NEW i \in Instance, NEW u \in Target,
         NEW h \in Handler, NEW resolved \in [Step -> Resolution],
         CreatePending(i, u, resolved) \/ CreateApproved(i, u, resolved),
         ctx' = [ctx EXCEPT ![i] = local[h].terms], UNCHANGED <<kind, terms>>,
         ~ Open(u), Scored(u) => local[h].terms = terms[u]
  PROVE  /\ Current(u)' /\ i \in Of(u)'
         /\ \A j \in Instance : \/ inst'[j] = inst[j] /\ ctx'[j] = ctx[j]
                                \/ \A t \in Target \ {u} : j \notin Of(t) /\ j \notin Of(t)'
         /\ Scored(u) => ctx'[i] = terms'[u]
         /\ CreatePending(i, u, resolved) => Open(u)'
         /\ CreateApproved(i, u, resolved) =>
              /\ ~ Open(u)' /\ ~ Numbered(u)' /\ inst'[i].status = "APPROVED"
              /\ Scored(u) => Given(u)'
<1>1. /\ inst[i].status = "none" /\ inst'[i].target = u
      /\ CreatePending(i, u, resolved) => inst'[i].status = "PENDING"
      /\ CreateApproved(i, u, resolved) => inst'[i].status = "APPROVED" /\ inst'[i].current = 0
      /\ \A j \in Instance \ {i} : inst'[j] = inst[j]
  BY CreatedRow
<1>2. ctx'[i] = local[h].terms /\ \A j \in Instance \ {i} : ctx'[j] = ctx[j]
  OBVIOUS
<1>3. inst'[i].status \in {"PENDING", "APPROVED"} /\ i \in Of(u)'
  BY <1>1 DEF Of
<1>4. \A j \in Instance \ {i} : j \in Of(u)' => j \in Of(u) /\ inst'[j].status # "PENDING"
  BY <1>1 DEF Of, Open
<1>5. Scored(u)' <=> Scored(u)
  BY DEF Scored
<1>6. Scored(u) => ctx'[i] = terms'[u]
  BY <1>2
<1>7. Current(u)'
  <2>1. \A j \in Of(u)' : j \in Instance
    BY DEF Of
  <2>2. QED
    BY <1>4, <1>5, <1>6, <2>1 DEF Current
<1>8. \A j \in Instance : \/ inst'[j] = inst[j] /\ ctx'[j] = ctx[j]
                          \/ \A t \in Target \ {u} : j \notin Of(t) /\ j \notin Of(t)'
  BY <1>1, <1>2 DEF Of
<1>9. CreatePending(i, u, resolved) => Open(u)'
  BY <1>1, <1>3 DEF Open
<1>10. CreateApproved(i, u, resolved) => ~ Open(u)' /\ ~ Numbered(u)' /\ (Scored(u) => Given(u)')
  <2>1. \A j \in Of(u)' : j \in Instance
    BY DEF Of
  <2>2. QED
    BY <1>1, <1>3, <1>4, <1>6, <2>1 DEF Open, Numbered, Given
<1>11. QED
  BY <1>1, <1>3, <1>6, <1>7, <1>8, <1>9, <1>10

\* What a service passes to createInstance settles a document of its kind.
Settles(k, pending, approved) ==
  /\ Passes(k, pending, approved)
  /\ pending = "none" => k = "manpower"
  /\ approved = "none" => k = "manpower"
  /\ pending # "none" => pending \in WaitSet
  /\ approved \in Final => k \in {"offer", "review"}

\* createInstance of a service.
LEMMA RouteTold ==
  ASSUME IInv, Marks, \A t \in Target : Told(t), NEW h \in Handler,
         NEW k, NEW pending, NEW approved, Settles(k, pending, approved),
         Route(h, k, pending, approved)
  PROVE  \A t \in Target : Told(t)'
<1>1. PICK u \in Target : u = frame[h].t
  BY Typed DEF IInv
<1>2. /\ pc[h] = "route" /\ kind[u] = k /\ UNCHANGED <<actions, kind, doc, terms, free>>
  BY <1>1 DEF Route
<1>3. PICK i \in Instance, resolved \in [Step -> Resolution] :
        /\ ctx' = [ctx EXCEPT ![i] = local[h].terms]
        /\ \/ /\ CreatePending(i, u, resolved)
              /\ IF pending = "none"
                 THEN End(h)
                 ELSE /\ local' = [local EXCEPT ![h].next = pending]
                      /\ Goto(h, "status") /\ UNCHANGED frame
           \/ /\ CreateApproved(i, u, resolved)
              /\ local' = [local EXCEPT ![h].next = approved]
              /\ Announce(h, i, u, "APPROVED")
  BY <1>1 DEF Route
<1>4. /\ TypeOK /\ EngineTypeOK /\ ctx \in [Instance -> Terms] /\ local \in [Handler -> Local]
      /\ pc \in [Handler -> Labels] /\ frame \in [Handler -> Frame]
      /\ pending \in DocStatus /\ approved \in DocStatus
      /\ Exists(u) => doc[u] \in Statuses[k]
  BY <1>2, Typed, PassesType DEF IInv, TypeOK, Settles, Passes
<1>5. \A j \in Instance : \/ inst'[j] = inst[j] /\ ctx'[j] = ctx[j]
                          \/ \A t \in Target \ {u} : j \notin Of(t) /\ j \notin Of(t)'
  <2>1. inst'[i].target = u /\ inst[i].status = "none" /\ \A j \in Instance \ {i} : inst'[j] = inst[j]
    BY <1>3, <1>4, CreatedRow
  <2>2. \A j \in Instance \ {i} : ctx'[j] = ctx[j]
    BY <1>3, <1>4
  <2>3. QED
    BY <2>1, <2>2 DEF Of
<1>6. ASSUME Right(u, h)
      PROVE  /\ ~ Open(u) /\ Exists(u) /\ (Scored(u) => local[h].terms = terms[u])
             /\ k = "manpower" => doc[u] = "PENDING"
  <2>1. /\ ~ Open(u) /\ Exists(u) /\ (Scored(u) => local[h].terms = terms[u])
        /\ doc[u] \in {"DRAFT", "PENDING", "REGISTERED", "MANAGER"}
    BY <1>2, <1>6 DEF Right, StageOk, Mid
  <2>2. QED
    BY <1>4, <2>1, StatusSets
<1>7. Right(u, h) => /\ Current(u)' /\ i \in Of(u)' /\ (Scored(u) => ctx'[i] = terms'[u])
                     /\ CreatePending(i, u, resolved) => Open(u)'
                     /\ CreateApproved(i, u, resolved) =>
                          /\ ~ Open(u)' /\ ~ Numbered(u)' /\ inst'[i].status = "APPROVED"
                          /\ Scored(u) => Given(u)'
  <2>1. CreatePending(i, u, resolved) \/ CreateApproved(i, u, resolved)
    BY <1>3
  <2>2. QED
    BY <1>2, <1>3, <1>4, <1>6, <2>1, CreatedTells
<1>8. CASE CreatePending(i, u, resolved) /\ pending = "none" /\ End(h)
  <2>1. Right(u, h) => Settled(u)' /\ Current(u)'
    BY <1>2, <1>6, <1>7, <1>8 DEF Settled, Waits, WaitSet, Final, Settles
  <2>2. QED
    BY <1>1, <1>2, <1>5, <1>8, <2>1, EndTold
<1>9. CASE /\ CreatePending(i, u, resolved) /\ pending # "none"
           /\ local' = [local EXCEPT ![h].next = pending]
           /\ Goto(h, "status") /\ UNCHANGED frame
  <2>1. local'[h].next = pending /\ \A g \in Handler \ {h} : local'[g] = local[g]
    BY <1>4, <1>9, NextSet
  <2>2. Alone(h) /\ pc'[h] = "status"
    BY <1>4, <1>9, GotoType DEF Labels, FlowPc
  <2>3. pending \in WaitSet /\ pending \notin Final
    BY <1>9 DEF Settles, WaitSet, Final
  <2>4. ASSUME Right(u, h) PROVE Right(u, h)'
    <3>1. Exists(u)' /\ Open(u)' /\ Current(u)'
      BY <1>2, <1>6, <1>7, <1>9, <2>4 DEF Exists
    <3>2. NextOk(u, h)'
      BY <2>1, <2>3, <3>1 DEF NextOk
    <3>3. StageOk(u, h)'
      BY <2>2, <3>1, <3>2 DEF StageOk, Mid
    <3>4. QED
      BY <2>2, <3>1, <3>3 DEF Right, Mid
  <2>5. QED
    BY <1>1, <1>2, <1>5, <1>9, <2>1, <2>2, <2>4, OwnStep
<1>10. CASE /\ CreateApproved(i, u, resolved)
            /\ local' = [local EXCEPT ![h].next = approved]
            /\ Announce(h, i, u, "APPROVED")
  <2>1. local'[h].next = approved /\ \A g \in Handler \ {h} : local'[g] = local[g]
    BY <1>4, <1>10, NextSet
  <2>2. Alone(h) /\ pc'[h] = "emit" /\ frame'[h].i = i /\ frame'[h].t = u
    BY <1>4, <1>10, AnnounceAlone DEF Labels, EnginePc
  <2>3. ASSUME Right(u, h) PROVE Right(u, h)'
    <3>1. /\ Exists(u)' /\ ~ Open(u)' /\ ~ Numbered(u)' /\ Current(u)'
          /\ inst'[i].status = "APPROVED" /\ (Scored(u) => Given(u)' /\ ctx'[i] = terms'[u])
      BY <1>2, <1>6, <1>7, <1>10, <2>3 DEF Exists
    <3>2. NextOk(u, h)'
      BY <1>2, <2>1, <3>1 DEF NextOk, Settles, Scored
    <3>3. approved = "none" => Waits(u)'
      BY <1>2, <1>6, <2>3 DEF Settles, Waits, WaitSet
    <3>4. Scored(u)' <=> Scored(u)
      BY <1>2 DEF Scored
    <3>5. StageOk(u, h)'
      BY <2>1, <2>2, <3>1, <3>2, <3>3, <3>4 DEF StageOk, Mid
    <3>6. QED
      BY <2>2, <3>1, <3>5 DEF Right, Mid
  <2>4. QED
    BY <1>1, <1>2, <1>5, <2>1, <2>2, <2>3, OwnStep
<1>11. QED
  BY <1>3, <1>8, <1>9, <1>10

\* The services' calls of createInstance, and what they do when it throws: a request
\* that comes alone finds no approval open, and one that breaks is marked.
LEMMA AskTold ==
  ASSUME IInv, Marks, \A t \in Target : Told(t), NEW h \in Handler,
         \/ RouteOffer(h) \/ RouteManpower(h) \/ RouteEnrolment(h) \/ RouteReview(h)
         \/ RouteNoFlow(h) \/ RouteRefused(h) \/ RouteBreaks(h)
  PROVE  \A t \in Target : Told(t)'
<1>1. PICK u \in Target : u = frame[h].t
  BY Typed DEF IInv
<1>2. /\ TypeOK /\ EngineTypeOK /\ free \in [Target -> BOOLEAN] /\ local \in [Handler -> Local]
      /\ fails \in Nat /\ (Exists(u) => doc[u] \in Statuses[kind[u]])
      /\ ctx \in [Instance -> Terms]
  BY Typed DEF IInv, TypeOK
<1>3. CASE RouteOffer(h) \/ RouteManpower(h) \/ RouteEnrolment(h) \/ RouteReview(h)
  <2>1. /\ Settles("offer", "PENDING_APPROVAL", "PENDING_APPROVAL")
        /\ Settles("manpower", "none", "none")
        /\ Settles("enrolment", "REGISTERED", "CONFIRMED")
        /\ Settles("review", "CALIBRATION", "DONE")
    BY StatusSets DEF Settles, Passes, Kind, InEffect, WaitSet, Final
  <2>2. QED
    BY <1>3, <2>1, RouteTold DEF RouteOffer, RouteManpower, RouteEnrolment, RouteReview
<1>4. ASSUME pc[h] = "route", Thrown(h), UNCHANGED <<kind, doc, terms>>,
             \A t \in Target : free[t] => free'[t],
             \A i \in Instance : \/ inst'[i] = inst[i] /\ ctx'[i] = ctx[i]
                                 \/ \A t \in Target \ {u} : i \notin Of(t) /\ i \notin Of(t)',
             raced'[u] \/ UNCHANGED <<inst, ctx>>
      PROVE  \A t \in Target : Told(t)'
  <2>1. ASSUME ~ raced'[u], Right(u, h)
        PROVE  /\ ~ Open(u)' /\ Current(u)' /\ (Open(u)' <=> Open(u)) /\ (Given(u)' <=> Given(u))
               /\ doc[u] \in {"DRAFT", "PENDING", "REGISTERED", "MANAGER"} /\ Exists(u)
    BY <1>4, <2>1, RowsOfOthers DEF Right, StageOk, Mid
  <2>2. CASE kind[u] \in {"manpower", "enrolment"}
    <3>1. Goto(h, "delete") /\ UNCHANGED <<frame, local>>
      BY <1>1, <1>4, <2>2 DEF Thrown, Continue
    <3>2. Alone(h) /\ pc'[h] = "delete"
      BY <1>2, <3>1, GotoType DEF Labels, FlowPc
    <3>3. ~ raced'[u] /\ Right(u, h) => Right(u, h)'
      BY <2>1, <3>2 DEF Right, StageOk, Mid
    <3>4. QED
      BY <1>1, <1>4, <3>1, <3>2, <3>3, OwnStep
  <2>3. CASE kind[u] \notin {"manpower", "enrolment"}
    <3>1. End(h)
      BY <1>1, <1>4, <2>3 DEF Thrown
    <3>2. ASSUME ~ raced'[u], Right(u, h) PROVE Settled(u)' /\ Current(u)'
      <4>1. kind[u] \in Kind
        BY <1>2 DEF TypeOK
      <4>2. doc[u] \in {"DRAFT", "MANAGER"}
        <5>1. doc[u] \in Statuses[kind[u]] /\ kind[u] \in {"offer", "review", "round", "unused"}
          <6>1. Exists(u)
            BY <2>1, <3>2
          <6>2. QED
            BY <1>2, <2>3, <4>1, <6>1 DEF Kind
        <5>2. doc[u] \in {"DRAFT", "PENDING", "REGISTERED", "MANAGER"}
          BY <2>1, <3>2
        <5>3. QED
          BY <5>1, <5>2, StatusSets
      <4>3. QED
        BY <1>4, <2>1, <3>2, <4>2 DEF Settled, Waits, WaitSet, Final
    <3>3. QED
      BY <1>1, <1>4, <3>1, <3>2, EndTold
  <2>4. QED
    BY <2>2, <2>3
<1>5. CASE RouteNoFlow(h)
  <2>1. pc[h] = "route" /\ UNCHANGED <<inst, kind, doc, terms, ctx>>
        /\ \A t \in Target : free[t] => free'[t]
    BY <1>1, <1>2, <1>5 DEF RouteNoFlow
  <2>2. CASE Thrown(h)
    BY <1>4, <2>1, <2>2
  <2>3. ASSUME NEW s \in DocStatus, local' = [local EXCEPT ![h].next = s], free'[u],
               Goto(h, "status"), UNCHANGED frame
        PROVE  \A t \in Target : Told(t)'
    <3>1. Alone(h) /\ \A g \in Handler \ {h} : local'[g] = local[g]
      BY <1>2, <2>3, GotoType, NextSet DEF Labels, FlowPc
    <3>2. QED
      BY <1>1, <2>1, <2>3, <3>1, OwnStep
  <2>4. "CONFIRMED" \in DocStatus /\ "DONE" \in DocStatus
    BY StatusSets DEF DocStatus, Kind
  <2>5. \/ Thrown(h)
        \/ \E s \in DocStatus : /\ local' = [local EXCEPT ![h].next = s] /\ free'[u]
                                /\ Goto(h, "status") /\ UNCHANGED frame
    BY <1>1, <1>2, <1>5, <2>4 DEF RouteNoFlow
  <2>6. QED
    BY <2>2, <2>3, <2>5
<1>6. CASE RouteRefused(h)
  BY <1>1, <1>4, <1>6 DEF RouteRefused
<1>7. CASE RouteBreaks(h)
  <2>1. /\ pc[h] = "route" /\ fails' = fails + 1 /\ Thrown(h)
        /\ UNCHANGED <<actions, kind, doc, terms, free>>
    BY <1>7 DEF RouteBreaks
  <2>2. PICK i \in Instance, resolved \in [Step -> Resolution] :
          CreatePending(i, u, resolved) /\ ctx' = [ctx EXCEPT ![i] = local[h].terms]
    BY <1>1, <1>7 DEF RouteBreaks
  <2>3. \A j \in Instance : \/ inst'[j] = inst[j] /\ ctx'[j] = ctx[j]
                            \/ \A t \in Target \ {u} : j \notin Of(t) /\ j \notin Of(t)'
    <3>1. inst'[i].target = u /\ inst[i].status = "none" /\ \A j \in Instance \ {i} : inst'[j] = inst[j]
      BY <1>2, <2>2, CreatedRow
    <3>2. \A j \in Instance \ {i} : ctx'[j] = ctx[j]
      BY <1>2, <2>2
    <3>3. QED
      BY <3>1, <3>2 DEF Of
  <2>4. fails' # fails
    BY <1>2, <2>1
  <2>5. raced'[u]
    BY <1>1, <2>1, <2>4 DEF Marks, CutShort
  <2>6. QED
    BY <1>4, <2>1, <2>3, <2>5
<1>8. QED
  BY <1>3, <1>5, <1>6, <1>7

\* The writes after createInstance.
LEMMA AfterTold ==
  ASSUME IInv, Marks, \A t \in Target : Told(t), NEW h \in Handler,
         StatusUpdate(h) \/ DeleteDoc(h)
  PROVE  \A t \in Target : Told(t)'
<1>1. PICK u \in Target : u = frame[h].t
  BY Typed DEF IInv
<1>2. CASE StatusUpdate(h)
  <2>1. /\ pc[h] = "status" /\ SetDoc(u, local[h].next) /\ End(h)
        /\ UNCHANGED <<inst, kind, terms, ctx, free>>
    BY <1>1, <1>2 DEF StatusUpdate
  <2>2. /\ doc'[u] = IF Exists(u) THEN local[h].next ELSE doc[u]
        /\ \A t \in Target \ {u} : doc'[t] = doc[t]
    BY <2>1, SetDocWrites DEF IInv, TypeOK
  <2>3. /\ Open(u)' <=> Open(u)
        /\ Numbered(u)' <=> Numbered(u)
        /\ Given(u)' <=> Given(u)
        /\ Current(u)' <=> Current(u)
    BY <2>1, RowsOfOthers
  <2>4. ASSUME Right(u, h) PROVE Settled(u)' /\ Current(u)'
    <3>1. Exists(u) /\ NextOk(u, h) /\ Current(u)
      BY <2>1, <2>4 DEF Right, StageOk
    <3>2. QED
      BY <2>2, <2>3, <3>1 DEF NextOk, Settled, Waits
  <2>5. QED
    BY <1>1, <2>1, <2>2, <2>4, EndTold
<1>3. CASE DeleteDoc(h)
  <2>1. /\ pc[h] = "delete" /\ SetDoc(u, "deleted") /\ End(h)
        /\ UNCHANGED <<inst, kind, terms, ctx, free>>
    BY <1>1, <1>3 DEF DeleteDoc
  <2>2. Right(u, h) => ~ Open(u)
    BY <2>1 DEF Right, StageOk, Mid
  <2>3. QED
    BY <1>1, <2>1, <2>2, SetDocTold DEF WaitSet, Final
<1>4. QED
  BY <1>2, <1>3

-----------------------------------------------------------------------------
(* The listeners, and decide. *)

\* Where a listener returns to: the service's own createInstance, if that called it.
LEMMA ListenedTold ==
  ASSUME IInv, Marks, \A t \in Target : Told(t), NEW h \in Handler, NEW u \in Target,
         frame[h].t = u, pc[h] \in {"emit", "l.update"}, Listened(h),
         UNCHANGED <<inst, kind, terms, ctx, free>>,
         \A t \in Target \ {u} : doc'[t] = doc[t],
         local[h].next = "none" /\ ~ raced[u] /\ Right(u, h) =>
           doc'[u] \notin WaitSet /\ (doc'[u] \in Final => Given(u)),
         Exists(u) => Exists(u)'
  PROVE  \A t \in Target : Told(t)'
<1>1. /\ Open(u)' <=> Open(u)
      /\ Numbered(u)' <=> Numbered(u)
      /\ Given(u)' <=> Given(u)
      /\ Current(u)' <=> Current(u)
  BY RowsOfOthers
<1>2. Right(u, h) => ~ Open(u) /\ Exists(u) /\ Current(u) /\ (local[h].next # "none" => NextOk(u, h))
  BY DEF Right, StageOk, Mid
<1>3. CASE local[h].next = "none"
  <2>1. End(h)
    BY <1>3 DEF Listened
  <2>2. ~ raced[u] /\ Right(u, h) => Settled(u)' /\ Current(u)'
    BY <1>1, <1>2, <1>3 DEF Settled, Waits
  <2>3. QED
    BY <2>1, <2>2, EndTold
<1>4. CASE local[h].next # "none"
  <2>1. local' = [local EXCEPT ![h].apply = "none"] /\ Goto(h, "status") /\ UNCHANGED frame
    BY <1>4 DEF Listened
  <2>2. /\ local \in [Handler -> Local] /\ "none" \in DocStatus /\ "status" \in Labels /\ TypeOK
    BY DEF IInv, TypeOK, DocStatus, Labels, FlowPc
  <2>3. /\ Alone(h) /\ pc'[h] = "status" /\ local'[h].next = local[h].next
        /\ \A g \in Handler \ {h} : local'[g] = local[g]
    BY <2>1, <2>2, GotoType, ApplySet
  <2>4. ASSUME Right(u, h) PROVE Right(u, h)'
    <3>1. NextOk(u, h)'
      BY <1>1, <1>2, <1>4, <2>3, <2>4 DEF NextOk
    <3>2. QED
      BY <1>1, <1>2, <2>3, <2>4, <3>1 DEF Right, StageOk, Mid
  <2>5. QED
    BY <2>1, <2>3, <2>4, OwnStep
<1>5. QED
  BY <1>3, <1>4

\* What a listener writes settles a document of its kind.
Applies(k, waits, granted, refused) ==
  /\ waits \in WaitSet /\ \A s \in Statuses[k] : s \in WaitSet => s = waits
  /\ granted \in DocStatus \ WaitSet /\ refused \in DocStatus \ (WaitSet \cup Final)
  /\ granted \in Final => k \in {"offer", "review"}

\* A listener of APPROVAL_DECIDED.
LEMMA ListenTold ==
  ASSUME IInv, Marks, \A t \in Target : Told(t), NEW h \in Handler,
         NEW k, NEW waits, NEW granted, NEW refused,
         Applies(k, waits, granted, refused), Listen(h, k, waits, granted, refused)
  PROVE  \A t \in Target : Told(t)'
<1>1. PICK u \in Target : u = frame[h].t
  BY Typed DEF IInv
<1>2. /\ pc[h] = "emit" /\ kind[u] = k /\ UNCHANGED <<inst, kind, doc, terms, ctx, free>>
  BY <1>1 DEF Listen
<1>3. /\ TypeOK /\ local \in [Handler -> Local] /\ (Exists(u) => doc[u] \in Statuses[k])
      /\ HandlerOnTurn(h) /\ frame[h].i \in Instance /\ frame[h].outcome \in {"APPROVED", "REJECTED"}
  BY <1>2 DEF IInv, EngineInv, TypeOK, Frame
<1>4. frame[h].i \in Of(u)
  BY <1>1, <1>2, <1>3 DEF HandlerOnTurn, Decided, Carries, Routed, Of
<1>5. CASE doc[u] = waits
  <2>1. PICK s : /\ local' = [local EXCEPT ![h].apply = s]
                 /\ s = IF frame[h].outcome = "APPROVED" THEN granted ELSE refused
                 /\ Goto(h, "l.update") /\ UNCHANGED frame
    BY <1>1, <1>5 DEF Listen
  <2>2. s \in DocStatus /\ s \notin WaitSet
    BY <2>1 DEF Applies
  <2>3. /\ Alone(h) /\ pc'[h] = "l.update" /\ local'[h].apply = s /\ local'[h].next = local[h].next
        /\ \A g \in Handler \ {h} : local'[g] = local[g]
    <3>1. "l.update" \in Labels
      BY DEF Labels, FlowPc
    <3>2. QED
      BY <1>3, <2>1, <2>2, <3>1, GotoType, ApplySet
  <2>4. ASSUME Right(u, h) PROVE Right(u, h)'
    <3>1. /\ Open(u)' <=> Open(u)
          /\ Numbered(u)' <=> Numbered(u)
          /\ Given(u)' <=> Given(u)
          /\ Current(u)' <=> Current(u)
      BY <1>2, RowsOfOthers
    <3>2. /\ ~ Open(u) /\ Exists(u) /\ Current(u) /\ (local[h].next # "none" => NextOk(u, h))
          /\ (frame[h].outcome = "APPROVED" /\ Scored(u) =>
                inst[frame[h].i].status = "APPROVED" /\ ctx[frame[h].i] = terms[u])
      BY <1>2, <2>4 DEF Right, StageOk, Mid
    <3>3. s \in Final => Given(u)
      <4>1. s \in Final => frame[h].outcome = "APPROVED" /\ Scored(u)
        BY <1>2, <2>1 DEF Applies, Scored
      <4>2. QED
        BY <1>4, <3>2, <4>1 DEF Given
    <3>4. local'[h].next # "none" => NextOk(u, h)'
      BY <2>3, <3>1, <3>2 DEF NextOk
    <3>5. Exists(u)'
      BY <1>2, <3>2 DEF Exists
    <3>6. StageOk(u, h)'
      BY <2>2, <2>3, <3>1, <3>2, <3>3, <3>4, <3>5 DEF StageOk, Mid
    <3>7. QED
      BY <2>3, <3>1, <3>2, <3>6 DEF Right, Mid
  <2>5. QED
    BY <1>1, <1>2, <2>1, <2>3, <2>4, OwnStep
<1>6. CASE doc[u] # waits
  <2>1. Listened(h)
    BY <1>1, <1>6 DEF Listen
  <2>2. Right(u, h) => local[h].next # "none"
    <3>1. Right(u, h) /\ local[h].next = "none" => Waits(u) /\ Exists(u)
      BY <1>2 DEF Right, StageOk
    <3>2. QED
      BY <1>3, <1>6, <3>1 DEF Applies, Waits
  <2>3. Exists(u) => Exists(u)'
    BY <1>2 DEF Exists
  <2>4. QED
    BY <1>1, <1>2, <2>1, <2>2, <2>3, ListenedTold
<1>7. QED
  BY <1>5, <1>6

\* The listeners of the services, and what they write.
LEMMA ListenersTold ==
  ASSUME IInv, Marks, \A t \in Target : Told(t), NEW h \in Handler,
         \/ ListenOffer(h) \/ ListenManpower(h) \/ ListenEnrolment(h) \/ ListenReview(h)
         \/ ListenUpdate(h)
  PROVE  \A t \in Target : Told(t)'
<1>1. CASE ListenOffer(h) \/ ListenManpower(h) \/ ListenEnrolment(h) \/ ListenReview(h)
  <2>1. {"SENT", "DRAFT", "APPROVED", "REJECTED", "CONFIRMED", "CANCELLED", "DONE", "MANAGER"}
          \subseteq DocStatus
    BY StatusSets DEF DocStatus, Kind
  <2>2. /\ Applies("offer", "PENDING_APPROVAL", "SENT", "DRAFT")
        /\ Applies("manpower", "PENDING", "APPROVED", "REJECTED")
        /\ Applies("enrolment", "REGISTERED", "CONFIRMED", "CANCELLED")
        /\ Applies("review", "CALIBRATION", "DONE", "MANAGER")
    BY <2>1, StatusSets DEF Applies, WaitSet, Final
  <2>3. QED
    BY <1>1, <2>2, ListenTold DEF ListenOffer, ListenManpower, ListenEnrolment, ListenReview
<1>2. CASE ListenUpdate(h)
  <2>1. PICK u \in Target : u = frame[h].t
    BY Typed DEF IInv
  <2>2. /\ pc[h] = "l.update" /\ SetDoc(u, local[h].apply) /\ Listened(h)
        /\ UNCHANGED <<inst, kind, terms, ctx, free>>
    BY <1>2, <2>1 DEF ListenUpdate
  <2>3. /\ doc'[u] = IF Exists(u) THEN local[h].apply ELSE doc[u]
        /\ \A t \in Target \ {u} : doc'[t] = doc[t]
    BY <2>2, SetDocWrites DEF IInv, TypeOK
  <2>4. Right(u, h) => /\ Exists(u) /\ local[h].apply \notin WaitSet
                       /\ local[h].apply \in Final => Given(u)
    BY <2>2 DEF Right, StageOk
  <2>5. Exists(u) => Exists(u)'
    <3>1. local[h].apply \in Statuses[kind[u]] /\ kind[u] \in Kind
      BY <2>1, <2>2 DEF IInv, KindOk, TypeOK
    <3>2. QED
      BY <2>3, <3>1, StatusIn DEF Exists
  <2>6. QED
    BY <2>1, <2>2, <2>3, <2>4, <2>5, ListenedTold
<1>3. QED
  BY <1>1, <1>2

\* A write of one row leaves one approval of its target open at most.
LEMMA OneWrite ==
  ASSUME OnePending, NEW i \in Instance, \A j \in Instance \ {i} : inst'[j] = inst[j],
         inst'[i].status # "PENDING" \/ PendingKeyFree(i, inst'[i].target)
  PROVE  OnePending'
BY DEF OnePending, PendingKeyFree

\* decide's update of the row h has read: of its target, which others may not hold open.
LEMMA UpdatedRow ==
  ASSUME IInv, NEW h \in Handler, pc[h] = "update",
         NEW i \in Instance, i = frame[h].i, NEW u \in Target, u = frame[h].t,
         NEW s \in Status, NEW c \in Step, WriteRow(i, s, c, frame[h].snap)
  PROVE  /\ inst'[i].status = s /\ inst'[i].target = u /\ inst'[i].current = c
         /\ i \in Of(u) /\ i \in Of(u)'
         /\ \A j \in Instance \ {i} : inst'[j] = inst[j]
<1>1. inst \in [Instance -> Row] /\ inst[i] \in Row
  BY DEF IInv, TypeOK
<1>2. i \in Of(u) /\ inst[i].target = u
  BY DEF IInv, EngineInv, HandlerOnTurn, Carries, Routed, Of
<1>3. PICK w : w = [inst[i] EXCEPT !.status = s, !.current = c, !.decided = frame[h].snap]
  OBVIOUS
<1>4. w.status = s /\ w.current = c /\ w.target = inst[i].target
  BY <1>1, <1>3 DEF Row
<1>5. inst' = [inst EXCEPT ![i] = w]
  BY <1>3 DEF WriteRow
<1>6. inst'[i] = w /\ \A j \in Instance \ {i} : inst'[j] = inst[j]
  BY <1>1, <1>5
<1>7. s # "none"
  BY DEF Status
<1>8. QED
  BY <1>2, <1>4, <1>6, <1>7 DEF Of

\* decide's updates: REJECTED and APPROVED close what was open, and are announced.
LEMMA ClosesTold ==
  ASSUME IInv, Marks, OnePending, \A t \in Target : Told(t), NEW h \in Handler,
         NEW o \in {"APPROVED", "REJECTED"}, pc[h] = "update",
         WriteRow(frame[h].i, o, frame[h].cur, frame[h].snap),
         Announce(h, frame[h].i, frame[h].t, o),
         UNCHANGED <<kind, doc, terms, ctx, local, free>>
  PROVE  OnePending' /\ \A t \in Target : Told(t)'
<1>1. PICK u \in Target : u = frame[h].t
  BY Typed DEF IInv
<1>2. PICK i \in Instance : i = frame[h].i
  BY DEF IInv, TypeOK, Frame
<1>3. o \in Status /\ frame[h].cur \in Step
  BY DEF IInv, TypeOK, Frame, Status
<1>4. /\ inst'[i].status = o /\ inst'[i].target = u
      /\ i \in Of(u) /\ i \in Of(u)'
      /\ \A j \in Instance \ {i} : inst'[j] = inst[j]
  BY <1>1, <1>2, <1>3, UpdatedRow
<1>5. OnePending'
  BY <1>4, OneWrite
<1>6. /\ Alone(h) /\ pc'[h] = "emit" /\ frame'[h].i = i /\ frame'[h].t = u /\ frame'[h].outcome = o
  <2>1. /\ pc \in [Handler -> Labels] /\ frame \in [Handler -> Frame] /\ "emit" \in Labels
    BY Typed DEF IInv, TypeOK, Labels, EnginePc
  <2>2. QED
    BY <1>1, <1>2, <2>1, AnnounceAlone
<1>7. \A j \in Instance : \/ inst'[j] = inst[j] /\ ctx'[j] = ctx[j]
                          \/ \A t \in Target \ {u} : j \notin Of(t) /\ j \notin Of(t)'
  BY <1>4 DEF Of
<1>8. ASSUME Right(u, h) PROVE Right(u, h)'
  <2>1. inst[i].status = "PENDING" /\ Settled(u) /\ Current(u)
    BY <1>2, <1>8 DEF Right, StageOk, Mid
  <2>2. Waits(u)
    BY <1>4, <2>1 DEF Settled, Open
  <2>3. \A j \in Of(u)' : inst'[j].status # "PENDING"
    BY <1>4, <2>1 DEF OnePending, Of
  <2>4. ~ Open(u)' /\ Current(u)'
    BY <2>3 DEF Open, Current
  <2>5. Waits(u)' /\ Exists(u)'
    BY <2>2 DEF Waits, WaitSet, Exists
  <2>6. local'[h].next = "none"
    BY DEF IInv, HandlerOk
  <2>7. Scored(u)' => ctx'[i] = terms'[u]
    BY <1>4, <2>1 DEF Current, Scored
  <2>8. StageOk(u, h)'
    BY <1>4, <1>6, <2>4, <2>5, <2>6, <2>7 DEF StageOk, Mid
  <2>9. QED
    BY <1>6, <2>4, <2>8 DEF Right, Mid
<1>9. QED
  BY <1>1, <1>4, <1>5, <1>6, <1>7, <1>8, OwnStep

\* decide's update to the next step leaves the approval open.
LEMMA ForwardTold ==
  ASSUME IInv, Marks, OnePending, \A t \in Target : Told(t), NEW h \in Handler, DecideForward(h),
         UNCHANGED <<kind, doc, terms, ctx, local, free>>
  PROVE  OnePending' /\ \A t \in Target : Told(t)'
<1>1. PICK u \in Target : u = frame[h].t
  BY Typed DEF IInv
<1>2. PICK i \in Instance : i = frame[h].i
  BY DEF IInv, TypeOK, Frame
<1>3. pc[h] = "update" /\ Return(h)
  BY DEF DecideForward
<1>4. i \in Of(u) /\ inst[i].target = u
  BY <1>1, <1>2, <1>3 DEF IInv, EngineInv, HandlerOnTurn, Carries, Routed, Of
<1>5. /\ OnePending'
      /\ \A j \in Instance \ {i} : inst'[j] = inst[j]
      /\ i \in Of(u)' /\ (inst[i].status = "PENDING" => inst'[i].status = "PENDING")
  <2>1. CASE UNCHANGED inst
    BY <1>4, <2>1 DEF OnePending, Of
  <2>2. ASSUME NEW n \in Step, WriteRow(i, "PENDING", n, frame[h].snap),
               PendingKeyFree(i, inst[i].target)
        PROVE  /\ OnePending'
               /\ \A j \in Instance \ {i} : inst'[j] = inst[j]
               /\ i \in Of(u)' /\ inst'[i].status = "PENDING"
    <3>1. "PENDING" \in Status
      BY DEF Status
    <3>2. /\ inst'[i].status = "PENDING" /\ inst'[i].target = u /\ i \in Of(u)'
          /\ \A j \in Instance \ {i} : inst'[j] = inst[j]
      BY <1>1, <1>2, <1>3, <2>2, <3>1, UpdatedRow
    <3>3. PendingKeyFree(i, inst'[i].target)
      BY <1>4, <2>2, <3>2
    <3>4. QED
      BY <3>2, <3>3, OneWrite
  <2>3. QED
    BY <1>2, <2>1, <2>2 DEF DecideForward
<1>6. Alone(h) /\ pc'[h] = "idle"
  <2>1. /\ pc \in [Handler -> Labels] /\ frame \in [Handler -> Frame] /\ "idle" \in Labels
    BY Typed DEF IInv, TypeOK
  <2>2. QED
    BY <1>3, <2>1, ReturnAlone
<1>7. \A j \in Instance : \/ inst'[j] = inst[j] /\ ctx'[j] = ctx[j]
                          \/ \A t \in Target \ {u} : j \notin Of(t) /\ j \notin Of(t)'
  <2>1. inst'[i].target = u
    BY <1>5 DEF Of
  <2>2. QED
    BY <1>4, <1>5, <2>1 DEF Of
<1>8. ASSUME Right(u, h) PROVE Right(u, h)'
  <2>1. inst[i].status = "PENDING" /\ Settled(u) /\ Current(u)
    BY <1>2, <1>3, <1>8 DEF Right, StageOk, Mid
  <2>2. Open(u) /\ Open(u)' /\ Waits(u)
    BY <1>4, <1>5, <2>1 DEF Settled, Open
  <2>3. Settled(u)'
    BY <2>2 DEF Settled, Waits, WaitSet, Final
  <2>4. \A j \in Of(u)' : j \in Of(u) /\ (inst'[j].status = "PENDING" => inst[j].status = "PENDING")
    BY <1>4, <1>5, <2>1 DEF Of
  <2>5. Current(u)'
    BY <2>1, <2>4 DEF Current, Scored
  <2>6. StageOk(u, h)'
    BY <1>6 DEF StageOk, Mid
  <2>7. QED
    BY <2>3, <2>5, <2>6 DEF Right
<1>9. QED
  BY <1>1, <1>3, <1>5, <1>6, <1>7, <1>8, OwnStep

\* The engine's decide.
LEMMA DecideTold ==
  ASSUME IInv, Marks, OnePending, \A t \in Target : Told(t), NEW h \in Handler, Decide(h),
         UNCHANGED <<kind, doc, terms, ctx, local, free>>
  PROVE  OnePending' /\ \A t \in Target : Told(t)'
<1>1. /\ pc \in [Handler -> Labels] /\ frame \in [Handler -> Frame] /\ inst \in [Instance -> Row]
      /\ "act" \in Labels /\ "update" \in Labels /\ TypeOK /\ frame[h] \in Frame
  BY Typed DEF IInv, TypeOK, Labels, EnginePc
<1>2. ASSUME NEW i \in Instance, NEW v \in User, NEW d \in Decision, DecideRead(h, i, v, d)
      PROVE  OnePending' /\ \A t \in Target : Told(t)'
  <2>1. PICK u \in Target : u = inst[i].target
    BY <1>1 DEF Row
  <2>2. PICK f : /\ f = [frame[h] EXCEPT !.i = i, !.t = inst[i].target, !.actor = v, !.dec = d,
                           !.cur = inst[i].current,
                           !.snap = [inst[i].decided EXCEPT ![inst[i].current] = d]]
                 /\ frame' = [frame EXCEPT ![h] = f]
    BY <1>2 DEF DecideRead
  <2>3. pc[h] = "idle" /\ inst[i].status = "PENDING" /\ Goto(h, "act") /\ UNCHANGED inst
    BY <1>2 DEF DecideRead
  <2>4. f.i = i /\ f.t = u
    BY <1>1, <2>1, <2>2 DEF Frame
  <2>5. frame'[h].i = i /\ frame'[h].t = u
    BY <1>1, <2>2, <2>4
  <2>6. Alone(h) /\ pc'[h] = "act"
    BY <1>1, <2>2, <2>3 DEF Goto, Alone
  <2>7. Right(u, h) => Settled(u) /\ StageOk(u, h)'
    BY <2>3, <2>5, <2>6 DEF Right, StageOk, Mid
  <2>8. OnePending'
    BY <2>3 DEF OnePending
  <2>9. QED
    BY <2>3, <2>5, <2>6, <2>7, <2>8, StillStep
<1>3. CASE DecideAct(h)
  <2>1. PICK u \in Target : u = frame[h].t
    BY <1>1 DEF Frame
  <2>2. pc[h] = "act" /\ Goto(h, "update") /\ UNCHANGED <<inst, frame>>
    BY <1>3 DEF DecideAct
  <2>3. Alone(h) /\ pc'[h] = "update"
    BY <1>1, <2>2, GotoType
  <2>4. Right(u, h) => Settled(u) /\ StageOk(u, h)'
    BY <2>2, <2>3 DEF Right, StageOk, Mid
  <2>5. OnePending'
    BY <2>2 DEF OnePending
  <2>6. QED
    BY <2>1, <2>2, <2>3, <2>4, <2>5, StillStep
<1>4. CASE DecideReject(h)
  BY <1>4, ClosesTold DEF DecideReject
<1>5. CASE DecideApprove(h)
  BY <1>5, ClosesTold DEF DecideApprove
<1>6. QED
  BY <1>2, <1>3, <1>4, <1>5, ForwardTold DEF Decide

\* No other step but createInstance, which asks whether one is open, opens an approval.
LEMMA OneRest ==
  ASSUME IInv, OnePending, Next,
         ~ \E h \in Handler : Decide(h) /\ UNCHANGED <<kind, doc, terms, ctx, local, free>>
  PROVE  OnePending'
<1>1. inst \in [Instance -> Row] /\ EngineTypeOK /\ \A h \in Handler : frame[h].t \in Target
  BY Typed DEF IInv, TypeOK
<1>2. ASSUME UNCHANGED inst PROVE OnePending'
  BY <1>2 DEF OnePending
<1>3. CASE AtOnce
  BY <1>2, <1>3 DEF AtOnce, CreateOffer, CreateReview, CreateRound, Insert, UpdateByHr
<1>4. ASSUME NEW h \in Handler, NEW t \in Target, Start(h, t) PROVE OnePending'
  BY <1>2, <1>4 DEF Start, EditRead, SubmitOffer, DeclineRead, AcceptRead, CreateManpower, Insert,
     CancelManpower, RequisitionRead, EnrolRead, CancelEnrolment, SelfRead, CloseRead, ManagerRead,
     RateRead, Quiet
<1>5. ASSUME NEW h \in Handler, Fail(h) PROVE OnePending'
  BY <1>2, <1>5 DEF Fail
<1>6. ASSUME NEW h \in Handler, NEW i \in Instance, NEW resolved \in [Step -> Resolution],
             \/ CreatePending(i, frame[h].t, resolved)
             \/ CreateApproved(i, frame[h].t, resolved)
      PROVE  OnePending'
  <2>1. PICK t \in Target : t = frame[h].t
    BY <1>1
  <2>2. PendingKeyFree(i, t) /\ inst'[i].target = t /\ \A j \in Instance \ {i} : inst'[j] = inst[j]
    BY <1>1, <1>6, <2>1, CreatedRow
  <2>3. QED
    BY <2>2, OneWrite
<1>7. ASSUME NEW h \in Handler, CancelApproval(h) PROVE OnePending'
  <2>1. \A i \in Instance : \/ inst'[i] = inst[i]
                            \/ inst'[i] = [inst[i] EXCEPT !.status = "CANCELLED"]
    BY <1>1, <1>7 DEF CancelApproval, CancelByTarget
  <2>2. \A i \in Instance : inst'[i] = inst[i] \/ inst'[i].status = "CANCELLED"
    BY <1>1, <2>1 DEF Row
  <2>3. \A i \in Instance : inst'[i].status = "PENDING" => inst'[i] = inst[i]
    BY <2>2
  <2>4. QED
    BY <2>3 DEF OnePending
<1>8. ASSUME NEW h \in Handler, Resume(h) PROVE OnePending'
  <2>1. CASE FlowStep(h)
    <3>1. CASE RouteOffer(h) \/ RouteManpower(h) \/ RouteEnrolment(h) \/ RouteReview(h) \/ RouteBreaks(h)
      BY <1>6, <3>1 DEF RouteOffer, RouteManpower, RouteEnrolment, RouteReview, Route, RouteBreaks
    <3>2. QED
      BY <1>2, <2>1, <3>1 DEF FlowStep, RouteNoFlow, RouteRefused, StatusUpdate, DeleteDoc, ListenOffer,
         ListenManpower, ListenEnrolment, ListenReview, Listen, ListenUpdate
  <2>2. QED
    BY <1>2, <1>7, <1>8, <2>1 DEF Resume, EditUpdate, AcceptHire, AcceptRefused, AcceptUpdate,
       CancelUpdate, RequisitionInsert, Register, Insert, EnrolByHr, SelfUpdate, ManagerScore,
       RateUpdate, CloseUpdate, Quiet
<1>9. QED
  BY <1>3, <1>4, <1>5, <1>8 DEF Next

\* Every step keeps what is told of every document.
LEMMA NextTold == IInv /\ ToldInv /\ [Next]_vars => ToldInv'
<1> SUFFICES ASSUME IInv, ToldInv, [Next]_vars PROVE ToldInv'
  OBVIOUS
<1>1. OnePending /\ \A t \in Target : Told(t)
  BY DEF ToldInv
<1>2. CASE Next
  <2>1. Marks
    BY <1>2, NextMarks
  <2>2. ASSUME NEW h \in Handler, FlowStep(h) PROVE \A t \in Target : Told(t)'
    BY <1>1, <2>1, <2>2, AskTold, AfterTold, ListenersTold, DecideTold DEF FlowStep
  <2>3. ASSUME NEW h \in Handler, Resume(h) PROVE \A t \in Target : Told(t)'
    BY <1>1, <2>1, <2>2, <2>3, ServiceTold DEF Resume
  <2>4. \A t \in Target : Told(t)'
    BY <1>1, <1>2, <2>1, <2>3, StartTold, FailTold, AtOnceTold DEF Next
  <2>5. OnePending'
    <3>1. CASE \E h \in Handler : Decide(h) /\ UNCHANGED <<kind, doc, terms, ctx, local, free>>
      BY <1>1, <2>1, <3>1, DecideTold
    <3>2. QED
      BY <1>1, <1>2, <3>1, OneRest
  <2>6. QED
    BY <2>4, <2>5 DEF ToldInv
<1>3. CASE UNCHANGED vars
  <2>1. UNCHANGED <<inst, pc, frame, kind, doc, terms, ctx, local, free, raced>>
    BY <1>3 DEF vars
  <2>2. \A t \in Target : Told(t)'
    BY <1>1, <2>1, Elsewhere
  <2>3. OnePending'
    BY <1>1, <2>1 DEF OnePending
  <2>4. QED
    BY <2>2, <2>3 DEF ToldInv
<1>4. QED
  BY <1>2, <1>3

\* At first nothing waits.
LEMMA InitTold == Init => ToldInv
<1> SUFFICES ASSUME Init PROVE ToldInv
  OBVIOUS
<1>1. /\ \A i \in Instance : ~ Routed(i)
      /\ \A h \in Handler : pc[h] = "idle"
      /\ \A t \in Target : doc[t] = "none"
  BY EngineInitOK DEF Init, FlowInit
<1>2. \A t \in Target : Of(t) = {}
  BY <1>1 DEF Of, Routed
<1>3. \A t \in Target : Settled(t) /\ Current(t)
  BY <1>1, <1>2 DEF Settled, Open, Waits, WaitSet, Final, Current
<1>4. \A t \in Target, h \in Handler : StageOk(t, h)
  BY <1>1 DEF StageOk, Mid
<1>5. OnePending
  BY <1>1 DEF OnePending, Routed
<1>6. QED
  BY <1>3, <1>4, <1>5 DEF ToldInv, Told

\* The invariant of a document and its approvals holds always.
THEOREM ToldAlways == Spec => [](IInv /\ ToldInv)
<1>1. IInv /\ ToldInv /\ [Next]_vars => (IInv /\ ToldInv)'
  BY NextInv, NextTold
<1>2. QED
  BY <1>1, InitInv, InitTold, PTL DEF Spec

\* A document nobody is at work on is settled.
LEMMA CalmSettled ==
  ASSUME ToldInv, NEW t \in Target, Calm(t), ~ free[t]
  PROVE  Settled(t)
BY DEF ToldInv, Told, Calm, Mid

\* A document whose requests came one by one and did not fail waits exactly while an
\* approval of it is open (the writes after createInstance, the listeners, decline and
\* cancel).
THEOREM WaitsWhileOpen == Spec => []OpenIffWaiting
<1>1. ToldInv => OpenIffWaiting
  BY CalmSettled DEF OpenIffWaiting, Settled, Open, Numbered, Waits, WaitSet
<1>2. QED
  BY <1>1, ToldAlways, PTL

\* What its approval was given for is what such a document says: the salary of an offer,
\* the score of a review (submit, update, submitManager).
THEOREM SaysWhatWasSigned == Spec => []AsSigned
<1>1. ToldInv => AsSigned
  BY CalmSettled DEF AsSigned, Settled, Given, Final
<1>2. QED
  BY <1>1, ToldAlways, PTL
=============================================================================
