--------------------------- MODULE TimesheetProofs ---------------------------
(***************************************************************************)
(* Theorems about Timesheet, for any number of days, handlers and          *)
(* requests.                                                               *)
(*                                                                         *)
(* Of a day on which computations did not overlap, only one process can    *)
(* have business with its sheet: what the sheet lacks of what was decided  *)
(* is owed by that process (SheetOk).  Of the logs of a day the same holds *)
(* for the one who creates a log (LogsOk).  And a log that a sheet does    *)
(* not show is on its way to it: in a waiting job, or in the hands of a    *)
(* process that will read it (Covered).                                    *)
(***************************************************************************)
EXTENDS Timesheet, FiniteSetTheorems, SequenceTheorems, TLAPS

Robots     == {Worker, Cron}
OtKinds    == {"OVERTIME", "SEPARATE_OT"}
ShiftKinds == {"SHIFT_SHIFT", "CLAMP_TO_REGISTERED"}
RecalcPc   == {"r.lock", "r.logs", "r.write"}
KindOf(p)  == asked[frame[p].r].kind

\* What a process carries at each label.
Carries(p) ==
  LET f == frame[p]
  IN /\ pc[p] = "c.insert" => f.new # <<>>
     /\ pc[p] \in LogPc => f.then # "ot" /\ (f.todo = {} \/ KindOf(p) = "CORRECTION")
     /\ pc[p] \in {"idle", "e.write"} => f.todo = {}
     /\ pc[p] = "d.mark" => f.todo = asked[f.r].days
     /\ pc[p] \notin {"d.mark", "d.next"} => f.d \notin f.todo
     /\ f.then = "ot" => pc[p] \in RecalcPc /\ KindOf(p) \in OtKinds
     /\ pc[p] \in {"o.read", "o.write"} => KindOf(p) \in OtKinds
     /\ pc[p] \in {"s.read", "s.write"} => KindOf(p) \in ShiftKinds
     /\ p \in Robots => pc[p] \in RecalcPc \cup {"idle"} /\ f.todo = {} /\ f.then = "end"

\* An overlap is recorded.
Marked ==
  \A d \in Day :
    /\ "sheet" \notin raced[d] => \A p, q \in Computing(d) : p = q
    /\ "logs" \notin raced[d] => \A p, q \in Logging(d) : p = q

\* No check-in is under way when the cron has reached the day.
SettledOk ==
  \A d \in Day : swept[d] => past[d] /\ \A p \in Logging(d) : frame[p].then = "recalc"

\* Every attempt after the first follows a failure.
TriesOk ==
  /\ \A d \in Day, n \in 1 .. Attempts : <<d, n>> \in queue => n <= fails + 1
  /\ pc[Worker] # "idle" => frame[Worker].tries <= fails + 1

-----------------------------------------------------------------------------
\* p has marked a request and not yet applied it to d.
OwesOt(p, d) ==
  /\ pc[p] # "d.mark" /\ KindOf(p) \in OtKinds
  /\ \/ d \in frame[p].todo
     \/ frame[p].d = d /\ (frame[p].then = "ot" \/ pc[p] \in {"o.read", "o.write"})
OwesShift(p, d) ==
  /\ pc[p] # "d.mark" /\ KindOf(p) \in ShiftKinds
  /\ d \in frame[p].todo \/ (frame[p].d = d /\ pc[p] \in {"s.read", "s.write"})

\* The sheet of d but for what p owes to it, and what p has read of it.
OwnSheet(p, d) ==
  /\ sheet[d].locked <=> (sheet[d].basis # "auto" \/ sheet[d].ot # 0)
  /\ OwesOt(p, d) => sheet[d].basis = want[d].basis /\ want[d].ot = sheet[d].ot + 1
  /\ OwesShift(p, d) => want[d] = [basis |-> "shift", ot |-> 0]
  /\ ~ OwesOt(p, d) /\ ~ OwesShift(p, d) =>
       sheet[d].basis = want[d].basis /\ sheet[d].ot = want[d].ot
  /\ pc[p] \in {"r.logs", "r.write"} /\ frame[p].d = d => ~ sheet[d].locked
  /\ pc[p] = "o.write" /\ frame[p].d = d => frame[p].ot = sheet[d].ot

\* The sheet is as decided but for what the one process owes that is at work on it.
SheetOk(d) ==
  "sheet" \notin raced[d] /\ cut[d] = "no" =>
    /\ \A p \in Computing(d) : OwnSheet(p, d)
    /\ Computing(d) = {} =>
         /\ sheet[d].locked <=> (sheet[d].basis # "auto" \/ sheet[d].ot # 0)
         /\ sheet[d].basis = want[d].basis /\ sheet[d].ot = want[d].ot

\* The logs alternate, and so will the one that is being created.
Alternating(d) ==
  \A k \in 1 .. Len(logs[d]) : logs[d][k] = IF k % 2 = 1 THEN "IN" ELSE "OUT"
NextLog(p, d) ==
  /\ frame[p].then = "end"
  /\ frame[p].new = IF pc[p] = "c.insert" THEN <<Infer(d)>> ELSE <<>>
  /\ pc[p] = "c.insert" => frame[p].at = Len(logs[d])
LogsOk(d) ==
  ~ given[d] /\ "logs" \notin raced[d] =>
    Alternating(d) /\ \A p \in Logging(d) : NextLog(p, d)

\* The sheet needs no recalculation; one waits; p is about to do one.
Shown(d)   == sheet[d].seen = logs[d] \/ sheet[d].locked
Waiting(d) == \E n \in 1 .. Attempts : <<d, n>> \in queue
OnWay(p, d) ==
  /\ frame[p].d = d
  /\ pc[p] \in LogPc \cup {"r.lock", "r.logs"} \/ (pc[p] = "r.write" /\ frame[p].read = logs[d])

\* One of S sees to it that the logs of d are shown, if they are not.
Ready(S, d) == Shown(d) \/ Waiting(d) \/ \E p \in S : OnWay(p, d)

\* p is about to show logs of d that are out of date.
Stale(p, d) == pc[p] = "r.write" /\ frame[p].d = d /\ frame[p].read # logs[d]
MadeUp(d)   == \A p \in Process : Stale(p, d) => Waiting(d) \/ Logging(d) # {}

\* Until the failure, some process other than the cron sees to it that the logs are shown;
\* afterwards the cron does, or has done.
Covered(d) ==
  "sheet" \notin raced[d] /\ cut[d] # "late" =>
    /\ fails = 0 => Ready(Process \ {Cron}, d)
    /\ swept[d] => Ready(Process, d)
    /\ fails = 0 \/ swept[d] => MadeUp(d)

SheetInv == TypeOK /\ (\A p \in Process : Carries(p)) /\ Marked
ShownInv == SheetInv /\ SettledOk /\ TriesOk /\ \A d \in Day : Covered(d)

-----------------------------------------------------------------------------
(* One process moves. *)

Stays(p) == pc'[p] = pc[p] /\ frame'[p] = frame[p]

\* Nobody does.
Quiet ==
  \/ \E r \in Request : RequestCorrection(r) \/ RequestOt(r) \/ Upload(r) \/ Rejected(r)
  \/ \E d \in Day : DayEnds(d)

\* h begins.
Begins(h) ==
  \/ \E d \in Day : Start(h, d)
  \/ \E r \in Request : Approved(h, r)

Robot(p) ==
  \/ p = Worker /\ (WorkerTake \/ WorkerFail)
  \/ p = Cron /\ (SweepFail \/ \E d \in Day : Sweep(d))

\* What p may do.
Turn(p) ==
  \/ p \in Handler /\ (Begins(p) \/ Fail(p))
  \/ Resume(p)
  \/ Robot(p)

\* In every step one process moves, or nobody.
LEMMA OneMoves ==
  ASSUME Actions
  PROVE  Quiet \/ \E p \in Process : Turn(p)
<1>1. CASE \E h \in Handler, d \in Day : Start(h, d)
  BY <1>1 DEF Turn, Begins, Process
<1>2. CASE \E r \in Request : RequestCorrection(r) \/ RequestOt(r) \/ Upload(r)
  BY <1>2 DEF Quiet
<1>3. CASE \E h \in Handler, r \in Request :
             OnCorrectionDecided(h, r) \/ OnOtDecided(h, r) \/ OnBatchDecided(h, r)
  BY <1>3 DEF Quiet, Turn, Begins, Process, OnCorrectionDecided, OnOtDecided, OnBatchDecided
<1>4. CASE \E p \in Process : Resume(p)
  BY <1>4 DEF Turn
<1>5. CASE WorkerTake \/ WorkerFail \/ SweepFail \/ \E d \in Day : Sweep(d)
  BY <1>5 DEF Turn, Robot, Process
<1>6. CASE \E d \in Day : DayEnds(d)
  BY <1>6 DEF Quiet
<1>7. CASE \E h \in Handler : Fail(h)
  BY <1>7 DEF Turn, Process
<1> QED BY <1>1, <1>2, <1>3, <1>4, <1>5, <1>6, <1>7 DEF Actions

\* The constants' sets are not empty, and the processes can be counted.
LEMMA Given ==
  /\ At(CHOOSE d \in Day : TRUE) \in Frame /\ NoFrame \in Frame
  /\ \A d \in Day : At(d) \in Frame
  /\ IsFiniteSet(Process)
  /\ Worker \in Process /\ Cron \in Process /\ Worker # Cron /\ Handler \cap Robots = {}
<1>1. (CHOOSE d \in Day : TRUE) \in Day /\ (CHOOSE r \in Request : TRUE) \in Request
  BY TimesheetAssumption
<1>2. <<>> \in LogSeq
  <2>1. <<>> \in [1 .. 0 -> LogType]
    BY DEF LogType
  <2> QED BY <2>1, TimesheetAssumption DEF LogSeq
<1>3. NoFrame \in Frame
  BY <1>1, <1>2 DEF NoFrame, Frame
<1>4. \A d \in Day : At(d) \in Frame
  BY <1>3 DEF At, Frame
<1>5. IsFiniteSet(Process)
  <2>1. IsFiniteSet({Worker, Cron})
    <3>1. IsFiniteSet({Worker})
      BY FS_Singleton
    <3>2. {Worker, Cron} = {Worker} \cup {Cron}
      OBVIOUS
    <3> QED BY <3>1, <3>2, FS_AddElement
  <2> QED BY <2>1, FS_Union, TimesheetAssumption DEF Process
<1> QED BY <1>1, <1>3, <1>4, <1>5, TimesheetAssumption DEF Process, Robots

-----------------------------------------------------------------------------
(* Sequences of logs. *)

\* The logs of a day are a sequence of bounded length.
LEMMA LogSeqs ==
  \A s : s \in LogSeq <=> s \in Seq(LogType) /\ Len(s) <= MaxLogs
<1>1. ASSUME NEW s, s \in LogSeq
      PROVE  s \in Seq(LogType) /\ Len(s) <= MaxLogs
  <2>1. PICK n \in 0 .. MaxLogs : s \in [1 .. n -> LogType]
    BY <1>1 DEF LogSeq
  <2>2. s \in Seq(LogType)
    BY <2>1, SeqDef, TimesheetAssumption
  <2>3. Len(s) = n
    BY <2>1, <2>2, TimesheetAssumption, LenProperties
  <2> QED BY <2>2, <2>3, TimesheetAssumption
<1>2. ASSUME NEW s, s \in Seq(LogType), Len(s) <= MaxLogs
      PROVE  s \in LogSeq
  <2>1. s \in [1 .. Len(s) -> LogType] /\ Len(s) \in 0 .. MaxLogs
    BY <1>2, TimesheetAssumption, LenProperties
  <2> QED BY <2>1 DEF LogSeq
<1> QED BY <1>1, <1>2

\* A log that is inserted is one more; in the last place it is appended (InsertAt).
LEMMA Inserted ==
  ASSUME NEW s \in LogSeq, NEW n \in 1 .. Len(s) + 1, NEW t \in LogType
  PROVE  /\ InsertAt(s, n, t) \in Seq(LogType)
         /\ Len(InsertAt(s, n, t)) = Len(s) + 1
         /\ n = Len(s) + 1 => /\ \A k \in 1 .. Len(s) : InsertAt(s, n, t)[k] = s[k]
                              /\ InsertAt(s, n, t)[n] = t
<1> DEFINE a == SubSeq(s, 1, n - 1)
           b == SubSeq(s, n, Len(s))
<1>1. s \in Seq(LogType) /\ Len(s) \in Nat
  BY LogSeqs, LenProperties
<1>2. \A i \in 1 .. Len(s) : s[i] \in LogType
  BY <1>1, ElementOfSeq
<1>3. /\ a \in Seq(LogType) /\ Len(a) = n - 1
      /\ \A i \in 1 .. n - 1 : a[i] = s[i]
  <2>1. /\ a \in Seq(LogType)
        /\ Len(a) = IF 1 <= n - 1 THEN n - 1 - 1 + 1 ELSE 0
        /\ \A i \in 1 .. n - 1 - 1 + 1 : a[i] = s[1 + i - 1]
    <3>1. \A i \in 1 .. n - 1 : s[i] \in LogType
      BY <1>1, <1>2
    <3> QED BY <1>1, <3>1, SubSeqProperties
  <2> QED BY <1>1, <2>1
<1>4. b \in Seq(LogType) /\ Len(b) = Len(s) - n + 1
  <2>1. \A i \in n .. Len(s) : s[i] \in LogType
    BY <1>1, <1>2
  <2>2. b \in Seq(LogType) /\ Len(b) = IF n <= Len(s) THEN Len(s) - n + 1 ELSE 0
    BY <1>1, <2>1, SubSeqProperties
  <2> QED BY <1>1, <2>2
<1>5. <<t>> \in Seq(LogType) /\ Len(<<t>>) = 1 /\ <<t>>[1] = t
  OBVIOUS
<1> DEFINE c == a \o <<t>>
<1>6. InsertAt(s, n, t) = c \o b
  BY DEF InsertAt
<1> HIDE DEF a, b
<1>7. /\ c \in Seq(LogType) /\ Len(c) = n
      /\ \A i \in 1 .. n : c[i] = IF i <= n - 1 THEN a[i] ELSE <<t>>[i - (n - 1)]
  BY <1>3, <1>5, <1>1, ConcatProperties
<1> HIDE DEF c
<1>8. /\ c \o b \in Seq(LogType) /\ Len(c \o b) = n + (Len(s) - n + 1)
      /\ \A i \in 1 .. n + (Len(s) - n + 1) :
           (c \o b)[i] = IF i <= n THEN c[i] ELSE b[i - n]
  <2>1. /\ c \o b \in Seq(LogType) /\ Len(c \o b) = Len(c) + Len(b)
        /\ \A i \in 1 .. Len(c) + Len(b) :
             (c \o b)[i] = IF i <= Len(c) THEN c[i] ELSE b[i - Len(c)]
    BY <1>4, <1>7, ConcatProperties
  <2> QED BY <1>4, <1>7, <2>1
<1>9. ASSUME n = Len(s) + 1
      PROVE  /\ \A k \in 1 .. Len(s) : (c \o b)[k] = s[k]
             /\ (c \o b)[n] = t
  BY <1>1, <1>3, <1>5, <1>7, <1>8, <1>9
<1> QED BY <1>1, <1>6, <1>8, <1>9

-----------------------------------------------------------------------------
(* Types, and what processes carry. *)

\* A process that goes on, ends or begins keeps the types of its own variables.
LEMMA MoveTypes ==
  ASSUME TypeOK, NEW p \in Process, NEW l \in Pc, NEW f \in Frame,
         pc' = [pc EXCEPT ![p] = l], frame' = [frame EXCEPT ![p] = f]
  PROVE  /\ pc' \in [Process -> Pc] /\ frame' \in [Process -> Frame]
         /\ pc'[p] = l /\ frame'[p] = f
         /\ \A q \in Process \ {p} : Stays(q)
  BY DEF TypeOK, Stays

\* The labels and the frame of one process.
Moved(p) ==
  /\ pc' \in [Process -> Pc] /\ frame' \in [Process -> Frame]
  /\ \A q \in Process \ {p} : Stays(q)

\* Where one goes on keeps the types.
LEMMA Gone ==
  ASSUME TypeOK, NEW p \in Process
  PROVE  /\ \A l \in Pc : Step(p, l) => Moved(p) /\ pc'[p] = l /\ frame'[p] = frame[p]
         /\ End(p) => Moved(p) /\ pc'[p] = "idle" /\ frame'[p] = NoFrame
         /\ \A l \in Pc, f \in Frame :
              Goto(p, l) /\ frame' = [frame EXCEPT ![p] = f] =>
                Moved(p) /\ pc'[p] = l /\ frame'[p] = f
<1>1. "idle" \in Pc /\ NoFrame \in Frame
  BY Given DEF Pc
<1>2. ASSUME NEW l \in Pc, NEW f \in Frame, pc' = [pc EXCEPT ![p] = l], frame' = [frame EXCEPT ![p] = f]
      PROVE  Moved(p) /\ pc'[p] = l /\ frame'[p] = f
  BY <1>2, MoveTypes DEF Moved
<1>3. ASSUME NEW l \in Pc, Step(p, l)
      PROVE  Moved(p) /\ pc'[p] = l /\ frame'[p] = frame[p]
  BY <1>3 DEF Step, Goto, Moved, Stays, TypeOK
<1> QED BY <1>1, <1>2, <1>3 DEF End, Goto

\* At a label there is a frame.
LEMMA FrameFields ==
  ASSUME NEW f \in Frame
  PROVE  /\ f.d \in Day /\ f.r \in Request /\ f.new \in Seq(LogType) /\ f.at \in Nat
         /\ f.read \in LogSeq /\ f.ot \in Nat /\ f.then \in {"end", "recalc", "ot"}
         /\ f.todo \subseteq Day /\ f.tries \in Nat
  BY DEF Frame

\* The frame of one who turns to a day.
LEMMA AtFields ==
  ASSUME NEW d \in Day
  PROVE  /\ At(d) \in Frame /\ At(d).d = d /\ At(d).todo = {} /\ At(d).then = "end"
         /\ At(d).at = 0 /\ At(d).tries = 0 /\ At(d).new = <<>>
         /\ NoFrame.todo = {} /\ NoFrame.then = "end"
  BY Given DEF At, NoFrame, Frame

\* What a handler does when it begins: it is at work on one day, or at a request it is about to mark.
LEMMA BeginMoves ==
  ASSUME TypeOK, NEW h \in Handler, Begins(h), asked' = asked
  PROVE  Moved(h) /\ Carries(h)'
<1> USE Given
<1>0. h \in Process /\ h \notin Robots
  BY DEF Process, Robots
<1>1. ASSUME NEW d \in Day, NEW l \in {"r.lock", "e.write"}, Begin(h, d, l, At(d))
      PROVE  Moved(h) /\ Carries(h)'
  <2>1. l \in Pc /\ At(d) \in Frame
    BY DEF Pc
  <2>2. Moved(h) /\ pc'[h] = l /\ frame'[h] = At(d)
    BY <1>0, <1>1, <2>1, Gone DEF Begin
  <2>3. At(d).todo = {} /\ At(d).then = "end"
    BY DEF At, NoFrame
  <2> QED BY <1>0, <2>2, <2>3 DEF Carries, LogPc
<1>2. ASSUME NEW d \in Day, NEW f \in Frame, f.todo = {}, f.then # "ot", f.new # <<>>,
             Begin(h, d, "c.insert", f)
      PROVE  Moved(h) /\ Carries(h)'
  <2>1. "c.insert" \in Pc
    BY DEF Pc, LogPc
  <2>2. Moved(h) /\ pc'[h] = "c.insert" /\ frame'[h] = f
    BY <1>0, <1>2, <2>1, Gone DEF Begin
  <2> QED BY <1>0, <1>2, <2>2 DEF Carries, LogPc
<1>3. ASSUME NEW d \in Day, Check(h, d)
      PROVE  Moved(h) /\ Carries(h)'
  <2>1. PICK t \in LogType \cup {Infer(d)} :
          Begin(h, d, "c.insert", [At(d) EXCEPT !.new = <<t>>, !.at = Len(logs[d])])
    BY <1>3 DEF Check
  <2> DEFINE f == [At(d) EXCEPT !.new = <<t>>, !.at = Len(logs[d])]
  <2>2. t \in LogType
    BY DEF Infer, LogType
  <2>3. Len(logs[d]) \in Nat
    BY LogSeqs, LenProperties DEF TypeOK
  <2>4. <<t>> \in Seq(LogType) /\ <<t>> # <<>>
    BY <2>2
  <2>5. f \in Frame /\ f.todo = {} /\ f.then # "ot" /\ f.new # <<>>
    <3>1. f \in Frame
      BY <2>3, <2>4 DEF Frame
    <3>2. f.new = <<t>> /\ f.then = At(d).then /\ f.todo = At(d).todo
      BY DEF Frame
    <3> QED BY <2>4, <3>1, <3>2, AtFields
  <2> HIDE DEF f
  <2>6. Begin(h, d, "c.insert", f)
    BY <2>1 DEF f
  <2> QED BY <1>2, <2>5, <2>6
<1>4. ASSUME NEW d \in Day, HrCorrection(h, d)
      PROVE  Moved(h) /\ Carries(h)'
  <2>1. {<<"IN">>, <<"OUT">>, <<"IN", "OUT">>} \subseteq Seq(LogType) \ {<<>>}
    <3>1. "IN" \in LogType /\ "OUT" \in LogType
      BY DEF LogType
    <3>2. <<"IN">> \in Seq(LogType) /\ <<"OUT">> \in Seq(LogType) /\ <<"IN", "OUT">> \in Seq(LogType)
      BY <3>1
    <3>3. <<"IN">> # <<>> /\ <<"OUT">> # <<>> /\ <<"IN", "OUT">> # <<>>
      OBVIOUS
    <3> QED BY <3>2, <3>3, Zenon
  <2>2. PICK types \in Seq(LogType) :
          types # <<>> /\ Begin(h, d, "c.insert", [At(d) EXCEPT !.new = types, !.then = "recalc"])
    BY <1>4, <2>1 DEF HrCorrection
  <2> DEFINE f == [At(d) EXCEPT !.new = types, !.then = "recalc"]
  <2>3. f \in Frame
    BY DEF Frame
  <2>4. f.new = types /\ f.then = "recalc" /\ f.todo = At(d).todo
    BY DEF Frame
  <2> HIDE DEF f
  <2>5. Begin(h, d, "c.insert", f)
    BY <2>2 DEF f
  <2> QED BY <1>2, <2>2, <2>3, <2>4, <2>5, AtFields
<1>5. ASSUME NEW r \in Request, Approved(h, r)
      PROVE  Moved(h) /\ Carries(h)'
  <2>1. PICK d \in asked[r].days :
          Begin(h, d, "d.mark", [At(d) EXCEPT !.r = r, !.todo = asked[r].days])
    BY <1>5 DEF Approved
  <2>2. asked[r].days \subseteq Day
    BY DEF TypeOK
  <2> DEFINE f == [At(d) EXCEPT !.r = r, !.todo = asked[r].days]
  <2>3. "d.mark" \in Pc /\ f \in Frame
    BY <2>2 DEF Pc, Frame
  <2>4. f.todo = asked[r].days /\ f.then = "end" /\ f.r = r
    BY <2>2, AtFields DEF Frame
  <2> HIDE DEF f
  <2>5. Moved(h) /\ pc'[h] = "d.mark" /\ frame'[h] = f
    BY <1>0, <2>1, <2>3, Gone DEF Begin, f
  <2> QED BY <1>0, <2>4, <2>5 DEF Carries, LogPc
<1> QED BY <1>1, <1>3, <1>4, <1>5 DEF Begins, Start, Recalc, Reset, Edit

\* Where a robot is.
LEMMA RobotMoves ==
  ASSUME TypeOK, NEW p \in Process, Robot(p), asked' = asked
  PROVE  Moved(p) /\ Carries(p)'
<1> USE Given
<1>1. ASSUME NEW d \in Day, NEW n \in Nat, Begin(p, d, "r.lock", [At(d) EXCEPT !.tries = n])
      PROVE  Moved(p) /\ Carries(p)'
  <2> DEFINE f == [At(d) EXCEPT !.tries = n]
  <2>1. "r.lock" \in Pc /\ f \in Frame
    BY DEF Pc, Frame
  <2>2. f.todo = {} /\ f.then = "end"
    BY AtFields DEF Frame
  <2> HIDE DEF f
  <2>3. Moved(p) /\ pc'[p] = "r.lock" /\ frame'[p] = f
    BY <1>1, <2>1, Gone DEF Begin, f
  <2> QED BY <2>2, <2>3 DEF Carries, LogPc, RecalcPc
<1>2. ASSUME End(p)
      PROVE  Moved(p) /\ Carries(p)'
  <2>1. Moved(p) /\ pc'[p] = "idle" /\ frame'[p] = NoFrame
    BY <1>2, Gone
  <2>2. NoFrame.todo = {} /\ NoFrame.then = "end"
    BY DEF NoFrame
  <2> QED BY <2>1, <2>2 DEF Carries, LogPc
<1>3. CASE p = Worker /\ WorkerTake
  <2>1. PICK job \in queue : Begin(Worker, job[1], "r.lock", [At(job[1]) EXCEPT !.tries = job[2]])
    BY <1>3 DEF WorkerTake
  <2>2. job[1] \in Day /\ job[2] \in Nat
    BY DEF TypeOK, Attempts
  <2> QED BY <1>1, <1>3, <2>1, <2>2
<1>4. CASE p = Cron /\ \E d \in Day : Sweep(d)
  <2>1. PICK d \in Day : Begin(Cron, d, "r.lock", At(d))
    BY <1>4 DEF Sweep
  <2>2. At(d) = [At(d) EXCEPT !.tries = 0]
    BY AtFields DEF Frame
  <2> QED BY <1>1, <1>4, <2>1, <2>2
<1> QED BY <1>2, <1>3, <1>4 DEF Robot, WorkerFail, SweepFail

\* Where one goes on.
LEMMA ResumeMoves ==
  ASSUME TypeOK, NEW p \in Process, Carries(p), Resume(p), asked' = asked
  PROVE  Moved(p) /\ Carries(p)'
<1> DEFINE f == frame[p]
<1>1. f \in Frame /\ pc[p] \in Pc
  BY DEF TypeOK
<1>2. p \in Robots => pc[p] \in RecalcPc \cup {"idle"} /\ f.todo = {} /\ f.then = "end"
  BY DEF Carries
<1> USE <1>1
<1> HIDE DEF f
<1>3. ASSUME NEW l \in Pc, NEW g \in Frame, Goto(p, l), frame' = [frame EXCEPT ![p] = g]
      PROVE  Moved(p) /\ pc'[p] = l /\ frame'[p] = g
  BY <1>3, Gone
<1>4. ASSUME NEW l \in Pc, Step(p, l)
      PROVE  Moved(p) /\ pc'[p] = l /\ frame'[p] = f
  BY <1>4, Gone DEF f
<1>5. ASSUME End(p)
      PROVE  Moved(p) /\ Carries(p)'
  <2>1. Moved(p) /\ pc'[p] = "idle" /\ frame'[p] = NoFrame
    BY <1>5, Gone
  <2>2. NoFrame.todo = {} /\ NoFrame.then = "end"
    BY DEF NoFrame
  <2> QED BY <2>1, <2>2 DEF Carries, LogPc
<1>6. CASE CreateLog(p)
  <2> DEFINE g == [f EXCEPT !.new = Tail(f.new)]
  <2>1. g \in Frame /\ g.todo = f.todo /\ g.then = f.then /\ g.d = f.d /\ g.r = f.r
    <3>1. f.new # <<>>
      BY <1>6 DEF Carries, CreateLog, f
    <3>2. Tail(f.new) \in Seq(LogType)
      BY <3>1, HeadTailProperties, FrameFields
    <3> QED BY <3>2 DEF Frame
  <2>2. frame' = [frame EXCEPT ![p] = g] /\ Goto(p, "c.enqueue") /\ pc[p] = "c.insert"
    BY <1>6 DEF CreateLog, f, TypeOK
  <2> HIDE DEF g
  <2>3. Moved(p) /\ pc'[p] = "c.enqueue" /\ frame'[p] = g
    BY <1>3, <2>1, <2>2 DEF Pc, LogPc
  <2> QED BY <2>1, <2>2, <2>3 DEF Carries, LogPc, KindOf, f, RecalcPc
<1>7. CASE AfterLog(p) /\ pc[p] = "c.enqueue"
  <2>1. CASE f.new # <<>>
    <3>1. Step(p, "c.insert")
      BY <1>7, <2>1 DEF AfterLog, f
    <3>2. Moved(p) /\ pc'[p] = "c.insert" /\ frame'[p] = f
      BY <3>1, <1>4 DEF Pc, LogPc
    <3> QED BY <1>7, <2>1, <3>2 DEF Carries, LogPc, KindOf, f, RecalcPc
  <2>2. CASE f.new = <<>> /\ f.then = "recalc"
    <3> DEFINE g == [f EXCEPT !.then = "end"]
    <3>1. g \in Frame /\ g.todo = f.todo /\ g.then = "end" /\ g.d = f.d /\ g.r = f.r
      BY DEF Frame
    <3>2. frame' = [frame EXCEPT ![p] = g] /\ Goto(p, "r.lock")
      BY <1>7, <2>2 DEF AfterLog, f, TypeOK
    <3> HIDE DEF g
    <3>3. Moved(p) /\ pc'[p] = "r.lock" /\ frame'[p] = g
      BY <1>3, <3>1, <3>2 DEF Pc
    <3> QED BY <1>7, <3>1, <3>3 DEF Carries, LogPc, KindOf, f, RecalcPc
  <2>3. CASE f.new = <<>> /\ f.then # "recalc"
    BY <1>7, <2>3, <1>5 DEF AfterLog, f
  <2> QED BY <2>1, <2>2, <2>3
<1>8. CASE AfterRecalc(p) /\ pc[p] \in RecalcPc
  <2>1. CASE f.then = "ot"
    <3> DEFINE g == [f EXCEPT !.then = "end"]
    <3>1. g \in Frame /\ g.todo = f.todo /\ g.then = "end" /\ g.d = f.d /\ g.r = f.r
      BY DEF Frame
    <3>2. frame' = [frame EXCEPT ![p] = g] /\ Goto(p, "o.read")
      BY <1>8, <2>1 DEF AfterRecalc, f, TypeOK
    <3> HIDE DEF g
    <3>3. Moved(p) /\ pc'[p] = "o.read" /\ frame'[p] = g
      BY <1>3, <3>1, <3>2 DEF Pc
    <3> QED BY <1>2, <1>8, <2>1, <3>1, <3>3 DEF Carries, LogPc, KindOf, f, RecalcPc
  <2>2. CASE f.then # "ot" /\ f.todo # {}
    <3>1. Step(p, "d.next")
      BY <1>8, <2>2 DEF AfterRecalc, f
    <3>2. Moved(p) /\ pc'[p] = "d.next" /\ frame'[p] = f
      BY <3>1, <1>4 DEF Pc
    <3> QED BY <1>2, <1>8, <2>2, <3>2 DEF Carries, LogPc, KindOf, f, RecalcPc
  <2>3. CASE f.then # "ot" /\ f.todo = {}
    BY <1>8, <2>3, <1>5 DEF AfterRecalc, f
  <2> QED BY <2>1, <2>2, <2>3
<1>9. CASE RecalcLock(p) /\ ~ AfterRecalc(p)
  <2>1. Step(p, "r.logs") /\ pc[p] = "r.lock"
    BY <1>9 DEF RecalcLock
  <2>2. Moved(p) /\ pc'[p] = "r.logs" /\ frame'[p] = f
    BY <2>1, <1>4 DEF Pc
  <2> QED BY <2>1, <2>2 DEF Carries, LogPc, KindOf, f, RecalcPc
<1>10. CASE RecalcLogs(p)
  <2> DEFINE g == [f EXCEPT !.read = logs[f.d]]
  <2>1. g \in Frame /\ g.todo = f.todo /\ g.then = f.then /\ g.d = f.d /\ g.r = f.r
    BY FrameFields DEF Frame, TypeOK
  <2>2. frame' = [frame EXCEPT ![p] = g] /\ Goto(p, "r.write") /\ pc[p] = "r.logs"
    BY <1>10 DEF RecalcLogs, f, TypeOK
  <2> HIDE DEF g
  <2>3. Moved(p) /\ pc'[p] = "r.write" /\ frame'[p] = g
    BY <1>3, <2>1, <2>2 DEF Pc
  <2> QED BY <2>1, <2>2, <2>3 DEF Carries, LogPc, KindOf, f, RecalcPc
<1>11. CASE Mark(p)
  <2>1. Step(p, "d.next") /\ pc[p] = "d.mark"
    BY <1>11 DEF Mark
  <2>2. Moved(p) /\ pc'[p] = "d.next" /\ frame'[p] = f
    BY <2>1, <1>4 DEF Pc
  <2> QED BY <1>2, <2>1, <2>2 DEF Carries, LogPc, KindOf, f, RecalcPc
<1>12. CASE Apply(p)
  <2>0. frame \in [Process -> Frame] /\ frame[p] = f
    BY DEF f, TypeOK
  <2>1. PICK d \in frame[p].todo :
          \/ /\ KindOf(p) \in OtKinds
             /\ frame' = [frame EXCEPT ![p] = [@ EXCEPT !.d = d, !.todo = frame[p].todo \ {d}, !.then = "ot"]]
             /\ Goto(p, "r.lock")
          \/ /\ KindOf(p) \in ShiftKinds
             /\ frame' = [frame EXCEPT ![p] = [@ EXCEPT !.d = d, !.todo = frame[p].todo \ {d}, !.then = "end"]]
             /\ Goto(p, "s.read")
          \/ /\ KindOf(p) = "XUONG_CA"
             /\ frame' = [frame EXCEPT ![p] = [@ EXCEPT !.d = d, !.todo = frame[p].todo \ {d}, !.then = "end"]]
             /\ Goto(p, "r.lock")
          \/ /\ KindOf(p) = "CORRECTION"
             /\ \E t \in LogType :
                  frame' = [frame EXCEPT ![p] = [@ EXCEPT !.d = d, !.todo = frame[p].todo \ {d}, !.new = <<t>>, !.then = "recalc"]]
             /\ Goto(p, "c.insert")
    BY <1>12, Zenon DEF Apply, KindOf, OtKinds, ShiftKinds
  <2>2. d \in Day /\ pc[p] = "d.next" /\ p \notin Robots
    <3>1. pc[p] = "d.next"
      BY <1>12 DEF Apply
    <3>2. p \notin Robots
      BY <1>2, <3>1 DEF RecalcPc
    <3> QED BY <2>0, <3>1, <3>2, FrameFields
  <2>3. ASSUME NEW l \in {"r.lock", "s.read"}, NEW then \in {"ot", "end"},
               frame' = [frame EXCEPT ![p] = [@ EXCEPT !.d = d, !.todo = frame[p].todo \ {d}, !.then = then]],
               Goto(p, l), l = "s.read" => KindOf(p) \in ShiftKinds,
               then = "ot" => l = "r.lock" /\ KindOf(p) \in OtKinds
        PROVE  Moved(p) /\ Carries(p)'
    <3> DEFINE g == [f EXCEPT !.d = d, !.todo = f.todo \ {d}, !.then = then]
    <3>1. g \in Frame /\ d \notin g.todo /\ g.then = then /\ g.d = d /\ g.r = f.r
      BY <2>2 DEF Frame
    <3> HIDE DEF g
    <3>3. Moved(p) /\ pc'[p] = l /\ frame'[p] = g
      <4>1. frame' = [frame EXCEPT ![p] = g]
        BY <2>3, Zenon DEF g, f
      <4> QED BY <1>3, <2>3, <3>1, <4>1 DEF Pc
    <3> QED BY <2>2, <2>3, <3>1, <3>3 DEF Carries, LogPc, KindOf, f, RecalcPc
  <2>4. ASSUME NEW t \in LogType, KindOf(p) = "CORRECTION", Goto(p, "c.insert"),
               frame' = [frame EXCEPT ![p] = [@ EXCEPT !.d = d, !.todo = frame[p].todo \ {d}, !.new = <<t>>, !.then = "recalc"]]
        PROVE  Moved(p) /\ Carries(p)'
    <3> DEFINE g == [f EXCEPT !.d = d, !.todo = f.todo \ {d}, !.new = <<t>>, !.then = "recalc"]
    <3>1. g \in Frame /\ d \notin g.todo /\ g.then = "recalc" /\ g.d = d /\ g.r = f.r /\ g.new # <<>>
      <4>1. <<t>> \in Seq(LogType) /\ <<t>> # <<>>
        OBVIOUS
      <4>2. g \in Frame
        BY <2>2, <4>1 DEF Frame
      <4>3. d \notin g.todo /\ g.then = "recalc" /\ g.d = d /\ g.r = f.r /\ g.new = <<t>>
        BY <2>2 DEF Frame
      <4> QED BY <4>1, <4>2, <4>3
    <3> HIDE DEF g
    <3>3. Moved(p) /\ pc'[p] = "c.insert" /\ frame'[p] = g
      <4>1. frame' = [frame EXCEPT ![p] = g]
        BY <2>4, Zenon DEF g, f
      <4> QED BY <1>3, <2>4, <3>1, <4>1 DEF Pc, LogPc
    <3> QED BY <2>2, <2>4, <3>1, <3>3 DEF Carries, LogPc, KindOf, f, RecalcPc
  <2> QED BY <2>1, <2>3, <2>4
<1>13. CASE OtRead(p)
  <2> DEFINE g == [f EXCEPT !.ot = sheet[f.d].ot]
  <2>1. g \in Frame /\ g.todo = f.todo /\ g.then = f.then /\ g.d = f.d /\ g.r = f.r
    <3>1. sheet[f.d].ot \in Nat
      BY FrameFields DEF TypeOK, Sheet
    <3> QED BY <3>1 DEF Frame
  <2>2. frame' = [frame EXCEPT ![p] = g] /\ Goto(p, "o.write") /\ pc[p] = "o.read"
    BY <1>13 DEF OtRead, f, TypeOK
  <2> HIDE DEF g
  <2>3. Moved(p) /\ pc'[p] = "o.write" /\ frame'[p] = g
    BY <1>3, <2>1, <2>2 DEF Pc
  <2> QED BY <1>2, <2>1, <2>2, <2>3 DEF Carries, LogPc, KindOf, f, RecalcPc
<1>14. CASE ShiftRead(p)
  <2> DEFINE g == [f EXCEPT !.read = logs[f.d]]
  <2>1. g \in Frame /\ g.todo = f.todo /\ g.then = f.then /\ g.d = f.d /\ g.r = f.r
    BY FrameFields DEF Frame, TypeOK
  <2>2. frame' = [frame EXCEPT ![p] = g] /\ Goto(p, "s.write") /\ pc[p] = "s.read"
    BY <1>14 DEF ShiftRead, f, TypeOK
  <2> HIDE DEF g
  <2>3. Moved(p) /\ pc'[p] = "s.write" /\ frame'[p] = g
    BY <1>3, <2>1, <2>2 DEF Pc
  <2> QED BY <1>2, <2>1, <2>2, <2>3 DEF Carries, LogPc, KindOf, f, RecalcPc
<1>15. CASE NextLine(p) /\ pc[p] \in {"o.write", "s.write"}
  <2>1. CASE f.todo # {}
    <3>1. Step(p, "d.next")
      BY <1>15, <2>1 DEF NextLine, f
    <3>2. Moved(p) /\ pc'[p] = "d.next" /\ frame'[p] = f
      BY <3>1, <1>4 DEF Pc
    <3> QED BY <1>2, <1>15, <2>1, <3>2 DEF Carries, LogPc, KindOf, f, RecalcPc
  <2>2. CASE f.todo = {}
    BY <1>15, <2>2, <1>5 DEF NextLine, f
  <2> QED BY <2>1, <2>2
<1> QED BY <1>5, <1>6, <1>7, <1>8, <1>9, <1>10, <1>11, <1>12, <1>13, <1>14, <1>15
        DEF Resume, Enqueue, EnqueueLost, RecalcLock, RecalcWrite, EditWrite, OtWrite, ShiftWrite, RecalcPc

\* Who moves, moves alone.
LEMMA TurnMoves ==
  ASSUME TypeOK, NEW p \in Process, Carries(p), Turn(p), asked' = asked
  PROVE  Moved(p) /\ Carries(p)'
<1>1. CASE p \in Handler /\ Begins(p)
  BY <1>1, BeginMoves
<1>2. CASE p \in Handler /\ Fail(p)
  <2>1. Moved(p) /\ pc'[p] = "idle" /\ frame'[p] = NoFrame
    BY <1>2, Gone DEF Fail
  <2>2. NoFrame.todo = {} /\ NoFrame.then = "end"
    BY DEF NoFrame
  <2> QED BY <2>1, <2>2 DEF Carries, LogPc
<1> QED BY <1>1, <1>2, ResumeMoves, RobotMoves DEF Turn

\* What is stored, by type.
Stored ==
  /\ logs \in [Day -> LogSeq]
  /\ sheet \in [Day -> Sheet]
  /\ past \in [Day -> BOOLEAN] /\ swept \in [Day -> BOOLEAN]
  /\ queue \subseteq Day \X (1 .. Attempts)
  /\ status \in [Request -> {"none", "PENDING", "APPROVED", "REJECTED"}]
  /\ want \in [Day -> [basis : {"auto", "edit", "shift"}, ot : Nat]]
  /\ given \in [Day -> BOOLEAN]
  /\ cut \in [Day -> {"no", "early", "late"}]
  /\ fails \in 0 .. MaxFail

\* Every step keeps the types of what is stored.
LEMMA StoredTypes ==
  ASSUME TypeOK, NEW p \in Process, Carries(p), Turn(p), asked' = asked
  PROVE  Stored'
<1> USE TimesheetAssumption
<1>1. frame[p] \in Frame /\ frame[p].d \in Day /\ frame[p].r \in Request /\ frame[p].ot \in Nat
      /\ frame[p].read \in LogSeq /\ frame[p].new \in Seq(LogType) /\ frame[p].tries \in Nat
  BY FrameFields DEF TypeOK
<1>2. Stored
  BY DEF TypeOK, Stored
<1>3. <<>> \in LogSeq
  <2>1. <<>> \in Seq(LogType) /\ Len(<<>>) = 0
    OBVIOUS
  <2>2. 0 <= MaxLogs
    OBVIOUS
  <2>3. Len(<<>>) <= MaxLogs
    BY <2>1, <2>2
  <2> QED BY <2>1, <2>3, LogSeqs
<1>4. ASSUME NEW d \in Day, Start(p, d)
      PROVE  Stored'
  <2>1. CASE Check(p, d)
    <3>1. PICK t : given' = [given EXCEPT ![d] = @ \/ t # Infer(d)]
      BY <2>1 DEF Check
    <3>2. (given[d] \/ t # Infer(d)) \in BOOLEAN
      OBVIOUS
    <3>3. given' \in [Day -> BOOLEAN]
      BY <1>2, <3>1, <3>2, Zenon DEF Stored
    <3> QED BY <1>2, <2>1, <3>3 DEF Stored, Check
  <2>2. CASE HrCorrection(p, d)
    <3>1. given' \in [Day -> BOOLEAN]
      BY <1>2, <2>2 DEF Stored, HrCorrection
    <3> QED BY <1>2, <2>2, <3>1 DEF Stored, HrCorrection
  <2>3. CASE Reset(p, d)
    <3>1. NoSheet \in Sheet /\ NoWant \in [basis : {"auto", "edit", "shift"}, ot : Nat]
      BY <1>3 DEF NoSheet, Sheet, NoWant
    <3> QED BY <1>2, <1>3, <2>3, <3>1 DEF Stored, Reset
  <2> QED BY <1>2, <1>4, <2>1, <2>2, <2>3 DEF Stored, Start, Recalc, Edit
<1>5. CASE Begins(p)
  BY <1>2, <1>4, <1>5 DEF Begins, Approved, Stored
<1>6. CASE CreateLog(p)
  <2> DEFINE d == frame[p].d
  <2>1. pc[p] = "c.insert" /\ frame[p].new # <<>>
    BY <1>6 DEF CreateLog, Carries
  <2>2. Head(frame[p].new) \in LogType
    BY <1>1, <2>1, HeadTailProperties
  <2>3. logs' \in [Day -> LogSeq]
    <3>1. CASE logs' = logs
      BY <1>2, <3>1 DEF Stored
    <3>2. ASSUME NEW n \in 1 .. Len(logs[d]) + 1, Len(logs[d]) < MaxLogs,
                 logs' = [logs EXCEPT ![d] = InsertAt(@, n, Head(frame[p].new))]
          PROVE  logs' \in [Day -> LogSeq]
      <4>1. logs[d] \in LogSeq /\ Len(logs[d]) \in Nat
        BY <1>1, <1>2, LogSeqs, LenProperties DEF Stored
      <4>2. InsertAt(logs[d], n, Head(frame[p].new)) \in LogSeq
        <5>1. PICK s \in LogSeq : s = logs[d] /\ Len(s) \in Nat
          BY <4>1
        <5>2. PICK t \in LogType : t = Head(frame[p].new)
          BY <2>2
        <5>3. n \in 1 .. Len(s) + 1 /\ Len(s) < MaxLogs
          BY <3>2, <5>1
        <5>4. InsertAt(s, n, t) \in Seq(LogType) /\ Len(InsertAt(s, n, t)) = Len(s) + 1
          BY <5>3, Inserted
        <5>5. InsertAt(s, n, t) \in LogSeq
          <6>1. Len(InsertAt(s, n, t)) <= MaxLogs
            BY <5>1, <5>3, <5>4, TimesheetAssumption
          <6> QED BY <5>4, <6>1, LogSeqs
        <5> QED BY <5>1, <5>2, <5>5
      <4> QED BY <1>1, <1>2, <3>2, <4>2 DEF Stored
    <3> QED BY <1>6, <3>1, <3>2 DEF CreateLog
  <2> QED BY <1>2, <1>6, <2>3 DEF Stored, CreateLog
<1>7. CASE Enqueue(p) \/ EnqueueLost(p)
  <2>1. queue' \subseteq Day \X (1 .. Attempts)
    BY <1>1, <1>2, <1>7 DEF Stored, Enqueue, EnqueueLost, Add, Lost, Attempts
  <2> QED BY <1>2, <1>7, <2>1 DEF Stored, Enqueue, EnqueueLost
<1>8. CASE RecalcWrite(p)
  <2>1. sheet[frame[p].d] \in Sheet
    BY <1>1, <1>2 DEF Stored
  <2>2. [sheet[frame[p].d] EXCEPT !.row = TRUE, !.basis = "auto", !.seen = frame[p].read, !.ot = 0] \in Sheet
    BY <1>1, <2>1 DEF Sheet
  <2>3. sheet' \in [Day -> Sheet]
    BY <1>1, <1>2, <1>8, <2>2 DEF Stored, RecalcWrite
  <2> QED BY <1>2, <1>8, <2>3 DEF Stored, RecalcWrite
<1>9. CASE OtWrite(p)
  <2>1. sheet[frame[p].d] \in Sheet
    BY <1>1, <1>2 DEF Stored
  <2>2. [sheet[frame[p].d] EXCEPT !.row = TRUE, !.ot = frame[p].ot + 1, !.locked = TRUE] \in Sheet
    <3>1. ASSUME NEW n \in Nat
          PROVE  [sheet[frame[p].d] EXCEPT !.row = TRUE, !.ot = n, !.locked = TRUE] \in Sheet
      BY <2>1 DEF Sheet
    <3>2. frame[p].ot + 1 \in Nat
      BY <1>1
    <3> QED BY <3>1, <3>2
  <2>3. sheet' \in [Day -> Sheet]
    BY <1>1, <1>2, <1>9, <2>2 DEF Stored, OtWrite
  <2> QED BY <1>2, <1>9, <2>3 DEF Stored, OtWrite
<1>10. CASE ShiftWrite(p)
  <2>2. [row |-> TRUE, basis |-> "shift", seen |-> frame[p].read, ot |-> 0, locked |-> TRUE] \in Sheet
    BY <1>1 DEF Sheet
  <2>3. sheet' \in [Day -> Sheet]
    BY <1>1, <1>2, <1>10, <2>2 DEF Stored, ShiftWrite
  <2> QED BY <1>2, <1>10, <2>3 DEF Stored, ShiftWrite
<1>11. CASE EditWrite(p)
  <2>2. [row |-> TRUE, basis |-> "edit", seen |-> <<>>, ot |-> 0, locked |-> TRUE] \in Sheet
    BY <1>3 DEF Sheet
  <2>3. sheet' \in [Day -> Sheet]
    BY <1>1, <1>2, <1>11, <2>2 DEF Stored, EditWrite
  <2>4. want' \in [Day -> [basis : {"auto", "edit", "shift"}, ot : Nat]]
    BY <1>1, <1>2, <1>11 DEF Stored, EditWrite
  <2> QED BY <1>2, <1>11, <2>3, <2>4 DEF Stored, EditWrite
<1>12. CASE Mark(p)
  <2>1. ASSUME NEW k, NEW w \in [basis : {"auto", "edit", "shift"}, ot : Nat]
        PROVE  Wanted(k, w) \in [basis : {"auto", "edit", "shift"}, ot : Nat]
    BY DEF Wanted
  <2>2. want' \in [Day -> [basis : {"auto", "edit", "shift"}, ot : Nat]]
    BY <1>2, <1>12, <2>1 DEF Stored, Mark
  <2>3. status' \in [Request -> {"none", "PENDING", "APPROVED", "REJECTED"}]
    BY <1>1, <1>2, <1>12 DEF Stored, Mark
  <2> QED BY <1>2, <1>12, <2>2, <2>3 DEF Stored, Mark
<1>13. CASE Apply(p)
  <2>1. given' \in [Day -> BOOLEAN]
    <3>1. given' = given \/ \E d \in Day : given' = [given EXCEPT ![d] = TRUE]
      <4>1. frame[p].todo \subseteq Day
        BY <1>1, FrameFields
      <4> QED BY <1>13, <4>1, Zenon DEF Apply
    <3> QED BY <1>2, <3>1 DEF Stored
  <2> QED BY <1>2, <1>13, <2>1 DEF Stored, Apply
<1>14. CASE WorkerTake
  <2>1. queue' \subseteq Day \X (1 .. Attempts)
    BY <1>2, <1>14 DEF Stored, WorkerTake
  <2> QED BY <1>2, <1>14, <2>1 DEF Stored, WorkerTake
<1>15. CASE WorkerFail
  <2>0. frame[Worker].d \in Day /\ frame[Worker].tries \in Nat
    BY Given, FrameFields DEF TypeOK
  <2>1. queue' \subseteq Day \X (1 .. Attempts)
    <3>1. CASE frame[Worker].tries < Attempts
      <4>1. <<frame[Worker].d, frame[Worker].tries + 1>> \in Day \X (1 .. Attempts)
        BY <2>0, <3>1 DEF Attempts
      <4>2. queue' = queue \cup {<<frame[Worker].d, frame[Worker].tries + 1>>}
        BY <1>15, <3>1 DEF WorkerFail
      <4> QED BY <1>2, <4>1, <4>2 DEF Stored
    <3>2. CASE ~ (frame[Worker].tries < Attempts)
      BY <1>2, <1>15, <3>2 DEF Stored, WorkerFail
    <3> QED BY <3>1, <3>2
  <2> QED BY <1>2, <1>15, <2>1 DEF Stored, WorkerFail
<1>16. CASE SweepFail \/ \E d \in Day : Sweep(d)
  <2>1. CASE SweepFail
    BY <1>2, <2>1 DEF Stored, SweepFail
  <2>2. ASSUME NEW d \in Day, Sweep(d)
        PROVE  Stored'
    BY <1>2, <2>2 DEF Stored, Sweep
  <2> QED BY <1>16, <2>1, <2>2
<1>17. CASE Fail(p)
  <2>1. cut' \in [Day -> {"no", "early", "late"}]
    BY <1>2, <1>17 DEF Stored, Fail
  <2> QED BY <1>2, <1>17, <2>1 DEF Stored, Fail
<1>18. CASE RecalcLock(p) \/ RecalcLogs(p) \/ OtRead(p) \/ ShiftRead(p)
  BY <1>2, <1>18 DEF Stored, RecalcLock, RecalcLogs, OtRead, ShiftRead
<1> QED BY <1>5, <1>6, <1>7, <1>8, <1>9, <1>10, <1>11, <1>12, <1>13, <1>14, <1>15, <1>16, <1>17, <1>18
        DEF Turn, Resume, Robot

\* A step of nobody keeps them too.
LEMMA QuietTypes ==
  ASSUME TypeOK, Quiet
  PROVE  Stored' /\ UNCHANGED <<logs, sheet, swept, queue, pc, frame, want, given, cut, fails>>
         /\ \A d \in Day : past[d] => past'[d]
<1>1. CASE \E r \in Request : RequestCorrection(r) \/ RequestOt(r) \/ Upload(r) \/ Rejected(r)
  <2>1. PICK r \in Request : RequestCorrection(r) \/ RequestOt(r) \/ Upload(r) \/ Rejected(r)
    BY <1>1
  <2>2. status' \in [Request -> {"none", "PENDING", "APPROVED", "REJECTED"}]
    BY <2>1 DEF TypeOK, RequestCorrection, RequestOt, Upload, Rejected, File
  <2> QED BY <2>1, <2>2 DEF TypeOK, Stored, RequestCorrection, RequestOt, Upload, Rejected, File
<1>2. CASE \E d \in Day : DayEnds(d)
  BY <1>2 DEF TypeOK, Stored, DayEnds
<1> QED BY <1>1, <1>2 DEF Quiet

\* A finite set with no more than one element.
LEMMA AtMostOne ==
  ASSUME NEW S, IsFiniteSet(S), ~ (Cardinality(S) > 1)
  PROVE  \A p, q \in S : p = q
<1> SUFFICES ASSUME NEW p \in S, NEW q \in S, p # q
             PROVE  FALSE
  OBVIOUS
<1>1. IsFiniteSet({p}) /\ Cardinality({p}) = 1
  BY FS_Singleton
<1>2. IsFiniteSet({p} \cup {q}) /\ Cardinality({p} \cup {q}) = 2
  BY <1>1, FS_AddElement
<1>3. Cardinality({p} \cup {q}) <= Cardinality(S)
  BY FS_Subset
<1>4. Cardinality(S) \in Nat
  BY FS_CardinalityType
<1> QED BY <1>2, <1>3, <1>4

\* What a step adds to raced.
LEMMA RacedNext ==
  ASSUME TypeOK, Next, NEW d \in Day
  PROVE  /\ raced[d] \subseteq raced'[d]
         /\ "sheet" \notin raced'[d] => \A p, q \in Computing(d)' : p = q
         /\ "logs" \notin raced'[d] => (\A p, q \in Logging(d)' : p = q) /\ ~ Torn(d)
         /\ raced' \in [Day -> SUBSET {"logs", "sheet"}]
<1>1. raced' = [e \in Day |-> raced[e]
                 \cup (IF Cardinality(Logging(e)') > 1 \/ Torn(e) THEN {"logs"} ELSE {})
                 \cup (IF Cardinality(Computing(e)') > 1 THEN {"sheet"} ELSE {})]
  BY Zenon DEF Next
<1>2. raced'[d] = raced[d]
                 \cup (IF Cardinality(Logging(d)') > 1 \/ Torn(d) THEN {"logs"} ELSE {})
                 \cup (IF Cardinality(Computing(d)') > 1 THEN {"sheet"} ELSE {})
  BY <1>1, Zenon
<1>3. IsFiniteSet(Computing(d)') /\ IsFiniteSet(Logging(d)')
  <2>1. Computing(d)' \subseteq Process /\ Logging(d)' \subseteq Process
    BY DEF Computing, Logging
  <2> QED BY <2>1, Given, FS_Subset
<1>4. ASSUME "sheet" \notin raced'[d]
      PROVE  \A p, q \in Computing(d)' : p = q
  <2>1. ~ (Cardinality(Computing(d)') > 1)
    BY <1>2, <1>4, Zenon
  <2> QED BY <1>3, <2>1, AtMostOne
<1>5. ASSUME "logs" \notin raced'[d]
      PROVE  (\A p, q \in Logging(d)' : p = q) /\ ~ Torn(d)
  <2>1. ~ (Cardinality(Logging(d)') > 1) /\ ~ Torn(d)
    BY <1>2, <1>5, Zenon
  <2> QED BY <1>3, <2>1, AtMostOne
<1>6. raced' \in [Day -> SUBSET {"logs", "sheet"}]
  <2>1. raced \in [Day -> SUBSET {"logs", "sheet"}]
    BY DEF TypeOK
  <2>2. ASSUME NEW e \in Day
        PROVE  raced'[e] \subseteq {"logs", "sheet"}
    <3>1. raced'[e] = raced[e]
                 \cup (IF Cardinality(Logging(e)') > 1 \/ Torn(e) THEN {"logs"} ELSE {})
                 \cup (IF Cardinality(Computing(e)') > 1 THEN {"sheet"} ELSE {})
      BY <1>1, Zenon
    <3> QED BY <2>1, <3>1
  <2>3. raced' = [e \in Day |-> raced'[e]]
    BY <1>1, Zenon
  <2> QED BY <2>2, <2>3
<1> QED BY <1>2, <1>4, <1>5, <1>6

\* Types, what processes carry and the record of overlaps are kept by every step.
LEMMA SheetInvStep ==
  ASSUME SheetInv, Next
  PROVE  SheetInv'
<1>1. TypeOK /\ (\A p \in Process : Carries(p)) /\ asked' = asked
  BY DEF SheetInv, Next
<1>2. Marked'
  <2>1. ASSUME NEW d \in Day
        PROVE  /\ "sheet" \notin raced'[d] => \A p, q \in Computing(d)' : p = q
               /\ "logs" \notin raced'[d] => \A p, q \in Logging(d)' : p = q
    BY <1>1, RacedNext
  <2> QED BY <2>1 DEF Marked
<1>3. raced' \in [Day -> SUBSET {"logs", "sheet"}]
  BY <1>1, RacedNext, TimesheetAssumption
<1>4. asked' \in [Request -> [kind : RequestKind, days : SUBSET Day]]
  BY <1>1 DEF TypeOK
<1>5. CASE Quiet
  <2>1. Stored' /\ UNCHANGED <<pc, frame>>
    BY <1>1, <1>5, QuietTypes
  <2>2. TypeOK'
    BY <1>1, <1>3, <1>4, <2>1 DEF TypeOK, Stored
  <2>3. \A p \in Process : Carries(p)'
    BY <1>1, <2>1 DEF Carries, KindOf
  <2> QED BY <1>2, <2>2, <2>3 DEF SheetInv
<1>6. ASSUME NEW p \in Process, Turn(p)
      PROVE  SheetInv'
  <2>1. Moved(p) /\ Carries(p)' /\ Stored'
    BY <1>1, <1>6, TurnMoves, StoredTypes
  <2>2. TypeOK'
    BY <1>3, <1>4, <2>1 DEF TypeOK, Stored, Moved
  <2>3. ASSUME NEW q \in Process, q # p
        PROVE  Carries(q)'
    <3>1. Carries(q) /\ Stays(q)
      BY <1>1, <2>1, <2>3 DEF Moved
    <3> QED BY <1>1, <3>1 DEF Carries, KindOf, Stays
  <2>4. \A q \in Process : Carries(q)'
    BY <2>1, <2>3
  <2> QED BY <1>2, <2>2, <2>4 DEF SheetInv
<1> QED BY <1>5, <1>6, OneMoves DEF Next

\* In the beginning nothing has happened.
LEMMA SheetInvInit ==
  ASSUME Init
  PROVE  SheetInv
<1>1. \A p \in Process : pc[p] = "idle" /\ frame[p] = NoFrame
  BY DEF Init
<1>2. <<>> \in LogSeq
  BY Given, FrameFields DEF NoFrame
<1>3. NoSheet \in Sheet /\ NoWant \in [basis : {"auto", "edit", "shift"}, ot : Nat]
  BY <1>2 DEF NoSheet, Sheet, NoWant
<1>4. Stored
  BY <1>2, <1>3, TimesheetAssumption DEF Init, Stored
<1>5. pc \in [Process -> Pc] /\ frame \in [Process -> Frame]
  BY Given DEF Init, Pc
<1>6. raced \in [Day -> SUBSET {"logs", "sheet"}]
  BY DEF Init
<1>7. asked \in [Request -> [kind : RequestKind, days : SUBSET Day]]
  BY TimesheetAssumption DEF Init
<1>8. TypeOK
  BY <1>4, <1>5, <1>6, <1>7 DEF TypeOK, Stored
<1>9. \A p \in Process : Carries(p)
  <2>1. NoFrame.todo = {} /\ NoFrame.then = "end"
    BY DEF NoFrame
  <2> QED BY <1>1, <2>1 DEF Carries, LogPc
<1>10. Marked
  BY <1>1 DEF Marked, Computing, Logging, LogPc
<1> QED BY <1>8, <1>9, <1>10 DEF SheetInv

\* A stuttering step changes nothing.
LEMMA SheetInvStutter ==
  ASSUME SheetInv, UNCHANGED vars
  PROVE  SheetInv'
<1> USE DEF SheetInv, vars, history
<1>1. TypeOK'
  BY DEF TypeOK
<1>2. \A p \in Process : Carries(p)'
  BY DEF Carries, KindOf
<1>3. Marked'
  BY DEF Marked, Computing, Logging, Days
<1> QED BY <1>1, <1>2, <1>3

\* Types: every variable of Timesheet keeps its type, and each process carries what its label needs.
THEOREM TimesheetTypeCorrect == Spec => []TypeOK
<1>1. SheetInv /\ [Next]_vars => SheetInv'
  BY SheetInvStep, SheetInvStutter
<1>2. SheetInv => TypeOK
  BY DEF SheetInv
<1> QED BY <1>1, <1>2, SheetInvInit, PTL DEF Spec

-----------------------------------------------------------------------------
(* The sheet is as decided. *)

\* One who begins, or ends, owes nothing; what is decided of a day by a reset is nothing.
LEMMA BeginSheet ==
  ASSUME SheetInv, asked' = asked, NEW h \in Handler, Begins(h), NEW d \in Day, OwnSheet(h, d)
  PROVE  OwnSheet(h, d)'
<1>1. TypeOK /\ Carries(h) /\ h \in Process
  BY DEF SheetInv, Process
<1>2. pc[h] = "idle" /\ frame[h].todo = {} /\ frame[h].then # "ot"
  BY <1>1 DEF Begins, Start, Check, HrCorrection, Recalc, Reset, Edit, Approved, Begin, Carries, RecalcPc
<1>3. ~ OwesOt(h, d) /\ ~ OwesShift(h, d)
  BY <1>2 DEF OwesOt, OwesShift
<1>4. Moved(h) /\ Carries(h)'
  BY <1>1, BeginMoves
<1>5. ASSUME pc'[h] \in {"c.insert", "r.lock", "e.write", "d.mark"}, UNCHANGED <<sheet, want>>,
             pc'[h] # "d.mark" => frame'[h].todo = {} /\ frame'[h].then # "ot"
      PROVE  OwnSheet(h, d)'
  <2>1. ~ OwesOt(h, d)' /\ ~ OwesShift(h, d)'
    BY <1>5 DEF OwesOt, OwesShift
  <2> QED BY <1>3, <1>5, <2>1 DEF OwnSheet
<1>6. ASSUME NEW r \in Request, Approved(h, r)
      PROVE  OwnSheet(h, d)'
  <2>1. pc'[h] = "d.mark"
    BY <1>1, <1>6 DEF Approved, Begin, Goto, TypeOK
  <2> QED BY <1>5, <1>6, <2>1 DEF Approved
<1>7. ASSUME NEW e \in Day, Start(h, e)
      PROVE  /\ pc'[h] \in {"c.insert", "r.lock", "e.write"}
             /\ frame'[h].todo = {} /\ frame'[h].then # "ot"
  <2>1. pc'[h] \in {"c.insert", "r.lock", "e.write"}
    BY <1>1, <1>7 DEF Start, Check, HrCorrection, Recalc, Reset, Edit, Begin, Goto, TypeOK
  <2>2. CASE Recalc(h, e) \/ Reset(h, e) \/ Edit(h, e)
    <3>1. frame'[h] = At(e)
      BY <1>1, <2>2 DEF Recalc, Reset, Edit, Begin, TypeOK
    <3> QED BY <2>1, <3>1, AtFields
  <2>3. CASE Check(h, e) \/ HrCorrection(h, e)
    <3>1. pc'[h] = "c.insert"
      BY <1>1, <2>3 DEF Check, HrCorrection, Begin, Goto, TypeOK
    <3>2. frame'[h].then # "ot"
      BY <1>4, <3>1 DEF Carries, LogPc
    <3>3. CASE Check(h, e)
      <4>1. PICK t : Begin(h, e, "c.insert", [At(e) EXCEPT !.new = <<t>>, !.at = Len(logs[e])])
        BY <3>3 DEF Check
      <4>2. frame'[h] = [At(e) EXCEPT !.new = <<t>>, !.at = Len(logs[e])]
        BY <1>1, <4>1 DEF Begin, TypeOK
      <4>3. frame'[h].todo = At(e).todo
        BY <4>2, AtFields DEF Frame
      <4> QED BY <3>1, <3>2, <4>3, AtFields
    <3>4. CASE HrCorrection(h, e)
      <4>1. PICK types : Begin(h, e, "c.insert", [At(e) EXCEPT !.new = types, !.then = "recalc"])
        BY <3>4, Zenon DEF HrCorrection
      <4>2. frame'[h] = [At(e) EXCEPT !.new = types, !.then = "recalc"]
        BY <1>1, <4>1 DEF Begin, TypeOK
      <4>3. frame'[h].todo = At(e).todo
        BY <4>2, AtFields DEF Frame
      <4> QED BY <3>1, <3>2, <4>3, AtFields
    <3> QED BY <2>3, <3>3, <3>4
  <2> QED BY <1>7, <2>2, <2>3 DEF Start
<1>8. ASSUME NEW e \in Day, Check(h, e) \/ HrCorrection(h, e) \/ Recalc(h, e) \/ Edit(h, e)
      PROVE  OwnSheet(h, d)'
  <2>1. UNCHANGED <<sheet, want>> /\ Start(h, e)
    BY <1>8 DEF Check, HrCorrection, Recalc, Edit, Start
  <2> QED BY <1>5, <1>7, <2>1
<1>9. ASSUME NEW e \in Day, Reset(h, e)
      PROVE  OwnSheet(h, d)'
  <2>1. pc'[h] = "r.lock" /\ frame'[h].todo = {} /\ frame'[h].then # "ot"
    BY <1>1, <1>7, <1>9 DEF Reset, Start, Begin, Goto, TypeOK
  <2>2. ~ OwesOt(h, d)' /\ ~ OwesShift(h, d)'
    BY <2>1 DEF OwesOt, OwesShift
  <2>3. CASE d = e
    <3>1. sheet'[d] = NoSheet /\ want'[d] = NoWant
      BY <1>1, <1>9, <2>3 DEF Reset, TypeOK
    <3> QED BY <2>1, <2>2, <3>1 DEF OwnSheet, NoSheet, NoWant
  <2>4. CASE d # e
    <3>1. sheet'[d] = sheet[d] /\ want'[d] = want[d]
      BY <1>1, <1>9, <2>4 DEF Reset, TypeOK
    <3> QED BY <1>3, <2>1, <2>2, <3>1 DEF OwnSheet
  <2> QED BY <2>3, <2>4
<1> QED BY <1>6, <1>8, <1>9 DEF Begins, Start

\* The worker and the cron owe nothing.
LEMMA RobotSheet ==
  ASSUME SheetInv, asked' = asked, NEW p \in Process, Robot(p), NEW d \in Day, OwnSheet(p, d)
  PROVE  OwnSheet(p, d)'
<1>1. TypeOK /\ Carries(p) /\ p \in Robots
  BY DEF SheetInv, Robot, Robots
<1>2. Carries(p)' /\ UNCHANGED <<sheet, want>>
  BY <1>1, RobotMoves DEF Robot, WorkerTake, WorkerFail, SweepFail, Sweep
<1>3. /\ ~ OwesOt(p, d) /\ ~ OwesShift(p, d)
      /\ ~ OwesOt(p, d)' /\ ~ OwesShift(p, d)'
  BY <1>1, <1>2 DEF OwesOt, OwesShift, Carries, RecalcPc
<1>4. pc'[p] \in {"r.lock", "idle"}
  BY <1>1 DEF Robot, WorkerTake, WorkerFail, SweepFail, Sweep, Begin, End, Goto, TypeOK
<1> QED BY <1>2, <1>3, <1>4 DEF OwnSheet

\* One who goes on leaves the sheet as decided but for what he still owes.
LEMMA ResumeSheet ==
  ASSUME SheetInv, asked' = asked, NEW p \in Process, Resume(p), NEW d \in Day, OwnSheet(p, d)
  PROVE  OwnSheet(p, d)'
<1> DEFINE f == frame[p]
<1>1. TypeOK /\ Carries(p)
  BY DEF SheetInv
<1>2. /\ f \in Frame /\ frame \in [Process -> Frame] /\ pc \in [Process -> Pc]
      /\ sheet \in [Day -> Sheet] /\ f.d \in Day /\ NoFrame.todo = {} /\ NoFrame.then = "end"
      /\ want[d] \in [basis : {"auto", "edit", "shift"}, ot : Nat] /\ sheet[d] \in Sheet
  BY <1>1, FrameFields DEF TypeOK, NoFrame
<1>5. ASSUME AfterRecalc(p), pc[p] \in RecalcPc
      PROVE  /\ OwesOt(p, d)' <=> OwesOt(p, d)
             /\ OwesShift(p, d)' <=> OwesShift(p, d)
             /\ pc'[p] \in {"o.read", "d.next", "idle"}
  <2>1. CASE f.then = "ot"
    <3>1. pc'[p] = "o.read" /\ frame'[p] = [f EXCEPT !.then = "end"]
      BY <1>2, <1>5, <2>1 DEF AfterRecalc, Goto
    <3>2. frame'[p].d = f.d /\ frame'[p].todo = f.todo /\ frame'[p].then = "end" /\ frame'[p].r = f.r
      BY <1>2, <3>1 DEF Frame
    <3> QED BY <1>5, <2>1, <3>1, <3>2 DEF OwesOt, OwesShift, KindOf, RecalcPc
  <2>2. CASE f.then # "ot" /\ f.todo # {}
    <3>1. pc'[p] = "d.next" /\ frame'[p] = f
      BY <1>2, <1>5, <2>2 DEF AfterRecalc, Goto, Step
    <3> QED BY <1>5, <2>2, <3>1 DEF OwesOt, OwesShift, KindOf, RecalcPc
  <2>3. CASE f.then # "ot" /\ f.todo = {}
    <3>1. pc'[p] = "idle" /\ frame'[p] = NoFrame
      BY <1>2, <1>5, <2>3 DEF AfterRecalc, Goto, End
    <3> QED BY <1>2, <1>5, <2>3, <3>1 DEF OwesOt, OwesShift, KindOf, RecalcPc
  <2> QED BY <2>1, <2>2, <2>3
<1>6. CASE CreateLog(p)
  <2>1. pc[p] = "c.insert" /\ pc'[p] = "c.enqueue" /\ frame'[p] = [f EXCEPT !.new = Tail(f.new)] /\ UNCHANGED <<sheet, want>>
    BY <1>2, <1>6 DEF CreateLog, Goto
  <2>2. frame'[p].d = f.d /\ frame'[p].todo = f.todo /\ frame'[p].then = f.then /\ frame'[p].r = f.r
    BY <1>2, <2>1 DEF Frame
  <2>3. (OwesOt(p, d)' <=> OwesOt(p, d)) /\ (OwesShift(p, d)' <=> OwesShift(p, d))
    BY <2>1, <2>2 DEF OwesOt, OwesShift, KindOf
  <2> QED BY <2>1, <2>3 DEF OwnSheet
<1>7. CASE AfterLog(p) /\ pc[p] = "c.enqueue" /\ UNCHANGED <<sheet, want>>
  <2>1. CASE f.new # <<>>
    <3>1. pc'[p] = "c.insert" /\ frame'[p] = f
      BY <1>2, <1>7, <2>1 DEF AfterLog, Goto, Step
    <3>2. (OwesOt(p, d)' <=> OwesOt(p, d)) /\ (OwesShift(p, d)' <=> OwesShift(p, d))
      BY <1>7, <3>1 DEF OwesOt, OwesShift, KindOf
    <3> QED BY <1>7, <3>1, <3>2 DEF OwnSheet
  <2>2. CASE f.new = <<>> /\ f.then = "recalc"
    <3>1. pc'[p] = "r.lock" /\ frame'[p] = [f EXCEPT !.then = "end"]
      BY <1>2, <1>7, <2>2 DEF AfterLog, Goto
    <3>2. frame'[p].d = f.d /\ frame'[p].todo = f.todo /\ frame'[p].then = "end" /\ frame'[p].r = f.r
      BY <1>2, <3>1 DEF Frame
    <3>3. (OwesOt(p, d)' <=> OwesOt(p, d)) /\ (OwesShift(p, d)' <=> OwesShift(p, d))
      BY <1>7, <2>2, <3>1, <3>2 DEF OwesOt, OwesShift, KindOf
    <3> QED BY <1>7, <3>1, <3>3 DEF OwnSheet
  <2>3. CASE f.new = <<>> /\ f.then # "recalc"
    <3>1. pc'[p] = "idle" /\ frame'[p] = NoFrame
      BY <1>2, <1>7, <2>3 DEF AfterLog, Goto, End
    <3>2. ~ OwesOt(p, d)' /\ ~ OwesShift(p, d)'
      BY <1>2, <3>1 DEF OwesOt, OwesShift
    <3>3. ~ OwesOt(p, d) /\ ~ OwesShift(p, d)
      BY <1>1, <1>7 DEF OwesOt, OwesShift, Carries, LogPc, OtKinds, ShiftKinds
    <3> QED BY <1>7, <3>1, <3>2, <3>3 DEF OwnSheet
  <2> QED BY <2>1, <2>2, <2>3
<1>8. CASE RecalcLock(p)
  <2>1. pc[p] = "r.lock" /\ UNCHANGED <<sheet, want>>
    BY <1>8 DEF RecalcLock
  <2>2. CASE sheet[f.d].locked
    BY <1>5, <1>8, <2>1, <2>2 DEF RecalcLock, OwnSheet, RecalcPc
  <2>3. CASE ~ sheet[f.d].locked
    <3>1. pc'[p] = "r.logs" /\ frame'[p] = f
      BY <1>2, <1>8, <2>3 DEF RecalcLock, Goto, Step
    <3>2. (OwesOt(p, d)' <=> OwesOt(p, d)) /\ (OwesShift(p, d)' <=> OwesShift(p, d))
      BY <2>1, <3>1 DEF OwesOt, OwesShift, KindOf
    <3> QED BY <2>1, <2>3, <3>1, <3>2 DEF OwnSheet
  <2> QED BY <2>2, <2>3
<1>9. CASE RecalcLogs(p)
  <2>1. /\ pc[p] = "r.logs" /\ UNCHANGED <<sheet, want>>
        /\ pc'[p] = "r.write" /\ frame'[p] = [f EXCEPT !.read = logs[f.d]]
    BY <1>2, <1>9 DEF RecalcLogs, Goto
  <2>2. frame'[p].d = f.d /\ frame'[p].todo = f.todo /\ frame'[p].then = f.then /\ frame'[p].r = f.r
    BY <1>2, <2>1 DEF Frame
  <2>3. (OwesOt(p, d)' <=> OwesOt(p, d)) /\ (OwesShift(p, d)' <=> OwesShift(p, d))
    BY <2>1, <2>2 DEF OwesOt, OwesShift, KindOf
  <2> QED BY <2>1, <2>2, <2>3 DEF OwnSheet
<1>10. CASE RecalcWrite(p)
  <2>1. pc[p] = "r.write" /\ want' = want /\ AfterRecalc(p)
    BY <1>10 DEF RecalcWrite
  <2>2. sheet'[d].basis = sheet[d].basis /\ sheet'[d].ot = sheet[d].ot /\ sheet'[d].locked = sheet[d].locked
    <3>1. CASE f.d = d
      <4>1. ~ sheet[d].locked
        BY <2>1, <3>1 DEF OwnSheet
      <4>2. sheet[d].basis = "auto" /\ sheet[d].ot = 0
        BY <4>1 DEF OwnSheet
      <4>3. sheet'[d] = [sheet[d] EXCEPT !.row = TRUE, !.basis = "auto", !.seen = f.read, !.ot = 0]
        BY <1>2, <1>10, <3>1 DEF RecalcWrite
      <4> QED BY <1>2, <4>2, <4>3 DEF Sheet
    <3>2. CASE f.d # d
      BY <1>2, <1>10, <3>2 DEF RecalcWrite
    <3> QED BY <3>1, <3>2
  <2>3. /\ OwesOt(p, d)' <=> OwesOt(p, d)
        /\ OwesShift(p, d)' <=> OwesShift(p, d)
        /\ pc'[p] \in {"o.read", "d.next", "idle"}
    BY <1>5, <2>1 DEF RecalcPc
  <2> QED BY <2>1, <2>2, <2>3 DEF OwnSheet
<1>11. CASE EditWrite(p)
  <2>1. pc[p] = "e.write" /\ pc'[p] = "idle" /\ frame'[p] = NoFrame
    BY <1>2, <1>11 DEF EditWrite, End, Goto
  <2>2. ~ OwesOt(p, d) /\ ~ OwesShift(p, d) /\ ~ OwesOt(p, d)' /\ ~ OwesShift(p, d)'
    BY <1>1, <1>2, <2>1 DEF OwesOt, OwesShift, Carries, RecalcPc
  <2>3. CASE f.d = d
    <3>1. /\ sheet'[d] = [row |-> TRUE, basis |-> "edit", seen |-> <<>>, ot |-> 0, locked |-> TRUE]
          /\ want'[d] = [basis |-> "edit", ot |-> 0]
      BY <1>1, <1>2, <1>11, <2>3 DEF EditWrite, TypeOK
    <3> QED BY <2>1, <2>2, <3>1 DEF OwnSheet
  <2>4. CASE f.d # d
    <3>1. sheet'[d] = sheet[d] /\ want'[d] = want[d]
      BY <1>1, <1>2, <1>11, <2>4 DEF EditWrite, TypeOK
    <3> QED BY <2>1, <2>2, <3>1 DEF OwnSheet
  <2> QED BY <2>3, <2>4
<1>12. CASE Mark(p)
  <2>1. pc[p] = "d.mark" /\ pc'[p] = "d.next" /\ frame'[p] = f /\ sheet' = sheet
    BY <1>2, <1>12 DEF Mark, Step, Goto
  <2>2. ~ OwesOt(p, d) /\ ~ OwesShift(p, d) /\ f.todo = asked[f.r].days /\ f.then # "ot"
    BY <1>1, <2>1 DEF OwesOt, OwesShift, Carries, RecalcPc
  <2>3. want'[d] = IF d \in f.todo THEN Wanted(KindOf(p), want[d]) ELSE want[d]
    BY <1>12, <2>2 DEF Mark, KindOf
  <2>4. (OwesOt(p, d)' <=> KindOf(p) \in OtKinds /\ d \in f.todo)
        /\ (OwesShift(p, d)' <=> KindOf(p) \in ShiftKinds /\ d \in f.todo)
    BY <2>1, <2>2 DEF OwesOt, OwesShift, KindOf
  <2>5. sheet[d].basis = want[d].basis /\ sheet[d].ot = want[d].ot /\ want[d].ot \in Nat
    BY <1>2, <2>2 DEF OwnSheet
  <2>6. CASE KindOf(p) \in OtKinds /\ d \in f.todo
    <3>1. want'[d] = [want[d] EXCEPT !.ot = @ + 1]
      BY <2>3, <2>6 DEF Wanted, OtKinds
    <3>2. want'[d].basis = want[d].basis /\ want'[d].ot = want[d].ot + 1
      BY <1>2, <3>1
    <3>3. KindOf(p) \notin ShiftKinds
      BY <2>6 DEF OtKinds, ShiftKinds
    <3> QED BY <2>1, <2>4, <2>5, <2>6, <3>2, <3>3 DEF OwnSheet
  <2>7. CASE KindOf(p) \in ShiftKinds /\ d \in f.todo
    <3>1. want'[d] = [basis |-> "shift", ot |-> 0]
      BY <2>3, <2>7 DEF Wanted, ShiftKinds
    <3>3. KindOf(p) \notin OtKinds
      BY <2>7 DEF OtKinds, ShiftKinds
    <3> QED BY <2>1, <2>4, <2>7, <3>1, <3>3 DEF OwnSheet
  <2>8. CASE KindOf(p) \notin OtKinds \cup ShiftKinds \/ d \notin f.todo
    <3>1. want'[d] = want[d]
      BY <2>3, <2>8 DEF Wanted, ShiftKinds, OtKinds
    <3> QED BY <2>1, <2>2, <2>4, <2>8, <3>1 DEF OwnSheet
  <2> QED BY <2>6, <2>7, <2>8
<1>13. CASE Apply(p)
  <2>0. pc[p] = "d.next" /\ UNCHANGED <<sheet, want>> /\ f.then # "ot"
    BY <1>1, <1>13 DEF Apply, Carries, RecalcPc
  <2>1. PICK e \in f.todo :
          \/ /\ KindOf(p) \in OtKinds
             /\ frame'[p] = [f EXCEPT !.d = e, !.todo = f.todo \ {e}, !.then = "ot"]
             /\ pc'[p] = "r.lock"
          \/ /\ KindOf(p) \in ShiftKinds
             /\ frame'[p] = [f EXCEPT !.d = e, !.todo = f.todo \ {e}, !.then = "end"]
             /\ pc'[p] = "s.read"
          \/ /\ KindOf(p) = "XUONG_CA"
             /\ frame'[p] = [f EXCEPT !.d = e, !.todo = f.todo \ {e}, !.then = "end"]
             /\ pc'[p] = "r.lock"
          \/ /\ KindOf(p) = "CORRECTION"
             /\ \E t \in LogType :
                  frame'[p] = [f EXCEPT !.d = e, !.todo = f.todo \ {e}, !.new = <<t>>, !.then = "recalc"]
             /\ pc'[p] = "c.insert"
    <3>1. PICK e \in frame[p].todo :
          \/ /\ KindOf(p) \in OtKinds
             /\ frame' = [frame EXCEPT ![p] = [@ EXCEPT !.d = e, !.todo = frame[p].todo \ {e}, !.then = "ot"]]
             /\ Goto(p, "r.lock")
          \/ /\ KindOf(p) \in ShiftKinds
             /\ frame' = [frame EXCEPT ![p] = [@ EXCEPT !.d = e, !.todo = frame[p].todo \ {e}, !.then = "end"]]
             /\ Goto(p, "s.read")
          \/ /\ KindOf(p) = "XUONG_CA"
             /\ frame' = [frame EXCEPT ![p] = [@ EXCEPT !.d = e, !.todo = frame[p].todo \ {e}, !.then = "end"]]
             /\ Goto(p, "r.lock")
          \/ /\ KindOf(p) = "CORRECTION"
             /\ \E t \in LogType :
                  frame' = [frame EXCEPT ![p] = [@ EXCEPT !.d = e, !.todo = frame[p].todo \ {e},
                                                         !.new = <<t>>, !.then = "recalc"]]
             /\ Goto(p, "c.insert")
      BY <1>13, Zenon DEF Apply, KindOf, OtKinds, ShiftKinds
    <3> QED BY <1>2, <3>1 DEF Goto
  <2>2. frame'[p].d = e /\ frame'[p].todo = f.todo \ {e} /\ frame'[p].r = f.r
    BY <1>2, <2>1 DEF Frame
  <2>3. KindOf(p)' = KindOf(p)
    BY <2>2 DEF KindOf
  <2>4. CASE KindOf(p) \in OtKinds
    <3>1. pc'[p] = "r.lock" /\ frame'[p].then = "ot"
      BY <1>2, <2>1, <2>4 DEF Frame, OtKinds, ShiftKinds
    <3>2. (OwesOt(p, d)' <=> OwesOt(p, d)) /\ (OwesShift(p, d)' <=> OwesShift(p, d))
      BY <2>0, <2>2, <2>3, <2>4, <3>1 DEF OwesOt, OwesShift, OtKinds, ShiftKinds
    <3> QED BY <2>0, <3>1, <3>2 DEF OwnSheet
  <2>5. CASE KindOf(p) \in ShiftKinds
    <3>1. pc'[p] = "s.read" /\ frame'[p].then = "end"
      BY <1>2, <2>1, <2>5 DEF Frame, OtKinds, ShiftKinds
    <3>2. (OwesOt(p, d)' <=> OwesOt(p, d)) /\ (OwesShift(p, d)' <=> OwesShift(p, d))
      BY <2>0, <2>2, <2>3, <2>5, <3>1 DEF OwesOt, OwesShift, OtKinds, ShiftKinds
    <3> QED BY <2>0, <3>1, <3>2 DEF OwnSheet
  <2>6. CASE KindOf(p) \notin OtKinds \cup ShiftKinds
    <3>1. pc'[p] \in {"r.lock", "c.insert"}
      BY <2>1, <2>6
    <3>2. ~ OwesOt(p, d)' /\ ~ OwesOt(p, d) /\ ~ OwesShift(p, d)' /\ ~ OwesShift(p, d)
      BY <2>3, <2>6 DEF OwesOt, OwesShift
    <3> QED BY <2>0, <3>1, <3>2 DEF OwnSheet
  <2> QED BY <2>4, <2>5, <2>6
<1>14. CASE OtRead(p)
  <2>1. /\ pc[p] = "o.read" /\ UNCHANGED <<sheet, want>>
        /\ pc'[p] = "o.write" /\ frame'[p] = [f EXCEPT !.ot = sheet[f.d].ot]
    BY <1>2, <1>14 DEF OtRead, Goto
  <2>2. frame'[p].d = f.d /\ frame'[p].todo = f.todo /\ frame'[p].then = f.then /\ frame'[p].r = f.r
        /\ frame'[p].ot = sheet[f.d].ot
    BY <1>2, <2>1 DEF Frame
  <2>3. (OwesOt(p, d)' <=> OwesOt(p, d)) /\ (OwesShift(p, d)' <=> OwesShift(p, d))
    BY <2>1, <2>2 DEF OwesOt, OwesShift, KindOf
  <2> QED BY <2>1, <2>2, <2>3 DEF OwnSheet
<1>15. CASE ShiftRead(p)
  <2>1. /\ pc[p] = "s.read" /\ UNCHANGED <<sheet, want>>
        /\ pc'[p] = "s.write" /\ frame'[p] = [f EXCEPT !.read = logs[f.d]]
    BY <1>2, <1>15 DEF ShiftRead, Goto
  <2>2. frame'[p].d = f.d /\ frame'[p].todo = f.todo /\ frame'[p].then = f.then /\ frame'[p].r = f.r
    BY <1>2, <2>1 DEF Frame
  <2>3. (OwesOt(p, d)' <=> OwesOt(p, d)) /\ (OwesShift(p, d)' <=> OwesShift(p, d))
    BY <2>1, <2>2 DEF OwesOt, OwesShift, KindOf
  <2> QED BY <2>1, <2>2, <2>3 DEF OwnSheet
\* After a line, p owes what it has still to do.
<1>16. ASSUME NextLine(p), pc[p] \in {"o.write", "s.write"}
       PROVE  /\ pc'[p] \in {"d.next", "idle"}
              /\ OwesOt(p, d)' <=> KindOf(p) \in OtKinds /\ d \in f.todo
              /\ OwesShift(p, d)' <=> KindOf(p) \in ShiftKinds /\ d \in f.todo
  <2>0. f.then # "ot"
    BY <1>1, <1>16 DEF Carries, RecalcPc
  <2>1. CASE f.todo # {}
    <3>1. pc'[p] = "d.next" /\ frame'[p] = f
      BY <1>2, <1>16, <2>1 DEF NextLine, Step, Goto
    <3> QED BY <2>0, <3>1 DEF OwesOt, OwesShift, KindOf
  <2>2. CASE f.todo = {}
    <3>1. pc'[p] = "idle" /\ frame'[p] = NoFrame
      BY <1>2, <1>16, <2>2 DEF NextLine, End, Goto
    <3> QED BY <1>2, <2>2, <3>1 DEF OwesOt, OwesShift
  <2> QED BY <2>1, <2>2
<1>17. CASE OtWrite(p)
  <2>1. pc[p] = "o.write" /\ NextLine(p) /\ want' = want
    BY <1>17 DEF OtWrite
  <2>2. KindOf(p) \in OtKinds /\ f.d \notin f.todo /\ KindOf(p) \notin ShiftKinds
    BY <1>1, <2>1 DEF Carries, OtKinds, ShiftKinds
  <2>3. CASE f.d = d
    <3>1. OwesOt(p, d) /\ f.ot = sheet[d].ot
      BY <2>1, <2>2, <2>3 DEF OwesOt, OwnSheet
    <3>2. sheet'[d] = [sheet[d] EXCEPT !.row = TRUE, !.ot = f.ot + 1, !.locked = TRUE]
      BY <1>2, <1>17, <2>3 DEF OtWrite
    <3>3. sheet'[d].basis = sheet[d].basis /\ sheet'[d].ot = f.ot + 1 /\ sheet'[d].locked
      BY <1>2, <3>2 DEF Sheet
    <3>4. sheet[d].basis = want[d].basis /\ want[d].ot = sheet[d].ot + 1 /\ f.ot \in Nat
      BY <1>2, <3>1, FrameFields DEF OwnSheet
    <3>5. sheet'[d].ot # 0 /\ sheet'[d].ot = want[d].ot
      BY <3>1, <3>3, <3>4
    <3> QED BY <1>16, <2>1, <2>2, <2>3, <3>3, <3>4, <3>5 DEF OwnSheet
  <2>4. CASE f.d # d
    <3>1. sheet'[d] = sheet[d]
      BY <1>2, <1>17, <2>4 DEF OtWrite
    <3>2. OwesOt(p, d) <=> d \in f.todo
      BY <1>1, <2>1, <2>2, <2>4 DEF OwesOt
    <3>3. ~ OwesShift(p, d)
      BY <2>2 DEF OwesShift
    <3> QED BY <1>16, <2>1, <2>2, <3>1, <3>2, <3>3 DEF OwnSheet
  <2> QED BY <2>3, <2>4
<1>18. CASE ShiftWrite(p)
  <2>1. pc[p] = "s.write" /\ NextLine(p) /\ want' = want
    BY <1>18 DEF ShiftWrite
  <2>2. KindOf(p) \in ShiftKinds /\ f.d \notin f.todo /\ KindOf(p) \notin OtKinds
    BY <1>1, <2>1 DEF Carries, OtKinds, ShiftKinds
  <2>3. CASE f.d = d
    <3>1. want[d] = [basis |-> "shift", ot |-> 0]
      BY <2>1, <2>2, <2>3 DEF OwesShift, OwnSheet
    <3>2. sheet'[d] = [row |-> TRUE, basis |-> "shift", seen |-> f.read, ot |-> 0, locked |-> TRUE]
      BY <1>2, <1>18, <2>3 DEF ShiftWrite
    <3> QED BY <1>16, <2>1, <2>2, <2>3, <3>1, <3>2 DEF OwnSheet
  <2>4. CASE f.d # d
    <3>1. sheet'[d] = sheet[d]
      BY <1>2, <1>18, <2>4 DEF ShiftWrite
    <3>2. OwesShift(p, d) <=> d \in f.todo
      BY <2>1, <2>2, <2>4 DEF OwesShift
    <3>3. ~ OwesOt(p, d)
      BY <2>2 DEF OwesOt
    <3> QED BY <1>16, <2>1, <2>2, <3>1, <3>2, <3>3 DEF OwnSheet
  <2> QED BY <2>3, <2>4
<1> QED BY <1>6, <1>7, <1>8, <1>9, <1>10, <1>11, <1>12, <1>13, <1>14, <1>15, <1>17, <1>18
        DEF Resume, Enqueue, EnqueueLost

\* p has no business with the sheet of d.
Spare(p, d) ==
  /\ ~ OwesOt(p, d) /\ ~ OwesShift(p, d)
  /\ ~ (pc[p] \in {"r.logs", "r.write", "o.write"} /\ frame[p].d = d)

\* One who is not at work on a sheet has none.
LEMMA OthersSpare ==
  ASSUME SheetInv, NEW p \in Process, NEW d \in Day, p \notin Computing(d)
  PROVE  Spare(p, d)
<1>1. Carries(p) /\ pc[p] \in Pc
  BY DEF SheetInv, TypeOK
<1>2. pc[p] \in LogPc \cup {"idle"} \/ (d # frame[p].d /\ d \notin frame[p].todo)
  BY DEF Computing, Days
<1> QED BY <1>1, <1>2 DEF Spare, Carries, OwesOt, OwesShift, LogPc, RecalcPc, OtKinds, ShiftKinds

\* Only who is at work on a sheet changes it, or what is decided of it.
LEMMA SheetElsewhere ==
  ASSUME SheetInv, NEW p \in Process, Turn(p), NEW d \in Day,
         p \notin Computing(d), p \notin Computing(d)'
  PROVE  sheet'[d] = sheet[d] /\ want'[d] = want[d]
<1>1. /\ sheet \in [Day -> Sheet] /\ frame[p].d \in Day /\ Carries(p)
      /\ want \in [Day -> [basis : {"auto", "edit", "shift"}, ot : Nat]]
      /\ pc \in [Process -> Pc] /\ frame \in [Process -> Frame]
  BY FrameFields DEF SheetInv, TypeOK
<1>2. pc[p] \in {"r.write", "e.write", "o.write", "s.write", "d.mark"} => d # frame[p].d /\ d \notin frame[p].todo
  BY DEF Computing, Days, LogPc
<1>3. CASE RecalcWrite(p) \/ OtWrite(p) \/ ShiftWrite(p)
  BY <1>1, <1>2, <1>3 DEF RecalcWrite, OtWrite, ShiftWrite
<1>4. CASE EditWrite(p)
  BY <1>1, <1>2, <1>4 DEF EditWrite
<1>5. CASE Mark(p)
  BY <1>1, <1>2, <1>5 DEF Mark, Carries
<1>6. ASSUME NEW e \in Day, Reset(p, e)
      PROVE  sheet'[d] = sheet[d] /\ want'[d] = want[d]
  <2>1. pc'[p] = "r.lock" /\ frame'[p] = At(e)
    BY <1>1, <1>6 DEF Reset, Begin, Goto
  <2>2. d # e
    BY <2>1, AtFields DEF Computing, Days, LogPc
  <2> QED BY <1>1, <1>6, <2>2 DEF Reset
<1>7. CASE Fail(p)
  BY <1>7 DEF Fail
<1>8. CASE Robot(p)
  BY <1>8 DEF Robot, WorkerTake, WorkerFail, SweepFail, Sweep
<1>9. ASSUME NEW e \in Day, Check(p, e) \/ HrCorrection(p, e) \/ Recalc(p, e) \/ Edit(p, e)
      PROVE  UNCHANGED <<sheet, want>>
  BY <1>9 DEF Check, HrCorrection, Recalc, Edit
<1>10. ASSUME NEW r \in Request, Approved(p, r)
       PROVE  UNCHANGED <<sheet, want>>
  BY <1>10 DEF Approved
<1>11. CASE Begins(p)
  BY <1>6, <1>9, <1>10, <1>11 DEF Begins, Start
<1>12. CASE CreateLog(p) \/ Enqueue(p) \/ EnqueueLost(p) \/ RecalcLock(p) \/ RecalcLogs(p)
            \/ Apply(p) \/ OtRead(p) \/ ShiftRead(p)
  BY <1>12 DEF CreateLog, Enqueue, EnqueueLost, RecalcLock, RecalcLogs, Apply, OtRead, ShiftRead
<1> QED BY <1>3, <1>4, <1>5, <1>7, <1>8, <1>11, <1>12 DEF Turn, Resume

\* A handler that was cut short is on record.
LEMMA CutKept ==
  ASSUME SheetInv, NEW p \in Process, Turn(p), NEW d \in Day
  PROVE  /\ cut'[d] = "no" => cut[d] = "no" /\ (Fail(p) => d \notin Days(p))
         /\ ~ Fail(p) => cut' = cut
<1>1. cut \in [Day -> {"no", "early", "late"}]
  BY DEF SheetInv, TypeOK
<1>2. ASSUME Fail(p), cut'[d] = "no"
      PROVE  cut[d] = "no" /\ d \notin Days(p)
  BY <1>1, <1>2 DEF Fail
<1>3. ASSUME Robot(p)
      PROVE  cut' = cut
  BY <1>3 DEF Robot, WorkerTake, WorkerFail, SweepFail, Sweep
<1>4. ASSUME Begins(p)
      PROVE  cut' = cut
  BY <1>4 DEF Begins, Start, Check, HrCorrection, Recalc, Reset, Edit, Approved
<1>5. ASSUME Resume(p)
      PROVE  cut' = cut
  BY <1>5 DEF Resume, CreateLog, Enqueue, EnqueueLost, RecalcLock, RecalcLogs, RecalcWrite, EditWrite,
              Mark, Apply, OtRead, OtWrite, ShiftRead, ShiftWrite
<1>6. ~ Fail(p) => cut' = cut
  BY <1>3, <1>4, <1>5 DEF Turn
<1>7. cut'[d] = "no" => cut[d] = "no"
  BY <1>2, <1>6
<1> QED BY <1>2, <1>6, <1>7

\* Every step leaves a sheet as decided but for what the one at work on it owes.
LEMMA SheetStep ==
  ASSUME SheetInv, Next, NEW d \in Day, SheetOk(d)
  PROVE  SheetOk(d)'
<1> SUFFICES ASSUME "sheet" \notin raced'[d], cut'[d] = "no"
             PROVE  /\ \A p \in Computing(d)' : OwnSheet(p, d)'
                    /\ Computing(d)' = {} =>
                         /\ sheet'[d].locked <=> (sheet'[d].basis # "auto" \/ sheet'[d].ot # 0)
                         /\ sheet'[d].basis = want'[d].basis /\ sheet'[d].ot = want'[d].ot
  BY DEF SheetOk
<1>1. TypeOK /\ (\A p \in Process : Carries(p)) /\ Marked /\ asked' = asked /\ SheetInv'
  BY SheetInvStep DEF SheetInv, Next
<1>2. "sheet" \notin raced[d] /\ \A p, q \in Computing(d)' : p = q
  BY <1>1, RacedNext
<1>3. \A p, q \in Computing(d) : p = q
  BY <1>1, <1>2 DEF Marked
<1>4. CASE Quiet
  <2>1. UNCHANGED <<sheet, want, pc, frame, cut>>
    BY <1>1, <1>4, QuietTypes
  <2>2. Computing(d)' = Computing(d)
    BY <2>1 DEF Computing, Days
  <2>3. \A p \in Process : OwnSheet(p, d) => OwnSheet(p, d)'
    BY <1>1, <2>1 DEF OwnSheet, OwesOt, OwesShift, KindOf
  <2>4. Computing(d) \subseteq Process
    BY DEF Computing
  <2> QED BY <1>2, <2>1, <2>2, <2>3, <2>4 DEF SheetOk
<1>5. ASSUME NEW p \in Process, Turn(p)
      PROVE  /\ \A q \in Computing(d)' : OwnSheet(q, d)'
             /\ Computing(d)' = {} =>
                  /\ sheet'[d].locked <=> (sheet'[d].basis # "auto" \/ sheet'[d].ot # 0)
                  /\ sheet'[d].basis = want'[d].basis /\ sheet'[d].ot = want'[d].ot
  <2>1. Moved(p) /\ Carries(p)'
    BY <1>1, <1>5, TurnMoves
  <2>2. cut[d] = "no" /\ (Fail(p) => d \notin Days(p))
    BY <1>5, CutKept
  <2>3. ASSUME NEW q \in Process \ {p}
        PROVE  q \in Computing(d)' <=> q \in Computing(d)
    <3>1. pc'[q] = pc[q] /\ frame'[q] = frame[q]
      BY <2>1, <2>3 DEF Moved, Stays
    <3> QED BY <3>1 DEF Computing, Days
  <2>4. Computing(d) \subseteq Process /\ Computing(d)' \subseteq Process
    BY DEF Computing
  <2>5. CASE p \in Computing(d) \/ p \in Computing(d)'
    <3>1. \A q \in Process \ {p} : q \notin Computing(d) /\ q \notin Computing(d)'
      BY <1>2, <1>3, <2>3, <2>5
    <3>2. OwnSheet(p, d)
      <4>1. CASE p \in Computing(d)
        BY <1>2, <2>2, <4>1 DEF SheetOk
      <4>2. CASE p \notin Computing(d)
        <5>1. Computing(d) = {}
          BY <2>4, <3>1, <4>2
        <5>2. Spare(p, d)
          BY <4>2, OthersSpare
        <5> QED BY <1>2, <2>2, <5>1, <5>2 DEF SheetOk, OwnSheet, Spare
      <4> QED BY <4>1, <4>2
    <3>3. ~ Fail(p)
      <4> SUFFICES ASSUME Fail(p) PROVE FALSE
        OBVIOUS
      <4>1. p \notin Computing(d)
        BY <2>2 DEF Computing
      <4>2. pc'[p] = "idle"
        BY <1>1 DEF Fail, End, Goto, TypeOK
      <4> QED BY <2>5, <4>1, <4>2 DEF Computing
    <3>4. OwnSheet(p, d)'
      BY <1>1, <1>5, <3>2, <3>3, BeginSheet, RobotSheet, ResumeSheet DEF Turn
    <3>5. CASE p \in Computing(d)'
      BY <2>4, <3>1, <3>4, <3>5
    <3>6. CASE p \notin Computing(d)'
      <4>1. (SheetInv /\ p \notin Computing(d) => Spare(p, d))'
        BY OthersSpare, PTL
      <4>2. Spare(p, d)'
        BY <1>1, <3>6, <4>1
      <4> QED BY <2>4, <3>1, <3>4, <3>6, <4>2 DEF OwnSheet, Spare
    <3> QED BY <3>5, <3>6
  <2>6. CASE p \notin Computing(d) /\ p \notin Computing(d)'
    <3>1. sheet'[d] = sheet[d] /\ want'[d] = want[d]
      BY <1>5, <2>6, SheetElsewhere
    <3>2. Computing(d)' = Computing(d)
      BY <2>3, <2>4, <2>6
    <3>3. ASSUME NEW q \in Computing(d)'
          PROVE  OwnSheet(q, d)'
      <4>1. q \in Process \ {p} /\ q \in Computing(d)
        BY <2>4, <2>6, <3>2
      <4>2. pc'[q] = pc[q] /\ frame'[q] = frame[q]
        BY <2>1, <4>1 DEF Moved, Stays
      <4>3. OwnSheet(q, d)
        BY <1>2, <2>2, <4>1 DEF SheetOk
      <4> QED BY <1>1, <3>1, <4>2, <4>3 DEF OwnSheet, OwesOt, OwesShift, KindOf
    <3> QED BY <1>2, <2>2, <3>1, <3>2, <3>3 DEF SheetOk
  <2> QED BY <2>5, <2>6
<1> QED BY <1>4, <1>5, OneMoves DEF Next

\* What HR or an approval made of a day stays (applyEdit, applyApprovedOt, the lock), for
\* any number of days, handlers and requests, unless computations overlapped or a handler
\* was cut short.
THEOREM DecisionsStay == Spec => []SheetAsDecided
<1> DEFINE I == SheetInv /\ \A d \in Day : SheetOk(d)
<1>1. Init => I
  <2> SUFFICES ASSUME Init, NEW d \in Day
               PROVE  SheetOk(d)
    BY SheetInvInit
  <2>1. sheet[d] = NoSheet /\ want[d] = NoWant /\ Computing(d) = {}
    BY DEF Init, Computing
  <2> QED BY <2>1 DEF SheetOk, NoSheet, NoWant
<1>2. I /\ [Next]_vars => I'
  <2> SUFFICES ASSUME I, [Next]_vars
               PROVE  I'
    OBVIOUS
  <2>1. CASE Next
    BY <2>1, SheetInvStep, SheetStep
  <2>2. CASE UNCHANGED vars
    <3>1. SheetInv'
      BY <2>2, SheetInvStutter
    <3>2. ASSUME NEW d \in Day
          PROVE  SheetOk(d)'
      <4>1. SheetOk(d)
        OBVIOUS
      <4>2. UNCHANGED <<pc, frame, sheet, want, asked, raced, cut>>
        BY <2>2 DEF vars, history
      <4>3. Computing(d)' = Computing(d)
        BY <4>2 DEF Computing, Days
      <4>4. ASSUME NEW p PROVE OwnSheet(p, d)' <=> OwnSheet(p, d)
        BY <4>2 DEF OwnSheet, OwesOt, OwesShift, KindOf
      <4> QED BY <4>1, <4>2, <4>3, <4>4 DEF SheetOk
    <3> QED BY <3>1, <3>2
  <2> QED BY <2>1, <2>2
<1>3. I => SheetAsDecided
  <2> SUFFICES ASSUME I, NEW d \in Day, Calm(d), want[d] # NoWant
               PROVE  sheet[d].locked /\ sheet[d].basis = want[d].basis /\ sheet[d].ot = want[d].ot
    BY DEF SheetAsDecided
  <2>1. Computing(d) = {}
    BY DEF Calm, Computing
  <2>2. /\ sheet[d].locked <=> (sheet[d].basis # "auto" \/ sheet[d].ot # 0)
        /\ sheet[d].basis = want[d].basis /\ sheet[d].ot = want[d].ot
    BY <2>1 DEF Calm, SheetOk
  <2>3. want[d] \in [basis : {"auto", "edit", "shift"}, ot : Nat]
    BY DEF SheetInv, TypeOK
  <2>4. want[d].basis # "auto" \/ want[d].ot # 0
    BY <2>3 DEF NoWant
  <2> QED BY <2>2, <2>4
<1> QED BY <1>1, <1>2, <1>3, PTL DEF Spec

(* The logs alternate. *)

\* The log inferred is the one that comes next.
LEMMA InferNext ==
  ASSUME TypeOK, NEW d \in Day, Alternating(d)
  PROVE  Infer(d) = IF (Len(logs[d]) + 1) % 2 = 1 THEN "IN" ELSE "OUT"
<1>1. logs[d] \in Seq(LogType) /\ Len(logs[d]) \in Nat
  BY LogSeqs, LenProperties DEF TypeOK
<1> DEFINE n == Len(logs[d])
           Nth(k) == IF k % 2 = 1 THEN "IN" ELSE "OUT"
<1>2. \A k \in 1 .. n : logs[d][k] = Nth(k)
  BY DEF Alternating
<1>3. Infer(d) = IF logs[d] # <<>> /\ logs[d][n] = "IN" THEN "OUT" ELSE "IN"
  BY DEF Infer, Last
<1>4. logs[d] = <<>> <=> n = 0
  BY <1>1, EmptySeq
<1>5. n \in Nat
  BY <1>1
<1> HIDE DEF n
<1>6. n # 0 => logs[d][n] = Nth(n)
  <2>1. n # 0 => n \in 1 .. n
    BY <1>5
  <2> QED BY <1>2, <2>1, Zenon
<1>7. (n + 1) % 2 = 1 <=> ~ (n % 2 = 1)
  BY <1>5
<1>8. n = 0 => ~ (n % 2 = 1)
  OBVIOUS
<1>9. Infer(d) = Nth(n + 1)
  BY <1>3, <1>4, <1>6, <1>7, <1>8
<1> QED BY <1>9 DEF n

\* Only a log that is created and a reset change the logs of a day.
LEMMA LogsChange ==
  ASSUME SheetInv, NEW p \in Process, Turn(p), NEW d \in Day
  PROVE  \/ logs'[d] = logs[d]
         \/ CreateLog(p) /\ frame[p].d = d
         \/ Reset(p, d) /\ logs'[d] = <<>>
<1>1. logs \in [Day -> LogSeq]
  BY DEF SheetInv, TypeOK
<1>2. CASE CreateLog(p)
  BY <1>1, <1>2 DEF CreateLog
<1>3. ASSUME NEW e \in Day, Reset(p, e)
      PROVE  logs'[d] = logs[d] \/ (Reset(p, d) /\ logs'[d] = <<>>)
  BY <1>1, <1>3 DEF Reset
<1>4. CASE Robot(p)
  BY <1>4 DEF Robot, WorkerTake, WorkerFail, SweepFail, Sweep
<1>5. ASSUME NEW e \in Day, Check(p, e) \/ HrCorrection(p, e) \/ Recalc(p, e) \/ Edit(p, e)
      PROVE  logs' = logs
  BY <1>5 DEF Check, HrCorrection, Recalc, Edit
<1>6. ASSUME NEW r \in Request, Approved(p, r)
      PROVE  logs' = logs
  BY <1>6 DEF Approved
<1>7. CASE Begins(p)
  BY <1>3, <1>5, <1>6, <1>7 DEF Begins, Start
<1>8. CASE Fail(p)
  BY <1>8 DEF Fail
<1>9. CASE Resume(p) /\ ~ CreateLog(p)
  BY <1>9 DEF Resume, Enqueue, EnqueueLost, RecalcLock, RecalcLogs, RecalcWrite, EditWrite,
              Mark, Apply, OtRead, OtWrite, ShiftRead, ShiftWrite
<1> QED BY <1>2, <1>4, <1>7, <1>8, <1>9 DEF Turn

\* That a log was given is on record.
LEMMA GivenKept ==
  ASSUME SheetInv, NEW p \in Process, Turn(p), NEW d \in Day
  PROVE  given[d] => given'[d]
<1>1. given \in [Day -> BOOLEAN] /\ frame[p].todo \subseteq Day
  BY FrameFields DEF SheetInv, TypeOK
<1>2. ASSUME NEW e \in Day, Check(p, e)
      PROVE  given[d] => given'[d]
  <2>1. PICK t : given' = [given EXCEPT ![e] = @ \/ t # Infer(e)]
    BY <1>2 DEF Check
  <2> QED BY <1>1, <2>1, Zenon
<1>3. ASSUME NEW e \in Day, HrCorrection(p, e)
      PROVE  given[d] => given'[d]
  BY <1>1, <1>3 DEF HrCorrection
<1>4. CASE Apply(p)
  <2>1. given' = given \/ \E e \in Day : given' = [given EXCEPT ![e] = TRUE]
    BY <1>1, <1>4, Zenon DEF Apply
  <2> QED BY <1>1, <2>1
<1>5. ASSUME NEW e \in Day, Reset(p, e) \/ Recalc(p, e) \/ Edit(p, e)
      PROVE  given' = given
  BY <1>5 DEF Reset, Recalc, Edit
<1>6. ASSUME NEW r \in Request, Approved(p, r)
      PROVE  given' = given
  BY <1>6 DEF Approved
<1>7. CASE Begins(p)
  BY <1>2, <1>3, <1>5, <1>6, <1>7 DEF Begins, Start
<1>8. CASE Fail(p)
  BY <1>8 DEF Fail
<1>9. CASE Robot(p)
  BY <1>9 DEF Robot, WorkerTake, WorkerFail, SweepFail, Sweep
<1>10. CASE Resume(p) /\ ~ Apply(p)
  BY <1>10 DEF Resume, CreateLog, Enqueue, EnqueueLost, RecalcLock, RecalcLogs, RecalcWrite, EditWrite,
              Mark, OtRead, OtWrite, ShiftRead, ShiftWrite
<1> QED BY <1>4, <1>7, <1>8, <1>9, <1>10 DEF Turn

\* One who begins to create a log creates the inferred one, unless it is on record that the
\* type was given; and then the logs are what they were.
LEMMA BeginsLog ==
  ASSUME SheetInv, asked' = asked, NEW p \in Process, Turn(p), NEW d \in Day,
         p \notin Logging(d), p \in Logging(d)', ~ given'[d]
  PROVE  logs' = logs /\ NextLog(p, d)'
<1>1. /\ TypeOK /\ Carries(p) /\ pc \in [Process -> Pc] /\ frame \in [Process -> Frame]
      /\ frame[p] \in Frame /\ frame[p].todo \subseteq Day /\ given \in [Day -> BOOLEAN]
  BY FrameFields DEF SheetInv, TypeOK
<1>2. pc'[p] \in LogPc /\ frame'[p].d = d
  BY DEF Logging
<1>3. CASE Check(p, d)
  <2>1. PICK t \in LogType \cup {Infer(d)} :
          /\ Begin(p, d, "c.insert", [At(d) EXCEPT !.new = <<t>>, !.at = Len(logs[d])])
          /\ given' = [given EXCEPT ![d] = @ \/ t # Infer(d)]
    BY <1>3 DEF Check
  <2>2. given'[d] = (given[d] \/ t # Infer(d))
    BY <1>1, <2>1
  <2>3. t = Infer(d)
    BY <2>2
  <2>4. pc'[p] = "c.insert" /\ frame'[p] = [At(d) EXCEPT !.new = <<t>>, !.at = Len(logs[d])]
    BY <1>1, <2>1 DEF Begin, Goto
  <2>5. frame'[p].new = <<t>> /\ frame'[p].at = Len(logs[d]) /\ frame'[p].then = "end"
    BY <2>4, AtFields DEF Frame
  <2>6. logs' = logs
    BY <1>3 DEF Check
  <2>7. Infer(d)' = Infer(d)
    BY <2>6 DEF Infer
  <2> QED BY <2>3, <2>4, <2>5, <2>6, <2>7 DEF NextLog
<1>4. ASSUME NEW e \in Day, HrCorrection(p, e)
      PROVE  FALSE
  <2>1. PICK types : Begin(p, e, "c.insert", [At(e) EXCEPT !.new = types, !.then = "recalc"])
    BY <1>4, Zenon DEF HrCorrection
  <2>2. frame'[p] = [At(e) EXCEPT !.new = types, !.then = "recalc"]
    BY <1>1, <2>1 DEF Begin
  <2>3. frame'[p].d = At(e).d
    BY <2>2, AtFields DEF Frame
  <2>4. d = e
    BY <1>2, <2>3, AtFields
  <2> QED BY <1>1, <1>4, <2>4 DEF HrCorrection
<1>5. ASSUME NEW e \in Day, Check(p, e), e # d
      PROVE  FALSE
  <2>1. PICK t : Begin(p, e, "c.insert", [At(e) EXCEPT !.new = <<t>>, !.at = Len(logs[e])])
    BY <1>5 DEF Check
  <2>2. frame'[p] = [At(e) EXCEPT !.new = <<t>>, !.at = Len(logs[e])]
    BY <1>1, <2>1 DEF Begin
  <2>3. frame'[p].d = At(e).d
    BY <2>2, AtFields DEF Frame
  <2> QED BY <1>2, <1>5, <2>3, AtFields
<1>6. CASE Apply(p)
  <2>1. PICK e \in frame[p].todo :
          \/ pc'[p] \in {"r.lock", "s.read"}
          \/ /\ \E t \in LogType :
                  frame'[p] = [frame[p] EXCEPT !.d = e, !.todo = frame[p].todo \ {e}, !.new = <<t>>, !.then = "recalc"]
             /\ given' = [given EXCEPT ![e] = TRUE]
    <3>1. PICK e \in frame[p].todo :
          \/ Goto(p, "r.lock") \/ Goto(p, "s.read")
          \/ /\ \E t \in LogType :
                  frame' = [frame EXCEPT ![p] = [@ EXCEPT !.d = e, !.todo = frame[p].todo \ {e},
                                                         !.new = <<t>>, !.then = "recalc"]]
             /\ given' = [given EXCEPT ![e] = TRUE]
      BY <1>6, Zenon DEF Apply
    <3> QED BY <1>1, <3>1 DEF Goto
  <2>2. PICK t \in LogType :
          frame'[p] = [frame[p] EXCEPT !.d = e, !.todo = frame[p].todo \ {e}, !.new = <<t>>, !.then = "recalc"]
    BY <1>2, <2>1 DEF LogPc
  <2>3. frame'[p].d = e
    BY <1>1, <2>2 DEF Frame
  <2> QED BY <1>1, <1>2, <2>1, <2>3 DEF LogPc
<1>7. ASSUME CreateLog(p) \/ Enqueue(p) \/ EnqueueLost(p)
      PROVE  FALSE
  <2>1. pc[p] \in LogPc /\ frame[p].d # d
    BY <1>7 DEF CreateLog, Enqueue, EnqueueLost, Logging, LogPc
  <2>2. CASE CreateLog(p)
    <3>1. frame'[p] = [frame[p] EXCEPT !.new = Tail(frame[p].new)]
      BY <1>1, <2>2 DEF CreateLog
    <3>2. frame'[p].d = frame[p].d
      BY <1>1, <3>1 DEF Frame
    <3> QED BY <1>2, <2>1, <3>2
  <2>3. CASE AfterLog(p)
    <3>1. frame' = frame \/ pc'[p] \in {"r.lock", "idle"}
      BY <1>1, <2>3 DEF AfterLog, Step, Goto, End
    <3> QED BY <1>2, <2>1, <3>1 DEF LogPc
  <2> QED BY <1>7, <2>2, <2>3 DEF Enqueue, EnqueueLost
<1>8. ASSUME NEW e \in Day, Reset(p, e) \/ Recalc(p, e) \/ Edit(p, e)
      PROVE  FALSE
  <2>1. pc'[p] \in {"r.lock", "e.write"}
    BY <1>1, <1>8 DEF Reset, Recalc, Edit, Begin, Goto
  <2> QED BY <1>2, <2>1 DEF LogPc
<1>9. ASSUME NEW r \in Request, Approved(p, r)
      PROVE  FALSE
  <2>1. pc'[p] = "d.mark"
    BY <1>1, <1>9 DEF Approved, Begin, Goto
  <2> QED BY <1>2, <2>1 DEF LogPc
<1>10. CASE Begins(p)
  BY <1>3, <1>4, <1>5, <1>8, <1>9, <1>10 DEF Begins, Start
<1>11. ASSUME Robot(p) \/ Fail(p)
       PROVE  FALSE
  <2>1. pc'[p] \in {"r.lock", "idle"}
    BY <1>1, <1>11 DEF Robot, WorkerTake, WorkerFail, SweepFail, Sweep, Fail, Begin, End, Goto
  <2> QED BY <1>2, <2>1 DEF LogPc
<1>12. ASSUME RecalcLock(p) \/ RecalcLogs(p) \/ RecalcWrite(p) \/ EditWrite(p) \/ Mark(p)
              \/ OtRead(p) \/ OtWrite(p) \/ ShiftRead(p) \/ ShiftWrite(p)
       PROVE  FALSE
  <2>1. pc'[p] \notin LogPc
    BY <1>1, <1>12 DEF RecalcLock, RecalcLogs, RecalcWrite, EditWrite, Mark, OtRead, OtWrite, ShiftRead,
         ShiftWrite, AfterRecalc, NextLine, Step, End, Goto, LogPc
  <2> QED BY <1>2, <2>1
<1> QED BY <1>6, <1>7, <1>10, <1>11, <1>12 DEF Turn, Resume

\* The log that comes next keeps the logs alternating.
LEMMA NextCreated ==
  ASSUME SheetInv, NEW p \in Process, CreateLog(p), NEW d \in Day, frame[p].d = d,
         Alternating(d), NextLog(p, d)
  PROVE  Alternating(d)' /\ NextLog(p, d)'
<1> DEFINE n == Len(logs[d])
           Nth(k) == IF k % 2 = 1 THEN "IN" ELSE "OUT"
<1>1. /\ TypeOK /\ logs \in [Day -> LogSeq] /\ logs[d] \in LogSeq /\ n \in Nat
      /\ frame \in [Process -> Frame] /\ frame[p] \in Frame /\ pc \in [Process -> Pc]
  BY LogSeqs, LenProperties DEF SheetInv, TypeOK
<1>2. pc[p] = "c.insert" /\ frame[p].new = <<Infer(d)>> /\ frame[p].at = n /\ frame[p].then = "end"
  BY DEF CreateLog, NextLog
<1>3. Head(frame[p].new) = Infer(d) /\ Tail(frame[p].new) = <<>> /\ Infer(d) \in LogType
  BY <1>2 DEF Infer, LogType
<1>4. NextLog(p, d)'
  <2>1. pc'[p] = "c.enqueue" /\ frame'[p] = [frame[p] EXCEPT !.new = Tail(frame[p].new)]
    BY <1>1 DEF CreateLog, Goto
  <2>2. frame'[p].new = Tail(frame[p].new) /\ frame'[p].then = frame[p].then
    BY <1>1, <2>1 DEF Frame
  <2> QED BY <1>2, <1>3, <2>1, <2>2 DEF NextLog
<1>5. CASE logs' = logs
  BY <1>4, <1>5 DEF Alternating
<1>6. CASE logs' # logs
  <2>1. PICK k \in 1 .. n + 1 :
          (k > n \/ n < n) /\ logs' = [logs EXCEPT ![d] = InsertAt(@, k, Infer(d))]
    BY <1>2, <1>3, <1>6 DEF CreateLog
  <2>2. k = n + 1
    BY <1>1, <2>1
  <2>3. logs'[d] = InsertAt(logs[d], n + 1, Infer(d))
    BY <1>1, <2>1, <2>2
  <2>4. /\ Len(logs'[d]) = n + 1
        /\ \A i \in 1 .. n : logs'[d][i] = logs[d][i]
        /\ logs'[d][n + 1] = Infer(d)
    <3>1. PICK s \in LogSeq : s = logs[d] /\ n = Len(s)
      BY <1>1
    <3>2. PICK m : m = n + 1
      OBVIOUS
    <3>3. m \in 1 .. Len(s) + 1 /\ m = Len(s) + 1
      BY <1>1, <3>1, <3>2
    <3>4. /\ Len(InsertAt(s, m, Infer(d))) = Len(s) + 1
          /\ \A i \in 1 .. Len(s) : InsertAt(s, m, Infer(d))[i] = s[i]
          /\ InsertAt(s, m, Infer(d))[m] = Infer(d)
      BY <1>3, <3>3, Inserted
    <3> QED BY <2>3, <3>1, <3>2, <3>4
  <2>5. Infer(d) = Nth(n + 1)
    BY <1>1, InferNext
  <2>6. \A i \in 1 .. n : logs[d][i] = Nth(i)
    BY DEF Alternating
  <2>7. ASSUME NEW i \in 1 .. n + 1
        PROVE  logs'[d][i] = Nth(i)
    <3> HIDE DEF n, Nth
    <3>1. CASE i \in 1 .. n
      BY <2>4, <2>6, <3>1
    <3>2. CASE i = n + 1
      BY <2>4, <2>5, <3>2
    <3> QED BY <1>1, <3>1, <3>2
  <2>8. Alternating(d)'
    BY <2>4, <2>7 DEF Alternating
  <2> QED BY <1>4, <2>8
<1> QED BY <1>5, <1>6

\* Every step leaves the logs of a day alternating, and the one being created the next.
LEMMA LogsStep ==
  ASSUME SheetInv, Next, NEW d \in Day, LogsOk(d)
  PROVE  LogsOk(d)'
<1> SUFFICES ASSUME ~ given'[d], "logs" \notin raced'[d]
             PROVE  Alternating(d)' /\ \A p \in Logging(d)' : NextLog(p, d)'
  BY DEF LogsOk
<1>1. /\ TypeOK /\ (\A p \in Process : Carries(p)) /\ Marked /\ asked' = asked
      /\ given \in [Day -> BOOLEAN] /\ logs[d] \in LogSeq
  BY DEF SheetInv, TypeOK, Next
<1>2. "logs" \notin raced[d] /\ (\A p, q \in Logging(d)' : p = q) /\ ~ Torn(d)
  BY <1>1, RacedNext
<1>3. \A p, q \in Logging(d) : p = q
  BY <1>1, <1>2 DEF Marked
<1>4. Logging(d) \subseteq Process /\ Logging(d)' \subseteq Process
  BY DEF Logging
<1>5. CASE Quiet
  <2>1. UNCHANGED <<logs, pc, frame, given>>
    BY <1>1, <1>5, QuietTypes
  <2>2. Logging(d)' = Logging(d) /\ Infer(d)' = Infer(d)
    BY <2>1 DEF Logging, Infer
  <2>3. \A p \in Process : NextLog(p, d) => NextLog(p, d)'
    BY <2>1, <2>2 DEF NextLog
  <2>4. Alternating(d) /\ \A p \in Logging(d) : NextLog(p, d)
    BY <1>2, <2>1 DEF LogsOk
  <2>5. Alternating(d)'
    BY <2>1, <2>4 DEF Alternating
  <2> QED BY <1>4, <2>2, <2>3, <2>4, <2>5
<1>6. ASSUME NEW p \in Process, Turn(p)
      PROVE  Alternating(d)' /\ \A q \in Logging(d)' : NextLog(q, d)'
  <2>1. Moved(p) /\ Carries(p)'
    BY <1>1, <1>6, TurnMoves
  <2>2. Alternating(d) /\ \A q \in Logging(d) : NextLog(q, d)
    BY <1>1, <1>2, <1>6, GivenKept DEF LogsOk
  <2>3. ASSUME NEW q \in Process \ {p}
        PROVE  (q \in Logging(d)' <=> q \in Logging(d)) /\ Stays(q)
    BY <2>1, <2>3 DEF Moved, Stays, Logging
  <2>4. CASE p \in Logging(d)
    <3>1. pc[p] \in LogPc /\ frame[p].d = d /\ NextLog(p, d)
      BY <2>2, <2>4 DEF Logging
    <3>2. \A q \in Logging(d)' : q = p
      BY <1>3, <1>4, <2>3, <2>4
    <3>3. CASE CreateLog(p)
      BY <2>2, <3>1, <3>2, <3>3, NextCreated
    <3>4. CASE ~ CreateLog(p)
      <4>1. ~ Reset(p, d)
        BY <3>1 DEF Reset, Begin, LogPc
      <4>2. logs'[d] = logs[d]
        BY <1>6, <3>4, <4>1, LogsChange
      <4>3. pc'[p] \notin LogPc
        <5>0. pc \in [Process -> Pc]
          BY <1>1 DEF TypeOK
        <5>1. CASE Enqueue(p) \/ EnqueueLost(p)
          <6>1. pc[p] = "c.enqueue" /\ AfterLog(p)
            BY <5>1 DEF Enqueue, EnqueueLost
          <6>2. frame[p].new = <<>> /\ frame[p].then = "end"
            BY <3>1, <6>1 DEF NextLog
          <6>3. End(p)
            BY <6>1, <6>2 DEF AfterLog
          <6> QED BY <5>0, <6>3 DEF End, Goto, LogPc
        <5>2. CASE Fail(p)
          BY <5>0, <5>2 DEF Fail, End, Goto, LogPc
        <5>3. ~ Begins(p)
          BY <3>1 DEF Begins, Start, Check, HrCorrection, Recalc, Reset, Edit, Approved, Begin, LogPc
        <5>4. ~ Robot(p)
          <6>1. Robot(p) => p \in Robots
            BY DEF Robot, Robots
          <6> QED BY <1>1, <3>1, <6>1 DEF Carries, RecalcPc, LogPc
        <5>5. Resume(p) => Enqueue(p) \/ EnqueueLost(p)
          BY <3>1, <3>4 DEF Resume, RecalcLock, RecalcLogs, RecalcWrite, EditWrite, Mark, Apply, OtRead, OtWrite,
             ShiftRead, ShiftWrite, LogPc
        <5> QED BY <1>6, <5>1, <5>2, <5>3, <5>4, <5>5 DEF Turn
      <4>4. p \notin Logging(d)'
        BY <4>3 DEF Logging
      <4>5. Alternating(d)'
        BY <2>2, <4>2 DEF Alternating
      <4> QED BY <3>2, <4>4, <4>5
    <3> QED BY <3>3, <3>4
  <2>5. CASE p \notin Logging(d) /\ p \in Logging(d)'
    <3>1. logs' = logs /\ NextLog(p, d)'
      BY <1>1, <1>6, <2>5, BeginsLog
    <3>2. \A q \in Logging(d)' : q = p
      BY <1>2, <2>5
    <3>3. Alternating(d)'
      BY <2>2, <3>1 DEF Alternating
    <3> QED BY <3>1, <3>2, <3>3
  <2>6. CASE p \notin Logging(d) /\ p \notin Logging(d)'
    <3>1. Logging(d)' = Logging(d)
      BY <1>4, <2>3, <2>6
    <3>2. ~ (CreateLog(p) /\ frame[p].d = d)
      BY <2>6 DEF CreateLog, Logging, LogPc
    <3>3. CASE logs'[d] = logs[d]
      <4>1. Infer(d)' = Infer(d) /\ Alternating(d)'
        BY <2>2, <3>3 DEF Infer, Alternating
      <4>2. ASSUME NEW q \in Logging(d)'
            PROVE  NextLog(q, d)'
        <5>1. NextLog(q, d) /\ Stays(q)
          BY <1>4, <2>2, <2>3, <2>6, <3>1
        <5> QED BY <3>3, <4>1, <5>1 DEF NextLog, Stays
      <4> QED BY <4>1, <4>2
    <3>4. CASE logs'[d] # logs[d]
      <4>1. logs'[d] = <<>>
        BY <1>6, <3>2, <3>4, LogsChange
      <4>2. Len(logs[d]) \in Nat /\ Len(logs[d]) # 0 /\ Len(logs'[d]) = 0
        BY <1>1, <3>4, <4>1, LogSeqs, LenProperties, EmptySeq
      <4>3. Logging(d) = {}
        BY <1>2, <4>2 DEF Torn
      <4>4. Alternating(d)'
        BY <4>2 DEF Alternating
      <4> QED BY <3>1, <4>3, <4>4
    <3> QED BY <3>3, <3>4
  <2> QED BY <2>4, <2>5, <2>6
<1> QED BY <1>5, <1>6, OneMoves DEF Next

\* Check-ins alternate, starting with IN (inferType), for any number of days and handlers,
\* unless a type was given or a reset or another log overlapped the creation of one.
THEOREM CheckInsAlternate == Spec => []Alternates
<1> DEFINE I == SheetInv /\ \A d \in Day : LogsOk(d)
<1>1. Init => I
  <2> SUFFICES ASSUME Init, NEW d \in Day
               PROVE  LogsOk(d)
    BY SheetInvInit
  <2>1. logs[d] = <<>> /\ Logging(d) = {}
    BY DEF Init, Logging, LogPc
  <2>2. Len(logs[d]) = 0
    BY <2>1
  <2> QED BY <2>1, <2>2 DEF LogsOk, Alternating
<1>2. I /\ [Next]_vars => I'
  <2> SUFFICES ASSUME I, [Next]_vars
               PROVE  I'
    OBVIOUS
  <2>1. CASE Next
    BY <2>1, SheetInvStep, LogsStep
  <2>2. CASE UNCHANGED vars
    <3>1. SheetInv'
      BY <2>2, SheetInvStutter
    <3>2. ASSUME NEW d \in Day
          PROVE  LogsOk(d)'
      <4>1. LogsOk(d)
        OBVIOUS
      <4> QED BY <2>2, <4>1 DEF vars, history, LogsOk, Alternating, NextLog, Logging, Infer
    <3> QED BY <3>1, <3>2
  <2> QED BY <2>1, <2>2
<1>3. I => Alternates
  BY DEF LogsOk, Alternating, Alternates
<1> QED BY <1>1, <1>2, <1>3, PTL DEF Spec

(* The logs are shown. *)

\* No check-in begins or goes on when the day is over and the cron has reached it: whoever
\* creates a log will recalculate the day himself.
LEMMA LogsRecalculate ==
  ASSUME SheetInv, asked' = asked, NEW p \in Process, Turn(p), NEW d \in Day, past[d],
         p \in Logging(d)', p \in Logging(d) => frame[p].then = "recalc"
  PROVE  frame'[p].then = "recalc"
<1>1. /\ TypeOK /\ Carries(p) /\ pc \in [Process -> Pc] /\ frame \in [Process -> Frame]
      /\ frame[p] \in Frame /\ frame[p].todo \subseteq Day
  BY FrameFields DEF SheetInv, TypeOK
<1>2. pc'[p] \in LogPc /\ frame'[p].d = d
  BY DEF Logging
<1>3. ASSUME NEW e \in Day, Check(p, e)
      PROVE  frame'[p].then = "recalc"
  <2>1. PICK t : Begin(p, e, "c.insert", [At(e) EXCEPT !.new = <<t>>, !.at = Len(logs[e])])
    BY <1>3 DEF Check
  <2>2. frame'[p] = [At(e) EXCEPT !.new = <<t>>, !.at = Len(logs[e])]
    BY <1>1, <2>1 DEF Begin
  <2>3. frame'[p].d = At(e).d
    BY <2>2, AtFields DEF Frame
  <2> QED BY <1>2, <1>3, <2>3, AtFields DEF Check
<1>4. ASSUME NEW e \in Day, HrCorrection(p, e)
      PROVE  frame'[p].then = "recalc"
  <2>1. PICK types : Begin(p, e, "c.insert", [At(e) EXCEPT !.new = types, !.then = "recalc"])
    BY <1>4, Zenon DEF HrCorrection
  <2>2. frame'[p] = [At(e) EXCEPT !.new = types, !.then = "recalc"]
    BY <1>1, <2>1 DEF Begin
  <2> QED BY <2>2, AtFields DEF Frame
<1>6. CASE Apply(p)
  <2>1. PICK e \in frame[p].todo :
          \/ pc'[p] \in {"r.lock", "s.read"}
          \/ \E t \in LogType :
               frame'[p] = [frame[p] EXCEPT !.d = e, !.todo = frame[p].todo \ {e}, !.new = <<t>>, !.then = "recalc"]
    <3>1. PICK e \in frame[p].todo :
          \/ Goto(p, "r.lock") \/ Goto(p, "s.read")
          \/ \E t \in LogType :
                  frame' = [frame EXCEPT ![p] = [@ EXCEPT !.d = e, !.todo = frame[p].todo \ {e},
                                                         !.new = <<t>>, !.then = "recalc"]]
      BY <1>6, Zenon DEF Apply
    <3> QED BY <1>1, <3>1 DEF Goto
  <2>2. PICK t \in LogType :
          frame'[p] = [frame[p] EXCEPT !.d = e, !.todo = frame[p].todo \ {e}, !.new = <<t>>, !.then = "recalc"]
    BY <1>2, <2>1 DEF LogPc
  <2> QED BY <1>1, <2>2 DEF Frame
<1>7. CASE CreateLog(p) \/ Enqueue(p) \/ EnqueueLost(p)
  <2>1. pc[p] \in LogPc
    BY <1>7 DEF CreateLog, Enqueue, EnqueueLost, LogPc
  <2>2. CASE CreateLog(p)
    <3>1. frame'[p] = [frame[p] EXCEPT !.new = Tail(frame[p].new)]
      BY <1>1, <2>2 DEF CreateLog
    <3>2. frame'[p].d = frame[p].d /\ frame'[p].then = frame[p].then
      BY <1>1, <3>1 DEF Frame
    <3> QED BY <1>2, <2>1, <3>2 DEF Logging
  <2>3. CASE AfterLog(p)
    <3>1. frame' = frame \/ pc'[p] \in {"r.lock", "idle"}
      BY <1>1, <2>3 DEF AfterLog, Step, Goto, End
    <3> QED BY <1>2, <2>1, <3>1 DEF LogPc, Logging
  <2> QED BY <1>7, <2>2, <2>3 DEF Enqueue, EnqueueLost
<1>8. ASSUME NEW e \in Day, Reset(p, e) \/ Recalc(p, e) \/ Edit(p, e)
      PROVE  FALSE
  <2>1. pc'[p] \in {"r.lock", "e.write"}
    BY <1>1, <1>8 DEF Reset, Recalc, Edit, Begin, Goto
  <2> QED BY <1>2, <2>1 DEF LogPc
<1>9. ASSUME NEW r \in Request, Approved(p, r)
      PROVE  FALSE
  <2>1. pc'[p] = "d.mark"
    BY <1>1, <1>9 DEF Approved, Begin, Goto
  <2> QED BY <1>2, <2>1 DEF LogPc
<1>10. CASE Begins(p)
  BY <1>3, <1>4, <1>8, <1>9, <1>10 DEF Begins, Start
<1>11. ASSUME Robot(p) \/ Fail(p)
       PROVE  FALSE
  <2>1. pc'[p] \in {"r.lock", "idle"}
    BY <1>1, <1>11 DEF Robot, WorkerTake, WorkerFail, SweepFail, Sweep, Fail, Begin, End, Goto
  <2> QED BY <1>2, <2>1 DEF LogPc
<1>12. ASSUME RecalcLock(p) \/ RecalcLogs(p) \/ RecalcWrite(p) \/ EditWrite(p) \/ Mark(p)
              \/ OtRead(p) \/ OtWrite(p) \/ ShiftRead(p) \/ ShiftWrite(p)
       PROVE  FALSE
  <2>1. pc'[p] \notin LogPc
    BY <1>1, <1>12 DEF RecalcLock, RecalcLogs, RecalcWrite, EditWrite, Mark, OtRead, OtWrite, ShiftRead,
         ShiftWrite, AfterRecalc, NextLine, Step, End, Goto, LogPc
  <2> QED BY <1>2, <2>1
<1> QED BY <1>6, <1>7, <1>10, <1>11, <1>12 DEF Turn, Resume

\* The cron reaches a day when no check-in of it is under way; the day it has reached stays so.
LEMMA SweptNext ==
  ASSUME SheetInv, NEW p \in Process, Turn(p), NEW d \in Day
  PROVE  /\ swept'[d] = swept[d] \/ (p = Cron /\ Sweep(d) /\ ~ swept[d] /\ swept'[d])
         /\ past' = past
<1>1. swept \in [Day -> BOOLEAN]
  BY DEF SheetInv, TypeOK
<1>2. ASSUME NEW e \in Day, Sweep(e), p = Cron
      PROVE  /\ swept'[d] = swept[d] \/ (p = Cron /\ Sweep(d) /\ ~ swept[d] /\ swept'[d])
             /\ past' = past
  BY <1>1, <1>2 DEF Sweep
<1>3. CASE WorkerTake \/ WorkerFail \/ SweepFail \/ Fail(p)
  BY <1>3 DEF WorkerTake, WorkerFail, SweepFail, Fail
<1>4. CASE Begins(p)
  BY <1>4 DEF Begins, Start, Check, HrCorrection, Recalc, Reset, Edit, Approved
<1>5. CASE Resume(p)
  BY <1>5 DEF Resume, CreateLog, Enqueue, EnqueueLost, RecalcLock, RecalcLogs, RecalcWrite, EditWrite,
              Mark, Apply, OtRead, OtWrite, ShiftRead, ShiftWrite
<1> QED BY <1>2, <1>3, <1>4, <1>5 DEF Turn, Robot

\* No check-in is under way when the cron has reached the day.
LEMMA SettledStep ==
  ASSUME SheetInv, SettledOk, Next
  PROVE  SettledOk'
<1>1. /\ TypeOK /\ (\A p \in Process : Carries(p)) /\ asked' = asked
      /\ pc \in [Process -> Pc]
  BY DEF SheetInv, TypeOK, Next
<1>2. CASE Quiet
  <2>1. UNCHANGED <<pc, frame, swept>> /\ \A d \in Day : past[d] => past'[d]
    BY <1>1, <1>2, QuietTypes
  <2> QED BY <2>1 DEF SettledOk, Logging
<1>3. ASSUME NEW p \in Process, Turn(p), NEW d \in Day, swept'[d]
      PROVE  past'[d] /\ \A q \in Logging(d)' : frame'[q].then = "recalc"
  <2>1. Moved(p)
    BY <1>1, <1>3, TurnMoves
  <2>2. past' = past
    BY <1>3, SweptNext
  <2>3. past[d] /\ \A q \in Logging(d) : frame[q].then = "recalc"
    <3>1. CASE swept[d]
      BY <3>1 DEF SettledOk
    <3>2. CASE ~ swept[d]
      <4>1. Settled(d)
        BY <1>3, <3>2, SweptNext DEF Sweep
      <4>2. \A q \in Logging(d) : q \in Handler
        <5>1. ASSUME NEW q \in Robots, q \in Process
              PROVE  pc[q] \notin LogPc
          BY <1>1, <5>1 DEF Carries, RecalcPc, LogPc
        <5> QED BY <5>1 DEF Logging, Process, Robots
      <4> QED BY <4>1, <4>2 DEF Settled, Logging
    <3> QED BY <3>1, <3>2
  <2>4. ASSUME NEW q \in Logging(d)'
        PROVE  frame'[q].then = "recalc"
    <3>1. CASE q = p
      BY <1>1, <1>3, <2>3, <2>4, <3>1, LogsRecalculate
    <3>2. CASE q # p
      <4>1. q \in Process /\ Stays(q)
        BY <2>1, <2>4, <3>2 DEF Moved, Logging
      <4>2. q \in Logging(d)
        BY <2>4, <4>1 DEF Logging, Stays
      <4> QED BY <2>3, <4>1, <4>2 DEF Stays
    <3> QED BY <3>1, <3>2
  <2> QED BY <2>2, <2>3, <2>4
<1> QED BY <1>2, <1>3, OneMoves DEF Next, SettledOk

\* What fails, and what does not.
Failing(p) == EnqueueLost(p) \/ Fail(p) \/ (p = Worker /\ WorkerFail) \/ (p = Cron /\ SweepFail)

\* Only a failure is counted as one.
LEMMA FailsCount ==
  ASSUME SheetInv, NEW p \in Process, Turn(p)
  PROVE  /\ fails \in Nat
         /\ Failing(p) => fails' = fails + 1 /\ fails < MaxFail
         /\ ~ Failing(p) => fails' = fails
<1>1. fails \in Nat
  BY TimesheetAssumption DEF SheetInv, TypeOK
<1>2. ASSUME Failing(p)
      PROVE  fails' = fails + 1 /\ fails < MaxFail
  BY <1>2 DEF Failing, EnqueueLost, Fail, WorkerFail, SweepFail
<1>3. ASSUME ~ Failing(p)
      PROVE  fails' = fails
  <2>1. CASE Begins(p)
    BY <2>1 DEF Begins, Start, Check, HrCorrection, Recalc, Reset, Edit, Approved
  <2>2. CASE Resume(p) /\ ~ EnqueueLost(p)
    BY <2>2 DEF Resume, CreateLog, Enqueue, RecalcLock, RecalcLogs, RecalcWrite, EditWrite,
              Mark, Apply, OtRead, OtWrite, ShiftRead, ShiftWrite
  <2>3. CASE WorkerTake \/ \E d \in Day : Sweep(d)
    BY <2>3 DEF WorkerTake, Sweep
  <2> QED BY <1>3, <2>1, <2>2, <2>3 DEF Turn, Robot, Failing
<1> QED BY <1>1, <1>2, <1>3

\* Every attempt after the first follows a failure.
LEMMA TriesStep ==
  ASSUME SheetInv, TriesOk, Next
  PROVE  TriesOk'
<1>1. /\ TypeOK /\ (\A p \in Process : Carries(p)) /\ asked' = asked
      /\ pc \in [Process -> Pc] /\ frame \in [Process -> Frame] /\ queue \subseteq Day \X (1 .. Attempts)
      /\ frame[Worker] \in Frame /\ frame[Worker].tries \in Nat
      /\ Worker \in Process /\ Cron \in Process /\ Worker # Cron /\ Worker \notin Handler
  BY Given, FrameFields DEF SheetInv, TypeOK, Next, Robots
<1>2. CASE Quiet
  <2>1. UNCHANGED <<pc, frame, queue, fails>>
    BY <1>1, <1>2, QuietTypes
  <2> QED BY <2>1 DEF TriesOk
<1>3. ASSUME NEW p \in Process, Turn(p)
      PROVE  TriesOk'
  <2>1. Moved(p) /\ fails \in Nat /\ fails' \in Nat /\ fails <= fails'
    <3>1. fails \in Nat /\ (fails' = fails + 1 \/ fails' = fails)
      BY <1>3, FailsCount
    <3> QED BY <1>1, <1>3, <3>1, TurnMoves
  <2>2. ASSUME NEW d \in Day, NEW n \in Nat, n \in 1 .. Attempts, <<d, n>> \in queue'
        PROVE  n <= fails' + 1
    <3>0. fails \in Nat /\ fails' \in Nat /\ fails <= fails'
      BY <2>1
    <3>1. CASE <<d, n>> \in queue
      <4>1. n <= fails + 1
        BY <2>2, <3>1 DEF TriesOk
      <4>2. \A i, k \in Nat : n <= i + 1 /\ i <= k => n <= k + 1
        OBVIOUS
      <4> QED BY <3>0, <4>1, <4>2
    <3>2. CASE n = 1
      <4>1. \A k \in Nat : 1 <= k + 1
        OBVIOUS
      <4> QED BY <3>0, <3>2, <4>1
    <3>3. CASE p = Worker /\ WorkerFail
      <4>1. fails' = fails + 1
        BY <1>1, <3>3 DEF WorkerFail
      <4>2. <<d, n>> \in queue \/ n = frame[Worker].tries + 1
        BY <2>2, <3>3 DEF WorkerFail
      <4>3. frame[Worker].tries <= fails + 1
        BY <3>3 DEF WorkerFail, TriesOk
      <4> QED BY <1>1, <2>1, <3>1, <4>1, <4>2, <4>3
    <3>4. CASE Enqueue(p)
      <4>1. <<d, n>> \in queue \/ n = 1
        BY <2>2, <3>4 DEF Enqueue, Add
      <4> QED BY <3>1, <3>2, <4>1
    <3>5. CASE WorkerTake
      <4>1. <<d, n>> \in queue
        BY <2>2, <3>5 DEF WorkerTake
      <4> QED BY <3>1, <4>1
    <3>6. CASE ~ (p = Worker /\ WorkerFail) /\ ~ Enqueue(p) /\ ~ WorkerTake
      <4>1. ASSUME Begins(p) \/ Fail(p)
            PROVE  queue' = queue
        BY <4>1 DEF Begins, Start, Check, HrCorrection, Recalc, Reset, Edit, Approved, Fail
      <4>2. ASSUME Resume(p)
            PROVE  queue' = queue
        BY <3>6, <4>2 DEF Resume, CreateLog, EnqueueLost, Lost, RecalcLock, RecalcLogs, RecalcWrite, EditWrite,
              Mark, Apply, OtRead, OtWrite, ShiftRead, ShiftWrite
      <4>3. ASSUME SweepFail \/ \E e \in Day : Sweep(e)
            PROVE  queue' = queue
        BY <4>3 DEF SweepFail, Sweep
      <4>4. queue' = queue
        BY <1>3, <3>6, <4>1, <4>2, <4>3 DEF Turn, Robot
      <4> QED BY <2>2, <3>1, <4>4
    <3> QED BY <3>3, <3>4, <3>5, <3>6
  <2>3. ASSUME pc'[Worker] # "idle"
        PROVE  frame'[Worker].tries <= fails' + 1
    <3>1. CASE p # Worker
      <4>1. Stays(Worker)
        BY <1>1, <2>1, <3>1 DEF Moved
      <4>2. frame[Worker].tries <= fails + 1 /\ frame'[Worker] = frame[Worker]
        BY <2>3, <4>1 DEF Stays, TriesOk
      <4> QED BY <1>1, <2>1, <4>2
    <3>2. CASE p = Worker /\ WorkerTake
      <4>1. PICK job \in queue : Begin(Worker, job[1], "r.lock", [At(job[1]) EXCEPT !.tries = job[2]])
        BY <3>2 DEF WorkerTake
      <4>2. job[1] \in Day /\ job[2] \in 1 .. Attempts /\ <<job[1], job[2]>> \in queue
        BY <1>1, <4>1
      <4>3. frame'[Worker] = [At(job[1]) EXCEPT !.tries = job[2]]
        BY <1>1, <4>1 DEF Begin
      <4>4. frame'[Worker].tries = job[2]
        BY <4>2, <4>3, AtFields DEF Frame
      <4>5. job[2] <= fails + 1
        BY <4>2 DEF TriesOk
      <4> QED BY <2>1, <4>2, <4>4, <4>5 DEF Attempts
    <3>3. CASE p = Worker /\ Resume(Worker)
      <4>1. pc[Worker] \in RecalcPc \cup {"idle"} /\ frame[Worker].then = "end" /\ frame[Worker].todo = {}
        BY <1>1 DEF Carries, Robots
      <4>2. RecalcLock(Worker) \/ RecalcLogs(Worker) \/ RecalcWrite(Worker)
        BY <3>3, <4>1 DEF Resume, CreateLog, Enqueue, EnqueueLost, EditWrite, Mark, Apply, OtRead, OtWrite,
              ShiftRead, ShiftWrite, RecalcPc
      <4>3. frame'[Worker] = frame[Worker] \/ frame'[Worker] = [frame[Worker] EXCEPT !.read = logs[frame[Worker].d]]
        <5>1. ~ End(Worker)
          BY <1>1, <2>3 DEF End, Goto
        <5> QED BY <1>1, <4>1, <4>2, <5>1 DEF RecalcLock, RecalcLogs, RecalcWrite, AfterRecalc, Step
      <4>4. frame'[Worker].tries = frame[Worker].tries
        BY <1>1, <4>3 DEF Frame
      <4>5. pc[Worker] # "idle"
        BY <4>2 DEF RecalcLock, RecalcLogs, RecalcWrite
      <4>6. frame[Worker].tries <= fails + 1
        BY <4>5 DEF TriesOk
      <4> QED BY <1>1, <2>1, <4>4, <4>6
    <3>4. CASE p = Worker /\ WorkerFail
      BY <1>1, <2>3, <3>4 DEF WorkerFail, End, Goto
    <3> QED BY <1>1, <1>3, <3>1, <3>2, <3>3, <3>4 DEF Turn, Robot
  <2>4. ASSUME NEW d \in Day, NEW n \in 1 .. Attempts, <<d, n>> \in queue'
        PROVE  n <= fails' + 1
    <3>1. n \in Nat
      BY DEF Attempts
    <3> QED BY <2>2, <2>4, <3>1
  <2> QED BY <2>3, <2>4 DEF TriesOk
<1> QED BY <1>2, <1>3, OneMoves DEF Next

\* If the logs and the sheet of d are what they were, who was ready to show the logs is, but for
\* the one who moves.
LEMMA ReadyElse ==
  ASSUME NEW p \in Process, Moved(p), NEW d \in Day, NEW S, S \subseteq Process, Ready(S, d),
         sheet'[d] = sheet[d], logs'[d] = logs[d], Waiting(d) => Waiting(d)',
         OnWay(p, d) => OnWay(p, d)' \/ Waiting(d)' \/ Shown(d)'
  PROVE  Ready(S, d)'
<1>1. Shown(d) => Shown(d)'
  BY DEF Shown
<1>2. ASSUME NEW q \in S \ {p}, OnWay(q, d)
      PROVE  OnWay(q, d)'
  <2>1. Stays(q)
    BY DEF Moved
  <2> QED BY <1>2, <2>1 DEF OnWay, Stays
<1> QED BY <1>1, <1>2 DEF Ready

\* Who is at work on a day and does not end has the day on his way.
LEMMA ReadyKept ==
  ASSUME SheetInv, asked' = asked, NEW p \in Process, Turn(p), ~ Failing(p), NEW d \in Day,
         NEW S, Process \ {Cron} \subseteq S, S \subseteq Process, Ready(S, d), MadeUp(d)
  PROVE  Ready(S, d)'
<1>1. /\ TypeOK /\ (\A q \in Process : Carries(q))
      /\ pc \in [Process -> Pc] /\ frame \in [Process -> Frame] /\ queue \subseteq Day \X (1 .. Attempts)
      /\ frame[p] \in Frame /\ frame[p].d \in Day /\ logs \in [Day -> LogSeq] /\ sheet \in [Day -> Sheet]
      /\ Worker \in Process /\ Cron \in Process /\ Worker # Cron /\ Handler \cap Robots = {}
      /\ sheet[d] \in Sheet
  BY Given, FrameFields DEF SheetInv, TypeOK
<1>2. Moved(p)
  BY <1>1, TurnMoves
<1>3. pc[p] \notin RecalcPc \cup {"idle"} => p \in S
  BY <1>1 DEF Carries, Robots
<1>4. OnWay(p, d) => frame[p].d = d /\ pc[p] \in LogPc \cup RecalcPc
  BY DEF OnWay, RecalcPc
<1>5. Shown(d) <=> sheet[d].seen = logs[d] \/ sheet[d].locked
  BY DEF Shown
<1>6. CASE p \in Handler /\ Begins(p)
  <2>1. pc[p] = "idle" /\ p \in Handler
    BY <1>1, <1>6 DEF Begins, Start, Check, HrCorrection, Recalc, Reset, Edit, Approved, Begin
  <2>2. ~ OnWay(p, d)
    BY <1>4, <2>1 DEF LogPc, RecalcPc
  <2>3. ASSUME NEW e \in Day, Reset(p, e), e # d
        PROVE  sheet'[d] = sheet[d] /\ logs'[d] = logs[d] /\ queue' = queue
    BY <1>1, <2>3 DEF Reset
  <2>4. CASE Reset(p, d)
    <3>1. pc'[p] = "r.lock" /\ frame'[p] = At(d)
      BY <1>1, <2>4 DEF Reset, Begin, Goto
    <3>2. OnWay(p, d)' /\ p \in S
      BY <1>1, <2>1, <3>1, AtFields DEF OnWay, Robots
    <3> QED BY <3>2 DEF Ready
  <2>5. ASSUME NEW e \in Day, Check(p, e) \/ HrCorrection(p, e) \/ Recalc(p, e) \/ Edit(p, e)
        PROVE  sheet' = sheet /\ logs' = logs /\ queue' = queue
    BY <2>5 DEF Check, HrCorrection, Recalc, Edit
  <2>6. ASSUME NEW r \in Request, Approved(p, r)
        PROVE  sheet' = sheet /\ logs' = logs /\ queue' = queue
    BY <2>6 DEF Approved
  <2>7. CASE sheet'[d] = sheet[d] /\ logs'[d] = logs[d] /\ queue' = queue
    <3>1. Waiting(d) => Waiting(d)'
      BY <2>7 DEF Waiting
    <3> QED BY <1>2, <2>2, <2>7, <3>1, ReadyElse
  <2> QED BY <1>6, <2>3, <2>4, <2>5, <2>6, <2>7 DEF Begins, Start
<1>7. CASE CreateLog(p)
  <2>1. /\ pc[p] = "c.insert" /\ pc'[p] = "c.enqueue" /\ sheet' = sheet /\ queue' = queue
        /\ frame'[p] = [frame[p] EXCEPT !.new = Tail(frame[p].new)]
    BY <1>1, <1>7 DEF CreateLog, Goto
  <2>2. frame'[p].d = frame[p].d
    BY <1>1, <2>1 DEF Frame
  <2>3. CASE frame[p].d = d
    <3>1. p \in S /\ OnWay(p, d)'
      BY <1>3, <2>1, <2>2, <2>3 DEF OnWay, LogPc, RecalcPc
    <3> QED BY <3>1 DEF Ready
  <2>4. CASE frame[p].d # d
    <3>1. logs'[d] = logs[d]
      BY <1>1, <1>7, <2>4 DEF CreateLog
    <3>2. Waiting(d) => Waiting(d)'
      BY <2>1 DEF Waiting
    <3> QED BY <1>2, <1>4, <2>1, <2>4, <3>1, <3>2, ReadyElse
  <2> QED BY <2>3, <2>4
<1>8. CASE Enqueue(p)
  <2>1. sheet' = sheet /\ logs' = logs /\ queue' = queue \cup {<<frame[p].d, 1>>}
    BY <1>8 DEF Enqueue, Add
  <2>2. Waiting(d) => Waiting(d)'
    BY <2>1 DEF Waiting
  <2>3. frame[p].d = d => Waiting(d)'
    <3>1. 1 \in 1 .. Attempts
      BY DEF Attempts
    <3> QED BY <2>1, <3>1 DEF Waiting
  <2> QED BY <1>2, <1>4, <2>1, <2>2, <2>3, ReadyElse
<1>9. CASE RecalcLock(p)
  <2>1. sheet' = sheet /\ logs' = logs /\ queue' = queue
    BY <1>9 DEF RecalcLock
  <2>2. Waiting(d) => Waiting(d)'
    BY <2>1 DEF Waiting
  <2>3. ASSUME frame[p].d = d, ~ sheet[d].locked
        PROVE  OnWay(p, d)'
    BY <1>1, <1>9, <2>3 DEF RecalcLock, Step, Goto, OnWay
  <2>4. frame[p].d = d => OnWay(p, d)' \/ Shown(d)'
    BY <2>1, <2>3 DEF Shown
  <2> QED BY <1>2, <1>4, <2>1, <2>2, <2>4, ReadyElse
<1>10. CASE RecalcLogs(p)
  <2>1. /\ sheet' = sheet /\ logs' = logs /\ queue' = queue /\ pc'[p] = "r.write"
        /\ frame'[p] = [frame[p] EXCEPT !.read = logs[frame[p].d]]
    BY <1>1, <1>10 DEF RecalcLogs, Goto
  <2>2. Waiting(d) => Waiting(d)'
    BY <2>1 DEF Waiting
  <2>3. frame'[p].d = frame[p].d /\ frame'[p].read = logs[frame[p].d]
    BY <1>1, <2>1 DEF Frame
  <2>4. frame[p].d = d => OnWay(p, d)'
    BY <2>1, <2>3 DEF OnWay
  <2> QED BY <1>2, <1>4, <2>1, <2>2, <2>4, ReadyElse
<1>11. CASE RecalcWrite(p)
  <2>1. /\ logs' = logs /\ queue' = queue /\ pc[p] = "r.write"
        /\ sheet' = [sheet EXCEPT ![frame[p].d] = [@ EXCEPT !.row = TRUE, !.basis = "auto",
                                                !.seen = frame[p].read, !.ot = 0]]
    BY <1>11 DEF RecalcWrite
  <2>2. Waiting(d) => Waiting(d)'
    BY <2>1 DEF Waiting
  <2>3. CASE frame[p].d = d /\ frame[p].read = logs[d]
    <3>1. sheet'[d] = [sheet[d] EXCEPT !.row = TRUE, !.basis = "auto", !.seen = frame[p].read, !.ot = 0]
      BY <1>1, <2>1, <2>3
    <3>2. sheet'[d].seen = frame[p].read
      BY <1>1, <3>1 DEF Sheet
    <3> QED BY <2>1, <2>3, <3>2 DEF Ready, Shown
  <2>4. CASE frame[p].d = d /\ frame[p].read # logs[d]
    <3>1. Waiting(d) \/ Logging(d) # {}
      BY <2>1, <2>4 DEF MadeUp, Stale
    <3>2. ASSUME NEW q \in Logging(d)
          PROVE  q \in S /\ OnWay(q, d)'
      <4>1. q \in Process /\ pc[q] \in LogPc /\ frame[q].d = d
        BY DEF Logging
      <4>2. q \notin Robots /\ q # p
        BY <1>1, <2>1, <4>1 DEF Carries, LogPc, RecalcPc
      <4>3. Stays(q)
        BY <1>2, <4>1, <4>2 DEF Moved
      <4> QED BY <4>1, <4>2, <4>3 DEF Stays, OnWay, Robots
    <3> QED BY <2>2, <3>1, <3>2 DEF Ready
  <2>5. CASE frame[p].d # d
    <3>1. sheet'[d] = sheet[d]
      BY <1>1, <2>1, <2>5
    <3> QED BY <1>2, <1>4, <2>1, <2>2, <2>5, <3>1, ReadyElse
  <2> QED BY <2>3, <2>4, <2>5
<1>12. CASE EditWrite(p) \/ OtWrite(p) \/ ShiftWrite(p)
  <2>1. logs' = logs /\ queue' = queue /\ pc[p] \in {"e.write", "o.write", "s.write"}
    BY <1>12 DEF EditWrite, OtWrite, ShiftWrite
  <2>2. Waiting(d) => Waiting(d)'
    BY <2>1 DEF Waiting
  <2>3. CASE frame[p].d = d
    <3>1. sheet'[d].locked
      <4>1. CASE OtWrite(p)
        <5>1. sheet'[d] = [sheet[d] EXCEPT !.row = TRUE, !.ot = frame[p].ot + 1, !.locked = TRUE]
          BY <1>1, <2>3, <4>1 DEF OtWrite
        <5> QED BY <1>1, <5>1 DEF Sheet
      <4>2. CASE EditWrite(p) \/ ShiftWrite(p)
        BY <1>1, <2>3, <4>2 DEF EditWrite, ShiftWrite
      <4> QED BY <1>12, <4>1, <4>2
    <3> QED BY <3>1 DEF Ready, Shown
  <2>4. CASE frame[p].d # d
    <3>1. sheet'[d] = sheet[d]
      BY <1>1, <1>12, <2>4 DEF EditWrite, OtWrite, ShiftWrite
    <3> QED BY <1>2, <1>4, <2>1, <2>2, <2>4, <3>1, ReadyElse
  <2> QED BY <2>3, <2>4
<1>13. CASE Mark(p) \/ Apply(p) \/ OtRead(p) \/ ShiftRead(p)
  <2>1. /\ sheet' = sheet /\ logs' = logs /\ queue' = queue
        /\ pc[p] \in {"d.mark", "d.next", "o.read", "s.read"}
    BY <1>13 DEF Mark, Apply, OtRead, ShiftRead
  <2>2. Waiting(d) => Waiting(d)'
    BY <2>1 DEF Waiting
  <2>3. ~ OnWay(p, d)
    BY <1>4, <2>1 DEF LogPc, RecalcPc
  <2> QED BY <1>2, <2>1, <2>2, <2>3, ReadyElse
<1>14. CASE p = Worker /\ WorkerTake
  <2>1. PICK job \in queue : /\ Begin(Worker, job[1], "r.lock", [At(job[1]) EXCEPT !.tries = job[2]])
                             /\ queue' = queue \ {job} /\ sheet' = sheet /\ logs' = logs
    BY <1>14 DEF WorkerTake
  <2>2. job[1] \in Day /\ job[2] \in Nat /\ job = <<job[1], job[2]>>
    BY <1>1, <2>1 DEF Attempts
  <2>3. pc[p] = "idle" /\ pc'[p] = "r.lock" /\ frame'[p] = [At(job[1]) EXCEPT !.tries = job[2]]
    BY <1>1, <1>14, <2>1 DEF Begin, Goto
  <2>4. frame'[p].d = job[1]
    BY <2>2, <2>3, AtFields DEF Frame
  <2>5. CASE job[1] = d
    BY <1>1, <1>14, <2>3, <2>4, <2>5 DEF Ready, OnWay
  <2>6. CASE job[1] # d
    <3>1. Waiting(d) => Waiting(d)'
      BY <2>1, <2>2, <2>6 DEF Waiting
    <3>2. ~ OnWay(p, d)
      BY <2>3 DEF OnWay, LogPc
    <3> QED BY <1>2, <2>1, <3>1, <3>2, ReadyElse
  <2> QED BY <2>5, <2>6
<1>15. CASE p = Cron /\ \E e \in Day : Sweep(e)
  <2>1. sheet' = sheet /\ logs' = logs /\ queue' = queue /\ pc[p] = "idle"
    BY <1>15 DEF Sweep, Begin
  <2>2. Waiting(d) => Waiting(d)'
    BY <2>1 DEF Waiting
  <2>3. ~ OnWay(p, d)
    BY <2>1 DEF OnWay, LogPc
  <2> QED BY <1>2, <2>1, <2>2, <2>3, ReadyElse
<1> QED BY <1>6, <1>7, <1>8, <1>9, <1>10, <1>11, <1>12, <1>13, <1>14, <1>15
        DEF Turn, Resume, Robot, Failing

\* Only the worker takes a job from the queue, to do it.
LEMMA WaitingKept ==
  ASSUME SheetInv, NEW p \in Process, Turn(p), NEW d \in Day, Waiting(d), p \notin Computing(d)'
  PROVE  Waiting(d)'
<1>1. /\ pc \in [Process -> Pc] /\ frame \in [Process -> Frame] /\ queue \subseteq Day \X (1 .. Attempts)
      /\ Worker \in Process
  BY Given DEF SheetInv, TypeOK
<1>2. ASSUME queue \subseteq queue'
      PROVE  Waiting(d)'
  BY <1>2 DEF Waiting
<1>3. ASSUME Begins(p) \/ Fail(p)
      PROVE  queue \subseteq queue'
  BY <1>3 DEF Begins, Start, Check, HrCorrection, Recalc, Reset, Edit, Approved, Fail
<1>4. ASSUME Resume(p)
      PROVE  queue \subseteq queue'
  BY <1>4 DEF Resume, CreateLog, Enqueue, EnqueueLost, Add, Lost, RecalcLock, RecalcLogs, RecalcWrite, EditWrite,
              Mark, Apply, OtRead, OtWrite, ShiftRead, ShiftWrite
<1>5. ASSUME WorkerFail \/ SweepFail \/ \E e \in Day : Sweep(e)
      PROVE  queue \subseteq queue'
  BY <1>5 DEF WorkerFail, SweepFail, Sweep
<1>6. CASE p = Worker /\ WorkerTake
  <2>1. PICK job \in queue : /\ Begin(Worker, job[1], "r.lock", [At(job[1]) EXCEPT !.tries = job[2]])
                             /\ queue' = queue \ {job}
    BY <1>6 DEF WorkerTake
  <2>2. job[1] \in Day /\ job[2] \in Nat
    BY <1>1, <2>1 DEF Attempts
  <2>3. pc'[p] = "r.lock" /\ frame'[p] = [At(job[1]) EXCEPT !.tries = job[2]]
    BY <1>1, <1>6, <2>1 DEF Begin, Goto
  <2>4. frame'[p].d = job[1]
    BY <2>2, <2>3, AtFields DEF Frame
  <2>5. job[1] # d
    BY <2>3, <2>4 DEF Computing, Days, LogPc
  <2> QED BY <2>1, <2>5 DEF Waiting
<1> QED BY <1>2, <1>3, <1>4, <1>5, <1>6 DEF Turn, Robot

\* Who is about to show logs that are out of date was so before, or a log has just been created.
LEMMA StaleBefore ==
  ASSUME SheetInv, asked' = asked, NEW p \in Process, Turn(p), NEW d \in Day,
         \A x, y \in Computing(d)' : x = y, NEW q \in Process, Stale(q, d)'
  PROVE  /\ p \notin Computing(d)'
         /\ Stale(q, d) \/ (CreateLog(p) /\ frame[p].d = d)
<1>1. /\ TypeOK /\ Carries(p) /\ pc \in [Process -> Pc] /\ frame \in [Process -> Frame] /\ frame[p] \in Frame
  BY DEF SheetInv, TypeOK
<1>2. Moved(p)
  BY <1>1, TurnMoves
<1>3. pc'[q] = "r.write" /\ frame'[q].d = d /\ frame'[q].read # logs'[d]
  BY DEF Stale
<1>4. q \in Computing(d)'
  BY <1>3 DEF Computing, Days, LogPc
<1>5. ASSUME pc'[p] = "r.write"
      PROVE  RecalcLogs(p)
  <2>1. ASSUME Begins(p) \/ Fail(p) \/ Robot(p)
        PROVE  FALSE
    BY <1>1, <1>5, <2>1 DEF Begins, Start, Check, HrCorrection, Recalc, Reset, Edit, Approved, Fail,
         Robot, WorkerTake, WorkerFail, SweepFail, Sweep, Begin, End, Goto
  <2>2. ASSUME AfterRecalc(p) \/ AfterLog(p) \/ NextLine(p) \/ End(p)
        PROVE  FALSE
    BY <1>1, <1>5, <2>2 DEF AfterRecalc, AfterLog, NextLine, Step, End, Goto
  <2>3. ASSUME CreateLog(p) \/ Mark(p) \/ Apply(p) \/ OtRead(p) \/ ShiftRead(p)
        PROVE  FALSE
    BY <1>1, <1>5, <2>3 DEF CreateLog, Mark, Apply, OtRead, ShiftRead, Step, Goto
  <2>4. RecalcLock(p) => AfterRecalc(p)
    BY <1>1, <1>5 DEF RecalcLock, Step, Goto
  <2> QED BY <2>1, <2>2, <2>3, <2>4, <1>5
          DEF Turn, Resume, Enqueue, EnqueueLost, RecalcWrite, EditWrite, OtWrite, ShiftWrite
<1>6. q # p
  <2> SUFFICES ASSUME q = p PROVE FALSE
    OBVIOUS
  <2>1. RecalcLogs(p)
    BY <1>3, <1>5
  <2>2. frame'[p] = [frame[p] EXCEPT !.read = logs[frame[p].d]] /\ logs' = logs
    BY <1>1, <2>1 DEF RecalcLogs
  <2>3. frame'[p].d = frame[p].d /\ frame'[p].read = logs[frame[p].d]
    BY <1>1, <2>2 DEF Frame
  <2> QED BY <1>3, <2>2, <2>3
<1>7. p \notin Computing(d)'
  BY <1>4, <1>6
<1>8. Stays(q)
  BY <1>2, <1>6 DEF Moved
<1>9. ~ Reset(p, d)
  <2> SUFFICES ASSUME Reset(p, d) PROVE FALSE
    OBVIOUS
  <2>1. pc'[p] = "r.lock" /\ frame'[p] = At(d)
    BY <1>1 DEF Reset, Begin, Goto
  <2> QED BY <1>7, <2>1, AtFields DEF Computing, Days, LogPc
<1>10. logs'[d] = logs[d] \/ (CreateLog(p) /\ frame[p].d = d)
  BY <1>9, LogsChange
<1> QED BY <1>3, <1>7, <1>8, <1>10 DEF Stale, Stays

\* What a sheet is about to show that is out of date stays made up for: the job waits on, and
\* a log that is being created will be followed by one.
LEMMA MadeUpKept ==
  ASSUME SheetInv, asked' = asked, NEW p \in Process, Turn(p), NEW d \in Day, MadeUp(d),
         \A x, y \in Computing(d)' : x = y,
         Failing(p) => swept[d] /\ SettledOk /\ (Fail(p) => d \notin Days(p))
  PROVE  MadeUp(d)'
<1>1. /\ TypeOK /\ Carries(p) /\ pc \in [Process -> Pc] /\ frame \in [Process -> Frame] /\ frame[p] \in Frame
      /\ frame[p].d \in Day
  BY FrameFields DEF SheetInv, TypeOK
<1>2. Moved(p)
  BY <1>1, TurnMoves
<1> SUFFICES ASSUME NEW q \in Process, Stale(q, d)'
             PROVE  Waiting(d)' \/ Logging(d)' # {}
  BY DEF MadeUp
<1>3. /\ p \notin Computing(d)'
      /\ Stale(q, d) \/ (CreateLog(p) /\ frame[p].d = d)
  BY <1>1, StaleBefore
<1>4. CASE CreateLog(p) /\ frame[p].d = d
  <2>1. pc'[p] = "c.enqueue" /\ frame'[p] = [frame[p] EXCEPT !.new = Tail(frame[p].new)]
    BY <1>1, <1>4 DEF CreateLog, Goto
  <2>2. frame'[p].d = frame[p].d
    BY <1>1, <2>1 DEF Frame
  <2> QED BY <1>4, <2>1, <2>2 DEF Logging, LogPc
<1>5. CASE Waiting(d)
  BY <1>3, <1>5, WaitingKept
<1>6. ASSUME NEW x \in Logging(d), x # p
      PROVE  x \in Logging(d)'
  <2>1. x \in Process /\ Stays(x)
    BY <1>2, <1>6 DEF Logging, Moved
  <2> QED BY <2>1 DEF Logging, Stays
<1>7. CASE p \in Logging(d) /\ ~ (CreateLog(p) /\ frame[p].d = d)
  <2>1. pc[p] \in LogPc /\ frame[p].d = d
    BY <1>7 DEF Logging
  <2>2. ~ Begins(p) /\ ~ Robot(p)
    BY <1>1, <2>1 DEF Carries, Robot, Robots, Begins, Start, Check, HrCorrection, Recalc, Reset, Edit, Approved,
                      Begin, LogPc, RecalcPc
  <2>3. ~ Fail(p)
    <3>1. d \in Days(p)
      BY <2>1 DEF Days, LogPc
    <3> QED BY <3>1 DEF Failing
  <2>4. Resume(p)
    BY <2>2, <2>3 DEF Turn
  <2>5. Enqueue(p) \/ EnqueueLost(p)
    BY <1>7, <2>1, <2>4 DEF Resume, RecalcLock, RecalcLogs, RecalcWrite, EditWrite, Mark, Apply, OtRead, OtWrite,
             ShiftRead, ShiftWrite, LogPc
  <2>6. CASE Enqueue(p)
    <3>1. <<d, 1>> \in queue' /\ 1 \in 1 .. Attempts
      BY <2>1, <2>6 DEF Enqueue, Add, Attempts
    <3> QED BY <3>1 DEF Waiting
  <2>7. CASE EnqueueLost(p)
    <3>1. frame[p].then = "recalc"
      BY <1>7, <2>7 DEF Failing, SettledOk
    <3>2. CASE frame[p].new # <<>>
      <4>1. pc'[p] = "c.insert" /\ frame'[p] = frame[p]
        BY <1>1, <2>7, <3>2 DEF EnqueueLost, AfterLog, Step, Goto
      <4> QED BY <2>1, <4>1 DEF Logging, LogPc
    <3>3. CASE frame[p].new = <<>>
      <4>1. pc'[p] = "r.lock" /\ frame'[p] = [frame[p] EXCEPT !.then = "end"]
        BY <1>1, <2>7, <3>1, <3>3 DEF EnqueueLost, AfterLog, Goto
      <4>2. frame'[p].d = frame[p].d
        BY <1>1, <4>1 DEF Frame
      <4> QED BY <1>3, <2>1, <4>1, <4>2 DEF Computing, Days, LogPc
    <3> QED BY <3>2, <3>3
  <2> QED BY <2>5, <2>6, <2>7
<1> QED BY <1>3, <1>4, <1>5, <1>6, <1>7 DEF MadeUp

\* The one failure leaves every day the cron has reached to someone.
LEMMA ReadyAfterFailure ==
  ASSUME SheetInv, asked' = asked, SettledOk, TriesOk, NEW p \in Process, Turn(p), Failing(p), fails = 0,
         NEW d \in Day, swept[d], Fail(p) => d \notin Days(p), Ready(Process \ {Cron}, d)
  PROVE  Ready(Process, d)'
<1>1. /\ TypeOK /\ Carries(p) /\ pc \in [Process -> Pc] /\ frame \in [Process -> Frame] /\ frame[p] \in Frame
      /\ frame[p].d \in Day /\ frame[p].tries \in Nat /\ p \in Process
  BY FrameFields DEF SheetInv, TypeOK
<1>2. Moved(p)
  BY <1>1, TurnMoves
<1>3. sheet' = sheet /\ logs' = logs /\ queue \subseteq queue'
  BY DEF Failing, EnqueueLost, Lost, Fail, WorkerFail, SweepFail
<1>4. Waiting(d) => Waiting(d)'
  BY <1>3 DEF Waiting
<1>5. Ready(Process, d)
  BY DEF Ready
<1>6. CASE OnWay(p, d) => OnWay(p, d)' \/ Waiting(d)' \/ Shown(d)'
  BY <1>2, <1>3, <1>4, <1>5, <1>6, ReadyElse
<1>7. CASE EnqueueLost(p)
  <2>1. pc[p] = "c.enqueue" /\ AfterLog(p)
    BY <1>7 DEF EnqueueLost
  <2>2. ASSUME frame[p].d = d
        PROVE  OnWay(p, d)'
    <3>1. frame[p].then = "recalc"
      BY <2>1, <2>2 DEF SettledOk, Logging, LogPc
    <3>2. CASE frame[p].new # <<>>
      <4>1. pc'[p] = "c.insert" /\ frame'[p] = frame[p]
        BY <1>1, <2>1, <3>2 DEF AfterLog, Step, Goto
      <4> QED BY <2>2, <4>1 DEF OnWay, LogPc
    <3>3. CASE frame[p].new = <<>>
      <4>1. pc'[p] = "r.lock" /\ frame'[p] = [frame[p] EXCEPT !.then = "end"]
        BY <1>1, <2>1, <3>1, <3>3 DEF AfterLog, Goto
      <4>2. frame'[p].d = frame[p].d
        BY <1>1, <4>1 DEF Frame
      <4> QED BY <2>2, <4>1, <4>2 DEF OnWay
    <3> QED BY <3>2, <3>3
  <2> QED BY <1>6, <2>2 DEF OnWay
<1>8. CASE Fail(p)
  <2>1. ~ OnWay(p, d)
    BY <1>8 DEF OnWay, Days, LogPc
  <2> QED BY <1>6, <2>1
<1>9. CASE p = Worker /\ WorkerFail
  <2>1. frame[Worker].tries <= 1
    BY <1>9 DEF WorkerFail, TriesOk
  <2>2. frame[Worker].tries < Attempts /\ frame[Worker].tries + 1 \in 1 .. Attempts
    BY <1>1, <1>9, <2>1 DEF Attempts
  <2>3. queue' = queue \cup {<<frame[p].d, frame[p].tries + 1>>}
    BY <1>9, <2>2 DEF WorkerFail
  <2>4. frame[p].d = d => Waiting(d)'
    BY <1>9, <2>2, <2>3 DEF Waiting
  <2> QED BY <1>6, <2>4 DEF OnWay
<1>10. CASE p = Cron /\ SweepFail
  <2>1. ASSUME NEW q \in Process \ {Cron}, OnWay(q, d)
        PROVE  OnWay(q, d)'
    <3>1. Stays(q)
      BY <1>2, <1>10, <2>1 DEF Moved
    <3> QED BY <1>3, <2>1, <3>1 DEF OnWay, Stays
  <2> QED BY <1>3, <1>4, <2>1 DEF Ready, Shown
<1> QED BY <1>7, <1>8, <1>9, <1>10 DEF Failing

\* Every step leaves what a sheet does not show in somebody's hands, while at most one thing fails.
LEMMA CoveredStep ==
  ASSUME MaxFail <= 1, SheetInv, SettledOk, TriesOk, Next, NEW d \in Day, Covered(d)
  PROVE  Covered(d)'
<1> SUFFICES ASSUME "sheet" \notin raced'[d], cut'[d] # "late"
             PROVE  /\ fails' = 0 => Ready(Process \ {Cron}, d)'
                    /\ swept'[d] => Ready(Process, d)'
                    /\ fails' = 0 \/ swept'[d] => MadeUp(d)'
  BY DEF Covered
<1>1. /\ TypeOK /\ (\A p \in Process : Carries(p)) /\ asked' = asked
      /\ pc \in [Process -> Pc] /\ frame \in [Process -> Frame] /\ cut \in [Day -> {"no", "early", "late"}]
      /\ fails \in Nat /\ Cron \in Process
  BY Given, TimesheetAssumption DEF SheetInv, TypeOK, Next
<1>2. "sheet" \notin raced[d] /\ \A x, y \in Computing(d)' : x = y
  BY <1>1, RacedNext
<1>3. CASE Quiet
  <2>1. UNCHANGED <<logs, sheet, swept, queue, pc, frame, cut, fails>>
    BY <1>1, <1>3, QuietTypes
  <2>2. ASSUME NEW S
        PROVE  Ready(S, d)' <=> Ready(S, d)
    BY <2>1 DEF Ready, Shown, Waiting, OnWay
  <2>3. MadeUp(d)' <=> MadeUp(d)
    BY <2>1 DEF MadeUp, Stale, Waiting, Logging
  <2> QED BY <1>2, <2>1, <2>2, <2>3 DEF Covered
<1>4. ASSUME NEW p \in Process, Turn(p), ~ Failing(p)
      PROVE  /\ fails' = 0 => Ready(Process \ {Cron}, d)'
             /\ swept'[d] => Ready(Process, d)'
             /\ fails' = 0 \/ swept'[d] => MadeUp(d)'
  <2>1. fails' = fails
    BY <1>4, FailsCount
  <2>2. cut[d] # "late"
    <3>1. ~ Fail(p)
      BY <1>4 DEF Failing
    <3> QED BY <1>4, <3>1, CutKept
  <2>3. /\ fails = 0 => Ready(Process \ {Cron}, d)
        /\ swept[d] => Ready(Process, d)
        /\ fails = 0 \/ swept[d] => MadeUp(d)
    BY <1>2, <2>2 DEF Covered
  <2>4. fails = 0 => Ready(Process \ {Cron}, d)'
    BY <1>1, <1>4, <2>3, ReadyKept
  <2>5. swept[d] => Ready(Process, d)'
    BY <1>1, <1>4, <2>3, ReadyKept
  <2>6. fails = 0 \/ swept[d] => MadeUp(d)'
    BY <1>1, <1>2, <1>4, <2>3, MadeUpKept
  <2>7. ASSUME swept'[d] # swept[d]
        PROVE  Ready(Process, d)' /\ MadeUp(d)'
    <3>1. p = Cron /\ Sweep(d)
      BY <1>4, <2>7, SweptNext
    <3>2. pc'[Cron] = "r.lock" /\ frame'[Cron] = At(d)
      BY <1>1, <3>1 DEF Sweep, Begin, Goto
    <3>3. OnWay(Cron, d)' /\ Cron \in Computing(d)'
      BY <1>1, <3>2, AtFields DEF OnWay, Computing, Days, LogPc
    <3>4. ASSUME NEW q \in Process, Stale(q, d)'
          PROVE  FALSE
      <4>1. q \in Computing(d)' /\ pc'[q] = "r.write"
        BY <3>4 DEF Stale, Computing, Days, LogPc
      <4> QED BY <1>2, <3>2, <3>3, <4>1
    <3> QED BY <1>1, <3>3, <3>4 DEF Ready, MadeUp
  <2> QED BY <2>1, <2>4, <2>5, <2>6, <2>7
<1>5. ASSUME NEW p \in Process, Turn(p), Failing(p)
      PROVE  /\ fails' = 0 => Ready(Process \ {Cron}, d)'
             /\ swept'[d] => Ready(Process, d)'
             /\ fails' = 0 \/ swept'[d] => MadeUp(d)'
  <2>1. fails = 0 /\ fails' # 0
    <3>1. fails' = fails + 1 /\ fails < MaxFail
      BY <1>5, FailsCount
    <3> QED BY <1>1, <3>1, TimesheetAssumption
  <2>2. swept' = swept
    BY <1>5 DEF Failing, EnqueueLost, Fail, WorkerFail, SweepFail
  <2>3. ASSUME swept[d]
        PROVE  Ready(Process, d)' /\ MadeUp(d)'
    <3>1. Fail(p) => d \notin Days(p)
      BY <1>1, <2>3 DEF Fail
    <3>2. cut[d] # "late"
      BY <1>1, <1>5, <3>1, CutKept DEF Fail
    <3>3. Ready(Process \ {Cron}, d) /\ MadeUp(d)
      BY <1>2, <2>1, <3>2 DEF Covered
    <3>4. Ready(Process, d)'
      BY <1>1, <1>5, <2>1, <2>3, <3>1, <3>3, ReadyAfterFailure
    <3>5. MadeUp(d)'
      BY <1>1, <1>2, <1>5, <2>3, <3>1, <3>3, MadeUpKept
    <3> QED BY <3>4, <3>5
  <2> QED BY <2>1, <2>2, <2>3
<1> QED BY <1>3, <1>4, <1>5, OneMoves DEF Next

\* With one failure at most, all that the sheet of a day lacks is on its way to it, or the cron is
\* still to come: the inductive invariant behind the next theorem.
THEOREM ShownInductive == ASSUME MaxFail <= 1 PROVE Spec => []ShownInv
<1>1. Init => ShownInv
  <2> SUFFICES ASSUME Init
               PROVE  SettledOk /\ TriesOk /\ \A d \in Day : Covered(d)
    BY SheetInvInit DEF ShownInv
  <2>1. \A p \in Process : pc[p] = "idle"
    BY DEF Init
  <2>2. SettledOk /\ TriesOk
    BY <2>1, Given DEF Init, SettledOk, TriesOk
  <2>3. ASSUME NEW d \in Day
        PROVE  Covered(d)
    <3>1. sheet[d].seen = logs[d]
      BY DEF Init, NoSheet
    <3>2. \A p \in Process : ~ Stale(p, d)
      BY <2>1 DEF Stale
    <3> QED BY <3>1, <3>2 DEF Covered, Ready, Shown, MadeUp
  <2> QED BY <2>2, <2>3
<1>2. ShownInv /\ [Next]_vars => ShownInv'
  <2> SUFFICES ASSUME ShownInv, [Next]_vars
               PROVE  ShownInv'
    OBVIOUS
  <2>1. CASE Next
    BY <2>1, SheetInvStep, SettledStep, TriesStep, CoveredStep DEF ShownInv
  <2>2. CASE UNCHANGED vars
    <3>1. SheetInv'
      BY <2>2, SheetInvStutter DEF ShownInv
    <3>2. SettledOk' /\ TriesOk'
      BY <2>2 DEF ShownInv, vars, history, SettledOk, TriesOk, Logging
    <3>3. ASSUME NEW d \in Day
          PROVE  Covered(d)'
      <4>1. Covered(d)
        BY DEF ShownInv
      <4> QED BY <2>2, <4>1 DEF vars, history, Covered, Ready, Shown, Waiting, OnWay, MadeUp, Stale, Logging
    <3> QED BY <3>1, <3>2, <3>3 DEF ShownInv
  <2> QED BY <2>1, <2>2
<1> QED BY <1>1, <1>2, PTL DEF Spec

\* A day the cron has passed shows its logs or is locked (the queue's attempts and
\* markAbsentYesterday), for any number of days, handlers and requests, if one thing fails at
\* most: of two, a lost job and a failed sweep leave the day as it was.
THEOREM LogsAreShown == ASSUME MaxFail <= 1 PROVE Spec => []LogsShown
<1>1. ShownInv => LogsShown
  <2> SUFFICES ASSUME ShownInv, NEW d \in Day, swept[d], \A n \in 1 .. Attempts : <<d, n>> \notin queue,
                      \A p \in Process : d \notin Days(p), cut[d] # "late", "sheet" \notin raced[d]
               PROVE  Shown(d)
    BY DEF LogsShown, Shown
  <2>1. Ready(Process, d)
    BY DEF ShownInv, Covered
  <2>2. ~ Waiting(d)
    BY DEF Waiting
  <2>3. \A p \in Process : ~ OnWay(p, d)
    BY DEF OnWay, Days, LogPc
  <2> QED BY <2>1, <2>2, <2>3 DEF Ready
<1> QED BY <1>1, ShownInductive, PTL
=============================================================================
