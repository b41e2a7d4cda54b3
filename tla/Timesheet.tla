----------------------------- MODULE Timesheet ------------------------------
(***************************************************************************)
(* Attendance logs and the timesheet days computed from them:              *)
(* AttendanceService, TimesheetService, TimesheetQueueService and its      *)
(* worker, and ShiftRegistrationService (apps/api/src/modules).            *)
(*                                                                         *)
(* A day is one employee's.  Handlers, the one worker of the queue and the *)
(* nightly cron interleave at every await.  A sheet is computed from the   *)
(* logs its writer has read, edited by HR, or set by an approved request,  *)
(* and the last two lock it.                                               *)
(***************************************************************************)
EXTENDS Naturals, Sequences, FiniteSets, SequencesExt

CONSTANTS
  Day, Handler, Request,
  Mix,      \* what the requests may be: a kind and the days it is for
  Worker, Cron,
  MaxLogs,  \* bound: logs in a day
  MaxFail   \* bound: failures in a behaviour

OtKind      == {"OVERTIME", "SHIFT_SHIFT"}
BatchKind   == {"XUONG_CA", "CLAMP_TO_REGISTERED", "SEPARATE_OT"}
RequestKind == {"CORRECTION"} \cup OtKind \cup BatchKind

ASSUME TimesheetAssumption ==
  /\ Mix \subseteq [Request -> [kind : RequestKind, days : SUBSET Day]]
  /\ Worker \notin Handler /\ Cron \notin Handler /\ Worker # Cron
  /\ Day # {} /\ Request # {} /\ IsFiniteSet(Handler)
  /\ MaxLogs \in Nat /\ MaxFail \in Nat

VARIABLES
  logs,    \* the types of a day's logs, by the time they record
  sheet,   \* TimesheetDay
  past,    \* has the day ended?
  swept,   \* has the cron reached the day?
  queue,   \* waiting recalculations: the day and the attempts made
  asked,   \* what each request is
  status,  \* its status
  pc, frame,
  want,    \* history: the sheet that was last decided by hand or by an approval
  given,   \* history: days with a log whose type was given, not inferred
  raced,   \* history: what overlapped on a day, "logs" or "sheet"
  cut,     \* history: was a handler of the day cut short, before the cron or after?
  fails

history == <<want, given, raced, cut>>
vars == <<logs, sheet, past, swept, queue, asked, status, pc, frame, want, given, raced, cut, fails>>

Process  == Handler \cup {Worker, Cron}
Attempts == 3
LogType  == {"IN", "OUT"}
LogSeq   == UNION {[1 .. n -> LogType] : n \in 0 .. MaxLogs}

\* basis: computed, edited by HR, or clamped to an approved time frame.  ot counts
\* approved requests for overtime; what the engine finds in the logs is left out.
Sheet == [row : BOOLEAN, basis : {"auto", "edit", "shift"}, seen : LogSeq,
          ot : Nat, locked : BOOLEAN]
NoSheet == [row |-> FALSE, basis |-> "auto", seen |-> <<>>, ot |-> 0, locked |-> FALSE]

\* new: types of the logs still to be created; at: the last log read; then: what
\* follows a recalculation or the logs; todo: days after this one.
Frame == [d : Day, r : Request, new : Seq(LogType), at : Nat, read : LogSeq, ot : Nat,
          then : {"end", "recalc", "ot"}, todo : SUBSET Day, tries : Nat]
NoFrame == [d |-> CHOOSE d \in Day : TRUE, r |-> CHOOSE r \in Request : TRUE,
            new |-> <<>>, at |-> 0, read |-> <<>>, ot |-> 0, then |-> "end",
            todo |-> {}, tries |-> 0]

\* c: creating a log, r: recalc, d: a decided request, o: overtime, s: a shift's
\* time frame, e: an edit.
LogPc == {"c.insert", "c.enqueue"}
Pc    == LogPc \cup {"idle", "r.lock", "r.logs", "r.write", "d.mark", "d.next",
                      "o.read", "o.write", "s.read", "s.write", "e.write"}

TypeOK ==
  /\ logs \in [Day -> LogSeq]
  /\ sheet \in [Day -> Sheet]
  /\ past \in [Day -> BOOLEAN] /\ swept \in [Day -> BOOLEAN]
  /\ asked \in [Request -> [kind : RequestKind, days : SUBSET Day]]
  /\ queue \subseteq Day \X (1 .. Attempts)
  /\ status \in [Request -> {"none", "PENDING", "APPROVED", "REJECTED"}]
  /\ pc \in [Process -> Pc]
  /\ frame \in [Process -> Frame]
  /\ want \in [Day -> [basis : {"auto", "edit", "shift"}, ot : Nat]]
  /\ given \in [Day -> BOOLEAN]
  /\ raced \in [Day -> SUBSET {"logs", "sheet"}]
  /\ cut \in [Day -> {"no", "early", "late"}]
  /\ fails \in 0 .. MaxFail

NoWant == [basis |-> "auto", ot |-> 0]

Init ==
  /\ logs = [d \in Day |-> <<>>]
  /\ sheet = [d \in Day |-> NoSheet]
  /\ past = [d \in Day |-> FALSE] /\ swept = [d \in Day |-> FALSE]
  /\ queue = {}
  /\ asked \in Mix
  /\ status = [r \in Request |-> "none"]
  /\ pc = [p \in Process |-> "idle"]
  /\ frame = [p \in Process |-> NoFrame]
  /\ want = [d \in Day |-> NoWant]
  /\ given = [d \in Day |-> FALSE]
  /\ raced = [d \in Day |-> {}]
  /\ cut = [d \in Day |-> "no"]
  /\ fails = 0

Goto(p, label) == pc' = [pc EXCEPT ![p] = label]
Step(p, label) == Goto(p, label) /\ UNCHANGED frame
End(p)         == Goto(p, "idle") /\ frame' = [frame EXCEPT ![p] = NoFrame]

\* A process that is idle turns to day d.
Begin(p, d, label, f) ==
  /\ pc[p] = "idle"
  /\ frame' = [frame EXCEPT ![p] = f]
  /\ Goto(p, label)

At(d) == [NoFrame EXCEPT !.d = d]

Lost(d) == queue' = queue
Add(d)  == queue' = queue \cup {<<d, 1>>}

-----------------------------------------------------------------------------
(* Logs. *)

\* Mutant: the default is OUT.
Infer_Swapped(d) == IF logs[d] # <<>> /\ Last(logs[d]) = "OUT" THEN "IN" ELSE "OUT"

\* inferType: the opposite of the last log of the day.
Infer(d) == IF logs[d] # <<>> /\ Last(logs[d]) = "IN" THEN "OUT" ELSE "IN"

\* check and kioskCheck, today only; an employee or a device may give the type.
Check(h, d) ==
  /\ ~ past[d] /\ Len(logs[d]) < MaxLogs
  /\ \E t \in LogType \cup {Infer(d)} :
       /\ Begin(h, d, "c.insert", [At(d) EXCEPT !.new = <<t>>, !.at = Len(logs[d])])
       /\ given' = [given EXCEPT ![d] = @ \/ t # Infer(d)]
  /\ UNCHANGED <<logs, sheet, past, swept, queue, status, want, cut, fails>>

\* createCorrection: HR's own, logs for any time of the day.
HrCorrection(h, d) ==
  /\ \E types \in {<<"IN">>, <<"OUT">>, <<"IN", "OUT">>} :
       /\ Len(logs[d]) + Len(types) <= MaxLogs
       /\ Begin(h, d, "c.insert", [At(d) EXCEPT !.new = types, !.then = "recalc"])
  /\ given' = [given EXCEPT ![d] = TRUE]
  /\ UNCHANGED <<logs, sheet, past, swept, queue, status, want, cut, fails>>

\* createLog: the log takes its place by time, after those the handler had read,
\* unless a reset has deleted them.
CreateLog(h) ==
  LET f == frame[h]
  IN /\ pc[h] = "c.insert"
     /\ IF Len(logs[f.d]) < MaxLogs
        THEN \E n \in 1 .. Len(logs[f.d]) + 1 :
               /\ n > f.at \/ Len(logs[f.d]) < f.at
               /\ logs' = [logs EXCEPT ![f.d] = InsertAt(@, n, Head(f.new))]
        ELSE UNCHANGED logs
     /\ frame' = [frame EXCEPT ![h].new = Tail(f.new)]
     /\ Goto(h, "c.enqueue")
     /\ UNCHANGED <<sheet, past, swept, queue, status, want, given, cut, fails>>

AfterLog(h) ==
  \/ frame[h].new # <<>> /\ Step(h, "c.insert")
  \/ /\ frame[h].new = <<>> /\ frame[h].then = "recalc"
     /\ frame' = [frame EXCEPT ![h].then = "end"] /\ Goto(h, "r.lock")
  \/ frame[h].new = <<>> /\ frame[h].then # "recalc" /\ End(h)

Enqueue(h) ==
  /\ pc[h] = "c.enqueue"
  /\ Add(frame[h].d)
  /\ AfterLog(h)
  /\ UNCHANGED <<logs, sheet, past, swept, status, want, given, cut, fails>>

\* The queue does not answer: enqueueRecalc logs the error and returns.
EnqueueLost(h) ==
  /\ pc[h] = "c.enqueue"
  /\ fails < MaxFail /\ fails' = fails + 1
  /\ Lost(frame[h].d)
  /\ AfterLog(h)
  /\ UNCHANGED <<logs, sheet, past, swept, status, want, given, cut>>

-----------------------------------------------------------------------------
(* recalc. *)

\* Where a recalculation returns to.
AfterRecalc(p) ==
  \/ /\ frame[p].then = "ot"
     /\ frame' = [frame EXCEPT ![p].then = "end"] /\ Goto(p, "o.read")
  \/ frame[p].then # "ot" /\ frame[p].todo # {} /\ Step(p, "d.next")
  \/ frame[p].then # "ot" /\ frame[p].todo = {} /\ End(p)

RecalcLock(p) ==
  /\ pc[p] = "r.lock"
  /\ IF sheet[frame[p].d].locked THEN AfterRecalc(p) ELSE Step(p, "r.logs")
  /\ UNCHANGED <<logs, sheet, past, swept, queue, status, want, given, cut, fails>>

RecalcLogs(p) ==
  /\ pc[p] = "r.logs"
  /\ frame' = [frame EXCEPT ![p].read = logs[frame[p].d]]
  /\ Goto(p, "r.write")
  /\ UNCHANGED <<logs, sheet, past, swept, queue, status, want, given, cut, fails>>

\* The upsert leaves locked as it is.
RecalcWrite(p) ==
  LET d == frame[p].d
  IN /\ pc[p] = "r.write"
     /\ sheet' = [sheet EXCEPT ![d] = [@ EXCEPT !.row = TRUE, !.basis = "auto",
                                                !.seen = frame[p].read, !.ot = 0]]
     /\ AfterRecalc(p)
     /\ UNCHANGED <<logs, past, swept, queue, status, want, given, cut, fails>>

-----------------------------------------------------------------------------
(* HR. *)
Recalc(h, d) ==
  /\ Begin(h, d, "r.lock", At(d))
  /\ UNCHANGED <<logs, sheet, past, swept, queue, status, want, given, cut, fails>>

\* resetDay: logs and sheet go in one transaction, then the day is recalculated.
Reset(h, d) ==
  /\ Begin(h, d, "r.lock", At(d))
  /\ logs' = [logs EXCEPT ![d] = <<>>]
  /\ sheet' = [sheet EXCEPT ![d] = NoSheet]
  /\ want' = [want EXCEPT ![d] = NoWant]
  /\ UNCHANGED <<past, swept, queue, status, given, cut, fails>>

Edit(h, d) ==
  /\ Begin(h, d, "e.write", At(d))
  /\ UNCHANGED <<logs, sheet, past, swept, queue, status, want, given, cut, fails>>

\* applyEdit: computed from what HR typed, and locked.
EditWrite(h) ==
  LET d == frame[h].d
  IN /\ pc[h] = "e.write"
     /\ sheet' = [sheet EXCEPT ![d] = [row |-> TRUE, basis |-> "edit", seen |-> <<>>,
                                       ot |-> 0, locked |-> TRUE]]
     /\ want' = [want EXCEPT ![d] = [basis |-> "edit", ot |-> 0]]
     /\ End(h)
     /\ UNCHANGED <<logs, past, swept, queue, status, given, cut, fails>>

-----------------------------------------------------------------------------
(* Requests and their listeners. *)

\* A request is filed; its approval is the engine's affair.
File(r) ==
  /\ status[r] = "none"
  /\ status' = [status EXCEPT ![r] = "PENDING"]
  /\ UNCHANGED <<logs, sheet, past, swept, queue, pc, frame, want, given, cut, fails>>

RequestCorrection(r) == asked[r].kind = "CORRECTION" /\ File(r)
RequestOt(r)         == asked[r].kind \in OtKind     /\ File(r)
Upload(r)            == asked[r].kind \in BatchKind  /\ File(r)

\* The listeners act on a request that waits.
Rejected(r) ==
  /\ status[r] = "PENDING"
  /\ status' = [status EXCEPT ![r] = "REJECTED"]
  /\ UNCHANGED <<logs, sheet, past, swept, queue, pc, frame, want, given, cut, fails>>

Approved(h, r) ==
  /\ status[r] = "PENDING"
  /\ \E d \in asked[r].days :
       Begin(h, d, "d.mark", [At(d) EXCEPT !.r = r, !.todo = asked[r].days])
  /\ UNCHANGED <<logs, sheet, past, swept, queue, status, want, given, cut, fails>>

OnCorrectionDecided(h, r) == asked[r].kind = "CORRECTION" /\ (Approved(h, r) \/ Rejected(r))
OnOtDecided(h, r)         == asked[r].kind \in OtKind     /\ (Approved(h, r) \/ Rejected(r))
OnBatchDecided(h, r)      == asked[r].kind \in BatchKind  /\ (Approved(h, r) \/ Rejected(r))

\* What an approved request makes of a day.
Wanted(k, w) ==
  CASE k \in {"OVERTIME", "SEPARATE_OT"}            -> [w EXCEPT !.ot = @ + 1]
    [] k \in {"SHIFT_SHIFT", "CLAMP_TO_REGISTERED"} -> [basis |-> "shift", ot |-> 0]
    [] OTHER                                        -> w

\* The request is marked before anything is applied.
Mark(h) ==
  LET r == frame[h].r
  IN /\ pc[h] = "d.mark"
     /\ status' = [status EXCEPT ![r] = "APPROVED"]
     /\ want' = [d \in Day |-> IF d \in asked[r].days THEN Wanted(asked[r].kind, want[d]) ELSE want[d]]
     /\ Step(h, "d.next")
     /\ UNCHANGED <<logs, sheet, past, swept, queue, given, cut, fails>>

\* applyCorrection, applyApprovedOt, applyShiftAdjustment, or applyShiftVariant for
\* the lines of a batch one after the other.
Apply(h) ==
  LET r == frame[h].r
      next(d, label, then) ==
        /\ frame' = [frame EXCEPT ![h] = [@ EXCEPT !.d = d, !.todo = frame[h].todo \ {d}, !.then = then]]
        /\ Goto(h, label)
        /\ UNCHANGED given
  IN /\ pc[h] = "d.next"
     /\ \E d \in frame[h].todo :
          \/ asked[r].kind \in {"OVERTIME", "SEPARATE_OT"} /\ next(d, "r.lock", "ot")
          \/ asked[r].kind \in {"SHIFT_SHIFT", "CLAMP_TO_REGISTERED"} /\ next(d, "s.read", "end")
          \/ asked[r].kind = "XUONG_CA" /\ next(d, "r.lock", "end")
          \/ /\ asked[r].kind = "CORRECTION"
             /\ \E t \in LogType :
                  frame' = [frame EXCEPT ![h] = [@ EXCEPT !.d = d, !.todo = frame[h].todo \ {d},
                                                         !.new = <<t>>, !.then = "recalc"]]
             /\ Goto(h, "c.insert")
             /\ given' = [given EXCEPT ![d] = TRUE]
     /\ UNCHANGED <<logs, sheet, past, swept, queue, status, want, cut, fails>>

OtRead(h) ==
  /\ pc[h] = "o.read"
  /\ frame' = [frame EXCEPT ![h].ot = sheet[frame[h].d].ot]
  /\ Goto(h, "o.write")
  /\ UNCHANGED <<logs, sheet, past, swept, queue, status, want, given, cut, fails>>

NextLine(h) == IF frame[h].todo # {} THEN Step(h, "d.next") ELSE End(h)

\* Mutant: the day is left open to recalculation.
OtWrite_Unlocked(h) ==
  LET d == frame[h].d
  IN /\ pc[h] = "o.write"
     /\ sheet' = [sheet EXCEPT ![d] = [@ EXCEPT !.row = TRUE, !.ot = frame[h].ot + 1]]
     /\ NextLine(h)
     /\ UNCHANGED <<logs, past, swept, queue, status, want, given, cut, fails>>

OtWrite(h) ==
  LET d == frame[h].d
  IN /\ pc[h] = "o.write"
     /\ sheet' = [sheet EXCEPT ![d] = [@ EXCEPT !.row = TRUE, !.ot = frame[h].ot + 1,
                                                !.locked = TRUE]]
     /\ NextLine(h)
     /\ UNCHANGED <<logs, past, swept, queue, status, want, given, cut, fails>>

ShiftRead(h) ==
  /\ pc[h] = "s.read"
  /\ frame' = [frame EXCEPT ![h].read = logs[frame[h].d]]
  /\ Goto(h, "s.write")
  /\ UNCHANGED <<logs, sheet, past, swept, queue, status, want, given, cut, fails>>

ShiftWrite(h) ==
  LET d == frame[h].d
  IN /\ pc[h] = "s.write"
     /\ sheet' = [sheet EXCEPT ![d] = [row |-> TRUE, basis |-> "shift", seen |-> frame[h].read,
                                       ot |-> 0, locked |-> TRUE]]
     /\ NextLine(h)
     /\ UNCHANGED <<logs, past, swept, queue, status, want, given, cut, fails>>

-----------------------------------------------------------------------------
(* The worker and the cron. *)
WorkerTake ==
  \E job \in queue :
    /\ Begin(Worker, job[1], "r.lock", [At(job[1]) EXCEPT !.tries = job[2]])
    /\ queue' = queue \ {job}
    /\ UNCHANGED <<logs, sheet, past, swept, status, want, given, cut, fails>>

WorkerFail ==
  LET f == frame[Worker]
  IN /\ pc[Worker] # "idle"
     /\ fails < MaxFail /\ fails' = fails + 1
     /\ queue' = IF f.tries < Attempts THEN queue \cup {<<f.d, f.tries + 1>>} ELSE queue
     /\ End(Worker)
     /\ UNCHANGED <<logs, sheet, past, swept, status, want, given, cut>>

DayEnds(d) ==
  /\ ~ past[d]
  /\ past' = [past EXCEPT ![d] = TRUE]
  /\ UNCHANGED <<logs, sheet, swept, queue, status, pc, frame, want, given, cut, fails>>

\* The cron runs half an hour after midnight: no check-in is under way any more.
Settled(d) ==
  past[d] /\ \A h \in Handler : pc[h] \in LogPc /\ frame[h].d = d => frame[h].then = "recalc"

\* Mutant: only days without a sheet are swept.
Sweep_Missing(d) ==
  /\ Settled(d) /\ ~ swept[d]
  /\ swept' = [swept EXCEPT ![d] = TRUE]
  /\ IF sheet[d].row THEN UNCHANGED <<pc, frame>> ELSE Begin(Cron, d, "r.lock", At(d))
  /\ UNCHANGED <<logs, sheet, past, queue, status, want, given, cut, fails>>

\* markAbsentYesterday: every day is recalculated once, on the night after it.
Sweep(d) ==
  /\ Settled(d) /\ ~ swept[d]
  /\ Begin(Cron, d, "r.lock", At(d))
  /\ swept' = [swept EXCEPT ![d] = TRUE]
  /\ UNCHANGED <<logs, sheet, past, queue, status, want, given, cut, fails>>

\* The error is logged and the cron goes on to the next employee.
SweepFail ==
  /\ pc[Cron] # "idle"
  /\ fails < MaxFail /\ fails' = fails + 1
  /\ End(Cron)
  /\ UNCHANGED <<logs, sheet, past, swept, queue, status, want, given, cut>>

-----------------------------------------------------------------------------
Days(p) == IF pc[p] = "idle" THEN {} ELSE {frame[p].d} \cup frame[p].todo

\* A handler ends between two writes.
Fail(h) ==
  /\ pc[h] # "idle"
  /\ fails < MaxFail /\ fails' = fails + 1
  /\ cut' = [d \in Day |-> IF d \notin Days(h) THEN cut[d]
                           ELSE IF swept[d] THEN "late" ELSE "early"]
  /\ End(h)
  /\ UNCHANGED <<logs, sheet, past, swept, queue, status, want, given>>

Start(h, d) == Check(h, d) \/ HrCorrection(h, d) \/ Recalc(h, d) \/ Reset(h, d) \/ Edit(h, d)

Resume(p) ==
  \/ CreateLog(p) \/ Enqueue(p) \/ EnqueueLost(p)
  \/ RecalcLock(p) \/ RecalcLogs(p) \/ RecalcWrite(p)
  \/ EditWrite(p) \/ Mark(p) \/ Apply(p)
  \/ OtRead(p) \/ OtWrite(p) \/ ShiftRead(p) \/ ShiftWrite(p)

\* Which processes are creating logs of d, and which may write its sheet.
Logging(d)   == {p \in Process : pc[p] \in LogPc /\ frame[p].d = d}
Computing(d) == {p \in Process : pc[p] \notin LogPc \cup {"idle"} /\ d \in Days(p)}

\* A reset deletes the logs of d while one is being created.
Torn(d) == Logging(d) # {} /\ Len(logs'[d]) < Len(logs[d])

Actions ==
  \/ \E h \in Handler, d \in Day : Start(h, d)
  \/ \E r \in Request : RequestCorrection(r) \/ RequestOt(r) \/ Upload(r)
  \/ \E h \in Handler, r \in Request :
       OnCorrectionDecided(h, r) \/ OnOtDecided(h, r) \/ OnBatchDecided(h, r)
  \/ \E p \in Process : Resume(p)
  \/ WorkerTake \/ WorkerFail
  \/ \E d \in Day : DayEnds(d) \/ Sweep(d)
  \/ SweepFail
  \/ \E h \in Handler : Fail(h)

Next ==
  /\ Actions /\ UNCHANGED asked
  /\ raced' = [d \in Day |-> raced[d]
                 \cup (IF Cardinality(Logging(d)') > 1 \/ Torn(d) THEN {"logs"} ELSE {})
                 \cup (IF Cardinality(Computing(d)') > 1 THEN {"sheet"} ELSE {})]

Spec == Init /\ [][Next]_vars

-----------------------------------------------------------------------------
\* No handler, worker or cron is at work on d, none overlapped on its sheet, and no
\* handler was cut short.
Calm(d) == "sheet" \notin raced[d] /\ cut[d] = "no" /\ \A p \in Process : d \notin Days(p)

\* What HR or an approval made of a day stays, overtime added up, whatever is logged,
\* queued, retried or swept afterwards (applyEdit, applyApprovedOt, the lock).
SheetAsDecided ==
  \A d \in Day :
    Calm(d) /\ want[d] # NoWant =>
      sheet[d].locked /\ sheet[d].basis = want[d].basis /\ sheet[d].ot = want[d].ot

\* Inferred check-ins alternate, starting with IN, if nothing overlapped one (inferType).
Alternates ==
  \A d \in Day :
    ~ given[d] /\ "logs" \notin raced[d] =>
      \A k \in 1 .. Len(logs[d]) : logs[d][k] = IF k % 2 = 1 THEN "IN" ELSE "OUT"

\* A day the cron has passed, with no recalculation waiting or under way, shows all
\* its logs or is locked: the queue with its retries and the cron make up for a job
\* lost, a job failed or a crash; not for a crash after the cron, nor for
\* recalculations that overlapped.
LogsShown ==
  \A d \in Day :
    /\ swept[d] /\ (\A n \in 1 .. Attempts : <<d, n>> \notin queue)
    /\ \A p \in Process : d \notin Days(p)
    /\ cut[d] # "late" /\ "sheet" \notin raced[d]
    => sheet[d].seen = logs[d] \/ sheet[d].locked
=============================================================================
