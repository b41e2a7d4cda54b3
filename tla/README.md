# core-hrm: a TLA+ model, its checks and its proofs

core-hrm is a human-resources application: a NestJS API (`apps/api`) over PostgreSQL
(Prisma), Redis and BullMQ, a Next.js client (`apps/web`) and shared schemas
(`packages/shared`). This directory holds TLA+ modules translated from the API's source,
TLC configurations that model-check them on small instances, and theorems that TLAPS
proves for every value of the constants.

Paths below are relative to `apps/api/src/modules/` unless they start with `apps/`,
`packages/` or name a document at the root of the repository.

## 1. The system

One API process serves all requests (`DEPLOYMENT.md:247`). JavaScript runs one
callback at a time, but every `await` of a database, Redis or queue call lets other
request handlers run; the BullMQ workers live in the same process and interleave with them
in the same way. PostgreSQL runs each Prisma call as one transaction; only
`prisma.$transaction` joins several. Events (`@nestjs/event-emitter`, `emitAsync`) run the
listeners of other services inside the handler that emits them.

So the unit of atomicity is one call, and nearly every handler has the shape *read a row;
check it; await; write a row by id*. What the handler read may be out of date when it
writes, and an exception or a restart may leave a prefix of its writes behind. That is
where the hard behaviour of this system is.

### Inventory

| component | state | operations | what makes it correct |
|---|---|---|---|
| **Approval engine** `approval/approval.service.ts` | `ApprovalInstance` (snapshot of steps, current step, status), `ApprovalAction` (audit trail) | `createInstance`, `decide`, `cancelByTarget`, event `approval.decided` | no request takes effect before every step that has an approver signed, in order, by who may; a closed instance stays closed; each decision reaches its owner |
| Approver resolution, flow selection `approval-resolver`, `approval.conditions`, `approval-flow` | `ApprovalFlow`, steps, conditions | pick the first matching flow; walk the organisation tree for an approver | the nearest unit of a type; nobody approves for himself |
| **SLA reminder** `approval-sla.service.ts` | `slaRemindedAt` | cron every 30 minutes | one reminder for each overdue step |
| **Leave requests** `leave/leave.service.ts` | `LeaveRequest`, ledger `LeaveBalanceEntry` | `createRequest`, `cancelRequest`, `getBalance`, `adjustBalance`, listener | ledger agrees with status; balance never overdrawn; no two requests share a day; the timesheet shows what was approved |
| **Leave accrual, day counting** `leave-config.service.ts`, `leave.engine.ts` | policies, ledger entries ACCRUAL | monthly cron, pure day arithmetic | each employee gets what the policy owes, once; half days counted right |
| **Timesheet** `attendance/timesheet.service.ts`, `timesheet.engine.ts`, `queues/timesheet.queue.ts` | `TimesheetDay`, queue of (employee, day) | queue, worker `recalc`, nightly cron, lock, manual edit, approved overtime | a day converges to what logs, shifts and leaves say; a locked day does not move |
| **Attendance** `attendance.service.ts` | `AttendanceLog`, corrections, overtime requests | check-in, kiosk, corrections, overtime, listener | IN and OUT alternate; approved minutes are counted once |
| **Shift registration** `shift-registration/` | batches and lines | upload, listener | an approved line is applied and stays |
| **Payroll runs** `payroll/payroll-runs.service.ts`, `payroll-calc.service.ts` and worker | `PayrollRun`, `Payslip`, queue | `create`, `calculate`, `submit`, `pay`, `remove`, listener, worker | nothing paid that was not calculated and approved; a paid run is locked |
| **Payroll engine** `payroll-engine.service.ts` | none (pure) | progressive tax, insurance caps, net pay | lines add up; tax by bracket |
| Payroll configuration, salaries, benefits, payslips | rows by date of effect | create, update, delete | the row in force in the month is used |
| **Sessions** `sessions/sessions.service.ts`, guard `common/guards/jwt-auth.guard.ts` | `Session`, Redis blocklist `revoked:{id}` | create, rotate, revoke one or all, cleanup cron, guard | a revoked session is refused at once; a refresh token works once; replay is recognised |
| **Authentication** `auth/*.ts` | users, one-time codes, lockout counters, recovery codes | login, refresh, logout, 2FA, password changes | a code is used once; attempts are bounded, where the code counts them |
| **Permission cache** `rbac/permissions-cache.service.ts`, guard `permissions.guard.ts` | Redis keys with a 60 s lifetime | read through, invalidate | a permission taken away is not served |
| **Users, roles** `users/`, `roles/` | `User`, `Role`, `UserRole`, `RolePermission` | status, role assignment, permissions of a role, removal | at least one super admin; a banned user is out |
| **Recruitment** `recruitment/` | manpower requests, requisitions, offers, candidates, interviews | submit, send, accept, decline, cancel | one employee per accepted offer; nothing sent or opened unsigned |
| **Training** `training/` | classes, enrolments, certificates | register, cancel, listener | capacity respected |
| **Performance** `performance/` | reviews, goals, 360 rounds | submit, sign-off, rate, close, listener | a review waits only for an open sign-off; a closed round does not move |
| **Contracts** `contracts/`, `removeContract` of `employees/` | `EmploymentContract` | create, update, terminate, remove, delete, daily cron | a terminated contract stays so; no contract is in force past its end |
| **Units** `org-structure/` | `OrgUnit` with its path | create, move, remove; climbs and scopes by path | paths match parents |
| Employees, organisations, schedule, overtime policies | master data, shifts, calendars, caps | edits and lookups | lookups by path find the nearest |
| Face recognition, notifications, gateway, mail, audit, reports, attachments, web client | -- | input and output | -- |

**Interactions.** Leave, payroll, attendance, shift registration, recruitment, training and
performance all *call* `ApprovalService.createInstance`, and *listen* to
`approval.decided`. Leave and attendance *enqueue* timesheet days; payroll *enqueues*
calculations and *reads* timesheet and leave rows. Every request *reads* the blocklist (guard)
and the permission cache. Cancelling from the owner's side *calls* `cancelByTarget`. An
accepted offer *creates* an employee; users and roles *revoke* sessions and *invalidate* the
permission cache.

**What is hard.** Stale read-then-write on approval rows and on the owners' rows; decisions
that arrive between an owner's `createInstance` and its own status write; listeners that run
inside `createInstance`; workers and crons that act on what they read minutes before; the two
stores of a session or a permission (database, Redis) written one after the other; checks by
count before an insert; crashes between any two writes. `PROJECT.json` lists each at its line
under `hazards`, with the properties that are about it.

## 2. Modules

| module | models | proved in |
|---|---|---|
| `SignOff` | abstract: what the approval engine promises to the owner of a request; `LeaveApproval` implements it | `LeaveProofs` |
| `ApprovalEngine` | `approval.service.ts` | `ApprovalEngineProofs` |
| `LeaveApproval` | `leave.service.ts` over the engine, with the timesheet queue and worker as far as leave goes | `LeaveProofs` |
| `LeaveApprovalInv` | its inductive invariants: `IInv`, and `SerialInv` and `CoveredInv` for one handler at a time | `LeaveProofs` |
| `PayrollRun` | `payroll-runs.service.ts`, `payroll-calc.service.ts` and its queue, over the engine | `PayrollRunProofs` |
| `DocumentFlow` | the part that offers, manpower requests, enrolments and reviews share: submit over the engine, status write, listener | `DocumentsProofs` |
| `Documents` | `offers`, `manpower-requests`, `job-requisitions`, `training-enrollments`, `performance-reviews`, `feedback360` services over `DocumentFlow` | `DocumentsProofs` |
| `Timesheet` | `attendance.service.ts`, `timesheet.service.ts` with queue, worker and cron, `shift-registration.service.ts` | `TimesheetProofs` |
| `Sessions` | `sessions.service.ts`, the callers in `auth.service.ts` and `users.service.ts`, the guard | `SessionsProofs` |
| `Access` | `permissions-cache.service.ts`, `permissions.guard.ts`, `users.service.ts`, `roles.service.ts` | `AccountsProofs` |
| `Codes` | `otp.service.ts`, `login-lockout.service.ts`, and register, login and second factor of `auth.service.ts` | `AccountsProofs` |
| `OrgTree` | `org-units.service.ts` and every climb or scope by path | `EnginesProofs` |
| `LeaveAccrual` | the accrual cron of `leave-config.service.ts`, quotas of `leave.engine.ts` | `LeaveProofs` |
| `Payslip` | `payroll-engine.service.ts` over salaries and benefits | `EnginesProofs` |
| `DayCount` | `timesheet.engine.ts`, `leaveDaysCount` | `EnginesProofs` |
| `SlaReminder` | `approval-sla.service.ts` beside `decide` | `EnginesProofs` |
| `ContractTerm` | `contracts.service.ts`, `contract-reminder.service.ts`, `removeContract` of `employees.service.ts` | `EnginesProofs` |
| `Rounding` | rounding to a hundredth and to a unit | -- |
| `MC...` | values of constants for TLC; `MCAccounts` and `MCEngines` put modules that share no state side by side, one behaviour being about one of them (its *scene*) | |

### ApprovalEngine

One row per instance: status, target, current step, approvers of each step as the snapshot
holds them, decisions recorded. A handler is a program counter and a frame (its locals).
`decide` is three steps, one per call: `DecideRead` (the checks), `DecideAct` (insert of the
`ApprovalAction`) and the update, which is `DecideReject`, `DecideApprove` or `DecideForward`
according to the decision and the next active step *computed from the frame*. After an update
that closes the instance the handler stands at `emit`: the next step is the owner's listener.
`createInstance` is one step from the point of view of others, since it reads nothing that
others change but the uniqueness of the pending row, which the database enforces by a partial
unique index (`PendingKeyFree`); the same index refuses the update of `DecideForward` when
another row of the target is pending. The resolver's answer is any function from steps to
`Resolution`; the requester is taken out and empty steps are skipped, as in the code.
`cancelByTarget` reads ids and then updates with the same condition; the ids serve only
notifications, so one conditional update stands for both. Notifications, socket events,
comments, delegation texts and the audit log are left out.

### LeaveApproval

One employee, one balance, requests `Target`. `createRequest` is `CreateCheck` (validation
and the overlap query), `CreateReadEntries` and `CreateReadPending` (the two queries of
`getBalance`, skipped for unpaid types and policies that allow a negative balance),
`CreateInsert`, `CreateApproval`. `cancelRequest` is `CancelRead`, `CancelInstance`,
`CancelRevert`, `CancelRecalc`, `CancelUpdate`, the middle ones only for an approved request.
`onApprovalDecided` is `ListenRead`, then `ListenReject`, or `ListenApprove` (one transaction:
status and USAGE entry) and `ListenRecalc`. The worker leaves a day that is locked, or else reads its leaves
(`WorkerRead`), and later upserts the day (`WorkerWrite`). `LockDay` is HR at work on the sheet: an
edit, approved overtime or a shift change locks the day and shows it as worked, as it was or as its leaves say.

Abstractions: amounts are half days; the year of a balance is left out (one year); the days
of a request stand for its calendar days in the overlap check and for its working days in the
timesheet, so weekends are not represented here (`DayCount` has them); the queue is a set of days,
because a job is `recalc(employee, day)`, which is idempotent, and the worker's concurrency is 1;
a day shows only whether it is ON_LEAVE, and whether it is locked. `recalc` reads the lock and the leaves in two
queries, which are one step here; `Timesheet` has them apart, with the steps of an edit and the reset that unlocks
a day, but without leave. `Lockable` says which days are locked in a run. `createInstance` without any flow throws: that is `Fail`,
which ends a handler between two calls and is bounded by `MaxFail`; it leaves a PENDING
request without an instance (`leave.service.ts:253`). A failed job goes back to the
queue (attempts: 3), bounded by the same constant. Not modelled: `adjustBalance`, loss of an
enqueue error.

### PayrollRun

Runs of one month. `calculate` is a status check and an enqueue; `submit` is read,
`createInstance` (approved at once, pending, no flow, or refused because one is pending) and
the update; `pay` and `remove` follow the code; the listener runs either after `decide` or
inside `submit`. The worker takes a job and checks the status (`WorkerTake`), and at the end
replaces payslips and sets CALCULATED (`WorkerFinish`), whatever the status has become.
Money is left out: `calc` numbers the calculation the payslips come from. A failed job is
retried (attempts: 2). The queue counts jobs, since two calculations of a run are two jobs.

### DocumentFlow and Documents

A target is an offer, a manpower request, an enrolment, a review or a 360 round, fixed in
`Init` (`kind`). `DocumentFlow` has what they share: `Route` (createInstance and what the
service makes of its answer), the status update that follows it, the refusals and the listener
(`Listen`), each with the statuses of its kind. `Documents` has each service's own
operations: an offer is edited, submitted, sent by its approval, accepted (`AcceptHire` creates the
employee, `AcceptUpdate` is the transaction that marks the offer) or declined; a manpower request
is cancelled, or opens a requisition; an enrolment counts seats (`EnrolRead`) and is
registered, enrolled by HR, updated or cancelled; a review is scored by the employee, then the
manager, then signed off; a round collects ratings and is closed. `terms` is what is approved (salary,
score, rating), `ctx` what an approval was asked for, `free` whether a document owes no signature, `revived` whether HR gave an enrolment its seat by writing
a status, which asks for no capacity,
`raced` whether requests about it overlapped or one failed. NO_SHOW and ATTENDED are folded into
CANCELLED and CONFIRMED. The account that `employees.create` makes for a new employee is left out:
its failure leaves an employee without one.

### Timesheet

Days of one employee. `Check` and `CreateLog` are the check-in with its inferred type;
`HrCorrection` and approved corrections add logs whose type is given. `recalc` is three steps:
`RecalcLock` (is the day locked?), `RecalcLogs` (the reads) and `RecalcWrite` (the upsert), for
a handler, the worker or the cron. `Edit` and approved overtime, shift changes and the lines of a batch
(`Apply`, `OtRead`, `OtWrite`, `ShiftRead`, `ShiftWrite`) set a sheet and lock it. A job has
its attempts; an enqueue may be lost (`EnqueueLost`); `Sweep` is the nightly cron. What a sheet
shows is the logs it was computed from and approved minutes of overtime. Left out: overtime
computed from logs (0), `assertCheckoutAllowed`, leave (in `LeaveApproval`), faces and places.
`Sweep` waits for check-ins under way: they last seconds, the cron runs at night.
`reset` deletes all logs of a day; a check-in or a correction that read them before goes on and inserts
its log all the same, where its time of day puts it, and the logs are then marked *raced*
(`Torn`), since an OUT may be left without its IN.

### Sessions

Sessions of one user. A row is active, revoked for a reason, or deleted. Each session has a
refresh token (known by its id; `expired` says whether it has run out) and an access token
naming it. `revokeSession` is `Revoke` (conditional update) and `Block` (the Redis pipeline);
`revokeAllForUser` is `Find`, `EndAll`, `Block`, where `EndAll` revokes what is active *then*
and `Block` blocklists the ids found *before*; `rotate` is a revocation and then
`CreateSession` whatever the revocation did; `Sign` signs the access token. `refresh` chooses
by the row it reads. Reasons other than ROTATED and TOKEN_REUSE are one value, `ENDED`: refresh
tells no more apart. BANNED stands for INACTIVE as well.

Time: an access token lapses, a refresh token expires (weeks later, so its access token has lapsed
by then), a blocklist key lapses. The key's lifetime is the token's plus 60 s, so a key is dropped
only after the token it keeps out; this assumes that a token is signed within 60 s of its row. The
cron deletes rows whose token expired a week ago. Devices, trusted devices, socket events and the
removal of a user are left out; so is an outage of Redis, in which the guard lets tokens through.
History variables: `parent` (what a session was rotated from), `met` and `raced` (whether
the handler that created a session was overlapped by another).

### Access

`GuardHit` answers from the cache; on a miss the guard reads the database (`Read`) and later
writes the key (`Fill`). `Lapse` is the lifetime. A change is read and checked (`UpdateStatus`,
`AssignRoles`, `RemoveUser`, `SetPermissions`, `RemoveRole`), counts super admins where the code does
(`Count`), writes, looks for the users concerned (`Find`) and deletes their keys (`Del`);
`RolesService.remove` does it the other way round, as the code does. A failure ends a handler at
any step. One permission stands for all; the nested select of `getUserAccess` is one read; roles of other
organisations are left out; the sessions that `updateStatus` and `remove` revoke are in `Sessions`.
`late` and `skewed` record what was read, written or counted beside another change.

### Codes

One user. `IssueConsume` and `IssueCreate` are the two calls of `issue`; `Verify` reads the newest code,
then `VerifyRight` or `VerifyWrong`, `Miscount`, `Consume`. Login is `Login`, `PasswordRight` or
`AnswerWrong`; the second factor `Verify2fa`/`TotpRight` and `Recovery2fa`/`RecoveryRight`/`Spend`;
`FailIncr`, `FailExpire`, `FailLock` are the three Redis calls of a failure. The user has an e-mail or, as
`schema.prisma:30-33` has it, a username instead (`email`, chosen in `Init`), and types that to log in. So the lockout has one
key for the passwords and second factors of a user with an e-mail; of a user without one it counts the passwords
under the username, and his second factors under nothing, neither locked nor counted (`Keyed`,
`login-lockout.service.ts:31` and `46`). `tries` and `misses` count wrong passwords and wrong second factors apart. A guess is right or wrong;
an older live code counts as wrong until the newer one is consumed. The codes of
password resets and invitations use the same service and are left out, like Google sign-in and the
enabling of 2FA.

### OrgTree, LeaveAccrual, Payslip, DayCount, SlaReminder, ContractTerm

Each pairs operations of the code with a reference that says the same in another way.
`OrgTree`: create, move and remove put paths together from what they read; the reference
goes by parents: the units at or above a unit are the least set that has it and the parents of its members. The statements of a transaction are one step; codes are left out. `LeaveAccrual`: a
year of the cron, on any number of servers, although one runs today (`DEPLOYMENT.md:247`); nobody joins after that year; the policy and each employee's dates are chosen in `Init`; days
are hundredths. `Payslip`: salaries by date, a benefit with its span, overtime, and `compute` in
small money units, with exact products where the code has doubles; a loop of `compute` is a recursive
function over its rounds. `DayCount`: logs arrive in
any order; the reference counts minute by minute. `SlaReminder`: the cron's read, the reminder and the
mark interleave with the time stamp and the update of `decide`, decisions coming one at a time;
skipped steps are left out. `ContractTerm`: the cron's list, update and reminder interleave with HR's
operations; a run may break off, and days may pass without a run. HR writes any status of
`contractStatusSchema`. The run reads with its list whether there is anybody to tell of a contract (`reach`: HR
accounts of the organisation, the account of the manager), and skips it if not; if the row of a contract was deleted
meanwhile (`EraseContract`), the update throws and the run ends there (`RemindThrows`). HR's operations carry
nothing from their checks to their update but that the row exists, so each is one step.

## 3. Runs

All runs use two workers and finish in under five minutes.

| run | instance | shows |
|---|---|---|
| `leave_concurrent` | 1 request, 2 steps, 3 users (requester, manager, overrider), 2 handlers, no failure, a day HR may lock | the engine's safety (`ChainComplete`, `InOrder`, `Entitled`, `AuditBacked`) under every interleaving of two handlers; `SignOff` is implemented (`KeepsPromise`); a decision takes effect and an approved leave is shown on a day that is not locked (liveness) |
| `leave_serial` | 3 requests on a balance of 3: r1 and r2 share a day and fit the balance (2 + 1), r1 and r3 share none and do not fit (2 + 2); 1 step, 1 handler, 1 failure, no locks | ledger against status, balance, overlap, closed stays closed: properties of requests handled one after the other |
| `payroll` | 2 runs of a month, 2 instances, 1 step, 1 handler and the worker, 2 calculations, 1 failure | `PaidNeedsChain`, `WaitsForSomeone`, and that a calculation asked for is done |
| `documents` | 1 document of each kind by itself, or a class of 3 enrolments with 1 seat; 2 instances, 1 step, 2 handlers, 1 failure, 2 terms | nothing takes effect unsigned (`EffectNeedsChain`); `OpenIffWaiting`, `AsSigned`, `HiredOnce`, `FrozenOnceClosed` of documents whose requests did not overlap; `SeatsBounded`: whoever enrols, with an approval or without, a class holds fewer than its capacity and the handlers, but for seats given by writing a status |
| `timesheet` | 1 day with 2 logs and a request of each kind, or a batch of 2 days; 2 handlers, worker, cron, 1 failure | what was decided stays (`SheetAsDecided`), check-ins alternate, and every log is shown in the end of a night (`LogsShown`) |
| `sessions` | 3 sessions, 2 handlers, 1 failure or token that runs out, symmetry | `NeverBoth`, `BlockedIsRevoked` under every interleaving; `RevokedIsRefused`, `BannedIsOut`, `OneSuccessor` for sessions whose creation nothing overlapped |
| `accounts` | scene *administration*: 2 users, 2 roles, 2 handlers, 2 changes, 1 failure; scenes *mail*, *login* and *username*: 2 codes, 1 recovery code, limits of 2, 2 handlers, 1 failure | `CacheFresh`, `AdminRemains`, `RevocationTakesEffect`; `OnceUnlessContested`, `LiveCodesBounded`, `GuessesLimited` |
| `engines` | one scene each: 2 editors of 3 units, 5 edits; a year of accrual, 2 employees, 2 servers, 1 crash; 3 months of pay; a day of 3 logs; a calendar of 4 days; a chain of 2 steps over 5 hours, 1 failure; 2 contracts, open or ending on the second of 3 days, with a notice and a reminder on that day, 1 failure, symmetry | each calculation agrees with its reference (`PathsTellTheTree`, `GrantsMatch`, `PayslipAdds`, `DaysCounted`), each overdue step is reminded once (`EachStepReminded`), the cron moves only contracts in force and all that are due, and reminds of each that somebody can be told of (`TermKept`) |
| `leave_cancel_sheet` | 1 request, 1 step, 1 handler | violates `SheetFollowsLeave` |
| `leave_reject_race` | 1 request, 1 step, 2 handlers | violates `RejectedNotDeducted` |
| `payroll_lock` | 1 run, 1 handler and the worker | violates `PaidLocked` |
| `offer_stuck` | as `documents` | violates `OfferReachesCandidate` |

**Why the bounds are enough.** Two steps and two instances of `decide` are the least with which
a decision can overtake another within a chain; a third handler repeats what one of the two can do,
and the theorems of section 5 remove the bound for most safety properties. The users are one
of each kind the code tells apart. Resolutions are: nobody (skipped), the requester himself
(taken out, then skipped) and the manager. In `leave_serial` the overlap check
alone keeps r1 and r2 apart and the balance check alone keeps r1 and r3 apart, so that
neither hides the other; a chain of one step is enough, since its properties are about the
request and not about the chain, which `leave_concurrent` covers. Two runs are needed for a month
to be removed and created again; two calculations for one to overtake another's run; two instances
for a run or a document to be resubmitted after a refusal. Documents of different kinds share no
row, so each is explored alone; a class with one seat needs three enrolments for one
too many beside one that was cancelled, and `ClassBound` follows it only while one approval is
needed, no more than two enrolments owe none and one was given its seat by a status, and nothing fails or is completed
(`ClassNearlyFits` has no such bounds). In `timesheet`, two logs are the least
with an IN and an OUT; `Bound` lets two processes be at work at once and does not follow a day on which
recalculations have overlapped, of which the properties say nothing. Three sessions are needed for two successors
of one; one event suffices for each hazard listed, since what follows from a token that ran
out (its blocklist key lapses, its row is deleted) is not counted against the bound. Two changes
in `accounts` are the least that can overlap; limits of two have a state before, at and after the
limit. Three units make a chain in which a cycle can close and a scope can contain another; five edits
are three creations and two moves. The accrual policies, dates, brackets, shifts and break windows are one of
each kind the code tells apart, on and beside its boundaries. A contract's notice is its last
day instead of thirty, and it is reminded of on that day; contracts share nothing but the list of a run, so two
are enough for a run that breaks off, or throws, between them; three days are one before, on and after the end.
In `accounts` the user has an e-mail in the scenes *mail* and *login*, and none in the
scene *username*. `Permutations` of sessions, contracts, employees
and handlers is sound: no definition distinguishes them, and the runs that use it check no liveness.

**Type invariants** are not among the runs' properties. Those of `LeaveApproval`, `PayrollRun`,
`Documents`, `Timesheet`, `Sessions` and `Access` are theorems, and those of `Codes`, `SlaReminder`,
`ContractTerm`, `OrgTree`, `LeaveAccrual`, `DayCount` and `Payslip` are part of the proofs of section 5. `ReasonKept` and `CalculatedFirst` are theorems and not in
a run either.

**Properties of requests that do not overlap.** `LedgerMatchesStatus`, `BalanceCovered`, `NoOverlap`,
`ClosedStaysClosed` and `WaitsForSomeone` are checked with one handler at a time. With two they do
not hold: the code checks in queries before the insert, without a constraint, and updates by id.
Elsewhere two handlers run and a history variable marks what they did beside each other:
`raced` in `Documents` (`OpenIffWaiting`, `AsSigned`, `HiredOnce`, `FrozenOnceClosed`), `Timesheet` and
`Sessions` (two refreshes that read the same row both get a session; a session created between the
queries of `revokeAllForUser` escapes the blocklist), `late` and `skewed` in
`Access`, `contested` in `Codes`, `stale` in `OrgTree`, `silenced` in `SlaReminder`, `beside` in
`ContractTerm`. A property that reads such a mark says that the *only* way to break the promise
is the overlap it names; what then happens is in section 6. The repository
promises no more than that, except where section 6 quotes it. `LedgerMatchesStatus` further asks
for `fails = 0`: a crash in the middle of `cancelRequest` leaves a REVERT without CANCELLED; and
`RevokedIsRefused` and `BannedIsOut` for no failure, since a crash before `Block` leaves
tokens valid.

**Deadlock** is not checked: users owe the system nothing, and each instance has only so
many requests, runs or sessions, after which it stops.

**Fairness.** `LeaveApproval`: weak fairness on a handler that has begun (the process
goes on with what it awaits), strong fairness on the worker's taking a queued day (BullMQ serves
jobs in order, so no day is passed over for ever although other days come and go), weak on its
write. `PayrollRun`: the same for its worker. `Access`: weak fairness on a handler that has begun,
and on the expiry of a key, which Redis guarantees. No fairness on users, nor on failures.
`LeaveShown` asks nothing of a day that HR has locked, since `recalc` passes it over (`timesheet.service.ts:54`).
`DecisionTakesEffect` and `LeaveShown` are
checked without failures: a crash between the update of the instance and its listener
leaves the request PENDING for good, since nothing replays the event. The other modules state no
liveness; `LogsShown` and `TermKept` say as invariants what holds once the nightly run is over.

**Mutants.** Every property of a passing run has a variant of a mapped definition, defined
beside it and marked `Mutant` in its comment, under which TLC finds the property violated:
a dropped guard, a missing write, a wrong order. They document what each property is there
to catch.

## 4. Refinement

`SignOff` has five variables and no handlers: a request is submitted, given the steps that
must sign, signed in order by those on turn, refused only after a refusal on turn, put into
effect only when all have signed, withdrawn at any time. `LeaveApproval` maps to it by reading
*required* off the snapshot and *signed* and *vetoed* off the audit trail, not off the row's
own `currentStep` and status, which overlapping decisions overwrite. That the mapping holds
under any interleaving says: whatever lost updates do to the row, the effect on
the request is always backed by the trail.

## 5. Proofs

Assumptions are those on the constants, each named in its module (`ApprovalAssumption`,
`LeaveAssumption`, `PayrollAssumption`, `FlowAssumption`, `DocumentsAssumption`, `TimesheetAssumption`,
`SessionsAssumption`, `AccessAssumption`, `CodesAssumption`, `ContractAssumption`, `SlaAssumption`,
`OrgTreeAssumption`, `LeaveAccrualAssumption`, `DayCountAssumption`, `PayslipAssumption`) and
evaluated by TLC on the instances. They ask for no more than names that differ, numbers where there are numbers,
some unit and some server, and sets that are finite where
something is counted (handlers; the enrolments of a class). `DayCountAssumption` describes a shift: it begins
before it ends, and has a break window with both its ends or none, since the code looks at neither end alone.
`PayslipAssumption` gives salaries, benefits and rates the ranges of the schemas in `payroll.ts`, with one thing
more, that the brackets ascend and end in an open one (`Ascending`): `progressivePit` says so in its comment, and no schema
asks for it. Some theorems have a hypothesis of their own:

- `OneAtATime` (`Handler` has at most one element): `SerialInductive`, `RequestsApart`, `LedgerAgrees`,
  `ClosedForGood`, `OpenRequestsCovered`, `SomeoneIsAsked`. With two handlers these are false, as section 3
  says; the number of requests, days, steps and calculations stays arbitrary, and the workers run beside.
  `OpenRequestsCovered` also asks for finitely many requests and `Grant >= 0`, since it adds costs up.
- `MaxFail <= 1`: `ShownInductive`, `LogsAreShown`. With two failures `LogsShown` is false, and TLC finds it
  so: a job is lost with its enqueue, and the sweep of the next night fails on the same day.

All others hold for any number of requests, users, handlers, steps and failures. Safety needs no
fairness: `AccountsProofs` and `EnginesProofs` state their theorems of specifications without it
(`AccessSafe`, `CodesSpec`, `TermSpec`, `SlaSpec`, `DaySpec`, `TreeSpec`, `PaySpec`), and so does `LeaveProofs` for
the accrual (`AccrualSpec`).

`ApprovalEngineProofs` holds the lemmas about the engine that all its users share: `EngineInv` says
which frames of `decide` exist -- a handler holds a step that was on turn when it read it and
whose predecessors are *signed in the trail*; a handler with an outcome to deliver has the
full chain, or a refusal, in the trail -- and that every step of the engine preserves it. The
argument is monotonicity: the trail only grows and the approvers of a row never change after its
insert (`Grows`), so what a frame has learnt stays true however the row is overwritten.

`LeaveProofs`: `TypeCorrect`, `Inductive`, and the four safety properties of
`leave_concurrent` (`LeaveNeedsChain`, `DecisionsInOrder`, `DecidersEntitled`, `RowsBacked`), none of
which is inductive by itself, since they relate rows and trail while handlers write from frames
filled several steps before. `LeaveImplementsSignOff`: `Spec => KeepsPromise`; each action is matched with
an abstract action or a stutter, `IInv` providing the guards. For one handler at a time, `SerialInv` adds that
what the handler has read is still so (`ReadOk`) and what the ledger lacks while a cancellation is between
its REVERT and its last write (`LedgerOk`, `GivenBack`); it gives `RequestsApart`, `LedgerAgrees` and
`ClosedForGood`. `OpenRequestsCovered` needs sums: `CoveredInv` says that what the handler has summed up of balance
and pending requests is right (`SumOk`), and lemmas on `PendingCost` say what one request more or less makes of it.

`PayrollRunProofs`: `CalculatedBeforePaid` and `PaidOnlySigned`. `IInv` adds what a handler may carry
across an await: a run once calculated keeps its payslips until it is deleted (`Counted`), and one
once approvable stays so (`Approvable`), because neither trail nor chain is taken back. `SomeoneIsAsked`, for one
handler beside the worker: a run that waits has an open instance, or the decision is on its way to it
(`WaitOk`). The worker may overwrite the status at any time, but never with one that waits.

`DocumentsProofs`: `NothingUnsigned` by the same argument as leave (`Backed`): whatever status a handler is about
to write that takes effect has a full chain behind it. `OneHire` and `RatingsFrozen` by another one
(`Fresh`): nobody writes a document between a handler's read and its write, because that would
have marked it raced. `ClassNearlyFits` counts: the enrolments that have a seat and those a handler may still
seat (`InPlay`; without the `revived`) are together fewer than capacity and handlers (`SeatsOk`), since a handler that
finds a free seat is itself one of the handlers. `WaitsWhileOpen` and `SaysWhatWasSigned`: between the two
writes of a request the status of a document and its approval disagree, and `ToldInv` says, for each label of
the one handler at work on it, what that handler has left to write.

`TimesheetProofs`: the mark *raced* comes to this, that of a day without it at most one process computes
the sheet and at most one creates a log (`Marked`). `DecisionsStay`: what the sheet lacks of what was decided,
that one process owes (`OwesOt`, `OwesShift`), and what it has read of the sheet is still so (`SheetOk`).
`CheckInsAlternate`: the log under way continues the logs there are, and goes to their end (`LogsOk`).
`LogsAreShown`: until the failure, a day whose sheet lacks logs has a job waiting or a process other than the cron
that will read them; after it, the cron has yet to pass, or has seen to it; and a process about to write
what is out of date has another recalculation behind it (`Covered`, `MadeUp`).

`SessionsProofs`: `NeverBothActive`, `OnlyRevokedBlocked`, `ReasonIsFinal`. `SInv` says what a handler
knows at each label: before `CreateSession` the old session has ended, at `Block` all ids in its frame
have; *ended* is for ever (`RowStep`). `RevokedAreRefused`, `BannedAreOut` and `OneRotation` rest on
`RaceInv`: two handlers at work are both marked (`Overlap`), so one that is not marked has been alone
since it began; what it read is still so (`RotationOk`, `CreatorOk`), and what it creates was
not there for another one to miss (`FoundOk`).

`AccountsProofs`: of `Access`, `AdminStays` and `CacheIsFresh`. Every stale entry that was not written beside a
change has a deletion (`Deleting`) or a search (`Finding`) ahead of it (`StaleOk`), or, when a role is dropped,
a deletion before the drop (`DropOk`); two changes under way know of each other (`Beside`), and an
undisturbed one finds the super admins as it counted them (`Counted`). Of `Codes`, `CodesUsedOnce`,
`FewLiveCodes` and `FewGuesses`: each bound is on a sum of what has happened and of the handlers about to make it happen
once more (`UsesOk`, `LiveOk`, `AttemptsOk`, `TriesOk`), and a step that adds to the one takes from the other.

`EnginesProofs`: `TermsAreKept` and `StepsAreReminded`. A cron acts on a list it has read: what it holds of a
row is still so or the row was changed beside it (`ScanOk`, `CronOk`), and a row that needs the cron is
in the list, or has been dealt with (`SeenOk`, `SweepOk`).

`PathsAreTheTree`: `PathsOk` says that the k-th unit on a path has its first k places for a path of its own, and
that the parent is the one before the last; so the units on a path are those at or above, and there is no cycle.
It survives because of what handlers hold (`HandsOk`): ids of their own for new units, and for a move the
path of the unit and one for its new parent that does not begin with it, which is all that the check for
cycles gives. A handler whose paths are out of date when it writes sets *stale*, of which nothing is claimed.

`DaysAreCounted` has next to no state (`DayInv`: there is a last log) and much arithmetic: `computeTimesheet` is
taken apart into the first IN, the last OUT, the minutes between them that are not break, lateness and overtime, each
a lemma about intervals and their cardinality. Cutting a leave in two is a sum over days at the cut; the
first and the last day worked are least and greatest elements.

`GrantsAreOwed` has two halves. Nothing is granted that is not due (`EntriesOk`). And, unless a run broke off,
all that is due is granted: each server that has begun the month either covers everybody who still lacks a
grant or has been beaten to one and thrown, and at least one has not been beaten (`CoverOk`) -- a
server is beaten only by another that covers what is left. From the entries to the amounts it is sums: an
entry is a twelfth of what a month owes, rounded, so that each adds half a hundredth of error at most.

`TaxIsByUnit` says of any income and any ascending brackets that the tax of `progressivePit` is the sum, rounded
once, of what each unit of income owes at the rate of the first bracket that holds it. A loop is a
function from rounds to accumulators: that there is one, for any start and any step, is `LoopExists`, and that what
goes from each round to the next holds after all of them is `Climbs`. After round i of the loop the tax is that of
the first i brackets (`LoopOwes`), since the units that a bracket holds are an interval, of the length of the slice
(`HeldIs`). From the reference it follows that one unit more of income owes between nothing and one unit
more (`OneUnitMore`, `TaxGrows`), which the loop does not show.

`PayslipsAddUp` is `PayslipAdds` in every state: sums of lists that are put together are sums of sums
(`SumConcat`), so the lines of the breakdown make the net pay; and since tax takes no more than all of what
comes on top (`PitGrows`), no benefit pays less, and no raise, if the premiums leave of it as much as rounding can take
three times (`PremiumsLeave`). That needs the three insurances to be no more than four fifths together
(`InsuranceLeavesAFifth`): they are about a tenth by default, but the schema bounds each of
them by the whole and not their sum, so it is a condition of that part of `PayslipAdds`.

Where these proofs go through all numbers up to a bound, they take the least counterexample
(`LeastExists`, from the well-foundedness of `<`), since the library's induction theorems cannot be instantiated.

**Only model-checked**: liveness, which this prover does not do (`DecisionTakesEffect`,
`LeaveShown`, `CalculationHappens`, `RevocationTakesEffect`). Every safety property of the passing runs is
a theorem.

## 6. Where the code departs from its documents, and other gaps

Four runs end in a violation; `PROJECT.json` quotes both sides.

1. `leave_cancel_sheet`: `cancelRequest` queues the recalculation before it writes CANCELLED
   (`leave/leave.service.ts:302`). The worker may read the leave as approved, and the day
   stays ON_LEAVE.
2. `leave_reject_race`: overlapping APPROVE and REJECT of one step
   (`approval/approval.service.ts:278`) both take effect: the days are deducted and the request ends
   REJECTED.
3. `payroll_lock`: a calculation overtaken by submission, approval and payment rewrites the
   paid run (`payroll/payroll-calc.service.ts:172`).
4. `offer_stuck`: `submit` writes PENDING_APPROVAL over an approval that was complete at once
   (`recruitment/offers.service.ts:185`); the offer never reaches the candidate.

Found while modelling, without a run of their own:

- Cancelling an approved unpaid leave writes a REVERT with no USAGE before it
  (`leave/leave.service.ts:288`): the balance grows. `LedgerMatchesStatus` is about paid leave.
- A reminder marks the row with the time of the update (`approval/approval-sla.service.ts:103`): a
  decision between the cron's read and the mark has the mark count for the next step, which is then
  never reminded, although line 10 and `PROGRESS.md:55` say the mark is void at the next step.
- `timesheet.service.ts:54` says a locked day is left alone, but the lock is read early and the
  upsert comes late: an edit or an approval in between is overwritten. An approved shift change
  or a later edit replaces approved overtime, a reset drops it; a correction approved on a locked day adds
  logs without effect; a day without logs whose recalculation by the cron fails is never marked ABSENT.
- The unique index (sessionId, employeeId) refuses a second enrolment after a cancelled one, although
  `assertNotEnrolled` allows it.
- An employee entered after the month of joining gets no yearly quota
  (`leave/leave-config.service.ts:214`), although `PROMPT-HRM.md:81` promises a share; and the
  expiry of days carried over, which the documents describe, is not in the code.
- `timesheet.engine.ts:177`: a fixed break is taken off only from a longer time, so a minute more at work
  may count as less; overtime is counted even if the check-in came after the end of the shift.
  `leaveDaysCount` takes a half off the first day *worked*, even if the leave begins on a day off.
- `progressivePit` needs ascending brackets, and the update of the configuration accepts any list.
- `move` checks for cycles on paths it read before (`org-units.service.ts`), and two moves that overlap
  can close one. `employees.service.ts:472` refuses only an employee as his own manager, not a longer cycle; the
  climbs over managers are bounded.
- The contract cron writes by id from what it read: a contract terminated meanwhile becomes EXPIRED. One
  that is EXPIRED is not looked at again, nor is an EXPIRING one made ACTIVE, when its end is moved; a
  reminder falls on one day only, and if that day's run fails it is not made up for.
- `RolesService.remove` invalidates before it deletes: a fill in between is served until it lapses.
- Two super admins can demote each other; two logins can use one recovery code.
- A user who has a username and no e-mail has no limit on second factors: `login-lockout.service.ts:31` and `46`
  return without an e-mail, although line 21 says wrong 2FA codes are counted. His wrong passwords are counted, under
  the username. `GuessesLimited` and `FewGuesses` leave his second factors out (`Countable`).
- A day that HR has locked does not show a leave approved afterwards, as `timesheet.service.ts:54` intends, nor
  does it lose one that is cancelled; `LeaveShown` is about the other days. A reset takes the lock off and recalculates the day.
- HR gives an enrolment a seat by writing its status, whatever the capacity (`training-enrollments.service.ts:199`);
  `SeatsBounded` leaves these seats out and bounds all others, those of HR's own enrolments and of registrations that
  need no approval included.
- The contract cron warns nobody of a contract whose organisation has no active HR account and whose employee has no
  manager with an account (`contract-reminder.service.ts:72`); `TermKept` asks for a reminder only where there is somebody.
  If `employees.service.ts:829` deletes a row the cron has read, the update throws and the rest of the list is left, for good
  as to a reminder that was due that day.
- `accrualMonths` (`leave.engine.ts:54`) takes a join date in a later year for one in an earlier year: the employee earns
  leave from January on. `LeaveAccrual` has no such dates.
- A run of the accrual cron that throws is not made up for (`leave-config.service.ts:181`); `GrantsMatch` asks for the
  full amount only where none did.

## 7. Not modelled, and what is left

Face matching (floating point and a vendored model); notifications, socket gateway, mail, audit
and report output, attachments (no modelled state depends on them); single-row create, read, update and
delete of master data, catalogues and policies; the match of flow conditions and the chain of
managers; devices and trusted devices; the codes of password reset and invitation, Google sign-in. The
pages of the web client keep no state the server relies on, and are more than half of the lines of the repository;
most of the rest of the API is controllers, mappers, DTOs and such single-row operations, so that the
share of lines the model stands for stays far below half.

What would come next, in this order:

1. An abstract specification for the timesheet day (what was decided last wins) and `Timesheet` as its
   refinement.
2. Codes of password reset and invitation in `Codes`, and the removal of users across `Sessions` and `Access`.
3. Several servers (`DEPLOYMENT.md:247` excludes them today) for the crons of `SlaReminder` and `ContractTerm`.
