----------------------------- MODULE SlaReminder -----------------------------
(***************************************************************************)
(* The reminder of overdue approvals: the cron checkOverdue of             *)
(* ApprovalSlaService beside ApprovalService.decide, on one instance.      *)
(*                                                                         *)
(* The cron reads the pending rows, looks at them one after the other,     *)
(* notifies the approvers of a step that is overdue, and marks the row     *)
(* with the time.  A mark from before the step came on turn is of another  *)
(* step.  A decision stamps the time before its calls to the database.     *)
(* Steps that were skipped are never on turn and are left out.             *)
(***************************************************************************)
EXTENDS Naturals, Sequences

CONSTANTS
  Limits,    \* the flows to look at: slaHours of each step, or NoLimit
  NoLimit,
  Unmarked,  \* no time yet
  MaxTime,   \* bound: the clock
  MaxMiss    \* bound: reminders that fail

ASSUME SlaAssumption ==
  /\ NoLimit \notin Nat /\ Unmarked \notin Nat
  /\ Limits \subseteq Seq((Nat \ {0}) \cup {NoLimit}) \ {<<>>}
  /\ MaxTime \in Nat /\ MaxMiss \in Nat

VARIABLES
  limits,    \* stepsSnapshot: slaHours
  decided,   \* stepsSnapshot: decidedAt
  turn,      \* ApprovalInstance.currentStep
  pending,   \* ApprovalInstance.status is PENDING
  marked,    \* ApprovalInstance.slaRemindedAt
  clock,
  cron,      \* the row the cron has read, and where it is
  decision,  \* the step a decision is on, and the time it has stamped
  since,     \* history: when each step came on turn
  reminded,  \* history: how often each step was reminded
  swept,     \* history: the time of the last run of the cron that did not fail
  silenced,  \* history: steps on turn when a mark was made for the one before
  misses     \* failures so far

slaVars == <<limits, decided, turn, pending, marked, clock, cron, decision,
             since, reminded, swept, silenced, misses>>

SlaStep == DOMAIN limits
Time == Nat \cup {Unmarked}

Asleep    == [at |-> "idle"]
Undecided == [on |-> 0, at |-> 0]

SlaTypeOK ==
  /\ limits \in Limits
  /\ decided \in [SlaStep -> Time]
  /\ turn \in SlaStep /\ pending \in BOOLEAN
  /\ marked \in Time
  /\ clock \in Nat
  /\ cron \in {Asleep} \cup [at : {"check", "mark"}, now : Nat, turn : SlaStep,
                             decided : [SlaStep -> Time], marked : Time]
  /\ decision \in [on : SlaStep \cup {0}, at : Nat]
  /\ since \in [SlaStep -> Nat] /\ reminded \in [SlaStep -> Nat]
  /\ swept \in Nat /\ silenced \subseteq SlaStep /\ misses \in Nat

SlaInit ==
  /\ limits \in Limits
  /\ decided = [s \in SlaStep |-> Unmarked]
  /\ turn = 1 /\ pending = TRUE
  /\ marked = Unmarked
  /\ clock = 0
  /\ cron = Asleep /\ decision = Undecided
  /\ since = [s \in SlaStep |-> 0] /\ reminded = [s \in SlaStep |-> 0]
  /\ swept = 0 /\ silenced = {} /\ misses = 0

SlaTick ==
  /\ clock < MaxTime
  /\ clock' = clock + 1
  /\ UNCHANGED <<limits, decided, turn, pending, marked, cron, decision,
                 since, reminded, swept, silenced, misses>>

-----------------------------------------------------------------------------
(* decide: the row is read and the time stamped; the update comes later.     *)

DecisionStamp ==
  /\ pending /\ decision = Undecided
  /\ decision' = [on |-> turn, at |-> clock]
  /\ silenced' = IF marked = clock THEN silenced \cup ({turn + 1} \cap SlaStep) ELSE silenced
  /\ UNCHANGED <<limits, decided, turn, pending, marked, clock, cron,
                 since, reminded, swept, misses>>

DecisionStore ==
  LET s == decision.on
  IN /\ decision # Undecided
     /\ decided' = [decided EXCEPT ![s] = decision.at]
     /\ \/ /\ s + 1 \in SlaStep
           /\ turn' = s + 1
           /\ since' = [since EXCEPT ![s + 1] = clock]
           /\ UNCHANGED pending
        \/ pending' = FALSE /\ UNCHANGED <<turn, since>>
     /\ decision' = Undecided
     /\ UNCHANGED <<limits, marked, clock, cron, reminded, swept, silenced, misses>>

-----------------------------------------------------------------------------
(* checkOverdue.                                                            *)

SlaRead ==
  /\ cron = Asleep
  /\ pending
  /\ cron' = [at |-> "check", now |-> clock, turn |-> turn, decided |-> decided,
              marked |-> marked]
  /\ UNCHANGED <<limits, decided, turn, pending, marked, clock, decision,
                 since, reminded, swept, silenced, misses>>

\* When the step that was read came on turn: the creation, or the latest decision
\* on a step before it.
StepStart(row) ==
  LET before == {row.decided[s] : s \in {p \in SlaStep : p < row.turn}} \ {Unmarked}
  IN CHOOSE t \in before \cup {0} : \A u \in before : u <= t

\* Mutant: one mark is good for the whole chain.
Overdue_Once(row) ==
  /\ limits[row.turn] # NoLimit
  /\ row.now > StepStart(row) + limits[row.turn]
  /\ row.marked = Unmarked

Overdue(row) ==
  /\ limits[row.turn] # NoLimit
  /\ row.now > StepStart(row) + limits[row.turn]
  /\ ~ (row.marked # Unmarked /\ row.marked >= StepStart(row))

\* handle: the approvers are notified.
SlaRemind ==
  /\ cron.at = "check" /\ Overdue(cron)
  /\ reminded' = [reminded EXCEPT ![cron.turn] = @ + 1]
  /\ cron' = [cron EXCEPT !.at = "mark"]
  /\ UNCHANGED <<limits, decided, turn, pending, marked, clock, decision,
                 since, swept, silenced, misses>>

SlaPass ==
  /\ cron.at = "check" /\ ~ Overdue(cron)
  /\ swept' = cron.now
  /\ cron' = Asleep
  /\ UNCHANGED <<limits, decided, turn, pending, marked, clock, decision,
                 since, reminded, silenced, misses>>

\* The update of the row: the time is that of the update.
SlaMark ==
  /\ cron.at = "mark"
  /\ marked' = clock
  /\ silenced' = silenced \cup
       {s \in SlaStep : \/ s = turn /\ s # cron.turn
                        \/ decision # Undecided /\ s = decision.on + 1}
  /\ swept' = cron.now
  /\ cron' = Asleep
  /\ UNCHANGED <<limits, decided, turn, pending, clock, decision, since, reminded, misses>>

\* The dispatch or the update throws: the next run tries again.
SlaMiss ==
  /\ cron # Asleep
  /\ misses < MaxMiss
  /\ misses' = misses + 1
  /\ cron' = Asleep
  /\ UNCHANGED <<limits, decided, turn, pending, marked, clock, decision,
                 since, reminded, swept, silenced>>

SlaNext ==
  \/ SlaTick \/ DecisionStamp \/ DecisionStore
  \/ SlaRead \/ SlaRemind \/ SlaPass \/ SlaMark \/ SlaMiss

-----------------------------------------------------------------------------
\* approval-sla.service.ts:10, one reminder for each step, and the mark is void once the
\* next step is on turn: no step is reminded twice but for a failure, and a run of
\* the cron that finds a step overdue has it reminded, unless the mark of the step before
\* was made after that one had been decided.
EachStepReminded ==
  /\ \A s \in SlaStep : reminded[s] <= 1 + misses
  /\ pending /\ limits[turn] # NoLimit /\ swept > since[turn] + limits[turn] =>
       reminded[turn] > 0 \/ turn \in silenced
=============================================================================
