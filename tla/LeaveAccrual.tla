----------------------------- MODULE LeaveAccrual -----------------------------
(***************************************************************************)
(* One year of leave accrual: the cron runAccrual of LeaveConfigService    *)
(* and the pure functions of leave.engine it calls.                        *)
(*                                                                         *)
(* On the first of a month every server process runs the cron: for each    *)
(* employee on the roll it looks for the entry of the period and creates   *)
(* it.  DEPLOYMENT.md:247 has one server for now; the insert copes with    *)
(* more, and the model has any number.  Employees are entered and resign,  *)
(* each at times chosen in Init.  Days are counted in hundredths, as the   *)
(* ledger stores them.                                                     *)
(*                                                                         *)
(* Nobody joins after this year: accrualMonths takes a join date in a      *)
(* later year for one in an earlier year, and grants all twelve months.    *)
(***************************************************************************)
EXTENDS Rounding, FiniteSets, FiniteSetsExt

CONSTANTS
  Staff,     \* employees
  Server,    \* processes that run the cron
  Nobody,    \* no employee at hand
  Policies,  \* the policies to look at, each [yearly, prorate, days, bonus, every]
  Joins,     \* the dates of joining, each [ago, month]: full years before this one; none later
  Stays,     \* the times on the roll, each [from, to]: months whose cron finds him
  MaxCrash   \* bound: runs of the cron that break off

Month == 1..12

ASSUME LeaveAccrualAssumption ==
  /\ Nobody \notin Staff /\ Server # {}
  /\ Policies \subseteq [yearly : BOOLEAN, prorate : BOOLEAN, days : Nat, bonus : Nat,
                         every : Nat \ {0}]
  /\ Joins \subseteq [ago : Nat, month : Month]
  /\ Stays \subseteq [from : Month, to : Month]
  /\ MaxCrash \in Nat

\* period: the year, or a month of it.
Year   == 0
Period == Month \cup {Year}
NoEntry   == -1

VARIABLES
  policy,   \* the policy of the organisation
  joined,   \* Employee.joinDate
  stay,     \* the months at whose cron Employee.status is ACTIVE or PROBATION
  month,    \* the month whose cron was the last to start; zero before
  ledger,   \* ACCRUAL entries: amount by employee and period
  todo,     \* employees a run still has to look at
  current,  \* the employee a run has found without an entry
  ran,      \* servers that have started this month's run
  crashes   \* broken runs so far

accrualVars == <<policy, joined, stay, month, ledger, todo, current, ran, crashes>>

AccrualTypeOK ==
  /\ policy \in Policies
  /\ joined \in [Staff -> Joins]
  /\ stay \in [Staff -> Stays]
  /\ month \in Month \cup {0}
  /\ ledger \in [Staff -> [Period -> Nat \cup {NoEntry}]]
  /\ todo \in [Server -> SUBSET Staff]
  /\ current \in [Server -> Staff \cup {Nobody}]
  /\ ran \subseteq Server
  /\ crashes \in Nat

AccrualInit ==
  /\ policy \in Policies
  /\ joined \in [Staff -> Joins]
  /\ stay \in [Staff -> Stays]
  /\ month = 0
  /\ ledger = [e \in Staff |-> [p \in Period |-> NoEntry]]
  /\ todo = [s \in Server |-> {}]
  /\ current = [s \in Server |-> Nobody]
  /\ ran = Server
  /\ crashes = 0

-----------------------------------------------------------------------------
(* leave.engine.                                                            *)

SeniorityBonus(e) == (joined[e].ago \div policy.every) * policy.bonus * 100
Base(e)           == policy.days + SeniorityBonus(e)

MonthsLeft(e) == IF joined[e].ago = 0 THEN 13 - joined[e].month ELSE 12

YearlyQuota(e)    == Rounded(Base(e) * (IF policy.prorate THEN MonthsLeft(e) ELSE 12), 12)
MonthlyAccrual(e) == Rounded(Base(e), 12)

\* Mutant: the month of joining does not count.
AccrualMonths_After(e) == {m \in Month : joined[e].ago = 0 => m > joined[e].month}

AccrualMonths(e) == {m \in Month : joined[e].ago = 0 => m >= joined[e].month}

\* A yearly policy grants in the first of those months, a monthly one in each.
Due(e, m) ==
  IF policy.yearly
  THEN AccrualMonths(e) # {} /\ m = Min(AccrualMonths(e))
  ELSE m \in AccrualMonths(e)

PeriodOf(m) == IF policy.yearly THEN Year ELSE m
Amount(e)   == IF policy.yearly THEN YearlyQuota(e) ELSE MonthlyAccrual(e)

-----------------------------------------------------------------------------
Resting == \A s \in Server : todo[s] = {} /\ current[s] = Nobody

\* The first of the next month; the runs of the month before are long over.
NextMonth ==
  /\ Resting /\ ran = Server
  /\ month < 12
  /\ month' = month + 1
  /\ ran' = {}
  /\ UNCHANGED <<policy, joined, stay, ledger, todo, current, crashes>>

OnRoll == {e \in Staff : month \in stay[e].from..stay[e].to}

\* runAccrual, accrueOrg: the employees are read once.
RunStart(s) ==
  /\ s \notin ran
  /\ ran' = ran \cup {s}
  /\ todo' = [todo EXCEPT ![s] = {e \in OnRoll : Due(e, month)}]
  /\ UNCHANGED <<policy, joined, stay, month, ledger, current, crashes>>

\* upsertAccrual: an entry that is there already is left.
UpsertFind(s) ==
  /\ current[s] = Nobody
  /\ \E e \in todo[s] :
       /\ todo' = [todo EXCEPT ![s] = @ \ {e}]
       /\ current' = IF ledger[e][PeriodOf(month)] = NoEntry THEN [current EXCEPT ![s] = e]
                     ELSE current
  /\ UNCHANGED <<policy, joined, stay, month, ledger, ran, crashes>>

\* The unique index refuses a second entry of the period: the run of the organisation
\* throws and is given up.
UpsertCreate(s) ==
  LET e == current[s]   p == PeriodOf(month)
  IN /\ e # Nobody
     /\ IF ledger[e][p] = NoEntry
        THEN ledger' = [ledger EXCEPT ![e][p] = Amount(e)] /\ UNCHANGED todo
        ELSE todo' = [todo EXCEPT ![s] = {}] /\ UNCHANGED ledger
     /\ current' = [current EXCEPT ![s] = Nobody]
     /\ UNCHANGED <<policy, joined, stay, month, ran, crashes>>

\* A run breaks off; nothing makes up for it.
Crash(s) ==
  /\ todo[s] # {} \/ current[s] # Nobody
  /\ crashes < MaxCrash
  /\ crashes' = crashes + 1
  /\ todo' = [todo EXCEPT ![s] = {}]
  /\ current' = [current EXCEPT ![s] = Nobody]
  /\ UNCHANGED <<policy, joined, stay, month, ledger, ran>>

AccrualNext ==
  \/ NextMonth
  \/ \E s \in Server : RunStart(s) \/ UpsertFind(s) \/ UpsertCreate(s) \/ Crash(s)

-----------------------------------------------------------------------------
\* Reference: the months of the year in which the employee earns.
Earns(e) == {m \in Month : joined[e].ago > 0 \/ m >= joined[e].month}

Granted(e) == LET given == {p \in Period : ledger[e][p] # NoEntry}
              IN MapThenSumSet(LAMBDA p : ledger[e][p], given)

\* What the policy owes by now, in twelfths of a hundredth of a day: for the year as a
\* whole to who is there in his first month, or month by month while he is there.
Owed(e) ==
  LET there == {m \in Earns(e) : m <= month /\ m \in stay[e].from..stay[e].to}
  IN IF ~ policy.yearly THEN Base(e) * Cardinality(there)
     ELSE IF \E m \in there : \A n \in Earns(e) : m <= n
          THEN Base(e) * (IF policy.prorate THEN Cardinality(Earns(e)) ELSE 12)
          ELSE 0

\* Entries are rounded to a hundredth, each by half of one at most.
Slack(e) == 6 * Cardinality({p \in Period : ledger[e][p] # NoEntry})

\* Whatever the servers interleave and whichever run breaks off, no period is granted
\* twice; and when the runs of a month are over and none broke off, each employee has what
\* the policy owes him, up to rounding, although a run that loses a race throws and leaves
\* the rest of the list to the other one (accrueOrg, upsertAccrual, yearlyQuota,
\* monthlyAccrual).
GrantsMatch ==
  \A e \in Staff :
    /\ 12 * Granted(e) <= Owed(e) + Slack(e)
    /\ Resting /\ ran = Server /\ crashes = 0 => 12 * Granted(e) >= Owed(e) - Slack(e)
=============================================================================
