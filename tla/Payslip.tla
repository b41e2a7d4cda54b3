------------------------------- MODULE Payslip --------------------------------
(***************************************************************************)
(* What a payslip says: PayrollEngineService.compute, over the rows that   *)
(* PayrollCalcService.calculateRun gathers for an employee and a month.    *)
(*                                                                         *)
(* The rows of one employee change between the runs: salaries by date of   *)
(* effect, a benefit with its dates, overtime.  Money is in small whole    *)
(* units and the configuration scaled with it; products of the code are    *)
(* exact here, where the code has double precision.                        *)
(***************************************************************************)
EXTENDS Rounding, Sequences, FiniteSets, FiniteSetsExt

CONSTANTS
  Dates,     \* months, and the months in which a salary takes effect
  NoSalary,  \* no salary saved for a date
  Salaries,  \* salaries, each [base, insured (Unset: as base), lines]
  Unset,     \* no amount of its own
  Spans,     \* times of the benefit, each [from, to]; from later than to: not assigned
  Benefit,   \* the benefit plan, [amount, taxable]
  Overtimes, \* minutes of overtime in a month
  Configs    \* configurations, with the employee's dependents

\* The rows, as the schemas of payroll.ts bound them: lines of a salary may be negative,
\* and rates are here in percent, those of the insurances per mille.
Component  == [kind : {"EARNING", "DEDUCTION"}, amount : Int, taxable : BOOLEAN]
Bracket    == [upTo : Nat \cup {Unset}, rate : 0..100]
PerMille   == 0..1000
SalaryRow  == [base : Nat, insured : Nat \cup {Unset}, lines : Seq(Component)]
BenefitRow == [amount : Nat, taxable : BOOLEAN]
ConfigRow  == [personal : Nat, dependent : Nat, dependents : Nat, gov : Nat, wage : Nat,
               rates : [1..3 -> PerMille], brackets : Seq(Bracket)]

\* progressivePit counts on ascending brackets with an open one at the end;
\* pitBracketSchema does not ask for them.
Ascending(bs) ==
  /\ bs \in Seq(Bracket)
  /\ Len(bs) > 0 /\ bs[Len(bs)].upTo = Unset
  /\ \A i \in 1..(Len(bs) - 1) : bs[i].upTo \in Nat
  /\ \A i \in 1..(Len(bs) - 2) : bs[i].upTo < bs[i + 1].upTo

ASSUME PayslipAssumption ==
  /\ Dates \subseteq Nat
  /\ Overtimes \subseteq Nat
  /\ NoSalary \notin Salaries /\ Unset \notin Nat
  /\ Salaries \subseteq SalaryRow
  /\ Benefit \in BenefitRow
  /\ Configs \subseteq ConfigRow
  /\ \A c \in Configs : Ascending(c.brackets)

VARIABLES
  salary,    \* EmployeeSalary by effectiveDate
  span,      \* startDate and endDate of the EmployeeBenefit
  overtime,  \* otMinutes of the timesheet, by month
  config     \* PayrollConfig

payVars == <<salary, span, overtime, config>>

PayTypeOK ==
  /\ salary \in [Dates -> Salaries \cup {NoSalary}]
  /\ span \in Spans
  /\ overtime \in [Dates -> Overtimes]
  /\ config \in Configs

PayInit ==
  /\ salary = [d \in Dates |-> NoSalary]
  /\ span \in Spans
  /\ overtime \in [Dates -> Overtimes]
  /\ config \in Configs

\* EmployeeSalariesService.create is an upsert by date; remove.
SaveSalary(d, s)  == salary' = [salary EXCEPT ![d] = s] /\ UNCHANGED <<span, overtime, config>>
RemoveSalary(d)   == /\ salary[d] # NoSalary
                     /\ salary' = [salary EXCEPT ![d] = NoSalary]
                     /\ UNCHANGED <<span, overtime, config>>
\* EmployeeBenefitsService.create, upsert by plan and employee.
AssignBenefit(s)  == s # span /\ span' = s /\ UNCHANGED <<salary, overtime, config>>

PayNext ==
  \/ \E d \in Dates : RemoveSalary(d) \/ \E s \in Salaries : SaveSalary(d, s)
  \/ \E s \in Spans : AssignBenefit(s)

-----------------------------------------------------------------------------
(* calculateRun: the rows for month m.                                      *)

SavedBy(m) == {d \in Dates : d <= m /\ salary[d] # NoSalary}

\* The version that took effect last.
InForce(m) == salary[Max(SavedBy(m))]

Benefits(m) == IF span.from <= m /\ span.to >= m /\ span.from <= span.to THEN <<Benefit>> ELSE <<>>

-----------------------------------------------------------------------------
(* PayrollEngineService.                                                    *)

\* The sum of a list of numbers, as the loops of compute take it.
SumOf(list) ==
  LET sum[i \in 0..Len(list)] == IF i = 0 THEN 0 ELSE sum[i - 1] + list[i]
  IN sum[Len(list)]

\* Of the rows that count, the sum of their amounts.
SumIf(rows, Counts(_)) == SumOf([i \in 1..Len(rows) |-> IF Counts(rows[i]) THEN rows[i].amount ELSE 0])

UpperOf(b, income) == IF b.upTo = Unset THEN income ELSE b.upTo

\* Mutant: a bracket's rate is taken on the whole of its upper bound.
Slice_Whole(lower, upper, income) == IF income < upper THEN income - lower ELSE upper

\* The part of the income between two bounds.
Slice(lower, upper, income) == (IF income < upper THEN income ELSE upper) - lower

\* progressivePit: the part of the income in each bracket, until one holds the income.
ProgressivePit(income, brackets) ==
  LET n == Len(brackets)
      after[i \in 0..n] ==
        IF i = 0 THEN [tax |-> 0, lower |-> 0, done |-> FALSE]
        ELSE LET acc   == after[i - 1]
                 upper == UpperOf(brackets[i], income)
             IN IF acc.done THEN acc
                ELSE [tax |-> acc.tax + (IF income > acc.lower
                                         THEN Slice(acc.lower, upper, income) * brackets[i].rate ELSE 0),
                      lower |-> upper, done |-> income <= upper]
  IN IF income <= 0 THEN 0 ELSE Rounded(after[n].tax, 100)

\* An hour is a 208th of the salary, paid one and a half times.
OtPay(base, minutes) == Rounded(base * minutes * 3, 2 * 26 * 8 * 60)

\* Social and health insurance up to 20 times the state's base salary, unemployment
\* insurance up to 20 times the regional minimum wage.
Insurances(s) ==
  LET insured == IF s.insured = Unset THEN s.base ELSE s.insured
      caps    == <<config.gov, config.gov, config.wage>>
  IN [i \in 1..3 |-> Rounded(Min({insured, 20 * caps[i]}) * config.rates[i], 1000)]

\* The lines of a salary, and the benefits.
Earned(s)      == SumIf(s.lines, LAMBDA l : l.kind = "EARNING")
EarnedTaxed(s) == SumIf(s.lines, LAMBDA l : l.kind = "EARNING" /\ l.taxable)
Deducted(s)    == SumIf(s.lines, LAMBDA l : l.kind # "EARNING")
Given(b)       == SumIf(b, LAMBDA l : TRUE)
GivenTaxed(b)  == SumIf(b, LAMBDA l : l.taxable)

Row(kind, n)      == [kind |-> kind, amount |-> n]
RowIfAny(kind, n) == IF n > 0 THEN <<Row(kind, n)>> ELSE << >>

\* compute, for a salary, benefits and minutes of overtime.
Compute(s, benefits, minutes) ==
  LET otPay      == OtPay(s.base, minutes)
      gross      == s.base + otPay + Earned(s) + Given(benefits)
      ins        == Insurances(s)
      insTotal   == ins[1] + ins[2] + ins[3]
      taxable    == s.base + otPay + EarnedTaxed(s) + GivenTaxed(benefits)
      assessable == Max({0, taxable - insTotal - config.personal
                              - config.dependents * config.dependent})
      pit        == ProgressivePit(assessable, config.brackets)
  IN [assessable |-> assessable, pit |-> pit,
      net |-> gross - insTotal - pit - Deducted(s),
      breakdown |-> <<Row("EARNING", s.base)>> \o RowIfAny("EARNING", otPay)
        \o [i \in 1..Len(s.lines) |-> Row(s.lines[i].kind, s.lines[i].amount)]
        \o [i \in 1..Len(benefits) |-> Row("EARNING", benefits[i].amount)]
        \o [i \in 1..3 |-> Row("DEDUCTION", ins[i])]
        \o RowIfAny("DEDUCTION", pit)]

-----------------------------------------------------------------------------
\* Reference, in hundredths: every unit of income at the rate of the first bracket that
\* holds it.
HolderOf(unit, brackets) ==
  Min({i \in 1..Len(brackets) : brackets[i].upTo = Unset \/ unit <= brackets[i].upTo})
Held(i, income, brackets) == {u \in 1..income : HolderOf(u, brackets) = i}
TaxByUnit(income, brackets) ==
  SumOf([i \in 1..Len(brackets) |-> brackets[i].rate * Cardinality(Held(i, income, brackets))])

Total(slip, kind) == SumIf(slip.breakdown, LAMBDA l : l.kind = kind)

\* The insurances take no more than four fifths of what they are taken of.  The schema of
\* the configuration bounds each of them by the whole, and not their sum.
InsuranceLeavesAFifth == config.rates[1] + config.rates[2] + config.rates[3] <= 800

\* On every payslip the lines add up to the net pay; the tax is, to half a unit, what each
\* unit of income owes at the rate of its bracket; a raise pays no less, where the
\* insurances leave a fifth of it, and neither does having the benefit; and the salary is
\* the one that took effect last (calculateRun, compute, progressivePit).
PayslipAdds ==
  \A m \in Dates : SavedBy(m) # {} =>
    LET s    == InForce(m)
        slip == Compute(s, Benefits(m), overtime[m])
        Net(b, ben) == Compute([s EXCEPT !.base = b], ben, overtime[m]).net
        tax  == 100 * slip.pit - TaxByUnit(slip.assessable, config.brackets)
    IN /\ slip.net = Total(slip, "EARNING") - Total(slip, "DEDUCTION")
       /\ tax \in -50..50
       /\ InsuranceLeavesAFifth =>
            \A raise \in {10, 45} : Net(s.base + raise, Benefits(m)) >= slip.net
       /\ Net(s.base, <<Benefit>>) >= Net(s.base, << >>)
       /\ \A d \in Dates : d <= m /\ salary[d] # NoSalary /\ salary[d] # s =>
            \E later \in Dates : d < later /\ later <= m /\ salary[later] = s
=============================================================================
