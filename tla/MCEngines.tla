------------------------------ MODULE MCEngines ------------------------------
(* Instances of OrgTree, LeaveAccrual, Payslip, DayCount, SlaReminder and   *)
(* ContractTerm for TLC.  They share no state: a behaviour is about one of  *)
(* them, the others stay as they begin.                                     *)
EXTENDS OrgTree, LeaveAccrual, Payslip, DayCount, SlaReminder, ContractTerm, TLC

VARIABLE scene

vars == <<treeVars, accrualVars, payVars, dayVars, slaVars, termVars, scene>>

Yearly(prorate, days, bonus, every) ==
  [yearly |-> TRUE, prorate |-> prorate, days |-> days, bonus |-> bonus, every |-> every]
MCPolicies == {Yearly(TRUE, 1300, 1, 3), Yearly(FALSE, 1200, 0, 5),
               [Yearly(TRUE, 1300, 1, 3) EXCEPT !.yearly = FALSE]}
MCJoins == {[ago |-> 0, month |-> 1], [ago |-> 0, month |-> 5], [ago |-> 7, month |-> 9]}
MCStays == {[from |-> 1, to |-> 12], [from |-> 2, to |-> 6], [from |-> 5, to |-> 9]}

Line(kind, amount, taxable) == [kind |-> kind, amount |-> amount, taxable |-> taxable]
MCSalaries ==
  { [base |-> 90,  insured |-> Unset, lines |-> <<>>],
    [base |-> 210, insured |-> 50,
     lines |-> <<Line("EARNING", 13, TRUE), Line("DEDUCTION", 7, FALSE)>>],
    [base |-> 640, insured |-> Unset, lines |-> <<Line("EARNING", 25, FALSE)>>] }
MCSpans   == {[from |-> 1, to |-> 0], [from |-> 1, to |-> 3], [from |-> 2, to |-> 2]}
MCBenefit == [amount |-> 17, taxable |-> TRUE]
Upper(upTo, rate) == [upTo |-> upTo, rate |-> rate]
\* The brackets of VN_PIT_BRACKETS up to the fourth, with amounts scaled down.
MCBrackets == <<Upper(50, 5), Upper(100, 10), Upper(180, 15), Upper(320, 20), Upper(Unset, 25)>>
MCConfigs == [personal : {0, 55}, dependent : {22}, dependents : {1}, gov : {12}, wage : {23},
              rates : {<<80, 15, 10>>}, brackets : {MCBrackets}]

Shift(from, to, minutes, grace, ot) ==
  [start |-> 2, end |-> 8, breakStart |-> from, breakEnd |-> to, breakMinutes |-> minutes,
   grace |-> grace, ot |-> ot]
\* The break in the middle, of a fixed length, and partly after the shift.
MCShifts == {Shift(4, 6, 0, 1, TRUE), Shift(None, None, 2, 0, FALSE), Shift(7, 9, 1, 1, FALSE)}

MCEnds == {1, NoEnd}
SomeOrder == Permutations(Contract) \cup Permutations(Staff)
MCLimits == {<<1, 1>>, <<NoLimit, 1>>}

Init ==
  /\ scene \in {"tree", "accrual", "pay", "logs", "calendar", "sla", "contract"}
  /\ TreeInit
  /\ AccrualInit /\ (scene # "accrual" =>
       policy = (CHOOSE p \in Policies : TRUE) /\ joined = [e \in Staff |-> CHOOSE j \in Joins : TRUE]
         /\ stay = [e \in Staff |-> CHOOSE s \in Stays : TRUE])
  /\ PayInit /\ (scene # "pay" =>
       span = (CHOOSE s \in Spans : TRUE) /\ overtime = [d \in Dates |-> 0]
         /\ config = CHOOSE c \in Configs : TRUE)
  /\ DayInit /\ (scene # "logs" =>
       day = [shift |-> None, leave |-> "none", type |-> "WORKING", past |-> FALSE])
     /\ (scene # "calendar" => works = {})
  /\ SlaInit /\ (scene # "sla" => limits = CHOOSE l \in Limits : TRUE)
  /\ TermInit

Next ==
  /\ UNCHANGED scene
  /\ \/ scene = "tree" /\ TreeNext /\ UNCHANGED <<accrualVars, payVars, dayVars, slaVars, termVars>>
     \/ scene = "accrual" /\ AccrualNext /\ UNCHANGED <<treeVars, payVars, dayVars, slaVars, termVars>>
     \/ scene = "pay" /\ PayNext /\ UNCHANGED <<treeVars, accrualVars, dayVars, slaVars, termVars>>
     \/ scene \in {"logs", "calendar"} /\ UNCHANGED <<treeVars, accrualVars, payVars, slaVars, termVars>>
        /\ (scene = "logs" => UNCHANGED works) /\ (scene = "calendar" => UNCHANGED logs)
        /\ DayNext
     \/ scene = "sla" /\ SlaNext /\ UNCHANGED <<treeVars, accrualVars, payVars, dayVars, termVars>>
     \/ scene = "contract" /\ TermNext
        /\ UNCHANGED <<treeVars, accrualVars, payVars, dayVars, slaVars>>

Spec == Init /\ [][Next]_vars

TypeOK == TreeTypeOK /\ AccrualTypeOK /\ PayTypeOK /\ DayTypeOK /\ SlaTypeOK /\ TermTypeOK
=============================================================================
