---------------------------- MODULE EnginesProofs ----------------------------
(***************************************************************************)
(* Theorems about the parts that the run "engines" checks side by side,    *)
(* for any values of their constants.                                      *)
(*                                                                         *)
(* ContractTerm and SlaReminder are crons that read a list and then act on *)
(* what they read: each invariant says what is still true of the rows that *)
(* were read, and of those that were changed meanwhile.  DayCount computes *)
(* a sheet from the logs of a day: its proofs are facts about the numbers  *)
(* that come out, and an induction over the days of a leave.  OrgTree is   *)
(* edited by handlers that write from a path they read before: its         *)
(* invariant says what the paths in the table, and those in their hands,   *)
(* have to do with each other.  Payslip adds lists up: its proofs are      *)
(* about the loops that compute runs, and the invariant needs no more than *)
(* the types of the rows.                                                  *)
(***************************************************************************)
EXTENDS ContractTerm, SlaReminder, DayCount, OrgTree, Payslip, FiniteSetTheorems,
        SequenceTheorems, WellFoundedInduction, TLAPS

\* The parts, with nothing said of when they take their steps.
TermSpec == TermInit /\ [][TermNext]_termVars
SlaSpec  == SlaInit /\ [][SlaNext]_slaVars

-----------------------------------------------------------------------------
(* ContractTerm.                                                             *)

\* c is not in the way: what TermKept asks of it, but for a reminder that is under way.
Seen(c) ==
  /\ DaysLeft(term[c]) >= 0
  /\ DaysLeft(term[c]) <= Notice => term[c].status = "EXPIRING"
  /\ DaysLeft(term[c]) \in RemindDays /\ ~ muted /\ c \in reach => c \in warned \/ hand = c

Ongoing(c) == term[c].status \in Valid /\ term[c].end # NoEnd

\* A run of the cron is of today, and until it is over the last complete one is of before.
DaysOk ==
  /\ checked <= began /\ began <= today
  /\ Working => began = today /\ checked < today

\* The rows that were read: one for each contract, in force, as they are still but for HR.
ScanOk ==
  \A r \in scan :
    /\ r[2].status \in Valid /\ r[2].end # NoEnd
    /\ r[1] \notin touched => r[2] = term[r[1]]
    /\ r[1] \notin beside => ruled[r[1]] \in Valid
    /\ \A q \in scan : q[1] = r[1] => q = r

\* What HR ended stays so.
RuledOk == \A c \in Contract : c \notin beside /\ ruled[c] \notin Valid => term[c].status = ruled[c]

\* A contract that HR leaves alone is in the list, or has been seen to.
SeenOk ==
  Working \/ checked = today =>
    \A c \in Contract \ touched : Ongoing(c) => Seen(c) \/ \E r \in scan : r[1] = c

TermInv == TermTypeOK /\ DaysOk /\ ScanOk /\ RuledOk /\ SeenOk

\* An end that is not open is a day.
LEMMA EndIsDay == ASSUME NEW held \in Term, held.end # NoEnd PROVE held.end \in Int
BY ContractAssumption DEF Term

\* Initially nothing was read.
LEMMA TermInitInv == TermInit => TermInv
<1> SUFFICES ASSUME TermInit PROVE TermInv
  OBVIOUS
<1>1. [status |-> "none", end |-> NoEnd] \in Term
  BY DEF Term, Status
<1>2. TermTypeOK
  <2>1. muted \in BOOLEAN
    BY ZenonT(10) DEF TermInit
  <2>2. /\ term \in [Contract -> Term]
        /\ ruled \in [Contract -> Status]
    BY <1>1 DEF TermInit, Status
  <2>3. QED
    BY <2>1, <2>2 DEF TermInit, TermTypeOK
<1>3. DaysOk /\ ScanOk /\ RuledOk
  BY DEF TermInit, DaysOk, ScanOk, RuledOk, Working
<1>4. SeenOk
  BY DEF TermInit, SeenOk, Ongoing
<1>5. QED
  BY <1>2, <1>3, <1>4 DEF TermInv

\* What HR writes: the row of one contract, which is marked.
LEMMA HrKeeps ==
  ASSUME TermInv, NEW c \in Contract, NEW held \in Term,
         \/ Rule(c, held)
         \/ /\ term' = [term EXCEPT ![c] = held] /\ held.status = term[c].status
            /\ touched' = touched \cup {c}
            /\ UNCHANGED <<today, scan, reach, hand, began, checked, ruled, beside, warned, muted, lost>>
  PROVE  TermInv'
<1>1. /\ term' = [term EXCEPT ![c] = held] /\ touched' = touched \cup {c}
      /\ UNCHANGED <<today, scan, reach, hand, began, checked, warned, muted, lost>>
  BY DEF Rule
<1>2. TermTypeOK'
  BY <1>1 DEF TermInv, TermTypeOK, Rule, Term
<1>3. DaysOk'
  BY <1>1 DEF TermInv, DaysOk, Working
<1>4. ScanOk'
  <2> SUFFICES ASSUME NEW r \in scan
               PROVE  /\ r[1] \notin touched' => r[2] = term'[r[1]]
                      /\ r[1] \notin beside' => ruled'[r[1]] \in Valid
    BY <1>1 DEF TermInv, ScanOk
  <2>1. r[1] \in Contract /\ InList(r[1])
    BY DEF TermInv, TermTypeOK, InList
  <2>2. r[1] \notin touched' => r[2] = term'[r[1]]
    BY <1>1, <2>1 DEF TermInv, ScanOk, TermTypeOK
  <2>3. r[1] \notin beside' => ruled'[r[1]] \in Valid
    BY <2>1 DEF TermInv, ScanOk, TermTypeOK, Rule
  <2>4. QED
    BY <2>2, <2>3
<1>5. RuledOk'
  BY <1>1 DEF TermInv, RuledOk, TermTypeOK, Rule
<1>6. SeenOk'
  BY <1>1 DEF TermInv, SeenOk, Seen, Ongoing, Working, DaysLeft, TermTypeOK
<1>7. QED
  BY <1>2, <1>3, <1>4, <1>5, <1>6 DEF TermInv

\* The list is of what is in force now.
LEMMA ReadKeeps == TermInv /\ RemindRead => TermInv'
<1> SUFFICES ASSUME TermInv, RemindRead PROVE TermInv'
  OBVIOUS
<1> USE DEF TermInv, RemindRead
<1>0. \A r \in scan' : /\ r[1] \in Contract /\ r[2] = term[r[1]] /\ r = <<r[1], r[2]>>
                       /\ term[r[1]].status \in Valid /\ term[r[1]].end # NoEnd
  OBVIOUS
<1>1. scan' \subseteq Contract \X Term
  BY <1>0 DEF TermTypeOK
<1>2. TermTypeOK'
  <2>1. reach' \subseteq Contract
    BY <1>0
  <2>2. QED
    BY <1>1, <2>1 DEF TermTypeOK
<1>3. DaysOk' /\ RuledOk'
  BY DEF TermTypeOK, DaysOk, Working, RuledOk
<1>4. ScanOk'
  BY <1>0 DEF ScanOk, RuledOk
<1>5. SeenOk'
  <2>1. \A c \in Contract : Ongoing(c) => <<c, term[c]>> \in scan'
    BY DEF Ongoing
  <2>2. \A c \in Contract : <<c, term[c]>>[1] = c
    OBVIOUS
  <2>3. QED
    BY <2>1, <2>2 DEF SeenOk, Ongoing
<1>6. QED
  BY <1>2, <1>3, <1>4, <1>5

\* A row is looked at: its contract is ended, marked, or left, and its reminder is next.
LEMMA UpdateKeeps == TermInv /\ RemindUpdate => TermInv'
<1> SUFFICES ASSUME TermInv, RemindUpdate PROVE TermInv'
  OBVIOUS
<1> DEFINE c(r) == r[1]
<1>1. PICK r \in scan :
        /\ term' = IF NextStatus(r[2]) # r[2].status /\ Exists(r[1])
                   THEN [term EXCEPT ![r[1]].status = NextStatus(r[2])] ELSE term
        /\ scan' = scan \ {r}
        /\ hand' = IF DaysLeft(r[2]) \in RemindDays /\ r[1] \in reach THEN r[1] ELSE NoContract
  BY DEF RemindUpdate
<1>2. /\ hand = NoContract /\ Ends
      /\ UNCHANGED <<today, reach, began, ruled, beside, touched, warned, muted, lost>>
  BY DEF RemindUpdate
<1>3. r[1] \in Contract /\ r[2] \in Term /\ r[2].end \in Int /\ DaysLeft(r[2]) \in Int
      /\ r[2].status \in Valid
  BY EndIsDay DEF TermInv, TermTypeOK, ScanOk, DaysLeft
<1>4. NextStatus(r[2]) \in ContractStatus
  BY <1>3 DEF NextStatus, Valid, ContractStatus
<1>5. Working /\ began = today /\ checked < today
  BY <1>1 DEF TermInv, DaysOk, Working
<1>6. TermTypeOK'
  BY <1>1, <1>2, <1>3, <1>4 DEF TermInv, TermTypeOK, Ends, Term, Status
<1>7. DaysOk'
  BY <1>2, <1>5 DEF TermInv, DaysOk, Working, Ends, TermTypeOK
<1>8. \A d \in Contract \ {r[1]} : term'[d] = term[d]
  BY <1>1, <1>3 DEF TermInv, TermTypeOK
<1>9. ScanOk'
  <2> SUFFICES ASSUME NEW q \in scan \ {r}
               PROVE  q[1] \notin touched' => q[2] = term'[q[1]]
    BY <1>1, <1>2 DEF TermInv, ScanOk
  <2>1. q[1] # r[1] /\ q[1] \in Contract
    BY DEF TermInv, ScanOk, TermTypeOK
  <2>2. QED
    BY <1>2, <1>8, <2>1 DEF TermInv, ScanOk
<1>10. RuledOk'
  BY <1>2, <1>8 DEF TermInv, RuledOk, ScanOk
<1>11. SeenOk'
  <2> SUFFICES ASSUME NEW d \in Contract \ touched, Ongoing(d)'
               PROVE  Seen(d)' \/ \E q \in scan' : q[1] = d
    BY <1>2 DEF SeenOk
  <2>1. CASE d # r[1]
    <3>1. term'[d] = term[d] /\ Ongoing(d)
      BY <1>8, <2>1 DEF Ongoing
    <3>2. Seen(d) => Seen(d)'
      BY <1>2, <3>1, ContractAssumption DEF Seen, DaysLeft
    <3>3. (\E q \in scan : q[1] = d) => \E q \in scan' : q[1] = d
      BY <1>1, <2>1
    <3>4. QED
      BY <1>5, <3>1, <3>2, <3>3 DEF TermInv, SeenOk
  <2>2. CASE d = r[1]
    <3>1. r[2] = term[d] /\ Exists(d)
      BY <1>3, <2>2 DEF TermInv, ScanOk, Exists, Valid
    <3>2. term'[d].end = term[d].end /\ term'[d].status = NextStatus(term[d])
      BY <1>1, <1>3, <2>2, <3>1 DEF TermInv, TermTypeOK, Term
    <3>3. DaysLeft(term[d])' = DaysLeft(term[d])
      BY <1>2, <3>2 DEF DaysLeft
    <3>4. Seen(d)'
      BY <1>1, <1>2, <1>3, <2>2, <3>1, <3>2, <3>3, ContractAssumption
         DEF Seen, NextStatus, Ongoing, Valid
    <3>5. QED
      BY <3>4
  <2>3. QED
    BY <2>1, <2>2
<1>12. QED
  BY <1>6, <1>7, <1>9, <1>10, <1>11 DEF TermInv

\* Every step keeps the invariant.
LEMMA TermStep == TermInv /\ [TermNext]_termVars => TermInv'
<1> SUFFICES ASSUME TermInv, [TermNext]_termVars PROVE TermInv'
  OBVIOUS
<1>0. \A c \in Contract : term[c] \in Term
  BY DEF TermInv, TermTypeOK
<1>1. ASSUME NEW c \in Contract, NEW e \in End, NEW s \in ContractStatus,
             CreateContract(c, s, e) \/ UpdateContract(c, s, e)
      PROVE  TermInv'
  <2>1. [status |-> s, end |-> e] \in Term
    BY DEF Term, Status
  <2>2. QED
    BY <1>1, <2>1, HrKeeps DEF CreateContract, UpdateContract
<1>2. ASSUME NEW c \in Contract, NEW e \in End, ProlongContract(c, e) PROVE TermInv'
  <2>1. [term[c] EXCEPT !.end = e] \in Term /\ [term[c] EXCEPT !.end = e].status = term[c].status
    BY <1>0 DEF Term
  <2>2. term' = [term EXCEPT ![c] = [term[c] EXCEPT !.end = e]]
    BY <1>2 DEF ProlongContract
  <2>3. QED
    BY <1>2, <2>1, <2>2, HrKeeps DEF ProlongContract
<1>3. ASSUME NEW c \in Contract, Terminate(c) \/ RemoveContract(c) \/ EraseContract(c) PROVE TermInv'
  <2>1. /\ [term[c] EXCEPT !.status = "TERMINATED"] \in Term
        /\ [term[c] EXCEPT !.status = "deleted"] \in Term
        /\ [term[c] EXCEPT !.status = "erased"] \in Term
    BY <1>0 DEF Term, Status, ContractStatus
  <2>2. QED
    BY <1>3, <2>1, HrKeeps DEF Terminate, RemoveContract, EraseContract
<1>4. CASE NextDay
  <2>0. muted' \in BOOLEAN
    BY <1>4, ZenonT(10) DEF NextDay
  <2>5. TermTypeOK'
    BY <1>4, <2>0 DEF TermInv, TermTypeOK, NextDay
  <2>1. DaysOk'
    BY <1>4 DEF TermInv, TermTypeOK, DaysOk, NextDay, Working
  <2>2. ScanOk' /\ RuledOk'
    BY <1>4 DEF TermInv, ScanOk, RuledOk, NextDay
  <2>3. SeenOk'
    BY <1>4 DEF TermInv, TermTypeOK, DaysOk, SeenOk, NextDay, Working
  <2>4. QED
    BY <2>1, <2>2, <2>3, <2>5 DEF TermInv
<1>5. CASE RemindDispatch
  <2>1. /\ hand \in Contract /\ hand' = NoContract /\ Ends /\ Working
        /\ UNCHANGED <<term, today, scan, reach, began, ruled, beside, touched>>
        /\ \/ warned' = warned \cup {hand} /\ UNCHANGED <<muted, lost>>
           \/ muted' = TRUE /\ lost' = lost + 1 /\ UNCHANGED warned
    BY <1>5 DEF RemindDispatch, TermInv, TermTypeOK, Working
  <2>2. TermTypeOK'
    <3>1. muted' \in BOOLEAN
      BY <2>1, ZenonT(10) DEF TermInv, TermTypeOK
    <3>2. lost' \in Nat
      BY <2>1 DEF TermInv, TermTypeOK
    <3>3. QED
      BY <2>1, <3>1, <3>2 DEF TermInv, TermTypeOK, Ends
  <2>6. DaysOk'
    BY <2>1 DEF TermInv, TermTypeOK, DaysOk, Working, Ends
  <2>3. ScanOk' /\ RuledOk'
    BY <2>1 DEF TermInv, ScanOk, RuledOk
  <2>4. SeenOk'
    BY <2>1 DEF TermInv, SeenOk, Seen, Ongoing, DaysLeft
  <2>5. QED
    BY <2>2, <2>3, <2>4, <2>6 DEF TermInv
<1>6. CASE RemindBreaks \/ RemindThrows
  <2>1. TermTypeOK'
    BY <1>6 DEF TermInv, TermTypeOK, RemindBreaks, RemindThrows
  <2>2. DaysOk' /\ ScanOk' /\ RuledOk' /\ SeenOk'
    BY <1>6 DEF TermInv, TermTypeOK, DaysOk, ScanOk, RuledOk, SeenOk, RemindBreaks, RemindThrows,
                Working
  <2>3. QED
    BY <2>1, <2>2 DEF TermInv
<1>7. CASE UNCHANGED termVars
  BY <1>7 DEF TermInv, TermTypeOK, DaysOk, ScanOk, RuledOk, SeenOk, Seen, Ongoing, DaysLeft,
              Working, termVars
<1>8. QED
  BY <1>1, <1>2, <1>3, <1>4, <1>5, <1>6, <1>7, ReadKeeps, UpdateKeeps DEF TermNext

\* The invariant says what TermKept says.
LEMMA TermInvKept == TermInv => TermKept
BY ContractAssumption DEF TermInv, TermKept, TermTypeOK, RuledOk, SeenOk, Seen, Ongoing, Working

\* The invariant of the contracts and their cron holds in every reachable state.
THEOREM TermInductive == TermSpec => []TermInv
<1>1. QED
  BY TermInitInv, TermStep, PTL DEF TermSpec

\* The cron ends only what HR holds to be in force; a complete run leaves nothing in
\* force past its end, and no end unreminded of which it read that there was somebody to
\* tell (contract-reminder.service.ts, remind).
THEOREM TermsAreKept == TermSpec => []TermKept
<1>1. QED
  BY TermInductive, TermInvKept, PTL

-----------------------------------------------------------------------------
(* SlaReminder.                                                              *)

\* When step s came on turn, by the stamps of the decisions.
Start(s) == IF s = 1 THEN 0 ELSE decided[s - 1]

\* The mark is of step s.
MarkedFor(s) == s <= turn /\ marked # Unmarked /\ marked >= Start(s)
Marking(s) == cron.at = "mark" /\ cron.turn = s

\* The steps before the one on turn are decided, one after the other and in the past.
StampsOk ==
  /\ \A s \in SlaStep : s < turn => /\ decided[s] \in Nat /\ decided[s] <= clock
                                    /\ \A p \in SlaStep : p < s => decided[p] <= decided[s]
  /\ Start(turn) <= since[turn] /\ since[turn] <= clock
  /\ marked # Unmarked => marked <= clock
  /\ swept <= clock

\* A decision under way is on the step on turn, and a mark made since it was stamped is known
\* to silence the next one.
DecisionOk ==
  decision # Undecided =>
    /\ pending /\ decision.on = turn
    /\ decision.at <= clock /\ Start(turn) <= decision.at
    /\ marked # Unmarked /\ marked >= decision.at /\ turn + 1 \in SlaStep => turn + 1 \in silenced

\* What the cron has read is of the past; the steps decided then are decided as they were.
CronOk ==
  cron # Asleep =>
    /\ cron.now <= clock /\ cron.turn <= turn /\ cron.marked = marked
    /\ \A s \in SlaStep : s < cron.turn => cron.decided[s] = decided[s]
    /\ Start(cron.turn) <= cron.now
    /\ cron.turn # turn => cron.now <= since[turn]
    /\ cron.at = "mark" => reminded[cron.turn] > 0

\* A reminder more than there were failures is on its way to a mark, or marked.
CountOk ==
  \A s \in SlaStep :
    reminded[s] <= misses \/ (reminded[s] <= misses + 1 /\ (Marking(s) \/ MarkedFor(s)))

\* The step on turn is marked because it was reminded, or silenced; and when the cron was
\* last there it did not pass it over.
SweepOk ==
  /\ pending /\ MarkedFor(turn) => reminded[turn] > 0 \/ turn \in silenced
  /\ pending /\ limits[turn] # NoLimit /\ swept > since[turn] + limits[turn] =>
       reminded[turn] > 0 \/ turn \in silenced

SlaInv == SlaTypeOK /\ StampsOk /\ DecisionOk /\ CronOk /\ CountOk /\ SweepOk

\* The steps are numbered from one; each has a limit, or none.
LEMMA SlaSteps ==
  ASSUME SlaTypeOK
  PROVE  /\ Len(limits) \in Nat \ {0} /\ SlaStep = 1 .. Len(limits)
         /\ \A s \in SlaStep : limits[s] # NoLimit => limits[s] \in Nat
BY SlaAssumption DEF SlaTypeOK, SlaStep

\* A cron that is not asleep has read a row.
LEMMA CronRow ==
  ASSUME SlaTypeOK, cron # Asleep
  PROVE  /\ cron \in [at : {"check", "mark"}, now : Nat, turn : SlaStep,
                      decided : [SlaStep -> Time], marked : Time]
         /\ cron.at \in {"check", "mark"} /\ cron.now \in Nat /\ cron.turn \in SlaStep
BY DEF SlaTypeOK

\* The step before one that is not the first.
LEMMA StepBefore ==
  ASSUME SlaTypeOK, NEW s \in SlaStep, s # 1
  PROVE  s - 1 \in SlaStep /\ s - 1 < s /\ \A p \in SlaStep : p < s => p = s - 1 \/ p < s - 1
BY SlaSteps

\* A step that is on turn, or was, came on turn at a time of the past.
LEMMA StartPast ==
  ASSUME SlaTypeOK, StampsOk, NEW s \in SlaStep, s <= turn
  PROVE  Start(s) \in Nat /\ Start(s) <= clock
<1>1. CASE s = 1
  BY <1>1 DEF Start, SlaTypeOK
<1>2. CASE s # 1
  <2>1. s - 1 \in SlaStep /\ s - 1 < turn
    BY <1>2, StepBefore, SlaSteps DEF SlaTypeOK
  <2>2. QED
    BY <1>2, <2>1 DEF Start, StampsOk
<1>3. QED
  BY <1>1, <1>2

\* The latest of the stamps before the step that was read is that of the step before it.
LEMMA StartRead ==
  ASSUME SlaTypeOK, StampsOk, CronOk, cron # Asleep
  PROVE  StepStart(cron) = Start(cron.turn) /\ Start(cron.turn) \in Nat
<1> DEFINE n == cron.turn
           before == {cron.decided[s] : s \in {p \in SlaStep : p < n}} \ {Unmarked}
<1>1. n \in SlaStep /\ n <= turn /\ turn \in Nat
  BY CronRow, SlaSteps DEF CronOk, SlaTypeOK
<1>2. \A s \in SlaStep : s < n => cron.decided[s] = decided[s] /\ decided[s] \in Nat
  BY <1>1, SlaSteps DEF CronOk, StampsOk
<1>3. Start(n) \in Nat
  BY <1>1, StartPast
<1>4. StepStart(cron) = CHOOSE t \in before \cup {0} : \A u \in before : u <= t
  BY DEF StepStart
<1> HIDE DEF n
<1>5. CASE n = 1
  <2>1. before = {}
    BY <1>5, SlaSteps
  <2>2. QED
    BY <1>3, <1>4, <1>5, <2>1 DEF Start, n
<1>6. CASE n # 1
  <2>1. /\ n - 1 \in SlaStep /\ n - 1 < n /\ n - 1 < turn
        /\ \A p \in SlaStep : p < n => p = n - 1 \/ p < n - 1
    <3>1. n \in Int /\ turn \in Int /\ n <= turn /\ \A p \in SlaStep : p \in Int
      BY <1>1, SlaSteps
    <3>2. n - 1 \in SlaStep
      BY <1>1, <1>6, StepBefore
    <3>3. n - 1 < n /\ n - 1 < turn
      BY <3>1
    <3>4. \A p \in SlaStep : p < n => p = n - 1 \/ p < n - 1
      BY <3>1
    <3>5. QED
      BY <3>2, <3>3, <3>4
  <2>2. Start(n) = decided[n - 1]
    BY <1>6 DEF Start
  <2>3. Start(n) \in before
    BY <1>2, <1>3, <2>1, <2>2, SlaAssumption
  <2>4. \A u \in before : u \in Nat /\ u <= Start(n)
    <3> SUFFICES ASSUME NEW s \in SlaStep, s < n
                 PROVE  cron.decided[s] \in Nat /\ cron.decided[s] <= Start(n)
      OBVIOUS
    <3>1. s = n - 1 \/ s < n - 1
      BY <2>1
    <3>2. QED
      BY <1>2, <1>3, <2>1, <2>2, <3>1 DEF StampsOk
  <2> HIDE DEF before
  <2>5. \A t \in before \cup {0} : (\A u \in before : u <= t) => t = Start(n)
    BY <1>3, <2>3, <2>4
  <2>6. \E t \in before \cup {0} : \A u \in before : u <= t
    BY <2>3, <2>4
  <2>7. QED
    BY <1>3, <1>4, <2>5, <2>6 DEF n
<1>7. QED
  BY <1>5, <1>6

\* Initially the first step is on turn and nothing was read.
LEMMA SlaInitInv == SlaInit => SlaInv
<1> SUFFICES ASSUME SlaInit PROVE SlaInv
  OBVIOUS
<1>1. Len(limits) \in Nat \ {0} /\ SlaStep = 1 .. Len(limits)
  BY SlaAssumption DEF SlaInit, SlaStep
<1>2. SlaTypeOK
  BY <1>1 DEF SlaInit, SlaTypeOK, Time, Undecided
<1>3. StampsOk
  BY <1>1 DEF SlaInit, StampsOk, Start
<1>4. DecisionOk /\ CronOk /\ CountOk
  BY <1>1 DEF SlaInit, DecisionOk, CronOk, CountOk
<1>5. SweepOk
  BY <1>1, <1>2, SlaSteps DEF SlaInit, SweepOk, MarkedFor
<1>6. QED
  BY <1>2, <1>3, <1>4, <1>5 DEF SlaInv

\* Time passes.
LEMMA TickKeeps == SlaInv /\ SlaTick => SlaInv'
<1> SUFFICES ASSUME SlaInv, SlaTick PROVE SlaInv'
  OBVIOUS
<1> USE DEF SlaInv, SlaTick
<1>0. clock \in Nat /\ clock' = clock + 1
  BY DEF SlaTypeOK
<1>1. SlaTypeOK'
  BY <1>0 DEF SlaTypeOK, SlaStep
<1>2. StampsOk'
  <2>1. turn \in SlaStep /\ since[turn] \in Nat /\ swept \in Nat /\ marked \in Time
    BY DEF SlaTypeOK
  <2>2. SlaStep' = SlaStep /\ Start(turn)' = Start(turn)
    BY DEF SlaStep, Start
  <2>3. QED
    BY <1>0, <2>1, <2>2 DEF StampsOk, Time
<1>3. DecisionOk'
  BY <1>0 DEF DecisionOk, Start, SlaTypeOK, SlaStep
<1>4. CronOk'
  BY <1>0, CronRow DEF CronOk, Start, SlaStep
<1>5. CountOk' /\ SweepOk'
  BY DEF CountOk, SweepOk, Marking, MarkedFor, Start, SlaStep
<1>6. QED
  BY <1>1, <1>2, <1>3, <1>4, <1>5

\* A decision is stamped: a mark of the same time will count for the next step.
LEMMA StampKeeps == SlaInv /\ DecisionStamp => SlaInv'
<1> SUFFICES ASSUME SlaInv, DecisionStamp PROVE SlaInv'
  OBVIOUS
<1> USE DEF SlaInv, DecisionStamp
<1>0. silenced \subseteq silenced' /\ SlaStep' = SlaStep
  BY DEF SlaStep
<1>1. SlaTypeOK'
  BY <1>0 DEF SlaTypeOK, SlaStep
<1>2. StampsOk'
  BY <1>0 DEF StampsOk, Start
<1>3. DecisionOk'
  <2>1. /\ decision' = [on |-> turn, at |-> clock] /\ pending'
        /\ UNCHANGED <<turn, clock, decided, marked>>
    OBVIOUS
  <2>2. Start(turn)' = Start(turn) /\ Start(turn) <= clock
    BY <2>1, StartPast, SlaSteps DEF Start, SlaTypeOK
  <2>3. marked # Unmarked /\ marked >= clock /\ turn + 1 \in SlaStep => turn + 1 \in silenced'
    BY DEF StampsOk, SlaTypeOK, Time
  <2>4. QED
    BY <2>1, <2>2, <2>3, <1>0 DEF DecisionOk, SlaTypeOK
<1>4. CronOk'
  BY <1>0 DEF CronOk, Start
<1>5. CountOk' /\ SweepOk'
  BY <1>0 DEF CountOk, SweepOk, Marking, MarkedFor, Start
<1>6. QED
  BY <1>1, <1>2, <1>3, <1>4, <1>5

\* A decision is stored: the next step comes on turn, or the request is decided.
LEMMA StoreKeeps == SlaInv /\ DecisionStore => SlaInv'
<1> SUFFICES ASSUME SlaInv, DecisionStore PROVE SlaInv'
  OBVIOUS
<1> USE DEF SlaInv
<1>1. /\ pending /\ decision.on = turn /\ turn \in SlaStep /\ decision.at \in Nat
      /\ decision.at <= clock /\ Start(turn) <= decision.at /\ Start(turn) \in Nat
      /\ marked # Unmarked /\ marked >= decision.at /\ turn + 1 \in SlaStep => turn + 1 \in silenced
  BY StartPast, SlaSteps DEF DecisionStore, DecisionOk, SlaTypeOK
<1>2. /\ decided' = [decided EXCEPT ![turn] = decision.at] /\ decision' = Undecided
      /\ UNCHANGED <<limits, marked, clock, cron, reminded, swept, silenced, misses>>
  BY <1>1 DEF DecisionStore
<1>3. SlaStep' = SlaStep /\ SlaStep = 1 .. Len(limits) /\ Len(limits) \in Nat \ {0}
  BY <1>2, SlaSteps DEF SlaStep
<1>4. \/ /\ turn + 1 \in SlaStep /\ turn' = turn + 1 /\ since' = [since EXCEPT ![turn + 1] = clock]
         /\ pending' = pending
      \/ pending' = FALSE /\ UNCHANGED <<turn, since>>
  BY <1>1 DEF DecisionStore
<1>15. /\ \/ turn' = turn /\ since' = since
          \/ turn + 1 \in SlaStep /\ turn' = turn + 1 /\ since' = [since EXCEPT ![turn + 1] = clock]
       /\ turn \in Nat /\ turn' \in SlaStep /\ turn' \in Nat
  <2>1. \/ turn' = turn /\ since' = since
        \/ turn + 1 \in SlaStep /\ turn' = turn + 1 /\ since' = [since EXCEPT ![turn + 1] = clock]
    BY <1>4, Zenon
  <2>2. QED
    BY <1>1, <1>3, <2>1
<1>5. decided' \in [SlaStep -> Time] /\ decided'[turn] = decision.at
      /\ \A s \in SlaStep \ {turn} : decided'[s] = decided[s]
  BY <1>1, <1>2 DEF SlaTypeOK, Time
<1>6. SlaTypeOK'
  <2>1. pending' \in BOOLEAN
    BY <1>4 DEF SlaTypeOK
  <2>2. turn' \in SlaStep /\ since' \in [SlaStep -> Nat]
    BY <1>4 DEF SlaTypeOK
  <2>3. decision' \in [on : SlaStep \cup {0}, at : Nat]
    BY <1>2 DEF Undecided
  <2>4. QED
    BY <1>2, <1>3, <1>5, <2>1, <2>2, <2>3 DEF SlaTypeOK
<1>7. \A s \in SlaStep : s <= turn => Start(s)' = Start(s)
  <2> SUFFICES ASSUME NEW s \in SlaStep, s <= turn, s # 1 PROVE decided'[s - 1] = decided[s - 1]
    BY DEF Start
  <2>1. s - 1 \in SlaStep /\ s - 1 # turn
    BY <1>3 DEF SlaTypeOK
  <2>2. QED
    BY <1>5, <2>1
<1>8. \A s \in SlaStep : s < turn => /\ decided[s] \in Nat /\ decided[s] <= Start(turn)
                                     /\ decided[s] <= decision.at /\ decided[s] <= clock
  <2> SUFFICES ASSUME NEW s \in SlaStep, s < turn
               PROVE  /\ decided[s] \in Nat /\ decided[s] <= Start(turn)
                      /\ decided[s] <= decision.at /\ decided[s] <= clock
    OBVIOUS
  <2>1. /\ turn # 1 /\ turn - 1 \in SlaStep /\ turn - 1 < turn /\ Start(turn) = decided[turn - 1]
        /\ (s = turn - 1 \/ s < turn - 1)
    BY <1>1, <1>3 DEF Start
  <2>2. QED
    BY <1>1, <2>1 DEF StampsOk, SlaTypeOK
<1>9. StampsOk'
  <2>1. ASSUME NEW s \in SlaStep, s < turn'
        PROVE  /\ decided'[s] \in Nat /\ decided'[s] <= clock
               /\ \A p \in SlaStep : p < s => decided'[p] <= decided'[s]
    <3>1. s = turn \/ s < turn
      BY <1>3, <1>15, <2>1
    <3>2. CASE s = turn
      BY <1>1, <1>3, <1>5, <1>8, <3>2
    <3>3. CASE s < turn
      BY <1>1, <1>3, <1>5, <1>8, <3>3 DEF StampsOk
    <3>4. QED
      BY <3>1, <3>2, <3>3
  <2>2. Start(turn)' <= since'[turn'] /\ since'[turn'] <= clock
    <3>1. CASE turn' = turn
      <4>1. since' = since /\ Start(turn)' = Start(turn)
        BY <1>1, <1>7, <1>15, <3>1 DEF Start
      <4>2. QED
        BY <3>1, <4>1 DEF StampsOk
    <3>2. CASE turn' = turn + 1
      <4>1. Start(turn)' = decision.at
        BY <1>1, <1>3, <1>5, <3>2 DEF Start
      <4>2. since'[turn'] = clock
        BY <1>15, <3>2 DEF SlaTypeOK
      <4>3. QED
        BY <1>1, <4>1, <4>2 DEF SlaTypeOK
    <3>3. QED
      BY <1>15, <3>1, <3>2
  <2>3. QED
    BY <1>2, <1>3, <2>1, <2>2 DEF StampsOk
<1>10. DecisionOk'
  BY <1>2 DEF DecisionOk
<1>11. CronOk'
  <2> SUFFICES ASSUME cron # Asleep
               PROVE  /\ cron.turn <= turn'
                      /\ \A s \in SlaStep : s < cron.turn => cron.decided[s] = decided'[s]
                      /\ Start(cron.turn)' <= cron.now
                      /\ cron.turn # turn' => cron.now <= since'[turn']
    BY <1>2, <1>3 DEF CronOk
  <2>1. cron.turn \in SlaStep /\ cron.turn <= turn /\ cron.now <= clock
    BY CronRow DEF CronOk
  <2>2. cron.turn # turn' => cron.now <= since'[turn']
    <3>1. CASE turn' = turn
      BY <1>15, <3>1 DEF CronOk
    <3>2. CASE turn' = turn + 1
      BY <1>15, <2>1, <3>2 DEF SlaTypeOK
    <3>3. QED
      BY <1>15, <3>1, <3>2
  <2>3. Start(cron.turn)' = Start(cron.turn)
    BY <1>2, <1>7, <2>1 DEF Start
  <2>4. QED
    <3>1. cron.turn <= turn'
      BY <1>3, <1>15, <2>1
    <3>2. \A s \in SlaStep : s < cron.turn => cron.decided[s] = decided'[s]
      BY <1>3, <1>5, <1>15, <2>1 DEF CronOk
    <3>3. QED
      BY <2>2, <2>3, <3>1, <3>2 DEF CronOk
<1>12. CountOk'
  <2> SUFFICES ASSUME NEW s \in SlaStep, Marking(s) \/ MarkedFor(s)
               PROVE  Marking(s)' \/ MarkedFor(s)'
    BY <1>2, <1>3 DEF CountOk
  <2>1. Marking(s) => Marking(s)'
    BY <1>2 DEF Marking
  <2>2. MarkedFor(s) => MarkedFor(s)'
    BY <1>2, <1>3, <1>7, <1>15 DEF MarkedFor, Start
  <2>3. QED
    BY <2>1, <2>2
<1>13. SweepOk'
  <2> SUFFICES ASSUME turn + 1 \in SlaStep, turn' = turn + 1, since'[turn'] = clock, limits' = limits
               PROVE  /\ MarkedFor(turn)' => turn' \in silenced
                      /\ ~ (limits[turn'] # NoLimit /\ swept > clock + limits[turn'])
    <3>1. CASE pending' /\ turn' = turn + 1
      <4>1. since'[turn'] = clock /\ turn + 1 \in SlaStep
        BY <1>15, <3>1 DEF SlaTypeOK
      <4>2. QED
        BY <1>2, <1>3, <3>1, <4>1 DEF SweepOk
    <3>2. CASE ~ pending'
      BY <3>2 DEF SweepOk
    <3>3. QED
      BY <1>4, <3>1, <3>2
  <2>1. Start(turn)' = decision.at
    BY <1>1, <1>3, <1>5 DEF Start
  <2>2. limits[turn'] # NoLimit => limits[turn'] \in Nat
    BY <1>3, SlaSteps
  <2>3. QED
    BY <1>1, <1>2, <2>1, <2>2 DEF MarkedFor, StampsOk, SlaTypeOK
<1>14. QED
  BY <1>6, <1>9, <1>10, <1>11, <1>12, <1>13

\* The cron reads a row.
LEMMA SlaReadKeeps == SlaInv /\ SlaRead => SlaInv'
<1> SUFFICES ASSUME SlaInv, SlaRead PROVE SlaInv'
  OBVIOUS
<1> USE DEF SlaInv, SlaRead
<1>0. /\ cron' = [at |-> "check", now |-> clock, turn |-> turn, decided |-> decided, marked |-> marked]
      /\ SlaStep' = SlaStep /\ turn \in SlaStep /\ clock \in Nat /\ since[turn] \in Nat
  BY DEF SlaTypeOK, SlaStep
<1>1. SlaTypeOK'
  BY <1>0 DEF SlaTypeOK, SlaStep
<1>2. StampsOk' /\ DecisionOk'
  BY <1>0 DEF StampsOk, DecisionOk, Start
<1>3. CronOk'
  <2>1. Start(turn) \in Nat /\ Start(turn) <= clock /\ turn \in Nat
    BY <1>0, StartPast, SlaSteps
  <2>2. Start(turn)' = Start(turn)
    BY DEF Start
  <2>3. QED
    BY <1>0, <2>1, <2>2 DEF CronOk, Start
<1>4. \A s \in SlaStep : ~ Marking(s) /\ ~ Marking(s)'
  BY <1>0 DEF Marking, Asleep
<1>5. \A s \in SlaStep : MarkedFor(s)' = MarkedFor(s)
  BY DEF MarkedFor, Start
<1>6. CountOk'
  BY <1>0, <1>4, <1>5 DEF CountOk
<1>7. SweepOk'
  BY <1>0, <1>5 DEF SweepOk, MarkedFor, Start
<1>8. QED
  BY <1>1, <1>2, <1>3, <1>6, <1>7

\* What an overdue step that is reminded is: not reminded before, but for a failure.
LEMMA RemindKeeps == SlaInv /\ SlaRemind => SlaInv'
<1> SUFFICES ASSUME SlaInv, SlaRemind PROVE SlaInv'
  OBVIOUS
<1> USE DEF SlaInv, SlaRemind
<1>0. /\ cron # Asleep /\ cron.turn \in SlaStep /\ SlaStep' = SlaStep
      /\ cron' # Asleep /\ cron'.at = "mark" /\ cron'.now = cron.now /\ cron'.turn = cron.turn
      /\ cron'.decided = cron.decided /\ cron'.marked = cron.marked
  <2>1. cron # Asleep
    BY DEF Asleep
  <2>2. QED
    BY <2>1, CronRow DEF Asleep, SlaStep
<1>1. /\ reminded' \in [SlaStep -> Nat] /\ reminded'[cron.turn] = reminded[cron.turn] + 1
      /\ \A s \in SlaStep : s # cron.turn => reminded'[s] = reminded[s]
      /\ \A s \in SlaStep : reminded[s] \in Nat /\ reminded'[s] >= reminded[s]
  BY <1>0 DEF SlaTypeOK
<1>2. SlaTypeOK'
  <2>1. cron' \in [at : {"check", "mark"}, now : Nat, turn : SlaStep,
                   decided : [SlaStep -> Time], marked : Time]
    BY <1>0, CronRow
  <2>2. QED
    BY <1>0, <1>1, <2>1 DEF SlaTypeOK
<1>3. StampsOk' /\ DecisionOk'
  BY <1>0 DEF StampsOk, DecisionOk, Start
<1>4. CronOk'
  BY <1>0, <1>1 DEF CronOk, Start
<1>5. ~ MarkedFor(cron.turn) /\ Marking(cron.turn)' /\ ~ Marking(cron.turn)
  BY <1>0, StartRead DEF Overdue, MarkedFor, Marking, CronOk
<1>6. CountOk'
  BY <1>0, <1>1, <1>5 DEF CountOk, Marking, MarkedFor, Start, SlaTypeOK
<1>7. SweepOk'
  BY <1>0, <1>1 DEF SweepOk, MarkedFor, Start, SlaTypeOK
<1>8. QED
  BY <1>2, <1>3, <1>4, <1>6, <1>7

\* A step that the cron passes over is within its limit, or marked already.
LEMMA PassKeeps == SlaInv /\ SlaPass => SlaInv'
<1> SUFFICES ASSUME SlaInv, SlaPass PROVE SlaInv'
  OBVIOUS
<1> USE DEF SlaInv, SlaPass
<1>0. /\ cron # Asleep /\ cron.now \in Nat /\ cron.turn \in SlaStep /\ SlaStep' = SlaStep
      /\ cron' = Asleep /\ Asleep.at = "idle" /\ turn \in SlaStep /\ since[turn] \in Nat
  <2>1. cron # Asleep
    BY DEF Asleep
  <2>2. QED
    BY <2>1, CronRow DEF Asleep, SlaStep, SlaTypeOK
<1>1. SlaTypeOK'
  BY <1>0 DEF SlaTypeOK
<1>2. StampsOk' /\ DecisionOk' /\ CronOk'
  BY <1>0 DEF StampsOk, DecisionOk, CronOk, Start
<1>3. CountOk'
  BY <1>0 DEF CountOk, Marking, MarkedFor, Start
<1>4. SweepOk'
  <2> SUFFICES ASSUME pending, limits[turn] # NoLimit, cron.now > since[turn] + limits[turn]
               PROVE  reminded[turn] > 0 \/ turn \in silenced
    BY <1>0 DEF SweepOk, MarkedFor, Start
  <2>1. limits[turn] \in Nat
    BY <1>0, SlaSteps
  <2>2. cron.turn = turn
    BY <1>0, <2>1 DEF CronOk
  <2>3. StepStart(cron) = Start(turn) /\ Start(turn) \in Nat
    BY <1>0, <2>2, StartRead
  <2>4. cron.now > StepStart(cron) + limits[turn]
    BY <1>0, <2>1, <2>3 DEF StampsOk
  <2>5. marked # Unmarked /\ marked >= Start(turn)
    BY <1>0, <2>2, <2>3, <2>4 DEF Overdue, CronOk
  <2>6. MarkedFor(turn)
    BY <1>0, <2>5, SlaSteps DEF MarkedFor
  <2>7. QED
    BY <2>6 DEF SweepOk
<1>5. QED
  BY <1>1, <1>2, <1>3, <1>4

\* The mark is of the step that was reminded; whatever step it falls to beside, is silenced.
LEMMA MarkKeeps == SlaInv /\ SlaMark => SlaInv'
<1> SUFFICES ASSUME SlaInv, SlaMark PROVE SlaInv'
  OBVIOUS
<1> USE DEF SlaInv, SlaMark
<1>0. /\ cron # Asleep /\ cron.now \in Nat /\ cron.turn \in SlaStep /\ SlaStep' = SlaStep
      /\ cron' = Asleep /\ Asleep.at = "idle" /\ turn \in SlaStep /\ since[turn] \in Nat
      /\ clock \in Nat /\ marked' = clock /\ marked' # Unmarked
  <2>1. cron # Asleep
    BY DEF Asleep
  <2>2. QED
    BY <2>1, CronRow, SlaAssumption DEF Asleep, SlaStep, SlaTypeOK
<1>1. silenced \subseteq silenced' /\ silenced' \subseteq SlaStep
  BY DEF SlaTypeOK
<1>2. SlaTypeOK'
  BY <1>0, <1>1 DEF SlaTypeOK, Time
<1>3. StampsOk' /\ CronOk'
  BY <1>0 DEF StampsOk, CronOk, Start
<1>4. DecisionOk'
  <2>1. decision # Undecided => decision.on = turn /\ decision.at <= clock
    BY DEF DecisionOk
  <2>2. decision # Undecided /\ turn + 1 \in SlaStep => turn + 1 \in silenced'
    BY <2>1
  <2>3. QED
    BY <2>2, <1>0 DEF DecisionOk, Start
<1>5. CountOk'
  <2> SUFFICES ASSUME NEW s \in SlaStep, Marking(s) \/ MarkedFor(s) PROVE MarkedFor(s)'
    BY <1>0 DEF CountOk
  <2>1. s <= turn
    BY DEF Marking, MarkedFor, CronOk, Asleep
  <2>2. Start(s) \in Nat /\ Start(s) <= clock /\ Start(s)' = Start(s)
    BY <2>1, StartPast DEF Start
  <2>3. QED
    BY <1>0, <2>1, <2>2 DEF MarkedFor
<1>6. SweepOk'
  <2>1. cron.turn = turn => reminded[turn] > 0
    BY <1>0 DEF CronOk
  <2>2. cron.turn # turn => turn \in silenced'
    BY <1>0
  <2>3. QED
    BY <1>0, <2>1, <2>2 DEF SweepOk
<1>7. QED
  BY <1>2, <1>3, <1>4, <1>5, <1>6

\* A run of the cron that fails leaves the row unmarked.
LEMMA MissKeeps == SlaInv /\ SlaMiss => SlaInv'
<1> SUFFICES ASSUME SlaInv, SlaMiss PROVE SlaInv'
  OBVIOUS
<1> USE DEF SlaInv, SlaMiss
<1>0. SlaStep' = SlaStep /\ cron' = Asleep /\ misses \in Nat /\ misses' = misses + 1
      /\ \A s \in SlaStep : reminded[s] \in Nat
  BY DEF SlaStep, SlaTypeOK
<1>1. SlaTypeOK'
  BY <1>0 DEF SlaTypeOK
<1>2. StampsOk' /\ DecisionOk' /\ CronOk'
  BY <1>0 DEF StampsOk, DecisionOk, CronOk, Start
<1>3. CountOk' /\ SweepOk'
  BY <1>0 DEF CountOk, SweepOk, MarkedFor, Start
<1>4. QED
  BY <1>1, <1>2, <1>3

\* Every step keeps the invariant.
LEMMA SlaStepKeeps == SlaInv /\ [SlaNext]_slaVars => SlaInv'
<1>1. SlaInv /\ UNCHANGED slaVars => SlaInv'
  <2> SUFFICES ASSUME SlaInv, UNCHANGED slaVars PROVE SlaInv'
    OBVIOUS
  <2> USE DEF SlaInv, slaVars, SlaStep
  <2>1. SlaTypeOK' /\ StampsOk' /\ DecisionOk'
    BY DEF SlaTypeOK, StampsOk, DecisionOk, Start
  <2>2. CronOk' /\ CountOk' /\ SweepOk'
    BY DEF CronOk, CountOk, SweepOk, Marking, MarkedFor, Start
  <2>3. QED
    BY <2>1, <2>2
<1>2. QED
  BY <1>1, TickKeeps, StampKeeps, StoreKeeps, SlaReadKeeps, RemindKeeps, PassKeeps, MarkKeeps,
     MissKeeps DEF SlaNext

\* The invariant says what EachStepReminded says.
LEMMA SlaInvReminds == SlaInv => EachStepReminded
BY DEF SlaInv, CountOk, SweepOk, EachStepReminded, SlaTypeOK

\* The invariant of the approvals and their cron holds in every reachable state.
THEOREM SlaInductive == SlaSpec => []SlaInv
<1>1. QED
  BY SlaInitInv, SlaStepKeeps, PTL DEF SlaSpec

\* One reminder for each step but for failures, and none that was overdue when the cron
\* came by is forgotten, unless the mark of the step before covers it
\* (approval-sla.service.ts, checkOverdue and stepStart).
THEOREM StepsAreReminded == SlaSpec => []EachStepReminded
<1>1. QED
  BY SlaInductive, SlaInvReminds, PTL

-----------------------------------------------------------------------------
(* Least and greatest numbers.                                               *)

\* A set of numbers that is not empty has a least one.
LEMMA LeastExists ==
  ASSUME NEW B \in SUBSET Nat, B # {}
  PROVE  \E m \in B : \A k \in B : m <= k
<1>1. PICK m \in B : \A k \in B : <<k, m>> \notin OpToRel(<, Nat)
  BY NatLessThanWellFounded, WFMin
<1>2. \A k \in B : ~ (k < m)
  BY <1>1 DEF OpToRel
<1>3. QED
  BY <1>2

\* One that is bounded has a greatest one.
LEMMA GreatestExists ==
  ASSUME NEW B \in SUBSET Nat, B # {}, NEW n \in Nat, \A k \in B : k <= n
  PROVE  \E m \in B : \A k \in B : k <= m
<1> DEFINE U == {m \in Nat : \A k \in B : k <= m}
<1>1. PICK m \in U : \A k \in U : m <= k
  BY LeastExists
<1>2. CASE m \in B
  BY <1>1, <1>2
<1>3. CASE m \notin B
  <2>1. PICK k \in B : TRUE
    OBVIOUS
  <2>2. k < m
    BY <1>1, <1>3
  <2>3. PICK p \in Nat : p + 1 = m
    BY <2>2, <1>1
  <2>4. \A j \in B : j <= p
    BY <1>1, <1>3, <2>3
  <2>5. p \in U
    BY <2>4
  <2>6. QED
    BY <1>1, <2>3, <2>5
<1>4. QED
  BY <1>2, <1>3

\* What Min chooses.
LEMMA MinIs ==
  ASSUME NEW B \in SUBSET Nat, B # {}
  PROVE  Min(B) \in B /\ \A k \in B : Min(B) <= k
BY LeastExists DEF Min

\* The largest of a bounded set of numbers.
LEMMA MaxIs ==
  ASSUME NEW B \in SUBSET Nat, B # {}, NEW n \in Nat, \A k \in B : k <= n
  PROVE  Max(B) \in B /\ \A k \in B : k <= Max(B)
<1>1. \E m \in B : \A k \in B : m >= k
  BY GreatestExists
<1>2. QED
  BY <1>1 DEF Max

\* The larger and the smaller of two numbers.
LEMMA TwoNumbers ==
  ASSUME NEW a \in Int, NEW b \in Int
  PROVE  /\ AtLeast(a, b) = IF a >= b THEN a ELSE b
         /\ AtMost(a, b) = IF a <= b THEN a ELSE b
<1>1. /\ \A x \in {a, b} : (\A y \in {a, b} : x >= y) => x = IF a >= b THEN a ELSE b
      /\ \E x \in {a, b} : \A y \in {a, b} : x >= y
  OBVIOUS
<1>2. /\ \A x \in {a, b} : (\A y \in {a, b} : x =< y) => x = IF a <= b THEN a ELSE b
      /\ \E x \in {a, b} : \A y \in {a, b} : x =< y
  OBVIOUS
<1>3. AtLeast(a, b) = IF a >= b THEN a ELSE b
  <2>1. AtLeast(a, b) \in {a, b} /\ \A y \in {a, b} : AtLeast(a, b) >= y
    BY <1>1 DEF AtLeast, Max
  <2>2. QED
    BY <1>1, <2>1
<1>4. AtMost(a, b) = IF a <= b THEN a ELSE b
  <2>1. AtMost(a, b) \in {a, b} /\ \A y \in {a, b} : AtMost(a, b) =< y
    BY <1>2 DEF AtMost, Min
  <2>2. QED
    BY <1>2, <2>1
<1>5. QED
  BY <1>3, <1>4

-----------------------------------------------------------------------------
(* DayCount.                                                                 *)

\* The logs of a day, with nothing said of when they come.
DaySpec == DayInit /\ [][DayNext]_dayVars

\* The logs of a day have a last one.
DayInv == DayTypeOK /\ \E n \in Nat : \A l \in logs : l.at <= n

\* It holds of the empty day.
LEMMA DayInitInv == DayInit => DayInv
<1> SUFFICES ASSUME DayInit PROVE DayInv
  OBVIOUS
<1>1. DayTypeOK
  BY DEF DayInit, DayTypeOK
<1>2. \A l \in logs : l.at <= 0
  BY DEF DayInit
<1>3. QED
  BY <1>1, <1>2 DEF DayInv

\* A log that is taken may be the last.
LEMMA DayStep == DayInv /\ [DayNext]_dayVars => DayInv'
<1> SUFFICES ASSUME DayInv, [DayNext]_dayVars PROVE DayInv'
  OBVIOUS
<1> USE DayCountAssumption
<1>1. ASSUME NEW l \in Log, Punch(l) PROVE DayInv'
  <2>1. DayTypeOK'
    BY <1>1 DEF Punch, DayInv, DayTypeOK
  <2>2. PICK n \in Nat : \A k \in logs : k.at <= n
    BY DEF DayInv
  <2>3. l.at \in Nat /\ \A k \in logs : k.at \in Nat
    BY DEF Log, DayInv, DayTypeOK
  <2>4. PICK m \in Nat : n <= m /\ l.at <= m
    <3>1. n <= n + l.at /\ l.at <= n + l.at /\ n + l.at \in Nat
      BY <2>2, <2>3
    <3>2. QED
      BY <3>1
  <2>5. \A k \in logs' : k.at <= m
    BY <1>1, <2>2, <2>3, <2>4 DEF Punch
  <2>6. QED
    BY <2>1, <2>5 DEF DayInv
<1>2. ASSUME NEW d \in Days, ToggleDay(d) PROVE DayInv'
  <2>1. DayTypeOK' /\ logs' = logs
    BY <1>2 DEF ToggleDay, DayInv, DayTypeOK
  <2>2. QED
    BY <2>1 DEF DayInv
<1>3. CASE UNCHANGED dayVars
  BY <1>3 DEF dayVars, DayInv, DayTypeOK
<1>4. QED
  BY <1>1, <1>2, <1>3 DEF DayNext

\* The numbers from a up to, but not including, b.
LEMMA Between ==
  ASSUME NEW a \in Int, NEW b \in Int
  PROVE  /\ IsFiniteSet(a..(b - 1))
         /\ Cardinality(a..(b - 1)) = IF b > a THEN b - a ELSE 0
BY FS_Interval

\* The minutes worked as an interval, less the window.
LEMMA MinutesAre ==
  ASSUME NEW s \in Shifts, NEW in \in Nat, NEW out \in Nat
  PROVE  LET from == AtLeast(in, s.start)   to == AtMost(out, s.end)
         IN MinutesWorked(s, in, out) =
              IF s.breakStart = None THEN from..(to - 1)
              ELSE (from..(to - 1)) \ (s.breakStart..(s.breakEnd - 1))
<1> DEFINE from == AtLeast(in, s.start)
           to == AtMost(out, s.end)
<1>1. s.start \in Nat /\ s.end \in Nat
  BY DayCountAssumption
<1>2. s.breakStart # None => s.breakStart \in Nat /\ s.breakEnd \in Nat
  BY DayCountAssumption
<1>3. from = (IF in >= s.start THEN in ELSE s.start) /\ to = (IF out <= s.end THEN out ELSE s.end)
  BY <1>1, TwoNumbers
<1> HIDE DEF from, to
<1>4. \A k \in Int : (k \in s.start..(s.end - 1) /\ in <= k /\ k < out) <=> k \in from..(to - 1)
  BY <1>1, <1>3
<1>5. CASE s.breakStart = None
  <2>1. MinutesWorked(s, in, out) = {k \in s.start..(s.end - 1) : in <= k /\ k < out}
    BY <1>5 DEF MinutesWorked
  <2>2. \A k : k \in from..(to - 1) => k \in Int
    OBVIOUS
  <2>3. MinutesWorked(s, in, out) = from..(to - 1)
    BY <1>4, <2>1, <2>2
  <2>4. QED
    BY <1>5, <2>3 DEF from, to
<1>6. CASE s.breakStart # None
  <2>1. MinutesWorked(s, in, out) =
          {k \in s.start..(s.end - 1) : in <= k /\ k < out /\ ~ (s.breakStart <= k /\ k < s.breakEnd)}
    BY <1>6 DEF MinutesWorked
  <2>2. \A k \in Int : (s.breakStart <= k /\ k < s.breakEnd) <=> k \in s.breakStart..(s.breakEnd - 1)
    BY <1>2, <1>6
  <2>3. MinutesWorked(s, in, out) = (from..(to - 1)) \ (s.breakStart..(s.breakEnd - 1))
    BY <1>4, <2>1, <2>2
  <2>4. QED
    BY <1>6, <2>3 DEF from, to
<1>7. QED
  BY <1>5, <1>6

\* How much of the time from one to another falls into a window.
LEMMA OverlapIs ==
  ASSUME NEW a1 \in Int, NEW a2 \in Int, NEW b1 \in Int, NEW b2 \in Int
  PROVE  /\ IsFiniteSet((a1..(a2 - 1)) \ (b1..(b2 - 1)))
         /\ Cardinality((a1..(a2 - 1)) \ (b1..(b2 - 1))) =
              Cardinality(a1..(a2 - 1)) - Overlap(a1, a2, b1, b2)
<1> DEFINE low == IF a1 >= b1 THEN a1 ELSE b1
           high == IF a2 <= b2 THEN a2 ELSE b2
<1>1. low \in Int /\ high \in Int /\ AtLeast(a1, b1) = low /\ AtMost(a2, b2) = high
  BY TwoNumbers
<1>2. (a1..(a2 - 1)) \cap (b1..(b2 - 1)) = low..(high - 1)
  OBVIOUS
<1> HIDE DEF low, high
<1>3. Overlap(a1, a2, b1, b2) = IF high >= low THEN high - low ELSE 0
  <2>1. high - low \in Int
    BY <1>1
  <2>2. AtLeast(high - low, 0) = IF high - low >= 0 THEN high - low ELSE 0
    BY <2>1, TwoNumbers
  <2>3. QED
    BY <1>1, <2>2 DEF Overlap
<1>4. Cardinality(low..(high - 1)) = Overlap(a1, a2, b1, b2)
  <2>1. Cardinality(low..(high - 1)) = IF high > low THEN high - low ELSE 0
    BY <1>1, Between
  <2>2. QED
    BY <1>1, <1>3, <2>1
<1>5. /\ IsFiniteSet((a1..(a2 - 1)) \ (b1..(b2 - 1)))
      /\ Cardinality((a1..(a2 - 1)) \ (b1..(b2 - 1))) =
           Cardinality(a1..(a2 - 1)) - Cardinality((a1..(a2 - 1)) \cap (b1..(b2 - 1)))
  BY Between, FS_Difference
<1>6. QED
  BY <1>2, <1>3, <1>4, <1>5 DEF low, high

\* What is worked is the number of minutes worked, less a fixed break.
LEMMA WorkIs ==
  ASSUME NEW s \in Shifts, NEW in \in Nat, NEW out \in Nat
  PROVE  /\ IsFiniteSet(MinutesWorked(s, in, out))
         /\ Cardinality(MinutesWorked(s, in, out)) \in Nat
         /\ WorkMinutes(s, in, out) \in Nat
         /\ s.breakStart # None => WorkMinutes(s, in, out) = Cardinality(MinutesWorked(s, in, out))
         /\ s.breakStart = None =>
              WorkMinutes(s, in, out) \in (Cardinality(MinutesWorked(s, in, out)) - s.breakMinutes)
                                            ..Cardinality(MinutesWorked(s, in, out))
<1> DEFINE from == AtLeast(in, s.start)
           to == AtMost(out, s.end)
           stay == AtLeast(to - from, 0)
           rest == IF s.breakStart # None THEN Overlap(from, to, s.breakStart, s.breakEnd)
                   ELSE IF stay > s.breakMinutes THEN s.breakMinutes ELSE 0
           C == Cardinality(MinutesWorked(s, in, out))
<1>1. s.start \in Nat /\ s.end \in Nat /\ s.breakMinutes \in Nat
  BY DayCountAssumption
<1>2. s.breakStart # None => s.breakStart \in Nat /\ s.breakEnd \in Nat
  BY DayCountAssumption
<1>3. from \in Int /\ to \in Int
  BY <1>1, TwoNumbers
<1>4. MinutesWorked(s, in, out) =
        IF s.breakStart = None THEN from..(to - 1)
        ELSE (from..(to - 1)) \ (s.breakStart..(s.breakEnd - 1))
  BY MinutesAre
<1>5. WorkMinutes(s, in, out) = AtLeast(stay - rest, 0)
  BY DEF WorkMinutes
<1> HIDE DEF from, to
<1>6. stay = IF to > from THEN to - from ELSE 0
  <2>1. to - from \in Int
    BY <1>3
  <2>2. AtLeast(to - from, 0) = IF to - from >= 0 THEN to - from ELSE 0
    BY <2>1, TwoNumbers
  <2>3. QED
    BY <1>3, <2>2
<1>7. IsFiniteSet(from..(to - 1)) /\ Cardinality(from..(to - 1)) = stay
  BY <1>3, <1>6, Between
<1>8. stay \in Nat
  BY <1>3, <1>6
<1> HIDE DEF stay
<1>9. CASE s.breakStart = None
  <2>1. IsFiniteSet(MinutesWorked(s, in, out)) /\ C = stay
    BY <1>4, <1>7, <1>9
  <2>2. rest = (IF stay > s.breakMinutes THEN s.breakMinutes ELSE 0) /\ rest \in Nat
    BY <1>1, <1>9
  <2> HIDE DEF rest
  <2>3. WorkMinutes(s, in, out) = IF stay - rest >= 0 THEN stay - rest ELSE 0
    <3>1. stay - rest \in Int
      BY <1>8, <2>2
    <3>2. QED
      BY <1>5, <3>1, TwoNumbers
  <2>4. WorkMinutes(s, in, out) \in Nat /\ WorkMinutes(s, in, out) \in (stay - s.breakMinutes)..stay
    BY <1>1, <1>8, <2>2, <2>3
  <2>5. QED
    BY <1>8, <1>9, <2>1, <2>4
<1>10. CASE s.breakStart # None
  <2>1. s.breakStart \in Int /\ s.breakEnd \in Int
    BY <1>2, <1>10
  <2>2. rest = Overlap(from, to, s.breakStart, s.breakEnd)
    BY <1>10
  <2>3. /\ IsFiniteSet(MinutesWorked(s, in, out))
        /\ C = stay - rest
    <3> DEFINE D == (from..(to - 1)) \ (s.breakStart..(s.breakEnd - 1))
    <3>1. MinutesWorked(s, in, out) = D
      BY <1>4, <1>10
    <3> HIDE DEF rest
    <3>2. /\ IsFiniteSet(D)
          /\ Cardinality(D) = Cardinality(from..(to - 1)) - Overlap(from, to, s.breakStart, s.breakEnd)
      BY <1>3, <2>1, OverlapIs
    <3> HIDE DEF D
    <3>3. QED
      BY <1>7, <2>2, <3>1, <3>2
  <2>4. C \in Nat
    BY <2>3, FS_CardinalityType
  <2>5. WorkMinutes(s, in, out) = C
    <3> HIDE DEF rest, C
    <3>1. C \in Int /\ C >= 0 /\ WorkMinutes(s, in, out) = AtLeast(C, 0)
      BY <1>5, <2>3, <2>4
    <3>2. QED
      BY <3>1, TwoNumbers
  <2>6. QED
    BY <1>10, <2>3, <2>4, <2>5
<1>11. QED
  BY <1>9, <1>10

\* One who goes later has worked no less, unless his break is fixed.
LEMMA WorkGrows ==
  ASSUME NEW s \in Shifts, s.breakStart # None, NEW in \in Nat, NEW o1 \in Nat, NEW o2 \in Nat, o1 <= o2
  PROVE  WorkMinutes(s, in, o1) <= WorkMinutes(s, in, o2)
<1>1. s.start \in Nat /\ s.end \in Nat
  BY DayCountAssumption
<1>2. MinutesWorked(s, in, o1) \in SUBSET MinutesWorked(s, in, o2)
  BY <1>1 DEF MinutesWorked
<1>3. Cardinality(MinutesWorked(s, in, o1)) <= Cardinality(MinutesWorked(s, in, o2))
  BY <1>2, WorkIs, FS_Subset
<1>4. QED
  BY <1>3, WorkIs

\* Who came within the grace and stayed to the end misses no more of the shift than the grace.
LEMMA PresentMinutes ==
  ASSUME NEW s \in Shifts, s.breakStart # None, NEW in \in Nat, NEW out \in Nat,
         in <= s.start + s.grace, s.end <= out
  PROVE  Cardinality({k \in s.start..(s.end - 1) : k < s.breakStart \/ k >= s.breakEnd})
           - WorkMinutes(s, in, out) <= s.grace
<1> DEFINE A == {k \in s.start..(s.end - 1) : k < s.breakStart \/ k >= s.breakEnd}
           M == MinutesWorked(s, in, out)
           L == s.start..(in - 1)
<1>1. s.start \in Nat /\ s.end \in Nat /\ s.grace \in Nat /\ s.breakStart \in Nat /\ s.breakEnd \in Nat
  BY DayCountAssumption
<1>2. A \subseteq M \cup L
  BY <1>1 DEF MinutesWorked
<1>3. IsFiniteSet(L) /\ Cardinality(L) <= s.grace /\ Cardinality(L) \in Nat
  <2>1. Cardinality(L) = IF in > s.start THEN in - s.start ELSE 0
    BY <1>1, Between
  <2>2. IsFiniteSet(L)
    <3>1. PICK a \in Int : a = s.start
      BY <1>1
    <3>2. IsFiniteSet(a..(in - 1))
      BY Between
    <3>3. QED
      BY <3>1, <3>2
  <2>3. QED
    BY <1>1, <2>1, <2>2
<1>4. IsFiniteSet(M) /\ Cardinality(M) \in Nat /\ WorkMinutes(s, in, out) = Cardinality(M)
  BY WorkIs
<1> HIDE DEF A, M, L
<1>5. /\ IsFiniteSet(M \cup L) /\ IsFiniteSet(M \cap L)
      /\ Cardinality(M \cup L) = Cardinality(M) + Cardinality(L) - Cardinality(M \cap L)
  BY <1>3, <1>4, FS_Union, FS_Intersection
<1>6. Cardinality(M \cap L) \in Nat /\ Cardinality(M \cup L) \in Nat
  BY <1>5, FS_CardinalityType
<1>7. IsFiniteSet(A) /\ Cardinality(A) <= Cardinality(M \cup L)
  BY <1>2, <1>5, FS_Subset
<1>8. Cardinality(A) \in Nat
  BY <1>7, FS_CardinalityType
<1>9. QED
  BY <1>1, <1>3, <1>4, <1>5, <1>6, <1>7, <1>8 DEF A

\* The times of logs are numbers.
LEMMA LogTimes ==
  ASSUME DayInv, NEW types
  PROVE  TimesOf(logs, types) \in SUBSET Nat /\ \A l \in logs : l.at \in Nat
BY DayCountAssumption DEF DayInv, DayTypeOK, Log, TimesOf

\* Who has logs came at the time of one of them.
LEMMA FirstIs ==
  ASSUME DayInv, logs # {}
  PROVE  FirstIn(logs) \in Nat
<1>1. TimesOf(logs, LogType) # {} /\ TimesOf(logs, LogType) \in SUBSET Nat
  <2>1. PICK l \in logs : TRUE
    OBVIOUS
  <2>2. l.type \in LogType /\ l \in {k \in logs : k.type \in LogType}
    BY DEF DayInv, DayTypeOK, Log
  <2>3. l.at \in TimesOf(logs, LogType)
    BY <2>2 DEF TimesOf
  <2>4. QED
    BY <2>3, LogTimes
<1>2. CASE TimesOf(logs, {"IN"}) # {}
  BY <1>2, LogTimes, MinIs DEF FirstIn
<1>3. CASE TimesOf(logs, {"IN"}) = {}
  BY <1>1, <1>3, MinIs DEF FirstIn
<1>4. QED
  BY <1>2, <1>3

\* Who has gone, went at the time of a log.
LEMMA LastIs ==
  ASSUME DayInv, LastOut(logs) # None
  PROVE  LastOut(logs) \in Nat /\ \E l \in logs : l.at = LastOut(logs)
<1>1. PICK n \in Nat : \A l \in logs : l.at <= n
  BY DEF DayInv
<1>2. \A types : TimesOf(logs, types) \in SUBSET Nat /\ \A k \in TimesOf(logs, types) : k <= n
  BY <1>1, LogTimes DEF TimesOf
<1>3. \A types : TimesOf(logs, types) # {} =>
        Max(TimesOf(logs, types)) \in TimesOf(logs, types)
  BY <1>2, MaxIs
<1>4. PICK types : LastOut(logs) = Max(TimesOf(logs, types)) /\ TimesOf(logs, types) # {}
  <2>1. CASE TimesOf(logs, {"OUT"}) # {}
    BY <2>1 DEF LastOut
  <2>2. CASE TimesOf(logs, {"OUT"}) = {}
    <3>1. Cardinality(TimesOf(logs, LogType)) > 1 /\ LastOut(logs) = Max(TimesOf(logs, LogType))
      BY <2>2 DEF LastOut
    <3>2. TimesOf(logs, LogType) # {}
      BY <3>1, FS_EmptySet
    <3>3. QED
      BY <3>1, <3>2
  <2>3. QED
    BY <2>1, <2>2
<1>5. LastOut(logs) \in TimesOf(logs, types)
  BY <1>3, <1>4
<1>6. QED
  BY <1>2, <1>5 DEF TimesOf

\* Another check-out, later than all logs, is the last, and changes nothing of a check-in.
LEMMA LaterOut ==
  ASSUME DayInv, NEW k \in Minute, \A l \in logs : l.at < k, \E l \in logs : l.type = "IN"
  PROVE  LET next == logs \cup {[at |-> k, type |-> "OUT"]}
         IN FirstIn(next) = FirstIn(logs) /\ LastOut(next) = k
<1> DEFINE next == logs \cup {[at |-> k, type |-> "OUT"]}
<1>1. TimesOf(next, {"IN"}) = TimesOf(logs, {"IN"})
  BY DEF TimesOf
<1>2. TimesOf(logs, {"IN"}) # {}
  BY DEF TimesOf
<1>3. FirstIn(next) = FirstIn(logs)
  BY <1>1, <1>2 DEF FirstIn
<1>4. TimesOf(next, {"OUT"}) = TimesOf(logs, {"OUT"}) \cup {k}
  <2>1. PICK r : r = [at |-> k, type |-> "OUT"]
    OBVIOUS
  <2>2. r.at = k /\ r.type = "OUT" /\ next = logs \cup {r}
    BY <2>1
  <2>3. {l \in next : l.type \in {"OUT"}} = {l \in logs : l.type \in {"OUT"}} \cup {r}
    BY <2>2
  <2>4. QED
    BY <2>2, <2>3 DEF TimesOf
<1>5. k \in Nat /\ \A j \in TimesOf(logs, {"OUT"}) : j \in Nat /\ j < k
  BY LogTimes, DayCountAssumption DEF TimesOf
<1>6. Max(TimesOf(next, {"OUT"})) = k
  <2>1. TimesOf(next, {"OUT"}) \in SUBSET Nat /\ \A j \in TimesOf(next, {"OUT"}) : j <= k
    <3>1. ASSUME NEW j \in TimesOf(next, {"OUT"}) PROVE j \in Nat /\ j <= k
      <4>1. j = k \/ j \in TimesOf(logs, {"OUT"})
        BY <1>4, <3>1
      <4>2. QED
        BY <1>5, <4>1
    <3>2. QED
      BY <3>1
  <2>2. Max(TimesOf(next, {"OUT"})) \in TimesOf(next, {"OUT"}) /\ k <= Max(TimesOf(next, {"OUT"}))
    BY <1>4, <1>5, <2>1, MaxIs
  <2>3. PICK m \in Nat : m = Max(TimesOf(next, {"OUT"}))
    BY <2>1, <2>2
  <2>4. m <= k /\ k <= m /\ k \in Nat
    BY <1>5, <2>1, <2>2, <2>3
  <2>5. m = k
    BY <2>4
  <2>6. QED
    BY <2>3, <2>5
<1>7. LastOut(next) = k
  BY <1>4, <1>6 DEF LastOut
<1>8. QED
  BY <1>3, <1>7

\* What computeTimesheet makes of a day that is neither leave nor off.
LEMMA SheetOfWork ==
  ASSUME NEW set, set # {}, day.leave = "none", day.type = "WORKING", day.shift # None
  PROVE  LET s == day.shift   in == FirstIn(set)   out == LastOut(set)
             late  == AtLeast(in - (s.start + s.grace), 0)
             early == IF out = None THEN 0 ELSE AtLeast(s.end - out, 0)
         IN /\ ComputeTimesheet(set).early = early
            /\ ComputeTimesheet(set).work = IF out = None THEN 0 ELSE WorkMinutes(s, in, out)
            /\ ComputeTimesheet(set).status = "PRESENT" => ~ (late > 0) /\ ~ (early > 0)
<1> DEFINE s == day.shift
           in == FirstIn(set)
           out == LastOut(set)
           late  == AtLeast(in - (s.start + s.grace), 0)
           early == IF out = None THEN 0 ELSE AtLeast(s.end - out, 0)
           status == IF late > 0 /\ early > 0 THEN "LATE_AND_EARLY"
                     ELSE IF late > 0 THEN "LATE"
                     ELSE IF early > 0 THEN "EARLY_LEAVE" ELSE "PRESENT"
           sheet == [status |-> status, late |-> late, early |-> early,
                     work |-> IF out = None THEN 0 ELSE WorkMinutes(s, in, out),
                     ot |-> IF out # None /\ s.ot THEN AtLeast(out - s.end, 0) ELSE 0]
<1>1. ComputeTimesheet(set) = sheet
  BY DEF ComputeTimesheet
<1>2. status = "PRESENT" => ~ (late > 0) /\ ~ (early > 0)
  <2> HIDE DEF late, early
  <2>1. QED
    OBVIOUS
<1>3. QED
  <2> HIDE DEF status, late, early
  <2>1. QED
    BY <1>1, <1>2 DEF status, late, early

\* And of every other day.
LEMMA SheetOfRest ==
  ASSUME NEW set, day.leave \in LeaveOf, day.leave # "none" \/ day.type # "WORKING" \/ day.shift = None
  PROVE  ComputeTimesheet(set).work = 0 /\ ComputeTimesheet(set).ot = 0
<1>1. \A status : Sheet(status).work = 0 /\ Sheet(status).ot = 0
  BY DEF Sheet
<1>2. \E status : ComputeTimesheet(set) = Sheet(status)
  <2>1. CASE day.leave = "FULL"
    BY <2>1 DEF ComputeTimesheet
  <2>2. CASE day.leave = "HALF"
    BY <2>2 DEF ComputeTimesheet
  <2>3. CASE day.leave = "none" /\ day.type # "WORKING"
    BY <2>3 DEF ComputeTimesheet
  <2>4. CASE day.leave = "none" /\ day.type = "WORKING"
    BY <2>4 DEF ComputeTimesheet
  <2>5. QED
    BY <2>1, <2>2, <2>3, <2>4 DEF LeaveOf
<1>3. QED
  BY <1>1, <1>2

\* What the day's sheet says of the minutes worked, now and after a later check-out.
LEMMA DayInvCounted == DayInv => Counted
<1> SUFFICES ASSUME DayInv PROVE Counted
  OBVIOUS
<1> DEFINE s == day.shift
           sheet == ComputeTimesheet(logs)
           in == FirstIn(logs)
           out == LastOut(logs)
           there == Cardinality(MinutesWorked(s, in, out))
           Later == {k \in Minute : \A l \in logs : l.at < k}
           counts == s # None /\ day.leave = "none" /\ day.type = "WORKING"
<1>1. day.leave \in LeaveOf /\ (s # None => s \in Shifts)
  BY DEF DayInv, DayTypeOK
<1>2. ~ counts => sheet.work = 0 /\ sheet.ot = 0
  BY <1>1, SheetOfRest
<1>3. out # None => logs # {} /\ in \in Nat /\ out \in Nat /\ \E l \in logs : l.at = out
  <2>1. out # None => out \in Nat /\ \E l \in logs : l.at = out
    BY LastIs
  <2>2. out # None => logs # {}
    BY <2>1
  <2>3. QED
    BY <2>1, <2>2, FirstIs
<1>4. ASSUME counts, logs # {}
      PROVE  /\ out # None => sheet.work = WorkMinutes(s, in, out)
             /\ out = None => sheet.work = 0 /\ sheet.early = 0
             /\ out # None => sheet.early = AtLeast(s.end - out, 0)
             /\ sheet.status = "PRESENT" => ~ (AtLeast(in - (s.start + s.grace), 0) > 0)
             /\ sheet.status = "PRESENT" /\ out # None => ~ (AtLeast(s.end - out, 0) > 0)
  BY <1>4, SheetOfWork
<1>5. counts => s.start \in Nat /\ s.end \in Nat /\ s.grace \in Nat
  BY <1>1, DayCountAssumption
<1>6. counts /\ out # None =>
        IF s.breakStart # None THEN sheet.work = there
        ELSE sheet.work \in (there - s.breakMinutes)..there
  BY <1>1, <1>3, <1>4, WorkIs
<1>7. counts /\ out # None /\ s.breakStart # None /\ sheet.status = "PRESENT" =>
        Cardinality({k \in s.start..(s.end - 1) : k < s.breakStart \/ k >= s.breakEnd})
          - sheet.work <= s.grace
  <2>1. SUFFICES ASSUME counts, out # None, s.breakStart # None, sheet.status = "PRESENT"
                 PROVE  Cardinality({k \in s.start..(s.end - 1) : k < s.breakStart \/ k >= s.breakEnd})
                          - sheet.work <= s.grace
    OBVIOUS
  <2>2. s \in Shifts /\ in \in Nat /\ out \in Nat /\ s.start \in Nat /\ s.end \in Nat /\ s.grace \in Nat
    BY <1>1, <1>3, <1>5, <2>1
  <2>3. /\ sheet.work = WorkMinutes(s, in, out)
        /\ ~ (AtLeast(in - (s.start + s.grace), 0) > 0)
        /\ ~ (AtLeast(s.end - out, 0) > 0)
    BY <1>3, <1>4, <2>1
  <2> HIDE DEF s, in, out, sheet
  <2>4. in <= s.start + s.grace
    <3>1. in - (s.start + s.grace) \in Int
      BY <2>2
    <3>2. QED
      BY <2>2, <2>3, <3>1, TwoNumbers
  <2>5. s.end <= out
    <3>1. s.end - out \in Int
      BY <2>2
    <3>2. QED
      BY <2>2, <2>3, <3>1, TwoNumbers
  <2>6. QED
    BY <2>1, <2>2, <2>3, <2>4, <2>5, PresentMinutes
<1>8. counts /\ s.breakStart # None /\ (\E l \in logs : l.type = "IN") =>
        \A k \in Later :
          LET next == ComputeTimesheet(logs \cup {[at |-> k, type |-> "OUT"]})
          IN next.work >= sheet.work /\ (out # None => next.early <= sheet.early)
  <2>1. SUFFICES ASSUME counts, s.breakStart # None, \E l \in logs : l.type = "IN", NEW k \in Later
                 PROVE  LET next == ComputeTimesheet(logs \cup {[at |-> k, type |-> "OUT"]})
                        IN next.work >= sheet.work /\ (out # None => next.early <= sheet.early)
    OBVIOUS
  <2> DEFINE set == logs \cup {[at |-> k, type |-> "OUT"]}
             next == ComputeTimesheet(set)
  <2>2. FirstIn(set) = in /\ LastOut(set) = k /\ k \in Nat /\ k # None
    BY <2>1, LaterOut, DayCountAssumption
  <2>3. set # {} /\ logs # {}
    BY <2>1
  <2>4. next.work = WorkMinutes(s, in, k) /\ next.early = AtLeast(s.end - k, 0)
    <3> HIDE DEF set
    <3>1. QED
      BY <2>1, <2>2, <2>3, SheetOfWork
  <2>5. s \in Shifts /\ in \in Nat /\ s.end \in Nat
    BY <1>1, <1>5, <2>1, <2>3, FirstIs
  <2>6. CASE out = None
    <3>1. sheet.work = 0
      BY <1>4, <2>1, <2>3, <2>6
    <3>2. WorkMinutes(s, in, k) \in Nat
      BY <2>2, <2>5, WorkIs
    <3>3. QED
      BY <2>4, <2>6, <3>1, <3>2
  <2>7. CASE out # None
    <3>1. out \in Nat /\ out < k
      BY <1>3, <2>1, <2>7
    <3>2. sheet.work = WorkMinutes(s, in, out) /\ sheet.early = AtLeast(s.end - out, 0)
      BY <1>4, <2>1, <2>3, <2>7
    <3> HIDE DEF s, in, out, sheet, next
    <3>3. WorkMinutes(s, in, out) <= WorkMinutes(s, in, k)
      BY <2>1, <2>2, <2>5, <3>1, WorkGrows
    <3>4. AtLeast(s.end - k, 0) <= AtLeast(s.end - out, 0)
      <4>1. s.end - k \in Int /\ s.end - out \in Int /\ s.end - k <= s.end - out
        BY <2>2, <2>5, <3>1
      <4>2. QED
        BY <4>1, TwoNumbers
    <3>5. WorkMinutes(s, in, out) \in Nat /\ WorkMinutes(s, in, k) \in Nat
      BY <2>2, <2>5, <3>1, WorkIs
    <3>6. next.work >= sheet.work /\ next.early <= sheet.early
      BY <2>4, <3>2, <3>3, <3>4, <3>5
    <3>7. QED
      BY <3>6 DEF next
  <2>8. QED
    BY <2>6, <2>7
<1>9. QED
  BY <1>2, <1>6, <1>7, <1>8 DEF Counted

\* What a half day at one end takes off, and the cost of n days worked with those halves.
Off(h)         == IF h = "FULL" THEN 0 ELSE 1
Cost(n, h, g)  == IF n = 1 THEN IF h = "FULL" /\ g = "FULL" THEN 2 ELSE 1
                  ELSE 2 * n - Off(h) - Off(g)

\* The days worked of a leave are finitely many.
LEMMA WorkedAre ==
  ASSUME NEW from \in Nat, NEW to \in Nat, NEW W, W = (from..to) \cap works
  PROVE  IsFiniteSet(W) /\ (W # {} => Cardinality(W) \in Nat \ {0})
<1>1. IsFiniteSet(from..to)
  BY FS_Interval
<1>2. IsFiniteSet(W)
  BY <1>1, FS_Intersection
<1>3. PICK n : n = Cardinality(W)
  OBVIOUS
<1>4. n \in Nat /\ (W # {} => n # 0)
  BY <1>2, <1>3, FS_CardinalityType, FS_EmptySet
<1>5. QED
  BY <1>2, <1>3, <1>4

\* The halves a leave costs, by the days worked.
LEMMA HalvesAre ==
  ASSUME NEW from, NEW to, NEW h \in Half, NEW g \in Half,
         NEW W, W = (from..to) \cap works, W # {}
  PROVE  LeaveHalves(from, to, h, g) = Cost(Cardinality(W), h, g)
<1>1. LeaveHalves(from, to, h, g) =
        IF Cardinality(W) = 1 THEN IF h # "FULL" \/ g # "FULL" THEN 1 ELSE 2
        ELSE 2 * Cardinality(W) - Off(h) - Off(g)
  BY DEF LeaveHalves, Off
<1>2. QED
  BY <1>1 DEF Cost

\* Days put together cost what they cost apart, if the leave is whole at the cut.
LEMMA CostsAdd ==
  ASSUME NEW n \in Nat \ {0}, NEW k \in Nat \ {0}, NEW h \in Half, NEW g \in Half
  PROVE  /\ Cost(n, h, "FULL") + Cost(k, "FULL", g) = Cost(n + k, h, g)
         /\ Cost(n + k, h, g) > 0
<1>1. PICK x \in {0, 1} : x = Off(h) /\ (x = 0 <=> h = "FULL")
  BY DEF Off
<1>2. PICK y \in {0, 1} : y = Off(g) /\ (y = 0 <=> g = "FULL")
  BY DEF Off
<1>3. Cost(n, h, "FULL") = 2 * n - x
  BY <1>1 DEF Cost, Off
<1>4. Cost(k, "FULL", g) = 2 * k - y
  BY <1>2 DEF Cost, Off
<1>5. Cost(n + k, h, g) = 2 * (n + k) - x - y
  BY <1>1, <1>2 DEF Cost
<1>6. QED
  BY <1>3, <1>4, <1>5

\* A leave costs the same in two parts.
LEMMA SplitsAlways == DayTypeOK => Splits
<1> SUFFICES ASSUME DayTypeOK, NEW a \in Days, NEW b \in Days, NEW c \in Days, NEW h1 \in Half, NEW h2 \in Half,
                    a <= b, b < c, {a, c} \subseteq works
             PROVE  /\ LeaveHalves(a, b, h1, "FULL") + LeaveHalves(b + 1, c, "FULL", h2)
                         = LeaveHalves(a, c, h1, h2)
                    /\ LeaveHalves(a, c, h1, h2) > 0
  BY DEF Splits, DayTypeOK
<1>1. a \in Nat /\ b \in Nat /\ c \in Nat /\ "FULL" \in Half
  BY DayCountAssumption DEF Half
<1>2. PICK d : d = b + 1
  OBVIOUS
<1>3. d \in Nat /\ d <= c
  BY <1>1, <1>2
<1>4. PICK V : V = (a..b) \cap works
  OBVIOUS
<1>5. PICK W : W = (d..c) \cap works
  OBVIOUS
<1>6. PICK U : U = (a..c) \cap works
  OBVIOUS
<1>7. a \in V /\ c \in W /\ a \in U
  BY <1>1, <1>3, <1>4, <1>5, <1>6
<1>8. U = V \cup W /\ V \cap W = {}
  BY <1>1, <1>2, <1>4, <1>5, <1>6
<1>9. IsFiniteSet(V) /\ Cardinality(V) \in Nat \ {0}
  <2>1. IsFiniteSet(V) /\ (V # {} => Cardinality(V) \in Nat \ {0})
    BY <1>1, <1>4, WorkedAre
  <2>2. QED
    BY <1>7, <2>1
<1>10. IsFiniteSet(W) /\ Cardinality(W) \in Nat \ {0}
  <2>1. IsFiniteSet(W) /\ (W # {} => Cardinality(W) \in Nat \ {0})
    BY <1>1, <1>3, <1>5, WorkedAre
  <2>2. QED
    BY <1>7, <2>1
<1>11. Cardinality(U) = Cardinality(V) + Cardinality(W)
  <2>1. Cardinality(V \cap W) = 0
    BY <1>8, FS_EmptySet
  <2>2. Cardinality(V \cup W) = Cardinality(V) + Cardinality(W) - Cardinality(V \cap W)
    BY <1>9, <1>10, FS_Union
  <2>3. QED
    BY <1>8, <1>9, <1>10, <2>1, <2>2
<1>12. LeaveHalves(a, b, h1, "FULL") = Cost(Cardinality(V), h1, "FULL")
  BY <1>1, <1>4, <1>7, HalvesAre
<1>13. LeaveHalves(b + 1, c, "FULL", h2) = Cost(Cardinality(W), "FULL", h2)
  <2>1. LeaveHalves(d, c, "FULL", h2) = Cost(Cardinality(W), "FULL", h2)
    BY <1>1, <1>5, <1>7, HalvesAre
  <2>2. QED
    BY <1>2, <2>1
<1>14. LeaveHalves(a, c, h1, h2) = Cost(Cardinality(U), h1, h2)
  BY <1>6, <1>7, HalvesAre
<1>15. PICK n \in Nat \ {0}, k \in Nat \ {0} : n = Cardinality(V) /\ k = Cardinality(W)
  BY <1>9, <1>10
<1>16. QED
  BY <1>11, <1>12, <1>13, <1>14, <1>15, CostsAdd

\* The invariant of a day holds in every reachable state.
THEOREM DayInductive == DaySpec => []DayInv
<1>1. QED
  BY DayInitInv, DayStep, PTL DEF DaySpec

\* The minutes of a sheet are those one by one, a later check-out takes nothing away, and
\* a leave costs the same in two parts (computeTimesheet, leaveDaysCount), for any shifts,
\* any number of logs and any calendar.
THEOREM DaysAreCounted == DaySpec => []DaysCounted
<1>1. DayInv => DaysCounted
  BY DayInvCounted, SplitsAlways DEF DayInv, DaysCounted
<1>2. QED
  BY <1>1, DayInductive, PTL

-----------------------------------------------------------------------------
(* OrgTree.                                                                  *)

\* The editors of the tree, with nothing said of when they take their steps.
TreeSpec == TreeInit /\ [][TreeNext]_treeVars

\* The k-th unit on the path of u: its own path is the beginning of that of u.
OnPath(u, k) ==
  LET v == path[u][k]
  IN /\ v \in Rows
     /\ Len(path[v]) = k
     /\ \A j \in 1..k : path[v][j] = path[u][j]

\* Unless somebody wrote from a path that had changed: a path begins with the paths of the
\* units on it, and the parent is the one before the last.
PathsOk ==
  ~ stale => \A u \in Rows :
    /\ \A k \in 1..Len(path[u]) : OnPath(u, k)
    /\ Len(path[u]) = 1 => parent[u] = Root
    /\ Len(path[u]) > 1 => parent[u] = path[u][Len(path[u]) - 1]

\* What handlers hold: ids of their own for new units; the path of a unit that is moved, and
\* one for its parent that does not begin with it.
HandsOk ==
  \A e \in Editor :
    /\ stage[e] = "create" =>
         /\ row[edit[e].unit] = "none"
         /\ \A d \in Editor : stage[d] = "create" /\ edit[d].unit = edit[e].unit => d = e
    /\ stage[e] \in {"parent", "move"} =>
         /\ row[edit[e].unit] # "none"
         /\ Len(edit[e].old) > 0 /\ edit[e].old[Len(edit[e].old)] = edit[e].unit
    /\ stage[e] = "move" /\ edit[e].to # Root => ~ IsPrefix(edit[e].old, edit[e].under)

TreeInv == TreeTypeOK /\ HandsOk /\ PathsOk

\* A sequence begins with another one if that is so place by place.
LEMMA PrefixIs ==
  ASSUME NEW S, NEW s \in Seq(S), NEW t \in Seq(S)
  PROVE  IsPrefix(s, t) <=> Len(s) <= Len(t) /\ \A j \in 1..Len(s) : s[j] = t[j]
<1>1. CASE Len(s) <= Len(t)
  <2>1. SubSeq(s, 1, Len(s)) = s
    OBVIOUS
  <2>2. /\ SubSeq(t, 1, Len(s)) \in Seq(S)
        /\ Len(SubSeq(t, 1, Len(s))) = Len(s)
        /\ \A j \in 1..Len(s) : SubSeq(t, 1, Len(s))[j] = t[j]
    BY <1>1
  <2>3. s = SubSeq(t, 1, Len(s)) <=> \A j \in 1..Len(s) : s[j] = t[j]
    BY <2>2
  <2>4. QED
    BY <1>1, <2>1, <2>3 DEF IsPrefix
<1>2. CASE ~ (Len(s) <= Len(t))
  BY <1>2 DEF IsPrefix
<1>3. QED
  BY <1>1, <1>2

\* Two sequences that agree place by place are one.
LEMMA SameSequence ==
  ASSUME NEW S, NEW s \in Seq(S), NEW t \in Seq(S), Len(s) = Len(t),
         \A j \in 1..Len(s) : s[j] = t[j]
  PROVE  s = t
OBVIOUS

\* Locals of no edit.
LEMMA NoEditTyped == NoEdit \in Edit
BY OrgTreeAssumption DEF NoEdit, Edit

\* Initially there is no unit.
LEMMA TreeInitInv == TreeInit => TreeInv
<1> SUFFICES ASSUME TreeInit PROVE TreeInv
  OBVIOUS
<1>1. Rows = {}
  BY DEF TreeInit, Rows
<1>2. TreeTypeOK
  <2>1. stale \in BOOLEAN
    BY ZenonT(10) DEF TreeInit
  <2>2. QED
    BY <1>1, <2>1, NoEditTyped DEF TreeInit, TreeTypeOK
<1>3. HandsOk
  BY DEF TreeInit, HandsOk
<1>4. PathsOk
  BY <1>1 DEF PathsOk
<1>5. QED
  BY <1>2, <1>3, <1>4 DEF TreeInv

\* The facts about one row that the type states.
LEMMA RowTyped ==
  ASSUME TreeTypeOK, NEW u \in Rows
  PROVE  /\ u \in Unit /\ path[u] \in Seq(Unit)
         /\ Len(path[u]) \in Nat /\ Len(path[u]) > 0 /\ path[u][Len(path[u])] = u
         /\ parent[u] \in Rows \cup {Root}
BY DEF TreeTypeOK, Rows, Last

\* The path under which a child comes is a path.
LEMMA PathOfTyped ==
  ASSUME TreeTypeOK, NEW p \in Unit \cup {Root}
  PROVE  PathOf(p) \in Seq(Unit)
BY DEF TreeTypeOK, PathOf

\* A step that leaves rows, parents and paths keeps what is said of them.
LEMMA SameTree ==
  ASSUME TreeInv, row' = row, parent' = parent, path' = path, stale' = stale
  PROVE  PathsOk'
<1>1. Rows' = Rows
  BY DEF Rows
<1>2. \A u, k : OnPath(u, k)' <=> OnPath(u, k)
  BY <1>1 DEF OnPath
<1>3. QED
  BY <1>1, <1>2, SMTT(30) DEF TreeInv, PathsOk

\* The end of a handler leaves the others what they hold, if the rows they are about stay.
LEMMA OverKeeps ==
  ASSUME TreeInv, NEW e \in Editor, Over(e),
         \A u \in Unit : (row[u] # "none" => row'[u] # "none"),
         \A d \in Editor \ {e} : stage[d] = "create" => row'[edit[d].unit] = "none"
  PROVE  HandsOk' /\ stage' \in [Editor -> {"idle", "create", "parent", "move", "count", "delete"}]
                  /\ edit' \in [Editor -> Edit]
<1>1. \A d \in Editor : d # e => stage'[d] = stage[d] /\ edit'[d] = edit[d]
  BY DEF Over, StepTo, TreeInv, TreeTypeOK
<1>2. stage'[e] = "idle" /\ edit'[e] = NoEdit
  BY DEF Over, StepTo, TreeInv, TreeTypeOK
<1>3. \A d \in Editor : edit[d].unit \in Unit
  BY DEF TreeInv, TreeTypeOK, Edit
<1>4. HandsOk'
  BY <1>1, <1>2, <1>3 DEF TreeInv, HandsOk
<1>5. QED
  BY <1>4, NoEditTyped DEF Over, StepTo, TreeInv, TreeTypeOK

\* A handler begins: its locals are typed and in order.
LEMMA OpenKeeps ==
  ASSUME TreeInv, NEW e \in Editor, NEW l \in {"create", "parent", "count"}, NEW locals \in Edit,
         Open(e, l, locals),
         l = "create" => row[locals.unit] = "none" /\ \A d \in Editor : stage[d] = "create" =>
                                                        edit[d].unit # locals.unit,
         l = "parent" => row[locals.unit] # "none" /\ Len(locals.old) > 0
                         /\ locals.old[Len(locals.old)] = locals.unit
  PROVE  TreeInv'
<1>1. \A d \in Editor : d # e => stage'[d] = stage[d] /\ edit'[d] = edit[d]
  BY DEF Open, StepTo, TreeInv, TreeTypeOK
<1>2. stage'[e] = l /\ edit'[e] = locals
  BY DEF Open, StepTo, TreeInv, TreeTypeOK
<1>3. row' = row /\ parent' = parent /\ path' = path /\ stale' = stale
  BY DEF Open
<1>4. TreeTypeOK'
  <2>1. stale' \in BOOLEAN
    BY <1>3, ZenonT(10) DEF TreeInv, TreeTypeOK
  <2>2. QED
    BY <2>1 DEF Open, StepTo, TreeInv, TreeTypeOK, Rows
<1>5. HandsOk'
  BY <1>1, <1>2, <1>3 DEF TreeInv, HandsOk
<1>6. PathsOk'
  BY <1>3, SameTree
<1>7. QED
  BY <1>4, <1>5, <1>6 DEF TreeInv

\* The reads that begin an edit.
LEMMA CreateReadKeeps ==
  ASSUME TreeInv, NEW e \in Editor, NEW u \in Unit, NEW p \in Unit \cup {Root}, CreateRead(e, u, p)
  PROVE  TreeInv'
<1> DEFINE locals == [unit |-> u, to |-> p, old |-> <<>>, under |-> PathOf(p)]
<1>1. PICK l : l = locals
  OBVIOUS
<1>2. l \in Edit /\ l.unit = u
  BY <1>1, PathOfTyped DEF Edit, TreeInv
<1>3. Open(e, "create", l)
  BY <1>1 DEF CreateRead
<1>4. row[u] = "none" /\ \A d \in Editor : stage[d] = "create" => edit[d].unit # u
  BY DEF CreateRead
<1>5. QED
  BY <1>2, <1>3, <1>4, OpenKeeps

\* update, as it reads the unit: the path that is held ends with that unit.
LEMMA MoveReadKeeps ==
  ASSUME TreeInv, NEW e \in Editor, NEW u \in Unit, NEW p \in Unit \cup {Root}, MoveRead(e, u, p)
  PROVE  TreeInv'
<1> DEFINE locals == [unit |-> u, to |-> p, old |-> path[u], under |-> <<>>]
<1>1. PICK l : l = locals
  OBVIOUS
<1>2. u \in Rows
  BY DEF MoveRead, Rows
<1>3. l \in Edit /\ l.unit = u /\ l.old = path[u]
  BY <1>1, <1>2, RowTyped DEF Edit, TreeInv
<1>4. Open(e, "parent", l)
  BY <1>1 DEF MoveRead
<1>5. row[u] # "none" /\ Len(l.old) > 0 /\ l.old[Len(l.old)] = u
  BY <1>2, <1>3, RowTyped DEF MoveRead, TreeInv
<1>6. QED
  BY <1>3, <1>4, <1>5, OpenKeeps

\* remove, as it reads the unit.
LEMMA RemoveReadKeeps ==
  ASSUME TreeInv, NEW e \in Editor, NEW u \in Unit, RemoveRead(e, u)
  PROVE  TreeInv'
<1>1. PICK l : l = [NoEdit EXCEPT !.unit = u]
  OBVIOUS
<1>2. l \in Edit
  BY <1>1, NoEditTyped DEF Edit
<1>3. Open(e, "count", l)
  BY <1>1 DEF RemoveRead
<1>4. QED
  BY <1>2, <1>3, OpenKeeps

\* The steps of a handler that write nothing.
LEMMA MoveParentKeeps ==
  ASSUME TreeInv, NEW e \in Editor, MoveParent(e)
  PROVE  TreeInv'
<1> DEFINE p == edit[e].to
<1>1. edit[e] \in Edit /\ p \in Unit \cup {Root} /\ stage[e] = "parent"
  BY DEF TreeInv, TreeTypeOK, Edit, MoveParent
<1>2. row' = row /\ parent' = parent /\ path' = path /\ stale' = stale /\ edits' = edits
  BY DEF MoveParent
<1>3. PathsOk'
  BY <1>2, SameTree
<1>4. CASE There(p) /\ ~ (p # Root /\ IsPrefix(edit[e].old, path[p]))
  <2>1. PICK l : l = [edit[e] EXCEPT !.under = PathOf(p)]
    OBVIOUS
  <2>2. l \in Edit /\ l.unit = edit[e].unit /\ l.old = edit[e].old /\ l.to = p /\ l.under = PathOf(p)
    BY <1>1, <2>1, PathOfTyped DEF TreeInv, Edit
  <2>3. StepTo(e, "move", l)
    BY <1>4, <2>1 DEF MoveParent
  <2>4. \A d \in Editor : d # e => stage'[d] = stage[d] /\ edit'[d] = edit[d]
    BY <2>3 DEF StepTo, TreeInv, TreeTypeOK
  <2>5. stage'[e] = "move" /\ edit'[e] = l
    BY <2>3 DEF StepTo, TreeInv, TreeTypeOK
  <2>6. p # Root => ~ IsPrefix(l.old, l.under)
    BY <1>4, <2>2 DEF PathOf
  <2>7. HandsOk'
    BY <1>1, <1>2, <2>2, <2>4, <2>5, <2>6 DEF TreeInv, HandsOk
  <2>8. TreeTypeOK'
    <3>1. stale' \in BOOLEAN
      BY <1>2, ZenonT(10) DEF TreeInv, TreeTypeOK
    <3>2. QED
      BY <1>2, <2>2, <2>3, <3>1 DEF StepTo, TreeInv, TreeTypeOK, Rows
  <2>9. QED
    BY <1>3, <2>7, <2>8 DEF TreeInv
<1>5. CASE ~ (There(p) /\ ~ (p # Root /\ IsPrefix(edit[e].old, path[p])))
  <2>1. Over(e)
    BY <1>5 DEF MoveParent
  <2>2. \A d \in Editor \ {e} : stage[d] = "create" => row'[edit[d].unit] = "none"
    BY <1>2 DEF TreeInv, HandsOk
  <2>3. HandsOk' /\ stage' \in [Editor -> {"idle", "create", "parent", "move", "count", "delete"}]
                  /\ edit' \in [Editor -> Edit]
    BY <1>2, <2>1, <2>2, OverKeeps
  <2>4. TreeTypeOK'
    <3>1. stale' \in BOOLEAN
      BY <1>2, ZenonT(10) DEF TreeInv, TreeTypeOK
    <3>2. QED
      BY <1>2, <2>3, <3>1 DEF TreeInv, TreeTypeOK, Rows
  <2>5. QED
    BY <1>3, <2>3, <2>4 DEF TreeInv
<1>6. QED
  BY <1>4, <1>5

\* The count of the children, which may end the removal.
LEMMA RemoveCountKeeps ==
  ASSUME TreeInv, NEW e \in Editor, RemoveCount(e)
  PROVE  TreeInv'
<1>1. edit[e] \in Edit /\ stage[e] = "count"
  BY DEF TreeInv, TreeTypeOK, RemoveCount
<1>2. row' = row /\ parent' = parent /\ path' = path /\ stale' = stale /\ edits' = edits
  BY DEF RemoveCount
<1>3. PathsOk'
  BY <1>2, SameTree
<1>4. HandsOk' /\ stage' \in [Editor -> {"idle", "create", "parent", "move", "count", "delete"}]
               /\ edit' \in [Editor -> Edit]
  <2>1. CASE Childless(edit[e].unit)
    <3>1. StepTo(e, "delete", edit[e])
      BY <2>1 DEF RemoveCount
    <3>2. \A d \in Editor : d # e => stage'[d] = stage[d] /\ edit'[d] = edit[d]
      BY <3>1 DEF StepTo, TreeInv, TreeTypeOK
    <3>3. stage'[e] = "delete"
      BY <3>1 DEF StepTo, TreeInv, TreeTypeOK
    <3>4. HandsOk'
      BY <1>2, <3>2, <3>3 DEF TreeInv, HandsOk
    <3>5. QED
      BY <1>1, <3>1, <3>4 DEF StepTo, TreeInv, TreeTypeOK
  <2>2. CASE ~ Childless(edit[e].unit)
    <3>1. Over(e)
      BY <2>2 DEF RemoveCount
    <3>2. \A d \in Editor \ {e} : stage[d] = "create" => row'[edit[d].unit] = "none"
      BY <1>2 DEF TreeInv, HandsOk
    <3>3. QED
      BY <1>2, <3>1, <3>2, OverKeeps
  <2>3. QED
    BY <2>1, <2>2
<1>5. TreeTypeOK'
  <2>1. stale' \in BOOLEAN
    BY <1>2, ZenonT(10) DEF TreeInv, TreeTypeOK
  <2>2. QED
    BY <1>2, <1>4, <2>1 DEF TreeInv, TreeTypeOK, Rows
<1>6. QED
  BY <1>3, <1>4, <1>5 DEF TreeInv

\* The insert: a path that begins with the one of the parent, which nobody has changed.
LEMMA CreateWriteKeeps ==
  ASSUME TreeInv, NEW e \in Editor, CreateWrite(e)
  PROVE  TreeInv'
<1>1. PICK u \in Unit, p \in Unit \cup {Root}, under \in Seq(Unit) :
        u = edit[e].unit /\ p = edit[e].to /\ under = edit[e].under
  BY DEF TreeInv, TreeTypeOK, Edit
<1>2. stage[e] = "create" /\ row[u] = "none" /\ u \notin Rows
  BY <1>1 DEF CreateWrite, TreeInv, HandsOk, Rows
<1>3. Over(e) /\ edits' = edits
  BY DEF CreateWrite
<1>4. \A d \in Editor \ {e} : stage[d] = "create" => row[edit[d].unit] = "none" /\ edit[d].unit # u
  BY <1>1, <1>2 DEF TreeInv, HandsOk
<1>5. CASE There(p)
  <2>1. /\ row' = [row EXCEPT ![u] = "there"]
        /\ parent' = [parent EXCEPT ![u] = p]
        /\ path' = [path EXCEPT ![u] = Append(under, u)]
        /\ stale' = (stale \/ under # PathOf(p))
    BY <1>1, <1>5 DEF CreateWrite
  <2>2. Rows' = Rows \cup {u} /\ u \in Rows'
    BY <2>1 DEF Rows, TreeInv, TreeTypeOK
  <2>3. HandsOk' /\ stage' \in [Editor -> {"idle", "create", "parent", "move", "count", "delete"}]
                 /\ edit' \in [Editor -> Edit]
    <3>1. \A v \in Unit : row[v] # "none" => row'[v] # "none"
      BY <2>1 DEF TreeInv, TreeTypeOK
    <3>2. \A d \in Editor : edit[d].unit \in Unit
      BY DEF TreeInv, TreeTypeOK, Edit
    <3>3. \A d \in Editor \ {e} : stage[d] = "create" => row'[edit[d].unit] = "none"
      BY <1>4, <2>1, <3>2 DEF TreeInv, TreeTypeOK
    <3>4. QED
      BY <1>3, <3>1, <3>3, OverKeeps
  <2>4. PICK way \in Seq(Unit) : way = Append(under, u)
    <3>1. Append(under, u) \in Seq(Unit)
      BY <1>1
    <3>2. QED
      BY <3>1
  <2>5. /\ Len(way) = Len(under) + 1 /\ way[Len(way)] = u /\ Len(under) \in Nat
        /\ \A k \in 1..Len(under) : way[k] = under[k]
    BY <2>4
  <2>6. /\ path'[u] = way /\ parent'[u] = p
        /\ \A v \in Rows : path'[v] = path[v] /\ parent'[v] = parent[v]
    BY <1>2, <2>1, <2>4 DEF TreeInv, TreeTypeOK, Rows
  <2>7. TreeTypeOK'
    <3>1. stale' \in BOOLEAN
      BY <2>1, ZenonT(10) DEF TreeInv, TreeTypeOK
    <3>2. path' \in [Unit -> Seq(Unit)]
      BY <2>1, <2>4 DEF TreeInv, TreeTypeOK
    <3>3. \A v \in Rows' : parent'[v] \in Rows' \cup {Root} /\ path'[v] # <<>> /\ Last(path'[v]) = v
      <4>1. ASSUME NEW v \in Rows PROVE parent'[v] \in Rows' \cup {Root} /\ path'[v] # <<>> /\ Last(path'[v]) = v
        BY <2>2, <2>6 DEF TreeInv, TreeTypeOK
      <4>2. parent'[u] \in Rows' \cup {Root} /\ path'[u] # <<>> /\ Last(path'[u]) = u
        BY <1>5, <2>2, <2>5, <2>6 DEF There, Last
      <4>3. QED
        BY <2>2, <4>1, <4>2
    <3>4. /\ row' \in [Unit -> {"none", "there", "gone"}]
          /\ parent' \in [Unit -> Unit \cup {Root}] /\ edits' \in Nat
      BY <1>3, <2>1 DEF TreeInv, TreeTypeOK
    <3>5. QED
      BY <2>3, <3>1, <3>2, <3>3, <3>4 DEF TreeTypeOK
  <2>8. PathsOk'
    <3> SUFFICES ASSUME ~ stale' PROVE PathsOk'
      BY DEF PathsOk
    <3>1. ~ stale /\ under = PathOf(p)
      BY <2>1
    <3>2. ASSUME NEW v \in Rows, NEW k \in 1..Len(path[v]), OnPath(v, k) PROVE OnPath(v, k)'
      BY <2>2, <2>6, <3>2 DEF OnPath
    <3>3. \A v \in Rows : (\A k \in 1..Len(path'[v]) : OnPath(v, k)')
      BY <2>6, <3>1, <3>2 DEF TreeInv, PathsOk
    <3>4. \A v \in Rows : (Len(path'[v]) = 1 => parent'[v] = Root)
                          /\ (Len(path'[v]) > 1 => parent'[v] = path'[v][Len(path'[v]) - 1])
      BY <2>6, <3>1 DEF TreeInv, PathsOk
    <3>5. ASSUME NEW k \in 1..Len(path'[u]) PROVE OnPath(u, k)'
      <4>1. CASE k = Len(way)
        BY <2>2, <2>5, <2>6, <4>1 DEF OnPath
      <4>2. CASE k # Len(way)
        <5>1. k \in 1..Len(under)
          BY <2>5, <2>6, <4>2
        <5>2. p \in Rows /\ under = path[p]
          BY <1>5, <3>1, <5>1 DEF PathOf, There
        <5>3. OnPath(p, k)
          BY <3>1, <5>1, <5>2 DEF TreeInv, PathsOk
        <5>4. path'[u][k] = path[p][k] /\ \A j \in 1..k : path'[u][j] = path[p][j]
          BY <2>5, <2>6, <5>1, <5>2
        <5>5. QED
          BY <2>2, <2>6, <5>3, <5>4 DEF OnPath
      <4>3. QED
        BY <4>1, <4>2
    <3>6. Len(path'[u]) = 1 => parent'[u] = Root
      <4>1. CASE p \in Rows
        <5>1. Len(path[p]) > 0 /\ Len(path[p]) \in Nat
          BY <4>1, RowTyped DEF TreeInv
        <5>2. under = path[p]
          BY <3>1, <4>1, OrgTreeAssumption DEF PathOf, Rows
        <5>3. Len(path'[u]) = Len(under) + 1
          BY <2>5, <2>6
        <5>4. Len(under) > 0 /\ Len(under) \in Nat
          BY <5>1, <5>2
        <5>5. Len(path'[u]) # 1
          BY <5>3, <5>4
        <5>6. QED
          BY <5>5
      <4>2. CASE p = Root
        BY <2>6, <4>2
      <4>3. QED
        BY <1>5, <4>1, <4>2 DEF There
    <3>7. Len(path'[u]) > 1 => parent'[u] = path'[u][Len(path'[u]) - 1]
      <4>1. CASE p \in Rows
        <5>1. Len(path[p]) > 0 /\ Len(path[p]) \in Nat /\ path[p][Len(path[p])] = p
          BY <4>1, RowTyped DEF TreeInv
        <5>2. under = path[p]
          BY <3>1, <4>1, OrgTreeAssumption DEF PathOf, Rows
        <5>3. QED
          BY <2>5, <2>6, <5>1, <5>2
      <4>2. CASE p = Root
        <5>1. under = <<>>
          BY <3>1, <4>2 DEF PathOf
        <5>2. Len(path'[u]) = Len(under) + 1
          BY <2>5, <2>6
        <5>3. QED
          BY <5>1, <5>2
      <4>3. QED
        BY <1>5, <4>1, <4>2 DEF There
    <3>8. QED
      BY <2>2, <3>3, <3>4, <3>5, <3>6, <3>7 DEF PathsOk
  <2>9. QED
    BY <2>3, <2>7, <2>8 DEF TreeInv
<1>6. CASE ~ There(p)
  <2>1. row' = row /\ parent' = parent /\ path' = path /\ stale' = stale
    BY <1>1, <1>6 DEF CreateWrite
  <2>2. HandsOk' /\ stage' \in [Editor -> {"idle", "create", "parent", "move", "count", "delete"}]
                 /\ edit' \in [Editor -> Edit]
    BY <1>3, <1>4, <2>1, OverKeeps
  <2>3. TreeTypeOK'
    <3>1. stale' \in BOOLEAN
      BY <2>1, ZenonT(10) DEF TreeInv, TreeTypeOK
    <3>2. QED
      BY <1>3, <2>1, <2>2, <3>1 DEF TreeInv, TreeTypeOK, Rows
  <2>4. QED
    BY <2>1, <2>2, <2>3, SameTree DEF TreeInv
<1>7. QED
  BY <1>5, <1>6

\* The delete: a unit without children is on no other path.
LEMMA RemoveDeleteKeeps ==
  ASSUME TreeInv, NEW e \in Editor, RemoveDelete(e)
  PROVE  TreeInv'
<1>1. PICK u \in Unit : u = edit[e].unit
  BY DEF TreeInv, TreeTypeOK, Edit
<1>2. Over(e) /\ parent' = parent /\ path' = path /\ stale' = stale /\ edits' = edits
  BY DEF RemoveDelete
<1>3. \A d \in Editor \ {e} : stage[d] = "create" => row[edit[d].unit] = "none"
  BY DEF TreeInv, HandsOk
<1>4. CASE u \in Rows /\ Childless(u)
  <2>1. row' = [row EXCEPT ![u] = "gone"] /\ row[u] = "there"
    BY <1>1, <1>4 DEF RemoveDelete, Rows
  <2>2. Rows' = Rows \ {u}
    BY <2>1 DEF Rows, TreeInv, TreeTypeOK
  <2>3. HandsOk' /\ stage' \in [Editor -> {"idle", "create", "parent", "move", "count", "delete"}]
                 /\ edit' \in [Editor -> Edit]
    <3>1. \A v \in Unit : (row[v] # "none" => row'[v] # "none")
      BY <2>1 DEF TreeInv, TreeTypeOK
    <3>2. \A d \in Editor : edit[d].unit \in Unit
      BY DEF TreeInv, TreeTypeOK, Edit
    <3>3. \A d \in Editor \ {e} : stage[d] = "create" => row'[edit[d].unit] = "none"
      BY <1>3, <2>1, <3>2 DEF TreeInv, TreeTypeOK
    <3>4. QED
      BY <1>2, <3>1, <3>3, OverKeeps
  <2>4. TreeTypeOK'
    <3>1. stale' \in BOOLEAN
      BY <1>2, ZenonT(10) DEF TreeInv, TreeTypeOK
    <3>2. \A v \in Rows' : parent'[v] \in Rows' \cup {Root} /\ path'[v] # <<>> /\ Last(path'[v]) = v
      BY <1>2, <1>4, <2>2 DEF TreeInv, TreeTypeOK, Childless
    <3>3. QED
      BY <1>2, <2>1, <2>3, <3>1, <3>2 DEF TreeInv, TreeTypeOK
  <2>5. PathsOk'
    <3> SUFFICES ASSUME ~ stale' PROVE PathsOk'
      BY DEF PathsOk
    <3>1. ~ stale
      BY <1>2
    <3>2. ASSUME NEW v \in Rows \ {u}, NEW k \in 1..Len(path[v]) PROVE path[v][k] # u
      <4>1. Len(path[v]) \in Nat /\ path[v][Len(path[v])] = v
        BY RowTyped DEF TreeInv
      <4>2. CASE k = Len(path[v])
        BY <4>1, <4>2
      <4>3. CASE k # Len(path[v])
        <5>1. k + 1 \in 1..Len(path[v]) /\ k \in 1..(k + 1) /\ k + 1 > 1 /\ (k + 1) - 1 = k
          BY <4>1, <4>3
        <5>2. OnPath(v, k + 1)
          BY <3>1, <5>1 DEF TreeInv, PathsOk
        <5>3. PICK w \in Rows : w = path[v][k + 1] /\ Len(path[w]) = k + 1 /\ path[w][k] = path[v][k]
          BY <5>1, <5>2 DEF OnPath
        <5>4. parent[w] = path[w][Len(path[w]) - 1]
          BY <3>1, <5>1, <5>3 DEF TreeInv, PathsOk
        <5>5. parent[w] = path[v][k]
          BY <5>1, <5>3, <5>4
        <5>6. QED
          BY <1>4, <5>5 DEF Childless
      <4>4. QED
        BY <4>2, <4>3
    <3>3. ASSUME NEW v \in Rows \ {u}, NEW k \in 1..Len(path[v]) PROVE OnPath(v, k)'
      <4>1. OnPath(v, k)
        BY <3>1 DEF TreeInv, PathsOk
      <4>2. path[v][k] # u
        BY <3>2
      <4>3. QED
        BY <1>2, <2>2, <4>1, <4>2 DEF OnPath
    <3>4. \A v \in Rows \ {u} : (Len(path[v]) = 1 => parent[v] = Root)
                                /\ (Len(path[v]) > 1 => parent[v] = path[v][Len(path[v]) - 1])
      BY <3>1 DEF TreeInv, PathsOk
    <3>5. QED
      BY <1>2, <2>2, <3>3, <3>4 DEF PathsOk
  <2>6. QED
    BY <2>3, <2>4, <2>5 DEF TreeInv
<1>5. CASE ~ (u \in Rows /\ Childless(u))
  <2>1. row' = row
    BY <1>1, <1>5 DEF RemoveDelete
  <2>2. HandsOk' /\ stage' \in [Editor -> {"idle", "create", "parent", "move", "count", "delete"}]
                 /\ edit' \in [Editor -> Edit]
    BY <1>2, <1>3, <2>1, OverKeeps
  <2>3. TreeTypeOK'
    <3>1. stale' \in BOOLEAN
      BY <1>2, ZenonT(10) DEF TreeInv, TreeTypeOK
    <3>2. QED
      BY <1>2, <2>1, <2>2, <3>1 DEF TreeInv, TreeTypeOK, Rows
  <2>4. QED
    BY <1>2, <2>1, <2>2, <2>3, SameTree DEF TreeInv
<1>6. QED
  BY <1>4, <1>5

\* r is t with way for its first n places.
Replaced(r, way, t, n) ==
  /\ r \in Seq(Unit) /\ Len(r) \in Nat /\ Len(r) = Len(way) + (Len(t) - n)
  /\ \A k \in 1..Len(way) : r[k] = way[k]
  /\ \A k \in (Len(way) + 1)..Len(r) : r[k] = t[(k - Len(way)) + n]

\* That is what comes out when way comes before the rest of t.
LEMMA Joined ==
  ASSUME NEW way \in Seq(Unit), NEW t \in Seq(Unit), NEW n \in Nat, NEW q \in Seq(Unit),
         n <= Len(t), Len(q) = Len(t) - n, \A i \in 1..Len(q) : q[i] = t[i + n]
  PROVE  Replaced(way \o q, way, t, n)
<1>1. PICK r : r = way \o q
  OBVIOUS
<1>2. /\ r \in Seq(Unit) /\ Len(r) = Len(way) + Len(q)
      /\ \A k \in 1..(Len(way) + Len(q)) : r[k] = IF k <= Len(way) THEN way[k] ELSE q[k - Len(way)]
  BY <1>1, ConcatProperties
<1>3. Len(way) \in Nat /\ Len(q) \in Nat /\ Len(t) \in Nat /\ Len(r) \in Nat
  BY <1>2
<1>4. ASSUME NEW k \in 1..Len(way)
      PROVE  r[k] = way[k]
  <2>1. k \in 1..(Len(way) + Len(q)) /\ k <= Len(way)
    BY <1>3
  <2>2. QED
    BY <1>2, <2>1
<1>5. ASSUME NEW k \in (Len(way) + 1)..Len(r)
      PROVE  r[k] = t[(k - Len(way)) + n]
  <2>1. r[k] = q[k - Len(way)] /\ k - Len(way) \in 1..Len(q)
    BY <1>2, <1>3
  <2>2. QED
    BY <2>1
<1>6. Len(r) = Len(way) + (Len(t) - n)
  BY <1>2
<1>7. Replaced(r, way, t, n)
  BY <1>2, <1>3, <1>4, <1>5, <1>6 DEF Replaced
<1>8. QED
  BY <1>1, <1>7

\* The rest of a sequence after n places.
LEMMA RestIs ==
  ASSUME NEW S, NEW t \in Seq(S), NEW n \in Nat, n <= Len(t), NEW q, q = SubSeq(t, n + 1, Len(t))
  PROVE  q \in Seq(S) /\ Len(q) = Len(t) - n /\ \A i \in 1..Len(q) : q[i] = t[i + n]
<1>1. q \in Seq(S)
  OBVIOUS
<1>2. Len(q) = Len(t) - n
  OBVIOUS
<1>3. \A i \in 1..(Len(t) - n) : q[i] = t[(n + 1) + i - 1]
  OBVIOUS
<1>4. \A i \in 1..(Len(t) - n) : (n + 1) + i - 1 = i + n
  OBVIOUS
<1>5. QED
  BY <1>1, <1>2, <1>3, <1>4

\* The units whose paths begin with old.
Below(old) == {v \in Rows : IsPrefix(old, path[v])}

\* A unit on a path is below another one, if it comes as late and the end of the path is.
LEMMA BelowOnPath ==
  ASSUME TreeInv, NEW old \in Seq(Unit), NEW v \in Rows, NEW k \in 1..Len(path[v]), OnPath(v, k)
  PROVE  path[v][k] \in Below(old) <=> Len(old) <= k /\ v \in Below(old)
<1>1. PICK w \in Rows : w = path[v][k] /\ Len(path[w]) = k /\ \A j \in 1..k : path[w][j] = path[v][j]
  BY DEF OnPath
<1>2. /\ path[v] \in Seq(Unit) /\ path[w] \in Seq(Unit) /\ Len(path[v]) \in Nat
  BY RowTyped DEF TreeInv
<1>3. w \in Below(old) <=> Len(old) <= k /\ \A j \in 1..Len(old) : old[j] = path[w][j]
  BY <1>1, <1>2, PrefixIs DEF Below
<1>4. v \in Below(old) <=> Len(old) <= Len(path[v]) /\ \A j \in 1..Len(old) : old[j] = path[v][j]
  BY <1>2, PrefixIs DEF Below
<1>5. Len(old) \in Nat
  OBVIOUS
<1>6. Len(old) <= k => (\A j \in 1..Len(old) : path[w][j] = path[v][j]) /\ Len(old) <= Len(path[v])
  BY <1>1, <1>2, <1>5
<1>7. QED
  BY <1>1, <1>3, <1>4, <1>6

\* The write of a move: every path that began with the unit's begins with its new one.
LEMMA MoveWriteKeeps ==
  ASSUME TreeInv, NEW e \in Editor, MoveWrite(e)
  PROVE  TreeInv'
<1>1. PICK u \in Unit, p \in Unit \cup {Root}, old \in Seq(Unit), under \in Seq(Unit) :
        u = edit[e].unit /\ p = edit[e].to /\ old = edit[e].old /\ under = edit[e].under
  BY DEF TreeInv, TreeTypeOK, Edit
<1>2. /\ stage[e] = "move"
      /\ Len(old) > 0 /\ Len(old) \in Nat /\ old[Len(old)] = u
      /\ p # Root => ~ IsPrefix(old, under)
  BY <1>1 DEF MoveWrite, TreeInv, HandsOk
<1>3. Over(e) /\ row' = row /\ edits' = edits
  BY DEF MoveWrite
<1>4. Rows' = Rows
  BY <1>3 DEF Rows
<1>5. HandsOk' /\ stage' \in [Editor -> {"idle", "create", "parent", "move", "count", "delete"}]
               /\ edit' \in [Editor -> Edit]
  <2>1. \A d \in Editor \ {e} : stage[d] = "create" => row'[edit[d].unit] = "none"
    BY <1>3 DEF TreeInv, HandsOk
  <2>2. QED
    BY <1>3, <2>1, OverKeeps
<1>6. CASE u \in Rows /\ There(p)
  <2>1. PICK way : way = Append(under, u)
    OBVIOUS
  <2>2. /\ way \in Seq(Unit) /\ Len(way) = Len(under) + 1 /\ way[Len(way)] = u
        /\ Len(under) \in Nat /\ Len(way) \in Nat
        /\ \A k \in 1..Len(under) : way[k] = under[k]
    BY <1>1, <2>1
  <2>len. /\ Len(old) \in Nat /\ Len(way) \in Nat /\ Len(old) > 0 /\ Len(way) > 0
          /\ way[Len(way)] = u
    BY <1>2, <2>2
  <2>3. /\ parent' = [parent EXCEPT ![u] = p]
        /\ path' = [v \in Unit |->
                      IF v \in Rows /\ IsPrefix(old, path[v])
                      THEN way \o SubSeq(path[v], Len(old) + 1, Len(path[v]))
                      ELSE path[v]]
        /\ stale' = (stale \/ old # path[u] \/ under # PathOf(p))
    BY <1>1, <1>6, <2>1 DEF MoveWrite
  <2>4. \A v \in Unit \ Below(old) : path'[v] = path[v]
    BY <2>3 DEF Below
  <2>5. ASSUME NEW v \in Below(old)
        PROVE  /\ v \in Rows /\ path[v] \in Seq(Unit) /\ Len(path[v]) \in Nat
               /\ path[v][Len(path[v])] = v
               /\ Len(old) <= Len(path[v]) /\ \A j \in 1..Len(old) : old[j] = path[v][j]
               /\ Replaced(path'[v], way, path[v], Len(old))
    <3>1. v \in Rows /\ v \in Unit /\ IsPrefix(old, path[v])
      BY DEF Below, Rows
    <3>2. path[v] \in Seq(Unit) /\ Len(path[v]) \in Nat /\ path[v][Len(path[v])] = v
      BY <3>1, RowTyped DEF TreeInv
    <3>3. Len(old) <= Len(path[v]) /\ \A j \in 1..Len(old) : old[j] = path[v][j]
      BY <1>1, <3>1, <3>2, PrefixIs
    <3>4. PICK t, n, q : /\ t = path[v] /\ n = Len(old)
                         /\ q = SubSeq(t, n + 1, Len(t))
      OBVIOUS
    <3>5. t \in Seq(Unit) /\ n \in Nat /\ n <= Len(t)
      BY <1>2, <3>2, <3>3, <3>4
    <3>6. path'[v] = way \o q
      BY <2>3, <3>1, <3>4
    <3>7. q \in Seq(Unit) /\ Len(q) = Len(t) - n /\ \A i \in 1..Len(q) : q[i] = t[i + n]
      BY <3>4, <3>5, RestIs
    <3>8. Replaced(way \o q, way, t, n)
      BY <2>2, <3>5, <3>7, Joined
    <3>9. QED
      BY <3>1, <3>2, <3>3, <3>4, <3>6, <3>8
  <2>6. ASSUME NEW v \in Below(old), Len(path[v]) = Len(old)
        PROVE  v = u
    BY <1>2, <2>5, <2>6 DEF Replaced
  <2>7. ASSUME NEW v \in Rows PROVE path'[v] \in Seq(Unit) /\ Len(path'[v]) > 0 /\ path'[v][Len(path'[v])] = v
    <3>1. CASE v \notin Below(old)
      BY <2>4, <3>1, RowTyped DEF TreeInv
    <3>2. CASE v \in Below(old) /\ Len(path[v]) = Len(old)
      BY <2>len, <2>5, <2>6, <3>2 DEF Replaced
    <3>3. CASE v \in Below(old) /\ Len(path[v]) # Len(old)
      <4>1. Len(path[v]) > Len(old)
        BY <1>2, <2>5, <3>3 DEF Replaced
      <4>2. Len(path'[v]) = Len(way) + (Len(path[v]) - Len(old))
        BY <2>5, <3>3 DEF Replaced
      <4>3. Len(path'[v]) \in (Len(way) + 1)..Len(path'[v])
            /\ (Len(path'[v]) - Len(way)) + Len(old) = Len(path[v])
        BY <2>len, <2>5, <3>3, <4>1, <4>2 DEF Replaced
      <4>4. path'[v][Len(path'[v])] = path[v][Len(path[v])]
        <5>1. Replaced(path'[v], way, path[v], Len(old))
          BY <2>5, <3>3
        <5>2. PICK k : k = Len(path'[v])
          OBVIOUS
        <5>3. path'[v][k] = path[v][(k - Len(way)) + Len(old)]
          BY <4>3, <5>1, <5>2 DEF Replaced
        <5>4. QED
          BY <4>3, <5>2, <5>3
      <4>5. QED
        BY <2>len, <2>5, <3>3, <4>3, <4>4 DEF Replaced
    <3>4. QED
      BY <3>1, <3>2, <3>3
  <2>8. TreeTypeOK'
    <3>1. stale' \in BOOLEAN
      BY <2>3, ZenonT(10) DEF TreeInv, TreeTypeOK
    <3>2. path' \in [Unit -> Seq(Unit)]
      <4>1. ASSUME NEW v \in Unit PROVE path'[v] \in Seq(Unit)
        BY <2>4, <2>5 DEF TreeInv, TreeTypeOK, Replaced
      <4>2. DOMAIN path' = Unit /\ path' = [v \in Unit |-> path'[v]]
        BY <2>3
      <4>3. QED
        BY <4>1, <4>2
    <3>3. \A v \in Rows' : parent'[v] \in Rows' \cup {Root}
      BY <1>4, <1>6, <2>3 DEF TreeInv, TreeTypeOK, There
    <3>4. \A v \in Rows' : path'[v] # <<>> /\ Last(path'[v]) = v
      BY <1>4, <2>7 DEF Last
    <3>5. row' \in [Unit -> {"none", "there", "gone"}] /\ edits' \in Nat
          /\ parent' \in [Unit -> Unit \cup {Root}]
      BY <1>3, <2>3 DEF TreeInv, TreeTypeOK
    <3>6. QED
      BY <1>5, <3>1, <3>2, <3>3, <3>4, <3>5 DEF TreeTypeOK
  <2>9. PathsOk'
    <3> SUFFICES ASSUME ~ stale' PROVE PathsOk'
      BY DEF PathsOk
    <3>1. ~ stale /\ old = path[u] /\ under = PathOf(p)
      BY <2>3
    <3>2. \A v \in Rows : \A k \in 1..Len(path[v]) : OnPath(v, k)
      BY <3>1 DEF TreeInv, PathsOk
    <3>3. u \in Below(old)
      <4>1. IsPrefix(old, path[u])
        BY <1>1, <3>1, PrefixIs
      <4>2. QED
        BY <1>6, <4>1 DEF Below
    <3>u. Len(path'[u]) = Len(way) /\ \A j \in 1..Len(way) : path'[u][j] = way[j]
      <4>1. Replaced(path'[u], way, path[u], Len(old)) /\ Len(path[u]) = Len(old)
        BY <2>5, <3>1, <3>3
      <4>2. Len(path'[u]) = Len(way) + (Len(path[u]) - Len(old))
        BY <4>1 DEF Replaced
      <4>3. Len(path'[u]) = Len(way)
        BY <2>len, <4>1, <4>2
      <4>4. QED
        BY <4>1, <4>3 DEF Replaced
    <3>4. ASSUME p # Root
          PROVE  p \in Rows \ Below(old) /\ under = path[p] /\ Len(path[p]) > 0 /\ path[p][Len(path[p])] = p
      BY <1>2, <1>6, <3>1, <3>4, RowTyped DEF There, PathOf, Below, TreeInv
    <3>5. p = Root => Len(under) = 0
      BY <3>1 DEF PathOf
    <3>6. ASSUME NEW v \in Rows \ Below(old), NEW k \in 1..Len(path'[v]) PROVE OnPath(v, k)'
      <4>1. v \in Unit /\ path'[v] = path[v] /\ OnPath(v, k)
        BY <2>4, <3>2 DEF Rows
      <4>2. PICK w \in Rows : w = path[v][k] /\ Len(path[w]) = k /\ \A j \in 1..k : path[w][j] = path[v][j]
        BY <4>1 DEF OnPath
      <4>3. w \notin Below(old) /\ w \in Unit
        BY <1>1, <4>1, <4>2, BelowOnPath DEF Rows
      <4>4. path'[w] = path[w]
        BY <2>4, <4>3
      <4>5. QED
        BY <1>4, <4>1, <4>2, <4>4 DEF OnPath
    <3>7. ASSUME NEW v \in Below(old), NEW k \in 1..Len(path'[v]) PROVE OnPath(v, k)'
      <4>1. CASE k < Len(way)
        <5>1. k \in 1..Len(under) /\ p # Root
          BY <2>2, <3>5, <4>1
        <5>2. p \in Rows /\ p \notin Below(old) /\ under = path[p]
          BY <3>4, <5>1
        <5>3. OnPath(p, k)
          BY <3>2, <5>1, <5>2
        <5>4. PICK w \in Rows : w = path[p][k] /\ Len(path[w]) = k /\ \A j \in 1..k : path[w][j] = path[p][j]
          BY <5>3 DEF OnPath
        <5>5. w \notin Below(old) /\ w \in Unit
          BY <1>1, <5>1, <5>2, <5>3, <5>4, BelowOnPath DEF Rows
        <5>6. path'[w] = path[w]
          BY <2>4, <5>5
        <5>7. \A j \in 1..k : path'[v][j] = path[p][j]
          <6>1. Replaced(path'[v], way, path[v], Len(old))
            BY <2>5
          <6>2. \A j \in 1..k : j \in 1..Len(way) /\ j \in 1..Len(under)
            BY <2>2, <4>1, <5>1
          <6>3. \A j \in 1..k : path'[v][j] = way[j]
            BY <6>1, <6>2 DEF Replaced
          <6>4. \A j \in 1..k : way[j] = path[p][j]
            BY <2>2, <5>2, <6>2
          <6>5. QED
            BY <6>3, <6>4
        <5>8. path'[v][k] = w /\ \A j \in 1..k : path'[w][j] = path'[v][j]
          BY <5>1, <5>4, <5>6, <5>7
        <5>9. QED
          BY <1>4, <5>4, <5>6, <5>8 DEF OnPath
      <4>2. CASE k = Len(way)
        <5>1. path'[v][k] = u /\ \A j \in 1..k : path'[v][j] = way[j]
          BY <2>len, <2>5, <4>2 DEF Replaced
        <5>2. Len(path'[u]) = k /\ \A j \in 1..k : path'[u][j] = way[j]
          BY <3>u, <4>2
        <5>3. QED
          BY <1>4, <1>6, <5>1, <5>2 DEF OnPath
      <4>3. CASE k > Len(way)
        <5>1. /\ Len(path'[v]) = Len(way) + (Len(path[v]) - Len(old)) /\ Len(path'[v]) \in Nat
              /\ Len(path[v]) \in Nat /\ v \in Rows
          BY <2>5 DEF Replaced
        <5>2. PICK i : i = (k - Len(way)) + Len(old)
          OBVIOUS
        <5>3. i \in 1..Len(path[v]) /\ Len(old) <= i /\ k = Len(way) + (i - Len(old))
          BY <2>len, <4>3, <5>1, <5>2
        <5>4. PICK w \in Rows : w = path[v][i] /\ Len(path[w]) = i /\ \A j \in 1..i : path[w][j] = path[v][j]
          BY <3>2, <5>1, <5>3 DEF OnPath
        <5>5. w \in Below(old)
          BY <1>1, <3>2, <5>1, <5>3, <5>4, BelowOnPath
        <5>6. Len(path'[w]) = k
          BY <2>5, <5>3, <5>4, <5>5 DEF Replaced
        <5>7. path'[v][k] = w
          BY <2>len, <2>5, <4>3, <5>2, <5>4 DEF Replaced
        <5>8. ASSUME NEW j \in 1..k PROVE path'[w][j] = path'[v][j]
          <6>1. CASE j <= Len(way)
            BY <2>len, <2>5, <5>5, <6>1 DEF Replaced
          <6>2. CASE j > Len(way)
            <7>1. PICK h : h = (j - Len(way)) + Len(old)
              OBVIOUS
            <7>2. h \in 1..i /\ j \in (Len(way) + 1)..Len(path'[v]) /\ j \in (Len(way) + 1)..Len(path'[w])
              BY <2>len, <5>1, <5>3, <5>6, <6>2, <7>1
            <7>3. path'[v][j] = path[v][h] /\ path'[w][j] = path[w][h]
              BY <2>5, <5>5, <7>1, <7>2 DEF Replaced
            <7>4. QED
              BY <5>4, <7>2, <7>3
          <6>3. QED
            BY <2>2, <6>1, <6>2
        <5>9. QED
          BY <1>4, <5>4, <5>6, <5>7, <5>8 DEF OnPath
      <4>4. QED
        BY <2>2, <4>1, <4>2, <4>3
    <3>8. ASSUME NEW v \in Rows
          PROVE  /\ Len(path'[v]) = 1 => parent'[v] = Root
                 /\ Len(path'[v]) > 1 => parent'[v] = path'[v][Len(path'[v]) - 1]
      <4>1. CASE v \notin Below(old)
        <5>1. v # u /\ path'[v] = path[v] /\ parent'[v] = parent[v]
          BY <2>3, <2>4, <3>3, <4>1 DEF TreeInv, TreeTypeOK, Rows
        <5>2. QED
          BY <3>1, <5>1 DEF TreeInv, PathsOk
      <4>2. CASE v \in Below(old) /\ v # u
        <5>1. /\ Len(path[v]) \in Nat /\ Len(old) < Len(path[v])
              /\ Len(path'[v]) = Len(way) + (Len(path[v]) - Len(old))
          BY <1>2, <2>5, <2>6, <4>2 DEF Replaced
        <5>2. parent'[v] = parent[v]
          BY <2>3, <4>2 DEF TreeInv, TreeTypeOK, Rows
        <5>3. parent[v] = path[v][Len(path[v]) - 1]
          BY <1>2, <3>1, <5>1 DEF TreeInv, PathsOk
        <5>4. CASE Len(path[v]) = Len(old) + 1
          <6>1. Len(path'[v]) - 1 = Len(way) /\ Len(path[v]) - 1 = Len(old) /\ Len(path'[v]) # 1
            BY <1>2, <2>2, <5>1, <5>4
          <6>2. path'[v][Len(way)] = u
            BY <2>len, <2>5, <4>2 DEF Replaced
          <6>3. path[v][Len(old)] = u
            <7>1. \A j \in 1..Len(old) : old[j] = path[v][j]
              BY <2>5, <4>2
            <7>2. Len(old) \in 1..Len(old)
              BY <2>len
            <7>3. QED
              BY <1>2, <7>1, <7>2
          <6>4. QED
            BY <5>2, <5>3, <6>1, <6>2, <6>3
        <5>5. CASE Len(path[v]) # Len(old) + 1
          <6>1. PICK k : k = Len(path'[v]) - 1
            OBVIOUS
          <6>2. k \in (Len(way) + 1)..Len(path'[v]) /\ (k - Len(way)) + Len(old) = Len(path[v]) - 1
                /\ Len(path'[v]) # 1
            <7>1. PICK a \in Nat : a = Len(path[v])
              BY <5>1
            <7>2. PICK w \in Nat : w = Len(way)
              BY <2>len
            <7>3. PICK o \in Nat : o = Len(old)
              BY <2>len
            <7>4. o < a /\ a # o + 1 /\ Len(path'[v]) = w + (a - o) /\ k = Len(path'[v]) - 1
              BY <5>1, <5>5, <6>1, <7>1, <7>2, <7>3
            <7>5. k \in (w + 1)..(w + (a - o)) /\ (k - w) + o = a - 1 /\ w + (a - o) # 1
              BY <7>4
            <7>6. QED
              BY <7>1, <7>2, <7>3, <7>4, <7>5
          <6>3. path'[v][k] = path[v][Len(path[v]) - 1]
            <7>1. Replaced(path'[v], way, path[v], Len(old))
              BY <2>5, <4>2
            <7>2. path'[v][k] = path[v][(k - Len(way)) + Len(old)]
              BY <6>2, <7>1 DEF Replaced
            <7>3. QED
              BY <6>2, <7>2
          <6>4. QED
            BY <5>2, <5>3, <6>1, <6>2, <6>3
        <5>6. QED
          BY <5>4, <5>5
      <4>3. CASE v = u
        <5>1. parent'[u] = p
          BY <2>3 DEF TreeInv, TreeTypeOK
        <5>2. Len(path'[u]) = Len(way) /\ \A k \in 1..Len(way) : path'[u][k] = way[k]
          BY <3>u
        <5>3. CASE p = Root
          <6>1. Len(path'[u]) = 1
            BY <2>2, <3>5, <5>2, <5>3
          <6>2. QED
            BY <4>3, <5>1, <5>3, <6>1
        <5>4. CASE p # Root
          <6>1. Len(under) > 0 /\ under[Len(under)] = p
            BY <3>4, <5>4
          <6>2. Len(path'[u]) # 1 /\ Len(path'[u]) - 1 = Len(under) /\ path'[u][Len(under)] = p
            BY <2>2, <5>2, <6>1
          <6>3. QED
            BY <4>3, <5>1, <6>2
        <5>5. QED
          BY <5>3, <5>4
      <4>4. QED
        BY <4>1, <4>2, <4>3
    <3>9. QED
      BY <1>4, <3>6, <3>7, <3>8 DEF PathsOk
  <2>10. QED
    BY <1>5, <2>8, <2>9 DEF TreeInv
<1>7. CASE ~ (u \in Rows /\ There(p))
  <2>1. parent' = parent /\ path' = path /\ stale' = stale
    BY <1>1, <1>7 DEF MoveWrite
  <2>2. TreeTypeOK'
    <3>1. stale' \in BOOLEAN
      BY <2>1, ZenonT(10) DEF TreeInv, TreeTypeOK
    <3>2. QED
      BY <1>3, <1>5, <2>1, <3>1 DEF TreeInv, TreeTypeOK, Rows
  <2>3. QED
    BY <1>3, <1>5, <2>1, <2>2, SameTree DEF TreeInv
<1>8. QED
  BY <1>6, <1>7

\* Every step keeps the invariant.
LEMMA TreeStep == TreeInv /\ [TreeNext]_treeVars => TreeInv'
<1> SUFFICES ASSUME TreeInv, [TreeNext]_treeVars PROVE TreeInv'
  OBVIOUS
<1>1. ASSUME NEW e \in Editor, NEW u \in Unit, NEW p \in Unit \cup {Root}, CreateRead(e, u, p)
      PROVE  TreeInv'
  BY <1>1, CreateReadKeeps
<1>2. ASSUME NEW e \in Editor, NEW u \in Unit, NEW p \in Unit \cup {Root}, MoveRead(e, u, p)
      PROVE  TreeInv'
  BY <1>2, MoveReadKeeps
<1>3. ASSUME NEW e \in Editor, NEW u \in Unit, RemoveRead(e, u) PROVE TreeInv'
  BY <1>3, RemoveReadKeeps
<1>4. ASSUME NEW e \in Editor, CreateWrite(e) PROVE TreeInv'
  BY <1>4, CreateWriteKeeps
<1>5. ASSUME NEW e \in Editor, MoveParent(e) PROVE TreeInv'
  BY <1>5, MoveParentKeeps
<1>6. ASSUME NEW e \in Editor, MoveWrite(e) PROVE TreeInv'
  BY <1>6, MoveWriteKeeps
<1>7. ASSUME NEW e \in Editor, RemoveCount(e) PROVE TreeInv'
  BY <1>7, RemoveCountKeeps
<1>8. ASSUME NEW e \in Editor, RemoveDelete(e) PROVE TreeInv'
  BY <1>8, RemoveDeleteKeeps
<1>9. CASE UNCHANGED treeVars
  <2>1. row' = row /\ parent' = parent /\ path' = path /\ stale' = stale
        /\ stage' = stage /\ edit' = edit /\ edits' = edits
    BY <1>9 DEF treeVars
  <2>2. TreeTypeOK'
    <3>1. stale' \in BOOLEAN
      BY <2>1, ZenonT(10) DEF TreeInv, TreeTypeOK
    <3>2. QED
      BY <2>1, <3>1 DEF TreeInv, TreeTypeOK, Rows
  <2>3. HandsOk'
    BY <2>1 DEF TreeInv, HandsOk
  <2>4. QED
    BY <2>1, <2>2, <2>3, SameTree DEF TreeInv
<1>10. QED
  BY <1>1, <1>2, <1>3, <1>4, <1>5, <1>6, <1>7, <1>8, <1>9 DEF TreeNext

\* Whatever edits overlap, a path begins with the paths of the units on it and follows the
\* parents, unless somebody wrote from a path that had changed (create, move, remove).
THEOREM TreeInductive == TreeSpec => []TreeInv
BY TreeInitInv, TreeStep, PTL DEF TreeSpec

\* What the path of a unit says of the units on it.
LEMMA PathFacts ==
  ASSUME TreeInv, ~ stale, NEW u \in Rows
  PROVE  /\ path[u] \in Seq(Unit) /\ Len(path[u]) \in Nat /\ Len(path[u]) > 0
         /\ path[u][Len(path[u])] = u
         /\ \A k \in 1..Len(path[u]) :
              /\ path[u][k] \in Rows /\ Len(path[path[u][k]]) = k
              /\ \A j \in 1..k : path[path[u][k]][j] = path[u][j]
BY RowTyped DEF TreeInv, PathsOk, OnPath

\* What it says of one of them.
LEMMA UnitOnPath ==
  ASSUME TreeInv, ~ stale, NEW u \in Rows, NEW k \in 1..Len(path[u]), NEW v, v = path[u][k]
  PROVE  v \in Rows /\ Len(path[v]) = k /\ \A j \in 1..k : path[v][j] = path[u][j]
BY PathFacts

\* A path is the parent's and the unit.
LEMMA PathIsParents ==
  ASSUME TreeInv, ~ stale, NEW u \in Rows
  PROVE  path[u] = Append(PathOf(parent[u]), u)
<1>1. PICK n \in Nat : n = Len(path[u]) /\ n > 0 /\ path[u] \in Seq(Unit) /\ path[u][n] = u /\ u \in Unit
  BY PathFacts DEF Rows
<1>2. CASE n = 1
  <2>1. PathOf(parent[u]) = <<>>
    BY <1>1, <1>2 DEF TreeInv, PathsOk, PathOf
  <2>2. PICK s : s = Append(<<>>, u)
    OBVIOUS
  <2>3. s \in Seq(Unit) /\ Len(s) = 1 /\ s[1] = u
    BY <1>1, <2>2
  <2>4. PICK t \in Seq(Unit) : t = path[u] /\ Len(t) = 1 /\ t[1] = u
    BY <1>1, <1>2
  <2>5. \A j \in 1..Len(t) : t[j] = s[j]
    BY <2>3, <2>4
  <2>6. t = s
    BY <2>3, <2>4, <2>5, SameSequence
  <2>7. QED
    BY <2>1, <2>2, <2>4, <2>6
<1>3. CASE n # 1
  <2>1. PICK m : m = n - 1
    OBVIOUS
  <2>2. m \in 1..n /\ n = m + 1 /\ n > 1 /\ m \in Nat
    <3>1. n \in Nat /\ n > 0
      BY <1>1
    <3>2. QED
      BY <1>3, <2>1, <3>1
  <2>3. PICK p \in Rows : p = path[u][m] /\ Len(path[p]) = m /\ \A j \in 1..m : path[p][j] = path[u][j]
    <3>1. PICK p : p = path[u][m]
      OBVIOUS
    <3>2. m \in 1..Len(path[u])
      BY <1>1, <2>2
    <3>3. p \in Rows /\ Len(path[p]) = m /\ \A j \in 1..m : path[p][j] = path[u][j]
      BY <3>1, <3>2, UnitOnPath
    <3>4. QED
      BY <3>1, <3>3
  <2>4. parent[u] = p /\ p # Root /\ path[p] \in Seq(Unit)
    BY <1>1, <2>1, <2>2, <2>3, PathFacts, OrgTreeAssumption DEF TreeInv, PathsOk, Rows
  <2>5. PICK t \in Seq(Unit) : t = path[p] /\ PathOf(parent[u]) = t /\ Len(t) = m
    BY <2>3, <2>4 DEF PathOf
  <2>6. PICK s : s = Append(t, u)
    OBVIOUS
  <2>7. s \in Seq(Unit) /\ Len(s) = Len(t) + 1 /\ s[Len(t) + 1] = u /\ \A j \in 1..Len(t) : s[j] = t[j]
    BY <1>1, <2>6, AppendProperties
  <2>8. Len(s) = n /\ s[n] = u
    BY <2>2, <2>5, <2>7
  <2>9. ASSUME NEW j \in 1..n PROVE path[u][j] = s[j]
    <3>1. CASE j = n
      BY <1>1, <2>8, <3>1
    <3>2. CASE j # n
      <4>1. j \in 1..m
        BY <2>2, <3>2
      <4>2. QED
        BY <2>3, <2>5, <2>7, <4>1
    <3>3. QED
      BY <3>1, <3>2
  <2>10. path[u] = s
    BY <1>1, <2>7, <2>8, <2>9, SameSequence
  <2>11. QED
    BY <2>5, <2>6, <2>10
<1>4. QED
  BY <1>2, <1>3

\* The units at or above a unit are those on its path.
LEMMA AboveIs ==
  ASSUME TreeInv, ~ stale, NEW u \in Rows
  PROVE  Above(u) = {path[u][k] : k \in 1..Len(path[u])}
<1>1. PICK n \in Nat : n = Len(path[u]) /\ n > 0 /\ path[u][n] = u
  BY PathFacts
<1>2. PICK on : on = {path[u][k] : k \in 1..n}
  OBVIOUS
<1>3. ASSUME NEW k \in 1..n
      PROVE  /\ path[u][k] \in Rows
             /\ k = 1 => parent[path[u][k]] = Root
             /\ k > 1 => parent[path[u][k]] = path[u][k - 1]
  <2>1. PICK v \in Rows : v = path[u][k] /\ Len(path[v]) = k /\ \A j \in 1..k : path[v][j] = path[u][j]
    <3>1. /\ path[u][k] \in Rows /\ Len(path[path[u][k]]) = k
          /\ \A j \in 1..k : path[path[u][k]][j] = path[u][j]
      BY <1>1, PathFacts
    <3>2. QED
      BY <3>1, Zenon
  <2>2. /\ k = 1 => parent[v] = Root
        /\ k > 1 => parent[v] = path[v][k - 1]
    BY <2>1 DEF TreeInv, PathsOk
  <2>3. k > 1 => k - 1 \in 1..k
    OBVIOUS
  <2>4. QED
    BY <2>1, <2>2, <2>3
<1>4. on \in SUBSET Rows /\ u \in on
  BY <1>1, <1>2, <1>3
<1>5. Upward(on)
  <2>1. ASSUME NEW k \in 1..n PROVE parent[path[u][k]] \in on \cup {Root}
    <3>1. CASE k = 1
      BY <1>3, <3>1
    <3>2. CASE k > 1
      <4>1. k - 1 \in 1..n
        BY <1>1, <3>2
      <4>2. QED
        BY <1>2, <1>3, <3>2, <4>1
    <3>3. QED
      BY <1>1, <3>1, <3>2
  <2>2. QED
    BY <1>2, <2>1 DEF Upward
<1>6. Above(u) \subseteq on
  BY <1>4, <1>5 DEF Above
<1>7. ASSUME NEW k \in 1..n PROVE path[u][k] \in Above(u)
  <2> SUFFICES ASSUME NEW units \in SUBSET Rows, u \in units, Upward(units), path[u][k] \notin units
               PROVE  FALSE
    BY <1>3 DEF Above
  <2>1. PICK out : out = {j \in 1..n : path[u][j] \notin units}
    OBVIOUS
  <2>2. PICK m \in out : \A j \in out : j <= m
    <3>1. out \in SUBSET Nat /\ out # {} /\ \A j \in out : j <= n
      BY <1>1, <2>1
    <3>2. QED
      BY <1>1, <3>1, GreatestExists
  <2>3. m \in 1..n /\ path[u][m] \notin units /\ m # n
    BY <1>1, <2>1, <2>2
  <2>4. PICK j : j = m + 1
    OBVIOUS
  <2>5. j \in 1..n /\ j > 1 /\ j - 1 = m /\ ~ (j <= m)
    BY <1>1, <2>3, <2>4
  <2>6. path[u][j] \in units
    BY <2>1, <2>2, <2>5
  <2>7. parent[path[u][j]] = path[u][m]
    BY <1>3, <2>5
  <2>8. path[u][m] \in units \cup {Root}
    BY <2>6, <2>7 DEF Upward
  <2>9. path[u][m] # Root
    BY <1>3, <2>3, OrgTreeAssumption DEF Rows
  <2>10. QED
    BY <2>3, <2>8, <2>9
<1>8. QED
  BY <1>1, <1>2, <1>6, <1>7

\* A unit whose path begins that of u is the one on it at the length of its path.
LEMMA PrefixOnPath ==
  ASSUME TreeInv, ~ stale, NEW u \in Rows, NEW v \in Rows
  PROVE  IsPrefix(path[v], path[u]) <=> \E k \in 1..Len(path[u]) : path[u][k] = v
<1>1. PICK s \in Seq(Unit), t \in Seq(Unit) : s = path[v] /\ t = path[u]
  BY PathFacts
<1>2. Len(s) \in Nat /\ Len(s) > 0 /\ s[Len(s)] = v /\ Len(t) \in Nat
  BY <1>1, PathFacts
<1>3. IsPrefix(s, t) <=> Len(s) <= Len(t) /\ \A j \in 1..Len(s) : s[j] = t[j]
  BY PrefixIs
<1>4. ASSUME IsPrefix(s, t) PROVE Len(s) \in 1..Len(t) /\ t[Len(s)] = v
  BY <1>2, <1>3, <1>4
<1>5. ASSUME NEW k \in 1..Len(t), t[k] = v PROVE Len(s) <= Len(t) /\ \A j \in 1..Len(s) : s[j] = t[j]
  <2>1. Len(s) = k /\ \A j \in 1..k : s[j] = t[j]
    BY <1>1, <1>5, PathFacts
  <2>2. QED
    BY <1>2, <2>1
<1>6. QED
  BY <1>1, <1>3, <1>4, <1>5

\* What is read off the path of u, for the units chosen that are on it.
LEMMA ReadOffPath ==
  ASSUME TreeInv, ~ stale, NEW u \in Rows, NEW chosen \in SUBSET Rows
  PROVE  LET near == NearestByPath(u, chosen)
             kin  == chosen \cap Above(u)
         IN /\ IF kin = {} THEN near = Root
               ELSE near \in kin /\ \A v \in kin : v \in Above(near)
            /\ CapByPath(u, chosen) = near
            /\ u \in InScope(chosen) <=> kin # {}
<1>1. PICK n, kin, near, at :
        /\ n \in Nat /\ n = Len(path[u]) /\ n > 0
        /\ kin = chosen \cap Above(u) /\ near = NearestByPath(u, chosen)
        /\ at = {k \in 1..n : path[u][k] \in chosen}
  BY PathFacts
<1>2. DOMAIN path[u] = 1..n
  BY <1>1, PathFacts
<1>3. near = IF at = {} THEN Root ELSE path[u][Max(at)]
  BY <1>1, <1>2 DEF NearestByPath
<1>4. kin = {path[u][k] : k \in at}
  BY <1>1, AboveIs
<1>5. \A k \in 1..n : path[u][k] \in Rows /\ Len(path[path[u][k]]) = k
                      /\ \A j \in 1..k : path[path[u][k]][j] = path[u][j]
  BY <1>1, PathFacts
<1>6. \A v \in chosen : IsPrefix(path[v], path[u]) <=> v \in kin
  <2>1. ASSUME NEW v \in chosen PROVE IsPrefix(path[v], path[u]) <=> \E k \in 1..n : path[u][k] = v
    BY <1>1, PrefixOnPath
  <2>2. QED
    BY <1>1, <1>4, <2>1
<1>7. PICK over : over = {v \in chosen : IsPrefix(path[v], path[u])}
  OBVIOUS
<1>8. over = kin
  BY <1>1, <1>6, <1>7
<1>9. CASE at = {}
  <2>1. kin = {} /\ near = Root
    BY <1>3, <1>4, <1>9
  <2>2. CapByPath(u, chosen) = Root
    BY <1>7, <1>8, <2>1 DEF CapByPath
  <2>3. u \notin InScope(chosen)
    BY <1>7, <1>8, <2>1 DEF InScope, ScopePaths
  <2>4. QED
    BY <1>1, <2>1, <2>2, <2>3
<1>10. CASE at # {}
  <2>1. at \in SUBSET Nat /\ \A k \in at : k <= n
    BY <1>1
  <2>2. PICK m \in at : m = Max(at) /\ \A k \in at : k <= m
    BY <1>1, <1>10, <2>1, MaxIs
  <2>3. near = path[u][m] /\ near \in kin /\ near \in Rows /\ m \in 1..n
    BY <1>1, <1>3, <1>4, <1>10, <2>2
  <2>4. Above(near) = {path[u][k] : k \in 1..m}
    <3>1. Above(near) = {path[near][k] : k \in 1..Len(path[near])}
      BY <2>3, AboveIs
    <3>2. QED
      BY <1>5, <2>3, <3>1
  <2>5. \A v \in kin : v \in Above(near)
    BY <1>1, <1>4, <2>2, <2>4
  <2>6. CapByPath(u, chosen) = near
    <3>1. \A w \in kin : Len(path[w]) <= Len(path[near])
      <4>1. ASSUME NEW k \in at PROVE Len(path[path[u][k]]) <= Len(path[near])
        <5>1. Len(path[path[u][k]]) = k /\ Len(path[near]) = m /\ k <= m
          BY <1>1, <1>5, <2>2, <2>3
        <5>2. QED
          BY <5>1
      <4>2. QED
        BY <1>4, <4>1
    <3>2. ASSUME NEW v \in kin, \A w \in kin : Len(path[w]) <= Len(path[v]) PROVE v = near
      <4>1. PICK k \in at : v = path[u][k]
        BY <1>4
      <4>2. Len(path[v]) = k /\ Len(path[near]) = m
        BY <1>1, <1>5, <2>3, <4>1
      <4>3. m <= k /\ k <= m
        BY <2>2, <2>3, <3>2, <4>2
      <4>4. k \in Nat /\ m \in Nat
        BY <2>1
      <4>5. k = m
        BY <4>3, <4>4
      <4>6. QED
        BY <2>3, <4>1, <4>5
    <3>3. QED
      BY <1>7, <1>8, <2>3, <3>1, <3>2 DEF CapByPath
  <2>7. u \in InScope(chosen)
    <3>1. PICK l \in at : \A k \in at : l <= k
      BY <1>10, <2>1, LeastExists
    <3>2. PICK top \in chosen : top = path[u][l] /\ top \in kin /\ l \in 1..n /\ top \in Rows
      BY <1>1, <1>4, <3>1
    <3>3. IsPrefix(path[top], path[u])
      BY <1>6, <3>2
    <3>4. ASSUME NEW v \in chosen, IsPrefix(path[v], path[top]) PROVE v = top
      <4>1. PICK k \in 1..Len(path[top]) : path[top][k] = v
        BY <3>2, <3>4, PrefixOnPath
      <4>2. k \in 1..l /\ k \in 1..n /\ path[u][k] = v
        BY <1>1, <1>5, <3>2, <4>1
      <4>3. k \in at /\ l <= k
        BY <1>1, <3>1, <4>2
      <4>4. QED
        BY <3>2, <4>2, <4>3
    <3>5. path[top] \in ScopePaths(chosen)
      BY <3>2, <3>4 DEF ScopePaths
    <3>6. QED
      BY <3>3, <3>5 DEF InScope
  <2>8. QED
    BY <1>1, <2>3, <2>5, <2>6, <2>7
<1>11. QED
  BY <1>9, <1>10

\* So paths tell the tree.
LEMMA InvTells == TreeInv => PathsTellTheTree
BY PathIsParents, ReadOffPath DEF PathsTellTheTree

\* Whatever edits overlap, as long as nobody writes from a path that another one has
\* changed meanwhile, paths follow the parents without a cycle, and the nearest unit, the
\* cap and the scope that are read off them are those of the tree (create, move, remove;
\* approval-resolver, shifts, calendars, overtime, employees).
THEOREM PathsAreTheTree == TreeSpec => []PathsTellTheTree
BY TreeInductive, InvTells, PTL

-----------------------------------------------------------------------------
(* Payslip: loops.                                                           *)

\* What holds before a loop and goes from one round to the next holds after every round.
LEMMA Climbs ==
  ASSUME NEW n \in Nat, NEW G, 0 \in G, \A i \in 1..n : i - 1 \in G => i \in G
  PROVE  \A i \in 0..n : i \in G
<1> DEFINE B == {i \in 0..n : i \notin G}
<1>1. SUFFICES ASSUME B # {} PROVE FALSE
  OBVIOUS
<1>2. PICK m \in B : \A k \in B : m <= k
  <2>1. B \in SUBSET Nat
    OBVIOUS
  <2> HIDE DEF B
  <2>2. QED
    BY <1>1, <2>1, LeastExists
<1>3. m \in 1..n
  OBVIOUS
<1>4. m - 1 \in 0..n /\ m - 1 \notin B
  BY <1>2, <1>3
<1>5. QED
  BY <1>3, <1>4

\* f[i] is the state after round i of a loop over 1..n, from s, when round i makes
\* step[i][s] of a state s.
Loops(f, s, step, n) == f[0] = s /\ \A i \in 1..n : f[i] = step[i][f[i - 1]]

\* Every loop has a state after each round.
LEMMA LoopExists ==
  ASSUME NEW S, NEW s0 \in S, NEW n \in Nat, NEW step \in [1..n -> [S -> S]]
  PROVE  \E f \in [0..n -> S] : Loops(f, s0, step, n)
<1> DEFINE Loop(f, k) == \A i \in 0..k : f[i] = IF i = 0 THEN s0 ELSE step[i][f[i - 1]]
           G == {k \in Nat : \E f \in [0..k -> S] : Loop(f, k)}
<1>1. 0 \in G
  <2>1. [i \in 0..0 |-> s0] \in [0..0 -> S] /\ Loop([i \in 0..0 |-> s0], 0)
    OBVIOUS
  <2>2. QED
    BY <2>1
<1>2. ASSUME NEW k \in 1..n, k - 1 \in G PROVE k \in G
  <2>1. PICK f \in [0..(k - 1) -> S] : Loop(f, k - 1)
    BY <1>2
  <2> DEFINE g == [i \in 0..k |-> IF i = k THEN step[k][f[k - 1]] ELSE f[i]]
  <2>2. k - 1 \in 0..(k - 1) /\ k \in Nat /\ k # 0
    OBVIOUS
  <2>3. f[k - 1] \in S /\ step[k][f[k - 1]] \in S
    BY <2>2
  <2>4. g \in [0..k -> S]
    BY <2>3
  <2>5. ASSUME NEW i \in 0..k PROVE g[i] = IF i = 0 THEN s0 ELSE step[i][g[i - 1]]
    <3>1. CASE i = k
      <4>1. g[i] = step[k][f[k - 1]] /\ g[i - 1] = f[k - 1]
        BY <2>2, <3>1
      <4>2. QED
        BY <2>2, <3>1, <4>1
    <3>2. CASE i # k
      <4>1. i \in 0..(k - 1) /\ g[i] = f[i]
        BY <3>2
      <4>2. i # 0 => g[i - 1] = f[i - 1]
        BY <4>1
      <4>3. f[i] = IF i = 0 THEN s0 ELSE step[i][f[i - 1]]
        BY <2>1, <4>1
      <4>4. QED
        BY <4>1, <4>2, <4>3
    <3>3. QED
      BY <3>1, <3>2
  <2>6. Loop(g, k)
    <3> HIDE DEF g
    <3>1. QED
      BY <2>5
  <2>7. QED
    <3> HIDE DEF g, Loop
    <3>1. QED
      BY <2>2, <2>4, <2>6
<1>3. n \in G
  <2>1. n \in 0..n
    OBVIOUS
  <2> HIDE DEF G
  <2>2. QED
    BY <1>1, <1>2, <2>1, Climbs
<1>4. PICK f \in [0..n -> S] : Loop(f, n)
  BY <1>3
<1>5. f[0] = s0
  BY <1>4
<1>6. ASSUME NEW i \in 1..n PROVE f[i] = step[i][f[i - 1]]
  <2>1. i \in 0..n /\ i # 0
    OBVIOUS
  <2>2. QED
    BY <1>4, <2>1
<1>7. QED
  BY <1>5, <1>6 DEF Loops

-----------------------------------------------------------------------------
(* Payslip: sums.                                                            *)

\* t[i] is the sum of the first i numbers of the list.
Running(t, list) ==
  /\ t \in [0..Len(list) -> Int]
  /\ t[0] = 0
  /\ \A i \in 1..Len(list) : t[i] = t[i - 1] + list[i]

\* The running sums exist, and the last of them is the sum.
LEMMA SumIsLast ==
  ASSUME NEW list \in Seq(Int)
  PROVE  \E t : Running(t, list) /\ SumOf(list) = t[Len(list)]
<1> DEFINE n == Len(list)
           Is(f) == f = [i \in 0..n |-> IF i = 0 THEN 0 ELSE f[i - 1] + list[i]]
           sum == CHOOSE f : Is(f)
<1>1. n \in Nat
  OBVIOUS
<1>2. PICK step \in [1..n -> [Int -> Int]] : \A i \in 1..n, p \in Int : step[i][p] = p + list[i]
  <2>1. [i \in 1..n |-> [p \in Int |-> p + list[i]]] \in [1..n -> [Int -> Int]]
    OBVIOUS
  <2>2. QED
    BY <2>1
<1>3. PICK f \in [0..n -> Int] : f[0] = 0 /\ \A i \in 1..n : f[i] = step[i][f[i - 1]]
  <2>1. 0 \in Int
    OBVIOUS
  <2>2. \E f \in [0..n -> Int] : Loops(f, 0, step, n)
    BY <1>1, <2>1, LoopExists
  <2>3. QED
    BY <2>2 DEF Loops
<1>4. \A i \in 0..n : f[i] = IF i = 0 THEN 0 ELSE f[i - 1] + list[i]
  <2>1. ASSUME NEW i \in 1..n PROVE f[i] = f[i - 1] + list[i]
    <3>1. i - 1 \in 0..n
      BY <1>1
    <3>2. f[i - 1] \in Int
      BY <3>1
    <3>3. QED
      BY <1>2, <1>3, <3>2
  <2>2. \A i \in 0..n : i # 0 => i \in 1..n
    BY <1>1
  <2>3. QED
    BY <1>3, <2>1, <2>2
<1>5. Is(f)
  BY <1>4
<1>6. Is(sum)
  <2> HIDE DEF Is
  <2>1. QED
    BY <1>5
<1> HIDE DEF sum
<1>7. \A i \in 0..n : sum[i] = IF i = 0 THEN 0 ELSE sum[i - 1] + list[i]
  BY <1>6
<1>8. \A i \in 0..n : sum[i] \in Int
  <2> DEFINE G == {i \in 0..n : sum[i] \in Int}
  <2>1. 0 \in G
    BY <1>1, <1>7
  <2>2. ASSUME NEW i \in 1..n, i - 1 \in G PROVE i \in G
    <3>1. sum[i] = sum[i - 1] + list[i] /\ list[i] \in Int /\ sum[i - 1] \in Int /\ i \in 0..n
      BY <1>7, <2>2
    <3>2. QED
      BY <3>1
  <2>3. \A i \in 0..n : i \in G
    <3> HIDE DEF G, n
    <3>1. QED
      BY <1>1, <2>1, <2>2, Climbs
  <2>4. QED
    BY <2>3
<1>9. Running(sum, list)
  <2>1. sum \in [0..n -> Int]
    BY <1>6, <1>8
  <2>2. sum[0] = 0 /\ \A i \in 1..n : sum[i] = sum[i - 1] + list[i]
    BY <1>1, <1>7
  <2>3. QED
    BY <2>1, <2>2 DEF Running
<1>10. SumOf(list) = sum[n]
  BY DEF SumOf, sum
<1>11. QED
  BY <1>9, <1>10

\* There is one list of running sums.
LEMMA RunningIsSum ==
  ASSUME NEW list \in Seq(Int), NEW t, Running(t, list)
  PROVE  SumOf(list) = t[Len(list)] /\ SumOf(list) \in Int
<1>1. PICK r : Running(r, list) /\ SumOf(list) = r[Len(list)]
  BY SumIsLast
<1> DEFINE n == Len(list)
           G == {i \in 0..n : r[i] = t[i]}
<1>2. n \in Nat
  OBVIOUS
<1>3. 0 \in G
  BY <1>1, <1>2 DEF Running
<1>4. ASSUME NEW i \in 1..n, i - 1 \in G PROVE i \in G
  <2>1. r[i] = r[i - 1] + list[i] /\ t[i] = t[i - 1] + list[i] /\ r[i - 1] = t[i - 1] /\ i \in 0..n
    BY <1>1, <1>4 DEF Running
  <2>2. QED
    BY <2>1
<1>5. \A i \in 0..n : i \in G
  <2> HIDE DEF G, n
  <2>1. QED
    BY <1>2, <1>3, <1>4, Climbs
<1>6. n \in 0..n
  BY <1>2
<1>7. QED
  BY <1>1, <1>5, <1>6 DEF Running

\* A sum is a number.
LEMMA SumIsInt == ASSUME NEW list \in Seq(Int) PROVE SumOf(list) \in Int
BY SumIsLast, RunningIsSum

\* The sum of two lists one after the other.
LEMMA SumConcat ==
  ASSUME NEW a \in Seq(Int), NEW b \in Seq(Int)
  PROVE  SumOf(a \o b) = SumOf(a) + SumOf(b)
<1>1. PICK r : Running(r, a) /\ SumOf(a) = r[Len(a)]
  BY SumIsLast
<1>2. PICK t : Running(t, b) /\ SumOf(b) = t[Len(b)]
  BY SumIsLast
<1>3. PICK n \in Nat : n = Len(a)
  OBVIOUS
<1>4. PICK m \in Nat : m = Len(b)
  OBVIOUS
<1>5. PICK c \in Seq(Int) : c = a \o b
  BY ConcatProperties
<1>6. /\ Len(c) = n + m
      /\ \A i \in 1..n : c[i] = a[i]
      /\ \A i \in (n + 1)..(n + m) : c[i] = b[i - n]
  BY <1>3, <1>4, <1>5
<1> DEFINE u == [i \in 0..(n + m) |-> IF i <= n THEN r[i] ELSE r[n] + t[i - n]]
<1>7. /\ r \in [0..n -> Int] /\ r[0] = 0 /\ \A i \in 1..n : r[i] = r[i - 1] + a[i]
      /\ t \in [0..m -> Int] /\ t[0] = 0 /\ \A i \in 1..m : t[i] = t[i - 1] + b[i]
  BY <1>1, <1>2, <1>3, <1>4 DEF Running
<1>8. u \in [0..(n + m) -> Int]
  <2>1. ASSUME NEW i \in 0..(n + m) PROVE (IF i <= n THEN r[i] ELSE r[n] + t[i - n]) \in Int
    <3>1. i <= n => i \in 0..n
      OBVIOUS
    <3>2. ~ (i <= n) => i - n \in 0..m
      OBVIOUS
    <3>3. n \in 0..n
      OBVIOUS
    <3>4. QED
      BY <1>7, <3>1, <3>2, <3>3
  <2>2. QED
    BY <2>1
<1>9. u[0] = 0
  <2>1. 0 \in 0..(n + m) /\ 0 <= n
    OBVIOUS
  <2>2. QED
    BY <1>7, <2>1
<1>10. ASSUME NEW i \in 1..(n + m) PROVE u[i] = u[i - 1] + c[i]
  <2>1. i \in 0..(n + m) /\ i - 1 \in 0..(n + m)
    OBVIOUS
  <2>2. CASE i <= n
    <3>1. i \in 1..n /\ i - 1 <= n
      BY <2>2
    <3>2. u[i] = r[i] /\ u[i - 1] = r[i - 1]
      BY <2>1, <2>2, <3>1
    <3>3. c[i] = a[i] /\ r[i] = r[i - 1] + a[i]
      BY <1>6, <1>7, <3>1
    <3>4. QED
      BY <3>2, <3>3
  <2>3. CASE i > n
    <3>1. i - n \in 1..m /\ i \in (n + 1)..(n + m) /\ ~ (i <= n)
      BY <2>3
    <3>2. PICK k \in 1..m : k = i - n
      BY <3>1
    <3>3. k \in 0..m /\ k - 1 \in 0..m /\ n \in 0..n
      OBVIOUS
    <3>4. t[k] \in Int /\ t[k - 1] \in Int /\ r[n] \in Int /\ c[i] = b[k] /\ t[k] = t[k - 1] + b[k]
      BY <1>6, <1>7, <3>1, <3>2, <3>3
    <3>5. b[k] \in Int
      BY <1>4
    <3>6. u[i] = r[n] + t[k]
      BY <2>1, <3>1, <3>2
    <3>7. u[i - 1] = r[n] + t[k - 1]
      <4>1. CASE i - 1 <= n
        <5>1. i - 1 = n /\ k - 1 = 0
          BY <2>3, <3>2, <4>1
        <5>2. u[i - 1] = r[n]
          BY <2>1, <4>1, <5>1
        <5>3. QED
          BY <1>7, <3>4, <5>1, <5>2
      <4>2. CASE ~ (i - 1 <= n)
        <5>1. (i - 1) - n = k - 1
          BY <3>2
        <5>2. QED
          BY <2>1, <4>2, <5>1
      <4>3. QED
        BY <4>1, <4>2
    <3> HIDE DEF u
    <3>8. r[n] + t[k] = (r[n] + t[k - 1]) + b[k]
      BY <3>4, <3>5
    <3>9. QED
      BY <3>4, <3>6, <3>7, <3>8, Zenon
  <2>4. QED
    BY <2>2, <2>3
<1>11. Running(u, c)
  <2> HIDE DEF u
  <2>1. QED
    BY <1>6, <1>8, <1>9, <1>10 DEF Running
<1>12. SumOf(c) = u[Len(c)]
  <2> HIDE DEF u
  <2>1. QED
    BY <1>11, RunningIsSum
<1>13. u[n + m] = r[n] + t[m]
  <2>1. n + m \in 0..(n + m)
    OBVIOUS
  <2>2. CASE m = 0
    <3>1. n + m = n /\ u[n + m] = r[n] /\ r[n] \in Int
      BY <1>7, <2>1, <2>2
    <3> HIDE DEF u
    <3>2. QED
      BY <1>7, <2>2, <3>1
  <2>3. CASE m # 0
    <3>1. ~ (n + m <= n) /\ (n + m) - n = m
      BY <2>3
    <3>2. QED
      BY <2>1, <3>1
  <2>4. QED
    BY <2>2, <2>3
<1>14. QED
  <2> HIDE DEF u
  <2>1. QED
    BY <1>1, <1>2, <1>3, <1>4, <1>5, <1>6, <1>12, <1>13

\* The sums of short lists.
LEMMA SumOfNone == SumOf(<< >>) = 0
<1>1. Running([i \in 0..0 |-> 0], << >>)
  BY DEF Running
<1>2. << >> \in Seq(Int) /\ Len(<< >>) = 0
  OBVIOUS
<1>3. SumOf(<< >>) = [i \in 0..0 |-> 0][Len(<< >>)]
  BY <1>1, <1>2, RunningIsSum
<1>4. QED
  BY <1>2, <1>3

\* The sum of one number.
LEMMA SumOfOne == ASSUME NEW x \in Int PROVE SumOf(<<x>>) = x
<1>1. <<x>> \in Seq(Int) /\ Len(<<x>>) = 1 /\ <<x>>[1] = x
  OBVIOUS
<1>2. PICK t : Running(t, <<x>>) /\ SumOf(<<x>>) = t[1]
  BY <1>1, SumIsLast
<1>3. t[0] = 0 /\ t[1] = t[1 - 1] + x
  BY <1>1, <1>2 DEF Running
<1>4. QED
  BY <1>2, <1>3

\* The sum of three numbers.
LEMMA SumOfThree ==
  ASSUME NEW list \in Seq(Int), Len(list) = 3
  PROVE  SumOf(list) = list[1] + list[2] + list[3]
<1>1. PICK t : Running(t, list) /\ SumOf(list) = t[3]
  BY SumIsLast
<1>2. t[0] = 0 /\ \A i \in 1..3 : t[i] = t[i - 1] + list[i]
  BY <1>1 DEF Running
<1>3. t[1] = t[0] + list[1] /\ t[2] = t[1] + list[2] /\ t[3] = t[2] + list[3]
  BY <1>2
<1>4. list[1] \in Int /\ list[2] \in Int /\ list[3] \in Int
  <2>1. \A i \in 1..Len(list) : list[i] \in Int
    BY ElementOfSeq
  <2>2. 1 \in 1..3 /\ 2 \in 1..3 /\ 3 \in 1..3
    OBVIOUS
  <2>3. QED
    BY <2>1, <2>2
<1>5. QED
  BY <1>1, <1>2, <1>3, <1>4

\* A list of zeros.
LEMMA SumOfZeros ==
  ASSUME NEW list \in Seq(Int), \A i \in 1..Len(list) : list[i] = 0
  PROVE  SumOf(list) = 0
<1>1. PICK n \in Nat : n = Len(list)
  OBVIOUS
<1>2. Running([i \in 0..n |-> 0], list)
  BY <1>1 DEF Running
<1>3. SumOf(list) = [i \in 0..n |-> 0][n]
  BY <1>1, <1>2, RunningIsSum
<1>4. QED
  BY <1>3

-----------------------------------------------------------------------------
(* Payslip: what compute adds up.                                            *)

Kinds == {"EARNING", "DEDUCTION"}
SlipRows == [kind : Kinds, amount : Int]
AmountsOf(rows, kind) == [i \in 1..Len(rows) |-> IF rows[i].kind = kind THEN rows[i].amount ELSE 0]
OfKind(rows, kind) == SumOf(AmountsOf(rows, kind))

\* The amounts of one kind are a list of numbers.
LEMMA AmountsAreInts ==
  ASSUME NEW rows \in Seq(SlipRows), NEW kind
  PROVE  AmountsOf(rows, kind) \in Seq(Int) /\ Len(AmountsOf(rows, kind)) = Len(rows)
<1>1. \A i \in 1..Len(rows) : rows[i].amount \in Int
  <2>1. \A i \in 1..Len(rows) : rows[i] \in SlipRows
    OBVIOUS
  <2>2. QED
    BY <2>1 DEF SlipRows
<1>2. PICK n \in Nat : n = Len(rows)
  OBVIOUS
<1>3. AmountsOf(rows, kind) \in [1..n -> Int]
  BY <1>1, <1>2 DEF AmountsOf
<1>4. QED
  BY <1>2, <1>3

\* What rows of one kind amount to, one list after the other.
LEMMA OfKindConcat ==
  ASSUME NEW a \in Seq(SlipRows), NEW b \in Seq(SlipRows), NEW kind
  PROVE  OfKind(a \o b, kind) = OfKind(a, kind) + OfKind(b, kind)
<1>1. PICK c \in Seq(SlipRows) : c = a \o b
  BY ConcatProperties
<1>2. Len(c) = Len(a) + Len(b) /\ \A i \in 1..Len(a) + Len(b) : c[i] = IF i <= Len(a) THEN a[i] ELSE b[i - Len(a)]
  BY <1>1, ConcatProperties
<1>3. PICK p \in Seq(Int) : p = AmountsOf(a, kind) /\ Len(p) = Len(a)
  BY AmountsAreInts
<1>4. PICK q \in Seq(Int) : q = AmountsOf(b, kind) /\ Len(q) = Len(b)
  BY AmountsAreInts
<1>5. PICK r \in Seq(Int) : r = AmountsOf(c, kind) /\ Len(r) = Len(c)
  BY AmountsAreInts
<1>6. PICK t \in Seq(Int) : /\ t = p \o q /\ Len(t) = Len(p) + Len(q)
                            /\ \A i \in 1..Len(p) + Len(q) : t[i] = IF i <= Len(p) THEN p[i] ELSE q[i - Len(p)]
  <2>1. PICK S : S = Int /\ p \in Seq(S) /\ q \in Seq(S)
    OBVIOUS
  <2>2. p \o q \in Seq(S) /\ Len(p \o q) = Len(p) + Len(q)
        /\ \A i \in 1..Len(p) + Len(q) : (p \o q)[i] = IF i <= Len(p) THEN p[i] ELSE q[i - Len(p)]
    BY <2>1, ConcatProperties
  <2>3. QED
    BY <2>1, <2>2
<1>7. PICK n \in Nat, m \in Nat : n = Len(a) /\ m = Len(b)
  OBVIOUS
<1>8. ASSUME NEW i \in 1..(n + m) PROVE r[i] = t[i]
  <2>1. r[i] = IF c[i].kind = kind THEN c[i].amount ELSE 0
    BY <1>2, <1>5, <1>7 DEF AmountsOf
  <2>2. CASE i <= n
    <3>1. i \in 1..n
      BY <2>2
    <3>2. c[i] = a[i] /\ t[i] = p[i]
      BY <1>2, <1>3, <1>4, <1>6, <1>7, <2>2
    <3>3. p[i] = IF a[i].kind = kind THEN a[i].amount ELSE 0
      BY <1>3, <1>7, <3>1 DEF AmountsOf
    <3>4. QED
      BY <2>1, <3>2, <3>3
  <2>3. CASE ~ (i <= n)
    <3>1. PICK k \in 1..m : k = i - n
      BY <2>3
    <3>2. c[i] = b[k] /\ t[i] = q[k]
      BY <1>2, <1>3, <1>4, <1>6, <1>7, <2>3, <3>1
    <3>3. q[k] = IF b[k].kind = kind THEN b[k].amount ELSE 0
      BY <1>4, <1>7 DEF AmountsOf
    <3>4. QED
      BY <2>1, <3>2, <3>3
  <2>4. QED
    BY <2>2, <2>3
<1>9. r = t
  <2>1. Len(r) = n + m /\ Len(t) = n + m
    BY <1>2, <1>3, <1>4, <1>5, <1>6, <1>7
  <2>2. QED
    BY <1>8, <2>1, SeqEqual
<1>10. SumOf(t) = SumOf(p) + SumOf(q)
  BY <1>6, SumConcat
<1>11. QED
  BY <1>1, <1>3, <1>4, <1>5, <1>9, <1>10 DEF OfKind

\* One row, or none, when only a positive amount makes one.
LEMMA OfKindOne ==
  ASSUME NEW own \in Kinds, NEW n \in Int, NEW kind \in Kinds
  PROVE  /\ <<Row(own, n)>> \in Seq(SlipRows)
         /\ OfKind(<<Row(own, n)>>, kind) = IF own = kind THEN n ELSE 0
<1>1. PICK r \in SlipRows : r = Row(own, n)
  BY DEF SlipRows, Row
<1>2. r.kind = own /\ r.amount = n
  BY <1>1 DEF Row
<1>3. <<r>> \in Seq(SlipRows) /\ Len(<<r>>) = 1 /\ <<r>>[1] = r
  OBVIOUS
<1>4. PICK x \in Int : x = IF own = kind THEN n ELSE 0
  OBVIOUS
<1>5. AmountsOf(<<r>>, kind) = <<x>>
  <2>1. AmountsOf(<<r>>, kind) \in Seq(Int) /\ Len(AmountsOf(<<r>>, kind)) = 1
    BY <1>3, AmountsAreInts
  <2>2. AmountsOf(<<r>>, kind)[1] = x
    BY <1>2, <1>3, <1>4 DEF AmountsOf
  <2>3. QED
    BY <2>1, <2>2
<1>6. QED
  BY <1>1, <1>3, <1>4, <1>5, SumOfOne DEF OfKind

\* The same for an amount that makes a row only if it is positive.
LEMMA OfKindMaybe ==
  ASSUME NEW own \in Kinds, NEW n \in Nat, NEW kind \in Kinds
  PROVE  /\ RowIfAny(own, n) \in Seq(SlipRows)
         /\ OfKind(RowIfAny(own, n), kind) = IF own = kind THEN n ELSE 0
<1>1. << >> \in Seq(SlipRows) /\ AmountsOf(<< >>, kind) = << >>
  BY DEF AmountsOf
<1>2. OfKind(<< >>, kind) = 0
  BY <1>1, SumOfNone DEF OfKind
<1>3. QED
  BY <1>1, <1>2, OfKindOne DEF RowIfAny

\* What compute adds up, of a salary s, a list b of benefits and n minutes.
InsTotal(s) == Insurances(s)[1] + Insurances(s)[2] + Insurances(s)[3]
AssessableOf(s, b, n) ==
  Max({0, (s.base + OtPay(s.base, n) + EarnedTaxed(s) + GivenTaxed(b)) - InsTotal(s)
            - config.personal - config.dependents * config.dependent})
PitOf(s, b, n) == ProgressivePit(AssessableOf(s, b, n), config.brackets)
NetOf(s, b, n) ==
  (s.base + OtPay(s.base, n) + Earned(s) + Given(b)) - InsTotal(s) - PitOf(s, b, n) - Deducted(s)

LineRows(s)  == [i \in 1..Len(s.lines) |-> Row(s.lines[i].kind, s.lines[i].amount)]
GivenRows(b) == [i \in 1..Len(b) |-> Row("EARNING", b[i].amount)]
InsRows(s)   == [i \in 1..3 |-> Row("DEDUCTION", Insurances(s)[i])]
RowsOf(s, b, n) ==
  <<Row("EARNING", s.base)>> \o RowIfAny("EARNING", OtPay(s.base, n)) \o LineRows(s) \o GivenRows(b)
    \o InsRows(s) \o RowIfAny("DEDUCTION", PitOf(s, b, n))

\* The parts of what compute returns.
LEMMA ComputeIs ==
  ASSUME NEW s, NEW b, NEW n
  PROVE  Compute(s, b, n) = [assessable |-> AssessableOf(s, b, n), pit |-> PitOf(s, b, n),
                             net |-> NetOf(s, b, n), breakdown |-> RowsOf(s, b, n)]
BY DEF Compute, InsTotal, AssessableOf, PitOf, NetOf, LineRows, GivenRows, InsRows, RowsOf

\* The sums are numbers.
LEMMA SumsAreInts ==
  ASSUME NEW s \in SalaryRow, NEW b \in Seq(BenefitRow)
  PROVE  Earned(s) \in Int /\ Deducted(s) \in Int /\ EarnedTaxed(s) \in Int /\ Given(b) \in Int
         /\ GivenTaxed(b) \in Int
<1>1. s.lines \in Seq(Component)
  BY DEF SalaryRow
<1>2. PICK m \in Nat, k \in Nat : m = Len(s.lines) /\ k = Len(b)
  BY <1>1
<1>3. \A i \in 1..m : s.lines[i].amount \in Int
  <2>1. \A i \in 1..m : s.lines[i] \in Component
    BY <1>1, <1>2
  <2>2. QED
    BY <2>1 DEF Component
<1>4. \A i \in 1..k : b[i].amount \in Int
  <2>1. \A i \in 1..k : b[i] \in BenefitRow
    BY <1>2
  <2>2. QED
    BY <2>1 DEF BenefitRow
<1>5. /\ [i \in 1..m |-> IF s.lines[i].kind = "EARNING" THEN s.lines[i].amount ELSE 0] \in Seq(Int)
      /\ [i \in 1..m |-> IF ~ (s.lines[i].kind = "EARNING") THEN s.lines[i].amount ELSE 0] \in Seq(Int)
      /\ [i \in 1..m |-> IF s.lines[i].kind = "EARNING" /\ s.lines[i].taxable
                         THEN s.lines[i].amount ELSE 0] \in Seq(Int)
  BY <1>3
<1>6. /\ [i \in 1..k |-> IF TRUE THEN b[i].amount ELSE 0] \in Seq(Int)
      /\ [i \in 1..k |-> IF b[i].taxable THEN b[i].amount ELSE 0] \in Seq(Int)
  <2>1. [i \in 1..k |-> IF TRUE THEN b[i].amount ELSE 0] \in [1..k -> Int]
    BY <1>4
  <2>2. [i \in 1..k |-> IF b[i].taxable THEN b[i].amount ELSE 0] \in [1..k -> Int]
    BY <1>4
  <2>3. QED
    BY <2>1, <2>2
<1>7. Earned(s) \in Int /\ Deducted(s) \in Int /\ EarnedTaxed(s) \in Int
  BY <1>2, <1>5, SumIsInt DEF Earned, Deducted, EarnedTaxed, SumIf
<1>8. Given(b) \in Int /\ GivenTaxed(b) \in Int
  BY <1>2, <1>6, SumIsInt DEF Given, GivenTaxed, SumIf
<1>9. QED
  BY <1>7, <1>8

\* The rows of the salary's lines are what is earned and deducted by them.
LEMMA LineRowsAre ==
  ASSUME NEW s \in SalaryRow
  PROVE  /\ LineRows(s) \in Seq(SlipRows)
         /\ OfKind(LineRows(s), "EARNING") = Earned(s)
         /\ OfKind(LineRows(s), "DEDUCTION") = Deducted(s)
<1>1. s.lines \in Seq(Component)
  BY DEF SalaryRow
<1>2. PICK m \in Nat : m = Len(s.lines)
  BY <1>1
<1>3. \A i \in 1..m : s.lines[i].amount \in Int /\ s.lines[i].kind \in Kinds
  <2>1. \A i \in 1..m : s.lines[i] \in Component
    BY <1>1, <1>2
  <2>2. QED
    BY <2>1 DEF Component, Kinds
<1>4. \A i \in 1..m : Row(s.lines[i].kind, s.lines[i].amount) \in SlipRows
  BY <1>3 DEF Row, SlipRows
<1>5. LineRows(s) \in Seq(SlipRows) /\ Len(LineRows(s)) = m
  <2>1. LineRows(s) = [i \in 1..m |-> Row(s.lines[i].kind, s.lines[i].amount)]
    BY <1>2 DEF LineRows
  <2>2. QED
    BY <1>4, <2>1
<1>6. \A i \in 1..m : LineRows(s)[i].kind = s.lines[i].kind /\ LineRows(s)[i].amount = s.lines[i].amount
  BY <1>2 DEF LineRows, Row
<1>7. AmountsOf(LineRows(s), "EARNING")
        = [i \in 1..m |-> IF s.lines[i].kind = "EARNING" THEN s.lines[i].amount ELSE 0]
  BY <1>5, <1>6 DEF AmountsOf
<1>8. AmountsOf(LineRows(s), "DEDUCTION")
        = [i \in 1..m |-> IF ~ (s.lines[i].kind = "EARNING") THEN s.lines[i].amount ELSE 0]
  <2>1. \A i \in 1..m : s.lines[i].kind = "DEDUCTION" <=> ~ (s.lines[i].kind = "EARNING")
    BY <1>3 DEF Kinds
  <2>2. QED
    BY <1>5, <1>6, <2>1 DEF AmountsOf
<1>9. QED
  BY <1>2, <1>5, <1>7, <1>8 DEF OfKind, Earned, Deducted, SumIf

\* The rows of the benefits are what is given.
LEMMA GivenRowsAre ==
  ASSUME NEW b \in Seq(BenefitRow)
  PROVE  /\ GivenRows(b) \in Seq(SlipRows)
         /\ OfKind(GivenRows(b), "EARNING") = Given(b)
         /\ OfKind(GivenRows(b), "DEDUCTION") = 0
<1>1. PICK m \in Nat : m = Len(b)
  OBVIOUS
<1>2. \A i \in 1..m : b[i].amount \in Int
  <2>1. \A i \in 1..m : b[i] \in BenefitRow
    BY <1>1
  <2>2. QED
    BY <2>1 DEF BenefitRow
<1>3. \A i \in 1..m : Row("EARNING", b[i].amount) \in SlipRows
  BY <1>2 DEF Row, SlipRows, Kinds
<1>4. GivenRows(b) \in Seq(SlipRows) /\ Len(GivenRows(b)) = m
  <2>1. GivenRows(b) = [i \in 1..m |-> Row("EARNING", b[i].amount)]
    BY <1>1 DEF GivenRows
  <2>2. QED
    BY <1>3, <2>1
<1>5. \A i \in 1..m : GivenRows(b)[i].kind = "EARNING" /\ GivenRows(b)[i].amount = b[i].amount
  BY <1>1 DEF GivenRows, Row
<1>6. AmountsOf(GivenRows(b), "EARNING") = [i \in 1..m |-> IF TRUE THEN b[i].amount ELSE 0]
  BY <1>4, <1>5 DEF AmountsOf
<1>7. \A i \in 1..m : AmountsOf(GivenRows(b), "DEDUCTION")[i] = 0
  BY <1>4, <1>5 DEF AmountsOf
<1>8. AmountsOf(GivenRows(b), "DEDUCTION") \in Seq(Int) /\ Len(AmountsOf(GivenRows(b), "DEDUCTION")) = m
  BY <1>4, AmountsAreInts
<1>9. OfKind(GivenRows(b), "DEDUCTION") = 0
  BY <1>7, <1>8, SumOfZeros DEF OfKind
<1>10. QED
  BY <1>1, <1>4, <1>6, <1>9 DEF OfKind, Given, SumIf

-----------------------------------------------------------------------------
(* Payslip: progressivePit.                                                  *)

Taxes == [tax : Int, lower : Nat, done : BOOLEAN]
NoTax == [tax |-> 0, lower |-> 0, done |-> FALSE]

\* A round of the loop, for the bracket b.
PitRound(acc, b, income) ==
  IF acc.done THEN acc
  ELSE [tax |-> acc.tax + (IF income > acc.lower
                           THEN Slice(acc.lower, UpperOf(b, income), income) * b.rate ELSE 0),
        lower |-> UpperOf(b, income), done |-> income <= UpperOf(b, income)]

\* A round keeps the type.
LEMMA RoundType ==
  ASSUME NEW acc \in Taxes, NEW b \in Bracket, NEW income \in Nat
  PROVE  PitRound(acc, b, income) \in Taxes
<1>1. acc.tax \in Int /\ acc.lower \in Nat /\ b.rate \in Int /\ b.upTo \in Nat \cup {Unset}
  BY DEF Taxes, Bracket
<1>2. PICK upper \in Nat : upper = UpperOf(b, income)
  BY <1>1 DEF UpperOf
<1>3. Slice(acc.lower, upper, income) \in Int
  BY <1>1 DEF Slice
<1>4. Slice(acc.lower, upper, income) * b.rate \in Int
  BY <1>1, <1>3
<1>5. acc.tax + (IF income > acc.lower THEN Slice(acc.lower, upper, income) * b.rate ELSE 0) \in Int
  BY <1>1, <1>4
<1>6. QED
  BY <1>2, <1>5 DEF PitRound, Taxes

\* What the loop of progressivePit holds after each bracket.
LEMMA PitLoops ==
  ASSUME NEW income \in Nat, NEW bs \in Seq(Bracket)
  PROVE  \E f \in [0..Len(bs) -> Taxes] :
           /\ f[0] = NoTax
           /\ \A i \in 1..Len(bs) : f[i] = PitRound(f[i - 1], bs[i], income)
           /\ ProgressivePit(income, bs) = IF income <= 0 THEN 0 ELSE Rounded(f[Len(bs)].tax, 100)
<1> DEFINE n == Len(bs)
           Is(f) == f = [i \in 0..n |-> IF i = 0 THEN NoTax ELSE PitRound(f[i - 1], bs[i], income)]
           after == CHOOSE f : Is(f)
<1>1. n \in Nat /\ \A i \in 1..n : bs[i] \in Bracket
  OBVIOUS
<1>2. PICK step \in [1..n -> [Taxes -> Taxes]] :
        \A i \in 1..n, p \in Taxes : step[i][p] = PitRound(p, bs[i], income)
  <2>1. \A i \in 1..n, p \in Taxes : PitRound(p, bs[i], income) \in Taxes
    BY <1>1, RoundType
  <2>2. [i \in 1..n |-> [p \in Taxes |-> PitRound(p, bs[i], income)]] \in [1..n -> [Taxes -> Taxes]]
    BY <2>1
  <2>3. QED
    BY <2>2
<1>3. PICK f \in [0..n -> Taxes] : f[0] = NoTax /\ \A i \in 1..n : f[i] = step[i][f[i - 1]]
  <2>1. NoTax \in Taxes
    BY DEF NoTax, Taxes
  <2>2. \E f \in [0..n -> Taxes] : Loops(f, NoTax, step, n)
    BY <1>1, <2>1, LoopExists
  <2>3. QED
    BY <2>2 DEF Loops
<1>4. ASSUME NEW i \in 1..n PROVE f[i] = PitRound(f[i - 1], bs[i], income)
  <2>1. i - 1 \in 0..n
    BY <1>1
  <2>2. f[i - 1] \in Taxes
    BY <2>1
  <2>3. QED
    BY <1>2, <1>3, <2>2
<1>5. Is(f)
  <2>1. \A i \in 0..n : f[i] = IF i = 0 THEN NoTax ELSE PitRound(f[i - 1], bs[i], income)
    <3>1. \A i \in 0..n : i # 0 => i \in 1..n
      BY <1>1
    <3>2. QED
      BY <1>3, <1>4, <3>1
  <2>2. QED
    BY <2>1
<1>6. Is(after)
  <2> HIDE DEF Is
  <2>1. QED
    BY <1>5
<1> HIDE DEF after
<1>7. \A i \in 0..n : after[i] = IF i = 0 THEN NoTax ELSE PitRound(after[i - 1], bs[i], income)
  BY <1>6
<1> DEFINE G == {i \in 0..n : after[i] = f[i]}
<1>8. 0 \in G
  BY <1>1, <1>3, <1>7
<1>9. ASSUME NEW i \in 1..n, i - 1 \in G PROVE i \in G
  <2>1. i \in 0..n /\ i # 0 /\ after[i - 1] = f[i - 1]
    BY <1>9
  <2>2. QED
    BY <1>4, <1>7, <2>1
<1>10. \A i \in 0..n : i \in G
  <2> HIDE DEF G, n
  <2>1. QED
    BY <1>1, <1>8, <1>9, Climbs
<1>11. after[n] = f[n]
  BY <1>1, <1>10
<1>12. ProgressivePit(income, bs) = IF income <= 0 THEN 0 ELSE Rounded(after[n].tax, 100)
  BY DEF ProgressivePit, after, PitRound, NoTax
<1>13. QED
  BY <1>3, <1>4, <1>11, <1>12

\* Unset is no number.
LEMMA UnsetIs == Unset \notin Nat
BY PayslipAssumption

\* The bounds of two brackets that do not follow each other.
LEMMA BoundsAscend ==
  ASSUME NEW bs, Ascending(bs), NEW i \in 1..(Len(bs) - 1), NEW j \in 1..(Len(bs) - 1), i < j
  PROVE  bs[i].upTo < bs[j].upTo
<1>1. PICK n \in Nat : n = Len(bs) - 1
  <2>1. Len(bs) \in Nat /\ Len(bs) > 0
    BY DEF Ascending
  <2>2. Len(bs) - 1 \in Nat
    BY <2>1
  <2>3. QED
    BY <2>2
<1> DEFINE G == {k \in 0..n : k > i => bs[i].upTo < bs[k].upTo}
<1>2. 0 \in G
  OBVIOUS
<1>3. ASSUME NEW k \in 1..n, k - 1 \in G PROVE k \in G
  <2>1. SUFFICES ASSUME k > i PROVE bs[i].upTo < bs[k].upTo
    OBVIOUS
  <2>2. PICK l \in 1..n : l = k - 1
    BY <1>1, <2>1
  <2>3. l \in 1..(Len(bs) - 2) /\ l + 1 = k
    BY <1>1, <2>2
  <2>4. bs[l].upTo < bs[k].upTo
    BY <2>3 DEF Ascending
  <2>5. bs[i].upTo \in Nat /\ bs[l].upTo \in Nat /\ bs[k].upTo \in Nat
    BY <1>1 DEF Ascending
  <2>6. l > i => bs[i].upTo < bs[l].upTo
    BY <1>3, <2>2
  <2>7. l = i \/ l > i
    BY <2>1, <2>2
  <2>8. QED
    BY <2>4, <2>5, <2>6, <2>7
<1>4. \A k \in 0..n : k \in G
  <2> HIDE DEF G
  <2>1. QED
    BY <1>2, <1>3, Climbs
<1>5. j \in 0..n
  BY <1>1
<1>6. QED
  BY <1>4, <1>5

\* Below i: the bound of the bracket before it.
LowerOf(i, bs) == IF i = 1 THEN 0 ELSE bs[i - 1].upTo

\* The holder of a unit is the bracket between whose bounds it lies.
LEMMA HolderIs ==
  ASSUME NEW bs, Ascending(bs), NEW u \in Nat \ {0}
  PROVE  /\ HolderOf(u, bs) \in 1..Len(bs)
         /\ \A i \in 1..Len(bs) : HolderOf(u, bs) = i <=>
              /\ u > LowerOf(i, bs)
              /\ bs[i].upTo = Unset \/ u <= bs[i].upTo
<1>1. PICK n \in Nat : n = Len(bs) /\ n > 0 /\ bs \in Seq(Bracket) /\ bs[n].upTo = Unset
  BY DEF Ascending
<1>2. PICK B \in SUBSET (1..n) : B = {i \in 1..n : bs[i].upTo = Unset \/ u <= bs[i].upTo}
  OBVIOUS
<1>3. n \in B /\ B \in SUBSET Nat
  BY <1>1, <1>2
<1>4. PICK h \in B : h = Min(B) /\ \A k \in B : h <= k
  BY <1>3, MinIs
<1>5. HolderOf(u, bs) = h /\ h \in 1..n
  BY <1>1, <1>2, <1>4 DEF HolderOf
<1>6. \A i \in 1..(n - 1) : bs[i].upTo \in Nat /\ bs[i].upTo # Unset
  BY <1>1, UnsetIs DEF Ascending
<1>7. u > LowerOf(h, bs)
  <2>1. CASE h = 1
    BY <2>1 DEF LowerOf
  <2>2. CASE h # 1
    <3>1. PICK k \in 1..(n - 1) : k = h - 1
      BY <1>5, <2>2
    <3>2. k \notin B
      BY <1>4, <1>5, <3>1
    <3>3. ~ (u <= bs[k].upTo) /\ bs[k].upTo \in Nat
      BY <1>2, <1>6, <3>2
    <3>4. QED
      BY <2>2, <3>1, <3>3 DEF LowerOf
  <2>3. QED
    BY <2>1, <2>2
<1>8. ASSUME NEW i \in 1..n, u > LowerOf(i, bs), bs[i].upTo = Unset \/ u <= bs[i].upTo PROVE i = h
  <2>1. i \in B /\ h <= i
    BY <1>2, <1>4, <1>8
  <2>2. SUFFICES ASSUME h < i PROVE FALSE
    BY <1>5, <2>1
  <2>3. PICK k \in 1..(n - 1) : k = i - 1
    BY <1>5, <2>2
  <2>4. u > bs[k].upTo /\ bs[k].upTo \in Nat /\ h \in 1..(n - 1) /\ h <= k
    BY <1>5, <1>6, <1>8, <2>2, <2>3 DEF LowerOf
  <2>5. bs[h].upTo \in Nat /\ u <= bs[h].upTo
    BY <1>2, <1>6, <2>4
  <2>6. bs[h].upTo <= bs[k].upTo
    <3>1. CASE h = k
      BY <2>5, <3>1
    <3>2. CASE h < k
      <4>1. bs[h].upTo < bs[k].upTo
        BY <1>1, <2>4, <3>2, BoundsAscend
      <4>2. QED
        BY <2>4, <2>5, <4>1
    <3>3. QED
      BY <2>4, <3>1, <3>2
  <2>7. QED
    BY <2>4, <2>5, <2>6
<1>9. \A i \in 1..n : h = i => u > LowerOf(i, bs) /\ (bs[i].upTo = Unset \/ u <= bs[i].upTo)
  BY <1>2, <1>4, <1>7
<1>10. QED
  BY <1>1, <1>5, <1>8, <1>9

\* What each bracket owes.
OwedBy(income, bs) == [i \in 1..Len(bs) |-> bs[i].rate * Cardinality(Held(i, income, bs))]

\* The units in a bracket are finitely many, so what it owes is a number.
LEMMA OwedIs ==
  ASSUME NEW bs \in Seq(Bracket), NEW income \in Nat
  PROVE  /\ OwedBy(income, bs) \in Seq(Int) /\ Len(OwedBy(income, bs)) = Len(bs)
         /\ \A i \in 1..Len(bs) :
              /\ IsFiniteSet(Held(i, income, bs)) /\ Cardinality(Held(i, income, bs)) \in Nat
              /\ bs[i].rate \in 0..100
              /\ OwedBy(income, bs)[i] = bs[i].rate * Cardinality(Held(i, income, bs))
         /\ TaxByUnit(income, bs) = SumOf(OwedBy(income, bs))
<1>1. PICK n \in Nat : n = Len(bs)
  OBVIOUS
<1>2. \A i \in 1..n : bs[i].rate \in 0..100
  <2>1. \A i \in 1..n : bs[i] \in Bracket
    BY <1>1
  <2>2. QED
    BY <2>1 DEF Bracket
<1>3. ASSUME NEW i \in 1..n
      PROVE  IsFiniteSet(Held(i, income, bs)) /\ Cardinality(Held(i, income, bs)) \in Nat
  <2>1. IsFiniteSet(1..income)
    BY FS_Interval
  <2>2. Held(i, income, bs) \in SUBSET (1..income)
    BY DEF Held
  <2>3. QED
    BY <2>1, <2>2, FS_Subset, FS_CardinalityType
<1>4. \A i \in 1..n : bs[i].rate * Cardinality(Held(i, income, bs)) \in Int
  <2>1. \A r \in 0..100, c \in Nat : r * c \in Int
    OBVIOUS
  <2>2. QED
    BY <1>2, <1>3, <2>1
<1>5. OwedBy(income, bs) \in [1..n -> Int]
  BY <1>1, <1>4 DEF OwedBy
<1>6. OwedBy(income, bs) \in Seq(Int) /\ Len(OwedBy(income, bs)) = n
  BY <1>5
<1>7. \A i \in 1..n : OwedBy(income, bs)[i] = bs[i].rate * Cardinality(Held(i, income, bs))
  BY <1>1 DEF OwedBy
<1>8. TaxByUnit(income, bs) = SumOf(OwedBy(income, bs))
  BY DEF TaxByUnit, OwedBy
<1>9. QED
  BY <1>1, <1>2, <1>3, <1>6, <1>7, <1>8

\* The units of a bracket are those between its bounds, as far as the income goes.
LEMMA HeldIs ==
  ASSUME NEW bs, Ascending(bs), NEW income \in Nat, NEW i \in 1..Len(bs)
  PROVE  /\ LowerOf(i, bs) \in Nat
         /\ LowerOf(i, bs) < income =>
              /\ Slice(LowerOf(i, bs), UpperOf(bs[i], income), income) \in Nat
              /\ Cardinality(Held(i, income, bs)) = Slice(LowerOf(i, bs), UpperOf(bs[i], income), income)
         /\ ~ (LowerOf(i, bs) < income) => Cardinality(Held(i, income, bs)) = 0
<1>1. PICK n \in Nat : n = Len(bs) /\ n > 0 /\ bs \in Seq(Bracket) /\ bs[n].upTo = Unset
  BY DEF Ascending
<1>2. \A j \in 1..(n - 1) : bs[j].upTo \in Nat /\ bs[j].upTo # Unset
  BY <1>1, UnsetIs DEF Ascending
<1>3. PICK low \in Nat : low = LowerOf(i, bs)
  <2>1. i = 1 \/ i - 1 \in 1..(n - 1)
    BY <1>1
  <2>2. QED
    BY <1>2, <2>1 DEF LowerOf
<1>4. PICK up \in Nat : up = UpperOf(bs[i], income)
  <2>1. i = n \/ i \in 1..(n - 1)
    BY <1>1
  <2>2. QED
    BY <1>1, <1>2, <2>1 DEF UpperOf
<1>5. Held(i, income, bs) = {u \in 1..income : u > low /\ u <= up}
  <2>1. ASSUME NEW u \in 1..income PROVE HolderOf(u, bs) = i <=> u > low /\ u <= up
    <3>1. u \in Nat \ {0}
      OBVIOUS
    <3>2. HolderOf(u, bs) = i <=> u > low /\ (bs[i].upTo = Unset \/ u <= bs[i].upTo)
      BY <1>3, <3>1, HolderIs
    <3>3. (bs[i].upTo = Unset \/ u <= bs[i].upTo) <=> u <= up
      BY <1>4 DEF UpperOf
    <3>4. QED
      BY <3>2, <3>3
  <2>2. QED
    BY <2>1 DEF Held
<1>6. low < income => low <= up
  <2>1. CASE i = n
    BY <1>1, <1>4, <2>1 DEF UpperOf
  <2>2. CASE i = 1
    BY <1>3, <1>4, <2>2 DEF LowerOf
  <2>3. CASE i # n /\ i # 1
    <3>1. PICK k \in 1..(n - 2) : k = i - 1
      BY <1>1, <2>3
    <3>2. bs[k].upTo < bs[k + 1].upTo /\ k + 1 = i
      BY <1>1, <3>1 DEF Ascending
    <3>3. bs[i].upTo \in Nat /\ up = bs[i].upTo /\ low = bs[k].upTo
      BY <1>1, <1>2, <1>3, <1>4, <2>3, <3>1 DEF UpperOf, LowerOf
    <3>4. QED
      BY <3>2, <3>3
  <2>4. QED
    BY <2>1, <2>2, <2>3
<1>7. PICK top \in Nat : top = IF income < up THEN income ELSE up
  OBVIOUS
<1>8. CASE low < income
  <2>1. Held(i, income, bs) = (low + 1)..top
    BY <1>5, <1>7
  <2>2. low <= top
    BY <1>6, <1>7, <1>8
  <2>3. Cardinality((low + 1)..top) = top - low
    <3>1. Cardinality((low + 1)..top) = IF low + 1 > top THEN 0 ELSE top - (low + 1) + 1
      BY FS_Interval
    <3>2. QED
      BY <2>2, <3>1
  <2>4. Slice(low, up, income) = top - low /\ top - low \in Nat
    BY <1>7, <2>2 DEF Slice
  <2>5. QED
    BY <1>3, <1>4, <1>8, <2>1, <2>3, <2>4
<1>9. CASE ~ (low < income)
  <2>1. Held(i, income, bs) = {}
    BY <1>5, <1>9
  <2>2. QED
    BY <1>3, <1>9, <2>1, FS_EmptySet
<1>10. QED
  BY <1>8, <1>9

\* After bracket i the tax is what is owed so far, and the loop goes on only while there is
\* income above the bracket.
LEMMA LoopOwes ==
  ASSUME NEW bs, Ascending(bs), NEW income \in Nat \ {0},
         NEW f \in [0..Len(bs) -> Taxes], f[0] = NoTax,
         \A i \in 1..Len(bs) : f[i] = PitRound(f[i - 1], bs[i], income)
  PROVE  f[Len(bs)].tax = TaxByUnit(income, bs)
<1>1. PICK n \in Nat : n = Len(bs) /\ n > 0 /\ bs \in Seq(Bracket) /\ bs[n].upTo = Unset
  BY DEF Ascending
<1>2. \A j \in 1..(n - 1) : bs[j].upTo \in Nat /\ bs[j].upTo # Unset
  BY <1>1, UnsetIs DEF Ascending
<1>3. PICK w \in Seq(Int) : w = OwedBy(income, bs) /\ Len(w) = n /\ TaxByUnit(income, bs) = SumOf(w)
  BY <1>1, OwedIs
<1>4. PICK t : Running(t, w) /\ SumOf(w) = t[n]
  BY <1>3, SumIsLast
<1>5. t \in [0..n -> Int] /\ t[0] = 0 /\ \A i \in 1..n : t[i] = t[i - 1] + w[i]
  BY <1>3, <1>4 DEF Running
<1> DEFINE G == {i \in 0..n : /\ f[i].tax = t[i]
                              /\ ~ f[i].done => i < n /\ f[i].lower = LowerOf(i + 1, bs) /\ f[i].lower < income
                              /\ f[i].done => \A j \in (i + 1)..n : ~ (LowerOf(j, bs) < income)}
<1>6. 0 \in G
  <2>1. f[0].tax = 0 /\ f[0].lower = 0 /\ ~ f[0].done
    BY DEF NoTax
  <2>2. LowerOf(0 + 1, bs) = 0
    BY DEF LowerOf
  <2>3. QED
    BY <1>1, <1>5, <2>1, <2>2
<1>7. ASSUME NEW i \in 1..n, i - 1 \in G PROVE i \in G
  <2>1. /\ f[i - 1].tax = t[i - 1]
        /\ ~ f[i - 1].done => f[i - 1].lower = LowerOf((i - 1) + 1, bs) /\ f[i - 1].lower < income
        /\ f[i - 1].done => \A j \in ((i - 1) + 1)..n : ~ (LowerOf(j, bs) < income)
    BY <1>7
  <2>2. (i - 1) + 1 = i /\ i \in 0..n /\ i \in i..n
    OBVIOUS
  <2>3. /\ f[i - 1].tax = t[i - 1]
        /\ ~ f[i - 1].done => f[i - 1].lower = LowerOf(i, bs) /\ f[i - 1].lower < income
        /\ f[i - 1].done => \A j \in i..n : ~ (LowerOf(j, bs) < income)
    BY <2>1, <2>2
  <2>4. PICK acc \in Taxes : acc = f[i - 1] /\ f[i] = PitRound(acc, bs[i], income)
    <3>1. i - 1 \in 0..n
      OBVIOUS
    <3>2. QED
      BY <1>1, <3>1
  <2>5. PICK owed \in Int : owed = w[i] /\ owed = bs[i].rate * Cardinality(Held(i, income, bs))
                            /\ bs[i].rate \in 0..100 /\ t[i] = t[i - 1] + owed /\ t[i - 1] \in Int
    <3>1. w[i] \in Int /\ i - 1 \in 0..n
      BY <1>3
    <3>2. w[i] = bs[i].rate * Cardinality(Held(i, income, bs)) /\ bs[i].rate \in 0..100
      BY <1>1, <1>3, OwedIs
    <3>3. QED
      BY <1>5, <3>1, <3>2
  <2>6. CASE acc.done
    <3>1. f[i] = acc
      BY <2>4, <2>6 DEF PitRound
    <3>2. ~ (LowerOf(i, bs) < income)
      BY <2>2, <2>3, <2>4, <2>6
    <3>3. Cardinality(Held(i, income, bs)) = 0
      BY <1>1, <3>2, HeldIs
    <3>4. owed = 0
      <4>1. \A r \in 0..100 : r * 0 = 0
        OBVIOUS
      <4>2. QED
        BY <2>5, <3>3, <4>1
    <3>5. f[i].tax = t[i]
      BY <2>3, <2>4, <2>5, <3>1, <3>4
    <3>6. \A j \in (i + 1)..n : j \in i..n
      OBVIOUS
    <3>7. \A j \in (i + 1)..n : ~ (LowerOf(j, bs) < income)
      BY <2>3, <2>4, <2>6, <3>6
    <3>8. QED
      BY <2>2, <2>6, <3>1, <3>5, <3>7
  <2>7. CASE ~ acc.done
    <3>1. acc.lower = LowerOf(i, bs) /\ acc.lower < income /\ acc.lower \in Nat /\ acc.tax \in Int
      BY <2>3, <2>4, <2>7 DEF Taxes
    <3>2. PICK up : up = UpperOf(bs[i], income)
      OBVIOUS
    <3>3. /\ f[i].tax = acc.tax + (IF income > acc.lower THEN Slice(acc.lower, up, income) * bs[i].rate ELSE 0)
          /\ f[i].lower = up
          /\ f[i].done = (income <= up)
      <4>1. PICK tax : tax = acc.tax + (IF income > acc.lower
                                        THEN Slice(acc.lower, up, income) * bs[i].rate ELSE 0)
        OBVIOUS
      <4>2. f[i] = [tax |-> tax, lower |-> up, done |-> income <= up]
        BY <2>4, <2>7, <3>2, <4>1 DEF PitRound
      <4>3. QED
        BY <4>1, <4>2
    <3>4. PICK part \in Nat : part = Slice(acc.lower, up, income) /\ part = Cardinality(Held(i, income, bs))
      BY <1>1, <3>1, <3>2, HeldIs
    <3>5. f[i].tax = t[i]
      <4>1. f[i].tax = acc.tax + part * bs[i].rate
        BY <3>1, <3>3, <3>4
      <4>2. part * bs[i].rate = owed
        <5>1. \A r \in 0..100, c \in Nat : c * r = r * c
          OBVIOUS
        <5>2. QED
          BY <2>5, <3>4, <5>1
      <4>3. QED
        BY <2>3, <2>4, <2>5, <4>1, <4>2
    <3>6. CASE income <= up
      <4>1. ASSUME NEW j \in (i + 1)..n PROVE ~ (LowerOf(j, bs) < income)
        <5>1. PICK k \in 1..(n - 1) : k = j - 1
          BY <4>1
        <5>2. i \in 1..(n - 1) /\ i <= k
          BY <4>1, <5>1
        <5>3. up = bs[i].upTo /\ bs[i].upTo \in Nat /\ bs[k].upTo \in Nat /\ LowerOf(j, bs) = bs[k].upTo
          BY <1>2, <3>2, <4>1, <5>1, <5>2 DEF UpperOf, LowerOf
        <5>4. i < k => bs[i].upTo < bs[k].upTo
          BY <1>1, <5>2, BoundsAscend
        <5>5. i = k \/ i < k
          BY <5>2
        <5>6. PICK x \in Nat, y \in Nat : x = bs[i].upTo /\ y = bs[k].upTo
          BY <5>3
        <5>7. x <= y
          BY <5>4, <5>5, <5>6
        <5>8. income <= x /\ LowerOf(j, bs) = y
          BY <3>6, <5>3, <5>6
        <5>9. ~ (y < income)
          BY <5>7, <5>8
        <5>10. QED
          BY <5>8, <5>9
      <4>2. QED
        BY <2>2, <3>3, <3>5, <3>6, <4>1
    <3>7. CASE ~ (income <= up)
      <4>1. up # income
        BY <3>7
      <4>2. bs[i].upTo # Unset /\ up = bs[i].upTo
        BY <3>2, <4>1 DEF UpperOf
      <4>3. i # n /\ i < n
        BY <1>1, <4>2
      <4>4. bs[i].upTo \in Nat
        BY <1>2, <4>3
      <4>5. i + 1 # 1 /\ (i + 1) - 1 = i
        OBVIOUS
      <4>6. LowerOf(i + 1, bs) = up
        BY <4>2, <4>5 DEF LowerOf
      <4>7. up < income
        BY <3>7, <4>2, <4>4
      <4>8. QED
        BY <2>2, <3>3, <3>5, <3>7, <4>3, <4>6, <4>7
    <3>8. QED
      BY <3>6, <3>7
  <2>8. QED
    BY <2>6, <2>7
<1>8. \A i \in 0..n : i \in G
  <2> HIDE DEF G
  <2>1. QED
    BY <1>6, <1>7, Climbs
<1>9. n \in G
  <2>1. n \in 0..n
    OBVIOUS
  <2> HIDE DEF G
  <2>2. QED
    BY <1>8, <2>1
<1>10. QED
  BY <1>1, <1>3, <1>4, <1>9

\* Without income nothing is owed.
LEMMA NothingOwed ==
  ASSUME NEW bs, Ascending(bs)
  PROVE  TaxByUnit(0, bs) = 0
<1>1. PICK n \in Nat : n = Len(bs) /\ bs \in Seq(Bracket)
  BY DEF Ascending
<1>2. PICK w \in Seq(Int) : w = OwedBy(0, bs) /\ Len(w) = n /\ TaxByUnit(0, bs) = SumOf(w)
  BY <1>1, OwedIs
<1>3. ASSUME NEW i \in 1..n PROVE w[i] = 0
  <2>1. LowerOf(i, bs) \in Nat
    BY <1>1, HeldIs
  <2>2. ~ (LowerOf(i, bs) < 0)
    BY <2>1
  <2>3. Cardinality(Held(i, 0, bs)) = 0
    BY <1>1, <2>2, HeldIs
  <2>4. w[i] = bs[i].rate * 0 /\ bs[i].rate \in 0..100
    BY <1>1, <1>2, <2>3, OwedIs
  <2>5. \A r \in 0..100 : r * 0 = 0
    OBVIOUS
  <2>6. QED
    BY <2>4, <2>5
<1>4. QED
  BY <1>2, <1>3, SumOfZeros

\* For any ascending brackets, the tax of progressivePit is what every unit of the income
\* owes at the rate of its own bracket, rounded once (payroll-engine.service).
THEOREM TaxIsByUnit ==
  ASSUME NEW bs, Ascending(bs), NEW income \in Nat
  PROVE  ProgressivePit(income, bs) = Rounded(TaxByUnit(income, bs), 100)
<1>1. bs \in Seq(Bracket)
  BY DEF Ascending
<1>2. PICK f \in [0..Len(bs) -> Taxes] :
           /\ f[0] = NoTax
           /\ \A i \in 1..Len(bs) : f[i] = PitRound(f[i - 1], bs[i], income)
           /\ ProgressivePit(income, bs) = IF income <= 0 THEN 0 ELSE Rounded(f[Len(bs)].tax, 100)
  BY <1>1, PitLoops
<1>3. CASE income = 0
  <2>1. Rounded(0, 100) = 0
    BY DEF Rounded
  <2>2. QED
    BY <1>2, <1>3, <2>1, NothingOwed
<1>4. CASE income # 0
  <2>1. ~ (income <= 0) /\ income \in Nat \ {0}
    BY <1>4
  <2>2. f[Len(bs)].tax = TaxByUnit(income, bs)
    BY <1>2, <2>1, LoopOwes
  <2>3. QED
    BY <1>2, <2>1, <2>2
<1>5. QED
  BY <1>3, <1>4

\* One more unit of income owes the rate of its bracket.
LEMMA OneUnitMore ==
  ASSUME NEW bs, Ascending(bs), NEW income \in Nat
  PROVE  /\ TaxByUnit(income, bs) \in Int
         /\ TaxByUnit(income + 1, bs) \in Int
         /\ TaxByUnit(income + 1, bs) >= TaxByUnit(income, bs)
         /\ TaxByUnit(income + 1, bs) <= TaxByUnit(income, bs) + 100
<1>1. PICK n \in Nat : n = Len(bs) /\ bs \in Seq(Bracket)
  BY DEF Ascending
<1>2. PICK next \in Nat \ {0} : next = income + 1
  OBVIOUS
<1>3. PICK h \in 1..n : h = HolderOf(next, bs)
  BY <1>1, HolderIs
<1>4. PICK w \in Seq(Int) : w = OwedBy(income, bs) /\ Len(w) = n /\ TaxByUnit(income, bs) = SumOf(w)
  BY <1>1, OwedIs
<1>5. PICK v \in Seq(Int) : v = OwedBy(next, bs) /\ Len(v) = n /\ TaxByUnit(next, bs) = SumOf(v)
  BY <1>1, OwedIs
<1>6. PICK r \in 0..100 : r = bs[h].rate
  BY <1>1, OwedIs
<1>7. ASSUME NEW i \in 1..n PROVE v[i] = w[i] + (IF i = h THEN r ELSE 0) /\ w[i] \in Int
  <2>1. PICK A : A = Held(i, income, bs) /\ IsFiniteSet(A) /\ Cardinality(A) \in Nat
    BY <1>1, OwedIs
  <2>2. PICK a \in 0..100 : a = bs[i].rate /\ w[i] = a * Cardinality(A)
    BY <1>1, <1>4, <2>1, OwedIs
  <2>3. v[i] = a * Cardinality(Held(i, next, bs))
    BY <1>1, <1>2, <1>5, <2>2, OwedIs
  <2>4. 1..next = (1..income) \cup {next}
    BY <1>2
  <2>5. CASE i = h
    <3>1. Held(i, next, bs) = A \cup {next} /\ next \notin A
      BY <1>2, <1>3, <2>1, <2>4, <2>5 DEF Held
    <3>2. Cardinality(Held(i, next, bs)) = Cardinality(A) + 1
      BY <2>1, <3>1, FS_AddElement
    <3>3. \A c \in Nat, x \in 0..100 : x * (c + 1) = x * c + x /\ x * c \in Int
      OBVIOUS
    <3>4. PICK c \in Nat : c = Cardinality(A)
      BY <2>1
    <3>5. a = r /\ w[i] = a * c /\ v[i] = a * (c + 1)
      BY <1>6, <2>2, <2>3, <2>5, <3>2, <3>4
    <3>6. a * (c + 1) = a * c + a /\ a * c \in Int
      BY <3>3
    <3>7. QED
      BY <2>5, <3>5, <3>6
  <2>6. CASE i # h
    <3>1. Held(i, next, bs) = A
      BY <1>2, <1>3, <2>1, <2>4, <2>6 DEF Held
    <3>2. \A c \in Nat, x \in 0..100 : x * c \in Int /\ x * c + 0 = x * c
      OBVIOUS
    <3>3. QED
      BY <2>1, <2>2, <2>3, <2>6, <3>1, <3>2
  <2>7. QED
    BY <2>5, <2>6
<1>8. PICK t : Running(t, w) /\ SumOf(w) = t[n]
  BY <1>4, SumIsLast
<1>9. t \in [0..n -> Int] /\ t[0] = 0 /\ \A i \in 1..n : t[i] = t[i - 1] + w[i]
  BY <1>4, <1>8 DEF Running
<1> DEFINE u == [i \in 0..n |-> t[i] + (IF i >= h THEN r ELSE 0)]
<1>10. u \in [0..n -> Int] /\ u[0] = 0
  <2>1. 0 \in 0..n /\ ~ (0 >= h)
    OBVIOUS
  <2>2. QED
    BY <1>9, <2>1
<1>11. ASSUME NEW i \in 1..n PROVE u[i] = u[i - 1] + v[i]
  <2>1. i \in 0..n /\ i - 1 \in 0..n
    OBVIOUS
  <2>2. PICK x \in Int, y \in Int : x = t[i - 1] /\ y = w[i] /\ t[i] = x + y
    <3>1. t[i - 1] \in Int /\ t[i] = t[i - 1] + w[i]
      BY <1>9, <2>1
    <3>2. w[i] \in Int
      BY <1>7
    <3>3. QED
      BY <3>1, <3>2
  <2>3. u[i] = (x + y) + (IF i >= h THEN r ELSE 0) /\ u[i - 1] = x + (IF i - 1 >= h THEN r ELSE 0)
    BY <2>1, <2>2
  <2>4. v[i] = y + (IF i = h THEN r ELSE 0)
    BY <1>7, <2>2
  <2> HIDE DEF u
  <2>5. CASE i < h
    BY <2>3, <2>4, <2>5
  <2>6. CASE i = h
    BY <2>3, <2>4, <2>6
  <2>7. CASE i > h
    BY <2>3, <2>4, <2>7
  <2>8. QED
    BY <2>5, <2>6, <2>7
<1>12. Running(u, v)
  <2> HIDE DEF u
  <2>1. QED
    BY <1>5, <1>10, <1>11 DEF Running
<1>13. SumOf(v) = u[n]
  <2> HIDE DEF u
  <2>1. QED
    BY <1>5, <1>12, RunningIsSum
<1>14. u[n] = t[n] + r /\ t[n] \in Int
  <2>1. n \in 0..n /\ n >= h
    OBVIOUS
  <2>2. QED
    BY <1>9, <2>1
<1> HIDE DEF u
<1>15. TaxByUnit(income, bs) = t[n] /\ TaxByUnit(income + 1, bs) = t[n] + r
  BY <1>2, <1>4, <1>5, <1>8, <1>13, <1>14
<1>16. t[n] \in Int /\ t[n] + r \in Int /\ t[n] + r >= t[n] /\ t[n] + r <= t[n] + 100
  <2>1. PICK y \in Int : y = t[n]
    BY <1>14
  <2>2. r \in Int /\ 0 <= r /\ r <= 100
    OBVIOUS
  <2>3. y + r \in Int /\ y + r >= y /\ y + r <= y + 100
    BY <2>2
  <2>4. QED
    BY <2>1, <2>3
<1>17. QED
  BY <1>15, <1>16

\* A higher income owes no less, and not more than all of what it is higher.
LEMMA TaxGrows ==
  ASSUME NEW bs, Ascending(bs), NEW x \in Nat, NEW k \in Nat
  PROVE  /\ TaxByUnit(x, bs) \in Int
         /\ TaxByUnit(x + k, bs) \in Int
         /\ TaxByUnit(x + k, bs) >= TaxByUnit(x, bs)
         /\ TaxByUnit(x + k, bs) <= TaxByUnit(x, bs) + 100 * k
<1>1. PICK a \in Int : a = TaxByUnit(x, bs)
  BY OneUnitMore
<1> DEFINE G == {i \in Nat : /\ TaxByUnit(x + i, bs) \in Int
                             /\ TaxByUnit(x + i, bs) >= a /\ TaxByUnit(x + i, bs) <= a + 100 * i}
<1>2. 0 \in G
  <2>1. x + 0 = x
    OBVIOUS
  <2>2. QED
    BY <1>1, <2>1
<1>3. ASSUME NEW i \in 1..k, i - 1 \in G PROVE i \in G
  <2>1. PICK j \in Nat : j = i - 1
    OBVIOUS
  <2>2. PICK b \in Int : b = TaxByUnit(x + j, bs) /\ b >= a /\ b <= a + 100 * j
    BY <1>3, <2>1
  <2>3. (x + j) + 1 = x + i /\ x + j \in Nat /\ i \in Nat
    BY <2>1
  <2>4. PICK c \in Int : c = TaxByUnit(x + i, bs) /\ c >= b /\ c <= b + 100
    BY <2>2, <2>3, OneUnitMore
  <2>5. c >= a /\ c <= a + 100 * i
    BY <2>1, <2>2, <2>4
  <2>6. QED
    BY <2>3, <2>4, <2>5
<1>4. \A i \in 0..k : i \in G
  <2> HIDE DEF G
  <2>1. QED
    BY <1>2, <1>3, Climbs
<1>5. k \in G
  <2>1. k \in 0..k
    OBVIOUS
  <2> HIDE DEF G
  <2>2. QED
    BY <1>4, <2>1
<1>6. QED
  BY <1>1, <1>5

\* What is owed is never negative.
LEMMA TaxIsNat == ASSUME NEW bs, Ascending(bs), NEW x \in Nat PROVE TaxByUnit(x, bs) \in Nat
<1>1. 0 + x = x /\ 0 \in Nat
  OBVIOUS
<1>2. TaxByUnit(0 + x, bs) \in Int /\ TaxByUnit(0 + x, bs) >= TaxByUnit(0, bs)
  BY <1>1, TaxGrows
<1>3. TaxByUnit(x, bs) \in Int /\ TaxByUnit(x, bs) >= 0
  BY <1>1, <1>2, NothingOwed
<1>4. QED
  BY <1>3

\* Half a unit more or less, in hundredths.
Halves == -50..50

\* Rounding takes at most half a unit, and adds up with whole units.
LEMMA RoundedHundredths ==
  ASSUME NEW a \in Nat
  PROVE  /\ Rounded(a, 100) \in Nat
         /\ 100 * Rounded(a, 100) - a \in Halves
         /\ \A b \in Nat, k \in Nat : b >= a /\ b <= a + 100 * k =>
              Rounded(b, 100) >= Rounded(a, 100) /\ Rounded(b, 100) <= Rounded(a, 100) + k
BY DEF Rounded, Halves

\* The same of the tax.
LEMMA PitGrows ==
  ASSUME NEW bs, Ascending(bs), NEW x \in Nat, NEW y \in Nat, x <= y
  PROVE  /\ ProgressivePit(x, bs) \in Nat /\ ProgressivePit(y, bs) \in Nat
         /\ 100 * ProgressivePit(x, bs) - TaxByUnit(x, bs) \in Halves
         /\ ProgressivePit(x, bs) <= ProgressivePit(y, bs)
         /\ ProgressivePit(y, bs) <= ProgressivePit(x, bs) + (y - x)
<1>1. PICK k \in Nat : k = y - x /\ x + k = y
  OBVIOUS
<1>2. PICK a \in Nat : a = TaxByUnit(x, bs)
  BY TaxIsNat
<1>3. PICK b \in Nat : b = TaxByUnit(y, bs)
  BY TaxIsNat
<1>4. b >= a /\ b <= a + 100 * k
  BY <1>1, <1>2, <1>3, TaxGrows
<1>5. ProgressivePit(x, bs) = Rounded(a, 100) /\ ProgressivePit(y, bs) = Rounded(b, 100)
  BY <1>2, <1>3, TaxIsByUnit
<1>6. Rounded(a, 100) \in Nat /\ Rounded(b, 100) \in Nat /\ 100 * Rounded(a, 100) - a \in Halves
  BY RoundedHundredths
<1>7. Rounded(b, 100) >= Rounded(a, 100) /\ Rounded(b, 100) <= Rounded(a, 100) + k
  BY <1>4, RoundedHundredths
<1>8. QED
  BY <1>1, <1>2, <1>5, <1>6, <1>7

-----------------------------------------------------------------------------
(* Payslip: insurance, overtime and what is left.                            *)

\* The configuration in force.
LEMMA ConfigIs ==
  ASSUME PayTypeOK
  PROVE  /\ config.personal \in Nat /\ config.dependent \in Nat /\ config.dependents \in Nat
         /\ config.gov \in Nat /\ config.wage \in Nat
         /\ \A i \in 1..3 : config.rates[i] \in Nat
         /\ Ascending(config.brackets)
<1>1. config \in ConfigRow /\ Ascending(config.brackets)
  <2>1. config \in Configs
    BY DEF PayTypeOK
  <2>2. Configs \subseteq ConfigRow /\ \A c \in Configs : Ascending(c.brackets)
    BY PayslipAssumption
  <2>3. QED
    BY <2>1, <2>2
<1>2. /\ config.personal \in Nat /\ config.dependent \in Nat /\ config.dependents \in Nat
      /\ config.gov \in Nat /\ config.wage \in Nat
  BY <1>1 DEF ConfigRow
<1>3. \A i \in 1..3 : config.rates[i] \in Nat
  <2>1. config.rates \in [1..3 -> PerMille]
    BY <1>1 DEF ConfigRow
  <2>2. \A r \in PerMille : r \in Nat
    BY DEF PerMille
  <2>3. QED
    BY <2>1, <2>2
<1>4. QED
  BY <1>1, <1>2, <1>3

\* The smaller of two numbers, and a number or nothing.
LEMMA MinOfTwo == ASSUME NEW a \in Int, NEW b \in Int PROVE Min({a, b}) = IF a <= b THEN a ELSE b
<1>1. /\ \A x \in {a, b} : (\A y \in {a, b} : x <= y) => x = IF a <= b THEN a ELSE b
      /\ \E x \in {a, b} : \A y \in {a, b} : x <= y
  OBVIOUS
<1>2. Min({a, b}) \in {a, b} /\ \A y \in {a, b} : Min({a, b}) <= y
  BY <1>1 DEF Min
<1>3. QED
  BY <1>1, <1>2

\* The same of zero and a number.
LEMMA MaxOfZero == ASSUME NEW a \in Int PROVE Max({0, a}) = IF a >= 0 THEN a ELSE 0
<1>1. /\ \A x \in {0, a} : (\A y \in {0, a} : x >= y) => x = IF a >= 0 THEN a ELSE 0
      /\ \E x \in {0, a} : \A y \in {0, a} : x >= y
  OBVIOUS
<1>2. Max({0, a}) \in {0, a} /\ \A y \in {0, a} : Max({0, a}) >= y
  BY <1>1 DEF Max
<1>3. QED
  BY <1>1, <1>2

\* A product grows with its factor.
LEMMA ProductGrows ==
  ASSUME NEW r \in Nat, NEW m \in Nat, NEW d \in Nat, NEW k \in Nat, d <= k
  PROVE  m * r \in Nat /\ d * r \in Nat /\ k * r \in Nat /\ (m + d) * r = m * r + d * r /\ d * r <= k * r
<1>1. PICK e \in Nat : e = k - d /\ k = d + e
  OBVIOUS
<1>2. m * r \in Nat /\ d * r \in Nat /\ e * r \in Nat
  OBVIOUS
<1>3. (m + d) * r = m * r + d * r /\ (d + e) * r = d * r + e * r
  OBVIOUS
<1>4. QED
  BY <1>1, <1>2, <1>3

\* Rounding to a thousandth part.
LEMMA RoundedThousandths ==
  ASSUME NEW a \in Nat, NEW b \in Nat, NEW e \in Nat, b = a + e
  PROVE  /\ Rounded(a, 1000) \in Nat /\ Rounded(b, 1000) \in Nat
         /\ 1000 * (Rounded(b, 1000) - Rounded(a, 1000)) <= e + 999
BY DEF Rounded

\* A premium, of an amount up to a cap, and of an amount that is k higher.
Premium(x, cap, rate) == Rounded(Min({x, cap}) * rate, 1000)

\* It is not negative.
LEMMA PremiumIsNat ==
  ASSUME NEW x \in Nat, NEW cap \in Nat, NEW rate \in Nat
  PROVE  Premium(x, cap, rate) \in Nat
<1>1. Min({x, cap}) \in Nat
  BY MinOfTwo
<1>2. Min({x, cap}) * rate \in Nat
  <2>1. \A m \in Nat, r \in Nat : m * r \in Nat
    OBVIOUS
  <2>2. QED
    BY <1>1, <2>1
<1>3. \A a \in Nat : Rounded(a, 1000) \in Nat
  BY DEF Rounded
<1>4. QED
  BY <1>2, <1>3 DEF Premium

\* It grows by its rate of k, and by less than one for the rounding.
PremiumStep(x, k, cap, rate) ==
  /\ Premium(x, cap, rate) \in Nat /\ Premium(x + k, cap, rate) \in Nat
  /\ 1000 * (Premium(x + k, cap, rate) - Premium(x, cap, rate)) <= k * rate + 999

\* It does for any amounts.
LEMMA PremiumGrows ==
  ASSUME NEW x \in Nat, NEW k \in Nat, NEW cap \in Nat, NEW rate \in Nat
  PROVE  PremiumStep(x, k, cap, rate)
<1>1. PICK m \in Nat : m = Min({x, cap}) /\ m = IF x <= cap THEN x ELSE cap
  BY MinOfTwo
<1>2. PICK l \in Nat : l = Min({x + k, cap}) /\ l = IF x + k <= cap THEN x + k ELSE cap
  BY MinOfTwo
<1>3. PICK d \in Nat : l = m + d /\ d <= k
  <2>1. (x <= cap /\ m = x) \/ (x > cap /\ m = cap)
    BY <1>1
  <2>2. (x + k <= cap /\ l = x + k) \/ (x + k > cap /\ l = cap)
    BY <1>2
  <2>3. l - m \in Nat /\ l - m <= k /\ l = m + (l - m)
    BY <2>1, <2>2
  <2>4. QED
    BY <2>3
<1>4. PICK a \in Nat, e \in Nat : a = m * rate /\ e = d * rate /\ l * rate = a + e /\ e <= k * rate /\ k * rate \in Nat
  <2>1. rate \in Nat
    OBVIOUS
  <2>2. QED
    BY <1>3, <2>1, ProductGrows
<1>5. PICK b \in Nat : b = a + e
  OBVIOUS
<1>6. PICK p \in Nat, q \in Nat : p = Rounded(a, 1000) /\ q = Rounded(b, 1000) /\ 1000 * (q - p) <= e + 999
  <2>1. /\ Rounded(a, 1000) \in Nat /\ Rounded(b, 1000) \in Nat
        /\ 1000 * (Rounded(b, 1000) - Rounded(a, 1000)) <= e + 999
    BY <1>5, RoundedThousandths
  <2>2. QED
    BY <2>1
<1>7. Premium(x, cap, rate) = p /\ Premium(x + k, cap, rate) = q
  BY <1>1, <1>2, <1>4, <1>5, <1>6 DEF Premium
<1>8. QED
  BY <1>4, <1>6, <1>7 DEF PremiumStep

InsuredOf(s) == IF s.insured = Unset THEN s.base ELSE s.insured
CapOf(i) == 20 * (<<config.gov, config.gov, config.wage>>[i])

\* The premiums of a salary.
LEMMA InsurancesAre ==
  ASSUME PayTypeOK, NEW s \in SalaryRow, NEW i \in 1..3
  PROVE  /\ InsuredOf(s) \in Nat /\ CapOf(i) \in Nat /\ config.rates[i] \in Nat
         /\ Insurances(s)[i] = Premium(InsuredOf(s), CapOf(i), config.rates[i])
         /\ Insurances(s)[i] \in Nat
<1>1. InsuredOf(s) \in Nat
  BY DEF SalaryRow, InsuredOf
<1>2. CapOf(i) \in Nat /\ config.rates[i] \in Nat
  <2>1. config.gov \in Nat /\ config.wage \in Nat /\ config.rates[i] \in Nat
    BY ConfigIs
  <2>2. PICK c \in Nat : c = <<config.gov, config.gov, config.wage>>[i]
    BY <2>1
  <2>3. CapOf(i) = 20 * c
    BY <2>2 DEF CapOf
  <2>4. QED
    BY <2>1, <2>3
<1>3. Insurances(s)[i] = Premium(InsuredOf(s), CapOf(i), config.rates[i])
  BY DEF Insurances, Premium, InsuredOf, CapOf
<1>4. Premium(InsuredOf(s), CapOf(i), config.rates[i]) \in Nat
  <2>1. PICK x \in Nat, cap \in Nat, rate \in Nat :
          x = InsuredOf(s) /\ cap = CapOf(i) /\ rate = config.rates[i]
    BY <1>1, <1>2
  <2>2. Premium(x, cap, rate) \in Nat
    BY PremiumIsNat
  <2>3. QED
    BY <2>1, <2>2
<1>5. QED
  BY <1>1, <1>2, <1>3, <1>4

\* An hour of overtime is worth no less on a higher salary.
LEMMA OvertimeGrows ==
  ASSUME NEW x \in Nat, NEW k \in Nat, NEW n \in Nat
  PROVE  OtPay(x, n) \in Nat /\ OtPay(x + k, n) \in Nat /\ OtPay(x, n) <= OtPay(x + k, n)
<1>1. PICK a \in Nat, e \in Nat : a = x * n /\ e = k * n /\ (x + k) * n = a + e
  BY ProductGrows
<1>2. PICK b \in Nat : b = a + e
  OBVIOUS
<1>3. /\ Rounded(a * 3, 2 * 26 * 8 * 60) \in Nat /\ Rounded(b * 3, 2 * 26 * 8 * 60) \in Nat
      /\ Rounded(a * 3, 2 * 26 * 8 * 60) <= Rounded(b * 3, 2 * 26 * 8 * 60)
  BY <1>2 DEF Rounded
<1>4. OtPay(x, n) = Rounded(a * 3, 2 * 26 * 8 * 60) /\ OtPay(x + k, n) = Rounded(b * 3, 2 * 26 * 8 * 60)
  BY <1>1, <1>2 DEF OtPay
<1>5. QED
  BY <1>3, <1>4

\* What is taxed before the deductions, and what is left of it.
TaxableOf(s, b, n) == s.base + OtPay(s.base, n) + EarnedTaxed(s) + GivenTaxed(b)
LeftOf(s, b, n) ==
  TaxableOf(s, b, n) - InsTotal(s) - config.personal - config.dependents * config.dependent

\* The parts of a payslip are numbers.
LEMMA PartsAre ==
  ASSUME PayTypeOK, NEW s \in SalaryRow, NEW b \in Seq(BenefitRow), NEW n \in Nat
  PROVE  /\ s.base \in Nat /\ OtPay(s.base, n) \in Nat
         /\ Earned(s) \in Int /\ Deducted(s) \in Int /\ EarnedTaxed(s) \in Int
         /\ Given(b) \in Int /\ GivenTaxed(b) \in Int
         /\ InsTotal(s) \in Nat
         /\ config.personal + config.dependents * config.dependent \in Nat
         /\ LeftOf(s, b, n) = TaxableOf(s, b, n) - InsTotal(s)
                                - (config.personal + config.dependents * config.dependent)
         /\ TaxableOf(s, b, n) \in Int
         /\ AssessableOf(s, b, n) = IF LeftOf(s, b, n) >= 0 THEN LeftOf(s, b, n) ELSE 0
         /\ AssessableOf(s, b, n) \in Nat
         /\ PitOf(s, b, n) \in Nat
         /\ 100 * PitOf(s, b, n) - TaxByUnit(AssessableOf(s, b, n), config.brackets) \in Halves
<1>1. s.base \in Nat /\ OtPay(s.base, n) \in Nat
  <2>1. s.base \in Nat /\ 0 \in Nat
    BY DEF SalaryRow
  <2>2. QED
    BY <2>1, OvertimeGrows
<1>2. Earned(s) \in Int /\ Deducted(s) \in Int /\ EarnedTaxed(s) \in Int /\ Given(b) \in Int
      /\ GivenTaxed(b) \in Int
  BY SumsAreInts
<1>3. InsTotal(s) \in Nat
  <2>1. Insurances(s)[1] \in Nat /\ Insurances(s)[2] \in Nat /\ Insurances(s)[3] \in Nat
    BY InsurancesAre
  <2>2. QED
    BY <2>1 DEF InsTotal
<1>4. config.personal \in Nat /\ config.dependents * config.dependent \in Nat
  <2>1. \A c \in Nat, d \in Nat : c * d \in Nat
    OBVIOUS
  <2>2. QED
    BY <2>1, ConfigIs
<1>5. TaxableOf(s, b, n) \in Int
  BY <1>1, <1>2 DEF TaxableOf
<1>6. /\ LeftOf(s, b, n) \in Int
      /\ LeftOf(s, b, n) = TaxableOf(s, b, n) - InsTotal(s)
                             - (config.personal + config.dependents * config.dependent)
  BY <1>3, <1>4, <1>5 DEF LeftOf
<1>7. AssessableOf(s, b, n) = Max({0, LeftOf(s, b, n)})
  BY DEF AssessableOf, LeftOf, TaxableOf
<1>8. AssessableOf(s, b, n) = IF LeftOf(s, b, n) >= 0 THEN LeftOf(s, b, n) ELSE 0
  BY <1>6, <1>7, MaxOfZero
<1>9. PICK x \in Nat : x = AssessableOf(s, b, n)
  BY <1>6, <1>8
<1>10. ProgressivePit(x, config.brackets) \in Nat
       /\ 100 * ProgressivePit(x, config.brackets) - TaxByUnit(x, config.brackets) \in Halves
  <2>1. x <= x
    OBVIOUS
  <2>2. QED
    BY <2>1, ConfigIs, PitGrows
<1>11. PitOf(s, b, n) = ProgressivePit(x, config.brackets)
  BY <1>9 DEF PitOf
<1>12. /\ AssessableOf(s, b, n) \in Nat /\ PitOf(s, b, n) \in Nat
       /\ 100 * PitOf(s, b, n) - TaxByUnit(AssessableOf(s, b, n), config.brackets) \in Halves
  BY <1>9, <1>10, <1>11, Zenon
<1>13. config.personal + config.dependents * config.dependent \in Nat
  <2>1. PICK p \in Nat, q \in Nat : p = config.personal /\ q = config.dependents * config.dependent
    BY <1>4
  <2>2. p + q \in Nat
    OBVIOUS
  <2>3. QED
    BY <2>1, <2>2
<1>14. QED
  BY <1>1, <1>2, <1>3, <1>5, <1>6, <1>8, <1>12, <1>13, Zenon

\* The rows of the premiums are what is deducted for insurance.
LEMMA InsRowsAre ==
  ASSUME PayTypeOK, NEW s \in SalaryRow
  PROVE  /\ InsRows(s) \in Seq(SlipRows)
         /\ OfKind(InsRows(s), "EARNING") = 0
         /\ OfKind(InsRows(s), "DEDUCTION") = InsTotal(s)
<1>1. \A i \in 1..3 : Insurances(s)[i] \in Nat
  BY InsurancesAre
<1>2. \A i \in 1..3 : Row("DEDUCTION", Insurances(s)[i]) \in SlipRows
  BY <1>1 DEF Row, SlipRows, Kinds
<1>3. InsRows(s) \in Seq(SlipRows) /\ Len(InsRows(s)) = 3
  <2>1. PICK m \in Nat : m = 3
    OBVIOUS
  <2>2. InsRows(s) \in [1..m -> SlipRows]
    BY <1>2, <2>1 DEF InsRows
  <2>3. InsRows(s) \in Seq(SlipRows) /\ Len(InsRows(s)) = m
    BY <2>2
  <2>4. QED
    BY <2>1, <2>3
<1>4. \A i \in 1..3 : InsRows(s)[i].kind = "DEDUCTION" /\ InsRows(s)[i].amount = Insurances(s)[i]
  BY DEF InsRows, Row
<1>5. /\ AmountsOf(InsRows(s), "EARNING") \in Seq(Int) /\ Len(AmountsOf(InsRows(s), "EARNING")) = 3
      /\ AmountsOf(InsRows(s), "DEDUCTION") \in Seq(Int) /\ Len(AmountsOf(InsRows(s), "DEDUCTION")) = 3
  BY <1>3, AmountsAreInts
<1>6. \A i \in 1..3 : /\ AmountsOf(InsRows(s), "EARNING")[i] = 0
                      /\ AmountsOf(InsRows(s), "DEDUCTION")[i] = Insurances(s)[i]
  BY <1>3, <1>4 DEF AmountsOf
<1>7. OfKind(InsRows(s), "EARNING") = 0
  BY <1>5, <1>6, SumOfZeros DEF OfKind
<1>8. OfKind(InsRows(s), "DEDUCTION") = InsTotal(s)
  <2>1. PICK list \in Seq(Int) : list = AmountsOf(InsRows(s), "DEDUCTION") /\ Len(list) = 3
    BY <1>5
  <2>2. SumOf(list) = list[1] + list[2] + list[3]
    BY <2>1, SumOfThree
  <2>3. list[1] = Insurances(s)[1] /\ list[2] = Insurances(s)[2] /\ list[3] = Insurances(s)[3]
    BY <1>6, <2>1
  <2>4. QED
    BY <2>1, <2>2, <2>3 DEF OfKind, InsTotal
<1>9. QED
  BY <1>3, <1>7, <1>8

\* The lines of a payslip add up to what is paid out.
LEMMA LinesAdd ==
  ASSUME PayTypeOK, NEW s \in SalaryRow, NEW b \in Seq(BenefitRow), NEW n \in Nat
  PROVE  NetOf(s, b, n) = OfKind(RowsOf(s, b, n), "EARNING") - OfKind(RowsOf(s, b, n), "DEDUCTION")
<1>1. PICK base \in Nat, ot \in Nat, pit \in Nat :
        base = s.base /\ ot = OtPay(s.base, n) /\ pit = PitOf(s, b, n)
  BY PartsAre
<1>2. "EARNING" \in Kinds /\ "DEDUCTION" \in Kinds
  BY DEF Kinds
<1>3. PICK r1 \in Seq(SlipRows) : /\ r1 = <<Row("EARNING", base)>>
                              /\ OfKind(r1, "EARNING") = base /\ OfKind(r1, "DEDUCTION") = 0
  <2>1. base \in Int /\ "EARNING" # "DEDUCTION"
    OBVIOUS
  <2>2. <<Row("EARNING", base)>> \in Seq(SlipRows) /\ OfKind(<<Row("EARNING", base)>>, "EARNING") = base
    BY <1>2, <2>1, OfKindOne
  <2>3. OfKind(<<Row("EARNING", base)>>, "DEDUCTION") = 0
    BY <1>2, <2>1, OfKindOne
  <2>4. QED
    BY <2>2, <2>3
<1>4. PICK r2 \in Seq(SlipRows) : /\ r2 = RowIfAny("EARNING", ot)
                              /\ OfKind(r2, "EARNING") = ot /\ OfKind(r2, "DEDUCTION") = 0
  <2>1. /\ RowIfAny("EARNING", ot) \in Seq(SlipRows) /\ OfKind(RowIfAny("EARNING", ot), "EARNING") = ot
        /\ OfKind(RowIfAny("EARNING", ot), "DEDUCTION") = 0
    BY <1>2, OfKindMaybe
  <2>2. QED
    BY <2>1
<1>5. PICK r3 \in Seq(SlipRows) : /\ r3 = LineRows(s)
                              /\ OfKind(r3, "EARNING") = Earned(s) /\ OfKind(r3, "DEDUCTION") = Deducted(s)
  BY LineRowsAre
<1>6. PICK r4 \in Seq(SlipRows) : /\ r4 = GivenRows(b)
                              /\ OfKind(r4, "EARNING") = Given(b) /\ OfKind(r4, "DEDUCTION") = 0
  BY GivenRowsAre
<1>7. PICK r5 \in Seq(SlipRows) : /\ r5 = InsRows(s)
                              /\ OfKind(r5, "EARNING") = 0 /\ OfKind(r5, "DEDUCTION") = InsTotal(s)
  BY InsRowsAre
<1>8. PICK r6 \in Seq(SlipRows) : /\ r6 = RowIfAny("DEDUCTION", pit)
                              /\ OfKind(r6, "EARNING") = 0 /\ OfKind(r6, "DEDUCTION") = pit
  <2>1. /\ RowIfAny("DEDUCTION", pit) \in Seq(SlipRows) /\ OfKind(RowIfAny("DEDUCTION", pit), "EARNING") = 0
        /\ OfKind(RowIfAny("DEDUCTION", pit), "DEDUCTION") = pit
    BY <1>2, OfKindMaybe
  <2>2. QED
    BY <2>1
<1>9. RowsOf(s, b, n) = r1 \o r2 \o r3 \o r4 \o r5 \o r6
  BY <1>1, <1>3, <1>4, <1>5, <1>6, <1>7, <1>8 DEF RowsOf
<1>10. PICK c2 \in Seq(SlipRows) : c2 = r1 \o r2
  BY ConcatProperties
<1>11. PICK c3 \in Seq(SlipRows) : c3 = c2 \o r3
  BY ConcatProperties
<1>12. PICK c4 \in Seq(SlipRows) : c4 = c3 \o r4
  BY ConcatProperties
<1>13. PICK c5 \in Seq(SlipRows) : c5 = c4 \o r5
  BY ConcatProperties
<1>14. ASSUME NEW k
       PROVE  OfKind(RowsOf(s, b, n), k)
                = OfKind(r1, k) + OfKind(r2, k) + OfKind(r3, k) + OfKind(r4, k) + OfKind(r5, k) + OfKind(r6, k)
  <2>1. OfKind(c2, k) = OfKind(r1, k) + OfKind(r2, k)
    BY <1>10, OfKindConcat
  <2>2. OfKind(c3, k) = OfKind(c2, k) + OfKind(r3, k)
    BY <1>11, OfKindConcat
  <2>3. OfKind(c4, k) = OfKind(c3, k) + OfKind(r4, k)
    BY <1>12, OfKindConcat
  <2>4. OfKind(c5, k) = OfKind(c4, k) + OfKind(r5, k)
    BY <1>13, OfKindConcat
  <2>5. OfKind(c5 \o r6, k) = OfKind(c5, k) + OfKind(r6, k)
    BY OfKindConcat
  <2>6. RowsOf(s, b, n) = c5 \o r6
    BY <1>9, <1>10, <1>11, <1>12, <1>13
  <2>7. QED
    BY <2>1, <2>2, <2>3, <2>4, <2>5, <2>6
<1>15. Earned(s) \in Int /\ Deducted(s) \in Int /\ Given(b) \in Int /\ InsTotal(s) \in Nat
  BY PartsAre
<1>16. OfKind(RowsOf(s, b, n), "EARNING") = base + ot + Earned(s) + Given(b)
  <2>1. OfKind(RowsOf(s, b, n), "EARNING")
          = OfKind(r1, "EARNING") + OfKind(r2, "EARNING") + OfKind(r3, "EARNING") + OfKind(r4, "EARNING")
              + OfKind(r5, "EARNING") + OfKind(r6, "EARNING")
    BY <1>14
  <2>2. OfKind(RowsOf(s, b, n), "EARNING") = base + ot + Earned(s) + Given(b) + 0 + 0
    BY <1>3, <1>4, <1>5, <1>6, <1>7, <1>8, <2>1
  <2>3. PICK e \in Int, g \in Int : e = Earned(s) /\ g = Given(b)
    BY <1>15
  <2>4. base + ot + e + g + 0 + 0 = base + ot + e + g
    OBVIOUS
  <2>5. QED
    BY <2>2, <2>3, <2>4
<1>17. OfKind(RowsOf(s, b, n), "DEDUCTION") = Deducted(s) + InsTotal(s) + pit
  <2>1. OfKind(RowsOf(s, b, n), "DEDUCTION")
          = OfKind(r1, "DEDUCTION") + OfKind(r2, "DEDUCTION") + OfKind(r3, "DEDUCTION") + OfKind(r4, "DEDUCTION")
              + OfKind(r5, "DEDUCTION") + OfKind(r6, "DEDUCTION")
    BY <1>14
  <2>2. OfKind(RowsOf(s, b, n), "DEDUCTION") = 0 + 0 + Deducted(s) + 0 + InsTotal(s) + pit
    BY <1>3, <1>4, <1>5, <1>6, <1>7, <1>8, <2>1
  <2>3. PICK d \in Int, i \in Int : d = Deducted(s) /\ i = InsTotal(s)
    BY <1>15
  <2>4. 0 + 0 + d + 0 + i + pit = d + i + pit
    OBVIOUS
  <2>5. QED
    BY <2>2, <2>3, <2>4
<1>18. NetOf(s, b, n) = (base + ot + Earned(s) + Given(b)) - InsTotal(s) - pit - Deducted(s)
  BY <1>1 DEF NetOf
<1>19. PICK e \in Int, d \in Int, g \in Int, i \in Int :
         e = Earned(s) /\ d = Deducted(s) /\ g = Given(b) /\ i = InsTotal(s)
  BY <1>15
<1>20. (base + ot + e + g) - i - pit - d = (base + ot + e + g) - (d + i + pit)
  OBVIOUS
<1>21. QED
  BY <1>16, <1>17, <1>18, <1>19, <1>20

GrossOf(s, b, n) == s.base + OtPay(s.base, n) + Earned(s) + Given(b)

\* Of two payslips whose gross pay differs by g, their premiums by i and what is taxed by h,
\* the one pays no less than the other if g covers both.
LEMMA NetNoLess ==
  ASSUME PayTypeOK, NEW s \in SalaryRow, NEW r \in SalaryRow, NEW b \in Seq(BenefitRow),
         NEW c \in Seq(BenefitRow), NEW n \in Nat, Deducted(r) = Deducted(s),
         GrossOf(r, c, n) - GrossOf(s, b, n) >= InsTotal(r) - InsTotal(s),
         GrossOf(r, c, n) - GrossOf(s, b, n) >= TaxableOf(r, c, n) - TaxableOf(s, b, n)
  PROVE  NetOf(r, c, n) >= NetOf(s, b, n)
<1>0. PICK f \in Nat, d \in Int : f = config.personal + config.dependents * config.dependent /\ d = Deducted(s)
  <2>1. config.personal + config.dependents * config.dependent \in Nat /\ Deducted(s) \in Int
    BY PartsAre
  <2>2. QED
    BY <2>1
<1>1. PICK g \in Int, i \in Nat, t \in Int, x \in Nat, p \in Nat :
        /\ g = GrossOf(s, b, n) /\ i = InsTotal(s) /\ t = TaxableOf(s, b, n)
        /\ x = AssessableOf(s, b, n) /\ p = PitOf(s, b, n)
  <2>1. /\ s.base \in Nat /\ OtPay(s.base, n) \in Nat /\ Earned(s) \in Int /\ Given(b) \in Int
        /\ InsTotal(s) \in Nat /\ TaxableOf(s, b, n) \in Int
        /\ AssessableOf(s, b, n) \in Nat /\ PitOf(s, b, n) \in Nat
    BY PartsAre
  <2>2. GrossOf(s, b, n) \in Int
    BY <2>1 DEF GrossOf
  <2>3. QED
    BY <2>1, <2>2
<1>2. PICK gg \in Int, ii \in Nat, tt \in Int, xx \in Nat, pp \in Nat :
        /\ gg = GrossOf(r, c, n) /\ ii = InsTotal(r) /\ tt = TaxableOf(r, c, n)
        /\ xx = AssessableOf(r, c, n) /\ pp = PitOf(r, c, n)
  <2>1. /\ r.base \in Nat /\ OtPay(r.base, n) \in Nat /\ Earned(r) \in Int /\ Given(c) \in Int
        /\ InsTotal(r) \in Nat /\ TaxableOf(r, c, n) \in Int
        /\ AssessableOf(r, c, n) \in Nat /\ PitOf(r, c, n) \in Nat
    BY PartsAre
  <2>2. GrossOf(r, c, n) \in Int
    BY <2>1 DEF GrossOf
  <2>3. QED
    BY <2>1, <2>2
<1>3. (t - i - f >= 0 /\ x = t - i - f) \/ (t - i - f < 0 /\ x = 0)
  <2>1. LeftOf(s, b, n) = t - i - f
    <3>1. LeftOf(s, b, n) = TaxableOf(s, b, n) - InsTotal(s)
                              - (config.personal + config.dependents * config.dependent)
      BY PartsAre
    <3>2. QED
      BY <1>0, <1>1, <3>1
  <2>2. AssessableOf(s, b, n) = IF LeftOf(s, b, n) >= 0 THEN LeftOf(s, b, n) ELSE 0
    BY PartsAre
  <2>3. QED
    BY <1>1, <2>1, <2>2
<1>4. (tt - ii - f >= 0 /\ xx = tt - ii - f) \/ (tt - ii - f < 0 /\ xx = 0)
  <2>1. LeftOf(r, c, n) = tt - ii - f
    <3>1. LeftOf(r, c, n) = TaxableOf(r, c, n) - InsTotal(r)
                              - (config.personal + config.dependents * config.dependent)
      BY PartsAre
    <3>2. QED
      BY <1>0, <1>2, <3>1
  <2>2. AssessableOf(r, c, n) = IF LeftOf(r, c, n) >= 0 THEN LeftOf(r, c, n) ELSE 0
    BY PartsAre
  <2>3. QED
    BY <1>2, <2>1, <2>2
<1>5. p = ProgressivePit(x, config.brackets) /\ pp = ProgressivePit(xx, config.brackets)
  BY <1>1, <1>2 DEF PitOf
<1>6. gg - g >= ii - i /\ gg - g >= tt - t
  BY <1>1, <1>2
<1>7. xx <= x \/ xx - x <= (tt - t) - (ii - i)
  BY <1>3, <1>4
<1>8. xx <= x => pp <= p
  BY <1>5, ConfigIs, PitGrows
<1>9. x <= xx => pp <= p + (xx - x)
  BY <1>5, ConfigIs, PitGrows
<1>10. NetOf(s, b, n) = g - i - p - d /\ NetOf(r, c, n) = gg - ii - pp - d
  BY <1>0, <1>1, <1>2 DEF NetOf, GrossOf
<1>11. pp - p <= (gg - g) - (ii - i)
  BY <1>6, <1>7, <1>8, <1>9
<1>12. gg - ii - pp - d >= g - i - p - d
  BY <1>11
<1>13. QED
  BY <1>10, <1>12

\* One more benefit pays no less.
LEMMA BenefitPays ==
  ASSUME PayTypeOK, NEW s \in SalaryRow, NEW n \in Nat
  PROVE  NetOf(s, <<Benefit>>, n) >= NetOf(s, << >>, n)
<1>1. PICK one \in Seq(BenefitRow) : one = <<Benefit>> /\ Len(one) = 1 /\ one[1] = Benefit
  <2>1. Benefit \in BenefitRow
    BY PayslipAssumption DEF BenefitRow
  <2>2. <<Benefit>> \in Seq(BenefitRow) /\ Len(<<Benefit>>) = 1 /\ <<Benefit>>[1] = Benefit
    BY <2>1
  <2>3. QED
    BY <2>2
<1>2. PICK none \in Seq(BenefitRow) : none = << >> /\ Len(none) = 0
  <2>1. << >> \in Seq(BenefitRow) /\ Len(<< >>) = 0
    OBVIOUS
  <2>2. QED
    BY <2>1
<1>3. PICK a \in Nat : a = Benefit.amount
  BY PayslipAssumption DEF BenefitRow
<1>4. Given(none) = 0 /\ GivenTaxed(none) = 0
  <2>1. /\ [i \in 1..Len(none) |-> IF TRUE THEN none[i].amount ELSE 0] = << >>
        /\ [i \in 1..Len(none) |-> IF none[i].taxable THEN none[i].amount ELSE 0] = << >>
    BY <1>2
  <2>2. QED
    BY <2>1, SumOfNone DEF Given, GivenTaxed, SumIf
<1>5. Given(one) = a
  <2>1. [i \in 1..Len(one) |-> IF TRUE THEN one[i].amount ELSE 0] = <<a>>
    BY <1>1, <1>3
  <2>2. QED
    BY <2>1, SumOfOne DEF Given, SumIf
<1>6. GivenTaxed(one) = IF Benefit.taxable THEN a ELSE 0
  <2>1. PICK x \in Int : x = IF Benefit.taxable THEN a ELSE 0
    OBVIOUS
  <2>2. [i \in 1..Len(one) |-> IF one[i].taxable THEN one[i].amount ELSE 0] = <<x>>
    BY <1>1, <1>3, <2>1
  <2>3. QED
    BY <2>1, <2>2, SumOfOne DEF GivenTaxed, SumIf
<1>7. PICK base \in Nat, ot \in Nat, e \in Int, x \in Int :
        base = s.base /\ ot = OtPay(s.base, n) /\ e = Earned(s) /\ x = EarnedTaxed(s)
  BY <1>2, PartsAre
<1>8. GrossOf(s, one, n) = base + ot + e + a /\ GrossOf(s, none, n) = base + ot + e + 0
  BY <1>4, <1>5, <1>7 DEF GrossOf
<1>9. /\ TaxableOf(s, one, n) = base + ot + x + (IF Benefit.taxable THEN a ELSE 0)
      /\ TaxableOf(s, none, n) = base + ot + x + 0
  BY <1>4, <1>6, <1>7 DEF TaxableOf
<1>10. InsTotal(s) \in Nat
  BY <1>2, PartsAre
<1>11. GrossOf(s, one, n) - GrossOf(s, none, n) >= InsTotal(s) - InsTotal(s)
  BY <1>8, <1>10
<1>12. GrossOf(s, one, n) - GrossOf(s, none, n) >= TaxableOf(s, one, n) - TaxableOf(s, none, n)
  BY <1>8, <1>9
<1>13. NetOf(s, one, n) >= NetOf(s, none, n)
  BY <1>11, <1>12, NetNoLess
<1>14. QED
  BY <1>1, <1>2, <1>13

\* The premiums take no more than all of a raise.
LEMMA PremiumsLeave ==
  ASSUME InsuranceLeavesAFifth, PayTypeOK, NEW s \in SalaryRow, NEW r \in SalaryRow, NEW k \in {10, 45},
         r.base = s.base + k, r.insured = s.insured
  PROVE  InsTotal(r) - InsTotal(s) <= k
<1>1. PICK x \in Nat, j \in Nat : x = InsuredOf(s) /\ InsuredOf(r) = x + j /\ (j = 0 \/ j = k)
  <2>1. CASE s.insured = Unset
    <3>1. InsuredOf(s) = s.base /\ InsuredOf(r) = s.base + k /\ s.base \in Nat
      BY <2>1 DEF InsuredOf, SalaryRow
    <3>2. QED
      BY <3>1
  <2>2. CASE s.insured # Unset
    <3>1. InsuredOf(s) = s.insured /\ InsuredOf(r) = s.insured /\ s.insured \in Nat
      BY <2>2 DEF InsuredOf, SalaryRow
    <3>2. s.insured + 0 = s.insured
      BY <3>1
    <3>3. QED
      BY <3>1, <3>2
  <2>3. QED
    BY <2>1, <2>2
<1>2. PICK w \in [1..3 -> Nat] : (\A i \in 1..3 : w[i] = config.rates[i]) /\ w[1] + w[2] + w[3] <= 800
  <2>1. PICK v \in [1..3 -> Nat] : v = [i \in 1..3 |-> config.rates[i]]
    BY ConfigIs
  <2>2. v[1] = config.rates[1] /\ v[2] = config.rates[2] /\ v[3] = config.rates[3]
    BY <2>1
  <2>3. QED
    BY <2>1, <2>2 DEF InsuranceLeavesAFifth
<1>3. j \in {0, 10, 45} /\ j <= k
  BY <1>1
<1>4. ASSUME NEW i \in 1..3
      PROVE  /\ Insurances(s)[i] \in Nat /\ Insurances(r)[i] \in Nat
             /\ 1000 * (Insurances(r)[i] - Insurances(s)[i]) <= j * w[i] + 999
  <2>1. PICK cap \in Nat, rate \in Nat :
          /\ cap = CapOf(i) /\ rate = w[i]
          /\ Insurances(s)[i] = Premium(x, cap, rate)
          /\ Insurances(r)[i] = Premium(x + j, cap, rate)
    <3>1. /\ CapOf(i) \in Nat /\ config.rates[i] \in Nat
          /\ Insurances(s)[i] = Premium(InsuredOf(s), CapOf(i), config.rates[i])
      BY InsurancesAre
    <3>2. Insurances(r)[i] = Premium(InsuredOf(r), CapOf(i), config.rates[i])
      BY InsurancesAre
    <3>3. config.rates[i] = w[i] /\ w[i] \in Nat
      BY <1>2, <3>1
    <3>4. Insurances(s)[i] = Premium(x, CapOf(i), w[i])
      BY <1>1, <3>1, <3>3
    <3>5. Insurances(r)[i] = Premium(x + j, CapOf(i), w[i])
      BY <1>1, <3>2, <3>3
    <3>6. CapOf(i) \in Nat
      BY <3>1
    <3>7. QED
      BY <3>3, <3>4, <3>5, <3>6, Zenon
  <2>2. PremiumStep(x, j, cap, rate)
    BY PremiumGrows
  <2>3. QED
    BY <2>1, <2>2 DEF PremiumStep
<1>5. PICK a1 \in Nat, a2 \in Nat, a3 \in Nat, b1 \in Nat, b2 \in Nat, b3 \in Nat :
        /\ a1 = Insurances(s)[1] /\ a2 = Insurances(s)[2] /\ a3 = Insurances(s)[3]
        /\ b1 = Insurances(r)[1] /\ b2 = Insurances(r)[2] /\ b3 = Insurances(r)[3]
  <2>1. /\ Insurances(s)[1] \in Nat /\ Insurances(s)[2] \in Nat /\ Insurances(s)[3] \in Nat
        /\ Insurances(r)[1] \in Nat /\ Insurances(r)[2] \in Nat /\ Insurances(r)[3] \in Nat
    BY <1>4
  <2>2. QED
    BY <2>1
<1>6. PICK w1 \in Nat, w2 \in Nat, w3 \in Nat : w1 = w[1] /\ w2 = w[2] /\ w3 = w[3] /\ w1 + w2 + w3 <= 800
  <2>1. \A i \in 1..3 : w[i] \in Nat
    OBVIOUS
  <2>2. w[1] \in Nat /\ w[2] \in Nat /\ w[3] \in Nat
    BY <2>1
  <2>3. QED
    BY <1>2, <2>2
<1>7. /\ 1000 * (b1 - a1) <= j * w1 + 999
      /\ 1000 * (b2 - a2) <= j * w2 + 999
      /\ 1000 * (b3 - a3) <= j * w3 + 999
  BY <1>4, <1>5, <1>6
<1>8. (b1 + b2 + b3) - (a1 + a2 + a3) <= k
  <2>1. CASE j = 0
    BY <1>7, <2>1
  <2>2. CASE j = 10
    <3>1. /\ 1000 * (b1 - a1) <= 10 * w1 + 999
          /\ 1000 * (b2 - a2) <= 10 * w2 + 999
          /\ 1000 * (b3 - a3) <= 10 * w3 + 999
      BY <1>7, <2>2
    <3>2. (b1 + b2 + b3) - (a1 + a2 + a3) <= 10
      BY <1>6, <3>1
    <3>3. QED
      BY <1>3, <2>2, <3>2
  <2>3. CASE j = 45
    <3>1. /\ 1000 * (b1 - a1) <= 45 * w1 + 999
          /\ 1000 * (b2 - a2) <= 45 * w2 + 999
          /\ 1000 * (b3 - a3) <= 45 * w3 + 999
      BY <1>7, <2>3
    <3>2. (b1 + b2 + b3) - (a1 + a2 + a3) <= 45
      BY <1>6, <3>1
    <3>3. QED
      BY <1>3, <2>3, <3>2
  <2>4. QED
    BY <1>3, <2>1, <2>2, <2>3
<1>9. QED
  BY <1>5, <1>8 DEF InsTotal

\* The raises that the property tries.
IsRaise(k) == k \in {10, 45}

\* A raise pays no less.
LEMMA RaisePays ==
  ASSUME InsuranceLeavesAFifth, PayTypeOK, NEW s \in SalaryRow, NEW b \in Seq(BenefitRow), NEW n \in Nat,
         NEW k \in Nat, IsRaise(k)
  PROVE  NetOf([s EXCEPT !.base = s.base + k], b, n) >= NetOf(s, b, n)
<1>1. PICK r : r = [s EXCEPT !.base = s.base + k]
  OBVIOUS
<1>2. r \in SalaryRow /\ r.base = s.base + k /\ r.insured = s.insured /\ r.lines = s.lines
  BY <1>1 DEF SalaryRow
<1>3. Earned(r) = Earned(s) /\ Deducted(r) = Deducted(s) /\ EarnedTaxed(r) = EarnedTaxed(s)
  BY <1>2 DEF Earned, Deducted, EarnedTaxed
<1>4. PICK base \in Nat, ot \in Nat, e \in Int, x \in Int, g \in Int, y \in Int :
        /\ base = s.base /\ ot = OtPay(s.base, n) /\ e = Earned(s) /\ x = EarnedTaxed(s)
        /\ g = Given(b) /\ y = GivenTaxed(b)
  <2>1. /\ s.base \in Nat /\ OtPay(s.base, n) \in Nat /\ Earned(s) \in Int /\ EarnedTaxed(s) \in Int
        /\ Given(b) \in Int /\ GivenTaxed(b) \in Int
    BY PartsAre
  <2>2. QED
    BY <2>1
<1>5. PICK more \in Nat : more = OtPay(r.base, n) /\ ot <= more
  <2>1. OtPay(base + k, n) \in Nat /\ OtPay(base, n) <= OtPay(base + k, n)
    BY OvertimeGrows
  <2>2. QED
    BY <1>2, <1>4, <2>1
<1>6. /\ GrossOf(s, b, n) = base + ot + e + g
      /\ GrossOf(r, b, n) = (base + k) + more + e + g
  BY <1>2, <1>3, <1>4, <1>5 DEF GrossOf
<1>7. /\ TaxableOf(s, b, n) = base + ot + x + y
      /\ TaxableOf(r, b, n) = (base + k) + more + x + y
  BY <1>2, <1>3, <1>4, <1>5 DEF TaxableOf
<1>8. PICK i \in Nat, ii \in Nat : i = InsTotal(s) /\ ii = InsTotal(r) /\ ii - i <= k
  <2>1. InsTotal(s) \in Nat
    BY PartsAre
  <2>2. InsTotal(r) \in Nat
    BY <1>2, PartsAre
  <2>3. InsTotal(r) - InsTotal(s) <= k
    BY <1>2, PremiumsLeave DEF IsRaise
  <2>4. QED
    BY <2>1, <2>2, <2>3
<1>9. GrossOf(r, b, n) - GrossOf(s, b, n) >= InsTotal(r) - InsTotal(s)
  <2>1. ((base + k) + more + e + g) - (base + ot + e + g) >= ii - i
    <3>1. ((base + k) + more + e + g) - (base + ot + e + g) = k + (more - ot)
      OBVIOUS
    <3>2. k + (more - ot) >= k
      BY <1>5
    <3>3. QED
      BY <1>8, <3>1, <3>2
  <2>2. QED
    BY <1>6, <1>8, <2>1
<1>10. GrossOf(r, b, n) - GrossOf(s, b, n) >= TaxableOf(r, b, n) - TaxableOf(s, b, n)
  BY <1>6, <1>7
<1>11. NetOf(r, b, n) >= NetOf(s, b, n)
  BY <1>2, <1>3, <1>9, <1>10, NetNoLess
<1>12. QED
  BY <1>1, <1>11

-----------------------------------------------------------------------------
(* Payslip: every payslip, in every state.                                   *)

\* The rows that calculateRun gathers are of their types.
LEMMA RowsGathered ==
  ASSUME PayTypeOK, NEW m \in Dates, SavedBy(m) # {}
  PROVE  /\ Max(SavedBy(m)) \in SavedBy(m) /\ \A d \in SavedBy(m) : d <= Max(SavedBy(m))
         /\ InForce(m) \in SalaryRow /\ Benefits(m) \in Seq(BenefitRow) /\ overtime[m] \in Nat
<1>1. SavedBy(m) \in SUBSET Nat /\ m \in Nat /\ \A d \in SavedBy(m) : d <= m
  BY PayslipAssumption DEF SavedBy
<1>2. Max(SavedBy(m)) \in SavedBy(m) /\ \A d \in SavedBy(m) : d <= Max(SavedBy(m))
  BY <1>1, MaxIs
<1>3. InForce(m) \in Salaries
  BY <1>2 DEF InForce, SavedBy, PayTypeOK
<1>4. InForce(m) \in SalaryRow
  BY <1>3, PayslipAssumption DEF SalaryRow
<1>5. Benefits(m) \in Seq(BenefitRow)
  <2>1. Benefit \in BenefitRow
    BY PayslipAssumption DEF BenefitRow
  <2>2. <<Benefit>> \in Seq(BenefitRow) /\ << >> \in Seq(BenefitRow)
    BY <2>1
  <2>3. QED
    BY <2>2 DEF Benefits
<1>6. overtime[m] \in Nat
  BY PayslipAssumption DEF PayTypeOK
<1>7. QED
  BY <1>2, <1>4, <1>5, <1>6

\* The salary of a month is the one saved last: another that was saved has a later one.
LEMMA LatestHolds ==
  ASSUME PayTypeOK, NEW m \in Dates, SavedBy(m) # {},
         NEW d \in Dates, d <= m, salary[d] # NoSalary, salary[d] # InForce(m)
  PROVE  \E later \in Dates : d < later /\ later <= m /\ salary[later] = InForce(m)
<1>1. PICK t \in SavedBy(m) : t = Max(SavedBy(m)) /\ \A k \in SavedBy(m) : k <= t
  BY RowsGathered
<1>2. d \in SavedBy(m)
  BY DEF SavedBy
<1>3. InForce(m) = salary[t] /\ d # t
  BY <1>1 DEF InForce
<1>4. t \in Dates /\ t <= m /\ t \in Nat /\ d \in Nat
  BY PayslipAssumption DEF SavedBy
<1>5. d < t
  BY <1>1, <1>2, <1>3, <1>4
<1>6. QED
  BY <1>3, <1>4, <1>5

\* The lines of one kind are added up as the breakdown's rows of that kind.
LEMMA TotalIs ==
  ASSUME NEW s, NEW b, NEW n, NEW kind
  PROVE  Total(Compute(s, b, n), kind) = OfKind(RowsOf(s, b, n), kind)
<1>1. Compute(s, b, n).breakdown = RowsOf(s, b, n)
  BY ComputeIs
<1>2. QED
  BY <1>1 DEF Total, SumIf, OfKind, AmountsOf

\* What the state says of a payslip follows from the types of the rows.
LEMMA RowsMakePayslips ==
  ASSUME PayTypeOK
  PROVE  PayslipAdds
<1>1. SUFFICES ASSUME NEW m \in Dates, SavedBy(m) # {}
               PROVE LET s    == InForce(m)
                         slip == Compute(s, Benefits(m), overtime[m])
                         Net(b, ben) == Compute([s EXCEPT !.base = b], ben, overtime[m]).net
                         tax  == 100 * slip.pit - TaxByUnit(slip.assessable, config.brackets)
                     IN /\ slip.net = Total(slip, "EARNING") - Total(slip, "DEDUCTION")
                        /\ tax \in -50..50
                        /\ InsuranceLeavesAFifth =>
                             \A raise \in {10, 45} : Net(s.base + raise, Benefits(m)) >= slip.net
                        /\ Net(s.base, <<Benefit>>) >= Net(s.base, << >>)
                        /\ \A d \in Dates : d <= m /\ salary[d] # NoSalary /\ salary[d] # s =>
                             \E later \in Dates : d < later /\ later <= m /\ salary[later] = s
  BY Zenon DEF PayslipAdds
<1>2. PICK s \in SalaryRow, b \in Seq(BenefitRow), n \in Nat :
        s = InForce(m) /\ b = Benefits(m) /\ n = overtime[m]
  <2>1. InForce(m) \in SalaryRow /\ Benefits(m) \in Seq(BenefitRow) /\ overtime[m] \in Nat
    BY <1>1, RowsGathered
  <2>2. QED
    BY <2>1
<1>3. Compute(s, b, n).net = Total(Compute(s, b, n), "EARNING") - Total(Compute(s, b, n), "DEDUCTION")
  <2>1. Compute(s, b, n).net = NetOf(s, b, n)
    BY ComputeIs
  <2>2. /\ Total(Compute(s, b, n), "EARNING") = OfKind(RowsOf(s, b, n), "EARNING")
        /\ Total(Compute(s, b, n), "DEDUCTION") = OfKind(RowsOf(s, b, n), "DEDUCTION")
    BY TotalIs, Zenon
  <2>3. NetOf(s, b, n) = OfKind(RowsOf(s, b, n), "EARNING") - OfKind(RowsOf(s, b, n), "DEDUCTION")
    BY LinesAdd
  <2>4. QED
    BY <2>1, <2>2, <2>3
<1>4. 100 * Compute(s, b, n).pit - TaxByUnit(Compute(s, b, n).assessable, config.brackets) \in -50..50
  <2>1. Compute(s, b, n).pit = PitOf(s, b, n) /\ Compute(s, b, n).assessable = AssessableOf(s, b, n)
    BY ComputeIs
  <2>2. 100 * PitOf(s, b, n) - TaxByUnit(AssessableOf(s, b, n), config.brackets) \in Halves
    BY PartsAre
  <2>3. QED
    BY <2>1, <2>2 DEF Halves
<1>5. ASSUME InsuranceLeavesAFifth, NEW raise \in {10, 45}
      PROVE  Compute([s EXCEPT !.base = s.base + raise], b, n).net >= Compute(s, b, n).net
  <2>1. NetOf([s EXCEPT !.base = s.base + raise], b, n) >= NetOf(s, b, n)
    <3>1. raise \in Nat /\ IsRaise(raise)
      BY <1>5 DEF IsRaise
    <3>2. QED
      BY <1>5, <3>1, RaisePays
  <2>2. PICK r : r = [s EXCEPT !.base = s.base + raise]
    OBVIOUS
  <2>3. Compute(r, b, n).net = NetOf(r, b, n) /\ Compute(s, b, n).net = NetOf(s, b, n)
    BY ComputeIs
  <2>4. QED
    BY <2>1, <2>2, <2>3
<1>6. Compute([s EXCEPT !.base = s.base], <<Benefit>>, n).net
        >= Compute([s EXCEPT !.base = s.base], << >>, n).net
  <2>1. [s EXCEPT !.base = s.base] = s
    BY DEF SalaryRow
  <2>2. NetOf(s, <<Benefit>>, n) >= NetOf(s, << >>, n)
    BY BenefitPays
  <2>3. /\ Compute(s, <<Benefit>>, n).net = NetOf(s, <<Benefit>>, n)
        /\ Compute(s, << >>, n).net = NetOf(s, << >>, n)
    <3>1. ASSUME NEW c PROVE Compute(s, c, n).net = NetOf(s, c, n)
      BY ComputeIs
    <3>2. QED
      BY <3>1
  <2>4. QED
    BY <2>1, <2>2, <2>3
<1>7. ASSUME NEW d \in Dates, d <= m, salary[d] # NoSalary, salary[d] # s
      PROVE  \E later \in Dates : d < later /\ later <= m /\ salary[later] = s
  <2>1. salary[d] # InForce(m)
    BY <1>2, <1>7
  <2>2. \E later \in Dates : d < later /\ later <= m /\ salary[later] = InForce(m)
    BY <1>1, <1>7, <2>1, LatestHolds
  <2>3. QED
    BY <1>2, <2>2
<1>8. QED
  BY <1>2, <1>3, <1>4, <1>5, <1>6, <1>7

PaySpec == PayInit /\ [][PayNext]_payVars

\* Every row of the payroll keeps its type (EmployeeSalariesService and
\* EmployeeBenefitsService: create and remove).
LEMMA PayTypeCorrect == PaySpec => []PayTypeOK
<1>1. PayInit => PayTypeOK
  BY DEF PayInit, PayTypeOK
<1>2. PayTypeOK /\ [PayNext]_payVars => PayTypeOK'
  <2> SUFFICES ASSUME PayTypeOK, [PayNext]_payVars PROVE PayTypeOK'
    OBVIOUS
  <2>1. ASSUME NEW d \in Dates, NEW s \in Salaries, SaveSalary(d, s) PROVE PayTypeOK'
    BY <2>1 DEF SaveSalary, PayTypeOK
  <2>2. ASSUME NEW d \in Dates, RemoveSalary(d) PROVE PayTypeOK'
    BY <2>2 DEF RemoveSalary, PayTypeOK
  <2>3. ASSUME NEW t \in Spans, AssignBenefit(t) PROVE PayTypeOK'
    BY <2>3 DEF AssignBenefit, PayTypeOK
  <2>4. CASE UNCHANGED payVars
    BY <2>4 DEF payVars, PayTypeOK
  <2>5. QED
    BY <2>1, <2>2, <2>3, <2>4 DEF PayNext
<1>3. QED
  BY <1>1, <1>2, PTL DEF PaySpec

\* Every payslip adds up: its lines make its net pay, its tax is to half a unit what each
\* unit of income owes, a raise and the benefit pay no less (the raise where the insurances
\* leave a fifth of it), and the salary is the one that took effect last
\* (PayrollEngineService.compute and progressivePit, PayrollCalcService.calculateRun).
THEOREM PayslipsAddUp == PaySpec => []PayslipAdds
<1>1. PayTypeOK => PayslipAdds
  BY RowsMakePayslips
<1>2. QED
  BY <1>1, PayTypeCorrect, PTL
=============================================================================
