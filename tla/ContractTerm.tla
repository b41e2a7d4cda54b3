---------------------------- MODULE ContractTerm ----------------------------
(***************************************************************************)
(* The life of an employment contract: ContractsService and the daily cron *)
(* of ContractReminderService.                                             *)
(*                                                                         *)
(* The cron reads the contracts in force that have an end and whom to tell *)
(* of each, moves each by what it read to EXPIRING or EXPIRED, and reminds *)
(* on certain days before the end.  HR may create, edit, terminate, remove *)
(* or delete a contract between any two of its calls.  A run of the cron   *)
(* is over within the day.                                                 *)
(***************************************************************************)
EXTENDS Integers

CONSTANTS
  Contract,    \* ids of contracts
  NoContract,
  End,         \* the end dates, as days
  NoEnd,       \* open-ended
  Notice,      \* days before its end from which a contract is EXPIRING
  RemindDays,  \* REMIND_DAYS
  MaxToday,    \* bound: days
  MaxLost      \* bound: failures of the cron

ASSUME ContractAssumption ==
  /\ NoContract \notin Contract /\ NoEnd \notin Int
  /\ End \subseteq Int \cup {NoEnd}
  /\ Notice \in Nat /\ RemindDays \subseteq 0 .. Notice
  /\ MaxToday \in Nat /\ MaxLost \in Nat

VARIABLES
  term,      \* EmploymentContract: status and endDate; "none" before, "deleted" (deletedAt)
             \* or "erased" (no row) after
  today,
  scan,      \* the rows the cron has read and not come to yet, at most one for each id
  reach,     \* the rows read with somebody to tell: HR of the organisation, or the manager
  hand,      \* the contract whose reminder is due next
  began,     \* the day of the cron's last run
  checked,   \* the day of its last run that was complete
  ruled,     \* history: the status HR gave last
  beside,    \* history: HR last gave it while the cron had the contract in its list
  touched,   \* history: contracts that HR wrote since the cron began
  warned,    \* history: contracts of whose end somebody was reminded today
  muted,     \* history: a reminder failed today
  lost       \* failures so far

termVars == <<term, today, scan, reach, hand, began, checked, ruled, beside, touched, warned, muted,
              lost>>

Valid == {"ACTIVE", "EXPIRING"}
ContractStatus == {"DRAFT", "EXPIRED", "TERMINATED"} \cup Valid
Status == ContractStatus \cup {"none", "deleted", "erased"}
Term == [status : Status, end : End \cup {NoEnd}]

TermTypeOK ==
  /\ term \in [Contract -> Term]
  /\ today \in Nat /\ began \in Int /\ checked \in Int
  /\ scan \subseteq Contract \X Term
  /\ hand \in Contract \cup {NoContract}
  /\ ruled \in [Contract -> Status]
  /\ reach \subseteq Contract /\ beside \subseteq Contract /\ touched \subseteq Contract
  /\ warned \subseteq Contract /\ muted \in BOOLEAN /\ lost \in Nat

TermInit ==
  /\ term = [c \in Contract |-> [status |-> "none", end |-> NoEnd]]
  /\ today = 0 /\ began = -1 /\ checked = -1
  /\ scan = {} /\ reach = {} /\ hand = NoContract
  /\ ruled = [c \in Contract |-> "none"]
  /\ beside = {} /\ touched = {} /\ warned = {}
  /\ muted = FALSE /\ lost = 0

Working == scan # {} \/ hand # NoContract
InList(c) == hand = c \/ \E r \in scan : r[1] = c

-----------------------------------------------------------------------------
(* ContractsService.  The checks read nothing that the update relies on, so  *)
(* that each operation is its update.                                        *)

Exists(c) == term[c].status \notin {"none", "deleted", "erased"}

\* HR writes the row, and gives its status.
Rule(c, row) ==
  /\ term' = [term EXCEPT ![c] = row]
  /\ ruled' = [ruled EXCEPT ![c] = row.status]
  /\ beside' = IF InList(c) THEN beside \cup {c} ELSE beside \ {c}
  /\ touched' = touched \cup {c}
  /\ UNCHANGED <<today, scan, reach, hand, began, checked, warned, muted, lost>>

CreateContract(c, s, e) ==
  term[c].status = "none" /\ Rule(c, [status |-> s, end |-> e])

\* update, with a status: it asks for no former one.
UpdateContract(c, s, e) ==
  Exists(c) /\ Rule(c, [status |-> s, end |-> e])

\* update, of the end date alone.
ProlongContract(c, e) ==
  /\ Exists(c)
  /\ term' = [term EXCEPT ![c].end = e]
  /\ touched' = touched \cup {c}
  /\ UNCHANGED <<today, scan, reach, hand, began, checked, ruled, beside, warned, muted, lost>>

Terminate(c) == Exists(c) /\ Rule(c, [term[c] EXCEPT !.status = "TERMINATED"])

RemoveContract(c) == Exists(c) /\ Rule(c, [term[c] EXCEPT !.status = "deleted"])

\* EmployeesService.removeContract deletes the row, a removed one too.
EraseContract(c) ==
  /\ Exists(c) \/ term[c].status = "deleted"
  /\ Rule(c, [term[c] EXCEPT !.status = "erased"])

-----------------------------------------------------------------------------
(* remind.                                                                  *)

NextDay ==
  /\ today < MaxToday /\ ~ Working
  /\ today' = today + 1
  /\ warned' = {} /\ muted' = FALSE
  /\ UNCHANGED <<term, scan, reach, hand, began, checked, ruled, beside, touched, lost>>

\* Mutant: any contract that has an end is looked at.
RemindRead_AnyStatus ==
  /\ ~ Working /\ began # today
  /\ began' = today
  /\ scan' = {<<c, term[c]>> : c \in {x \in Contract : Exists(x) /\ term[x].end # NoEnd}}
  /\ reach' \in SUBSET {r[1] : r \in scan'}
  /\ touched' = {}
  /\ checked' = IF scan' = {} THEN today ELSE checked
  /\ UNCHANGED <<term, today, hand, ruled, beside, warned, muted, lost>>

RemindRead ==
  /\ ~ Working /\ began # today
  /\ began' = today
  /\ scan' = {<<c, term[c]>> :
                c \in {x \in Contract : term[x].status \in Valid /\ term[x].end # NoEnd}}
  /\ reach' \in SUBSET {r[1] : r \in scan'}
  /\ touched' = {}
  /\ checked' = IF scan' = {} THEN today ELSE checked
  /\ UNCHANGED <<term, today, hand, ruled, beside, warned, muted, lost>>

DaysLeft(row) == row.end - today

NextStatus(row) ==
  CASE DaysLeft(row) < 0       -> "EXPIRED"
    [] DaysLeft(row) \in 0 .. Notice -> "EXPIRING"
    [] OTHER                   -> row.status

\* The run is over when it was the last of the list.
Ends == checked' = IF scan' = {} /\ hand' = NoContract THEN today ELSE checked

\* The update by id has no row to update.
Misses(r) == NextStatus(r[2]) # r[2].status /\ term[r[1]].status = "erased"

\* The update, when the status is to change: a row that was removed keeps deletedAt.
\* A contract with nobody to tell of it is skipped.
RemindUpdate ==
  /\ hand = NoContract
  /\ \E r \in scan :
       LET c == r[1]   row == r[2]
       IN /\ ~ Misses(r)
          /\ term' = IF NextStatus(row) # row.status /\ Exists(c)
                     THEN [term EXCEPT ![c].status = NextStatus(row)] ELSE term
          /\ scan' = scan \ {r}
          /\ hand' = IF DaysLeft(row) \in RemindDays /\ c \in reach THEN c ELSE NoContract
  /\ Ends
  /\ UNCHANGED <<today, reach, began, ruled, beside, touched, warned, muted, lost>>

\* The update throws: the rest of the list waits for tomorrow.
RemindThrows ==
  /\ hand = NoContract
  /\ \E r \in scan : Misses(r)
  /\ scan' = {}
  /\ UNCHANGED <<term, today, reach, hand, began, checked, ruled, beside, touched, warned, muted, lost>>

RemindDispatch ==
  /\ hand # NoContract
  /\ \/ warned' = warned \cup {hand} /\ UNCHANGED <<muted, lost>>
     \/ /\ lost < MaxLost
        /\ muted' = TRUE /\ lost' = lost + 1
        /\ UNCHANGED warned
  /\ hand' = NoContract
  /\ UNCHANGED <<term, today, scan, reach, began, ruled, beside, touched>>
  /\ Ends

\* A call fails otherwise, or the process ends: so does the rest of the list.
RemindBreaks ==
  /\ Working /\ lost < MaxLost
  /\ lost' = lost + 1
  /\ scan' = {} /\ hand' = NoContract
  /\ UNCHANGED <<term, today, reach, began, checked, ruled, beside, touched, warned, muted>>

TermNext ==
  \/ \E c \in Contract :
       \/ \E e \in End :
            \/ \E s \in ContractStatus : CreateContract(c, s, e) \/ UpdateContract(c, s, e)
            \/ ProlongContract(c, e)
       \/ Terminate(c) \/ RemoveContract(c) \/ EraseContract(c)
  \/ NextDay \/ RemindRead \/ RemindUpdate \/ RemindThrows \/ RemindDispatch \/ RemindBreaks

-----------------------------------------------------------------------------
\* The cron ends only what HR holds to be in force: a contract that was terminated, or is
\* a draft, stays so, unless HR decided it under the cron's hands.  After a complete run
\* no contract that HR left alone is in force past its end, or ACTIVE within the notice,
\* and of those on a day of reminder somebody was reminded if the cron read that there was
\* somebody to tell, whatever failed on the days before (contract-reminder.service.ts:13, remind).
TermKept ==
  \A c \in Contract :
    /\ c \notin beside /\ ruled[c] \notin Valid => term[c].status = ruled[c]
    /\ checked = today /\ ~ Working /\ c \notin touched
         /\ term[c].status \in Valid /\ term[c].end # NoEnd =>
         /\ DaysLeft(term[c]) >= 0
         /\ DaysLeft(term[c]) <= Notice => term[c].status = "EXPIRING"
         /\ DaysLeft(term[c]) \in RemindDays /\ ~ muted /\ c \in reach => c \in warned
=============================================================================
