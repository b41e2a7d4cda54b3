------------------------------ MODULE DayCount --------------------------------
(***************************************************************************)
(* How days are counted: computeTimesheet of timesheet.engine for a day at *)
(* work, leaveDaysCount of leave.engine for a leave.                       *)
(*                                                                         *)
(* The logs of one day come in, one at a time, in any order of their       *)
(* times; a calendar says which days of a week are worked.  A minute of    *)
(* the day is a number, a quantity of leave is in half days.               *)
(***************************************************************************)
EXTENDS Integers, FiniteSets, FiniteSetsExt

CONSTANTS
  Minute,   \* times at which a log can be taken
  Shifts,   \* shifts, each [start, end, breakStart, breakEnd, breakMinutes, grace, ot]
  None,     \* no shift, no break window, no time
  MaxLog,   \* bound: logs of the day
  Days      \* days of the calendar, consecutive numbers

ASSUME DayCountAssumption ==
  /\ Minute \subseteq Nat /\ Days \subseteq Nat /\ MaxLog \in Nat
  /\ None \notin Nat
  /\ None \notin Shifts
  \* A break window without one of its ends counts as none (breakStart && breakEnd).
  /\ Shifts \subseteq [start : Nat, end : Nat, breakStart : Nat \cup {None},
                       breakEnd : Nat \cup {None}, breakMinutes : Nat, grace : Nat, ot : BOOLEAN]
  /\ \A s \in Shifts : (s.breakStart = None) = (s.breakEnd = None)
  \* A shift over midnight is beyond this engine, as assertCheckoutAllowed says.
  /\ \A s \in Shifts : s.start < s.end

LogType  == {"IN", "OUT", "UNKNOWN"}
Log      == [at : Minute, type : LogType]
LeaveOf  == {"FULL", "HALF", "none"}
DayType  == {"WORKING", "WEEKEND", "HOLIDAY"}

VARIABLES
  logs,   \* AttendanceLog of the day
  day,    \* what else the day's timesheet depends on
  works   \* the days that the calendar says are worked

dayVars == <<logs, day, works>>

DayTypeOK ==
  /\ logs \subseteq Log
  /\ day \in [shift : Shifts \cup {None}, leave : LeaveOf, type : DayType, past : BOOLEAN]
  /\ works \subseteq Days

DayInit ==
  /\ logs = {}
  /\ day \in [shift : Shifts \cup {None}, leave : LeaveOf, type : DayType, past : BOOLEAN]
  /\ works \in SUBSET Days

\* A log is taken.
Punch(l) ==
  /\ Cardinality(logs) < MaxLog
  /\ \A k \in logs : k.at # l.at
  /\ logs' = logs \cup {l}
  /\ UNCHANGED <<day, works>>

\* A holiday is entered, or taken back.
ToggleDay(d) ==
  /\ logs = {}
  /\ works' = IF d \in works THEN works \ {d} ELSE works \cup {d}
  /\ UNCHANGED <<logs, day>>

DayNext == (\E l \in Log : Punch(l)) \/ (\E d \in Days : ToggleDay(d))

-----------------------------------------------------------------------------
(* timesheet.engine.                                                        *)

AtLeast(n, low)  == Max({n, low})
AtMost(n, high)  == Min({n, high})

TimesOf(set, types) == {l.at : l \in {k \in set : k.type \in types}}

\* The first log that says IN, or else the first; the last that says OUT, or else the last
\* of several.
FirstIn(set) ==
  LET ins == TimesOf(set, {"IN"})   all == TimesOf(set, LogType)
  IN IF ins # {} THEN Min(ins) ELSE IF all # {} THEN Min(all) ELSE None
LastOut(set) ==
  LET outs == TimesOf(set, {"OUT"})   all == TimesOf(set, LogType)
  IN IF outs # {} THEN Max(outs) ELSE IF Cardinality(all) > 1 THEN Max(all) ELSE None

Overlap(a1, a2, b1, b2) == AtLeast(AtMost(a2, b2) - AtLeast(a1, b1), 0)

\* Mutant: the whole window is taken off, wherever the employee was.
WorkMinutes_WholeBreak(s, in, out) ==
  LET from == AtLeast(in, s.start)   to == AtMost(out, s.end)
      span == AtLeast(to - from, 0)
      rest == IF s.breakStart # None THEN s.breakEnd - s.breakStart
              ELSE IF span > s.breakMinutes THEN s.breakMinutes ELSE 0
  IN AtLeast(span - rest, 0)

\* The time within the shift, less what falls into the break window, or less a fixed break
\* when it is longer than that.
WorkMinutes(s, in, out) ==
  LET from == AtLeast(in, s.start)   to == AtMost(out, s.end)
      span == AtLeast(to - from, 0)
      rest == IF s.breakStart # None THEN Overlap(from, to, s.breakStart, s.breakEnd)
              ELSE IF span > s.breakMinutes THEN s.breakMinutes ELSE 0
  IN AtLeast(span - rest, 0)

Sheet(status) == [status |-> status, late |-> 0, early |-> 0, work |-> 0, ot |-> 0]

\* Leave comes before holidays, holidays before weekends, and all of them before the logs.
ComputeTimesheet(set) ==
  LET s == day.shift   in == FirstIn(set)   out == LastOut(set)
  IN CASE day.leave = "FULL"   -> Sheet("ON_LEAVE")
       [] day.leave = "HALF"   -> Sheet("HALF_LEAVE")
       [] day.leave = "none" /\ day.type # "WORKING" -> Sheet(day.type)
       [] OTHER ->
            IF s = None THEN Sheet("NOT_SCHEDULED")
            ELSE IF set = {} THEN Sheet(IF day.past THEN "ABSENT" ELSE "NOT_SCHEDULED")
            ELSE LET late  == AtLeast(in - (s.start + s.grace), 0)
                     early == IF out = None THEN 0 ELSE AtLeast(s.end - out, 0)
                 IN [status |-> IF late > 0 /\ early > 0 THEN "LATE_AND_EARLY"
                                ELSE IF late > 0 THEN "LATE"
                                ELSE IF early > 0 THEN "EARLY_LEAVE" ELSE "PRESENT",
                     late |-> late, early |-> early,
                     work |-> IF out = None THEN 0 ELSE WorkMinutes(s, in, out),
                     ot |-> IF out # None /\ s.ot THEN AtLeast(out - s.end, 0) ELSE 0]

-----------------------------------------------------------------------------
(* leave.engine.                                                            *)

Half == {"FULL", "AM", "PM"}

\* leaveDaysCount over the days from..to, in halves.
LeaveHalves(from, to, startHalf, endHalf) ==
  LET working == (from..to) \cap works
      Off(half) == IF half = "FULL" THEN 0 ELSE 1
  IN IF working = {} THEN 0
     ELSE IF Cardinality(working) = 1
     THEN IF startHalf # "FULL" \/ endHalf # "FULL" THEN 1 ELSE 2
     ELSE 2 * Cardinality(working) - Off(startHalf) - Off(endHalf)

-----------------------------------------------------------------------------
\* Reference: a minute is worked when it lies in the shift, outside the window, and between
\* coming and going.
MinutesWorked(s, in, out) ==
  {k \in s.start..(s.end - 1) :
     in <= k /\ k < out /\ ~ (s.breakStart # None /\ s.breakStart <= k /\ k < s.breakEnd)}

\* The minutes worked are those of the reference, less at most the fixed break of a shift
\* without a window; a present day leaves no minute of the shift unaccounted for; and one
\* who checks out again later is never shown to have worked less or left earlier, unless his
\* shift has a fixed break (computeTimesheet).
Counted ==
  LET s == day.shift   sheet == ComputeTimesheet(logs)
      in == FirstIn(logs)   out == LastOut(logs)
      Later == {k \in Minute : \A l \in logs : l.at < k}
      counts == s # None /\ day.leave = "none" /\ day.type = "WORKING"
  IN /\ ~ counts => sheet.work = 0 /\ sheet.ot = 0
     /\ counts /\ out # None =>
          LET there == Cardinality(MinutesWorked(s, in, out))
          IN IF s.breakStart # None THEN sheet.work = there
             ELSE sheet.work \in (there - s.breakMinutes)..there
     /\ counts /\ out # None /\ s.breakStart # None /\ sheet.status = "PRESENT" =>
          Cardinality({k \in s.start..(s.end - 1) : k < s.breakStart \/ k >= s.breakEnd})
            - sheet.work <= s.grace
     /\ counts /\ s.breakStart # None /\ (\E l \in logs : l.type = "IN") =>
          \A k \in Later :
            LET next == ComputeTimesheet(logs \cup {[at |-> k, type |-> "OUT"]})
            IN next.work >= sheet.work /\ (out # None => next.early <= sheet.early)

\* A leave over several days, the first and the last of which are worked, costs the same when
\* it is asked for in two parts, wherever it is cut, and is not free (leaveDaysCount).
Splits ==
  \A a, c \in works, b \in Days, h1, h2 \in Half :
    a <= b /\ b < c =>
      /\ LeaveHalves(a, b, h1, "FULL") + LeaveHalves(b + 1, c, "FULL", h2)
           = LeaveHalves(a, c, h1, h2)
      /\ LeaveHalves(a, c, h1, h2) > 0

DaysCounted == Counted /\ (logs = {} => Splits)
=============================================================================
