---------------------------- MODULE MCDocuments -----------------------------
(* Instances of Documents for TLC: one document of each kind by itself, and  *)
(* a class of as many enrolments as there are ids.                           *)
EXTENDS Documents, TLC
CONSTANTS d1, d2, d3, hrm, boss, i1

Users == {hrm, boss}
Resolutions == {{}, {boss}}

Alone(k) == [t \in Target |-> IF t = d1 THEN k ELSE "unused"]
Class    == [t \in Target |-> "enrolment"]
Mixes    == {Alone(k) : k \in Kind \ {"unused"}} \cup {Class}

Symmetry == Permutations(Handler)

\* The class is followed for one approval, two enrolments that owe none, one of them
\* by a status HR has written, no failure and no completion.
ClassBound ==
  kind = Class => /\ fails = 0
                  /\ \A i \in Instance \ {i1} : inst[i].status = "none"
                  /\ \A t \in Target : doc[t] # "COMPLETED"
                  /\ Cardinality({t \in Target : free[t]}) <= 2
                  /\ Cardinality({t \in Target : revived[t]}) <= 1
=============================================================================
