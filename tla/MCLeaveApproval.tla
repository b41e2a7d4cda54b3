-------------------------- MODULE MCLeaveApproval --------------------------
(* Instances of LeaveApproval for TLC. *)
EXTENDS LeaveApprovalInv
CONSTANTS r1, r2, r3, d1, d2, emp, mgr, hr

Requests1 == {r1}
Users == {emp, mgr, hr}
Resolutions == {{}, {emp}, {mgr}}
DaysOf1 == [t \in Target |-> {d1}]
Cost1 == [t \in Target |-> 2]
\* r1 and r2 share a day and fit the balance; r1 and r3 share none and do not fit.
Requests3 == {r1, r2, r3}
DaysOf3 == [t \in Target |-> IF t = r3 THEN {d2} ELSE {d1}]
Cost3 == [t \in Target |-> IF t = r2 THEN 1 ELSE 2]
=============================================================================
