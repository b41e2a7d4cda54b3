---------------------------- MODULE MCPayrollRun ----------------------------
(* Instances of PayrollRun for TLC: one month, one or two ids of its runs. *)
EXTENDS PayrollRun
CONSTANTS p1, p2, i1, i2, hrm, boss

Users == {hrm, boss}
Resolutions == {{}, {boss}}
=============================================================================
