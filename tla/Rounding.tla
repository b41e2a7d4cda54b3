------------------------------ MODULE Rounding -------------------------------
(* How the pure functions of leave.engine and payroll-engine round.        *)
EXTENDS Integers

\* Math.round of n / d, for d > 0.
Rounded(n, d) == (2 * n + d) \div (2 * d)
=============================================================================
