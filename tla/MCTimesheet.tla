---------------------------- MODULE MCTimesheet -----------------------------
(* Instances of Timesheet for TLC. *)
EXTENDS Timesheet, TLC
CONSTANTS r1, r2, d1, d2

Symmetry == Permutations(Handler)

Ask1(k)  == [kind |-> k, days |-> {d1}]
Batch(k) == [kind |-> k, days |-> {d1, d2}]
Nothing  == [kind |-> "CORRECTION", days |-> {}]
OneDay   == {r1 :> Ask1(k) @@ r2 :> Nothing : k \in {"OVERTIME", "SHIFT_SHIFT", "CORRECTION"}}
TwoDays  == {r1 :> Batch("SEPARATE_OT") @@ r2 :> Ask1("OVERTIME"),
             r1 :> Batch("XUONG_CA") @@ r2 :> Ask1("SHIFT_SHIFT"),
             r1 :> Batch("SEPARATE_OT") @@ r2 :> Batch("CLAMP_TO_REGISTERED")}
Mixes    == OneDay \cup TwoDays

\* Requests are raised before anything else happens, at most two processes are at
\* work at once, and a day on which the sheet properties promise nothing any more
\* is not followed further.  Requests for one day leave the other day alone, and
\* the days of a batch have no logs.
Bound ==
  /\ (\E r \in Request : status[r] = "none") =>
       /\ \A p \in Process : pc[p] = "idle"
       /\ \A d \in Day : ~ sheet[d].row /\ logs[d] = <<>> /\ ~ past[d]
       /\ fails = 0 /\ queue = {}
  /\ \A r \in Request : asked[r].days = {} => status[r] # "REJECTED"
  /\ Cardinality({p \in Process : pc[p] # "idle"}) <= 2
  /\ \A d \in Day : "sheet" \notin raced[d] /\ cut[d] # "late"
  /\ asked \in OneDay => ~ past[d2] /\ \A p \in Process : d2 \notin Days(p)
  /\ asked \in TwoDays =>
       \A d \in Day : logs[d] = <<>> /\ ~ past[d] /\ \A h \in Handler : pc[h] \notin LogPc
=============================================================================
