------------------------------- MODULE SignOff -------------------------------
(***************************************************************************)
(* What the approval engine promises to whoever owns a request, with no    *)
(* handlers, rows or events: a request takes effect only when every        *)
(* required step has signed, steps sign in order, and it is refused only   *)
(* if someone who was on turn refused it.                                  *)
(***************************************************************************)
EXTENDS Naturals

CONSTANTS Target, NumSteps

VARIABLES
  state,     \* of the request itself
  routed,    \* has it been given a chain?
  required,  \* the steps that must sign
  signed,    \* the steps that have signed
  vetoed     \* has someone on turn refused?

soVars == <<state, routed, required, signed, vetoed>>

Init ==
  /\ state = [t \in Target |-> "none"]
  /\ routed = [t \in Target |-> FALSE]
  /\ required = [t \in Target |-> {}]
  /\ signed = [t \in Target |-> {}]
  /\ vetoed = [t \in Target |-> FALSE]

Submit(t) ==
  /\ state[t] = "none"
  /\ state' = [state EXCEPT ![t] = "PENDING"]
  /\ UNCHANGED <<routed, required, signed, vetoed>>

Route(t, steps) ==
  /\ ~ routed[t]
  /\ routed' = [routed EXCEPT ![t] = TRUE]
  /\ required' = [required EXCEPT ![t] = steps]
  /\ UNCHANGED <<state, signed, vetoed>>

OnTurn(t, k) == k \in required[t] /\ \A j \in required[t] : j < k => j \in signed[t]

Sign(t, k) ==
  /\ OnTurn(t, k)
  /\ signed' = [signed EXCEPT ![t] = @ \cup {k}]
  /\ UNCHANGED <<state, routed, required, vetoed>>

Veto(t, k) ==
  /\ OnTurn(t, k)
  /\ vetoed' = [vetoed EXCEPT ![t] = TRUE]
  /\ UNCHANGED <<state, routed, required, signed>>

TakeEffect(t) ==
  /\ routed[t]
  /\ required[t] \subseteq signed[t]
  /\ state' = [state EXCEPT ![t] = "APPROVED"]
  /\ UNCHANGED <<routed, required, signed, vetoed>>

Refuse(t) ==
  /\ vetoed[t]
  /\ state' = [state EXCEPT ![t] = "REJECTED"]
  /\ UNCHANGED <<routed, required, signed, vetoed>>

Withdraw(t) ==
  /\ state[t] # "none"
  /\ state' = [state EXCEPT ![t] = "CANCELLED"]
  /\ UNCHANGED <<routed, required, signed, vetoed>>

Next ==
  \E t \in Target :
    \/ Submit(t)
    \/ \E steps \in SUBSET (1 .. NumSteps) : Route(t, steps)
    \/ \E k \in 1 .. NumSteps : Sign(t, k) \/ Veto(t, k)
    \/ TakeEffect(t) \/ Refuse(t) \/ Withdraw(t)

Spec == Init /\ [][Next]_soVars
=============================================================================
