----------------------------- MODULE MCAccounts -----------------------------
(* Instances of Access and Codes for TLC.  They share no state, and neither *)
(* do the mailed codes and the lockout once an address is verified: a       *)
(* behaviour is one of administrators at work, of one user who verifies his *)
(* address, or of one who logs in by e-mail or by username.                 *)
EXTENDS Access, Codes

VARIABLE scene

vars == <<accessVars, codesVars, scene>>

Init ==
  /\ AccessInit /\ CodesInit
  /\ scene \in {"administration", "mail", "login", "username"}
  /\ email <=> scene # "username"
  /\ verified <=> scene = "login"
  /\ scene # "administration" => holds = [u \in User |-> {SuperAdmin}]

Next ==
  /\ UNCHANGED scene
  /\ \/ scene = "administration" /\ AccessNext /\ UNCHANGED codesVars
     \/ scene \in {"login", "username"} /\ CodesNext /\ UNCHANGED accessVars
     \/ scene = "mail" /\ CodesNext /\ UNCHANGED <<accessVars, guesses>>

Spec == Init /\ [][Next]_vars /\ AccessFairness

TypeOK == AccessTypeOK /\ CodesTypeOK
=============================================================================
