-------------------------------- MODULE Codes ---------------------------------
(***************************************************************************)
(* How one user gets in: the codes mailed by OtpService, the lockout that  *)
(* LoginLockoutService keeps in Redis, and the flows of AuthService that   *)
(* use them: register, resendOtp, verifyEmail, login, verify2fa and        *)
(* recovery2fa.  The codes are those of EMAIL_VERIFY.  A password, a code  *)
(* of the authenticator or a mailed code is right or wrong; what follows a *)
(* login is in module Sessions.                                            *)
(*                                                                         *)
(* A user has an e-mail, or else a username, and types it to log in.  The  *)
(* lockout is kept under what was typed for a password, and under the      *)
(* e-mail for a second factor: one key, or none for the second factors of  *)
(* a user without an e-mail.                                               *)
(***************************************************************************)
EXTENDS FiniteSets, Naturals, Sequences

CONSTANTS
  Door,         \* request handlers that may be running at once
  Recovery,     \* the recovery codes of the user
  MaxAttempts,  \* wrong tries a mailed code stands
  MaxFailures,  \* wrong passwords and 2FA codes before the lock
  MaxCode,      \* bound: codes mailed
  MaxGuess,     \* bound: wrong passwords and 2FA codes
  MaxBreak      \* bound: handlers that fail

ASSUME CodesAssumption ==
  /\ IsFiniteSet(Door) /\ Recovery \cap Nat = {}
  /\ {MaxCode, MaxGuess, MaxBreak} \subseteq Nat
  /\ {MaxAttempts, MaxFailures} \subseteq Nat \ {0}

VARIABLES
  email,      \* User.email is set; it stays as it is
  tokens,     \* VerificationToken rows, the oldest first
  verified,   \* User.emailVerifiedAt is set
  pending,    \* a password was right: a pending 2FA token has been handed out
  wrong,      \* key lockout:fail, zero when there is none
  timed,      \* that key has a lifetime
  locked,     \* key lockout:lock
  spent,      \* recovery codes with usedAt
  step,       \* where each handler is
  hand,       \* what each handler has read: a token, a recovery code, a count
  uses,       \* history: how often each mailed and each recovery code was used
  contested,  \* history: codes that two handlers had in hand at once
  tries,      \* history: wrong passwords since the counter or the lock last went
  misses,     \* history: wrong second factors since then
  guesses,    \* wrong answers so far
  breaks      \* failures so far

codesVars == <<email, tokens, verified, pending, wrong, timed, locked, spent, step, hand,
               uses, contested, tries, misses, guesses, breaks>>

pastTries == <<tries, misses>>
lockVars == <<email, wrong, timed, locked, pastTries>>
codeVars == <<tokens, verified>>
pastVars == <<uses, contested>>

Code == 1..MaxCode
Token == [consumed : BOOLEAN, expired : BOOLEAN, attempts : Nat]

CodesTypeOK ==
  /\ tokens \in Seq(Token) /\ Len(tokens) <= MaxCode
  /\ email \in BOOLEAN /\ verified \in BOOLEAN /\ pending \in BOOLEAN
  /\ wrong \in Nat /\ timed \in BOOLEAN /\ locked \in BOOLEAN
  /\ spent \subseteq Recovery
  /\ step \in [Door -> {"idle", "issue", "mail", "consume", "miscount", "verify", "password",
                        "totp", "recovery", "spend", "fail", "expire", "lock", "reset"}]
  /\ hand \in [Door -> Nat \cup Recovery]
  /\ uses \in [Code \cup Recovery -> Nat]
  /\ contested \subseteq Code \cup Recovery
  /\ {tries, misses, guesses, breaks} \subseteq Nat
  /\ timed => wrong > 0

\* The account exists; it has an address, verified or not, or has none.
CodesInit ==
  /\ tokens = <<>>
  /\ email \in BOOLEAN /\ verified \in BOOLEAN /\ (verified => email)
  /\ pending = FALSE
  /\ wrong = 0 /\ timed = FALSE /\ locked = FALSE
  /\ spent = {}
  /\ step = [d \in Door |-> "idle"]
  /\ hand = [d \in Door |-> 0]
  /\ uses = [c \in Code \cup Recovery |-> 0]
  /\ contested = {}
  /\ tries = 0 /\ misses = 0 /\ guesses = 0 /\ breaks = 0

Unconsumed == {i \in DOMAIN tokens : ~ tokens[i].consumed}
Latest == CHOOSE i \in Unconsumed : \A j \in Unconsumed : j <= i

To(d, label, has) ==
  /\ step' = [step EXCEPT ![d] = label]
  /\ hand' = [hand EXCEPT ![d] = has]

End(d) == To(d, "idle", 0)

\* A handler takes a code in hand, to mark it used in a later step.
Take(d, label, code) ==
  /\ To(d, label, code)
  /\ contested' = IF \E e \in Door \ {d} : step[e] = label /\ hand[e] = code
                  THEN contested \cup {code} ELSE contested

-----------------------------------------------------------------------------
(* OtpService.issue: register and resendOtp, and a login before the address *)
(* is verified.                                                             *)

Resend(d) ==
  /\ step[d] = "idle" /\ email /\ ~ verified
  /\ To(d, "issue", 0)
  /\ UNCHANGED <<codeVars, pending, lockVars, spent, pastVars, guesses, breaks>>

\* Mutant: the codes mailed before stay good.
IssueConsume_Keeps(d) ==
  /\ step[d] = "issue"
  /\ To(d, "mail", 0)
  /\ UNCHANGED <<codeVars, pending, lockVars, spent, pastVars, guesses, breaks>>

IssueConsume(d) ==
  /\ step[d] = "issue"
  /\ tokens' = [i \in DOMAIN tokens |-> [tokens[i] EXCEPT !.consumed = TRUE]]
  /\ To(d, "mail", 0)
  /\ UNCHANGED <<verified, pending, lockVars, spent, pastVars, guesses, breaks>>

IssueCreate(d) ==
  /\ step[d] = "mail"
  /\ Len(tokens) < MaxCode
  /\ tokens' = Append(tokens, [consumed |-> FALSE, expired |-> FALSE, attempts |-> 0])
  /\ End(d)
  /\ UNCHANGED <<verified, pending, lockVars, spent, pastVars, guesses, breaks>>

-----------------------------------------------------------------------------
(* OtpService.consume, verifyEmail.  A code other than the latest that is   *)
(* unconsumed counts as a wrong one.                                        *)

Stands(i) == ~ tokens[i].expired /\ tokens[i].attempts < MaxAttempts

\* Mutant: a code that was consumed is found again.
VerifyRight_Consumed(d) ==
  /\ step[d] = "idle" /\ tokens # <<>>
  /\ Stands(Len(tokens))
  /\ Take(d, "consume", Len(tokens))
  /\ UNCHANGED <<codeVars, pending, lockVars, spent, uses, guesses, breaks>>

VerifyRight(d) ==
  /\ step[d] = "idle" /\ Unconsumed # {}
  /\ Stands(Latest)
  /\ Take(d, "consume", Latest)
  /\ UNCHANGED <<codeVars, pending, lockVars, spent, uses, guesses, breaks>>

VerifyWrong(d) ==
  /\ step[d] = "idle" /\ Unconsumed # {}
  /\ Stands(Latest)
  /\ To(d, "miscount", Latest)
  /\ UNCHANGED <<codeVars, pending, lockVars, spent, pastVars, guesses, breaks>>

Miscount(d) ==
  /\ step[d] = "miscount"
  /\ tokens' = [tokens EXCEPT ![hand[d]].attempts = @ + 1]
  /\ End(d)
  /\ UNCHANGED <<verified, pending, lockVars, spent, pastVars, guesses, breaks>>

Consume(d) ==
  /\ step[d] = "consume"
  /\ tokens' = [tokens EXCEPT ![hand[d]].consumed = TRUE]
  /\ uses' = [uses EXCEPT ![hand[d]] = @ + 1]
  /\ To(d, "verify", 0)
  /\ UNCHANGED <<verified, pending, lockVars, spent, contested, guesses, breaks>>

Verify(d) ==
  /\ step[d] = "verify"
  /\ verified' = TRUE
  /\ End(d)
  /\ UNCHANGED <<tokens, pending, lockVars, spent, pastVars, guesses, breaks>>

-----------------------------------------------------------------------------
(* login, verify2fa, recovery2fa.                                           *)

\* The lockout has a key for it: the name typed with a password, or the e-mail.
Keyed(label) == label = "password" \/ email

\* assertNotLocked comes first.
Knock(d, label) ==
  /\ step[d] = "idle"
  /\ Keyed(label) => ~ locked
  /\ To(d, label, 0)
  /\ UNCHANGED <<codeVars, pending, lockVars, spent, pastVars, guesses, breaks>>

Login(d)  == Knock(d, "password")
Verify2fa(d) == pending /\ Knock(d, "totp")

\* Mutant: recovery codes may be tried while the account is locked.
Recovery2fa_Unlocked(d) ==
  /\ pending /\ step[d] = "idle"
  /\ To(d, "recovery", 0)
  /\ UNCHANGED <<codeVars, pending, lockVars, spent, pastVars, guesses, breaks>>

Recovery2fa(d) == pending /\ Knock(d, "recovery")

\* A wrong password, a wrong code or an unknown recovery code.
AnswerWrong(d) ==
  /\ step[d] \in {"password", "totp", "recovery"}
  /\ guesses < MaxGuess
  /\ guesses' = guesses + 1
  /\ IF step[d] = "password" THEN tries' = tries + 1 /\ UNCHANGED misses
                              ELSE misses' = misses + 1 /\ UNCHANGED tries
  /\ IF Keyed(step[d]) THEN To(d, "fail", 0) ELSE End(d)
  /\ UNCHANGED <<email, codeVars, pending, wrong, timed, locked, spent, pastVars, breaks>>

\* The right password.  An address is verified first; then the second factor is asked,
\* unless the user has none or trusts the device.
PasswordRight(d) ==
  /\ step[d] = "password"
  /\ \/ email /\ ~ verified /\ To(d, "issue", 0) /\ UNCHANGED pending
     \/ (email => verified) /\ End(d) /\ pending' = TRUE
     \/ (email => verified) /\ To(d, "reset", 0) /\ UNCHANGED pending
  /\ UNCHANGED <<codeVars, lockVars, spent, pastVars, guesses, breaks>>

\* The second factor is right; without a key there is nothing to reset.
Admit(d) == IF email THEN To(d, "reset", 0) ELSE End(d)

TotpRight(d) ==
  /\ step[d] = "totp"
  /\ Admit(d)
  /\ UNCHANGED <<codeVars, pending, lockVars, spent, pastVars, guesses, breaks>>

\* A code that has been used is refused, without being counted as wrong.
RecoveryRight(d) ==
  /\ step[d] = "recovery"
  /\ \E r \in Recovery :
       IF r \in spent THEN End(d) /\ UNCHANGED contested ELSE Take(d, "spend", r)
  /\ UNCHANGED <<codeVars, pending, lockVars, spent, uses, guesses, breaks>>

Spend(d) ==
  /\ step[d] = "spend"
  /\ spent' = spent \cup {hand[d]}
  /\ uses' = [uses EXCEPT ![hand[d]] = @ + 1]
  /\ Admit(d)
  /\ UNCHANGED <<codeVars, pending, lockVars, contested, guesses, breaks>>

-----------------------------------------------------------------------------
(* LoginLockoutService.                                                     *)

\* registerFailure: INCR, EXPIRE, and SET of the lock by the count INCR returned.
FailIncr(d) ==
  /\ step[d] = "fail"
  /\ wrong' = wrong + 1
  /\ To(d, "expire", wrong + 1)
  /\ UNCHANGED <<email, codeVars, pending, timed, locked, pastTries, spent, pastVars, guesses, breaks>>

FailExpire(d) ==
  /\ step[d] = "expire"
  /\ timed' = (wrong > 0)
  /\ IF hand[d] >= MaxFailures THEN To(d, "lock", 0) ELSE End(d)
  /\ UNCHANGED <<email, codeVars, pending, wrong, locked, pastTries, spent, pastVars, guesses, breaks>>

FailLock(d) ==
  /\ step[d] = "lock"
  /\ locked' = TRUE
  /\ End(d)
  /\ UNCHANGED <<email, codeVars, pending, wrong, timed, pastTries, spent, pastVars, guesses, breaks>>

\* reset, and the session that follows.
Reset(d) ==
  /\ step[d] = "reset"
  /\ wrong' = 0 /\ timed' = FALSE /\ locked' = FALSE /\ tries' = 0 /\ misses' = 0
  /\ End(d)
  /\ UNCHANGED <<email, codeVars, pending, spent, pastVars, guesses, breaks>>

-----------------------------------------------------------------------------
(* Time, and failures.                                                      *)

CodeExpires(i) ==
  /\ i \in DOMAIN tokens /\ ~ tokens[i].expired
  /\ tokens' = [tokens EXCEPT ![i].expired = TRUE]
  /\ UNCHANGED <<verified, pending, lockVars, spent, step, hand, pastVars, guesses, breaks>>

CounterLapses ==
  /\ timed
  /\ wrong' = 0 /\ timed' = FALSE /\ tries' = 0 /\ misses' = 0
  /\ UNCHANGED <<email, codeVars, pending, locked, spent, step, hand, pastVars, guesses, breaks>>

LockLapses ==
  /\ locked
  /\ locked' = FALSE /\ tries' = 0 /\ misses' = 0
  /\ UNCHANGED <<email, codeVars, pending, wrong, timed, spent, step, hand, pastVars, guesses, breaks>>

\* A call throws, or the process restarts.
Break(d) ==
  /\ step[d] # "idle"
  /\ breaks < MaxBreak
  /\ breaks' = breaks + 1
  /\ End(d)
  /\ UNCHANGED <<codeVars, pending, lockVars, spent, pastVars, guesses>>

CodesNext ==
  \/ \E d \in Door :
       \/ Resend(d) \/ IssueConsume(d) \/ IssueCreate(d)
       \/ VerifyRight(d) \/ VerifyWrong(d) \/ Miscount(d) \/ Consume(d) \/ Verify(d)
       \/ Login(d) \/ Verify2fa(d) \/ Recovery2fa(d)
       \/ AnswerWrong(d) \/ PasswordRight(d) \/ TotpRight(d) \/ RecoveryRight(d) \/ Spend(d)
       \/ FailIncr(d) \/ FailExpire(d) \/ FailLock(d) \/ Reset(d)
       \/ Break(d)
  \/ \E i \in Code : CodeExpires(i)
  \/ CounterLapses \/ LockLapses

-----------------------------------------------------------------------------
\* A mailed code and a recovery code let a user in once (consume, recovery2fa); one that
\* several handlers had in hand at once, at most as often as there are handlers.
OnceUnlessContested ==
  \A c \in Code \cup Recovery :
    uses[c] <= IF c \in contested THEN Cardinality(Door) ELSE 1

\* issue leaves one code good: the codes that are good and those about to be made are
\* never more than the handlers that may issue at once.
LiveCodesBounded ==
  Cardinality(Unconsumed) + Cardinality({d \in Door : step[d] = "mail"}) <= Cardinality(Door)

\* What a lockout is to count: wrong passwords, and wrong second factors of a user who
\* has an e-mail.
Countable == IF email THEN tries + misses ELSE tries

\* However the requests overlap, and whichever of them fail, a mailed code is tried no
\* more often than MAX_ATTEMPTS, but for one try of each other handler; and a login is
\* answered wrongly no more often than MAX_FAILURES, but for that and one answer for each
\* failure.  Of a user without an e-mail this is about the passwords alone: his second
\* factors have no limit (OtpService.consume, LoginLockoutService).
GuessesLimited ==
  LET slack == Cardinality(Door) - 1
  IN /\ \A i \in DOMAIN tokens : tokens[i].attempts <= MaxAttempts + slack
     /\ Countable <= MaxFailures + slack + breaks
=============================================================================
