---------------------------- MODULE AccountsProofs ----------------------------
(***************************************************************************)
(* Theorems about Access and Codes, for every value of their constants.    *)
(*                                                                         *)
(* Access: what is cached and stale is about to be deleted (StaleOk): the  *)
(* handler that changed the database has not yet deleted what it made      *)
(* stale, and what a fill puts there beside a change, or a failure leaves  *)
(* behind, is late.  A change that no other overlapped finds the super     *)
(* admins as it has counted them (Counted).                                *)
(*                                                                         *)
(* Codes: how often a code lets a user in, how many codes are good at      *)
(* once, and how often anybody may guess.  Each is a sum of what has       *)
(* happened and of the handlers that are about to make it happen again: a  *)
(* step that adds to the one takes from the other.                         *)
(***************************************************************************)
EXTENDS Access, Codes, FiniteSetTheorems, SequenceTheorems, TLAPS

\* Access without the fairness of the run: safety needs none.
AccessSafe == AccessInit /\ [][AccessNext]_accessVars

\* What a handler carries at each label.
Carries(c) ==
  /\ at[c] # "idle" => local[c] \in Local
  /\ at[c] \in Changing => /\ local[c].op \in Op
                           /\ local[c].op.kind = "drop" => local[c].op.on # SuperAdmin
  /\ at[c] = "count" => local[c].op.kind \in {"status", "roles", "remove"}
  /\ at[c] = "find" => local[c].op.kind \in {"grant", "drop"}

\* Two changes under way know of each other, and a fill knows of a change.
Beside(c, d) ==
  at[c] \in Changing /\ at[d] \in Changing \cup {"fill"} => ~ local[d].alone

\* c would take the last super admin away from his role, if op.on is he.
Harms(c) ==
  LET op == local[c].op
  IN \/ op.kind = "status" /\ op.to = "BANNED"
     \/ op.kind = "roles" /\ SuperAdmin \notin op.to
     \/ op.kind = "remove"
Counted(c) ==
  at[c] = "write" /\ local[c].alone /\ Harms(c) =>
    local[c].op.on \notin Admins \/ Admins \ {local[c].op.on} # {}

\* An undisturbed fill puts there what the database says.
FillOk(c) == at[c] = "fill" /\ local[c].alone => local[c].entry = Live(local[c].actor)

Deleting(u) == \E c \in Clerk : at[c] = "del" /\ u \in local[c].found
Finding(u)  == \E c \in Clerk : /\ at[c] = "find" /\ local[c].op.kind = "grant"
                                /\ local[c].op.on \in holds[u]
StaleOk(u) ==
  u \notin late /\ cache[u] # NoAccess /\ cache[u] # Live(u) => Deleting(u) \/ Finding(u)

\* RolesService.remove deletes the entries of the role's users before it drops the role.
DropOk(c) ==
  at[c] \in {"del", "write"} /\ local[c].op.kind = "drop" =>
    \A u \in User : local[c].op.on \in holds[u] /\ cache[u] # NoAccess /\ u \notin late => Deleting(u)

AInv ==
  /\ AccessTypeOK
  /\ AdminRemains
  /\ \A c \in Clerk : Carries(c) /\ Counted(c) /\ FillOk(c) /\ DropOk(c)
  /\ \A c, d \in Clerk : c # d => Beside(c, d)
  /\ \A u \in User : StaleOk(u)

Labels == {"idle", "miss", "fill", "serve"} \cup Changing

-----------------------------------------------------------------------------
(* The locals of a handler.                                                  *)

\* A record of locals with one field or two replaced.
LEMMA LocalFields ==
  ASSUME NEW w \in Local
  PROVE  /\ w.actor \in User /\ w.entry \in Entry \cup {NoAccess} /\ w.op \in Op \cup {NoAccess}
         /\ w.found \in SUBSET User /\ w.alone \in BOOLEAN
BY DEF Local

\* The same record with other users found.
LEMMA FoundSet ==
  ASSUME NEW w \in Local, NEW users \in SUBSET User
  PROVE  /\ [w EXCEPT !.found = users] \in Local
         /\ [w EXCEPT !.found = users].found = users
         /\ [w EXCEPT !.found = users].op = w.op
         /\ [w EXCEPT !.found = users].alone = w.alone
         /\ [w EXCEPT !.found = users].actor = w.actor
<1>1. /\ [w EXCEPT !.found = users].found = users
      /\ [w EXCEPT !.found = users].op = w.op
      /\ [w EXCEPT !.found = users].alone = w.alone
      /\ [w EXCEPT !.found = users].actor = w.actor
  BY DEF Local
<1>2. [w EXCEPT !.found = users] \in Local
  BY DEF Local
<1> QED BY <1>1, <1>2

\* The same record with an entry read, and whether that was undisturbed.
LEMMA EntrySet ==
  ASSUME NEW w \in Local, NEW e \in Entry \cup {NoAccess}, NEW b \in BOOLEAN
  PROVE  /\ [w EXCEPT !.entry = e, !.alone = b] \in Local
         /\ [w EXCEPT !.entry = e, !.alone = b].entry = e
         /\ [w EXCEPT !.entry = e, !.alone = b].alone = b
         /\ [w EXCEPT !.entry = e, !.alone = b].actor = w.actor
<1>1. /\ [w EXCEPT !.entry = e, !.alone = b].entry = e
      /\ [w EXCEPT !.entry = e, !.alone = b].alone = b
      /\ [w EXCEPT !.entry = e, !.alone = b].actor = w.actor
  BY DEF Local
<1>2. [w EXCEPT !.entry = e, !.alone = b] \in Local
  BY DEF Local
<1> QED BY <1>1, <1>2

\* The same record with a change to make.
LEMMA OpSet ==
  ASSUME NEW w \in Local, NEW o \in Op, NEW b \in BOOLEAN
  PROVE  /\ [w EXCEPT !.op = o, !.alone = b] \in Local
         /\ [w EXCEPT !.op = o, !.alone = b].op = o
         /\ [w EXCEPT !.op = o, !.alone = b].alone = b
<1>1. /\ [w EXCEPT !.op = o, !.alone = b].op = o
      /\ [w EXCEPT !.op = o, !.alone = b].alone = b
  BY DEF Local
<1>2. [w EXCEPT !.op = o, !.alone = b] \in Local
  BY DEF Local
<1> QED BY <1>1, <1>2

\* The same record, overlapped.
LEMMA Overlapped ==
  ASSUME NEW w \in Local
  PROVE  /\ [w EXCEPT !.alone = FALSE] \in Local
         /\ [w EXCEPT !.alone = FALSE].alone = FALSE
         /\ [w EXCEPT !.alone = FALSE].op = w.op
         /\ [w EXCEPT !.alone = FALSE].found = w.found
         /\ [w EXCEPT !.alone = FALSE].actor = w.actor
         /\ [w EXCEPT !.alone = FALSE].entry = w.entry
<1>1. /\ [w EXCEPT !.alone = FALSE].alone = FALSE
      /\ [w EXCEPT !.alone = FALSE].op = w.op
      /\ [w EXCEPT !.alone = FALSE].found = w.found
      /\ [w EXCEPT !.alone = FALSE].actor = w.actor
      /\ [w EXCEPT !.alone = FALSE].entry = w.entry
  BY DEF Local
<1>2. [w EXCEPT !.alone = FALSE] \in Local
  BY DEF Local
<1> QED BY <1>1, <1>2

\* A handler moves and the others stay where they are.
LEMMA MoveFacts ==
  ASSUME AccessTypeOK, NEW c \in Clerk, NEW label, NEW locals, Move(c, label, locals)
  PROVE  /\ at'[c] = label /\ local'[c] = locals
         /\ \A d \in Clerk : d # c => at'[d] = at[d] /\ local'[d] = local[d]
BY DEF Move, AccessTypeOK

\* What it moves with has its type.
LEMMA MoveTyped ==
  ASSUME AccessTypeOK, NEW c \in Clerk, NEW label \in Labels, NEW locals \in Local \cup {NoAccess},
         Move(c, label, locals)
  PROVE  /\ at' \in [Clerk -> {"idle", "miss", "fill", "serve"} \cup Changing]
         /\ local' \in [Clerk -> Local \cup {NoAccess}]
<1>1. at' \in [Clerk -> {"idle", "miss", "fill", "serve"} \cup Changing]
  BY DEF Move, AccessTypeOK, Labels
<1>2. local' \in [Clerk -> Local \cup {NoAccess}]
  BY DEF Move, AccessTypeOK
<1> QED BY <1>1, <1>2

\* What the database says has the type of an entry.
LEMMA LiveTyped ==
  ASSUME AccessTypeOK, NEW u \in User
  PROVE  Live(u) \in Entry \cup {NoAccess}
BY DEF Live, Entry, AccessTypeOK

-----------------------------------------------------------------------------
(* What a handler that moves leaves as it was.                               *)

\* Who is beside whom, unless the handler enters a change or a fill.
LEMMA BesideKept ==
  ASSUME NEW c \in Clerk, \A d, e \in Clerk : d # e => Beside(d, e),
         \A d \in Clerk : d # c => at'[d] = at[d] /\ local'[d] = local[d],
         at'[c] \in Changing => at[c] \in Changing,
         at'[c] \in Changing \cup {"fill"} =>
           at[c] \in Changing \cup {"fill"} /\ local'[c].alone = local[c].alone
  PROVE  \A d, e \in Clerk : d # e => Beside(d, e)'
<1> SUFFICES ASSUME NEW d \in Clerk, NEW e \in Clerk, d # e,
                    at'[d] \in Changing, at'[e] \in Changing \cup {"fill"}
             PROVE  ~ local'[e].alone
  BY DEF Beside, Changing
<1>1. at[d] \in Changing
  BY DEF Changing
<1>2. at[e] \in Changing \cup {"fill"} /\ local'[e].alone = local[e].alone
  BY DEF Changing
<1>3. Beside(d, e)
  OBVIOUS
<1> QED BY <1>1, <1>2, <1>3 DEF Beside

\* A deletion that is pending stays so, unless it is this handler that makes it.
LEMMA DeletingKept ==
  ASSUME NEW c \in Clerk, NEW u \in User, Deleting(u), at[c] = "del" => u \notin local[c].found,
         \A d \in Clerk : d # c => at'[d] = at[d] /\ local'[d].found = local[d].found
  PROVE  Deleting(u)'
<1> PICK e \in Clerk : at[e] = "del" /\ u \in local[e].found
  BY DEF Deleting
<1>1. e # c
  OBVIOUS
<1> QED BY <1>1 DEF Deleting

\* A search that is pending stays so, unless it is this handler that makes it.
LEMMA FindingKept ==
  ASSUME NEW c \in Clerk, NEW u \in User, Finding(u),
         at[c] = "find" /\ local[c].op.kind = "grant" => local[c].op.on \notin holds[u],
         holds[u] \subseteq holds'[u],
         \A d \in Clerk : d # c => at'[d] = at[d] /\ local'[d].op = local[d].op
  PROVE  Finding(u)'
<1> PICK e \in Clerk : /\ at[e] = "find" /\ local[e].op.kind = "grant"
                       /\ local[e].op.on \in holds[u]
  BY DEF Finding
<1>1. e # c
  OBVIOUS
<1>2. at'[e] = "find" /\ local'[e].op = local[e].op
  BY <1>1
<1> QED BY <1>2 DEF Finding

\* A step that touches neither database nor cache, of a handler that has nothing to
\* delete, disturbs nothing but what it carries itself.
LEMMA QuietMove ==
  ASSUME AInv, NEW c \in Clerk, NEW label \in Labels, NEW locals \in Local \cup {NoAccess},
         Move(c, label, locals), at[c] \notin {"find", "del"},
         UNCHANGED <<account, holds, roles, grants, cache, late, skewed, changes, faults>>,
         Carries(c)', Counted(c)', FillOk(c)', DropOk(c)',
         \A d, e \in Clerk : d # e => Beside(d, e)'
  PROVE  AInv'
<1>t. AccessTypeOK
  BY DEF AInv
<1>m. /\ at'[c] = label /\ local'[c] = locals
      /\ \A d \in Clerk : d # c => at'[d] = at[d] /\ local'[d] = local[d]
  BY <1>t, MoveFacts
<1>1. AccessTypeOK'
  BY <1>t, MoveTyped DEF AccessTypeOK
<1>a. Admins' = Admins
  BY DEF Admins
<1>2. AdminRemains'
  BY <1>a DEF AInv, AdminRemains
<1>l. \A u \in User : Live(u)' = Live(u)
  BY DEF Live
<1>k. ASSUME NEW u \in User
      PROVE  /\ Deleting(u) => Deleting(u)'
             /\ Finding(u) => Finding(u)'
  BY <1>m, DeletingKept, FindingKept
<1>3. \A d \in Clerk : Carries(d)' /\ Counted(d)' /\ FillOk(d)' /\ DropOk(d)'
  <2> SUFFICES ASSUME NEW d \in Clerk, d # c
               PROVE  Carries(d)' /\ Counted(d)' /\ FillOk(d)' /\ DropOk(d)'
    OBVIOUS
  <2>0. at'[d] = at[d] /\ local'[d] = local[d] /\ (local[d] \in Local => local[d].actor \in User)
    BY <1>m DEF Local
  <2>1. Carries(d)'
    BY <2>0 DEF AInv, Carries, Changing
  <2>2. Counted(d)'
    BY <2>0, <1>a DEF AInv, Counted, Harms
  <2>3. FillOk(d)'
    BY <2>0, <1>l DEF AInv, FillOk, Carries
  <2>4. DropOk(d)'
    BY <2>0, <1>k DEF AInv, DropOk
  <2> QED BY <2>1, <2>2, <2>3, <2>4
<1>4. \A u \in User : StaleOk(u)'
  BY <1>k, <1>l DEF AInv, StaleOk
<1> QED BY <1>1, <1>2, <1>3, <1>4 DEF AInv

-----------------------------------------------------------------------------
(* The guard of a request.                                                   *)

\* The entry is there and lets the request in.
LEMMA GuardHitKeeps ==
  ASSUME AInv, NEW c \in Clerk, NEW u \in User, GuardHit(c, u) PROVE AInv'
<1> DEFINE w == [actor |-> u, entry |-> NoAccess, op |-> NoAccess, found |-> {}, alone |-> TRUE]
<1>w. w \in Local
  BY DEF Local
<1>t. AccessTypeOK
  BY DEF AInv
<1>m. Move(c, "serve", w) /\ at[c] = "idle"
  BY DEF GuardHit
<1>1. /\ at'[c] = "serve" /\ local'[c] = w
      /\ \A d \in Clerk : d # c => at'[d] = at[d] /\ local'[d] = local[d]
  BY <1>t, <1>m, MoveFacts
<1>2. Carries(c)' /\ Counted(c)' /\ FillOk(c)' /\ DropOk(c)'
  BY <1>1, <1>w DEF Carries, Counted, FillOk, DropOk, Changing
<1>3. \A d, e \in Clerk : d # e => Beside(d, e)'
  BY <1>1, BesideKept DEF AInv, Changing
<1>4. UNCHANGED <<account, holds, roles, grants, cache, late, skewed, changes, faults>>
  BY DEF GuardHit
<1> QED BY <1>w, <1>m, <1>2, <1>3, <1>4, QuietMove DEF Labels

\* It is not there and has to be read.
LEMMA GuardMissKeeps ==
  ASSUME AInv, NEW c \in Clerk, NEW u \in User, GuardMiss(c, u) PROVE AInv'
<1> DEFINE w == [actor |-> u, entry |-> NoAccess, op |-> NoAccess, found |-> {}, alone |-> TRUE]
<1>w. w \in Local
  BY DEF Local
<1>t. AccessTypeOK
  BY DEF AInv
<1>m. Move(c, "miss", w) /\ at[c] = "idle"
  BY DEF GuardMiss
<1>1. /\ at'[c] = "miss" /\ local'[c] = w
      /\ \A d \in Clerk : d # c => at'[d] = at[d] /\ local'[d] = local[d]
  BY <1>t, <1>m, MoveFacts
<1>2. Carries(c)' /\ Counted(c)' /\ FillOk(c)' /\ DropOk(c)'
  BY <1>1, <1>w DEF Carries, Counted, FillOk, DropOk, Changing
<1>3. \A d, e \in Clerk : d # e => Beside(d, e)'
  BY <1>1, BesideKept DEF AInv, Changing
<1>4. UNCHANGED <<account, holds, roles, grants, cache, late, skewed, changes, faults>>
  BY DEF GuardMiss
<1> QED BY <1>w, <1>m, <1>2, <1>3, <1>4, QuietMove DEF Labels

\* A handler that is done carries nothing, if it had nothing to delete or find.
LEMMA DoneKeeps ==
  ASSUME AInv, NEW c \in Clerk, Done(c), at[c] \notin {"find", "del"},
         UNCHANGED <<account, holds, roles, grants, cache, late, skewed, changes, faults>>
  PROVE  AInv'
<1>t. AccessTypeOK
  BY DEF AInv
<1>m. Move(c, "idle", NoAccess)
  BY DEF Done
<1>1. /\ at'[c] = "idle"
      /\ \A d \in Clerk : d # c => at'[d] = at[d] /\ local'[d] = local[d]
  BY <1>t, <1>m, MoveFacts
<1>2. Carries(c)' /\ Counted(c)' /\ FillOk(c)' /\ DropOk(c)'
  BY <1>1 DEF Carries, Counted, FillOk, DropOk, Changing
<1>3. \A d, e \in Clerk : d # e => Beside(d, e)'
  BY <1>1, BesideKept DEF AInv, Changing
<1> QED BY <1>m, <1>2, <1>3, QuietMove DEF Labels

\* What is read for the cache is what the database says, and knows of the changes
\* under way.
LEMMA ReadKeeps ==
  ASSUME AInv, NEW c \in Clerk, Read(c) PROVE AInv'
<1> DEFINE u == local[c].actor
<1>t. AccessTypeOK
  BY DEF AInv
<1>u. UNCHANGED <<account, holds, roles, grants, cache, late, skewed, changes, faults>>
  BY DEF Read
<1>c. local[c] \in Local /\ at[c] = "miss"
  BY DEF Read, AInv, Carries
<1>a. u \in User
  BY <1>c DEF Local
<1>1. CASE Live(u) = NoAccess
  BY <1>1, <1>u, <1>c, DoneKeeps DEF Read
<1>2. CASE Live(u) # NoAccess
  <2>b. \E b \in BOOLEAN : /\ Move(c, "fill", [local[c] EXCEPT !.entry = Live(u), !.alone = b])
                           /\ b => ~ BesideChange(c)
    <3>1. CASE BesideChange(c)
      <4>1. Move(c, "fill", [local[c] EXCEPT !.entry = Live(u), !.alone = FALSE])
        BY <1>2, <3>1 DEF Read
      <4> QED BY <4>1
    <3>2. CASE ~ BesideChange(c)
      <4>1. Move(c, "fill", [local[c] EXCEPT !.entry = Live(u), !.alone = TRUE])
        BY <1>2, <3>2 DEF Read
      <4> QED BY <4>1, <3>2
    <3> QED BY <3>1, <3>2
  <2> PICK b \in BOOLEAN : /\ Move(c, "fill", [local[c] EXCEPT !.entry = Live(u), !.alone = b])
                           /\ b => ~ BesideChange(c)
    BY <2>b
  <2> DEFINE w == [local[c] EXCEPT !.entry = Live(u), !.alone = b]
  <2>m. Move(c, "fill", w)
    OBVIOUS
  <2>s. b => ~ BesideChange(c)
    OBVIOUS
  <2>v. Live(u) \in Entry \cup {NoAccess}
    BY <1>t, <1>a, LiveTyped
  <2>w. w \in Local /\ w.entry = Live(u) /\ w.actor = u /\ w.alone = b
    <3> HIDE DEF u
    <3>1. w.entry = Live(u) /\ w.actor = u /\ w.alone = b
      BY <1>c DEF Local, u
    <3>2. w \in Local
      BY <1>c, <2>v DEF Local
    <3> QED BY <3>1, <3>2
  <2> HIDE DEF w
  <2>1. /\ at'[c] = "fill" /\ local'[c] = w
        /\ \A d \in Clerk : d # c => at'[d] = at[d] /\ local'[d] = local[d]
    BY <1>t, <2>m, MoveFacts
  <2>l. Live(u)' = Live(u)
    BY <1>u, <2>1, <2>w DEF Live
  <2>2. Carries(c)' /\ Counted(c)' /\ DropOk(c)'
    BY <2>1, <2>w DEF Carries, Counted, DropOk, Changing
  <2>3. FillOk(c)'
    BY <2>1, <2>w, <1>u DEF FillOk, Live
  <2>4. \A d, e \in Clerk : d # e => Beside(d, e)'
    <3> SUFFICES ASSUME NEW d \in Clerk, NEW e \in Clerk, d # e,
                        at'[d] \in Changing, at'[e] \in Changing \cup {"fill"}
                 PROVE  ~ local'[e].alone
      BY DEF Beside, Changing
    <3>1. d # c /\ at[d] \in Changing
      BY <2>1 DEF Changing
    <3>2. CASE e = c
      <4>1. BesideChange(c)
        BY <3>1 DEF BesideChange
      <4> QED BY <4>1, <3>2, <2>1, <2>w, <2>s
    <3>3. CASE e # c
      BY <3>1, <3>3, <2>1 DEF AInv, Beside, Changing
    <3> QED BY <3>2, <3>3
  <2> QED BY <1>u, <1>c, <2>m, <2>w, <2>2, <2>3, <2>4, QuietMove DEF Labels
<1> QED BY <1>1, <1>2

\* A fill that no change has been beside puts there what the database says.
LEMMA FillKeeps ==
  ASSUME AInv, NEW c \in Clerk, Fill(c) PROVE AInv'
<1> DEFINE u == local[c].actor
           w == [local[c] EXCEPT !.entry = NoAccess, !.alone = TRUE]
<1>t. AccessTypeOK
  BY DEF AInv
<1>u. UNCHANGED <<account, holds, roles, grants, skewed, changes, faults>>
  BY DEF Fill
<1>c. local[c] \in Local /\ at[c] = "fill"
  BY DEF Fill, AInv, Carries
<1>a. u \in User /\ local[c].entry \in Entry \cup {NoAccess} /\ local[c].alone \in BOOLEAN
  BY <1>c DEF Local
<1>w. w \in Local
  BY <1>c, EntrySet
<1>l. /\ late' = IF local[c].alone THEN late \ {u} ELSE late \cup {u}
      /\ cache' = [cache EXCEPT ![u] = local[c].entry]
  BY DEF Fill
<1>m. PICK label \in {"idle", "serve"}, locals \in {w, NoAccess} :
        /\ Move(c, label, locals)
        /\ label = "serve" => locals = w
  BY DEF Fill, Done
<1>z. locals \in Local \cup {NoAccess} /\ label \in Labels /\ (label # "idle" => locals \in Local)
  BY <1>m, <1>w DEF Labels
<1> HIDE DEF w
<1>1. /\ at'[c] = label /\ local'[c] = locals
      /\ \A d \in Clerk : d # c => at'[d] = at[d] /\ local'[d] = local[d]
  BY <1>t, <1>m, MoveFacts
<1>2. AccessTypeOK'
  <2>1. cache' \in [User -> Entry \cup {NoAccess}] /\ late' \subseteq User
    BY <1>t, <1>a, <1>l DEF AccessTypeOK
  <2> QED BY <2>1, <1>t, <1>u, <1>m, <1>z, MoveTyped DEF AccessTypeOK
<1>3. AdminRemains'
  BY <1>u DEF AInv, AdminRemains, Admins
<1>e. \A v \in User : Live(v)' = Live(v)
  BY <1>u DEF Live
<1>k. ASSUME NEW v \in User
      PROVE  /\ Deleting(v) => Deleting(v)'
             /\ Finding(v) => Finding(v)'
  BY <1>1, <1>c, <1>u, DeletingKept, FindingKept
<1>4. ASSUME NEW d \in Clerk PROVE Carries(d)' /\ Counted(d)' /\ FillOk(d)' /\ DropOk(d)'
  <2>1. CASE d = c
    BY <2>1, <1>1, <1>m, <1>z DEF Carries, Counted, FillOk, DropOk, Changing
  <2>2. CASE d # c
    <3>0. at'[d] = at[d] /\ local'[d] = local[d] /\ (local[d] \in Local => local[d].actor \in User)
      BY <2>2, <1>1 DEF Local
    <3>1. Carries(d)'
      BY <3>0 DEF AInv, Carries, Changing
    <3>2. Counted(d)'
      BY <3>0, <1>u DEF AInv, Counted, Harms, Admins
    <3>3. FillOk(d)'
      BY <3>0, <1>e DEF AInv, FillOk, Carries
    <3>4. DropOk(d)'
      <4> SUFFICES ASSUME at[d] \in {"del", "write"}, local[d].op.kind = "drop",
                          NEW v \in User, local[d].op.on \in holds[v],
                          cache'[v] # NoAccess, v \notin late'
                   PROVE  Deleting(v)'
        BY <3>0, <1>u DEF DropOk
      <4>1. ~ local[c].alone
        BY <2>2, <1>c DEF AInv, Beside, Changing
      <4>2. v # u /\ v \notin late /\ cache'[v] = cache[v]
        BY <4>1, <1>l, <1>a, <1>t DEF AccessTypeOK
      <4> QED BY <4>2, <1>k DEF AInv, DropOk
    <3> QED BY <3>1, <3>2, <3>3, <3>4
  <2> QED BY <2>1, <2>2
<1>5. \A d, e \in Clerk : d # e => Beside(d, e)'
  BY <1>1, <1>m, BesideKept DEF AInv, Changing
<1>6. ASSUME NEW v \in User PROVE StaleOk(v)'
  <2> SUFFICES ASSUME v \notin late', cache'[v] # NoAccess, cache'[v] # Live(v)
               PROVE  Deleting(v)' \/ Finding(v)'
    BY <1>e DEF StaleOk
  <2>1. v # u
    <3> SUFFICES ASSUME v = u PROVE FALSE
      OBVIOUS
    <3>1. local[c].alone
      BY <1>l, <1>a
    <3>2. local[c].entry = Live(u)
      BY <3>1, <1>c DEF AInv, FillOk
    <3> QED BY <3>2, <1>l, <1>a, <1>t DEF AccessTypeOK
  <2>2. v \notin late /\ cache'[v] = cache[v]
    BY <2>1, <1>l, <1>t DEF AccessTypeOK
  <2> QED BY <2>2, <1>k DEF AInv, StaleOk
<1> QED BY <1>2, <1>3, <1>4, <1>5, <1>6 DEF AInv

\* A request that changes nothing.
LEMMA ServeKeeps ==
  ASSUME AInv, NEW c \in Clerk, Serve(c) PROVE AInv'
BY DoneKeeps DEF Serve

-----------------------------------------------------------------------------
(* A change begins.                                                          *)

\* Every handler under way learns of it, and it of them.
LEMMA StartKeeps ==
  ASSUME AInv, NEW c \in Clerk, NEW label \in {"count", "write", "find"},
         NEW kind, NEW on, NEW to, Start(c, label, kind, on, to),
         [kind |-> kind, on |-> on, to |-> to] \in Op,
         kind = "drop" => label = "find" /\ on # SuperAdmin,
         label = "count" => kind \in {"status", "roles", "remove"},
         label = "find" => kind = "drop",
         label = "write" /\ (\/ kind = "status" /\ to = "BANNED"
                             \/ kind = "roles" /\ SuperAdmin \notin to
                             \/ kind = "remove") => on \notin Admins
  PROVE  AInv'
<1> DEFINE o == [kind |-> kind, on |-> on, to |-> to]
<1>t. AccessTypeOK
  BY DEF AInv
<1>u. UNCHANGED <<account, holds, roles, grants, cache, late, skewed, faults>>
  BY DEF Start
<1>c. at[c] = "serve" /\ local[c] \in Local
  BY DEF Start, AInv, Carries
<1>o. o \in Op /\ o.kind = kind /\ o.on = on /\ o.to = to
  OBVIOUS
<1>1. at'[c] = label /\ \A d \in Clerk : d # c => at'[d] = at[d]
  BY <1>t DEF Start, AccessTypeOK
<1>2. /\ local'[c] \in Local /\ local'[c].op = o
      /\ local'[c].alone => ~ BesideChange(c)
  <2>1. CASE BesideChange(c)
    <3>1. local'[c] = [local[c] EXCEPT !.op = o, !.alone = FALSE]
      BY <2>1 DEF Start
    <3> HIDE DEF o
    <3> QED BY <3>1, <1>c, <1>o DEF Local
  <2>2. CASE ~ BesideChange(c)
    <3>1. local'[c] = [local[c] EXCEPT !.op = o, !.alone = TRUE]
      BY <2>2 DEF Start
    <3> HIDE DEF o
    <3> QED BY <3>1, <2>2, <1>c, <1>o DEF Local
  <2> QED BY <2>1, <2>2
<1> HIDE DEF o
<1>3. ASSUME NEW d \in Clerk, d # c, at[d] \in Changing \cup {"fill"}
      PROVE  /\ local'[d] \in Local /\ local[d] \in Local
             /\ ~ local'[d].alone
             /\ local'[d].op = local[d].op /\ local'[d].found = local[d].found
  <2>1. local'[d] = [local[d] EXCEPT !.alone = FALSE]
    BY <1>3 DEF Start
  <2>2. local[d] \in Local
    BY <1>3 DEF AInv, Carries, Changing
  <2> QED BY <2>1, <2>2, Overlapped
<1>4. ASSUME NEW d \in Clerk, d # c, at[d] \notin Changing \cup {"fill"}
      PROVE  local'[d] = local[d]
  BY <1>4 DEF Start
<1>5. \A d \in Clerk : d # c => local'[d].op = local[d].op /\ local'[d].found = local[d].found
  BY <1>3, <1>4
<1>6. AccessTypeOK'
  <2>1. at' \in [Clerk -> {"idle", "miss", "fill", "serve"} \cup Changing]
    BY <1>t DEF Start, AccessTypeOK, Changing
  <2>2. \A d \in Clerk : local'[d] \in Local \cup {NoAccess}
    BY <1>2, <1>3, <1>4, <1>t DEF AccessTypeOK
  <2>3. local' = [d \in Clerk |-> local'[d]]
    BY DEF Start
  <2>4. local' \in [Clerk -> Local \cup {NoAccess}]
    BY <2>2, <2>3
  <2>5. changes' \in Nat
    BY <1>t DEF Start, AccessTypeOK
  <2> QED BY <2>1, <2>4, <2>5, <1>t, <1>u DEF AccessTypeOK
<1>7. AdminRemains'
  BY <1>u DEF AInv, AdminRemains, Admins
<1>l. \A v \in User : Live(v)' = Live(v)
  BY <1>u DEF Live
<1>k. ASSUME NEW v \in User
      PROVE  /\ Deleting(v) => Deleting(v)'
             /\ Finding(v) => Finding(v)'
  <2>1. Deleting(v) => Deleting(v)'
    BY <1>1, <1>5, <1>c, DeletingKept
  <2>2. Finding(v) => Finding(v)'
    BY <1>1, <1>5, <1>c, <1>u, FindingKept
  <2> QED BY <2>1, <2>2
<1>8. ASSUME NEW d \in Clerk PROVE Carries(d)' /\ Counted(d)' /\ FillOk(d)' /\ DropOk(d)'
  <2>1. CASE d = c
    <3>1. Carries(c)'
      BY <1>1, <1>2, <1>o DEF Carries, Changing
    <3>2. Counted(c)'
      <4>1. Admins' = Admins
        BY <1>u DEF Admins
      <4> QED BY <4>1, <1>1, <1>2, <1>o DEF Counted, Harms
    <3>3. FillOk(c)' /\ DropOk(c)'
      BY <1>1, <1>2, <1>o DEF FillOk, DropOk
    <3> QED BY <2>1, <3>1, <3>2, <3>3
  <2>2. CASE d # c
    <3>1. CASE at[d] \in Changing \cup {"fill"}
      <4>1. Carries(d)'
        BY <3>1, <2>2, <1>1, <1>3 DEF AInv, Carries, Changing
      <4>2. Counted(d)' /\ FillOk(d)'
        BY <3>1, <2>2, <1>3 DEF Counted, FillOk
      <4>3. DropOk(d)'
        BY <2>2, <1>1, <1>5, <1>u, <1>k DEF AInv, DropOk
      <4> QED BY <4>1, <4>2, <4>3
    <3>2. CASE at[d] \notin Changing \cup {"fill"}
      <4>1. Carries(d)'
        BY <3>2, <2>2, <1>1, <1>4 DEF AInv, Carries, Changing
      <4>2. Counted(d)' /\ FillOk(d)' /\ DropOk(d)'
        BY <3>2, <2>2, <1>1 DEF Counted, FillOk, DropOk, Changing
      <4> QED BY <4>1, <4>2
    <3> QED BY <3>1, <3>2
  <2> QED BY <2>1, <2>2
<1>9. ASSUME NEW d \in Clerk, NEW e \in Clerk, d # e PROVE Beside(d, e)'
  <2> SUFFICES ASSUME at'[d] \in Changing, at'[e] \in Changing \cup {"fill"}
               PROVE  ~ local'[e].alone
    BY DEF Beside, Changing
  <2>1. CASE e # c
    BY <2>1, <1>1, <1>3
  <2>2. CASE e = c
    <3>1. BesideChange(c)
      BY <2>2, <1>1, <1>9 DEF BesideChange, Changing
    <3> QED BY <3>1, <2>2, <1>2
  <2> QED BY <2>1, <2>2
<1>10. \A v \in User : StaleOk(v)'
  BY <1>k, <1>l, <1>u DEF AInv, StaleOk
<1> QED BY <1>6, <1>7, <1>8, <1>9, <1>10 DEF AInv

\* A ban of a super admin goes by the count, any other change of status does not.
LEMMA UpdateStatusKeeps ==
  ASSUME AInv, NEW c \in Clerk, NEW t \in User, UpdateStatus(c, t) PROVE AInv'
<1> PICK s \in {"ACTIVE", "BANNED"} :
      Start(c, IF s = "BANNED" /\ IsSuper(t) THEN "count" ELSE "write", "status", t, s)
  BY DEF UpdateStatus
<1>o. [kind |-> "status", on |-> t, to |-> s] \in Op
  BY DEF Op
<1>1. CASE s = "BANNED" /\ IsSuper(t)
  <2>1. Start(c, "count", "status", t, s)
    BY <1>1
  <2> QED BY <2>1, <1>o, StartKeeps
<1>2. CASE ~ (s = "BANNED" /\ IsSuper(t))
  <2>1. Start(c, "write", "status", t, s)
    BY <1>2
  <2>2. s = "BANNED" => t \notin Admins
    BY <1>2 DEF Admins, IsSuper
  <2> QED BY <2>1, <2>2, <1>o, StartKeeps
<1> QED BY <1>1, <1>2

\* To take the role of a super admin away goes by the count.
LEMMA AssignRolesKeeps ==
  ASSUME AInv, NEW c \in Clerk, NEW t \in User, AssignRoles(c, t) PROVE AInv'
<1> PICK new \in SUBSET roles :
      Start(c, IF IsSuper(t) /\ SuperAdmin \notin new THEN "count" ELSE "write", "roles", t, new)
  BY DEF AssignRoles
<1>o. [kind |-> "roles", on |-> t, to |-> new] \in Op
  BY DEF Op, AInv, AccessTypeOK
<1>1. CASE IsSuper(t) /\ SuperAdmin \notin new
  <2>1. Start(c, "count", "roles", t, new)
    BY <1>1
  <2> QED BY <2>1, <1>o, StartKeeps
<1>2. CASE ~ (IsSuper(t) /\ SuperAdmin \notin new)
  <2>1. Start(c, "write", "roles", t, new)
    BY <1>2
  <2>2. SuperAdmin \notin new => t \notin Admins
    BY <1>2 DEF Admins, IsSuper
  <2> QED BY <2>1, <2>2, <1>o, StartKeeps
<1> QED BY <1>1, <1>2

\* To remove a super admin goes by the count.
LEMMA RemoveUserKeeps ==
  ASSUME AInv, NEW c \in Clerk, NEW t \in User, RemoveUser(c, t) PROVE AInv'
<1>o. [kind |-> "remove", on |-> t, to |-> "gone"] \in Op
  BY DEF Op
<1>1. CASE IsSuper(t)
  <2>1. Start(c, "count", "remove", t, "gone")
    BY <1>1 DEF RemoveUser
  <2> QED BY <2>1, <1>o, StartKeeps
<1>2. CASE ~ IsSuper(t)
  <2>1. Start(c, "write", "remove", t, "gone")
    BY <1>2 DEF RemoveUser
  <2>2. t \notin Admins
    BY <1>2 DEF Admins, IsSuper
  <2> QED BY <2>1, <2>2, <1>o, StartKeeps
<1> QED BY <1>1, <1>2

\* A permission is given to a role or taken away.
LEMMA SetPermissionsKeeps ==
  ASSUME AInv, NEW c \in Clerk, NEW r \in Role, SetPermissions(c, r) PROVE AInv'
<1> PICK g \in BOOLEAN : Start(c, "write", "grant", r, g)
  BY DEF SetPermissions
<1>o. [kind |-> "grant", on |-> r, to |-> g] \in Op
  BY DEF Op
<1> QED BY <1>o, StartKeeps

\* The removal of a role begins with the entries of its users.
LEMMA RemoveRoleKeeps ==
  ASSUME AInv, NEW c \in Clerk, NEW r \in Role, RemoveRole(c, r) PROVE AInv'
<1>o. [kind |-> "drop", on |-> r, to |-> "gone"] \in Op
  BY DEF Op
<1>1. Start(c, "find", "drop", r, "gone") /\ r # SuperAdmin
  BY DEF RemoveRole
<1> QED BY <1>o, <1>1, StartKeeps

\* The count lets a change go on that leaves another super admin.
LEMMA CountKeeps ==
  ASSUME AInv, NEW c \in Clerk, Count(c) PROVE AInv'
<1>t. AccessTypeOK
  BY DEF AInv
<1>u. UNCHANGED <<account, holds, roles, grants, cache, late, skewed, changes, faults>>
  BY DEF Count
<1>c. at[c] = "count" /\ local[c] \in Local
  BY DEF Count, AInv, Carries
<1>1. CASE Admins \ {local[c].op.on} = {}
  BY <1>1, <1>u, <1>c, DoneKeeps DEF Count
<1>2. CASE Admins \ {local[c].op.on} # {}
  <2>m. Move(c, "write", local[c])
    BY <1>2 DEF Count
  <2>1. /\ at'[c] = "write" /\ local'[c] = local[c]
        /\ \A d \in Clerk : d # c => at'[d] = at[d] /\ local'[d] = local[d]
    BY <1>t, <2>m, MoveFacts
  <2>k. /\ local[c].op \in Op
        /\ local[c].op.kind \in {"status", "roles", "remove"}
    BY <1>c DEF AInv, Carries, Changing
  <2>2. Carries(c)' /\ FillOk(c)' /\ DropOk(c)'
    BY <2>1, <2>k, <1>c DEF Carries, FillOk, DropOk, Changing
  <2>3. Counted(c)'
    <3>1. Admins' = Admins
      BY <1>u DEF Admins
    <3> QED BY <3>1, <2>1, <1>2 DEF Counted
  <2>4. \A d, e \in Clerk : d # e => Beside(d, e)'
    BY <2>1, <1>c, BesideKept DEF AInv, Changing
  <2> QED BY <1>u, <1>c, <2>m, <2>2, <2>3, <2>4, QuietMove DEF Labels, Changing
<1> QED BY <1>1, <1>2

-----------------------------------------------------------------------------
(* The writes.                                                               *)

\* A write that no other change overlaps is the only one, and whose entries it makes
\* stale it goes on to delete or to find: the others keep what they rely on.
LEMMA WriteKeeps ==
  ASSUME AInv, NEW c \in Clerk, at[c] = "write", NEW label \in {"idle", "find", "del"},
         NEW locals \in Local \cup {NoAccess}, Move(c, label, locals),
         UNCHANGED <<cache, late>>,
         AccessTypeOK', AdminRemains', Carries(c)', DropOk(c)',
         label # "idle" => locals \in Local /\ locals.alone = local[c].alone,
         \A u \in User : u \notin late /\ cache[u] # NoAccess =>
           \/ Deleting(u)'
           \/ holds'[u] = holds[u] /\ (Live(u)' = Live(u) \/ Finding(u)')
  PROVE  AInv'
<1>t. AccessTypeOK
  BY DEF AInv
<1>1. /\ at'[c] = label /\ local'[c] = locals
      /\ \A d \in Clerk : d # c => at'[d] = at[d] /\ local'[d] = local[d]
  BY <1>t, MoveFacts
<1>k. ASSUME NEW u \in User
      PROVE  /\ Deleting(u) => Deleting(u)'
             /\ Finding(u) /\ holds'[u] = holds[u] => Finding(u)'
  <2>1. Deleting(u) => Deleting(u)'
    BY <1>1, DeletingKept
  <2>2. Finding(u) /\ holds'[u] = holds[u] => Finding(u)'
    BY <1>1, FindingKept
  <2> QED BY <2>1, <2>2
<1>2. ASSUME NEW d \in Clerk PROVE Carries(d)' /\ Counted(d)' /\ FillOk(d)' /\ DropOk(d)'
  <2>1. CASE d = c
    <3>1. Counted(c)' /\ FillOk(c)'
      BY <1>1 DEF Counted, FillOk
    <3> QED BY <2>1, <3>1
  <2>2. CASE d # c
    <3>0. at'[d] = at[d] /\ local'[d] = local[d]
      BY <2>2, <1>1
    <3>1. Carries(d)'
      BY <3>0 DEF AInv, Carries, Changing
    <3>2. Counted(d)' /\ FillOk(d)'
      <4>1. at[d] \in {"write", "fill"} => ~ local[d].alone
        BY <2>2 DEF AInv, Beside, Changing
      <4> QED BY <3>0, <4>1 DEF Counted, FillOk
    <3>3. DropOk(d)'
      <4> SUFFICES ASSUME at[d] \in {"del", "write"}, local[d].op.kind = "drop",
                          NEW u \in User, local[d].op.on \in holds'[u],
                          cache[u] # NoAccess, u \notin late
                   PROVE  Deleting(u)'
        BY <3>0 DEF DropOk
      <4>1. holds'[u] = holds[u] => Deleting(u)
        BY DEF AInv, DropOk
      <4> QED BY <4>1, <1>k
    <3> QED BY <3>1, <3>2, <3>3
  <2> QED BY <2>1, <2>2
<1>3. \A d, e \in Clerk : d # e => Beside(d, e)'
  BY <1>1, BesideKept DEF AInv, Changing
<1>4. ASSUME NEW u \in User PROVE StaleOk(u)'
  <2> SUFFICES ASSUME u \notin late, cache[u] # NoAccess, cache[u] # Live(u)',
                      holds'[u] = holds[u], Live(u)' = Live(u)
               PROVE  Deleting(u)' \/ Finding(u)'
    BY DEF StaleOk
  <2>1. Deleting(u) \/ Finding(u)
    BY DEF AInv, StaleOk
  <2> QED BY <2>1, <1>k
<1> QED BY <1>2, <1>3, <1>4 DEF AInv

\* The entries of these users are to be deleted next.
LEMMA WrittenFacts ==
  ASSUME AInv, NEW c \in Clerk, at[c] = "write", NEW users \in SUBSET User,
         Written(c, users), local[c].op.kind # "drop"
  PROVE  /\ \E locals \in Local : /\ Move(c, "del", locals)
                                  /\ locals.alone = local[c].alone
         /\ Carries(c)' /\ DropOk(c)'
         /\ \A u \in users : Deleting(u)'
         /\ at' \in [Clerk -> {"idle", "miss", "fill", "serve"} \cup Changing]
         /\ local' \in [Clerk -> Local \cup {NoAccess}]
<1> DEFINE w == [local[c] EXCEPT !.found = users]
<1>t. AccessTypeOK
  BY DEF AInv
<1>c. local[c] \in Local /\ local[c].op \in Op
  BY DEF AInv, Carries, Changing
<1>w. /\ w \in Local /\ w.found = users /\ w.op = local[c].op
      /\ w.alone = local[c].alone
  BY <1>c, FoundSet
<1>m. Move(c, "del", w)
  BY DEF Written
<1> HIDE DEF w
<1>1. at'[c] = "del" /\ local'[c] = w
  BY <1>t, <1>m, MoveFacts
<1>2. Carries(c)' /\ DropOk(c)'
  BY <1>1, <1>w, <1>c DEF Carries, DropOk, Changing
<1>3. \A u \in users : Deleting(u)'
  BY <1>1, <1>w DEF Deleting
<1>4. /\ at' \in [Clerk -> {"idle", "miss", "fill", "serve"} \cup Changing]
      /\ local' \in [Clerk -> Local \cup {NoAccess}]
  BY <1>t, <1>m, <1>w, MoveTyped DEF Labels, Changing
<1> QED BY <1>m, <1>w, <1>2, <1>3, <1>4

\* When the row has gone nothing happens.
LEMMA RefusedKeeps ==
  ASSUME AInv, NEW c \in Clerk, at[c] = "write", Done(c),
         UNCHANGED <<account, holds, roles, grants, cache, late, changes, faults>>,
         Skews(c)
  PROVE  AInv'
<1>1. Admins' = Admins
  BY DEF Admins
<1>2. skewed' = skewed
  BY <1>1 DEF Skews, AInv, AccessTypeOK
<1> QED BY <1>2, DoneKeeps

\* The last super admin goes only in a change that another one overlaps.
LEMMA AdminKept ==
  ASSUME AInv, NEW c \in Clerk, Skews(c), local[c] \in Local,
         local[c].alone /\ Admins # {} => Admins' # {}
  PROVE  AdminRemains' /\ skewed' \in BOOLEAN
<1>1. local[c].alone \in BOOLEAN /\ skewed \in BOOLEAN
  BY DEF Local, AInv, AccessTypeOK
<1>2. skewed' \in BOOLEAN
  BY <1>1 DEF Skews
<1>3. AdminRemains'
  BY <1>1 DEF Skews, AInv, AdminRemains
<1> QED BY <1>2, <1>3

\* The status of a user is written.
LEMMA WriteStatusKeeps ==
  ASSUME AInv, NEW c \in Clerk, WriteStatus(c) PROVE AInv'
<1> DEFINE op == local[c].op
<1>t. AccessTypeOK
  BY DEF AInv
<1>c. at[c] = "write" /\ op.kind = "status" /\ local[c] \in Local /\ op \in Op
  BY DEF WriteStatus, AInv, Carries, Changing
<1>o. op.on \in User /\ op.to \in {"ACTIVE", "BANNED"}
  BY <1>c DEF Op
<1> PICK t \in User : t = op.on
  BY <1>o
<1>u. UNCHANGED <<holds, roles, grants, cache, late, changes, faults>> /\ Skews(c)
  BY DEF WriteStatus
<1>1. CASE ~ Exists(t)
  BY <1>1, <1>c, <1>u, RefusedKeeps DEF WriteStatus
<1>2. CASE Exists(t)
  <2>m. account' = [account EXCEPT ![t] = op.to] /\ Written(c, {t})
    BY <1>2 DEF WriteStatus
  <2>w. /\ \E locals \in Local : Move(c, "del", locals) /\ locals.alone = local[c].alone
        /\ Carries(c)' /\ DropOk(c)' /\ Deleting(t)'
        /\ at' \in [Clerk -> {"idle", "miss", "fill", "serve"} \cup Changing]
        /\ local' \in [Clerk -> Local \cup {NoAccess}]
    BY <2>m, <1>c, <1>o, WrittenFacts
  <2>a. ASSUME local[c].alone, Admins # {} PROVE Admins' # {}
    <3>1. CASE op.to = "ACTIVE"
      <4>1. Admins \subseteq Admins'
        BY <3>1, <2>m, <1>u, <1>t DEF Admins, AccessTypeOK
      <4> QED BY <4>1, <2>a
    <3>2. CASE op.to = "BANNED"
      <4>1. t \notin Admins \/ Admins \ {t} # {}
        BY <3>2, <1>c, <2>a DEF AInv, Counted, Harms
      <4>2. PICK a \in Admins : a # t
        BY <4>1, <2>a
      <4>3. a \in Admins'
        BY <4>2, <2>m, <1>u, <1>t DEF Admins, AccessTypeOK
      <4> QED BY <4>3
    <3> QED BY <3>1, <3>2, <1>o
  <2>1. AdminRemains' /\ skewed' \in BOOLEAN
    BY <2>a, <1>u, <1>c, AdminKept
  <2>2. AccessTypeOK'
    <3>1. account' \in [User -> {"ACTIVE", "BANNED", "gone"}]
      BY <2>m, <1>o, <1>t DEF AccessTypeOK
    <3> QED BY <3>1, <2>1, <2>w, <1>u, <1>t DEF AccessTypeOK
  <2>3. ASSUME NEW u \in User
        PROVE  Deleting(u)' \/ (holds'[u] = holds[u] /\ Live(u)' = Live(u))
    <3>1. CASE u = t
      BY <3>1, <2>w
    <3>2. CASE u # t
      BY <3>2, <2>m, <1>u, <1>t DEF Live, AccessTypeOK
    <3> QED BY <3>1, <3>2
  <2> QED BY <2>w, <2>1, <2>2, <2>3, <1>c, <1>u, WriteKeeps
<1> QED BY <1>1, <1>2

\* The roles of a user are replaced.
LEMMA WriteRolesKeeps ==
  ASSUME AInv, NEW c \in Clerk, WriteRoles(c) PROVE AInv'
<1> DEFINE op == local[c].op
<1>t. AccessTypeOK
  BY DEF AInv
<1>c. at[c] = "write" /\ op.kind = "roles" /\ local[c] \in Local /\ op \in Op
  BY DEF WriteRoles, AInv, Carries, Changing
<1>o. op.on \in User
  BY <1>c DEF Op
<1> PICK t \in User : t = op.on
  BY <1>o
<1>u. UNCHANGED <<account, roles, grants, cache, late, changes, faults>> /\ Skews(c)
  BY DEF WriteRoles
<1>1. CASE ~ (Exists(t) /\ op.to \subseteq roles)
  BY <1>1, <1>c, <1>u, RefusedKeeps DEF WriteRoles
<1>2. CASE Exists(t) /\ op.to \subseteq roles
  <2>m. holds' = [holds EXCEPT ![t] = op.to] /\ Written(c, {t})
    BY <1>2 DEF WriteRoles
  <2>w. /\ \E locals \in Local : Move(c, "del", locals) /\ locals.alone = local[c].alone
        /\ Carries(c)' /\ DropOk(c)' /\ Deleting(t)'
        /\ at' \in [Clerk -> {"idle", "miss", "fill", "serve"} \cup Changing]
        /\ local' \in [Clerk -> Local \cup {NoAccess}]
    BY <2>m, <1>c, <1>o, WrittenFacts
  <2>a. ASSUME local[c].alone, Admins # {} PROVE Admins' # {}
    <3>1. CASE SuperAdmin \in op.to
      <4>1. Admins \subseteq Admins'
        BY <3>1, <2>m, <1>u, <1>t DEF Admins, AccessTypeOK
      <4> QED BY <4>1, <2>a
    <3>2. CASE SuperAdmin \notin op.to
      <4>1. t \notin Admins \/ Admins \ {t} # {}
        BY <3>2, <1>c, <2>a DEF AInv, Counted, Harms
      <4>2. PICK a \in Admins : a # t
        BY <4>1, <2>a
      <4>3. a \in Admins'
        BY <4>2, <2>m, <1>u, <1>t DEF Admins, AccessTypeOK
      <4> QED BY <4>3
    <3> QED BY <3>1, <3>2
  <2>1. AdminRemains' /\ skewed' \in BOOLEAN
    BY <2>a, <1>u, <1>c, AdminKept
  <2>2. AccessTypeOK'
    <3>1. holds' \in [User -> SUBSET Role] /\ \A u \in User : holds'[u] \subseteq roles
      BY <1>2, <2>m, <1>t DEF AccessTypeOK
    <3> QED BY <3>1, <2>1, <2>w, <1>u, <1>t DEF AccessTypeOK
  <2>3. ASSUME NEW u \in User
        PROVE  Deleting(u)' \/ (holds'[u] = holds[u] /\ Live(u)' = Live(u))
    <3>1. CASE u = t
      BY <3>1, <2>w
    <3>2. CASE u # t
      BY <3>2, <2>m, <1>u, <1>t DEF Live, AccessTypeOK
    <3> QED BY <3>1, <3>2
  <2> QED BY <2>w, <2>1, <2>2, <2>3, <1>c, <1>u, WriteKeeps
<1> QED BY <1>1, <1>2

\* A user is removed.
LEMMA WriteRemoveKeeps ==
  ASSUME AInv, NEW c \in Clerk, WriteRemove(c) PROVE AInv'
<1> DEFINE op == local[c].op
<1>t. AccessTypeOK
  BY DEF AInv
<1>c. at[c] = "write" /\ op.kind = "remove" /\ local[c] \in Local /\ op \in Op
  BY DEF WriteRemove, AInv, Carries, Changing
<1>o. op.on \in User
  BY <1>c DEF Op
<1> PICK t \in User : t = op.on
  BY <1>o
<1>u. UNCHANGED <<roles, grants, cache, late, changes, faults>> /\ Skews(c)
  BY DEF WriteRemove
<1>1. CASE ~ Exists(t)
  BY <1>1, <1>c, <1>u, RefusedKeeps DEF WriteRemove
<1>2. CASE Exists(t)
  <2>m. /\ account' = [account EXCEPT ![t] = "gone"]
        /\ holds' = [holds EXCEPT ![t] = {}]
        /\ Written(c, {t})
    BY <1>2 DEF WriteRemove
  <2>w. /\ \E locals \in Local : Move(c, "del", locals) /\ locals.alone = local[c].alone
        /\ Carries(c)' /\ DropOk(c)' /\ Deleting(t)'
        /\ at' \in [Clerk -> {"idle", "miss", "fill", "serve"} \cup Changing]
        /\ local' \in [Clerk -> Local \cup {NoAccess}]
    BY <2>m, <1>c, <1>o, WrittenFacts
  <2>a. ASSUME local[c].alone, Admins # {} PROVE Admins' # {}
    <3>1. t \notin Admins \/ Admins \ {t} # {}
      BY <1>c, <2>a DEF AInv, Counted, Harms
    <3>2. PICK a \in Admins : a # t
      BY <3>1, <2>a
    <3>3. a \in Admins'
      BY <3>2, <2>m, <1>u, <1>t DEF Admins, AccessTypeOK
    <3> QED BY <3>3
  <2>1. AdminRemains' /\ skewed' \in BOOLEAN
    BY <2>a, <1>u, <1>c, AdminKept
  <2>2. AccessTypeOK'
    <3>1. /\ account' \in [User -> {"ACTIVE", "BANNED", "gone"}]
          /\ holds' \in [User -> SUBSET Role]
          /\ \A u \in User : holds'[u] \subseteq roles
      BY <2>m, <1>t DEF AccessTypeOK
    <3> QED BY <3>1, <2>1, <2>w, <1>u, <1>t DEF AccessTypeOK
  <2>3. ASSUME NEW u \in User
        PROVE  Deleting(u)' \/ (holds'[u] = holds[u] /\ Live(u)' = Live(u))
    <3>1. CASE u = t
      BY <3>1, <2>w
    <3>2. CASE u # t
      BY <3>2, <2>m, <1>u, <1>t DEF Live, AccessTypeOK
    <3> QED BY <3>1, <3>2
  <2> QED BY <2>w, <2>1, <2>2, <2>3, <1>c, <1>u, WriteKeeps
<1> QED BY <1>1, <1>2

\* A role gains or loses the permission; who holds it is to be found next.
LEMMA WriteGrantKeeps ==
  ASSUME AInv, NEW c \in Clerk, WriteGrant(c) PROVE AInv'
<1> DEFINE op == local[c].op
<1>t. AccessTypeOK
  BY DEF AInv
<1>c. at[c] = "write" /\ op.kind = "grant" /\ local[c] \in Local /\ op \in Op
  BY DEF WriteGrant, AInv, Carries, Changing
<1>o. op.on \in Role
  BY <1>c DEF Op
<1> PICK r \in Role : r = op.on
  BY <1>o
<1>u. UNCHANGED <<account, holds, roles, cache, late, skewed, changes, faults>>
  BY DEF WriteGrant
<1>1. CASE r \notin roles
  BY <1>1, <1>c, <1>u, DoneKeeps DEF WriteGrant
<1>2. CASE r \in roles
  <2>m. /\ grants' \subseteq grants \cup {r} /\ grants \ {r} \subseteq grants'
        /\ Move(c, "find", local[c])
    BY <1>2 DEF WriteGrant
  <2>1. at'[c] = "find" /\ local'[c] = local[c]
    BY <2>m, <1>t, MoveFacts
  <2>2. AccessTypeOK'
    <3>1. grants' \subseteq Role
      BY <2>m, <1>t DEF AccessTypeOK
    <3>2. /\ at' \in [Clerk -> {"idle", "miss", "fill", "serve"} \cup Changing]
          /\ local' \in [Clerk -> Local \cup {NoAccess}]
      BY <2>m, <1>t, <1>c, MoveTyped DEF Labels, Changing
    <3> QED BY <3>1, <3>2, <1>u, <1>t DEF AccessTypeOK
  <2>3. AdminRemains'
    BY <1>u DEF AInv, AdminRemains, Admins
  <2>4. Carries(c)' /\ DropOk(c)'
    BY <2>1, <1>c DEF Carries, DropOk, Changing
  <2>5. ASSUME NEW u \in User
        PROVE  holds'[u] = holds[u] /\ (Live(u)' = Live(u) \/ Finding(u)')
    <3>1. CASE r \in holds[u]
      BY <3>1, <2>1, <1>c, <1>u DEF Finding
    <3>2. CASE r \notin holds[u]
      <4>1. holds[u] \cap grants' = holds[u] \cap grants
        BY <3>2, <2>m
      <4> QED BY <4>1, <1>u DEF Live
    <3> QED BY <3>1, <3>2, <1>u
  <2> QED BY <2>m, <2>2, <2>3, <2>4, <2>5, <1>c, <1>u, WriteKeeps
<1> QED BY <1>1, <1>2

\* A role is dropped: what is cached of its users has been deleted or is about to be.
LEMMA WriteDropKeeps ==
  ASSUME AInv, NEW c \in Clerk, WriteDrop(c) PROVE AInv'
<1> DEFINE op == local[c].op
<1>t. AccessTypeOK
  BY DEF AInv
<1>c. /\ at[c] = "write" /\ op.kind = "drop" /\ local[c] \in Local
      /\ op \in Op /\ op.on # SuperAdmin
  BY DEF WriteDrop, AInv, Carries, Changing
<1>o. op.on \in Role
  BY <1>c DEF Op
<1> PICK r \in Role : r = op.on
  BY <1>o
<1>u. UNCHANGED <<account, cache, late, skewed, changes, faults>>
  BY DEF WriteDrop
<1>m. /\ roles' = roles \ {r} /\ grants' = grants \ {r}
      /\ holds' = [u \in User |-> holds[u] \ {r}]
      /\ Move(c, "idle", NoAccess)
  BY DEF WriteDrop, Done
<1>1. at'[c] = "idle" /\ \A d \in Clerk : d # c => at'[d] = at[d] /\ local'[d] = local[d]
  BY <1>m, <1>t, MoveFacts
<1>2. AccessTypeOK'
  <2>1. /\ roles' \subseteq Role /\ grants' \subseteq Role
        /\ holds' \in [User -> SUBSET Role]
        /\ \A u \in User : holds'[u] \subseteq roles'
    BY <1>m, <1>t DEF AccessTypeOK
  <2>2. /\ at' \in [Clerk -> {"idle", "miss", "fill", "serve"} \cup Changing]
        /\ local' \in [Clerk -> Local \cup {NoAccess}]
    BY <1>m, <1>t, MoveTyped DEF Labels
  <2> QED BY <2>1, <2>2, <1>u, <1>t DEF AccessTypeOK
<1>3. AdminRemains'
  <2>1. Admins' = Admins
    BY <1>m, <1>u, <1>c DEF Admins
  <2> QED BY <2>1, <1>u DEF AInv, AdminRemains
<1>4. Carries(c)' /\ DropOk(c)'
  BY <1>1 DEF Carries, DropOk, Changing
<1>5. ASSUME NEW u \in User, u \notin late, cache[u] # NoAccess
      PROVE  Deleting(u)' \/ (holds'[u] = holds[u] /\ Live(u)' = Live(u))
  <2>1. CASE r \in holds[u]
    <3>1. Deleting(u)
      BY <2>1, <1>5, <1>c DEF AInv, DropOk
    <3> QED BY <3>1, <1>1, <1>c, DeletingKept
  <2>2. CASE r \notin holds[u]
    <3>1. holds'[u] = holds[u] /\ holds'[u] \cap grants' = holds[u] \cap grants
      BY <2>2, <1>m
    <3> QED BY <3>1, <1>u DEF Live
  <2> QED BY <2>1, <2>2
<1> QED BY <1>m, <1>2, <1>3, <1>4, <1>5, <1>c, <1>u, WriteKeeps

-----------------------------------------------------------------------------
(* Invalidation, expiry and failure.                                         *)

\* A step on the way of an invalidation leaves no stale entry that nobody is after.
LEMMA SettleKeeps ==
  ASSUME AInv, NEW c \in Clerk, at[c] \in {"find", "del"}, NEW label \in {"idle", "write", "del"},
         NEW locals \in Local \cup {NoAccess}, Move(c, label, locals),
         UNCHANGED <<account, holds, roles, grants, skewed, changes, faults>>,
         cache' \in [User -> Entry \cup {NoAccess}], late' \subseteq User,
         label # "idle" => /\ locals \in Local
                           /\ locals.alone = local[c].alone /\ locals.op = local[c].op,
         label = "write" => local[c].op.kind = "drop",
         DropOk(c)',
         \A u \in User : u \notin late' /\ cache'[u] # NoAccess =>
           /\ u \notin late /\ cache'[u] = cache[u]
           /\ Deleting(u) => Deleting(u)'
           /\ Finding(u) => Deleting(u)' \/ Finding(u)'
  PROVE  AInv'
<1>t. AccessTypeOK
  BY DEF AInv
<1>c. local[c] \in Local /\ local[c].op \in Op
      /\ (local[c].op.kind = "drop" => local[c].op.on # SuperAdmin)
  BY DEF AInv, Carries, Changing
<1>1. /\ at'[c] = label /\ local'[c] = locals
      /\ \A d \in Clerk : d # c => at'[d] = at[d] /\ local'[d] = local[d]
  BY <1>t, MoveFacts
<1>2. AccessTypeOK'
  <2>1. /\ at' \in [Clerk -> {"idle", "miss", "fill", "serve"} \cup Changing]
        /\ local' \in [Clerk -> Local \cup {NoAccess}]
    BY <1>t, MoveTyped DEF Labels, Changing
  <2> QED BY <2>1, <1>t DEF AccessTypeOK
<1>3. AdminRemains'
  BY DEF AInv, AdminRemains, Admins
<1>l. \A u \in User : Live(u)' = Live(u)
  BY DEF Live
<1>4. ASSUME NEW d \in Clerk PROVE Carries(d)' /\ Counted(d)' /\ FillOk(d)' /\ DropOk(d)'
  <2>1. CASE d = c
    <3>1. Carries(c)'
      BY <1>1, <1>c DEF Carries, Changing
    <3>2. Counted(c)' /\ FillOk(c)'
      BY <1>1 DEF Counted, FillOk, Harms
    <3> QED BY <2>1, <3>1, <3>2
  <2>2. CASE d # c
    <3>0. at'[d] = at[d] /\ local'[d] = local[d] /\ (local[d] \in Local => local[d].actor \in User)
      BY <2>2, <1>1 DEF Local
    <3>1. Carries(d)'
      BY <3>0 DEF AInv, Carries, Changing
    <3>2. Counted(d)'
      <4>1. Admins' = Admins
        BY DEF Admins
      <4> QED BY <3>0, <4>1 DEF AInv, Counted, Harms
    <3>3. FillOk(d)'
      <4>1. FillOk(d) /\ Carries(d)
        BY DEF AInv
      <4>2. at[d] = "fill" => local[d].actor \in User
        BY <3>0, <4>1 DEF Carries
      <4> QED BY <3>0, <1>l, <4>1, <4>2 DEF FillOk
    <3>4. DropOk(d)'
      BY <3>0 DEF AInv, DropOk
    <3> QED BY <3>1, <3>2, <3>3, <3>4
  <2> QED BY <2>1, <2>2
<1>5. \A d, e \in Clerk : d # e => Beside(d, e)'
  BY <1>1, BesideKept DEF AInv, Changing
<1>6. \A u \in User : StaleOk(u)'
  BY <1>l DEF AInv, StaleOk
<1> QED BY <1>2, <1>3, <1>4, <1>5, <1>6 DEF AInv

\* The end of an invalidation: RolesService.remove goes on to drop the role.
LEMMA AfterDelFacts ==
  ASSUME AInv, NEW c \in Clerk, at[c] \in {"find", "del"}, AfterDel(c)
  PROVE  \E label \in {"idle", "write"}, locals \in Local \cup {NoAccess} :
           /\ Move(c, label, locals)
           /\ at'[c] = label /\ local'[c] = locals
           /\ label # "idle" => /\ locals \in Local
                                /\ locals.alone = local[c].alone /\ locals.op = local[c].op
           /\ label = "write" => local[c].op.kind = "drop"
<1>t. AccessTypeOK
  BY DEF AInv
<1>c. local[c] \in Local
  BY DEF AInv, Carries
<1>1. CASE local[c].op.kind = "drop"
  <2> DEFINE w == [local[c] EXCEPT !.found = {}]
  <2>1. w \in Local /\ w.alone = local[c].alone /\ w.op = local[c].op
    BY <1>c, FoundSet
  <2>2. Move(c, "write", w)
    BY <1>1 DEF AfterDel
  <2> HIDE DEF w
  <2>3. at'[c] = "write" /\ local'[c] = w
    BY <1>t, <2>2, MoveFacts
  <2> QED BY <1>1, <2>1, <2>2, <2>3
<1>2. CASE local[c].op.kind # "drop"
  <2>1. Move(c, "idle", NoAccess)
    BY <1>2 DEF AfterDel, Done
  <2>2. at'[c] = "idle" /\ local'[c] = NoAccess
    BY <1>t, <2>1, MoveFacts
  <2> QED BY <2>1, <2>2
<1> QED BY <1>1, <1>2

\* Who holds the role is found, and their entries deleted next.
LEMMA FindKeeps ==
  ASSUME AInv, NEW c \in Clerk, Find(c) PROVE AInv'
<1> DEFINE r == local[c].op.on
           users == {u \in User : r \in holds[u]}
<1>t. AccessTypeOK
  BY DEF AInv
<1>c. at[c] = "find" /\ local[c] \in Local
  BY DEF Find, AInv, Carries
<1>u. UNCHANGED <<account, holds, roles, grants, cache, late, skewed, changes, faults>>
  BY DEF Find
<1>y. cache' \in [User -> Entry \cup {NoAccess}] /\ late' \subseteq User
  BY <1>u, <1>t DEF AccessTypeOK
<1>1. CASE users = {}
  <2>1. AfterDel(c)
    BY <1>1 DEF Find
  <2>2. PICK label \in {"idle", "write"}, locals \in Local \cup {NoAccess} :
           /\ Move(c, label, locals)
           /\ at'[c] = label /\ local'[c] = locals
           /\ label # "idle" => /\ locals \in Local
                                /\ locals.alone = local[c].alone /\ locals.op = local[c].op
           /\ label = "write" => local[c].op.kind = "drop"
    BY <2>1, <1>c, AfterDelFacts
  <2>3. DropOk(c)'
    BY <1>1, <2>2, <1>u DEF DropOk
  <2>m. \A d \in Clerk : d # c => at'[d] = at[d] /\ local'[d] = local[d]
    BY <1>t, <2>2, MoveFacts
  <2>4. ASSUME NEW u \in User
        PROVE  /\ Deleting(u) => Deleting(u)'
               /\ Finding(u) => Finding(u)'
    <3>1. local[c].op.on \notin holds[u]
      BY <1>1
    <3>2. Deleting(u) => Deleting(u)'
      BY <2>m, <1>c, DeletingKept
    <3>3. Finding(u) => Finding(u)'
      BY <2>m, <3>1, <1>u, FindingKept
    <3> QED BY <3>2, <3>3
  <2> QED BY <1>u, <1>y, <1>c, <2>2, <2>3, <2>4, SettleKeeps
<1>2. CASE users # {}
  <2> DEFINE w == [local[c] EXCEPT !.found = users]
  <2>w. /\ w \in Local /\ w.alone = local[c].alone /\ w.op = local[c].op
        /\ w.found = users
    BY <1>c, FoundSet
  <2>1. Move(c, "del", w)
    BY <1>2 DEF Find, Written
  <2> HIDE DEF w
  <2>m. /\ at'[c] = "del" /\ local'[c] = w
        /\ \A d \in Clerk : d # c => at'[d] = at[d] /\ local'[d] = local[d]
    BY <1>t, <2>1, MoveFacts
  <2>2. ASSUME NEW u \in User, local[c].op.on \in holds[u] PROVE Deleting(u)'
    <3>1. u \in local'[c].found
      BY <2>2, <2>m, <2>w
    <3> QED BY <3>1, <2>m DEF Deleting
  <2>3. DropOk(c)'
    BY <2>2, <2>m, <2>w, <1>u DEF DropOk
  <2>4. ASSUME NEW u \in User
        PROVE  /\ Deleting(u) => Deleting(u)'
               /\ Finding(u) => Deleting(u)' \/ Finding(u)'
    <3>1. Deleting(u) => Deleting(u)'
      BY <2>m, <1>c, DeletingKept
    <3>2. CASE local[c].op.on \in holds[u]
      BY <3>1, <3>2, <2>2
    <3>3. CASE local[c].op.on \notin holds[u]
      <4>1. Finding(u) => Finding(u)'
        BY <3>3, <2>m, <1>u, FindingKept
      <4> QED BY <3>1, <4>1
    <3> QED BY <3>2, <3>3
  <2> QED BY <1>u, <1>y, <1>c, <2>1, <2>w, <2>3, <2>4, SettleKeeps
<1> QED BY <1>1, <1>2

\* The entries found are deleted.
LEMMA DelKeeps ==
  ASSUME AInv, NEW c \in Clerk, Del(c) PROVE AInv'
<1>t. AccessTypeOK
  BY DEF AInv
<1>c. at[c] = "del" /\ local[c] \in Local
  BY DEF Del, AInv, Carries
<1>u. UNCHANGED <<account, holds, roles, grants, skewed, changes, faults>>
  BY DEF Del
<1>d. /\ cache' = [u \in User |-> IF u \in local[c].found THEN NoAccess ELSE cache[u]]
      /\ late' = late \ local[c].found
      /\ AfterDel(c)
  BY DEF Del
<1>y. cache' \in [User -> Entry \cup {NoAccess}] /\ late' \subseteq User
  BY <1>d, <1>t DEF AccessTypeOK
<1>2. PICK label \in {"idle", "write"}, locals \in Local \cup {NoAccess} :
         /\ Move(c, label, locals)
         /\ at'[c] = label /\ local'[c] = locals
         /\ label # "idle" => /\ locals \in Local
                              /\ locals.alone = local[c].alone /\ locals.op = local[c].op
         /\ label = "write" => local[c].op.kind = "drop"
  BY <1>d, <1>c, AfterDelFacts
<1>m. \A d \in Clerk : d # c => at'[d] = at[d] /\ local'[d] = local[d]
  BY <1>t, <1>2, MoveFacts
<1>3. ASSUME NEW u \in User, u \notin late', cache'[u] # NoAccess
      PROVE  /\ u \notin late /\ cache'[u] = cache[u]
             /\ Deleting(u) => Deleting(u)'
             /\ Finding(u) => Finding(u)'
  <2>1. u \notin local[c].found /\ cache'[u] = cache[u]
    BY <1>3, <1>d
  <2>2. u \notin late
    BY <1>3, <1>d, <2>1
  <2>3. Deleting(u) => Deleting(u)'
    BY <2>1, <1>m, DeletingKept
  <2>4. Finding(u) => Finding(u)'
    BY <1>c, <1>u, <1>m, FindingKept
  <2> QED BY <2>1, <2>2, <2>3, <2>4
<1>4. DropOk(c)'
  <2> SUFFICES ASSUME at'[c] \in {"del", "write"}, local'[c].op.kind = "drop",
                      NEW u \in User, local'[c].op.on \in holds'[u],
                      cache'[u] # NoAccess, u \notin late'
               PROVE  Deleting(u)'
    BY DEF DropOk
  <2>1. local'[c].op = local[c].op
    BY <1>2
  <2>2. Deleting(u)
    BY <2>1, <1>3, <1>c, <1>u DEF AInv, DropOk
  <2> QED BY <2>2, <1>3
<1> QED BY <1>u, <1>y, <1>c, <1>2, <1>3, <1>4, SettleKeeps

\* An entry expires.
LEMMA LapseKeeps ==
  ASSUME AInv, NEW u \in User, Lapse(u) PROVE AInv'
<1>t. AccessTypeOK
  BY DEF AInv
<1>u. /\ cache' = [cache EXCEPT ![u] = NoAccess] /\ late' = late \ {u}
      /\ UNCHANGED <<account, holds, roles, grants, at, local, skewed, changes, faults>>
  BY DEF Lapse
<1>1. AccessTypeOK'
  <2>1. cache' \in [User -> Entry \cup {NoAccess}] /\ late' \subseteq User
    BY <1>u, <1>t DEF AccessTypeOK
  <2> QED BY <2>1, <1>u, <1>t DEF AccessTypeOK
<1>2. AdminRemains'
  BY <1>u DEF AInv, AdminRemains, Admins
<1>l. \A v \in User : Live(v)' = Live(v) /\ Deleting(v)' = Deleting(v) /\ Finding(v)' = Finding(v)
  BY <1>u DEF Live, Deleting, Finding
<1>k. ASSUME NEW v \in User, v \notin late', cache'[v] # NoAccess
      PROVE  v \notin late /\ cache'[v] = cache[v]
  BY <1>k, <1>u, <1>t DEF AccessTypeOK
<1>3. ASSUME NEW d \in Clerk PROVE Carries(d)' /\ Counted(d)' /\ FillOk(d)' /\ DropOk(d)'
  <2>0. local[d] \in Local => local[d].actor \in User
    BY DEF Local
  <2>1. Carries(d)' /\ Counted(d)'
    BY <1>u DEF AInv, Carries, Counted, Harms, Admins
  <2>2. FillOk(d)'
    BY <2>0, <1>u, <1>l DEF AInv, FillOk, Carries
  <2>3. DropOk(d)'
    BY <1>u, <1>k, <1>l DEF AInv, DropOk
  <2> QED BY <2>1, <2>2, <2>3
<1>4. \A d, e \in Clerk : d # e => Beside(d, e)'
  BY <1>u DEF AInv, Beside
<1>5. \A v \in User : StaleOk(v)'
  BY <1>k, <1>l DEF AInv, StaleOk
<1> QED BY <1>1, <1>2, <1>3, <1>4, <1>5 DEF AInv

\* What a failed change leaves behind is late.
LEMMA FaultKeeps ==
  ASSUME AInv, NEW c \in Clerk, Fault(c) PROVE AInv'
<1>t. AccessTypeOK
  BY DEF AInv
<1>u. /\ UNCHANGED <<account, holds, roles, grants, cache, skewed, changes>>
      /\ late' = IF at[c] \in Changing THEN {u \in User : cache[u] # NoAccess} ELSE late
      /\ faults' = faults + 1
      /\ Move(c, "idle", NoAccess)
  BY DEF Fault, Done
<1>m. /\ at'[c] = "idle"
      /\ \A d \in Clerk : d # c => at'[d] = at[d] /\ local'[d] = local[d]
  BY <1>t, <1>u, MoveFacts
<1>1. AccessTypeOK'
  <2>1. late' \subseteq User /\ faults' \in Nat
    BY <1>u, <1>t DEF AccessTypeOK
  <2>2. /\ at' \in [Clerk -> {"idle", "miss", "fill", "serve"} \cup Changing]
        /\ local' \in [Clerk -> Local \cup {NoAccess}]
    BY <1>t, <1>u, MoveTyped DEF Labels
  <2> QED BY <2>1, <2>2, <1>u, <1>t DEF AccessTypeOK
<1>2. AdminRemains'
  BY <1>u DEF AInv, AdminRemains, Admins
<1>l. \A v \in User : Live(v)' = Live(v)
  BY <1>u DEF Live
<1>k. ASSUME NEW v \in User, v \notin late', cache[v] # NoAccess
      PROVE  /\ v \notin late
             /\ Deleting(v) => Deleting(v)'
             /\ Finding(v) => Finding(v)'
  <2>1. at[c] \notin Changing /\ late' = late
    BY <1>k, <1>u
  <2>2. Deleting(v) => Deleting(v)'
    BY <2>1, <1>m, DeletingKept DEF Changing
  <2>3. Finding(v) => Finding(v)'
    BY <2>1, <1>m, <1>u, FindingKept DEF Changing
  <2> QED BY <1>k, <2>1, <2>2, <2>3
<1>3. ASSUME NEW d \in Clerk PROVE Carries(d)' /\ Counted(d)' /\ FillOk(d)' /\ DropOk(d)'
  <2>1. CASE d = c
    BY <2>1, <1>m DEF Carries, Counted, FillOk, DropOk, Changing
  <2>2. CASE d # c
    <3>0. at'[d] = at[d] /\ local'[d] = local[d] /\ (local[d] \in Local => local[d].actor \in User)
      BY <2>2, <1>m DEF Local
    <3>1. Carries(d)'
      BY <3>0 DEF AInv, Carries, Changing
    <3>2. Counted(d)'
      BY <3>0, <1>u DEF AInv, Counted, Harms, Admins
    <3>3. FillOk(d)'
      BY <3>0, <1>l DEF AInv, FillOk, Carries
    <3>4. DropOk(d)'
      BY <3>0, <1>k, <1>u DEF AInv, DropOk
    <3> QED BY <3>1, <3>2, <3>3, <3>4
  <2> QED BY <2>1, <2>2
<1>4. \A d, e \in Clerk : d # e => Beside(d, e)'
  BY <1>m, BesideKept DEF AInv, Changing
<1>5. \A v \in User : StaleOk(v)'
  BY <1>k, <1>l, <1>u DEF AInv, StaleOk
<1> QED BY <1>1, <1>2, <1>3, <1>4, <1>5 DEF AInv

-----------------------------------------------------------------------------
(* The theorems.                                                             *)

\* The invariant holds at the start: nothing is cached and nobody is at work.
LEMMA AccessStart == AccessInit => AInv
<1> SUFFICES ASSUME AccessInit PROVE AInv
  OBVIOUS
<1>1. AccessTypeOK
  <2>1. holds \in [User -> SUBSET Role] /\ \A u \in User : holds[u] \subseteq roles
    BY AccessAssumption DEF AccessInit
  <2> QED BY <2>1, AccessAssumption DEF AccessInit, AccessTypeOK
<1>2. AdminRemains
  BY DEF AccessInit, AdminRemains, Admins
<1>3. \A c \in Clerk : Carries(c) /\ Counted(c) /\ FillOk(c) /\ DropOk(c)
  BY DEF AccessInit, Carries, Counted, FillOk, DropOk, Changing
<1>4. \A c, d \in Clerk : c # d => Beside(c, d)
  BY DEF AccessInit, Beside, Changing
<1>5. \A u \in User : StaleOk(u)
  BY DEF AccessInit, StaleOk
<1> QED BY <1>1, <1>2, <1>3, <1>4, <1>5 DEF AInv

\* A step in which nothing happens.
LEMMA AccessStutter ==
  ASSUME AInv, UNCHANGED accessVars PROVE AInv'
<1>u. UNCHANGED <<account, holds, roles, grants, cache, at, local, late, skewed, changes, faults>>
  BY DEF accessVars
<1>1. AccessTypeOK'
  BY <1>u DEF AInv, AccessTypeOK
<1>2. AdminRemains'
  BY <1>u DEF AInv, AdminRemains, Admins
<1>l. \A v \in User : Live(v)' = Live(v) /\ Deleting(v)' = Deleting(v) /\ Finding(v)' = Finding(v)
  BY <1>u DEF Live, Deleting, Finding
<1>3. ASSUME NEW d \in Clerk PROVE Carries(d)' /\ Counted(d)' /\ FillOk(d)' /\ DropOk(d)'
  <2>1. Carries(d)' /\ Counted(d)'
    BY <1>u DEF AInv, Carries, Counted, Harms, Admins
  <2>2. FillOk(d)'
    BY <1>u DEF AInv, FillOk, Live
  <2>3. DropOk(d)'
    BY <1>u, <1>l DEF AInv, DropOk
  <2> QED BY <2>1, <2>2, <2>3
<1>4. \A d, e \in Clerk : d # e => Beside(d, e)'
  BY <1>u DEF AInv, Beside
<1>5. \A v \in User : StaleOk(v)'
  BY <1>u, <1>l DEF AInv, StaleOk
<1> QED BY <1>1, <1>2, <1>3, <1>4, <1>5 DEF AInv

\* Every step keeps the invariant.
LEMMA AccessStep ==
  ASSUME AInv, [AccessNext]_accessVars PROVE AInv'
<1>1. ASSUME NEW c \in Clerk, Change(c) PROVE AInv'
  BY <1>1, UpdateStatusKeeps, AssignRolesKeeps, RemoveUserKeeps, SetPermissionsKeeps,
     RemoveRoleKeeps DEF Change
<1>2. ASSUME NEW c \in Clerk, Advance(c) PROVE AInv'
  BY <1>2, ReadKeeps, FillKeeps, ServeKeeps, CountKeeps, WriteStatusKeeps, WriteRolesKeeps,
     WriteRemoveKeeps, WriteGrantKeeps, WriteDropKeeps, FindKeeps, DelKeeps DEF Advance
<1>3. ASSUME NEW c \in Clerk, Fault(c) PROVE AInv'
  BY <1>3, FaultKeeps
<1>4. ASSUME NEW c \in Clerk, NEW u \in User, GuardHit(c, u) \/ GuardMiss(c, u) PROVE AInv'
  BY <1>4, GuardHitKeeps, GuardMissKeeps
<1>5. ASSUME NEW u \in User, Lapse(u) PROVE AInv'
  BY <1>5, LapseKeeps
<1>6. CASE UNCHANGED accessVars
  BY <1>6, AccessStutter
<1> QED BY <1>1, <1>2, <1>3, <1>4, <1>5, <1>6 DEF AccessNext

\* The inductive invariant: what every handler and every stale entry can count on.
THEOREM AccessInductive == AccessSafe => []AInv
<1>1. AccessInit => AInv
  BY AccessStart
<1>2. AInv /\ [AccessNext]_accessVars => AInv'
  BY AccessStep
<1> QED BY <1>1, <1>2, PTL DEF AccessSafe

\* Types: what is cached, what the handlers carry, and that users hold roles there are.
THEOREM AccessTypeCorrect == AccessSafe => []AccessTypeOK
<1>1. AInv => AccessTypeOK
  BY DEF AInv
<1> QED BY <1>1, AccessInductive, PTL

\* assertNotLastSuperAdmin: the last active super admin goes only in a change that
\* another one overlapped.
THEOREM AdminStays == AccessSafe => []AdminRemains
<1>1. AInv => AdminRemains
  BY DEF AInv
<1> QED BY <1>1, AccessInductive, PTL

\* invalidateUser and invalidateRole: while no change is under way, what is cached is what
\* the database says, unless it was read or written beside a change.
THEOREM CacheIsFresh == AccessSafe => []CacheFresh
<1>1. AInv => CacheFresh
  <2> SUFFICES ASSUME AInv, \A c \in Clerk : at[c] \notin Changing,
                      NEW u \in User \ late, cache[u] # NoAccess
               PROVE  cache[u] = Live(u)
    BY DEF CacheFresh
  <2>1. ~ Deleting(u) /\ ~ Finding(u)
    BY DEF Deleting, Finding, Changing
  <2> QED BY <2>1 DEF AInv, StaleOk
<1> QED BY <1>1, AccessInductive, PTL

-----------------------------------------------------------------------------
(* Codes. *)

CodesSpec == CodesInit /\ [][CodesNext]_codesVars

\* Handlers that will mark c used, that will count a wrong try of code i, and that mail one.
Holders(c)  == {d \in Door : step[d] \in {"consume", "spend"} /\ hand[d] = c}
Guessing(i) == {d \in Door : step[d] = "miscount" /\ hand[d] = i}
Mailing     == {d \in Door : step[d] = "mail"}

\* Handlers past the check of the lock, whose answer it is to count; that have a wrong answer
\* to count; and that have one to count or will set the lock.
Asking   == {d \in Door : step[d] \in {"password", "totp", "recovery"} /\ Keyed(step[d])}
Failing  == {d \in Door : step[d] = "fail"}
Counting == {d \in Door : step[d] \in {"fail", "lock"} \/ (step[d] = "expire" /\ hand[d] >= MaxFailures)}

Gone(c) == c \in spent \/ (c \in DOMAIN tokens /\ tokens[c].consumed)

HandOk ==
  \A d \in Door :
    /\ step[d] \in {"consume", "miscount"} => hand[d] \in DOMAIN tokens
    /\ step[d] = "spend" => hand[d] \in Recovery
    /\ step[d] = "expire" => hand[d] \in Nat

\* A code that was used is gone; until then nobody else but the holders will use it.
UsesOk ==
  \A c \in Code \cup Recovery :
    /\ uses[c] > 0 => Gone(c)
    /\ uses[c] + Cardinality(Holders(c)) <= Cardinality(Door)
    /\ c \notin contested => uses[c] + Cardinality(Holders(c)) <= 1

LiveOk == Cardinality(Unconsumed) + Cardinality(Mailing) <= Cardinality(Door)

AttemptsOk ==
  \A i \in DOMAIN tokens :
    tokens[i].attempts + Cardinality(Guessing(i)) <= MaxAttempts + Cardinality(Door) - 1

\* The wrong answers that the lockout has a key for are counted, about to be, or lost with a
\* handler; while there is no lock they are short of the limit, or somebody is about to set it.
TriesOk ==
  /\ Countable <= wrong + Cardinality(Failing) + breaks
  /\ Countable + Cardinality(Asking) <= MaxFailures - 1 + Cardinality(Door) + breaks
  /\ ~ locked => Countable <= MaxFailures - 1 + Cardinality(Counting) + breaks

CodesInv == CodesTypeOK /\ HandOk /\ UsesOk /\ LiveOk /\ AttemptsOk /\ TriesOk

-----------------------------------------------------------------------------
(* Counting handlers. *)

\* Two sets that differ at most by d differ in size by what d makes of it.
LEMMA OneMoves ==
  ASSUME NEW S, NEW T, NEW d, IsFiniteSet(S), S \ {d} = T \ {d}
  PROVE  /\ IsFiniteSet(T) /\ Cardinality(S) \in Nat /\ Cardinality(T) \in Nat
         /\ d \in S /\ d \in T => Cardinality(T) = Cardinality(S)
         /\ d \in S /\ d \notin T => Cardinality(T) = Cardinality(S) - 1
         /\ d \notin S /\ d \in T => Cardinality(T) = Cardinality(S) + 1
         /\ d \notin S /\ d \notin T => Cardinality(T) = Cardinality(S)
<1>1. IsFiniteSet(S \ {d}) /\ Cardinality(S \ {d}) \in Nat
  BY FS_RemoveElement, FS_CardinalityType
<1>2. d \in T => T = (S \ {d}) \cup {d}
  OBVIOUS
<1>3. d \notin T => T = S \ {d}
  OBVIOUS
<1>4. Cardinality(S) \in Nat
  BY FS_CardinalityType
<1>5. CASE d \in T
  <2>1. IsFiniteSet(T) /\ Cardinality(T) = Cardinality(S \ {d}) + 1
    <3>1. d \notin S \ {d}
      OBVIOUS
    <3>2. /\ IsFiniteSet((S \ {d}) \cup {d})
          /\ Cardinality((S \ {d}) \cup {d}) = Cardinality(S \ {d}) + 1
      BY <1>1, <3>1, FS_AddElement
    <3>3. QED
      BY <1>2, <1>5, <3>2
  <2>2. QED
    BY <1>1, <1>4, <1>5, <2>1, FS_RemoveElement
<1>6. CASE d \notin T
  BY <1>1, <1>3, <1>4, <1>6, FS_RemoveElement
<1>7. QED
  BY <1>5, <1>6

\* A set of handlers is finite, and so is a part of it.
LEMMA DoorsCount ==
  ASSUME NEW T \in SUBSET Door, NEW S \in SUBSET T
  PROVE  /\ IsFiniteSet(T) /\ IsFiniteSet(S)
         /\ Cardinality(Door) \in Nat /\ Cardinality(T) \in Nat /\ Cardinality(S) \in Nat
         /\ Cardinality(S) <= Cardinality(T) /\ Cardinality(T) <= Cardinality(Door)
<1>1. IsFiniteSet(Door)
  BY CodesAssumption
<1>2. IsFiniteSet(T) /\ Cardinality(T) <= Cardinality(Door)
  BY <1>1, FS_Subset
<1>3. IsFiniteSet(S) /\ Cardinality(S) <= Cardinality(T)
  BY <1>2, FS_Subset
<1>4. QED
  BY <1>1, <1>2, <1>3, FS_CardinalityType

\* Where a handler goes, and that the others stay.
LEMMA ToMoves ==
  ASSUME CodesTypeOK, NEW d \in Door, NEW label, NEW has, To(d, label, has)
  PROVE  /\ step'[d] = label /\ hand'[d] = has
         /\ \A e \in Door \ {d} : step'[e] = step[e] /\ hand'[e] = hand[e]
BY DEF CodesTypeOK, To

\* So that each set of handlers changes at most by the one that moves.
LEMMA SetsMove ==
  ASSUME CodesTypeOK, NEW d \in Door, NEW label, NEW has, To(d, label, has), email' = email
  PROVE  /\ \A c : Holders(c)' \ {d} = Holders(c) \ {d} /\ Guessing(c)' \ {d} = Guessing(c) \ {d}
         /\ Mailing' \ {d} = Mailing \ {d} /\ Asking' \ {d} = Asking \ {d}
         /\ Failing' \ {d} = Failing \ {d} /\ Counting' \ {d} = Counting \ {d}
BY ToMoves DEF Holders, Guessing, Mailing, Asking, Failing, Counting, Keyed

\* The limits are numbers.
LEMMA LimitsAre ==
  /\ MaxCode \in Nat /\ MaxGuess \in Nat /\ MaxBreak \in Nat
  /\ MaxAttempts \in Nat /\ MaxAttempts >= 1 /\ MaxFailures \in Nat /\ MaxFailures >= 1
BY CodesAssumption

\* They are sets of handlers, and finite.
LEMMA SetsCount ==
  /\ Cardinality(Door) \in Nat
  /\ \A c : IsFiniteSet(Holders(c)) /\ Cardinality(Holders(c)) \in Nat
              /\ Cardinality(Holders(c)) <= Cardinality(Door)
  /\ \A c : IsFiniteSet(Guessing(c)) /\ Cardinality(Guessing(c)) \in Nat
              /\ Cardinality(Guessing(c)) <= Cardinality(Door)
  /\ IsFiniteSet(Mailing) /\ Cardinality(Mailing) \in Nat /\ Cardinality(Mailing) <= Cardinality(Door)
  /\ IsFiniteSet(Asking) /\ Cardinality(Asking) \in Nat /\ Cardinality(Asking) <= Cardinality(Door)
  /\ IsFiniteSet(Failing) /\ Cardinality(Failing) \in Nat
  /\ IsFiniteSet(Counting) /\ Cardinality(Counting) \in Nat
<1>1. \A c : Holders(c) \subseteq Door /\ Guessing(c) \subseteq Door
  BY DEF Holders, Guessing
<1>2. /\ Mailing \subseteq Door /\ Asking \subseteq Door /\ Failing \subseteq Door
      /\ Counting \subseteq Door /\ Door \subseteq Door
  BY DEF Mailing, Asking, Failing, Counting
<1>3. QED
  BY <1>1, <1>2, DoorsCount

\* The same of the next state.
LEMMA SetsCountNext ==
  /\ \A c : IsFiniteSet(Holders(c)') /\ Cardinality(Holders(c)') \in Nat
              /\ Cardinality(Holders(c)') <= Cardinality(Door)
  /\ \A c : IsFiniteSet(Guessing(c)') /\ Cardinality(Guessing(c)') \in Nat
              /\ Cardinality(Guessing(c)') <= Cardinality(Door)
  /\ IsFiniteSet(Mailing') /\ Cardinality(Mailing') \in Nat /\ Cardinality(Mailing') <= Cardinality(Door)
  /\ IsFiniteSet(Asking') /\ Cardinality(Asking') \in Nat /\ Cardinality(Asking') <= Cardinality(Door)
  /\ IsFiniteSet(Failing') /\ Cardinality(Failing') \in Nat
  /\ IsFiniteSet(Counting') /\ Cardinality(Counting') \in Nat
<1>1. \A c : Holders(c)' \subseteq Door /\ Guessing(c)' \subseteq Door
  BY DEF Holders, Guessing
<1>2. /\ Mailing' \subseteq Door /\ Asking' \subseteq Door /\ Failing' \subseteq Door
      /\ Counting' \subseteq Door /\ Door \subseteq Door
  BY DEF Mailing, Asking, Failing, Counting
<1>3. QED
  BY <1>1, <1>2, DoorsCount

-----------------------------------------------------------------------------
(* The tokens. *)

\* The indexes of the tokens are codes; those unconsumed are finitely many.
LEMMA TokensAre ==
  ASSUME CodesTypeOK
  PROVE  /\ Len(tokens) \in Nat /\ DOMAIN tokens = 1 .. Len(tokens) /\ DOMAIN tokens \subseteq Code
         /\ \A i \in DOMAIN tokens : tokens[i] \in Token
         /\ Unconsumed \subseteq DOMAIN tokens /\ IsFiniteSet(DOMAIN tokens)
         /\ IsFiniteSet(Unconsumed) /\ Cardinality(Unconsumed) \in Nat
<1>1. Len(tokens) \in Nat /\ DOMAIN tokens = 1 .. Len(tokens) /\ Len(tokens) <= MaxCode
  BY LenProperties DEF CodesTypeOK
<1>2. \A i \in DOMAIN tokens : tokens[i] \in Token
  BY <1>1, ElementOfSeq DEF CodesTypeOK
<1>3. DOMAIN tokens \subseteq Code
  BY <1>1, CodesAssumption DEF Code
<1>4. Unconsumed \subseteq DOMAIN tokens
  BY DEF Unconsumed
<1>5. IsFiniteSet(DOMAIN tokens)
  BY <1>1, FS_Interval
<1>6. IsFiniteSet(Unconsumed) /\ Cardinality(Unconsumed) \in Nat
  BY <1>4, <1>5, FS_Subset, FS_CardinalityType
<1>7. QED
  BY <1>1, <1>2, <1>3, <1>4, <1>5, <1>6

\* A set of numbers that are not above n has a greatest.
LEMMA GreatestExists ==
  ASSUME NEW n \in Nat, NEW S \in SUBSET (0 .. n), S # {}
  PROVE  \E i \in S : \A j \in S : j <= i
<1> DEFINE T == {n - i : i \in S}
<1>1. T \subseteq Nat /\ T # {}
  <2>1. \A i \in S : n - i \in Nat
    OBVIOUS
  <2>2. QED
    BY <2>1
<1>2. PICK x \in T : \A y \in T : <<y, x>> \notin OpToRel(<, Nat)
  BY <1>1, NatLessThanWellFounded, WFMin
<1>3. \A y \in T : ~ (y < x)
  BY <1>1, <1>2 DEF OpToRel
<1>4. PICK i \in S : x = n - i
  OBVIOUS
<1>5. \A j \in S : n - j \in T
  OBVIOUS
<1>6. \A j \in S : j <= i
  <2> SUFFICES ASSUME NEW j \in S, i < j PROVE FALSE
    OBVIOUS
  <2>1. n - j \in T /\ n - j < x
    BY <1>4, <1>5
  <2>2. QED
    BY <1>3, <2>1
<1>7. QED
  BY <1>6

\* Where there is an unconsumed code there is a latest.
LEMMA LatestIs ==
  ASSUME CodesTypeOK, Unconsumed # {}
  PROVE  Latest \in Unconsumed
<1>1. Unconsumed \subseteq 0 .. Len(tokens) /\ Len(tokens) \in Nat
  BY TokensAre
<1>2. \E i \in Unconsumed : \A j \in Unconsumed : j <= i
  BY <1>1, GreatestExists
<1>3. QED
  BY <1>2 DEF Latest

-----------------------------------------------------------------------------
(* Steps that are none of one part's business. *)

\* The labels at which a handler is about to change a code, or the lock.
CodeLabels == {"mail", "consume", "miscount", "spend"}
AskLabels  == {"password", "totp", "recovery"}
LockLabels == {"fail", "expire", "lock"}

\* The parts of the invariant that are about codes.
CodePart == HandOk /\ UsesOk /\ LiveOk /\ AttemptsOk

\* A code in hand stays what it is as long as no token goes.
LEMMA HandMoves ==
  ASSUME CodesTypeOK, HandOk, NEW d \in Door, NEW label, NEW has, To(d, label, has),
         DOMAIN tokens \subseteq DOMAIN tokens',
         label \in {"consume", "miscount"} => has \in DOMAIN tokens,
         label = "spend" => has \in Recovery, label = "expire" => has \in Nat
  PROVE  HandOk'
BY ToMoves DEF HandOk

\* No code is used, and no handler is new to one.
LEMMA UsesStay ==
  ASSUME UsesOk, uses' = uses, contested \subseteq contested', \A c : Gone(c) => Gone(c)',
         \A c : Holders(c)' \subseteq Holders(c), uses \in [Code \cup Recovery -> Nat]
  PROVE  UsesOk'
<1> SUFFICES ASSUME NEW c \in Code \cup Recovery
             PROVE  /\ uses[c] > 0 => Gone(c)'
                    /\ uses[c] + Cardinality(Holders(c)') <= Cardinality(Door)
                    /\ c \notin contested' => uses[c] + Cardinality(Holders(c)') <= 1
  BY DEF UsesOk
<1>1. /\ Cardinality(Holders(c)') \in Nat /\ Cardinality(Holders(c)) \in Nat
      /\ Cardinality(Holders(c)') <= Cardinality(Holders(c)) /\ Cardinality(Door) \in Nat
  BY SetsCount, SetsCountNext, FS_Subset
<1>2. uses[c] \in Nat
  OBVIOUS
<1>3. QED
  BY <1>1, <1>2 DEF UsesOk

\* No code becomes good, and no handler is new to mailing one.
LEMMA LiveStays ==
  ASSUME CodesTypeOK, LiveOk, Unconsumed' \subseteq Unconsumed, Mailing' \subseteq Mailing
  PROVE  LiveOk'
<1>1. /\ Cardinality(Unconsumed') \in Nat /\ Cardinality(Unconsumed) \in Nat
      /\ Cardinality(Unconsumed') <= Cardinality(Unconsumed)
  BY TokensAre, FS_Subset, FS_CardinalityType
<1>2. /\ Cardinality(Mailing') \in Nat /\ Cardinality(Mailing) \in Nat
      /\ Cardinality(Mailing') <= Cardinality(Mailing) /\ Cardinality(Door) \in Nat
  BY SetsCount, SetsCountNext, FS_Subset
<1>3. QED
  BY <1>1, <1>2 DEF LiveOk

\* No wrong try is counted, and none is new.
LEMMA AttemptsStay ==
  ASSUME CodesTypeOK, AttemptsOk, DOMAIN tokens' = DOMAIN tokens,
         \A i \in DOMAIN tokens : tokens'[i].attempts = tokens[i].attempts,
         \A c : Guessing(c)' \subseteq Guessing(c)
  PROVE  AttemptsOk'
<1> SUFFICES ASSUME NEW i \in DOMAIN tokens
             PROVE  tokens[i].attempts + Cardinality(Guessing(i)')
                      <= MaxAttempts + Cardinality(Door) - 1
  BY DEF AttemptsOk
<1>1. /\ Cardinality(Guessing(i)') \in Nat /\ Cardinality(Guessing(i)) \in Nat
      /\ Cardinality(Guessing(i)') <= Cardinality(Guessing(i)) /\ Cardinality(Door) \in Nat
  BY SetsCount, SetsCountNext, FS_Subset
<1>2. tokens[i].attempts \in Nat /\ MaxAttempts \in Nat
  BY TokensAre, CodesAssumption DEF Token
<1>3. QED
  BY <1>1, <1>2 DEF AttemptsOk

\* The answers of a login are not about codes.
LEMMA CodesStay ==
  ASSUME CodesTypeOK, CodePart, NEW d \in Door, NEW label, NEW has, To(d, label, has),
         label \notin CodeLabels, label = "expire" => has \in Nat,
         UNCHANGED <<tokens, uses, contested, spent>>
  PROVE  CodePart'
<1>1. HandOk'
  BY HandMoves DEF CodePart, CodeLabels
<1>2. /\ \A c : Holders(c)' \subseteq Holders(c) /\ Guessing(c)' \subseteq Guessing(c)
      /\ Mailing' \subseteq Mailing
  BY ToMoves DEF Holders, Guessing, Mailing, CodeLabels
<1>3. Unconsumed' = Unconsumed /\ \A c : Gone(c) => Gone(c)'
  BY DEF Unconsumed, Gone
<1>4. QED
  BY <1>1, <1>2, <1>3, UsesStay, LiveStays, AttemptsStay DEF CodePart, CodesTypeOK

\* Mailed codes are not about the lock.
LEMMA TriesStay ==
  ASSUME CodesTypeOK, TriesOk, NEW d \in Door, NEW label, NEW has, To(d, label, has),
         step[d] \notin LockLabels, label \notin LockLabels \cup AskLabels,
         UNCHANGED <<email, wrong, locked, pastTries, breaks>>
  PROVE  TriesOk'
<1>1. Failing' = Failing /\ Counting' = Counting /\ Asking' \subseteq Asking
  BY ToMoves DEF Failing, Counting, Asking, Keyed, LockLabels, AskLabels
<1>2. /\ Cardinality(Asking') \in Nat /\ Cardinality(Asking) \in Nat
      /\ Cardinality(Asking') <= Cardinality(Asking) /\ Cardinality(Door) \in Nat
      /\ Cardinality(Failing) \in Nat /\ Cardinality(Counting) \in Nat
  BY <1>1, SetsCount, SetsCountNext, FS_Subset
<1>3. {Countable, breaks, wrong, MaxFailures} \subseteq Nat /\ Countable' = Countable
  BY CodesAssumption DEF CodesTypeOK, Countable, pastTries
<1>4. QED
  BY <1>1, <1>2, <1>3 DEF TriesOk

-----------------------------------------------------------------------------
(* Type correctness. *)

DoorPc == {"idle", "issue", "mail", "consume", "miscount", "verify", "password",
           "totp", "recovery", "spend", "fail", "expire", "lock", "reset"}

\* What the steps change but for the handlers has its type.
RestTypeOK ==
  /\ tokens \in Seq(Token) /\ Len(tokens) <= MaxCode
  /\ email \in BOOLEAN /\ verified \in BOOLEAN /\ pending \in BOOLEAN
  /\ wrong \in Nat /\ timed \in BOOLEAN /\ locked \in BOOLEAN /\ (timed => wrong > 0)
  /\ spent \subseteq Recovery
  /\ uses \in [Code \cup Recovery -> Nat]
  /\ contested \subseteq Code \cup Recovery
  /\ tries \in Nat /\ misses \in Nat /\ guesses \in Nat /\ breaks \in Nat

\* The two halves of the type invariant.
LEMMA CodesTypeHalves ==
  CodesTypeOK <=> RestTypeOK /\ step \in [Door -> DoorPc] /\ hand \in [Door -> Nat \cup Recovery]
BY DEF CodesTypeOK, RestTypeOK, DoorPc

\* The same of the next state.
LEMMA CodesTypeHalvesNext ==
  CodesTypeOK' <=> RestTypeOK' /\ step' \in [Door -> DoorPc] /\ hand' \in [Door -> Nat \cup Recovery]
BY DEF CodesTypeOK, RestTypeOK, DoorPc, Code, Token

\* A handler that goes on keeps the types.
LEMMA ToTypes ==
  ASSUME CodesTypeOK, NEW d \in Door, NEW label \in DoorPc, NEW has \in Nat \cup Recovery,
         To(d, label, has)
  PROVE  step' \in [Door -> DoorPc] /\ hand' \in [Door -> Nat \cup Recovery]
BY CodesTypeHalves DEF To

\* A change of one token, and of all.
LEMMA TokenTypes ==
  ASSUME CodesTypeOK
  PROVE  /\ \A i \in DOMAIN tokens : \A t \in Token :
              /\ [tokens EXCEPT ![i] = t] \in Seq(Token) /\ Len([tokens EXCEPT ![i] = t]) = Len(tokens)
              /\ DOMAIN [tokens EXCEPT ![i] = t] = DOMAIN tokens
              /\ [tokens EXCEPT ![i] = t][i] = t
              /\ \A j \in DOMAIN tokens \ {i} : [tokens EXCEPT ![i] = t][j] = tokens[j]
         /\ \A f \in [DOMAIN tokens -> Token] : f \in Seq(Token) /\ Len(f) = Len(tokens)
<1>1. tokens \in Seq(Token) /\ DOMAIN tokens = 1 .. Len(tokens) /\ Len(tokens) \in Nat
  BY TokensAre DEF CodesTypeOK
<1>2. ASSUME NEW f \in [DOMAIN tokens -> Token] PROVE f \in Seq(Token) /\ Len(f) = Len(tokens)
  <2>1. f \in Seq(Token)
    BY <1>1, <1>2, SeqDef
  <2>2. Len(f) \in Nat /\ DOMAIN f = 1 .. Len(f)
    BY <2>1, LenProperties
  <2>3. QED
    BY <1>1, <1>2, <2>1, <2>2
<1>3. ASSUME NEW i \in DOMAIN tokens, NEW t \in Token
      PROVE  /\ [tokens EXCEPT ![i] = t] \in Seq(Token)
             /\ Len([tokens EXCEPT ![i] = t]) = Len(tokens)
             /\ DOMAIN [tokens EXCEPT ![i] = t] = DOMAIN tokens
             /\ [tokens EXCEPT ![i] = t][i] = t
             /\ \A j \in DOMAIN tokens \ {i} : [tokens EXCEPT ![i] = t][j] = tokens[j]
  BY <1>1, ExceptSeq
<1>4. QED
  BY <1>2, <1>3


\* What is left to show of a step that is about codes.
LEMMA CodeSide ==
  ASSUME CodesInv, NEW d \in Door, NEW label \in DoorPc, NEW has \in Nat \cup Recovery,
         To(d, label, has), step[d] \notin LockLabels, label \notin LockLabels \cup AskLabels,
         UNCHANGED <<email, wrong, locked, pastTries, breaks>>, RestTypeOK', CodePart'
  PROVE  CodesInv'
<1>1. CodesTypeOK /\ TriesOk
  BY DEF CodesInv
<1>2. CodesTypeOK'
  BY <1>1, ToTypes, CodesTypeHalvesNext
<1>3. TriesOk'
  BY <1>1, TriesStay
<1>4. QED
  BY <1>2, <1>3 DEF CodesInv, CodePart

\* And of one that is about the answers of a login.
LEMMA LockSide ==
  ASSUME CodesInv, NEW d \in Door, NEW label \in DoorPc, NEW has \in Nat \cup Recovery,
         To(d, label, has), label \notin CodeLabels, label = "expire" => has \in Nat,
         UNCHANGED <<tokens, uses, contested, spent>>, RestTypeOK', TriesOk'
  PROVE  CodesInv'
<1>1. CodesTypeOK /\ CodePart
  BY DEF CodesInv, CodePart
<1>2. CodesTypeOK'
  BY <1>1, ToTypes, CodesTypeHalvesNext
<1>3. CodePart'
  BY <1>1, CodesStay
<1>4. QED
  BY <1>2, <1>3 DEF CodesInv, CodePart

\* One that is about neither.
LEMMA NeitherSide ==
  ASSUME CodesInv, NEW d \in Door, NEW label \in DoorPc, NEW has \in Nat \cup Recovery,
         To(d, label, has), step[d] \notin LockLabels,
         label \notin CodeLabels \cup LockLabels \cup AskLabels,
         UNCHANGED <<tokens, uses, contested, spent, email, wrong, locked, pastTries, breaks>>, RestTypeOK'
  PROVE  CodesInv'
<1>1. CodesTypeOK /\ CodePart
  BY DEF CodesInv, CodePart
<1>2. CodePart'
  BY <1>1, CodesStay DEF LockLabels
<1>3. QED
  BY <1>2, CodeSide

-----------------------------------------------------------------------------
(* issue. *)

\* A code is asked for, an address or a password or a code is right.
LEMMA PlainKeeps ==
  ASSUME CodesInv, NEW d \in Door, Resend(d) \/ Verify(d) \/ PasswordRight(d) \/ TotpRight(d)
  PROVE  CodesInv'
<1> USE DEF codeVars, lockVars, pastVars, CodeLabels, LockLabels, AskLabels, DoorPc, End
<1>0. RestTypeOK
  BY CodesTypeHalves DEF CodesInv
<1>1. CASE Resend(d)
  <2>1. RestTypeOK'
    BY <1>0, <1>1 DEF Resend, RestTypeOK, Code, pastTries
  <2>2. QED
    BY <1>1, <2>1, NeitherSide DEF Resend
<1>2. CASE Verify(d)
  <2>1. RestTypeOK'
    BY <1>0, <1>2 DEF Verify, RestTypeOK, Code, pastTries
  <2>2. QED
    BY <1>2, <2>1, NeitherSide DEF Verify
<1>3. CASE PasswordRight(d)
  <2>1. RestTypeOK'
    BY <1>0, <1>3 DEF PasswordRight, RestTypeOK, Code, pastTries
  <2>2. To(d, "idle", 0) \/ To(d, "issue", 0) \/ To(d, "reset", 0)
    BY <1>3 DEF PasswordRight
  <2>3. QED
    BY <1>3, <2>1, <2>2, NeitherSide DEF PasswordRight
<1>4. CASE TotpRight(d)
  <2>1. RestTypeOK'
    BY <1>0, <1>4 DEF TotpRight, RestTypeOK, Code, pastTries
  <2>2. To(d, "idle", 0) \/ To(d, "reset", 0)
    BY <1>4 DEF TotpRight, Admit
  <2>3. QED
    BY <1>4, <2>1, <2>2, NeitherSide DEF TotpRight
<1>5. QED
  BY <1>1, <1>2, <1>3, <1>4

\* Who mails a code has made every other void.
LEMMA IssueConsumeKeeps == ASSUME CodesInv, NEW d \in Door, IssueConsume(d) PROVE CodesInv'
<1> USE DEF IssueConsume, lockVars, pastVars
<1>0. CodesTypeOK /\ CodePart /\ RestTypeOK
  BY CodesTypeHalves DEF CodesInv, CodePart
<1>1. /\ tokens' \in [DOMAIN tokens -> Token] /\ DOMAIN tokens' = DOMAIN tokens
      /\ \A i \in DOMAIN tokens : /\ tokens'[i].consumed
                                  /\ tokens'[i].attempts = tokens[i].attempts
  <2>1. \A i \in DOMAIN tokens :
          /\ [tokens[i] EXCEPT !.consumed = TRUE] \in Token
          /\ [tokens[i] EXCEPT !.consumed = TRUE].consumed
          /\ [tokens[i] EXCEPT !.consumed = TRUE].attempts = tokens[i].attempts
    BY <1>0, TokensAre DEF Token
  <2>2. tokens' = [i \in DOMAIN tokens |-> [tokens[i] EXCEPT !.consumed = TRUE]]
    OBVIOUS
  <2>3. QED
    BY <2>1, <2>2
<1>2. RestTypeOK'
  BY <1>0, <1>1, TokenTypes DEF RestTypeOK, Code, pastTries
<1>3. CodePart'
  <2>1. HandOk'
    BY <1>0, <1>1, HandMoves DEF CodePart
  <2>2. /\ \A c : Holders(c)' \subseteq Holders(c) /\ Guessing(c)' \subseteq Guessing(c)
    BY <1>0, ToMoves DEF Holders, Guessing
  <2>3. \A c : Gone(c) => Gone(c)'
    BY <1>1 DEF Gone
  <2>4. UsesOk' /\ AttemptsOk'
    BY <1>0, <1>1, <2>2, <2>3, UsesStay, AttemptsStay DEF CodePart, CodesTypeOK
  <2>5. LiveOk'
    <3>1. Unconsumed' = {}
      BY <1>1 DEF Unconsumed
    <3>2. Cardinality(Unconsumed') = 0
      BY <3>1, FS_EmptySet
    <3>3. QED
      BY <3>2, SetsCount, SetsCountNext DEF LiveOk
  <2>6. QED
    BY <2>1, <2>4, <2>5 DEF CodePart
<1>4. QED
  BY <1>2, <1>3, CodeSide DEF LockLabels, AskLabels, DoorPc

\* A code that is mailed takes the place of the one that was about to be.
LEMMA IssueCreateKeeps == ASSUME CodesInv, NEW d \in Door, IssueCreate(d) PROVE CodesInv'
<1> USE DEF IssueCreate, lockVars, pastVars, End
<1> DEFINE n == Len(tokens) + 1
<1>0. CodesTypeOK /\ CodePart /\ RestTypeOK
  BY CodesTypeHalves DEF CodesInv, CodePart
<1>1. /\ Len(tokens) \in Nat /\ DOMAIN tokens = 1 .. Len(tokens)
      /\ tokens' \in Seq(Token) /\ Len(tokens') = n /\ DOMAIN tokens' = 1 .. n
      /\ \A i \in DOMAIN tokens : tokens'[i] = tokens[i]
      /\ tokens'[n] = [consumed |-> FALSE, expired |-> FALSE, attempts |-> 0]
  <2>1. [consumed |-> FALSE, expired |-> FALSE, attempts |-> 0] \in Token
    BY DEF Token
  <2>2. Len(tokens) \in Nat /\ DOMAIN tokens = 1 .. Len(tokens) /\ tokens \in Seq(Token)
    BY <1>0, TokensAre DEF CodesTypeOK
  <2>3. QED
    BY <2>1, <2>2
<1>2. RestTypeOK'
  BY <1>0, <1>1, CodesAssumption DEF RestTypeOK, Code, pastTries
<1>3. CodePart'
  <2>1. HandOk'
    BY <1>0, <1>1, HandMoves DEF CodePart
  <2>2. /\ \A c : Holders(c)' \subseteq Holders(c) /\ Guessing(c)' \subseteq Guessing(c)
    BY <1>0, ToMoves DEF Holders, Guessing
  <2>3. UsesOk'
    <3>1. \A c : Gone(c) => Gone(c)'
      BY <1>1 DEF Gone
    <3>2. QED
      BY <1>0, <2>2, <3>1, UsesStay DEF CodePart, CodesTypeOK
  <2>4. AttemptsOk'
    <3> SUFFICES ASSUME NEW i \in DOMAIN tokens'
                 PROVE  tokens'[i].attempts + Cardinality(Guessing(i)')
                          <= MaxAttempts + Cardinality(Door) - 1
      BY DEF AttemptsOk
    <3>1. Cardinality(Guessing(i)') <= Cardinality(Guessing(i))
      BY <2>2, SetsCount, FS_Subset
    <3>2. CASE i \in DOMAIN tokens
      <4>1. tokens'[i].attempts = tokens[i].attempts /\ tokens[i].attempts \in Nat
        BY <1>0, <1>1, <3>2, TokensAre DEF Token
      <4>2. tokens[i].attempts + Cardinality(Guessing(i)) <= MaxAttempts + Cardinality(Door) - 1
        BY <1>0, <3>2 DEF AttemptsOk, CodePart
      <4>3. QED
        <5>1. /\ Cardinality(Guessing(i)) \in Nat /\ Cardinality(Guessing(i)') \in Nat
              /\ Cardinality(Door) \in Nat
          BY SetsCount, SetsCountNext
        <5>2. QED
          BY <3>1, <4>1, <4>2, <5>1, LimitsAre
    <3>3. CASE i = n
      <4>1. Guessing(i)' = {}
        <5>1. i \notin DOMAIN tokens
          BY <1>1, <3>3
        <5>2. Guessing(i) = {}
          BY <1>0, <5>1 DEF Guessing, HandOk, CodePart
        <5>3. QED
          BY <2>2, <5>2
      <4>2. Cardinality(Guessing(i)') = 0
        BY <4>1, FS_EmptySet
      <4>3. Cardinality(Door) # 0
        BY FS_EmptySet, CodesAssumption
      <4>4. QED
        <5>1. tokens'[i].attempts = 0
          BY <1>1, <3>3
        <5>2. Cardinality(Door) \in Nat
          BY SetsCount
        <5>3. QED
          BY <3>3, <4>2, <4>3, <5>1, <5>2, LimitsAre
    <3>4. QED
      BY <1>1, <3>2, <3>3
  <2>5. LiveOk'
    <3>1. Unconsumed' = Unconsumed \cup {n} /\ n \notin Unconsumed
      BY <1>1 DEF Unconsumed
    <3>2. Cardinality(Unconsumed') = Cardinality(Unconsumed) + 1
      BY <1>0, <3>1, TokensAre, FS_AddElement
    <3>3. d \in Mailing /\ d \notin Mailing' /\ Mailing' \ {d} = Mailing \ {d}
      BY <1>0, ToMoves, SetsMove DEF Mailing
    <3>4. Cardinality(Mailing') = Cardinality(Mailing) - 1
      BY <3>3, SetsCount, OneMoves
    <3>5. QED
      BY <1>0, <3>2, <3>4, SetsCount, TokensAre DEF LiveOk, CodePart
  <2>6. QED
    BY <2>1, <2>3, <2>4, <2>5 DEF CodePart
<1>4. QED
  BY <1>2, <1>3, CodeSide DEF LockLabels, AskLabels, DoorPc

-----------------------------------------------------------------------------
(* consume, and the recovery codes. *)

\* A code that is not gone is taken in hand; if somebody has it already, it is contested.
LEMMA TakeUses ==
  ASSUME CodesTypeOK, HandOk, UsesOk, NEW d \in Door, NEW code \in Code \cup Recovery, ~ Gone(code),
         NEW label, \/ label = "consume" /\ code \in Code
                    \/ label = "spend" /\ code \in Recovery,
         Take(d, label, code), step[d] \notin {"consume", "spend"},
         UNCHANGED <<tokens, spent, uses>>
  PROVE  UsesOk'
<1>0. /\ To(d, label, code) /\ contested \subseteq contested'
      /\ code \notin contested' => \A e \in Door \ {d} : ~ (step[e] = label /\ hand[e] = code)
  BY DEF Take
<1> SUFFICES ASSUME NEW c \in Code \cup Recovery
             PROVE  /\ uses[c] > 0 => Gone(c)
                    /\ uses[c] + Cardinality(Holders(c)') <= Cardinality(Door)
                    /\ c \notin contested' => uses[c] + Cardinality(Holders(c)') <= 1
  BY DEF UsesOk, Gone
<1>1. uses[c] \in Nat
  BY DEF CodesTypeOK
<1>2. CASE c # code
  <2>1. Holders(c)' \subseteq Holders(c)
    BY <1>0, <1>2, ToMoves DEF Holders
  <2>2. Cardinality(Holders(c)') <= Cardinality(Holders(c))
    BY <2>1, SetsCount, FS_Subset
  <2>3. QED
    BY <1>0, <1>1, <2>2, SetsCount, SetsCountNext DEF UsesOk
<1>3. CASE c = code
  <2>1. uses[c] = 0
    BY <1>1, <1>3 DEF UsesOk
  <2>2. Cardinality(Holders(c)') \in Nat /\ Cardinality(Holders(c)') <= Cardinality(Door)
    BY SetsCountNext
  <2>3. ASSUME c \notin contested' PROVE Cardinality(Holders(c)') <= 1
    <3>1. \A e \in Door \ {d} : ~ (step[e] \in {"consume", "spend"} /\ hand[e] = c)
      <4> SUFFICES ASSUME NEW e \in Door \ {d}, step[e] \in {"consume", "spend"}, hand[e] = c
                   PROVE  FALSE
        OBVIOUS
      <4>1. step[e] = label
        BY <1>3, TokensAre, CodesAssumption DEF HandOk, Code
      <4>2. QED
        BY <1>0, <1>3, <2>3, <4>1
    <3>2. Holders(c)' \subseteq {d}
      BY <1>0, <3>1, ToMoves DEF Holders
    <3>3. Cardinality(Holders(c)') <= Cardinality({d}) /\ Cardinality({d}) = 1
      BY <3>2, FS_Singleton, FS_Subset
    <3>4. QED
      BY <2>2, <3>3
  <2>4. QED
    BY <2>1, <2>2, <2>3
<1>4. QED
  BY <1>2, <1>3

\* Who has a code in hand marks it used: one use more, one holder less.
LEMMA UseUses ==
  ASSUME CodesTypeOK, UsesOk, NEW d \in Door, step[d] \in {"consume", "spend"},
         \A c : d \notin Holders(c)' /\ Holders(c)' \ {d} = Holders(c) \ {d},
         hand[d] \in Code \cup Recovery, uses' = [uses EXCEPT ![hand[d]] = @ + 1],
         contested' = contested, \A c : Gone(c) \/ c = hand[d] => Gone(c)'
  PROVE  UsesOk'
<1> SUFFICES ASSUME NEW c \in Code \cup Recovery
             PROVE  /\ uses'[c] > 0 => Gone(c)'
                    /\ uses'[c] + Cardinality(Holders(c)') <= Cardinality(Door)
                    /\ c \notin contested => uses'[c] + Cardinality(Holders(c)') <= 1
  BY DEF UsesOk
<1>1. uses[c] \in Nat /\ uses'[c] = IF c = hand[d] THEN uses[c] + 1 ELSE uses[c]
  BY DEF CodesTypeOK
<1>2. d \notin Holders(c)' /\ Holders(c)' \ {d} = Holders(c) \ {d}
  OBVIOUS
<1>3. Cardinality(Door) \in Nat
  BY SetsCount
<1>4. CASE c = hand[d]
  <2>1. d \in Holders(c)
    BY <1>4 DEF Holders
  <2>2. Cardinality(Holders(c)') = Cardinality(Holders(c)) - 1
    BY <1>2, <2>1, SetsCount, OneMoves
  <2>3. Cardinality(Holders(c)) \in Nat
    BY SetsCount
  <2>4. QED
    BY <1>1, <1>3, <1>4, <2>2, <2>3 DEF UsesOk
<1>5. CASE c # hand[d]
  <2>1. d \notin Holders(c)
    BY <1>5 DEF Holders
  <2>2. Cardinality(Holders(c)') = Cardinality(Holders(c))
    BY <1>2, <2>1, SetsCount, OneMoves
  <2>3. QED
    BY <1>1, <1>5, <2>2 DEF UsesOk
<1>6. QED
  BY <1>4, <1>5

\* The latest code is not gone, and a wrong try of it may be counted.
LEMMA LatestStands ==
  ASSUME CodesTypeOK, Unconsumed # {}, Stands(Latest)
  PROVE  /\ Latest \in DOMAIN tokens /\ Latest \in Code /\ Latest \in Nat /\ ~ Gone(Latest)
         /\ tokens[Latest].attempts \in Nat /\ tokens[Latest].attempts < MaxAttempts
<1>1. Latest \in Unconsumed
  BY LatestIs
<1>2. Latest \in DOMAIN tokens /\ Latest \in Code /\ Latest \in Nat
  BY <1>1, TokensAre DEF Code
<1>3. Latest \notin spent
  BY <1>2, CodesAssumption DEF CodesTypeOK
<1>4. QED
  BY <1>1, <1>2, <1>3, TokensAre DEF Gone, Unconsumed, Stands, Token

\* The right code is found.
LEMMA VerifyRightKeeps == ASSUME CodesInv, NEW d \in Door, VerifyRight(d) PROVE CodesInv'
<1> USE DEF VerifyRight, lockVars, codeVars
<1>0. CodesTypeOK /\ CodePart /\ RestTypeOK
  BY CodesTypeHalves DEF CodesInv, CodePart
<1>1. /\ Latest \in DOMAIN tokens /\ Latest \in Code /\ Latest \in Nat /\ ~ Gone(Latest)
      /\ To(d, "consume", Latest) /\ contested \subseteq contested'
      /\ contested' \subseteq contested \cup {Latest}
  BY <1>0, LatestStands DEF Take
<1>2. RestTypeOK'
  BY <1>0, <1>1 DEF RestTypeOK, Code, pastTries
<1>3. UsesOk'
  BY <1>0, <1>1, TakeUses DEF CodePart
<1>4. HandOk'
  BY <1>0, <1>1, HandMoves DEF CodePart
<1>5. LiveOk' /\ AttemptsOk'
  <2>1. Mailing' \subseteq Mailing /\ \A c : Guessing(c)' \subseteq Guessing(c)
    BY <1>0, <1>1, ToMoves DEF Mailing, Guessing
  <2>2. Unconsumed' = Unconsumed
    BY DEF Unconsumed
  <2>3. QED
    BY <1>0, <2>1, <2>2, LiveStays, AttemptsStay DEF CodePart
<1>6. CodePart'
  BY <1>3, <1>4, <1>5 DEF CodePart
<1>7. QED
  BY <1>1, <1>2, <1>6, CodeSide DEF LockLabels, AskLabels, DoorPc

\* A wrong code is tried on the latest that stands: short of the limit, but for those who try
\* with him.
LEMMA VerifyWrongKeeps == ASSUME CodesInv, NEW d \in Door, VerifyWrong(d) PROVE CodesInv'
<1> USE DEF VerifyWrong, lockVars, codeVars, pastVars
<1>0. CodesTypeOK /\ CodePart /\ RestTypeOK
  BY CodesTypeHalves DEF CodesInv, CodePart
<1>1. /\ Latest \in DOMAIN tokens /\ Latest \in Nat
      /\ tokens[Latest].attempts \in Nat /\ tokens[Latest].attempts < MaxAttempts
  BY <1>0, LatestStands
<1>2. RestTypeOK'
  BY <1>0, <1>1 DEF RestTypeOK, Code, pastTries
<1>3. HandOk'
  BY <1>0, <1>1, HandMoves DEF CodePart
<1>4. UsesOk' /\ LiveOk'
  <2>1. Mailing' \subseteq Mailing /\ \A c : Holders(c)' \subseteq Holders(c)
    BY <1>0, ToMoves DEF Mailing, Holders
  <2>2. Unconsumed' = Unconsumed /\ \A c : Gone(c) => Gone(c)'
    BY DEF Unconsumed, Gone
  <2>3. QED
    BY <1>0, <2>1, <2>2, LiveStays, UsesStay DEF CodePart, CodesTypeOK
<1>5. AttemptsOk'
  <2> SUFFICES ASSUME NEW i \in DOMAIN tokens
               PROVE  tokens[i].attempts + Cardinality(Guessing(i)')
                        <= MaxAttempts + Cardinality(Door) - 1
    BY DEF AttemptsOk
  <2>1. tokens[i].attempts \in Nat
    BY <1>0, TokensAre DEF Token
  <2>2. /\ Cardinality(Guessing(i)') \in Nat /\ Cardinality(Guessing(i)') <= Cardinality(Door)
        /\ Cardinality(Door) \in Nat /\ Cardinality(Guessing(i)) \in Nat
    BY SetsCount, SetsCountNext
  <2>3. CASE i = Latest
    BY <1>1, <2>1, <2>2, <2>3, LimitsAre
  <2>4. CASE i # Latest
    <3>1. Guessing(i)' \subseteq Guessing(i)
      BY <1>0, <2>4, ToMoves DEF Guessing
    <3>2. Cardinality(Guessing(i)') <= Cardinality(Guessing(i))
      BY <3>1, SetsCount, FS_Subset
    <3>3. tokens[i].attempts + Cardinality(Guessing(i)) <= MaxAttempts + Cardinality(Door) - 1
      BY <1>0 DEF AttemptsOk, CodePart
    <3>4. QED
      BY <2>1, <2>2, <3>2, <3>3, LimitsAre
  <2>5. QED
    BY <2>3, <2>4
<1>6. CodePart'
  BY <1>3, <1>4, <1>5 DEF CodePart
<1>7. QED
  BY <1>1, <1>2, <1>6, CodeSide DEF LockLabels, AskLabels, DoorPc

\* A wrong try is counted: one more, and one handler less that will.
LEMMA MiscountKeeps == ASSUME CodesInv, NEW d \in Door, Miscount(d) PROVE CodesInv'
<1> USE DEF Miscount, lockVars, pastVars, End
<1>0. CodesTypeOK /\ CodePart /\ RestTypeOK
  BY CodesTypeHalves DEF CodesInv, CodePart
<1> DEFINE i == hand[d]
           t == [tokens[i] EXCEPT !.attempts = @ + 1]
<1>1. i \in DOMAIN tokens
  BY <1>0 DEF HandOk, CodePart
<1>2. /\ tokens[i].attempts \in Nat /\ t \in Token /\ t.attempts = tokens[i].attempts + 1
      /\ t.consumed = tokens[i].consumed
  BY <1>0, <1>1, TokensAre DEF Token
<1>3. /\ tokens' = [tokens EXCEPT ![i] = t] /\ DOMAIN tokens' = DOMAIN tokens
      /\ tokens' \in Seq(Token) /\ Len(tokens') = Len(tokens)
      /\ tokens'[hand[d]] = t /\ \A j \in DOMAIN tokens \ {i} : tokens'[j] = tokens[j]
  BY <1>0, <1>1, <1>2, TokenTypes
<1>4. RestTypeOK'
  BY <1>0, <1>3 DEF RestTypeOK, Code, pastTries
<1>5. HandOk'
  BY <1>0, <1>3, HandMoves DEF CodePart
<1>6. UsesOk' /\ LiveOk'
  <2>1. Mailing' \subseteq Mailing /\ \A c : Holders(c)' \subseteq Holders(c)
    BY <1>0, ToMoves DEF Mailing, Holders
  <2>2. Unconsumed' \subseteq Unconsumed /\ \A c : Gone(c) => Gone(c)'
    BY <1>1, <1>2, <1>3 DEF Unconsumed, Gone
  <2>3. QED
    BY <1>0, <2>1, <2>2, LiveStays, UsesStay DEF CodePart, CodesTypeOK
<1>7. AttemptsOk'
  <2> SUFFICES ASSUME NEW j \in DOMAIN tokens
               PROVE  tokens'[j].attempts + Cardinality(Guessing(j)')
                        <= MaxAttempts + Cardinality(Door) - 1
    BY <1>3 DEF AttemptsOk
  <2>1. /\ Cardinality(Guessing(j)) \in Nat /\ Cardinality(Door) \in Nat
        /\ tokens[j].attempts + Cardinality(Guessing(j)) <= MaxAttempts + Cardinality(Door) - 1
        /\ tokens[j].attempts \in Nat
    BY <1>0, SetsCount, TokensAre DEF AttemptsOk, CodePart, Token
  <2>2. d \notin Guessing(j)' /\ Guessing(j)' \ {d} = Guessing(j) \ {d}
    BY <1>0, ToMoves, SetsMove DEF Guessing
  <2>3. CASE j = i
    <3>1. d \in Guessing(j)
      BY <2>3 DEF Guessing
    <3>2. Cardinality(Guessing(j)') = Cardinality(Guessing(j)) - 1
      BY <2>2, <3>1, SetsCount, OneMoves
    <3>3. tokens'[j].attempts = tokens[j].attempts + 1
      BY <1>2, <1>3, <2>3
    <3>4. QED
      BY <2>1, <3>2, <3>3, LimitsAre
  <2>4. CASE j # i
    <3>1. d \notin Guessing(j)
      BY <2>4 DEF Guessing
    <3>2. Cardinality(Guessing(j)') = Cardinality(Guessing(j))
      BY <2>2, <3>1, SetsCount, OneMoves
    <3>3. tokens'[j].attempts = tokens[j].attempts
      BY <1>3, <2>4
    <3>4. QED
      BY <2>1, <3>2, <3>3
  <2>5. QED
    BY <2>3, <2>4
<1>8. CodePart'
  BY <1>5, <1>6, <1>7 DEF CodePart
<1>9. QED
  BY <1>4, <1>8, CodeSide DEF LockLabels, AskLabels, DoorPc

\* A code is consumed.
LEMMA ConsumeKeeps == ASSUME CodesInv, NEW d \in Door, Consume(d) PROVE CodesInv'
<1> USE DEF Consume, lockVars
<1>0. CodesTypeOK /\ CodePart /\ RestTypeOK
  BY CodesTypeHalves DEF CodesInv, CodePart
<1> DEFINE i == hand[d]
           t == [tokens[i] EXCEPT !.consumed = TRUE]
<1>1. i \in DOMAIN tokens /\ i \in Code
  BY <1>0, TokensAre DEF HandOk, CodePart
<1>2. t \in Token /\ t.attempts = tokens[i].attempts /\ t.consumed
  BY <1>0, <1>1, TokensAre DEF Token
<1>3. /\ tokens' = [tokens EXCEPT ![i] = t] /\ DOMAIN tokens' = DOMAIN tokens
      /\ tokens' \in Seq(Token) /\ Len(tokens') = Len(tokens)
      /\ tokens'[hand[d]] = t /\ \A j \in DOMAIN tokens \ {i} : tokens'[j] = tokens[j]
  BY <1>0, <1>1, <1>2, TokenTypes
<1>4. RestTypeOK'
  BY <1>0, <1>1, <1>3 DEF RestTypeOK, Code, pastTries
<1>5. HandOk'
  BY <1>0, <1>3, HandMoves DEF CodePart
<1>6. UsesOk'
  <2>1. \A c : Gone(c) \/ c = hand[d] => Gone(c)'
    BY <1>1, <1>2, <1>3 DEF Gone
  <2>2. \A c : d \notin Holders(c)' /\ Holders(c)' \ {d} = Holders(c) \ {d}
    BY <1>0, ToMoves, SetsMove DEF Holders
  <2>3. QED
    BY <1>0, <1>1, <2>1, <2>2, UseUses DEF CodePart
<1>7. LiveOk' /\ AttemptsOk'
  <2>1. Mailing' \subseteq Mailing /\ \A c : Guessing(c)' \subseteq Guessing(c)
    BY <1>0, ToMoves DEF Mailing, Guessing
  <2>2. Unconsumed' \subseteq Unconsumed
    BY <1>1, <1>2, <1>3 DEF Unconsumed
  <2>3. \A j \in DOMAIN tokens : tokens'[j].attempts = tokens[j].attempts
    BY <1>2, <1>3
  <2>4. QED
    BY <1>0, <1>3, <2>1, <2>2, <2>3, LiveStays, AttemptsStay DEF CodePart
<1>8. CodePart'
  BY <1>5, <1>6, <1>7 DEF CodePart
<1>9. QED
  BY <1>4, <1>8, CodeSide DEF LockLabels, AskLabels, DoorPc

\* A recovery code is refused, or taken in hand.
LEMMA RecoveryRightKeeps == ASSUME CodesInv, NEW d \in Door, RecoveryRight(d) PROVE CodesInv'
<1> USE DEF RecoveryRight, lockVars, codeVars
<1>0. CodesTypeOK /\ CodePart /\ RestTypeOK
  BY CodesTypeHalves DEF CodesInv, CodePart
<1>1. ASSUME End(d), contested' = contested PROVE CodesInv'
  <2>1. RestTypeOK'
    BY <1>0, <1>1 DEF RestTypeOK, Code, pastTries
  <2>2. QED
    BY <1>1, <2>1, NeitherSide DEF CodeLabels, LockLabels, AskLabels, DoorPc, End
<1>2. ASSUME NEW r \in Recovery, r \notin spent, Take(d, "spend", r) PROVE CodesInv'
  <2>1. ~ Gone(r) /\ To(d, "spend", r) /\ contested' \subseteq contested \cup {r}
    BY <1>0, <1>2, TokensAre, CodesAssumption DEF Gone, Take, Code
  <2>2. RestTypeOK'
    BY <1>0, <2>1 DEF RestTypeOK, Code, pastTries
  <2>3. UsesOk'
    BY <1>0, <1>2, <2>1, TakeUses DEF CodePart
  <2>4. HandOk'
    BY <1>0, <2>1, HandMoves DEF CodePart
  <2>5. LiveOk' /\ AttemptsOk'
    <3>1. Mailing' \subseteq Mailing /\ \A c : Guessing(c)' \subseteq Guessing(c)
      BY <1>0, <2>1, ToMoves DEF Mailing, Guessing
    <3>2. Unconsumed' = Unconsumed
      BY DEF Unconsumed
    <3>3. QED
      BY <1>0, <3>1, <3>2, LiveStays, AttemptsStay DEF CodePart
  <2>6. CodePart'
    BY <2>3, <2>4, <2>5 DEF CodePart
  <2>7. QED
    BY <2>1, <2>2, <2>6, CodeSide DEF LockLabels, AskLabels, DoorPc
<1>3. QED
  BY <1>1, <1>2

\* A recovery code is marked used.
LEMMA SpendKeeps == ASSUME CodesInv, NEW d \in Door, Spend(d) PROVE CodesInv'
<1> USE DEF Spend, lockVars, codeVars
<1>0. CodesTypeOK /\ CodePart /\ RestTypeOK
  BY CodesTypeHalves DEF CodesInv, CodePart
<1> DEFINE label == IF email THEN "reset" ELSE "idle"
<1>8. To(d, label, 0) /\ label \in {"reset", "idle"}
  BY DEF Admit, End
<1> HIDE DEF label
<1>1. hand[d] \in Recovery
  BY <1>0 DEF HandOk, CodePart
<1>2. RestTypeOK'
  BY <1>0, <1>1 DEF RestTypeOK, Code, pastTries
<1>3. HandOk'
  BY <1>0, <1>8, HandMoves DEF CodePart
<1>4. UsesOk'
  <2>1. \A c : Gone(c) \/ c = hand[d] => Gone(c)'
    BY DEF Gone
  <2>2. \A c : d \notin Holders(c)' /\ Holders(c)' \ {d} = Holders(c) \ {d}
    BY <1>0, <1>8, ToMoves, SetsMove DEF Holders
  <2>3. QED
    BY <1>0, <1>1, <2>1, <2>2, UseUses DEF CodePart
<1>5. LiveOk' /\ AttemptsOk'
  <2>1. Mailing' \subseteq Mailing /\ \A c : Guessing(c)' \subseteq Guessing(c)
    BY <1>0, <1>8, ToMoves DEF Mailing, Guessing
  <2>2. Unconsumed' = Unconsumed
    BY DEF Unconsumed
  <2>3. QED
    BY <1>0, <2>1, <2>2, LiveStays, AttemptsStay DEF CodePart
<1>6. CodePart'
  BY <1>3, <1>4, <1>5 DEF CodePart
<1>7. QED
  BY <1>8, <1>2, <1>6, CodeSide DEF LockLabels, AskLabels, DoorPc

-----------------------------------------------------------------------------
(* The answers of a login, and the lock. *)

\* The numbers that the limit of tries relates.
LEMMA TryNumbers ==
  ASSUME CodesTypeOK
  PROVE  /\ Countable \in Nat /\ wrong \in Nat /\ breaks \in Nat /\ guesses \in Nat
         /\ Cardinality(Door) \in Nat
         /\ Cardinality(Failing) \in Nat /\ Cardinality(Failing') \in Nat
         /\ Cardinality(Counting) \in Nat /\ Cardinality(Counting') \in Nat
         /\ Cardinality(Asking) \in Nat /\ Cardinality(Asking') \in Nat
         /\ Cardinality(Asking') <= Cardinality(Door)
         /\ MaxFailures \in Nat /\ MaxFailures >= 1
<1>1. tries \in Nat /\ misses \in Nat /\ wrong \in Nat /\ breaks \in Nat /\ guesses \in Nat
  BY DEF CodesTypeOK
<1>2. Countable \in Nat
  BY <1>1 DEF Countable
<1>3. QED
  BY <1>1, <1>2, SetsCount, SetsCountNext, LimitsAre

\* While there is no lock, who is let past the check has his one try.
LEMMA KnockKeeps ==
  ASSUME CodesInv, NEW d \in Door, NEW label \in AskLabels, Knock(d, label)
  PROVE  CodesInv'
<1> USE DEF Knock, lockVars, codeVars, pastVars
<1>0. CodesTypeOK /\ RestTypeOK /\ TriesOk
  BY CodesTypeHalves DEF CodesInv
<1>1. RestTypeOK'
  BY <1>0 DEF RestTypeOK, Code, pastTries
<1>2. TriesOk'
  <2>1. Failing' = Failing /\ Counting' = Counting
    BY <1>0, ToMoves DEF Failing, Counting, AskLabels
  <2>2. Countable' = Countable
    BY DEF Countable, pastTries
  <2>3. CASE Keyed(label)
    <3>1. Counting \cap Asking' = {} /\ Counting \subseteq Door /\ Asking' \subseteq Door
      BY <1>0, ToMoves DEF Counting, Asking, AskLabels
    <3>2. Cardinality(Counting \cap Asking') = 0
      BY <3>1, FS_EmptySet
    <3>3. Cardinality(Counting \cup Asking')
            = Cardinality(Counting) + Cardinality(Asking') - Cardinality(Counting \cap Asking')
      BY SetsCount, SetsCountNext, FS_Union
    <3>4. Counting \cup Asking' \subseteq Door /\ Door \subseteq Door
      BY <3>1
    <3>5. Cardinality(Counting \cup Asking') <= Cardinality(Door)
      BY <3>4, DoorsCount
    <3>6. /\ Countable <= MaxFailures - 1 + Cardinality(Counting) + breaks
          /\ Countable <= wrong + Cardinality(Failing) + breaks
      BY <1>0, <2>3 DEF TriesOk
    <3>7. Countable + Cardinality(Asking') <= MaxFailures - 1 + Cardinality(Door) + breaks
      BY <1>0, <3>2, <3>3, <3>5, <3>6, TryNumbers
    <3>8. QED
      BY <2>1, <2>2, <3>6, <3>7 DEF TriesOk
  <2>4. CASE ~ Keyed(label)
    <3>1. Asking' \subseteq Asking
      BY <1>0, <2>4, ToMoves DEF Asking, Keyed
    <3>2. Cardinality(Asking') <= Cardinality(Asking)
      BY <3>1, SetsCount, FS_Subset
    <3>3. QED
      BY <1>0, <2>1, <2>2, <3>2, TryNumbers DEF TriesOk
  <2>5. QED
    BY <2>3, <2>4
<1>3. label \in DoorPc /\ label \notin CodeLabels /\ label # "expire"
  BY DEF AskLabels, DoorPc, CodeLabels
<1>4. QED
  BY <1>1, <1>2, <1>3, LockSide

\* A wrong answer: one try more, to be counted, and one handler less that asks; or nothing
\* that the lockout has a key for.
LEMMA AnswerWrongKeeps == ASSUME CodesInv, NEW d \in Door, AnswerWrong(d) PROVE CodesInv'
<1> USE DEF AnswerWrong, lockVars, codeVars, pastVars
<1>0. CodesTypeOK /\ RestTypeOK /\ TriesOk
  BY CodesTypeHalves DEF CodesInv
<1>1. RestTypeOK'
  BY <1>0 DEF RestTypeOK, Code, pastTries
<1>2. CASE Keyed(step[d])
  <2>1. /\ d \in Asking /\ d \notin Asking' /\ d \notin Failing /\ d \in Failing'
        /\ d \notin Counting /\ d \in Counting'
    BY <1>0, <1>2, ToMoves DEF Failing, Counting, Asking, Keyed
  <2>2. /\ Cardinality(Asking') = Cardinality(Asking) - 1
        /\ Cardinality(Failing') = Cardinality(Failing) + 1
        /\ Cardinality(Counting') = Cardinality(Counting) + 1
    BY <1>0, <1>2, <2>1, SetsMove, SetsCount, OneMoves
  <2>3. Countable' = Countable + 1
    BY <1>0, <1>2 DEF Countable, Keyed, RestTypeOK
  <2>4. TriesOk'
    BY <1>0, <2>2, <2>3, TryNumbers DEF TriesOk
  <2>5. QED
    BY <1>1, <1>2, <2>4, LockSide DEF DoorPc, CodeLabels
<1>3. CASE ~ Keyed(step[d])
  <2>1. To(d, "idle", 0) /\ email' = email /\ step[d] # "password"
    BY <1>3 DEF End, Keyed
  <2>2. Asking' = Asking /\ Failing' = Failing /\ Counting' = Counting
    BY <1>0, <1>3, <2>1, ToMoves DEF Failing, Counting, Asking, Keyed
  <2>3. Countable' = Countable
    BY <1>3 DEF Countable, Keyed
  <2>4. TriesOk'
    BY <1>0, <2>2, <2>3 DEF TriesOk
  <2>5. QED
    BY <1>1, <2>1, <2>4, LockSide DEF DoorPc, CodeLabels
<1>4. QED
  BY <1>2, <1>3

\* A wrong answer is counted; by the count that is returned, the lock will be set.
LEMMA FailIncrKeeps == ASSUME CodesInv, NEW d \in Door, FailIncr(d) PROVE CodesInv'
<1> USE DEF FailIncr, codeVars, pastVars
<1>0. CodesTypeOK /\ RestTypeOK /\ TriesOk
  BY CodesTypeHalves DEF CodesInv
<1>1. RestTypeOK' /\ wrong + 1 \in Nat
  BY <1>0 DEF RestTypeOK, Code, pastTries
<1>2. TriesOk'
  <2>1. /\ d \notin Asking /\ d \notin Asking' /\ d \in Failing /\ d \notin Failing'
        /\ d \in Counting /\ (d \in Counting' <=> wrong + 1 >= MaxFailures)
    BY <1>0, ToMoves DEF Failing, Counting, Asking, Keyed
  <2>2. /\ Cardinality(Asking') = Cardinality(Asking)
        /\ Cardinality(Failing') = Cardinality(Failing) - 1
        /\ wrong + 1 >= MaxFailures => Cardinality(Counting') = Cardinality(Counting)
    BY <1>0, <2>1, SetsMove, SetsCount, OneMoves
  <2>3. ~ wrong + 1 >= MaxFailures => Cardinality(Failing') <= Cardinality(Counting')
    <3>1. Failing' \subseteq Counting'
      BY DEF Failing, Counting
    <3>2. QED
      BY <3>1, SetsCountNext, FS_Subset
  <2>4. /\ Countable <= wrong + 1 + Cardinality(Failing') + breaks
        /\ Countable + Cardinality(Asking') <= MaxFailures - 1 + Cardinality(Door) + breaks
    BY <1>0, <2>2, TryNumbers DEF TriesOk
  <2>5. ~ locked => Countable <= MaxFailures - 1 + Cardinality(Counting') + breaks
    BY <1>0, <2>2, <2>3, <2>4, TryNumbers DEF TriesOk
  <2>6. QED
    BY <2>4, <2>5 DEF TriesOk, Countable, pastTries
<1>3. QED
  BY <1>1, <1>2, LockSide DEF DoorPc, CodeLabels

\* The lifetime of the counter; a count at the limit goes on to the lock.
LEMMA FailExpireKeeps == ASSUME CodesInv, NEW d \in Door, FailExpire(d) PROVE CodesInv'
<1> USE DEF FailExpire, codeVars, pastVars, End
<1>0. CodesTypeOK /\ RestTypeOK /\ TriesOk
  BY CodesTypeHalves DEF CodesInv
<1>1. RestTypeOK'
  BY <1>0 DEF RestTypeOK, Code, pastTries
<1>2. ASSUME NEW label \in {"lock", "idle"}, To(d, label, 0), label = "lock" <=> hand[d] >= MaxFailures
      PROVE  TriesOk'
  <2>1. Failing' = Failing /\ Asking' = Asking /\ Counting' = Counting
    BY <1>0, <1>2, ToMoves DEF Failing, Counting, Asking, Keyed
  <2>2. QED
    BY <1>0, <2>1 DEF TriesOk, Countable, pastTries
<1>3. CASE hand[d] >= MaxFailures
  <2>1. To(d, "lock", 0)
    BY <1>3
  <2>2. TriesOk'
    BY <1>2, <1>3, <2>1
  <2>3. QED
    BY <1>1, <2>1, <2>2, LockSide DEF DoorPc, CodeLabels
<1>4. CASE ~ hand[d] >= MaxFailures
  <2>1. To(d, "idle", 0)
    BY <1>4
  <2>2. TriesOk'
    BY <1>2, <1>4, <2>1
  <2>3. QED
    BY <1>1, <2>1, <2>2, LockSide DEF DoorPc, CodeLabels
<1>5. QED
  BY <1>3, <1>4

\* The lock is set.
LEMMA FailLockKeeps == ASSUME CodesInv, NEW d \in Door, FailLock(d) PROVE CodesInv'
<1> USE DEF FailLock, codeVars, pastVars, End
<1>0. CodesTypeOK /\ RestTypeOK /\ TriesOk
  BY CodesTypeHalves DEF CodesInv
<1>1. RestTypeOK'
  BY <1>0 DEF RestTypeOK, Code, pastTries
<1>2. TriesOk'
  <2>1. Failing' = Failing /\ Asking' = Asking
    BY <1>0, ToMoves DEF Failing, Asking, Keyed
  <2>2. QED
    BY <1>0, <2>1 DEF TriesOk, Countable, pastTries
<1>3. QED
  BY <1>1, <1>2, LockSide DEF DoorPc, CodeLabels

\* With no tries yet, the limit holds whoever asks.
LEMMA NoTries ==
  ASSUME CodesTypeOK, CodesTypeOK', tries' = 0, misses' = 0, breaks' = breaks
  PROVE  TriesOk'
<1>1. wrong' \in Nat /\ Countable' = 0
  BY DEF CodesTypeOK, Countable
<1>2. QED
  BY <1>1, TryNumbers DEF TriesOk

\* Whoever gets in starts anew.
LEMMA ResetKeeps == ASSUME CodesInv, NEW d \in Door, Reset(d) PROVE CodesInv'
<1> USE DEF Reset, codeVars, pastVars, End
<1>0. CodesTypeOK /\ RestTypeOK
  BY CodesTypeHalves DEF CodesInv
<1>1. RestTypeOK'
  BY <1>0 DEF RestTypeOK, Code, pastTries
<1>2. CodesTypeOK'
  BY <1>0, <1>1, ToTypes, CodesTypeHalvesNext DEF DoorPc
<1>3. QED
  BY <1>0, <1>1, <1>2, NoTries, LockSide DEF DoorPc, CodeLabels

\* A handler that fails: what it would have counted is lost, and so is its try.
LEMMA BreakKeeps == ASSUME CodesInv, NEW d \in Door, Break(d) PROVE CodesInv'
<1> USE DEF Break, codeVars, pastVars, lockVars, End
<1>0. CodesTypeOK /\ RestTypeOK /\ TriesOk
  BY CodesTypeHalves DEF CodesInv
<1>1. RestTypeOK'
  BY <1>0 DEF RestTypeOK, Code, pastTries
<1>2. TriesOk'
  <2>1. d \notin Asking' /\ d \notin Failing' /\ d \notin Counting'
    BY <1>0, ToMoves DEF Failing, Counting, Asking, Keyed
  <2>2. /\ Cardinality(Asking') <= Cardinality(Asking)
        /\ Cardinality(Failing) <= Cardinality(Failing') + 1
        /\ Cardinality(Counting) <= Cardinality(Counting') + 1
    <3>1. /\ Asking' \ {d} = Asking \ {d} /\ Failing' \ {d} = Failing \ {d}
          /\ Counting' \ {d} = Counting \ {d}
      BY <1>0, SetsMove
    <3>2. Asking' \subseteq Asking
      BY <2>1, <3>1
    <3>3. Cardinality(Asking') <= Cardinality(Asking)
      BY <3>2, SetsCount, FS_Subset
    <3>4. Cardinality(Failing) <= Cardinality(Failing') + 1
      BY <1>0, <2>1, <3>1, SetsCount, OneMoves, TryNumbers
    <3>5. Cardinality(Counting) <= Cardinality(Counting') + 1
      BY <1>0, <2>1, <3>1, SetsCount, OneMoves, TryNumbers
    <3>6. QED
      BY <3>3, <3>4, <3>5
  <2>3. Countable' = Countable
    BY DEF Countable, pastTries
  <2>4. QED
    BY <1>0, <2>2, <2>3, TryNumbers DEF TriesOk
<1>3. QED
  BY <1>1, <1>2, LockSide DEF DoorPc, CodeLabels

-----------------------------------------------------------------------------
(* Time. *)

\* Time changes no handler.
LEMMA TimeKeeps ==
  ASSUME CodesInv, (\E i \in Code : CodeExpires(i)) \/ CounterLapses \/ LockLapses
  PROVE  CodesInv'
<1> USE DEF codeVars, pastVars, lockVars
<1>0. CodesTypeOK /\ RestTypeOK /\ TriesOk /\ CodePart
      /\ step \in [Door -> DoorPc] /\ hand \in [Door -> Nat \cup Recovery]
  BY CodesTypeHalves DEF CodesInv, CodePart
<1>1. UNCHANGED <<email, step, hand, uses, contested, spent, breaks, guesses, verified, pending>>
  BY DEF CodeExpires, CounterLapses, LockLapses
<1>2. /\ \A c : Holders(c)' = Holders(c) /\ Guessing(c)' = Guessing(c)
      /\ Mailing' = Mailing /\ Asking' = Asking /\ Failing' = Failing /\ Counting' = Counting
  BY <1>1 DEF Holders, Guessing, Mailing, Asking, Failing, Counting, Keyed
<1>3. ASSUME NEW i \in Code, CodeExpires(i) PROVE CodesInv'
  <2> DEFINE t == [tokens[i] EXCEPT !.expired = TRUE]
  <2>1. /\ i \in DOMAIN tokens /\ tokens' = [tokens EXCEPT ![i] = t]
        /\ UNCHANGED <<wrong, timed, locked, pastTries>>
    BY <1>3 DEF CodeExpires
  <2>2. t \in Token /\ t.attempts = tokens[i].attempts /\ t.consumed = tokens[i].consumed
    BY <1>0, <2>1, TokensAre DEF Token
  <2>3. /\ DOMAIN tokens' = DOMAIN tokens /\ tokens' \in Seq(Token) /\ Len(tokens') = Len(tokens)
        /\ tokens'[i] = t /\ \A j \in DOMAIN tokens \ {i} : tokens'[j] = tokens[j]
    BY <1>0, <2>1, <2>2, TokenTypes
  <2>4. RestTypeOK'
    BY <1>0, <1>1, <2>1, <2>3 DEF RestTypeOK, Code, pastTries
  <2>5. CodesTypeOK'
    BY <1>0, <1>1, <2>4, CodesTypeHalvesNext
  <2>6. Unconsumed' \subseteq Unconsumed /\ \A c : Gone(c) => Gone(c)'
    BY <1>1, <2>1, <2>2, <2>3 DEF Unconsumed, Gone
  <2>7. \A j \in DOMAIN tokens : tokens'[j].attempts = tokens[j].attempts
    BY <2>2, <2>3
  <2>8. UsesOk' /\ LiveOk' /\ AttemptsOk'
    BY <1>0, <1>1, <1>2, <2>3, <2>6, <2>7, UsesStay, LiveStays, AttemptsStay DEF CodePart, CodesTypeOK
  <2>9. HandOk' /\ TriesOk'
    BY <1>0, <1>1, <1>2, <2>1, <2>3 DEF HandOk, TriesOk, Countable, pastTries, CodePart
  <2>10. QED
    BY <2>5, <2>8, <2>9 DEF CodesInv
<1>4. ASSUME CounterLapses \/ LockLapses PROVE CodesInv'
  <2>1. UNCHANGED tokens /\ tries' = 0 /\ misses' = 0
    BY <1>4 DEF CounterLapses, LockLapses
  <2>2. RestTypeOK'
    <3>1. CASE CounterLapses
      <4>1. /\ wrong' \in Nat /\ timed' \in BOOLEAN /\ locked' \in BOOLEAN
            /\ (timed' => wrong' > 0) /\ tries' \in Nat
        <5>1. timed' \in BOOLEAN /\ locked' \in BOOLEAN /\ (timed' => wrong' > 0)
          BY <1>0, <3>1, Zenon DEF RestTypeOK, CounterLapses
        <5>2. wrong' \in Nat /\ tries' \in Nat
          BY <1>0, <3>1, <2>1 DEF RestTypeOK, CounterLapses
        <5>3. QED
          BY <5>1, <5>2
      <4>2. QED
        BY <1>0, <1>1, <2>1, <4>1 DEF RestTypeOK, Code, pastTries
    <3>2. CASE LockLapses
      <4>1. /\ wrong' \in Nat /\ timed' \in BOOLEAN /\ locked' \in BOOLEAN
            /\ (timed' => wrong' > 0) /\ tries' \in Nat
        <5>1. timed' \in BOOLEAN /\ locked' \in BOOLEAN /\ (timed' => wrong' > 0)
          BY <1>0, <3>2, Zenon DEF RestTypeOK, LockLapses
        <5>2. wrong' \in Nat /\ tries' \in Nat
          BY <1>0, <3>2, <2>1 DEF RestTypeOK, LockLapses
        <5>3. QED
          BY <5>1, <5>2
      <4>2. QED
        BY <1>0, <1>1, <2>1, <4>1 DEF RestTypeOK, Code, pastTries
    <3>3. QED
      BY <1>4, <3>1, <3>2
  <2>3. CodesTypeOK'
    BY <1>0, <1>1, <2>2, CodesTypeHalvesNext
  <2>4. CodePart'
    <3>1. Unconsumed' = Unconsumed /\ \A c : Gone(c) => Gone(c)'
      BY <1>1, <2>1 DEF Unconsumed, Gone
    <3>2. UsesOk' /\ LiveOk' /\ AttemptsOk'
      BY <1>0, <1>1, <1>2, <2>1, <3>1, UsesStay, LiveStays, AttemptsStay DEF CodePart, CodesTypeOK
    <3>3. HandOk'
      BY <1>0, <1>1, <2>1 DEF HandOk, CodePart
    <3>4. QED
      BY <3>2, <3>3 DEF CodePart
  <2>5. TriesOk'
    BY <1>0, <1>1, <2>1, <2>3, NoTries
  <2>6. QED
    BY <2>3, <2>4, <2>5 DEF CodesInv, CodePart
<1>5. QED
  BY <1>3, <1>4

-----------------------------------------------------------------------------
(* The theorems. *)

\* Initially no code was mailed, and nobody is at the door.
LEMMA CodesInitInv == CodesInit => CodesInv
<1> SUFFICES ASSUME CodesInit PROVE CodesInv
  OBVIOUS
<1>1. CodesTypeOK
  <2>1. RestTypeOK
    <3>1. email \in BOOLEAN /\ verified \in BOOLEAN
          /\ pending \in BOOLEAN /\ timed \in BOOLEAN /\ locked \in BOOLEAN
          /\ (timed => wrong > 0)
      BY Zenon DEF CodesInit
    <3>2. tokens \in Seq(Token) /\ Len(tokens) <= MaxCode
      BY LimitsAre DEF CodesInit
    <3>3. QED
      BY <3>1, <3>2 DEF CodesInit, RestTypeOK
  <2>2. QED
    BY <2>1, CodesTypeHalves DEF CodesInit, DoorPc
<1>2. /\ \A c : Holders(c) = {} /\ Guessing(c) = {}
      /\ Mailing = {} /\ Asking = {} /\ Failing = {} /\ Counting = {} /\ Unconsumed = {}
  BY DEF CodesInit, Holders, Guessing, Mailing, Asking, Failing, Counting, Unconsumed
<1>3. /\ \A c : Cardinality(Holders(c)) = 0
      /\ Cardinality(Mailing) = 0 /\ Cardinality(Asking) = 0 /\ Cardinality(Failing) = 0
      /\ Cardinality(Counting) = 0 /\ Cardinality(Unconsumed) = 0
  BY <1>2, FS_EmptySet
<1>4. HandOk /\ AttemptsOk
  BY DEF CodesInit, HandOk, AttemptsOk
<1>5. UsesOk /\ LiveOk
  BY <1>3, SetsCount DEF CodesInit, UsesOk, LiveOk
<1>6. TriesOk
  BY <1>1, <1>3, TryNumbers DEF CodesInit, TriesOk, Countable
<1>7. QED
  BY <1>1, <1>4, <1>5, <1>6 DEF CodesInv

\* Every step keeps the invariant.
LEMMA CodesStepKeeps == CodesInv /\ [CodesNext]_codesVars => CodesInv'
<1> SUFFICES ASSUME CodesInv, [CodesNext]_codesVars PROVE CodesInv'
  OBVIOUS
<1>1. CASE UNCHANGED codesVars
  <2> USE <1>1 DEF codesVars
  <2>1. /\ \A c : Holders(c)' = Holders(c) /\ Guessing(c)' = Guessing(c)
        /\ Mailing' = Mailing /\ Asking' = Asking /\ Failing' = Failing /\ Counting' = Counting
        /\ Unconsumed' = Unconsumed
    BY DEF Holders, Guessing, Mailing, Asking, Failing, Counting, Unconsumed, Keyed
  <2>2. CodesTypeOK'
    BY DEF CodesInv, CodesTypeOK, Code
  <2>3. HandOk' /\ UsesOk'
    BY <2>1 DEF CodesInv, HandOk, UsesOk, Code, Gone
  <2>4. LiveOk' /\ AttemptsOk' /\ TriesOk'
    BY <2>1 DEF CodesInv, LiveOk, AttemptsOk, TriesOk, Countable
  <2>5. QED
    BY <2>2, <2>3, <2>4 DEF CodesInv
<1>2. ASSUME NEW d \in Door, Login(d) \/ Verify2fa(d) \/ Recovery2fa(d) PROVE CodesInv'
  BY <1>2, KnockKeeps DEF Login, Verify2fa, Recovery2fa, AskLabels
<1>3. ASSUME NEW d \in Door,
             \/ Resend(d) \/ IssueConsume(d) \/ IssueCreate(d)
             \/ VerifyRight(d) \/ VerifyWrong(d) \/ Miscount(d) \/ Consume(d) \/ Verify(d)
             \/ PasswordRight(d) \/ TotpRight(d) \/ RecoveryRight(d) \/ Spend(d)
      PROVE  CodesInv'
  BY <1>3, PlainKeeps, IssueConsumeKeeps, IssueCreateKeeps, VerifyRightKeeps, VerifyWrongKeeps,
     MiscountKeeps, ConsumeKeeps, RecoveryRightKeeps, SpendKeeps
<1>4. ASSUME NEW d \in Door,
             \/ AnswerWrong(d) \/ FailIncr(d) \/ FailExpire(d) \/ FailLock(d) \/ Reset(d) \/ Break(d)
      PROVE  CodesInv'
  BY <1>4, AnswerWrongKeeps, FailIncrKeeps, FailExpireKeeps, FailLockKeeps, ResetKeeps, BreakKeeps
<1>5. QED
  BY <1>1, <1>2, <1>3, <1>4, TimeKeeps DEF CodesNext

\* The invariant of the codes holds in every reachable state.
THEOREM CodesInductive == CodesSpec => []CodesInv
<1>1. QED
  BY CodesInitInv, CodesStepKeeps, PTL DEF CodesSpec

\* A code lets its user in once, or, when it was contested, no more often than there are
\* handlers (otp.service.ts, consume; auth.service.ts, recovery2fa).
THEOREM CodesUsedOnce == CodesSpec => []OnceUnlessContested
<1>1. CodesInv => OnceUnlessContested
  <2> SUFFICES ASSUME CodesInv, NEW c \in Code \cup Recovery
               PROVE  uses[c] <= IF c \in contested THEN Cardinality(Door) ELSE 1
    BY DEF OnceUnlessContested
  <2>1. uses[c] \in Nat /\ Cardinality(Holders(c)) \in Nat /\ Cardinality(Door) \in Nat
    BY SetsCount DEF CodesInv, CodesTypeOK
  <2>2. QED
    BY <2>1 DEF CodesInv, UsesOk
<1>2. QED
  BY <1>1, CodesInductive, PTL

\* The codes that are good and those about to be are no more than the handlers
\* (otp.service.ts, issue).
THEOREM FewLiveCodes == CodesSpec => []LiveCodesBounded
<1>1. CodesInv => LiveCodesBounded
  BY DEF CodesInv, LiveOk, LiveCodesBounded, Mailing
<1>2. QED
  BY <1>1, CodesInductive, PTL

\* Whatever overlaps and whatever fails, a mailed code is tried no more often than its limit
\* allows, and a password, or a second factor of a user with an e-mail, is answered wrongly
\* no more often than theirs, but for one try of each other handler and of each failure
\* (otp.service.ts, consume; login-lockout.service.ts).  Nothing limits the second factors of
\* a user without an e-mail.
THEOREM FewGuesses == CodesSpec => []GuessesLimited
<1>1. CodesInv => GuessesLimited
  <2> SUFFICES ASSUME CodesInv PROVE GuessesLimited
    OBVIOUS
  <2>0. CodesTypeOK
    BY DEF CodesInv
  <2>1. \A i \in DOMAIN tokens :
          /\ tokens[i].attempts \in Nat /\ Cardinality(Guessing(i)) \in Nat
          /\ tokens[i].attempts + Cardinality(Guessing(i)) <= MaxAttempts + Cardinality(Door) - 1
    BY <2>0, TokensAre, SetsCount DEF CodesInv, AttemptsOk, Token
  <2>2. Countable + Cardinality(Asking) <= MaxFailures - 1 + Cardinality(Door) + breaks
    BY DEF CodesInv, TriesOk
  <2>3. \A i \in DOMAIN tokens : tokens[i].attempts <= MaxAttempts + (Cardinality(Door) - 1)
    BY <2>1, LimitsAre, SetsCount
  <2>4. Countable <= MaxFailures + (Cardinality(Door) - 1) + breaks
    BY <2>0, <2>2, TryNumbers
  <2>5. QED
    BY <2>3, <2>4 DEF GuessesLimited
<1>2. QED
  BY <1>1, CodesInductive, PTL
=============================================================================
