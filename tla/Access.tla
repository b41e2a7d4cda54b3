-------------------------------- MODULE Access --------------------------------
(***************************************************************************)
(* Who may do what: users, roles and the permission cache.                 *)
(*                                                                         *)
(* PermissionsGuard asks PermissionsCacheService for what a user may do.   *)
(* The answer lies in Redis for a minute; on a miss it is read from the    *)
(* database and put there.  UsersService and RolesService change the       *)
(* database and then delete what is cached of the users concerned.         *)
(* Every call is a step of its own: a fill and a change may interleave.    *)
(*                                                                         *)
(* One permission stands for all: grants are the roles that have it.       *)
(***************************************************************************)
EXTENDS FiniteSets, Naturals

CONSTANTS
  User, Role,
  SuperAdmin,  \* the role that has every permission, and keeps it
  Clerk,       \* request handlers that may be running at once
  NoAccess,    \* a user of whom nothing is cached
  MaxChange,   \* bound: changes in a behaviour
  MaxFault     \* bound: handlers that fail in a behaviour

ASSUME AccessAssumption ==
  /\ SuperAdmin \in Role
  /\ MaxChange \in Nat /\ MaxFault \in Nat

VARIABLES
  account,  \* User.status, or "gone"
  holds,    \* UserRole: the roles of each user
  roles,    \* rows of Role
  grants,   \* RolePermission: the roles that have the permission
  cache,    \* keys perms:{userId}
  at,       \* where each handler is
  local,    \* the locals of each handler
  late,     \* history: users whose cached entry was read or written beside a change
  skewed,   \* history: a super admin went in a change that another one overlapped
  changes,  \* changes so far
  faults    \* failures so far

accessVars == <<account, holds, roles, grants, cache, at, local, late, skewed, changes, faults>>

\* CachedUserAccess.
Entry == [active : BOOLEAN, may : BOOLEAN]

\* What a handler is called for, on whom, and what it is to write.
Op == [kind : {"status"}, on : User, to : {"ACTIVE", "BANNED"}]
        \cup [kind : {"roles"}, on : User, to : SUBSET Role]
        \cup [kind : {"remove"}, on : User, to : {"gone"}]
        \cup [kind : {"grant"}, on : Role, to : BOOLEAN]
        \cup [kind : {"drop"}, on : Role, to : {"gone"}]

\* Locals: the user who asks, what was read for the cache, the change, whose entries
\* to delete; and whether no other change has been under way since (a history).
Local == [actor : User, entry : Entry \cup {NoAccess}, op : Op \cup {NoAccess},
          found : SUBSET User, alone : BOOLEAN]

Changing == {"count", "write", "find", "del"}

AccessTypeOK ==
  /\ account \in [User -> {"ACTIVE", "BANNED", "gone"}]
  /\ holds \in [User -> SUBSET Role]
  /\ roles \subseteq Role /\ grants \subseteq Role
  /\ cache \in [User -> Entry \cup {NoAccess}]
  /\ at \in [Clerk -> {"idle", "miss", "fill", "serve"} \cup Changing]
  /\ local \in [Clerk -> Local \cup {NoAccess}]
  /\ late \subseteq User
  /\ skewed \in BOOLEAN
  /\ changes \in Nat /\ faults \in Nat
  /\ \A u \in User : holds[u] \subseteq roles

\* Every user is a super admin or holds nothing yet.
AccessInit ==
  /\ account = [u \in User |-> "ACTIVE"]
  /\ holds \in [User -> {{}, {SuperAdmin}}]
  /\ \E u \in User : holds[u] = {SuperAdmin}
  /\ roles = Role /\ grants = {SuperAdmin}
  /\ cache = [u \in User |-> NoAccess]
  /\ at = [c \in Clerk |-> "idle"]
  /\ local = [c \in Clerk |-> NoAccess]
  /\ late = {} /\ skewed = FALSE
  /\ changes = 0 /\ faults = 0

Admins == {u \in User : account[u] = "ACTIVE" /\ SuperAdmin \in holds[u]}

\* What the database says a user may do.
Live(u) ==
  IF account[u] = "gone" THEN NoAccess
  ELSE [active |-> account[u] = "ACTIVE", may |-> holds[u] \cap grants # {}]

Allows(entry) == entry # NoAccess /\ entry = [active |-> TRUE, may |-> TRUE]

-----------------------------------------------------------------------------
Move(c, label, locals) ==
  /\ at' = [at EXCEPT ![c] = label]
  /\ local' = [local EXCEPT ![c] = locals]

Done(c) == Move(c, "idle", NoAccess)

BesideChange(c) == \E d \in Clerk \ {c} : at[d] \in Changing

(* PermissionsGuard.canActivate, getUserAccess. *)

\* The entry is there, and lets the request in; one that does not changes nothing.
GuardHit(c, u) ==
  /\ at[c] = "idle"
  /\ Allows(cache[u])
  /\ Move(c, "serve", [actor |-> u, entry |-> NoAccess, op |-> NoAccess,
                       found |-> {}, alone |-> TRUE])
  /\ UNCHANGED <<account, holds, roles, grants, cache, late, skewed, changes, faults>>

GuardMiss(c, u) ==
  /\ at[c] = "idle"
  /\ cache[u] = NoAccess
  /\ Move(c, "miss", [actor |-> u, entry |-> NoAccess, op |-> NoAccess,
                      found |-> {}, alone |-> TRUE])
  /\ UNCHANGED <<account, holds, roles, grants, cache, late, skewed, changes, faults>>

\* A user who is not in the database is refused.
Read(c) ==
  LET u == local[c].actor
  IN /\ at[c] = "miss"
     /\ IF Live(u) = NoAccess
        THEN Done(c)
        ELSE Move(c, "fill", [local[c] EXCEPT !.entry = Live(u), !.alone = ~ BesideChange(c)])
     /\ UNCHANGED <<account, holds, roles, grants, cache, late, skewed, changes, faults>>

Fill(c) ==
  LET u == local[c].actor
  IN /\ at[c] = "fill"
     /\ cache' = [cache EXCEPT ![u] = local[c].entry]
     /\ late' = IF local[c].alone THEN late \ {u} ELSE late \cup {u}
     /\ IF Allows(local[c].entry)
        THEN Move(c, "serve", [local[c] EXCEPT !.entry = NoAccess, !.alone = TRUE])
        ELSE Done(c)
     /\ UNCHANGED <<account, holds, roles, grants, skewed, changes, faults>>

-----------------------------------------------------------------------------
(* The changes.  What a handler reads first decides where it goes.          *)

\* From here the change is under way, beside those that are already.
Start(c, label, kind, on, to) ==
  /\ at[c] = "serve"
  /\ changes < MaxChange
  /\ changes' = changes + 1
  /\ at' = [at EXCEPT ![c] = label]
  /\ local' = [d \in Clerk |->
       IF d = c THEN [local[c] EXCEPT !.op = [kind |-> kind, on |-> on, to |-> to],
                                      !.alone = ~ BesideChange(c)]
       ELSE IF at[d] \in Changing \cup {"fill"} THEN [local[d] EXCEPT !.alone = FALSE]
       ELSE local[d]]
  /\ UNCHANGED <<account, holds, roles, grants, cache, late, skewed, faults>>

Exists(u) == account[u] # "gone"
IsSuper(u) == SuperAdmin \in holds[u]

\* Mutant: only banning a user by hand is guarded, making him inactive is not.
UpdateStatus_Unguarded(c, t) ==
  /\ at[c] = "serve" /\ t # local[c].actor /\ Exists(t)
  /\ \E s \in {"ACTIVE", "BANNED"} : Start(c, "write", "status", t, s)

\* UsersService.updateStatus: nobody changes his own; assertNotLastSuperAdmin looks
\* at the roles just read.  BANNED stands for INACTIVE too.
UpdateStatus(c, t) ==
  /\ at[c] = "serve" /\ t # local[c].actor /\ Exists(t)
  /\ \E s \in {"ACTIVE", "BANNED"} :
       Start(c, IF s = "BANNED" /\ IsSuper(t) THEN "count" ELSE "write", "status", t, s)

\* UsersService.assignRoles.
AssignRoles(c, t) ==
  /\ Exists(t)
  /\ \E new \in SUBSET roles :
       Start(c, IF IsSuper(t) /\ SuperAdmin \notin new THEN "count" ELSE "write", "roles", t, new)

\* UsersService.remove.
RemoveUser(c, t) ==
  /\ at[c] = "serve" /\ t # local[c].actor /\ Exists(t)
  /\ Start(c, IF IsSuper(t) THEN "count" ELSE "write", "remove", t, "gone")

\* RolesService.setPermissions: those of SUPER_ADMIN stay as they are.
SetPermissions(c, r) ==
  /\ r \in roles \ {SuperAdmin}
  /\ \E g \in BOOLEAN : Start(c, "write", "grant", r, g)

\* RolesService.remove: the entries are deleted first, then the role.
RemoveRole(c, r) ==
  /\ r \in roles \ {SuperAdmin}
  /\ Start(c, "find", "drop", r, "gone")

\* A request that changes nothing here.
Serve(c) ==
  /\ at[c] = "serve"
  /\ Done(c)
  /\ UNCHANGED <<account, holds, roles, grants, cache, late, skewed, changes, faults>>

\* assertNotLastSuperAdmin: others are counted, and the target changed later.
Count(c) ==
  /\ at[c] = "count"
  /\ IF Admins \ {local[c].op.on} = {} THEN Done(c) ELSE Move(c, "write", local[c])
  /\ UNCHANGED <<account, holds, roles, grants, cache, late, skewed, changes, faults>>

-----------------------------------------------------------------------------
(* The writes.  A row that has gone meanwhile makes them throw.             *)

\* After the write the entries of these users are deleted.
Written(c, users) == Move(c, "del", [local[c] EXCEPT !.found = users])

Skews(c) == skewed' = (skewed \/ (~ local[c].alone /\ Admins # {} /\ Admins' = {}))

\* Mutant: the status is written and the cache forgotten.
WriteStatus_NoInvalidate(c) ==
  LET op == local[c].op
  IN /\ at[c] = "write" /\ op.kind = "status"
     /\ IF Exists(op.on) THEN account' = [account EXCEPT ![op.on] = op.to] ELSE UNCHANGED account
     /\ Done(c)
     /\ UNCHANGED <<holds, roles, grants, cache, late, changes, faults>>
     /\ Skews(c)

WriteStatus(c) ==
  LET op == local[c].op
  IN /\ at[c] = "write" /\ op.kind = "status"
     /\ IF Exists(op.on)
        THEN account' = [account EXCEPT ![op.on] = op.to] /\ Written(c, {op.on})
        ELSE Done(c) /\ UNCHANGED account
     /\ UNCHANGED <<holds, roles, grants, cache, late, changes, faults>>
     /\ Skews(c)

\* One transaction: with a role or the user gone, all of it is rolled back.
WriteRoles(c) ==
  LET op == local[c].op
  IN /\ at[c] = "write" /\ op.kind = "roles"
     /\ IF Exists(op.on) /\ op.to \subseteq roles
        THEN holds' = [holds EXCEPT ![op.on] = op.to] /\ Written(c, {op.on})
        ELSE Done(c) /\ UNCHANGED holds
     /\ UNCHANGED <<account, roles, grants, cache, late, changes, faults>>
     /\ Skews(c)

\* The roles of a user go with him.
WriteRemove(c) ==
  LET u == local[c].op.on
  IN /\ at[c] = "write" /\ local[c].op.kind = "remove"
     /\ IF Exists(u)
        THEN /\ account' = [account EXCEPT ![u] = "gone"]
             /\ holds' = [holds EXCEPT ![u] = {}]
             /\ Written(c, {u})
        ELSE Done(c) /\ UNCHANGED <<account, holds>>
     /\ UNCHANGED <<roles, grants, cache, late, changes, faults>>
     /\ Skews(c)

WriteGrant(c) ==
  LET op == local[c].op
  IN /\ at[c] = "write" /\ op.kind = "grant"
     /\ IF op.on \in roles
        THEN /\ grants' = IF op.to THEN grants \cup {op.on} ELSE grants \ {op.on}
             /\ Move(c, "find", local[c])
        ELSE Done(c) /\ UNCHANGED grants
     /\ UNCHANGED <<account, holds, roles, cache, late, skewed, changes, faults>>

\* The cascade takes the role from its users and its permissions from the role.
WriteDrop(c) ==
  LET r == local[c].op.on
  IN /\ at[c] = "write" /\ local[c].op.kind = "drop"
     /\ roles' = roles \ {r}
     /\ grants' = grants \ {r}
     /\ holds' = [u \in User |-> holds[u] \ {r}]
     /\ Done(c)
     /\ UNCHANGED <<account, cache, late, skewed, changes, faults>>

-----------------------------------------------------------------------------
(* Invalidation.                                                            *)

\* RolesService.remove goes on to delete the role, every other change is done.
AfterDel(c) ==
  IF local[c].op.kind = "drop" THEN Move(c, "write", [local[c] EXCEPT !.found = {}]) ELSE Done(c)

\* invalidateRole reads who holds the role.
Find(c) ==
  LET users == {u \in User : local[c].op.on \in holds[u]}
  IN /\ at[c] = "find"
     /\ IF users = {} THEN AfterDel(c) ELSE Written(c, users)
     /\ UNCHANGED <<account, holds, roles, grants, cache, late, skewed, changes, faults>>

Del(c) ==
  /\ at[c] = "del"
  /\ cache' = [u \in User |-> IF u \in local[c].found THEN NoAccess ELSE cache[u]]
  /\ late' = late \ local[c].found
  /\ AfterDel(c)
  /\ UNCHANGED <<account, holds, roles, grants, skewed, changes, faults>>

\* Mutant: an entry is cached without a lifetime.
Lapse_Never(u) == FALSE /\ UNCHANGED accessVars

\* An entry lives for CACHE_TTL_SECONDS.
Lapse(u) ==
  /\ cache[u] # NoAccess
  /\ cache' = [cache EXCEPT ![u] = NoAccess]
  /\ late' = late \ {u}
  /\ UNCHANGED <<account, holds, roles, grants, at, local, skewed, changes, faults>>

\* A call throws, or the process restarts; what is cached by then may stay behind.
Fault(c) ==
  /\ at[c] # "idle"
  /\ faults < MaxFault
  /\ faults' = faults + 1
  /\ late' = IF at[c] \in Changing THEN {u \in User : cache[u] # NoAccess} ELSE late
  /\ Done(c)
  /\ UNCHANGED <<account, holds, roles, grants, cache, skewed, changes>>

Change(c) ==
  \/ \E t \in User : UpdateStatus(c, t) \/ AssignRoles(c, t) \/ RemoveUser(c, t)
  \/ \E r \in Role : SetPermissions(c, r) \/ RemoveRole(c, r)

Advance(c) ==
  \/ Read(c) \/ Fill(c) \/ Serve(c) \/ Count(c)
  \/ WriteStatus(c) \/ WriteRoles(c) \/ WriteRemove(c) \/ WriteGrant(c) \/ WriteDrop(c)
  \/ Find(c) \/ Del(c)

AccessNext ==
  \/ \E c \in Clerk : Change(c) \/ Advance(c) \/ Fault(c)
  \/ \E c \in Clerk, u \in User : GuardHit(c, u) \/ GuardMiss(c, u)
  \/ \E u \in User : Lapse(u)

\* A request ends, one way or the other, and Redis lets entries expire.
AccessFairness ==
  /\ \A c \in Clerk : WF_accessVars(Advance(c))
  /\ \A u \in User : WF_accessVars(Lapse(u))

-----------------------------------------------------------------------------
\* permissions-cache.service.ts:24-25, every change calls the invalidation that goes with
\* it: while no change is under way, a cached entry says what the database says, unless it was read
\* or written beside a change.
CacheFresh ==
  (\A c \in Clerk : at[c] \notin Changing) =>
    \A u \in User \ late : cache[u] # NoAccess => cache[u] = Live(u)

\* assertNotLastSuperAdmin: an active super admin remains, unless the one who removed
\* the last was overlapped by another change after it had read or counted.
AdminRemains == Admins # {} \/ skewed

\* A permission, once it is taken away for good, is refused in the end, whatever fills
\* and changes have raced: the lifetime of an entry sees to it.
RevocationTakesEffect ==
  \A u \in User : <>[](~ Allows(Live(u))) => <>[](~ Allows(cache[u]))
=============================================================================
