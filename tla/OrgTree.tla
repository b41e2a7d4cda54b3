------------------------------- MODULE OrgTree --------------------------------
(***************************************************************************)
(* The units of an organisation: OrgUnitsService.                          *)
(*                                                                         *)
(* A unit keeps its parent, and the path of ids from the root down to it.  *)
(* Everything that asks for the units above or below another one reads     *)
(* paths: the scope of a unit manager, the approver by type of unit, the   *)
(* default shift, the holiday calendar and the working days.               *)
(*                                                                         *)
(* A handler reads, checks and then writes: create and move put a path     *)
(* together from what they read before.  Codes and names are left out.     *)
(***************************************************************************)
EXTENDS Naturals, Sequences, SequencesExt

CONSTANTS
  Unit,     \* ids of units
  Root,     \* no parent
  Editor,   \* request handlers that may be running at once
  MaxEdit   \* bound: edits in a behaviour

ASSUME OrgTreeAssumption == Unit # {} /\ Root \notin Unit /\ MaxEdit \in Nat

VARIABLES
  row,     \* rows of OrgUnit: an id is never used again
  parent,  \* OrgUnit.parentId
  path,    \* OrgUnit.path
  stage,   \* where each handler is
  edit,    \* the locals of each handler
  stale,   \* history: a handler wrote a path that had changed since it read it
  edits    \* edits so far

treeVars == <<row, parent, path, stage, edit, stale, edits>>

\* Locals: the unit, its parent to be, and the paths that were read of the two.
Edit == [unit : Unit, to : Unit \cup {Root}, old : Seq(Unit), under : Seq(Unit)]
NoEdit == [unit |-> CHOOSE u \in Unit : TRUE, to |-> Root, old |-> <<>>, under |-> <<>>]

Rows == {u \in Unit : row[u] = "there"}

TreeTypeOK ==
  /\ row \in [Unit -> {"none", "there", "gone"}]
  /\ parent \in [Unit -> Unit \cup {Root}]
  /\ path \in [Unit -> Seq(Unit)]
  /\ stage \in [Editor -> {"idle", "create", "parent", "move", "count", "delete"}]
  /\ edit \in [Editor -> Edit]
  /\ stale \in BOOLEAN
  /\ edits \in Nat
  /\ \A u \in Rows : parent[u] \in Rows \cup {Root} /\ path[u] # <<>> /\ Last(path[u]) = u

TreeInit ==
  /\ row = [u \in Unit |-> "none"]
  /\ parent = [u \in Unit |-> Root]
  /\ path = [u \in Unit |-> <<>>]
  /\ stage = [e \in Editor |-> "idle"]
  /\ edit = [e \in Editor |-> NoEdit]
  /\ stale = FALSE
  /\ edits = 0

-----------------------------------------------------------------------------
StepTo(e, label, locals) ==
  /\ stage' = [stage EXCEPT ![e] = label]
  /\ edit' = [edit EXCEPT ![e] = locals]

Over(e) == StepTo(e, "idle", NoEdit)

Open(e, label, locals) ==
  /\ stage[e] = "idle"
  /\ edits < MaxEdit
  /\ edits' = edits + 1
  /\ StepTo(e, label, locals)
  /\ UNCHANGED <<row, parent, path, stale>>

\* The path under which a child of p comes, as it is now.
PathOf(p) == IF p = Root THEN <<>> ELSE path[p]
There(p) == p \in Rows \cup {Root}

\* create: the parent is read; the new unit has an id of its own.
CreateRead(e, u, p) ==
  /\ row[u] = "none" /\ There(p)
  /\ \A d \in Editor : stage[d] = "create" => edit[d].unit # u
  /\ Open(e, "create", [unit |-> u, to |-> p, old |-> <<>>, under |-> PathOf(p)])

\* The insert, and the path, in one transaction; it throws when the parent has gone.
CreateWrite(e) ==
  LET u == edit[e].unit   p == edit[e].to
  IN /\ stage[e] = "create"
     /\ IF There(p)
        THEN /\ row' = [row EXCEPT ![u] = "there"]
             /\ parent' = [parent EXCEPT ![u] = p]
             /\ path' = [path EXCEPT ![u] = Append(edit[e].under, u)]
             /\ stale' = (stale \/ edit[e].under # PathOf(p))
        ELSE UNCHANGED <<row, parent, path, stale>>
     /\ Over(e)
     /\ UNCHANGED edits

\* move: the unit is read, then the new parent.
MoveRead(e, u, p) ==
  /\ row[u] = "there"
  /\ Open(e, "parent", [unit |-> u, to |-> p, old |-> path[u], under |-> <<>>])

\* Mutant: only the unit itself is refused as its own parent.
MoveParent_NotSelf(e) ==
  LET p == edit[e].to
  IN /\ stage[e] = "parent"
     /\ IF There(p) /\ p # edit[e].unit
        THEN StepTo(e, "move", [edit[e] EXCEPT !.under = PathOf(p)])
        ELSE Over(e)
     /\ UNCHANGED <<row, parent, path, stale, edits>>

\* A parent in the subtree of the unit, by their paths, is refused.
MoveParent(e) ==
  LET p == edit[e].to
  IN /\ stage[e] = "parent"
     /\ IF There(p) /\ ~ (p # Root /\ IsPrefix(edit[e].old, path[p]))
        THEN StepTo(e, "move", [edit[e] EXCEPT !.under = PathOf(p)])
        ELSE Over(e)
     /\ UNCHANGED <<row, parent, path, stale, edits>>

\* The prefix of every path that begins with the old one is replaced, in the transaction
\* that sets the parent.
MoveWrite(e) ==
  LET u == edit[e].unit   p == edit[e].to   old == edit[e].old
      new == Append(edit[e].under, u)
  IN /\ stage[e] = "move"
     /\ IF u \in Rows /\ There(p)
        THEN /\ parent' = [parent EXCEPT ![u] = p]
             /\ path' = [v \in Unit |->
                  IF v \in Rows /\ IsPrefix(old, path[v])
                  THEN new \o SubSeq(path[v], Len(old) + 1, Len(path[v]))
                  ELSE path[v]]
             /\ stale' = (stale \/ old # path[u] \/ edit[e].under # PathOf(p))
        ELSE UNCHANGED <<parent, path, stale>>
     /\ Over(e)
     /\ UNCHANGED <<row, edits>>

\* remove: the unit is read, its children are counted, and it is deleted; the foreign key
\* restricts that to a unit without children.
RemoveRead(e, u) ==
  /\ row[u] = "there"
  /\ Open(e, "count", [NoEdit EXCEPT !.unit = u])

Childless(u) == \A v \in Rows : parent[v] # u

RemoveCount(e) ==
  /\ stage[e] = "count"
  /\ IF Childless(edit[e].unit) THEN StepTo(e, "delete", edit[e]) ELSE Over(e)
  /\ UNCHANGED <<row, parent, path, stale, edits>>

RemoveDelete(e) ==
  LET u == edit[e].unit
  IN /\ stage[e] = "delete"
     /\ row' = IF u \in Rows /\ Childless(u) THEN [row EXCEPT ![u] = "gone"] ELSE row
     /\ Over(e)
     /\ UNCHANGED <<parent, path, stale, edits>>

TreeNext ==
  \E e \in Editor :
    \/ \E u \in Unit :
         \/ \E p \in Unit \cup {Root} : CreateRead(e, u, p) \/ MoveRead(e, u, p)
         \/ RemoveRead(e, u)
    \/ CreateWrite(e) \/ MoveParent(e) \/ MoveWrite(e) \/ RemoveCount(e) \/ RemoveDelete(e)

-----------------------------------------------------------------------------
(* What is read off the paths.                                              *)

\* The nearest unit on the path, u itself included, that has what is asked for: a type, a
\* default shift, a calendar (byUnitManagerOfType, resolveUnitChainShiftId,
\* resolveCalendarId, resolveWorkDays).
NearestByPath(u, chosen) ==
  LET at == {k \in DOMAIN path[u] : path[u][k] \in chosen}
  IN IF at = {} THEN Root ELSE path[u][Max(at)]

\* The paths of the units somebody manages, without those below another one
\* (getManagedSubtreePaths).
ScopePaths(managed) ==
  LET paths == {path[m] : m \in managed}
  IN {p \in paths : \A q \in paths : IsPrefix(q, p) => q = p}

\* The units whose employees he sees (resolveScopePaths).
InScope(managed) == {u \in Rows : \E p \in ScopePaths(managed) : IsPrefix(p, path[u])}

\* The unit whose overtime cap holds for u: the one with the longest path that u's
\* begins with (OvertimeService.resolveCaps).
CapByPath(u, capped) ==
  LET over == {v \in capped : IsPrefix(path[v], path[u])}
  IN IF over = {} THEN Root
     ELSE CHOOSE v \in over : \A w \in over : Len(path[w]) <= Len(path[v])

-----------------------------------------------------------------------------
\* Reference, by parents alone: a set of units that has the parents of its members, and
\* the units at or above u, which are in every such set that has u.
Upward(units) == \A v \in units : parent[v] \in units \cup {Root}
Above(u) == {v \in Rows : \A units \in SUBSET Rows : u \in units /\ Upward(units) => v \in units}

\* Whatever edits overlap, as long as nobody writes from a path that another one has
\* changed meanwhile, the path of a unit is its parent's path and the unit, so there is no
\* cycle (create, move); and paths say what the parents say: the nearest unit of a kind is
\* at or above the unit and below every other one of the kind, and the scope of a manager
\* is what lies at or below his units (approval-resolver, shifts, calendars, overtime,
\* employees).
PathsTellTheTree ==
  ~ stale =>
    \A u \in Rows :
      /\ path[u] = Append(PathOf(parent[u]), u)
      /\ \A chosen \in SUBSET Rows :
           LET near == NearestByPath(u, chosen)
               kin  == chosen \cap Above(u)
           IN /\ IF kin = {} THEN near = Root
                 ELSE near \in kin /\ \A v \in kin : v \in Above(near)
              /\ CapByPath(u, chosen) = near
              /\ u \in InScope(chosen) <=> kin # {}
=============================================================================
