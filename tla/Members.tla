------------------------------ MODULE Members ------------------------------
(***************************************************************************)
(* The members of a workspace (api/routers/members.py), the accounts they  *)
(* need (api/routers/auth.py) and the audit trail (audit.py).  A request    *)
(* reads its actor, its target and the number of owners in statements of    *)
(* their own and writes at the end, at READ COMMITTED: other requests       *)
(* commit in between.                                                       *)
(***************************************************************************)
EXTENDS Naturals, Sequences, FiniteSets

CONSTANTS
  User,     \* people, by their email address
  Handler,  \* concurrent requests
  NoRow,    \* no row in workspace_members
  NoUser,   \* the workspace has not been founded
  Asked,    \* bound: the roles that requests give
  MaxWrites \* bound: changes of the membership, each of them audited

VARIABLES
  open,     \* settings.allow_open_registration
  accounts, \* the users table
  founder,  \* whose registration created the workspace
  member,   \* workspace_members: [id, role]
  req,      \* the local state of each request
  trail,    \* audit_events about members, in commit order
  raced,    \* history: a request took an owner away after another committed
  phantom   \* history: users whose removal found the row already gone

vars == <<open, accounts, founder, member, req, trail, raced, phantom>>

Rank == [viewer |-> 0, member |-> 1, admin |-> 2, owner |-> 3]
Role == DOMAIN Rank
Manages == {"admin", "owner"}  \* rbac.py: the roles with members.manage

Idle == [pc |-> "idle"]
Finish(h) == req' = [req EXCEPT ![h] = Idle]

Owners == {u \in User : member[u] # NoRow /\ member[u].role = "owner"}

-----------------------------------------------------------------------------
(* register: counts the users, looks for the email, inserts.               *)

BeginRegister(h, u) ==
  /\ req[h] = Idle
  /\ open \/ accounts = {}
  /\ u \notin accounts
  /\ req' = [req EXCEPT ![h] = [pc |-> "register", user |-> u]]
  /\ UNCHANGED <<open, accounts, founder, member, trail, raced, phantom>>

\* The email is unique: of two requests for it, one fails.  The first account
\* founds the workspace; the workspaces of the others are not modelled.
InsertAccount(h) ==
  /\ req[h].pc = "register"
  /\ LET u == req[h].user IN
     /\ accounts' = accounts \cup {u}
     /\ IF founder = NoUser
          THEN /\ founder' = u
               /\ member' = [member EXCEPT ![u] = [id |-> 0, role |-> "owner"]]
          ELSE UNCHANGED <<founder, member>>
  /\ Finish(h)
  /\ UNCHANGED <<open, trail, raced, phantom>>

-----------------------------------------------------------------------------
(* add_member, change_role and remove_member.                              *)

\* get_actor and require: the caller's role as it is now; nobody hands out a
\* role above it.
Begin(h, actor, op, u, role) ==
  /\ req[h] = Idle /\ Len(trail) < MaxWrites
  /\ member[actor] # NoRow /\ member[actor].role \in Manages
  /\ op # "remove" => Rank[role] <= Rank[member[actor].role]
  /\ req' = [req EXCEPT ![h] =
               [pc |-> "read", op |-> op, user |-> u, role |-> role]]
  /\ UNCHANGED <<open, accounts, founder, member, trail, raced, phantom>>

TakesOwner(k, row) ==
  row # NoRow /\ row.role = "owner" /\ (k.op = "remove" \/ k.role # "owner")

\* The target's row, with the refusals that follow from it (404, 409).
ReadTarget(h) ==
  /\ req[h].pc = "read"
  /\ LET k == req[h]
         row == member[k.user] IN
     IF (k.op = "add") # (row = NoRow) \/ (k.op = "add" /\ k.user \notin accounts)
       THEN Finish(h)
       ELSE req' = [req EXCEPT ![h] =
              [pc |-> IF TakesOwner(k, row) THEN "count" ELSE "write",
               op |-> k.op, user |-> k.user, role |-> k.role, row |-> row,
               stale |-> FALSE]]
  /\ UNCHANGED <<open, accounts, founder, member, trail, raced, phantom>>

\* (Mutation: off by one.)
CountOwnersLoosely(h) ==
  /\ req[h].pc = "count"
  /\ IF Cardinality(Owners) = 0
       THEN Finish(h)
       ELSE req' = [req EXCEPT ![h].pc = "write"]
  /\ UNCHANGED <<open, accounts, founder, member, trail, raced, phantom>>

\* The last owner stays.
CountOwners(h) ==
  /\ req[h].pc = "count"
  /\ IF Cardinality(Owners) = 1
       THEN Finish(h)
       ELSE req' = [req EXCEPT ![h].pc = "write"]
  /\ UNCHANGED <<open, accounts, founder, member, trail, raced, phantom>>

\* The commit: the row and its audit event together; every other request that
\* has read its target now works with an old picture.
Commit(h, row, newRole) ==
  LET u == req[h].user IN
  /\ member' = [member EXCEPT ![u] = row]
  /\ trail' = Append(trail,
       [user |-> u, new |-> newRole,
        previous |-> IF req[h].row = NoRow THEN "none" ELSE req[h].row.role])
  /\ req' = [g \in Handler |->
       IF g = h THEN Idle
       ELSE IF req[g].pc \in {"count", "write"} THEN [req[g] EXCEPT !.stale = TRUE]
       ELSE req[g]]
  /\ raced' = (raced \/ (req[h].stale /\ u \in Owners
                           /\ (row = NoRow \/ row.role # "owner")))
  /\ UNCHANGED <<open, accounts, founder>>

Rollback(h) ==
  /\ Finish(h)
  /\ UNCHANGED <<open, accounts, founder, member, trail, raced, phantom>>

\* (workspace, user) is unique: a second insert fails.
WriteAdd(h) ==
  /\ req[h].pc = "write" /\ req[h].op = "add"
  /\ IF member[req[h].user] # NoRow
       THEN Rollback(h)
       ELSE /\ Commit(h, [id |-> Len(trail) + 1, role |-> req[h].role],
                      req[h].role)
            /\ UNCHANGED phantom

SameRow(h) == LET now == member[req[h].user] IN
              now # NoRow /\ now.id = req[h].row.id

\* (Mutation: the audit event is committed although the row is gone.)
WriteRoleAnyway(h) ==
  /\ req[h].pc = "write" /\ req[h].op = "change"
  /\ LET k == req[h] IN
     Commit(h, IF SameRow(h) THEN [k.row EXCEPT !.role = k.role]
               ELSE member[k.user], k.role)
  /\ UNCHANGED phantom

\* A role that is the one that was read is not written; an update that finds
\* its row gone fails, and with it the audit event.
WriteRole(h) ==
  /\ req[h].pc = "write" /\ req[h].op = "change"
  /\ LET k == req[h] IN
     IF k.role = k.row.role
       THEN Commit(h, member[k.user], k.role) /\ UNCHANGED phantom
     ELSE IF SameRow(h)
       THEN Commit(h, [k.row EXCEPT !.role = k.role], k.role) /\ UNCHANGED phantom
     ELSE Rollback(h)

\* A delete that finds its row gone is no error.
WriteRemoval(h) ==
  /\ req[h].pc = "write" /\ req[h].op = "remove"
  /\ LET u == req[h].user IN
     /\ Commit(h, IF SameRow(h) THEN NoRow ELSE member[u], "none")
     /\ phantom' = IF SameRow(h) THEN phantom ELSE phantom \cup {u}

\* The process dies, or the audit event cannot be written: record() swallows
\* the error, but the session is spoilt and its commit fails.
Fail(h) == req[h] # Idle /\ Rollback(h)

-----------------------------------------------------------------------------
Init ==
  /\ open \in BOOLEAN
  /\ accounts = {} /\ founder = NoUser
  /\ member = [u \in User |-> NoRow]
  /\ req = [h \in Handler |-> Idle]
  /\ trail = <<>> /\ raced = FALSE /\ phantom = {}

Step(h) ==
  \/ \E u \in User : BeginRegister(h, u)
  \/ InsertAccount(h)
  \/ \E a, u \in User, op \in {"add", "change"}, r \in Asked : Begin(h, a, op, u, r)
  \/ \E a, u \in User : Begin(h, a, "remove", u, "viewer")
  \/ ReadTarget(h) \/ CountOwners(h)
  \/ WriteAdd(h) \/ WriteRole(h) \/ WriteRemoval(h)
  \/ Fail(h)

Next == \E h \in Handler : Step(h)

Spec == Init /\ [][Next]_vars

-----------------------------------------------------------------------------
(* Properties.                                                             *)

Row == [id: Nat, role: Role]
ReqType ==
  {Idle} \cup [pc: {"register"}, user: User]
    \cup [pc: {"read"}, op: {"add", "change", "remove"}, user: User, role: Role]
    \cup [pc: {"count", "write"}, op: {"add", "change", "remove"}, user: User,
          role: Role, row: Row \cup {NoRow}, stale: BOOLEAN]

TypeOK ==
  /\ open \in BOOLEAN /\ raced \in BOOLEAN
  /\ accounts \subseteq User /\ phantom \subseteq User
  /\ founder \in accounts \cup {NoUser}
  /\ member \in [User -> Row \cup {NoRow}]
  /\ req \in [Handler -> ReqType]
  /\ trail \in Seq([user: User, new: Role \cup {"none"},
                    previous: Role \cup {"none"}])

\* A workspace keeps an owner, unless the request that took the last one away
\* had read its target before another request committed (members.py: "The last
\* owner cannot be demoted or removed"; nothing locks the rows it counts).
OwnerRemains == founder # NoUser => Owners # {} \/ raced

\* "Every change is audited" (members.py): replayed, the trail gives the table.
\* An event whose role was already there changed nothing; a removal that found
\* its row gone says what did not happen.
LastChange(u) ==
  LET hits == {i \in DOMAIN trail :
                 trail[i].user = u /\ trail[i].new # trail[i].previous} IN
  IF hits = {}
    THEN IF u = founder THEN "owner" ELSE "none"
    ELSE trail[CHOOSE i \in hits : \A j \in hits : j <= i].new

TrailExplains ==
  \A u \in User \ phantom :
    LastChange(u) = IF member[u] = NoRow THEN "none" ELSE member[u].role

=============================================================================
