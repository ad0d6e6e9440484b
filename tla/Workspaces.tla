----------------------------- MODULE Workspaces -----------------------------
(***************************************************************************)
(* Requests that carry an access token: the principal built from it, the   *)
(* permission its route requires, and the workspace operations behind it.  *)
(*                                                                         *)
(*   token -> rights -> work [-> wsSlug -> wsAdd | -> wsDelete]            *)
(***************************************************************************)
EXTENDS Accounts

-----------------------------------------------------------------------------
(* The roles, as the first migration seeds them.                            *)

ReadOnly == {"org:read", "workspace:read", "documents:read", "chat:read",
             "search:read", "members:read"}

MemberPermissions ==
  ReadOnly \cup {"workspace:write", "documents:write", "chat:write", "agents:run"}

AdminPermissions ==
  MemberPermissions \cup
    {"workspace:admin", "documents:delete", "analytics:read", "members:invite",
     "members:manage", "apikeys:manage", "audit:read"}

ROLE_PERMISSIONS ==
  [role \in Roles |-> CASE role = "owner" -> AdminPermissions \cup {"org:admin"}
                        [] role = "admin" -> AdminPermissions
                        [] role = "member" -> MemberPermissions
                        [] role = "viewer" -> ReadOnly]

(* require_permission of each route; /auth/me requires none.                *)
Required(op) ==
  CASE op \in {"create", "delete"} -> {"workspace:admin"}
    [] op \in {"list", "get"} -> {"workspace:read"}
    [] op = "members" -> {"members:read"}
    [] OTHER -> {}

-----------------------------------------------------------------------------
(* get_current_principal, once per request, and ensure_permission.          *)

(* memberships.get, by which rights are computed: status is not asked for.  *)
MembershipsIn(members, user, org) == {m \in members : m.user = user /\ m.org = org}

(* get_permission_codes of the roles.                                       *)
Permissions(memberships) == UNION {ROLE_PERMISSIONS[m.role] : m \in memberships}

(* Principal.has_permission: a superuser has them all.                      *)
HasPermissions(superuser, memberships, op) ==
  superuser \/ Required(op) \subseteq Permissions(memberships)

(* _build_principal reads the membership of the token's organisation and    *)
(* the permissions of its role; no organisation or no membership, no        *)
(* permissions.  Every route but /auth/me then asserts that there is an     *)
(* organisation: a superuser without one is answered 500.                   *)
build_principal(r) ==
  /\ At(r, "rights")
  /\ LET memberships == MembershipsIn(db.members, h[r].user, h[r].org) IN
     IF ~HasPermissions(h[r].superuser, memberships, h[r].op)
     THEN Refuse(r)
     ELSE IF h[r].op # "me" /\ h[r].org = None
     THEN Fail(r)
     ELSE Goto(r, "work") /\ UNCHANGED <<db, tx, denied>>
  /\ UNCHANGED tokens

-----------------------------------------------------------------------------
(* The operations.                                                          *)

(* /auth/me, /users/members and GET /workspaces: reads of the caller's own  *)
(* organisation, whose results are left out.                                *)
read_own(r) ==
  /\ At(r, "work")
  /\ h[r].op \in {"me", "members", "list"}
  /\ Reply(r)
  /\ UNCHANGED <<db, tokens>>

(* Mutant: the workspace is looked up by its id alone.                      *)
get_workspace_any(r) ==
  /\ At(r, "work")
  /\ h[r].op \in {"get", "delete"}
  /\ LET found == {w \in db.workspaces : w.id = h[r].ws} IN
     CASE found = {} -> Refuse(r)
       [] found # {} /\ h[r].op = "get" -> Reply(r) /\ UNCHANGED db
       [] found # {} /\ h[r].op = "delete" -> Goto(r, "wsDelete") /\ UNCHANGED <<db, tx, denied>>
  /\ UNCHANGED tokens

(* WorkspaceService.get: another organisation's workspace is not found.     *)
get_workspace(r) ==
  /\ At(r, "work")
  /\ h[r].op \in {"get", "delete"}
  /\ LET found == {w \in db.workspaces : w.id = h[r].ws /\ w.org = h[r].org} IN
     CASE found = {} -> Refuse(r)
       [] found # {} /\ h[r].op = "get" -> Reply(r) /\ UNCHANGED db
       [] found # {} /\ h[r].op = "delete" -> Goto(r, "wsDelete") /\ UNCHANGED <<db, tx, denied>>
  /\ UNCHANGED tokens

(* DELETE and COMMIT: whoever needs the row between the two waits for the   *)
(* second, so they are one step.  A row already gone is no error.           *)
delete_workspace(r) ==
  /\ At(r, "wsDelete")
  /\ db' = [db EXCEPT !.workspaces = {w \in @ : w.id # h[r].ws}]
  /\ Reply(r)
  /\ UNCHANGED tokens

(* create: slug, INSERT, COMMIT.                                            *)
workspace_slug(r) ==
  /\ At(r, "work")
  /\ h[r].op = "create"
  /\ LET taken == \E w \in db.workspaces : w.org = h[r].org /\ w.slug = <<h[r].name, 0>>
     IN h' = [h EXCEPT ![r].pc = "wsSlug", ![r].suffix = IF taken THEN h[r].id ELSE 0]
  /\ UNCHANGED <<db, tx, denied, tokens>>

add_workspace(r) ==
  /\ At(r, "wsSlug")
  /\ Add(r, "workspaces", [id |-> h[r].id, org |-> h[r].org, slug |-> <<h[r].name, h[r].suffix>>],
         [h[r] EXCEPT !.pc = "wsAdd", !.ws = h[r].id])
  /\ UNCHANGED tokens

commit_workspace(r) ==
  /\ At(r, "wsAdd")
  /\ db' = [t \in DOMAIN db |-> db[t] \cup tx[r][t]]
  /\ Reply(r)
  /\ UNCHANGED tokens

Work(r) ==
  \/ build_principal(r) \/ read_own(r) \/ get_workspace(r) \/ delete_workspace(r)
  \/ workspace_slug(r) \/ add_workspace(r) \/ commit_workspace(r)
=============================================================================
