---------------------------- MODULE AccessState ----------------------------
(***************************************************************************)
(* What the identity and workspace requests share: the tables of           *)
(* PostgreSQL, the sessions of the handlers, the tokens clients hold, and  *)
(* the limiter's buckets.                                                  *)
(*                                                                         *)
(* `db` is committed data.  What a handler has flushed lives in its        *)
(* transaction `tx` until it commits or rolls back; the database enforces  *)
(* unique keys on both: an INSERT that meets the key of a committed row    *)
(* fails, one that meets the key of an open transaction waits for its end. *)
(*                                                                         *)
(* Data is abstracted to identity.  A request is numbered when it begins,  *)
(* and that number is the uuid4 of every row it inserts.  A slug is the    *)
(* name it was made from with 0, or with the request that had to add a     *)
(* random suffix (six hex digits, taken never to repeat).                  *)
(***************************************************************************)
EXTENDS RateLimiter, FiniteSets

CONSTANTS
  Handlers,         \* requests in progress, each with its own session
  Clients,          \* client addresses
  Emails,
  Names,            \* names of organisations and workspaces, as slugified
  Subjects,         \* account ids at the SSO provider
  None,
  AccessTtl,        \* life of an access token, in ticks
  RefreshTtl,       \* life of a refresh token, in ticks
  MaxCalls          \* bound: requests made

ASSUME AccessAssumption ==
  /\ None \notin Nat
  /\ AccessTtl \in Nat \ {0}
  /\ RefreshTtl \in Nat \ {0}
  /\ MaxCalls \in Nat

VARIABLES
  db,               \* committed rows, by table
  tx,               \* rows flushed and not yet committed, by handler and table
  inactive,         \* users an administrator has disabled
  superusers,       \* users an administrator has put above all permissions
  h,                \* handlers: where they stand and what they read
  held,             \* history: what the caller has been since the request began
  denied,           \* history: requests answered with a refusal
  tokens,           \* tokens issued, still in clients' hands
  buckets,          \* buckets of the rate limiter
  admitted,         \* history: when requests were admitted
  refused,          \* history: when requests were refused
  now,              \* the clock
  calls,            \* requests made so far
  left              \* bounds: what clients and environment may still do

vars == <<db, tx, inactive, superusers, h, held, denied, tokens, buckets, admitted,
          refused, now, calls, left>>

-----------------------------------------------------------------------------
(* Tables.                                                                  *)

Ids == 1 .. MaxCalls

Slug == Names \X (0 .. MaxCalls)

Roles == {"owner", "admin", "member", "viewer"}

User == [id : Ids, email : Emails, password : BOOLEAN]

Organization == [id : Ids, slug : Slug]

(* The column takes any text; the code only asks whether it is "active".    *)
Statuses == {"active", "suspended"}

Membership == [org : Ids, user : Ids, role : Roles, status : Statuses]

OAuthAccount == [id : Ids, subject : Subjects, user : Ids]

Workspace == [id : Ids, org : Ids, slug : Slug]

Tables == [users : SUBSET User, orgs : SUBSET Organization,
           members : SUBSET Membership, accounts : SUBSET OAuthAccount,
           workspaces : SUBSET Workspace]

NoRows == [users |-> {}, orgs |-> {}, members |-> {}, accounts |-> {},
           workspaces |-> {}]

(* Unique constraints.  uq_membership_org_user_ws has workspace_id in it,   *)
(* which is NULL in every membership of an organisation: NULLs differ, so   *)
(* it constrains nothing.                                                   *)
SameKey(t, x, y) ==
  CASE t = "users" -> x.email = y.email
    [] t = "orgs" -> x.slug = y.slug
    [] t = "accounts" -> x.subject = y.subject
    [] t = "workspaces" -> x.org = y.org /\ x.slug = y.slug
    [] t = "members" -> FALSE

-----------------------------------------------------------------------------
(* Handlers.                                                                *)

Tokens == [type : {"access", "refresh"}, user : Ids, org : Ids \cup {None}, exp : Nat]

ASSUME NoneIsNoToken == None \notin Tokens

Ops == {"register", "login", "refresh", "sso", "me", "members",
        "create", "list", "get", "delete"}

Pc == {"idle", "byEmail", "password", "account", "byId", "addUser", "slug", "addOrg",
       "addMember", "link", "choose", "commit", "issue", "token", "rights",
       "work", "wsSlug", "wsAdd", "wsDelete"}

Handler == [pc : Pc, id : Ids \cup {None}, op : Ops \cup {None},
            email : Emails \cup {None}, name : Names \cup {None},
            suffix : 0 .. MaxCalls, subject : Subjects \cup {None},
            correct : BOOLEAN, active : BOOLEAN, superuser : BOOLEAN,
            token : Tokens \cup {None}, user : Ids \cup {None},
            org : Ids \cup {None}, ws : Ids \cup {None}]

Idle == [pc |-> "idle", id |-> None, op |-> None, email |-> None, name |-> None,
         suffix |-> 0, subject |-> None, correct |-> FALSE, active |-> TRUE,
         superuser |-> FALSE, token |-> None, user |-> None, org |-> None, ws |-> None]

At(r, pc) == h[r].pc = pc

Goto(r, pc) == h' = [h EXCEPT ![r].pc = pc]

-----------------------------------------------------------------------------
(* Sessions.                                                                *)

(* What a handler's SELECT on a table returns: READ COMMITTED, and its own  *)
(* flushed rows.                                                            *)
Rows(r, t) == db[t] \cup tx[r][t]

(* Mutant: the session, and its transaction, stay open.                     *)
End_open(r) == h' = [h EXCEPT ![r] = Idle] /\ UNCHANGED tx

(* The request is over: the session closes, and what was not committed is   *)
(* rolled back.                                                             *)
End(r) ==
  /\ h' = [h EXCEPT ![r] = Idle]
  /\ tx' = [tx EXCEPT ![r] = NoRows]

(* A failure that is no AppError, 500; it may come after the commit.        *)
Fail(r) == End(r) /\ UNCHANGED <<db, denied>>

(* An AppError: 401, 403, 404 or 409.                                       *)
Refuse(r) == End(r) /\ denied' = denied \cup {h[r].id} /\ UNCHANGED db

Reply(r) == End(r) /\ UNCHANGED denied

Waits(r, t, row) == \E s \in Handlers \ {r} : \E x \in tx[s][t] : SameKey(t, x, row)

Exists(r, t, row) == \E x \in Rows(r, t) : SameKey(t, x, row)

(* add(): an INSERT, flushed.  IntegrityError is nobody's AppError: 500.    *)
Add(r, t, row, next) ==
  /\ ~Waits(r, t, row)
  /\ IF Exists(r, t, row)
     THEN Fail(r)
     ELSE /\ tx' = [tx EXCEPT ![r][t] = @ \cup {row}]
          /\ h' = [h EXCEPT ![r] = next]
          /\ UNCHANGED <<db, denied>>

Commit(r) ==
  /\ db' = [t \in DOMAIN db |-> db[t] \cup tx[r][t]]
  /\ tx' = [tx EXCEPT ![r] = NoRows]
=============================================================================
