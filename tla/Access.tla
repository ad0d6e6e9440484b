------------------------------- MODULE Access -------------------------------
(***************************************************************************)
(* Requests to the identity and workspace API from their arrival at the    *)
(* rate limiter to their answer, any number of them at once, with an       *)
(* administrator who changes roles, suspends and removes members, disables *)
(* users and makes them superusers, all in the database, and with requests *)
(* that die on the way.                                                    *)
(***************************************************************************)
EXTENDS Workspaces, FiniteSetsExt

CONSTANTS
  Grants,           \* roles the administrator gives
  MaxTime,          \* bound: ticks of the clock
  Budgets           \* bounds: what clients and environment may do, see Budget

(* A budget: who calls what, how often and how many at once, and how many   *)
(* ticks, lost requests and changes by the administrator there may be       *)
(* meanwhile.                                                               *)
Budget == [handlers : SUBSET Handlers, clients : SUBSET Clients, ops : SUBSET Ops,
           calls : 0 .. MaxCalls, ticks : 0 .. MaxTime, aborts : Nat, changes : Nat]

ASSUME BudgetAssumption ==
  /\ MaxTime \in Nat
  /\ Grants \subseteq Roles
  /\ Budgets \subseteq Budget

(* What there is to see of a request without a token.                       *)
Nobody == [memberships |-> {}, active |-> FALSE, superuser |-> FALSE]

Init ==
  /\ db = NoRows
  /\ tx = [r \in Handlers |-> NoRows]
  /\ inactive = {}
  /\ superusers = {}
  /\ h = [r \in Handlers |-> Idle]
  /\ held = [r \in Handlers |-> Nobody]
  /\ denied = {}
  /\ tokens = {}
  /\ buckets = [k \in Clients \X Groups |-> NoBucket]
  /\ admitted = [k \in Clients \X Groups |-> [t \in 0 .. MaxTime |-> 0]]
  /\ refused = {}
  /\ now = 0
  /\ calls = 0
  /\ left \in Budgets

Spend(what) == left[what] > 0 /\ left' = [left EXCEPT ![what] = @ - 1]

-----------------------------------------------------------------------------
(* Arrival.                                                                 *)

(* The first position of an operation, and what its body and headers bring. *)
Start(op) ==
  CASE op = "register" -> "byEmail"
    [] op = "login" -> "password"
    [] op = "sso" -> "account"
    [] OTHER -> "token"

Blank(op) == [Idle EXCEPT !.op = op, !.id = calls + 1, !.pc = Start(op)]

SignUp(q, e, n) == [q EXCEPT !.email = e, !.name = n]

LogIn(q, e, n, c) == [q EXCEPT !.email = e, !.name = n, !.correct = c]

(* What the provider says of who signs on: a new subject may bring any      *)
(* address.  A failed exchange is refused before the service is called.     *)
oauth_callback(q, s, e, n) == [q EXCEPT !.subject = s, !.email = e, !.name = n]

Bearing(q, t) == [q EXCEPT !.token = t]

Naming(q, t, n) == [q EXCEPT !.token = t, !.name = n]

Aiming(q, t, w) == [q EXCEPT !.token = t, !.ws = w]

Requests(op) ==
  LET blank == Blank(op) IN
  CASE op = "register" -> {SignUp(blank, e, n) : e \in Emails, n \in Names}
    [] op = "login" ->
         {LogIn(blank, e, n, c) : e \in Emails, n \in Names \cup {None}, c \in BOOLEAN}
    [] op = "sso" ->
         {oauth_callback(blank, s, e, n) : s \in Subjects, e \in Emails, n \in Names}
    [] op = "create" -> {Naming(blank, t, n) : t \in tokens, n \in Names}
    [] op \in {"get", "delete"} -> {Aiming(blank, t, w) : t \in tokens, w \in 1 .. calls}
    [] OTHER -> {Bearing(blank, t) : t \in tokens}

(* What the bearer of a token is now, in the organisation it names.         *)
Standing(t) == [memberships |-> MembershipsIn(db.members, t.user, t.org),
                active |-> Active(t.user), superuser |-> Superuser(t.user)]

(* RateLimitMiddleware stands before everything else.                       *)
arrive(r) ==
  /\ At(r, "idle")
  /\ r \in left.handlers
  /\ Spend("calls")
  /\ calls' = calls + 1
  /\ \E c \in left.clients, op \in left.ops : \E q \in Requests(op) :
       LET k == <<c, Group(op)>> IN
       /\ buckets' = [buckets EXCEPT ![k] = Hit(@, now)]
       /\ IF Allowed(buckets'[k])
          THEN /\ h' = [h EXCEPT ![r] = q]
               /\ admitted' = [admitted EXCEPT ![k][now] = @ + 1]
               /\ held' = [held EXCEPT ![r] = IF q.token = None THEN Nobody ELSE Standing(q.token)]
               /\ UNCHANGED <<denied, refused>>
          ELSE /\ denied' = denied \cup {q.id}
               /\ refused' = refused \cup {<<k, now>>}
               /\ UNCHANGED <<h, held, admitted>>
  /\ UNCHANGED <<db, tx, inactive, superusers, tokens, now>>

handle(r) ==
  /\ Authenticate(r) \/ Work(r)
  /\ UNCHANGED <<inactive, superusers, held, buckets, admitted, refused, now, calls, left>>

-----------------------------------------------------------------------------
(* The environment.                                                         *)

(* The request dies: the client goes away, the connection breaks.           *)
abort(r) ==
  /\ ~At(r, "idle")
  /\ Spend("aborts")
  /\ Fail(r)
  /\ UNCHANGED <<inactive, superusers, held, tokens, buckets, admitted, refused, now, calls>>

tick ==
  /\ now < MaxTime
  /\ Spend("ticks")
  /\ now' = now + 1
  /\ UNCHANGED <<db, tx, inactive, superusers, h, held, denied, tokens, buckets, admitted,
                refused, calls>>

(* No code changes a role, a status or a flag, and none adds a member to an *)
(* organisation that exists or removes one: an administrator does it in the *)
(* database.                                                                *)
set_role ==
  /\ \E m \in db.members : \E role \in Grants \ {m.role} :
       db' = [db EXCEPT !.members = (@ \ {m}) \cup {[m EXCEPT !.role = role]}]
  /\ UNCHANGED <<inactive, superusers>>

set_status ==
  /\ \E m \in db.members : \E status \in Statuses \ {m.status} :
       db' = [db EXCEPT !.members = (@ \ {m}) \cup {[m EXCEPT !.status = status]}]
  /\ UNCHANGED <<inactive, superusers>>

add_member ==
  /\ \E u \in db.users, o \in db.orgs, role \in Grants :
       /\ MembershipsIn(db.members, u.id, o.id) = {}
       /\ db' = [db EXCEPT !.members = @ \cup
                   {[org |-> o.id, user |-> u.id, role |-> role, status |-> "active"]}]
  /\ UNCHANGED <<inactive, superusers>>

(* Nobody is removed from the organisation that came with the account.      *)
remove_member ==
  /\ \E m \in db.members :
       /\ m.user # m.org
       /\ db' = [db EXCEPT !.members = @ \ {m}]
  /\ UNCHANGED <<inactive, superusers>>

Toggle(users, u) == IF u \in users THEN users \ {u} ELSE users \cup {u}

set_active ==
  /\ \E u \in db.users : inactive' = Toggle(inactive, u.id)
  /\ UNCHANGED <<db, superusers>>

set_superuser ==
  /\ \E u \in db.users : superusers' = Toggle(superusers, u.id)
  /\ UNCHANGED <<db, inactive>>

administer ==
  /\ Spend("changes")
  /\ set_role \/ set_status \/ add_member \/ remove_member \/ set_active \/ set_superuser
  /\ held' = [r \in Handlers |->
       IF h[r].token = None THEN held[r]
       ELSE LET t == h[r].token IN
            [memberships |-> held[r].memberships \cup MembershipsIn(db'.members, t.user, t.org),
             active |-> held[r].active \/ t.user \notin inactive',
             superuser |-> held[r].superuser \/ t.user \in superusers']]
  /\ UNCHANGED <<tx, h, denied, tokens, buckets, admitted, refused, now, calls>>

Next ==
  \/ \E r \in Handlers : arrive(r) \/ handle(r) \/ abort(r)
  \/ tick
  \/ administer

Spec == Init /\ [][Next]_vars

(* The event loop resumes every request in progress, and an INSERT that     *)
(* waits is woken when the transaction it waits for ends.                   *)
Fairness == \A r \in Handlers : WF_vars(handle(r))

FairSpec == Spec /\ Fairness

-----------------------------------------------------------------------------
TypeOK ==
  /\ db \in Tables
  /\ tx \in [Handlers -> Tables]
  /\ inactive \subseteq Ids
  /\ superusers \subseteq Ids
  /\ h \in [Handlers -> Handler]
  /\ held \in [Handlers -> [memberships : SUBSET Membership, active : BOOLEAN, superuser : BOOLEAN]]
  /\ denied \subseteq Ids
  /\ tokens \subseteq Tokens
  /\ buckets \in [Clients \X Groups -> Bucket]
  /\ admitted \in [Clients \X Groups -> [0 .. MaxTime -> Nat]]
  /\ refused \subseteq (Clients \X Groups) \X (0 .. MaxTime)
  /\ now \in 0 .. MaxTime
  /\ calls \in 0 .. MaxCalls
  /\ left \in Budget

(* An account never exists without an organisation of its own: whoever was  *)
(* answered 500, died on the way or lost a race for an e-mail or a slug has *)
(* left neither a user without a home nor an organisation without a member, *)
(* and tokens are only ever issued to committed accounts, for a committed   *)
(* organisation, where its founder still is, or for none.                   *)
EveryAccountHasAHome ==
  /\ \A u \in db.users : \E m \in db.members : m.user = u.id /\ m.org = u.id
  /\ \A o \in db.orgs : \E m \in db.members : m.org = o.id
  /\ \A a \in db.accounts : \E u \in db.users : u.id = a.user
  /\ \A t \in tokens : /\ \E u \in db.users : u.id = t.user
                       /\ t.org # None => \E m \in db.members : m.user = t.org /\ m.org = t.org

(* Who is told no leaves nothing behind, though the answer may come after   *)
(* rows were flushed: a disabled user's first sign-on is refused after the  *)
(* link is inserted.  (A 500 may also be an answer lost after the commit.)  *)
RefusalsLeaveNothing ==
  \A x \in db.users \cup db.orgs \cup db.accounts \cup db.workspaces : x.id \notin denied

(* What a request may do as its caller: an account that was enabled, and a  *)
(* right it held by some membership of the organisation, or as a superuser, *)
(* at some moment since the request began.                                  *)
Entitled(r) ==
  /\ held[r].active
  /\ HasPermissions(held[r].superuser, held[r].memberships, h[r].op)

AtWork(r) == h[r].pc \in {"work", "wsSlug", "wsAdd", "wsDelete"}

(* Whoever works on behalf of a token is entitled to it: a role that was    *)
(* taken away, a membership that was removed, a superuser who no longer is  *)
(* one or an account disabled, before the request came, is not honoured,    *)
(* however long the token still lives.  A suspended membership counts like  *)
(* any other: that is what the code does, see SuspendedHaveNoRights.        *)
NoStaleAuthority == \A r \in Handlers : AtWork(r) => Entitled(r)

(* What the status of a membership suggests, and the code does not do: a    *)
(* membership that was suspended before the request came gives no right.    *)
SuspendedHaveNoRights ==
  \A r \in Handlers : AtWork(r) =>
    HasPermissions(held[r].superuser,
                   {m \in held[r].memberships : m.status = "active"}, h[r].op)

-----------------------------------------------------------------------------
(* Workspaces appear and disappear only by requests of a caller entitled to *)
(* that in their organisation: by a create or a delete, under a token of    *)
(* the organisation, with a right of the caller there.                      *)
WorkspacesChangeAtHome ==
  [][/\ \A w \in db'.workspaces \ db.workspaces : \E r \in Handlers :
          h[r].op = "create" /\ h[r].token.org = w.org /\ Entitled(r)
     /\ \A w \in db.workspaces \ db'.workspaces : \E r \in Handlers :
          h[r].op = "delete" /\ h[r].token.org = w.org /\ Entitled(r)]_vars

(* The limiter's promise, and its price.  In any span as long as a window   *)
(* fewer than twice the limit are admitted; and nobody is refused who was   *)
(* not admitted Limit times within the window before.                       *)
AdmittedIn(k, from, to) ==
  MapThenSumSet(LAMBDA t : admitted[k][t], {t \in 0 .. MaxTime : from <= t /\ t <= to})

LimitsAreFair ==
  /\ Limit > 0 => \A k \in Clients \X Groups : \A t \in 0 .. MaxTime :
                    AdmittedIn(k, t, t + Window - 1) < 2 * Limit
  /\ \A x \in refused : AdmittedIn(x[1], x[2] - Window + 1, x[2]) >= Limit

(* Every request that got past the limiter is answered: the INSERTs that    *)
(* wait for one another's transactions never wait in a circle.              *)
EveryCallEnds == \A r \in Handlers : ~At(r, "idle") ~> At(r, "idle")

(* What identity promises.                                                  *)
D == INSTANCE Directory WITH
       Account <- Ids,
       holder <- {<<u.email, u.id>> : u \in db.users},
       home <- {<<m.user, m.org>> : m \in {x \in db.members : x.user = x.org}},
       link <- {<<a.subject, a.user>> : a \in db.accounts},
       space <- db.workspaces

ImplementsDirectory == D!DirectorySpec
=============================================================================
