--------------------------- MODULE Access_proofs ---------------------------
(***************************************************************************)
(* Accounts come with their homes, refusals leave nothing, and no request  *)
(* works with an authority its caller has lost: for any handlers, clients, *)
(* names and bounds.                                                       *)
(***************************************************************************)
EXTENDS Access, Folding_proofs

-----------------------------------------------------------------------------
(* The inductive invariant: what requests carry from step to step, and      *)
(* which rows they may have flushed or committed by then.                   *)

TokenOps == {"refresh", "me", "members", "create", "list", "get", "delete"}

Joining == {"slug", "addOrg", "addMember"}

Joined == {"link", "choose", "commit"}

Working == {"work", "wsSlug", "wsAdd", "wsDelete"}

(* A request carries what its route requires, and stands in its own part of *)
(* the code.                                                                *)
Carries(q) ==
  IF q.pc = "idle" THEN q = Idle
  ELSE /\ q.op \in Ops
       /\ q.op \in {"register", "sso"} => q.email \in Emails /\ q.name \in Names
       /\ q.op = "sso" => q.subject \in Subjects
       /\ q.op = "create" => q.name \in Names
       /\ IF q.op \in TokenOps THEN q.token \in Tokens ELSE q.token = None
       /\ q.pc \in {"password"} => q.op = "login"
       /\ q.pc \in {"account", "byId", "link"} => q.op = "sso"
       /\ q.pc \in {"byEmail", "addUser"} \cup Joining => q.op \in {"register", "sso"}
       /\ q.pc = "choose" => q.op \in {"login", "sso"}
       /\ q.pc = "commit" => q.op \in {"register", "login", "sso"}
       /\ q.pc = "token" => q.op \in TokenOps
       /\ q.pc \in {"rights"} \cup Working =>
            q.op \in TokenOps \ {"refresh"} /\ q.user = q.token.user /\ q.org = q.token.org
       /\ q.pc \in Working /\ q.op # "me" => q.org # None
       /\ q.pc \in {"wsSlug", "wsAdd"} => q.op = "create"
       /\ q.pc = "wsDelete" => q.op = "delete"

CallsCarry == \A r \in Handlers : Carries(h[r])

(* Every row bears the number of the request that made it, or belongs to    *)
(* that request's organisation.                                             *)
Makers(t) ==
  {x.id : x \in t.users} \cup {x.id : x \in t.orgs} \cup {x.id : x \in t.accounts}
    \cup {x.id : x \in t.workspaces} \cup {m.org : m \in t.members}

(* Requests have numbers of their own; what is committed stems from one     *)
(* that was not refused and has nothing left to do but issue tokens.        *)
RowsHaveMakers ==
  /\ denied \subseteq 1 .. calls
  /\ Makers(db) \subseteq (1 .. calls) \ denied
  /\ \A r \in Handlers :
       /\ Makers(tx[r]) \subseteq {h[r].id}
       /\ ~At(r, "idle") => h[r].id \in (1 .. calls) \ denied
       /\ h[r].id \in Makers(db) => At(r, "issue")
       /\ \A s \in Handlers : r # s /\ ~At(r, "idle") => h[r].id # h[s].id

HasUser(users, u) == \E x \in users : x.id = u

Belongs(members, u, o) == \E m \in members : m.user = u /\ m.org = o

(* An organisation that has its founder; None is no organisation at all.    *)
Founded(members, o) == o = None \/ Belongs(members, o, o)

(* A new user and the organisation it owns are flushed one after the other  *)
(* and wait for each other; what a request or its token acts for is an      *)
(* organisation that has its founder, or none.                              *)
Home(q, t, users, members) ==
  /\ q.pc # "wsAdd" => t.workspaces = {}
  /\ q.pc \notin Joining \cup Joined =>
       t.users = {} /\ t.orgs = {} /\ t.members = {} /\ t.accounts = {}
  /\ q.pc \in Joining =>
       /\ t.members = {} /\ t.accounts = {}
       /\ q.user = q.id /\ HasUser(t.users, q.id)
       /\ \A u \in t.users : u.id = q.id
  /\ q.pc \in {"slug", "addOrg"} => t.orgs = {}
  /\ q.pc = "addMember" => q.org = q.id /\ \A o \in t.orgs : o.id = q.id
  /\ q.pc \in Joined =>
       /\ \A u \in t.users : Belongs(t.members, u.id, u.id)
       /\ \A o \in t.orgs : \E m \in t.members : m.org = o.id
       /\ \A m \in t.members : m.user = q.id /\ m.org = q.id
       /\ t.users = {} => t.members = {}
       /\ t.users # {} => q.user = q.id
       /\ \A a \in t.accounts : a.user = q.user
  /\ q.pc = "link" => t.accounts = {}
  /\ \A w \in t.workspaces : w.org = q.org
  /\ q.pc \in Joined \cup {"byId"} =>
       HasUser(users \cup t.users, q.user)
  /\ q.pc = "commit" => Founded(members \cup t.members, q.org)
  /\ q.pc = "issue" => HasUser(users, q.user) /\ Founded(members, q.org)
  /\ q.token # None => HasUser(users, q.token.user) /\ Founded(members, q.token.org)

HomesComeAlong == \A r \in Handlers : Home(h[r], tx[r], db.users, db.members)

(* What a caller has been seen to hold is all it holds now, and what it is  *)
(* trusted with is covered by it.                                           *)
Seen == [memberships : SUBSET Membership, active : BOOLEAN, superuser : BOOLEAN]

Covers(seen, op) == seen.active /\ HasPermissions(seen.superuser, seen.memberships, op)

Trusted(q, seen, members, disabled, exalted) ==
  /\ q.token # None =>
       /\ MembershipsIn(members, q.token.user, q.token.org) \subseteq seen.memberships
       /\ q.token.user \notin disabled => seen.active
       /\ q.token.user \in exalted => seen.superuser
  /\ q.pc = "rights" => seen.active /\ (q.superuser => seen.superuser)
  /\ q.pc \in Working => Covers(seen, q.op)

TrustIsEarned == \A r \in Handlers : Trusted(h[r], held[r], db.members, inactive, superusers)

(* Flushed or committed, a key and a number stand for one row.              *)
Keyed == {"users", "orgs", "accounts", "workspaces"}

AllRows(t) == db[t] \cup UNION {tx[r][t] : r \in Handlers}

KeysAreUnique ==
  \A t \in Keyed : \A x, y \in AllRows(t) : SameKey(t, x, y) \/ x.id = y.id => x = y

(* An organisation with members has the member it was created with.         *)
FoundersStay == \A m \in db.members : Belongs(db.members, m.org, m.org)

(* What is about to be deleted belongs to the caller, and will not be made  *)
(* again under the same number.                                             *)
Aimed(q) ==
  /\ q.ws \in 1 .. calls
  /\ \A w \in AllRows("workspaces") : w.id = q.ws => w.org = q.org
  /\ \A s \in Handlers : h[s].id = q.ws => At(s, "issue")

AimsHold == \A r \in Handlers : At(r, "wsDelete") => Aimed(h[r])

CallsAreCounted == calls + left.calls <= MaxCalls

AccessInv ==
  /\ TypeOK
  /\ CallsAreCounted
  /\ CallsCarry
  /\ RowsHaveMakers
  /\ HomesComeAlong
  /\ TrustIsEarned
  /\ EveryAccountHasAHome
  /\ KeysAreUnique
  /\ FoundersStay
  /\ AimsHold

-----------------------------------------------------------------------------
USE AccessAssumption, NoneIsNoToken

LEMMA Constants ==
  /\ Idle \in Handler /\ NoRows \in Tables
  /\ Makers(NoRows) = {}
  /\ Carries(Idle)
<1>1. Idle \in Handler
    BY DEF Idle, Handler, Pc, Ops
<1>2. NoRows \in Tables
    BY DEF NoRows, Tables
<1>3. Makers(NoRows) = {}
    BY DEF NoRows, Makers
<1>4. Carries(Idle)
    BY DEF Carries, Idle
<1> QED BY <1>1, <1>2, <1>3, <1>4

(* One table of users keeps the users of another, and one of members its    *)
(* founders.                                                                *)
Grows(users, members, users2, members2) ==
  /\ \A u : HasUser(users, u) => HasUser(users2, u)
  /\ \A o : Belongs(members, o, o) => Belongs(members2, o, o)

(* What a request holds it goes on holding while others commit.             *)
LEMMA HomeStays ==
  ASSUME NEW q, NEW t, NEW users, NEW members, NEW users2, NEW members2,
         Home(q, t, users, members), Grows(users, members, users2, members2)
  PROVE  Home(q, t, users2, members2)
<1>1. ASSUME NEW u, HasUser(users \cup t.users, u) PROVE HasUser(users2 \cup t.users, u)
    BY <1>1 DEF Grows, HasUser
<1>2. ASSUME NEW o, Founded(members \cup t.members, o) PROVE Founded(members2 \cup t.members, o)
    BY <1>2 DEF Grows, Founded, Belongs
<1>3. ASSUME NEW o, Founded(members, o) PROVE Founded(members2, o)
    BY <1>3 DEF Grows, Founded
<1> QED BY <1>1, <1>2, <1>3 DEF Home, Grows

-----------------------------------------------------------------------------
(* A step of one handler keeps the invariant if what it leaves behind for   *)
(* itself is in order, it changes no row others rely on, and new            *)
(* memberships are in organisations nobody has heard of.                    *)
Untouched ==
  /\ UNCHANGED <<inactive, superusers, held, buckets, admitted, refused, now, calls>>
  /\ left' \in Budget /\ left'.calls = left.calls

(* Where the rows of a step come from.                                      *)
NewRowsAreOwn(r) ==
  \A w \in AllRows("workspaces")' :
    w \in AllRows("workspaces") \/ (w.id = h[r].id /\ ~At(r, "issue"))

LEMMA OneStep ==
  ASSUME AccessInv, NEW r \in Handlers, NEW q \in Handler, NEW t \in Tables,
         ~At(r, "idle"), Untouched,
         h' = [h EXCEPT ![r] = q], tx' = [tx EXCEPT ![r] = t],
         db' \in Tables, tokens' \subseteq Tokens,
         q.pc # "idle" => q.id = h[r].id /\ denied' = denied,
         denied' \subseteq denied \cup {h[r].id},
         Carries(q), Home(q, t, db'.users, db'.members),
         Trusted(q, held[r], db'.members, inactive, superusers),
         Makers(t) \subseteq {q.id},
         Makers(db') \subseteq Makers(db) \cup {h[r].id}, Makers(db') \cap denied' = {},
         h[r].id \in Makers(db') => q.pc \in {"idle", "issue"},
         Grows(db.users, db.members, db'.users, db'.members),
         \A m \in db'.members : m \in db.members \/ m.org \notin Makers(db),
         EveryAccountHasAHome', KeysAreUnique', FoundersStay', NewRowsAreOwn(r),
         At(r, "issue") => q.pc = "idle",
         q.pc = "wsDelete" =>
           db' = db /\ t = tx[r] /\ \E w \in db.workspaces : w.id = q.ws /\ w.org = q.org
  PROVE  AccessInv'
<1>0. /\ tx \in [Handlers -> Tables] /\ h \in [Handlers -> Handler]
      /\ h[r].id \in 1 .. calls /\ calls \in 0 .. MaxCalls /\ denied \subseteq Ids
    BY DEF AccessInv, TypeOK, RowsHaveMakers
<1>1. TypeOK'
  <2>1. h' \in [Handlers -> Handler] /\ tx' \in [Handlers -> Tables]
      BY <1>0
  <2>2. denied' \subseteq Ids
      BY <1>0 DEF Ids
  <2> QED BY <2>1, <2>2 DEF AccessInv, TypeOK, Untouched
<1>2. h'[r] = q /\ tx'[r] = t /\ \A s \in Handlers : s # r => h'[s] = h[s] /\ tx'[s] = tx[s]
    BY <1>0
<1>a. CallsAreCounted'
    BY DEF AccessInv, CallsAreCounted, Untouched
<1>3. CallsCarry'
    BY <1>2 DEF AccessInv, CallsCarry
<1>4. HomesComeAlong'
    BY <1>2, HomeStays DEF AccessInv, HomesComeAlong
<1>5. RowsHaveMakers'
  <2>1. ASSUME NEW s \in Handlers, s # r
        PROVE  /\ h[s].id # h[r].id
               /\ ~At(s, "idle") => h[s].id \in (1 .. calls) \ denied'
               /\ h[s].id \in Makers(db') => At(s, "issue")
      BY <1>0, <2>1 DEF AccessInv, RowsHaveMakers
  <2>2. Makers(db') \subseteq (1 .. calls) \ denied' /\ denied' \subseteq 1 .. calls
      BY <1>0 DEF AccessInv, RowsHaveMakers
  <2>3. q.pc = "idle" => q.id = None
      BY DEF Carries, Idle
  <2>4. q.pc # "idle" => q.id \in (1 .. calls) \ denied'
      BY DEF AccessInv, RowsHaveMakers
  <2>5. \A s \in Handlers : Makers(tx'[s]) \subseteq {h'[s].id}
      BY <1>2 DEF AccessInv, RowsHaveMakers
  <2>6. \A s \in Handlers : h'[s].id \in Makers(db') => h'[s].pc = "issue"
      BY <1>2, <2>1, <2>2, <2>3 DEF At
  <2>7. \A s \in Handlers : h'[s].pc # "idle" => h'[s].id \in (1 .. calls) \ denied'
      BY <1>2, <2>1, <2>4 DEF At
  <2>8. ASSUME NEW s \in Handlers, NEW v \in Handlers, s # v, h'[s].pc # "idle"
        PROVE  h'[s].id # h'[v].id
    <3>1. CASE s # r /\ v # r
        BY <1>2, <2>8, <3>1 DEF AccessInv, RowsHaveMakers, At
    <3>2. CASE s = r
        BY <1>2, <2>1, <2>8, <3>2
    <3>3. CASE v = r
        BY <1>2, <2>1, <2>3, <2>8, <3>3 DEF At
    <3> QED BY <2>8, <3>1, <3>2, <3>3
  <2> QED BY ZenonT(60), <2>2, <2>5, <2>6, <2>7, <2>8 DEF RowsHaveMakers, Untouched, At
<1>6. TrustIsEarned'
  <2>1. ASSUME NEW s \in Handlers, s # r PROVE Trusted(h[s], held[s], db'.members, inactive, superusers)
    <3>1. ASSUME h[s].token # None, h[s].token.org # None PROVE h[s].token.org \in Makers(db)
      <4>1. Home(h[s], tx[s], db.users, db.members)
          BY DEF AccessInv, HomesComeAlong
      <4>2. PICK m \in db.members : m.org = h[s].token.org
          BY <3>1, <4>1 DEF Home, Founded, Belongs
      <4> QED BY <4>2 DEF Makers
    <3>a. \A m \in db'.members : m.org # None
        BY AccessAssumption DEF Tables, Membership, Ids
    <3>2. h[s].token # None => MembershipsIn(db'.members, h[s].token.user, h[s].token.org)
                                 \subseteq MembershipsIn(db.members, h[s].token.user, h[s].token.org)
        BY <3>1, <3>a DEF MembershipsIn
    <3> QED BY <3>2 DEF AccessInv, TrustIsEarned, Trusted
  <2> QED BY <1>2, <2>1 DEF TrustIsEarned, Untouched
<1>7. AimsHold'
  <2>1. ASSUME NEW s \in Handlers, s # r, h[s].pc = "wsDelete"
        PROVE  /\ h[s].ws \in 1 .. calls
               /\ \A w \in AllRows("workspaces")' : w.id = h[s].ws => w.org = h[s].org
               /\ \A v \in Handlers : h'[v].id = h[s].ws => h'[v].pc = "issue"
    <3>1. Aimed(h[s])
        BY <2>1 DEF AccessInv, AimsHold, At
    <3>2. h[r].id = h[s].ws => At(r, "issue")
        BY <3>1 DEF Aimed
    <3>3. \A w \in AllRows("workspaces")' : w.id = h[s].ws => w.org = h[s].org
        BY <3>1, <3>2 DEF Aimed, NewRowsAreOwn
    <3>4. q.id # h[s].ws
      <4>1. CASE q.pc = "idle"
          BY <3>1, <4>1, AccessAssumption DEF Carries, Idle, Aimed
      <4>2. CASE q.pc # "idle"
          BY <3>2, <4>2
      <4> QED BY <4>1, <4>2
    <3>5. \A v \in Handlers : h'[v].id = h[s].ws => h'[v].pc = "issue"
        BY <1>2, <3>1, <3>4 DEF Aimed, At
    <3> QED BY <3>1, <3>3, <3>5 DEF Aimed
  <2>2. ASSUME q.pc = "wsDelete"
        PROVE  /\ q.ws \in 1 .. calls
               /\ \A w \in AllRows("workspaces")' : w.id = q.ws => w.org = q.org
               /\ \A v \in Handlers : h'[v].id = q.ws => h'[v].pc = "issue"
    <3>1. PICK w \in db.workspaces : w.id = q.ws /\ w.org = q.org
        BY <2>2
    <3>2. w.id \in Makers(db)
        BY DEF Makers
    <3>3. db' = db /\ w \in AllRows("workspaces")' /\ "workspaces" \in Keyed
        BY <2>2 DEF AllRows, Keyed
    <3>4. \A v \in AllRows("workspaces")' : v.id = q.ws => v = w
        BY <3>1, <3>3 DEF KeysAreUnique
    <3>5. q.ws \in 1 .. calls
        BY <3>1, <3>2 DEF AccessInv, RowsHaveMakers
    <3>6. \A v \in Handlers : v # r /\ h[v].id = q.ws => h[v].pc = "issue"
        BY <3>1, <3>2 DEF AccessInv, RowsHaveMakers, At
    <3>7. q.id # q.ws
        BY <2>2, <3>1, <3>2 DEF AccessInv, RowsHaveMakers, At
    <3> QED BY <1>2, <3>1, <3>4, <3>5, <3>6, <3>7
  <2>3. calls' = calls
      BY DEF Untouched
  <2> QED BY <1>2, <2>1, <2>2, <2>3 DEF AimsHold, Aimed, At
<1> QED BY <1>1, <1>a, <1>3, <1>4, <1>5, <1>6, <1>7 DEF AccessInv

(* A step that adds no row leaves the keys alone.                           *)
LEMMA NoNewRows ==
  ASSUME AccessInv, NEW r \in Handlers, NEW t \in Tables, tx' = [tx EXCEPT ![r] = t],
         db' \in Tables,
         /\ t.users \subseteq tx[r].users /\ t.orgs \subseteq tx[r].orgs
         /\ t.accounts \subseteq tx[r].accounts /\ t.workspaces \subseteq tx[r].workspaces,
         /\ db'.users \subseteq db.users \cup tx[r].users
         /\ db'.orgs \subseteq db.orgs \cup tx[r].orgs
         /\ db'.accounts \subseteq db.accounts \cup tx[r].accounts
         /\ db'.workspaces \subseteq db.workspaces \cup tx[r].workspaces
  PROVE  KeysAreUnique' /\ NewRowsAreOwn(r)
<1>1. tx'[r] = t /\ \A s \in Handlers : s # r => tx'[s] = tx[s]
    BY DEF AccessInv, TypeOK
<1>2. AllRows("users")' \subseteq AllRows("users")
    BY <1>1 DEF AllRows
<1>3. AllRows("orgs")' \subseteq AllRows("orgs")
    BY <1>1 DEF AllRows
<1>4. AllRows("accounts")' \subseteq AllRows("accounts")
    BY <1>1 DEF AllRows
<1>5. AllRows("workspaces")' \subseteq AllRows("workspaces")
    BY <1>1 DEF AllRows
<1>6. ASSUME NEW k \in Keyed PROVE AllRows(k)' \subseteq AllRows(k)
    BY <1>2, <1>3, <1>4, <1>5 DEF Keyed
<1>7. KeysAreUnique'
  <2> SUFFICES ASSUME NEW k \in Keyed, NEW x \in AllRows(k)', NEW y \in AllRows(k)',
                      SameKey(k, x, y) \/ x.id = y.id
               PROVE  x = y
      BY DEF KeysAreUnique, SameKey
  <2> QED BY <1>6 DEF AccessInv, KeysAreUnique
<1> QED BY <1>5, <1>7 DEF NewRowsAreOwn

LEMMA TablesStill ==
  ASSUME AccessInv, db' = db, tx' = tx
  PROVE  /\ KeysAreUnique' /\ FoundersStay'
         /\ AllRows("workspaces")' = AllRows("workspaces")
<1>1. \A k : AllRows(k)' = AllRows(k)
    BY DEF AllRows
<1>2. KeysAreUnique'
  <2> SUFFICES ASSUME NEW k \in Keyed, NEW x \in AllRows(k)', NEW y \in AllRows(k)',
                      SameKey(k, x, y) \/ x.id = y.id
               PROVE  x = y
      BY DEF KeysAreUnique, SameKey
  <2> QED BY <1>1 DEF AccessInv, KeysAreUnique
<1>3. FoundersStay'
    BY DEF AccessInv, FoundersStay
<1> QED BY <1>1, <1>2, <1>3

(* An INSERT that meets no key of a committed or an open row: the number is *)
(* the request's, which has made no such row.                               *)
LEMMA Inserted ==
  ASSUME AccessInv, NEW r \in Handlers, NEW k \in Keyed, NEW row,
         ~At(r, "idle"), ~At(r, "issue"), ~Waits(r, k, row), ~Exists(r, k, row),
         row.id = h[r].id, tx[r][k] = {}, db' = db,
         tx' = [tx EXCEPT ![r][k] = @ \cup {row}]
  PROVE  KeysAreUnique' /\ NewRowsAreOwn(r)
<1>1. /\ tx \in [Handlers -> Tables]
      /\ \A s \in Handlers : s # r => tx'[s] = tx[s]
      /\ \A j \in Keyed : j # k => tx'[r][j] = tx[r][j]
      /\ tx'[r][k] = {row}
    BY DEF AccessInv, TypeOK, Tables, Keyed
<1>2. ASSUME NEW j \in Keyed, j # k PROVE AllRows(j)' \subseteq AllRows(j)
    BY <1>1, <1>2 DEF AllRows
<1>3. AllRows(k)' \subseteq AllRows(k) \cup {row}
    BY <1>1 DEF AllRows
<1>4. ASSUME NEW x \in AllRows(k) PROVE ~SameKey(k, x, row) /\ x.id # row.id
  <2>1. CASE x \in db[k]
    <3>1. ~SameKey(k, x, row)
        BY <2>1 DEF Exists, Rows
    <3>2. x.id \in Makers(db)
        BY <2>1 DEF Makers, Keyed
    <3> QED BY <3>1, <3>2 DEF AccessInv, RowsHaveMakers
  <2>2. ASSUME NEW s \in Handlers, x \in tx[s][k] PROVE ~SameKey(k, x, row) /\ x.id # row.id
    <3>1. s # r
        BY <2>2
    <3>2. ~SameKey(k, x, row)
        BY <2>2, <3>1 DEF Waits
    <3>3. x.id \in Makers(tx[s])
        BY <2>2 DEF Makers, Keyed
    <3> QED BY <3>1, <3>2, <3>3 DEF AccessInv, RowsHaveMakers
  <2> QED BY <2>1, <2>2 DEF AllRows
<1>5. \A x, y : SameKey(k, x, y) <=> SameKey(k, y, x)
    BY DEF SameKey, Keyed
<1>6. KeysAreUnique'
  <2> SUFFICES ASSUME NEW j \in Keyed, NEW x \in AllRows(j)', NEW y \in AllRows(j)',
                      SameKey(j, x, y) \/ x.id = y.id
               PROVE  x = y
      BY DEF KeysAreUnique, SameKey
  <2> QED BY <1>2, <1>3, <1>4, <1>5 DEF AccessInv, KeysAreUnique
<1>7. NewRowsAreOwn(r)
    BY <1>2, <1>3 DEF NewRowsAreOwn, Keyed
<1> QED BY <1>6, <1>7

-----------------------------------------------------------------------------
(* A request that goes on is still the same request.                        *)
SameCall(p, q) ==
  /\ q.id = p.id /\ q.op = p.op /\ q.email = p.email /\ q.name = p.name
  /\ q.subject = p.subject /\ q.token = p.token

LEMMA Moves ==
  ASSUME AccessInv, NEW r \in Handlers, NEW q \in Handler, NEW t \in Tables,
         ~At(r, "idle"), ~At(r, "issue"), Untouched, UNCHANGED <<db, denied, tokens>>,
         h' = [h EXCEPT ![r] = q], tx' = [tx EXCEPT ![r] = t],
         SameCall(h[r], q), q.pc # "idle",
         Carries(q), Home(q, t, db.users, db.members), Makers(t) \subseteq {q.id},
         KeysAreUnique', NewRowsAreOwn(r),
         q.pc = "wsDelete" => t = tx[r] /\ \E w \in db.workspaces : w.id = q.ws /\ w.org = q.org,
         q.pc = "rights" => held[r].active /\ (q.superuser => held[r].superuser),
         q.pc \in Working =>
           Covers(held[r], q.op)
  PROVE  AccessInv'
<1>1. db' = db /\ tokens' = tokens /\ denied' = denied
    OBVIOUS
<1>2. EveryAccountHasAHome'
    BY DEF AccessInv, EveryAccountHasAHome
<1>3. Grows(db.users, db.members, db'.users, db'.members)
    BY DEF Grows
<1>4. db \in Tables /\ tokens \subseteq Tokens
    BY DEF AccessInv, TypeOK
<1>5. Makers(db) \cap denied = {} /\ h[r].id \notin Makers(db)
    BY DEF AccessInv, RowsHaveMakers
<1>6. Trusted(q, held[r], db.members, inactive, superusers)
    BY DEF AccessInv, TrustIsEarned, Trusted, SameCall
<1> HIDE DEF Untouched
<1>7. q.id = h[r].id
    BY DEF SameCall
<1>8. FoundersStay'
    BY DEF AccessInv, FoundersStay
<1> QED BY <1>1, <1>2, <1>3, <1>4, <1>5, <1>6, <1>7, <1>8, OneStep

(* A request that is over without a commit: failed, refused or lost.        *)
LEMMA Stops ==
  ASSUME AccessInv, NEW r \in Handlers, ~At(r, "idle"), End(r), Untouched,
         UNCHANGED <<db, tokens>>,
         \/ denied' = denied
         \/ denied' = denied \cup {h[r].id} /\ ~At(r, "issue")
  PROVE  AccessInv'
<1>1. db' = db /\ tokens' = tokens
    OBVIOUS
<1>2. EveryAccountHasAHome'
    BY DEF AccessInv, EveryAccountHasAHome
<1>3. Grows(db.users, db.members, db'.users, db'.members)
    BY DEF Grows
<1>4. db \in Tables /\ tokens \subseteq Tokens
    BY DEF AccessInv, TypeOK
<1>5. Makers(db) \cap denied' = {} /\ denied' \subseteq denied \cup {h[r].id}
    BY DEF AccessInv, RowsHaveMakers
<1>6. Trusted(Idle, held[r], db.members, inactive, superusers)
    BY DEF Trusted, Idle, Working
<1>7. Home(Idle, NoRows, db.users, db.members)
    BY DEF Home, Idle, NoRows, Joining, Joined
<1>8. Idle.pc = "idle" /\ h' = [h EXCEPT ![r] = Idle] /\ tx' = [tx EXCEPT ![r] = NoRows]
    BY DEF Idle, End
<1>9. FoundersStay'
    BY DEF AccessInv, FoundersStay
<1>10. KeysAreUnique' /\ NewRowsAreOwn(r)
    BY <1>1, <1>4, <1>8, Constants, NoNewRows DEF NoRows
<1> QED BY <1>1, <1>2, <1>3, <1>4, <1>5, <1>6, <1>7, <1>8, <1>9, <1>10, Constants, OneStep

(* What is known of a request in progress.                                  *)
LEMMA Here ==
  ASSUME AccessInv, NEW r \in Handlers
  PROVE  /\ h \in [Handlers -> Handler] /\ h[r] \in Handler
         /\ tx \in [Handlers -> Tables] /\ tx[r] \in Tables /\ db \in Tables
         /\ Carries(h[r]) /\ Home(h[r], tx[r], db.users, db.members)
         /\ Makers(tx[r]) \subseteq {h[r].id}
         /\ Trusted(h[r], held[r], db.members, inactive, superusers)
         /\ ~At(r, "idle") => h[r].id \in Ids /\ h[r].id \in 1 .. calls
BY DEF AccessInv, TypeOK, CallsCarry, HomesComeAlong, TrustIsEarned, RowsHaveMakers, Ids

(* A step that only moves the request on.                                   *)
LEMMA GoesOn ==
  ASSUME AccessInv, NEW r \in Handlers, NEW q \in Handler,
         ~At(r, "idle"), ~At(r, "issue"), Untouched, UNCHANGED <<db, tx, denied, tokens>>,
         h' = [h EXCEPT ![r] = q], SameCall(h[r], q), q.pc # "idle",
         Carries(q), Home(q, tx[r], db.users, db.members),
         q.pc = "wsDelete" => \E w \in db.workspaces : w.id = q.ws /\ w.org = q.org,
         q.pc = "rights" => held[r].active /\ (q.superuser => held[r].superuser),
         q.pc \in Working =>
           Covers(held[r], q.op)
  PROVE  AccessInv'
<1>1. Makers(tx[r]) \subseteq {q.id} /\ tx' = [tx EXCEPT ![r] = tx[r]] /\ tx[r] \in Tables
    BY Here DEF SameCall
<1>2. KeysAreUnique' /\ NewRowsAreOwn(r)
    BY TablesStill DEF NewRowsAreOwn
<1> QED BY <1>1, <1>2, Moves

-----------------------------------------------------------------------------
(* Sign-up.                                                                 *)

(* What handlers write into their own state keeps its shape.                *)
LEMMA Moved ==
  ASSUME NEW p \in Handler, NEW pc \in Pc
  PROVE  [p EXCEPT !.pc = pc] \in Handler
BY DEF Handler

LEMMA FoundUser ==
  ASSUME NEW p \in Handler, NEW pc \in Pc, NEW u \in Ids
  PROVE  [p EXCEPT !.pc = pc, !.user = u] \in Handler
BY DEF Handler

LEMMA Linked ==
  ASSUME NEW p \in Handler, NEW u \in Ids, NEW a \in BOOLEAN
  PROVE  [p EXCEPT !.pc = "link", !.user = u, !.active = a] \in Handler
BY ZenonT(60) DEF Handler, Pc

LEMMA FoundOrg ==
  ASSUME NEW p \in Handler, NEW pc \in Pc, NEW o \in Ids \cup {None}
  PROVE  [p EXCEPT !.pc = pc, !.org = o] \in Handler
BY DEF Handler

LEMMA Recognised ==
  ASSUME NEW p \in Handler, NEW pc \in Pc, NEW u \in Ids, NEW o \in Ids \cup {None},
         NEW z \in BOOLEAN
  PROVE  [p EXCEPT !.pc = pc, !.user = u, !.org = o, !.superuser = z] \in Handler
BY ZenonT(60) DEF Handler

LEMMA Slugged ==
  ASSUME NEW p \in Handler, NEW pc \in Pc, NEW n \in 0 .. MaxCalls
  PROVE  [p EXCEPT !.pc = pc, !.suffix = n] \in Handler
BY DEF Handler

LEMMA MadeSpace ==
  ASSUME NEW p \in Handler, NEW pc \in Pc, NEW w \in Ids
  PROVE  [p EXCEPT !.pc = pc, !.ws = w] \in Handler
BY DEF Handler

LEMMA ByEmail ==
  ASSUME AccessInv, NEW r \in Handlers, by_email(r), Untouched PROVE AccessInv'
<1> DEFINE known == {u \in Rows(r, "users") : u.email = h[r].email}
<1>1. h[r].pc = "byEmail" /\ ~At(r, "idle") /\ ~At(r, "issue") /\ UNCHANGED tokens
    BY DEF by_email, At
<1>3. CASE Refuse(r)
    BY <1>1, <1>3, Stops DEF Refuse
<1>4. CASE known = {} /\ Goto(r, "addUser") /\ UNCHANGED <<db, tx, denied>>
  <2> DEFINE q == [h[r] EXCEPT !.pc = "addUser"]
  <2>1. /\ q \in Handler /\ SameCall(h[r], q) /\ q.pc = "addUser"
        /\ h' = [h EXCEPT ![r] = q]
    <3>1. h' = [h EXCEPT ![r] = q]
        BY <1>4 DEF Goto
    <3>2. q \in Handler
        BY Here DEF Handler, Pc
    <3>3. SameCall(h[r], q) /\ q.pc = "addUser"
        BY Here DEF Handler, SameCall
    <3> QED BY <3>1, <3>2, <3>3
  <2>2. Carries(q)
      BY <1>1, Here DEF Carries, Joining, Working
  <2> HIDE DEF q
  <2>3. Home(q, tx[r], db.users, db.members)
      BY <1>1, <2>1, Here DEF Home, Joining, Joined, SameCall
  <2>5. q.pc # "rights" /\ q.pc \notin Working /\ q.pc # "idle"
      BY <2>1 DEF Working
  <2> QED BY <1>1, <1>4, <2>1, <2>2, <2>3, <2>5, GoesOn
<1>5. ASSUME NEW u \in known, h[r].op # "register", UNCHANGED <<db, tx, denied>>,
             h' = [h EXCEPT ![r].pc = "link", ![r].user = u.id, ![r].active = Active(u.id)]
      PROVE  AccessInv'
  <2> DEFINE a == Active(u.id)
             q == [h[r] EXCEPT !.pc = "link", !.user = u.id, !.active = a]
  <2>1. tx[r].users = {} /\ u \in db.users
      BY <1>1, Here DEF Home, Joining, Joined, Rows
  <2>2. u.id \in Ids /\ a \in BOOLEAN
      BY <2>1, Here DEF Tables, User, Active
  <2>a. h' = [h EXCEPT ![r].pc = "link", ![r].user = u.id, ![r].active = a]
      BY <1>5
  <2> HIDE DEF a
  <2>3. /\ q \in Handler /\ SameCall(h[r], q) /\ q.pc = "link" /\ q.user = u.id
        /\ h' = [h EXCEPT ![r] = q]
    <3>1. h' = [h EXCEPT ![r] = q]
        BY <2>a
    <3>2. q \in Handler
        BY <2>2, Here, Linked
    <3>3. SameCall(h[r], q) /\ q.pc = "link" /\ q.user = u.id
        BY Here DEF Handler, SameCall
    <3> QED BY <3>1, <3>2, <3>3
  <2>4. Carries(q)
      BY <1>1, <1>5, Here DEF Carries, Joining, Working
  <2> HIDE DEF q
  <2>5. HasUser(db.users \cup tx[r].users, q.user)
      BY <2>1, <2>3 DEF HasUser
  <2>7. Home(q, tx[r], db.users, db.members)
      BY <1>1, <2>3, <2>5, Here DEF Home, Joining, Joined, SameCall
  <2>9. q.pc # "rights" /\ q.pc \notin Working /\ q.pc # "idle"
      BY <2>3 DEF Working
  <2> QED BY <1>1, <1>5, <2>3, <2>4, <2>7, <2>9, GoesOn
<1> QED BY <1>3, <1>4, <1>5 DEF by_email

(* An INSERT that fails ends the request.                                   *)
LEMMA Fails ==
  ASSUME AccessInv, NEW r \in Handlers, ~At(r, "idle"), Fail(r), Untouched, UNCHANGED tokens
  PROVE  AccessInv'
BY Stops DEF Fail

LEMMA AddUser ==
  ASSUME AccessInv, NEW r \in Handlers, add_user(r), Untouched PROVE AccessInv'
<1> DEFINE row == [id |-> h[r].id, email |-> h[r].email, password |-> h[r].op = "register"]
           q == [h[r] EXCEPT !.pc = "slug", !.user = h[r].id]
           t == [tx[r] EXCEPT !.users = @ \cup {row}]
<1>1. h[r].pc = "addUser" /\ ~At(r, "idle") /\ ~At(r, "issue") /\ UNCHANGED tokens
    BY DEF add_user, At
<1>2. CASE Fail(r)
    BY <1>1, <1>2, Fails
<1>3. ASSUME ~Waits(r, "users", row), ~Exists(r, "users", row), UNCHANGED <<db, denied>>,
             tx' = [tx EXCEPT ![r]["users"] = @ \cup {row}], h' = [h EXCEPT ![r] = q]
      PROVE  AccessInv'
  <2>1. row \in User /\ row.id = h[r].id
    <3>1. h[r].email \in Emails /\ h[r].id \in Ids
        BY <1>1, Here DEF Carries
    <3> QED BY <3>1 DEF User
  <2>2. q \in Handler
      BY <1>1, Here, FoundUser DEF Pc
  <2>3. SameCall(h[r], q) /\ q.pc = "slug" /\ q.user = h[r].id
      BY Here DEF Handler, SameCall
  <2>4. Carries(q)
      BY <1>1, Here DEF Carries, Joining, Working
  <2> HIDE DEF q, row
  <2>5. tx' = [tx EXCEPT ![r] = t]
      BY <1>3, Here DEF Tables
  <2>6. /\ t \in Tables /\ t.users = tx[r].users \cup {row} /\ t.orgs = tx[r].orgs
        /\ t.members = tx[r].members /\ t.accounts = tx[r].accounts
        /\ t.workspaces = tx[r].workspaces
      BY <2>1, Here DEF Tables
  <2> HIDE DEF t
  <2>7. t.users = {row} /\ t.orgs = {} /\ t.members = {} /\ t.accounts = {} /\ t.workspaces = {}
      BY <1>1, <2>6, Here DEF Home, Joining, Joined
  <2>a. KeysAreUnique' /\ NewRowsAreOwn(r)
    <3>1. tx[r]["users"] = {} /\ "users" \in Keyed
        BY <1>1, Here DEF Home, Joining, Joined, Keyed
    <3> QED BY <1>1, <1>3, <2>1, <3>1, Inserted
  <2>8. Home(q, t, db.users, db.members)
    <3>1. HasUser(t.users, q.id) /\ \A u \in t.users : u.id = q.id
        BY <2>1, <2>3, <2>7 DEF SameCall, HasUser
    <3> QED BY <1>1, <2>3, <2>7, <3>1, Here DEF Home, Joining, Joined, SameCall
  <2>9. Makers(t) \subseteq {q.id}
      BY <2>1, <2>3, <2>7 DEF SameCall, Makers
  <2>10. q.pc # "rights" /\ q.pc \notin Working /\ q.pc # "idle"
      BY <2>3 DEF Working
  <2> QED BY <1>1, <1>3, <2>2, <2>3, <2>4, <2>5, <2>6, <2>8, <2>9, <2>10, <2>a, Moves
<1> QED BY <1>2, <1>3 DEF add_user, Add

LEMMA ChooseSlug ==
  ASSUME AccessInv, NEW r \in Handlers, choose_slug(r), Untouched PROVE AccessInv'
<1>1. /\ h[r].pc = "slug" /\ ~At(r, "idle") /\ ~At(r, "issue")
      /\ UNCHANGED <<db, tx, denied, tokens>>
    BY DEF choose_slug, At
<1>2. PICK n \in 0 .. MaxCalls : h' = [h EXCEPT ![r].pc = "addOrg", ![r].suffix = n]
  <2>1. h[r].id \in 0 .. MaxCalls /\ 0 \in 0 .. MaxCalls
      BY <1>1, Here DEF Ids
  <2> QED BY <2>1 DEF choose_slug
<1> DEFINE q == [h[r] EXCEPT !.pc = "addOrg", !.suffix = n]
<1>3. h' = [h EXCEPT ![r] = q]
    BY <1>2
<1>4. q \in Handler
    BY Here, Slugged DEF Pc
<1>5. SameCall(h[r], q) /\ q.pc = "addOrg" /\ q.user = h[r].user
    BY Here DEF Handler, SameCall
<1>6. Carries(q)
    BY <1>1, Here DEF Carries, Joining, Working
<1> HIDE DEF q
<1>7. Home(q, tx[r], db.users, db.members)
    BY ZenonT(60), <1>1, <1>5, Here DEF Home, Joining, Joined, SameCall
<1>9. q.pc # "rights" /\ q.pc \notin Working /\ q.pc # "idle"
    BY <1>5 DEF Working
<1> QED BY <1>1, <1>3, <1>4, <1>5, <1>6, <1>7, <1>9, GoesOn

LEMMA AddOrganization ==
  ASSUME AccessInv, NEW r \in Handlers, add_organization(r), Untouched PROVE AccessInv'
<1> DEFINE row == [id |-> h[r].id, slug |-> <<h[r].name, h[r].suffix>>]
           q == [h[r] EXCEPT !.pc = "addMember", !.org = h[r].id]
           t == [tx[r] EXCEPT !.orgs = @ \cup {row}]
<1>1. h[r].pc = "addOrg" /\ ~At(r, "idle") /\ ~At(r, "issue") /\ UNCHANGED tokens
    BY DEF add_organization, At
<1>2. CASE Fail(r)
    BY <1>1, <1>2, Fails
<1>3. ASSUME ~Waits(r, "orgs", row), ~Exists(r, "orgs", row), UNCHANGED <<db, denied>>,
             tx' = [tx EXCEPT ![r]["orgs"] = @ \cup {row}], h' = [h EXCEPT ![r] = q]
      PROVE  AccessInv'
  <2>1. row \in Organization /\ row.id = h[r].id
    <3>1. h[r].name \in Names /\ h[r].id \in Ids /\ h[r].suffix \in 0 .. MaxCalls
        BY <1>1, Here DEF Carries, Joining, Handler
    <3> QED BY <3>1 DEF Organization, Slug
  <2>2. q \in Handler
      BY <1>1, Here, FoundOrg DEF Pc
  <2>3. SameCall(h[r], q) /\ q.pc = "addMember" /\ q.user = h[r].user /\ q.org = h[r].id
      BY Here DEF Handler, SameCall
  <2>4. Carries(q)
      BY <1>1, Here DEF Carries, Joining, Working
  <2> HIDE DEF q, row
  <2>5. tx' = [tx EXCEPT ![r] = t]
      BY <1>3, Here DEF Tables
  <2>6. /\ t \in Tables /\ t.users = tx[r].users /\ t.orgs = tx[r].orgs \cup {row}
        /\ t.members = tx[r].members /\ t.accounts = tx[r].accounts
        /\ t.workspaces = tx[r].workspaces
      BY <2>1, Here DEF Tables
  <2> HIDE DEF t
  <2>7. t.orgs = {row} /\ t.members = {} /\ t.accounts = {} /\ t.workspaces = {}
      BY <1>1, <2>6, Here DEF Home, Joining, Joined
  <2>a. KeysAreUnique' /\ NewRowsAreOwn(r)
    <3>1. tx[r]["orgs"] = {} /\ "orgs" \in Keyed
        BY <1>1, Here DEF Home, Keyed
    <3> QED BY <1>1, <1>3, <2>1, <3>1, Inserted
  <2>8. Home(q, t, db.users, db.members)
    <3>a. h[r].user = h[r].id /\ HasUser(tx[r].users, h[r].id) /\ \A u \in tx[r].users : u.id = h[r].id
        BY <1>1, Here DEF Home, Joining
    <3>1. HasUser(t.users, q.id) /\ \A u \in t.users : u.id = q.id
        BY <2>3, <2>6, <3>a DEF SameCall
    <3>2. q.user = q.id /\ q.org = q.id /\ \A o \in t.orgs : o.id = q.id
        BY <2>1, <2>3, <2>7, <3>a DEF SameCall
    <3> QED BY <1>1, <2>3, <2>7, <3>1, <3>2, Here DEF Home, Joining, Joined, SameCall
  <2>9. Makers(t) \subseteq {q.id}
    <3>1. {u.id : u \in t.users} \subseteq {h[r].id}
        BY <2>6, Here DEF Makers
    <3> QED BY <2>1, <2>3, <2>7, <3>1 DEF SameCall, Makers
  <2>10. q.pc # "rights" /\ q.pc \notin Working /\ q.pc # "idle"
      BY <2>3 DEF Working
  <2> QED BY <1>1, <1>3, <2>2, <2>3, <2>4, <2>5, <2>6, <2>8, <2>9, <2>10, <2>a, Moves
<1> QED BY <1>2, <1>3 DEF add_organization, Add

LEMMA AddMembership ==
  ASSUME AccessInv, NEW r \in Handlers, add_membership(r), Untouched PROVE AccessInv'
<1> DEFINE row == OwnersMembership(r)
           pc == IF h[r].op = "register" THEN "commit" ELSE "link"
           q == [h[r] EXCEPT !.pc = pc]
           t == [tx[r] EXCEPT !.members = @ \cup {row}]
<1>1. h[r].pc = "addMember" /\ ~At(r, "idle") /\ ~At(r, "issue") /\ UNCHANGED tokens
    BY DEF add_membership, At
<1>2. CASE Fail(r)
    BY <1>1, <1>2, Fails
<1>3. ASSUME tx' = [tx EXCEPT ![r]["members"] = @ \cup {row}], h' = [h EXCEPT ![r] = q],
             UNCHANGED <<db, denied>>
      PROVE  AccessInv'
  <2>1. h[r].user = h[r].id /\ h[r].org = h[r].id /\ h[r].id \in Ids
      BY <1>1, Here DEF Home, Joining
  <2>2. row \in Membership /\ row.user = h[r].id /\ row.org = h[r].id
      BY <2>1 DEF OwnersMembership, Membership, Roles, Statuses
  <2>a. pc \in Pc /\ pc \in {"commit", "link"} /\ (pc = "link" => h[r].op # "register")
      BY DEF Pc
  <2> HIDE DEF pc
  <2>3. /\ q \in Handler /\ SameCall(h[r], q) /\ q.pc = pc
        /\ q.user = h[r].id /\ q.org = h[r].id
      BY <2>1, <2>a, Here, Moved DEF Handler, SameCall
  <2> HIDE DEF q, row
  <2>4. Carries(q)
      BY <1>1, <2>3, <2>a, Here DEF Carries, Joining, Working, SameCall
  <2>5. tx' = [tx EXCEPT ![r] = t]
      BY <1>3, Here DEF Tables
  <2>6. /\ t \in Tables /\ t.users = tx[r].users /\ t.orgs = tx[r].orgs
        /\ t.members = tx[r].members \cup {row} /\ t.accounts = tx[r].accounts
        /\ t.workspaces = tx[r].workspaces
      BY <2>2, Here DEF Tables
  <2> HIDE DEF t
  <2>7. t.members = {row} /\ t.accounts = {} /\ t.workspaces = {}
      BY <1>1, <2>6, Here DEF Home, Joining, Joined
  <2>b. KeysAreUnique' /\ NewRowsAreOwn(r)
      BY <1>3, <2>5, <2>6, Here, NoNewRows
  <2>8. Home(q, t, db.users, db.members)
    <3>1. Belongs(t.members, q.id, q.id) /\ \E m \in t.members : m.org = q.id
        BY <2>2, <2>3, <2>7 DEF Belongs, SameCall
    <3>2. /\ \A u \in t.users : u.id = q.id
          /\ \A o \in t.orgs : o.id = q.id
          /\ HasUser(t.users, q.id) /\ q.user = q.id /\ q.org = q.id
      <4>1. /\ \A u \in tx[r].users : u.id = h[r].id
            /\ \A o \in tx[r].orgs : o.id = h[r].id
            /\ HasUser(tx[r].users, h[r].id)
          BY <1>1, Here DEF Home, Joining
      <4> QED BY <2>1, <2>3, <2>6, <4>1 DEF SameCall
    <3>3. HasUser(db.users \cup t.users, q.user)
        BY <3>2 DEF HasUser
    <3>4. Founded(db.members \cup t.members, q.org)
        BY <3>1, <3>2 DEF Founded, Belongs
    <3>5. q.token # None => HasUser(db.users, q.token.user) /\ Founded(db.members, q.token.org)
        BY <2>3, Here DEF Home, SameCall
    <3>6. (\A m \in t.members : m.user = q.id /\ m.org = q.id) /\ t.users # {}
        BY <2>2, <2>3, <2>7, <3>2 DEF SameCall, HasUser
    <3>7. \A u \in t.users : Belongs(t.members, u.id, u.id)
        BY <3>1, <3>2
    <3>8. \A o \in t.orgs : \E m \in t.members : m.org = o.id
        BY <3>1, <3>2
    <3> QED BY <2>3, <2>a, <2>7, <3>2, <3>3, <3>4, <3>5, <3>6, <3>7, <3>8 DEF Home, Joining, Joined
  <2>9. Makers(t) \subseteq {q.id}
    <3>1. {u.id : u \in t.users} \subseteq {h[r].id} /\ {o.id : o \in t.orgs} \subseteq {h[r].id}
        BY <2>6, Here DEF Makers
    <3> QED BY <2>2, <2>3, <2>7, <3>1 DEF SameCall, Makers
  <2>10. q.pc # "rights" /\ q.pc \notin Working /\ q.pc # "idle" /\ q.pc # "wsDelete"
      BY <2>3, <2>a DEF Working
  <2> QED BY <1>1, <1>3, <2>3, <2>4, <2>5, <2>6, <2>8, <2>9, <2>10, <2>b, Moves
<1> QED BY <1>2, <1>3 DEF add_membership, Add

-----------------------------------------------------------------------------
(* Login and single sign-on.                                                *)

LEMMA CheckPassword ==
  ASSUME AccessInv, NEW r \in Handlers, check_password(r), Untouched PROVE AccessInv'
<1>1. h[r].pc = "password" /\ ~At(r, "idle") /\ ~At(r, "issue") /\ UNCHANGED tokens
    BY DEF check_password, At
<1>2. CASE Refuse(r)
    BY <1>1, <1>2, Stops DEF Refuse
<1>3. ASSUME NEW u \in Rows(r, "users"), UNCHANGED <<db, tx, denied>>,
             h' = [h EXCEPT ![r].pc = "choose", ![r].user = u.id]
      PROVE  AccessInv'
  <2> DEFINE q == [h[r] EXCEPT !.pc = "choose", !.user = u.id]
  <2>1. tx[r].users = {} /\ u \in db.users
      BY <1>1, Here DEF Home, Joining, Joined, Rows
  <2>2. u.id \in Ids
      BY <2>1, Here DEF Tables, User
  <2>3. h' = [h EXCEPT ![r] = q]
      BY <1>3
  <2>4. q \in Handler
      BY <2>2, Here, FoundUser DEF Pc
  <2>5. SameCall(h[r], q) /\ q.pc = "choose" /\ q.user = u.id
      BY Here DEF Handler, SameCall
  <2> HIDE DEF q
  <2>6. Carries(q)
      BY <1>1, <2>5, Here DEF Carries, Joining, Working, SameCall
  <2>7. HasUser(db.users \cup tx[r].users, q.user)
      BY <2>1, <2>5 DEF HasUser
  <2>9. Home(q, tx[r], db.users, db.members)
      BY <1>1, <2>5, <2>7, Here DEF Home, Joining, Joined, SameCall
  <2>10. q.pc # "rights" /\ q.pc \notin Working /\ q.pc # "idle"
      BY <2>5 DEF Working
  <2> QED BY <1>1, <1>3, <2>3, <2>4, <2>5, <2>6, <2>9, <2>10, GoesOn
<1> QED BY <1>2, <1>3 DEF check_password

LEMMA FindAccount ==
  ASSUME AccessInv, NEW r \in Handlers, find_account(r), Untouched PROVE AccessInv'
<1>1. /\ h[r].pc = "account" /\ ~At(r, "idle") /\ ~At(r, "issue")
      /\ UNCHANGED <<db, tx, denied, tokens>>
    BY DEF find_account, At
<1>2. CASE Goto(r, "byEmail")
  <2> DEFINE q == [h[r] EXCEPT !.pc = "byEmail"]
  <2>1. h' = [h EXCEPT ![r] = q]
      BY <1>2 DEF Goto
  <2>2. q \in Handler
      BY Here, Moved DEF Pc
  <2>3. SameCall(h[r], q) /\ q.pc = "byEmail"
      BY Here DEF Handler, SameCall
  <2> HIDE DEF q
  <2>4. Carries(q)
      BY <1>1, <2>3, Here DEF Carries, Joining, Working, SameCall
  <2>5. Home(q, tx[r], db.users, db.members)
      BY <1>1, <2>3, Here DEF Home, Joining, Joined, SameCall
  <2>6. q.pc # "rights" /\ q.pc \notin Working /\ q.pc # "idle"
      BY <2>3 DEF Working
  <2> QED BY <1>1, <2>1, <2>2, <2>3, <2>4, <2>5, <2>6, GoesOn
<1>3. ASSUME NEW a \in Rows(r, "accounts"),
             h' = [h EXCEPT ![r].pc = "byId", ![r].user = a.user]
      PROVE  AccessInv'
  <2> DEFINE q == [h[r] EXCEPT !.pc = "byId", !.user = a.user]
  <2>1. tx[r].accounts = {} /\ a \in db.accounts
      BY <1>1, Here DEF Home, Joining, Joined, Rows
  <2>2. a.user \in Ids
      BY <2>1, Here DEF Tables, OAuthAccount
  <2>3. h' = [h EXCEPT ![r] = q]
      BY <1>3
  <2>4. q \in Handler
      BY <2>2, Here, FoundUser DEF Pc
  <2>5. SameCall(h[r], q) /\ q.pc = "byId" /\ q.user = a.user
      BY Here DEF Handler, SameCall
  <2> HIDE DEF q
  <2>6. Carries(q)
      BY <1>1, <2>5, Here DEF Carries, Joining, Working, SameCall
  <2>7. PICK u \in db.users : u.id = a.user
      BY <2>1 DEF AccessInv, EveryAccountHasAHome
  <2>8. HasUser(db.users \cup tx[r].users, q.user)
      BY <2>5, <2>7 DEF HasUser
  <2>10. Home(q, tx[r], db.users, db.members)
      BY <1>1, <2>5, <2>8, Here DEF Home, Joining, Joined, SameCall
  <2>11. q.pc # "rights" /\ q.pc \notin Working /\ q.pc # "idle"
      BY <2>5 DEF Working
  <2> QED BY <1>1, <2>3, <2>4, <2>5, <2>6, <2>10, <2>11, GoesOn
<1> QED BY <1>2, <1>3 DEF find_account

LEMMA FindLinkedUser ==
  ASSUME AccessInv, NEW r \in Handlers, find_linked_user(r), Untouched PROVE AccessInv'
<1>1. h[r].pc = "byId" /\ ~At(r, "idle") /\ ~At(r, "issue") /\ UNCHANGED tokens
    BY DEF find_linked_user, At
<1>2. CASE Refuse(r)
    BY <1>1, <1>2, Stops DEF Refuse
<1>3. CASE Goto(r, "choose") /\ UNCHANGED <<db, tx, denied>>
  <2> DEFINE q == [h[r] EXCEPT !.pc = "choose"]
  <2>1. h' = [h EXCEPT ![r] = q]
      BY <1>3 DEF Goto
  <2>2. q \in Handler
      BY Here, Moved DEF Pc
  <2>3. SameCall(h[r], q) /\ q.pc = "choose" /\ q.user = h[r].user
      BY Here DEF Handler, SameCall
  <2> HIDE DEF q
  <2>4. Carries(q)
      BY <1>1, <2>3, Here DEF Carries, Joining, Working, SameCall
  <2>5. Home(q, tx[r], db.users, db.members)
      BY <1>1, <2>3, Here DEF Home, Joining, Joined, SameCall
  <2>6. q.pc # "rights" /\ q.pc \notin Working /\ q.pc # "idle"
      BY <2>3 DEF Working
  <2> QED BY <1>1, <1>3, <2>1, <2>2, <2>3, <2>4, <2>5, <2>6, GoesOn
<1> QED BY <1>2, <1>3 DEF find_linked_user

LEMMA LinkAccount ==
  ASSUME AccessInv, NEW r \in Handlers, link_account(r), Untouched PROVE AccessInv'
<1> DEFINE row == [id |-> h[r].id, subject |-> h[r].subject, user |-> h[r].user]
           q == [h[r] EXCEPT !.pc = "choose"]
           t == [tx[r] EXCEPT !.accounts = @ \cup {row}]
<1>1. h[r].pc = "link" /\ ~At(r, "idle") /\ ~At(r, "issue") /\ UNCHANGED tokens
    BY DEF link_account, At
<1>2. CASE Fail(r)
    BY <1>1, <1>2, Fails
<1>3. ASSUME ~Waits(r, "accounts", row), ~Exists(r, "accounts", row), UNCHANGED <<db, denied>>,
             tx' = [tx EXCEPT ![r]["accounts"] = @ \cup {row}], h' = [h EXCEPT ![r] = q]
      PROVE  AccessInv'
  <2>1. HasUser(db.users \cup tx[r].users, h[r].user)
      BY <1>1, Here DEF Home, Joined
  <2>2. h[r].user \in Ids
      BY <2>1, Here DEF HasUser, Tables, User
  <2>3. row \in OAuthAccount /\ row.id = h[r].id /\ row.user = h[r].user
    <3>1. h[r].subject \in Subjects /\ h[r].id \in Ids
        BY <1>1, Here DEF Carries
    <3> QED BY <2>2, <3>1 DEF OAuthAccount
  <2>4. q \in Handler
      BY Here, Moved DEF Pc
  <2>5. SameCall(h[r], q) /\ q.pc = "choose" /\ q.user = h[r].user
      BY Here DEF Handler, SameCall
  <2> HIDE DEF q, row
  <2>6. Carries(q)
      BY <1>1, <2>5, Here DEF Carries, Joining, Working, SameCall
  <2>7. tx' = [tx EXCEPT ![r] = t]
      BY <1>3, Here DEF Tables
  <2>8. /\ t \in Tables /\ t.users = tx[r].users /\ t.orgs = tx[r].orgs
        /\ t.members = tx[r].members /\ t.accounts = tx[r].accounts \cup {row}
        /\ t.workspaces = tx[r].workspaces
      BY <2>3, Here DEF Tables
  <2> HIDE DEF t
  <2>a. KeysAreUnique' /\ NewRowsAreOwn(r)
    <3>1. tx[r]["accounts"] = {} /\ "accounts" \in Keyed
        BY <1>1, Here DEF Home, Keyed
    <3> QED BY <1>1, <1>3, <2>3, <3>1, Inserted
  <2>9. Home(q, t, db.users, db.members)
    <3>1. \A a \in t.accounts : a.user = q.user
        BY <1>1, <2>3, <2>5, <2>8, Here DEF Home
    <3>a. /\ \A u \in tx[r].users : Belongs(tx[r].members, u.id, u.id)
          /\ \A o \in tx[r].orgs : \E m \in tx[r].members : m.org = o.id
          /\ \A m \in tx[r].members : m.user = h[r].id /\ m.org = h[r].id
          /\ tx[r].users = {} => tx[r].members = {}
          /\ tx[r].users # {} => h[r].user = h[r].id
          /\ tx[r].workspaces = {}
        BY <1>1, Here DEF Home, Joined
    <3>2. /\ \A u \in t.users : Belongs(t.members, u.id, u.id)
          /\ \A o \in t.orgs : \E m \in t.members : m.org = o.id
          /\ \A m \in t.members : m.user = q.id /\ m.org = q.id
          /\ t.users = {} => t.members = {}
          /\ t.users # {} => q.user = q.id
          /\ t.workspaces = {}
        BY <2>5, <2>8, <3>a DEF SameCall
    <3>3. HasUser(db.users \cup t.users, q.user)
        BY <1>1, <2>5, <2>8, Here DEF Home, Joined
    <3>4. q.token # None => HasUser(db.users, q.token.user) /\ Founded(db.members, q.token.org)
        BY <2>5, Here DEF Home, SameCall
    <3> QED BY <2>5, <3>1, <3>2, <3>3, <3>4 DEF Home, Joining, Joined
  <2>10. Makers(t) \subseteq {q.id}
    <3>1. /\ {u.id : u \in t.users} \subseteq {h[r].id} /\ {o.id : o \in t.orgs} \subseteq {h[r].id}
          /\ {w.id : w \in t.workspaces} \subseteq {h[r].id}
          /\ {m.org : m \in t.members} \subseteq {h[r].id}
        BY <2>8, Here DEF Makers
    <3>2. {a.id : a \in t.accounts} \subseteq {h[r].id}
        BY <2>3, <2>8, Here DEF Makers
    <3> QED BY <2>5, <3>1, <3>2 DEF SameCall, Makers
  <2>11. q.pc # "rights" /\ q.pc \notin Working /\ q.pc # "idle"
      BY <2>5 DEF Working
  <2> QED BY <1>1, <1>3, <2>4, <2>5, <2>6, <2>7, <2>8, <2>9, <2>10, <2>11, <2>a, Moves
<1> QED BY <1>2, <1>3 DEF link_account, Add

-----------------------------------------------------------------------------
(* The organisation of a session, the commit, the tokens.                   *)

LEMMA ChooseOrganization ==
  ASSUME AccessInv, NEW r \in Handlers, choose_organization(r), Untouched PROVE AccessInv'
<1>1. h[r].pc = "choose" /\ ~At(r, "idle") /\ ~At(r, "issue") /\ UNCHANGED tokens
    BY DEF choose_organization, At
<1>2. CASE Refuse(r)
    BY <1>1, <1>2, Stops DEF Refuse
<1>3. ASSUME NEW o \in Ids \cup {None}, UNCHANGED <<db, tx, denied>>,
             Founded(db.members \cup tx[r].members, o),
             h' = [h EXCEPT ![r].pc = "commit", ![r].org = o]
      PROVE  AccessInv'
  <2> DEFINE q == [h[r] EXCEPT !.pc = "commit", !.org = o]
  <2>4. h' = [h EXCEPT ![r] = q]
      BY <1>3
  <2>5. q \in Handler
      BY <1>3, Here, FoundOrg DEF Pc
  <2>6. SameCall(h[r], q) /\ q.pc = "commit" /\ q.user = h[r].user /\ q.org = o
      BY Here DEF Handler, SameCall
  <2> HIDE DEF q
  <2>7. Carries(q)
      BY <1>1, <2>6, Here DEF Carries, Joining, Working, SameCall
  <2>8. Founded(db.members \cup tx[r].members, q.org)
      BY <1>3, <2>6
  <2>9. Home(q, tx[r], db.users, db.members)
      BY ZenonT(60), <1>1, <2>6, <2>8, Here DEF Home, Joining, Joined, SameCall
  <2>10. q.pc # "rights" /\ q.pc \notin Working /\ q.pc # "idle"
      BY <2>6 DEF Working
  <2> QED BY <1>1, <1>3, <2>4, <2>5, <2>6, <2>7, <2>9, <2>10, GoesOn
<1>4. ASSUME NEW o \in OrgChoices(r)
      PROVE  o \in Ids /\ Founded(db.members \cup tx[r].members, o)
  <2>1. PICK m \in db.members \cup tx[r].members : m.org = o
      BY DEF OrgChoices, OrgsOf, ActiveOrgsOf, Rows
  <2>2. o \in Ids
      BY <2>1, Here DEF Tables, Membership
  <2>3. CASE m \in db.members
    <3>1. Belongs(db.members, o, o)
        BY <2>1, <2>3 DEF AccessInv, FoundersStay
    <3> QED BY <2>2, <3>1 DEF Founded, Belongs
  <2>4. CASE m \in tx[r].members
    <3>1. \A x \in tx[r].members : x.user = h[r].id /\ x.org = h[r].id
        BY <1>1, Here DEF Home, Joined
    <3>2. m.user = o /\ m.org = o
        BY <2>1, <2>4, <3>1
    <3> QED BY <2>2, <2>4, <3>2 DEF Founded, Belongs
  <2> QED BY <2>1, <2>2, <2>3, <2>4
<1>5. Founded(db.members \cup tx[r].members, None)
    BY DEF Founded
<1>6. CASE \E o \in OrgChoices(r) : /\ h' = [h EXCEPT ![r].pc = "commit", ![r].org = o]
                                    /\ UNCHANGED <<db, tx, denied>>
    BY <1>3, <1>4, <1>6
<1>7. CASE /\ h' = [h EXCEPT ![r].pc = "commit", ![r].org = None]
           /\ UNCHANGED <<db, tx, denied>>
    BY <1>3, <1>5, <1>7
<1> QED BY <1>2, <1>6, <1>7 DEF choose_organization

LEMMA CommitSession ==
  ASSUME AccessInv, NEW r \in Handlers, commit_session(r), Untouched PROVE AccessInv'
<1> DEFINE q == [h[r] EXCEPT !.pc = "issue"]
<1>1. h[r].pc = "commit" /\ ~At(r, "idle") /\ ~At(r, "issue") /\ UNCHANGED <<denied, tokens>>
    BY DEF commit_session, At
<1>2. h' = [h EXCEPT ![r] = q] /\ tx' = [tx EXCEPT ![r] = NoRows]
    BY DEF commit_session, Commit, Goto
<1>3. q \in Handler
    BY Here, Moved DEF Pc
<1>4. SameCall(h[r], q) /\ q.pc = "issue" /\ q.user = h[r].user /\ q.org = h[r].org
    BY Here DEF Handler, SameCall
<1> HIDE DEF q
<1>5. Carries(q)
    BY <1>1, <1>4, Here DEF Carries, Joining, Working, SameCall
<1>6. /\ db'.users = db.users \cup tx[r].users /\ db'.orgs = db.orgs \cup tx[r].orgs
      /\ db'.members = db.members \cup tx[r].members
      /\ db'.accounts = db.accounts \cup tx[r].accounts
      /\ db'.workspaces = db.workspaces \cup tx[r].workspaces
      /\ db' \in Tables
    BY Here DEF commit_session, Commit, Tables
<1>7. Home(q, NoRows, db'.users, db'.members)
  <2>1. HasUser(db'.users, q.user) /\ Founded(db'.members, q.org)
      BY ZenonT(60), <1>1, <1>4, <1>6, Here DEF Home, Joined
  <2>2. q.token = None
      BY <1>1, <1>4, Here DEF Carries, TokenOps, SameCall
  <2> QED BY <1>4, <2>1, <2>2 DEF Home, Joining, Joined, NoRows
<1>8. Makers(NoRows) \subseteq {q.id} /\ q.id = h[r].id
    BY <1>4, Constants DEF SameCall
<1>9. Makers(db') \subseteq Makers(db) \cup Makers(tx[r])
    BY <1>6 DEF Makers
<1>10. Makers(db') \subseteq Makers(db) \cup {h[r].id} /\ Makers(db') \cap denied' = {}
    BY <1>1, <1>9, Here DEF AccessInv, RowsHaveMakers
<1>11. Grows(db.users, db.members, db'.users, db'.members)
    BY <1>6 DEF Grows, HasUser, Belongs
<1>12. \A m \in db'.members : m \in db.members \/ m.org \notin Makers(db)
  <2>1. \A m \in tx[r].members : m.org = h[r].id
      BY Here DEF Makers
  <2>2. h[r].id \notin Makers(db)
      BY <1>1 DEF AccessInv, RowsHaveMakers
  <2> QED BY <1>6, <2>1, <2>2
<1>13. q.token = None
    BY <1>1, <1>4, Here DEF Carries, TokenOps, SameCall
<1>14. Trusted(q, held[r], db'.members, inactive, superusers)
    BY <1>4, <1>13 DEF Trusted, Working
<1>15. EveryAccountHasAHome'
  <2>a. /\ \A u \in tx[r].users : Belongs(tx[r].members, u.id, u.id)
        /\ \A o \in tx[r].orgs : \E m \in tx[r].members : m.org = o.id
        /\ \A a \in tx[r].accounts : a.user = h[r].user
        /\ HasUser(db.users \cup tx[r].users, h[r].user)
      BY <1>1, Here DEF Home, Joined
  <2>b. EveryAccountHasAHome
      BY DEF AccessInv
  <2>1. \A u \in db'.users : \E m \in db'.members : m.user = u.id /\ m.org = u.id
      BY <1>6, <2>a, <2>b DEF EveryAccountHasAHome, Belongs
  <2>2. \A o \in db'.orgs : \E m \in db'.members : m.org = o.id
      BY <1>6, <2>a, <2>b DEF EveryAccountHasAHome
  <2>3. \A a \in db'.accounts : \E u \in db'.users : u.id = a.user
      BY <1>6, <2>a, <2>b DEF EveryAccountHasAHome, HasUser
  <2>4. \A t \in tokens' : /\ \E u \in db'.users : u.id = t.user
                           /\ t.org # None => \E m \in db'.members : m.user = t.org /\ m.org = t.org
    <3>1. db.users \subseteq db'.users /\ db.members \subseteq db'.members /\ tokens' = tokens
        BY <1>1, <1>6
    <3>2. \A t \in tokens : /\ \E u \in db.users : u.id = t.user
                            /\ t.org # None => \E m \in db.members : m.user = t.org /\ m.org = t.org
        BY <2>b DEF EveryAccountHasAHome
    <3> SUFFICES ASSUME NEW t \in tokens
                 PROVE  /\ \E u \in db'.users : u.id = t.user
                        /\ t.org # None => \E m \in db'.members : m.user = t.org /\ m.org = t.org
        BY <3>1
    <3>3. PICK u \in db.users : u.id = t.user
        BY <3>2
    <3>4. ASSUME t.org # None PROVE \E m \in db'.members : m.user = t.org /\ m.org = t.org
      <4>1. PICK m \in db.members : m.user = t.org /\ m.org = t.org
          BY <3>2, <3>4
      <4> QED BY <3>1, <4>1
    <3> QED BY <3>1, <3>3, <3>4
  <2> QED BY <2>1, <2>2, <2>3, <2>4 DEF EveryAccountHasAHome
<1>a. FoundersStay'
  <2>1. \A m \in tx[r].members : m.user = h[r].id /\ m.org = h[r].id
      BY <1>1, Here DEF Home, Joined
  <2>2. \A m \in db.members : Belongs(db.members, m.org, m.org)
      BY DEF AccessInv, FoundersStay
  <2> QED BY <1>6, <2>1, <2>2 DEF FoundersStay, Belongs
<1>b. KeysAreUnique' /\ NewRowsAreOwn(r)
    BY <1>2, <1>6, Constants, NoNewRows DEF NoRows
<1>16. tokens' \subseteq Tokens /\ denied' = denied
    BY <1>1 DEF AccessInv, TypeOK
<1> QED BY <1>1, <1>2, <1>3, <1>4, <1>5, <1>6, <1>7, <1>8, <1>10, <1>11, <1>12, <1>14, <1>15,
           <1>16, <1>a, <1>b, Constants, OneStep

LEMMA CheckToken ==
  ASSUME AccessInv, NEW r \in Handlers, check_token(r), Untouched PROVE AccessInv'
<1> DEFINE pc == IF h[r].op = "refresh" THEN "issue" ELSE "rights"
           q == [h[r] EXCEPT !.pc = pc, !.user = h[r].token.user, !.org = h[r].token.org,
                             !.superuser = Superuser(h[r].token.user)]
<1>1. h[r].pc = "token" /\ ~At(r, "idle") /\ ~At(r, "issue") /\ UNCHANGED tokens
    BY DEF check_token, At
<1>2. CASE Refuse(r)
    BY <1>1, <1>2, Stops DEF Refuse
<1>3. ASSUME h' = [h EXCEPT ![r] = q], UNCHANGED <<db, tx, denied>>, Active(h[r].token.user)
      PROVE  AccessInv'
  <2>1. h[r].token \in Tokens /\ h[r].token # None
      BY <1>1, Here DEF Carries
  <2>2. h[r].token.user \in Ids /\ h[r].token.org \in Ids \cup {None}
      BY <2>1 DEF Tokens
  <2>3. pc \in Pc /\ pc \in {"issue", "rights"} /\ (pc = "rights" => h[r].op # "refresh")
      BY DEF Pc
  <2> HIDE DEF pc
  <2>4. /\ q \in Handler /\ SameCall(h[r], q) /\ q.pc = pc
        /\ q.user = h[r].token.user /\ q.org = h[r].token.org
        /\ q.superuser = (h[r].token.user \in superusers)
    <3>1. q \in Handler
      <4>1. Superuser(h[r].token.user) \in BOOLEAN
          BY DEF Superuser
      <4> QED BY <2>2, <2>3, <4>1, Here, Recognised
    <3> QED BY <3>1, Here DEF Handler, SameCall, Superuser
  <2> HIDE DEF q
  <2>5. Carries(q)
      BY <1>1, <2>3, <2>4, Here DEF Carries, Joining, Working, SameCall
  <2>6. Home(q, tx[r], db.users, db.members)
      BY <1>1, <2>1, <2>3, <2>4, Here DEF Home, Joining, Joined, SameCall
  <2>7. held[r].active /\ (q.superuser => held[r].superuser) /\ q.pc \notin Working /\ q.pc # "idle" /\ q.pc # "wsDelete"
      BY <1>3, <2>1, <2>3, <2>4, Here DEF Trusted, Active, Working
  <2> QED BY <1>1, <1>3, <2>4, <2>5, <2>6, <2>7, GoesOn
<1>4. CASE /\ h' = [h EXCEPT ![r].pc = pc, ![r].user = h[r].token.user, ![r].org = h[r].token.org,
                           ![r].superuser = Superuser(h[r].token.user)]
           /\ UNCHANGED <<db, tx, denied>> /\ Active(h[r].token.user)
  <2>1. h' = [h EXCEPT ![r] = q]
      BY <1>4
  <2> QED BY <1>3, <1>4, <2>1
<1> QED BY <1>2, <1>4 DEF check_token

LEMMA IssueTokens ==
  ASSUME AccessInv, NEW r \in Handlers, issue_tokens(r), Untouched PROVE AccessInv'
<1>1. h[r].pc = "issue" /\ ~At(r, "idle") /\ db' = db /\ denied' = denied
    BY DEF issue_tokens, At, Reply
<1>2. h' = [h EXCEPT ![r] = Idle] /\ tx' = [tx EXCEPT ![r] = NoRows] /\ Idle.pc = "idle"
    BY DEF issue_tokens, Reply, End, Idle
<1>3. HasUser(db.users, h[r].user) /\ Founded(db.members, h[r].org)
    BY <1>1, Here DEF Home
<1>4. \A t \in tokens' : t \in tokens \/ (t.user = h[r].user /\ t.org = h[r].org)
    BY DEF issue_tokens
<1>5. tokens' \subseteq Tokens
  <2>1. h[r].user \in Ids /\ h[r].org \in Ids \cup {None}
      BY <1>3, Here DEF HasUser, Handler, Tables, User
  <2>2. now + AccessTtl \in Nat /\ now + RefreshTtl \in Nat
      BY BudgetAssumption DEF AccessInv, TypeOK
  <2> QED BY <2>1, <2>2 DEF issue_tokens, Tokens, AccessInv, TypeOK
<1>6. EveryAccountHasAHome'
    BY <1>1, <1>3, <1>4 DEF AccessInv, EveryAccountHasAHome, HasUser, Founded, Belongs
<1>7. Home(Idle, NoRows, db.users, db.members) /\ Trusted(Idle, held[r], db.members, inactive, superusers)
    BY DEF Home, Idle, NoRows, Joining, Joined, Trusted, Working
<1>8. Grows(db.users, db.members, db.users, db.members)
    BY DEF Grows
<1>9. Makers(db) \cap denied = {}
    BY DEF AccessInv, RowsHaveMakers
<1>10. FoundersStay'
    BY <1>1 DEF AccessInv, FoundersStay
<1>11. KeysAreUnique' /\ NewRowsAreOwn(r)
    BY <1>1, <1>2, Here, Constants, NoNewRows DEF NoRows
<1> QED BY <1>1, <1>2, <1>5, <1>6, <1>7, <1>8, <1>9, <1>10, <1>11, Here, Constants, OneStep

-----------------------------------------------------------------------------
(* Requests with a token.                                                   *)

(* Whoever works on behalf of a token, for the organisation it names.       *)
LEMMA Insider ==
  ASSUME AccessInv, NEW r \in Handlers, h[r].pc \in {"rights"} \cup Working
  PROVE  /\ h[r].token # None /\ h[r].user = h[r].token.user /\ h[r].org = h[r].token.org
         /\ h[r].pc \in Working /\ h[r].op # "me" => h[r].org \in Ids
         /\ ~At(r, "idle") /\ ~At(r, "issue")
<1>1. h[r].token \in Tokens /\ h[r].user = h[r].token.user /\ h[r].org = h[r].token.org
    BY Here DEF Carries, Working
<1>2. h[r].pc \in Working /\ h[r].op # "me" => h[r].org # None
    BY Here DEF Carries, Working
<1>3. h[r].org \in Ids \cup {None}
    BY Here DEF Handler
<1> QED BY <1>1, <1>2, <1>3, Here DEF Working, At

LEMMA BuildPrincipal ==
  ASSUME AccessInv, NEW r \in Handlers, build_principal(r), Untouched PROVE AccessInv'
<1> DEFINE memberships == MembershipsIn(db.members, h[r].user, h[r].org)
<1>1. h[r].pc = "rights" /\ ~At(r, "idle") /\ ~At(r, "issue") /\ UNCHANGED tokens
    BY DEF build_principal, At
<1>2. CASE Refuse(r)
    BY <1>1, <1>2, Stops DEF Refuse
<1>a. CASE Fail(r)
    BY <1>1, <1>a, Fails
<1>3. ASSUME Goto(r, "work"), UNCHANGED <<db, tx, denied>>,
             HasPermissions(h[r].superuser, memberships, h[r].op),
             h[r].op = "me" \/ h[r].org # None
      PROVE  AccessInv'
  <2> DEFINE q == [h[r] EXCEPT !.pc = "work"]
  <2>1. h' = [h EXCEPT ![r] = q]
      BY <1>3 DEF Goto
  <2>2. q \in Handler
      BY Here, Moved DEF Pc
  <2>3. SameCall(h[r], q) /\ q.pc = "work" /\ q.user = h[r].user /\ q.org = h[r].org
      BY Here DEF Handler, SameCall
  <2> HIDE DEF q
  <2>4. Carries(q)
      BY <1>1, <1>3, <2>3, Here DEF Carries, Joining, Working, SameCall
  <2>5. Home(q, tx[r], db.users, db.members)
      BY <1>1, <2>3, Here DEF Home, Joining, Joined, SameCall
  <2>6. /\ memberships \subseteq held[r].memberships /\ held[r].active
        /\ h[r].superuser => held[r].superuser
      BY <1>1, Here, Insider DEF Trusted
  <2> HIDE DEF memberships
  <2>7. Permissions(memberships) \subseteq Permissions(held[r].memberships)
      BY <2>6 DEF Permissions
  <2>8. q.pc # "rights" /\ q.pc # "idle" /\ Covers(held[r], q.op)
      BY <1>3, <2>3, <2>6, <2>7 DEF SameCall, Covers, HasPermissions
  <2> QED BY <1>1, <1>3, <2>1, <2>2, <2>3, <2>4, <2>5, <2>8, GoesOn
<1> HIDE DEF memberships
<1>4. \/ Refuse(r)
      \/ Fail(r)
      \/ /\ Goto(r, "work") /\ UNCHANGED <<db, tx, denied>>
         /\ HasPermissions(h[r].superuser, memberships, h[r].op)
         /\ h[r].op = "me" \/ h[r].org # None
    BY DEF build_principal, memberships
<1> QED BY <1>2, <1>a, <1>3, <1>4

LEMMA ReadOwn ==
  ASSUME AccessInv, NEW r \in Handlers, read_own(r), Untouched PROVE AccessInv'
BY Stops DEF read_own, Reply, At

(* The rights of a request last as long as it works.                        *)
LEMMA StillTrusted ==
  ASSUME AccessInv, NEW r \in Handlers, h[r].pc \in Working
  PROVE  Covers(held[r], h[r].op)
BY Here DEF Trusted

LEMMA GetWorkspace ==
  ASSUME AccessInv, NEW r \in Handlers, get_workspace(r), Untouched PROVE AccessInv'
<1>1. /\ h[r].pc = "work" /\ ~At(r, "idle") /\ ~At(r, "issue") /\ UNCHANGED tokens
      /\ h[r].pc \in Working
    BY DEF get_workspace, At, Working
<1>2. CASE Refuse(r)
    BY <1>1, <1>2, Stops DEF Refuse
<1>3. CASE Reply(r) /\ UNCHANGED db
    BY <1>1, <1>3, Stops DEF Reply
<1>4. ASSUME NEW w \in db.workspaces, w.id = h[r].ws, w.org = h[r].org,
             Goto(r, "wsDelete"), UNCHANGED <<db, tx, denied>>, h[r].op = "delete"
      PROVE  AccessInv'
  <2> DEFINE q == [h[r] EXCEPT !.pc = "wsDelete"]
  <2>1. h' = [h EXCEPT ![r] = q]
      BY <1>4 DEF Goto
  <2>2. q \in Handler
      BY Here, Moved DEF Pc
  <2>3. SameCall(h[r], q) /\ q.pc = "wsDelete" /\ q.user = h[r].user /\ q.org = h[r].org
        /\ q.ws = h[r].ws
      BY Here DEF Handler, SameCall
  <2> HIDE DEF q
  <2>4. Carries(q)
      BY <1>1, <1>4, <2>3, Here DEF Carries, Joining, Working, SameCall
  <2>5. Home(q, tx[r], db.users, db.members)
      BY <1>1, <2>3, Here DEF Home, Joining, Joined, SameCall
  <2>6. q.pc # "rights" /\ q.pc # "idle"
        /\ Covers(held[r], q.op)
      BY <1>1, <2>3, StillTrusted DEF SameCall
  <2> QED BY <1>1, <1>4, <2>1, <2>2, <2>3, <2>4, <2>5, <2>6, GoesOn
<1> QED BY <1>2, <1>3, <1>4 DEF get_workspace

LEMMA DeleteWorkspace ==
  ASSUME AccessInv, NEW r \in Handlers, delete_workspace(r), Untouched PROVE AccessInv'
<1>1. ~At(r, "idle") /\ tokens' = tokens /\ denied' = denied
    BY DEF delete_workspace, At, Reply
<1>2. h' = [h EXCEPT ![r] = Idle] /\ tx' = [tx EXCEPT ![r] = NoRows] /\ Idle.pc = "idle"
    BY DEF delete_workspace, Reply, End, Idle
<1>3. /\ db'.users = db.users /\ db'.orgs = db.orgs /\ db'.members = db.members
      /\ db'.accounts = db.accounts /\ db'.workspaces \subseteq db.workspaces
      /\ db' \in Tables
    BY Here DEF delete_workspace, Tables
<1>4. Makers(db') \subseteq Makers(db)
    BY <1>3 DEF Makers
<1>5. Makers(db') \cap denied' = {}
    BY <1>1, <1>4 DEF AccessInv, RowsHaveMakers
<1>6. EveryAccountHasAHome'
    BY <1>1, <1>3 DEF AccessInv, EveryAccountHasAHome
<1>7. /\ Home(Idle, NoRows, db'.users, db'.members)
      /\ Trusted(Idle, held[r], db'.members, inactive, superusers)
    BY DEF Home, Idle, NoRows, Joining, Joined, Trusted, Working
<1>8. Grows(db.users, db.members, db'.users, db'.members)
    BY <1>3 DEF Grows
<1>9. tokens' \subseteq Tokens
    BY <1>1 DEF AccessInv, TypeOK
<1>a. FoundersStay'
    BY <1>3 DEF AccessInv, FoundersStay
<1>b. KeysAreUnique' /\ NewRowsAreOwn(r)
    BY <1>2, <1>3, Constants, NoNewRows DEF NoRows
<1> QED BY <1>1, <1>2, <1>3, <1>4, <1>5, <1>6, <1>7, <1>8, <1>9, <1>a, <1>b, Constants, OneStep

LEMMA WorkspaceSlug ==
  ASSUME AccessInv, NEW r \in Handlers, workspace_slug(r), Untouched PROVE AccessInv'
<1>1. /\ h[r].pc = "work" /\ ~At(r, "idle") /\ ~At(r, "issue") /\ h[r].op = "create"
      /\ UNCHANGED <<db, tx, denied, tokens>> /\ h[r].pc \in Working
    BY DEF workspace_slug, At, Working
<1>2. PICK n \in 0 .. MaxCalls : h' = [h EXCEPT ![r].pc = "wsSlug", ![r].suffix = n]
  <2>1. h[r].id \in 0 .. MaxCalls /\ 0 \in 0 .. MaxCalls
      BY <1>1, Here DEF Ids
  <2> QED BY <2>1 DEF workspace_slug
<1> DEFINE q == [h[r] EXCEPT !.pc = "wsSlug", !.suffix = n]
<1>3. h' = [h EXCEPT ![r] = q]
    BY <1>2
<1>4. q \in Handler
    BY Here, Slugged DEF Pc
<1>5. SameCall(h[r], q) /\ q.pc = "wsSlug" /\ q.user = h[r].user /\ q.org = h[r].org
    BY Here DEF Handler, SameCall
<1> HIDE DEF q
<1>6. Carries(q)
    BY <1>1, <1>5, Here DEF Carries, Joining, Working, SameCall
<1>7. Home(q, tx[r], db.users, db.members)
    BY <1>1, <1>5, Here DEF Home, Joining, Joined, SameCall
<1>8. q.pc # "rights" /\ q.pc # "idle"
      /\ Covers(held[r], q.op)
    BY <1>1, <1>5, StillTrusted DEF SameCall
<1> QED BY <1>1, <1>3, <1>4, <1>5, <1>6, <1>7, <1>8, GoesOn

LEMMA AddWorkspace ==
  ASSUME AccessInv, NEW r \in Handlers, add_workspace(r), Untouched PROVE AccessInv'
<1> DEFINE row == [id |-> h[r].id, org |-> h[r].org, slug |-> <<h[r].name, h[r].suffix>>]
           q == [h[r] EXCEPT !.pc = "wsAdd", !.ws = h[r].id]
           t == [tx[r] EXCEPT !.workspaces = @ \cup {row}]
<1>1. /\ h[r].pc = "wsSlug" /\ ~At(r, "idle") /\ ~At(r, "issue") /\ UNCHANGED tokens
      /\ h[r].pc \in Working
    BY DEF add_workspace, At, Working
<1>2. CASE Fail(r)
    BY <1>1, <1>2, Fails
<1>3. ASSUME ~Waits(r, "workspaces", row), ~Exists(r, "workspaces", row), UNCHANGED <<db, denied>>,
             tx' = [tx EXCEPT ![r]["workspaces"] = @ \cup {row}], h' = [h EXCEPT ![r] = q]
      PROVE  AccessInv'
  <2>1. row \in Workspace /\ row.id = h[r].id /\ row.org = h[r].org
    <3>1. h[r].name \in Names /\ h[r].id \in Ids /\ h[r].suffix \in 0 .. MaxCalls
        BY <1>1, Here DEF Carries, Handler
    <3>2. h[r].org \in Ids
        BY <1>1, Here, Insider DEF Carries
    <3> QED BY <3>1, <3>2 DEF Workspace, Slug
  <2>2. q \in Handler
      BY <1>1, Here, MadeSpace DEF Pc
  <2>3. SameCall(h[r], q) /\ q.pc = "wsAdd" /\ q.user = h[r].user /\ q.org = h[r].org
      BY Here DEF Handler, SameCall
  <2> HIDE DEF q, row
  <2>4. Carries(q)
      BY <1>1, <2>3, Here DEF Carries, Joining, Working, SameCall
  <2>5. tx' = [tx EXCEPT ![r] = t]
      BY <1>3, Here DEF Tables
  <2>6. /\ t \in Tables /\ t.users = tx[r].users /\ t.orgs = tx[r].orgs
        /\ t.members = tx[r].members /\ t.accounts = tx[r].accounts
        /\ t.workspaces = tx[r].workspaces \cup {row}
      BY <2>1, Here DEF Tables
  <2> HIDE DEF t
  <2>7. t.users = {} /\ t.orgs = {} /\ t.members = {} /\ t.accounts = {} /\ t.workspaces = {row}
      BY <1>1, <2>6, Here DEF Home, Joining, Joined
  <2>a. KeysAreUnique' /\ NewRowsAreOwn(r)
    <3>1. tx[r]["workspaces"] = {} /\ "workspaces" \in Keyed
        BY <1>1, Here DEF Home, Keyed
    <3> QED BY <1>1, <1>3, <2>1, <3>1, Inserted
  <2>8. Home(q, t, db.users, db.members)
    <3>1. q.token # None => HasUser(db.users, q.token.user) /\ Founded(db.members, q.token.org)
        BY <2>3, Here DEF Home, SameCall
    <3> QED BY <2>1, <2>3, <2>7, <3>1 DEF Home, Joining, Joined
  <2>9. Makers(t) \subseteq {q.id}
      BY <2>1, <2>3, <2>7 DEF SameCall, Makers
  <2>10. q.pc # "rights" /\ q.pc # "idle"
         /\ Covers(held[r], q.op)
      BY <1>1, <2>3, StillTrusted DEF SameCall
  <2> QED BY <1>1, <1>3, <2>2, <2>3, <2>4, <2>5, <2>6, <2>8, <2>9, <2>10, <2>a, Moves
<1> QED BY <1>2, <1>3 DEF add_workspace, Add

LEMMA CommitWorkspace ==
  ASSUME AccessInv, NEW r \in Handlers, commit_workspace(r), Untouched PROVE AccessInv'
<1>1. h[r].pc = "wsAdd" /\ ~At(r, "idle") /\ tokens' = tokens /\ denied' = denied
    BY DEF commit_workspace, At, Reply
<1>2. h' = [h EXCEPT ![r] = Idle] /\ tx' = [tx EXCEPT ![r] = NoRows] /\ Idle.pc = "idle"
    BY DEF commit_workspace, Reply, End, Idle
<1>3. tx[r].users = {} /\ tx[r].orgs = {} /\ tx[r].members = {} /\ tx[r].accounts = {}
    BY <1>1, Here DEF Home, Joining, Joined
<1>4. /\ db'.users = db.users /\ db'.orgs = db.orgs /\ db'.members = db.members
      /\ db'.accounts = db.accounts /\ db'.workspaces = db.workspaces \cup tx[r].workspaces
      /\ db' \in Tables
    BY <1>3, Here DEF commit_workspace, Tables
<1>5. Makers(db') \subseteq Makers(db) \cup Makers(tx[r])
    BY <1>4 DEF Makers
<1>6. Makers(db') \subseteq Makers(db) \cup {h[r].id} /\ Makers(db') \cap denied' = {}
    BY <1>1, <1>5, Here DEF AccessInv, RowsHaveMakers
<1>7. EveryAccountHasAHome'
    BY <1>1, <1>4 DEF AccessInv, EveryAccountHasAHome
<1>8. /\ Home(Idle, NoRows, db'.users, db'.members)
      /\ Trusted(Idle, held[r], db'.members, inactive, superusers)
    BY DEF Home, Idle, NoRows, Joining, Joined, Trusted, Working
<1>9. Grows(db.users, db.members, db'.users, db'.members)
    BY <1>4 DEF Grows
<1>10. tokens' \subseteq Tokens
    BY <1>1 DEF AccessInv, TypeOK
<1>a. FoundersStay'
    BY <1>4 DEF AccessInv, FoundersStay
<1>b. KeysAreUnique' /\ NewRowsAreOwn(r)
    BY <1>2, <1>4, Constants, NoNewRows DEF NoRows
<1> QED BY <1>1, <1>2, <1>4, <1>6, <1>7, <1>8, <1>9, <1>10, <1>a, <1>b, Constants, OneStep

LEMMA Handled ==
  ASSUME AccessInv, NEW r \in Handlers, handle(r) PROVE AccessInv'
<1>1. Untouched
    BY DEF handle, Untouched, AccessInv, TypeOK
<1>2. CASE Authenticate(r)
    BY <1>1, <1>2, ByEmail, AddUser, ChooseSlug, AddOrganization, AddMembership, CheckPassword,
       FindAccount, FindLinkedUser, LinkAccount, ChooseOrganization, CommitSession, CheckToken,
       IssueTokens DEF Authenticate
<1>3. CASE Work(r)
    BY <1>1, <1>3, BuildPrincipal, ReadOwn, GetWorkspace, DeleteWorkspace, WorkspaceSlug,
       AddWorkspace, CommitWorkspace DEF Work
<1> QED BY <1>2, <1>3 DEF handle

LEMMA Spent ==
  ASSUME AccessInv, NEW what \in {"calls", "ticks", "aborts", "changes"}, Spend(what)
  PROVE  /\ left' \in Budget
         /\ left'.calls = IF what = "calls" THEN left.calls - 1 ELSE left.calls
<1>1. left \in Budget
    BY DEF AccessInv, TypeOK
<1>2. CASE what = "calls"
    BY <1>1, <1>2, AccessAssumption DEF Spend, Budget
<1>3. CASE what = "ticks"
    BY <1>1, <1>3, BudgetAssumption DEF Spend, Budget
<1>4. CASE what = "aborts"
    BY <1>1, <1>4 DEF Spend, Budget
<1>5. CASE what = "changes"
    BY <1>1, <1>5 DEF Spend, Budget
<1> QED BY <1>2, <1>3, <1>4, <1>5

LEMMA Aborts ==
  ASSUME AccessInv, NEW r \in Handlers, abort(r) PROVE AccessInv'
<1>1. Untouched
    BY Spent DEF abort, Untouched
<1> QED BY <1>1, Fails DEF abort

LEMMA Ticks ==
  ASSUME AccessInv, tick PROVE AccessInv'
<1>1. left' \in Budget /\ now' \in 0 .. MaxTime
    BY Spent, BudgetAssumption DEF tick, AccessInv, TypeOK
<1>2. TypeOK'
    BY <1>1 DEF tick, AccessInv, TypeOK
<1>a. CallsAreCounted'
    BY Spent DEF tick, AccessInv, CallsAreCounted
<1>3. CallsCarry' /\ HomesComeAlong' /\ TrustIsEarned' /\ EveryAccountHasAHome'
    BY DEF tick, AccessInv, CallsCarry, HomesComeAlong, TrustIsEarned, EveryAccountHasAHome
<1>4. RowsHaveMakers'
    BY DEF tick, AccessInv, RowsHaveMakers, At
<1>5. KeysAreUnique' /\ FoundersStay' /\ AimsHold'
    BY TablesStill DEF tick, AccessInv, AimsHold, Aimed, At
<1> QED BY <1>2, <1>a, <1>3, <1>4, <1>5 DEF AccessInv

-----------------------------------------------------------------------------
(* Arrivals.                                                                *)

LEMMA HitIsBucket ==
  ASSUME NEW b \in Bucket, NEW n \in Nat PROVE Hit(b, n) \in Bucket
BY DEF Hit, Bucket

(* What a request brings, and where it begins.                              *)
LEMMA SignUpBody ==
  ASSUME NEW p \in Handler, NEW e \in Emails, NEW n \in Names
  PROVE  [p EXCEPT !.email = e, !.name = n] \in Handler
BY DEF Handler

LEMMA LoginBody ==
  ASSUME NEW p \in Handler, NEW e \in Emails, NEW n \in Names \cup {None}, NEW c \in BOOLEAN
  PROVE  [p EXCEPT !.email = e, !.name = n, !.correct = c] \in Handler
BY ZenonT(60) DEF Handler

LEMMA SsoBody ==
  ASSUME NEW p \in Handler, NEW s \in Subjects, NEW e \in Emails, NEW n \in Names
  PROVE  [p EXCEPT !.subject = s, !.email = e, !.name = n] \in Handler
BY DEF Handler

LEMMA Bearer ==
  ASSUME NEW p \in Handler, NEW t \in Tokens
  PROVE  [p EXCEPT !.token = t] \in Handler
BY DEF Handler

LEMMA BearerName ==
  ASSUME NEW p \in Handler, NEW t \in Tokens, NEW n \in Names
  PROVE  [p EXCEPT !.token = t, !.name = n] \in Handler
BY DEF Handler

LEMMA BearerSpace ==
  ASSUME NEW p \in Handler, NEW t \in Tokens, NEW w \in Ids
  PROVE  [p EXCEPT !.token = t, !.ws = w] \in Handler
BY DEF Handler

LEMMA Brought ==
  ASSUME NEW op \in Ops, NEW q \in Requests(op), tokens \subseteq Tokens,
         calls \in Nat, calls + 1 <= MaxCalls
  PROVE  /\ q \in Handler /\ Carries(q) /\ q.id = calls + 1
         /\ q.pc \in {"byEmail", "password", "account", "token"}
         /\ q.token = None \/ q.token \in tokens
<1>1. calls + 1 \in Ids
    BY DEF Ids
<1>2. Blank(op) \in Handler
    BY <1>1, Constants DEF Blank, Start, Handler, Pc
<1>a. /\ Blank(op).op = op /\ Blank(op).id = calls + 1
      /\ Blank(op).token = None /\ Blank(op).pc = Start(op)
    BY DEF Blank, Idle
<1>3. CASE op = "register"
  <2>1. Requests(op) = {SignUp(Blank(op), e, n) : e \in Emails, n \in Names}
      BY <1>3 DEF Requests
  <2>2. PICK e \in Emails, n \in Names : q = SignUp(Blank(op), e, n)
      BY <2>1
  <2>3. q \in Handler
      BY <1>2, <2>2, SignUpBody DEF SignUp
  <2>4. /\ q.pc = "byEmail" /\ q.op = op /\ q.id = calls + 1
        /\ q.token = None /\ q.email = e /\ q.name = n
      BY <1>2, <1>a, <1>3, <2>2 DEF Handler, Start, SignUp
  <2> QED BY <1>3, <2>3, <2>4 DEF Carries, TokenOps, Joining, Working
<1>4. CASE op = "login"
  <2>1. Requests(op) = {LogIn(Blank(op), e, n, c) :
                          e \in Emails, n \in Names \cup {None}, c \in BOOLEAN}
      BY <1>4 DEF Requests
  <2>2. PICK e \in Emails, n \in Names \cup {None}, c \in BOOLEAN :
           q = LogIn(Blank(op), e, n, c)
      BY <2>1
  <2>3. q \in Handler
      BY <1>2, <2>2, LoginBody DEF LogIn
  <2>4. q.pc = "password" /\ q.op = op /\ q.id = calls + 1 /\ q.token = None
      BY <1>2, <1>a, <1>4, <2>2 DEF Handler, Start, LogIn
  <2> QED BY <1>4, <2>3, <2>4 DEF Carries, TokenOps, Joining, Working
<1>5. CASE op = "sso"
  <2>1. Requests(op) = {oauth_callback(Blank(op), s, e, n) :
                          s \in Subjects, e \in Emails, n \in Names}
      BY <1>5 DEF Requests
  <2>2. PICK s \in Subjects, e \in Emails, n \in Names :
           q = oauth_callback(Blank(op), s, e, n)
      BY <2>1
  <2>3. q \in Handler
      BY <1>2, <2>2, SsoBody DEF oauth_callback
  <2>4. /\ q.pc = "account" /\ q.op = op /\ q.id = calls + 1
        /\ q.token = None /\ q.email = e /\ q.name = n /\ q.subject = s
      BY <1>2, <1>a, <1>5, <2>2 DEF Handler, Start, oauth_callback
  <2> QED BY <1>5, <2>3, <2>4 DEF Carries, TokenOps, Joining, Working
<1>6. CASE op \in TokenOps
  <2>1. Start(op) = "token"
      BY <1>6 DEF Start, TokenOps
  <2>2. CASE op = "create"
    <3>1. Requests(op) = {Naming(Blank(op), t, n) : t \in tokens, n \in Names}
        BY <2>2 DEF Requests
    <3>2. PICK t \in tokens, n \in Names : q = Naming(Blank(op), t, n)
        BY <3>1
    <3>3. q \in Handler
        BY <1>2, <3>2, BearerName DEF Naming
    <3>4. /\ q.pc = "token" /\ q.op = op /\ q.id = calls + 1
          /\ q.token = t /\ q.name = n
        BY <1>2, <1>a, <2>1, <3>2 DEF Handler, Bearing, Naming, Aiming
    <3> QED BY <1>6, <2>2, <3>3, <3>4 DEF Carries, TokenOps, Joining, Working
  <2>3. CASE op \in {"get", "delete"}
    <3>1. Requests(op) = {Aiming(Blank(op), t, w) : t \in tokens, w \in 1 .. calls}
        BY <2>3 DEF Requests
    <3>2. PICK t \in tokens, w \in 1 .. calls : q = Aiming(Blank(op), t, w)
        BY <3>1
    <3>3. w \in Ids
        BY DEF Ids
    <3>4. q \in Handler
        BY <1>2, <3>2, <3>3, BearerSpace DEF Aiming
    <3>5. q.pc = "token" /\ q.op = op /\ q.id = calls + 1 /\ q.token = t
        BY <1>2, <1>a, <2>1, <3>2 DEF Handler, Bearing, Naming, Aiming
    <3> QED BY <1>6, <2>3, <3>4, <3>5 DEF Carries, TokenOps, Joining, Working
  <2>4. CASE op \in TokenOps \ {"create", "get", "delete"}
    <3>1. Requests(op) = {Bearing(Blank(op), t) : t \in tokens}
        BY <2>4 DEF Requests, TokenOps
    <3>2. PICK t \in tokens : q = Bearing(Blank(op), t)
        BY <3>1
    <3>3. q \in Handler
        BY <1>2, <3>2, Bearer DEF Bearing
    <3>4. q.pc = "token" /\ q.op = op /\ q.id = calls + 1 /\ q.token = t
        BY <1>2, <1>a, <2>1, <3>2 DEF Handler, Bearing, Naming, Aiming
    <3> QED BY <1>6, <2>4, <3>3, <3>4 DEF Carries, TokenOps, Joining, Working
  <2> QED BY <1>6, <2>2, <2>3, <2>4
<1> QED BY <1>3, <1>4, <1>5, <1>6 DEF Ops, TokenOps

LEMMA Arrives ==
  ASSUME AccessInv, NEW r \in Handlers, arrive(r) PROVE AccessInv'
<1>1. /\ left' \in Budget /\ left'.calls = left.calls - 1 /\ calls' = calls + 1
      /\ calls \in Nat /\ calls + 1 <= MaxCalls
  <2>1. left \in Budget /\ left.calls > 0 /\ calls \in 0 .. MaxCalls
      BY DEF arrive, Spend, AccessInv, TypeOK
  <2>2. left.calls \in Nat
      BY <2>1 DEF Budget
  <2> QED BY <2>1, <2>2, Spent, AccessAssumption DEF arrive, AccessInv, CallsAreCounted
<1>2. CallsAreCounted' /\ calls' \in 0 .. MaxCalls
  <2>1. left.calls \in Nat /\ MaxCalls \in Nat
      BY AccessAssumption DEF AccessInv, TypeOK, Budget
  <2> QED BY <1>1, <2>1 DEF AccessInv, CallsAreCounted
<1>3. UNCHANGED <<db, tx, inactive, superusers, tokens, now>> /\ h[r].pc = "idle"
    BY DEF arrive, At
<1>4. PICK c \in left.clients, op \in left.ops : \E q \in Requests(op) :
        LET k == <<c, Group(op)>> IN
        /\ buckets' = [buckets EXCEPT ![k] = Hit(@, now)]
        /\ \/ /\ h' = [h EXCEPT ![r] = q]
              /\ admitted' = [admitted EXCEPT ![k][now] = @ + 1]
              /\ held' = [held EXCEPT ![r] =
                   IF q.token = None THEN Nobody ELSE Standing(q.token)]
              /\ UNCHANGED <<denied, refused>>
           \/ /\ denied' = denied \cup {q.id}
              /\ refused' = refused \cup {<<k, now>>}
              /\ UNCHANGED <<h, held, admitted>>
    BY ZenonT(60) DEF arrive
<1> DEFINE k == <<c, Group(op)>>
<1>5. PICK q \in Requests(op) :
        /\ buckets' = [buckets EXCEPT ![k] = Hit(@, now)]
        /\ \/ /\ h' = [h EXCEPT ![r] = q]
              /\ admitted' = [admitted EXCEPT ![k][now] = @ + 1]
              /\ held' = [held EXCEPT ![r] =
                   IF q.token = None THEN Nobody ELSE Standing(q.token)]
              /\ UNCHANGED <<denied, refused>>
           \/ /\ denied' = denied \cup {q.id}
              /\ refused' = refused \cup {<<k, now>>}
              /\ UNCHANGED <<h, held, admitted>>
    BY <1>4
<1>6. op \in Ops /\ c \in Clients
    BY DEF AccessInv, TypeOK, Budget
<1>7. k \in Clients \X Groups
  <2>1. Group(op) \in Groups
      BY <1>6 DEF Group, Groups, Ops
  <2> QED BY <1>6, <2>1
<1>8. /\ q \in Handler /\ Carries(q) /\ q.id = calls + 1
      /\ q.pc \in {"byEmail", "password", "account", "token"}
      /\ q.token = None \/ q.token \in tokens
    BY <1>1, <1>6, Brought DEF AccessInv, TypeOK
<1> HIDE DEF k
<1>9. buckets' \in [Clients \X Groups -> Bucket]
  <2>1. buckets \in [Clients \X Groups -> Bucket] /\ now \in Nat
      BY BudgetAssumption DEF AccessInv, TypeOK
  <2>2. Hit(buckets[k], now) \in Bucket
      BY <1>7, <2>1, HitIsBucket
  <2> QED BY <1>5, <2>1, <2>2
<1>10. EveryAccountHasAHome'
    BY <1>3 DEF AccessInv, EveryAccountHasAHome
<1>a. KeysAreUnique' /\ FoundersStay'
    BY <1>3, TablesStill
<1>b. ASSUME NEW w, w \in 1 .. calls PROVE w \in 1 .. calls' /\ w # q.id
    BY <1>1, <1>8, <1>b
<1>11. CASE /\ denied' = denied \cup {q.id}
            /\ refused' = refused \cup {<<k, now>>}
            /\ UNCHANGED <<h, held, admitted>>
  <2>1. q.id \in Ids
      BY <1>1, <1>8 DEF Ids
  <2>2. TypeOK'
      BY <1>1, <1>2, <1>3, <1>7, <1>9, <1>11, <2>1 DEF AccessInv, TypeOK
  <2>3. CallsCarry' /\ HomesComeAlong' /\ TrustIsEarned'
      BY <1>3, <1>11 DEF AccessInv, CallsCarry, HomesComeAlong, TrustIsEarned
  <2>4. RowsHaveMakers'
    <3>1. calls \in Nat /\ calls' = calls + 1 /\ denied' = denied \cup {calls + 1}
        BY <1>1, <1>8, <1>11
    <3>2. \A s \in Handlers : ~At(s, "idle") => h[s].id \in (1 .. calls') \ denied'
        BY <3>1 DEF AccessInv, RowsHaveMakers
    <3>3. denied' \subseteq 1 .. calls' /\ Makers(db) \subseteq (1 .. calls') \ denied'
        BY <3>1 DEF AccessInv, RowsHaveMakers
    <3> QED BY <1>3, <1>11, <3>2, <3>3 DEF AccessInv, RowsHaveMakers, At
  <2>5. AimsHold'
      BY <1>3, <1>11, <1>b DEF AccessInv, AimsHold, Aimed, AllRows, At
  <2> QED BY <1>2, <1>10, <1>a, <2>2, <2>3, <2>4, <2>5 DEF AccessInv
<1>12. ASSUME h' = [h EXCEPT ![r] = q], admitted' = [admitted EXCEPT ![k][now] = @ + 1],
              held' = [held EXCEPT ![r] = IF q.token = None THEN Nobody ELSE Standing(q.token)],
              UNCHANGED <<denied, refused>>
       PROVE  AccessInv'
  <2>1. /\ h \in [Handlers -> Handler]
        /\ held \in [Handlers -> Seen]
        /\ admitted \in [Clients \X Groups -> [0 .. MaxTime -> Nat]] /\ now \in 0 .. MaxTime
      BY DEF AccessInv, TypeOK, Seen
  <2>2. /\ h'[r] = q /\ \A s \in Handlers : s # r => h'[s] = h[s] /\ held'[s] = held[s]
        /\ q.token # None => held'[r] = Standing(q.token)
      BY <1>12, <2>1
  <2>3. TypeOK'
    <3>1. MembershipsIn(db.members, q.token.user, q.token.org) \subseteq Membership
        BY Here DEF MembershipsIn, Tables
    <3>a. Nobody \in Seen /\ Standing(q.token) \in Seen
        BY <3>1 DEF Nobody, Standing, Seen, Active, Superuser
    <3>2. held' \in [Handlers -> Seen]
        BY <1>12, <2>1, <3>a
    <3>3. admitted' \in [Clients \X Groups -> [0 .. MaxTime -> Nat]]
      <4> DEFINE row == admitted[k]
      <4>1. row \in [0 .. MaxTime -> Nat]
          BY <1>7, <2>1
      <4>2. [row EXCEPT ![now] = @ + 1] \in [0 .. MaxTime -> Nat]
        <5> HIDE DEF row
        <5>1. row[now] \in Nat
            BY <2>1, <4>1
        <5>2. row[now] + 1 \in Nat
            BY <5>1
        <5> QED BY <2>1, <4>1, <5>2
      <4>3. admitted' = [admitted EXCEPT ![k] = [row EXCEPT ![now] = @ + 1]]
          BY <1>12
      <4> HIDE DEF row
      <4> QED BY <1>7, <2>1, <4>2, <4>3
    <3>4. h' \in [Handlers -> Handler]
        BY <1>8, <1>12, <2>1
    <3> QED BY <1>1, <1>2, <1>3, <1>9, <1>12, <3>2, <3>3, <3>4 DEF AccessInv, TypeOK, Seen
  <2>4. CallsCarry'
      BY <1>8, <2>2 DEF AccessInv, CallsCarry
  <2>5. /\ tx[r].users = {} /\ tx[r].orgs = {} /\ tx[r].members = {} /\ tx[r].accounts = {}
        /\ tx[r].workspaces = {}
      BY <1>3, Here DEF Home, Joining, Joined
  <2>6. HomesComeAlong'
    <3>1. q.token # None => HasUser(db.users, q.token.user) /\ Founded(db.members, q.token.org)
      <4>1. \A t \in tokens : /\ \E u \in db.users : u.id = t.user
                              /\ t.org # None => \E m \in db.members : m.user = t.org /\ m.org = t.org
          BY DEF AccessInv, EveryAccountHasAHome
      <4>2. q.token # None => q.token \in tokens
          BY <1>8
      <4> DEFINE t == q.token
      <4> SUFFICES ASSUME t # None PROVE HasUser(db.users, t.user) /\ Founded(db.members, t.org)
          OBVIOUS
      <4>3. t \in tokens
          BY <4>2
      <4> HIDE DEF t
      <4> QED BY <4>1, <4>3 DEF HasUser, Founded, Belongs
    <3>2. Home(q, tx[r], db.users, db.members)
        BY <1>8, <2>5, <3>1 DEF Home, Joining, Joined
    <3> QED BY <1>3, <2>2, <3>2 DEF AccessInv, HomesComeAlong
  <2>7. TrustIsEarned'
    <3>a. q.token # None =>
             /\ MembershipsIn(db.members, q.token.user, q.token.org) \subseteq held'[r].memberships
             /\ q.token.user \notin inactive => held'[r].active
             /\ q.token.user \in superusers => held'[r].superuser
      <4>1. CASE q.token # None
        <5>1. /\ held'[r].memberships = MembershipsIn(db.members, q.token.user, q.token.org)
              /\ held'[r].active = Active(q.token.user)
              /\ held'[r].superuser = Superuser(q.token.user)
            BY <2>2, <4>1 DEF Standing
        <5> QED BY <5>1 DEF Active, Superuser
      <4> QED BY <4>1
    <3>1. Trusted(q, held'[r], db.members, inactive, superusers)
        BY <1>8, <3>a DEF Trusted, Working
    <3> QED BY <1>3, <2>2, <3>1 DEF AccessInv, TrustIsEarned
  <2>8. RowsHaveMakers'
    <3>1. calls \in Nat /\ calls' = calls + 1 /\ denied' = denied /\ q.id = calls + 1
        BY <1>1, <1>8, <1>12
    <3>2. Makers(tx[r]) = {}
        BY <2>5 DEF Makers
    <3>3. denied \subseteq 1 .. calls /\ Makers(db) \subseteq (1 .. calls) \ denied
        BY DEF AccessInv, RowsHaveMakers
    <3>4. ASSUME NEW s \in Handlers, s # r
          PROVE  /\ h[s].id # q.id
                 /\ ~At(s, "idle") => h[s].id \in (1 .. calls') \ denied
                 /\ h[s].id \in Makers(db) => At(s, "issue")
                 /\ Makers(tx[s]) \subseteq {h[s].id}
      <4>1. CASE At(s, "idle")
        <5>1. h[s].id = None
            BY <4>1, Here DEF Carries, At, Idle
        <5> QED BY <3>1, <4>1, <5>1, AccessAssumption DEF AccessInv, RowsHaveMakers
      <4>2. CASE ~At(s, "idle")
          BY <3>1, <4>2 DEF AccessInv, RowsHaveMakers
      <4> QED BY <4>1, <4>2
    <3>5. q.id \notin Makers(db) /\ q.id \in (1 .. calls') \ denied
        BY <3>1, <3>3
    <3>6. denied' \subseteq 1 .. calls' /\ Makers(db') \subseteq (1 .. calls') \ denied'
        BY <1>3, <3>1, <3>3
    <3>7. ASSUME NEW s \in Handlers
          PROVE  /\ Makers(tx'[s]) \subseteq {h'[s].id}
                 /\ h'[s].pc # "idle" => h'[s].id \in (1 .. calls') \ denied'
                 /\ h'[s].id \in Makers(db') => h'[s].pc = "issue"
        BY <1>3, <2>2, <3>1, <3>2, <3>4, <3>5 DEF At
    <3>8. ASSUME NEW s \in Handlers, NEW v \in Handlers, s # v, h'[s].pc # "idle"
          PROVE  h'[s].id # h'[v].id
        BY <2>2, <3>4, <3>8 DEF AccessInv, RowsHaveMakers, At
    <3> QED BY <3>6, <3>7, <3>8 DEF RowsHaveMakers, At
  <2>9. AimsHold'
    <3>1. q.pc # "wsDelete"
        BY <1>8
    <3>2. AllRows("workspaces")' = AllRows("workspaces")
        BY <1>3 DEF AllRows
    <3>3. ASSUME NEW s \in Handlers, s # r, h[s].pc = "wsDelete"
          PROVE  /\ h[s].ws \in 1 .. calls'
                 /\ \A w \in AllRows("workspaces")' : w.id = h[s].ws => w.org = h[s].org
                 /\ \A v \in Handlers : h'[v].id = h[s].ws => h'[v].pc = "issue"
      <4>1. Aimed(h[s])
          BY <3>3 DEF AccessInv, AimsHold, At
      <4>2. h[s].ws \in 1 .. calls' /\ h[s].ws # q.id
          BY <1>b, <4>1 DEF Aimed
      <4> QED BY <2>2, <3>2, <4>1, <4>2 DEF Aimed, At
    <3> QED BY <2>2, <3>1, <3>3 DEF AimsHold, Aimed, At
  <2> QED BY <1>2, <1>10, <1>a, <2>3, <2>4, <2>6, <2>7, <2>8, <2>9 DEF AccessInv
<1> QED BY <1>5, <1>11, <1>12

-----------------------------------------------------------------------------
(* The administrator.                                                       *)

(* What the administrator may do to the tables: no founder loses the        *)
(* membership that came with the account.                                   *)
Amended ==
  /\ db' \in Tables
  /\ db'.users = db.users /\ db'.orgs = db.orgs
  /\ db'.accounts = db.accounts /\ db'.workspaces = db.workspaces
  /\ \A o : Belongs(db.members, o, o) => Belongs(db'.members, o, o)
  /\ \A m \in db'.members :
       /\ (\E x \in db.members : x.org = m.org) \/ (\E o \in db.orgs : o.id = m.org)
       /\ m.user = m.org => Belongs(db.members, m.user, m.org)

Flags == inactive' \subseteq Ids /\ superusers' \subseteq Ids

LEMMA SameFlags ==
  ASSUME AccessInv, UNCHANGED <<inactive, superusers>> PROVE Flags
BY DEF AccessInv, TypeOK, Flags

(* One membership in place of another of the same user in the same          *)
(* organisation.                                                            *)
LEMMA Replaced ==
  ASSUME AccessInv, NEW m \in db.members, NEW new \in Membership,
         new.org = m.org, new.user = m.user,
         db' = [db EXCEPT !.members = (@ \ {m}) \cup {new}]
  PROVE  Amended
<1>1. db \in Tables
    BY DEF AccessInv, TypeOK
<1>2. /\ db' \in Tables /\ db'.users = db.users /\ db'.orgs = db.orgs
      /\ db'.accounts = db.accounts /\ db'.workspaces = db.workspaces
      /\ db'.members = (db.members \ {m}) \cup {new}
    BY <1>1 DEF Tables
<1>3. \A o : Belongs(db.members, o, o) => Belongs(db'.members, o, o)
    BY <1>2 DEF Belongs
<1>4. \A x \in db'.members : \E y \in db.members : y.org = x.org /\ y.user = x.user
    BY <1>2
<1> QED BY <1>2, <1>3, <1>4 DEF Amended, Belongs

LEMMA SetRole ==
  ASSUME AccessInv, set_role PROVE Amended /\ Flags
<1>1. PICK m \in db.members, role \in Grants :
        db' = [db EXCEPT !.members = (@ \ {m}) \cup {[m EXCEPT !.role = role]}]
    BY DEF set_role
<1> DEFINE new == [m EXCEPT !.role = role]
<1>2. new \in Membership /\ new.org = m.org /\ new.user = m.user
  <2>1. m \in Membership /\ role \in Roles
      BY BudgetAssumption DEF AccessInv, TypeOK, Tables
  <2> QED BY <2>1 DEF Membership
<1>3. db' = [db EXCEPT !.members = (@ \ {m}) \cup {new}]
    BY <1>1
<1> HIDE DEF new
<1> QED BY <1>2, <1>3, Replaced, SameFlags DEF set_role

LEMMA SetStatus ==
  ASSUME AccessInv, set_status PROVE Amended /\ Flags
<1>1. PICK m \in db.members, status \in Statuses :
        db' = [db EXCEPT !.members = (@ \ {m}) \cup {[m EXCEPT !.status = status]}]
    BY DEF set_status
<1> DEFINE new == [m EXCEPT !.status = status]
<1>2. new \in Membership /\ new.org = m.org /\ new.user = m.user
  <2>1. m \in Membership
      BY DEF AccessInv, TypeOK, Tables
  <2> QED BY <2>1 DEF Membership
<1>3. db' = [db EXCEPT !.members = (@ \ {m}) \cup {new}]
    BY <1>1
<1> HIDE DEF new
<1> QED BY <1>2, <1>3, Replaced, SameFlags DEF set_status

LEMMA AddMember ==
  ASSUME AccessInv, add_member PROVE Amended /\ Flags
<1>2. PICK u \in db.users, o \in db.orgs, role \in Grants :
        /\ MembershipsIn(db.members, u.id, o.id) = {}
        /\ db' = [db EXCEPT !.members = @ \cup
                    {[org |-> o.id, user |-> u.id, role |-> role, status |-> "active"]}]
    BY DEF add_member
<1> DEFINE new == [org |-> o.id, user |-> u.id, role |-> role, status |-> "active"]
<1>a. u.id # o.id
  <2>1. PICK m \in db.members : m.user = u.id /\ m.org = u.id
      BY DEF AccessInv, EveryAccountHasAHome
  <2>2. m \in MembershipsIn(db.members, u.id, u.id)
      BY <2>1 DEF MembershipsIn
  <2> QED BY <1>2, <2>2
<1>3. new \in Membership /\ new.org = o.id /\ new.user = u.id
  <2>1. u \in User /\ o \in Organization /\ role \in Roles
      BY BudgetAssumption DEF AccessInv, TypeOK, Tables
  <2> QED BY <2>1 DEF Membership, User, Organization, Statuses
<1>4. db \in Tables /\ db' = [db EXCEPT !.members = @ \cup {new}]
    BY <1>2 DEF AccessInv, TypeOK
<1> HIDE DEF new
<1>5. /\ db' \in Tables /\ db'.users = db.users /\ db'.orgs = db.orgs
      /\ db'.accounts = db.accounts /\ db'.workspaces = db.workspaces
      /\ db'.members = db.members \cup {new}
    BY <1>3, <1>4 DEF Tables
<1>6. Amended
    BY <1>a, <1>3, <1>5 DEF Amended, Belongs
<1> QED BY <1>6, SameFlags DEF add_member

LEMMA RemoveMember ==
  ASSUME AccessInv, remove_member PROVE Amended /\ Flags
<1>1. PICK m \in db.members : m.user # m.org /\ db' = [db EXCEPT !.members = @ \ {m}]
    BY DEF remove_member
<1>2. db \in Tables
    BY DEF AccessInv, TypeOK
<1>3. /\ db' \in Tables /\ db'.users = db.users /\ db'.orgs = db.orgs
      /\ db'.accounts = db.accounts /\ db'.workspaces = db.workspaces
      /\ db'.members = db.members \ {m}
    BY <1>1, <1>2 DEF Tables
<1>4. Amended
    BY <1>1, <1>3 DEF Amended, Belongs
<1> QED BY <1>4, SameFlags DEF remove_member

LEMMA SetActive ==
  ASSUME AccessInv, set_active PROVE Amended /\ Flags
<1>1. Flags
    BY DEF set_active, Toggle, Flags, AccessInv, TypeOK, Tables, User
<1>2. db' = db /\ db \in Tables
    BY DEF set_active, AccessInv, TypeOK
<1> QED BY <1>1, <1>2 DEF Amended, Belongs

LEMMA SetSuperuser ==
  ASSUME AccessInv, set_superuser PROVE Amended /\ Flags
<1>1. Flags
    BY DEF set_superuser, Toggle, Flags, AccessInv, TypeOK, Tables, User
<1>2. db' = db /\ db \in Tables
    BY DEF set_superuser, AccessInv, TypeOK
<1> QED BY <1>1, <1>2 DEF Amended, Belongs

LEMMA Amends == AccessInv /\ administer => Amended /\ Flags
BY SetRole, SetStatus, AddMember, RemoveMember, SetActive, SetSuperuser DEF administer

LEMMA Administers ==
  ASSUME AccessInv, administer PROVE AccessInv'
<1>1. Amended /\ Flags
    BY Amends
<1>2. UNCHANGED <<tx, h, denied, tokens, buckets, admitted, refused, now, calls>>
    BY DEF administer
<1>3. left' \in Budget /\ left'.calls = left.calls
    BY Spent DEF administer
<1>4. held \in [Handlers -> Seen]
    BY DEF AccessInv, TypeOK, Seen
<1>5. ASSUME NEW r \in Handlers, h[r].token = None
      PROVE  held'[r] = held[r]
    BY <1>5 DEF administer
<1>6. ASSUME NEW r \in Handlers, h[r].token # None
      PROVE  /\ held'[r].memberships = held[r].memberships \cup
                  MembershipsIn(db'.members, h[r].token.user, h[r].token.org)
             /\ held'[r].active = (held[r].active \/ h[r].token.user \notin inactive')
             /\ held'[r].superuser = (held[r].superuser \/ h[r].token.user \in superusers')
    BY <1>6 DEF administer
<1>7. held' \in [Handlers -> Seen]
  <2>1. \A u, o : MembershipsIn(db'.members, u, o) \subseteq Membership
      BY <1>1 DEF Amended, MembershipsIn, Tables
  <2>2. ASSUME NEW r \in Handlers, h[r].token # None
        PROVE  [memberships |-> held[r].memberships \cup
                  MembershipsIn(db'.members, h[r].token.user, h[r].token.org),
                active |-> held[r].active \/ h[r].token.user \notin inactive',
                superuser |-> held[r].superuser \/ h[r].token.user \in superusers'] \in Seen
      BY <1>4, <2>1 DEF Seen
  <2>3. ASSUME NEW r \in Handlers PROVE held[r] \in Seen
      BY <1>4
  <2> QED BY <2>2, <2>3 DEF administer
<1>8. TypeOK'
    BY <1>1, <1>2, <1>3, <1>7 DEF AccessInv, TypeOK, Amended, Flags, Seen
<1>9. CallsCarry' /\ CallsAreCounted'
    BY <1>2, <1>3 DEF AccessInv, CallsCarry, CallsAreCounted
<1>10. RowsHaveMakers'
  <2>1. Makers(db') \subseteq Makers(db)
      BY <1>1 DEF Amended, Makers
  <2> QED BY <1>2, <2>1 DEF AccessInv, RowsHaveMakers, At
<1>11. Grows(db.users, db.members, db'.users, db'.members)
    BY <1>1 DEF Amended, Grows, HasUser, Belongs
<1>12. HomesComeAlong'
    BY <1>2, <1>11, HomeStays DEF AccessInv, HomesComeAlong
<1>13. TrustIsEarned'
  <2>1. ASSUME NEW r \in Handlers PROVE Trusted(h[r], held'[r], db'.members, inactive', superusers')
    <3>1. CASE h[r].token = None
        BY <1>5, <2>1, <3>1, Here DEF Trusted
    <3>2. CASE h[r].token # None
      <4>1. /\ held[r].active => held'[r].active
            /\ held[r].superuser => held'[r].superuser
            /\ held[r].memberships \subseteq held'[r].memberships
          BY <1>6, <3>2
      <4>2. Permissions(held[r].memberships) \subseteq Permissions(held'[r].memberships)
          BY <4>1 DEF Permissions
      <4>3. Covers(held[r], h[r].op) => Covers(held'[r], h[r].op)
          BY <4>1, <4>2 DEF Covers, HasPermissions
      <4>4. /\ MembershipsIn(db'.members, h[r].token.user, h[r].token.org) \subseteq held'[r].memberships
            /\ h[r].token.user \notin inactive' => held'[r].active
            /\ h[r].token.user \in superusers' => held'[r].superuser
          BY <1>6, <3>2
      <4> QED BY <4>1, <4>3, <4>4, Here DEF Trusted
    <3> QED BY <3>1, <3>2
  <2> QED BY <1>2, <2>1 DEF TrustIsEarned
<1>14. EveryAccountHasAHome'
  <2>1. \A u \in db'.users : Belongs(db'.members, u.id, u.id)
      BY <1>1 DEF AccessInv, EveryAccountHasAHome, Amended, Belongs
  <2>2. ASSUME NEW o \in db'.orgs PROVE \E m \in db'.members : m.org = o.id
    <3>1. PICK m \in db.members : m.org = o.id
        BY <1>1, <2>2 DEF AccessInv, EveryAccountHasAHome, Amended
    <3>2. Belongs(db.members, o.id, o.id)
        BY <3>1 DEF AccessInv, FoundersStay
    <3> QED BY <1>1, <3>2 DEF Amended, Belongs
  <2>3. \A a \in db'.accounts : \E u \in db'.users : u.id = a.user
      BY <1>1 DEF AccessInv, EveryAccountHasAHome, Amended
  <2>4. ASSUME NEW t \in tokens'
        PROVE  /\ \E u \in db'.users : u.id = t.user
               /\ t.org # None => \E m \in db'.members : m.user = t.org /\ m.org = t.org
    <3>1. /\ \E u \in db.users : u.id = t.user
          /\ t.org # None => Belongs(db.members, t.org, t.org)
      <4>1. t \in tokens /\ EveryAccountHasAHome
          BY <1>2, <2>4 DEF AccessInv
      <4>2. \A x \in tokens : /\ \E u \in db.users : u.id = x.user
                              /\ x.org # None => \E m \in db.members : m.user = x.org /\ m.org = x.org
          BY <4>1 DEF EveryAccountHasAHome
      <4> QED BY ZenonT(60), <4>1, <4>2 DEF Belongs
    <3> QED BY <1>1, <3>1 DEF Amended, Belongs
  <2> QED BY <2>1, <2>2, <2>3, <2>4 DEF EveryAccountHasAHome, Belongs
<1>15. FoundersStay'
  <2>1. \A m \in db.members : Belongs(db'.members, m.org, m.org)
      BY <1>1 DEF AccessInv, FoundersStay, Amended
  <2>a. \A o \in db.orgs : \E m \in db'.members : m.org = o.id /\ m.user = o.id
    <3>1. \A o \in db.orgs : Belongs(db.members, o.id, o.id)
        BY DEF AccessInv, EveryAccountHasAHome, FoundersStay
    <3> QED BY <1>1, <3>1 DEF Amended, Belongs
  <2> QED BY <1>1, <2>1, <2>a DEF FoundersStay, Amended, Belongs
<1>16. \A k \in Keyed : AllRows(k)' = AllRows(k)
    BY <1>1, <1>2 DEF Amended, AllRows, Keyed
<1>17. KeysAreUnique'
  <2> SUFFICES ASSUME NEW k \in Keyed, NEW x \in AllRows(k)', NEW y \in AllRows(k)',
                      SameKey(k, x, y) \/ x.id = y.id
               PROVE  x = y
      BY DEF KeysAreUnique, SameKey
  <2> QED BY <1>16 DEF AccessInv, KeysAreUnique
<1>18. AimsHold'
  <2>1. AllRows("workspaces")' = AllRows("workspaces")
      BY <1>16 DEF Keyed
  <2> QED BY <1>2, <2>1 DEF AccessInv, AimsHold, Aimed, At
<1> QED BY <1>8, <1>9, <1>10, <1>12, <1>13, <1>14, <1>15, <1>17, <1>18 DEF AccessInv

-----------------------------------------------------------------------------
LEMMA AccessInit == Init => AccessInv
<1> SUFFICES ASSUME Init PROVE AccessInv
    OBVIOUS
<1>1. TypeOK
  <2>1. NoBucket \in Bucket
      BY DEF NoBucket, Bucket
  <2>2. [t \in 0 .. MaxTime |-> 0] \in [0 .. MaxTime -> Nat]
      OBVIOUS
  <2>3. NoRows \in Tables
      BY DEF NoRows, Tables
  <2>4. Idle \in Handler
      BY DEF Idle, Handler, Pc
  <2>5. held \in [Handlers -> [memberships : SUBSET Membership, active : BOOLEAN, superuser : BOOLEAN]]
      BY DEF Init, Nobody
  <2>6. 0 \in 0 .. MaxTime /\ 0 \in 0 .. MaxCalls /\ left \in Budget
      BY BudgetAssumption, AccessAssumption DEF Init
  <2>7. admitted \in [Clients \X Groups -> [0 .. MaxTime -> Nat]]
      BY <2>2 DEF Init
  <2> QED BY <2>1, <2>3, <2>4, <2>5, <2>6, <2>7 DEF Init, TypeOK
<1>2. CallsAreCounted
  <2>1. left \in Budget /\ calls = 0
      BY BudgetAssumption DEF Init
  <2> QED BY <2>1, AccessAssumption DEF Budget, CallsAreCounted
<1>3. CallsCarry
    BY Constants DEF Init, CallsCarry
<1>4. RowsHaveMakers
    BY Constants DEF Init, RowsHaveMakers, At, Idle
<1>5. HomesComeAlong /\ TrustIsEarned
    BY DEF Init, HomesComeAlong, TrustIsEarned, Home, Trusted, Idle, NoRows, Joining, Joined, Working
<1>6. EveryAccountHasAHome
    BY DEF Init, EveryAccountHasAHome, NoRows
<1>7. KeysAreUnique
  <2>1. \A k \in Keyed : AllRows(k) = {}
      BY DEF Init, AllRows, NoRows, Keyed
  <2> QED BY <2>1 DEF KeysAreUnique
<1>8. FoundersStay /\ AimsHold
    BY DEF Init, FoundersStay, NoRows, AimsHold, At, Idle
<1> QED BY <1>1, <1>2, <1>3, <1>4, <1>5, <1>6, <1>7, <1>8 DEF AccessInv

LEMMA AccessNext == AccessInv /\ [Next]_vars => AccessInv'
<1> SUFFICES ASSUME AccessInv, [Next]_vars PROVE AccessInv'
    OBVIOUS
<1>1. CASE UNCHANGED vars
    BY SMTT(40), <1>1, TablesStill DEF vars, AccessInv, TypeOK, CallsAreCounted, CallsCarry, RowsHaveMakers,
       At, HomesComeAlong, TrustIsEarned, EveryAccountHasAHome, AimsHold, Aimed
<1>2. CASE Next
    BY <1>2, Arrives, Handled, Aborts, Ticks, Administers DEF Next
<1> QED BY <1>1, <1>2

(* Whatever requests are in progress at once, die on the way or lose a      *)
(* race, the tables, the sessions and the tokens stay consistent: the       *)
(* inductive invariant of identity and workspaces.                          *)
THEOREM AccessSafe == Spec => []AccessInv
BY AccessInit, AccessNext, PTL DEF Spec

(* No account without an organisation of its own, no organisation without a *)
(* member, no token for anyone else: register and sso_login commit once.    *)
THEOREM AccountsHaveHomes == Spec => []EveryAccountHasAHome
<1>1. AccessInv => EveryAccountHasAHome
    BY DEF AccessInv
<1> QED BY <1>1, AccessSafe, PTL

(* Who is refused, by the limiter, for a token, a password, a right, or     *)
(* after a row was flushed, has left no row: get_db rolls back.             *)
THEOREM RefusalsLeaveNoRow == Spec => []RefusalsLeaveNothing
<1>1. AccessInv => RefusalsLeaveNothing
  <2> SUFFICES ASSUME AccessInv,
                      NEW x \in db.users \cup db.orgs \cup db.accounts \cup db.workspaces
               PROVE  x.id \notin denied
      BY DEF RefusalsLeaveNothing
  <2>1. x.id \in Makers(db)
      BY DEF Makers
  <2> QED BY <2>1 DEF AccessInv, RowsHaveMakers
<1> QED BY <1>1, AccessSafe, PTL

(* No request works with a right its caller had lost, for an account that   *)
(* was disabled, or above a permission for a superuser who no longer was    *)
(* one, before the request came: get_current_principal and                  *)
(* ensure_permission ask the tables, not the token.  A membership gives its *)
(* role's rights as long as it is there, suspended or not.                  *)
THEOREM AuthorityIsFresh == Spec => []NoStaleAuthority
<1>1. AccessInv => NoStaleAuthority
  <2> SUFFICES ASSUME AccessInv, NEW r \in Handlers, h[r].pc \in Working
               PROVE  Entitled(r)
      BY DEF NoStaleAuthority, AtWork, Working
  <2> QED BY StillTrusted DEF Entitled, Covers
<1> QED BY <1>1, AccessSafe, PTL

-----------------------------------------------------------------------------
(* What a step does to the directory.                                       *)

Committing(r) == commit_session(r) \/ delete_workspace(r) \/ commit_workspace(r)

LEMMA OthersCommitNothing ==
  ASSUME NEW r \in Handlers, arrive(r) \/ handle(r) \/ abort(r), ~Committing(r)
  PROVE  db' = db
<1>1. CASE arrive(r)
    BY <1>1 DEF arrive
<1>2. CASE abort(r)
    BY <1>2 DEF abort, Fail
<1>3. CASE handle(r) /\ Authenticate(r)
    BY <1>3 DEF Committing, Authenticate, by_email, add_user, choose_slug, add_organization,
       add_membership, check_password, find_account, find_linked_user, link_account,
       choose_organization, check_token, issue_tokens, Add, Refuse, Fail
<1>4. CASE handle(r) /\ Work(r)
    BY <1>4 DEF Committing, Work, build_principal, read_own, get_workspace, workspace_slug,
       add_workspace, Add, Refuse, Fail
<1> QED BY <1>1, <1>2, <1>3, <1>4 DEF handle

(* What a session commits: at most one user, with a home, and one link.     *)
LEMMA SessionCommits ==
  ASSUME AccessInv, NEW r \in Handlers, commit_session(r)
  PROVE  /\ db'.users = db.users \cup tx[r].users
         /\ db'.members = db.members \cup tx[r].members
         /\ db'.accounts = db.accounts \cup tx[r].accounts
         /\ db'.workspaces = db.workspaces
         /\ HasUser(db.users \cup tx[r].users, h[r].user)
         /\ \A u \in tx[r].users : Belongs(tx[r].members, u.id, u.id)
         /\ \A m \in tx[r].members : m.user = h[r].id /\ m.org = h[r].id
         /\ tx[r].users = {} => tx[r].members = {}
         /\ tx[r].users # {} => h[r].user = h[r].id
         /\ \A a \in tx[r].accounts : a.user = h[r].user
         /\ h[r].id \notin Makers(db)
         /\ \A u \in tx[r].users : u.id = h[r].id
         /\ \A a \in tx[r].accounts : a.id = h[r].id
<1>1. h[r].pc = "commit" /\ ~At(r, "issue")
    BY DEF commit_session, At
<1>2. /\ db'.users = db.users \cup tx[r].users
      /\ db'.members = db.members \cup tx[r].members
      /\ db'.accounts = db.accounts \cup tx[r].accounts
      /\ db'.workspaces = db.workspaces \cup tx[r].workspaces
    BY Here DEF commit_session, Commit, Tables
<1>3. Home(h[r], tx[r], db.users, db.members) /\ Makers(tx[r]) \subseteq {h[r].id}
    BY Here
<1>4. h[r].id \notin Makers(db)
    BY <1>1 DEF AccessInv, RowsHaveMakers
<1>5. /\ \A u \in tx[r].users : u.id = h[r].id
      /\ \A a \in tx[r].accounts : a.id = h[r].id
    BY <1>3 DEF Makers
<1> QED BY <1>1, <1>2, <1>3, <1>4, <1>5 DEF Home, Joined

(* Workspaces appear and disappear only by requests of a caller entitled to *)
(* it in their organisation: the workspace is looked up by its              *)
(* organisation, stays there until it is deleted, and the caller's rights   *)
(* were those of the token's organisation.                                  *)
THEOREM WorkspacesAreTenants == Spec => WorkspacesChangeAtHome
<1> DEFINE AtHome ==
             /\ \A w \in db'.workspaces \ db.workspaces : \E r \in Handlers :
                  h[r].op = "create" /\ h[r].token.org = w.org /\ Entitled(r)
             /\ \A w \in db.workspaces \ db'.workspaces : \E r \in Handlers :
                  h[r].op = "delete" /\ h[r].token.org = w.org /\ Entitled(r)
<1>1. ASSUME AccessInv, [Next]_vars PROVE AtHome \/ UNCHANGED vars
  <2>1. CASE db'.workspaces = db.workspaces
      BY <2>1
  <2>2. ASSUME NEW r \in Handlers, delete_workspace(r) PROVE AtHome
    <3>1. h[r].pc = "wsDelete" /\ db'.workspaces = {w \in db.workspaces : w.id # h[r].ws}
        BY <1>1, <2>2, Here DEF delete_workspace, At, Tables
    <3>2. /\ Aimed(h[r]) /\ h[r].org = h[r].token.org /\ h[r].op = "delete"
        BY <1>1, <3>1, Here, Insider DEF AccessInv, AimsHold, At, Working, Carries
    <3>3. Entitled(r)
        BY <1>1, <3>1, StillTrusted DEF Working, Entitled, Covers
    <3>4. \A w \in db.workspaces : w.id = h[r].ws => w.org = h[r].token.org
        BY <3>2 DEF Aimed, AllRows
    <3> QED BY <3>1, <3>2, <3>3, <3>4
  <2>3. ASSUME NEW r \in Handlers, commit_workspace(r) PROVE AtHome
    <3>1. h[r].pc = "wsAdd" /\ db'.workspaces = db.workspaces \cup tx[r].workspaces
        BY <1>1, <2>3, Here DEF commit_workspace, At, Tables
    <3>2. h[r].org = h[r].token.org /\ h[r].op = "create"
        BY <1>1, <3>1, Here, Insider DEF Working, Carries
    <3>3. Entitled(r)
        BY <1>1, <3>1, StillTrusted DEF Working, Entitled, Covers
    <3>4. \A w \in tx[r].workspaces : w.org = h[r].org
        BY <1>1, Here DEF Home
    <3> QED BY <3>1, <3>2, <3>3, <3>4
  <2>4. ASSUME NEW r \in Handlers, arrive(r) \/ handle(r) \/ abort(r) PROVE AtHome
    <3>1. CASE commit_session(r)
        BY <1>1, <2>1, <3>1, SessionCommits
    <3>2. CASE ~Committing(r)
        BY <2>1, <2>4, <3>2, OthersCommitNothing
    <3> QED BY <2>2, <2>3, <3>1, <3>2 DEF Committing
  <2>5. CASE tick
      BY <2>1, <2>5 DEF tick
  <2>6. CASE administer
    <3>1. Amended
        BY <1>1, <2>6, Amends
    <3> QED BY <2>1, <3>1 DEF Amended
  <2> QED BY <1>1, <2>4, <2>5, <2>6 DEF Next
<1>2. AccessInv /\ [Next]_vars => [AtHome]_vars
    BY <1>1
<1> QED BY <1>2, AccessSafe, PTL DEF Spec, WorkspacesChangeAtHome

-----------------------------------------------------------------------------
(* Identity implements the directory.                                       *)

LEMMA DirectoryStays ==
  ASSUME db'.users = db.users, db'.accounts = db.accounts, db'.workspaces = db.workspaces,
         \A o : Belongs(db.members, o, o) => Belongs(db'.members, o, o),
         \A m \in db'.members : m.user = m.org => Belongs(db.members, m.user, m.org)
  PROVE  UNCHANGED D!directory
<1>1. {<<m.user, m.org>> : m \in {x \in db'.members : x.user = x.org}}
        = {<<m.user, m.org>> : m \in {x \in db.members : x.user = x.org}}
    BY DEF Belongs
<1> QED BY <1>1 DEF D!directory

(* A session that is committed opens an account, links one, both or         *)
(* neither.                                                                 *)
LEMMA SessionIsPromised ==
  ASSUME AccessInv, NEW r \in Handlers, commit_session(r)
  PROVE  D!DirectoryNext \/ UNCHANGED D!directory
<1>1. /\ db'.users = db.users \cup tx[r].users
      /\ db'.members = db.members \cup tx[r].members
      /\ db'.accounts = db.accounts \cup tx[r].accounts
      /\ db'.workspaces = db.workspaces
      /\ HasUser(db.users \cup tx[r].users, h[r].user)
      /\ \A u \in tx[r].users : Belongs(tx[r].members, u.id, u.id)
      /\ \A m \in tx[r].members : m.user = h[r].id /\ m.org = h[r].id
      /\ tx[r].users = {} => tx[r].members = {}
      /\ tx[r].users # {} => h[r].user = h[r].id
      /\ \A a \in tx[r].accounts : a.user = h[r].user
      /\ h[r].id \notin Makers(db)
      /\ \A u \in tx[r].users : u.id = h[r].id
      /\ \A a \in tx[r].accounts : a.id = h[r].id
    BY SessionCommits
<1>2. /\ tx[r].users \subseteq AllRows("users") /\ db.users \subseteq AllRows("users")
      /\ tx[r].accounts \subseteq AllRows("accounts") /\ db.accounts \subseteq AllRows("accounts")
    BY DEF AllRows
<1>3. /\ \A x, y \in AllRows("users") : x.email = y.email \/ x.id = y.id => x = y
      /\ \A x, y \in AllRows("accounts") : x.subject = y.subject \/ x.id = y.id => x = y
    BY DEF AccessInv, KeysAreUnique, Keyed, SameKey
<1>4. /\ tx[r] \in Tables
    BY Here
(* The account, when there is a new one.                                    *)
<1>5. ASSUME NEW u \in tx[r].users PROVE D!Open(u.email, u.id)
  <2>1. tx[r].users = {u} /\ u.id = h[r].id
      BY <1>1, <1>2, <1>3, <1>5
  <2>2. \A v \in db.users : v.id # u.id
      BY <1>1, <1>5 DEF Makers
  <2>3. \A v \in db.users : v.email # u.email
      BY <1>2, <1>3, <1>5, <2>2
  <2>4. ~D!HasAccount(u.email) /\ ~D!Known(u.id)
      BY <2>2, <2>3 DEF D!HasAccount, D!Known
  <2>5. {<<v.email, v.id>> : v \in db'.users} =
          {<<v.email, v.id>> : v \in db.users} \cup {<<u.email, u.id>>}
      BY <1>1, <2>1
  <2>6. {<<m.user, m.org>> : m \in {x \in db'.members : x.user = x.org}} =
          {<<m.user, m.org>> : m \in {x \in db.members : x.user = x.org}} \cup {<<u.id, u.id>>}
    <3>1. PICK m \in tx[r].members : m.user = u.id /\ m.org = u.id
        BY <1>1, <1>5 DEF Belongs
    <3> QED BY <1>1, <2>1, <3>1
  <2> QED BY <2>4, <2>5, <2>6 DEF D!Open
<1>6. tx[r].users = {} =>
        /\ {<<v.email, v.id>> : v \in db'.users} = {<<v.email, v.id>> : v \in db.users}
        /\ {<<m.user, m.org>> : m \in {x \in db'.members : x.user = x.org}} =
             {<<m.user, m.org>> : m \in {x \in db.members : x.user = x.org}}
  <2>1. tx[r].users = {} => db'.users = db.users /\ db'.members = db.members
      BY <1>1
  <2> QED BY <2>1
(* The link, when there is one.                                             *)
<1>7. ASSUME NEW a \in tx[r].accounts PROVE D!Link(a.subject, a.user)
  <2>1. tx[r].accounts = {a}
      BY <1>1, <1>2, <1>3, <1>7
  <2>2. \A b \in db.accounts : b.id # a.id
      BY <1>1, <1>7 DEF Makers
  <2>3. \A b \in db.accounts : b.subject # a.subject
      BY <1>2, <1>3, <1>7, <2>2
  <2>4. ~D!Linked(a.subject)
      BY <2>3 DEF D!Linked
  <2>5. {<<b.subject, b.user>> : b \in db'.accounts} =
          {<<b.subject, b.user>> : b \in db.accounts} \cup {<<a.subject, a.user>>}
      BY <1>1, <2>1
  <2> QED BY <2>4, <2>5 DEF D!Link
<1>8. tx[r].accounts = {} =>
        {<<b.subject, b.user>> : b \in db'.accounts} = {<<b.subject, b.user>> : b \in db.accounts}
  <2>1. tx[r].accounts = {} => db'.accounts = db.accounts
      BY <1>1
  <2> QED BY <2>1
<1>9. CASE tx[r].users = {} /\ tx[r].accounts = {}
    BY <1>1, <1>6, <1>8, <1>9 DEF D!directory
<1>10. ASSUME NEW u \in tx[r].users, tx[r].accounts = {} PROVE D!DirectoryNext
  <2>1. u.email \in Emails /\ u.id \in Ids
      BY <1>4 DEF Tables, User
  <2>2. D!Register(u.email, u.id)
      BY <1>1, <1>5, <1>8, <1>10 DEF D!Register
  <2> QED BY <2>1, <2>2 DEF D!DirectoryNext
<1>11. ASSUME NEW a \in tx[r].accounts, tx[r].users = {} PROVE D!DirectoryNext
  <2>1. a.subject \in Subjects /\ a.user \in Ids
      BY <1>4 DEF Tables, OAuthAccount
  <2>2. D!Known(a.user)
    <3>1. PICK v \in db.users : v.id = a.user
        BY <1>1, <1>11 DEF HasUser
    <3>2. <<v.email, v.id>> \in {<<x.email, x.id>> : x \in db.users} /\ <<v.email, v.id>>[2] = a.user
        BY <3>1
    <3> QED BY <3>2 DEF D!Known
  <2>3. D!LinkKnown(a.subject, a.user)
      BY <1>1, <1>6, <1>7, <1>11, <2>2 DEF D!LinkKnown
  <2> QED BY <2>1, <2>3 DEF D!DirectoryNext
<1>12. ASSUME NEW u \in tx[r].users, NEW a \in tx[r].accounts PROVE D!DirectoryNext
  <2>1. u.email \in Emails /\ u.id \in Ids /\ a.subject \in Subjects /\ a.user = u.id
      BY <1>1, <1>4 DEF Tables, User, OAuthAccount
  <2>2. D!OpenAndLink(a.subject, u.email, u.id)
      BY <1>1, <1>5, <1>7, <2>1 DEF D!OpenAndLink
  <2> QED BY <2>1, <2>2 DEF D!DirectoryNext
<1> QED BY <1>9, <1>10, <1>11, <1>12

LEMMA CreationIsPromised ==
  ASSUME AccessInv, NEW r \in Handlers, commit_workspace(r)
  PROVE  D!DirectoryNext \/ UNCHANGED D!directory
<1>1. h[r].pc = "wsAdd" /\ ~At(r, "issue")
    BY DEF commit_workspace, At
<1>2. tx[r].users = {} /\ tx[r].orgs = {} /\ tx[r].members = {} /\ tx[r].accounts = {}
    BY <1>1, Here DEF Home, Joining, Joined
<1>3. /\ db'.users = db.users /\ db'.members = db.members
      /\ db'.accounts = db.accounts /\ db'.workspaces = db.workspaces \cup tx[r].workspaces
    BY <1>2, Here DEF commit_workspace, Tables
<1>4. CASE tx[r].workspaces = {}
  <2>1. db'.workspaces = db.workspaces
      BY <1>3, <1>4
  <2> QED BY <1>3, <2>1 DEF D!directory
<1>5. ASSUME NEW w \in tx[r].workspaces PROVE D!CreateSpace
  <2>1. \A x, y \in AllRows("workspaces") :
          (x.org = y.org /\ x.slug = y.slug) \/ x.id = y.id => x = y
      BY DEF AccessInv, KeysAreUnique, Keyed, SameKey
  <2>2. tx[r].workspaces \subseteq AllRows("workspaces") /\ db.workspaces \subseteq AllRows("workspaces")
      BY DEF AllRows
  <2>3. \A x \in tx[r].workspaces : x.id = h[r].id /\ x.org = h[r].org
    <3>1. \A x \in tx[r].workspaces : x.id \in Makers(tx[r])
        BY DEF Makers
    <3>2. \A x \in tx[r].workspaces : x.org = h[r].org
        BY Here DEF Home
    <3> QED BY <3>1, <3>2, Here
  <2>4. tx[r].workspaces = {w}
      BY <1>5, <2>1, <2>2, <2>3
  <2>5. \A v \in db.workspaces : v.id # w.id
    <3>1. h[r].id \notin Makers(db)
        BY <1>1 DEF AccessInv, RowsHaveMakers
    <3> QED BY <1>5, <2>3, <3>1 DEF Makers
  <2>6. \A v \in db.workspaces : v.org = w.org => v.slug # w.slug
      BY <1>5, <2>1, <2>2, <2>5
  <2>7. \E p \in {<<m.user, m.org>> : m \in {x \in db.members : x.user = x.org}} : p[2] = w.org
    <3>1. h[r].token # None /\ h[r].org = h[r].token.org
        BY <1>1, Insider DEF Working
    <3>2. Founded(db.members, h[r].token.org) /\ h[r].org # None
        BY <1>1, <3>1, Here DEF Home, Carries, Working
    <3>3. PICK m \in db.members : m.user = w.org /\ m.org = w.org
        BY <1>5, <2>3, <3>1, <3>2 DEF Founded, Belongs
    <3>4. /\ <<m.user, m.org>> \in {<<x.user, x.org>> : x \in {y \in db.members : y.user = y.org}}
          /\ <<m.user, m.org>>[2] = w.org
        BY <3>3
    <3> QED BY <3>4
  <2>8. w \in db'.workspaces \ db.workspaces /\ db'.workspaces = db.workspaces \cup {w}
      BY <1>3, <2>4, <2>5
  <2>9. /\ {<<v.email, v.id>> : v \in db'.users} = {<<v.email, v.id>> : v \in db.users}
        /\ {<<m.user, m.org>> : m \in {x \in db'.members : x.user = x.org}} =
             {<<m.user, m.org>> : m \in {x \in db.members : x.user = x.org}}
        /\ {<<b.subject, b.user>> : b \in db'.accounts} = {<<b.subject, b.user>> : b \in db.accounts}
      BY <1>3
  <2> QED BY <2>5, <2>6, <2>7, <2>8, <2>9 DEF D!CreateSpace
<1> QED BY <1>4, <1>5 DEF D!DirectoryNext

LEMMA DeletionIsPromised ==
  ASSUME AccessInv, NEW r \in Handlers, delete_workspace(r)
  PROVE  D!DirectoryNext \/ UNCHANGED D!directory
<1>1. /\ db'.users = db.users /\ db'.members = db.members /\ db'.accounts = db.accounts
      /\ db'.workspaces = {w \in db.workspaces : w.id # h[r].ws}
    BY Here DEF delete_workspace, Tables
<1>2. CASE \A w \in db.workspaces : w.id # h[r].ws
  <2>1. db'.workspaces = db.workspaces
      BY <1>1, <1>2
  <2> QED BY <1>1, <2>1 DEF D!directory
<1>3. ASSUME NEW w \in db.workspaces, w.id = h[r].ws PROVE D!DeleteSpace
  <2>1. \A x, y \in AllRows("workspaces") : x.id = y.id => x = y
      BY DEF AccessInv, KeysAreUnique, Keyed
  <2>2. db'.workspaces = db.workspaces \ {w}
      BY <1>1, <1>3, <2>1 DEF AllRows
  <2>3. /\ {<<v.email, v.id>> : v \in db'.users} = {<<v.email, v.id>> : v \in db.users}
        /\ {<<m.user, m.org>> : m \in {x \in db'.members : x.user = x.org}} =
             {<<m.user, m.org>> : m \in {x \in db.members : x.user = x.org}}
        /\ {<<b.subject, b.user>> : b \in db'.accounts} = {<<b.subject, b.user>> : b \in db.accounts}
      BY <1>1
  <2> QED BY <2>2, <2>3 DEF D!DeleteSpace
<1> QED BY <1>2, <1>3 DEF D!DirectoryNext

(* However requests race, fail or are refused, what they commit is a step   *)
(* of the directory: one account for an address and for a subject, for      *)
(* ever, an organisation with each, and no slug twice in an organisation.   *)
THEOREM IdentityIsADirectory == Spec => ImplementsDirectory
<1>1. Init => D!DirectoryInit
    BY DEF Init, NoRows, D!DirectoryInit
<1>2. AccessInv /\ [Next]_vars => [D!DirectoryNext]_(D!directory)
  <2> SUFFICES ASSUME AccessInv, [Next]_vars
               PROVE  D!DirectoryNext \/ UNCHANGED D!directory
      OBVIOUS
  <2>1. ASSUME db' = db PROVE UNCHANGED D!directory
    <3>1. db'.users = db.users /\ db'.accounts = db.accounts /\ db'.workspaces = db.workspaces
          /\ db'.members = db.members
        BY <2>1
    <3> QED BY <3>1, DirectoryStays DEF Belongs
  <2>2. CASE UNCHANGED vars \/ tick
      BY <2>1, <2>2 DEF vars, tick
  <2>3. CASE administer
    <3>1. Amended
        BY <2>3, Amends
    <3> QED BY <3>1, DirectoryStays DEF Amended
  <2>4. ASSUME NEW r \in Handlers, arrive(r) \/ handle(r) \/ abort(r)
        PROVE  D!DirectoryNext \/ UNCHANGED D!directory
    <3>1. CASE ~Committing(r)
        BY <2>1, <2>4, <3>1, OthersCommitNothing
    <3>2. CASE Committing(r)
        BY <3>2, SessionIsPromised, CreationIsPromised, DeletionIsPromised DEF Committing
    <3> QED BY <3>1, <3>2
  <2> QED BY <2>2, <2>3, <2>4 DEF Next
<1> QED BY <1>1, <1>2, AccessSafe, PTL DEF Spec, ImplementsDirectory, D!DirectorySpec

-----------------------------------------------------------------------------
(* The limiter: what a key's bucket says of the requests it admitted.       *)

Clock == 0 .. MaxTime

Span(from, to) == {t \in 0 .. MaxTime : from <= t /\ t <= to}

(* At tick n, the open window of bucket b began with an admitted request,   *)
(* has admitted as many as it counts, up to the limit, and nothing was      *)
(* admitted after it; and fewer than the limit just before it, less than a  *)
(* window away.                                                             *)
Counts(b, a, n) ==
  /\ \A t \in Clock : t > n => a[t] = 0
  /\ b.count = 0 => \A t \in Clock : a[t] = 0
  /\ b.count > 0 =>
       /\ b.start <= n /\ a[b.start] >= 1
       /\ \A t \in Clock : t >= b.start + Window => a[t] = 0
       /\ SumOf(a, Span(b.start, MaxTime)) = IF b.count <= Limit THEN b.count ELSE Limit
       /\ \A t \in Clock :
            t < b.start /\ b.start < t + Window => SumOf(a, Span(t, b.start - 1)) < Limit

Bounded(a) == \A t \in Clock : SumOf(a, Span(t, t + Window - 1)) < 2 * Limit

KeyInv(b, a, n) == Counts(b, a, n) /\ Bounded(a)

LEMMA SpanFacts ==
  /\ IsFiniteSet(Clock)
  /\ \A from, to : Span(from, to) \in SUBSET Clock
BY FS_Interval, BudgetAssumption DEF Clock, Span

(* One more admission counts in the spans it falls in.                      *)
LEMMA OneMore ==
  ASSUME NEW n \in Clock, NEW a \in [Clock -> Nat], NEW a2 \in [Clock -> Nat],
         a2[n] = a[n] + 1, \A t \in Clock : t # n => a2[t] = a[t], NEW from, NEW to
  PROVE  SumOf(a2, Span(from, to)) =
           SumOf(a, Span(from, to)) + (IF n \in Span(from, to) THEN 1 ELSE 0)
BY SpanFacts, SumGrows

(* A window that has room admits.                                           *)
LEMMA Admits ==
  ASSUME Limit > 0, NEW n \in Clock, NEW b \in Bucket, NEW a \in [Clock -> Nat],
         Counts(b, a, n), Hit(b, n).count <= Limit
  PROVE  Counts(Hit(b, n), [a EXCEPT ![n] = @ + 1], n)
<1> DEFINE b2 == Hit(b, n)
           a2 == [a EXCEPT ![n] = @ + 1]
<1>0. /\ n \in Nat /\ n <= MaxTime /\ MaxTime \in Nat
      /\ b.count \in Nat /\ b.start \in Nat /\ Limit \in Nat /\ Window \in Nat \ {0}
  BY BudgetAssumption, LimiterAssumption DEF Clock, Bucket
<1>1. /\ a2 \in [Clock -> Nat] /\ a2[n] = a[n] + 1
      /\ \A t \in Clock : t # n => a2[t] = a[t]
  OBVIOUS
<1> HIDE DEF a2
<1>2. ASSUME NEW from, NEW to
      PROVE  SumOf(a2, Span(from, to)) =
               SumOf(a, Span(from, to)) + (IF n \in Span(from, to) THEN 1 ELSE 0)
  BY <1>1, OneMore
<1>3. \A from, to : SumOf(a, Span(from, to)) \in Nat
  BY SpanFacts, SumPeels
<1>4. CASE b.count # 0 /\ n - b.start < Window
  <2>1. b2.count = b.count + 1 /\ b2.start = b.start
    BY <1>0, <1>4 DEF Hit, Bucket
  <2> HIDE DEF b2
  <2>2. /\ \A t \in Clock : t > n => a[t] = 0
        /\ b.start <= n /\ a[b.start] >= 1
        /\ \A t \in Clock : t >= b.start + Window => a[t] = 0
        /\ SumOf(a, Span(b.start, MaxTime)) = b.count
        /\ \A t \in Clock :
             t < b.start /\ b.start < t + Window => SumOf(a, Span(t, b.start - 1)) < Limit
    BY <1>0, <1>4, <2>1 DEF Counts, b2
  <2>3. n \in Span(b.start, MaxTime) /\ \A t : n \notin Span(t, b.start - 1)
    BY <1>0, <2>2 DEF Span
  <2>4. a2[b.start] >= 1
    <3>1. b.start \in Clock
      BY <1>0, <2>2 DEF Clock
    <3>2. a[b.start] \in Nat
      BY <3>1
    <3> QED
      BY <1>1, <2>2, <3>1, <3>2
  <2>5. \A t \in Clock : t > n \/ t >= b.start + Window => a2[t] = 0
    BY <1>0, <1>1, <1>4, <2>2 DEF Clock
  <2>6. SumOf(a2, Span(b.start, MaxTime)) = b2.count
    BY <1>2, <2>1, <2>2, <2>3
  <2>7. \A t \in Clock :
          t < b.start /\ b.start < t + Window => SumOf(a2, Span(t, b.start - 1)) < Limit
    BY <1>2, <1>3, <2>2, <2>3
  <2>8. b2.count <= Limit /\ b2.count # 0
    BY <1>0, <2>1 DEF b2
  <2> HIDE DEF Clock
  <2>9. Counts(b2, a2, n)
    BY <2>1, <2>2, <2>4, <2>5, <2>6, <2>7, <2>8 DEF Counts
  <2> QED
    BY <2>9 DEF a2, b2
<1>5. CASE b.count = 0 \/ n - b.start >= Window
  <2>1. b2.count = 1 /\ b2.start = n
    BY <1>5 DEF Hit
  <2> HIDE DEF b2
  <2>2. \A t \in Clock : t >= n => a[t] = 0
    <3>1. CASE b.count = 0
      BY <3>1 DEF Counts
    <3>2. CASE b.count # 0
      <4>1. \A t \in Clock : t >= b.start + Window => a[t] = 0
        BY <1>0, <3>2 DEF Counts
      <4> QED
        BY <1>0, <1>5, <3>2, <4>1 DEF Clock
    <3> QED
      BY <3>1, <3>2
  <2>3. SumOf(a, Span(n, MaxTime)) = 0
    <3>1. \A t \in Span(n, MaxTime) : a[t] = 0
      BY <2>2 DEF Span, Clock
    <3> QED
      BY <3>1, SpanFacts, SumOfZeros
  <2>4. ASSUME NEW t \in Clock, t < n, n < t + Window
        PROVE  SumOf(a, Span(t, n - 1)) < Limit
    <3>1. CASE b.count = 0
      <4>1. \A u \in Span(t, n - 1) : a[u] = 0
        BY <3>1, SpanFacts DEF Counts
      <4>2. SumOf(a, Span(t, n - 1)) = 0
        BY <4>1, SpanFacts, SumOfZeros
      <4> QED
        BY <1>0, <4>2
    <3>2. CASE b.count # 0
      <4> DEFINE all == Span(b.start, MaxTime)
                 some == Span(t, n - 1)
      <4>1. /\ b.start <= n /\ a[b.start] >= 1 /\ SumOf(a, all) <= Limit
        BY <1>0, <3>2 DEF Counts
      <4>2. b.start < t
        BY <1>0, <1>5, <2>4, <3>2 DEF Clock
      <4>3. some \subseteq all \ {b.start} /\ b.start \in all
        <5>1. b.start \in Clock /\ b.start \in Nat /\ t \in Nat /\ MaxTime \in Nat
          BY <1>0, <4>1 DEF Clock
        <5>2. ASSUME NEW u \in some PROVE u \in all /\ u # b.start
          BY <4>2, <5>1, <5>2 DEF Span, Clock
        <5>3. b.start \in all
          BY <5>1 DEF Span, Clock
        <5> QED
          BY <5>2, <5>3
      <4>4. all \in SUBSET Clock /\ all \ {b.start} \in SUBSET Clock
        BY SpanFacts
      <4> HIDE DEF all, some
      <4>5. SumOf(a, all) = a[b.start] + SumOf(a, all \ {b.start})
        BY <4>3, <4>4, SpanFacts, SumPeels
      <4>6. SumOf(a, some) <= SumOf(a, all \ {b.start})
        BY <4>3, <4>4, SpanFacts, SumsOrdered
      <4>7. /\ SumOf(a, all \ {b.start}) \in Nat /\ a[b.start] \in Nat
        BY <4>3, <4>4, SpanFacts, SumPeels
      <4>8. SumOf(a, some) \in Nat
        BY <1>3 DEF some
      <4> QED
        BY <1>0, <4>1, <4>5, <4>6, <4>7, <4>8 DEF some
    <3> QED
      BY <3>1, <3>2
  <2>5. n \in Span(n, MaxTime) /\ \A t : n \notin Span(t, n - 1)
    BY <1>0 DEF Span
  <2>6. a2[n] >= 1 /\ \A t \in Clock : t > n => a2[t] = 0
    <3>1. a[n] \in Nat
      OBVIOUS
    <3> QED
      BY <1>0, <1>1, <2>2, <3>1 DEF Clock
  <2>7. \A t \in Clock : t >= n + Window => a2[t] = 0
    BY <1>0, <2>6 DEF Clock
  <2>8. SumOf(a2, Span(n, MaxTime)) = 1
    BY <1>2, <2>3, <2>5
  <2>9. \A t \in Clock : t < n /\ n < t + Window => SumOf(a2, Span(t, n - 1)) < Limit
    BY <1>2, <1>3, <2>4, <2>5
  <2>10. Counts(b2, a2, n)
    <3> HIDE DEF Clock
    <3> QED
      BY <1>0, <2>1, <2>6, <2>7, <2>8, <2>9 DEF Counts
  <2> QED
    BY <2>10 DEF a2, b2
<1> QED
  BY <1>0, <1>4, <1>5

(* So no span as long as a window sees twice the limit.                     *)
LEMMA StaysBounded ==
  ASSUME Limit > 0, NEW n \in Clock, NEW b \in Bucket, NEW a \in [Clock -> Nat],
         b.count # 0, Counts(b, a, n), NEW t \in Clock, t <= n, n < t + Window
  PROVE  SumOf(a, Span(t, t + Window - 1)) < 2 * Limit
<1>0. /\ n \in Nat /\ t \in Nat /\ n <= MaxTime /\ MaxTime \in Nat
      /\ b.count \in Nat /\ b.start \in Nat /\ Limit \in Nat /\ Window \in Nat \ {0}
  BY BudgetAssumption, LimiterAssumption DEF Clock, Bucket
<1> DEFINE span == Span(t, t + Window - 1)
           all == Span(b.start, MaxTime)
           before == Span(t, b.start - 1)
<1>1. b.start <= n /\ SumOf(a, all) <= Limit
  BY <1>0 DEF Counts
<1>2. /\ SumOf(a, all) \in Nat /\ SumOf(a, span) \in Nat /\ SumOf(a, before) \in Nat
      /\ all \in SUBSET Clock /\ span \in SUBSET Clock /\ before \in SUBSET Clock
  BY SpanFacts, SumPeels
<1>3. CASE t >= b.start
  <2>1. span \subseteq all
    BY <1>0, <1>3 DEF Span
  <2> HIDE DEF span, all
  <2>2. SumOf(a, span) <= SumOf(a, all)
    BY <1>2, <2>1, SpanFacts, SumsOrdered
  <2>3. SumOf(a, span) < 2 * Limit
    BY <1>0, <1>1, <1>2, <2>2
  <2> QED
    BY <2>3 DEF span
<1>4. CASE t < b.start
  <2>1. SumOf(a, before) < Limit
    BY <1>0, <1>1, <1>4 DEF Counts
  <2>2. span \subseteq before \cup all /\ before \cap all = {} /\ before \cup all \in SUBSET Clock
    BY <1>0, <1>1, <1>2 DEF Span
  <2> HIDE DEF span, all, before
  <2>3. SumOf(a, before \cup all) = SumOf(a, before) + SumOf(a, all)
    BY <1>2, <2>2, SpanFacts, SumsAdd
  <2>4. SumOf(a, span) <= SumOf(a, before \cup all)
    BY <1>2, <2>2, SpanFacts, SumsOrdered
  <2>5. SumOf(a, span) < 2 * Limit
    BY <1>0, <1>1, <1>2, <2>1, <2>3, <2>4
  <2> QED
    BY <2>5 DEF span
<1> QED
  BY <1>0, <1>3, <1>4

LEMMA AdmitsFairly ==
  ASSUME Limit > 0, NEW n \in Clock, NEW b \in Bucket, NEW a \in [Clock -> Nat],
         KeyInv(b, a, n), Hit(b, n).count <= Limit
  PROVE  KeyInv(Hit(b, n), [a EXCEPT ![n] = @ + 1], n)
<1> DEFINE b2 == Hit(b, n)
           a2 == [a EXCEPT ![n] = @ + 1]
<1>1. Counts(b2, a2, n) /\ Bounded(a)
  BY Admits DEF KeyInv
<1>2. /\ n \in Nat /\ Window \in Nat /\ b2 \in Bucket /\ b2.count # 0 /\ a2 \in [Clock -> Nat]
  BY SMTT(40), LimiterAssumption DEF Clock, Hit, Bucket
<1>a. a2[n] = a[n] + 1 /\ \A t \in Clock : t # n => a2[t] = a[t]
  OBVIOUS
<1>3. ASSUME NEW t \in Clock PROVE SumOf(a2, Span(t, t + Window - 1)) < 2 * Limit
  <2> HIDE DEF a2, b2
  <2>1. CASE n \in Span(t, t + Window - 1)
    <3>1. t <= n /\ n < t + Window
      BY <1>2, <2>1 DEF Span, Clock
    <3> QED
      BY <1>1, <1>2, <3>1, StaysBounded
  <2>2. CASE n \notin Span(t, t + Window - 1)
    <3>0. SumOf(a2, Span(t, t + Window - 1)) =
            SumOf(a, Span(t, t + Window - 1)) + (IF n \in Span(t, t + Window - 1) THEN 1 ELSE 0)
      BY <1>2, <1>a, OneMore
    <3>1. SumOf(a2, Span(t, t + Window - 1)) = SumOf(a, Span(t, t + Window - 1)) + 0
      BY <2>2, <3>0
    <3>2. SumOf(a, Span(t, t + Window - 1)) \in Nat
      BY SpanFacts, SumPeels
    <3> QED
      BY <1>1, <3>1, <3>2 DEF Bounded
  <2> QED
    BY <2>1, <2>2
<1> HIDE DEF a2, b2
<1>4. KeyInv(b2, a2, n)
  BY <1>1, <1>3 DEF KeyInv, Bounded
<1> QED
  BY <1>4 DEF a2, b2

(* A request is refused when the limit was admitted within the last window. *)
LEMMA RefusesFairly ==
  ASSUME Limit > 0, NEW n \in Clock, NEW b \in Bucket, NEW a \in [Clock -> Nat],
         KeyInv(b, a, n), ~(Hit(b, n).count <= Limit)
  PROVE  KeyInv(Hit(b, n), a, n) /\ SumOf(a, Span(n - Window + 1, n)) >= Limit
<1> DEFINE b2 == Hit(b, n)
<1>0. /\ n \in Nat /\ n <= MaxTime /\ MaxTime \in Nat
      /\ b.count \in Nat /\ b.start \in Nat /\ Limit \in Nat /\ Window \in Nat \ {0}
  BY BudgetAssumption, LimiterAssumption DEF Clock, Bucket
<1>1. b.count # 0 /\ n - b.start < Window /\ b2.count = b.count + 1 /\ b2.start = b.start
  BY <1>0 DEF Hit, Bucket
<1>2. b2.count > Limit /\ b.count >= Limit
  BY <1>0, <1>1
<1> HIDE DEF b2
<1>3. Counts(b, a, n) /\ Bounded(a)
  BY DEF KeyInv
<1>4. b.start <= n /\ SumOf(a, Span(b.start, MaxTime)) = Limit
  BY <1>0, <1>1, <1>2, <1>3 DEF Counts
<1>5. Counts(b2, a, n)
  <2> HIDE DEF Clock
  <2> QED
    BY <1>0, <1>1, <1>2, <1>3, <1>4 DEF Counts
<1>6. SumOf(a, Span(n - Window + 1, n)) >= Limit
  <2> DEFINE here == Span(b.start, n)
             later == Span(n + 1, MaxTime)
             recent == Span(n - Window + 1, n)
  <2>1. /\ Span(b.start, MaxTime) = here \cup later /\ here \cap later = {}
        /\ here \subseteq recent
    BY <1>0, <1>1, <1>4 DEF Span
  <2>2. \A t \in later : a[t] = 0
    BY <1>0, <1>3 DEF Counts, Span, Clock
  <2>3. here \in SUBSET Clock /\ later \in SUBSET Clock /\ recent \in SUBSET Clock
    BY SpanFacts
  <2> HIDE DEF here, later, recent
  <2>4. SumOf(a, later) = 0
    BY <2>2, <2>3, SpanFacts, SumOfZeros
  <2>5. SumOf(a, here \cup later) = SumOf(a, here) + SumOf(a, later)
    BY <2>1, <2>3, SpanFacts, SumsAdd
  <2>6. SumOf(a, here) <= SumOf(a, recent)
    BY <2>1, <2>3, SpanFacts, SumsOrdered
  <2>7. SumOf(a, here) \in Nat /\ SumOf(a, recent) \in Nat
    BY <2>3, SpanFacts, SumPeels
  <2>8. SumOf(a, recent) >= Limit
    BY <1>0, <1>4, <2>1, <2>4, <2>5, <2>6, <2>7
  <2> QED
    BY <2>8 DEF recent
<1> QED
  BY <1>3, <1>5, <1>6 DEF KeyInv, b2

LimiterInv ==
  /\ Limit > 0 => \A k \in Clients \X Groups : KeyInv(buckets[k], admitted[k], now)
  /\ \A x \in refused : AdmittedIn(x[1], x[2] - Window + 1, x[2]) >= Limit

LEMMA AdmittedIsSum ==
  ASSUME NEW k, NEW from, NEW to
  PROVE  AdmittedIn(k, from, to) = SumOf(admitted[k], Span(from, to))
BY DEF AdmittedIn, SumOf, Span

(* What the next state has to show, with the primes where the values are.   *)
LEMMA LimiterAfter ==
  ASSUME Limit > 0 => \A k \in Clients \X Groups : KeyInv(buckets'[k], admitted'[k], now'),
         \A x \in refused' : SumOf(admitted'[x[1]], Span(x[2] - Window + 1, x[2])) >= Limit
  PROVE  LimiterInv'
<1>a. ASSUME NEW k, NEW from, NEW to
      PROVE  AdmittedIn(k, from, to)' = SumOf(admitted'[k], Span(from, to))
  BY DEF AdmittedIn, SumOf, Span, MapThenSumSet, MapThenFoldSet
<1>b. ASSUME NEW k
      PROVE  KeyInv(buckets[k], admitted[k], now)' <=> KeyInv(buckets'[k], admitted'[k], now')
  <2>1. Counts(buckets[k], admitted[k], now)' <=> Counts(buckets'[k], admitted'[k], now')
    BY DEF Counts, Clock, Span, SumOf, MapThenSumSet, MapThenFoldSet
  <2>2. Bounded(admitted[k])' <=> Bounded(admitted'[k])
    BY DEF Bounded, Clock, Span, SumOf, MapThenSumSet, MapThenFoldSet
  <2> QED
    BY <2>1, <2>2 DEF KeyInv
<1>1. (Limit > 0 => \A k \in Clients \X Groups : KeyInv(buckets[k], admitted[k], now))'
  BY <1>b
<1>2. (\A x \in refused : AdmittedIn(x[1], x[2] - Window + 1, x[2]) >= Limit)'
  BY <1>a
<1> QED
  BY <1>1, <1>2 DEF LimiterInv

LEMMA LimiterStarts == Init => LimiterInv
<1> SUFFICES ASSUME Init PROVE LimiterInv
  OBVIOUS
<1>1. ASSUME Limit > 0, NEW k \in Clients \X Groups PROVE KeyInv(buckets[k], admitted[k], now)
  <2> DEFINE a == [t \in 0 .. MaxTime |-> 0]
  <2>1. buckets[k] = NoBucket /\ admitted[k] = a /\ NoBucket.count = 0
    BY DEF Init, NoBucket
  <2>2. a \in [Clock -> Nat] /\ \A t \in Clock : a[t] = 0
    BY DEF Clock
  <2> HIDE DEF a
  <2>3. Counts(NoBucket, a, now)
    BY <2>1, <2>2 DEF Counts
  <2>4. ASSUME NEW t \in Clock PROVE SumOf(a, Span(t, t + Window - 1)) < 2 * Limit
    <3>1. SumOf(a, Span(t, t + Window - 1)) = 0
      BY <2>2, SpanFacts, SumOfZeros
    <3> QED
      BY <1>1, <3>1, LimiterAssumption
  <2> QED
    BY <2>1, <2>3, <2>4 DEF KeyInv, Bounded
<1>2. refused = {}
  BY DEF Init
<1> QED
  BY <1>1, <1>2 DEF LimiterInv

LEMMA LimiterArrives ==
  ASSUME AccessInv, LimiterInv, NEW r \in Handlers, arrive(r)
  PROVE  LimiterInv'
<1>1. PICK c \in left.clients, op \in left.ops :
        LET k == <<c, Group(op)>> IN
        /\ buckets' = [buckets EXCEPT ![k] = Hit(@, now)]
        /\ IF Allowed(buckets'[k])
           THEN admitted' = [admitted EXCEPT ![k][now] = @ + 1] /\ refused' = refused
           ELSE refused' = refused \cup {<<k, now>>} /\ admitted' = admitted
  BY DEF arrive
<1> DEFINE k == <<c, Group(op)>>
<1>2. /\ buckets \in [Clients \X Groups -> Bucket] /\ now \in Clock /\ now' = now
      /\ admitted \in [Clients \X Groups -> [Clock -> Nat]]
      /\ refused \subseteq (Clients \X Groups) \X Clock
  BY DEF arrive, AccessInv, TypeOK, Clock
<1>3. k \in Clients \X Groups
  <2>1. c \in Clients /\ op \in Ops
    BY DEF AccessInv, TypeOK, Budget
  <2>2. Group(op) \in Groups
    BY <2>1 DEF Group, Groups, Ops
  <2> QED
    BY <2>1, <2>2
<1> HIDE DEF k
<1>4. /\ buckets' = [buckets EXCEPT ![k] = Hit(buckets[k], now)]
      /\ buckets'[k] = Hit(buckets[k], now)
      /\ \A q \in Clients \X Groups : q # k => buckets'[q] = buckets[q]
  BY <1>1, <1>2, <1>3 DEF k
<1>5. CASE Allowed(buckets'[k])
  <2>1. /\ admitted' = [admitted EXCEPT ![k] = [admitted[k] EXCEPT ![now] = @ + 1]]
        /\ refused' = refused
    BY <1>1, <1>5 DEF k
  <2>2. /\ admitted'[k] = [admitted[k] EXCEPT ![now] = @ + 1]
        /\ \A q \in Clients \X Groups : q # k => admitted'[q] = admitted[q]
    BY <1>2, <1>3, <2>1
  <2>3. ASSUME Limit > 0, NEW q \in Clients \X Groups
        PROVE  KeyInv(buckets'[q], admitted'[q], now')
    <3>1. CASE q = k
      <4>1. Hit(buckets[k], now).count <= Limit
        BY <1>4, <1>5, <2>3 DEF Allowed
      <4>2. KeyInv(buckets[k], admitted[k], now) /\ buckets[k] \in Bucket
            /\ admitted[k] \in [Clock -> Nat]
        BY <1>2, <1>3, <2>3 DEF LimiterInv
      <4>3. KeyInv(Hit(buckets[k], now), [admitted[k] EXCEPT ![now] = @ + 1], now)
        BY <1>2, <2>3, <4>1, <4>2, AdmitsFairly
      <4> QED
        BY <1>2, <1>4, <2>2, <3>1, <4>3
    <3>2. CASE q # k
      BY <1>2, <1>4, <2>2, <2>3, <3>2 DEF LimiterInv
    <3> QED
      BY <3>1, <3>2
  <2>4. ASSUME NEW x \in refused' PROVE SumOf(admitted'[x[1]], Span(x[2] - Window + 1, x[2])) >= Limit
    <3>1. x[1] \in Clients \X Groups /\ x \in refused
      BY <1>2, <2>1, <2>4
    <3>2. SumOf(admitted[x[1]], Span(x[2] - Window + 1, x[2])) >= Limit
      BY <3>1, AdmittedIsSum DEF LimiterInv
    <3>3. CASE x[1] # k
      BY <2>2, <3>1, <3>2, <3>3
    <3>4. CASE x[1] = k
      <4> DEFINE s == Span(x[2] - Window + 1, x[2])
      <4>1. s \in SUBSET Clock /\ admitted[k] \in [Clock -> Nat]
        BY <1>2, <1>3, SpanFacts
      <4> HIDE DEF s
      <4> DEFINE f == admitted[k]
                 grown == admitted'[k]
      <4>a. /\ f \in [Clock -> Nat] /\ grown \in [Clock -> Nat] /\ grown[now] = f[now] + 1
            /\ \A t \in Clock : t # now => grown[t] = f[t]
            /\ now \in Clock
        BY <1>2, <2>2, <4>1
      <4> HIDE DEF f, grown
      <4>b. SumOf(grown, s) = SumOf(f, s) + (IF now \in s THEN 1 ELSE 0)
        <5> DEFINE n == now
        <5>1. n \in Clock /\ grown[n] = f[n] + 1 /\ \A t \in Clock : t # n => grown[t] = f[t]
          BY <4>a
        <5> HIDE DEF n
        <5>2. SumOf(grown, s) = SumOf(f, s) + (IF n \in s THEN 1 ELSE 0)
          BY <4>1, <4>a, <5>1, SpanFacts, SumGrows
        <5> QED
          BY <5>2 DEF n
      <4>2. SumOf(admitted'[k], s) = SumOf(admitted[k], s) + (IF now \in s THEN 1 ELSE 0)
        BY <4>b DEF f, grown
      <4>3. SumOf(admitted[k], s) \in Nat
        BY <4>1, SpanFacts, SumPeels
      <4>4. SumOf(admitted'[k], s) >= Limit
        BY <3>2, <3>4, <4>2, <4>3, LimiterAssumption DEF s
      <4> QED
        BY <3>4, <4>4 DEF s
    <3> QED
      BY <3>3, <3>4
  <2> QED
    BY <2>3, <2>4, LimiterAfter
<1>6. CASE ~Allowed(buckets'[k])
  <2>1. refused' = refused \cup {<<k, now>>} /\ admitted' = admitted
    BY <1>1, <1>6 DEF k
  <2>2. Limit > 0 /\ ~(Hit(buckets[k], now).count <= Limit)
    BY <1>4, <1>6, LimiterAssumption DEF Allowed
  <2>3. /\ KeyInv(Hit(buckets[k], now), admitted[k], now)
        /\ SumOf(admitted[k], Span(now - Window + 1, now)) >= Limit
    <3>1. KeyInv(buckets[k], admitted[k], now) /\ buckets[k] \in Bucket
          /\ admitted[k] \in [Clock -> Nat]
      BY <1>2, <1>3, <2>2 DEF LimiterInv
    <3> QED
      BY <1>2, <2>2, <3>1, RefusesFairly
  <2>4. ASSUME NEW q \in Clients \X Groups PROVE KeyInv(buckets'[q], admitted'[q], now')
    <3>1. CASE q = k
      BY <1>2, <1>4, <2>1, <2>3, <3>1
    <3>2. CASE q # k
      BY <1>2, <1>4, <2>1, <2>2, <3>2 DEF LimiterInv
    <3> QED
      BY <3>1, <3>2
  <2>5. ASSUME NEW x \in refused' PROVE SumOf(admitted'[x[1]], Span(x[2] - Window + 1, x[2])) >= Limit
    <3>1. CASE x \in refused
      BY <2>1, <3>1, AdmittedIsSum DEF LimiterInv
    <3>2. CASE x = <<k, now>>
      BY <2>1, <2>3, <3>2
    <3> QED
      BY <2>1, <3>1, <3>2
  <2> QED
    BY <2>4, <2>5, LimiterAfter
<1> QED
  BY <1>5, <1>6

LEMMA LimiterTicks ==
  ASSUME AccessInv, LimiterInv, tick PROVE LimiterInv'
<1>1. now' = now + 1 /\ UNCHANGED <<buckets, admitted, refused>>
  BY DEF tick
<1>2. /\ buckets \in [Clients \X Groups -> Bucket] /\ now \in Nat
  BY DEF AccessInv, TypeOK
<1>3. ASSUME Limit > 0, NEW k \in Clients \X Groups PROVE KeyInv(buckets[k], admitted[k], now + 1)
  <2>1. KeyInv(buckets[k], admitted[k], now) /\ buckets[k].start \in Nat
    BY <1>2, <1>3 DEF LimiterInv, Bucket
  <2> QED
    BY <1>2, <2>1 DEF KeyInv, Counts, Clock
<1>4. \A x \in refused : SumOf(admitted[x[1]], Span(x[2] - Window + 1, x[2])) >= Limit
  BY AdmittedIsSum DEF LimiterInv
<1> QED
  BY <1>1, <1>3, <1>4, LimiterAfter

LEMMA LimiterStep == AccessInv /\ LimiterInv /\ [Next]_vars => LimiterInv'
<1> SUFFICES ASSUME AccessInv, LimiterInv, [Next]_vars PROVE LimiterInv'
  OBVIOUS
<1>1. ASSUME UNCHANGED <<buckets, admitted, refused, now>> PROVE LimiterInv'
  <2>1. \A x \in refused : SumOf(admitted[x[1]], Span(x[2] - Window + 1, x[2])) >= Limit
    BY AdmittedIsSum DEF LimiterInv
  <2>2. Limit > 0 => \A k \in Clients \X Groups : KeyInv(buckets[k], admitted[k], now)
    BY DEF LimiterInv
  <2> QED
    BY <1>1, <2>1, <2>2, LimiterAfter
<1>2. ASSUME NEW r \in Handlers, handle(r) PROVE LimiterInv'
  BY <1>1, <1>2 DEF handle
<1>3. ASSUME NEW r \in Handlers, abort(r) PROVE LimiterInv'
  BY <1>1, <1>3 DEF abort
<1>4. CASE administer
  BY <1>1, <1>4 DEF administer
<1>5. CASE UNCHANGED vars
  BY <1>1, <1>5 DEF vars
<1> QED
  BY <1>2, <1>3, <1>4, <1>5, LimiterArrives, LimiterTicks DEF Next

(* No span as long as a window admits twice the limit to a key, and nobody  *)
(* is refused who was not admitted the limit within the window before, for  *)
(* any limit, window and arrivals (core/ratelimit.py).                      *)
THEOREM LimiterIsFair == Spec => []LimitsAreFair
<1>1. ASSUME LimiterInv, AccessInv PROVE LimitsAreFair
  <2>1. ASSUME Limit > 0, NEW k \in Clients \X Groups, NEW t \in 0 .. MaxTime
        PROVE  AdmittedIn(k, t, t + Window - 1) < 2 * Limit
    BY <1>1, <2>1, AdmittedIsSum DEF LimiterInv, KeyInv, Bounded, Clock
  <2> QED
    BY <1>1, <2>1 DEF LimitsAreFair, LimiterInv
<1> QED
  BY <1>1, AccessSafe, LimiterStarts, LimiterStep, PTL DEF Spec
=============================================================================
