------------------------------ MODULE Accounts ------------------------------
(***************************************************************************)
(* AuthService: registration, login, refresh and single sign-on, one       *)
(* action per await.                                                       *)
(*                                                                         *)
(*   register  byEmail -> addUser -> slug -> addOrg -> addMember           *)
(*               -> commit -> issue                                        *)
(*   login     password -> choose -> commit -> issue                       *)
(*   sso       account -> byId | byEmail [-> addUser .. addMember] -> link *)
(*               -> choose -> commit -> issue                              *)
(*   refresh   token -> issue                                              *)
(*                                                                         *)
(* last_login_at, full_name and the names of organisations are left out:   *)
(* no step reads them.                                                     *)
(***************************************************************************)
EXTENDS AccessState

UserOf(r) == CHOOSE u \in Rows(r, "users") : u.id = h[r].user

Active(u) == u \notin inactive

Superuser(u) == u \in superusers

-----------------------------------------------------------------------------
(* register and the just-in-time branch of sso_login.                       *)

(* get_by_email: register refuses a known address; SSO links to its user,   *)
(* whose is_active is the one loaded here.                                  *)
by_email(r) ==
  /\ At(r, "byEmail")
  /\ LET known == {u \in Rows(r, "users") : u.email = h[r].email} IN
     IF known = {}
     THEN Goto(r, "addUser") /\ UNCHANGED <<db, tx, denied>>
     ELSE IF h[r].op = "register"
     THEN Refuse(r)
     ELSE /\ \E u \in known : h' = [h EXCEPT ![r].pc = "link", ![r].user = u.id,
                                             ![r].active = Active(u.id)]
          /\ UNCHANGED <<db, tx, denied>>
  /\ UNCHANGED tokens

(* Mutant: the user is committed before it has a home.                      *)
add_user_early(r) ==
  /\ At(r, "addUser")
  /\ LET user == [id |-> h[r].id, email |-> h[r].email, password |-> h[r].op = "register"]
     IN /\ ~Waits(r, "users", user)
        /\ ~Exists(r, "users", user)
        /\ db' = [db EXCEPT !.users = @ \cup {user}]
  /\ h' = [h EXCEPT ![r].pc = "slug", ![r].user = h[r].id]
  /\ UNCHANGED <<tx, denied, tokens>>

(* users.add: a user made by SSO has no password.                           *)
add_user(r) ==
  /\ At(r, "addUser")
  /\ Add(r, "users",
         [id |-> h[r].id, email |-> h[r].email, password |-> h[r].op = "register"],
         [h[r] EXCEPT !.pc = "slug", !.user = h[r].id])
  /\ UNCHANGED tokens

(* _provision_owner_org: a slug that is taken gets a random suffix.         *)
choose_slug(r) ==
  /\ At(r, "slug")
  /\ LET taken == \E o \in Rows(r, "orgs") : o.slug = <<h[r].name, 0>>
     IN h' = [h EXCEPT ![r].pc = "addOrg", ![r].suffix = IF taken THEN h[r].id ELSE 0]
  /\ UNCHANGED <<db, tx, denied, tokens>>

add_organization(r) ==
  /\ At(r, "addOrg")
  /\ Add(r, "orgs", [id |-> h[r].id, slug |-> <<h[r].name, h[r].suffix>>],
         [h[r] EXCEPT !.pc = "addMember", !.org = h[r].id])
  /\ UNCHANGED tokens

(* status is left to the column's default.                                  *)
OwnersMembership(r) ==
  [org |-> h[r].org, user |-> h[r].user, role |-> "owner", status |-> "active"]

(* Mutant: single sign-on gives the new user no membership.                 *)
add_membership_once(r) ==
  /\ At(r, "addMember")
  /\ IF h[r].op = "sso"
     THEN Goto(r, "link") /\ UNCHANGED <<db, tx, denied>>
     ELSE Add(r, "members", OwnersMembership(r), [h[r] EXCEPT !.pc = "commit"])
  /\ UNCHANGED tokens

(* The owner's membership; get_system_role finds the row the migration      *)
(* seeded.                                                                  *)
add_membership(r) ==
  /\ At(r, "addMember")
  /\ Add(r, "members", OwnersMembership(r),
         [h[r] EXCEPT !.pc = IF h[r].op = "register" THEN "commit" ELSE "link"])
  /\ UNCHANGED tokens

-----------------------------------------------------------------------------
(* login.                                                                   *)

(* Unknown address, no password, wrong password, disabled: all 401.         *)
check_password(r) ==
  /\ At(r, "password")
  /\ LET known == {u \in Rows(r, "users") :
                     u.email = h[r].email /\ u.password /\ Active(u.id)} IN
     IF known # {} /\ h[r].correct
     THEN /\ \E u \in known : h' = [h EXCEPT ![r].pc = "choose", ![r].user = u.id]
          /\ UNCHANGED <<db, tx, denied>>
     ELSE Refuse(r)
  /\ UNCHANGED tokens

-----------------------------------------------------------------------------
(* sso_login.                                                               *)

find_account(r) ==
  /\ At(r, "account")
  /\ LET linked == {a \in Rows(r, "accounts") : a.subject = h[r].subject} IN
     IF linked = {}
     THEN Goto(r, "byEmail")
     ELSE \E a \in linked : h' = [h EXCEPT ![r].pc = "byId", ![r].user = a.user]
  /\ UNCHANGED <<db, tx, denied, tokens>>

find_linked_user(r) ==
  /\ At(r, "byId")
  /\ IF Active(h[r].user)
     THEN Goto(r, "choose") /\ UNCHANGED <<db, tx, denied>>
     ELSE Refuse(r)
  /\ UNCHANGED tokens

(* Mutant: the link is committed before is_active is looked at.             *)
link_account_early(r) ==
  /\ At(r, "link")
  /\ LET a == [id |-> h[r].id, subject |-> h[r].subject, user |-> h[r].user] IN
     /\ ~Waits(r, "accounts", a)
     /\ IF Exists(r, "accounts", a)
        THEN Fail(r)
        ELSE /\ db' = [t \in DOMAIN db |-> db[t] \cup tx[r][t] \cup (IF t = "accounts" THEN {a} ELSE {})]
             /\ tx' = [tx EXCEPT ![r] = NoRows]
             /\ Goto(r, "choose")
             /\ UNCHANGED denied
  /\ UNCHANGED tokens

(* oauth.add; is_active is only looked at after it, as it was loaded.       *)
link_account(r) ==
  /\ At(r, "link")
  /\ Add(r, "accounts", [id |-> h[r].id, subject |-> h[r].subject, user |-> h[r].user],
         [h[r] EXCEPT !.pc = "choose"])
  /\ UNCHANGED tokens

-----------------------------------------------------------------------------
(* The organisation of the session, the commit, the tokens.                 *)

(* memberships.get: whatever their status.                                  *)
OrgsOf(r) == {m.org : m \in {x \in Rows(r, "members") : x.user = h[r].user}}

(* memberships.list_for_user: the active ones.                              *)
ActiveOrgsOf(r) ==
  {m.org : m \in {x \in Rows(r, "members") : x.user = h[r].user /\ x.status = "active"}}

(* _resolve_login_org: the organisation asked for by its slug, where a      *)
(* suspended membership will do, or any the user is active in (no ORDER     *)
(* BY); SSO asks for none, and may find none.                               *)
OrgChoices(r) ==
  IF h[r].op = "login" /\ h[r].name # None
  THEN {o.id : o \in {x \in Rows(r, "orgs") : x.slug = <<h[r].name, 0>>}} \cap OrgsOf(r)
  ELSE ActiveOrgsOf(r)

choose_organization(r) ==
  /\ At(r, "choose")
  /\ CASE ~h[r].active -> Refuse(r)
       [] h[r].active /\ OrgChoices(r) # {} ->
            /\ \E o \in OrgChoices(r) : h' = [h EXCEPT ![r].pc = "commit", ![r].org = o]
            /\ UNCHANGED <<db, tx, denied>>
       [] h[r].active /\ OrgChoices(r) = {} ->
            IF h[r].op = "login" THEN Refuse(r)
            ELSE /\ h' = [h EXCEPT ![r].pc = "commit", ![r].org = None]
                 /\ UNCHANGED <<db, tx, denied>>
  /\ UNCHANGED tokens

commit_session(r) ==
  /\ At(r, "commit")
  /\ Commit(r)
  /\ Goto(r, "issue")
  /\ UNCHANGED <<denied, tokens>>

(* Mutant: a signed token is enough, the user is not looked up.             *)
check_token_signed(r) ==
  /\ At(r, "token")
  /\ LET t == h[r].token
         type == IF h[r].op = "refresh" THEN "refresh" ELSE "access" IN
     IF t.type = type /\ now < t.exp
     THEN /\ h' = [h EXCEPT ![r].pc = IF h[r].op = "refresh" THEN "issue" ELSE "rights",
                            ![r].user = t.user, ![r].org = t.org,
                            ![r].superuser = Superuser(t.user)]
          /\ UNCHANGED <<db, tx, denied>>
     ELSE Refuse(r)
  /\ UNCHANGED tokens

(* decode_token, then the user as the table has it now, is_superuser with   *)
(* it.                                                                      *)
check_token(r) ==
  /\ At(r, "token")
  /\ LET t == h[r].token
         type == IF h[r].op = "refresh" THEN "refresh" ELSE "access" IN
     IF t.type = type /\ now < t.exp /\ Active(t.user)
     THEN /\ h' = [h EXCEPT ![r].pc = IF h[r].op = "refresh" THEN "issue" ELSE "rights",
                            ![r].user = t.user, ![r].org = t.org,
                            ![r].superuser = Superuser(t.user)]
          /\ UNCHANGED <<db, tx, denied>>
     ELSE Refuse(r)
  /\ UNCHANGED tokens

(* _build_principal and _issue_tokens: the tokens name the user and the     *)
(* organisation only, so what the principal holds now is not in them.       *)
issue_tokens(r) ==
  /\ At(r, "issue")
  /\ tokens' = tokens \cup
       {[type |-> "access", user |-> h[r].user, org |-> h[r].org, exp |-> now + AccessTtl],
        [type |-> "refresh", user |-> h[r].user, org |-> h[r].org, exp |-> now + RefreshTtl]}
  /\ Reply(r)
  /\ UNCHANGED db

Authenticate(r) ==
  \/ by_email(r) \/ add_user(r) \/ choose_slug(r) \/ add_organization(r)
  \/ add_membership(r) \/ check_password(r) \/ find_account(r)
  \/ find_linked_user(r) \/ link_account(r) \/ choose_organization(r)
  \/ commit_session(r) \/ check_token(r) \/ issue_tokens(r)
=============================================================================
