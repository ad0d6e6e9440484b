----------------------------- MODULE Directory -----------------------------
(***************************************************************************)
(* What identity promises: a directory in which an e-mail address leads to *)
(* one account and a single sign-on subject to one account, for ever; an   *)
(* account appears together with an organisation of its own; and a         *)
(* workspace lives in one organisation, under a slug nobody else there     *)
(* has.  No sessions, no uncommitted rows, no races.                       *)
(***************************************************************************)
EXTENDS Naturals

CONSTANTS Emails, Subjects, Account

VARIABLES
  holder,           \* pairs <<email, account>>
  home,             \* pairs <<account, organisation it was created with>>
  link,             \* pairs <<subject, account>>
  space             \* workspaces: [id, org, slug]

directory == <<holder, home, link, space>>

DirectoryInit == holder = {} /\ home = {} /\ link = {} /\ space = {}

HasAccount(e) == \E p \in holder : p[1] = e

Known(a) == \E p \in holder : p[2] = a

Linked(s) == \E p \in link : p[1] = s

(* A new account, with its e-mail and its organisation.                     *)
Open(e, a) ==
  /\ ~HasAccount(e)
  /\ ~Known(a)
  /\ holder' = holder \cup {<<e, a>>}
  /\ home' = home \cup {<<a, a>>}

Register(e, a) == Open(e, a) /\ UNCHANGED <<link, space>>

Link(s, a) ==
  /\ ~Linked(s)
  /\ link' = link \cup {<<s, a>>}

(* First sign-on: for an account there is, or with a new one.               *)
LinkKnown(s, a) == Known(a) /\ Link(s, a) /\ UNCHANGED <<holder, home, space>>

OpenAndLink(s, e, a) == Open(e, a) /\ Link(s, a) /\ UNCHANGED space

CreateSpace ==
  /\ \E w \in space' \ space :
       /\ space' = space \cup {w}
       /\ \A v \in space : v.id # w.id /\ (v.org = w.org => v.slug # w.slug)
       /\ \E p \in home : p[2] = w.org
  /\ UNCHANGED <<holder, home, link>>

DeleteSpace ==
  /\ \E w \in space : space' = space \ {w}
  /\ UNCHANGED <<holder, home, link>>

DirectoryNext ==
  \/ \E e \in Emails, a \in Account : Register(e, a)
  \/ \E s \in Subjects, a \in Account : LinkKnown(s, a)
  \/ \E s \in Subjects, e \in Emails, a \in Account : OpenAndLink(s, e, a)
  \/ CreateSpace
  \/ DeleteSpace

DirectorySpec == DirectoryInit /\ [][DirectoryNext]_directory
=============================================================================
