------------------------------ MODULE MCAccess ------------------------------
(* Small instances of Access for TLC. *)
EXTENDS Access, TLC

CONSTANTS c1, c2, r1, r2

(* Registrations, sign-ons and logins that race; ones that die; rights that *)
(* change under requests; two changes between one request and the next, and *)
(* a member who is removed; two organisations and their workspaces; a       *)
(* client that calls as fast as it can; tokens that run out.                *)
Races == [handlers |-> {r1, r2}, clients |-> {c1, c2}, ops |-> {"register", "login", "sso"},
          calls |-> 3, ticks |-> 0, aborts |-> 0, changes |-> 0]

Lost == [handlers |-> {r1, r2}, clients |-> {c1, c2}, ops |-> {"register"},
         calls |-> 3, ticks |-> 0, aborts |-> 1, changes |-> 0]

Rights == [handlers |-> {r1, r2}, clients |-> {c1}, ops |-> {"register", "create"},
           calls |-> 3, ticks |-> 0, aborts |-> 0, changes |-> 1]

Changes == [handlers |-> {r1}, clients |-> {c1}, ops |-> {"register", "sso", "create", "get"},
            calls |-> 3, ticks |-> 0, aborts |-> 0, changes |-> 2]

Removal == [handlers |-> {r1}, clients |-> {c1}, ops |-> {"register", "login", "list"},
            calls |-> 4, ticks |-> 0, aborts |-> 0, changes |-> 2]

Neighbours == [handlers |-> {r1, r2}, clients |-> {c1}, ops |-> {"register", "create", "delete"},
               calls |-> 4, ticks |-> 0, aborts |-> 0, changes |-> 0]

Burst == [handlers |-> {r1, r2}, clients |-> {c1}, ops |-> {"login"},
          calls |-> 5, ticks |-> 3, aborts |-> 0, changes |-> 0]

Expiry == [handlers |-> {r1, r2}, clients |-> {c1}, ops |-> {"register", "refresh", "list"},
           calls |-> 3, ticks |-> 2, aborts |-> 0, changes |-> 0]

Scenarios == {Races, Lost, Rights, Changes, Removal, Neighbours, Burst, Expiry}
=============================================================================
