---------------------------- MODULE RateLimiter ----------------------------
(***************************************************************************)
(* The in-process rate limiter of the API: a fixed window per key, opened  *)
(* by the first request that finds the previous one over.                  *)
(***************************************************************************)
EXTENDS Naturals

CONSTANTS
  Limit,            \* requests a window admits; 0 switches the limiter off
  Window            \* length of a window, in ticks of the clock

ASSUME LimiterAssumption == Limit \in Nat /\ Window \in Nat \ {0}

(* A bucket is (count, window_start); a key without one reads (0, now).     *)
Bucket == [count : Nat, start : Nat]

NoBucket == [count |-> 0, start |-> 0]

(* Mutant: the window ends a tick early.                                    *)
Hit_early(bucket, now) ==
  IF bucket.count = 0 \/ now - bucket.start >= Window - 1
  THEN [count |-> 1, start |-> now]
  ELSE [bucket EXCEPT !.count = @ + 1]

(* The bucket after a request: refused requests count too, but do not move  *)
(* the start of the window.                                                 *)
Hit(bucket, now) ==
  IF bucket.count = 0 \/ now - bucket.start >= Window
  THEN [count |-> 1, start |-> now]
  ELSE [bucket EXCEPT !.count = @ + 1]

(* The answer of allow(), from the bucket it has just written.              *)
Allowed(bucket) == Limit = 0 \/ bucket.count <= Limit

(* The requests of a key that are counted together: the segment after       *)
(* /api/v1 when more follows it, the whole path when nothing does.          *)
Group(op) ==
  CASE op \in {"register", "login", "refresh", "sso", "me"} -> "auth"
    [] op \in {"create", "list"} -> "/api/v1/workspaces"
    [] op \in {"get", "delete"} -> "workspaces"
    [] op = "members" -> "users"

Groups == {"auth", "/api/v1/workspaces", "workspaces", "users"}
=============================================================================
