-------------------------- MODULE DocumentCatalog --------------------------
(***************************************************************************)
(* What the document API promises its clients, with no sessions, locks,    *)
(* queues or stores: each document has a status and serves at most one     *)
(* generation of chunks.  A generation is replaced whole, only by a newer  *)
(* one, only together with the status that reports it, and is gone with    *)
(* its document, which never comes back.                                   *)
(***************************************************************************)
EXTENDS Naturals

CONSTANT Docs

VARIABLES
  status,           \* status of each document, as clients see it
  served            \* the generations whose chunks search can return

catalog == <<status, served>>

Known == {"uploaded", "indexed", "failed"}

CatalogInit ==
  /\ status = [d \in Docs |-> "unborn"]
  /\ served = [d \in Docs |-> {}]

(* A newer generation takes the place of the one served.                    *)
Replace(d) ==
  \E g \in served'[d] :
    /\ served' = [served EXCEPT ![d] = {g}]
    /\ \A h \in served[d] : h < g

Become(d, s) == status' = [status EXCEPT ![d] = s]

Create(d) == status[d] = "unborn" /\ Become(d, "uploaded") /\ UNCHANGED served

(* A client asks for a new generation; the old one is served meanwhile.     *)
Invalidate(d) == status[d] \in Known /\ Become(d, "uploaded") /\ UNCHANGED served

Publish(d) == status[d] \in Known /\ Become(d, "indexed") /\ Replace(d)

Reject(d) ==
  /\ status[d] \in Known
  /\ Become(d, "failed")
  /\ UNCHANGED served \/ Replace(d)

Remove(d) ==
  /\ status[d] \in Known
  /\ Become(d, "deleted")
  /\ served' = [served EXCEPT ![d] = {}]

CatalogNext ==
  \E d \in Docs : Create(d) \/ Invalidate(d) \/ Publish(d) \/ Reject(d) \/ Remove(d)

CatalogSpec == CatalogInit /\ [][CatalogNext]_catalog
=============================================================================
