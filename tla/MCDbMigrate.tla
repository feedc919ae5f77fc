----------------------------- MODULE MCDbMigrate -----------------------------
(* Instance of DbMigrate: two databases of three keys.                      *)
EXTENDS DbMigrate

CONSTANTS d1, d2, k1, k2, k3, v1

BothDbs == <<d1, d2>>
ThreeKeys == <<k1, k2, k3>>
AllStored == [k \in Keys |-> v1]
=============================================================================
