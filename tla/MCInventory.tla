---- MODULE MCInventory ----
(* thread1() and thread2(): one request after the other.                   *)
EXTENDS Inventory

CONSTANTS r1, r2
MCRequests == {r1, r2}
====
