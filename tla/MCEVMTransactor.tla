--------------------------- MODULE MCEVMTransactor ---------------------------
(* Two operations of one process and one of another, on one account.        *)
EXTENDS EVMTransactor, TLC

CONSTANTS o1, o2, o3, p, q

MCProcessOf == (o1 :> p) @@ (o2 :> p) @@ (o3 :> q)
=============================================================================
