------------------------------ MODULE MCAccounts ------------------------------
(* The accounts and their deliveries on a small instance: two accounts that *)
(* the same role logs in to, and a login to the first for another role.     *)
EXTENDS AccountDelivery, TLC

CONSTANTS x1, x2, x3, a1, a2, r1, r2, t1

MCAccountOf == [x \in Refs |-> IF x = x2 THEN a2 ELSE a1]
MCRoleOf == [x \in Refs |-> IF x = x3 THEN r2 ELSE r1]
=============================================================================
