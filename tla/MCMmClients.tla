---------------------------- MODULE MCMmClients -----------------------------
(* Instances of MmClients for TLC: two clients, four pages to hand out and *)
(* blocks of up to three, so that memory fragments and a block fails at    *)
(* its first page, in the middle and at its last.                          *)
EXTENDS MmClients

CONSTANTS c1, c2
=============================================================================
