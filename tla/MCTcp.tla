-------------------------------- MODULE MCTcp -------------------------------
(* Instances of Tcp for TLC.                                               *)
EXTENDS Tcp
=============================================================================
