------------------------------ MODULE MCSocket ------------------------------
(* Instances of Socket for TLC.                                            *)
EXTENDS Socket

PeerSymmetry == Permutations(Peer)
=============================================================================
