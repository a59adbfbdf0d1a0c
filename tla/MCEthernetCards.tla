--------------------------- MODULE MCEthernetCards --------------------------
(* Instances of EthernetCards for TLC.                                     *)
EXTENDS EthernetCards
=============================================================================
