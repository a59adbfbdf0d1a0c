------------------------------ MODULE MCSched -------------------------------
(* Instances of Sched for TLC: three slots, so that init has two children, *)
(* and few pages, of which the card's driver has taken some: creating a    *)
(* child runs out of memory at the first or the second of its allocations, *)
(* or not at all.                                                          *)
EXTENDS Sched
=============================================================================
