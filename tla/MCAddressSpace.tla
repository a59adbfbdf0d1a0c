--------------------------- MODULE MCAddressSpace ---------------------------
(* Instances of AddressSpace for TLC: pages of two bytes, so that an       *)
(* address can be unaligned, and memory that runs out while the page       *)
(* tables are made, while a region is mapped and while the heap grows.     *)
EXTENDS AddressSpace
=============================================================================
