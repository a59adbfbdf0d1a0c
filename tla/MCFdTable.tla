----------------------------- MODULE MCFdTable ------------------------------
(* Instances of FdTable for TLC: two descriptors and four pages, some of   *)
(* them held by others, so that a call can fail at its first page, at its  *)
(* second, and for want of a descriptor.                                   *)
EXTENDS FdTable
=============================================================================
