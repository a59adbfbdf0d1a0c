------------------------------ MODULE MCFileIO ------------------------------
(***************************************************************************)
(* An instance of FileIO and of Vfs for TLC. The two share no state: the   *)
(* descriptors of kernel.c do not use vfs.c. part says which of them runs, *)
(* the other stays at its beginning.                                       *)
(***************************************************************************)
EXTENDS FileIO, Vfs

VARIABLE part

MCInit ==
  /\ part \in {"io", "vfs"} /\ FileInit /\ VfsInit
  /\ part = "vfs" => \A fd \in Files : type[fd] = 0

MCNext ==
  /\ UNCHANGED part
  /\ \/ part = "io" /\ (\A copy \in last.copies : Inside(copy)) /\ FileNext /\ UNCHANGED vfsVars
     \/ part = "vfs" /\ VfsNext /\ UNCHANGED fileVars

MCSpec == MCInit /\ [][MCNext]_<<part, fileVars, vfsVars>>
=============================================================================
