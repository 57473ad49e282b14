--------------------------- MODULE MCFileTransfer ---------------------------
(***************************************************************************)
(* Instances of FileTransfer for TLC: the sender of GoBackN with either    *)
(* receiver.                                                               *)
(***************************************************************************)
EXTENDS FileTransfer
==============================================================================
