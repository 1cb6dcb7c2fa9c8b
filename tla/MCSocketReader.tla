--------------------------- MODULE MCSocketReader ---------------------------
(* Instances of SocketReader for TLC.                                      *)
EXTENDS SocketReader
=============================================================================
