--------------------------- MODULE MCWrapCommands ---------------------------
(* The wrap jobs on small instances. *)
EXTENDS WrapCommands
=============================================================================
