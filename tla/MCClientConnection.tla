------------------------- MODULE MCClientConnection -------------------------
(***************************************************************************)
(* The connection of a client, for TLC: its constants have their values in *)
(* the .cfg files.                                                         *)
(***************************************************************************)
EXTENDS ClientConnectionProperties
=============================================================================
