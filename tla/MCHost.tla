-------------------------------- MODULE MCHost --------------------------------
(* A small instance of Host for TLC. *)
EXTENDS Host
=============================================================================
