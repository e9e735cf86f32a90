-------------------------------- MODULE MCAbi --------------------------------
(* Small instances of Abi for TLC. *)
EXTENDS Abi
=============================================================================
