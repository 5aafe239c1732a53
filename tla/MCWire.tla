-------------------------------- MODULE MCWire --------------------------------
(* Every command with a link of four characters and a template of two. *)
EXTENDS Wire

=============================================================================
