----------------------------- MODULE MCStreams ------------------------------
(* The instances of MCRealtime with the record of what was told.            *)
EXTENDS MCRealtime, Streams
=============================================================================
