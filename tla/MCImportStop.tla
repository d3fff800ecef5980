---------------------------- MODULE MCImportStop ----------------------------
(***************************************************************************)
(* Instances of ImportStop for TLC, with the packets of MCPacketImport.    *)
(***************************************************************************)
EXTENDS MCPacketImport, ImportStop
=============================================================================
