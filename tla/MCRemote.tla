------------------------------ MODULE MCRemote ------------------------------
(***************************************************************************)
(* Small instances of RemotePipeline.                                      *)
(***************************************************************************)
EXTENDS RemotePipeline, TLC
=============================================================================
