------------------------------ MODULE MCPipeline ------------------------------
(***************************************************************************)
(* Small instances of TaskPipeline.                                        *)
(***************************************************************************)
EXTENDS PipelineInvariant, TLC

(* Workers may be exchanged, and so may the jobs that are not in Retry.    *)
Interchangeable == Permutations(Workers) \union Permutations(Jobs \ Retry)
=============================================================================
