--------------------------- MODULE MCRedisWorker ---------------------------
(***************************************************************************)
(* Small instances of RedisWorker: a URL that is accepted and one that is  *)
(* refused.                                                                *)
(***************************************************************************)
EXTENDS RedisWorker, TLC

CONSTANTS wanted, refused

MCKeys == {wanted, refused}
MCAllowed == {wanted}
MCBlobOf == [k \in MCKeys |-> k]

Interchangeable == Permutations(Calls)
=============================================================================
