---------------------------- MODULE DownloadCache ----------------------------
(***************************************************************************)
(* DownloadCache (services/dedupe_cache.py): completed keys, reservations, *)
(* and an index on disk that outlives the process.  No body of its lock    *)
(* suspends, so each method is one step.  An OSError of the index turns it *)
(* off for good.                                                           *)
(***************************************************************************)
CONSTANTS
  Keys,         \* dedupe keys
  EarlierKeys,  \* those an earlier process has left in the index
  NoJob         \* the holder of a key nobody has reserved

ASSUME CacheAssumption == EarlierKeys \subseteq Keys

VARIABLES
  completed,  \* _completed
  holder,     \* _in_flight: the job each key is reserved for
  index,      \* keys in the file
  indexOn     \* _disk_enabled

cacheVars == <<completed, holder, index, indexOn>>

CacheInit ==
  /\ completed = {}
  /\ holder = [k \in Keys |-> NoJob]
  /\ index = EarlierKeys
  /\ indexOn = TRUE

Free(k) == k \notin completed /\ holder[k] = NoJob

(* try_reserve returns "duplicate": by memory, or by the index, which it   *)
(* remembers.                                                              *)
Duplicate(k) ==
  \/ ~Free(k) /\ UNCHANGED cacheVars
  \/ /\ Free(k) /\ indexOn /\ k \in index
     /\ completed' = completed \union {k}
     /\ UNCHANGED <<holder, index, indexOn>>

(* The look into the index that does not find k: the index is off, does    *)
(* not have it, or cannot be read and is turned off.                       *)
NotIndexed(k) ==
  \/ (indexOn => k \notin index) /\ UNCHANGED indexOn
  \/ indexOn /\ indexOn' = FALSE

\* Faulty: reservations of other jobs are not looked at.
TryReserveUnchecked(k, j) ==
  /\ k \notin completed
  /\ NotIndexed(k)
  /\ holder' = [holder EXCEPT ![k] = j]
  /\ UNCHANGED <<completed, index>>

(* try_reserve returns "reserved" to a job without a reservation.  Jobs    *)
(* reserve once, when they are new, so that the branch for the job that    *)
(* holds the key already is not taken.                                     *)
TryReserve(k, j) ==
  /\ Free(k)
  /\ NotIndexed(k)
  /\ holder' = [holder EXCEPT ![k] = j]
  /\ UNCHANGED <<completed, index>>

\* Faulty: what the index has is not remembered.
CommitToIndex(k) ==
  /\ holder' = [holder EXCEPT ![k] = NoJob]
  /\ \/ indexOn /\ index' = index \union {k} /\ UNCHANGED <<completed, indexOn>>
     \/ completed' = completed \union {k} /\ UNCHANGED index /\ indexOn' = FALSE

Commit(k) ==
  /\ holder' = [holder EXCEPT ![k] = NoJob]
  /\ completed' = completed \union {k}
  /\ \/ indexOn /\ index' = index \union {k} /\ UNCHANGED indexOn
     \/ UNCHANGED index /\ indexOn' = FALSE

Abort(k) ==
  /\ holder' = [holder EXCEPT ![k] = NoJob]
  /\ UNCHANGED <<completed, index, indexOn>>

CacheTypeOK(Holders) ==
  /\ completed \subseteq Keys
  /\ holder \in [Keys -> Holders \union {NoJob}]
  /\ index \subseteq Keys
  /\ indexOn \in BOOLEAN
=============================================================================
