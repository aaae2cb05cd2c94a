------------------------------ MODULE WorkDirs ------------------------------
(***************************************************************************)
(* The work directories of run_worker_loop: temp_work_dir makes one per    *)
(* job that is fetched, both attempts of a retry share it, and the finally *)
(* clause of handle() removes it on every way out, after the notifier and  *)
(* before wrapped() apologizes.                                            *)
(***************************************************************************)
EXTENDS WorkerLoop

VARIABLE dirs   \* jobs whose work directory is on the disk

DirsInit == dirs = {}

(* Conjoined with every step of the consumer task.                         *)
\* Faulty: only the ways out by an exception remove the directory.
WorkDirKept ==
  dirs' = IF wpc' \in {"fetching", "backoff"} THEN dirs \union {wjob'}
          ELSE IF wpc' \in {"notifying", "idle"} THEN dirs ELSE dirs \ {wjob}

WorkDir ==
  dirs' = IF wpc' \in {"fetching", "backoff"} THEN dirs \union {wjob'}
          ELSE IF wpc' = "notifying" THEN dirs ELSE dirs \ {wjob}

(* yt-dlp makes the directory of a file it is about to write: an abandoned *)
(* thread may bring a removed one back, and nobody removes it again.       *)
ThreadRecreates(j) ==
  /\ j \in threads
  /\ wjob # j \/ wpc = "stopped"
  /\ dirs' = dirs \union {j}
  /\ UNCHANGED <<serviceVars, queueVars, workerVars>>
=============================================================================
