---------------------------- MODULE ManagedFiles ----------------------------
(***************************************************************************)
(* The files the API keeps for its download pages and the cleanup jobs     *)
(* that remove them (file-maintenance.service.ts, storage-catalog.service.ts). *)
(* Rows of the database refer to files by path and there is no lock over   *)
(* both, so a path is asked for its references right before it is removed. *)
(*                                                                         *)
(* What refers to a path (refs) and which files a running request has      *)
(* changed in the last 24 hours (young) is known to the modules that own   *)
(* the rows; the operators here take it as a parameter.  Hard links, which *)
(* save space and change no path, are left out.                            *)
(***************************************************************************)
EXTENDS Integers, FiniteSets

CONSTANTS Cleaners,        \* callers of processJob: the cron job and a retry
          MaxFileFaults    \* bound: failed removals, lost answers, crashes

ASSUME FilesAssumption == MaxFileFaults \in Nat

VARIABLES files,           \* paths that exist
          cleanup,         \* FileCleanupJob rows: path, and whether a scan found it
          cleaner,         \* cleaner[c]: the job it has read and what it does with it
          forsaken,        \* history: files left behind without a job
          fileFaults

fileVars == <<files, cleanup, cleaner, forsaken, fileFaults>>

NoPath  == <<"none", 0>>
NoClean == [pc |-> "idle", path |-> NoPath, scan |-> FALSE, current |-> FALSE]
JobOf(p, scan) == [path |-> p, scan |-> scan]
Others(ps) == {j \in cleanup : j.path \notin ps}
QueuedPaths == {j.path : j \in cleanup}

FilesInit ==
    /\ files = {} /\ cleanup = {} /\ forsaken = {} /\ fileFaults = 0
    /\ cleaner = [c \in Cleaners |-> NoClean]

FileFault == fileFaults < MaxFileFaults /\ fileFaults' = fileFaults + 1

-----------------------------------------------------------------------------
(* enqueue: the row of a path is created or renewed, due now, and its      *)
(* revision is raised, so that a cleaner that has read it cannot delete it. *)
Enqueue(ps, scan) ==
    /\ cleanup' = Others(ps) \union {JobOf(p, scan) : p \in ps}
    /\ cleaner' = [c \in Cleaners |-> IF cleaner[c].path \in ps
                                      THEN [cleaner[c] EXCEPT !.current = FALSE] ELSE cleaner[c]]
KeepQueue == UNCHANGED <<cleanup, cleaner>>

(* Fault: the file is removed without asking who refers to it. *)
RemoveOrQueueBlind(ps, refs) ==
    files' = files \ ps /\ KeepQueue /\ UNCHANGED <<forsaken, fileFaults>>

(* removeOrQueue for paths only the caller knows: what is unreferenced is  *)
(* removed; a check or removal that fails leaves a job, or nothing when    *)
(* that cannot be saved either.                                            *)
RemoveOrQueue(ps, refs) ==
    LET unwanted == (ps \cap files) \ refs IN
    \/ files' = files \ unwanted /\ KeepQueue /\ UNCHANGED <<forsaken, fileFaults>>
    \/ /\ FileFault /\ ps \cap files # {}
       /\ \/ Enqueue(ps \cap files, FALSE) /\ UNCHANGED <<files, forsaken>>
          \/ forsaken' = forsaken \union unwanted /\ KeepQueue /\ UNCHANGED files

-----------------------------------------------------------------------------
(* process takes the due jobs, retry the one it is given. *)
TakeJob(c) == \E j \in cleanup :
    /\ cleaner[c].pc = "idle"
    /\ cleaner' = [cleaner EXCEPT ![c] = [pc |-> "taken", path |-> j.path,
                                          scan |-> j.scan, current |-> TRUE]]
    /\ UNCHANGED <<files, cleanup, forsaken, fileFaults>>

(* The job stays, for later. *)
Postpone(c) ==
    cleaner' = [cleaner EXCEPT ![c] = NoClean] /\ UNCHANGED <<files, cleanup, forsaken>>

(* processJob, first half: the live reference check, and for a file found  *)
(* by a scan once more its age.                                            *)
CheckReferences(c, refs, young) ==
    LET p == cleaner[c].path IN
    /\ cleaner[c].pc = "taken"
    /\ IF p \notin refs /\ cleaner[c].scan /\ p \in young
       THEN Postpone(c)
       ELSE /\ cleaner' = [cleaner EXCEPT ![c].pc = IF p \in refs THEN "done" ELSE "unlink"]
            /\ UNCHANGED <<files, cleanup, forsaken>>
    /\ UNCHANGED fileFaults

Unlink(c) ==
    /\ cleaner[c].pc = "unlink"
    /\ files' = files \ {cleaner[c].path}
    /\ cleaner' = [cleaner EXCEPT ![c].pc = "done"]
    /\ UNCHANGED <<cleanup, forsaken, fileFaults>>

UnlinkFails(c) == cleaner[c].pc = "unlink" /\ FileFault /\ Postpone(c)

(* Fault: the job is deleted although it was renewed after it was read. *)
DropJobAnyRevision(c) ==
    /\ cleaner[c].pc = "done"
    /\ cleanup' = Others({cleaner[c].path})
    /\ cleaner' = [cleaner EXCEPT ![c] = NoClean]
    /\ UNCHANGED <<files, forsaken, fileFaults>>

(* processJob, second half: the row is deleted at the revision it was read. *)
DropJob(c) ==
    /\ cleaner[c].pc = "done"
    /\ cleanup' = IF cleaner[c].current THEN Others({cleaner[c].path}) ELSE cleanup
    /\ cleaner' = [cleaner EXCEPT ![c] = NoClean]
    /\ UNCHANGED <<files, forsaken, fileFaults>>

(* recoverOrphans, the nightly scan and cleanup: what nothing refers to    *)
(* and nobody has touched for a day gets a job.                            *)
RecoverOrphans(refs, young) ==
    LET stray == files \ (refs \union young) IN
    stray # {} /\ Enqueue(stray, TRUE) /\ UNCHANGED <<files, forsaken, fileFaults>>

CleanupNext(refs, young) ==
    \/ RecoverOrphans(refs, young)
    \/ \E c \in Cleaners : TakeJob(c) \/ CheckReferences(c, refs, young) \/ Unlink(c)
                           \/ UnlinkFails(c) \/ DropJob(c)

=============================================================================
