---------------------------- MODULE PgrustEngine ----------------------------
(***************************************************************************)
(* startPgrustPostmaster (src/client/pgrust-engine.ts): boots the storage  *)
(* coordinator and the postmaster, each in a worker of its own, and takes  *)
(* both down again.  Everything the host waits for is a gate, settled once *)
(* by a worker's message, in a race with a timer.  A timer may win at any  *)
(* time: the host cannot tell a slow worker from a dead one.               *)
(*                                                                         *)
(* The guest (Postgres in WebAssembly) is external: it is modelled by what *)
(* its workers post (src/vendor/pgrust/thread-worker.js).                  *)
(***************************************************************************)
EXTENDS Naturals

VARIABLES
    boot,       \* how far startPgrustPostmaster is
    gate,       \* by gate: "shut", "open" or "failed"
    storage,    \* the storage worker
    stopAsked,  \* doorbell.requestStop() was called
    process,    \* the process worker and the guest in it
    exitCode,   \* exitCode: "none" for null, "zero" or "other"
    log,        \* the shutdown checkpoint's line: "none", "sent" or "seen"
    stopped,    \* stopped
    down,       \* how far the one effective call of shutdown() is
    result      \* what it reports

engine == <<boot, gate, storage, stopAsked, process, exitCode, log, stopped, down, result>>

Gates == {"storageReady", "storageStopped", "poolReady", "postmasterReady", "exited"}

(* A promise settles once: later calls of open() and fail() change nothing. *)
Settled(gates, how) ==
    [g \in Gates |-> IF g \in gates /\ gate[g] = "shut" THEN how ELSE gate[g]]

(* The worker's thread still runs guest code. *)
Alive == process \in {"prewarming", "starting", "serving", "checkpointing"}
StorageRuns == storage \in {"seeding", "serving"}
NothingRuns == ~ Alive /\ ~ StorageRuns

Init ==
    /\ boot = "storage"
    /\ gate = [g \in Gates |-> "shut"]
    /\ storage = "seeding" /\ stopAsked = FALSE
    /\ process = "none" /\ exitCode = "none" /\ log = "none"
    /\ stopped = FALSE /\ down = "no"
    /\ result = [exitCode |-> "none", checkpointed |-> FALSE]

----------------------------------------------------------------------------
(* The storage coordinator (storage-worker.js): seed or reopen, serve until *)
(* the doorbell stops it, sync, close.                                      *)

StorageSeeds ==
    /\ storage = "seeding"
    /\ storage' = "serving"
    /\ gate' = Settled({"storageReady"}, "open")
    /\ UNCHANGED <<boot, stopAsked, process, exitCode, log, stopped, down, result>>

(* storage-error, or the worker threw: seeding, serving or closing. *)
StorageFails ==
    /\ StorageRuns
    /\ storage' = "failed"
    /\ gate' = [Settled({"storageReady"}, "failed") EXCEPT !["storageStopped"] = "open"]
    /\ UNCHANGED <<boot, stopAsked, process, exitCode, log, stopped, down, result>>

StorageStops ==
    /\ storage = "serving" /\ stopAsked
    /\ storage' = "stopped"
    /\ gate' = Settled({"storageStopped"}, "open")
    /\ UNCHANGED <<boot, stopAsked, process, exitCode, log, stopped, down, result>>

(* Worker.terminate() on a worker that may be over. *)
Terminated(worker) ==
    IF worker \in {"seeding", "serving", "prewarming", "starting", "checkpointing"}
    THEN "terminated" ELSE worker

----------------------------------------------------------------------------
(* The guest (external), and handleEvent for what it posts.                *)

GuestPrewarms ==
    /\ process = "prewarming"
    /\ process' = "starting"
    /\ gate' = Settled({"poolReady"}, "open")
    /\ UNCHANGED <<boot, storage, stopAsked, exitCode, log, stopped, down, result>>

GuestServes ==
    /\ process = "starting"
    /\ process' = "serving"
    /\ gate' = Settled({"postmasterReady"}, "open")
    /\ UNCHANGED <<boot, storage, stopAsked, exitCode, log, stopped, down, result>>

(* spawn-refused: the pool has no slot left; the guest lives on. *)
GuestRefused ==
    /\ process \in {"starting", "serving"}
    /\ gate' = Settled({"poolReady", "postmasterReady"}, "failed")
    /\ UNCHANGED <<boot, storage, stopAsked, process, exitCode, log, stopped, down, result>>

(* error: a pool thread trapped, and posts nothing more; or the process     *)
(* thread did, and an exit with code 70 follows.                            *)
GuestTraps ==
    /\ Alive
    /\ \/ UNCHANGED <<process, exitCode>>
       \/ process' = "trapped" /\ exitCode' = "other"
    /\ gate' = [Settled({"poolReady", "postmasterReady"}, "failed") EXCEPT !["exited"] = "open"]
    /\ UNCHANGED <<boot, storage, stopAsked, log, stopped, down, result>>

(* The listener reached its end: the shutdown checkpoint starts.  Its line  *)
(* comes from another thread, by another port than the exit.                *)
GuestCheckpoints ==
    /\ process \in {"starting", "serving"} /\ stopped
    /\ process' = "checkpointing"
    /\ log' = "sent"
    /\ UNCHANGED <<boot, gate, storage, stopAsked, exitCode, stopped, down, result>>

LogArrives ==
    /\ log = "sent"
    /\ log' = "seen"
    /\ UNCHANGED <<boot, gate, storage, stopAsked, process, exitCode, stopped, down, result>>

(* exit: zero after the checkpoint, something else before. *)
GuestExits ==
    /\ process \in {"starting", "serving", "checkpointing"}
    /\ IF process = "checkpointing"
       THEN process' = "exited" /\ exitCode' = "zero"
       ELSE process' = "crashed" /\ exitCode' = "other"
    /\ gate' = [Settled({"postmasterReady"}, "failed") EXCEPT !["exited"] = "open"]
    /\ UNCHANGED <<boot, storage, stopAsked, log, stopped, down, result>>

----------------------------------------------------------------------------
(* shutdown().                                                             *)

(* The first call: from here on stopped is set.  listener.close() and the   *)
(* wake token are what GuestCheckpoints waits for.                          *)
StartShutdown ==
    /\ ~ stopped
    /\ stopped' = TRUE
    /\ down' = "exit"

(* Promise.race of exited and the deadline.  Mutant: no deadline. *)
ExitAwaitedForever ==
    /\ down = "exit" /\ gate["exited"] = "open"
    /\ down' = "drain"
    /\ UNCHANGED <<boot, gate, storage, stopAsked, process, exitCode, log, stopped, result>>

ExitAwaited ==
    /\ down = "exit"
    /\ down' = "drain"
    /\ UNCHANGED <<boot, gate, storage, stopAsked, process, exitCode, log, stopped, result>>

(* Mutant: the store is asked to stop while the process still runs. *)
StopStorageFirst ==
    /\ down = "drain"
    /\ result' = [result EXCEPT !.checkpointed = (log = "seen")]
    /\ stopAsked' = TRUE
    /\ down' = "storage"
    /\ UNCHANGED <<boot, gate, storage, process, exitCode, log, stopped>>

(* After the turn given to late log lines: the verdict, then the process    *)
(* worker is terminated, and only then the store is asked to stop.          *)
StopStorage ==
    /\ down = "drain"
    /\ result' = [result EXCEPT !.checkpointed = (log = "seen")]
    /\ process' = Terminated(process)
    /\ stopAsked' = TRUE
    /\ down' = "storage"
    /\ UNCHANGED <<boot, gate, storage, exitCode, log, stopped>>

(* Promise.race of storageStopped and its timeout. *)
ShutdownDone ==
    /\ down = "storage"
    /\ down' = "done"
    /\ storage' = Terminated(storage)
    /\ result' = [result EXCEPT !.exitCode = exitCode]
    /\ UNCHANGED <<boot, gate, stopAsked, process, exitCode, log, stopped>>

----------------------------------------------------------------------------
(* The boot.                                                               *)

(* withTimeout(storageReady): the store is seeded, or the worker goes.      *)
StorageIsReady ==
    /\ boot = "storage" /\ gate["storageReady"] = "open"
    /\ boot' = "prepare"
    /\ UNCHANGED <<gate, storage, stopAsked, process, exitCode, log, stopped, down, result>>

StorageNotReady ==
    /\ boot = "storage" /\ gate["storageReady"] # "open"
    /\ boot' = "failed"
    /\ storage' = Terminated(storage)
    /\ UNCHANGED <<gate, stopAsked, process, exitCode, log, stopped, down, result>>

(* prepareStore, if there is one, and then the process worker. *)
StoreIsPrepared ==
    /\ boot = "prepare"
    /\ boot' = "pool"
    /\ process' = "prewarming"
    /\ UNCHANGED <<gate, storage, stopAsked, exitCode, log, stopped, down, result>>

PrepareFails ==
    /\ boot = "prepare"
    /\ boot' = "unprepared"
    /\ stopAsked' = TRUE
    /\ UNCHANGED <<gate, storage, process, exitCode, log, stopped, down, result>>

(* Promise.race of storageStopped and its timeout. *)
PrepareFailed ==
    /\ boot = "unprepared"
    /\ boot' = "failed"
    /\ storage' = Terminated(storage)
    /\ UNCHANGED <<gate, stopAsked, process, exitCode, log, stopped, down, result>>

PoolIsReady ==
    /\ boot = "pool" /\ gate["poolReady"] = "open"
    /\ boot' = "postmaster"
    /\ UNCHANGED <<gate, storage, stopAsked, process, exitCode, log, stopped, down, result>>

PostmasterIsReady ==
    /\ boot = "postmaster" /\ gate["postmasterReady"] = "open"
    /\ boot' = "up"
    /\ UNCHANGED <<gate, storage, stopAsked, process, exitCode, log, stopped, down, result>>

(* Mutant: the boot throws and leaves its workers behind. *)
BootGivesUp ==
    /\ \/ boot = "pool" /\ gate["poolReady"] # "open"
       \/ boot = "postmaster" /\ gate["postmasterReady"] # "open"
    /\ boot' = "failed"
    /\ UNCHANGED <<gate, storage, stopAsked, process, exitCode, log, stopped, down, result>>

(* A gate failed or its timer fired: shut the engine down, then throw. *)
BootFails ==
    /\ \/ boot = "pool" /\ gate["poolReady"] # "open"
       \/ boot = "postmaster" /\ gate["postmasterReady"] # "open"
    /\ boot' = "failing"
    /\ StartShutdown
    /\ UNCHANGED <<gate, storage, stopAsked, process, exitCode, log, result>>

BootFailed ==
    /\ boot = "failing" /\ down = "done"
    /\ boot' = "failed"
    /\ UNCHANGED <<gate, storage, stopAsked, process, exitCode, log, stopped, down, result>>

----------------------------------------------------------------------------
(* A caller's shutdown(): only the first call does anything. *)
CallShutdown ==
    /\ boot = "up"
    /\ StartShutdown
    /\ UNCHANGED <<boot, gate, storage, stopAsked, process, exitCode, log, result>>

StorageStep == StorageSeeds \/ StorageFails \/ StorageStops
GuestStep ==
    \/ GuestPrewarms \/ GuestServes \/ GuestRefused \/ GuestTraps
    \/ GuestCheckpoints \/ LogArrives \/ GuestExits
BootStep ==
    \/ StorageIsReady \/ StorageNotReady
    \/ StoreIsPrepared \/ PrepareFails \/ PrepareFailed
    \/ PoolIsReady \/ PostmasterIsReady \/ BootFails \/ BootFailed
ShutdownStep == ExitAwaited \/ StopStorage \/ ShutdownDone

EngineStep == StorageStep \/ GuestStep \/ BootStep \/ ShutdownStep
Next == EngineStep \/ CallShutdown

Spec == Init /\ [][Next]_engine

----------------------------------------------------------------------------
(* Properties.                                                             *)

(* Every variable keeps its type; exitCode and log are what the process     *)
(* worker reported, result is what shutdown() resolved with.                *)
TypeOK ==
    /\ boot \in {"storage", "prepare", "unprepared", "pool", "postmaster", "up",
                 "failing", "failed"}
    /\ gate \in [Gates -> {"shut", "open", "failed"}]
    /\ storage \in {"seeding", "serving", "stopped", "failed", "terminated"}
    /\ process \in {"none", "prewarming", "starting", "serving", "checkpointing",
                    "exited", "crashed", "trapped", "terminated"}
    /\ exitCode \in {"none", "zero", "other"} /\ log \in {"none", "sent", "seen"}
    /\ stopAsked \in BOOLEAN /\ stopped \in BOOLEAN
    /\ down \in {"no", "exit", "drain", "storage", "done"}
    /\ result \in [exitCode : {"none", "zero", "other"}, checkpointed : BOOLEAN]

(* While guest code runs, the coordinator serves it - unless the            *)
(* coordinator itself failed: on no path of the boot or of shutdown() is    *)
(* the store closed or its worker terminated under a running postmaster     *)
(* (the order of terminate() and requestStop() in shutdown()).              *)
StoreOutlivesServer == Alive => storage \in {"serving", "failed"}

(* A boot that failed, at whichever of its awaits and however late the      *)
(* answer it gave up on comes, leaves no worker running.                    *)
FailedBootReleases == boot = "failed" => NothingRuns

(* shutdown() leaves no worker running, whoever else answers late. *)
ShutdownReleases == down = "done" => NothingRuns
=============================================================================
