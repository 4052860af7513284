------------------------------ MODULE StoreBoot ------------------------------
(***************************************************************************)
(* One OPFS directory and the pages that boot a server on it, one after    *)
(* the other or at once: startPgrustBrowserPostmaster's storage half       *)
(* (src/client/pgrust-browser-engine.ts) and, in a worker per attempt, the *)
(* storage coordinator (src/vendor/pgrust/storage-worker.js).              *)
(*                                                                         *)
(* A page may be left at any step: its workers are reaped a moment later,  *)
(* and only then is the directory free.  The repacked store (external)     *)
(* opens for one owner, and after a crash it has what was synced and any   *)
(* prefix of what came after.                                              *)
(***************************************************************************)
EXTENDS Naturals

CONSTANTS Pages,      \* the pages, each of which boots once
          Nobody,     \* not a page
          Attempts,   \* storageOpenAttempts
          Files,      \* files in the packed data directory, and in a backup
          MaxRows     \* bound: what the guest writes after its boot

ASSUME BootAssumption ==
    /\ Nobody \notin Pages
    /\ Attempts \in Nat \ {0} /\ Files \in Nat \ {0} /\ MaxRows \in Nat

(* What a caller asks for.  The store factory: a relaxed store, maybe reset, *)
(* maybe restored from a backup.  The benchmark: a cold store it refuses to  *)
(* find warm, or a prepared one unpacked from a tarball.                     *)
FactoryLane == [reset : BOOLEAN, restore : BOOLEAN, refuse : {FALSE}, tar : {FALSE}, strict : {FALSE}]
BenchLane ==
    [reset : {TRUE}, restore : {FALSE}, refuse : {TRUE}, tar : {FALSE}, strict : BOOLEAN]
      \cup [reset : {FALSE}, restore : {FALSE}, refuse : {FALSE}, tar : {TRUE}, strict : BOOLEAN]
Lanes == {FactoryLane, BenchLane}
IsBench(o) == o \in BenchLane

Workers == Pages \X (1 .. Attempts)
NoOne == <<Nobody, 0>>

(* The directory: form "half" has some of the store's four files, the       *)
(* activation record missing; dir says whether /pgdata exists, files how    *)
(* many files are in it, by whose boot put it there, rows what a guest      *)
(* wrote since.                                                             *)
Contents == [form : {"empty", "half", "store"}, dir : BOOLEAN, files : 0 .. Files,
             by : Pages \cup {Nobody}, rows : 0 .. MaxRows]
Nothing == [form |-> "empty", dir |-> FALSE, files |-> 0, by |-> Nobody, rows |-> 0]

VARIABLES
    opts,      \* by page: what its boot was asked for
    host,      \* by page: how far its boot, and then its end, is
    attempt,   \* by page: attempt
    coord,     \* by worker: how far the coordinator is, or what it last posted
    restored,  \* by page: its last coordinator found a data directory
    owner,     \* the worker that has the store's handles
    disk,      \* what is in the directory
    mem,       \* what the owner has, synced or not
    acked,     \* history: rows a sync was answered for, since the last replacement
    unsealed   \* history: a seed or a restore began and has not reached its strictSync

store == <<owner, disk, mem, acked, unsealed>>
vars == <<opts, host, attempt, coord, restored, store>>

Last(p) == <<p, attempt[p]>>

Init ==
    /\ \E lane \in Lanes : opts \in [Pages -> lane]
    /\ host = [p \in Pages |-> "idle"]
    /\ attempt = [p \in Pages |-> 0]
    /\ coord = [w \in Workers |-> "none"]
    /\ restored = [p \in Pages |-> FALSE]
    /\ owner = NoOne /\ disk = Nothing /\ mem = Nothing
    /\ acked = 0 /\ unsealed = FALSE

HostAt(p, from, to) ==
    /\ host[p] = from
    /\ host' = [host EXCEPT ![p] = to]

CoordAt(w, from, to) ==
    /\ coord[w] = from
    /\ coord' = [coord EXCEPT ![w] = to]

(* removeEntry(name, { recursive: true }) on the parent, and a new directory. *)
(* OPFS refuses while any handle in it is open.                               *)
Removable == owner = NoOne
Removed ==
    /\ disk' = Nothing
    /\ acked' = 0 /\ unsealed' = FALSE
    /\ UNCHANGED <<owner, mem>>

(* The end of a failed boot or of a shutdown: the benchmark's worker goes on *)
(* to remove its directory.                                                  *)
End(p) == IF IsBench(opts[p]) THEN "leaving" ELSE "over"

(* worker.terminate(): no step of it follows, its handles go later.         *)
(* Mutant: the worker is left to itself.                                     *)
NotTerminated(w) == coord
Terminated(w) == [coord EXCEPT ![w] = IF owner = w THEN "dying" ELSE "dead"]

----------------------------------------------------------------------------
(* The boot, up to the coordinator's answer.                               *)

(* A prepared store goes in first.  The seed worker verifies the tarball    *)
(* and empties the directory; a tarball that fails throws before that.      *)
Begin(p) ==
    /\ HostAt(p, "idle", IF opts[p].tar THEN "unpacking" ELSE "making")
    /\ UNCHANGED <<opts, attempt, coord, restored, store>>

Unpack(p) ==
    /\ HostAt(p, "unpacking", "writing")
    /\ Removable
    /\ disk' = [Nothing EXCEPT !.form = "half"]
    /\ acked' = 0 /\ unsealed' = FALSE
    /\ UNCHANGED <<opts, attempt, coord, restored, owner, mem>>

(* The four files, activation.bin last.  Nobody can open the store before. *)
UnpackEnds(p) ==
    /\ HostAt(p, "writing", "making")
    /\ disk.form = "half"
    /\ disk' = [form |-> "store", dir |-> TRUE, files |-> Files, by |-> p, rows |-> 0]
    /\ UNCHANGED <<opts, attempt, coord, restored, owner, mem, acked, unsealed>>

UnpackFails(p) ==
    /\ \/ HostAt(p, "unpacking", End(p))
       \/ HostAt(p, "writing", End(p))
    /\ UNCHANGED <<opts, attempt, coord, restored, store>>

(* attemptStorage: a worker of its own, and then the image for it. *)
MakeWorker(p) ==
    /\ HostAt(p, "making", "fetching")
    /\ attempt' = [attempt EXCEPT ![p] = @ + 1]
    /\ coord' = [coord EXCEPT ![<<p, attempt[p] + 1>>] = "made"]
    /\ UNCHANGED <<opts, restored, store>>

PostBoot(p) ==
    /\ HostAt(p, "fetching", "awaiting")
    /\ coord' = [coord EXCEPT ![Last(p)] = "opening"]
    /\ UNCHANGED <<opts, attempt, restored, store>>

(* The image is fetched outside the try that terminates the worker. *)
FetchFails(p) ==
    /\ HostAt(p, "fetching", End(p))
    /\ UNCHANGED <<opts, attempt, coord, restored, store>>

(* storage-ready, unless it is a store the caller refuses to find. *)
AnythingGoes(p) == TRUE   \* mutant: a warm store is measured
Acceptable(p) == ~ (restored[p] /\ opts[p].refuse)
Ready(p) ==
    /\ HostAt(p, "awaiting", IF opts[p].restore THEN "emptying" ELSE "starting")
    /\ coord[Last(p)] = "serving" /\ Acceptable(p)
    /\ UNCHANGED <<opts, attempt, coord, restored, store>>

(* storage-error, a store that is refused, or the timer: the worker goes.   *)
(* Only a store somebody still owns is worth another attempt.               *)
WorthARetry(p) == coord[Last(p)] = "owned" /\ attempt[p] < Attempts
AttemptFails(p) ==
    /\ \/ HostAt(p, "awaiting", End(p))
       \/ HostAt(p, "awaiting", "making") /\ WorthARetry(p)
    /\ coord' = Terminated(Last(p))
    /\ UNCHANGED <<opts, attempt, restored, store>>

----------------------------------------------------------------------------
(* The coordinator.                                                        *)

(* A store call that changes something; a strict store syncs after each.   *)
(* Mutant: the strict view is not what the broker was given.               *)
StoreSaysOnly(p, contents) ==
    /\ mem' = contents
    /\ UNCHANGED disk
StoreSays(p, contents) ==
    /\ mem' = contents
    /\ disk' = IF opts[p].strict THEN contents ELSE disk

Reset(w) ==
    /\ CoordAt(w, "opening", "reset")
    /\ opts[w[1]].reset /\ Removable
    /\ Removed
    /\ UNCHANGED <<opts, host, attempt, restored>>

(* The count is held against the manifest, or against zero for a reopen.    *)
(* Mutant: only a seed is checked.                                          *)
SeedChecked(fresh, files) ==
    IF fresh => files >= Files THEN "serving" ELSE "failed"
Checked(fresh, files) ==
    IF (IF fresh THEN files >= Files ELSE files > 0) THEN "serving" ELSE "failed"

(* RepackedVfs.open, and the fork: is there a /pgdata? *)
IsFresh(contents) == ~ contents.dir
Opened == IF IsFresh(disk) THEN "seeding" ELSE Checked(FALSE, disk.files)
Open(w) ==
    /\ owner = NoOne /\ disk.form # "half"
    /\ \/ CoordAt(w, "opening", Opened) /\ ~ opts[w[1]].reset
       \/ CoordAt(w, "reset", Opened)
    /\ owner' = w
    /\ mem' = [disk EXCEPT !.form = "store"]
    /\ disk' = [disk EXCEPT !.form = "store"]
    /\ restored' = [restored EXCEPT ![w[1]] = ~ IsFresh(disk)]
    /\ unsealed' = (unsealed \/ IsFresh(disk))
    /\ UNCHANGED <<opts, host, attempt, acked>>

(* StoreOwnedError; every other failure of the open. *)
OpenRefused(w) ==
    /\ owner # NoOne
    /\ \/ CoordAt(w, "opening", "owned") /\ ~ opts[w[1]].reset
       \/ CoordAt(w, "reset", "owned")
    /\ UNCHANGED <<opts, host, attempt, restored, store>>

OpenFails(w) ==
    /\ \/ CoordAt(w, "opening", "failed")
       \/ CoordAt(w, "reset", "failed")
    /\ UNCHANGED <<opts, host, attempt, restored, store>>

(* The manifest's directories, then its files, one by one. *)
Seeded(p) ==
    IF mem.dir THEN [mem EXCEPT !.files = @ + 1] ELSE [mem EXCEPT !.dir = TRUE, !.by = p]
Seed(w) ==
    /\ coord[w] = "seeding" /\ mem.files < Files
    /\ mem' = Seeded(w[1])
    /\ UNCHANGED <<opts, host, attempt, coord, restored, owner, disk, acked, unsealed>>

SeedEnds(w) ==
    /\ CoordAt(w, "seeding", Checked(TRUE, mem.files))
    /\ mem.files = Files
    /\ disk' = mem /\ unsealed' = FALSE
    /\ UNCHANGED <<opts, host, attempt, restored, owner, mem, acked>>

(* A store call throws: boot() rejects, and nothing closes the store. *)
StoreFails(w) ==
    /\ CoordAt(w, "seeding", "failed") \/ CoordAt(w, "serving", "failed")
    /\ UNCHANGED <<opts, host, attempt, restored, store>>

(* External: a store flushes when it amortizes. *)
Amortize(w) ==
    /\ coord[w] \in {"seeding", "serving"} /\ mem # disk
    /\ disk' = mem
    /\ UNCHANGED <<opts, host, attempt, coord, restored, owner, mem, acked, unsealed>>

(* doorbell.requestStop(): strictSync, and close lets go of the handles. *)
Stop(w) ==
    /\ CoordAt(w, "serving", "stopped")
    /\ host[w[1]] \in {"stopping", "abandoning"} /\ w = Last(w[1])
    /\ disk' = mem
    /\ acked' = mem.rows
    /\ owner' = NoOne /\ mem' = Nothing
    /\ UNCHANGED <<opts, host, attempt, restored, unsealed>>

(* External: the browser reaps a worker that was terminated, or whose page  *)
(* is gone; until then that one goes on.  Its handles go with it.           *)
Reap(w) ==
    /\ \/ coord[w] = "dying"
       \/ host[w[1]] = "gone" /\ coord[w] \notin {"none", "dead"}
    /\ coord' = [coord EXCEPT ![w] = "dead"]
    /\ IF owner = w THEN owner' = NoOne /\ mem' = Nothing ELSE UNCHANGED <<owner, mem>>
    /\ UNCHANGED <<opts, host, attempt, restored, disk, acked, unsealed>>

----------------------------------------------------------------------------
(* prepareStore: restoreDatadir, through the host's channel to the broker. *)

Serves(p) == coord[Last(p)] = "serving"

(* emptyDirectory: /pgdata stays, what is in it goes. *)
Empty(p) ==
    /\ host[p] = "emptying" /\ Serves(p) /\ mem.files > 0
    /\ StoreSays(p, [mem EXCEPT !.files = @ - 1, !.rows = 0])
    /\ acked' = 0 /\ unsealed' = TRUE
    /\ UNCHANGED <<opts, host, attempt, coord, restored, owner>>

EmptyEnds(p) ==
    /\ HostAt(p, "emptying", "filling")
    /\ Serves(p) /\ mem.files = 0
    /\ UNCHANGED <<opts, attempt, coord, restored, store>>

Fill(p) ==
    /\ host[p] = "filling" /\ Serves(p) /\ mem.files < Files
    /\ StoreSays(p, [mem EXCEPT !.files = @ + 1, !.by = p])
    /\ UNCHANGED <<opts, host, attempt, coord, restored, owner, acked, unsealed>>

FillEnds(p) ==
    /\ HostAt(p, "filling", "starting")
    /\ Serves(p) /\ mem.files = Files
    /\ disk' = mem /\ unsealed' = FALSE
    /\ UNCHANGED <<opts, attempt, coord, restored, owner, mem, acked>>

(* An errno, or a backup that cannot be read: the doorbell is asked to stop. *)
PrepareFails(p) ==
    /\ \/ HostAt(p, "emptying", "abandoning")
       \/ HostAt(p, "filling", "abandoning")
    /\ UNCHANGED <<opts, attempt, coord, restored, store>>

----------------------------------------------------------------------------
(* The guest (external), and the end.                                      *)

GuestBoots(p) ==
    /\ HostAt(p, "starting", "up")
    /\ UNCHANGED <<opts, attempt, coord, restored, store>>

GuestFails(p) ==
    /\ HostAt(p, "starting", "abandoning")
    /\ UNCHANGED <<opts, attempt, coord, restored, store>>

GuestWrites(p) ==
    /\ host[p] = "up" /\ Serves(p) /\ mem.rows < MaxRows
    /\ StoreSays(p, [mem EXCEPT !.rows = @ + 1])
    /\ acked' = IF opts[p].strict THEN mem.rows + 1 ELSE acked
    /\ UNCHANGED <<opts, host, attempt, coord, restored, owner, unsealed>>

(* fd_sync, or the client's strictSync(), answered. *)
GuestSyncs(p) ==
    /\ host[p] = "up" /\ Serves(p)
    /\ disk' = mem
    /\ acked' = mem.rows
    /\ UNCHANGED <<opts, host, attempt, coord, restored, owner, mem, unsealed>>

(* shutdown(): by the time the doorbell is rung the guest is gone. *)
Shutdown(p) ==
    /\ HostAt(p, "up", "stopping")
    /\ UNCHANGED <<opts, attempt, coord, restored, store>>

(* storage-stopped or storage-error was seen, or the timer won.  Mutant:    *)
(* there is no timer.                                                       *)
StopAwaited(p) ==
    /\ \/ HostAt(p, "stopping", End(p))
       \/ HostAt(p, "abandoning", End(p))
    /\ coord[Last(p)] \in {"stopped", "failed"}
    /\ coord' = Terminated(Last(p))
    /\ UNCHANGED <<opts, attempt, restored, store>>
StopEnds(p) ==
    /\ HostAt(p, "stopping", End(p)) \/ HostAt(p, "abandoning", End(p))
    /\ coord' = Terminated(Last(p))
    /\ UNCHANGED <<opts, attempt, restored, store>>

(* The benchmark: removeStoreDirectory, a few times, then it throws. *)
Leave(p) ==
    /\ HostAt(p, "leaving", "over")
    /\ \/ Removable /\ Removed
       \/ UNCHANGED store
    /\ UNCHANGED <<opts, attempt, coord, restored>>

(* Navigation, or a crash. *)
PageGoes(p) ==
    /\ host[p] # "gone"
    /\ host' = [host EXCEPT ![p] = "gone"]
    /\ UNCHANGED <<opts, attempt, coord, restored, store>>

HostStep(p) ==
    \/ Begin(p) \/ Unpack(p) \/ UnpackEnds(p) \/ UnpackFails(p)
    \/ MakeWorker(p) \/ PostBoot(p) \/ FetchFails(p) \/ Ready(p) \/ AttemptFails(p)
    \/ Empty(p) \/ EmptyEnds(p) \/ Fill(p) \/ FillEnds(p) \/ PrepareFails(p)
    \/ GuestBoots(p) \/ GuestFails(p) \/ GuestWrites(p) \/ GuestSyncs(p)
    \/ Shutdown(p) \/ StopEnds(p) \/ Leave(p) \/ PageGoes(p)

CoordStep(w) ==
    \/ Reset(w) \/ Open(w) \/ OpenRefused(w) \/ OpenFails(w)
    \/ Seed(w) \/ SeedEnds(w) \/ StoreFails(w) \/ Amortize(w)
    \/ Stop(w) \/ Reap(w)

Next == (\E p \in Pages : HostStep(p)) \/ (\E w \in Workers : CoordStep(w))

Spec == Init /\ [][Next]_vars

(* A deadline passes at last, a promise settles, a dead worker is reaped. *)
FairSpec ==
    /\ Spec
    /\ \A p \in Pages : WF_vars(StopEnds(p)) /\ WF_vars(Leave(p))
    /\ \A w \in Workers : WF_vars(Reap(w))

----------------------------------------------------------------------------
HostStates == {"idle", "unpacking", "writing", "making", "fetching", "awaiting", "emptying",
               "filling", "starting", "up", "stopping", "abandoning", "leaving", "over", "gone"}
CoordStates == {"none", "made", "opening", "reset", "seeding", "serving", "owned",
                "failed", "stopped", "dying", "dead"}

OptsOK == \E lane \in Lanes : opts \in [Pages -> lane]
HostOK ==
    /\ host \in [Pages -> HostStates]
    /\ attempt \in [Pages -> 0 .. Attempts]
    /\ coord \in [Workers -> CoordStates]
    /\ restored \in [Pages -> BOOLEAN]
    /\ owner \in Workers \cup {NoOne}
StoreOK ==
    /\ disk \in Contents /\ mem \in Contents
    /\ acked \in 0 .. MaxRows /\ unsealed \in BOOLEAN
WritersOwn == \A w \in Workers : coord[w] \in {"seeding", "serving"} => owner = w

(* Type correctness; and a coordinator that touches the store is its owner. *)
TypeOK == OptsOK /\ HostOK /\ StoreOK /\ WritersOwn

(* A boot that threw, and a shutdown that resolved, leave no coordinator of   *)
(* that page that has or could still take the store's handles.  (One made for *)
(* an image that could not be fetched stays, and was never told to open.)     *)
OverOwnsNothing ==
    \A w \in Workers :
        host[w[1]] \in {"leaving", "over"} => coord[w] \in {"none", "made", "dying", "dead"}

(* The benchmark never measures another run's store under a cold label,     *)
(* whoever owned, left or removed the directory meanwhile.                  *)
MeasuredIsFresh ==
    \A p \in Pages : host[p] \in {"starting", "up"} /\ opts[p].refuse => mem.by = p

(* The postmaster boots on a data directory that is whole and on disk.  The *)
(* exception is the code's: a seed or a restore that was cut short is only  *)
(* told from a whole directory when it left no file at all.                 *)
BootsOnWhole ==
    \A p \in Pages :
        /\ host[p] = "starting" => mem = disk
        /\ host[p] \in {"starting", "up"} => mem.files > 0 /\ (mem.files = Files \/ unsealed)

(* What a sync was answered for is in the directory, through crashes and    *)
(* reopens, until a caller asks for it to be replaced or removed.           *)
AckedSurvives == acked <= disk.rows

(* A page that is done with the store, or gone, gives the handles back, so   *)
(* that the next boot's patience can be enough.                             *)
HandlesComeBack ==
    \A p \in Pages : host[p] \in {"stopping", "abandoning", "leaving", "over", "gone"} ~> owner[1] # p
=============================================================================
