------------------------------- MODULE SpawnDesk -------------------------------
(***************************************************************************)
(* SpawnDesk (src/vendor/pgrust/threads-host.js) and the workers it        *)
(* addresses (thread-worker.js): the pool of prewarmed workers behind the  *)
(* guest's thread-spawn.  Any instance of the guest may spawn, from inside *)
(* an import that may not await, so a spawn is a claim in shared memory:   *)
(* a slot's state word is a lock, a mailbox and a futex at once.           *)
(*                                                                         *)
(* An action is one atomic access of the shared array, or one step of the  *)
(* guest.  The guest (external) is any sequence of spawns and returns.     *)
(***************************************************************************)
EXTENDS Integers, FiniteSets

CONSTANTS PoolSize,   \* slots in the pool
          Args,       \* the values a guest passes as start_arg
          MaxSpawns   \* bound: no spawn is begun after this many thread ids

ASSUME DeskAssumption == PoolSize \in Nat \ {0} /\ Args \subseteq Int /\ MaxSpawns \in Nat

Slots  == 0 .. PoolSize - 1
Agents == 0 .. PoolSize      \* 0 is the process instance, s + 1 the worker of slot s
Process == 0
AgentOf(s) == s + 1

VARIABLES
    state, tid, arg,   \* by slot: S_STATE, S_TID, S_ARG
    nextTid,           \* D_NEXT_TID
    ready,             \* the slots whose worker has posted ready
    worker,            \* by slot: where its worker is
    seen,              \* by slot: the state its worker last loaded
    cmd,               \* by slot: the command its worker took
    claim              \* by agent: its call of claim()

desk == <<state, tid, arg, nextTid>>
pool == <<ready, worker, seen, cmd>>
deskVars == <<desk, pool, claim>>

States == {"empty", "idle", "claimed", "start", "running"}
NoClaim == [pc |-> "none", at |-> 0, arg |-> 0, tid |-> 0]

DeskInit ==
    /\ state = [s \in Slots |-> "empty"]
    /\ tid = [s \in Slots |-> 0] /\ arg = [s \in Slots |-> 0] /\ nextTid = 0
    /\ ready = {}
    /\ worker = [s \in Slots |-> "loading"]
    /\ seen = [s \in Slots |-> "empty"]
    /\ cmd = [s \in Slots |-> [tid |-> 0, arg |-> 0]]
    /\ claim = [a \in Agents |-> NoClaim]

----------------------------------------------------------------------------
(* A worker: prewarm, then the command loop.                               *)

WorkerAt(s, from, to) ==
    /\ worker[s] = from
    /\ worker' = [worker EXCEPT ![s] = to]

(* prewarmThread: instantiated; ready goes to the process worker.           *)
PostReady(s) ==
    /\ WorkerAt(s, "loading", "ready")
    /\ ready' = ready \cup {s}
    /\ UNCHANGED <<desk, seen, cmd, claim>>

(* It threw; or the module lacks the export, and ready is posted even so.   *)
PrewarmFails(s) ==
    /\ WorkerAt(s, "loading", "dead")
    /\ ready' \in {ready, ready \cup {s}}
    /\ UNCHANGED <<desk, seen, cmd, claim>>

(* markIdle, and markDone when a thread returned.  Its notify finds nobody: *)
(* only this worker waits on the word.                                      *)
MarkIdle(s) ==
    /\ WorkerAt(s, "ready", "look") \/ WorkerAt(s, "returned", "look")
    /\ state' = [state EXCEPT ![s] = "idle"]
    /\ UNCHANGED <<tid, arg, nextTid, ready, seen, cmd, claim>>

(* awaitCommand: load the state. *)
Look(s) ==
    /\ WorkerAt(s, "look", IF state[s] = "start" THEN "tid" ELSE "wait")
    /\ seen' = [seen EXCEPT ![s] = state[s]]
    /\ UNCHANGED <<desk, ready, cmd, claim>>

LoadTid(s) ==
    /\ WorkerAt(s, "tid", "arg")
    /\ cmd' = [cmd EXCEPT ![s].tid = tid[s]]
    /\ UNCHANGED <<desk, ready, seen, claim>>

LoadArg(s) ==
    /\ WorkerAt(s, "arg", "run")
    /\ cmd' = [cmd EXCEPT ![s].arg = arg[s]]
    /\ UNCHANGED <<desk, ready, seen, claim>>

(* RUNNING, and wasi_thread_start(tid, startArg). *)
Run(s) ==
    /\ WorkerAt(s, "run", "guest")
    /\ state' = [state EXCEPT ![s] = "running"]
    /\ UNCHANGED <<tid, arg, nextTid, ready, seen, cmd, claim>>

(* Atomics.wait: asleep only while the word is the one it loaded.  Mutant:   *)
(* it sleeps whatever the word is by now.                                   *)
StaysAsleep(s) == TRUE
Sleeps(s) == state[s] = seen[s]
Wait(s) ==
    /\ WorkerAt(s, "wait", IF Sleeps(s) THEN "asleep" ELSE "look")
    /\ UNCHANGED <<desk, ready, seen, cmd, claim>>

----------------------------------------------------------------------------
(* The guest's thread in a worker (external): it returns, or traps or       *)
(* exits the process, and then the worker leaves its loop with its slot     *)
(* still RUNNING (runThread).                                              *)

InGuest(a) == IF a = Process THEN ready = Slots ELSE worker[a - 1] = "guest"

Return(s) ==
    /\ claim[AgentOf(s)].pc = "none"
    /\ WorkerAt(s, "guest", "returned")
    /\ UNCHANGED <<desk, ready, seen, cmd, claim>>

Trap(s) ==
    /\ claim[AgentOf(s)].pc = "none"
    /\ WorkerAt(s, "guest", "dead")
    /\ UNCHANGED <<desk, ready, seen, cmd, claim>>

----------------------------------------------------------------------------
(* thread-spawn: claim().                                                  *)

ClaimAt(a, from, to) == claim[a].pc = from /\ claim' = [claim EXCEPT ![a].pc = to]

Ask(a, x) ==
    /\ InGuest(a)
    /\ nextTid < MaxSpawns
    /\ claim[a].pc = "none"
    /\ claim' = [claim EXCEPT ![a] = [pc |-> "scan", at |-> 0, arg |-> x, tid |-> 0]]
    /\ UNCHANGED <<desk, pool>>

(* compareExchange on the next slot: claimed, or not idle and passed over.   *)
IsFree(s) == state[s] = "idle"

Take(a) ==
    LET s == claim[a].at IN
    /\ s \in Slots /\ IsFree(s)
    /\ ClaimAt(a, "scan", "add")
    /\ state' = [state EXCEPT ![s] = "claimed"]
    /\ UNCHANGED <<tid, arg, nextTid, pool>>

PassOver(a) ==
    LET s == claim[a].at IN
    /\ s \in Slots /\ ~ IsFree(s)
    /\ claim[a].pc = "scan" /\ claim' = [claim EXCEPT ![a].at = s + 1]
    /\ UNCHANGED <<desk, pool>>

(* No slot is left: spawn-refused, and the guest is answered -EAGAIN. *)
Refuse(a) ==
    /\ claim[a].pc = "scan" /\ claim[a].at = PoolSize
    /\ claim' = [claim EXCEPT ![a] = NoClaim]
    /\ UNCHANGED <<desk, pool>>

(* Atomics.add. *)
AddTid(a) ==
    /\ claim[a].pc = "add"
    /\ claim' = [claim EXCEPT ![a] = [@ EXCEPT !.pc = "tid", !.tid = nextTid + 1]]
    /\ nextTid' = nextTid + 1
    /\ UNCHANGED <<state, tid, arg, pool>>

StoreTid(a) ==
    /\ ClaimAt(a, "tid", "arg")
    /\ tid' = [tid EXCEPT ![claim[a].at] = claim[a].tid]
    /\ UNCHANGED <<state, arg, nextTid, pool>>

(* Mutant: START is published before the argument. *)
StoreArgLate(a) ==
    /\ ClaimAt(a, "arg", "start")
    /\ state' = [state EXCEPT ![claim[a].at] = "start"]
    /\ UNCHANGED <<tid, arg, nextTid, pool>>

StoreArg(a) ==
    /\ ClaimAt(a, "arg", "start")
    /\ arg' = [arg EXCEPT ![claim[a].at] = claim[a].arg]
    /\ UNCHANGED <<state, tid, nextTid, pool>>

Publish(a) ==
    /\ ClaimAt(a, "start", "notify")
    /\ state' = [state EXCEPT ![claim[a].at] = "start"]
    /\ UNCHANGED <<tid, arg, nextTid, pool>>

(* Mutant: the slot's worker is not woken. *)
NotifyNobody(a) ==
    /\ claim[a].pc = "notify"
    /\ claim' = [claim EXCEPT ![a] = NoClaim]
    /\ UNCHANGED <<desk, pool>>

(* Atomics.notify, and the guest is answered with the id. *)
Notify(a) ==
    /\ claim[a].pc = "notify"
    /\ claim' = [claim EXCEPT ![a] = NoClaim]
    /\ worker' = [worker EXCEPT ![claim[a].at] = IF @ = "asleep" THEN "look" ELSE @]
    /\ UNCHANGED <<desk, ready, seen, cmd>>

----------------------------------------------------------------------------
WorkerStep(s) == MarkIdle(s) \/ Look(s) \/ LoadTid(s) \/ LoadArg(s) \/ Run(s) \/ Wait(s)
ClaimStep(a) ==
    \/ Take(a) \/ PassOver(a) \/ Refuse(a)
    \/ AddTid(a) \/ StoreTid(a) \/ StoreArg(a) \/ Publish(a) \/ Notify(a)

DeskNext ==
    \/ \E s \in Slots : PostReady(s) \/ PrewarmFails(s) \/ WorkerStep(s) \/ Return(s) \/ Trap(s)
    \/ \E a \in Agents : ClaimStep(a) \/ \E x \in Args : Ask(a, x)

DeskSpec == DeskInit /\ [][DeskNext]_deskVars

(* Agents keep executing; no thread has to return, and nobody has to spawn. *)
FairDeskSpec ==
    /\ DeskSpec
    /\ \A s \in Slots : WF_deskVars(WorkerStep(s))
    /\ \A a \in Agents : WF_deskVars(ClaimStep(a))

----------------------------------------------------------------------------
(* Properties.                                                             *)

Holding == {"add", "tid", "arg", "start"}

(* Every variable keeps its type, a claim beyond the scan holds a slot, and *)
(* its thread id is positive: the guest takes any other for a failure.      *)
DeskTypeOK ==
    /\ state \in [Slots -> States]
    /\ tid \in [Slots -> Nat] /\ arg \in [Slots -> Int] /\ nextTid \in Nat
    /\ ready \subseteq Slots
    /\ worker \in [Slots -> {"loading", "ready", "look", "tid", "arg", "run", "wait",
                             "asleep", "guest", "returned", "dead"}]
    /\ seen \in [Slots -> States]
    /\ cmd \in [Slots -> [tid : Nat, arg : Int]]
    /\ claim \in [Agents -> [pc : {"none", "scan", "notify"} \cup Holding, at : 0 .. PoolSize,
                             arg : Int, tid : Nat]]
    /\ \A a \in Agents : claim[a].pc \in Holding \cup {"notify"} => claim[a].at \in Slots
    /\ \A a \in Agents : claim[a].pc \in Holding \ {"add"} => claim[a].tid > 0

(* A slot being claimed is held by one spawner, however many scan at once,   *)
(* and a spawner holds a slot nobody else touches (compareExchange).        *)
ClaimExclusive ==
    \A s \in Slots :
        LET holders == {a \in Agents : claim[a].pc \in Holding /\ claim[a].at = s}
        IN  /\ \A a, b \in holders : a = b
            /\ state[s] = "claimed" <=> holders # {}

(* No worker sleeps through its command: asleep with START in its word, its  *)
(* notify is still to come ("Wait on the value we just observed").          *)
NoLostStart ==
    \A s \in Slots :
        worker[s] = "asleep" /\ state[s] = "start" =>
            \E a \in Agents : claim[a].pc = "notify" /\ claim[a].at = s

(* The pool's refinement mapping: a call is answered when START is          *)
(* published, a thread id is given out then.                                *)
Unanswered(a) == claim[a].pc \in Holding \cup {"scan"}
Reserved == {claim[a].tid : a \in {b \in Agents : claim[b].pc \in Holding \ {"add"}}}
Alive(s) == worker[s] = "guest"

Pool == INSTANCE ThreadPool WITH
    call    <- [a \in Agents |-> IF Unanswered(a) THEN {claim[a].arg} ELSE {}],
    used    <- (1 .. nextTid) \ Reserved,
    waiting <- {[tid |-> tid[s], arg |-> arg[s]] : s \in {r \in Slots : state[r] = "start"}},
    running <- {cmd[s] : s \in {r \in Slots : Alive(r)}}

(* Every thread id is given out once, every thread promised is started at    *)
(* most once and with its own spawner's argument, whichever agents spawn at  *)
(* the same time (thread-spawn, answered by claim() and awaitCommand()).     *)
PoolSpec == Pool!Spec

(* A promised thread is started in the end: its worker is there to take it. *)
(* A START leaves its slot by its worker's Run alone, so if none is there   *)
(* again and again, each was taken.                                         *)
StartsRun == []<>(\A s \in Slots : state[s] # "start")
=============================================================================
