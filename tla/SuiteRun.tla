------------------------------ MODULE SuiteRun ------------------------------
(***************************************************************************)
(* A Suite's Runs, one Configuration after another: the page's loop, the   *)
(* engine runner on the page, and the worker that opens, runs and closes   *)
(* one engine and its directory.                                           *)
(*                                                                         *)
(* QueryCycles has the worker's sessions and the clients of a scenario.    *)
(***************************************************************************)
EXTENDS QueryCycles

CONSTANTS NColumns,    \* Configurations of the table
          Kinds        \* engines they may be of

ASSUME ColumnsAssumption == NColumns \in Nat \ {0}
ASSUME KindsAssumption == Kinds \subseteq {"pglite", "wasqlite", "wire", "threads", "postmaster"}

VARIABLES column,   \* the Configuration whose Run is on; NColumns + 1 at the end
          at,       \* the runner's place in the Run's script, 0 before "ready"
          worker,   \* none, loading, ready, or mute: it never evaluates
          fatal,    \* the worker reported an error
          call,     \* the request the page waits for
          stage,    \* how far the worker's engine is up or down
          turn,     \* the session whose turn a loop over the sessions has come to
          owned,    \* storeDirectory: the directory the worker will remove
          dirs,     \* columns whose OPFS directory exists
          excused,  \* history: columns whose directory could not be removed
          cells, failed, skipped

pageVars == <<column, at, cells, failed, skipped>>
callVars == <<worker, fatal, call>>
engineVars == <<stage, turn, owned, dirs, excused>>
vars == <<kind, sessionVars, clientVars, history, pageVars, callVars, engineVars>>

Columns == 1 .. NColumns
Script == <<"open", "measure", "exec">>
          \o (IF plan = "rows" THEN <<"exec", "measure", "measure", "exec">> ELSE <<"concurrent">>)
          \o <<"stats", "close">>
LastRow == Len(Script) - 2
Closing == Len(Script)

NoCall == [req |-> "none", st |-> "none"]
Open == call.req # "none" /\ call.st \in {"posted", "serving"}

Fresh == /\ backend' = [s \in Sessions |-> "none"]
         /\ ring' = [s \in Sessions |-> << >>]
         /\ out' = [s \in Sessions |-> "none"]
         /\ stale' = [s \in Sessions |-> FALSE]
         /\ cycle' = [s \in Sessions |-> NoCycle]
         /\ alarm' = FALSE
         /\ inside' = [s \in Sessions |-> NoOne]
         /\ mixed' = FALSE /\ foreign' = FALSE
         /\ client' = [c \in Clients |-> Off]
         /\ queue' = << >> /\ raised' = FALSE

Init == /\ kind \in Kinds
        /\ backend = [s \in Sessions |-> "none"]
        /\ ring = [s \in Sessions |-> << >>]
        /\ out = [s \in Sessions |-> "none"]
        /\ stale = [s \in Sessions |-> FALSE]
        /\ cycle = [s \in Sessions |-> NoCycle]
        /\ alarm = FALSE
        /\ plan \in {"rows", "beside", "fan-out", "contend"}
        /\ client = [c \in Clients |-> Off]
        /\ queue = << >> /\ raised = FALSE
        /\ inside = [s \in Sessions |-> NoOne]
        /\ mixed = FALSE /\ foreign = FALSE
        /\ column = 1 /\ at = 0 /\ cells = {} /\ failed = {} /\ skipped = {}
        /\ worker = "none" /\ fatal = FALSE /\ call = NoCall
        /\ stage = "none" /\ turn = 0 /\ owned = FALSE /\ dirs = {} /\ excused = {}

-----------------------------------------------------------------------------
(* The page: SuiteSection, runSuite and the WorkerEngineRunner *)

Skip == /\ column \in Columns /\ worker = "none"
        /\ skipped' = skipped \cup {column}
        /\ column' = column + 1
        /\ UNCHANGED <<at, cells, failed, kind, sessionVars, clientVars, history, callVars, engineVars>>

StartRun == /\ column \in Columns /\ worker = "none"
            /\ worker' = "loading"
            /\ kind' \in Kinds
            /\ UNCHANGED <<fatal, call, sessionVars, clientVars, history, pageVars, engineVars>>

Evaluates == /\ worker = "loading"
             /\ worker' \in {"ready", "mute"}
             /\ UNCHANGED <<fatal, call, kind, sessionVars, clientVars, history, pageVars, engineVars>>

(* The Run fails: its failure is recorded once its finally has closed it.     *)
Fails == at' = Closing /\ failed' = failed \cup {column} /\ UNCHANGED <<column, cells, skipped>>

HearsReady == /\ worker = "ready" /\ at = 0
              /\ at' = 1
              /\ UNCHANGED <<column, cells, failed, skipped, kind, sessionVars, clientVars, history, callVars, engineVars>>

ReadyTimeout == /\ worker \in {"loading", "mute"} /\ at = 0
                /\ Fails
                /\ UNCHANGED <<kind, sessionVars, clientVars, history, callVars, engineVars>>

WorkerErrors ==
    /\ worker \in {"loading", "ready"} /\ ~ fatal
    /\ fatal' = TRUE
    /\ IF at = 0 THEN Fails ELSE UNCHANGED pageVars
    /\ call' = IF Open THEN [call EXCEPT !.st = "error"] ELSE call
    /\ Fresh
    /\ UNCHANGED <<worker, kind, plan, engineVars>>

Posts == /\ at > 0 /\ worker # "none" /\ call = NoCall
         /\ call' = [req |-> Script[at], st |-> IF fatal THEN "error" ELSE "posted"]
         /\ UNCHANGED <<worker, fatal, kind, sessionVars, clientVars, history, pageVars, engineVars>>

Hears ==
    /\ call.st \in {"ok", "error"} /\ at # Closing
    /\ call' = NoCall
    /\ IF call.st = "error" /\ call.req # "stats"
       THEN Fails
       ELSE /\ at' = at + 1
            /\ cells' = IF at = LastRow THEN cells \cup {column} ELSE cells
            /\ UNCHANGED <<column, failed, skipped>>
    /\ UNCHANGED <<worker, fatal, kind, sessionVars, clientVars, history, engineVars>>

(* close() ends with the worker terminated, whatever it answered.             *)
Terminates ==
    /\ call.st \in {"ok", "error"} /\ at = Closing
    /\ worker' = "none" /\ fatal' = FALSE /\ call' = NoCall
    /\ excused' = IF fatal THEN excused \cup {column} ELSE excused
    /\ stage' = "none" /\ turn' = 0 /\ owned' = FALSE
    /\ column' = column + 1 /\ at' = 0
    /\ Fresh
    /\ UNCHANGED <<dirs, cells, failed, skipped, kind, plan>>

-----------------------------------------------------------------------------
(* The worker: one request at a time *)

Serving(req) == worker = "ready" /\ call.req = req /\ call.st = "serving"
Answer(st) == call' = IF Open THEN [call EXCEPT !.st = st] ELSE call

(* handle(): a request is taken up by its engine.                            *)
Serve ==
    /\ worker = "ready" /\ call.st = "posted"
    /\ call' = [call EXCEPT !.st = "serving"]
    /\ turn' = 0
    /\ stage' = CASE call.req = "open" -> "opening"
                  [] call.req = "close" /\ stage = "up" /\ Piped -> "ending"
                  [] call.req = "close" /\ ~ (stage = "up" /\ Piped) -> "removing"
                  [] OTHER -> stage
    /\ UNCHANGED <<owned, dirs, excused, worker, fatal, kind, sessionVars, clientVars, history, pageVars>>

(* How an open comes out: the sessions it left answering, storeDirectory, the *)
(* directory, and the stage. A refusal has made nothing yet.                 *)
Ready == backend' = [s \in Sessions |-> IF s \in Used THEN "idle" ELSE "none"]
Make(opfs) == owned' = opfs /\ dirs' = IF opfs THEN dirs \cup {column} ELSE dirs
Refused == stage' = "none" /\ Answer("error") /\ UNCHANGED <<backend, owned, dirs>>
Closes == stage' = "removing" /\ UNCHANGED <<call, backend>>

OpenWasqlite == \/ Refused
                \/ stage' = "up" /\ Answer("ok") /\ Ready /\ Make(FALSE)
OpenWire == \/ Refused
            \/ stage' = "up" /\ Answer("ok") /\ Ready /\ Make(FALSE)

(* The store's directory is emptied and owned before the factory runs, and    *)
(* the failed factory leaves it to the close.                                *)
OpenPglite == \/ Refused
              \/ /\ stage' = "up" /\ Answer("ok") /\ Ready
                 /\ \E opfs \in BOOLEAN : Make(opfs)
              \/ /\ stage' = "none" /\ Answer("error") /\ UNCHANGED backend
                 /\ Make(TRUE)

(* The coordinator of the broker seam makes the directory as it opens its     *)
(* store; when it fails, or never answers, that is already the close.        *)
StartStorageCoordinator(opfs) ==
    \/ stage' = "handshake" /\ Make(opfs) /\ Ready /\ UNCHANGED call
    \/ /\ Closes /\ owned' = opfs
       /\ dirs' \in {dirs, IF opfs THEN dirs \cup {column} ELSE dirs}
OpenThreads == \/ Refused
               \/ \E opfs \in BOOLEAN : StartStorageCoordinator(opfs)
               \/ stage' = "handshake" /\ Ready /\ UNCHANGED <<call, owned, dirs>>     \* fs: copy
OpenPostmaster == \/ Refused
                  \/ \E opfs \in BOOLEAN :
                        \/ stage' = "handshake" /\ Make(opfs) /\ Ready /\ UNCHANGED call
                        \/ /\ Closes /\ owned' = opfs
                           /\ dirs' \in {dirs, IF opfs THEN dirs \cup {column} ELSE dirs}

Opens ==
    /\ stage = "opening"
    /\ \/ kind = "wasqlite" /\ OpenWasqlite
       \/ kind = "wire" /\ OpenWire
       \/ kind = "pglite" /\ OpenPglite
       \/ kind = "threads" /\ OpenThreads
       \/ kind = "postmaster" /\ OpenPostmaster
    /\ UNCHANGED <<turn, excused, worker, fatal, kind, ring, out, stale, cycle, alarm,
                   clientVars, history, pageVars>>

(* A loop of the worker over the sessions, a statement on each.               *)
AsksAt(s) ==
    /\ cycle[s].by # Worker
    /\ Ask(s, Worker)
    /\ UNCHANGED <<turn, stage, owned, dirs, excused, callVars, kind, backend, ring, out, stale, alarm,
                   clientVars, inside, foreign, pageVars>>
HearsAt(s) == cycle[s].by = Worker /\ Settled(s) /\ cycle' = [cycle EXCEPT ![s] = NoCycle]

LastTurn == turn >= Cardinality(Used) - 1

Handshake ==
    /\ stage = "handshake"
    /\ \/ AsksAt(turn)
       \/ /\ \/ HearsAt(turn)
                /\ IF cycle[turn].got # "ok" THEN stage' = "ending" /\ turn' = 0 /\ UNCHANGED call
                   ELSE IF LastTurn THEN stage' = "up" /\ turn' = 0 /\ Answer("ok")
                   ELSE stage' = "handshake" /\ turn' = turn + 1 /\ UNCHANGED call
             \/ /\ kind = "postmaster" /\ cycle[turn].by = Worker       \* HANDSHAKE_TIMEOUT_MS
                /\ stage' = "ending" /\ turn' = 0 /\ UNCHANGED <<cycle, call>>
          /\ UNCHANGED <<owned, dirs, excused, worker, fatal, kind, backend, ring, out, stale, alarm,
                         clientVars, history, pageVars>>

RunsStatement ==
    /\ Serving("exec") \/ Serving("measure")
    /\ \/ AsksAt(0)
       \/ /\ HearsAt(0)
          /\ Answer(IF cycle[0].got = "ok" THEN "ok" ELSE "error")
          /\ UNCHANGED <<worker, fatal, kind, backend, ring, out, stale, alarm, clientVars, history, pageVars,
                         engineVars>>

(* runScenario: its setup on every session, the clients, and its report.      *)
SetsUp == plan = "contend"
(* Not as in the code: the clients that outlive a failed scenario are         *)
(* switched off, and their sessions have lost them; only the statement one    *)
(* had in flight goes on. In the code they run until worker.terminate()       *)
(* (Promise.all, scenario-runner.ts:174), and nothing is said of what they do. *)
Abandon == /\ client' = [c \in Clients |-> Off]
           /\ queue' = << >> /\ raised' = FALSE
           /\ inside' = [s \in Sessions |-> NoOne]
           /\ mixed' = FALSE /\ foreign' = FALSE
Prepared == ~ SetsUp \/ turn >= Cardinality(Used)
RunsScenario ==
    /\ Serving("concurrent")
    /\ \/ ~ Prepared /\ AsksAt(turn)
       \/ /\ ~ Prepared /\ HearsAt(turn)
          /\ IF cycle[turn].got = "ok" THEN turn' = turn + 1 /\ UNCHANGED call
                                        ELSE Answer("error") /\ UNCHANGED turn
          /\ UNCHANGED <<stage, owned, dirs, excused, worker, fatal, kind, backend, ring, out, stale, alarm,
                         clientVars, history, pageVars>>
       \/ /\ Prepared /\ \A c \in Clients : client[c].at = "off"
          /\ client' = [c \in Clients |-> [Off EXCEPT !.at = "next"]]
          /\ UNCHANGED <<plan, queue, raised, kind, sessionVars, history, pageVars, callVars, engineVars>>
       \/ /\ AllDone /\ Answer("ok") /\ UNCHANGED <<clientVars, history>>
          /\ UNCHANGED <<worker, fatal, kind, sessionVars, pageVars, engineVars>>
       \/ /\ Thrown /\ Answer("error") /\ Abandon
          /\ UNCHANGED <<worker, fatal, kind, plan, sessionVars, pageVars, engineVars>>

Stats == /\ Serving("stats")
         /\ Answer("ok")
         /\ UNCHANGED <<worker, fatal, kind, sessionVars, clientVars, history, pageVars, engineVars>>

(* closeEngine(): a Terminate to each session still open, each sent in full;  *)
(* a bounded wait for the guest; its workers terminated; its directory.      *)
EndThreads == Len(ring[turn]) < Ring /\ ring' = [ring EXCEPT ![turn] = Append(@, "end")]
EndPostmaster == \/ backend[turn] = "closed" /\ UNCHANGED ring
                 \/ backend[turn] # "closed" /\ EndThreads
SendsEnd ==
    /\ stage = "ending"
    /\ IF turn \in Used
       THEN /\ (kind = "threads" /\ EndThreads) \/ (kind = "postmaster" /\ EndPostmaster)
            /\ turn' = turn + 1 /\ UNCHANGED stage
       ELSE stage' = "leaving" /\ UNCHANGED <<ring, turn>>
    /\ UNCHANGED <<owned, dirs, excused, callVars, kind, backend, out, stale, cycle, alarm, clientVars, history, pageVars>>

Leaves ==
    /\ stage = "leaving"
    /\ stage' = "removing"
    /\ backend' = [s \in Sessions |-> "none"]
    /\ UNCHANGED <<turn, owned, dirs, excused, callVars, kind, ring, out, stale, cycle, alarm, clientVars, history, pageVars>>

ToRemoveAfterRun == owned /\ call.req # "open"
ToRemove == owned
Removes ==
    /\ stage = "removing"
    /\ stage' = "none" /\ owned' = FALSE
    /\ \/ /\ dirs' = IF ToRemove THEN dirs \ {column} ELSE dirs
          /\ Answer(IF call.req = "open" THEN "error" ELSE "ok")
          /\ UNCHANGED excused
       \/ /\ ToRemove /\ column \in dirs
          /\ excused' = excused \cup {column}
          /\ Answer("error")
          /\ UNCHANGED dirs
    /\ UNCHANGED <<turn, worker, fatal, kind, sessionVars, clientVars, history, pageVars>>

WorkerStep == Serve \/ Opens \/ Handshake \/ RunsStatement \/ RunsScenario \/ Stats \/ SendsEnd \/ Leaves \/ Removes
PageStep == Skip \/ StartRun \/ Evaluates \/ HearsReady \/ ReadyTimeout \/ Posts \/ Hears \/ Terminates

(* An error event has the page terminate the worker at its next step: what    *)
(* the worker still does until then is left out.                             *)
Undisturbed == ~ fatal /\ UNCHANGED <<kind, pageVars, callVars, engineVars>>
OfSession(s) == SessionStep(s) /\ Undisturbed
OfClient(c) == ClientStep(c) /\ Undisturbed
OfGuest == HandleEvent /\ UNCHANGED <<clientVars, history>> /\ Undisturbed
OfWorker == WorkerStep /\ ~ fatal
Faults == /\ (\E s \in Used : GuestLeaves(s)) \/ SpawnRefused
          /\ UNCHANGED clientVars /\ Undisturbed

Progress == \/ PageStep \/ OfWorker \/ OfGuest
            \/ \E s \in Sessions : OfSession(s)
            \/ \E c \in Clients : OfClient(c)
Next == Progress \/ WorkerErrors \/ Faults

(* Event loops, timers and a scheduled guest: while something can go on,      *)
(* something does. Nothing is assumed of which.                              *)
Fairness == WF_vars(Progress)
Spec == Init /\ [][Next]_vars /\ Fairness

-----------------------------------------------------------------------------
(* What the Runs promise *)

(* SessionQueue and the page's single request keep every session to one cycle *)
(* at a time: whoever is about to send a statement finds no other's in        *)
(* flight, so collect() and query() never have an overlap to refuse.          *)
NeverOverlaps ==
    \A c \in Clients : client[c].at \in InUnit /\ Holds(c) /\ ~ Idle(SessionOf(c)) => cycle[SessionOf(c)].by = c

(* A reported scenario and a filled cell are the scenario's own: no statement *)
(* of it ran inside another client's transaction, and no cycle was settled    *)
(* with the reply to a cycle that had been given up. Both do happen once a    *)
(* client's call has thrown, and only then.                                   *)
ReportsAreOwn == foreign \/ mixed => ~ AllDone /\ column \notin cells

(* When the page goes on, the column's OPFS directory is gone, whichever step *)
(* failed, unless its removal itself failed or the worker had an error.       *)
LeavesNothing == \A k \in dirs : k < column => k \in excused

Dead(s) == backend[s] \notin {"idle", "busy"}
Stranded == \/ worker = "mute"
            \/ \E s \in Used : Dead(s) /\ ~ alarm /\ (cycle[s].late \/ cycle[s].unsent > 0)
            \/ stage = "ending" /\ turn \in Used /\ Dead(turn) /\ Len(ring[turn]) = Ring

(* A Suite comes to its end, unless a Run is stranded for good: its worker    *)
(* never evaluates, a statement went to a guest already dead, or a full ring  *)
(* to a dead guest holds up a frame or the Terminate of the close.            *)
SuiteEnds == <>(column = NColumns + 1) \/ <>[]Stranded
=============================================================================
