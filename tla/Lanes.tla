-------------------------------- MODULE Lanes --------------------------------
(***************************************************************************)
(* The lanes that drive the built page from outside it: the bench, the     *)
(* probes of idle CPU (in Chromium and on a phone), of memory, of prepared *)
(* stores and of a wasm module's instantiation (in Chromium and Safari),   *)
(* and a Suite on a Mac; and those that run an engine in their own         *)
(* process: notifications, pg_dump, and the two pgxsinkit scenarios.       *)
(*                                                                         *)
(* A lane takes its rows one after another through the steps of its        *)
(* program, and gives back what it holds. Any step may fail, the page or   *)
(* the backend may stop answering, and the phone may not take a command.   *)
(***************************************************************************)
EXTENDS Integers, Sequences, FiniteSets

CONSTANTS NRows     \* columns (or Configurations, legs, rounds) of a lane

ASSUME RowsAssumption == NRows \in Nat \ {0}

VARIABLES lane,      \* the script that runs
          row, at,   \* its row and the step of the row's program
          held,      \* what the script has open or has made
          keep,      \* --keep-profile, --keep
          persistent, \* the kind of browser context
          page,      \* none, asked: as the lane asked for, other, or mute
          phone,     \* the phone's settings
          locked,    \* the phone's keyguard is up
          windows,   \* windows measured: how each is labelled, and what it was
          rows,      \* rows reported, by how they came out
          throwing,  \* an error is on its way out
          stuck,     \* history: what refused to close, be removed or be restored
          outcome    \* none, running, results or error

laneVars == <<lane, row, at, held, keep, persistent, page, phone, locked, windows, rows,
              throwing, stuck, outcome>>
control == <<lane, row, keep, persistent, outcome>>
mobile == <<phone, locked, windows>>

InProcess == {"notify", "dump", "live", "factory"}
LaneNames == {"bench", "idle", "memory", "prepared", "android", "chromium", "safari", "drive"} \cup InProcess

BenchProgram == <<"launch", "load", "check", "measure", "measure">>
IdleProgram == <<"launch", "load", "measure", "measure", "release">>
MemoryProgram == <<"launch", "load", "measure", "release", "measure">>
PreparedProgram == <<"launch", "load", "measure">>
ChromiumProgram == <<"launch", "load", "check", "measure">>
SafariProgram == <<"tunnel", "session", "load", "check", "measure">>
PhoneProgram == <<"wake", "forward", "load", "measure", "foreground", "background",
                  "screen-off", "wake again", "reattach", "release">>

DriveProgram == <<"session", "samplers", "load", "check", "measure", "check">>
NotifyProgram == <<"engine", "client", "notifier", "pump", "measure">>
DumpProgram == <<"engine", "client", "measure">>
LiveProgram == <<"engine", "client", "subscription", "measure">>

(* The strict store and its backup, the store restored from it; then whether  *)
(* the other engine can boot either one's datadir, from a source of its own.  *)
FactoryProgram == IF row = 1 THEN <<"database", "client", "measure">> ELSE <<"database", "measure">>
Portability == lane = "factory" /\ row \in 3..5
Attempt == lane = "factory" /\ row \in 4..5

Program ==
    [bench |-> BenchProgram, idle |-> IdleProgram, memory |-> MemoryProgram,
     prepared |-> PreparedProgram, android |-> PhoneProgram, chromium |-> ChromiumProgram,
     safari |-> SafariProgram, drive |-> DriveProgram, notify |-> NotifyProgram,
     dump |-> DumpProgram, live |-> LiveProgram, factory |-> FactoryProgram][lane]

(* bench takes its Suites in one context; the others a row in each.           *)
Rows == CASE lane \in {"bench", "drive", "notify", "dump", "live"} -> 1
          [] lane = "factory" -> 5
          [] OTHER -> NRows
OfRow == {"browser", "profile", "tunnel", "session", "samplers",
          "engine", "database", "client", "notifier", "pump", "subscription"}
Steps == Len(Program)

Running == outcome = "running"
Now(step) == Running /\ ~ throwing /\ row <= Rows /\ at <= Steps /\ Program[at] = step

Next1 == at' = at + 1
Throw == throwing' = TRUE /\ UNCHANGED at
Found == [battery |-> "plugged", stay |-> "found", awake |-> TRUE]

LaneInit == /\ lane \in LaneNames /\ row = 1 /\ at = 1
            /\ keep \in (IF lane \in {"bench", "prepared"} THEN BOOLEAN ELSE {FALSE})
            /\ persistent \in (IF lane \in {"bench", "idle", "memory", "prepared"} THEN BOOLEAN ELSE {FALSE})
            /\ held = {} /\ page = "none" /\ phone = Found /\ locked \in BOOLEAN
            /\ windows = {} /\ rows = << >> /\ throwing = FALSE /\ stuck = {} /\ outcome = "none"

-----------------------------------------------------------------------------
(* Before there is anything to give back but the prepared store's directory *)

Scratch == IF lane = "prepared" THEN {"store"} ELSE {}
Served == IF lane \in InProcess \cup {"drive"} THEN {} ELSE {"server"}

(* The build, its checks, a store to prepare, then the server; the phone's    *)
(* lane asks adb for a way back to it, inside the try that gives it all back. *)
Begin ==
    /\ outcome = "none"
    /\ \/ /\ outcome' = "running"
          /\ held' = Served \cup (IF keep THEN Scratch ELSE {})
                           \cup (IF lane = "android" THEN {"reverse"} ELSE {})
          /\ UNCHANGED <<row, throwing>>
       \/ /\ lane = "android"
          /\ outcome' = "running" /\ held' = {"server"}
          /\ throwing' = TRUE /\ row' = Rows + 1
       \/ /\ lane \notin InProcess
          /\ outcome' = "error" /\ held' \in {{}, Scratch}
          /\ UNCHANGED <<row, throwing>>
    /\ UNCHANGED <<lane, at, keep, persistent, page, mobile, rows, stuck>>

-----------------------------------------------------------------------------
(* The steps of a row *)

(* openBenchContext: a profile of its own, removed again if the launch fails. *)
Profile == IF persistent THEN {"profile"} ELSE {}
Kept == IF ~ keep THEN {} ELSE IF lane = "bench" THEN {"profile"} ELSE {"store"}
LaunchFailed(refused) == held \cup (Profile \cap (Kept \cup refused))

Launch ==
    /\ Now("launch")
    /\ \/ held' = held \cup Profile \cup {"browser"} /\ Next1 /\ UNCHANGED <<throwing, stuck>>
       \/ \E refused \in SUBSET Profile :
             held' = LaunchFailed(refused) /\ stuck' = stuck \cup refused /\ Throw
    /\ UNCHANGED <<control, page, mobile, rows>>

(* runSafari: the tunnel's process, then a WebDriver session.                 *)
OpenTunnel == /\ Now("tunnel")
              /\ held' = held \cup {"tunnel"}
              /\ Next1
              /\ UNCHANGED <<control, page, mobile, rows, throwing, stuck>>

OpenSession == /\ Now("session")
               /\ \/ held' = held \cup {"session"} /\ Next1 /\ UNCHANGED throwing
                  \/ Throw /\ UNCHANGED held
               /\ UNCHANGED <<control, page, mobile, rows, stuck>>

(* startSampler and startCaffeinate on the Mac; the pump of notifications.    *)
Start == \E it \in {"samplers", "pump"} :
    /\ Now(it)
    /\ held' = held \cup {it}
    /\ Next1
    /\ UNCHANGED <<control, page, mobile, rows, throwing, stuck>>

(* startPgrustPostmaster, createPgrustPglite, PGlite.create: in the lane's    *)
(* own process, where page is whether the backend answers.                    *)
Boot == \E it \in {"engine", "database"} :
    /\ Now(it)
    /\ \/ held' = held \cup {it} /\ page' = "asked" /\ Next1 /\ UNCHANGED throwing
       \/ Throw /\ UNCHANGED <<held, page>>
    /\ UNCHANGED <<control, mobile, rows, stuck>>

(* A session's handshake, createSyncClient, subscribeLiveRows: no deadline.   *)
OpenClient == \E it \in {"client", "notifier", "subscription"} :
    /\ Now(it)
    /\ page # "mute"
    /\ \/ held' = held \cup {it} /\ Next1 /\ UNCHANGED throwing
       \/ Throw /\ UNCHANGED held
    /\ UNCHANGED <<control, page, mobile, rows, stuck>>

(* goto, with its retries: the page that comes up need not be the one asked.  *)
Load == /\ Now("load")
        /\ \/ page' \in {"asked", "other"} /\ Next1 /\ UNCHANGED throwing
           \/ Throw /\ UNCHANGED page
        /\ UNCHANGED <<control, held, mobile, rows, stuck>>

Mute == /\ Running /\ page \in {"asked", "other"}
        /\ page' = "mute"
        /\ UNCHANGED <<control, at, held, mobile, rows, throwing, stuck>>

(* Someone puts the window away while its Suite runs; the listener remembers. *)
Hide == /\ lane = "drive" /\ Now("measure")
        /\ page = "asked" /\ page' = "other"
        /\ UNCHANGED <<control, at, held, mobile, rows, throwing, stuck>>

(* The environment line, or crossOriginIsolated, read before anything is run; *)
(* on the Mac, that the page is visible, before and after.                    *)
TakenUnread == TRUE
Taken == page = "asked"

Check == /\ Now("check")
         /\ IF Taken THEN Next1 /\ UNCHANGED throwing ELSE Throw
         /\ UNCHANGED <<control, held, page, mobile, rows, stuck>>

(* A Suite, a warm Run, a leg, a query, a phase: awaited up to a deadline,    *)
(* but in process.                                                           *)
MeasureUntimed == /\ Now("measure")
                  /\ page # "mute" /\ Next1
                  /\ UNCHANGED <<control, held, page, mobile, rows, throwing, stuck>>

Measure == /\ Now("measure")
           /\ \/ page # "mute" /\ Next1 /\ UNCHANGED throwing
              \/ (page = "mute" => lane \notin InProcess) /\ Throw
           /\ UNCHANGED <<control, held, page, mobile, rows, stuck>>

(* release(), which has none. The idle probes go on when it fails.            *)
ReleasePage ==
    /\ Now("release")
    /\ page # "mute"
    /\ \/ Next1 /\ UNCHANGED throwing
       \/ lane = "memory" /\ Throw
    /\ UNCHANGED <<control, held, page, mobile, rows, stuck>>

-----------------------------------------------------------------------------
(* The phone: a command of adb may be refused; shell() throws then, tryShell() *)
(* goes on.                                                                  *)

Set(field, value) == {phone, [phone EXCEPT ![field] = value]}
Woken == [phone EXCEPT !.awake = TRUE]

(* unlock: what has no credential is swiped away, or someone unlocks it.      *)
Unlock == locked' \in {locked, FALSE}

Wake == /\ Now("wake")
        /\ \E p \in Set("battery", "plugged") : phone' \in {p, [p EXCEPT !.awake = TRUE]}
        /\ \/ phone'.awake /\ Unlock /\ Next1 /\ UNCHANGED throwing
           \/ Throw /\ UNCHANGED locked
        /\ UNCHANGED <<control, held, page, windows, rows, stuck>>

Forward == /\ Now("forward")
           /\ \/ held' = held \cup {"forward"} /\ Next1 /\ UNCHANGED throwing
              \/ Throw /\ UNCHANGED held
           /\ UNCHANGED <<control, page, mobile, rows, stuck>>

(* prepareWindow and runWindow: a keyguard that cannot be read reads as none. *)
Label(id, showing) == IF id = "foreground" /\ showing THEN "keyguard showing" ELSE id

WindowThrows == \E id \in {"foreground", "background", "screen-off"} :
    /\ Now(id)
    /\ Throw
    /\ phone' \in {phone, Woken} \cup (IF id = "screen-off" THEN Set("stay", "0") ELSE {})
    /\ UNCHANGED <<control, held, page, locked, windows, rows, stuck>>

ScreenOn == \E id \in {"foreground", "background"}, read \in BOOLEAN :
    /\ Now(id)
    /\ Unlock
    /\ phone' \in {Woken, [Woken EXCEPT !.battery = "unplugged"]}
    /\ windows' = windows \cup {[id |-> id, locked |-> locked', read |-> read,
                                 label |-> Label(id, read /\ locked')]}
    /\ Next1
    /\ UNCHANGED <<control, held, page, rows, throwing, stuck>>

ScreenOff ==
    /\ Now("screen-off")
    /\ phone' \in {[battery |-> b, stay |-> "0", awake |-> FALSE] : b \in {phone.battery, "unplugged"}}
    /\ locked' \in BOOLEAN
    /\ windows' = windows \cup {[id |-> "screen-off", locked |-> TRUE, read |-> TRUE, label |-> "screen-off"]}
    /\ Next1
    /\ UNCHANGED <<control, held, page, rows, throwing, stuck>>

WakeAgain == /\ Now("wake again")
             /\ phone' \in {phone, Woken} \cup {[Woken EXCEPT !.stay = "2"]}
             /\ Unlock
             /\ Next1
             /\ UNCHANGED <<control, held, page, windows, rows, throwing, stuck>>

(* The liveness query has a deadline and its failure a note; no client, no    *)
(* release.                                                                  *)
Reattach == /\ Now("reattach")
            /\ at' \in {at + 1, Steps + 1}
            /\ UNCHANGED <<control, held, page, mobile, rows, throwing, stuck>>

-----------------------------------------------------------------------------
(* A row's end, and the lane's *)

(* The finally blocks: each gives back its own, whatever another refused.     *)
ClosedWhileWell(refused) == IF refused = {} THEN held \ (OfRow \ Kept) ELSE held
Closed(refused) == (held \ (OfRow \ Kept)) \cup refused

(* Closing a session waits for the backend's own close; close() of the        *)
(* factory's client has a deadline.                                          *)
ClosingHangs == /\ page = "mute" /\ lane \in InProcess \ {"factory"}
                /\ held \cap {"client", "notifier"} # {}

Refusable == {"browser", "profile", "session", "database", "client", "notifier"}
Ignored == {"session"} \cup (IF Portability THEN {"database"} ELSE {})
Caught == lane = "android" \/ Attempt

(* After the closing a nonzero exit, a missing checkpoint or a lost           *)
(* notification fails the row; a refused boot is in the server's words.       *)
JudgedAfter == lane \in InProcess /\ ~ Portability
How(failed) == IF ~ failed THEN {"measured"} ELSE IF Attempt THEN {"refused", "failed"} ELSE {"failed"}

RowOver == Running /\ row <= Rows /\ (throwing \/ at > Steps)

RowEnds ==
    /\ RowOver /\ ~ ClosingHangs
    /\ \E refused \in SUBSET (held \cap Refusable), bad \in (IF JudgedAfter THEN BOOLEAN ELSE {FALSE}) :
         LET failed == throwing \/ bad \/ refused \ Ignored # {} IN
         /\ held' = Closed(refused)
         /\ stuck' = stuck \cup refused
         /\ IF failed /\ ~ Caught THEN UNCHANGED rows
            ELSE \E how \in How(failed) : rows' = Append(rows, [how |-> how, page |-> page])
         /\ row' = IF failed /\ ~ Caught THEN Rows + 1 ELSE row + 1
         /\ throwing' = (failed /\ ~ Caught)
    /\ at' = 1 /\ page' = "none"
    /\ UNCHANGED <<lane, keep, persistent, outcome, mobile>>

(* "Whatever failed, the phone goes back to how it was found."                *)
Restore ==
    /\ Running /\ lane = "android" /\ row > Rows /\ at = 1
    /\ \E refused \in SUBSET {"battery", "stay", "awake", "forward", "reverse"} :
         /\ phone' = [f \in DOMAIN phone |-> IF f \in refused THEN phone[f] ELSE Found[f]]
         /\ held' = held \ ({"forward", "reverse"} \ refused)
         /\ stuck' = stuck \cup refused
    /\ Next1
    /\ UNCHANGED <<control, page, locked, windows, rows, throwing>>

(* The server stops; what was measured is printed or written, all or nothing. *)
(* The factory's lane passes by reproducing the refusals on record.          *)
AsRecorded == lane = "factory" => \A i \in 4..5 : rows[i].how = "refused"

Stop == /\ Running /\ row > Rows /\ (lane = "android" => at = 2)
        /\ held' = held \ {"server"}
        /\ outcome' = IF ~ throwing /\ AsRecorded THEN "results" ELSE "error"
        /\ UNCHANGED <<lane, row, at, keep, persistent, page, mobile, rows, throwing, stuck>>

-----------------------------------------------------------------------------
Progress == \/ Begin \/ Launch \/ OpenTunnel \/ OpenSession \/ Start \/ Boot \/ OpenClient
            \/ Load \/ Check \/ Measure \/ ReleasePage
            \/ Wake \/ Forward \/ WindowThrows \/ ScreenOn \/ ScreenOff \/ WakeAgain \/ Reattach
            \/ RowEnds \/ Restore \/ Stop
LaneNext == Progress \/ Mute \/ Hide

LaneSpec == LaneInit /\ [][LaneNext]_laneVars /\ WF_laneVars(Progress)

-----------------------------------------------------------------------------
Over == outcome \in {"results", "error"}

(* However a lane ends, no server, browser, profile, tunnel, session, engine,  *)
(* client or adb forward is left, and the phone is as it was found, but what   *)
(* was kept on request or refused to go (bench.ts openBenchContext,            *)
(* probe-idle-cpu-android.ts main, probe-notify-latency.ts main). A prepared   *)
(* store that was never finished stays.                                       *)
NothingLeft ==
    Over => /\ held \subseteq stuck \cup Kept \cup (IF rows = << >> THEN Scratch ELSE {})
            /\ \A f \in DOMAIN phone : phone[f] = Found[f] \/ f \in stuck

Expected(i) == IF lane = "factory" /\ i > 3 THEN "refused" ELSE "measured"

(* Results are of every row, each measured but on the phone, and of a page     *)
(* that took what the lane asked of it (bench.ts runBench) and was never       *)
(* hidden (safari-drive.ts main); a datadir that boots where the record says   *)
(* refused is no pass (pgxsinkit-factory-scenario.ts main). A column that      *)
(* fails on the phone costs no column already measured                         *)
(* (probe-idle-cpu-android.ts:863), and no window of one is labelled           *)
(* foreground behind a keyguard that could be read (prepareWindow, unlock).    *)
ResultsAreTrue ==
    /\ outcome = "results" =>
          /\ Len(rows) = Rows
          /\ \A i \in DOMAIN rows : lane # "android" => rows[i].how = Expected(i)
          /\ \A i \in DOMAIN rows : lane \in {"bench", "chromium", "safari", "drive"} => rows[i].page # "other"
    /\ (lane = "android" /\ outcome = "error") => rows = << >>
    /\ \A w \in windows : (w.label = "foreground" /\ w.read) => ~ w.locked

(* A lane ends, however the page behaves, unless it is mute when it is asked   *)
(* to release its engine, or a backend of the lane's own when it is asked for  *)
(* anything: neither has a deadline.                                          *)
Untimed == {"release"} \cup (IF lane \in InProcess THEN {"client", "notifier", "subscription", "measure"} ELSE {})
Hangs == page = "mute" /\ ((\E step \in Untimed : Now(step)) \/ (RowOver /\ ClosingHangs))

LaneEnds == <>(Over \/ Hangs)
=============================================================================
