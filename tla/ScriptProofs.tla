---------------------------- MODULE ScriptProofs ----------------------------
(***************************************************************************)
(* Proofs about the scripts around the page: the lanes that measure it     *)
(* (Lanes), for any number of rows, and those that fill and package its    *)
(* assets (AssetSync), for any commits and any number of syncs.            *)
(***************************************************************************)
EXTENDS Lanes, AssetSync, TLAPS

(* The lanes. *)

Paged == {"bench", "chromium", "safari", "drive"}
LastCheck == IF lane = "drive" THEN 6 ELSE IF lane = "safari" THEN 4 ELSE 3
Pages == {"none", "asked", "other", "mute"}
OfPhone == {"forward", "reverse"}
Outcomes == {"measured", "refused", "failed"}

LaneTypes ==
    /\ lane \in LaneNames
    /\ row \in Nat \ {0} /\ at \in Nat \ {0}
    /\ page \in Pages
    /\ throwing \in BOOLEAN
    /\ rows \in Seq([how : Outcomes, page : Pages])
    /\ outcome \in {"none", "running", "results", "error"}

\* Before it begins a lane has nothing, and is at its first step.
Untouched ==
    outcome = "none" =>
        held = {} /\ row = 1 /\ at = 1 /\ rows = << >> /\ ~ throwing /\ phone = Found

\* Between rows a lane has what outlives a row, and what was kept or refused;
\* the phone's lane not even that once it has restored the phone.
LeftInv ==
    /\ lane # "android" => phone = Found /\ held \cap OfPhone = {}
    /\ Running => held \ OfRow \subseteq {"server"} \cup OfPhone \cup Kept \cup stuck
    /\ (Running /\ row > Rows) => held \subseteq {"server"} \cup OfPhone \cup Kept \cup stuck
    /\ (Running /\ row > Rows /\ at = 2 /\ lane = "android") =>
          /\ held \cap OfPhone \subseteq stuck
          /\ \A f \in DOMAIN phone : phone[f] = Found[f] \/ f \in stuck
    /\ NothingLeft

\* Rows are reported in order, and only a caught failure is reported as one.
RowsInv ==
    /\ row <= Rows + 1
    /\ (Running /\ ~ (throwing /\ row > Rows)) => Len(rows) = row - 1
    /\ (Running /\ throwing /\ row > Rows /\ lane = "android") => rows = << >>
    /\ \A i \in 1 .. Len(rows) :
          /\ (lane # "android" /\ ~ (lane = "factory" /\ i > 3)) => rows[i].how = "measured"
          /\ lane \in Paged => rows[i].page # "other"

\* Past the last check of its row a lane is on the page it asked for.
PageInv == (Running /\ lane \in Paged /\ row <= Rows /\ at > LastCheck) => page # "other"

LaneInv == LaneTypes /\ Untouched /\ LeftInv /\ RowsInv /\ PageInv /\ ResultsAreTrue

OnPhone == {"wake", "forward", "foreground", "background", "screen-off", "wake again", "reattach"}

\* What a step of a program says of its lane and of its place in the row.
LEMMA StepFacts ==
    ASSUME LaneTypes, NEW step, Now(step)
    PROVE  /\ step \in OnPhone => lane = "android"
           /\ (lane \in Paged /\ at = LastCheck) => step = "check"
           /\ (lane \in Paged /\ step = "load") => at < LastCheck
           /\ (lane = "drive" /\ step = "measure") => at = 5
<1>1. CASE lane = "bench"
  <2>1. Program = BenchProgram BY <1>1 DEF Program
  <2>2. \/ (at = 1 /\ step = "launch") \/ (at = 2 /\ step = "load") \/ (at = 3 /\ step = "check")
        \/ (at = 4 /\ step = "measure") \/ (at = 5 /\ step = "measure")
    BY <2>1 DEF BenchProgram, LaneTypes, Now, Steps
  <2>3. step \notin OnPhone BY <2>2 DEF OnPhone
  <2> QED BY <1>1, <2>2, <2>3 DEF LastCheck
<1>2. CASE lane = "idle"
  <2>1. Program = IdleProgram BY <1>2 DEF Program
  <2>2. step \in {"launch", "load", "measure", "release"} BY <2>1 DEF IdleProgram, LaneTypes, Now, Steps
  <2> QED BY <1>2, <2>2 DEF OnPhone, Paged
<1>3. CASE lane = "memory"
  <2>1. Program = MemoryProgram BY <1>3 DEF Program
  <2>2. step \in {"launch", "load", "measure", "release"} BY <2>1 DEF MemoryProgram, LaneTypes, Now, Steps
  <2> QED BY <1>3, <2>2 DEF OnPhone, Paged
<1>4. CASE lane = "prepared"
  <2>1. Program = PreparedProgram BY <1>4 DEF Program
  <2>2. step \in {"launch", "load", "measure"} BY <2>1 DEF PreparedProgram, LaneTypes, Now, Steps
  <2> QED BY <1>4, <2>2 DEF OnPhone, Paged
<1>5. CASE lane = "chromium"
  <2>1. Program = ChromiumProgram BY <1>5 DEF Program
  <2>2. \/ (at = 1 /\ step = "launch") \/ (at = 2 /\ step = "load") \/ (at = 3 /\ step = "check")
        \/ (at = 4 /\ step = "measure")
    BY <2>1 DEF ChromiumProgram, LaneTypes, Now, Steps
  <2>3. step \notin OnPhone BY <2>2 DEF OnPhone
  <2> QED BY <1>5, <2>2, <2>3 DEF LastCheck
<1>6. CASE lane = "safari"
  <2>1. Program = SafariProgram BY <1>6 DEF Program
  <2>2. \/ (at = 1 /\ step = "tunnel") \/ (at = 2 /\ step = "session") \/ (at = 3 /\ step = "load")
        \/ (at = 4 /\ step = "check") \/ (at = 5 /\ step = "measure")
    BY <2>1 DEF SafariProgram, LaneTypes, Now, Steps
  <2>3. step \notin OnPhone BY <2>2 DEF OnPhone
  <2> QED BY <1>6, <2>2, <2>3 DEF LastCheck
<1>7. CASE lane = "android"
  BY <1>7 DEF Paged
<1>8. CASE lane = "drive"
  <2>1. Program = DriveProgram BY <1>8 DEF Program
  <2>2. \/ (at = 1 /\ step = "session") \/ (at = 2 /\ step = "samplers") \/ (at = 3 /\ step = "load")
        \/ (at = 4 /\ step = "check") \/ (at = 5 /\ step = "measure") \/ (at = 6 /\ step = "check")
    BY <2>1 DEF DriveProgram, LaneTypes, Now, Steps
  <2>3. step \notin OnPhone BY <2>2 DEF OnPhone
  <2> QED BY <1>8, <2>2, <2>3 DEF LastCheck
<1>9. CASE lane = "notify"
  <2>1. Program = NotifyProgram BY <1>9 DEF Program
  <2>2. step \in {"engine", "client", "notifier", "pump", "measure"} BY <2>1 DEF NotifyProgram, LaneTypes, Now, Steps
  <2> QED BY <1>9, <2>2 DEF OnPhone, Paged
<1>10. CASE lane = "dump"
  <2>1. Program = DumpProgram BY <1>10 DEF Program
  <2>2. step \in {"engine", "client", "measure"} BY <2>1 DEF DumpProgram, LaneTypes, Now, Steps
  <2> QED BY <1>10, <2>2 DEF OnPhone, Paged
<1>11. CASE lane = "live"
  <2>1. Program = LiveProgram BY <1>11 DEF Program
  <2>2. step \in {"engine", "client", "subscription", "measure"} BY <2>1 DEF LiveProgram, LaneTypes, Now, Steps
  <2> QED BY <1>11, <2>2 DEF OnPhone, Paged
<1>12. CASE lane = "factory"
  <2>1. Program = FactoryProgram BY <1>12 DEF Program
  <2>2. step \in {"database", "client", "measure"} BY <2>1 DEF FactoryProgram, LaneTypes, Now, Steps
  <2> QED BY <1>12, <2>2 DEF OnPhone, Paged
<1> QED BY <1>1, <1>2, <1>3, <1>4, <1>5, <1>6, <1>7, <1>8, <1>9, <1>10, <1>11, <1>12 DEF LaneTypes, LaneNames, InProcess

LEMMA RowsType == Rows \in Nat \ {0}
BY RowsAssumption DEF Rows

\* A step of a row that opens what a row gives back, or on the phone a forward.
LEMMA RowStep ==
    ASSUME LaneInv, Running, row <= Rows,
           UNCHANGED <<control, rows>>,
           at' \in Nat \ {0}, throwing' \in BOOLEAN, page' \in Pages,
           held' \subseteq held \cup OfRow \cup (IF lane = "android" THEN {"forward"} ELSE {}),
           stuck \subseteq stuck',
           lane = "android" \/ phone' = phone,
           (lane \in Paged /\ at' > LastCheck) => page' # "other",
           \A w \in windows' : w \in windows \/ ((w.label = "foreground" /\ w.read) => ~ w.locked)
    PROVE  LaneInv'
<1> USE DEF LaneInv, control, Running
<1>1. LaneTypes' BY DEF LaneTypes
<1>2. Rows' = Rows /\ Kept' = Kept /\ LastCheck' = LastCheck BY DEF Rows, Kept, LastCheck
<1>3. Untouched' BY DEF Untouched
<1>4. LeftInv'
  <2>1. row' <= Rows' BY <1>2
  <2>2. ~ Over' BY DEF Over
  <2>3. (lane # "android" => phone = Found /\ held \cap OfPhone = {})' BY DEF LeftInv, OfPhone, OfRow
  <2>4. held' \ OfRow \subseteq {"server"} \cup OfPhone \cup Kept' \cup stuck' BY <1>2 DEF LeftInv, OfPhone
  <2> QED BY <2>1, <2>2, <2>3, <2>4, RowsType, <1>2 DEF LeftInv, NothingLeft, LaneTypes
<1>5. RowsInv' BY <1>2, RowsType DEF RowsInv, LaneTypes
<1>6. PageInv' BY <1>2 DEF PageInv
<1>7. ResultsAreTrue' BY DEF ResultsAreTrue
<1> QED BY <1>1, <1>3, <1>4, <1>5, <1>6, <1>7

LEMMA LaneInitInv == LaneInit => LaneInv
<1> SUFFICES ASSUME LaneInit PROVE LaneInv OBVIOUS
<1> USE DEF LaneInit
<1>1. LaneTypes
  <2>1. << >> \in Seq([how : Outcomes, page : Pages]) OBVIOUS
  <2>2. rows \in Seq([how : Outcomes, page : Pages]) BY <2>1
  <2>3. throwing \in BOOLEAN OBVIOUS
  <2> QED BY <2>2, <2>3 DEF LaneTypes, Pages
<1>2. Untouched BY DEF Untouched
<1>3. LeftInv BY DEF LeftInv, Running, NothingLeft, Over
<1>4. RowsInv BY RowsType DEF RowsInv, Running
<1>5. PageInv /\ ResultsAreTrue BY DEF PageInv, Running, ResultsAreTrue
<1> QED BY <1>1, <1>2, <1>3, <1>4, <1>5 DEF LaneInv

\* A step that is no check leaves a page that was checked as it was.
LEMMA PageKept ==
    ASSUME LaneInv, NEW step, Now(step), step # "check", page' = page, at' \in {at, at + 1}
    PROVE  (lane \in Paged /\ at' > LastCheck) => page' # "other"
<1>1. lane \in Paged => at # LastCheck BY StepFacts DEF LaneInv
<1>2. at \in Nat /\ LastCheck \in Nat BY DEF LaneInv, LaneTypes, LastCheck
<1>3. (lane \in Paged /\ at > LastCheck) => page # "other" BY DEF LaneInv, PageInv, Now
<1> QED BY <1>1, <1>2, <1>3

\* Where a step is taken, and what it may do to the program's counter.
LEMMA Taking ==
    ASSUME LaneInv, NEW step, Now(step)
    PROVE  Running /\ row <= Rows /\ at \in Nat \ {0} /\ at + 1 \in Nat \ {0}
           /\ throwing \in BOOLEAN /\ TRUE \in BOOLEAN /\ page \in Pages
BY DEF Now, LaneInv, LaneTypes

LEMMA LaunchKeeps == LaneInv /\ Launch => LaneInv'
<1> SUFFICES ASSUME LaneInv, Launch PROVE LaneInv' OBVIOUS
<1>1. Now("launch") BY DEF Launch
<1>2. at' \in {at, at + 1} /\ throwing' \in BOOLEAN BY <1>1, Taking DEF Launch, Next1, Throw
<1>3. held' \subseteq held \cup OfRow /\ stuck \subseteq stuck'
      BY DEF Launch, Profile, LaunchFailed, OfRow
<1>4. UNCHANGED <<control, page, mobile, rows>> BY DEF Launch
<1> QED BY <1>1, <1>2, <1>3, <1>4, Taking, PageKept, RowStep DEF mobile

LEMMA OpenKeeps ==
    LaneInv /\ (OpenTunnel \/ OpenSession \/ Start \/ OpenClient) => LaneInv'
<1> SUFFICES ASSUME LaneInv, NEW it \in {"tunnel", "session", "samplers", "pump", "client", "notifier", "subscription"},
                    Now(it), held' \in {held, held \cup {it}}, at' \in {at, at + 1}, throwing' \in BOOLEAN,
                    UNCHANGED <<control, page, mobile, rows, stuck>>
             PROVE  LaneInv'
  BY Taking DEF OpenTunnel, OpenSession, Start, OpenClient, Next1, Throw
<1>1. held' \subseteq held \cup OfRow BY DEF OfRow
<1> QED BY <1>1, Taking, PageKept, RowStep DEF mobile

LEMMA BootKeeps == LaneInv /\ Boot => LaneInv'
<1> SUFFICES ASSUME LaneInv, NEW it \in {"engine", "database"}, Now(it),
                    held' \in {held, held \cup {it}}, at' \in {at, at + 1}, throwing' \in BOOLEAN,
                    \/ page' = "asked"
                    \/ page' = page,
                    UNCHANGED <<control, mobile, rows, stuck>>
             PROVE  LaneInv'
  BY Taking DEF Boot, Next1, Throw
<1>1. held' \subseteq held \cup OfRow BY DEF OfRow
<1>2. page' \in Pages BY Taking DEF Pages
<1> QED BY <1>1, <1>2, Taking, PageKept, RowStep DEF mobile

LEMMA LoadKeeps == LaneInv /\ Load => LaneInv'
<1> SUFFICES ASSUME LaneInv, Load PROVE LaneInv' OBVIOUS
<1>1. Now("load") /\ UNCHANGED <<control, held, mobile, rows, stuck>> BY DEF Load
<1>2. at' \in {at, at + 1} /\ throwing' \in BOOLEAN /\ page' \in Pages
      BY <1>1, Taking DEF Load, Next1, Throw, Pages
<1>3. lane \in Paged => at < LastCheck BY <1>1, StepFacts DEF LaneInv
<1>4. LastCheck \in Nat BY DEF LastCheck
<1>5. lane \in Paged => ~ at' > LastCheck BY <1>1, <1>2, <1>3, <1>4, Taking
<1> QED BY <1>1, <1>2, <1>5, Taking, RowStep DEF mobile

LEMMA CheckKeeps == LaneInv /\ Check => LaneInv'
<1> SUFFICES ASSUME LaneInv, Check PROVE LaneInv' OBVIOUS
<1>1. Now("check") /\ UNCHANGED <<control, held, page, mobile, rows, stuck>> BY DEF Check
<1>2. at' \in {at, at + 1} /\ throwing' \in BOOLEAN /\ (at' = at + 1 => page = "asked" \/ at' = at)
      BY <1>1, Taking DEF Check, Taken, Next1, Throw
<1>3. (lane \in Paged /\ at > LastCheck) => page # "other" BY <1>1 DEF LaneInv, PageInv, Now
<1>4. (lane \in Paged /\ at' > LastCheck) => page' # "other" BY <1>1, <1>2, <1>3
<1> QED BY <1>1, <1>2, <1>4, Taking, RowStep DEF mobile

LEMMA AskKeeps == LaneInv /\ (Measure \/ ReleasePage) => LaneInv'
<1> SUFFICES ASSUME LaneInv, NEW step \in {"measure", "release"}, Now(step),
                    at' \in {at, at + 1}, throwing' \in BOOLEAN,
                    UNCHANGED <<control, held, page, mobile, rows, stuck>>
             PROVE  LaneInv'
  BY Taking DEF Measure, ReleasePage, Next1, Throw
<1> QED BY Taking, PageKept, RowStep DEF mobile

LEMMA PhoneKeeps ==
    LaneInv /\ (Wake \/ Forward \/ WindowThrows \/ ScreenOn \/ ScreenOff \/ WakeAgain \/ Reattach) => LaneInv'
<1> SUFFICES ASSUME LaneInv,
                    Wake \/ Forward \/ WindowThrows \/ ScreenOn \/ ScreenOff \/ WakeAgain \/ Reattach
             PROVE  LaneInv'
  OBVIOUS
<1>1. PICK step \in OnPhone : Now(step)
  BY DEF OnPhone, Wake, Forward, WindowThrows, ScreenOn, ScreenOff, WakeAgain, Reattach
<1>2. lane = "android" BY <1>1, StepFacts DEF LaneInv
<1>3. UNCHANGED <<control, page, rows, stuck>>
  BY DEF Wake, Forward, WindowThrows, ScreenOn, ScreenOff, WakeAgain, Reattach
<1>4. held' \subseteq held \cup {"forward"}
  BY DEF Wake, Forward, WindowThrows, ScreenOn, ScreenOff, WakeAgain, Reattach
<1>5. at' \in {at, at + 1, Steps + 1} /\ throwing' \in BOOLEAN
  BY <1>1, Taking DEF Wake, Forward, WindowThrows, ScreenOn, ScreenOff, WakeAgain, Reattach, Next1, Throw
<1>6. Steps \in Nat /\ Steps + 1 \in Nat \ {0}
  <2>1. Steps = 10 BY <1>2 DEF Steps, Program, PhoneProgram
  <2> QED BY <2>1
<1>7. \A w \in windows' : w \in windows \/ ((w.label = "foreground" /\ w.read) => ~ w.locked)
  <2>1. CASE ScreenOn
    <3>1. PICK id \in {"foreground", "background"}, read \in BOOLEAN :
             windows' = windows \cup {[id |-> id, locked |-> locked', read |-> read,
                                       label |-> Label(id, read /\ locked')]}
          BY <2>1 DEF ScreenOn
    <3>2. (read /\ locked') => Label(id, read /\ locked') # "foreground" BY DEF Label
    <3> QED BY <3>1, <3>2
  <2>2. CASE ScreenOff BY <2>2 DEF ScreenOff
  <2>3. CASE ~ ScreenOn /\ ~ ScreenOff
    BY <2>3 DEF Wake, Forward, WindowThrows, WakeAgain, Reattach, mobile
  <2> QED BY <2>1, <2>2, <2>3
<1>8. lane \notin Paged BY <1>2 DEF Paged
<1>9. at' \in Nat \ {0} BY <1>1, <1>5, <1>6, Taking
<1>10. Running /\ row <= Rows /\ page' \in Pages BY <1>1, <1>3, Taking
<1> QED BY <1>2, <1>3, <1>4, <1>5, <1>7, <1>8, <1>9, <1>10, RowStep

\* A page or a backend that stops answering; a window that is put away.
LEMMA PageKeeps == LaneInv /\ (Mute \/ Hide) => LaneInv'
<1> SUFFICES ASSUME LaneInv, Mute \/ Hide PROVE LaneInv' OBVIOUS
<1>1. Running /\ UNCHANGED <<control, at, held, mobile, rows, throwing, stuck>> /\ page' \in Pages
  BY DEF Mute, Hide, Now, Pages
<1>2. page' = "other" => lane = "drive" /\ at = 5
  BY StepFacts DEF Mute, Hide, LaneInv
<1>3. page' = "mute" \/ page' = "other" BY DEF Mute, Hide
<1> USE DEF control, mobile
<1>4. Rows' = Rows /\ Kept' = Kept /\ LastCheck' = LastCheck /\ Running' /\ ~ Over'
  BY <1>1 DEF Rows, Kept, LastCheck, Running, Over
<1>5. LaneTypes' BY <1>1 DEF LaneInv, LaneTypes
<1>6. Untouched' BY <1>1 DEF Untouched, Running
<1>7. LeftInv' BY <1>1, <1>4 DEF LaneInv, LeftInv, NothingLeft
<1>8. RowsInv' BY <1>1, <1>4 DEF LaneInv, RowsInv
<1>9. PageInv' BY <1>1, <1>2, <1>3, <1>4 DEF LaneInv, PageInv, LastCheck
<1>10. ResultsAreTrue' BY <1>1, <1>4 DEF LaneInv, ResultsAreTrue, Running
<1> QED BY <1>5, <1>6, <1>7, <1>8, <1>9, <1>10 DEF LaneInv

LEMMA BeginKeeps == LaneInv /\ Begin => LaneInv'
<1> SUFFICES ASSUME LaneInv, Begin PROVE LaneInv' OBVIOUS
<1> USE DEF mobile
<1>1. /\ UNCHANGED <<lane, at, keep, persistent, page, mobile, rows, stuck>>
      /\ outcome = "none" /\ rows = << >> /\ at = 1 /\ row = 1 /\ ~ throwing
  BY DEF Begin, LaneInv, Untouched
<1>2. Rows' = Rows /\ Kept' = Kept /\ Scratch' = Scratch /\ LastCheck' = LastCheck
  BY <1>1 DEF Rows, Kept, Scratch, LastCheck
<1>3. \/ outcome' = "running" /\ row' = 1 /\ ~ throwing'
      \/ outcome' = "running" /\ row' = Rows + 1 /\ throwing' /\ lane = "android"
      \/ outcome' = "error" /\ row' = 1 /\ ~ throwing'
  BY <1>1 DEF Begin
<1>4. row' \in Nat \ {0} /\ row' <= Rows + 1 BY <1>3, RowsType
<1>5. LaneTypes'
  <2>1. throwing' \in BOOLEAN BY <1>1 DEF Begin, LaneInv, LaneTypes
  <2> QED BY <1>1, <1>3, <1>4, <2>1 DEF LaneInv, LaneTypes
<1>6. Untouched' BY <1>3 DEF Untouched
<1>7. LeftInv'
  <2>1. outcome' = "running" => held' \subseteq {"server"} \cup Kept \cup OfPhone
    BY DEF Begin, Served, Scratch, Kept, OfPhone
  <2>2. lane # "android" => held' \cap OfPhone = {} /\ phone' = Found
    BY <1>1 DEF Begin, Served, Scratch, OfPhone, LaneInv, LeftInv
  <2>3. outcome' = "error" => held' \subseteq Scratch /\ phone' = phone /\ phone = Found
    BY <1>1, <1>3 DEF Begin, Scratch, LaneInv, Untouched
  <2> QED BY <1>1, <1>2, <1>3, <2>1, <2>2, <2>3 DEF LeftInv, NothingLeft, Running, Over
<1>8. RowsInv' BY <1>1, <1>2, <1>3, <1>4, RowsType DEF RowsInv, Running
<1>9. PageInv' BY <1>1, <1>2, <1>3 DEF PageInv, Running, LastCheck
<1>10. ResultsAreTrue' BY <1>1, <1>3 DEF LaneInv, ResultsAreTrue
<1> QED BY <1>5, <1>6, <1>7, <1>8, <1>9, <1>10 DEF LaneInv

\* What the finally blocks leave: what outlives a row, was kept, or refused.
LEMMA RowEndsKeeps == LaneInv /\ RowEnds => LaneInv'
<1> SUFFICES ASSUME LaneInv, RowEnds PROVE LaneInv' OBVIOUS
<1>1. PICK refused \in SUBSET (held \cap Refusable), bad \in BOOLEAN :
        LET failed == throwing \/ bad \/ refused \ Ignored # {} IN
         /\ held' = Closed(refused)
         /\ stuck' = stuck \cup refused
         /\ IF failed /\ ~ Caught THEN UNCHANGED rows
            ELSE \E how \in How(failed) : rows' = Append(rows, [how |-> how, page |-> page])
         /\ row' = IF failed /\ ~ Caught THEN Rows + 1 ELSE row + 1
         /\ throwing' = (failed /\ ~ Caught)
  BY DEF RowEnds
<1> DEFINE failed == throwing \/ bad \/ refused \ Ignored # {}
<1>2. /\ Running /\ row <= Rows /\ (throwing \/ at > Steps)
      /\ at' = 1 /\ page' = "none" /\ UNCHANGED <<lane, keep, persistent, outcome, phone, locked, windows>>
  BY DEF RowEnds, RowOver, mobile
<1>3. Rows' = Rows /\ Kept' = Kept /\ LastCheck' = LastCheck /\ Running' /\ ~ Over'
  BY <1>2 DEF Rows, Kept, LastCheck, Running, Over
<1>4. held' = Closed(refused) /\ stuck' = stuck \cup refused BY <1>1
<1>5. \/ /\ failed /\ ~ Caught
         /\ rows' = rows /\ row' = Rows + 1 /\ throwing' = TRUE
      \/ /\ ~ failed \/ Caught
         /\ \E how \in How(failed) : rows' = Append(rows, [how |-> how, page |-> page])
         /\ row' = row + 1 /\ throwing' = FALSE
  BY <1>1
<1> HIDE DEF failed
<1>6. /\ rows \in Seq([how : Outcomes, page : Pages]) /\ page \in Pages
      /\ row \in Nat \ {0} /\ at \in Nat \ {0} /\ lane \in LaneNames /\ Len(rows) = row - 1
  BY <1>2, RowsType DEF LaneInv, LaneTypes, RowsInv
<1>7. \A how \in How(failed) : how \in Outcomes /\ (how # "measured" => failed)
  BY DEF How, Outcomes
<1>8. row' \in Nat \ {0} /\ row' <= Rows + 1 BY <1>2, <1>5, <1>6, RowsType
<1>9. LaneTypes'
  <2>1. rows' \in Seq([how : Outcomes, page : Pages])
    <3>1. CASE rows' = rows BY <1>6, <3>1
    <3>2. CASE \E how \in How(failed) : rows' = Append(rows, [how |-> how, page |-> page])
      <4>1. PICK how \in How(failed) : rows' = Append(rows, [how |-> how, page |-> page]) BY <3>2
      <4>2. [how |-> how, page |-> page] \in [how : Outcomes, page : Pages] BY <1>6, <1>7
      <4> QED BY <1>6, <4>1, <4>2
    <3> QED BY <1>5, <3>1, <3>2
  <2>2. throwing' \in BOOLEAN BY <1>5
  <2> QED BY <1>2, <1>8, <2>1, <2>2 DEF LaneInv, LaneTypes, Pages
<1>10. Untouched' BY <1>3 DEF Untouched, Running
<1>11. LeftInv'
  <2>1. held' \subseteq (held \ OfRow) \cup Kept \cup stuck' BY <1>4 DEF Closed
  <2>2. held' \subseteq held \cup {} BY <1>4 DEF Closed
  <2>3. held' \subseteq {"server"} \cup OfPhone \cup Kept' \cup stuck'
    BY <1>2, <1>3, <1>4, <2>1 DEF LaneInv, LeftInv
  <2>4. (lane # "android" => phone = Found /\ held \cap OfPhone = {})'
    BY <1>2, <2>2 DEF LaneInv, LeftInv
  <2>5. at' # 2 BY <1>2
  <2> QED BY <1>3, <2>3, <2>4, <2>5 DEF LeftInv, NothingLeft
<1>12. RowsInv'
  <2>1. CASE failed /\ ~ Caught
    <3>1. lane # "android" BY <2>1 DEF Caught
    <3>2. rows' = rows /\ row' = Rows + 1 /\ throwing' BY <1>5, <2>1
    <3>3. row' > Rows' BY <1>3, <3>2, RowsType
    <3> QED BY <1>2, <1>3, <1>8, <3>1, <3>2, <3>3 DEF LaneInv, RowsInv
  <2>2. CASE ~ failed \/ Caught
    <3>1. PICK how \in How(failed) : rows' = Append(rows, [how |-> how, page |-> page])
          BY <1>5, <2>2
    <3>2. row' = row + 1 /\ ~ throwing' BY <1>5, <2>2
    <3>3. /\ Len(rows') = row /\ rows'[row] = [how |-> how, page |-> page]
          /\ \A i \in 1 .. Len(rows) : rows'[i] = rows[i]
      BY <1>6, <3>1
    <3>4. (lane # "android" /\ ~ (lane = "factory" /\ row > 3)) => how = "measured"
      BY <1>6, <1>7, <2>2 DEF Caught, Attempt
    <3>5. lane \in Paged => page # "other"
      <4>1. lane \in Paged => at > LastCheck
        <5>1. lane \in Paged => ~ throwing
          BY <2>2 DEF failed, Caught, Attempt, Paged
        <5>2. CASE lane = "bench"
          BY <1>2, <1>6, <5>1, <5>2 DEF Paged, LastCheck, Steps, Program, BenchProgram
        <5>3. CASE lane = "chromium"
          BY <1>2, <1>6, <5>1, <5>3 DEF Paged, LastCheck, Steps, Program, ChromiumProgram
        <5>4. CASE lane = "safari"
          BY <1>2, <1>6, <5>1, <5>4 DEF Paged, LastCheck, Steps, Program, SafariProgram
        <5>5. CASE lane = "drive"
          BY <1>2, <1>6, <5>1, <5>5 DEF Paged, LastCheck, Steps, Program, DriveProgram
        <5> QED BY <5>2, <5>3, <5>4, <5>5 DEF Paged
      <4> QED BY <1>2, <4>1 DEF LaneInv, PageInv
    <3>6. \A i \in 1 .. Len(rows') :
            /\ (lane # "android" /\ ~ (lane = "factory" /\ i > 3)) => rows'[i].how = "measured"
            /\ lane \in Paged => rows'[i].page # "other"
      <4> SUFFICES ASSUME NEW i \in 1 .. Len(rows')
                   PROVE  /\ (lane # "android" /\ ~ (lane = "factory" /\ i > 3)) => rows'[i].how = "measured"
                          /\ lane \in Paged => rows'[i].page # "other"
        OBVIOUS
      <4>1. CASE i = row BY <3>3, <3>4, <3>5, <4>1
      <4>2. CASE i # row
        <5>1. i \in 1 .. Len(rows) BY <1>6, <3>3, <4>2
        <5> QED BY <3>3, <5>1 DEF LaneInv, RowsInv
      <4> QED BY <4>1, <4>2
    <3> QED BY <1>2, <1>3, <1>6, <1>8, <3>2, <3>3, <3>6 DEF RowsInv
  <2> QED BY <2>1, <2>2
<1>13. PageInv' BY <1>2 DEF PageInv
<1>14. ResultsAreTrue' BY <1>2 DEF LaneInv, ResultsAreTrue, Running
<1> QED BY <1>9, <1>10, <1>11, <1>12, <1>13, <1>14 DEF LaneInv

LEMMA RestoreKeeps == LaneInv /\ Restore => LaneInv'
<1> SUFFICES ASSUME LaneInv, Restore PROVE LaneInv' OBVIOUS
<1>1. /\ Running /\ lane = "android" /\ row > Rows /\ at = 1 /\ at' = 2
      /\ UNCHANGED <<lane, row, keep, persistent, outcome, page, locked, windows, rows, throwing>>
  BY DEF Restore, Next1, control
<1>2. PICK refused \in SUBSET {"battery", "stay", "awake", "forward", "reverse"} :
         /\ phone' = [f \in DOMAIN phone |-> IF f \in refused THEN phone[f] ELSE Found[f]]
         /\ held' = held \ ({"forward", "reverse"} \ refused)
         /\ stuck' = stuck \cup refused
  BY DEF Restore
<1>3. Rows' = Rows /\ Kept' = Kept /\ LastCheck' = LastCheck /\ Running' /\ ~ Over'
  BY <1>1 DEF Rows, Kept, LastCheck, Running, Over
<1>4. LaneTypes' BY <1>1 DEF LaneInv, LaneTypes
<1>5. Untouched' BY <1>3 DEF Untouched, Running
<1>6. LeftInv'
  <2>1. held' \cap OfPhone \subseteq stuck' /\ held' \subseteq held BY <1>2 DEF OfPhone
  <2>2. \A f \in DOMAIN phone' : phone'[f] = Found[f] \/ f \in stuck' BY <1>2
  <2>3. held' \subseteq {"server"} \cup OfPhone \cup Kept' \cup stuck'
    BY <1>1, <1>2, <1>3, <2>1 DEF LaneInv, LeftInv
  <2> QED BY <1>1, <1>3, <2>1, <2>2, <2>3 DEF LeftInv, NothingLeft
<1>7. RowsInv' BY <1>1, <1>3 DEF LaneInv, RowsInv
<1>8. PageInv' BY <1>1, <1>3, RowsType DEF PageInv, LaneInv, LaneTypes
<1>9. ResultsAreTrue' BY <1>1 DEF LaneInv, ResultsAreTrue, Running
<1> QED BY <1>4, <1>5, <1>6, <1>7, <1>8, <1>9 DEF LaneInv

LEMMA StopKeeps == LaneInv /\ Stop => LaneInv'
<1> SUFFICES ASSUME LaneInv, Stop PROVE LaneInv' OBVIOUS
<1>1. /\ Running /\ row > Rows /\ (lane = "android" => at = 2) /\ held' = held \ {"server"}
      /\ UNCHANGED <<lane, row, at, keep, persistent, page, phone, locked, windows, rows, throwing, stuck>>
      /\ outcome' = IF ~ throwing /\ AsRecorded THEN "results" ELSE "error"
  BY DEF Stop, mobile
<1>2. Rows' = Rows /\ Kept' = Kept /\ Scratch' = Scratch BY <1>1 DEF Rows, Kept, Scratch
<1>3. LaneTypes' BY <1>1 DEF LaneInv, LaneTypes
<1>4. Untouched' BY <1>1 DEF Untouched
<1>5. LeftInv'
  <2>1. held' \subseteq stuck' \cup Kept'
    BY <1>1, <1>2 DEF LaneInv, LeftInv, OfPhone
  <2>2. \A f \in DOMAIN phone' : phone'[f] = Found[f] \/ f \in stuck'
    BY <1>1 DEF LaneInv, LeftInv
  <2>3. (lane # "android" => phone = Found /\ held \cap OfPhone = {})'
    BY <1>1 DEF LaneInv, LeftInv
  <2> QED BY <1>1, <2>1, <2>2, <2>3 DEF LeftInv, NothingLeft, Running
<1>6. RowsInv' BY <1>1, <1>2 DEF LaneInv, RowsInv, Running
<1>7. PageInv' BY <1>1 DEF PageInv, Running
<1>8. ResultsAreTrue'
  <2>1. (lane = "android" /\ outcome' = "error") => rows' = << >>
    BY <1>1 DEF AsRecorded, LaneInv, RowsInv
  <2>2. ASSUME outcome' = "results"
        PROVE  /\ Len(rows') = Rows'
               /\ \A i \in DOMAIN rows' : lane # "android" => rows'[i].how = Expected(i)
               /\ \A i \in DOMAIN rows' : lane \in Paged => rows'[i].page # "other"
    <3>1. ~ throwing /\ AsRecorded BY <1>1, <2>2
    <3>2. Len(rows) = row - 1 /\ row = Rows + 1
      BY <1>1, <3>1, RowsType DEF LaneInv, LaneTypes, RowsInv
    <3>3. rows \in Seq([how : Outcomes, page : Pages]) BY DEF LaneInv, LaneTypes
    <3>4. DOMAIN rows = 1 .. Len(rows) /\ Len(rows) = Rows BY <3>2, <3>3, RowsType
    <3>5. lane = "factory" => Rows = 5 BY DEF Rows
    <3>6. \A i \in 1 .. Len(rows) : (lane = "factory" /\ i > 3) => rows[i].how = "refused"
      BY <3>1, <3>4, <3>5 DEF AsRecorded
    <3> QED BY <1>1, <1>2, <3>4, <3>6 DEF LaneInv, RowsInv, Expected
  <2> QED BY <1>1, <2>1, <2>2 DEF LaneInv, ResultsAreTrue, Paged, Expected
<1> QED BY <1>3, <1>4, <1>5, <1>6, <1>7, <1>8 DEF LaneInv

\* The inductive invariant of the lanes.
THEOREM LanesSafe == LaneSpec => []LaneInv
<1>1. LaneInv /\ [LaneNext]_laneVars => LaneInv'
  <2> SUFFICES ASSUME LaneInv, [LaneNext]_laneVars PROVE LaneInv' OBVIOUS
  <2>1. CASE UNCHANGED laneVars
    BY <2>1 DEF laneVars, LaneInv, LaneTypes, Untouched, LeftInv, NothingLeft, Over, Running, Rows, Kept,
                Scratch, RowsInv, PageInv, LastCheck, ResultsAreTrue, Expected
  <2>2. CASE LaneNext
    BY <2>2, BeginKeeps, LaunchKeeps, OpenKeeps, BootKeeps, LoadKeeps, CheckKeeps, AskKeeps, PhoneKeeps,
       RowEndsKeeps, RestoreKeeps, StopKeeps, PageKeeps
       DEF LaneNext, Progress
  <2> QED BY <2>1, <2>2
<1> QED BY <1>1, LaneInitInv, PTL DEF LaneSpec

\* However a lane ends, whatever failed and whatever it asked, it gives back
\* all it opened but what was kept on request or refused to go
\* (bench.ts openBenchContext, probe-idle-cpu-android.ts main).
THEOREM LanesGiveBack == LaneSpec => []NothingLeft
<1>1. LaneInv => NothingLeft BY DEF LaneInv, LeftInv
<1> QED BY <1>1, LanesSafe, PTL

\* What a lane reports is of every row, of the page it asked for, and labelled
\* for what it was (bench.ts runBench, safari-drive.ts main,
\* probe-idle-cpu-android.ts prepareWindow).
THEOREM LanesReportTruly == LaneSpec => []ResultsAreTrue
<1>1. LaneInv => ResultsAreTrue BY DEF LaneInv
<1> QED BY <1>1, LanesSafe, PTL

-----------------------------------------------------------------------------
(* The assets. *)

(* Every file is a build or missing; a release is what a tag may carry. *)
Builds == [of : Commits \cup {None}, dirty : BOOLEAN]
Files == Builds \cup {None}
Releases == [tag : Commits \cup {None}, draft : BOOLEAN, files : [Assets -> Files], store : Files]
Scripts == {"idle", "resolve", "fetch", "install", "record", "version", "vendor", "vendor version",
            "vendor record", "assets", "assets record", "host", "store", "store record", "alternates",
            "alternate", "publish", "package"}

Jobs == [pc : Scripts, rel : Releases, i : 1 .. 5, from : Files,
         asked : SUBSET Commits, left : SUBSET Commits]

AssetTypes ==
    /\ public \in [Assets -> Files]
    /\ alts \in [Commits -> Files]
    /\ vendor \in Builds /\ version \in Builds /\ host \in Files
    /\ source \in [vendor : Builds, store : Files, assets : Builds]
    /\ releases \in Seq(Releases) /\ bundle \in Releases
    /\ dropin \in [threads : Files, image : Files, store : Files, host : Files]
    /\ job \in Jobs
    /\ stopped \in SUBSET {"copy", "record"}

CoreSame == \A a, b \in Core : public[a] # None /\ public[b] # None => public[a] = public[b]
CoreRecorded ==
    \/ \A a \in Core : public[a] = source.assets
    \/ \E r \in Released : /\ ~ r.draft /\ r.tag = source.assets.of
                           /\ \A a \in Core : public[a] = r.files[a]
StoreRecorded == public["store"] # None => source.store \in {public["store"], Unknown}
Attributable(r) == r.files["store"] = r.store /\ (r.store # None => ~ r.store.dirty)

\* A release of one build, whichever it is.
Even(r) == \A a, b \in Core : r.files[a] # None /\ r.files[b] # None => r.files[a] = r.files[b]

Gone(a) == Has(job.rel, a) \/ (a \in Optional /\ public[a] = None)
Placed(a) == Has(job.rel, a) => public[a] = job.rel.files[a]

\* A release's way: what it does not carry is gone before anything is written,
\* and what is written is the release's.
ReleaseInv ==
    /\ job.pc = "resolve" => job.i = 1
    /\ job.pc \in {"fetch", "install", "record", "version"} => job.rel \in Released /\ ~ job.rel.draft
    /\ job.pc = "fetch" =>
          \A j \in 1 .. 4 : j < job.i => Gone(ReleaseAssets[j])
    /\ job.pc \in {"install", "record"} =>
          \A a \in Assets : Gone(a)
    /\ job.pc = "install" =>
          \A j \in 1 .. 4 : j < job.i => Placed(ReleaseAssets[j])
    /\ job.pc = "record" =>
          \A a \in Assets : Placed(a)

CheckoutInv ==
    /\ job.pc = "assets" => \A j \in 1 .. 3 : j < job.i => public[AssetFiles[j]] = job.from
    /\ job.pc = "assets record" => \A a \in Core : public[a] = job.from
    /\ job.pc \in {"vendor", "vendor version", "vendor record", "assets", "assets record"} =>
          job.from \in Builds
    /\ job.pc = "store record" => public["store"] = job.from

Late == {"store", "store record", "alternates", "alternate"}

\* Both ways on: what is on record by the time the sync is there.
RecordInv ==
    /\ (synced # None \/ job.pc \in {"version", "host"} \cup Late) => CoreRecorded
    /\ (synced # None \/ job.pc \in Late) => host = vendor
    /\ job.pc = "alternate" =>
          /\ job.left \subseteq job.asked
          /\ \A c \in Commits : alts[c] # None => c \in job.asked
          /\ \A c \in job.asked \ job.left : alts[c] # None
    /\ synced # None =>
          /\ job.pc \in {"idle", "publish", "package"}
          /\ \A c \in Commits : alts[c] # None <=> c \in synced

\* While no sync was stopped between a store bundle and its record.
WholeInv ==
    "record" \notin stopped =>
       /\ ~ (job.pc = "install" /\ job.i > 4) /\ job.pc \notin {"record", "store record"} => StoreRecorded
       /\ \A r \in Released : Attributable(r)
       /\ job.pc = "publish" => Attributable(bundle)

\* While no sync was stopped among the binaries.
SameInv ==
    "copy" \notin stopped =>
       /\ ~ (job.pc \in {"install", "assets"} /\ job.i \in {2, 3}) => CoreSame
       /\ \A r \in Released : Even(r)
       /\ job.pc = "publish" => Even(bundle)
       /\ dropin.threads # None /\ dropin.image # None => dropin.threads = dropin.image
       /\ job.pc = "package" => /\ job.i = 1 => dropin.threads = None
                                /\ job.i <= 2 => dropin.image = None
                                /\ job.i = 2 => dropin.threads = public["threads"]

AssetInv == AssetTypes /\ ReleaseInv /\ CheckoutInv /\ RecordInv /\ WholeInv /\ SameInv

LEMMA AssetLists ==
    /\ Len(ReleaseAssets) = 4 /\ Len(AssetFiles) = 3
    /\ \A j \in 1 .. 4 : ReleaseAssets[j] \in Assets
    /\ \A a \in Assets : \E j \in 1 .. 4 : ReleaseAssets[j] = a
    /\ \A j \in 1 .. 3 : AssetFiles[j] \in Core
    /\ \A a \in Core : \E j \in 1 .. 3 : AssetFiles[j] = a
    /\ Core \subseteq Assets /\ "store" \in Assets \ Core
<1>1. /\ \A j \in 1 .. 4 : ReleaseAssets[j] \in Assets
      /\ \A j \in 1 .. 3 : AssetFiles[j] \in Core
  BY DEF ReleaseAssets, AssetFiles, Assets, Core
<1>2. /\ ReleaseAssets[1] = "wasm" /\ ReleaseAssets[2] = "threads"
      /\ ReleaseAssets[3] = "image" /\ ReleaseAssets[4] = "store"
      /\ AssetFiles[1] = "wasm" /\ AssetFiles[2] = "threads" /\ AssetFiles[3] = "image"
  BY DEF ReleaseAssets, AssetFiles
<1>3. \A a \in Assets : \E j \in 1 .. 4 : ReleaseAssets[j] = a
  BY <1>2 DEF Assets
<1>4. \A a \in Core : \E j \in 1 .. 3 : AssetFiles[j] = a
  BY <1>2 DEF Core
<1> QED BY <1>1, <1>3, <1>4 DEF ReleaseAssets, AssetFiles, Assets, Core

\* Where a script goes next, field by field.
LEMMA GoIs ==
    ASSUME job \in Jobs, NEW pc \in Scripts, Go(pc)
    PROVE  /\ job' \in Jobs /\ job'.pc = pc /\ job'.i = 1
           /\ job'.rel = job.rel /\ job'.from = job.from
           /\ job'.asked = job.asked /\ job'.left = job.left
<1>1. 1 \in 1 .. 5 OBVIOUS
<1> QED BY <1>1 DEF Go, Jobs

LEMMA AdvanceIs ==
    ASSUME job \in Jobs, job.i <= 4, Advance
    PROVE  /\ job' \in Jobs /\ job'.pc = job.pc /\ job'.i = job.i + 1
           /\ job'.rel = job.rel /\ job'.from = job.from
           /\ job'.asked = job.asked /\ job'.left = job.left
BY DEF Advance, Jobs

LEMMA IdleIs ==
    /\ Idle \in Jobs /\ Idle.pc = "idle" /\ Idle.i = 1 /\ Idle.asked = {} /\ Idle.left = {}
    /\ NoRelease \in Releases
    /\ EmptyDropIn \in [threads : Files, image : Files, store : Files, host : Files]
BY DEF Idle, Jobs, Scripts, Releases, Files, NoRelease, EmptyDropIn

LEMMA SameReleases == releases' = releases => Released' = Released
BY DEF Released

LEMMA ReleasesAre == AssetTypes => Released \subseteq Releases
BY DEF AssetTypes, Released

LEMMA ReleaseAtIs ==
    ASSUME NEW tag
    PROVE  ReleaseAt(tag) = NoRelease \/ (ReleaseAt(tag) \in Released /\ ~ ReleaseAt(tag).draft)
BY DEF ReleaseAt

\* A script starts, fails, or is stopped where it stands: files and records stay.
LEMMA StandsStill ==
    ASSUME AssetInv, UNCHANGED <<clone, outside>>,
           job' \in Jobs, job'.pc \in {"idle", "resolve", "vendor"},
           job'.pc = "vendor" => job'.from \in Builds,
           job'.pc = "resolve" => job'.i = 1,
           synced' = synced \/ synced' = None, job'.pc # "idle" => synced' = None,
           stopped' \in SUBSET {"copy", "record"}, stopped \subseteq stopped',
           job.pc \in {"install", "assets"} /\ job.i \in {2, 3} => "copy" \in stopped',
           (job.pc = "install" /\ job.i > 4) \/ job.pc \in {"record", "store record"} => "record" \in stopped'
    PROVE  AssetInv'
<1> USE DEF AssetInv, clone, outside
<1>1. AssetTypes' BY DEF AssetTypes
<1>2. ReleaseInv' /\ CheckoutInv' BY DEF ReleaseInv, CheckoutInv
<1>3. Released' = Released BY SameReleases
<1>4. CoreSame' = CoreSame /\ CoreRecorded' = CoreRecorded /\ StoreRecorded' = StoreRecorded
  BY <1>3 DEF CoreSame, CoreRecorded, StoreRecorded
<1>5. RecordInv' BY <1>3, <1>4 DEF RecordInv, Late
<1>6. WholeInv' BY <1>3, <1>4 DEF WholeInv, Attributable
<1>7. SameInv' BY <1>3, <1>4 DEF SameInv, Even
<1> QED BY <1>1, <1>2, <1>5, <1>6, <1>7

LEMMA FailsKeeps ==
    ASSUME AssetInv, Fails,
           job.pc \notin {"install", "record", "store record", "assets"} \/ (job.pc = "assets" /\ job.i = 1)
    PROVE  AssetInv'
<1>1. stopped \in SUBSET {"copy", "record"} BY DEF AssetInv, AssetTypes
<1>2. job' = Idle /\ UNCHANGED <<clone, outside>> /\ synced' = synced /\ stopped' = stopped
  BY DEF Fails, Exit, clone, outside
<1>3. job' \in Jobs /\ job'.pc = "idle" /\ job'.i = 1 BY <1>2, IdleIs
<1>4. /\ ~ (job.pc \in {"install", "assets"} /\ job.i \in {2, 3})
      /\ ~ ((job.pc = "install" /\ job.i > 4) \/ job.pc \in {"record", "store record"})
  <2>1. CASE job.pc \notin {"install", "record", "store record", "assets"} BY <2>1
  <2>2. CASE job.pc = "assets" /\ job.i = 1
    <3>1. job.i \notin {2, 3} BY <2>2
    <3> QED BY <2>2, <3>1
  <2> QED BY <2>1, <2>2
<1>5. stopped' \in SUBSET {"copy", "record"} /\ stopped \subseteq stopped' BY <1>1, <1>2
<1> QED BY <1>2, <1>3, <1>4, <1>5, StandsStill

LEMMA StartKeeps == AssetInv /\ (StartRelease \/ StartCheckout) => AssetInv'
<1> SUFFICES ASSUME AssetInv, StartRelease \/ StartCheckout PROVE AssetInv' OBVIOUS
<1>1. /\ job.pc = "idle" /\ synced' = None /\ UNCHANGED <<clone, outside, stopped>>
      /\ \/ job' = [Idle EXCEPT !.pc = "resolve"]
         \/ \E from \in Trees : job' = [Idle EXCEPT !.pc = "vendor", !.from = from]
  BY DEF StartRelease, StartCheckout, Starts, On
<1>2. Trees \subseteq Builds BY DEF Trees, Build, Builds
<1>3. job' \in Jobs /\ job'.pc \in {"resolve", "vendor"} /\ job'.i = 1 /\ (job'.pc = "vendor" => job'.from \in Builds)
  BY <1>1, <1>2, IdleIs DEF Jobs, Scripts, Files
<1>4. stopped \in SUBSET {"copy", "record"} BY DEF AssetInv, AssetTypes
<1> QED BY <1>1, <1>3, <1>4, StandsStill

\* Where a stop is told from one that leaves things whole.
LEMMA Windows ==
    /\ Copying <=> job.pc \in {"install", "assets"} /\ job.i \in {2, 3}
    /\ Unrecorded <=> (job.pc = "install" /\ job.i > 4) \/ job.pc \in {"record", "store record"}
<1>1. 2 .. 3 = {2, 3} OBVIOUS
<1> QED BY <1>1, AssetLists DEF Copying, Unrecorded, On

LEMMA KilledKeeps == AssetInv /\ Killed => AssetInv'
<1> SUFFICES ASSUME AssetInv, Killed PROVE AssetInv' OBVIOUS
<1>1. /\ job' = Idle /\ UNCHANGED <<clone, outside, synced>>
      /\ stopped' = stopped \cup (IF Copying THEN {"copy"} ELSE {})
                           \cup (IF Unrecorded THEN {"record"} ELSE {})
  BY DEF Killed, Exit
<1>2. stopped \in SUBSET {"copy", "record"} BY DEF AssetInv, AssetTypes
<1>3. /\ stopped' \in SUBSET {"copy", "record"} /\ stopped \subseteq stopped'
      /\ Copying => "copy" \in stopped'
      /\ Unrecorded => "record" \in stopped'
  BY <1>1, <1>2
<1> QED BY <1>1, <1>3, Windows, IdleIs, StandsStill

\* A sync that runs has no result yet.
LEMMA NoResult == RecordInv /\ job.pc \notin {"idle", "publish", "package"} => synced = None
BY DEF RecordInv

\* What rests on the binaries and their record alone.
LEMMA SameServed ==
    UNCHANGED <<public, source, releases>> =>
       CoreSame' = CoreSame /\ CoreRecorded' = CoreRecorded /\ StoreRecorded' = StoreRecorded
BY SameReleases DEF CoreSame, CoreRecorded, StoreRecorded

\* A sync's step that leaves binaries, records and drop-in alone.
LEMMA ServedStays ==
    ASSUME AssetInv, UNCHANGED <<public, outside, stopped>>, source'.store = source.store,
           job.pc \notin {"install", "record", "store record"},
           job'.pc \notin {"record", "store record", "publish", "package"},
           job.pc # "assets"
    PROVE  WholeInv' /\ SameInv'
<1>1. Released' = Released BY SameReleases DEF outside
<1>2. CoreSame' = CoreSame /\ StoreRecorded' = StoreRecorded BY DEF CoreSame, StoreRecorded
<1>3. WholeInv' BY <1>1, <1>2 DEF AssetInv, WholeInv, Attributable
<1>4. SameInv' BY <1>1, <1>2 DEF AssetInv, SameInv, Even, outside
<1> QED BY <1>3, <1>4

LEMMA ResolveKeeps == AssetInv /\ Resolve => AssetInv'
<1> SUFFICES ASSUME AssetInv, Resolve PROVE AssetInv' OBVIOUS
<1>1. job.pc = "resolve" BY DEF Resolve, On
<1>2. CASE Fails BY <1>1, <1>2, FailsKeeps
<1>3. ASSUME NEW tag, ReleaseAt(tag) # NoRelease, Keeps(clone),
             job' = [job EXCEPT !.pc = "fetch", !.rel = ReleaseAt(tag)]
      PROVE  AssetInv'
  <2>1. /\ UNCHANGED <<public, host, alts, vendor, version, source, releases, bundle, dropin>>
        /\ synced' = synced /\ stopped' = stopped
    BY <1>3 DEF Keeps, clone, outside
  <2>2. ReleaseAt(tag) \in Released /\ ~ ReleaseAt(tag).draft /\ ReleaseAt(tag) \in Releases
    BY <1>3, ReleaseAtIs, ReleasesAre DEF AssetInv
  <2>3. job \in Jobs /\ job.i = 1 BY <1>1 DEF AssetInv, AssetTypes, ReleaseInv
  <2>4. job' \in Jobs /\ job'.pc = "fetch" /\ job'.i = 1 /\ job'.rel \in Released /\ ~ job'.rel.draft
    BY <1>3, <2>2, <2>3 DEF Jobs, Scripts
  <2>5. synced = None BY <1>1, NoResult DEF AssetInv
  <2>6. AssetTypes' BY <2>1, <2>4 DEF AssetInv, AssetTypes
  <2>7. Released' = Released BY <2>1, SameReleases
  <2>8. ReleaseInv' BY <2>4, <2>7 DEF ReleaseInv
  <2>9. CheckoutInv' BY <2>4 DEF CheckoutInv
  <2>10. RecordInv' BY <2>1, <2>4, <2>5 DEF RecordInv, Late
  <2>11. WholeInv' /\ SameInv' BY <1>1, <2>1, <2>4, ServedStays DEF outside
  <2> QED BY <2>6, <2>8, <2>9, <2>10, <2>11 DEF AssetInv
<1> QED BY <1>2, <1>3 DEF Resolve

LEMMA FetchKeeps == AssetInv /\ Fetch => AssetInv'
<1> SUFFICES ASSUME AssetInv, Fetch PROVE AssetInv' OBVIOUS
<1> DEFINE a == ReleaseAssets[job.i]
<1>1. /\ job.pc = "fetch" /\ job.i <= 4 /\ Advance
      /\ Has(job.rel, a) \/ a \in Optional
      /\ public' = IF Has(job.rel, a) THEN public ELSE [public EXCEPT ![a] = None]
  BY AssetLists DEF Fetch, On, Fetched
<1>2. /\ UNCHANGED <<host, alts, vendor, version, source, releases, bundle, dropin>>
      /\ synced' = synced /\ stopped' = stopped
  BY DEF Fetch, Keeps, outside
<1>3. job \in Jobs /\ job.rel \in Released /\ ~ job.rel.draft /\ job.i \in 1 .. 4 /\ public \in [Assets -> Files]
  BY <1>1 DEF AssetInv, AssetTypes, ReleaseInv, Jobs
<1>4. /\ job' \in Jobs /\ job'.pc = "fetch" /\ job'.i = job.i + 1 /\ job'.rel = job.rel
  BY <1>1, <1>3, AdvanceIs
<1>5. synced = None BY <1>1, NoResult DEF AssetInv
<1>6. a \in Assets BY <1>3, AssetLists
<1>7. /\ public' \in [Assets -> Files]
      /\ \A b \in Assets : public'[b] = public[b] \/ public'[b] = None
      /\ Has(job.rel, a) \/ (a \in Optional /\ public'[a] = None)
  BY <1>1, <1>3, <1>6 DEF Files
<1> HIDE DEF a
<1>8. AssetTypes' BY <1>2, <1>4, <1>7 DEF AssetInv, AssetTypes
<1>9. Released' = Released BY <1>2, SameReleases
<1>10. ReleaseInv'
  <2>1. ASSUME NEW j \in 1 .. 4, j < job'.i PROVE Gone(ReleaseAssets[j])'
    <3>1. CASE j = job.i BY <1>4, <1>7, <3>1 DEF Gone, Has, a
    <3>2. CASE j # job.i
      <4>1. j < job.i BY <1>3, <1>4, <2>1, <3>2
      <4>2. Gone(ReleaseAssets[j]) BY <1>1, <4>1 DEF AssetInv, ReleaseInv
      <4>3. ReleaseAssets[j] \in Assets BY AssetLists
      <4> QED BY <1>4, <1>7, <4>2, <4>3 DEF Gone, Has
    <3> QED BY <3>1, <3>2
  <2> QED BY <1>3, <1>4, <1>9, <2>1 DEF ReleaseInv
<1>11. CheckoutInv' BY <1>4 DEF CheckoutInv
<1>12. RecordInv' BY <1>2, <1>4, <1>5 DEF RecordInv, Late
<1>13. Core \subseteq Assets /\ "store" \in Assets BY AssetLists
<1>14. (CoreSame => CoreSame') /\ (StoreRecorded => StoreRecorded')
  BY <1>2, <1>7, <1>13 DEF CoreSame, StoreRecorded
<1>15. WholeInv' BY <1>1, <1>2, <1>4, <1>9, <1>14 DEF AssetInv, WholeInv, Attributable
<1>16. SameInv' BY <1>1, <1>2, <1>4, <1>9, <1>14 DEF AssetInv, SameInv, Even
<1> QED BY <1>8, <1>10, <1>11, <1>12, <1>15, <1>16 DEF AssetInv

LEMMA FetchFailsKeeps == AssetInv /\ FetchFails => AssetInv'
BY FailsKeeps DEF FetchFails, On

LEMMA VerifiedKeeps == AssetInv /\ Verified => AssetInv'
<1> SUFFICES ASSUME AssetInv, Verified PROVE AssetInv' OBVIOUS
<1>1. job.pc = "fetch" /\ job.i > 4 /\ Go("install") BY AssetLists DEF Verified, On
<1>2. /\ UNCHANGED <<public, host, alts, vendor, version, source, releases, bundle, dropin>>
      /\ synced' = synced /\ stopped' = stopped
  BY DEF Verified, Keeps, clone, outside
<1>3. job \in Jobs /\ job.rel \in Released /\ ~ job.rel.draft /\ job.i \in 1 .. 5
  BY <1>1 DEF AssetInv, AssetTypes, ReleaseInv, Jobs
<1>4. job' \in Jobs /\ job'.pc = "install" /\ job'.i = 1 /\ job'.rel = job.rel
  BY <1>1, <1>3, GoIs DEF Scripts
<1>5. synced = None BY <1>1, NoResult DEF AssetInv
<1>6. AssetTypes' BY <1>2, <1>4 DEF AssetInv, AssetTypes
<1>7. Released' = Released BY <1>2, SameReleases
<1>8. ReleaseInv'
  <2>1. ASSUME NEW b \in Assets PROVE Gone(b)'
    <3>1. PICK j \in 1 .. 4 : ReleaseAssets[j] = b BY AssetLists
    <3>2. j < job.i BY <1>1, <1>3
    <3>3. Gone(b) BY <1>1, <3>1, <3>2 DEF AssetInv, ReleaseInv
    <3> QED BY <1>2, <1>4, <3>3 DEF Gone, Has
  <2> QED BY <1>3, <1>4, <1>7, <2>1 DEF ReleaseInv
<1>9. CheckoutInv' BY <1>4 DEF CheckoutInv
<1>10. RecordInv' BY <1>2, <1>4, <1>5 DEF RecordInv, Late
<1>11. WholeInv' /\ SameInv' BY <1>1, <1>2, <1>4, ServedStays DEF outside
<1> QED BY <1>6, <1>8, <1>9, <1>10, <1>11 DEF AssetInv

LEMMA InstallKeeps == AssetInv /\ Install => AssetInv'
<1> SUFFICES ASSUME AssetInv, Install PROVE AssetInv' OBVIOUS
<1>1. job.pc = "install" /\ UNCHANGED <<host, alts, vendor, version, source, releases, bundle, dropin>>
      /\ synced' = synced /\ stopped' = stopped
  BY DEF Install, On, Keeps, outside
<1>2. job \in Jobs /\ job.rel \in Released /\ ~ job.rel.draft /\ job.i \in 1 .. 5 /\ public \in [Assets -> Files]
  BY <1>1 DEF AssetInv, AssetTypes, ReleaseInv, Jobs
<1>3. synced = None BY <1>1, NoResult DEF AssetInv
<1>4. Released' = Released BY <1>1, SameReleases
<1>5. job.rel \in Releases BY <1>2, ReleasesAre DEF AssetInv
<1>6. \A b \in Assets : Gone(b) BY <1>1 DEF AssetInv, ReleaseInv
<1>7. CASE job.i > 4 /\ Go("record") /\ UNCHANGED public
  <2>1. job' \in Jobs /\ job'.pc = "record" /\ job'.i = 1 /\ job'.rel = job.rel
    BY <1>2, <1>7, GoIs DEF Scripts
  <2>2. AssetTypes' BY <1>1, <1>7, <2>1 DEF AssetInv, AssetTypes
  <2>3. \A b \in Assets : Placed(b)
    <3>1. SUFFICES ASSUME NEW b \in Assets PROVE Placed(b) OBVIOUS
    <3>2. PICK j \in 1 .. 4 : ReleaseAssets[j] = b BY AssetLists
    <3>3. j < job.i BY <1>2, <1>7
    <3> QED BY <1>1, <3>2, <3>3 DEF AssetInv, ReleaseInv
  <2>4. ReleaseInv' BY <1>2, <1>4, <1>6, <1>7, <2>1, <2>3 DEF ReleaseInv, Gone, Placed, Has
  <2>5. CheckoutInv' BY <2>1 DEF CheckoutInv
  <2>6. RecordInv' BY <1>1, <1>3, <2>1 DEF RecordInv, Late
  <2>7. Core \subseteq Assets BY AssetLists
  <2>8. CoreSame' = CoreSame BY <1>7 DEF CoreSame
  <2>9. WholeInv' BY <1>1, <1>4, <2>1 DEF AssetInv, WholeInv, Attributable
  <2>10. SameInv' BY <1>1, <1>2, <1>4, <1>7, <2>1, <2>8 DEF AssetInv, SameInv, Even
  <2> QED BY <2>2, <2>4, <2>5, <2>6, <2>9, <2>10 DEF AssetInv
<1>8. CASE job.i <= 4 /\ Advance /\ public' = Installed(ReleaseAssets[job.i])
  <2> DEFINE a == ReleaseAssets[job.i]
  <2>1. job' \in Jobs /\ job'.pc = "install" /\ job'.i = job.i + 1 /\ job'.rel = job.rel
    BY <1>1, <1>2, <1>8, AdvanceIs
  <2>2. a \in Assets BY <1>2, <1>8, AssetLists
  <2>3. \A b \in Assets : job.rel.files[b] \in Files BY <1>5 DEF Releases
  <2>4. /\ public' \in [Assets -> Files]
        /\ Has(job.rel, a) => public'[a] = job.rel.files[a]
        /\ \A b \in Assets : public'[b] = public[b] \/ (b = a /\ Has(job.rel, a))
    BY <1>2, <1>8, <2>2, <2>3 DEF Installed
  <2> HIDE DEF a
  <2>5. AssetTypes' BY <1>1, <2>1, <2>4 DEF AssetInv, AssetTypes
  <2>6. ASSUME NEW b \in Assets PROVE Gone(b)'
    <3>1. Gone(b) BY <1>6
    <3> QED BY <2>1, <2>4, <3>1 DEF Gone, Has
  <2>7. ASSUME NEW j \in 1 .. 4, j < job'.i PROVE Placed(ReleaseAssets[j])'
    <3>1. CASE ReleaseAssets[j] = a BY <2>1, <2>4, <3>1 DEF Placed, Has
    <3>2. CASE ReleaseAssets[j] # a
      <4>1. j < job.i BY <1>2, <2>1, <2>7, <3>2 DEF a
      <4>2. Placed(ReleaseAssets[j]) BY <1>1, <4>1 DEF AssetInv, ReleaseInv
      <4>3. ReleaseAssets[j] \in Assets BY AssetLists
      <4> QED BY <2>1, <2>4, <3>2, <4>2, <4>3 DEF Placed, Has
    <3> QED BY <3>1, <3>2
  <2>8. ReleaseInv' BY <1>2, <1>4, <2>1, <2>6, <2>7 DEF ReleaseInv
  <2>9. CheckoutInv' BY <2>1 DEF CheckoutInv
  <2>10. RecordInv' BY <1>1, <1>3, <2>1 DEF RecordInv, Late
  <2>11. WholeInv'
    <3>1. job.i <= 3 => a # "store" BY <1>2, <1>8 DEF a, ReleaseAssets
    <3>2. job.i <= 3 => StoreRecorded' = StoreRecorded
      BY <1>1, <2>4, <3>1, AssetLists DEF StoreRecorded
    <3>3. job'.i > 4 \/ job.i <= 3 BY <1>2, <1>8, <2>1
    <3> QED BY <1>1, <1>2, <1>4, <1>8, <2>1, <3>2, <3>3 DEF AssetInv, WholeInv, Attributable
  <2>12. Even(job.rel) /\ job'.i \in {4, 5} => CoreSame'
    <3> SUFFICES ASSUME Even(job.rel), job'.i \in {4, 5} PROVE CoreSame' OBVIOUS
    <3>1. ASSUME NEW b \in Core PROVE public'[b] = job.rel.files[b]
      <4>1. PICK j \in 1 .. 3 : AssetFiles[j] = b BY AssetLists
      <4>2. ReleaseAssets[j] = b BY <4>1 DEF AssetFiles, ReleaseAssets
      <4>3. j \in 1 .. 4 /\ j < job'.i BY <4>1
      <4>4. Placed(b)' BY <2>7, <4>2, <4>3
      <4>5. Gone(b)' /\ job'.rel = job.rel BY <2>1, <2>6, AssetLists
      <4> QED BY <4>4, <4>5 DEF Placed, Gone, Has
    <3> QED BY <3>1 DEF Even, CoreSame
  <2>13. job'.i \in {2, 3} \/ job'.i \in {4, 5} BY <1>2, <1>8, <2>1
  <2>14. SameInv'
    <3>1. "copy" \notin stopped => \A b \in Released : Even(b) BY DEF AssetInv, SameInv
    <3>2. "copy" \notin stopped => Even(job.rel) BY <1>2, <3>1
    <3>3. \A b \in Released : Even(b)' <=> Even(b) BY DEF Even
    <3> QED BY <1>1, <1>4, <2>1, <2>12, <2>13, <3>1, <3>2, <3>3 DEF AssetInv, SameInv
  <2> QED BY <2>5, <2>8, <2>9, <2>10, <2>11, <2>14 DEF AssetInv
<1> QED BY <1>2, <1>7, <1>8, AssetLists DEF Install

LEMMA RecordBlocksKeeps == AssetInv /\ RecordBlocks => AssetInv'
<1> SUFFICES ASSUME AssetInv, RecordBlocks PROVE AssetInv' OBVIOUS
<1>1. job.pc = "record" /\ Go("version")
      /\ source' = [source EXCEPT !.assets = Build(job.rel.tag, FALSE), !.store = job.rel.store]
      /\ UNCHANGED <<public, host, alts, vendor, version, releases, bundle, dropin>>
      /\ synced' = synced /\ stopped' = stopped
  BY DEF RecordBlocks, On, Keeps, outside
<1>2. job \in Jobs /\ job.rel \in Released /\ ~ job.rel.draft /\ public \in [Assets -> Files]
      /\ source \in [vendor : Builds, store : Files, assets : Builds]
  BY <1>1 DEF AssetInv, AssetTypes, ReleaseInv
<1>3. job' \in Jobs /\ job'.pc = "version" /\ job'.i = 1 /\ job'.rel = job.rel
  BY <1>1, <1>2, GoIs DEF Scripts
<1>4. synced = None BY <1>1, NoResult DEF AssetInv
<1>5. Released' = Released BY <1>1, SameReleases
<1>6. job.rel \in Releases BY <1>2, ReleasesAre DEF AssetInv
<1>7. /\ Build(job.rel.tag, FALSE) \in Builds /\ job.rel.store \in Files
  BY <1>6 DEF Build, Builds, Releases
<1>8. /\ source' \in [vendor : Builds, store : Files, assets : Builds]
      /\ source'.assets = Build(job.rel.tag, FALSE) /\ source'.store = job.rel.store
  BY <1>1, <1>2, <1>7
<1>9. AssetTypes' BY <1>1, <1>3, <1>8 DEF AssetInv, AssetTypes
<1>10. ReleaseInv' BY <1>2, <1>3, <1>5 DEF ReleaseInv
<1>11. CheckoutInv' BY <1>3 DEF CheckoutInv
<1>12. \A b \in Assets : Gone(b) /\ Placed(b) BY <1>1 DEF AssetInv, ReleaseInv
<1>13. CoreRecorded'
  <2>1. ASSUME NEW b \in Core PROVE public'[b] = job.rel.files[b]
    <3>1. b \in Assets BY AssetLists
    <3> QED BY <1>1, <1>12, <3>1 DEF Gone, Placed, Has
  <2>2. source'.assets.of = job.rel.tag BY <1>8 DEF Build
  <2> QED BY <1>2, <1>5, <2>1, <2>2 DEF CoreRecorded
<1>14. RecordInv' BY <1>1, <1>3, <1>4, <1>5, <1>13 DEF RecordInv, Late
<1>15. (\A r \in Released : Attributable(r)) => StoreRecorded'
  <2> SUFFICES ASSUME Attributable(job.rel), public["store"] # None
               PROVE  source'.store = public["store"]
    BY <1>1, <1>2 DEF StoreRecorded
  <2>1. "store" \in Assets BY AssetLists
  <2>2. Has(job.rel, "store") BY <1>12, <2>1 DEF Gone
  <2>3. public["store"] = job.rel.files["store"] BY <1>12, <2>1, <2>2 DEF Placed
  <2> QED BY <1>8, <2>3 DEF Attributable
<1>16. WholeInv' BY <1>1, <1>3, <1>5, <1>15 DEF AssetInv, WholeInv, Attributable
<1>17. SameInv' BY <1>1, <1>3, <1>5 DEF AssetInv, SameInv, Even, CoreSame
<1> QED BY <1>9, <1>10, <1>11, <1>14, <1>16, <1>17 DEF AssetInv

LEMMA RecordVersionKeeps == AssetInv /\ RecordVersion => AssetInv'
<1> SUFFICES ASSUME AssetInv, RecordVersion PROVE AssetInv' OBVIOUS
<1>1. job.pc = "version" /\ Go("host") /\ version' = Build(job.rel.tag, FALSE)
      /\ UNCHANGED <<public, host, alts, vendor, source, releases, bundle, dropin>>
      /\ synced' = synced /\ stopped' = stopped
  BY DEF RecordVersion, On, Keeps, outside
<1>2. job \in Jobs /\ job.rel \in Releases
  BY DEF AssetInv, AssetTypes, Jobs
<1>3. job' \in Jobs /\ job'.pc = "host" /\ job'.i = 1
  BY <1>1, <1>2, GoIs DEF Scripts
<1>4. synced = None BY <1>1, NoResult DEF AssetInv
<1>5. version' \in Builds BY <1>1, <1>2 DEF Build, Builds, Releases
<1>6. AssetTypes' BY <1>1, <1>3, <1>5 DEF AssetInv, AssetTypes
<1>7. Released' = Released BY <1>1, SameReleases
<1>8. ReleaseInv' /\ CheckoutInv' BY <1>3 DEF ReleaseInv, CheckoutInv
<1>9. CoreRecorded' = CoreRecorded BY <1>1, SameServed
<1>10. RecordInv' BY <1>1, <1>3, <1>4, <1>7, <1>9 DEF AssetInv, RecordInv, Late
<1>11. WholeInv' /\ SameInv' BY <1>1, <1>3, ServedStays DEF outside
<1> QED BY <1>6, <1>8, <1>10, <1>11 DEF AssetInv

\* The vendored half of a checkout's sync: nothing that is served is written.
LEMMA VendorKeeps == AssetInv /\ (VendorJs \/ VendorVersion \/ VendorRecord) => AssetInv'
<1> SUFFICES ASSUME AssetInv, VendorJs \/ VendorVersion \/ VendorRecord PROVE AssetInv' OBVIOUS
<1>1. /\ job.pc \in {"vendor", "vendor version", "vendor record"}
      /\ Exit \/ \E pc \in {"vendor version", "vendor record", "assets"} : Go(pc)
      /\ vendor' \in {vendor, job.from} /\ version' \in {version, job.from}
      /\ source' = source \/ source' = [source EXCEPT !.vendor = job.from]
      /\ UNCHANGED <<public, host, alts, releases, bundle, dropin>>
      /\ synced' = synced /\ stopped' = stopped
  BY DEF VendorJs, VendorVersion, VendorRecord, On, Keeps, outside
<1>2. job \in Jobs /\ job.from \in Builds /\ source \in [vendor : Builds, store : Files, assets : Builds]
  BY <1>1 DEF AssetInv, AssetTypes, CheckoutInv
<1>3. /\ job' \in Jobs /\ job'.i = 1
      /\ \/ job'.pc = "idle"
         \/ job'.pc \in {"vendor version", "vendor record", "assets"} /\ job'.from = job.from
  <2>1. CASE Exit BY <2>1, IdleIs DEF Exit
  <2>2. ASSUME NEW pc \in {"vendor version", "vendor record", "assets"}, Go(pc)
        PROVE  job' \in Jobs /\ job'.pc = pc /\ job'.i = 1 /\ job'.from = job.from
    <3>1. pc \in Scripts BY <2>2 DEF Scripts
    <3> QED BY <1>2, <2>2, <3>1, GoIs
  <2> QED BY <1>1, <2>1, <2>2
<1>4. synced = None BY <1>1, NoResult DEF AssetInv
<1>5. /\ source' \in [vendor : Builds, store : Files, assets : Builds]
      /\ source'.store = source.store
  BY <1>1, <1>2
<1>6. vendor' \in Builds /\ version' \in Builds BY <1>1, <1>2 DEF AssetInv, AssetTypes
<1>7. AssetTypes' BY <1>1, <1>3, <1>5, <1>6 DEF AssetInv, AssetTypes
<1>8. ReleaseInv' BY <1>3 DEF ReleaseInv
<1>9. CheckoutInv'
  <2>1. CASE job'.pc = "idle" BY <2>1 DEF CheckoutInv
  <2>2. CASE job'.pc \in {"vendor version", "vendor record", "assets"} /\ job'.from = job.from
    <3>1. job'.i = 1 BY <1>3
    <3>2. \A j \in 1 .. 3 : ~ (j < job'.i) BY <3>1
    <3> QED BY <1>2, <2>2, <3>2 DEF CheckoutInv
  <2> QED BY <1>3, <2>1, <2>2
<1>10. RecordInv' BY <1>1, <1>3, <1>4 DEF RecordInv, Late
<1>11. WholeInv' /\ SameInv' BY <1>1, <1>3, <1>5, ServedStays DEF outside
<1> QED BY <1>7, <1>8, <1>9, <1>10, <1>11 DEF AssetInv

LEMMA AssetsMissingKeeps == AssetInv /\ AssetsMissing => AssetInv'
BY FailsKeeps DEF AssetsMissing, On

LEMMA CopyAssetsKeeps == AssetInv /\ CopyAssets => AssetInv'
<1> SUFFICES ASSUME AssetInv, CopyAssets PROVE AssetInv' OBVIOUS
<1>1. job.pc = "assets" /\ UNCHANGED <<host, alts, vendor, version, source, releases, bundle, dropin>>
      /\ synced' = synced /\ stopped' = stopped
  BY DEF CopyAssets, On, Keeps, outside
<1>2. job \in Jobs /\ job.from \in Builds /\ job.i \in 1 .. 5 /\ public \in [Assets -> Files]
  BY <1>1 DEF AssetInv, AssetTypes, CheckoutInv, Jobs
<1>3. synced = None BY <1>1, NoResult DEF AssetInv
<1>4. Released' = Released BY <1>1, SameReleases
<1>5. \A j \in 1 .. 3 : j < job.i => public[AssetFiles[j]] = job.from
  BY <1>1 DEF AssetInv, CheckoutInv
<1>6. CASE job.i > 3 /\ Go("assets record") /\ UNCHANGED public
  <2>1. job' \in Jobs /\ job'.pc = "assets record" /\ job'.i = 1 /\ job'.from = job.from
    BY <1>2, <1>6, GoIs DEF Scripts
  <2>2. AssetTypes' BY <1>1, <1>6, <2>1 DEF AssetInv, AssetTypes
  <2>3. \A b \in Core : public[b] = job.from
    <3>1. SUFFICES ASSUME NEW b \in Core PROVE public[b] = job.from OBVIOUS
    <3>2. PICK j \in 1 .. 3 : AssetFiles[j] = b BY AssetLists
    <3>3. job.i \in 1 .. 5 /\ job.i > 3 BY <1>2, <1>6
    <3>4. j < job.i BY <3>3
    <3> QED BY <1>5, <3>2, <3>4
  <2>4. CoreSame BY <2>3 DEF CoreSame
  <2>5. ReleaseInv' BY <2>1 DEF ReleaseInv
  <2>6. CheckoutInv' BY <1>2, <1>6, <2>1, <2>3 DEF CheckoutInv
  <2>7. RecordInv' BY <1>1, <1>3, <2>1 DEF RecordInv, Late
  <2>8. CoreSame' = CoreSame /\ StoreRecorded' = StoreRecorded BY <1>1, <1>6, SameServed
  <2>9. WholeInv' BY <1>1, <1>4, <2>1, <2>8 DEF AssetInv, WholeInv, Attributable
  <2>10. SameInv' BY <1>1, <1>4, <2>1, <2>4, <2>8 DEF AssetInv, SameInv, Even
  <2> QED BY <2>2, <2>5, <2>6, <2>7, <2>9, <2>10 DEF AssetInv
<1>7. CASE job.i <= 3 /\ Advance /\ public' = [public EXCEPT ![AssetFiles[job.i]] = job.from]
  <2> DEFINE a == AssetFiles[job.i]
  <2>1. job' \in Jobs /\ job'.pc = "assets" /\ job'.i = job.i + 1 /\ job'.from = job.from
    BY <1>1, <1>2, <1>7, AdvanceIs
  <2>2. a \in Core /\ Core \subseteq Assets /\ "store" \notin Core /\ "store" \in Assets
    BY <1>2, <1>7, AssetLists
  <2>3. /\ public' \in [Assets -> Files] /\ public'[a] = job.from
        /\ \A b \in Assets : b # a => public'[b] = public[b]
    BY <1>2, <1>7, <2>2 DEF Files
  <2> HIDE DEF a
  <2>4. AssetTypes' BY <1>1, <2>1, <2>3 DEF AssetInv, AssetTypes
  <2>5. ASSUME NEW j \in 1 .. 3, j < job'.i PROVE public'[AssetFiles[j]] = job.from
    <3>1. CASE AssetFiles[j] = a BY <2>3, <3>1
    <3>2. CASE AssetFiles[j] # a
      <4>1. j < job.i BY <1>2, <2>1, <2>5, <3>2 DEF a
      <4>2. AssetFiles[j] \in Assets BY AssetLists
      <4> QED BY <1>5, <2>3, <3>2, <4>1, <4>2
    <3> QED BY <3>1, <3>2
  <2>6. ReleaseInv' BY <2>1 DEF ReleaseInv
  <2>7. CheckoutInv' BY <1>2, <2>1, <2>5 DEF CheckoutInv
  <2>8. RecordInv' BY <1>1, <1>3, <2>1 DEF RecordInv, Late
  <2>9. StoreRecorded' = StoreRecorded BY <1>1, <2>2, <2>3 DEF StoreRecorded
  <2>10. WholeInv' BY <1>1, <1>4, <2>1, <2>9 DEF AssetInv, WholeInv, Attributable
  <2>11. job'.i \in {2, 3} \/ (job'.i = 4 /\ CoreSame')
    <3>1. SUFFICES ASSUME job'.i = 4 PROVE CoreSame' BY <1>2, <1>7, <2>1
    <3>2. ASSUME NEW b \in Core PROVE public'[b] = job.from
      <4>1. PICK j \in 1 .. 3 : AssetFiles[j] = b BY AssetLists
      <4>2. j < job'.i BY <3>1
      <4> QED BY <2>5, <4>1, <4>2
    <3> QED BY <3>2 DEF CoreSame
  <2>12. SameInv' BY <1>1, <1>4, <2>1, <2>11 DEF AssetInv, SameInv, Even
  <2> QED BY <2>4, <2>6, <2>7, <2>8, <2>10, <2>12 DEF AssetInv
<1>8. Len(AssetFiles) = 3 BY AssetLists
<1>9. job.i > 3 \/ job.i <= 3 BY <1>2
<1> QED BY <1>6, <1>7, <1>8, <1>9 DEF CopyAssets

LEMMA RecordAssetsKeeps == AssetInv /\ RecordAssets => AssetInv'
<1> SUFFICES ASSUME AssetInv, RecordAssets PROVE AssetInv' OBVIOUS
<1>1. job.pc = "assets record" /\ Go("host") /\ source' = [source EXCEPT !.assets = job.from]
      /\ UNCHANGED <<public, host, alts, vendor, version, releases, bundle, dropin>>
      /\ synced' = synced /\ stopped' = stopped
  BY DEF RecordAssets, On, Keeps, outside
<1>2. job \in Jobs /\ job.from \in Builds /\ source \in [vendor : Builds, store : Files, assets : Builds]
  BY <1>1 DEF AssetInv, AssetTypes, CheckoutInv
<1>3. job' \in Jobs /\ job'.pc = "host" /\ job'.i = 1
  BY <1>1, <1>2, GoIs DEF Scripts
<1>4. synced = None BY <1>1, NoResult DEF AssetInv
<1>5. /\ source' \in [vendor : Builds, store : Files, assets : Builds]
      /\ source'.assets = job.from /\ source'.store = source.store
  BY <1>1, <1>2
<1>6. AssetTypes' BY <1>1, <1>3, <1>5 DEF AssetInv, AssetTypes
<1>7. Released' = Released BY <1>1, SameReleases
<1>8. ReleaseInv' /\ CheckoutInv' BY <1>3 DEF ReleaseInv, CheckoutInv
<1>9. \A b \in Core : public[b] = job.from BY <1>1 DEF AssetInv, CheckoutInv
<1>10. CoreRecorded' BY <1>1, <1>5, <1>9 DEF CoreRecorded
<1>11. RecordInv' BY <1>1, <1>3, <1>4, <1>10 DEF RecordInv, Late
<1>12. WholeInv' /\ SameInv' BY <1>1, <1>3, <1>5, ServedStays DEF outside
<1> QED BY <1>6, <1>8, <1>11, <1>12 DEF AssetInv

LEMMA SyncHostRuntimeKeeps == AssetInv /\ SyncHostRuntime => AssetInv'
<1> SUFFICES ASSUME AssetInv, SyncHostRuntime PROVE AssetInv' OBVIOUS
<1>1. job.pc = "host" /\ (Go("alternates") \/ Go("store")) /\ host' = vendor
      /\ UNCHANGED <<public, alts, vendor, version, source, releases, bundle, dropin>>
      /\ synced' = synced /\ stopped' = stopped
  BY DEF SyncHostRuntime, On, Keeps, outside
<1>2. job \in Jobs /\ vendor \in Builds BY DEF AssetInv, AssetTypes
<1>3. job' \in Jobs /\ job'.pc \in {"alternates", "store"} /\ job'.i = 1
  BY <1>1, <1>2, GoIs DEF Scripts
<1>4. synced = None BY <1>1, NoResult DEF AssetInv
<1>5. AssetTypes' BY <1>1, <1>2, <1>3 DEF AssetInv, AssetTypes, Files
<1>6. Released' = Released BY <1>1, SameReleases
<1>7. ReleaseInv' /\ CheckoutInv' BY <1>3 DEF ReleaseInv, CheckoutInv
<1>8. CoreRecorded' = CoreRecorded BY <1>1, SameServed
<1>9. RecordInv' BY <1>1, <1>3, <1>4, <1>6, <1>8 DEF AssetInv, RecordInv, Late
<1>10. WholeInv' /\ SameInv' BY <1>1, <1>3, ServedStays DEF outside
<1> QED BY <1>5, <1>7, <1>9, <1>10 DEF AssetInv

LEMMA SyncStoreBundleKeeps == AssetInv /\ SyncStoreBundle => AssetInv'
<1> SUFFICES ASSUME AssetInv, SyncStoreBundle PROVE AssetInv' OBVIOUS
<1>1. job.pc = "store" /\ UNCHANGED <<host, alts, vendor, version, source, releases, bundle, dropin>>
      /\ synced' = synced /\ stopped' = stopped
  BY DEF SyncStoreBundle, On, Keeps, outside
<1>2. job \in Jobs /\ public \in [Assets -> Files] BY DEF AssetInv, AssetTypes
<1>3. synced = None BY <1>1, NoResult DEF AssetInv
<1>4. Released' = Released BY <1>1, SameReleases
<1>5. CASE Go("alternates") /\ UNCHANGED public
  <2>1. job' \in Jobs /\ job'.pc = "alternates" /\ job'.i = 1
    BY <1>2, <1>5, GoIs DEF Scripts
  <2>2. AssetTypes' BY <1>1, <1>5, <2>1 DEF AssetInv, AssetTypes
  <2>3. ReleaseInv' /\ CheckoutInv' BY <2>1 DEF ReleaseInv, CheckoutInv
  <2>4. CoreRecorded' = CoreRecorded BY <1>1, <1>5, SameServed
  <2>5. RecordInv' BY <1>1, <1>3, <1>4, <2>1, <2>4 DEF AssetInv, RecordInv, Late
  <2>6. WholeInv' /\ SameInv' BY <1>1, <1>5, <2>1, ServedStays DEF outside
  <2> QED BY <2>2, <2>3, <2>5, <2>6 DEF AssetInv
<1>6. ASSUME NEW pgx \in Trees, job' = [job EXCEPT !.pc = "store record", !.from = pgx],
             public' = [public EXCEPT !["store"] = pgx]
      PROVE  AssetInv'
  <2>1. pgx \in Files BY DEF Trees, Build, Builds, Files
  <2>2. job' \in Jobs /\ job'.pc = "store record" /\ job'.from = pgx
    BY <1>2, <1>6, <2>1 DEF Jobs, Scripts
  <2>3. /\ public' \in [Assets -> Files] /\ public'["store"] = pgx
        /\ \A b \in Core : public'[b] = public[b]
    BY <1>2, <1>6, <2>1, AssetLists
  <2>4. AssetTypes' BY <1>1, <2>2, <2>3 DEF AssetInv, AssetTypes
  <2>5. ReleaseInv' /\ CheckoutInv' BY <2>2, <2>3 DEF ReleaseInv, CheckoutInv
  <2>6. CoreSame' = CoreSame /\ CoreRecorded' = CoreRecorded
    BY <1>1, <1>4, <2>3 DEF CoreSame, CoreRecorded
  <2>7. RecordInv' BY <1>1, <1>3, <1>4, <2>2, <2>6 DEF AssetInv, RecordInv, Late
  <2>8. WholeInv' BY <1>1, <1>4, <2>2 DEF AssetInv, WholeInv, Attributable
  <2>9. SameInv' BY <1>1, <1>4, <2>2, <2>6 DEF AssetInv, SameInv, Even
  <2> QED BY <2>4, <2>5, <2>7, <2>8, <2>9 DEF AssetInv
<1> QED BY <1>5, <1>6 DEF SyncStoreBundle

LEMMA RecordStoreKeeps == AssetInv /\ RecordStore => AssetInv'
<1> SUFFICES ASSUME AssetInv, RecordStore PROVE AssetInv' OBVIOUS
<1>1. PICK rec \in {job.from, Unknown} : source' = [source EXCEPT !.store = rec]
  BY DEF RecordStore
<1>2. job.pc = "store record" /\ Go("alternates")
      /\ UNCHANGED <<public, host, alts, vendor, version, releases, bundle, dropin>>
      /\ synced' = synced /\ stopped' = stopped
  BY DEF RecordStore, On, Keeps, outside
<1>3. job \in Jobs /\ source \in [vendor : Builds, store : Files, assets : Builds]
      /\ public["store"] = job.from
  BY <1>2 DEF AssetInv, AssetTypes, CheckoutInv
<1>4. rec \in Files
  <2>1. job.from \in Files BY <1>3 DEF Jobs
  <2>2. Unknown \in Files BY DEF Unknown, Build, Builds, Files
  <2> QED BY <1>1, <2>1, <2>2
<1>5. /\ source' \in [vendor : Builds, store : Files, assets : Builds]
      /\ source'.store = rec /\ source'.assets = source.assets
  BY <1>1, <1>3, <1>4
<1>6. job' \in Jobs /\ job'.pc = "alternates" /\ job'.i = 1
  BY <1>2, <1>3, GoIs DEF Scripts
<1>7. synced = None BY <1>2, NoResult DEF AssetInv
<1>8. AssetTypes' BY <1>2, <1>5, <1>6 DEF AssetInv, AssetTypes
<1>9. Released' = Released BY <1>2, SameReleases
<1>10. ReleaseInv' /\ CheckoutInv' BY <1>6 DEF ReleaseInv, CheckoutInv
<1>11. CoreRecorded' = CoreRecorded /\ CoreSame' = CoreSame BY <1>2, <1>5, <1>9 DEF CoreRecorded, CoreSame
<1>12. StoreRecorded' BY <1>1, <1>2, <1>3, <1>5 DEF StoreRecorded, Unknown
<1>13. RecordInv' BY <1>2, <1>6, <1>7, <1>9, <1>11 DEF AssetInv, RecordInv, Late
<1>14. WholeInv' BY <1>2, <1>6, <1>9, <1>12 DEF AssetInv, WholeInv, Attributable
<1>15. SameInv' BY <1>2, <1>6, <1>9, <1>11 DEF AssetInv, SameInv, Even
<1> QED BY <1>8, <1>10, <1>13, <1>14, <1>15 DEF AssetInv

LEMMA DropAlternatesKeeps == AssetInv /\ DropAlternates => AssetInv'
<1> SUFFICES ASSUME AssetInv, DropAlternates PROVE AssetInv' OBVIOUS
<1>1. PICK asked \in SUBSET Commits :
         /\ alts' = [c \in Commits |-> IF c \in asked THEN alts[c] ELSE None]
         /\ job' = [Idle EXCEPT !.pc = "alternate", !.asked = asked, !.left = asked]
  BY DEF DropAlternates
<1>2. job.pc = "alternates"
      /\ UNCHANGED <<public, host, vendor, version, source, releases, bundle, dropin>>
      /\ synced' = synced /\ stopped' = stopped
  BY DEF DropAlternates, On, Keeps, outside
<1>3. /\ job' \in Jobs /\ job'.pc = "alternate" /\ job'.i = 1
      /\ job'.asked = asked /\ job'.left = asked
  BY <1>1, IdleIs DEF Jobs, Scripts
<1>4. synced = None BY <1>2, NoResult DEF AssetInv
<1>5. alts' \in [Commits -> Files] /\ \A c \in Commits : alts'[c] # None => c \in asked
  BY <1>1 DEF AssetInv, AssetTypes, Files
<1>6. AssetTypes' BY <1>2, <1>3, <1>5 DEF AssetInv, AssetTypes
<1>7. Released' = Released BY <1>2, SameReleases
<1>8. ReleaseInv' /\ CheckoutInv' BY <1>3 DEF ReleaseInv, CheckoutInv
<1>9. CoreRecorded' = CoreRecorded BY <1>2, SameServed
<1>10. RecordInv' BY <1>2, <1>3, <1>4, <1>5, <1>7, <1>9 DEF AssetInv, RecordInv, Late
<1>11. WholeInv' /\ SameInv' BY <1>2, <1>3, ServedStays DEF outside
<1> QED BY <1>6, <1>8, <1>10, <1>11 DEF AssetInv

LEMMA FetchAlternateKeeps == AssetInv /\ FetchAlternate => AssetInv'
<1> SUFFICES ASSUME AssetInv, FetchAlternate PROVE AssetInv' OBVIOUS
<1>1. job.pc = "alternate" BY DEF FetchAlternate, On
<1>2. CASE Fails BY <1>1, <1>2, FailsKeeps
<1>3. ASSUME NEW c \in job.left, Has(ReleaseAt(c), "threads"),
             alts' = [alts EXCEPT ![c] = ReleaseAt(c).files["threads"]],
             job' = [job EXCEPT !.left = @ \ {c}],
             Keeps(<<public, host, vendor, version, source>>)
      PROVE  AssetInv'
  <2>1. UNCHANGED <<public, host, vendor, version, source, releases, bundle, dropin>>
        /\ synced' = synced /\ stopped' = stopped
    BY <1>3 DEF Keeps, outside
  <2>2. job \in Jobs /\ alts \in [Commits -> Files] BY DEF AssetInv, AssetTypes
  <2>3. /\ job' \in Jobs /\ job'.pc = "alternate"
        /\ job'.asked = job.asked /\ job'.left = job.left \ {c}
    BY <1>1, <1>3, <2>2 DEF Jobs
  <2>4. ReleaseAt(c) \in Releases BY ReleaseAtIs, ReleasesAre, IdleIs DEF AssetInv
  <2>5. ReleaseAt(c).files["threads"] \in Files BY <2>4 DEF Releases, Assets
  <2>6. c \in Commits BY <2>2 DEF Jobs
  <2>7. /\ alts' \in [Commits -> Files] /\ alts'[c] # None
        /\ \A d \in Commits : d # c => alts'[d] = alts[d]
    BY <1>3, <2>2, <2>5, <2>6 DEF Has
  <2>8. synced = None BY <1>1, NoResult DEF AssetInv
  <2>9. AssetTypes' BY <2>1, <2>3, <2>7 DEF AssetInv, AssetTypes
  <2>10. Released' = Released BY <2>1, SameReleases
  <2>11. ReleaseInv' /\ CheckoutInv' BY <2>3 DEF ReleaseInv, CheckoutInv
  <2>12. CoreRecorded' = CoreRecorded BY <2>1, SameServed
  <2>13. /\ job.left \subseteq job.asked
         /\ \A d \in Commits : alts[d] # None => d \in job.asked
         /\ \A d \in job.asked \ job.left : alts[d] # None
         /\ job.asked \subseteq Commits
    BY <1>1, <2>2 DEF AssetInv, RecordInv, Jobs
  <2>14. /\ job'.left \subseteq job'.asked
         /\ \A d \in Commits : alts'[d] # None => d \in job'.asked
         /\ \A d \in job'.asked \ job'.left : alts'[d] # None
    BY <1>3, <2>3, <2>6, <2>7, <2>13
  <2>15. RecordInv' BY <1>1, <2>1, <2>3, <2>8, <2>10, <2>12, <2>14 DEF AssetInv, RecordInv, Late
  <2>16. WholeInv' /\ SameInv' BY <1>1, <2>1, <2>3, ServedStays DEF outside
  <2> QED BY <2>9, <2>11, <2>15, <2>16 DEF AssetInv
<1> QED BY <1>2, <1>3 DEF FetchAlternate

LEMMA SyncEndsKeeps == AssetInv /\ SyncEnds => AssetInv'
<1> SUFFICES ASSUME AssetInv, SyncEnds PROVE AssetInv' OBVIOUS
<1>1. /\ job.pc = "alternate" /\ job.left = {} /\ synced' = job.asked /\ job' = Idle
      /\ UNCHANGED <<public, host, alts, vendor, version, source, releases, bundle, dropin>>
      /\ stopped' = stopped
  BY DEF SyncEnds, On, Exit, clone, outside
<1>2. job' \in Jobs /\ job'.pc = "idle" BY <1>1, IdleIs
<1>3. AssetTypes' BY <1>1, <1>2 DEF AssetInv, AssetTypes
<1>4. Released' = Released BY <1>1, SameReleases
<1>5. ReleaseInv' /\ CheckoutInv' BY <1>2 DEF ReleaseInv, CheckoutInv
<1>6. CoreRecorded' = CoreRecorded BY <1>1, SameServed
<1>7. \A c \in Commits : alts'[c] # None <=> c \in synced'
  BY <1>1 DEF AssetInv, RecordInv
<1>8. RecordInv' BY <1>1, <1>2, <1>4, <1>6, <1>7 DEF AssetInv, RecordInv, Late
<1>9. WholeInv' /\ SameInv' BY <1>1, <1>2, ServedStays DEF outside
<1> QED BY <1>3, <1>5, <1>8, <1>9 DEF AssetInv

\* A bundle is packaged for a store that is on record, and on record is what is served.
LEMMA BundleKeeps == AssetInv /\ Bundle => AssetInv'
<1> SUFFICES ASSUME AssetInv, Bundle PROVE AssetInv' OBVIOUS
<1>1. /\ job.pc = "idle" /\ Complete
      /\ bundle' = [tag |-> version.of, draft |-> FALSE, files |-> public,
                    store |-> IF public["store"] = None THEN None ELSE source.store]
      /\ job' = [Idle EXCEPT !.pc = "publish"]
      /\ UNCHANGED <<public, host, alts, vendor, version, source, releases, dropin>>
      /\ synced' = synced /\ stopped' = stopped
  BY DEF Bundle, On, clone
<1>2. /\ public \in [Assets -> Files] /\ version \in Builds
      /\ source \in [vendor : Builds, store : Files, assets : Builds]
  BY DEF AssetInv, AssetTypes
<1>3. job' \in Jobs /\ job'.pc = "publish" /\ job'.i = 1
  BY <1>1, IdleIs DEF Jobs, Scripts
<1>4. /\ bundle' \in Releases
      /\ bundle'.files = public
      /\ bundle'.store = IF public["store"] = None THEN None ELSE source.store
  BY <1>1, <1>2 DEF Releases, Builds, Files
<1>5. AssetTypes' BY <1>1, <1>3, <1>4 DEF AssetInv, AssetTypes
<1>6. Released' = Released BY <1>1, SameReleases
<1>7. ReleaseInv' /\ CheckoutInv' BY <1>3 DEF ReleaseInv, CheckoutInv
<1>8. CoreSame' = CoreSame /\ CoreRecorded' = CoreRecorded /\ StoreRecorded' = StoreRecorded
  BY <1>1, SameServed
<1>9. RecordInv' BY <1>1, <1>3, <1>6, <1>8 DEF AssetInv, RecordInv, Late
<1>10. StoreRecorded => Attributable(bundle)'
  <2>1. CASE public["store"] = None BY <1>4, <2>1 DEF Attributable
  <2>2. CASE public["store"] # None
    <3>1. source.store # None /\ ~ source.store.dirty
      BY <1>1, <2>2 DEF Complete, StoreAttributed
    <3>2. Unknown.dirty = TRUE BY DEF Unknown, Build
    <3>3. StoreRecorded => source.store = public["store"]
      BY <2>2, <3>1, <3>2 DEF StoreRecorded
    <3> QED BY <1>4, <2>2, <3>1, <3>3 DEF Attributable
  <2> QED BY <2>1, <2>2
<1>11. WholeInv'
  <2>1. "record" \notin stopped => StoreRecorded /\ \A r \in Released : Attributable(r)
    BY <1>1 DEF AssetInv, WholeInv
  <2>2. "record" \notin stopped' => Attributable(bundle)' BY <1>1, <1>10, <2>1
  <2>3. \A r \in Released : Attributable(r)' <=> Attributable(r) BY DEF Attributable
  <2> QED BY <1>1, <1>3, <1>6, <1>8, <2>1, <2>2, <2>3 DEF WholeInv
<1>12. CoreSame => Even(bundle)' BY <1>4 DEF CoreSame, Even
<1>13. SameInv'
  <2>1. \A r \in Released : Even(r)' <=> Even(r) BY DEF Even
  <2> QED BY <1>1, <1>3, <1>6, <1>8, <1>12, <2>1 DEF AssetInv, SameInv
<1> QED BY <1>5, <1>7, <1>9, <1>11, <1>13 DEF AssetInv

LEMMA PublishKeeps == AssetInv /\ Publish => AssetInv'
<1> SUFFICES ASSUME AssetInv, Publish PROVE AssetInv' OBVIOUS
<1>1. /\ job.pc = "publish"
      /\ releases' = releases \/ releases' = Append(releases, bundle)
      /\ bundle' = NoRelease /\ job' = Idle
      /\ UNCHANGED <<public, host, alts, vendor, version, source, dropin>>
      /\ synced' = synced /\ stopped' = stopped
  BY DEF Publish, On, Exit, clone
<1>2. releases \in Seq(Releases) /\ bundle \in Releases BY DEF AssetInv, AssetTypes
<1>3. job' \in Jobs /\ job'.pc = "idle" /\ job'.i = 1 BY <1>1, IdleIs
<1>4. releases' \in Seq(Releases) BY <1>1, <1>2
<1>5. AssetTypes' BY <1>1, <1>3, <1>4, IdleIs DEF AssetInv, AssetTypes
<1>6. Released \subseteq Released' /\ Released' \subseteq Released \cup {bundle}
  <2>1. CASE releases' = releases BY <2>1 DEF Released
  <2>2. CASE releases' = Append(releases, bundle)
    <3>1. /\ DOMAIN releases = 1 .. Len(releases) /\ DOMAIN releases' = 1 .. (Len(releases) + 1)
          /\ Len(releases) \in Nat
          /\ \A i \in 1 .. Len(releases) : releases'[i] = releases[i]
          /\ releases'[Len(releases) + 1] = bundle
      BY <1>2, <2>2
    <3>2. \A i \in 1 .. (Len(releases) + 1) : i \in 1 .. Len(releases) \/ i = Len(releases) + 1
      BY <3>1
    <3>3. \A i \in 1 .. Len(releases) : i \in 1 .. (Len(releases) + 1) BY <3>1
    <3> QED BY <3>1, <3>2, <3>3 DEF Released
  <2> QED BY <1>1, <2>1, <2>2
<1>7. CoreRecorded => CoreRecorded' BY <1>1, <1>6 DEF CoreRecorded
<1>8. ReleaseInv' /\ CheckoutInv' BY <1>3 DEF ReleaseInv, CheckoutInv
<1>9. CoreSame' = CoreSame /\ StoreRecorded' = StoreRecorded
  BY <1>1 DEF CoreSame, StoreRecorded
<1>10. RecordInv' BY <1>1, <1>3, <1>7 DEF AssetInv, RecordInv, Late
<1>11. WholeInv'
  <2>1. "record" \notin stopped => StoreRecorded /\ Attributable(bundle) /\ \A r \in Released : Attributable(r)
    BY <1>1 DEF AssetInv, WholeInv
  <2>2. \A r \in Released' : "record" \notin stopped => Attributable(r) BY <1>6, <2>1
  <2> QED BY <1>1, <1>3, <1>9, <2>1, <2>2 DEF WholeInv, Attributable
<1>12. SameInv'
  <2>1. "copy" \notin stopped => Even(bundle) /\ \A r \in Released : Even(r)
    BY <1>1 DEF AssetInv, SameInv
  <2>2. \A r \in Released' : "copy" \notin stopped => Even(r) BY <1>6, <2>1
  <2>3. \A r \in Released' : Even(r)' <=> Even(r) BY DEF Even
  <2> QED BY <1>1, <1>3, <1>9, <2>2, <2>3 DEF AssetInv, SameInv
<1> QED BY <1>5, <1>8, <1>10, <1>11, <1>12 DEF AssetInv

\* Packaging writes the drop-in alone.
LEMMA PackageStays ==
    ASSUME AssetInv, job.pc \in {"idle", "package"}, job' \in Jobs, job'.pc \in {"idle", "package"},
           UNCHANGED <<clone, releases, bundle, synced, stopped>>,
           dropin' \in [threads : Files, image : Files, store : Files, host : Files],
           ("copy" \notin stopped /\ CoreSame) =>
              /\ dropin'.threads # None /\ dropin'.image # None => dropin'.threads = dropin'.image
              /\ job'.pc = "package" => /\ job'.i = 1 => dropin'.threads = None
                                        /\ job'.i <= 2 => dropin'.image = None
                                        /\ job'.i = 2 => dropin'.threads = public["threads"]
    PROVE  AssetInv'
<1>1. UNCHANGED <<public, host, alts, vendor, version, source, releases, bundle>>
      /\ synced' = synced /\ stopped' = stopped
  BY DEF clone
<1>2. AssetTypes' BY <1>1 DEF AssetInv, AssetTypes
<1>3. Released' = Released BY <1>1, SameReleases
<1>4. ReleaseInv' /\ CheckoutInv' BY DEF ReleaseInv, CheckoutInv
<1>5. CoreSame' = CoreSame /\ CoreRecorded' = CoreRecorded /\ StoreRecorded' = StoreRecorded
  BY <1>1, SameServed
<1>6. RecordInv' BY <1>1, <1>3, <1>5 DEF AssetInv, RecordInv, Late
<1>7. WholeInv'
  <2>1. "record" \notin stopped => StoreRecorded /\ \A r \in Released : Attributable(r)
    BY DEF AssetInv, WholeInv
  <2>2. \A r \in Released : Attributable(r)' <=> Attributable(r) BY DEF Attributable
  <2>3. job'.pc # "publish" OBVIOUS
  <2> QED BY <1>1, <1>3, <1>5, <2>1, <2>2, <2>3 DEF WholeInv
<1>8. "copy" \notin stopped => CoreSame BY DEF AssetInv, SameInv, Even
<1>9. SameInv'
  <2>1. "copy" \notin stopped => \A r \in Released : Even(r) BY DEF AssetInv, SameInv
  <2>2. \A r \in Released : Even(r)' <=> Even(r) BY DEF Even
  <2>3. job'.pc \notin {"publish", "install", "assets"} OBVIOUS
  <2> QED BY <1>1, <1>3, <1>5, <1>8, <2>1, <2>2, <2>3 DEF SameInv
<1> QED BY <1>2, <1>4, <1>6, <1>7, <1>9 DEF AssetInv

LEMMA PackageEngineKeeps == AssetInv /\ PackageEngine => AssetInv'
<1> SUFFICES ASSUME AssetInv, PackageEngine PROVE AssetInv' OBVIOUS
<1>1. /\ job.pc = "idle" /\ dropin' = EmptyDropIn /\ job' = [Idle EXCEPT !.pc = "package"]
      /\ UNCHANGED <<clone, releases, bundle, synced, stopped>>
  BY DEF PackageEngine, On
<1>2. job' \in Jobs /\ job'.pc = "package" /\ job'.i = 1 BY <1>1, IdleIs DEF Jobs, Scripts
<1>3. dropin'.threads = None /\ dropin'.image = None BY <1>1 DEF EmptyDropIn
<1>4. dropin' \in [threads : Files, image : Files, store : Files, host : Files] BY <1>1, IdleIs
<1>5. job'.i # 2 BY <1>2
<1> QED BY <1>1, <1>2, <1>3, <1>4, <1>5, PackageStays

LEMMA PackageCopyKeeps == AssetInv /\ PackageCopy => AssetInv'
<1> SUFFICES ASSUME AssetInv, PackageCopy PROVE AssetInv' OBVIOUS
<1>1. /\ Len(EngineAssets) = 3
      /\ EngineAssets[1] = "threads" /\ EngineAssets[2] = "image" /\ EngineAssets[3] = "store"
  BY DEF EngineAssets
<1>2. job.pc = "package" /\ UNCHANGED <<clone, releases, bundle, synced, stopped>>
  BY DEF PackageCopy, On
<1>3. /\ job \in Jobs /\ public \in [Assets -> Files] /\ host \in Files
      /\ dropin \in [threads : Files, image : Files, store : Files, host : Files]
  BY DEF AssetInv, AssetTypes
<1>4. /\ public["threads"] \in Files /\ public["image"] \in Files /\ public["store"] \in Files
  BY <1>3 DEF Assets
<1>5. job.i \in 1 .. 5 BY <1>3 DEF Jobs
<1>6. "copy" \notin stopped =>
         /\ dropin.threads # None /\ dropin.image # None => dropin.threads = dropin.image
         /\ job.i = 1 => dropin.threads = None
         /\ job.i <= 2 => dropin.image = None
         /\ job.i = 2 => dropin.threads = public["threads"]
  BY <1>2 DEF AssetInv, SameInv, Even
<1>7. CASE job.i > 3 /\ dropin' = [dropin EXCEPT !.host = host] /\ Exit
  <2>1. job' \in Jobs /\ job'.pc = "idle" BY <1>7, IdleIs DEF Exit
  <2>2. /\ dropin' \in [threads : Files, image : Files, store : Files, host : Files]
        /\ dropin'.threads = dropin.threads /\ dropin'.image = dropin.image
    BY <1>3, <1>7
  <2> QED BY <1>2, <1>6, <2>1, <2>2, PackageStays
<1>8. CASE job.i <= 3 /\ Advance
           /\ dropin' = [dropin EXCEPT ![EngineAssets[job.i]] = public[EngineAssets[job.i]]]
  <2>1. job.i <= 4 BY <1>5, <1>8
  <2>2. job' \in Jobs /\ job'.pc = "package" /\ job'.i = job.i + 1
    BY <1>2, <1>3, <1>8, <2>1, AdvanceIs
  <2>3. CASE job.i = 1
    <3>1. dropin' = [dropin EXCEPT !.threads = public["threads"]] BY <1>1, <1>8, <2>3
    <3>2. /\ dropin' \in [threads : Files, image : Files, store : Files, host : Files]
          /\ dropin'.threads = public["threads"] /\ dropin'.image = dropin.image
      BY <1>3, <1>4, <3>1
    <3>3. job'.i = 2 BY <2>2, <2>3
    <3>4. "copy" \notin stopped => dropin.image = None BY <1>6, <2>3
    <3> QED BY <1>2, <2>2, <3>2, <3>3, <3>4, PackageStays
  <2>4. CASE job.i = 2
    <3>1. dropin' = [dropin EXCEPT !.image = public["image"]] BY <1>1, <1>8, <2>4
    <3>2. /\ dropin' \in [threads : Files, image : Files, store : Files, host : Files]
          /\ dropin'.threads = dropin.threads /\ dropin'.image = public["image"]
      BY <1>3, <1>4, <3>1
    <3>3. job'.i = 3 BY <2>2, <2>4
    <3>4. "copy" \notin stopped => dropin.threads = public["threads"] BY <1>6, <2>4
    <3>5. CoreSame => (public["threads"] # None /\ public["image"] # None => public["threads"] = public["image"])
      BY DEF CoreSame, Core
    <3> QED BY <1>2, <2>2, <3>2, <3>3, <3>4, <3>5, PackageStays
  <2>5. CASE job.i = 3
    <3>1. dropin' = [dropin EXCEPT !.store = public["store"]] BY <1>1, <1>8, <2>5
    <3>2. /\ dropin' \in [threads : Files, image : Files, store : Files, host : Files]
          /\ dropin'.threads = dropin.threads /\ dropin'.image = dropin.image
      BY <1>3, <1>4, <3>1
    <3>3. job'.i = 4 BY <2>2, <2>5
    <3> QED BY <1>2, <1>6, <2>2, <3>2, <3>3, PackageStays
  <2>6. job.i = 1 \/ job.i = 2 \/ job.i = 3 BY <1>5, <1>8
  <2> QED BY <2>3, <2>4, <2>5, <2>6
<1>9. job.i > 3 \/ job.i <= 3 BY <1>5
<1> QED BY <1>1, <1>7, <1>8, <1>9 DEF PackageCopy

LEMMA ReleaseIs ==
    ASSUME NEW c \in Commits, NEW opt \in SUBSET Optional, NEW draft \in BOOLEAN
    PROVE  /\ Release(c, opt, draft) \in Releases
           /\ Attributable(Release(c, opt, draft)) /\ Even(Release(c, opt, draft))
<1> DEFINE r == Release(c, opt, draft)
<1>1. Build(c, FALSE) \in Files /\ None \in Files /\ Build(c, FALSE).dirty = FALSE
  BY DEF Build, Builds, Files
<1>2. /\ r.tag = c /\ r.draft = draft
      /\ r.files = [a \in Assets |-> IF a \in Optional \ opt THEN None ELSE Build(c, FALSE)]
      /\ r.store = IF "store" \in opt THEN Build(c, FALSE) ELSE None
      /\ r \in Releases
  BY <1>1 DEF Release, Releases
<1>3. "store" \in Assets /\ "store" \in Optional BY DEF Assets, Optional
<1>4. r.files["store"] = r.store BY <1>2, <1>3
<1>5. Even(r)
  <2>1. Core \subseteq Assets BY AssetLists
  <2> QED BY <1>2, <2>1 DEF Even
<1> QED BY <1>1, <1>2, <1>4, <1>5 DEF Attributable

\* What is true of a release as it is made.
Made(r) == Attributable(r) /\ Even(r)

LEMMA AssetInit == Init => AssetInv
<1> SUFFICES ASSUME Init PROVE AssetInv OBVIOUS
<1>1. /\ \E c \in Commits :
           /\ vendor = Build(c, FALSE) /\ version = Build(c, FALSE)
           /\ source = [vendor |-> Build(c, FALSE), store |-> Build(c, FALSE), assets |-> Build(c, FALSE)]
      /\ public = [a \in Assets |-> None] /\ host = None /\ alts = [c \in Commits |-> None]
      /\ bundle = NoRelease /\ dropin = EmptyDropIn
      /\ job = Idle /\ synced = None /\ stopped = {}
  BY DEF Init
<1>2. releases \in Seq(Releases) /\ \A r \in Released : Made(r)
  <2>1. \E c \in Commits :
           \/ releases = <<Release(c, Optional, FALSE)>>
           \/ \E d \in Commits \ {c}, opt \in SUBSET Optional, draft \in BOOLEAN :
                releases = <<Release(c, Optional, FALSE), Release(d, opt, draft)>>
    BY DEF Init
  <2>2. \A e \in Commits, opt \in SUBSET Optional, draft \in BOOLEAN :
           Release(e, opt, draft) \in Releases /\ Made(Release(e, opt, draft))
    BY ReleaseIs DEF Made
  <2>3. Optional \in SUBSET Optional OBVIOUS
  <2>4. \/ \E r \in Releases : Made(r) /\ releases = <<r>>
        \/ \E r, s \in Releases : Made(r) /\ Made(s) /\ releases = <<r, s>>
    BY <2>1, <2>2, <2>3
  <2>5. ASSUME NEW r \in Releases, Made(r), releases = <<r>>
        PROVE  releases \in Seq(Releases) /\ \A q \in Released : Made(q)
    <3>1. Released = {r} BY <2>5 DEF Released
    <3> QED BY <2>5, <3>1
  <2>6. ASSUME NEW r \in Releases, NEW s \in Releases, Made(r), Made(s), releases = <<r, s>>
        PROVE  releases \in Seq(Releases) /\ \A q \in Released : Made(q)
    <3>1. Released \subseteq {r, s} BY <2>6 DEF Released
    <3> QED BY <2>6, <3>1
  <2> QED BY <2>4, <2>5, <2>6
<1>3. \A c \in Commits : Build(c, FALSE) \in Builds BY DEF Build, Builds
<1>4. None \in Files /\ Builds \subseteq Files BY DEF Files
<1>5. /\ vendor \in Builds /\ version \in Builds
      /\ source \in [vendor : Builds, store : Files, assets : Builds]
  <2>1. PICK c \in Commits :
           /\ vendor = Build(c, FALSE) /\ version = Build(c, FALSE)
           /\ source = [vendor |-> Build(c, FALSE), store |-> Build(c, FALSE), assets |-> Build(c, FALSE)]
    BY <1>1
  <2>2. Build(c, FALSE) \in Builds /\ Build(c, FALSE) \in Files BY <1>3, <1>4
  <2> QED BY <2>1, <2>2
<1>6. public \in [Assets -> Files] /\ alts \in [Commits -> Files] BY <1>1, <1>4
<1>7. AssetTypes BY <1>1, <1>2, <1>4, <1>5, <1>6, IdleIs DEF AssetTypes
<1>8. \A a \in Assets : public[a] = None BY <1>1
<1>9. CoreSame /\ StoreRecorded BY <1>8, AssetLists DEF CoreSame, StoreRecorded
<1>10. job.pc = "idle" BY <1>1, IdleIs
<1>11. ReleaseInv /\ CheckoutInv BY <1>10 DEF ReleaseInv, CheckoutInv
<1>12. RecordInv BY <1>1, <1>10 DEF RecordInv, Late
<1>13. WholeInv BY <1>2, <1>9, <1>10 DEF WholeInv, Made
<1>14. dropin.threads = None BY <1>1 DEF EmptyDropIn
<1>15. SameInv BY <1>2, <1>9, <1>10, <1>14 DEF SameInv, Made
<1> QED BY <1>7, <1>11, <1>12, <1>13, <1>15 DEF AssetInv

(* The inductive invariant of the asset scripts: at every step of every       *)
(* script, what is in place, what is on record and what is still to come.     *)
THEOREM AssetsSafe == Spec => []AssetInv
<1>1. AssetInv /\ Next => AssetInv'
  BY StartKeeps, ResolveKeeps, FetchKeeps, FetchFailsKeeps, VerifiedKeeps, InstallKeeps,
     RecordBlocksKeeps, RecordVersionKeeps, VendorKeeps, AssetsMissingKeeps, CopyAssetsKeeps,
     RecordAssetsKeeps, SyncHostRuntimeKeeps, SyncStoreBundleKeeps, RecordStoreKeeps,
     DropAlternatesKeeps, FetchAlternateKeeps, SyncEndsKeeps, BundleKeeps, PublishKeeps,
     PackageEngineKeeps, PackageCopyKeeps, KilledKeeps DEF Next
<1>2. ASSUME AssetInv, UNCHANGED assetVars PROVE AssetInv'
  <2>1. UNCHANGED <<public, host, alts, vendor, version, source, releases, bundle, dropin,
                    job, synced, stopped>>
    BY <1>2 DEF assetVars, clone, outside
  <2>2. Released' = Released BY <2>1, SameReleases
  <2>3. CoreSame' = CoreSame /\ CoreRecorded' = CoreRecorded /\ StoreRecorded' = StoreRecorded
    BY <2>1, SameServed
  <2>4. AssetTypes' BY <1>2, <2>1 DEF AssetInv, AssetTypes
  <2>5. ReleaseInv' BY <1>2, <2>1, <2>2 DEF AssetInv, ReleaseInv, Gone, Placed, Has
  <2>6. CheckoutInv' BY <1>2, <2>1 DEF AssetInv, CheckoutInv
  <2>7. RecordInv' BY <1>2, <2>1, <2>2, <2>3 DEF AssetInv, RecordInv, Late
  <2>8. WholeInv' BY <1>2, <2>1, <2>2, <2>3 DEF AssetInv, WholeInv, Attributable
  <2>9. SameInv' BY <1>2, <2>1, <2>2, <2>3 DEF AssetInv, SameInv, Even
  <2> QED BY <2>4, <2>5, <2>6, <2>7, <2>8, <2>9 DEF AssetInv
<1> QED BY AssetInit, <1>1, <1>2, PTL DEF Spec

(* After a sync that ended well, whatever failed or was stopped before, the   *)
(* binaries are all of the recorded checkout's build, or just those of the    *)
(* recorded release, and the host runtime and the alternates are what was     *)
(* asked; the store bundle is the recorded one unless a sync was ever stopped *)
(* between its copy and its record (sync-pgrust.ts main).                     *)
THEOREM SyncsAreRecorded == Spec => []SyncedIsRecorded
<1>1. AssetInv => SyncedIsRecorded
  <2> SUFFICES ASSUME AssetInv, synced # None PROVE SyncedIsRecorded
    BY DEF SyncedIsRecorded
  <2>1. CoreRecorded /\ host = vendor /\ job.pc \in {"idle", "publish", "package"}
        /\ \A c \in Commits : alts[c] # None <=> c \in synced
    BY DEF AssetInv, RecordInv
  <2>2. "record" \notin stopped => StoreRecorded BY <2>1 DEF AssetInv, WholeInv
  <2> QED BY <2>1, <2>2 DEF SyncedIsRecorded, CoreRecorded, StoreRecorded
<1> QED BY AssetsSafe, <1>1, PTL

(* Unless a sync was stopped when it had copied some of the binaries and not  *)
(* all, no two binaries that are served or packaged are of different builds   *)
(* (fetchReleaseBundle).                                                      *)
THEOREM AssetsNeverMix == Spec => []NeverMixed
<1>1. AssetInv => NeverMixed BY Windows DEF AssetInv, SameInv, NeverMixed, CoreSame
<1> QED BY AssetsSafe, <1>1, PTL

(* A store bundle that is published is the clean commit its release names,    *)
(* for any commits and any number of syncs, unless one of them was stopped    *)
(* between the copy of a store bundle and its record (resolveStore).          *)
THEOREM PublishedStoresAreTheirSource == Spec => []PublishedStoreIsSource
<1>1. AssetInv => PublishedStoreIsSource
  BY DEF AssetInv, WholeInv, Attributable, PublishedStoreIsSource
<1> QED BY AssetsSafe, <1>1, PTL
=============================================================================
