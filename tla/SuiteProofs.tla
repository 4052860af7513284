----------------------------- MODULE SuiteProofs -----------------------------
(***************************************************************************)
(* Proofs about a Suite's Runs: what a Run leaves behind, that a session   *)
(* has one statement in flight, and that what a Run reports is its own.    *)
(*                                                                         *)
(* Four inductive invariants, each resting on the one before: RunInv of    *)
(* the page, the call and the engine's stages; BaseInv, which adds the     *)
(* types of sessions and clients; OwnInv, whose a session is; WholeInv,    *)
(* where a statement, its reply and a transaction are.                     *)
(***************************************************************************)
EXTENDS SuiteRun, FiniteSetTheorems, SequenceTheorems, TLAPS

-----------------------------------------------------------------------------
(* Page, call, stages of the engine, and its directory. *)

Plans == {"rows", "beside", "fan-out", "contend"}
Requests == {"none", "open", "measure", "exec", "concurrent", "stats", "close"}
Stages == {"none", "opening", "handshake", "up", "ending", "leaving", "removing"}
Downs == {"ending", "leaving", "removing"}

RunTypes ==
    /\ plan \in Plans
    /\ column \in Nat \ {0} /\ at \in 0 .. Closing
    /\ cells \subseteq 1 .. column /\ failed \subseteq 1 .. column
    /\ worker \in {"none", "loading", "ready", "mute"} /\ fatal \in BOOLEAN
    /\ call \in [req : Requests, st : {"none", "posted", "serving", "ok", "error"}]
    /\ stage \in Stages /\ turn \in Nat /\ owned \in BOOLEAN
    /\ dirs \subseteq 1 .. column

\* One request at a time, of the row the page has come to; the worker's engine
\* goes up or down only while it serves one.
CallInv ==
    /\ worker = "none" => at = 0 /\ stage = "none" /\ ~ fatal /\ ~ owned
    /\ at = 0 => call = NoCall /\ ~ fatal
    /\ call.req = "none" <=> call.st = "none"
    /\ call.req # "none" => call.req = Script[at]
    /\ call.st \in {"posted", "serving"} => ~ fatal
    /\ ~ fatal /\ call.st # "serving" => stage \in {"none", "up"}
    /\ call.st = "serving" =>
          /\ worker = "ready"
          /\ call.req = "open" => stage \in {"opening", "handshake"} \cup Downs
          /\ call.req = "close" => stage \in Downs
          /\ call.req \notin {"open", "close"} => stage \in {"none", "up"}
    /\ call.req = "stats" /\ call.st = "error" => fatal

\* A column's directory is owned from the moment it may exist until it is
\* removed, and the close of the Run is over only then.
DirInv ==
    /\ column \in dirs => worker = "ready" /\ (owned \/ column \in excused)
    /\ at <= 1 /\ (call.st \in {"none", "posted"} \/ stage = "opening") => column \notin dirs
    /\ call.req = "close" /\ call.st \in {"ok", "error"} /\ ~ fatal => ~ owned
    /\ \A k \in dirs : k < column => k \in excused

\* A Run fails before its last row is reported, or not at all.
CellInv ==
    /\ column \in failed => at = Closing /\ column \notin cells
    /\ column \in cells => at > LastRow
    /\ worker = "none" => column \notin failed

RunInv == RunTypes /\ CallInv /\ DirInv /\ CellInv

LEMMA ScriptIs ==
    ASSUME plan \in Plans
    PROVE  /\ Closing \in Nat /\ Closing >= 6 /\ LastRow = Closing - 2
           /\ Script[Closing] = "close" /\ Script[Closing - 1] = "stats" /\ Script[1] = "open"
           /\ \A i \in 2 .. Closing - 2 : Script[i] \in {"measure", "exec", "concurrent"}
           /\ \A i \in 1 .. Closing : Script[i] = "concurrent" => i = Closing - 2
<1>1. CASE plan = "rows"
  <2>1. Script = <<"open", "measure", "exec">> \o <<"exec", "measure", "measure", "exec">> \o <<"stats", "close">>
    BY <1>1 DEF Script
  <2>2. Closing = 9 /\ LastRow = 7 BY <2>1 DEF Closing, LastRow
  <2>3. /\ Script[1] = "open" /\ Script[2] = "measure" /\ Script[3] = "exec" /\ Script[4] = "exec"
        /\ Script[5] = "measure" /\ Script[6] = "measure" /\ Script[7] = "exec"
        /\ Script[8] = "stats" /\ Script[9] = "close"
    BY <2>1
  <2> QED BY <2>2, <2>3
<1>2. CASE plan # "rows"
  <2>1. Script = <<"open", "measure", "exec">> \o <<"concurrent">> \o <<"stats", "close">>
    BY <1>2 DEF Script
  <2>2. Closing = 6 /\ LastRow = 4 BY <2>1 DEF Closing, LastRow
  <2>3. /\ Script[1] = "open" /\ Script[2] = "measure" /\ Script[3] = "exec"
        /\ Script[4] = "concurrent" /\ Script[5] = "stats" /\ Script[6] = "close"
    BY <2>1
  <2> QED BY <2>2, <2>3
<1> QED BY <1>1, <1>2

LEMMA SameScript == plan' = plan => Script' = Script /\ Closing' = Closing /\ LastRow' = LastRow
BY DEF Script, Closing, LastRow

\* The request of a row, by the row.
LEMMA RowIs ==
    ASSUME plan \in Plans, NEW i \in 1 .. Closing
    PROVE  /\ Script[i] \in Requests \ {"none"}
           /\ Script[i] = "open" <=> i = 1
           /\ Script[i] = "close" <=> i = Closing
           /\ Script[i] = "stats" <=> i = Closing - 1
<1>1. i = 1 \/ i \in 2 .. Closing - 2 \/ i = Closing - 1 \/ i = Closing BY ScriptIs
<1> QED BY <1>1, ScriptIs DEF Requests

LEMMA NoCallIs ==
    /\ NoCall \in [req : Requests, st : {"none", "posted", "serving", "ok", "error"}]
    /\ NoCall.req = "none" /\ NoCall.st = "none"
BY DEF NoCall, Requests

LEMMA RunStays ==
    RunInv /\ UNCHANGED <<plan, pageVars, callVars, engineVars>> => RunInv'
<1> SUFFICES ASSUME RunInv, UNCHANGED <<plan, pageVars, callVars, engineVars>> PROVE RunInv' OBVIOUS
<1>1. Script' = Script /\ Closing' = Closing /\ LastRow' = LastRow BY SameScript
<1>2. UNCHANGED <<column, at, cells, failed, worker, fatal, call, stage, turn, owned, dirs, excused>>
  BY DEF pageVars, callVars, engineVars
<1> QED BY <1>1, <1>2 DEF RunInv, RunTypes, CallInv, DirInv, CellInv, NoCall

\* What sessions, clients and guest do leaves page, call and engine alone.
LEMMA OthersStay ==
    ASSUME \/ OfGuest \/ Faults
           \/ \E s \in Sessions : OfSession(s)
           \/ \E c \in Clients : OfClient(c)
    PROVE  UNCHANGED <<kind, plan, pageVars, callVars, engineVars>> /\ ~ fatal
<1>1. CASE OfGuest BY <1>1 DEF OfGuest, Undisturbed, clientVars
<1>2. CASE Faults BY <1>2 DEF Faults, Undisturbed, clientVars
<1>3. ASSUME NEW s \in Sessions, OfSession(s)
      PROVE  UNCHANGED <<kind, plan, pageVars, callVars, engineVars>> /\ ~ fatal
  BY <1>3 DEF OfSession, Undisturbed, SessionStep, GuestReplies, clientVars
<1>4. ASSUME NEW c \in Clients, OfClient(c)
      PROVE  UNCHANGED <<kind, plan, pageVars, callVars, engineVars>> /\ ~ fatal
  <2>1. UNCHANGED <<kind, pageVars, callVars, engineVars>> /\ ~ fatal BY <1>4 DEF OfClient, Undisturbed
  <2>2. ClientStep(c) BY <1>4 DEF OfClient
  <2>3. CASE Enter(c) BY <2>1, <2>3 DEF Enter
  <2>4. CASE ClientEnds(c) BY <2>1, <2>4 DEF ClientEnds
  <2>5. CASE ClientAsks(c) BY <2>1, <2>5 DEF ClientAsks, clientVars
  <2>6. CASE ClientHears(c) BY <2>1, <2>6 DEF ClientHears
  <2> QED BY <2>2, <2>3, <2>4, <2>5, <2>6 DEF ClientStep
<1> QED BY <1>1, <1>2, <1>3, <1>4

LEMMA PageKeepsRun == RunInv /\ PageStep => RunInv'
<1> SUFFICES ASSUME RunInv, PageStep PROVE RunInv' OBVIOUS
<1>1. plan \in Plans /\ RunTypes /\ CallInv /\ DirInv /\ CellInv BY DEF RunInv, RunTypes
<1>2. /\ Closing \in Nat /\ Closing >= 6 /\ LastRow = Closing - 2
      /\ \A i \in 1 .. Closing : /\ Script[i] \in Requests \ {"none"}
                                 /\ Script[i] = "open" <=> i = 1
                                 /\ Script[i] = "close" <=> i = Closing
                                 /\ Script[i] = "stats" <=> i = Closing - 1
  BY <1>1, ScriptIs, RowIs
<1>3. column \in Nat \ {0} /\ at \in 0 .. Closing BY <1>1 DEF RunTypes
<1>4. plan' = plan => Script' = Script /\ Closing' = Closing /\ LastRow' = LastRow BY SameScript
<1>5. CASE Skip
  <2>1. /\ worker = "none" /\ column' = column + 1
        /\ UNCHANGED <<plan, at, cells, failed, worker, fatal, call, stage, turn, owned, dirs, excused>>
    BY <1>5 DEF Skip, clientVars, callVars, engineVars
  <2>2. column \notin dirs BY <1>1, <2>1 DEF DirInv
  <2>3. column' \notin dirs /\ column' \notin cells /\ column' \notin failed BY <1>1, <1>3, <2>1 DEF RunTypes
  <2>4. RunTypes' BY <1>1, <1>3, <1>4, <2>1 DEF RunTypes
  <2>5. CallInv' BY <1>1, <1>4, <2>1 DEF CallInv, NoCall
  <2>6. DirInv' BY <1>1, <1>3, <2>1, <2>2, <2>3 DEF DirInv, RunTypes
  <2>7. CellInv' BY <1>1, <2>1, <2>3 DEF CellInv
  <2> QED BY <2>4, <2>5, <2>6, <2>7 DEF RunInv
<1>6. CASE StartRun
  <2>1. /\ worker = "none" /\ worker' = "loading"
        /\ UNCHANGED <<plan, column, at, cells, failed, fatal, call, stage, turn, owned, dirs, excused>>
    BY <1>6 DEF StartRun, pageVars, clientVars, engineVars
  <2>2. column \notin dirs /\ at = 0 /\ call.st = "none" /\ stage = "none"
    BY <1>1, <2>1 DEF DirInv, CallInv, NoCall
  <2>3. RunTypes' BY <1>1, <1>4, <2>1 DEF RunTypes
  <2>4. CallInv' BY <1>1, <1>4, <2>1, <2>2 DEF CallInv, NoCall
  <2>5. DirInv' BY <1>1, <2>1, <2>2 DEF DirInv
  <2>6. CellInv' BY <1>1, <1>4, <2>1 DEF CellInv
  <2> QED BY <2>3, <2>4, <2>5, <2>6 DEF RunInv
<1>7. CASE Evaluates
  <2>1. /\ worker = "loading" /\ worker' \in {"ready", "mute"}
        /\ UNCHANGED <<plan, column, at, cells, failed, fatal, call, stage, turn, owned, dirs, excused>>
    BY <1>7 DEF Evaluates, pageVars, clientVars, engineVars
  <2>2. column \notin dirs /\ call.st # "serving" BY <1>1, <2>1 DEF DirInv, CallInv
  <2>3. RunTypes' BY <1>1, <1>4, <2>1 DEF RunTypes
  <2>4. CallInv' BY <1>1, <1>4, <2>1, <2>2 DEF CallInv, NoCall
  <2>5. DirInv' BY <1>1, <2>1, <2>2 DEF DirInv
  <2>6. CellInv' BY <1>1, <1>4, <2>1 DEF CellInv
  <2> QED BY <2>3, <2>4, <2>5, <2>6 DEF RunInv
<1>8. CASE HearsReady
  <2>1. /\ worker = "ready" /\ at = 0 /\ at' = 1
        /\ UNCHANGED <<plan, column, cells, failed, worker, fatal, call, stage, turn, owned, dirs, excused>>
    BY <1>8 DEF HearsReady, callVars, clientVars, engineVars
  <2>2. call.st = "none" /\ call.req = "none" /\ ~ fatal /\ column \notin dirs
    BY <1>1, <2>1 DEF DirInv, CallInv, NoCall
  <2>3. column \notin failed /\ column \notin cells BY <1>1, <1>2, <2>1 DEF CellInv
  <2>4. RunTypes' BY <1>1, <1>2, <1>4, <2>1 DEF RunTypes
  <2>5. CallInv' BY <1>1, <1>4, <2>1, <2>2 DEF CallInv, NoCall
  <2>6. DirInv' BY <1>1, <2>1, <2>2 DEF DirInv
  <2>7. CellInv' BY <2>1, <2>3 DEF CellInv
  <2> QED BY <2>4, <2>5, <2>6, <2>7 DEF RunInv
<1>9. CASE ReadyTimeout
  <2>1. /\ worker \in {"loading", "mute"} /\ at = 0 /\ at' = Closing /\ failed' = failed \cup {column}
        /\ UNCHANGED <<plan, column, cells, worker, fatal, call, stage, turn, owned, dirs, excused>>
    BY <1>9 DEF ReadyTimeout, Fails, callVars, clientVars, engineVars
  <2>2. call.st = "none" /\ call.req = "none" /\ ~ fatal /\ column \notin dirs
    BY <1>1, <2>1 DEF DirInv, CallInv, NoCall
  <2>3. column \notin cells BY <1>1, <1>2, <2>1 DEF CellInv
  <2>4. RunTypes' BY <1>1, <1>2, <1>3, <1>4, <2>1 DEF RunTypes
  <2>5. CallInv' BY <1>1, <1>2, <1>4, <2>1, <2>2 DEF CallInv, NoCall
  <2>6. DirInv' BY <1>1, <2>1, <2>2 DEF DirInv
  <2>7. CellInv' BY <1>4, <2>1, <2>3 DEF CellInv
  <2> QED BY <2>4, <2>5, <2>6, <2>7 DEF RunInv
<1>10. CASE Posts
  <2>1. /\ at > 0 /\ worker # "none" /\ call = NoCall
        /\ call' = [req |-> Script[at], st |-> IF fatal THEN "error" ELSE "posted"]
        /\ UNCHANGED <<plan, column, at, cells, failed, worker, fatal, stage, turn, owned, dirs, excused>>
    BY <1>10 DEF Posts, pageVars, clientVars, engineVars
  <2>2. Script[at] \in Requests \ {"none"} BY <1>2, <1>3, <2>1
  <2>3. call.st = "none" BY <2>1 DEF NoCall
  <2>4. call'.req = Script[at] /\ call'.st = IF fatal THEN "error" ELSE "posted" BY <2>1
  <2>5. RunTypes' BY <1>1, <1>4, <2>1, <2>2 DEF RunTypes
  <2>6. CallInv' BY <1>1, <1>4, <2>1, <2>2, <2>3, <2>4 DEF CallInv
  <2>7. DirInv' BY <1>1, <2>1, <2>3, <2>4 DEF DirInv
  <2>8. CellInv' BY <1>1, <1>4, <2>1 DEF CellInv
  <2> QED BY <2>5, <2>6, <2>7, <2>8 DEF RunInv
<1>11. CASE Hears
  <2>1. /\ call.st \in {"ok", "error"} /\ at # Closing /\ call' = NoCall
        /\ \/ /\ call.st = "error" /\ call.req # "stats"
              /\ at' = Closing /\ failed' = failed \cup {column} /\ cells' = cells
           \/ /\ ~ (call.st = "error" /\ call.req # "stats")
              /\ at' = at + 1 /\ failed' = failed
              /\ cells' = IF at = LastRow THEN cells \cup {column} ELSE cells
        /\ UNCHANGED <<plan, column, worker, fatal, stage, turn, owned, dirs, excused>>
    BY <1>11 DEF Hears, Fails, clientVars, engineVars
  <2>2. /\ at \in 1 .. Closing - 1 /\ call.req # "none" /\ call.req = Script[at] /\ worker # "none"
    BY <1>1, <1>2, <1>3, <2>1 DEF CallInv, NoCall
  <2>3. call'.req = "none" /\ call'.st = "none" BY <2>1 DEF NoCall
  <2>4. at' \in 2 .. Closing BY <1>2, <2>1, <2>2
  <2>5. RunTypes'
    <3>1. column \in 1 .. column BY <1>3
    <3>2. cells' \subseteq cells \cup {column} /\ failed' \subseteq failed \cup {column} BY <2>1
    <3>3. cells \subseteq 1 .. column /\ failed \subseteq 1 .. column BY <1>1 DEF RunTypes
    <3>4. cells' \subseteq 1 .. column /\ failed' \subseteq 1 .. column BY <3>1, <3>2, <3>3
    <3>5. at' \in 0 .. Closing BY <1>2, <2>4
    <3> QED BY <1>1, <1>4, <2>1, <3>4, <3>5, NoCallIs DEF RunTypes
  <2>6. ~ fatal => stage \in {"none", "up"} BY <1>1, <2>1 DEF CallInv
  <2>7. CallInv' BY <1>1, <1>4, <2>1, <2>2, <2>3, <2>4, <2>6 DEF CallInv
  <2>8. DirInv' BY <1>1, <2>1, <2>3, <2>4 DEF DirInv
  <2>9. column \notin failed BY <1>1, <2>1 DEF CellInv
  <2>10. call.st = "error" /\ call.req # "stats" => column \notin cells
    <3>1. column \in cells => at = Closing - 1 BY <1>1, <1>2, <2>2 DEF CellInv
    <3> QED BY <1>2, <2>2, <3>1
  <2>11. CellInv' BY <1>1, <1>2, <1>4, <2>1, <2>2, <2>4, <2>9, <2>10 DEF CellInv
  <2> QED BY <2>5, <2>7, <2>8, <2>11 DEF RunInv
<1>12. CASE Terminates
  <2>1. /\ call.st \in {"ok", "error"} /\ at = Closing
        /\ worker' = "none" /\ fatal' = FALSE /\ call' = NoCall
        /\ excused' = IF fatal THEN excused \cup {column} ELSE excused
        /\ stage' = "none" /\ turn' = 0 /\ owned' = FALSE
        /\ column' = column + 1 /\ at' = 0
        /\ UNCHANGED <<plan, dirs, cells, failed>>
    BY <1>12 DEF Terminates
  <2>2. call.req = "close" BY <1>1, <1>2, <1>3, <2>1 DEF CallInv
  <2>3. column \in dirs => column \in excused' BY <1>1, <2>1, <2>2 DEF DirInv
  <2>4. column' \notin dirs /\ column' \notin cells /\ column' \notin failed BY <1>1, <1>3, <2>1 DEF RunTypes
  <2>5. RunTypes'
    <3>1. 1 .. column \subseteq 1 .. column' /\ column' \in Nat \ {0} BY <1>3, <2>1
    <3>2. 0 \in 0 .. Closing /\ 0 \in Nat /\ "none" \in Stages BY <1>2 DEF Stages
    <3> QED BY <1>1, <1>4, <2>1, <3>1, <3>2, NoCallIs DEF RunTypes
  <2>6. CallInv' BY <2>1 DEF CallInv, NoCall
  <2>7. \A k \in dirs : k < column' => k \in excused'
    <3> SUFFICES ASSUME NEW k \in dirs, k < column' PROVE k \in excused' OBVIOUS
    <3>1. k \in Nat /\ k <= column BY <1>1, <1>3 DEF RunTypes
    <3>2. k < column \/ k = column BY <1>3, <3>1
    <3> QED BY <1>1, <2>1, <2>3, <3>2 DEF DirInv
  <2>8. DirInv' BY <2>1, <2>4, <2>7 DEF DirInv, NoCall
  <2>9. CellInv' BY <2>1, <2>4 DEF CellInv
  <2> QED BY <2>5, <2>6, <2>8, <2>9 DEF RunInv
<1> QED BY <1>5, <1>6, <1>7, <1>8, <1>9, <1>10, <1>11, <1>12 DEF PageStep

LEMMA ErrorKeepsRun == RunInv /\ WorkerErrors => RunInv'
<1> SUFFICES ASSUME RunInv, WorkerErrors PROVE RunInv' OBVIOUS
<1>1. plan \in Plans /\ RunTypes /\ CallInv /\ DirInv /\ CellInv BY DEF RunInv, RunTypes
<1>2. Closing \in Nat /\ Closing >= 6 /\ LastRow = Closing - 2 BY <1>1, ScriptIs
<1>3. column \in Nat \ {0} /\ at \in 0 .. Closing BY <1>1 DEF RunTypes
<1>4. /\ worker \in {"loading", "ready"} /\ fatal' = TRUE
      /\ \/ /\ at = 0 /\ at' = Closing /\ failed' = failed \cup {column}
         \/ at # 0 /\ at' = at /\ failed' = failed
      /\ call' = IF call.req # "none" /\ call.st \in {"posted", "serving"} THEN [call EXCEPT !.st = "error"] ELSE call
      /\ UNCHANGED <<plan, column, cells, worker, stage, turn, owned, dirs, excused>>
  BY DEF WorkerErrors, Fails, pageVars, engineVars, Open
<1>5. Script' = Script /\ Closing' = Closing /\ LastRow' = LastRow BY <1>4, SameScript
<1>6. /\ call'.req = call.req /\ call' \in [req : Requests, st : {"none", "posted", "serving", "ok", "error"}]
      /\ call'.st \notin {"posted", "serving"}
      /\ call'.st = call.st \/ (call'.st = "error" /\ call.st \in {"posted", "serving"})
  BY <1>1, <1>4 DEF RunTypes, CallInv
<1>7. at = 0 => call.req = "none" /\ call.st = "none" BY <1>1 DEF CallInv, NoCall
<1>8. RunTypes' BY <1>1, <1>2, <1>3, <1>4, <1>5, <1>6 DEF RunTypes
<1>9. CallInv' BY <1>1, <1>2, <1>3, <1>4, <1>5, <1>6, <1>7 DEF CallInv
<1>10. DirInv' BY <1>1, <1>2, <1>3, <1>4, <1>6 DEF DirInv
<1>11. at = 0 => column \notin cells /\ column \notin failed BY <1>1, <1>2 DEF CellInv
<1>12. CellInv' BY <1>1, <1>4, <1>5, <1>11 DEF CellInv
<1> QED BY <1>8, <1>9, <1>10, <1>12 DEF RunInv

\* A worker's step keeps the page; what it may do to the call and the engine.
LEMMA WorkerStays ==
    ASSUME WorkerStep
    PROVE  UNCHANGED <<kind, plan, pageVars, worker, fatal>>
<1>1. CASE Serve BY <1>1 DEF Serve, clientVars
<1>2. CASE Opens BY <1>2 DEF Opens, clientVars
<1>3. CASE Handshake BY <1>3 DEF Handshake, AsksAt, clientVars, callVars
<1>4. CASE RunsStatement BY <1>4 DEF RunsStatement, AsksAt, clientVars, callVars
<1>5. CASE RunsScenario BY <1>5 DEF RunsScenario, AsksAt, clientVars, callVars
<1>6. CASE Stats BY <1>6 DEF Stats, clientVars
<1>7. CASE SendsEnd BY <1>7 DEF SendsEnd, clientVars, callVars
<1>8. CASE Leaves BY <1>8 DEF Leaves, clientVars, callVars
<1>9. CASE Removes BY <1>9 DEF Removes, clientVars
<1> QED BY <1>1, <1>2, <1>3, <1>4, <1>5, <1>6, <1>7, <1>8, <1>9 DEF WorkerStep

LEMMA AnswerIs ==
    ASSUME RunInv, call.st = "serving", NEW st \in {"ok", "error"}, Answer(st)
    PROVE  /\ call' \in [req : Requests, st : {"none", "posted", "serving", "ok", "error"}]
           /\ call'.req = call.req /\ call'.st = st /\ call.req # "none"
<1>1. call \in [req : Requests, st : {"none", "posted", "serving", "ok", "error"}] /\ call.req # "none"
  BY DEF RunInv, RunTypes, CallInv
<1> QED BY <1>1 DEF Answer, Open

\* Going up or down is part of a request.
LEMMA StageIs ==
    ASSUME RunInv, ~ fatal, stage \notin {"none", "up"}
    PROVE  /\ call.st = "serving" /\ worker = "ready" /\ call.req \in {"open", "close"}
           /\ stage \in {"opening", "handshake"} => call.req = "open"
           /\ call.req = "open" => at = 1
           /\ call.req = Script[at]
<1>1. call.st = "serving" /\ worker = "ready" /\ call.req \in {"open", "close"}
      /\ (stage \in {"opening", "handshake"} => call.req = "open")
      /\ call.req = Script[at]
  BY DEF RunInv, CallInv, Downs
<1>2. plan \in Plans /\ at \in 0 .. Closing /\ at # 0 /\ Closing \in Nat
  BY <1>1, ScriptIs, NoCallIs DEF RunInv, RunTypes, CallInv
<1>3. at \in 1 .. Closing BY <1>2
<1> QED BY <1>1, <1>2, <1>3, RowIs

\* A step that leaves the directory alone and either goes on with the request or
\* answers it with the engine at rest.
LEMMA RunGoesOn ==
    ASSUME RunInv, ~ fatal, UNCHANGED <<plan, pageVars, worker, fatal, owned, dirs, excused>>,
           call.st = "serving", turn' \in Nat,
           \/ call' = call /\ stage' = stage
           \/ call' = call /\ call.req = "open" /\ stage' \in {"handshake"} \cup Downs
           \/ call' = call /\ call.req = "close" /\ stage' \in Downs
           \/ /\ \E st \in {"ok", "error"} : Answer(st) /\ (call.req = "stats" => st = "ok")
              /\ stage' \in {"none", "up"} /\ call.req # "close"
    PROVE  RunInv'
<1>1. RunTypes /\ CallInv /\ DirInv /\ CellInv BY DEF RunInv
<1>2. UNCHANGED <<plan, column, at, cells, failed, worker, fatal, owned, dirs, excused>> BY DEF pageVars
<1>3. Script' = Script /\ Closing' = Closing /\ LastRow' = LastRow BY SameScript
<1>4. CellInv' BY <1>1, <1>2, <1>3 DEF CellInv
<1>5. at # 0 /\ call.req # "none" /\ worker = "ready" BY <1>1, NoCallIs DEF CallInv
<1>6. CASE call' = call
  <2>1. /\ stage' \in Stages
        /\ stage' = stage \/ (call.req = "open" /\ stage' \in {"handshake"} \cup Downs)
                          \/ (call.req = "close" /\ stage' \in Downs)
    <3>1. \A st \in {"ok", "error"} : ~ Answer(st) BY <1>6, AnswerIs
    <3> QED BY <1>1, <3>1 DEF RunTypes, Stages, Downs
  <2>2. RunTypes' BY <1>1, <1>2, <1>3, <1>6, <2>1 DEF RunTypes
  <2>3. CallInv' BY <1>1, <1>2, <1>3, <1>5, <1>6, <2>1 DEF CallInv, Downs
  <2>4. DirInv' BY <1>1, <1>2, <1>6, <2>1 DEF DirInv, Downs
  <2> QED BY <1>4, <2>2, <2>3, <2>4 DEF RunInv
<1>7. ASSUME NEW st \in {"ok", "error"}, Answer(st), call.req = "stats" => st = "ok",
             stage' \in {"none", "up"}, call.req # "close"
      PROVE  RunInv'
  <2>1. /\ call' \in [req : Requests, st : {"none", "posted", "serving", "ok", "error"}]
        /\ call'.req = call.req /\ call'.st = st
    BY <1>7, AnswerIs
  <2>2. RunTypes' BY <1>1, <1>2, <1>3, <1>7, <2>1 DEF RunTypes, Stages
  <2>3. CallInv' BY <1>1, <1>2, <1>3, <1>5, <1>7, <2>1 DEF CallInv
  <2>4. DirInv' BY <1>1, <1>2, <1>7, <2>1 DEF DirInv
  <2> QED BY <1>4, <2>2, <2>3, <2>4 DEF RunInv
<1> QED BY <1>6, <1>7

LEMMA ServeKeepsRun == RunInv /\ ~ fatal /\ Serve => RunInv'
<1> SUFFICES ASSUME RunInv, ~ fatal, Serve PROVE RunInv' OBVIOUS
<1>1. RunTypes /\ CallInv /\ DirInv /\ CellInv BY DEF RunInv
<1>2. /\ worker = "ready" /\ call.st = "posted" /\ call' = [call EXCEPT !.st = "serving"] /\ turn' = 0
      /\ stage' = CASE call.req = "open" -> "opening"
                    [] call.req = "close" /\ stage = "up" /\ Piped -> "ending"
                    [] call.req = "close" /\ ~ (stage = "up" /\ Piped) -> "removing"
                    [] OTHER -> stage
      /\ UNCHANGED <<plan, column, at, cells, failed, worker, fatal, owned, dirs, excused>>
  BY DEF Serve, pageVars, clientVars
<1>3. Script' = Script /\ Closing' = Closing /\ LastRow' = LastRow BY <1>2, SameScript
<1>4. /\ call' \in [req : Requests, st : {"none", "posted", "serving", "ok", "error"}]
      /\ call'.req = call.req /\ call'.st = "serving"
  BY <1>1, <1>2 DEF RunTypes
<1>5. stage \in {"none", "up"} BY <1>1, <1>2 DEF CallInv
<1>6. /\ call.req = "open" => stage' = "opening"
      /\ call.req = "close" => stage' \in {"ending", "removing"}
      /\ call.req \notin {"open", "close"} => stage' = stage
  BY <1>2
<1>7. stage' \in Stages BY <1>5, <1>6 DEF Stages
<1>8. at # 0 /\ call.req # "none" BY <1>1, <1>2, NoCallIs DEF CallInv
<1>9. RunTypes' BY <1>1, <1>2, <1>3, <1>4, <1>7 DEF RunTypes
<1>10. CallInv' BY <1>1, <1>2, <1>3, <1>4, <1>5, <1>6, <1>8 DEF CallInv, Downs
<1>11. DirInv' BY <1>1, <1>2, <1>4 DEF DirInv
<1>12. CellInv' BY <1>1, <1>2, <1>3 DEF CellInv
<1> QED BY <1>9, <1>10, <1>11, <1>12 DEF RunInv

\* What an open may leave owned.
Left == /\ owned' \in {owned, TRUE, FALSE}
        /\ dirs' = dirs \/ (dirs' = dirs \cup {column} /\ owned' = TRUE)

LEMMA MakeIs == ASSUME NEW opfs \in BOOLEAN, Make(opfs) PROVE Left
<1>1. CASE opfs = TRUE
  <2>1. owned' = TRUE /\ dirs' = dirs \cup {column} BY <1>1 DEF Make
  <2> QED BY <2>1 DEF Left
<1>2. CASE opfs = FALSE
  <2>1. owned' = FALSE /\ dirs' = dirs BY <1>2 DEF Make
  <2> QED BY <2>1 DEF Left
<1> QED BY <1>1, <1>2

LEMMA ClosesIs ==
    ASSUME NEW opfs \in BOOLEAN, owned' = opfs, dirs' \in {dirs, IF opfs THEN dirs \cup {column} ELSE dirs}
    PROVE  Left
<1>1. CASE opfs = TRUE BY <1>1 DEF Left
<1>2. CASE opfs = FALSE BY <1>2 DEF Left
<1> QED BY <1>1, <1>2

\* How any engine's open comes out.
LEMMA OpensIs ==
    ASSUME Opens
    PROVE  /\ Left
           /\ \/ stage' = "none" /\ Answer("error") /\ backend' = backend
              \/ stage' = "up" /\ Answer("ok") /\ Ready
              \/ stage' = "handshake" /\ call' = call /\ Ready /\ kind \in {"threads", "postmaster"}
              \/ stage' = "removing" /\ call' = call /\ backend' = backend
<1> DEFINE Out == \/ stage' = "none" /\ Answer("error") /\ backend' = backend
                  \/ stage' = "up" /\ Answer("ok") /\ Ready
                  \/ stage' = "handshake" /\ call' = call /\ Ready /\ kind \in {"threads", "postmaster"}
                  \/ stage' = "removing" /\ call' = call /\ backend' = backend
<1> SUFFICES Left /\ Out OBVIOUS
<1>1. Refused => Left /\ Out BY DEF Refused, Left
<1>2. stage' = "up" /\ Answer("ok") /\ Ready => Out OBVIOUS
<1>3. FALSE \in BOOLEAN /\ TRUE \in BOOLEAN OBVIOUS
<1>4. CASE OpenWasqlite BY <1>1, <1>2, <1>3, <1>4, MakeIs DEF OpenWasqlite
<1>5. CASE OpenWire BY <1>1, <1>2, <1>3, <1>5, MakeIs DEF OpenWire
<1>6. CASE OpenPglite BY <1>1, <1>2, <1>3, <1>6, MakeIs DEF OpenPglite
<1>7. ASSUME NEW opfs \in BOOLEAN, kind \in {"threads", "postmaster"},
             \/ stage' = "handshake" /\ Make(opfs) /\ Ready /\ UNCHANGED call
             \/ /\ Closes /\ owned' = opfs
                /\ dirs' \in {dirs, IF opfs THEN dirs \cup {column} ELSE dirs}
      PROVE  Left /\ Out
  <2>1. CASE stage' = "handshake" /\ Make(opfs) /\ Ready /\ UNCHANGED call BY <1>7, <2>1, MakeIs
  <2>2. CASE Closes /\ owned' = opfs /\ dirs' \in {dirs, IF opfs THEN dirs \cup {column} ELSE dirs}
    <3>1. Left BY <2>2, ClosesIs
    <3> QED BY <2>2, <3>1 DEF Closes
  <2> QED BY <1>7, <2>1, <2>2
<1>8. CASE kind = "threads" /\ OpenThreads
  <2>1. CASE Refused BY <1>1, <2>1
  <2>2. ASSUME NEW opfs \in BOOLEAN, StartStorageCoordinator(opfs) PROVE Left /\ Out
    BY <1>7, <1>8, <2>2 DEF StartStorageCoordinator
  <2>3. CASE stage' = "handshake" /\ Ready /\ UNCHANGED <<call, owned, dirs>> BY <1>8, <2>3 DEF Left
  <2> QED BY <1>8, <2>1, <2>2, <2>3 DEF OpenThreads
<1>9. CASE kind = "postmaster" /\ OpenPostmaster
  <2>1. CASE Refused BY <1>1, <2>1
  <2>2. ASSUME NEW opfs \in BOOLEAN,
               \/ stage' = "handshake" /\ Make(opfs) /\ Ready /\ UNCHANGED call
               \/ /\ Closes /\ owned' = opfs
                  /\ dirs' \in {dirs, IF opfs THEN dirs \cup {column} ELSE dirs}
        PROVE  Left /\ Out
    BY <1>7, <1>9, <2>2
  <2> QED BY <1>9, <2>1, <2>2 DEF OpenPostmaster
<1> QED BY <1>4, <1>5, <1>6, <1>8, <1>9 DEF Opens

LEMMA OpensKeepsRun == RunInv /\ ~ fatal /\ Opens => RunInv'
<1> SUFFICES ASSUME RunInv, ~ fatal, Opens PROVE RunInv' OBVIOUS
<1>1. RunTypes /\ CallInv /\ DirInv /\ CellInv BY DEF RunInv
<1>2. /\ stage = "opening"
      /\ UNCHANGED <<plan, column, at, cells, failed, worker, fatal, turn, excused>>
  BY DEF Opens, pageVars, clientVars
<1>3. Script' = Script /\ Closing' = Closing /\ LastRow' = LastRow BY <1>2, SameScript
<1>4. call.st = "serving" /\ worker = "ready" /\ call.req = "open" /\ at = 1 BY <1>2, StageIs
<1>5. column \notin dirs BY <1>1, <1>2, <1>4 DEF DirInv
<1>6. /\ call' \in [req : Requests, st : {"none", "posted", "serving", "ok", "error"}]
      /\ call'.req = "open"
      /\ \/ stage' \in {"none", "up"} /\ call'.st \in {"ok", "error"}
         \/ stage' \in {"handshake", "removing"} /\ call'.st = "serving"
  <2>1. ASSUME NEW st \in {"ok", "error"}, Answer(st)
        PROVE  call' \in [req : Requests, st : {"none", "posted", "serving", "ok", "error"}]
               /\ call'.req = "open" /\ call'.st = st
    BY <1>4, <2>1, AnswerIs
  <2>2. CASE call' = call /\ stage' \in {"handshake", "removing"} BY <1>1, <1>4, <2>2 DEF RunTypes
  <2> QED BY <2>1, <2>2, OpensIs
<1>7. owned' \in BOOLEAN /\ dirs' \subseteq dirs \cup {column} /\ (column \in dirs' => owned')
  <2>1. owned \in BOOLEAN BY <1>1 DEF RunTypes
  <2> QED BY <1>5, <2>1, OpensIs DEF Left
<1>8. dirs' \subseteq 1 .. column
  <2>1. column \in Nat \ {0} /\ dirs \subseteq 1 .. column BY <1>1 DEF RunTypes
  <2>2. column \in 1 .. column BY <2>1
  <2> QED BY <1>7, <2>1, <2>2
<1>9. stage' \in Stages BY <1>6 DEF Stages
<1>10. RunTypes' BY <1>1, <1>2, <1>3, <1>6, <1>7, <1>8, <1>9 DEF RunTypes
<1>11. CallInv' BY <1>1, <1>2, <1>3, <1>4, <1>6 DEF CallInv, Downs
<1>12. \A k \in dirs' : k < column => k \in excused'
  <2>1. \A k \in dirs' : k # column => k \in dirs BY <1>7
  <2>2. column \in Nat BY <1>1 DEF RunTypes
  <2>3. ~ (column < column) BY <2>2
  <2> QED BY <1>1, <1>2, <2>1, <2>3 DEF DirInv
<1>13. DirInv' BY <1>2, <1>4, <1>6, <1>7, <1>12 DEF DirInv
<1>14. CellInv' BY <1>1, <1>2, <1>3 DEF CellInv
<1> QED BY <1>10, <1>11, <1>13, <1>14 DEF RunInv

LEMMA RemovesKeepsRun == RunInv /\ ~ fatal /\ Removes => RunInv'
<1> SUFFICES ASSUME RunInv, ~ fatal, Removes PROVE RunInv' OBVIOUS
<1>1. RunTypes /\ CallInv /\ DirInv /\ CellInv BY DEF RunInv
<1>2. /\ stage = "removing" /\ stage' = "none" /\ owned' = FALSE
      /\ \/ dirs' = (IF owned THEN dirs \ {column} ELSE dirs) /\ excused' = excused
         \/ dirs' = dirs /\ excused' = excused \cup {column}
      /\ \E st \in {"ok", "error"} : Answer(st)
      /\ UNCHANGED <<plan, column, at, cells, failed, worker, fatal, turn>>
  BY DEF Removes, ToRemove, pageVars, clientVars
<1>3. Script' = Script /\ Closing' = Closing /\ LastRow' = LastRow BY <1>2, SameScript
<1>4. call.st = "serving" /\ worker = "ready" /\ call.req \in {"open", "close"} BY <1>2, StageIs
<1>5. /\ call' \in [req : Requests, st : {"none", "posted", "serving", "ok", "error"}]
      /\ call'.req = call.req /\ call'.st \in {"ok", "error"}
  BY <1>2, <1>4, AnswerIs
<1>6. dirs' \subseteq dirs /\ (column \in dirs' => column \in excused')
  BY <1>1, <1>2 DEF DirInv
<1>7. RunTypes' BY <1>1, <1>2, <1>3, <1>5, <1>6 DEF RunTypes, Stages
<1>8. CallInv'
  <2>1. at # 0 /\ call.req # "none" /\ call.req = Script[at] BY <1>1, <1>4, NoCallIs DEF CallInv
  <2> QED BY <1>2, <1>3, <1>4, <1>5, <2>1 DEF CallInv
<1>9. DirInv' BY <1>1, <1>2, <1>4, <1>5, <1>6 DEF DirInv
<1>10. CellInv' BY <1>1, <1>2, <1>3 DEF CellInv
<1> QED BY <1>7, <1>8, <1>9, <1>10 DEF RunInv

LEMMA WorkerKeepsRun == RunInv /\ OfWorker => RunInv'
<1> SUFFICES ASSUME RunInv, ~ fatal, WorkerStep PROVE RunInv' BY DEF OfWorker
<1>1. UNCHANGED <<plan, pageVars, worker, fatal>> BY WorkerStays
<1>2. turn \in Nat /\ turn + 1 \in Nat /\ 0 \in Nat BY DEF RunInv, RunTypes
<1>3. call.st = "serving" /\ call.req \notin {"open", "close"} => stage \in {"none", "up"}
  BY DEF RunInv, CallInv
<1>4. CASE Handshake
  <2>1. stage = "handshake" BY <1>4 DEF Handshake
  <2>2. call.st = "serving" /\ call.req = "open" BY <2>1, StageIs
  <2>3. /\ UNCHANGED <<owned, dirs, excused>> /\ turn' \in {turn, turn + 1, 0}
        /\ \/ call' = call /\ stage' \in {"handshake", "ending"}
           \/ stage' = "up" /\ Answer("ok")
    BY <1>4, <2>1 DEF Handshake, AsksAt, callVars
  <2> QED BY <1>1, <1>2, <2>2, <2>3, RunGoesOn DEF Downs
<1>5. CASE RunsStatement
  <2>1. call.st = "serving" /\ call.req \in {"exec", "measure"} BY <1>5 DEF RunsStatement, Serving
  <2>2. /\ UNCHANGED <<owned, dirs, excused, stage, turn>>
        /\ call' = call \/ \E st \in {"ok", "error"} : Answer(st)
    BY <1>5 DEF RunsStatement, AsksAt, callVars, engineVars
  <2> QED BY <1>1, <1>2, <1>3, <2>1, <2>2, RunGoesOn
<1>6. CASE RunsScenario
  <2>1. call.st = "serving" /\ call.req = "concurrent" BY <1>6 DEF RunsScenario, Serving
  <2>2. /\ UNCHANGED <<owned, dirs, excused, stage>> /\ turn' \in {turn, turn + 1}
        /\ call' = call \/ \E st \in {"ok", "error"} : Answer(st)
    BY <1>6 DEF RunsScenario, AsksAt, callVars, engineVars
  <2> QED BY <1>1, <1>2, <1>3, <2>1, <2>2, RunGoesOn
<1>7. CASE Stats
  <2>1. call.st = "serving" /\ call.req = "stats" /\ Answer("ok")
        /\ UNCHANGED <<owned, dirs, excused, stage, turn>>
    BY <1>7 DEF Stats, Serving, engineVars
  <2> QED BY <1>1, <1>2, <1>3, <2>1, RunGoesOn
<1>8. CASE SendsEnd
  <2>1. /\ stage = "ending" /\ stage' \in {"ending", "leaving"} /\ call' = call
        /\ turn' \in {turn, turn + 1} /\ UNCHANGED <<owned, dirs, excused>>
    BY <1>8 DEF SendsEnd, callVars
  <2> QED BY <1>1, <1>2, <2>1, StageIs, RunGoesOn DEF Downs
<1>9. CASE Leaves
  <2>1. /\ stage = "leaving" /\ stage' = "removing" /\ call' = call
        /\ turn' = turn /\ UNCHANGED <<owned, dirs, excused>>
    BY <1>9 DEF Leaves, callVars
  <2> QED BY <1>1, <1>2, <2>1, StageIs, RunGoesOn DEF Downs
<1> QED BY <1>4, <1>5, <1>6, <1>7, <1>8, <1>9, ServeKeepsRun, OpensKeepsRun, RemovesKeepsRun DEF WorkerStep

LEMMA InitialRun == Init => RunInv
<1> SUFFICES ASSUME Init PROVE RunInv OBVIOUS
<1>1. /\ plan \in Plans /\ column = 1 /\ at = 0 /\ cells = {} /\ failed = {} /\ worker = "none"
      /\ fatal = FALSE /\ call = NoCall /\ stage = "none" /\ turn = 0 /\ owned = FALSE /\ dirs = {}
  BY DEF Init, Plans
<1>2. 0 \in 0 .. Closing BY <1>1, ScriptIs
<1>3. RunTypes
  <2>1. "none" \in Stages /\ 1 \in Nat \ {0} /\ 0 \in Nat BY DEF Stages
  <2>2. column \in Nat \ {0} /\ turn \in Nat /\ stage \in Stages /\ at \in 0 .. Closing BY <1>1, <1>2, <2>1
  <2> QED BY <1>1, <2>2, NoCallIs DEF RunTypes
<1>4. CallInv /\ DirInv /\ CellInv BY <1>1, NoCallIs DEF CallInv, DirInv, CellInv
<1> QED BY <1>3, <1>4 DEF RunInv

LEMMA RunKept == RunInv /\ Next => RunInv'
BY PageKeepsRun, ErrorKeepsRun, WorkerKeepsRun, OthersStay, RunStays DEF Next, Progress

\* The inductive invariant of page, call and engine.
THEOREM RunSafe == Spec => []RunInv
<1>1. RunInv /\ UNCHANGED vars => RunInv'
  BY RunStays DEF vars, clientVars
<1> QED BY <1>1, InitialRun, RunKept, PTL DEF Spec

\* When the page goes on to another Configuration the directory of the last is
\* gone, whichever step failed (pglite.worker.ts openStore,
\* pgrust-threads.worker.ts closeEngine).
THEOREM NothingIsLeft == Spec => []LeavesNothing
<1>1. RunInv => LeavesNothing BY DEF RunInv, DirInv, LeavesNothing
<1> QED BY <1>1, RunSafe, PTL

-----------------------------------------------------------------------------
(* Types of sessions and clients, and the freshness of a Run. *)

Engines == {"pglite", "wasqlite", "wire", "threads", "postmaster"}
Answers == {"ok", "code", "bare"}
Cycles == [by : 0 .. NoOne, unsent : Nat, got : {"none", "failed"} \cup Answers, late : BOOLEAN]
ClientStates == [at : {"off", "next", "done", "thrown"} \cup InUnit, step : Nat, loops : Nat,
                 code : {"none", "failed"} \cup Answers]

SessionTypes ==
    /\ kind \in Engines
    /\ backend \in [Sessions -> {"none", "idle", "busy", "gone", "stuck", "closed"}]
    /\ ring \in [Sessions -> Seq({"part", "query", "end"})]
    /\ out \in [Sessions -> {"none"} \cup Answers]
    /\ stale \in [Sessions -> BOOLEAN]
    /\ cycle \in [Sessions -> Cycles]
    /\ alarm \in BOOLEAN
    /\ inside \in [Sessions -> 0 .. NoOne]
    /\ mixed \in BOOLEAN /\ foreign \in BOOLEAN

ClientTypes ==
    /\ plan \in Plans
    /\ client \in [Clients -> ClientStates]
    /\ queue \in Seq(Clients) /\ raised \in BOOLEAN

\* An engine that answers inside the worker has no rings and no guest of its own.
NotPiped ==
    ~ Piped => /\ ~ alarm
               /\ \A s \in Sessions :
                     /\ ring[s] = << >> /\ out[s] = "none" /\ ~ stale[s]
                     /\ backend[s] \in {"none", "idle"}
                     /\ cycle[s].unsent = 0 /\ cycle[s].got # "failed"

\* Before a Run, and once its worker reported an error, there is nothing.
AllFresh ==
    /\ \A s \in Sessions : /\ backend[s] = "none" /\ ring[s] = << >> /\ out[s] = "none"
                           /\ ~ stale[s] /\ cycle[s] = NoCycle /\ inside[s] = NoOne
    /\ ~ alarm /\ ~ mixed /\ ~ foreign
    /\ \A c \in Clients : client[c] = Off
FreshInv == worker = "none" \/ fatal => AllFresh

LEMMA Numbers ==
    /\ NClients \in Nat \ {0} /\ Worker \notin Clients /\ NoOne \notin Clients /\ Worker # NoOne
    /\ Worker \in 0 .. NoOne /\ NoOne \in 0 .. NoOne /\ Clients \subseteq 0 .. NoOne
    /\ 0 \in Sessions /\ Sessions = Clients /\ Clients \subseteq Nat
    /\ \A c \in Clients : SessionOf(c) \in Sessions
BY CyclesAssumption DEF Worker, NoOne, Clients, Sessions, SessionOf

LEMMA UsedIs ==
    /\ Used \subseteq Sessions /\ 0 \in Used
    /\ Cardinality(Used) \in Nat /\ Cardinality(Used) <= NClients /\ Cardinality(Used) >= 1
<1>1. Used \subseteq Sessions BY Numbers DEF Used
<1>2. 0 \in Used
  <2>1. 0 \in Clients /\ SessionOf(0) = 0 BY Numbers DEF SessionOf
  <2> QED BY <2>1 DEF Used
<1>3. IsFiniteSet(0 .. NClients - 1) /\ Cardinality(0 .. NClients - 1) = NClients
  <2>1. 0 \in Int /\ NClients - 1 \in Int BY Numbers
  <2>2. /\ IsFiniteSet(0 .. NClients - 1)
        /\ Cardinality(0 .. NClients - 1) = IF 0 > NClients - 1 THEN 0 ELSE (NClients - 1) - 0 + 1
    BY <2>1, FS_Interval
  <2> QED BY <2>2, Numbers
<1>4. IsFiniteSet(Used) /\ Cardinality(Used) <= NClients
  BY <1>1, <1>3, FS_Subset DEF Sessions, Clients
<1>5. Cardinality(Used) \in Nat /\ Cardinality(Used) # 0
  BY <1>2, <1>4, FS_CardinalityType, FS_EmptySet
<1> QED BY <1>1, <1>2, <1>4, <1>5

LEMMA TurnIs ==
    ASSUME turn \in Nat, turn < Cardinality(Used)
    PROVE  turn \in Sessions
BY UsedIs, Numbers DEF Sessions, Clients

LEMMA NoCycleIs ==
    /\ NoCycle \in Cycles /\ NoCycle.by = NoOne /\ NoCycle.unsent = 0 /\ NoCycle.got = "none"
    /\ Off \in ClientStates /\ Off.at = "off"
BY Numbers DEF NoCycle, Cycles, Off, ClientStates

-----------------------------------------------------------------------------
(* The types, action by action. *)

\* Every step, as far as sessions and clients see it.
LEMMA FreshIs == Fresh => AllFresh' /\ queue' = << >> /\ raised' = FALSE
BY DEF Fresh, AllFresh

LEMMA FreshTypes == Fresh /\ kind' \in Engines => SessionTypes'
<1> SUFFICES ASSUME Fresh, kind' \in Engines PROVE SessionTypes' OBVIOUS
<1>1. << >> \in Seq({"part", "query", "end"}) OBVIOUS
<1>2. NoOne \in 0 .. NoOne /\ NoCycle \in Cycles BY Numbers, NoCycleIs
<1> QED BY <1>1, <1>2 DEF Fresh, SessionTypes

LEMMA FailCyclesIs ==
    ASSUME SessionTypes, NEW S, FailCycles(S)
    PROVE  /\ cycle' \in [Sessions -> Cycles] /\ stale' \in [Sessions -> BOOLEAN]
           /\ \A s \in Sessions :
                 \/ cycle'[s] = cycle[s] /\ stale'[s] = stale[s] /\ ~ (s \in S /\ Waiting(s))
                 \/ /\ s \in S /\ Waiting(s) /\ cycle'[s].got = "failed"
                    /\ cycle'[s].by = cycle[s].by /\ cycle'[s].unsent = cycle[s].unsent
<1>1. cycle \in [Sessions -> Cycles] BY DEF SessionTypes
<1>2. \A s \in Sessions : cycle[s] \in Cycles /\ [cycle[s] EXCEPT !.got = "failed"] \in Cycles
  BY <1>1 DEF Cycles
<1>3. \A s \in Sessions : /\ [cycle[s] EXCEPT !.got = "failed"].got = "failed"
                          /\ [cycle[s] EXCEPT !.got = "failed"].by = cycle[s].by
                          /\ [cycle[s] EXCEPT !.got = "failed"].unsent = cycle[s].unsent
  BY <1>2 DEF Cycles
<1>4. cycle' = [s \in Sessions |-> IF s \in S /\ Waiting(s) THEN [cycle[s] EXCEPT !.got = "failed"] ELSE cycle[s]]
      /\ stale' = [s \in Sessions |-> stale[s] \/ (s \in S /\ Waiting(s) /\ backend[s] \in {"idle", "busy"})]
  BY DEF FailCycles, GivenUp
<1>5. stale \in [Sessions -> BOOLEAN] BY DEF SessionTypes
<1> QED BY <1>2, <1>3, <1>4, <1>5

\* A statement is put to session s.
LEMMA AskIs ==
    ASSUME SessionTypes, NEW s \in Sessions, NEW who \in 0 .. NoOne, Ask(s, who)
    PROVE  /\ Idle(s) /\ cycle' \in [Sessions -> Cycles]
           /\ cycle'[s].by = who /\ cycle'[s].got = "none" /\ (~ Piped => cycle'[s].unsent = 0)
           /\ Piped => cycle'[s].unsent > 0
           /\ \A r \in Sessions \ {s} : cycle'[r] = cycle[r]
           /\ mixed' = (mixed \/ inside[s] \notin {NoOne, who}) /\ mixed' \in BOOLEAN
<1>1. PICK n \in IF ~ Piped THEN {0} ELSE IF Long(who) THEN 1 .. Ring + 1 ELSE {1} :
          cycle' = [cycle EXCEPT ![s] = [by |-> who, unsent |-> n, got |-> "none",
                                         late |-> backend[s] \notin {"idle", "busy"}]]
  BY DEF Ask
<1>2. n \in Nat /\ (~ Piped => n = 0) /\ (Piped => n > 0) BY <1>1, CyclesAssumption
<1>3. [by |-> who, unsent |-> n, got |-> "none", late |-> backend[s] \notin {"idle", "busy"}] \in Cycles
  BY <1>2 DEF Cycles
<1>4. cycle \in [Sessions -> Cycles] BY DEF SessionTypes
<1>5. Idle(s) /\ mixed' = (mixed \/ inside[s] \notin {NoOne, who}) BY DEF Ask
<1> QED BY <1>1, <1>2, <1>3, <1>4, <1>5

\* What a session's steps do, place by place.
LEMMA GuestTakesIs ==
    ASSUME SessionTypes, NEW s \in Sessions, GuestTakes(s)
    PROVE  /\ backend[s] = "idle" /\ ring[s] # << >> /\ out[s] = "none"
           /\ ring' = [ring EXCEPT ![s] = Tail(ring[s])]
           /\ \E b \in {"idle", "busy", "gone"} :
                 /\ backend' = [backend EXCEPT ![s] = b]
                 /\ b = "busy" => Head(ring[s]) = "query"
                 /\ Head(ring[s]) = "query" => b = "busy"
                 /\ Head(ring[s]) = "part" => b = "idle"
           /\ UNCHANGED <<out, stale, cycle, alarm, inside, mixed, foreign>>
<1>1. /\ backend[s] = "idle" /\ ring[s] # << >> /\ out[s] = "none"
      /\ ring' = [ring EXCEPT ![s] = Tail(ring[s])]
      /\ UNCHANGED <<out, stale, cycle, alarm, inside, mixed, foreign>>
  BY DEF GuestTakes, history
<1>2. PICK b \in CASE Head(ring[s]) = "query" -> {"busy"}
                   [] Head(ring[s]) = "end" -> IF cycle[s].unsent > 0 THEN {"gone", "idle"} ELSE {"gone"}
                   [] OTHER -> {"idle"} :
          backend' = [backend EXCEPT ![s] = b]
  BY DEF GuestTakes
<1>3. CASE Head(ring[s]) = "query"
  <2>1. b = "busy" BY <1>2, <1>3
  <2> QED BY <1>1, <1>2, <1>3, <2>1
<1>4. CASE Head(ring[s]) = "end"
  <2>1. b \in {"gone", "idle"} BY <1>2, <1>4
  <2> QED BY <1>1, <1>2, <1>4, <2>1
<1>5. CASE Head(ring[s]) \notin {"query", "end"}
  <2>1. b = "idle" BY <1>2, <1>5
  <2> QED BY <1>1, <1>2, <1>5, <2>1
<1> QED BY <1>3, <1>4, <1>5

LEMMA RingIs ==
    ASSUME SessionTypes, NEW s \in Sessions
    PROVE  /\ ring[s] \in Seq({"part", "query", "end"})
           /\ ring[s] # << >> => Tail(ring[s]) \in Seq({"part", "query", "end"})
           /\ \A u \in {"part", "query", "end"} : Append(ring[s], u) \in Seq({"part", "query", "end"})
BY DEF SessionTypes

LEMMA GuestRepliesIs ==
    ASSUME SessionTypes, NEW s \in Sessions, GuestReplies(s)
    PROVE  \E r \in Answers :
              LET tx == IF cycle[s].by \in Clients THEN client[cycle[s].by].at ELSE "none" IN
              /\ inside' = [inside EXCEPT ![s] = IF tx = "begin" /\ r = "ok" THEN cycle[s].by
                                                  ELSE IF tx \in {"commit", "rollback"} THEN NoOne ELSE inside[s]]
              /\ tx = "rollback" => r = "ok"
              /\ \/ /\ Piped /\ backend[s] = "busy" /\ cycle' = cycle
                    /\ backend' = [backend EXCEPT ![s] = "idle"] /\ out' = [out EXCEPT ![s] = r]
                 \/ /\ ~ Piped /\ Waiting(s) /\ UNCHANGED <<backend, out>>
                    /\ cycle' = [cycle EXCEPT ![s] = [cycle[s] EXCEPT !.got = r]]
              /\ UNCHANGED <<ring, stale, alarm, mixed, foreign, plan, client, queue, raised>>
<1> DEFINE tx == IF cycle[s].by \in Clients THEN client[cycle[s].by].at ELSE "none"
<1>1. Replies(s, tx) /\ (~ Piped => Waiting(s)) /\ backend[s] = (IF Piped THEN "busy" ELSE "idle")
      /\ UNCHANGED clientVars
  BY DEF GuestReplies
<1> HIDE DEF tx
<1>2. PICK r \in IF tx = "rollback" THEN {"ok"} ELSE {"ok", "code", "bare"} :
       /\ inside' = [inside EXCEPT ![s] = IF tx = "begin" /\ r = "ok" THEN cycle[s].by
                                           ELSE IF tx \in {"commit", "rollback"} THEN NoOne ELSE inside[s]]
       /\ IF Piped
          THEN /\ backend' = [backend EXCEPT ![s] = "idle"]
               /\ out' = [out EXCEPT ![s] = r]
               /\ UNCHANGED cycle
          ELSE /\ cycle' = [cycle EXCEPT ![s].got = r]
               /\ UNCHANGED <<backend, out>>
       /\ UNCHANGED <<ring, stale, alarm, mixed, foreign>>
  BY <1>1 DEF Replies
<1>3. r \in Answers /\ (tx = "rollback" => r = "ok") BY <1>2 DEF Answers
<1>4. UNCHANGED <<plan, client, queue, raised>> BY <1>1 DEF clientVars
<1>5. CASE Piped BY <1>1, <1>2, <1>3, <1>4, <1>5 DEF tx
<1>6. CASE ~ Piped BY <1>1, <1>2, <1>3, <1>4, <1>6 DEF tx
<1> QED BY <1>5, <1>6

LEMMA SendIs ==
    ASSUME SessionTypes, NEW s \in Sessions, Send(s)
    PROVE  /\ cycle[s].unsent > 0
           /\ ring' = [ring EXCEPT ![s] = Append(ring[s], IF cycle[s].unsent = 1 THEN "query" ELSE "part")]
           /\ cycle' \in [Sessions -> Cycles]
           /\ cycle'[s].unsent = cycle[s].unsent - 1 /\ cycle'[s].by = cycle[s].by
           /\ cycle'[s].got = cycle[s].got
           /\ \A r \in Sessions \ {s} : cycle'[r] = cycle[r]
           /\ UNCHANGED <<backend, out, stale, alarm>>
<1>1. cycle \in [Sessions -> Cycles] /\ cycle[s] \in Cycles BY DEF SessionTypes
<1>2. cycle[s].unsent > 0 /\ cycle[s].unsent \in Nat BY <1>1 DEF Send, Cycles
<1>3. [cycle[s] EXCEPT !.unsent = cycle[s].unsent - 1] \in Cycles BY <1>1, <1>2 DEF Cycles
<1>4. cycle' = [cycle EXCEPT ![s] = [cycle[s] EXCEPT !.unsent = cycle[s].unsent - 1]] BY DEF Send
<1>5. /\ [cycle[s] EXCEPT !.unsent = cycle[s].unsent - 1].unsent = cycle[s].unsent - 1
      /\ [cycle[s] EXCEPT !.unsent = cycle[s].unsent - 1].by = cycle[s].by
      /\ [cycle[s] EXCEPT !.unsent = cycle[s].unsent - 1].got = cycle[s].got
  BY <1>1 DEF Cycles
<1> QED BY <1>1, <1>2, <1>3, <1>4, <1>5 DEF Send

LEMMA FeedIs ==
    ASSUME SessionTypes, NEW s \in Sessions, Feed(s)
    PROVE  /\ out[s] \in Answers /\ out' = [out EXCEPT ![s] = "none"]
           /\ cycle' \in [Sessions -> Cycles]
           /\ \A r \in Sessions : r # s \/ ~ Waiting(s) => cycle'[r] = cycle[r]
           /\ Waiting(s) => /\ cycle'[s].got = out[s] /\ cycle'[s].by = cycle[s].by
                            /\ cycle'[s].unsent = cycle[s].unsent
           /\ foreign' = (foreign \/ (stale[s] /\ Waiting(s))) /\ foreign' \in BOOLEAN
           /\ stale' = [stale EXCEPT ![s] = FALSE]
           /\ UNCHANGED <<backend, ring, alarm, inside, mixed>>
<1>1. cycle \in [Sessions -> Cycles] /\ cycle[s] \in Cycles BY DEF SessionTypes
<1>2. out[s] \in Answers BY DEF Feed, SessionTypes
<1>3. [cycle[s] EXCEPT !.got = out[s]] \in Cycles BY <1>1, <1>2 DEF Cycles
<1>4. cycle' = IF Waiting(s) THEN [cycle EXCEPT ![s] = [cycle[s] EXCEPT !.got = out[s]]] ELSE cycle
  BY DEF Feed
<1>5. /\ [cycle[s] EXCEPT !.got = out[s]].got = out[s]
      /\ [cycle[s] EXCEPT !.got = out[s]].by = cycle[s].by
      /\ [cycle[s] EXCEPT !.got = out[s]].unsent = cycle[s].unsent
  BY <1>1 DEF Cycles
<1>6. foreign' \in BOOLEAN /\ foreign' = (foreign \/ (stale[s] /\ Waiting(s))) BY DEF Feed
<1>7. CASE Waiting(s) BY <1>1, <1>2, <1>3, <1>4, <1>5, <1>6, <1>7 DEF Feed
<1>8. CASE ~ Waiting(s) BY <1>1, <1>2, <1>4, <1>6, <1>8 DEF Feed
<1> QED BY <1>7, <1>8

-----------------------------------------------------------------------------

LEMMA SessionKeepsTypes ==
    ASSUME SessionTypes, NotPiped, kind' = kind, NEW s \in Sessions, SessionStep(s)
    PROVE  SessionTypes' /\ NotPiped' /\ UNCHANGED clientVars
<1>1. Piped' = Piped BY DEF Piped
<1>2. CASE GuestTakes(s) /\ UNCHANGED clientVars
  <2>1. Piped BY <1>2, GuestTakesIs DEF NotPiped
  <2>2. SessionTypes' BY <1>2, GuestTakesIs, RingIs DEF SessionTypes
  <2> QED BY <1>1, <1>2, <2>1, <2>2 DEF NotPiped
<1>3. CASE GuestReplies(s)
  <2>1. PICK r \in Answers :
          /\ \E x \in {cycle[s].by, NoOne, inside[s]} : inside' = [inside EXCEPT ![s] = x]
          /\ \/ /\ Piped /\ cycle' = cycle
                /\ backend' = [backend EXCEPT ![s] = "idle"] /\ out' = [out EXCEPT ![s] = r]
             \/ /\ ~ Piped /\ Waiting(s) /\ UNCHANGED <<backend, out>>
                /\ cycle' = [cycle EXCEPT ![s] = [cycle[s] EXCEPT !.got = r]]
          /\ UNCHANGED <<ring, stale, alarm, mixed, foreign, plan, client, queue, raised>>
    BY <1>3, GuestRepliesIs
  <2>2. cycle[s] \in Cycles /\ cycle[s].by \in 0 .. NoOne /\ inside[s] \in 0 .. NoOne
    BY DEF SessionTypes, Cycles
  <2>3. inside' \in [Sessions -> 0 .. NoOne] BY <2>1, <2>2, Numbers DEF SessionTypes
  <2>4. /\ [cycle[s] EXCEPT !.got = r] \in Cycles /\ [cycle[s] EXCEPT !.got = r].got = r
        /\ [cycle[s] EXCEPT !.got = r].unsent = cycle[s].unsent
    BY <2>1, <2>2 DEF Cycles
  <2>5. CASE Piped
    <3>1. SessionTypes' BY <2>1, <2>3, <2>5 DEF SessionTypes
    <3> QED BY <1>1, <2>1, <2>5, <3>1 DEF NotPiped, clientVars
  <2>6. CASE ~ Piped
    <3>1. SessionTypes' BY <2>1, <2>3, <2>4, <2>6 DEF SessionTypes
    <3>2. cycle \in [Sessions -> Cycles] /\ r # "failed" BY <2>1 DEF SessionTypes, Answers
    <3>3. NotPiped' BY <1>1, <2>1, <2>4, <2>6, <3>2 DEF NotPiped
    <3> QED BY <2>1, <3>1, <3>3 DEF clientVars
  <2> QED BY <2>5, <2>6
<1>4. CASE Send(s) /\ UNCHANGED <<clientVars, history>>
  <2>1. Piped BY <1>4, SendIs DEF NotPiped
  <2>2. SessionTypes' BY <1>4, SendIs, RingIs DEF SessionTypes, history
  <2> QED BY <1>1, <1>4, <2>1, <2>2 DEF NotPiped
<1>5. CASE Feed(s) /\ UNCHANGED clientVars
  <2>1. Piped BY <1>5, FeedIs DEF NotPiped, Answers
  <2>2. SessionTypes' BY <1>5, FeedIs DEF SessionTypes
  <2> QED BY <1>1, <1>5, <2>1, <2>2 DEF NotPiped
<1>6. CASE PumpEnds(s) /\ UNCHANGED <<clientVars, history>>
  <2>1. /\ backend[s] = "gone" /\ backend' = [backend EXCEPT ![s] = "closed"]
        /\ FailCycles({s}) /\ UNCHANGED <<ring, out, alarm>>
    BY <1>6 DEF PumpEnds
  <2>2. Piped BY <2>1 DEF NotPiped
  <2>3. SessionTypes' BY <1>6, <2>1, FailCyclesIs DEF SessionTypes, history
  <2> QED BY <1>1, <1>6, <2>2, <2>3 DEF NotPiped
<1> QED BY <1>2, <1>3, <1>4, <1>5, <1>6 DEF SessionStep

LEMMA GuestKeepsTypes ==
    ASSUME SessionTypes, NotPiped, kind' = kind,
           (HandleEvent /\ UNCHANGED history) \/ SpawnRefused \/ \E s \in Used : GuestLeaves(s)
    PROVE  SessionTypes' /\ NotPiped'
<1>1. Piped' = Piped BY DEF Piped
<1>2. CASE HandleEvent /\ UNCHANGED history
  <2>1. Piped BY <1>2 DEF HandleEvent, NotPiped
  <2>2. SessionTypes' BY <1>2, FailCyclesIs DEF HandleEvent, SessionTypes, history
  <2> QED BY <1>1, <2>1, <2>2 DEF NotPiped
<1>3. CASE SpawnRefused
  <2>1. Piped BY <1>3 DEF SpawnRefused, Piped
  <2>2. SessionTypes' BY <1>3 DEF SpawnRefused, SessionTypes, history
  <2> QED BY <1>1, <2>1, <2>2 DEF NotPiped
<1>4. ASSUME NEW s \in Used, GuestLeaves(s) PROVE SessionTypes' /\ NotPiped'
  <2>1. PICK how \in {"gone", "stuck"} :
           /\ backend' = [backend EXCEPT ![s] = how]
           /\ alarm' = (alarm \/ how = "stuck" \/ Single)
    BY <1>4 DEF GuestLeaves
  <2>2. alarm' \in BOOLEAN BY <2>1
  <2>3. Piped /\ UNCHANGED <<ring, out, stale, cycle, inside, mixed, foreign>>
    BY <1>4 DEF GuestLeaves, history
  <2>4. s \in Sessions BY UsedIs
  <2>5. SessionTypes' BY <2>1, <2>2, <2>3, <2>4 DEF SessionTypes
  <2> QED BY <1>1, <2>3, <2>5 DEF NotPiped
<1> QED BY <1>2, <1>3, <1>4

-----------------------------------------------------------------------------
(* What a client's step does. *)

LEMMA MovedIs ==
    ASSUME ClientTypes, NEW c \in Clients,
           NEW to \in {"off", "next", "done", "thrown"} \cup InUnit, Moved(c, to)
    PROVE  /\ client' \in [Clients -> ClientStates]
           /\ client'[c].at = to /\ client'[c].step = client[c].step
           /\ \A d \in Clients \ {c} : client'[d] = client[d]
<1>1. client \in [Clients -> ClientStates] /\ client[c] \in ClientStates BY DEF ClientTypes
<1>2. [client[c] EXCEPT !.at = to] \in ClientStates BY <1>1 DEF ClientStates
<1>3. [client[c] EXCEPT !.at = to].at = to /\ [client[c] EXCEPT !.at = to].step = client[c].step
  BY <1>1 DEF ClientStates
<1>4. client' = [client EXCEPT ![c] = [client[c] EXCEPT !.at = to]] BY DEF Moved
<1> QED BY <1>1, <1>2, <1>3, <1>4

LEMMA UnitEndsIs ==
    ASSUME ClientTypes, NEW c \in Clients, NEW code, UnitEnds(c, code)
    PROVE  /\ client' \in [Clients -> ClientStates]
           /\ client'[c].at \in {"next", "thrown"}
           /\ \A d \in Clients \ {c} : client'[d] = client[d]
<1>1. client \in [Clients -> ClientStates] /\ client[c] \in ClientStates BY DEF ClientTypes
<1>2. client[c].step \in Nat /\ client[c].loops \in Nat BY <1>1 DEF ClientStates
<1>3. \E a \in {"next", "thrown"} : \E i \in {client[c].step, client[c].step + 1} :
      \E l \in {0, client[c].loops + 1} :
          client' = [client EXCEPT ![c] = [at |-> a, step |-> i, loops |-> l, code |-> "none"]]
  BY DEF UnitEnds
<1>4. PICK a \in {"next", "thrown"}, i \in Nat, l \in Nat :
          client' = [client EXCEPT ![c] = [at |-> a, step |-> i, loops |-> l, code |-> "none"]]
  <2>1. client[c].step + 1 \in Nat /\ client[c].loops + 1 \in Nat /\ 0 \in Nat BY <1>2
  <2> QED BY <1>2, <1>3, <2>1
<1>5. [at |-> a, step |-> i, loops |-> l, code |-> "none"] \in ClientStates BY <1>4 DEF ClientStates
<1> QED BY <1>1, <1>4, <1>5

LEMMA GiveBackIs ==
    ASSUME ClientTypes, GiveBack
    PROVE  queue' \in Seq(Clients) /\ (~ Single => queue' = queue)
<1>1. queue \in Seq(Clients) BY DEF ClientTypes
<1>2. queue # << >> => Tail(queue) \in Seq(Clients) BY <1>1
<1> QED BY <1>1, <1>2 DEF GiveBack

\* A verdict other than "thrown" is on an answer.
LEMMA VerdictIs ==
    ASSUME kind \in Engines, NEW got, Verdict(got) # "thrown"
    PROVE  got \in Answers /\ (Verdict(got) = "ran" <=> got = "ok") /\ (Verdict(got) = "refused" <=> got # "ok")
<1>1. Refuses \subseteq {"code", "bare"}
  BY DEF Refuses, Engines, PgliteRefuses, WasqliteRefuses, WireRefuses, PostmasterRefuses
<1>2. CASE got = "ok" BY <1>1, <1>2 DEF Verdict, Answers
<1>3. CASE got # "ok" /\ got \in Refuses
  <2>1. Verdict(got) = "refused" BY <1>3 DEF Verdict
  <2> QED BY <1>1, <1>3, <2>1 DEF Answers
<1>4. CASE got # "ok" /\ got \notin Refuses BY <1>4 DEF Verdict
<1> QED BY <1>2, <1>3, <1>4

LEMMA EnterIs ==
    ASSUME ClientTypes, NEW c \in Clients, Enter(c)
    PROVE  /\ client[c].at = "next" /\ client' \in [Clients -> ClientStates]
           /\ \/ client'[c].at \in {"next", "body"}
              \/ client'[c].at = "begin" /\ client'[c].step = client[c].step /\ InTransaction(c)
           /\ \A d \in Clients \ {c} : client'[d] = client[d]
           /\ queue' \in Seq(Clients) /\ raised' \in BOOLEAN
           /\ queue' = queue \/ queue' = Append(queue, c)
           /\ UNCHANGED <<plan, backend, ring, out, stale, cycle, alarm, inside, mixed, foreign>>
<1> DEFINE step == Program(c)[client[c].step]
<1>1. client[c].at = "next" /\ UNCHANGED <<plan, backend, ring, out, stale, cycle, alarm, inside, mixed, foreign>>
  BY DEF Enter, sessionVars, history
<1>2. queue \in Seq(Clients) /\ Append(queue, c) \in Seq(Clients) /\ raised \in BOOLEAN BY DEF ClientTypes
<1>3. CASE step = "signal"
  <2>1. client \in [Clients -> ClientStates] /\ client[c] \in ClientStates /\ client[c].step \in Nat
    BY DEF ClientTypes, ClientStates
  <2>2. raised' = TRUE /\ queue' = queue
        /\ client' = [client EXCEPT ![c] = [client[c] EXCEPT !.step = client[c].step + 1]]
    BY <1>3 DEF Enter
  <2>3. [client[c] EXCEPT !.step = client[c].step + 1] \in ClientStates
        /\ [client[c] EXCEPT !.step = client[c].step + 1].at = client[c].at
    BY <2>1 DEF ClientStates
  <2> QED BY <1>1, <1>2, <2>1, <2>2, <2>3
<1>4. CASE step # "signal"
  <2>1. Moved(c, IF step = "transaction" THEN "begin" ELSE "body") BY <1>4 DEF Enter
  <2>2. queue' = (IF Single THEN Append(queue, c) ELSE queue) /\ raised' = raised
    BY <1>4 DEF Enter
  <2>3. CASE step = "transaction"
    <3>1. Moved(c, "begin") /\ InTransaction(c) BY <2>1, <2>3 DEF InTransaction
    <3> QED BY <1>1, <1>2, <2>2, <3>1, MovedIs DEF InUnit
  <2>4. CASE step # "transaction"
    <3>1. Moved(c, "body") BY <2>1, <2>4
    <3> QED BY <1>1, <1>2, <2>2, <3>1, MovedIs DEF InUnit
  <2> QED BY <2>3, <2>4
<1> QED BY <1>3, <1>4

LEMMA EndsIs ==
    ASSUME ClientTypes, NEW c \in Clients, ClientEnds(c)
    PROVE  /\ client[c].at = "next" /\ client' \in [Clients -> ClientStates] /\ client'[c].at = "done"
           /\ \A d \in Clients \ {c} : client'[d] = client[d]
           /\ UNCHANGED <<plan, queue, raised, backend, ring, out, stale, cycle, alarm, inside, mixed, foreign>>
BY MovedIs DEF ClientEnds, sessionVars, history

\* Only an unanswered or unhearable cycle throws where the session is not given
\* back by a unit's end.
LEMMA HearsIs ==
    ASSUME SessionTypes, ClientTypes, NotPiped, NEW c \in Clients, ClientHears(c)
    PROVE  LET s == SessionOf(c)
               got == cycle[s].got IN
           /\ cycle[s].by = c /\ Settled(s) /\ client[c].at \in InUnit
           /\ cycle' = [cycle EXCEPT ![s] = NoCycle]
           /\ client' \in [Clients -> ClientStates]
           /\ \A d \in Clients \ {c} : client'[d] = client[d]
           /\ queue' \in Seq(Clients) /\ (queue' = queue \/ GiveBack)
           /\ \/ client'[c].at = "thrown"
              \/ /\ client[c].at = "begin" /\ client'[c].at = "body" /\ got = "ok"
                 /\ client'[c].step = client[c].step /\ queue' = queue
              \/ /\ client[c].at = "body" /\ InTransaction(c) /\ client'[c].at \in {"commit", "rollback"}
                 /\ got \in Answers /\ client'[c].step = client[c].step /\ queue' = queue
              \/ /\ client'[c].at = "next" /\ got \in Answers /\ GiveBack
                 /\ \/ client[c].at \in {"commit", "rollback"}
                    \/ client[c].at = "body" /\ ~ InTransaction(c)
                    \/ client[c].at = "begin" /\ got # "ok"
           /\ UNCHANGED <<plan, raised, backend, ring, out, stale, alarm, inside, mixed, foreign>>
<1> DEFINE s == SessionOf(c)
           got == cycle[s].got
           said == Verdict(got)
           at0 == client[c].at
<1>1. /\ cycle[s].by = c /\ Settled(s) /\ at0 \in InUnit
      /\ cycle' = [cycle EXCEPT ![s] = NoCycle]
      /\ UNCHANGED <<plan, raised, backend, ring, out, stale, alarm, inside, mixed, foreign>>
  BY DEF ClientHears, history
<1> DEFINE Keeps == /\ client' \in [Clients -> ClientStates]
                    /\ \A d \in Clients \ {c} : client'[d] = client[d]
                    /\ queue' \in Seq(Clients) /\ (queue' = queue \/ GiveBack)
           Which == \/ client'[c].at = "thrown"
                    \/ /\ at0 = "begin" /\ client'[c].at = "body" /\ got = "ok"
                       /\ client'[c].step = client[c].step /\ queue' = queue
                    \/ /\ at0 = "body" /\ InTransaction(c) /\ client'[c].at \in {"commit", "rollback"}
                       /\ got \in Answers /\ client'[c].step = client[c].step /\ queue' = queue
                    \/ /\ client'[c].at = "next" /\ got \in Answers /\ GiveBack
                       /\ \/ at0 \in {"commit", "rollback"}
                          \/ at0 = "body" /\ ~ InTransaction(c)
                          \/ at0 = "begin" /\ got # "ok"
<1>2. /\ s \in Sessions /\ cycle[s] \in Cycles /\ client[c] \in ClientStates /\ queue \in Seq(Clients)
      /\ client \in [Clients -> ClientStates] /\ kind \in Engines
  BY Numbers DEF SessionTypes, ClientTypes
<1>3. got \in Answers \cup {"failed"}
  <2>1. got # "none" BY <1>1 DEF Settled
  <2> QED BY <1>2, <2>1 DEF Cycles
<1>4. /\ said # "thrown" => got \in Answers
      /\ said = "ran" => got = "ok"
      /\ said = "refused" => got # "ok"
  BY <1>2, VerdictIs
<1>5. kind = "pglite" => got \in Answers
  <2>1. kind = "pglite" => ~ Piped BY DEF Piped
  <2> QED BY <1>2, <1>3, <2>1 DEF NotPiped
<1> SUFFICES Keeps /\ Which BY <1>1
<1>6. ASSUME NEW to \in {"body", "commit", "rollback", "thrown"}, Moved(c, to)
      PROVE  /\ client' \in [Clients -> ClientStates]
             /\ client'[c].at = to /\ client'[c].step = client[c].step
             /\ \A d \in Clients \ {c} : client'[d] = client[d]
  BY <1>6, MovedIs DEF InUnit
<1>7. ASSUME Throws(c) PROVE Keeps /\ Which
  BY <1>2, <1>6, <1>7, GiveBackIs DEF Throws
<1>8. ASSUME NEW code, UnitEnds(c, code), GiveBack, got \in Answers,
             \/ at0 \in {"commit", "rollback"}
             \/ at0 = "body" /\ ~ InTransaction(c)
             \/ at0 = "begin" /\ got # "ok"
      PROVE  Keeps /\ Which
  BY <1>2, <1>8, UnitEndsIs, GiveBackIs
<1>9. \/ said = "ran" /\ at0 = "begin" /\ Moved(c, "body") /\ UNCHANGED queue
      \/ said = "ran" /\ at0 = "body" /\ InTransaction(c) /\ Moved(c, "commit") /\ UNCHANGED queue
      \/ /\ said = "ran" /\ (at0 = "commit" \/ (at0 = "body" /\ ~ InTransaction(c)))
         /\ UnitEnds(c, "none") /\ GiveBack
      \/ at0 = "rollback" /\ said # "thrown" /\ UnitEnds(c, client[c].code) /\ GiveBack
      \/ /\ at0 = "body" /\ InTransaction(c) /\ (said = "refused" \/ kind = "pglite")
         /\ client' = [client EXCEPT ![c].at = "rollback", ![c].code = got] /\ UNCHANGED queue
      \/ /\ said = "refused" /\ (at0 = "commit" \/ at0 = "begin" \/ (at0 = "body" /\ ~ InTransaction(c)))
         /\ UnitEnds(c, got) /\ GiveBack
      \/ Throws(c)
  BY DEF ClientHears
<1> HIDE DEF s, got, said, at0
<1>10. CASE said = "ran" /\ at0 = "begin" /\ Moved(c, "body") /\ UNCHANGED queue
  BY <1>2, <1>4, <1>6, <1>10
<1>11. CASE said = "ran" /\ at0 = "body" /\ InTransaction(c) /\ Moved(c, "commit") /\ UNCHANGED queue
  BY <1>2, <1>4, <1>6, <1>11
<1>12. CASE /\ said = "ran" /\ (at0 = "commit" \/ (at0 = "body" /\ ~ InTransaction(c)))
            /\ UnitEnds(c, "none") /\ GiveBack
  BY <1>4, <1>8, <1>12
<1>13. CASE at0 = "rollback" /\ said # "thrown" /\ UnitEnds(c, client[c].code) /\ GiveBack
  BY <1>4, <1>8, <1>13
<1>14. CASE /\ at0 = "body" /\ InTransaction(c) /\ (said = "refused" \/ kind = "pglite")
            /\ client' = [client EXCEPT ![c].at = "rollback", ![c].code = got] /\ UNCHANGED queue
  <2>1. client' = [client EXCEPT ![c] = [client[c] EXCEPT !.at = "rollback", !.code = got]] BY <1>2, <1>14
  <2>2. got \in Answers BY <1>4, <1>5, <1>14
  <2>3. /\ [client[c] EXCEPT !.at = "rollback", !.code = got] \in ClientStates
        /\ [client[c] EXCEPT !.at = "rollback", !.code = got].at = "rollback"
        /\ [client[c] EXCEPT !.at = "rollback", !.code = got].step = client[c].step
    BY <1>2, <2>2 DEF ClientStates, InUnit
  <2> QED BY <1>2, <1>14, <2>1, <2>2, <2>3
<1>15. CASE /\ said = "refused" /\ (at0 = "commit" \/ at0 = "begin" \/ (at0 = "body" /\ ~ InTransaction(c)))
            /\ UnitEnds(c, got) /\ GiveBack
  BY <1>4, <1>8, <1>15
<1> QED BY <1>7, <1>9, <1>10, <1>11, <1>12, <1>13, <1>14, <1>15

LEMMA ClientKeepsTypes ==
    ASSUME SessionTypes, ClientTypes, NotPiped, kind' = kind, NEW c \in Clients, ClientStep(c)
    PROVE  SessionTypes' /\ ClientTypes' /\ NotPiped'
<1>1. Piped' = Piped BY DEF Piped
<1>2. CASE Enter(c)
  <2>1. SessionTypes' /\ NotPiped' BY <1>1, <1>2, EnterIs DEF SessionTypes, NotPiped
  <2> QED BY <1>2, <2>1, EnterIs DEF ClientTypes
<1>3. CASE ClientEnds(c)
  <2>1. SessionTypes' /\ NotPiped' BY <1>1, <1>3, EndsIs DEF SessionTypes, NotPiped
  <2> QED BY <1>3, <2>1, EndsIs DEF ClientTypes
<1>4. CASE ClientAsks(c)
  <2>1. SessionOf(c) \in Sessions /\ c \in 0 .. NoOne BY Numbers
  <2>2. Ask(SessionOf(c), c) /\ UNCHANGED <<backend, ring, out, stale, alarm, inside, foreign, plan, client, queue, raised>>
    BY <1>4 DEF ClientAsks, clientVars
  <2>3. SessionTypes' BY <2>1, <2>2, AskIs DEF SessionTypes
  <2>4. NotPiped'
    <3>1. \A r \in Sessions : ~ Piped => cycle'[r].unsent = 0 /\ cycle'[r].got # "failed"
      BY <2>1, <2>2, AskIs DEF NotPiped
    <3> QED BY <1>1, <2>2, <3>1 DEF NotPiped
  <2> QED BY <2>2, <2>3, <2>4 DEF ClientTypes
<1>5. CASE ClientHears(c)
  <2>1. SessionOf(c) \in Sessions BY Numbers
  <2>2. cycle' \in [Sessions -> Cycles]
        /\ \A r \in Sessions : cycle'[r] = cycle[r] \/ cycle'[r] = NoCycle
    <3>1. cycle' = [cycle EXCEPT ![SessionOf(c)] = NoCycle] BY <1>5, HearsIs
    <3>2. cycle \in [Sessions -> Cycles] BY DEF SessionTypes
    <3> QED BY <2>1, <3>1, <3>2, NoCycleIs
  <2>3. UNCHANGED <<plan, raised, backend, ring, out, stale, alarm, inside, mixed, foreign>>
        /\ client' \in [Clients -> ClientStates] /\ queue' \in Seq(Clients)
    BY <1>5, HearsIs
  <2>4. SessionTypes' BY <2>2, <2>3 DEF SessionTypes
  <2>5. NotPiped' BY <1>1, <2>2, <2>3, NoCycleIs DEF NotPiped
  <2> QED BY <2>3, <2>4, <2>5 DEF ClientTypes
<1> QED BY <1>2, <1>3, <1>4, <1>5 DEF ClientStep

-----------------------------------------------------------------------------
(* What a step of the worker does, and the types it keeps. *)

TurnInv == /\ stage = "opening" => turn = 0
           /\ stage = "handshake" => turn < Cardinality(Used)
TypeInv == SessionTypes /\ ClientTypes /\ NotPiped /\ TurnInv

\* The loops over the sessions stay among them.
LEMMA TurnSits ==
    ASSUME RunInv, TurnInv, stage = "handshake" \/ ~ Prepared
    PROVE  turn \in Sessions /\ turn < Cardinality(Used)
<1>1. turn \in Nat BY DEF RunInv, RunTypes
<1>2. turn < Cardinality(Used)
  <2>1. CASE stage = "handshake" BY <2>1 DEF TurnInv
  <2>2. CASE ~ Prepared
    <3>1. ~ (turn >= Cardinality(Used)) BY <2>2 DEF Prepared
    <3> QED BY <1>1, <3>1, UsedIs
  <2> QED BY <2>1, <2>2
<1> QED BY <1>1, <1>2, TurnIs

LEMMA AsksAtIs ==
    ASSUME SessionTypes, ClientTypes, NotPiped, kind' = kind, NEW s \in Sessions, AsksAt(s)
    PROVE  /\ SessionTypes' /\ ClientTypes' /\ NotPiped' /\ Idle(s)
           /\ cycle'[s].by = Worker /\ cycle'[s].got = "none"
           /\ \A r \in Sessions \ {s} : cycle'[r] = cycle[r]
           /\ mixed' = (mixed \/ inside[s] \notin {NoOne, Worker})
           /\ UNCHANGED <<stage, turn, owned, dirs, excused, worker, fatal, call>>
           /\ UNCHANGED <<backend, ring, out, stale, alarm, plan, client, queue, raised, inside, foreign, pageVars>>
<1>1. Ask(s, Worker) /\ Worker \in 0 .. NoOne BY Numbers DEF AsksAt
<1>2. /\ UNCHANGED <<stage, turn, owned, dirs, excused, worker, fatal, call>>
      /\ UNCHANGED <<backend, ring, out, stale, alarm, plan, client, queue, raised, inside, foreign, pageVars>>
  BY DEF AsksAt, callVars, clientVars
<1>3. Piped' = Piped BY DEF Piped
<1>4. SessionTypes' BY <1>1, <1>2, AskIs DEF SessionTypes
<1>5. \A r \in Sessions : ~ Piped => cycle'[r].unsent = 0 /\ cycle'[r].got # "failed"
  BY <1>1, AskIs DEF NotPiped
<1>6. NotPiped' BY <1>2, <1>3, <1>5 DEF NotPiped
<1>7. ClientTypes' BY <1>2 DEF ClientTypes
<1> QED BY <1>1, <1>2, <1>4, <1>6, <1>7, AskIs

LEMMA HearsAtIs ==
    ASSUME SessionTypes, ClientTypes, NotPiped, NEW s \in Sessions, HearsAt(s),
           UNCHANGED <<kind, backend, ring, out, stale, alarm, clientVars, history>>
    PROVE  /\ SessionTypes' /\ ClientTypes' /\ NotPiped'
           /\ cycle[s].by = Worker /\ Settled(s) /\ cycle'[s] = NoCycle
           /\ \A r \in Sessions \ {s} : cycle'[r] = cycle[r]
<1>1. Piped' = Piped BY DEF Piped
<1>2. cycle[s].by = Worker /\ Settled(s) /\ cycle' = [cycle EXCEPT ![s] = NoCycle] BY DEF HearsAt
<1>3. cycle \in [Sessions -> Cycles] BY DEF SessionTypes
<1>4. \A r \in Sessions : cycle'[r] = (IF r = s THEN NoCycle ELSE cycle[r]) BY <1>2, <1>3
<1>5. cycle' \in [Sessions -> Cycles] BY <1>2, <1>3, NoCycleIs
<1>6. SessionTypes' BY <1>5 DEF SessionTypes, history
<1>7. NotPiped' BY <1>1, <1>4, NoCycleIs DEF NotPiped
<1>8. ClientTypes' BY DEF ClientTypes, clientVars
<1> QED BY <1>2, <1>4, <1>6, <1>7, <1>8

LEMMA SameTypes ==
    ASSUME SessionTypes, ClientTypes, NotPiped, UNCHANGED <<kind, sessionVars, clientVars, history>>
    PROVE  SessionTypes' /\ ClientTypes' /\ NotPiped'
BY DEF SessionTypes, ClientTypes, NotPiped, Piped, sessionVars, clientVars, history

\* The handshake with each session in turn.
LEMMA HandshakeIs ==
    ASSUME RunInv, TypeInv, ~ fatal, Handshake
    PROVE  /\ stage = "handshake" /\ turn \in Sessions /\ turn < Cardinality(Used)
           /\ \/ AsksAt(turn)
              \/ /\ HearsAt(turn) /\ cycle[turn].got # "ok" /\ stage' = "ending" /\ call' = call
                 /\ UNCHANGED <<worker, fatal, kind, backend, ring, out, stale, alarm, clientVars, history, pageVars>>
              \/ /\ HearsAt(turn) /\ cycle[turn].got = "ok"
                 /\ \/ stage' = "up" /\ Answer("ok")
                    \/ /\ stage' = "handshake" /\ turn' = turn + 1 /\ turn' < Cardinality(Used)
                       /\ call' = call
                 /\ UNCHANGED <<worker, fatal, kind, backend, ring, out, stale, alarm, clientVars, history, pageVars>>
              \/ /\ stage' = "ending" /\ UNCHANGED <<kind, call, worker, fatal, sessionVars, clientVars, history, pageVars>>
<1>1. stage = "handshake" /\ turn \in Sessions /\ turn < Cardinality(Used) BY TurnSits DEF Handshake, TypeInv
<1>2. turn \in Nat /\ Cardinality(Used) \in Nat BY UsedIs DEF RunInv, RunTypes
<1>3. ~ LastTurn => turn + 1 < Cardinality(Used)
  <2> SUFFICES ASSUME ~ (turn >= Cardinality(Used) - 1) PROVE turn + 1 < Cardinality(Used) BY DEF LastTurn
  <2> QED BY <1>2
<1>4. CASE AsksAt(turn) BY <1>1, <1>4
<1>5. CASE /\ HearsAt(turn)
           /\ IF cycle[turn].got # "ok" THEN stage' = "ending" /\ turn' = 0 /\ UNCHANGED call
              ELSE IF LastTurn THEN stage' = "up" /\ turn' = 0 /\ Answer("ok")
              ELSE stage' = "handshake" /\ turn' = turn + 1 /\ UNCHANGED call
           /\ UNCHANGED <<owned, dirs, excused, worker, fatal, kind, backend, ring, out, stale, alarm,
                          clientVars, history, pageVars>>
  <2>1. CASE cycle[turn].got # "ok" BY <1>1, <1>5, <2>1
  <2>2. CASE cycle[turn].got = "ok" /\ LastTurn BY <1>1, <1>5, <2>2
  <2>3. CASE cycle[turn].got = "ok" /\ ~ LastTurn BY <1>1, <1>3, <1>5, <2>3
  <2> QED BY <2>1, <2>2, <2>3
<1>6. CASE /\ stage' = "ending" /\ UNCHANGED <<cycle, call>>
           /\ UNCHANGED <<owned, dirs, excused, worker, fatal, kind, backend, ring, out, stale, alarm,
                          clientVars, history, pageVars>>
  BY <1>1, <1>6 DEF sessionVars
<1> QED BY <1>4, <1>5, <1>6 DEF Handshake

\* A statement of its own.
LEMMA StatementIs ==
    ASSUME RunsStatement
    PROVE  /\ Serving("exec") \/ Serving("measure")
           /\ \/ AsksAt(0)
              \/ /\ HearsAt(0) /\ ((cycle[0].got = "ok" /\ Answer("ok")) \/ (cycle[0].got # "ok" /\ Answer("error")))
                 /\ UNCHANGED <<worker, fatal, kind, backend, ring, out, stale, alarm, clientVars, history, pageVars,
                                engineVars>>
<1>1. Serving("exec") \/ Serving("measure") BY DEF RunsStatement
<1>2. CASE AsksAt(0) BY <1>1, <1>2
<1>3. CASE /\ HearsAt(0) /\ Answer(IF cycle[0].got = "ok" THEN "ok" ELSE "error")
           /\ UNCHANGED <<worker, fatal, kind, backend, ring, out, stale, alarm, clientVars, history, pageVars,
                          engineVars>>
  <2>1. CASE cycle[0].got = "ok"
    <3>1. Answer("ok") BY <1>3, <2>1
    <3> QED BY <1>1, <1>3, <2>1, <3>1
  <2>2. CASE cycle[0].got # "ok"
    <3>1. Answer("error") BY <1>3, <2>2
    <3> QED BY <1>1, <1>3, <2>2, <3>1
  <2> QED BY <2>1, <2>2
<1> QED BY <1>2, <1>3 DEF RunsStatement

\* The scenario's setup, its start and its end.
LEMMA ScenarioIs ==
    ASSUME RunInv, TypeInv, RunsScenario
    PROVE  /\ Serving("concurrent")
           /\ \/ ~ Prepared /\ turn \in Sessions /\ AsksAt(turn)
              \/ /\ ~ Prepared /\ turn \in Sessions /\ HearsAt(turn) /\ stage' = stage
                 /\ \/ cycle[turn].got = "ok" /\ turn' = turn + 1 /\ call' = call
                    \/ cycle[turn].got # "ok" /\ Answer("error") /\ turn' = turn
                 /\ UNCHANGED <<worker, fatal, kind, backend, ring, out, stale, alarm, clientVars, history, pageVars>>
              \/ /\ Prepared /\ \A c \in Clients : client[c].at = "off"
                 /\ client' = [c \in Clients |-> [Off EXCEPT !.at = "next"]]
                 /\ UNCHANGED <<plan, queue, raised, kind, sessionVars, history, pageVars, callVars, engineVars>>
              \/ /\ AllDone /\ Answer("ok")
                 /\ UNCHANGED <<worker, fatal, kind, sessionVars, clientVars, history, pageVars, engineVars>>
              \/ /\ Thrown /\ Answer("error") /\ Abandon
                 /\ UNCHANGED <<worker, fatal, kind, plan, sessionVars, pageVars, engineVars>>
<1>1. ~ Prepared => turn \in Sessions BY TurnSits DEF TypeInv
<1> QED BY <1>1 DEF RunsScenario

LEMMA EndIs ==
    ASSUME RunInv, TypeInv, ~ fatal, SendsEnd
    PROVE  /\ stage = "ending" /\ stage' \in {"ending", "leaving"}
           /\ UNCHANGED <<worker, fatal, kind, call, backend, out, stale, cycle, alarm, clientVars, history, pageVars>>
           /\ \/ UNCHANGED ring
              \/ /\ Piped /\ turn \in Sessions
                 /\ ring' = [ring EXCEPT ![turn] = Append(ring[turn], "end")]
<1>1. Used \subseteq Sessions BY UsedIs
<1> QED BY <1>1 DEF SendsEnd, EndThreads, EndPostmaster, callVars, Piped

\* Whatever the worker does, its script is evaluated, and it reports no error.
LEMMA WorkerRuns ==
    ASSUME RunInv, ~ fatal, WorkerStep
    PROVE  worker = "ready" /\ worker' = "ready" /\ ~ fatal'
<1>1. worker' = worker /\ fatal' = fatal BY WorkerStays
<1>2. CASE Serve BY <1>1, <1>2 DEF Serve
<1>3. CASE stage \notin {"none", "up"} BY <1>1, <1>3, StageIs
<1>4. CASE RunsStatement \/ RunsScenario \/ Stats
  BY <1>1, <1>4 DEF RunsStatement, RunsScenario, Stats, Serving
<1>5. WorkerStep => Serve \/ RunsStatement \/ RunsScenario \/ Stats \/ stage \in {"opening", "handshake", "ending", "leaving", "removing"}
  BY DEF WorkerStep, Opens, Handshake, SendsEnd, Leaves, Removes
<1> QED BY <1>2, <1>3, <1>4, <1>5

LEMMA OpensTypes ==
    ASSUME RunInv, TypeInv, Opens
    PROVE  /\ SessionTypes' /\ ClientTypes' /\ NotPiped'
           /\ backend' = backend \/ Ready
           /\ UNCHANGED <<kind, ring, out, stale, cycle, alarm, clientVars, history, pageVars, turn, worker, fatal>>
<1>1. UNCHANGED <<kind, ring, out, stale, cycle, alarm, clientVars, history, pageVars, turn, worker, fatal>>
  BY DEF Opens
<1>2. backend' = backend \/ Ready BY OpensIs
<1>3. backend' \in [Sessions -> {"none", "idle", "busy", "gone", "stuck", "closed"}]
      /\ \A s \in Sessions : backend'[s] = backend[s] \/ backend'[s] \in {"none", "idle"}
  BY <1>2 DEF Ready, TypeInv, SessionTypes
<1>4. Piped' = Piped BY <1>1 DEF Piped
<1>5. SessionTypes' BY <1>1, <1>3 DEF TypeInv, SessionTypes, history
<1>6. NotPiped' BY <1>1, <1>3, <1>4 DEF TypeInv, NotPiped
<1>7. ClientTypes' BY <1>1 DEF TypeInv, ClientTypes, clientVars
<1> QED BY <1>1, <1>2, <1>5, <1>6, <1>7

LEMMA WorkerKeepsTypes == RunInv /\ TypeInv /\ OfWorker => TypeInv'
<1> SUFFICES ASSUME RunInv, TypeInv, ~ fatal, WorkerStep PROVE TypeInv' BY DEF OfWorker
<1>1. SessionTypes /\ ClientTypes /\ NotPiped /\ TurnInv BY DEF TypeInv
<1>2. kind' = kind BY WorkerStays
<1>3. Used' = Used /\ Piped' = Piped BY <1>2 DEF Used, SessionOf, Single, Piped
<1>4. UNCHANGED <<stage, turn>> => TurnInv' BY <1>1, <1>3 DEF TurnInv
<1>5. stage' \notin {"opening", "handshake"} => TurnInv' BY DEF TurnInv
<1>6. CASE Serve
  <2>1. UNCHANGED <<kind, sessionVars, clientVars, history>> /\ turn' = 0 BY <1>6 DEF Serve
  <2>2. stage' # "handshake"
    <3>1. stage \in {"none", "up"} BY <1>6 DEF RunInv, CallInv, Serve
    <3> QED BY <1>6, <3>1 DEF Serve
  <2> QED BY <1>1, <2>1, <2>2, SameTypes DEF TypeInv, TurnInv
<1>7. CASE Opens
  <2>1. SessionTypes' /\ ClientTypes' /\ NotPiped' /\ turn' = turn BY <1>7, OpensTypes
  <2>2. turn = 0 /\ 0 < Cardinality(Used)
    <3>1. turn = 0 BY <1>1, <1>7 DEF Opens, TurnInv
    <3>2. Cardinality(Used) \in Nat /\ Cardinality(Used) >= 1 BY UsedIs
    <3> QED BY <3>1, <3>2
  <2> QED BY <1>3, <2>1, <2>2 DEF TypeInv, TurnInv
<1>8. CASE Handshake
  <2>1. CASE AsksAt(turn)
    <3>1. turn \in Sessions BY <1>8, HandshakeIs
    <3> QED BY <1>1, <1>2, <1>4, <2>1, <3>1, AsksAtIs DEF TypeInv
  <2>2. CASE /\ HearsAt(turn)
             /\ \/ stage' \in {"ending", "up"}
                \/ stage' = "handshake" /\ turn' < Cardinality(Used)
             /\ UNCHANGED <<kind, backend, ring, out, stale, alarm, clientVars, history>>
    <3>1. turn \in Sessions BY <1>8, HandshakeIs
    <3>2. SessionTypes' /\ ClientTypes' /\ NotPiped' BY <1>1, <2>2, <3>1, HearsAtIs
    <3> QED BY <1>3, <2>2, <3>2 DEF TypeInv, TurnInv
  <2>3. CASE stage' = "ending" /\ UNCHANGED <<kind, sessionVars, clientVars, history>>
    BY <1>1, <1>5, <2>3, SameTypes DEF TypeInv
  <2> QED BY <1>8, <2>1, <2>2, <2>3, HandshakeIs
<1>9. CASE RunsStatement
  <2>1. 0 \in Sessions BY Numbers
  <2>2. CASE AsksAt(0) BY <1>1, <1>2, <1>4, <2>1, <2>2, AsksAtIs DEF TypeInv
  <2>3. CASE HearsAt(0) /\ UNCHANGED <<kind, backend, ring, out, stale, alarm, clientVars, history, engineVars>>
    BY <1>1, <1>4, <2>1, <2>3, HearsAtIs DEF TypeInv, engineVars
  <2> QED BY <1>9, <2>2, <2>3, StatementIs
<1>10. CASE RunsScenario
  <2>1. call.st = "serving" /\ call.req = "concurrent" BY <1>10 DEF RunsScenario, Serving
  <2>2. stage \in {"none", "up"} BY <2>1 DEF RunInv, CallInv
  <2>3. CASE turn \in Sessions /\ AsksAt(turn) BY <1>1, <1>2, <1>4, <2>3, AsksAtIs DEF TypeInv
  <2>4. CASE turn \in Sessions /\ HearsAt(turn) /\ stage' = stage
             /\ UNCHANGED <<kind, backend, ring, out, stale, alarm, clientVars, history>>
    BY <1>1, <1>5, <2>2, <2>4, HearsAtIs DEF TypeInv
  <2>5. CASE /\ client' = [c \in Clients |-> [Off EXCEPT !.at = "next"]]
             /\ UNCHANGED <<plan, queue, raised, kind, sessionVars, history, engineVars>>
    <3>1. [Off EXCEPT !.at = "next"] \in ClientStates BY NoCycleIs DEF ClientStates
    <3>2. ClientTypes' BY <1>1, <2>5, <3>1 DEF ClientTypes
    <3>3. SessionTypes' /\ NotPiped' BY <1>1, <1>3, <2>5 DEF SessionTypes, NotPiped, sessionVars, history
    <3> QED BY <1>4, <2>5, <3>2, <3>3 DEF TypeInv, engineVars
  <2>6. CASE UNCHANGED <<kind, sessionVars, clientVars, history, engineVars>>
    BY <1>1, <1>4, <2>6, SameTypes DEF TypeInv, engineVars
  <2>7. CASE Abandon /\ UNCHANGED <<kind, plan, sessionVars, engineVars>>
    <3>1. << >> \in Seq(Clients) OBVIOUS
    <3>2. ClientTypes' BY <1>1, <2>7, <3>1, NoCycleIs DEF ClientTypes, Abandon
    <3>3. SessionTypes' BY <1>1, <2>7, Numbers DEF SessionTypes, Abandon, sessionVars
    <3>4. NotPiped' BY <1>1, <1>3, <2>7 DEF NotPiped, sessionVars
    <3> QED BY <1>4, <2>7, <3>2, <3>3, <3>4 DEF TypeInv, engineVars
  <2> QED BY <1>10, <2>3, <2>4, <2>5, <2>6, <2>7, ScenarioIs
<1>11. CASE Stats
  BY <1>1, <1>4, <1>11, SameTypes DEF Stats, TypeInv, engineVars
<1>12. CASE SendsEnd
  <2>1. UNCHANGED <<kind, backend, out, stale, cycle, alarm, clientVars, history>> /\ stage' \in {"ending", "leaving"}
    BY <1>12, EndIs
  <2>2. ring' = ring \/ (Piped /\ ring' \in [Sessions -> Seq({"part", "query", "end"})])
    <3>1. ring \in [Sessions -> Seq({"part", "query", "end"})] BY <1>1 DEF SessionTypes
    <3>2. ASSUME turn \in Sessions PROVE Append(ring[turn], "end") \in Seq({"part", "query", "end"})
      BY <1>1, <3>2, RingIs
    <3> QED BY <1>12, <3>1, <3>2, EndIs
  <2>3. SessionTypes' /\ NotPiped' BY <1>1, <1>3, <2>1, <2>2 DEF SessionTypes, NotPiped, history
  <2> QED BY <1>1, <1>5, <2>1, <2>3 DEF TypeInv, ClientTypes, clientVars
<1>13. CASE Leaves
  <2>1. /\ stage' = "removing" /\ backend' = [s \in Sessions |-> "none"]
        /\ UNCHANGED <<kind, ring, out, stale, cycle, alarm, clientVars, history>>
    BY <1>13 DEF Leaves
  <2>2. SessionTypes' /\ NotPiped' BY <1>1, <1>3, <2>1 DEF SessionTypes, NotPiped, history
  <2> QED BY <1>1, <1>5, <2>1, <2>2 DEF TypeInv, ClientTypes, clientVars
<1>14. CASE Removes
  <2>1. stage' = "none" /\ UNCHANGED <<kind, sessionVars, clientVars, history>> BY <1>14 DEF Removes
  <2> QED BY <1>1, <1>5, <2>1, SameTypes DEF TypeInv
<1> QED BY <1>6, <1>7, <1>8, <1>9, <1>10, <1>11, <1>12, <1>13, <1>14 DEF WorkerStep

-----------------------------------------------------------------------------
(* Types and freshness in every reachable state. *)

BaseInv == RunInv /\ TypeInv /\ FreshInv

\* Before a Run, and after an error, sessions, clients and guest rest.
LEMMA FreshRests ==
    ASSUME SessionTypes, AllFresh
    PROVE  /\ ~ OfGuest /\ ~ Faults
           /\ \A s \in Sessions : ~ OfSession(s)
           /\ \A c \in Clients : ~ OfClient(c)
<1>1. \A s \in Sessions : ~ OfSession(s)
  <2> SUFFICES ASSUME NEW s \in Sessions, SessionStep(s) PROVE FALSE BY DEF OfSession
  <2>1. /\ backend[s] = "none" /\ ring[s] = << >> /\ out[s] = "none" /\ cycle[s] = NoCycle
    BY DEF AllFresh
  <2>2. ~ GuestTakes(s) /\ ~ PumpEnds(s) /\ ~ Feed(s) BY <2>1 DEF GuestTakes, PumpEnds, Feed
  <2>3. ~ Send(s) BY <2>1, SendIs, NoCycleIs
  <2>4. ~ GuestReplies(s) BY <2>1 DEF GuestReplies
  <2> QED BY <2>2, <2>3, <2>4 DEF SessionStep
<1>2. \A c \in Clients : ~ OfClient(c)
  <2> SUFFICES ASSUME NEW c \in Clients, ClientStep(c) PROVE FALSE BY DEF OfClient
  <2>1. client[c].at = "off" BY NoCycleIs DEF AllFresh
  <2> QED BY <2>1 DEF ClientStep, Enter, ClientEnds, ClientAsks, ClientHears, InUnit
<1>3. ~ OfGuest BY DEF OfGuest, HandleEvent, AllFresh
<1>4. ~ Faults
  <2>1. \A s \in Used : backend[s] = "none" BY UsedIs DEF AllFresh
  <2>2. \A s \in Used : ~ GuestLeaves(s) BY <2>1 DEF GuestLeaves
  <2>3. ~ SpawnRefused BY <2>1 DEF SpawnRefused
  <2> QED BY <2>2, <2>3 DEF Faults
<1> QED BY <1>1, <1>2, <1>3, <1>4

LEMMA FreshGivesTypes ==
    ASSUME Fresh, kind' \in Engines, plan' \in Plans, stage' = "none" \/ TurnInv'
    PROVE  TypeInv' /\ FreshInv' /\ AllFresh'
<1>1. AllFresh' /\ queue' = << >> /\ raised' = FALSE BY FreshIs
<1>2. SessionTypes' BY FreshTypes
<1>3. << >> \in Seq(Clients) /\ client' \in [Clients -> ClientStates] BY NoCycleIs DEF Fresh
<1>4. ClientTypes' BY <1>1, <1>3 DEF ClientTypes
<1>5. NotPiped' BY <1>1, NoCycleIs DEF NotPiped, AllFresh
<1>6. TurnInv' BY DEF TurnInv
<1> QED BY <1>1, <1>2, <1>4, <1>5, <1>6 DEF TypeInv, FreshInv

\* The page's steps, as far as sessions and clients see them.
LEMMA PageIs ==
    ASSUME RunInv, PageStep
    PROVE  \/ /\ worker = "none" /\ (kind' = kind \/ kind' \in Kinds)
              /\ UNCHANGED <<plan, stage, turn, at, call, cells, failed>>
              /\ UNCHANGED <<sessionVars, clientVars, history>>
           \/ UNCHANGED <<kind, stage, turn, sessionVars, clientVars, history>> /\ worker # "none" /\ worker' # "none"
              /\ fatal' = fatal
           \/ at = Closing /\ Fresh /\ UNCHANGED <<kind, plan>> /\ stage' = "none"
<1>1. CASE Skip \/ StartRun
  BY <1>1 DEF Skip, StartRun, callVars, engineVars, pageVars, clientVars
<1>2. CASE Evaluates \/ HearsReady \/ ReadyTimeout \/ Posts
  BY <1>2 DEF Evaluates, HearsReady, ReadyTimeout, Posts, callVars, engineVars
<1>3. CASE Hears
  <2>1. worker # "none"
    <3>1. call.st # "none" BY <1>3 DEF Hears
    <3> QED BY <3>1, NoCallIs DEF RunInv, CallInv
  <2> QED BY <1>3, <2>1 DEF Hears, engineVars
<1>4. CASE Terminates BY <1>4 DEF Terminates
<1> QED BY <1>1, <1>2, <1>3, <1>4 DEF PageStep

LEMMA PageKeepsBase == BaseInv /\ PageStep => TypeInv' /\ FreshInv'
<1> SUFFICES ASSUME BaseInv, PageStep PROVE TypeInv' /\ FreshInv' OBVIOUS
<1>1. RunInv /\ SessionTypes /\ ClientTypes /\ NotPiped /\ TurnInv /\ FreshInv BY DEF BaseInv, TypeInv
<1>2. CASE /\ worker = "none" /\ (kind' = kind \/ kind' \in Kinds)
           /\ UNCHANGED <<stage, turn>> /\ UNCHANGED <<sessionVars, clientVars, history>>
  <2>1. AllFresh BY <1>1, <1>2 DEF FreshInv
  <2>2. AllFresh' BY <1>2, <2>1 DEF AllFresh, sessionVars, clientVars, history
  <2>3. kind' \in Engines BY <1>1, <1>2, KindsAssumption DEF SessionTypes, Engines
  <2>4. SessionTypes' BY <1>1, <1>2, <2>3 DEF SessionTypes, sessionVars, history
  <2>5. ClientTypes' BY <1>1, <1>2 DEF ClientTypes, clientVars
  <2>6. NotPiped' BY <2>2, NoCycleIs DEF NotPiped, AllFresh
  <2>7. stage' = "none" BY <1>1, <1>2 DEF RunInv, CallInv
  <2> QED BY <2>2, <2>4, <2>5, <2>6, <2>7 DEF TypeInv, TurnInv, FreshInv
<1>3. CASE /\ UNCHANGED <<kind, stage, turn, sessionVars, clientVars, history>> /\ worker # "none" /\ worker' # "none"
           /\ fatal' = fatal
  <2>1. SessionTypes' /\ ClientTypes' /\ NotPiped' BY <1>1, <1>3, SameTypes
  <2>2. TurnInv' BY <1>1, <1>3 DEF TurnInv, Used, SessionOf, Single
  <2>3. AllFresh => AllFresh' BY <1>3 DEF AllFresh, sessionVars, clientVars, history
  <2> QED BY <1>1, <1>3, <2>1, <2>2, <2>3 DEF TypeInv, FreshInv
<1>4. CASE Fresh /\ UNCHANGED <<kind, plan>> /\ stage' = "none"
  <2>1. kind' \in Engines /\ plan' \in Plans BY <1>1, <1>4 DEF SessionTypes, ClientTypes
  <2> QED BY <1>4, <2>1, FreshGivesTypes
<1> QED BY <1>1, <1>2, <1>3, <1>4, PageIs

LEMMA ErrorIs ==
    ASSUME BaseInv, WorkerErrors
    PROVE  TypeInv' /\ FreshInv' /\ AllFresh'
<1>1. TypeInv BY DEF BaseInv
<1>2. Fresh /\ UNCHANGED <<kind, plan, stage, turn>> BY DEF WorkerErrors, engineVars
<1>3. TurnInv' BY <1>1, <1>2 DEF TypeInv, TurnInv, Used, SessionOf, Single
<1>4. kind' \in Engines /\ plan' \in Plans BY <1>1, <1>2 DEF TypeInv, SessionTypes, ClientTypes
<1> QED BY <1>2, <1>3, <1>4, FreshGivesTypes

LEMMA OthersKeepBase ==
    ASSUME BaseInv,
           \/ OfGuest \/ Faults
           \/ \E s \in Sessions : OfSession(s)
           \/ \E c \in Clients : OfClient(c)
    PROVE  /\ TypeInv' /\ FreshInv'
           /\ worker # "none" /\ ~ fatal
           /\ UNCHANGED <<kind, plan, column, at, cells, failed, call, stage, turn, worker, fatal, excused>>
<1>1. RunInv /\ SessionTypes /\ ClientTypes /\ NotPiped /\ TurnInv /\ FreshInv BY DEF BaseInv, TypeInv
<1>2. UNCHANGED <<kind, plan, column, at, cells, failed, call, stage, turn, worker, fatal, excused>> /\ ~ fatal
  BY OthersStay DEF pageVars, callVars, engineVars
<1>3. ~ AllFresh BY <1>1, FreshRests
<1>4. worker # "none" BY <1>1, <1>3 DEF FreshInv
<1>5. FreshInv' BY <1>2, <1>4 DEF FreshInv
<1>6. TurnInv' BY <1>1, <1>2 DEF TurnInv, Used, SessionOf, Single
<1>7. SessionTypes' /\ ClientTypes' /\ NotPiped'
  <2>1. CASE OfGuest
    <3>1. HandleEvent /\ UNCHANGED history /\ UNCHANGED clientVars BY <2>1 DEF OfGuest
    <3>2. SessionTypes' /\ NotPiped' BY <1>1, <1>2, <3>1, GuestKeepsTypes
    <3> QED BY <1>1, <3>1, <3>2 DEF ClientTypes, clientVars
  <2>2. CASE Faults
    <3>1. (SpawnRefused \/ \E s \in Used : GuestLeaves(s)) /\ UNCHANGED clientVars BY <2>2 DEF Faults
    <3>2. SessionTypes' /\ NotPiped' BY <1>1, <1>2, <3>1, GuestKeepsTypes
    <3> QED BY <1>1, <3>1, <3>2 DEF ClientTypes, clientVars
  <2>3. ASSUME NEW s \in Sessions, OfSession(s) PROVE SessionTypes' /\ ClientTypes' /\ NotPiped'
    <3>1. SessionTypes' /\ NotPiped' /\ UNCHANGED clientVars
      BY <1>1, <1>2, <2>3, SessionKeepsTypes DEF OfSession
    <3> QED BY <1>1, <3>1 DEF ClientTypes, clientVars
  <2>4. ASSUME NEW c \in Clients, OfClient(c) PROVE SessionTypes' /\ ClientTypes' /\ NotPiped'
    BY <1>1, <1>2, <2>4, ClientKeepsTypes DEF OfClient
  <2> QED BY <2>1, <2>2, <2>3, <2>4
<1> QED BY <1>1, <1>2, <1>4, <1>5, <1>6, <1>7 DEF TypeInv

LEMMA BaseHolds == Spec => []BaseInv
<1>1. Init => BaseInv
  <2> SUFFICES ASSUME Init PROVE BaseInv OBVIOUS
  <2>1. RunInv BY InitialRun
  <2>2. /\ kind \in Engines /\ plan \in Plans /\ stage = "none"
        /\ backend = [s \in Sessions |-> "none"] /\ ring = [s \in Sessions |-> << >>]
        /\ out = [s \in Sessions |-> "none"] /\ stale = [s \in Sessions |-> FALSE]
        /\ cycle = [s \in Sessions |-> NoCycle] /\ alarm = FALSE
        /\ inside = [s \in Sessions |-> NoOne] /\ mixed = FALSE /\ foreign = FALSE
        /\ client = [c \in Clients |-> Off] /\ queue = << >> /\ raised = FALSE
    BY KindsAssumption DEF Init, Engines, Plans
  <2>3. AllFresh BY <2>2 DEF AllFresh
  <2>4. << >> \in Seq({"part", "query", "end"}) /\ << >> \in Seq(Clients) OBVIOUS
  <2>5. SessionTypes
    <3>1. NoOne \in 0 .. NoOne /\ NoCycle \in Cycles BY Numbers, NoCycleIs
    <3> QED BY <2>2, <2>4, <3>1 DEF SessionTypes
  <2>6. ClientTypes BY <2>2, <2>4, NoCycleIs DEF ClientTypes
  <2>7. NotPiped BY <2>3, NoCycleIs DEF NotPiped, AllFresh
  <2> QED BY <2>1, <2>2, <2>3, <2>5, <2>6, <2>7 DEF BaseInv, TypeInv, TurnInv, FreshInv
<1>2. BaseInv /\ Next => BaseInv'
  <2> SUFFICES ASSUME BaseInv, Next PROVE BaseInv' OBVIOUS
  <2>1. RunInv' BY RunKept DEF BaseInv
  <2>2. CASE PageStep BY <2>1, <2>2, PageKeepsBase DEF BaseInv
  <2>3. CASE OfWorker
    <3>1. worker' = "ready" /\ ~ fatal' BY <2>3, WorkerRuns DEF BaseInv, OfWorker
    <3> QED BY <2>1, <2>3, <3>1, WorkerKeepsTypes DEF BaseInv, FreshInv
  <2>4. CASE WorkerErrors BY <2>1, <2>4, ErrorIs DEF BaseInv
  <2>5. CASE \/ OfGuest \/ Faults
             \/ \E s \in Sessions : OfSession(s)
             \/ \E c \in Clients : OfClient(c)
    BY <2>1, <2>5, OthersKeepBase DEF BaseInv
  <2> QED BY <2>2, <2>3, <2>4, <2>5 DEF Next, Progress
<1>3. BaseInv /\ UNCHANGED vars => BaseInv'
  <2> SUFFICES ASSUME BaseInv, UNCHANGED vars PROVE BaseInv' OBVIOUS
  <2>1. RunInv' BY RunStays DEF BaseInv, vars, clientVars
  <2>2. SessionTypes' /\ ClientTypes' /\ NotPiped' BY SameTypes DEF BaseInv, TypeInv, vars
  <2>3. TurnInv' BY DEF BaseInv, TypeInv, TurnInv, vars, engineVars, Used, SessionOf, Single
  <2>4. FreshInv' BY DEF BaseInv, FreshInv, AllFresh, vars, sessionVars, clientVars, history, callVars
  <2> QED BY <2>1, <2>2, <2>3, <2>4 DEF BaseInv, TypeInv
<1> QED BY <1>1, <1>2, <1>3, PTL DEF Spec

-----------------------------------------------------------------------------
(* Whose a session is. *)

\* Whose a session is while a scenario's clients run: the client that is in a
\* unit of its program, and at the head of the queue where there is one session.
InHand(s) == LET c == cycle[s].by IN
    c \in Clients /\ SessionOf(c) = s /\ client[c].at \in InUnit /\ Holds(c)
ScenarioOn == call.req = "concurrent" /\ call.st = "serving" /\ Prepared

\* The session the worker's own statement is on.
Asking(s) ==
    \/ stage = "handshake" /\ s = turn
    \/ (Serving("exec") \/ Serving("measure")) /\ s = 0
    \/ Serving("concurrent") /\ ~ Prepared /\ s = turn

\* The Run has failed, or is bound to.
Lost == \/ column \in failed
        \/ Thrown
        \/ call.st = "error" /\ ~ fatal /\ call.req # "close"
        \/ call.req = "open" /\ call.st = "serving" /\ stage \in Downs

ClientsInv == \A c \in Clients :
    /\ client[c].at # "off" =>
          \/ ScenarioOn
          \/ /\ client[c].at = "done" /\ column \notin failed
             /\ at > LastRow \/ (at = LastRow /\ call.st = "ok")
    /\ client[c].at \in {"begin", "commit", "rollback"} => InTransaction(c)
HandInv == \A s \in Sessions : ~ Idle(s) =>
    /\ ScenarioOn => InHand(s)
    /\ ~ Lost /\ ~ ScenarioOn => cycle[s].by = Worker /\ Asking(s)
OwnInv == BaseInv /\ ClientsInv /\ HandInv

LEMMA BaseIs ==
    ASSUME BaseInv
    PROVE  /\ RunInv /\ TypeInv /\ FreshInv
           /\ RunTypes /\ CallInv /\ DirInv /\ CellInv
           /\ SessionTypes /\ ClientTypes /\ NotPiped /\ TurnInv /\ plan \in Plans
BY DEF BaseInv, TypeInv, RunInv, RunTypes

\* The row of a scenario is the last but two, that of the close the last.
LEMMA RowsAre ==
    ASSUME BaseInv
    PROVE  /\ at \in Nat /\ Closing \in Nat /\ at <= Closing /\ LastRow = Closing - 2 /\ Closing >= 6
           /\ call.req = "concurrent" => at = LastRow
           /\ call.req = "open" => at = 1
           /\ call.req = "close" <=> call.req # "none" /\ at = Closing
           /\ call.req = "stats" <=> call.req # "none" /\ at = Closing - 1
           /\ column \in failed => at = Closing
<1>1. plan \in Plans /\ RunTypes /\ CallInv /\ CellInv BY BaseIs
<1>2. /\ Closing \in Nat /\ Closing >= 6 /\ LastRow = Closing - 2
      /\ \A i \in 1 .. Closing : Script[i] = "concurrent" => i = Closing - 2
  BY <1>1, ScriptIs
<1>3. at \in 0 .. Closing BY <1>1 DEF RunTypes
<1>4. call.req # "none" => call.req = Script[at] /\ at \in 1 .. Closing
  <2>1. call.req # "none" => at # 0 BY <1>1, NoCallIs DEF CallInv
  <2> QED BY <1>1, <1>2, <1>3, <2>1 DEF CallInv
<1>5. call.req # "none" => /\ call.req = "open" <=> at = 1
                           /\ call.req = "close" <=> at = Closing
                           /\ call.req = "stats" <=> at = Closing - 1
  BY <1>1, <1>4, RowIs
<1>6. column \in failed => at = Closing BY <1>1 DEF CellInv
<1> QED BY <1>2, <1>3, <1>4, <1>5, <1>6

LEMMA NoneAre ==
    ASSUME ClientsInv, NEW c \in Clients, client[c].at \notin {"off", "done"}
    PROVE  ScenarioOn
BY DEF ClientsInv

\* Once a Run is lost its scenario is not reported and its cell not filled.
LEMMA LostIsLost ==
    ASSUME OwnInv, Lost
    PROVE  ~ AllDone /\ column \notin cells
<1>1. BaseInv /\ ClientsInv /\ CallInv /\ CellInv BY BaseIs DEF OwnInv
<1>2. 0 \in Clients BY Numbers
<1>3. CASE Thrown
  <2>1. PICK c \in Clients : client[c].at = "thrown" BY <1>3 DEF Thrown
  <2>2. at = LastRow BY <1>1, <2>1, NoneAre, RowsAre DEF ScenarioOn
  <2>3. column \notin cells
    <3>1. ~ (at > LastRow) BY <1>1, <2>2, RowsAre
    <3> QED BY <1>1, <3>1 DEF CellInv
  <2> QED BY <2>1, <2>3 DEF AllDone
<1>4. CASE column \in failed
  <2>1. at = Closing /\ column \notin cells BY <1>1, <1>4 DEF CellInv
  <2>2. ~ ScenarioOn
    <3>1. call.req # "concurrent"
      <4>1. Closing # LastRow BY <1>1, RowsAre
      <4> QED BY <1>1, <2>1, <4>1, RowsAre
    <3> QED BY <3>1 DEF ScenarioOn
  <2>3. client[0].at = "off" BY <1>1, <1>2, <1>4, <2>2 DEF ClientsInv
  <2> QED BY <1>2, <2>1, <2>3 DEF AllDone
<1>5. CASE call.st = "error" /\ ~ fatal /\ call.req # "close"
  <2>1. call.req # "none" /\ call.req # "stats" BY <1>1, <1>5 DEF CallInv
  <2>2. ~ (at > LastRow)
    <3>1. at # Closing /\ at # Closing - 1 BY <1>1, <1>5, <2>1, RowsAre
    <3>2. at \in Nat /\ Closing \in Nat /\ at <= Closing /\ LastRow = Closing - 2 BY <1>1, RowsAre
    <3> QED BY <3>1, <3>2
  <2>3. ~ ScenarioOn BY <1>5 DEF ScenarioOn
  <2>4. client[0].at = "off" BY <1>1, <1>2, <1>5, <2>2, <2>3 DEF ClientsInv
  <2>5. column \notin cells BY <1>1, <2>2 DEF CellInv
  <2> QED BY <1>2, <2>4, <2>5 DEF AllDone
<1>6. CASE call.req = "open" /\ call.st = "serving"
  <2>1. ~ (at > LastRow) /\ at # LastRow
    <3>1. at = 1 /\ LastRow = Closing - 2 /\ Closing >= 6 /\ Closing \in Nat BY <1>1, <1>6, RowsAre
    <3> QED BY <3>1
  <2>2. ~ ScenarioOn BY <1>6 DEF ScenarioOn
  <2>3. client[0].at = "off" BY <1>1, <1>2, <2>1, <2>2 DEF ClientsInv
  <2>4. column \notin cells BY <1>1, <2>1 DEF CellInv
  <2> QED BY <1>2, <2>3, <2>4 DEF AllDone
<1> QED BY <1>3, <1>4, <1>5, <1>6 DEF Lost

LEMMA FreshHand ==
    ASSUME AllFresh'
    PROVE  ClientsInv' /\ HandInv'
<1>1. \A c \in Clients : client'[c].at = "off" BY NoCycleIs DEF AllFresh
<1>2. \A s \in Sessions : Idle(s)' BY NoCycleIs DEF AllFresh, Idle
<1> QED BY <1>1, <1>2 DEF ClientsInv, HandInv

\* Steps that leave whose a cycle is, and who is where.
LEMMA SameHand ==
    ASSUME BaseInv, ClientsInv, HandInv,
           UNCHANGED <<kind, plan, column, at, failed, call, stage, turn, worker, fatal, client, queue>>,
           \A s \in Sessions : cycle'[s].by = cycle[s].by
    PROVE  ClientsInv' /\ HandInv' /\ Lost' = Lost /\ ScenarioOn' = ScenarioOn
<1>1. Script' = Script /\ Closing' = Closing /\ LastRow' = LastRow BY SameScript
<1>2. ScenarioOn' = ScenarioOn
  BY DEF ScenarioOn, Prepared, SetsUp, Used, SessionOf, Single
<1>3. Lost' = Lost BY DEF Lost, Thrown
<1>4. ClientsInv'
  <2>1. \A c \in Clients : InTransaction(c)' = InTransaction(c)
    BY DEF InTransaction, Program, Besides, FanOut, Contends
  <2> QED BY <1>1, <1>2, <2>1 DEF ClientsInv
<1>5. ASSUME NEW s \in Sessions
      PROVE  /\ Idle(s)' = Idle(s) /\ InHand(s)' = InHand(s) /\ Asking(s)' = Asking(s)
  BY <1>5 DEF Idle, InHand, Asking, Serving, Prepared, SetsUp, Used, SessionOf, Single, Holds
<1> QED BY <1>2, <1>3, <1>4, <1>5 DEF HandInv

\* No session and no guest gives a cycle to another.
LEMMA SameBy ==
    ASSUME BaseInv, OfGuest \/ Faults \/ \E s \in Sessions : OfSession(s)
    PROVE  /\ \A s \in Sessions : cycle'[s].by = cycle[s].by
           /\ UNCHANGED <<plan, client, queue, raised>>
<1>1. SessionTypes BY BaseIs
<1>2. cycle \in [Sessions -> Cycles] BY <1>1 DEF SessionTypes
<1>3. ASSUME NEW S, FailCycles(S) PROVE \A s \in Sessions : cycle'[s].by = cycle[s].by
  BY <1>1, <1>3, FailCyclesIs
<1>4. CASE OfGuest
  BY <1>3, <1>4 DEF OfGuest, HandleEvent, clientVars
<1>5. CASE Faults
  <2>1. cycle' = cycle BY <1>5 DEF Faults, GuestLeaves, SpawnRefused
  <2> QED BY <1>5, <2>1 DEF Faults, clientVars
<1>6. ASSUME NEW s \in Sessions, SessionStep(s)
      PROVE  /\ \A r \in Sessions : cycle'[r].by = cycle[r].by
             /\ UNCHANGED <<plan, client, queue, raised>>
  <2>1. CASE GuestTakes(s) /\ UNCHANGED clientVars BY <2>1, <1>1, GuestTakesIs DEF clientVars
  <2>2. CASE GuestReplies(s)
    <3>1. PICK r \in Answers : cycle' = cycle \/ cycle' = [cycle EXCEPT ![s] = [cycle[s] EXCEPT !.got = r]]
      BY <1>1, <2>2, GuestRepliesIs
    <3>2. [cycle[s] EXCEPT !.got = r].by = cycle[s].by BY <1>2 DEF Cycles
    <3> QED BY <1>2, <2>2, <3>1, <3>2 DEF GuestReplies, clientVars
  <2>3. CASE Send(s) /\ UNCHANGED <<clientVars, history>>
    <3>1. cycle'[s].by = cycle[s].by /\ \A r \in Sessions \ {s} : cycle'[r] = cycle[r] BY <1>1, <2>3, SendIs
    <3> QED BY <2>3, <3>1 DEF clientVars
  <2>4. CASE Feed(s) /\ UNCHANGED clientVars
    <3>1. /\ \A r \in Sessions : r # s \/ ~ Waiting(s) => cycle'[r] = cycle[r]
          /\ Waiting(s) => cycle'[s].by = cycle[s].by
      BY <1>1, <2>4, FeedIs
    <3> QED BY <2>4, <3>1 DEF clientVars
  <2>5. CASE PumpEnds(s) /\ UNCHANGED <<clientVars, history>>
    BY <1>3, <2>5 DEF PumpEnds, clientVars
  <2> QED BY <1>6, <2>1, <2>2, <2>3, <2>4, <2>5 DEF SessionStep
<1> QED BY <1>4, <1>5, <1>6 DEF OfSession

LEMMA ClientKeepsHand ==
    ASSUME OwnInv, NEW c \in Clients, OfClient(c)
    PROVE  ClientsInv' /\ HandInv' /\ ScenarioOn /\ ScenarioOn'
<1>1. BaseInv /\ ClientsInv /\ HandInv BY DEF OwnInv
<1>2. SessionTypes /\ ClientTypes /\ NotPiped /\ CallInv BY <1>1, BaseIs
<1>3. ClientStep(c) BY DEF OfClient
<1>4. UNCHANGED <<kind, plan, column, at, failed, call, stage, turn, worker, fatal>>
  BY <1>1, OthersKeepBase
<1>5. ScenarioOn
  <2>1. client[c].at \notin {"off", "done"} BY <1>3 DEF ClientStep, Enter, ClientEnds, ClientAsks, ClientHears, InUnit
  <2> QED BY <1>1, <2>1, NoneAre
<1>6. ScenarioOn' BY <1>4, <1>5 DEF ScenarioOn, Prepared, SetsUp, Used, SessionOf, Single
<1>7. \A d \in Clients : SessionOf(d)' = SessionOf(d) /\ SessionOf(d) \in Sessions
      /\ (Single => SessionOf(d) = 0) /\ (~ Single => SessionOf(d) = d)
  BY <1>4, Numbers DEF SessionOf, Single
<1>8. ASSUME \A d \in Clients \ {c} : client'[d] = client[d],
             client'[c].at \in {"begin", "commit", "rollback"} => InTransaction(c)'
      PROVE  ClientsInv'
  <2>1. \A d \in Clients \ {c} : InTransaction(d)' = InTransaction(d)
    BY <1>4, <1>8 DEF InTransaction, Program, Besides, FanOut, Contends
  <2> QED BY <1>1, <1>6, <1>8, <2>1 DEF ClientsInv
<1>9. client'[c].step = client[c].step /\ InTransaction(c) => InTransaction(c)'
  BY <1>4 DEF InTransaction, Program, Besides, FanOut, Contends
<1>10. \A s \in Sessions : ~ Idle(s) => InHand(s) BY <1>1, <1>5 DEF HandInv
<1>11. (\A s \in Sessions : ~ Idle(s)' => InHand(s)') => HandInv' BY <1>6 DEF HandInv
<1>12. CASE Enter(c)
  <2>1. /\ client[c].at = "next" /\ \A d \in Clients \ {c} : client'[d] = client[d]
        /\ cycle' = cycle /\ (queue' = queue \/ queue' = Append(queue, c))
        /\ \/ client'[c].at \in {"next", "body"}
           \/ client'[c].at = "begin" /\ client'[c].step = client[c].step /\ InTransaction(c)
    BY <1>2, <1>12, EnterIs
  <2>2. ClientsInv' BY <1>8, <1>9, <2>1
  <2>3. queue \in Seq(Clients) BY <1>2 DEF ClientTypes
  <2>4. queue # << >> => queue' # << >> /\ Head(queue') = Head(queue) BY <2>1, <2>3
  <2>5. \A d \in Clients : Holds(d) => Holds(d)' BY <1>4, <2>4 DEF Holds, Single
  <2>6. ASSUME NEW s \in Sessions, ~ Idle(s)' PROVE InHand(s)'
    <3>1. InHand(s) /\ cycle'[s].by = cycle[s].by BY <1>10, <2>1, <2>6 DEF Idle
    <3>2. cycle[s].by # c BY <2>1, <3>1 DEF InHand, InUnit
    <3> QED BY <1>7, <2>1, <2>5, <3>1, <3>2 DEF InHand
  <2> QED BY <1>5, <1>6, <1>11, <2>2, <2>6
<1>13. CASE ClientEnds(c)
  <2>1. /\ client[c].at = "next" /\ client'[c].at = "done" /\ \A d \in Clients \ {c} : client'[d] = client[d]
        /\ cycle' = cycle /\ queue' = queue
    BY <1>2, <1>13, EndsIs
  <2>2. ClientsInv' BY <1>8, <2>1
  <2>3. ASSUME NEW s \in Sessions, ~ Idle(s)' PROVE InHand(s)'
    <3>1. InHand(s) /\ cycle'[s].by = cycle[s].by BY <1>10, <2>1, <2>3 DEF Idle
    <3>2. cycle[s].by # c BY <2>1, <3>1 DEF InHand, InUnit
    <3> QED BY <1>4, <1>7, <2>1, <3>1, <3>2 DEF InHand, Holds, Single
  <2> QED BY <1>5, <1>6, <1>11, <2>2, <2>3
<1>14. CASE ClientAsks(c)
  <2>1. /\ client[c].at \in InUnit /\ Holds(c) /\ Ask(SessionOf(c), c)
        /\ UNCHANGED <<client, queue>>
    BY <1>14 DEF ClientAsks, clientVars
  <2>2. c \in 0 .. NoOne BY Numbers
  <2>3. cycle'[SessionOf(c)].by = c /\ \A r \in Sessions \ {SessionOf(c)} : cycle'[r] = cycle[r]
    BY <1>2, <1>7, <2>1, <2>2, AskIs
  <2>4. ClientsInv'
    <3>1. client[c].at \in {"begin", "commit", "rollback"} => InTransaction(c) BY <1>1 DEF ClientsInv
    <3> QED BY <1>8, <1>9, <2>1, <3>1
  <2>5. \A d \in Clients : Holds(d)' = Holds(d) BY <1>4, <2>1 DEF Holds, Single
  <2>6. ASSUME NEW s \in Sessions, ~ Idle(s)' PROVE InHand(s)'
    <3>1. CASE s = SessionOf(c) BY <1>7, <2>1, <2>3, <2>5, <3>1 DEF InHand
    <3>2. CASE s # SessionOf(c)
      <4>1. cycle'[s] = cycle[s] BY <2>3, <3>2
      <4>2. InHand(s) BY <1>10, <2>6, <4>1 DEF Idle
      <4> QED BY <1>7, <2>1, <2>5, <4>1, <4>2 DEF InHand
    <3> QED BY <3>1, <3>2
  <2> QED BY <1>5, <1>6, <1>11, <2>4, <2>6
<1>15. CASE ClientHears(c)
  <2>1. /\ cycle[SessionOf(c)].by = c
        /\ cycle' = [cycle EXCEPT ![SessionOf(c)] = NoCycle]
        /\ \A d \in Clients \ {c} : client'[d] = client[d]
        /\ \/ client'[c].at = "thrown"
           \/ client'[c].at = "body"
           \/ InTransaction(c) /\ client'[c].step = client[c].step
           \/ client'[c].at = "next"
    BY <1>2, <1>15, HearsIs
  <2>2. ClientsInv' BY <1>8, <1>9, <2>1
  <2>3. cycle \in [Sessions -> Cycles] BY <1>2 DEF SessionTypes
  <2>4. ~ Single => queue' = queue BY <1>2, <1>15, HearsIs, GiveBackIs
  <2>5. ASSUME NEW s \in Sessions, ~ Idle(s)' PROVE InHand(s)'
    <3>1. s # SessionOf(c) BY <2>1, <2>3, <2>5, NoCycleIs DEF Idle
    <3>2. cycle'[s] = cycle[s] BY <2>1, <2>3, <3>1
    <3>3. InHand(s) BY <1>10, <2>5, <3>2 DEF Idle
    <3>4. cycle[s].by # c /\ ~ Single BY <1>7, <3>1, <3>3 DEF InHand
    <3>5. Holds(cycle[s].by)' BY <1>4, <3>2, <3>4 DEF Holds, Single
    <3> QED BY <1>7, <2>1, <3>2, <3>3, <3>4, <3>5 DEF InHand, Holds
  <2> QED BY <1>5, <1>6, <1>11, <2>2, <2>5
<1> QED BY <1>3, <1>12, <1>13, <1>14, <1>15 DEF ClientStep

-----------------------------------------------------------------------------
(* The worker and the page keep sessions to one statement at a time. *)

\* Clients that wait, or have ended, while the worker serves something else.
LEMMA ClientsRest ==
    ASSUME BaseInv, ClientsInv, ~ ScenarioOn, client' = client, UNCHANGED <<kind, plan, column, at, failed>>,
           call.st # "ok"
    PROVE  /\ ClientsInv' /\ ~ Thrown /\ ~ Thrown'
           /\ \A c \in Clients : client[c].at \in {"off", "done"}
           /\ at <= LastRow => \A c \in Clients : client[c].at = "off"
<1>1. Script' = Script /\ Closing' = Closing /\ LastRow' = LastRow BY SameScript
<1>2. \A c \in Clients : client[c].at # "off" => /\ client[c].at = "done" /\ column \notin failed
                                                 /\ at > LastRow
  BY DEF ClientsInv
<1>3. ~ (at > LastRow /\ at <= LastRow) BY RowsAre
<1>4. ClientsInv' BY <1>1, <1>2 DEF ClientsInv
<1> QED BY <1>2, <1>3, <1>4 DEF Thrown

\* After a step that leaves every cycle over, or the one the worker is on.
LEMMA HandSettles ==
    ASSUME \A s \in Sessions : ~ Idle(s)' =>
              /\ ~ ScenarioOn'
              /\ ~ Lost' => cycle'[s].by = Worker /\ Asking(s)'
    PROVE  HandInv'
BY DEF HandInv

\* Out of a scenario, and not lost, a session is idle unless it is asked now.
LEMMA Rests ==
    ASSUME HandInv, ~ ScenarioOn, ~ Lost, NEW s \in Sessions, ~ Asking(s)
    PROVE  Idle(s)
BY DEF HandInv

LEMMA ServeKeepsHand ==
    ASSUME OwnInv, ~ fatal, Serve
    PROVE  ClientsInv' /\ HandInv' /\ (Lost => Lost') /\ (call.req # "close" => ~ Lost)
<1>1. BaseInv /\ ClientsInv /\ HandInv BY DEF OwnInv
<1>2. CallInv BY <1>1, BaseIs
<1>3. /\ call.st = "posted" /\ call' = [call EXCEPT !.st = "serving"]
      /\ UNCHANGED <<kind, plan, column, at, failed, client, cycle>>
  BY DEF Serve, sessionVars, clientVars, pageVars
<1>4. ~ ScenarioOn /\ stage \in {"none", "up"} BY <1>2, <1>3 DEF ScenarioOn, CallInv
<1>5. ClientsInv' /\ ~ Thrown /\ ~ Thrown' BY <1>1, <1>3, <1>4, ClientsRest
<1>6. \A s \in Sessions : ~ Asking(s) BY <1>3, <1>4 DEF Asking, Serving
<1>7. Lost => Lost' BY <1>3, <1>4, <1>5 DEF Lost
<1>8. call'.req = call.req /\ call.req # "none" BY <1>2, <1>3, BaseIs, <1>1 DEF RunTypes, CallInv
<1>9. call.req # "close" => ~ Lost
  <2>1. call.req # "close" => at # Closing BY <1>1, <1>8, RowsAre
  <2>2. column \in failed => at = Closing BY <1>1, RowsAre
  <2> QED BY <1>3, <1>5, <2>1, <2>2 DEF Lost
<1>10. HandInv'
  <2>1. ~ Lost => \A s \in Sessions : Idle(s)' BY <1>1, <1>3, <1>4, <1>6, Rests DEF Idle
  <2>2. Lost => Lost' /\ ~ ScenarioOn' BY <1>7, <1>8, <1>9 DEF ScenarioOn
  <2> QED BY <2>1, <2>2, HandSettles
<1> QED BY <1>5, <1>7, <1>9, <1>10

LEMMA AnswerWas ==
    ASSUME BaseInv, call.st = "serving", NEW st \in {"ok", "error"}, Answer(st)
    PROVE  call'.req = call.req /\ call'.st = st
BY AnswerIs, BaseIs

LEMMA OpensKeepsHand ==
    ASSUME OwnInv, ~ fatal, Opens
    PROVE  /\ ClientsInv' /\ HandInv' /\ ~ Lost
           /\ call.req = "open" /\ at # Closing
           /\ \A s \in Sessions : Idle(s) /\ cycle'[s] = cycle[s]
           /\ \A c \in Clients : client[c].at = "off"
<1>1. BaseInv /\ ClientsInv /\ HandInv BY DEF OwnInv
<1>2. stage = "opening" BY DEF Opens
<1>3. call.st = "serving" /\ call.req = "open" /\ at = 1 BY <1>1, <1>2, StageIs, BaseIs
<1>4. UNCHANGED <<kind, plan, column, at, failed, client, cycle>>
  BY DEF Opens, clientVars, pageVars
<1>5. ~ ScenarioOn BY <1>3 DEF ScenarioOn
<1>6. at <= LastRow /\ at # Closing
  <2>1. Closing \in Nat /\ LastRow = Closing - 2 /\ Closing >= 6 BY <1>1, RowsAre
  <2> QED BY <1>3, <2>1
<1>7. ClientsInv' /\ ~ Thrown /\ \A c \in Clients : client[c].at = "off"
  <2>1. call.st # "ok" BY <1>3
  <2>2. client' = client /\ UNCHANGED <<kind, plan, column, at, failed>> BY <1>4
  <2>3. ClientsInv' /\ ~ Thrown BY <1>1, <1>5, <2>1, <2>2, ClientsRest
  <2>4. at <= LastRow => \A c \in Clients : client[c].at = "off" BY <1>1, <1>5, <2>1, <2>2, ClientsRest
  <2> QED BY <1>6, <2>3, <2>4
<1>8. ~ Lost
  <2>1. column \notin failed BY <1>1, <1>6, RowsAre
  <2>2. stage \notin Downs BY <1>2 DEF Downs
  <2> QED BY <1>3, <1>7, <2>1, <2>2 DEF Lost
<1>9. \A s \in Sessions : ~ Asking(s) BY <1>2, <1>3 DEF Asking, Serving
<1>10. \A s \in Sessions : Idle(s) /\ cycle'[s] = cycle[s] BY <1>1, <1>4, <1>5, <1>8, <1>9, Rests
<1>11. HandInv' BY <1>10, HandSettles DEF Idle
<1> QED BY <1>3, <1>6, <1>7, <1>8, <1>10, <1>11

\* A statement the worker puts to the session it has come to.
LEMMA AsksAtHand ==
    ASSUME OwnInv, ~ fatal, kind' = kind, NEW s \in Sessions, AsksAt(s), ~ ScenarioOn, Asking(s),
           call.st = "serving"
    PROVE  ClientsInv' /\ HandInv' /\ Lost' = Lost /\ Asking(s)' /\ ~ ScenarioOn'
<1>1. BaseInv /\ ClientsInv /\ HandInv BY DEF OwnInv
<1>2. SessionTypes /\ ClientTypes /\ NotPiped BY <1>1, BaseIs
<1>3. /\ cycle'[s].by = Worker /\ \A r \in Sessions \ {s} : cycle'[r] = cycle[r]
      /\ UNCHANGED <<stage, turn, worker, fatal, call, plan, client, queue, pageVars>>
  BY <1>2, AsksAtIs
<1>4. UNCHANGED <<column, at, failed>> BY <1>3 DEF pageVars
<1>5. ClientsInv' BY <1>1, <1>3, <1>4, ClientsRest
<1>6. Lost' = Lost BY <1>3, <1>4 DEF Lost, Thrown
<1>7. /\ ScenarioOn' = ScenarioOn
      /\ \A r \in Sessions : Asking(r)' = Asking(r)
  BY <1>3 DEF ScenarioOn, Asking, Serving, Prepared, SetsUp, Used, SessionOf, Single
<1>8. \A r \in Sessions : ~ Idle(r)' /\ ~ Lost' => cycle'[r].by = Worker /\ Asking(r)'
  BY <1>1, <1>3, <1>6, <1>7 DEF HandInv, Idle
<1>9. HandInv' BY <1>7, <1>8, HandSettles
<1> QED BY <1>5, <1>6, <1>7, <1>9

\* The worker hears what it asked: every session is idle then, or the Run lost.
LEMMA HearsAtHand ==
    ASSUME OwnInv, ~ fatal, NEW s \in Sessions, HearsAt(s), ~ ScenarioOn,
           \A r \in Sessions : Asking(r) => r = s,
           UNCHANGED <<kind, backend, ring, out, stale, alarm, clientVars, history, pageVars>>,
           Lost => Lost' /\ ~ ScenarioOn'
    PROVE  HandInv'
<1>1. BaseInv /\ HandInv BY DEF OwnInv
<1>2. SessionTypes /\ ClientTypes /\ NotPiped BY <1>1, BaseIs
<1>3. cycle'[s] = NoCycle /\ \A r \in Sessions \ {s} : cycle'[r] = cycle[r] BY <1>2, HearsAtIs
<1>4. ~ Lost => \A r \in Sessions : Idle(r)'
  <2> SUFFICES ASSUME ~ Lost, NEW r \in Sessions PROVE Idle(r)' OBVIOUS
  <2>1. CASE r = s BY <1>3, <2>1, NoCycleIs DEF Idle
  <2>2. CASE r # s
    <3>1. Idle(r) BY <1>1, <2>2, Rests
    <3> QED BY <1>3, <2>2, <3>1 DEF Idle
  <2> QED BY <2>1, <2>2
<1> QED BY <1>4, HandSettles

LEMMA HandshakeKeepsHand ==
    ASSUME OwnInv, ~ fatal, Handshake
    PROVE  /\ ClientsInv' /\ HandInv' /\ ~ Lost /\ ~ ScenarioOn
           /\ at # Closing /\ Asking(turn) /\ \A s \in Sessions : s # turn => Idle(s)
           /\ stage' = "ending" => Lost'
<1>1. BaseInv /\ ClientsInv /\ HandInv BY DEF OwnInv
<1>2. RunInv /\ TypeInv /\ CallInv BY <1>1, BaseIs
<1>3. stage = "handshake" /\ turn \in Sessions BY <1>2, HandshakeIs
<1>4. call.st = "serving" /\ call.req = "open" /\ at = 1 /\ call.st # "ok" BY <1>2, <1>3, StageIs
<1>5. UNCHANGED <<kind, plan, pageVars, worker, fatal>> /\ client' = client
  <2>1. UNCHANGED <<kind, plan, pageVars, worker, fatal>> BY WorkerStays DEF WorkerStep
  <2>2. client' = client BY DEF Handshake, AsksAt, clientVars
  <2> QED BY <2>1, <2>2
<1>6. UNCHANGED <<kind, plan, column, at, failed>> BY <1>5 DEF pageVars
<1>7. ~ ScenarioOn /\ at <= LastRow /\ at # Closing
  <2>1. Closing \in Nat /\ LastRow = Closing - 2 /\ Closing >= 6 BY <1>1, RowsAre
  <2>2. at <= LastRow /\ at # Closing BY <1>4, <2>1
  <2> QED BY <1>4, <2>2 DEF ScenarioOn
<1>8. ClientsInv' /\ ~ Thrown BY <1>1, <1>4, <1>5, <1>6, <1>7, ClientsRest
<1>9. ~ Lost
  <2>1. column \notin failed BY <1>1, <1>7, RowsAre
  <2>2. stage \notin Downs BY <1>3 DEF Downs
  <2> QED BY <1>4, <1>8, <2>1, <2>2 DEF Lost
<1>10. Asking(turn) /\ \A r \in Sessions : Asking(r) => r = turn BY <1>3, <1>4 DEF Asking, Serving
<1>11. \A s \in Sessions : s # turn => Idle(s) BY <1>1, <1>7, <1>9, <1>10, Rests
<1>12. stage' = "ending" => call' = call /\ ~ ScenarioOn' /\ Lost'
  <2>1. stage' = "ending" => call' = call
    BY <1>2, <1>3, <1>4, HandshakeIs DEF AsksAt
  <2> QED BY <1>4, <2>1 DEF Lost, Downs, ScenarioOn
<1>13. HandInv'
  <2>1. CASE AsksAt(turn) BY <1>3, <1>4, <1>5, <1>7, <1>10, <2>1, AsksAtHand
  <2>2. CASE /\ HearsAt(turn)
             /\ UNCHANGED <<worker, fatal, kind, backend, ring, out, stale, alarm, clientVars, history, pageVars>>
    BY <1>3, <1>7, <1>9, <1>10, <2>2, HearsAtHand
  <2>3. CASE stage' = "ending" BY <1>12, <2>3, HandSettles
  <2> QED BY <1>2, <2>1, <2>2, <2>3, HandshakeIs
<1> QED BY <1>7, <1>8, <1>9, <1>10, <1>11, <1>12, <1>13

LEMMA StatementKeepsHand ==
    ASSUME OwnInv, ~ fatal, RunsStatement
    PROVE  /\ ClientsInv' /\ HandInv' /\ ~ ScenarioOn /\ ~ Lost /\ at # Closing
           /\ Asking(0) /\ \A s \in Sessions : s # 0 => Idle(s)
           /\ HearsAt(0) /\ cycle[0].got # "ok" => Lost'
<1>1. BaseInv /\ ClientsInv /\ HandInv BY DEF OwnInv
<1>2. CallInv BY <1>1, BaseIs
<1>3. call.st = "serving" /\ call.req \in {"exec", "measure"} /\ Asking(0) /\ call.st # "ok"
  BY StatementIs DEF Serving, Asking
<1>4. UNCHANGED <<kind, plan, pageVars, worker, fatal>> /\ client' = client
  <2>1. UNCHANGED <<kind, plan, pageVars, worker, fatal>> BY WorkerStays DEF WorkerStep
  <2>2. client' = client BY DEF RunsStatement, AsksAt, clientVars
  <2> QED BY <2>1, <2>2
<1>5. UNCHANGED <<kind, plan, column, at, failed>> BY <1>4 DEF pageVars
<1>6. ~ ScenarioOn /\ stage \in {"none", "up"} BY <1>2, <1>3 DEF ScenarioOn, CallInv
<1>7. ClientsInv' /\ ~ Thrown BY <1>1, <1>3, <1>4, <1>5, <1>6, ClientsRest
<1>8. \A r \in Sessions : Asking(r) => r = 0 BY <1>3, <1>6 DEF Asking, Serving
<1>9. at # Closing /\ ~ Lost
  <2>1. call.req # "none" /\ call.req # "close" BY <1>3
  <2>2. at # Closing BY <1>1, <2>1, RowsAre
  <2>3. column \notin failed BY <1>1, <2>2, RowsAre
  <2> QED BY <1>3, <1>7, <2>2, <2>3 DEF Lost
<1>10. \A s \in Sessions : s # 0 => Idle(s) BY <1>1, <1>6, <1>8, <1>9, Rests
<1>11. 0 \in Sessions BY Numbers
<1>12. CASE AsksAt(0)
  <2>1. HandInv' BY <1>3, <1>4, <1>6, <1>11, <1>12, AsksAtHand
  <2>2. ~ HearsAt(0) BY <1>12 DEF AsksAt, HearsAt
  <2> QED BY <1>3, <1>6, <1>7, <1>9, <1>10, <2>1, <2>2
<1>13. CASE /\ HearsAt(0)
            /\ (cycle[0].got = "ok" /\ Answer("ok")) \/ (cycle[0].got # "ok" /\ Answer("error"))
            /\ UNCHANGED <<worker, fatal, kind, backend, ring, out, stale, alarm, clientVars, history, pageVars,
                           engineVars>>
  <2>1. HandInv' BY <1>6, <1>8, <1>9, <1>11, <1>13, HearsAtHand
  <2>2. cycle[0].got # "ok" => Lost'
    <3>1. cycle[0].got # "ok" => call'.req = call.req /\ call'.st = "error" BY <1>1, <1>3, <1>13, AnswerWas
    <3> QED BY <1>3, <1>13, <3>1 DEF Lost
  <2> QED BY <1>3, <1>6, <1>7, <1>9, <1>10, <2>1, <2>2
<1> QED BY <1>12, <1>13, StatementIs

LEMMA ScenarioKeepsHand ==
    ASSUME OwnInv, ~ fatal, RunsScenario
    PROVE  /\ ClientsInv' /\ HandInv' /\ at # Closing
           /\ ~ Prepared => ~ Lost /\ ~ ScenarioOn /\ Asking(turn) /\ \A s \in Sessions : s # turn => Idle(s)
           /\ ~ Prepared /\ HearsAt(turn) /\ cycle[turn].got # "ok" => Lost'
           /\ Thrown => Lost' \/ Thrown'
           /\ Prepared => ScenarioOn
<1>1. BaseInv /\ ClientsInv /\ HandInv BY DEF OwnInv
<1>2. RunInv /\ TypeInv /\ CallInv BY <1>1, BaseIs
<1>3. Serving("concurrent") /\ call.st = "serving" /\ call.req = "concurrent" /\ call.st # "ok"
  BY <1>2, ScenarioIs DEF Serving
<1>4. Prepared <=> ScenarioOn BY <1>3 DEF ScenarioOn
<1>5. at = LastRow /\ at # Closing /\ column \notin failed
  <2>1. at = LastRow /\ Closing \in Nat /\ LastRow = Closing - 2 BY <1>1, <1>3, RowsAre
  <2>2. at # Closing BY <2>1
  <2> QED BY <1>1, <2>1, <2>2, RowsAre
<1>6. UNCHANGED <<kind, plan, column, at, failed, worker, fatal>>
  <2>1. UNCHANGED <<kind, plan, pageVars, worker, fatal>> BY WorkerStays DEF WorkerStep
  <2> QED BY <2>1 DEF pageVars
<1>7. stage \in {"none", "up"} BY <1>2, <1>3 DEF CallInv
<1>8. ~ Prepared => ~ Thrown /\ ~ Lost
  <2>1. ~ Prepared => ~ Thrown
    <3>1. ASSUME NEW c \in Clients, client[c].at = "thrown", ~ Prepared PROVE FALSE BY <1>1, <1>4, <3>1, NoneAre
    <3> QED BY <3>1 DEF Thrown
  <2> QED BY <1>3, <1>5, <2>1 DEF Lost
<1>9. ~ Prepared => Asking(turn) /\ \A r \in Sessions : Asking(r) => r = turn
  BY <1>3, <1>7 DEF Asking, Serving
<1>10. ~ Prepared => \A s \in Sessions : s # turn => Idle(s) BY <1>1, <1>4, <1>8, <1>9, Rests
<1>11. \A st \in {"ok", "error"} : Answer(st) => call'.req = "concurrent" /\ call'.st = st
  BY <1>1, <1>3, AnswerWas
<1>12. Script' = Script /\ Closing' = Closing /\ LastRow' = LastRow BY <1>6, SameScript
<1> DEFINE Rest == /\ ClientsInv' /\ HandInv'
                   /\ ~ Prepared /\ HearsAt(turn) /\ cycle[turn].got # "ok" => Lost'
                   /\ Thrown => Lost' \/ Thrown'
<1> SUFFICES Rest BY <1>4, <1>5, <1>8, <1>9, <1>10
<1>13. CASE ~ Prepared /\ turn \in Sessions /\ AsksAt(turn)
  <2>1. ClientsInv' /\ HandInv' BY <1>3, <1>4, <1>6, <1>9, <1>13, AsksAtHand
  <2>2. ~ HearsAt(turn) BY <1>13 DEF AsksAt, HearsAt
  <2> QED BY <1>8, <1>13, <2>1, <2>2
<1>14. CASE /\ ~ Prepared /\ turn \in Sessions /\ HearsAt(turn) /\ stage' = stage
            /\ \/ cycle[turn].got = "ok" /\ turn' = turn + 1 /\ call' = call
               \/ cycle[turn].got # "ok" /\ Answer("error") /\ turn' = turn
            /\ UNCHANGED <<worker, fatal, kind, backend, ring, out, stale, alarm, clientVars, history, pageVars>>
  <2>1. client' = client BY <1>14 DEF clientVars
  <2>2. ClientsInv' BY <1>1, <1>3, <1>4, <1>6, <1>14, <2>1, ClientsRest
  <2>3. HandInv' BY <1>4, <1>8, <1>9, <1>14, HearsAtHand
  <2>4. cycle[turn].got # "ok" => Lost'
    <3>1. cycle[turn].got # "ok" => call'.req = "concurrent" /\ call'.st = "error" BY <1>11, <1>14
    <3> QED BY <1>6, <3>1 DEF Lost
  <2> QED BY <1>8, <1>14, <2>2, <2>3, <2>4
<1>15. CASE /\ Prepared /\ \A c \in Clients : client[c].at = "off"
            /\ client' = [c \in Clients |-> [Off EXCEPT !.at = "next"]]
            /\ UNCHANGED <<plan, queue, raised, kind, sessionVars, history, pageVars, callVars, engineVars>>
  <2>1. ScenarioOn' BY <1>4, <1>15 DEF ScenarioOn, Prepared, SetsUp, Used, SessionOf, Single, callVars, engineVars
  <2>2. \A c \in Clients : client'[c].at = "next" BY <1>15 DEF Off
  <2>3. ClientsInv' BY <2>1, <2>2 DEF ClientsInv
  <2>4. \A s \in Sessions : Idle(s)
    <3>1. \A s \in Sessions : ~ InHand(s) BY <1>15 DEF InHand, InUnit
    <3> QED BY <1>1, <1>4, <1>15, <3>1 DEF HandInv
  <2>5. HandInv' BY <1>15, <2>4, HandSettles DEF Idle, sessionVars
  <2>6. ~ Thrown BY <1>15 DEF Thrown
  <2> QED BY <1>15, <2>3, <2>5, <2>6
<1>16. CASE /\ AllDone /\ Answer("ok")
            /\ UNCHANGED <<worker, fatal, kind, sessionVars, clientVars, history, pageVars, engineVars>>
  <2>1. call'.req = "concurrent" /\ call'.st = "ok" BY <1>11, <1>16
  <2>2. Prepared /\ ~ Thrown
    <3>1. 0 \in Clients /\ client[0].at = "done" BY <1>16, Numbers DEF AllDone
    <3>2. ScenarioOn
      <4>1. ~ (at > LastRow) BY <1>1, <1>5, RowsAre
      <4> QED BY <1>1, <1>3, <3>1, <4>1 DEF ClientsInv
    <3>3. ~ Thrown BY <1>16 DEF AllDone, Thrown
    <3> QED BY <1>4, <3>2, <3>3
  <2>3. \A s \in Sessions : Idle(s)
    <3>1. \A s \in Sessions : ~ InHand(s) BY <1>16 DEF InHand, InUnit, AllDone
    <3> QED BY <1>1, <1>4, <2>2, <3>1 DEF HandInv
  <2>4. ClientsInv'
    <3>1. \A c \in Clients : client'[c].at = "done" BY <1>16 DEF AllDone, clientVars
    <3> QED BY <1>5, <1>6, <1>12, <2>1, <3>1 DEF ClientsInv
  <2>5. HandInv' BY <1>16, <2>3, HandSettles DEF Idle, sessionVars
  <2> QED BY <2>2, <2>4, <2>5
<1>17. CASE Thrown /\ Answer("error") /\ Abandon /\ UNCHANGED <<worker, fatal, kind, plan, sessionVars, pageVars, engineVars>>
  <2>1. call'.req = "concurrent" /\ call'.st = "error" BY <1>11, <1>17
  <2>2. Lost' /\ ~ ScenarioOn' BY <1>6, <2>1 DEF Lost, ScenarioOn
  <2>3. \A c \in Clients : client'[c].at = "off" BY <1>17, NoCycleIs DEF Abandon
  <2>4. ClientsInv' BY <2>3 DEF ClientsInv
  <2>5. HandInv' BY <2>2, HandSettles
  <2> QED BY <2>2, <2>4, <2>5
<1> QED BY <1>2, <1>13, <1>14, <1>15, <1>16, <1>17, ScenarioIs

\* A step that asks nothing and settles nothing.
LEMMA StillHand ==
    ASSUME HandInv, ~ ScenarioOn, ~ ScenarioOn', Lost => Lost', cycle' = cycle,
           \A s \in Sessions : ~ Asking(s)
    PROVE  HandInv' /\ (~ Lost => \A s \in Sessions : Idle(s))
<1>1. ~ Lost => \A s \in Sessions : Idle(s) BY Rests
<1>2. ~ Lost => \A s \in Sessions : Idle(s)' BY <1>1 DEF Idle
<1> QED BY <1>1, <1>2, HandSettles

\* The rest of the worker: the statistics, and an engine going down.
LEMMA RestKeepsHand ==
    ASSUME OwnInv, ~ fatal, Stats \/ SendsEnd \/ Leaves \/ Removes
    PROVE  /\ ClientsInv' /\ HandInv' /\ (Lost => Lost')
           /\ ~ Lost => \A s \in Sessions : Idle(s)
           /\ \A c \in Clients : client[c].at \in {"off", "done"}
           /\ cycle' = cycle /\ client' = client /\ queue' = queue /\ UNCHANGED history
           /\ ~ Lost' => Stats \/ at = Closing
<1>1. BaseInv /\ ClientsInv /\ HandInv BY DEF OwnInv
<1>2. RunInv /\ TypeInv /\ CallInv BY <1>1, BaseIs
<1>3. UNCHANGED <<kind, plan, column, at, failed, worker, fatal>>
  <2>1. UNCHANGED <<kind, plan, pageVars, worker, fatal>> BY WorkerStays DEF WorkerStep
  <2> QED BY <2>1 DEF pageVars
<1>4. cycle' = cycle /\ client' = client /\ queue' = queue /\ UNCHANGED history
  BY <1>2, EndIs DEF Stats, Leaves, Removes, sessionVars, clientVars
<1>5. CASE Stats
  <2>1. call.st = "serving" /\ call.req = "stats" /\ call.st # "ok" /\ Answer("ok") BY <1>5 DEF Stats, Serving
  <2>2. call'.req = "stats" /\ call'.st = "ok" /\ stage \in {"none", "up"}
    BY <1>1, <1>2, <2>1, AnswerWas DEF CallInv
  <2>3. ~ ScenarioOn /\ ~ ScenarioOn' /\ \A s \in Sessions : ~ Asking(s)
    BY <2>1, <2>2 DEF ScenarioOn, Asking, Serving
  <2>4. /\ ClientsInv' /\ ~ Thrown
        /\ \A c \in Clients : client[c].at \in {"off", "done"}
    BY <1>1, <1>3, <1>4, <2>1, <2>3, ClientsRest
  <2>5. Lost => Lost' BY <1>3, <2>1, <2>4 DEF Lost
  <2>6. HandInv' /\ (~ Lost => \A s \in Sessions : Idle(s)) BY <1>1, <1>4, <2>3, <2>5, StillHand
  <2> QED BY <1>4, <1>5, <2>4, <2>5, <2>6
<1>6. CASE SendsEnd \/ Leaves \/ Removes
  <2>1. stage \in Downs BY <1>6 DEF SendsEnd, Leaves, Removes, Downs
  <2>2. call.st = "serving" /\ call.req \in {"open", "close"} /\ call.st # "ok"
    BY <1>2, <2>1, StageIs DEF Downs
  <2>3. ~ ScenarioOn /\ \A s \in Sessions : ~ Asking(s)
    BY <2>1, <2>2 DEF ScenarioOn, Asking, Serving, Downs
  <2>4. /\ ClientsInv' /\ ~ Thrown
        /\ \A c \in Clients : client[c].at \in {"off", "done"}
    BY <1>1, <1>3, <1>4, <2>2, <2>3, ClientsRest
  <2>5. call'.req = call.req /\ (call.req = "open" => Lost')
    <3>1. CASE SendsEnd \/ Leaves
      <4>1. call' = call /\ stage' \in Downs BY <1>2, <3>1, EndIs DEF Leaves, Downs, callVars
      <4> QED BY <2>2, <4>1 DEF Lost
    <3>2. CASE Removes
      <4>1. \E st \in {"ok", "error"} : Answer(st) /\ (call.req = "open" => st = "error") BY <3>2 DEF Removes
      <4>2. PICK st \in {"ok", "error"} : Answer(st) /\ (call.req = "open" => st = "error") BY <4>1
      <4>3. call'.req = call.req /\ call'.st = st BY <1>1, <2>2, <4>2, AnswerWas
      <4> QED BY <1>3, <4>2, <4>3 DEF Lost
    <3> QED BY <1>6, <3>1, <3>2
  <2>6. Lost => Lost' BY <1>3, <2>2, <2>4, <2>5 DEF Lost
  <2>7. ~ ScenarioOn' BY <2>2, <2>5 DEF ScenarioOn
  <2>8. HandInv' /\ (~ Lost => \A s \in Sessions : Idle(s)) BY <1>1, <1>4, <2>3, <2>6, <2>7, StillHand
  <2>9. call.req = "close" => at = Closing BY <1>1, RowsAre
  <2> QED BY <1>4, <2>2, <2>4, <2>5, <2>6, <2>8, <2>9
<1> QED BY <1>5, <1>6

LEMMA PageKeepsHand ==
    ASSUME OwnInv, PageStep
    PROVE  /\ ClientsInv' /\ HandInv'
           /\ \/ AllFresh'
              \/ /\ UNCHANGED <<kind, plan, sessionVars, clientVars, history>> /\ (Lost => Lost')
                 /\ ~ Lost => \A s \in Sessions : Idle(s)
<1>1. BaseInv /\ ClientsInv /\ HandInv BY DEF OwnInv
<1>2. RunInv /\ TypeInv /\ CallInv /\ CellInv /\ FreshInv BY <1>1, BaseIs
<1>3. CASE worker = "none" /\ UNCHANGED <<sessionVars, clientVars, history>>
  <2>1. AllFresh' BY <1>2, <1>3 DEF FreshInv, AllFresh, sessionVars, clientVars, history
  <2> QED BY <2>1, FreshHand
<1>4. CASE Fresh
  BY <1>4, FreshIs, FreshHand
<1>5. CASE fatal /\ UNCHANGED <<sessionVars, clientVars, history>>
  <2>1. AllFresh' BY <1>2, <1>5 DEF FreshInv, AllFresh, sessionVars, clientVars, history
  <2> QED BY <2>1, FreshHand
<1>6. CASE /\ ~ fatal /\ worker # "none"
           /\ UNCHANGED <<kind, stage, turn, sessionVars, clientVars, history>> /\ worker' # "none" /\ fatal' = fatal
  <2>1. cycle' = cycle /\ client' = client /\ plan' = plan /\ UNCHANGED <<kind, stage, fatal>>
    BY <1>6 DEF sessionVars, clientVars
  <2>2. Script' = Script /\ Closing' = Closing /\ LastRow' = LastRow BY <2>1, SameScript
  <2>3. /\ at \in Nat /\ Closing \in Nat /\ at <= Closing /\ LastRow = Closing - 2 /\ Closing >= 6
        /\ ~ (at > LastRow /\ at <= LastRow)
    BY <1>1, RowsAre
  <2>4. ASSUME call.st # "serving", call'.st # "serving", Lost => Lost', ClientsInv'
        PROVE  /\ ClientsInv' /\ HandInv' /\ (Lost => Lost')
               /\ ~ Lost => \A s \in Sessions : Idle(s)
    <3>1. stage \in {"none", "up"} BY <1>2, <1>6, <2>4 DEF CallInv
    <3>2. ~ ScenarioOn /\ ~ ScenarioOn' /\ \A s \in Sessions : ~ Asking(s)
      BY <2>4, <3>1 DEF ScenarioOn, Asking, Serving
    <3> QED BY <1>1, <2>1, <2>4, <3>2, StillHand
  <2>5. CASE Evaluates
    <3>1. worker = "loading" /\ UNCHANGED <<column, at, failed, call>> BY <2>5 DEF Evaluates, pageVars
    <3>2. call.st # "serving" BY <1>2, <3>1 DEF CallInv
    <3>3. Lost => Lost' BY <2>1, <3>1 DEF Lost, Thrown
    <3>4. ClientsInv'
      <4>1. \A c \in Clients : client[c].at # "off" => /\ client[c].at = "done" /\ column \notin failed
                                                       /\ at > LastRow \/ (at = LastRow /\ call.st = "ok")
        BY <1>1, <3>2 DEF ClientsInv, ScenarioOn
      <4> QED BY <2>1, <2>2, <3>1, <4>1 DEF ClientsInv
    <3> QED BY <1>6, <2>4, <3>1, <3>2, <3>3, <3>4 DEF clientVars
  <2>6. CASE HearsReady \/ ReadyTimeout
    <3>1. at = 0 /\ call' = call /\ column' = column /\ failed' \in {failed, failed \cup {column}}
      BY <2>6 DEF HearsReady, ReadyTimeout, Fails, callVars
    <3>2. call.st = "none" /\ call.req = "none" BY <1>2, <3>1, NoCallIs DEF CallInv
    <3>3. \A c \in Clients : client[c].at = "off"
      <4>1. ~ (at > LastRow) /\ at # LastRow BY <2>3, <3>1
      <4> QED BY <1>1, <3>2, <4>1 DEF ClientsInv, ScenarioOn
    <3>4. ClientsInv' BY <2>1, <3>3 DEF ClientsInv
    <3>5. Lost => Lost' BY <2>1, <3>1, <3>2 DEF Lost, Thrown
    <3> QED BY <1>6, <2>4, <3>1, <3>2, <3>4, <3>5 DEF clientVars
  <2>7. CASE Posts
    <3>1. /\ call = NoCall /\ call' = [req |-> Script[at], st |-> "posted"]
          /\ UNCHANGED <<column, at, failed>>
      BY <1>6, <2>7 DEF Posts, pageVars
    <3>2. call.st = "none" /\ call.req = "none" /\ call'.st = "posted" BY <3>1, NoCallIs
    <3>3. ClientsInv'
      <4>1. \A c \in Clients : client[c].at # "off" => /\ client[c].at = "done" /\ column \notin failed
                                                       /\ at > LastRow
        BY <1>1, <3>2 DEF ClientsInv, ScenarioOn
      <4> QED BY <2>1, <2>2, <3>1, <4>1 DEF ClientsInv
    <3>4. Lost => Lost' BY <2>1, <3>1, <3>2 DEF Lost, Thrown
    <3> QED BY <1>6, <2>4, <3>2, <3>3, <3>4 DEF clientVars
  <2>8. CASE Hears
    <3>1. /\ call.st \in {"ok", "error"} /\ at # Closing /\ call' = NoCall /\ column' = column
          /\ \/ call.st = "error" /\ call.req # "stats" /\ failed' = failed \cup {column}
             \/ ~ (call.st = "error" /\ call.req # "stats") /\ at' = at + 1 /\ failed' = failed
      BY <2>8 DEF Hears, Fails
    <3>2. call.req # "none" /\ (call.req = "stats" => call.st = "ok") BY <1>2, <1>6, <3>1 DEF CallInv
    <3>3. call'.st = "none" BY <3>1, NoCallIs
    <3>4. \A c \in Clients : client[c].at # "off" => /\ client[c].at = "done" /\ column \notin failed
                                                     /\ at > LastRow \/ (at = LastRow /\ call.st = "ok")
      BY <1>1, <3>1 DEF ClientsInv, ScenarioOn
    <3>5. CASE call.st = "error"
      <4>1. ~ (at > LastRow)
        <5>1. at # Closing /\ at # Closing - 1 BY <1>1, <3>1, <3>2, <3>5, RowsAre
        <5> QED BY <2>3, <5>1
      <4>2. \A c \in Clients : client[c].at = "off" BY <3>4, <3>5, <4>1
      <4>3. ClientsInv' BY <2>1, <4>2 DEF ClientsInv
      <4>4. Lost' BY <3>1, <3>2, <3>5 DEF Lost
      <4> QED BY <1>6, <2>4, <3>1, <3>3, <4>3, <4>4 DEF clientVars
    <3>6. CASE call.st = "ok"
      <4>1. at' = at + 1 /\ failed' = failed BY <3>1, <3>6
      <4>2. at > LastRow \/ at = LastRow => at' > LastRow
        <5>1. LastRow \in Nat BY <2>3
        <5> QED BY <2>3, <4>1, <5>1
      <4>3. ClientsInv' BY <2>1, <2>2, <3>1, <3>4, <4>1, <4>2 DEF ClientsInv
      <4>4. Lost => Lost' BY <2>1, <3>1, <3>6, <4>1 DEF Lost, Thrown
      <4> QED BY <1>6, <2>4, <3>1, <3>3, <4>3, <4>4 DEF clientVars
    <3> QED BY <3>1, <3>5, <3>6
  <2>9. ~ Skip /\ ~ StartRun BY <1>6 DEF Skip, StartRun
  <2>10. Terminates => Fresh BY DEF Terminates
  <2> QED BY <1>4, <2>5, <2>6, <2>7, <2>8, <2>9, <2>10 DEF PageStep
<1> QED BY <1>2, <1>3, <1>4, <1>5, <1>6, PageIs

-----------------------------------------------------------------------------

LEMMA OwnKept == OwnInv /\ Next => ClientsInv' /\ HandInv'
<1> SUFFICES ASSUME OwnInv, Next PROVE ClientsInv' /\ HandInv' OBVIOUS
<1>1. BaseInv /\ ClientsInv /\ HandInv BY DEF OwnInv
<1>2. CASE PageStep BY <1>2, PageKeepsHand
<1>3. CASE OfWorker
  BY <1>3, ServeKeepsHand, OpensKeepsHand, HandshakeKeepsHand, StatementKeepsHand, ScenarioKeepsHand, RestKeepsHand
  DEF OfWorker, WorkerStep
<1>4. CASE WorkerErrors BY <1>1, <1>4, ErrorIs, FreshHand
<1>5. CASE OfGuest \/ Faults \/ \E s \in Sessions : OfSession(s)
  BY <1>1, <1>5, OthersKeepBase, SameBy, SameHand
<1>6. CASE \E c \in Clients : OfClient(c) BY <1>6, ClientKeepsHand
<1> QED BY <1>2, <1>3, <1>4, <1>5, <1>6 DEF Next, Progress

\* The inductive invariant of whose a session is.
THEOREM OwnersHold == Spec => []OwnInv
<1>1. Init => ClientsInv /\ HandInv
  <2> SUFFICES ASSUME Init PROVE ClientsInv /\ HandInv OBVIOUS
  <2>1. \A c \in Clients : client[c].at = "off" BY NoCycleIs DEF Init
  <2>2. \A s \in Sessions : Idle(s) BY NoCycleIs DEF Init, Idle
  <2> QED BY <2>1, <2>2 DEF ClientsInv, HandInv
<1>2. BaseInv /\ ClientsInv /\ HandInv /\ [Next]_vars => (ClientsInv /\ HandInv)'
  <2>1. CASE UNCHANGED vars
    <3> SUFFICES ASSUME OwnInv PROVE (ClientsInv /\ HandInv)' BY <2>1 DEF OwnInv
    <3>1. /\ UNCHANGED <<kind, plan, column, at, failed, call, stage, turn, worker, fatal, client, queue>>
          /\ cycle' = cycle
      BY <2>1 DEF vars, sessionVars, clientVars, pageVars, callVars, engineVars
    <3> QED BY <3>1, SameHand DEF OwnInv
  <2> QED BY <2>1, OwnKept DEF OwnInv
<1> QED BY <1>1, <1>2, BaseHolds, PTL DEF Spec, OwnInv

\* SessionQueue and the page's single request keep a session to one cycle at a
\* time (single-session.ts; pgrust-threads.worker.ts collect).
THEOREM OneCycleAtATime == Spec => []NeverOverlaps
<1>1. OwnInv => NeverOverlaps
  <2> SUFFICES ASSUME OwnInv, NEW c \in Clients, client[c].at \in InUnit, Holds(c), ~ Idle(SessionOf(c))
               PROVE  cycle[SessionOf(c)].by = c
    BY DEF NeverOverlaps
  <2>1. ClientsInv /\ HandInv BY DEF OwnInv
  <2>2. ScenarioOn BY <2>1, NoneAre DEF InUnit
  <2>3. InHand(SessionOf(c)) BY <2>1, <2>2, Numbers DEF HandInv
  <2>4. CASE Single BY <2>3, <2>4 DEF InHand, Holds
  <2>5. CASE ~ Single BY <2>3, <2>5 DEF InHand, SessionOf
  <2> QED BY <2>4, <2>5
<1> QED BY <1>1, OwnersHold, PTL

-----------------------------------------------------------------------------
(* Where a statement, its reply and a transaction are. *)

\* Nothing of a session's is on its way.
Empty(s) == /\ ring[s] = << >> /\ backend[s] # "busy" /\ out[s] = "none"
            /\ ~ stale[s] /\ cycle[s].unsent = 0

\* A statement's frame is in the ring, or with the backend, or its reply is out:
\* one of them, and nothing of another's.
UnderWay(s) ==
    /\ ~ stale[s]
    /\ \A i \in 1 .. Len(ring[s]) :
          ring[s][i] = IF i = Len(ring[s]) /\ cycle[s].unsent = 0 THEN "query" ELSE "part"
    /\ backend[s] = "busy" => ring[s] = << >> /\ cycle[s].unsent = 0 /\ out[s] = "none"
    /\ out[s] # "none" => ring[s] = << >> /\ cycle[s].unsent = 0
Sound(s) == /\ Idle(s) \/ cycle[s].got \in Answers => Empty(s)
            /\ Waiting(s) => UnderWay(s)

\* A backend is inside the transaction of the client in hand, from the reply to
\* its BEGIN to the reply that ends it.
Begun(s, c) == client[c].at = "begin" =>
                  cycle[s].by = c /\ (out[s] = "ok" \/ cycle[s].got \in {"ok", "failed"})
Unended(s, c) == client[c].at \in {"commit", "rollback"} /\ cycle[s].by = c =>
                  out[s] = "none" /\ cycle[s].got \notin Answers
Trans(s) == inside[s] # NoOne =>
    /\ inside[s] \in Clients /\ SessionOf(inside[s]) = s /\ client[inside[s]].at \in InUnit
    /\ Holds(inside[s]) /\ InTransaction(inside[s])
    /\ Begun(s, inside[s]) /\ Unended(s, inside[s])

SoundInv == ~ Lost => /\ ~ mixed /\ ~ foreign
                      /\ \A s \in Sessions : Trans(s) /\ (at # Closing => Sound(s))

\* A session no step touches.
LEMMA SameLocal ==
    ASSUME NEW s \in Sessions, UNCHANGED <<kind, plan, client, queue>>,
           backend'[s] = backend[s], ring'[s] = ring[s], out'[s] = out[s], stale'[s] = stale[s],
           cycle'[s] = cycle[s], inside'[s] = inside[s]
    PROVE  /\ Sound(s)' = Sound(s) /\ Trans(s)' = Trans(s)
<1>1. Sound(s)' = Sound(s) BY DEF Sound, Idle, Waiting, Empty, UnderWay
<1>2. Trans(s)' = Trans(s)
  BY DEF Trans, Begun, Unended, Holds, SessionOf, Single, InTransaction, Program, Besides, FanOut, Contends
<1> QED BY <1>1, <1>2

\* A step that leaves who a session's backend is inside, and the clients.
LEMMA SameInside ==
    ASSUME NEW s \in Sessions, UNCHANGED <<kind, plan, client, queue>>, inside'[s] = inside[s], Trans(s),
           \A c \in Clients : Begun(s, c) => Begun(s, c)',
           \A c \in Clients : inside[s] = c /\ Unended(s, c) => Unended(s, c)'
    PROVE  Trans(s)'
BY DEF Trans, Holds, SessionOf, Single, InTransaction, Program, Besides, FanOut, Contends

LEMMA TakesSound ==
    ASSUME SessionTypes, NEW s \in Sessions, GuestTakes(s), Sound(s)
    PROVE  Sound(s)'
<1>1. /\ backend[s] = "idle" /\ ring[s] # << >> /\ out[s] = "none"
      /\ ring' = [ring EXCEPT ![s] = Tail(ring[s])]
      /\ UNCHANGED <<out, stale, cycle>>
  BY GuestTakesIs
<1>2. PICK b \in {"idle", "busy", "gone"} :
         /\ backend' = [backend EXCEPT ![s] = b]
         /\ b = "busy" => Head(ring[s]) = "query"
         /\ Head(ring[s]) = "query" => b = "busy"
         /\ Head(ring[s]) = "part" => b = "idle"
  BY GuestTakesIs
<1>3. backend'[s] = b /\ ring'[s] = Tail(ring[s]) BY <1>1, <1>2 DEF SessionTypes
<1>4. ~ Idle(s) /\ cycle[s].got \notin Answers BY <1>1 DEF Sound, Empty
<1>5. ~ Idle(s)' /\ cycle'[s].got \notin Answers /\ Waiting(s)' = Waiting(s) BY <1>1, <1>4 DEF Idle, Waiting
<1>6. ASSUME Waiting(s) PROVE UnderWay(s)'
  <2>1. UnderWay(s) BY <1>6 DEF Sound
  <2>2. ring[s] \in Seq({"part", "query", "end"}) /\ Len(ring[s]) \in Nat /\ Len(ring[s]) >= 1
        /\ Head(ring[s]) = ring[s][1]
    BY <1>1, RingIs
  <2>3. /\ Len(Tail(ring[s])) = Len(ring[s]) - 1
        /\ \A i \in 1 .. Len(ring[s]) - 1 : Tail(ring[s])[i] = ring[s][i + 1] /\ i + 1 \in 1 .. Len(ring[s])
                                           /\ (i + 1 = Len(ring[s]) <=> i = Len(ring[s]) - 1)
    BY <1>1, <2>2
  <2>4. \A i \in 1 .. Len(ring'[s]) :
          ring'[s][i] = IF i = Len(ring'[s]) /\ cycle'[s].unsent = 0 THEN "query" ELSE "part"
    BY <1>1, <1>3, <2>1, <2>3 DEF UnderWay
  <2>5. b = "busy" => ring'[s] = << >> /\ cycle'[s].unsent = 0
    <3> SUFFICES ASSUME b = "busy" PROVE ring'[s] = << >> /\ cycle'[s].unsent = 0 OBVIOUS
    <3>1. ring[s][1] = "query" /\ 1 \in 1 .. Len(ring[s]) BY <1>2, <2>2
    <3>2. 1 = Len(ring[s]) /\ cycle[s].unsent = 0 BY <2>1, <3>1 DEF UnderWay
    <3>3. Tail(ring[s]) = << >>
      <4>1. Tail(ring[s]) \in Seq({"part", "query", "end"}) BY <1>1, RingIs
      <4>2. Len(Tail(ring[s])) = 0 BY <2>3, <3>2
      <4> QED BY <4>1, <4>2, EmptySeq
    <3> QED BY <1>1, <1>3, <3>2, <3>3
  <2> QED BY <1>1, <1>3, <2>1, <2>4, <2>5 DEF UnderWay
<1> QED BY <1>4, <1>5, <1>6 DEF Sound

LEMMA SendSound ==
    ASSUME SessionTypes, NEW s \in Sessions, Send(s), Sound(s)
    PROVE  Sound(s)'
<1>1. /\ cycle[s].unsent > 0
      /\ ring'[s] = Append(ring[s], IF cycle[s].unsent = 1 THEN "query" ELSE "part")
      /\ cycle'[s].unsent = cycle[s].unsent - 1 /\ cycle'[s].by = cycle[s].by /\ cycle'[s].got = cycle[s].got
      /\ UNCHANGED <<backend, out, stale>>
  BY SendIs DEF SessionTypes
<1>2. cycle[s].unsent \in Nat BY DEF SessionTypes, Cycles
<1>3. ~ Idle(s) /\ cycle[s].got \notin Answers
  <2>1. cycle[s].unsent # 0 BY <1>1, <1>2
  <2> QED BY <2>1 DEF Sound, Empty
<1>4. ~ Idle(s)' /\ cycle'[s].got \notin Answers /\ Waiting(s)' = Waiting(s) BY <1>1, <1>3 DEF Idle, Waiting
<1>5. ASSUME Waiting(s) PROVE UnderWay(s)'
  <2>1. UnderWay(s) BY <1>5 DEF Sound
  <2>2. cycle[s].unsent # 0 BY <1>1, <1>2
  <2>3. backend[s] # "busy" /\ out[s] = "none" BY <2>1, <2>2 DEF UnderWay
  <2>4. \A i \in 1 .. Len(ring[s]) : ring[s][i] = "part" BY <2>1, <2>2 DEF UnderWay
  <2>5. cycle[s].unsent = 1 <=> cycle'[s].unsent = 0 BY <1>1, <1>2
  <2>6. ring[s] \in Seq({"part", "query", "end"}) /\ Len(ring[s]) \in Nat BY RingIs
  <2> DEFINE u == IF cycle[s].unsent = 1 THEN "query" ELSE "part"
  <2>7. /\ Len(Append(ring[s], u)) = Len(ring[s]) + 1
        /\ \A i \in 1 .. Len(ring[s]) : Append(ring[s], u)[i] = ring[s][i]
        /\ Append(ring[s], u)[Len(ring[s]) + 1] = u
    BY <2>6
  <2>8. ASSUME NEW i \in 1 .. Len(ring'[s])
        PROVE  ring'[s][i] = IF i = Len(ring'[s]) /\ cycle'[s].unsent = 0 THEN "query" ELSE "part"
    <3>1. ring'[s] = Append(ring[s], u) /\ Len(ring'[s]) = Len(ring[s]) + 1 BY <1>1, <2>7
    <3> HIDE DEF u
    <3>2. CASE i = Len(ring[s]) + 1
      <4>1. ring'[s][i] = u BY <2>7, <3>1, <3>2
      <4> QED BY <2>5, <3>1, <3>2, <4>1 DEF u
    <3>3. CASE i # Len(ring[s]) + 1
      <4>1. i \in 1 .. Len(ring[s]) BY <2>6, <3>1, <3>3
      <4>2. ring'[s][i] = "part" BY <2>4, <2>7, <3>1, <4>1
      <4>3. i # Len(ring'[s]) BY <3>1, <3>3
      <4> QED BY <4>2, <4>3
    <3> QED BY <3>2, <3>3
  <2> QED BY <1>1, <2>1, <2>3, <2>8 DEF UnderWay
<1> QED BY <1>3, <1>4, <1>5 DEF Sound

LEMMA FeedSound ==
    ASSUME SessionTypes, NEW s \in Sessions, Feed(s), Sound(s)
    PROVE  Sound(s)' /\ foreign' = foreign
<1>1. /\ out[s] \in Answers /\ out'[s] = "none"
      /\ ~ Waiting(s) => cycle'[s] = cycle[s]
      /\ Waiting(s) => /\ cycle'[s].got = out[s] /\ cycle'[s].by = cycle[s].by
                       /\ cycle'[s].unsent = cycle[s].unsent
      /\ foreign' = (foreign \/ (stale[s] /\ Waiting(s)))
      /\ stale'[s] = FALSE
      /\ UNCHANGED <<backend, ring>>
  BY FeedIs DEF SessionTypes
<1>2. out[s] # "none" BY <1>1 DEF Answers
<1>3. ~ Idle(s) /\ cycle[s].got \notin Answers BY <1>2 DEF Sound, Empty
<1>4. foreign \in BOOLEAN BY DEF SessionTypes
<1>5. CASE Waiting(s)
  <2>1. UnderWay(s) BY <1>5 DEF Sound
  <2>2. ~ stale[s] /\ ring[s] = << >> /\ cycle[s].unsent = 0 /\ backend[s] # "busy"
    BY <1>2, <2>1 DEF UnderWay
  <2>3. Empty(s)' BY <1>1, <1>5, <2>2 DEF Empty
  <2>4. ~ Waiting(s)' BY <1>1, <1>2, <1>5 DEF Waiting
  <2>5. foreign' = foreign BY <1>1, <1>4, <2>2
  <2> QED BY <2>3, <2>4, <2>5 DEF Sound
<1>6. CASE ~ Waiting(s)
  <2>1. ~ Idle(s)' /\ cycle'[s].got \notin Answers /\ ~ Waiting(s)' BY <1>1, <1>3, <1>6 DEF Idle, Waiting
  <2>2. foreign' = foreign BY <1>1, <1>4, <1>6
  <2> QED BY <2>1, <2>2 DEF Sound
<1> QED BY <1>5, <1>6

\* A failed cycle promises nothing more; the others are untouched.
LEMMA FailSound ==
    ASSUME SessionTypes, NEW S, FailCycles(S), UNCHANGED <<ring, out>>, NEW s \in Sessions, Sound(s),
           backend'[s] = backend[s] \/ backend'[s] # "busy"
    PROVE  /\ Sound(s)'
           /\ \/ cycle'[s] = cycle[s]
              \/ cycle'[s].by = cycle[s].by /\ cycle'[s].got = "failed"
<1>1. CASE cycle'[s] = cycle[s] /\ stale'[s] = stale[s]
  <2>1. Idle(s)' = Idle(s) /\ Waiting(s)' = Waiting(s) BY <1>1 DEF Idle, Waiting
  <2>2. Empty(s) => Empty(s)' BY <1>1 DEF Empty
  <2>3. UnderWay(s) => UnderWay(s)' BY <1>1 DEF UnderWay
  <2> QED BY <1>1, <2>1, <2>2, <2>3 DEF Sound
<1>2. CASE Waiting(s) /\ cycle'[s].got = "failed" /\ cycle'[s].by = cycle[s].by
  <2>1. ~ Idle(s)' /\ ~ Waiting(s)' /\ cycle'[s].got \notin Answers BY <1>2 DEF Idle, Waiting, Answers
  <2> QED BY <1>2, <2>1 DEF Sound
<1> QED BY <1>1, <1>2, FailCyclesIs

LEMMA RepliesSound ==
    ASSUME SessionTypes, NotPiped, NEW s \in Sessions, GuestReplies(s), Sound(s)
    PROVE  Sound(s)'
<1>1. PICK r \in Answers :
        /\ \/ /\ Piped /\ backend[s] = "busy" /\ cycle' = cycle
              /\ backend' = [backend EXCEPT ![s] = "idle"] /\ out' = [out EXCEPT ![s] = r]
           \/ /\ ~ Piped /\ Waiting(s) /\ UNCHANGED <<backend, out>>
              /\ cycle' = [cycle EXCEPT ![s] = [cycle[s] EXCEPT !.got = r]]
        /\ UNCHANGED <<ring, stale>>
  BY GuestRepliesIs
<1>2. r # "none" /\ r # "failed" BY <1>1 DEF Answers
<1>3. CASE Piped
  <2>1. backend[s] = "busy" /\ cycle' = cycle /\ backend'[s] = "idle" /\ UNCHANGED <<ring, stale>>
    BY <1>1, <1>3 DEF SessionTypes
  <2>2. ~ Idle(s) /\ cycle[s].got \notin Answers BY <2>1 DEF Sound, Empty
  <2>3. Waiting(s) => UnderWay(s)' BY <2>1 DEF Sound, UnderWay
  <2> QED BY <2>1, <2>2, <2>3 DEF Sound, Idle, Waiting
<1>4. CASE ~ Piped
  <2>1. /\ cycle[s] \in Cycles /\ cycle \in [Sessions -> Cycles]
        /\ ring[s] = << >> /\ out[s] = "none" /\ ~ stale[s]
        /\ backend[s] \in {"none", "idle"} /\ cycle[s].unsent = 0
    BY <1>4 DEF SessionTypes, NotPiped
  <2>2. cycle'[s] = [cycle[s] EXCEPT !.got = r] BY <1>1, <1>4, <2>1
  <2>3. cycle'[s].got = r /\ cycle'[s].unsent = 0 BY <2>1, <2>2 DEF Cycles
  <2>4. Empty(s)' BY <1>1, <1>4, <2>1, <2>3 DEF Empty
  <2>5. ~ Waiting(s)' BY <1>2, <2>3 DEF Waiting
  <2> QED BY <2>4, <2>5 DEF Sound
<1> QED BY <1>3, <1>4

\* The reply to a client's statement moves its backend in or out of a
\* transaction, and in only to the client in hand.
LEMMA RepliesTrans ==
    ASSUME SessionTypes, NotPiped, kind' = kind, NEW s \in Sessions, GuestReplies(s), Sound(s), Trans(s),
           cycle[s].by \in Clients => InHand(s),
           \A c \in Clients : client[c].at = "begin" => InTransaction(c)
    PROVE  Trans(s)'
<1>0. PICK c : c = cycle[s].by OBVIOUS
<1> DEFINE tx == IF c \in Clients THEN client[c].at ELSE "none"
<1>1. PICK r \in Answers :
        /\ inside' = [inside EXCEPT ![s] = IF tx = "begin" /\ r = "ok" THEN c
                                            ELSE IF tx \in {"commit", "rollback"} THEN NoOne ELSE inside[s]]
        /\ \/ /\ Piped /\ backend[s] = "busy" /\ cycle' = cycle /\ out' = [out EXCEPT ![s] = r]
           \/ /\ ~ Piped /\ Waiting(s) /\ UNCHANGED out
              /\ cycle' = [cycle EXCEPT ![s] = [cycle[s] EXCEPT !.got = r]]
        /\ UNCHANGED <<plan, client, queue>>
  BY <1>0, GuestRepliesIs
<1>2. /\ inside \in [Sessions -> 0 .. NoOne] /\ out \in [Sessions -> {"none"} \cup Answers]
      /\ cycle \in [Sessions -> Cycles] /\ cycle[s] \in Cycles
  BY DEF SessionTypes
<1>3. cycle'[s].by = c
  <2>1. [cycle[s] EXCEPT !.got = r].by = c BY <1>0, <1>2 DEF Cycles
  <2> QED BY <1>0, <1>1, <1>2, <2>1
<1>4. \/ Piped /\ backend[s] = "busy" /\ cycle' = cycle /\ out'[s] = r
      \/ ~ Piped /\ Waiting(s) /\ cycle'[s].got = r /\ out' = out
  <2>1. [cycle[s] EXCEPT !.got = r].got = r BY <1>2 DEF Cycles
  <2> QED BY <1>1, <1>2, <2>1
<1>5. inside'[s] = IF tx = "begin" /\ r = "ok" THEN c
                   ELSE IF tx \in {"commit", "rollback"} THEN NoOne ELSE inside[s]
  BY <1>1, <1>2
<1>6. /\ \A d : Holds(d)' = Holds(d) /\ SessionOf(d)' = SessionOf(d) /\ InTransaction(d)' = InTransaction(d)
      /\ client' = client
  BY <1>1 DEF Holds, SessionOf, Single, InTransaction, Program, Besides, FanOut, Contends
<1> HIDE DEF tx
<1>7. CASE tx = "begin" /\ r = "ok"
  <2>1. c \in Clients /\ client[c].at = "begin" /\ inside'[s] = c BY <1>5, <1>7, NoCycleIs DEF tx
  <2>2. SessionOf(c) = s /\ Holds(c) BY <1>0, <2>1 DEF InHand
  <2>3. Begun(s, c)' BY <1>3, <1>4, <1>7, <2>1 DEF Begun
  <2>4. Unended(s, c)' BY <1>6, <2>1 DEF Unended
  <2>5. InTransaction(c) BY <2>1
  <2>6. "begin" \in InUnit BY DEF InUnit
  <2> QED BY <1>6, <2>1, <2>2, <2>3, <2>4, <2>5, <2>6 DEF Trans
<1>8. CASE tx \in {"commit", "rollback"}
  <2>1. inside'[s] = NoOne BY <1>5, <1>8
  <2> QED BY <2>1 DEF Trans
<1>9. CASE ~ (tx = "begin" /\ r = "ok") /\ tx \notin {"commit", "rollback"}
  <2>1. inside'[s] = inside[s] BY <1>5, <1>9
  <2>2. ASSUME NEW d \in Clients, Begun(s, d) PROVE Begun(s, d)'
    <3> SUFFICES ASSUME client[d].at = "begin" PROVE Begun(s, d)' BY <1>6 DEF Begun
    <3>1. c = d /\ (out[s] = "ok" \/ cycle[s].got \in {"ok", "failed"}) BY <1>0, <2>2 DEF Begun
    <3>2. ~ Idle(s) BY <1>0, <3>1, Numbers DEF Idle
    <3>3. CASE Waiting(s)
      <4>1. cycle[s].got = "none" BY <3>3 DEF Waiting
      <4>2. out[s] = "ok" BY <3>1, <4>1
      <4>3. Piped BY <4>2 DEF NotPiped
      <4> QED BY <1>4, <3>3, <4>2, <4>3 DEF Sound, UnderWay
    <3>4. CASE ~ Waiting(s)
      <4>1. Piped /\ backend[s] = "busy" /\ cycle' = cycle BY <1>4, <3>4
      <4>2. cycle[s].got \notin Answers BY <4>1 DEF Sound, Empty
      <4>3. cycle[s].got = "failed" BY <1>2, <3>2, <3>4, <4>2 DEF Cycles, Waiting
      <4> QED BY <1>3, <3>1, <4>1, <4>3 DEF Begun
    <3> QED BY <3>3, <3>4
  <2>3. ASSUME NEW d \in Clients PROVE Unended(s, d)'
    <3>1. c = d => client[d].at \notin {"commit", "rollback"} BY <1>9 DEF tx
    <3> QED BY <1>3, <1>6, <3>1 DEF Unended
  <2> QED BY <1>1, <2>1, <2>2, <2>3, SameInside
<1> QED BY <1>7, <1>8, <1>9

\* What a session does to its own cycle.
LEMMA SessionKeepsSound ==
    ASSUME SessionTypes, NotPiped, kind' = kind, NEW s \in Sessions, SessionStep(s), Sound(s), Trans(s),
           cycle[s].by \in Clients => InHand(s),
           \A c \in Clients : client[c].at = "begin" => InTransaction(c)
    PROVE  Sound(s)' /\ Trans(s)' /\ foreign' = foreign /\ mixed' = mixed
<1>1. CASE GuestTakes(s) /\ UNCHANGED clientVars
  <2>1. UNCHANGED <<kind, plan, client, queue, out, cycle, inside, mixed, foreign>>
    BY <1>1, GuestTakesIs DEF clientVars
  <2>2. \A c \in Clients : (Begun(s, c) => Begun(s, c)') /\ (Unended(s, c) => Unended(s, c)')
    BY <2>1 DEF Begun, Unended
  <2>3. Trans(s)' BY <2>1, <2>2, SameInside
  <2> QED BY <1>1, <2>1, <2>3, TakesSound
<1>2. CASE GuestReplies(s)
  <2>1. UNCHANGED <<mixed, foreign>> BY <1>2, GuestRepliesIs
  <2> QED BY <1>2, <2>1, RepliesSound, RepliesTrans
<1>3. CASE Send(s) /\ UNCHANGED <<clientVars, history>>
  <2>1. UNCHANGED <<kind, plan, client, queue, out, inside, mixed, foreign>>
    BY <1>3, SendIs DEF clientVars, history
  <2>2. cycle'[s].by = cycle[s].by /\ cycle'[s].got = cycle[s].got BY <1>3, SendIs
  <2>3. \A c \in Clients : (Begun(s, c) => Begun(s, c)') /\ (Unended(s, c) => Unended(s, c)')
    BY <2>1, <2>2 DEF Begun, Unended
  <2>4. Trans(s)' BY <2>1, <2>3, SameInside
  <2> QED BY <1>3, <2>1, <2>4, SendSound
<1>4. CASE Feed(s) /\ UNCHANGED clientVars
  <2>1. UNCHANGED <<kind, plan, client, queue, inside, mixed>> BY <1>4, FeedIs DEF clientVars
  <2>2. /\ out[s] \in Answers /\ out'[s] = "none"
        /\ ~ Waiting(s) => cycle'[s] = cycle[s]
        /\ Waiting(s) => cycle'[s].got = out[s] /\ cycle'[s].by = cycle[s].by
    BY <1>4, FeedIs DEF SessionTypes
  <2>3. Sound(s)' /\ foreign' = foreign BY <1>4, FeedSound
  <2>4. out[s] # "none" BY <2>2 DEF Answers
  <2>5. ~ Idle(s) /\ cycle[s].got \notin Answers BY <2>4 DEF Sound, Empty
  <2>6. cycle[s].got \in {"none", "failed"} BY <2>5 DEF SessionTypes, Cycles
  <2>7. ASSUME NEW c \in Clients, Begun(s, c) PROVE Begun(s, c)'
    <3> SUFFICES ASSUME client[c].at = "begin" PROVE Begun(s, c)' BY <2>1 DEF Begun
    <3>1. cycle[s].by = c /\ (out[s] = "ok" \/ cycle[s].got \in {"ok", "failed"}) BY <2>7 DEF Begun
    <3>2. CASE Waiting(s)
      <4>1. out[s] = "ok" BY <3>1, <3>2 DEF Waiting
      <4> QED BY <2>2, <3>1, <3>2, <4>1 DEF Begun
    <3>3. CASE ~ Waiting(s)
      <4>1. cycle[s].got = "failed" BY <2>5, <2>6, <3>3 DEF Waiting
      <4> QED BY <2>2, <3>1, <3>3, <4>1 DEF Begun
    <3> QED BY <3>2, <3>3
  <2>8. ASSUME NEW c \in Clients, Unended(s, c) PROVE Unended(s, c)'
    <3>1. ~ (client[c].at \in {"commit", "rollback"} /\ cycle[s].by = c) BY <2>4, <2>8 DEF Unended
    <3>2. cycle'[s].by = cycle[s].by BY <2>2
    <3> QED BY <2>1, <3>1, <3>2 DEF Unended
  <2>9. Trans(s)' BY <2>1, <2>7, <2>8, SameInside
  <2> QED BY <2>1, <2>3, <2>9
<1>5. CASE PumpEnds(s) /\ UNCHANGED <<clientVars, history>>
  <2>1. /\ backend[s] = "gone" /\ backend' = [backend EXCEPT ![s] = "closed"]
        /\ FailCycles({s}) /\ UNCHANGED <<ring, out>>
        /\ UNCHANGED <<kind, plan, client, queue, inside, mixed, foreign>>
    BY <1>5 DEF PumpEnds, clientVars, history
  <2>2. backend'[s] # "busy" BY <2>1 DEF SessionTypes
  <2>3. Sound(s)' /\ (cycle'[s] = cycle[s] \/ (cycle'[s].by = cycle[s].by /\ cycle'[s].got = "failed"))
    BY <2>1, <2>2, FailSound
  <2>4. \A c \in Clients : (Begun(s, c) => Begun(s, c)') /\ (Unended(s, c) => Unended(s, c)')
    BY <2>1, <2>3 DEF Begun, Unended, Answers
  <2>5. Trans(s)' BY <2>1, <2>4, SameInside
  <2> QED BY <2>1, <2>3, <2>5
<1> QED BY <1>1, <1>2, <1>3, <1>4, <1>5 DEF SessionStep

\* A session's step keeps off every other session.
LEMMA StepIsLocal ==
    ASSUME SessionTypes, kind' = kind, NEW s \in Sessions, SessionStep(s), NEW r \in Sessions, r # s
    PROVE  Sound(r)' = Sound(r) /\ Trans(r)' = Trans(r)
<1> SUFFICES /\ UNCHANGED <<kind, plan, client, queue>>
             /\ backend'[r] = backend[r] /\ ring'[r] = ring[r] /\ out'[r] = out[r] /\ stale'[r] = stale[r]
             /\ cycle'[r] = cycle[r] /\ inside'[r] = inside[r]
  BY SameLocal
<1>1. /\ backend = [x \in Sessions |-> backend[x]] /\ ring = [x \in Sessions |-> ring[x]]
      /\ out = [x \in Sessions |-> out[x]] /\ stale = [x \in Sessions |-> stale[x]]
      /\ cycle = [x \in Sessions |-> cycle[x]] /\ inside = [x \in Sessions |-> inside[x]]
  BY DEF SessionTypes
<1>2. CASE GuestTakes(s) /\ UNCHANGED clientVars
  <2>1. /\ \E b : backend' = [backend EXCEPT ![s] = b]
        /\ ring' = [ring EXCEPT ![s] = Tail(ring[s])]
        /\ UNCHANGED <<kind, plan, client, queue, out, stale, cycle, inside>>
    BY <1>2, GuestTakesIs DEF clientVars
  <2> QED BY <1>1, <2>1
<1>3. CASE GuestReplies(s)
  <2>1. /\ UNCHANGED <<kind, plan, client, queue, ring, stale>>
        /\ backend' = backend \/ \E b : backend' = [backend EXCEPT ![s] = b]
        /\ out' = out \/ \E b : out' = [out EXCEPT ![s] = b]
        /\ cycle' = cycle \/ \E b : cycle' = [cycle EXCEPT ![s] = b]
        /\ \E b : inside' = [inside EXCEPT ![s] = b]
    BY <1>3, GuestRepliesIs
  <2> QED BY <1>1, <2>1
<1>4. CASE Send(s) /\ UNCHANGED <<clientVars, history>>
  <2>1. /\ UNCHANGED <<kind, plan, client, queue, out, stale, backend, inside>>
        /\ \E b : ring' = [ring EXCEPT ![s] = b]
        /\ \A x \in Sessions \ {s} : cycle'[x] = cycle[x]
    BY <1>4, SendIs DEF clientVars, history
  <2> QED BY <1>1, <2>1
<1>5. CASE Feed(s) /\ UNCHANGED clientVars
  <2>1. /\ UNCHANGED <<kind, plan, client, queue, ring, backend, inside>>
        /\ out' = [out EXCEPT ![s] = "none"] /\ stale' = [stale EXCEPT ![s] = FALSE]
        /\ \A x \in Sessions : x # s => cycle'[x] = cycle[x]
    BY <1>5, FeedIs DEF clientVars
  <2> QED BY <1>1, <2>1
<1>6. CASE PumpEnds(s) /\ UNCHANGED <<clientVars, history>>
  <2>1. /\ UNCHANGED <<kind, plan, client, queue, ring, out, inside>>
        /\ backend' = [backend EXCEPT ![s] = "closed"] /\ FailCycles({s})
    BY <1>6 DEF PumpEnds, clientVars, history
  <2>2. cycle'[r] = cycle[r] /\ stale'[r] = stale[r] BY <2>1, FailCyclesIs
  <2> QED BY <1>1, <2>1, <2>2
<1> QED BY <1>2, <1>3, <1>4, <1>5, <1>6 DEF SessionStep

\* An exit or a refused spawn fails cycles, and a backend that leaves says
\* nothing more.
LEMMA GuestKeepsSound ==
    ASSUME SessionTypes, UNCHANGED <<kind, clientVars>>,
           (HandleEvent /\ UNCHANGED history) \/ SpawnRefused \/ \E r \in Used : GuestLeaves(r),
           NEW s \in Sessions, Sound(s)
    PROVE  /\ Sound(s)' /\ (Trans(s) => Trans(s)') /\ foreign' = foreign /\ mixed' = mixed
<1>1. UNCHANGED <<plan, client, queue>> BY DEF clientVars
<1>2. CASE HandleEvent /\ UNCHANGED history
  <2>1. FailCycles(Used) /\ UNCHANGED <<backend, ring, out, inside, mixed, foreign>>
    BY <1>2 DEF HandleEvent, history
  <2>2. Sound(s)' /\ (cycle'[s] = cycle[s] \/ (cycle'[s].by = cycle[s].by /\ cycle'[s].got = "failed"))
    BY <2>1, FailSound
  <2>3. \A c \in Clients : (Begun(s, c) => Begun(s, c)') /\ (Unended(s, c) => Unended(s, c)')
    BY <1>1, <2>1, <2>2 DEF Begun, Unended, Answers
  <2>4. Trans(s) => Trans(s)' BY <1>1, <2>1, <2>3, SameInside
  <2> QED BY <2>1, <2>2, <2>4
<1>3. CASE SpawnRefused
  <2>1. UNCHANGED <<backend, ring, out, stale, cycle, inside, mixed, foreign>> BY <1>3 DEF SpawnRefused, history
  <2> QED BY <1>1, <2>1, SameLocal
<1>4. ASSUME NEW r \in Used, GuestLeaves(r)
      PROVE  /\ Sound(s)' /\ (Trans(s) => Trans(s)') /\ foreign' = foreign /\ mixed' = mixed
  <2>1. /\ \E how \in {"gone", "stuck"} : backend' = [backend EXCEPT ![r] = how]
        /\ UNCHANGED <<ring, out, stale, cycle, inside, mixed, foreign>>
    BY <1>4 DEF GuestLeaves, history
  <2>2. backend'[s] = backend[s] \/ backend'[s] # "busy" BY <2>1 DEF SessionTypes
  <2>3. Sound(s)' BY <2>1, <2>2 DEF Sound, Idle, Waiting, Empty, UnderWay
  <2>4. \A c \in Clients : (Begun(s, c) => Begun(s, c)') /\ (Unended(s, c) => Unended(s, c)')
    BY <1>1, <2>1 DEF Begun, Unended
  <2>5. Trans(s) => Trans(s)' BY <1>1, <2>1, <2>4, SameInside
  <2> QED BY <2>1, <2>3, <2>5
<1> QED BY <1>2, <1>3, <1>4

-----------------------------------------------------------------------------
(* Every step keeps what a Run's reports rest on. *)

WholeInv == OwnInv /\ SoundInv

LEMMA FreshSound == AllFresh' => SoundInv'
<1> SUFFICES ASSUME AllFresh' PROVE SoundInv' OBVIOUS
<1>1. ~ mixed' /\ ~ foreign' BY DEF AllFresh
<1>2. \A s \in Sessions : Empty(s)' /\ Idle(s)' BY NoCycleIs DEF AllFresh, Empty, Idle
<1>3. \A s \in Sessions : Sound(s)' BY <1>2 DEF Sound, Waiting
<1>4. \A s \in Sessions : Trans(s)' BY DEF AllFresh, Trans
<1> QED BY <1>1, <1>3, <1>4 DEF SoundInv

\* Outside a scenario no backend is inside a transaction; at the close of a Run
\* that went well nothing is in flight either.
LEMMA OutsideIs ==
    ASSUME OwnInv, NEW s \in Sessions, Trans(s), ~ ScenarioOn
    PROVE  inside[s] = NoOne
BY NoneAre DEF Trans, InUnit, OwnInv

LEMMA CloseIs ==
    ASSUME OwnInv, ~ Lost, at = Closing
    PROVE  ~ ScenarioOn /\ \A s \in Sessions : Idle(s)
<1>1. BaseInv /\ HandInv BY DEF OwnInv
<1>2. RunInv /\ FreshInv BY <1>1, BaseIs
<1>3. call.req = "none" \/ call.req = "close" BY <1>1, RowsAre
<1>4. ~ ScenarioOn BY <1>3 DEF ScenarioOn
<1>5. CASE fatal
  <2>1. \A s \in Sessions : Idle(s) BY <1>2, <1>5, NoCycleIs DEF FreshInv, AllFresh, Idle
  <2> QED BY <1>4, <2>1
<1>6. CASE ~ fatal
  <2>1. stage # "handshake" BY <1>2, <1>3, <1>6, StageIs
  <2>2. \A s \in Sessions : ~ Asking(s) BY <1>3, <2>1 DEF Asking, Serving
  <2> QED BY <1>1, <1>4, <2>2, Rests
<1> QED BY <1>5, <1>6

\* While a scenario runs the client in hand is the one its session's backend may
\* be inside.
LEMMA OneInHand ==
    ASSUME NEW c \in Clients, NEW s \in Sessions, SessionOf(c) = s, Holds(c), Trans(s), inside[s] # NoOne
    PROVE  inside[s] = c
BY DEF Trans, SessionOf, Holds

LEMMA OthersKeepSound ==
    ASSUME WholeInv, OfGuest \/ Faults \/ \E s \in Sessions : OfSession(s)
    PROVE  SoundInv'
<1>1. BaseInv /\ ClientsInv /\ HandInv /\ OwnInv /\ SoundInv BY DEF WholeInv, OwnInv
<1>2. SessionTypes /\ NotPiped BY <1>1, BaseIs
<1>3. UNCHANGED <<kind, plan, column, at, failed, call, stage, turn, worker, fatal, client, queue, raised>>
  BY <1>1, OthersKeepBase, SameBy
<1>4. Lost' = Lost BY <1>1, <1>3, SameHand, SameBy
<1>5. Closing' = Closing /\ UNCHANGED clientVars BY <1>3, SameScript DEF clientVars
<1> SUFFICES ASSUME ~ Lost PROVE SoundInv' BY <1>4 DEF SoundInv
<1>6. ~ mixed /\ ~ foreign /\ \A s \in Sessions : Trans(s) BY <1>1 DEF SoundInv
<1>7. CASE at # Closing
  <2>1. \A s \in Sessions : Sound(s) BY <1>1, <1>7 DEF SoundInv
  <2>2. 0 \in Sessions BY Numbers
  <2>3. CASE OfGuest \/ Faults
    <3>1. (HandleEvent /\ UNCHANGED history) \/ SpawnRefused \/ \E r \in Used : GuestLeaves(r)
      BY <2>3 DEF OfGuest, Faults
    <3>2. \A s \in Sessions : Sound(s)' /\ Trans(s)' /\ foreign' = foreign /\ mixed' = mixed
      BY <1>2, <1>3, <1>5, <1>6, <2>1, <3>1, GuestKeepsSound
    <3> QED BY <1>6, <2>2, <3>2 DEF SoundInv
  <2>4. ASSUME NEW s \in Sessions, OfSession(s) PROVE SoundInv'
    <3>1. SessionStep(s) BY <2>4 DEF OfSession
    <3>2. cycle[s].by \in Clients => InHand(s)
      <4>1. Idle(s) => cycle[s].by \notin Clients BY Numbers DEF Idle
      <4>2. ~ ScenarioOn /\ ~ Idle(s) => cycle[s].by \notin Clients BY <1>1, Numbers DEF HandInv
      <4> QED BY <1>1, <4>1, <4>2 DEF HandInv
    <3>3. \A c \in Clients : client[c].at = "begin" => InTransaction(c) BY <1>1 DEF ClientsInv
    <3>4. Sound(s)' /\ Trans(s)' /\ foreign' = foreign /\ mixed' = mixed
      BY <1>2, <1>3, <1>6, <2>1, <3>1, <3>2, <3>3, SessionKeepsSound
    <3>5. \A r \in Sessions : r # s => Sound(r)' /\ Trans(r)' BY <1>2, <1>3, <1>6, <2>1, <3>1, StepIsLocal
    <3> QED BY <1>6, <3>4, <3>5 DEF SoundInv
  <2> QED BY <2>3, <2>4
<1>8. CASE at = Closing
  <2>1. \A s \in Sessions : Idle(s) /\ inside[s] = NoOne BY <1>1, <1>6, <1>8, CloseIs, OutsideIs
  <2>2. CASE OfGuest \/ Faults
    <3>1. UNCHANGED history
      BY <2>2 DEF OfGuest, Faults, SpawnRefused, GuestLeaves
    <3> QED BY <1>3, <1>5, <1>6, <1>8, <2>1, <3>1 DEF SoundInv, Trans, history
  <2>3. ASSUME NEW s \in Sessions, OfSession(s) PROVE SoundInv'
    <3>1. SessionStep(s) BY <2>3 DEF OfSession
    <3>2. Idle(s) /\ inside[s] = NoOne /\ cycle[s].by = NoOne /\ NoOne \notin Clients BY <2>1, Numbers DEF Idle
    <3>3. inside'[s] = NoOne /\ foreign' = foreign /\ mixed' = mixed
      <4>1. CASE GuestTakes(s) /\ UNCHANGED clientVars BY <1>2, <3>2, <4>1, GuestTakesIs
      <4>2. CASE GuestReplies(s)
        <5>1. inside' = [inside EXCEPT ![s] = inside[s]] /\ UNCHANGED <<mixed, foreign>>
          BY <1>2, <3>2, <4>2, GuestRepliesIs
        <5> QED BY <1>2, <3>2, <5>1 DEF SessionTypes
      <4>3. CASE Send(s) /\ UNCHANGED <<clientVars, history>> BY <3>2, <4>3 DEF history
      <4>4. CASE Feed(s) /\ UNCHANGED clientVars
        <5>1. foreign' = (foreign \/ (stale[s] /\ Waiting(s))) /\ foreign \in BOOLEAN /\ UNCHANGED <<inside, mixed>>
          BY <1>2, <4>4, FeedIs DEF SessionTypes
        <5>2. ~ Waiting(s) BY <3>2 DEF Waiting
        <5> QED BY <3>2, <5>1, <5>2
      <4>5. CASE PumpEnds(s) /\ UNCHANGED <<clientVars, history>> BY <3>2, <4>5 DEF history
      <4> QED BY <3>1, <4>1, <4>2, <4>3, <4>4, <4>5 DEF SessionStep
    <3>4. \A r \in Sessions : r # s => Trans(r)' BY <1>2, <1>3, <1>6, <3>1, StepIsLocal
    <3>5. Trans(s)' BY <3>3 DEF Trans
    <3> QED BY <1>3, <1>5, <1>6, <1>8, <3>3, <3>4, <3>5 DEF SoundInv
  <2> QED BY <2>2, <2>3
<1> QED BY <1>7, <1>8

\* A statement asked of an idle session finds nothing of another's there.
LEMMA AskSound ==
    ASSUME SessionTypes, NEW s \in Sessions, NEW who \in 0 .. NoOne, who # NoOne, Ask(s, who),
           Sound(s), inside[s] \in {NoOne, who},
           UNCHANGED <<backend, ring, out, stale>>
    PROVE  /\ Sound(s)' /\ mixed' = mixed /\ cycle'[s].by = who /\ cycle'[s].got = "none" /\ out[s] = "none"
           /\ Idle(s) /\ \A r \in Sessions \ {s} : cycle'[r] = cycle[r]
<1>1. Idle(s) /\ cycle'[s].by = who /\ cycle'[s].got = "none"
      /\ (\A r \in Sessions \ {s} : cycle'[r] = cycle[r])
      /\ mixed' = (mixed \/ inside[s] \notin {NoOne, who})
  BY AskIs
<1>2. Empty(s) BY <1>1 DEF Sound
<1>3. UnderWay(s)'
  <2>1. ring'[s] = << >> /\ Len(ring'[s]) = 0 BY <1>2 DEF Empty
  <2>2. \A i \in 1 .. Len(ring'[s]) : FALSE BY <2>1
  <2> QED BY <1>2, <2>2 DEF Empty, UnderWay
<1>4. ~ Idle(s)' /\ cycle'[s].got \notin Answers BY <1>1 DEF Idle, Answers
<1>5. mixed' = mixed
  <2>1. mixed \in BOOLEAN BY DEF SessionTypes
  <2> QED BY <1>1, <2>1
<1>6. Sound(s)' BY <1>3, <1>4 DEF Sound
<1> QED BY <1>1, <1>2, <1>5, <1>6 DEF Empty

\* A session whose client in hand keeps its place.
LEMMA SamePlace ==
    ASSUME NEW s \in Sessions, Trans(s), UNCHANGED <<kind, plan>>,
           inside'[s] = inside[s], out'[s] = out[s], cycle'[s] = cycle[s],
           inside[s] # NoOne => client'[inside[s]] = client[inside[s]] /\ Holds(inside[s])'
    PROVE  Trans(s)'
BY DEF Trans, Begun, Unended, SessionOf, Single, InTransaction, Program, Besides, FanOut, Contends

LEMMA SameSound ==
    ASSUME NEW s \in Sessions, UNCHANGED <<backend, ring, out, stale>>, cycle'[s] = cycle[s], Sound(s)
    PROVE  Sound(s)'
BY DEF Sound, Idle, Waiting, Empty, UnderWay

LEMMA ClientKeepsSound ==
    ASSUME WholeInv, NEW c \in Clients, OfClient(c)
    PROVE  SoundInv'
<1>1. BaseInv /\ ClientsInv /\ HandInv /\ OwnInv /\ SoundInv BY DEF WholeInv, OwnInv
<1>2. SessionTypes /\ ClientTypes /\ NotPiped BY <1>1, BaseIs
<1>3. ClientStep(c) BY DEF OfClient
<1>4. UNCHANGED <<kind, plan, column, at, failed, call, stage, turn, worker, fatal>>
  BY <1>1, OthersKeepBase
<1>5. ScenarioOn /\ at # Closing
  <2>1. ScenarioOn BY <1>1, ClientKeepsHand
  <2>2. at = LastRow /\ LastRow = Closing - 2 /\ Closing \in Nat BY <1>1, <2>1, RowsAre DEF ScenarioOn
  <2> QED BY <2>1, <2>2
<1>6. client[c].at # "thrown" /\ \A d \in Clients \ {c} : client'[d] = client[d]
  <2>1. CASE Enter(c) BY <1>2, <2>1, EnterIs
  <2>2. CASE ClientEnds(c) BY <1>2, <2>2, EndsIs
  <2>3. CASE ClientAsks(c) BY <2>3 DEF ClientAsks, clientVars, InUnit
  <2>4. CASE ClientHears(c)
    <3>1. client[c].at \in InUnit /\ \A d \in Clients \ {c} : client'[d] = client[d] BY <1>2, <2>4, HearsIs
    <3> QED BY <3>1 DEF InUnit
  <2> QED BY <1>3, <2>1, <2>2, <2>3, <2>4 DEF ClientStep
<1>7. Lost => Lost'
  <2>1. Thrown => Thrown' BY <1>6 DEF Thrown
  <2> QED BY <1>4, <2>1 DEF Lost
<1> SUFFICES ASSUME ~ Lost, ~ Lost' PROVE SoundInv' BY <1>7 DEF SoundInv
<1>8. /\ ~ mixed /\ ~ foreign /\ \A s \in Sessions : Trans(s) /\ Sound(s)
      /\ \A s \in Sessions : ~ Idle(s) => InHand(s)
  BY <1>1, <1>5 DEF SoundInv, HandInv
<1>9. /\ \A d \in Clients : SessionOf(d)' = SessionOf(d) /\ SessionOf(d) \in Sessions
      /\ Single' = Single
      /\ \A s \in Sessions : inside[s] # NoOne =>
            inside[s] \in Clients /\ SessionOf(inside[s]) = s /\ client[inside[s]].at \in InUnit /\ Holds(inside[s])
  BY <1>4, <1>8, Numbers DEF SessionOf, Single, Trans
<1>10. ASSUME UNCHANGED <<backend, ring, out, stale, cycle, inside, mixed, foreign>>, client[c].at = "next",
              \A d \in Clients : Holds(d) => Holds(d)'
       PROVE  SoundInv'
  <2>1. \A s \in Sessions : Sound(s)' BY <1>8, <1>10, SameSound
  <2>2. ASSUME NEW s \in Sessions PROVE Trans(s)'
    <3>1. inside[s] # NoOne => inside[s] \in Clients \ {c} BY <1>9, <1>10 DEF InUnit
    <3>2. inside[s] # NoOne => client'[inside[s]] = client[inside[s]] /\ Holds(inside[s])'
      BY <1>6, <1>9, <1>10, <3>1
    <3> QED BY <1>4, <1>8, <1>10, <3>2, SamePlace
  <2> QED BY <1>8, <1>10, <2>1, <2>2 DEF SoundInv
<1>11. CASE Enter(c)
  <2>1. /\ client[c].at = "next" /\ (queue' = queue \/ queue' = Append(queue, c))
        /\ UNCHANGED <<backend, ring, out, stale, cycle, inside, mixed, foreign>>
    BY <1>2, <1>11, EnterIs
  <2>2. queue \in Seq(Clients) BY <1>2 DEF ClientTypes
  <2>3. queue # << >> => queue' # << >> /\ Head(queue') = Head(queue) BY <2>1, <2>2
  <2>4. \A d \in Clients : Holds(d) => Holds(d)' BY <1>9, <2>3 DEF Holds
  <2> QED BY <1>10, <2>1, <2>4
<1>12. CASE ClientEnds(c)
  <2>1. /\ client[c].at = "next" /\ queue' = queue
        /\ UNCHANGED <<backend, ring, out, stale, cycle, inside, mixed, foreign>>
    BY <1>2, <1>12, EndsIs
  <2>2. \A d \in Clients : Holds(d) => Holds(d)' BY <1>9, <2>1 DEF Holds
  <2> QED BY <1>10, <2>1, <2>2
<1>13. CASE ClientAsks(c)
  <2>0. PICK s \in Sessions : s = SessionOf(c) BY <1>9
  <2>1. /\ client[c].at \in InUnit /\ Holds(c) /\ Ask(s, c) /\ cycle[s].by # c
        /\ UNCHANGED <<backend, ring, out, stale, inside, foreign, client, queue>>
    BY <1>13, <2>0 DEF ClientAsks, clientVars
  <2>2. s \in Sessions /\ c \in 0 .. NoOne /\ c # NoOne BY <1>9, Numbers
  <2>3. inside[s] # NoOne => inside[s] = c BY <1>8, <2>0, <2>1, <2>2, OneInHand
  <2>4. /\ Sound(s)' /\ mixed' = mixed /\ cycle'[s].by = c /\ cycle'[s].got = "none" /\ out[s] = "none"
        /\ \A r \in Sessions \ {s} : cycle'[r] = cycle[r]
    BY <1>2, <1>8, <2>1, <2>2, <2>3, AskSound
  <2>5. ASSUME NEW r \in Sessions, r # s PROVE Sound(r)' /\ Trans(r)'
    <3>1. cycle'[r] = cycle[r] BY <2>4, <2>5
    <3>2. Sound(r)' BY <1>8, <2>1, <3>1, SameSound
    <3>3. inside[r] # NoOne => client'[inside[r]] = client[inside[r]] /\ Holds(inside[r])'
      BY <1>9, <2>1 DEF Holds
    <3> QED BY <1>4, <1>8, <2>1, <3>1, <3>2, <3>3, SamePlace
  <2>6. Trans(s)'
    <3>1. ASSUME NEW d \in Clients, Begun(s, d), inside[s] = d PROVE Begun(s, d)'
      <4>1. client[d].at # "begin" BY <2>1, <2>3, <3>1, Numbers DEF Begun
      <4> QED BY <2>1, <4>1 DEF Begun
    <3>2. \A d \in Clients : Unended(s, d)' BY <2>1, <2>4 DEF Unended, Answers
    <3> QED BY <1>4, <1>8, <1>9, <2>1, <2>2, <3>1, <3>2
        DEF Trans, Holds, SessionOf, Single, InTransaction, Program, Besides, FanOut, Contends
  <2> QED BY <1>8, <2>1, <2>4, <2>5, <2>6 DEF SoundInv
<1>14. CASE ClientHears(c)
  <2>0. PICK s \in Sessions : s = SessionOf(c) BY <1>9
  <2>1. /\ cycle[s].by = c /\ client[c].at \in InUnit
        /\ cycle' = [cycle EXCEPT ![s] = NoCycle]
        /\ \/ client'[c].at = "thrown"
           \/ /\ client[c].at = "begin" /\ client'[c].at = "body" /\ cycle[s].got = "ok"
              /\ client'[c].step = client[c].step /\ queue' = queue
           \/ /\ client[c].at = "body" /\ InTransaction(c) /\ client'[c].at \in {"commit", "rollback"}
              /\ cycle[s].got \in Answers /\ client'[c].step = client[c].step /\ queue' = queue
           \/ /\ client'[c].at = "next" /\ cycle[s].got \in Answers /\ GiveBack
              /\ \/ client[c].at \in {"commit", "rollback"}
                 \/ client[c].at = "body" /\ ~ InTransaction(c)
                 \/ client[c].at = "begin" /\ cycle[s].got # "ok"
        /\ UNCHANGED <<backend, ring, out, stale, inside, mixed, foreign>>
    BY <1>2, <1>14, <2>0, HearsIs
  <2>2. client'[c].at # "thrown"
    <3>1. ~ Thrown' BY DEF Lost
    <3> QED BY <3>1 DEF Thrown
  <2>3. cycle[s].got \in Answers BY <2>1, <2>2 DEF Answers
  <2>4. Empty(s) /\ out[s] = "none" BY <1>8, <2>3 DEF Sound, Empty
  <2>5. cycle'[s] = NoCycle /\ \A r \in Sessions \ {s} : cycle'[r] = cycle[r] BY <1>2, <2>1 DEF SessionTypes
  <2>6. Sound(s)'
    <3>1. Empty(s)' /\ Idle(s)' BY <2>1, <2>4, <2>5, NoCycleIs DEF Empty, Idle
    <3> QED BY <3>1 DEF Sound, Waiting
  <2>7. InHand(s) /\ Holds(c)
    <3>1. ~ Idle(s) BY <2>1, Numbers DEF Idle
    <3> QED BY <1>8, <2>1, <3>1 DEF InHand
  <2>8. ASSUME NEW r \in Sessions, r # s PROVE Sound(r)' /\ Trans(r)'
    <3>1. cycle'[r] = cycle[r] BY <2>5, <2>8
    <3>2. Sound(r)' BY <1>8, <2>1, <3>1, SameSound
    <3>3. inside[r] # NoOne => client'[inside[r]] = client[inside[r]] /\ Holds(inside[r])'
      <4> SUFFICES ASSUME inside[r] # NoOne PROVE client'[inside[r]] = client[inside[r]] /\ Holds(inside[r])'
        OBVIOUS
      <4>1. inside[r] \in Clients /\ SessionOf(inside[r]) = r BY <1>9
      <4>2. inside[r] # c /\ ~ Single BY <2>0, <2>8, <4>1 DEF SessionOf
      <4> QED BY <1>6, <1>9, <4>1, <4>2 DEF Holds
    <3> QED BY <1>4, <1>8, <2>1, <3>1, <3>2, <3>3, SamePlace
  <2>9. Trans(s)'
    <3> SUFFICES ASSUME inside[s] # NoOne PROVE Trans(s)' BY <2>1 DEF Trans
    <3>1. inside[s] = c BY <1>8, <2>0, <2>7, OneInHand
    <3>2. InTransaction(c) /\ Begun(s, c) /\ Unended(s, c) BY <1>8, <3>1 DEF Trans
    <3>3. ~ (/\ client'[c].at = "next"
             /\ \/ client[c].at \in {"commit", "rollback"}
                \/ client[c].at = "body" /\ ~ InTransaction(c)
                \/ client[c].at = "begin" /\ cycle[s].got # "ok")
      <4>1. client[c].at \notin {"commit", "rollback"} BY <2>1, <2>3, <3>2 DEF Unended
      <4>2. client[c].at = "begin" => cycle[s].got = "ok" BY <2>3, <2>4, <3>2 DEF Begun, Answers
      <4> QED BY <3>2, <4>1, <4>2
    <3>4. /\ client'[c].at \in {"body", "commit", "rollback"}
          /\ client'[c].step = client[c].step /\ queue' = queue
      BY <2>1, <2>2, <3>3
    <3>5. InTransaction(c)' BY <1>4, <3>2, <3>4 DEF InTransaction, Program, Besides, FanOut, Contends
    <3>6. Holds(c)' BY <1>9, <2>7, <3>4 DEF Holds
    <3>7. Begun(s, c)' BY <3>4 DEF Begun
    <3>8. Unended(s, c)' BY <2>5, NoCycleIs, Numbers DEF Unended
    <3>9. inside'[s] = c /\ SessionOf(c)' = s /\ client'[c].at \in InUnit BY <1>9, <2>0, <2>1, <3>1, <3>4 DEF InUnit
    <3> QED BY <3>5, <3>6, <3>7, <3>8, <3>9 DEF Trans
  <2> QED BY <1>8, <2>1, <2>6, <2>8, <2>9 DEF SoundInv
<1> QED BY <1>3, <1>11, <1>12, <1>13, <1>14 DEF ClientStep

-----------------------------------------------------------------------------
(* The worker and the page. *)

\* Nothing that a report rests on has moved.
LEMMA StillSound ==
    ASSUME SoundInv, Lost => Lost', UNCHANGED <<kind, plan, client, queue, ring, out, stale, cycle, backend, history>>,
           at' # Closing' => at # Closing
    PROVE  SoundInv'
<1> SUFFICES ASSUME ~ Lost PROVE SoundInv' BY DEF SoundInv
<1>1. UNCHANGED <<inside, mixed, foreign>> BY DEF history
<1>2. \A s \in Sessions : Sound(s)' = Sound(s) /\ Trans(s)' = Trans(s) BY <1>1, SameLocal
<1> QED BY <1>1, <1>2 DEF SoundInv

\* The worker asks an idle session, with nobody's transaction open.
LEMMA WorkerAsksSound ==
    ASSUME WholeInv, kind' = kind, NEW s \in Sessions, AsksAt(s), ~ Lost, ~ ScenarioOn, at # Closing
    PROVE  SoundInv'
<1>1. BaseInv /\ OwnInv /\ SoundInv BY DEF WholeInv, OwnInv
<1>2. SessionTypes /\ ClientTypes /\ NotPiped BY <1>1, BaseIs
<1>3. /\ ~ mixed /\ ~ foreign
      /\ \A r \in Sessions : Sound(r) /\ Trans(r) /\ inside[r] = NoOne
  BY <1>1, OutsideIs DEF SoundInv
<1>4. /\ UNCHANGED <<backend, ring, out, stale, plan, client, queue, inside, foreign, pageVars>>
      /\ Ask(s, Worker)
  BY <1>2, AsksAtIs DEF AsksAt
<1>5. /\ Sound(s)' /\ mixed' = mixed /\ \A r \in Sessions \ {s} : cycle'[r] = cycle[r]
  BY <1>2, <1>3, <1>4, Numbers, AskSound
<1>6. \A r \in Sessions : Sound(r)' BY <1>3, <1>4, <1>5, SameSound
<1>7. \A r \in Sessions : Trans(r)' BY <1>3, <1>4 DEF Trans
<1> QED BY <1>3, <1>4, <1>5, <1>6, <1>7 DEF SoundInv

\* The worker hears the statement's own reply.
LEMMA WorkerHearsSound ==
    ASSUME WholeInv, NEW s \in Sessions, HearsAt(s), ~ Lost, ~ ScenarioOn, at # Closing,
           cycle[s].got = "ok",
           UNCHANGED <<kind, backend, ring, out, stale, alarm, clientVars, history, pageVars>>
    PROVE  SoundInv'
<1>1. BaseInv /\ OwnInv /\ SoundInv BY DEF WholeInv, OwnInv
<1>2. SessionTypes /\ ClientTypes /\ NotPiped BY <1>1, BaseIs
<1>3. /\ ~ mixed /\ ~ foreign
      /\ \A r \in Sessions : Sound(r) /\ Trans(r) /\ inside[r] = NoOne
  BY <1>1, OutsideIs DEF SoundInv
<1>4. cycle'[s] = NoCycle /\ \A r \in Sessions \ {s} : cycle'[r] = cycle[r] BY <1>2, HearsAtIs
<1>5. Empty(s) BY <1>3 DEF Sound, Answers
<1>6. Empty(s)' /\ Idle(s)' BY <1>4, <1>5, NoCycleIs DEF Empty, Idle
<1>7. Sound(s)' BY <1>6 DEF Sound, Waiting
<1>8. \A r \in Sessions : Sound(r)' BY <1>3, <1>4, <1>7, SameSound
<1>9. \A r \in Sessions : Trans(r)' BY <1>3 DEF Trans, history
<1> QED BY <1>3, <1>8, <1>9 DEF SoundInv, history

LEMMA OpensSound ==
    ASSUME WholeInv, ~ fatal, Opens
    PROVE  SoundInv'
<1>1. BaseInv /\ OwnInv /\ SoundInv BY DEF WholeInv, OwnInv
<1>2. RunInv /\ TypeInv BY <1>1, BaseIs
<1>3. ~ Lost /\ \A s \in Sessions : Idle(s) BY <1>1, OpensKeepsHand
<1>4. at # Closing BY <1>1, OpensKeepsHand
<1>5. ~ mixed /\ ~ foreign /\ \A s \in Sessions : Sound(s) /\ Trans(s) BY <1>1, <1>3, <1>4 DEF SoundInv
<1>6. /\ backend' = backend \/ Ready
      /\ UNCHANGED <<kind, ring, out, stale, cycle, clientVars, history>>
  BY <1>2, OpensTypes
<1>7. ASSUME NEW s \in Sessions PROVE Sound(s)' /\ Trans(s)'
  <2>1. Idle(s) /\ Empty(s) BY <1>3, <1>5 DEF Sound
  <2>2. backend'[s] # "busy" BY <1>6, <2>1 DEF Ready, Empty
  <2>3. Sound(s)' BY <1>6, <2>1, <2>2 DEF Sound, Empty, Idle, Waiting
  <2>4. UNCHANGED <<plan, client, queue, inside>> BY <1>6 DEF clientVars, history
  <2>5. \A c \in Clients : Begun(s, c)' = Begun(s, c) /\ Unended(s, c)' = Unended(s, c)
    BY <1>6, <2>4 DEF Begun, Unended
  <2>6. Trans(s)' BY <1>5, <1>6, <2>4, <2>5, SameInside
  <2> QED BY <2>3, <2>6
<1> QED BY <1>5, <1>6, <1>7 DEF SoundInv, history

LEMMA ScenarioSound ==
    ASSUME WholeInv, ~ fatal, RunsScenario, UNCHANGED <<kind, plan, at>>
    PROVE  SoundInv'
<1>1. BaseInv /\ OwnInv /\ SoundInv BY DEF WholeInv, OwnInv
<1>2. RunInv /\ TypeInv BY <1>1, BaseIs
<1>3. /\ at # Closing
      /\ ~ Prepared => ~ Lost /\ ~ ScenarioOn
      /\ ~ Prepared /\ HearsAt(turn) /\ cycle[turn].got # "ok" => Lost'
      /\ Thrown => Lost' \/ Thrown'
  BY <1>1, ScenarioKeepsHand
<1>4. CASE ~ Prepared /\ turn \in Sessions /\ AsksAt(turn) BY <1>3, <1>4, WorkerAsksSound
<1>5. CASE /\ ~ Prepared /\ turn \in Sessions /\ HearsAt(turn)
           /\ UNCHANGED <<worker, fatal, kind, backend, ring, out, stale, alarm, clientVars, history, pageVars>>
  <2>1. CASE cycle[turn].got = "ok" BY <1>3, <1>5, <2>1, WorkerHearsSound
  <2>2. CASE cycle[turn].got # "ok" BY <1>3, <1>5, <2>2 DEF SoundInv
  <2> QED BY <2>1, <2>2
<1>6. CASE /\ \A c \in Clients : client[c].at = "off"
           /\ client' = [c \in Clients |-> [Off EXCEPT !.at = "next"]]
           /\ UNCHANGED <<plan, queue, raised, kind, sessionVars, history, pageVars, callVars, engineVars>>
  <2>1. UNCHANGED <<column, at, failed, call, fatal, stage, backend, ring, out, stale, cycle>>
    BY <1>6 DEF sessionVars, pageVars, callVars, engineVars
  <2>2. ~ Thrown BY <1>6 DEF Thrown
  <2>3. Lost => Lost' BY <2>1, <2>2 DEF Lost
  <2> SUFFICES ASSUME ~ Lost PROVE SoundInv' BY <2>3 DEF SoundInv
  <2>4. ~ mixed /\ ~ foreign /\ \A s \in Sessions : Trans(s) /\ Sound(s) BY <1>1, <1>3 DEF SoundInv
  <2>5. \A s \in Sessions : inside[s] = NoOne BY <1>6, <2>4 DEF Trans, InUnit
  <2>6. \A s \in Sessions : Sound(s)' BY <2>1, <2>4, SameSound
  <2>7. \A s \in Sessions : Trans(s)' BY <1>6, <2>5 DEF Trans, history
  <2> QED BY <1>6, <2>4, <2>6, <2>7 DEF SoundInv, history
<1>7. CASE AllDone /\ UNCHANGED <<worker, fatal, kind, sessionVars, clientVars, history, pageVars, engineVars>>
  <2>1. ~ Lost BY <1>1, <1>7, LostIsLost
  <2> QED BY <1>1, <1>3, <1>7, <2>1, StillSound DEF sessionVars, clientVars
<1>8. CASE Thrown /\ Abandon
  <2>1. \A c \in Clients : client'[c].at = "off" BY <1>8, NoCycleIs DEF Abandon
  <2>2. ~ Thrown' BY <2>1 DEF Thrown
  <2>3. Lost' BY <1>3, <1>8, <2>2
  <2> QED BY <2>3 DEF SoundInv
<1> QED BY <1>2, <1>4, <1>5, <1>6, <1>7, <1>8, ScenarioIs

LEMMA RestSound ==
    ASSUME WholeInv, ~ fatal, Stats \/ SendsEnd \/ Leaves \/ Removes, UNCHANGED <<kind, plan, at>>
    PROVE  SoundInv'
<1>1. BaseInv /\ OwnInv /\ SoundInv BY DEF WholeInv, OwnInv
<1>2. RunInv /\ TypeInv BY <1>1, BaseIs
<1>3. /\ Lost => Lost'
      /\ cycle' = cycle /\ client' = client /\ queue' = queue /\ UNCHANGED history
      /\ ~ Lost' => Stats \/ at = Closing
  BY <1>1, RestKeepsHand
<1>4. Closing' = Closing BY SameScript
<1>5. CASE Stats
  <2>1. UNCHANGED <<ring, out, stale, backend>> BY <1>5 DEF Stats, sessionVars
  <2> QED BY <1>1, <1>3, <1>4, <2>1, StillSound
<1>6. CASE ~ Stats
  <2> SUFFICES ASSUME ~ Lost, at = Closing PROVE SoundInv' BY <1>3, <1>6 DEF SoundInv
  <2>1. out' = out BY <1>2, <1>6, EndIs DEF Leaves, Removes, sessionVars
  <2>2. ~ mixed /\ ~ foreign /\ \A s \in Sessions : Trans(s) BY <1>1 DEF SoundInv
  <2>3. UNCHANGED <<inside, mixed, foreign>> BY <1>3 DEF history
  <2>4. \A c \in Clients : Holds(c) => Holds(c)' BY <1>3 DEF Holds, Single
  <2>5. \A s \in Sessions : Trans(s)'
    <3>1. \A s \in Sessions : inside[s] # NoOne => Holds(inside[s])' BY <2>2, <2>3, <2>4 DEF Trans
    <3> QED BY <1>3, <2>1, <2>2, <2>3, <3>1, SamePlace
  <2> QED BY <1>4, <2>2, <2>3, <2>5 DEF SoundInv
<1> QED BY <1>5, <1>6

LEMMA WorkerKeepsSound ==
    ASSUME WholeInv, OfWorker
    PROVE  SoundInv'
<1>1. BaseInv /\ OwnInv /\ SoundInv BY DEF WholeInv, OwnInv
<1>2. RunInv /\ TypeInv BY <1>1, BaseIs
<1>3. ~ fatal /\ WorkerStep /\ UNCHANGED <<kind, plan, at>>
  <2>1. ~ fatal /\ WorkerStep BY DEF OfWorker
  <2>2. UNCHANGED <<kind, plan, pageVars>> BY <2>1, WorkerStays
  <2> QED BY <2>1, <2>2 DEF pageVars
<1>4. CASE Serve
  <2>1. Lost => Lost' BY <1>1, <1>3, <1>4, ServeKeepsHand
  <2>2. UNCHANGED <<client, queue, ring, out, stale, cycle, backend, history>>
    BY <1>4 DEF Serve, sessionVars, clientVars
  <2>3. Closing' = Closing BY <1>3, SameScript
  <2> QED BY <1>1, <1>3, <2>1, <2>2, <2>3, StillSound
<1>5. CASE Opens BY <1>3, <1>5, OpensSound
<1>6. CASE Handshake
  <2>1. ~ Lost /\ ~ ScenarioOn /\ at # Closing /\ (stage' = "ending" => Lost') BY <1>1, <1>3, <1>6, HandshakeKeepsHand
  <2>2. turn \in Sessions BY <1>2, <1>3, <1>6, HandshakeIs
  <2>3. CASE AsksAt(turn) BY <1>3, <2>1, <2>2, <2>3, WorkerAsksSound
  <2>4. CASE stage' = "ending" BY <2>1, <2>4 DEF SoundInv
  <2>5. CASE /\ HearsAt(turn) /\ cycle[turn].got = "ok"
             /\ UNCHANGED <<worker, fatal, kind, backend, ring, out, stale, alarm, clientVars, history, pageVars>>
    BY <2>1, <2>2, <2>5, WorkerHearsSound
  <2> QED BY <1>2, <1>3, <1>6, <2>3, <2>4, <2>5, HandshakeIs
<1>7. CASE RunsStatement
  <2>1. /\ ~ Lost /\ ~ ScenarioOn /\ at # Closing /\ 0 \in Sessions
        /\ HearsAt(0) /\ cycle[0].got # "ok" => Lost'
    BY <1>1, <1>3, <1>7, StatementKeepsHand, Numbers
  <2>2. CASE AsksAt(0) BY <1>3, <2>1, <2>2, WorkerAsksSound
  <2>3. CASE /\ HearsAt(0)
             /\ UNCHANGED <<worker, fatal, kind, backend, ring, out, stale, alarm, clientVars, history, pageVars>>
    <3>1. CASE cycle[0].got = "ok" BY <2>1, <2>3, <3>1, WorkerHearsSound
    <3>2. CASE cycle[0].got # "ok" BY <2>1, <2>3, <3>2 DEF SoundInv
    <3> QED BY <3>1, <3>2
  <2> QED BY <1>7, <2>2, <2>3, StatementIs
<1>8. CASE RunsScenario BY <1>3, <1>8, ScenarioSound
<1>9. CASE Stats \/ SendsEnd \/ Leaves \/ Removes BY <1>3, <1>9, RestSound
<1> QED BY <1>3, <1>4, <1>5, <1>6, <1>7, <1>8, <1>9 DEF WorkerStep

LEMMA PageKeepsSound ==
    ASSUME WholeInv, PageStep
    PROVE  SoundInv'
<1>1. BaseInv /\ OwnInv /\ SoundInv BY DEF WholeInv, OwnInv
<1>2. CASE AllFresh' BY <1>2, FreshSound
<1>3. CASE UNCHANGED <<kind, plan, sessionVars, clientVars, history>> /\ (Lost => Lost') /\ ~ AllFresh'
  <2>1. UNCHANGED <<client, queue, ring, out, stale, cycle, backend>> BY <1>3 DEF sessionVars, clientVars
  <2>2. Closing' = Closing BY <1>3, SameScript
  <2>3. at = Closing => at' = at
    <3>1. Closing # 0 BY <1>1, RowsAre
    <3>2. ~ Terminates BY <1>3, FreshIs DEF Terminates
    <3> QED BY <3>1, <3>2 DEF PageStep, Skip, StartRun, Evaluates, HearsReady, ReadyTimeout, Posts, Hears, pageVars
  <2> QED BY <1>1, <1>3, <2>1, <2>2, <2>3, StillSound
<1> QED BY <1>1, <1>2, <1>3, PageKeepsHand

LEMMA WholeKept == WholeInv /\ Next => SoundInv'
<1> SUFFICES ASSUME WholeInv, Next PROVE SoundInv' OBVIOUS
<1>1. CASE PageStep BY <1>1, PageKeepsSound
<1>2. CASE OfWorker BY <1>2, WorkerKeepsSound
<1>3. CASE WorkerErrors BY <1>3, ErrorIs, FreshSound DEF WholeInv, OwnInv
<1>4. CASE OfGuest \/ Faults \/ \E s \in Sessions : OfSession(s) BY <1>4, OthersKeepSound
<1>5. CASE \E c \in Clients : OfClient(c) BY <1>5, ClientKeepsSound
<1> QED BY <1>1, <1>2, <1>3, <1>4, <1>5 DEF Next, Progress

\* The inductive invariant of what a Run reports.
THEOREM WholeHolds == Spec => []WholeInv
<1>1. Init => SoundInv
  <2> SUFFICES ASSUME Init PROVE SoundInv OBVIOUS
  <2>1. /\ ~ mixed /\ ~ foreign
        /\ \A s \in Sessions : /\ backend[s] = "none" /\ ring[s] = << >> /\ out[s] = "none" /\ ~ stale[s]
                               /\ cycle[s] = NoCycle /\ inside[s] = NoOne
    BY DEF Init
  <2>2. \A s \in Sessions : Empty(s) /\ Idle(s) BY <2>1, NoCycleIs DEF Empty, Idle
  <2>3. \A s \in Sessions : Sound(s) BY <2>2 DEF Sound, Waiting
  <2>4. \A s \in Sessions : Trans(s) BY <2>1 DEF Trans
  <2> QED BY <2>1, <2>3, <2>4 DEF SoundInv
<1>2. OwnInv /\ SoundInv /\ [Next]_vars => SoundInv'
  <2>1. CASE UNCHANGED vars
    <3> SUFFICES ASSUME SoundInv PROVE SoundInv' OBVIOUS
    <3>1. /\ UNCHANGED <<kind, plan, client, queue, ring, out, stale, cycle, backend, history>>
          /\ UNCHANGED <<column, at, failed, call, fatal, stage>>
      BY <2>1 DEF vars, sessionVars, clientVars, pageVars, callVars, engineVars
    <3>2. Lost' = Lost /\ Closing' = Closing BY <3>1, SameScript DEF Lost, Thrown
    <3> QED BY <3>1, <3>2, StillSound
  <2> QED BY <2>1, WholeKept DEF WholeInv
<1> QED BY <1>1, <1>2, OwnersHold, PTL DEF Spec, WholeInv

\* A reported scenario and a filled cell are the scenario's own
\* (single-session.ts transaction; pgrust-threads.worker.ts feed).
THEOREM ReportsAreTheirOwn == Spec => []ReportsAreOwn
<1>1. WholeInv => ReportsAreOwn
  <2> SUFFICES ASSUME WholeInv, foreign \/ mixed PROVE ~ AllDone /\ column \notin cells BY DEF ReportsAreOwn
  <2>1. OwnInv /\ Lost BY DEF WholeInv, SoundInv
  <2> QED BY <2>1, LostIsLost
<1> QED BY <1>1, WholeHolds, PTL
=============================================================================
