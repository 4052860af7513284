----------------------------- MODULE QueryCycles -----------------------------
(***************************************************************************)
(* The sessions of one benchmark engine, and the clients of one scenario.  *)
(*                                                                         *)
(* A session is one place that runs a statement at a time. The postmaster  *)
(* has one for each client; every other engine has session 0, and its      *)
(* clients take it in turns through SessionQueue. On the threads build and *)
(* on the postmaster a cycle is a frame written without blocking into a    *)
(* ring, and a collector that the pump settles with the reply; the other   *)
(* engines run the statement inside the worker.                            *)
(***************************************************************************)
EXTENDS Integers, Sequences, FiniteSets

CONSTANTS NClients,   \* clients of a scenario
          Ring,       \* units of a frame that a session's ring holds
          MaxLoops    \* statements of an untilSignal loop before it is given up

ASSUME CyclesAssumption == NClients \in Nat \ {0} /\ Ring \in Nat \ {0} /\ MaxLoops \in Nat \ {0}

VARIABLES kind,      \* which engine the worker runs
          backend,   \* by session: who serves it
          ring,      \* by session: the frames' units that wait for the backend
          out,       \* by session: the reply that waits for the pump
          stale,     \* by session: a reply to come belongs to a cycle given up
          cycle,     \* by session: the statement in flight; late: asked of a dead backend
          alarm,     \* an exit or error message of the guest is on its way
          plan,      \* which scenario runs
          client,    \* by client: where in its steps it is
          queue,     \* clients in SessionQueue, the first inside
          raised,    \* the scenario's signal
          inside,    \* by session: whose transaction the backend is in
          mixed,     \* history: a statement ran in another's transaction
          foreign    \* history: a cycle was settled by another's reply

sessionVars == <<backend, ring, out, stale, cycle, alarm>>
clientVars == <<plan, client, queue, raised>>
history == <<inside, mixed, foreign>>

Clients == 0 .. NClients - 1
Sessions == Clients
Worker == NClients          \* a request that is one statement
NoOne == NClients + 1

Piped == kind \in {"threads", "postmaster"}
Single == kind # "postmaster"
SessionOf(c) == IF Single THEN 0 ELSE c
Used == {SessionOf(c) : c \in Clients}

(* What a statement's reply means to an engine's executor: "code" is a       *)
(* SQLSTATE (for SQLite one of its two lock codes), "bare" any other error.  *)
PgliteRefuses == {"code"}
WasqliteRefuses == {"code"}
WireRefuses == {"code"}
PostmasterRefuses == {"code", "bare"}
Refuses == CASE kind = "pglite" -> PgliteRefuses
             [] kind = "wasqlite" -> WasqliteRefuses
             [] kind \in {"wire", "threads"} -> WireRefuses
             [] kind = "postmaster" -> PostmasterRefuses

Verdict(got) == CASE got = "ok" -> "ran"
                  [] got \in Refuses -> "refused"
                  [] OTHER -> "thrown"

(* The steps of a client in the Suite's scenarios.                           *)
Besides(c) == IF c = 0 THEN <<"transaction", "signal">> ELSE <<"until">>
FanOut(c) == <<"statement", "statement">>
Contends(c) == <<"transaction">>
Program(c) == CASE plan = "beside" -> Besides(c)
                [] plan = "fan-out" -> FanOut(c)
                [] plan = "contend" -> Contends(c)
                [] OTHER -> << >>
Tolerates == plan = "contend"

-----------------------------------------------------------------------------
(* One cycle *)

NoCycle == [by |-> NoOne, unsent |-> 0, got |-> "none", late |-> FALSE]
Idle(s) == cycle[s].by = NoOne
Waiting(s) == ~ Idle(s) /\ cycle[s].got = "none"
Settled(s) == ~ Idle(s) /\ cycle[s].got # "none" /\ cycle[s].unsent = 0

(* collect(), and the first write of send(). The frame of a script may exceed *)
(* the ring, that of a BEGIN does not.                                       *)
Long(who) == who = Worker \/ client[who].at = "body"
Ask(s, who) ==
    /\ Idle(s)
    /\ \E n \in IF ~ Piped THEN {0} ELSE IF Long(who) THEN 1 .. Ring + 1 ELSE {1} :
          cycle' = [cycle EXCEPT ![s] = [by |-> who, unsent |-> n, got |-> "none",
                                         late |-> backend[s] \notin {"idle", "busy"}]]
    /\ mixed' = (mixed \/ inside[s] \notin {NoOne, who})

(* send() writes what fits and comes back after a turn of the event loop.    *)
Send(s) ==
    /\ cycle[s].unsent > 0 /\ Len(ring[s]) < Ring
    /\ ring' = [ring EXCEPT ![s] = Append(@, IF cycle[s].unsent = 1 THEN "query" ELSE "part")]
    /\ cycle' = [cycle EXCEPT ![s].unsent = @ - 1]
    /\ UNCHANGED <<backend, out, stale, alarm>>

(* The collector of a cycle that can no longer complete fails; a live        *)
(* backend that has its frame will answer all the same.                      *)
GivenUpAsDone == "ok"
NeverGivenUp == "none"
GivenUp == "failed"
FailCycles(S) ==
    /\ cycle' = [s \in Sessions |-> IF s \in S /\ Waiting(s) THEN [cycle[s] EXCEPT !.got = GivenUp] ELSE cycle[s]]
    /\ stale' = [s \in Sessions |-> stale[s] \/ (s \in S /\ Waiting(s) /\ backend[s] \in {"idle", "busy"})]

(* feed(): a reply goes to whatever collector there is, or to none.          *)
Feed(s) ==
    /\ out[s] # "none"
    /\ out' = [out EXCEPT ![s] = "none"]
    /\ cycle' = IF Waiting(s) THEN [cycle EXCEPT ![s].got = out[s]] ELSE cycle
    /\ foreign' = (foreign \/ (stale[s] /\ Waiting(s)))
    /\ stale' = [stale EXCEPT ![s] = FALSE]
    /\ UNCHANGED <<backend, ring, alarm, inside, mixed>>

(* The pump reads end of file after the last bytes, and fails what waits.    *)
PumpEnds(s) ==
    /\ backend[s] = "gone" /\ out[s] = "none"
    /\ backend' = [backend EXCEPT ![s] = "closed"]
    /\ FailCycles({s})
    /\ UNCHANGED <<ring, out, alarm>>

(* A worker's exit or error message, or a refused spawn: threads fails its   *)
(* collector, the postmaster every session's.                                *)
HandleEvent ==
    /\ alarm
    /\ alarm' = FALSE
    /\ FailCycles(Used)
    /\ UNCHANGED <<backend, ring, out>>

-----------------------------------------------------------------------------
(* The guest: Postgres, by what the rings and messages show of it *)

(* tx is what the statement does to the transaction. A ROLLBACK is never      *)
(* refused, and a refused COMMIT ends the transaction all the same.          *)
Replies(s, tx) ==
    \E r \in IF tx = "rollback" THEN {"ok"} ELSE {"ok", "code", "bare"} :
       /\ inside' = [inside EXCEPT ![s] = IF tx = "begin" /\ r = "ok" THEN cycle[s].by
                                           ELSE IF tx \in {"commit", "rollback"} THEN NoOne ELSE @]
       /\ IF Piped
          THEN /\ backend' = [backend EXCEPT ![s] = "idle"]
               /\ out' = [out EXCEPT ![s] = r]
               /\ UNCHANGED cycle
          ELSE /\ cycle' = [cycle EXCEPT ![s].got = r]
               /\ UNCHANGED <<backend, out>>
       /\ UNCHANGED <<ring, stale, alarm, mixed, foreign>>

(* A Terminate inside a frame half sent may be read as part of the frame.     *)
GuestTakes(s) ==
    /\ backend[s] = "idle" /\ ring[s] # << >> /\ out[s] = "none"
    /\ ring' = [ring EXCEPT ![s] = Tail(@)]
    /\ \E b \in CASE Head(ring[s]) = "query" -> {"busy"}
                 [] Head(ring[s]) = "end" -> IF cycle[s].unsent > 0 THEN {"gone", "idle"} ELSE {"gone"}
                 [] OTHER -> {"idle"} :
          backend' = [backend EXCEPT ![s] = b]
    /\ UNCHANGED <<out, stale, cycle, alarm, history>>

(* A backend leaves by itself and closes its ring, or traps and does not; a   *)
(* spawn is refused with everybody alive.                                    *)
GuestLeaves(s) ==
    /\ Piped /\ backend[s] \in {"idle", "busy"}
    /\ \A r \in Used : backend[r] \notin {"gone", "stuck"}          \* bound: one fault at a time
    /\ \E how \in {"gone", "stuck"} :
          /\ backend' = [backend EXCEPT ![s] = how]
          /\ alarm' = (alarm \/ how = "stuck" \/ Single)
    /\ UNCHANGED <<ring, out, stale, cycle, history>>
SpawnRefused ==
    /\ kind = "threads" /\ ~ alarm /\ \E s \in Used : backend[s] = "busy" /\ Waiting(s)
    /\ \A s \in Used : backend[s] \in {"idle", "busy"} /\ ~ stale[s]      \* bound: one fault at a time
    /\ alarm' = TRUE
    /\ UNCHANGED <<backend, ring, out, stale, cycle, history>>

-----------------------------------------------------------------------------
(* runScenario *)

Off == [at |-> "off", step |-> 1, loops |-> 0, code |-> "none"]
HoldsAtOnce(c) == ~ Single \/ \E i \in DOMAIN queue : queue[i] = c
Holds(c) == ~ Single \/ (queue # << >> /\ Head(queue) = c)
Moved(c, at) == client' = [client EXCEPT ![c].at = at]
GiveBack == queue' = IF Single /\ queue # << >> THEN Tail(queue) ELSE queue

(* runStep: a signal is raised; anything else takes the session.             *)
Enter(c) ==
    /\ client[c].at = "next" /\ client[c].step <= Len(Program(c))
    /\ LET step == Program(c)[client[c].step] IN
       IF step = "signal"
       THEN /\ raised' = TRUE
            /\ client' = [client EXCEPT ![c].step = @ + 1]
            /\ UNCHANGED queue
       ELSE /\ Moved(c, IF step = "transaction" THEN "begin" ELSE "body")
            /\ queue' = IF Single THEN Append(queue, c) ELSE queue
            /\ UNCHANGED raised
    /\ UNCHANGED <<plan, sessionVars, history>>

ClientEnds(c) ==
    /\ client[c].at = "next" /\ client[c].step > Len(Program(c))
    /\ Moved(c, "done")
    /\ UNCHANGED <<plan, queue, raised, sessionVars, history>>

InUnit == {"begin", "body", "commit", "rollback"}
ClientAsks(c) ==
    /\ client[c].at \in InUnit /\ Holds(c) /\ cycle[SessionOf(c)].by # c
    /\ Ask(SessionOf(c), c)
    /\ UNCHANGED <<backend, ring, out, stale, alarm, inside, foreign, clientVars>>

(* record(): a refused unit counts where the scenario tolerates it, and       *)
(* throws where it does not.                                                 *)
UnitEnds(c, code) ==
    LET this == client[c]
        looping == Program(c)[this.step] = "until" /\ ~ raised
        broken == \/ code # "none" /\ ~ (Tolerates /\ code = "code")
                  \/ looping /\ this.loops + 1 >= MaxLoops
    IN  client' = [client EXCEPT ![c] =
          [at |-> IF broken THEN "thrown" ELSE "next",
           step |-> IF looping THEN this.step ELSE this.step + 1,
           loops |-> IF looping THEN this.loops + 1 ELSE 0,
           code |-> "none"]]

Throws(c) == Moved(c, "thrown") /\ GiveBack

(* transaction(): BEGIN, the statements, COMMIT; a refused statement is       *)
(* rolled back, and on PGlite any error is. A call that throws is not.       *)
InTransaction(c) == Program(c)[client[c].step] = "transaction"
ClientHears(c) ==
    LET s == SessionOf(c)
        got == cycle[s].got
        said == Verdict(got)
        at == client[c].at
    IN  /\ cycle[s].by = c /\ Settled(s) /\ at \in InUnit
        /\ cycle' = [cycle EXCEPT ![s] = NoCycle]
        /\ \/ /\ said = "ran" /\ at = "begin"
              /\ Moved(c, "body") /\ UNCHANGED queue
           \/ /\ said = "ran" /\ at = "body" /\ InTransaction(c)
              /\ Moved(c, "commit") /\ UNCHANGED queue
           \/ /\ said = "ran" /\ (at = "commit" \/ (at = "body" /\ ~ InTransaction(c)))
              /\ UnitEnds(c, "none") /\ GiveBack
           \/ /\ at = "rollback" /\ said # "thrown" /\ (Single \/ said = "ran")
              /\ UnitEnds(c, client[c].code) /\ GiveBack
           \/ /\ at = "rollback" /\ ~ (said # "thrown" /\ (Single \/ said = "ran"))
              /\ Throws(c)
           \/ /\ at = "body" /\ InTransaction(c)
              /\ said = "refused" \/ (kind = "pglite" /\ said = "thrown")
              /\ client' = [client EXCEPT ![c].at = "rollback", ![c].code = got]
              /\ UNCHANGED queue
           \/ /\ said = "refused" /\ (at = "commit" \/ (at = "begin" /\ Single)
                                                    \/ (at = "body" /\ ~ InTransaction(c)))
              /\ UnitEnds(c, got) /\ GiveBack
           \/ /\ said = "refused" /\ at = "begin" /\ ~ Single
              /\ Throws(c)
           \/ /\ said = "thrown" /\ at # "rollback"
              /\ ~ (at = "body" /\ InTransaction(c) /\ kind = "pglite")
              /\ Throws(c)
        /\ UNCHANGED <<backend, ring, out, stale, alarm, plan, raised, history>>

Thrown == \E c \in Clients : client[c].at = "thrown"
AllDone == \A c \in Clients : client[c].at = "done"

(* Postgres runs what it was asked.                                          *)
GuestReplies(s) ==
    /\ backend[s] = IF Piped THEN "busy" ELSE "idle"
    /\ ~ Piped => Waiting(s)
    /\ Replies(s, IF cycle[s].by \in Clients THEN client[cycle[s].by].at ELSE "none")
    /\ UNCHANGED clientVars

SessionStep(s) ==
    \/ GuestTakes(s) /\ UNCHANGED clientVars
    \/ GuestReplies(s)
    \/ Send(s) /\ UNCHANGED <<clientVars, history>>
    \/ Feed(s) /\ UNCHANGED clientVars
    \/ PumpEnds(s) /\ UNCHANGED <<clientVars, history>>

ClientStep(c) == Enter(c) \/ ClientEnds(c) \/ ClientAsks(c) \/ ClientHears(c)
=============================================================================
