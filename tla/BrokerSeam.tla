----------------------------- MODULE BrokerSeam ------------------------------
(***************************************************************************)
(* src/vendor/pgrust/broker-fs.js and broker-spin.js: a guest thread's     *)
(* file writes as requests to the one coordinator, with the gathering of a *)
(* vectored write and the bounded spin of both sides. The channel, the     *)
(* doorbell and the coordinator's serve loop are the store package's.      *)
(*                                                                         *)
(* A word is known by what was last read of it: fresh while nobody has     *)
(* moved it since, so that Atomics.wait on that value would park.          *)
(***************************************************************************)
EXTENDS Integers

CONSTANTS Guests,     \* the threads with a channel
          Blocks,     \* iovecs of a vectored write
          MaxWrites   \* bound: vectored writes of a guest

ASSUME SeamAssumption ==
    /\ Blocks \in Nat \ {0} /\ MaxWrites \in Nat
    /\ Guests \cap {"observe", "scan", "spin", "park", "parked"} = {}

VARIABLES pc,         \* where each guest thread is
          options,    \* gather, spin
          begun,      \* vectored writes each has begun
          chan,       \* the channel's state word: idle, request, response
          ask,        \* blocks of the request
          ans,        \* the answer: errno is 0, and the blocks counted
          summed,     \* blocks the adapter's loop has counted so far
          stored,     \* blocks of the call that the store has
          told,       \* what the guest's pwrite returned
          coord,      \* the coordinator: observe scan spin park parked, or the guest it serves
          doorbell,   \* ticket fresh, and a notify of it yet to come
          idle,       \* its last park timed out
          wasted      \* spins that ran out since a guest last rang

channels == <<begun, chan, ask, ans, summed, stored, told>>
serving == <<coord, doorbell, idle, wasted>>
seamVars == <<pc, options, channels, serving>>

Answers == [ok : BOOLEAN, count : 0 .. Blocks]
Nothing == [ok |-> FALSE, count |-> 0]

SeamInit == /\ options \in [gather : BOOLEAN, spin : BOOLEAN]
            /\ pc = [i \in Guests |-> "ready"]
            /\ begun = [i \in Guests |-> 0]
            /\ chan = [i \in Guests |-> "idle"]
            /\ ask = [i \in Guests |-> 0]
            /\ ans = [i \in Guests |-> Nothing]
            /\ summed = [i \in Guests |-> 0]
            /\ stored = [i \in Guests |-> 0]
            /\ told = [i \in Guests |-> Nothing]
            /\ coord = "observe"
            /\ doorbell = [fresh |-> FALSE, owed |-> {}]
            /\ idle = FALSE
            /\ wasted = 0

GoTo(i, where) == pc' = [pc EXCEPT ![i] = where]

-----------------------------------------------------------------------------
(* The guest's half *)

BeginWrite(i) == /\ pc[i] \in {"ready", "told"} /\ begun[i] < MaxWrites
                 /\ begun' = [begun EXCEPT ![i] = @ + 1]
                 /\ stored' = [stored EXCEPT ![i] = 0]
                 /\ GoTo(i, "publish")
                 /\ UNCHANGED <<options, chan, ask, ans, summed, told, serving>>

(* fd_pwrite: one write of the run when it is gathered, one for each iovec.   *)
Publish(i) ==
    /\ pc[i] = "publish"
    /\ ask' = [ask EXCEPT ![i] = IF options.gather THEN Blocks ELSE 1]
    /\ chan' = [chan EXCEPT ![i] = "request"]
    /\ GoTo(i, "ring")
    /\ UNCHANGED <<options, begun, ans, summed, stored, told, serving>>

Ring(i) ==
    /\ pc[i] = "ring"
    /\ doorbell' = [fresh |-> FALSE, owed |-> doorbell.owed \cup {i}]
    /\ wasted' = 0
    /\ GoTo(i, "notify")
    /\ UNCHANGED <<options, channels, coord, idle>>

(* The coordinator wakes, if it is parked; the guest's own spin begins.       *)
Notify(i) ==
    /\ pc[i] = "notify"
    /\ doorbell' = [doorbell EXCEPT !.owed = @ \ {i}]
    /\ coord' = IF coord = "parked" THEN "observe" ELSE coord
    /\ idle' = IF coord = "parked" THEN FALSE ELSE idle
    /\ wasted' = 0
    /\ GoTo(i, IF options.spin THEN "spin" ELSE "await")
    /\ UNCHANGED <<options, channels>>

(* The reply landed, or the time ran out: the wait is the same either way.    *)
SpinEnds(i) ==
    /\ pc[i] = "spin"
    /\ GoTo(i, "await")
    /\ UNCHANGED <<options, channels, serving>>

Await(i) ==
    /\ pc[i] = "await" /\ chan[i] = "request"
    /\ GoTo(i, "waiting")
    /\ UNCHANGED <<options, channels, serving>>

(* What the guest's pwrite comes to, of the answer to its one gathered write, *)
(* or of an iovec's when it is the last to be written.                        *)
GatheredAsAsked(a, n) == [ok |-> a.ok \/ a.count > 0, count |-> n]
Gathered(a, n) == [ok |-> a.ok \/ a.count > 0, count |-> a.count]

OneByOne(a, before) == [ok |-> a.ok \/ before + a.count > 0, count |-> before + a.count]

Whole(i) == ans[i].ok /\ ans[i].count = ask[i]

Tell(i, result) ==
    /\ told' = [told EXCEPT ![i] = result]
    /\ summed' = [summed EXCEPT ![i] = 0]
    /\ GoTo(i, "told")

NextIovec(i) ==
    /\ summed' = [summed EXCEPT ![i] = @ + 1]
    /\ GoTo(i, "publish")
    /\ UNCHANGED told

Answered(i) ==
    /\ pc[i] = "await" /\ chan[i] = "response"
    /\ chan' = [chan EXCEPT ![i] = "idle"]
    /\ ask' = [ask EXCEPT ![i] = 0]
    /\ ans' = [ans EXCEPT ![i] = Nothing]
    /\ IF options.gather
       THEN Tell(i, Gathered(ans[i], ask[i]))
       ELSE IF Whole(i) /\ summed[i] + 1 < Blocks
            THEN NextIovec(i)
            ELSE Tell(i, OneByOne(ans[i], summed[i]))
    /\ UNCHANGED <<options, begun, stored, serving>>

Guest(i) == Publish(i) \/ Ring(i) \/ Notify(i) \/ SpinEnds(i) \/ Await(i) \/ Answered(i)

-----------------------------------------------------------------------------
(* The coordinator's half *)

Serve(where) == coord' = where

Observe == /\ coord = "observe"
           /\ doorbell' = [doorbell EXCEPT !.fresh = TRUE]
           /\ Serve("scan")
           /\ UNCHANGED <<pc, options, channels, idle, wasted>>

(* A write of the store may be short, or refused.                             *)
Answer(i) ==
    /\ coord = "scan" /\ chan[i] = "request"
    /\ \E a \in Answers :
         /\ a.count <= ask[i] /\ (a.count = ask[i] => a.ok)
         /\ ans' = [ans EXCEPT ![i] = a]
         /\ stored' = [stored EXCEPT ![i] = @ + a.count]
    /\ chan' = [chan EXCEPT ![i] = "response"]
    /\ Serve(i)
    /\ UNCHANGED <<pc, options, begun, ask, summed, told, doorbell, idle, wasted>>

Wake(i) == IF pc[i] = "waiting" THEN GoTo(i, "await") ELSE UNCHANGED pc

Reply(i) == /\ coord = i
            /\ Wake(i)
            /\ Serve("observe")
            /\ UNCHANGED <<options, channels, doorbell, idle, wasted>>

(* installRequestSpin: no spin after a park that timed out.                   *)
SpinsAlways == options.spin
MaySpin == options.spin /\ ~ idle

NothingToServe ==
    /\ coord = "scan"
    /\ \A i \in Guests : chan[i] # "request"
    /\ Serve(IF MaySpin THEN "spin" ELSE "park")
    /\ UNCHANGED <<pc, options, channels, doorbell, idle, wasted>>

(* It ends early when the ticket moves, and answers `not-equal'.              *)
SpinCaught == /\ coord = "spin" /\ ~ doorbell.fresh
              /\ Serve("observe")
              /\ UNCHANGED <<pc, options, channels, doorbell, idle, wasted>>

SpinRanOut == /\ coord = "spin" /\ doorbell.fresh
              /\ Serve("park")
              /\ wasted' = wasted + 1
              /\ UNCHANGED <<pc, options, channels, doorbell, idle>>

Park == /\ coord = "park"
        /\ Serve(IF doorbell.fresh THEN "parked" ELSE "observe")
        /\ idle' = (idle /\ doorbell.fresh)
        /\ UNCHANGED <<pc, options, channels, doorbell, wasted>>

ParkTimedOut == /\ coord = "parked"
                /\ Serve("observe")
                /\ idle' = TRUE
                /\ UNCHANGED <<pc, options, channels, doorbell, wasted>>

Coordinator == \/ Observe
               \/ \E i \in Guests : Answer(i) \/ Reply(i)
               \/ NothingToServe \/ SpinCaught \/ SpinRanOut \/ Park

SeamNext == \/ \E i \in Guests : BeginWrite(i) \/ Guest(i)
            \/ Coordinator
            \/ ParkTimedOut

SeamFairness == /\ \A i \in Guests : WF_seamVars(Guest(i))
                /\ WF_seamVars(Coordinator)

SeamSpec == SeamInit /\ [][SeamNext]_seamVars /\ SeamFairness

-----------------------------------------------------------------------------
(* Nobody of this seam is parked while what it waits for is there, unless the *)
(* one who made it so has yet to ring or to notify (broker-spin.js: "no       *)
(* wakeup can be missed").                                                    *)
SeamAwake ==
    \A i \in Guests :
       /\ pc[i] = "waiting" /\ chan[i] # "request" => coord = i
       /\ coord = "parked" /\ chan[i] = "request" => pc[i] = "ring" \/ doorbell.owed # {}

(* An idle coordinator spins once, not once for every poll interval           *)
(* (broker-spin.js, BOUNDED PER WAIT).                                        *)
IdleParks == wasted <= 1

(* A pwrite that reports blocks written reports those the store has, whether  *)
(* it was gathered or not, short or refused half way (gatherPwrites).         *)
WritesAreTold == \A i \in Guests : pc[i] = "told" /\ told[i].ok => told[i].count = stored[i]

(* Every write returns, though nobody's wait ever times out.                  *)
NobodyWrites == \A i \in Guests : pc[i] \in {"ready", "told"}
WritesReturn == []<>NobodyWrites
=============================================================================
