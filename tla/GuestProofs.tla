----------------------------- MODULE GuestProofs -----------------------------
(***************************************************************************)
(* Proofs about what a guest thread blocks on, for any sessions, rings,    *)
(* replies, threads and vectored writes: about BrokerSeam, about GuestHost *)
(* and about the two together (MCGuest). Nobody sleeps through what it     *)
(* waits for, on a ring, on a gate or on a channel; an idle coordinator    *)
(* spins once; a pwrite reports what the store has.                        *)
(*                                                                         *)
(* NoSleepThrough speaks of who is parked. What keeps it is what holds     *)
(* before: between the read of a word and the park on it, whatever the     *)
(* waiter did not see has its bump still to come, or the word has moved.   *)
(***************************************************************************)
EXTENDS MCGuest, TLAPS

(* The channels: BrokerSeam. *)

InCall == {"ring", "notify", "spin", "await", "waiting"}

Types ==
    /\ options \in [gather : BOOLEAN, spin : BOOLEAN]
    /\ pc \in [Guests -> {"ready", "told", "publish"} \cup InCall]
    /\ chan \in [Guests -> {"idle", "request", "response"}]
    /\ begun \in [Guests -> Nat]
    /\ ask \in [Guests -> 0 .. Blocks]
    /\ ans \in [Guests -> Answers]
    /\ summed \in [Guests -> 0 .. Blocks]
    /\ stored \in [Guests -> Nat]
    /\ told \in [Guests -> [ok : BOOLEAN, count : Nat]]
    /\ coord \in Guests \cup {"observe", "scan", "spin", "park", "parked"}
    /\ doorbell \in [fresh : BOOLEAN, owed : SUBSET Guests]
    /\ idle \in BOOLEAN
    /\ wasted \in Nat

\* Where a call is says what its channel holds, and how much of the call the
\* store has.
CallShape(i) ==
    /\ pc[i] \in {"ready", "told"} => chan[i] = "idle" /\ summed[i] = 0
    /\ pc[i] = "publish" => chan[i] = "idle" /\ stored[i] = summed[i] /\ summed[i] < Blocks
    /\ pc[i] \in InCall =>
          /\ chan[i] # "idle"
          /\ ask[i] = IF options.gather THEN Blocks ELSE 1
          /\ summed[i] < Blocks
    /\ options.gather => summed[i] = 0
    /\ chan[i] = "request" => stored[i] = summed[i]
    /\ chan[i] = "response" => /\ stored[i] = summed[i] + ans[i].count
                               /\ ans[i].count <= ask[i]
                               /\ pc[i] \in InCall

CallsAreTrue == \A i \in Guests : CallShape(i)

\* Whoever still owes a notify is at it, and a coordinator that found nothing
\* and saw no ring has overlooked nobody but those who have yet to ring.
DoorbellIsTrue ==
    /\ \A i \in Guests : pc[i] = "notify" => i \in doorbell.owed
    /\ \A i \in Guests : (coord \in {"spin", "park", "parked"} /\ doorbell.fresh /\ chan[i] = "request")
                            => pc[i] = "ring"
    /\ coord = "parked" /\ ~ doorbell.fresh => doorbell.owed # {}
    /\ \A i \in Guests : pc[i] = "waiting" /\ chan[i] # "request" => coord = i

\* A spin was for nothing once, and then the coordinator parks until someone
\* notifies, or knows that it is idle.
SpinIsBounded ==
    /\ wasted <= 1
    /\ coord = "spin" => ~ idle
    /\ wasted = 1 => /\ idle \/ coord \in {"park", "parked"}
                     /\ coord \in {"scan", "spin", "park", "parked"} => doorbell.fresh

SeamInv == Types /\ CallsAreTrue /\ WritesAreTold /\ DoorbellIsTrue /\ SpinIsBounded

-----------------------------------------------------------------------------
LEMMA SeamConstants == /\ Blocks \in Nat \ {0}
                       /\ \A i \in Guests : i \notin {"observe", "scan", "spin", "park", "parked"}
BY SeamAssumption

LEMMA SeamInitially == SeamInit => SeamInv
<1> SUFFICES ASSUME SeamInit PROVE SeamInv
  OBVIOUS
<1>1. Types
  <2>1. /\ pc \in [Guests -> {"ready", "told", "publish"} \cup InCall]
        /\ chan \in [Guests -> {"idle", "request", "response"}]
        /\ options \in [gather : BOOLEAN, spin : BOOLEAN]
    BY DEF SeamInit
  <2>2. /\ begun \in [Guests -> Nat] /\ ask \in [Guests -> 0 .. Blocks]
        /\ summed \in [Guests -> 0 .. Blocks] /\ stored \in [Guests -> Nat]
    BY SeamConstants DEF SeamInit
  <2>3. Nothing \in Answers /\ Nothing \in [ok : BOOLEAN, count : Nat]
    BY SeamConstants DEF Answers, Nothing
  <2>4. ans \in [Guests -> Answers] /\ told \in [Guests -> [ok : BOOLEAN, count : Nat]]
    BY <2>3 DEF SeamInit
  <2> QED
    BY <2>1, <2>2, <2>4 DEF SeamInit, Types
<1>2. CallsAreTrue /\ WritesAreTold
  BY SeamConstants DEF SeamInit, CallsAreTrue, CallShape, WritesAreTold, InCall
<1>3. DoorbellIsTrue /\ SpinIsBounded
  BY DEF SeamInit, DoorbellIsTrue, SpinIsBounded
<1> QED
  BY <1>1, <1>2, <1>3 DEF SeamInv
-----------------------------------------------------------------------------
(* Every step is one of these.                                             *)

LEMMA SeamSteps ==
    ASSUME [SeamNext]_seamVars
    PROVE  \/ \E i \in Guests : \/ BeginWrite(i) \/ Publish(i) \/ Ring(i) \/ Notify(i) \/ SpinEnds(i)
                               \/ Await(i) \/ Answered(i) \/ Answer(i) \/ Reply(i)
           \/ Observe \/ NothingToServe \/ SpinCaught \/ SpinRanOut \/ Park \/ ParkTimedOut
           \/ UNCHANGED seamVars
BY DEF SeamNext, Guest, Coordinator

(* What a guest makes of an answer: it is told of as many blocks as the store *)
(* has of the call, or goes on to the next iovec.                             *)
IsTold(i) ==
    /\ pc' = [pc EXCEPT ![i] = "told"]
    /\ summed' = [summed EXCEPT ![i] = 0]
    /\ \E b \in BOOLEAN : told' = [told EXCEPT ![i] = [ok |-> b, count |-> stored[i]]]

GoesOn(i) ==
    /\ pc' = [pc EXCEPT ![i] = "publish"]
    /\ summed' = [summed EXCEPT ![i] = @ + 1]
    /\ ~ options.gather /\ summed[i] + 1 < Blocks /\ stored[i] = summed[i] + 1
    /\ told' = told

LEMMA AnswerIsTaken ==
    ASSUME SeamInv, NEW i \in Guests, Answered(i)
    PROVE  /\ pc[i] = "await" /\ chan' = [chan EXCEPT ![i] = "idle"]
           /\ ask' = [ask EXCEPT ![i] = 0] /\ ans' = [ans EXCEPT ![i] = Nothing]
           /\ UNCHANGED <<options, begun, stored, coord, doorbell, idle, wasted>>
           /\ IsTold(i) \/ GoesOn(i)
<1>1. /\ pc[i] = "await" /\ chan[i] = "response"
      /\ chan' = [chan EXCEPT ![i] = "idle"]
      /\ ask' = [ask EXCEPT ![i] = 0] /\ ans' = [ans EXCEPT ![i] = Nothing]
      /\ UNCHANGED <<options, begun, stored, coord, doorbell, idle, wasted>>
  BY DEF Answered, serving
<1>2. /\ stored[i] = summed[i] + ans[i].count
      /\ ask[i] = IF options.gather THEN Blocks ELSE 1
      /\ options.gather => summed[i] = 0
      /\ summed[i] \in Nat /\ ans[i].count \in Nat /\ ans[i].ok \in BOOLEAN
  BY <1>1, SeamConstants DEF SeamInv, CallsAreTrue, CallShape, InCall, Types, Answers
<1>3. CASE options.gather
  <2>1. Tell(i, [ok |-> ans[i].ok \/ ans[i].count > 0, count |-> stored[i]])
    BY <1>2, <1>3 DEF Answered, Gathered
  <2> QED
    BY <1>1, <1>2, <2>1 DEF Tell, GoTo, IsTold
<1>4. CASE ~ options.gather /\ Whole(i) /\ summed[i] + 1 < Blocks
  <2>1. NextIovec(i) /\ stored[i] = summed[i] + 1
    BY <1>2, <1>4 DEF Answered, Whole
  <2> QED
    BY <1>1, <1>4, <2>1 DEF NextIovec, GoTo, GoesOn
<1>5. CASE ~ options.gather /\ ~ (Whole(i) /\ summed[i] + 1 < Blocks)
  <2>1. Tell(i, [ok |-> ans[i].ok \/ stored[i] > 0, count |-> stored[i]])
    BY <1>2, <1>5 DEF Answered, OneByOne
  <2> QED
    BY <1>1, <1>2, <2>1 DEF Tell, GoTo, IsTold
<1> QED
  BY <1>3, <1>4, <1>5

LEMMA NothingIsAnAnswer == Nothing \in Answers
BY SeamConstants DEF Nothing, Answers

LEMMA TypesKept ==
    ASSUME SeamInv, [SeamNext]_seamVars
    PROVE  Types'
<1>1. ASSUME NEW i \in Guests, BeginWrite(i) PROVE Types'
  BY <1>1, SeamConstants DEF SeamInv, Types, InCall, Serve, MaySpin, Wake, Answers, BeginWrite, GoTo, channels, serving
<1>2. ASSUME NEW i \in Guests, Publish(i) PROVE Types'
  BY <1>2, SeamConstants DEF SeamInv, Types, InCall, Serve, MaySpin, Wake, Answers, Publish, GoTo, channels, serving
<1>3. ASSUME NEW i \in Guests, Ring(i) PROVE Types'
  BY <1>3, SeamConstants DEF SeamInv, Types, InCall, Serve, MaySpin, Wake, Answers, Ring, GoTo, channels, serving
<1>4. ASSUME NEW i \in Guests, Notify(i) PROVE Types'
  BY <1>4, SeamConstants DEF SeamInv, Types, InCall, Serve, MaySpin, Wake, Answers, Notify, GoTo, channels, serving
<1>5. ASSUME NEW i \in Guests, SpinEnds(i) PROVE Types'
  BY <1>5, SeamConstants DEF SeamInv, Types, InCall, Serve, MaySpin, Wake, Answers, SpinEnds, GoTo, channels, serving
<1>6. ASSUME NEW i \in Guests, Await(i) PROVE Types'
  BY <1>6, SeamConstants DEF SeamInv, Types, InCall, Serve, MaySpin, Wake, Answers, Await, GoTo, channels, serving
<1>7. ASSUME NEW i \in Guests, Answered(i) PROVE Types'
  <2>1. /\ pc[i] = "await" /\ chan' = [chan EXCEPT ![i] = "idle"]
        /\ ask' = [ask EXCEPT ![i] = 0] /\ ans' = [ans EXCEPT ![i] = Nothing]
        /\ UNCHANGED <<options, begun, stored, coord, doorbell, idle, wasted>>
        /\ IsTold(i) \/ GoesOn(i)
    BY <1>7, AnswerIsTaken
  <2>0. Types
    BY DEF SeamInv
  <2>2. /\ pc' \in [Guests -> {"ready", "told", "publish"} \cup InCall]
        /\ summed' \in [Guests -> 0 .. Blocks]
    <3>1. pc' \in [Guests -> {"ready", "told", "publish"} \cup InCall]
      BY <2>0, <2>1 DEF Types, IsTold, GoesOn
    <3>2. 0 \in 0 .. Blocks /\ (GoesOn(i) => summed[i] + 1 \in 0 .. Blocks)
      BY <2>0, SeamConstants DEF Types, GoesOn
    <3>3. CASE IsTold(i)
      BY <2>0, <3>2, <3>3 DEF Types, IsTold
    <3>4. CASE GoesOn(i)
      BY <2>0, <3>2, <3>4 DEF Types, GoesOn
    <3> QED
      BY <2>1, <3>1, <3>3, <3>4
  <2>3. told' \in [Guests -> [ok : BOOLEAN, count : Nat]]
    <3>1. CASE told' = told
      BY <3>1, <2>0 DEF Types
    <3>2. CASE \E b \in BOOLEAN : told' = [told EXCEPT ![i] = [ok |-> b, count |-> stored[i]]]
      BY <3>2, <2>0 DEF Types
    <3> QED
      BY <2>1, <3>1, <3>2 DEF IsTold, GoesOn
  <2>4. ans' \in [Guests -> Answers]
    BY <2>1, NothingIsAnAnswer DEF SeamInv, Types
  <2>5. /\ chan' \in [Guests -> {"idle", "request", "response"}]
        /\ ask' \in [Guests -> 0 .. Blocks]
    BY <2>1, SeamConstants DEF SeamInv, Types
  <2> QED
    BY <2>1, <2>2, <2>3, <2>4, <2>5 DEF SeamInv, Types
<1>8. ASSUME NEW i \in Guests, Answer(i) PROVE Types'
  BY <1>8, SeamConstants DEF SeamInv, Types, InCall, Serve, MaySpin, Wake, Answers, Answer, GoTo, channels, serving
<1>9. ASSUME NEW i \in Guests, Reply(i) PROVE Types'
  BY <1>9, SeamConstants DEF SeamInv, Types, InCall, Serve, MaySpin, Wake, Answers, Reply, GoTo, channels, serving
<1>10. CASE Observe
  BY <1>10, SeamConstants DEF SeamInv, Types, InCall, Serve, MaySpin, Wake, Answers, Observe, channels, serving
<1>11. CASE NothingToServe
  BY <1>11, SeamConstants DEF SeamInv, Types, InCall, Serve, MaySpin, Wake, Answers, NothingToServe, channels, serving
<1>12. CASE SpinCaught
  BY <1>12, SeamConstants DEF SeamInv, Types, InCall, Serve, MaySpin, Wake, Answers, SpinCaught, channels, serving
<1>13. CASE SpinRanOut
  BY <1>13, SeamConstants DEF SeamInv, Types, InCall, Serve, MaySpin, Wake, Answers, SpinRanOut, channels, serving
<1>14. CASE Park
  BY <1>14, SeamConstants DEF SeamInv, Types, InCall, Serve, MaySpin, Wake, Answers, Park, channels, serving
<1>15. CASE ParkTimedOut
  BY <1>15, SeamConstants DEF SeamInv, Types, InCall, Serve, MaySpin, Wake, Answers, ParkTimedOut, channels, serving
<1>16. CASE UNCHANGED seamVars
  BY <1>16 DEF SeamInv, Types, InCall, Serve, MaySpin, Wake, Answers, seamVars, channels, serving
<1> QED
  BY SeamSteps, <1>1, <1>2, <1>3, <1>4, <1>5, <1>6, <1>7, <1>8, <1>9, <1>10, <1>11, <1>12, <1>13, <1>14, <1>15, <1>16

LEMMA CallsKept ==
    ASSUME SeamInv, Types', [SeamNext]_seamVars
    PROVE  CallsAreTrue' /\ WritesAreTold'
<1>1. ASSUME NEW i \in Guests, BeginWrite(i) PROVE CallsAreTrue' /\ WritesAreTold'
  BY <1>1, SeamConstants DEF SeamInv, Types, InCall, CallsAreTrue, CallShape, WritesAreTold, Serve, Wake, Answers, BeginWrite, GoTo, channels, serving
<1>2. ASSUME NEW i \in Guests, Publish(i) PROVE CallsAreTrue' /\ WritesAreTold'
  BY <1>2, SeamConstants DEF SeamInv, Types, InCall, CallsAreTrue, CallShape, WritesAreTold, Serve, Wake, Answers, Publish, GoTo, channels, serving
<1>3. ASSUME NEW i \in Guests, Ring(i) PROVE CallsAreTrue' /\ WritesAreTold'
  BY <1>3, SeamConstants DEF SeamInv, Types, InCall, CallsAreTrue, CallShape, WritesAreTold, Serve, Wake, Answers, Ring, GoTo, channels, serving
<1>4. ASSUME NEW i \in Guests, Notify(i) PROVE CallsAreTrue' /\ WritesAreTold'
  BY <1>4, SeamConstants DEF SeamInv, Types, InCall, CallsAreTrue, CallShape, WritesAreTold, Serve, Wake, Answers, Notify, GoTo, channels, serving
<1>5. ASSUME NEW i \in Guests, SpinEnds(i) PROVE CallsAreTrue' /\ WritesAreTold'
  BY <1>5, SeamConstants DEF SeamInv, Types, InCall, CallsAreTrue, CallShape, WritesAreTold, Serve, Wake, Answers, SpinEnds, GoTo, channels, serving
<1>6. ASSUME NEW i \in Guests, Await(i) PROVE CallsAreTrue' /\ WritesAreTold'
  BY <1>6, SeamConstants DEF SeamInv, Types, InCall, CallsAreTrue, CallShape, WritesAreTold, Serve, Wake, Answers, Await, GoTo, channels, serving
<1>7. ASSUME NEW i \in Guests, Answered(i) PROVE CallsAreTrue' /\ WritesAreTold'
  <2>1. /\ pc[i] = "await" /\ chan' = [chan EXCEPT ![i] = "idle"]
        /\ ask' = [ask EXCEPT ![i] = 0] /\ ans' = [ans EXCEPT ![i] = Nothing]
        /\ UNCHANGED <<options, begun, stored, coord, doorbell, idle, wasted>>
        /\ IsTold(i) \/ GoesOn(i)
    BY <1>7, AnswerIsTaken
  <2>0. Types
    BY DEF SeamInv
  <2>2. \A j \in Guests \ {i} :
           /\ pc'[j] = pc[j] /\ chan'[j] = chan[j] /\ ask'[j] = ask[j] /\ ans'[j] = ans[j]
           /\ summed'[j] = summed[j] /\ told'[j] = told[j] /\ stored'[j] = stored[j]
    BY <2>0, <2>1 DEF Types, IsTold, GoesOn
  <2>3. /\ chan'[i] = "idle" /\ stored'[i] = stored[i] /\ options' = options
        /\ \/ pc'[i] = "told" /\ summed'[i] = 0 /\ told'[i].count = stored[i]
           \/ /\ pc'[i] = "publish" /\ summed'[i] = summed[i] + 1
              /\ ~ options.gather /\ summed[i] + 1 < Blocks /\ stored[i] = summed[i] + 1
    BY <2>0, <2>1 DEF Types, IsTold, GoesOn
  <2>4. \A j \in Guests \ {i} : CallShape(j)' /\ (pc'[j] = "told" /\ told'[j].ok => told'[j].count = stored'[j])
    BY <2>2, <2>3 DEF SeamInv, CallsAreTrue, CallShape, WritesAreTold
  <2>5. CallShape(i)' /\ (pc'[i] = "told" /\ told'[i].ok => told'[i].count = stored'[i])
    BY <2>3 DEF CallShape, InCall
  <2> QED
    BY <2>4, <2>5 DEF CallsAreTrue, WritesAreTold
<1>8. ASSUME NEW i \in Guests, Answer(i) PROVE CallsAreTrue' /\ WritesAreTold'
  BY <1>8, SeamConstants DEF SeamInv, Types, InCall, CallsAreTrue, CallShape, WritesAreTold, Serve, Wake, Answers, Answer, GoTo, channels, serving
<1>9. ASSUME NEW i \in Guests, Reply(i) PROVE CallsAreTrue' /\ WritesAreTold'
  BY <1>9, SeamConstants DEF SeamInv, Types, InCall, CallsAreTrue, CallShape, WritesAreTold, Serve, Wake, Answers, Reply, GoTo, channels, serving
<1>10. CASE Observe
  BY <1>10, SeamConstants DEF SeamInv, Types, InCall, CallsAreTrue, CallShape, WritesAreTold, Serve, Wake, Answers, Observe, channels, serving
<1>11. CASE NothingToServe
  BY <1>11, SeamConstants DEF SeamInv, Types, InCall, CallsAreTrue, CallShape, WritesAreTold, Serve, Wake, Answers, NothingToServe, channels, serving
<1>12. CASE SpinCaught
  BY <1>12, SeamConstants DEF SeamInv, Types, InCall, CallsAreTrue, CallShape, WritesAreTold, Serve, Wake, Answers, SpinCaught, channels, serving
<1>13. CASE SpinRanOut
  BY <1>13, SeamConstants DEF SeamInv, Types, InCall, CallsAreTrue, CallShape, WritesAreTold, Serve, Wake, Answers, SpinRanOut, channels, serving
<1>14. CASE Park
  BY <1>14, SeamConstants DEF SeamInv, Types, InCall, CallsAreTrue, CallShape, WritesAreTold, Serve, Wake, Answers, Park, channels, serving
<1>15. CASE ParkTimedOut
  BY <1>15, SeamConstants DEF SeamInv, Types, InCall, CallsAreTrue, CallShape, WritesAreTold, Serve, Wake, Answers, ParkTimedOut, channels, serving
<1>16. CASE UNCHANGED seamVars
  BY <1>16 DEF SeamInv, Types, InCall, CallsAreTrue, CallShape, WritesAreTold, Serve, Wake, Answers, seamVars, channels, serving
<1> QED
  BY SeamSteps, <1>1, <1>2, <1>3, <1>4, <1>5, <1>6, <1>7, <1>8, <1>9, <1>10, <1>11, <1>12, <1>13, <1>14, <1>15, <1>16

LEMMA DoorbellKept ==
    ASSUME SeamInv, Types', [SeamNext]_seamVars
    PROVE  DoorbellIsTrue'
<1>1. ASSUME NEW i \in Guests, BeginWrite(i) PROVE DoorbellIsTrue'
  BY <1>1, SeamConstants DEF SeamInv, Types, InCall, CallsAreTrue, CallShape, DoorbellIsTrue, Serve, Wake, BeginWrite, GoTo, channels, serving
<1>2. ASSUME NEW i \in Guests, Publish(i) PROVE DoorbellIsTrue'
  BY <1>2, SeamConstants DEF SeamInv, Types, InCall, CallsAreTrue, CallShape, DoorbellIsTrue, Serve, Wake, Publish, GoTo, channels, serving
<1>3. ASSUME NEW i \in Guests, Ring(i) PROVE DoorbellIsTrue'
  BY <1>3, SeamConstants DEF SeamInv, Types, InCall, CallsAreTrue, CallShape, DoorbellIsTrue, Serve, Wake, Ring, GoTo, channels, serving
<1>4. ASSUME NEW i \in Guests, Notify(i) PROVE DoorbellIsTrue'
  BY <1>4, SeamConstants DEF SeamInv, Types, InCall, CallsAreTrue, CallShape, DoorbellIsTrue, Serve, Wake, Notify, GoTo, channels, serving
<1>5. ASSUME NEW i \in Guests, SpinEnds(i) PROVE DoorbellIsTrue'
  BY <1>5, SeamConstants DEF SeamInv, Types, InCall, CallsAreTrue, CallShape, DoorbellIsTrue, Serve, Wake, SpinEnds, GoTo, channels, serving
<1>6. ASSUME NEW i \in Guests, Await(i) PROVE DoorbellIsTrue'
  BY <1>6, SeamConstants DEF SeamInv, Types, InCall, CallsAreTrue, CallShape, DoorbellIsTrue, Serve, Wake, Await, GoTo, channels, serving
<1>7. ASSUME NEW i \in Guests, Answered(i) PROVE DoorbellIsTrue'
  <2>1. /\ pc[i] = "await" /\ chan' = [chan EXCEPT ![i] = "idle"]
        /\ UNCHANGED <<coord, doorbell>>
        /\ \A j \in Guests \ {i} : pc'[j] = pc[j]
        /\ pc'[i] \in {"told", "publish"}
    <3>1. /\ pc[i] = "await" /\ chan' = [chan EXCEPT ![i] = "idle"]
          /\ UNCHANGED <<coord, doorbell>>
          /\ IsTold(i) \/ GoesOn(i)
      BY <1>7, AnswerIsTaken
    <3>2. Types
      BY DEF SeamInv
    <3> QED
      BY <3>1, <3>2 DEF Types, IsTold, GoesOn
  <2> QED
    BY <2>1, SeamConstants DEF SeamInv, Types, InCall, DoorbellIsTrue
<1>8. ASSUME NEW i \in Guests, Answer(i) PROVE DoorbellIsTrue'
  BY <1>8, SeamConstants DEF SeamInv, Types, InCall, CallsAreTrue, CallShape, DoorbellIsTrue, Serve, Wake, Answer, GoTo, channels, serving
<1>9. ASSUME NEW i \in Guests, Reply(i) PROVE DoorbellIsTrue'
  BY <1>9, SeamConstants DEF SeamInv, Types, InCall, CallsAreTrue, CallShape, DoorbellIsTrue, Serve, Wake, Reply, GoTo, channels, serving
<1>10. CASE Observe
  BY <1>10, SeamConstants DEF SeamInv, Types, InCall, CallsAreTrue, CallShape, DoorbellIsTrue, Serve, Wake, Observe, channels, serving
<1>11. CASE NothingToServe
  BY <1>11, SeamConstants DEF SeamInv, Types, InCall, CallsAreTrue, CallShape, DoorbellIsTrue, Serve, Wake, NothingToServe, channels, serving
<1>12. CASE SpinCaught
  BY <1>12, SeamConstants DEF SeamInv, Types, InCall, CallsAreTrue, CallShape, DoorbellIsTrue, Serve, Wake, SpinCaught, channels, serving
<1>13. CASE SpinRanOut
  BY <1>13, SeamConstants DEF SeamInv, Types, InCall, CallsAreTrue, CallShape, DoorbellIsTrue, Serve, Wake, SpinRanOut, channels, serving
<1>14. CASE Park
  BY <1>14, SeamConstants DEF SeamInv, Types, InCall, CallsAreTrue, CallShape, DoorbellIsTrue, Serve, Wake, Park, channels, serving
<1>15. CASE ParkTimedOut
  BY <1>15, SeamConstants DEF SeamInv, Types, InCall, CallsAreTrue, CallShape, DoorbellIsTrue, Serve, Wake, ParkTimedOut, channels, serving
<1>16. CASE UNCHANGED seamVars
  BY <1>16 DEF SeamInv, Types, InCall, CallsAreTrue, CallShape, DoorbellIsTrue, Serve, Wake, seamVars, channels, serving
<1> QED
  BY SeamSteps, <1>1, <1>2, <1>3, <1>4, <1>5, <1>6, <1>7, <1>8, <1>9, <1>10, <1>11, <1>12, <1>13, <1>14, <1>15, <1>16

LEMMA SpinKept ==
    ASSUME SeamInv, [SeamNext]_seamVars
    PROVE  SpinIsBounded'
<1>1. ASSUME NEW i \in Guests, BeginWrite(i) PROVE SpinIsBounded'
  BY <1>1, SeamConstants DEF SeamInv, Types, SpinIsBounded, Serve, MaySpin, BeginWrite, GoTo, channels, serving
<1>2. ASSUME NEW i \in Guests, Publish(i) PROVE SpinIsBounded'
  BY <1>2, SeamConstants DEF SeamInv, Types, SpinIsBounded, Serve, MaySpin, Publish, GoTo, channels, serving
<1>3. ASSUME NEW i \in Guests, Ring(i) PROVE SpinIsBounded'
  BY <1>3, SeamConstants DEF SeamInv, Types, SpinIsBounded, Serve, MaySpin, Ring, GoTo, channels, serving
<1>4. ASSUME NEW i \in Guests, Notify(i) PROVE SpinIsBounded'
  BY <1>4, SeamConstants DEF SeamInv, Types, SpinIsBounded, Serve, MaySpin, Notify, GoTo, channels, serving
<1>5. ASSUME NEW i \in Guests, SpinEnds(i) PROVE SpinIsBounded'
  BY <1>5, SeamConstants DEF SeamInv, Types, SpinIsBounded, Serve, MaySpin, SpinEnds, GoTo, channels, serving
<1>6. ASSUME NEW i \in Guests, Await(i) PROVE SpinIsBounded'
  BY <1>6, SeamConstants DEF SeamInv, Types, SpinIsBounded, Serve, MaySpin, Await, GoTo, channels, serving
<1>7. ASSUME NEW i \in Guests, Answered(i) PROVE SpinIsBounded'
  BY <1>7, SeamConstants DEF SeamInv, Types, SpinIsBounded, Serve, MaySpin, Answered, GoTo, channels, serving
<1>8. ASSUME NEW i \in Guests, Answer(i) PROVE SpinIsBounded'
  BY <1>8, SeamConstants DEF SeamInv, Types, SpinIsBounded, Serve, MaySpin, Answer, GoTo, channels, serving
<1>9. ASSUME NEW i \in Guests, Reply(i) PROVE SpinIsBounded'
  BY <1>9, SeamConstants DEF SeamInv, Types, SpinIsBounded, Serve, MaySpin, Reply, GoTo, channels, serving
<1>10. CASE Observe
  BY <1>10, SeamConstants DEF SeamInv, Types, SpinIsBounded, Serve, MaySpin, Observe, channels, serving
<1>11. CASE NothingToServe
  BY <1>11, SeamConstants DEF SeamInv, Types, SpinIsBounded, Serve, MaySpin, NothingToServe, channels, serving
<1>12. CASE SpinCaught
  BY <1>12, SeamConstants DEF SeamInv, Types, SpinIsBounded, Serve, MaySpin, SpinCaught, channels, serving
<1>13. CASE SpinRanOut
  BY <1>13, SeamConstants DEF SeamInv, Types, SpinIsBounded, Serve, MaySpin, SpinRanOut, channels, serving
<1>14. CASE Park
  BY <1>14, SeamConstants DEF SeamInv, Types, SpinIsBounded, Serve, MaySpin, Park, channels, serving
<1>15. CASE ParkTimedOut
  BY <1>15, SeamConstants DEF SeamInv, Types, SpinIsBounded, Serve, MaySpin, ParkTimedOut, channels, serving
<1>16. CASE UNCHANGED seamVars
  BY <1>16 DEF SeamInv, Types, SpinIsBounded, Serve, MaySpin, seamVars, channels, serving
<1> QED
  BY SeamSteps, <1>1, <1>2, <1>3, <1>4, <1>5, <1>6, <1>7, <1>8, <1>9, <1>10, <1>11, <1>12, <1>13, <1>14, <1>15, <1>16

-----------------------------------------------------------------------------
LEMMA SeamStepKeeps == ASSUME SeamInv, [SeamNext]_seamVars PROVE SeamInv'
BY TypesKept, CallsKept, DoorbellKept, SpinKept DEF SeamInv

LEMMA SeamIsAwake == SeamInv => SeamAwake
BY DEF SeamInv, DoorbellIsTrue, SeamAwake

(* The invariant holds of every behaviour.                                  *)
THEOREM SeamSafe == SeamSpec => []SeamInv
<1>1. SeamInv /\ [SeamNext]_seamVars => SeamInv'
  BY SeamStepKeeps
<1> QED
  BY <1>1, SeamInitially, PTL DEF SeamSpec

(* A pwrite never reports blocks the store does not have, nor fewer           *)
(* (gatherPwrites).                                                           *)
THEOREM ReportsAreTrue == SeamSpec => []WritesAreTold
BY SeamSafe, PTL DEF SeamInv

(* No guest and no coordinator is parked while what it waits for is there and *)
(* nobody is about to wake it (broker-spin.js).                               *)
THEOREM NobodyIsOverlooked == SeamSpec => []SeamAwake
BY SeamSafe, SeamIsAwake, PTL

(* An idle coordinator spins once and parks (broker-spin.js, BOUNDED PER      *)
(* WAIT).                                                                     *)
THEOREM SpinsOnce == SeamSpec => []IdleParks
<1>1. SeamInv => IdleParks
  BY DEF SeamInv, SpinIsBounded, IdleParks
<1> QED
  BY <1>1, SeamSafe, PTL

-----------------------------------------------------------------------------
(* The rings: GuestHost. *)

Rings == [in : Nat, out : Nat, wake : Nat, inShut : BOOLEAN, outShut : BOOLEAN]
Words == {GateOf(i) : i \in Sessions} \cup {OutSeq(i) : i \in Sessions} \cup {HostGate}
Places == {"poll", "test", "park", "parked", "events", "reply", "write",
           "wseq", "wtest", "wpark", "wparked", "closed"}

HostTypes ==
    /\ at \in [Sessions -> Places]
    /\ rings \in [Sessions -> Rings]
    /\ fresh \in [Sessions -> BOOLEAN]
    /\ unsent \in [Sessions -> Nat]
    /\ due \in [Agents -> Seq(Words)]
    /\ pump \in [Sessions -> {"ready", "test", "await", "joined", "ended"}]
    /\ gateFresh \in [Sessions -> BOOLEAN]
    /\ live \in {"none", "armed", "settled"}

\* A backend between its read of the gate and its park, or parked.
PollWatches ==
    \A i \in Sessions :
       at[i] \in {"test", "park", "parked"} /\ fresh[i] /\ Ready(i) => Owed(GateOf(i))

\* A writer that found no room, before its park and in it.
WriteWatches ==
    \A i \in Sessions :
       at[i] \in {"wpark", "wparked"} /\ fresh[i] /\ Room(i) > 0 => Owed(OutSeq(i))

ParkedIsFresh == \A i \in Sessions : at[i] \in {"parked", "wparked"} => fresh[i]

\* The page runs one reader at a time, and bumps before it goes on.
OneReader ==
    /\ \A i, j \in Sessions : Working(i) /\ Working(j) => i = j
    /\ \A i \in Sessions : Working(i) => Through(Host)

Data(i) == rings[i].out > 0 \/ rings[i].outShut
BumpComes == live = "settled" \/ Owed(HostGate)

\* A reader that found nothing, before it joins the one wait and after.
PumpWatches ==
    \A i \in Sessions :
       /\ pump[i] = "joined" => live # "none"
       /\ pump[i] = "joined" /\ Data(i) => BumpComes
       /\ pump[i] = "await" /\ Data(i) => BumpComes \/ (live = "none" /\ ~ gateFresh[i])

HostInv == HostTypes /\ PollWatches /\ WriteWatches /\ ParkedIsFresh /\ OneReader /\ PumpWatches
MCInv == HostInv /\ SeamInv
-----------------------------------------------------------------------------
(* Words, and the bumps that are owed.                                      *)

LEMMA WordsDiffer ==
    /\ \A i, j \in Sessions : GateOf(i) = GateOf(j) => i = j
    /\ \A i, j \in Sessions : OutSeq(i) = OutSeq(j) => i = j
    /\ \A i, j \in Sessions : GateOf(i) # OutSeq(j)
    /\ \A i \in Sessions : GateOf(i) # HostGate /\ OutSeq(i) # HostGate
    /\ \A i \in Sessions : GateOf(i).of = i /\ OutSeq(i).of = i
BY DEF GateOf, OutSeq, HostGate, Word

LEMMA AgentsAre == Host \in Agents /\ Sessions \subseteq Agents /\ Host \notin Sessions
BY HostAssumption DEF Agents

LEMMA OwedKept ==
    ASSUME due \in [Agents -> Seq(Words)], NEW a \in Agents, NEW words,
           due[a] = << >>, due' = [due EXCEPT ![a] = words],
           NEW w, Owed(w)
    PROVE  Owed(w)'
<1>0. PICK b \in Agents : \E k \in DOMAIN due[b] : due[b][k] = w
  BY DEF Owed
<1>1. PICK k \in DOMAIN due[b] : due[b][k] = w
  BY <1>0
<1>2. b # a
  BY <1>1
<1>3. due'[b] = due[b]
  BY <1>2
<1> QED
  BY <1>1, <1>3 DEF Owed

LEMMA OwedNow ==
    ASSUME due \in [Agents -> Seq(Words)], NEW a \in Agents, NEW words,
           due' = [due EXCEPT ![a] = words], NEW k \in DOMAIN words
    PROVE  Owed(words[k])'
<1>1. due'[a] = words
  OBVIOUS
<1> QED
  BY <1>1 DEF Owed

LEMMA OwedAfterBump ==
    ASSUME due \in [Agents -> Seq(Words)], NEW a \in Agents, due[a] # << >>,
           due' = [due EXCEPT ![a] = Tail(@)],
           NEW w, w # Head(due[a]), Owed(w)
    PROVE  Owed(w)'
<1>0. PICK b \in Agents : \E k \in DOMAIN due[b] : due[b][k] = w
  BY DEF Owed
<1>1. PICK k \in DOMAIN due[b] : due[b][k] = w
  BY <1>0
<1>2. CASE b # a
  <2>1. due'[b] = due[b]
    BY <1>2
  <2> QED
    BY <1>1, <2>1 DEF Owed
<1>3. CASE b = a
  <2>1. due'[a] = Tail(due[a]) /\ due[a] \in Seq(Words)
    OBVIOUS
  <2>2. k # 1
    BY <1>1, <1>3
  <2>3. k - 1 \in DOMAIN Tail(due[a]) /\ Tail(due[a])[k - 1] = due[a][k]
    BY <1>1, <1>3, <2>1, <2>2
  <2> QED
    BY <1>1, <1>3, <2>1, <2>3 DEF Owed
<1> QED
  BY <1>2, <1>3

LEMMA OwedStays ==
    ASSUME due' = due, NEW w, Owed(w)
    PROVE  Owed(w)'
BY DEF Owed
\* What was owed still is.
GateStillOwed(j) == Owed(GateOf(j)) => Owed(GateOf(j))'
SeqStillOwed(j) == Owed(OutSeq(j)) => Owed(OutSeq(j))'
StillOwed ==
    /\ \A j \in Sessions : Owed(GateOf(j)) => Owed(GateOf(j))'
    /\ \A j \in Sessions : Owed(OutSeq(j)) => Owed(OutSeq(j))'
    /\ Owed(HostGate) => Owed(HostGate)'

LEMMA StillOwedUnchanged == ASSUME due' = due PROVE StillOwed
BY OwedStays DEF StillOwed

LEMMA StillOwedKept ==
    ASSUME due \in [Agents -> Seq(Words)], NEW a \in Agents, NEW words,
           due[a] = << >>, due' = [due EXCEPT ![a] = words]
    PROVE  StillOwed
BY OwedKept DEF StillOwed

-----------------------------------------------------------------------------
(* Steps of a backend that owe nothing: they move it, and the word it reads. *)

LEMMA LocalTypes ==
    ASSUME HostTypes, NEW i \in Sessions,
           Poll(i) \/ PollTest(i) \/ PollPark(i) \/ PollTimesOut(i) \/ NoEvent(i) \/ NoRoom(i)
           \/ WriteSeq(i) \/ WriteTest(i) \/ WritePark(i) \/ WriteTimesOut(i) \/ Drain(i) \/ ReadRequest(i)
    PROVE  HostTypes' /\ due' = due
<1>1. CASE Poll(i)
  BY <1>1 DEF Poll, Backed, StepTo, Elsewhere, Heard, Settled, hostVars, HostTypes, Places, Rings
<1>2. CASE PollTest(i)
  BY <1>2 DEF PollTest, Backed, StepTo, Elsewhere, Heard, Settled, hostVars, HostTypes, Places, Rings
<1>3. CASE PollPark(i)
  BY <1>3 DEF PollPark, Backed, StepTo, Elsewhere, Heard, Settled, hostVars, HostTypes, Places, Rings
<1>4. CASE PollTimesOut(i)
  BY <1>4 DEF PollTimesOut, Backed, StepTo, Elsewhere, Heard, Settled, hostVars, HostTypes, Places, Rings
<1>5. CASE NoEvent(i)
  BY <1>5 DEF NoEvent, Backed, StepTo, Elsewhere, Heard, Settled, hostVars, HostTypes, Places, Rings
<1>6. CASE NoRoom(i)
  BY <1>6 DEF NoRoom, Backed, StepTo, Elsewhere, Heard, Settled, hostVars, HostTypes, Places, Rings
<1>7. CASE WriteSeq(i)
  BY <1>7 DEF WriteSeq, Backed, StepTo, Elsewhere, Heard, Settled, hostVars, HostTypes, Places, Rings
<1>8. CASE WriteTest(i)
  BY <1>8 DEF WriteTest, Backed, StepTo, Elsewhere, Heard, Settled, hostVars, HostTypes, Places, Rings
<1>9. CASE WritePark(i)
  BY <1>9 DEF WritePark, Backed, StepTo, Elsewhere, Heard, Settled, hostVars, HostTypes, Places, Rings
<1>10. CASE WriteTimesOut(i)
  BY <1>10 DEF WriteTimesOut, Backed, StepTo, Elsewhere, Heard, Settled, hostVars, HostTypes, Places, Rings
<1>11. CASE Drain(i)
  BY <1>11 DEF Drain, Backed, StepTo, Elsewhere, Heard, Settled, hostVars, HostTypes, Places, Rings
<1>12. CASE ReadRequest(i)
  <2>1. rings[i] \in Rings /\ rings[i].in > 0
    BY <1>12 DEF ReadRequest, HostTypes
  <2>2. [rings[i] EXCEPT !.in = @ - 1] \in Rings
    BY <2>1 DEF Rings
  <2>3. rings' \in [Sessions -> Rings]
    BY <1>12, <2>2 DEF ReadRequest, HostTypes
  <2> QED
    BY <1>12, <2>3 DEF ReadRequest, Backed, StepTo, Heard, Settled, hostVars, HostTypes, Places
<1> QED
  BY <1>1, <1>2, <1>3, <1>4, <1>5, <1>6, <1>7, <1>8, <1>9, <1>10, <1>11, <1>12

LEMMA LocalKeeps ==
    ASSUME HostInv, HostTypes', NEW i \in Sessions, due' = due, StillOwed,
           Poll(i) \/ PollTest(i) \/ PollPark(i) \/ PollTimesOut(i) \/ NoEvent(i) \/ NoRoom(i)
           \/ WriteSeq(i) \/ WriteTest(i) \/ WritePark(i) \/ WriteTimesOut(i) \/ Drain(i) \/ ReadRequest(i)
    PROVE  HostInv'
<1>1. CASE Poll(i)
  <2>1. PollWatches' /\ WriteWatches' /\ ParkedIsFresh'
    BY <1>1 DEF Poll, Backed, StepTo, Elsewhere, Heard, Settled, hostVars, HostInv, HostTypes, Rings,
       PollWatches, WriteWatches, ParkedIsFresh, Ready, Readable, Room, StillOwed
  <2>2. OneReader' /\ PumpWatches'
    BY <1>1 DEF Poll, Elsewhere, Heard, Settled, hostVars, HostInv, HostTypes, Rings,
       OneReader, Working, Through, PumpWatches, Data, BumpComes, StillOwed
  <2> QED
    BY <2>1, <2>2 DEF HostInv
<1>2. CASE PollTest(i)
  <2>1. PollWatches' /\ WriteWatches' /\ ParkedIsFresh'
    BY <1>2 DEF PollTest, Backed, StepTo, Elsewhere, Heard, Settled, hostVars, HostInv, HostTypes, Rings,
       PollWatches, WriteWatches, ParkedIsFresh, Ready, Readable, Room, StillOwed
  <2>2. OneReader' /\ PumpWatches'
    BY <1>2 DEF PollTest, Elsewhere, Heard, Settled, hostVars, HostInv, HostTypes, Rings,
       OneReader, Working, Through, PumpWatches, Data, BumpComes, StillOwed
  <2> QED
    BY <2>1, <2>2 DEF HostInv
<1>3. CASE PollPark(i)
  <2>1. PollWatches' /\ WriteWatches' /\ ParkedIsFresh'
    BY <1>3 DEF PollPark, Backed, StepTo, Elsewhere, Heard, Settled, hostVars, HostInv, HostTypes, Rings,
       PollWatches, WriteWatches, ParkedIsFresh, Ready, Readable, Room, StillOwed
  <2>2. OneReader' /\ PumpWatches'
    BY <1>3 DEF PollPark, Elsewhere, Heard, Settled, hostVars, HostInv, HostTypes, Rings,
       OneReader, Working, Through, PumpWatches, Data, BumpComes, StillOwed
  <2> QED
    BY <2>1, <2>2 DEF HostInv
<1>4. CASE PollTimesOut(i)
  <2>1. PollWatches' /\ WriteWatches' /\ ParkedIsFresh'
    BY <1>4 DEF PollTimesOut, Backed, StepTo, Elsewhere, Heard, Settled, hostVars, HostInv, HostTypes, Rings,
       PollWatches, WriteWatches, ParkedIsFresh, Ready, Readable, Room, StillOwed
  <2>2. OneReader' /\ PumpWatches'
    BY <1>4 DEF PollTimesOut, Elsewhere, Heard, Settled, hostVars, HostInv, HostTypes, Rings,
       OneReader, Working, Through, PumpWatches, Data, BumpComes, StillOwed
  <2> QED
    BY <2>1, <2>2 DEF HostInv
<1>5. CASE NoEvent(i)
  <2>1. PollWatches' /\ WriteWatches' /\ ParkedIsFresh'
    BY <1>5 DEF NoEvent, Backed, StepTo, Elsewhere, Heard, Settled, hostVars, HostInv, HostTypes, Rings,
       PollWatches, WriteWatches, ParkedIsFresh, Ready, Readable, Room, StillOwed
  <2>2. OneReader' /\ PumpWatches'
    BY <1>5 DEF NoEvent, Elsewhere, Heard, Settled, hostVars, HostInv, HostTypes, Rings,
       OneReader, Working, Through, PumpWatches, Data, BumpComes, StillOwed
  <2> QED
    BY <2>1, <2>2 DEF HostInv
<1>6. CASE NoRoom(i)
  <2>1. PollWatches' /\ WriteWatches' /\ ParkedIsFresh'
    BY <1>6 DEF NoRoom, Backed, StepTo, Elsewhere, Heard, Settled, hostVars, HostInv, HostTypes, Rings,
       PollWatches, WriteWatches, ParkedIsFresh, Ready, Readable, Room, StillOwed
  <2>2. OneReader' /\ PumpWatches'
    BY <1>6 DEF NoRoom, Elsewhere, Heard, Settled, hostVars, HostInv, HostTypes, Rings,
       OneReader, Working, Through, PumpWatches, Data, BumpComes, StillOwed
  <2> QED
    BY <2>1, <2>2 DEF HostInv
<1>7. CASE WriteSeq(i)
  <2>1. PollWatches' /\ WriteWatches' /\ ParkedIsFresh'
    BY <1>7 DEF WriteSeq, Backed, StepTo, Elsewhere, Heard, Settled, hostVars, HostInv, HostTypes, Rings,
       PollWatches, WriteWatches, ParkedIsFresh, Ready, Readable, Room, StillOwed
  <2>2. OneReader' /\ PumpWatches'
    BY <1>7 DEF WriteSeq, Elsewhere, Heard, Settled, hostVars, HostInv, HostTypes, Rings,
       OneReader, Working, Through, PumpWatches, Data, BumpComes, StillOwed
  <2> QED
    BY <2>1, <2>2 DEF HostInv
<1>8. CASE WriteTest(i)
  <2>1. PollWatches' /\ WriteWatches' /\ ParkedIsFresh'
    BY <1>8 DEF WriteTest, Backed, StepTo, Elsewhere, Heard, Settled, hostVars, HostInv, HostTypes, Rings,
       PollWatches, WriteWatches, ParkedIsFresh, Ready, Readable, Room, StillOwed
  <2>2. OneReader' /\ PumpWatches'
    BY <1>8 DEF WriteTest, Elsewhere, Heard, Settled, hostVars, HostInv, HostTypes, Rings,
       OneReader, Working, Through, PumpWatches, Data, BumpComes, StillOwed
  <2> QED
    BY <2>1, <2>2 DEF HostInv
<1>9. CASE WritePark(i)
  <2>1. PollWatches' /\ WriteWatches' /\ ParkedIsFresh'
    BY <1>9 DEF WritePark, Backed, StepTo, Elsewhere, Heard, Settled, hostVars, HostInv, HostTypes, Rings,
       PollWatches, WriteWatches, ParkedIsFresh, Ready, Readable, Room, StillOwed
  <2>2. OneReader' /\ PumpWatches'
    BY <1>9 DEF WritePark, Elsewhere, Heard, Settled, hostVars, HostInv, HostTypes, Rings,
       OneReader, Working, Through, PumpWatches, Data, BumpComes, StillOwed
  <2> QED
    BY <2>1, <2>2 DEF HostInv
<1>10. CASE WriteTimesOut(i)
  <2>1. PollWatches' /\ WriteWatches' /\ ParkedIsFresh'
    BY <1>10 DEF WriteTimesOut, Backed, StepTo, Elsewhere, Heard, Settled, hostVars, HostInv, HostTypes, Rings,
       PollWatches, WriteWatches, ParkedIsFresh, Ready, Readable, Room, StillOwed
  <2>2. OneReader' /\ PumpWatches'
    BY <1>10 DEF WriteTimesOut, Elsewhere, Heard, Settled, hostVars, HostInv, HostTypes, Rings,
       OneReader, Working, Through, PumpWatches, Data, BumpComes, StillOwed
  <2> QED
    BY <2>1, <2>2 DEF HostInv
<1>11. CASE Drain(i)
  <2>1. PollWatches' /\ WriteWatches' /\ ParkedIsFresh'
    BY <1>11 DEF Drain, Backed, StepTo, Elsewhere, Heard, Settled, hostVars, HostInv, HostTypes, Rings,
       PollWatches, WriteWatches, ParkedIsFresh, Ready, Readable, Room, StillOwed
  <2>2. OneReader' /\ PumpWatches'
    BY <1>11 DEF Drain, Elsewhere, Heard, Settled, hostVars, HostInv, HostTypes, Rings,
       OneReader, Working, Through, PumpWatches, Data, BumpComes, StillOwed
  <2> QED
    BY <2>1, <2>2 DEF HostInv
<1>12. CASE ReadRequest(i)
  <2>1. PollWatches' /\ WriteWatches' /\ ParkedIsFresh'
    BY <1>12 DEF ReadRequest, Backed, StepTo, Elsewhere, Heard, Settled, hostVars, HostInv, HostTypes, Rings,
       PollWatches, WriteWatches, ParkedIsFresh, Ready, Readable, Room, StillOwed
  <2>2. OneReader' /\ PumpWatches'
    BY <1>12 DEF ReadRequest, Elsewhere, Heard, Settled, hostVars, HostInv, HostTypes, Rings,
       OneReader, Working, Through, PumpWatches, Data, BumpComes, StillOwed
  <2> QED
    BY <2>1, <2>2 DEF HostInv
<1> QED
  BY <1>1, <1>2, <1>3, <1>4, <1>5, <1>6, <1>7, <1>8, <1>9, <1>10, <1>11, <1>12

-----------------------------------------------------------------------------
(* Steps of a backend that owe bumps: a change to a ring, and the words whose  *)
(* waiters may be waiting for it.                                             *)

LEMMA RingEdits ==
    ASSUME NEW r \in Rings, NEW n \in Nat
    PROVE  /\ [r EXCEPT !.out = @ + n] \in Rings
           /\ [r EXCEPT !.wake = @ + 1] \in Rings
           /\ [r EXCEPT !.in = @ + 1] \in Rings
           /\ [r EXCEPT !.inShut = TRUE] \in Rings
           /\ [r EXCEPT !.out = 0] \in Rings
<1>1. r.out + n \in Nat /\ r.wake + 1 \in Nat /\ r.in + 1 \in Nat
  BY DEF Rings
<1>2. [r EXCEPT !.out = @ + n] \in Rings
  BY <1>1 DEF Rings
<1>3. [r EXCEPT !.wake = @ + 1] \in Rings
  BY <1>1 DEF Rings
<1>4. [r EXCEPT !.in = @ + 1] \in Rings
  BY <1>1 DEF Rings
<1>5. [r EXCEPT !.inShut = TRUE] \in Rings
  BY DEF Rings
<1>6. [r EXCEPT !.out = 0] \in Rings
  BY DEF Rings
<1> QED
  BY <1>2, <1>3, <1>4, <1>5, <1>6

LEMMA WordsAre ==
    /\ \A j \in Sessions : GateOf(j) \in Words /\ OutSeq(j) \in Words
    /\ HostGate \in Words
BY DEF Words

LEMMA OweOne ==
    ASSUME HostTypes, NEW a \in Agents, NEW w \in Words, due[a] = << >>,
           due' = [due EXCEPT ![a] = <<w>>]
    PROVE  /\ due' \in [Agents -> Seq(Words)]
           /\ StillOwed /\ Owed(w)'
           /\ \A b \in Agents \ {a} : due'[b] = due[b]
<1>1. due \in [Agents -> Seq(Words)] /\ <<w>> \in Seq(Words)
  BY DEF HostTypes
<1>2. due' \in [Agents -> Seq(Words)] /\ \A b \in Agents \ {a} : due'[b] = due[b]
  BY <1>1
<1>3. 1 \in DOMAIN <<w>> /\ <<w>>[1] = w
  OBVIOUS
<1>4. Owed(w)'
  BY <1>1, <1>3, OwedNow
<1> QED
  BY <1>1, <1>2, <1>4, StillOwedKept

LEMMA CloseKeeps ==
    ASSUME HostInv, NEW i \in Sessions, CloseSession(i)
    PROVE  HostInv'
<1>0. HostTypes /\ i \in Agents /\ Host # i
  BY AgentsAre DEF HostInv
<1>1. /\ due[i] = << >> /\ due' = [due EXCEPT ![i] = <<HostGate>>]
      /\ at[i] = "events" /\ at' = [at EXCEPT ![i] = "closed"]
      /\ rings' = [rings EXCEPT ![i].outShut = TRUE]
      /\ UNCHANGED <<pump, gateFresh, live, fresh, unsent>>
  BY DEF CloseSession, Backed, Through, Owes, FromGuest, StepTo, Heard, Settled, hostVars
<1>2. /\ due' \in [Agents -> Seq(Words)] /\ StillOwed /\ Owed(HostGate)'
      /\ due'[Host] = due[Host]
  BY <1>0, <1>1, OweOne, WordsAre, AgentsAre
<1>3. HostTypes'
  BY <1>0, <1>1, <1>2 DEF HostTypes, Places, Rings
<1>4. PollWatches' /\ WriteWatches' /\ ParkedIsFresh'
  BY <1>0, <1>1, <1>2 DEF HostInv, HostTypes, Rings, PollWatches, WriteWatches, ParkedIsFresh,
     Ready, Readable, Room, StillOwed
<1>5. OneReader' /\ PumpWatches'
  BY <1>0, <1>1, <1>2 DEF HostInv, HostTypes, Rings, OneReader, Working, Through, PumpWatches,
     Data, BumpComes, StillOwed
<1> QED
  BY <1>3, <1>4, <1>5 DEF HostInv

LEMMA WriteKeeps ==
    ASSUME HostInv, NEW i \in Sessions, Write(i)
    PROVE  HostInv'
<1>0. HostTypes /\ i \in Agents /\ Host # i
  BY AgentsAre DEF HostInv
<1>1. PICK n \in Nat :
         /\ rings' = [rings EXCEPT ![i].out = @ + n]
         /\ unsent' = [unsent EXCEPT ![i] = @ - n] /\ n <= unsent[i]
  <2>1. Room(i) \in Int /\ Room(i) > 0 /\ unsent[i] \in Nat
    BY <1>0, HostAssumption DEF Write, Room, HostTypes, Rings
  <2>2. Fewest(Room(i), unsent[i]) \in Nat /\ Fewest(Room(i), unsent[i]) <= unsent[i]
    BY <2>1 DEF Fewest
  <2> QED
    BY <2>2 DEF Write
<1>2. /\ due[i] = << >> /\ due' = [due EXCEPT ![i] = <<HostGate>>]
      /\ at[i] = "write" /\ \E p \in {"poll", "write"} : at' = [at EXCEPT ![i] = p]
      /\ UNCHANGED <<pump, gateFresh, live, fresh>>
  BY DEF Write, Backed, Through, Owes, FromGuest, StepTo, Settled, hostVars
<1>3. /\ due' \in [Agents -> Seq(Words)] /\ StillOwed /\ Owed(HostGate)'
      /\ due'[Host] = due[Host]
  BY <1>0, <1>2, OweOne, WordsAre, AgentsAre
<1>4. /\ at' \in [Sessions -> Places] /\ at'[i] \in {"poll", "write"}
      /\ \A j \in Sessions \ {i} : at'[j] = at[j]
  BY <1>0, <1>2 DEF HostTypes, Places
<1>5. /\ rings' \in [Sessions -> Rings] /\ unsent' \in [Sessions -> Nat]
      /\ \A j \in Sessions \ {i} : rings'[j] = rings[j]
  <2>1. [rings[i] EXCEPT !.out = @ + n] \in Rings
    BY <1>0, RingEdits DEF HostTypes
  <2>2. unsent[i] - n \in Nat
    BY <1>0, <1>1 DEF HostTypes
  <2> QED
    BY <1>0, <1>1, <2>1, <2>2 DEF HostTypes
<1>6. HostTypes'
  BY <1>0, <1>2, <1>3, <1>4, <1>5 DEF HostTypes
<1>7. PollWatches' /\ WriteWatches' /\ ParkedIsFresh'
  BY <1>2, <1>3, <1>4, <1>5 DEF HostInv, PollWatches, WriteWatches, ParkedIsFresh,
     Ready, Readable, Room, StillOwed
<1>8. OneReader' /\ PumpWatches'
  BY <1>2, <1>3, <1>5 DEF HostInv, OneReader, Working, Through, PumpWatches,
     Data, BumpComes, StillOwed
<1> QED
  BY <1>6, <1>7, <1>8 DEF HostInv

LEMMA LatchKeeps ==
    ASSUME HostInv, NEW i \in Sessions, SetLatch(i)
    PROVE  HostInv'
<1>0. HostTypes /\ i \in Agents /\ Host # i
  BY AgentsAre DEF HostInv
<1>1. /\ due[i] = << >>
      /\ at[i] = "reply" /\ at' = [at EXCEPT ![i] = "write"]
      /\ unsent' = [unsent EXCEPT ![i] = Parts]
      /\ UNCHANGED <<pump, gateFresh, live, fresh>>
  BY DEF SetLatch, Backed, Through, StepTo, Settled, hostVars
<1>2. at' \in [Sessions -> Places] /\ unsent' \in [Sessions -> Nat]
  BY <1>0, <1>1, HostAssumption DEF HostTypes, Places
<1>3. CASE UNCHANGED <<rings, due>>
  <2>1. StillOwed
    BY <1>3, StillOwedUnchanged
  <2>2. HostTypes'
    BY <1>0, <1>1, <1>2, <1>3 DEF HostTypes
  <2>3. PollWatches' /\ WriteWatches' /\ ParkedIsFresh'
    BY <1>0, <1>1, <1>3, <2>1 DEF HostInv, HostTypes, PollWatches, WriteWatches, ParkedIsFresh,
       Ready, Readable, Room, StillOwed
  <2>4. OneReader' /\ PumpWatches'
    BY <1>1, <1>3, <2>1 DEF HostInv, OneReader, Working, Through, PumpWatches, Data, BumpComes, StillOwed
  <2> QED
    BY <2>2, <2>3, <2>4 DEF HostInv
<1>4. ASSUME NEW j \in Sessions,
             rings' = [rings EXCEPT ![j].wake = @ + 1], due' = [due EXCEPT ![i] = <<GateOf(j)>>]
      PROVE  HostInv'
  <2>1. /\ due' \in [Agents -> Seq(Words)] /\ StillOwed /\ Owed(GateOf(j))'
        /\ due'[Host] = due[Host]
    BY <1>0, <1>1, <1>4, OweOne, WordsAre, AgentsAre
  <2>2. /\ rings' \in [Sessions -> Rings]
        /\ \A k \in Sessions : rings'[k].out = rings[k].out /\ rings'[k].outShut = rings[k].outShut
        /\ \A k \in Sessions \ {j} : rings'[k] = rings[k]
    <3>1. [rings[j] EXCEPT !.wake = @ + 1] \in Rings
      BY <1>0, RingEdits DEF HostTypes
    <3>2. /\ [rings[j] EXCEPT !.wake = @ + 1].out = rings[j].out
          /\ [rings[j] EXCEPT !.wake = @ + 1].outShut = rings[j].outShut
      BY <1>0 DEF HostTypes, Rings
    <3> QED
      BY <1>0, <1>4, <3>1, <3>2 DEF HostTypes
  <2>3. HostTypes'
    BY <1>0, <1>1, <1>2, <2>1, <2>2 DEF HostTypes
  <2>4. PollWatches' /\ WriteWatches' /\ ParkedIsFresh'
    BY <1>0, <1>1, <2>1, <2>2 DEF HostInv, HostTypes, PollWatches, WriteWatches, ParkedIsFresh,
       Ready, Readable, Room, StillOwed
  <2>5. OneReader' /\ PumpWatches'
    BY <1>1, <2>1, <2>2 DEF HostInv, OneReader, Working, Through, PumpWatches, Data, BumpComes, StillOwed
  <2> QED
    BY <2>3, <2>4, <2>5 DEF HostInv
<1> QED
  BY <1>3, <1>4 DEF SetLatch, Owes, ToGuest

-----------------------------------------------------------------------------
(* Steps of the page.                                                       *)

LEMMA SendKeeps ==
    ASSUME HostInv, NEW i \in Sessions, Send(i)
    PROVE  HostInv'
<1>0. HostTypes /\ Host \in Agents
  BY AgentsAre DEF HostInv
<1>1. /\ due[Host] = << >> /\ due' = [due EXCEPT ![Host] = <<GateOf(i)>>]
      /\ \A j \in Sessions : ~ Working(j)
      /\ UNCHANGED <<at, fresh, unsent, pump, gateFresh, live>>
  BY DEF Send, InTurn, Through, Owes, ToGuest
<1>2. /\ due' \in [Agents -> Seq(Words)] /\ StillOwed /\ Owed(GateOf(i))'
  BY <1>0, <1>1, OweOne, WordsAre
<1>3. \E r \in Rings : /\ rings' = [rings EXCEPT ![i] = r]
                       /\ r.out = rings[i].out /\ r.outShut = rings[i].outShut
  <2>1. rings[i] \in Rings
    BY <1>0 DEF HostTypes
  <2>2. [rings[i] EXCEPT !.in = @ + 1] \in Rings /\ [rings[i] EXCEPT !.inShut = TRUE] \in Rings
    BY <2>1, RingEdits
  <2>4. /\ [rings[i] EXCEPT !.in = @ + 1].out = rings[i].out
        /\ [rings[i] EXCEPT !.in = @ + 1].outShut = rings[i].outShut
        /\ [rings[i] EXCEPT !.inShut = TRUE].out = rings[i].out
        /\ [rings[i] EXCEPT !.inShut = TRUE].outShut = rings[i].outShut
    BY <2>1 DEF Rings
  <2>3. \/ rings' = [rings EXCEPT ![i] = [rings[i] EXCEPT !.in = @ + 1]]
        \/ rings' = [rings EXCEPT ![i] = [rings[i] EXCEPT !.inShut = TRUE]]
    BY <1>0 DEF Send, HostTypes
  <2> QED
    BY <2>2, <2>3, <2>4
<1>4. /\ rings' \in [Sessions -> Rings]
      /\ \A j \in Sessions : rings'[j].out = rings[j].out /\ rings'[j].outShut = rings[j].outShut
      /\ \A j \in Sessions \ {i} : rings'[j] = rings[j]
  BY <1>0, <1>3 DEF HostTypes
<1>5. HostTypes'
  BY <1>0, <1>1, <1>2, <1>4 DEF HostTypes
<1>6. PollWatches' /\ WriteWatches' /\ ParkedIsFresh'
  BY <1>1, <1>2, <1>4 DEF HostInv, PollWatches, WriteWatches, ParkedIsFresh,
     Ready, Readable, Room, StillOwed
<1>7. OneReader' /\ PumpWatches'
  BY <1>1, <1>2, <1>4 DEF HostInv, OneReader, Working, PumpWatches, Data, BumpComes, StillOwed
<1> QED
  BY <1>5, <1>6, <1>7 DEF HostInv

\* What the backends watch does not move with the page's own places.
LEMMA BackendsKeep ==
    ASSUME HostInv, StillOwed, UNCHANGED <<rings, at, fresh>>
    PROVE  PollWatches' /\ WriteWatches' /\ ParkedIsFresh'
BY DEF HostInv, PollWatches, WriteWatches, ParkedIsFresh, Ready, Readable, Room, StillOwed

LEMMA PumpSeesKeeps ==
    ASSUME HostInv, NEW i \in Sessions, PumpSees(i)
    PROVE  HostInv'
<1>1. StillOwed /\ HostTypes /\ UNCHANGED <<rings, at, fresh, due>>
  BY StillOwedUnchanged DEF PumpSees, HostOnly, HostInv
<1>2. HostTypes'
  BY <1>1 DEF PumpSees, PumpTo, HostOnly, HostTypes
<1>3. OneReader' /\ PumpWatches'
  BY <1>1 DEF PumpSees, PumpTo, InTurn, HostInv, HostTypes, OneReader, Working, Through, PumpWatches,
     Data, BumpComes, StillOwed
<1> QED
  BY <1>1, <1>2, <1>3, BackendsKeep DEF HostInv

LEMMA PumpAwaitsKeeps ==
    ASSUME HostInv, NEW i \in Sessions, PumpAwaits(i)
    PROVE  HostInv'
<1>1. StillOwed /\ HostTypes /\ UNCHANGED <<rings, at, fresh, due>>
  BY StillOwedUnchanged DEF PumpAwaits, HostOnly, HostInv
<1>2. HostTypes'
  BY <1>1 DEF PumpAwaits, PumpTo, HostOnly, HostTypes
<1>3. OneReader' /\ PumpWatches'
  BY <1>1 DEF PumpAwaits, PumpTo, HostInv, HostTypes, OneReader, Working, Through, PumpWatches,
     Data, BumpComes, StillOwed
<1> QED
  BY <1>1, <1>2, <1>3, BackendsKeep DEF HostInv

LEMMA SettleKeeps ==
    ASSUME HostInv, Settle
    PROVE  HostInv'
<1>1. StillOwed /\ HostTypes /\ UNCHANGED <<rings, at, fresh, due>>
  BY StillOwedUnchanged DEF Settle, HostOnly, HostInv
<1>2. HostTypes'
  BY <1>1 DEF Settle, HostOnly, HostTypes
<1>3. OneReader' /\ PumpWatches'
  BY <1>1 DEF Settle, InTurn, HostInv, HostTypes, OneReader, Working, Through, PumpWatches
<1> QED
  BY <1>1, <1>2, <1>3, BackendsKeep DEF HostInv

LEMMA HeartBeatKeeps ==
    ASSUME HostInv, HeartBeat
    PROVE  HostInv'
<1>1. StillOwed /\ HostTypes /\ UNCHANGED <<rings, at, fresh, due>>
  BY StillOwedUnchanged DEF HeartBeat, HostOnly, HostInv
<1>2. HostTypes'
  BY <1>1 DEF HeartBeat, HostOnly, HostTypes
<1>3. OneReader' /\ PumpWatches'
  BY <1>1 DEF HeartBeat, HostInv, OneReader, Working, Through, PumpWatches, Data, BumpComes
<1> QED
  BY <1>1, <1>2, <1>3, BackendsKeep DEF HostInv

LEMMA PumpTestKeeps ==
    ASSUME HostInv, NEW i \in Sessions, PumpTest(i)
    PROVE  HostInv'
<1>0. HostTypes /\ Host \in Agents /\ due[Host] = << >>
  BY AgentsAre DEF HostInv, OneReader, Working, Through, PumpTest
<1>1. CASE rings[i].out > 0
  <2>1. /\ due' = [due EXCEPT ![Host] = Drained(i)]
        /\ rings' = [rings EXCEPT ![i].out = 0]
        /\ pump[i] = "test" /\ pump' = [pump EXCEPT ![i] = "ready"]
        /\ UNCHANGED <<at, fresh, unsent, live>>
    BY <1>1 DEF PumpTest, PumpTo, Owes, HostOnly
  <2>2. /\ due' \in [Agents -> Seq(Words)] /\ StillOwed /\ Owed(OutSeq(i))'
    <3>1. Drained(i) \in Seq(Words) /\ 1 \in DOMAIN Drained(i) /\ Drained(i)[1] = OutSeq(i)
      BY WordsAre DEF Drained
    <3>2. Owed(OutSeq(i))'
      BY <1>0, <2>1, <3>1, OwedNow DEF HostTypes
    <3>3. StillOwed
      BY <1>0, <2>1, StillOwedKept DEF HostTypes
    <3> QED
      BY <1>0, <2>1, <3>1, <3>2, <3>3 DEF HostTypes
  <2>3. /\ rings' \in [Sessions -> Rings]
        /\ rings'[i].out = 0 /\ rings'[i].outShut = rings[i].outShut
        /\ rings'[i].in = rings[i].in /\ rings'[i].wake = rings[i].wake /\ rings'[i].inShut = rings[i].inShut
        /\ \A j \in Sessions \ {i} : rings'[j] = rings[j]
    <3>1. rings[i] \in Rings /\ [rings[i] EXCEPT !.out = 0] \in Rings
      BY <1>0, RingEdits DEF HostTypes
    <3> QED
      BY <1>0, <2>1, <3>1 DEF HostTypes, Rings
  <2>4. gateFresh' \in [Sessions -> BOOLEAN] /\ \A j \in Sessions \ {i} : gateFresh'[j] = gateFresh[j]
    BY <1>0 DEF PumpTest, HostTypes
  <2>5. HostTypes'
    BY <1>0, <2>1, <2>2, <2>3, <2>4 DEF HostTypes
  <2>6. PollWatches' /\ WriteWatches' /\ ParkedIsFresh'
    BY <2>1, <2>2, <2>3 DEF HostInv, PollWatches, WriteWatches, ParkedIsFresh,
       Ready, Readable, Room, StillOwed
  <2>7. OneReader' /\ PumpWatches'
    BY <1>0, <2>1, <2>2, <2>3, <2>4 DEF HostInv, HostTypes, OneReader, Working, PumpWatches,
       Data, BumpComes, StillOwed
  <2> QED
    BY <2>5, <2>6, <2>7 DEF HostInv
<1>2. CASE ~ (rings[i].out > 0)
  <2>1. /\ UNCHANGED <<rings, due, at, fresh, unsent, live>> /\ StillOwed
        /\ pump[i] = "test"
        /\ pump' = [pump EXCEPT ![i] = IF rings[i].outShut THEN "ended" ELSE "await"]
    BY <1>2, StillOwedUnchanged DEF PumpTest, PumpTo, HostOnly
  <2>2. gateFresh' \in [Sessions -> BOOLEAN] /\ \A j \in Sessions \ {i} : gateFresh'[j] = gateFresh[j]
    BY <1>0 DEF PumpTest, HostTypes
  <2>3. HostTypes'
    BY <1>0, <2>1, <2>2 DEF HostTypes
  <2>4. OneReader' /\ PumpWatches'
    BY <1>2, <2>1, <2>2 DEF HostInv, HostTypes, OneReader, Working, Through, PumpWatches,
       Data, BumpComes, StillOwed
  <2> QED
    BY <2>1, <2>3, <2>4, BackendsKeep DEF HostInv
<1> QED
  BY <1>1, <1>2

-----------------------------------------------------------------------------
(* A bump: whoever waits on the word is told.                               *)

LEMMA BumpKeeps ==
    ASSUME HostInv, NEW a \in Agents, Bump(a)
    PROVE  HostInv'
<1> DEFINE w == Head(due[a])
<1>0. HostTypes
  BY DEF HostInv
<1>1. /\ due[a] # << >> /\ due' = [due EXCEPT ![a] = Tail(@)]
      /\ UNCHANGED <<rings, unsent, pump>>
  BY DEF Bump
<1>2. due[a] \in Seq(Words) /\ w \in Words /\ Tail(due[a]) \in Seq(Words)
  BY <1>0, <1>1 DEF HostTypes
<1>3. due' \in [Agents -> Seq(Words)] /\ \A b \in Agents \ {a} : due'[b] = due[b]
  BY <1>0, <1>1, <1>2 DEF HostTypes
<1>4. \A v : v # w /\ Owed(v) => Owed(v)'
  BY <1>0, <1>1, OwedAfterBump DEF HostTypes
<1>5. OneReader'
  BY <1>1, <1>3, AgentsAre DEF HostInv, OneReader, Working, Through
<1>6. CASE w = HostGate
  <2>1. /\ gateFresh' = [i \in Sessions |-> FALSE]
        /\ live' = IF live = "none" THEN "none" ELSE "settled"
        /\ UNCHANGED <<fresh, at>>
    BY <1>6 DEF Bump, BumpHost
  <2>2. \A i \in Sessions : GateStillOwed(i) /\ SeqStillOwed(i)
    BY <1>4, <1>6, WordsDiffer DEF GateStillOwed, SeqStillOwed
  <2>3. HostTypes'
    BY <1>0, <1>1, <1>3, <2>1 DEF HostTypes
  <2>4. PollWatches' /\ WriteWatches' /\ ParkedIsFresh'
    BY <1>1, <2>1, <2>2 DEF HostInv, PollWatches, WriteWatches, ParkedIsFresh, Ready, Readable, Room,
       GateStillOwed, SeqStillOwed
  <2>5. PumpWatches'
    BY <1>1, <2>1 DEF HostInv, PumpWatches, BumpComes
  <2> QED
    BY <1>5, <2>3, <2>4, <2>5 DEF HostInv
<1>7. ASSUME NEW i \in Sessions, w \in {GateOf(i), OutSeq(i)}
      PROVE  HostInv'
  <2>1. BumpGuest(w) /\ UNCHANGED <<gateFresh, live>> /\ w.of = i
    BY <1>7, WordsDiffer DEF Bump
  <2>2. Owed(HostGate) => Owed(HostGate)'
    BY <1>4, <1>7, WordsDiffer
  <2>3. \A j \in Sessions \ {i} : GateStillOwed(j) /\ SeqStillOwed(j)
    BY <1>4, <1>7, WordsDiffer DEF GateStillOwed, SeqStillOwed
  <2>4. PumpWatches'
    BY <1>1, <2>1, <2>2 DEF HostInv, PumpWatches, Data, BumpComes
  <2>5. CASE w = Watched(i)
    <3>1. /\ fresh' = [fresh EXCEPT ![i] = FALSE]
          /\ at' = IF at[i] = "parked" THEN [at EXCEPT ![i] = "events"]
                   ELSE IF at[i] = "wparked" THEN [at EXCEPT ![i] = "wseq"] ELSE at
      BY <2>1, <2>5 DEF BumpGuest
    <3>2. HostTypes'
      BY <1>0, <1>1, <1>3, <2>1, <3>1 DEF HostTypes, Places
    <3>3. /\ fresh'[i] = FALSE /\ at'[i] \notin {"parked", "wparked"}
          /\ \A j \in Sessions \ {i} : fresh'[j] = fresh[j] /\ at'[j] = at[j]
      BY <1>0, <3>1 DEF HostTypes
    <3>4. PollWatches' /\ WriteWatches' /\ ParkedIsFresh'
      BY <1>1, <2>3, <3>3 DEF HostInv, PollWatches, WriteWatches, ParkedIsFresh, Ready, Readable, Room,
         GateStillOwed, SeqStillOwed
    <3> QED
      BY <1>5, <2>4, <3>2, <3>4 DEF HostInv
  <2>6. CASE w # Watched(i)
    <3>1. UNCHANGED <<fresh, at>>
      BY <2>1, <2>6 DEF BumpGuest
    <3>2. HostTypes'
      BY <1>0, <1>1, <1>3, <2>1, <3>1 DEF HostTypes
    <3>3. /\ at[i] \in {"test", "park", "parked"} => GateStillOwed(i)
          /\ at[i] \in {"wpark", "wparked"} => SeqStillOwed(i)
      BY <1>4, <2>6 DEF Watched, GateStillOwed, SeqStillOwed
    <3>4. PollWatches' /\ WriteWatches' /\ ParkedIsFresh'
      BY <1>1, <2>3, <3>1, <3>3 DEF HostInv, PollWatches, WriteWatches, ParkedIsFresh, Ready, Readable, Room,
         GateStillOwed, SeqStillOwed
    <3> QED
      BY <1>5, <2>4, <3>2, <3>4 DEF HostInv
  <2> QED
    BY <2>5, <2>6
<1> QED
  BY <1>2, <1>6, <1>7 DEF Words

-----------------------------------------------------------------------------
LEMMA HostInitially == Init => HostInv
<1> SUFFICES ASSUME Init PROVE HostInv
  OBVIOUS
<1>1. HostTypes
  BY DEF Init, HostTypes, Places, Rings
<1>2. /\ PollWatches /\ WriteWatches /\ ParkedIsFresh /\ OneReader /\ PumpWatches
  BY DEF Init, PollWatches, WriteWatches, ParkedIsFresh, OneReader, PumpWatches, Working
<1> QED
  BY <1>1, <1>2 DEF HostInv

LEMMA HostStutters == ASSUME HostInv, UNCHANGED vars PROVE HostInv'
<1>1. StillOwed /\ HostTypes /\ UNCHANGED <<at, rings, fresh, unsent, due, pump, gateFresh, live>>
  BY StillOwedUnchanged DEF vars, guestVars, hostVars, HostInv
<1>2. HostTypes'
  BY <1>1 DEF HostTypes
<1>3. OneReader' /\ PumpWatches'
  BY <1>1 DEF HostInv, OneReader, Working, Through, PumpWatches, Data, BumpComes, StillOwed
<1> QED
  BY <1>1, <1>2, <1>3, BackendsKeep DEF HostInv

LEMMA HostStepKeeps == ASSUME HostInv, [Next]_vars PROVE HostInv'
<1>0. HostTypes
  BY DEF HostInv
<1>1. ASSUME NEW i \in Sessions, Backend(i) \/ TimesOut(i) PROVE HostInv'
  <2>1. CASE CloseSession(i) \/ Write(i) \/ SetLatch(i)
    BY <2>1, CloseKeeps, WriteKeeps, LatchKeeps
  <2>2. CASE ~ (CloseSession(i) \/ Write(i) \/ SetLatch(i))
    <3>1. \/ Poll(i) \/ PollTest(i) \/ PollPark(i) \/ PollTimesOut(i) \/ NoEvent(i) \/ NoRoom(i)
          \/ WriteSeq(i) \/ WriteTest(i) \/ WritePark(i) \/ WriteTimesOut(i) \/ Drain(i) \/ ReadRequest(i)
      BY <1>1, <2>2 DEF Backend, TimesOut
    <3>2. HostTypes' /\ due' = due
      BY <1>0, <3>1, LocalTypes
    <3> QED
      BY <3>1, <3>2, StillOwedUnchanged, LocalKeeps
  <2> QED
    BY <2>1, <2>2
<1>2. ASSUME NEW a \in Agents, Bump(a) PROVE HostInv'
  BY <1>2, BumpKeeps
<1>3. ASSUME NEW i \in Sessions, PumpSees(i) \/ PumpTest(i) \/ PumpAwaits(i) PROVE HostInv'
  BY <1>3, PumpSeesKeeps, PumpTestKeeps, PumpAwaitsKeeps
<1>4. ASSUME NEW i \in Sessions, Send(i) PROVE HostInv'
  BY <1>4, SendKeeps
<1>5. CASE Settle \/ HeartBeat
  BY <1>5, SettleKeeps, HeartBeatKeeps
<1>6. CASE UNCHANGED vars
  BY <1>6, HostStutters
<1> QED
  BY <1>1, <1>2, <1>3, <1>4, <1>5, <1>6, AgentsAre DEF Next, Thread, Page, Pumping

LEMMA HostIsAwake == HostInv => NoSleepThrough
BY DEF HostInv, PollWatches, WriteWatches, ParkedIsFresh, PumpWatches, Data, BumpComes, NoSleepThrough

(* Whoever is parked in poll_oneoff, on a full ring or behind the page's one  *)
(* wait while what it waits for is there has a bump coming, for any number of *)
(* sessions (threads-host.js, sab-pipe.js).                                   *)
THEOREM NobodyMissesABump == Spec => []NoSleepThrough
<1>1. HostInv /\ [Next]_vars => HostInv'
  BY HostStepKeeps
<1> QED
  BY <1>1, HostInitially, HostIsAwake, PTL DEF Spec

-----------------------------------------------------------------------------
(* The invariants of the rings' side and of the channels' side hold of every  *)
(* behaviour of the two together: neither disturbs the other's words          *)
(* (threads-host.js imports, broker-fs.js).                                   *)
THEOREM BothSafe == MCSpec => []MCInv
<1>1. MCInit => MCInv
  BY HostInitially, SeamInitially DEF MCInit, MCInv
<1>2. [MCNext]_<<half, vars, seamVars>> => [Next]_vars /\ [SeamNext]_seamVars
  BY DEF MCNext
<1>3. MCInv /\ [MCNext]_<<half, vars, seamVars>> => MCInv'
  <2> SUFFICES ASSUME MCInv, [MCNext]_<<half, vars, seamVars>> PROVE MCInv'
    OBVIOUS
  <2>1. HostInv'
    BY <1>2, HostStepKeeps DEF MCInv
  <2>2. SeamInv'
    BY <1>2, SeamStepKeeps DEF MCInv
  <2> QED
    BY <2>1, <2>2 DEF MCInv
<1> QED
  BY <1>1, <1>3, PTL DEF MCSpec

(* A guest thread is never left parked, on whichever of the two it waits      *)
(* (threads-host.js poll_oneoff, sab-pipe.js, broker-spin.js).                *)
THEOREM NobodyIsLeftParked == MCSpec => []NobodySleepsThrough
<1>1. MCInv => NobodySleepsThrough
  BY HostIsAwake, SeamIsAwake DEF MCInv, NobodySleepsThrough
<1> QED
  BY <1>1, BothSafe, PTL
=============================================================================
