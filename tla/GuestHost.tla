------------------------------ MODULE GuestHost ------------------------------
(***************************************************************************)
(* src/vendor/pgrust/threads-host.js and the waits of sab-pipe.js it and   *)
(* the page rest on: backends blocked in poll_oneoff over their session's  *)
(* rings, writing to a full ring, and the one agent that pumps every       *)
(* session's replies behind a single Atomics.waitAsync.                    *)
(*                                                                         *)
(* A ring holds tokens: requests in `in', the parts of a reply in `out',   *)
(* SetLatch's in `wake'. A change is made to a ring first and its words    *)
(* are bumped after, one by one: its own SEQ, the session's gate, the      *)
(* host's gate. `due' holds the bumps an agent has yet to make, of the     *)
(* words another may be waiting on.                                        *)
(***************************************************************************)
EXTENDS Integers, Sequences

CONSTANTS Sessions,     \* each with one backend
          Host,         \* the pumping agent
          Parts,        \* tokens of a reply
          RingSize,     \* capacity of `out'
          MaxRequests   \* bound: requests of a session

ASSUME HostAssumption == /\ Parts \in Nat \ {0} /\ RingSize \in Nat \ {0} /\ MaxRequests \in Nat
                         /\ Host \notin Sessions

VARIABLES at,         \* where each backend is
          rings,      \* in, out, wake: tokens queued; shut: both ends closed
          fresh,      \* the word a guest last read has not moved since
          unsent,     \* tokens of the reply still to be written
          due,        \* words an agent has yet to bump
          pump,       \* each session's reader: ready test await joined ended
          gateFresh,  \* the host gate has not moved since a reader read it
          live,       \* the one waitAsync: none, armed, settled
          sent, got   \* requests sent, tokens of replies read

guestVars == <<at, rings, fresh, unsent>>
hostVars == <<pump, gateFresh, live, sent, got>>
vars == <<guestVars, due, hostVars>>

Agents == Sessions \cup {Host}
Word(kind, i) == [kind |-> kind, of |-> i]
GateOf(i) == Word("gate", i)
OutSeq(i) == Word("seq", i)
HostGate == Word("host", Host)

Init ==
    /\ at = [i \in Sessions |-> "poll"]
    /\ rings = [i \in Sessions |-> [in |-> 0, out |-> 0, wake |-> 0, inShut |-> FALSE, outShut |-> FALSE]]
    /\ fresh = [i \in Sessions |-> FALSE]
    /\ unsent = [i \in Sessions |-> 0]
    /\ due = [a \in Agents |-> <<>>]
    /\ pump = [i \in Sessions |-> "ready"]
    /\ gateFresh = [i \in Sessions |-> FALSE]
    /\ live = "none"
    /\ sent = [i \in Sessions |-> 0]
    /\ got = [i \in Sessions |-> 0]

StepTo(i, where) == at' = [at EXCEPT ![i] = where]

-----------------------------------------------------------------------------
(* _bump: one word after the other, adding to it and notifying its waiter. A  *)
(* backend's own session's words have no waiter but itself.                   *)

ToGuest(i) == <<GateOf(i)>>
FromGuest == <<HostGate>>
Drained(i) == <<OutSeq(i), GateOf(i), HostGate>>

Owes(a, words) == due' = [due EXCEPT ![a] = words]
Through(a) == due[a] = <<>>

(* The word a guest waits on.                                                 *)
Watched(i) == IF at[i] \in {"wtest", "wpark", "wparked"} THEN OutSeq(i) ELSE GateOf(i)

BumpGuest(w) ==
    LET i == w.of IN
    IF w = Watched(i)
    THEN /\ fresh' = [fresh EXCEPT ![i] = FALSE]
         /\ at' = IF at[i] = "parked" THEN [at EXCEPT ![i] = "events"]
                  ELSE IF at[i] = "wparked" THEN [at EXCEPT ![i] = "wseq"] ELSE at
    ELSE UNCHANGED <<fresh, at>>

BumpHost == /\ gateFresh' = [i \in Sessions |-> FALSE]
            /\ live' = IF live = "none" THEN "none" ELSE "settled"

Bump(a) ==
    /\ due[a] # <<>>
    /\ due' = [due EXCEPT ![a] = Tail(@)]
    /\ LET w == Head(due[a]) IN
       IF w = HostGate THEN BumpHost /\ UNCHANGED <<fresh, at>>
       ELSE BumpGuest(w) /\ UNCHANGED <<gateFresh, live>>
    /\ UNCHANGED <<rings, unsent, pump, sent, got>>

-----------------------------------------------------------------------------
(* poll_oneoff over the session's `in' ring, its wake ring and a clock        *)

Readable(i) == rings[i].in > 0 \/ rings[i].inShut
Ready(i) == Readable(i) \/ rings[i].wake > 0

Backed(i, from) == at[i] = from /\ Through(i)
Elsewhere == UNCHANGED <<rings, unsent, due, hostVars>>

(* The gate is read before the rings are tested again.                        *)
Poll(i) == /\ Backed(i, "poll")
           /\ fresh' = [fresh EXCEPT ![i] = ~ Ready(i)]
           /\ StepTo(i, IF Ready(i) THEN "events" ELSE "test")
           /\ Elsewhere

PollTest(i) == /\ Backed(i, "test")
               /\ StepTo(i, IF Ready(i) THEN "events" ELSE "park")
               /\ fresh' = [fresh EXCEPT ![i] = @ /\ ~ Ready(i)]
               /\ Elsewhere

PollParkSeqLate(i) == /\ Backed(i, "park")
                      /\ StepTo(i, "parked")
                      /\ fresh' = [fresh EXCEPT ![i] = TRUE]
                      /\ Elsewhere

PollPark(i) == /\ Backed(i, "park")
               /\ StepTo(i, IF fresh[i] THEN "parked" ELSE "events")
               /\ UNCHANGED fresh
               /\ Elsewhere

(* A park that ended for nothing, or at its deadline, reports no ring.        *)
PollTimesOut(i) == /\ Backed(i, "parked")
                   /\ StepTo(i, "events")
                   /\ fresh' = [fresh EXCEPT ![i] = FALSE]
                   /\ Elsewhere

-----------------------------------------------------------------------------
(* What a backend does with the events: fd_read, fd_write, fd_close           *)

Settled == UNCHANGED hostVars
Heard(i) == Settled /\ UNCHANGED <<fresh, unsent>>

(* The wake ring is drained on every wake, and the guest polls again.         *)
Drain(i) == /\ Backed(i, "events") /\ rings[i].wake > 0
            /\ rings' = [rings EXCEPT ![i].wake = 0]
            /\ StepTo(i, "poll")
            /\ UNCHANGED due
            /\ Heard(i)

ReadRequest(i) == /\ Backed(i, "events") /\ rings[i].in > 0
                  /\ rings' = [rings EXCEPT ![i].in = @ - 1]
                  /\ StepTo(i, "reply")
                  /\ UNCHANGED due
                  /\ Heard(i)

CloseSilently(i) == /\ Backed(i, "events") /\ rings[i].in = 0 /\ rings[i].inShut
                    /\ rings' = [rings EXCEPT ![i].outShut = TRUE]
                    /\ StepTo(i, "closed")
                    /\ UNCHANGED due
                    /\ Heard(i)

(* End of input: the backend ends, closing both of its session's rings.       *)
CloseSession(i) == /\ Backed(i, "events") /\ rings[i].in = 0 /\ rings[i].inShut
                   /\ rings' = [rings EXCEPT ![i].outShut = TRUE]
                   /\ Owes(i, FromGuest)
                   /\ StepTo(i, "closed")
                   /\ Heard(i)

NoEvent(i) == /\ Backed(i, "events") /\ ~ Ready(i)
              /\ StepTo(i, "poll")
              /\ UNCHANGED <<rings, due>>
              /\ Heard(i)

(* SetLatch writes a token to a backend it finds parked; then the reply.      *)
InPoll(i) == at[i] \in {"test", "park", "parked"}

SetLatch(i) == /\ Backed(i, "reply")
               /\ \E j \in Sessions \ {i} :
                    IF InPoll(j)
                    THEN /\ rings' = [rings EXCEPT ![j].wake = @ + 1]
                         /\ Owes(i, ToGuest(j))
                    ELSE UNCHANGED <<rings, due>>
               /\ unsent' = [unsent EXCEPT ![i] = Parts]
               /\ StepTo(i, "write")
               /\ UNCHANGED fresh
               /\ Settled

Room(i) == RingSize - rings[i].out
Fewest(a, b) == IF a < b THEN a ELSE b

(* A short write, once at least one byte fits.                                *)
Write(i) == /\ Backed(i, "write") /\ Room(i) > 0
            /\ LET n == Fewest(Room(i), unsent[i]) IN
               /\ rings' = [rings EXCEPT ![i].out = @ + n]
               /\ unsent' = [unsent EXCEPT ![i] = @ - n]
               /\ StepTo(i, IF n = unsent[i] THEN "poll" ELSE "write")
            /\ Owes(i, FromGuest)
            /\ UNCHANGED fresh
            /\ Settled

NoRoom(i) == /\ Backed(i, "write") /\ Room(i) = 0
             /\ StepTo(i, "wseq")
             /\ UNCHANGED <<rings, due, fresh, unsent>>
             /\ Settled

(* waitWritable, 100 ms at a time.                                            *)
WriteSeq(i) == /\ Backed(i, "wseq")
               /\ fresh' = [fresh EXCEPT ![i] = TRUE]
               /\ StepTo(i, "wtest")
               /\ UNCHANGED <<rings, due, unsent>>
               /\ Settled

WriteTest(i) == /\ Backed(i, "wtest")
                /\ StepTo(i, IF Room(i) > 0 THEN "write" ELSE "wpark")
                /\ fresh' = [fresh EXCEPT ![i] = @ /\ Room(i) = 0]
                /\ UNCHANGED <<rings, due, unsent>>
                /\ Settled

WritePark(i) == /\ Backed(i, "wpark")
                /\ StepTo(i, IF fresh[i] THEN "wparked" ELSE "wseq")
                /\ UNCHANGED <<rings, due, fresh, unsent>>
                /\ Settled

WriteTimesOut(i) == /\ Backed(i, "wparked")
                    /\ StepTo(i, "write")
                    /\ fresh' = [fresh EXCEPT ![i] = FALSE]
                    /\ UNCHANGED <<rings, due, unsent>>
                    /\ Settled

TimesOut(i) == PollTimesOut(i) \/ WriteTimesOut(i)
Backend(i) == \/ Poll(i) \/ PollTest(i) \/ PollPark(i)
              \/ Drain(i) \/ ReadRequest(i) \/ CloseSession(i) \/ NoEvent(i) \/ SetLatch(i)
              \/ Write(i) \/ NoRoom(i) \/ WriteSeq(i) \/ WriteTest(i) \/ WritePark(i)

-----------------------------------------------------------------------------
(* readAsync of every session's replies, in turns of one event loop           *)

Working(i) == pump[i] \in {"test", "await"}
InTurn == (\E i \in Sessions : Working(i)) \/ ~ Through(Host)

PumpTo(i, where) == pump' = [pump EXCEPT ![i] = where]
HostOnly == UNCHANGED <<at, fresh, unsent, sent>>

(* Its user has a reply to come, or closes the session and awaits its end.    *)
Replied(i) == got[i] = sent[i] * Parts
Owing(i) == ~ Replied(i) \/ (rings[i].inShut /\ pump[i] # "ended")

(* The gate first, and the ring after it.                                     *)
PumpSees(i) == /\ pump[i] = "ready" /\ Owing(i) /\ ~ InTurn
               /\ gateFresh' = [gateFresh EXCEPT ![i] = TRUE]
               /\ PumpTo(i, "test")
               /\ UNCHANGED <<rings, due, live, got>>
               /\ HostOnly

PumpTest(i) ==
    /\ pump[i] = "test"
    /\ IF rings[i].out > 0
       THEN /\ rings' = [rings EXCEPT ![i].out = 0]
            /\ got' = [got EXCEPT ![i] = @ + rings[i].out]
            /\ Owes(Host, Drained(i))
            /\ PumpTo(i, "ready")
       ELSE /\ PumpTo(i, IF rings[i].outShut THEN "ended" ELSE "await")
            /\ UNCHANGED <<rings, got, due>>
    /\ gateFresh' = [gateFresh EXCEPT ![i] = @ /\ pump'[i] = "await"]
    /\ UNCHANGED live
    /\ HostOnly

(* _awaitHostGate: join the live wait, or arm it. A reader that is to test    *)
(* again does so in a microtask.                                              *)
PumpAwaits(i) ==
    /\ pump[i] = "await"
    /\ \/ live # "none" /\ PumpTo(i, "joined") /\ UNCHANGED live
       \/ live = "none" /\ ~ gateFresh[i] /\ PumpTo(i, "ready") /\ UNCHANGED live
       \/ live = "none" /\ gateFresh[i] /\ PumpTo(i, "joined") /\ live' = "armed"
    /\ gateFresh' = [gateFresh EXCEPT ![i] = FALSE]
    /\ UNCHANGED <<rings, due, got>>
    /\ HostOnly

(* A task: it runs when no microtask is left, and everyone tests again.       *)
Settle ==
    /\ live = "settled" /\ ~ InTurn
    /\ \A i \in Sessions : pump[i] = "ready" => ~ Owing(i)
    /\ live' = "none"
    /\ pump' = [i \in Sessions |-> IF pump[i] = "joined" THEN "ready" ELSE pump[i]]
    /\ UNCHANGED <<rings, due, gateFresh, got>>
    /\ HostOnly

(* HOST_GATE_WAIT_MS, in case.                                                *)
HeartBeat == /\ live = "armed"
             /\ live' = "settled"
             /\ UNCHANGED <<rings, due, pump, gateFresh, got>>
             /\ HostOnly

(* A session's user: a request at a time, and then the end of input.          *)
Send(i) ==
    /\ ~ InTurn /\ Replied(i) /\ ~ rings[i].inShut
    /\ IF sent[i] < MaxRequests
       THEN /\ rings' = [rings EXCEPT ![i].in = @ + 1]
            /\ sent' = [sent EXCEPT ![i] = @ + 1]
       ELSE /\ rings' = [rings EXCEPT ![i].inShut = TRUE]
            /\ UNCHANGED sent
    /\ Owes(Host, ToGuest(i))
    /\ UNCHANGED <<at, fresh, unsent, pump, gateFresh, live, got>>

Pumping == \/ Settle
           \/ \E i \in Sessions : PumpSees(i) \/ PumpTest(i) \/ PumpAwaits(i)

-----------------------------------------------------------------------------
Thread(i) == Backend(i) \/ Bump(i)
Page == Pumping \/ Bump(Host)

Next == \/ \E i \in Sessions : Thread(i) \/ TimesOut(i) \/ Send(i)
        \/ Page \/ HeartBeat

(* Threads run, and so does the event loop; no user has to send, and no wait  *)
(* to time out.                                                               *)
Fairness == /\ \A i \in Sessions : WF_vars(Thread(i))
            /\ WF_vars(Page)

Spec == Init /\ [][Next]_vars /\ Fairness

-----------------------------------------------------------------------------
Owed(w) == \E a \in Agents : \E k \in DOMAIN due[a] : due[a][k] = w

(* Whoever is parked while what it waits for is there has a wakeup coming: a  *)
(* backend in poll_oneoff or on a full ring, and the page's pumps behind      *)
(* their one wait.                                                            *)
NoSleepThrough ==
    \A i \in Sessions :
        /\ at[i] = "parked" /\ Ready(i) => Owed(GateOf(i))
        /\ at[i] = "wparked" /\ Room(i) > 0 => Owed(OutSeq(i))
        /\ pump[i] = "joined" /\ (rings[i].out > 0 \/ rings[i].outShut)
             => live = "settled" \/ Owed(HostGate)

(* Without a timer of anybody's, every reply is read and every session that   *)
(* its user ends comes to its end.                                            *)
NobodyOwed == \A i \in Sessions : ~ Owing(i)
RepliesArrive == []<>NobodyOwed
=============================================================================
