--------------------------- MODULE PgrustSession ---------------------------
(***************************************************************************)
(* PgrustPGlite (src/client/pgrust-pglite.ts): a PGlite client that speaks *)
(* the PostgreSQL wire protocol to one pgrust backend over two rings of    *)
(* shared memory.  Modelled: the exchanges (asynchronous and blocking),    *)
(* the framing of replies in #buffered, the idle notification pump and     *)
(* close().  Each ring is the byte channel that SabPipe implements, with   *)
(* its capacity.  A byte is a "unit": a message is one or two of them, so  *)
(* that a write or a read can split it.  The backend is outside src/ and   *)
(* is modelled from what the client relies on: the wire protocol.          *)
(*                                                                         *)
(* The client is one JavaScript agent: an action is what it runs between   *)
(* two awaits, and an exchange of the blocking kind parks the whole agent. *)
(***************************************************************************)
EXTENDS Naturals, Sequences, FiniteSets

CONSTANTS InRing,    \* capacity of the ring to the backend, in units
          OutRing,   \* capacity of the ring from the backend, in units
          MaxCalls,  \* bound: calls the callers make after the handshake
          MaxNotes,  \* bound: notifications the backend sends
          CanBlock   \* may this agent park in Atomics.wait

ASSUME SessionAssumption ==
    /\ InRing \in Nat \ {0} /\ OutRing \in Nat \ {0}
    /\ MaxCalls \in Nat /\ MaxNotes \in Nat
    /\ CanBlock \in BOOLEAN

(* Callers: the holder of #queryMutex, and a caller of execProtocolRawStream. *)
Callers == {"query", "raw"}

VARIABLES
    toGuest,    \* units in the ring to the backend
    wire,       \* units in the ring from the backend
    buffered,   \* #buffered
    ex,         \* by caller: its exchange, and the messages it sends after it
    inFlight,   \* #exchangeInFlight
    pumping,    \* #pumping
    ready, closing, closed,   \* #ready, #closing, #closed
    closer,     \* where the call of close() is
    delivered,  \* the notifications handed to the listeners, in order
    handed,     \* notifications consumed but not handed to a listener
    issued,     \* exchanges begun; an exchange's number is its identity
    calls,      \* calls made after the handshake
    guest,      \* the backend: "up", "gone", or "stuck": garbled or trapped
    mode,       \* its protocol state: "start"; "quiet" after the handshake,
                \* before it can have been told to LISTEN; "idle", "ext", "skip"
    partial,    \* the number of the message it has received half of, or 0
    held,       \* its reply units awaiting a flush
    out,        \* its reply units waiting for room in the ring
    notes,      \* notifications it has sent
    fresh,      \* the agent has not run since it saw the ring to it empty
    overlapped  \* history: an exchange began during the other caller's call

client  == <<buffered, ex, inFlight, ready, delivered, handed, issued>>
life    == <<pumping, closing, closed, closer>>
backend == <<guest, mode, partial, held, out, notes>>
vars    == <<toGuest, wire, client, life, calls, backend, fresh, overlapped>>

Smaller(a, b) == IF a < b THEN a ELSE b

(* The units of a message: no is the exchange it belongs to, or for a       *)
(* notification ("A") its own number.                                       *)
Long == {"Q", "C", "A"}
Message(type, no) ==
    [p \in 1 .. (IF type \in Long THEN 2 ELSE 1) |->
        [type |-> type, no |-> no, part |-> p]]

(* Mutants: any ErrorResponse ends a reply, a simple query's included; a     *)
(* CommandComplete ends one.                                                 *)
EndsAtError(kind) ==
    IF kind = "P" THEN {"1", "E"} ELSE {"Z", "E"}
EndsAtCommand(kind) ==
    IF kind = "P" THEN {"1", "E"} ELSE {"Z", "C"}

(* endsReplyTo: the backend messages that end the reply to a frontend message. *)
EndsReplyTo(kind) ==
    IF kind = "P" THEN {"1", "E"} ELSE {"Z"}

(* isSelfFlushing, and the Flush appended to a message that is not. *)
SelfFlushing(kind) == kind # "P"
Outgoing(kind, no) ==
    IF SelfFlushing(kind) THEN Message(kind, no)
                          ELSE Message(kind, no) \o Message("H", no)

(* A whole message starts at offset at of buf.  An offset that is not the   *)
(* start of a message (only after close() discarded units an exchange was   *)
(* waiting for, or after two overlapping exchanges) reads as a message that *)
(* never completes.                                                         *)
WholeAt(buf, at) ==
    /\ at < Len(buf)
    /\ buf[at + 1].part = 1
    /\ buf[at + 1].type \in Long => at + 2 <= Len(buf)
EndOf(buf, at) == at + (IF buf[at + 1].type \in Long THEN 2 ELSE 1)

(* #scanForReply: walk the whole messages of buf from offset at. *)
Walk(buf, kind) ==
    LET from[at \in 0 .. Len(buf)] ==
            IF ~ WholeAt(buf, at) THEN [found |-> FALSE, end |-> at]
            ELSE IF buf[at + 1].type \in EndsReplyTo(kind)
                 THEN [found |-> TRUE, end |-> EndOf(buf, at)]
                 ELSE from[EndOf(buf, at)]
    IN  from
Scan(buf, kind, scanned) ==
    IF scanned > Len(buf) THEN [found |-> FALSE, end |-> scanned]
                          ELSE Walk(buf, kind)[scanned]

After(buf, at) == SubSeq(buf, at + 1, Len(buf))

(* The units of s that are in S, in order. *)
Only(s, S) ==
    LET upTo[i \in 0 .. Len(s)] ==
            IF i = 0 THEN <<>>
            ELSE IF s[i] \in S THEN Append(upTo[i - 1], s[i]) ELSE upTo[i - 1]
    IN  upTo[Len(s)]

(* The numbers of the whole notifications in a reply. *)
LastHalves == [type : {"A"}, no : Nat, part : {2}]
NotesOf(units) ==
    LET second == Only(units, LastHalves)
    IN  [i \in 1 .. Len(second) |-> second[i].no]
SetOf(s) == {s[i] : i \in 1 .. Len(s)}

(* #dispatch: after a DatabaseError the rest of the reply is not looked at. *)
BeforeError(units) ==
    IF \E i \in 1 .. Len(units) : units[i].type = "E"
    THEN SubSeq(units, 1, CHOOSE i \in 1 .. Len(units) :
                /\ units[i].type = "E"
                /\ \A j \in 1 .. i - 1 : units[j].type # "E")
    ELSE units

NoExchange == [phase |-> "idle", kind |-> "S", no |-> 0, sync |-> FALSE,
               unsent |-> <<>>, scanned |-> 0, todo |-> <<>>, reply |-> <<>>]

Busy(c) == ex[c].phase \in {"sending", "scanning", "reading"}
(* An exchange holds the agent until it returns when it is of the blocking  *)
(* kind, and between its write and its first scan (a microtask apart).      *)
Holds(c) == Busy(c) /\ (ex[c].sync \/ ex[c].phase = "scanning")
Runs(c) == \A d \in Callers \ {c} : ~ Holds(d)
AgentFree == \A d \in Callers : ~ Holds(d)

(* SabPipe.room *)
Room == InRing - Len(toGuest)

(* A read returns 0: it saw the ring empty, and then that the backend has    *)
(* closed it.  What the backend wrote between the two looks stays unread    *)
(* (SabPipe, EofMeansDrained).                                              *)
Eof == guest = "gone" /\ fresh

(* The agent ran: it has looked at the ring as it leaves it. *)
AgentRan == fresh' = (wire' = <<>>)

----------------------------------------------------------------------------
(* The client is constructed: the startup packet is the first message.     *)
Init ==
    /\ toGuest = <<>> /\ wire = <<>> /\ buffered = <<>>
    /\ ex = [c \in Callers |->
                IF c = "query"
                THEN [NoExchange EXCEPT !.phase = "called", !.todo = <<"0">>]
                ELSE NoExchange]
    /\ inFlight = FALSE /\ pumping = FALSE
    /\ ready = FALSE /\ closing = FALSE /\ closed = FALSE /\ closer = "idle"
    /\ delivered = <<>> /\ handed = {} /\ issued = 0 /\ calls = 0
    /\ guest = "up" /\ mode = "start" /\ partial = 0
    /\ held = <<>> /\ out = <<>> /\ notes = 0
    /\ fresh = TRUE /\ overlapped = FALSE

----------------------------------------------------------------------------
(* Exchanges.                                                              *)

(* The synchronous prefix of #exchange and #exchangeSync: raise the flag    *)
(* and write what the ring has room for.                                    *)
Begin(c, kind, sync, todo) ==
    LET units == Outgoing(kind, issued + 1)
        n     == Smaller(Room, Len(units))
    IN  /\ inFlight' = TRUE
        /\ issued' = issued + 1
        /\ toGuest' = toGuest \o SubSeq(units, 1, n)
        /\ ex' = [ex EXCEPT ![c] =
               [NoExchange EXCEPT
                   !.phase = IF n = Len(units) THEN "scanning" ELSE "sending",
                   !.kind = kind, !.no = issued + 1, !.sync = sync,
                   !.unsent = After(units, n), !.todo = todo]]
        /\ overlapped' = (overlapped \/ \E d \in Callers \ {c} : ex[d].phase # "idle")
        /\ UNCHANGED <<wire, buffered, ready, delivered, handed, life, backend>>
        /\ AgentRan

(* query() and exec(): _checkReady, then wait for #queryMutex.  Under it go *)
(* the message and, in BasePGlite's finally, a Sync.                        *)
CallQuery(kind) ==
    /\ AgentFree
    /\ ready /\ ~ closing /\ ~ closed
    /\ calls < MaxCalls
    /\ ex["query"].phase = "idle"
    /\ calls' = calls + 1
    /\ ex' = [ex EXCEPT !["query"] =
                 [NoExchange EXCEPT !.phase = "called", !.todo = <<kind, "S">>]]
    /\ UNCHANGED <<toGuest, wire, buffered, inFlight, ready, delivered, handed,
                   issued, life, backend, overlapped>>
    /\ AgentRan

NextMessage ==
    /\ AgentFree
    /\ ex["query"].phase = "called"
    /\ Begin("query", Head(ex["query"].todo), FALSE, Tail(ex["query"].todo))
    /\ UNCHANGED calls

(* execProtocolRawStream, handed a simple query: blocking when this agent   *)
(* may block and no exchange is in flight, asynchronous otherwise.  It does *)
(* not take #queryMutex, so it may begin in the middle of a query's call.   *)
RawBlocks(flag) == CanBlock /\ ~ flag
CallRawStream ==
    /\ AgentFree
    /\ ready
    /\ calls < MaxCalls
    /\ ex["raw"].phase = "idle"
    /\ calls' = calls + 1
    /\ Begin("raw", "Q", RawBlocks(inFlight), <<>>)

(* #send, and SabPipe.write for the blocking kind: whatever fits. *)
Send(c) ==
    LET e == ex[c]
        n == Smaller(Room, Len(e.unsent))
    IN  /\ e.phase = "sending" /\ Runs(c)
        /\ n > 0
        /\ toGuest' = toGuest \o SubSeq(e.unsent, 1, n)
        /\ ex' = [ex EXCEPT
                     ![c].phase = IF n = Len(e.unsent) THEN "scanning" ELSE "sending",
                     ![c].unsent = After(e.unsent, n)]
        /\ UNCHANGED <<wire, buffered, inFlight, ready, delivered, handed, issued,
                       life, calls, backend, overlapped>>
        /\ AgentRan

(* The exchange is over: the flag falls, and a query goes on to its Sync.   *)
Rest(e) == IF e.todo = <<>> THEN "idle" ELSE "called"

(* #settle hands a query's notifications to the listeners; a raw reply and  *)
(* the handshake are not parsed by the client.                              *)
Settle(c, reply) ==
    LET seen == IF c = "query" THEN NotesOf(BeforeError(reply)) ELSE <<>>
    IN  /\ delivered' = delivered \o seen
        /\ handed' = handed \cup (SetOf(NotesOf(reply)) \ SetOf(seen))

Finish(c, reply) ==
    /\ inFlight' = FALSE
    /\ ex' = [ex EXCEPT ![c] = [NoExchange EXCEPT
                 !.phase = Rest(ex[c]), !.kind = ex[c].kind, !.no = ex[c].no,
                 !.todo = ex[c].todo, !.reply = reply]]
    /\ ready' = (ready \/ ex[c].kind = "0")

(* Mutant: what follows the reply in the buffer is dropped with it. *)
ScanForDrops(c, buf) ==
    LET s == Scan(buf, ex[c].kind, ex[c].scanned)
    IN  IF s.found
        THEN /\ Finish(c, SubSeq(buf, 1, s.end))
             /\ buffered' = <<>>
             /\ Settle(c, SubSeq(buf, 1, s.end))
        ELSE /\ buffered' = buf
             /\ ex' = [ex EXCEPT ![c].phase = "reading", ![c].scanned = s.end]
             /\ UNCHANGED <<inFlight, ready, delivered, handed>>

(* #scanForReply on buf, then either return the reply or read on. *)
ScanFor(c, buf) ==
    LET s == Scan(buf, ex[c].kind, ex[c].scanned)
    IN  IF s.found
        THEN /\ Finish(c, SubSeq(buf, 1, s.end))
             /\ buffered' = After(buf, s.end)
             /\ Settle(c, SubSeq(buf, 1, s.end))
        ELSE /\ buffered' = buf
             /\ ex' = [ex EXCEPT ![c].phase = "reading", ![c].scanned = s.end]
             /\ UNCHANGED <<inFlight, ready, delivered, handed>>

FirstScan(c) ==
    /\ ex[c].phase = "scanning" /\ Runs(c)
    /\ ScanFor(c, buffered)
    /\ UNCHANGED <<toGuest, wire, issued, life, calls, backend,
                   overlapped>>
    /\ AgentRan

(* readAsync or readInto returns what the ring holds. *)
Read(c) ==
    /\ ex[c].phase = "reading" /\ Runs(c)
    /\ wire # <<>>
    /\ wire' = <<>>
    /\ ScanFor(c, buffered \o wire)
    /\ UNCHANGED <<toGuest, issued, life, calls, backend, overlapped>>
    /\ AgentRan

(* The read returned 0: the session is closed and the exchange throws. *)
ReadEof(c) ==
    /\ ex[c].phase = "reading" /\ Runs(c)
    /\ Eof
    /\ closed' = TRUE
    /\ inFlight' = FALSE
    /\ ex' = [ex EXCEPT ![c] = [NoExchange EXCEPT
                 !.phase = Rest(ex[c]), !.todo = ex[c].todo]]
    /\ UNCHANGED <<toGuest, wire, buffered, ready, delivered, handed, issued,
                   pumping, closing, closer, calls, backend, overlapped>>
    /\ AgentRan

----------------------------------------------------------------------------
(* The idle notification pump.                                             *)

StartPump ==
    /\ AgentFree
    /\ ready /\ ~ pumping
    /\ pumping' = TRUE
    /\ UNCHANGED <<toGuest, wire, client, closing, closed, closer, calls, backend,
                   overlapped>>
    /\ AgentRan

(* The signal aborted, close() began, the session closed or the backend     *)
(* hung up: the loop returns.                                               *)
PumpReturn ==
    /\ AgentFree /\ pumping
    /\ closing \/ closed \/ (~ inFlight /\ Eof)
    /\ pumping' = FALSE
    /\ UNCHANGED <<toGuest, wire, client, closing, closed, closer, calls, backend,
                   overlapped>>
    /\ AgentRan

(* #drainNotifications: the leading whole notifications of the buffer. *)
Leading(buf) ==
    LET drained[at \in 0 .. Len(buf)] ==
            IF WholeAt(buf, at) /\ buf[at + 1].type = "A"
            THEN drained[EndOf(buf, at)]
            ELSE at
    IN  drained[0]

(* Mutant: the pump reads whatever is in flight. *)
PumpReadsAlways == TRUE

(* One turn of the loop that reads something. *)
PumpMayRead == ~ inFlight
PumpRead ==
    /\ AgentFree /\ pumping
    /\ ~ closing /\ ~ closed
    /\ PumpMayRead
    /\ wire # <<>>
    /\ LET buf == buffered \o wire
           n   == Leading(buf)
       IN  /\ delivered' = delivered \o NotesOf(SubSeq(buf, 1, n))
           /\ buffered' = After(buf, n)
    /\ wire' = <<>>
    /\ UNCHANGED <<toGuest, ex, inFlight, ready, handed, issued, life, calls, backend,
                   overlapped>>
    /\ AgentRan

----------------------------------------------------------------------------
(* close().  It does not take #queryMutex.                                 *)

StartClose ==
    /\ AgentFree
    /\ ready /\ ~ closed /\ ~ closing
    /\ closing' = TRUE
    /\ closer' = "sending"
    /\ UNCHANGED <<toGuest, wire, client, pumping, closed, calls, backend,
                   overlapped>>
    /\ AgentRan

(* #send(TERMINATE), which belongs to no exchange: number 0. *)
SendTerminate ==
    /\ AgentFree
    /\ closer = "sending"
    /\ Room > 0
    /\ toGuest' = toGuest \o Message("X", 0)
    /\ closer' = "reading"
    /\ UNCHANGED <<wire, client, pumping, closing, closed, calls, backend,
                   overlapped>>
    /\ AgentRan

(* What arrives before the end of file is discarded. *)
CloseRead ==
    /\ AgentFree
    /\ closer = "reading"
    /\ wire # <<>>
    /\ wire' = <<>>
    /\ UNCHANGED <<toGuest, client, life, calls, backend, overlapped>>
    /\ AgentRan

CloseEof ==
    /\ AgentFree
    /\ closer = "reading"
    /\ Eof
    /\ closer' = "done"
    /\ closed' = TRUE /\ closing' = FALSE /\ ready' = FALSE
    /\ UNCHANGED <<toGuest, wire, buffered, ex, inFlight, delivered, handed,
                   issued, pumping, calls, backend, overlapped>>
    /\ AgentRan

----------------------------------------------------------------------------
(* The backend (external).                                                 *)

Gone ==
    /\ guest' = "gone" /\ held' = <<>> /\ out' = <<>>
    /\ UNCHANGED <<mode, partial, notes>>

(* Its answers: each flushes what it held, but for the reply to a Parse.  A *)
(* notification may ride in front of a ReadyForQuery.                       *)
AnswerSync(no) ==
    \/ /\ notes < MaxNotes
       /\ notes' = notes + 1
       /\ out' = held \o Message("A", notes + 1) \o Message("Z", no)
    \/ /\ out' = held \o Message("Z", no)
       /\ UNCHANGED notes

AnswerQuery(no) ==
    \E verdict \in {"C", "E"} :
        \/ /\ notes < MaxNotes
           /\ notes' = notes + 1
           /\ out' = held \o Message(verdict, no) \o Message("A", notes + 1)
                          \o Message("Z", no)
        \/ /\ out' = held \o Message(verdict, no) \o Message("Z", no)
           /\ UNCHANGED notes

Answer(u) ==
    \/ /\ u.type = "0"
       /\ out' = Message("R", u.no) \o Message("Z", u.no)
       /\ mode' = "quiet" /\ held' = <<>> /\ UNCHANGED notes
    \/ /\ u.type = "Q" /\ mode # "skip"
       /\ AnswerQuery(u.no)
       /\ mode' = "idle" /\ held' = <<>>
    \/ /\ u.type = "P" /\ mode # "skip"
       /\ \/ /\ held' = held \o Message("1", u.no)
             /\ out' = <<>> /\ mode' = "ext"
          \/ /\ out' = held \o Message("E", u.no)
             /\ held' = <<>> /\ mode' = "skip"
       /\ UNCHANGED notes
    \/ /\ u.type = "H" /\ mode # "skip"
       /\ out' = held /\ held' = <<>> /\ UNCHANGED <<mode, notes>>
    \/ /\ u.type = "S"
       /\ AnswerSync(u.no)
       /\ mode' = "idle" /\ held' = <<>>
    \/ (* After an error it discards every message up to the next Sync. *)
       /\ u.type \in {"Q", "P", "H"} /\ mode = "skip"
       /\ UNCHANGED <<out, held, mode, notes>>

(* It takes one unit off its ring, once its own output is written. *)
GuestTake ==
    /\ guest = "up" /\ out = <<>>
    /\ toGuest # <<>>
    /\ toGuest' = Tail(toGuest)
    /\ LET u == Head(toGuest) IN
       \/ /\ u.type = "Q" /\ u.part = 1 /\ partial = 0
          /\ partial' = u.no
          /\ UNCHANGED <<guest, mode, held, out, notes>>
       \/ /\ IF u.type = "Q" THEN u.part = 2 /\ partial = u.no
                             ELSE u.type # "X" /\ partial = 0
          /\ Answer(u)
          /\ partial' = 0 /\ UNCHANGED guest
       \/ /\ u.type = "X" /\ partial = 0
          /\ Gone
       \/ (* Another message in the middle of one: it reads on for ever or  *)
          (* gives the session up.                                          *)
          /\ partial # 0 /\ ~ (u.type = "Q" /\ u.part = 2 /\ u.no = partial)
          /\ \/ Gone
             \/ guest' = "stuck" /\ UNCHANGED <<mode, partial, held, out, notes>>
    /\ UNCHANGED <<wire, client, life, calls, fresh, overlapped>>

(* It writes one unit: a read sees any prefix of what it has to say. *)
GuestEmit ==
    /\ guest = "up" /\ out # <<>>
    /\ Len(wire) < OutRing
    /\ wire' = Append(wire, Head(out))
    /\ out' = Tail(out)
    /\ UNCHANGED <<toGuest, client, life, calls, guest, mode, partial, held, notes,
                   fresh, overlapped>>

(* Another session notifies: sent at once only outside a transaction. *)
GuestNotify ==
    /\ guest = "up" /\ out = <<>> /\ mode = "idle" /\ partial = 0
    /\ notes < MaxNotes
    /\ notes' = notes + 1
    /\ out' = Message("A", notes + 1)
    /\ UNCHANGED <<toGuest, wire, client, life, calls, guest, mode, partial, held,
                   fresh, overlapped>>

(* The backend dies between two messages or in the middle of a reply. *)
GuestExit ==
    /\ guest = "up"
    /\ Gone
    /\ UNCHANGED <<toGuest, wire, client, life, calls, fresh, overlapped>>

(* Its thread traps: runThread posts an error, and nobody closes its ring.  *)
GuestTraps ==
    /\ guest = "up"
    /\ guest' = "stuck"
    /\ UNCHANGED <<toGuest, wire, client, life, calls, mode, partial, held, out, notes,
                   fresh, overlapped>>

----------------------------------------------------------------------------
ExchangeStep(c) == Send(c) \/ FirstScan(c) \/ Read(c) \/ ReadEof(c)
CloseStep == SendTerminate \/ CloseRead \/ CloseEof
GuestStep == GuestTake \/ GuestEmit

Next ==
    \/ \E kind \in {"Q", "P"} : CallQuery(kind)
    \/ NextMessage
    \/ CallRawStream
    \/ \E c \in Callers : ExchangeStep(c)
    \/ StartPump \/ PumpReturn \/ PumpRead
    \/ StartClose \/ CloseStep
    \/ GuestStep \/ GuestNotify \/ GuestExit \/ GuestTraps

Spec == Init /\ [][Next]_vars

(* The agent's event loop runs every continuation that can run, and a live  *)
(* backend goes on reading and writing.  Nobody has to call anything.       *)
FairSpec ==
    /\ Spec
    /\ \A c \in Callers : WF_vars(ExchangeStep(c))
    /\ WF_vars(CloseStep) /\ WF_vars(GuestStep)

----------------------------------------------------------------------------
(* Properties.                                                             *)

(* What the backend answers to one message, its notifications aside. *)
Replies(kind, no) ==
    CASE kind = "0" -> {Message("R", no) \o Message("Z", no)}
      [] kind = "Q" -> {Message(v, no) \o Message("Z", no) : v \in {"C", "E"}}
      [] kind = "P" -> {Message("1", no), Message("E", no)}
      [] kind = "S" -> {Message("Z", no)}

Substance == [type : {"R", "Z", "C", "E", "1"}, no : Nat, part : {1, 2}]

(* Each exchange that returned, returned the reply to its own message:      *)
(* whole, once, with nothing of another exchange's reply, and only whole    *)
(* notifications besides - however the ring cut it, with the pump running,  *)
(* after errors, and with the backend dying (#exchange, #scanForReply).  On *)
(* a session that its backend closed, a call that no longer asks whether it *)
(* is closed (the Sync of a query, execProtocolRawStream) may be given what *)
(* is left of one earlier exchange, which failed; and nothing else.  A call *)
(* of close() that overlaps an exchange takes its bytes: nothing is claimed.*)
OwnReplies ==
    closer = "idle" =>
        \A c \in Callers :
            LET reply == ex[c].reply
                said  == Only(reply, Substance)
            IN  reply # <<>> =>
                /\ \/ said \in Replies(ex[c].kind, ex[c].no)
                   \/ closed /\ \E n \in 1 .. ex[c].no - 1 :
                                   \A u \in SetOf(said) : u.no = n
                /\ \A i \in 1 .. Len(reply) :
                       reply[i].type = "A" /\ reply[i].part = 1 =>
                           /\ i < Len(reply)
                           /\ reply[i + 1] = [reply[i] EXCEPT !.part = 2]

(* OwnReplies as long as calls take turns: no exchange began during the     *)
(* call of the other caller.                                                *)
ReplyIntegrity == ~ overlapped => OwnReplies

(* OwnReplies also when execProtocolRawStream begins during a query: "it    *)
(* falls back to the asynchronous path, which is correct for every caller   *)
(* that awaits it".  The code does not keep it: the two exchanges share     *)
(* one buffer and one flag.                                                 *)
FallbackIsCorrect == OwnReplies

Coming == buffered \o wire \o out

(* Between exchanges that took turns nothing of a reply is left on its way  *)
(* to the client: whatever is still to come is notifications, so the next   *)
(* reply starts where the client will look for it (#frontendTypeOf,         *)
(* endsReplyTo).                                                            *)
NothingLeftOver ==
    (~ overlapped /\ closer = "idle" /\ ~ closed /\ \A c \in Callers : ~ Busy(c)) =>
        /\ held = <<>>
        /\ \A i \in 1 .. Len(Coming) : Coming[i].type = "A"

(* Listeners are handed notifications in the order the backend sent them,   *)
(* none twice, although replies and the pump deliver by different routes    *)
(* (#settle, #drainNotifications); and none of a live backend is lost on    *)
(* the way: it was handed on, or came in a reply that does not hand it on   *)
(* (a raw one, or behind an error), or is still in the buffer, the ring or  *)
(* the backend.  Two readers that wait at once share #scratch (two          *)
(* overlapping exchanges, or an exchange and close()), and one may find the *)
(* other's bytes in it: nothing is claimed of them.                         *)
NotesInOrder ==
    LET all == delivered \o NotesOf(Coming)
    IN  \A i, j \in 1 .. Len(all) : i < j => all[i] < all[j]

NotesKept ==
    guest = "up" =>
        1 .. notes = SetOf(delivered) \cup handed \cup
            {n \in 1 .. notes : \E i \in 1 .. Len(Coming) - 1 :
                SubSeq(Coming, i, i + 1) = Message("A", n)}

NotesOnceAndInOrder ==
    (~ overlapped /\ closer = "idle") => NotesInOrder /\ NotesKept

(* The two ways a message cannot be sent: the ring is full and the backend  *)
(* is gone, or the backend in turn waits for room in its own ring, which    *)
(* nobody reads while an exchange is sending - not even close(), when a     *)
(* blocking exchange holds the agent.                                       *)
Stranded(sending) ==
    /\ sending
    /\ Len(toGuest) = InRing
    /\ \/ guest # "up"
       \/ /\ out # <<>> /\ Len(wire) = OutRing
          /\ closer = "reading" => ~ AgentFree

(* Nobody is left waiting: of the exchanges none but stranded ones, and of  *)
(* close() none but one that is stranded or that waits for an agent which a *)
(* blocking exchange holds.  Nothing is claimed of exchanges once two have  *)
(* overlapped: one may then read the other's reply and leave it waiting, or *)
(* block the agent between a failed Parse and its Sync.                     *)
NobodyWaits ==
    /\ \A c \in Callers :
           Busy(c) => overlapped \/ Stranded(ex[c].phase = "sending")
    /\ closer \in {"sending", "reading"} =>
           \/ Stranded(closer = "sending")
           \/ \E c \in Callers :
                  ex[c].sync /\ (overlapped \/ Stranded(ex[c].phase = "sending"))

(* Exchanges that take turns come to an end, and so do calls of close(),    *)
(* also after an overlap: a reply, an error when the backend is gone, or    *)
(* its end of file.  Except for what NobodyWaits names, and with a backend  *)
(* that is stuck: it trapped, or close() cut a message in two.              *)
SessionEnds == []<>(NobodyWaits \/ guest = "stuck")
=============================================================================
