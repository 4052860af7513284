------------------------------ MODULE SabPipe ------------------------------
(***************************************************************************)
(* src/vendor/pgrust/sab-pipe.js: the single-producer, single-consumer     *)
(* byte ring over a SharedArrayBuffer that carries every wire session.     *)
(*                                                                         *)
(* Each load, store or add on the shared header is a step of its own, in   *)
(* the order the code performs them, and the two agents interleave freely. *)
(* The header words are int32 and wrap modulo Span (2^32 in the program);  *)
(* they are kept as residues 0 .. Span-1.  The i-th byte of the producer's *)
(* stream is the number i, so a lost, repeated or reordered byte shows.    *)
(***************************************************************************)
EXTENDS Integers

CONSTANTS Capacity,    \* bytes in the ring, a power of two
          Span,        \* number of values of an int32 header word
          MaxIO,       \* largest count one write or read call is given
          MaxBytes     \* bound: bytes written in a behaviour

\* 2^32 is a multiple of every power of two below it, and a ring is far
\* smaller than half of it.
ASSUME PipeAssumption ==
  /\ Capacity \in Nat \ {0}
  /\ Span \in Nat \ {0}
  /\ \E k \in 1 .. Span : Span = 2 * (k * Capacity)
  /\ Span > 2 * Capacity + 2
  /\ MaxIO \in Nat \ {0}
  /\ MaxBytes \in Nat

VARIABLES READ, WRITE, CLOSED, SEQ, buf,      \* the shared buffer
          wpc, wmode, wseq, wleft, wn,        \* the producer's call
          rpc, rmode, rseq, rwant, rn,        \* the consumer's call
          sent, taken, out                    \* history: the byte stream

shared == <<READ, WRITE, CLOSED, SEQ, buf>>
writer == <<wpc, wmode, wseq, wleft, wn>>
reader == <<rpc, rmode, rseq, rwant, rn>>
vars == <<shared, writer, reader, sent, taken, out>>

Half == Span \div 2

\* Atomics.add on an int32 word.
Plus(word, n) == IF word + n >= Span THEN word + n - Span ELSE word + n

\* (w - r) | 0
ToInt32(d) == IF d >= Half THEN d - Span ELSE IF d < -Half THEN d + Span ELSE d

Available == ToInt32(WRITE - READ)

\* Mutant: one byte too many is let in.
RoomOffByOne == Capacity + 1 - Available

Room == Capacity - Available

\* word & mask
Slot(word) == word % Capacity

\* A copy fills the ring to its end and goes on from slot 0: the slot of its
\* i-th byte, and which byte of it a slot holds.
SlotAt(start, i) == IF start + i < Capacity THEN start + i ELSE start + i - Capacity
Offset(s, start) == IF s >= start THEN s - start ELSE s - start + Capacity

Smaller(a, b) == IF a <= b THEN a ELSE b

Init ==
  /\ READ = 0 /\ WRITE = 0 /\ CLOSED = FALSE /\ SEQ = 0
  /\ buf = [s \in 0 .. Capacity - 1 |-> 0]
  /\ wpc = "idle" /\ wmode = "block" /\ wseq = 0 /\ wleft = 0 /\ wn = 0
  /\ rpc = "idle" /\ rmode = "block" /\ rseq = 0 /\ rwant = 0 /\ rn = 0
  /\ sent = 0 /\ taken = 0 /\ out = [i \in 1 .. 0 |-> 0]

-----------------------------------------------------------------------------
\* A call's locals are 0 again once the call no longer reads them.
(***************************************************************************)
(* The producer.  write(bytes) blocks on a full ring ("block"), or with    *)
(* block: false returns what it could enqueue ("now"), and the caller goes *)
(* on later with the rest; waitWritable(timeout) is "poll".                *)
(***************************************************************************)

StartWrite(mode, n) ==
  /\ wpc = "idle"
  /\ sent + n <= MaxBytes
  /\ wpc' = "seq"
  /\ wmode' = mode
  /\ wleft' = n
  /\ UNCHANGED <<shared, reader, wseq, wn, sent, taken, out>>

WriterLoadSeq ==
  /\ wpc = "seq"
  /\ wseq' = SEQ
  /\ wpc' = "room"
  /\ UNCHANGED <<shared, reader, wmode, wleft, wn, sent, taken, out>>

\* Atomics.load of READ; WRITE is the producer's own word.
WriterTestRoom ==
  /\ wpc = "room"
  /\ \/ /\ Room > 0
        /\ wmode # "poll"
        /\ wn' = Smaller(Room, wleft)
        /\ wpc' = "copy"
        /\ wseq' = 0
        /\ UNCHANGED wleft
     \/ /\ \/ Room > 0 /\ wmode = "poll"       \* writable
           \/ Room = 0 /\ wmode = "now"        \* short write
        /\ wpc' = "idle"
        /\ wleft' = 0
        /\ wseq' = 0
        /\ UNCHANGED wn
     \/ /\ Room = 0
        /\ wmode # "now"
        /\ wpc' = "wait"
        /\ UNCHANGED <<wseq, wleft, wn>>
  /\ UNCHANGED <<shared, reader, wmode, sent, taken, out>>

\* Atomics.wait(hdr, H_SEQ, seq): sleeps only if SEQ still has that value.
WriterWait ==
  /\ wpc = "wait"
  /\ wpc' = IF SEQ = wseq THEN "parked" ELSE "seq"
  /\ UNCHANGED <<shared, reader, wmode, wseq, wleft, wn, sent, taken, out>>

\* waitWritable's deadline, before it waits or while it does.
WriterTimeout ==
  /\ wmode = "poll"
  /\ \/ wpc = "wait" /\ wpc' = "idle" /\ wleft' = 0
     \/ wpc = "parked" /\ wpc' = "seq" /\ UNCHANGED wleft
  /\ UNCHANGED <<shared, reader, wmode, wseq, wn, sent, taken, out>>

\* Mutant: the part past the ring's end is taken from the start of the chunk.
WriterCopyRestarts ==
  /\ wpc = "copy"
  /\ buf' = [s \in 0 .. Capacity - 1 |->
               IF Offset(s, Slot(WRITE)) < wn
               THEN IF s < Slot(WRITE) THEN sent + 1 + s
                    ELSE sent + 1 + Offset(s, Slot(WRITE))
               ELSE buf[s]]
  /\ wpc' = "publish"
  /\ UNCHANGED <<READ, WRITE, CLOSED, SEQ, reader, wmode, wseq, wleft, wn,
                 sent, taken, out>>

WriterCopy ==
  /\ wpc = "copy"
  /\ buf' = [s \in 0 .. Capacity - 1 |->
               IF Offset(s, Slot(WRITE)) < wn
               THEN sent + 1 + Offset(s, Slot(WRITE)) ELSE buf[s]]
  /\ wpc' = "publish"
  /\ UNCHANGED <<READ, WRITE, CLOSED, SEQ, reader, wmode, wseq, wleft, wn,
                 sent, taken, out>>

WriterPublish ==
  /\ wpc = "publish"
  /\ WRITE' = Plus(WRITE, wn)
  /\ sent' = sent + wn
  /\ wleft' = wleft - wn
  /\ wn' = 0
  /\ wpc' = "bump"
  /\ UNCHANGED <<READ, CLOSED, SEQ, buf, reader, wmode, wseq, taken, out>>

Close ==
  /\ wpc = "idle"
  /\ CLOSED' = TRUE
  /\ wpc' = "bump"
  /\ UNCHANGED <<READ, WRITE, SEQ, buf, reader, wmode, wseq, wleft, wn,
                 sent, taken, out>>

\* Mutant: SEQ is not moved, so a waiter about to sleep does.
WriterBumpSkipped ==
  /\ wpc = "bump"
  /\ wpc' = "notify"
  /\ UNCHANGED <<shared, reader, wmode, wseq, wleft, wn, sent, taken, out>>

\* _bump: add to SEQ, then notify whoever sleeps on it.
WriterBump ==
  /\ wpc = "bump"
  /\ SEQ' = Plus(SEQ, 1)
  /\ wpc' = "notify"
  /\ UNCHANGED <<READ, WRITE, CLOSED, buf, reader, wmode, wseq, wleft, wn,
                 sent, taken, out>>

\* Mutant: a sleeping consumer is notified of the close only.
WriterNotifyOnClose ==
  /\ wpc = "notify"
  /\ rpc' = IF rpc = "parked" /\ CLOSED THEN "seq" ELSE rpc
  /\ wpc' = IF CLOSED THEN "closed" ELSE IF wleft > 0 THEN "seq" ELSE "idle"
  /\ UNCHANGED <<shared, wmode, wseq, wleft, wn, rmode, rseq, rwant, rn,
                 sent, taken, out>>

WriterNotify ==
  /\ wpc = "notify"
  /\ rpc' = IF rpc = "parked" THEN "seq" ELSE rpc
  /\ wpc' = IF CLOSED THEN "closed" ELSE IF wleft > 0 THEN "seq" ELSE "idle"
  /\ UNCHANGED <<shared, wmode, wseq, wleft, wn, rmode, rseq, rwant, rn,
                 sent, taken, out>>

-----------------------------------------------------------------------------
(***************************************************************************)
(* The consumer.  readInto blocks ("block"), readIntoNow never waits       *)
(* ("now"), readAsync waits at most one heartbeat at a time and re-tests   *)
(* ("async"), waitReadable(timeout) is "poll".                             *)
(***************************************************************************)

StartRead(mode, n) ==
  /\ \/ rpc = "idle"
     \/ rpc = "ready" /\ mode # "poll"   \* a poll that said ready is read
  /\ rpc' = IF mode = "now" THEN "avail" ELSE "seq"
  /\ rmode' = mode
  /\ rwant' = n
  /\ UNCHANGED <<shared, writer, rseq, rn, sent, taken, out>>

ReaderLoadSeq ==
  /\ rpc = "seq"
  /\ rseq' = SEQ
  /\ rpc' = "avail"
  /\ UNCHANGED <<shared, writer, rmode, rwant, rn, sent, taken, out>>

\* Atomics.load of WRITE; READ is the consumer's own word.
ReaderTestAvailable ==
  /\ rpc = "avail"
  /\ \/ /\ Available > 0
        /\ rmode # "poll"
        /\ rn' = Smaller(rwant, Available)
        /\ rwant' = 0
        /\ rseq' = 0
        /\ rpc' = "copy"
     \/ /\ Available > 0
        /\ rmode = "poll"
        /\ rpc' = "ready"
        /\ rwant' = 0
        /\ rseq' = 0
        /\ UNCHANGED rn
     \/ /\ Available <= 0
        /\ rpc' = "closed"
        /\ UNCHANGED <<rn, rwant, rseq>>
  /\ UNCHANGED <<shared, writer, rmode, sent, taken, out>>

\* Atomics.load of CLOSED, after the ring was found empty.
ReaderTestClosed ==
  /\ rpc = "closed"
  /\ rpc' = IF CLOSED
            THEN IF rmode = "poll" THEN "ready" ELSE "eof"
            ELSE IF rmode = "now" THEN "idle" ELSE "wait"
  /\ UNCHANGED <<shared, writer, rmode, rseq, rwant, rn, sent, taken, out>>

ReaderWait ==
  /\ rpc = "wait"
  /\ rpc' = IF SEQ = rseq THEN "parked" ELSE "seq"
  /\ UNCHANGED <<shared, writer, rmode, rseq, rwant, rn, sent, taken, out>>

\* readAsync's heartbeat, and waitReadable's deadline.
ReaderTimeout ==
  /\ \/ rmode = "poll" /\ rpc = "wait" /\ rpc' = "idle"
     \/ rmode \in {"poll", "async"} /\ rpc = "parked" /\ rpc' = "seq"
  /\ UNCHANGED <<shared, writer, rmode, rseq, rwant, rn, sent, taken, out>>

\* _drain copies the bytes out before it gives their room back.
ReaderCopy ==
  /\ rpc = "copy"
  /\ taken' = taken + rn
  /\ out' = [i \in 1 .. taken + rn |->
               IF i <= taken THEN out[i] ELSE buf[SlotAt(Slot(READ), i - taken - 1)]]
  /\ rpc' = "publish"
  /\ UNCHANGED <<shared, writer, rmode, rseq, rwant, rn, sent>>

ReaderPublish ==
  /\ rpc = "publish"
  /\ READ' = Plus(READ, rn)
  /\ rn' = 0
  /\ rpc' = "bump"
  /\ UNCHANGED <<WRITE, CLOSED, SEQ, buf, writer, rmode, rseq, rwant,
                 sent, taken, out>>

ReaderBump ==
  /\ rpc = "bump"
  /\ SEQ' = Plus(SEQ, 1)
  /\ rpc' = "notify"
  /\ UNCHANGED <<READ, WRITE, CLOSED, buf, writer, rmode, rseq, rwant, rn,
                 sent, taken, out>>

ReaderNotify ==
  /\ rpc = "notify"
  /\ wpc' = IF wpc = "parked" THEN "seq" ELSE wpc
  /\ rpc' = "idle"
  /\ UNCHANGED <<shared, wmode, wseq, wleft, wn, rmode, rseq, rwant, rn,
                 sent, taken, out>>

-----------------------------------------------------------------------------
WriterStep ==
  \/ WriterLoadSeq \/ WriterTestRoom \/ WriterWait
  \/ WriterCopy \/ WriterPublish \/ WriterBump \/ WriterNotify

ReaderStep ==
  \/ ReaderLoadSeq \/ ReaderTestAvailable \/ ReaderTestClosed \/ ReaderWait
  \/ ReaderCopy \/ ReaderPublish \/ ReaderBump \/ ReaderNotify

ReaderCall == \E mode \in {"block", "now", "async", "poll"}, n \in 1 .. MaxIO :
                StartRead(mode, n)

Next ==
  \/ \E mode \in {"block", "now", "poll"}, n \in 1 .. MaxIO : StartWrite(mode, n)
  \/ Close
  \/ WriterTimeout
  \/ WriterStep
  \/ ReaderCall
  \/ ReaderTimeout
  \/ ReaderStep

Spec == Init /\ [][Next]_vars

(***************************************************************************)
(* An agent inside a call keeps running, and the consumer comes back for   *)
(* more: the guest's command loop and the client's exchange loop both do.  *)
(* Nothing is assumed of the producer's calls or of any timer.             *)
(***************************************************************************)
FairSpec ==
  /\ Spec
  /\ WF_vars(WriterStep)
  /\ WF_vars(ReaderStep)
  /\ WF_vars(ReaderCall)

-----------------------------------------------------------------------------
Int32 == 0 .. Span - 1

\* Every variable keeps its type: a header word is 32 bits, wherever it wraps.
TypeOK ==
  /\ READ \in Int32 /\ WRITE \in Int32 /\ SEQ \in Int32
  /\ CLOSED \in BOOLEAN
  /\ buf \in [0 .. Capacity - 1 -> Nat]
  /\ wpc \in {"idle", "seq", "room", "wait", "parked", "copy", "publish",
              "bump", "notify", "closed"}
  /\ wmode \in {"block", "now", "poll"}
  /\ wseq \in Int32 /\ wleft \in Nat /\ wn \in Nat
  /\ rpc \in {"idle", "seq", "avail", "closed", "wait", "parked", "ready",
              "copy", "publish", "bump", "notify", "eof"}
  /\ rmode \in {"block", "now", "async", "poll"}
  /\ rseq \in Int32 /\ rwant \in Nat /\ rn \in Nat
  /\ sent \in Nat /\ taken \in Nat
  /\ out \in [1 .. taken -> Nat]

(***************************************************************************)
(* The bytes a consumer is given are the producer's, in order, each once,  *)
(* and none that was not published: across every wrap of the ring and of   *)
(* the header words, whatever the two agents are in the middle of.         *)
(***************************************************************************)
Fifo ==
  /\ taken <= sent
  /\ \A i \in 1 .. taken : out[i] = i

\* The ring is never asked to hold more than it can, nor less than nothing:
\* the signed difference of the wrapped words is exact.
Exact ==
  /\ Available \in 0 .. Capacity
  /\ Available = sent - (IF rpc = "publish" THEN taken - rn ELSE taken)

(***************************************************************************)
(* buf.set and subarray are plain, unordered memory accesses: the slots a  *)
(* producer is filling and those a consumer is copying never overlap.      *)
(***************************************************************************)
WritingSlots == {SlotAt(Slot(WRITE), i) : i \in 0 .. wn - 1}
ReadingSlots == {SlotAt(Slot(READ), i) : i \in 0 .. rn - 1}

NoDataRace ==
  wpc \in {"copy", "publish"} /\ rpc \in {"copy", "publish"}
    => WritingSlots \cap ReadingSlots = {}

(***************************************************************************)
(* Nobody sleeps through its own wakeup: an agent asleep in Atomics.wait   *)
(* while what it waits for is already there has its notify still to come.  *)
(***************************************************************************)
NoLostWakeup ==
  /\ rpc = "parked" /\ (Available > 0 \/ CLOSED) => wpc \in {"bump", "notify"}
  /\ wpc = "parked" /\ Room > 0 => rpc \in {"bump", "notify"}

(***************************************************************************)
(* "returns 0 only at EOF (producer closed and drained)" (readInto).       *)
(***************************************************************************)
EofOnlyWhenDrained == rpc = "eof" => CLOSED /\ taken = sent

(***************************************************************************)
(* Nothing stays in a pipe: its consumer comes to have every byte that was *)
(* published, or was told of end of file, as it always is in the end once  *)
(* the pipe is closed.  No heartbeat is needed for it ("a heartbeat, not a *)
(* correctness bound").                                                    *)
(***************************************************************************)
PipeDrains == []<>(rpc = "eof" \/ (taken = sent /\ ~CLOSED))

Channel == INSTANCE ByteChannel WITH closed <- CLOSED, eof <- (rpc = "eof")

ChannelSpec == Channel!Spec
=============================================================================
