--------------------------- MODULE SabPipeProofs ---------------------------
(***************************************************************************)
(* Theorems about SabPipe, for every ring size, every word width that is   *)
(* enough for it, and any number of bytes.                                 *)
(***************************************************************************)
EXTENDS SabPipe, TLAPS

-----------------------------------------------------------------------------
(***************************************************************************)
(* The inductive invariant.  First the ring and the calls in progress.     *)
(***************************************************************************)

\* The next slot to write is Available slots past the next one to read.
SlotsAligned == Slot(WRITE) = SlotAt(Slot(READ), Available)

\* The readable slots hold the stream's bytes that are still to be read.
Readable ==
  \A s \in 0 .. Capacity - 1 :
    Offset(s, Slot(READ)) < Available
      => buf[s] = sent - Available + 1 + Offset(s, Slot(READ))

\* A chunk fits the room it was measured for, and is in place once copied.
WriterChunk ==
  /\ wpc \in {"copy", "publish"} => wn \in 1 .. wleft /\ wn <= Room
  /\ wpc = "publish" =>
       \A s \in 0 .. Capacity - 1 :
         Offset(s, Slot(WRITE)) < wn
           => buf[s] = sent + 1 + Offset(s, Slot(WRITE))

ReaderChunk == rpc \in {"copy", "publish"} => rn \in 1 .. Available

\* A write and a read are of at least one byte.
Counts == /\ wpc \in {"seq", "room", "wait", "parked"} => wleft > 0
          /\ rpc \in {"seq", "avail", "closed", "wait", "parked"} => rwant > 0

\* Nothing is written after the close.
ClosedLast == CLOSED => wpc \in {"bump", "notify", "closed"}

RingInv == TypeOK /\ Exact /\ SlotsAligned /\ Readable
             /\ WriterChunk /\ ReaderChunk /\ Counts /\ Fifo /\ ClosedLast

(***************************************************************************)
(* Then the futex word.  Since(seen) bumps happened after the load that    *)
(* returned seen; while one agent is between that load and its wait, the   *)
(* other runs out of room (or of bytes) long before SEQ comes round.       *)
(***************************************************************************)
Since(seen) == IF SEQ >= seen THEN SEQ - seen ELSE SEQ - seen + Span

Bit(b) == IF b THEN 1 ELSE 0

ReaderWindow ==
  /\ rmode # "now" /\ rpc \in {"avail", "closed", "wait", "parked"}
       => Since(rseq) <= Available + 1 + Bit(CLOSED) - Bit(wpc = "bump")
  /\ rmode = "now" => rpc \notin {"seq", "wait", "parked"}
  /\ rmode # "now" /\ rpc \in {"closed", "wait"} /\ Since(rseq) = 0 /\ Available > 0
       => wpc = "bump"
  /\ rpc = "wait" /\ Since(rseq) = 0 /\ CLOSED => wpc = "bump"
  /\ rpc = "parked" =>
       \/ wpc = "notify"
       \/ Since(rseq) = 0 /\ (Available > 0 \/ CLOSED => wpc = "bump")

WriterWindow ==
  /\ wpc \in {"room", "wait", "parked"}
       => Since(wseq) <= Room + 1 - Bit(rpc = "bump")
  /\ wpc = "wait" /\ Since(wseq) = 0 /\ Room > 0 => rpc = "bump"
  /\ wpc = "parked" =>
       \/ rpc = "notify"
       \/ Since(wseq) = 0 /\ (Room > 0 => rpc = "bump")

PipeInv == RingInv /\ ReaderWindow /\ WriterWindow

-----------------------------------------------------------------------------
\* What \div and % return, from which the rest of the arithmetic follows.
LEMMA DivMod ==
  ASSUME NEW a \in Nat, NEW m \in Nat \ {0}
  PROVE  /\ a \div m \in Nat
         /\ a % m \in 0 .. m - 1
         /\ a = m * (a \div m) + (a % m)
BY SMT

\* A remainder is the only one: it fixes the slot a header word stands for.
LEMMA ModUnique ==
  ASSUME NEW m \in Nat \ {0}, NEW q \in Nat, NEW r \in 0 .. m - 1, NEW a \in Nat, a = m * q + r
  PROVE  a % m = r
<1>1. a = m * (a \div m) + (a % m) /\ a \div m \in Nat /\ a % m \in 0 .. m - 1
  BY DivMod
<1>2. a \div m = q
  <2>1. CASE a \div m < q
    <3>1. m * (a \div m) + m <= m * q
      BY <1>1, <2>1, SMT
    <3>2. QED BY <1>1, <3>1
  <2>2. CASE a \div m > q
    <3>1. m * q + m <= m * (a \div m)
      BY <1>1, <2>2, SMT
    <3>2. QED BY <1>1, <3>1
  <2>3. QED BY <1>1, <2>1, <2>2
<1>3. QED BY <1>1, <1>2

\* word & mask moves along the ring as the word moves, its wrap included.
LEMMA SlotStep ==
  ASSUME NEW c \in Int32, NEW n \in 0 .. Capacity
  PROVE  Slot(Plus(c, n)) = SlotAt(Slot(c), n)
<1> DEFINE q == c \div Capacity
           r == c % Capacity
<1>1. PICK k \in 1 .. Span : Span = 2 * (k * Capacity)
  BY PipeAssumption
<1>2. /\ Capacity \in Nat \ {0} /\ Span \in Nat /\ Span > 2 * Capacity
      /\ c \in Nat /\ c < Span
  BY PipeAssumption DEF Int32
<1>3. q \in Nat /\ r \in 0 .. Capacity - 1 /\ c = Capacity * q + r
  BY <1>2, DivMod
<1> HIDE DEF q, r
<1>4. SlotAt(r, n) \in 0 .. Capacity - 1
  BY <1>2, <1>3 DEF SlotAt
<1>5. PICK t \in Nat : c + n = Capacity * t + SlotAt(r, n)
  <2>1. CASE r + n < Capacity
    <3>1. c + n = Capacity * q + SlotAt(r, n)
      BY <2>1, <1>2, <1>3 DEF SlotAt
    <3>2. QED BY <3>1, <1>3
  <2>2. CASE ~(r + n < Capacity)
    <3>1. Capacity * (q + 1) = Capacity * q + Capacity
      BY <1>2, <1>3, SMT
    <3>2. c + n = Capacity * (q + 1) + SlotAt(r, n)
      BY <2>2, <1>2, <1>3, <3>1 DEF SlotAt
    <3>3. QED BY <3>2, <1>3
  <2>3. QED BY <2>1, <2>2
<1>6. CASE c + n < Span
  <2> DEFINE a == c + n
             z == SlotAt(r, n)
  <2>1. t \in Nat /\ a \in Nat /\ a = Capacity * t + z /\ z \in 0 .. Capacity - 1
    BY <1>2, <1>4, <1>5
  <2> HIDE DEF a, z
  <2>2. a % Capacity = z
    BY <2>1, <1>2, ModUnique
  <2>3. Plus(c, n) = a
    BY <1>6, <1>2 DEF Plus, a
  <2>4. QED BY <2>2, <2>3 DEF Slot, r, z
<1>7. CASE c + n >= Span
  <2> DEFINE p == t - 2 * k
  <2>1. Capacity * p = Capacity * t - Span
    <3>1. Capacity * p = Capacity * t - Capacity * (2 * k)
      BY <1>2, <1>3, <1>5, <1>1, SMT
    <3>2. Capacity * (2 * k) = 2 * (k * Capacity)
      BY <1>2, <1>1, SMT
    <3>3. QED BY <3>1, <3>2, <1>1
  <2>2. c + n - Span = Capacity * p + SlotAt(r, n)
    BY <2>1, <1>2, <1>3, <1>4, <1>5
  <2>3. p \in Int
    BY <1>1, <1>3, <1>5
  <2> HIDE DEF p
  <2>4. p >= 0
    <3>1. CASE p <= -1
      <4>1. Capacity * p <= -Capacity
        BY <3>1, <2>3, <1>2, SMT
      <4>2. QED BY <4>1, <2>2, <2>3, <1>2, <1>4, <1>7
    <3>2. QED BY <3>1, <2>3
  <2>5. c + n - Span \in Nat
    BY <1>2, <1>7
  <2>6. (c + n - Span) % Capacity = SlotAt(r, n)
    BY <2>2, <2>3, <2>4, <2>5, <1>2, <1>4, ModUnique
  <2>7. Plus(c, n) = c + n - Span
    BY <1>7, <1>2 DEF Plus
  <2>8. QED BY <2>6, <2>7 DEF Slot, r
<1>8. QED BY <1>6, <1>7, <1>2

\* The sign bit splits the words' range in two, and a ring fits one half.
LEMMA HalfSpan == /\ Half \in Nat
                  /\ Half + Half = Span
                  /\ Half > Capacity
                  /\ Capacity \in Nat \ {0}
                  /\ Span \in Nat
BY PipeAssumption DEF Half

\* Adding n to WRITE adds n to the occupancy, whatever wraps.
LEMMA WriteMoves ==
  ASSUME NEW r \in Int32, NEW w \in Int32, NEW n \in Nat,
         ToInt32(w - r) \in 0 .. Capacity,
         n <= Capacity - ToInt32(w - r)
  PROVE  /\ Plus(w, n) \in Int32
         /\ ToInt32(Plus(w, n) - r) = ToInt32(w - r) + n
BY HalfSpan DEF Int32, ToInt32, Plus

\* Adding n to READ takes n from the occupancy, whatever wraps.
LEMMA ReadMoves ==
  ASSUME NEW r \in Int32, NEW w \in Int32, NEW n \in Nat,
         ToInt32(w - r) \in 0 .. Capacity,
         n <= ToInt32(w - r)
  PROVE  /\ Plus(r, n) \in Int32
         /\ ToInt32(w - Plus(r, n)) = ToInt32(w - r) - n
BY HalfSpan DEF Int32, ToInt32, Plus

\* word & mask is a slot of the ring.
LEMMA SlotInRing == ASSUME NEW c \in Int32 PROVE Slot(c) \in 0 .. Capacity - 1
<1>1. c \in Nat /\ Capacity \in Nat \ {0}
  BY HalfSpan DEF Int32
<1>2. QED BY <1>1, DivMod DEF Slot

\* A ring as create() makes it satisfies the invariant.
LEMMA InitRing == Init => RingInv
<1> SUFFICES ASSUME Init PROVE RingInv
  OBVIOUS
<1>1. TypeOK
  <2>1. out \in [1 .. taken -> Nat]
    BY Zenon DEF Init
  <2>2. 0 \in Int32
    BY HalfSpan DEF Int32
  <2>3. QED BY <2>1, <2>2, HalfSpan DEF Init, TypeOK
<1>2. Available = 0
  BY HalfSpan DEF Init, Available, ToInt32
<1>3. SlotsAligned
  BY <1>1, <1>2, HalfSpan, SlotInRing DEF Init, SlotsAligned, SlotAt, TypeOK
<1>4. Readable
  <2> SUFFICES ASSUME NEW s \in 0 .. Capacity - 1 PROVE ~(Offset(s, Slot(READ)) < 0)
    BY <1>2 DEF Readable
  <2>1. Slot(READ) \in 0 .. Capacity - 1
    BY <1>1, SlotInRing DEF TypeOK
  <2>2. QED BY <2>1, HalfSpan DEF Offset
<1>5. QED
  BY <1>1, <1>2, <1>3, <1>4, HalfSpan
     DEF Init, RingInv, Exact, WriterChunk, ReaderChunk, Counts, Fifo,
         ClosedLast

\* Every step of either agent keeps the ring, the calls and the history in order.
LEMMA RingStep == RingInv /\ [Next]_vars => RingInv'
<1> SUFFICES ASSUME RingInv, [Next]_vars PROVE RingInv'
  OBVIOUS
<1> USE DEF shared, writer, reader
<1>0. /\ Slot(READ) \in 0 .. Capacity - 1 /\ Slot(WRITE) \in 0 .. Capacity - 1
      /\ Available \in 0 .. Capacity /\ Capacity \in Nat \ {0}
  BY HalfSpan, SlotInRing DEF RingInv, TypeOK, Exact
<1>1. ASSUME NEW mode \in {"block", "now", "poll"}, NEW n \in 1 .. MaxIO,
             StartWrite(mode, n)
      PROVE  RingInv'
  BY <1>1, PipeAssumption
     DEF StartWrite, RingInv, TypeOK, Exact, SlotsAligned, Readable,
         WriterChunk, ReaderChunk, Counts, Fifo, ClosedLast, Available, Room
<1>2. ASSUME NEW mode \in {"block", "now", "async", "poll"}, NEW n \in 1 .. MaxIO,
             StartRead(mode, n)
      PROVE  RingInv'
  BY <1>2, PipeAssumption
     DEF StartRead, RingInv, TypeOK, Exact, SlotsAligned, Readable,
         WriterChunk, ReaderChunk, Counts, Fifo, ClosedLast, Available, Room
<1>3. CASE WriterLoadSeq
  BY <1>3
     DEF WriterLoadSeq, RingInv, TypeOK, Exact, SlotsAligned, Readable,
         WriterChunk, ReaderChunk, Counts, Fifo, ClosedLast, Available, Room
<1>4. CASE WriterWait
  BY <1>4
     DEF WriterWait, RingInv, TypeOK, Exact, SlotsAligned, Readable,
         WriterChunk, ReaderChunk, Counts, Fifo, ClosedLast, Available, Room
<1>5. CASE WriterBump
  BY <1>5, HalfSpan, PipeAssumption
     DEF WriterBump, RingInv, TypeOK, Exact, SlotsAligned, Readable,
         WriterChunk, ReaderChunk, Counts, Fifo, ClosedLast, Available, Room,
         Plus, Int32
<1>6. CASE WriterNotify
  BY <1>6
     DEF WriterNotify, RingInv, TypeOK, Exact, SlotsAligned, Readable,
         WriterChunk, ReaderChunk, Counts, Fifo, ClosedLast, Available, Room
<1>7. CASE Close
  BY <1>7
     DEF Close, RingInv, TypeOK, Exact, SlotsAligned, Readable, WriterChunk,
         ReaderChunk, Counts, Fifo, ClosedLast, Available, Room
<1>8. CASE ReaderLoadSeq
  BY <1>8
     DEF ReaderLoadSeq, RingInv, TypeOK, Exact, SlotsAligned, Readable,
         WriterChunk, ReaderChunk, Counts, Fifo, ClosedLast, Available, Room
<1>9. CASE ReaderTestAvailable
  <2>1. 0 \in Int32
    BY HalfSpan DEF Int32
  <2>2. CASE rpc' = "copy"
    <3>1. rn' \in 1 .. Available
      BY <1>9, <2>2, <1>0
         DEF ReaderTestAvailable, RingInv, TypeOK, Counts, Smaller
    <3>2. QED
      BY <1>9, <2>1, <2>2, <3>1
         DEF ReaderTestAvailable, RingInv, TypeOK, Exact, SlotsAligned,
             Readable, WriterChunk, ReaderChunk, Counts, Fifo, ClosedLast,
             Available, Room
  <2>3. CASE rpc' # "copy"
    BY <1>9, <2>1, <2>3
       DEF ReaderTestAvailable, RingInv, TypeOK, Exact, SlotsAligned, Readable,
           WriterChunk, ReaderChunk, Counts, Fifo, ClosedLast, Available, Room
  <2>4. QED BY <2>2, <2>3
<1>10. CASE ReaderTestClosed
  BY <1>10
     DEF ReaderTestClosed, RingInv, TypeOK, Exact, SlotsAligned, Readable,
         WriterChunk, ReaderChunk, Counts, Fifo, ClosedLast, Available, Room
<1>11. CASE ReaderWait
  BY <1>11
     DEF ReaderWait, RingInv, TypeOK, Exact, SlotsAligned, Readable,
         WriterChunk, ReaderChunk, Counts, Fifo, ClosedLast, Available, Room
<1>12. CASE ReaderBump
  BY <1>12, HalfSpan, PipeAssumption
     DEF ReaderBump, RingInv, TypeOK, Exact, SlotsAligned, Readable,
         WriterChunk, ReaderChunk, Counts, Fifo, ClosedLast, Available, Room,
         Plus, Int32
<1>13. CASE ReaderNotify
  BY <1>13
     DEF ReaderNotify, RingInv, TypeOK, Exact, SlotsAligned, Readable,
         WriterChunk, ReaderChunk, Counts, Fifo, ClosedLast, Available, Room
<1>14. CASE ReaderTimeout
  BY <1>14
     DEF ReaderTimeout, RingInv, TypeOK, Exact, SlotsAligned, Readable,
         WriterChunk, ReaderChunk, Counts, Fifo, ClosedLast, Available, Room
<1>15. CASE WriterTimeout
  <2>1. CASE wpc = "wait"
    BY <1>15, <2>1
       DEF WriterTimeout, RingInv, TypeOK, Exact, SlotsAligned, Readable,
           WriterChunk, ReaderChunk, Counts, Fifo, ClosedLast, Available, Room
  <2>2. CASE wpc = "parked"
    BY <1>15, <2>2
       DEF WriterTimeout, RingInv, TypeOK, Exact, SlotsAligned, Readable,
           WriterChunk, ReaderChunk, Counts, Fifo, ClosedLast, Available, Room
  <2>3. QED BY <1>15, <2>1, <2>2 DEF WriterTimeout
<1>16. CASE WriterTestRoom
  <2>1. CASE wpc' = "copy"
    <3>1. wn' \in 1 .. wleft /\ wn' <= Room /\ wleft' = wleft
      BY <1>16, <2>1, <1>0
         DEF WriterTestRoom, RingInv, TypeOK, Counts, Smaller, Room
    <3>2. 0 \in Int32
      BY HalfSpan DEF Int32
    <3>3. QED
      BY <1>16, <2>1, <3>1, <3>2
         DEF WriterTestRoom, RingInv, TypeOK, Exact, SlotsAligned, Readable,
             WriterChunk, ReaderChunk, Counts, Fifo, ClosedLast, Available,
             Room
  <2>2. CASE wpc' = "idle"
    <3>1. 0 \in Int32
      BY HalfSpan DEF Int32
    <3>2. QED BY <1>16, <2>2, <3>1
                 DEF WriterTestRoom, RingInv, TypeOK, Exact, SlotsAligned,
                     Readable, WriterChunk, ReaderChunk, Counts, Fifo,
                     ClosedLast, Available, Room
  <2>3. CASE wpc' = "wait"
    BY <1>16, <2>3
       DEF WriterTestRoom, RingInv, TypeOK, Exact, SlotsAligned, Readable,
           WriterChunk, ReaderChunk, Counts, Fifo, ClosedLast, Available, Room
  <2>4. QED BY <1>16, <2>1, <2>2, <2>3 DEF WriterTestRoom
<1>17. CASE WriterCopy
  <2>1. \A s \in 0 .. Capacity - 1 :
          Offset(s, Slot(READ)) < Available => ~(Offset(s, Slot(WRITE)) < wn)
    <3>1. wn \in Nat /\ wn + Available <= Capacity
      BY <1>17, <1>0 DEF WriterCopy, RingInv, TypeOK, WriterChunk, Room
    <3>2. Slot(WRITE) = SlotAt(Slot(READ), Available)
      BY DEF RingInv, SlotsAligned
    <3> HIDE DEF RingInv
    <3>3. QED BY <3>1, <3>2, <1>0 DEF SlotAt, Offset
  <2>2. \A s \in 0 .. Capacity - 1 : Offset(s, Slot(WRITE)) \in Nat
    BY <1>0 DEF Offset
  <2>3. Readable'
    BY <1>17, <2>1, <1>0 DEF WriterCopy, RingInv, Readable, Available
  <2>4. TypeOK'
    BY <1>17, <2>2 DEF WriterCopy, RingInv, TypeOK
  <2>5. WriterChunk'
    BY <1>17 DEF WriterCopy, RingInv, WriterChunk, Room, Available
  <2>6. QED
    BY <1>17, <2>3, <2>4, <2>5
       DEF WriterCopy, RingInv, Exact, SlotsAligned, ReaderChunk, Counts,
           Fifo, ClosedLast, Available
<1>18. CASE WriterPublish
  <2>1. wn \in Nat /\ wn >= 1 /\ wn <= wleft /\ Available + wn <= Capacity
    BY <1>18, <1>0 DEF WriterPublish, RingInv, TypeOK, WriterChunk, Room
  <2>2. WRITE' \in Int32 /\ Available' = Available + wn
    BY <1>18, <2>1, <1>0, WriteMoves
       DEF WriterPublish, RingInv, TypeOK, Available
  <2>3. Slot(WRITE') = SlotAt(Slot(WRITE), wn)
    BY <1>18, <2>1, <1>0, SlotStep DEF WriterPublish, RingInv, TypeOK
  <2>4. SlotsAligned'
    BY <1>18, <2>1, <2>2, <2>3, <1>0
       DEF WriterPublish, RingInv, SlotsAligned, SlotAt
  <2>5. Readable'
    <3> SUFFICES ASSUME NEW s \in 0 .. Capacity - 1, Offset(s, Slot(READ)) < Available + wn
                 PROVE  buf[s] = sent - Available + 1 + Offset(s, Slot(READ))
      BY <1>18, <2>1, <2>2, <1>0 DEF WriterPublish, Readable, RingInv, TypeOK
    <3>1. CASE Offset(s, Slot(READ)) < Available
      BY <3>1 DEF RingInv, Readable
    <3>2. CASE ~(Offset(s, Slot(READ)) < Available)
      <4>1. Offset(s, Slot(WRITE)) = Offset(s, Slot(READ)) - Available
        BY <3>2, <2>1, <1>0 DEF RingInv, SlotsAligned, SlotAt, Offset
      <4>2. Offset(s, Slot(WRITE)) < wn
        BY <4>1, <2>1, <1>0 DEF Offset
      <4>3. buf[s] = sent + 1 + Offset(s, Slot(WRITE))
        BY <1>18, <4>2 DEF WriterPublish, RingInv, WriterChunk
      <4>4. Offset(s, Slot(READ)) \in Nat
        BY <1>0 DEF Offset
      <4>5. QED BY <4>1, <4>3, <4>4, <1>0 DEF RingInv, TypeOK
    <3>3. QED BY <3>1, <3>2
  <2>6. TypeOK' /\ Exact'
    BY <1>18, <2>1, <2>2, <1>0 DEF WriterPublish, RingInv, TypeOK, Exact
  <2>7. ReaderChunk' /\ WriterChunk' /\ Counts' /\ Fifo' /\ ClosedLast'
    BY <1>18, <2>1, <2>2, <1>0
       DEF WriterPublish, RingInv, TypeOK, ReaderChunk, WriterChunk, Counts,
           Fifo, ClosedLast
  <2>8. QED BY <2>4, <2>5, <2>6, <2>7 DEF RingInv
<1>19. CASE ReaderCopy
  <2>1. rn \in 1 .. Available /\ Available = sent - taken
    BY <1>19 DEF ReaderCopy, RingInv, ReaderChunk, Exact
  <2>2. \A i \in 1 .. taken + rn : out'[i] = i
    <3> SUFFICES ASSUME NEW i \in 1 .. taken + rn PROVE out'[i] = i
      OBVIOUS
    <3>1. CASE i <= taken
      BY <1>19, <3>1 DEF ReaderCopy, RingInv, Fifo, TypeOK
    <3>2. CASE ~(i <= taken)
      <4> DEFINE k == i - taken - 1
                 s == SlotAt(Slot(READ), k)
      <4>1. k \in 0 .. Available - 1
        BY <3>2, <2>1, <1>0 DEF RingInv, TypeOK
      <4>2. out'[i] = buf[s]
        BY <1>19, <3>2 DEF ReaderCopy
      <4> HIDE DEF k
      <4>3. s \in 0 .. Capacity - 1 /\ Offset(s, Slot(READ)) = k
        BY <4>1, <1>0 DEF SlotAt, Offset
      <4> HIDE DEF s
      <4>4. buf[s] = sent - Available + 1 + k
        BY <4>1, <4>3, <1>0 DEF RingInv, Readable
      <4>5. QED BY <4>2, <4>4, <2>1, <1>0 DEF k, RingInv, TypeOK
    <3>3. QED BY <3>1, <3>2
  <2>3. taken' = taken + rn /\ taken' \in Nat /\ taken' <= sent
    BY <1>19, <2>1, <1>0 DEF ReaderCopy, RingInv, TypeOK
  <2>4. out' \in [1 .. taken' -> Nat]
    BY <1>19, <2>2, <2>3 DEF ReaderCopy
  <2>5. TypeOK'
    BY <1>19, <2>3, <2>4 DEF ReaderCopy, RingInv, TypeOK
  <2>6. Exact'
    BY <1>19, <2>1, <2>3, <1>0
       DEF ReaderCopy, RingInv, TypeOK, Exact, Available
  <2>7. QED
    BY <1>19, <2>2, <2>3, <2>5, <2>6
       DEF ReaderCopy, RingInv, SlotsAligned, Readable, WriterChunk,
           ReaderChunk, Counts, Fifo, ClosedLast, Available, Room
<1>20. CASE ReaderPublish
  <2>1. rn \in Nat /\ rn >= 1 /\ rn <= Available
    BY <1>20, <1>0 DEF ReaderPublish, RingInv, TypeOK, ReaderChunk
  <2>2. READ' \in Int32 /\ Available' = Available - rn
    BY <1>20, <2>1, <1>0, ReadMoves
       DEF ReaderPublish, RingInv, TypeOK, Available
  <2>3. Slot(READ') = SlotAt(Slot(READ), rn)
    BY <1>20, <2>1, <1>0, SlotStep DEF ReaderPublish, RingInv, TypeOK
  <2>4. SlotsAligned'
    BY <1>20, <2>1, <2>2, <2>3, <1>0
       DEF ReaderPublish, RingInv, SlotsAligned, SlotAt
  <2>5. Readable'
    <3> SUFFICES ASSUME NEW s \in 0 .. Capacity - 1, Offset(s, Slot(READ')) < Available - rn
                 PROVE  buf[s] = sent - (Available - rn) + 1 + Offset(s, Slot(READ'))
      BY <1>20, <2>2 DEF ReaderPublish, Readable
    <3>1. Offset(s, Slot(READ)) = Offset(s, Slot(READ')) + rn
      BY <2>1, <2>3, <1>0 DEF SlotAt, Offset
    <3>2. buf[s] = sent - Available + 1 + Offset(s, Slot(READ))
      BY <3>1, <2>1, <2>3, <1>0 DEF RingInv, Readable, Offset, SlotAt
    <3>3. Offset(s, Slot(READ')) \in Nat
      BY <2>1, <2>3, <1>0 DEF Offset, SlotAt
    <3>4. QED BY <3>1, <3>2, <3>3, <2>1, <1>0 DEF RingInv, TypeOK
  <2>6. TypeOK' /\ Exact'
    BY <1>20, <2>1, <2>2, <1>0 DEF ReaderPublish, RingInv, TypeOK, Exact
  <2>7. ReaderChunk' /\ WriterChunk' /\ Counts' /\ Fifo' /\ ClosedLast'
    BY <1>20, <2>1, <2>2, <1>0
       DEF ReaderPublish, RingInv, TypeOK, ReaderChunk, WriterChunk, Counts,
           Fifo, ClosedLast, Room
  <2>8. QED BY <2>4, <2>5, <2>6, <2>7 DEF RingInv
<1>21. CASE UNCHANGED vars
  BY <1>21
     DEF vars, RingInv, TypeOK, Exact, SlotsAligned, Readable, WriterChunk,
         ReaderChunk, Counts, Fifo, ClosedLast, Available, Room
<1>22. QED
  BY <1>1, <1>2, <1>3, <1>4, <1>5, <1>6, <1>7, <1>8, <1>9, <1>10, <1>11,
     <1>12, <1>13, <1>14, <1>15, <1>16, <1>17, <1>18, <1>19, <1>20, <1>21
     DEF Next, WriterStep, ReaderStep, ReaderCall

-----------------------------------------------------------------------------
\* One more bump is one more since the load, as long as SEQ has not come round.
LEMMA SinceMoves ==
  ASSUME NEW seen \in Int32, SEQ \in Int32, SEQ' = Plus(SEQ, 1),
         Since(seen) <= Capacity + 1
  PROVE  (IF SEQ' >= seen THEN SEQ' - seen ELSE SEQ' - seen + Span) = Since(seen) + 1
BY HalfSpan, PipeAssumption DEF Since, Plus, Int32

\* Every step keeps the futex discipline: what a waiter has yet to be told of
\* is either visible in SEQ or about to be bumped.
LEMMA WindowStep ==
  ASSUME PipeInv, RingInv', [Next]_vars
  PROVE  ReaderWindow' /\ WriterWindow'
<1> USE DEF shared, writer, reader
<1>1. /\ Available \in 0 .. Capacity /\ Capacity \in Nat \ {0}
      /\ Room = Capacity - Available
      /\ Available = sent - (IF rpc = "publish" THEN taken - rn ELSE taken)
      /\ SEQ \in Int32 /\ rseq \in Int32 /\ wseq \in Int32
      /\ sent \in Nat /\ taken \in Nat /\ rn \in Nat /\ wn \in Nat
      /\ CLOSED \in BOOLEAN
  BY HalfSpan DEF PipeInv, RingInv, TypeOK, Exact, Room
<1>2. /\ wpc \in {"copy", "publish"} => wn >= 1
      /\ rpc \in {"copy", "publish"} => rn >= 1
  BY <1>1 DEF PipeInv, RingInv, TypeOK, WriterChunk, ReaderChunk
<1>3. /\ Available' \in 0 .. Capacity
      /\ Room' = Capacity - Available'
      /\ Available' = sent' - (IF rpc' = "publish" THEN taken' - rn' ELSE taken')
      /\ rseq' \in Int32 /\ wseq' \in Int32
  BY DEF RingInv, TypeOK, Exact, Room
<1>s. Since(SEQ) = 0 /\ Since(rseq) \in Nat /\ Since(wseq) \in Nat
  BY <1>1, <1>2, <1>3, HalfSpan DEF Since, Int32
<1>c. ClosedLast
  BY DEF PipeInv, RingInv
<1>w. ReaderWindow /\ WriterWindow
  BY DEF PipeInv
<1>4. ASSUME NEW mode \in {"block", "now", "poll"}, NEW n \in 1 .. MaxIO,
             StartWrite(mode, n)
      PROVE  ReaderWindow' /\ WriterWindow'
  BY <1>4, <1>1, <1>2, <1>3, <1>w
     DEF StartWrite, Available, Room, Since, ReaderWindow, WriterWindow, Bit,
         ClosedLast
<1>5. ASSUME NEW mode \in {"block", "now", "async", "poll"}, NEW n \in 1 .. MaxIO,
             StartRead(mode, n)
      PROVE  ReaderWindow' /\ WriterWindow'
  BY <1>5, <1>1, <1>2, <1>3, <1>w
     DEF StartRead, Available, Room, Since, ReaderWindow, WriterWindow, Bit,
         ClosedLast
<1>6. CASE WriterLoadSeq
  <2>1. Available' = Available /\ Room' = Room /\ SEQ' = SEQ
    BY <1>6 DEF WriterLoadSeq, Available, Room
  <2>2. QED BY <1>6, <2>1, <1>1, <1>2, <1>3, <1>w, <1>s, <1>c
               DEF WriterLoadSeq, Since, ReaderWindow, WriterWindow, Bit,
                   ClosedLast
<1>7. CASE WriterTestRoom
  <2>1. Available' = Available /\ Room' = Room /\ SEQ' = SEQ
    BY <1>7 DEF WriterTestRoom, Available, Room
  <2>2. QED BY <1>7, <2>1, <1>1, <1>2, <1>3, <1>w, <1>s, <1>c
               DEF WriterTestRoom, Since, ReaderWindow, WriterWindow, Bit,
                   ClosedLast
<1>8. CASE WriterWait
  <2>1. Available' = Available /\ Room' = Room /\ SEQ' = SEQ
    BY <1>8 DEF WriterWait, Available, Room
  <2>2. QED BY <1>8, <2>1, <1>1, <1>2, <1>3, <1>w, <1>s, <1>c
               DEF WriterWait, Since, ReaderWindow, WriterWindow, Bit,
                   ClosedLast
<1>9. CASE WriterNotify
  <2>1. Available' = Available /\ Room' = Room /\ SEQ' = SEQ
    BY <1>9 DEF WriterNotify, Available, Room
  <2>2. QED BY <1>9, <2>1, <1>1, <1>2, <1>3, <1>w, <1>s, <1>c
               DEF WriterNotify, Since, ReaderWindow, WriterWindow, Bit,
                   ClosedLast
<1>10. CASE WriterTimeout
  <2>1. Available' = Available /\ Room' = Room /\ SEQ' = SEQ
    BY <1>10 DEF WriterTimeout, Available, Room
  <2>2. QED BY <1>10, <2>1, <1>1, <1>2, <1>3, <1>w, <1>s, <1>c
               DEF WriterTimeout, Since, ReaderWindow, WriterWindow, Bit,
                   ClosedLast
<1>11. CASE WriterCopy
  <2>1. Available' = Available /\ Room' = Room /\ SEQ' = SEQ
    BY <1>11 DEF WriterCopy, Available, Room
  <2>2. QED BY <1>11, <2>1, <1>1, <1>2, <1>3, <1>w, <1>s, <1>c
               DEF WriterCopy, Since, ReaderWindow, WriterWindow, Bit,
                   ClosedLast
<1>12. CASE Close
  <2>1. Available' = Available /\ Room' = Room /\ SEQ' = SEQ
    BY <1>12 DEF Close, Available, Room
  <2>2. QED BY <1>12, <2>1, <1>1, <1>2, <1>3, <1>w, <1>s, <1>c
               DEF Close, Since, ReaderWindow, WriterWindow, Bit, ClosedLast
<1>13. CASE ReaderLoadSeq
  <2>1. Available' = Available /\ Room' = Room /\ SEQ' = SEQ
    BY <1>13 DEF ReaderLoadSeq, Available, Room
  <2>2. QED BY <1>13, <2>1, <1>1, <1>2, <1>3, <1>w, <1>s, <1>c
               DEF ReaderLoadSeq, Since, ReaderWindow, WriterWindow, Bit,
                   ClosedLast
<1>14. CASE ReaderTestAvailable
  <2>1. Available' = Available /\ Room' = Room /\ SEQ' = SEQ
    BY <1>14 DEF ReaderTestAvailable, Available, Room
  <2>2. QED BY <1>14, <2>1, <1>1, <1>2, <1>3, <1>w, <1>s, <1>c
               DEF ReaderTestAvailable, Since, ReaderWindow, WriterWindow,
                   Bit, ClosedLast
<1>15. CASE ReaderTestClosed
  <2>1. Available' = Available /\ Room' = Room /\ SEQ' = SEQ
    BY <1>15 DEF ReaderTestClosed, Available, Room
  <2>2. QED BY <1>15, <2>1, <1>1, <1>2, <1>3, <1>w, <1>s, <1>c
               DEF ReaderTestClosed, Since, ReaderWindow, WriterWindow, Bit,
                   ClosedLast
<1>16. CASE ReaderWait
  <2>1. Available' = Available /\ Room' = Room /\ SEQ' = SEQ
    BY <1>16 DEF ReaderWait, Available, Room
  <2>2. QED BY <1>16, <2>1, <1>1, <1>2, <1>3, <1>w, <1>s, <1>c
               DEF ReaderWait, Since, ReaderWindow, WriterWindow, Bit,
                   ClosedLast
<1>17. CASE ReaderNotify
  <2>1. Available' = Available /\ Room' = Room /\ SEQ' = SEQ
    BY <1>17 DEF ReaderNotify, Available, Room
  <2>2. QED BY <1>17, <2>1, <1>1, <1>2, <1>3, <1>w, <1>s, <1>c
               DEF ReaderNotify, Since, ReaderWindow, WriterWindow, Bit,
                   ClosedLast
<1>18. CASE ReaderTimeout
  <2>1. Available' = Available /\ Room' = Room /\ SEQ' = SEQ
    BY <1>18 DEF ReaderTimeout, Available, Room
  <2>2. QED BY <1>18, <2>1, <1>1, <1>2, <1>3, <1>w, <1>s, <1>c
               DEF ReaderTimeout, Since, ReaderWindow, WriterWindow, Bit,
                   ClosedLast
<1>19. CASE ReaderCopy
  <2>1. Available' = Available /\ Room' = Room /\ SEQ' = SEQ
    BY <1>19 DEF ReaderCopy, Available, Room
  <2>2. QED BY <1>19, <2>1, <1>1, <1>2, <1>3, <1>w, <1>s, <1>c
               DEF ReaderCopy, Since, ReaderWindow, WriterWindow, Bit,
                   ClosedLast
<1>20. CASE WriterPublish
  <2>1. Available' = Available + wn
    BY <1>20, <1>1, <1>2, <1>3 DEF WriterPublish
  <2>2. Since(rseq)' = Since(rseq) /\ Since(wseq)' = Since(wseq)
    BY <1>20 DEF WriterPublish, Since
  <2>3. WriterWindow'
    BY <1>20 DEF WriterPublish, WriterWindow
  <2>4. ReaderWindow'
    BY <1>20, <2>1, <2>2, <1>1, <1>2, <1>3, <1>s, <1>w
       DEF WriterPublish, ReaderWindow, Bit
  <2>5. QED BY <2>3, <2>4
<1>21. CASE ReaderPublish
  <2>1. Available' = Available - rn
    BY <1>21, <1>1, <1>2, <1>3 DEF ReaderPublish
  <2>2. Since(rseq)' = Since(rseq) /\ Since(wseq)' = Since(wseq)
    BY <1>21 DEF ReaderPublish, Since
  <2>3. ReaderWindow'
    BY <1>21 DEF ReaderPublish, ReaderWindow
  <2>4. WriterWindow'
    BY <1>21, <2>1, <2>2, <1>1, <1>2, <1>3, <1>s, <1>w
       DEF ReaderPublish, WriterWindow, Bit
  <2>5. QED BY <2>3, <2>4
<1>22. CASE WriterBump
  <2>1. Available' = Available /\ Room' = Room /\ SEQ' = Plus(SEQ, 1)
    BY <1>22 DEF WriterBump, Available, Room
  <2>2. Since(rseq) <= Capacity + 1 => Since(rseq)' = Since(rseq) + 1
    BY <1>22, <2>1, <1>1, <1>2, <1>3, SinceMoves DEF WriterBump, Since
  <2>3. WriterWindow'
    BY <1>22 DEF WriterBump, WriterWindow
  <2>4. ReaderWindow'
    BY <1>22, <2>1, <2>2, <1>1, <1>2, <1>3, <1>s, <1>w
       DEF WriterBump, ReaderWindow, Bit
  <2>5. QED BY <2>3, <2>4
<1>23. CASE ReaderBump
  <2>1. Available' = Available /\ Room' = Room /\ SEQ' = Plus(SEQ, 1)
    BY <1>23 DEF ReaderBump, Available, Room
  <2>2. Since(wseq) <= Capacity + 1 => Since(wseq)' = Since(wseq) + 1
    BY <1>23, <2>1, <1>1, <1>2, <1>3, SinceMoves DEF ReaderBump, Since
  <2>3. ReaderWindow'
    BY <1>23 DEF ReaderBump, ReaderWindow
  <2>4. WriterWindow'
    BY <1>23, <2>1, <2>2, <1>1, <1>2, <1>3, <1>s, <1>w
       DEF ReaderBump, WriterWindow, Bit
  <2>5. QED BY <2>3, <2>4
<1>24. CASE UNCHANGED vars
  BY <1>24, <1>w
     DEF vars, Available, Room, Since, ReaderWindow, WriterWindow, Bit,
         ClosedLast
<1>25. QED
  BY <1>4, <1>5, <1>6, <1>7, <1>8, <1>9, <1>10, <1>11, <1>12, <1>13, <1>14,
     <1>15, <1>16, <1>17, <1>18, <1>19, <1>20, <1>21, <1>22, <1>23, <1>24
     DEF Next, WriterStep, ReaderStep, ReaderCall

-----------------------------------------------------------------------------
(***************************************************************************)
(* The results.                                                            *)
(***************************************************************************)

(* The inductive invariant holds in every state of SabPipe. *)
THEOREM PipeInvariant == Spec => []PipeInv
<1>1. Init => PipeInv
  <2> SUFFICES ASSUME Init PROVE ReaderWindow /\ WriterWindow
    BY InitRing DEF PipeInv
  <2>1. QED BY DEF Init, ReaderWindow, WriterWindow
<1>2. PipeInv /\ [Next]_vars => PipeInv'
  BY RingStep, WindowStep DEF PipeInv
<1>3. QED BY <1>1, <1>2, PTL DEF Spec

(* Type correctness of the ring, its header words and both calls. *)
THEOREM TypeCorrect == Spec => []TypeOK
<1>1. PipeInv => TypeOK
  BY DEF PipeInv, RingInv
<1>2. QED BY <1>1, PipeInvariant, PTL

(* The consumer is given the producer's bytes in order, each once. *)
THEOREM FifoCorrect == Spec => []Fifo
<1>1. PipeInv => Fifo
  BY DEF PipeInv, RingInv
<1>2. QED BY <1>1, PipeInvariant, PTL

(* (w - r) | 0 is the ring's occupancy across every wrap of the words. *)
THEOREM OccupancyExact == Spec => []Exact
<1>1. PipeInv => Exact
  BY DEF PipeInv, RingInv
<1>2. QED BY <1>1, PipeInvariant, PTL

(* The plain copies of the two agents never touch the same slot. *)
THEOREM RaceFreedom == Spec => []NoDataRace
<1>1. PipeInv => NoDataRace
  <2> SUFFICES ASSUME PipeInv, NEW i \in 0 .. wn - 1, NEW j \in 0 .. rn - 1,
                      wpc \in {"copy", "publish"}, rpc \in {"copy", "publish"}
               PROVE  SlotAt(Slot(WRITE), i) # SlotAt(Slot(READ), j)
    BY DEF NoDataRace, WritingSlots, ReadingSlots
  <2>1. /\ Slot(READ) \in 0 .. Capacity - 1
        /\ Available \in 0 .. Capacity /\ Capacity \in Nat \ {0}
    BY HalfSpan, SlotInRing DEF PipeInv, RingInv, TypeOK, Exact
  <2>2. Slot(WRITE) = SlotAt(Slot(READ), Available)
    BY DEF PipeInv, RingInv, SlotsAligned
  <2>3. wn \in Nat /\ rn \in Nat /\ Available + wn <= Capacity /\ rn <= Available
    BY <2>1 DEF PipeInv, RingInv, TypeOK, WriterChunk, ReaderChunk, Room
  <2> HIDE DEF PipeInv
  <2>4. QED BY <2>1, <2>2, <2>3 DEF SlotAt
<1>2. QED BY <1>1, PipeInvariant, PTL

(* No agent sleeps in Atomics.wait with its wakeup already spent. *)
THEOREM WakeupsKept == Spec => []NoLostWakeup
<1>1. PipeInv => NoLostWakeup
  BY DEF PipeInv, ReaderWindow, WriterWindow, NoLostWakeup
<1>2. QED BY <1>1, PipeInvariant, PTL

-----------------------------------------------------------------------------
(***************************************************************************)
(* SabPipe implements ByteChannel: the initial state maps to the initial   *)
(* state and every step to a step of the channel or to a stutter.          *)
(***************************************************************************)
\* A new ring is an empty channel.
LEMMA ChannelInit == Init => Channel!Init
<1> SUFFICES ASSUME Init PROVE Channel!Init
  OBVIOUS
<1>1. out = [i \in 1 .. 0 |-> i]
  BY DEF Init
<1>2. QED BY <1>1 DEF Init, Channel!Init

\* Publishing is Put, the consumer's copy is Get, CLOSED is Close, a read
\* that returns 0 is End, and every other step leaves the channel as it is.
LEMMA ChannelStep ==
  ASSUME PipeInv, PipeInv', [Next]_vars
  PROVE  [Channel!Next]_(Channel!chan)
<1> USE DEF shared, writer, reader
<1>0. /\ Available \in 0 .. Capacity /\ Capacity \in Nat \ {0}
      /\ Available = sent - (IF rpc = "publish" THEN taken - rn ELSE taken)
      /\ sent \in Nat /\ taken \in Nat /\ rn \in Nat /\ wn \in Nat /\ taken <= sent
      /\ wpc \in {"copy", "publish"} => wn >= 1 /\ wn <= Capacity - Available
      /\ rpc \in {"copy", "publish"} => rn >= 1 /\ rn <= Available
  BY HalfSpan
     DEF PipeInv, RingInv, TypeOK, Exact, Room, WriterChunk, ReaderChunk, Fifo
<1>1. ASSUME NEW mode \in {"block", "now", "poll"}, NEW n \in 1 .. MaxIO,
             StartWrite(mode, n)
      PROVE  [Channel!Next]_(Channel!chan)
  BY <1>1 DEF StartWrite, Channel!chan
<1>2. ASSUME NEW mode \in {"block", "now", "async", "poll"}, NEW n \in 1 .. MaxIO,
             StartRead(mode, n)
      PROVE  [Channel!Next]_(Channel!chan)
  BY <1>2 DEF StartRead, Channel!chan
<1>3. CASE WriterLoadSeq
  BY <1>3 DEF WriterLoadSeq, Channel!chan
<1>4. CASE WriterTestRoom
  BY <1>4 DEF WriterTestRoom, Channel!chan
<1>5. CASE WriterWait
  BY <1>5 DEF WriterWait, Channel!chan
<1>6. CASE WriterTimeout
  BY <1>6 DEF WriterTimeout, Channel!chan
<1>7. CASE WriterCopy
  BY <1>7 DEF WriterCopy, Channel!chan
<1>8. CASE WriterBump
  BY <1>8 DEF WriterBump, Channel!chan
<1>9. CASE WriterNotify
  BY <1>9 DEF WriterNotify, Channel!chan
<1>10. CASE ReaderLoadSeq
  BY <1>10 DEF ReaderLoadSeq, Channel!chan
<1>11. CASE ReaderTestAvailable
  BY <1>11 DEF ReaderTestAvailable, Channel!chan
<1>12. CASE ReaderWait
  BY <1>12 DEF ReaderWait, Channel!chan
<1>13. CASE ReaderTimeout
  BY <1>13 DEF ReaderTimeout, Channel!chan
<1>14. CASE ReaderPublish
  BY <1>14 DEF ReaderPublish, Channel!chan
<1>15. CASE ReaderBump
  BY <1>15 DEF ReaderBump, Channel!chan
<1>16. CASE ReaderNotify
  BY <1>16 DEF ReaderNotify, Channel!chan
<1>17. CASE WriterPublish
  <2>1. ~CLOSED
    BY <1>17 DEF WriterPublish, PipeInv, RingInv, ClosedLast
  <2>2. sent' \in sent + 1 .. taken + Capacity
    BY <1>17, <1>0 DEF WriterPublish
  <2>3. Channel!Put
    BY <1>17, <2>1, <2>2 DEF WriterPublish, Channel!Put
  <2>4. QED BY <2>3 DEF Channel!Next
<1>18. CASE ReaderCopy
  <2>1. taken' \in taken + 1 .. sent
    BY <1>18, <1>0 DEF ReaderCopy
  <2>2. \A i \in 1 .. taken' : out'[i] = i
    BY DEF PipeInv, RingInv, Fifo
  <2>3. out' = [i \in 1 .. taken' |-> i]
    BY <1>18, <2>2 DEF ReaderCopy
  <2>4. Channel!Get
    BY <1>18, <2>1, <2>3 DEF ReaderCopy, Channel!Get
  <2>5. QED BY <2>4 DEF Channel!Next
<1>19. CASE Close
  <2>1. ~CLOSED
    BY <1>19 DEF Close, PipeInv, RingInv, ClosedLast
  <2>2. Channel!Close
    BY <1>19, <2>1 DEF Close, Channel!Close
  <2>3. QED BY <2>2 DEF Channel!Next
<1>20. CASE ReaderTestClosed
  <2>1. CASE CLOSED /\ rmode # "poll"
    <3>1. Channel!End
      BY <1>20, <2>1 DEF ReaderTestClosed, Channel!End
    <3>2. QED BY <3>1 DEF Channel!Next
  <2>2. CASE ~(CLOSED /\ rmode # "poll")
    BY <1>20, <2>2 DEF ReaderTestClosed, Channel!chan
  <2>3. QED BY <2>1, <2>2
<1>21. CASE UNCHANGED vars
  BY <1>21 DEF vars, Channel!chan
<1>22. QED
  BY <1>1, <1>2, <1>3, <1>4, <1>5, <1>6, <1>7, <1>8, <1>9, <1>10, <1>11,
     <1>12, <1>13, <1>14, <1>15, <1>16, <1>17, <1>18, <1>19, <1>20, <1>21
     DEF Next, WriterStep, ReaderStep, ReaderCall

(* SabPipe keeps the promise of ByteChannel. *)
THEOREM ImplementsChannel == Spec => ChannelSpec
<1>1. PipeInv /\ PipeInv' /\ [Next]_vars => [Channel!Next]_(Channel!chan)
  BY ChannelStep
<1>2. QED
  BY <1>1, ChannelInit, PipeInvariant, PTL DEF Spec, ChannelSpec, Channel!Spec
=============================================================================
