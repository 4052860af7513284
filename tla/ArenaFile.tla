------------------------------ MODULE ArenaFile ------------------------------
(***************************************************************************)
(* What the store may rely on of its arena handle, whatever stands between *)
(* it and the platform: a file that answers every call as a file does, or  *)
(* refuses it, until it breaks, and then refuses every call.               *)
(***************************************************************************)
EXTENDS Integers

CONSTANTS Max,       \* positions the arena may have
          Bytes      \* what a position may hold besides zero

VARIABLES file,      \* its size and its bytes, zero past the end
          broken,    \* it refuses every call
          ans        \* the last answer

Pos == 0 .. Max - 1
AnyFile == [size : 0 .. Max, at : [Pos -> Bytes \cup {0}]]

Larger(a, b) == IF a < b THEN b ELSE a
Blank == [i \in Pos |-> 0]

\* n bytes v written at a position, and a truncate, in either direction.
Put(f, at, n, v) ==
    [size |-> Larger(f.size, at + n),
     at |-> [i \in Pos |-> IF at <= i /\ i < at + n THEN v ELSE f.at[i]]]
Cut(f, n) == [size |-> n, at |-> [i \in Pos |-> IF i < n THEN f.at[i] ELSE 0]]


Count(n) == [kind |-> "count", n |-> n, bytes |-> Blank]
\* Up to n bytes from a position, short at the end.
Content(f, at, n) ==
    LET last == IF at + n < f.size THEN at + n ELSE Larger(at, f.size)
    IN  [kind |-> "content", n |-> last - at, bytes |-> [i \in Pos |-> IF at <= i /\ i < last THEN f.at[i] ELSE 0]]
Error == [kind |-> "error", n |-> 0, bytes |-> Blank]

Init == /\ \E n \in 0 .. Max : file = Cut([size |-> 0, at |-> Blank], n)
        /\ broken = FALSE
        /\ ans = Count(0)

Write == /\ ~ broken
         /\ \E at \in Pos, n \in 1 .. Max, v \in Bytes :
              /\ at + n <= Max
              /\ ans' = Count(n)
              /\ file' = Put(file, at, n, v)
         /\ UNCHANGED broken

Truncate == /\ ~ broken
            /\ ans' = Count(0)
            /\ \E n \in 0 .. Max : file' = Cut(file, n)
            /\ UNCHANGED broken

Read == /\ ~ broken
        /\ UNCHANGED <<file, broken>>
        /\ \E at \in Pos, n \in 1 .. Max : ans' = Content(file, at, n)

GetSize == /\ ~ broken
           /\ ans' = Count(file.size)
           /\ UNCHANGED <<file, broken>>

Refuse == ans' = Error /\ UNCHANGED <<file, broken>>

Break == broken' = TRUE /\ ans' = Error /\ file' \in AnyFile

Next == Refuse \/ GetSize \/ Truncate \/ Read \/ Write \/ Break

Spec == Init /\ [][Next]_<<file, broken, ans>>
=============================================================================
