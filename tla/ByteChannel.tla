---------------------------- MODULE ByteChannel ----------------------------
(***************************************************************************)
(* What one SabPipe promises its two agents, with the ring, the futex word *)
(* and every interleaving left out: a bounded FIFO of bytes from one       *)
(* producer to one consumer.  The i-th byte of the stream is the number i. *)
(*                                                                         *)
(* End of file is promised only in its weak form here: the consumer is not *)
(* told of it before the producer closed.  The strong form, that nothing   *)
(* is left in the pipe by then, is SabPipe's EofOnlyWhenDrained.           *)
(***************************************************************************)
EXTENDS Naturals

CONSTANT Capacity      \* bytes the pipe holds

VARIABLES sent,        \* bytes the producer has handed over
          taken,       \* bytes the consumer has been given
          out,         \* those bytes, in the order it got them
          closed,      \* the producer closed the pipe
          eof          \* the consumer was told of it

chan == <<sent, taken, out, closed, eof>>

Init == /\ sent = 0
        /\ taken = 0
        /\ out = [i \in 1 .. 0 |-> i]
        /\ closed = FALSE
        /\ eof = FALSE

Put == /\ ~closed
       /\ sent' \in sent + 1 .. taken + Capacity
       /\ UNCHANGED <<taken, out, closed, eof>>

\* The consumer gets the next bytes of the stream, in order, none twice.
Get == /\ ~eof
       /\ taken' \in taken + 1 .. sent
       /\ out' = [i \in 1 .. taken' |-> i]
       /\ UNCHANGED <<sent, closed, eof>>

Close == /\ ~closed
         /\ closed' = TRUE
         /\ UNCHANGED <<sent, taken, out, eof>>

End == /\ closed
       /\ eof' = TRUE
       /\ UNCHANGED <<sent, taken, out, closed>>

Next == Put \/ Get \/ Close \/ End

Spec == Init /\ [][Next]_chan
=============================================================================
