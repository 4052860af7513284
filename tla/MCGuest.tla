------------------------------- MODULE MCGuest -------------------------------
(***************************************************************************)
(* What a guest thread blocks on, checked in one run: the rings of its     *)
(* session (GuestHost) and the channel to the store (BrokerSeam). The two  *)
(* share no state, so a behaviour is of one or of the other.               *)
(***************************************************************************)
EXTENDS GuestHost, BrokerSeam

VARIABLE half      \* rings or seam

OfRings == half = "rings"
OfSeam == half = "seam"

MCInit == /\ half \in {"rings", "seam"}
          /\ Init /\ SeamInit
          /\ OfRings => options = [gather |-> FALSE, spin |-> FALSE]

MCNext == /\ UNCHANGED half
          /\ \/ OfRings /\ Next /\ UNCHANGED seamVars
             \/ OfSeam /\ SeamNext /\ UNCHANGED vars

(* Fairness and SeamFairness, each for its half.                              *)
MCFairness == /\ \A i \in Sessions : WF_vars(OfRings /\ Thread(i))
              /\ WF_vars(OfRings /\ Page)
              /\ \A i \in Guests : WF_seamVars(OfSeam /\ Guest(i))
              /\ WF_seamVars(OfSeam /\ Coordinator)

MCSpec == MCInit /\ [][MCNext]_<<half, vars, seamVars>> /\ MCFairness

(* No lost wakeup on either side of a ring, a gate or the doorbell            *)
(* (threads-host.js poll_oneoff, sab-pipe.js waitWritable and _awaitHostGate, *)
(* broker-spin.js).                                                           *)
NobodySleepsThrough == NoSleepThrough /\ SeamAwake

(* Nobody blocked for ever, whoever it is and whatever on (the same waits).   *)
EveryWaitEnds == []<>(NobodyOwed /\ NobodyWrites)
=============================================================================
