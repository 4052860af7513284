------------------------------- MODULE MCStore -------------------------------
(***************************************************************************)
(* The store, checked in one run: who boots on it and what survives        *)
(* (StoreBoot), and the handle of its arena under the levers (StoreLevers).*)
(* The two share no state, so a behaviour is of one or of the other.       *)
(***************************************************************************)
EXTENDS StoreBoot, StoreLevers

VARIABLE half      \* boot or levers

OfBoot == half = "boot"
OfLevers == half = "levers"

MCInit == /\ half \in {"boot", "levers"}
          /\ Init /\ LeverInit
          /\ OfBoot => ~ grow /\ ~ coalesce /\ arena.size = 0
          /\ OfLevers => opts = CHOOSE o \in [Pages -> FactoryLane] : TRUE

MCNext == /\ UNCHANGED half
          /\ \/ OfBoot /\ Next /\ UNCHANGED leverVars
             \/ OfLevers /\ LeverNext /\ UNCHANGED vars

(* FairSpec's fairness; the levers have none.                                *)
MCFairness ==
    /\ \A p \in Pages : WF_vars(OfBoot /\ StopEnds(p)) /\ WF_vars(OfBoot /\ Leave(p))
    /\ \A w \in Workers : WF_vars(OfBoot /\ Reap(w))

MCSpec == MCInit /\ [][MCNext]_<<half, vars, leverVars>> /\ MCFairness
=============================================================================
