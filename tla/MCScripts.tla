------------------------------ MODULE MCScripts ------------------------------
(***************************************************************************)
(* The repository's scripts, checked in one run: the lanes that measure    *)
(* (Lanes) and the scripts that bring in, package and publish the assets   *)
(* (AssetSync).  The two share no state, so a behaviour is of one or of    *)
(* the other.                                                              *)
(***************************************************************************)
EXTENDS Lanes, AssetSync

VARIABLE half      \* lanes or assets

OfLanes == half = "lanes"
OfAssets == half = "assets"

(* The first release is of one commit, whichever: nothing tells them apart.   *)
MCInit == /\ half \in {"lanes", "assets"}
          /\ LaneInit /\ Init
          /\ LET c == CHOOSE c \in Commits : TRUE IN
             /\ releases[1].tag = c
             /\ OfLanes => Len(releases) = 1 /\ version.of = c
          /\ OfAssets => lane = "dump" /\ ~ locked

MCNext == /\ UNCHANGED half
          /\ \/ OfLanes /\ LaneNext /\ UNCHANGED assetVars
             \/ OfAssets /\ Next /\ UNCHANGED laneVars

MCSpec == MCInit /\ [][MCNext]_<<half, laneVars, assetVars>> /\ WF_laneVars(OfLanes /\ Progress)

(* A lane ends, however the page behaves (runBench, probeOne), but for the    *)
(* calls without a deadline that Hangs names; of a lane that runs.            *)
ALaneEnds == OfLanes => LaneEnds
=============================================================================
