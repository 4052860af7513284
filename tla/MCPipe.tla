------------------------------- MODULE MCPipe -------------------------------
(***************************************************************************)
(* The two shared-memory protocols of the vendored host, checked in one    *)
(* run: the byte pipe (SabPipe) and the desk that gives pooled workers     *)
(* their threads (SpawnDesk).  The two share no state, so a behaviour is   *)
(* of one or of the other.                                                 *)
(***************************************************************************)
EXTENDS SabPipe, SpawnDesk

VARIABLE half      \* pipe or desk

OfPipe == half = "pipe"
OfDesk == half = "desk"

MCInit == half \in {"pipe", "desk"} /\ Init /\ DeskInit

MCNext == /\ UNCHANGED half
          /\ \/ OfPipe /\ Next /\ UNCHANGED deskVars
             \/ OfDesk /\ DeskNext /\ UNCHANGED vars

(* FairSpec's fairness and FairDeskSpec's, each for its half.                *)
MCFairness ==
    /\ WF_vars(OfPipe /\ WriterStep)
    /\ WF_vars(OfPipe /\ ReaderStep)
    /\ WF_vars(OfPipe /\ ReaderCall)
    /\ \A s \in Slots : WF_deskVars(OfDesk /\ WorkerStep(s))
    /\ \A a \in Agents : WF_deskVars(OfDesk /\ ClaimStep(a))

MCSpec == MCInit /\ [][MCNext]_<<half, vars, deskVars>> /\ MCFairness
=============================================================================
