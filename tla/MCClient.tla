------------------------------- MODULE MCClient -------------------------------
(***************************************************************************)
(* A client, checked in one run: its life, from the boot of its engine to  *)
(* close() (PgrustClient), and its subscriptions while it is attached      *)
(* (Listeners).  The two share no state, so a behaviour is of one or of    *)
(* the other.                                                              *)
(***************************************************************************)
EXTENDS PgrustClient, Listeners

VARIABLE half      \* life or channels

OfLife == half = "life"
OfChannels == half = "channels"

MCInit == half \in {"life", "channels"} /\ ClientInit /\ ListenInit

MCNext == /\ UNCHANGED half
          /\ \/ OfLife /\ ClientNext /\ UNCHANGED listenVars
             \/ OfChannels /\ ListenNext /\ UNCHANGED vars

(* ClientSpec's fairness and ListenFairness, each for its half.              *)
MCFairness ==
    /\ WF_vars(OfLife /\ BootStep /\ UNCHANGED client)
    /\ WF_vars(OfLife /\ ShutdownStep /\ UNCHANGED client)
    /\ WF_vars(OfLife /\ AttachFailed)
    /\ \A c \in Closers : /\ WF_vars(OfLife /\ CallsShutdown(c))
                          /\ WF_vars(OfLife /\ CloseResolves(c))
    /\ \A c \in Subscribers : /\ WF_listenVars(OfChannels /\ Continues(c))
                              /\ WF_listenVars(OfChannels /\ End(c))

MCSpec == MCInit /\ [][MCNext]_<<half, vars, listenVars>> /\ MCFairness

(* Everything that is awaited ends.  Of a life: the boot under its deadlines *)
(* (pgrust-engine.ts withTimeout), and every close() of an open session      *)
(* (PgrustClientPGlite.close), whatever guest and coordinator do.  Of the    *)
(* channels: every call, unless the two mutexes are taken crosswise.         *)
EveryCallEnds == (OfLife => EverythingEnds) /\ CallsEnd
=============================================================================
