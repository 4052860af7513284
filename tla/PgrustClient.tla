---------------------------- MODULE PgrustClient ----------------------------
(***************************************************************************)
(* PgrustClientPGlite and attachPgrustClient                               *)
(* (src/client/pgrust-client-pglite.ts): the client that owns an engine.   *)
(* It opens one session, and its close() ends that session and the server. *)
(* The session is PgrustPGlite (module PgrustSession), seen here only as   *)
(* open, closing or closed.  This module composes it with PgrustEngine.    *)
(***************************************************************************)
EXTENDS PgrustEngine

CONSTANT Closers   \* the calls of close() somebody makes

ASSUME ClosersAssumption == Closers \cap {"nobody", "attach"} = {}

VARIABLES
    attach,   \* how far attachPgrustClient is
    sess,     \* the session: "none", "opening", "open", "closing" or "closed"
    closer,   \* by call of close(): how far it is
    owner     \* whose call of shutdown() is the effective one

client == <<attach, sess, closer, owner>>
vars   == <<engine, client>>

ClientInit ==
    /\ Init
    /\ attach = "no" /\ sess = "none"
    /\ closer = [c \in Closers |-> "idle"]
    /\ owner = "nobody"

----------------------------------------------------------------------------
(* attachPgrustClient.                                                     *)

(* engine.openSession() and the constructor, which sends the startup packet. *)
OpenSession ==
    /\ boot = "up" /\ attach = "no"
    /\ attach' = "waiting" /\ sess' = "opening"
    /\ UNCHANGED <<engine, closer, owner>>

SessionReady ==
    /\ attach = "waiting" /\ process = "serving"
    /\ attach' = "attached" /\ sess' = "open"
    /\ UNCHANGED <<engine, closer, owner>>

(* The handshake failed: the engine goes down, then the error is thrown. *)
AttachFails ==
    /\ attach = "waiting"
    /\ attach' = "failing" /\ sess' = "closed"
    /\ StartShutdown /\ owner' = "attach"
    /\ UNCHANGED <<boot, gate, storage, stopAsked, process, exitCode, log, result, closer>>

AttachFailed ==
    /\ attach = "failing" /\ down = "done"
    /\ attach' = "failed"
    /\ UNCHANGED <<engine, sess, closer, owner>>

(* An exchange of the session read the end of file: it sets #closed. *)
HangUp ==
    /\ sess = "open"
    /\ sess' = "closed"
    /\ UNCHANGED <<engine, attach, closer, owner>>

----------------------------------------------------------------------------
(* close().                                                                *)

(* Nothing to do when the session is closed; else super.close(), which      *)
(* returns at once when another call is closing it.                         *)
Close(c) ==
    /\ attach = "attached" /\ closer[c] = "idle"
    /\ IF sess = "closed"
       THEN closer' = [closer EXCEPT ![c] = "resolved"] /\ UNCHANGED sess
       ELSE closer' = [closer EXCEPT ![c] = "session"] /\ sess' = "closing"
    /\ UNCHANGED <<engine, attach, owner>>

(* super.close() saw the end of file. *)
SessionCloses ==
    /\ sess = "closing"
    /\ sess' = "closed"
    /\ UNCHANGED <<engine, attach, closer, owner>>

(* Mutant: shutdown() starts over when it was called before. *)
CallsShutdownAnyway(c) ==
    /\ closer[c] = "session"
    /\ closer' = [closer EXCEPT ![c] = "stopping"]
    /\ stopped' = TRUE /\ down' = "exit" /\ owner' = c
    /\ UNCHANGED <<boot, gate, storage, stopAsked, process, exitCode, log, result, attach, sess>>

(* super.close() returned or closeDeadlineMs passed: strictSync, whatever   *)
(* comes of it, and engine.shutdown(), which does nothing when it was       *)
(* called before.                                                           *)
CallsShutdown(c) ==
    /\ closer[c] = "session"
    /\ IF stopped
       THEN closer' = [closer EXCEPT ![c] = "resolved"] /\ UNCHANGED <<stopped, down, owner>>
       ELSE closer' = [closer EXCEPT ![c] = "stopping"] /\ StartShutdown /\ owner' = c
    /\ UNCHANGED <<boot, gate, storage, stopAsked, process, exitCode, log, result, attach, sess>>

CloseResolves(c) ==
    /\ closer[c] = "stopping" /\ down = "done"
    /\ closer' = [closer EXCEPT ![c] = "resolved"]
    /\ UNCHANGED <<engine, attach, sess, owner>>

ClientNext ==
    \/ EngineStep /\ UNCHANGED client
    \/ OpenSession \/ SessionReady \/ AttachFails \/ AttachFailed
    \/ HangUp \/ SessionCloses
    \/ \E c \in Closers : Close(c) \/ CallsShutdown(c) \/ CloseResolves(c)

(* Timers fire and settled promises run their continuations.  Nothing is    *)
(* assumed of the guest, of the coordinator or of the session.              *)
ClientSpec ==
    /\ ClientInit /\ [][ClientNext]_vars
    /\ WF_vars(BootStep /\ UNCHANGED client)
    /\ WF_vars(ShutdownStep /\ UNCHANGED client)
    /\ WF_vars(AttachFailed)
    /\ \A c \in Closers : WF_vars(CallsShutdown(c)) /\ WF_vars(CloseResolves(c))

----------------------------------------------------------------------------
(* Properties.                                                             *)

(* Every variable keeps its type, and the engine keeps those of its own.     *)
ClientTypeOK ==
    /\ TypeOK
    /\ attach \in {"no", "waiting", "attached", "failing", "failed"}
    /\ sess \in {"none", "opening", "open", "closing", "closed"}
    /\ closer \in [Closers -> {"idle", "session", "stopping", "resolved"}]
    /\ owner \in Closers \cup {"nobody", "attach"}

(* The client uses the engine as the engine allows: its steps are engine    *)
(* steps, and whatever several calls of close() and a failed attach do,     *)
(* shutdown() takes effect once (engine.shutdown's stopped flag).           *)
EngineSpec == Spec

(* An attach that failed and the call of close() whose shutdown() took      *)
(* effect report back with no worker left running, the handles released.    *)
OwnerReleases ==
    /\ attach = "failed" => NothingRuns
    /\ \A c \in Closers : closer[c] = "resolved" /\ owner = c => NothingRuns

(* The three together: on no path does a worker outlive the call that was   *)
(* to end it.                                                               *)
NobodyLeft == FailedBootReleases /\ ShutdownReleases /\ OwnerReleases

(* Everything the host awaits ends.  The boot: with an engine or with an    *)
(* error, whatever the guest and the coordinator do (withTimeout).  A       *)
(* close() of an open session: with every worker down; neither a session    *)
(* that will not end, nor a server or a store that will not stop, nor a     *)
(* second close() prevents it.                                              *)
EverythingEnds ==
    /\ <>(boot \in {"up", "failed"})
    /\ \A c \in Closers : (closer[c] = "session") ~> (NothingRuns /\ closer[c] = "resolved")

(* "End the session AND the server: this client is the store's single       *)
(* owner" (PgrustClientPGlite.close): once close() resolved nothing runs.   *)
CloseReleases == \A c \in Closers : closer[c] = "resolved" => NothingRuns
=============================================================================
