---------------------------- MODULE ClientProofs ----------------------------
(***************************************************************************)
(* Proofs about a client (MCClient), for any number of overlapping calls   *)
(* of close(), any callers and any channels: the engine's boot and         *)
(* shutdown and the client that owns it are safe (PgrustEngine,            *)
(* PgrustClient), and a subscription to a channel whose name keeps no      *)
(* capitals stands until its caller lets go of it, and not longer          *)
(* (Listeners).                                                            *)
(***************************************************************************)
EXTENDS MCClient, TLAPS

(* Its life: PgrustEngine and PgrustClient. *)

(* Where the boot is decides whether there is a guest and a seeded store.   *)
BootShape ==
    /\ boot \in {"storage", "prepare", "unprepared"} =>
           process = "none" /\ down = "no" /\ ~ stopped
    /\ boot \in {"pool", "postmaster"} => down = "no" /\ ~ stopped
    /\ boot = "storage" => ~ stopAsked /\ storage # "terminated"
    /\ boot = "prepare" => ~ stopAsked /\ storage \in {"serving", "failed"}
    /\ gate["storageReady"] = "open" => storage # "seeding"
    /\ boot # "storage" => storage # "seeding"
    /\ storage = "terminated" => ~ Alive
    /\ storage = "stopped" => stopAsked

(* How far shutdown() is decides what has been stopped. *)
DownShape ==
    /\ stopped <=> down # "no"
    /\ stopAsked => ~ Alive
    /\ down \in {"storage", "done"} => stopAsked

EngineInv ==
    /\ TypeOK
    /\ BootShape /\ DownShape
    /\ StoreOutlivesServer /\ FailedBootReleases /\ ShutdownReleases

(* The initial state: one worker, seeding. *)
LEMMA EngineInit == Init => EngineInv
<1> SUFFICES ASSUME Init PROVE EngineInv
  OBVIOUS
<1> QED
  BY DEF Init, EngineInv, TypeOK, BootShape, DownShape, StoreOutlivesServer,
    FailedBootReleases, ShutdownReleases, Alive, StorageRuns, NothingRuns, Gates

USE DEF EngineInv, TypeOK, BootShape, DownShape, StoreOutlivesServer,
    FailedBootReleases, ShutdownReleases, Alive, StorageRuns, NothingRuns, Gates

(* A step of the storage worker. *)
LEMMA StorageKeeps == EngineInv /\ StorageStep => EngineInv'
<1> SUFFICES ASSUME EngineInv, StorageStep PROVE EngineInv'
  OBVIOUS
<1>1. CASE StorageSeeds
  BY <1>1 DEF StorageSeeds, Settled
<1>2. CASE StorageFails
  BY <1>2 DEF StorageFails, Settled
<1>3. CASE StorageStops
  BY <1>3 DEF StorageStops, Settled
<1> QED
  BY <1>1, <1>2, <1>3 DEF StorageStep

(* A step of the guest. *)
LEMMA GuestKeeps == EngineInv /\ GuestStep => EngineInv'
<1> SUFFICES ASSUME EngineInv, GuestStep PROVE EngineInv'
  OBVIOUS
<1>1. CASE GuestPrewarms
  BY <1>1 DEF GuestPrewarms, Settled
<1>2. CASE GuestServes
  BY <1>2 DEF GuestServes, Settled
<1>3. CASE GuestRefused
  BY <1>3 DEF GuestRefused, Settled
<1>4. CASE GuestTraps
  BY <1>4 DEF GuestTraps, Settled
<1>5. CASE GuestCheckpoints
  BY <1>5 DEF GuestCheckpoints
<1>6. CASE LogArrives
  BY <1>6 DEF LogArrives
<1>7. CASE GuestExits
  BY <1>7 DEF GuestExits, Settled
<1> QED
  BY <1>1, <1>2, <1>3, <1>4, <1>5, <1>6, <1>7 DEF GuestStep

(* A step of the boot. *)
LEMMA BootKeeps == EngineInv /\ BootStep => EngineInv'
<1> SUFFICES ASSUME EngineInv, BootStep PROVE EngineInv'
  OBVIOUS
<1>1. CASE StorageIsReady
  BY <1>1 DEF StorageIsReady
<1>2. CASE StorageNotReady
  BY <1>2 DEF StorageNotReady, Terminated
<1>3. CASE StoreIsPrepared
  BY <1>3 DEF StoreIsPrepared
<1>4. CASE PrepareFails
  BY <1>4 DEF PrepareFails
<1>5. CASE PrepareFailed
  BY <1>5 DEF PrepareFailed, Terminated
<1>6. CASE PoolIsReady
  BY <1>6 DEF PoolIsReady
<1>7. CASE PostmasterIsReady
  BY <1>7 DEF PostmasterIsReady
<1>8. CASE BootFails
  BY <1>8 DEF BootFails, StartShutdown
<1>9. CASE BootFailed
  BY <1>9 DEF BootFailed
<1> QED
  BY <1>1, <1>2, <1>3, <1>4, <1>5, <1>6, <1>7, <1>8, <1>9 DEF BootStep

(* A step of shutdown(), and the call that starts it. *)
LEMMA ShutdownKeeps ==
    EngineInv /\ (ShutdownStep \/ CallShutdown) => EngineInv'
<1> SUFFICES ASSUME EngineInv, ShutdownStep \/ CallShutdown PROVE EngineInv'
  OBVIOUS
<1>1. CASE ExitAwaited
  BY <1>1 DEF ExitAwaited
<1>2. CASE StopStorage
  BY <1>2 DEF StopStorage, Terminated
<1>3. CASE ShutdownDone
  BY <1>3 DEF ShutdownDone, Terminated
<1>4. CASE CallShutdown
  BY <1>4 DEF CallShutdown, StartShutdown
<1> QED
  BY <1>1, <1>2, <1>3, <1>4 DEF ShutdownStep

(* Nothing in the invariant moves when the engine does not. *)
LEMMA EngineStutters == EngineInv /\ UNCHANGED engine => EngineInv'
  BY DEF engine

(* Every engine step keeps the invariant. *)
LEMMA EngineKeeps == EngineInv /\ [Next]_engine => EngineInv'
  BY StorageKeeps, GuestKeeps, BootKeeps, ShutdownKeeps, EngineStutters
  DEF Next, EngineStep

(* What an engine step leaves of what the client relies on. *)
LEMMA EngineSettles ==
    ASSUME EngineInv, EngineStep
    PROVE  /\ boot = "up" => boot' = "up"
           /\ stopped => stopped'
           /\ down = "done" => down' = "done"
           /\ boot' = "up" /\ stopped' => boot = "up" /\ stopped
<1>1. CASE StorageStep
  BY <1>1 DEF StorageStep, StorageSeeds, StorageFails, StorageStops
<1>2. CASE GuestStep
  BY <1>2 DEF GuestStep, GuestPrewarms, GuestServes, GuestRefused, GuestTraps,
    GuestCheckpoints, LogArrives, GuestExits
<1>3. CASE BootStep
  BY <1>3 DEF BootStep, StorageIsReady, StorageNotReady, StoreIsPrepared, PrepareFails,
    PrepareFailed, PoolIsReady, PostmasterIsReady, BootFails, BootFailed, StartShutdown
<1>4. CASE ShutdownStep
  BY <1>4 DEF ShutdownStep, ExitAwaited, StopStorage, ShutdownDone
<1> QED
  BY <1>1, <1>2, <1>3, <1>4 DEF EngineStep

HIDE DEF EngineInv, TypeOK, BootShape, DownShape, StoreOutlivesServer,
    FailedBootReleases, ShutdownReleases, Alive, StorageRuns, NothingRuns, Gates

(* The engine's invariant holds, whoever calls shutdown() and when. *)
THEOREM EngineSafe == Spec => []EngineInv
<1>1. EngineInv /\ [Next]_engine => EngineInv'
  BY EngineKeeps
<1> QED
  BY EngineInit, <1>1, PTL DEF Spec

----------------------------------------------------------------------------
(* The client.                                                             *)

(* Whoever owns the effective shutdown() has called it and waits for it. *)
OwnerShape ==
    /\ attach \in {"waiting", "attached", "failing", "failed"} => boot = "up"
    /\ sess \in {"open", "closing"} => attach = "attached"
    /\ attach \in {"no", "waiting"} => ~ stopped \/ boot # "up"
    /\ \A c \in Closers :
           /\ closer[c] # "idle" => attach = "attached"
           /\ owner = c => closer[c] \in {"stopping", "resolved"} /\ stopped
           /\ owner = c /\ closer[c] = "resolved" => down = "done"
    /\ attach = "failed" => down = "done"

ClientInv == EngineInv /\ ClientTypeOK /\ OwnerShape

(* Nobody has called anything yet. *)
LEMMA ClientStarts == ClientInit => ClientInv
<1> SUFFICES ASSUME ClientInit PROVE ClientInv
  OBVIOUS
<1>1. EngineInv
  BY EngineInit DEF ClientInit
<1>2. Closers \cap {"nobody", "attach"} = {}
  BY ClosersAssumption
<1> QED
  BY <1>1, <1>2 DEF ClientInit, Init, EngineInv, ClientInv, ClientTypeOK, OwnerShape

(* Every client step is an engine step, or leaves the engine alone. *)
LEMMA EngineUsed == ClientInv /\ [ClientNext]_vars => [Next]_engine
<1> SUFFICES ASSUME ClientInv, [ClientNext]_vars PROVE [Next]_engine
  OBVIOUS
<1>1. CASE EngineStep /\ UNCHANGED client
  BY <1>1 DEF Next
<1>2. CASE OpenSession \/ SessionReady \/ AttachFailed \/ HangUp \/ SessionCloses
  BY <1>2 DEF OpenSession, SessionReady, AttachFailed, HangUp, SessionCloses
<1>3. CASE AttachFails
  BY <1>3 DEF AttachFails, CallShutdown, Next, ClientInv, OwnerShape
<1>4. CASE \E c \in Closers : Close(c) \/ CloseResolves(c)
  BY <1>4 DEF Close, CloseResolves
<1>5. ASSUME NEW c \in Closers, CallsShutdown(c) PROVE [Next]_engine
  <2>1. CASE stopped
    BY <1>5, <2>1 DEF CallsShutdown, engine
  <2>2. CASE ~ stopped
    BY <1>5, <2>2 DEF CallsShutdown, CallShutdown, Next, ClientInv, OwnerShape
  <2> QED
    BY <2>1, <2>2
<1>6. CASE UNCHANGED vars
  BY <1>6 DEF vars
<1> QED
  BY <1>1, <1>2, <1>3, <1>4, <1>5, <1>6 DEF ClientNext

(* Every client step keeps the client's invariant. *)
LEMMA ClientKeeps == ClientInv /\ [ClientNext]_vars => ClientInv'
<1> SUFFICES ASSUME ClientInv, [ClientNext]_vars PROVE ClientInv'
  OBVIOUS
<1>1. EngineInv'
  BY EngineUsed, EngineKeeps DEF ClientInv
<1>2. TypeOK'
  BY <1>1 DEF EngineInv
<1>a. Closers \cap {"nobody", "attach"} = {}
  BY ClosersAssumption
<1>b. ClientTypeOK /\ OwnerShape
  BY DEF ClientInv
<1> SUFFICES ClientTypeOK' /\ OwnerShape'
  BY <1>1 DEF ClientInv
<1>3. CASE EngineStep /\ UNCHANGED client
  <2>1. /\ boot = "up" => boot' = "up"
        /\ stopped => stopped'
        /\ down = "done" => down' = "done"
        /\ boot' = "up" /\ stopped' => boot = "up" /\ stopped
    BY <1>3, EngineSettles DEF ClientInv
  <2> QED
    BY <1>2, <1>b, <1>3, <2>1 DEF client, ClientTypeOK, OwnerShape
<1>4. CASE OpenSession
  BY <1>2, <1>b, <1>4 DEF OpenSession, engine, ClientTypeOK, OwnerShape
<1>5. CASE SessionReady
  BY <1>2, <1>b, <1>5 DEF SessionReady, engine, ClientTypeOK, OwnerShape
<1>6. CASE AttachFails
  BY <1>2, <1>a, <1>b, <1>6 DEF AttachFails, StartShutdown, ClientTypeOK, OwnerShape
<1>7. CASE AttachFailed
  BY <1>2, <1>b, <1>7 DEF AttachFailed, engine, ClientTypeOK, OwnerShape
<1>8. CASE HangUp
  BY <1>2, <1>b, <1>8 DEF HangUp, engine, ClientTypeOK, OwnerShape
<1>9. CASE SessionCloses
  BY <1>2, <1>b, <1>9 DEF SessionCloses, engine, ClientTypeOK, OwnerShape
<1>10. ASSUME NEW c \in Closers, Close(c) PROVE ClientTypeOK' /\ OwnerShape'
  BY <1>2, <1>b, <1>10 DEF Close, engine, ClientTypeOK, OwnerShape
<1>11. ASSUME NEW c \in Closers, CallsShutdown(c) PROVE ClientTypeOK' /\ OwnerShape'
  BY <1>2, <1>a, <1>b, <1>11 DEF CallsShutdown, StartShutdown, ClientTypeOK, OwnerShape
<1>12. ASSUME NEW c \in Closers, CloseResolves(c) PROVE ClientTypeOK' /\ OwnerShape'
  BY <1>2, <1>b, <1>12 DEF CloseResolves, engine, ClientTypeOK, OwnerShape
<1>13. CASE UNCHANGED vars
  BY <1>2, <1>b, <1>13 DEF vars, client, engine, ClientTypeOK, OwnerShape
<1> QED
  BY <1>3, <1>4, <1>5, <1>6, <1>7, <1>8, <1>9, <1>10, <1>11, <1>12, <1>13 DEF ClientNext

(* The client's invariant holds, for any set of overlapping close() calls. *)
THEOREM ClientSafe == ClientSpec => []ClientInv
<1>1. ClientInv /\ [ClientNext]_vars => ClientInv'
  BY ClientKeeps
<1> QED
  BY ClientStarts, <1>1, PTL DEF ClientSpec

(* Type correctness of client and engine. *)
THEOREM ClientTypeCorrect == ClientSpec => []ClientTypeOK
<1>1. ClientInv => ClientTypeOK
  BY DEF ClientInv
<1> QED
  BY ClientSafe, <1>1, PTL

(* The coordinator serves as long as guest code runs, or has failed itself:  *)
(* no boot failure, timeout or close() stops the store under the server.     *)
THEOREM StoreSafe == ClientSpec => []StoreOutlivesServer
<1>1. ClientInv => StoreOutlivesServer
  BY DEF ClientInv, EngineInv
<1> QED
  BY ClientSafe, <1>1, PTL

(* A boot that failed leaves no worker running. *)
THEOREM NoOrphanAfterBoot == ClientSpec => []FailedBootReleases
<1>1. ClientInv => FailedBootReleases
  BY DEF ClientInv, EngineInv
<1> QED
  BY ClientSafe, <1>1, PTL

(* A shutdown that is done leaves no worker running. *)
THEOREM NoOrphanAfterShutdown == ClientSpec => []ShutdownReleases
<1>1. ClientInv => ShutdownReleases
  BY DEF ClientInv, EngineInv
<1> QED
  BY ClientSafe, <1>1, PTL

(* The close() that shut the engine down, and an attach that failed, report  *)
(* back only when nothing runs any more.                                     *)
THEOREM OwnerWaits == ClientSpec => []OwnerReleases
<1>1. ClientInv => OwnerReleases
  BY DEF ClientInv, EngineInv, OwnerShape, ShutdownReleases, OwnerReleases
<1> QED
  BY ClientSafe, <1>1, PTL

(* On no path of boot, attach, close() or shutdown() does a worker outlive   *)
(* the call that was to end it, for any number of calls of close().          *)
THEOREM NobodyIsLeft == ClientSpec => []NobodyLeft
<1>1. FailedBootReleases /\ ShutdownReleases /\ OwnerReleases => NobodyLeft
  BY DEF NobodyLeft
<1> QED
  BY <1>1, NoOrphanAfterBoot, NoOrphanAfterShutdown, OwnerWaits, PTL

(* The client implements the engine's specification: whatever its callers    *)
(* do, it uses the engine as the engine allows and shuts it down once.       *)
THEOREM ClientUsesEngine == ClientSpec => EngineSpec
<1>1. ClientInit => Init
  BY DEF ClientInit
<1>2. ClientInv /\ [ClientNext]_vars => [Next]_engine
  BY EngineUsed
<1> QED
  BY ClientSafe, <1>1, <1>2, PTL DEF ClientSpec, EngineSpec, Spec

-----------------------------------------------------------------------------
(* Its subscriptions: Listeners. *)

ACalls == [op : {"none", "listen", "unlisten", "clear", "transaction"},
           pc : {"done", "lock", "exec", "ok", "failed"},
           aim : Words \cup {<< >>}, name : Words \cup {<< >>}]
Subs == {"never", "asked", "pending", "on", "leaving", "left", "lost"}

Types ==
    /\ callbacks \in [Words -> SUBSET Subscribers]
    /\ keys \in SUBSET Words
    /\ listenMutex \in Seq(Subscribers)
    /\ txMutex \in Seq(Subscribers)
    /\ call \in [Subscribers -> ACalls]
    /\ tx \in [by : SUBSET Subscribers, staged : SUBSET Words, failed : BOOLEAN]
    /\ heard \in SUBSET Words
    /\ sub \in [Subscribers -> [Words -> Subs]]

Calls == {"listen", "unlisten", "clear"}

\* What a call is about, and where it is.
CallShape(c) ==
    /\ call[c].op \in Calls => call[c].name \in Words /\ call[c].aim \in Words
    /\ call[c].op \in {"listen", "clear"} => call[c].aim = call[c].name
    /\ call[c].op \in {"none", "transaction"} => call[c].pc \in {"done", "lock"}
    /\ call[c].op = "transaction" => ~ Inside(c)

\* Past the lock a call holds the listen mutex, and a transaction its own.
LocksAreHeld ==
    \A c \in Subscribers :
       /\ call[c].pc \in {"exec", "ok", "failed"} => HasMutex(listenMutex, c)
       /\ Inside(c) => HasMutex(txMutex, c)

\* A word the backend listens on, and does after the transaction in progress.
Kept(w) == w \in heard /\ (tx.by # {} => w \in tx.staged)

\* How a subscription stands while its call is on the way.
AskingShape(c) ==
    /\ call[c].op = "listen" =>
          /\ sub[c][call[c].aim] = "asked"
          /\ call[c].pc # "lock" => c \in callbacks[call[c].aim]
          /\ call[c].pc = "ok" => IF Inside(c) THEN call[c].aim \in tx.staged ELSE Kept(call[c].aim)
    /\ call[c].op = "unlisten" /\ call[c].pc = "lock" => sub[c][call[c].aim] = "leaving"

\* An UNLISTEN on its way takes the channel from nobody.
NobodyIsCut ==
    \A c, d \in Subscribers :
       call[c].op \in {"unlisten", "clear"} /\ call[c].pc = "exec"
          => sub[d][call[c].name] \notin {"pending", "on"}

StandsTrue(c, w) ==
    /\ sub[c][w] = "on" => c \in callbacks[w] /\ Kept(w)
    /\ sub[c][w] = "pending" => c \in callbacks[w] /\ Inside(c) /\ w \in tx.staged
    /\ sub[c][w] = "left" => c \notin callbacks[w]

CallsShape == \A c \in Subscribers : CallShape(c)
AskingIsTrue == \A c \in Subscribers : AskingShape(c)
SubsAreTrue == \A c \in Subscribers, w \in Words : StandsTrue(c, w)

ListenInv == Types /\ CallsShape /\ LocksAreHeld /\ AskingIsTrue /\ NobodyIsCut /\ SubsAreTrue
-----------------------------------------------------------------------------
(* The mutexes, and names.                                                  *)

LEMMA Appended ==
    ASSUME NEW q \in Seq(Subscribers), NEW c \in Subscribers
    PROVE  /\ Append(q, c) \in Seq(Subscribers)
           /\ \A d \in Subscribers : HasMutex(q, d) => HasMutex(Append(q, c), d)
BY DEF HasMutex

LEMMA OneHolder ==
    ASSUME NEW q, NEW c, NEW d, HasMutex(q, c), HasMutex(q, d)
    PROVE  c = d
BY DEF HasMutex

LEMMA HolderLeaves ==
    ASSUME NEW q \in Seq(Subscribers), NEW c, HasMutex(q, c)
    PROVE  Tail(q) \in Seq(Subscribers)
BY DEF HasMutex

LEMMA NamesAreWords ==
    ASSUME NEW s \in Spellings
    PROVE  toPostgresName(s) \in Words
BY DEF Spellings, toPostgresName, Folded, Words

LEMMA RespelledIsSpelled ==
    ASSUME NEW s \in Spellings
    PROVE  Respelled(s) \in Spellings
BY NamesAreWords DEF Respelled, Spellings

LEMMA ListenInitially == ListenInit => ListenInv
<1> SUFFICES ASSUME ListenInit PROVE ListenInv
  OBVIOUS
<1>1. Types /\ CallsShape
  BY DEF ListenInit, Types, CallsShape, CallShape, Calls, NoCall, ACall, ACalls, Subs, NoTx, Inside
<1>2. LocksAreHeld /\ AskingIsTrue /\ NobodyIsCut
  BY DEF ListenInit, LocksAreHeld, AskingIsTrue, AskingShape, NobodyIsCut, NoCall, ACall, NoTx, Inside
<1>3. SubsAreTrue
  BY DEF ListenInit, SubsAreTrue, StandsTrue
<1> QED
  BY <1>1, <1>2, <1>3 DEF ListenInv
-----------------------------------------------------------------------------
(* What the assignments of a step leave, read once.                         *)

Others(c) == \A d \in Subscribers : d # c => call'[d] = call[d]

LEMMA Becomes ==
    ASSUME Types, NEW c \in Subscribers, NEW x \in ACalls, call' = [call EXCEPT ![c] = x]
    PROVE  call' \in [Subscribers -> ACalls] /\ call'[c] = x /\ Others(c)
BY DEF Types, Others

Moved(c, pc) ==
    /\ call' \in [Subscribers -> ACalls] /\ Others(c)
    /\ call'[c].op = call[c].op /\ call'[c].pc = pc
    /\ call'[c].aim = call[c].aim /\ call'[c].name = call[c].name

LEMMA Moves ==
    ASSUME Types, NEW c \in Subscribers, NEW pc \in {"exec", "ok", "failed"}, Goes(c, pc)
    PROVE  Moved(c, pc)
<1> DEFINE x == [call[c] EXCEPT !.pc = pc]
<1>1. call[c] \in ACalls
  BY DEF Types
<1>2. x \in ACalls /\ x.pc = pc /\ x.op = call[c].op /\ x.aim = call[c].aim /\ x.name = call[c].name
  BY <1>1 DEF ACalls
<1>3. call' = [call EXCEPT ![c] = x]
  BY DEF Goes
<1> HIDE DEF x
<1> QED
  BY <1>2, <1>3, Becomes DEF Moved

LEMMA NoCallIsACall == /\ NoCall \in ACalls
                       /\ NoCall.op = "none" /\ NoCall.pc = "done"
BY DEF NoCall, ACall, ACalls

LEMMA ReturnsLeaves ==
    ASSUME Types, NEW c \in Subscribers, Returns(c), HasMutex(listenMutex, c)
    PROVE  /\ call' \in [Subscribers -> ACalls] /\ Others(c) /\ call'[c] = NoCall
           /\ listenMutex' \in Seq(Subscribers)
BY NoCallIsACall, Becomes, HolderLeaves DEF Returns, Types

LEMMA ExecutesWaits ==
    ASSUME Types, NEW c \in Subscribers, Executes(c)
    PROVE  /\ Moved(c, "exec") /\ txMutex' \in Seq(Subscribers)
           /\ \A d \in Subscribers : HasMutex(txMutex, d) => HasMutex(txMutex', d)
<1>1. Moved(c, "exec")
  BY Moves DEF Executes
<1>2. txMutex \in Seq(Subscribers)
  BY DEF Types
<1> QED
  BY <1>1, <1>2, Appended DEF Executes

\* sub is as it was, but for v.
Sets(c, w, v) ==
    /\ sub' \in [Subscribers -> [Words -> Subs]]
    /\ sub'[c][w] = v
    /\ \A d \in Subscribers, u \in Words : d # c \/ u # w => sub'[d][u] = sub[d][u]

LEMMA SetsOne ==
    ASSUME Types, NEW c \in Subscribers, NEW w \in Words, NEW v \in Subs,
           sub' = [sub EXCEPT ![c][w] = v]
    PROVE  Sets(c, w, v)
BY DEF Types, Sets

\* callbacks is as it was, but for c in w.
OnlyIn(c, w) ==
    /\ callbacks' \in [Words -> SUBSET Subscribers]
    /\ \A d \in Subscribers, u \in Words : d # c \/ u # w => (d \in callbacks'[u] <=> d \in callbacks[u])

LEMMA Adds ==
    ASSUME Types, NEW c \in Subscribers, NEW w \in Words,
           callbacks' = [callbacks EXCEPT ![w] = @ \cup {c}]
    PROVE  OnlyIn(c, w) /\ c \in callbacks'[w]
BY DEF Types, OnlyIn

LEMMA Drops ==
    ASSUME Types, NEW c \in Subscribers, NEW w \in Words,
           callbacks' = [callbacks EXCEPT ![w] = @ \ {c}]
    PROVE  OnlyIn(c, w) /\ c \notin callbacks'[w]
BY DEF Types, OnlyIn

-----------------------------------------------------------------------------
(* One lemma for each step.                                                 *)

LEMMA AskListenKeeps ==
    ASSUME ListenInv, NEW c \in Subscribers, NEW s \in Spellings, AskListen(c, s)
    PROVE  ListenInv'
<1> USE DEF ListenInv
<1>1. /\ call[c].op = "none"
      /\ call' \in [Subscribers -> ACalls] /\ Others(c)
      /\ call'[c].op = "listen" /\ call'[c].pc = "lock"
      /\ call'[c].aim = toPostgresName(s) /\ call'[c].name = toPostgresName(s) /\ toPostgresName(s) \in Words
      /\ listenMutex' \in Seq(Subscribers)
      /\ \A d \in Subscribers : HasMutex(listenMutex, d) => HasMutex(listenMutex', d)
      /\ UNCHANGED <<callbacks, keys, txMutex, tx, heard>>
      /\ Sets(c, toPostgresName(s), "asked") /\ sub[c][toPostgresName(s)] \in {"never", "left", "lost"}
  <2>. DEFINE aim == toPostgresName(s)
              x == ACall("listen", "lock", aim, aim)
  <2>1. aim \in Words /\ x \in ACalls /\ x.op = "listen" /\ x.pc = "lock" /\ x.aim = aim /\ x.name = aim
    BY NamesAreWords DEF ACall, ACalls
  <2>2. /\ call' = [call EXCEPT ![c] = x] /\ listenMutex' = Append(listenMutex, c)
        /\ Idle(c) /\ UNCHANGED <<callbacks, keys, txMutex, tx, heard>>
    BY NamesAreWords DEF AskListen, Asks, table, server
  <2>3. listenMutex \in Seq(Subscribers) /\ Types
    BY DEF Types
  <2>4. Sets(c, aim, "asked") /\ sub[c][aim] \in {"never", "left", "lost"}
    BY <2>1, <2>3, SetsOne DEF AskListen, Subs, Stands
  <2> HIDE DEF aim, x
  <2> QED
    BY <2>1, <2>2, <2>3, <2>4, Becomes, Appended DEF Idle, aim
<1> USE DEF Others, Moved, Sets, OnlyIn, Inside
<1>2. Types'
  BY <1>1 DEF Types
<1>3. CallsShape'
  <2>1. ASSUME NEW d \in Subscribers PROVE CallShape(d)'
    <3>1. CASE d = c
      BY <1>1, <3>1, NoCallIsACall, OneHolder DEF CallsShape, CallShape, Calls
    <3>2. CASE d # c
      BY <1>1, <3>2, NoCallIsACall, OneHolder DEF CallsShape, CallShape, Calls
    <3> QED
      BY <3>1, <3>2
  <2> QED
    BY <2>1 DEF CallsShape
<1>4. LocksAreHeld'
  BY <1>1, NoCallIsACall, OneHolder DEF LocksAreHeld, CallsShape, CallShape, Types
<1>5. AskingIsTrue'
  <2>1. ASSUME NEW d \in Subscribers PROVE AskingShape(d)'
    <3>1. CASE d = c
      BY <1>1, <3>1, NoCallIsACall, OneHolder DEF CallsShape, CallShape, Calls,
         LocksAreHeld, AskingIsTrue, AskingShape, Kept, Types, ACalls
    <3>2. CASE d # c
      BY <1>1, <3>2, NoCallIsACall, OneHolder DEF CallsShape, CallShape, Calls,
         LocksAreHeld, AskingIsTrue, AskingShape, Kept, Types, ACalls
    <3> QED
      BY <3>1, <3>2
  <2> QED
    BY <2>1 DEF AskingIsTrue
<1>6. NobodyIsCut'
  <2>1. ASSUME NEW d \in Subscribers, NEW e \in Subscribers,
               call'[d].op \in {"unlisten", "clear"}, call'[d].pc = "exec"
         PROVE sub'[e][call'[d].name] \notin {"pending", "on"}
    <3>1. CASE d = c
      BY <1>1, <2>1, <3>1, NoCallIsACall, OneHolder DEF CallsShape, CallShape, Calls,
         LocksAreHeld, NobodyIsCut, AskingIsTrue, AskingShape, SubsAreTrue, StandsTrue
    <3>2. CASE d # c
      BY <1>1, <2>1, <3>2, NoCallIsACall, OneHolder DEF CallsShape, CallShape, Calls,
         LocksAreHeld, NobodyIsCut, AskingIsTrue, AskingShape, SubsAreTrue, StandsTrue
    <3> QED
      BY <3>1, <3>2
  <2> QED
    BY <2>1 DEF NobodyIsCut
<1>7. SubsAreTrue'
  BY <1>1, NoCallIsACall, OneHolder DEF CallsShape, CallShape, Calls, LocksAreHeld,
     NobodyIsCut, AskingIsTrue, AskingShape, SubsAreTrue, StandsTrue, Kept
<1> QED
  BY <1>2, <1>3, <1>4, <1>5, <1>6, <1>7

LEMMA AskUnlistenKeeps ==
    ASSUME ListenInv, NEW c \in Subscribers, NEW s \in Spellings, AskUnlisten(c, s)
    PROVE  ListenInv'
<1> USE DEF ListenInv
<1>1. /\ call[c].op = "none"
      /\ call' \in [Subscribers -> ACalls] /\ Others(c)
      /\ call'[c].op = "unlisten" /\ call'[c].pc = "lock"
      /\ call'[c].aim = toPostgresName(s) /\ call'[c].name \in Words /\ toPostgresName(s) \in Words
      /\ listenMutex' \in Seq(Subscribers)
      /\ \A d \in Subscribers : HasMutex(listenMutex, d) => HasMutex(listenMutex', d)
      /\ UNCHANGED <<callbacks, keys, txMutex, tx, heard>>
      /\ Sets(c, toPostgresName(s), "leaving") /\ sub[c][toPostgresName(s)] \in {"pending", "on", "lost"}
  <2>. DEFINE aim == toPostgresName(s)
  <2>0. PICK name \in {s, Respelled(s)} : Asks(c, "unlisten", aim, name)
    BY DEF AskUnlisten
  <2>. DEFINE x == ACall("unlisten", "lock", aim, toPostgresName(name))
  <2>1. aim \in Words /\ x \in ACalls /\ x.op = "unlisten" /\ x.pc = "lock" /\ x.aim = aim /\ x.name \in Words
    BY <2>0, NamesAreWords, RespelledIsSpelled DEF ACall, ACalls
  <2>2. /\ call' = [call EXCEPT ![c] = x] /\ listenMutex' = Append(listenMutex, c)
        /\ Idle(c) /\ UNCHANGED <<callbacks, keys, txMutex, tx, heard>>
    BY <2>0 DEF Asks, table, server
  <2>3. listenMutex \in Seq(Subscribers) /\ Types
    BY DEF Types
  <2>4. Sets(c, aim, "leaving") /\ sub[c][aim] \in {"pending", "on", "lost"}
    BY <2>1, <2>3, SetsOne DEF AskUnlisten, Subs, Stands
  <2> HIDE DEF aim, x
  <2> QED
    BY <2>1, <2>2, <2>3, <2>4, Becomes, Appended DEF Idle, aim
<1> USE DEF Others, Moved, Sets, OnlyIn, Inside
<1>2. Types'
  BY <1>1 DEF Types
<1>3. CallsShape'
  <2>1. ASSUME NEW d \in Subscribers PROVE CallShape(d)'
    <3>1. CASE d = c
      BY <1>1, <3>1, NoCallIsACall, OneHolder DEF CallsShape, CallShape, Calls
    <3>2. CASE d # c
      BY <1>1, <3>2, NoCallIsACall, OneHolder DEF CallsShape, CallShape, Calls
    <3> QED
      BY <3>1, <3>2
  <2> QED
    BY <2>1 DEF CallsShape
<1>4. LocksAreHeld'
  BY <1>1, NoCallIsACall, OneHolder DEF LocksAreHeld, CallsShape, CallShape, Types
<1>5. AskingIsTrue'
  <2>1. ASSUME NEW d \in Subscribers PROVE AskingShape(d)'
    <3>1. CASE d = c
      BY <1>1, <3>1, NoCallIsACall, OneHolder DEF CallsShape, CallShape, Calls,
         LocksAreHeld, AskingIsTrue, AskingShape, Kept, Types, ACalls
    <3>2. CASE d # c
      BY <1>1, <3>2, NoCallIsACall, OneHolder DEF CallsShape, CallShape, Calls,
         LocksAreHeld, AskingIsTrue, AskingShape, Kept, Types, ACalls
    <3> QED
      BY <3>1, <3>2
  <2> QED
    BY <2>1 DEF AskingIsTrue
<1>6. NobodyIsCut'
  <2>1. ASSUME NEW d \in Subscribers, NEW e \in Subscribers,
               call'[d].op \in {"unlisten", "clear"}, call'[d].pc = "exec"
         PROVE sub'[e][call'[d].name] \notin {"pending", "on"}
    <3>1. CASE d = c
      BY <1>1, <2>1, <3>1, NoCallIsACall, OneHolder DEF CallsShape, CallShape, Calls,
         LocksAreHeld, NobodyIsCut, AskingIsTrue, AskingShape, SubsAreTrue, StandsTrue
    <3>2. CASE d # c
      BY <1>1, <2>1, <3>2, NoCallIsACall, OneHolder DEF CallsShape, CallShape, Calls,
         LocksAreHeld, NobodyIsCut, AskingIsTrue, AskingShape, SubsAreTrue, StandsTrue
    <3> QED
      BY <3>1, <3>2
  <2> QED
    BY <2>1 DEF NobodyIsCut
<1>7. SubsAreTrue'
  BY <1>1, NoCallIsACall, OneHolder DEF CallsShape, CallShape, Calls, LocksAreHeld,
     NobodyIsCut, AskingIsTrue, AskingShape, SubsAreTrue, StandsTrue, Kept
<1> QED
  BY <1>2, <1>3, <1>4, <1>5, <1>6, <1>7

LEMMA AskUnlistenAllKeeps ==
    ASSUME ListenInv, NEW c \in Subscribers, NEW s \in Spellings, AskUnlistenAll(c, s)
    PROVE  ListenInv'
<1> USE DEF ListenInv
<1>1. /\ call[c].op = "none"
      /\ call' \in [Subscribers -> ACalls] /\ Others(c)
      /\ call'[c].op = "clear" /\ call'[c].pc = "lock"
      /\ call'[c].aim = toPostgresName(s) /\ call'[c].name = toPostgresName(s) /\ toPostgresName(s) \in Words
      /\ listenMutex' \in Seq(Subscribers)
      /\ \A d \in Subscribers : HasMutex(listenMutex, d) => HasMutex(listenMutex', d)
      /\ UNCHANGED <<callbacks, keys, txMutex, tx, heard>>
      /\ sub' = sub
  <2>. DEFINE aim == toPostgresName(s)
              x == ACall("clear", "lock", aim, aim)
  <2>1. aim \in Words /\ x \in ACalls /\ x.op = "clear" /\ x.pc = "lock" /\ x.aim = aim /\ x.name = aim
    BY NamesAreWords DEF ACall, ACalls
  <2>2. /\ call' = [call EXCEPT ![c] = x] /\ listenMutex' = Append(listenMutex, c)
        /\ Idle(c) /\ UNCHANGED <<callbacks, keys, txMutex, tx, heard>>
    BY NamesAreWords DEF AskUnlistenAll, Asks, table, server
  <2>3. listenMutex \in Seq(Subscribers) /\ Types
    BY DEF Types
  <2>4. sub' = sub
    BY <2>1, <2>3, SetsOne DEF AskUnlistenAll, Subs, Stands
  <2> HIDE DEF aim, x
  <2> QED
    BY <2>1, <2>2, <2>3, <2>4, Becomes, Appended DEF Idle, aim
<1> USE DEF Others, Moved, Sets, OnlyIn, Inside
<1>2. Types'
  BY <1>1 DEF Types
<1>3. CallsShape'
  <2>1. ASSUME NEW d \in Subscribers PROVE CallShape(d)'
    <3>1. CASE d = c
      BY <1>1, <3>1, NoCallIsACall, OneHolder DEF CallsShape, CallShape, Calls
    <3>2. CASE d # c
      BY <1>1, <3>2, NoCallIsACall, OneHolder DEF CallsShape, CallShape, Calls
    <3> QED
      BY <3>1, <3>2
  <2> QED
    BY <2>1 DEF CallsShape
<1>4. LocksAreHeld'
  BY <1>1, NoCallIsACall, OneHolder DEF LocksAreHeld, CallsShape, CallShape, Types
<1>5. AskingIsTrue'
  <2>1. ASSUME NEW d \in Subscribers PROVE AskingShape(d)'
    <3>1. CASE d = c
      BY <1>1, <3>1, NoCallIsACall, OneHolder DEF CallsShape, CallShape, Calls,
         LocksAreHeld, AskingIsTrue, AskingShape, Kept, Types, ACalls
    <3>2. CASE d # c
      BY <1>1, <3>2, NoCallIsACall, OneHolder DEF CallsShape, CallShape, Calls,
         LocksAreHeld, AskingIsTrue, AskingShape, Kept, Types, ACalls
    <3> QED
      BY <3>1, <3>2
  <2> QED
    BY <2>1 DEF AskingIsTrue
<1>6. NobodyIsCut'
  BY <1>1, NoCallIsACall, OneHolder DEF CallsShape, CallShape, Calls, LocksAreHeld,
     NobodyIsCut, AskingIsTrue, AskingShape, SubsAreTrue, StandsTrue
<1>7. SubsAreTrue'
  BY <1>1, NoCallIsACall, OneHolder DEF CallsShape, CallShape, Calls, LocksAreHeld,
     NobodyIsCut, AskingIsTrue, AskingShape, SubsAreTrue, StandsTrue, Kept
<1> QED
  BY <1>2, <1>3, <1>4, <1>5, <1>6, <1>7

LEMMA AskTransactionKeeps ==
    ASSUME ListenInv, NEW c \in Subscribers, AskTransaction(c)
    PROVE  ListenInv'
<1> USE DEF ListenInv
<1>1. /\ call[c].op = "none" /\ ~ Inside(c)
      /\ call' \in [Subscribers -> ACalls] /\ Others(c)
      /\ call'[c].op = "transaction" /\ call'[c].pc = "lock"
      /\ txMutex' \in Seq(Subscribers)
      /\ \A d \in Subscribers : HasMutex(txMutex, d) => HasMutex(txMutex', d)
      /\ UNCHANGED <<callbacks, keys, listenMutex, tx, heard, sub>>
  <2>. DEFINE x == ACall("transaction", "lock", << >>, << >>)
  <2>1. x \in ACalls /\ x.op = "transaction" /\ x.pc = "lock"
    BY DEF ACall, ACalls
  <2>2. /\ call' = [call EXCEPT ![c] = x] /\ txMutex' = Append(txMutex, c)
        /\ Idle(c) /\ ~ Inside(c) /\ UNCHANGED <<callbacks, keys, listenMutex, tx, heard, sub>>
    BY DEF AskTransaction, table, server
  <2>3. txMutex \in Seq(Subscribers) /\ Types
    BY DEF Types
  <2> HIDE DEF x
  <2> QED
    BY <2>1, <2>2, <2>3, Becomes, Appended DEF Idle
<1> USE DEF Others, Moved, Sets, OnlyIn, Inside
<1>2. Types'
  BY <1>1 DEF Types
<1>3. CallsShape'
  <2>1. ASSUME NEW d \in Subscribers PROVE CallShape(d)'
    <3>1. CASE d = c
      BY <1>1, <3>1, NoCallIsACall, OneHolder DEF CallsShape, CallShape, Calls
    <3>2. CASE d # c
      BY <1>1, <3>2, NoCallIsACall, OneHolder DEF CallsShape, CallShape, Calls
    <3> QED
      BY <3>1, <3>2
  <2> QED
    BY <2>1 DEF CallsShape
<1>4. LocksAreHeld'
  BY <1>1, NoCallIsACall, OneHolder DEF LocksAreHeld, CallsShape, CallShape, Types
<1>5. AskingIsTrue'
  <2>1. ASSUME NEW d \in Subscribers PROVE AskingShape(d)'
    <3>1. CASE d = c
      BY <1>1, <3>1, NoCallIsACall, OneHolder DEF CallsShape, CallShape, Calls,
         LocksAreHeld, AskingIsTrue, AskingShape, Kept, Types, ACalls
    <3>2. CASE d # c
      BY <1>1, <3>2, NoCallIsACall, OneHolder DEF CallsShape, CallShape, Calls,
         LocksAreHeld, AskingIsTrue, AskingShape, Kept, Types, ACalls
    <3> QED
      BY <3>1, <3>2
  <2> QED
    BY <2>1 DEF AskingIsTrue
<1>6. NobodyIsCut'
  BY <1>1, NoCallIsACall, OneHolder DEF CallsShape, CallShape, Calls, LocksAreHeld,
     NobodyIsCut, AskingIsTrue, AskingShape, SubsAreTrue, StandsTrue
<1>7. SubsAreTrue'
  BY <1>1, NoCallIsACall, OneHolder DEF CallsShape, CallShape, Calls, LocksAreHeld,
     NobodyIsCut, AskingIsTrue, AskingShape, SubsAreTrue, StandsTrue, Kept
<1> QED
  BY <1>2, <1>3, <1>4, <1>5, <1>6, <1>7

LEMMA StatementFailsKeeps ==
    ASSUME ListenInv, NEW c \in Subscribers, StatementFails(c)
    PROVE  ListenInv'
<1> USE DEF ListenInv
<1>1. /\ tx'.by = tx.by /\ tx'.staged = tx.staged
      /\ tx' \in [by : SUBSET Subscribers, staged : SUBSET Words, failed : BOOLEAN]
      /\ UNCHANGED <<callbacks, keys, listenMutex, txMutex, call, heard, sub>>
  BY DEF StatementFails, table, Types
<1> USE DEF Others, Moved, Sets, OnlyIn, Inside
<1>2. Types'
  BY <1>1 DEF Types
<1>3. CallsShape'
  BY <1>1, NoCallIsACall, OneHolder DEF CallsShape, CallShape, Calls
<1>4. LocksAreHeld'
  BY <1>1, NoCallIsACall, OneHolder DEF LocksAreHeld, CallsShape, CallShape, Types
<1>5. AskingIsTrue'
  BY <1>1, NoCallIsACall, OneHolder DEF CallsShape, CallShape, Calls, LocksAreHeld,
     AskingIsTrue, AskingShape, Kept, Types, ACalls
<1>6. NobodyIsCut'
  BY <1>1, NoCallIsACall, OneHolder DEF CallsShape, CallShape, Calls, LocksAreHeld,
     NobodyIsCut, AskingIsTrue, AskingShape, SubsAreTrue, StandsTrue
<1>7. SubsAreTrue'
  BY <1>1, NoCallIsACall, OneHolder DEF CallsShape, CallShape, Calls, LocksAreHeld,
     NobodyIsCut, AskingIsTrue, AskingShape, SubsAreTrue, StandsTrue, Kept
<1> QED
  BY <1>2, <1>3, <1>4, <1>5, <1>6, <1>7

LEMMA AddCallbackKeeps ==
    ASSUME ListenInv, NEW c \in Subscribers, AddCallback(c)
    PROVE  ListenInv'
<1> USE DEF ListenInv
<1>1. /\ call[c].op = "listen" /\ call[c].pc = "lock" /\ HasMutex(listenMutex, c)
      /\ OnlyIn(c, call[c].aim) /\ c \in callbacks'[call[c].aim]
      /\ Moved(c, "exec") /\ txMutex' \in Seq(Subscribers)
      /\ \A d \in Subscribers : HasMutex(txMutex, d) => HasMutex(txMutex', d)
      /\ keys' \in SUBSET Words
      /\ UNCHANGED <<listenMutex, tx, heard, sub>>
  <2>1. Types
    BY DEF Types
  <2>2. call[c].name \in Words /\ call[c].aim = call[c].name
    BY DEF AddCallback, At, CallsShape, CallShape, Calls
  <2> QED
    BY <2>1, <2>2, Adds, ExecutesWaits DEF AddCallback, At, server, Types
<1> USE DEF Others, Moved, Sets, OnlyIn, Inside
<1>2. Types'
  BY <1>1 DEF Types
<1>3. CallsShape'
  BY <1>1, NoCallIsACall, OneHolder DEF CallsShape, CallShape, Calls
<1>4. LocksAreHeld'
  BY <1>1, NoCallIsACall, OneHolder DEF LocksAreHeld, CallsShape, CallShape, Types
<1>5. AskingIsTrue'
  <2>1. ASSUME NEW d \in Subscribers PROVE AskingShape(d)'
    <3>1. CASE d = c
      BY <1>1, <3>1 DEF AskingIsTrue, AskingShape
    <3>2. CASE d # c
      <4>1. call'[d] = call[d] /\ AskingShape(d) /\ CallShape(d)
        BY <1>1, <3>2 DEF AskingIsTrue, CallsShape
      <4>2. call[d].op = "listen" => (d \in callbacks'[call[d].aim] <=> d \in callbacks[call[d].aim])
        BY <1>1, <3>2, <4>1 DEF CallShape, Calls
      <4> QED
        BY <1>1, <4>1, <4>2 DEF AskingShape, Kept
    <3> QED
      BY <3>1, <3>2
  <2> QED
    BY <2>1 DEF AskingIsTrue
<1>6. NobodyIsCut'
  BY <1>1, NoCallIsACall, OneHolder DEF CallsShape, CallShape, Calls, LocksAreHeld,
     NobodyIsCut, AskingIsTrue, AskingShape, SubsAreTrue, StandsTrue
<1>7. SubsAreTrue'
  BY <1>1, NoCallIsACall, OneHolder DEF CallsShape, CallShape, Calls, LocksAreHeld,
     NobodyIsCut, AskingIsTrue, AskingShape, SubsAreTrue, StandsTrue, Kept
<1> QED
  BY <1>2, <1>3, <1>4, <1>5, <1>6, <1>7

\* What letting go of w leaves: c is subscribed to nothing more than it was,
\* not to w, and thinks to have left nothing else.
LetsGo(c, w) ==
    /\ sub' \in [Subscribers -> [Words -> Subs]]
    /\ \A d \in Subscribers, u \in Words : d # c => sub'[d][u] = sub[d][u]
    /\ \A u \in Words :
          \/ sub'[c][u] = sub[c][u] /\ (u = w => sub[c][u] \notin {"pending", "on"})
          \/ sub'[c][u] = "left" /\ u = w
          \/ sub'[c][u] = "lost"

LEMMA LetsGoOfOne ==
    ASSUME Types, NEW c \in Subscribers, call[c].name \in Words, call[c].aim \in Words, sub' = LetGo(c)
    PROVE  LetsGo(c, call[c].name)
<1>1. CASE call[c].name = call[c].aim
  <2>1. sub' = [sub EXCEPT ![c][call[c].name] = "left"]
    BY <1>1 DEF LetGo, Left
  <2>2. Sets(c, call[c].name, "left")
    BY <2>1, SetsOne DEF Subs
  <2> QED
    BY <2>2 DEF Sets, LetsGo
<1>2. CASE call[c].name # call[c].aim
  <2>1. sub' = [sub EXCEPT ![c] = [u \in Words |->
             IF u = call[c].aim \/ (u = call[c].name /\ Stands(c, u)) THEN "lost" ELSE @[u]]]
    BY <1>2 DEF LetGo
  <2> QED
    BY <2>1 DEF LetsGo, Types, Subs, Stands
<1> QED
  BY <1>1, <1>2

LEMMA DeleteCallbackKeeps ==
    ASSUME ListenInv, NEW c \in Subscribers, DeleteCallback(c)
    PROVE  ListenInv'
<1> USE DEF ListenInv
<1>1. /\ call[c].op = "unlisten" /\ call[c].pc = "lock" /\ HasMutex(listenMutex, c)
      /\ OnlyIn(c, call[c].name) /\ c \notin callbacks'[call[c].name] /\ call[c].name \in Words
      /\ LetsGo(c, call[c].name)
      /\ UNCHANGED <<keys, tx, heard>>
      /\ \/ /\ callbacks[call[c].name] \subseteq {c} /\ Moved(c, "exec") /\ txMutex' \in Seq(Subscribers)
            /\ \A d \in Subscribers : HasMutex(txMutex, d) => HasMutex(txMutex', d)
            /\ UNCHANGED listenMutex
         \/ /\ call' \in [Subscribers -> ACalls] /\ Others(c) /\ call'[c] = NoCall
            /\ listenMutex' \in Seq(Subscribers) /\ UNCHANGED txMutex
  <2>1. Types
    BY DEF Types
  <2>2. call[c].name \in Words /\ call[c].aim \in Words
    BY DEF DeleteCallback, At, CallsShape, CallShape, Calls
  <2>3. LetsGo(c, call[c].name)
    BY <2>1, <2>2, LetsGoOfOne DEF DeleteCallback
  <2> QED
    BY <2>1, <2>2, <2>3, Drops, ExecutesWaits, ReturnsLeaves DEF DeleteCallback, At, server
<1> USE DEF Others, Moved, LetsGo, OnlyIn, Inside
<1>2. Types'
  BY <1>1 DEF Types
<1>3. CallsShape'
  <2>1. ASSUME NEW d \in Subscribers PROVE CallShape(d)'
    <3>1. CASE d = c
      BY <1>1, <3>1, NoCallIsACall, OneHolder DEF CallsShape, CallShape, Calls
    <3>2. CASE d # c
      BY <1>1, <3>2, NoCallIsACall, OneHolder DEF CallsShape, CallShape, Calls
    <3> QED
      BY <3>1, <3>2
  <2> QED
    BY <2>1 DEF CallsShape
<1>4. LocksAreHeld'
  BY <1>1, NoCallIsACall, OneHolder DEF LocksAreHeld, CallsShape, CallShape, Types
<1>5. AskingIsTrue'
  <2>1. ASSUME NEW d \in Subscribers PROVE AskingShape(d)'
    <3>1. CASE d = c
      BY <1>1, <3>1, NoCallIsACall, OneHolder DEF CallsShape, CallShape, Calls,
         LocksAreHeld, AskingIsTrue, AskingShape, Kept, Types, ACalls
    <3>2. CASE d # c
      BY <1>1, <3>2, NoCallIsACall, OneHolder DEF CallsShape, CallShape, Calls,
         LocksAreHeld, AskingIsTrue, AskingShape, Kept, Types, ACalls
    <3> QED
      BY <3>1, <3>2
  <2> QED
    BY <2>1 DEF AskingIsTrue
<1>6. NobodyIsCut'
  <2>1. ASSUME NEW d \in Subscribers, NEW e \in Subscribers,
               call'[d].op \in {"unlisten", "clear"}, call'[d].pc = "exec"
         PROVE sub'[e][call'[d].name] \notin {"pending", "on"}
    <3>1. CASE d = c
      BY <1>1, <2>1, <3>1, NoCallIsACall, OneHolder DEF CallsShape, CallShape, Calls,
         LocksAreHeld, NobodyIsCut, AskingIsTrue, AskingShape, SubsAreTrue, StandsTrue
    <3>2. CASE d # c
      BY <1>1, <2>1, <3>2, OneHolder DEF LocksAreHeld, Others, Moved
    <3> QED
      BY <3>1, <3>2
  <2> QED
    BY <2>1 DEF NobodyIsCut
<1>7. SubsAreTrue'
  BY <1>1, NoCallIsACall, OneHolder DEF CallsShape, CallShape, Calls, LocksAreHeld,
     NobodyIsCut, AskingIsTrue, AskingShape, SubsAreTrue, StandsTrue, Kept
<1> QED
  BY <1>2, <1>3, <1>4, <1>5, <1>6, <1>7

LEMMA ClearKeeps ==
    ASSUME ListenInv, NEW c \in Subscribers, Clear(c)
    PROVE  ListenInv'
<1> USE DEF ListenInv
<1>1. /\ call[c].op = "clear" /\ call[c].pc = "lock" /\ HasMutex(listenMutex, c)
      /\ Moved(c, "exec") /\ txMutex' \in Seq(Subscribers)
      /\ \A d \in Subscribers : HasMutex(txMutex, d) => HasMutex(txMutex', d)
      /\ sub' \in [Subscribers -> [Words -> Subs]]
      /\ \A d \in Subscribers, u \in Words : sub'[d][u] = sub[d][u] \/ (sub'[d][u] = "lost" /\ sub[d][u] \in {"pending", "on"})
      /\ \A d \in Subscribers : sub'[d][call[c].name] \notin {"pending", "on"}
      /\ UNCHANGED <<callbacks, keys, listenMutex, tx, heard>>
  <2>1. Types
    BY DEF Types
  <2>2. call[c].name \in Words /\ call[c].aim = call[c].name
    BY DEF Clear, At, CallsShape, CallShape, Calls
  <2> QED
    BY <2>1, <2>2, ExecutesWaits DEF Clear, At, Stands, table, server, Types, Subs
<1> USE DEF Others, Moved, Sets, OnlyIn, Inside
<1>2. Types'
  BY <1>1 DEF Types
<1>3. CallsShape'
  <2>1. ASSUME NEW d \in Subscribers PROVE CallShape(d)'
    <3>1. CASE d = c
      BY <1>1, <3>1, NoCallIsACall, OneHolder DEF CallsShape, CallShape, Calls
    <3>2. CASE d # c
      BY <1>1, <3>2, NoCallIsACall, OneHolder DEF CallsShape, CallShape, Calls
    <3> QED
      BY <3>1, <3>2
  <2> QED
    BY <2>1 DEF CallsShape
<1>4. LocksAreHeld'
  <2>1. \A d \in Subscribers : call'[d].pc \in {"exec", "ok", "failed"} => HasMutex(listenMutex, d)
    BY <1>1 DEF LocksAreHeld, Others, Moved
  <2>2. \A d \in Subscribers : Inside(d)' => HasMutex(txMutex', d)
    BY <1>1 DEF LocksAreHeld, Inside
  <2>3. listenMutex' = listenMutex
    BY <1>1
  <2> QED
    BY <2>1, <2>2, <2>3 DEF LocksAreHeld
<1>5. AskingIsTrue'
  <2>1. ASSUME NEW d \in Subscribers PROVE AskingShape(d)'
    <3>1. CASE d = c
      BY <1>1, <3>1, NoCallIsACall, OneHolder DEF CallsShape, CallShape, Calls,
         LocksAreHeld, AskingIsTrue, AskingShape, Kept, Types, ACalls
    <3>2. CASE d # c
      <4>1. call'[d] = call[d] /\ AskingShape(d) /\ CallShape(d)
        BY <1>1, <3>2 DEF Others, Moved, AskingIsTrue, CallsShape
      <4>2. call[d].op = "listen" \/ (call[d].op = "unlisten" /\ call[d].pc = "lock") => sub'[d][call[d].aim] = sub[d][call[d].aim]
        BY <1>1, <4>1 DEF CallShape, Calls, AskingShape
      <4> QED
        BY <1>1, <4>1, <4>2 DEF AskingShape, Kept, Inside
    <3> QED
      BY <3>1, <3>2
  <2> QED
    BY <2>1 DEF AskingIsTrue
<1>6. NobodyIsCut'
  <2>1. ASSUME NEW d \in Subscribers, NEW e \in Subscribers,
               call'[d].op \in {"unlisten", "clear"}, call'[d].pc = "exec"
         PROVE sub'[e][call'[d].name] \notin {"pending", "on"}
    <3>1. CASE d = c
      BY <1>1, <2>1, <3>1, NoCallIsACall, OneHolder DEF CallsShape, CallShape, Calls,
         LocksAreHeld, NobodyIsCut, AskingIsTrue, AskingShape, SubsAreTrue, StandsTrue
    <3>2. CASE d # c
      BY <1>1, <2>1, <3>2, NoCallIsACall, OneHolder DEF CallsShape, CallShape, Calls,
         LocksAreHeld, NobodyIsCut, AskingIsTrue, AskingShape, SubsAreTrue, StandsTrue
    <3> QED
      BY <3>1, <3>2
  <2> QED
    BY <2>1 DEF NobodyIsCut
<1>7. SubsAreTrue'
  BY <1>1, NoCallIsACall, OneHolder DEF CallsShape, CallShape, Calls, LocksAreHeld,
     NobodyIsCut, AskingIsTrue, AskingShape, SubsAreTrue, StandsTrue, Kept
<1> QED
  BY <1>2, <1>3, <1>4, <1>5, <1>6, <1>7

LEMMA AloneKeeps ==
    ASSUME ListenInv, NEW c \in Subscribers, Alone(c)
    PROVE  ListenInv'
<1> USE DEF ListenInv
<1>1. /\ call[c].pc = "exec" /\ ~ Inside(c) /\ tx.by = {} /\ HasMutex(listenMutex, c)
      /\ call[c].op \in Calls /\ call[c].name \in Words
      /\ txMutex' \in Seq(Subscribers)
      /\ \/ /\ Moved(c, "ok") /\ heard' \in SUBSET Words
            /\ call[c].op = "listen" => heard' = heard \cup {call[c].name}
            /\ call[c].op # "listen" => heard' = heard \ {call[c].name}
         \/ Moved(c, "failed") /\ heard' = heard
      /\ UNCHANGED <<callbacks, keys, listenMutex, tx, sub>>
  <2>1. Types /\ call[c].pc = "exec" /\ ~ Inside(c) /\ HasMutex(txMutex, c) /\ HasMutex(listenMutex, c)
    BY DEF Alone, LocksAreHeld, Types
  <2>2. call[c].op \in Calls /\ call[c].name \in Words
    BY <2>1 DEF CallsShape, CallShape, Calls, Types, ACalls
  <2>3. tx.by = {}
    <3>1. ASSUME NEW d \in Subscribers, Inside(d) PROVE FALSE
      BY <2>1, <3>1, OneHolder DEF LocksAreHeld
    <3> QED
      BY <2>1, <3>1 DEF Inside, Types
  <2>4. txMutex' \in Seq(Subscribers)
    BY <2>1, HolderLeaves DEF Alone, Types
  <2>5. Goes(c, "ok") => Moved(c, "ok")
    BY <2>1, Moves
  <2>6. Goes(c, "failed") => Moved(c, "failed")
    BY <2>1, Moves
  <2> QED
    BY <2>1, <2>2, <2>3, <2>4, <2>5, <2>6 DEF Alone, Effect, table, Types
<1> USE DEF Others, Moved, Sets, OnlyIn, Inside
<1>2. Types'
  BY <1>1 DEF Types
<1>3. CallsShape'
  <2>1. ASSUME NEW d \in Subscribers PROVE CallShape(d)'
    <3>1. CASE d = c
      BY <1>1, <3>1, NoCallIsACall, OneHolder DEF CallsShape, CallShape, Calls
    <3>2. CASE d # c
      BY <1>1, <3>2, NoCallIsACall, OneHolder DEF CallsShape, CallShape, Calls
    <3> QED
      BY <3>1, <3>2
  <2> QED
    BY <2>1 DEF CallsShape
<1>4. LocksAreHeld'
  BY <1>1, NoCallIsACall, OneHolder DEF LocksAreHeld, CallsShape, CallShape, Types
<1>5. AskingIsTrue'
  <2>1. ASSUME NEW d \in Subscribers PROVE AskingShape(d)'
    <3>1. CASE d = c
      BY <1>1, <3>1, NoCallIsACall, OneHolder DEF CallsShape, CallShape, Calls,
         LocksAreHeld, AskingIsTrue, AskingShape, Kept, Types, ACalls
    <3>2. CASE d # c
      BY <1>1, <3>2, NoCallIsACall, OneHolder DEF CallsShape, CallShape, Calls,
         LocksAreHeld, AskingIsTrue, AskingShape, Kept, Types, ACalls
    <3> QED
      BY <3>1, <3>2
  <2> QED
    BY <2>1 DEF AskingIsTrue
<1>6. NobodyIsCut'
  BY <1>1, NoCallIsACall, OneHolder DEF CallsShape, CallShape, Calls, LocksAreHeld,
     NobodyIsCut, AskingIsTrue, AskingShape, SubsAreTrue, StandsTrue
<1>7. SubsAreTrue'
  BY <1>1, NoCallIsACall, OneHolder DEF CallsShape, CallShape, Calls, LocksAreHeld,
     NobodyIsCut, AskingIsTrue, AskingShape, SubsAreTrue, StandsTrue, Kept
<1> QED
  BY <1>2, <1>3, <1>4, <1>5, <1>6, <1>7

LEMMA InTransactionKeeps ==
    ASSUME ListenInv, NEW c \in Subscribers, InTransaction(c)
    PROVE  ListenInv'
<1> USE DEF ListenInv
<1>1. /\ call[c].pc = "exec" /\ Inside(c) /\ HasMutex(listenMutex, c)
      /\ call[c].op \in Calls /\ call[c].name \in Words
      /\ tx'.by = tx.by /\ tx' \in [by : SUBSET Subscribers, staged : SUBSET Words, failed : BOOLEAN]
      /\ \/ /\ Moved(c, "ok")
            /\ call[c].op = "listen" => tx'.staged = tx.staged \cup {call[c].name}
            /\ call[c].op # "listen" => tx'.staged = tx.staged \ {call[c].name}
         \/ Moved(c, "failed") /\ tx'.staged = tx.staged
      /\ UNCHANGED <<callbacks, keys, listenMutex, txMutex, heard, sub>>
  <2>1. Types /\ call[c].pc = "exec" /\ Inside(c) /\ HasMutex(listenMutex, c)
    BY DEF InTransaction, LocksAreHeld, Types
  <2>2. call[c].op \in Calls /\ call[c].name \in Words
    BY <2>1 DEF CallsShape, CallShape, Calls, Types, ACalls
  <2>3. Goes(c, "ok") => Moved(c, "ok")
    BY <2>1, Moves
  <2>4. Goes(c, "failed") => Moved(c, "failed")
    BY <2>1, Moves
  <2>5. CASE tx' = tx /\ Goes(c, "failed")
    BY <2>1, <2>2, <2>4, <2>5 DEF InTransaction, table, Types
  <2>6. CASE tx' = [tx EXCEPT !.staged = Effect(c, @)] /\ Goes(c, "ok")
    <3>1. /\ tx'.by = tx.by /\ tx'.staged = Effect(c, tx.staged)
          /\ tx' \in [by : SUBSET Subscribers, staged : SUBSET Words, failed : BOOLEAN]
      BY <2>2, <2>6 DEF Effect, Types
    <3> QED
      BY <2>1, <2>2, <2>3, <2>6, <3>1 DEF InTransaction, Effect, table
  <2> QED
    BY <2>5, <2>6 DEF InTransaction
<1> USE DEF Others, Moved, Sets, OnlyIn, Inside
<1>2. Types'
  BY <1>1 DEF Types
<1>3. CallsShape'
  BY <1>1, NoCallIsACall, OneHolder DEF CallsShape, CallShape, Calls
<1>4. LocksAreHeld'
  BY <1>1, NoCallIsACall, OneHolder DEF LocksAreHeld, CallsShape, CallShape, Types
<1>5. AskingIsTrue'
  BY <1>1, NoCallIsACall, OneHolder DEF CallsShape, CallShape, Calls, LocksAreHeld,
     AskingIsTrue, AskingShape, Kept, Types, ACalls
<1>6. NobodyIsCut'
  BY <1>1, NoCallIsACall, OneHolder DEF CallsShape, CallShape, Calls, LocksAreHeld,
     NobodyIsCut, AskingIsTrue, AskingShape, SubsAreTrue, StandsTrue
<1>7. SubsAreTrue'
  BY <1>1, NoCallIsACall, OneHolder DEF CallsShape, CallShape, Calls, LocksAreHeld,
     NobodyIsCut, AskingIsTrue, AskingShape, SubsAreTrue, StandsTrue, Kept
<1> QED
  BY <1>2, <1>3, <1>4, <1>5, <1>6, <1>7

LEMMA ListenedKeeps ==
    ASSUME ListenInv, NEW c \in Subscribers, Listened(c)
    PROVE  ListenInv'
<1> USE DEF ListenInv
<1>1. /\ call[c].op = "listen" /\ call[c].pc = "ok" /\ HasMutex(listenMutex, c) /\ call[c].aim \in Words
      /\ call' \in [Subscribers -> ACalls] /\ Others(c) /\ call'[c] = NoCall
      /\ listenMutex' \in Seq(Subscribers)
      /\ IF Inside(c) THEN Sets(c, call[c].aim, "pending") ELSE Sets(c, call[c].aim, "on")
      /\ UNCHANGED <<callbacks, keys, txMutex, tx, heard>>
  <2>1. Types /\ HasMutex(listenMutex, c) /\ call[c].name \in Words /\ call[c].aim = call[c].name
    BY DEF Listened, At, LocksAreHeld, CallsShape, CallShape, Calls, Types
  <2>2. call' \in [Subscribers -> ACalls] /\ Others(c) /\ call'[c] = NoCall /\ listenMutex' \in Seq(Subscribers)
    BY <2>1, ReturnsLeaves DEF Listened
  <2>3. IF Inside(c) THEN Sets(c, call[c].aim, "pending") ELSE Sets(c, call[c].aim, "on")
    BY <2>1, SetsOne DEF Listened, Subs
  <2> QED
    BY <2>1, <2>2, <2>3 DEF Listened, At, table, server
<1> USE DEF Others, Moved, Sets, OnlyIn, Inside
<1>2. Types'
  BY <1>1 DEF Types
<1>3. CallsShape'
  <2>1. ASSUME NEW d \in Subscribers PROVE CallShape(d)'
    <3>1. CASE d = c
      BY <1>1, <3>1, NoCallIsACall, OneHolder DEF CallsShape, CallShape, Calls
    <3>2. CASE d # c
      BY <1>1, <3>2, NoCallIsACall, OneHolder DEF CallsShape, CallShape, Calls
    <3> QED
      BY <3>1, <3>2
  <2> QED
    BY <2>1 DEF CallsShape
<1>4. LocksAreHeld'
  BY <1>1, NoCallIsACall, OneHolder DEF LocksAreHeld, CallsShape, CallShape, Types
<1>5. AskingIsTrue'
  <2>1. ASSUME NEW d \in Subscribers PROVE AskingShape(d)'
    <3>1. CASE d = c
      BY <1>1, <3>1, NoCallIsACall, OneHolder DEF CallsShape, CallShape, Calls,
         LocksAreHeld, AskingIsTrue, AskingShape, Kept, Types, ACalls
    <3>2. CASE d # c
      BY <1>1, <3>2, NoCallIsACall, OneHolder DEF CallsShape, CallShape, Calls,
         LocksAreHeld, AskingIsTrue, AskingShape, Kept, Types, ACalls
    <3> QED
      BY <3>1, <3>2
  <2> QED
    BY <2>1 DEF AskingIsTrue
<1>6. NobodyIsCut'
  BY <1>1, NoCallIsACall, OneHolder DEF CallsShape, CallShape, Calls, LocksAreHeld,
     NobodyIsCut, AskingIsTrue, AskingShape, SubsAreTrue, StandsTrue
<1>7. SubsAreTrue'
  <2>1. ASSUME NEW d \in Subscribers, NEW u \in Words PROVE StandsTrue(d, u)'
    <3>1. CASE d = c
      BY <1>1, <3>1, NoCallIsACall, OneHolder DEF CallsShape, CallShape, Calls,
         LocksAreHeld, NobodyIsCut, AskingIsTrue, AskingShape, SubsAreTrue, StandsTrue, Kept
    <3>2. CASE d # c
      BY <1>1, <3>2, NoCallIsACall, OneHolder DEF CallsShape, CallShape, Calls,
         LocksAreHeld, NobodyIsCut, AskingIsTrue, AskingShape, SubsAreTrue, StandsTrue, Kept
    <3> QED
      BY <3>1, <3>2
  <2> QED
    BY <2>1 DEF SubsAreTrue
<1> QED
  BY <1>2, <1>3, <1>4, <1>5, <1>6, <1>7

LEMMA ListenFailsSafe ==
    ASSUME ListenInv, NEW c \in Subscribers, ListenFails(c)
    PROVE  ListenInv'
<1> USE DEF ListenInv
<1>1. /\ call[c].op = "listen" /\ call[c].pc = "failed" /\ HasMutex(listenMutex, c) /\ call[c].aim \in Words
      /\ call' \in [Subscribers -> ACalls] /\ Others(c) /\ call'[c] = NoCall
      /\ listenMutex' \in Seq(Subscribers) /\ keys' \in SUBSET Words
      /\ OnlyIn(c, call[c].aim) /\ c \notin callbacks'[call[c].aim]
      /\ Sets(c, call[c].aim, "left")
      /\ UNCHANGED <<txMutex, tx, heard>>
  <2>1. Types /\ HasMutex(listenMutex, c) /\ call[c].name \in Words /\ call[c].aim = call[c].name
    BY DEF ListenFails, At, LocksAreHeld, CallsShape, CallShape, Calls, Types
  <2>2. call' \in [Subscribers -> ACalls] /\ Others(c) /\ call'[c] = NoCall /\ listenMutex' \in Seq(Subscribers)
    BY <2>1, ReturnsLeaves DEF ListenFails
  <2>3. Sets(c, call[c].aim, "left")
    BY <2>1, SetsOne DEF ListenFails, Left, Subs
  <2> QED
    BY <2>1, <2>2, <2>3, Drops DEF ListenFails, At, server, Types
<1> USE DEF Others, Moved, Sets, OnlyIn, Inside
<1>2. Types'
  BY <1>1 DEF Types
<1>3. CallsShape'
  BY <1>1, NoCallIsACall, OneHolder DEF CallsShape, CallShape, Calls
<1>4. LocksAreHeld'
  BY <1>1, NoCallIsACall, OneHolder DEF LocksAreHeld, CallsShape, CallShape, Types
<1>5. AskingIsTrue'
  <2>1. ASSUME NEW d \in Subscribers PROVE AskingShape(d)'
    <3>1. CASE d = c
      BY <1>1, <3>1, NoCallIsACall, OneHolder DEF CallsShape, CallShape, Calls,
         LocksAreHeld, AskingIsTrue, AskingShape, Kept, Types, ACalls
    <3>2. CASE d # c
      BY <1>1, <3>2, NoCallIsACall, OneHolder DEF CallsShape, CallShape, Calls,
         LocksAreHeld, AskingIsTrue, AskingShape, Kept, Types, ACalls
    <3> QED
      BY <3>1, <3>2
  <2> QED
    BY <2>1 DEF AskingIsTrue
<1>6. NobodyIsCut'
  <2>1. ASSUME NEW d \in Subscribers, NEW e \in Subscribers,
               call'[d].op \in {"unlisten", "clear"}, call'[d].pc = "exec"
         PROVE sub'[e][call'[d].name] \notin {"pending", "on"}
    <3>1. CASE d = c
      BY <1>1, <2>1, <3>1, NoCallIsACall, OneHolder DEF CallsShape, CallShape, Calls,
         LocksAreHeld, NobodyIsCut, AskingIsTrue, AskingShape, SubsAreTrue, StandsTrue
    <3>2. CASE d # c
      BY <1>1, <2>1, <3>2, NoCallIsACall, OneHolder DEF CallsShape, CallShape, Calls,
         LocksAreHeld, NobodyIsCut, AskingIsTrue, AskingShape, SubsAreTrue, StandsTrue
    <3> QED
      BY <3>1, <3>2
  <2> QED
    BY <2>1 DEF NobodyIsCut
<1>7. SubsAreTrue'
  <2>1. ASSUME NEW d \in Subscribers, NEW u \in Words PROVE StandsTrue(d, u)'
    <3>1. CASE d = c
      BY <1>1, <3>1, NoCallIsACall, OneHolder DEF CallsShape, CallShape, Calls,
         LocksAreHeld, NobodyIsCut, AskingIsTrue, AskingShape, SubsAreTrue, StandsTrue, Kept
    <3>2. CASE d # c
      BY <1>1, <3>2, NoCallIsACall, OneHolder DEF CallsShape, CallShape, Calls,
         LocksAreHeld, NobodyIsCut, AskingIsTrue, AskingShape, SubsAreTrue, StandsTrue, Kept
    <3> QED
      BY <3>1, <3>2
  <2> QED
    BY <2>1 DEF SubsAreTrue
<1> QED
  BY <1>2, <1>3, <1>4, <1>5, <1>6, <1>7

LEMMA UnlistenedKeeps ==
    ASSUME ListenInv, NEW c \in Subscribers, Unlistened(c)
    PROVE  ListenInv'
<1> USE DEF ListenInv
<1>1. /\ call[c].op \in {"unlisten", "clear"} /\ call[c].pc \in {"ok", "failed"} /\ HasMutex(listenMutex, c)
      /\ call' \in [Subscribers -> ACalls] /\ Others(c) /\ call'[c] = NoCall
      /\ listenMutex' \in Seq(Subscribers) /\ keys' \in SUBSET Words
      /\ UNCHANGED <<callbacks, txMutex, tx, heard, sub>>
  <2>1. Types /\ HasMutex(listenMutex, c) /\ call[c].name \in Words
    BY DEF Unlistened, At, LocksAreHeld, CallsShape, CallShape, Calls, Types
  <2>2. call' \in [Subscribers -> ACalls] /\ Others(c) /\ call'[c] = NoCall /\ listenMutex' \in Seq(Subscribers)
    BY <2>1, ReturnsLeaves DEF Unlistened
  <2> QED
    BY <2>1, <2>2 DEF Unlistened, server, Types
<1> USE DEF Others, Moved, Sets, OnlyIn, Inside
<1>2. Types'
  BY <1>1 DEF Types
<1>3. CallsShape'
  <2>1. ASSUME NEW d \in Subscribers PROVE CallShape(d)'
    <3>1. CASE d = c
      BY <1>1, <3>1, NoCallIsACall, OneHolder DEF CallsShape, CallShape, Calls
    <3>2. CASE d # c
      BY <1>1, <3>2, NoCallIsACall, OneHolder DEF CallsShape, CallShape, Calls
    <3> QED
      BY <3>1, <3>2
  <2> QED
    BY <2>1 DEF CallsShape
<1>4. LocksAreHeld'
  BY <1>1, NoCallIsACall, OneHolder DEF LocksAreHeld, CallsShape, CallShape, Types
<1>5. AskingIsTrue'
  <2>1. ASSUME NEW d \in Subscribers PROVE AskingShape(d)'
    <3>1. CASE d = c
      BY <1>1, <3>1, NoCallIsACall, OneHolder DEF CallsShape, CallShape, Calls,
         LocksAreHeld, AskingIsTrue, AskingShape, Kept, Types, ACalls
    <3>2. CASE d # c
      BY <1>1, <3>2, NoCallIsACall, OneHolder DEF CallsShape, CallShape, Calls,
         LocksAreHeld, AskingIsTrue, AskingShape, Kept, Types, ACalls
    <3> QED
      BY <3>1, <3>2
  <2> QED
    BY <2>1 DEF AskingIsTrue
<1>6. NobodyIsCut'
  BY <1>1, NoCallIsACall, OneHolder DEF CallsShape, CallShape, Calls, LocksAreHeld,
     NobodyIsCut, AskingIsTrue, AskingShape, SubsAreTrue, StandsTrue
<1>7. SubsAreTrue'
  <2>1. ASSUME NEW d \in Subscribers, NEW u \in Words PROVE StandsTrue(d, u)'
    <3>1. CASE d = c
      BY <1>1, <3>1, NoCallIsACall, OneHolder DEF CallsShape, CallShape, Calls,
         LocksAreHeld, NobodyIsCut, AskingIsTrue, AskingShape, SubsAreTrue, StandsTrue, Kept
    <3>2. CASE d # c
      BY <1>1, <3>2, NoCallIsACall, OneHolder DEF CallsShape, CallShape, Calls,
         LocksAreHeld, NobodyIsCut, AskingIsTrue, AskingShape, SubsAreTrue, StandsTrue, Kept
    <3> QED
      BY <3>1, <3>2
  <2> QED
    BY <2>1 DEF SubsAreTrue
<1> QED
  BY <1>2, <1>3, <1>4, <1>5, <1>6, <1>7

LEMMA OpenKeeps ==
    ASSUME ListenInv, NEW c \in Subscribers, Open(c)
    PROVE  ListenInv'
<1> USE DEF ListenInv
<1>1. /\ call[c].op = "transaction" /\ HasMutex(txMutex, c) /\ tx.by = {}
      /\ call' \in [Subscribers -> ACalls] /\ Others(c) /\ call'[c] = NoCall
      /\ tx'.by = {c} /\ tx'.staged = heard
      /\ tx' \in [by : SUBSET Subscribers, staged : SUBSET Words, failed : BOOLEAN]
      /\ UNCHANGED <<callbacks, keys, listenMutex, txMutex, heard, sub>>
  <2>1. Types /\ At(c, "transaction", "lock") /\ HasMutex(txMutex, c) /\ ~ Inside(c)
    BY DEF Open, At, CallsShape, CallShape, Types
  <2>2. tx.by = {}
    <3>1. ASSUME NEW d \in Subscribers, Inside(d) PROVE FALSE
      BY <2>1, <3>1, OneHolder DEF LocksAreHeld
    <3> QED
      BY <2>1, <3>1 DEF Inside, Types
  <2> QED
    BY <2>1, <2>2, Becomes, NoCallIsACall DEF Open, At, table, Types
<1> USE DEF Others, Moved, Sets, OnlyIn, Inside
<1>2. Types'
  BY <1>1 DEF Types
<1>3. CallsShape'
  BY <1>1, NoCallIsACall, OneHolder DEF CallsShape, CallShape, Calls
<1>4. LocksAreHeld'
  BY <1>1, NoCallIsACall, OneHolder DEF LocksAreHeld, CallsShape, CallShape, Types
<1>5. AskingIsTrue'
  <2>1. ASSUME NEW d \in Subscribers PROVE AskingShape(d)'
    <3>1. CASE d = c
      BY <1>1, <3>1, NoCallIsACall, OneHolder DEF CallsShape, CallShape, Calls,
         LocksAreHeld, AskingIsTrue, AskingShape, Kept, Types, ACalls
    <3>2. CASE d # c
      BY <1>1, <3>2, NoCallIsACall, OneHolder DEF CallsShape, CallShape, Calls,
         LocksAreHeld, AskingIsTrue, AskingShape, Kept, Types, ACalls
    <3> QED
      BY <3>1, <3>2
  <2> QED
    BY <2>1 DEF AskingIsTrue
<1>6. NobodyIsCut'
  BY <1>1, NoCallIsACall, OneHolder DEF CallsShape, CallShape, Calls, LocksAreHeld,
     NobodyIsCut, AskingIsTrue, AskingShape, SubsAreTrue, StandsTrue
<1>7. SubsAreTrue'
  BY <1>1, NoCallIsACall, OneHolder DEF CallsShape, CallShape, Calls, LocksAreHeld,
     NobodyIsCut, AskingIsTrue, AskingShape, SubsAreTrue, StandsTrue, Kept
<1> QED
  BY <1>2, <1>3, <1>4, <1>5, <1>6, <1>7

LEMMA CommitKeeps ==
    ASSUME ListenInv, NEW c \in Subscribers, Commit(c)
    PROVE  ListenInv'
<1> USE DEF ListenInv
<1>1. /\ call[c].op = "none" /\ Inside(c) /\ \A d \in Subscribers : Inside(d) => d = c
      /\ tx'.by = {} /\ tx' \in [by : SUBSET Subscribers, staged : SUBSET Words, failed : BOOLEAN]
      /\ txMutex' \in Seq(Subscribers)
      /\ sub' \in [Subscribers -> [Words -> Subs]]
      /\ \A u \in Words : sub'[c][u] = IF sub[c][u] = "pending" THEN "on" ELSE sub[c][u]
      /\ \A d \in Subscribers : d # c => sub'[d] = sub[d]
      /\ heard' = tx.staged /\ heard' \in SUBSET Words
      /\ UNCHANGED <<callbacks, keys, listenMutex, call>>
  <2>1. Types /\ Inside(c) /\ Idle(c) /\ HasMutex(txMutex, c)
    BY DEF Commit, Ends, LocksAreHeld, Types
  <2>2. \A d \in Subscribers : Inside(d) => d = c
    BY <2>1, OneHolder DEF LocksAreHeld
  <2>3. txMutex' \in Seq(Subscribers) /\ tx'.by = {} /\ tx' \in [by : SUBSET Subscribers, staged : SUBSET Words, failed : BOOLEAN]
    BY <2>1, HolderLeaves DEF Commit, Ends, NoTx, Types
  <2>4. /\ sub' \in [Subscribers -> [Words -> Subs]]
        /\ \A u \in Words : sub'[c][u] = IF sub[c][u] = "pending" THEN "on" ELSE sub[c][u]
        /\ \A d \in Subscribers : d # c => sub'[d] = sub[d]
    BY DEF Commit, Ends, Types, Subs
  <2> QED
    BY <2>1, <2>2, <2>3, <2>4 DEF Commit, Ends, Idle, table, Types
<1> USE DEF Others, Moved, Sets, OnlyIn, Inside
<1>2. Types'
  BY <1>1 DEF Types
<1>3. CallsShape'
  BY <1>1, NoCallIsACall, OneHolder DEF CallsShape, CallShape, Calls
<1>4. LocksAreHeld'
  BY <1>1, NoCallIsACall, OneHolder DEF LocksAreHeld, CallsShape, CallShape, Types
<1>5. AskingIsTrue'
  <2>1. ASSUME NEW d \in Subscribers PROVE AskingShape(d)'
    <3>1. CASE d = c
      BY <1>1, <3>1, NoCallIsACall, OneHolder DEF CallsShape, CallShape, Calls,
         LocksAreHeld, AskingIsTrue, AskingShape, Kept, Types, ACalls
    <3>2. CASE d # c
      BY <1>1, <3>2, NoCallIsACall, OneHolder DEF CallsShape, CallShape, Calls,
         LocksAreHeld, AskingIsTrue, AskingShape, Kept, Types, ACalls
    <3> QED
      BY <3>1, <3>2
  <2> QED
    BY <2>1 DEF AskingIsTrue
<1>6. NobodyIsCut'
  <2>1. ASSUME NEW d \in Subscribers, NEW e \in Subscribers,
               call'[d].op \in {"unlisten", "clear"}, call'[d].pc = "exec"
         PROVE sub'[e][call'[d].name] \notin {"pending", "on"}
    <3>1. CASE d = c
      BY <1>1, <2>1, <3>1, NoCallIsACall, OneHolder DEF CallsShape, CallShape, Calls,
         LocksAreHeld, NobodyIsCut, AskingIsTrue, AskingShape, SubsAreTrue, StandsTrue
    <3>2. CASE d # c
      BY <1>1, <2>1, <3>2, NoCallIsACall, OneHolder DEF CallsShape, CallShape, Calls,
         LocksAreHeld, NobodyIsCut, AskingIsTrue, AskingShape, SubsAreTrue, StandsTrue
    <3> QED
      BY <3>1, <3>2
  <2> QED
    BY <2>1 DEF NobodyIsCut
<1>7. SubsAreTrue'
  <2>1. ASSUME NEW d \in Subscribers, NEW u \in Words PROVE StandsTrue(d, u)'
    <3>1. CASE d = c
      BY <1>1, <3>1, NoCallIsACall, OneHolder DEF CallsShape, CallShape, Calls,
         LocksAreHeld, NobodyIsCut, AskingIsTrue, AskingShape, SubsAreTrue, StandsTrue, Kept
    <3>2. CASE d # c
      BY <1>1, <3>2, NoCallIsACall, OneHolder DEF CallsShape, CallShape, Calls,
         LocksAreHeld, NobodyIsCut, AskingIsTrue, AskingShape, SubsAreTrue, StandsTrue, Kept
    <3> QED
      BY <3>1, <3>2
  <2> QED
    BY <2>1 DEF SubsAreTrue
<1> QED
  BY <1>2, <1>3, <1>4, <1>5, <1>6, <1>7

LEMMA RollbackKeeps ==
    ASSUME ListenInv, NEW c \in Subscribers, Rollback(c)
    PROVE  ListenInv'
<1> USE DEF ListenInv
<1>1. /\ call[c].op = "none" /\ Inside(c) /\ \A d \in Subscribers : Inside(d) => d = c
      /\ tx'.by = {} /\ tx' \in [by : SUBSET Subscribers, staged : SUBSET Words, failed : BOOLEAN]
      /\ txMutex' \in Seq(Subscribers)
      /\ sub' \in [Subscribers -> [Words -> Subs]]
      /\ \A u \in Words : sub'[c][u] = IF sub[c][u] = "pending" THEN "lost" ELSE sub[c][u]
      /\ \A d \in Subscribers : d # c => sub'[d] = sub[d]
      /\ heard' = heard /\ heard' \in SUBSET Words
      /\ UNCHANGED <<callbacks, keys, listenMutex, call>>
  <2>1. Types /\ Inside(c) /\ Idle(c) /\ HasMutex(txMutex, c)
    BY DEF Rollback, Ends, LocksAreHeld, Types
  <2>2. \A d \in Subscribers : Inside(d) => d = c
    BY <2>1, OneHolder DEF LocksAreHeld
  <2>3. txMutex' \in Seq(Subscribers) /\ tx'.by = {} /\ tx' \in [by : SUBSET Subscribers, staged : SUBSET Words, failed : BOOLEAN]
    BY <2>1, HolderLeaves DEF Rollback, Ends, NoTx, Types
  <2>4. /\ sub' \in [Subscribers -> [Words -> Subs]]
        /\ \A u \in Words : sub'[c][u] = IF sub[c][u] = "pending" THEN "lost" ELSE sub[c][u]
        /\ \A d \in Subscribers : d # c => sub'[d] = sub[d]
    BY DEF Rollback, Ends, Types, Subs
  <2> QED
    BY <2>1, <2>2, <2>3, <2>4 DEF Rollback, Ends, Idle, table, Types
<1> USE DEF Others, Moved, Sets, OnlyIn, Inside
<1>2. Types'
  BY <1>1 DEF Types
<1>3. CallsShape'
  BY <1>1, NoCallIsACall, OneHolder DEF CallsShape, CallShape, Calls
<1>4. LocksAreHeld'
  BY <1>1, NoCallIsACall, OneHolder DEF LocksAreHeld, CallsShape, CallShape, Types
<1>5. AskingIsTrue'
  BY <1>1, NoCallIsACall, OneHolder DEF CallsShape, CallShape, Calls, LocksAreHeld,
     AskingIsTrue, AskingShape, Kept, Types, ACalls
<1>6. NobodyIsCut'
  <2>1. ASSUME NEW d \in Subscribers, NEW e \in Subscribers,
               call'[d].op \in {"unlisten", "clear"}, call'[d].pc = "exec"
         PROVE sub'[e][call'[d].name] \notin {"pending", "on"}
    <3>1. CASE d = c
      BY <1>1, <2>1, <3>1, NoCallIsACall, OneHolder DEF CallsShape, CallShape, Calls,
         LocksAreHeld, NobodyIsCut, AskingIsTrue, AskingShape, SubsAreTrue, StandsTrue
    <3>2. CASE d # c
      BY <1>1, <2>1, <3>2, NoCallIsACall, OneHolder DEF CallsShape, CallShape, Calls,
         LocksAreHeld, NobodyIsCut, AskingIsTrue, AskingShape, SubsAreTrue, StandsTrue
    <3> QED
      BY <3>1, <3>2
  <2> QED
    BY <2>1 DEF NobodyIsCut
<1>7. SubsAreTrue'
  <2>1. ASSUME NEW d \in Subscribers, NEW u \in Words PROVE StandsTrue(d, u)'
    <3>1. CASE d = c
      BY <1>1, <3>1, NoCallIsACall, OneHolder DEF CallsShape, CallShape, Calls,
         LocksAreHeld, NobodyIsCut, AskingIsTrue, AskingShape, SubsAreTrue, StandsTrue, Kept
    <3>2. CASE d # c
      BY <1>1, <3>2, NoCallIsACall, OneHolder DEF CallsShape, CallShape, Calls,
         LocksAreHeld, NobodyIsCut, AskingIsTrue, AskingShape, SubsAreTrue, StandsTrue, Kept
    <3> QED
      BY <3>1, <3>2
  <2> QED
    BY <2>1 DEF SubsAreTrue
<1> QED
  BY <1>2, <1>3, <1>4, <1>5, <1>6, <1>7
-----------------------------------------------------------------------------
LEMMA ListenStepKeeps == ASSUME ListenInv, [ListenNext]_listenVars PROVE ListenInv'
<1>1. CASE UNCHANGED listenVars
  BY <1>1 DEF listenVars, table, server, ListenInv, Types, CallsShape, CallShape, LocksAreHeld,
     AskingIsTrue, AskingShape,
              NobodyIsCut, SubsAreTrue, StandsTrue, Kept, Inside
<1>2. CASE ListenNext
  <2>1. PICK c \in Subscribers : Ask(c) \/ Continues(c) \/ End(c)
    BY <1>2 DEF ListenNext
  <2>2. CASE Ask(c)
    BY <2>2, AskListenKeeps, AskUnlistenKeeps, AskUnlistenAllKeeps, AskTransactionKeeps, StatementFailsKeeps DEF
       Ask
  <2>3. CASE Continues(c)
    BY <2>3, AddCallbackKeeps, DeleteCallbackKeeps, ClearKeeps, AloneKeeps, InTransactionKeeps, ListenedKeeps,
       ListenFailsSafe, UnlistenedKeeps, OpenKeeps DEF Continues
  <2>4. CASE End(c)
    BY <2>4, CommitKeeps, RollbackKeeps DEF End
  <2> QED
    BY <2>1, <2>2, <2>3, <2>4
<1> QED
  BY <1>1, <1>2

(* The invariant holds of every behaviour, for any names, with and without  *)
(* quotes and capitals.                                                     *)
THEOREM ListenSafe == ListenSpec => []ListenInv
<1>1. ListenInv /\ [ListenNext]_listenVars => ListenInv'
  BY ListenStepKeeps
<1> QED
  BY <1>1, ListenInitially, PTL DEF ListenSpec

(* A subscription is in the map and on the backend until its caller lets go *)
(* of it, or somebody unlistens the channel for all (PgrustPGlite.listen),  *)
(* or the function listen() returned for the same letters in capitals is    *)
(* called (pgrust-pglite.ts:852).                                           *)
THEOREM SubscribersAreHeard == ListenSpec => []StillHeard
<1>1. ListenInv => StillHeard
  BY DEF ListenInv, SubsAreTrue, StandsTrue, Kept, StillHeard
<1> QED
  BY <1>1, ListenSafe, PTL

(* A callback that was let go of is not called again (unlisten), unless the *)
(* channel has capitals and it was let go by the function listen() returned. *)
THEOREM LeaversAreLeftAlone == ListenSpec => []Unsubscribed
<1>1. ListenInv => Unsubscribed
  BY DEF ListenInv, SubsAreTrue, StandsTrue, Unsubscribed
<1> QED
  BY <1>1, ListenSafe, PTL

(* Both: a subscription is what its caller made of it (listen, unlisten),   *)
(* with that one exception.                                                 *)
THEOREM SubscriptionsAreTrue == ListenSpec => []Subscriptions
<1>1. StillHeard /\ Unsubscribed => Subscriptions
  BY DEF Subscriptions
<1> QED
  BY <1>1, SubscribersAreHeard, LeaversAreLeftAlone, PTL
=============================================================================
