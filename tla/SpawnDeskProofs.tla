--------------------------- MODULE SpawnDeskProofs ---------------------------
(***************************************************************************)
(* Theorems about SpawnDesk, for every pool size and any number of spawns. *)
(***************************************************************************)
EXTENDS SpawnDesk, FiniteSetTheorems, TLAPS

----------------------------------------------------------------------------
(* The inductive invariant.  First: who holds a slot. *)
HolderShape ==
    /\ \A a, b \in Agents :
           claim[a].pc \in Holding /\ claim[b].pc \in Holding /\ claim[a].at = claim[b].at => a = b
    /\ \A a \in Agents : claim[a].pc \in Holding => state[claim[a].at] = "claimed"
    /\ \A s \in Slots : state[s] = "claimed" =>
           \E a \in Agents : claim[a].pc \in Holding /\ claim[a].at = s

(* What its holder has stored in it already. *)
StoredShape ==
    \A a \in Agents :
        /\ claim[a].pc \in {"arg", "start"} => tid[claim[a].at] = claim[a].tid
        /\ claim[a].pc = "start" => arg[claim[a].at] = claim[a].arg

(* Where a worker is, by the state of its slot, and back. *)
WorkerShape ==
    \A s \in Slots :
        /\ worker[s] \in {"loading", "ready"} => state[s] = "empty"
        /\ worker[s] \in {"tid", "arg", "run"} => state[s] = "start"
        /\ worker[s] \in {"guest", "returned"} => state[s] = "running"
        /\ state[s] = "start" => worker[s] \in {"look", "wait", "asleep", "tid", "arg", "run"}
        /\ state[s] \in {"idle", "claimed"} => worker[s] \in {"look", "wait", "asleep"}
        /\ worker[s] \in {"arg", "run"} => cmd[s].tid = tid[s]
        /\ worker[s] = "run" => cmd[s].arg = arg[s]
        /\ worker[s] = "wait" => seen[s] # "start"

(* The thread of a slot, promised or running, and the ids: each one below   *)
(* the counter, and no two alike.                                           *)
Live(s) == state[s] = "start" \/ Alive(s)
Job(s) == IF state[s] = "start" THEN [tid |-> tid[s], arg |-> arg[s]] ELSE cmd[s]
Numbered == {a \in Agents : claim[a].pc \in Holding \ {"add"}}

TidShape ==
    /\ \A a \in Numbered : claim[a].tid \in 1 .. nextTid
    /\ \A a, b \in Numbered : claim[a].tid = claim[b].tid => a = b
    /\ \A s \in Slots : Live(s) => Job(s).tid \in 1 .. nextTid
    /\ \A r, s \in Slots : Live(r) /\ Live(s) /\ Job(r).tid = Job(s).tid => r = s
    /\ \A s \in Slots, a \in Numbered : Live(s) => Job(s).tid # claim[a].tid

DeskInv == DeskTypeOK /\ HolderShape /\ StoredShape /\ WorkerShape /\ TidShape /\ NoLostStart

(* The initial state: every slot is empty, every worker is loading. *)
LEMMA InvInit == DeskInit => DeskInv
<1> SUFFICES ASSUME DeskInit PROVE DeskInv
  OBVIOUS
<1> QED
  BY DeskAssumption DEF DeskInit, DeskInv, DeskTypeOK, HolderShape, StoredShape, WorkerShape, TidShape, NoLostStart,
    Live, Job, Alive, Numbered, Holding, States, NoClaim, Slots, Agents

(* The numbers of slots and agents are apart from the arithmetic on them.   *)
LEMMA Numbering ==
  /\ PoolSize \in Nat \ {0} /\ Slots \subseteq 0 .. PoolSize
  /\ \A s \in 0 .. PoolSize : s # PoolSize => s \in Slots /\ s + 1 \in 0 .. PoolSize
  /\ \A s \in Slots : s + 1 \in 0 .. PoolSize /\ s + 1 \in Agents /\ s + 1 # Process
  /\ 0 \in 0 .. PoolSize
  BY DeskAssumption DEF Slots, Agents, Process

----------------------------------------------------------------------------
(* A worker's step keeps the invariant. *)
LEMMA WorkerKeeps ==
  ASSUME DeskInv, NEW s \in Slots,
         PostReady(s) \/ PrewarmFails(s) \/ WorkerStep(s) \/ Return(s) \/ Trap(s)
  PROVE  DeskInv'
<1> USE Numbering DEF DeskInv, desk, pool
<1>1. DeskTypeOK'
  <2>1. CASE PostReady(s)
    BY <2>1 DEF PostReady, WorkerAt, DeskTypeOK, States
  <2>2. CASE PrewarmFails(s)
    BY <2>2 DEF PrewarmFails, WorkerAt, DeskTypeOK, States
  <2>3. CASE MarkIdle(s)
    BY <2>3 DEF MarkIdle, WorkerAt, DeskTypeOK, States
  <2>4. CASE Look(s)
    BY <2>4 DEF Look, WorkerAt, DeskTypeOK, States
  <2>5. CASE LoadTid(s)
    BY <2>5 DEF LoadTid, WorkerAt, DeskTypeOK, States
  <2>6. CASE LoadArg(s)
    BY <2>6 DEF LoadArg, WorkerAt, DeskTypeOK, States
  <2>7. CASE Run(s)
    BY <2>7 DEF Run, WorkerAt, DeskTypeOK, States
  <2>8. CASE Wait(s)
    BY <2>8 DEF Wait, WorkerAt, DeskTypeOK, States
  <2>9. CASE Return(s)
    BY <2>9 DEF Return, WorkerAt, DeskTypeOK, States
  <2>10. CASE Trap(s)
    BY <2>10 DEF Trap, WorkerAt, DeskTypeOK, States
  <2> QED
    BY <2>1, <2>2, <2>3, <2>4, <2>5, <2>6, <2>7, <2>8, <2>9, <2>10 DEF WorkerStep
<1>2. HolderShape' /\ StoredShape'
  <2>1. \/ UNCHANGED <<state, tid, arg, claim>>
        \/ MarkIdle(s) \/ Run(s)
    BY DEF PostReady, PrewarmFails, WorkerStep, Look, LoadTid, LoadArg, Wait, Return, Trap
  <2>2. CASE UNCHANGED <<state, tid, arg, claim>>
    BY <2>2 DEF HolderShape, StoredShape
  <2>3. CASE MarkIdle(s) \/ Run(s)
    BY <2>3 DEF MarkIdle, Run, WorkerAt, HolderShape, StoredShape, WorkerShape, DeskTypeOK, Holding
  <2> QED
    BY <2>1, <2>2, <2>3
<1>3. WorkerShape'
  BY DEF WorkerShape, DeskTypeOK, PostReady, PrewarmFails, WorkerStep, MarkIdle, Look, LoadTid, LoadArg, Run, Wait,
     Return, Trap, WorkerAt, States
<1>4. \A r \in Slots : Live(r)' => Live(r) /\ Job(r)'.tid = Job(r).tid
  BY DEF Live, Job, Alive, WorkerShape, DeskTypeOK, PostReady, PrewarmFails, WorkerStep, MarkIdle, Look, LoadTid, LoadArg, Run, Wait,
     Return, Trap, WorkerAt
<1>5. nextTid' = nextTid /\ claim' = claim
  BY DEF PostReady, PrewarmFails, WorkerStep, MarkIdle, Look, LoadTid, LoadArg, Run, Wait, Return, Trap
<1>6. TidShape'
  BY <1>4, <1>5 DEF TidShape, Numbered
<1>7. NoLostStart'
  <2>1. \A r \in Slots : worker'[r] = "asleep" /\ state'[r] = "start" => worker[r] = "asleep" /\ state[r] = "start"
    <3>1. CASE Wait(s)
      BY <3>1 DEF Wait, WorkerAt, Sleeps, WorkerShape, DeskTypeOK
    <3>2. CASE MarkIdle(s) \/ Run(s)
      BY <3>2 DEF MarkIdle, Run, WorkerAt, DeskTypeOK
    <3>3. CASE PostReady(s) \/ PrewarmFails(s) \/ Look(s) \/ LoadTid(s) \/ LoadArg(s) \/ Return(s) \/ Trap(s)
      BY <3>3 DEF PostReady, PrewarmFails, Look, LoadTid, LoadArg, Return, Trap, WorkerAt, DeskTypeOK
    <3> QED
      BY <3>1, <3>2, <3>3 DEF WorkerStep
  <2> QED
    BY <1>5, <2>1 DEF NoLostStart
<1> QED
  BY <1>1, <1>2, <1>3, <1>6, <1>7

(* A spawner's step keeps the invariant. *)
LEMMA ClaimKeeps ==
  ASSUME DeskInv, NEW a \in Agents, ClaimStep(a) \/ \E x \in Args : Ask(a, x)
  PROVE  DeskInv'
<1> USE Numbering, DeskAssumption DEF DeskInv, desk, pool
<1>a. CASE \E x \in Args : Ask(a, x)
  BY <1>a DEF Ask, DeskTypeOK, HolderShape, StoredShape, WorkerShape, TidShape, NoLostStart, Live, Job, Alive, Numbered, Holding
<1>b. CASE PassOver(a)
  <2>a. claim[a].at \in Slots /\ claim[a].at + 1 \in 0 .. PoolSize /\ claim[a].pc = "scan"
        /\ claim' = [claim EXCEPT ![a] = [claim[a] EXCEPT !.at = claim[a].at + 1]]
    BY <1>b DEF PassOver
  <2>1. DeskTypeOK'
    BY <1>b, <2>a DEF PassOver, DeskTypeOK, Holding
  <2>2. \A b \in Agents : /\ claim[b].pc' = claim[b].pc /\ claim[b].tid' = claim[b].tid
                          /\ claim[b].arg' = claim[b].arg
                          /\ claim[b].pc # "scan" => claim[b].at' = claim[b].at
    BY <1>b DEF PassOver, DeskTypeOK
  <2>3. HolderShape' /\ StoredShape' /\ WorkerShape' /\ TidShape' /\ NoLostStart'
    BY <1>b, <2>2 DEF PassOver, HolderShape, StoredShape, WorkerShape, TidShape, NoLostStart, Live, Job, Alive, Numbered, Holding
  <2> QED
    BY <2>1, <2>3
<1>c. CASE Refuse(a)
  BY <1>c DEF Refuse, NoClaim, DeskTypeOK, HolderShape, StoredShape, WorkerShape, TidShape, NoLostStart, Live, Job, Alive, Numbered, Holding
<1>1. CASE Take(a)
  <2>1. DeskTypeOK'
    BY <1>1 DEF Take, ClaimAt, DeskTypeOK, Holding, States
  <2>2. HolderShape'
    BY <1>1 DEF Take, ClaimAt, IsFree, DeskTypeOK, HolderShape, Holding
  <2>3. StoredShape' /\ WorkerShape'
    BY <1>1 DEF Take, ClaimAt, IsFree, DeskTypeOK, StoredShape, WorkerShape, Holding
  <2>4. TidShape'
    BY <1>1 DEF Take, ClaimAt, IsFree, DeskTypeOK, TidShape, WorkerShape, Live, Job, Alive, Numbered, Holding
  <2>5. NoLostStart'
    BY <1>1 DEF Take, ClaimAt, IsFree, DeskTypeOK, NoLostStart
  <2> QED
    BY <2>1, <2>2, <2>3, <2>4, <2>5
<1>2. CASE AddTid(a)
  <2>a. /\ claim[a].pc = "add" /\ claim[a].at \in Slots /\ nextTid + 1 \in Nat /\ nextTid + 1 > 0
        /\ claim' = [claim EXCEPT ![a] = [claim[a] EXCEPT !.pc = "tid", !.tid = nextTid + 1]]
    BY <1>2 DEF AddTid, DeskTypeOK, Holding
  <2>b. UNCHANGED <<state, tid, arg, ready, worker, seen, cmd>>
    BY <1>2 DEF AddTid
  <2>d. [claim[a] EXCEPT !.pc = "tid", !.tid = nextTid + 1] \in
            [pc : {"none", "scan", "notify"} \cup Holding, at : 0 .. PoolSize, arg : Int, tid : Nat]
    BY <2>a DEF DeskTypeOK, Holding
  <2>0. DeskTypeOK'
    <3>1. nextTid' \in Nat
      BY <1>2, <2>a DEF AddTid
    <3>2. claim' \in [Agents -> [pc : {"none", "scan", "notify"} \cup Holding, at : 0 .. PoolSize,
                                arg : Int, tid : Nat]]
      BY <2>a, <2>d DEF DeskTypeOK
    <3>3. \A b \in Agents : claim[b]'.pc \in Holding \cup {"notify"} => claim[b]'.at \in Slots
      BY <2>a DEF DeskTypeOK, Holding
    <3>4. \A b \in Agents : claim[b]'.pc \in Holding \ {"add"} => claim[b]'.tid > 0
      BY <2>a DEF DeskTypeOK, Holding
    <3> QED
      BY <2>b, <3>1, <3>2, <3>3, <3>4 DEF DeskTypeOK
  <2>c. \A b \in Agents : /\ claim[b].at' = claim[b].at /\ claim[b].arg' = claim[b].arg
                          /\ b # a => claim[b]' = claim[b]
    BY <2>a DEF DeskTypeOK
  <2>1. HolderShape' /\ StoredShape' /\ WorkerShape' /\ NoLostStart'
    BY <2>a, <2>b, <2>c DEF DeskTypeOK, HolderShape, StoredShape, WorkerShape, NoLostStart, Holding
  <2>2. Numbered' = Numbered \cup {a} /\ a \notin Numbered
    BY <1>2 DEF AddTid, DeskTypeOK, Numbered, Holding
  <2>3. claim[a]'.tid = nextTid + 1 /\ \A b \in Agents : b # a => claim[b]'.tid = claim[b].tid
    BY <1>2 DEF AddTid, DeskTypeOK
  <2>4. \A s \in Slots : Live(s)' = Live(s) /\ Job(s)' = Job(s)
    BY <1>2 DEF AddTid, Live, Job, Alive
  <2>5. nextTid' = nextTid + 1 /\ nextTid \in Nat /\ Numbered \subseteq Agents
    BY <1>2 DEF AddTid, DeskTypeOK, Numbered
  <2>6. TidShape'
    BY <2>2, <2>3, <2>4, <2>5 DEF TidShape
  <2> QED
    BY <2>0, <2>1, <2>6
<1>3. CASE StoreTid(a)
  <2>1. DeskTypeOK'
    BY <1>3 DEF StoreTid, ClaimAt, DeskTypeOK, Holding
  <2>2. HolderShape' /\ StoredShape'
    BY <1>3 DEF StoreTid, ClaimAt, DeskTypeOK, HolderShape, StoredShape, Holding
  <2>3. WorkerShape' /\ NoLostStart'
    BY <1>3 DEF StoreTid, ClaimAt, DeskTypeOK, HolderShape, WorkerShape, NoLostStart, Holding
  <2>4. TidShape'
    BY <1>3 DEF StoreTid, ClaimAt, DeskTypeOK, HolderShape, TidShape, Live, Job, Alive, Numbered, Holding
  <2> QED
    BY <2>1, <2>2, <2>3, <2>4
<1>4. CASE StoreArg(a)
  <2>1. DeskTypeOK'
    BY <1>4 DEF StoreArg, ClaimAt, DeskTypeOK, Holding
  <2>2. HolderShape' /\ StoredShape'
    BY <1>4 DEF StoreArg, ClaimAt, DeskTypeOK, HolderShape, StoredShape, Holding
  <2>3. WorkerShape' /\ NoLostStart'
    BY <1>4 DEF StoreArg, ClaimAt, DeskTypeOK, HolderShape, WorkerShape, NoLostStart, Holding
  <2>4. TidShape'
    BY <1>4 DEF StoreArg, ClaimAt, DeskTypeOK, HolderShape, TidShape, Live, Job, Alive, Numbered, Holding
  <2> QED
    BY <2>1, <2>2, <2>3, <2>4
<1>5. CASE Publish(a)
  <2>1. DeskTypeOK'
    BY <1>5 DEF Publish, ClaimAt, DeskTypeOK, Holding, States
  <2>2. HolderShape' /\ StoredShape'
    BY <1>5 DEF Publish, ClaimAt, DeskTypeOK, HolderShape, StoredShape, Holding
  <2>3. WorkerShape'
    BY <1>5 DEF Publish, ClaimAt, DeskTypeOK, HolderShape, WorkerShape, Holding
  <2>4. NoLostStart'
    BY <1>5 DEF Publish, ClaimAt, DeskTypeOK, NoLostStart, Holding
  <2>5. TidShape'
    BY <1>5 DEF Publish, ClaimAt, DeskTypeOK, HolderShape, StoredShape, WorkerShape, TidShape, Live, Job, Alive, Numbered, Holding
  <2> QED
    BY <2>1, <2>2, <2>3, <2>4, <2>5
<1>6. CASE Notify(a)
  <2>1. DeskTypeOK'
    BY <1>6 DEF Notify, NoClaim, DeskTypeOK, Holding
  <2>2. HolderShape' /\ StoredShape'
    BY <1>6 DEF Notify, NoClaim, DeskTypeOK, HolderShape, StoredShape, Holding
  <2>3. WorkerShape' /\ NoLostStart'
    BY <1>6 DEF Notify, NoClaim, DeskTypeOK, WorkerShape, NoLostStart, Holding
  <2>4. TidShape'
    BY <1>6 DEF Notify, NoClaim, DeskTypeOK, TidShape, WorkerShape, Live, Job, Alive, Numbered, Holding
  <2> QED
    BY <2>1, <2>2, <2>3, <2>4
<1> QED
  BY <1>a, <1>b, <1>c, <1>1, <1>2, <1>3, <1>4, <1>5, <1>6 DEF ClaimStep

(* The invariant is inductive. *)
THEOREM DeskSafe == DeskSpec => []DeskInv
<1>1. DeskInv /\ [DeskNext]_deskVars => DeskInv'
  <2> SUFFICES ASSUME DeskInv, [DeskNext]_deskVars PROVE DeskInv'
    OBVIOUS
  <2>1. CASE UNCHANGED deskVars
    BY <2>1 DEF DeskInv, deskVars, desk, pool, DeskTypeOK, HolderShape, StoredShape, WorkerShape, TidShape, NoLostStart,
      Live, Job, Alive, Numbered
  <2> QED
    BY <2>1, WorkerKeeps, ClaimKeeps DEF DeskNext
<1> QED
  BY <1>1, InvInit, PTL DEF DeskSpec

(* Type correctness. *)
THEOREM TypeCorrect == DeskSpec => []DeskTypeOK
  BY DeskSafe, PTL DEF DeskInv

(* A slot is claimed by one spawner at a time. *)
THEOREM ClaimsExclude == DeskSpec => []ClaimExclusive
<1>1. DeskInv => ClaimExclusive
  BY DEF DeskInv, HolderShape, ClaimExclusive, DeskTypeOK
<1> QED
  BY <1>1, DeskSafe, PTL

(* No worker sleeps through its command. *)
THEOREM StartsKept == DeskSpec => []NoLostStart
  BY DeskSafe, PTL DEF DeskInv

----------------------------------------------------------------------------
(* The refinement.  The four images of the mapping, by name. *)
Calls    == [a \in Agents |-> IF Unanswered(a) THEN {claim[a].arg} ELSE {}]
Used     == (1 .. nextTid) \ Reserved
Promised == {[tid |-> tid[s], arg |-> arg[s]] : s \in {r \in Slots : state[r] = "start"}}
Started  == {cmd[s] : s \in {r \in Slots : Alive(r)}}

(* The calls stay as they are, unless one is begun or answered. *)
LEMMA Calls0 ==
  ASSUME \A a \in Agents : Unanswered(a)' = Unanswered(a) /\ (Unanswered(a) => claim[a].arg' = claim[a].arg)
  PROVE  Calls' = Calls
  BY DEF Calls
(* The threads promised, unless a slot enters or leaves START. *)
LEMMA Promised0 ==
  ASSUME \A s \in Slots : (state[s] = "start")' = (state[s] = "start"),
         \A s \in Slots : state[s] = "start" => tid[s]' = tid[s] /\ arg[s]' = arg[s]
  PROVE  Promised' = Promised
  BY DEF Promised
(* The threads running, unless a worker enters or leaves the guest. *)
LEMMA Started0 ==
  ASSUME \A s \in Slots : Alive(s)' = Alive(s) /\ (Alive(s) => cmd[s]' = cmd[s])
  PROVE  Started' = Started
  BY DEF Started

(* The slot of a claim about to be published is not counted among the       *)
(* threads: there is room in the pool for one more.                         *)
LEMMA RoomForOne ==
  ASSUME DeskInv, NEW a \in Agents, claim[a].pc = "start"
  PROVE  Cardinality(Promised \cup Started) < Cardinality(Slots)
<1> DEFINE s == claim[a].at
           others == Slots \ {s}
           job == [r \in others |-> Job(r)]
           jobs == {job[r] : r \in others}
<1>1. s \in Slots /\ state[s] = "claimed" /\ ~ Live(s)
  BY DEF DeskInv, DeskTypeOK, HolderShape, WorkerShape, Holding, Live, Alive
<1>2. IsFiniteSet(Slots) /\ Cardinality(Slots) \in Nat
  BY FS_Interval, FS_CardinalityType, DeskAssumption DEF Slots
<1>3. IsFiniteSet(others) /\ Cardinality(others) = Cardinality(Slots) - 1
  BY <1>1, <1>2, FS_RemoveElement
<1>4. job \in Surjection(others, jobs)
  BY DEF Surjection
<1>5. IsFiniteSet(jobs) /\ Cardinality(jobs) <= Cardinality(others)
  BY <1>3, <1>4, FS_Surjection
<1>6. Promised \cup Started \subseteq jobs
  BY <1>1 DEF DeskInv, WorkerShape, Promised, Started, Live, Alive, Job
<1>7. IsFiniteSet(Promised \cup Started) /\ Cardinality(Promised \cup Started) <= Cardinality(jobs)
  BY <1>5, <1>6, FS_Subset
<1> QED
  BY <1>2, <1>3, <1>5, <1>7, FS_CardinalityType

(* A call is begun, or answered, by one agent: the others' calls are what    *)
(* they were.                                                               *)
LEMMA CallOfOne ==
  ASSUME NEW a \in Agents,
         \A b \in Agents \ {a} : claim'[b] = claim[b]
  PROVE  /\ Calls' = [Calls EXCEPT ![a] = Calls'[a]]
         /\ Calls'[a] = IF Unanswered(a)' THEN {claim'[a].arg} ELSE {}
         /\ Calls[a] = IF Unanswered(a) THEN {claim[a].arg} ELSE {}
<1>1. \A b \in Agents \ {a} : Calls'[b] = Calls[b]
  BY DEF Calls, Unanswered
<1>2. Calls = [b \in Agents |-> Calls[b]] /\ Calls' = [b \in Agents |-> Calls'[b]]
  BY DEF Calls
<1>3. Calls' = [Calls EXCEPT ![a] = Calls'[a]]
  BY <1>1, <1>2
<1> QED
  BY <1>3 DEF Calls

(* What the pool may do next, under the names of the images. *)
LEMMA StartIsNext ==
  ASSUME NEW j \in Promised, Pool!Start(j) PROVE Pool!Next
  BY DEF Pool!Next, Promised
(* Likewise for the thread that ends. *)
LEMMA EndIsNext ==
  ASSUME NEW j \in Started, Pool!End(j) PROVE Pool!Next
  BY DEF Pool!Next, Started
(* The instance reads Cardinality in a FiniteSets of its own. *)
LEMMA SameCardinality ==
  ASSUME NEW S PROVE Cardinality(S) = Pool!Cardinality(S)
  BY DEF Cardinality, Pool!Cardinality
(* What a spawn of the pool is, under the names of the images. *)
LEMMA SpawnIsSpawn ==
  ASSUME NEW a \in Agents, NEW t \in Used' \ Used, NEW x \in Calls[a],
         Cardinality(Promised \cup Started) < Cardinality(Slots),
         Used' = Used \cup {t},
         Promised' = Promised \cup {[tid |-> t, arg |-> x]},
         Calls' = [Calls EXCEPT ![a] = {}],
         Started' = Started
  PROVE  Pool!Spawn(a)
<1>1. \E t1 \in Used' \ Used, x1 \in Calls[a] :
          /\ Used' = Used \cup {t1}
          /\ Promised' = Promised \cup {[tid |-> t1, arg |-> x1]}
  OBVIOUS
<1> QED
  BY <1>1, SameCardinality DEF Pool!Spawn, Calls, Used, Promised, Started

(* Every step is a step of the pool, or leaves it alone. *)
LEMMA PoolStep ==
  ASSUME DeskInv, DeskInv', [DeskNext]_deskVars
  PROVE  [Pool!Next]_(Pool!pool)
<1> DEFINE Still == UNCHANGED <<Calls, Used, Promised, Started>>
<1> USE DEF desk, pool
<1>0. Still => [Pool!Next]_(Pool!pool)
  BY DEF Pool!pool, Calls, Used, Promised, Started
<1>1. ASSUME NEW s \in Slots,
             PostReady(s) \/ PrewarmFails(s) \/ MarkIdle(s) \/ Look(s) \/ LoadTid(s) \/ LoadArg(s) \/ Wait(s)
      PROVE  Still
  <2>1. UNCHANGED <<tid, arg, nextTid, claim>>
    BY <1>1 DEF PostReady, PrewarmFails, MarkIdle, Look, LoadTid, LoadArg, Wait
  <2>2. Calls' = Calls /\ Used' = Used
    BY <2>1 DEF Calls, Used, Reserved, Unanswered
  <2>3. \A r \in Slots : (state[r] = "start")' = (state[r] = "start")
    BY <1>1 DEF DeskInv, DeskTypeOK, WorkerShape, PostReady, PrewarmFails, MarkIdle, Look, LoadTid, LoadArg, Wait, WorkerAt
  <2>4. Promised' = Promised
    BY <2>1, <2>3, Promised0
  <2>5. \A r \in Slots : Alive(r)' = Alive(r) /\ (Alive(r) => cmd[r]' = cmd[r])
    BY <1>1 DEF DeskInv, DeskTypeOK, Alive, PostReady, PrewarmFails, MarkIdle, Look, LoadTid, LoadArg, Wait, WorkerAt
  <2> QED
    BY <2>2, <2>4, <2>5, Started0
<1>2. ASSUME NEW s \in Slots, Run(s)
      PROVE  Pool!Next
  <2>1. /\ cmd[s] = [tid |-> tid[s], arg |-> arg[s]] /\ state[s] = "start" /\ ~ Alive(s)
        /\ state' = [state EXCEPT ![s] = "running"] /\ worker' = [worker EXCEPT ![s] = "guest"]
        /\ UNCHANGED <<tid, arg, nextTid, claim, cmd>>
    BY <1>2 DEF Run, WorkerAt, DeskInv, DeskTypeOK, WorkerShape, Alive
  <2>2. Calls' = Calls /\ Used' = Used
    BY <2>1 DEF Calls, Used, Reserved, Unanswered
  <2>3. \A r \in Slots : r # s /\ state[r] = "start" => tid[r] # tid[s]
    BY <2>1 DEF DeskInv, TidShape, Live, Job
  <2>4. Promised' = Promised \ {cmd[s]} /\ cmd[s] \in Promised
    BY <2>1, <2>3 DEF Promised, DeskInv, DeskTypeOK
  <2>5. Started' = Started \cup {cmd[s]}
    BY <2>1 DEF Started, Alive, DeskInv, DeskTypeOK
  <2> PICK j : j = cmd[s]
    OBVIOUS
  <2>6. Pool!Start(j)
    BY <2>2, <2>4, <2>5 DEF Pool!Start, Calls, Used, Promised, Started
  <2> QED
    BY <2>4, <2>6, StartIsNext
<1>3. ASSUME NEW s \in Slots, Return(s) \/ Trap(s)
      PROVE  Pool!Next
  <2>1. /\ Alive(s) /\ worker' \in {[worker EXCEPT ![s] = "returned"], [worker EXCEPT ![s] = "dead"]}
        /\ UNCHANGED <<state, tid, arg, nextTid, claim, cmd>>
    BY <1>3 DEF Return, Trap, WorkerAt, Alive
  <2>2. Calls' = Calls /\ Used' = Used /\ Promised' = Promised
    BY <2>1 DEF Calls, Used, Reserved, Unanswered, Promised
  <2>3. \A r \in Slots : r # s /\ Alive(r) => cmd[r] # cmd[s]
    BY <2>1 DEF DeskInv, TidShape, WorkerShape, Live, Job, Alive
  <2>4. Started' = Started \ {cmd[s]} /\ cmd[s] \in Started
    BY <2>1, <2>3 DEF Started, Alive, DeskInv, DeskTypeOK
  <2> PICK j : j = cmd[s]
    OBVIOUS
  <2>5. Pool!End(j)
    BY <2>2, <2>4 DEF Pool!End, Calls, Used, Promised, Started
  <2> QED
    BY <2>4, <2>5, EndIsNext
<1>4. ASSUME NEW a \in Agents, PassOver(a) \/ Take(a) \/ StoreTid(a) \/ StoreArg(a) \/ Notify(a)
      PROVE  Still
  <2>1. \A b \in Agents :
            /\ Unanswered(b)' = Unanswered(b) /\ (Unanswered(b) => claim[b].arg' = claim[b].arg)
            /\ (claim[b].pc \in Holding \ {"add"})' = (claim[b].pc \in Holding \ {"add"})
            /\ claim[b].pc \in Holding \ {"add"} => claim[b].tid' = claim[b].tid
    BY <1>4 DEF PassOver, Take, StoreTid, StoreArg, Notify, ClaimAt, NoClaim, Unanswered, Holding, DeskInv, DeskTypeOK
  <2>2. nextTid' = nextTid /\ cmd' = cmd
    BY <1>4 DEF PassOver, Take, StoreTid, StoreArg, Notify
  <2>3. Calls' = Calls
    BY <2>1, Calls0
  <2>4. Used' = Used
    BY <2>1, <2>2 DEF Used, Reserved
  <2>5. \A s \in Slots : (state[s] = "start")' = (state[s] = "start")
    BY <1>4 DEF PassOver, Take, IsFree, StoreTid, StoreArg, Notify, DeskInv, DeskTypeOK
  <2>6. \A s \in Slots : state[s] = "start" => tid[s]' = tid[s] /\ arg[s]' = arg[s]
    BY <1>4 DEF PassOver, Take, StoreTid, StoreArg, Notify, ClaimAt, DeskInv, DeskTypeOK, HolderShape, Holding
  <2>7. \A s \in Slots : Alive(s)' = Alive(s)
    BY <1>4 DEF PassOver, Take, StoreTid, StoreArg, Notify, DeskInv, DeskTypeOK, Alive
  <2> QED
    BY <2>2, <2>3, <2>4, <2>5, <2>6, <2>7, Promised0, Started0
<1>5. ASSUME NEW a \in Agents, AddTid(a)
      PROVE  Still
  <2>1. /\ claim[a].pc = "add" /\ nextTid \in Nat /\ nextTid' = nextTid + 1
        /\ claim' = [claim EXCEPT ![a] = [claim[a] EXCEPT !.pc = "tid", !.tid = nextTid + 1]]
        /\ UNCHANGED <<state, tid, arg, worker, cmd>>
    BY <1>5 DEF AddTid, DeskInv, DeskTypeOK
  <2>2. Calls' = Calls
    BY <2>1, Calls0 DEF Unanswered, Holding, DeskInv, DeskTypeOK
  <2>3. Reserved' = Reserved \cup {nextTid + 1}
    BY <2>1 DEF Reserved, Holding, DeskInv, DeskTypeOK
  <2>4. Reserved \subseteq 1 .. nextTid
    BY DEF Reserved, DeskInv, TidShape, Numbered
  <2>5. Used' = Used
    BY <2>1, <2>3, <2>4 DEF Used
  <2>6. Promised' = Promised /\ Started' = Started
    BY <2>1 DEF Promised, Started, Alive
  <2> QED
    BY <2>2, <2>5, <2>6
<1>6. ASSUME NEW a \in Agents, NEW x \in Args, Ask(a, x)
      PROVE  Pool!Next
  <2>1. /\ claim[a].pc = "none"
        /\ claim' = [claim EXCEPT ![a] = [pc |-> "scan", at |-> 0, arg |-> x, tid |-> 0]]
        /\ UNCHANGED <<desk, pool>>
    BY <1>6 DEF Ask
  <2>2. Calls[a] = {} /\ Calls' = [Calls EXCEPT ![a] = {x}]
    <3>1. /\ ~ Unanswered(a) /\ Unanswered(a)' /\ claim'[a].arg = x
          /\ \A b \in Agents \ {a} : claim'[b] = claim[b]
      BY <2>1 DEF Unanswered, Holding, DeskInv, DeskTypeOK
    <3> QED
      BY <3>1, CallOfOne
  <2>3. Reserved' = Reserved
    BY <2>1 DEF Reserved, Holding, DeskInv, DeskTypeOK
  <2>4. UNCHANGED <<Used, Promised, Started>>
    BY <2>1, <2>3 DEF Used, Promised, Started, Alive
  <2>5. Pool!Ask(a, x)
    BY <2>2, <2>4 DEF Pool!Ask, Calls, Used, Promised, Started
  <2> QED
    BY <2>5 DEF Pool!Next
<1>7. ASSUME NEW a \in Agents, Refuse(a)
      PROVE  Pool!Next
  <2>1. claim[a].pc = "scan" /\ claim' = [claim EXCEPT ![a] = NoClaim] /\ UNCHANGED <<desk, pool>>
    BY <1>7 DEF Refuse
  <2>2. Calls[a] # {} /\ Calls' = [Calls EXCEPT ![a] = {}]
    <3>1. /\ Unanswered(a) /\ ~ Unanswered(a)'
          /\ \A b \in Agents \ {a} : claim'[b] = claim[b]
      BY <2>1 DEF Unanswered, NoClaim, Holding, DeskInv, DeskTypeOK
    <3> QED
      BY <3>1, CallOfOne
  <2>3. Reserved' = Reserved
    BY <2>1 DEF Reserved, NoClaim, Holding, DeskInv, DeskTypeOK
  <2>4. UNCHANGED <<Used, Promised, Started>>
    BY <2>1, <2>3 DEF Used, Promised, Started, Alive
  <2>5. Pool!Refuse(a)
    BY <2>2, <2>4 DEF Pool!Refuse, Calls, Used, Promised, Started
  <2> QED
    BY <2>5 DEF Pool!Next
<1>8. ASSUME NEW a \in Agents, Publish(a)
      PROVE  Pool!Next
  <2> DEFINE s == claim[a].at
             t == claim[a].tid
  <2>1. /\ claim[a].pc = "start" /\ claim' = [claim EXCEPT ![a].pc = "notify"]
        /\ s \in Slots /\ state[s] = "claimed" /\ state' = [state EXCEPT ![s] = "start"]
        /\ tid[s] = t /\ arg[s] = claim[a].arg
        /\ UNCHANGED <<tid, arg, nextTid, worker, cmd>>
    BY <1>8 DEF Publish, ClaimAt, DeskInv, DeskTypeOK, HolderShape, StoredShape, Holding
  <2>2. Calls[a] = {claim[a].arg} /\ Calls' = [Calls EXCEPT ![a] = {}]
    <3>1. /\ Unanswered(a) /\ ~ Unanswered(a)'
          /\ \A b \in Agents \ {a} : claim'[b] = claim[b]
      BY <2>1 DEF Unanswered, Holding, DeskInv, DeskTypeOK
    <3> QED
      BY <3>1, CallOfOne
  <2>3. t \in 1 .. nextTid /\ t \in Reserved
    BY <2>1 DEF Reserved, Holding, DeskInv, TidShape, Numbered
  <2>4. Reserved' = Reserved \ {t}
    <3>1. \A b \in Agents : b # a /\ claim[b].pc \in Holding \ {"add"} => claim[b].tid # t
      BY <2>1 DEF DeskInv, TidShape, Numbered, Holding
    <3> QED
      BY <2>1, <3>1 DEF Reserved, Holding, DeskInv, DeskTypeOK
  <2>5. t \in Used' \ Used /\ Used' = Used \cup {t}
    BY <2>1, <2>3, <2>4 DEF Used
  <2>6. Promised' = Promised \cup {[tid |-> t, arg |-> claim[a].arg]}
    BY <2>1 DEF Promised, DeskInv, DeskTypeOK
  <2>7. Started' = Started
    BY <2>1 DEF Started, Alive
  <2>8. Cardinality(Promised \cup Started) < Cardinality(Slots)
    BY <2>1, RoomForOne
  <2>9. Pool!Spawn(a)
    BY <2>2, <2>5, <2>6, <2>7, <2>8, SpawnIsSpawn
  <2> QED
    BY <2>9 DEF Pool!Next
<1>9. CASE UNCHANGED deskVars
  BY <1>9, <1>0 DEF deskVars, Calls, Used, Promised, Started, Alive, Unanswered, Reserved
<1> QED
  BY <1>0, <1>1, <1>2, <1>3, <1>4, <1>5, <1>6, <1>7, <1>8, <1>9 DEF DeskNext, WorkerStep, ClaimStep

(* SpawnDesk keeps the promise of ThreadPool, for every number of slots and *)
(* however many spawners overlap.                                           *)
THEOREM ImplementsPool == DeskSpec => PoolSpec
<1>1. DeskInit => Pool!Init
  BY DEF DeskInit, Pool!Init, Unanswered, Holding, NoClaim, Alive, Reserved, Slots, Agents
<1> QED
  BY <1>1, DeskSafe, PoolStep, PTL DEF DeskSpec, PoolSpec, Pool!Spec
=============================================================================
