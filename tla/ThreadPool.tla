------------------------------ MODULE ThreadPool ------------------------------
(***************************************************************************)
(* What thread-spawn promises the guest, whoever runs the threads: a call  *)
(* is answered with a thread id that was never given out before, or        *)
(* refused; a thread that was promised is started once, with the argument  *)
(* its spawner passed, and no more threads live than the pool has slots.   *)
(* SpawnDesk implements it over shared memory.                             *)
(***************************************************************************)
EXTENDS Integers, FiniteSets

CONSTANTS Agents,     \* the instances of the guest
          Args,       \* the arguments of wasi_thread_start
          Slots       \* the slots of the pool

VARIABLES call,       \* by agent: the argument of its call, as a set of at most one
          used,       \* the thread ids given out
          waiting,    \* the threads promised and not started
          running     \* the threads started and not over

pool == <<call, used, waiting, running>>

Init ==
    /\ call = [a \in Agents |-> {}]
    /\ used = {} /\ waiting = {} /\ running = {}

Ask(a, x) ==
    /\ call[a] = {}
    /\ call' = [call EXCEPT ![a] = {x}]
    /\ UNCHANGED <<used, waiting, running>>

Refuse(a) ==
    /\ call[a] # {}
    /\ call' = [call EXCEPT ![a] = {}]
    /\ UNCHANGED <<used, waiting, running>>

(* The id given out is any that was not: what used gains. *)
Spawn(a) ==
    /\ Cardinality(waiting \cup running) < Cardinality(Slots)
    /\ \E t \in used' \ used, x \in call[a] :
           /\ used' = used \cup {t}
           /\ waiting' = waiting \cup {[tid |-> t, arg |-> x]}
    /\ call' = [call EXCEPT ![a] = {}]
    /\ UNCHANGED running

Start(j) ==
    /\ waiting' = waiting \ {j}
    /\ running' = running \cup {j}
    /\ UNCHANGED <<call, used>>

End(j) ==
    /\ running' = running \ {j}
    /\ UNCHANGED <<call, used, waiting>>

(* What the desk does unseen by the pool; TLC tries it first.                *)
Unseen == UNCHANGED pool

Next ==
    \/ Unseen
    \/ \E a \in Agents : Refuse(a) \/ Spawn(a) \/ \E x \in Args : Ask(a, x)
    \/ \E j \in waiting : Start(j)
    \/ \E j \in running : End(j)

Spec == Init /\ [][Next]_pool
=============================================================================
