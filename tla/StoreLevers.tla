----------------------------- MODULE StoreLevers -----------------------------
(***************************************************************************)
(* src/vendor/pgrust/store-levers.js: the wrapper around the store's port  *)
(* that grows the arena file in chunks (grow) and holds contiguous arena   *)
(* writes back until they are one handle write (coalesce).                 *)
(*                                                                         *)
(* One step is one call of the store on a handle, or one edge of a call on *)
(* the store itself. Any call of the platform may throw, and a coordinator *)
(* may die between any two steps: `arena' and `meta' are what it leaves.   *)
(***************************************************************************)
EXTENDS Integers

CONSTANTS Max,        \* positions the arena may have
          Bytes,      \* what a position may hold besides zero
          Chunk,      \* STORE_LEVER_GROW_BYTES
          Buffer,     \* STORE_LEVER_COALESCE_BYTES
          MaxMeta     \* bound: metadata mutations of a behaviour

ASSUME LeverAssumption ==
    /\ Max \in Nat \ {0} /\ Chunk \in Nat \ {0} /\ Buffer \in Nat \ {0} /\ MaxMeta \in Nat
    /\ Bytes \subseteq Nat

VARIABLES grow, coalesce,       \* the levers that are on
          arena,                \* the arena file on the platform
          meta,                 \* metadata mutations the platform has seen
          logical, physical,    \* the sizes grow keeps, -1 until first needed
          held,                 \* the run coalesce holds back
          failed,               \* a deferred write failed
          call,                 \* in: inside a call of the store; none; closed
          clean,                \* the handle was closed with nothing refused
          ans                   \* the last answer to the store

levers == <<grow, coalesce>>
sizes == <<logical, physical>>
leverVars == <<levers, arena, meta, sizes, held, failed, call, clean, ans>>

-----------------------------------------------------------------------------
(* What the wrapper makes of it all: the file the store works on *)

Pos == 0 .. Max - 1
Larger(a, b) == IF a < b THEN b ELSE a
Blank == [i \in Pos |-> 0]
NoRun == [from |-> 0, n |-> 0, at |-> Blank]
RunEnd == held.from + held.n
Holds(i) == held.from <= i /\ i < RunEnd

(* The handle's file with the first k bytes of the held run written to it.    *)
Landed(k) == [size |-> IF k = 0 THEN arena.size ELSE Larger(arena.size, held.from + k),
              at |-> [i \in Pos |-> IF held.from <= i /\ i < held.from + k THEN held.at[i] ELSE arena.at[i]]]
Flushed == Landed(held.n)

Known == grow /\ logical # -1
Seen == [size |-> IF Known THEN logical ELSE Flushed.size, at |-> Flushed.at]

Port == INSTANCE ArenaFile WITH file <- Seen, broken <- failed

Put(f, at, n, v) == Port!Put(f, at, n, v)
Cut(f, n) == Port!Cut(f, n)

(* sizes(): read once from the handle.                                        *)
Logical == IF Known THEN logical ELSE arena.size
Physical == IF Known THEN physical ELSE arena.size
Learn(l, p) == IF grow THEN logical' = l /\ physical' = p ELSE UNCHANGED sizes

LeverInit == /\ grow \in BOOLEAN /\ coalesce \in BOOLEAN
             /\ \E n \in 0 .. Max : arena = Cut([size |-> 0, at |-> Blank], n)
             /\ meta = 0
             /\ logical = -1 /\ physical = -1
             /\ held = NoRun /\ failed = FALSE
             /\ call = "none" /\ clean = FALSE
             /\ ans = Port!Count(0)

-----------------------------------------------------------------------------
(* A call of the store, and the platform's refusals *)

Working == call = "in" /\ ~ failed

BeginCall == /\ call = "none" /\ ~ failed
             /\ call' = "in"
             /\ UNCHANGED <<levers, arena, meta, sizes, held, failed, clean, ans>>

(* view: what is held is written when the call returns, or throws.            *)
EndCallHolding == /\ Working
                  /\ call' = "none"
                  /\ UNCHANGED <<levers, arena, meta, sizes, held, failed, clean, ans>>

EndCall == /\ call = "in"
           /\ call' = "none"
           /\ IF failed THEN UNCHANGED <<arena, held>> ELSE arena' = Flushed /\ held' = NoRun
           /\ UNCHANGED <<levers, meta, sizes, failed, clean, ans>>

(* flushPending throws: some of the run may have been written.                *)
DeferredWriteFails ==
    /\ Working
    /\ \E k \in 0 .. held.n - 1 : arena' = Landed(k)
    /\ held' = NoRun
    /\ failed' = TRUE
    /\ ans' = Port!Error
    /\ UNCHANGED <<levers, meta, sizes, call, clean>>

(* The handle's own call throws, after what was held was written.             *)
HandleFails ==
    /\ Working
    /\ arena' = Flushed /\ held' = NoRun
    /\ ans' = Port!Error
    /\ UNCHANGED sizes \/ Learn(Logical, Physical)
    /\ UNCHANGED <<levers, meta, failed, call, clean>>

(* check: fail closed.                                                        *)
Refused == /\ call = "in" /\ failed
           /\ ans' = Port!Error
           /\ UNCHANGED <<levers, arena, meta, sizes, held, failed, call, clean>>

-----------------------------------------------------------------------------
(* The arena's handle *)

Continues(at, n) == held.n > 0 /\ at = RunEnd /\ held.n + n <= Buffer

(* writeThrough, after what was held.                                         *)
WriteThrough(at, n, v) ==
    /\ ~ coalesce \/ n > Buffer
    /\ arena' = Put(Flushed, at, n, v)
    /\ held' = NoRun

Hold(at, n, v) ==
    /\ coalesce /\ n <= Buffer
    /\ IF Continues(at, n)
       THEN /\ held' = [held EXCEPT !.n = @ + n,
                                    !.at = [i \in Pos |-> IF at <= i /\ i < at + n THEN v ELSE @[i]]]
            /\ UNCHANGED arena
       ELSE /\ held' = [from |-> at, n |-> n,
                        at |-> [i \in Pos |-> IF at <= i /\ i < at + n THEN v ELSE 0]]
            /\ arena' = Flushed

Write ==
    /\ Working
    /\ \E at \in Pos, n \in 1 .. Max, v \in Bytes :
         /\ at + n <= Max
         /\ WriteThrough(at, n, v) \/ Hold(at, n, v)
         /\ Learn(Larger(Logical, at + n), Larger(Physical, at + n))
         /\ ans' = Port!Count(n)
    /\ UNCHANGED <<levers, meta, failed, call, clean>>

ReadUnflushed ==
    /\ Working
    /\ \E at \in Pos, n \in 1 .. Max :
         ans' = Port!Content([arena EXCEPT !.size = IF grow THEN Logical ELSE @], at, n)
    /\ Learn(Logical, Physical)
    /\ UNCHANGED <<levers, arena, held, meta, failed, call, clean>>

(* Short at the logical end, whatever slack is behind it.                     *)
Read ==
    /\ Working
    /\ arena' = Flushed /\ held' = NoRun
    /\ \E at \in Pos, n \in 1 .. Max :
         ans' = Port!Content([Flushed EXCEPT !.size = IF grow THEN Logical ELSE @], at, n)
    /\ Learn(Logical, Physical)
    /\ UNCHANGED <<levers, meta, failed, call, clean>>

GetSize ==
    /\ Working
    /\ arena' = Flushed /\ held' = NoRun
    /\ ans' = Port!Count(IF grow THEN Logical ELSE Flushed.size)
    /\ Learn(Logical, Physical)
    /\ UNCHANGED <<levers, meta, failed, call, clean>>

(* The next multiple of Chunk.                                                *)
Chunked(n) == {size \in n .. n + Chunk - 1 : size % Chunk = 0}

(* growTo: a chunk, or the exact size when the chunk is refused.              *)
GrowTo(n) == \E size \in Chunked(n) \cup {n} : arena' = Cut(Flushed, size) /\ physical' = size

Truncate ==
    /\ Working
    /\ held' = NoRun
    /\ \E n \in 0 .. Max :
         \/ /\ ~ grow
            /\ arena' = Cut(Flushed, n)
            /\ UNCHANGED sizes
         \/ /\ grow /\ n > Logical
            /\ logical' = n
            /\ IF n > Physical THEN GrowTo(n) ELSE arena' = Flushed /\ physical' = Physical
         \/ /\ grow /\ n <= Logical
            /\ arena' = Cut(Flushed, n)
            /\ logical' = n /\ physical' = n
    /\ ans' = Port!Count(0)
    /\ UNCHANGED <<levers, meta, failed, call, clean>>

Flush == /\ Working
         /\ arena' = Flushed /\ held' = NoRun
         /\ UNCHANGED <<levers, meta, sizes, failed, call, clean, ans>>

(* A mutation of one of the other three files (orderedHandle).                *)
MutateAtOnce ==
    /\ Working /\ meta < MaxMeta
    /\ meta' = meta + 1
    /\ UNCHANGED <<levers, arena, held, sizes, failed, call, clean, ans>>

Mutate == /\ Working /\ meta < MaxMeta
          /\ arena' = Flushed /\ held' = NoRun
          /\ meta' = meta + 1
          /\ UNCHANGED <<levers, sizes, failed, call, clean, ans>>

(* close: the slack is trimmed, and the handle released whatever happens.     *)
Slack == Known /\ physical > logical
Untrimmed == arena
Trimmed == IF Slack THEN Cut(arena, logical) ELSE arena

Close == /\ call = "none"
         /\ call' = "closed"
         /\ \/ failed /\ UNCHANGED <<arena, clean, physical>>
            \/ /\ ~ failed /\ clean' = TRUE
               /\ arena' = Trimmed
               /\ physical' = IF Slack THEN logical ELSE physical
            \/ ~ failed /\ Slack /\ UNCHANGED <<arena, clean, physical>>
         /\ UNCHANGED <<levers, meta, logical, held, failed, ans>>

-----------------------------------------------------------------------------
LeverNext == \/ BeginCall \/ EndCall \/ DeferredWriteFails \/ HandleFails \/ Refused
             \/ Write \/ Read \/ GetSize \/ Truncate \/ Flush \/ Mutate \/ Close

LeverSpec == LeverInit /\ [][LeverNext]_leverVars

-----------------------------------------------------------------------------
(* What the platform has is what the store believes it wrote, but for slack.  *)
OnDisk == \A i \in Pos : arena.at[i] = Seen.at[i]

(* Every byte reaches the handle before the store call that wrote it returns  *)
(* (store-levers.js view, flushPending).                                      *)
AnsweredIsWritten == (call = "none" /\ ~ failed) => OnDisk /\ arena.size >= Seen.size

(* The platform sees no metadata before the arena bytes the store wrote first *)
(* (orderedHandle): a coordinator that dies leaves no metadata of extents     *)
(* whose bytes it was still holding.                                          *)
MetadataFollowsData == [][meta' # meta => OnDisk']_leverVars

(* While the store is open the file is less than a chunk longer than the      *)
(* store's, and a store that closed cleanly leaves it no longer at all        *)
(* (growTo, close).                                                           *)
SlackIsTrimmed == /\ ~ failed => arena.size < Seen.size + Chunk
                  /\ clean => arena.size = Seen.size

(* To the store, the wrapper is the file it had without it.                   *)
PortSpec == Port!Spec
=============================================================================
