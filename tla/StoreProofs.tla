------------------------------ MODULE StoreProofs ------------------------------
(***************************************************************************)
(* Proofs about the store on the platform's files.                         *)
(*                                                                         *)
(* StoreBoot, for any number of pages, of attempts, of files and of rows:  *)
(* who has the handles, what is on disk, and what a boot runs on.          *)
(*                                                                         *)
(* StoreLevers, for an arena of any size, any chunk and any buffer: the    *)
(* wrapper is the file the store had without it, what the store was        *)
(* answered for is written, metadata never precedes it, and the slack is   *)
(* less than a chunk.  Nothing of this is inductive by itself.  The        *)
(* invariant says when a run may be held at all, that the two sizes grow   *)
(* keeps are the file's with the run written and the store's, and that the *)
(* slack between them is blank, without which a grown file would differ    *)
(* from the store's.                                                       *)
(***************************************************************************)
EXTENDS StoreBoot, StoreLevers, TLAPS

-----------------------------------------------------------------------------
(* The boot of a store                                                     *)

(* A coordinator that was told to boot and has not been terminated.        *)
Active == {"opening", "reset", "seeding", "serving", "owned", "failed", "stopped"}

(* Where a page may be while it has one.                                   *)
Waiting == {"awaiting", "emptying", "filling", "starting", "up", "stopping", "abandoning"}

(* Which coordinators a page can have, by how far its boot is: only the     *)
(* last one is active, and those not made yet are nothing.                  *)
HostInv ==
    /\ \A p \in Pages, k \in 1 .. Attempts :
          /\ coord[<<p, k>>] \in Active => k = attempt[p] /\ host[p] \in Waiting \cup {"gone"}
          /\ k > attempt[p] => coord[<<p, k>>] = "none"
    /\ \A p \in Pages :
          /\ host[p] = "making" => attempt[p] < Attempts
          /\ host[p] \in {"idle", "unpacking", "writing"} => attempt[p] = 0
          /\ host[p] \in Waiting => attempt[p] > 0
          /\ host[p] = "fetching" => attempt[p] > 0 /\ coord[Last(p)] = "made"

(* Who has the handles: a coordinator that reads or writes the store, failed *)
(* while it did, or is not reaped yet.                                       *)
OwnerInv ==
    /\ owner # NoOne => coord[owner] \in {"seeding", "serving", "failed", "dying"}
    /\ \A p \in Pages :
          host[p] \in {"emptying", "filling", "starting", "up"} =>
              owner = Last(p) /\ coord[Last(p)] \in {"serving", "failed"}

(* What the directory and the owner's memory hold, against what was acked   *)
(* and what was begun.                                                      *)
DataInv ==
    /\ acked <= disk.rows
    /\ disk.form = "half" => disk.rows = 0 /\ ~ disk.dir
    /\ disk.dir => disk.files = Files \/ unsealed
    /\ ~ disk.dir => disk.files = 0
    /\ owner # NoOne =>
          /\ disk.form = "store" /\ mem.form = "store"
          /\ acked <= mem.rows
          /\ mem.dir => mem.files = Files \/ unsealed
          /\ ~ mem.dir => mem.files = 0

(* What a coordinator's answer stands for: it is posted when the data        *)
(* directory is there and on disk.                                           *)
AnswerIs(p, k) ==
    /\ coord[<<p, k>>] = "seeding" => ~ restored[p] /\ unsealed
    /\ coord[<<p, k>>] = "serving" => mem.dir
    /\ coord[<<p, k>>] = "serving" /\ host[p] = "awaiting" => mem.files > 0 /\ mem = disk
AnswerInv == \A p \in Pages, k \in 1 .. Attempts : AnswerIs(p, k)

(* What a page has when it goes on: the seed it was told of is its own.      *)
ServedIs(p) ==
    /\ owner = Last(p) /\ ~ restored[p] /\ mem.dir => mem.by = p
    /\ host[p] \in {"emptying", "filling", "starting", "up"} =>
          mem.dir /\ (opts[p].refuse => ~ restored[p])
    /\ host[p] = "starting" => mem = disk
    /\ host[p] \in {"starting", "up"} => mem.files > 0
ServedInv == \A p \in Pages : ServedIs(p)

(* The inductive invariant: none of the safety properties of StoreBoot is    *)
(* inductive alone, and DataInv and ServedInv each need who the owner is.    *)
BootInv ==
    /\ OptsOK /\ HostOK /\ StoreOK /\ WritersOwn
    /\ HostInv /\ OwnerInv /\ DataInv /\ AnswerInv /\ ServedInv

(* Where a failed boot or a shutdown leaves a page.                        *)
LEMMA EndIs == \A p \in Pages : End(p) \in {"leaving", "over"}
  BY DEF End

(* The counts of a data directory, and the bounds of a store call's change. *)
LEMMA Counts ==
  ASSUME NEW c \in Contents
  PROVE  /\ c.files \in 0 .. Files /\ c.rows \in 0 .. MaxRows
         /\ c.files > 0 => c.files - 1 \in 0 .. Files
         /\ c.files < Files => c.files + 1 \in 0 .. Files
         /\ c.rows < MaxRows => c.rows + 1 \in 0 .. MaxRows
         /\ 0 \in 0 .. Files /\ 0 \in 0 .. MaxRows /\ Files \in 0 .. Files /\ Files > 0
  BY BootAssumption DEF Contents

(* What a removed directory holds.                                         *)
LEMMA NothingIs ==
  /\ Nothing \in Contents /\ Nothing.form = "empty"
  /\ ~ Nothing.dir /\ Nothing.files = 0 /\ Nothing.rows = 0
  BY BootAssumption DEF Nothing, Contents

(* A prepared store while it is written, and when it is.                    *)
LEMMA PreparedIs ==
  ASSUME NEW p \in Pages
  PROVE  /\ LET half == [Nothing EXCEPT !.form = "half"]
            IN  half \in Contents /\ half.form = "half" /\ ~ half.dir /\ half.files = 0 /\ half.rows = 0
         /\ LET whole == [form |-> "store", dir |-> TRUE, files |-> Files, by |-> p, rows |-> 0]
            IN  whole \in Contents /\ whole.form = "store" /\ whole.dir /\ whole.files = Files
                /\ whole.rows = 0
<1>1. 0 \in 0 .. MaxRows /\ Files \in 0 .. Files
      BY BootAssumption
<1>2. \A c \in Contents :
          LET half == [c EXCEPT !.form = "half"]
          IN  half \in Contents /\ half.form = "half" /\ half.dir = c.dir /\ half.files = c.files
              /\ half.rows = c.rows
      BY DEF Contents
<1>. QED BY <1>1, <1>2, NothingIs DEF Contents

(* The last coordinator of a page that waits for one is one of the workers. *)
LEMMA LastIs ==
  ASSUME BootInv, NEW p \in Pages, host[p] \in Waiting \cup {"fetching"}
  PROVE  attempt[p] \in 1 .. Attempts /\ Last(p) \in Workers /\ Last(p) # NoOne
<1>1. attempt[p] \in 1 .. Attempts
      BY BootAssumption DEF BootInv, HostOK, HostInv
<1>. QED BY <1>1, BootAssumption DEF Last, Workers, NoOne

(* While nobody has the handles no coordinator reads or writes the store,   *)
(* and no page is past the coordinator's answer.                            *)
LEMMA NobodyWrites ==
  ASSUME BootInv, owner = NoOne
  PROVE  /\ \A q \in Pages, k \in 1 .. Attempts : coord[<<q, k>>] \notin {"seeding", "serving"}
         /\ \A q \in Pages : host[q] \notin {"emptying", "filling", "starting", "up"}
         /\ \A q \in Pages : Last(q) # NoOne
<1>1. \A q \in Pages, k \in 1 .. Attempts : <<q, k>> \in Workers /\ <<q, k>> # NoOne
      BY BootAssumption DEF Workers, NoOne
<1>2. \A q \in Pages : Last(q) # NoOne
      BY BootAssumption DEF Last, NoOne
<1>. QED BY <1>1, <1>2 DEF BootInv, WritersOwn, OwnerInv

(* A page past the coordinator's answer has the store, and no other page or *)
(* coordinator is at it.                                                    *)
LEMMA OneWriter ==
  ASSUME BootInv, NEW p \in Pages, host[p] \in {"emptying", "filling", "starting", "up"}
  PROVE  /\ owner = Last(p) /\ owner # NoOne /\ attempt[p] \in 1 .. Attempts
         /\ \A q \in Pages : q # p => host[q] \notin {"emptying", "filling", "starting", "up"}
         /\ \A q \in Pages, k \in 1 .. Attempts :
               coord[<<q, k>>] \in {"seeding", "serving"} => q = p /\ k = attempt[p]
         /\ coord[Last(p)] # "seeding"
<1>1. owner = Last(p) /\ owner # NoOne /\ attempt[p] \in 1 .. Attempts /\ coord[Last(p)] # "seeding"
      BY LastIs DEF BootInv, OwnerInv, Waiting
<1>2. \A q \in Pages : q # p => Last(q) # Last(p)
      BY DEF Last
<1>3. \A q \in Pages, k \in 1 .. Attempts :
          /\ <<q, k>> \in Workers
          /\ <<q, k>> = Last(p) => q = p /\ k = attempt[p]
      BY DEF Workers, Last
<1>. QED BY <1>1, <1>2, <1>3 DEF BootInv, OwnerInv, WritersOwn

(* A coordinator that seeds or serves has the store, and no other is at it. *)
LEMMA OneCoordinator ==
  ASSUME BootInv, NEW p \in Pages, NEW k \in 1 .. Attempts,
         coord[<<p, k>>] \in {"seeding", "serving"}
  PROVE  /\ owner = <<p, k>> /\ owner # NoOne /\ k = attempt[p]
         /\ \A q \in Pages, j \in 1 .. Attempts :
               coord[<<q, j>>] \in {"seeding", "serving"} => q = p /\ j = k
         /\ \A q \in Pages : q # p => host[q] \notin {"emptying", "filling", "starting", "up"}
<1>1. owner = <<p, k>> /\ owner # NoOne /\ k = attempt[p]
      BY BootAssumption DEF BootInv, WritersOwn, Workers, NoOne, HostInv, Active
<1>2. \A q \in Pages, j \in 1 .. Attempts :
          /\ <<q, j>> \in Workers
          /\ <<q, j>> = <<p, k>> => q = p /\ j = k
      BY DEF Workers
<1>3. \A q \in Pages : q # p => Last(q) # <<p, k>>
      BY DEF Last
<1>. QED BY <1>1, <1>2, <1>3 DEF BootInv, OwnerInv, WritersOwn

(* Every step of a page's boot, of its guest or of its end keeps BootInv.   *)
LEMMA HostStepKeeps ==
  ASSUME BootInv, NEW p \in Pages, HostStep(p)
  PROVE  BootInv'
<1>1. ASSUME Begin(p) PROVE BootInv'
  <2>1. OptsOK' /\ StoreOK' /\ WritersOwn' /\ DataInv'
        BY <1>1 DEF Begin, HostAt, store, BootInv, OptsOK, StoreOK, WritersOwn, DataInv
  <2>2. HostOK'
        BY <1>1, BootAssumption DEF Begin, HostAt, store, BootInv, HostOK, HostStates
  <2>3. HostInv'
        BY <1>1, BootAssumption DEF Begin, HostAt, store, BootInv, HostOK, HostInv, Active,
           Waiting, Last
  <2>4. OwnerInv'
        BY <1>1 DEF Begin, HostAt, store, BootInv, HostOK, OwnerInv, Last
  <2>5. AnswerInv'
        BY <1>1 DEF Begin, HostAt, store, BootInv, HostOK, AnswerInv, AnswerIs
  <2>6. ServedInv'
        BY <1>1 DEF Begin, HostAt, store, BootInv, HostOK, ServedInv, Last, ServedIs
  <2>. QED BY <2>1, <2>2, <2>3, <2>4, <2>5, <2>6 DEF BootInv
<1>2. ASSUME Unpack(p) PROVE BootInv'
  <2>1. /\ host[p] = "unpacking" /\ host' = [host EXCEPT ![p] = "writing"]
        /\ disk' \in Contents /\ disk'.form = "half" /\ ~ disk'.dir /\ disk'.files = 0 /\ disk'.rows = 0
        /\ acked' = 0 /\ unsealed' = FALSE /\ owner = NoOne
        /\ UNCHANGED <<opts, attempt, coord, restored, owner, mem>>
        BY <1>2, PreparedIs DEF Unpack, HostAt, Removable
  <2>2. OptsOK' /\ WritersOwn'
        BY <2>1 DEF store, BootInv, OptsOK, WritersOwn
  <2>3. HostOK'
        BY <2>1, BootAssumption DEF store, BootInv, HostOK, HostStates
  <2>4. StoreOK'
        BY <2>1, NobodyWrites, BootAssumption, Counts DEF store, BootInv, StoreOK
  <2>5. HostInv'
        BY <2>1, BootAssumption DEF store, BootInv, HostOK, HostInv, Active, Waiting, Last
  <2>6. OwnerInv'
        BY <2>1, NobodyWrites DEF store, BootInv, HostOK, OwnerInv, Last
  <2>7. DataInv'
        BY <2>1, NobodyWrites, BootAssumption, Counts DEF store, BootInv, DataInv, StoreOK
  <2>8. AnswerInv'
        BY <2>1, NobodyWrites DEF store, BootInv, HostOK, AnswerInv, AnswerIs
  <2>9. ServedInv'
        BY <2>1, NobodyWrites DEF store, BootInv, HostOK, ServedInv, Last, ServedIs
  <2>. QED BY <2>2, <2>3, <2>4, <2>5, <2>6, <2>7, <2>8, <2>9 DEF BootInv
<1>3. ASSUME UnpackEnds(p) PROVE BootInv'
  <2>1. /\ host[p] = "writing" /\ host' = [host EXCEPT ![p] = "making"]
        /\ disk' \in Contents /\ disk'.form = "store" /\ disk'.dir /\ disk'.files = Files /\ disk'.rows = 0
        /\ acked = 0 /\ owner = NoOne
        /\ UNCHANGED <<opts, attempt, coord, restored, owner, mem, acked, unsealed>>
        BY <1>3, PreparedIs, BootAssumption DEF UnpackEnds, HostAt, BootInv, DataInv, StoreOK
  <2>2. OptsOK' /\ WritersOwn'
        BY <2>1 DEF store, BootInv, OptsOK, WritersOwn
  <2>3. HostOK'
        BY <2>1, BootAssumption DEF store, BootInv, HostOK, HostStates
  <2>4. StoreOK'
        BY <2>1, NobodyWrites, BootAssumption, Counts DEF store, BootInv, StoreOK
  <2>5. HostInv'
        BY <2>1, BootAssumption DEF store, BootInv, HostOK, HostInv, Active, Waiting, Last
  <2>6. OwnerInv'
        BY <2>1, NobodyWrites DEF store, BootInv, HostOK, OwnerInv, Last
  <2>7. DataInv'
        BY <2>1, NobodyWrites, BootAssumption, Counts DEF store, BootInv, DataInv, StoreOK
  <2>8. AnswerInv'
        BY <2>1, NobodyWrites DEF store, BootInv, HostOK, AnswerInv, AnswerIs
  <2>9. ServedInv'
        BY <2>1, NobodyWrites DEF store, BootInv, HostOK, ServedInv, Last, ServedIs
  <2>. QED BY <2>2, <2>3, <2>4, <2>5, <2>6, <2>7, <2>8, <2>9 DEF BootInv
<1>4. ASSUME UnpackFails(p) PROVE BootInv'
  <2>1. /\ host[p] \in {"unpacking", "writing"}
        /\ host' = [host EXCEPT ![p] = End(p)] /\ End(p) \in {"leaving", "over"}
        /\ UNCHANGED <<opts, attempt, coord, restored, store>>
        BY <1>4, EndIs DEF UnpackFails, HostAt
  <2>2. OptsOK' /\ StoreOK' /\ WritersOwn' /\ DataInv'
        BY <2>1 DEF store, BootInv, OptsOK, StoreOK, WritersOwn, DataInv
  <2>3. HostOK'
        BY <2>1, BootAssumption DEF store, BootInv, HostOK, HostStates
  <2>4. HostInv'
        BY <2>1, BootAssumption DEF store, BootInv, HostOK, HostInv, Active, Waiting, Last
  <2>5. OwnerInv'
        BY <2>1 DEF store, BootInv, HostOK, OwnerInv, Last
  <2>6. AnswerInv'
        BY <2>1 DEF store, BootInv, HostOK, AnswerInv, AnswerIs
  <2>7. ServedInv'
        BY <2>1 DEF store, BootInv, HostOK, ServedInv, Last, ServedIs
  <2>. QED BY <2>2, <2>3, <2>4, <2>5, <2>6, <2>7 DEF BootInv
<1>5. ASSUME MakeWorker(p) PROVE BootInv'
  <2>1. /\ host[p] = "making" /\ host' = [host EXCEPT ![p] = "fetching"]
        /\ attempt[p] + 1 \in 1 .. Attempts /\ owner # <<p, attempt[p] + 1>>
        /\ attempt' = [attempt EXCEPT ![p] = attempt[p] + 1]
        /\ coord' = [coord EXCEPT ![<<p, attempt[p] + 1>>] = "made"]
        /\ UNCHANGED <<opts, restored, store>>
        BY <1>5, BootAssumption DEF MakeWorker, HostAt, BootInv, HostOK, HostInv, OwnerInv,
           Workers, NoOne
  <2>2. OptsOK' /\ StoreOK' /\ DataInv'
        BY <2>1 DEF store, BootInv, OptsOK, StoreOK, DataInv
  <2>3. HostOK'
        BY <2>1, BootAssumption DEF store, BootInv, Workers, HostStates, CoordStates, HostOK
  <2>4. WritersOwn'
        BY <2>1 DEF store, BootInv, HostOK, WritersOwn
  <2>5. HostInv'
        BY <2>1, BootAssumption DEF store, BootInv, Workers, HostOK, HostInv, Active, Waiting,
           Last
  <2>6. OwnerInv'
        BY <2>1 DEF store, BootInv, Workers, HostOK, OwnerInv, Last, HostInv
  <2>7. AnswerInv'
        BY <2>1 DEF store, BootInv, Workers, HostOK, AnswerInv, AnswerIs
  <2>8. ServedInv'
        BY <2>1 DEF store, BootInv, Workers, HostOK, ServedInv, Last, ServedIs
  <2>. QED BY <2>2, <2>3, <2>4, <2>5, <2>6, <2>7, <2>8 DEF BootInv
<1>6. ASSUME PostBoot(p) PROVE BootInv'
  <2>1. /\ host[p] = "fetching" /\ host' = [host EXCEPT ![p] = "awaiting"]
        /\ attempt[p] \in 1 .. Attempts /\ coord[<<p, attempt[p]>>] = "made"
        /\ coord' = [coord EXCEPT ![<<p, attempt[p]>>] = "opening"]
        /\ UNCHANGED <<opts, attempt, restored, store>>
        BY <1>6, LastIs DEF PostBoot, HostAt, Last, BootInv, HostInv
  <2>2. OptsOK' /\ StoreOK' /\ DataInv'
        BY <2>1 DEF store, BootInv, OptsOK, StoreOK, DataInv
  <2>3. HostOK'
        BY <2>1, BootAssumption DEF store, BootInv, Workers, HostStates, CoordStates, HostOK
  <2>4. WritersOwn'
        BY <2>1 DEF store, BootInv, HostOK, WritersOwn
  <2>5. HostInv'
        BY <2>1, BootAssumption DEF store, BootInv, Workers, HostOK, HostInv, Active, Waiting,
           Last
  <2>6. OwnerInv'
        BY <2>1 DEF store, BootInv, Workers, HostOK, OwnerInv, Last
  <2>7. AnswerInv'
    <3>1. \A k \in 1 .. Attempts : coord[<<p, k>>] # "serving"
          BY <2>1 DEF BootInv, HostInv, Active, Waiting
    <3>. SUFFICES ASSUME NEW q \in Pages, NEW j \in 1 .. Attempts PROVE AnswerIs(q, j)'
          BY DEF AnswerInv
    <3>2. /\ coord'[<<q, j>>] \in {"opening", coord[<<q, j>>]}
          /\ host'[q] = "awaiting" => host[q] = "awaiting" \/ q = p
          BY <2>1 DEF BootInv, HostOK, Workers
    <3>. QED BY <2>1, <3>1, <3>2 DEF BootInv, AnswerInv, AnswerIs, store
  <2>8. ServedInv'
        BY <2>1 DEF store, BootInv, Workers, HostOK, ServedInv, Last, ServedIs
  <2>. QED BY <2>2, <2>3, <2>4, <2>5, <2>6, <2>7, <2>8 DEF BootInv
<1>7. ASSUME FetchFails(p) PROVE BootInv'
  <2>1. /\ host[p] = "fetching"
        /\ host' = [host EXCEPT ![p] = End(p)] /\ End(p) \in {"leaving", "over"}
        /\ UNCHANGED <<opts, attempt, coord, restored, store>>
        BY <1>7, EndIs DEF FetchFails, HostAt
  <2>2. OptsOK' /\ StoreOK' /\ WritersOwn' /\ DataInv'
        BY <2>1 DEF store, BootInv, OptsOK, StoreOK, WritersOwn, DataInv
  <2>3. HostOK'
        BY <2>1, BootAssumption DEF store, BootInv, HostOK, HostStates
  <2>4. HostInv'
        BY <2>1, BootAssumption DEF store, BootInv, HostOK, HostInv, Active, Waiting, Last
  <2>5. OwnerInv'
        BY <2>1 DEF store, BootInv, HostOK, OwnerInv, Last
  <2>6. AnswerInv'
        BY <2>1 DEF store, BootInv, HostOK, AnswerInv, AnswerIs
  <2>7. ServedInv'
        BY <2>1 DEF store, BootInv, HostOK, ServedInv, Last, ServedIs
  <2>. QED BY <2>2, <2>3, <2>4, <2>5, <2>6, <2>7 DEF BootInv
<1>8. ASSUME Ready(p) PROVE BootInv'
  <2>1. PICK to \in {"emptying", "starting"} :
          /\ host[p] = "awaiting" /\ attempt[p] \in 1 .. Attempts
          /\ coord[<<p, attempt[p]>>] = "serving" /\ owner = <<p, attempt[p]>>
          /\ mem.dir /\ mem.files > 0 /\ mem = disk
          /\ restored[p] => ~ opts[p].refuse
          /\ host' = [host EXCEPT ![p] = to]
          /\ UNCHANGED <<opts, attempt, coord, restored, store>>
    <3>1. /\ host[p] = "awaiting" /\ coord[<<p, attempt[p]>>] = "serving"
          /\ restored[p] => ~ opts[p].refuse
          /\ UNCHANGED <<opts, attempt, coord, restored, store>>
          BY <1>8 DEF Ready, Acceptable, HostAt, Last
    <3>2. PICK k \in 1 .. Attempts : k = attempt[p]
          BY <3>1, LastIs DEF Waiting
    <3>3. owner = <<p, k>>
          BY <3>1, <3>2, OneCoordinator
    <3>4. mem.dir /\ mem.files > 0 /\ mem = disk
          BY <3>1, <3>2 DEF BootInv, AnswerInv, AnswerIs
    <3>5. CASE opts[p].restore
          BY <1>8, <3>1, <3>2, <3>3, <3>4, <3>5 DEF Ready, HostAt
    <3>6. CASE ~ opts[p].restore
          BY <1>8, <3>1, <3>2, <3>3, <3>4, <3>6 DEF Ready, HostAt
    <3>. QED BY <3>5, <3>6
  <2>2. OptsOK' /\ StoreOK' /\ WritersOwn' /\ DataInv'
        BY <2>1 DEF store, BootInv, OptsOK, StoreOK, WritersOwn, DataInv
  <2>3. HostOK'
        BY <2>1, BootAssumption DEF store, BootInv, HostOK, HostStates
  <2>4. HostInv'
        BY <2>1, BootAssumption DEF store, BootInv, HostOK, HostInv, Active, Waiting, Last
  <2>5. OwnerInv'
        BY <2>1, OneCoordinator DEF store, BootInv, HostOK, OwnerInv, Last
  <2>6. AnswerInv'
        BY <2>1, OneCoordinator DEF store, BootInv, HostOK, AnswerInv, AnswerIs
  <2>7. ServedInv'
        BY <2>1, OneCoordinator DEF store, BootInv, HostOK, ServedInv, Last, ServedIs
  <2>. QED BY <2>2, <2>3, <2>4, <2>5, <2>6, <2>7 DEF BootInv
<1>9. ASSUME AttemptFails(p) PROVE BootInv'
  <2>1. PICK to \in {"leaving", "over", "making"}, end \in {"dying", "dead"} :
          /\ host[p] = "awaiting" /\ attempt[p] \in 1 .. Attempts
          /\ host' = [host EXCEPT ![p] = to]
          /\ to = "making" => attempt[p] < Attempts
          /\ coord' = [coord EXCEPT ![<<p, attempt[p]>>] = end]
          /\ end = "dying" <=> owner = <<p, attempt[p]>>
          /\ UNCHANGED <<opts, attempt, restored, store>>
        BY <1>9, EndIs, LastIs DEF AttemptFails, HostAt, WorthARetry, Terminated, Waiting, Last
  <2>2. OptsOK' /\ StoreOK' /\ DataInv'
        BY <2>1 DEF store, BootInv, OptsOK, StoreOK, DataInv
  <2>3. HostOK'
        BY <2>1, BootAssumption DEF store, BootInv, Workers, HostStates, CoordStates, HostOK
  <2>4. WritersOwn'
        BY <2>1 DEF store, BootInv, HostOK, WritersOwn
  <2>5. HostInv'
        BY <2>1, BootAssumption DEF store, BootInv, Workers, HostOK, HostInv, Active, Waiting,
           Last
  <2>6. OwnerInv'
        BY <2>1 DEF store, BootInv, Workers, HostOK, OwnerInv, Last
  <2>7. AnswerInv'
        BY <2>1 DEF store, BootInv, Workers, HostOK, AnswerInv, AnswerIs
  <2>8. ServedInv'
        BY <2>1 DEF store, BootInv, Workers, HostOK, ServedInv, Last, ServedIs
  <2>. QED BY <2>2, <2>3, <2>4, <2>5, <2>6, <2>7, <2>8 DEF BootInv
<1>10. ASSUME Empty(p) PROVE BootInv'
  <2>1. /\ host[p] = "emptying"
        /\ owner = <<p, attempt[p]>> /\ owner # NoOne /\ attempt[p] \in 1 .. Attempts
        /\ mem' \in Contents /\ mem'.rows = 0 /\ mem'.form = mem.form /\ mem.dir /\ mem'.dir
        /\ mem'.by = mem.by /\ disk' \in {disk, mem'}
        /\ acked' = 0 /\ unsealed' = TRUE
        /\ UNCHANGED <<opts, host, attempt, coord, restored, owner>>
    <3>1. mem \in Contents /\ mem' = [mem EXCEPT !.files = mem.files - 1, !.rows = 0]
          BY <1>10 DEF Empty, StoreSays, BootInv, StoreOK
    <3>2. PICK n \in 0 .. Files : n = mem.files - 1
          BY <1>10, <3>1, Counts DEF Empty
    <3>3. 0 \in 0 .. MaxRows
          BY BootAssumption
    <3>4. /\ mem' \in Contents /\ mem'.rows = 0 /\ mem'.form = mem.form /\ mem'.dir = mem.dir
          /\ mem'.by = mem.by
          BY <3>1, <3>2, <3>3 DEF Contents
    <3>5. host[p] = "emptying" /\ disk' \in {disk, mem'} /\ acked' = 0 /\ unsealed' = TRUE
          /\ UNCHANGED <<opts, host, attempt, coord, restored, owner>>
          BY <1>10 DEF Empty, StoreSays
    <3>6. owner = <<p, attempt[p]>> /\ owner # NoOne /\ attempt[p] \in 1 .. Attempts
          BY <3>5, OneWriter DEF Last
    <3>7. mem.dir
          BY <3>5 DEF BootInv, ServedInv, ServedIs
    <3>. QED BY <3>4, <3>5, <3>6, <3>7
  <2>2. OptsOK' /\ HostOK' /\ WritersOwn' /\ HostInv' /\ OwnerInv'
        BY <2>1 DEF store, BootInv, OptsOK, HostOK, WritersOwn, HostInv, OwnerInv, Last
  <2>3. StoreOK'
        BY <2>1, OneWriter, BootAssumption, Counts DEF store, BootInv, StoreOK
  <2>4. DataInv'
        BY <2>1, OneWriter, BootAssumption, Counts DEF store, BootInv, DataInv, StoreOK
  <2>5. AnswerInv'
    <3>. SUFFICES ASSUME NEW q \in Pages, NEW j \in 1 .. Attempts PROVE AnswerIs(q, j)'
          BY DEF AnswerInv
    <3>1. coord[<<q, j>>] = "serving" => q = p
          BY <2>1, OneWriter
    <3>. QED BY <2>1, <3>1 DEF BootInv, AnswerInv, AnswerIs
  <2>6. ServedInv'
        BY <2>1, OneWriter DEF store, BootInv, HostOK, ServedInv, Last, ServedIs
  <2>. QED BY <2>2, <2>3, <2>4, <2>5, <2>6 DEF BootInv
<1>11. ASSUME EmptyEnds(p) PROVE BootInv'
  <2>1. OptsOK' /\ StoreOK' /\ WritersOwn' /\ DataInv'
        BY <1>11 DEF EmptyEnds, HostAt, Serves, store, BootInv, OptsOK, StoreOK, WritersOwn,
           DataInv
  <2>2. HostOK'
        BY <1>11, BootAssumption DEF EmptyEnds, HostAt, Serves, store, BootInv, HostOK,
           HostStates
  <2>3. HostInv'
        BY <1>11, BootAssumption DEF EmptyEnds, HostAt, Serves, store, BootInv, HostOK,
           HostInv, Active, Waiting, Last
  <2>4. OwnerInv'
        BY <1>11 DEF EmptyEnds, HostAt, Serves, store, BootInv, HostOK, OwnerInv, Last
  <2>5. AnswerInv'
        BY <1>11 DEF EmptyEnds, HostAt, Serves, store, BootInv, HostOK, AnswerInv, AnswerIs
  <2>6. ServedInv'
        BY <1>11 DEF EmptyEnds, HostAt, Serves, store, BootInv, HostOK, ServedInv, Last,
           ServedIs
  <2>. QED BY <2>1, <2>2, <2>3, <2>4, <2>5, <2>6 DEF BootInv
<1>12. ASSUME Fill(p) PROVE BootInv'
  <2>1. /\ host[p] = "filling"
        /\ owner = <<p, attempt[p]>> /\ owner # NoOne /\ attempt[p] \in 1 .. Attempts
        /\ mem.dir /\ unsealed
        /\ mem' \in Contents /\ mem'.rows = mem.rows /\ mem'.form = mem.form /\ mem'.dir /\ mem'.by = p
        /\ disk' \in {disk, mem'}
        /\ UNCHANGED <<opts, host, attempt, coord, restored, owner, acked, unsealed>>
    <3>1. mem \in Contents /\ mem' = [mem EXCEPT !.files = mem.files + 1, !.by = p]
          BY <1>12 DEF Fill, StoreSays, BootInv, StoreOK
    <3>2. PICK n \in 0 .. Files : n = mem.files + 1
          BY <1>12, <3>1, Counts DEF Fill
    <3>3. /\ mem' \in Contents /\ mem'.rows = mem.rows /\ mem'.form = mem.form /\ mem'.dir = mem.dir
          /\ mem'.by = p
          BY <3>1, <3>2 DEF Contents
    <3>4. host[p] = "filling" /\ mem.files < Files /\ disk' \in {disk, mem'}
          /\ UNCHANGED <<opts, host, attempt, coord, restored, owner, acked, unsealed>>
          BY <1>12 DEF Fill, StoreSays
    <3>5. owner = <<p, attempt[p]>> /\ owner # NoOne /\ attempt[p] \in 1 .. Attempts
          BY <3>4, OneWriter DEF Last
    <3>6. mem.dir /\ unsealed
          BY <3>1, <3>4, <3>5, Counts DEF BootInv, ServedInv, ServedIs, DataInv
    <3>. QED BY <3>3, <3>4, <3>5, <3>6
  <2>2. OptsOK' /\ HostOK' /\ WritersOwn' /\ HostInv' /\ OwnerInv'
        BY <2>1 DEF store, BootInv, OptsOK, HostOK, WritersOwn, HostInv, OwnerInv, Last
  <2>3. StoreOK'
        BY <2>1, OneWriter, BootAssumption, Counts DEF store, BootInv, StoreOK
  <2>4. DataInv'
        BY <2>1, OneWriter, BootAssumption, Counts DEF store, BootInv, DataInv, StoreOK
  <2>5. AnswerInv'
        BY <2>1, OneWriter DEF store, BootInv, HostOK, AnswerInv, AnswerIs
  <2>6. ServedInv'
        BY <2>1, OneWriter DEF store, BootInv, HostOK, ServedInv, Last, ServedIs
  <2>. QED BY <2>2, <2>3, <2>4, <2>5, <2>6 DEF BootInv
<1>13. ASSUME FillEnds(p) PROVE BootInv'
  <2>1. /\ host[p] = "filling" /\ host' = [host EXCEPT ![p] = "starting"]
        /\ owner = <<p, attempt[p]>> /\ owner # NoOne /\ attempt[p] \in 1 .. Attempts
        /\ coord[<<p, attempt[p]>>] = "serving"
        /\ mem.files = Files /\ mem.files > 0 /\ disk' = mem /\ unsealed' = FALSE
        /\ UNCHANGED <<opts, attempt, coord, restored, owner, mem, acked>>
        BY <1>13, OneWriter, Counts DEF FillEnds, HostAt, Serves, Last, BootInv, StoreOK,
           DataInv
  <2>2. OptsOK' /\ WritersOwn'
        BY <2>1 DEF store, BootInv, OptsOK, WritersOwn
  <2>3. HostOK'
        BY <2>1, BootAssumption DEF store, BootInv, HostOK, HostStates
  <2>4. StoreOK'
        BY <2>1, OneWriter, BootAssumption, Counts DEF store, BootInv, StoreOK
  <2>5. HostInv'
        BY <2>1, BootAssumption DEF store, BootInv, HostOK, HostInv, Active, Waiting, Last
  <2>6. OwnerInv'
        BY <2>1, OneWriter DEF store, BootInv, HostOK, OwnerInv, Last
  <2>7. DataInv'
        BY <2>1, OneWriter, BootAssumption, Counts DEF store, BootInv, DataInv, StoreOK
  <2>8. AnswerInv'
        BY <2>1, OneWriter DEF store, BootInv, HostOK, AnswerInv, AnswerIs
  <2>9. ServedInv'
        BY <2>1, OneWriter DEF store, BootInv, HostOK, ServedInv, Last, ServedIs
  <2>. QED BY <2>2, <2>3, <2>4, <2>5, <2>6, <2>7, <2>8, <2>9 DEF BootInv
<1>14. ASSUME PrepareFails(p) PROVE BootInv'
  <2>1. /\ host[p] \in {"emptying", "filling"}
        /\ host' = [host EXCEPT ![p] = "abandoning"]
        /\ UNCHANGED <<opts, attempt, coord, restored, store>>
        BY <1>14 DEF PrepareFails, HostAt
  <2>2. OptsOK' /\ StoreOK' /\ WritersOwn' /\ DataInv'
        BY <2>1 DEF store, BootInv, OptsOK, StoreOK, WritersOwn, DataInv
  <2>3. HostOK'
        BY <2>1, BootAssumption DEF store, BootInv, HostOK, HostStates
  <2>4. HostInv'
        BY <2>1, BootAssumption DEF store, BootInv, HostOK, HostInv, Active, Waiting, Last
  <2>5. OwnerInv'
        BY <2>1 DEF store, BootInv, HostOK, OwnerInv, Last
  <2>6. AnswerInv'
        BY <2>1 DEF store, BootInv, HostOK, AnswerInv, AnswerIs
  <2>7. ServedInv'
        BY <2>1 DEF store, BootInv, HostOK, ServedInv, Last, ServedIs
  <2>. QED BY <2>2, <2>3, <2>4, <2>5, <2>6, <2>7 DEF BootInv
<1>15. ASSUME GuestBoots(p) PROVE BootInv'
  <2>1. OptsOK' /\ StoreOK' /\ WritersOwn' /\ DataInv'
        BY <1>15 DEF GuestBoots, HostAt, store, BootInv, OptsOK, StoreOK, WritersOwn, DataInv
  <2>2. HostOK'
        BY <1>15, BootAssumption DEF GuestBoots, HostAt, store, BootInv, HostOK, HostStates
  <2>3. HostInv'
        BY <1>15, BootAssumption DEF GuestBoots, HostAt, store, BootInv, HostOK, HostInv,
           Active, Waiting, Last
  <2>4. OwnerInv'
        BY <1>15 DEF GuestBoots, HostAt, store, BootInv, HostOK, OwnerInv, Last
  <2>5. AnswerInv'
        BY <1>15 DEF GuestBoots, HostAt, store, BootInv, HostOK, AnswerInv, AnswerIs
  <2>6. ServedInv'
        BY <1>15 DEF GuestBoots, HostAt, store, BootInv, HostOK, ServedInv, Last, ServedIs
  <2>. QED BY <2>1, <2>2, <2>3, <2>4, <2>5, <2>6 DEF BootInv
<1>16. ASSUME GuestFails(p) PROVE BootInv'
  <2>1. OptsOK' /\ StoreOK' /\ WritersOwn' /\ DataInv'
        BY <1>16 DEF GuestFails, HostAt, store, BootInv, OptsOK, StoreOK, WritersOwn, DataInv
  <2>2. HostOK'
        BY <1>16, BootAssumption DEF GuestFails, HostAt, store, BootInv, HostOK, HostStates
  <2>3. HostInv'
        BY <1>16, BootAssumption DEF GuestFails, HostAt, store, BootInv, HostOK, HostInv,
           Active, Waiting, Last
  <2>4. OwnerInv'
        BY <1>16 DEF GuestFails, HostAt, store, BootInv, HostOK, OwnerInv, Last
  <2>5. AnswerInv'
        BY <1>16 DEF GuestFails, HostAt, store, BootInv, HostOK, AnswerInv, AnswerIs
  <2>6. ServedInv'
        BY <1>16 DEF GuestFails, HostAt, store, BootInv, HostOK, ServedInv, Last, ServedIs
  <2>. QED BY <2>1, <2>2, <2>3, <2>4, <2>5, <2>6 DEF BootInv
<1>17. ASSUME GuestWrites(p) PROVE BootInv'
  <2>1. /\ host[p] = "up"
        /\ owner = <<p, attempt[p]>> /\ owner # NoOne /\ attempt[p] \in 1 .. Attempts
        /\ mem' \in Contents /\ mem'.rows = mem.rows + 1 /\ mem'.files = mem.files
        /\ mem'.form = mem.form /\ mem'.dir = mem.dir /\ mem'.by = mem.by
        /\ \/ disk' = disk /\ acked' = acked
           \/ disk' = mem' /\ acked' = mem'.rows
        /\ UNCHANGED <<opts, host, attempt, coord, restored, owner, unsealed>>
    <3>1. mem \in Contents /\ mem' = [mem EXCEPT !.rows = mem.rows + 1]
          BY <1>17 DEF GuestWrites, StoreSays, BootInv, StoreOK
    <3>2. PICK r \in 0 .. MaxRows : r = mem.rows + 1
          BY <1>17, <3>1, Counts DEF GuestWrites
    <3>3. /\ mem' \in Contents /\ mem'.rows = mem.rows + 1 /\ mem'.files = mem.files
          /\ mem'.form = mem.form /\ mem'.dir = mem.dir /\ mem'.by = mem.by
          BY <3>1, <3>2 DEF Contents
    <3>4. /\ host[p] = "up"
          /\ \/ disk' = disk /\ acked' = acked
             \/ disk' = mem' /\ acked' = mem.rows + 1
          /\ UNCHANGED <<opts, host, attempt, coord, restored, owner, unsealed>>
          BY <1>17 DEF GuestWrites, StoreSays
    <3>5. owner = <<p, attempt[p]>> /\ owner # NoOne /\ attempt[p] \in 1 .. Attempts
          BY <3>4, OneWriter DEF Last
    <3>. QED BY <3>3, <3>4, <3>5
  <2>2. OptsOK' /\ HostOK' /\ WritersOwn' /\ HostInv' /\ OwnerInv'
        BY <2>1 DEF store, BootInv, OptsOK, HostOK, WritersOwn, HostInv, OwnerInv, Last
  <2>3. StoreOK'
        BY <2>1, OneWriter, BootAssumption, Counts DEF store, BootInv, StoreOK
  <2>4. DataInv'
        BY <2>1, OneWriter, BootAssumption, Counts DEF store, BootInv, DataInv, StoreOK
  <2>5. AnswerInv'
        BY <2>1, OneWriter DEF store, BootInv, HostOK, AnswerInv, AnswerIs
  <2>6. ServedInv'
        BY <2>1, OneWriter DEF store, BootInv, HostOK, ServedInv, Last, ServedIs
  <2>. QED BY <2>2, <2>3, <2>4, <2>5, <2>6 DEF BootInv
<1>18. ASSUME GuestSyncs(p) PROVE BootInv'
  <2>1. /\ host[p] = "up"
        /\ owner = <<p, attempt[p]>> /\ owner # NoOne /\ attempt[p] \in 1 .. Attempts
        /\ disk' = mem /\ acked' = mem.rows
        /\ UNCHANGED <<opts, host, attempt, coord, restored, owner, mem, unsealed>>
        BY <1>18, OneWriter DEF GuestSyncs, Last
  <2>2. OptsOK' /\ HostOK' /\ WritersOwn' /\ HostInv' /\ OwnerInv'
        BY <2>1 DEF store, BootInv, OptsOK, HostOK, WritersOwn, HostInv, OwnerInv, Last
  <2>3. StoreOK'
        BY <2>1, OneWriter, BootAssumption, Counts DEF store, BootInv, StoreOK
  <2>4. DataInv'
        BY <2>1, OneWriter, BootAssumption, Counts DEF store, BootInv, DataInv, StoreOK
  <2>5. AnswerInv'
        BY <2>1, OneWriter DEF store, BootInv, HostOK, AnswerInv, AnswerIs
  <2>6. ServedInv'
        BY <2>1, OneWriter DEF store, BootInv, HostOK, ServedInv, Last, ServedIs
  <2>. QED BY <2>2, <2>3, <2>4, <2>5, <2>6 DEF BootInv
<1>19. ASSUME Shutdown(p) PROVE BootInv'
  <2>1. OptsOK' /\ StoreOK' /\ WritersOwn' /\ DataInv'
        BY <1>19 DEF Shutdown, HostAt, store, BootInv, OptsOK, StoreOK, WritersOwn, DataInv
  <2>2. HostOK'
        BY <1>19, BootAssumption DEF Shutdown, HostAt, store, BootInv, HostOK, HostStates
  <2>3. HostInv'
        BY <1>19, BootAssumption DEF Shutdown, HostAt, store, BootInv, HostOK, HostInv, Active,
           Waiting, Last
  <2>4. OwnerInv'
        BY <1>19 DEF Shutdown, HostAt, store, BootInv, HostOK, OwnerInv, Last
  <2>5. AnswerInv'
        BY <1>19 DEF Shutdown, HostAt, store, BootInv, HostOK, AnswerInv, AnswerIs
  <2>6. ServedInv'
        BY <1>19 DEF Shutdown, HostAt, store, BootInv, HostOK, ServedInv, Last, ServedIs
  <2>. QED BY <2>1, <2>2, <2>3, <2>4, <2>5, <2>6 DEF BootInv
<1>20. ASSUME StopEnds(p) PROVE BootInv'
  <2>1. PICK end \in {"dying", "dead"} :
          /\ host[p] \in {"stopping", "abandoning"} /\ attempt[p] \in 1 .. Attempts
          /\ host' = [host EXCEPT ![p] = End(p)] /\ End(p) \in {"leaving", "over"}
          /\ coord' = [coord EXCEPT ![<<p, attempt[p]>>] = end]
          /\ end = "dying" <=> owner = <<p, attempt[p]>>
          /\ UNCHANGED <<opts, attempt, restored, store>>
        BY <1>20, EndIs, LastIs DEF StopEnds, HostAt, Terminated, Waiting, Last
  <2>2. OptsOK' /\ StoreOK' /\ DataInv'
        BY <2>1 DEF store, BootInv, OptsOK, StoreOK, DataInv
  <2>3. HostOK'
        BY <2>1, BootAssumption DEF store, BootInv, Workers, HostStates, CoordStates, HostOK
  <2>4. WritersOwn'
        BY <2>1 DEF store, BootInv, HostOK, WritersOwn
  <2>5. HostInv'
        BY <2>1, BootAssumption DEF store, BootInv, Workers, HostOK, HostInv, Active, Waiting,
           Last
  <2>6. OwnerInv'
        BY <2>1 DEF store, BootInv, Workers, HostOK, OwnerInv, Last
  <2>7. AnswerInv'
        BY <2>1 DEF store, BootInv, Workers, HostOK, AnswerInv, AnswerIs
  <2>8. ServedInv'
        BY <2>1 DEF store, BootInv, Workers, HostOK, ServedInv, Last, ServedIs
  <2>. QED BY <2>2, <2>3, <2>4, <2>5, <2>6, <2>7, <2>8 DEF BootInv
<1>21. ASSUME Leave(p) PROVE BootInv'
  <2>1. /\ host[p] = "leaving" /\ host' = [host EXCEPT ![p] = "over"]
        /\ \/ /\ owner = NoOne /\ acked' = 0 /\ unsealed' = FALSE
              /\ \A q \in Pages, k \in 1 .. Attempts : coord[<<q, k>>] # "serving"
              /\ \A q \in Pages : host[q] \notin {"emptying", "filling", "starting", "up"}
              /\ disk' \in Contents /\ disk'.form = "empty" /\ ~ disk'.dir
              /\ disk'.files = 0 /\ disk'.rows = 0
           \/ UNCHANGED <<disk, acked, unsealed>>
        /\ UNCHANGED <<opts, attempt, coord, restored, owner, mem>>
        BY <1>21, NothingIs, NobodyWrites DEF Leave, HostAt, Removable, Removed, store
  <2>2. OptsOK' /\ WritersOwn'
        BY <2>1 DEF store, BootInv, OptsOK, WritersOwn
  <2>3. HostOK'
        BY <2>1, BootAssumption DEF store, BootInv, HostOK, HostStates
  <2>4. StoreOK'
        BY <2>1, NobodyWrites, BootAssumption, Counts DEF store, BootInv, StoreOK
  <2>5. HostInv'
        BY <2>1, BootAssumption DEF store, BootInv, HostOK, HostInv, Active, Waiting, Last
  <2>6. OwnerInv'
        BY <2>1, NobodyWrites DEF store, BootInv, HostOK, OwnerInv, Last
  <2>7. DataInv'
        BY <2>1, NobodyWrites, BootAssumption, Counts DEF store, BootInv, DataInv, StoreOK
  <2>8. AnswerInv'
    <3>. SUFFICES ASSUME NEW q \in Pages, NEW j \in 1 .. Attempts PROVE AnswerIs(q, j)'
          BY DEF AnswerInv
    <3>1. host'[q] = "awaiting" => host[q] = "awaiting"
          BY <2>1 DEF BootInv, HostOK
    <3>2. owner = NoOne => coord[<<q, j>>] \notin {"seeding", "serving"}
          BY NobodyWrites
    <3>. QED BY <2>1, <3>1, <3>2 DEF BootInv, AnswerInv, AnswerIs
  <2>9. ServedInv'
        BY <2>1, NobodyWrites DEF store, BootInv, HostOK, ServedInv, Last, ServedIs
  <2>. QED BY <2>2, <2>3, <2>4, <2>5, <2>6, <2>7, <2>8, <2>9 DEF BootInv
<1>22. ASSUME PageGoes(p) PROVE BootInv'
  <2>1. OptsOK' /\ StoreOK' /\ WritersOwn' /\ DataInv'
        BY <1>22 DEF PageGoes, store, BootInv, OptsOK, StoreOK, WritersOwn, DataInv
  <2>2. HostOK'
        BY <1>22, BootAssumption DEF PageGoes, store, BootInv, HostOK, HostStates
  <2>3. HostInv'
        BY <1>22, BootAssumption DEF PageGoes, store, BootInv, HostOK, HostInv, Active,
           Waiting, Last
  <2>4. OwnerInv'
        BY <1>22 DEF PageGoes, store, BootInv, HostOK, OwnerInv, Last
  <2>5. AnswerInv'
        BY <1>22 DEF PageGoes, store, BootInv, HostOK, AnswerInv, AnswerIs
  <2>6. ServedInv'
        BY <1>22 DEF PageGoes, store, BootInv, HostOK, ServedInv, Last, ServedIs
  <2>. QED BY <2>1, <2>2, <2>3, <2>4, <2>5, <2>6 DEF BootInv
<1>. QED BY <1>1, <1>2, <1>3, <1>4, <1>5, <1>6, <1>7, <1>8, <1>9, <1>10, <1>11, <1>12, <1>13,
   <1>14, <1>15, <1>16, <1>17, <1>18, <1>19, <1>20, <1>21, <1>22 DEF HostStep

(* Every step of a coordinator keeps BootInv.                               *)
LEMMA CoordStepKeeps ==
  ASSUME BootInv, NEW p \in Pages, NEW k \in 1 .. Attempts, CoordStep(<<p, k>>)
  PROVE  BootInv'
<1>1. ASSUME Reset(<<p, k>>) PROVE BootInv'
  <2>1. /\ coord[<<p, k>>] = "opening" /\ coord' = [coord EXCEPT ![<<p, k>>] = "reset"]
        /\ owner = NoOne /\ acked' = 0 /\ unsealed' = FALSE
        /\ disk' \in Contents /\ disk'.form = "empty" /\ ~ disk'.dir /\ disk'.files = 0 /\ disk'.rows = 0
        /\ UNCHANGED <<opts, host, attempt, restored, owner, mem>>
        BY <1>1, NothingIs DEF Reset, CoordAt, Removable, Removed
  <2>2. OptsOK'
        BY <2>1 DEF store, BootInv, OptsOK
  <2>3. HostOK'
        BY <2>1, BootAssumption DEF store, BootInv, Workers, CoordStates, HostOK
  <2>4. StoreOK'
        BY <2>1, NobodyWrites, BootAssumption, Counts DEF store, BootInv, StoreOK
  <2>5. WritersOwn'
        BY <2>1 DEF store, BootInv, HostOK, WritersOwn
  <2>6. HostInv'
        BY <2>1, BootAssumption DEF store, BootInv, Workers, HostOK, HostInv, Active, Waiting,
           Last
  <2>7. OwnerInv'
        BY <2>1, NobodyWrites DEF store, BootInv, Workers, HostOK, OwnerInv, Last
  <2>8. DataInv'
        BY <2>1, NobodyWrites, BootAssumption, Counts DEF store, BootInv, DataInv, StoreOK
  <2>9. AnswerInv'
        BY <2>1, NobodyWrites DEF store, BootInv, Workers, HostOK, AnswerInv, AnswerIs
  <2>10. ServedInv'
        BY <2>1, NobodyWrites DEF store, BootInv, Workers, HostOK, ServedInv, Last, ServedIs
  <2>. QED BY <2>2, <2>3, <2>4, <2>5, <2>6, <2>7, <2>8, <2>9, <2>10 DEF BootInv
<1>2. ASSUME Open(<<p, k>>) PROVE BootInv'
  <2>1. PICK to \in {"seeding", "serving", "failed"} :
          /\ owner = NoOne /\ coord[<<p, k>>] \in {"opening", "reset"}
          /\ coord' = [coord EXCEPT ![<<p, k>>] = to]
          /\ to = "seeding" <=> ~ disk.dir
          /\ to = "serving" => disk.files > 0
          /\ owner' = <<p, k>> /\ mem' = disk' /\ disk.dir \in BOOLEAN
          /\ disk' \in Contents /\ disk'.rows = disk.rows /\ disk'.files = disk.files
          /\ disk'.form = "store" /\ disk'.dir = disk.dir
          /\ restored' = [restored EXCEPT ![p] = disk.dir]
          /\ unsealed' = (unsealed \/ ~ disk.dir)
          /\ UNCHANGED <<opts, host, attempt, acked>>
    <3>1. disk \in Contents /\ disk' = [disk EXCEPT !.form = "store"] /\ mem' = disk'
          BY <1>2 DEF Open, BootInv, StoreOK
    <3>2. /\ disk' \in Contents /\ disk'.rows = disk.rows /\ disk'.files = disk.files
          /\ disk'.form = "store" /\ disk'.dir = disk.dir /\ disk'.by = disk.by
          BY <3>1 DEF Contents
    <3>3. Opened \in {"seeding", "serving", "failed"}
          /\ (Opened = "seeding" <=> ~ disk.dir) /\ (Opened = "serving" => disk.files > 0)
          BY DEF Opened, Checked, IsFresh
    <3>4. owner = NoOne /\ coord[<<p, k>>] \in {"opening", "reset"}
          /\ coord' = [coord EXCEPT ![<<p, k>>] = Opened]
          /\ owner' = <<p, k>> /\ restored' = [restored EXCEPT ![p] = disk.dir]
          /\ unsealed' = (unsealed \/ ~ disk.dir)
          /\ UNCHANGED <<opts, host, attempt, acked>>
          BY <1>2, <3>1 DEF Open, CoordAt, IsFresh, Contents
    <3>5. disk.dir \in BOOLEAN
          BY <3>1 DEF Contents
    <3>. QED BY <3>1, <3>2, <3>3, <3>4, <3>5
  <2>2. OptsOK'
        BY <2>1 DEF store, BootInv, OptsOK
  <2>3. HostOK'
        BY <2>1, NobodyWrites, BootAssumption DEF store, BootInv, Workers, CoordStates, HostOK
  <2>4. StoreOK'
        BY <2>1, NobodyWrites, BootAssumption, Counts DEF store, BootInv, StoreOK
  <2>5. WritersOwn'
        BY <2>1, NobodyWrites, BootAssumption DEF store, BootInv, HostOK, WritersOwn, Workers
  <2>6. HostInv'
        BY <2>1, NobodyWrites, BootAssumption DEF store, BootInv, Workers, HostOK, HostInv,
           Active, Waiting, Last
  <2>7. OwnerInv'
        BY <2>1, NobodyWrites DEF store, BootInv, Workers, HostOK, OwnerInv, Last
  <2>8. DataInv'
        BY <2>1, NobodyWrites, BootAssumption, Counts DEF store, BootInv, DataInv, StoreOK
  <2>9. AnswerInv'
        BY <2>1, NobodyWrites DEF store, BootInv, Workers, HostOK, AnswerInv, AnswerIs
  <2>10. ServedInv'
        BY <2>1, NobodyWrites DEF store, BootInv, Workers, HostOK, ServedInv, Last, ServedIs
  <2>. QED BY <2>2, <2>3, <2>4, <2>5, <2>6, <2>7, <2>8, <2>9, <2>10 DEF BootInv
<1>3. ASSUME OpenRefused(<<p, k>>) PROVE BootInv'
  <2>1. /\ owner # NoOne /\ coord[<<p, k>>] \in {"opening", "reset"}
        /\ coord' = [coord EXCEPT ![<<p, k>>] = "owned"]
        /\ UNCHANGED <<opts, host, attempt, restored, store>>
        BY <1>3 DEF OpenRefused, CoordAt
  <2>2. OptsOK' /\ StoreOK' /\ DataInv' /\ ServedInv'
        BY <2>1 DEF store, BootInv, OptsOK, StoreOK, DataInv, ServedInv, ServedIs, Last
  <2>3. HostOK'
        BY <2>1, BootAssumption DEF store, BootInv, Workers, CoordStates, HostOK
  <2>4. WritersOwn'
        BY <2>1 DEF store, BootInv, HostOK, WritersOwn
  <2>5. HostInv'
        BY <2>1, BootAssumption DEF store, BootInv, Workers, HostOK, HostInv, Active, Waiting,
           Last
  <2>6. OwnerInv'
        BY <2>1 DEF store, BootInv, Workers, HostOK, OwnerInv, Last
  <2>7. AnswerInv'
        BY <2>1 DEF store, BootInv, Workers, HostOK, AnswerInv, AnswerIs
  <2>. QED BY <2>2, <2>3, <2>4, <2>5, <2>6, <2>7 DEF BootInv
<1>4. ASSUME OpenFails(<<p, k>>) PROVE BootInv'
  <2>1. /\ coord[<<p, k>>] \in {"opening", "reset"}
        /\ coord' = [coord EXCEPT ![<<p, k>>] = "failed"]
        /\ UNCHANGED <<opts, host, attempt, restored, store>>
        BY <1>4 DEF OpenFails, CoordAt
  <2>2. OptsOK' /\ StoreOK' /\ DataInv' /\ ServedInv'
        BY <2>1 DEF store, BootInv, OptsOK, StoreOK, DataInv, ServedInv, ServedIs, Last
  <2>3. HostOK'
        BY <2>1, BootAssumption DEF store, BootInv, Workers, CoordStates, HostOK
  <2>4. WritersOwn'
        BY <2>1 DEF store, BootInv, HostOK, WritersOwn
  <2>5. HostInv'
        BY <2>1, BootAssumption DEF store, BootInv, Workers, HostOK, HostInv, Active, Waiting,
           Last
  <2>6. OwnerInv'
        BY <2>1 DEF store, BootInv, Workers, HostOK, OwnerInv, Last
  <2>7. AnswerInv'
        BY <2>1 DEF store, BootInv, Workers, HostOK, AnswerInv, AnswerIs
  <2>. QED BY <2>2, <2>3, <2>4, <2>5, <2>6, <2>7 DEF BootInv
<1>5. ASSUME Seed(<<p, k>>) PROVE BootInv'
  <2>1. /\ coord[<<p, k>>] = "seeding" /\ owner = <<p, k>> /\ owner # NoOne /\ k = attempt[p]
        /\ unsealed /\ ~ restored[p]
        /\ mem' \in Contents /\ mem'.rows = mem.rows /\ mem'.form = mem.form /\ mem'.dir
        /\ mem'.by = IF mem.dir THEN mem.by ELSE p
        /\ UNCHANGED <<opts, host, attempt, coord, restored, owner, disk, acked, unsealed>>
    <3>1. mem \in Contents /\ mem.files < Files
          BY <1>5 DEF Seed, BootInv, StoreOK
    <3>2. PICK n \in 0 .. Files : n = mem.files + 1
          BY <3>1, Counts
    <3>3. /\ mem' \in Contents /\ mem'.rows = mem.rows /\ mem'.form = mem.form /\ mem'.dir
          /\ mem'.by = IF mem.dir THEN mem.by ELSE p
          <4>1. mem' = IF mem.dir THEN [mem EXCEPT !.files = mem.files + 1]
                                  ELSE [mem EXCEPT !.dir = TRUE, !.by = p]
                BY <1>5 DEF Seed, Seeded
          <4>2. CASE mem.dir  BY <4>1, <4>2, <3>1, <3>2 DEF Contents
          <4>3. CASE ~ mem.dir  BY <4>1, <4>3, <3>1 DEF Contents
          <4>. QED BY <4>2, <4>3
    <3>4. coord[<<p, k>>] = "seeding"
          /\ UNCHANGED <<opts, host, attempt, coord, restored, owner, disk, acked, unsealed>>
          BY <1>5 DEF Seed
    <3>5. owner = <<p, k>> /\ owner # NoOne /\ unsealed /\ ~ restored[p] /\ k = attempt[p]
          BY <3>4, OneCoordinator DEF BootInv, AnswerInv, AnswerIs
    <3>. QED BY <3>3, <3>4, <3>5
  <2>2. OptsOK' /\ HostOK' /\ WritersOwn' /\ HostInv' /\ OwnerInv'
        BY <2>1 DEF store, BootInv, OptsOK, HostOK, WritersOwn, HostInv, OwnerInv, Last
  <2>3. StoreOK'
        BY <2>1, OneCoordinator, BootAssumption, Counts DEF store, BootInv, StoreOK
  <2>4. DataInv'
        BY <2>1, OneCoordinator, BootAssumption, Counts DEF store, BootInv, DataInv, StoreOK
  <2>5. AnswerInv'
        BY <2>1, OneCoordinator DEF store, BootInv, HostOK, AnswerInv, AnswerIs
  <2>6. ServedInv'
    <3>. SUFFICES ASSUME NEW q \in Pages PROVE ServedIs(q)'
          BY DEF ServedInv
    <3>1. host[q] \notin {"emptying", "filling", "starting", "up"}
          BY <2>1, OneCoordinator DEF BootInv, OwnerInv, Last
    <3>2. Last(q)' = Last(q) /\ (owner = Last(q) => q = p)
          BY <2>1 DEF Last
    <3>3. owner = Last(q) => mem'.by = q
          BY <2>1, <3>2 DEF BootInv, ServedInv, ServedIs
    <3>. QED BY <2>1, <3>1, <3>2, <3>3 DEF ServedIs
  <2>. QED BY <2>2, <2>3, <2>4, <2>5, <2>6 DEF BootInv
<1>6. ASSUME SeedEnds(<<p, k>>) PROVE BootInv'
  <2>1. /\ coord[<<p, k>>] = "seeding" /\ owner = <<p, k>> /\ owner # NoOne
        /\ mem.files = Files /\ mem.files > 0 /\ mem.dir
        /\ coord' = [coord EXCEPT ![<<p, k>>] = "serving"]
        /\ disk' = mem /\ unsealed' = FALSE
        /\ UNCHANGED <<opts, host, attempt, restored, owner, mem, acked>>
    <3>1. /\ coord[<<p, k>>] = "seeding" /\ mem.files = Files
          /\ coord' = [coord EXCEPT ![<<p, k>>] = Checked(TRUE, mem.files)]
          /\ disk' = mem /\ unsealed' = FALSE
          /\ UNCHANGED <<opts, host, attempt, restored, owner, mem, acked>>
          BY <1>6 DEF SeedEnds, CoordAt
    <3>2. owner = <<p, k>> /\ owner # NoOne
          BY <3>1, OneCoordinator
    <3>3. mem.files > 0 /\ Checked(TRUE, mem.files) = "serving"
          BY <3>1, BootAssumption DEF Checked
    <3>4. mem.dir
          BY <3>2, <3>3, BootAssumption DEF BootInv, DataInv
    <3>. QED BY <3>1, <3>2, <3>3, <3>4
  <2>2. OptsOK'
        BY <2>1 DEF store, BootInv, OptsOK
  <2>3. HostOK'
        BY <2>1, BootAssumption DEF store, BootInv, Workers, CoordStates, HostOK
  <2>4. StoreOK'
        BY <2>1, OneCoordinator, BootAssumption, Counts DEF store, BootInv, StoreOK
  <2>5. WritersOwn'
        BY <2>1 DEF store, BootInv, HostOK, WritersOwn
  <2>6. HostInv'
        BY <2>1, BootAssumption DEF store, BootInv, Workers, HostOK, HostInv, Active, Waiting,
           Last
  <2>7. OwnerInv'
        BY <2>1, OneCoordinator DEF store, BootInv, Workers, HostOK, OwnerInv, Last
  <2>8. DataInv'
        BY <2>1, OneCoordinator, BootAssumption, Counts DEF store, BootInv, DataInv, StoreOK
  <2>9. AnswerInv'
    <3>. SUFFICES ASSUME NEW q \in Pages, NEW j \in 1 .. Attempts PROVE AnswerIs(q, j)'
          BY DEF AnswerInv
    <3>1. coord[<<q, j>>] \in {"seeding", "serving"} => q = p /\ j = k
          BY <2>1, OneCoordinator
    <3>2. coord'[<<q, j>>] = IF q = p /\ j = k THEN "serving" ELSE coord[<<q, j>>]
          BY <2>1 DEF BootInv, HostOK, Workers
    <3>. QED BY <2>1, <3>1, <3>2 DEF AnswerIs
  <2>10. ServedInv'
        BY <2>1, OneCoordinator DEF store, BootInv, Workers, HostOK, ServedInv, Last, ServedIs
  <2>. QED BY <2>2, <2>3, <2>4, <2>5, <2>6, <2>7, <2>8, <2>9, <2>10 DEF BootInv
<1>7. ASSUME StoreFails(<<p, k>>) PROVE BootInv'
  <2>1. /\ coord[<<p, k>>] \in {"seeding", "serving"}
        /\ coord' = [coord EXCEPT ![<<p, k>>] = "failed"]
        /\ UNCHANGED <<opts, host, attempt, restored, store>>
        BY <1>7 DEF StoreFails, CoordAt
  <2>2. OptsOK' /\ StoreOK' /\ DataInv' /\ ServedInv'
        BY <2>1 DEF store, BootInv, OptsOK, StoreOK, DataInv, ServedInv, ServedIs, Last
  <2>3. HostOK'
        BY <2>1, BootAssumption DEF store, BootInv, Workers, CoordStates, HostOK
  <2>4. WritersOwn'
        BY <2>1 DEF store, BootInv, HostOK, WritersOwn
  <2>5. HostInv'
        BY <2>1, BootAssumption DEF store, BootInv, Workers, HostOK, HostInv, Active, Waiting,
           Last
  <2>6. OwnerInv'
        BY <2>1 DEF store, BootInv, Workers, HostOK, OwnerInv, Last
  <2>7. AnswerInv'
        BY <2>1 DEF store, BootInv, Workers, HostOK, AnswerInv, AnswerIs
  <2>. QED BY <2>2, <2>3, <2>4, <2>5, <2>6, <2>7 DEF BootInv
<1>8. ASSUME Amortize(<<p, k>>) PROVE BootInv'
  <2>1. /\ owner = <<p, k>> /\ owner # NoOne /\ disk' = mem
        /\ UNCHANGED <<opts, host, attempt, coord, restored, owner, mem, acked, unsealed>>
        BY <1>8, OneCoordinator DEF Amortize
  <2>2. OptsOK' /\ HostOK' /\ WritersOwn' /\ HostInv' /\ OwnerInv'
        BY <2>1 DEF store, BootInv, OptsOK, HostOK, WritersOwn, HostInv, OwnerInv, Last
  <2>3. StoreOK'
        BY <2>1, OneCoordinator, BootAssumption, Counts DEF store, BootInv, StoreOK
  <2>4. DataInv'
        BY <2>1, OneCoordinator, BootAssumption, Counts DEF store, BootInv, DataInv, StoreOK
  <2>5. AnswerInv'
        BY <2>1, OneCoordinator DEF store, BootInv, HostOK, AnswerInv, AnswerIs
  <2>6. ServedInv'
        BY <2>1, OneCoordinator DEF store, BootInv, HostOK, ServedInv, Last, ServedIs
  <2>. QED BY <2>2, <2>3, <2>4, <2>5, <2>6 DEF BootInv
<1>9. ASSUME Stop(<<p, k>>) PROVE BootInv'
  <2>1. /\ coord[<<p, k>>] = "serving" /\ coord' = [coord EXCEPT ![<<p, k>>] = "stopped"]
        /\ host[p] \in {"stopping", "abandoning"}
        /\ owner = <<p, k>> /\ owner # NoOne /\ owner' = NoOne
        /\ disk' = mem /\ acked' = mem.rows /\ mem' \in Contents
        /\ UNCHANGED <<opts, host, attempt, restored, unsealed>>
        BY <1>9, OneCoordinator, NothingIs DEF Stop, CoordAt
  <2>2. OptsOK'
        BY <2>1 DEF store, BootInv, OptsOK
  <2>3. HostOK'
        BY <2>1, BootAssumption DEF store, BootInv, Workers, CoordStates, HostOK
  <2>4. StoreOK'
        BY <2>1, OneCoordinator, BootAssumption, Counts DEF store, BootInv, StoreOK
  <2>5. WritersOwn'
        BY <2>1 DEF store, BootInv, HostOK, WritersOwn
  <2>6. HostInv'
        BY <2>1, BootAssumption DEF store, BootInv, Workers, HostOK, HostInv, Active, Waiting,
           Last
  <2>7. OwnerInv'
        BY <2>1, OneCoordinator DEF store, BootInv, Workers, HostOK, OwnerInv, Last
  <2>8. DataInv'
        BY <2>1, OneCoordinator, BootAssumption, Counts DEF store, BootInv, DataInv, StoreOK
  <2>9. AnswerInv'
        BY <2>1, OneCoordinator DEF store, BootInv, Workers, HostOK, AnswerInv, AnswerIs
  <2>10. ServedInv'
        BY <2>1, OneCoordinator, BootAssumption DEF store, BootInv, Workers, HostOK, ServedInv,
           Last, NoOne, ServedIs
  <2>. QED BY <2>2, <2>3, <2>4, <2>5, <2>6, <2>7, <2>8, <2>9, <2>10 DEF BootInv
<1>10. ASSUME Reap(<<p, k>>) PROVE BootInv'
  <2>1. /\ coord[<<p, k>>] = "dying" \/ host[p] = "gone"
        /\ coord[<<p, k>>] \notin {"none", "dead"}
        /\ coord' = [coord EXCEPT ![<<p, k>>] = "dead"]
        /\ \/ owner = <<p, k>> /\ owner' = NoOne /\ mem' \in Contents
           \/ owner # <<p, k>> /\ UNCHANGED <<owner, mem>>
        /\ UNCHANGED <<opts, host, attempt, restored, disk, acked, unsealed>>
        BY <1>10, NothingIs DEF Reap
  <2>2. OptsOK'
        BY <2>1 DEF store, BootInv, OptsOK
  <2>3. HostOK'
        BY <2>1, BootAssumption DEF store, BootInv, Workers, CoordStates, HostOK
  <2>4. StoreOK'
        BY <2>1, BootAssumption, Counts DEF store, BootInv, StoreOK
  <2>5. WritersOwn'
        BY <2>1 DEF store, BootInv, HostOK, WritersOwn
  <2>6. HostInv'
        BY <2>1, BootAssumption DEF store, BootInv, Workers, HostOK, HostInv, Active, Waiting,
           Last
  <2>7. OwnerInv'
        BY <2>1 DEF store, BootInv, Workers, HostOK, OwnerInv, Last
  <2>8. DataInv'
        BY <2>1, BootAssumption, Counts DEF store, BootInv, DataInv, StoreOK
  <2>9. AnswerInv'
        BY <2>1 DEF store, BootInv, Workers, HostOK, AnswerInv, WritersOwn, AnswerIs
  <2>10. ServedInv'
    <3>. SUFFICES ASSUME NEW q \in Pages PROVE ServedIs(q)'
          BY DEF ServedInv
    <3>1. Last(q) # NoOne /\ <<p, k>> \in Workers
          BY BootAssumption DEF Last, NoOne, Workers
    <3>2. ASSUME owner = <<p, k>>, host[q] \in {"emptying", "filling", "starting", "up"} PROVE FALSE
          BY <2>1, <3>2 DEF BootInv, OwnerInv, Last
    <3>. QED BY <2>1, <3>1, <3>2 DEF BootInv, ServedInv, ServedIs, Last
  <2>. QED BY <2>2, <2>3, <2>4, <2>5, <2>6, <2>7, <2>8, <2>9, <2>10 DEF BootInv
<1>. QED BY <1>1, <1>2, <1>3, <1>4, <1>5, <1>6, <1>7, <1>8, <1>9, <1>10 DEF CoordStep

(* The first state satisfies BootInv: nobody has asked for anything.        *)
LEMMA BootStarts == Init => BootInv
<1>. SUFFICES ASSUME Init PROVE BootInv
     OBVIOUS
<1>1. OptsOK
      BY DEF Init, OptsOK
<1>2. HostOK
      BY BootAssumption DEF Init, HostOK, HostStates, CoordStates
<1>3. StoreOK
  <2>1. 0 \in 0 .. MaxRows
        BY BootAssumption
  <2>2. disk \in Contents /\ mem \in Contents
        BY NothingIs DEF Init
  <2>. QED BY <2>1, <2>2 DEF Init, StoreOK
<1>4. WritersOwn /\ HostInv /\ OwnerInv
      BY BootAssumption DEF Init, WritersOwn, HostInv, OwnerInv, Active, Waiting, Workers
<1>5. DataInv
      BY NothingIs, BootAssumption DEF Init, DataInv
<1>6. AnswerInv
      BY DEF Init, AnswerInv, AnswerIs, Workers
<1>7. ServedInv
      BY NothingIs DEF Init, ServedInv, ServedIs
<1>. QED BY <1>1, <1>2, <1>3, <1>4, <1>5, <1>6, <1>7 DEF BootInv

(* Whatever the pages ask for, in any order and with any of them left at    *)
(* any step: the coordinators, the handles, the directory and the pages fit *)
(* together as BootInv says.                                                *)
THEOREM BootSafe == Spec => []BootInv
<1>1. BootInv /\ [Next]_vars => BootInv'
  <2>. SUFFICES ASSUME BootInv, [Next]_vars PROVE BootInv'
       OBVIOUS
  <2>1. CASE \E p \in Pages : HostStep(p)
        BY <2>1, HostStepKeeps
  <2>2. CASE \E w \in Workers : CoordStep(w)
    <3>1. PICK p \in Pages, k \in 1 .. Attempts : CoordStep(<<p, k>>)
          BY <2>2 DEF Workers
    <3>. QED BY <3>1, CoordStepKeeps
  <2>3. CASE UNCHANGED vars
    <3>1. OptsOK' /\ HostOK' /\ StoreOK' /\ WritersOwn'
          BY <2>3 DEF vars, store, BootInv, OptsOK, HostOK, StoreOK, WritersOwn
    <3>2. HostInv' /\ OwnerInv' /\ DataInv'
          BY <2>3 DEF vars, store, BootInv, HostInv, OwnerInv, DataInv, Last
    <3>3. AnswerInv' /\ ServedInv'
          BY <2>3 DEF vars, store, BootInv, AnswerInv, AnswerIs, ServedInv, ServedIs, Last
    <3>. QED BY <3>1, <3>2, <3>3 DEF BootInv
  <2>. QED BY <2>1, <2>2, <2>3 DEF Next
<1>. QED BY <1>1, BootStarts, PTL DEF Spec

(* Type correctness, and that a coordinator at the store is its owner.      *)
THEOREM TypeCorrect == Spec => []TypeOK
<1>1. BootInv => TypeOK
      BY DEF BootInv, TypeOK
<1>. QED BY <1>1, BootSafe, PTL

(* A page whose boot failed, or that has shut down, has no coordinator left *)
(* that has the handles or could take them, on any of its attempts.         *)
THEOREM FailedBootLetsGo == Spec => []OverOwnsNothing
<1>1. BootInv => OverOwnsNothing
  <2>. SUFFICES ASSUME BootInv, NEW p \in Pages, NEW k \in 1 .. Attempts,
                       host[p] \in {"leaving", "over"}
                PROVE  coord[<<p, k>>] \in {"none", "made", "dying", "dead"}
       BY DEF OverOwnsNothing, Workers
  <2>1. coord[<<p, k>>] \in CoordStates
        BY DEF BootInv, HostOK, Workers
  <2>. QED BY <2>1 DEF BootInv, HostInv, Active, Waiting, CoordStates
<1>. QED BY <1>1, BootSafe, PTL

(* A measured boot runs on the data directory it seeded itself.             *)
THEOREM ColdIsCold == Spec => []MeasuredIsFresh
<1>1. BootInv => MeasuredIsFresh
      BY DEF BootInv, ServedInv, ServedIs, OwnerInv, MeasuredIsFresh
<1>. QED BY <1>1, BootSafe, PTL

(* The postmaster starts on what is on disk, whole unless a seed or restore *)
(* was cut short before.                                                    *)
THEOREM WholeBoot == Spec => []BootsOnWhole
<1>1. BootInv => BootsOnWhole
  <2>. SUFFICES ASSUME BootInv, NEW p \in Pages, host[p] \in {"starting", "up"}
                PROVE  /\ host[p] = "starting" => mem = disk
                       /\ mem.files > 0 /\ (mem.files = Files \/ unsealed)
       BY DEF BootsOnWhole
  <2>1. owner # NoOne
        BY OneWriter
  <2>. QED BY <2>1 DEF BootInv, ServedInv, ServedIs, DataInv
<1>. QED BY <1>1, BootSafe, PTL

(* What a sync was answered for is in the directory, whichever page or      *)
(* coordinator dies and whoever opens the store next.                       *)
THEOREM SyncedSurvives == Spec => []AckedSurvives
<1>1. BootInv => AckedSurvives
      BY DEF BootInv, DataInv, AckedSurvives
<1>. QED BY <1>1, BootSafe, PTL

-----------------------------------------------------------------------------
(* The levers of its arena                                                 *)

Content == [Pos -> Bytes \cup {0}]

Types ==
    /\ grow \in BOOLEAN /\ coalesce \in BOOLEAN
    /\ arena \in [size : Nat, at : Content]
    /\ meta \in Nat
    /\ logical \in -1 .. Max /\ physical \in Int
    /\ held \in [from : Nat, n : Nat, at : Content]
    /\ failed \in BOOLEAN /\ clean \in BOOLEAN
    /\ call \in {"in", "none", "closed"}

\* A run is held by coalesce, inside a call of the store, and behind sizes
\* that are known if grow keeps any.
RunIsHeld ==
    held.n > 0 => /\ coalesce /\ call = "in" /\ ~ failed
                  /\ grow => logical # -1
                  /\ RunEnd <= Max

\* The two sizes are those of the platform's file, the run written, and of the
\* store's.
SizesAreTrue ==
    /\ ~ Known => arena.size <= Max
    /\ Known /\ ~ failed => /\ physical = Flushed.size
                            /\ logical <= physical
                            /\ physical < logical + Chunk

SlackIsBlank == ~ failed => \A i \in Pos : i >= Seen.size => Flushed.at[i] = 0

CleanIsExact == clean => /\ call = "closed" /\ ~ failed
                         /\ Known => physical = logical

LeverInv == Types /\ RunIsHeld /\ SizesAreTrue /\ SlackIsBlank /\ CleanIsExact

-----------------------------------------------------------------------------
(* Reading the definitions, once.                                          *)

LEMMA MaxIsNat == Max \in Nat \ {0} /\ Chunk \in Nat \ {0} /\ Buffer \in Nat \ {0}
BY LeverAssumption

\* The file with the held run written to it, position by position.
LEMMA FlushedIs ==
    ASSUME Types
    PROVE  /\ Flushed.size = IF held.n = 0 THEN arena.size ELSE Larger(arena.size, RunEnd)
           /\ Flushed.at \in Content
           /\ \A i \in Pos : Flushed.at[i] = IF Holds(i) THEN held.at[i] ELSE arena.at[i]
           /\ Flushed = [size |-> Flushed.size, at |-> Flushed.at]
           /\ Flushed.size \in Nat
BY MaxIsNat DEF Types, Flushed, Landed, RunEnd, Holds, Larger, Content, Pos

\* What the store sees has the flushed bytes and the logical size.
LEMMA SeenIs ==
    /\ Seen.at = Flushed.at
    /\ Seen.size = IF Known THEN logical ELSE Flushed.size
    /\ Seen = [size |-> Seen.size, at |-> Flushed.at]
BY DEF Seen

\* With nothing held the file is the platform's.
LEMMA NothingHeld ==
    ASSUME Types, held.n = 0
    PROVE  Flushed = arena
<1>1. \A i \in Pos : ~ Holds(i)
  BY MaxIsNat DEF Types, Holds, RunEnd, Pos
<1>2. Flushed.at = arena.at
  BY <1>1, FlushedIs DEF Types, Content
<1> QED
  BY <1>2, FlushedIs DEF Types

\* Learning the sizes does not change what the store sees.
LEMMA LogicalIs ==
    ASSUME LeverInv, ~ failed
    PROVE  /\ Seen.size = IF grow THEN Logical ELSE Flushed.size
           /\ grow => Physical = Flushed.size
           /\ grow => Logical <= Physical /\ Physical < Logical + Chunk
           /\ grow => Logical \in 0 .. Max /\ Physical \in Int
           /\ Seen.size \in 0 .. Max
BY MaxIsNat, FlushedIs, SeenIs, NothingHeld
   DEF LeverInv, Types, RunIsHeld, SizesAreTrue, Known, Logical, Physical, Larger, RunEnd

\* The same, after a step.
LEMMA FlushedThen ==
    ASSUME Types'
    PROVE  /\ Flushed'.size = IF held'.n = 0 THEN arena'.size
                              ELSE Larger(arena'.size, held'.from + held'.n)
           /\ Flushed'.at \in Content
           /\ \A i \in Pos : Flushed'.at[i] =
                 IF held'.from <= i /\ i < held'.from + held'.n THEN held'.at[i] ELSE arena'.at[i]
           /\ Flushed' = [size |-> Flushed'.size, at |-> Flushed'.at]
           /\ Flushed'.size \in Nat
BY MaxIsNat DEF Types, Flushed, Landed, RunEnd, Holds, Larger, Content, Pos

LEMMA SeenThen ==
    /\ Seen'.at = Flushed'.at
    /\ Seen'.size = IF Known' THEN logical' ELSE Flushed'.size
    /\ Seen' = [size |-> Seen'.size, at |-> Flushed'.at]
BY DEF Seen

LEMMA NothingHeldThen ==
    ASSUME Types', held'.n = 0
    PROVE  Flushed' = arena'
<1>1. \A i \in Pos : ~ (held'.from <= i /\ i < held'.from + held'.n)
  BY MaxIsNat DEF Types, Pos
<1>2. Flushed'.at = arena'.at
  BY <1>1, FlushedThen DEF Types, Content
<1> QED
  BY <1>2, FlushedThen DEF Types

LEMMA NoRunIs == /\ NoRun \in [from : Nat, n : Nat, at : Content]
                 /\ NoRun.n = 0
BY MaxIsNat DEF NoRun, Blank, Content

-----------------------------------------------------------------------------
(* Steps that write out what is held and change nothing else: the store    *)
(* sees the file it saw.                                                   *)

LEMMA WrittenOut ==
    ASSUME LeverInv, ~ failed, ~ failed', Types',
           arena' = Flushed, held' = NoRun, grow' = grow,
           clean' = clean, call' = call,
           UNCHANGED sizes \/ Learn(Logical, Physical)
    PROVE  LeverInv' /\ Seen' = Seen
<1>1. Flushed' = Flushed /\ held'.n = 0
  BY NothingHeldThen, NoRunIs
<1>2. Seen'.size = Seen.size
  <2>1. CASE UNCHANGED sizes
    BY <1>1, <2>1, SeenIs, SeenThen DEF Known, sizes
  <2>2. CASE Learn(Logical, Physical)
    BY <1>1, <2>2, SeenIs, SeenThen, LogicalIs, MaxIsNat DEF Known, Learn, sizes
  <2> QED
    BY <2>1, <2>2
<1>3. Seen' = Seen
  BY <1>1, <1>2, SeenIs, SeenThen
<1>4. RunIsHeld'
  BY <1>1 DEF RunIsHeld
<1>a. ~ Known => Flushed.size <= Max
  BY FlushedIs, MaxIsNat DEF SizesAreTrue, LeverInv, Known, RunIsHeld, Types, Larger, RunEnd
<1>5. SizesAreTrue'
  <2>1. CASE UNCHANGED sizes
    BY <1>1, <1>a, <2>1 DEF SizesAreTrue, LeverInv, Known, sizes
  <2>2. CASE Learn(Logical, Physical)
    <3>1. CASE grow
      BY <1>1, <2>2, <3>1, LogicalIs, MaxIsNat DEF SizesAreTrue, Known, Learn
    <3>2. CASE ~ grow
      BY <1>1, <1>a, <2>2, <3>2 DEF SizesAreTrue, Known
    <3> QED
      BY <3>1, <3>2
  <2> QED
    BY <2>1, <2>2
<1>6. SlackIsBlank'
  BY <1>1, <1>3 DEF SlackIsBlank, LeverInv
<1>7. CleanIsExact'
  <2>1. CASE UNCHANGED sizes
    BY <2>1 DEF CleanIsExact, LeverInv, Known, sizes
  <2>2. CASE Learn(Logical, Physical)
    BY <2>2 DEF CleanIsExact, LeverInv, Known, Learn, sizes, Logical, Physical
  <2> QED
    BY <2>1, <2>2
<1> QED
  BY <1>3, <1>4, <1>5, <1>6, <1>7 DEF LeverInv

-----------------------------------------------------------------------------
(* Each step keeps the invariant, and is a step of the file or none.       *)

PortStep == [Port!Next]_<<Seen, failed, ans>>

LEMMA PutIs ==
    ASSUME NEW f, NEW at, NEW n, NEW v
    PROVE  /\ Put(f, at, n, v) = Port!Put(f, at, n, v)
           /\ Put(f, at, n, v).size = Larger(f.size, at + n)
           /\ Put(f, at, n, v).at = [i \in Pos |-> IF at <= i /\ i < at + n THEN v ELSE f.at[i]]
           /\ Put(f, at, n, v) = [size |-> Put(f, at, n, v).size, at |-> Put(f, at, n, v).at]
BY DEF Put, Port!Put, Port!Larger, Larger, Port!Pos, Pos

LEMMA CutIs ==
    ASSUME NEW f, NEW n
    PROVE  /\ Cut(f, n) = Port!Cut(f, n)
           /\ Cut(f, n).size = n
           /\ Cut(f, n).at = [i \in Pos |-> IF i < n THEN f.at[i] ELSE 0]
           /\ Cut(f, n) = [size |-> Cut(f, n).size, at |-> Cut(f, n).at]
BY DEF Cut, Port!Cut, Port!Pos, Pos

LEMMA Begins ==
    ASSUME LeverInit
    PROVE  LeverInv /\ Port!Init
<1>1. PICK k \in 0 .. Max : arena = Cut([size |-> 0, at |-> Blank], k)
  BY DEF LeverInit
<1>2. arena = [size |-> k, at |-> Blank]
  BY <1>1, CutIs, MaxIsNat DEF Blank
<1>3. Types
  <2>1. arena \in [size : Nat, at : Content]
    BY <1>2, MaxIsNat DEF Blank, Content
  <2>2. held \in [from : Nat, n : Nat, at : Content]
    BY NoRunIs DEF LeverInit
  <2>3. logical = -1 /\ physical = -1 /\ meta = 0 /\ call = "none"
        /\ ~ failed /\ ~ clean /\ grow \in BOOLEAN /\ coalesce \in BOOLEAN
        /\ failed \in BOOLEAN /\ clean \in BOOLEAN
    BY DEF LeverInit
  <2> QED
    BY <2>1, <2>2, <2>3, MaxIsNat DEF Types
<1>4. Flushed = arena /\ Seen = arena /\ ~ Known
  <2>1. held.n = 0
    BY NoRunIs DEF LeverInit
  <2>2. Flushed = arena
    BY <1>3, <2>1, NothingHeld
  <2>3. ~ Known
    BY DEF Known, LeverInit
  <2> QED
    BY <1>2, <2>2, <2>3, SeenIs
<1>5. LeverInv
  <2>1. RunIsHeld /\ CleanIsExact /\ held.n = 0
    BY NoRunIs DEF RunIsHeld, CleanIsExact, LeverInit
  <2>2. SizesAreTrue
    BY <1>2, <1>4, MaxIsNat DEF SizesAreTrue
  <2>3. SlackIsBlank
    BY <1>2, <1>4 DEF SlackIsBlank, Blank
  <2> QED
    BY <1>3, <2>1, <2>2, <2>3 DEF LeverInv
<1>6. Port!Init
  <2>1. Seen = Port!Cut([size |-> 0, at |-> Port!Blank], k)
    BY <1>1, <1>4, CutIs DEF Blank, Port!Blank, Port!Pos, Pos
  <2> QED
    BY <2>1 DEF Port!Init, LeverInit
<1> QED
  BY <1>5, <1>6

LEMMA BeginCallKeeps ==
    ASSUME LeverInv, BeginCall
    PROVE  LeverInv' /\ PortStep
<1>1. held.n = 0
  BY DEF LeverInv, Types, RunIsHeld, BeginCall
<1>2. Flushed' = Flushed /\ Known' = Known /\ Seen' = Seen
  BY DEF BeginCall, Flushed, Landed, Seen, Known, levers, sizes
<1>3. LeverInv'
  BY <1>1, <1>2 DEF LeverInv, Types, RunIsHeld, SizesAreTrue, SlackIsBlank, CleanIsExact,
                    BeginCall, levers, sizes
<1> QED
  BY <1>2, <1>3 DEF PortStep, BeginCall

LEMMA RefusedKeeps ==
    ASSUME LeverInv, Refused
    PROVE  LeverInv' /\ PortStep
<1>1. Flushed' = Flushed /\ Known' = Known /\ Seen' = Seen
  BY DEF Refused, Flushed, Landed, Seen, Known, levers, sizes
<1>2. LeverInv'
  BY <1>1 DEF LeverInv, Types, RunIsHeld, SizesAreTrue, SlackIsBlank, CleanIsExact,
              Refused, RunEnd, levers, sizes
<1> QED
  BY <1>1, <1>2 DEF PortStep, Refused, Port!Next, Port!Refuse

LEMMA EndCallKeeps ==
    ASSUME LeverInv, EndCall
    PROVE  LeverInv' /\ PortStep
<1>1. CASE failed
  <2>1. Flushed' = Flushed /\ Known' = Known /\ Seen' = Seen
    BY <1>1 DEF EndCall, Flushed, Landed, Seen, Known, levers, sizes
  <2>2. LeverInv'
    BY <1>1, <2>1 DEF LeverInv, Types, RunIsHeld, SizesAreTrue, SlackIsBlank, CleanIsExact,
                EndCall, RunEnd, levers, sizes
  <2> QED
    BY <2>1, <2>2 DEF PortStep, EndCall
<1>2. CASE ~ failed
  <2>1. Types'
    BY <1>2, FlushedIs, NoRunIs DEF EndCall, LeverInv, Types, levers, sizes
  <2>2. Flushed' = Flushed /\ held'.n = 0
    BY <1>2, <2>1, NothingHeldThen, NoRunIs DEF EndCall
  <2>3. Known' = Known /\ Seen' = Seen
    BY <2>2, SeenIs, SeenThen DEF EndCall, Known, levers, sizes
  <2>4. ~ Known => Flushed.size <= Max
    BY FlushedIs, MaxIsNat DEF SizesAreTrue, LeverInv, Known, RunIsHeld, Types, Larger, RunEnd
  <2>5. LeverInv'
    BY <1>2, <2>1, <2>2, <2>3, <2>4
       DEF LeverInv, RunIsHeld, SizesAreTrue, SlackIsBlank, CleanIsExact, EndCall, sizes
  <2> QED
    BY <2>3, <2>5 DEF PortStep, EndCall
<1> QED
  BY <1>1, <1>2

LEMMA DeferredWriteFailsKeeps ==
    ASSUME LeverInv, DeferredWriteFails
    PROVE  LeverInv' /\ PortStep
<1>1. PICK k \in 0 .. held.n - 1 : arena' = Landed(k)
  BY DEF DeferredWriteFails
<1>2. /\ arena' \in [size : Nat, at : Content]
      /\ ~ Known => arena'.size <= Max
  <2>1. arena' \in [size : Nat, at : Content]
    BY <1>1, MaxIsNat DEF Landed, LeverInv, Types, Content, Larger, Pos
  <2>2. arena'.size = IF k = 0 THEN arena.size ELSE Larger(arena.size, held.from + k)
    BY <1>1 DEF Landed
  <2>3. held.from + k <= Max
    BY <1>1, MaxIsNat DEF LeverInv, Types, RunIsHeld, RunEnd
  <2> QED
    BY <2>1, <2>2, <2>3, MaxIsNat DEF LeverInv, SizesAreTrue, Larger
<1>3. Types'
  BY <1>2, NoRunIs DEF DeferredWriteFails, LeverInv, Types, levers, sizes
<1>4. LeverInv'
  BY <1>2, <1>3, NoRunIs
     DEF LeverInv, RunIsHeld, SizesAreTrue, SlackIsBlank, CleanIsExact, Known,
         DeferredWriteFails, Working, levers, sizes
<1>5. Seen' \in Port!AnyFile
  <2>1. Flushed' = arena'
    BY <1>3, NothingHeldThen, NoRunIs DEF DeferredWriteFails
  <2>2. Seen'.size \in 0 .. Max
    BY <1>2, <2>1, SeenThen, MaxIsNat
       DEF Known, DeferredWriteFails, LeverInv, Types, levers, sizes
  <2>3. Seen'.at \in Content
    BY <1>2, <2>1, SeenThen
  <2> QED
    BY <2>2, <2>3, SeenThen DEF Port!AnyFile, Port!Pos, Pos, Content
<1> QED
  BY <1>4, <1>5 DEF PortStep, Port!Next, Port!Break, DeferredWriteFails

LEMMA SizesTyped ==
    ASSUME LeverInv, ~ failed,
           UNCHANGED sizes \/ Learn(Logical, Physical)
    PROVE  logical' \in -1 .. Max /\ physical' \in Int
BY LogicalIs, MaxIsNat DEF LeverInv, Types, Learn, sizes

LEMMA HandleFailsKeeps ==
    ASSUME LeverInv, HandleFails
    PROVE  LeverInv' /\ PortStep
<1>1. Types'
  BY SizesTyped, FlushedIs, NoRunIs DEF HandleFails, Working, LeverInv, Types, levers
<1>2. LeverInv' /\ Seen' = Seen
  BY <1>1, WrittenOut DEF HandleFails, Working, levers
<1> QED
  BY <1>2 DEF PortStep, Port!Next, Port!Refuse, HandleFails

LEMMA FlushKeeps ==
    ASSUME LeverInv, Flush
    PROVE  LeverInv' /\ PortStep
<1>1. Types'
  BY SizesTyped, FlushedIs, NoRunIs DEF Flush, Working, LeverInv, Types, levers
<1>2. LeverInv' /\ Seen' = Seen
  BY <1>1, WrittenOut DEF Flush, Working, levers
<1> QED
  BY <1>2 DEF PortStep, Flush

LEMMA MutateKeeps ==
    ASSUME LeverInv, Mutate
    PROVE  LeverInv' /\ PortStep
<1>1. Types'
  BY SizesTyped, FlushedIs, NoRunIs DEF Mutate, Working, LeverInv, Types, levers
<1>2. LeverInv' /\ Seen' = Seen
  BY <1>1, WrittenOut DEF Mutate, Working, levers
<1> QED
  BY <1>2 DEF PortStep, Mutate

LEMMA GetSizeKeeps ==
    ASSUME LeverInv, GetSize
    PROVE  LeverInv' /\ PortStep
<1>1. Types'
  BY SizesTyped, FlushedIs, NoRunIs DEF GetSize, Working, LeverInv, Types, levers
<1>2. LeverInv' /\ Seen' = Seen
  BY <1>1, WrittenOut DEF GetSize, Working, levers
<1>3. ans' = Port!Count(Seen.size)
  BY LogicalIs DEF GetSize, Working
<1> QED
  BY <1>2, <1>3 DEF PortStep, Port!Next, Port!GetSize, GetSize, Working

LEMMA ReadKeeps ==
    ASSUME LeverInv, Read
    PROVE  LeverInv' /\ PortStep
<1>1. Types'
  BY SizesTyped, FlushedIs, NoRunIs DEF Read, Working, LeverInv, Types, levers
<1>2. LeverInv' /\ Seen' = Seen
  BY <1>1, WrittenOut DEF Read, Working, levers
<1>3. [Flushed EXCEPT !.size = IF grow THEN Logical ELSE @] = Seen
  BY LogicalIs, SeenIs, FlushedIs DEF Read, Working, LeverInv
<1>4. \E at \in Port!Pos, n \in 1 .. Max : ans' = Port!Content(Seen, at, n)
  BY <1>3 DEF Read, Port!Pos, Pos
<1> QED
  BY <1>2, <1>4 DEF PortStep, Port!Next, Port!Read, Read, Working

\* A write, through or held, in front, behind or in the run held so far.
LEMMA WriteLands ==
    ASSUME LeverInv, ~ failed, NEW at \in Pos, NEW n \in 1 .. Max, NEW v \in Bytes,
           at + n <= Max, WriteThrough(at, n, v) \/ Hold(at, n, v),
           Learn(Larger(Logical, at + n), Larger(Physical, at + n)),
           UNCHANGED <<grow, coalesce, meta, failed, clean, call>>
    PROVE  /\ Types' /\ Flushed' = Put(Flushed, at, n, v)
           /\ held'.n > 0 => coalesce /\ held'.from + held'.n <= Max
           /\ ~ grow => arena'.size <= Max
<1> DEFINE Bits(i) == at <= i /\ i < at + n
<1>1. logical' \in -1 .. Max /\ physical' \in Int
  BY LogicalIs, MaxIsNat DEF LeverInv, Types, Learn, sizes, Larger, Pos
<1>2. /\ Put(Flushed, at, n, v) \in [size : Nat, at : Content]
      /\ Put(Flushed, at, n, v).size = Larger(Flushed.size, at + n)
      /\ \A i \in Pos : Put(Flushed, at, n, v).at[i] = IF Bits(i) THEN v ELSE Flushed.at[i]
      /\ Put(Flushed, at, n, v).at \in Content
  <2>1. /\ Put(Flushed, at, n, v).size = Larger(Flushed.size, at + n)
        /\ Put(Flushed, at, n, v).at = [i \in Pos |-> IF at <= i /\ i < at + n THEN v ELSE Flushed.at[i]]
        /\ Put(Flushed, at, n, v) = [size |-> Put(Flushed, at, n, v).size, at |-> Put(Flushed, at, n, v).at]
    BY PutIs
  <2>2. Put(Flushed, at, n, v).at \in Content
    BY <2>1, FlushedIs DEF LeverInv, Content
  <2>3. Put(Flushed, at, n, v).size \in Nat
    BY <2>1, FlushedIs, MaxIsNat DEF LeverInv, Larger, Pos
  <2> QED
    BY <2>1, <2>2, <2>3
<1>3. ~ grow => Flushed.size <= Max /\ Larger(Flushed.size, at + n) <= Max
  BY LogicalIs, FlushedIs, MaxIsNat DEF Larger, Pos, LeverInv
<1>4. CASE WriteThrough(at, n, v)
  <2>1. Types'
    BY <1>1, <1>2, <1>4, NoRunIs DEF WriteThrough, LeverInv, Types
  <2> QED
    BY <1>2, <1>3, <1>4, <2>1, NothingHeldThen, NoRunIs DEF WriteThrough
<1>5. CASE Hold(at, n, v) /\ Continues(at, n)
  <2>1. /\ held'.from = held.from /\ held'.n = held.n + n /\ arena' = arena /\ at = RunEnd
        /\ held' \in [from : Nat, n : Nat, at : Content]
        /\ \A i \in Pos : held'.at[i] = IF Bits(i) THEN v ELSE held.at[i]
    <3>1. /\ arena' = arena /\ at = RunEnd
          /\ held' = [held EXCEPT !.n = @ + n, !.at = [i \in Pos |-> IF Bits(i) THEN v ELSE @[i]]]
      BY <1>5 DEF Hold, Continues
    <3>2. held \in [from : Nat, n : Nat, at : Content]
      BY DEF LeverInv, Types
    <3>3. [i \in Pos |-> IF Bits(i) THEN v ELSE held.at[i]] \in Content
      BY <3>2 DEF Content
    <3>4. held' = [from |-> held.from, n |-> held.n + n,
                   at |-> [i \in Pos |-> IF Bits(i) THEN v ELSE held.at[i]]]
      BY <3>1, <3>2
    <3>5. held.from \in Nat /\ held.n + n \in Nat
      BY <3>2, MaxIsNat
    <3>6. held' \in [from : Nat, n : Nat, at : Content]
      BY <3>3, <3>4, <3>5
    <3>7. held'.at = [i \in Pos |-> IF Bits(i) THEN v ELSE held.at[i]]
      BY <3>4
    <3>8. \A i \in Pos : held'.at[i] = IF Bits(i) THEN v ELSE held.at[i]
      BY <3>7
    <3>9. held'.from = held.from /\ held'.n = held.n + n
      BY <3>4
    <3> QED
      BY <3>1, <3>6, <3>8, <3>9
  <2>2. Types'
    BY <1>1, <2>1 DEF LeverInv, Types
  <2>3. held'.from + held'.n = at + n
    BY <2>1, MaxIsNat DEF LeverInv, Types, RunEnd
  <2>4. Flushed'.size = Larger(Flushed.size, at + n)
    BY <2>1, <2>2, <2>3, FlushedThen, FlushedIs, MaxIsNat DEF LeverInv, Types, Larger, RunEnd
  <2>5. \A i \in Pos : Flushed'.at[i] = IF Bits(i) THEN v ELSE Flushed.at[i]
    BY <2>1, <2>2, <2>3, FlushedThen, FlushedIs, MaxIsNat DEF LeverInv, Types, Holds, RunEnd, Pos
  <2>6. Flushed'.at = Put(Flushed, at, n, v).at
    BY <1>2, <2>2, <2>5, FlushedThen DEF Content
  <2>7. Flushed' = Put(Flushed, at, n, v)
    BY <1>2, <2>2, <2>4, <2>6, FlushedThen, PutIs
  <2>8. ~ grow => arena'.size <= Max
    BY <2>1 DEF LeverInv, SizesAreTrue, Known
  <2> QED
    BY <1>5, <2>2, <2>3, <2>7, <2>8 DEF Hold
<1>6. CASE Hold(at, n, v) /\ ~ Continues(at, n)
  <2>1. /\ held'.from = at /\ held'.n = n /\ arena' = Flushed
        /\ held' \in [from : Nat, n : Nat, at : Content]
        /\ \A i \in Pos : Bits(i) => held'.at[i] = v
    BY <1>6, MaxIsNat DEF Hold, LeverInv, Types, Content, Pos
  <2>2. Types'
    BY <1>1, <2>1, FlushedIs DEF LeverInv, Types
  <2>3. Flushed'.size = Larger(Flushed.size, at + n)
    BY <2>1, <2>2, FlushedThen
  <2>4. \A i \in Pos : Flushed'.at[i] = IF Bits(i) THEN v ELSE Flushed.at[i]
    BY <2>1, <2>2, FlushedThen
  <2>5. Flushed'.at = Put(Flushed, at, n, v).at
    BY <1>2, <2>2, <2>4, FlushedThen DEF Content
  <2>6. Flushed' = Put(Flushed, at, n, v)
    BY <1>2, <2>2, <2>3, <2>5, FlushedThen, PutIs
  <2> QED
    BY <1>3, <1>6, <2>1, <2>2, <2>6 DEF Hold
<1> QED
  BY <1>4, <1>5, <1>6

LEMMA WriteKeeps ==
    ASSUME LeverInv, Write
    PROVE  LeverInv' /\ PortStep
<1>1. PICK at \in Pos, n \in 1 .. Max, v \in Bytes :
        /\ at + n <= Max
        /\ WriteThrough(at, n, v) \/ Hold(at, n, v)
        /\ Learn(Larger(Logical, at + n), Larger(Physical, at + n))
        /\ ans' = Port!Count(n)
  BY DEF Write
<1>2. /\ ~ failed /\ ~ failed' /\ call = "in" /\ call' = "in"
      /\ UNCHANGED <<grow, coalesce, meta, failed, clean, call>>
  BY DEF Write, Working, levers
<1>3. /\ Types' /\ Flushed' = Put(Flushed, at, n, v)
      /\ held'.n > 0 => coalesce /\ held'.from + held'.n <= Max
      /\ ~ grow => arena'.size <= Max
  BY <1>1, <1>2, WriteLands
<1>4. /\ grow => /\ logical' = Larger(Seen.size, at + n)
                 /\ physical' = Larger(Flushed.size, at + n)
                 /\ logical' # -1
      /\ Known' <=> grow
      /\ Seen.size <= Flushed.size /\ Flushed.size < Seen.size + Chunk
      /\ Seen.size \in Nat /\ Flushed.size \in Nat
  BY <1>1, <1>2, <1>3, LogicalIs, FlushedIs, MaxIsNat
     DEF LeverInv, Learn, Known, Types, sizes, Larger, Pos
<1>a. /\ Put(Flushed, at, n, v).size = Larger(Flushed.size, at + n)
      /\ Put(Flushed, at, n, v).at = [i \in Pos |-> IF at <= i /\ i < at + n THEN v ELSE Flushed.at[i]]
      /\ Put(Flushed, at, n, v) = [size |-> Put(Flushed, at, n, v).size, at |-> Put(Flushed, at, n, v).at]
  BY PutIs
<1>b. /\ Put(Seen, at, n, v).size = Larger(Seen.size, at + n)
      /\ Put(Seen, at, n, v).at = [i \in Pos |-> IF at <= i /\ i < at + n THEN v ELSE Seen.at[i]]
      /\ Put(Seen, at, n, v) = [size |-> Put(Seen, at, n, v).size, at |-> Put(Seen, at, n, v).at]
      /\ Put(Seen, at, n, v) = Port!Put(Seen, at, n, v)
  BY PutIs
<1>5. Seen'.size = Larger(Seen.size, at + n)
  <2>1. CASE grow
    BY <1>4, <2>1, SeenThen
  <2>2. CASE ~ grow
    BY <1>3, <1>4, <1>a, <2>2, SeenThen, SeenIs DEF Known
  <2> QED
    BY <2>1, <2>2
<1>6. Seen' = Put(Seen, at, n, v)
  BY <1>3, <1>5, <1>a, <1>b, SeenThen, SeenIs
<1>7. RunIsHeld'
  BY <1>2, <1>3, <1>4 DEF RunIsHeld, RunEnd
<1>8. SizesAreTrue'
  BY <1>2, <1>3, <1>4, <1>a, MaxIsNat DEF SizesAreTrue, Larger, Pos
<1>9. SlackIsBlank'
  <2>1. \A i \in Pos : i >= Larger(Seen.size, at + n) =>
           (IF at <= i /\ i < at + n THEN v ELSE Flushed.at[i]) = 0
    BY <1>2, <1>4, MaxIsNat DEF LeverInv, SlackIsBlank, Larger, Pos
  <2> QED
    BY <1>3, <1>5, <1>a, <2>1 DEF SlackIsBlank
<1>10. CleanIsExact'
  BY <1>2 DEF CleanIsExact, LeverInv
<1>11. LeverInv'
  BY <1>3, <1>7, <1>8, <1>9, <1>10 DEF LeverInv
<1>12. Port!Write
  <2>1. UNCHANGED failed
    BY <1>2
  <2>2. at + n <= Max /\ ans' = Port!Count(n) /\ Seen' = Port!Put(Seen, at, n, v)
    BY <1>1, <1>6, <1>b
  <2> QED
    BY <1>2, <2>1, <2>2 DEF Port!Write, Port!Pos, Pos
<1> QED
  BY <1>11, <1>12 DEF PortStep, Port!Next

\* A truncate in either direction, into slack, over a chunk or to the size.
LEMMA TruncateCuts ==
    ASSUME LeverInv, Truncate
    PROVE  \E n \in 0 .. Max :
             /\ Types' /\ Seen' = Cut(Seen, n) /\ Flushed' = arena' /\ held'.n = 0
             /\ SizesAreTrue' /\ SlackIsBlank'
<1>1. PICK n \in 0 .. Max :
         \/ /\ ~ grow
            /\ arena' = Cut(Flushed, n)
            /\ UNCHANGED sizes
         \/ /\ grow /\ n > Logical
            /\ logical' = n
            /\ IF n > Physical THEN GrowTo(n) ELSE arena' = Flushed /\ physical' = Physical
         \/ /\ grow /\ n <= Logical
            /\ arena' = Cut(Flushed, n)
            /\ logical' = n /\ physical' = n
  BY DEF Truncate
<1>2. /\ ~ failed /\ ~ failed' /\ held' = NoRun /\ held'.n = 0
      /\ UNCHANGED <<grow, coalesce, meta, failed, clean, call>>
  BY NoRunIs DEF Truncate, Working, levers
<1>3. /\ grow => /\ Logical = Seen.size /\ Physical = Flushed.size
                 /\ Seen.size <= Flushed.size /\ Flushed.size < Seen.size + Chunk
      /\ ~ grow => Seen.size = Flushed.size
      /\ Seen.size \in 0 .. Max /\ Flushed.size \in Nat /\ n \in Nat
      /\ \A i \in Pos : i >= Seen.size => Flushed.at[i] = 0
      /\ Flushed.at \in Content
  BY <1>2, LogicalIs, FlushedIs, MaxIsNat DEF LeverInv, SlackIsBlank
<1>4. \A m \in Nat : /\ Cut(Flushed, m) \in [size : Nat, at : Content]
                      /\ Cut(Flushed, m).size = m
                      /\ \A i \in Pos : Cut(Flushed, m).at[i] = IF i < m THEN Flushed.at[i] ELSE 0
  <2> TAKE m \in Nat
  <2>1. /\ Cut(Flushed, m) = [size |-> m, at |-> Cut(Flushed, m).at]
        /\ Cut(Flushed, m).at = [i \in Pos |-> IF i < m THEN Flushed.at[i] ELSE 0]
    BY CutIs
  <2>2. Cut(Flushed, m).at \in Content
    BY <1>3, <2>1 DEF Content
  <2> QED
    BY <2>1, <2>2
<1>5. PICK m \in Nat :
         /\ arena' = Cut(Flushed, m) \/ (m = Flushed.size /\ arena' = Flushed)
         /\ m >= n
         /\ m > n => grow /\ Seen.size < n
         /\ grow => logical' = n /\ physical' = m /\ m < n + Chunk
         /\ ~ grow => UNCHANGED sizes
  <2>1. CASE ~ grow
    BY <1>1, <1>3, <2>1
  <2>2. CASE grow /\ n <= Logical
    <3>1. arena' = Cut(Flushed, n) /\ logical' = n /\ physical' = n
      BY <1>1, <1>3, <2>2, MaxIsNat
    <3> QED
      BY <1>3, <2>2, <3>1, MaxIsNat
  <2>3. CASE grow /\ n > Logical /\ n > Physical
    <3>1. PICK size \in Chunked(n) \cup {n} : arena' = Cut(Flushed, size) /\ physical' = size
      BY <1>1, <1>3, <2>3 DEF GrowTo
    <3>2. size \in Nat /\ size >= n /\ size < n + Chunk
      BY <1>3, MaxIsNat DEF Chunked
    <3>3. logical' = n /\ Seen.size < n
      BY <1>1, <1>3, <2>3
    <3> QED
      BY <1>3, <2>3, <3>1, <3>2, <3>3
  <2>4. CASE grow /\ n > Logical /\ ~ (n > Physical)
    <3>1. arena' = Flushed /\ logical' = n /\ physical' = Flushed.size
      BY <1>1, <1>3, <2>4
    <3>2. n <= Flushed.size /\ Flushed.size < n + Chunk /\ Seen.size < n
      BY <1>3, <2>4, MaxIsNat
    <3> QED
      BY <1>3, <2>4, <3>1, <3>2
  <2> QED
    BY <1>3, <2>1, <2>2, <2>3, <2>4
<1>6. /\ arena' \in [size : Nat, at : Content] /\ arena'.size = m
      /\ \A i \in Pos : arena'.at[i] = IF i < n THEN Flushed.at[i] ELSE 0
  <2>1. arena' \in [size : Nat, at : Content] /\ arena'.size = m
    BY <1>3, <1>4, <1>5, FlushedIs DEF LeverInv
  <2>2. ASSUME NEW i \in Pos
        PROVE  arena'.at[i] = IF i < n THEN Flushed.at[i] ELSE 0
    <3>1. i \in Int
      BY MaxIsNat DEF Pos
    <3>2. arena'.at[i] = (IF i < m THEN Flushed.at[i] ELSE 0) \/ (m > n /\ arena'.at[i] = Flushed.at[i])
                        \/ (m = n /\ m = Flushed.size /\ arena'.at[i] = Flushed.at[i])
      BY <1>3, <1>4, <1>5
    <3>3. m > n /\ i >= n => Flushed.at[i] = 0
      BY <1>3, <1>5, <3>1
    <3>4. m = n /\ m = Flushed.size /\ i >= n => Flushed.at[i] = 0
      BY <1>3, <3>1
    <3> QED
      BY <1>3, <1>5, <3>1, <3>2, <3>3, <3>4
  <2> QED
    BY <2>1, <2>2
<1>7. logical' \in -1 .. Max /\ physical' \in Int
  BY <1>3, <1>5, MaxIsNat DEF LeverInv, Types, sizes
<1>8. Types'
  BY <1>2, <1>6, <1>7, NoRunIs DEF LeverInv, Types
<1>9. Flushed' = arena'
  BY <1>2, <1>8, NothingHeldThen
<1>10. /\ Known' <=> grow
       /\ Seen'.size = n
  <2>1. CASE grow
    BY <1>2, <1>3, <1>5, <2>1, SeenThen DEF Known
  <2>2. CASE ~ grow
    BY <1>2, <1>3, <1>5, <1>6, <1>9, <2>2, SeenThen DEF Known
  <2> QED
    BY <2>1, <2>2
<1>11. Seen' = Cut(Seen, n)
  <2>1. /\ Cut(Seen, n).size = n
        /\ Cut(Seen, n).at = [i \in Pos |-> IF i < n THEN Seen.at[i] ELSE 0]
        /\ Cut(Seen, n) = [size |-> Cut(Seen, n).size, at |-> Cut(Seen, n).at]
    BY CutIs
  <2>2. arena'.at = [i \in Pos |-> IF i < n THEN Seen.at[i] ELSE 0]
    BY <1>6, SeenIs DEF Content
  <2> QED
    BY <1>9, <1>10, <2>1, <2>2, SeenThen
<1>12. SizesAreTrue'
  BY <1>2, <1>3, <1>5, <1>6, <1>9, <1>10, MaxIsNat DEF SizesAreTrue
<1>13. SlackIsBlank'
  BY <1>3, <1>6, <1>9, <1>10, MaxIsNat DEF SlackIsBlank, Pos
<1> QED
  BY <1>2, <1>8, <1>9, <1>11, <1>12, <1>13

LEMMA TruncateKeeps ==
    ASSUME LeverInv, Truncate
    PROVE  LeverInv' /\ PortStep
<1>1. PICK n \in 0 .. Max :
             /\ Types' /\ Seen' = Cut(Seen, n) /\ Flushed' = arena' /\ held'.n = 0
             /\ SizesAreTrue' /\ SlackIsBlank'
  BY TruncateCuts
<1>2. RunIsHeld' /\ CleanIsExact'
  BY <1>1 DEF RunIsHeld, CleanIsExact, Truncate, Working, LeverInv
<1>3. Port!Truncate
  <2>1. Cut(Seen, n) = Port!Cut(Seen, n)
    BY CutIs
  <2> QED
    BY <1>1, <2>1 DEF Port!Truncate, Truncate, Working
<1> QED
  BY <1>1, <1>2, <1>3 DEF LeverInv, PortStep, Port!Next

LEMMA CloseKeeps ==
    ASSUME LeverInv, Close
    PROVE  LeverInv' /\ PortStep
<1>1. held.n = 0 /\ held' = held /\ Flushed = arena
  BY NothingHeld DEF LeverInv, Types, RunIsHeld, Close
<1>2. CASE UNCHANGED <<arena, clean, physical>> /\ (failed \/ Slack)
  <2>1. Flushed' = Flushed /\ Known' = Known /\ Seen' = Seen
    BY <1>2 DEF Close, Flushed, Landed, Seen, Known, levers
  <2>2. ~ clean
    BY <1>2, MaxIsNat DEF LeverInv, CleanIsExact, Close
  <2>3. LeverInv'
    BY <1>1, <1>2, <2>1, <2>2
       DEF LeverInv, Types, RunIsHeld, SizesAreTrue, SlackIsBlank, CleanIsExact, Close, levers
  <2> QED
    BY <2>1, <2>3 DEF PortStep, Close
<1>3. CASE /\ ~ failed /\ clean' = TRUE
           /\ arena' = Trimmed
           /\ physical' = IF Slack THEN logical ELSE physical
  <2>1. CASE ~ Slack
    <3>1. Flushed' = Flushed /\ Known' = Known /\ Seen' = Seen /\ arena' = arena
      BY <1>3, <2>1 DEF Close, Trimmed, Flushed, Landed, Seen, Known, levers
    <3>2. Known => physical = logical
      BY <1>3, <2>1, MaxIsNat DEF LeverInv, SizesAreTrue, Slack, Types
    <3>3. LeverInv'
      BY <1>1, <1>3, <2>1, <3>1, <3>2
         DEF LeverInv, Types, RunIsHeld, SizesAreTrue, SlackIsBlank, CleanIsExact, Close, levers
    <3> QED
      BY <3>1, <3>3 DEF PortStep, Close
  <2>2. CASE Slack
    <3>1. /\ arena' = Cut(arena, logical) /\ physical' = logical /\ logical' = logical
          /\ Known /\ Known' /\ logical \in 0 .. Max /\ Seen.size = logical
          /\ ~ failed' /\ call' = "closed"
      BY <1>3, <2>2, SeenIs DEF Trimmed, Slack, Known, Close, LeverInv, Types, levers
    <3>2. /\ arena'.size = logical
          /\ arena'.at = [i \in Pos |-> IF i < logical THEN arena.at[i] ELSE 0]
          /\ arena' = [size |-> arena'.size, at |-> arena'.at]
      BY <3>1, CutIs
    <3>3. arena'.at = arena.at
      <4>1. \A i \in Pos : i >= logical => arena.at[i] = 0
        BY <1>1, <1>3, <3>1 DEF LeverInv, SlackIsBlank
      <4>2. \A i \in Pos : arena'.at[i] = arena.at[i]
        BY <3>1, <3>2, <4>1, MaxIsNat DEF Pos
      <4> QED
        BY <3>2, <4>2 DEF LeverInv, Types, Content
    <3>4. Types'
      BY <1>1, <1>3, <3>1, <3>2, <3>3, MaxIsNat DEF LeverInv, Types, Close, levers
    <3>5. Flushed' = arena' /\ Seen' = Seen
      BY <1>1, <3>1, <3>3, <3>4, NothingHeldThen, SeenIs, SeenThen
    <3>6. LeverInv'
      BY <1>1, <1>3, <3>1, <3>2, <3>3, <3>4, <3>5, MaxIsNat
         DEF LeverInv, RunIsHeld, SizesAreTrue, SlackIsBlank, CleanIsExact
    <3> QED
      BY <3>5, <3>6 DEF PortStep, Close
  <2> QED
    BY <2>1, <2>2
<1> QED
  BY <1>2, <1>3 DEF Close

-----------------------------------------------------------------------------

LEMMA StepKeeps == LeverInv /\ [LeverNext]_leverVars => LeverInv' /\ PortStep
<1> SUFFICES ASSUME LeverInv, [LeverNext]_leverVars PROVE LeverInv' /\ PortStep
  OBVIOUS
<1>1. CASE UNCHANGED leverVars
  <2>1. Flushed' = Flushed /\ Known' = Known /\ Seen' = Seen
    BY <1>1 DEF leverVars, Flushed, Landed, Seen, Known, levers, sizes
  <2>2. LeverInv'
    BY <1>1, <2>1 DEF LeverInv, Types, RunIsHeld, SizesAreTrue, SlackIsBlank, CleanIsExact,
                      RunEnd, leverVars, levers, sizes
  <2> QED
    BY <1>1, <2>1, <2>2 DEF PortStep, leverVars
<1>2. CASE BeginCall
  BY <1>2, BeginCallKeeps
<1>3. CASE EndCall
  BY <1>3, EndCallKeeps
<1>4. CASE DeferredWriteFails
  BY <1>4, DeferredWriteFailsKeeps
<1>5. CASE HandleFails
  BY <1>5, HandleFailsKeeps
<1>6. CASE Refused
  BY <1>6, RefusedKeeps
<1>7. CASE Write
  BY <1>7, WriteKeeps
<1>8. CASE Read
  BY <1>8, ReadKeeps
<1>9. CASE GetSize
  BY <1>9, GetSizeKeeps
<1>10. CASE Truncate
  BY <1>10, TruncateKeeps
<1>11. CASE Flush
  BY <1>11, FlushKeeps
<1>12. CASE Mutate
  BY <1>12, MutateKeeps
<1>13. CASE Close
  BY <1>13, CloseKeeps
<1> QED
  BY <1>1, <1>2, <1>3, <1>4, <1>5, <1>6, <1>7, <1>8, <1>9, <1>10, <1>11, <1>12, <1>13 DEF LeverNext

(* The inductive invariant: a run is held only inside a call and behind known *)
(* sizes, the two sizes are the platform's and the store's, and the slack     *)
(* between them is blank (store-levers.js arenaHandle).                       *)
THEOREM LeversSafe == LeverSpec => []LeverInv
<1>1. LeverInit => LeverInv
  BY Begins
<1>2. LeverInv /\ [LeverNext]_leverVars => LeverInv'
  BY StepKeeps
<1> QED
  BY <1>1, <1>2, PTL DEF LeverSpec

(* Between two calls of the store everything it was answered for is on the    *)
(* platform, unless a deferred write failed (view, flushPending).             *)
THEOREM NothingHeldBetweenCalls == LeverSpec => []AnsweredIsWritten
<1>1. LeverInv => AnsweredIsWritten
  <2> SUFFICES ASSUME LeverInv, call = "none", ~ failed
               PROVE  OnDisk /\ arena.size >= Seen.size
    BY DEF AnsweredIsWritten
  <2>1. held.n = 0
    BY DEF LeverInv, Types, RunIsHeld
  <2>2. Flushed = arena
    BY <2>1, NothingHeld DEF LeverInv
  <2> QED
    BY <2>2, SeenIs, MaxIsNat DEF OnDisk, LeverInv, SizesAreTrue, Types
<1> QED
  BY <1>1, LeversSafe, PTL

(* Whatever the chunk, the platform's file is less than one longer than the   *)
(* store's, and exactly as long after a clean close (growTo, close).          *)
THEOREM SlackIsBounded == LeverSpec => []SlackIsTrimmed
<1>1. LeverInv => SlackIsTrimmed
  <2> SUFFICES ASSUME LeverInv PROVE SlackIsTrimmed
    OBVIOUS
  <2>1. ASSUME ~ failed PROVE arena.size < Seen.size + Chunk
    BY <2>1, FlushedIs, SeenIs, MaxIsNat DEF LeverInv, SizesAreTrue, Types, Larger, RunEnd
  <2>2. ASSUME clean PROVE arena.size = Seen.size
    <3>1. held.n = 0 /\ ~ failed
      BY <2>2 DEF LeverInv, Types, RunIsHeld, CleanIsExact
    <3>2. Flushed = arena
      BY <3>1, NothingHeld DEF LeverInv
    <3> QED
      BY <2>2, <3>1, <3>2, SeenIs DEF LeverInv, CleanIsExact, SizesAreTrue
  <2> QED
    BY <2>1, <2>2 DEF SlackIsTrimmed
<1> QED
  BY <1>1, LeversSafe, PTL

(* No mutation of the metadata reaches the platform before the arena's bytes  *)
(* the store wrote first (orderedHandle).                                     *)
THEOREM MetadataIsLast == LeverSpec => MetadataFollowsData
<1>1. LeverInv /\ LeverInv' /\ [LeverNext]_leverVars => [meta' # meta => OnDisk']_leverVars
  <2> SUFFICES ASSUME LeverInv', LeverNext, meta' # meta PROVE OnDisk'
    BY DEF leverVars
  <2>1. Mutate
    BY DEF LeverNext, BeginCall, EndCall, DeferredWriteFails, HandleFails, Refused, Write, Read,
           GetSize, Truncate, Flush, Close
  <2>2. Flushed' = arena'
    BY <2>1, NothingHeldThen, NoRunIs DEF Mutate, LeverInv
  <2> QED
    BY <2>2, SeenThen DEF OnDisk
<1> QED
  BY <1>1, LeversSafe, PTL DEF LeverSpec, MetadataFollowsData

(* To the store the wrapper is a file, with either lever, for every size,     *)
(* chunk and buffer.                                                          *)
THEOREM ImplementsFile == LeverSpec => PortSpec
<1>1. LeverInit => Port!Init
  BY Begins
<1>2. LeverInv /\ [LeverNext]_leverVars => [Port!Next]_<<Seen, failed, ans>>
  BY StepKeeps DEF PortStep
<1> QED
  BY <1>1, <1>2, LeversSafe, PTL DEF LeverSpec, PortSpec, Port!Spec
=============================================================================
