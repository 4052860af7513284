------------------------------ MODULE AssetSync ------------------------------
(***************************************************************************)
(* What a clone serves and what it says it serves: the scripts that fill   *)
(* public/pgrust/ and src/vendor/pgrust/ from a release or from checkouts, *)
(* that package a release, and that package the store engine.              *)
(*                                                                         *)
(* A file is the build it came from: a commit and whether its tree was     *)
(* dirty. One script runs at a time; any step may be its last. An option   *)
(* of the command line is chosen where the script first uses it.           *)
(***************************************************************************)
EXTENDS Integers, Sequences, FiniteSets

CONSTANTS Commits,       \* of pgrust, and of pgxsinkit
          None,
          MaxSyncs       \* bound: runs of sync:pgrust in one behaviour

ASSUME NoneAssumption == None \notin Commits

VARIABLES public,    \* public/pgrust/: the assets, by the build they are of
          host,      \* public/pgrust/host/: the host runtime
          alts,      \* public/pgrust/alt/<id>/: the alternate threads modules
          vendor,    \* src/vendor/pgrust/*.js
          version,   \* src/vendor/pgrust/VERSION
          source,    \* src/vendor/pgrust/SOURCE.md: the vendor half and two blocks
          releases,  \* GitHub's releases, oldest first
          bundle,    \* tmp/pgrust-assets/: what pgrust:bundle has packaged
          dropin,    \* the directory engine:package writes into
          job,       \* the script that runs
          synced,    \* history: alternates asked of the last sync if it ended well
          stopped,   \* history: what a sync was stopped in the middle of
          left       \* syncs that may still run

clone == <<public, host, alts, vendor, version, source>>
outside == <<releases, bundle, dropin>>
assetVars == <<clone, outside, job, synced, stopped, left>>

Build(c, d) == [of |-> c, dirty |-> d]
Trees == {Build(c, d) : c \in Commits, d \in BOOLEAN}
Unknown == Build(None, TRUE)

(* RELEASE_ASSETS, in order, and the part of it a checkout builds.            *)
ReleaseAssets == <<"wasm", "threads", "image", "store">>
AssetFiles == <<"wasm", "threads", "image">>
Assets == {"wasm", "threads", "image", "store"}
Core == {"wasm", "threads", "image"}
Optional == {"threads", "store"}
EngineAssets == <<"threads", "image", "store">>

(* A release: its tag's commit, its files, what it says of the store bundle.  *)
Release(c, opt, draft) ==
    [tag |-> c, draft |-> draft,
     files |-> [a \in Assets |-> IF a \in Optional \ opt THEN None ELSE Build(c, FALSE)],
     store |-> IF "store" \in opt THEN Build(c, FALSE) ELSE None]
NoRelease == [tag |-> None, draft |-> FALSE, files |-> [a \in Assets |-> None], store |-> None]

Released == {releases[i] : i \in DOMAIN releases}
Has(r, a) == r.files[a] # None

(* resolveLatestAssetTag: the newest that is not a draft.                     *)
Published == SelectSeq(releases, LAMBDA r : ~ r.draft)
Latest == IF Published = << >> THEN None ELSE Published[Len(Published)].tag

(* The release a download base leads to: a draft has no public assets.        *)
ReleaseAt(tag) == IF \E r \in Released : r.tag = tag /\ ~ r.draft
           THEN CHOOSE r \in Released : r.tag = tag /\ ~ r.draft
           ELSE NoRelease

Idle == [pc |-> "idle", rel |-> NoRelease, i |-> 1, from |-> None, asked |-> {}, left |-> {}]
EmptyDropIn == [threads |-> None, image |-> None, store |-> None, host |-> None]

(* A fresh clone: the committed JS and records, no assets.                    *)
Init ==
    /\ \E c \in Commits :
         /\ vendor = Build(c, FALSE) /\ version = Build(c, FALSE)
         /\ source = [vendor |-> Build(c, FALSE), store |-> Build(c, FALSE), assets |-> Build(c, FALSE)]
    /\ public = [a \in Assets |-> None] /\ host = None
    /\ alts = [c \in Commits |-> None]
    /\ \E c \in Commits :
         \/ releases = <<Release(c, Optional, FALSE)>>
         \/ \E d \in Commits \ {c}, opt \in SUBSET Optional, draft \in BOOLEAN :
              /\ draft => opt = Optional
              /\ releases = <<Release(c, Optional, FALSE), Release(d, opt, draft)>>
    /\ bundle = NoRelease /\ dropin = EmptyDropIn
    /\ job = Idle /\ synced = None /\ stopped = {} /\ left = MaxSyncs

-----------------------------------------------------------------------------
(* A script's start, its way from step to step, and its end *)

On(pc) == job.pc = pc
Go(pc) == job' = [job EXCEPT !.pc = pc, !.i = 1]
Advance == job' = [job EXCEPT !.i = @ + 1]
Exit == job' = Idle

Starts(j) == /\ On("idle") /\ left > 0
             /\ left' = left - 1
             /\ job' = j
             /\ synced' = None
             /\ UNCHANGED <<clone, outside, stopped>>

(* A step of a running script that changes nothing but what it lists.         *)
Keeps(files) == UNCHANGED files /\ UNCHANGED <<outside, synced, stopped, left>>

(* fail(), or a thrown error: the script ends where it is.                    *)
Fails == Exit /\ UNCHANGED <<clone, outside, synced, stopped, left>>

(* Some binaries are of the new build, and some of the old.                   *)
Copying == job.pc \in {"install", "assets"} /\ job.i \in 2 .. Len(AssetFiles)

(* A store bundle is in place and SOURCE.md does not tell of it yet.          *)
Unrecorded == \/ On("install") /\ job.i > Len(ReleaseAssets)
              \/ On("record") \/ On("store record")

(* Interrupted, or a write that failed: what is written stays written.        *)
Killed == /\ job.pc \notin {"idle", "publish"}
          /\ Exit
          /\ stopped' = stopped \cup (IF Copying THEN {"copy"} ELSE {})
                               \cup (IF Unrecorded THEN {"record"} ELSE {})
          /\ UNCHANGED <<clone, outside, synced, left>>

-----------------------------------------------------------------------------
(* sync:pgrust --release: syncFromRelease and fetchReleaseBundle *)

StartRelease == Starts([Idle EXCEPT !.pc = "resolve"])

Resolve == /\ On("resolve")
           /\ \E tag \in Commits \cup {Latest} :
                IF ReleaseAt(tag) = NoRelease THEN Fails
                ELSE /\ job' = [job EXCEPT !.pc = "fetch", !.rel = ReleaseAt(tag)]
                     /\ Keeps(clone)

(* An asset of the release waits in staging. An optional one the release does *)
(* not carry is removed at once. What does not verify ends the script.       *)
FetchedInPlace(a) == [public EXCEPT ![a] = job.rel.files[a]]
FetchedBesideStale(a) == public
Fetched(a) == IF Has(job.rel, a) THEN public ELSE [public EXCEPT ![a] = None]

Fetch == /\ On("fetch") /\ job.i <= Len(ReleaseAssets)
         /\ LET a == ReleaseAssets[job.i] IN
            /\ Has(job.rel, a) \/ a \in Optional
            /\ public' = Fetched(a)
         /\ Advance
         /\ Keeps(<<host, alts, vendor, version, source>>)

FetchFails == On("fetch") /\ job.i <= Len(ReleaseAssets) /\ Fails

Verified == On("fetch") /\ job.i > Len(ReleaseAssets) /\ Go("install") /\ Keeps(clone)

Installed(a) == IF Has(job.rel, a) THEN [public EXCEPT ![a] = job.rel.files[a]] ELSE public

Install ==
    /\ On("install")
    /\ IF job.i > Len(ReleaseAssets) THEN Go("record") /\ UNCHANGED public
       ELSE public' = Installed(ReleaseAssets[job.i]) /\ Advance
    /\ Keeps(<<host, alts, vendor, version, source>>)

(* recordRelease: the blocks, then VERSION. The vendor half stays.            *)
RecordBlocks ==
    /\ On("record")
    /\ source' = [source EXCEPT !.assets = Build(job.rel.tag, FALSE), !.store = job.rel.store]
    /\ Go("version")
    /\ Keeps(<<public, host, alts, vendor, version>>)

RecordVersion ==
    /\ On("version")
    /\ version' = Build(job.rel.tag, FALSE)
    /\ Go("host")
    /\ Keeps(<<public, host, alts, vendor, source>>)

-----------------------------------------------------------------------------
(* sync:pgrust from a checkout: syncVendor and syncAssets. The build outputs  *)
(* are of the tree as it stands.                                             *)

StartCheckout == \E from \in Trees : Starts([Idle EXCEPT !.pc = "vendor", !.from = from])

VendorJs == /\ On("vendor")
            /\ vendor' = job.from
            /\ Go("vendor version")
            /\ Keeps(<<public, host, alts, version, source>>)

VendorVersion == /\ On("vendor version")
                 /\ version' = job.from
                 /\ Go("vendor record")
                 /\ Keeps(<<public, host, alts, vendor, source>>)

VendorRecord == /\ On("vendor record")
                /\ source' = [source EXCEPT !.vendor = job.from]
                /\ \/ Go("assets")
                   \/ Exit   \* --vendor-only
                /\ Keeps(<<public, host, alts, vendor, version>>)

AssetsMissing == On("assets") /\ job.i = 1 /\ Fails

CopyAssets ==
    /\ On("assets")
    /\ IF job.i > Len(AssetFiles) THEN Go("assets record") /\ UNCHANGED public
       ELSE public' = [public EXCEPT ![AssetFiles[job.i]] = job.from] /\ Advance
    /\ Keeps(<<host, alts, vendor, version, source>>)

RecordAssets == /\ On("assets record")
                /\ source' = [source EXCEPT !.assets = job.from]
                /\ Go("host")
                /\ Keeps(<<public, host, alts, vendor, version>>)

-----------------------------------------------------------------------------
(* Both ways on: the host runtime, the store bundle, the alternates *)

SyncHostRuntime ==
    /\ On("host")
    /\ host' = vendor
    /\ IF Has(job.rel, "store") THEN Go("alternates") ELSE Go("store")
    /\ Keeps(<<public, alts, vendor, version, source>>)

(* syncStoreBundle: a missing bundle leaves file and block as they are.       *)
SyncStoreBundle ==
    /\ On("store")
    /\ \/ Go("alternates") /\ UNCHANGED public
       \/ \E pgx \in Trees : /\ job' = [job EXCEPT !.pc = "store record", !.from = pgx]
                            /\ public' = [public EXCEPT !["store"] = pgx]
    /\ Keeps(<<host, alts, vendor, version, source>>)

RecordStore ==
    /\ On("store record")
    /\ \E rec \in {job.from, Unknown} : source' = [source EXCEPT !.store = rec]
    /\ Go("alternates")
    /\ Keeps(<<public, host, alts, vendor, version>>)

DropAlternates ==
    /\ On("alternates")
    /\ \E asked \in SUBSET Commits :
         /\ alts' = [c \in Commits |-> IF c \in asked THEN alts[c] ELSE None]
         /\ job' = [Idle EXCEPT !.pc = "alternate", !.asked = asked, !.left = asked]
    /\ Keeps(<<public, host, vendor, version, source>>)

FetchAlternate ==
    /\ On("alternate")
    /\ \E c \in job.left :
         \/ Fails
         \/ /\ Has(ReleaseAt(c), "threads")
            /\ alts' = [alts EXCEPT ![c] = ReleaseAt(c).files["threads"]]
            /\ job' = [job EXCEPT !.left = @ \ {c}]
            /\ Keeps(<<public, host, vendor, version, source>>)

SyncEnds == /\ On("alternate") /\ job.left = {}
            /\ synced' = job.asked
            /\ Exit
            /\ UNCHANGED <<clone, outside, stopped, left>>

-----------------------------------------------------------------------------
(* pgrust:bundle, and publishing what it packaged *)

(* resolveCommit: VERSION, which names a clean commit, and the vendor half.   *)
Attributed == ~ version.dirty /\ source.vendor.of = version.of

(* resolveStore: a bundle that is packaged needs a clean commit on record.    *)
DirtyAttributed == source.store # None
StoreAttributed == source.store # None /\ ~ source.store.dirty

Complete == /\ \A a \in Assets \ Optional : public[a] # None
            /\ public["store"] # None => StoreAttributed

Bundle ==
    /\ On("idle")
    /\ Attributed /\ Complete
    /\ bundle' = [tag |-> version.of, draft |-> FALSE, files |-> public,
                  store |-> IF public["store"] = None THEN None ELSE source.store]
    /\ job' = [Idle EXCEPT !.pc = "publish"]
    /\ UNCHANGED <<clone, releases, dropin, synced, stopped, left>>

(* The printed `gh release create`, run by hand: a tag is published once.     *)
Publish == /\ On("publish")
           /\ releases' = IF \E r \in Released : r.tag = bundle.tag THEN releases ELSE Append(releases, bundle)
           /\ bundle' = NoRelease
           /\ Exit
           /\ UNCHANGED <<clone, dropin, synced, stopped, left>>

-----------------------------------------------------------------------------
(* engine:package: the drop-in's asset tree is emptied, then copied *)

Packaged == /\ \A i \in DOMAIN EngineAssets : public[EngineAssets[i]] # None
            /\ host # None

PackageEngine == /\ Packaged
                 /\ On("idle")
                 /\ dropin' = EmptyDropIn
                 /\ job' = [Idle EXCEPT !.pc = "package"]
                 /\ UNCHANGED <<clone, releases, bundle, synced, stopped, left>>

PackageCopy ==
    /\ On("package")
    /\ IF job.i > Len(EngineAssets)
       THEN dropin' = [dropin EXCEPT !.host = host] /\ Exit
       ELSE dropin' = [dropin EXCEPT ![EngineAssets[job.i]] = public[EngineAssets[job.i]]] /\ Advance
    /\ UNCHANGED <<clone, releases, bundle, synced, stopped, left>>

-----------------------------------------------------------------------------
Next == \/ StartRelease \/ Resolve \/ Fetch \/ FetchFails \/ Verified \/ Install
        \/ RecordBlocks \/ RecordVersion
        \/ StartCheckout \/ VendorJs \/ VendorVersion \/ VendorRecord
        \/ AssetsMissing \/ CopyAssets \/ RecordAssets
        \/ SyncHostRuntime \/ SyncStoreBundle \/ RecordStore
        \/ DropAlternates \/ FetchAlternate \/ SyncEnds
        \/ Bundle \/ Publish \/ PackageEngine \/ PackageCopy \/ Killed

Spec == Init /\ [][Next]_assetVars

-----------------------------------------------------------------------------
(* After a sync that ended well, whatever failed or was interrupted before,   *)
(* the binaries are all of the checkout's build the assets block names, or    *)
(* are just those of the release it names, the served host is the vendored    *)
(* one, and the alternates are those asked for. The store bundle is the       *)
(* recorded one unless a sync was ever stopped between its copy and its       *)
(* record (sync-pgrust.ts main, recordRelease, syncAlternates).               *)
SyncedIsRecorded ==
    synced # None =>
       /\ \/ \A a \in Core : public[a] = source.assets
          \/ \E r \in Released : /\ ~ r.draft /\ r.tag = source.assets.of
                                 /\ \A a \in Core : public[a] = r.files[a]
       /\ host = vendor
       /\ \A c \in Commits : alts[c] # None <=> c \in synced
       /\ ("record" \notin stopped /\ public["store"] # None)
             => source.store \in {public["store"], Unknown}

(* Unless a sync was stopped when it had copied some of the binaries and not  *)
(* all, no two binaries served are of different builds, but while they are    *)
(* copied, however a download fails and whatever else is stopped              *)
(* (fetchReleaseBundle); nor has a drop-in ever one build's module beside     *)
(* another's image, also when packaging is interrupted                        *)
(* (package-store-engine.ts main).                                            *)
NeverMixed ==
    "copy" \notin stopped =>
       /\ ~ Copying =>
             \A a, b \in Core : public[a] # None /\ public[b] # None => public[a] = public[b]
       /\ dropin.threads # None /\ dropin.image # None => dropin.threads = dropin.image

(* A published store bundle is the clean commit its release names, over any   *)
(* syncs from releases and checkouts, unless one of them was stopped between  *)
(* the copy of a store bundle and its record (package-pgrust-assets.ts        *)
(* resolveStore, sync-pgrust.ts:468, :473).                                   *)
PublishedStoreIsSource ==
    "record" \notin stopped =>
       \A r \in Released : r.files["store"] = r.store /\ (r.store # None => ~ r.store.dirty)

(* "The sync wrote that block when it installed the bundle, so it already     *)
(* names the commit these bytes came from" (package-pgrust-assets.ts:240-243): *)
(* it may have been stopped before it wrote the block.                        *)
BundledStoreIsSource == bundle.files["store"] = bundle.store
=============================================================================
