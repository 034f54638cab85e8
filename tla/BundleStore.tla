----------------------------- MODULE BundleStore -----------------------------
(***************************************************************************)
(* How a release becomes a generation and a cached archive, and how repair *)
(* rebuilds either from the other (internal/rnlctl/bundle.go, resolver.go, *)
(* filesystem.go, repair.go repairGeneration).  A release is a tree of     *)
(* files named by its manifest; a digest is the content itself.  A bundle  *)
(* root belongs to the caller and may change while it is read, an archive  *)
(* is snapshotted first; rnlctl may die at any step and the disk may       *)
(* damage a stored file.                                                   *)
(***************************************************************************)
EXTENDS Naturals, Sequences, FiniteSets

CONSTANTS Releases,   \* versions; release v has content v in every file
          BsSums,     \* SHA256SUMS files a server may hold: sequences of [name, digest]
          MaxEdits, MaxRot, MaxBundleOps   \* bounds

ASSUME BsAssumption == {"none", "junk"} \cap Releases = {}   \* what is no content of a release

BsFiles == {"core", "node"}
BsNames == BsFiles \cup {"manifest", "extra"}
BsTree(v) == [n \in BsNames |-> IF n = "extra" THEN "none" ELSE v]
BsNoTree == [n \in BsNames |-> "none"]
BsPack(how, v) == [how |-> how, release |-> v]
BsNoPack == [how |-> "none"]
BsJunk == [how |-> "junk"]
BsNoRecord == [id |-> "none"]
BsKeys == {"identity", "digest"} \X Releases

VARIABLES bsRoot,     \* the caller's bundle directory
          bsArchive,  \* release of the archive file (local or served), or "junk"
          bsGen,      \* generations directory: a tree each
          bsCache,    \* bundle cache: a packed archive each
          bsRec,      \* committed generation record [id, key]
          bsOp,       \* the running command
          bsEdits, bsRots, bsOps

bsVars == <<bsRoot, bsArchive, bsGen, bsCache, bsRec, bsOp, bsEdits, bsRots, bsOps>>
bsOutside == <<bsRoot, bsArchive, bsEdits, bsRots>>
bsStore == <<bsGen, bsCache, bsRec>>

BsIdle == [pc |-> "idle"]

BsInit ==
    /\ bsRoot \in {BsTree(v) : v \in Releases} /\ bsArchive \in Releases
    /\ bsGen = [v \in Releases |-> BsNoTree] /\ bsCache = [k \in BsKeys |-> BsNoPack]
    /\ bsRec = BsNoRecord /\ bsOp = BsIdle /\ bsEdits = 0 /\ bsRots = 0 /\ bsOps = 0

\* validateBundleRoot: every manifested file matches its digest, nothing else.
BsValid(tree) ==
    /\ tree["manifest"] \in Releases
    /\ \A f \in BsFiles : tree[f] = tree["manifest"]
    /\ tree["extra"] = "none"

-----------------------------------------------------------------------------
BsAt(pc) == bsOp.pc = pc
BsGo(pc) == bsOp' = [bsOp EXCEPT !.pc = pc]
BsEnd == bsOp' = BsIdle
BsStays == UNCHANGED <<bsOutside, bsStore, bsOps>>

\* install/upgrade --bundle-root, --bundle --sha256, --to; repair with or
\* without a bundle.  `read` is what is left to read of a bundle root.
BsBegin ==
    /\ BsAt("idle") /\ bsOps < MaxBundleOps /\ bsOps' = bsOps + 1
    /\ \E repair \in BOOLEAN, from \in {"root", "archive", "server", "nothing"}, want \in Releases :
        /\ from = "nothing" => repair
        /\ from = "server" => ~repair
        /\ repair => bsRec # BsNoRecord
        /\ bsOp' = [pc |-> CASE from = "root" -> "readManifest"
                             [] from \in {"archive", "server"} -> from
                             [] OTHER -> "inspect",
                    repair |-> repair, want |-> want, id |-> "none", root |-> FALSE,
                    bundle |-> BsNoTree, todo |-> {}, stage |-> BsNoTree, again |-> FALSE, mixed |-> FALSE,
                    cached |-> FALSE, made |-> FALSE]
    /\ UNCHANGED <<bsOutside, bsStore>>

BsOpened == IF bsOp.repair THEN "inspect" ELSE "cache"

\* validateBundleRoot on the caller's directory: the manifest first ...
BsReadManifest ==
    /\ BsAt("readManifest")
    /\ IF bsRoot["manifest"] \in Releases
       THEN bsOp' = [bsOp EXCEPT !.pc = "readFile", !.id = bsRoot["manifest"], !.root = TRUE,
                                 !.todo = BsNames \ {"manifest"}]
       ELSE BsEnd
    /\ BsStays

\* ... then the walk, one file at a time.
BsReadFile ==
    /\ BsAt("readFile")
    /\ \/ \E n \in bsOp.todo :
            IF bsRoot[n] = BsTree(bsOp.id)[n] THEN bsOp' = [bsOp EXCEPT !.todo = @ \ {n}] ELSE BsEnd
       \/ bsOp.todo = {} /\ BsGo(BsOpened)
    /\ BsStays

\* snapshotVerifiedArchive, extractBundleArchive, validateBundleRoot: the copy
\* that was hashed is the copy that is used.
BsSnapshot(release) ==
    IF release = "junk" THEN BsEnd
    ELSE bsOp' = [bsOp EXCEPT !.pc = BsOpened, !.id = release, !.bundle = BsTree(release)]

BsOpenArchive ==
    /\ BsAt("archive")
    /\ IF bsArchive = bsOp.want THEN BsSnapshot(bsArchive) ELSE BsEnd
    /\ BsStays

\* checksumForAsset: the one well-formed digest listed for the asset.
BsChecksum(sums, asset) ==
    LET lines == SelectSeq(sums, LAMBDA line : line.name = asset) IN
    IF Len(lines) = 1 /\ lines[1].digest \in Releases THEN lines[1].digest ELSE "error"

\* Mutant: the release is not bound to the version asked for.
BsAnyVersion(release, version) == TRUE

\* bindExpectedVersion
BsBound(release, version) == release = version

\* Resolve, downloadFile, openBundle with ExpectedVersion.
BsDownload ==
    /\ BsAt("server")
    /\ \E sums \in BsSums :
        IF /\ BsChecksum(sums, bsOp.want) = bsArchive
           /\ BsBound(bsArchive, bsOp.want)
        THEN BsSnapshot(bsArchive) ELSE BsEnd
    /\ BsStays

-----------------------------------------------------------------------------
BsKey(op) == <<IF op.root THEN "identity" ELSE "digest", op.id>>

BsCacheOpens(key) == bsCache[key] \notin {BsNoPack, BsJunk}

\* cacheBundle accepts an existing file that opens to the same identity and,
\* for a verified archive, has its digest.
BsCacheMatches(op) ==
    /\ BsCacheOpens(BsKey(op))
    /\ op.root \/ bsCache[BsKey(op)] = BsPack("released", op.id)

\* The command cannot go on; the cache it made is taken back.
BsRefused ==
    /\ BsGo("refused")
    /\ bsCache' = IF bsOp.made /\ ~bsOp.repair THEN [bsCache EXCEPT ![BsKey(bsOp)] = BsNoPack] ELSE bsCache

BsUseCache(next) ==
    /\ bsCache[BsKey(bsOp)] # BsNoPack
    /\ IF BsCacheMatches(bsOp) THEN BsGo(next) /\ UNCHANGED bsCache ELSE BsRefused

BsCopyArchive(next) ==
    /\ bsCache[BsKey(bsOp)] = BsNoPack /\ ~bsOp.root
    /\ bsCache' = [bsCache EXCEPT ![BsKey(bsOp)] = BsPack("released", bsOp.id)]
    /\ bsOp' = [bsOp EXCEPT !.pc = next, !.made = TRUE]

\* writeBundleCacheArchive reads a bundle root again, file by file.
BsPackRoot ==
    /\ bsCache[BsKey(bsOp)] = BsNoPack /\ bsOp.root
    /\ bsOp' = [bsOp EXCEPT !.pc = "pack", !.todo = BsFiles \cup {"manifest"}]
    /\ UNCHANGED bsCache

BsCacheBundle ==
    /\ BsAt("cache")
    /\ BsUseCache("copy") \/ BsCopyArchive("copy") \/ BsPackRoot
    /\ UNCHANGED <<bsOutside, bsGen, bsRec, bsOps>>

BsUnchangedSince(found, digest) == found = digest

\* The tree a bundle root is read from: the caller's, or the generation that
\* repair packs again.
BsReadTree == IF bsOp.again THEN bsGen[bsOp.id] ELSE bsRoot

BsPackFile ==
    /\ BsAt("pack")
    /\ \/ /\ \E n \in bsOp.todo :
               IF BsUnchangedSince(BsReadTree[n], bsOp.id)
               THEN bsOp' = [bsOp EXCEPT !.todo = @ \ {n},
                              !.mixed = @ \/ BsReadTree[n] # bsOp.id]
               ELSE BsGo("refused")
          /\ UNCHANGED bsCache
       \/ /\ bsOp.todo = {}
          /\ bsCache' = [bsCache EXCEPT ![BsKey(bsOp)] =
                IF bsOp.mixed THEN BsJunk ELSE BsPack("packed", bsOp.id)]
          /\ bsOp' = [bsOp EXCEPT !.pc = IF bsOp.repair THEN "record" ELSE "copy", !.made = TRUE]
    /\ UNCHANGED <<bsOutside, bsGen, bsRec, bsOps>>

-----------------------------------------------------------------------------
\* copyBundleToGeneration: an existing generation must be this one; otherwise
\* the files are copied to a stage directory.
BsCopy ==
    /\ BsAt("copy")
    /\ \/ /\ bsGen[bsOp.id] # BsNoTree
          /\ IF BsValid(bsGen[bsOp.id]) THEN BsGo("record") /\ UNCHANGED bsCache ELSE BsRefused
       \/ /\ bsGen[bsOp.id] = BsNoTree
          /\ bsOp' = [bsOp EXCEPT !.pc = "stage", !.todo = BsFiles \cup {"manifest"},
                                  !.stage = BsNoTree]
          /\ UNCHANGED bsCache
    /\ UNCHANGED <<bsOutside, bsGen, bsRec, bsOps>>

BsStageFile ==
    /\ BsAt("stage")
    /\ \E n \in bsOp.todo :
        LET found == (IF bsOp.root THEN bsRoot ELSE bsOp.bundle)[n] IN
        IF found = "none" THEN BsRefused
        ELSE /\ bsOp' = [bsOp EXCEPT !.todo = @ \ {n}, !.stage = [@ EXCEPT ![n] = found]]
             /\ UNCHANGED bsCache
    /\ UNCHANGED <<bsOutside, bsGen, bsRec, bsOps>>

BsRevalidated(stage, id) == BsValid(stage) /\ stage["manifest"] = id

\* The completed stage is validated again and renamed into place.
BsPublish ==
    /\ BsAt("stage") /\ bsOp.todo = {}
    /\ IF BsRevalidated(bsOp.stage, bsOp.id)
       THEN /\ bsGen' = [bsGen EXCEPT ![bsOp.id] = bsOp.stage]
            /\ bsOp' = [bsOp EXCEPT !.pc = IF bsOp.repair THEN "recache" ELSE "record"]
            /\ UNCHANGED bsCache
       ELSE BsRefused /\ UNCHANGED bsGen
    /\ UNCHANGED <<bsOutside, bsRec, bsOps>>

\* The record is saved with the state; the command has succeeded.
BsRecord ==
    /\ BsAt("record")
    /\ bsRec' = [id |-> bsOp.id, key |-> BsKey(bsOp)] /\ BsEnd
    /\ UNCHANGED <<bsOutside, bsGen, bsCache, bsOps>>

BsGiveUp ==
    /\ BsAt("refused") /\ BsEnd
    /\ BsStays

-----------------------------------------------------------------------------
\* repairGeneration: which of generation, cache and supplied bundle is good.
BsInspect ==
    /\ BsAt("inspect")
    /\ LET supplied == bsOp.id = bsRec.id
           cached == BsCacheOpens(bsRec.key)
           op == IF supplied THEN [bsOp EXCEPT !.cached = cached]
                 ELSE [bsOp EXCEPT !.cached = cached, !.id = bsRec.id, !.root = FALSE,
                         !.bundle = IF cached THEN BsTree(bsCache[bsRec.key].release) ELSE BsNoTree] IN
       CASE BsValid(bsGen[bsRec.id]) -> bsOp' = [op EXCEPT !.pc = "recache",
                !.again = ~supplied, !.root = @ \/ ~supplied]
         [] OTHER -> IF supplied \/ cached THEN bsOp' = [op EXCEPT !.pc = "remove"]
                     ELSE BsGo("refused")
    /\ BsStays

BsRemoveKeeps(key) == bsCache

\* os.RemoveAll of the damaged generation, before it is copied again.
BsRemoveGeneration ==
    /\ BsAt("remove")
    /\ bsGen' = [bsGen EXCEPT ![bsOp.id] = BsNoTree] /\ bsCache' = BsRemoveKeeps(bsRec.key)
    /\ BsGo("copy")
    /\ UNCHANGED <<bsOutside, bsRec, bsOps>>

\* A cache that does not open is removed and written again.
BsRecache ==
    /\ BsAt("recache")
    /\ IF bsOp.cached THEN BsEnd /\ UNCHANGED bsCache
       ELSE BsGo("rebuild") /\ bsCache' = [bsCache EXCEPT ![bsRec.key] = BsNoPack]
    /\ UNCHANGED <<bsOutside, bsGen, bsRec, bsOps>>

BsRebuild ==
    /\ BsAt("rebuild")
    /\ BsUseCache("record") \/ BsCopyArchive("record") \/ BsPackRoot
    /\ UNCHANGED <<bsOutside, bsGen, bsRec, bsOps>>

-----------------------------------------------------------------------------
\* rnlctl dies: its private directories are abandoned.
BsCrash ==
    /\ ~BsAt("idle") /\ BsEnd
    /\ BsStays

\* The owner of the bundle directory or of the archive changes it.
BsEdit ==
    /\ bsEdits < MaxEdits /\ bsEdits' = bsEdits + 1
    /\ \/ \E n \in BsNames, c \in Releases \cup {"none"} : bsRoot' = [bsRoot EXCEPT ![n] = c] /\ UNCHANGED bsArchive
       \/ bsArchive' \in Releases \cup {"junk"} /\ UNCHANGED bsRoot
    /\ UNCHANGED <<bsStore, bsOp, bsRots, bsOps>>

\* A stored file is damaged.
BsRot ==
    /\ bsRots < MaxRot /\ bsRots' = bsRots + 1
    /\ \/ \E v \in Releases, f \in BsFiles :
            bsGen[v] # BsNoTree /\ bsGen' = [bsGen EXCEPT ![v] = [@ EXCEPT ![f] = "junk"]] /\ UNCHANGED bsCache
       \/ \E k \in BsKeys :
            BsCacheOpens(k) /\ bsCache' = [bsCache EXCEPT ![k] = BsJunk] /\ UNCHANGED bsGen
    /\ UNCHANGED <<bsRoot, bsArchive, bsRec, bsOp, bsEdits, bsOps>>

BsNext ==
    \/ BsBegin \/ BsReadManifest \/ BsReadFile \/ BsOpenArchive \/ BsDownload
    \/ BsCacheBundle \/ BsPackFile \/ BsCopy \/ BsStageFile \/ BsPublish \/ BsRecord \/ BsGiveUp
    \/ BsInspect \/ BsRemoveGeneration \/ BsRecache \/ BsRebuild
    \/ BsCrash \/ BsEdit \/ BsRot

BsSpec == BsInit /\ [][BsNext]_bsVars

-----------------------------------------------------------------------------
\* A generation, once visible, is exactly the release it is named after, even
\* if the caller's directory changed between its validation and the copy.
BsVisibleIntact ==
    bsRots = 0 => \A v \in Releases : bsGen[v] \in {BsNoTree, BsTree(v)}

\* A cache file always opens to the release it is filed under, even if the
\* caller's directory changed while it was packed.
BsCacheIntact ==
    bsRots = 0 => \A k \in BsKeys : bsCache[k] \in {BsNoPack, BsPack("packed", k[2]), BsPack("released", k[2])}

\* As long as at most one file was damaged, the committed release can still
\* be had from its generation or its cache: repair, interrupted anywhere,
\* never gives up one before it has the other.
BsOneCopyLeft ==
    bsRec # BsNoRecord /\ bsRots < 2 => BsValid(bsGen[bsRec.id]) \/ BsCacheOpens(bsRec.key)

\* A command that holds a verified archive, or repairs with one good copy, is
\* never refused because of what earlier commands, crashes included, left.
BsNeverWedged ==
    BsAt("refused") /\ bsRots < (IF bsOp.repair THEN 2 ELSE 1) => bsOp.root /\ ~bsOp.again

\* `upgrade --to v` records v, whatever the server listed and served.
BsVersionIsBound ==
    [][(bsOp.pc = "server" /\ bsOp'.pc = "cache") => bsOp'.id = bsOp.want]_bsVars

\* What the store promises: what is filed is what it is named, the committed
\* release stays available, and no leftover blocks a command.
BsPromise ==
    /\ [](BsVisibleIntact /\ BsCacheIntact /\ BsOneCopyLeft /\ BsNeverWedged)
    /\ BsVersionIsBound

-----------------------------------------------------------------------------
(* The inductive invariant behind BsPromise *)

BsTrees == [BsNames -> Releases \cup {"none", "junk"}]
BsPacks == [how : {"packed", "released"}, release : Releases] \cup {BsNoPack, BsJunk}
BsRecords == [id : Releases, key : BsKeys]
BsCommands ==
    [pc : {"readManifest", "readFile", "archive", "server", "cache", "pack", "copy", "stage", "record", "refused",
           "inspect", "remove", "recache", "rebuild"},
     repair : BOOLEAN, want : Releases, id : Releases \cup {"none"}, root : BOOLEAN, bundle : BsTrees,
     todo : SUBSET BsNames, stage : BsTrees, again : BOOLEAN, mixed : BOOLEAN, cached : BOOLEAN, made : BOOLEAN]

BsTypeOK ==
    /\ bsRoot \in BsTrees /\ bsArchive \in Releases \cup {"junk"} /\ bsRots \in Nat
    /\ bsGen \in [Releases -> BsTrees] /\ bsCache \in [BsKeys -> BsPacks]
    /\ bsRec \in BsRecords \cup {BsNoRecord} /\ bsOp \in BsCommands \cup {BsIdle}

\* What is filed is what it is named, or damaged; the file of a digest is never
\* one that rnlctl packed.
BsFiled ==
    /\ \A v \in Releases :
        \/ bsGen[v] = BsNoTree
        \/ /\ bsGen[v]["manifest"] = v /\ bsGen[v]["extra"] = "none"
           /\ \A f \in BsFiles : bsGen[v][f] \in {v, "junk"}
    /\ \A k \in BsKeys :
        \/ bsCache[k] \in {BsNoPack, BsJunk, BsPack("released", k[2])}
        \/ k[1] = "identity" /\ bsCache[k] = BsPack("packed", k[2])
    /\ BsVisibleIntact /\ BsCacheIntact

\* Damage is counted: after one rot at most one thing is wrong.
BsOnlyJunk(key) == \A k \in BsKeys : bsCache[k] = BsJunk => k = key
BsKept(key) ==
    /\ bsRots = 0 => BsCacheOpens(key)
    /\ bsRots < 2 => BsCacheOpens(key) \/ BsOnlyJunk(key)
BsSafe(id, key) ==
    /\ bsRots = 0 => BsValid(bsGen[id]) /\ BsCacheOpens(key)
    /\ bsRots < 2 => BsCacheOpens(key) \/ (BsValid(bsGen[id]) /\ BsOnlyJunk(key))
\* The generation alone would do: the cache file may be taken back.
BsSpare(id, key) == bsRots # 0 /\ (bsRots < 2 => BsValid(bsGen[id]) /\ BsOnlyJunk(key))

BsRecordSafe == bsRec # BsNoRecord => bsRec.key[2] = bsRec.id /\ BsSafe(bsRec.id, bsRec.key)

\* What a command knows: the release it holds, the cache file it looked at, and
\* what it has filed so far.
BsHas(op) == op.id \in Releases /\ (~op.root => op.bundle = BsTree(op.id))
BsRepairs(op) == op.repair /\ op.id \in Releases /\ op.id = bsRec.id
BsLooked(op) == ~op.cached => ~BsCacheOpens(bsRec.key)
BsFiling(op) ==
    /\ BsHas(op) /\ ~op.again
    /\ op.repair => BsRepairs(op) /\ BsLooked(op) /\ bsGen[op.id] = BsNoTree
    /\ ~op.repair =>
        /\ BsKept(BsKey(op))
        /\ op.made /\ bsRec # BsNoRecord /\ bsRec.key = BsKey(op) => BsSpare(bsRec.id, bsRec.key)

BsKnows(op) ==
    /\ ~op.mixed
    /\ op.repair => bsRec # BsNoRecord
    /\ op.again => op.root /\ op.repair /\ op.pc \in {"recache", "rebuild", "pack", "record", "refused"}
    /\ op.pc \in {"readManifest", "readFile", "archive", "server", "cache"} => ~op.made
    /\ op.pc = "readFile" => op.root /\ op.id \in Releases
    /\ op.pc = "inspect" => op.repair /\ (op.id = "none" \/ BsHas(op))
    /\ op.pc = "cache" => ~op.repair /\ BsHas(op)
    /\ op.pc = "pack" =>
        /\ op.id \in Releases /\ op.root /\ op.todo \subseteq BsFiles \cup {"manifest"}
        /\ bsCache[BsKey(op)] = BsNoPack
        /\ op.repair => BsRepairs(op) /\ bsCache[bsRec.key] = BsNoPack
    /\ op.pc \in {"copy", "stage"} => BsFiling(op)
    /\ op.pc = "stage" =>
        /\ op.todo \subseteq BsFiles \cup {"manifest"} /\ op.stage["extra"] = "none"
        /\ ~op.root => \A n \in (BsFiles \cup {"manifest"}) \ op.todo : op.stage[n] = op.id
    /\ op.pc = "remove" => BsRepairs(op) /\ BsHas(op) /\ ~op.again /\ BsLooked(op) /\ ~BsValid(bsGen[op.id])
    /\ op.pc = "recache" => BsRepairs(op) /\ BsLooked(op)
    /\ op.pc = "rebuild" => BsRepairs(op) /\ bsCache[bsRec.key] = BsNoPack
    /\ op.pc = "record" => op.id \in Releases /\ BsSafe(op.id, BsKey(op))
    /\ op.pc = "refused" /\ bsRots < (IF op.repair THEN 2 ELSE 1) => op.root /\ ~op.again

BsInv == BsTypeOK /\ BsFiled /\ BsRecordSafe /\ (bsOp # BsIdle => BsKnows(bsOp))

=============================================================================
